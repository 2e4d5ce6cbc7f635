----------------------------- MODULE MqttClient -----------------------------
(***************************************************************************)
(* The connection of the kawaii-mqtt client: the application's thread      *)
(* ("app", kawaii_mqtt_demo), which connects once, publishes, subscribes   *)
(* and may disconnect, and the client's own thread ("mqtt",                *)
(* mqtt_yield_thread), which reads, keeps the connection alive and         *)
(* restores it.  What the packets are about is the subject of MqttAcks.    *)
(*                                                                         *)
(* Time is counted in ticks.  The mqtt thread is the most urgent one, so   *)
(* the app thread only runs while it blocks, and its computations take no  *)
(* time.  A read of a socket that is closed does not block (at_recvfrom()  *)
(* returns at once): the mqtt thread then spins while the clock runs.      *)
(*                                                                         *)
(* A send blocks for as long as the AT device takes, which mqtt_cmd_       *)
(* timeout does not limit: at_sendto() has no use for SO_SNDTIMEO.  A      *)
(* packet is taken to arrive as a whole, so a read ends within its time.   *)
(*                                                                         *)
(* Timers are what they have left to run.  platform_timer.c compares times *)
(* as plain numbers, so this covers an uptime below 2^32 ms (49 days).     *)
(***************************************************************************)
EXTENDS Integers

CONSTANTS KeepAlive,   \* mqtt_keep_alive_interval
          CmdTimeout,  \* mqtt_cmd_timeout
          SendTime,    \* how long the AT device may take to send a packet
          RetryTime,   \* mqtt_reconnect_try_duration
          MaxSends,    \* how many records one mqtt_ack_list_scan(), or handlers
                       \* one mqtt_try_resubscribe(), has to deal with
          Latency,     \* how late the broker's PINGRESP may be
          MaxSockets   \* how many sockets the network stack has

ASSUME MqttAssumption ==
  /\ KeepAlive \in Nat
  /\ CmdTimeout \in Nat
  /\ SendTime \in Nat \ {0}
  /\ RetryTime \in Nat
  /\ MaxSends \in Nat \ {0}
  /\ Latency \in Nat
  /\ MaxSockets \in Nat
  /\ Latency < CmdTimeout
  /\ 3 * SendTime < KeepAlive

VARIABLES
  state,     \* mqtt_client_state
  thread,    \* mqtt_thread: "none" (NULL), "running", "gone" (terminated)
  net,       \* the client's socket: its connection is "up", "silent" (lost
             \* without notice) or "closed" (by the peer); "gone": the socket
             \* is closed, its number still stored; "none": socket = -1
  open,      \* sockets that are allocated
  stale,     \* the socket that mqtt_publish() is closing is no longer net's
  pc,        \* what each thread does next
  timer,     \* time left of the blocking call each thread is in
  lock,      \* mqtt_write_lock: "free" or its owner
  todo,      \* packets the mqtt thread has left to send, one after the other
  failed,    \* the last subscription of mqtt_try_resubscribe() has failed
  ping,      \* mqtt_ping_outstanding
  sent,      \* time left of mqtt_last_sent, -1 when expired
  received,  \* time left of mqtt_last_received, -1 when expired
  pong,      \* time within which a PINGRESP comes, -1 when none is under way
  dead,      \* history: how long the client has taken a dead link for alive
  spin       \* history: how long the mqtt thread has not let others run

socket == <<net, open, stale>>
work == <<todo, failed>>
clock == <<sent, received, pong, dead, spin>>

vars == <<state, thread, socket, pc, timer, lock, work, ping, clock>>

Threads == {"app", "mqtt"}

Init ==
  /\ state = "INITIALIZED"
  /\ thread = "none"
  /\ net = "none"
  /\ open = 0
  /\ stale = FALSE
  /\ pc = [p \in Threads |-> IF p = "app" THEN "start" ELSE "off"]
  /\ timer = [p \in Threads |-> 0]
  /\ lock = "free"
  /\ todo = 0
  /\ failed = FALSE
  /\ ping = 0
  /\ sent = -1
  /\ received = -1
  /\ pong = -1
  /\ dead = 0
  /\ spin = 0

(* A thread goes on, with a call that takes at most t if it blocks. *)
Call(p, where, t) ==
  /\ pc' = [pc EXCEPT ![p] = where]
  /\ timer' = [timer EXCEPT ![p] = t]

Goto(p, where) == Call(p, where, 0)

(* The client's socket is allocated. *)
HasSocket == net \in {"up", "silent", "closed"}

(* mqtt_publish() waits in closesocket(), with the number it has read. *)
AppCloses == pc["app"] = "close"

(* Mutant: the socket is closed whether there is one or not. *)
Release_Always ==
  /\ open' = open - 1
  /\ net' = "none"
  /\ stale' = AppCloses
  /\ pong' = -1

(* What network_release() has done when it returns to the mqtt thread. *)
Release ==
  /\ open' = IF HasSocket THEN open - 1 ELSE open
  /\ net' = "none"
  /\ stale' = AppCloses
  /\ pong' = -1

(* A thread gets mqtt_write_lock, and a send begins. *)
BeginSend(p, from, to) ==
  /\ pc[p] = from
  /\ lock = "free"
  /\ lock' = p
  /\ Call(p, to, SendTime)
  /\ UNCHANGED <<state, thread, socket, work, ping, clock>>

(* mqtt_send_packet(): a lost link may still take the packet, a closed one *)
(* refuses it, and a live one may fail as well.  A packet that is sent     *)
(* restarts mqtt_last_sent.                                                *)
SendPacket(ok) ==
  /\ ok => net \in {"up", "silent"}
  /\ sent' = IF ok THEN KeepAlive ELSE sent
  /\ lock' = "free"

-----------------------------------------------------------------------------
(* mqtt_ack_list_scan() and mqtt_try_resubscribe(): packets sent in a row  *)

(* A scan has n records to deal with.  After it the round ends; after a    *)
(* reconnection that failed there is a pause.                              *)
ScanOn(n, fail) ==
  /\ todo' = n
  /\ failed' = (n > 0 /\ fail)
  /\ IF n > 0 THEN Goto("mqtt", "scan")
     ELSE IF fail THEN Call("mqtt", "sleep", RetryTime)
     ELSE Goto("mqtt", "yield")

(* The records a scan may find: none once the state has changed. *)
ScanLengths == IF state = "CONNECTED" THEN 0..MaxSends ELSE {0}

(* mqtt_ack_handler_resend() of an overdue record *)
BeginResend == BeginSend("mqtt", "scan", "send_scan")

mqtt_ack_handler_resend(ok) ==
  /\ pc["mqtt"] = "send_scan"
  /\ SendPacket(ok)
  /\ ScanOn(todo - 1, failed)
  /\ UNCHANGED <<state, thread, socket, ping, received, pong, dead, spin>>

(* An overdue SUBACK or UNSUBACK record is destroyed under the lock. *)
DestroyRecord ==
  /\ pc["mqtt"] = "scan"
  /\ lock = "free"
  /\ ScanOn(todo - 1, failed)
  /\ UNCHANGED <<state, thread, socket, lock, ping, clock>>

(* mqtt_try_resubscribe(): one mqtt_subscribe() per handler.  Only the     *)
(* result of the last one counts; it may also fail for want of memory.     *)
BeginResubscribe == BeginSend("mqtt", "resub", "send_resub")

mqtt_try_resubscribe(ok) ==
  /\ pc["mqtt"] = "send_resub"
  /\ SendPacket(ok)
  /\ \/ /\ todo > 1 /\ state = "CONNECTED"
        /\ todo' = todo - 1
        /\ Goto("mqtt", "resub")
        /\ UNCHANGED failed
     \/ /\ todo > 1 /\ state # "CONNECTED"
        /\ ScanOn(0, TRUE)
     \/ /\ todo = 1
        /\ \E n \in ScanLengths, fail \in {~ok, TRUE} : ScanOn(n, fail)
  /\ UNCHANGED <<state, thread, socket, ping, received, pong, dead, spin>>

-----------------------------------------------------------------------------
(* mqtt_connect_with_results(), called by either thread *)

(* network_init() forgets the socket of the last attempt. *)
network_init(p) ==
  /\ net' = "none"
  /\ stale' = AppCloses
  /\ pong' = -1
  /\ Goto(p, "tcp")
  /\ UNCHANGED <<state, thread, open, lock, work, ping, sent, received, dead, spin>>

(* Mutant: the mqtt thread ends after an attempt that has failed. *)
Failed_GivesUp(p) ==
  IF p = "mqtt" THEN Goto(p, "off") ELSE Goto(p, "idle")

(* Where a thread goes on after an attempt that has failed. *)
Failed(p) ==
  IF p = "mqtt" THEN Call(p, "sleep", RetryTime) ELSE Goto(p, "idle")

(* network_connect() *)
TcpOk(p) ==
  /\ pc[p] = "tcp"
  /\ open < MaxSockets
  /\ open' = open + 1
  /\ net' = "up"
  /\ dead' = 0
  /\ spin' = 0
  /\ received' = KeepAlive
  /\ Goto(p, "lock_connect")
  /\ UNCHANGED <<state, thread, stale, lock, work, ping, sent, pong>>

TcpFail(p) ==
  /\ pc[p] = "tcp"
  /\ Failed(p)
  /\ UNCHANGED <<state, thread, socket, lock, work, ping, clock>>

(* The CONNECT packet; the lock is held until the CONNACK is there. *)
BeginConnect(p) == BeginSend(p, "lock_connect", "connect")

(* A send that has used up mqtt_cmd_timeout leaves no time for the answer. *)
SendConnect(p) ==
  /\ pc[p] = "connect"
  /\ net \in {"up", "silent"}
  /\ SendTime - timer[p] < CmdTimeout
  /\ sent' = KeepAlive
  /\ Call(p, "connack", CmdTimeout)
  /\ UNCHANGED <<state, thread, socket, lock, work, ping, received, pong, dead, spin>>

(* Where a thread goes on once it is connected: the mqtt thread to         *)
(* mqtt_try_resubscribe() and mqtt_ack_list_scan(); the app thread creates *)
(* the mqtt thread.                                                        *)
Connected(p) ==
  \/ /\ p = "mqtt"
     /\ \/ todo' \in 1..MaxSends /\ Goto("mqtt", "resub") /\ UNCHANGED failed
        \/ \E n \in 0..MaxSends : ScanOn(n, FALSE)
     /\ UNCHANGED thread
  \/ /\ p = "app"
     /\ thread' = "running"
     /\ pc' = [pc EXCEPT !["app"] = "idle", !["mqtt"] = "yield"]
     /\ timer' = [timer EXCEPT !["app"] = 0]
     /\ UNCHANGED work

(* The CONNACK accepts the connection. *)
Connack(p) ==
  /\ pc[p] = "connack"
  /\ net = "up"
  /\ state' = "CONNECTED"
  /\ Connected(p)
  /\ received' = KeepAlive
  /\ ping' = 0
  /\ lock' = "free"
  /\ UNCHANGED <<socket, sent, pong, dead, spin>>

(* CONNECT could not be sent in time, or it is refused or not answered.    *)
(* The socket is not released.                                             *)
ConnectFails(p) ==
  /\ \/ pc[p] = "connect" /\ sent' \in {sent, KeepAlive}
     \/ pc[p] = "connack" /\ (net # "silent" \/ timer[p] = 0) /\ UNCHANGED sent
  /\ state' = "INITIALIZED"
  /\ lock' = "free"
  /\ Failed(p)
  /\ UNCHANGED <<thread, socket, work, ping, received, pong, dead, spin>>

mqtt_connect_with_results(p) ==
  TcpOk(p) \/ TcpFail(p) \/ BeginConnect(p) \/ SendConnect(p) \/ Connack(p) \/ ConnectFails(p)

-----------------------------------------------------------------------------
(* The mqtt thread *)

(* Mutant: while a ping is outstanding a read does not wait. *)
mqtt_yield_Poll ==
  /\ pc["mqtt"] = "yield"
  /\ state = "CONNECTED"
  /\ Call("mqtt", "read", IF ping = 0 THEN CmdTimeout ELSE 0)
  /\ UNCHANGED <<state, thread, socket, lock, work, ping, clock>>

(* mqtt_yield(): a round begins with a read, *)
mqtt_yield ==
  /\ pc["mqtt"] = "yield"
  /\ state = "CONNECTED"
  /\ Call("mqtt", "read", CmdTimeout)
  /\ UNCHANGED <<state, thread, socket, lock, work, ping, clock>>

(* or, when the client is not connected, with mqtt_try_reconnect(). *)
mqtt_try_reconnect ==
  /\ pc["mqtt"] = "yield"
  /\ state \notin {"CONNECTED", "CLEAN_SESSION"}
  /\ network_init("mqtt")

(* mqtt_yield_thread() after mqtt_disconnect(): mqtt_clean_session(), and  *)
(* the thread ends.                                                        *)
CleanSession ==
  /\ pc["mqtt"] = "yield"
  /\ state = "CLEAN_SESSION"
  /\ Release
  /\ state' = "INVALID"
  /\ thread' = "gone"
  /\ Goto("mqtt", "off")
  /\ UNCHANGED <<lock, work, ping, sent, received, dead, spin>>

(* Mutant: only the time since the last packet sent counts. *)
Expired_SentOnly(s, r) == s < 0

(* One of the two keep-alive timers has expired. *)
Expired(s, r) == s < 0 \/ r < 0

(* mqtt_keep_alive(), with which every round ends, and                     *)
(* mqtt_ack_list_scan() when it returns no error.  An unanswered ping has  *)
(* the socket closed, which blocks if there is one.                        *)
mqtt_keep_alive ==
  \/ /\ state # "CONNECTED"
     /\ Goto("mqtt", "yield")
     /\ UNCHANGED <<state, work>>
  \/ /\ state = "CONNECTED" /\ ~Expired(sent', received')
     /\ \E n \in 0..MaxSends : ScanOn(n, FALSE)
     /\ UNCHANGED state
  \/ /\ state = "CONNECTED" /\ Expired(sent', received') /\ ping' = 0
     /\ Goto("mqtt", "lock_ping")
     /\ UNCHANGED <<state, work>>
  \/ /\ state = "CONNECTED" /\ Expired(sent', received') /\ ping' # 0
     /\ Goto("mqtt", IF net = "none" THEN "yield" ELSE "closing")
     /\ state' = IF net = "none" THEN "DISCONNECTED" ELSE state
     /\ UNCHANGED work

(* A round ends without any other change. *)
EndRound ==
  /\ UNCHANGED <<sent, received, ping>>
  /\ mqtt_keep_alive
  /\ UNCHANGED <<thread, socket, lock, pong, dead, spin>>

(* mqtt_packet_handle(): a packet other than PINGRESP.  Its handler may    *)
(* send an acknowledgement, or need the lock for the list.                 *)
ReadPacket ==
  /\ pc["mqtt"] = "read"
  /\ net = "up"
  /\ received' = KeepAlive
  /\ UNCHANGED <<sent, ping>>
  /\ \/ mqtt_keep_alive
     \/ /\ state = "CONNECTED"
        /\ \E next \in {"lock_ack", "lock_list"} : Goto("mqtt", next)
        /\ UNCHANGED <<state, work>>
  /\ UNCHANGED <<thread, socket, lock, pong, dead, spin>>

(* PUBACK, PUBREC, PUBREL or PUBCOMP is sent; QoS 2 has a record to make   *)
(* or to delete after it.                                                  *)
BeginAck == BeginSend("mqtt", "lock_ack", "send_ack")

SendAck(ok) ==
  /\ pc["mqtt"] = "send_ack"
  /\ SendPacket(ok)
  /\ UNCHANGED <<ping, received>>
  /\ \/ mqtt_keep_alive
     \/ Goto("mqtt", "lock_list") /\ UNCHANGED <<state, work>>
  /\ UNCHANGED <<thread, socket, pong, dead, spin>>

(* mqtt_ack_list_record() or mqtt_ack_list_unrecord(), under the lock *)
AckList ==
  /\ pc["mqtt"] = "lock_list"
  /\ lock = "free"
  /\ EndRound

(* The PINGRESP. *)
ReadPingresp ==
  /\ pc["mqtt"] = "read"
  /\ net = "up"
  /\ pong >= 0
  /\ pong' = -1
  /\ received' = KeepAlive
  /\ ping' = 0
  /\ UNCHANGED sent
  /\ mqtt_keep_alive
  /\ UNCHANGED <<thread, socket, lock, dead, spin>>

(* Nothing to read: the time-out is over, or the socket is closed. *)
ReadNothing ==
  /\ pc["mqtt"] = "read"
  /\ timer["mqtt"] = 0 \/ net \in {"closed", "gone", "none"}
  /\ EndRound

(* A read that ends before its time, without a restart of                  *)
(* mqtt_last_received: a packet larger than the buffer is drained, or      *)
(* at_recvfrom() is woken by the notice of data it has handed out already  *)
(* (recv_notice also counts what has come while nobody waited).            *)
CutShort ==
  /\ pc["mqtt"] = "read"
  /\ net = "up"
  /\ Goto("mqtt", "cut")
  /\ UNCHANGED <<state, thread, socket, lock, work, ping, clock>>

EndCutShort ==
  /\ pc["mqtt"] = "cut"
  /\ EndRound

(* Mutant: the state is not changed. *)
Disconnected_Silently ==
  /\ pc["mqtt"] = "closing"
  /\ Release
  /\ Goto("mqtt", "yield")
  /\ UNCHANGED <<state, thread, lock, work, ping, sent, received, dead, spin>>

(* network_release() returns, the state follows. *)
Disconnected ==
  /\ pc["mqtt"] = "closing"
  /\ Release
  /\ state' = "DISCONNECTED"
  /\ Goto("mqtt", "yield")
  /\ UNCHANGED <<thread, lock, work, ping, sent, received, dead, spin>>

BeginPing == BeginSend("mqtt", "lock_ping", "send_ping")

(* After a ping that was sent the list is scanned, after one that was not  *)
(* mqtt_yield() ends.                                                      *)
AfterPing(ok) ==
  IF ok THEN \E n \in ScanLengths : ScanOn(n, FALSE)
  ELSE Goto("mqtt", "yield") /\ UNCHANGED work

(* Mutant: a ping gives the broker another keep-alive interval. *)
SendPing_NewInterval(ok) ==
  /\ pc["mqtt"] = "send_ping"
  /\ lock' = "free"
  /\ sent' = KeepAlive
  /\ received' = KeepAlive
  /\ ping' = ping + 1
  /\ pong' = IF ok /\ net = "up" THEN Latency ELSE pong
  /\ AfterPing(ok)
  /\ UNCHANGED <<state, thread, socket, dead, spin>>

(* A ping that could not be sent is outstanding too. *)
SendPing(ok) ==
  /\ pc["mqtt"] = "send_ping"
  /\ SendPacket(ok)
  /\ ping' = ping + 1
  /\ pong' = IF ok /\ net = "up" THEN Latency ELSE pong
  /\ AfterPing(ok)
  /\ UNCHANGED <<state, thread, socket, received, dead, spin>>

(* mqtt_sleep_ms() in mqtt_try_reconnect() *)
WakeUp ==
  /\ pc["mqtt"] = "sleep"
  /\ timer["mqtt"] = 0
  /\ Goto("mqtt", "yield")
  /\ UNCHANGED <<state, thread, socket, lock, work, ping, clock>>

MqttThread ==
  \/ mqtt_yield \/ mqtt_try_reconnect \/ CleanSession
  \/ ReadPacket \/ BeginAck \/ AckList \/ ReadPingresp
  \/ ReadNothing \/ CutShort \/ EndCutShort
  \/ Disconnected \/ BeginPing \/ BeginResend \/ DestroyRecord \/ BeginResubscribe \/ WakeUp
  \/ \E ok \in BOOLEAN :
       SendAck(ok) \/ SendPing(ok) \/ mqtt_ack_handler_resend(ok) \/ mqtt_try_resubscribe(ok)
  \/ mqtt_connect_with_results("mqtt")

(* Where the mqtt thread waits for the write lock. *)
LockPlaces == {"lock_ack", "lock_list", "lock_ping", "scan", "resub", "lock_connect"}

(* The mqtt thread does not wait for anything.  (A read on a socket that   *)
(* the app thread forgets while it waits may still wait.)                  *)
MqttReady ==
  \/ pc["mqtt"] \in {"yield", "cut"}
  \/ pc["mqtt"] \in LockPlaces /\ lock = "free"
  \/ pc["mqtt"] \in {"read", "connack"} /\ net \in {"closed", "gone"}
  \/ pc["mqtt"] = "read" /\ net = "up" /\ pong = 0
  \/ /\ pc["mqtt"] \in {"read", "send_ack", "send_ping", "send_scan", "send_resub", "connect",
                        "connack", "sleep"}
     /\ timer["mqtt"] = 0

-----------------------------------------------------------------------------
(* The application's thread, which runs while the mqtt thread waits *)

(* mqtt_connect(), once *)
AppConnect ==
  /\ pc["app"] = "start"
  /\ network_init("app")

(* mqtt_publish() or mqtt_subscribe(), which only look at the state before *)
(* they wait for the lock.                                                 *)
AppCall ==
  /\ pc["app"] = "idle"
  /\ state = "CONNECTED"
  /\ Goto("app", "lock")
  /\ UNCHANGED <<state, thread, socket, lock, work, ping, clock>>

BeginCall == BeginSend("app", "lock", "send")

(* What is sent may not be recorded for want of memory: mqtt_publish()     *)
(* then gives the connection up,                                           *)
SendCall(ok) ==
  /\ pc["app"] = "send"
  /\ SendPacket(ok)
  /\ \E next \in (IF ok THEN {"idle", "release"} ELSE {"idle"}) : Goto("app", next)
  /\ UNCHANGED <<state, thread, socket, work, ping, received, pong, dead, spin>>

(* as it does, without a send, when too many records wait. *)
TooManyRecords ==
  /\ pc["app"] = "lock"
  /\ lock = "free"
  /\ Goto("app", "release")
  /\ UNCHANGED <<state, thread, socket, lock, work, ping, clock>>

(* network_release(), outside the lock, reads the number of the socket *)
AppRelease ==
  /\ pc["app"] = "release"
  /\ Goto("app", IF net = "none" THEN "tell" ELSE "close")
  /\ UNCHANGED <<state, thread, socket, lock, work, ping, clock>>

(* and closes it.  By then the mqtt thread may have replaced it; the       *)
(* number is then free, or that of a later socket.                         *)
AppClose ==
  /\ AppCloses
  /\ \/ HasSocket /\ open' = open - 1 /\ net' = "gone" /\ pong' = -1
     \/ /\ stale
        /\ open' \in {open, open - 1}
        /\ open' >= IF HasSocket THEN 1 ELSE 0
        /\ UNCHANGED <<net, pong>>
  /\ stale' = FALSE
  /\ Goto("app", "forget")
  /\ UNCHANGED <<state, thread, lock, work, ping, sent, received, dead, spin>>

(* nettype_tcp_disconnect() forgets whatever socket there is now, *)
AppForget ==
  /\ pc["app"] = "forget"
  /\ net' = "none"
  /\ pong' = -1
  /\ Goto("app", "tell")
  /\ UNCHANGED <<state, thread, open, stale, lock, work, ping, sent, received, dead, spin>>

(* and mqtt_publish() tells the mqtt thread to reconnect. *)
AppTell ==
  /\ pc["app"] = "tell"
  /\ state' = "DISCONNECTED"
  /\ Goto("app", "idle")
  /\ UNCHANGED <<thread, socket, lock, work, ping, clock>>

(* mqtt_disconnect(): the DISCONNECT packet, then the state. *)
AppDisconnect ==
  /\ pc["app"] = "idle"
  /\ thread # "none"
  /\ Goto("app", "lock_quit")
  /\ UNCHANGED <<state, thread, socket, lock, work, ping, clock>>

BeginDisconnect == BeginSend("app", "lock_quit", "send_quit")

SendDisconnect(ok) ==
  /\ pc["app"] = "send_quit"
  /\ SendPacket(ok)
  /\ Goto("app", "quit")
  /\ UNCHANGED <<state, thread, socket, work, ping, received, pong, dead, spin>>

mqtt_disconnect ==
  /\ pc["app"] = "quit"
  /\ state' = "CLEAN_SESSION"
  /\ Goto("app", "done")
  /\ UNCHANGED <<thread, socket, lock, work, ping, clock>>

AppThread ==
  \/ AppConnect \/ AppCall \/ TooManyRecords \/ AppRelease \/ AppClose \/ AppForget \/ AppTell
  \/ AppDisconnect \/ mqtt_disconnect
  \/ \E ok \in BOOLEAN : SendCall(ok) \/ SendDisconnect(ok)
  \/ mqtt_connect_with_results("app")

(* rt_mutex_release() hands the lock to a thread that waits, even when the *)
(* mqtt thread goes on and would take it again.                            *)
LockHanded == BeginCall \/ BeginDisconnect

-----------------------------------------------------------------------------
(* The network and the clock *)

(* The link is lost without notice, or the peer closes it.  (What has come *)
(* before that, and its notices, is taken to be used up by then.)          *)
LinkLost ==
  /\ \/ net = "up" /\ net' \in {"silent", "closed"}
     \/ net = "silent" /\ net' = "closed"
  /\ pong' = -1
  /\ UNCHANGED <<state, thread, open, stale, pc, timer, lock, work, ping, sent, received, dead,
                 spin>>

(* Round after round of mqtt_yield() without a pause: the socket is        *)
(* closed, and mqtt_keep_alive() has nothing to do yet.                    *)
Spinning ==
  /\ pc["mqtt"] \in {"yield", "read"}
  /\ state = "CONNECTED"
  /\ net \in {"closed", "gone", "none"}
  /\ ~Expired(sent, received)

Pred(t, floor) == IF t > floor THEN t - 1 ELSE t

(* One tick.  A send or a wait that has used up its time returns first,    *)
(* unless its thread is kept from running.                                 *)
Tick ==
  /\ \/ Spinning
     \/ /\ ~MqttReady
        /\ pc["app"] \in {"connect", "connack", "send", "send_quit"} => timer["app"] > 0
  /\ timer' = [p \in Threads |-> Pred(timer[p], 0)]
  /\ sent' = Pred(sent, -1)
  /\ received' = Pred(received, -1)
  /\ pong' = IF pong = -1 THEN -1 ELSE Pred(pong, 0)
  /\ dead' = IF state = "CONNECTED" /\ net # "up" /\ pc["mqtt"] # "closing" THEN dead + 1 ELSE 0
  /\ spin' = IF Spinning THEN spin + 1 ELSE 0
  /\ UNCHANGED <<state, thread, socket, pc, lock, work, ping>>

Next ==
  \/ MqttThread
  \/ ~MqttReady /\ AppThread
  \/ LockHanded
  \/ LinkLost
  \/ Tick

Spec == Init /\ [][Next]_vars

AppReturns == ~MqttReady /\ \E ok \in BOOLEAN : SendCall(ok) \/ SendDisconnect(ok)

(* The clock runs, even while the mqtt thread goes from round to round     *)
(* without a pause (so strong fairness); the mqtt thread runs unless it    *)
(* waits, and the network calls of the app thread return.  A reconnection  *)
(* that is tried again and again, with a socket to be had, succeeds in the *)
(* end.                                                                    *)
FairSpec ==
  /\ Spec
  /\ SF_vars(Tick)
  /\ WF_vars(MqttThread)
  /\ WF_vars(AppReturns)
  /\ SF_vars(TcpOk("mqtt"))
  /\ SF_vars(SendConnect("mqtt"))
  /\ SF_vars(Connack("mqtt"))

-----------------------------------------------------------------------------
(* Properties *)

AppSteps ==
  {"start", "tcp", "lock_connect", "connect", "connack", "idle", "lock", "send", "release",
   "close", "forget", "tell", "lock_quit", "send_quit", "quit", "done"}

MqttSteps ==
  {"off", "yield", "read", "cut", "lock_ack", "send_ack", "lock_list", "lock_ping", "send_ping",
   "scan", "send_scan", "closing", "tcp", "lock_connect", "connect", "connack", "resub",
   "send_resub", "sleep"}

TypeOK ==
  /\ state \in {"INITIALIZED", "CONNECTED", "DISCONNECTED", "CLEAN_SESSION", "INVALID"}
  /\ thread \in {"none", "running", "gone"}
  /\ net \in {"none", "gone", "up", "silent", "closed"}
  /\ open \in 0..MaxSockets
  /\ stale \in BOOLEAN
  /\ pc \in [Threads -> AppSteps \cup MqttSteps]
  /\ pc["app"] \in AppSteps
  /\ pc["mqtt"] \in MqttSteps
  /\ timer \in [Threads -> Nat]
  /\ lock \in Threads \cup {"free"}
  /\ todo \in 0..MaxSends
  /\ failed \in BOOLEAN
  /\ ping \in 0..1
  /\ sent \in -1..KeepAlive
  /\ received \in -1..KeepAlive
  /\ pong \in -1..Latency
  /\ dead \in Nat
  /\ spin \in Nat

(* mqtt_keep_alive() gives up a live connection while the answer to its    *)
(* ping is under way in two cases only: nothing could be sent for a whole  *)
(* interval since the ping, or the read was cut short (mqttclient.c:169,   *)
(* at_socket.c:1116).  Otherwise a broker that answers within              *)
(* mqtt_cmd_timeout is safe, although mqtt_last_received stays expired     *)
(* after the ping, resends take their time before the next read, and the   *)
(* end of that read decides.                                               *)
NoFalseAlarm ==
  [][pc["mqtt"] # "closing" /\ pc'["mqtt"] = "closing"
       => net # "up" \/ pong = -1 \/ sent < 0 \/ pc["mqtt"] = "cut"]_vars

(* What n packets in a row take, when the app thread sends one before each. *)
Cost(n) == n * (2 * SendTime)

(* The age at which the next read finds that a dead link has expired:      *)
(* after the last round in which it had not and the scan that follows, or  *)
(* after a reconnection with its subscriptions, its scan and its pause.    *)
FirstLook ==
  IF KeepAlive >= Cost(MaxSends) + RetryTime THEN KeepAlive + Cost(MaxSends)
  ELSE Cost(MaxSends) + Cost(MaxSends) + RetryTime

(* A client that has no live link gives up in time, even when the          *)
(* application keeps sending into it: that read, the ping, with a send of  *)
(* the application it has to wait for, one more scan and the read after    *)
(* it.                                                                     *)
NoticedInTime == dead <= FirstLook + Cost(MaxSends) + 2 * SendTime + 2 * CmdTimeout

(* When the connection is closed, by the peer or by mqtt_publish(), the    *)
(* mqtt thread polls it without a pause and keeps all other threads from   *)
(* running, but never longer than a keep-alive interval.                   *)
SpinBounded == spin <= KeepAlive + 1

(* A client that says it is connected has a thread that reads, and a       *)
(* socket.  The one exception is mqtt_publish(), which closes the socket,  *)
(* or forgets a new one, before it says so (mqttclient.c:1409-1412).       *)
ConnectedIsServed ==
  state = "CONNECTED" =>
    /\ thread = "running"
    /\ HasSocket \/ (net = "gone" /\ pc["app"] = "forget") \/ (net = "none" /\ pc["app"] = "tell")

(* A client without a live link has one again in the end, unless the       *)
(* application disconnects, as long as there is a socket to be had for the *)
(* next attempt.                                                           *)
Recovers ==
  [](net = "none" => open < MaxSockets) =>
    (thread = "running" /\ net # "up"
       ~> (state = "CONNECTED" /\ net = "up")
            \/ pc["app"] \in {"lock_quit", "send_quit", "quit", "done"})

(* What mqttclient.c:986 asks for: a failed connection releases its        *)
(* socket, so that the client has no socket but the one it uses.           *)
SocketsReleased == open = (IF HasSocket THEN 1 ELSE 0)
=============================================================================
