-------------------------- MODULE MqttClientProofs --------------------------
(***************************************************************************)
(* Proofs about MqttClient: its type invariant, that a client that says it *)
(* is connected is served, that spinning is bounded, that a dead link is   *)
(* noticed in time and when a live one may be given up although the        *)
(* PINGRESP is under way.  All of them follow from one inductive           *)
(* invariant, MqttInv.                                                     *)
(***************************************************************************)
EXTENDS MqttClient, TLAPS

-----------------------------------------------------------------------------
(* The inductive invariant *)

Connecting == {"tcp", "lock_connect", "connect", "connack"}

(* Which thread may be where. *)
Roles ==
  /\ pc["mqtt"] = "off" <=> thread # "running"
  /\ pc["app"] \in {"start"} \cup Connecting => thread = "none"
  /\ thread = "none" =>
       state # "CONNECTED" /\ pong = -1 /\ pc["app"] \in {"start", "idle"} \cup Connecting
  /\ state = "CLEAN_SESSION" => pc["app"] = "done"
  /\ thread = "gone" => state = "INVALID" /\ pc["app"] = "done"

(* The write lock is held exactly during a send or a connection. *)
Locking ==
  /\ lock = "app" <=> pc["app"] \in {"connect", "connack", "send", "send_quit"}
  /\ lock = "mqtt" <=> pc["mqtt"] \in {"connect", "connack", "send_ack", "send_ping", "send_scan",
                                       "send_resub"}

(* The socket, with mqtt_publish() at its release or not. *)
Socket ==
  /\ HasSocket => open > 0
  /\ net = "gone" => pc["app"] = "forget"
  /\ AppCloses /\ ~stale => HasSocket
  /\ state = "CONNECTED" =>
       /\ HasSocket \/ net = "gone" \/ (net = "none" /\ pc["app"] = "tell")
       /\ pc["mqtt"] \notin Connecting
  /\ pc["mqtt"] \in Connecting => pong = -1

(* What the mqtt thread has to send. *)
Work ==
  /\ pc["mqtt"] \in {"scan", "send_scan", "resub", "send_resub"} => todo > 0
  /\ failed => pc["mqtt"] \in {"scan", "send_scan"} /\ ping = 0
  /\ pc["mqtt"] \in {"resub", "send_resub", "sleep"} /\ state = "CONNECTED" => ping = 0

(* What is left of the time of each call. *)
TimesLeft ==
  /\ pc["mqtt"] = "read" => timer["mqtt"] <= CmdTimeout
  /\ pc["mqtt"] \in {"send_ack", "send_ping", "send_scan", "send_resub"} =>
       timer["mqtt"] <= SendTime
  /\ pc["mqtt"] = "sleep" => timer["mqtt"] <= RetryTime
  /\ pc["app"] \in {"send", "send_quit"} => timer["app"] <= SendTime

(* How long the mqtt thread waits for the write lock, at the most: for the *)
(* send that holds it, or for one that it is handed to.                    *)
LockWait ==
  IF lock = "app" THEN timer["app"]
  ELSE IF pc["app"] \in {"lock", "lock_quit"} THEN SendTime
  ELSE 0

(* A ping is only sent when none is outstanding; while its answer is under *)
(* way the mqtt thread has not waited for it in vain; and a packet whose   *)
(* handler is at work has been received a short while ago.                 *)
Pinging ==
  /\ pc["mqtt"] \in {"lock_ping", "send_ping"} => ping = 0
  /\ pong >= 0 =>
       /\ net = "up"
       /\ ping = 1
       /\ pc["mqtt"] = "read" => timer["mqtt"] > pong
  /\ pc["mqtt"] = "lock_ack" => received + SendTime >= KeepAlive + LockWait
  /\ pc["mqtt"] = "send_ack" => received + 2 * SendTime >= KeepAlive + timer["mqtt"]
  /\ pc["mqtt"] = "lock_list" => received + 3 * SendTime >= KeepAlive + LockWait

(* The time for which others cannot run comes out of mqtt_last_received. *)
SpinInv ==
  spin = 0 \/ (net \in {"closed", "gone", "none"} /\ spin + received <= KeepAlive)

(* The age by which the round in which a dead link is found to be expired  *)
(* must have begun, and the round after the ping.                          *)
RoundLimit ==
  IF ping = 0 THEN FirstLook ELSE FirstLook + CmdTimeout + 2 * SendTime + Cost(MaxSends)

(* How old a dead link may be at every place of the mqtt thread, if the    *)
(* client still takes it for alive.                                        *)
Age ==
  /\ received >= 0 => dead + received <= KeepAlive
  /\ pc["mqtt"] = "yield" => dead <= RoundLimit
  /\ pc["mqtt"] = "read" =>
       dead + (IF net \in {"closed", "gone"} THEN 0 ELSE timer["mqtt"]) <= RoundLimit + CmdTimeout
  /\ pc["mqtt"] = "cut" => dead <= RoundLimit + CmdTimeout
  /\ pc["mqtt"] = "lock_ack" => dead + LockWait <= SendTime
  /\ pc["mqtt"] = "send_ack" => dead + timer["mqtt"] <= 2 * SendTime
  /\ pc["mqtt"] = "lock_list" => dead + LockWait <= 3 * SendTime
  /\ pc["mqtt"] = "lock_ping" => dead + LockWait <= FirstLook + CmdTimeout + SendTime
  /\ pc["mqtt"] = "send_ping" => dead + timer["mqtt"] <= FirstLook + CmdTimeout + 2 * SendTime
  /\ pc["mqtt"] = "scan" =>
       dead + LockWait + Cost(todo) + (IF failed THEN RetryTime ELSE 0) <= RoundLimit + SendTime
  /\ pc["mqtt"] = "send_scan" =>
       dead + timer["mqtt"] + Cost(todo) + (IF failed THEN RetryTime ELSE 0)
         <= RoundLimit + 2 * SendTime
  /\ pc["mqtt"] = "resub" => dead + LockWait + Cost(todo) <= Cost(MaxSends) + SendTime
  /\ pc["mqtt"] = "send_resub" => dead + timer["mqtt"] + Cost(todo) <= Cost(MaxSends) + 2 * SendTime
  /\ pc["mqtt"] = "sleep" => dead + timer["mqtt"] <= FirstLook

DeadInv ==
  /\ dead <= FirstLook + Cost(MaxSends) + 2 * SendTime + 2 * CmdTimeout
  /\ net = "up" => dead = 0
  /\ state = "CONNECTED" /\ net # "up" /\ pc["mqtt"] # "closing" => Age

MqttInv ==
  TypeOK /\ Roles /\ Locking /\ Socket /\ Work /\ TimesLeft /\ Pinging /\ SpinInv /\ DeadInv

-----------------------------------------------------------------------------
(* The arithmetic of what is sent in a row *)

(* Cost() grows by two sends with every packet. *)
LEMMA CostFacts ==
  /\ Cost(MaxSends) \in Nat
  /\ \A n \in 0..MaxSends : Cost(n) \in Nat /\ Cost(n) <= Cost(MaxSends)
  /\ \A n \in 1..MaxSends : Cost(n) = Cost(n - 1) + 2 * SendTime /\ Cost(n) >= 2 * SendTime
<1> DEFINE d == 2 * SendTime
<1>1. SendTime \in Nat /\ MaxSends \in Nat /\ d \in Nat
  BY MqttAssumption
<1>2. \A n \in Nat : Cost(n) = n * d
  BY DEF Cost
<1> HIDE DEF d
<1>3. \A n \in Nat : n * d \in Nat /\ (n + 1) * d = n * d + d
  BY <1>1
<1>4. ASSUME NEW n \in 0..MaxSends
      PROVE  n * d <= MaxSends * d
  <2>1. MaxSends * d = n * d + (MaxSends - n) * d
    BY <1>1
  <2>2. (MaxSends - n) * d \in Nat
    BY <1>1, <1>3
  <2> QED
    BY <1>1, <1>3, <2>1, <2>2
<1>5. ASSUME NEW n \in 1..MaxSends
      PROVE  n * d = (n - 1) * d + d /\ n * d >= d
  <2>1. n - 1 \in Nat /\ n = (n - 1) + 1
    BY <1>1
  <2> QED
    BY <1>1, <1>3, <2>1
<1>6. 0..MaxSends \subseteq Nat /\ \A n \in 1..MaxSends : n \in Nat /\ n - 1 \in Nat
  BY <1>1
<1> QED
  BY <1>1, <1>2, <1>3, <1>4, <1>5, <1>6 DEF d

(* FirstLook is the larger of two ages. *)
LEMMA LookFacts ==
  /\ FirstLook \in Nat
  /\ FirstLook >= KeepAlive + Cost(MaxSends)
  /\ FirstLook >= Cost(MaxSends) + Cost(MaxSends) + RetryTime
  BY MqttAssumption, CostFacts DEF FirstLook

-----------------------------------------------------------------------------
(* Every step keeps it *)

(* mqtt_connect_with_results(), whichever thread calls it: a link is fresh *)
(* when it is up, and nothing is CONNECTED until then.                     *)
LEMMA ConnectStep ==
  ASSUME NEW p \in Threads, MqttInv, p = "app" => ~MqttReady, mqtt_connect_with_results(p)
  PROVE  MqttInv'
<1> USE MqttAssumption, CostFacts, LookFacts
    DEF MqttInv, TypeOK, Roles, Locking, Socket, Work, TimesLeft, Pinging, SpinInv, DeadInv, Age,
        Threads, AppSteps, MqttSteps, Connecting, MqttReady, LockPlaces, LockWait, RoundLimit,
        HasSocket, AppCloses, Goto, Call
<1>1. CASE TcpOk(p)
  BY <1>1 DEF TcpOk, work
<1>2. CASE TcpFail(p)
  BY <1>2 DEF TcpFail, Failed, socket, work, clock
<1>3. CASE BeginConnect(p)
  BY <1>3 DEF BeginConnect, BeginSend, socket, work, clock
<1>4. CASE SendConnect(p)
  BY <1>4 DEF SendConnect, socket, work
<1>5. CASE Connack(p)
  BY <1>5 DEF Connack, Connected, ScanOn, socket, work
<1>6. CASE ConnectFails(p)
  BY <1>6 DEF ConnectFails, Failed, socket, work
<1> QED
  BY <1>1, <1>2, <1>3, <1>4, <1>5, <1>6 DEF mqtt_connect_with_results

(* Where a round ends: mqtt_keep_alive() has not found a dead link too     *)
(* old, as its age comes out of mqtt_last_received.                        *)
LEMMA RoundStep ==
  ASSUME MqttInv, NEW ok \in BOOLEAN,
         \/ mqtt_yield \/ mqtt_try_reconnect \/ CleanSession \/ ReadPacket \/ ReadPingresp
         \/ ReadNothing \/ CutShort \/ EndCutShort \/ SendAck(ok) \/ AckList
         \/ Disconnected
  PROVE  MqttInv'
<1> USE MqttAssumption, CostFacts, LookFacts
    DEF MqttInv, TypeOK, Roles, Locking, Socket, Work, TimesLeft, Pinging, SpinInv, DeadInv, Age,
        Threads, AppSteps, MqttSteps, Connecting, LockWait, RoundLimit, HasSocket, AppCloses,
        Goto, Call
<1>1. CASE mqtt_yield
  BY <1>1 DEF mqtt_yield, socket, work, clock
<1>2. CASE mqtt_try_reconnect
  <2>1. TypeOK'
    BY <1>2 DEF mqtt_try_reconnect, network_init, work
  <2>2. Roles' /\ Locking'
    BY <1>2 DEF mqtt_try_reconnect, network_init, work
  <2>3. Socket'
    BY <1>2 DEF mqtt_try_reconnect, network_init, work
  <2>4. Work' /\ TimesLeft'
    BY <1>2 DEF mqtt_try_reconnect, network_init, work
  <2>5. Pinging' /\ SpinInv'
    BY <1>2 DEF mqtt_try_reconnect, network_init, work
  <2>6. DeadInv'
    BY <1>2 DEF mqtt_try_reconnect, network_init, work
  <2> QED
    BY <2>1, <2>2, <2>3, <2>4, <2>5, <2>6
<1>3. CASE CleanSession
  BY <1>3 DEF CleanSession, Release, work
<1>4. CASE ReadPacket
  BY <1>4 DEF ReadPacket, mqtt_keep_alive, ScanOn, Expired, socket, work
<1>5. CASE ReadPingresp
  BY <1>5 DEF ReadPingresp, mqtt_keep_alive, ScanOn, Expired, socket, work
<1>6. CASE ReadNothing
  BY <1>6 DEF ReadNothing, EndRound, mqtt_keep_alive, ScanOn, Expired, socket, work
<1>7. CASE CutShort
  BY <1>7 DEF CutShort, socket, work, clock
<1>8. CASE EndCutShort
  BY <1>8 DEF EndCutShort, EndRound, mqtt_keep_alive, ScanOn, Expired, socket, work
<1>9. CASE SendAck(ok)
  BY <1>9 DEF SendAck, SendPacket, mqtt_keep_alive, ScanOn, Expired, socket, work
<1>10. CASE AckList
  BY <1>10 DEF AckList, EndRound, mqtt_keep_alive, ScanOn, Expired, socket, work
<1>11. CASE Disconnected
  <2>1. TypeOK'
    BY <1>11 DEF Disconnected, Release, work
  <2>2. Roles' /\ Locking'
    BY <1>11 DEF Disconnected, Release, work
  <2>3. Socket'
    BY <1>11 DEF Disconnected, Release, work
  <2>4. Work' /\ TimesLeft'
    BY <1>11 DEF Disconnected, Release, work
  <2>5. Pinging' /\ SpinInv'
    BY <1>11 DEF Disconnected, Release, work
  <2>6. DeadInv'
    BY <1>11 DEF Disconnected, Release, work
  <2> QED
    BY <2>1, <2>2, <2>3, <2>4, <2>5, <2>6
<1> QED
  BY <1>1, <1>2, <1>3, <1>4, <1>5, <1>6, <1>7, <1>8, <1>9, <1>10, <1>11

(* A thread of the client gets the write lock: what it has waited so far   *)
(* and the send that begins are within the wait that LockWait allows.      *)
LEMMA BeginStep ==
  ASSUME MqttInv,
         \/ BeginAck \/ BeginPing \/ BeginResend \/ BeginResubscribe
         \/ BeginCall \/ BeginDisconnect
  PROVE  MqttInv'
<1> USE MqttAssumption, CostFacts, LookFacts
    DEF MqttInv, TypeOK, Roles, Locking, Socket, Work, TimesLeft, Pinging, SpinInv, DeadInv, Age,
        Threads, AppSteps, MqttSteps, Connecting, LockWait, RoundLimit, HasSocket, AppCloses,
        BeginSend, Goto, Call, socket, work, clock
<1>1. CASE BeginAck
  BY <1>1 DEF BeginAck
<1>2. CASE BeginPing
  BY <1>2 DEF BeginPing
<1>3. CASE BeginResend
  BY <1>3 DEF BeginResend
<1>4. CASE BeginResubscribe
  BY <1>4 DEF BeginResubscribe
<1>5. CASE BeginCall
  BY <1>5 DEF BeginCall
<1>6. CASE BeginDisconnect
  BY <1>6 DEF BeginDisconnect
<1> QED
  BY <1>1, <1>2, <1>3, <1>4, <1>5, <1>6

(* What the mqtt thread sends, the ping, the resends of mqtt_ack_list_     *)
(* scan() and the subscriptions of mqtt_try_resubscribe(), and the pause   *)
(* after a failure.                                                        *)
LEMMA SendStep ==
  ASSUME MqttInv, NEW ok \in BOOLEAN,
         \/ SendPing(ok) \/ mqtt_ack_handler_resend(ok) \/ DestroyRecord
         \/ mqtt_try_resubscribe(ok) \/ WakeUp
  PROVE  MqttInv'
<1> USE MqttAssumption, CostFacts, LookFacts
    DEF MqttInv, TypeOK, Roles, Locking, Socket, Work, TimesLeft, Pinging, SpinInv, DeadInv, Age,
        Threads, AppSteps, MqttSteps, Connecting, LockWait, RoundLimit, HasSocket, AppCloses,
        Goto, Call
<1>1. CASE SendPing(ok)
  BY <1>1 DEF SendPing, SendPacket, AfterPing, ScanLengths, ScanOn, socket, work
<1>2. CASE mqtt_ack_handler_resend(ok)
  <2>1. TypeOK'
    BY <1>2 DEF mqtt_ack_handler_resend, SendPacket, ScanOn, socket
  <2>2. Roles' /\ Locking'
    BY <1>2 DEF mqtt_ack_handler_resend, SendPacket, ScanOn, socket
  <2>3. Socket'
    BY <1>2 DEF mqtt_ack_handler_resend, SendPacket, ScanOn, socket
  <2>4. Work' /\ TimesLeft'
    <3>1. failed' => todo - 1 > 0 /\ failed
      BY <1>2, Zenon DEF mqtt_ack_handler_resend, ScanOn
    <3>2. failed' => pc'["mqtt"] = "scan" /\ ping' = 0
      BY <1>2, <3>1 DEF mqtt_ack_handler_resend, SendPacket, ScanOn, socket
    <3>3. TimesLeft'
      BY <1>2 DEF mqtt_ack_handler_resend, SendPacket, ScanOn, socket
    <3> QED
      BY <1>2, <3>2, <3>3 DEF mqtt_ack_handler_resend, SendPacket, ScanOn, socket
  <2>5. Pinging' /\ SpinInv'
    BY <1>2 DEF mqtt_ack_handler_resend, SendPacket, ScanOn, socket
  <2>6. DeadInv'
    BY <1>2 DEF mqtt_ack_handler_resend, SendPacket, ScanOn, socket
  <2> QED
    BY <2>1, <2>2, <2>3, <2>4, <2>5, <2>6
<1>3. CASE DestroyRecord
  <2>1. TypeOK'
    BY <1>3 DEF DestroyRecord, ScanOn, socket, clock
  <2>2. Roles' /\ Locking'
    BY <1>3 DEF DestroyRecord, ScanOn, socket, clock
  <2>3. Socket'
    BY <1>3 DEF DestroyRecord, ScanOn, socket, clock
  <2>4. Work' /\ TimesLeft'
    <3>1. failed' => todo - 1 > 0 /\ failed
      BY <1>3, Zenon DEF DestroyRecord, ScanOn
    <3>2. failed' => pc'["mqtt"] = "scan" /\ ping' = 0
      BY <1>3, <3>1 DEF DestroyRecord, ScanOn, socket, clock
    <3>3. TimesLeft'
      BY <1>3 DEF DestroyRecord, ScanOn, socket, clock
    <3> QED
      BY <1>3, <3>2, <3>3 DEF DestroyRecord, ScanOn, socket, clock
  <2>5. Pinging' /\ SpinInv'
    BY <1>3 DEF DestroyRecord, ScanOn, socket, clock
  <2>6. DeadInv'
    BY <1>3 DEF DestroyRecord, ScanOn, socket, clock
  <2> QED
    BY <2>1, <2>2, <2>3, <2>4, <2>5, <2>6
<1>4. CASE mqtt_try_resubscribe(ok)
  <2>1. TypeOK'
    <3>1. failed' \in BOOLEAN
      BY <1>4, Zenon DEF mqtt_try_resubscribe, ScanOn
    <3>2. todo' \in 0..MaxSends
      BY <1>4 DEF mqtt_try_resubscribe, ScanLengths, ScanOn
    <3> QED
      BY <1>4, <3>1, <3>2 DEF mqtt_try_resubscribe, SendPacket, ScanLengths, ScanOn, socket
  <2>2. Roles' /\ Locking'
    BY <1>4 DEF mqtt_try_resubscribe, SendPacket, ScanLengths, ScanOn, socket
  <2>3. Socket'
    BY <1>4 DEF mqtt_try_resubscribe, SendPacket, ScanLengths, ScanOn, socket
  <2>4. Work' /\ TimesLeft'
    BY <1>4 DEF mqtt_try_resubscribe, SendPacket, ScanLengths, ScanOn, socket
  <2>5. Pinging' /\ SpinInv'
    BY <1>4 DEF mqtt_try_resubscribe, SendPacket, ScanLengths, ScanOn, socket
  <2>6. DeadInv'
    BY <1>4 DEF mqtt_try_resubscribe, SendPacket, ScanLengths, ScanOn, socket
  <2> QED
    BY <2>1, <2>2, <2>3, <2>4, <2>5, <2>6
<1>5. CASE WakeUp
  BY <1>5 DEF WakeUp, socket, work, clock
<1> QED
  BY <1>1, <1>2, <1>3, <1>4, <1>5

(* The calls of the application.  They run only while the mqtt thread      *)
(* waits, so none begins to wait for a lock the mqtt thread is about to    *)
(* take.                                                                   *)
LEMMA AppStep ==
  ASSUME MqttInv, ~MqttReady, NEW ok \in BOOLEAN,
         \/ AppConnect \/ AppCall \/ SendCall(ok) \/ TooManyRecords \/ AppRelease \/ AppClose
         \/ AppForget \/ AppTell \/ AppDisconnect \/ SendDisconnect(ok) \/ mqtt_disconnect
  PROVE  MqttInv'
<1> USE MqttAssumption, CostFacts, LookFacts
    DEF MqttInv, TypeOK, Roles, Locking, Socket, Work, TimesLeft, Pinging, SpinInv, DeadInv, Age,
        Threads, AppSteps, MqttSteps, Connecting, MqttReady, LockPlaces, LockWait, RoundLimit,
        HasSocket, AppCloses, Goto, Call
<1>1. CASE AppConnect
  BY <1>1 DEF AppConnect, network_init, work
<1>2. CASE AppCall
  BY <1>2 DEF AppCall, socket, work, clock
<1>3. CASE SendCall(ok)
  BY <1>3 DEF SendCall, SendPacket, socket, work
<1>4. CASE TooManyRecords
  BY <1>4 DEF TooManyRecords, socket, work, clock
<1>5. CASE AppRelease
  BY <1>5 DEF AppRelease, socket, work, clock
<1>6. CASE AppClose
  <2>1. TypeOK'
    <3>1. stale' \in BOOLEAN
      BY <1>6, Zenon DEF AppClose
    <3>2. open' \in 0..MaxSockets /\ net' \in {"none", "gone", "up", "silent", "closed"}
      BY <1>6 DEF AppClose
    <3> QED
      BY <1>6, <3>1, <3>2 DEF AppClose, work
  <2>2. Roles' /\ Locking'
    BY <1>6 DEF AppClose, work
  <2>3. Socket'
    BY <1>6 DEF AppClose, work
  <2>4. Work' /\ TimesLeft'
    BY <1>6 DEF AppClose, work
  <2>5. Pinging' /\ SpinInv'
    BY <1>6 DEF AppClose, work
  <2>6. DeadInv'
    BY <1>6 DEF AppClose, work
  <2> QED
    BY <2>1, <2>2, <2>3, <2>4, <2>5, <2>6
<1>7. CASE AppForget
  BY <1>7 DEF AppForget, work
<1>8. CASE AppTell
  BY <1>8 DEF AppTell, socket, work, clock
<1>9. CASE AppDisconnect
  BY <1>9 DEF AppDisconnect, socket, work, clock
<1>10. CASE SendDisconnect(ok)
  BY <1>10 DEF SendDisconnect, SendPacket, socket, work
<1>11. CASE mqtt_disconnect
  BY <1>11 DEF mqtt_disconnect, socket, work, clock
<1> QED
  BY <1>1, <1>2, <1>3, <1>4, <1>5, <1>6, <1>7, <1>8, <1>9, <1>10, <1>11

(* The network and the clock. *)
LEMMA NetworkStep ==
  ASSUME MqttInv, LinkLost \/ Tick
  PROVE  MqttInv'
<1> USE MqttAssumption, CostFacts, LookFacts
    DEF MqttInv, TypeOK, Roles, Locking, Socket, Work, TimesLeft, Pinging, SpinInv, DeadInv, Age,
        Threads, AppSteps, MqttSteps, Connecting, LockWait, RoundLimit, HasSocket, AppCloses
<1>1. CASE LinkLost
  BY <1>1 DEF LinkLost, work
<1>2. CASE Tick
  BY <1>2 DEF Tick, MqttReady, LockPlaces, Spinning, Expired, Pred, socket, work
<1> QED
  BY <1>1, <1>2

LEMMA MqttInvInit == Init => MqttInv
<1> SUFFICES ASSUME Init
             PROVE  MqttInv
  OBVIOUS
<1> USE MqttAssumption DEF Init, Threads, AppSteps, MqttSteps
<1>1. TypeOK
  <2>1. stale \in BOOLEAN /\ failed \in BOOLEAN
    BY Zenon
  <2> QED
    BY <2>1 DEF TypeOK
<1>2. Roles /\ Locking
  BY DEF Roles, Locking, Connecting
<1>3. Socket /\ Work /\ TimesLeft
  BY DEF Socket, Work, TimesLeft, Connecting, HasSocket, AppCloses
<1>4. Pinging /\ SpinInv
  BY DEF Pinging, SpinInv
<1>5. DeadInv
  BY CostFacts, LookFacts DEF DeadInv
<1> QED
  BY <1>1, <1>2, <1>3, <1>4, <1>5 DEF MqttInv

LEMMA MqttInvStep == MqttInv /\ [Next]_vars => MqttInv'
<1> SUFFICES ASSUME MqttInv, [Next]_vars
             PROVE  MqttInv'
  OBVIOUS
<1>1. CASE MqttThread
  <2>1. CASE mqtt_connect_with_results("mqtt")
    BY <2>1, ConnectStep DEF Threads
  <2>2. CASE \/ mqtt_yield \/ mqtt_try_reconnect \/ CleanSession \/ ReadPacket \/ AckList
             \/ ReadPingresp \/ ReadNothing \/ CutShort \/ EndCutShort \/ Disconnected
    BY <2>2, RoundStep
  <2>3. CASE BeginAck \/ BeginPing \/ BeginResend \/ BeginResubscribe
    BY <2>3, BeginStep
  <2>4. CASE DestroyRecord \/ WakeUp
    BY <2>4, SendStep
  <2>5. ASSUME NEW ok \in BOOLEAN,
               SendAck(ok) \/ SendPing(ok) \/ mqtt_ack_handler_resend(ok) \/ mqtt_try_resubscribe(ok)
        PROVE  MqttInv'
    BY <2>5, RoundStep, SendStep
  <2> QED
    BY <1>1, <2>1, <2>2, <2>3, <2>4, <2>5 DEF MqttThread
<1>2. CASE ~MqttReady /\ AppThread
  <2>1. CASE mqtt_connect_with_results("app")
    BY <1>2, <2>1, ConnectStep DEF Threads
  <2>2. CASE \/ AppConnect \/ AppCall \/ TooManyRecords \/ AppRelease \/ AppClose \/ AppForget
             \/ AppTell \/ AppDisconnect \/ mqtt_disconnect
    BY <1>2, <2>2, AppStep
  <2>3. ASSUME NEW ok \in BOOLEAN, SendCall(ok) \/ SendDisconnect(ok)
        PROVE  MqttInv'
    BY <1>2, <2>3, AppStep
  <2> QED
    BY <1>2, <2>1, <2>2, <2>3 DEF AppThread
<1>3. CASE LockHanded
  BY <1>3, BeginStep DEF LockHanded
<1>4. CASE LinkLost \/ Tick
  BY <1>4, NetworkStep
<1>5. CASE UNCHANGED vars
  BY <1>5 DEF vars, socket, work, clock, MqttInv, TypeOK, Roles, Locking, Socket, Work, TimesLeft,
              Pinging, SpinInv, DeadInv, Age, LockWait, RoundLimit, HasSocket, AppCloses
<1> QED
  BY <1>1, <1>2, <1>3, <1>4, <1>5 DEF Next

(* The inductive invariant holds in every state of the client. *)
THEOREM MqttInvariant == Spec => []MqttInv
  BY MqttInvInit, MqttInvStep, PTL DEF Spec

-----------------------------------------------------------------------------
(* What follows *)

(* Every variable of the client keeps its type: in particular, open never  *)
(* leaves 0..MaxSockets and at most one ping is outstanding.               *)
THEOREM ClientTypeCorrect == Spec => []TypeOK
<1>1. MqttInv => TypeOK
  BY DEF MqttInv
<1> QED
  BY <1>1, MqttInvariant, PTL

(* A client that says CONNECTED has a thread that reads and a socket,      *)
(* except while mqtt_publish(), having closed or forgotten it, has not yet *)
(* said so.                                                                *)
THEOREM ConnectedAlwaysServed == Spec => []ConnectedIsServed
<1>1. MqttInv => ConnectedIsServed
  BY DEF MqttInv, TypeOK, Roles, Socket, HasSocket, ConnectedIsServed
<1> QED
  BY <1>1, MqttInvariant, PTL

(* However the link is lost, a client that takes it for alive does so no   *)
(* longer than the sum of what can delay it: the keep-alive interval (or a *)
(* long reconnection), the resends of two scans, a ping that waits for a   *)
(* send of the application, and two reads.                                 *)
THEOREM DeadLinkNoticed == Spec => []NoticedInTime
<1>1. MqttInv => NoticedInTime
  BY DEF MqttInv, DeadInv, NoticedInTime
<1> QED
  BY <1>1, MqttInvariant, PTL

(* The rounds without a pause that mqtt_yield() makes on a closed          *)
(* connection last at most a keep-alive interval.                          *)
THEOREM SpinAlwaysBounded == Spec => []SpinBounded
<1>1. MqttInv => SpinBounded
  BY MqttAssumption DEF MqttInv, TypeOK, SpinInv, SpinBounded
<1> QED
  BY <1>1, MqttInvariant, PTL

(* A step after which the mqtt thread closes the socket is the end of a    *)
(* round; unless mqtt_last_sent has expired, it is not that of a packet    *)
(* with its handler, as mqtt_last_received is then fresh.                  *)
LEMMA ClosingStep ==
  MqttInv /\ [Next]_vars =>
    [pc["mqtt"] # "closing" /\ pc'["mqtt"] = "closing"
       => net # "up" \/ pong = -1 \/ sent < 0 \/ pc["mqtt"] = "cut"]_vars
<1> SUFFICES ASSUME MqttInv, Next, pc["mqtt"] # "closing", pc'["mqtt"] = "closing",
                    net = "up", pong # -1, ~(sent < 0), pc["mqtt"] # "cut"
             PROVE  FALSE
  BY DEF vars
<1> USE MqttAssumption DEF MqttInv, TypeOK, Pinging, Threads, Goto, Call
<1>1. pong >= 0 /\ sent >= 0
  OBVIOUS
<1>2. ~ReadPacket /\ ~ReadPingresp
  BY <1>1 DEF ReadPacket, ReadPingresp, mqtt_keep_alive, ScanOn, Expired
<1>3. ~ReadNothing /\ ~EndCutShort
  BY <1>1 DEF ReadNothing, EndCutShort, EndRound, mqtt_keep_alive, ScanOn, Expired
<1>4. ASSUME NEW ok \in BOOLEAN
      PROVE  ~SendAck(ok)
  BY <1>1 DEF SendAck, SendPacket, mqtt_keep_alive, ScanOn, Expired
<1>5. ~AckList
  BY <1>1 DEF AckList, EndRound, mqtt_keep_alive, ScanOn, Expired, Locking, LockWait, TimesLeft
<1>6. ASSUME NEW p \in Threads
      PROVE  ~mqtt_connect_with_results(p)
  BY DEF mqtt_connect_with_results, TcpOk, TcpFail, BeginConnect, SendConnect, Connack, Connected,
         ConnectFails, Failed, ScanOn, BeginSend
<1>7. ~MqttThread
  BY <1>2, <1>3, <1>4, <1>5, <1>6
  DEF MqttThread, mqtt_yield, mqtt_try_reconnect, network_init, CleanSession, CutShort,
      Disconnected, BeginAck, BeginPing, BeginResend, DestroyRecord, BeginResubscribe, WakeUp,
      SendPing, AfterPing, mqtt_ack_handler_resend, mqtt_try_resubscribe, ScanOn, BeginSend
<1>8. ~AppThread /\ ~LockHanded
  BY <1>6
  DEF AppThread, AppConnect, network_init, AppCall, TooManyRecords, AppRelease, AppClose,
      AppForget, AppTell, AppDisconnect, mqtt_disconnect, SendCall, SendDisconnect, LockHanded,
      BeginCall, BeginDisconnect, BeginSend
<1> QED
  BY <1>7, <1>8 DEF Next, LinkLost, Tick

(* mqtt_keep_alive() gives up a live connection with the answer to its     *)
(* ping under way only when nothing could be sent for an interval or after *)
(* a read that was cut short, for every latency below the command time-out *)
(* and however long the resends take.                                      *)
THEOREM NeverFalseAlarm == Spec => NoFalseAlarm
  BY MqttInvariant, ClosingStep, PTL DEF Spec, NoFalseAlarm
=============================================================================
