------------------------------ MODULE MqttAcks ------------------------------
(***************************************************************************)
(* The acknowledgement list of the kawaii-mqtt client: what is recorded    *)
(* until the broker answers, resent when it does not, and resent after a   *)
(* reconnection.  MqttClient models when a connection is given up and      *)
(* restored; here time is left out, a time-out may come at any moment.     *)
(*                                                                         *)
(* Two threads use the list.  The application ("app") calls mqtt_publish() *)
(* and mqtt_subscribe(); the client's thread ("mqtt") handles packets,     *)
(* resends and reconnects.  A step of the model is one critical section of *)
(* mqtt_write_lock.  The mqtt thread is the more urgent one: between two   *)
(* of its critical sections only an app thread that already waits for the  *)
(* lock gets in, because the lock is handed to the waiting thread.         *)
(*                                                                         *)
(* Messages of QoS 0 leave no trace in the list and are left out, and so   *)
(* is running out of memory.  The model begins with the first connection.  *)
(*                                                                         *)
(* The broker and the network are not part of the repository.  The network *)
(* is a FIFO channel in each direction that loses what it holds when the   *)
(* link breaks; a packet whose sending fails does not arrive.  The broker  *)
(* keeps the session (mqtt_clean_session = 0, the default).                *)
(***************************************************************************)
EXTENDS Naturals, Sequences, FiniteSets

CONSTANTS Messages,     \* what the application publishes
          Incoming,     \* what the broker publishes to the client
          Topics,       \* what the application subscribes to
          QoS,          \* the quality of service of each message
          None,         \* no message
          BrokerId,     \* the packet id the broker uses, again and again
          MaxAcks,      \* KAWAII_MQTT_ACK_HANDLER_NUM_MAX
          MaxPacketId,  \* KAWAII_MQTT_MAX_PACKET_ID
          Capacity,     \* how many packets a channel holds
          MaxExchanges, \* how many calls and incoming messages there are
          MaxFaults     \* how often the network fails

ASSUME AcksAssumption ==
  /\ QoS \in [Messages \cup Incoming -> 1..2]
  /\ MaxAcks \in Nat
  /\ MaxPacketId \in Nat \ {0}
  /\ BrokerId \in 1..MaxPacketId
  /\ Capacity \in Nat
  /\ MaxExchanges \in Nat
  /\ MaxFaults \in Nat
  /\ None \notin Messages \cup Incoming \cup Topics
  /\ Messages \cap Topics = {}

VARIABLES
  state,      \* mqtt_client_state
  link,       \* the connection of the socket: "up", "broken" or "none"
  packet_id,  \* mqtt_packet_id
  acks,       \* mqtt_ack_handler_list
  number,     \* mqtt_ack_handler_number
  handlers,   \* the topics in mqtt_msg_handler_list
  intact,     \* mqtt_write_buf still holds what the mqtt thread put there
  app,        \* the call the app thread is in
  at, todo,   \* what the mqtt thread does next, and for what
  result,     \* what became of each call
  inbox,      \* how often each message was handed to the application
  toBroker, toClient,  \* the packets under way
  faults,     \* how often the network failed
  pending,    \* broker: ids of QoS 2 messages that are not released yet
  delivered,  \* broker: how often each message was passed on
  out         \* broker: how far each message to the client has come

client == <<state, packet_id, acks, number, handlers, intact, app, at, todo, result, inbox>>

broker == <<pending, delivered, out>>

(* What a send changes. *)
wire == <<toBroker, faults>>

vars == <<client, link, toClient, wire, broker>>

AckTypes == {"PUBACK", "PUBREC", "PUBREL", "PUBCOMP", "SUBACK"}

Packet(type, id, m) == [type |-> type, id |-> id, msg |-> m]

(* The first bytes of a packet where another packet was meant. *)
Garbled == Packet("GARBLED", 0, None)

Calls == Messages \cup Topics

Idle == <<"idle", None>>

Init ==
  /\ state = "CONNECTED"
  /\ link = "up"
  /\ packet_id = 1
  /\ acks = {}
  /\ number = 0
  /\ handlers = {}
  /\ intact = TRUE
  /\ app = Idle
  /\ at = "read"
  /\ todo = {}
  /\ result = [c \in Calls |-> "new"]
  /\ inbox = [m \in Incoming |-> 0]
  /\ toBroker = <<>>
  /\ toClient = <<>>
  /\ faults = 0
  /\ pending = {}
  /\ delivered = [m \in Messages |-> 0]
  /\ out = [m \in Incoming |-> "new"]

(* How many calls and incoming messages have begun. *)
Exchanges ==
  Cardinality({c \in Calls : result[c] # "new"}) + Cardinality({m \in Incoming : out[m] # "new"})

(* One more delivery of a message, as far as its quality of service tells. *)
Count(m, n) == IF n < QoS[m] THEN n + 1 ELSE n

-----------------------------------------------------------------------------
(* The acknowledgement list *)

(* mqtt_ack_list_node_is_exist() *)
Exists(type, id) == \E a \in acks : a.type = type /\ a.id = id

(* mqtt_ack_list_record(): the packet to send again is saved. *)
Record(type, id, packet) ==
  IF Exists(type, id) THEN UNCHANGED <<acks, number>>
  ELSE /\ acks' = acks \cup {[type |-> type, id |-> id, payload |-> packet]}
       /\ number' = number + 1

(* Mutant: the counter goes down although nothing was found. *)
Unrecord_AlwaysCounts(type, id) ==
  /\ acks' = {a \in acks : a.type # type \/ a.id # id}
  /\ number' = IF number = 0 THEN number ELSE number - 1

(* Mutant: the packet id alone decides. *)
Unrecord_IdOnly(type, id) ==
  LET gone == {a \in acks : a.id = id}
  IN  /\ acks' = acks \ gone
      /\ number' = number - Cardinality(gone)

(* mqtt_ack_list_unrecord() *)
Unrecord(type, id) ==
  LET gone == {a \in acks : a.type = type /\ a.id = id}
  IN  /\ acks' = acks \ gone
      /\ number' = IF gone = {} \/ number = 0 THEN number ELSE number - 1

(* Mutant: the packet id does not wrap. *)
NextPacketId_NoWrap == packet_id + 1

(* mqtt_get_next_packet_id() *)
NextPacketId == IF packet_id = MaxPacketId THEN 1 ELSE packet_id + 1

(* mqtt_send_packet(): a broken link may take the packet as well, a full   *)
(* channel may not take it in time, and other faults happen.               *)
Send(packet, ok) ==
  LET full == Len(toBroker) = Capacity
  IN  /\ ok => link = "broken" \/ (link = "up" /\ ~full)
      /\ toBroker' = IF ok /\ link = "up" THEN Append(toBroker, packet) ELSE toBroker
      /\ IF ok \/ link # "up" \/ full THEN UNCHANGED faults
         ELSE faults < MaxFaults /\ faults' = faults + 1

-----------------------------------------------------------------------------
(* The application's thread *)

(* The call begins with a look at the state, then it waits for the lock. *)
Call(c) ==
  /\ app = Idle
  /\ result[c] = "new"
  /\ Exchanges < MaxExchanges
  /\ at \notin {"record", "unrecord"}
  /\ IF state = "CONNECTED"
       THEN /\ app' = <<"call", c>>
            /\ result' = [result EXCEPT ![c] = "called"]
       ELSE /\ result' = [result EXCEPT ![c] = "failed"]
            /\ UNCHANGED app
  /\ UNCHANGED <<state, packet_id, acks, number, handlers, intact, at, todo, inbox>>
  /\ UNCHANGED <<link, toClient, wire, broker>>

Return(c, what, next) ==
  /\ result' = [result EXCEPT ![c] = what]
  /\ app' = next

(* A packet of the app thread in mqtt_write_buf: it matters to a handler   *)
(* that is between two critical sections.                                  *)
Overwrite == intact' = (at # "record")

(* mqtt_publish(): at the limit the connection is given up. *)
TooManyAcks(m) ==
  /\ app = <<"call", m>>
  /\ number >= MaxAcks
  /\ Return(m, "failed", <<"release", None>>)
  /\ UNCHANGED <<state, packet_id, acks, number, handlers, intact, at, todo, inbox>>
  /\ UNCHANGED <<link, toClient, wire, broker>>

(* The acknowledgement a message waits for first. *)
Awaited(m) == IF QoS[m] = 1 THEN "PUBACK" ELSE "PUBREC"

mqtt_publish(m, ok) ==
  LET packet == Packet("PUBLISH", NextPacketId, m)
  IN  /\ app = <<"call", m>>
      /\ number < MaxAcks
      /\ packet_id' = NextPacketId
      /\ Overwrite
      /\ Send(packet, ok)
      /\ IF ok THEN Record(Awaited(m), NextPacketId, packet) ELSE UNCHANGED <<acks, number>>
      /\ Return(m, IF ok /\ ~Exists(Awaited(m), NextPacketId) THEN "done" ELSE "failed", Idle)
      /\ UNCHANGED <<state, handlers, at, todo, inbox>>
      /\ UNCHANGED <<link, toClient, broker>>

(* network_release() and the state, after the lock has been given back. *)
Release ==
  /\ app[1] = "release"
  /\ app' = Idle
  /\ link' = "none"
  /\ state' = "DISCONNECTED"
  /\ toBroker' = <<>>
  /\ toClient' = <<>>
  /\ UNCHANGED <<packet_id, acks, number, handlers, intact, at, todo, result, inbox>>
  /\ UNCHANGED <<faults, broker>>

(* The part of mqtt_subscribe() that both threads share. *)
Subscribe(t, ok) ==
  LET packet == Packet("SUBSCRIBE", NextPacketId, t)
  IN  /\ packet_id' = NextPacketId
      /\ Send(packet, ok)
      /\ IF ok THEN Record("SUBACK", NextPacketId, packet) ELSE UNCHANGED <<acks, number>>

mqtt_subscribe(t, ok) ==
  /\ app = <<"call", t>>
  /\ Subscribe(t, ok)
  /\ Overwrite
  /\ Return(t, IF ok /\ ~Exists("SUBACK", NextPacketId) THEN "done" ELSE "failed", Idle)
  /\ UNCHANGED <<state, handlers, at, todo, inbox>>
  /\ UNCHANGED <<link, toClient, broker>>

AppThread ==
  \/ \E c \in Calls : Call(c)
  \/ \E m \in Messages : TooManyAcks(m) \/ \E ok \in BOOLEAN : mqtt_publish(m, ok)
  \/ \E t \in Topics, ok \in BOOLEAN : mqtt_subscribe(t, ok)
  \/ Release

-----------------------------------------------------------------------------
(* The mqtt thread: the handlers of packets *)

Received(type) ==
  /\ at = "read"
  /\ state = "CONNECTED"
  /\ link = "up"
  /\ toClient # <<>>
  /\ Head(toClient).type = type
  /\ toClient' = Tail(toClient)
  /\ UNCHANGED <<link, broker>>

(* mqtt_puback_and_pubcomp_packet_handle() *)
PubackOrPubcomp(type) ==
  /\ Received(type)
  /\ Unrecord(type, Head(toClient).id)
  /\ UNCHANGED <<state, packet_id, handlers, intact, app, at, todo, result, inbox, wire>>

(* mqtt_suback_packet_handle(): the handler of a recorded subscription is  *)
(* installed, unless the broker refused it.                                *)
Suback ==
  LET id == Head(toClient).id
      refused == Head(toClient).msg = "refused"
      topics == {a.payload.msg : a \in {b \in acks : b.type = "SUBACK" /\ b.id = id}}
  IN  /\ Received("SUBACK")
      /\ Unrecord("SUBACK", id)
      /\ handlers' = IF refused THEN handlers ELSE handlers \cup topics
      /\ result' = [c \in Calls |-> IF refused /\ c \in topics THEN "refused" ELSE result[c]]
      /\ UNCHANGED <<state, packet_id, intact, app, at, todo, inbox, wire>>

(* mqtt_publish_packet_handle(), QoS 1: the message is handed over once    *)
(* its acknowledgement is sent.                                            *)
PublishQos1(ok) ==
  LET p == Head(toClient)
  IN  /\ Received("PUBLISH")
      /\ QoS[p.msg] = 1
      /\ Send(Packet("PUBACK", p.id, None), ok)
      /\ inbox' = IF ok THEN [inbox EXCEPT ![p.msg] = Count(p.msg, @)] ELSE inbox
      /\ UNCHANGED <<state, packet_id, acks, number, handlers, intact, app, at, todo, result>>

(* QoS 2: PUBREC is sent in one critical section ... *)
PublishQos2(ok) ==
  LET p == Head(toClient)
  IN  /\ Received("PUBLISH")
      /\ QoS[p.msg] = 2
      /\ Send(Packet("PUBREC", p.id, None), ok)
      /\ intact' = TRUE
      /\ at' = IF ok THEN "record" ELSE "read"
      /\ todo' = IF ok THEN {p} ELSE {}
      /\ UNCHANGED <<state, packet_id, acks, number, handlers, app, result, inbox>>

(* Mutant: a message is handed over whether it is known or not. *)
RecordPubrel_Always ==
  /\ at = "record"
  /\ \E p \in todo :
       /\ Record("PUBREL", p.id, IF intact THEN Packet("PUBREC", p.id, None) ELSE Garbled)
       /\ inbox' = [inbox EXCEPT ![p.msg] = Count(p.msg, @)]
  /\ intact' = TRUE
  /\ at' = "read"
  /\ todo' = {}
  /\ UNCHANGED <<state, packet_id, handlers, app, result>>
  /\ UNCHANGED <<link, toClient, wire, broker>>

(* ... and recorded in another one, out of the same buffer.  The message   *)
(* is handed over unless it has been recorded before.                      *)
RecordPubrel ==
  /\ at = "record"
  /\ \E p \in todo :
       /\ Record("PUBREL", p.id, IF intact THEN Packet("PUBREC", p.id, None) ELSE Garbled)
       /\ inbox' = IF Exists("PUBREL", p.id) THEN inbox ELSE [inbox EXCEPT ![p.msg] = Count(p.msg, @)]
  /\ intact' = TRUE
  /\ at' = "read"
  /\ todo' = {}
  /\ UNCHANGED <<state, packet_id, handlers, app, result>>
  /\ UNCHANGED <<link, toClient, wire, broker>>

(* mqtt_pubrec_and_pubrel_packet_handle(), with mqtt_publish_ack_packet(): *)
(* PUBREL is recorded and sent, once ...                                   *)
Pubrec(ok) ==
  LET p == Head(toClient)
      packet == Packet("PUBREL", p.id, None)
  IN  /\ Received("PUBREC")
      /\ Record("PUBCOMP", p.id, packet)
      /\ IF Exists("PUBCOMP", p.id) THEN ok /\ UNCHANGED wire ELSE Send(packet, ok)
      /\ at' = "unrecord"
      /\ todo' = {p}
      /\ UNCHANGED <<state, packet_id, handlers, intact, app, result, inbox>>

(* ... or PUBCOMP is sent, every time ... *)
Pubrel(ok) ==
  LET p == Head(toClient)
  IN  /\ Received("PUBREL")
      /\ Send(Packet("PUBCOMP", p.id, None), ok)
      /\ at' = "unrecord"
      /\ todo' = {p}
      /\ UNCHANGED <<state, packet_id, acks, number, handlers, intact, app, result, inbox>>

(* Mutant: PUBREC stays on the list. *)
UnrecordReceived_PubrelOnly ==
  /\ at = "unrecord"
  /\ \E p \in todo :
       IF p.type = "PUBREL" THEN Unrecord(p.type, p.id) ELSE UNCHANGED <<acks, number>>
  /\ at' = "read"
  /\ todo' = {}
  /\ UNCHANGED <<state, packet_id, handlers, intact, app, result, inbox>>
  /\ UNCHANGED <<link, toClient, wire, broker>>

(* ... then the packet that was waited for is struck off the list. *)
UnrecordReceived ==
  /\ at = "unrecord"
  /\ \E p \in todo : Unrecord(p.type, p.id)
  /\ at' = "read"
  /\ todo' = {}
  /\ UNCHANGED <<state, packet_id, handlers, intact, app, result, inbox>>
  /\ UNCHANGED <<link, toClient, wire, broker>>

PacketHandler ==
  \/ PubackOrPubcomp("PUBACK") \/ PubackOrPubcomp("PUBCOMP") \/ Suback
  \/ RecordPubrel \/ UnrecordReceived
  \/ \E ok \in BOOLEAN : PublishQos1(ok) \/ PublishQos2(ok) \/ Pubrec(ok) \/ Pubrel(ok)

-----------------------------------------------------------------------------
(* The mqtt thread: time-outs and reconnection *)

(* Mutant: only messages are sent again, not their releases. *)
Resend_NoPubcomp(a, ok) ==
  /\ at = "read"
  /\ state = "CONNECTED"
  /\ a.type \in {"PUBACK", "PUBREC", "PUBREL"}
  /\ Send(a.payload, ok)
  /\ UNCHANGED <<client, link, toClient, broker>>

(* mqtt_ack_list_scan(c, 1): an acknowledgement is overdue.  The packet is *)
(* sent again, ...                                                         *)
Resend(a, ok) ==
  /\ at = "read"
  /\ state = "CONNECTED"
  /\ a.type # "SUBACK"
  /\ Send(a.payload, ok)
  /\ UNCHANGED <<client, link, toClient, broker>>

(* ... a subscription is dropped. *)
Destroy(a) ==
  /\ at = "read"
  /\ state = "CONNECTED"
  /\ a.type = "SUBACK"
  /\ Unrecord(a.type, a.id)
  /\ UNCHANGED <<state, packet_id, handlers, intact, app, at, todo, result, inbox>>
  /\ UNCHANGED <<link, toClient, wire, broker>>

(* mqtt_keep_alive() gives up the broken link. *)
GiveUp ==
  /\ at = "read"
  /\ state = "CONNECTED"
  /\ link = "broken"
  /\ state' = "DISCONNECTED"
  /\ link' = "none"
  /\ UNCHANGED <<packet_id, acks, number, handlers, intact, app, at, todo, result, inbox>>
  /\ UNCHANGED <<toClient, wire, broker>>

(* What the broker sends again when the session is resumed. *)
Resumed ==
  LET unfinished == {m \in Incoming : out[m] \in {"sent", "released"}}
  IN  IF unfinished = {} THEN <<>>
      ELSE LET m == CHOOSE m \in unfinished : TRUE
           IN  <<IF out[m] = "sent" THEN Packet("PUBLISH", BrokerId, m)
                 ELSE Packet("PUBREL", BrokerId, None)>>

(* mqtt_try_do_reconnect(): the connection is there again, ... *)
Reconnect ==
  /\ at = "read"
  /\ state # "CONNECTED"
  /\ state' = "CONNECTED"
  /\ link' = "up"
  /\ toClient' = Resumed
  /\ at' = "resubscribe"
  /\ todo' = handlers
  /\ UNCHANGED <<packet_id, acks, number, handlers, intact, app, result, inbox>>
  /\ UNCHANGED <<wire, broker>>

(* ... mqtt_try_resubscribe() subscribes to every installed topic, ... *)
Resubscribe(t, ok) ==
  /\ at = "resubscribe"
  /\ t \in todo
  /\ todo' = todo \ {t}
  /\ IF state = "CONNECTED" THEN Subscribe(t, ok)
     ELSE ok /\ UNCHANGED <<packet_id, acks, number, wire>>
  /\ UNCHANGED <<state, handlers, intact, app, at, result, inbox>>
  /\ UNCHANGED <<link, toClient, broker>>

(* ... and mqtt_ack_list_scan(c, 0) sends everything again.  The scan goes *)
(* on when the connection is lost meanwhile.                               *)
BeginScan ==
  /\ at = "resubscribe"
  /\ todo = {}
  /\ IF state = "CONNECTED" THEN at' = "scan" /\ todo' = acks ELSE at' = "read" /\ todo' = {}
  /\ UNCHANGED <<state, packet_id, acks, number, handlers, intact, app, result, inbox>>
  /\ UNCHANGED <<link, toClient, wire, broker>>

Scan(a, ok) ==
  /\ at = "scan"
  /\ a \in todo
  /\ todo' = todo \ {a}
  /\ IF a.type = "SUBACK" THEN ok /\ UNCHANGED wire ELSE Send(a.payload, ok)
  /\ UNCHANGED <<state, packet_id, acks, number, handlers, intact, app, at, result, inbox>>
  /\ UNCHANGED <<link, toClient, broker>>

EndScan ==
  /\ at = "scan"
  /\ todo = {}
  /\ at' = "read"
  /\ UNCHANGED <<state, packet_id, acks, number, handlers, intact, app, todo, result, inbox>>
  /\ UNCHANGED <<link, toClient, wire, broker>>

Reconnection ==
  \/ GiveUp \/ Reconnect \/ BeginScan \/ EndScan
  \/ \E t \in todo, ok \in BOOLEAN : Resubscribe(t, ok)
  \/ \E a \in todo, ok \in BOOLEAN : Scan(a, ok)

Timeouts == \E a \in acks : Destroy(a) \/ \E ok \in BOOLEAN : Resend(a, ok)

-----------------------------------------------------------------------------
(* The broker and the network *)

Answer(packet) ==
  /\ Len(toClient) < Capacity
  /\ toClient' = Append(toClient, packet)

Taken(type) ==
  /\ toBroker # <<>>
  /\ Head(toBroker).type = type
  /\ toBroker' = Tail(toBroker)
  /\ UNCHANGED <<client, faults>>

BrokerPublish ==
  LET p == Head(toBroker)
      known == QoS[p.msg] = 2 /\ p.id \in pending
  IN  /\ Taken("PUBLISH")
      /\ delivered' = IF known THEN delivered ELSE [delivered EXCEPT ![p.msg] = Count(p.msg, @)]
      /\ pending' = IF QoS[p.msg] = 2 THEN pending \cup {p.id} ELSE pending
      /\ Answer(Packet(Awaited(p.msg), p.id, None))
      /\ UNCHANGED <<link, out>>

BrokerPubrel ==
  /\ Taken("PUBREL")
  /\ pending' = pending \ {Head(toBroker).id}
  /\ Answer(Packet("PUBCOMP", Head(toBroker).id, None))
  /\ UNCHANGED <<link, delivered, out>>

BrokerSubscribe ==
  /\ Taken("SUBSCRIBE")
  /\ \E granted \in {"granted", "refused"} : Answer(Packet("SUBACK", Head(toBroker).id, granted))
  /\ UNCHANGED <<link, broker>>

Advance(from, to) == out' = [m \in Incoming |-> IF out[m] = from THEN to ELSE out[m]]

BrokerPuback ==
  /\ Taken("PUBACK")
  /\ Advance("sent", "done")
  /\ UNCHANGED <<link, toClient, pending, delivered>>

BrokerPubrec ==
  /\ Taken("PUBREC")
  /\ Advance("sent", "released")
  /\ Answer(Packet("PUBREL", Head(toBroker).id, None))
  /\ UNCHANGED <<link, pending, delivered>>

BrokerPubcomp ==
  /\ Taken("PUBCOMP")
  /\ Advance("released", "done")
  /\ UNCHANGED <<link, toClient, pending, delivered>>

(* The broker publishes its next message when the last one is complete. *)
BrokerSend(m) ==
  /\ link = "up"
  /\ out[m] = "new"
  /\ Exchanges < MaxExchanges
  /\ \A n \in Incoming : out[n] \in {"new", "done"}
  /\ Answer(Packet("PUBLISH", BrokerId, m))
  /\ out' = [out EXCEPT ![m] = "sent"]
  /\ UNCHANGED <<client, link, wire, pending, delivered>>

LinkDown ==
  /\ link' = "broken"
  /\ toBroker' = <<>>
  /\ toClient' = <<>>

(* Bytes that are no packet: the broker closes the connection. *)
BrokerGarbled ==
  /\ toBroker # <<>>
  /\ Head(toBroker) = Garbled
  /\ LinkDown
  /\ UNCHANGED <<client, faults, broker>>

Break ==
  /\ link = "up"
  /\ faults < MaxFaults
  /\ faults' = faults + 1
  /\ LinkDown
  /\ UNCHANGED <<client, broker>>

Broker ==
  \/ BrokerPublish \/ BrokerPubrel \/ BrokerSubscribe \/ BrokerPuback \/ BrokerPubrec
  \/ BrokerPubcomp \/ BrokerGarbled

Next ==
  \/ AppThread \/ PacketHandler \/ Reconnection \/ Timeouts \/ Broker
  \/ (\E m \in Incoming : BrokerSend(m)) \/ Break

Spec == Init /\ [][Next]_vars

AppReturns ==
  \/ \E m \in Messages : TooManyAcks(m) \/ \E ok \in BOOLEAN : mqtt_publish(m, ok)
  \/ \E t \in Topics, ok \in BOOLEAN : mqtt_subscribe(t, ok)
  \/ Release

(* What is overdue at last: a subscription is dropped, a packet sent again. *)
Overdue(type) == \E a \in acks : a.type = type /\ (Destroy(a) \/ Resend(a, TRUE))

(* Both threads go on, the broker answers, and a record whose time is over *)
(* again and again is sent, or dropped, in the end.                        *)
FairSpec ==
  /\ Spec
  /\ WF_vars(AppReturns)
  /\ WF_vars(PacketHandler \/ Reconnection)
  /\ WF_vars(Broker)
  /\ \A type \in AckTypes : SF_vars(Overdue(type))

-----------------------------------------------------------------------------
(* Properties *)

Packets ==
  [type : AckTypes \cup {"PUBLISH", "SUBSCRIBE", "GARBLED"},
   id : 0..MaxPacketId,
   msg : Messages \cup Incoming \cup Topics \cup {None, "granted", "refused"}]

Entries == [type : AckTypes, id : 0..MaxPacketId, payload : Packets]

TypeOK ==
  /\ state \in {"CONNECTED", "DISCONNECTED"}
  /\ link \in {"up", "broken", "none"}
  /\ packet_id \in 1..MaxPacketId
  /\ acks \subseteq Entries
  /\ number \in Nat
  /\ handlers \subseteq Topics
  /\ intact \in BOOLEAN
  /\ app \in {"idle", "release"} \X {None} \cup {"call"} \X Calls
  /\ at \in {"read", "record", "unrecord", "resubscribe", "scan"}
  /\ at = "read" => todo = {}
  /\ at \in {"record", "unrecord"} => todo \subseteq Packets
  /\ at = "resubscribe" => todo \subseteq handlers
  /\ at = "scan" => todo \subseteq acks
  /\ result \in [Calls -> {"new", "called", "done", "failed", "refused"}]
  /\ inbox \in [Incoming -> 0..2]
  /\ toBroker \in Seq(Packets)
  /\ toClient \in Seq(Packets)
  /\ faults \in 0..MaxFaults
  /\ pending \subseteq 0..MaxPacketId
  /\ delivered \in [Messages -> 0..2]
  /\ out \in [Incoming -> {"new", "sent", "released", "done"}]

(* The counter that mqtt_publish() compares with the limit is the length   *)
(* of the list, and no acknowledgement can mean two entries of the list,   *)
(* whatever the two threads and repeated acknowledgements do to it.        *)
CountIsLength ==
  /\ number = Cardinality(acks)
  /\ \A a, b \in acks : a.type = b.type /\ a.id = b.id => a = b

(* A message that mqtt_publish() has taken is at the broker, or it is on   *)
(* the list and will be sent again: no break, no time-out and no other     *)
(* acknowledgement strikes it off too early.                               *)
NothingLost ==
  \A m \in Messages : result[m] = "done" /\ delivered[m] = 0 =>
    \E a \in acks : a.type = Awaited(m) /\ a.payload = Packet("PUBLISH", a.id, m)

Outbound == INSTANCE MqttDelivery WITH offered <- {m \in Messages : result[m] # "new"}

Inbound == INSTANCE MqttDelivery WITH
  Messages <- Incoming, offered <- {m \in Incoming : out[m] # "new"}, delivered <- inbox

(* mqtt_publish() keeps the promise of the quality of service: a message   *)
(* of QoS 2 arrives at most once, although the client sends it, and the    *)
(* release of it, again whenever an answer is late or the link breaks.     *)
PublishedOnce == Outbound!Spec

(* The application gets a message of QoS 2 at most once, although the      *)
(* broker repeats it after a break, and the next message with the same     *)
(* packet id is a new one.                                                 *)
ReceivedOnce == Inbound!Spec

(* A record that is not what was sent: the app thread wrote its packet to  *)
(* the buffer before mqtt_publish_packet_handle() recorded its PUBREC.     *)
Corrupted == \E a \in acks : a.payload = Garbled

(* Every entry of the list is settled in the end, unless a corrupted one   *)
(* stays: with NothingLost, every message that was taken arrives.          *)
Drains == <>[]~Corrupted => <>[](acks = {})

(* What README.md:31 of the package says: a reconnection does not lose a   *)
(* topic, it subscribes to every topic that mqtt_subscribe() has taken.    *)
TopicsKept ==
  at = "scan" => \A t \in Topics : result[t] = "done" => t \in handlers
=============================================================================
