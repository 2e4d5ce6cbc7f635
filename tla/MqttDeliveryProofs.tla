------------------------- MODULE MqttDeliveryProofs -------------------------
(***************************************************************************)
(* Delivery over MqttAcks, for every number of messages, topics, faults    *)
(* and packet ids, as MqttDelivery promises it.                            *)
(*                                                                         *)
(* From the broker (InboundInv): a message of QoS 2 that the client hands  *)
(* over is on the list under the broker's packet id from then on (Known),  *)
(* and what strikes it off, PUBREL, is behind the last copy of the message *)
(* on the channel.  A copy that comes before is recognised, one that comes *)
(* after belongs to the next message.                                      *)
(*                                                                         *)
(* To the broker (OutboundInv): an acknowledgement that is under way is    *)
(* one for a message that has arrived, and as long as PUBREC is not        *)
(* settled the broker remembers the id.  That needs the client not to use  *)
(* an id again for as long as anything of its former use is left           *)
(* (FreshIds).  mqtt_get_next_packet_id() counts round 65534 ids and does  *)
(* not look: when it comes round to an id in use, NothingLost and          *)
(* PublishedOnce fail indeed.  Before its first round is over all ids are  *)
(* fresh (FirstRoundIsFresh): whatever is in use has an id it has given    *)
(* away before (Seen), and the next one is larger.                         *)
(***************************************************************************)
EXTENDS MqttAcksProofs

(* After a reconnection the broker repeats what is not complete. *)
LEMMA ResumedPacket ==
  \/ Resumed = <<>>
  \/ \E m \in Incoming : out[m] = "sent" /\ Resumed = <<Packet("PUBLISH", BrokerId, m)>>
  \/ \E m \in Incoming : out[m] = "released" /\ Resumed = <<Packet("PUBREL", BrokerId, None)>>
  <1> DEFINE unfinished == {m \in Incoming : out[m] \in {"sent", "released"}}
             m == CHOOSE m \in unfinished : TRUE
  <1>1. CASE unfinished = {}
    BY <1>1 DEF Resumed
  <1>2. CASE unfinished # {}
    <2>1. m \in unfinished
      BY <1>2
    <2>2. Resumed = <<IF out[m] = "sent" THEN Packet("PUBLISH", BrokerId, m)
                      ELSE Packet("PUBREL", BrokerId, None)>>
      BY <1>2 DEF Resumed
    <2>3. QED
      BY <2>1, <2>2
  <1>3. QED
    BY <1>1, <1>2

-----------------------------------------------------------------------------
(* Messages from the broker *)

(* The places of the channel to the client. *)
Places == 1..Len(toClient)

(* The message m is under way to the client, at place i of the channel. *)
Copy(m, i) == toClient[i].type = "PUBLISH" /\ toClient[i].msg = m

(* PUBREC is sent for m, it is not recorded yet. *)
InHand(m) == at = "record" /\ \E p \in todo : p.msg = m

(* PUBREL has been read, the record of the message is about to go. *)
Striking == at = "unrecord" /\ \E p \in todo : p.type = "PUBREL"

(* No PUBREL is under way or being worked on. *)
NoRelease == ~Striking /\ \A i \in Places : toClient[i].type # "PUBREL"

(* The message with the broker's packet id has been seen before. *)
Known == Exists("PUBREL", BrokerId)

(* Everything the broker publishes has its one packet id, and the client   *)
(* handles one message at a time.                                          *)
FromBroker ==
  /\ \A i \in Places :
       toClient[i].type = "PUBLISH" => toClient[i].id = BrokerId /\ toClient[i].msg \in Incoming
  /\ at = "record" => \A p \in todo : p.id = BrokerId /\ p.msg \in Incoming /\ QoS[p.msg] = 2
  /\ at = "record" => \A p, q \in todo : p = q

(* The broker has one message under way at a time. *)
OneActive ==
  \A m, n \in Incoming : out[m] \in {"sent", "released"} /\ out[n] \in {"sent", "released"} => m = n

(* A message the broker has not sent is nowhere. *)
NewUntouched ==
  \A m \in Incoming : out[m] = "new" => inbox[m] = 0 /\ ~InHand(m) /\ \A i \in Places : ~Copy(m, i)

(* A message is on its way at most once: it is repeated only after the     *)
(* channel has lost what it held.                                          *)
OneCopy ==
  \A m \in Incoming, i \in Places : Copy(m, i) =>
    ~InHand(m) /\ \A j \in Places : Copy(m, j) => i = j

(* While the broker waits for PUBREC a message that has been handed over   *)
(* stays on the list.                                                      *)
SentKnown ==
  \A m \in Incoming : QoS[m] = 2 /\ out[m] = "sent" /\ inbox[m] > 0 => Known /\ NoRelease

(* A PUBREL that a copy of the message meets is one of the message before  *)
(* it.                                                                     *)
ReleasedEarlier ==
  \A m \in Incoming : out[m] = "sent" =>
    /\ \A i, j \in Places : Copy(m, i) /\ toClient[j].type = "PUBREL" => j < i
    /\ InHand(m) => NoRelease

(* A copy of a message that has been handed over will be recognised when   *)
(* it is read: nothing before it on the channel strikes the record off.    *)
CopyKnown ==
  \A m \in Incoming : QoS[m] = 2 /\ inbox[m] > 0 =>
    /\ InHand(m) => Known
    /\ \A i \in Places : Copy(m, i) =>
         Known /\ ~Striking /\ \A j \in Places : j < i => toClient[j].type # "PUBREL"

InboundInv ==
  FromBroker /\ OneActive /\ NewUntouched /\ OneCopy /\ SentKnown /\ ReleasedEarlier /\ CopyKnown

(* Packets other than PUBLISH and PUBREL may come, any packet may go. *)
Uninvolved ==
  \/ UNCHANGED toClient
  \/ toClient' = <<>>
  \/ toClient # <<>> /\ toClient' = Tail(toClient)
  \/ \E p : toClient' = Append(toClient, p) /\ p.type \notin {"PUBLISH", "PUBREL"}

(* A step that neither publishes to the client nor releases a message. *)
LEMMA InboundQuiet ==
  ASSUME TypeInv, InboundInv, Uninvolved, Known => Known', UNCHANGED inbox,
         UNCHANGED <<at, todo>> \/ (at' # "record" /\ ~Striking'),
         UNCHANGED out \/ Advance("sent", "done") \/ Advance("released", "done")
  PROVE  InboundInv'
  <1> USE DEF Places, Copy, InHand, Striking, NoRelease
  <1>1. toClient \in Seq(Packets) /\ out \in [Incoming -> {"new", "sent", "released", "done"}]
    BY DEF TypeInv, TypeOK
  <1>2. \A m \in Incoming : /\ out'[m] = "new" => out[m] = "new"
                            /\ out'[m] = "sent" => out[m] = "sent"
                            /\ out'[m] = "released" => out[m] = "released"
    BY <1>1 DEF Advance
  <1>3. CASE UNCHANGED toClient \/ toClient' = <<>>
    BY <1>1, <1>2, <1>3 DEF InboundInv, FromBroker, OneActive, NewUntouched, OneCopy, SentKnown,
       ReleasedEarlier, CopyKnown
  <1>4. CASE toClient # <<>> /\ toClient' = Tail(toClient)
    BY <1>1, <1>2, <1>4 DEF InboundInv, FromBroker, OneActive, NewUntouched, OneCopy, SentKnown,
       ReleasedEarlier, CopyKnown
  <1>5. ASSUME NEW p, toClient' = Append(toClient, p), p.type \notin {"PUBLISH", "PUBREL"}
        PROVE  InboundInv'
    BY <1>1, <1>2, <1>5 DEF InboundInv, FromBroker, OneActive, NewUntouched, OneCopy, SentKnown,
       ReleasedEarlier, CopyKnown
  <1>6. QED
    BY <1>3, <1>4, <1>5 DEF Uninvolved

(* Recording keeps what is known; so does striking off something else. *)
LEMMA StillKnown ==
  ASSUME NEW type, NEW id
  PROVE  /\ \A packet : Record(type, id, packet) => (Known => Known')
         /\ type # "PUBREL" /\ Unrecord(type, id) => (Known => Known')
  BY DEF Record, Unrecord, Known, Exists

(* mqtt_ack_list_record() finds the record or makes it. *)
LEMMA RecordExists ==
  ASSUME NEW type, NEW id, NEW packet, Record(type, id, packet)
  PROVE  Exists(type, id)'
  <1>1. CASE Exists(type, id)
    BY <1>1 DEF Record, Exists
  <1>2. CASE ~Exists(type, id)
    <2> DEFINE e == [type |-> type, id |-> id, payload |-> packet]
    <2>1. e \in acks' /\ e.type = type /\ e.id = id
      BY <1>2 DEF Record
    <2>2. QED
      BY <2>1 DEF Exists
  <1>3. QED
    BY <1>1, <1>2

(* The application's thread does not touch messages from the broker. *)
LEMMA AppInbound ==
  ASSUME TypeInv, InboundInv, AppThread
  PROVE  InboundInv'
  <1>1. UNCHANGED <<inbox, at, todo, out>>
    BY DEF AppThread, Call, TooManyAcks, mqtt_publish, mqtt_subscribe, Release, broker
  <1>2. Uninvolved
    BY DEF AppThread, Call, TooManyAcks, mqtt_publish, mqtt_subscribe, Release, Uninvolved
  <1>3. Known => Known'
    <2>1. UNCHANGED acks => Known' = Known
      BY DEF Known, Exists
    <2>2. QED
      BY <2>1, StillKnown DEF AppThread, Call, TooManyAcks, mqtt_publish, mqtt_subscribe,
         Subscribe, Release
  <1>4. QED
    BY <1>1, <1>2, <1>3, InboundQuiet

(* mqtt_publish_packet_handle(), QoS 1: no record is involved. *)
LEMMA PublishQos1Inbound ==
  ASSUME TypeInv, InboundInv, NEW ok \in BOOLEAN, PublishQos1(ok)
  PROVE  InboundInv'
  <1>1. /\ toClient \in Seq(Packets) /\ toClient # <<>> /\ toClient' = Tail(toClient)
        /\ UNCHANGED <<acks, at, todo, out>>
        /\ toClient[1].type = "PUBLISH"
        /\ QoS[toClient[1].msg] = 1
    BY DEF PublishQos1, Received, TypeInv, TypeOK, broker
  <1>2. \A m \in Incoming : m # toClient[1].msg => inbox'[m] = inbox[m]
    BY <1>1 DEF PublishQos1, TypeInv, TypeOK
  <1>3. QED
    BY <1>1, <1>2 DEF Places, Copy, InHand, Striking, NoRelease, Known, Exists, InboundInv,
       FromBroker, OneActive, NewUntouched, OneCopy, SentKnown, ReleasedEarlier, CopyKnown

(* QoS 2, first critical section: PUBREC is sent. *)
LEMMA PublishQos2Inbound ==
  ASSUME TypeInv, InboundInv, NEW ok \in BOOLEAN, PublishQos2(ok)
  PROVE  InboundInv'
  <1>1. /\ toClient \in Seq(Packets) /\ toClient # <<>> /\ toClient' = Tail(toClient)
        /\ UNCHANGED <<acks, inbox, out>>
        /\ at = "read"
        /\ toClient[1].type = "PUBLISH"
        /\ QoS[toClient[1].msg] = 2
        /\ at' = IF ok THEN "record" ELSE "read"
        /\ todo' = IF ok THEN {toClient[1]} ELSE {}
    <2>1. toClient \in Seq(Packets)
      BY DEF TypeInv, TypeOK
    <2>2. QED
      BY <2>1 DEF PublishQos2, Received, broker
  <1> USE DEF Places, Copy, InHand, Striking, NoRelease, Known, Exists
  <1>2. FromBroker' /\ OneActive'
    BY <1>1 DEF InboundInv, FromBroker, OneActive
  <1>3. NewUntouched' /\ OneCopy'
    BY <1>1 DEF InboundInv, NewUntouched, OneCopy
  <1>4. SentKnown' /\ ReleasedEarlier'
    BY <1>1 DEF InboundInv, SentKnown, ReleasedEarlier
  <1>5. CopyKnown'
    BY <1>1 DEF InboundInv, CopyKnown
  <1>6. QED
    BY <1>2, <1>3, <1>4, <1>5 DEF InboundInv

(* QoS 2, second critical section: the message is recorded and, if it was  *)
(* not before, handed over.                                                *)
LEMMA RecordPubrelInbound ==
  ASSUME TypeInv, InboundInv, RecordPubrel
  PROVE  InboundInv'
  <1>1. PICK p \in todo :
          /\ Record("PUBREL", p.id, IF intact THEN Packet("PUBREC", p.id, None) ELSE Garbled)
          /\ inbox' = IF Exists("PUBREL", p.id) THEN inbox
                      ELSE [inbox EXCEPT ![p.msg] = Count(p.msg, @)]
    BY DEF RecordPubrel
  <1>2. /\ p.id = BrokerId /\ p.msg \in Incoming /\ QoS[p.msg] = 2 /\ todo = {p}
        /\ at = "record" /\ at' = "read"
        /\ inbox \in [Incoming -> 0..2] /\ toClient \in Seq(Packets)
        /\ UNCHANGED <<toClient, out>>
    BY <1>1 DEF RecordPubrel, InboundInv, FromBroker, TypeInv, TypeOK, broker
  <1>3. Known'
    BY <1>1, <1>2, RecordExists DEF Known
  <1>4. \A m \in Incoming : m # p.msg => inbox'[m] = inbox[m]
    BY <1>1, <1>2
  <1>5. QED
    BY <1>2, <1>3, <1>4 DEF Places, Copy, InHand, Striking, NoRelease, InboundInv, FromBroker,
       OneActive, NewUntouched, OneCopy, SentKnown, ReleasedEarlier, CopyKnown

(* PUBREL is read and answered, ... *)
LEMMA PubrelInbound ==
  ASSUME TypeInv, InboundInv, NEW ok \in BOOLEAN, Pubrel(ok)
  PROVE  InboundInv'
  <1>1. /\ toClient \in Seq(Packets) /\ toClient # <<>> /\ toClient' = Tail(toClient)
        /\ UNCHANGED <<acks, inbox, out>>
        /\ at = "read" /\ at' = "unrecord"
        /\ toClient[1].type = "PUBREL"
        /\ todo' = {toClient[1]}
    <2>1. toClient \in Seq(Packets)
      BY DEF TypeInv, TypeOK
    <2>2. QED
      BY <2>1 DEF Pubrel, Received, broker
  <1> USE DEF Places, Copy, InHand, Striking, NoRelease, Known, Exists
  <1>2. FromBroker' /\ OneActive'
    BY <1>1 DEF InboundInv, FromBroker, OneActive
  <1>3. NewUntouched' /\ OneCopy'
    BY <1>1 DEF InboundInv, NewUntouched, OneCopy
  <1>4. SentKnown' /\ ReleasedEarlier'
    BY <1>1 DEF InboundInv, SentKnown, ReleasedEarlier
  <1>5. CopyKnown'
    BY <1>1 DEF InboundInv, CopyKnown
  <1>6. QED
    BY <1>2, <1>3, <1>4, <1>5 DEF InboundInv

(* ... then the record is struck off; the same code strikes off PUBREC. *)
LEMMA UnrecordInbound ==
  ASSUME TypeInv, InboundInv, UnrecordReceived
  PROVE  InboundInv'
  <1>1. PICK p \in todo : Unrecord(p.type, p.id)
    BY DEF UnrecordReceived
  <1>2. at = "unrecord" /\ at' = "read" /\ UNCHANGED <<toClient, inbox, out>>
    BY DEF UnrecordReceived, broker
  <1>3. CASE p.type = "PUBREL"
    BY <1>2, <1>3 DEF Places, Copy, InHand, Striking, NoRelease, Known, InboundInv, FromBroker,
       OneActive, NewUntouched, OneCopy, SentKnown, ReleasedEarlier, CopyKnown
  <1>4. CASE p.type # "PUBREL"
    BY <1>1, <1>2, <1>4, StillKnown, InboundQuiet DEF Uninvolved, Striking
  <1>5. QED
    BY <1>3, <1>4

(* All of mqtt_packet_handle(). *)
LEMMA HandlerInbound ==
  ASSUME TypeInv, InboundInv, PacketHandler
  PROVE  InboundInv'
  <1>1. ASSUME NEW type \in {"PUBACK", "PUBCOMP"}, PubackOrPubcomp(type)
        PROVE  InboundInv'
    BY <1>1, StillKnown, InboundQuiet DEF PubackOrPubcomp, Received, Uninvolved, broker
  <1>2. CASE Suback
    BY <1>2, StillKnown, InboundQuiet DEF Suback, Received, Uninvolved, broker
  <1>3. ASSUME NEW ok \in BOOLEAN, Pubrec(ok)
        PROVE  InboundInv'
    <2>1. Uninvolved /\ UNCHANGED <<inbox, out>>
      BY <1>3 DEF Pubrec, Received, Uninvolved, broker
    <2>2. at' = "unrecord" /\ ~Striking'
      BY <1>3 DEF Pubrec, Received, Striking
    <2>3. Known => Known'
      BY <1>3, StillKnown DEF Pubrec
    <2>4. QED
      BY <2>1, <2>2, <2>3, InboundQuiet
  <1>4. QED
    BY <1>1, <1>2, <1>3, RecordPubrelInbound, UnrecordInbound, PublishQos1Inbound,
       PublishQos2Inbound,
       PubrelInbound DEF PacketHandler

(* A reconnection empties the channel before the broker repeats its        *)
(* message.                                                                *)
LEMMA ReconnectInbound ==
  ASSUME TypeInv, InboundInv, Reconnect
  PROVE  InboundInv'
  <1>1. at = "read" /\ at' = "resubscribe" /\ UNCHANGED <<acks, inbox, out>>
    BY DEF Reconnect, broker
  <1>2. \/ toClient' = <<>>
        \/ \E m \in Incoming : out[m] = "sent" /\ toClient' = <<Packet("PUBLISH", BrokerId, m)>>
        \/ \E m \in Incoming :
             out[m] = "released" /\ toClient' = <<Packet("PUBREL", BrokerId, None)>>
    BY ResumedPacket DEF Reconnect
  <1>3. QED
    BY <1>1, <1>2 DEF Packet, Places, Copy, InHand, Striking, NoRelease, Known, Exists,
       InboundInv, FromBroker, OneActive, NewUntouched, OneCopy, SentKnown, ReleasedEarlier,
       CopyKnown

(* The client's thread. *)
LEMMA ClientInbound ==
  ASSUME TypeInv, InboundInv, Reconnection \/ Timeouts
  PROVE  InboundInv'
  <1>1. UNCHANGED acks => (Known => Known')
    BY DEF Known, Exists
  <1>2. CASE GiveUp \/ BeginScan \/ EndScan
    BY <1>1, <1>2, InboundQuiet DEF GiveUp, BeginScan, EndScan, Uninvolved, Striking, broker
  <1>3. ASSUME NEW t \in todo, NEW ok \in BOOLEAN, Resubscribe(t, ok)
        PROVE  InboundInv'
    <2>1. Known => Known'
      BY <1>1, <1>3, StillKnown DEF Resubscribe, Subscribe
    <2>2. QED
      BY <1>3, <2>1, InboundQuiet DEF Resubscribe, Uninvolved, Striking, broker
  <1>4. ASSUME NEW a \in todo, NEW ok \in BOOLEAN, Scan(a, ok)
        PROVE  InboundInv'
    BY <1>1, <1>4, InboundQuiet DEF Scan, Uninvolved, Striking, broker
  <1>5. ASSUME NEW a \in acks, Destroy(a)
        PROVE  InboundInv'
    BY <1>5, StillKnown, InboundQuiet DEF Destroy, Uninvolved, broker
  <1>6. ASSUME NEW a \in acks, NEW ok \in BOOLEAN, Resend(a, ok)
        PROVE  InboundInv'
    BY <1>1, <1>6, InboundQuiet DEF Resend, Uninvolved, client, broker
  <1>7. QED
    BY <1>2, <1>3, <1>4, <1>5, <1>6, ReconnectInbound DEF Reconnection, Timeouts

(* The broker takes a packet and may answer it. *)
LEMMA BrokerInbound ==
  ASSUME TypeInv, InboundInv, Broker \/ Break
  PROVE  InboundInv'
  <1>1. UNCHANGED client
    BY DEF Broker, BrokerPublish, BrokerPubrel, BrokerSubscribe, BrokerPuback, BrokerPubrec,
       BrokerPubcomp, BrokerGarbled, Break, Taken
  <1>2. UNCHANGED <<acks, inbox, at, todo>>
    BY <1>1 DEF client
  <1>3. Known => Known'
    BY <1>2 DEF Known, Exists
  <1>4. CASE BrokerGarbled \/ Break
    BY <1>2, <1>3, <1>4, InboundQuiet DEF BrokerGarbled, Break, LinkDown, Uninvolved, broker
  <1>5. CASE BrokerPublish \/ BrokerPubrel \/ BrokerSubscribe
    <2>1. Uninvolved
      BY <1>5 DEF BrokerPublish, BrokerPubrel, BrokerSubscribe, Answer, Awaited, Packet,
         Uninvolved
    <2>2. UNCHANGED out
      BY <1>5 DEF BrokerPublish, BrokerPubrel, BrokerSubscribe, broker
    <2>3. QED
      BY <1>2, <1>3, <2>1, <2>2, InboundQuiet
  <1>6. CASE BrokerPuback \/ BrokerPubcomp
    BY <1>2, <1>3, <1>6, InboundQuiet DEF BrokerPuback, BrokerPubcomp, Uninvolved
  <1>7. CASE BrokerPubrec
    <2>1. toClient \in Seq(Packets) /\ out \in [Incoming -> {"new", "sent", "released", "done"}]
      BY DEF TypeInv, TypeOK
    <2>2. PICK p : toClient' = Append(toClient, p) /\ p.type = "PUBREL"
      BY <1>7 DEF BrokerPubrec, Answer, Packet
    <2>3. out' = [m \in Incoming |-> IF out[m] = "sent" THEN "released" ELSE out[m]]
      BY <1>7 DEF BrokerPubrec, Advance
    <2> USE DEF Places, Copy, InHand, Striking, NoRelease
    <2>4. \A m \in Incoming : out'[m] # "sent" /\ (out'[m] = "new" => out[m] = "new")
      BY <2>1, <2>3
    <2>5. FromBroker' /\ OneActive'
      BY <1>2, <2>1, <2>2, <2>3 DEF InboundInv, FromBroker, OneActive
    <2>6. NewUntouched' /\ OneCopy'
      BY <1>2, <2>1, <2>2, <2>4 DEF InboundInv, NewUntouched, OneCopy
    <2>7. SentKnown' /\ ReleasedEarlier'
      BY <2>4 DEF SentKnown, ReleasedEarlier
    <2>8. CopyKnown'
      BY <1>2, <1>3, <2>1, <2>2 DEF InboundInv, CopyKnown
    <2>9. QED
      BY <2>5, <2>6, <2>7, <2>8 DEF InboundInv
  <1>8. QED
    BY <1>4, <1>5, <1>6, <1>7 DEF Broker

(* The broker sends the next message. *)
LEMMA BrokerSendInbound ==
  ASSUME TypeInv, InboundInv, NEW m \in Incoming, BrokerSend(m)
  PROVE  InboundInv'
  <1>1. UNCHANGED <<acks, inbox, at, todo>>
    BY DEF BrokerSend, client
  <1>2. toClient \in Seq(Packets) /\ out \in [Incoming -> {"new", "sent", "released", "done"}]
    BY DEF TypeInv, TypeOK
  <1>3. PICK p : /\ toClient' = Append(toClient, p)
                 /\ p.type = "PUBLISH" /\ p.id = BrokerId /\ p.msg = m
    BY DEF BrokerSend, Answer, Packet
  <1>4. /\ out[m] = "new" /\ out' = [out EXCEPT ![m] = "sent"]
        /\ \A n \in Incoming : out[n] \in {"new", "done"}
    BY DEF BrokerSend
  <1>5. QED
    BY <1>1, <1>2, <1>3, <1>4 DEF Places, Copy, InHand, Striking, NoRelease, Known, Exists,
       InboundInv, FromBroker, OneActive, NewUntouched, OneCopy, SentKnown, ReleasedEarlier,
       CopyKnown

(* Every step of the client, the broker and the network keeps the          *)
(* invariant.                                                              *)
LEMMA InboundStep == TypeInv /\ InboundInv /\ [Next]_vars => InboundInv'
  <1> SUFFICES ASSUME TypeInv, InboundInv, [Next]_vars PROVE InboundInv'
    OBVIOUS
  <1>1. CASE UNCHANGED vars
    <2>1. UNCHANGED <<toClient, inbox, at, todo, out, acks>>
      BY <1>1 DEF vars, client, broker
    <2>2. QED
      BY <2>1, InboundQuiet DEF Uninvolved, Known, Exists
  <1>2. QED
    BY <1>1, AppInbound, HandlerInbound, ClientInbound, BrokerInbound, BrokerSendInbound DEF Next

LEMMA InboundInit == Init => InboundInv
  BY AcksAssumption DEF Init, Places, Copy, InHand, Striking, NoRelease, Known, Exists,
     InboundInv, FromBroker, OneActive, NewUntouched, OneCopy, SentKnown, ReleasedEarlier,
     CopyKnown

(* A message is handed over as the quality of service allows. *)
LEMMA InboundDelivers ==
  ASSUME TypeInv, InboundInv, [Next]_vars
  PROVE  [Inbound!Next]_<<{m \in Incoming : out[m] # "new"}, inbox>>
  <1> DEFINE offered == {m \in Incoming : out[m] # "new"}
  <1>1. UNCHANGED <<inbox, out>> => UNCHANGED <<offered, inbox>>
    OBVIOUS
  <1>2. CASE AppThread
    BY <1>1, <1>2 DEF AppThread, Call, TooManyAcks, mqtt_publish, mqtt_subscribe, Release, broker
  <1>3. CASE Reconnection \/ Timeouts
    <2>1. UNCHANGED <<inbox, out>>
      BY <1>3 DEF Reconnection, Timeouts, GiveUp, Reconnect, BeginScan, EndScan, Resubscribe,
         Scan, Destroy, Resend, client, broker
    <2>2. QED
      BY <1>1, <2>1
  <1>4. CASE Broker \/ Break
    <2>1. UNCHANGED inbox
      BY <1>4 DEF Broker, BrokerPublish, BrokerPubrel, BrokerSubscribe, BrokerPuback,
         BrokerPubrec,
         BrokerPubcomp, BrokerGarbled, Break, Taken, client
    <2>2. \A m \in Incoming : out'[m] = "new" <=> out[m] = "new"
      BY <1>4 DEF Broker, BrokerPublish, BrokerPubrel, BrokerSubscribe, BrokerPuback,
         BrokerPubrec,
         BrokerPubcomp, BrokerGarbled, Break, Advance, broker
    <2>3. QED
      BY <2>1, <2>2
  <1>5. ASSUME NEW m \in Incoming, BrokerSend(m)
        PROVE  Inbound!Offer(m)
    <2>1. UNCHANGED inbox /\ out[m] = "new" /\ out' = [out EXCEPT ![m] = "sent"]
      BY <1>5 DEF BrokerSend, client
    <2>2. out \in [Incoming -> {"new", "sent", "released", "done"}]
      BY DEF TypeInv, TypeOK
    <2>3. QED
      BY <2>1, <2>2 DEF Inbound!Offer
  <1>6. ASSUME NEW ok \in BOOLEAN, PublishQos1(ok)
        PROVE  UNCHANGED <<offered, inbox>> \/ \E m \in Incoming : Inbound!Deliver(m)
    <2> DEFINE m == Head(toClient).msg
    <2>1. /\ UNCHANGED out /\ QoS[m] = 1
          /\ inbox' = IF ok THEN [inbox EXCEPT ![m] = Count(m, @)] ELSE inbox
      BY <1>6 DEF PublishQos1, Received, broker
    <2>2. m \in Incoming /\ out[m] # "new"
      <3>1. /\ toClient \in Seq(Packets) /\ toClient # <<>>
            /\ toClient[1].type = "PUBLISH" /\ m = toClient[1].msg
        BY <1>6 DEF PublishQos1, Received, TypeInv, TypeOK
      <3>2. QED
        BY <3>1 DEF InboundInv, FromBroker, NewUntouched, Places, Copy
    <2>3. QED
      BY <2>1, <2>2 DEF Inbound!Deliver, Count
  <1>7. CASE RecordPubrel
    <2>1. PICK p \in todo : inbox' = IF Exists("PUBREL", p.id) THEN inbox
                                     ELSE [inbox EXCEPT ![p.msg] = Count(p.msg, @)]
      BY <1>7 DEF RecordPubrel
    <2>2. UNCHANGED out /\ at = "record"
      BY <1>7 DEF RecordPubrel, broker
    <2>3. p.id = BrokerId /\ p.msg \in Incoming /\ QoS[p.msg] = 2 /\ InHand(p.msg)
      BY <2>2 DEF InboundInv, FromBroker, InHand
    <2>4. out[p.msg] # "new"
      BY <2>3 DEF InboundInv, NewUntouched
    <2>5. CASE Exists("PUBREL", p.id)
      BY <2>1, <2>2, <2>5
    <2>6. CASE ~Exists("PUBREL", p.id)
      <3>1. inbox[p.msg] = 0
        BY <2>3, <2>6 DEF InboundInv, CopyKnown, Known, TypeInv, TypeOK
      <3>2. Inbound!Deliver(p.msg)
        BY <2>1, <2>2, <2>3, <2>4, <2>6, <3>1 DEF Inbound!Deliver, Count
      <3>3. QED
        BY <2>3, <3>2 DEF Inbound!Next
    <2>7. QED
      BY <2>5, <2>6
  <1>8. CASE PacketHandler /\ ~RecordPubrel /\ ~(\E ok \in BOOLEAN : PublishQos1(ok))
    <2>1. UNCHANGED <<inbox, out>>
      BY <1>8 DEF PacketHandler, PubackOrPubcomp, Suback, UnrecordReceived, PublishQos2, Pubrec,
         Pubrel, Received, broker
    <2>2. QED
      BY <1>1, <2>1
  <1>9. CASE UNCHANGED vars
    BY <1>1, <1>9 DEF vars, client, broker
  <1>10. QED
    BY <1>2, <1>3, <1>4, <1>5, <1>6, <1>7, <1>8, <1>9 DEF Next, Inbound!Next

(* Whatever is lost, repeated or late, and whatever the acknowledgement    *)
(* list holds otherwise, mqtt_publish_packet_handle() hands a message of   *)
(* QoS 2 to the application at most once.                                  *)
THEOREM ReceivedAtMostOnce == Spec => ReceivedOnce
  <1>1. Init => TypeInv /\ InboundInv
    BY InboundInit, TypeInit
  <1>2. Init => Inbound!Init
    BY DEF Init, Inbound!Init
  <1>3. TypeInv /\ InboundInv /\ [Next]_vars
          => [Inbound!Next]_<<{m \in Incoming : out[m] # "new"}, inbox>>
    BY InboundDelivers
  <1>4. QED
    BY <1>1, <1>2, <1>3, InboundStep, TypeStep, PTL DEF Spec, ReceivedOnce, Inbound!Spec

-----------------------------------------------------------------------------
(* Messages to the broker *)

(* The packets under way to the broker, ... *)
Sent == {toBroker[i] : i \in 1..Len(toBroker)}

(* ... and back. *)
Back == {toClient[i] : i \in 1..Len(toClient)}

(* The records of publications that are not acknowledged. *)
Waiting == {a \in acks : a.type \in {"PUBACK", "PUBREC"}}

(* All copies of publications, under way or kept for sending them again. *)
Copies == {p \in Sent : p.type = "PUBLISH"} \cup {a.payload : a \in Waiting}

(* The acknowledgement has been read, the record is about to be struck     *)
(* off.                                                                    *)
Settling(type, id) == at = "unrecord" /\ \E p \in todo : p.type = type /\ p.id = id

(* An acknowledgement is under way or being settled. *)
Acked(type, id) == (\E p \in Back : p.type = type /\ p.id = id) \/ Settling(type, id)

(* The records of QoS 2 whose message the client may still send again. *)
Unanswered == {a \in acks : a.type = "PUBREC" /\ ~Settling("PUBREC", a.id)}

(* The copies that the broker may still see. *)
Live == {p \in Sent : p.type = "PUBLISH"} \cup {a.payload : a \in Unanswered}

(* Something of a use of the packet id is left: a record, a packet on one  *)
(* of the channels, or a message the broker waits to be released.          *)
InUse(id) ==
  \/ \E a \in acks : a.type \in {"PUBACK", "PUBREC", "PUBCOMP"} /\ a.id = id
  \/ \E p \in Sent : p.type \in {"PUBLISH", "PUBREL"} /\ p.id = id
  \/ Acked("PUBACK", id) \/ Acked("PUBREC", id)
  \/ id \in pending

(* A publication gets a packet id that is not in use. *)
FreshId == \A m \in Messages, ok \in BOOLEAN : mqtt_publish(m, ok) => ~InUse(NextPacketId)

FreshIds == [][FreshId]_vars

(* mqtt_publish() has been through with the message. *)
Begun(m) == result[m] \notin {"new", "called"}

(* Packets and records come from calls that were made, and a record keeps  *)
(* the packet it is a record of.                                           *)
Provenance ==
  /\ \A m \in Messages : app = <<"call", m>> => result[m] = "called"
  /\ \A m \in Messages : delivered[m] > 0 => Begun(m)
  /\ \A p \in Copies : p.type = "PUBLISH" /\ p.msg \in Messages /\ Begun(p.msg)
  /\ \A a \in Waiting : a.type = Awaited(a.payload.msg) /\ a.payload.id = a.id
  /\ \A a \in acks : /\ a.type = "PUBREL" => a.payload.type \in {"PUBREC", "GARBLED"}
                     /\ a.type = "PUBCOMP" => a.payload.type = "PUBREL" /\ a.payload.id = a.id

(* An id stands for one message. *)
OneId == \A p, q \in Copies : p.id = q.id <=> p.msg = q.msg

(* What is acknowledged has arrived. *)
AckedDelivered == \A a \in Waiting : Acked(a.type, a.id) => delivered[a.payload.msg] > 0

(* While a copy of a message of QoS 2 is left the broker knows its id      *)
(* exactly if it has it already: a copy is not taken for a new message.    *)
PendingDelivered ==
  \A p \in Live : QoS[p.msg] = 2 => (p.id \in pending <=> delivered[p.msg] > 0)

(* PUBREL follows the copies of its message: the broker does not forget an *)
(* id before it has seen them.                                             *)
ReleaseOrder ==
  \A i, j \in 1..Len(toBroker) :
    /\ toBroker[i].type = "PUBREL"
    /\ toBroker[j].type = "PUBLISH"
    /\ QoS[toBroker[j].msg] = 2
    /\ toBroker[i].id = toBroker[j].id
    => j < i

(* A message is not released before PUBREC is settled. *)
NotReleased ==
  \A a \in Unanswered :
    /\ \A p \in Sent : p.type = "PUBREL" => p.id # a.id
    /\ \A b \in acks : b.type = "PUBCOMP" => b.id # a.id

OutboundInv ==
  /\ Provenance /\ OneId /\ AckedDelivered /\ PendingDelivered
  /\ ReleaseOrder /\ NotReleased /\ NothingLost

(* What happens to the packets of a channel. *)
LEMMA AppendRange ==
  ASSUME NEW s \in Seq(Packets), NEW p \in Packets
  PROVE  {Append(s, p)[i] : i \in 1..Len(Append(s, p))} = {s[i] : i \in 1..Len(s)} \cup {p}
  OBVIOUS

LEMMA TailRange ==
  ASSUME NEW s \in Seq(Packets), s # <<>>
  PROVE  /\ {Tail(s)[i] : i \in 1..Len(Tail(s))} \subseteq {s[i] : i \in 1..Len(s)}
         /\ Head(s) \in {s[i] : i \in 1..Len(s)}
  OBVIOUS

(* The packets that go to the broker are the ones of before, or fewer, or  *)
(* one is added that is neither PUBLISH nor PUBREL.                        *)
ToBrokerQuiet ==
  \/ UNCHANGED toBroker
  \/ toBroker' = <<>>
  \/ toBroker # <<>> /\ toBroker' = Tail(toBroker)
  \/ \E p \in Packets : toBroker' = Append(toBroker, p) /\ p.type \notin {"PUBLISH", "PUBREL"}

(* Such a step leaves publications and releases on the wire as they are,   *)
(* or loses some.                                                          *)
LEMMA QuietWire ==
  ASSUME TypeInv, ToBrokerQuiet
  PROVE  /\ \A p \in Sent' : p.type \in {"PUBLISH", "PUBREL"} => p \in Sent
         /\ ReleaseOrder => ReleaseOrder'
  <1>1. toBroker \in Seq(Packets)
    BY DEF TypeInv, TypeOK
  <1>2. CASE UNCHANGED toBroker \/ toBroker' = <<>>
    BY <1>2 DEF Sent, ReleaseOrder
  <1>3. CASE toBroker # <<>> /\ toBroker' = Tail(toBroker)
    BY <1>1, <1>3 DEF Sent, ReleaseOrder
  <1>4. ASSUME NEW p \in Packets, toBroker' = Append(toBroker, p),
               p.type \notin {"PUBLISH", "PUBREL"}
        PROVE  Sent' = Sent \cup {p}
    BY <1>1, <1>4, AppendRange DEF Sent
  <1>5. CASE \E p \in Packets :
               toBroker' = Append(toBroker, p) /\ p.type \notin {"PUBLISH", "PUBREL"}
    BY <1>1, <1>4, <1>5 DEF ReleaseOrder
  <1>6. QED
    BY <1>2, <1>3, <1>5 DEF ToBrokerQuiet

(* A handler is between two critical sections for one packet. *)
OneInHand ==
  /\ at \in {"record", "unrecord"} => \A p, q \in todo : p = q
  /\ at = "unrecord" => \A p \in todo : p.type \in {"PUBREC", "PUBREL"}

LEMMA HandStep == OneInHand /\ [Next]_vars => OneInHand'
  <1> SUFFICES ASSUME OneInHand, [Next]_vars PROVE OneInHand'
    OBVIOUS
  <1>1. UNCHANGED <<at, todo>> \/ at' \notin {"record", "unrecord"} => OneInHand'
    BY DEF OneInHand
  <1>2. CASE AppThread
    BY <1>1, <1>2 DEF AppThread, Call, TooManyAcks, mqtt_publish, mqtt_subscribe, Release
  <1>3. CASE PacketHandler
    <2>1. ASSUME NEW ok \in BOOLEAN, PublishQos1(ok) \/ PublishQos2(ok) \/ Pubrec(ok) \/ Pubrel(ok)
          PROVE  OneInHand'
      BY <1>1, <2>1 DEF PublishQos1, PublishQos2, Pubrec, Pubrel, Received, OneInHand
    <2>2. QED
      BY <1>1, <1>3, <2>1 DEF PacketHandler, PubackOrPubcomp, Suback, RecordPubrel,
         UnrecordReceived
  <1>4. CASE Reconnection \/ Timeouts
    BY <1>1, <1>4 DEF Reconnection, Timeouts, GiveUp, Reconnect, Resubscribe, BeginScan, Scan,
       EndScan,
       Destroy, Resend, client
  <1>5. CASE Broker \/ Break \/ \E m \in Incoming : BrokerSend(m)
    <2>1. UNCHANGED client
      BY <1>5 DEF Broker, BrokerPublish, BrokerPubrel, BrokerSubscribe, BrokerPuback,
         BrokerPubrec,
         BrokerPubcomp, BrokerGarbled, Break, BrokerSend, Taken
    <2>2. QED
      BY <1>1, <2>1 DEF client
  <1>6. CASE UNCHANGED vars
    BY <1>1, <1>6 DEF vars, client
  <1>7. QED
    BY <1>2, <1>3, <1>4, <1>5, <1>6 DEF Next

-----------------------------------------------------------------------------
(* Steps that do not move a publication *)

(* Calls go on, but no publication is taken. *)
QuietCalls ==
  /\ \A m \in Messages : Begun(m) => Begun(m)'
  /\ \A m \in Messages : result'[m] = "done" => result[m] = "done"
  /\ \A m \in Messages : app' = <<"call", m>> => result'[m] = "called"

(* No acknowledgement is taken up or settled. *)
QuietThread ==
  \A type \in {"PUBACK", "PUBREC"} : \A id : Settling(type, id)' <=> Settling(type, id)

(* No acknowledgement of a publication is added. *)
QuietBack == \A p \in Back' : p.type \in {"PUBACK", "PUBREC"} => p \in Back

(* The list keeps its records of publications. *)
QuietList ==
  /\ Waiting' = Waiting
  /\ \A a \in acks' : \/ a \in acks
                      \/ a.type = "SUBACK"
                      \/ a.type = "PUBREL" /\ a.payload.type \in {"PUBREC", "GARBLED"}

(* A step that is quiet in all these ways keeps the invariant. *)
LEMMA OutboundQuiet ==
  ASSUME TypeInv, OutboundInv, ToBrokerQuiet, QuietCalls, QuietThread, QuietBack, QuietList,
         UNCHANGED <<pending, delivered>>
  PROVE  OutboundInv'
  <1> DEFINE W == {p \in Sent : p.type = "PUBLISH"}
  <1>1. W' \subseteq W
    BY QuietWire
  <1>2. Unanswered' = Unanswered
    BY DEF QuietThread, QuietList, Unanswered, Waiting
  <1>3. Copies' \subseteq Copies /\ Live' \subseteq Live
    BY <1>1, <1>2 DEF Copies, Live, QuietList
  <1>4. Provenance'
    BY <1>3 DEF OutboundInv, Provenance, QuietCalls, QuietList, Awaited
  <1>5. OneId'
    BY <1>3 DEF OutboundInv, OneId
  <1>6. AckedDelivered'
    BY DEF OutboundInv, AckedDelivered, QuietList, QuietThread, QuietBack, Acked, Waiting
  <1>7. PendingDelivered'
    BY <1>3 DEF OutboundInv, PendingDelivered
  <1>8. ReleaseOrder' /\ NotReleased'
    BY <1>2, QuietWire DEF OutboundInv, NotReleased, QuietList
  <1>9. NothingLost'
    BY DEF OutboundInv, NothingLost, QuietCalls, QuietList, Waiting, Awaited
  <1>10. QED
    BY <1>4, <1>5, <1>6, <1>7, <1>8, <1>9 DEF OutboundInv

(* Leaving a variable alone is quiet. *)
LEMMA QuietSame ==
  ASSUME OutboundInv
  PROVE  /\ UNCHANGED <<app, result>> => QuietCalls
         /\ UNCHANGED <<at, todo>> => QuietThread
         /\ UNCHANGED acks => QuietList
         /\ UNCHANGED toClient => QuietBack
         /\ UNCHANGED toBroker => ToBrokerQuiet
         /\ toBroker' = <<>> => ToBrokerQuiet
         /\ toClient' = <<>> => QuietBack
  <1>1. UNCHANGED <<app, result>> => QuietCalls
    BY DEF OutboundInv, Provenance, QuietCalls, Begun
  <1>2. UNCHANGED <<at, todo>> => QuietThread
    BY DEF QuietThread, Settling
  <1>3. UNCHANGED acks => QuietList
    BY DEF QuietList, Waiting
  <1>4. (UNCHANGED toClient \/ toClient' = <<>>) => QuietBack
    BY DEF QuietBack, Back
  <1>5. (UNCHANGED toBroker \/ toBroker' = <<>>) => ToBrokerQuiet
    BY DEF ToBrokerQuiet
  <1>6. QED
    BY <1>1, <1>2, <1>3, <1>4, <1>5

(* So is sending anything but PUBLISH and PUBREL, ... *)
LEMMA SendQuiet ==
  ASSUME NEW packet \in Packets, NEW ok \in BOOLEAN, Send(packet, ok),
         packet.type \notin {"PUBLISH", "PUBREL"}
  PROVE  ToBrokerQuiet
  BY DEF Send, ToBrokerQuiet

(* ... reading a packet, ... *)
LEMMA ReceivedQuiet ==
  ASSUME TypeInv, NEW type, Received(type)
  PROVE  Back' \subseteq Back /\ QuietBack /\ Head(toClient) \in Back
  <1>1. toClient \in Seq(Packets) /\ toClient # <<>> /\ toClient' = Tail(toClient)
    BY DEF TypeInv, TypeOK, Received
  <1>2. QED
    BY <1>1, TailRange DEF Back, QuietBack

(* ... the broker reading one, ... *)
LEMMA TakenQuiet ==
  ASSUME TypeInv, NEW type, Taken(type)
  PROVE  ToBrokerQuiet /\ UNCHANGED client /\ Head(toBroker) \in Sent
  <1>1. toBroker \in Seq(Packets) /\ toBroker # <<>> /\ toBroker' = Tail(toBroker)
    BY DEF TypeInv, TypeOK, Taken
  <1>2. QED
    BY <1>1, TailRange DEF Sent, ToBrokerQuiet, Taken

(* ... an answer other than PUBACK and PUBREC, ... *)
LEMMA AnswerBack ==
  ASSUME TypeInv, NEW packet \in Packets, Answer(packet)
  PROVE  /\ Back' = Back \cup {packet}
         /\ packet.type \notin {"PUBACK", "PUBREC"} => QuietBack
  <1>1. toClient \in Seq(Packets) /\ toClient' = Append(toClient, packet)
    BY DEF TypeInv, TypeOK, Answer
  <1>2. Back' = Back \cup {packet}
    BY <1>1, AppendRange DEF Back
  <1>3. QED
    BY <1>2 DEF QuietBack

(* ... and records of subscriptions and of messages from the broker. *)
LEMMA RecordQuiet ==
  ASSUME NEW type, NEW id, NEW packet, Record(type, id, packet),
         type = "SUBACK" \/ (type = "PUBREL" /\ packet.type \in {"PUBREC", "GARBLED"})
  PROVE  QuietList
  BY DEF Record, QuietList, Waiting

(* Striking those off is quiet, too. *)
LEMMA UnrecordQuiet ==
  ASSUME NEW type, NEW id, Unrecord(type, id), type \notin {"PUBACK", "PUBREC"}
  PROVE  QuietList
  BY DEF Unrecord, QuietList, Waiting

(* A call begins. *)
LEMMA CallOutbound ==
  ASSUME TypeInv, OutboundInv, NEW c \in Calls, Call(c)
  PROVE  OutboundInv'
  <1>1. QuietCalls
    BY AcksAssumption DEF Call, QuietCalls, Begun, TypeInv, TypeOK, Calls, Idle, OutboundInv,
       Provenance
  <1>2. QED
    BY <1>1, QuietSame, OutboundQuiet DEF Call, wire, broker

(* SUBSCRIBE and its record. *)
LEMMA SubscribeQuiet ==
  ASSUME TypeInv, NEW t \in Topics, NEW ok \in BOOLEAN, Subscribe(t, ok), OutboundInv
  PROVE  ToBrokerQuiet /\ QuietList
  <1>1. Packet("SUBSCRIBE", NextPacketId, t) \in Packets
    BY IdType, PacketType DEF Contents, TypeInv
  <1>2. ToBrokerQuiet
    BY <1>1, SendQuiet DEF Subscribe, Packet
  <1>3. QuietList
    BY RecordQuiet, QuietSame DEF Subscribe
  <1>4. QED
    BY <1>2, <1>3

(* The application's thread, but for mqtt_publish(). *)
LEMMA AppOutbound ==
  ASSUME TypeInv, OutboundInv, AppThread, ~(\E m \in Messages, ok \in BOOLEAN : mqtt_publish(m, ok))
  PROVE  OutboundInv'
  <1>1. ASSUME NEW m \in Messages, TooManyAcks(m)
        PROVE  OutboundInv'
    <2>1. QuietCalls
      BY <1>1 DEF TooManyAcks, Return, QuietCalls, Begun, TypeInv, TypeOK, Calls
    <2>2. QED
      BY <1>1, <2>1, QuietSame, OutboundQuiet DEF TooManyAcks, wire, broker
  <1>2. ASSUME NEW t \in Topics, NEW ok \in BOOLEAN, mqtt_subscribe(t, ok)
        PROVE  OutboundInv'
    <2>1. QuietCalls
      BY <1>2, AcksAssumption DEF mqtt_subscribe, Return, QuietCalls, Begun, TypeInv, TypeOK,
         Calls, Idle
    <2>2. QED
      BY <1>2, <2>1, SubscribeQuiet, QuietSame, OutboundQuiet DEF mqtt_subscribe, broker
  <1>3. CASE Release
    <2>1. QuietCalls
      BY <1>3 DEF Release, QuietCalls, Begun, Idle
    <2>2. QED
      BY <1>3, <2>1, QuietSame, OutboundQuiet DEF Release, broker
  <1>4. QED
    BY <1>1, <1>2, <1>3, CallOutbound DEF AppThread

(* The handlers of packets that are about messages from the broker. *)
LEMMA HandlerQuiet ==
  ASSUME TypeInv, OneInHand, OutboundInv, NEW ok \in BOOLEAN,
         PubackOrPubcomp("PUBCOMP") \/ Suback \/ PublishQos1(ok) \/ PublishQos2(ok) \/ Pubrel(ok)
  PROVE  OutboundInv'
  <1>1. PICK type : Received(type)
    BY DEF PubackOrPubcomp, Suback, PublishQos1, PublishQos2, Pubrel
  <1>2. at = "read" /\ QuietBack /\ UNCHANGED <<pending, delivered>> /\ Head(toClient).id \in Ids
    BY <1>1, ReceivedQuiet, ReceivedType DEF Received, broker, TypeInv
  <1>3. QuietThread
    BY <1>2 DEF QuietThread, Settling, PubackOrPubcomp, Suback, PublishQos1, PublishQos2, Pubrel,
       Received
  <1>4. QuietList
    BY QuietSame, UnrecordQuiet DEF PubackOrPubcomp, Suback, PublishQos1, PublishQos2, Pubrel
  <1>5. QuietCalls
    <2>1. CASE Suback
      <3>1. UNCHANGED app /\ \A m \in Messages : result'[m] = result[m]
        BY <2>1, AcksAssumption DEF Suback, Calls, TypeInv, TypeOK, SubackTopics
      <3>2. QED
        BY <3>1 DEF QuietCalls, Begun, OutboundInv, Provenance
    <2>2. CASE ~Suback
      BY <2>2, QuietSame DEF PubackOrPubcomp, PublishQos1, PublishQos2, Pubrel
    <2>3. QED
      BY <2>1, <2>2
  <1>6. ToBrokerQuiet
    <2>1. ASSUME NEW answer \in {"PUBACK", "PUBREC", "PUBCOMP"}
          PROVE  /\ Packet(answer, Head(toClient).id, None) \in Packets
                 /\ Packet(answer, Head(toClient).id, None).type = answer
      BY <1>2, PacketType DEF AckTypes, Contents, Packet
    <2>2. QED
      BY <2>1, SendQuiet, QuietSame DEF PubackOrPubcomp, Suback, PublishQos1, PublishQos2, Pubrel,
         wire
  <1>7. QED
    BY <1>2, <1>3, <1>4, <1>5, <1>6, OutboundQuiet

(* Their record is made. *)
LEMMA RecordPubrelOutbound ==
  ASSUME TypeInv, OutboundInv, RecordPubrel
  PROVE  OutboundInv'
  <1>1. PICK p \in todo :
          Record("PUBREL", p.id, IF intact THEN Packet("PUBREC", p.id, None) ELSE Garbled)
    BY DEF RecordPubrel
  <1>2. QuietList
    BY <1>1, RecordQuiet DEF Packet, Garbled
  <1>3. QuietThread
    BY DEF RecordPubrel, QuietThread, Settling
  <1>4. QED
    BY <1>2, <1>3, QuietSame, OutboundQuiet DEF RecordPubrel, wire, broker

(* What Unrecord leaves of the list. *)
LEMMA UnrecordOutbound ==
  ASSUME TypeInv, OutboundInv, NEW type \in {"PUBACK", "PUBREC"}, NEW id, Acked(type, id),
         Unrecord(type, id), Unanswered' = Unanswered,
         \A t \in {"PUBACK", "PUBREC"}, i \in Ids : Acked(t, i)' => Acked(t, i),
         UNCHANGED <<app, result, toBroker, pending, delivered>>
  PROVE  OutboundInv'
  <1>1. acks' = {a \in acks : a.type # type \/ a.id # id}
    BY DEF Unrecord
  <1>2. Waiting' \subseteq Waiting /\ Unanswered' \subseteq Unanswered
    BY <1>1 DEF Waiting
  <1>3. Sent' = Sent
    BY DEF Sent
  <1>4. Copies' \subseteq Copies /\ Live' \subseteq Live
    BY <1>2, <1>3 DEF Copies, Live
  <1>5. Provenance' /\ OneId' /\ PendingDelivered' /\ ReleaseOrder'
    BY <1>1, <1>2, <1>3, <1>4 DEF OutboundInv, Provenance, Begun, Awaited, OneId,
       PendingDelivered, ReleaseOrder
  <1>6. NotReleased'
    BY <1>1, <1>2, <1>3 DEF OutboundInv, NotReleased
  <1>7. AckedDelivered'
    BY <1>2 DEF OutboundInv, AckedDelivered, TypeInv, TypeOK, Entries, Ids, Waiting
  <1>8. NothingLost'
    <2> SUFFICES ASSUME NEW m \in Messages, result[m] = "done", delivered[m] = 0
                 PROVE  \E a \in acks' : a.type = Awaited(m) /\ a.payload = Packet("PUBLISH", a.id, m)
      BY DEF NothingLost, Awaited
    <2>1. PICK a \in acks : a.type = Awaited(m) /\ a.payload = Packet("PUBLISH", a.id, m)
      BY DEF OutboundInv, NothingLost
    <2>2. a \in Waiting /\ a.payload.msg = m
      BY <2>1 DEF Waiting, Awaited, Packet
    <2>3. ~Acked(a.type, a.id)
      BY <2>2 DEF OutboundInv, AckedDelivered
    <2>4. a \in acks'
      BY <1>1, <2>3
    <2>5. QED
      BY <2>1, <2>4
  <1>9. QED
    BY <1>5, <1>6, <1>7, <1>8 DEF OutboundInv

(* PUBACK: what it strikes off has arrived. *)
LEMMA PubackOutbound ==
  ASSUME TypeInv, OutboundInv, PubackOrPubcomp("PUBACK")
  PROVE  OutboundInv'
  <1> DEFINE id == Head(toClient).id
  <1>1. /\ Received("PUBACK") /\ Unrecord("PUBACK", id)
        /\ UNCHANGED <<app, result, toBroker, pending, delivered, at, todo>>
    BY DEF PubackOrPubcomp, Received, wire, broker
  <1>2. Head(toClient).type = "PUBACK" /\ Head(toClient) \in Back /\ Back' \subseteq Back
    BY <1>1, ReceivedQuiet DEF Received
  <1>3. Acked("PUBACK", id)
    BY <1>2 DEF Acked
  <1>4. \A t, i : Settling(t, i)' = Settling(t, i)
    BY <1>1 DEF Settling
  <1>5. Unanswered' = Unanswered
    BY <1>1, <1>4 DEF Unanswered, Unrecord
  <1>6. \A t \in {"PUBACK", "PUBREC"}, i \in Ids : Acked(t, i)' => Acked(t, i)
    BY <1>2, <1>4 DEF Acked
  <1>7. QED
    BY <1>1, <1>3, <1>5, <1>6, UnrecordOutbound

(* The second half of PUBREC: likewise. *)
LEMMA UnrecordReceivedOutbound ==
  ASSUME TypeInv, OneInHand, OutboundInv, UnrecordReceived
  PROVE  OutboundInv'
  <1>1. PICK p \in todo : Unrecord(p.type, p.id)
    BY DEF UnrecordReceived
  <1>2. /\ at = "unrecord" /\ todo = {p} /\ p.type \in {"PUBREC", "PUBREL"}
        /\ at' = "read" /\ UNCHANGED <<app, result, toBroker, toClient, pending, delivered>>
    BY <1>1 DEF UnrecordReceived, OneInHand, wire, broker
  <1>3. CASE p.type = "PUBREL"
    <2>1. QuietThread
      BY <1>2, <1>3 DEF QuietThread, Settling
    <2>2. QuietList
      BY <1>1, <1>3, UnrecordQuiet
    <2>3. QED
      BY <1>2, <2>1, <2>2, QuietSame, OutboundQuiet
  <1>4. CASE p.type = "PUBREC"
    <2>1. Acked("PUBREC", p.id)
      BY <1>2, <1>4 DEF Acked, Settling
    <2>2. \A t, i : ~Settling(t, i)'
      BY <1>2 DEF Settling
    <2>3. Unanswered' = Unanswered
      BY <1>1, <1>2, <1>4, <2>2 DEF Unanswered, Settling, Unrecord
    <2>4. \A t \in {"PUBACK", "PUBREC"}, i \in Ids : Acked(t, i)' => Acked(t, i)
      BY <1>2, <2>2 DEF Acked, Back
    <2>5. QED
      BY <1>1, <1>2, <1>4, <2>1, <2>3, <2>4, UnrecordOutbound
  <1>5. QED
    BY <1>2, <1>3, <1>4

(* A PUBLISH may only be sent while its release is not under way. *)
LEMMA SendOrder ==
  ASSUME TypeInv, ReleaseOrder, NEW packet \in Packets, NEW ok \in BOOLEAN, Send(packet, ok),
         packet.type = "PUBLISH" /\ QoS[packet.msg] = 2 =>
           \A p \in Sent : p.type = "PUBREL" => p.id # packet.id
  PROVE  ReleaseOrder' /\ Sent' \subseteq Sent \cup {packet}
  <1>1. toBroker \in Seq(Packets)
    BY DEF TypeInv, TypeOK
  <1>2. CASE toBroker' = toBroker
    BY <1>2 DEF ReleaseOrder, Sent
  <1>3. CASE toBroker' = Append(toBroker, packet)
    <2>1. Sent' = Sent \cup {packet}
      BY <1>1, <1>3, AppendRange DEF Sent
    <2>2. ReleaseOrder'
      BY <1>1, <1>3 DEF ReleaseOrder, Sent
    <2>3. QED
      BY <2>1, <2>2
  <1>4. QED
    BY <1>2, <1>3 DEF Send

(* A record is overdue and its packet is sent again. *)
LEMMA ResendOutbound ==
  ASSUME TypeInv, OutboundInv, NEW a \in acks, a.type # "SUBACK", NEW ok \in BOOLEAN,
         Send(a.payload, ok), at # "unrecord", at' # "unrecord",
         UNCHANGED <<acks, app, result, toClient, pending, delivered>>
  PROVE  OutboundInv'
  <1>1. a.payload \in Packets /\ a.type \in AckTypes
    BY DEF TypeInv, TypeOK, Entries
  <1>2. \A t, i : ~Settling(t, i) /\ ~Settling(t, i)'
    BY DEF Settling
  <1>3. Waiting' = Waiting /\ Unanswered' = Unanswered /\ Back' = Back /\ QuietThread
    BY <1>2 DEF Waiting, Unanswered, Back, QuietThread
  <1>4. CASE a.type = "PUBREL"
    <2>1. ToBrokerQuiet
      BY <1>1, <1>4, SendQuiet DEF OutboundInv, Provenance
    <2>2. QED
      BY <1>3, <2>1, QuietSame, OutboundQuiet
  <1>5. CASE a.type \in {"PUBACK", "PUBREC", "PUBCOMP"}
    <2>1. a.type = "PUBCOMP" => a.payload.type = "PUBREL" /\ a.payload.id = a.id
      BY DEF OutboundInv, Provenance
    <2>2. a.type # "PUBCOMP" =>
            /\ a \in Waiting /\ a.payload \in Copies
            /\ a.payload.type = "PUBLISH" /\ a.payload.id = a.id
                                /\ a.type = Awaited(a.payload.msg)
      BY <1>5 DEF OutboundInv, Provenance, Waiting, Copies
    <2>3. a.type = "PUBREC" => a \in Unanswered /\ a.payload \in Live
      BY <1>2 DEF Unanswered, Live
    <2>4. a.payload.type = "PUBLISH" /\ QoS[a.payload.msg] = 2 => a \in Unanswered
      BY <1>5, <2>1, <2>2, <2>3 DEF Awaited
    <2>5. ReleaseOrder' /\ Sent' \subseteq Sent \cup {a.payload}
      BY <1>1, <2>2, <2>4, SendOrder DEF OutboundInv, NotReleased, Provenance, Waiting, Unanswered
    <2>6. Copies' \subseteq Copies
      BY <1>3, <1>5, <2>1, <2>2, <2>5 DEF Copies
    <2>7. \A p \in Live' : p \in Live \/ QoS[p.msg] # 2
      BY <1>3, <1>5, <2>1, <2>2, <2>3, <2>5 DEF Live, Awaited
    <2>8. Provenance' /\ OneId'
      BY <1>3, <2>6 DEF OutboundInv, Provenance, OneId, Begun, Awaited
    <2>9. AckedDelivered'
      BY <1>2, <1>3 DEF OutboundInv, AckedDelivered, Acked
    <2>10. PendingDelivered'
      BY <2>7 DEF OutboundInv, PendingDelivered
    <2>11. NotReleased'
      BY <1>3, <1>5, <2>1, <2>2, <2>5 DEF OutboundInv, NotReleased
    <2>12. NothingLost'
      BY DEF OutboundInv, NothingLost, Awaited
    <2>13. QED
      BY <2>5, <2>8, <2>9, <2>10, <2>11, <2>12 DEF OutboundInv
  <1>6. QED
    BY <1>1, <1>4, <1>5 DEF AckTypes

(* The first half of PUBREC: the release is sent and recorded. *)
LEMMA PubrecOutbound ==
  ASSUME TypeInv, OutboundInv, NEW ok \in BOOLEAN, Pubrec(ok)
  PROVE  OutboundInv'
  <1> DEFINE p == Head(toClient)
             packet == Packet("PUBREL", p.id, None)
  <1>1. /\ at = "read" /\ at' = "unrecord" /\ todo' = {p} /\ p.type = "PUBREC" /\ p.id \in Ids
        /\ p \in Back /\ Back' \subseteq Back
        /\ UNCHANGED <<app, result, pending, delivered>>
    BY ReceivedType, ReceivedQuiet DEF Pubrec, Received, broker, TypeInv
  <1>2. packet \in Packets /\ packet.type = "PUBREL" /\ packet.id = p.id
    BY <1>1, PacketType DEF AckTypes, Contents, Packet
  <1>3. ReleaseOrder' /\ Sent' \subseteq Sent \cup {packet}
    <2>1. ReleaseOrder
      BY DEF OutboundInv
    <2>2. CASE Exists("PUBCOMP", p.id)
      BY <2>1, <2>2 DEF Pubrec, wire, ReleaseOrder, Sent
    <2>3. CASE ~Exists("PUBCOMP", p.id)
      BY <1>2, <2>1, <2>3, SendOrder DEF Pubrec
    <2>4. QED
      BY <2>2, <2>3
  <1>4. \A a \in acks' : a \in acks \/ (a.type = "PUBCOMP" /\ a.id = p.id /\ a.payload = packet)
    BY DEF Pubrec, Record
  <1>5. acks \subseteq acks'
    BY DEF Pubrec, Record
  <1>6. Waiting' = Waiting
    BY <1>4, <1>5 DEF Waiting
  <1>7. \A type, id : Settling(type, id)' <=> type = "PUBREC" /\ id = p.id
    BY <1>1 DEF Settling
  <1>8. Unanswered' = {a \in Unanswered : a.id # p.id}
    BY <1>1, <1>4, <1>5, <1>7 DEF Unanswered, Settling
  <1>9. Copies' \subseteq Copies /\ Live' \subseteq Live
    BY <1>2, <1>3, <1>6, <1>8 DEF Copies, Live
  <1>10. Provenance' /\ OneId'
    BY <1>1, <1>2, <1>4, <1>6, <1>9 DEF OutboundInv, Provenance, OneId, Begun, Awaited
  <1>11. AckedDelivered'
    BY <1>1, <1>6, <1>7 DEF OutboundInv, AckedDelivered, Acked
  <1>12. PendingDelivered'
    BY <1>1, <1>9 DEF OutboundInv, PendingDelivered
  <1>13. NotReleased'
    BY <1>2, <1>3, <1>4, <1>8 DEF OutboundInv, NotReleased
  <1>14. NothingLost'
    BY <1>1, <1>5 DEF OutboundInv, NothingLost, Awaited
  <1>15. QED
    BY <1>3, <1>10, <1>11, <1>12, <1>13, <1>14 DEF OutboundInv

(* mqtt_publish() itself: the new id makes the new copies strangers to     *)
(* everything that is under way.                                           *)
LEMMA PublishOutbound ==
  ASSUME TypeInv, OutboundInv, NEW m \in Messages, NEW ok \in BOOLEAN,
         mqtt_publish(m, ok), ~InUse(NextPacketId)
  PROVE  OutboundInv'
  <1> DEFINE id == NextPacketId
             packet == Packet("PUBLISH", id, m)
             e == [type |-> Awaited(m), id |-> id, payload |-> packet]
  <1>1. /\ result[m] = "called" /\ delivered[m] = 0
        /\ \A p \in Copies : p.msg # m
    <2>1. result[m] = "called"
      BY DEF mqtt_publish, OutboundInv, Provenance
    <2>2. ~Begun(m)
      BY <2>1 DEF Begun
    <2>3. delivered[m] \in 0..2
      BY DEF TypeInv, TypeOK
    <2>4. QED
      BY <2>1, <2>2, <2>3 DEF OutboundInv, Provenance
  <1>2. packet \in Packets /\ packet.type = "PUBLISH" /\ packet.id = id /\ packet.msg = m
    BY IdType, PacketType DEF Contents, Packet, TypeInv
  <1>3. /\ UNCHANGED <<at, todo, toClient, pending, delivered>>
        /\ app' = <<"idle", None>>
        /\ result' = [result EXCEPT ![m] = IF ok /\ ~Exists(Awaited(m), id) THEN "done" ELSE "failed"]
    BY DEF mqtt_publish, Return, Idle, broker
  <1>4. ~Exists(Awaited(m), id)
    BY DEF InUse, Exists, Awaited
  <1>5. \A n \in Messages : n # m => result'[n] = result[n]
    BY <1>3 DEF TypeInv, TypeOK
  <1>6. result'[m] = IF ok THEN "done" ELSE "failed"
    BY <1>3, <1>4 DEF TypeInv, TypeOK, Calls
  <1>7. \A type, i : Settling(type, i)' = Settling(type, i) /\ Acked(type, i)' = Acked(type, i)
    BY <1>3 DEF Settling, Acked, Back
  <1>8. CASE ~ok
    <2>1. UNCHANGED <<toBroker, acks>>
      BY <1>8 DEF mqtt_publish, Send
    <2>2. QuietCalls
      BY <1>1, <1>3, <1>5, <1>6, <1>8 DEF QuietCalls, Begun
    <2>3. QED
      BY <1>3, <2>1, <2>2, QuietSame, OutboundQuiet
  <1>9. CASE ok
    <2>1. acks' = acks \cup {e} /\ Send(packet, ok)
      BY <1>4, <1>9 DEF mqtt_publish, Record
    <2>2. e.type = Awaited(m) /\ e.id = id /\ e.payload = packet /\ e.type \in {"PUBACK", "PUBREC"}
      BY DEF Awaited
    <2>3. /\ \A p \in Sent : p.type \in {"PUBLISH", "PUBREL"} => p.id # id
          /\ \A a \in acks : a.type \in {"PUBACK", "PUBREC", "PUBCOMP"} => a.id # id
          /\ ~Acked("PUBACK", id) /\ ~Acked("PUBREC", id) /\ id \notin pending
      BY DEF InUse
    <2>4. ReleaseOrder' /\ Sent' \subseteq Sent \cup {packet}
      BY <1>2, <2>1, <2>3, SendOrder DEF OutboundInv
    <2>5. Waiting' = Waiting \cup {e} /\ Unanswered' \subseteq Unanswered \cup {e}
      BY <1>7, <2>1, <2>2 DEF Waiting, Unanswered
    <2>6. Copies' \subseteq Copies \cup {packet} /\ Live' \subseteq Live \cup {packet}
      BY <2>2, <2>4, <2>5 DEF Copies, Live
    <2>7. \A p \in Copies : p.id # id
      BY <2>3 DEF Copies, OutboundInv, Provenance, Waiting
    <2>8. Provenance'
      BY <1>1, <1>2, <1>3, <1>5, <1>6, <1>9, <2>1, <2>2, <2>5, <2>6 DEF OutboundInv, Provenance,
         Begun, Awaited
    <2>9. OneId'
      BY <1>1, <1>2, <2>6, <2>7 DEF OutboundInv, OneId
    <2>10. AckedDelivered'
      BY <1>3, <1>7, <2>2, <2>3, <2>5 DEF OutboundInv, AckedDelivered
    <2>11. PendingDelivered'
      BY <1>1, <1>2, <1>3, <2>3, <2>6 DEF OutboundInv, PendingDelivered
    <2>12. NotReleased'
      BY <1>2, <2>1, <2>2, <2>3, <2>4, <2>5 DEF OutboundInv, NotReleased
    <2>13. NothingLost'
      <3> SUFFICES ASSUME NEW n \in Messages, result'[n] = "done", delivered'[n] = 0
                   PROVE  \E a \in acks' : a.type = Awaited(n) /\ a.payload = Packet("PUBLISH", a.id, n)
        BY DEF NothingLost, Awaited
      <3>1. CASE n = m
        <4>1. e \in acks' /\ e.type = Awaited(n) /\ e.payload = Packet("PUBLISH", e.id, n)
          BY <2>1, <2>2, <3>1
        <4>2. QED
          BY <4>1
      <3>2. CASE n # m
        BY <1>3, <1>5, <2>1, <3>2 DEF OutboundInv, NothingLost
      <3>3. QED
        BY <3>1, <3>2
    <2>14. QED
      BY <2>4, <2>8, <2>9, <2>10, <2>11, <2>12, <2>13 DEF OutboundInv
  <1>10. QED
    BY <1>8, <1>9

(* A reconnection, and giving up the old connection: packets are lost,     *)
(* records are not.                                                        *)
LEMMA ReconnectionOutbound ==
  ASSUME TypeInv, OutboundInv, Reconnection \/ Timeouts
  PROVE  OutboundInv'
  <1>1. CASE GiveUp \/ BeginScan \/ EndScan \/ Reconnect
    <2>1. UNCHANGED <<toBroker, acks, app, result, pending, delivered>>
      BY <1>1 DEF GiveUp, BeginScan, EndScan, Reconnect, wire, broker
    <2>2. QuietThread
      BY <1>1 DEF GiveUp, BeginScan, EndScan, Reconnect, QuietThread, Settling
    <2>3. QuietBack
      <3>1. CASE Reconnect
        BY <3>1, ResumedPacket DEF Reconnect, Packet, QuietBack, Back
      <3>2. CASE ~Reconnect
        BY <1>1, <3>2, QuietSame DEF GiveUp, BeginScan, EndScan
      <3>3. QED
        BY <3>1, <3>2
    <2>4. QED
      BY <2>1, <2>2, <2>3, QuietSame, OutboundQuiet
  <1>2. ASSUME NEW t \in todo, NEW ok \in BOOLEAN, Resubscribe(t, ok)
        PROVE  OutboundInv'
    <2>1. t \in Topics /\ QuietThread /\ UNCHANGED <<app, result, toClient, pending, delivered>>
      BY <1>2 DEF Resubscribe, TypeInv, TypeOK, QuietThread, Settling, broker
    <2>2. ToBrokerQuiet /\ QuietList
      BY <1>2, <2>1, SubscribeQuiet, QuietSame DEF Resubscribe, wire
    <2>3. QED
      BY <2>1, <2>2, QuietSame, OutboundQuiet
  <1>3. ASSUME NEW a \in todo, NEW ok \in BOOLEAN, Scan(a, ok)
        PROVE  OutboundInv'
    <2>1. /\ a \in acks /\ at = "scan" /\ at' = "scan"
          /\ UNCHANGED <<acks, app, result, toClient, pending, delivered>>
      BY <1>3 DEF Scan, TypeInv, TypeOK, broker
    <2>2. CASE a.type = "SUBACK"
      BY <1>3, <2>1, <2>2, QuietSame, OutboundQuiet DEF Scan, wire, QuietThread, Settling
    <2>3. CASE a.type # "SUBACK"
      BY <1>3, <2>1, <2>3, ResendOutbound DEF Scan
    <2>4. QED
      BY <2>2, <2>3
  <1>4. ASSUME NEW a \in acks, Destroy(a)
        PROVE  OutboundInv'
    BY <1>4, UnrecordQuiet, QuietSame, OutboundQuiet DEF Destroy, wire, broker
  <1>5. ASSUME NEW a \in acks, NEW ok \in BOOLEAN, Resend(a, ok)
        PROVE  OutboundInv'
    BY <1>5, ResendOutbound DEF Resend, client, broker
  <1>6. QED
    BY <1>1, <1>2, <1>3, <1>4, <1>5 DEF Reconnection, Timeouts

(* The broker takes a PUBLISH: QoS 2 is delivered if the id is not         *)
(* pending.                                                                *)
LEMMA BrokerPublishOutbound ==
  ASSUME TypeInv, OutboundInv, BrokerPublish
  PROVE  OutboundInv'
  <1> DEFINE p == Head(toBroker)
             answer == Packet(Awaited(p.msg), p.id, None)
  <1>1. p.type = "PUBLISH" /\ p \in Sent /\ p.id \in Ids /\ ToBrokerQuiet
        /\ UNCHANGED <<acks, app, result, at, todo>>
    BY TakenQuiet, TakenType DEF BrokerPublish, Taken, client, TypeInv
  <1>2. p \in Copies /\ p \in Live /\ p.msg \in Messages /\ Begun(p.msg)
    BY <1>1 DEF Copies, Live, OutboundInv, Provenance
  <1>3. answer \in Packets /\ answer.type = Awaited(p.msg) /\ answer.id = p.id
    BY <1>1, PacketType DEF Awaited, AckTypes, Contents, Packet
  <1>4. Back' = Back \cup {answer}
    BY <1>3, AnswerBack DEF BrokerPublish
  <1>5. \A n \in Messages : n # p.msg => delivered'[n] = delivered[n]
    BY DEF BrokerPublish, TypeInv, TypeOK
  <1>6. delivered'[p.msg] > 0
    <2>1. QoS[p.msg] \in 1..2 /\ delivered \in [Messages -> 0..2]
      BY <1>2, AcksAssumption DEF TypeInv, TypeOK
    <2>2. CASE QoS[p.msg] = 2 /\ p.id \in pending
      BY <1>2, <2>2 DEF BrokerPublish, OutboundInv, PendingDelivered
    <2>3. CASE ~(QoS[p.msg] = 2 /\ p.id \in pending)
      BY <1>2, <2>1, <2>3 DEF BrokerPublish, Count
    <2>4. QED
      BY <2>2, <2>3
  <1>7. pending' = IF QoS[p.msg] = 2 THEN pending \cup {p.id} ELSE pending
    BY DEF BrokerPublish
  <1>8. Waiting' = Waiting /\ Unanswered' = Unanswered /\ \A t, i : Settling(t, i)' = Settling(t, i)
    BY <1>1 DEF Waiting, Unanswered, Settling
  <1>9. Copies' \subseteq Copies /\ Live' \subseteq Live /\ Live \subseteq Copies
    BY <1>1, <1>8, QuietWire DEF Copies, Live, Unanswered, Waiting
  <1>10. Provenance' /\ OneId'
    BY <1>1, <1>2, <1>5, <1>8, <1>9 DEF OutboundInv, Provenance, OneId, Begun, Awaited
  <1>11. AckedDelivered'
    <2> SUFFICES ASSUME NEW a \in Waiting, Acked(a.type, a.id)'
                 PROVE  delivered'[a.payload.msg] > 0
      BY <1>8 DEF AckedDelivered
    <2>1. a.payload \in Copies /\ a.payload.msg \in Messages /\ a.payload.id = a.id
      BY DEF OutboundInv, Provenance, Copies
    <2>2. CASE Acked(a.type, a.id)
      BY <1>5, <1>6, <2>1, <2>2 DEF OutboundInv, AckedDelivered
    <2>3. CASE ~Acked(a.type, a.id)
      <3>1. a.id = p.id
        BY <1>3, <1>4, <1>8, <2>3 DEF Acked
      <3>2. QED
        BY <1>2, <1>6, <2>1, <3>1 DEF OutboundInv, OneId
    <2>4. QED
      BY <2>2, <2>3
  <1>12. PendingDelivered'
    <2> SUFFICES ASSUME NEW q \in Live, QoS[q.msg] = 2
                 PROVE  q.id \in pending' <=> delivered'[q.msg] > 0
      BY <1>9 DEF PendingDelivered
    <2>1. q \in Copies /\ q.msg \in Messages /\ (q.id = p.id <=> q.msg = p.msg)
      BY <1>2, <1>9 DEF OutboundInv, Provenance, OneId
    <2>2. QED
      BY <1>5, <1>6, <1>7, <2>1 DEF OutboundInv, PendingDelivered
  <1>13. ReleaseOrder' /\ NotReleased'
    BY <1>1, <1>8, QuietWire DEF OutboundInv, NotReleased
  <1>14. NothingLost'
    BY <1>1, <1>5, <1>6 DEF OutboundInv, NothingLost, Awaited
  <1>15. QED
    BY <1>10, <1>11, <1>12, <1>13, <1>14 DEF OutboundInv

(* The broker takes a PUBREL and forgets the id: no copy of the message is *)
(* left that it could take for a new one.                                  *)
LEMMA BrokerPubrelOutbound ==
  ASSUME TypeInv, OutboundInv, BrokerPubrel
  PROVE  OutboundInv'
  <1> DEFINE p == Head(toBroker)
             answer == Packet("PUBCOMP", p.id, None)
  <1>1. p.type = "PUBREL" /\ p \in Sent /\ p.id \in Ids /\ ToBrokerQuiet
        /\ UNCHANGED <<acks, app, result, at, todo, delivered>>
    BY TakenQuiet, TakenType DEF BrokerPubrel, Taken, client, TypeInv
  <1>2. answer \in Packets /\ answer.type = "PUBCOMP"
    BY <1>1, PacketType DEF AckTypes, Contents, Packet
  <1>3. QuietBack
    BY <1>2, AnswerBack DEF BrokerPubrel
  <1>4. pending' = pending \ {p.id}
    BY DEF BrokerPubrel
  <1>5. Waiting' = Waiting /\ Unanswered' = Unanswered /\ \A t, i : Settling(t, i)' = Settling(t, i)
    BY <1>1 DEF Waiting, Unanswered, Settling
  <1>6. Copies' \subseteq Copies /\ Live' \subseteq Live
    BY <1>1, <1>5, QuietWire DEF Copies, Live
  <1>7. \A q \in Live' : QoS[q.msg] = 2 => q.id # p.id
    <2> SUFFICES ASSUME NEW q \in Live, QoS[q.msg] = 2 PROVE q.id # p.id
      BY <1>6
    <2>1. CASE q \in Sent /\ q.type = "PUBLISH"
      <3>1. toBroker \in Seq(Packets) /\ toBroker # <<>> /\ p = toBroker[1]
        BY DEF TypeInv, TypeOK, BrokerPubrel, Taken
      <3>2. PICK j \in 1..Len(toBroker) : q = toBroker[j]
        BY <2>1 DEF Sent
      <3>3. QED
        BY <1>1, <2>1, <3>1, <3>2 DEF OutboundInv, ReleaseOrder
    <2>2. ASSUME NEW a \in Unanswered, q = a.payload
          PROVE  q.id # p.id
      <3>1. q.id = a.id
        BY <2>2 DEF OutboundInv, Provenance, Unanswered, Waiting
      <3>2. QED
        BY <1>1, <3>1 DEF OutboundInv, NotReleased
    <2>3. QED
      BY <2>1, <2>2 DEF Live
  <1>8. Provenance' /\ OneId'
    BY <1>1, <1>5, <1>6 DEF OutboundInv, Provenance, OneId, Begun, Awaited
  <1>9. AckedDelivered'
    BY <1>1, <1>3, <1>5 DEF OutboundInv, AckedDelivered, Acked, QuietBack, Waiting
  <1>10. PendingDelivered'
    BY <1>1, <1>4, <1>6, <1>7 DEF OutboundInv, PendingDelivered
  <1>11. ReleaseOrder' /\ NotReleased'
    BY <1>1, <1>5, QuietWire DEF OutboundInv, NotReleased
  <1>12. NothingLost'
    BY <1>1 DEF OutboundInv, NothingLost, Awaited
  <1>13. QED
    BY <1>8, <1>9, <1>10, <1>11, <1>12 DEF OutboundInv

(* All of the broker. *)
LEMMA BrokerOutbound ==
  ASSUME TypeInv, OutboundInv, Broker \/ Break \/ \E m \in Incoming : BrokerSend(m)
  PROVE  OutboundInv'
  <1>1. UNCHANGED client
    BY DEF Broker, BrokerPublish, BrokerPubrel, BrokerSubscribe, BrokerPuback, BrokerPubrec,
       BrokerPubcomp, BrokerGarbled, Break, BrokerSend, Taken
  <1>2. QuietCalls /\ QuietThread /\ QuietList
    BY <1>1, QuietSame DEF client
  <1>3. CASE BrokerGarbled \/ Break
    BY <1>2, <1>3, QuietSame, OutboundQuiet DEF BrokerGarbled, Break, LinkDown, broker
  <1>4. CASE BrokerSubscribe
    <2>1. PICK granted \in {"granted", "refused"} :
            Answer(Packet("SUBACK", Head(toBroker).id, granted))
      BY <1>4 DEF BrokerSubscribe
    <2>2. Packet("SUBACK", Head(toBroker).id, granted) \in Packets
      BY <1>4, TakenType, PacketType DEF BrokerSubscribe, AckTypes, Contents, TypeInv
    <2>3. QuietBack
      BY <2>1, <2>2, AnswerBack DEF Packet
    <2>4. QED
      BY <1>2, <1>4, <2>3, TakenQuiet, OutboundQuiet DEF BrokerSubscribe, broker
  <1>5. CASE BrokerPuback \/ BrokerPubcomp
    BY <1>2, <1>5, TakenQuiet, QuietSame, OutboundQuiet DEF BrokerPuback, BrokerPubcomp
  <1>6. CASE BrokerPubrec
    <2>1. Packet("PUBREL", Head(toBroker).id, None) \in Packets
      BY <1>6, TakenType, PacketType DEF BrokerPubrec, AckTypes, Contents, TypeInv
    <2>2. QuietBack
      BY <1>6, <2>1, AnswerBack DEF BrokerPubrec, Packet
    <2>3. QED
      BY <1>2, <1>6, <2>2, TakenQuiet, OutboundQuiet DEF BrokerPubrec
  <1>7. ASSUME NEW m \in Incoming, BrokerSend(m)
        PROVE  OutboundInv'
    <2>1. Packet("PUBLISH", BrokerId, m) \in Packets
      <3>1. BrokerId \in Ids /\ m \in Contents
        BY AcksAssumption DEF Contents, Ids
      <3>2. QED
        BY <3>1, PacketType
    <2>2. QuietBack
      BY <1>7, <2>1, AnswerBack DEF BrokerSend, Packet
    <2>3. QED
      BY <1>2, <1>7, <2>2, QuietSame, OutboundQuiet DEF BrokerSend, wire
  <1>8. QED
    BY <1>3, <1>4, <1>5, <1>6, <1>7, BrokerPublishOutbound, BrokerPubrelOutbound DEF Broker

(* Every step keeps the invariant, provided a publication gets a fresh id. *)
LEMMA OutboundStep ==
  TypeInv /\ OneInHand /\ OutboundInv /\ [Next]_vars /\ [FreshId]_vars => OutboundInv'
  <1> SUFFICES ASSUME TypeInv, OneInHand, OutboundInv, [Next]_vars, [FreshId]_vars
               PROVE  OutboundInv'
    OBVIOUS
  <1>1. CASE UNCHANGED vars
    <2>1. UNCHANGED <<toBroker, toClient, acks, app, result, at, todo, pending, delivered>>
      BY <1>1 DEF vars, client, wire, broker
    <2>2. QED
      BY <2>1, QuietSame, OutboundQuiet
  <1>2. CASE AppThread
    <2>1. ASSUME NEW m \in Messages, NEW ok \in BOOLEAN, mqtt_publish(m, ok)
          PROVE  OutboundInv'
      BY <1>1, <2>1, PublishOutbound DEF FreshId
    <2>2. QED
      BY <1>2, <2>1, AppOutbound
  <1>3. CASE PacketHandler
    BY <1>3, HandlerQuiet, RecordPubrelOutbound, PubackOutbound, UnrecordReceivedOutbound,
       PubrecOutbound
       DEF PacketHandler
  <1>4. QED
    BY <1>1, <1>2, <1>3, ReconnectionOutbound, BrokerOutbound DEF Next

LEMMA OutboundInit == Init => OneInHand /\ OutboundInv
  <1> SUFFICES ASSUME Init PROVE OneInHand /\ OutboundInv
    OBVIOUS
  <1>1. OneInHand
    BY DEF Init, OneInHand
  <1>2. /\ Sent = {} /\ acks = {} /\ app = <<"idle", None>>
        /\ result = [c \in Calls |-> "new"] /\ delivered = [m \in Messages |-> 0]
        /\ toBroker = <<>>
    BY DEF Init, Sent, Idle
  <1>3. Copies = {} /\ Live = {} /\ Waiting = {} /\ Unanswered = {}
    BY <1>2 DEF Copies, Live, Waiting, Unanswered
  <1>4. Provenance
    BY <1>2, <1>3 DEF Provenance
  <1>5. NothingLost
    BY <1>2 DEF NothingLost, Calls
  <1>6. QED
    BY <1>1, <1>2, <1>3, <1>4, <1>5 DEF OutboundInv, OneId, AckedDelivered, PendingDelivered,
       ReleaseOrder, NotReleased

(* As long as mqtt_get_next_packet_id() does not come round to an id that  *)
(* is still in use, a message that mqtt_publish() has taken is at the      *)
(* broker or on the acknowledgement list: no break, no time-out and no     *)
(* acknowledgement of something else strikes it off too early.             *)
THEOREM FreshIdsLoseNothing == Spec /\ FreshIds => []NothingLost
  <1>1. OutboundInv => NothingLost
    BY DEF OutboundInv
  <1>2. QED
    BY <1>1, TypeInit, OutboundInit, TypeStep, HandStep, OutboundStep, PTL DEF Spec, FreshIds

(* The steps of the client and the broker are calls and deliveries of      *)
(* MqttDelivery.                                                           *)
LEMMA OutboundDelivers ==
  ASSUME TypeInv, OutboundInv, [Next]_vars
  PROVE  [Outbound!Next]_<<{m \in Messages : result[m] # "new"}, delivered>>
  <1> DEFINE offered == {m \in Messages : result[m] # "new"}
  <1>1. ASSUME UNCHANGED delivered, \A m \in Messages : result'[m] = "new" <=> result[m] = "new"
        PROVE  UNCHANGED <<offered, delivered>>
    BY <1>1
  <1>2. ASSUME NEW c \in Calls, Call(c)
        PROVE  UNCHANGED <<offered, delivered>> \/ \E m \in Messages : Outbound!Offer(m)
    <2>1. /\ UNCHANGED delivered /\ result[c] = "new"
          /\ result' = [result EXCEPT ![c] = "called"] \/ result' = [result EXCEPT ![c] = "failed"]
          /\ result \in [Calls -> {"new", "called", "done", "failed", "refused"}]
      BY <1>2 DEF Call, broker, TypeInv, TypeOK
    <2>2. CASE c \in Messages
      <3>1. \A n \in Messages : result'[n] # "new" <=> n = c \/ result[n] # "new"
        BY <2>1, <2>2 DEF Calls
      <3>2. offered' = offered \cup {c} /\ c \notin offered
        BY <2>1, <2>2, <3>1
      <3>3. Outbound!Offer(c)
        BY <2>1, <3>2 DEF Outbound!Offer
      <3>4. QED
        BY <2>2, <3>3
    <2>3. CASE c \notin Messages
      BY <1>1, <2>1, <2>3 DEF Calls
    <2>4. QED
      BY <2>2, <2>3
  <1>3. ASSUME NEW m \in Messages, NEW ok \in BOOLEAN, TooManyAcks(m) \/ mqtt_publish(m, ok)
        PROVE  UNCHANGED <<offered, delivered>>
    <2>1. UNCHANGED delivered /\ result[m] = "called"
      BY <1>3 DEF TooManyAcks, mqtt_publish, broker, OutboundInv, Provenance
    <2>2. \A n \in Messages : result'[n] = "new" <=> result[n] = "new"
      BY <1>3, <2>1 DEF TooManyAcks, mqtt_publish, Return, TypeInv, TypeOK, Calls
    <2>3. QED
      BY <1>1, <2>1, <2>2
  <1>4. ASSUME NEW t \in Topics, NEW ok \in BOOLEAN, mqtt_subscribe(t, ok)
        PROVE  UNCHANGED <<offered, delivered>>
    BY <1>1, <1>4, AcksAssumption DEF mqtt_subscribe, Return, broker, TypeInv, TypeOK, Calls
  <1>5. CASE AppThread
    BY <1>1, <1>2, <1>3, <1>4, <1>5 DEF AppThread, Release, broker, Outbound!Next
  <1>6. CASE PacketHandler
    <2>1. UNCHANGED delivered
      BY <1>6 DEF PacketHandler, PubackOrPubcomp, Suback, RecordPubrel, UnrecordReceived,
         PublishQos1,
         PublishQos2, Pubrec, Pubrel, Received, broker
    <2>2. CASE Suback
      <3>1. \A m \in Messages : result'[m] = result[m]
        BY <2>2, AcksAssumption DEF Suback, Calls, TypeInv, TypeOK, SubackTopics
      <3>2. QED
        BY <1>1, <2>1, <3>1
    <2>3. CASE ~Suback
      <3>1. UNCHANGED result
        BY <1>6, <2>3 DEF PacketHandler, PubackOrPubcomp, RecordPubrel, UnrecordReceived,
           PublishQos1,
           PublishQos2, Pubrec, Pubrel
      <3>2. QED
        BY <1>1, <2>1, <3>1
    <2>4. QED
      BY <2>2, <2>3
  <1>7. CASE Reconnection \/ Timeouts
    <2>1. UNCHANGED <<result, delivered>>
      BY <1>7 DEF Reconnection, Timeouts, GiveUp, Reconnect, Resubscribe, BeginScan, Scan,
         EndScan, Destroy,
         Resend, client, broker
    <2>2. QED
      BY <1>1, <2>1
  <1>8. CASE BrokerPublish
    <2> DEFINE p == Head(toBroker)
    <2>1. p \in Sent /\ p.type = "PUBLISH" /\ UNCHANGED result
      BY <1>8, TakenQuiet DEF BrokerPublish, Taken, client
    <2>2. p \in Live /\ p \in Copies
      BY <2>1 DEF Live, Copies
    <2>3. p.msg \in Messages /\ result[p.msg] # "new"
      BY <2>2 DEF OutboundInv, Provenance, Begun
    <2>4. CASE QoS[p.msg] = 2 /\ p.id \in pending
      BY <1>1, <1>8, <2>1, <2>4 DEF BrokerPublish
    <2>5. CASE ~(QoS[p.msg] = 2 /\ p.id \in pending)
      <3>1. delivered[p.msg] = 0 \/ QoS[p.msg] = 1
        <4>1. QoS[p.msg] \in 1..2 /\ delivered[p.msg] \in 0..2
          BY <2>3, AcksAssumption DEF TypeInv, TypeOK
        <4>2. QoS[p.msg] = 2 => ~(delivered[p.msg] > 0)
          BY <2>2, <2>5 DEF OutboundInv, PendingDelivered
        <4>3. QED
          BY <4>1, <4>2
      <3>2. Outbound!Deliver(p.msg)
        BY <1>8, <2>1, <2>3, <2>5, <3>1 DEF BrokerPublish, Outbound!Deliver, Count
      <3>3. QED
        BY <2>3, <3>2 DEF Outbound!Next
    <2>6. QED
      BY <2>4, <2>5
  <1>9. CASE (Broker /\ ~BrokerPublish) \/ Break \/ \E m \in Incoming : BrokerSend(m)
    <2>1. UNCHANGED <<client, delivered>>
      BY <1>9 DEF Broker, BrokerPubrel, BrokerSubscribe, BrokerPuback, BrokerPubrec,
         BrokerPubcomp, BrokerGarbled, Break, BrokerSend, Taken, broker
    <2>2. UNCHANGED result
      BY <2>1 DEF client
    <2>3. QED
      BY <1>1, <2>1, <2>2
  <1>10. CASE UNCHANGED vars
    BY <1>1, <1>10 DEF vars, client, broker
  <1>11. QED
    BY <1>5, <1>6, <1>7, <1>8, <1>9, <1>10 DEF Next

(* Under the same assumption a message of QoS 2 that mqtt_publish() sends  *)
(* arrives at most once, however often it and its release are sent again.  *)
THEOREM FreshIdsPublishOnce == Spec /\ FreshIds => PublishedOnce
  <1>1. Init => Outbound!Init
    BY DEF Init, Outbound!Init, Calls
  <1>2. TypeInv /\ OutboundInv /\ [Next]_vars
          => [Outbound!Next]_<<{m \in Messages : result[m] # "new"}, delivered>>
    BY OutboundDelivers
  <1>3. QED
    BY <1>1, <1>2, TypeInit, OutboundInit, TypeStep, HandStep, OutboundStep, PTL
       DEF Spec, FreshIds, PublishedOnce, Outbound!Spec

-----------------------------------------------------------------------------
(* Before the ids come round *)

(* The largest id has not been given away yet. *)
FirstRound == packet_id < MaxPacketId

(* Everything that is in use has got its id before. *)
ListSeen == \A a \in acks : a.type \in {"PUBACK", "PUBREC", "PUBCOMP"} => a.id <= packet_id

SentSeen == \A p \in Sent : p.type \in {"PUBLISH", "PUBREL"} => p.id <= packet_id

BackSeen == \A p \in Back : p.type \in {"PUBACK", "PUBREC"} => p.id <= packet_id

HandSeen == at = "unrecord" => \A p \in todo : p.type = "PUBREC" => p.id <= packet_id

PendingSeen == \A id \in pending : id <= packet_id

Seen == ListSeen /\ SentSeen /\ BackSeen /\ HandSeen /\ PendingSeen

(* Then the next id, a larger one, is not in use. *)
LEMMA SeenFresh ==
  ASSUME TypeInv, OneInHand, Seen, FirstRound
  PROVE  FreshId
  <1>1. NextPacketId = packet_id + 1 /\ packet_id \in Nat
    BY AcksAssumption DEF FirstRound, NextPacketId, TypeInv, TypeOK
  <1>2. \A id \in Int : InUse(id) => id <= packet_id
    BY DEF Seen, InUse, ListSeen, SentSeen, BackSeen, HandSeen, PendingSeen, Acked, Settling,
       OneInHand
  <1>3. QED
    BY <1>1, <1>2 DEF FreshId

(* Ids are counted up. *)
LEMMA IdsGrow ==
  ASSUME TypeInv, FirstRound, [Next]_vars
  PROVE  /\ packet_id \in Int /\ packet_id' \in Int /\ packet_id <= packet_id'
         /\ packet_id' = packet_id \/ packet_id' = NextPacketId
  <1>1. NextPacketId = packet_id + 1 /\ packet_id \in Int
    BY AcksAssumption DEF FirstRound, NextPacketId, TypeInv, TypeOK
  <1>2. packet_id' = packet_id \/ packet_id' = NextPacketId
    <2>1. CASE AppThread
      BY <2>1 DEF AppThread, Call, TooManyAcks, mqtt_publish, mqtt_subscribe, Subscribe, Release
    <2>2. CASE PacketHandler
      BY <2>2 DEF PacketHandler, PubackOrPubcomp, Suback, RecordPubrel, UnrecordReceived,
         PublishQos1, PublishQos2, Pubrec, Pubrel
    <2>3. CASE Reconnection \/ Timeouts
      BY <2>3 DEF Reconnection, Timeouts, GiveUp, Reconnect, Resubscribe, Subscribe, BeginScan,
         Scan, EndScan, Destroy, Resend, client
    <2>4. CASE Broker \/ Break \/ \E m \in Incoming : BrokerSend(m)
      BY <2>4 DEF Broker, BrokerPublish, BrokerPubrel, BrokerSubscribe, BrokerPuback,
         BrokerPubrec, BrokerPubcomp, BrokerGarbled, Break, BrokerSend, Taken, client
    <2>5. CASE UNCHANGED vars
      BY <2>5 DEF vars, client
    <2>6. QED
      BY <2>1, <2>2, <2>3, <2>4, <2>5 DEF Next
  <1>3. QED
    BY <1>1, <1>2

(* Ids that were seen before are still seen. *)
LEMMA StillSeen ==
  ASSUME TypeInv, FirstRound, [Next]_vars
  PROVE  /\ \A a \in acks : a.id <= packet_id => a.id <= packet_id'
         /\ \A p \in Packets : p.id <= packet_id => p.id <= packet_id'
         /\ \A id \in pending : id <= packet_id => id <= packet_id'
  <1>1. packet_id \in Int /\ packet_id' \in Int /\ packet_id <= packet_id'
    BY IdsGrow
  <1>2. /\ \A a \in acks : a.id \in Int
        /\ \A p \in Packets : p.id \in Int
        /\ \A id \in pending : id \in Int
    BY AcksAssumption DEF TypeInv, TypeOK, Packets, Entries
  <1>3. QED
    BY <1>1, <1>2

(* What is under way, and in hand, are packets. *)
LEMMA ChannelTypes ==
  ASSUME TypeInv
  PROVE  /\ Sent \subseteq Packets /\ Back \subseteq Packets
         /\ at = "unrecord" => todo \subseteq Packets
  BY DEF TypeInv, TypeOK, Sent, Back

(* A PUBREC that is read has a known id. *)
LEMMA ReadSeen ==
  ASSUME TypeInv, Seen, Received("PUBREC")
  PROVE  Head(toClient).id <= packet_id /\ Head(toClient) \in Packets
  <1>1. Head(toClient) \in Back /\ Head(toClient).type = "PUBREC"
    BY ReceivedQuiet DEF Received
  <1>2. QED
    BY <1>1, ChannelTypes DEF Seen, BackSeen

(* The list: mqtt_publish() records its new id, PUBREC's is known. *)
LEMMA ListSeenStep ==
  ASSUME TypeInv, Seen, FirstRound, [Next]_vars
  PROVE  ListSeen'
  <1> DEFINE ours == {"PUBACK", "PUBREC", "PUBCOMP"}
             Kept == \A a \in acks' : a.type \in ours => a \in acks
  <1>1. Kept => ListSeen'
    BY StillSeen DEF Seen, ListSeen
  <1>2. \A type, id : Unrecord(type, id) => Kept
    BY DEF Unrecord
  <1>3. \A type, id, packet : Record(type, id, packet) /\ type \notin ours => Kept
    BY DEF Record
  <1>4. ASSUME NEW type, NEW id, NEW packet, Record(type, id, packet), id <= packet_id'
        PROVE  ListSeen'
    BY <1>4, StillSeen DEF Seen, ListSeen, Record
  <1>5. UNCHANGED acks => Kept
    OBVIOUS
  <1>6. CASE AppThread
    <2>1. ASSUME NEW m \in Messages, NEW ok \in BOOLEAN, mqtt_publish(m, ok)
          PROVE  ListSeen'
      <3>1. NextPacketId <= packet_id'
        BY <2>1, IdsGrow DEF mqtt_publish
      <3>2. QED
        BY <1>1, <1>4, <1>5, <2>1, <3>1 DEF mqtt_publish
    <2>2. ASSUME NEW t \in Topics, NEW ok \in BOOLEAN, mqtt_subscribe(t, ok)
          PROVE  Kept
      BY <1>3, <1>5, <2>2 DEF mqtt_subscribe, Subscribe
    <2>3. (Release \/ (\E c \in Calls : Call(c)) \/ \E m \in Messages : TooManyAcks(m)) => Kept
      BY <1>5 DEF Release, Call, TooManyAcks
    <2>4. QED
      BY <1>1, <1>6, <2>1, <2>2, <2>3 DEF AppThread
  <1>7. CASE PacketHandler
    <2>1. ASSUME NEW ok \in BOOLEAN, Pubrec(ok)
          PROVE  ListSeen'
      <3>1. Head(toClient).id <= packet_id'
        BY <2>1, ReadSeen, StillSeen DEF Pubrec
      <3>2. QED
        BY <1>4, <2>1, <3>1 DEF Pubrec
    <2>2. ASSUME NEW ok \in BOOLEAN, PublishQos1(ok) \/ PublishQos2(ok) \/ Pubrel(ok)
          PROVE  Kept
      BY <1>5, <2>2 DEF PublishQos1, PublishQos2, Pubrel
    <2>3. RecordPubrel => Kept
      BY <1>3 DEF RecordPubrel
    <2>4. UnrecordReceived \/ PubackOrPubcomp("PUBACK") \/ PubackOrPubcomp("PUBCOMP") \/ Suback
            => Kept
      BY <1>2 DEF UnrecordReceived, PubackOrPubcomp, Suback
    <2>5. QED
      BY <1>1, <1>7, <2>1, <2>2, <2>3, <2>4 DEF PacketHandler
  <1>8. CASE Reconnection \/ Timeouts
    <2>1. Kept
      BY <1>2, <1>3, <1>5, <1>8 DEF Reconnection, Timeouts, GiveUp, Reconnect, Resubscribe,
         Subscribe, BeginScan, Scan, EndScan, Destroy, Resend, client
    <2>2. QED
      BY <1>1, <2>1
  <1>9. CASE Broker \/ Break \/ (\E m \in Incoming : BrokerSend(m)) \/ UNCHANGED vars
    <2>1. UNCHANGED acks
      BY <1>9 DEF Broker, BrokerPublish, BrokerPubrel, BrokerSubscribe, BrokerPuback,
         BrokerPubrec, BrokerPubcomp, BrokerGarbled, Break, BrokerSend, Taken, client, vars
    <2>2. QED
      BY <1>1, <2>1
  <1>10. QED
    BY <1>6, <1>7, <1>8, <1>9 DEF Next

(* To the broker: what is sent again has been seen. *)
LEMMA SentSeenStep ==
  ASSUME TypeInv, Seen, OutboundInv, FirstRound, [Next]_vars
  PROVE  SentSeen'
  <1> DEFINE ours == {"PUBLISH", "PUBREL"}
             Kept == \A p \in Sent' : p.type \in ours => p \in Sent
  <1>1. Kept => SentSeen'
    BY StillSeen, ChannelTypes DEF Seen, SentSeen
  <1>2. ToBrokerQuiet => Kept
    BY QuietWire
  <1>3. ASSUME NEW packet \in Packets, NEW ok \in BOOLEAN, Send(packet, ok),
               packet.type \in ours => packet.id <= packet_id'
        PROVE  SentSeen'
    <2>1. toBroker \in Seq(Packets)
      BY DEF TypeInv, TypeOK
    <2>2. CASE toBroker' = Append(toBroker, packet)
      <3>1. Sent' = Sent \cup {packet}
        BY <2>1, <2>2, AppendRange DEF Sent
      <3>2. QED
        BY <1>3, <3>1, StillSeen, ChannelTypes DEF Seen, SentSeen
    <2>3. CASE toBroker' = toBroker
      BY <1>1, <2>3 DEF Sent
    <2>4. QED
      BY <1>3, <2>2, <2>3 DEF Send
  <1>4. UNCHANGED toBroker \/ toBroker' = <<>> => Kept
    BY <1>2 DEF ToBrokerQuiet
  <1>5. ASSUME NEW a \in acks, NEW ok \in BOOLEAN, Send(a.payload, ok), a.type # "SUBACK"
        PROVE  SentSeen'
    <2>1. a.payload \in Packets /\ a.type \in AckTypes
      BY DEF TypeInv, TypeOK, Entries
    <2>2. a.payload.type \in ours =>
            a.type \in {"PUBACK", "PUBREC", "PUBCOMP"} /\ a.payload.id = a.id
      BY <1>5, <2>1 DEF OutboundInv, Provenance, Waiting, AckTypes
    <2>3. a.payload.type \in ours => a.payload.id <= packet_id'
      BY <2>2, StillSeen DEF Seen, ListSeen
    <2>4. QED
      BY <1>3, <1>5, <2>1, <2>3
  <1>6. ASSUME NEW t \in Topics, NEW ok \in BOOLEAN, Subscribe(t, ok)
        PROVE  SentSeen'
    BY <1>1, <1>2, <1>6, SubscribeQuiet
  <1>7. CASE AppThread
    <2>1. ASSUME NEW m \in Messages, NEW ok \in BOOLEAN, mqtt_publish(m, ok)
          PROVE  SentSeen'
      <3>1. NextPacketId <= packet_id'
        BY <2>1, IdsGrow DEF mqtt_publish
      <3>2. /\ Packet("PUBLISH", NextPacketId, m) \in Packets
            /\ Packet("PUBLISH", NextPacketId, m).id = NextPacketId
        BY IdType, PacketType DEF Contents, TypeInv, Packet
      <3>3. QED
        BY <1>3, <2>1, <3>1, <3>2 DEF mqtt_publish
    <2>2. ASSUME NEW t \in Topics, NEW ok \in BOOLEAN, mqtt_subscribe(t, ok)
          PROVE  SentSeen'
      BY <1>6, <2>2 DEF mqtt_subscribe
    <2>3. (Release \/ (\E c \in Calls : Call(c)) \/ \E m \in Messages : TooManyAcks(m)) => Kept
      BY <1>4 DEF Release, Call, TooManyAcks, wire
    <2>4. QED
      BY <1>1, <1>7, <2>1, <2>2, <2>3 DEF AppThread
  <1>8. CASE PacketHandler
    <2>1. ASSUME NEW ok \in BOOLEAN, Pubrec(ok)
          PROVE  SentSeen'
      <3>1. Head(toClient).id <= packet_id' /\ Head(toClient).id \in Ids
        BY <2>1, ReadSeen, StillSeen DEF Pubrec, Packets, Ids
      <3>2. /\ Packet("PUBREL", Head(toClient).id, None) \in Packets
            /\ Packet("PUBREL", Head(toClient).id, None).id = Head(toClient).id
        BY <3>1, PacketType DEF Contents, AckTypes, Packet
      <3>3. QED
        BY <1>1, <1>3, <1>4, <2>1, <3>1, <3>2 DEF Pubrec, wire
    <2>2. ASSUME NEW ok \in BOOLEAN, PublishQos1(ok) \/ PublishQos2(ok) \/ Pubrel(ok)
          PROVE  SentSeen'
      <3>1. PICK type : Received(type)
        BY <2>2 DEF PublishQos1, PublishQos2, Pubrel
      <3>2. Head(toClient).id \in Ids
        BY <3>1, ReceivedType DEF TypeInv
      <3>3. ASSUME NEW answer \in {"PUBACK", "PUBREC", "PUBCOMP"}
            PROVE  /\ Packet(answer, Head(toClient).id, None) \in Packets
                   /\ Packet(answer, Head(toClient).id, None).type = answer
        BY <3>2, PacketType DEF AckTypes, Contents, Packet
      <3>4. ToBrokerQuiet
        BY <2>2, <3>3, SendQuiet DEF PublishQos1, PublishQos2, Pubrel
      <3>5. QED
        BY <1>1, <1>2, <3>4
    <2>3. RecordPubrel \/ UnrecordReceived \/ PubackOrPubcomp("PUBACK")
            \/ PubackOrPubcomp("PUBCOMP") \/ Suback => Kept
      BY <1>4 DEF RecordPubrel, UnrecordReceived, PubackOrPubcomp, Suback, wire
    <2>4. QED
      BY <1>1, <1>8, <2>1, <2>2, <2>3 DEF PacketHandler
  <1>9. CASE Reconnection \/ Timeouts
    <2>1. ASSUME NEW t \in todo, NEW ok \in BOOLEAN, Resubscribe(t, ok)
          PROVE  SentSeen'
      <3>1. t \in Topics
        BY <2>1 DEF Resubscribe, TypeInv, TypeOK
      <3>2. QED
        BY <1>1, <1>4, <1>6, <2>1, <3>1 DEF Resubscribe, wire
    <2>2. ASSUME NEW a \in todo, NEW ok \in BOOLEAN, Scan(a, ok)
          PROVE  SentSeen'
      <3>1. a \in acks
        BY <2>2 DEF Scan, TypeInv, TypeOK
      <3>2. QED
        BY <1>1, <1>4, <1>5, <2>2, <3>1 DEF Scan, wire
    <2>3. ASSUME NEW a \in acks, NEW ok \in BOOLEAN, Resend(a, ok)
          PROVE  SentSeen'
      BY <1>5, <2>3 DEF Resend
    <2>4. GiveUp \/ Reconnect \/ BeginScan \/ EndScan \/ (\E a \in acks : Destroy(a)) => Kept
      BY <1>4 DEF GiveUp, Reconnect, BeginScan, EndScan, Destroy, wire
    <2>5. QED
      BY <1>1, <1>9, <2>1, <2>2, <2>3, <2>4 DEF Reconnection, Timeouts
  <1>10. CASE Broker \/ Break \/ (\E m \in Incoming : BrokerSend(m)) \/ UNCHANGED vars
    <2>1. \A type : Taken(type) => Kept
      BY <1>2, TakenQuiet
    <2>2. Broker => Kept
      BY <1>4, <2>1 DEF Broker, BrokerPublish, BrokerPubrel, BrokerSubscribe, BrokerPuback,
         BrokerPubrec, BrokerPubcomp, BrokerGarbled, LinkDown
    <2>3. Break \/ (\E m \in Incoming : BrokerSend(m)) \/ UNCHANGED vars => Kept
      BY <1>4 DEF Break, BrokerSend, LinkDown, wire, vars
    <2>4. QED
      BY <1>1, <1>10, <2>2, <2>3
  <1>11. QED
    BY <1>7, <1>8, <1>9, <1>10 DEF Next

(* From the broker: it acknowledges, and waits to release, what was sent. *)
LEMMA BackSeenStep ==
  ASSUME TypeInv, Seen, FirstRound, [Next]_vars
  PROVE  BackSeen' /\ PendingSeen'
  <1> DEFINE ours == {"PUBACK", "PUBREC"}
  <1>1. QuietBack => BackSeen'
    BY StillSeen, ChannelTypes DEF Seen, BackSeen, QuietBack
  <1>2. pending' \subseteq pending => PendingSeen'
    BY StillSeen DEF Seen, PendingSeen
  <1>3. UNCHANGED toClient \/ toClient' = <<>> => QuietBack
    BY DEF QuietBack, Back
  <1>4. \A type : Received(type) => QuietBack /\ UNCHANGED pending
    BY ReceivedQuiet DEF Received, broker
  <1>5. ASSUME NEW packet \in Packets, Answer(packet),
               packet.type \in ours => packet.id <= packet_id'
        PROVE  BackSeen'
    <2>1. Back' = Back \cup {packet}
      BY <1>5, AnswerBack
    <2>2. QED
      BY <1>5, <2>1, StillSeen, ChannelTypes DEF Seen, BackSeen
  <1>6. CASE AppThread
    BY <1>1, <1>2, <1>3, <1>6 DEF AppThread, Call, TooManyAcks, mqtt_publish, mqtt_subscribe,
       Release, broker
  <1>7. CASE PacketHandler
    BY <1>1, <1>2, <1>3, <1>4, <1>7 DEF PacketHandler, PubackOrPubcomp, Suback, RecordPubrel,
       UnrecordReceived, PublishQos1, PublishQos2, Pubrec, Pubrel, broker
  <1>8. CASE Reconnection \/ Timeouts
    <2>1. Reconnect => QuietBack
      BY ResumedPacket DEF Reconnect, Packet, QuietBack, Back
    <2>2. QED
      BY <1>1, <1>2, <1>3, <1>8, <2>1 DEF Reconnection, Timeouts, GiveUp, Reconnect, Resubscribe,
         BeginScan, Scan, EndScan, Destroy, Resend, broker
  <1>9. CASE Break \/ (\E m \in Incoming : BrokerSend(m)) \/ UNCHANGED vars
    <2>1. ASSUME NEW m \in Incoming, BrokerSend(m)
          PROVE  BackSeen' /\ PendingSeen'
      <3>1. /\ Packet("PUBLISH", BrokerId, m) \in Packets
            /\ Packet("PUBLISH", BrokerId, m).type = "PUBLISH"
        BY PacketType, AcksAssumption DEF Contents, Ids, Packet
      <3>2. QED
        BY <1>2, <1>5, <2>1, <3>1 DEF BrokerSend
    <2>2. QED
      BY <1>1, <1>2, <1>3, <1>9, <2>1 DEF Break, LinkDown, vars, broker
  <1>10. CASE Broker
    <2>1. ASSUME NEW type \in AckTypes, NEW m \in {None, "granted", "refused"}, toBroker # <<>>
          PROVE  /\ Packet(type, Head(toBroker).id, m) \in Packets
                 /\ Packet(type, Head(toBroker).id, m).type = type
                 /\ Packet(type, Head(toBroker).id, m).id = Head(toBroker).id
      <3>1. Head(toBroker) \in Packets
        BY <2>1 DEF TypeInv, TypeOK
      <3>2. QED
        BY <3>1, PacketType DEF Packet, Contents, Packets, Ids
    <2>2. CASE BrokerPublish
      <3>1. Head(toBroker) \in Sent /\ Head(toBroker).type = "PUBLISH" /\ toBroker # <<>>
        BY <2>2, TakenQuiet DEF BrokerPublish, Taken
      <3>2. Head(toBroker).id <= packet_id'
        BY <3>1, StillSeen, ChannelTypes DEF Seen, SentSeen
      <3>3. BackSeen'
        BY <1>5, <2>1, <2>2, <3>1, <3>2 DEF BrokerPublish, Awaited, AckTypes
      <3>4. PendingSeen'
        BY <2>2, <3>2, StillSeen DEF BrokerPublish, Seen, PendingSeen
      <3>5. QED
        BY <3>3, <3>4
    <2>3. CASE BrokerPubrel
      BY <1>2, <1>5, <2>1, <2>3 DEF BrokerPubrel, Taken, AckTypes
    <2>4. CASE BrokerSubscribe
      BY <1>2, <1>5, <2>1, <2>4 DEF BrokerSubscribe, Taken, AckTypes, broker
    <2>5. CASE BrokerPubrec
      BY <1>2, <1>5, <2>1, <2>5 DEF BrokerPubrec, Taken, AckTypes
    <2>6. CASE BrokerPuback \/ BrokerPubcomp \/ BrokerGarbled
      BY <1>1, <1>2, <1>3, <2>6 DEF BrokerPuback, BrokerPubcomp, BrokerGarbled, LinkDown, broker
    <2>7. QED
      BY <1>10, <2>2, <2>3, <2>4, <2>5, <2>6 DEF Broker
  <1>11. QED
    BY <1>6, <1>7, <1>8, <1>9, <1>10 DEF Next

(* In hand: the PUBREC just read. *)
LEMMA HandSeenStep ==
  ASSUME TypeInv, Seen, FirstRound, [Next]_vars
  PROVE  HandSeen'
  <1>1. UNCHANGED <<at, todo>> \/ at' # "unrecord" => HandSeen'
    BY StillSeen, ChannelTypes DEF Seen, HandSeen
  <1>2. CASE AppThread
    BY <1>1, <1>2 DEF AppThread, Call, TooManyAcks, mqtt_publish, mqtt_subscribe, Release
  <1>3. CASE PacketHandler
    <2>1. ASSUME NEW ok \in BOOLEAN, Pubrec(ok)
          PROVE  HandSeen'
      <3>1. Head(toClient).id <= packet_id'
        BY <2>1, ReadSeen, StillSeen DEF Pubrec
      <3>2. QED
        BY <2>1, <3>1 DEF Pubrec, HandSeen
    <2>2. ASSUME NEW ok \in BOOLEAN, Pubrel(ok)
          PROVE  HandSeen'
      BY <2>2 DEF Pubrel, Received, HandSeen
    <2>3. ASSUME NEW ok \in BOOLEAN, PublishQos1(ok) \/ PublishQos2(ok)
          PROVE  HandSeen'
      BY <1>1, <2>3 DEF PublishQos1, PublishQos2
    <2>4. QED
      BY <1>1, <1>3, <2>1, <2>2, <2>3 DEF PacketHandler, PubackOrPubcomp, Suback, RecordPubrel,
         UnrecordReceived
  <1>4. CASE Reconnection \/ Timeouts
    BY <1>1, <1>4 DEF Reconnection, Timeouts, GiveUp, Reconnect, Resubscribe, BeginScan, Scan,
       EndScan, Destroy, Resend, client
  <1>5. CASE Broker \/ Break \/ (\E m \in Incoming : BrokerSend(m)) \/ UNCHANGED vars
    <2>1. UNCHANGED <<at, todo>>
      BY <1>5 DEF Broker, BrokerPublish, BrokerPubrel, BrokerSubscribe, BrokerPuback,
         BrokerPubrec, BrokerPubcomp, BrokerGarbled, Break, BrokerSend, Taken, client, vars
    <2>2. QED
      BY <1>1, <2>1
  <1>6. QED
    BY <1>2, <1>3, <1>4, <1>5 DEF Next

LEMMA SeenStep ==
  TypeInv /\ Seen /\ OutboundInv /\ FirstRound /\ [Next]_vars => Seen'
  BY ListSeenStep, SentSeenStep, BackSeenStep, HandSeenStep DEF Seen

LEMMA SeenInit == Init => Seen
  BY DEF Init, Seen, ListSeen, SentSeen, BackSeen, HandSeen, PendingSeen, Sent, Back

(* As long as mqtt_get_next_packet_id() has not given away its last id,    *)
(* every publication gets an id that is not in use: FreshIds is no more    *)
(* than the ids not coming round (mqttclient.c:89-95).                     *)
THEOREM FirstRoundIsFresh == Spec /\ []FirstRound => FreshIds
  <1>1. TypeInv /\ OneInHand /\ Seen /\ FirstRound => FreshId
    BY SeenFresh
  <1>2. QED
    BY <1>1, TypeInit, OutboundInit, SeenInit, TypeStep, HandStep, SeenStep, OutboundStep, PTL
       DEF Spec, FreshIds

(* So until then nothing that mqtt_publish() has taken is lost, and        *)
(* nothing of QoS 2 arrives twice.                                         *)
THEOREM FirstRoundDelivers == Spec /\ []FirstRound => []NothingLost /\ PublishedOnce
  BY FirstRoundIsFresh, FreshIdsLoseNothing, FreshIdsPublishOnce, PTL
=============================================================================
