--------------------------- MODULE MqttAcksProofs ---------------------------
(***************************************************************************)
(* Proofs about MqttAcks, for every number of messages, topics, faults and *)
(* packet ids: its types, and that the counter of the acknowledgement list *)
(* is its length.                                                          *)
(***************************************************************************)
EXTENDS MqttAcks, FiniteSetTheorems, TLAPS

-----------------------------------------------------------------------------
(* Types *)

Ids == 0..MaxPacketId

Contents == Messages \cup Incoming \cup Topics \cup {None, "granted", "refused"}

(* A record of a subscription holds a SUBSCRIBE packet for a topic: what a *)
(* SUBACK installs is a topic.                                             *)
SubackTopics == \A a \in acks : a.type = "SUBACK" => a.payload.msg \in Topics

TypeInv == TypeOK /\ SubackTopics

(* What the operators of the model make of packets, records and channels. *)
LEMMA PacketType ==
  ASSUME NEW type \in AckTypes \cup {"PUBLISH", "SUBSCRIBE", "GARBLED"},
         NEW id \in Ids, NEW m \in Contents
  PROVE  /\ Packet(type, id, m) \in Packets
         /\ Packet(type, id, m).msg = m
  BY DEF Packet, Packets, Ids, Contents

LEMMA IdType ==
  ASSUME TypeOK
  PROVE  NextPacketId \in 1..MaxPacketId /\ NextPacketId \in Ids
  BY AcksAssumption DEF TypeOK, NextPacketId, Ids

LEMMA SendType ==
  ASSUME TypeOK, NEW packet \in Packets, NEW ok \in BOOLEAN, Send(packet, ok)
  PROVE  toBroker' \in Seq(Packets) /\ faults' \in 0..MaxFaults
  BY AcksAssumption DEF TypeOK, Send

LEMMA RecordType ==
  ASSUME TypeInv, NEW type \in AckTypes, NEW id \in Ids, NEW packet \in Packets,
         type = "SUBACK" => packet.msg \in Topics, Record(type, id, packet)
  PROVE  acks' \subseteq Entries /\ number' \in Nat /\ acks \subseteq acks' /\ SubackTopics'
  BY DEF TypeInv, TypeOK, SubackTopics, Record, Entries, Ids

LEMMA UnrecordType ==
  ASSUME TypeInv, NEW type, NEW id, Unrecord(type, id)
  PROVE  acks' \subseteq Entries /\ number' \in Nat /\ SubackTopics'
  BY DEF TypeInv, TypeOK, SubackTopics, Unrecord

LEMMA ReceivedType ==
  ASSUME TypeOK, NEW type, Received(type)
  PROVE  /\ Head(toClient) \in Packets
         /\ Head(toClient).type = type
         /\ Head(toClient).id \in Ids
         /\ toClient' \in Seq(Packets)
  <1>1. Head(toClient) \in Packets /\ toClient' \in Seq(Packets)
    BY DEF TypeOK, Received
  <1>2. QED
    BY <1>1 DEF Received, Packets, Ids

LEMMA TakenType ==
  ASSUME TypeOK, NEW type, Taken(type)
  PROVE  /\ Head(toBroker) \in Packets
         /\ Head(toBroker).id \in Ids
         /\ toBroker' \in Seq(Packets)
  <1>1. Head(toBroker) \in Packets /\ toBroker' \in Seq(Packets)
    BY DEF TypeOK, Taken
  <1>2. QED
    BY <1>1 DEF Packets, Ids

LEMMA AnswerType ==
  ASSUME TypeOK, NEW packet \in Packets, Answer(packet)
  PROVE  toClient' \in Seq(Packets)
  BY DEF TypeOK, Answer

LEMMA CountType ==
  ASSUME NEW m \in Messages \cup Incoming, NEW n \in 0..2
  PROVE  Count(m, n) \in 0..2
  BY AcksAssumption DEF Count

(* The application's calls. *)
LEMMA CallType ==
  ASSUME TypeInv, NEW c \in Calls, Call(c)
  PROVE  TypeInv'
  BY DEF TypeInv, TypeOK, SubackTopics, Call, wire, broker

LEMMA PublishType ==
  ASSUME TypeInv, NEW m \in Messages, NEW ok \in BOOLEAN, mqtt_publish(m, ok)
  PROVE  TypeInv'
  <1>1. NextPacketId \in 1..MaxPacketId /\ NextPacketId \in Ids
    BY IdType DEF TypeInv
  <1>2. Packet("PUBLISH", NextPacketId, m) \in Packets
    BY <1>1, PacketType DEF Contents
  <1>3. toBroker' \in Seq(Packets) /\ faults' \in 0..MaxFaults
    BY <1>2, SendType DEF mqtt_publish, TypeInv
  <1>4. acks' \subseteq Entries /\ number' \in Nat /\ acks \subseteq acks' /\ SubackTopics'
    <2>1. Awaited(m) \in {"PUBACK", "PUBREC"}
      BY DEF Awaited
    <2>2. CASE ok
      BY <1>1, <1>2, <2>1, <2>2, RecordType DEF mqtt_publish, AckTypes
    <2>3. CASE ~ok
      BY <2>3 DEF mqtt_publish, TypeInv, TypeOK, SubackTopics
    <2>4. QED
      BY <2>2, <2>3
  <1>5. QED
    BY <1>1, <1>3, <1>4 DEF mqtt_publish, TypeInv, TypeOK, Return, Overwrite, Idle, Calls, broker

(* The part of a subscription that both threads share. *)
LEMMA SubscribeType ==
  ASSUME TypeInv, NEW t \in Topics, NEW ok \in BOOLEAN, Subscribe(t, ok)
  PROVE  /\ packet_id' \in 1..MaxPacketId
         /\ toBroker' \in Seq(Packets) /\ faults' \in 0..MaxFaults
         /\ acks' \subseteq Entries /\ number' \in Nat /\ acks \subseteq acks' /\ SubackTopics'
  <1>1. NextPacketId \in 1..MaxPacketId /\ NextPacketId \in Ids
    BY IdType DEF TypeInv
  <1> DEFINE packet == Packet("SUBSCRIBE", NextPacketId, t)
  <1>2. packet \in Packets /\ packet.msg = t
    BY <1>1, PacketType DEF Contents
  <1>3. toBroker' \in Seq(Packets) /\ faults' \in 0..MaxFaults
    BY <1>2, SendType DEF Subscribe, TypeInv
  <1>4. acks' \subseteq Entries /\ number' \in Nat /\ acks \subseteq acks' /\ SubackTopics'
    <2>1. CASE ok
      BY <1>1, <1>2, <2>1, RecordType DEF Subscribe, AckTypes
    <2>2. CASE ~ok
      BY <2>2 DEF Subscribe, TypeInv, TypeOK, SubackTopics
    <2>3. QED
      BY <2>1, <2>2
  <1>5. QED
    BY <1>1, <1>3, <1>4 DEF Subscribe

LEMMA AppSubscribeType ==
  ASSUME TypeInv, NEW t \in Topics, NEW ok \in BOOLEAN, mqtt_subscribe(t, ok)
  PROVE  TypeInv'
  BY SubscribeType DEF mqtt_subscribe, TypeInv, TypeOK, Return, Overwrite, Idle, Calls, broker

LEMMA ReleaseType ==
  ASSUME TypeInv, Release \/ \E m \in Messages : TooManyAcks(m)
  PROVE  TypeInv'
  <1>1. CASE Release
    <2>1. app' \in {"idle", "release"} \X {None} /\ toBroker' \in Seq(Packets) /\ toClient' \in Seq(Packets)
      BY <1>1 DEF Release, Idle
    <2>2. QED
      BY <1>1, <2>1 DEF TypeInv, TypeOK, SubackTopics, Release, broker
  <1>2. ASSUME NEW m \in Messages, TooManyAcks(m)
        PROVE  TypeInv'
    <2>1. app' \in {"idle", "release"} \X {None}
      BY <1>2 DEF TooManyAcks, Return
    <2>2. QED
      BY <1>2, <2>1 DEF TypeInv, TypeOK, SubackTopics, TooManyAcks, Return, wire, broker
  <1>3. QED
    BY <1>1, <1>2

(* The handlers of packets. *)
LEMMA SubackType ==
  ASSUME TypeInv, Suback
  PROVE  TypeInv'
  <1> DEFINE topics == {a.payload.msg : a \in {b \in acks : b.type = "SUBACK" /\ b.id = Head(toClient).id}}
  <1>1. topics \subseteq Topics
    BY DEF TypeInv, SubackTopics
  <1>2. handlers' \subseteq Topics
    BY <1>1 DEF Suback, TypeInv, TypeOK
  <1>3. toClient' \in Seq(Packets)
    BY ReceivedType DEF Suback, TypeInv
  <1>4. acks' \subseteq Entries /\ number' \in Nat /\ SubackTopics'
    BY UnrecordType DEF Suback
  <1>5. result' \in [Calls -> {"new", "called", "done", "failed", "refused"}]
    BY DEF Suback, TypeInv, TypeOK
  <1>6. QED
    BY <1>2, <1>3, <1>4, <1>5 DEF Suback, Received, TypeInv, TypeOK, wire, broker

LEMMA PubackType ==
  ASSUME TypeInv, NEW type, PubackOrPubcomp(type)
  PROVE  TypeInv'
  BY ReceivedType, UnrecordType DEF PubackOrPubcomp, Received, TypeInv, TypeOK, wire, broker

LEMMA PublishQos1Type ==
  ASSUME TypeInv, NEW ok \in BOOLEAN, PublishQos1(ok)
  PROVE  TypeInv'
  <1> DEFINE p == Head(toClient)
  <1>1. p \in Packets /\ p.id \in Ids /\ toClient' \in Seq(Packets)
    BY ReceivedType DEF PublishQos1, TypeInv
  <1>2. Packet("PUBACK", p.id, None) \in Packets
    BY <1>1, PacketType DEF AckTypes, Contents
  <1>3. toBroker' \in Seq(Packets) /\ faults' \in 0..MaxFaults
    BY <1>2, SendType DEF PublishQos1, TypeInv
  <1>4. inbox' \in [Incoming -> 0..2]
    BY CountType DEF PublishQos1, TypeInv, TypeOK
  <1>5. QED
    BY <1>1, <1>3, <1>4 DEF PublishQos1, Received, TypeInv, TypeOK, SubackTopics, broker

LEMMA PublishQos2Type ==
  ASSUME TypeInv, NEW ok \in BOOLEAN, PublishQos2(ok)
  PROVE  TypeInv'
  <1> DEFINE p == Head(toClient)
  <1>1. p \in Packets /\ p.id \in Ids /\ toClient' \in Seq(Packets)
    BY ReceivedType DEF PublishQos2, TypeInv
  <1>2. Packet("PUBREC", p.id, None) \in Packets
    BY <1>1, PacketType DEF AckTypes, Contents
  <1>3. toBroker' \in Seq(Packets) /\ faults' \in 0..MaxFaults
    BY <1>2, SendType DEF PublishQos2, TypeInv
  <1>4. QED
    BY <1>1, <1>3 DEF PublishQos2, Received, TypeInv, TypeOK, SubackTopics, broker

LEMMA RecordPubrelType ==
  ASSUME TypeInv, RecordPubrel
  PROVE  TypeInv'
  <1>1. PICK p \in todo :
          /\ Record("PUBREL", p.id, IF intact THEN Packet("PUBREC", p.id, None) ELSE Garbled)
          /\ inbox' = IF Exists("PUBREL", p.id) THEN inbox
                      ELSE [inbox EXCEPT ![p.msg] = Count(p.msg, @)]
    BY DEF RecordPubrel
  <1>2. p.id \in Ids
    BY DEF RecordPubrel, TypeInv, TypeOK, Packets, Ids
  <1>3. Packet("PUBREC", p.id, None) \in Packets
    BY <1>2, PacketType DEF AckTypes, Contents
  <1>4. Garbled \in Packets
    BY PacketType, AcksAssumption DEF Garbled, Contents, Ids
  <1>5. acks' \subseteq Entries /\ number' \in Nat /\ SubackTopics'
    BY <1>1, <1>2, <1>3, <1>4, RecordType DEF AckTypes
  <1>6. inbox' \in [Incoming -> 0..2]
    BY <1>1, CountType DEF TypeInv, TypeOK
  <1>7. QED
    BY <1>5, <1>6 DEF RecordPubrel, TypeInv, TypeOK, wire, broker

LEMMA PubrecType ==
  ASSUME TypeInv, NEW ok \in BOOLEAN, Pubrec(ok)
  PROVE  TypeInv'
  <1> DEFINE p == Head(toClient)
  <1>1. p \in Packets /\ p.id \in Ids /\ toClient' \in Seq(Packets)
    BY ReceivedType DEF Pubrec, TypeInv
  <1>2. Packet("PUBREL", p.id, None) \in Packets
    BY <1>1, PacketType DEF AckTypes, Contents
  <1>3. toBroker' \in Seq(Packets) /\ faults' \in 0..MaxFaults
    BY <1>2, SendType DEF Pubrec, TypeInv, TypeOK, wire
  <1>4. acks' \subseteq Entries /\ number' \in Nat /\ SubackTopics'
    BY <1>1, <1>2, RecordType DEF Pubrec, AckTypes
  <1>5. QED
    BY <1>1, <1>3, <1>4 DEF Pubrec, Received, TypeInv, TypeOK, broker

LEMMA PubrelType ==
  ASSUME TypeInv, NEW ok \in BOOLEAN, Pubrel(ok)
  PROVE  TypeInv'
  <1> DEFINE p == Head(toClient)
  <1>1. p \in Packets /\ p.id \in Ids /\ toClient' \in Seq(Packets)
    BY ReceivedType DEF Pubrel, TypeInv
  <1>2. Packet("PUBCOMP", p.id, None) \in Packets
    BY <1>1, PacketType DEF AckTypes, Contents
  <1>3. toBroker' \in Seq(Packets) /\ faults' \in 0..MaxFaults
    BY <1>2, SendType DEF Pubrel, TypeInv
  <1>4. QED
    BY <1>1, <1>3 DEF Pubrel, Received, TypeInv, TypeOK, SubackTopics, broker

LEMMA UnrecordReceivedType ==
  ASSUME TypeInv, UnrecordReceived
  PROVE  TypeInv'
  BY UnrecordType DEF UnrecordReceived, TypeInv, TypeOK, wire, broker

(* Time-outs and reconnection. *)
LEMMA ResendType ==
  ASSUME TypeInv, NEW a \in acks, NEW ok \in BOOLEAN, Resend(a, ok)
  PROVE  TypeInv'
  <1>1. a.payload \in Packets
    BY DEF TypeInv, TypeOK, Entries
  <1>2. toBroker' \in Seq(Packets) /\ faults' \in 0..MaxFaults
    BY <1>1, SendType DEF Resend, TypeInv
  <1>3. QED
    BY <1>2 DEF Resend, TypeInv, TypeOK, SubackTopics, client, broker

LEMMA DestroyType ==
  ASSUME TypeInv, NEW a \in acks, Destroy(a)
  PROVE  TypeInv'
  BY UnrecordType DEF Destroy, TypeInv, TypeOK, wire, broker

LEMMA ReconnectType ==
  ASSUME TypeInv, Reconnect
  PROVE  TypeInv'
  <1>1. Resumed \in Seq(Packets)
    <2>1. ASSUME NEW m \in Incoming
          PROVE  Packet("PUBLISH", BrokerId, m) \in Packets /\ Packet("PUBREL", BrokerId, None) \in Packets
      BY PacketType, AcksAssumption DEF AckTypes, Contents, Ids
    <2>2. QED
      BY <2>1 DEF Resumed
  <1>2. QED
    BY <1>1 DEF Reconnect, TypeInv, TypeOK, SubackTopics, wire, broker

LEMMA ResubscribeType ==
  ASSUME TypeInv, NEW t \in todo, NEW ok \in BOOLEAN, Resubscribe(t, ok)
  PROVE  TypeInv'
  <1>1. t \in Topics
    BY DEF Resubscribe, TypeInv, TypeOK
  <1>2. CASE state = "CONNECTED"
    BY <1>1, <1>2, SubscribeType DEF Resubscribe, TypeInv, TypeOK, broker
  <1>3. CASE state # "CONNECTED"
    BY <1>3 DEF Resubscribe, TypeInv, TypeOK, SubackTopics, wire, broker
  <1>4. QED
    BY <1>2, <1>3

LEMMA ScanType ==
  ASSUME TypeInv, NEW a \in todo, NEW ok \in BOOLEAN, Scan(a, ok)
  PROVE  TypeInv'
  <1>1. a.payload \in Packets
    BY DEF Scan, TypeInv, TypeOK, Entries
  <1>2. toBroker' \in Seq(Packets) /\ faults' \in 0..MaxFaults
    BY <1>1, SendType DEF Scan, TypeInv, TypeOK, wire
  <1>3. QED
    BY <1>2 DEF Scan, TypeInv, TypeOK, SubackTopics, broker

(* What only moves the client's thread or the link. *)
LEMMA OtherType ==
  ASSUME TypeInv, GiveUp \/ BeginScan \/ EndScan \/ Break \/ BrokerGarbled
  PROVE  TypeInv'
  <1>1. CASE GiveUp
    BY <1>1 DEF GiveUp, TypeInv, TypeOK, SubackTopics, wire, broker
  <1>2. CASE BeginScan \/ EndScan
    BY <1>2 DEF BeginScan, EndScan, TypeInv, TypeOK, SubackTopics, wire, broker
  <1>3. CASE Break \/ BrokerGarbled
    <2>1. LinkDown
      BY <1>3 DEF Break, BrokerGarbled
    <2>2. toBroker' \in Seq(Packets) /\ toClient' \in Seq(Packets) /\ link' = "broken"
      BY <2>1 DEF LinkDown
    <2>3. faults' \in 0..MaxFaults
      BY <1>3, AcksAssumption DEF Break, BrokerGarbled, TypeInv, TypeOK
    <2>4. UNCHANGED <<client, broker>>
      BY <1>3 DEF Break, BrokerGarbled
    <2>5. QED
      BY <2>2, <2>3, <2>4 DEF client, broker, TypeInv, TypeOK, SubackTopics
  <1>4. QED
    BY <1>1, <1>2, <1>3

(* The broker. *)
LEMMA BrokerType ==
  ASSUME TypeInv, Broker \/ \E m \in Incoming : BrokerSend(m)
  PROVE  TypeInv'
  <1>1. CASE BrokerPublish
    <2> DEFINE p == Head(toBroker)
    <2>1. p.id \in Ids /\ toBroker' \in Seq(Packets)
      BY <1>1, TakenType DEF BrokerPublish, TypeInv
    <2>2. Packet(Awaited(p.msg), p.id, None) \in Packets
      BY <2>1, PacketType DEF AckTypes, Contents, Awaited
    <2>3. toClient' \in Seq(Packets)
      BY <1>1, <2>2, AnswerType DEF BrokerPublish, TypeInv
    <2>4. delivered' \in [Messages -> 0..2]
      BY <1>1, CountType DEF BrokerPublish, TypeInv, TypeOK
    <2>5. QED
      BY <1>1, <2>1, <2>3, <2>4 DEF BrokerPublish, Taken, client, TypeInv, TypeOK, SubackTopics, Ids
  <1>2. CASE BrokerPubrel
    <2>1. Head(toBroker).id \in Ids /\ toBroker' \in Seq(Packets)
      BY <1>2, TakenType DEF BrokerPubrel, TypeInv
    <2>2. Packet("PUBCOMP", Head(toBroker).id, None) \in Packets
      BY <2>1, PacketType DEF AckTypes, Contents
    <2>3. toClient' \in Seq(Packets)
      BY <1>2, <2>2, AnswerType DEF BrokerPubrel, TypeInv
    <2>4. QED
      BY <1>2, <2>1, <2>3 DEF BrokerPubrel, Taken, client, TypeInv, TypeOK, SubackTopics
  <1>3. CASE BrokerSubscribe
    <2>1. Head(toBroker).id \in Ids /\ toBroker' \in Seq(Packets)
      BY <1>3, TakenType DEF BrokerSubscribe, TypeInv
    <2>2. PICK granted \in {"granted", "refused"} : Answer(Packet("SUBACK", Head(toBroker).id, granted))
      BY <1>3 DEF BrokerSubscribe
    <2>3. Packet("SUBACK", Head(toBroker).id, granted) \in Packets
      BY <2>1, PacketType DEF AckTypes, Contents
    <2>4. toClient' \in Seq(Packets)
      BY <2>2, <2>3, AnswerType DEF TypeInv
    <2>5. QED
      BY <1>3, <2>1, <2>4 DEF BrokerSubscribe, Taken, client, broker, TypeInv, TypeOK, SubackTopics
  <1>4. CASE BrokerPuback \/ BrokerPubcomp
    BY <1>4, TakenType DEF BrokerPuback, BrokerPubcomp, Taken, Advance, client, TypeInv, TypeOK, SubackTopics
  <1>5. CASE BrokerPubrec
    <2>1. Head(toBroker).id \in Ids /\ toBroker' \in Seq(Packets)
      BY <1>5, TakenType DEF BrokerPubrec, TypeInv
    <2>2. Packet("PUBREL", Head(toBroker).id, None) \in Packets
      BY <2>1, PacketType DEF AckTypes, Contents
    <2>3. toClient' \in Seq(Packets)
      BY <1>5, <2>2, AnswerType DEF BrokerPubrec, TypeInv
    <2>4. QED
      BY <1>5, <2>1, <2>3 DEF BrokerPubrec, Taken, Advance, client, TypeInv, TypeOK, SubackTopics
  <1>6. CASE BrokerGarbled
    BY <1>6, OtherType
  <1>7. ASSUME NEW m \in Incoming, BrokerSend(m)
        PROVE  TypeInv'
    <2>1. Packet("PUBLISH", BrokerId, m) \in Packets
      BY PacketType, AcksAssumption DEF Contents, Ids
    <2>2. toClient' \in Seq(Packets)
      BY <1>7, <2>1, AnswerType DEF BrokerSend, TypeInv
    <2>3. QED
      BY <1>7, <2>2 DEF BrokerSend, client, wire, TypeInv, TypeOK, SubackTopics
  <1>8. QED
    BY <1>1, <1>2, <1>3, <1>4, <1>5, <1>6, <1>7 DEF Broker

(* Every step keeps the types. *)
LEMMA TypeStep == TypeInv /\ [Next]_vars => TypeInv'
  <1> SUFFICES ASSUME TypeInv, [Next]_vars PROVE TypeInv'
    OBVIOUS
  <1>1. CASE AppThread
    BY <1>1, CallType, PublishType, AppSubscribeType, ReleaseType DEF AppThread
  <1>2. CASE PacketHandler
    BY <1>2, PubackType, SubackType, RecordPubrelType, UnrecordReceivedType, PublishQos1Type,
       PublishQos2Type, PubrecType, PubrelType DEF PacketHandler
  <1>3. CASE Reconnection
    BY <1>3, OtherType, ReconnectType, ResubscribeType, ScanType DEF Reconnection
  <1>4. CASE Timeouts
    BY <1>4, DestroyType, ResendType DEF Timeouts
  <1>5. CASE Broker \/ \E m \in Incoming : BrokerSend(m)
    BY <1>5, BrokerType
  <1>6. CASE Break
    BY <1>6, OtherType
  <1>7. CASE UNCHANGED vars
    BY <1>7 DEF vars, client, wire, broker, TypeInv, TypeOK, SubackTopics
  <1>8. QED
    BY <1>1, <1>2, <1>3, <1>4, <1>5, <1>6, <1>7 DEF Next

(* Nothing is recorded or under way at first. *)
LEMMA TypeInit == Init => TypeInv
  BY AcksAssumption DEF Init, TypeInv, TypeOK, SubackTopics, Idle, Calls

(* The client's variables, the packets under way and what the broker knows *)
(* keep their types: every record can be sent again, the packet id stays   *)
(* in its range, and whatever a SUBACK installs is a topic.                *)
THEOREM AcksTypeCorrect == Spec => []TypeOK
  <1>1. TypeInv => TypeOK
    BY DEF TypeInv
  <1>2. QED
    BY <1>1, TypeInit, TypeStep, PTL DEF Spec

-----------------------------------------------------------------------------
(* The list and its counter *)

ListInv == IsFiniteSet(acks) /\ CountIsLength

(* mqtt_ack_list_record() adds one entry and counts it, or does neither. *)
LEMMA RecordKeepsCount ==
  ASSUME ListInv, NEW type, NEW id, NEW packet, Record(type, id, packet)
  PROVE  ListInv'
  <1>1. CASE Exists(type, id)
    BY <1>1 DEF Record, ListInv, CountIsLength
  <1>2. CASE ~Exists(type, id)
    <2> DEFINE e == [type |-> type, id |-> id, payload |-> packet]
    <2>1. acks' = acks \cup {e} /\ number' = number + 1
      BY <1>2 DEF Record
    <2>2. e \notin acks
      BY <1>2 DEF Exists
    <2>3. IsFiniteSet(acks') /\ Cardinality(acks') = Cardinality(acks) + 1
      BY <2>1, <2>2, FS_AddElement DEF ListInv
    <2>4. ASSUME NEW a \in acks', NEW b \in acks', a.type = b.type, a.id = b.id
          PROVE  a = b
      BY <1>2, <2>1, <2>4 DEF ListInv, CountIsLength, Exists
    <2>5. QED
      BY <2>1, <2>3, <2>4 DEF ListInv, CountIsLength
  <1>3. QED
    BY <1>1, <1>2

(* mqtt_ack_list_unrecord() finds at most one entry, and counts it off. *)
LEMMA UnrecordKeepsCount ==
  ASSUME ListInv, NEW type, NEW id, Unrecord(type, id)
  PROVE  ListInv'
  <1> DEFINE gone == {a \in acks : a.type = type /\ a.id = id}
  <1>1. acks' = acks \ gone /\ number' = IF gone = {} \/ number = 0 THEN number ELSE number - 1
    BY DEF Unrecord
  <1>2. \A a, b \in acks' : a.type = b.type /\ a.id = b.id => a = b
    BY <1>1 DEF ListInv, CountIsLength
  <1>3. CASE gone = {}
    <2>1. acks' = acks /\ number' = number
      BY <1>1, <1>3
    <2>2. QED
      BY <2>1 DEF ListInv, CountIsLength
  <1>4. CASE gone # {}
    <2>1. PICK e \in gone : TRUE
      BY <1>4
    <2>2. gone = {e}
      BY <2>1 DEF ListInv, CountIsLength
    <2>3. e \in acks /\ acks' = acks \ {e}
      BY <1>1, <2>1, <2>2
    <2>4. IsFiniteSet(acks') /\ Cardinality(acks') = Cardinality(acks) - 1
      BY <2>3, FS_RemoveElement DEF ListInv
    <2>5. Cardinality(acks) # 0
      BY <2>3, FS_EmptySet DEF ListInv
    <2>6. number' = number - 1
      BY <1>1, <1>4, <2>5 DEF ListInv, CountIsLength
    <2>7. QED
      BY <1>2, <2>4, <2>6 DEF ListInv, CountIsLength
  <1>5. QED
    BY <1>3, <1>4

(* Every step records, strikes off or leaves the list alone. *)
LEMMA ListStep == ListInv /\ [Next]_vars => ListInv'
  <1> SUFFICES ASSUME ListInv, [Next]_vars PROVE ListInv'
    OBVIOUS
  <1>1. UNCHANGED <<acks, number>> => ListInv'
    BY DEF ListInv, CountIsLength
  <1>2. CASE AppThread
    <2>1. ASSUME NEW c \in Calls, Call(c) PROVE ListInv'
      BY <1>1, <2>1 DEF Call
    <2>2. ASSUME NEW m \in Messages, TooManyAcks(m) PROVE ListInv'
      BY <1>1, <2>2 DEF TooManyAcks
    <2>3. ASSUME NEW m \in Messages, NEW ok \in BOOLEAN, mqtt_publish(m, ok) PROVE ListInv'
      BY <1>1, <2>3, RecordKeepsCount DEF mqtt_publish
    <2>4. ASSUME NEW t \in Topics, NEW ok \in BOOLEAN, mqtt_subscribe(t, ok) PROVE ListInv'
      BY <1>1, <2>4, RecordKeepsCount DEF mqtt_subscribe, Subscribe
    <2>5. CASE Release
      BY <1>1, <2>5 DEF Release
    <2>6. QED
      BY <1>2, <2>1, <2>2, <2>3, <2>4, <2>5 DEF AppThread
  <1>3. CASE PacketHandler
    <2>1. CASE PubackOrPubcomp("PUBACK") \/ PubackOrPubcomp("PUBCOMP")
      BY <2>1, UnrecordKeepsCount DEF PubackOrPubcomp
    <2>2. CASE Suback
      BY <2>2, UnrecordKeepsCount DEF Suback
    <2>3. CASE RecordPubrel
      BY <2>3, RecordKeepsCount DEF RecordPubrel
    <2>4. CASE UnrecordReceived
      BY <2>4, UnrecordKeepsCount DEF UnrecordReceived
    <2>5. ASSUME NEW ok \in BOOLEAN, PublishQos1(ok) \/ PublishQos2(ok) \/ Pubrel(ok)
          PROVE  ListInv'
      BY <1>1, <2>5 DEF PublishQos1, PublishQos2, Pubrel
    <2>6. ASSUME NEW ok \in BOOLEAN, Pubrec(ok) PROVE ListInv'
      BY <2>6, RecordKeepsCount DEF Pubrec
    <2>7. QED
      BY <1>3, <2>1, <2>2, <2>3, <2>4, <2>5, <2>6 DEF PacketHandler
  <1>4. CASE Reconnection
    <2>1. CASE GiveUp \/ Reconnect \/ BeginScan \/ EndScan
      BY <1>1, <2>1 DEF GiveUp, Reconnect, BeginScan, EndScan
    <2>2. ASSUME NEW t \in todo, NEW ok \in BOOLEAN, Resubscribe(t, ok) PROVE ListInv'
      BY <1>1, <2>2, RecordKeepsCount DEF Resubscribe, Subscribe
    <2>3. ASSUME NEW a \in todo, NEW ok \in BOOLEAN, Scan(a, ok) PROVE ListInv'
      BY <1>1, <2>3 DEF Scan
    <2>4. QED
      BY <1>4, <2>1, <2>2, <2>3 DEF Reconnection
  <1>5. CASE Timeouts
    <2>1. ASSUME NEW a \in acks, Destroy(a) PROVE ListInv'
      BY <2>1, UnrecordKeepsCount DEF Destroy
    <2>2. ASSUME NEW a \in acks, NEW ok \in BOOLEAN, Resend(a, ok) PROVE ListInv'
      BY <1>1, <2>2 DEF Resend, client
    <2>3. QED
      BY <1>5, <2>1, <2>2 DEF Timeouts
  <1>6. CASE Broker
    <2>1. CASE BrokerGarbled
      BY <1>1, <2>1 DEF BrokerGarbled, client
    <2>2. CASE ~BrokerGarbled
      BY <1>1, <1>6, <2>2 DEF Broker, BrokerPublish, BrokerPubrel, BrokerSubscribe, BrokerPuback,
         BrokerPubrec, BrokerPubcomp, Taken, client
    <2>3. QED
      BY <2>1, <2>2
  <1>7. CASE \E m \in Incoming : BrokerSend(m)
    BY <1>1, <1>7 DEF BrokerSend, client
  <1>8. CASE Break
    BY <1>1, <1>8 DEF Break, client
  <1>9. CASE UNCHANGED vars
    BY <1>1, <1>9 DEF vars, client
  <1>10. QED
    BY <1>2, <1>3, <1>4, <1>5, <1>6, <1>7, <1>8, <1>9 DEF Next

(* mqtt_ack_handler_number is the length of mqtt_ack_handler_list, which   *)
(* never holds two entries for the same acknowledgement, whatever the two  *)
(* threads, repeated acknowledgements and reconnections do.                *)
THEOREM CountAlwaysLength == Spec => []CountIsLength
  <1>1. Init => ListInv
    BY FS_EmptySet DEF Init, ListInv, CountIsLength
  <1>2. ListInv => CountIsLength
    BY DEF ListInv
  <1>3. QED
    BY <1>1, <1>2, ListStep, PTL DEF Spec
=============================================================================
