---------------------------- MODULE MqttDelivery ----------------------------
(***************************************************************************)
(* What the qualities of service of MQTT promise, seen from outside: a     *)
(* message that is offered reaches the other side at most once (QoS 2) or  *)
(* any number of times (QoS 1), and never without being offered.           *)
(***************************************************************************)
EXTENDS Naturals

CONSTANTS Messages, QoS

VARIABLES offered,   \* the messages that were handed over
          delivered  \* how often each one arrived, counted up to QoS[m]

Init ==
  /\ offered = {}
  /\ delivered = [m \in Messages |-> 0]

Offer(m) ==
  /\ m \notin offered
  /\ offered' = offered \cup {m}
  /\ UNCHANGED delivered

Deliver(m) ==
  /\ m \in offered
  /\ delivered[m] = 0 \/ QoS[m] = 1
  /\ delivered' = [delivered EXCEPT ![m] = IF @ < QoS[m] THEN @ + 1 ELSE @]
  /\ UNCHANGED offered

Next == \E m \in Messages : Offer(m) \/ Deliver(m)

Spec == Init /\ [][Next]_<<offered, delivered>>
=============================================================================
