------------------------------ MODULE MCMqttAcks ------------------------------
(* An instance of MqttAcks with one message of each kind. *)
EXTENDS MqttAcks

CONSTANTS m1, m2, n1, n2, t1

MCMessages == {m1, m2}

MCIncoming == {n1, n2}

MCQoS == [m \in MCMessages \cup MCIncoming |-> IF m \in {m1, n2} THEN 1 ELSE 2]
=============================================================================
