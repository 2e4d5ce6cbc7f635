------------------------------ MODULE MCHtu21d ------------------------------
(* Htu21d with a temperature that takes the whole delay to measure, as the *)
(* 14-bit measurement nearly does, and a humidity that takes half of it.   *)
EXTENDS Htu21d

LongestConversion == [temp |-> 4, humi |-> 2]
=============================================================================
