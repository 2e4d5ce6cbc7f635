----------------------------- MODULE DoubleClap -----------------------------
(***************************************************************************)
(* What the clap switch promises, without timers, interrupts or flags.     *)
(*                                                                         *)
(* A gesture is a run of claps, each at least Debounce ticks after the one *)
(* before it.  It is over exactly ClapSpace ticks after its last clap, and *)
(* a gesture of exactly two claps switches the lamp and asks for a report. *)
(* A clap may fall into a tick, which is not counted then.  A key press    *)
(* asks for a report too.  The demo thread takes the request.              *)
(***************************************************************************)
EXTENDS Integers

CONSTANTS ClapSpace,  \* ticks of silence that end a gesture
          Debounce,   \* least distance of two claps of a gesture
          CntMax      \* claps are counted up to here, and saturate

VARIABLES claps,      \* claps of the current gesture, 0 when there is none
          since,      \* ticks since its last clap, -1 within the tick of the clap
          lamp,       \* TRUE after an odd number of double claps
          request     \* a report is wanted

vars == <<claps, since, lamp, request>>

Init == claps = 0 /\ since = 0 /\ lamp = FALSE /\ request = FALSE

Saturated(n) == IF n < CntMax THEN n + 1 ELSE n

Clap ==
  /\ claps > 0 => since >= Debounce
  /\ claps' = Saturated(claps)
  /\ since' \in {-1, 0}
  /\ UNCHANGED <<lamp, request>>

Wait ==
  /\ claps > 0
  /\ since + 1 < ClapSpace
  /\ since' = since + 1
  /\ UNCHANGED <<claps, lamp, request>>

GestureEnds ==
  /\ claps > 0
  /\ since + 1 = ClapSpace
  /\ claps' = 0
  /\ since' = 0
  /\ lamp' = IF claps = 2 THEN ~lamp ELSE lamp
  /\ request' = (claps = 2 \/ request)

KeyPressed ==
  /\ request' = TRUE
  /\ UNCHANGED <<claps, since, lamp>>

RequestTaken ==
  /\ request
  /\ request' = FALSE
  /\ UNCHANGED <<claps, since, lamp>>

Next == Clap \/ Wait \/ GestureEnds \/ KeyPressed \/ RequestTaken

Spec == Init /\ [][Next]_vars
=============================================================================
