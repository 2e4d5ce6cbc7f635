--------------------------- MODULE ActuatorsHalt ----------------------------
(***************************************************************************)
(* Actuators with a history variable that remembers an order to halt: a    *)
(* message after which the threshold function is off and whose step item   *)
(* is "stop".  From then on, until a message switches one of the two on    *)
(* again, nobody has asked for a running motor.                            *)
(***************************************************************************)
EXTENDS Actuators

VARIABLE halted   \* "no"; or the main thread was "idle" or "busy" when told to halt

(* Inside the block guarded by flag_arr? *)
Busy == pc \in {"fan", "turn", "write"}

HaltInit == Init /\ halted = "no"

Handle ==
  \E m \in Messages :
    /\ sub_topic_handle1(m)
    /\ halted' = CASE m.step = "start" \/ flag_arr' = 1 -> "no"
                   [] m.step = "stop" /\ flag_arr' = 0  -> IF Busy THEN "busy" ELSE "idle"
                   [] OTHER                             -> halted

HaltNext ==
  \/ Handle
  \/ Main /\ UNCHANGED halted
  \/ DoubleClap /\ UNCHANGED halted

HaltSpec == HaltInit /\ [][HaltNext]_<<vars, halted>>

(* The main thread keeps running: rt_thread_mdelay() always ends, and the  *)
(* higher-priority handlers are short.                                     *)
HaltFairSpec == HaltSpec /\ WF_<<vars, halted>>(Main /\ UNCHANGED halted)

(* An order to halt that finds the main thread outside the block that      *)
(* flag_arr guards (main.c:398-412) is final: the motor stands still until *)
(* a message starts something again, whatever was read or clapped since.   *)
HaltIsFinal == halted = "idle" => ~Rotating

(* The same without the condition, as drv_stepMotor.c:27 ("dir -> 0 stop") *)
(* and main.c:397 ("switch of the threshold function") have it: once the   *)
(* threshold function is off and drv_stepMotor_ctrl(0) was the last motor  *)
(* command received, and the main thread is back outside its block, the    *)
(* motor stands still.                                                     *)
StopHonoured == (halted # "no" /\ ~Busy) => ~Rotating
=============================================================================
