----------------------------- MODULE Actuators ------------------------------
(***************************************************************************)
(* The outputs of the station (LEDs, fan, step motor) and the three agents *)
(* that drive them:                                                        *)
(*   - the main thread, which compares its readings with the thresholds    *)
(*     once per loop while the threshold function is switched on;          *)
(*   - sub_topic_handle1(), called by the MQTT client's thread for every   *)
(*     message on the subscribed topic;                                    *)
(*   - on_clap_space_timer(), the timer callback that ends a double clap.  *)
(*                                                                         *)
(* The MQTT thread has priority 5, the main thread priority 10, and the    *)
(* callback runs in the SysTick interrupt, so the handler and the callback *)
(* are single actions (they share no variable), while the main thread can  *)
(* be preempted before every pin write and every test of a shared          *)
(* variable: each of those is an action of its own.                        *)
(***************************************************************************)
EXTENDS LedControl, Sequences

CONSTANTS Levels    \* bound: the readings and thresholds that occur, ordered numbers

ASSUME LevelsAssumption == Levels # {} /\ Levels \subseteq Int

(* A JSON payload, by the items the handler looks for.  "none" stands for  *)
(* a missing item and for one of the wrong type or with another text.  lt  *)
(* and tmp only matter together, so both = FALSE stands for every payload  *)
(* in which one of the two is not a number.                                *)
Messages == [msg  : {"start", "stop", "none"},
             step : {"start", "stop", "none"},
             both : BOOLEAN,
             lt   : Levels,
             tmp  : Levels]

MotorPins == {"EN", "DIR", "PWM"}        \* PWM: is the step signal running?
Pins == LEDS \cup MotorPins \cup {"FAN"}

VARIABLES
  pins,             \* the level of every output
  flag_arr,         \* 1: the threshold function is on
  lt_arr, tmp_arr,  \* the thresholds
  flag_led_status,  \* 0 or 0xf, kept by the clap switch only
  pc,               \* what the main thread does next
  lt, tmp,          \* its readings
  todo              \* the pin writes left of its call of turn()

vars == <<pins, flag_arr, lt_arr, tmp_arr, flag_led_status, pc, lt, tmp, todo>>

Write(p, level) == [pin |-> p, level |-> level]

(* Mutant: the step signal is switched on before the driver is enabled. *)
drv_stepMotor_ctrl_PwmFirst(dir) ==
  IF dir = 0 THEN <<Write("PWM", 0), Write("EN", 1)>>
             ELSE <<Write("DIR", IF dir = 1 THEN 0 ELSE 1), Write("PWM", 1), Write("EN", 0)>>

(* drv_stepMotor_ctrl(dir): its writes, in order. *)
drv_stepMotor_ctrl(dir) ==
  IF dir = 0 THEN <<Write("PWM", 0), Write("EN", 1)>>
             ELSE <<Write("DIR", IF dir = 1 THEN 0 ELSE 1), Write("EN", 0), Write("PWM", 1)>>

(* Mutant: the last LED is forgotten. *)
turn_ThreeLeds(a) ==
  LET level == IF a = 1 THEN PIN_LOW ELSE PIN_HIGH
  IN  <<Write("LED1", level), Write("LED2", level), Write("LED3", level)>>
        \o drv_stepMotor_ctrl(IF a = 1 THEN 1 ELSE 0)

(* turn(a): its writes, in order. *)
turn(a) ==
  LET level == IF a = 1 THEN PIN_LOW ELSE PIN_HIGH
  IN  <<Write("LED1", level), Write("LED2", level), Write("LED3", level), Write("LED4", level)>>
        \o drv_stepMotor_ctrl(IF a = 1 THEN 1 ELSE 0)

(* The pins after the writes ws, none of which is to a pin written twice. *)
Written(ws) ==
  [p \in Pins |-> IF \E i \in DOMAIN ws : ws[i].pin = p
                    THEN ws[CHOOSE i \in DOMAIN ws : ws[i].pin = p].level
                    ELSE pins[p]]

(* The head of the main loop: init_io_port(), drv_stepMotor_init() and     *)
(* init_int() have set up the pins, and drv_stepMotor_ctrl(1) at           *)
(* main.c:375 has started the motor.                                       *)
Init ==
  /\ pins = [p \in Pins |-> IF p \in LEDS THEN init_io_port[p]
                            ELSE IF p = "PWM" THEN 1 ELSE 0]
  /\ flag_arr = 0
  /\ lt_arr \in Levels
  /\ tmp_arr \in Levels
  /\ flag_led_status = 0
  /\ pc = "sample"
  /\ lt \in Levels
  /\ tmp \in Levels
  /\ todo = <<>>

-----------------------------------------------------------------------------
(* The main thread *)

(* It reads the light and the temperature sensor (and offers the light     *)
(* reading to the mailbox, see Report).                                    *)
Sample ==
  /\ pc = "sample"
  /\ lt' \in Levels
  /\ tmp' \in Levels
  /\ pc' = "check"
  /\ UNCHANGED <<pins, flag_arr, lt_arr, tmp_arr, flag_led_status, todo>>

(* Mutant: the outputs follow the thresholds whatever flag_arr says. *)
Check_AlwaysOn ==
  /\ pc = "check"
  /\ pc' = "fan"
  /\ UNCHANGED <<pins, flag_arr, lt_arr, tmp_arr, flag_led_status, lt, tmp, todo>>

(* if (flag_arr == 1), and the delay when it is not. *)
Check ==
  /\ pc = "check"
  /\ pc' = IF flag_arr = 1 THEN "fan" ELSE "sample"
  /\ UNCHANGED <<pins, flag_arr, lt_arr, tmp_arr, flag_led_status, lt, tmp, todo>>

(* Mutant: the fan is only ever switched on. *)
Fan_NeverOff ==
  /\ pc = "fan"
  /\ pins' = [pins EXCEPT !["FAN"] = IF tmp >= tmp_arr THEN PIN_HIGH ELSE @]
  /\ pc' = "turn"
  /\ UNCHANGED <<flag_arr, lt_arr, tmp_arr, flag_led_status, lt, tmp, todo>>

(* fan(1) or fan(0); no other agent writes this pin. *)
Fan ==
  /\ pc = "fan"
  /\ pins' = [pins EXCEPT !["FAN"] = IF tmp >= tmp_arr THEN PIN_HIGH ELSE PIN_LOW]
  /\ pc' = "turn"
  /\ UNCHANGED <<flag_arr, lt_arr, tmp_arr, flag_led_status, lt, tmp, todo>>

(* The comparison of the light reading decides which turn() is called. *)
CallTurn ==
  /\ pc = "turn"
  /\ todo' = turn(IF lt <= lt_arr THEN 1 ELSE 0)
  /\ pc' = "write"
  /\ UNCHANGED <<pins, flag_arr, lt_arr, tmp_arr, flag_led_status, lt, tmp>>

(* The next pin write of that call; after the last one the thread sleeps. *)
WritePin ==
  /\ pc = "write"
  /\ pins' = [pins EXCEPT ![Head(todo).pin] = Head(todo).level]
  /\ todo' = Tail(todo)
  /\ pc' = IF Tail(todo) = <<>> THEN "sample" ELSE "write"
  /\ UNCHANGED <<flag_arr, lt_arr, tmp_arr, flag_led_status, lt, tmp>>

Main == Sample \/ Check \/ Fan \/ CallTurn \/ WritePin

-----------------------------------------------------------------------------
(* The other agents *)

(* A payload that is no JSON at all is left alone; it changes nothing. *)
sub_topic_handle1(m) ==
  /\ flag_arr' = CASE m.msg = "start" -> 1
                   [] m.msg = "stop"  -> 0
                   [] OTHER           -> flag_arr
  /\ pins' = CASE m.step = "stop"  -> Written(drv_stepMotor_ctrl(0))
               [] m.step = "start" -> Written(drv_stepMotor_ctrl(1))
               [] OTHER            -> pins
  /\ lt_arr' = IF m.both THEN m.lt ELSE lt_arr
  /\ tmp_arr' = IF m.both THEN m.tmp ELSE tmp_arr
  /\ UNCHANGED <<flag_led_status, pc, lt, tmp, todo>>

(* Mutant: the LED status is never cleared. *)
DoubleClap_NeverCleared ==
  /\ flag_led_status' = flag_led_status + 15
  /\ LET led == control_led(IF flag_led_status # 0 THEN 15 ELSE 0)
     IN  pins' = [p \in Pins |-> IF p \in LEDS THEN led[p] ELSE pins[p]]
  /\ UNCHANGED <<flag_arr, lt_arr, tmp_arr, pc, lt, tmp, todo>>

(* on_clap_space_timer() at the end of a gesture of two claps. *)
DoubleClap ==
  /\ flag_led_status' = IF flag_led_status # 0 THEN 0 ELSE 15
  /\ LET led == control_led(IF flag_led_status # 0 THEN 15 ELSE 0)
     IN  pins' = [p \in Pins |-> IF p \in LEDS THEN led[p] ELSE pins[p]]
  /\ UNCHANGED <<flag_arr, lt_arr, tmp_arr, pc, lt, tmp, todo>>

Next == Main \/ (\E m \in Messages : sub_topic_handle1(m)) \/ DoubleClap

Spec == Init /\ [][Next]_vars

-----------------------------------------------------------------------------
(* Properties *)

Rotating == pins["EN"] = 0 /\ pins["PWM"] = 1

MainWrites == {Write(p, l) : p \in Pins, l \in PinLevels}

TypeOK ==
  /\ pins \in [Pins -> PinLevels]
  /\ flag_arr \in {0, 1}
  /\ lt_arr \in Levels /\ tmp_arr \in Levels
  /\ flag_led_status \in {0, 15}
  /\ pc \in {"sample", "check", "fan", "turn", "write"}
  /\ lt \in Levels /\ tmp \in Levels
  /\ todo \in Seq(MainWrites)
  /\ pc = "write" <=> todo # <<>>

(* The motor driver is never left enabled without a step signal, which     *)
(* would hold the coils under current: when the main thread is not inside  *)
(* turn(), EN low implies that PWM runs.  The main thread's call and the   *)
(* handler's may interleave at every write; only the order of the writes   *)
(* in drv_stepMotor_ctrl() rules the bad mixture out.                      *)
NotHeldUnderCurrent == pc # "write" => ~(pins["EN"] = 0 /\ pins["PWM"] = 0)

(* Whatever mixture of LED and motor writes the three agents have left     *)
(* behind, the main loop repairs it: once only the main thread runs, the   *)
(* threshold function is on and the reading stays on one side of the       *)
(* threshold, the LEDs and the motor all follow it.                        *)
OutputsSettle ==
  (<>[][Main]_vars /\ <>[](flag_arr = 1)) =>
    /\ <>[](lt <= lt_arr) => <>[](AllLit(pins) /\ Rotating)
    /\ <>[](lt > lt_arr)  => <>[](AllOff(pins) /\ ~Rotating)

(* While the threshold function stays on the fan ends up following the     *)
(* temperature, whatever messages and claps arrive.                        *)
FanFollows ==
  <>[](flag_arr = 1) =>
    /\ <>[](tmp >= tmp_arr) => <>[](pins["FAN"] = PIN_HIGH)
    /\ <>[](tmp < tmp_arr)  => <>[](pins["FAN"] = PIN_LOW)
=============================================================================
