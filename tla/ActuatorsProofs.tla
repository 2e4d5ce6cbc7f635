-------------------------- MODULE ActuatorsProofs ---------------------------
(***************************************************************************)
(* The step motor under every interleaving of the main thread with the     *)
(* message handler and the clap callback, for every set Levels of readings *)
(* and thresholds.                                                         *)
(*                                                                         *)
(* NotHeldUnderCurrent is not inductive: when turn() returns, all that is  *)
(* known of the motor pins is what its last write did, because the handler *)
(* may have run before it.  LastWriteIsSafe supplies that: the last write  *)
(* of every turn() alone excludes the bad mixture.                         *)
(***************************************************************************)
EXTENDS ActuatorsHalt, SequenceTheorems, TLAPS

(* The writes after which EN low with PWM off is impossible. *)
SafeWrites == {Write("EN", 1), Write("PWM", 1)}

LastWriteIsSafe == pc = "write" => todo[Len(todo)] \in SafeWrites

MotorInv == TypeOK /\ NotHeldUnderCurrent /\ LastWriteIsSafe

-----------------------------------------------------------------------------
(* The writes *)

LEMMA CtrlFacts ==
  ASSUME NEW dir \in {0, 1}
  PROVE  /\ drv_stepMotor_ctrl(dir) \in Seq(MainWrites)
         /\ Len(drv_stepMotor_ctrl(dir)) = IF dir = 0 THEN 2 ELSE 3
         /\ dir = 0 => /\ drv_stepMotor_ctrl(dir)[1] = Write("PWM", 0)
                       /\ drv_stepMotor_ctrl(dir)[2] = Write("EN", 1)
         /\ dir = 1 => /\ drv_stepMotor_ctrl(dir)[1] = Write("DIR", 0)
                       /\ drv_stepMotor_ctrl(dir)[2] = Write("EN", 0)
                       /\ drv_stepMotor_ctrl(dir)[3] = Write("PWM", 1)
  <1>1. \A p \in Pins, l \in {0, 1} : Write(p, l) \in MainWrites
    BY DEF MainWrites, PinLevels, PIN_LOW, PIN_HIGH
  <1>2. "EN" \in Pins /\ "PWM" \in Pins /\ "DIR" \in Pins
    BY DEF Pins, MotorPins
  <1>3. CASE dir = 0
    BY <1>1, <1>2, <1>3 DEF drv_stepMotor_ctrl
  <1>4. CASE dir = 1
    BY <1>1, <1>2, <1>4 DEF drv_stepMotor_ctrl
  <1>5. QED
    BY <1>3, <1>4

(* turn() writes known pins, and ends with a safe write. *)
LEMMA TurnFacts ==
  ASSUME NEW a \in {0, 1}
  PROVE  /\ turn(a) \in Seq(MainWrites)
         /\ turn(a) # <<>>
         /\ turn(a)[Len(turn(a))] \in SafeWrites
  <1> DEFINE level == IF a = 1 THEN PIN_LOW ELSE PIN_HIGH
             leds == <<Write("LED1", level), Write("LED2", level),
                       Write("LED3", level), Write("LED4", level)>>
             motor == drv_stepMotor_ctrl(a)
  <1>1. turn(a) = leds \o motor
    BY DEF turn
  <1>2. leds \in Seq(MainWrites) /\ Len(leds) = 4
    <2>1. level \in PinLevels
      BY DEF PinLevels
    <2>2. {"LED1", "LED2", "LED3", "LED4"} \subseteq Pins
      BY DEF Pins, LEDS
    <2>3. \A p \in Pins : Write(p, level) \in MainWrites
      BY <2>1 DEF MainWrites
    <2>4. QED
      BY <2>2, <2>3
  <1>3. motor \in Seq(MainWrites) /\ Len(motor) \in {2, 3} /\ motor[Len(motor)] \in SafeWrites
    BY CtrlFacts DEF SafeWrites
  <1> HIDE DEF leds, motor
  <1>4. /\ leds \o motor \in Seq(MainWrites)
        /\ Len(leds \o motor) = Len(leds) + Len(motor)
        /\ \A i \in 1 .. Len(leds) + Len(motor) :
             (leds \o motor)[i] = IF i <= Len(leds) THEN leds[i] ELSE motor[i - Len(leds)]
    BY <1>2, <1>3, ConcatProperties
  <1>5. (leds \o motor)[4 + Len(motor)] = motor[Len(motor)]
    BY <1>2, <1>3, <1>4
  <1>6. leds \o motor # <<>>
    BY <1>2, <1>3, <1>4
  <1>7. QED
    BY <1>1, <1>2, <1>3, <1>4, <1>5, <1>6

(* A whole call of drv_stepMotor_ctrl() stops or starts the motor and      *)
(* touches nothing else.                                                   *)
LEMMA WrittenFacts ==
  ASSUME TypeOK, NEW dir \in {0, 1}
  PROVE  LET w == Written(drv_stepMotor_ctrl(dir))
         IN  /\ w \in [Pins -> PinLevels]
             /\ dir = 0 => w["PWM"] = 0 /\ w["EN"] = 1
             /\ dir = 1 => w["PWM"] = 1 /\ w["EN"] = 0
  <1> DEFINE c == drv_stepMotor_ctrl(dir)
             at(p) == CHOOSE i \in DOMAIN c : c[i].pin = p
  <1>1. c \in Seq(MainWrites) /\ DOMAIN c = 1..Len(c)
    BY CtrlFacts
  <1>2. \A i \in DOMAIN c : c[i].level \in PinLevels
    <2>1. \A w \in MainWrites : w.level \in PinLevels
      BY DEF MainWrites, Write
    <2>2. QED
      BY <1>1, <2>1
  <1>3. \A p \in Pins : (\E i \in DOMAIN c : c[i].pin = p) => at(p) \in DOMAIN c /\ c[at(p)].pin = p
    OBVIOUS
  <1>4. Written(c) \in [Pins -> PinLevels]
    BY <1>2, <1>3 DEF Written, TypeOK
  <1>5. "EN" \in Pins /\ "PWM" \in Pins
    BY DEF Pins, MotorPins
  <1>6. CASE dir = 0
    <2>1. DOMAIN c = {1, 2} /\ c[1] = Write("PWM", 0) /\ c[2] = Write("EN", 1)
      BY <1>1, <1>6, CtrlFacts
    <2>2. at("PWM") = 1 /\ at("EN") = 2
      BY <2>1, <1>3, <1>5 DEF Write
    <2>3. Written(c)["PWM"] = 0 /\ Written(c)["EN"] = 1
      BY <2>1, <2>2, <1>5 DEF Written, Write
    <2>4. QED
      BY <2>3, <1>4, <1>6
  <1>7. CASE dir = 1
    <2>1. DOMAIN c = {1, 2, 3} /\ c[1] = Write("DIR", 0) /\ c[2] = Write("EN", 0) /\ c[3] = Write("PWM", 1)
      <3>1. Len(c) = 3 /\ c[1] = Write("DIR", 0) /\ c[2] = Write("EN", 0) /\ c[3] = Write("PWM", 1)
        BY <1>7, CtrlFacts
      <3> HIDE DEF c
      <3>2. DOMAIN c = 1..3
        BY <1>1, <3>1
      <3>3. QED
        BY <3>1, <3>2
    <2>2. at("PWM") = 3 /\ at("EN") = 2
      <3>1. c[1].pin = "DIR" /\ c[2].pin = "EN" /\ c[3].pin = "PWM"
        BY <2>1 DEF Write
      <3>2. at("PWM") \in {1, 2, 3} /\ c[at("PWM")].pin = "PWM"
        BY <2>1, <3>1, <1>3, <1>5
      <3>3. at("EN") \in {1, 2, 3} /\ c[at("EN")].pin = "EN"
        BY <2>1, <3>1, <1>3, <1>5
      <3> HIDE DEF c, at
      <3>4. QED
        BY <3>1, <3>2, <3>3
    <2>3. Written(c)["PWM"] = 1 /\ Written(c)["EN"] = 0
      BY <2>1, <2>2, <1>5 DEF Written, Write
    <2>4. QED
      BY <2>3, <1>4, <1>7
  <1>8. QED
    BY <1>6, <1>7
-----------------------------------------------------------------------------
(* The invariant *)

LEMMA InitMotorInv == Init => MotorInv
  <1> SUFFICES ASSUME Init PROVE MotorInv
    OBVIOUS
  <1>1. pins \in [Pins -> PinLevels]
    BY DEF Init, init_io_port, PinLevels, PIN_LOW, PIN_HIGH
  <1>2. TypeOK
    BY <1>1 DEF Init, TypeOK
  <1>3. pins["PWM"] = 1
    BY DEF Init, Pins, MotorPins, LEDS
  <1>4. QED
    BY <1>2, <1>3 DEF Init, MotorInv, NotHeldUnderCurrent, LastWriteIsSafe

(* The steps of the main thread that leave the motor alone. *)
LEMMA ThinkMotorInv == MotorInv /\ (Sample \/ Check \/ Fan) => MotorInv'
  <1> SUFFICES ASSUME MotorInv, Sample \/ Check \/ Fan PROVE MotorInv'
    OBVIOUS
  <1>1. pc' # "write" /\ pc # "write" /\ todo' = todo
    BY DEF Sample, Check, Fan
  <1>2. pins' \in [Pins -> PinLevels] /\ pins'["EN"] = pins["EN"] /\ pins'["PWM"] = pins["PWM"]
    <2>1. CASE Fan
      BY <2>1 DEF Fan, MotorInv, TypeOK, PinLevels, Pins, MotorPins
    <2>2. CASE Sample \/ Check
      BY <2>2 DEF Sample, Check, MotorInv, TypeOK
    <2>3. QED
      BY <2>1, <2>2
  <1>3. TypeOK'
    BY <1>1, <1>2 DEF MotorInv, TypeOK, Sample, Check, Fan
  <1>4. QED
    BY <1>1, <1>2, <1>3 DEF MotorInv, NotHeldUnderCurrent, LastWriteIsSafe

LEMMA CallTurnMotorInv == MotorInv /\ CallTurn => MotorInv'
  <1> SUFFICES ASSUME MotorInv, CallTurn PROVE MotorInv'
    OBVIOUS
  <1>1. PICK a \in {0, 1} : todo' = turn(a)
    BY DEF CallTurn
  <1>2. todo' \in Seq(MainWrites) /\ todo' # <<>> /\ todo'[Len(todo')] \in SafeWrites
    BY <1>1, TurnFacts
  <1>3. TypeOK'
    BY <1>2 DEF MotorInv, TypeOK, CallTurn
  <1>4. QED
    BY <1>2, <1>3 DEF MotorInv, NotHeldUnderCurrent, LastWriteIsSafe, SafeWrites, CallTurn

LEMMA WritePinMotorInv == MotorInv /\ WritePin => MotorInv'
  <1> SUFFICES ASSUME MotorInv, WritePin PROVE MotorInv'
    OBVIOUS
  <1>1. /\ pc = "write" /\ todo \in Seq(MainWrites) /\ todo # <<>>
        /\ todo[Len(todo)] \in SafeWrites
    BY DEF MotorInv, TypeOK, LastWriteIsSafe, WritePin
  <1>2. /\ Head(todo) \in MainWrites
        /\ Tail(todo) \in Seq(MainWrites)
        /\ Len(Tail(todo)) = Len(todo) - 1
        /\ \A i \in 1 .. Len(Tail(todo)) : Tail(todo)[i] = todo[i + 1]
    BY <1>1, HeadTailProperties
  <1>3. pins' \in [Pins -> PinLevels]
    <2>1. Head(todo).pin \in Pins /\ Head(todo).level \in PinLevels
      BY <1>2 DEF MainWrites, Write
    <2>2. QED
      BY <2>1 DEF WritePin, MotorInv, TypeOK
  <1>4. todo' = Tail(todo) /\ (pc' = "write" <=> Tail(todo) # <<>>) /\ pc' \in {"sample", "write"}
    BY DEF WritePin
  <1>5. TypeOK'
    BY <1>2, <1>3, <1>4 DEF MotorInv, TypeOK, WritePin
  <1>6. LastWriteIsSafe'
    <2>1. SUFFICES ASSUME Tail(todo) # <<>> PROVE Tail(todo)[Len(Tail(todo))] \in SafeWrites
      BY <1>4 DEF LastWriteIsSafe, SafeWrites
    <2>2. Len(Tail(todo)) \in Nat \ {0} /\ Len(todo) \in Nat
      BY <1>1, <1>2, <2>1, EmptySeq, LenProperties
    <2>3. QED
      BY <1>1, <1>2, <2>2
  <1>7. NotHeldUnderCurrent'
    <2>1. SUFFICES ASSUME Tail(todo) = <<>> PROVE ~(pins'["EN"] = 0 /\ pins'["PWM"] = 0)
      BY <1>4 DEF NotHeldUnderCurrent
    <2>2. Len(todo) = 1
      <3>1. Len(Tail(todo)) = 0
        BY <2>1
      <3>2. Len(todo) \in Nat
        BY <1>1, LenProperties
      <3>3. Len(Tail(todo)) = Len(todo) - 1
        BY <1>2, Zenon
      <3>4. 0 = Len(todo) - 1
        BY <3>1, <3>3, Zenon
      <3>5. QED
        BY <3>2, <3>4
    <2>3. Head(todo) \in SafeWrites
      BY <1>1, <2>2
    <2>4. \/ Head(todo).pin = "EN" /\ Head(todo).level = 1
          \/ Head(todo).pin = "PWM" /\ Head(todo).level = 1
      BY <2>3 DEF SafeWrites, Write
    <2>5. "EN" \in Pins /\ "PWM" \in Pins
      BY DEF Pins, MotorPins
    <2>6. QED
      BY <2>4, <2>5 DEF WritePin, MotorInv, TypeOK
  <1>8. QED
    BY <1>5, <1>6, <1>7 DEF MotorInv

(* What a message leaves of the motor pins. *)
LEMMA HandlerFacts ==
  ASSUME TypeOK, NEW m \in Messages, sub_topic_handle1(m)
  PROVE  /\ pins' \in [Pins -> PinLevels]
         /\ m.step = "stop"  => pins'["PWM"] = 0 /\ pins'["EN"] = 1
         /\ m.step = "start" => pins'["PWM"] = 1 /\ pins'["EN"] = 0
         /\ m.step = "none"  => pins' = pins
         /\ flag_arr' \in {0, 1}
         /\ lt_arr' \in Levels /\ tmp_arr' \in Levels
         /\ UNCHANGED <<flag_led_status, pc, lt, tmp, todo>>
  <1>1. m.step \in {"start", "stop", "none"} /\ m.lt \in Levels /\ m.tmp \in Levels
    BY DEF Messages
  <1>2. flag_arr' \in {0, 1} /\ lt_arr' \in Levels /\ tmp_arr' \in Levels
    BY <1>1 DEF TypeOK, sub_topic_handle1
  <1>3. CASE m.step = "stop"
    <2>1. pins' = Written(drv_stepMotor_ctrl(0))
      BY <1>3 DEF sub_topic_handle1
    <2>2. QED
      BY <1>2, <1>3, <2>1, WrittenFacts DEF sub_topic_handle1
  <1>4. CASE m.step = "start"
    <2>1. pins' = Written(drv_stepMotor_ctrl(1))
      BY <1>4 DEF sub_topic_handle1
    <2>2. QED
      BY <1>2, <1>4, <2>1, WrittenFacts DEF sub_topic_handle1
  <1>5. CASE m.step = "none"
    BY <1>2, <1>5 DEF sub_topic_handle1, TypeOK
  <1>6. QED
    BY <1>1, <1>3, <1>4, <1>5

LEMMA HandlerMotorInv ==
  ASSUME NEW m \in Messages
  PROVE  MotorInv /\ sub_topic_handle1(m) => MotorInv'
  <1> SUFFICES ASSUME MotorInv, sub_topic_handle1(m) PROVE MotorInv'
    OBVIOUS
  <1>1. TypeOK'
    BY HandlerFacts DEF MotorInv, TypeOK
  <1>2. NotHeldUnderCurrent'
    <2>1. m.step \in {"start", "stop", "none"}
      BY DEF Messages
    <2>2. QED
      BY <2>1, HandlerFacts DEF MotorInv, NotHeldUnderCurrent
  <1>3. LastWriteIsSafe'
    BY HandlerFacts DEF MotorInv, LastWriteIsSafe, SafeWrites
  <1>4. QED
    BY <1>1, <1>2, <1>3 DEF MotorInv

LEMMA DoubleClapMotorInv == MotorInv /\ DoubleClap => MotorInv'
  <1> SUFFICES ASSUME MotorInv, DoubleClap PROVE MotorInv'
    OBVIOUS
  <1>1. \A cmd \in {0, 15} : control_led(cmd) \in [LEDS -> PinLevels]
    BY DEF control_led, PinLevels
  <1>2. pins' \in [Pins -> PinLevels] /\ pins'["EN"] = pins["EN"] /\ pins'["PWM"] = pins["PWM"]
    BY <1>1 DEF DoubleClap, MotorInv, TypeOK, Pins, MotorPins, LEDS
  <1>3. TypeOK'
    BY <1>2 DEF MotorInv, TypeOK, DoubleClap
  <1>4. QED
    BY <1>2, <1>3 DEF MotorInv, NotHeldUnderCurrent, LastWriteIsSafe, SafeWrites, DoubleClap

LEMMA StepMotorInv == MotorInv /\ [Next]_vars => MotorInv'
  <1> SUFFICES ASSUME MotorInv, [Next]_vars PROVE MotorInv'
    OBVIOUS
  <1>1. CASE UNCHANGED vars
    BY <1>1 DEF vars, MotorInv, TypeOK, NotHeldUnderCurrent, LastWriteIsSafe
  <1>2. QED
    BY <1>1, ThinkMotorInv, CallTurnMotorInv, WritePinMotorInv, HandlerMotorInv,
       DoubleClapMotorInv DEF Next, Main

(* The station's output state is well-typed and LastWriteIsSafe and        *)
(* NotHeldUnderCurrent hold in every reachable state.                      *)
THEOREM MotorInvariant == Spec => []MotorInv
  BY InitMotorInv, StepMotorInv, PTL DEF Spec

(* main(), sub_topic_handle1() and on_clap_space_timer() keep the outputs, *)
(* flags, thresholds and the pending writes of turn() in their types.      *)
THEOREM ActuatorsTypeCorrect == Spec => []TypeOK
  <1>1. MotorInv => TypeOK
    BY DEF MotorInv
  <1>2. QED
    BY MotorInvariant, <1>1, PTL

(* However main()'s turn() and the handler's drv_stepMotor_ctrl() calls    *)
(* interleave, the motor is never left enabled without a step signal.      *)
THEOREM MotorNeverHeld == Spec => []NotHeldUnderCurrent
  <1>1. MotorInv => NotHeldUnderCurrent
    BY DEF MotorInv
  <1>2. QED
    BY MotorInvariant, <1>1, PTL

-----------------------------------------------------------------------------
(* Orders to halt *)

(* After an order that found it idle the main thread stays outside the     *)
(* block, because only a message can set flag_arr.                         *)
HaltInv ==
  /\ TypeOK
  /\ halted = "idle" => flag_arr = 0 /\ ~Busy /\ ~Rotating

LEMMA HandleHaltInv == HaltInv /\ Handle => HaltInv'
  <1> SUFFICES ASSUME HaltInv, NEW m \in Messages, sub_topic_handle1(m),
                      halted' = CASE m.step = "start" \/ flag_arr' = 1 -> "no"
                                  [] m.step = "stop" /\ flag_arr' = 0  -> IF Busy THEN "busy" ELSE "idle"
                                  [] OTHER                             -> halted
               PROVE  HaltInv'
    BY DEF Handle
  <1>1. TypeOK'
    BY HandlerFacts DEF HaltInv, TypeOK
  <1>2. m.step \in {"start", "stop", "none"} /\ flag_arr' \in {0, 1} /\ pc' = pc
    BY HandlerFacts DEF HaltInv, Messages
  <1>3. CASE m.step = "start" \/ flag_arr' = 1
    BY <1>1, <1>3 DEF HaltInv
  <1>4. CASE m.step = "stop" /\ flag_arr' = 0
    <2>1. ~Rotating'
      BY <1>4, HandlerFacts DEF HaltInv, Rotating
    <2>2. halted' = "idle" => ~Busy'
      BY <1>2, <1>4 DEF Busy
    <2>3. QED
      BY <1>1, <1>4, <2>1, <2>2 DEF HaltInv
  <1>5. CASE m.step = "none" /\ flag_arr' = 0
    <2>1. halted' = halted /\ pins' = pins
      BY <1>5, HandlerFacts DEF HaltInv
    <2>2. QED
      BY <1>1, <1>2, <1>5, <2>1 DEF HaltInv, Busy, Rotating
  <1>6. QED
    BY <1>2, <1>3, <1>4, <1>5

LEMMA OtherHaltInv ==
  MotorInv /\ HaltInv /\ (Main \/ DoubleClap) /\ UNCHANGED halted => HaltInv'
  <1> SUFFICES ASSUME MotorInv, HaltInv, Main \/ DoubleClap, UNCHANGED halted PROVE HaltInv'
    OBVIOUS
  <1>1. TypeOK'
    BY StepMotorInv DEF MotorInv, Next
  <1>2. SUFFICES ASSUME halted = "idle" PROVE flag_arr' = 0 /\ ~Busy' /\ ~Rotating'
    BY <1>1 DEF HaltInv
  <1>3. flag_arr = 0 /\ ~Busy /\ ~Rotating /\ pc \in {"sample", "check"}
    BY <1>2 DEF HaltInv, Busy, TypeOK
  <1>4. CASE Sample
    BY <1>3, <1>4 DEF Sample, Busy, Rotating
  <1>5. CASE Check
    BY <1>3, <1>5 DEF Check, Busy, Rotating
  <1>6. CASE DoubleClap
    <2>1. pins'["EN"] = pins["EN"] /\ pins'["PWM"] = pins["PWM"]
      BY <1>6 DEF DoubleClap, Pins, MotorPins, LEDS
    <2>2. QED
      BY <1>3, <1>6, <2>1 DEF DoubleClap, Busy, Rotating
  <1>7. CASE Fan \/ CallTurn \/ WritePin
    BY <1>3, <1>7 DEF Fan, CallTurn, WritePin
  <1>8. QED
    BY <1>4, <1>5, <1>6, <1>7 DEF Main

(* An order to halt received while main() is outside the block guarded by  *)
(* flag_arr keeps the motor still until a message starts something.        *)
THEOREM HaltAlwaysFinal == HaltSpec => []HaltIsFinal
  <1>1. HaltInit => MotorInv /\ HaltInv
    BY InitMotorInv DEF HaltInit, HaltInv, MotorInv
  <1>2. (MotorInv /\ HaltInv) /\ [HaltNext]_<<vars, halted>> => (MotorInv /\ HaltInv)'
    <2> SUFFICES ASSUME MotorInv, HaltInv, [HaltNext]_<<vars, halted>>
                 PROVE  MotorInv' /\ HaltInv'
      OBVIOUS
    <2>1. CASE Handle
      BY <2>1, HandlerMotorInv, HandleHaltInv DEF Handle
    <2>2. CASE (Main \/ DoubleClap) /\ UNCHANGED halted
      BY <2>2, StepMotorInv, OtherHaltInv DEF Next
    <2>3. CASE UNCHANGED <<vars, halted>>
      <3>1. MotorInv'
        BY <2>3, StepMotorInv
      <3>2. HaltInv'
        BY <2>3 DEF vars, HaltInv, TypeOK, Busy, Rotating
      <3>3. QED
        BY <3>1, <3>2
    <2>4. QED
      BY <2>1, <2>2, <2>3 DEF HaltNext
  <1>3. HaltInv => HaltIsFinal
    BY DEF HaltInv, HaltIsFinal
  <1>4. QED
    BY <1>1, <1>2, <1>3, PTL DEF HaltSpec
=============================================================================
