---------------------------- MODULE ClapControl -----------------------------
(***************************************************************************)
(* The clap switch of applications/main.c: the sound-sensor interrupt      *)
(* (on_soundlevel), the key interrupt (on_key1_clicked) and the two        *)
(* one-shot timers that time a gesture (debounce_timer, clap_space_timer). *)
(*                                                                         *)
(* Every handler is one action.  The timers are hard timers (no            *)
(* RT_TIMER_FLAG_SOFT_TIMER): the SysTick interrupt runs their callbacks   *)
(* in rt_timer_check(), with interrupts disabled.  SysTick has the lowest  *)
(* interrupt priority (drv_common.c:43) and both EXTI lines have priority  *)
(* 5 (drv_gpio.c:430): a pulse may interrupt SysTick after the tick count  *)
(* is raised and before rt_timer_check() looks at the list.  Timers that   *)
(* such a late pulse starts run until one more check.                      *)
(*                                                                         *)
(* A timer is the number of checks it still has to run, 0 when it is not   *)
(* in the timer list (ClapTimers has the list itself).  rt_timer_start()   *)
(* on a running timer removes it first, so a start always re-arms.  Both   *)
(* callbacks may fall on the same tick; they write different variables, so *)
(* their order does not matter.                                            *)
(***************************************************************************)
EXTENDS LedControl

CONSTANTS ClapSpace,  \* timeout of clap_space_timer, 1000 ticks in the code
          Debounce,   \* timeout of debounce_timer, 250 ticks in the code
          CntMax      \* bound: cnt saturates here; the code only asks cnt == 2

ASSUME ClapAssumption ==
  /\ ClapSpace \in Nat
  /\ Debounce \in Nat \ {0}
  /\ Debounce < ClapSpace
  /\ CntMax \in Nat
  /\ CntMax > 2

LED_IDLE == "LED_IDLE"
LED_CLAP == "LED_CLAP"

VARIABLES
  curr_state,              \* LED_IDLE or LED_CLAP: is a gesture under way?
  cnt,                     \* claps counted in this gesture
  flag_sound_first_pulse,  \* 1: the next pulse counts as a clap
  flag_led_status,         \* 0 or 0xf
  flag_clap_timer,         \* set by the timer callback, read by nobody
  flag_clap_send,          \* 1: the demo thread is to send a report
  led,                     \* the levels of the four LED pins
  left,                    \* checks left of each timer, 0: not running
  late                     \* 1: SysTick has counted its tick, not checked yet

vars == <<curr_state, cnt, flag_sound_first_pulse, flag_led_status,
          flag_clap_timer, flag_clap_send, led, left, late>>

Timers == {"clap_space", "debounce"}

Timeout == [t \in Timers |-> IF t = "clap_space" THEN ClapSpace ELSE Debounce]

(* Mutant: a start of a running timer counts from its pending timeout. *)
Started_Accumulates(T) ==
  [t \in Timers |-> IF t \in T THEN left[t] + Timeout[t] + late ELSE left[t]]

(* rt_timer_start on the timers of T. *)
Started(T) == [t \in Timers |-> IF t \in T THEN Timeout[t] + late ELSE left[t]]

(* cnt++, capped. *)
Saturated(n) == IF n < CntMax THEN n + 1 ELSE n

(* The static initialisers, init_io_port() and timer_init(). *)
Init ==
  /\ curr_state = LED_IDLE
  /\ cnt = 0
  /\ flag_sound_first_pulse = 1
  /\ flag_led_status = 0
  /\ flag_clap_timer = 0
  /\ flag_clap_send = 0
  /\ led = init_io_port
  /\ left = [t \in Timers |-> 0]
  /\ late = 0

-----------------------------------------------------------------------------
(* Interrupt handlers *)

(* Mutant: the clap count is raised but the pulse gate is left open. *)
FirstPulse_GateLeftOpen ==
  /\ flag_sound_first_pulse = 1
  /\ cnt' = Saturated(cnt)
  /\ curr_state' = LED_CLAP
  /\ left' = Started({"debounce", "clap_space"})
  /\ UNCHANGED <<flag_sound_first_pulse, flag_led_status, flag_clap_timer, flag_clap_send, led, late>>

(* Mutant: debounce_timer is only started for pulses that do not count. *)
FirstPulse_NoDebounceStart ==
  /\ flag_sound_first_pulse = 1
  /\ cnt' = Saturated(cnt)
  /\ flag_sound_first_pulse' = 0
  /\ curr_state' = LED_CLAP
  /\ left' = Started({"clap_space"})
  /\ UNCHANGED <<flag_led_status, flag_clap_timer, flag_clap_send, led, late>>

(* on_soundlevel() when flag_sound_first_pulse is set: a clap.  In both    *)
(* branches on curr_state clap_space_timer ends up freshly started and     *)
(* curr_state is LED_CLAP.                                                 *)
FirstPulse ==
  /\ flag_sound_first_pulse = 1
  /\ cnt' = Saturated(cnt)
  /\ flag_sound_first_pulse' = 0
  /\ curr_state' = LED_CLAP
  /\ left' = Started({"debounce", "clap_space"})
  /\ UNCHANGED <<flag_led_status, flag_clap_timer, flag_clap_send, led, late>>

(* on_soundlevel() while the gate is closed: only debounce_timer restarts. *)
BouncePulse ==
  /\ flag_sound_first_pulse = 0
  /\ left' = Started({"debounce"})
  /\ UNCHANGED <<curr_state, cnt, flag_sound_first_pulse, flag_led_status,
                 flag_clap_timer, flag_clap_send, led, late>>

on_soundlevel == FirstPulse \/ BouncePulse

on_key1_clicked ==
  /\ flag_clap_send' = 1
  /\ UNCHANGED <<curr_state, cnt, flag_sound_first_pulse, flag_led_status,
                 flag_clap_timer, led, left, late>>

-----------------------------------------------------------------------------
(* Timer callbacks, parts of rt_timer_check below *)

on_debounce_timer == flag_sound_first_pulse' = 1

(* Switch the LED status and the LEDs, as the double-clap branch does. *)
Shift ==
  /\ flag_led_status' = IF flag_led_status # 0 THEN 0 ELSE 15
  /\ led' = control_led(IF flag_led_status # 0 THEN 15 ELSE 0)

(* Mutant: cnt is reset in the double-clap branch only. *)
on_clap_space_timer_KeepsCount ==
  /\ flag_clap_timer' = 1
  /\ curr_state' = LED_IDLE
  /\ \/ /\ cnt = 2
        /\ Shift
        /\ flag_clap_send' = 1
        /\ cnt' = 0
     \/ /\ cnt # 2
        /\ UNCHANGED <<flag_led_status, led, flag_clap_send, cnt>>

(* Mutant: two or more claps switch the LEDs. *)
on_clap_space_timer_AtLeastTwo ==
  /\ flag_clap_timer' = 1
  /\ curr_state' = LED_IDLE
  /\ \/ cnt >= 2 /\ Shift /\ flag_clap_send' = 1
     \/ cnt < 2 /\ UNCHANGED <<flag_led_status, led, flag_clap_send>>
  /\ cnt' = 0

on_clap_space_timer ==
  /\ flag_clap_timer' = 1
  /\ curr_state' = LED_IDLE
  /\ \/ cnt = 2 /\ Shift /\ flag_clap_send' = 1
     \/ cnt # 2 /\ UNCHANGED <<flag_led_status, led, flag_clap_send>>
  /\ cnt' = 0

(* The callbacks of the timers that expire. *)
Callbacks(expired) ==
  /\ \/ "debounce" \in expired /\ on_debounce_timer
     \/ "debounce" \notin expired /\ UNCHANGED flag_sound_first_pulse
  /\ \/ "clap_space" \in expired /\ on_clap_space_timer
     \/ /\ "clap_space" \notin expired
        /\ UNCHANGED <<curr_state, cnt, flag_led_status, flag_clap_timer, flag_clap_send, led>>

(* SysTick_Handler -> rt_tick_increase: the tick is counted, ... *)
rt_tick_increase ==
  /\ late = 0
  /\ late' = 1
  /\ UNCHANGED <<curr_state, cnt, flag_sound_first_pulse, flag_led_status,
                 flag_clap_timer, flag_clap_send, led, left>>

(* ... then rt_timer_check: every running timer comes one check closer;    *)
(* one that reaches its timeout leaves the list and its callback runs.     *)
rt_timer_check ==
  /\ late = 1
  /\ late' = 0
  /\ left' = [t \in Timers |-> IF left[t] = 0 THEN 0 ELSE left[t] - 1]
  /\ Callbacks({t \in Timers : left[t] = 1})

(* kawaii_mqtt_demo() takes the request (main.c:303-304). *)
RequestTaken ==
  /\ late = 0
  /\ flag_clap_send = 1
  /\ flag_clap_send' = 0
  /\ UNCHANGED <<curr_state, cnt, flag_sound_first_pulse, flag_led_status,
                 flag_clap_timer, led, left, late>>

SysTick == rt_tick_increase \/ rt_timer_check

Next == on_soundlevel \/ on_key1_clicked \/ SysTick \/ RequestTaken

Spec == Init /\ [][Next]_vars

(* The SysTick interrupt keeps coming. *)
FairSpec == Spec /\ WF_vars(SysTick)

-----------------------------------------------------------------------------
(* Properties *)

TypeOK ==
  /\ curr_state \in {LED_IDLE, LED_CLAP}
  /\ cnt \in 0..CntMax
  /\ flag_sound_first_pulse \in {0, 1}
  /\ flag_led_status \in {0, 15}
  /\ flag_clap_timer \in {0, 1}
  /\ flag_clap_send \in {0, 1}
  /\ led \in [LEDS -> PinLevels]
  /\ left \in [Timers -> Nat]
  /\ \A t \in Timers : left[t] <= Timeout[t] + late
  /\ late \in {0, 1}

(* The state machine, the count and the timer agree: a gesture is under    *)
(* way exactly while clap_space_timer runs, and exactly then claps have    *)
(* been counted.  If it failed, a gesture could stay open for ever or      *)
(* claps of one gesture could be added to the next.                        *)
GestureCoherent ==
  /\ curr_state = LED_CLAP <=> left["clap_space"] > 0
  /\ curr_state = LED_CLAP <=> cnt > 0

(* The pulse gate is never shut for good: while it is closed the timer     *)
(* that reopens it is running.                                             *)
GateWillReopen == flag_sound_first_pulse = 0 => left["debounce"] > 0

(* Checks since the last clap of the gesture under way; -1 when that clap  *)
(* was late.                                                               *)
Elapsed == ClapSpace - left["clap_space"]

(* Debouncing works: a pulse that could be counted as a further clap of a  *)
(* gesture comes at least Debounce ticks after the clap before it, however *)
(* the pulses and the two timers interleave.                               *)
ClapsApart ==
  curr_state = LED_CLAP =>
    IF flag_sound_first_pulse = 1 THEN Elapsed >= Debounce
                                  ELSE Elapsed + left["debounce"] >= Debounce

(* Ringing noise cannot hold a gesture open: if from some point on no      *)
(* pulse is counted any more (counting one closes the gate), the gesture   *)
(* ends and no other begins, even when uncounted pulses keep coming.       *)
NoiseCannotHoldGesture ==
  (<>[][flag_sound_first_pulse' >= flag_sound_first_pulse]_vars)
    => <>[](curr_state = LED_IDLE)

(* The clap switch implements the abstract double-clap switch: the second  *)
(* clap of a gesture comes no earlier than Debounce ticks after the first, *)
(* the gesture is judged exactly ClapSpace ticks after its last clap, and  *)
(* exactly two claps switch the LED status and request a report.           *)
Abs == INSTANCE DoubleClap WITH
         claps   <- cnt,
         since   <- IF left["clap_space"] = 0 THEN 0 ELSE Elapsed,
         lamp    <- flag_led_status # 0,
         request <- flag_clap_send = 1

ImplementsDoubleClap == Abs!Spec
=============================================================================
