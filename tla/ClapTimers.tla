----------------------------- MODULE ClapTimers -----------------------------
(***************************************************************************)
(* The clap switch on the kernel's timers: ClapControl with the timer list *)
(* of RtTimer instead of timers that expire by themselves.  The list also  *)
(* holds the timer of a thread ("thread"), which sleeps and is resumed at  *)
(* any time.                                                               *)
(*                                                                         *)
(* left, the checks each timer should still have to run, is a history      *)
(* variable here: nothing but the list decides which callbacks run.        *)
(***************************************************************************)
EXTENDS ClapControl, RtTimer

CONSTANT SleepTimes  \* for how many ticks a thread may sleep

(* RT_ASSERT(time < RT_TICK_MAX / 2) *)
ASSUME SleepAssumption ==
  /\ ClapSpace < TickMax \div 2
  /\ \A time \in SleepTimes : time \in Nat /\ time < TickMax \div 2

VARIABLE kernel  \* the kernel's timers

allVars == <<vars, kernel>>

TimersInit == Init /\ kernel = NoTimers(Timers \cup {"thread"})

InList(t) == \E i \in DOMAIN kernel.list : kernel.list[i] = t

(* The calls of on_soundlevel() when the pulse counts. *)
ClapStarts ==
  LET debounced == rt_timer_start(kernel, "debounce", Debounce)
  IN  rt_timer_start(IF curr_state = LED_IDLE THEN debounced
                     ELSE rt_timer_stop(debounced, "clap_space"), "clap_space", ClapSpace)

(* Mutant: every pulse restarts clap_space_timer. *)
Pulse_RestartsWindow == on_soundlevel /\ kernel' = ClapStarts

Pulse ==
  \/ FirstPulse /\ kernel' = ClapStarts
  \/ BouncePulse /\ kernel' = rt_timer_start(kernel, "debounce", Debounce)

(* SysTick: the tick is counted, ... *)
Tick == rt_tick_increase /\ kernel' = NextTick(kernel)

(* ... and the list is checked.  *)
Check ==
  LET expired == {t \in Timers : \E i \in DOMAIN Expired(kernel) : Expired(kernel)[i] = t}
  IN  /\ late = 1
      /\ late' = 0
      /\ Callbacks(expired)
      /\ kernel' = Unexpired(kernel)
      /\ left' = [t \in Timers |-> IF t \in expired \/ left[t] = 0 THEN 0 ELSE left[t] - 1]

(* rt_thread_sleep() *)
Sleep(time) ==
  /\ late = 0
  /\ ~InList("thread")
  /\ kernel' = rt_timer_start(kernel, "thread", time)
  /\ UNCHANGED vars

(* rt_thread_resume() of the sleeping thread, by another one or by an      *)
(* interrupt.                                                              *)
Resume ==
  /\ InList("thread")
  /\ kernel' = rt_timer_stop(kernel, "thread")
  /\ UNCHANGED vars

Others == on_key1_clicked \/ RequestTaken

TimersNext ==
  \/ Pulse \/ Tick \/ Check \/ Resume
  \/ Others /\ UNCHANGED kernel
  \/ \E time \in SleepTimes : Sleep(time)

TimersSpec == TimersInit /\ [][TimersNext]_allVars

(* The SysTick interrupt keeps coming. *)
FairTimersSpec == TimersSpec /\ WF_allVars(Tick \/ Check)

-----------------------------------------------------------------------------
(* Properties *)

(* How far a timer is from being due, seen from the last tick checked. *)
Distance(t) == Minus(kernel.timeout[t], kernel.tick - late)

(* The list is in the order in which timers are due, across the overflow   *)
(* of rt_tick too, and timers that are due together are in the order of    *)
(* their starts, as the comment in rt_timer_start() wants it.  Otherwise a *)
(* timer that is due would wait behind one that is not.                    *)
ListInOrder ==
  \A i, j \in DOMAIN kernel.list : i < j =>
    LET t == kernel.list[i]
        u == kernel.list[j]
    IN  \/ Distance(t) < Distance(u)
        \/ Distance(t) = Distance(u) /\ <<t, u>> \in kernel.earlier

(* With the kernel's list the clap switch is the one of ClapControl: both  *)
(* callbacks run in exactly the check in which they are due, whatever      *)
(* other timers are in the list and wherever rt_tick overflows.            *)
CallbacksOnTime == Spec
=============================================================================
