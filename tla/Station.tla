------------------------------ MODULE Station -------------------------------
(***************************************************************************)
(* The station from reset on: main() brings up its parts one after the     *)
(* other, while the interrupts it has enabled already come in, and then    *)
(* the two threads of Report run.                                          *)
(*                                                                         *)
(* RT_ASSERT is active (RT_DEBUG, rtconfig.h:27).  A failed one never      *)
(* returns from rt_assert_handler(); in an EXTI handler, whose priority is *)
(* above the SysTick's, it stops the whole station.                        *)
(***************************************************************************)
EXTENDS Report

VARIABLES
  booted,    \* how many steps of BootOrder main() has completed
  returned,  \* TRUE: main() found no light sensor and has returned
  hung       \* TRUE: an assertion has failed in an interrupt handler

stationVars == <<vars, booted, returned, hung>>

(* Mutant: the demo thread is left to the shell command of the same name. *)
BootOrder_NoDemo ==
  <<"init_io_port", "drv_stepMotor_init", "sound_irq", "key_irq", "clap_space_timer",
    "debounce_timer", "fbm320_init", "htu21d_init", "find_device", "fbm320_read_data",
    "drv_stepMotor_ctrl", "mb_create">>

(* Mutant: the timers are created last. *)
BootOrder_TimersLast ==
  <<"init_io_port", "drv_stepMotor_init", "sound_irq", "key_irq", "fbm320_init", "htu21d_init",
    "find_device", "fbm320_read_data", "ka_mqtt", "drv_stepMotor_ctrl", "mb_create",
    "clap_space_timer", "debounce_timer">>

(* What main() does before its loop.  init_int() enables the interrupt of  *)
(* the sound sensor and then that of the key; timer_init() creates         *)
(* clap_space_timer and then debounce_timer.                               *)
BootOrder ==
  <<"init_io_port", "drv_stepMotor_init", "sound_irq", "key_irq", "clap_space_timer",
    "debounce_timer", "fbm320_init", "htu21d_init", "find_device", "fbm320_read_data",
    "ka_mqtt", "drv_stepMotor_ctrl", "mb_create">>

Done(step) == \E i \in 1..booted : BootOrder[i] = step

Booted == booted = Len(BootOrder)

(* Mutant: a demo thread that is more urgent than the main thread. *)
DemoPriority_Urgent == 5

(* Thread priorities, the smaller the more urgent. *)
DemoPriority == 17
MainPriority == 10

StationInit ==
  /\ Init
  /\ booted = 0
  /\ returned = FALSE
  /\ hung = FALSE

(* The next step of main(), which returns when it finds no light sensor. *)
BootStep ==
  /\ ~Booted /\ ~returned
  /\ \/ booted' = booted + 1 /\ UNCHANGED returned
     \/ /\ BootOrder[booted + 1] = "find_device"
        /\ returned' = TRUE
        /\ UNCHANGED booted
  /\ UNCHANGED <<vars, hung>>

main == BootStep \/ (Booted /\ MainThread /\ UNCHANGED <<booted, returned, hung>>)

(* The demo thread runs once ka_mqtt() has started it.  From there to its  *)
(* loop the main thread does not block, so only a more urgent demo thread  *)
(* could overtake it.                                                      *)
kawaii_demo ==
  /\ Done("ka_mqtt")
  /\ Booted \/ DemoPriority < MainPriority
  /\ DemoThread
  /\ UNCHANGED <<booted, returned, hung>>

(* The key, or a double clap. *)
Requested == Done("key_irq") /\ Request /\ UNCHANGED <<booted, returned, hung>>

(* on_soundlevel() starts debounce_timer first, then clap_space_timer:     *)
(* rt_timer_start() asserts that the timer is not RT_NULL.  What a pulse   *)
(* does when both exist is the subject of ClapControl.                     *)
SoundPulse ==
  /\ Done("sound_irq")
  /\ hung' = ~(Done("debounce_timer") /\ Done("clap_space_timer"))
  /\ UNCHANGED <<vars, booted, returned>>

StationNext ==
  \/ ~hung /\ main
  \/ ~hung /\ kawaii_demo
  \/ ~hung /\ Requested
  \/ ~hung /\ SoundPulse

StationSpec == StationInit /\ [][StationNext]_stationVars

(* Both threads keep running: every call they make returns in the end, and *)
(* the threads above them block again after each message.  A hung station  *)
(* runs nothing any more.                                                  *)
StationFairSpec ==
  /\ StationSpec
  /\ WF_stationVars(~hung /\ main)
  /\ WF_stationVars(~hung /\ kawaii_demo)

-----------------------------------------------------------------------------
(* Properties *)

(* The demo thread never receives from a mailbox that is not there yet:    *)
(* main() creates test_mb after it has started the thread, and the         *)
(* priorities (not the thread's delay of 5 s, which bounds nothing) keep   *)
(* rt_mb_recv() from asserting that mb is not RT_NULL.                     *)
MailboxReady == rpc # "connect" => Done("mb_create")

(* A pulse can only hang the station early in main(): once it has started  *)
(* its threads the timers are there, whatever pulses came before.          *)
SafeOnceStarted == hung => ~Done("ka_mqtt")

(* A request is served even when it comes while main() is still starting   *)
(* up, unless the station hangs or main() returns.                         *)
BootRequestServed == [](~hung /\ ~returned) => RequestIsServed

(* What timer.c:418 asserts: rt_timer_start() is only called with a timer. *)
TimerNotNull == ~hung
=============================================================================
