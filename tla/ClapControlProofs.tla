------------------------- MODULE ClapControlProofs --------------------------
(***************************************************************************)
(* The clap switch for every ClapSpace, Debounce and CntMax: its safety    *)
(* invariants, and that it implements the abstract switch of DoubleClap;   *)
(* then the same for the switch on the kernel's timers, for every          *)
(* RT_TICK_MAX and all sleeping times.                                     *)
(*                                                                         *)
(* The four invariants are proved together.  GestureCoherent alone is      *)
(* inductive, but ClapsApart needs GateWillReopen: when the gate is closed *)
(* only the debounce timer can open it, and it must still be running for   *)
(* "elapsed + left >= Debounce" to turn into "elapsed >= Debounce".        *)
(*                                                                         *)
(* The kernel's list is treated for any set of timers (Sound): every       *)
(* operation of RtTimer keeps it sound, and what it does is said with the  *)
(* distances of the timers, without the modulus.  The switch then only     *)
(* adds that its own timers are in the list exactly while ClapControl      *)
(* counts checks for them (TimersInv).                                     *)
(***************************************************************************)
EXTENDS ClapTimers, SequenceTheorems, WellFoundedInduction, TLAPS

IInv == TypeOK /\ GestureCoherent /\ GateWillReopen /\ ClapsApart

-----------------------------------------------------------------------------
(* The helpers *)

(* A start arms exactly the timers it is given, each with its timeout. *)
LEMMA StartedFacts ==
  ASSUME TypeOK, NEW T \in SUBSET Timers
  PROVE  /\ Started(T) \in [Timers -> Nat]
         /\ \A t \in Timers : Started(T)[t] <= Timeout[t] + late
         /\ \A t \in T : Started(T)[t] = Timeout[t] + late
         /\ \A t \in Timers \ T : Started(T)[t] = left[t]
  <1>1. Timeout \in [Timers -> Nat]
    BY ClapAssumption DEF Timeout, Timers
  <1>2. QED
    BY <1>1 DEF Started, TypeOK

(* The capped counter stays in range and a counted clap is never lost. *)
LEMMA SaturatedFacts ==
  ASSUME NEW n \in 0..CntMax
  PROVE  Saturated(n) \in 0..CntMax /\ Saturated(n) > 0
  BY ClapAssumption DEF Saturated

(* control_led() drives every LED pin, whatever the command. *)
LEMMA ControlLedType ==
  \A cmd \in Nat : control_led(cmd) \in [LEDS -> PinLevels]
  BY DEF control_led, PinLevels

-----------------------------------------------------------------------------
(* The inductive invariant *)

LEMMA InitIInv == Init => IInv
  BY ClapAssumption DEF Init, IInv, TypeOK, GestureCoherent, GateWillReopen, ClapsApart,
     init_io_port, PinLevels, PIN_HIGH, LED_IDLE, LED_CLAP, Timers, Timeout

LEMMA FirstPulseIInv == IInv /\ FirstPulse => IInv'
  <1> SUFFICES ASSUME IInv, FirstPulse PROVE IInv'
    OBVIOUS
  <1> DEFINE T == {"debounce", "clap_space"}
  <1>0. late \in {0, 1} /\ late' = late
    BY DEF IInv, TypeOK, FirstPulse
  <1>1. /\ left' \in [Timers -> Nat]
        /\ \A t \in Timers : left'[t] <= Timeout[t] + late
        /\ left'["debounce"] = Debounce + late
        /\ left'["clap_space"] = ClapSpace + late
    BY StartedFacts DEF IInv, FirstPulse, Timers, Timeout
  <1>2. cnt' \in 0..CntMax /\ cnt' > 0
    BY SaturatedFacts DEF IInv, TypeOK, FirstPulse
  <1>3. TypeOK'
    BY <1>0, <1>1, <1>2 DEF IInv, TypeOK, FirstPulse, Timeout, Timers
  <1>4. GestureCoherent'
    BY <1>0, <1>1, <1>2, ClapAssumption DEF GestureCoherent, FirstPulse
  <1>5. GateWillReopen'
    BY <1>0, <1>1, ClapAssumption DEF GateWillReopen
  <1>6. ClapsApart'
    BY <1>0, <1>1, ClapAssumption DEF ClapsApart, Elapsed, FirstPulse
  <1>7. QED
    BY <1>3, <1>4, <1>5, <1>6 DEF IInv

LEMMA BouncePulseIInv == IInv /\ BouncePulse => IInv'
  <1> SUFFICES ASSUME IInv, BouncePulse PROVE IInv'
    OBVIOUS
  <1>0. late \in {0, 1} /\ late' = late
    BY DEF IInv, TypeOK, BouncePulse
  <1>1. /\ left' \in [Timers -> Nat]
        /\ \A t \in Timers : left'[t] <= Timeout[t] + late
        /\ left'["debounce"] = Debounce + late
        /\ left'["clap_space"] = left["clap_space"]
    BY StartedFacts DEF IInv, BouncePulse, Timers, Timeout
  <1>2. TypeOK'
    BY <1>0, <1>1 DEF IInv, TypeOK, BouncePulse, Timeout, Timers
  <1>3. GestureCoherent'
    BY <1>0, <1>1 DEF IInv, GestureCoherent, BouncePulse
  <1>4. GateWillReopen'
    BY <1>0, <1>1, ClapAssumption DEF GateWillReopen
  <1>5. ClapsApart'
    <2>1. left["clap_space"] \in Nat /\ left["clap_space"] <= ClapSpace + late
      BY DEF IInv, TypeOK, Timers, Timeout
    <2>2. QED
      BY <1>0, <1>1, <2>1, ClapAssumption DEF ClapsApart, Elapsed, BouncePulse
  <1>6. QED
    BY <1>2, <1>3, <1>4, <1>5 DEF IInv

LEMMA TickIncreaseIInv == IInv /\ rt_tick_increase => IInv'
  <1> SUFFICES ASSUME IInv, rt_tick_increase PROVE IInv'
    OBVIOUS
  <1>1. left' = left /\ late = 0 /\ late' = 1
    BY DEF rt_tick_increase
  <1>2. \A t \in Timers : left[t] <= Timeout[t] + 1
    BY <1>1, ClapAssumption DEF IInv, TypeOK, Timeout
  <1>3. TypeOK'
    BY <1>1, <1>2 DEF IInv, TypeOK, rt_tick_increase, Timeout
  <1>4. QED
    BY <1>1, <1>3 DEF IInv, GestureCoherent, GateWillReopen, ClapsApart, Elapsed,
       rt_tick_increase

(* What one check does to the two timers. *)
LEMMA TickFacts ==
  ASSUME IInv, rt_timer_check
  PROVE  /\ left' \in [Timers -> Nat]
         /\ \A t \in Timers : left'[t] <= Timeout[t]
         /\ \A t \in Timers : left'[t] = IF left[t] = 0 THEN 0 ELSE left[t] - 1
         /\ \A t \in Timers : left[t] \in Nat /\ left[t] <= Timeout[t] + 1
         /\ late' = 0
  <1>1. \A t \in Timers : left[t] \in Nat /\ left[t] <= Timeout[t] + 1 /\ Timeout[t] \in Nat
    BY ClapAssumption DEF IInv, TypeOK, Timeout, rt_timer_check
  <1>2. left' = [t \in Timers |-> IF left[t] = 0 THEN 0 ELSE left[t] - 1] /\ late' = 0
    BY DEF rt_timer_check
  <1>3. QED
    BY <1>1, <1>2

LEMMA TimerCheckIInv == IInv /\ rt_timer_check => IInv'
  <1> SUFFICES ASSUME IInv, rt_timer_check PROVE IInv'
    OBVIOUS
  <1> DEFINE c == left["clap_space"]
             d == left["debounce"]
  <1>1. /\ c \in Nat /\ c <= ClapSpace + 1
        /\ d \in Nat /\ d <= Debounce + 1
        /\ left'["clap_space"] = IF c = 0 THEN 0 ELSE c - 1
        /\ left'["debounce"] = IF d = 0 THEN 0 ELSE d - 1
    BY TickFacts DEF Timers, Timeout
  <1>2. /\ d = 1 => flag_sound_first_pulse' = 1
        /\ d # 1 => flag_sound_first_pulse' = flag_sound_first_pulse
    BY DEF rt_timer_check, Callbacks, Timers, on_debounce_timer
  <1>3. /\ c = 1 => curr_state' = LED_IDLE /\ cnt' = 0
        /\ c # 1 => curr_state' = curr_state /\ cnt' = cnt
    BY DEF rt_timer_check, Callbacks, Timers, on_clap_space_timer
  <1>4. TypeOK'
    <2>1. /\ left' \in [Timers -> Nat]
          /\ \A t \in Timers : left'[t] <= Timeout'[t] + late'
          /\ late' \in {0, 1}
      BY TickFacts, ClapAssumption DEF Timeout
    <2>2. flag_sound_first_pulse' \in {0, 1}
      BY <1>2 DEF IInv, TypeOK
    <2>3. curr_state' \in {LED_IDLE, LED_CLAP} /\ cnt' \in 0..CntMax
      BY <1>3, ClapAssumption DEF IInv, TypeOK
    <2>4. /\ flag_led_status' \in {0, 15}
          /\ led' \in [LEDS -> PinLevels]
          /\ flag_clap_timer' \in {0, 1}
          /\ flag_clap_send' \in {0, 1}
      <3>1. CASE left["clap_space"] = 1
        <4>1. on_clap_space_timer
          BY <3>1 DEF rt_timer_check, Callbacks, Timers
        <4>2. flag_clap_timer' \in {0, 1} /\ flag_clap_send' \in {0, 1}
          BY <4>1 DEF IInv, TypeOK, on_clap_space_timer
        <4>3. flag_led_status' \in {0, 15} /\ led' \in [LEDS -> PinLevels]
          BY <4>1, ControlLedType DEF IInv, TypeOK, on_clap_space_timer, Shift
        <4>4. QED
          BY <4>2, <4>3
      <3>2. CASE left["clap_space"] # 1
        BY <3>2 DEF IInv, TypeOK, rt_timer_check, Callbacks
      <3>3. QED
        BY <3>1, <3>2
    <2>5. QED
      BY <2>1, <2>2, <2>3, <2>4 DEF TypeOK
  <1>5. GestureCoherent'
    BY <1>1, <1>3 DEF IInv, TypeOK, GestureCoherent, LED_IDLE, LED_CLAP
  <1>6. GateWillReopen'
    BY <1>1, <1>2 DEF IInv, GateWillReopen
  <1>7. ClapsApart'
    <2>1. CASE c = 1
      BY <2>1, <1>3 DEF ClapsApart, LED_IDLE, LED_CLAP
    <2>2. CASE c # 1
      <3>1. SUFFICES ASSUME curr_state = LED_CLAP
                     PROVE  IF flag_sound_first_pulse' = 1
                              THEN Elapsed' >= Debounce
                              ELSE Elapsed' + left'["debounce"] >= Debounce
        BY <2>2, <1>3 DEF ClapsApart
      <3>2. c > 1 /\ Elapsed = ClapSpace - c /\ Elapsed' = ClapSpace - (c - 1)
        BY <3>1, <2>2, <1>1 DEF IInv, GestureCoherent, Elapsed
      <3>3. flag_sound_first_pulse \in {0, 1} /\ (flag_sound_first_pulse = 0 => d > 0)
        BY DEF IInv, TypeOK, GateWillReopen
      <3>4. IF flag_sound_first_pulse = 1 THEN Elapsed >= Debounce
                                          ELSE Elapsed + d >= Debounce
        BY <3>1 DEF IInv, ClapsApart
      <3>5. QED
        BY <3>2, <3>3, <3>4, <1>1, <1>2, ClapAssumption
    <2>3. QED
      BY <2>1, <2>2
  <1>8. QED
    BY <1>4, <1>5, <1>6, <1>7 DEF IInv

(* The request flag is no part of the gesture. *)
LEMMA RequestIInv == IInv /\ (on_key1_clicked \/ RequestTaken) => IInv'
  BY DEF IInv, TypeOK, GestureCoherent, GateWillReopen, ClapsApart, Elapsed, Timeout,
         on_key1_clicked, RequestTaken

LEMMA StutterIInv == IInv /\ UNCHANGED vars => IInv'
  BY DEF IInv, TypeOK, GestureCoherent, GateWillReopen, ClapsApart, Elapsed, Timeout, vars

(* Every reachable state of the clap switch satisfies IInv: each handler,  *)
(* each tick and the demo thread preserve it.                              *)
THEOREM ClapInvariant == Spec => []IInv
  <1>1. IInv /\ [Next]_vars => IInv'
    BY FirstPulseIInv, BouncePulseIInv, TickIncreaseIInv, TimerCheckIInv, RequestIInv, StutterIInv
       DEF Next, on_soundlevel, SysTick
  <1>2. QED
    BY InitIInv, <1>1, PTL DEF Spec

(* The state of on_soundlevel, the timer callbacks and the flags keeps its *)
(* type, and no timer ever has more than its timeout to run, and the check *)
(* that is due.                                                            *)
THEOREM TypeCorrect == Spec => []TypeOK
  <1>1. IInv => TypeOK
    BY DEF IInv
  <1>2. QED
    BY ClapInvariant, <1>1, PTL

(* A gesture is under way exactly while clap_space_timer runs, and exactly *)
(* then claps are counted (main.c:64-99, 117-142).                         *)
THEOREM GestureAlwaysCoherent == Spec => []GestureCoherent
  <1>1. IInv => GestureCoherent
    BY DEF IInv
  <1>2. QED
    BY ClapInvariant, <1>1, PTL

(* The gate that on_soundlevel closes is always about to be reopened by    *)
(* on_debounce_timer.                                                      *)
THEOREM GateAlwaysReopens == Spec => []GateWillReopen
  <1>1. IInv => GateWillReopen
    BY DEF IInv
  <1>2. QED
    BY ClapInvariant, <1>1, PTL

(* Two claps that on_soundlevel counts in one gesture are at least the     *)
(* debounce time apart.                                                    *)
THEOREM ClapsAlwaysApart == Spec => []ClapsApart
  <1>1. IInv => ClapsApart
    BY DEF IInv
  <1>2. QED
    BY ClapInvariant, <1>1, PTL
-----------------------------------------------------------------------------
(* Refinement *)

since == IF left["clap_space"] = 0 THEN 0 ELSE Elapsed

(* A counted pulse is a clap of the abstract switch: the debounce distance *)
(* it asks for is ClapsApart.                                              *)
LEMMA FirstPulseIsClap == IInv /\ FirstPulse => Abs!Clap
  <1> SUFFICES ASSUME IInv, FirstPulse PROVE Abs!Clap
    OBVIOUS
  <1>1. left'["clap_space"] = ClapSpace + late /\ late \in {0, 1}
    BY StartedFacts DEF IInv, TypeOK, FirstPulse, Timers, Timeout
  <1>2. cnt > 0 => since >= Debounce
    <2>1. cnt > 0 => left["clap_space"] > 0 /\ Elapsed >= Debounce
      BY DEF IInv, GestureCoherent, ClapsApart, FirstPulse
    <2>2. QED
      BY <2>1 DEF IInv, TypeOK, Timers, since
  <1>3. since' \in {-1, 0}
    BY <1>1, ClapAssumption DEF since, Elapsed
  <1>4. cnt' = Abs!Saturated(cnt)
    BY DEF FirstPulse, Saturated, Abs!Saturated
  <1>5. QED
    BY <1>2, <1>3, <1>4 DEF Abs!Clap, FirstPulse, since

(* A pulse at a closed gate is invisible. *)
LEMMA BouncePulseIsStutter == IInv /\ BouncePulse => UNCHANGED Abs!vars
  <1> SUFFICES ASSUME IInv, BouncePulse PROVE UNCHANGED Abs!vars
    OBVIOUS
  <1>1. left'["clap_space"] = left["clap_space"]
    BY StartedFacts DEF IInv, BouncePulse, Timers
  <1>2. QED
    BY <1>1 DEF Abs!vars, BouncePulse, Elapsed

(* A check is a tick of the abstract gesture, its end, or, when there is no *)
(* gesture, invisible.                                                     *)
LEMMA TimerCheckImplements ==
  IInv /\ rt_timer_check => Abs!Wait \/ Abs!GestureEnds \/ UNCHANGED Abs!vars
  <1> SUFFICES ASSUME IInv, rt_timer_check
               PROVE  Abs!Wait \/ Abs!GestureEnds \/ UNCHANGED Abs!vars
    OBVIOUS
  <1> DEFINE c == left["clap_space"]
  <1>1. /\ c \in Nat /\ c <= ClapSpace + 1
        /\ left'["clap_space"] = IF c = 0 THEN 0 ELSE c - 1
    BY TickFacts DEF Timers, Timeout
  <1>2. c > 0 <=> cnt > 0
    BY DEF IInv, GestureCoherent
  <1>3. CASE c = 0
    <2>1. UNCHANGED <<cnt, flag_led_status, flag_clap_send>>
      BY <1>3 DEF rt_timer_check, Callbacks, Timers
    <2>2. UNCHANGED since
      BY <1>1, <1>3 DEF since
    <2>3. QED
      BY <2>1, <2>2 DEF Abs!vars, since
  <1>4. CASE c = 1
    <2>1. on_clap_space_timer
      BY <1>4 DEF rt_timer_check, Callbacks, Timers
    <2>2. since + 1 = ClapSpace /\ since' = 0
      BY <1>1, <1>4, ClapAssumption DEF since, Elapsed
    <2>3. cnt > 0 /\ cnt' = 0
      BY <1>2, <1>4, <2>1 DEF on_clap_space_timer
    <2>4. (flag_led_status # 0)' = IF cnt = 2 THEN ~(flag_led_status # 0) ELSE flag_led_status # 0
      BY <2>1 DEF on_clap_space_timer, Shift
    <2>5. (flag_clap_send = 1)' = (cnt = 2 \/ flag_clap_send = 1)
      BY <2>1 DEF on_clap_space_timer
    <2>6. QED
      BY <2>2, <2>3, <2>4, <2>5 DEF Abs!GestureEnds, since
  <1>5. CASE c > 1
    <2>1. UNCHANGED <<cnt, flag_led_status, flag_clap_send>>
      BY <1>5 DEF rt_timer_check, Callbacks, Timers
    <2>2. since + 1 < ClapSpace /\ since' = since + 1
      BY <1>1, <1>5, ClapAssumption DEF since, Elapsed
    <2>3. cnt > 0
      BY <1>1, <1>2, <1>5
    <2>4. UNCHANGED <<cnt, flag_led_status # 0, flag_clap_send = 1>>
      BY <2>1
    <2>5. QED
      BY <2>2, <2>3, <2>4 DEF Abs!Wait, since
  <1>6. QED
    BY <1>1, <1>3, <1>4, <1>5

(* The clap switch built from two timers and four flags implements the     *)
(* abstract double-clap switch (main.c:59-146 against DoubleClap).         *)
THEOREM ClapControlImplementsDoubleClap == Spec => ImplementsDoubleClap
  <1>1. Init => Abs!Init
    <2> SUFFICES ASSUME Init PROVE Abs!Init
      OBVIOUS
    <2>1. cnt = 0 /\ left["clap_space"] = 0
      BY DEF Init, Timers
    <2>2. ~(flag_led_status # 0) /\ ~(flag_clap_send = 1)
      BY DEF Init
    <2>3. QED
      BY <2>1, <2>2, Zenon DEF Abs!Init
  <1>2. IInv /\ [Next]_vars => [Abs!Next]_(Abs!vars)
    <2> SUFFICES ASSUME IInv, [Next]_vars PROVE [Abs!Next]_(Abs!vars)
      OBVIOUS
    <2>1. CASE FirstPulse
      BY <2>1, FirstPulseIsClap DEF Abs!Next
    <2>2. CASE BouncePulse
      BY <2>2, BouncePulseIsStutter
    <2>3. CASE on_key1_clicked
      BY <2>3 DEF on_key1_clicked, Abs!Next, Abs!KeyPressed, Elapsed
    <2>4. CASE SysTick
      <3>1. CASE rt_tick_increase
        BY <3>1 DEF rt_tick_increase, Abs!vars, Elapsed
      <3>2. CASE rt_timer_check
        BY <3>2, TimerCheckImplements DEF Abs!Next
      <3>3. QED
        BY <2>4, <3>1, <3>2 DEF SysTick
    <2>5. CASE RequestTaken
      BY <2>5 DEF RequestTaken, Abs!Next, Abs!RequestTaken, Elapsed
    <2>6. CASE UNCHANGED vars
      BY <2>6 DEF vars, Abs!vars, Elapsed
    <2>7. QED
      BY <2>1, <2>2, <2>3, <2>4, <2>5, <2>6 DEF Next, on_soundlevel
  <1>3. QED
    BY <1>1, <1>2, ClapInvariant, PTL DEF Spec, ImplementsDoubleClap, Abs!Spec

-----------------------------------------------------------------------------
(* The kernel's timers: lists *)

(* The list _timer_list as a sequence: which timers are in it, none of     *)
(* them twice.                                                             *)
Member(s, u) == \E i \in 1..Len(s) : s[i] = u

NoDuplicates(s) == \A i, j \in 1..Len(s) : s[i] = s[j] => i = j

(* Min, which SelectInSeq is built from, is defined by CHOOSE. *)
LEMMA MinIsLeast ==
  ASSUME NEW I \in SUBSET Nat, I # {}
  PROVE  Min(I) \in I /\ \A y \in I : Min(I) <= y
  <1>1. PICK x \in I : \A y \in I : ~(<<y, x>> \in OpToRel(<, Nat))
    BY NatLessThanWellFounded, WFMin
  <1>2. \A y \in I : ~(y < x)
    BY <1>1 DEF OpToRel
  <1>3. \A y \in I : x <= y
    BY <1>2
  <1>4. QED
    BY <1>3 DEF Min

(* Taking a timer out of the list: the others stay, in the same order. *)
LEMMA RemoveFacts ==
  ASSUME NEW S, NEW s \in Seq(S), NoDuplicates(s), NEW t
  PROVE  /\ RemoveFirst(s, t) \in Seq(S)
         /\ NoDuplicates(RemoveFirst(s, t))
         /\ \A u : Member(RemoveFirst(s, t), u) <=> Member(s, u) /\ u # t
         /\ \A i, j \in 1..Len(RemoveFirst(s, t)) : i < j =>
              \E a, b \in 1..Len(s) :
                a < b /\ RemoveFirst(s, t)[i] = s[a] /\ RemoveFirst(s, t)[j] = s[b]
  <1> DEFINE r == RemoveFirst(s, t)
  <1>1. CASE ~Member(s, t)
    <2>1. r = s
      BY <1>1 DEF RemoveFirst, Member
    <2>2. QED
      BY <1>1, <2>1 DEF Member
  <1>2. CASE Member(s, t)
    <2> DEFINE I == {i \in 1..Len(s) : s[i] = t}
               k == Min(I)
    <2>1. k \in 1..Len(s) /\ s[k] = t
      <3>1. I \in SUBSET Nat /\ I # {}
        BY <1>2 DEF Member
      <3>2. QED
        BY <3>1, MinIsLeast
    <2>2. r = RemoveAt(s, k)
      BY <1>2 DEF RemoveFirst, Member, SelectInSeq
    <2> HIDE DEF k, r
    <2>3. /\ r \in Seq(S)
          /\ Len(r) = Len(s) - 1
          /\ \A j \in 1..(Len(s) - 1) : r[j] = IF j < k THEN s[j] ELSE s[j + 1]
      <3> DEFINE A == SubSeq(s, 1, k - 1)
                 B == SubSeq(s, k + 1, Len(s))
      <3>1. A \in Seq(S) /\ Len(A) = k - 1 /\ \A j \in 1..(k - 1) : A[j] = s[j]
        BY <2>1, SubSeqProperties
      <3>2. B \in Seq(S) /\ Len(B) = Len(s) - k /\ \A j \in 1..(Len(s) - k) : B[j] = s[k + j]
        BY <2>1, SubSeqProperties
      <3>3. r = A \o B
        BY <2>2 DEF RemoveAt
      <3> HIDE DEF A, B
      <3>4. r \in Seq(S) /\ Len(r) = Len(s) - 1
        BY <2>1, <3>1, <3>2, <3>3
      <3>5. ASSUME NEW j \in 1..(Len(s) - 1)
            PROVE  r[j] = IF j < k THEN s[j] ELSE s[j + 1]
        <4>1. r[j] = IF j <= k - 1 THEN A[j] ELSE B[j - (k - 1)]
          BY <2>1, <3>1, <3>2, <3>3
        <4>2. CASE j < k
          BY <2>1, <3>1, <4>1, <4>2
        <4>3. CASE j >= k
          <5>1. j - (k - 1) \in 1..(Len(s) - k)
            BY <2>1, <4>3
          <5>2. B[j - (k - 1)] = s[k + (j - (k - 1))]
            BY <3>2, <5>1
          <5>3. k + (j - (k - 1)) = j + 1
            BY <2>1
          <5>4. QED
            BY <2>1, <4>1, <4>3, <5>2, <5>3
        <4>4. QED
          BY <2>1, <4>2, <4>3
      <3>6. QED
        BY <3>4, <3>5
    <2>4. NoDuplicates(r)
      BY <2>1, <2>3 DEF NoDuplicates
    <2>5. \A i, j \in 1..Len(r) : i < j =>
            \E a, b \in 1..Len(s) : a < b /\ r[i] = s[a] /\ r[j] = s[b]
      <3> SUFFICES ASSUME NEW i \in 1..Len(r), NEW j \in 1..Len(r), i < j
                   PROVE  \E a, b \in 1..Len(s) : a < b /\ r[i] = s[a] /\ r[j] = s[b]
        OBVIOUS
      <3> DEFINE a == IF i < k THEN i ELSE i + 1
                 b == IF j < k THEN j ELSE j + 1
      <3>1. a \in 1..Len(s) /\ b \in 1..Len(s) /\ a < b /\ r[i] = s[a] /\ r[j] = s[b]
        BY <2>1, <2>3
      <3>2. QED
        BY <3>1
    <2>6. ASSUME NEW u, Member(r, u)
          PROVE  Member(s, u) /\ u # t
      <3>1. PICK j \in 1..Len(r) : r[j] = u
        BY <2>6 DEF Member
      <3>2. QED
        BY <2>1, <2>3, <3>1 DEF Member, NoDuplicates
    <2>7. ASSUME NEW u, Member(s, u), u # t
          PROVE  Member(r, u)
      <3>1. PICK j \in 1..Len(s) : s[j] = u
        BY <2>7 DEF Member
      <3>2. j # k
        BY <2>1, <2>7, <3>1
      <3> DEFINE i == IF j < k THEN j ELSE j - 1
      <3>3. i \in 1..Len(r) /\ r[i] = u
        BY <2>1, <2>3, <3>1, <3>2
      <3>4. QED
        BY <3>3 DEF Member
    <2>8. QED
      BY <2>3, <2>4, <2>5, <2>6, <2>7 DEF r
  <1>3. QED
    BY <1>1, <1>2

(* The list after the insertion of rt_timer_start(): at the end when no    *)
(* timer of it is due later.                                               *)
Inserted(s, place, t) == IF place = 0 THEN Append(s, t) ELSE InsertAt(s, place, t)

(* Putting a timer in: it comes after those before the place and before    *)
(* the others, whose order stays.                                          *)
LEMMA InsertFacts ==
  ASSUME NEW S, NEW s \in Seq(S), NoDuplicates(s),
         NEW t \in S, ~Member(s, t), NEW place \in 0..Len(s)
  PROVE  /\ Inserted(s, place, t) \in Seq(S)
         /\ NoDuplicates(Inserted(s, place, t))
         /\ \A u : Member(Inserted(s, place, t), u) <=> u = t \/ Member(s, u)
         /\ \A i, j \in 1..Len(Inserted(s, place, t)) : i < j =>
              \/ \E a, b \in 1..Len(s) :
                   a < b /\ Inserted(s, place, t)[i] = s[a] /\ Inserted(s, place, t)[j] = s[b]
              \/ /\ Inserted(s, place, t)[i] = t
                 /\ place # 0
                 /\ \E b \in place..Len(s) : Inserted(s, place, t)[j] = s[b]
              \/ /\ Inserted(s, place, t)[j] = t
                 /\ \E a \in 1..Len(s) : (place = 0 \/ a < place) /\ Inserted(s, place, t)[i] = s[a]
  <1> DEFINE r == Inserted(s, place, t)
             k == IF place = 0 THEN Len(s) + 1 ELSE place
  <1>1. /\ r \in Seq(S)
        /\ Len(r) = Len(s) + 1
        /\ \A j \in 1..(Len(s) + 1) : r[j] = IF j < k THEN s[j] ELSE IF j = k THEN t ELSE s[j - 1]
    <2>1. CASE place = 0
      BY <2>1 DEF Inserted
    <2>2. CASE place # 0
      BY <2>2 DEF Inserted, InsertAt
    <2>3. QED
      BY <2>1, <2>2
  <1>2. k \in 1..(Len(s) + 1) /\ r[k] = t
    BY <1>1
  <1> HIDE DEF r
  <1>3. NoDuplicates(r)
    <2> SUFFICES ASSUME NEW i \in 1..Len(r), NEW j \in 1..Len(r), r[i] = r[j], i < j
                 PROVE  FALSE
      BY <1>1 DEF NoDuplicates
    <2>1. \A l \in 1..Len(s) : s[l] # t
      BY DEF Member
    <2>2. CASE i = k
      <3>1. r[j] = s[j - 1] /\ j - 1 \in 1..Len(s) /\ r[i] = t
        BY <1>1, <1>2, <2>2
      <3>2. QED
        BY <2>1, <3>1
    <2>4. CASE j = k
      <3>1. r[i] = s[i] /\ i \in 1..Len(s) /\ r[j] = t
        BY <1>1, <1>2, <2>4
      <3>2. QED
        BY <2>1, <3>1
    <2>3. CASE i # k /\ j # k
      <3> DEFINE a == IF i < k THEN i ELSE i - 1
                 b == IF j < k THEN j ELSE j - 1
      <3>1. a \in 1..Len(s) /\ b \in 1..Len(s) /\ a < b /\ s[a] = s[b]
        BY <1>1, <2>3
      <3>2. QED
        BY <3>1 DEF NoDuplicates
    <2>5. QED
      BY <2>2, <2>3, <2>4
  <1>4. ASSUME NEW u, Member(r, u), u # t
        PROVE  Member(s, u)
    <2>1. PICK j \in 1..Len(r) : r[j] = u
      BY <1>4 DEF Member
    <2> DEFINE i == IF j < k THEN j ELSE j - 1
    <2>2. i \in 1..Len(s) /\ s[i] = u
      BY <1>1, <1>2, <1>4, <2>1
    <2>3. QED
      BY <2>2 DEF Member
  <1>5. ASSUME NEW u, u = t \/ Member(s, u)
        PROVE  Member(r, u)
    <2>1. CASE u = t
      BY <1>1, <1>2, <2>1 DEF Member
    <2>2. CASE Member(s, u)
      <3>1. PICK j \in 1..Len(s) : s[j] = u
        BY <2>2 DEF Member
      <3> DEFINE i == IF j < k THEN j ELSE j + 1
      <3>2. i \in 1..Len(r) /\ r[i] = u
        BY <1>1, <3>1
      <3>3. QED
        BY <3>2 DEF Member
    <2>3. QED
      BY <1>5, <2>1, <2>2
  <1>6. ASSUME NEW i \in 1..Len(r), NEW j \in 1..Len(r), i < j
        PROVE  \/ \E a, b \in 1..Len(s) : a < b /\ r[i] = s[a] /\ r[j] = s[b]
               \/ r[i] = t /\ place # 0 /\ \E b \in place..Len(s) : r[j] = s[b]
               \/ r[j] = t /\ \E a \in 1..Len(s) : (place = 0 \/ a < place) /\ r[i] = s[a]
    <2>1. CASE i = k
      <3>1. place # 0 /\ j - 1 \in place..Len(s) /\ r[j] = s[j - 1] /\ r[i] = t
        BY <1>1, <1>2, <1>6, <2>1
      <3>2. QED
        BY <3>1
    <2>2. CASE j = k
      BY <1>1, <1>6, <2>2
    <2>3. CASE i # k /\ j # k
      <3> DEFINE a == IF i < k THEN i ELSE i - 1
                 b == IF j < k THEN j ELSE j - 1
      <3>1. a \in 1..Len(s) /\ b \in 1..Len(s) /\ a < b /\ r[i] = s[a] /\ r[j] = s[b]
        BY <1>1, <1>6, <2>3
      <3>2. QED
        BY <3>1
    <2>4. QED
      BY <2>1, <2>2, <2>3
  <1>7. QED
    BY <1>1, <1>3, <1>4, <1>5, <1>6 DEF r

-----------------------------------------------------------------------------
(* The kernel's timers: ticks *)

(* RT_TICK_MAX / 2, beyond which a difference of ticks counts as negative. *)
HalfMax == TickMax \div 2

(* A tick count that has passed RT_TICK_MAX at most once. *)
LEMMA WrappedOnce ==
  ASSUME NEW x \in 0..(2 * TickMax + 1)
  PROVE  x % (TickMax + 1) = IF x <= TickMax THEN x ELSE x - TickMax - 1
  <1>1. TickMax \in Nat
    BY TickAssumption
  <1>2. CASE x <= TickMax
    BY <1>1, <1>2
  <1>3. CASE x > TickMax
    <2> DEFINE N == TickMax + 1
    <2>1. \A y \in N..(2 * N - 1) : y % N = y - N
      BY <1>1
    <2>2. x \in N..(2 * N - 1)
      BY <1>1, <1>3
    <2>3. x - N = x - TickMax - 1 /\ ~(x <= TickMax)
      BY <1>1, <1>3
    <2> HIDE DEF N
    <2>4. x % N = x - N
      BY <2>1, <2>2
    <2>5. QED
      BY <2>3, <2>4 DEF N
  <1>4. QED
    BY <1>1, <1>2, <1>3

(* The difference of two ticks without the modulus; b may be the tick      *)
(* before the first.                                                       *)
LEMMA MinusValue ==
  ASSUME NEW a \in 0..TickMax, NEW b \in (-1)..TickMax
  PROVE  Minus(a, b) = IF a < b THEN a - b + TickMax + 1
                       ELSE IF a - b = TickMax + 1 THEN 0 ELSE a - b
  <1> DEFINE N == TickMax + 1
  <1>1. N \in Nat \ {0}
    BY TickAssumption
  <1>2. a - b \in (-N)..N /\ (a - b = N \/ a - b \in (-N)..(N - 1))
    BY TickAssumption
  <1>3. \A x \in 0..(N - 1) : x % N = x
    BY <1>1
  <1>4. \A x \in (-N)..(-1) : x % N = x + N
    BY <1>1
  <1>5. N % N = 0
    BY <1>1
  <1>6. CASE a < b
    <2>1. a - b \in (-N)..(-1)
      BY <1>2, <1>6, TickAssumption
    <2>2. Minus(a, b) = (a - b) + N
      BY <1>4, <2>1 DEF Minus
    <2>3. QED
      BY <1>6, <2>2, TickAssumption
  <1>7. CASE a - b = N
    BY <1>5, <1>7, TickAssumption DEF Minus
  <1>8. CASE a >= b /\ a - b # N
    <2>1. a - b \in 0..(N - 1)
      BY <1>2, <1>8
    <2>2. QED
      BY <1>3, <1>8, <2>1 DEF Minus
  <1>9. QED
    BY <1>6, <1>7, <1>8

LEMMA MinusType ==
  ASSUME NEW a \in 0..TickMax, NEW b \in (-1)..TickMax
  PROVE  Minus(a, b) \in 0..TickMax
  BY MinusValue, TickAssumption

(* The comparison of rt_timer_start(), which looks at two ticks only,      *)
(* agrees with their distances from any tick c from which both are at most *)
(* HalfMax away: this is where the overflow of rt_tick is harmless.        *)
LEMMA LaterIsFarther ==
  ASSUME NEW a \in 0..TickMax, NEW b \in 0..TickMax, NEW c \in (-1)..TickMax,
         Minus(a, c) <= HalfMax, Minus(b, c) <= HalfMax, Minus(a, c) - Minus(b, c) < HalfMax
  PROVE  /\ Later(a, b) <=> Minus(a, c) >= Minus(b, c)
         /\ a = b <=> Minus(a, c) = Minus(b, c)
  <1> DEFINE Value(x, y) == IF x < y THEN x - y + TickMax + 1
                           ELSE IF x - y = TickMax + 1 THEN 0 ELSE x - y
  <1>1. Minus(a, c) = Value(a, c) /\ Minus(b, c) = Value(b, c)
    BY MinusValue
  <1>2. Minus(a, b) = IF a < b THEN a - b + TickMax + 1 ELSE a - b
    BY MinusValue, TickAssumption
  <1>3. HalfMax \in Nat /\ 2 * HalfMax <= TickMax
    BY TickAssumption DEF HalfMax
  <1>4. TickMax \in Nat
    BY TickAssumption
  <1>5. Later(a, b) <=> Minus(a, b) < HalfMax
    BY DEF Later, HalfMax
  <1> HIDE DEF HalfMax
  <1>6. QED
    BY <1>1, <1>2, <1>3, <1>4, <1>5

-----------------------------------------------------------------------------
(* The kernel's timers: the list stays sound, for every set S of timers *)

(* The type of the kernel's timers. *)
Kernels(S) ==
  [tick : 0..TickMax, list : Seq(S), timeout : [S -> 0..TickMax], earlier : SUBSET (S \X S)]

(* In how many ticks a timer is due, counted from the tick last checked; l *)
(* is 1 between the counting of a tick and its check.                      *)
Due(k, l, t) == Minus(k.timeout[t], k.tick - l)

(* No timer of the list is so far away that "later" could be taken for     *)
(* "earlier".                                                              *)
Near(k, l) == \A i \in 1..Len(k.list) : Due(k, l, k.list[i]) < HalfMax + l

(* ListInOrder, of any kernel. *)
InOrder(k, l) ==
  \A i, j \in 1..Len(k.list) : i < j =>
    \/ Due(k, l, k.list[i]) < Due(k, l, k.list[j])
    \/ Due(k, l, k.list[i]) = Due(k, l, k.list[j]) /\ <<k.list[i], k.list[j]>> \in k.earlier

(* What every operation on the list needs and keeps.  InOrder alone is not *)
(* inductive: without Near the comparison of two ticks means nothing, and  *)
(* with a timer twice in the list a stop would leave one of them there.    *)
Sound(S, k, l) == k \in Kernels(S) /\ NoDuplicates(k.list) /\ Near(k, l) /\ InOrder(k, l)

LEMMA DueType ==
  ASSUME NEW S, NEW k \in Kernels(S), NEW l \in {0, 1}, NEW t \in S
  PROVE  Due(k, l, t) \in 0..TickMax /\ k.tick - l \in (-1)..TickMax
  <1>1. k.timeout[t] \in 0..TickMax /\ k.tick - l \in (-1)..TickMax
    BY TickAssumption DEF Kernels
  <1>2. QED
    BY <1>1, MinusType DEF Due

(* The three assignments that rt_timer_stop() and rt_timer_start() share. *)
Updated(k, t, due, list, earlier) ==
  [k EXCEPT !.timeout[t] = due, !.list = list, !.earlier = earlier]

(* They touch one timeout only. *)
LEMMA UpdateFacts ==
  ASSUME NEW S, NEW k \in Kernels(S), NEW t \in S,
         NEW due \in 0..TickMax, NEW list \in Seq(S), NEW earlier \in SUBSET (S \X S)
  PROVE  /\ Updated(k, t, due, list, earlier) \in Kernels(S)
         /\ Updated(k, t, due, list, earlier).tick = k.tick
         /\ Updated(k, t, due, list, earlier).list = list
         /\ Updated(k, t, due, list, earlier).earlier = earlier
         /\ Updated(k, t, due, list, earlier).timeout[t] = due
         /\ \A u \in S \ {t} :
              Updated(k, t, due, list, earlier).timeout[u] = k.timeout[u]
  BY DEF Kernels, Updated

(* n is k without t: nothing else changes, for no other timer. *)
TakenOut(S, k, l, t, n) ==
  /\ Sound(S, n, l)
  /\ \A u : Member(n.list, u) <=> Member(k.list, u) /\ u # t
  /\ \A u \in S : u # t => Due(n, l, u) = Due(k, l, u)

(* n is k with t due in that many ticks, and nothing else changed. *)
PutIn(S, k, l, t, due, n) ==
  /\ Sound(S, n, l)
  /\ \A u : Member(n.list, u) <=> Member(k.list, u) \/ u = t
  /\ \A u \in S : u # t => Due(n, l, u) = Due(k, l, u)
  /\ Due(n, l, t) = due

(* rt_timer_stop() (timer.c:533-557) takes the timer out, if it is in, and *)
(* keeps the list sound.                                                   *)
LEMMA StopSound ==
  ASSUME NEW S, NEW k, NEW l \in {0, 1}, Sound(S, k, l), NEW t \in S
  PROVE  TakenOut(S, k, l, t, rt_timer_stop(k, t))
  <1> DEFINE n == rt_timer_stop(k, t)
  <1>1. /\ k \in Kernels(S) /\ k.list \in Seq(S) /\ NoDuplicates(k.list) /\ 0 \in 0..TickMax
        /\ Forget(k.earlier, {t}) \in SUBSET (S \X S)
    BY TickAssumption DEF Sound, Kernels, Forget
  <1> DEFINE rest == RemoveFirst(k.list, t)
  <1>2. /\ rest \in Seq(S)
        /\ NoDuplicates(rest)
        /\ \A u : Member(rest, u) <=> Member(k.list, u) /\ u # t
        /\ \A i, j \in 1..Len(rest) : i < j =>
             \E a, b \in 1..Len(k.list) : a < b /\ rest[i] = k.list[a] /\ rest[j] = k.list[b]
    <2> DEFINE list == k.list
    <2>1. list \in Seq(S) /\ NoDuplicates(list)
      BY <1>1
    <2> HIDE DEF list
    <2>2. /\ RemoveFirst(list, t) \in Seq(S)
          /\ NoDuplicates(RemoveFirst(list, t))
          /\ \A u : Member(RemoveFirst(list, t), u) <=> Member(list, u) /\ u # t
          /\ \A i, j \in 1..Len(RemoveFirst(list, t)) : i < j =>
               \E a, b \in 1..Len(list) :
                 a < b /\ RemoveFirst(list, t)[i] = list[a] /\ RemoveFirst(list, t)[j] = list[b]
      BY <2>1, RemoveFacts
    <2>3. QED
      BY <2>2 DEF list
  <1>3. n = Updated(k, t, 0, rest, Forget(k.earlier, {t}))
    BY DEF rt_timer_stop, Updated
  <1> HIDE DEF n, rest
  <1>4. /\ n \in Kernels(S)
        /\ n.tick = k.tick
        /\ n.list = rest
        /\ n.earlier = Forget(k.earlier, {t})
        /\ \A u \in S \ {t} : n.timeout[u] = k.timeout[u]
    <2> DEFINE pairs == Forget(k.earlier, {t})
    <2>1. /\ k \in Kernels(S) /\ 0 \in 0..TickMax /\ rest \in Seq(S) /\ pairs \in SUBSET (S \X S)
          /\ n = Updated(k, t, 0, rest, pairs)
      BY <1>1, <1>2, <1>3
    <2> HIDE DEF pairs
    <2>2. /\ n \in Kernels(S) /\ n.tick = k.tick /\ n.list = rest /\ n.earlier = pairs
          /\ \A u \in S \ {t} : n.timeout[u] = k.timeout[u]
      BY <2>1, UpdateFacts
    <2>3. QED
      BY <2>2 DEF pairs
  <1>5. \A u \in S : u # t => Due(n, l, u) = Due(k, l, u)
    BY <1>4 DEF Due
  <1> HIDE DEF n
  <1>6. /\ n.list \in Seq(S) /\ NoDuplicates(n.list)
        /\ \A u : Member(n.list, u) <=> Member(k.list, u) /\ u # t
    BY <1>2, <1>4
  <1>7. \A i \in 1..Len(n.list) : n.list[i] \in S /\ n.list[i] # t /\ Member(k.list, n.list[i])
    <2> SUFFICES ASSUME NEW i \in 1..Len(n.list)
                 PROVE  n.list[i] \in S /\ n.list[i] # t /\ Member(k.list, n.list[i])
      OBVIOUS
    <2>1. Member(n.list, n.list[i])
      BY DEF Member
    <2>2. n.list[i] \in S
      BY <1>6
    <2>3. QED
      BY <1>6, <2>1, <2>2
  <1>8. Near(n, l)
    BY <1>5, <1>7 DEF Near, Member, Sound
  <1>9. InOrder(n, l)
    <2> SUFFICES ASSUME NEW i \in 1..Len(n.list), NEW j \in 1..Len(n.list), i < j
                 PROVE  \/ Due(n, l, n.list[i]) < Due(n, l, n.list[j])
                        \/ /\ Due(n, l, n.list[i]) = Due(n, l, n.list[j])
                           /\ <<n.list[i], n.list[j]>> \in n.earlier
      BY DEF InOrder
    <2>1. PICK a, b \in 1..Len(k.list) : a < b /\ n.list[i] = k.list[a] /\ n.list[j] = k.list[b]
      BY <1>2, <1>4
    <2>2. QED
      <3>1. n.list[i] # t /\ n.list[j] # t
        BY <1>7
      <3>2. /\ Due(n, l, n.list[i]) = Due(k, l, k.list[a])
            /\ Due(n, l, n.list[j]) = Due(k, l, k.list[b])
        BY <1>5, <1>7, <2>1
      <3>3. \/ Due(k, l, k.list[a]) < Due(k, l, k.list[b])
            \/ /\ Due(k, l, k.list[a]) = Due(k, l, k.list[b])
               /\ <<k.list[a], k.list[b]>> \in k.earlier
        BY <2>1 DEF Sound, InOrder
      <3>4. <<k.list[a], k.list[b]>> \in k.earlier => <<n.list[i], n.list[j]>> \in n.earlier
        BY <1>4, <2>1, <3>1 DEF Forget
      <3>5. QED
        BY <3>2, <3>3, <3>4
  <1>10. QED
    BY <1>4, <1>5, <1>6, <1>8, <1>9 DEF Sound, TakenOut, n

(* The search of rt_timer_start() stops at the first timer that is due     *)
(* strictly later.                                                         *)
LEMMA PlaceFacts ==
  ASSUME NEW S, NEW list \in Seq(S), NEW timeout, NEW due
  PROVE  /\ InsertPlace(list, timeout, due) \in 0..Len(list)
         /\ InsertPlace(list, timeout, due) # 0 =>
              LET u == list[InsertPlace(list, timeout, due)]
              IN  timeout[u] # due /\ Later(timeout[u], due)
         /\ \A i \in 1..Len(list) :
              InsertPlace(list, timeout, due) = 0 \/ i < InsertPlace(list, timeout, due)
                => ~(timeout[list[i]] # due /\ Later(timeout[list[i]], due))
  <1> DEFINE I == {i \in 1..Len(list) : timeout[list[i]] # due /\ Later(timeout[list[i]], due)}
  <1>1. InsertPlace(list, timeout, due) = IF I # {} THEN Min(I) ELSE 0
    BY DEF InsertPlace, SelectInSeq
  <1>2. I \in SUBSET Nat
    OBVIOUS
  <1>3. I # {} => Min(I) \in I /\ \A y \in I : Min(I) <= y
    BY <1>2, MinIsLeast
  <1>4. QED
    <2>1. CASE I = {}
      BY <1>1, <2>1
    <2>2. CASE I # {}
      <3> DEFINE p == InsertPlace(list, timeout, due)
      <3>1. p \in I /\ \A y \in I : p <= y
        BY <1>1, <1>3, <2>2
      <3> HIDE DEF p
      <3>2. p \in 1..Len(list) /\ timeout[list[p]] # due /\ Later(timeout[list[p]], due)
        BY <3>1
      <3>3. \A i \in 1..Len(list) : i < p => i \notin I
        BY <3>1, <3>2
      <3>4. QED
        BY <3>2, <3>3 DEF p
    <2>3. QED
      BY <2>1, <2>2

(* rt_timer_start() puts the timer in, whether it was running or not, with *)
(* the time it was given, and keeps the list sound: both the order of the  *)
(* due ticks and, among equal ones, that of the starts.                    *)
LEMMA StartSound ==
  ASSUME NEW S, NEW k, NEW l \in {0, 1}, Sound(S, k, l),
         NEW t \in S, NEW time \in Nat, time < HalfMax
  PROVE  PutIn(S, k, l, t, time + l, rt_timer_start(k, t, time))
  <1> DEFINE n == rt_timer_start(k, t, time)
             due == (k.tick + time) % (TickMax + 1)
             others == RemoveFirst(k.list, t)
             place == InsertPlace(others, k.timeout, due)
  <1>1. k \in Kernels(S) /\ k.list \in Seq(S) /\ NoDuplicates(k.list) /\ k.tick \in 0..TickMax
    BY DEF Sound, Kernels
  <1>2. HalfMax \in Nat /\ 2 * HalfMax <= TickMax /\ TickMax \in Nat
    BY TickAssumption DEF HalfMax
  <1> HIDE DEF HalfMax
  <1>3. due = IF k.tick + time <= TickMax THEN k.tick + time
              ELSE (k.tick + time) - TickMax - 1
    <2>1. k.tick + time \in 0..(2 * TickMax + 1)
      BY <1>1, <1>2
    <2>2. QED
      BY <2>1, WrappedOnce
  <1>4. due \in 0..TickMax
    <2>1. k.tick \in Int /\ 0 <= k.tick /\ k.tick <= TickMax /\ time <= TickMax
      BY <1>1, <1>2
    <2> HIDE DEF due
    <2>2. QED
      BY <1>2, <1>3, <2>1
  <1> HIDE DEF due
  <1>5. Minus(due, k.tick - l) = time + l
    <2>1. k.tick - l \in (-1)..TickMax
      BY <1>1, <1>2
    <2>2. Minus(due, k.tick - l) = IF due < k.tick - l THEN due - (k.tick - l) + TickMax + 1
            ELSE IF due - (k.tick - l) = TickMax + 1 THEN 0 ELSE due - (k.tick - l)
      BY <1>4, <2>1, MinusValue
    <2>3. k.tick \in Int /\ TickMax \in Int /\ time + l <= TickMax /\ time + l >= 0 /\ l \in Int
      BY <1>1, <1>2
    <2>4. CASE k.tick + time <= TickMax
      <3>1. due - (k.tick - l) = time + l
        BY <1>3, <2>3, <2>4
      <3>2. QED
        BY <1>4, <2>2, <2>3, <3>1
    <2>5. CASE k.tick + time > TickMax
      <3>1. due - (k.tick - l) = time + l - TickMax - 1
        BY <1>3, <2>3, <2>5
      <3>2. QED
        BY <1>4, <2>2, <2>3, <3>1
    <2>6. QED
      BY <2>3, <2>4, <2>5
  <1>6. n = Updated(k, t, due, Inserted(others, place, t),
                    Forget(k.earlier, {t}) \cup (ToSet(others) \X {t}))
    BY DEF rt_timer_start, Inserted, Updated, due
  <1> HIDE DEF n
  <1>8. /\ others \in Seq(S)
        /\ NoDuplicates(others)
        /\ \A u : Member(others, u) <=> Member(k.list, u) /\ u # t
        /\ \A i, j \in 1..Len(others) : i < j =>
             \E a, b \in 1..Len(k.list) : a < b /\ others[i] = k.list[a] /\ others[j] = k.list[b]
    <2> DEFINE list == k.list
    <2>1. list \in Seq(S) /\ NoDuplicates(list)
      BY <1>1
    <2> HIDE DEF list
    <2>2. /\ RemoveFirst(list, t) \in Seq(S)
          /\ NoDuplicates(RemoveFirst(list, t))
          /\ \A u : Member(RemoveFirst(list, t), u) <=> Member(list, u) /\ u # t
          /\ \A i, j \in 1..Len(RemoveFirst(list, t)) : i < j =>
               \E a, b \in 1..Len(list) :
                 a < b /\ RemoveFirst(list, t)[i] = list[a] /\ RemoveFirst(list, t)[j] = list[b]
      BY <2>1, RemoveFacts
    <2>3. QED
      BY <2>2 DEF list
  <1> HIDE DEF others
  <1>9. /\ place \in 0..Len(others)
        /\ place # 0 => k.timeout[others[place]] # due /\ Later(k.timeout[others[place]], due)
        /\ \A i \in 1..Len(others) : place = 0 \/ i < place =>
             ~(k.timeout[others[i]] # due /\ Later(k.timeout[others[i]], due))
    BY <1>8, PlaceFacts
  <1> HIDE DEF place
  <1> DEFINE new == Inserted(others, place, t)
  <1>10. /\ new \in Seq(S)
         /\ NoDuplicates(new)
         /\ \A u : Member(new, u) <=> u = t \/ Member(others, u)
         /\ \A i, j \in 1..Len(new) : i < j =>
              \/ \E a, b \in 1..Len(others) : a < b /\ new[i] = others[a] /\ new[j] = others[b]
              \/ new[i] = t /\ place # 0 /\ \E b \in place..Len(others) : new[j] = others[b]
              \/ /\ new[j] = t
                 /\ \E a \in 1..Len(others) : (place = 0 \/ a < place) /\ new[i] = others[a]
    <2>1. ~Member(others, t)
      BY <1>8
    <2>2. QED
      BY <1>8, <1>9, <2>1, InsertFacts
  <1> HIDE DEF new
  <1>11. /\ n \in Kernels(S)
         /\ n.tick = k.tick
         /\ n.list = new
         /\ n.earlier = Forget(k.earlier, {t}) \cup (ToSet(others) \X {t})
         /\ n.timeout[t] = due
         /\ \A u \in S \ {t} : n.timeout[u] = k.timeout[u]
    <2>1. ToSet(others) \subseteq S
      BY <1>8 DEF ToSet
    <2>2. Forget(k.earlier, {t}) \cup (ToSet(others) \X {t}) \in SUBSET (S \X S)
      BY <1>1, <2>1 DEF Kernels, Forget
    <2>3. n = Updated(k, t, due, new, Forget(k.earlier, {t}) \cup (ToSet(others) \X {t}))
      BY <1>6 DEF new
    <2>4. QED
      <3> DEFINE pairs == Forget(k.earlier, {t}) \cup (ToSet(others) \X {t})
      <3>1. /\ k \in Kernels(S) /\ new \in Seq(S) /\ pairs \in SUBSET (S \X S)
            /\ n = Updated(k, t, due, new, pairs)
        BY <1>1, <1>10, <2>2, <2>3
      <3> HIDE DEF pairs
      <3>2. /\ n \in Kernels(S) /\ n.tick = k.tick /\ n.list = new /\ n.earlier = pairs
            /\ n.timeout[t] = due /\ \A u \in S \ {t} : n.timeout[u] = k.timeout[u]
        BY <1>4, <3>1, UpdateFacts
      <3>3. QED
        BY <3>2 DEF pairs
  <1>12. \A u \in S : u # t => Due(n, l, u) = Due(k, l, u)
    BY <1>11 DEF Due
  <1>13. Due(n, l, t) = time + l
    BY <1>5, <1>11 DEF Due
  <1>14. \A i \in 1..Len(others) :
           /\ others[i] \in S /\ others[i] # t
           /\ Due(k, l, others[i]) \in 0..TickMax /\ Due(k, l, others[i]) < HalfMax + l
    <2> SUFFICES ASSUME NEW i \in 1..Len(others)
                 PROVE  /\ others[i] \in S /\ others[i] # t
                        /\ Due(k, l, others[i]) \in 0..TickMax /\ Due(k, l, others[i]) < HalfMax + l
      OBVIOUS
    <2>1. others[i] \in S /\ others[i] # t /\ Member(k.list, others[i])
      <3>1. Member(others, others[i])
        BY DEF Member
      <3>2. others[i] \in S
        BY <1>8
      <3>3. QED
        BY <1>8, <3>1, <3>2
    <2>2. QED
      BY <1>1, <2>1, DueType DEF Member, Sound, Near
  <1>15. \A i \in 1..Len(others) :
           /\ Later(k.timeout[others[i]], due) <=> Due(k, l, others[i]) >= time + l
           /\ k.timeout[others[i]] = due <=> Due(k, l, others[i]) = time + l
    <2> SUFFICES ASSUME NEW i \in 1..Len(others)
                 PROVE  /\ Later(k.timeout[others[i]], due) <=> Due(k, l, others[i]) >= time + l
                        /\ k.timeout[others[i]] = due <=> Due(k, l, others[i]) = time + l
      OBVIOUS
    <2>1. k.timeout[others[i]] \in 0..TickMax /\ k.tick - l \in (-1)..TickMax
      BY <1>1, <1>14, DueType DEF Kernels
    <2>2. /\ Minus(k.timeout[others[i]], k.tick - l) = Due(k, l, others[i])
          /\ Due(k, l, others[i]) <= HalfMax
          /\ Due(k, l, others[i]) - (time + l) < HalfMax
          /\ time + l <= HalfMax
      BY <1>2, <1>14 DEF Due
    <2>3. QED
      BY <1>4, <1>5, <2>1, <2>2, LaterIsFarther
  <1>16. Near(n, l)
    <2> SUFFICES ASSUME NEW i \in 1..Len(n.list) PROVE Due(n, l, n.list[i]) < HalfMax + l
      BY DEF Near
    <2>1. CASE n.list[i] = t
      BY <1>2, <1>13, <2>1
    <2>2. CASE n.list[i] # t
      <3>1. PICK a \in 1..Len(others) : others[a] = n.list[i]
        BY <1>10, <1>11, <2>2 DEF Member
      <3>2. QED
        BY <1>12, <1>14, <3>1
    <2>3. QED
      BY <2>1, <2>2
  <1>17. ASSUME NEW a \in 1..Len(others), NEW b \in 1..Len(others), a < b
         PROVE  \/ Due(k, l, others[a]) < Due(k, l, others[b])
                \/ /\ Due(k, l, others[a]) = Due(k, l, others[b])
                   /\ <<others[a], others[b]>> \in n.earlier
    <2>1. PICK i, j \in 1..Len(k.list) : i < j /\ others[a] = k.list[i] /\ others[b] = k.list[j]
      BY <1>8, <1>17
    <2>2. \/ Due(k, l, others[a]) < Due(k, l, others[b])
          \/ /\ Due(k, l, others[a]) = Due(k, l, others[b])
             /\ <<others[a], others[b]>> \in k.earlier
      BY <2>1 DEF Sound, InOrder
    <2>3. others[a] # t /\ others[b] # t
      BY <1>14
    <2>4. <<others[a], others[b]>> \in k.earlier => <<others[a], others[b]>> \in n.earlier
      BY <1>11, <2>3 DEF Forget
    <2>5. QED
      BY <2>2, <2>4
  <1>18. InOrder(n, l)
    <2> SUFFICES ASSUME NEW i \in 1..Len(n.list), NEW j \in 1..Len(n.list), i < j
                 PROVE  \/ Due(n, l, n.list[i]) < Due(n, l, n.list[j])
                        \/ /\ Due(n, l, n.list[i]) = Due(n, l, n.list[j])
                           /\ <<n.list[i], n.list[j]>> \in n.earlier
      BY DEF InOrder
    <2>1. CASE \E a, b \in 1..Len(others) : a < b /\ n.list[i] = others[a] /\ n.list[j] = others[b]
      BY <1>12, <1>14, <1>17, <2>1
    <2>2. ASSUME n.list[i] = t, place # 0, NEW b \in place..Len(others), n.list[j] = others[b]
          PROVE  Due(n, l, n.list[i]) < Due(n, l, n.list[j])
      <3>1. place \in 1..Len(others) /\ b \in 1..Len(others)
        BY <1>9, <2>2
      <3>2. Due(k, l, others[place]) > time + l
        BY <1>2, <1>9, <1>14, <1>15, <2>2, <3>1
      <3>3. Due(k, l, others[b]) >= Due(k, l, others[place])
        <4>1. CASE b = place
          BY <1>14, <3>1, <4>1
        <4>2. CASE place < b
          <5>1. \/ Due(k, l, others[place]) < Due(k, l, others[b])
                \/ Due(k, l, others[place]) = Due(k, l, others[b])
            BY <1>17, <3>1, <4>2
          <5>2. QED
            BY <1>14, <3>1, <5>1
        <4>3. QED
          BY <3>1, <4>1, <4>2
      <3>4. QED
        BY <1>2, <1>12, <1>13, <1>14, <2>2, <3>1, <3>2, <3>3
    <2>3. ASSUME n.list[j] = t, NEW a \in 1..Len(others),
                 place = 0 \/ a < place, n.list[i] = others[a]
          PROVE  \/ Due(n, l, n.list[i]) < Due(n, l, n.list[j])
                 \/ /\ Due(n, l, n.list[i]) = Due(n, l, n.list[j])
                    /\ <<n.list[i], n.list[j]>> \in n.earlier
      <3>1. Due(k, l, others[a]) <= time + l
        <4>1. ~(k.timeout[others[a]] # due /\ Later(k.timeout[others[a]], due))
          BY <1>9, <2>3
        <4>2. Due(k, l, others[a]) \in Int /\ time + l \in Int
          BY <1>14
        <4>3. QED
          BY <1>15, <4>1, <4>2
      <3>2. <<others[a], t>> \in n.earlier
        BY <1>11 DEF ToSet
      <3>3. Due(n, l, others[a]) = Due(k, l, others[a])
        BY <1>12, <1>14
      <3>4. QED
        BY <1>2, <1>13, <1>14, <2>3, <3>1, <3>2, <3>3
    <2>4. \/ \E a, b \in 1..Len(others) : a < b /\ n.list[i] = others[a] /\ n.list[j] = others[b]
          \/ n.list[i] = t /\ place # 0 /\ \E b \in place..Len(others) : n.list[j] = others[b]
          \/ /\ n.list[j] = t
             /\ \E a \in 1..Len(others) : (place = 0 \/ a < place) /\ n.list[i] = others[a]
      BY <1>10, <1>11
    <2>5. QED
      BY <2>1, <2>2, <2>3, <2>4
  <1>19. Sound(S, n, l)
    BY <1>10, <1>11, <1>16, <1>18 DEF Sound
  <1>20. QED
    BY <1>8, <1>10, <1>11, <1>12, <1>13, <1>19 DEF PutIn, n

(* Counting a tick, over RT_TICK_MAX too, moves no timer. *)
LEMMA TickSound ==
  ASSUME NEW S, NEW k, Sound(S, k, 0)
  PROVE  /\ Sound(S, NextTick(k), 1)
         /\ NextTick(k).list = k.list
         /\ \A u \in S : Due(NextTick(k), 1, u) = Due(k, 0, u)
  <1> DEFINE n == NextTick(k)
  <1>1. k \in Kernels(S) /\ k.tick \in 0..TickMax /\ k.list \in Seq(S)
    BY DEF Sound, Kernels
  <1>2. TickMax \in Nat /\ HalfMax \in Int
    BY TickAssumption DEF HalfMax
  <1>3. (k.tick + 1) % (TickMax + 1) = IF k.tick = TickMax THEN 0 ELSE k.tick + 1
    <2> DEFINE N == TickMax + 1
    <2>1. \A x \in 0..(N - 1) : x % N = x
      BY <1>2
    <2>2. N % N = 0
      BY <1>2
    <2>3. CASE k.tick = TickMax
      BY <2>2, <2>3
    <2>4. CASE k.tick # TickMax
      <3>1. k.tick + 1 \in 0..(N - 1)
        BY <1>1, <1>2, <2>4
      <3>2. QED
        BY <2>1, <2>4, <3>1
    <2>5. QED
      BY <2>3, <2>4
  <1>4. /\ n \in Kernels(S)
        /\ n.tick = IF k.tick = TickMax THEN 0 ELSE k.tick + 1
        /\ n.list = k.list /\ n.timeout = k.timeout /\ n.earlier = k.earlier
    <2> DEFINE x == (k.tick + 1) % (TickMax + 1)
    <2>1. x \in 0..TickMax /\ x = IF k.tick = TickMax THEN 0 ELSE k.tick + 1
      BY <1>1, <1>2, <1>3
    <2>2. n = [k EXCEPT !.tick = x]
      BY DEF NextTick
    <2> HIDE DEF n, x
    <2>3. /\ n \in Kernels(S) /\ n.tick = x /\ n.list = k.list
          /\ n.timeout = k.timeout /\ n.earlier = k.earlier
      BY <1>1, <2>1, <2>2 DEF Kernels
    <2>4. QED
      BY <2>1, <2>3
  <1> HIDE DEF n
  <1>5. ASSUME NEW u \in S
        PROVE  Due(n, 1, u) = Due(k, 0, u)
    <2> DEFINE x == k.timeout[u]
    <2>1. x \in 0..TickMax
      BY <1>1 DEF Kernels
    <2> HIDE DEF x
    <2>2. Minus(x, k.tick) = IF x < k.tick THEN x - k.tick + TickMax + 1
            ELSE IF x - k.tick = TickMax + 1 THEN 0 ELSE x - k.tick
      BY <1>1, <1>2, <2>1, MinusValue
    <2>3. CASE k.tick = TickMax
      <3>1. Minus(x, -1) = IF x < -1 THEN x - (-1) + TickMax + 1
              ELSE IF x - (-1) = TickMax + 1 THEN 0 ELSE x - (-1)
        <4>1. -1 \in (-1)..TickMax
          BY <1>2
        <4>2. QED
          BY <2>1, <4>1, MinusValue
      <3>2. Minus(x, -1) = Minus(x, k.tick)
        BY <1>2, <2>1, <2>2, <2>3, <3>1
      <3>3. n.tick - 1 = -1 /\ k.tick - 0 = k.tick
        BY <1>1, <1>4, <2>3
      <3>4. QED
        BY <1>4, <3>2, <3>3 DEF Due, x
    <2>4. CASE k.tick # TickMax
      <3>1. n.tick - 1 = k.tick - 0
        BY <1>1, <1>4, <2>4
      <3>2. QED
        BY <1>4, <3>1 DEF Due
    <2>5. QED
      BY <2>3, <2>4
  <1>6. \A i \in 1..Len(k.list) :
          /\ k.list[i] \in S /\ Due(k, 0, k.list[i]) \in Int
          /\ Due(n, 1, k.list[i]) = Due(k, 0, k.list[i])
    <2>1. \A i \in 1..Len(k.list) : k.list[i] \in S
      BY <1>1
    <2>2. \A u \in S : Due(k, 0, u) \in Int
      BY <1>1, DueType
    <2>3. QED
      BY <1>5, <2>1, <2>2
  <1>7. Near(n, 1)
    BY <1>2, <1>4, <1>6 DEF Sound, Near
  <1>8. InOrder(n, 1)
    BY <1>4, <1>6 DEF Sound, InOrder
  <1>9. QED
    BY <1>4, <1>5, <1>7, <1>8 DEF Sound, n

(* rt_timer_check() compares the tick with the timeout: it finds the       *)
(* timers due now or before, provided half the range holds more than one   *)
(* tick.                                                                   *)
LEMMA DueNow ==
  ASSUME NEW S, NEW k \in Kernels(S), NEW u \in S, Due(k, 1, u) <= HalfMax, HalfMax > 1
  PROVE  /\ Later(k.tick, k.timeout[u]) <=> Due(k, 1, u) <= 1
         /\ Due(k, 1, u) > 1 => Due(k, 0, u) = Due(k, 1, u) - 1
  <1> DEFINE x == k.timeout[u]
             tick == k.tick
  <1>1. x \in 0..TickMax /\ tick \in 0..TickMax
    BY DEF Kernels
  <1>2. HalfMax \in Nat /\ 2 * HalfMax <= TickMax /\ TickMax \in Nat
    BY TickAssumption DEF HalfMax
  <1>3. Due(k, 1, u) = Minus(x, tick - 1) /\ Due(k, 0, u) = Minus(x, tick)
    BY <1>1 DEF Due
  <1>4. Later(tick, x) <=> Minus(tick, x) < HalfMax
    BY DEF Later, HalfMax
  <1> HIDE DEF x, tick, HalfMax
  <1>5. tick - 1 \in (-1)..TickMax /\ tick \in (-1)..TickMax /\ x \in (-1)..TickMax
    BY <1>1, <1>2
  <1>6. Minus(x, tick - 1) = IF x < tick - 1 THEN x - (tick - 1) + TickMax + 1
          ELSE IF x - (tick - 1) = TickMax + 1 THEN 0 ELSE x - (tick - 1)
    BY <1>1, <1>5, MinusValue
  <1>7. Minus(x, tick) = IF x < tick THEN x - tick + TickMax + 1
          ELSE IF x - tick = TickMax + 1 THEN 0 ELSE x - tick
    BY <1>1, <1>5, MinusValue
  <1>8. Minus(tick, x) = IF tick < x THEN tick - x + TickMax + 1
          ELSE IF tick - x = TickMax + 1 THEN 0 ELSE tick - x
    BY <1>1, <1>5, MinusValue
  <1>9. Minus(x, tick - 1) <= HalfMax
    BY <1>3
  <1>10. Minus(tick, x) < HalfMax <=> Minus(x, tick - 1) <= 1
    BY <1>1, <1>2, <1>6, <1>8, <1>9
  <1>11. Minus(x, tick - 1) > 1 => Minus(x, tick) = Minus(x, tick - 1) - 1
    BY <1>1, <1>2, <1>6, <1>7, <1>9
  <1>12. QED
    BY <1>3, <1>4, <1>10, <1>11 DEF x, tick

(* In a sound list these are a prefix, so that stopping at the first timer *)
(* that is not due loses none.                                             *)
LEMMA ExpiredFacts ==
  ASSUME NEW S, NEW k, Sound(S, k, 1), HalfMax > 1
  PROVE  /\ Expired(k) \in Seq(S)
         /\ Len(Expired(k)) <= Len(k.list)
         /\ \A i \in 1..Len(Expired(k)) : Expired(k)[i] = k.list[i]
         /\ \A i \in 1..Len(k.list) : Due(k, 1, k.list[i]) <= 1 <=> i <= Len(Expired(k))
  <1> DEFINE list == k.list
             I == {i \in 1..Len(list) : ~Later(k.tick, k.timeout[list[i]])}
             first == IF I # {} THEN Min(I) ELSE 0
             e == Expired(k)
  <1>1. k \in Kernels(S) /\ list \in Seq(S)
    BY DEF Sound, Kernels
  <1>2. HalfMax \in Nat
    BY TickAssumption DEF HalfMax
  <1>3. e = IF first = 0 THEN list ELSE SubSeq(list, 1, first - 1)
    BY DEF Expired, SelectInSeq
  <1>4. \A i \in 1..Len(list) : Due(k, 1, list[i]) \in Int /\ (i \in I <=> Due(k, 1, list[i]) > 1)
    <2> SUFFICES ASSUME NEW i \in 1..Len(list)
                 PROVE  Due(k, 1, list[i]) \in Int /\ (i \in I <=> Due(k, 1, list[i]) > 1)
      OBVIOUS
    <2>1. list[i] \in S
      BY <1>1
    <2>2. Due(k, 1, list[i]) \in Int
      BY <1>1, <2>1, DueType
    <2>3. Due(k, 1, list[i]) <= HalfMax
      BY <1>2, <2>2 DEF Sound, Near
    <2>4. Later(k.tick, k.timeout[list[i]]) <=> Due(k, 1, list[i]) <= 1
      BY <1>1, <2>1, <2>3, DueNow
    <2>5. QED
      BY <2>2, <2>4
  <1>5. \A i, j \in 1..Len(list) : i < j => Due(k, 1, list[i]) <= Due(k, 1, list[j])
    <2> SUFFICES ASSUME NEW i \in 1..Len(list), NEW j \in 1..Len(list), i < j
                 PROVE  Due(k, 1, list[i]) <= Due(k, 1, list[j])
      OBVIOUS
    <2>1. Due(k, 1, list[i]) < Due(k, 1, list[j]) \/ Due(k, 1, list[i]) = Due(k, 1, list[j])
      BY DEF Sound, InOrder
    <2>2. QED
      BY <1>4, <2>1
  <1>6. I # {} => first \in I /\ \A i \in I : first <= i
    <2>1. I \in SUBSET Nat
      OBVIOUS
    <2>2. QED
      BY <2>1, MinIsLeast
  <1>7. I = {} => first = 0
    OBVIOUS
  <1>8. I \subseteq 1..Len(list)
    OBVIOUS
  <1> HIDE DEF I, first, e, list
  <1>9. CASE I = {}
    <2>1. e = list
      BY <1>3, <1>7, <1>9
    <2>2. \A i \in 1..Len(list) : Due(k, 1, list[i]) <= 1
      BY <1>4, <1>9
    <2>3. QED
      BY <1>1, <2>1, <2>2 DEF e, list
  <1>10. CASE I # {}
    <2>1. first \in I /\ first \in 1..Len(list) /\ \A i \in I : first <= i
      BY <1>6, <1>8, <1>10
    <2>2. e = SubSeq(list, 1, first - 1)
      BY <1>3, <2>1
    <2>3. e \in Seq(S) /\ Len(e) = first - 1 /\ \A i \in 1..(first - 1) : e[i] = list[i]
      BY <1>1, <2>1, <2>2, SubSeqProperties
    <2>4. \A i \in 1..Len(list) : Due(k, 1, list[i]) <= 1 <=> i < first
      <3> SUFFICES ASSUME NEW i \in 1..Len(list)
                   PROVE  Due(k, 1, list[i]) <= 1 <=> i < first
        OBVIOUS
      <3>1. CASE i < first
        BY <1>4, <2>1, <3>1
      <3>2. CASE i = first
        BY <1>4, <2>1, <3>2
      <3>3. CASE i > first
        BY <1>4, <1>5, <2>1, <3>3
      <3>4. QED
        BY <2>1, <3>1, <3>2, <3>3
    <2>5. QED
      BY <2>1, <2>3, <2>4 DEF e, list
  <1>11. QED
    BY <1>9, <1>10

(* rt_timer_check() takes out exactly the timers that are due and brings   *)
(* the others one tick closer.                                             *)
LEMMA CheckSound ==
  ASSUME NEW S, NEW k, Sound(S, k, 1), HalfMax > 1
  PROVE  /\ Sound(S, Unexpired(k), 0)
         /\ \A u : Member(Expired(k), u) <=> Member(k.list, u) /\ Due(k, 1, u) <= 1
         /\ \A u : Member(Unexpired(k).list, u) <=> Member(k.list, u) /\ ~(Due(k, 1, u) <= 1)
         /\ \A u : Member(Unexpired(k).list, u) => Due(Unexpired(k), 0, u) = Due(k, 1, u) - 1
  <1> DEFINE n == Unexpired(k)
             list == k.list
             e == Expired(k)
             m == Len(e)
             rest == SubSeq(list, m + 1, Len(list))
             gone == ToSet(e)
             T == [t \in DOMAIN k.timeout |-> IF t \in gone THEN 0 ELSE k.timeout[t]]
             E == Forget(k.earlier, gone)
  <1>1. /\ k \in Kernels(S) /\ list \in Seq(S) /\ NoDuplicates(list)
        /\ \A i \in 1..Len(list) : list[i] \in S
    BY DEF Sound, Kernels
  <1>2. HalfMax \in Nat /\ TickMax \in Nat
    BY TickAssumption DEF HalfMax
  <1>3. /\ e \in Seq(S) /\ m \in Nat /\ m <= Len(list)
        /\ \A i \in 1..m : e[i] = list[i]
        /\ \A i \in 1..Len(list) : Due(k, 1, list[i]) <= 1 <=> i <= m
    BY ExpiredFacts
  <1>4. n = [k EXCEPT !.list = rest, !.timeout = T, !.earlier = E]
    BY DEF Unexpired
  <1>5. gone = {list[i] : i \in 1..m}
    BY <1>3 DEF ToSet
  <1>6. /\ rest \in Seq(S) /\ Len(rest) = Len(list) - m
        /\ \A i \in 1..(Len(list) - m) : rest[i] = list[m + i]
    BY <1>1, <1>3, SubSeqProperties
  <1>7. T \in [S -> 0..TickMax] /\ E \in SUBSET (S \X S) /\ \A u \in S \ gone : T[u] = k.timeout[u]
    BY <1>1, <1>2 DEF Kernels, Forget
  <1> HIDE DEF n, rest, T, gone, m, e
  <1>8. n \in Kernels(S) /\ n.tick = k.tick /\ n.list = rest /\ n.timeout = T /\ n.earlier = E
    <2> HIDE DEF E
    <2>1. QED
      BY <1>1, <1>4, <1>6, <1>7 DEF Kernels
  <1>9. \A i \in (m + 1)..Len(list) :
          /\ list[i] \in S \ gone
          /\ Due(k, 1, list[i]) \in Int /\ Due(k, 1, list[i]) <= HalfMax
          /\ ~(Due(k, 1, list[i]) <= 1)
          /\ Due(n, 0, list[i]) = Due(k, 1, list[i]) - 1
    <2> SUFFICES ASSUME NEW i \in (m + 1)..Len(list)
                 PROVE  /\ list[i] \in S \ gone
                        /\ Due(k, 1, list[i]) \in Int /\ Due(k, 1, list[i]) <= HalfMax
                        /\ ~(Due(k, 1, list[i]) <= 1)
                        /\ Due(n, 0, list[i]) = Due(k, 1, list[i]) - 1
      OBVIOUS
    <2>1. i \in 1..Len(list) /\ i > m
      BY <1>3
    <2>2. list[i] \in S \ gone
      BY <1>1, <1>3, <1>5, <2>1 DEF NoDuplicates
    <2>3. Due(k, 1, list[i]) \in Int
      BY <1>1, <2>1, DueType
    <2>4. Due(k, 1, list[i]) <= HalfMax
      BY <1>2, <2>1, <2>3 DEF Sound, Near
    <2>5. ~(Due(k, 1, list[i]) <= 1)
      BY <1>3, <2>1
    <2>6. Due(k, 0, list[i]) = Due(k, 1, list[i]) - 1
      BY <1>1, <2>2, <2>3, <2>4, <2>5, DueNow
    <2>7. Due(n, 0, list[i]) = Due(k, 0, list[i])
      BY <1>7, <1>8, <2>2 DEF Due
    <2>8. QED
      BY <2>2, <2>3, <2>4, <2>5, <2>6, <2>7
  <1>10. \A i \in 1..Len(rest) :
           m + i \in (m + 1)..Len(list) /\ m + i \in 1..Len(list) /\ rest[i] = list[m + i]
    BY <1>1, <1>3, <1>6
  <1>11. NoDuplicates(rest)
    BY <1>1, <1>3, <1>10 DEF NoDuplicates
  <1>12. Near(n, 0)
    <2> SUFFICES ASSUME NEW i \in 1..Len(rest)
                 PROVE  Due(n, 0, rest[i]) < HalfMax
      BY <1>2, <1>8 DEF Near
    <2> DEFINE x == list[m + i]
    <2>1. Due(k, 1, x) \in Int /\ Due(k, 1, x) <= HalfMax /\ Due(n, 0, x) = Due(k, 1, x) - 1
      BY <1>9, <1>10
    <2>2. rest[i] = x
      BY <1>10
    <2> HIDE DEF x
    <2>3. QED
      BY <1>2, <2>1, <2>2
  <1>13. InOrder(n, 0)
    <2> SUFFICES ASSUME NEW i \in 1..Len(rest), NEW j \in 1..Len(rest), i < j
                 PROVE  \/ Due(n, 0, rest[i]) < Due(n, 0, rest[j])
                        \/ Due(n, 0, rest[i]) = Due(n, 0, rest[j]) /\ <<rest[i], rest[j]>> \in E
      BY <1>8 DEF InOrder
    <2> DEFINE a == m + i
               b == m + j
    <2>1. /\ a \in (m + 1)..Len(list) /\ b \in (m + 1)..Len(list)
          /\ a \in 1..Len(list) /\ b \in 1..Len(list) /\ a < b
          /\ rest[i] = list[a] /\ rest[j] = list[b]
      BY <1>3, <1>10
    <2> HIDE DEF a, b
    <2>2. \/ Due(k, 1, list[a]) < Due(k, 1, list[b])
          \/ Due(k, 1, list[a]) = Due(k, 1, list[b]) /\ <<list[a], list[b]>> \in k.earlier
      BY <2>1 DEF Sound, InOrder
    <2>3. <<list[a], list[b]>> \in k.earlier => <<list[a], list[b]>> \in E
      BY <1>9, <2>1 DEF Forget
    <2>4. QED
      BY <1>9, <2>1, <2>2, <2>3
  <1>14. ASSUME NEW u
         PROVE  /\ Member(e, u) <=> Member(list, u) /\ Due(k, 1, u) <= 1
                /\ Member(rest, u) <=> Member(list, u) /\ ~(Due(k, 1, u) <= 1)
                /\ Member(rest, u) => Due(n, 0, u) = Due(k, 1, u) - 1
    <2>1. ASSUME Member(e, u)
          PROVE  Member(list, u) /\ Due(k, 1, u) <= 1
      <3>1. PICK i \in 1..m : e[i] = u
        BY <2>1 DEF Member, m
      <3>2. i \in 1..Len(list) /\ list[i] = u
        BY <1>1, <1>3, <3>1
      <3>3. QED
        BY <1>3, <3>1, <3>2 DEF Member
    <2>2. ASSUME Member(list, u), Due(k, 1, u) <= 1
          PROVE  Member(e, u)
      <3>1. PICK i \in 1..Len(list) : list[i] = u
        BY <2>2 DEF Member
      <3>2. i \in 1..m /\ e[i] = u
        BY <1>3, <2>2, <3>1
      <3>3. QED
        BY <3>2 DEF Member, m
    <2>3. ASSUME Member(rest, u)
          PROVE  Member(list, u) /\ ~(Due(k, 1, u) <= 1) /\ Due(n, 0, u) = Due(k, 1, u) - 1
      <3>1. PICK i \in 1..Len(rest) : rest[i] = u
        BY <2>3 DEF Member
      <3>2. QED
        BY <1>9, <1>10, <3>1 DEF Member
    <2>4. ASSUME Member(list, u), ~(Due(k, 1, u) <= 1)
          PROVE  Member(rest, u)
      <3>1. PICK i \in 1..Len(list) : list[i] = u
        BY <2>4 DEF Member
      <3>2. i > m
        BY <1>3, <2>4, <3>1
      <3>3. i - m \in 1..Len(rest) /\ rest[i - m] = u
        <4>1. i - m \in 1..Len(rest) /\ m + (i - m) = i
          BY <1>3, <1>6, <3>2
        <4>2. QED
          BY <1>6, <3>1, <4>1
      <3>4. QED
        BY <3>3 DEF Member
    <2>5. QED
      BY <2>1, <2>2, <2>3, <2>4
  <1>15. Sound(S, n, 0)
    BY <1>8, <1>11, <1>12, <1>13 DEF Sound
  <1>16. QED
    BY <1>8, <1>14, <1>15 DEF n, e, list

-----------------------------------------------------------------------------
(* The clap switch on the kernel's timers *)

(* The two timers of the switch and the one of the thread. *)
KernelTimers == Timers \cup {"thread"}

(* The kernel's list and the counters of ClapControl tell the same story:  *)
(* a timer is in the list exactly while it has checks left, and is due in  *)
(* as many ticks.                                                          *)
TimersInv ==
  /\ late \in {0, 1}
  /\ Sound(KernelTimers, kernel, late)
  /\ left \in [Timers -> Nat]
  /\ \A t \in Timers : Member(kernel.list, t) <=> left[t] > 0
  /\ \A t \in Timers : left[t] > 0 => Due(kernel, late, t) = left[t]

(* All timeouts are below half the range, which RT_ASSERT demands, and     *)
(* Debounce < ClapSpace makes it larger than 2.                            *)
LEMMA Timeouts ==
  /\ HalfMax > 1 /\ HalfMax \in Nat
  /\ Debounce \in Nat \ {0} /\ Debounce < HalfMax
  /\ ClapSpace \in Nat \ {0} /\ ClapSpace < HalfMax
  /\ \A time \in SleepTimes : time \in Nat /\ time < HalfMax
  <1>1. HalfMax \in Nat
    BY TickAssumption DEF HalfMax
  <1>2. ClapSpace < HalfMax /\ \A time \in SleepTimes : time \in Nat /\ time < HalfMax
    BY SleepAssumption DEF HalfMax
  <1> HIDE DEF HalfMax
  <1>3. QED
    BY <1>1, <1>2, ClapAssumption

LEMMA InitTimersInv == TimersInit => TimersInv
  <1> SUFFICES ASSUME TimersInit PROVE TimersInv
    OBVIOUS
  <1>1. /\ kernel.list = <<>>
        /\ kernel = [tick |-> 0, list |-> <<>>,
                     timeout |-> [t \in KernelTimers |-> 0], earlier |-> {}]
    BY DEF TimersInit, NoTimers, KernelTimers
  <1>2. Len(kernel.list) = 0 /\ 0 \in 0..TickMax
    BY <1>1, TickAssumption
  <1>3. kernel \in Kernels(KernelTimers)
    BY <1>1, <1>2 DEF Kernels
  <1>4. /\ NoDuplicates(kernel.list) /\ Near(kernel, 0) /\ InOrder(kernel, 0)
        /\ \A t : ~Member(kernel.list, t)
    BY <1>2 DEF NoDuplicates, Near, InOrder, Member
  <1>5. late = 0 /\ left = [t \in Timers |-> 0]
    BY DEF TimersInit, Init
  <1>6. QED
    BY <1>3, <1>4, <1>5 DEF TimersInv, Sound

(* A pulse at the closed gate starts one timer, ... *)
LEMMA BouncePulseTimersInv ==
  TimersInv /\ BouncePulse /\ kernel' = rt_timer_start(kernel, "debounce", Debounce) => TimersInv'
  <1> SUFFICES ASSUME TimersInv, BouncePulse, kernel' = rt_timer_start(kernel, "debounce", Debounce)
               PROVE  TimersInv'
    OBVIOUS
  <1>1. /\ "debounce" \in KernelTimers /\ Timers \subseteq KernelTimers
        /\ late \in {0, 1} /\ Sound(KernelTimers, kernel, late)
    BY DEF KernelTimers, Timers, TimersInv
  <1>2. PutIn(KernelTimers, kernel, late, "debounce", Debounce + late, kernel')
    BY <1>1, Timeouts, StartSound
  <1>3. /\ late' = late
        /\ left' = [t \in Timers |-> IF t = "debounce" THEN Debounce + late ELSE left[t]]
    BY DEF BouncePulse, Started, Timeout
  <1>4. QED
    BY <1>1, <1>2, <1>3, Timeouts DEF TimersInv, PutIn

(* ... a counted one both, stopping clap_space_timer first if a gesture is *)
(* under way.                                                              *)
LEMMA FirstPulseTimersInv == TimersInv /\ FirstPulse /\ kernel' = ClapStarts => TimersInv'
  <1> SUFFICES ASSUME TimersInv, FirstPulse, kernel' = ClapStarts
               PROVE  TimersInv'
    OBVIOUS
  <1> DEFINE debounced == rt_timer_start(kernel, "debounce", Debounce)
             stopped == rt_timer_stop(debounced, "clap_space")
             k == IF curr_state = LED_IDLE THEN debounced ELSE stopped
  <1>1. /\ "debounce" \in KernelTimers /\ "clap_space" \in KernelTimers
        /\ Timers \subseteq KernelTimers
        /\ late \in {0, 1} /\ Sound(KernelTimers, kernel, late)
    BY DEF KernelTimers, Timers, TimersInv
  <1>2. PutIn(KernelTimers, kernel, late, "debounce", Debounce + late, debounced)
    BY <1>1, Timeouts, StartSound
  <1>3. kernel' = rt_timer_start(k, "clap_space", ClapSpace)
    BY DEF ClapStarts
  <1> HIDE DEF debounced
  <1>4. TakenOut(KernelTimers, debounced, late, "clap_space", stopped)
    <2>1. Sound(KernelTimers, debounced, late)
      BY <1>2 DEF PutIn
    <2>2. QED
      BY <1>1, <2>1, StopSound
  <1> HIDE DEF stopped
  <1>5. /\ Sound(KernelTimers, k, late)
        /\ \A u : u # "clap_space" => (Member(k.list, u) <=> Member(kernel.list, u) \/ u = "debounce")
        /\ \A u \in KernelTimers : u # "clap_space" => Due(k, late, u) = Due(debounced, late, u)
    BY <1>2, <1>4 DEF PutIn, TakenOut
  <1> HIDE DEF k
  <1>6. PutIn(KernelTimers, k, late, "clap_space", ClapSpace + late, kernel')
    BY <1>1, <1>3, <1>5, Timeouts, StartSound
  <1>7. /\ late' = late
        /\ left' = [t \in Timers |-> IF t = "debounce" THEN Debounce + late ELSE ClapSpace + late]
    BY DEF FirstPulse, Started, Timeout, Timers
  <1>8. /\ Due(kernel', late, "debounce") = Debounce + late
        /\ Member(kernel'.list, "debounce") /\ Member(kernel'.list, "clap_space")
    BY <1>1, <1>2, <1>5, <1>6 DEF PutIn
  <1>9. QED
    BY <1>1, <1>6, <1>7, <1>8, Timeouts DEF TimersInv, Timers, PutIn

(* A tick only moves the time. *)
LEMMA TickTimersInv == TimersInv /\ Tick => TimersInv'
  <1> SUFFICES ASSUME TimersInv, Tick PROVE TimersInv'
    OBVIOUS
  <1>1. /\ late = 0 /\ late' = 1 /\ left' = left
        /\ kernel' = NextTick(kernel) /\ Timers \subseteq KernelTimers
    BY DEF Tick, rt_tick_increase, KernelTimers
  <1>2. Sound(KernelTimers, kernel, 0)
    BY <1>1 DEF TimersInv
  <1>3. /\ Sound(KernelTimers, kernel', 1) /\ kernel'.list = kernel.list
        /\ \A u \in KernelTimers : Due(kernel', 1, u) = Due(kernel, 0, u)
    BY <1>1, <1>2, TickSound
  <1>4. QED
    BY <1>1, <1>3 DEF TimersInv

(* A check finds exactly the timers of the switch with one check left, ... *)
LEMMA ExpiredTimers ==
  ASSUME TimersInv, late = 1
  PROVE  {t \in Timers : \E i \in DOMAIN Expired(kernel) : Expired(kernel)[i] = t}
           = {t \in Timers : left[t] = 1}
  <1>1. Sound(KernelTimers, kernel, 1)
    BY DEF TimersInv
  <1>2. Expired(kernel) \in Seq(KernelTimers)
    BY <1>1, Timeouts, ExpiredFacts
  <1>3. \A u : Member(Expired(kernel), u) <=> Member(kernel.list, u) /\ Due(kernel, 1, u) <= 1
    BY <1>1, Timeouts, CheckSound
  <1>4. \A t \in Timers : Member(Expired(kernel), t) <=> left[t] = 1
    BY <1>3 DEF TimersInv
  <1>5. \A t : (\E i \in DOMAIN Expired(kernel) : Expired(kernel)[i] = t)
                 <=> Member(Expired(kernel), t)
    BY <1>2 DEF Member
  <1>6. QED
    BY <1>4, <1>5

(* ... and so is the check of ClapControl. *)
LEMMA CheckTimersInv == TimersInv /\ Check => TimersInv' /\ rt_timer_check
  <1> SUFFICES ASSUME TimersInv, Check PROVE TimersInv' /\ rt_timer_check
    OBVIOUS
  <1>1. late = 1 /\ late' = 0 /\ kernel' = Unexpired(kernel) /\ Timers \subseteq KernelTimers
    BY DEF Check, KernelTimers
  <1>2. /\ Callbacks({t \in Timers : left[t] = 1})
        /\ left' = [t \in Timers |->
                      IF t \in {u \in Timers : left[u] = 1} \/ left[t] = 0 THEN 0 ELSE left[t] - 1]
    BY <1>1, ExpiredTimers DEF Check
  <1>3. left' = [t \in Timers |-> IF left[t] = 0 THEN 0 ELSE left[t] - 1]
    BY <1>2 DEF TimersInv
  <1>4. rt_timer_check
    BY <1>1, <1>2, <1>3 DEF rt_timer_check
  <1>5. Sound(KernelTimers, kernel, 1)
    BY <1>1 DEF TimersInv
  <1>6. /\ Sound(KernelTimers, kernel', 0)
        /\ \A u : Member(kernel'.list, u) <=> Member(kernel.list, u) /\ ~(Due(kernel, 1, u) <= 1)
        /\ \A u : Member(kernel'.list, u) => Due(kernel', 0, u) = Due(kernel, 1, u) - 1
    BY <1>1, <1>5, Timeouts, CheckSound
  <1>7. left' \in [Timers -> Nat]
    BY <1>3 DEF TimersInv
  <1>8. ASSUME NEW t \in Timers
        PROVE  /\ Member(kernel'.list, t) <=> left'[t] > 0
               /\ left'[t] > 0 => Due(kernel', 0, t) = left'[t]
    BY <1>1, <1>3, <1>6 DEF TimersInv
  <1>9. QED
    BY <1>1, <1>4, <1>6, <1>7, <1>8 DEF TimersInv

(* The sleeping thread's timer comes and goes beside the two of the switch. *)
LEMMA SleepTimersInv ==
  ASSUME TimersInv, NEW time \in SleepTimes, Sleep(time)
  PROVE  TimersInv'
  <1>1. /\ late' = late /\ left' = left /\ kernel' = rt_timer_start(kernel, "thread", time)
        /\ "thread" \in KernelTimers /\ Timers \subseteq KernelTimers /\ "thread" \notin Timers
    BY DEF Sleep, vars, KernelTimers, Timers
  <1>2. late \in {0, 1} /\ Sound(KernelTimers, kernel, late) /\ time \in Nat /\ time < HalfMax
    BY Timeouts DEF TimersInv
  <1>3. PutIn(KernelTimers, kernel, late, "thread", time + late, kernel')
    BY <1>1, <1>2, StartSound
  <1>4. QED
    BY <1>1, <1>3 DEF TimersInv, PutIn

LEMMA ResumeTimersInv == TimersInv /\ Resume => TimersInv'
  <1> SUFFICES ASSUME TimersInv, Resume PROVE TimersInv'
    OBVIOUS
  <1>1. /\ late' = late /\ left' = left /\ kernel' = rt_timer_stop(kernel, "thread")
        /\ "thread" \in KernelTimers /\ Timers \subseteq KernelTimers /\ "thread" \notin Timers
    BY DEF Resume, vars, KernelTimers, Timers
  <1>2. late \in {0, 1} /\ Sound(KernelTimers, kernel, late)
    BY DEF TimersInv
  <1>3. TakenOut(KernelTimers, kernel, late, "thread", kernel')
    BY <1>1, <1>2, StopSound
  <1>4. QED
    BY <1>1, <1>3 DEF TimersInv, TakenOut

(* The kernel's timer list is sound and agrees with the checks the         *)
(* switch's timers have left, through every start, stop, tick and check    *)
(* (main.c:64-146 on timer.c).                                             *)
THEOREM TimersInvariant == TimersSpec => []TimersInv
  <1>1. TimersInv /\ [TimersNext]_allVars => TimersInv'
    <2> SUFFICES ASSUME TimersInv, [TimersNext]_allVars PROVE TimersInv'
      OBVIOUS
    <2>1. CASE Pulse
      BY <2>1, FirstPulseTimersInv, BouncePulseTimersInv DEF Pulse
    <2>2. CASE Tick \/ Check \/ Resume
      BY <2>2, TickTimersInv, CheckTimersInv, ResumeTimersInv
    <2>3. CASE Others /\ UNCHANGED kernel
      BY <2>3 DEF Others, on_key1_clicked, RequestTaken, TimersInv
    <2>4. CASE \E time \in SleepTimes : Sleep(time)
      BY <2>4, SleepTimersInv
    <2>5. CASE UNCHANGED allVars
      BY <2>5 DEF allVars, vars, TimersInv
    <2>6. QED
      BY <2>1, <2>2, <2>3, <2>4, <2>5 DEF TimersNext
  <1>2. QED
    BY InitTimersInv, <1>1, PTL DEF TimersSpec

(* The list that rt_timer_start() keeps is in the order in which timers    *)
(* are due and, among those, were started, for every RT_TICK_MAX, across   *)
(* its overflow, whatever threads sleep and are resumed.                   *)
THEOREM ListAlwaysInOrder == TimersSpec => []ListInOrder
  <1>1. TimersInv => ListInOrder
    <2> SUFFICES ASSUME TimersInv PROVE ListInOrder
      OBVIOUS
    <2>1. DOMAIN kernel.list = 1..Len(kernel.list)
      BY DEF TimersInv, Sound, Kernels
    <2>2. QED
      BY <2>1 DEF TimersInv, Sound, InOrder, ListInOrder, Distance, Due
  <1>2. QED
    BY TimersInvariant, <1>1, PTL

(* On the kernel's timers the clap switch is the one of ClapControl:       *)
(* rt_timer_check() runs on_debounce_timer and on_clap_space_timer in      *)
(* exactly the check in which they are due.                                *)
THEOREM CallbacksAlwaysOnTime == TimersSpec => CallbacksOnTime
  <1>1. TimersInit => Init
    BY DEF TimersInit
  <1>2. TimersInv /\ [TimersNext]_allVars => [Next]_vars
    <2> SUFFICES ASSUME TimersInv, [TimersNext]_allVars PROVE [Next]_vars
      OBVIOUS
    <2>1. CASE Pulse
      BY <2>1 DEF Pulse, Next, on_soundlevel
    <2>2. CASE Tick
      BY <2>2 DEF Tick, Next, SysTick
    <2>3. CASE Check
      BY <2>3, CheckTimersInv DEF Next, SysTick
    <2>4. CASE Others /\ UNCHANGED kernel
      BY <2>4 DEF Others, Next
    <2>5. CASE Resume \/ \E time \in SleepTimes : Sleep(time)
      BY <2>5 DEF Resume, Sleep
    <2>6. CASE UNCHANGED allVars
      BY <2>6 DEF allVars
    <2>7. QED
      BY <2>1, <2>2, <2>3, <2>4, <2>5, <2>6 DEF TimersNext
  <1>3. QED
    BY <1>1, <1>2, TimersInvariant, PTL DEF TimersSpec, CallbacksOnTime, Spec

(* So everything proved of ClapControl holds of the switch on the kernel's *)
(* timers: its invariants (IInv), and that it is the abstract double-clap  *)
(* switch (main.c:59-146).                                                 *)
THEOREM SwitchOnKernelTimers == TimersSpec => []IInv /\ ImplementsDoubleClap
  BY CallbacksAlwaysOnTime, ClapInvariant, ClapControlImplementsDoubleClap, PTL DEF CallbacksOnTime
=============================================================================
