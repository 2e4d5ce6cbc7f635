---------------------------- MODULE Htu21dProofs ----------------------------
(***************************************************************************)
(* For every delay and every pair of conversion times that do not exceed   *)
(* it: a read of the HTU21D that is not overlapped is right, and the main  *)
(* thread never takes a humidity for a temperature.                        *)
(*                                                                         *)
(* AloneIsRight only speaks of the end of a read.  Strengthened to the     *)
(* whole of it (AloneInv), it still needs that a read which starts alone   *)
(* finds no measurement under way that could make the device ignore its    *)
(* command.  That is SomebodyWaits: a measurement under way always ends    *)
(* before the delay of some thread that is still reading.                  *)
(***************************************************************************)
EXTENDS Htu21d, TLAPS

SomebodyWaits ==
  dev.state = "measuring" => \E t \in Threads : reading[t] # "none" /\ dev.left <= wait[t]

AloneInv ==
  \A t \in Threads :
    (reading[t] # "none" /\ alone[t]) =>
      /\ dev.state \in {"measuring", "ready"} /\ dev.kind = reading[t] /\ dev.by = t
      /\ dev.left <= wait[t]
      /\ \A u \in Threads \ {t} : reading[u] = "none"

HtuInv == TypeOK /\ NeverAHumidity /\ SomebodyWaits /\ AloneInv

LEMMA InitHtuInv == Init => HtuInv
  <1> SUFFICES ASSUME Init PROVE HtuInv
    OBVIOUS
  <1>1. dev.state = "idle" /\ dev.kind = "temp" /\ dev.left = 0 /\ dev = Idle
    BY DEF Init, Idle
  <1>2. dev \in [state : {"idle", "measuring", "ready"}, kind : Kinds,
                 by : Threads \cup {Nobody}, left : Nat]
    BY <1>1 DEF Idle, Kinds
  <1>3. dev.left <= Conversion[dev.kind]
    BY <1>1, HtuAssumption DEF Kinds
  <1>4. wait \in [Threads -> 0..Delay]
    BY HtuAssumption DEF Init
  <1>5. TypeOK
    <2>1. second \in BOOLEAN /\ alone \in [Threads -> BOOLEAN]
      BY DEF Init
    <2>2. reading \in [Threads -> Kinds \cup {"none"}] /\ result \in [Threads -> Results]
      BY DEF Init, Results
    <2>3. dev.state = "measuring" <=> dev.left > 0
      BY <1>1
    <2>4. QED
      BY <1>2, <1>3, <1>4, <2>1, <2>2, <2>3 DEF TypeOK
  <1>6. QED
    BY <1>1, <1>5 DEF Init, HtuInv, NeverAHumidity, SomebodyWaits, AloneInv, Threads

LEMMA BeginHtuInv ==
  ASSUME HtuInv, NEW t \in Threads, NEW k \in Kinds, Begin(t, k)
  PROVE  HtuInv'
  <1>1. /\ reading' = [reading EXCEPT ![t] = k] /\ k # "none"
        /\ wait' = [wait EXCEPT ![t] = Delay]
        /\ reading[t] = "none"
    BY DEF Begin, MDelay, Kinds
  <1>2. Conversion[k] \in 1..Delay /\ Delay \in Nat
    BY HtuAssumption
  <1>3. \/ dev' = Measuring(t, k)
        \/ dev.state = "measuring" /\ dev' = dev
    BY DEF Begin
  <1>4. /\ Measuring(t, k).state = "measuring" /\ Measuring(t, k).kind = k
        /\ Measuring(t, k).by = t /\ Measuring(t, k).left = Conversion[k]
    BY DEF Measuring
  <1>5. TypeOK'
    <2>1. /\ dev' \in [state : {"idle", "measuring", "ready"}, kind : Kinds,
                       by : Threads \cup {Nobody}, left : Nat]
          /\ dev'.state = "measuring" <=> dev'.left > 0
          /\ dev'.left <= Conversion[dev'.kind]
      <3>1. CASE dev' = Measuring(t, k)
        BY <3>1, <1>2 DEF Measuring
      <3>2. CASE dev' = dev
        BY <3>2 DEF HtuInv, TypeOK
      <3>3. QED
        BY <1>3, <3>1, <3>2
    <2>2. reading' \in [Threads -> Kinds \cup {"none"}] /\ wait' \in [Threads -> 0..Delay]
      BY <1>1, <1>2 DEF HtuInv, TypeOK
    <2>3. second' \in BOOLEAN /\ result' \in [Threads -> Results] /\ alone' \in [Threads -> BOOLEAN]
      BY DEF HtuInv, TypeOK, Begin
    <2>4. QED
      BY <2>1, <2>2, <2>3 DEF TypeOK
  <1>6. NeverAHumidity'
    BY DEF HtuInv, NeverAHumidity, Begin
  <1>7. SomebodyWaits'
    <2>1. CASE dev' = Measuring(t, k)
      <3>1. reading'[t] # "none" /\ dev'.left <= wait'[t]
        BY <2>1, <1>1, <1>2, <1>4 DEF HtuInv, TypeOK
      <3>2. QED
        BY <3>1 DEF SomebodyWaits
    <2>2. CASE dev.state = "measuring" /\ dev' = dev
      <3>1. PICK u \in Threads : reading[u] # "none" /\ dev.left <= wait[u]
        BY <2>2 DEF HtuInv, SomebodyWaits
      <3>2. u # t /\ reading'[u] = reading[u] /\ wait'[u] = wait[u]
        BY <1>1, <3>1 DEF HtuInv, TypeOK
      <3>3. QED
        BY <2>2, <3>1, <3>2 DEF SomebodyWaits
    <2>3. QED
      BY <1>3, <2>1, <2>2
  <1>8. AloneInv'
    <2>1. SUFFICES ASSUME NEW u \in Threads, reading'[u] # "none", alone'[u]
                   PROVE  /\ dev'.state \in {"measuring", "ready"} /\ dev'.kind = reading'[u]
                          /\ dev'.by = u /\ dev'.left <= wait'[u]
                          /\ \A v \in Threads \ {u} : reading'[v] = "none"
      BY DEF AloneInv
    <2>2. u = t /\ \A v \in Threads : reading[v] = "none"
      BY <2>1 DEF Begin
    <2>3. dev' = Measuring(t, k)
      BY <1>3, <2>2 DEF HtuInv, SomebodyWaits
    <2>4. reading'[t] = k /\ wait'[t] = Delay /\ \A v \in Threads \ {t} : reading'[v] = "none"
      BY <1>1, <2>2 DEF HtuInv, TypeOK
    <2>5. QED
      BY <1>2, <1>4, <2>2, <2>3, <2>4
  <1>9. QED
    BY <1>5, <1>6, <1>7, <1>8 DEF HtuInv

LEMMA FinishHtuInv ==
  ASSUME HtuInv, NEW t \in Threads, Finish(t), second' \in BOOLEAN,
         t = "main" => reading[t] = "temp"
  PROVE  HtuInv'
  <1>1. /\ reading' = [reading EXCEPT ![t] = "none"]
        /\ wait' = wait /\ alone' = alone /\ wait[t] = 0 /\ reading[t] # "none"
        /\ dev' = IF dev.state = "ready" THEN Idle ELSE dev
    BY DEF Finish
  <1> DEFINE bytes == IF dev.state = "ready" THEN dev.kind ELSE "zeros"
             r == IF reading[t] = "temp" THEN read_temp(bytes) ELSE read_humi(bytes)
  <1>2. result' = [result EXCEPT ![t] = r]
    BY DEF Finish
  <1>3. bytes \in {"temp", "humi", "zeros"}
    BY DEF HtuInv, TypeOK, Kinds
  <1>4. r \in Results /\ (reading[t] = "temp" => r # "humi")
    BY <1>3 DEF read_temp, read_humi, Results
  <1>5. TypeOK'
    <2>1. dev' = dev \/ dev' = Idle
      BY <1>1
    <2>2. /\ dev' \in [state : {"idle", "measuring", "ready"}, kind : Kinds,
                       by : Threads \cup {Nobody}, left : Nat]
          /\ dev'.state = "measuring" <=> dev'.left > 0
          /\ dev'.left <= Conversion[dev'.kind]
      <3>1. CASE dev' = Idle
        BY <3>1, HtuAssumption DEF Idle, Kinds, Nobody
      <3>2. CASE dev' = dev
        BY <3>2 DEF HtuInv, TypeOK
      <3>3. QED
        BY <2>1, <3>1, <3>2
    <2>3. reading' \in [Threads -> Kinds \cup {"none"}]
      BY <1>1 DEF HtuInv, TypeOK
    <2>4. result' \in [Threads -> Results]
      BY <1>2, <1>4 DEF HtuInv, TypeOK
    <2>5. QED
      BY <1>1, <2>2, <2>3, <2>4 DEF HtuInv, TypeOK
  <1>6. NeverAHumidity'
    BY <1>2, <1>4 DEF HtuInv, TypeOK, NeverAHumidity, Threads
  <1>7. SomebodyWaits'
    <2>1. SUFFICES ASSUME dev.state = "measuring", dev' = dev
                   PROVE  \E u \in Threads : reading'[u] # "none" /\ dev.left <= wait[u]
      BY <1>1 DEF SomebodyWaits, Idle
    <2>2. PICK u \in Threads : reading[u] # "none" /\ dev.left <= wait[u]
      BY <2>1 DEF HtuInv, SomebodyWaits
    <2>3. u # t
      BY <1>1, <2>1, <2>2 DEF HtuInv, TypeOK
    <2>4. QED
      BY <1>1, <2>2, <2>3 DEF HtuInv, TypeOK
  <1>8. AloneInv'
    <2>1. SUFFICES ASSUME NEW u \in Threads, reading'[u] # "none", alone[u] PROVE FALSE
      BY <1>1 DEF AloneInv
    <2>2. u # t /\ reading[u] # "none"
      BY <1>1, <2>1 DEF HtuInv, TypeOK
    <2>3. reading[t] = "none"
      BY <2>1, <2>2 DEF HtuInv, AloneInv
    <2>4. QED
      BY <1>1, <2>3
  <1>9. QED
    BY <1>5, <1>6, <1>7, <1>8 DEF HtuInv

LEMMA TickHtuInv == HtuInv /\ Tick => HtuInv'
  <1> SUFFICES ASSUME HtuInv, Tick PROVE HtuInv'
    OBVIOUS
  <1>1. /\ reading' = reading /\ alone' = alone /\ result' = result /\ second' = second
        /\ \A t \in Threads : wait'[t] = IF wait[t] = 0 THEN 0 ELSE wait[t] - 1
    BY DEF Tick
  <1>2. /\ dev.left \in Nat /\ Delay \in Nat /\ \A t \in Threads : wait[t] \in 0..Delay
        /\ dev.state = "measuring" <=> dev.left > 0
    BY HtuAssumption DEF HtuInv, TypeOK
  <1>3. /\ dev'.kind = dev.kind /\ dev'.by = dev.by
        /\ dev'.left = IF dev.left = 0 THEN 0 ELSE dev.left - 1
        /\ dev'.state = IF dev.state = "measuring" /\ dev.left = 1 THEN "ready" ELSE dev.state
    BY <1>2 DEF Tick, HtuInv, TypeOK
  <1>4. TypeOK'
    <2>1. dev' \in [state : {"idle", "measuring", "ready"}, kind : Kinds,
                    by : Threads \cup {Nobody}, left : Nat]
      <3>1. dev \in [state : {"idle", "measuring", "ready"}, kind : Kinds,
                     by : Threads \cup {Nobody}, left : Nat]
        BY DEF HtuInv, TypeOK
      <3>2. CASE dev.state # "measuring"
        BY <3>1, <3>2 DEF Tick
      <3>3. CASE dev.state = "measuring" /\ dev.left = 1
        BY <3>1, <3>3 DEF Tick
      <3>4. CASE dev.state = "measuring" /\ dev.left # 1
        <4>1. dev' = [dev EXCEPT !.left = dev.left - 1] /\ dev.left - 1 \in Nat
          BY <1>2, <3>4 DEF Tick
        <4>2. QED
          BY <3>1, <4>1
      <3>5. QED
        BY <3>2, <3>3, <3>4
    <2>2. /\ dev'.state = "measuring" <=> dev'.left > 0
          /\ dev'.left <= Conversion[dev'.kind]
      <3>1. dev.kind \in Kinds /\ Conversion[dev.kind] \in 1..Delay /\ dev.left <= Conversion[dev.kind]
        BY HtuAssumption DEF HtuInv, TypeOK
      <3>2. QED
        BY <1>2, <1>3, <3>1
    <2>3. wait' \in [Threads -> 0..Delay]
      BY <1>2 DEF Tick
    <2>4. QED
      BY <1>1, <2>1, <2>2, <2>3 DEF HtuInv, TypeOK
  <1>5. NeverAHumidity'
    BY <1>1 DEF HtuInv, NeverAHumidity
  <1>6. SomebodyWaits'
    <2>1. SUFFICES ASSUME dev'.state = "measuring"
                   PROVE  \E t \in Threads : reading'[t] # "none" /\ dev'.left <= wait'[t]
      BY DEF SomebodyWaits
    <2>2. PICK u \in Threads : reading[u] # "none" /\ dev.left <= wait[u]
      BY <1>3, <2>1 DEF HtuInv, SomebodyWaits
    <2>3. QED
      BY <1>1, <1>2, <1>3, <2>2
  <1>7. AloneInv'
    BY <1>1, <1>2, <1>3 DEF HtuInv, AloneInv
  <1>8. QED
    BY <1>4, <1>5, <1>6, <1>7 DEF HtuInv

(* The main thread only ever asks for temperatures. *)
MainReadsTemp == reading["main"] \in {"none", "temp"}

LEMMA StepHtuInv ==
  HtuInv /\ MainReadsTemp /\ [Next]_vars => HtuInv' /\ MainReadsTemp'
  <1> SUFFICES ASSUME HtuInv, MainReadsTemp, [Next]_vars PROVE HtuInv' /\ MainReadsTemp'
    OBVIOUS
  <1>1. "main" \in Threads /\ "demo" \in Threads /\ "temp" \in Kinds /\ "humi" \in Kinds
    BY DEF Threads, Kinds
  <1>2. CASE Begin("main", "temp")
    BY <1>1, <1>2, BeginHtuInv DEF MainReadsTemp, Begin, HtuInv, TypeOK
  <1>3. CASE Finish("main") /\ UNCHANGED second
    <2>1. reading["main"] = "temp" /\ second' \in BOOLEAN
      BY <1>3 DEF MainReadsTemp, Finish, HtuInv, TypeOK
    <2>2. HtuInv'
      BY <1>1, <1>3, <2>1, FinishHtuInv
    <2>3. QED
      BY <1>1, <1>3, <2>2 DEF MainReadsTemp, Finish, HtuInv, TypeOK
  <1>4. CASE Begin("demo", IF second THEN "humi" ELSE "temp")
    <2>1. PICK k \in Kinds : Begin("demo", k)
      BY <1>1, <1>4
    <2>2. HtuInv'
      BY <1>1, <2>1, BeginHtuInv
    <2>3. QED
      BY <1>1, <2>1, <2>2 DEF MainReadsTemp, Begin
  <1>5. CASE Finish("demo") /\ second' = ~second
    <2>1. second' \in BOOLEAN
      BY <1>5
    <2>2. HtuInv'
      BY <1>1, <1>5, <2>1, FinishHtuInv
    <2>3. QED
      BY <1>1, <1>5, <2>2 DEF MainReadsTemp, Finish
  <1>6. CASE Tick
    BY <1>6, TickHtuInv DEF MainReadsTemp, Tick
  <1>7. CASE UNCHANGED vars
    BY <1>7 DEF vars, MainReadsTemp, HtuInv, TypeOK, NeverAHumidity, SomebodyWaits, AloneInv
  <1>8. QED
    BY <1>2, <1>3, <1>4, <1>5, <1>6, <1>7 DEF Next, main, demo

(* The inductive invariant holds in every reachable state of the driver    *)
(* and its device.                                                         *)
THEOREM HtuInvariant == Spec => []HtuInv
  <1>1. Init => HtuInv /\ MainReadsTemp
    BY InitHtuInv DEF Init, MainReadsTemp, Threads
  <1>2. QED
    BY <1>1, StepHtuInv, PTL DEF Spec

(* read_temp() and read_humi() return what they asked for unless another   *)
(* thread's read overlaps them, whatever the delay, provided no conversion *)
(* takes longer than it.                                                   *)
THEOREM AloneAlwaysRight == Spec => []AloneIsRight
  <1>1. HtuInv => AloneIsRight
    BY DEF HtuInv, TypeOK, AloneInv, AloneIsRight
  <1>2. QED
    BY HtuInvariant, <1>1, PTL

(* The status bit keeps humidities out of what main() compares with its    *)
(* temperature threshold.                                                  *)
THEOREM MainNeverReadsHumidity == Spec => []NeverAHumidity
  <1>1. HtuInv => NeverAHumidity
    BY DEF HtuInv
  <1>2. QED
    BY HtuInvariant, <1>1, PTL

(* The device's measurement and both threads' reads stay what they can be. *)
THEOREM HtuTypeCorrect == Spec => []TypeOK
  <1>1. HtuInv => TypeOK
    BY DEF HtuInv
  <1>2. QED
    BY HtuInvariant, <1>1, PTL
=============================================================================
