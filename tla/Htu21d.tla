------------------------------- MODULE Htu21d -------------------------------
(***************************************************************************)
(* The driver of the temperature and humidity sensor                       *)
(* (applications/htu21d_drv.c) as its two users call it: the main thread   *)
(* calls read_temp() in every round, the demo thread calls read_temp() and *)
(* then read_humi() for every report.  A read is a command transfer, a     *)
(* delay and a data transfer; rt_i2c_transfer() locks the bus during each  *)
(* transfer, but nothing keeps the two reads of two threads apart.         *)
(*                                                                         *)
(* The device is external and modelled from how the driver uses it: a      *)
(* command starts a measurement, during which it does not acknowledge a    *)
(* read and either ignores a further command or starts over with it; a     *)
(* finished measurement can be read once.  The second status bit of the    *)
(* data tells the two kinds of measurement apart.                          *)
(***************************************************************************)
EXTENDS Integers

CONSTANTS Delay,      \* rt_thread_mdelay() between command and data, 50 in the code
          Conversion  \* the longest time each kind of measurement takes

Kinds == {"temp", "humi"}
Threads == {"main", "demo"}
Nobody == "nobody"

ASSUME HtuAssumption ==
  /\ Delay \in Nat \ {0}
  /\ Conversion \in [Kinds -> 1..Delay]

VARIABLES
  dev,      \* the device: is it idle, measuring or ready; what, for whom, how long still
  second,   \* TRUE: the demo thread has read the temperature of its report
  reading,  \* the kind each thread is reading, "none" between two reads
  wait,     \* ticks left of each thread's rt_thread_mdelay()
  result,   \* what its last read returned
  alone     \* history: has no other thread been reading since this read began?

vars == <<dev, second, reading, wait, result, alone>>

Idle == [state |-> "idle", kind |-> "temp", by |-> Nobody, left |-> 0]

(* After htu21d_init(): the device has been reset. *)
Init ==
  /\ dev = Idle
  /\ second = FALSE
  /\ reading = [t \in Threads |-> "none"]
  /\ wait = [t \in Threads |-> 0]
  /\ result = [t \in Threads |-> "none"]
  /\ alone = [t \in Threads |-> FALSE]

(* The device takes a command of thread t. *)
Measuring(t, k) == [state |-> "measuring", kind |-> k, by |-> t, left |-> Conversion[k]]

(* Mutant: the delay is one tick shorter. *)
MDelay_Short == Delay - 1

(* rt_thread_mdelay(50) *)
MDelay == Delay

(* write_reg() with the command of kind k, whose result is ignored, and    *)
(* the start of the delay.                                                 *)
Begin(t, k) ==
  /\ reading[t] = "none"
  /\ \/ dev' = Measuring(t, k)
     \/ dev.state = "measuring" /\ dev' = dev
  /\ reading' = [reading EXCEPT ![t] = k]
  /\ wait' = [wait EXCEPT ![t] = MDelay]
  /\ alone' = [u \in Threads |-> u = t /\ \A v \in Threads : reading[v] = "none"]
  /\ UNCHANGED <<result, second>>

(* Mutant: read_temp() does not look at the status bit. *)
read_temp_NoStatus(bytes) == IF bytes = "zeros" THEN "-46.85" ELSE bytes

(* read_temp() on the two bytes in its buffer, which are still the zeros   *)
(* it was initialised with when the device did not acknowledge.  Zero      *)
(* bytes pass the test of the status bit and convert to -46.85 degrees.    *)
read_temp(bytes) ==
  CASE bytes = "temp"  -> "temp"
    [] bytes = "humi"  -> "-1"
    [] bytes = "zeros" -> "-46.85"

(* Mutant: read_humi() does not look at the status bit. *)
read_humi_NoStatus(bytes) == bytes

(* read_humi(): zero bytes do not carry the status bit of a humidity. *)
read_humi(bytes) == IF bytes = "humi" THEN "humi" ELSE "-1"

(* read_regs(), whose result is ignored, and the conversion of the bytes. *)
Finish(t) ==
  /\ reading[t] # "none"
  /\ wait[t] = 0
  /\ LET bytes == IF dev.state = "ready" THEN dev.kind ELSE "zeros"
     IN  result' = [result EXCEPT ![t] = IF reading[t] = "temp" THEN read_temp(bytes)
                                                               ELSE read_humi(bytes)]
  /\ dev' = IF dev.state = "ready" THEN Idle ELSE dev
  /\ reading' = [reading EXCEPT ![t] = "none"]
  /\ UNCHANGED <<wait, alone>>

(* The main thread only reads temperatures. *)
main ==
  \/ Begin("main", "temp")
  \/ Finish("main") /\ UNCHANGED second

(* The demo thread reads a temperature and then a humidity. *)
demo ==
  \/ Begin("demo", IF second THEN "humi" ELSE "temp")
  \/ Finish("demo") /\ second' = ~second

(* Time passes; a delay or a measurement that is over stays over. *)
Tick ==
  /\ dev' = IF dev.state # "measuring" THEN dev
            ELSE IF dev.left = 1 THEN [dev EXCEPT !.state = "ready", !.left = 0]
            ELSE [dev EXCEPT !.left = @ - 1]
  /\ wait' = [t \in Threads |-> IF wait[t] = 0 THEN 0 ELSE wait[t] - 1]
  /\ UNCHANGED <<second, reading, result, alone>>

Next == main \/ demo \/ Tick

Spec == Init /\ [][Next]_vars

-----------------------------------------------------------------------------
(* Properties *)

Results == {"none", "temp", "humi", "-1", "-46.85"}

TypeOK ==
  /\ dev \in [state : {"idle", "measuring", "ready"}, kind : Kinds,
              by : Threads \cup {Nobody}, left : Nat]
  /\ dev.state = "measuring" <=> dev.left > 0
  /\ dev.left <= Conversion[dev.kind]
  /\ second \in BOOLEAN
  /\ reading \in [Threads -> Kinds \cup {"none"}]
  /\ wait \in [Threads -> 0..Delay]
  /\ result \in [Threads -> Results]
  /\ alone \in [Threads -> BOOLEAN]

(* What the main thread compares with its threshold (main.c:388, 400) is   *)
(* never a humidity, even when the demo thread's humidity measurement is   *)
(* the one it happens to read: the status bit keeps the two apart.         *)
NeverAHumidity == result["main"] # "humi"

(* A read that no other read overlaps returns what it asked for: when it   *)
(* comes to fetch the data, the device has finished this very measurement. *)
AloneIsRight ==
  \A t \in Threads :
    (reading[t] # "none" /\ alone[t] /\ wait[t] = 0) =>
      dev.state = "ready" /\ dev.kind = reading[t] /\ dev.by = t

(* htu21d_drv.c:70 says of read_temp(): "returns: the temperature".  It    *)
(* also returns -1 and -46.85, which its callers take for temperatures.    *)
ReadsTemperature == result["main"] \in {"none", "temp"}
=============================================================================
