------------------------------- MODULE Fbm320 -------------------------------
(***************************************************************************)
(* The driver of the pressure sensor (applications/fbm320_drv.c) on a bus  *)
(* whose transfers may fail.  main() calls fbm320_init() and then          *)
(* fbm320_read_data(); after that only the demo thread calls it, once per  *)
(* report, so there is one caller at a time.                               *)
(*                                                                         *)
(* What the bytes of a transfer mean stands for the bytes: "zeros" is a    *)
(* buffer no transfer has filled, "temp" and "press" are conversions.  The *)
(* device is external: a command makes it convert, the delay that follows  *)
(* is long enough for that, and its data registers keep the last           *)
(* conversion.  FBM320_I2C_BUS_NAME is configured, so the bus is found.    *)
(***************************************************************************)
EXTENDS Integers

VARIABLES
  pc,              \* what the driver does next, "idle" outside of a call
  call,            \* "trial1" and "trial0": the reads of fbm320_init(); "read": the users'
  Formula_Select,
  coef,            \* C0_I .. C12_I: for which formula they were unpacked, and how well
  reg,             \* the device's data registers
  readData,        \* the buffer of fbm320_read_data()
  UT_I, UP_I,      \* the raw temperature and pressure
  result,          \* what the last read was calculated from, and its return value
  ok               \* history: has every transfer of this read succeeded?

vars == <<pc, call, Formula_Select, coef, reg, readData, UT_I, UP_I, result, ok>>

Formulas == {0, 1}
Raw == {"zeros", "temp", "press"}
Unpacked == {"no", "all", "with zeros"}
NoCoef == [formula |-> 1, unpacked |-> "no"]
NoResult == [ut |-> "zeros", up |-> "zeros", formula |-> 1, coef |-> NoCoef, ret |-> "none"]

Init ==
  /\ pc = "id"
  /\ call = "trial1"
  /\ Formula_Select = 1
  /\ coef = NoCoef
  /\ reg = "zeros"
  /\ readData = "zeros"
  /\ UT_I = "zeros" /\ UP_I = "zeros"
  /\ result = NoResult
  /\ ok = TRUE

-----------------------------------------------------------------------------
(* fbm320_init() up to its first read *)

(* The identification: a failed transfer leaves id zero, which is as wrong *)
(* as another chip's, and ends the initialisation; main() goes on.         *)
ReadId ==
  /\ pc = "id"
  /\ \/ pc' = "coefficient" /\ UNCHANGED call
     \/ pc' = "idle" /\ call' = "read"
  /\ UNCHANGED <<Formula_Select, coef, reg, readData, UT_I, UP_I, result, ok>>

(* Coefficient() unpacks the calibration data for the formula selected     *)
(* now.  Its three transfers may fail unnoticed: then some of the          *)
(* coefficients are made of zeros.                                         *)
Coefficient ==
  /\ pc = "coefficient"
  /\ coef' \in [formula : {Formula_Select}, unpacked : {"all", "with zeros"}]
  /\ pc' = "temp_cmd"
  /\ UNCHANGED <<call, Formula_Select, reg, readData, UT_I, UP_I, result, ok>>

-----------------------------------------------------------------------------
(* fbm320_read_data() *)

(* A user calls it; readData is a fresh local. *)
Call ==
  /\ pc = "idle"
  /\ pc' = "temp_cmd"
  /\ readData' = "zeros"
  /\ ok' = TRUE
  /\ UNCHANGED <<call, Formula_Select, coef, reg, UT_I, UP_I, result>>

(* fbm320_write_reg() of a conversion command, and the delay. *)
Command(kind) ==
  \/ reg' = kind /\ UNCHANGED ok
  \/ ok' = FALSE /\ UNCHANGED reg

(* Mutant: the command is only sent when the device has no data yet. *)
TempCommand_Once ==
  /\ pc = "temp_cmd"
  /\ IF reg = "zeros" THEN Command("temp") ELSE UNCHANGED <<reg, ok>>
  /\ pc' = "temp_data"
  /\ UNCHANGED <<call, Formula_Select, coef, readData, UT_I, UP_I, result>>

TempCommand ==
  /\ pc = "temp_cmd"
  /\ Command("temp")
  /\ pc' = "temp_data"
  /\ UNCHANGED <<call, Formula_Select, coef, readData, UT_I, UP_I, result>>

(* fbm320_read_reg() of the data registers. *)
Data ==
  \/ readData' = reg /\ UNCHANGED ok
  \/ ok' = FALSE /\ UNCHANGED readData

TempData ==
  /\ pc = "temp_data"
  /\ Data
  /\ UT_I' = readData'
  /\ pc' = "press_cmd"
  /\ UNCHANGED <<call, Formula_Select, coef, reg, UP_I, result>>

PressCommand ==
  /\ pc = "press_cmd"
  /\ Command("press")
  /\ pc' = "press_data"
  /\ UNCHANGED <<call, Formula_Select, coef, readData, UT_I, UP_I, result>>

(* A failed transfer leaves the temperature's bytes in readData. *)
PressData ==
  /\ pc = "press_data"
  /\ Data
  /\ UP_I' = readData'
  /\ pc' = "calculate"
  /\ UNCHANGED <<call, Formula_Select, coef, reg, UT_I, result>>

(* Calculate(UP, UT), and the return value.  Three bytes never make the -1 *)
(* that fbm320_read_data() tests for, so it is 0.                          *)
Calculate(UP, UT) ==
  result' = [ut |-> UT, up |-> UP, formula |-> Formula_Select, coef |-> coef, ret |-> "0"]

(* The end of a user's call. *)
Return ==
  /\ pc = "calculate"
  /\ call = "read"
  /\ Calculate(UP_I, UT_I)
  /\ pc' = "idle"
  /\ UNCHANGED <<call, Formula_Select, coef, reg, readData, UT_I, UP_I, ok>>

(* Mutant: the next formula is selected by counting up. *)
NextTrial_CountsUp ==
  /\ pc = "calculate"
  /\ call # "read"
  /\ Calculate(UP_I, UT_I)
  /\ \/ /\ call = "trial1"
        /\ call' = "trial0" /\ pc' = "temp_cmd"
        /\ Formula_Select' = Formula_Select + 1
        /\ readData' = "zeros" /\ ok' = TRUE
     \/ /\ call = "trial0"
        /\ call' = "read" /\ pc' = "idle"
        /\ Formula_Select' \in {0, 1}
        /\ UNCHANGED <<readData, ok>>
  /\ UNCHANGED <<coef, reg, UT_I, UP_I>>

(* The end of a trial in fbm320_init().  The second formula is tried next; *)
(* after it the first one comes back if its pressure was the more likely.  *)
NextTrial ==
  /\ pc = "calculate"
  /\ call # "read"
  /\ Calculate(UP_I, UT_I)
  /\ \/ /\ call = "trial1"
        /\ call' = "trial0" /\ pc' = "temp_cmd"
        /\ Formula_Select' = 0
        /\ readData' = "zeros" /\ ok' = TRUE
     \/ /\ call = "trial0"
        /\ call' = "read" /\ pc' = "idle"
        /\ Formula_Select' \in {0, 1}
        /\ UNCHANGED <<readData, ok>>
  /\ UNCHANGED <<coef, reg, UT_I, UP_I>>

Next == \/ ReadId \/ Coefficient \/ Call \/ TempCommand \/ TempData
        \/ PressCommand \/ PressData \/ Return \/ NextTrial

Spec == Init /\ [][Next]_vars

-----------------------------------------------------------------------------
(* Properties *)

Coefs == [formula : Formulas, unpacked : Unpacked]

TypeOK ==
  /\ pc \in {"id", "coefficient", "idle", "temp_cmd", "temp_data", "press_cmd", "press_data",
             "calculate"}
  /\ call \in {"trial1", "trial0", "read"}
  /\ Formula_Select \in Formulas
  /\ coef \in Coefs
  /\ reg \in Raw /\ readData \in Raw /\ UT_I \in Raw /\ UP_I \in Raw
  /\ result \in [ut : Raw, up : Raw, formula : Formulas, coef : Coefs, ret : {"0", "none"}]
  /\ ok \in BOOLEAN

(* Failures do not outlive the read they happen in: a read all of whose    *)
(* transfers succeed is calculated from its own temperature and pressure,  *)
(* whatever failed commands have left in the device's registers before.    *)
CleanReadIsRight ==
  (pc = "idle" /\ ok /\ result # NoResult) => result.ut = "temp" /\ result.up = "press"
=============================================================================
