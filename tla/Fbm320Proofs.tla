---------------------------- MODULE Fbm320Proofs ----------------------------
(***************************************************************************)
(* A clean read is right after any history of failures.  The strengthening *)
(* (Progress) says, for every point inside a read whose transfers have all *)
(* succeeded so far, what the registers and the raw values hold.           *)
(***************************************************************************)
EXTENDS Fbm320, TLAPS

Progress ==
  /\ pc = "id" => result = NoResult
  /\ ok => /\ pc = "temp_data" => reg = "temp"
           /\ pc \in {"press_cmd", "press_data", "calculate"} => UT_I = "temp"
           /\ pc = "press_data" => reg = "press"
           /\ pc = "calculate" => UP_I = "press"

FbmInv == TypeOK /\ Progress /\ CleanReadIsRight

LEMMA FbmInit == Init => FbmInv
  <1> SUFFICES ASSUME Init PROVE FbmInv
    OBVIOUS
  <1>1. ok \in BOOLEAN
    BY DEF Init
  <1>2. coef \in Coefs /\ result \in [ut : Raw, up : Raw, formula : Formulas, coef : Coefs,
                                      ret : {"0", "none"}]
    BY DEF Init, Coefs, Raw, Formulas, Unpacked, NoCoef, NoResult
  <1>3. QED
    BY <1>1, <1>2 DEF Init, FbmInv, TypeOK, Progress, CleanReadIsRight, Raw, Formulas

LEMMA CalculateType ==
  ASSUME TypeOK, Calculate(UP_I, UT_I)
  PROVE  /\ result' \in [ut : Raw, up : Raw, formula : Formulas, coef : Coefs,
                         ret : {"0", "none"}]
         /\ result'.ut = UT_I
         /\ result'.up = UP_I
  BY DEF TypeOK, Calculate

LEMMA FbmStep == FbmInv /\ [Next]_vars => FbmInv'
  <1> SUFFICES ASSUME FbmInv, [Next]_vars PROVE FbmInv'
    OBVIOUS
  <1> USE DEF FbmInv
  <1>1. CASE ReadId
    <2>1. ok' \in BOOLEAN
      BY <1>1 DEF ReadId, TypeOK
    <2>2. TypeOK'
      BY <1>1, <2>1 DEF ReadId, TypeOK, Raw, Formulas
    <2>3. Progress' /\ CleanReadIsRight'
      BY <1>1, <2>1 DEF ReadId, TypeOK, Progress, CleanReadIsRight
    <2>4. QED
      BY <2>2, <2>3
  <1>2. CASE Coefficient
    <2>1. coef' \in Coefs
      BY <1>2 DEF Coefficient, TypeOK, Coefs, Unpacked
    <2>2. QED
      BY <1>2, <2>1 DEF Coefficient, TypeOK, Progress, CleanReadIsRight
  <1>3. CASE Call
    BY <1>3 DEF Call, TypeOK, Progress, CleanReadIsRight, Raw
  <1>4. CASE TempCommand
    <2>1. ok' \in BOOLEAN
      BY <1>4 DEF TempCommand, Command, TypeOK
    <2>2. TypeOK'
      BY <1>4, <2>1 DEF TempCommand, Command, TypeOK, Raw, Formulas
    <2>3. Progress' /\ CleanReadIsRight'
      BY <1>4, <2>1 DEF TempCommand, Command, TypeOK, Progress, CleanReadIsRight
    <2>4. QED
      BY <2>2, <2>3
  <1>5. CASE TempData
    <2>1. ok' \in BOOLEAN
      BY <1>5 DEF TempData, Data, TypeOK
    <2>2. TypeOK'
      BY <1>5, <2>1 DEF TempData, Data, TypeOK, Raw, Formulas
    <2>3. Progress' /\ CleanReadIsRight'
      BY <1>5, <2>1 DEF TempData, Data, TypeOK, Progress, CleanReadIsRight
    <2>4. QED
      BY <2>2, <2>3
  <1>6. CASE PressCommand
    <2>1. ok' \in BOOLEAN
      BY <1>6 DEF PressCommand, Command, TypeOK
    <2>2. TypeOK'
      BY <1>6, <2>1 DEF PressCommand, Command, TypeOK, Raw, Formulas
    <2>3. Progress' /\ CleanReadIsRight'
      BY <1>6, <2>1 DEF PressCommand, Command, TypeOK, Progress, CleanReadIsRight
    <2>4. QED
      BY <2>2, <2>3
  <1>7. CASE PressData
    <2>1. ok' \in BOOLEAN
      BY <1>7 DEF PressData, Data, TypeOK
    <2>2. TypeOK'
      BY <1>7, <2>1 DEF PressData, Data, TypeOK, Raw, Formulas
    <2>3. Progress' /\ CleanReadIsRight'
      BY <1>7, <2>1 DEF PressData, Data, TypeOK, Progress, CleanReadIsRight
    <2>4. QED
      BY <2>2, <2>3
  <1>8. CASE Return
    BY <1>8, CalculateType DEF Return, TypeOK, Progress, CleanReadIsRight
  <1>9. CASE NextTrial
    <2>1. ok' \in BOOLEAN
      BY <1>9 DEF NextTrial, TypeOK
    <2>2. TypeOK'
      BY <1>9, <2>1, CalculateType DEF NextTrial, TypeOK, Raw, Formulas
    <2>3. Progress' /\ CleanReadIsRight'
      BY <1>9, <2>1, CalculateType DEF NextTrial, TypeOK, Progress, CleanReadIsRight
    <2>4. QED
      BY <2>2, <2>3
  <1>10. CASE UNCHANGED vars
    BY <1>10 DEF vars, TypeOK, Progress, CleanReadIsRight
  <1>11. QED
    BY <1>1, <1>2, <1>3, <1>4, <1>5, <1>6, <1>7, <1>8, <1>9, <1>10 DEF Next

(* The inductive invariant of the pressure sensor's driver. *)
THEOREM FbmInvariant == Spec => []FbmInv
  BY FbmInit, FbmStep, PTL DEF Spec

(* A call of fbm320_read_data() whose four transfers succeed is calculated *)
(* from its own conversions, whatever failed in the calls before it.       *)
THEOREM CleanReadAlwaysRight == Spec => []CleanReadIsRight
  <1>1. FbmInv => CleanReadIsRight
    BY DEF FbmInv
  <1>2. QED
    BY FbmInvariant, <1>1, PTL

(* Registers, raw values and coefficients only ever hold what some         *)
(* transfer, or the lack of one, has left there.                           *)
THEOREM FbmTypeCorrect == Spec => []TypeOK
  <1>1. FbmInv => TypeOK
    BY DEF FbmInv
  <1>2. QED
    BY FbmInvariant, <1>1, PTL
=============================================================================
