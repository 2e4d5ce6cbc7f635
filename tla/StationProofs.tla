--------------------------- MODULE StationProofs ----------------------------
(***************************************************************************)
(* The safety of the report path, for every bound MaxAge on the ages, and  *)
(* of the start-up.                                                        *)
(*                                                                         *)
(* NoRequestForgotten is inductive with the types.  ReadingIsFresh follows *)
(* from what the one-mail mailbox guarantees (OneMail): receiving a mail   *)
(* empties it, so a reading ages at most once on its way, either in the    *)
(* hands of the main thread or not at all.                                 *)
(*                                                                         *)
(* The inductive invariant of the start-up says how far main() is whenever *)
(* the demo thread has got past its connection (booted = Len(BootOrder))   *)
(* and when a pulse may have hung the station (debounce_timer, the sixth   *)
(* step, not done).  Every step of the station is a step of Report or      *)
(* leaves its variables alone, so what is proved about the report path     *)
(* holds from reset on.                                                    *)
(***************************************************************************)
EXTENDS Station, SequenceTheorems, TLAPS

-----------------------------------------------------------------------------
(* The report path *)

OneMail ==
  /\ mb = <<>> \/ (\E a \in {0, 1} : mb = <<a>>)
  /\ mpc = "send" => sample \in {0, 1} /\ (mb # <<>> => sample = 0)

ReportInv == TypeOK /\ NoRequestForgotten /\ OneMail /\ mail \in {0, 1}

LEMMA InitReportInv == Init => ReportInv
  <1> SUFFICES ASSUME Init PROVE ReportInv
    OBVIOUS
  <1>1. mb \in Seq(0..MaxAge)
    BY DEF Init
  <1>2. waiting \in BOOLEAN
    BY DEF Init
  <1>3. TypeOK
    BY <1>1, <1>2, AgeAssumption DEF Init, TypeOK
  <1>4. NoRequestForgotten
    BY DEF Init, NoRequestForgotten
  <1>5. OneMail
    BY DEF Init, OneMail
  <1>6. mail \in {0, 1}
    BY DEF Init
  <1>7. QED
    BY <1>3, <1>4, <1>5, <1>6 DEF ReportInv

LEMMA OlderFacts ==
  ASSUME NEW a \in 0..MaxAge
  PROVE  Older(a) \in 0..MaxAge /\ (a = 0 => Older(a) = 1)
  BY AgeAssumption DEF Older

LEMMA ReadLightInv == ReportInv /\ ReadLight => ReportInv'
  BY AgeAssumption DEF ReportInv, TypeOK, NoRequestForgotten, OneMail, ReadLight

LEMMA SendMailInv == ReportInv /\ SendMail => ReportInv'
  <1> SUFFICES ASSUME ReportInv, SendMail PROVE ReportInv'
    OBVIOUS
  <1>1. sample \in {0, 1} /\ sample \in 0..MaxAge
    BY DEF ReportInv, TypeOK, OneMail, SendMail
  <1>2. mb' = mb \/ mb' = <<sample>>
    <2>1. CASE mb = <<>>
      BY <2>1, <1>1 DEF SendMail, MBSize
    <2>2. CASE \E a \in {0, 1} : mb = <<a>>
      BY <2>2 DEF SendMail, MBSize
    <2>3. QED
      BY <2>1, <2>2 DEF ReportInv, OneMail
  <1>3. mb' \in Seq(0..MaxAge) /\ (mb' = <<>> \/ \E a \in {0, 1} : mb' = <<a>>)
    <2>1. CASE mb' = mb
      BY <2>1 DEF ReportInv, TypeOK, OneMail
    <2>2. CASE mb' = <<sample>>
      <3>1. <<sample>> \in Seq(0..MaxAge)
        BY <1>1
      <3>2. QED
        BY <2>2, <3>1, <1>1, Zenon
    <2>3. QED
      BY <1>2, <2>1, <2>2
  <1>4. QED
    BY <1>3 DEF ReportInv, TypeOK, NoRequestForgotten, OneMail, SendMail

LEMMA RecvMailInv == ReportInv /\ RecvMail => ReportInv'
  <1> SUFFICES ASSUME ReportInv, RecvMail PROVE ReportInv'
    OBVIOUS
  <1>1. PICK a \in {0, 1} : mb = <<a>>
    BY DEF ReportInv, OneMail, RecvMail
  <1>2. mail' = a /\ mb' = <<>>
    <2>1. Head(mb) = a /\ Tail(mb) = <<>>
      BY <1>1
    <2>2. Len(Tail(mb)) = 0
      <3>1. Len(<<>>) = 0
        OBVIOUS
      <3>2. QED
        BY <3>1, <2>1, Zenon
    <2>3. mb' = [i \in 1..Len(Tail(mb)) |-> Older(Tail(mb)[i])]
      BY DEF RecvMail
    <2>4. 1..0 = {}
      OBVIOUS
    <2>5. mb' = [i \in {} |-> Older(Tail(mb)[i])]
      BY <2>2, <2>3, <2>4
    <2>6. mb' = <<>>
      BY <2>5
    <2>7. QED
      BY <2>1, <2>6 DEF RecvMail
  <1>3. sample' = Older(sample) /\ sample' \in 0..MaxAge /\ (mpc = "send" => sample' = 1)
    <2>1. mb # <<>>
      BY DEF RecvMail
    <2>2. sample \in 0..MaxAge /\ (mpc = "send" => sample = 0)
      BY <2>1 DEF ReportInv, TypeOK, OneMail
    <2>3. QED
      BY <2>2, OlderFacts DEF RecvMail
  <1>4. mail' \in 0..MaxAge /\ mb' \in Seq(0..MaxAge)
    BY <1>1, <1>2, AgeAssumption
  <1>5. QED
    BY <1>1, <1>2, <1>3, <1>4 DEF ReportInv, TypeOK, NoRequestForgotten, OneMail, RecvMail

(* The steps that only move the demo thread or the request. *)
LEMMA OtherStepsInv ==
  ReportInv /\ (Connect \/ TestFlag \/ ClearFlag \/ ReadSensors \/ Publish \/ Sleep \/ Request)
    => ReportInv'
  <1> SUFFICES ASSUME ReportInv,
                      Connect \/ TestFlag \/ ClearFlag \/ ReadSensors \/ Publish \/ Sleep \/ Request
               PROVE  ReportInv'
    OBVIOUS
  <1>1. UNCHANGED <<mpc, sample, mb, mail>>
    BY DEF Connect, TestFlag, ClearFlag, ReadSensors, Publish, Sleep, Request
  <1>2. OneMail' /\ mail' \in {0, 1}
    BY <1>1 DEF ReportInv, OneMail
  <1>3. waiting' \in BOOLEAN
    BY DEF ReportInv, TypeOK, Connect, TestFlag, ClearFlag, ReadSensors, Publish, Sleep, Request
  <1>4. TypeOK'
    BY <1>1, <1>3 DEF ReportInv, TypeOK, Connect, TestFlag, ClearFlag, ReadSensors, Publish,
                      Sleep, Request
  <1>5. NoRequestForgotten'
    BY DEF ReportInv, TypeOK, NoRequestForgotten, Connect, TestFlag, ClearFlag, ReadSensors,
           Publish, Sleep, Request
  <1>6. QED
    BY <1>2, <1>4, <1>5 DEF ReportInv

(* The inductive invariant of the report path. *)
THEOREM ReportInvariant == Spec => []ReportInv
  <1>1. ReportInv /\ [Next]_vars => ReportInv'
    <2> SUFFICES ASSUME ReportInv, [Next]_vars PROVE ReportInv'
      OBVIOUS
    <2>1. CASE UNCHANGED vars
      BY <2>1 DEF vars, ReportInv, TypeOK, NoRequestForgotten, OneMail
    <2>2. QED
      BY <2>1, ReadLightInv, SendMailInv, RecvMailInv, OtherStepsInv
         DEF Next, MainThread, DemoThread
  <1>2. QED
    BY InitReportInv, <1>1, PTL DEF Spec

(* A request raised by an interrupt handler at any moment of the demo      *)
(* thread's round is still noted until the sensors are read for it.        *)
THEOREM RequestNeverForgotten == Spec => []NoRequestForgotten
  <1>1. ReportInv => NoRequestForgotten
    BY DEF ReportInv
  <1>2. QED
    BY ReportInvariant, <1>1, PTL

(* The light reading the demo thread publishes was measured after the last *)
(* reception but one, however the two threads interleave.                  *)
THEOREM ReadingAlwaysFresh == Spec => []ReadingIsFresh
  <1>1. ReportInv => ReadingIsFresh
    BY DEF ReportInv, ReadingIsFresh
  <1>2. QED
    BY ReportInvariant, <1>1, PTL

(* The request flag, the mailbox and the positions of both threads keep    *)
(* their types.                                                            *)
THEOREM ReportTypeCorrect == Spec => []TypeOK
  <1>1. ReportInv => TypeOK
    BY DEF ReportInv
  <1>2. QED
    BY ReportInvariant, <1>1, PTL

-----------------------------------------------------------------------------
(* The start-up *)

BootInv ==
  /\ booted \in 0..13
  /\ hung \in BOOLEAN
  /\ rpc # "connect" => booted = 13
  /\ hung => booted < 6

LEMMA OrderLength == Len(BootOrder) = 13
  BY DEF BootOrder

(* Done, in terms of the number of completed steps. *)
LEMMA DoneFacts ==
  ASSUME booted \in 0..13
  PROVE  /\ Done("clap_space_timer") <=> booted >= 5
         /\ Done("debounce_timer") <=> booted >= 6
         /\ Done("ka_mqtt") <=> booted >= 11
         /\ Done("mb_create") <=> booted >= 13
  <1>1. Done("clap_space_timer") <=> booted >= 5
    BY DEF Done, BootOrder
  <1>2. Done("debounce_timer") <=> booted >= 6
    BY DEF Done, BootOrder
  <1>3. Done("ka_mqtt") <=> booted >= 11
    BY DEF Done, BootOrder
  <1>4. Done("mb_create") <=> booted >= 13
    BY DEF Done, BootOrder
  <1>5. QED
    BY <1>1, <1>2, <1>3, <1>4

LEMMA BootInvStep == BootInv /\ [StationNext]_stationVars => BootInv'
  <1> SUFFICES ASSUME BootInv, [StationNext]_stationVars PROVE BootInv'
    OBVIOUS
  <1>1. CASE BootStep /\ ~hung
    BY <1>1, OrderLength DEF BootStep, Booted, BootInv, vars
  <1>2. CASE Booted /\ MainThread /\ UNCHANGED <<booted, returned, hung>>
    BY <1>2, OrderLength DEF Booted, BootInv, MainThread, ReadLight, SendMail
  <1>3. CASE kawaii_demo
    <2>1. booted = 13
      BY <1>3, OrderLength DEF kawaii_demo, Booted, DemoPriority, MainPriority
    <2>2. QED
      BY <1>3, <2>1 DEF kawaii_demo, BootInv
  <1>4. CASE Requested
    BY <1>4 DEF Requested, Request, BootInv
  <1>5. CASE SoundPulse
    <2>1. hung' \in BOOLEAN
      BY <1>5 DEF SoundPulse
    <2>2. hung' => booted < 6
      BY <1>5, DoneFacts DEF SoundPulse, BootInv
    <2>3. QED
      BY <1>5, <2>1, <2>2 DEF SoundPulse, BootInv, vars
  <1>6. CASE UNCHANGED stationVars
    BY <1>6 DEF stationVars, vars, BootInv
  <1>7. QED
    BY <1>1, <1>2, <1>3, <1>4, <1>5, <1>6 DEF StationNext, main

(* The inductive invariant of the start-up. *)
THEOREM StationInvariant == StationSpec => []BootInv
  <1>1. StationInit => BootInv
    <2> SUFFICES ASSUME StationInit PROVE BootInv
      OBVIOUS
    <2>1. booted \in 0..13 /\ rpc = "connect"
      BY DEF StationInit, Init
    <2>2. hung \in BOOLEAN /\ ~hung
      BY DEF StationInit
    <2>3. QED
      BY <2>1, <2>2 DEF BootInv
  <1>2. QED
    BY <1>1, BootInvStep, PTL DEF StationSpec

(* The demo thread, which main() starts before it creates test_mb, never   *)
(* calls rt_mb_recv() without a mailbox.                                   *)
THEOREM MailboxAlwaysReady == StationSpec => []MailboxReady
  <1>1. BootInv => MailboxReady
    BY DoneFacts DEF BootInv, MailboxReady
  <1>2. QED
    BY StationInvariant, <1>1, PTL

(* Once main() has called ka_mqtt() no sound pulse can hang the station. *)
THEOREM AlwaysSafeOnceStarted == StationSpec => []SafeOnceStarted
  <1>1. BootInv => SafeOnceStarted
    BY DoneFacts DEF BootInv, SafeOnceStarted
  <1>2. QED
    BY StationInvariant, <1>1, PTL

(* From reset on the station behaves as Report says, whatever arrives      *)
(* while main() starts up and whether or not it hangs.                     *)
THEOREM StationImplementsReport == StationSpec => Spec
  <1>1. StationInit => Init
    BY DEF StationInit
  <1>2. [StationNext]_stationVars => [Next]_vars
    BY DEF StationNext, stationVars, main, BootStep, kawaii_demo, Requested, SoundPulse, Next
  <1>3. QED
    BY <1>1, <1>2, PTL DEF StationSpec, Spec

(* So no request is forgotten from reset on. *)
THEOREM StationForgetsNoRequest == StationSpec => []NoRequestForgotten
  BY StationImplementsReport, RequestNeverForgotten, PTL

(* And the light that kawaii_mqtt_demo reports is fresh, with all types    *)
(* kept.                                                                   *)
THEOREM StationReadsFresh == StationSpec => []TypeOK /\ []ReadingIsFresh
  BY StationImplementsReport, ReportTypeCorrect, ReadingAlwaysFresh, PTL
=============================================================================
