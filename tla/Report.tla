------------------------------- MODULE Report -------------------------------
(***************************************************************************)
(* How a report comes about.  A key press or a double clap raises          *)
(* flag_clap_send in an interrupt handler.  The main thread offers every   *)
(* light reading to a mailbox of one mail, without waiting.  The demo      *)
(* thread (kawaii_mqtt_demo) waits for a mail, drops it unless the flag is *)
(* up, and otherwise clears the flag, reads the other sensors, publishes   *)
(* and sleeps.                                                             *)
(*                                                                         *)
(* A reading is represented by its age: the number of mails the demo       *)
(* thread has received since the light was measured.                       *)
(***************************************************************************)
EXTENDS Integers, Sequences

CONSTANT MaxAge   \* bound: ages are counted up to here

ASSUME AgeAssumption == MaxAge \in Nat /\ MaxAge > 2

VARIABLES
  mpc,             \* the main thread: about to "read" the light or to "send" it
  sample,          \* the age of the reading it holds in light
  mb,              \* the mails in test_mb
  rpc,             \* what the demo thread does next
  mail,            \* the age of the reading in received_data
  flag_clap_send,
  waiting          \* history: a request has come since sensors were last read

vars == <<mpc, sample, mb, rpc, mail, flag_clap_send, waiting>>

(* Mutant: a mailbox of two mails. *)
MBSize_Two == 2

(* rt_mb_create("mb_test", 1, RT_IPC_FLAG_PRIO) *)
MBSize == 1

Older(age) == IF age < MaxAge THEN age + 1 ELSE age

Init ==
  /\ mpc = "read"
  /\ sample = 0
  /\ mb = <<>>
  /\ rpc = "connect"
  /\ mail = 0
  /\ flag_clap_send = 0
  /\ waiting = FALSE

-----------------------------------------------------------------------------
(* The main thread *)

(* rt_device_read(); read_temp() follows before the mail is sent. *)
ReadLight ==
  /\ mpc = "read"
  /\ sample' = 0
  /\ mpc' = "send"
  /\ UNCHANGED <<mb, rpc, mail, flag_clap_send, waiting>>

(* rt_mb_send(): it never waits, and a full mailbox refuses the new mail. *)
SendMail ==
  /\ mpc = "send"
  /\ \/ Len(mb) < MBSize /\ mb' = Append(mb, sample)
     \/ Len(mb) = MBSize /\ mb' = mb
  /\ mpc' = "read"
  /\ UNCHANGED <<sample, rpc, mail, flag_clap_send, waiting>>

-----------------------------------------------------------------------------
(* The demo thread *)

(* The 5 s delay, mqtt_connect(), mqtt_subscribe() and the first           *)
(* publication; none of their results is looked at.                        *)
Connect ==
  /\ rpc = "connect"
  /\ rpc' = "recv"
  /\ UNCHANGED <<mpc, sample, mb, mail, flag_clap_send, waiting>>

(* rt_mb_recv(test_mb, ..., RT_WAITING_FOREVER). *)
RecvMail ==
  /\ rpc = "recv"
  /\ mb # <<>>
  /\ mail' = Head(mb)
  /\ mb' = [i \in 1..Len(Tail(mb)) |-> Older(Tail(mb)[i])]
  /\ sample' = Older(sample)
  /\ rpc' = "test"
  /\ UNCHANGED <<mpc, flag_clap_send, waiting>>

(* ... && flag_clap_send == 1 *)
TestFlag ==
  /\ rpc = "test"
  /\ rpc' = IF flag_clap_send = 1 THEN "clear" ELSE "sleep"
  /\ UNCHANGED <<mpc, sample, mb, mail, flag_clap_send, waiting>>

(* flag_clap_send = 0 *)
ClearFlag ==
  /\ rpc = "clear"
  /\ flag_clap_send' = 0
  /\ rpc' = "sensors"
  /\ UNCHANGED <<mpc, sample, mb, mail, waiting>>

(* read_temp(), read_humi() and fbm320_read_data(). *)
ReadSensors ==
  /\ rpc = "sensors"
  /\ rpc' = "publish"
  /\ waiting' = FALSE
  /\ UNCHANGED <<mpc, sample, mb, mail, flag_clap_send>>

(* Mutant: the request is marked as done once it has been published. *)
Publish_ThenClear ==
  /\ rpc = "publish"
  /\ flag_clap_send' = 0
  /\ rpc' = "sleep"
  /\ UNCHANGED <<mpc, sample, mb, mail, waiting>>

(* mqtt_date_pub_json(), whose mqtt_publish() may fail unnoticed. *)
Publish ==
  /\ rpc = "publish"
  /\ rpc' = "sleep"
  /\ UNCHANGED <<mpc, sample, mb, mail, flag_clap_send, waiting>>

(* mqtt_sleep_ms(500) *)
Sleep ==
  /\ rpc = "sleep"
  /\ rpc' = "recv"
  /\ UNCHANGED <<mpc, sample, mb, mail, flag_clap_send, waiting>>

-----------------------------------------------------------------------------
(* Mutant: the requests are counted. *)
Request_Counted ==
  /\ flag_clap_send' = flag_clap_send + 1
  /\ waiting' = TRUE
  /\ UNCHANGED <<mpc, sample, mb, rpc, mail>>

(* The interrupt handlers: on_key1_clicked(), and on_clap_space_timer()    *)
(* after two claps.                                                        *)
Request ==
  /\ flag_clap_send' = 1
  /\ waiting' = TRUE
  /\ UNCHANGED <<mpc, sample, mb, rpc, mail>>

MainThread == ReadLight \/ SendMail

DemoThread == Connect \/ RecvMail \/ TestFlag \/ ClearFlag \/ ReadSensors \/ Publish \/ Sleep

Next == MainThread \/ DemoThread \/ Request

Spec == Init /\ [][Next]_vars

-----------------------------------------------------------------------------
(* Properties *)

TypeOK ==
  /\ mpc \in {"read", "send"}
  /\ sample \in 0..MaxAge
  /\ mb \in Seq(0..MaxAge)
  /\ rpc \in {"connect", "recv", "test", "clear", "sensors", "publish", "sleep"}
  /\ mail \in 0..MaxAge
  /\ flag_clap_send \in {0, 1}
  /\ waiting \in BOOLEAN

(* No request is forgotten: from the interrupt until the sensors are read  *)
(* for it, either the flag is up or the demo thread is about to read them. *)
(* Clearing the flag before reading, not after publishing, is what keeps a *)
(* request that comes during a report.                                     *)
NoRequestForgotten == waiting => flag_clap_send = 1 \/ rpc = "sensors"

(* The light reading of a report is no relic: at most one other mail was   *)
(* received between its measurement and its own reception, although the    *)
(* mailbox keeps its old mail and refuses newer ones, and however long     *)
(* publishing takes.                                                       *)
ReadingIsFresh == rpc # "recv" => mail <= 1

(* Every request leads to a report (checked in Station, under fairness). *)
RequestIsServed == waiting ~> (rpc = "publish")
=============================================================================
