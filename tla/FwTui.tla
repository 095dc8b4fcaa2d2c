------------------------------- MODULE FwTui -------------------------------
(***************************************************************************)
(* The model of the fw-update-tui screen (FWModel in                       *)
(* internal/tui/fwupdate.go): one row per bay, kept up to date with the    *)
(* progress events of the workers, and the conclusion it draws from them.  *)
(* Module WorkerPool runs its actions.                                     *)
(*                                                                         *)
(* A worker hands each event to the program and waits until the event loop *)
(* has taken it (tea.Program.Send), so its events arrive in order, and     *)
(* those of different workers in any order. After the program has ended an *)
(* event goes nowhere and the worker carries on.                           *)
(***************************************************************************)
EXTENDS Naturals, FiniteSets

CONSTANTS
    Devices,  \* the devices that are updated
    BayOf,    \* the bay of each: bayForLoc
    Images    \* images written to a device

VARIABLES
    written,  \* images each worker has begun to write
    stage,    \* the stage each worker is in: that of the last event it made
    sending,  \* the workers whose event has not been taken yet
    rows,     \* FWModel.devices
    allDone,  \* FWModel.allDone
    ended     \* the program has ended; no action here ends it

Stages == {"identifying", "identified", "powering_off", "writing", "rebooting",
           "applying", "verifying", "completed", "failed"}
Terminal == {"completed", "failed"}
Bays == {BayOf[d] : d \in Devices}

Row == [stage : Stages, finished : BOOLEAN, succeeded : BOOLEAN]

\* NewFWModel; no worker has been started yet.
Init ==
    /\ written = [d \in Devices |-> 0]
    /\ stage = [d \in Devices |-> "none"]
    /\ sending = {}
    /\ rows = [b \in Bays |-> [stage |-> "identifying", finished |-> FALSE, succeeded |-> FALSE]]
    /\ allDone = FALSE

-----------------------------------------------------------------------------
(* The workers: the events updateDeviceFirmware makes, in their order.     *)

MoreImages(d) == written[d] < Images

NextStages(d) ==
    CASE stage[d] = "none"         -> {"identifying"}
      [] stage[d] = "identifying"  -> {"identified", "failed"}
      [] stage[d] = "identified"   -> {"powering_off"}
      [] stage[d] = "powering_off" -> {"writing", "failed"}
      [] stage[d] = "writing"      -> {"failed"} \cup (IF MoreImages(d) THEN {"writing"} ELSE {"rebooting"})
      [] stage[d] = "rebooting"    -> {"applying"}
      [] stage[d] = "applying"     -> {"verifying"}
      [] stage[d] = "verifying"    -> {"completed", "failed"}
      [] stage[d] \in Terminal     -> {}

\* The worker's event before this one has been taken, or dropped.
SendReturned(d) == d \notin sending

\* A worker of fw-update has no progress function: it makes no event.
Emit(d, tui) ==
    /\ SendReturned(d)
    /\ \E s \in NextStages(d) :
          /\ stage' = [stage EXCEPT ![d] = s]
          /\ written' = IF s = "writing" THEN [written EXCEPT ![d] = @ + 1] ELSE written
    /\ sending' = IF tui THEN sending \cup {d} ELSE sending
    /\ UNCHANGED <<rows, allDone>>

\* Send gives up on a program that has ended.
Drop(d) ==
    /\ ended
    /\ d \in sending
    /\ sending' = sending \ {d}
    /\ UNCHANGED <<written, stage, rows, allDone>>

\* updateDeviceFirmware has returned.
Returned(d) == stage[d] \in Terminal /\ SendReturned(d)

-----------------------------------------------------------------------------
(* The event loop: Update.                                                 *)

\* Deliberate fault, with which the properties must fail.
FailureNotFinished(row, s) ==
    [stage |-> s, finished |-> (row.finished \/ s = "completed"), succeeded |-> (row.succeeded \/ s = "completed")]

\* applyEvent. Neither flag is ever taken back.
Applied(row, s) ==
    [stage     |-> s,
     finished  |-> (row.finished \/ s \in Terminal),
     succeeded |-> (row.succeeded \/ s = "completed")]

ApplyEvent(d) ==
    /\ ~ended
    /\ d \in sending
    /\ sending' = sending \ {d}
    /\ rows' = [rows EXCEPT ![BayOf[d]] = Applied(@, stage[d])]
    /\ UNCHANGED <<written, stage, allDone>>

TakeAllDone ==
    /\ ~ended
    /\ allDone' = TRUE
    /\ UNCHANGED <<written, stage, sending, rows>>

-----------------------------------------------------------------------------
(* What the screen shows when all is done: renderConclusion and counts.    *)

Ok == Cardinality({b \in Bays : rows[b].finished /\ rows[b].succeeded})
Fail == Cardinality({b \in Bays : rows[b].finished /\ ~rows[b].succeeded})

\* The total is len(bayOrder), which keeps a bay that is given twice.
Total == Cardinality(Devices)

Headline ==
    CASE Fail = 0 -> [says |-> "all_updated", ok |-> Total, fail |-> 0]
      [] Fail # 0 /\ Ok = 0 -> [says |-> "all_failed", ok |-> 0, fail |-> Total]
      [] OTHER -> [says |-> "some", ok |-> Ok, fail |-> Fail]

-----------------------------------------------------------------------------
(* Properties.                                                             *)

Updated == {d \in Devices : stage[d] = "completed"}

\* What the conclusion says is what the workers found, when no bay is given to
\* two devices: no event is still on its way when it is drawn, none was lost.
ConclusionIsTrue ==
    allDone =>
        /\ Headline.ok = Cardinality(Updated)
        /\ Headline.fail = Cardinality(Devices \ Updated)

=============================================================================
