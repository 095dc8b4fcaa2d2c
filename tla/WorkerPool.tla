----------------------------- MODULE WorkerPool -----------------------------
(***************************************************************************)
(* The pool of workers of deploy and fw-update, and the one of             *)
(* fw-update-tui: a sync.WaitGroup, a channel used as a semaphore, one     *)
(* goroutine per device, and a deferred CloseAll that closes every serial  *)
(* channel when the command returns.                                       *)
(*                                                                         *)
(* The two plain commands launch the workers from the goroutine that       *)
(* waits for them. fw-update-tui launches them from a goroutine of its own *)
(* while the command runs the terminal UI, which the user may quit at any  *)
(* time, and waits only then. Its workers and its screen are those of      *)
(* module FwTui; the workers of a plain command have no progress function. *)
(***************************************************************************)
EXTENDS Naturals, FiniteSets

CONSTANTS
    Devices,     \* channels to work on, launched in the order 1 .. Devices
    Workers,     \* --workers: the capacity of the semaphore
    BayOf,       \* the bay of each
    Images,      \* images written to a device
    Tui,         \* the commands looked at: TRUE for fw-update-tui
    UiMayFail    \* program.Run may return an error

Ids == 1 .. Devices

ASSUME PoolAssumption ==
    /\ Devices \in Nat \ {0}
    /\ Workers \in Nat \ {0}
    /\ DOMAIN BayOf = Ids
    /\ Images \in Nat
    /\ Tui \subseteq BOOLEAN
    /\ UiMayFail \in BOOLEAN

VARIABLES
    tui,       \* the command is fw-update-tui
    launcher,  \* the loop that launches: at wg.Add, at the semaphore, at go
    next,      \* the device it is at
    waitGroup, \* the counter of the sync.WaitGroup
    slots,     \* values in the semaphore channel
    worker,    \* what each worker goroutine is doing
    main,      \* the command: in the UI, waiting, closing, returned
    leftEarly, \* (history) it left the UI before the last go, or by an error
    \* the workers' progress and the screen:
    written, stage, sending, rows, allDone

Screen == INSTANCE FwTui WITH Devices <- Ids, ended <- main # "ui"

screenVars == <<written, stage, sending, rows, allDone>>
vars == <<tui, launcher, next, waitGroup, slots, worker, main, leftEarly, screenVars>>

Init ==
    /\ tui \in Tui
    /\ launcher = "add"
    /\ next = 1
    /\ waitGroup = 0
    /\ slots = 0
    /\ worker = [d \in Ids |-> "none"]
    /\ main = IF tui THEN "ui" ELSE "launching"
    /\ leftEarly = FALSE
    /\ Screen!Init

\* Every goroutine ends with the process when the command returns.
Running == main # "returned"

-----------------------------------------------------------------------------
(* The loop over the locations.                                            *)

\* Deliberate faults, here and below, with which the properties must fail:
\* wg.Add is forgotten, a slot is kept.
AddForgotten == 0
SlotsAfterNoRelease == slots

\* wg.Add(1) comes before the semaphore and before the go statement.
AddBeforeGo == 1

Add ==
    /\ Running
    /\ launcher = "add"
    /\ next <= Devices
    /\ waitGroup' = waitGroup + AddBeforeGo
    /\ launcher' = "acquire"
    /\ UNCHANGED <<tui, next, slots, worker, main, leftEarly, screenVars>>

SlotFree == slots < Workers

\* sem <- struct{}{}
Acquire ==
    /\ Running
    /\ launcher = "acquire"
    /\ SlotFree
    /\ slots' = slots + 1
    /\ launcher' = "go"
    /\ UNCHANGED <<tui, next, waitGroup, worker, main, leftEarly, screenVars>>

Go ==
    /\ Running
    /\ launcher = "go"
    /\ worker' = [worker EXCEPT ![next] = "running"]
    /\ next' = next + 1
    /\ launcher' = "add"
    /\ UNCHANGED <<tui, waitGroup, slots, main, leftEarly, screenVars>>

\* The loop is over: a plain command goes on to wg.Wait, the launcher of the
\* TUI waits by itself and then tells the UI.
EndLoop ==
    /\ Running
    /\ launcher = "add"
    /\ next > Devices
    /\ launcher' = IF tui THEN "wait" ELSE "end"
    /\ main' = IF tui THEN main ELSE "waiting"
    /\ UNCHANGED <<tui, next, waitGroup, slots, worker, leftEarly, screenVars>>

LauncherWaits ==
    /\ Running
    /\ launcher = "wait"
    /\ waitGroup = 0
    /\ launcher' = "send"
    /\ UNCHANGED <<tui, next, waitGroup, slots, worker, main, leftEarly, screenVars>>

\* program.Send of FWAllDoneMsg: the event loop takes it, or has ended.
AllDoneTaken ==
    /\ launcher = "send"
    /\ Screen!TakeAllDone
    /\ launcher' = "end"
    /\ UNCHANGED <<tui, next, waitGroup, slots, worker, main, leftEarly>>

AllDoneDropped ==
    /\ Running
    /\ launcher = "send"
    /\ main # "ui"
    /\ launcher' = "end"
    /\ UNCHANGED <<tui, next, waitGroup, slots, worker, main, leftEarly, screenVars>>

-----------------------------------------------------------------------------
(* A worker: its device's work, then the two deferred calls.               *)

poolVars == <<tui, launcher, next, waitGroup, slots, main, leftEarly>>

\* The next stage of updateDeviceFirmware; or an event nobody is left to take.
Work(d) ==
    /\ Running
    /\ worker[d] = "running"
    /\ Screen!Emit(d, tui) \/ Screen!Drop(d)
    /\ UNCHANGED <<poolVars, worker>>

\* The event loop takes its event.
EventTaken(d) ==
    /\ Screen!ApplyEvent(d)
    /\ UNCHANGED <<poolVars, worker>>

WorkEnds(d) ==
    /\ Running
    /\ worker[d] = "running"
    /\ Screen!Returned(d)
    /\ worker' = [worker EXCEPT ![d] = "release"]
    /\ UNCHANGED <<poolVars, screenVars>>

SlotsAfterRelease == slots - 1

\* defer func() { <-sem }() runs first, it was deferred last.
Release(d) ==
    /\ Running
    /\ worker[d] = "release"
    /\ slots' = SlotsAfterRelease
    /\ worker' = [worker EXCEPT ![d] = "done"]
    /\ UNCHANGED <<tui, launcher, next, waitGroup, main, leftEarly, screenVars>>

\* defer wg.Done()
Done(d) ==
    /\ Running
    /\ worker[d] = "done"
    /\ waitGroup' = waitGroup - 1
    /\ worker' = [worker EXCEPT ![d] = "ended"]
    /\ UNCHANGED <<tui, launcher, next, slots, main, leftEarly, screenVars>>

-----------------------------------------------------------------------------
(* The command.                                                            *)

\* ctrl+c ends the program at once, q only when all is done.
Quit(key) ==
    /\ main = "ui"
    /\ key = "q" => allDone
    /\ main' = "waiting"
    /\ leftEarly' = (next <= Devices)
    /\ UNCHANGED <<tui, launcher, next, waitGroup, slots, worker, screenVars>>

\* program.Run returns an error: the command returns without wg.Wait, and the
\* process ends with every goroutine that is left.
UiFails ==
    /\ main = "ui"
    /\ UiMayFail
    /\ main' = "returned"
    /\ leftEarly' = TRUE
    /\ UNCHANGED <<tui, launcher, next, waitGroup, slots, worker, screenVars>>

\* wg.Wait returns when it finds the counter at zero.
Wait ==
    /\ main = "waiting"
    /\ waitGroup = 0
    /\ main' = "closing"
    /\ UNCHANGED <<tui, launcher, next, waitGroup, slots, worker, leftEarly, screenVars>>

\* The deferred CloseAll closes every channel, and the process ends.
CloseAll ==
    /\ main = "closing"
    /\ main' = "returned"
    /\ UNCHANGED <<tui, launcher, next, waitGroup, slots, worker, leftEarly, screenVars>>

-----------------------------------------------------------------------------
Launcher == Add \/ Acquire \/ Go \/ EndLoop \/ LauncherWaits \/ AllDoneDropped
Worker(d) == Work(d) \/ WorkEnds(d) \/ Release(d) \/ Done(d)
EventLoop == AllDoneTaken \/ \E d \in Ids : EventTaken(d)

Next ==
    \/ Launcher
    \/ \E d \in Ids : Worker(d)
    \/ EventLoop
    \/ \E key \in {"q", "ctrl+c"} : Quit(key)
    \/ UiFails
    \/ Wait
    \/ CloseAll

Spec == Init /\ [][Next]_vars

\* Goroutines that can go on do, each device's work ends (FwDevice), and the
\* user presses q at some time after the screen has asked for it.
FairSpec ==
    /\ Spec
    /\ WF_vars(Launcher)
    /\ WF_vars(EventLoop)
    /\ WF_vars(Wait \/ CloseAll)
    /\ WF_vars(Quit("q"))
    /\ \A d \in Ids : WF_vars(Worker(d))

-----------------------------------------------------------------------------
(* Properties.                                                             *)

\* "If the user quit before workers finished, wait for them so we don't pull
\* the rug out from open serial channels" (fwupdate_tui.go): the channels are
\* closed only when no worker is at work on one.
NoRugPull == main \in {"closing", "returned"} => \A d \in Ids : worker[d] # "running"

\* It holds, and no device is left out, for the plain commands and for a user
\* who quits once every worker is launched.
NoneLeftOut ==
    main \in {"closing", "returned"} /\ ~leftEarly => \A d \in Ids : worker[d] = "ended"

\* What the screen concludes is what the workers found: no event is still on
\* its way when it is drawn and none was lost.
ConclusionIsTrue == Screen!ConclusionIsTrue

\* Every command ends, its user quitting no earlier than the screen asks for
\* it: no worker waits for a slot that is never freed or for an event that is
\* never taken, wg.Wait returns, and the screen does come to its conclusion.
CommandEnds == <>(main = "returned")

=============================================================================
