-------------------------- MODULE WorkerPoolProof --------------------------
(***************************************************************************)
(* Proofs about WorkerPool for every number of devices and of workers, for *)
(* the plain commands and for fw-update-tui, whatever the user does.       *)
(***************************************************************************)
EXTENDS WorkerPool, FiniteSetTheorems, FunctionTheorems, TLAPS

(* The inductive invariant of the pool.                                    *)

WorkerStates == {"none", "running", "release", "done", "ended"}
Launching == {"add", "acquire", "go"}

PoolType ==
    /\ tui \in BOOLEAN
    /\ launcher \in Launching \cup {"wait", "send", "end"}
    /\ next \in 1 .. Devices + 1
    /\ worker \in [Ids -> WorkerStates]
    /\ main \in {"ui", "launching", "waiting", "closing", "returned"}
    /\ leftEarly \in BOOLEAN

\* The devices behind the launcher have a worker, the others do not yet.
Launched ==
    /\ \A d \in Ids : worker[d] = "none" <=> d >= next
    /\ launcher \in {"acquire", "go"} => next <= Devices
    /\ launcher \in {"wait", "send", "end"} => next > Devices

\* Where the command is while the launcher is at its work.
CommandOf ==
    /\ ~tui => (main = "launching" <=> launcher \in Launching)
    /\ ~tui => launcher \notin {"wait", "send"} /\ main # "ui"
    /\ tui => main # "launching"
    /\ main \in {"waiting", "closing", "returned"} /\ ~leftEarly => next > Devices

\* What the counter of the WaitGroup counts: the devices added whose worker
\* has not called Done; and what the semaphore holds: one value for each
\* device between its turn and the end of its work.
Outstanding ==
    {d \in Ids : worker[d] # "ended" /\ (d < next \/ (d = next /\ launcher \in {"acquire", "go"}))}
Holding == {d \in Ids : worker[d] \in {"running", "release"} \/ (d = next /\ launcher = "go")}

Counted ==
    /\ waitGroup = Cardinality(Outstanding)
    /\ slots = Cardinality(Holding)
    /\ slots <= Workers

\* Whoever has found the counter at zero after the last Add finds it there for
\* ever.
WaitOver ==
    \/ tui /\ launcher \in {"send", "end"}
    \/ main \in {"closing", "returned"} /\ ~leftEarly
    => Outstanding = {}

PoolInv == PoolType /\ Launched /\ CommandOf /\ Counted /\ WaitOver

(* The inductive invariant of the screen.                                  *)

ScreenType ==
    /\ written \in [Ids -> Nat]
    /\ stage \in [Ids -> Screen!Stages \cup {"none"}]
    /\ sending \subseteq Ids
    /\ rows \in [Screen!Bays -> Screen!Row]
    /\ allDone \in BOOLEAN

\* A worker has made its last event, and the program has taken it or ended,
\* when it comes to its deferred calls; before its start it makes none.
LastEventGone ==
    \A d \in Ids :
        /\ worker[d] \in {"release", "done", "ended"} => Screen!Returned(d)
        /\ d \in sending => worker[d] = "running" /\ tui /\ stage[d] # "none"

\* The screen concludes only after the launcher has waited for the workers.
DoneIsOver == allDone => tui /\ launcher \in {"send", "end"}

\* While events are taken, the row of a device says of it what its worker has
\* found, except that the event on its way is not in it yet.
RowsFollow ==
    main = "ui" \/ allDone =>
        \A d \in Ids :
            LET row == rows[BayOf[d]]
            IN  /\ d \in sending => ~row.finished /\ ~row.succeeded
                /\ d \notin sending =>
                      /\ row.finished <=> stage[d] \in Screen!Terminal
                      /\ row.succeeded <=> stage[d] = "completed"

ScreenInv == ScreenType /\ LastEventGone /\ DoneIsOver /\ RowsFollow

IInv == PoolInv /\ ScreenInv

-----------------------------------------------------------------------------
(* The pool.                                                               *)

LEMMA DevicesIsNat == Devices \in Nat /\ Workers \in Nat /\ Devices > 0 /\ Workers > 0
  BY PoolAssumption

\* The actions, one per line, as the proofs below distinguish them.
LEMMA NextCases ==
    ASSUME Next
    PROVE  \/ Add \/ Acquire \/ Go \/ EndLoop \/ LauncherWaits
           \/ AllDoneTaken \/ AllDoneDropped
           \/ \E d \in Ids : Work(d) \/ EventTaken(d) \/ WorkEnds(d) \/ Release(d) \/ Done(d)
           \/ \E key \in {"q", "ctrl+c"} : Quit(key)
           \/ UiFails \/ Wait \/ CloseAll
  BY DEF Next, Launcher, Worker, EventLoop

\* The counted sets are finite.
LEMMA CountedAreFinite ==
    /\ IsFiniteSet(Outstanding) /\ Cardinality(Outstanding) \in Nat
    /\ IsFiniteSet(Holding) /\ Cardinality(Holding) \in Nat
<1>1. IsFiniteSet(Ids)
  BY DevicesIsNat, FS_Interval DEF Ids
<1>2. Outstanding \in SUBSET Ids /\ Holding \in SUBSET Ids
  BY DEF Outstanding, Holding
<1>. QED
  BY <1>1, <1>2, FS_Subset, FS_CardinalityType

\* Before anything is launched nothing is counted.
LEMMA InitPool == Init => PoolInv
<1>. SUFFICES ASSUME Init PROVE PoolInv
  OBVIOUS
<1>. USE DevicesIsNat DEF Init, Ids
<1>0. tui \in BOOLEAN
  BY PoolAssumption
<1>1. PoolType
  <2>1. leftEarly \in BOOLEAN /\ main \in {"ui", "launching"} /\ launcher = "add" /\ next = 1
    OBVIOUS
  <2>2. worker \in [Ids -> WorkerStates]
    BY DEF WorkerStates
  <2>. QED
    BY <1>0, <2>1, <2>2 DEF PoolType, Launching
<1>2. Launched /\ CommandOf
  BY DEF Launched, CommandOf, Launching
<1>3. Outstanding = {} /\ Holding = {}
  BY DEF Outstanding, Holding
<1>4. Counted /\ WaitOver
  BY <1>3, FS_EmptySet DEF Counted, WaitOver
<1>. QED
  BY <1>1, <1>2, <1>4 DEF PoolInv

\* Where the launcher, the workers and the command are, relative to each other.
LEMMA ShapeKept ==
    ASSUME PoolType, Launched, CommandOf, Next
    PROVE  PoolType' /\ Launched' /\ CommandOf'
<1>. USE DevicesIsNat DEF PoolType, WorkerStates, Launching, Launched, CommandOf, Ids, screenVars
<1>1. CASE Add
  BY <1>1 DEF Add
<1>2. CASE Acquire
  BY <1>2 DEF Acquire
<1>3. CASE Go
  BY <1>3 DEF Go
<1>4. CASE EndLoop
  BY <1>4 DEF EndLoop
<1>5. CASE LauncherWaits
  BY <1>5 DEF LauncherWaits
<1>6. CASE AllDoneTaken
  BY <1>6 DEF AllDoneTaken
<1>7. CASE AllDoneDropped
  BY <1>7 DEF AllDoneDropped
<1>8. ASSUME NEW d \in Ids, Work(d) \/ EventTaken(d) PROVE PoolType' /\ Launched' /\ CommandOf'
  BY <1>8 DEF Work, EventTaken, poolVars
<1>9. ASSUME NEW d \in Ids, WorkEnds(d) PROVE PoolType' /\ Launched' /\ CommandOf'
  BY <1>9 DEF WorkEnds, poolVars
<1>10. ASSUME NEW d \in Ids, Release(d) PROVE PoolType' /\ Launched' /\ CommandOf'
  BY <1>10 DEF Release
<1>11. ASSUME NEW d \in Ids, Done(d) PROVE PoolType' /\ Launched' /\ CommandOf'
  BY <1>11 DEF Done
<1>12. ASSUME NEW key \in {"q", "ctrl+c"}, Quit(key) PROVE PoolType' /\ Launched' /\ CommandOf'
  BY <1>12 DEF Quit
<1>13. CASE UiFails
  BY <1>13 DEF UiFails
<1>14. CASE Wait
  BY <1>14 DEF Wait
<1>15. CASE CloseAll
  BY <1>15 DEF CloseAll
<1>. QED
  BY <1>1, <1>2, <1>3, <1>4, <1>5, <1>6, <1>7, <1>8, <1>9, <1>10, <1>11, <1>12, <1>13, <1>14,
     <1>15, NextCases

\* What is counted changes as the counters do: Add and Acquire count the device
\* whose turn it is, Release and Done take away the worker's.
LEMMA CountsKept ==
    ASSUME PoolInv, Next
    PROVE  Counted' /\ WaitOver'
<1>. USE DevicesIsNat, CountedAreFinite DEF PoolInv, PoolType, Launched, CommandOf, Counted
<1>0. next \in Int /\ Workers \in Int /\ Cardinality(Outstanding) \in Int
  BY DEF Ids
<1>1. CASE Add
  <2>1. Outstanding' = Outstanding \cup {next} /\ next \notin Outstanding
    BY <1>1 DEF Add, Outstanding, Ids
  <2>2. Holding' = Holding
    BY <1>1 DEF Add, Holding
  <2>3. waitGroup' = Cardinality(Outstanding')
    BY <1>1, <2>1, FS_AddElement DEF Add, AddBeforeGo
  <2>4. WaitOver'
    BY <1>1 DEF Add, WaitOver, Running, Launching
  <2>. QED
    BY <1>1, <2>2, <2>3, <2>4 DEF Add
<1>2. CASE Acquire
  <2>1. Outstanding' = Outstanding
    BY <1>2 DEF Acquire, Outstanding
  <2>2. Holding' = Holding \cup {next} /\ next \notin Holding
    BY <1>2 DEF Acquire, Holding, Ids, Launching
  <2>3. slots' = Cardinality(Holding') /\ slots' <= Workers
    <3>1. Cardinality(Holding \cup {next}) = Cardinality(Holding) + 1
      BY <2>2, FS_AddElement
    <3>2. slots \in Int /\ slots < Workers /\ slots' = slots + 1
      BY <1>2 DEF Acquire, SlotFree
    <3>. QED
      BY <2>2, <3>1, <3>2
  <2>4. WaitOver'
    BY <1>2 DEF Acquire, WaitOver, Launching
  <2>. QED
    BY <1>2, <2>1, <2>3, <2>4 DEF Acquire
<1>3. CASE Go
  <2>1. Outstanding' = Outstanding
    BY <1>3 DEF Go, Outstanding, Ids, WorkerStates
  <2>2. Holding' = Holding
    BY <1>3 DEF Go, Holding, Ids, WorkerStates
  <2>3. WaitOver'
    BY <1>3 DEF Go, WaitOver, Launching
  <2>. QED
    BY <1>3, <2>1, <2>2, <2>3 DEF Go
<1>4. ASSUME \/ EndLoop \/ LauncherWaits \/ AllDoneTaken \/ AllDoneDropped
             \/ \E d \in Ids : Work(d) \/ EventTaken(d)
             \/ \E key \in {"q", "ctrl+c"} : Quit(key)
             \/ UiFails \/ Wait \/ CloseAll
      PROVE  Counted' /\ WaitOver'
  <2>1. UNCHANGED <<next, waitGroup, slots, worker, tui>>
    BY <1>4 DEF EndLoop, LauncherWaits, AllDoneTaken, AllDoneDropped, Work, EventTaken, Quit,
                UiFails, Wait, CloseAll, poolVars
  <2>2. launcher' \in {"acquire", "go"} <=> launcher \in {"acquire", "go"}
    BY <1>4 DEF EndLoop, LauncherWaits, AllDoneTaken, AllDoneDropped, Work, EventTaken, Quit,
                UiFails, Wait, CloseAll, poolVars
  <2>3. launcher' = "go" <=> launcher = "go"
    BY <1>4 DEF EndLoop, LauncherWaits, AllDoneTaken, AllDoneDropped, Work, EventTaken, Quit,
                UiFails, Wait, CloseAll, poolVars
  <2>4. Outstanding' = Outstanding /\ Holding' = Holding
    BY <2>1, <2>2, <2>3 DEF Outstanding, Holding
  <2>5. waitGroup = 0 => Outstanding = {}
    BY FS_EmptySet
  <2>6. WaitOver'
    BY <1>4, <2>4, <2>5
    DEF EndLoop, LauncherWaits, AllDoneTaken, AllDoneDropped, Work, EventTaken, Quit,
        UiFails, Wait, CloseAll, poolVars, WaitOver, Launching
  <2>. QED
    BY <2>1, <2>4, <2>6
<1>5. ASSUME NEW d \in Ids, WorkEnds(d)
      PROVE  Counted' /\ WaitOver'
  <2>1. Outstanding' = Outstanding /\ Holding' = Holding
    BY <1>5 DEF WorkEnds, poolVars, Outstanding, Holding, WorkerStates
  <2>. QED
    BY <1>5, <2>1 DEF WorkEnds, poolVars, WaitOver
<1>6. ASSUME NEW d \in Ids, Release(d)
      PROVE  Counted' /\ WaitOver'
  <2>1. Outstanding' = Outstanding
    BY <1>6 DEF Release, Outstanding, WorkerStates
  <2>2. Holding' = Holding \ {d} /\ d \in Holding
    BY <1>6 DEF Release, Holding, WorkerStates, Ids
  <2>3. slots' = Cardinality(Holding') /\ slots' <= Workers
    <3>1. Cardinality(Holding \ {d}) = Cardinality(Holding) - 1
      BY <2>2, FS_RemoveElement
    <3>2. slots \in Int /\ slots <= Workers /\ slots' = slots - 1
      BY <1>6 DEF Release, SlotsAfterRelease
    <3>. QED
      BY <2>2, <3>1, <3>2
  <2>. QED
    BY <1>6, <2>1, <2>3 DEF Release, WaitOver
<1>7. ASSUME NEW d \in Ids, Done(d)
      PROVE  Counted' /\ WaitOver'
  <2>1. Outstanding' = Outstanding \ {d} /\ d \in Outstanding
    BY <1>7 DEF Done, Outstanding, WorkerStates, Ids
  <2>2. Holding' = Holding
    BY <1>7 DEF Done, Holding, WorkerStates
  <2>3. waitGroup' = Cardinality(Outstanding')
    BY <1>7, <2>1, FS_RemoveElement DEF Done
  <2>. QED
    BY <1>7, <2>1, <2>2, <2>3 DEF Done, WaitOver
<1>. QED
  BY <1>1, <1>2, <1>3, <1>4, <1>5, <1>6, <1>7, NextCases

LEMMA StepPool ==
    ASSUME PoolInv, [Next]_vars
    PROVE  PoolInv'
<1>1. CASE Next
  BY <1>1, ShapeKept, CountsKept DEF PoolInv
<1>2. CASE UNCHANGED vars
  BY <1>2 DEF vars, PoolInv, PoolType, Launched, CommandOf, Counted, Outstanding, Holding, WaitOver
<1>. QED
  BY <1>1, <1>2

LEMMA PoolInvariance == Spec => []PoolInv
  BY InitPool, StepPool, PTL DEF Spec

\* A command that lets its launcher finish returns only after every device has
\* been worked on, and no channel is closed under a worker.
THEOREM EveryDeviceIsWaitedFor == Spec => []NoneLeftOut
<1>1. PoolInv => NoneLeftOut
  BY DevicesIsNat DEF PoolInv, PoolType, CommandOf, WaitOver, Outstanding, NoneLeftOut, Ids
<1>. QED
  BY <1>1, PoolInvariance, PTL

\* --workers bounds the devices that are worked on at a time.
AtMostWorkersAtWork == Cardinality({d \in Ids : worker[d] = "running"}) <= Workers

\* The semaphore does it: each worker at work has a value of its own in it.
THEOREM SemaphoreBoundsWork == Spec => []AtMostWorkersAtWork
<1>1. ASSUME PoolInv PROVE AtMostWorkersAtWork
  <2>. DEFINE AtWork == {d \in Ids : worker[d] = "running"}
  <2>1. AtWork \in SUBSET Holding
    BY DEF Holding
  <2>2. Cardinality(AtWork) <= Cardinality(Holding) /\ Cardinality(AtWork) \in Nat
    BY <2>1, CountedAreFinite, FS_Subset, FS_CardinalityType
  <2>. QED
    BY <1>1, <2>2, CountedAreFinite, DevicesIsNat DEF AtMostWorkersAtWork, PoolInv, Counted
<1>. QED
  BY <1>1, PoolInvariance, PTL

-----------------------------------------------------------------------------
(* The screen.                                                             *)

\* No bay is given to two devices: the workers' rows are theirs alone.
BaysApart == \A d, e \in Ids : BayOf[d] = BayOf[e] => d = e

\* A worker makes no event after its last.
LEMMA StagesEnd ==
    ASSUME ScreenType, NEW d \in Ids, NEW s \in Screen!NextStages(d)
    PROVE  s \in Screen!Stages /\ stage[d] \notin Screen!Terminal
<1>1. stage[d] \in Screen!Stages \cup {"none"}
  BY DEF ScreenType
<1>2. CASE stage[d] \in Screen!Terminal
  BY <1>2 DEF Screen!NextStages, Screen!Terminal
<1>3. CASE stage[d] = "none"
  BY <1>3 DEF Screen!NextStages, Screen!Stages, Screen!Terminal
<1>4. CASE stage[d] \in Screen!Stages \ (Screen!Terminal \cup {"writing"})
  BY <1>4 DEF Screen!NextStages, Screen!Stages, Screen!Terminal
<1>5. CASE stage[d] = "writing"
  BY <1>5 DEF Screen!NextStages, Screen!Stages, Screen!Terminal, Screen!MoreImages
<1>. QED
  BY <1>1, <1>2, <1>3, <1>4, <1>5 DEF Screen!Stages, Screen!Terminal

LEMMA RowTyped ==
    ASSUME ScreenType, NEW d \in Ids
    PROVE  /\ BayOf[d] \in Screen!Bays
           /\ rows[BayOf[d]] \in Screen!Row
           /\ rows[BayOf[d]].finished \in BOOLEAN
           /\ rows[BayOf[d]].succeeded \in BOOLEAN
<1>1. BayOf[d] \in Screen!Bays
  BY DEF Screen!Bays
<1>2. rows[BayOf[d]] \in Screen!Row
  BY <1>1 DEF ScreenType
<1>. QED
  BY <1>1, <1>2 DEF Screen!Row

\* Once the screen has concluded no worker is at work.
LEMMA NobodyAtWork ==
    ASSUME PoolInv, DoneIsOver, allDone, NEW d \in Ids
    PROVE  worker[d] = "ended"
<1>1. Outstanding = {} /\ next > Devices
  BY DEF PoolInv, DoneIsOver, WaitOver, Launched
<1>2. d < next
  BY <1>1, DevicesIsNat DEF Ids, PoolInv, PoolType
<1>. QED
  BY <1>1, <1>2 DEF Outstanding

LEMMA InitScreen == Init => ScreenInv
<1>. SUFFICES ASSUME Init PROVE ScreenInv
  OBVIOUS
<1>. USE DEF Init, Screen!Init
<1>1. ScreenType
  <2>1. rows \in [Screen!Bays -> Screen!Row]
    BY DEF Screen!Row, Screen!Stages
  <2>. QED
    BY <2>1 DEF ScreenType
<1>2. LastEventGone /\ DoneIsOver
  BY DEF LastEventGone, DoneIsOver
<1>3. RowsFollow
  BY RowTyped, <1>1 DEF RowsFollow, Screen!Bays, Screen!Terminal
<1>. QED
  BY <1>1, <1>2, <1>3 DEF ScreenInv

\* A worker's next event: its row shows neither flag yet, and the screen has
\* not concluded. An event nobody is left to take changes no row.
LEMMA WorkKeepsScreen ==
    ASSUME PoolInv, ScreenInv, NEW d \in Ids, Work(d)
    PROVE  ScreenInv'
<1>1. worker[d] = "running" /\ ~allDone
  BY NobodyAtWork DEF Work, ScreenInv
<1>2. UNCHANGED <<tui, launcher, next, waitGroup, slots, main, leftEarly, worker>>
  BY DEF Work, poolVars
<1>3. CASE Screen!Emit(d, tui)
  <2>1. PICK s \in Screen!NextStages(d) :
            /\ stage' = [stage EXCEPT ![d] = s]
            /\ written' = IF s = "writing" THEN [written EXCEPT ![d] = @ + 1] ELSE written
    BY <1>3 DEF Screen!Emit
  <2>2. /\ d \notin sending
        /\ sending' = IF tui THEN sending \cup {d} ELSE sending
        /\ UNCHANGED <<rows, allDone>>
    BY <1>3 DEF Screen!Emit, Screen!SendReturned
  <2>3. s \in Screen!Stages /\ stage[d] \notin Screen!Terminal
    BY <2>1, StagesEnd DEF ScreenInv
  <2>4. ScreenType'
    BY <2>1, <2>2, <2>3 DEF ScreenInv, ScreenType
  <2>5. LastEventGone' /\ DoneIsOver'
    BY <1>1, <1>2, <2>1, <2>2, <2>3
    DEF Screen!Stages, ScreenInv, ScreenType, LastEventGone, DoneIsOver, Screen!Returned, Screen!SendReturned
  <2>6. RowsFollow'
    <3>. SUFFICES ASSUME main = "ui", NEW e \in Ids
                  PROVE  LET row == rows[BayOf[e]]
                         IN  /\ e \in sending' => ~row.finished /\ ~row.succeeded
                             /\ e \notin sending' =>
                                   /\ row.finished <=> stage'[e] \in Screen!Terminal
                                   /\ row.succeeded <=> stage'[e] = "completed"
      BY <1>1, <1>2, <2>2 DEF RowsFollow
    <3>1. tui
      BY DEF PoolInv, CommandOf, PoolType
    <3>2. CASE e = d
      BY <2>2, <2>3, <3>1, <3>2 DEF ScreenInv, RowsFollow, Screen!Terminal
    <3>3. CASE e # d
      BY <2>1, <2>2, <3>1, <3>3 DEF ScreenInv, ScreenType, RowsFollow
    <3>. QED
      BY <3>2, <3>3
  <2>. QED
    BY <2>4, <2>5, <2>6 DEF ScreenInv
<1>4. CASE Screen!Drop(d)
  BY <1>1, <1>2, <1>4
  DEF Screen!Drop, ScreenInv, ScreenType, LastEventGone, DoneIsOver, RowsFollow,
      Screen!Returned, Screen!SendReturned
<1>. QED
  BY <1>3, <1>4 DEF Work

\* The event loop takes a worker's event: its row says what the worker found,
\* and nobody else's is touched.
LEMMA EventKeepsScreen ==
    ASSUME BaysApart, PoolInv, ScreenInv, NEW d \in Ids, EventTaken(d)
    PROVE  ScreenInv'
<1>1. /\ main = "ui" /\ d \in sending
      /\ sending' = sending \ {d}
      /\ rows' = [rows EXCEPT ![BayOf[d]] = Screen!Applied(@, stage[d])]
      /\ UNCHANGED <<written, stage, allDone, worker, tui, launcher, main>>
  BY DEF EventTaken, Screen!ApplyEvent, poolVars
<1>2. stage[d] \in Screen!Stages
  BY <1>1 DEF ScreenInv, ScreenType, LastEventGone
<1>. DEFINE row == rows[BayOf[d]]
<1>3. /\ BayOf[d] \in Screen!Bays
      /\ ~row.finished /\ ~row.succeeded
  BY <1>1, RowTyped DEF ScreenInv, RowsFollow
<1>4. /\ Screen!Applied(row, stage[d]) \in Screen!Row
      /\ Screen!Applied(row, stage[d]).finished <=> stage[d] \in Screen!Terminal
      /\ Screen!Applied(row, stage[d]).succeeded <=> stage[d] = "completed"
  BY <1>2, <1>3 DEF Screen!Applied, Screen!Row
<1>5. ScreenType'
  BY <1>1, <1>3, <1>4 DEF ScreenInv, ScreenType
<1>6. LastEventGone' /\ DoneIsOver'
  BY <1>1 DEF ScreenInv, LastEventGone, DoneIsOver, Screen!Returned, Screen!SendReturned
<1>7. RowsFollow'
  <2>. SUFFICES ASSUME NEW e \in Ids
                PROVE  LET r == rows'[BayOf[e]]
                       IN  /\ e \in sending' => ~r.finished /\ ~r.succeeded
                           /\ e \notin sending' =>
                                 /\ r.finished <=> stage'[e] \in Screen!Terminal
                                 /\ r.succeeded <=> stage'[e] = "completed"
    BY DEF RowsFollow
  <2>1. rows[BayOf[d]] = row /\ DOMAIN rows = Screen!Bays
    BY DEF ScreenInv, ScreenType
  <2>2. CASE e = d
    <3>1. rows'[BayOf[e]] = Screen!Applied(row, stage[d])
      BY <1>1, <1>3, <2>1, <2>2
    <3>2. e \notin sending' /\ stage'[e] = stage[d]
      BY <1>1, <2>2
    <3>. QED
      BY <1>4, <3>1, <3>2
  <2>3. CASE e # d
    <3>1. rows'[BayOf[e]] = rows[BayOf[e]]
      BY <1>1, <2>1, <2>3 DEF BaysApart
    <3>2. (e \in sending' <=> e \in sending) /\ stage'[e] = stage[e]
      BY <1>1, <2>3
    <3>. QED
      BY <1>1, <3>1, <3>2 DEF ScreenInv, RowsFollow
  <2>. QED
    BY <2>2, <2>3
<1>. QED
  BY <1>5, <1>6, <1>7 DEF ScreenInv

\* The rest of the pool leaves the screen alone, but for its conclusion, which
\* the event loop draws while it still takes events.
LEMMA PoolKeepsScreen ==
    ASSUME PoolInv, ScreenInv,
           \/ Add \/ Acquire \/ Go \/ EndLoop \/ LauncherWaits
           \/ AllDoneTaken \/ AllDoneDropped
           \/ \E d \in Ids : WorkEnds(d) \/ Release(d) \/ Done(d)
           \/ \E key \in {"q", "ctrl+c"} : Quit(key)
           \/ UiFails \/ Wait \/ CloseAll
    PROVE  ScreenInv'
<1>. USE DEF ScreenInv
<1>1. UNCHANGED <<tui, written, stage, sending, rows>>
  BY DEF Add, Acquire, Go, EndLoop, LauncherWaits, AllDoneTaken, AllDoneDropped, WorkEnds,
         Release, Done, Quit, UiFails, Wait, CloseAll, poolVars, screenVars, Screen!TakeAllDone
<1>2. ScreenType'
  <2>1. allDone' \in BOOLEAN
    BY DEF ScreenType, Add, Acquire, Go, EndLoop, LauncherWaits, AllDoneTaken, AllDoneDropped,
           WorkEnds, Release, Done, Quit, UiFails, Wait, CloseAll, poolVars, screenVars,
           Screen!TakeAllDone
  <2>. QED
    BY <1>1, <2>1 DEF ScreenType
<1>3. main' = "ui" => main = "ui"
  BY DEF Add, Acquire, Go, EndLoop, LauncherWaits, AllDoneTaken, AllDoneDropped, WorkEnds,
         Release, Done, Quit, UiFails, Wait, CloseAll, poolVars, screenVars
<1>4. allDone' => allDone \/ (main = "ui" /\ launcher' = "end")
  BY DEF Add, Acquire, Go, EndLoop, LauncherWaits, AllDoneTaken, AllDoneDropped, WorkEnds,
         Release, Done, Quit, UiFails, Wait, CloseAll, poolVars, screenVars, Screen!TakeAllDone
<1>5. RowsFollow'
  BY <1>1, <1>3, <1>4 DEF RowsFollow
<1>6. DoneIsOver'
  BY <1>1, <1>4
  DEF DoneIsOver, Add, Acquire, Go, EndLoop, LauncherWaits, AllDoneTaken, AllDoneDropped,
      WorkEnds, Release, Done, Quit, UiFails, Wait, CloseAll, poolVars, PoolInv, CommandOf, PoolType
<1>7. LastEventGone'
  <2>. SUFFICES ASSUME NEW d \in Ids
                PROVE  /\ worker'[d] \in {"release", "done", "ended"} => Screen!Returned(d)
                       /\ d \in sending => worker'[d] = "running" /\ tui /\ stage[d] # "none"
    BY <1>1 DEF LastEventGone, Screen!Returned, Screen!SendReturned
  <2>1. CASE worker'[d] = worker[d]
    BY <2>1 DEF LastEventGone
  <2>2. CASE worker'[d] # worker[d]
    BY <2>2
    DEF LastEventGone, Add, Acquire, Go, EndLoop, LauncherWaits, AllDoneTaken, AllDoneDropped,
        WorkEnds, Release, Done, Quit, UiFails, Wait, CloseAll, poolVars, PoolInv, PoolType,
        Screen!Returned, Screen!SendReturned, Launched
  <2>. QED
    BY <2>1, <2>2
<1>. QED
  BY <1>2, <1>5, <1>6, <1>7

LEMMA StepScreen ==
    ASSUME BaysApart, PoolInv, ScreenInv, [Next]_vars
    PROVE  ScreenInv'
<1>1. CASE Next
  BY <1>1, NextCases, WorkKeepsScreen, EventKeepsScreen, PoolKeepsScreen
<1>2. CASE UNCHANGED vars
  BY <1>2
  DEF vars, screenVars, ScreenInv, ScreenType, LastEventGone, DoneIsOver, RowsFollow,
      Screen!Returned, Screen!SendReturned
<1>. QED
  BY <1>1, <1>2

\* Both modules count with the operator of FiniteSets.
LEMMA SameCardinality == \A S : Screen!Cardinality(S) = Cardinality(S)
  BY DEF Screen!Cardinality, Cardinality

\* The bays are counted as the devices are: each has one of its own.
LEMMA BaysCountDevices ==
    ASSUME BaysApart, NEW D \in SUBSET Ids
    PROVE  /\ IsFiniteSet(D) /\ IsFiniteSet({BayOf[d] : d \in D})
           /\ Cardinality({BayOf[d] : d \in D}) = Cardinality(D)
<1>. DEFINE B == {BayOf[d] : d \in D}
            f == [d \in D |-> BayOf[d]]
<1>1. IsFiniteSet(D)
  <2>1. IsFiniteSet(Ids)
    BY DevicesIsNat, FS_Interval DEF Ids
  <2>. QED
    BY <2>1, FS_Subset
<1>2. f \in Bijection(D, B)
  <2>1. f \in [D -> B] /\ \A b \in B : \E d \in D : f[d] = b
    OBVIOUS
  <2>2. \A d, e \in D : f[d] = f[e] => d = e
    BY DEF BaysApart
  <2>. QED
    BY <2>1, <2>2, Fun_IsBij
<1>. QED
  BY <1>1, <1>2, FS_Bijection DEF ExistsBijection

LEMMA ScreenConcludesTruly ==
    ASSUME BaysApart, PoolInv, ScreenInv, allDone
    PROVE  Screen!ConclusionIsTrue
<1>. DEFINE U == Screen!Updated
            F == Ids \ Screen!Updated
<1>1. \A d \in Ids : /\ rows[BayOf[d]].finished
                     /\ rows[BayOf[d]].succeeded <=> d \in U
  <2>. SUFFICES ASSUME NEW d \in Ids
                PROVE  /\ rows[BayOf[d]].finished
                       /\ rows[BayOf[d]].succeeded <=> d \in U
    OBVIOUS
  <2>1. stage[d] \in Screen!Terminal /\ d \notin sending
    BY NobodyAtWork DEF ScreenInv, LastEventGone, Screen!Returned, Screen!SendReturned
  <2>. QED
    BY <2>1 DEF ScreenInv, RowsFollow, Screen!Updated
<1>2. {b \in Screen!Bays : rows[b].finished /\ rows[b].succeeded} = {BayOf[d] : d \in U}
  BY <1>1 DEF Screen!Bays, Screen!Updated
<1>3. {b \in Screen!Bays : rows[b].finished /\ ~rows[b].succeeded} = {BayOf[d] : d \in F}
  BY <1>1 DEF Screen!Bays, Screen!Updated
<1>4. U \in SUBSET Ids /\ F \in SUBSET Ids
  BY DEF Screen!Updated
<1>5. Screen!Ok = Cardinality(U) /\ Screen!Fail = Cardinality(F)
  BY <1>2, <1>3, <1>4, BaysCountDevices, SameCardinality DEF Screen!Ok, Screen!Fail
<1>. DEFINE Truly == Screen!Headline.ok = Cardinality(U) /\ Screen!Headline.fail = Cardinality(F)
<1>6. ASSUME Screen!Fail = 0 PROVE Truly
  <2>1. F = {}
    BY <1>4, <1>5, <1>6, BaysCountDevices, FS_EmptySet
  <2>2. U = Ids
    BY <1>4, <2>1
  <2>. QED
    BY <1>5, <1>6, <2>2, SameCardinality DEF Screen!Headline, Screen!Total
<1>7. ASSUME Screen!Fail # 0, Screen!Ok = 0 PROVE Truly
  <2>1. U = {}
    BY <1>4, <1>5, <1>7, BaysCountDevices, FS_EmptySet
  <2>2. F = Ids
    BY <2>1
  <2>. QED
    BY <1>5, <1>7, <2>2, SameCardinality DEF Screen!Headline, Screen!Total
<1>8. ASSUME Screen!Fail # 0, Screen!Ok # 0 PROVE Truly
  BY <1>5, <1>8 DEF Screen!Headline
<1>. QED
  BY <1>6, <1>7, <1>8, SameCardinality DEF Screen!ConclusionIsTrue

\* What the fw-update-tui screen concludes is what its workers found, for every
\* number of devices in bays of their own: no event is still on its way when it
\* concludes and none was lost.
THEOREM ConclusionAgreesWithWorkers ==
    ASSUME BaysApart
    PROVE  Spec => []ConclusionIsTrue
<1>1. PoolInv /\ ScreenInv => ConclusionIsTrue
  BY ScreenConcludesTruly DEF ConclusionIsTrue, Screen!ConclusionIsTrue
<1>2. Init => ScreenInv
  BY InitScreen
<1>3. PoolInv /\ ScreenInv /\ [Next]_vars => ScreenInv'
  BY StepScreen
<1>. QED
  BY <1>1, <1>2, <1>3, PoolInvariance, PTL DEF Spec

=============================================================================
