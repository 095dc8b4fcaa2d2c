----------------------------- MODULE DeployProof -----------------------------
(***************************************************************************)
(* Proofs about the deploy command: Deploy, what a worker does to one      *)
(* device, for every number of retries and of polls; what LoadSettings     *)
(* makes of a settings file of any length, by induction over its rows; and *)
(* the runs of DeployRun for every number of devices, workers and runs.    *)
(***************************************************************************)
EXTENDS Deploy, DeployRun, InductionLemmas, FiniteSetTheorems, TLAPS

-----------------------------------------------------------------------------
(* One device.                                                             *)

Steps == {"info", "attempt", "reopen", "unprovision", "provision", "poll", "room", "report", "done"}

\* Where the call with this deployment's credentials has returned without error.
Provisioned == pc \in {"poll", "room"}

TypeOK ==
    /\ wantsRoom \in BOOLEAN
    /\ hasRepo \in BOOLEAN
    /\ pc \in Steps
    /\ attempt \in 0 .. MaxRetries
    /\ polls \in 0 .. MaxPolls
    /\ port \in {"open", "deaf", "closed"}
    /\ succeeded \in BOOLEAN
    /\ room \in {"none", "name_only", "name_and_id"}
    /\ row \in {"none", "succeeded", "failed", "lost"}
    /\ rowRoom \in {"none", "name_only", "name_and_id"}
    /\ device \in {"up", "rebooting", "gone"}
    /\ config \in {"none", "earlier", "ours"}
    /\ online \in BOOLEAN
    /\ refused \in BOOLEAN
    /\ assigned \in BOOLEAN

\* The loop is entered with an attempt left.
AttemptsLeft == pc = "attempt" => attempt < MaxRetries

\* Polling starts only after the device has taken the credentials, or has ended
\* the call that carried them; after a success nothing sends it any more.
TakenOrRefused == config = "ours" \/ refused

CredentialsKept ==
    /\ Provisioned => TakenOrRefused
    /\ succeeded => TakenOrRefused /\ pc \in {"report", "done"}

\* What the room columns will say is known with the success, and not before.
RoomDecided ==
    /\ pc = "room" => wantsRoom
    /\ room # "none" => succeeded
    /\ room = "name_and_id" => assigned
    /\ succeeded /\ wantsRoom => (hasRepo <=> room = "name_and_id")

\* The row is written once, from the local variables as the loop leaves them.
RowIsOfOutcome ==
    /\ row # "none" <=> pc = "done"
    /\ row = "succeeded" => succeeded /\ rowRoom = room
    /\ rowRoom # "none" => rowRoom = room

IInv == TypeOK /\ AttemptsLeft /\ CredentialsKept /\ RoomDecided /\ RowIsOfOutcome

-----------------------------------------------------------------------------
LEMMA BoundsAreNumbers == MaxRetries \in Nat /\ MaxPolls \in Nat /\ MaxPolls > 0
  BY DeployAssumption

\* A device not yet attempted, whatever it holds from earlier.
LEMMA InitIInv == Init => IInv
<1>. SUFFICES ASSUME Init PROVE IInv
  OBVIOUS
<1>1. TypeOK
  <2>1. online \in BOOLEAN
    <3>1. online = FALSE \/ online = (config = "earlier")
      BY DEF Init
    <3>2. (config = "earlier") \in BOOLEAN
      OBVIOUS
    <3>. QED
      BY <3>1, <3>2
  <2>2. /\ wantsRoom \in BOOLEAN /\ hasRepo \in BOOLEAN /\ assigned \in BOOLEAN
        /\ succeeded \in BOOLEAN /\ refused \in BOOLEAN /\ pc = "info" /\ attempt = 0 /\ polls = 0
        /\ port = "open" /\ room = "none" /\ row = "none" /\ rowRoom = "none"
        /\ device = "up" /\ config \in {"none", "earlier"}
    BY Zenon DEF Init
  <2>. QED
    BY <2>1, <2>2, BoundsAreNumbers DEF TypeOK, Steps
<1>2. AttemptsLeft /\ CredentialsKept /\ RoomDecided /\ RowIsOfOutcome
  BY DEF Init, AttemptsLeft, Provisioned, CredentialsKept, RoomDecided, RowIsOfOutcome
<1>. QED
  BY <1>1, <1>2 DEF IInv

\* Every step of the worker keeps the invariant: whatever fails, in whichever
\* attempt, the loop reaches the poll only past a call the device took or ended.
LEMMA WorkerKeeps ==
    ASSUME IInv, Worker
    PROVE  IInv'
<1>. USE BoundsAreNumbers
     DEF IInv, TypeOK, Steps, Provisioned, AttemptsLeft, CredentialsKept, TakenOrRefused, RoomDecided,
         RowIsOfOutcome, input, rowVars, deviceVars
<1>1. CASE GetInfo
  BY <1>1 DEF GetInfo, NextAttempt, WriteRow
<1>2. CASE BeginAttempt
  <2>1. TypeOK'
    <3>1. online' \in BOOLEAN
      BY <1>2 DEF BeginAttempt, Reached
    <3>. QED
      BY <1>2, <3>1 DEF BeginAttempt, Reached
  <2>2. AttemptsLeft' /\ CredentialsKept' /\ RoomDecided' /\ RowIsOfOutcome'
    BY <1>2 DEF BeginAttempt, Reached
  <2>. QED
    BY <2>1, <2>2
<1>3. CASE Reopen
  <2>1. TypeOK'
    BY <1>3 DEF Reopen, NextAttempt
  <2>2. AttemptsLeft' /\ CredentialsKept' /\ RoomDecided' /\ RowIsOfOutcome'
    BY <1>3 DEF Reopen, NextAttempt
  <2>. QED
    BY <2>1, <2>2
<1>4. CASE Unprovision
  <2>1. TypeOK'
    <3>1. online' \in BOOLEAN /\ config' \in {"none", "earlier", "ours"}
      BY <1>4 DEF Unprovision, Reached
    <3>2. /\ pc' = "provision" /\ polls' = 0
          /\ UNCHANGED <<wantsRoom, hasRepo, attempt, port, succeeded, room, row, rowRoom,
                         device, refused, assigned>>
      BY <1>4 DEF Unprovision
    <3>. QED
      BY <3>1, <3>2
  <2>2. AttemptsLeft' /\ CredentialsKept' /\ RoomDecided' /\ RowIsOfOutcome'
    BY <1>4 DEF Unprovision, Reached
  <2>. QED
    BY <2>1, <2>2
<1>5. CASE SendProvision
  BY <1>5 DEF SendProvision, Reached, Answered, AfterProvisionError, NextAttempt
<1>6. CASE PollOnline
  BY <1>6 DEF PollOnline, ReportsOnline, Answered, SucceededOnceOnline
<1>7. CASE PollAgain
  BY <1>7 DEF PollAgain
<1>8. CASE PollTimesOut
  BY <1>8 DEF PollTimesOut, NextAttempt
<1>9. CASE SkipRoom
  BY <1>9 DEF SkipRoom
<1>10. CASE RoomUnknown
  BY <1>10 DEF RoomUnknown
<1>11. CASE AssignRoom
  BY <1>11 DEF AssignRoom
<1>12. CASE AssignRoomFails
  BY <1>12 DEF AssignRoomFails, NextAttempt
<1>13. CASE Report
  BY <1>13 DEF Report, Row, WriteRow
<1>. QED
  BY <1>1, <1>2, <1>3, <1>4, <1>5, <1>6, <1>7, <1>8, <1>9, <1>10, <1>11, <1>12, <1>13
     DEF Worker

\* The device connects, boots and leaves, and keeps the credentials it holds.
LEMMA DeviceKeeps ==
    ASSUME IInv, Device
    PROVE  IInv'
<1>. USE DEF IInv, TypeOK, Steps, Provisioned, AttemptsLeft, CredentialsKept, TakenOrRefused, RoomDecided,
         RowIsOfOutcome, input, rowVars, deviceVars
<1>1. CASE DeviceConnects
  BY <1>1 DEF DeviceConnects
<1>2. CASE DeviceBoots
  BY <1>2 DEF DeviceBoots
<1>3. CASE DeviceLeaves
  <2>1. /\ device' \in {"rebooting", "gone"} /\ online' = FALSE
        /\ port' \in {"open", "deaf", "closed"}
        /\ UNCHANGED <<wantsRoom, hasRepo, pc, attempt, polls, succeeded, room, row, rowRoom, config,
                       refused, assigned>>
    BY <1>3 DEF DeviceLeaves
  <2>2. TypeOK'
    BY <2>1
  <2>3. AttemptsLeft' /\ CredentialsKept' /\ RoomDecided' /\ RowIsOfOutcome'
    BY <2>1
  <2>. QED
    BY <2>2, <2>3
<1>. QED
  BY <1>1, <1>2, <1>3 DEF Device

LEMMA StepIInv ==
    ASSUME IInv, [Next]_vars
    PROVE  IInv'
<1>1. CASE Worker
  BY <1>1, WorkerKeeps
<1>2. CASE Device
  BY <1>2, DeviceKeeps
<1>3. CASE UNCHANGED vars
  <2>1. TypeOK'
    BY <1>3 DEF vars, IInv, TypeOK, Steps
  <2>2. AttemptsLeft' /\ CredentialsKept' /\ RoomDecided' /\ RowIsOfOutcome'
    BY <1>3 DEF vars, IInv, Provisioned, AttemptsLeft, CredentialsKept, TakenOrRefused,
                RoomDecided, RowIsOfOutcome
  <2>. QED
    BY <2>1, <2>2 DEF IInv
<1>. QED
  BY <1>1, <1>2, <1>3 DEF Next

LEMMA Invariance == Spec => []IInv
  BY InitIInv, StepIInv, PTL DEF Spec

-----------------------------------------------------------------------------
\* A succeeded row is of a device that holds this deployment's credentials, or
\* that ended the latest call which carried them, however many attempts, resets
\* and lost answers there were.
THEOREM SucceededRowIsProvisioned == Spec => []SucceededMeansProvisioned
<1>1. IInv => SucceededMeansProvisioned
  BY DEF IInv, SucceededMeansProvisioned, CredentialsKept, TakenOrRefused, RowIsOfOutcome
<1>. QED
  BY <1>1, Invariance, PTL

\* A row with a room id is of a device assigned to that room, and a succeeded
\* row of a setting that asks for a room has the id just when there is a database.
THEOREM SucceededRowIsAssigned == Spec => []SucceededMeansAssigned
<1>1. IInv => SucceededMeansAssigned
  BY DEF IInv, TypeOK, SucceededMeansAssigned, RoomDecided, RowIsOfOutcome
<1>. QED
  BY <1>1, Invariance, PTL

-----------------------------------------------------------------------------
(* The settings file, as LoadSettings reads it: dataFile, for any file.    *)

Rows == dataFile.rows
Cells == {Rows[k][col] : k \in DOMAIN Rows, col \in RequiredCols} \cup {0}
Settings == [RequiredCols -> Cells]
Loaded == [ok : BOOLEAN, settings : Seq(Settings)]

\* What LoadSettings has made of the rows up to each one.
LoadedRows == CHOOSE loaded : loaded = [k \in 0 .. Len(Rows) |->
    IF k = 0 THEN [ok |-> TRUE, settings |-> << >>] ELSE LoadRow(loaded[k - 1], Rows[k], k)]

HasColumns == IsTable(dataFile) /\ RequiredCols \subseteq dataFile.columns

LEMMA RowsAreSequence ==
    ASSUME HasColumns
    PROVE  /\ Len(Rows) \in Nat /\ DOMAIN Rows = 1 .. Len(Rows)
           /\ \A k \in 1 .. Len(Rows) : RequiredCols \subseteq DOMAIN Rows[k]
           /\ \A k \in 1 .. Len(Rows), col \in RequiredCols : Rows[k][col] \in Cells
<1>1. Rows \in Seq({Rows[k] : k \in DOMAIN Rows})
  BY DEF HasColumns, IsTable, Rows
<1>2. Len(Rows) \in Nat /\ DOMAIN Rows = 1 .. Len(Rows)
  BY <1>1
<1>3. \A k \in 1 .. Len(Rows) : RequiredCols \subseteq DOMAIN Rows[k]
  BY <1>2 DEF HasColumns, IsTable, Rows
<1>4. \A k \in 1 .. Len(Rows), col \in RequiredCols : Rows[k][col] \in Cells
  BY <1>2 DEF Cells
<1>. QED
  BY <1>2, <1>3, <1>4

\* The setting of a row is made of cells of the file.
LEMMA SettingType ==
    ASSUME HasColumns, NEW k \in 1 .. Len(Rows), NEW previous \in Seq(Settings)
    PROVE  Setting(Rows[k], previous) \in Settings
<1>1. ASSUME NEW col \in RequiredCols PROVE Inherit(col, Rows[k], previous) \in Cells
  <2>1. CASE previous # << >>
    <3>1. Last(previous) \in Settings
      BY <2>1 DEF Last
    <3>. QED
      BY <3>1, RowsAreSequence DEF Inherit, Settings
  <2>2. CASE previous = << >>
    BY <2>2, RowsAreSequence DEF Inherit
  <2>. QED
    BY <2>1, <2>2
<1>2. 0 \in Cells
  BY DEF Cells
<1>. QED
  BY <1>1, <1>2 DEF Setting, Settings

LEMMA LoadRowType ==
    ASSUME HasColumns, NEW k \in 1 .. Len(Rows), NEW loaded \in Loaded
    PROVE  LoadRow(loaded, Rows[k], k) \in Loaded
<1>1. loaded.settings \in Seq(Settings) /\ loaded.ok \in BOOLEAN
  BY DEF Loaded
<1>2. Setting(Rows[k], loaded.settings) \in Settings
  BY <1>1, SettingType
<1>3. Append(loaded.settings, Setting(Rows[k], loaded.settings)) \in Seq(Settings)
  BY <1>1, <1>2
<1>. QED
  BY <1>3 DEF LoadRow, NotLoaded, Loaded

\* The recursion of LoadSettings is well founded: each row has its result.
LEMMA LoadedRowsAre ==
    ASSUME HasColumns
    PROVE  /\ \A k \in 0 .. Len(Rows) : LoadedRows[k] \in Loaded
           /\ LoadedRows[0] = [ok |-> TRUE, settings |-> << >>]
           /\ \A k \in 1 .. Len(Rows) : LoadedRows[k] = LoadRow(LoadedRows[k - 1], Rows[k], k)
<1>. DEFINE N == Len(Rows)
            S == 0 .. N
            Start == [ok |-> TRUE, settings |-> << >>]
            rank == [k \in S |-> k]
            Step == [k \in S |-> [g \in [S -> Loaded] |->
                        IF k = 0 THEN Start ELSE LoadRow(g[k - 1], Rows[k], k)]]
<1>1. N \in Nat /\ rank \in [S -> 0 .. N]
  BY RowsAreSequence
<1>2. Start \in Loaded
  BY DEF Loaded
<1>3. Step \in [S -> [[S -> Loaded] -> Loaded]]
  <2>1. ASSUME NEW k \in S, NEW g \in [S -> Loaded]
        PROVE  (IF k = 0 THEN Start ELSE LoadRow(g[k - 1], Rows[k], k)) \in Loaded
    <3>1. CASE k = 0
      BY <3>1, <1>2
    <3>2. CASE k # 0
      <4>1. k \in 1 .. N /\ k - 1 \in S
        BY <3>2, <1>1
      <4>2. g[k - 1] \in Loaded
        BY <4>1
      <4>. QED
        BY <3>2, <4>1, <4>2, LoadRowType
    <3>. QED
      BY <3>1, <3>2
  <2>. QED
    BY <2>1
<1>4. ASSUME NEW k \in S, NEW g \in [S -> Loaded], NEW h \in [S -> Loaded],
             \A j \in S : rank[j] < rank[k] => g[j] = h[j]
      PROVE  Step[k][g] = Step[k][h]
  <2>1. CASE k = 0
    BY <2>1
  <2>2. CASE k # 0
    <3>1. k - 1 \in S /\ rank[k - 1] < rank[k]
      BY <2>2, <1>1
    <3>2. g[k - 1] = h[k - 1]
      BY <3>1, <1>4
    <3>. QED
      BY <3>2
  <2>. QED
    BY <2>1, <2>2
<1>5. \E f \in [S -> Loaded] : f = [k \in S |-> Step[k][f]]
  <2>1. Computes(Step, rank, N, S, Loaded)
    <3>. HIDE DEF S, N, rank, Step
    <3>. QED
      BY <1>1, <1>3, <1>4 DEF Computes
  <2>. HIDE DEF S, N, rank, Step, Start
  <2>. QED
    BY <1>2, <2>1, Recursion
<1>6. \E f : f \in [S -> Loaded] /\ f = [k \in S |-> IF k = 0 THEN Start ELSE LoadRow(f[k - 1], Rows[k], k)]
  BY <1>5
<1>7. LoadedRows = [k \in S |-> IF k = 0 THEN Start ELSE LoadRow(LoadedRows[k - 1], Rows[k], k)]
  BY <1>6 DEF LoadedRows
<1>8. /\ LoadedRows[0] = Start
      /\ \A k \in 1 .. N : LoadedRows[k] = LoadRow(LoadedRows[k - 1], Rows[k], k)
  <2>1. 0 \in S /\ \A k \in 1 .. N : k \in S /\ k # 0
    BY <1>1
  <2>. HIDE DEF S, N, Start
  <2>. QED
    BY <1>7, <2>1
<1>9. S \subseteq {k \in S : LoadedRows[k] \in Loaded}
  <2>. DEFINE T == {k \in S : LoadedRows[k] \in Loaded}
  <2>1. 0 \in T
    BY <1>1, <1>2, <1>8
  <2>2. ASSUME NEW k \in 0 .. N - 1, k \in T PROVE k + 1 \in T
    <3>1. k + 1 \in 1 .. N /\ k + 1 \in S /\ (k + 1) - 1 = k
      BY <1>1
    <3>2. LoadedRows[k + 1] = LoadRow(LoadedRows[k], Rows[k + 1], k + 1)
      BY <3>1, <1>8
    <3>. QED
      BY <2>2, <3>1, <3>2, LoadRowType
  <2>3. 0 .. N \subseteq T
    <3>1. N \in Int /\ 0 \in Int /\ (0 <= N => 0 \in T)
      BY <1>1, <2>1
    <3>. HIDE DEF T, N
    <3>. QED
      BY <2>2, <3>1, IntervalInduction
  <2>. QED
    BY <2>3
<1>. QED
  BY <1>8, <1>9

LEMMA LoadedIsLast ==
    ASSUME HasColumns, Rows # << >>
    PROVE  LoadSettings(dataFile) = LoadedRows[Len(Rows)]
  BY DEF LoadSettings, LoadedRows, HasColumns, Rows

-----------------------------------------------------------------------------
(* The row that makes each setting.                                        *)

\* The largest of a set of numbers, if one is.
LEMMA MaxIs ==
    ASSUME NEW T \in SUBSET Int, NEW m \in T, \A n \in T : n <= m
    PROVE  Max(T) = m
<1>1. \E x \in T : \A y \in T : x >= y
  OBVIOUS
<1>2. Max(T) \in T /\ \A y \in T : Max(T) >= y
  BY <1>1 DEF Max
<1>3. Max(T) \in Int /\ m \in Int /\ Max(T) >= m /\ Max(T) <= m
  BY <1>2
<1>. QED
  BY <1>3

\* The rows that make a setting, up to a row that makes one and to one that
\* does not.
LEMMA FilledRowsAre ==
    ASSUME HasColumns
    PROVE  /\ FilledRows(0) = {}
           /\ \A k \in 1 .. Len(Rows) :
                 FilledRows(k) = IF AllEmpty(Rows[k]) THEN FilledRows(k - 1)
                                 ELSE FilledRows(k - 1) \cup {k}
<1>1. FilledRows(0) = {}
  BY DEF FilledRows
<1>2. ASSUME NEW k \in 1 .. Len(Rows)
      PROVE  FilledRows(k) = IF AllEmpty(Rows[k]) THEN FilledRows(k - 1)
                             ELSE FilledRows(k - 1) \cup {k}
  <2>1. k \in Nat /\ k >= 1
    BY RowsAreSequence
  <2>2. \A j : j \in 1 .. k <=> j \in 1 .. k - 1 \/ j = k
    BY <2>1
  <2>. QED
    BY <2>2 DEF FilledRows, Rows
<1>. QED
  BY <1>1, <1>2

LEMMA FilledRowsFinite ==
    ASSUME HasColumns
    PROVE  \A k \in 0 .. Len(Rows) : IsFiniteSet(FilledRows(k)) /\ Cardinality(FilledRows(k)) \in Nat
<1>. TAKE k \in 0 .. Len(Rows)
<1>1. IsFiniteSet(1 .. k)
  BY RowsAreSequence, FS_Interval
<1>2. FilledRows(k) \subseteq 1 .. k
  BY DEF FilledRows
<1>. QED
  BY <1>1, <1>2, FS_Subset, FS_CardinalityType

\* The row that makes setting n is the one with n of them up to it.
LEMMA RowOfIs ==
    ASSUME HasColumns, NEW r \in 1 .. Len(Rows), r \in FilledRows(r)
    PROVE  RowOf(Cardinality(FilledRows(r))) = r
<1>1. ASSUME NEW s \in 1 .. Len(Rows), NEW t \in 1 .. Len(Rows), s < t, t \in FilledRows(t),
             Cardinality(FilledRows(s)) = Cardinality(FilledRows(t))
      PROVE  FALSE
  <2>1. s \in Nat /\ t \in Nat /\ Len(Rows) \in Nat /\ s \in 0 .. Len(Rows) /\ t \in 0 .. Len(Rows)
    BY RowsAreSequence
  <2>2. FilledRows(s) \in SUBSET FilledRows(t) /\ t \notin FilledRows(s)
    BY <1>1, <2>1 DEF FilledRows
  <2>3. IsFiniteSet(FilledRows(t))
    BY <2>1, FilledRowsFinite
  <2>. QED
    BY <1>1, <2>2, <2>3, FS_Subset
<1>. DEFINE n == Cardinality(FilledRows(r))
            Is(k) == k \in FilledRows(k) /\ Cardinality(FilledRows(k)) = n
<1>2. DOMAIN Rows = 1 .. Len(Rows) /\ Len(Rows) \in Nat
  BY RowsAreSequence
<1>3. \A k \in DOMAIN Rows : Is(k) => k = r
  <2>. TAKE k \in DOMAIN Rows
  <2>1. k \in 1 .. Len(Rows) /\ (k < r \/ r < k \/ k = r)
    BY <1>2
  <2>. QED
    BY <1>1, <2>1
<1>4. Is(r) /\ r \in DOMAIN Rows
  BY <1>2
<1>5. RowOf(n) = CHOOSE k \in DOMAIN Rows : Is(k)
  BY DEF RowOf, Rows
<1>. QED
  BY <1>3, <1>4, <1>5

-----------------------------------------------------------------------------
(* What is inherited.                                                      *)

\* The cells that are filled in, with one row more.
LEMMA FilledInIs ==
    ASSUME HasColumns, NEW k \in 1 .. Len(Rows), NEW col
    PROVE  /\ FilledIn(col, k) = IF Rows[k][col] = Blank THEN FilledIn(col, k - 1)
                                 ELSE FilledIn(col, k - 1) \cup {k}
           /\ Rows[k][col] # Blank => Max(FilledIn(col, k)) = k
           /\ FilledIn(col, k - 1) # {} => Max(FilledIn(col, k - 1)) \in FilledIn(col, k - 1)
<1>1. k \in Nat /\ k >= 1 /\ \A j : j \in 1 .. k <=> j \in 1 .. k - 1 \/ j = k
  BY RowsAreSequence
<1>2. FilledIn(col, k) = IF Rows[k][col] = Blank THEN FilledIn(col, k - 1)
                         ELSE FilledIn(col, k - 1) \cup {k}
  BY <1>1 DEF FilledIn, Rows
<1>3. ASSUME Rows[k][col] # Blank PROVE Max(FilledIn(col, k)) = k
  <2>1. FilledIn(col, k) \in SUBSET Int /\ k \in FilledIn(col, k)
        /\ \A n \in FilledIn(col, k) : n <= k
    BY <1>1, <1>3 DEF FilledIn, Rows
  <2>. QED
    BY <2>1, MaxIs
<1>4. ASSUME FilledIn(col, k - 1) # {}
      PROVE  Max(FilledIn(col, k - 1)) \in FilledIn(col, k - 1)
  <2>1. IsFiniteSet(1 .. k - 1)
    BY <1>1, FS_Interval
  <2>2. FilledIn(col, k - 1) \in SUBSET Int /\ FilledIn(col, k - 1) \subseteq 1 .. k - 1
    BY <1>1 DEF FilledIn
  <2>3. \E m \in FilledIn(col, k - 1) : \A n \in FilledIn(col, k - 1) : n <= m
    <3>1. k - 1 \in Nat /\ FilledIn(col, k - 1) \in SUBSET (0 .. k - 1)
      BY <1>1, <2>2
    <3>. QED
      BY <1>4, <3>1, LargestNumber
  <2>. QED
    BY <2>2, <2>3, MaxIs
<1>. QED
  BY <1>2, <1>3, <1>4

\* In one row: a cell that is filled in is the setting's, and an empty one of
\* the columns that are inherited is that of the setting before.
LEMMA CellOfSetting ==
    ASSUME HasColumns, NEW k \in 1 .. Len(Rows), NEW made \in Seq(Settings), NEW col \in RequiredCols
    PROVE  LET s == Setting(Rows[k], made)
           IN  /\ col \notin InheritedCols \/ Rows[k][col] # Blank => s[col] = Rows[k][col]
               /\ /\ col \in InheritedCols
                  /\ Rows[k][col] = Blank
                  /\ made # << >>
                  /\ made[Len(made)][col] # Blank
                  => s[col] = made[Len(made)][col]
  BY DEF Setting, Inherit, Last, InheritedCols

\* What LoadSettings has made of the first k rows.
MadeOf(k) ==
    LoadedRows[k].ok =>
        LET made == LoadedRows[k].settings
        IN  /\ Len(made) = Cardinality(FilledRows(k))
            /\ \A n \in 1 .. Len(made) : \E r \in 1 .. k :
                  /\ r \in FilledRows(r) /\ Cardinality(FilledRows(r)) = n
                  /\ \A col \in RequiredCols : HasNearest(made[n], r, col)
            /\ \A col \in InheritedCols : FilledIn(col, k) # {} =>
                  made # << >> /\ made[Len(made)][col] = Rows[Max(FilledIn(col, k))][col]
            /\ AllEmpty(Rows[1]) \/ \A n \in 1 .. Len(made) : Valid(made[n])

\* A row that is empty makes nothing, and has nothing to inherit.
LEMMA EmptyRowKeeps ==
    ASSUME HasColumns, NEW k \in 1 .. Len(Rows), MadeOf(k - 1), AllEmpty(Rows[k])
    PROVE  MadeOf(k)
<1>1. k \in Nat /\ k - 1 \in 0 .. Len(Rows) /\ \A r \in 1 .. k - 1 : r \in 1 .. k
  BY RowsAreSequence
<1>2. LoadedRows[k] = LoadedRows[k - 1]
  BY LoadedRowsAre DEF LoadRow
<1>3. FilledRows(k) = FilledRows(k - 1)
  BY FilledRowsAre
<1>4. \A col \in InheritedCols : FilledIn(col, k) = FilledIn(col, k - 1)
  <2>. TAKE col \in InheritedCols
  <2>1. Rows[k][col] = Blank
    BY RowsAreSequence DEF AllEmpty, InheritedCols, RequiredCols
  <2>. QED
    BY <2>1, FilledInIs
<1>. QED
  BY <1>1, <1>2, <1>3, <1>4 DEF MadeOf

\* A row that is not, and parses, makes the next setting.
LEMMA RowMakesSetting ==
    ASSUME HasColumns, NEW k \in 1 .. Len(Rows), MadeOf(k - 1), ~AllEmpty(Rows[k]),
           LoadedRows[k - 1].ok,
           RowParses(Rows[k], LoadedRows[k - 1].settings, k)
    PROVE  MadeOf(k)
<1>. DEFINE made == LoadedRows[k - 1].settings
            s == Setting(Rows[k], made)
<1>1. k \in Nat /\ k - 1 \in 0 .. Len(Rows) /\ \A r \in 1 .. k - 1 : r \in 1 .. k
  BY RowsAreSequence
<1>2. made \in Seq(Settings) /\ s \in Settings
  BY <1>1, LoadedRowsAre, SettingType DEF Loaded
<1>3. LoadedRows[k] = [ok |-> TRUE, settings |-> Append(made, s)]
  BY LoadedRowsAre DEF LoadRow
<1>4. /\ Len(made) = Cardinality(FilledRows(k - 1))
      /\ \A n \in 1 .. Len(made) : \E r \in 1 .. k - 1 :
            /\ r \in FilledRows(r) /\ Cardinality(FilledRows(r)) = n
            /\ \A col \in RequiredCols : HasNearest(made[n], r, col)
      /\ \A col \in InheritedCols : FilledIn(col, k - 1) # {} =>
            made # << >> /\ made[Len(made)][col] = Rows[Max(FilledIn(col, k - 1))][col]
      /\ AllEmpty(Rows[1]) \/ \A n \in 1 .. Len(made) : Valid(made[n])
  BY DEF MadeOf
<1>. DEFINE more == Append(made, s)
<1>5. /\ Len(made) \in Nat /\ Len(more) = Len(made) + 1 /\ more[Len(made) + 1] = s
      /\ more # << >>
      /\ \A n \in 1 .. Len(more) : (n \in 1 .. Len(made) /\ more[n] = made[n]) \/ n = Len(made) + 1
  <2>. HIDE DEF made, s
  <2>1. /\ Len(made) \in Nat /\ Len(more) = Len(made) + 1 /\ more[Len(made) + 1] = s
        /\ \A n \in 1 .. Len(made) : more[n] = made[n]
    BY <1>2
  <2>. HIDE DEF more
  <2>2. more # << >>
    BY <2>1
  <2>. QED
    BY <2>1, <2>2
<1>6. k \in FilledRows(k) /\ Cardinality(FilledRows(k)) = Len(made) + 1
  <2>1. FilledRows(k) = FilledRows(k - 1) \cup {k} /\ k \notin FilledRows(k - 1)
    BY <1>1, FilledRowsAre DEF FilledRows
  <2>2. IsFiniteSet(FilledRows(k - 1))
    BY <1>1, FilledRowsFinite
  <2>. QED
    BY <1>4, <2>1, <2>2, FS_AddElement
<1>7. \A col \in InheritedCols : FilledIn(col, k) # {} => s[col] = Rows[Max(FilledIn(col, k))][col]
  <2>. SUFFICES ASSUME NEW col \in InheritedCols, FilledIn(col, k) # {}
                PROVE  s[col] = Rows[Max(FilledIn(col, k))][col]
    OBVIOUS
  <2>1. col \in RequiredCols
    BY DEF InheritedCols, RequiredCols
  <2>2. CASE Rows[k][col] # Blank
    BY <1>2, <2>1, <2>2, FilledInIs, CellOfSetting
  <2>3. CASE Rows[k][col] = Blank
    <3>1. FilledIn(col, k) = FilledIn(col, k - 1) /\ FilledIn(col, k - 1) # {}
      BY <2>3, FilledInIs
    <3>2. made # << >> /\ made[Len(made)][col] = Rows[Max(FilledIn(col, k - 1))][col]
      BY <1>4, <3>1
    <3>3. Rows[Max(FilledIn(col, k - 1))][col] # Blank
      <4>1. Max(FilledIn(col, k - 1)) \in FilledIn(col, k - 1)
        BY <3>1, FilledInIs
      <4>. QED
        BY <4>1 DEF FilledIn, Rows
    <3>. QED
      BY <1>2, <2>1, <2>3, <3>1, <3>2, <3>3, CellOfSetting
  <2>. QED
    BY <2>2, <2>3
<1>8. \A col \in RequiredCols : HasNearest(s, k, col)
  <2>. TAKE col \in RequiredCols
  <2>1. CASE col \in InheritedCols
    BY <1>7, <2>1 DEF HasNearest, Sources, Rows
  <2>2. CASE col \notin InheritedCols
    <3>1. Max({k}) = k
      <4>1. {k} \in SUBSET Int /\ k \in {k} /\ \A n \in {k} : n <= k
        BY <1>1
      <4>. QED
        BY <4>1, MaxIs
    <3>2. s[col] = Rows[k][col]
      BY <1>2, <2>2, CellOfSetting
    <3>3. Sources(col, k) = {} \/ Sources(col, k) = {k}
      <4>1. FilledIn(col, k) \cap {k} = {} \/ FilledIn(col, k) \cap {k} = {k}
        OBVIOUS
      <4>. QED
        BY <2>2, <4>1 DEF Sources
    <3>. HIDE DEF s
    <3>. QED
      BY <3>1, <3>2, <3>3 DEF HasNearest, Rows
  <2>. QED
    BY <2>1, <2>2
<1>9. AllEmpty(Rows[1]) \/ Valid(s)
  <2>1. SUFFICES ASSUME ~AllEmpty(Rows[1]) PROVE Valid(s)
    OBVIOUS
  <2>2. CASE k = 1
    BY <2>2 DEF RowParses
  <2>3. CASE k # 1
    <3>1. 1 \in FilledRows(k - 1)
      BY <1>1, <2>1, <2>3 DEF FilledRows, Rows
    <3>2. Len(made) # 0
      <4>1. IsFiniteSet(FilledRows(k - 1))
        BY <1>1, FilledRowsFinite
      <4>. QED
        BY <1>4, <3>1, <4>1, FS_EmptySet
    <3>3. Valid(made[Len(made)]) /\ made # << >>
      BY <1>2, <1>4, <2>1, <3>2
    <3>4. \A col \in {"wifi_ssid", "account"} : s[col] # Blank
      <4>. TAKE col \in {"wifi_ssid", "account"}
      <4>1. col \in InheritedCols /\ col \in RequiredCols
        BY DEF InheritedCols, RequiredCols
      <4>2. made[Len(made)][col] # Blank
        BY <3>3 DEF Valid
      <4>. QED
        BY <1>2, <3>3, <4>1, <4>2, CellOfSetting
    <3>. QED
      BY <3>4 DEF Valid
  <2>. QED
    BY <2>2, <2>3
<1>10. \A n \in 1 .. Len(more) : \E r \in 1 .. k :
          /\ r \in FilledRows(r) /\ Cardinality(FilledRows(r)) = n
          /\ \A col \in RequiredCols : HasNearest(more[n], r, col)
  <2>. TAKE n \in 1 .. Len(more)
  <2>1. CASE n \in 1 .. Len(made) /\ more[n] = made[n]
    BY <1>1, <1>4, <2>1
  <2>2. CASE n = Len(made) + 1
    <3>. HIDE DEF made, s, more
    <3>1. k \in 1 .. k /\ more[n] = s
      BY <1>1, <1>5, <2>2
    <3>. QED
      BY <1>6, <1>8, <2>2, <3>1
  <2>. QED
    BY <1>5, <2>1, <2>2
<1>11. \A col \in InheritedCols : FilledIn(col, k) # {} =>
            more # << >> /\ more[Len(more)][col] = Rows[Max(FilledIn(col, k))][col]
  <2>. HIDE DEF made, s, more
  <2>. QED
    BY <1>5, <1>7
<1>12. AllEmpty(Rows[1]) \/ \A n \in 1 .. Len(more) : Valid(more[n])
  <2>. HIDE DEF made, s, more
  <2>. QED
    BY <1>4, <1>5, <1>9
<1>13. LoadedRows[k].ok /\ LoadedRows[k].settings = more
  BY <1>3
<1>14. Len(more) = Cardinality(FilledRows(k))
  <2>. HIDE DEF made, s, more
  <2>. QED
    BY <1>5, <1>6
<1>. QED
  <2>. HIDE DEF made, s, more
  <2>. QED
    BY <1>10, <1>11, <1>12, <1>13, <1>14 DEF MadeOf

\* So it is for the whole file.
LEMMA SettingsAreMade ==
    ASSUME HasColumns
    PROVE  MadeOf(Len(Rows))
<1>. DEFINE T == {k \in 0 .. Len(Rows) : MadeOf(k)}
<1>1. Len(Rows) \in Nat
  BY RowsAreSequence
<1>2. MadeOf(0)
  <2>1. FilledRows(0) = {} /\ \A col : FilledIn(col, 0) = {}
    BY DEF FilledRows, FilledIn
  <2>2. LoadedRows[0].settings = << >> /\ Len(<< >>) = 0 /\ 1 .. 0 = {}
    BY LoadedRowsAre
  <2>3. Cardinality({}) = 0
    BY FS_EmptySet
  <2>. QED
    BY <2>1, <2>2, <2>3 DEF MadeOf
<1>3. ASSUME NEW k \in 0 .. Len(Rows) - 1, k \in T PROVE k + 1 \in T
  <2>1. k + 1 \in 1 .. Len(Rows) /\ (k + 1) - 1 = k /\ MadeOf(k)
    BY <1>1, <1>3
  <2>2. CASE AllEmpty(Rows[k + 1])
    BY <2>1, <2>2, EmptyRowKeeps
  <2>3. CASE ~AllEmpty(Rows[k + 1]) /\ LoadedRows[k].ok /\ RowParses(Rows[k + 1], LoadedRows[k].settings, k + 1)
    BY <2>1, <2>3, RowMakesSetting
  <2>4. CASE /\ ~AllEmpty(Rows[k + 1])
             /\ ~(LoadedRows[k].ok /\ RowParses(Rows[k + 1], LoadedRows[k].settings, k + 1))
    <3>1. LoadedRows[k + 1] = LoadRow(LoadedRows[k], Rows[k + 1], k + 1)
      BY <2>1, LoadedRowsAre
    <3>2. ~LoadedRows[k + 1].ok
      BY <2>4, <3>1 DEF LoadRow, NotLoaded
    <3>. QED
      BY <3>2 DEF MadeOf
  <2>5. MadeOf(k + 1)
    BY <2>2, <2>3, <2>4
  <2>. QED
    BY <2>1, <2>5
<1>4. 0 .. Len(Rows) \subseteq T
  <2>1. Len(Rows) \in Int /\ 0 \in Int /\ (0 <= Len(Rows) => 0 \in T)
    BY <1>1, <1>2
  <2>. HIDE DEF T
  <2>. QED
    BY <1>3, <2>1, IntervalInduction
<1>. QED
  BY <1>1, <1>4

-----------------------------------------------------------------------------
(* The runs.                                                               *)

\* What a run works with was loaded from the settings file it found.
Loads(f, result) == f \in SettingsFiles /\ LoadSettings(f).ok /\ result = LoadSettings(f).settings
SettingsOfFile ==
    /\ settings = << >> \/ Loads(dataFile, settings)
    /\ phase # "idle" => Loads(dataFile, settings)

RunTypeOK ==
    /\ phase \in {"idle", "confirmed", "devices"}
    /\ next \in 1 .. Devices + 1
    /\ working \subseteq Locations
    /\ lost \subseteq Locations
    /\ DOMAIN given = Locations
    /\ outcome \in [Locations -> {"none", "succeeded", "failed"}]
    /\ file \in Seq({file[k] : k \in DOMAIN file})
    /\ \A k \in DOMAIN file : file[k].device \in Locations

\* The loop has come to the device, and its bay has a setting.
TakenOn(loc) == loc < next /\ ValidBay(BayNum(loc))

\* The setting of a device is that of its bay, and nothing else.
GivenIsBay ==
    phase # "confirmed" =>
        \A loc \in Locations : given[loc] = IF TakenOn(loc) THEN BayNum(loc) ELSE 0

\* A device that was taken on is being deployed, or has a row, or lost it.
RowsOfRun ==
    phase # "confirmed" =>
        /\ \A loc \in working : TakenOn(loc) /\ loc \notin lost
        /\ \A loc \in lost : TakenOn(loc)
        /\ \A loc \in Locations :
              (\E k \in DOMAIN file : file[k].device = loc)
                  <=> TakenOn(loc) /\ loc \notin working /\ loc \notin lost
        /\ \A k, l \in DOMAIN file : file[k].device = file[l].device => k = l
        /\ \A k \in DOMAIN file : file[k].succeeded <=> outcome[file[k].device] = "succeeded"

\* A run ends when the loop has been over all devices and every worker is done.
RunIsOver ==
    /\ phase # "devices" => working = {}
    /\ phase = "idle" => next > Devices \/ settings = << >>

RunInv == SettingsOfFile /\ RunTypeOK /\ GivenIsBay /\ RowsOfRun /\ RunIsOver

-----------------------------------------------------------------------------
LEMMA DevicesAreNumbers == Devices \in Nat /\ Devices > 0
  BY DeployRunAssumption

LEMMA SettingsAreSequence ==
    ASSUME SettingsOfFile
    PROVE  settings \in Seq(Settings) /\ DOMAIN settings = 1 .. Len(settings) /\ Len(settings) \in Nat
<1>1. settings \in Seq(Settings)
  <2>1. CASE settings = << >>
    BY <2>1
  <2>2. CASE Loads(dataFile, settings)
    <3>1. HasColumns /\ Rows # << >>
      BY <2>2, DeployRunAssumption DEF Loads, LoadSettings, NotLoaded, HasColumns, Rows
    <3>2. LoadSettings(dataFile) = LoadedRows[Len(Rows)] /\ LoadedRows[Len(Rows)] \in Loaded
      BY <3>1, LoadedIsLast, LoadedRowsAre, RowsAreSequence
    <3>. QED
      BY <2>2, <3>2 DEF Loads, Loaded
  <2>. QED
    BY <2>1, <2>2 DEF SettingsOfFile
<1>. QED
  BY <1>1

LEMMA RunInit == RunsInit => RunInv
<1>. SUFFICES ASSUME RunsInit PROVE RunInv
  OBVIOUS
<1>1. RunTypeOK
  <2>1. << >> \in Seq({file[k] : k \in DOMAIN file}) /\ DOMAIN << >> = {}
    OBVIOUS
  <2>. QED
    BY <2>1, DevicesAreNumbers DEF RunsInit, RunTypeOK, Nothing, NoOutcome, Locations
<1>2. SettingsOfFile /\ RunIsOver
  BY DEF RunsInit, SettingsOfFile, RunIsOver
<1>3. \A loc \in Locations : ~TakenOn(loc)
  BY DEF RunsInit, TakenOn, Locations
<1>4. GivenIsBay
  BY <1>3 DEF RunsInit, GivenIsBay, Nothing
<1>5. RowsOfRun
  <2>1. DOMAIN file = {}
    BY DEF RunsInit
  <2>. QED
    BY <1>3, <2>1 DEF RunsInit, RowsOfRun
<1>. QED
  BY <1>1, <1>2, <1>4, <1>5 DEF RunInv

\* One more row is at the end of the file.
LEMMA MoreRows ==
    ASSUME file \in Seq({file[k] : k \in DOMAIN file}), NEW new
    PROVE  LET more == Append(file, new)
           IN  /\ more \in Seq({more[k] : k \in DOMAIN more})
               /\ \E n \in Nat \ {0} : /\ n \notin DOMAIN file
                              /\ DOMAIN more = DOMAIN file \cup {n}
                              /\ more[n] = new
                              /\ \A k \in DOMAIN file : more[k] = file[k]
<1>. DEFINE S == {file[k] : k \in DOMAIN file}
            more == Append(file, new)
            n == Len(file) + 1
<1>1. /\ Len(file) \in Nat /\ DOMAIN file = 1 .. Len(file) /\ DOMAIN more = 1 .. Len(file) + 1
      /\ more[n] = new /\ \A k \in 1 .. Len(file) : more[k] = file[k]
      /\ file \in Seq(S \cup {new})
  OBVIOUS
<1>2. \A k : k \in 1 .. Len(file) + 1 <=> k \in 1 .. Len(file) \/ k = n
  BY <1>1
<1>3. S \cup {new} = {more[k] : k \in DOMAIN more}
  <2>. HIDE DEF more, n
  <2>. QED
    BY <1>1, <1>2
<1>4. more \in Seq(S \cup {new})
  BY <1>1
<1>5. n \in Nat \ {0} /\ n \notin DOMAIN file
  BY <1>1
<1>. QED
  <2>. HIDE DEF more, n, S
  <2>. QED
    BY <1>1, <1>2, <1>3, <1>4, <1>5

\* Files are loaded before anything is touched: nothing of the run before is
\* told by the new settings, until the header is written.
LEMMA StartKeeps ==
    ASSUME RunInv, StartRun
    PROVE  RunInv'
<1>1. Loads(dataFile', settings')
  BY DEF StartRun, Loads
<1>. USE DEF RunInv, StartRun
<1>2. SettingsOfFile' /\ GivenIsBay' /\ RowsOfRun'
  BY <1>1 DEF SettingsOfFile, GivenIsBay, RowsOfRun
<1>3. RunTypeOK' /\ RunIsOver'
  BY DEF RunTypeOK, RunIsOver
<1>. QED
  BY <1>2, <1>3

LEMMA RefusedKeeps ==
    ASSUME RunInv, RunRefused
    PROVE  RunInv'
<1>. USE DEF RunInv, RunRefused, inputs, flags
<1>1. SettingsOfFile' /\ RunTypeOK' /\ RunIsOver'
  BY DEF SettingsOfFile, RunTypeOK, RunIsOver
<1>2. \A loc : TakenOn(loc)' <=> TakenOn(loc)
  BY DEF TakenOn, BayNum, ValidBay
<1>3. GivenIsBay' /\ RowsOfRun'
  BY <1>2 DEF GivenIsBay, RowsOfRun, BayNum
<1>. QED
  BY <1>1, <1>3

\* The file, and what is known of the devices, start afresh.
LEMMA HeaderKeeps ==
    ASSUME RunInv, WriteResultHeader
    PROVE  RunInv'
<1>. USE DEF RunInv, WriteResultHeader, inputs, flags
<1>1. SettingsOfFile'
  BY DEF SettingsOfFile
<1>2. RunTypeOK' /\ RunIsOver'
  <2>1. << >> \in Seq({file'[k] : k \in DOMAIN file'}) /\ DOMAIN << >> = {}
    OBVIOUS
  <2>. QED
    BY <2>1, DevicesAreNumbers DEF RunTypeOK, RunIsOver, Nothing, NoOutcome, Locations
<1>3. \A loc \in Locations : ~TakenOn(loc)'
  BY DEF TakenOn, Locations
<1>4. GivenIsBay'
  BY <1>3 DEF GivenIsBay, Nothing
<1>5. RowsOfRun'
  <2>1. DOMAIN file' = {} /\ working' = {} /\ lost' = {}
    BY DEF RunIsOver
  <2>. QED
    BY <1>3, <2>1 DEF RowsOfRun
<1>. QED
  BY <1>1, <1>2, <1>4, <1>5

\* The loop goes on to the next device: no other is taken on by that.
LEMMA NextDevice ==
    ASSUME RunInv, NEW d \in Locations, d = next, next' = d + 1, UNCHANGED inputs
    PROVE  /\ \A loc \in Locations \ {d} : TakenOn(loc)' <=> TakenOn(loc)
           /\ ~TakenOn(d)
           /\ TakenOn(d)' <=> ValidBay(BayNum(d))
           /\ next' \in 1 .. Devices + 1
           /\ \A loc : BayNum(loc)' = BayNum(loc)
<1>1. \A loc : BayNum(loc)' = BayNum(loc) /\ (ValidBay(BayNum(loc))' <=> ValidBay(BayNum(loc)))
  BY DEF BayNum, ValidBay, inputs
<1>2. \A loc : TakenOn(loc)' <=> loc < d + 1 /\ ValidBay(BayNum(loc))
  BY <1>1 DEF TakenOn
<1>3. d \in 1 .. Devices /\ Devices \in Nat
  BY DevicesAreNumbers DEF Locations
<1>4. \A loc \in Locations \ {d} : TakenOn(loc)' <=> TakenOn(loc)
  <2>1. \A loc \in Locations \ {d} : loc < d + 1 <=> loc < d
    BY <1>3 DEF Locations
  <2>. QED
    BY <1>2, <2>1 DEF TakenOn
<1>5. ~TakenOn(d) /\ (TakenOn(d)' <=> ValidBay(BayNum(d)))
  <2>1. ~(d < d) /\ d < d + 1
    BY <1>3
  <2>. QED
    BY <1>2, <2>1 DEF TakenOn
<1>. QED
  BY <1>1, <1>3, <1>4, <1>5

LEMMA SkipKeeps ==
    ASSUME RunInv, Skip
    PROVE  RunInv'
<1>. USE DEF RunInv
<1>1. /\ next \in Locations /\ next' = next + 1 /\ UNCHANGED inputs /\ phase = "devices"
      /\ UNCHANGED <<phase, file, working, given, lost, outcome>> /\ ~ValidBay(BayNum(next))
  BY DEF Skip, ChannelsToDeploy
<1>2. /\ \A loc \in Locations : TakenOn(loc)' <=> TakenOn(loc)
      /\ next' \in 1 .. Devices + 1
      /\ \A loc : BayNum(loc)' = BayNum(loc)
  <2>1. PICK d \in Locations : d = next
    BY <1>1
  <2>2. /\ \A loc \in Locations \ {d} : TakenOn(loc)' <=> TakenOn(loc)
        /\ ~TakenOn(d) /\ ~TakenOn(d)'
        /\ next' \in 1 .. Devices + 1 /\ \A loc : BayNum(loc)' = BayNum(loc)
    BY <1>1, <2>1, NextDevice
  <2>. QED
    BY <2>2
<1>3. SettingsOfFile' /\ RunIsOver' /\ RunTypeOK'
  BY <1>1, <1>2 DEF SettingsOfFile, RunIsOver, RunTypeOK, inputs
<1>4. GivenIsBay'
  BY <1>1, <1>2 DEF GivenIsBay
<1>5. RowsOfRun'
  BY <1>1, <1>2 DEF RowsOfRun, RunTypeOK
<1>. QED
  BY <1>3, <1>4, <1>5

\* A device that is taken on has its bay's setting and, so far, no row.
LEMMA DeployDeviceKeeps ==
    ASSUME RunInv, DeployDevice
    PROVE  RunInv'
<1>. USE DEF RunInv
<1>0. PICK d \in Locations : d = next
  BY DEF DeployDevice, ChannelsToDeploy
<1>1. /\ next' = d + 1 /\ UNCHANGED inputs /\ phase = "devices"
      /\ UNCHANGED <<phase, file, lost, outcome>> /\ ValidBay(BayNum(d))
      /\ working' = working \cup {d}
      /\ given' = [given EXCEPT ![d] = BayNum(d)]
  BY <1>0 DEF DeployDevice
<1>2. /\ \A loc \in Locations \ {d} : TakenOn(loc)' <=> TakenOn(loc)
      /\ ~TakenOn(d) /\ TakenOn(d)'
      /\ next' \in 1 .. Devices + 1 /\ \A loc : BayNum(loc)' = BayNum(loc)
  BY <1>0, <1>1, NextDevice
<1>3. SettingsOfFile' /\ RunIsOver' /\ RunTypeOK'
  BY <1>1, <1>2 DEF SettingsOfFile, RunIsOver, RunTypeOK, inputs
<1>4. GivenIsBay'
  <2>1. \A loc \in Locations : given'[loc] = IF TakenOn(loc)' THEN BayNum(loc)' ELSE 0
    <3>. TAKE loc \in Locations
    <3>1. CASE loc = d
      <4>1. given'[d] = BayNum(d)
        BY <1>1 DEF RunTypeOK
      <4>. QED
        BY <1>2, <3>1, <4>1
    <3>2. CASE loc # d
      <4>1. given'[loc] = given[loc]
        BY <1>1, <3>2 DEF RunTypeOK
      <4>. QED
        BY <1>1, <1>2, <3>2, <4>1 DEF GivenIsBay
    <3>. QED
      BY <3>1, <3>2
  <2>. QED
    BY <2>1 DEF GivenIsBay
<1>5. RowsOfRun'
  <2>1. d \notin working /\ d \notin lost /\ \A k \in DOMAIN file : file[k].device # d
    BY <1>1, <1>2 DEF RowsOfRun
  <2>2. \A loc \in Locations :
            (\E k \in DOMAIN file' : file'[k].device = loc)
                <=> TakenOn(loc)' /\ loc \notin working' /\ loc \notin lost'
    <3>. TAKE loc \in Locations
    <3>1. CASE loc = d
      BY <1>1, <2>1, <3>1
    <3>2. CASE loc # d
      BY <1>1, <1>2, <3>2 DEF RowsOfRun
    <3>. QED
      BY <3>1, <3>2
  <2>3. /\ \A loc \in working' : TakenOn(loc)' /\ loc \notin lost'
        /\ \A loc \in lost' : TakenOn(loc)'
    BY <1>1, <1>2, <2>1 DEF RowsOfRun, RunTypeOK
  <2>4. /\ \A k, l \in DOMAIN file' : file'[k].device = file'[l].device => k = l
        /\ \A k \in DOMAIN file' : file'[k].succeeded <=> outcome'[file'[k].device] = "succeeded"
    BY <1>1 DEF RowsOfRun
  <2>. QED
    BY <2>2, <2>3, <2>4 DEF RowsOfRun
<1>. QED
  BY <1>3, <1>4, <1>5

\* A device that has ended gets its row, with its outcome, or loses it.
LEMMA ResultKeeps ==
    ASSUME RunInv, NEW loc \in Locations, NEW ok \in BOOLEAN, WriteResult(loc, ok)
    PROVE  RunInv'
<1>. USE DEF RunInv
<1>. DEFINE result == [bay |-> settings[given[loc]].bay, device |-> loc, succeeded |-> ok]
<1>1. /\ loc \in working /\ working' = working \ {loc}
      /\ outcome' = [outcome EXCEPT ![loc] = IF ok THEN "succeeded" ELSE "failed"]
      /\ UNCHANGED <<inputs, phase, next, given>>
      /\ AppendRow(loc, result)
  BY DEF WriteResult
<1>2. phase = "devices"
  BY <1>1 DEF RunIsOver, RunTypeOK
<1>3. \A l : (TakenOn(l)' <=> TakenOn(l)) /\ BayNum(l)' = BayNum(l)
  BY <1>1 DEF TakenOn, BayNum, ValidBay, inputs
<1>4. SettingsOfFile' /\ RunIsOver'
  BY <1>1, <1>2 DEF SettingsOfFile, RunIsOver, inputs
<1>5. GivenIsBay'
  BY <1>1, <1>3 DEF GivenIsBay
<1>6. TakenOn(loc) /\ loc \notin lost /\ \A k \in DOMAIN file : file[k].device # loc
  BY <1>1, <1>2 DEF RowsOfRun, RunTypeOK
<1>7. CASE file' = Append(file, result) /\ UNCHANGED lost
  <2>. DEFINE more == Append(file, result)
  <2>1. result.device = loc /\ (result.succeeded <=> ok)
    OBVIOUS
  <2>. HIDE DEF result
  <2>2. more \in Seq({more[k] : k \in DOMAIN more})
    <3>1. file \in Seq({file[k] : k \in DOMAIN file})
      BY DEF RunTypeOK
    <3>. QED
      BY ONLY <3>1, MoreRows
  <2>3. PICK n \in Nat \ {0} : /\ n \notin DOMAIN file
                                /\ DOMAIN more = DOMAIN file \cup {n}
                                /\ more[n] = result
                                /\ \A k \in DOMAIN file : more[k] = file[k]
    BY MoreRows DEF RunTypeOK
  <2>. HIDE DEF more
  <2>4. RunTypeOK'
    BY <1>1, <1>7, <2>1, <2>2, <2>3 DEF RunTypeOK, more
  <2>5. RowsOfRun'
    <3>. USE <1>1, <1>2, <1>3, <1>6, <1>7, <2>1, <2>3 DEF RowsOfRun, RunTypeOK
    <3>0. file' = more
      BY DEF more
    <3>1. \A l \in working' : TakenOn(l)' /\ l \notin lost'
      OBVIOUS
    <3>2. \A l \in lost' : TakenOn(l)'
      OBVIOUS
    <3>3. \A l \in Locations :
              (\E k \in DOMAIN file' : file'[k].device = l)
                  <=> TakenOn(l)' /\ l \notin working' /\ l \notin lost'
      <4>. TAKE l \in Locations
      <4>1. CASE l = loc
        BY <3>0, <4>1
      <4>2. CASE l # loc
        BY <3>0, <4>2
      <4>. QED
        BY <4>1, <4>2
    <3>4. \A k, l \in DOMAIN file' : file'[k].device = file'[l].device => k = l
      BY <3>0
    <3>5. \A k \in DOMAIN file' : file'[k].succeeded <=> outcome'[file'[k].device] = "succeeded"
      <4>. TAKE k \in DOMAIN file'
      <4>1. CASE k = n
        <5>1. file'[k] = result /\ outcome'[loc] = IF ok THEN "succeeded" ELSE "failed"
          BY <3>0, <4>1
        <5>. QED
          BY <5>1
      <4>2. CASE k # n
        <5>1. k \in DOMAIN file /\ file'[k] = file[k] /\ file[k].device # loc
          BY <3>0, <4>2
        <5>2. outcome'[file[k].device] = outcome[file[k].device]
          BY <5>1
        <5>. QED
          BY <5>1, <5>2
      <4>. QED
        BY <4>1, <4>2
    <3>. QED
      BY <3>1, <3>2, <3>3, <3>4, <3>5
  <2>. QED
    BY <1>4, <1>5, <2>4, <2>5
<1>8. CASE lost' = lost \cup {loc} /\ UNCHANGED file
  <2>1. RunTypeOK'
    BY <1>1, <1>8 DEF RunTypeOK
  <2>2. \A k \in DOMAIN file : outcome'[file[k].device] = outcome[file[k].device]
    BY <1>1, <1>6 DEF RunTypeOK
  <2>3. RowsOfRun'
    BY <1>1, <1>2, <1>3, <1>6, <1>8, <2>2 DEF RowsOfRun, RunTypeOK
  <2>. QED
    BY <1>4, <1>5, <2>1, <2>3
<1>. QED
  BY <1>1, <1>7, <1>8 DEF AppendRow

LEMMA EndKeeps ==
    ASSUME RunInv, EndRun
    PROVE  RunInv'
<1>. USE DEF RunInv, EndRun, inputs, flags
<1>1. SettingsOfFile' /\ RunTypeOK'
  BY DEF SettingsOfFile, RunTypeOK
<1>2. \A loc : (TakenOn(loc)' <=> TakenOn(loc)) /\ BayNum(loc)' = BayNum(loc)
  BY DEF TakenOn, BayNum, ValidBay
<1>3. GivenIsBay' /\ RowsOfRun'
  BY <1>2 DEF GivenIsBay, RowsOfRun
<1>4. RunIsOver'
  BY DevicesAreNumbers DEF RunIsOver, RunTypeOK, ChannelsToDeploy, Locations
<1>. QED
  BY <1>1, <1>3, <1>4

LEMMA RunStepInv ==
    ASSUME RunInv, [RunsNext]_runsVars
    PROVE  RunInv'
<1>1. CASE UNCHANGED runsVars
  <2>1. \A loc : (TakenOn(loc)' <=> TakenOn(loc)) /\ BayNum(loc)' = BayNum(loc)
    BY <1>1 DEF runsVars, TakenOn, BayNum, ValidBay, inputs
  <2>2. SettingsOfFile' /\ RunTypeOK' /\ RunIsOver'
    BY <1>1 DEF runsVars, inputs, RunInv, SettingsOfFile, RunTypeOK, RunIsOver
  <2>3. GivenIsBay' /\ RowsOfRun'
    BY <1>1, <2>1 DEF runsVars, RunInv, GivenIsBay, RowsOfRun
  <2>. QED
    BY <2>2, <2>3 DEF RunInv
<1>. QED
  BY <1>1, StartKeeps, RefusedKeeps, HeaderKeeps, SkipKeeps, DeployDeviceKeeps, ResultKeeps, EndKeeps
     DEF RunsNext, RunStep

LEMMA RunInvariance == RunsSpec => []RunInv
  BY RunInit, RunStepInv, PTL DEF RunsSpec

-----------------------------------------------------------------------------
\* No two devices of a run are deployed with one row of the settings, whatever
\* the map leaves out, as long as it gives no bay twice.
THEOREM EachDeviceItsSetting == RunsSpec => []OneDevicePerSetting
<1>1. RunInv => OneDevicePerSetting
  <2>. SUFFICES ASSUME RunInv, phase = "devices", OneToOne(locToBay),
                       NEW k \in Locations, NEW l \in Locations, k # l, given[k] # 0, given[k] = given[l]
                PROVE  FALSE
    BY DEF OneDevicePerSetting
  <2>1. given[k] = BayNum(k) /\ given[l] = BayNum(l) /\ given[l] # 0
    BY DEF RunInv, GivenIsBay
  <2>. QED
    BY <2>1 DEF BayNum, OneToOne
<1>. QED
  BY <1>1, RunInvariance, PTL

\* The file of every run that has ended, of any number of devices, has one row,
\* with its outcome, for each that was deployed and did not lose its row, and the
\* run has left out no device it was for and whose setting is in place.
THEOREM RowForEachDevice == RunsSpec => []FileAccountsForRun
<1>1. RunInv => FileAccountsForRun
  <2>. SUFFICES ASSUME RunInv, phase = "idle", NEW loc \in Locations
                PROVE  /\ Cardinality(RowsOf(loc)) = IF given[loc] # 0 /\ loc \notin lost THEN 1 ELSE 0
                       /\ \A k \in RowsOf(loc) : file[k].succeeded <=> outcome[loc] = "succeeded"
                       /\ InPlace(BayNum(loc)) => given[loc] # 0
    BY DEF FileAccountsForRun
  <2>. USE DEF RunInv
  <2>1. TakenOn(loc) <=> BayNum(loc) \in DOMAIN settings
    BY SettingsAreSequence, DevicesAreNumbers DEF RunIsOver, RunTypeOK, TakenOn, ValidBay, Locations
  <2>0. TakenOn(loc) <=> given[loc] # 0
    <3>1. ~(0 \in 1 .. Len(settings))
      BY SettingsAreSequence
    <3>2. given[loc] = IF TakenOn(loc) THEN BayNum(loc) ELSE 0
      BY DEF GivenIsBay
    <3>. QED
      BY <3>1, <3>2 DEF TakenOn, ValidBay
  <2>2. (\E k \in DOMAIN file : file[k].device = loc) <=> given[loc] # 0 /\ loc \notin lost
    BY <2>0 DEF RowsOfRun, RunIsOver
  <2>3. Cardinality(RowsOf(loc)) = IF \E k \in DOMAIN file : file[k].device = loc THEN 1 ELSE 0
    <3>1. CASE \E k \in DOMAIN file : file[k].device = loc
      <4>1. PICK k \in DOMAIN file : file[k].device = loc
        BY <3>1
      <4>2. RowsOf(loc) = {k}
        BY <4>1 DEF RowsOfRun, RowsOf
      <4>. QED
        BY <3>1, <4>2, FS_Singleton
    <3>2. CASE ~ \E k \in DOMAIN file : file[k].device = loc
      <4>1. RowsOf(loc) = {}
        BY <3>2 DEF RowsOf
      <4>. QED
        BY <3>2, <4>1, FS_EmptySet
    <3>. QED
      BY <3>1, <3>2
  <2>4. \A k \in RowsOf(loc) : file[k].succeeded <=> outcome[loc] = "succeeded"
    BY DEF RowsOfRun, RowsOf
  <2>5. InPlace(BayNum(loc)) => given[loc] # 0
    BY <2>0, <2>1 DEF InPlace
  <2>. QED
    BY <2>2, <2>3, <2>4, <2>5
<1>. QED
  BY <1>1, RunInvariance, PTL

\* Every device is deployed with what one row of the settings file holds or takes
\* over from the rows above, for every settings file: of any length, with empty
\* rows and empty cells anywhere.
THEOREM SettingIsOfItsRow == RunsSpec => []DeployedFromItsRow
<1>1. RunInv => DeployedFromItsRow
  <2>. SUFFICES ASSUME RunInv, phase = "devices", NEW loc \in Locations, given[loc] # 0
                PROVE  /\ \A col \in RequiredCols :
                             HasNearest(settings[given[loc]], RowOf(given[loc]), col)
                       /\ AllEmpty(Rows[1]) \/ Valid(settings[given[loc]])
    BY DEF DeployedFromItsRow, Rows
  <2>. USE DEF RunInv
  <2>1. Loads(dataFile, settings)
    BY DEF SettingsOfFile
  <2>2. HasColumns /\ Rows # << >>
    BY <2>1, DeployRunAssumption DEF Loads, LoadSettings, NotLoaded, HasColumns, Rows
  <2>3. LoadedRows[Len(Rows)].ok /\ settings = LoadedRows[Len(Rows)].settings
    BY <2>1, <2>2, LoadedIsLast DEF Loads
  <2>. DEFINE n == given[loc]
  <2>4. n \in 1 .. Len(settings)
    BY DEF GivenIsBay, TakenOn, ValidBay
  <2>5. MadeOf(Len(Rows))
    BY <2>2, SettingsAreMade
  <2>6. PICK r \in 1 .. Len(Rows) :
            /\ r \in FilledRows(r) /\ Cardinality(FilledRows(r)) = n
            /\ \A col \in RequiredCols : HasNearest(settings[n], r, col)
    BY <2>3, <2>4, <2>5 DEF MadeOf
  <2>7. RowOf(n) = r
    BY <2>2, <2>6, RowOfIs
  <2>8. AllEmpty(Rows[1]) \/ Valid(settings[n])
    BY <2>3, <2>4, <2>5 DEF MadeOf
  <2>. QED
    BY <2>6, <2>7, <2>8
<1>. QED
  BY <1>1, RunInvariance, PTL

=============================================================================
