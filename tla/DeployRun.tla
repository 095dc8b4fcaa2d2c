----------------------------- MODULE DeployRun -----------------------------
(***************************************************************************)
(* deploy over several runs of the program: runDeploy in cmd/deploy.go,    *)
(* with the settings file (LoadSettings), the location map and             *)
(* deployment-result.csv (internal/deployment/csv.go).                     *)
(*                                                                         *)
(* A run hands every connected device, with one row of the settings, to    *)
(* DeployDevice: one after the other (--iterative) or through a pool of    *)
(* workers. What DeployDevice does to its device is module Deploy; here it *)
(* succeeds or fails, and appends one row. The operator may put other      *)
(* settings and another map in place between runs.                         *)
(*                                                                         *)
(* A device is its USB location; the locations 1 .. Devices are in the     *)
(* order of sort.Strings.                                                  *)
(***************************************************************************)
EXTENDS CsvFiles

CONSTANTS
    Devices,       \* devices connected in every run
    SettingsFiles, \* what deployment-data.csv may hold
    MapFiles,      \* what location-map.csv may be
    Workers,       \* --workers
    MaxRuns,       \* bound: runs of the program
    MaxLost        \* bound: rows of a run that cannot be appended

Locations == 1 .. Devices

ASSUME DeployRunAssumption ==
    /\ Devices \in Nat \ {0}
    /\ Workers \in Nat \ {0}
    /\ MaxRuns \in Nat
    /\ MaxLost \in Nat
    /\ \A f \in SettingsFiles : IsTable(f)

VARIABLES
    dataFile,   \* deployment-data.csv as the latest run found it (history)
    settings,   \* what it loaded
    mapFile,    \* location-map.csv as it found it
    locToBay,   \* what it loaded
    phase,      \* of the current run: "idle", "confirmed", "devices"
    runs,       \* runs started
    all,        \* --all
    prevResults, \* what it read of the results of the run before, and left unused
    iterative,  \* --iterative
    file,       \* the rows of deployment-result.csv
    next,       \* the location whose turn it is
    working,    \* the locations DeployDevice runs for
    given,      \* the settings row each device was given in this run (history)
    lost,       \* devices whose row could not be appended (history)
    outcome     \* how each device ended in the latest run (history)

inputs == <<dataFile, settings, mapFile, locToBay>>
flags == <<all, iterative, prevResults>>
runsVars == <<inputs, phase, runs, flags, file, next, working, given, lost, outcome>>

Nothing == [loc \in Locations |-> 0]
NoOutcome == [loc \in Locations |-> "none"]
NoResults == [loc \in Locations |-> {}]

RunsInit ==
    /\ dataFile = [columns |-> {}, rows |-> << >>]
    /\ settings = << >>
    /\ mapFile = Absent
    /\ locToBay = << >>
    /\ phase = "idle"
    /\ runs = 0
    /\ all = FALSE
    /\ iterative = FALSE
    /\ prevResults = NoResults
    /\ file = << >>
    /\ next = 1
    /\ working = {}
    /\ given = Nothing
    /\ lost = {}
    /\ outcome = NoOutcome

-----------------------------------------------------------------------------
(* One run.                                                                *)

\* Deliberate faults, here and below, with which the properties must fail.
MapOrPosition(loc) == IF loc \in DOMAIN locToBay THEN locToBay[loc] ELSE loc
LastRowLeftOut(bay) == bay \in 1 .. Len(settings) - 1

\* bayNum: the position, or what the map says; a location the map leaves out
\* gets 0, Go's zero value.
BayNum(loc) ==
    IF mapFile = Absent THEN loc
    ELSE IF loc \in DOMAIN locToBay THEN locToBay[loc] ELSE 0

ValidBay(bay) == bay \in 1 .. Len(settings)

\* ReadResults: by device, what its rows say of the success.
RowsOf(loc) == {k \in DOMAIN file : file[k].device = loc}
ReadResults == [loc \in Locations |-> {file[k].succeeded : k \in RowsOf(loc)}]

\* The scan and the filter: without --all the previous results are read, and
\* the channels to deploy are still all of them. (A run that is not confirmed
\* changes nothing and is left out.)
ChannelsToDeploy == Locations

StartRun ==
    /\ phase = "idle"
    /\ runs < MaxRuns
    /\ runs' = runs + 1
    /\ dataFile' \in {f \in SettingsFiles : LoadSettings(f).ok}
    /\ settings' = LoadSettings(dataFile').settings
    /\ mapFile' \in {f \in MapFiles : MapLoads(f)}
    /\ locToBay' = LocToBay(mapFile')
    /\ all' \in BOOLEAN
    /\ prevResults' = IF all' THEN NoResults ELSE ReadResults
    /\ iterative' \in BOOLEAN
    /\ phase' = "confirmed"
    /\ UNCHANGED <<file, next, working, given, lost, outcome>>

\* A file that does not load ends the run before anything is touched.
RunRefused ==
    /\ phase = "idle"
    /\ runs < MaxRuns
    /\ \/ \E f \in SettingsFiles : ~LoadSettings(f).ok
       \/ \E f \in MapFiles : ~MapLoads(f)
    /\ runs' = runs + 1
    /\ UNCHANGED <<inputs, phase, flags, file, next, working, given, lost, outcome>>

\* WriteResultHeader starts the file afresh.
WriteResultHeader ==
    /\ phase = "confirmed"
    /\ file' = << >>
    /\ next' = 1
    /\ given' = Nothing
    /\ lost' = {}
    /\ outcome' = NoOutcome
    /\ phase' = "devices"
    /\ UNCHANGED <<inputs, runs, flags, working>>

\* A device whose bay number names no row of the settings is passed over.
Skip ==
    /\ phase = "devices"
    /\ next \in ChannelsToDeploy
    /\ ~ValidBay(BayNum(next))
    /\ next' = next + 1
    /\ UNCHANGED <<inputs, phase, runs, flags, file, working, given, lost, outcome>>

\* The semaphore of the pool; the iterative loop calls DeployDevice itself.
Slot == Cardinality(working) < (IF iterative THEN 1 ELSE Workers)

\* DeployDevice with settings[bayNum-1].
DeployDevice ==
    /\ phase = "devices"
    /\ next \in ChannelsToDeploy
    /\ ValidBay(BayNum(next))
    /\ Slot
    /\ working' = working \cup {next}
    /\ given' = [given EXCEPT ![next] = BayNum(next)]
    /\ next' = next + 1
    /\ UNCHANGED <<inputs, phase, runs, flags, file, lost, outcome>>

\* AppendResult, under outputMu: an error is only logged.
AppendRow(loc, row) ==
    \/ file' = Append(file, row) /\ UNCHANGED lost
    \/ Cardinality(lost) < MaxLost /\ lost' = lost \cup {loc} /\ UNCHANGED file

\* Its writeResult: the row's bay is the one in the setting.
WriteResult(loc, succeeded) ==
    /\ loc \in working
    /\ working' = working \ {loc}
    /\ outcome' = [outcome EXCEPT ![loc] = IF succeeded THEN "succeeded" ELSE "failed"]
    /\ AppendRow(loc, [bay |-> settings[given[loc]].bay, device |-> loc, succeeded |-> succeeded])
    /\ UNCHANGED <<inputs, phase, runs, flags, next, given>>

\* The loop is over and wg.Wait returns.
EndRun ==
    /\ phase = "devices"
    /\ next \notin ChannelsToDeploy
    /\ working = {}
    /\ phase' = "idle"
    /\ UNCHANGED <<inputs, runs, flags, file, next, working, given, lost, outcome>>

RunStep ==
    \/ WriteResultHeader \/ Skip \/ DeployDevice \/ EndRun
    \/ \E loc \in Locations, succeeded \in BOOLEAN : WriteResult(loc, succeeded)

RunsNext == StartRun \/ RunRefused \/ RunStep

RunsSpec == RunsInit /\ [][RunsNext]_runsVars

-----------------------------------------------------------------------------
(* Properties.                                                             *)

\* No two devices are deployed with the same row of the settings when the map
\* gives no bay twice: also when it leaves some of the locations out, whose
\* bay is then 0, and when it comes with a settings file that is too short.
OneDevicePerSetting ==
    phase = "devices" /\ OneToOne(locToBay) =>
        \A k, l \in Locations : k # l /\ given[k] # 0 => given[k] # given[l]

\* The setting of a device's bay is where the program looks for it.
InPlace(bay) == bay \in DOMAIN settings /\ settings[bay].bay = bay

\* The file of a run that has ended accounts for it: one row, with its outcome,
\* for each device it deployed and whose row could be appended, and none for the
\* others. And a run leaves out none of the devices it is for: all of them with
\* --all, and without it at least those whose row says that they failed.
FileAccountsForRun ==
    phase = "idle" =>
        \A loc \in Locations :
            /\ Cardinality(RowsOf(loc)) = IF given[loc] # 0 /\ loc \notin lost THEN 1 ELSE 0
            /\ \A k \in RowsOf(loc) : file[k].succeeded <=> outcome[loc] = "succeeded"
            /\ (all \/ FALSE \in prevResults[loc]) /\ InPlace(BayNum(loc)) => given[loc] # 0

\* The rows up to one that make a setting; the row that makes setting n; the
\* cells of a column at a row and above it that are filled in.
FilledRows(row) == {k \in 1 .. row : ~AllEmpty(dataFile.rows[k])}
RowOf(n) == CHOOSE row \in DOMAIN dataFile.rows :
                row \in FilledRows(row) /\ Cardinality(FilledRows(row)) = n
FilledIn(col, row) == {k \in 1 .. row : dataFile.rows[k][col] # Blank}

\* Where a cell of a setting comes from: its own row or the rows above it. An
\* empty room has no such place, see EmptyCellsInherit.
Sources(col, row) ==
    IF col \in InheritedCols THEN FilledIn(col, row)
    ELSE IF col = "room" THEN FilledIn(col, row) \cap {row}
    ELSE {row}

\* A cell is that of the lowest of these rows, over as many rows as it takes.
HasNearest(setting, row, col) ==
    Sources(col, row) # {} => setting[col] = dataFile.rows[Max(Sources(col, row))][col]

\* The setting a device is deployed with is made of one row of the file and what
\* that row takes over from those above, with nothing from a row below or from
\* two rows above past a nearer one, and no PSK but its own; and never without a
\* network and an account, unless the first row of the file is empty, when none
\* is validated. Which setting a bay leads to is SettingIsOfBay's question.
DeployedFromItsRow ==
    phase = "devices" => \A loc \in Locations : given[loc] # 0 =>
        LET setting == settings[given[loc]]
        IN  /\ \A col \in RequiredCols : HasNearest(setting, RowOf(given[loc]), col)
            /\ AllEmpty(dataFile.rows[1]) \/ Valid(setting)

-----------------------------------------------------------------------------
(* What the documents say of a run and the code does not do. No run has     *)
(* these as its properties: TLC refutes them in MCDeployRun.               *)

\* "Re-run only devices that failed in the previous attempt" (README.md:194),
\* "default: only failed from previous run" (cmd/deploy.go:32): without --all
\* no device is deployed whose row says that it succeeded.
OnlyFailedAreRerun ==
    phase = "devices" /\ ~all =>
        \A loc \in Locations : TRUE \in prevResults[loc] => given[loc] = 0

\* `deployment-data.csv` maps "bay" to "WiFi SSID/PSK, account, lodging_id, room"
\* (docs/ARCHITECTURE.md:136): a device is deployed with the row of its bay.
SettingIsOfBay ==
    phase = "devices" =>
        \A loc \in Locations : given[loc] # 0 => settings[given[loc]].bay = BayNum(loc)

\* "Empty cells inherit from the previous row (except wifi_psk which may be
\* empty)" (internal/deployment/csv.go:14): those of the room too.
EmptyCellsInherit ==
    phase # "idle" =>
        \A n \in 2 .. Len(settings), col \in RequiredCols \ {"wifi_psk"} :
            dataFile.rows[RowOf(n)][col] = Blank => settings[n][col] = settings[n - 1][col]

=============================================================================
