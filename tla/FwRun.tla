------------------------------- MODULE FwRun -------------------------------
(***************************************************************************)
(* fw-update over several runs of the program: runFWUpdate in              *)
(* cmd/fwupdate.go (runFWUpdateTUI prepares a run in the same way) with    *)
(* fw-update-result.csv, the file one run leaves to the next               *)
(* (internal/deployment/csv.go).                                           *)
(*                                                                         *)
(* A run reads the file, leaves out the devices it calls updated, starts   *)
(* the file afresh and updates the others with a pool of workers, each of  *)
(* which appends one row. What a worker does to its device is module       *)
(* FwDevice; here it succeeds or fails. A run may be killed at any point.  *)
(* Between runs the devices may be labelled anew (module Labels).          *)
(*                                                                         *)
(* A device is its USB location; the locations 1 .. Devices are in the     *)
(* order of sort.Strings.                                                  *)
(***************************************************************************)
EXTENDS CsvFiles

CONSTANTS
    Devices,   \* devices that stay plugged in through all runs
    MapFiles,  \* what location-map.csv may be at first
    Answers,   \* what the operator may type for a bay
    Workers,   \* --workers
    MaxRuns,   \* bound: runs of the program
    MaxScans,  \* bound: times the devices are labelled
    MaxLost,   \* bound: rows of a run that cannot be appended
    MayCrash   \* a run may be killed

Locations == 1 .. Devices

ASSUME FwRunAssumption ==
    /\ Devices \in Nat \ {0}
    /\ Workers \in Nat \ {0}
    /\ MaxRuns \in Nat
    /\ MaxScans \in Nat
    /\ MaxLost \in Nat
    /\ MayCrash \in BOOLEAN

VARIABLES
    mapFile,    \* location-map.csv
    scan,       \* a scan --label under way
    labelled,   \* what the latest scan was told (history)
    scans,      \* scans begun
    locToBay,   \* the map the current run has loaded
    phase,      \* of the current run: between runs, the header, the pool
    runs,       \* runs started
    all,        \* the --all flag of the current run
    file,       \* fw-update-result.csv: absent, empty or header and rows
    selected,   \* channelsToUpdate, sorted
    launched,   \* how many of them have been handed to the pool
    working,    \* locations a worker is busy with
    ok,         \* locations whose latest attempt succeeded (history)
    thisRun,    \* outcomes of the current run so far (history)
    lost,       \* locations whose row could not be appended to the file (history)
    writtenBy   \* the map of the run that began the file (history)

Labelling == INSTANCE Labels

labelVars == <<mapFile, scan, labelled, scans>>
historyVars == <<ok, thisRun, lost, writtenBy>>
runVars == <<locToBay, phase, runs, all, file, selected, launched, working, historyVars>>
vars == <<labelVars, runVars>>

NoOutcomes == [loc \in Locations |-> "none"]

Init ==
    /\ Labelling!Init
    /\ scans = 0
    /\ locToBay = << >>
    /\ phase = "idle"
    /\ runs = 0
    /\ all = FALSE
    /\ file = Absent
    /\ selected = << >>
    /\ launched = 0
    /\ working = {}
    /\ ok = {}
    /\ thisRun = NoOutcomes
    /\ lost = {}
    /\ writtenBy = << >>

-----------------------------------------------------------------------------
(* Which devices a run updates, and under which bay it files them.         *)

\* locationToBay: from the map, else the position among all the channels.
LocationToBay(map, loc) == IF loc \in DOMAIN map THEN map[loc] ELSE loc

\* Deliberate fault, with which the properties must fail: a bay with any row
\* is taken for updated.
HasRow(bay) == \E k \in 1 .. Len(file.rows) : file.rows[k].bay = bay

\* prevResults of ReadFWUpdateResults: a later row replaces an earlier one.
PrevSucceeded(bay) ==
    \E k \in 1 .. Len(file.rows) :
        /\ file.rows[k].bay = bay
        /\ file.rows[k].succeeded
        /\ \A j \in k + 1 .. Len(file.rows) : file.rows[j].bay # bay

Filtered(map) == {loc \in Locations : ~PrevSucceeded(LocationToBay(map, loc))}

ChannelsToUpdate(everything, map) == IF everything THEN Locations ELSE Filtered(map)

\* sort.Strings.
Sorted(channels) ==
    {s \in [1 .. Cardinality(channels) -> channels] :
        \A j, k \in DOMAIN s : j < k => s[j] < s[k]}

\* Deliberate fault: the map is not looked at.
BayByPosition(k) == k

\* The bay a worker is given: from the map, else the position among the
\* channels to update.
Bay(k) == IF selected[k] \in DOMAIN locToBay THEN locToBay[selected[k]] ELSE k

-----------------------------------------------------------------------------
(* One run.                                                                *)

\* scan --label begins; no other command has the ports.
StartScan ==
    /\ phase = "idle"
    /\ scans < MaxScans
    /\ scans' = scans + 1
    /\ Labelling!CreateMap
    /\ UNCHANGED runVars

ContinueScan ==
    /\ Labelling!LabelStep
    /\ UNCHANGED <<scans, runVars>>

NextRun ==
    /\ phase = "idle"
    /\ scan.state = "none"
    /\ runs < MaxRuns
    /\ runs' = runs + 1

\* The run begins: it loads the map, reads the file and filters. Without --all
\* an empty file ends the program: records[1:] of no records panics.
StartRun ==
    /\ NextRun
    /\ MapLoads(mapFile)
    /\ locToBay' = LocToBay(mapFile)
    /\ all' \in BOOLEAN
    /\ all' \/ file.state # "empty"
    /\ LET channels == ChannelsToUpdate(all', locToBay')
       IN  /\ channels # {}
           /\ selected' \in Sorted(channels)
    /\ phase' = "confirmed"
    /\ launched' = 0
    /\ thisRun' = NoOutcomes
    /\ UNCHANGED <<labelVars, file, working, ok, lost, writtenBy>>

\* The other ways a run ends before it touches the file: a map that does not
\* load, nothing to update, no confirmation, the panic above.
RunDoesNothing ==
    /\ NextRun
    /\ UNCHANGED <<labelVars, locToBay, phase, all, file, selected, launched, working, historyVars>>

\* WriteFWUpdateHeader: os.Create empties the file, then the header is written.
CreateFile ==
    /\ phase = "confirmed"
    /\ file' = Empty
    /\ phase' = "created"
    /\ writtenBy' = locToBay
    /\ lost' = {}
    /\ UNCHANGED <<labelVars, locToBay, runs, all, selected, launched, working, ok, thisRun>>

WriteHeader ==
    /\ phase = "created"
    /\ file' = [state |-> "header", rows |-> << >>]
    /\ phase' = "pool"
    /\ UNCHANGED <<labelVars, locToBay, runs, all, selected, launched, working, historyVars>>

\* A slot of the semaphore is free.
Slot == Cardinality(working) < Workers

\* wg.Add, the semaphore, and the worker of the next location.
Launch ==
    /\ phase = "pool"
    /\ launched < Len(selected)
    /\ Slot
    /\ launched' = launched + 1
    /\ working' = working \cup {selected[launched + 1]}
    /\ UNCHANGED <<labelVars, locToBay, phase, runs, all, file, selected, historyVars>>

\* AppendFWUpdateResult, under resultMu: an error is only logged.
AppendRow(loc, row) ==
    \/ file' = [file EXCEPT !.rows = Append(@, row)] /\ UNCHANGED lost
    \/ Cardinality(lost) < MaxLost /\ lost' = lost \cup {loc} /\ UNCHANGED file

\* A worker of location loc ends.
Finish(loc, succeeded) ==
    LET k == CHOOSE j \in 1 .. Len(selected) : selected[j] = loc
    IN  /\ loc \in working
        /\ working' = working \ {loc}
        /\ AppendRow(loc, [bay |-> Bay(k), succeeded |-> succeeded])
        /\ ok' = IF succeeded THEN ok \cup {loc} ELSE ok \ {loc}
        /\ thisRun' = [thisRun EXCEPT ![loc] = IF succeeded THEN "succeeded" ELSE "failed"]
        /\ UNCHANGED <<labelVars, locToBay, phase, runs, all, selected, launched, writtenBy>>

\* wg.Wait returns.
EndRun ==
    /\ phase = "pool"
    /\ launched = Len(selected)
    /\ working = {}
    /\ phase' = "idle"
    /\ UNCHANGED <<labelVars, locToBay, runs, all, file, selected, launched, working, historyVars>>

\* The process is killed (or the machine is): the file stays as it is. A
\* device whose update was cut short counts as not updated.
Crash ==
    /\ MayCrash
    /\ phase # "idle"
    /\ phase' = "idle"
    /\ ok' = ok \ working
    /\ working' = {}
    /\ UNCHANGED <<labelVars, locToBay, runs, all, file, selected, launched, thisRun, lost, writtenBy>>

RunStep ==
    \/ CreateFile \/ WriteHeader \/ Launch \/ EndRun
    \/ \E loc \in Locations, succeeded \in BOOLEAN : Finish(loc, succeeded)

Next == StartScan \/ ContinueScan \/ StartRun \/ RunDoesNothing \/ RunStep \/ Crash

Spec == Init /\ [][Next]_vars

-----------------------------------------------------------------------------
(* Properties.                                                             *)

Selected == {selected[k] : k \in 1 .. Len(selected)}

\* Every device has a bay of its own on the map.
Complete(map) == DOMAIN map = Locations /\ OneToOne(map)

\* A device is left out of a run only when its latest update succeeded, over
\* any number of runs, with or without --all, killed anywhere and with rows that
\* could not be written, when the map is complete and still the one under which the file was written.
SkippedOnlyIfUpdated ==
    phase = "confirmed" /\ Complete(locToBay) /\ locToBay = writtenBy =>
        Locations \ Selected \subseteq ok

\* A device whose latest update failed is in the next run, whatever the map: the
\* help of fw-update says so of every re-run. It is not.
FailedAreRetried ==
    phase = "confirmed" => Locations \ ok \subseteq Selected

\* The rows of a run tell, for every device whose worker has ended, how its
\* update ended: one row per device, but for rows that could not be appended,
\* and, when the map is complete, none under another's bay; a device whose row
\* is lost counts as one that failed.
RowsTellOutcomes ==
    phase = "pool" =>
        /\ Len(file.rows) = Cardinality({loc \in Locations \ lost : thisRun[loc] # "none"})
        /\ Complete(locToBay) => \A loc \in Locations :
              (thisRun[loc] = "succeeded" /\ loc \notin lost <=> PrevSucceeded(LocationToBay(locToBay, loc)))

\* Half a map is never used: once the devices have been labelled a run goes on
\* only with all that the operator said, in a scan that came to its end.
RunsUseFinishedLabels ==
    phase # "idle" /\ scans > 0 => labelled.finished /\ locToBay = labelled.bays

=============================================================================
