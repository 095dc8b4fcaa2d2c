------------------------------- MODULE Labels -------------------------------
(***************************************************************************)
(* scan --label: runScan in cmd/scan.go, which writes location-map.csv.    *)
(*                                                                         *)
(* The file is created, and so emptied, before the first question; the     *)
(* rows stay in the csv.Writer until the deferred Flush at the end of the  *)
(* command. A scan that is killed leaves the file empty. (Rows of more     *)
(* devices than fill the writer's 4096 bytes would go out earlier.)        *)
(***************************************************************************)
EXTENDS CsvFiles

CONSTANTS
    Devices,  \* the locations 1 .. Devices, in the order of sort.Strings
    MapFiles, \* what location-map.csv may be at first
    Answers   \* what the operator may type for a bay

VARIABLES
    mapFile,  \* location-map.csv
    scan,     \* the scan under way: state, the location whose turn it is, writer
    labelled  \* what the latest scan was told, and if it came to its end (history)

labelVars == <<mapFile, scan, labelled>>

NoScan == [state |-> "none", next |-> 1, writer |-> << >>]

Init ==
    /\ mapFile \in MapFiles
    /\ scan = NoScan
    /\ labelled = [bays |-> << >>, finished |-> FALSE]

-----------------------------------------------------------------------------
\* Deliberate fault: the row goes to the file at once.
WrittenThrough(row) == [state |-> "header", rows |-> Append(mapFile.rows, row)]

\* writer.Write: the file stays as it is.
Written(row) == mapFile

\* os.Create, and the header into the writer.
CreateMap ==
    /\ scan.state = "none"
    /\ scan' = [NoScan EXCEPT !.state = "labelling"]
    /\ mapFile' = Empty
    /\ labelled' = [bays |-> << >>, finished |-> FALSE]

\* A device whose GetDeviceInfo fails is left out.
LeaveOut ==
    /\ scan.state = "labelling"
    /\ scan.next \in 1 .. Devices
    /\ scan' = [scan EXCEPT !.next = @ + 1]
    /\ UNCHANGED <<mapFile, labelled>>

\* A map with one more entry.
WithEntry(map, loc, bay) ==
    [l \in DOMAIN map \cup {loc} |-> IF l = loc THEN bay ELSE map[l]]

\* The operator's answer for the lit device.
LabelDevice(answer) ==
    LET row == [bay |-> answer, location |-> scan.next]
    IN  /\ scan.state = "labelling"
        /\ scan.next \in 1 .. Devices
        /\ scan' = [scan EXCEPT !.next = @ + 1, !.writer = Append(@, row)]
        /\ mapFile' = Written(row)
        /\ labelled' = [labelled EXCEPT !.bays =
                           IF IsNumber(answer) THEN WithEntry(@, scan.next, answer) ELSE @]

\* The command returns: Flush, then Close.
Flush ==
    /\ scan.state = "labelling"
    /\ scan.next > Devices
    /\ mapFile' = WithHeader(scan.writer)
    /\ scan' = NoScan
    /\ labelled' = [labelled EXCEPT !.finished = TRUE]

\* The operator gives up in the middle: what the writer holds is lost.
KillScan ==
    /\ scan.state = "labelling"
    /\ scan' = NoScan
    /\ UNCHANGED <<mapFile, labelled>>

LabelStep ==
    \/ LeaveOut \/ Flush \/ KillScan
    \/ \E answer \in Answers : LabelDevice(answer)

=============================================================================
