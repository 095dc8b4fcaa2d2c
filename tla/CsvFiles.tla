------------------------------ MODULE CsvFiles ------------------------------
(***************************************************************************)
(* What the program makes of the two files an operator provides:           *)
(* location-map.csv and deployment-data.csv (LoadLocationMap, LoadSettings *)
(* and parseSettingRow in internal/deployment/csv.go, Validate in          *)
(* internal/models/deployment.go).                                         *)
(*                                                                         *)
(* A file is its header and its rows; a row is a function from columns to  *)
(* cells. Numbers stand for the cells strconv.Atoi accepts.                *)
(***************************************************************************)
EXTENDS Naturals, Sequences, SequencesExt

CONSTANTS
    Blank,     \* the empty cell
    NotANumber \* a cell strconv.Atoi rejects

IsNumber(cell) == cell \notin {Blank, NotANumber}

-----------------------------------------------------------------------------
(* location-map.csv.                                                       *)

\* Absent: no file. Empty: created, nothing written yet.
Absent == [state |-> "absent", rows |-> << >>]
Empty == [state |-> "empty", rows |-> << >>]
WithHeader(rows) == [state |-> "header", rows |-> rows]

\* LoadLocationMap fails on a file without a row; without a file it is not called.
MapLoads(file) == file.state = "absent" \/ file.rows # << >>

\* The rows whose bay is a number; the others are passed over.
Numbered(file) == {k \in DOMAIN file.rows : IsNumber(file.rows[k].bay)}

RowsOfLocation(loc, file) == {k \in Numbered(file) : file.rows[k].location = loc}

\* locToBay: a later row of a location replaces an earlier one.
LocToBay(file) ==
    [loc \in {file.rows[k].location : k \in Numbered(file)} |->
        LET last == CHOOSE k \in RowsOfLocation(loc, file) :
                        \A j \in RowsOfLocation(loc, file) : j <= k
        IN  file.rows[last].bay]

\* No two of the locations are in one bay.
OneToOne(map) == \A k, l \in DOMAIN map : k # l => map[k] # map[l]

-----------------------------------------------------------------------------
(* deployment-data.csv.                                                    *)

\* Every row has a cell for each column: encoding/csv refuses other files.
IsTable(file) ==
    /\ file.rows \in Seq({file.rows[k] : k \in DOMAIN file.rows})
    /\ \A k \in DOMAIN file.rows : DOMAIN file.rows[k] = file.columns

RequiredCols == {"bay", "wifi_ssid", "wifi_psk", "account", "lodging_id", "room", "room_type"}

\* The columns an empty cell of which takes the value of the setting before.
InheritedCols == {"wifi_ssid", "account", "lodging_id", "room_type"}

AllEmpty(row) == \A col \in DOMAIN row : row[col] = Blank

\* Deliberate fault: the value is that of the first setting.
FromFirst(col, row, previous) ==
    IF row[col] = Blank /\ col \in InheritedCols /\ previous # << >>
    THEN Head(previous)[col] ELSE row[col]

\* inherit: previous holds the settings loaded so far.
Inherit(col, row, previous) ==
    IF row[col] = Blank /\ col \in InheritedCols /\ previous # << >>
    THEN Last(previous)[col] ELSE row[col]

\* The setting of a row; an empty lodging with none before it is Go's zero.
Setting(row, previous) ==
    [col \in RequiredCols |->
        LET cell == Inherit(col, row, previous)
        IN  IF col = "lodging_id" /\ cell = Blank THEN 0 ELSE cell]

\* Validate: the SSID and the account must be given.
Valid(setting) == setting.wifi_ssid # Blank /\ setting.account # Blank

\* parseSettingRow accepts the row: numbers where they must be, and the first
\* row of the file, if it is not empty, validated.
RowParses(row, previous, rowNum) ==
    /\ IsNumber(row.bay)
    /\ IsNumber(Setting(row, previous).lodging_id)
    /\ rowNum = 1 => Valid(Setting(row, previous))

NotLoaded == [ok |-> FALSE, settings |-> << >>]

LoadRow(loaded, row, rowNum) ==
    IF ~loaded.ok \/ AllEmpty(row) THEN loaded
    ELSE IF RowParses(row, loaded.settings, rowNum)
    THEN [ok |-> TRUE, settings |-> Append(loaded.settings, Setting(row, loaded.settings))]
    ELSE NotLoaded

\* LoadSettings: an error, or the settings of the rows that are not empty.
LoadSettings(file) ==
    LET loaded[k \in 0 .. Len(file.rows)] ==
            IF k = 0 THEN [ok |-> TRUE, settings |-> << >>]
            ELSE LoadRow(loaded[k - 1], file.rows[k], k)
    IN  IF RequiredCols \subseteq file.columns /\ file.rows # << >>
        THEN loaded[Len(file.rows)] ELSE NotLoaded

=============================================================================
