---------------------------- MODULE MCDeployRun ----------------------------
(***************************************************************************)
(* DeployRun over settings files with gaps and maps with faults.           *)
(***************************************************************************)
EXTENDS DeployRun

\* A row of a settings file: its bay, network, account and room; the type of
\* the room and the lodging are left to be inherited.
Row(bay, ssid, account, room) ==
    [bay |-> bay, wifi_ssid |-> ssid, wifi_psk |-> Blank, account |-> account,
     lodging_id |-> Blank, room |-> room, room_type |-> Blank]
EmptyRow == [col \in RequiredCols |-> Blank]
File(rows) == [columns |-> RequiredCols, rows |-> rows]

CONSTANTS n1, n2, a1, a2, r1

\* Cells filled in, inherited over one row and over two, a row left out.
Gaps == File(<<Row(1, n1, a1, r1), Row(2, Blank, a2, Blank), EmptyRow,
               [Row(3, n2, Blank, r1) EXCEPT !.lodging_id = 7], Row(4, Blank, Blank, Blank)>>)

\* The first row is empty, so that none is validated.
Unvalidated == File(<<EmptyRow, Row(1, Blank, a1, r1), Row(2, n2, Blank, Blank)>>)

\* The rows are not in the order of their bays.
Shuffled == File(<<Row(3, n1, a1, r1), Row(1, Blank, Blank, r1), Row(2, n2, a2, Blank)>>)

NoRoomTypes ==
    LET columns == RequiredCols \ {"room_type"}
    IN  [columns |-> columns, rows |-> <<[col \in columns |-> Row(1, n1, a1, r1)[col]]>>]

\* No account in the first row; a bay that is no number; a lodging that is
\* none; no row; a column missing.
Rejected == {File(<<Row(1, n1, Blank, r1)>>),
             File(<<Row(1, n1, a1, r1), Row(NotANumber, n1, a1, r1)>>),
             File(<<Row(1, n1, a1, r1), [Row(2, n1, a1, r1) EXCEPT !.lodging_id = NotANumber]>>),
             File(<< >>),
             NoRoomTypes}

DataFiles == {Gaps, Unvalidated, Shuffled} \cup Rejected

\* Of four devices one is not on the map, one in a bay without a setting, and
\* one was typed wrong; a map with two devices in one bay and one corrected.
Mapped(loc, bay) == [location |-> loc, bay |-> bay]
Partial == WithHeader(<<Mapped(1, 3), Mapped(2, 5), Mapped(4, 1), Mapped(3, NotANumber)>>)
Shared == WithHeader(<<Mapped(1, 2), Mapped(2, 2), Mapped(3, 2), Mapped(3, 4)>>)

LocationMaps == {Absent, Empty, Partial, Shared}

=============================================================================
