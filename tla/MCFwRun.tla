------------------------------ MODULE MCFwRun ------------------------------
(***************************************************************************)
(* FwRun with devices that are labelled between the runs.                  *)
(***************************************************************************)
EXTENDS FwRun

\* No file, or one in which the bays are numbered against the order of the
\* locations.
MapOrNone ==
    {Absent, WithHeader([loc \in 1 .. Devices |-> [bay |-> Devices + 1 - loc, location |-> loc]])}
NoMap == {Absent}

BaysAndTypos == 1 .. Devices \cup {NotANumber}

=============================================================================
