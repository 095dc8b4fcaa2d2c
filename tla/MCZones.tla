------------------------------ MODULE MCZones ------------------------------
(***************************************************************************)
(* Zones for three devices, two of which share a room; the second of these *)
(* is new, the third is in a room already, and the first may be.           *)
(***************************************************************************)
EXTENDS Zones, TLC

ThreeDevices == {"d1", "d2", "d3"}
SharedRoom == "d1" :> "a" @@ "d2" :> "a" @@ "d3" :> "b"
OneOfThem == {"d1"}

MCInit == Init /\ zoneOf["d2"] = Unassigned /\ zoneOf["d3"] = 1

MCSpec == MCInit /\ [][Next]_vars

=============================================================================
