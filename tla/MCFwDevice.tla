----------------------------- MODULE MCFwDevice -----------------------------
(***************************************************************************)
(* FwDevice with the images of all three fw-update flags.                  *)
(***************************************************************************)
EXTENDS FwDevice

ThreeImages == <<"main", "wifi", "pmm">>

=============================================================================
