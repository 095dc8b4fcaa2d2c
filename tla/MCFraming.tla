----------------------------- MODULE MCFraming -----------------------------
(***************************************************************************)
(* Framing for three packets with zeros and full groups in them, too far   *)
(* apart for two damaged bytes to turn one into another; and the laws of   *)
(* the codecs it rests on, each input tried once on an untouched line.     *)
(***************************************************************************)
EXTENDS Framing, EncodingLaws

ThreePackets == <<<<1, 1, 0, 1>>, <<2, 2, 2, 2, 2, 2>>, <<0, 3, 3, 0, 0>>>>

Untouched == written = 0 /\ faults = 0

MCInit == LineInit /\ Untried /\ message = << >>

MCNext ==
    \/ Untried /\ message = << >> /\ LineNext /\ UNCHANGED <<bench, message>>
    \/ Untouched /\ message = << >> /\ TryBytes /\ UNCHANGED <<lineVars, message>>
    \/ Untouched /\ message = << >> /\ TryNumber /\ UNCHANGED <<lineVars, message>>
    \/ Untouched /\ Untried /\ TryMessage /\ UNCHANGED <<lineVars, bench>>

MCSpec == MCInit /\ [][MCNext]_<<lineVars, bench, message>>

=============================================================================
