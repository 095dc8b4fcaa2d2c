------------------------------- MODULE MCRpc -------------------------------
(***************************************************************************)
(* Rpc on a small set of callers, a unary and a streaming method. The      *)
(* liveness property rules symmetry out.                                   *)
(***************************************************************************)
EXTENDS Rpc

CONSTANTS c1, c2, ch1, unary, stream

MCCallers == {c1, c2}
MCChannels == {ch1}
MCUnaryMethods == {unary}
MCStreamMethods == {stream}

=============================================================================
