---------------------------- MODULE MCWorkerPool ----------------------------
(***************************************************************************)
(* WorkerPool for three devices in bays of their own.                      *)
(***************************************************************************)
EXTENDS WorkerPool

OwnBays == [d \in 1 .. 3 |-> d + 1]

=============================================================================
