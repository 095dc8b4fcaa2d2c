---------------------------- MODULE CallService ----------------------------
(***************************************************************************)
(* What the RPC layer promises its callers (UnaryCall, StreamingSend and   *)
(* StreamingReceive of rpc.go), without contexts, invocation numbers,      *)
(* handlers or wires: a caller has at most one request outstanding; the    *)
(* request is over when its own answer arrives, when the device ends the   *)
(* call, or when the deadline passes; an answer belongs to the outstanding *)
(* request and to nothing else; no request is used twice.                  *)
(***************************************************************************)
CONSTANTS Callers, Requests, NoRequest

VARIABLES
    outstanding,  \* the request each caller waits for, or NoRequest
    outcome,      \* how each caller's last request ended
    used          \* requests made so far

vars == <<outstanding, outcome, used>>

NoOutcome == [kind |-> "none", body |-> NoRequest]
Failed(kind) == [kind |-> kind, body |-> NoRequest]

Init ==
    /\ outstanding = [c \in Callers |-> NoRequest]
    /\ outcome = [c \in Callers |-> NoOutcome]
    /\ used = {}

\* A new call begins: nothing is known of it yet.
Begin(c) ==
    /\ outstanding[c] = NoRequest
    /\ outcome' = [outcome EXCEPT ![c] = NoOutcome]
    /\ UNCHANGED <<outstanding, used>>

Ask(c) ==
    /\ outstanding[c] = NoRequest
    /\ \E r \in Requests \ used :
          /\ outstanding' = [outstanding EXCEPT ![c] = r]
          /\ used' = used \cup {r}
    /\ outcome' = [outcome EXCEPT ![c] = NoOutcome]

CannotAsk(c) ==
    /\ outstanding[c] = NoRequest
    /\ outcome' = [outcome EXCEPT ![c] = Failed("senderr")]
    /\ UNCHANGED <<outstanding, used>>

Over(c) ==
    /\ outstanding[c] # NoRequest
    /\ outstanding' = [outstanding EXCEPT ![c] = NoRequest]
    /\ UNCHANGED used

Answer(c) ==
    /\ Over(c)
    /\ outcome' = [outcome EXCEPT ![c] = [kind |-> "answer", body |-> outstanding[c]]]

\* The device ended the call, or the deadline passed.
NoAnswer(c) ==
    /\ Over(c)
    /\ \E kind \in {"closed", "timeout"} : outcome' = [outcome EXCEPT ![c] = Failed(kind)]

Next == \E c \in Callers : Begin(c) \/ Ask(c) \/ CannotAsk(c) \/ Answer(c) \/ NoAnswer(c)

Spec == Init /\ [][Next]_vars
=============================================================================
