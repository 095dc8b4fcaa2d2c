-------------------------------- MODULE Rpc --------------------------------
(***************************************************************************)
(* The RPC layer of wyndctl (internal/transport/rpc.go) and the packet     *)
(* delivery below it (packet.go, serial.go readLoop).                      *)
(*                                                                         *)
(* Actors:                                                                 *)
(*   - callers: goroutines that run UnaryCall or a streaming call; several *)
(*     may be in flight on one channel;                                    *)
(*   - one readLoop goroutine per serial channel, which runs the packet    *)
(*     handlers: it looks the context up under r.mu and sends to, or       *)
(*     closes, the context's ResponseCh after the mutex is released;       *)
(*   - the devices at the far end (external), which answer a request with  *)
(*     the header they received, or end the call.                          *)
(*                                                                         *)
(* A serial line keeps order and does not duplicate; a damaged packet is   *)
(* dropped by the CRC, length and framing checks of Transport.Receive.     *)
(***************************************************************************)
EXTENDS Naturals, Sequences

CONSTANTS
    Callers,        \* goroutines that make calls
    Channels,       \* serial channels, one device on each
    UnaryMethods,   \* methods called through UnaryCall
    StreamMethods,  \* methods called through StreamingCall (MethodWrite)
    ResponseChCap,  \* capacity of ResponseCh: 8 in the code
    MaxCalls,       \* bound: calls made in one behaviour
    MaxSends        \* bound: requests sent on one streaming call

Methods == UnaryMethods \cup StreamMethods

ASSUME RpcAssumption ==
    /\ ResponseChCap \in Nat \ {0}
    /\ MaxCalls \in Nat
    /\ MaxSends \in Nat \ {0}
    /\ UnaryMethods \cap StreamMethods = {}

VARIABLES
    nextInvocation,  \* RPC.nextInvocation
    clientContexts,  \* RPC.clientContexts: the registered contexts
    ctx,             \* the ClientContext objects, numbered by allocation
    sent,            \* requests sent so far on each context
    pc,              \* where each caller is
    cur,             \* the context each caller holds (0: none yet)
    outcome,         \* what the caller's last send or receive returned
    reader,          \* what each readLoop holds between lookup and delivery
    open,            \* the channels whose port is open
    toDevice,        \* packets on the wire to each device
    toHost,          \* packets on the wire from each device
    ended,           \* (device) invocations each device has finalized
    panicked         \* the process died of a panic in a handler

callerVars == <<pc, cur, outcome>>
contextVars == <<nextInvocation, clientContexts, ctx, sent>>
wireVars == <<toDevice, toHost>>
vars == <<nextInvocation, clientContexts, ctx, sent, pc, cur, outcome,
          reader, open, toDevice, toHost, ended, panicked>>

-----------------------------------------------------------------------------
(* Data. A payload is represented by the request it belongs to: the n-th   *)
(* request of a context. The RPC layer never reads it.                     *)

Body == [of : 0 .. MaxCalls, n : 0 .. MaxSends]
NoBody == [of |-> 0, n |-> 0]

\* Packet types of packet.go, and the call header of encodeCallHeader: the
\* (package, service, method) triple is one value of Methods.
ToDeviceTypes == {"ServerInitialize", "ServerRequest", "ServerFinalize"}
ToHostTypes == {"ClientResponse", "ClientFinalize"}
Packet(types) == [type : types, method : Methods, invocation : Nat, body : Body]

\* The ClientContext struct: ResponseCh is a bounded queue that can be closed.
ClientContext == [channel : Channels, method : Methods, invocation : Nat,
                  responses : Seq(Body), closed : BOOLEAN]

Allocated == DOMAIN ctx

Pcs == {"idle", "register", "init", "send", "recv", "ready", "finalize", "free"}
\* Places at which the caller's context is in clientContexts.
Registered == {"init", "send", "recv", "ready", "finalize", "free"}

Outcome == [kind : {"none", "answer", "closed", "timeout", "senderr"}, body : Body]
NoOutcome == [kind |-> "none", body |-> NoBody]
Failed(kind) == [kind |-> kind, body |-> NoBody]

ReaderIdle == [stage |-> "idle", ctx |-> 0, body |-> NoBody]
Reader == [stage : {"idle"} \cup ToHostTypes, ctx : 0 .. MaxCalls, body : Body]

\* ctx.Method.ServerStreaming: which of the two call shapes a context follows.
IsStream(i) == ctx[i].method \in StreamMethods

Init ==
    /\ nextInvocation = 0
    /\ clientContexts = {}
    /\ ctx = << >>
    /\ sent = << >>
    /\ pc = [c \in Callers |-> "idle"]
    /\ cur = [c \in Callers |-> 0]
    /\ outcome = [c \in Callers |-> NoOutcome]
    /\ reader = [ch \in Channels |-> ReaderIdle]
    /\ open = Channels
    /\ toDevice = [ch \in Channels |-> << >>]
    /\ toHost = [ch \in Channels |-> << >>]
    /\ ended = [ch \in Channels |-> {}]
    /\ panicked = FALSE

-----------------------------------------------------------------------------
(* Callers.                                                                *)

\* The invocation number a new context gets: r.nextInvocation.Add(1).
NewInvocation == nextInvocation + 1

\* allocateClientContext, first half: the context object is built, with its
\* own invocation number and an empty ResponseCh, before r.mu is taken.
Allocate(c, ch, m) ==
    /\ ~panicked
    /\ pc[c] = "idle"
    /\ Len(ctx) < MaxCalls
    /\ nextInvocation' = nextInvocation + 1
    /\ ctx' = Append(ctx, [channel |-> ch, method |-> m,
                           invocation |-> NewInvocation,
                           responses |-> << >>, closed |-> FALSE])
    /\ sent' = Append(sent, 0)
    /\ cur' = [cur EXCEPT ![c] = Len(ctx) + 1]
    /\ pc' = [pc EXCEPT ![c] = "register"]
    /\ outcome' = [outcome EXCEPT ![c] = NoOutcome]
    /\ UNCHANGED <<clientContexts, reader, open, wireVars, ended, panicked>>

UnaryCall(c, ch, m) == m \in UnaryMethods /\ Allocate(c, ch, m)
StreamingCall(c, ch, m) == m \in StreamMethods /\ Allocate(c, ch, m)

\* allocateClientContext, second half: append under r.mu. A streaming call
\* goes on to send ServerInitialize, a unary call its request.
Register(c) ==
    /\ ~panicked
    /\ pc[c] = "register"
    /\ clientContexts' = clientContexts \cup {cur[c]}
    /\ pc' = [pc EXCEPT ![c] = IF IsStream(cur[c]) THEN "init" ELSE "send"]
    /\ UNCHANGED <<nextInvocation, ctx, sent, cur, outcome, reader, open,
                   wireVars, ended, panicked>>

\* sendPacket, when the write goes through.
SendPacket(c, type, body) ==
    LET k == ctx[cur[c]]
    IN  /\ k.channel \in open
        /\ toDevice' = [toDevice EXCEPT ![k.channel] =
               Append(@, [type |-> type, method |-> k.method,
                          invocation |-> k.invocation, body |-> body])]

\* The write fails, or the packet is damaged on the way: nothing reaches the
\* device. The error of ServerInitialize and ServerFinalize is ignored.
SendNothing == UNCHANGED toDevice

SendInitialize(c) ==
    /\ ~panicked
    /\ pc[c] = "init"
    /\ SendPacket(c, "ServerInitialize", NoBody) \/ SendNothing
    /\ pc' = [pc EXCEPT ![c] = "send"]
    /\ UNCHANGED <<contextVars, cur, outcome, reader, open, toHost, ended, panicked>>

\* sendServerRequest for UnaryCall and StreamingSend.
SendRequest(c) ==
    LET i == cur[c]
    IN  /\ ~panicked
        /\ pc[c] = "send"
        /\ SendPacket(c, "ServerRequest", [of |-> i, n |-> sent[i] + 1])
        /\ sent' = [sent EXCEPT ![i] = @ + 1]
        /\ pc' = [pc EXCEPT ![c] = "recv"]
        /\ outcome' = [outcome EXCEPT ![c] = NoOutcome]
        /\ UNCHANGED <<nextInvocation, clientContexts, ctx, cur, reader, open,
                       toHost, ended, panicked>>

\* Deliberate faults, here and below, with which the properties must fail:
\* a failed call that keeps its context.
AfterErrorNoFree(c) == IF IsStream(cur[c]) THEN "finalize" ELSE "idle"

\* Where a caller goes once a call has failed: the deferred free of UnaryCall,
\* the deferred StreamingFinalize of WriteFirmware.
AfterError(c) == IF IsStream(cur[c]) THEN "finalize" ELSE "free"

\* The write returns an error: the port is closed, or the driver refuses.
SendFails(c) ==
    /\ ~panicked
    /\ pc[c] = "send"
    /\ SendNothing
    /\ pc' = [pc EXCEPT ![c] = AfterError(c)]
    /\ outcome' = [outcome EXCEPT ![c] = Failed("senderr")]
    /\ UNCHANGED <<contextVars, cur, reader, open, toHost, ended, panicked>>

AfterReceive(c) == IF IsStream(cur[c]) THEN "ready" ELSE "free"

\* The select of UnaryCall and StreamingReceive, first case: a response.
ReceiveResponse(c) ==
    LET i == cur[c]
    IN  /\ ~panicked
        /\ pc[c] = "recv"
        /\ ctx[i].responses # << >>
        /\ ctx' = [ctx EXCEPT ![i].responses = Tail(@)]
        /\ outcome' = [outcome EXCEPT ![c] =
               [kind |-> "answer", body |-> Head(ctx[i].responses)]]
        /\ pc' = [pc EXCEPT ![c] = AfterReceive(c)]
        /\ UNCHANGED <<nextInvocation, clientContexts, sent, cur, reader, open,
                       wireVars, ended, panicked>>

\* The same case on a closed and drained ResponseCh: the receive yields nil
\* and the call returns (nil, nil), no error.
ReceiveClosed(c) ==
    LET i == cur[c]
    IN  /\ ~panicked
        /\ pc[c] = "recv"
        /\ ctx[i].responses = << >>
        /\ ctx[i].closed
        /\ outcome' = [outcome EXCEPT ![c] = Failed("closed")]
        /\ pc' = [pc EXCEPT ![c] = AfterReceive(c)]
        /\ UNCHANGED <<contextVars, cur, reader, open, wireVars, ended, panicked>>

\* Deliberate fault: a receive without a deadline.
TimeoutNever(c) == FALSE

\* Second case: time.After fires. It may win against a response that is there.
Timeout(c) ==
    /\ ~panicked
    /\ pc[c] = "recv"
    /\ outcome' = [outcome EXCEPT ![c] = Failed("timeout")]
    /\ pc' = [pc EXCEPT ![c] = AfterError(c)]
    /\ UNCHANGED <<contextVars, cur, reader, open, wireVars, ended, panicked>>

\* Deliberate fault: one chunk too many.
NextSendOffByOne(c) ==
    /\ ~panicked
    /\ pc[c] = "ready"
    /\ sent[cur[c]] <= MaxSends
    /\ pc' = [pc EXCEPT ![c] = "send"]
    /\ UNCHANGED <<contextVars, cur, outcome, reader, open, wireVars, ended, panicked>>

\* Between two receives of a streaming call its user sends again or stops.
NextSend(c) ==
    /\ ~panicked
    /\ pc[c] = "ready"
    /\ sent[cur[c]] < MaxSends
    /\ pc' = [pc EXCEPT ![c] = "send"]
    /\ UNCHANGED <<contextVars, cur, outcome, reader, open, wireVars, ended, panicked>>

StopSending(c) ==
    /\ ~panicked
    /\ pc[c] = "ready"
    /\ pc' = [pc EXCEPT ![c] = "finalize"]
    /\ UNCHANGED <<contextVars, cur, outcome, reader, open, wireVars, ended, panicked>>

\* StreamingFinalize: ServerFinalize is sent while the context is registered.
SendFinalize(c) ==
    /\ ~panicked
    /\ pc[c] = "finalize"
    /\ SendPacket(c, "ServerFinalize", NoBody) \/ SendNothing
    /\ pc' = [pc EXCEPT ![c] = "free"]
    /\ UNCHANGED <<contextVars, cur, outcome, reader, open, toHost, ended, panicked>>

\* What is left of clientContexts once freeClientContext has removed ctx i.
WithoutContext(i) == clientContexts \ {i}

\* freeClientContext; the object lives on while a readLoop still points to it.
Free(c) ==
    /\ ~panicked
    /\ pc[c] = "free"
    /\ clientContexts' = WithoutContext(cur[c])
    /\ pc' = [pc EXCEPT ![c] = "idle"]
    /\ UNCHANGED <<nextInvocation, ctx, sent, cur, outcome, reader, open,
                   wireVars, ended, panicked>>

-----------------------------------------------------------------------------
(* readLoop and the packet handlers.                                       *)

\* Deliberate faults: a lookup by method alone; a ResponseCh with no buffer.
MatchesAnyInvocation(i, ch, p) == ctx[i].channel = ch /\ ctx[i].method = p.method
HasRoomUnbuffered(i) == FALSE

\* The three tests of findClientContext.
Matches(i, ch, p) ==
    /\ ctx[i].channel = ch
    /\ ctx[i].method = p.method
    /\ ctx[i].invocation = p.invocation

\* Transport.Receive rejects the packet (short, length, CRC, type).
ReceiveDamaged(ch) ==
    /\ ~panicked
    /\ ch \in open
    /\ reader[ch].stage = "idle"
    /\ toHost[ch] # << >>
    /\ toHost' = [toHost EXCEPT ![ch] = Tail(@)]
    /\ UNCHANGED <<contextVars, callerVars, reader, open, toDevice, ended, panicked>>

\* handleClientResponse and handleClientFinalize up to findClientContext: the
\* lookup is under r.mu, what follows it is not.
FindContext(ch) ==
    /\ ~panicked
    /\ ch \in open
    /\ reader[ch].stage = "idle"
    /\ toHost[ch] # << >>
    /\ LET p == Head(toHost[ch])
           found == {i \in clientContexts : Matches(i, ch, p)}
       IN  \/ /\ found = {}
              /\ UNCHANGED reader
           \/ \E i \in found :
                 reader' = [reader EXCEPT ![ch] =
                     [stage |-> p.type, ctx |-> i, body |-> p.body]]
    /\ toHost' = [toHost EXCEPT ![ch] = Tail(@)]
    /\ UNCHANGED <<contextVars, callerVars, open, toDevice, ended, panicked>>

HasRoom(i) == Len(ctx[i].responses) < ResponseChCap

\* handleClientResponse after the lookup: a send that never blocks, which
\* drops the response when ResponseCh is full and panics when it is closed.
DeliverResponse(ch) ==
    LET i == reader[ch].ctx
    IN  /\ ~panicked
        /\ reader[ch].stage = "ClientResponse"
        /\ panicked' = ctx[i].closed
        /\ ctx' = IF ~ctx[i].closed /\ HasRoom(i)
                  THEN [ctx EXCEPT ![i].responses = Append(@, reader[ch].body)]
                  ELSE ctx
        /\ reader' = [reader EXCEPT ![ch] = ReaderIdle]
        /\ UNCHANGED <<nextInvocation, clientContexts, sent, callerVars, open,
                       wireVars, ended>>

\* handleClientFinalize after the lookup: close(ctx.ResponseCh), which panics
\* when the channel is closed already. The context stays registered.
DeliverFinalize(ch) ==
    LET i == reader[ch].ctx
    IN  /\ ~panicked
        /\ reader[ch].stage = "ClientFinalize"
        /\ panicked' = ctx[i].closed
        /\ ctx' = [ctx EXCEPT ![i].closed = TRUE]
        /\ reader' = [reader EXCEPT ![ch] = ReaderIdle]
        /\ UNCHANGED <<nextInvocation, clientContexts, sent, callerVars, open,
                       wireVars, ended>>

\* SerialChannel.Close returns once readLoop has ended. Packets on the wire
\* may outlive it: the device keeps sending, the driver keeps buffering.
CloseChannel(ch) ==
    /\ ~panicked
    /\ ch \in open
    /\ reader[ch].stage = "idle"
    /\ open' = open \ {ch}
    /\ UNCHANGED <<contextVars, callerVars, reader, wireVars, ended, panicked>>

\* SerialChannel.Open, after the pause that follows a reboot.
OpenChannel(ch) ==
    /\ ~panicked
    /\ ch \notin open
    /\ open' = open \cup {ch}
    /\ UNCHANGED <<contextVars, callerVars, reader, wireVars, ended, panicked>>

-----------------------------------------------------------------------------
(* The device (external): it answers with the header it was sent, ends a   *)
(* call at most once, and says nothing more on a call it has ended.        *)

Reply(type, p) ==
    [type |-> type, method |-> p.method, invocation |-> p.invocation,
     body |-> IF type = "ClientResponse" THEN p.body ELSE NoBody]

DeviceAnswers(ch) ==
    LET p == Head(toDevice[ch])
    IN  /\ toDevice[ch] # << >>
        /\ p.type = "ServerRequest"
        /\ p.invocation \notin ended[ch]
        /\ toHost' = [toHost EXCEPT ![ch] = Append(@, Reply("ClientResponse", p))]
        /\ toDevice' = [toDevice EXCEPT ![ch] = Tail(@)]
        /\ UNCHANGED <<contextVars, callerVars, reader, open, ended, panicked>>

\* It ends the call: the client finalized it, or the request was refused.
DeviceFinalizes(ch) ==
    LET p == Head(toDevice[ch])
    IN  /\ toDevice[ch] # << >>
        /\ p.type \in {"ServerRequest", "ServerFinalize"}
        /\ p.invocation \notin ended[ch]
        /\ toHost' = [toHost EXCEPT ![ch] = Append(@, Reply("ClientFinalize", p))]
        /\ ended' = [ended EXCEPT ![ch] = @ \cup {p.invocation}]
        /\ toDevice' = [toDevice EXCEPT ![ch] = Tail(@)]
        /\ UNCHANGED <<contextVars, callerVars, reader, open, panicked>>

\* It answers and ends the call with the same request.
DeviceAnswersAndFinalizes(ch) ==
    LET p == Head(toDevice[ch])
    IN  /\ toDevice[ch] # << >>
        /\ p.type = "ServerRequest"
        /\ p.invocation \notin ended[ch]
        /\ toHost' = [toHost EXCEPT ![ch] =
               @ \o <<Reply("ClientResponse", p), Reply("ClientFinalize", p)>>]
        /\ ended' = [ended EXCEPT ![ch] = @ \cup {p.invocation}]
        /\ toDevice' = [toDevice EXCEPT ![ch] = Tail(@)]
        /\ UNCHANGED <<contextVars, callerVars, reader, open, panicked>>

\* A packet that needs no answer, was damaged, or found the device rebooting.
DeviceIgnores(ch) ==
    /\ toDevice[ch] # << >>
    /\ toDevice' = [toDevice EXCEPT ![ch] = Tail(@)]
    /\ UNCHANGED <<contextVars, callerVars, reader, open, toHost, ended, panicked>>

-----------------------------------------------------------------------------
CallerStep(c) ==
    \/ Register(c) \/ SendInitialize(c)
    \/ SendRequest(c) \/ SendFails(c)
    \/ ReceiveResponse(c) \/ ReceiveClosed(c) \/ Timeout(c)
    \/ StopSending(c) \/ SendFinalize(c) \/ Free(c)

CallerStart(c) ==
    \/ \E ch \in Channels, m \in Methods : UnaryCall(c, ch, m) \/ StreamingCall(c, ch, m)
    \/ NextSend(c)

ReaderStep(ch) ==
    \/ ReceiveDamaged(ch) \/ FindContext(ch)
    \/ DeliverResponse(ch) \/ DeliverFinalize(ch)

PortStep(ch) == CloseChannel(ch) \/ OpenChannel(ch)

DeviceStep(ch) ==
    \/ DeviceAnswers(ch) \/ DeviceFinalizes(ch)
    \/ DeviceAnswersAndFinalizes(ch) \/ DeviceIgnores(ch)

Next ==
    \/ \E c \in Callers : CallerStart(c) \/ CallerStep(c)
    \/ \E ch \in Channels : ReaderStep(ch) \/ PortStep(ch) \/ DeviceStep(ch)

Spec == Init /\ [][Next]_vars

\* The Go scheduler runs every goroutine that can go on, and the timer of a
\* select fires; nothing is assumed of the device or of the wire.
Fairness == \A c \in Callers : WF_vars(CallerStep(c))

FairSpec == Spec /\ Fairness

-----------------------------------------------------------------------------
(* Properties.                                                             *)

TypeOK ==
    /\ nextInvocation \in Nat
    /\ ctx \in Seq(ClientContext)
    /\ Len(ctx) <= MaxCalls
    /\ clientContexts \subseteq Allocated
    /\ sent \in Seq(0 .. MaxSends)
    /\ Len(sent) = Len(ctx)
    /\ pc \in [Callers -> Pcs]
    /\ cur \in [Callers -> {0} \cup Allocated]
    /\ \A c \in Callers : pc[c] # "idle" => cur[c] \in Allocated
    /\ outcome \in [Callers -> Outcome]
    /\ reader \in [Channels -> Reader]
    /\ \A ch \in Channels : reader[ch].stage # "idle" => reader[ch].ctx \in Allocated
    /\ open \subseteq Channels
    /\ toDevice \in [Channels -> Seq(Packet(ToDeviceTypes))]
    /\ toHost \in [Channels -> Seq(Packet(ToHostTypes))]
    /\ ended \in [Channels -> SUBSET Nat]
    /\ panicked \in BOOLEAN

\* An answer handed to a caller is the device's answer to a request of the
\* same call: never that of an earlier call that timed out, of another call
\* in flight on the channel, or of a call on another channel, whatever packets
\* are lost and however the lookup, the timeout and the free interleave
\* (ARCHITECTURE.md: calls in flight are tracked by invocationID).
AnswerIsOwn ==
    \A c \in Callers : outcome[c].kind = "answer" => outcome[c].body.of = cur[c]

\* The registry holds exactly the contexts of the calls in progress: a call
\* that failed, timed out or was finalized leaves nothing behind, and no call
\* removes the context of another (defer freeClientContext, StreamingFinalize).
RegistryExact ==
    clientContexts = {cur[c] : c \in {d \in Callers : pc[d] \in Registered}}

\* No handler sends on, or closes, a ResponseCh that is closed: finalizing
\* leaves the context registered, so a packet that matched a closed context
\* would kill the process and every other device's update with it.
NoPanic == ~panicked

\* The non-blocking send of handleClientResponse drops no answer of a call
\* that is in progress: one that arrives before its caller reaches the select,
\* or while the caller is about to free the context, is queued, never lost.
NoAnswerLost ==
    [][\A ch \in Channels :
        LET i == reader[ch].ctx
        IN  /\ reader[ch].stage = "ClientResponse"
            /\ reader'[ch].stage = "idle"
            /\ i \in clientContexts
            => \/ panicked'
               \/ Len(ctx'[i].responses) = Len(ctx[i].responses) + 1]_vars

\* Every call returns to its caller, with an answer or an error, unless the
\* process dies: no wait without a deadline, no lost wakeup.
EveryCallReturns ==
    \A c \in Callers : pc[c] # "idle" ~> (pc[c] = "idle" \/ panicked)

-----------------------------------------------------------------------------
(* The RPC layer keeps the promise of CallService: the request outstanding *)
(* is the one whose caller is in the select of UnaryCall or                *)
(* StreamingReceive, and the requests used are those that were written.    *)

Outstanding(c) ==
    IF pc[c] = "recv" THEN [of |-> cur[c], n |-> sent[cur[c]]] ELSE NoBody

Written == {b \in Body : b.of \in Allocated /\ b.n \in 1 .. sent[b.of]}

Service == INSTANCE CallService WITH
    Requests <- Body \ {NoBody},
    NoRequest <- NoBody,
    outstanding <- [c \in Callers |-> Outstanding(c)],
    used <- Written

\* Every behaviour of the RPC layer is one of CallService: answers, closed
\* calls and timeouts are each delivered to the request they belong to, once.
CallServiceSpec == Service!Spec

=============================================================================
