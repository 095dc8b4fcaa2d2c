------------------------------ MODULE RpcProof ------------------------------
(***************************************************************************)
(* Proofs about Rpc for every set of callers, channels and methods, every  *)
(* ResponseCh capacity and every bound on calls and sends. Part one: types *)
(* and the registry. Part two: the answer a call returns is its own. Part  *)
(* three: Rpc implements CallService; a caller gets the answer to the      *)
(* request it waits for, and no other, and a handler neither drops one nor *)
(* panics on a closed ResponseCh.                                          *)
(***************************************************************************)
EXTENDS Rpc, SequenceTheorems, TLAPS

(* Part one. The inductive invariant of the types.                         *)

\* A context belongs to one call: no two calls in progress share it.
Ownership ==
    \A c, d \in Callers :
        pc[c] # "idle" /\ pc[d] # "idle" /\ cur[c] = cur[d] => c = d

\* A call that is about to send has requests left.
SendBound ==
    \A c \in Callers : pc[c] \in {"register", "init", "send"} => sent[cur[c]] < MaxSends

TypeInv == TypeOK /\ Ownership /\ SendBound

(* How the wires and the context objects keep their types.                 *)

LEMMA WireAppend ==
    ASSUME NEW D, NEW S, NEW f \in [D -> Seq(S)], NEW d \in D, NEW e \in S
    PROVE  [f EXCEPT ![d] = Append(@, e)] \in [D -> Seq(S)]
  OBVIOUS

LEMMA WireAppendTwo ==
    ASSUME NEW D, NEW S, NEW f \in [D -> Seq(S)], NEW d \in D, NEW e \in S, NEW g \in S
    PROVE  [f EXCEPT ![d] = @ \o <<e, g>>] \in [D -> Seq(S)]
<1>1. <<e, g>> \in Seq(S)
  OBVIOUS
<1>2. f[d] \o <<e, g>> \in Seq(S)
  BY <1>1, ConcatProperties
<1>. QED
  BY <1>2

LEMMA WireTail ==
    ASSUME NEW D, NEW S, NEW f \in [D -> Seq(S)], NEW d \in D, f[d] # << >>
    PROVE  /\ Head(f[d]) \in S
           /\ [f EXCEPT ![d] = Tail(@)] \in [D -> Seq(S)]
  BY HeadTailProperties

LEMMA ContextFields ==
    ASSUME ctx \in Seq(ClientContext), NEW i \in DOMAIN ctx
    PROVE  /\ ctx[i] \in ClientContext
           /\ ctx[i].channel \in Channels
           /\ ctx[i].method \in Methods
           /\ ctx[i].invocation \in Nat
           /\ ctx[i].responses \in Seq(Body)
           /\ ctx[i].closed \in BOOLEAN
<1>1. DOMAIN ctx = 1 .. Len(ctx)
  BY LenProperties
<1>2. ctx[i] \in ClientContext
  BY <1>1, ElementOfSeq
<1>. QED
  BY <1>2 DEF ClientContext

LEMMA ContextPush ==
    ASSUME ctx \in Seq(ClientContext), NEW i \in DOMAIN ctx, NEW b \in Body,
           ctx' = [ctx EXCEPT ![i].responses = Append(@, b)]
    PROVE  ctx' \in Seq(ClientContext) /\ Len(ctx') = Len(ctx)
<1>0. Append(ctx[i].responses, b) \in Seq(Body)
  BY ContextFields
<1>1. [ctx[i] EXCEPT !.responses = Append(@, b)] \in ClientContext
  BY <1>0, ContextFields DEF ClientContext
<1>2. ctx' = [ctx EXCEPT ![i] = [ctx[i] EXCEPT !.responses = Append(@, b)]]
  OBVIOUS
<1>. QED
  BY <1>1, <1>2, ExceptSeq

LEMMA ContextPop ==
    ASSUME ctx \in Seq(ClientContext), NEW i \in DOMAIN ctx,
           ctx[i].responses # << >>,
           ctx' = [ctx EXCEPT ![i].responses = Tail(@)]
    PROVE  ctx' \in Seq(ClientContext) /\ Len(ctx') = Len(ctx)
<1>0. Tail(ctx[i].responses) \in Seq(Body)
  BY ContextFields, HeadTailProperties
<1>1. [ctx[i] EXCEPT !.responses = Tail(@)] \in ClientContext
  BY <1>0, ContextFields DEF ClientContext
<1>2. ctx' = [ctx EXCEPT ![i] = [ctx[i] EXCEPT !.responses = Tail(@)]]
  OBVIOUS
<1>. QED
  BY <1>1, <1>2, ExceptSeq

LEMMA ContextClose ==
    ASSUME ctx \in Seq(ClientContext), NEW i \in DOMAIN ctx,
           ctx' = [ctx EXCEPT ![i].closed = TRUE]
    PROVE  ctx' \in Seq(ClientContext) /\ Len(ctx') = Len(ctx)
<1>1. [ctx[i] EXCEPT !.closed = TRUE] \in ClientContext
  BY ContextFields DEF ClientContext
<1>2. ctx' = [ctx EXCEPT ![i] = [ctx[i] EXCEPT !.closed = TRUE]]
  OBVIOUS
<1>. QED
  BY <1>1, <1>2, ExceptSeq

\* The actions, one per line, as the proofs below distinguish them.
LEMMA NextCases ==
    ASSUME Next
    PROVE  \/ \E c \in Callers, ch \in Channels, m \in Methods : Allocate(c, ch, m)
           \/ \E c \in Callers :
                 \/ Register(c) \/ SendInitialize(c) \/ SendRequest(c)
                 \/ SendFails(c) \/ ReceiveResponse(c) \/ ReceiveClosed(c)
                 \/ Timeout(c) \/ NextSend(c) \/ StopSending(c)
                 \/ SendFinalize(c) \/ Free(c)
           \/ \E ch \in Channels :
                 \/ ReceiveDamaged(ch) \/ FindContext(ch)
                 \/ DeliverResponse(ch) \/ DeliverFinalize(ch)
                 \/ CloseChannel(ch) \/ OpenChannel(ch) \/ DeviceStep(ch)
  BY DEF Next, CallerStart, CallerStep, ReaderStep, PortStep,
         UnaryCall, StreamingCall

LEMMA SendPacketTyped ==
    ASSUME TypeOK, NEW c \in Callers, cur[c] \in Allocated,
           NEW type \in ToDeviceTypes, NEW b \in Body, SendPacket(c, type, b)
    PROVE  toDevice' \in [Channels -> Seq(Packet(ToDeviceTypes))]
<1>1. /\ ctx[cur[c]].channel \in Channels
      /\ ctx[cur[c]].method \in Methods
      /\ ctx[cur[c]].invocation \in Nat
  BY ContextFields DEF TypeOK, Allocated
<1>2. [type |-> type, method |-> ctx[cur[c]].method,
       invocation |-> ctx[cur[c]].invocation, body |-> b] \in Packet(ToDeviceTypes)
  BY <1>1 DEF Packet
<1>. QED
  BY <1>1, <1>2, WireAppend DEF SendPacket, TypeOK

LEMMA SendsTyped ==
    ASSUME TypeInv, NEW c \in Callers,
           SendInitialize(c) \/ SendRequest(c) \/ SendFinalize(c)
    PROVE  toDevice' \in [Channels -> Seq(Packet(ToDeviceTypes))]
<1>1. cur[c] \in Allocated /\ DOMAIN ctx = 1 .. Len(ctx) /\ Len(ctx) <= MaxCalls
  BY LenProperties DEF TypeInv, TypeOK, SendInitialize, SendRequest, SendFinalize
<1>2. NoBody \in Body
  BY RpcAssumption DEF NoBody, Body
<1>3. CASE SendInitialize(c)
  BY <1>1, <1>2, <1>3, SendPacketTyped
     DEF SendInitialize, SendNothing, TypeInv, TypeOK, ToDeviceTypes
<1>4. CASE SendFinalize(c)
  BY <1>1, <1>2, <1>4, SendPacketTyped
     DEF SendFinalize, SendNothing, TypeInv, TypeOK, ToDeviceTypes
<1>5. CASE SendRequest(c)
  <2>1. sent[cur[c]] \in 0 .. MaxSends /\ sent[cur[c]] < MaxSends
    <3>1. sent \in Seq(0 .. MaxSends) /\ cur[c] \in 1 .. Len(sent)
      BY <1>1 DEF TypeInv, TypeOK, Allocated
    <3>2. sent[cur[c]] \in 0 .. MaxSends
      BY <3>1, ElementOfSeq
    <3>. QED
      BY <1>5, <3>2 DEF TypeInv, SendBound, SendRequest
  <2>2. [of |-> cur[c], n |-> sent[cur[c]] + 1] \in Body
    BY <1>1, <2>1, RpcAssumption DEF Body, Allocated
  <2>. QED
    BY <1>1, <1>5, <2>2, SendPacketTyped DEF SendRequest, TypeInv, ToDeviceTypes
<1>. QED
  BY <1>3, <1>4, <1>5

LEMMA TypeInvInductive ==
    ASSUME TypeInv, [Next]_vars
    PROVE  TypeInv'
<1>. USE RpcAssumption DEF TypeInv, TypeOK, Ownership, SendBound, Allocated, Pcs,
         Outcome, Body, NoBody, NoOutcome, Failed, Reader, ReaderIdle
<1>1. CASE UNCHANGED vars
  BY <1>1 DEF vars
<1>2. ASSUME NEW c \in Callers, NEW ch \in Channels, NEW m \in Methods, Allocate(c, ch, m)
      PROVE  TypeInv'
  <2>1. << >> \in Seq(Body)
    OBVIOUS
  <2>2. [channel |-> ch, method |-> m, invocation |-> NewInvocation,
         responses |-> << >>, closed |-> FALSE] \in ClientContext
    BY <2>1 DEF NewInvocation, ClientContext
  <2>3. ctx' \in Seq(ClientContext) /\ Len(ctx') = Len(ctx) + 1
    BY <1>2, <2>2 DEF Allocate
  <2>4. /\ sent' \in Seq(0 .. MaxSends)
        /\ Len(sent') = Len(sent) + 1
        /\ \A i \in 1 .. Len(sent) : sent'[i] = sent[i]
        /\ sent'[Len(sent) + 1] = 0
    BY <1>2 DEF Allocate
  <2>5. cur'[c] = Len(ctx) + 1 /\ \A d \in Callers : d # c => cur'[d] = cur[d]
    BY <1>2 DEF Allocate
  <2>6. TypeOK'
    BY <1>2, <2>3, <2>4, <2>5 DEF Allocate, wireVars
  <2>7. Ownership'
    BY <1>2, <2>5 DEF Allocate
  <2>8. SendBound'
    BY <1>2, <2>4, <2>5 DEF Allocate
  <2>. QED
    BY <2>6, <2>7, <2>8
<1>3. ASSUME NEW c \in Callers, Register(c)
      PROVE  TypeInv'
  BY <1>3 DEF Register, wireVars
<1>4. ASSUME NEW c \in Callers, SendInitialize(c)
      PROVE  TypeInv'
  <2>1. toDevice' \in [Channels -> Seq(Packet(ToDeviceTypes))]
    BY <1>4, SendsTyped
  <2>. QED
    BY <1>4, <2>1 DEF SendInitialize, contextVars
<1>5. ASSUME NEW c \in Callers, SendRequest(c)
      PROVE  TypeInv'
  <2>0. cur[c] \in 1 .. Len(ctx) /\ sent[cur[c]] \in 0 .. MaxSends /\ sent[cur[c]] < MaxSends
    BY <1>5 DEF SendRequest
  <2>2. toDevice' \in [Channels -> Seq(Packet(ToDeviceTypes))]
    BY <1>5, SendsTyped
  <2>3. /\ sent' \in Seq(0 .. MaxSends)
        /\ Len(sent') = Len(sent)
        /\ \A i \in 1 .. Len(sent) : i # cur[c] => sent'[i] = sent[i]
    BY <1>5, <2>0, ExceptSeq DEF SendRequest
  <2>4. TypeOK'
    BY <1>5, <2>2, <2>3 DEF SendRequest
  <2>5. Ownership'
    BY <1>5 DEF SendRequest
  <2>6. SendBound'
    <3>. SUFFICES ASSUME NEW d \in Callers, pc'[d] \in {"register", "init", "send"}
                  PROVE  sent'[cur'[d]] < MaxSends
      OBVIOUS
    <3>1. d # c /\ pc[d] = pc'[d] /\ cur'[d] = cur[d] /\ pc[c] # "idle"
      BY <1>5 DEF SendRequest
    <3>2. cur[d] # cur[c] /\ cur[d] \in 1 .. Len(sent)
      BY <3>1
    <3>. QED
      BY <2>3, <3>1, <3>2
  <2>. QED
    BY <2>4, <2>5, <2>6
<1>6. ASSUME NEW c \in Callers, SendFails(c)
      PROVE  TypeInv'
  BY <1>6 DEF SendFails, AfterError, SendNothing, contextVars
<1>7. ASSUME NEW c \in Callers, ReceiveResponse(c)
      PROVE  TypeInv'
  <2>1. ctx' \in Seq(ClientContext) /\ Len(ctx') = Len(ctx)
    BY <1>7, ContextPop DEF ReceiveResponse
  <2>2. Head(ctx[cur[c]].responses) \in Body
    BY <1>7, ContextFields, HeadTailProperties DEF ReceiveResponse
  <2>3. outcome' \in [Callers -> Outcome]
    BY <1>7, <2>2 DEF ReceiveResponse
  <2>. QED
    BY <1>7, <2>1, <2>3 DEF ReceiveResponse, AfterReceive, wireVars
<1>8. ASSUME NEW c \in Callers, ReceiveClosed(c)
      PROVE  TypeInv'
  BY <1>8 DEF ReceiveClosed, AfterReceive, contextVars, wireVars
<1>9. ASSUME NEW c \in Callers, Timeout(c)
      PROVE  TypeInv'
  BY <1>9 DEF Timeout, AfterError, contextVars, wireVars
<1>10. ASSUME NEW c \in Callers, NextSend(c) \/ StopSending(c) \/ Free(c)
      PROVE  TypeInv'
  BY <1>10 DEF NextSend, StopSending, Free, WithoutContext, contextVars, wireVars
<1>11. ASSUME NEW c \in Callers, SendFinalize(c)
      PROVE  TypeInv'
  <2>1. toDevice' \in [Channels -> Seq(Packet(ToDeviceTypes))]
    BY <1>11, SendsTyped
  <2>. QED
    BY <1>11, <2>1 DEF SendFinalize, contextVars
<1>12. ASSUME NEW ch \in Channels, ReceiveDamaged(ch)
       PROVE  TypeInv'
  <2>1. toHost' \in [Channels -> Seq(Packet(ToHostTypes))]
    BY <1>12, WireTail DEF ReceiveDamaged
  <2>. QED
    BY <1>12, <2>1 DEF ReceiveDamaged, contextVars, callerVars
<1>13. ASSUME NEW ch \in Channels, FindContext(ch)
       PROVE  TypeInv'
  <2>1. /\ toHost' \in [Channels -> Seq(Packet(ToHostTypes))]
        /\ Head(toHost[ch]) \in Packet(ToHostTypes)
    BY <1>13, WireTail DEF FindContext
  <2>2. \/ UNCHANGED reader
        \/ \E i \in clientContexts : reader' = [reader EXCEPT ![ch] =
              [stage |-> Head(toHost[ch]).type, ctx |-> i, body |-> Head(toHost[ch]).body]]
    BY <1>13 DEF FindContext
  <2>3. /\ reader' \in [Channels -> Reader]
        /\ \A d \in Channels : reader'[d].stage # "idle" => reader'[d].ctx \in Allocated
    <3>1. Head(toHost[ch]).type \in ToHostTypes /\ Head(toHost[ch]).body \in Body
      BY <2>1 DEF Packet
    <3>2. \A i \in clientContexts : i \in 0 .. MaxCalls /\ i \in Allocated
      OBVIOUS
    <3>3. CASE UNCHANGED reader
      <4>. QED
        BY <1>13, <3>3 DEF FindContext
    <3>4. ASSUME NEW i \in clientContexts,
                 reader' = [reader EXCEPT ![ch] =
                     [stage |-> Head(toHost[ch]).type, ctx |-> i, body |-> Head(toHost[ch]).body]]
          PROVE  /\ reader' \in [Channels -> Reader]
                 /\ \A d \in Channels : reader'[d].stage # "idle" => reader'[d].ctx \in Allocated
      <4>1. [stage |-> Head(toHost[ch]).type, ctx |-> i, body |-> Head(toHost[ch]).body] \in Reader
        BY <3>1, <3>2
      <4>2. reader'[ch].ctx \in Allocated
        BY <3>2, <3>4
      <4>. QED
        BY <3>4, <4>1, <4>2
    <3>5. ctx' = ctx
      BY <1>13 DEF FindContext, contextVars
    <3>. QED
      BY <2>2, <3>3, <3>4, <3>5
  <2>. QED
    BY <1>13, <2>1, <2>3 DEF FindContext, contextVars, callerVars
<1>14. ASSUME NEW ch \in Channels, DeliverResponse(ch)
       PROVE  TypeInv'
  <2>1. reader[ch].ctx \in DOMAIN ctx /\ reader[ch].body \in Body
    BY <1>14 DEF DeliverResponse
  <2>2. ctx' \in Seq(ClientContext) /\ Len(ctx') = Len(ctx)
    BY <1>14, <2>1, ContextPush DEF DeliverResponse
  <2>3. reader' \in [Channels -> Reader] /\ panicked' \in BOOLEAN
    BY <1>14, <2>1, ContextFields DEF DeliverResponse
  <2>. QED
    BY <1>14, <2>2, <2>3 DEF DeliverResponse, callerVars, wireVars
<1>15. ASSUME NEW ch \in Channels, DeliverFinalize(ch)
       PROVE  TypeInv'
  <2>1. reader[ch].ctx \in DOMAIN ctx
    BY <1>15 DEF DeliverFinalize
  <2>2. ctx' \in Seq(ClientContext) /\ Len(ctx') = Len(ctx)
    BY <1>15, <2>1, ContextClose DEF DeliverFinalize
  <2>3. reader' \in [Channels -> Reader] /\ panicked' \in BOOLEAN
    BY <1>15, <2>1, ContextFields DEF DeliverFinalize
  <2>. QED
    BY <1>15, <2>2, <2>3 DEF DeliverFinalize, callerVars, wireVars
<1>16. ASSUME NEW ch \in Channels, CloseChannel(ch) \/ OpenChannel(ch)
       PROVE  TypeInv'
  BY <1>16 DEF CloseChannel, OpenChannel, contextVars, callerVars, wireVars
<1>17. ASSUME NEW ch \in Channels, DeviceStep(ch)
       PROVE  TypeInv'
  <2>1. toDevice[ch] # << >> /\ toDevice' = [toDevice EXCEPT ![ch] = Tail(@)]
    BY <1>17 DEF DeviceStep, DeviceAnswers, DeviceFinalizes, DeviceAnswersAndFinalizes, DeviceIgnores
  <2>2. /\ toDevice' \in [Channels -> Seq(Packet(ToDeviceTypes))]
        /\ Head(toDevice[ch]) \in Packet(ToDeviceTypes)
    BY <2>1, WireTail
  <2>3. \A type \in ToHostTypes :
            Reply(type, Head(toDevice[ch])) \in Packet(ToHostTypes)
    BY <2>2 DEF Reply, Packet
  <2>4. /\ toHost' \in [Channels -> Seq(Packet(ToHostTypes))]
        /\ ended' \in [Channels -> SUBSET Nat]
        /\ UNCHANGED <<contextVars, callerVars, reader, open, panicked>>
    <3>1. CASE DeviceAnswers(ch)
      BY <3>1, <2>3, WireAppend DEF DeviceAnswers, ToHostTypes
    <3>2. CASE DeviceFinalizes(ch)
      <4>1. toHost' \in [Channels -> Seq(Packet(ToHostTypes))]
        BY <3>2, <2>3, WireAppend DEF DeviceFinalizes, ToHostTypes
      <4>. QED
        BY <3>2, <4>1, <2>2 DEF DeviceFinalizes, Packet
    <3>3. CASE DeviceAnswersAndFinalizes(ch)
      <4>1. toHost' \in [Channels -> Seq(Packet(ToHostTypes))]
        BY <3>3, <2>3, WireAppendTwo DEF DeviceAnswersAndFinalizes, ToHostTypes
      <4>. QED
        BY <3>3, <4>1, <2>2 DEF DeviceAnswersAndFinalizes, Packet
    <3>4. CASE DeviceIgnores(ch)
      BY <3>4 DEF DeviceIgnores
    <3>. QED
      BY <1>17, <3>1, <3>2, <3>3, <3>4 DEF DeviceStep
  <2>. QED
    BY <2>2, <2>4 DEF contextVars, callerVars
<1>. QED
  BY <1>1, <1>2, <1>3, <1>4, <1>5, <1>6, <1>7, <1>8, <1>9, <1>10, <1>11, <1>12,
     <1>13, <1>14, <1>15, <1>16, <1>17, NextCases

-----------------------------------------------------------------------------
(* The registry.                                                           *)

LEMMA RegistryInductive ==
    ASSUME TypeInv, RegistryExact, [Next]_vars
    PROVE  RegistryExact'
<1>. USE DEF TypeInv, TypeOK, Ownership, RegistryExact, Registered
<1>1. CASE UNCHANGED <<clientContexts, callerVars>>
  BY <1>1 DEF callerVars
<1>2. ASSUME NEW c \in Callers, NEW ch \in Channels, NEW m \in Methods, Allocate(c, ch, m)
      PROVE  RegistryExact'
  BY <1>2 DEF Allocate
<1>3. ASSUME NEW c \in Callers, Register(c)
      PROVE  RegistryExact'
  BY <1>3 DEF Register
<1>4. ASSUME NEW c \in Callers,
             \/ SendInitialize(c) \/ SendRequest(c) \/ SendFails(c)
             \/ ReceiveResponse(c) \/ ReceiveClosed(c) \/ Timeout(c)
             \/ NextSend(c) \/ StopSending(c) \/ SendFinalize(c)
      PROVE  RegistryExact'
  <2>1. /\ clientContexts' = clientContexts
        /\ cur' = cur
        /\ pc[c] \in Registered /\ pc'[c] \in Registered
        /\ \A d \in Callers : d # c => pc'[d] = pc[d]
    BY <1>4 DEF SendInitialize, SendRequest, SendFails, ReceiveResponse, ReceiveClosed,
       Timeout, NextSend, StopSending, SendFinalize, AfterError, AfterReceive, contextVars
  <2>. QED
    BY <2>1
<1>5. ASSUME NEW c \in Callers, Free(c)
      PROVE  RegistryExact'
  <2>1. \A d \in Callers : pc[d] \in Registered /\ d # c => cur[d] # cur[c]
    BY <1>5 DEF Free
  <2>. QED
    BY <1>5, <2>1 DEF Free, WithoutContext
<1>6. ASSUME NEW ch \in Channels, ReaderStep(ch) \/ PortStep(ch) \/ DeviceStep(ch)
      PROVE  UNCHANGED <<clientContexts, callerVars>>
  BY <1>6 DEF ReaderStep, PortStep, DeviceStep, ReceiveDamaged, FindContext,
     DeliverResponse, DeliverFinalize, CloseChannel, OpenChannel, DeviceAnswers,
     DeviceFinalizes, DeviceAnswersAndFinalizes, DeviceIgnores, contextVars
<1>7. CASE UNCHANGED vars
  BY <1>7, <1>1 DEF vars, callerVars
<1>8. CASE Next
  <2>1. CASE \E c \in Callers : CallerStart(c) \/ CallerStep(c)
    BY <2>1, <1>2, <1>3, <1>4, <1>5
       DEF CallerStart, CallerStep, UnaryCall, StreamingCall
  <2>2. CASE \E ch \in Channels : ReaderStep(ch) \/ PortStep(ch) \/ DeviceStep(ch)
    BY <2>2, <1>1, <1>6
  <2>. QED
    BY <1>8, <2>1, <2>2 DEF Next
<1>. QED
  BY <1>7, <1>8

-----------------------------------------------------------------------------
(* Part two. Whose answer it is. The identity of a request travels with    *)
(* its header, from the context to the device, back to the reader, into    *)
(* ResponseCh and to the caller; each part below is one stretch of it.     *)

\* The atomic counter gives each context its own invocation number.
InvocationsDistinct ==
    /\ nextInvocation = Len(ctx)
    /\ \A i \in 1 .. Len(ctx) : ctx[i].invocation = i

Truthful(p) == p.type \in {"ServerRequest", "ClientResponse"} => p.body.of = p.invocation

AllTruthful(wire) == \A d \in DOMAIN wire : \A k \in 1 .. Len(wire[d]) : Truthful(wire[d][k])

WiresTruthful == AllTruthful(toDevice) /\ AllTruthful(toHost)

ReadersTruthful ==
    \A ch \in Channels :
        reader[ch].stage = "ClientResponse" => reader[ch].body.of = reader[ch].ctx

ResponsesTruthful ==
    \A i \in 1 .. Len(ctx) : \A k \in 1 .. Len(ctx[i].responses) : ctx[i].responses[k].of = i

OwnInv == InvocationsDistinct /\ WiresTruthful /\ ReadersTruthful /\ ResponsesTruthful /\ AnswerIsOwn

\* Only four actions change a context object.
LEMMA ContextsOtherwiseUnchanged ==
    ASSUME Next
    PROVE  \/ \E c \in Callers, ch \in Channels, m \in Methods : Allocate(c, ch, m)
           \/ \E c \in Callers : ReceiveResponse(c)
           \/ \E ch \in Channels : DeliverResponse(ch)
           \/ \E ch \in Channels : DeliverFinalize(ch)
           \/ UNCHANGED <<ctx, nextInvocation>>
<1>1. ASSUME NEW c \in Callers,
             \/ Register(c) \/ SendInitialize(c) \/ SendRequest(c) \/ SendFails(c)
             \/ ReceiveClosed(c) \/ Timeout(c) \/ NextSend(c) \/ StopSending(c)
             \/ SendFinalize(c) \/ Free(c)
      PROVE  UNCHANGED <<ctx, nextInvocation>>
  BY <1>1 DEF Register, SendInitialize, SendRequest, SendFails, ReceiveClosed, Timeout,
     NextSend, StopSending, SendFinalize, Free, contextVars
<1>2. ASSUME NEW ch \in Channels,
             \/ ReceiveDamaged(ch) \/ FindContext(ch)
             \/ CloseChannel(ch) \/ OpenChannel(ch) \/ DeviceStep(ch)
      PROVE  UNCHANGED <<ctx, nextInvocation>>
  BY <1>2 DEF ReceiveDamaged, FindContext, CloseChannel, OpenChannel, DeviceStep, DeviceAnswers,
     DeviceFinalizes, DeviceAnswersAndFinalizes, DeviceIgnores, contextVars
<1>. QED
  BY <1>1, <1>2, NextCases

LEMMA InvocationsInductive ==
    ASSUME TypeInv, InvocationsDistinct, Next
    PROVE  InvocationsDistinct'
<1>. USE DEF TypeInv, TypeOK, InvocationsDistinct, Allocated
<1>1. ASSUME NEW c \in Callers, NEW ch \in Channels, NEW m \in Methods, Allocate(c, ch, m)
      PROVE  InvocationsDistinct'
  BY <1>1 DEF Allocate, NewInvocation
<1>2. ASSUME NEW c \in Callers, ReceiveResponse(c)
      PROVE  InvocationsDistinct'
  BY <1>2 DEF ReceiveResponse
<1>3. ASSUME NEW ch \in Channels, DeliverResponse(ch) \/ DeliverFinalize(ch)
      PROVE  InvocationsDistinct'
  <2>1. reader[ch].ctx \in DOMAIN ctx
    BY <1>3 DEF DeliverResponse, DeliverFinalize
  <2>2. CASE DeliverResponse(ch)
    BY <2>1, <2>2 DEF DeliverResponse
  <2>3. CASE DeliverFinalize(ch)
    BY <2>1, <2>3 DEF DeliverFinalize
  <2>. QED
    BY <1>3, <2>2, <2>3
<1>. QED
  BY <1>1, <1>2, <1>3, ContextsOtherwiseUnchanged

LEMMA TailTruthful ==
    ASSUME NEW S, NEW f \in [Channels -> Seq(S)], AllTruthful(f),
           NEW d \in Channels, f[d] # << >>
    PROVE  /\ Truthful(Head(f[d]))
           /\ AllTruthful([f EXCEPT ![d] = Tail(@)])
<1>1. /\ Len(f[d]) >= 1
      /\ Head(f[d]) = f[d][1]
      /\ Len(Tail(f[d])) = Len(f[d]) - 1
      /\ \A k \in 1 .. Len(Tail(f[d])) : Tail(f[d])[k] = f[d][k + 1]
  OBVIOUS
<1>2. \A k \in 1 .. Len(Tail(f[d])) : k + 1 \in 1 .. Len(f[d])
  BY <1>1
<1>. QED
  BY <1>1, <1>2 DEF AllTruthful

LEMMA AppendTruthful ==
    ASSUME NEW S, NEW f \in [Channels -> Seq(S)], AllTruthful(f),
           NEW d \in Channels, NEW e \in S, Truthful(e)
    PROVE  AllTruthful([f EXCEPT ![d] = Append(@, e)])
<1>1. /\ Len(Append(f[d], e)) = Len(f[d]) + 1
      /\ \A k \in 1 .. Len(f[d]) : Append(f[d], e)[k] = f[d][k]
      /\ Append(f[d], e)[Len(f[d]) + 1] = e
  OBVIOUS
<1>2. \A k \in 1 .. Len(f[d]) + 1 : k \in 1 .. Len(f[d]) \/ k = Len(f[d]) + 1
  BY LenProperties
<1>. QED
  BY <1>1, <1>2 DEF AllTruthful

LEMMA WiresInductive ==
    ASSUME TypeInv, InvocationsDistinct, WiresTruthful, Next
    PROVE  WiresTruthful'
<1>. USE DEF WiresTruthful
<1>0. /\ toDevice \in [Channels -> Seq(Packet(ToDeviceTypes))]
      /\ toHost \in [Channels -> Seq(Packet(ToHostTypes))]
  BY DEF TypeInv, TypeOK
<1>1. ASSUME NEW c \in Callers, SendInitialize(c) \/ SendRequest(c) \/ SendFinalize(c)
      PROVE  WiresTruthful'
  <2>1. /\ cur[c] \in 1 .. Len(ctx)
        /\ cur[c] \in Allocated
        /\ ctx[cur[c]].channel \in Channels
        /\ ctx[cur[c]].invocation = cur[c]
    BY <1>1, ContextFields, LenProperties
       DEF SendInitialize, SendRequest, SendFinalize, Allocated, TypeInv, TypeOK, InvocationsDistinct
  <2>2. ASSUME NEW type, NEW b, SendPacket(c, type, b),
               type = "ServerRequest" => b.of = cur[c], type # "ClientResponse",
               toHost' = toHost
        PROVE  WiresTruthful'
    <3>. DEFINE p == [type |-> type, method |-> ctx[cur[c]].method,
                      invocation |-> ctx[cur[c]].invocation, body |-> b]
                ch == ctx[cur[c]].channel
    <3>1. Truthful(p)
      BY <2>1, <2>2 DEF Truthful
    <3>2. toDevice' = [toDevice EXCEPT ![ch] = Append(@, p)]
      BY <2>2 DEF SendPacket
    <3>3. toDevice \in [Channels -> Seq(Packet(ToDeviceTypes) \cup {p})]
      BY <1>0, SeqMonotonic
    <3>. HIDE DEF p
    <3>4. AllTruthful(toDevice')
      BY <2>1, <3>1, <3>2, <3>3, AppendTruthful
    <3>. QED
      BY <2>2, <3>4
  <2>3. CASE toDevice' = toDevice /\ toHost' = toHost
    BY <2>3
  <2>. QED
    BY <1>1, <2>2, <2>3 DEF SendInitialize, SendRequest, SendFinalize, SendNothing
<1>2. ASSUME NEW ch \in Channels, ReceiveDamaged(ch) \/ FindContext(ch)
      PROVE  WiresTruthful'
  <2>1. /\ toHost[ch] # << >>
        /\ toHost' = [toHost EXCEPT ![ch] = Tail(@)]
        /\ toDevice' = toDevice
    BY <1>2 DEF ReceiveDamaged, FindContext
  <2>. QED
    BY <1>0, <2>1, TailTruthful
<1>3. ASSUME NEW ch \in Channels, DeviceStep(ch)
      PROVE  WiresTruthful'
  <2>. DEFINE p == Head(toDevice[ch])
  <2>1. toDevice[ch] # << >> /\ toDevice' = [toDevice EXCEPT ![ch] = Tail(@)]
    BY <1>3 DEF DeviceStep, DeviceAnswers, DeviceFinalizes, DeviceAnswersAndFinalizes, DeviceIgnores
  <2>2. AllTruthful(toDevice') /\ Truthful(p) /\ p \in Packet(ToDeviceTypes)
    BY <1>0, <2>1, TailTruthful, WireTail
  <2>3. /\ p.type = "ServerRequest" => Truthful(Reply("ClientResponse", p))
        /\ Truthful(Reply("ClientFinalize", p))
    BY <2>2 DEF Reply, Truthful
  <2>4. /\ Reply("ClientResponse", p) \in Packet(ToHostTypes)
        /\ Reply("ClientFinalize", p) \in Packet(ToHostTypes)
    BY <2>2, RpcAssumption DEF Reply, Packet, ToHostTypes, NoBody, Body
  <2>5. CASE DeviceAnswers(ch)
    BY <1>0, <2>2, <2>3, <2>4, <2>5, AppendTruthful DEF DeviceAnswers
  <2>6. CASE DeviceFinalizes(ch)
    BY <1>0, <2>2, <2>3, <2>4, <2>6, AppendTruthful DEF DeviceFinalizes
  <2>7. CASE DeviceAnswersAndFinalizes(ch)
    <3>. DEFINE r == Reply("ClientResponse", p)
                q == Reply("ClientFinalize", p)
                once == [toHost EXCEPT ![ch] = Append(@, r)]
    <3>1. r \in Packet(ToHostTypes) /\ q \in Packet(ToHostTypes) /\ Truthful(r) /\ Truthful(q)
      BY <2>3, <2>4, <2>7 DEF DeviceAnswersAndFinalizes
    <3>2. toHost' = [toHost EXCEPT ![ch] = @ \o <<r, q>>]
      BY <2>7 DEF DeviceAnswersAndFinalizes
    <3>. HIDE DEF r, q
    <3>3. once \in [Channels -> Seq(Packet(ToHostTypes))] /\ AllTruthful(once)
      BY <1>0, <3>1, AppendTruthful, WireAppend
    <3>4. toHost[ch] \o <<r, q>> = Append(Append(toHost[ch], r), q)
      BY <1>0, <3>1
    <3>5. toHost' = [once EXCEPT ![ch] = Append(@, q)]
      BY <1>0, <3>2, <3>4
    <3>. HIDE DEF once
    <3>6. AllTruthful(toHost')
      BY <3>1, <3>3, <3>5, AppendTruthful
    <3>. QED
      BY <2>2, <3>6
  <2>8. CASE DeviceIgnores(ch)
    BY <2>2, <2>8 DEF DeviceIgnores
  <2>. QED
    BY <1>3, <2>5, <2>6, <2>7, <2>8 DEF DeviceStep
<1>4. ASSUME NEW c \in Callers,
             \/ \E ch \in Channels, m \in Methods : Allocate(c, ch, m)
             \/ Register(c) \/ SendFails(c) \/ ReceiveResponse(c) \/ ReceiveClosed(c)
             \/ Timeout(c) \/ NextSend(c) \/ StopSending(c) \/ Free(c)
      PROVE  UNCHANGED wireVars
  BY <1>4 DEF Allocate, Register, SendFails, SendNothing, ReceiveResponse, ReceiveClosed,
     Timeout, NextSend, StopSending, Free, wireVars
<1>5. ASSUME NEW ch \in Channels,
             \/ DeliverResponse(ch) \/ DeliverFinalize(ch)
             \/ CloseChannel(ch) \/ OpenChannel(ch)
      PROVE  UNCHANGED wireVars
  BY <1>5 DEF DeliverResponse, DeliverFinalize, CloseChannel, OpenChannel, wireVars
<1>6. CASE UNCHANGED wireVars
  BY <1>6 DEF wireVars
<1>. QED
  BY <1>1, <1>2, <1>3, <1>4, <1>5, <1>6, NextCases

LEMMA ReadersInductive ==
    ASSUME TypeInv, InvocationsDistinct, WiresTruthful, ReadersTruthful, Next
    PROVE  ReadersTruthful'
<1>. USE DEF TypeInv, TypeOK, ReadersTruthful
<1>1. ASSUME NEW ch \in Channels, FindContext(ch)
      PROVE  ReadersTruthful'
  <2>. DEFINE p == Head(toHost[ch])
  <2>1. p = toHost[ch][1] /\ 1 \in 1 .. Len(toHost[ch])
    BY <1>1 DEF FindContext
  <2>2. p.type = "ClientResponse" => p.body.of = p.invocation
    BY <2>1, <1>1, TailTruthful DEF WiresTruthful, Truthful, FindContext
  <2>3. \A i \in clientContexts : Matches(i, ch, p) => i = p.invocation
    BY DEF Matches, InvocationsDistinct, Allocated
  <2>4. \/ UNCHANGED reader
        \/ \E i \in clientContexts :
              /\ Matches(i, ch, p)
              /\ reader' = [reader EXCEPT ![ch] = [stage |-> p.type, ctx |-> i, body |-> p.body]]
    BY <1>1 DEF FindContext
  <2>5. CASE UNCHANGED reader
    BY <2>5
  <2>6. ASSUME NEW i \in clientContexts, Matches(i, ch, p),
               reader' = [reader EXCEPT ![ch] = [stage |-> p.type, ctx |-> i, body |-> p.body]]
        PROVE  ReadersTruthful'
    <3>. SUFFICES ASSUME NEW d \in Channels, reader'[d].stage = "ClientResponse"
                  PROVE  reader'[d].body.of = reader'[d].ctx
      OBVIOUS
    <3>1. CASE d = ch
      BY <2>2, <2>3, <2>6, <3>1
    <3>2. CASE d # ch
      BY <2>6, <3>2
    <3>. QED
      BY <3>1, <3>2
  <2>. QED
    BY <2>4, <2>5, <2>6
<1>2. ASSUME NEW ch \in Channels, DeliverResponse(ch) \/ DeliverFinalize(ch)
      PROVE  ReadersTruthful'
  <2>1. reader' = [reader EXCEPT ![ch] = ReaderIdle]
    BY <1>2 DEF DeliverResponse, DeliverFinalize
  <2>2. ReaderIdle.stage # "ClientResponse"
    BY DEF ReaderIdle
  <2>. QED
    BY <2>1, <2>2
<1>3. ASSUME NEW c \in Callers,
             \/ \E ch \in Channels, m \in Methods : Allocate(c, ch, m)
             \/ Register(c) \/ SendInitialize(c) \/ SendRequest(c) \/ SendFails(c)
             \/ ReceiveResponse(c) \/ ReceiveClosed(c) \/ Timeout(c) \/ NextSend(c)
             \/ StopSending(c) \/ SendFinalize(c) \/ Free(c)
      PROVE  ReadersTruthful'
  BY <1>3 DEF Allocate, Register, SendInitialize, SendRequest, SendFails, ReceiveResponse,
     ReceiveClosed, Timeout, NextSend, StopSending, SendFinalize, Free
<1>4. ASSUME NEW ch \in Channels,
             \/ ReceiveDamaged(ch) \/ CloseChannel(ch) \/ OpenChannel(ch) \/ DeviceStep(ch)
      PROVE  ReadersTruthful'
  BY <1>4 DEF ReceiveDamaged, CloseChannel, OpenChannel, DeviceStep, DeviceAnswers,
     DeviceFinalizes, DeviceAnswersAndFinalizes, DeviceIgnores
<1>. QED
  BY <1>1, <1>2, <1>3, <1>4, NextCases

LEMMA ResponsesInductive ==
    ASSUME TypeInv, ReadersTruthful, ResponsesTruthful, Next
    PROVE  ResponsesTruthful'
<1>. USE DEF TypeInv, TypeOK, Allocated, ResponsesTruthful
<1>0. DOMAIN ctx = 1 .. Len(ctx)
  OBVIOUS
<1>1. ASSUME NEW c \in Callers, NEW ch \in Channels, NEW m \in Methods, Allocate(c, ch, m)
      PROVE  ResponsesTruthful'
  BY <1>1 DEF Allocate
<1>2. ASSUME NEW c \in Callers, ReceiveResponse(c)
      PROVE  ResponsesTruthful'
  <2>1. cur[c] \in 1 .. Len(ctx) /\ ctx[cur[c]].responses \in Seq(Body)
    BY <1>0, <1>2, ContextFields DEF ReceiveResponse
  <2>2. /\ Len(ctx') = Len(ctx)
        /\ \A i \in 1 .. Len(ctx) : i # cur[c] => ctx'[i] = ctx[i]
        /\ ctx'[cur[c]].responses = Tail(ctx[cur[c]].responses)
    BY <1>2, <2>1 DEF ReceiveResponse
  <2>3. \A k \in 1 .. Len(Tail(ctx[cur[c]].responses)) :
            Tail(ctx[cur[c]].responses)[k].of = cur[c]
    <3>1. ctx[cur[c]].responses # << >>
      BY <1>2 DEF ReceiveResponse
    <3>2. \A k \in 1 .. Len(Tail(ctx[cur[c]].responses)) :
              /\ k + 1 \in 1 .. Len(ctx[cur[c]].responses)
              /\ Tail(ctx[cur[c]].responses)[k] = ctx[cur[c]].responses[k + 1]
      BY <2>1, <3>1
    <3>. QED
      BY <2>1, <3>2
  <2>. QED
    BY <2>2, <2>3
<1>3. ASSUME NEW ch \in Channels, DeliverResponse(ch)
      PROVE  ResponsesTruthful'
  <2>. DEFINE i == reader[ch].ctx
              b == reader[ch].body
  <2>1. i \in 1 .. Len(ctx) /\ ctx[i].responses \in Seq(Body) /\ b \in Body /\ b.of = i
    BY <1>0, <1>3, ContextFields DEF DeliverResponse, ReadersTruthful, Reader
  <2>2. CASE ctx' = ctx
    BY <2>2
  <2>3. CASE ctx' = [ctx EXCEPT ![i].responses = Append(@, b)]
    <3>1. /\ Len(ctx') = Len(ctx)
          /\ \A j \in 1 .. Len(ctx) : j # i => ctx'[j] = ctx[j]
          /\ ctx'[i].responses = Append(ctx[i].responses, b)
      BY <2>1, <2>3
    <3>2. /\ Len(Append(ctx[i].responses, b)) = Len(ctx[i].responses) + 1
          /\ \A k \in 1 .. Len(ctx[i].responses) + 1 :
                Append(ctx[i].responses, b)[k] =
                    IF k = Len(ctx[i].responses) + 1 THEN b ELSE ctx[i].responses[k]
      BY <2>1
    <3>3. \A k \in 1 .. Len(ctx[i].responses) + 1 :
              k # Len(ctx[i].responses) + 1 => k \in 1 .. Len(ctx[i].responses)
      <4>1. Len(ctx[i].responses) \in Nat
        BY <2>1
      <4>2. \A n \in Nat : \A k \in 1 .. n + 1 : k # n + 1 => k \in 1 .. n
        OBVIOUS
      <4>. QED
        BY <4>1, <4>2, Zenon
    <3>4. \A k \in 1 .. Len(Append(ctx[i].responses, b)) : Append(ctx[i].responses, b)[k].of = i
      BY <2>1, <3>2, <3>3
    <3>. QED
      BY <3>1, <3>4
  <2>. QED
    BY <1>3, <2>2, <2>3 DEF DeliverResponse
<1>4. ASSUME NEW ch \in Channels, DeliverFinalize(ch)
      PROVE  ResponsesTruthful'
  <2>1. reader[ch].ctx \in 1 .. Len(ctx)
    BY <1>0, <1>4 DEF DeliverFinalize
  <2>. QED
    BY <1>4, <2>1 DEF DeliverFinalize
<1>. QED
  BY <1>1, <1>2, <1>3, <1>4, ContextsOtherwiseUnchanged

LEMMA AnswerInductive ==
    ASSUME TypeInv, ResponsesTruthful, AnswerIsOwn, Next
    PROVE  AnswerIsOwn'
<1>. USE DEF TypeInv, TypeOK, Allocated, AnswerIsOwn
<1>1. ASSUME NEW c \in Callers, ReceiveResponse(c)
      PROVE  AnswerIsOwn'
  <2>1. cur[c] \in 1 .. Len(ctx) /\ ctx[cur[c]].responses \in Seq(Body)
    BY <1>1, ContextFields, LenProperties DEF ReceiveResponse
  <2>2. Head(ctx[cur[c]].responses).of = cur[c]
    BY <1>1, <2>1 DEF ReceiveResponse, ResponsesTruthful
  <2>. QED
    BY <1>1, <2>2 DEF ReceiveResponse
<1>2. ASSUME NEW c \in Callers,
             \/ \E ch \in Channels, m \in Methods : Allocate(c, ch, m)
             \/ SendRequest(c) \/ SendFails(c) \/ ReceiveClosed(c) \/ Timeout(c)
      PROVE  AnswerIsOwn'
  <2>1. /\ outcome'[c].kind # "answer"
        /\ \A d \in Callers : d # c => outcome'[d] = outcome[d] /\ cur'[d] = cur[d]
    <3>1. CASE \E ch \in Channels, m \in Methods : Allocate(c, ch, m)
      BY <3>1 DEF Allocate, NoOutcome
    <3>2. CASE SendRequest(c)
      BY <3>2 DEF SendRequest, NoOutcome
    <3>3. CASE SendFails(c) \/ ReceiveClosed(c) \/ Timeout(c)
      BY <3>3 DEF SendFails, ReceiveClosed, Timeout, Failed
    <3>. QED
      BY <1>2, <3>1, <3>2, <3>3
  <2>. QED
    BY <2>1
<1>3. ASSUME NEW c \in Callers,
             \/ Register(c) \/ SendInitialize(c) \/ NextSend(c) \/ StopSending(c)
             \/ SendFinalize(c) \/ Free(c)
      PROVE  UNCHANGED <<cur, outcome>>
  BY <1>3 DEF Register, SendInitialize, NextSend, StopSending, SendFinalize, Free
<1>4. ASSUME NEW ch \in Channels,
             \/ ReceiveDamaged(ch) \/ FindContext(ch)
             \/ DeliverResponse(ch) \/ DeliverFinalize(ch)
             \/ CloseChannel(ch) \/ OpenChannel(ch) \/ DeviceStep(ch)
      PROVE  UNCHANGED <<cur, outcome>>
  BY <1>4 DEF ReceiveDamaged, FindContext, DeliverResponse, DeliverFinalize, CloseChannel,
     OpenChannel, DeviceStep, DeviceAnswers, DeviceFinalizes, DeviceAnswersAndFinalizes,
     DeviceIgnores, callerVars
<1>5. CASE UNCHANGED <<cur, outcome>>
  BY <1>5
<1>. QED
  BY <1>1, <1>2, <1>3, <1>4, <1>5, NextCases

-----------------------------------------------------------------------------
(* The theorems.                                                           *)

LEMMA InitTypeInv ==
    ASSUME Init
    PROVE  TypeInv
<1>1. NoBody \in Body /\ NoOutcome \in Outcome /\ ReaderIdle \in Reader
  BY RpcAssumption DEF NoBody, Body, NoOutcome, Outcome, ReaderIdle, Reader
<1>2. << >> \in Seq(ClientContext) /\ Len(<< >>) = 0 /\ << >> \in Seq(0 .. MaxSends)
  OBVIOUS
<1>3. TypeOK
  <2>1. /\ nextInvocation \in Nat /\ ctx \in Seq(ClientContext) /\ Len(ctx) <= MaxCalls
        /\ clientContexts \subseteq Allocated
        /\ sent \in Seq(0 .. MaxSends) /\ Len(sent) = Len(ctx)
    BY <1>2, RpcAssumption DEF Init
  <2>2. /\ pc \in [Callers -> Pcs] /\ cur \in [Callers -> {0} \cup Allocated]
        /\ \A c \in Callers : pc[c] # "idle" => cur[c] \in Allocated
        /\ outcome \in [Callers -> Outcome]
    BY <1>1 DEF Init, Pcs
  <2>3. /\ reader \in [Channels -> Reader]
        /\ \A ch \in Channels : reader[ch].stage # "idle" => reader[ch].ctx \in Allocated
    BY <1>1 DEF Init, ReaderIdle
  <2>4. /\ open \subseteq Channels
        /\ toDevice \in [Channels -> Seq(Packet(ToDeviceTypes))]
        /\ toHost \in [Channels -> Seq(Packet(ToHostTypes))]
        /\ ended \in [Channels -> SUBSET Nat]
        /\ panicked \in BOOLEAN
    <3>1. /\ << >> \in Seq(Packet(ToDeviceTypes))
          /\ << >> \in Seq(Packet(ToHostTypes))
          /\ {} \in SUBSET Nat
      OBVIOUS
    <3>. QED
      BY <3>1 DEF Init
  <2>. QED
    BY <2>1, <2>2, <2>3, <2>4 DEF TypeOK
<1>4. Ownership /\ SendBound
  BY DEF Init, Ownership, SendBound
<1>. QED
  BY <1>3, <1>4 DEF TypeInv

\* The inductive invariant: the types, with the two facts about callers they
\* rest on.
LEMMA TypeInvariant == Spec => []TypeInv
<1>1. Init => TypeInv
  BY InitTypeInv
<1>2. TypeInv /\ [Next]_vars => TypeInv'
  BY TypeInvInductive
<1>. QED
  BY <1>1, <1>2, PTL DEF Spec

\* The types of the state: no call sends more requests than it was asked to,
\* and all that is on the lines, in the registry and in the channels of the
\* contexts has the shape the code gives it, for all values of the constants.
THEOREM TypeCorrect == Spec => []TypeOK
<1>1. TypeInv => TypeOK
  BY DEF TypeInv
<1>. QED
  BY <1>1, TypeInvariant, PTL

\* The registry holds exactly the contexts of the calls in progress, for any
\* number of callers, channels, methods and calls.
THEOREM RegistryCorrect == Spec => []RegistryExact
<1>1. Init => RegistryExact
  BY DEF Init, RegistryExact, Registered
<1>2. TypeInv /\ RegistryExact /\ [Next]_vars => RegistryExact'
  BY RegistryInductive
<1>. QED
  BY <1>1, <1>2, TypeInvariant, PTL DEF Spec

\* The way of an answer, from end to end.
LEMMA OwnInvariant == Spec => []OwnInv
<1>1. ASSUME Init
      PROVE  OwnInv
  <2>1. InvocationsDistinct /\ ResponsesTruthful
    BY <1>1 DEF Init, InvocationsDistinct, ResponsesTruthful
  <2>2. WiresTruthful
    BY <1>1 DEF Init, WiresTruthful, AllTruthful
  <2>3. ReadersTruthful /\ AnswerIsOwn
    BY <1>1 DEF Init, ReadersTruthful, ReaderIdle, AnswerIsOwn, NoOutcome
  <2>. QED
    BY <2>1, <2>2, <2>3 DEF OwnInv
<1>2. TypeInv /\ OwnInv /\ [Next]_vars => OwnInv'
  <2>1. CASE UNCHANGED vars
    BY <2>1 DEF vars, OwnInv, InvocationsDistinct, WiresTruthful, Truthful, ReadersTruthful,
       ResponsesTruthful, AnswerIsOwn
  <2>2. ASSUME TypeInv, OwnInv, Next
        PROVE  OwnInv'
    BY <2>2, InvocationsInductive, WiresInductive, ReadersInductive, ResponsesInductive,
       AnswerInductive DEF OwnInv
  <2>. QED
    BY <2>1, <2>2
<1>. QED
  BY <1>1, <1>2, TypeInvariant, PTL DEF Spec

\* An answer handed to a caller belongs to that call, for any number of
\* callers, channels, methods, calls and lost packets.
THEOREM AnswersCorrect == Spec => []AnswerIsOwn
<1>1. OwnInv => AnswerIsOwn
  BY DEF OwnInv
<1>. QED
  BY <1>1, OwnInvariant, PTL

-----------------------------------------------------------------------------
(* Part three. Of each context, one request or answer at most is on the    *)
(* way, and it is the last request of its caller: the device ends a call   *)
(* after its last answer, and the caller sends again only when nothing is  *)
(* on the way.                                                             *)

\* Packets travel on the line of their context's channel, and its readLoop
\* handles them.
AtHome(p, ch) == p.invocation \in 1 .. Len(ctx) /\ ctx[p.invocation].channel = ch

WireAtHome(wire) == \A ch \in Channels : \A k \in 1 .. Len(wire[ch]) : AtHome(wire[ch][k], ch)

HomeInv ==
    /\ WireAtHome(toDevice)
    /\ WireAtHome(toHost)
    /\ \A ch \in Channels : reader[ch].stage # "idle" => ctx[reader[ch].ctx].channel = ch

Home(i) == ctx[i].channel

\* What a queue of packets holds of context i.
Silent(q, i) == \A k \in 1 .. Len(q) : q[k].invocation # i

FinalizeLast(q) ==
    \A j, k \in 1 .. Len(q) :
        q[k].type = "ClientFinalize" /\ k < j => q[j].invocation # q[k].invocation

FinalizeEnded(q, ends) ==
    \A k \in 1 .. Len(q) : q[k].type = "ClientFinalize" => q[k].invocation \in ends

\* Nothing follows the packet that ends a call, in the line, in the hands of
\* readLoop, or once it has closed ResponseCh.
EndOfLine(ch) ==
    /\ FinalizeLast(toHost[ch])
    /\ FinalizeEnded(toHost[ch], ended[ch])
    /\ reader[ch].stage = "ClientFinalize" =>
          reader[ch].ctx \in ended[ch] /\ Silent(toHost[ch], reader[ch].ctx)

ClosedIsOver(i) ==
    ctx[i].closed =>
        /\ i \in ended[Home(i)]
        /\ Silent(toHost[Home(i)], i)
        /\ reader[Home(i)].stage # "idle" => reader[Home(i)].ctx # i

EndInv ==
    /\ ~panicked
    /\ \A ch \in Channels : EndOfLine(ch)
    /\ \A i \in 1 .. Len(ctx) : ClosedIsOver(i)

\* No packet of type t of context i; one at most, for request number n.
None(q, t, i) == \A k \in 1 .. Len(q) : q[k].type = t => q[k].invocation # i

Only(q, t, i, n) ==
    \A j, k \in 1 .. Len(q) :
        /\ q[j].type = t /\ q[j].invocation = i
        /\ q[k].type = t /\ q[k].invocation = i
        => j = k /\ q[k].body.n = n

\* The four places in which a request or its answer can be: a request of a
\* call that has ended is as good as gone.
NotAsked(i) == i \in ended[Home(i)] \/ None(toDevice[Home(i)], "ServerRequest", i)
AskedOnce(i) == i \in ended[Home(i)] \/ Only(toDevice[Home(i)], "ServerRequest", i, sent[i])

NotAnswered(i) == None(toHost[Home(i)], "ClientResponse", i)
AnsweredOnce(i) == Only(toHost[Home(i)], "ClientResponse", i, sent[i])

Held(i) == reader[Home(i)].stage = "ClientResponse" /\ reader[Home(i)].ctx = i
NotHeld(i) == ~Held(i)
HeldOnce(i) == Held(i) => reader[Home(i)].body.n = sent[i]

NotQueued(i) == ctx[i].responses = << >>
QueuedOnce(i) ==
    ctx[i].responses # << >> => Len(ctx[i].responses) = 1 /\ ctx[i].responses[1].n = sent[i]

OneOnTheWay(i) ==
    /\ AskedOnce(i) /\ AnsweredOnce(i) /\ HeldOnce(i) /\ QueuedOnce(i)
    /\ NotAsked(i) \/ (NotAnswered(i) /\ NotHeld(i) /\ NotQueued(i))
    /\ NotAnswered(i) \/ (NotHeld(i) /\ NotQueued(i))
    /\ NotHeld(i) \/ NotQueued(i)

Quiet(i) == NotAsked(i) /\ NotAnswered(i) /\ NotHeld(i) /\ NotQueued(i)

\* Between two requests of a call nothing is on the way.
QuietBetween ==
    \A c \in Callers : pc[c] \in {"register", "init", "send", "ready"} => Quiet(cur[c])

WayInv == (\A i \in 1 .. Len(ctx) : OneOnTheWay(i)) /\ QuietBetween

CallInv == HomeInv /\ EndInv /\ WayInv

-----------------------------------------------------------------------------
(* Queues of packets.                                                      *)

\* What a queue does not hold it does not hold without its head.
LEMMA QueueTail ==
    ASSUME NEW S, NEW q \in Seq(S), q # << >>, NEW t, NEW i, NEW n, NEW ends
    PROVE  /\ Silent(q, i) => Silent(Tail(q), i)
           /\ FinalizeLast(q) => FinalizeLast(Tail(q))
           /\ FinalizeEnded(q, ends) => FinalizeEnded(Tail(q), ends)
           /\ FinalizeLast(q) /\ Head(q).type = "ClientFinalize" =>
                 Silent(Tail(q), Head(q).invocation)
           /\ None(q, t, i) => None(Tail(q), t, i)
           /\ Only(q, t, i, n) => Only(Tail(q), t, i, n)
           /\ Only(q, t, i, n) /\ Head(q).type = t /\ Head(q).invocation = i =>
                 Head(q).body.n = n /\ None(Tail(q), t, i)
<1>1. /\ Head(q) = q[1]
      /\ 1 \in 1 .. Len(q)
      /\ \A k \in 1 .. Len(Tail(q)) :
            k \in Nat /\ k + 1 \in 1 .. Len(q) /\ k + 1 # 1 /\ 1 < k + 1 /\ Tail(q)[k] = q[k + 1]
  <2>1. Head(q) = q[1] /\ Len(q) \in Nat /\ Len(q) >= 1 /\ Len(Tail(q)) = Len(q) - 1
    OBVIOUS
  <2>2. \A k \in 1 .. Len(Tail(q)) : Tail(q)[k] = q[k + 1]
    OBVIOUS
  <2>. QED
    BY <2>1, <2>2
<1>2. \A j, k \in 1 .. Len(Tail(q)) : (j + 1 = k + 1 => j = k) /\ (k < j => k + 1 < j + 1)
  BY <1>1
<1>3. Silent(q, i) => Silent(Tail(q), i)
  BY <1>1 DEF Silent
<1>4. FinalizeLast(q) => FinalizeLast(Tail(q))
  BY <1>1, <1>2 DEF FinalizeLast
<1>5. FinalizeEnded(q, ends) => FinalizeEnded(Tail(q), ends)
  BY <1>1 DEF FinalizeEnded
<1>6. FinalizeLast(q) /\ Head(q).type = "ClientFinalize" => Silent(Tail(q), Head(q).invocation)
  BY <1>1 DEF FinalizeLast, Silent
<1>7. None(q, t, i) => None(Tail(q), t, i)
  BY <1>1 DEF None
<1>8. Only(q, t, i, n) => Only(Tail(q), t, i, n)
  BY <1>1, <1>2 DEF Only
<1>9. ASSUME Only(q, t, i, n), Head(q).type = t, Head(q).invocation = i
      PROVE  Head(q).body.n = n /\ None(Tail(q), t, i)
  BY <1>1, <1>9 DEF Only, None
<1>. QED
  BY <1>3, <1>4, <1>5, <1>6, <1>7, <1>8, <1>9

\* A packet at the end of a queue.
LEMMA QueueAppend ==
    ASSUME NEW S, NEW q \in Seq(S), NEW p \in S, NEW t, NEW i, NEW n, NEW ends
    PROVE  /\ Silent(q, i) /\ p.invocation # i => Silent(Append(q, p), i)
           /\ FinalizeLast(q) /\ FinalizeEnded(q, ends) /\ p.invocation \notin ends =>
                 FinalizeLast(Append(q, p))
           /\ FinalizeEnded(q, ends) /\ (p.type = "ClientFinalize" => p.invocation \in ends) =>
                 FinalizeEnded(Append(q, p), ends)
           /\ None(q, t, i) /\ ~(p.type = t /\ p.invocation = i) => None(Append(q, p), t, i)
           /\ Only(q, t, i, n) /\ ~(p.type = t /\ p.invocation = i) => Only(Append(q, p), t, i, n)
           /\ None(q, t, i) /\ p.body.n = n => Only(Append(q, p), t, i, n)
<1>. DEFINE r == Append(q, p)
<1>1. /\ Len(q) \in Nat
      /\ Len(r) = Len(q) + 1
      /\ \A k \in 1 .. Len(q) : r[k] = q[k]
      /\ r[Len(q) + 1] = p
  OBVIOUS
<1>2. \A k \in 1 .. Len(q) + 1 : k \in 1 .. Len(q) \/ k = Len(q) + 1
  BY <1>1
<1>. HIDE DEF r
<1>3. \A k \in 1 .. Len(r) :
          (k \in 1 .. Len(q) /\ r[k] = q[k]) \/ (k = Len(q) + 1 /\ r[k] = p)
  <2>. TAKE k \in 1 .. Len(r)
  <2>1. k \in 1 .. Len(q) \/ k = Len(q) + 1
    BY <1>1, <1>2
  <2>. QED
    BY <1>1, <2>1
<1>4. Silent(q, i) /\ p.invocation # i => Silent(r, i)
  BY <1>3 DEF Silent
<1>5. ASSUME FinalizeLast(q), FinalizeEnded(q, ends), p.invocation \notin ends
      PROVE  FinalizeLast(r)
  <2>. SUFFICES ASSUME NEW j \in 1 .. Len(r), NEW k \in 1 .. Len(r),
                       r[k].type = "ClientFinalize", k < j
                PROVE  r[j].invocation # r[k].invocation
    BY DEF FinalizeLast
  <2>1. k \in 1 .. Len(q) /\ r[k] = q[k]
    BY <1>1, <1>3
  <2>2. CASE j = Len(q) + 1 /\ r[j] = p
    BY <1>5, <2>1, <2>2 DEF FinalizeEnded
  <2>3. CASE j \in 1 .. Len(q) /\ r[j] = q[j]
    BY <1>5, <2>1, <2>3 DEF FinalizeLast
  <2>. QED
    BY <1>3, <2>2, <2>3
<1>6. FinalizeEnded(q, ends) /\ (p.type = "ClientFinalize" => p.invocation \in ends) =>
          FinalizeEnded(r, ends)
  BY <1>3 DEF FinalizeEnded
<1>7. None(q, t, i) /\ ~(p.type = t /\ p.invocation = i) => None(r, t, i)
  BY <1>3 DEF None
<1>8. Only(q, t, i, n) /\ ~(p.type = t /\ p.invocation = i) => Only(r, t, i, n)
  BY <1>3 DEF Only
<1>9. None(q, t, i) /\ p.body.n = n => Only(r, t, i, n)
  BY <1>3 DEF None, Only
<1>. QED
  BY <1>4, <1>5, <1>6, <1>7, <1>8, <1>9 DEF r

\* The same, of the packets of one context.
LEMMA TailKeeps ==
    ASSUME NEW S, NEW q \in Seq(S), q # << >>, NEW t, NEW i, NEW n
    PROVE  /\ None(q, t, i) => None(Tail(q), t, i)
           /\ Only(q, t, i, n) => Only(Tail(q), t, i, n)
  BY QueueTail

LEMMA HeadIsOnly ==
    ASSUME NEW S, NEW q \in Seq(S), q # << >>, NEW i, NEW n, NEW t,
           Only(q, t, i, n), Head(q).type = t, Head(q).invocation = i
    PROVE  Head(q).body.n = n /\ None(Tail(q), t, i)
  BY QueueTail

LEMMA NoneIsOnly == \A q, t, i, n : None(q, t, i) => Only(q, t, i, n)
  BY DEF None, Only

LEMMA AppendKeeps ==
    ASSUME NEW S, NEW q \in Seq(S), NEW p \in S, NEW t, NEW i, NEW n,
           ~(p.type = t /\ p.invocation = i)
    PROVE  /\ None(q, t, i) => None(Append(q, p), t, i)
           /\ Only(q, t, i, n) => Only(Append(q, p), t, i, n)
  BY QueueAppend

-----------------------------------------------------------------------------
(* Packets and contexts keep to their channel.                             *)

\* A context object keeps its identity, whatever happens to it.
LEMMA ContextsKept ==
    ASSUME TypeInv, Next
    PROVE  /\ Len(ctx) \in Nat
           /\ \A i \in 1 .. Len(ctx) :
                 i \in 1 .. Len(ctx') /\ ctx'[i].channel = ctx[i].channel
<1>. USE DEF TypeInv, TypeOK, Allocated
<1>0. Len(ctx) \in Nat /\ DOMAIN ctx = 1 .. Len(ctx)
  OBVIOUS
<1>1. ASSUME NEW c \in Callers, NEW ch \in Channels, NEW m \in Methods, Allocate(c, ch, m)
      PROVE  \A i \in 1 .. Len(ctx) : i \in 1 .. Len(ctx') /\ ctx'[i].channel = ctx[i].channel
  BY <1>1 DEF Allocate
<1>2. ASSUME NEW c \in Callers, ReceiveResponse(c)
      PROVE  \A i \in 1 .. Len(ctx) : i \in 1 .. Len(ctx') /\ ctx'[i].channel = ctx[i].channel
  BY <1>2 DEF ReceiveResponse
<1>3. ASSUME NEW ch \in Channels, DeliverResponse(ch) \/ DeliverFinalize(ch)
      PROVE  \A i \in 1 .. Len(ctx) : i \in 1 .. Len(ctx') /\ ctx'[i].channel = ctx[i].channel
  <2>1. reader[ch].ctx \in DOMAIN ctx
    BY <1>3 DEF DeliverResponse, DeliverFinalize
  <2>2. CASE DeliverResponse(ch)
    BY <2>1, <2>2 DEF DeliverResponse
  <2>3. CASE DeliverFinalize(ch)
    BY <2>1, <2>3 DEF DeliverFinalize
  <2>. QED
    BY <1>3, <2>2, <2>3
<1>. QED
  BY <1>0, <1>1, <1>2, <1>3, ContextsOtherwiseUnchanged

\* What a send puts on the line to the device, if anything.
LEMMA SendEffect ==
    ASSUME TypeInv, InvocationsDistinct, NEW c \in Callers, NEW type \in ToDeviceTypes,
           NEW b \in Body, SendPacket(c, type, b), cur[c] \in Allocated
    PROVE  /\ cur[c] \in 1 .. Len(ctx)
           /\ Home(cur[c]) \in Channels
           /\ \E p \in Packet(ToDeviceTypes) :
                 /\ p.type = type
                 /\ p.invocation = cur[c]
                 /\ p.body = b
                 /\ toDevice' = [toDevice EXCEPT ![Home(cur[c])] = Append(@, p)]
<1>1. /\ cur[c] \in 1 .. Len(ctx)
      /\ ctx[cur[c]].channel \in Channels
      /\ ctx[cur[c]].method \in Methods
      /\ ctx[cur[c]].invocation = cur[c]
      /\ cur[c] \in Nat
  BY ContextFields, LenProperties DEF TypeInv, TypeOK, Allocated, InvocationsDistinct
<1>. DEFINE p == [type |-> type, method |-> ctx[cur[c]].method,
                  invocation |-> ctx[cur[c]].invocation, body |-> b]
<1>2. p \in Packet(ToDeviceTypes) /\ p.type = type /\ p.invocation = cur[c] /\ p.body = b
  BY <1>1 DEF Packet
<1>3. toDevice' = [toDevice EXCEPT ![Home(cur[c])] = Append(@, p)]
  BY DEF SendPacket, Home
<1>. HIDE DEF p
<1>. QED
  BY <1>1, <1>2, <1>3 DEF Home

LEMMA HomeAppend ==
    ASSUME NEW S, NEW f \in [Channels -> Seq(S)], WireAtHome(f),
           NEW d \in Channels, NEW e \in S, AtHome(e, d)
    PROVE  WireAtHome([f EXCEPT ![d] = Append(@, e)])
<1>1. /\ Len(Append(f[d], e)) = Len(f[d]) + 1
      /\ \A k \in 1 .. Len(f[d]) : Append(f[d], e)[k] = f[d][k]
      /\ Append(f[d], e)[Len(f[d]) + 1] = e
  OBVIOUS
<1>2. \A k \in 1 .. Len(f[d]) + 1 : k \in 1 .. Len(f[d]) \/ k = Len(f[d]) + 1
  BY LenProperties
<1>. QED
  BY <1>1, <1>2 DEF WireAtHome

LEMMA HomeTail ==
    ASSUME NEW S, NEW f \in [Channels -> Seq(S)], WireAtHome(f),
           NEW d \in Channels, f[d] # << >>
    PROVE  AtHome(Head(f[d]), d) /\ WireAtHome([f EXCEPT ![d] = Tail(@)])
<1>1. /\ Len(f[d]) >= 1
      /\ Head(f[d]) = f[d][1]
      /\ Len(Tail(f[d])) = Len(f[d]) - 1
      /\ \A k \in 1 .. Len(Tail(f[d])) : Tail(f[d])[k] = f[d][k + 1]
  OBVIOUS
<1>2. \A k \in 1 .. Len(Tail(f[d])) : k + 1 \in 1 .. Len(f[d])
  BY <1>1
<1>. QED
  BY <1>1, <1>2 DEF WireAtHome

\* Two packets sent in one step are two packets sent.
LEMMA AppendTwo ==
    ASSUME NEW S, NEW q \in Seq(S), NEW p \in S, NEW r \in S
    PROVE  Append(q, p) \in Seq(S) /\ q \o <<p, r>> = Append(Append(q, p), r)
  OBVIOUS

\* The steps that change a line.
LEMMA WireSteps ==
    ASSUME Next
    PROVE  \/ \E c \in Callers : SendInitialize(c) \/ SendRequest(c) \/ SendFinalize(c)
           \/ \E ch \in Channels : ReceiveDamaged(ch) \/ FindContext(ch) \/ DeviceStep(ch)
           \/ UNCHANGED <<wireVars, ended>>
<1>1. ASSUME NEW c \in Callers,
             \/ \E ch \in Channels, m \in Methods : Allocate(c, ch, m)
             \/ Register(c) \/ SendFails(c) \/ ReceiveResponse(c) \/ ReceiveClosed(c)
             \/ Timeout(c) \/ NextSend(c) \/ StopSending(c) \/ Free(c)
      PROVE  UNCHANGED <<wireVars, ended>>
  BY <1>1 DEF Allocate, Register, SendFails, SendNothing, ReceiveResponse, ReceiveClosed,
     Timeout, NextSend, StopSending, Free, wireVars
<1>2. ASSUME NEW ch \in Channels,
             \/ DeliverResponse(ch) \/ DeliverFinalize(ch)
             \/ CloseChannel(ch) \/ OpenChannel(ch)
      PROVE  UNCHANGED <<wireVars, ended>>
  BY <1>2 DEF DeliverResponse, DeliverFinalize, CloseChannel, OpenChannel, wireVars
<1>. QED
  BY <1>1, <1>2, NextCases

\* The steps that change what a readLoop holds.
LEMMA ReaderSteps ==
    ASSUME Next
    PROVE  \/ \E ch \in Channels : FindContext(ch) \/ DeliverResponse(ch) \/ DeliverFinalize(ch)
           \/ UNCHANGED <<reader, panicked>>
<1>1. ASSUME NEW c \in Callers,
             \/ \E ch \in Channels, m \in Methods : Allocate(c, ch, m)
             \/ Register(c) \/ SendInitialize(c) \/ SendRequest(c) \/ SendFails(c)
             \/ ReceiveResponse(c) \/ ReceiveClosed(c) \/ Timeout(c) \/ NextSend(c)
             \/ StopSending(c) \/ SendFinalize(c) \/ Free(c)
      PROVE  UNCHANGED <<reader, panicked>>
  BY <1>1 DEF Allocate, Register, SendInitialize, SendRequest, SendFails, ReceiveResponse,
     ReceiveClosed, Timeout, NextSend, StopSending, SendFinalize, Free
<1>2. ASSUME NEW ch \in Channels,
             \/ ReceiveDamaged(ch) \/ CloseChannel(ch) \/ OpenChannel(ch) \/ DeviceStep(ch)
      PROVE  UNCHANGED <<reader, panicked>>
  BY <1>2 DEF ReceiveDamaged, CloseChannel, OpenChannel, DeviceStep, DeviceAnswers,
     DeviceFinalizes, DeviceAnswersAndFinalizes, DeviceIgnores
<1>. QED
  BY <1>1, <1>2, NextCases

LEMMA SendsKeepHome ==
    ASSUME TypeInv, InvocationsDistinct, HomeInv, NEW c \in Callers,
           SendInitialize(c) \/ SendRequest(c) \/ SendFinalize(c)
    PROVE  WireAtHome(toDevice') /\ UNCHANGED <<toHost, reader>>
<1>0. /\ toDevice \in [Channels -> Seq(Packet(ToDeviceTypes))]
      /\ cur[c] \in Allocated
      /\ NoBody \in Body
  BY RpcAssumption DEF TypeInv, TypeOK, SendInitialize, SendRequest, SendFinalize, NoBody, Body
<1>1. ASSUME NEW type \in ToDeviceTypes, NEW b \in Body, SendPacket(c, type, b)
      PROVE  WireAtHome(toDevice')
  <2>1. PICK p \in Packet(ToDeviceTypes) :
            /\ p.invocation = cur[c]
            /\ toDevice' = [toDevice EXCEPT ![Home(cur[c])] = Append(@, p)]
    BY <1>0, <1>1, SendEffect
  <2>2. Home(cur[c]) \in Channels /\ AtHome(p, Home(cur[c]))
    BY <1>0, <1>1, <2>1, SendEffect DEF AtHome, Home
  <2>. QED
    BY <1>0, <2>1, <2>2, HomeAppend DEF HomeInv
<1>2. CASE SendInitialize(c)
  BY <1>0, <1>1, <1>2 DEF SendInitialize, SendNothing, ToDeviceTypes, HomeInv
<1>3. CASE SendFinalize(c)
  BY <1>0, <1>1, <1>3 DEF SendFinalize, SendNothing, ToDeviceTypes, HomeInv
<1>4. CASE SendRequest(c)
  <2>1. [of |-> cur[c], n |-> sent[cur[c]] + 1] \in Body
    <3>1. cur[c] \in 1 .. Len(sent) /\ sent \in Seq(0 .. MaxSends) /\ cur[c] \in 0 .. MaxCalls
      <4>1. DOMAIN ctx = 1 .. Len(ctx) /\ Len(ctx) \in Nat
        BY LenProperties DEF TypeInv, TypeOK
      <4>. QED
        BY <1>0, <4>1, RpcAssumption DEF TypeInv, TypeOK, Allocated
    <3>2. sent[cur[c]] \in 0 .. MaxSends
      BY <3>1, ElementOfSeq
    <3>3. sent[cur[c]] < MaxSends
      BY <1>4 DEF TypeInv, SendBound, SendRequest
    <3>. QED
      BY <3>1, <3>2, <3>3, RpcAssumption DEF Body
  <2>. QED
    BY <1>1, <1>4, <2>1 DEF SendRequest, ToDeviceTypes
<1>. QED
  BY <1>2, <1>3, <1>4

LEMMA DeviceKeepsHome ==
    ASSUME TypeInv, HomeInv, NEW ch \in Channels, DeviceStep(ch)
    PROVE  WireAtHome(toDevice') /\ WireAtHome(toHost') /\ UNCHANGED reader
<1>. DEFINE p == Head(toDevice[ch])
            r == Reply("ClientResponse", p)
            q == Reply("ClientFinalize", p)
<1>0. /\ toDevice \in [Channels -> Seq(Packet(ToDeviceTypes))]
      /\ toHost \in [Channels -> Seq(Packet(ToHostTypes))]
  BY DEF TypeInv, TypeOK
<1>1. toDevice[ch] # << >> /\ toDevice' = [toDevice EXCEPT ![ch] = Tail(@)] /\ UNCHANGED reader
  BY DEF DeviceStep, DeviceAnswers, DeviceFinalizes, DeviceAnswersAndFinalizes, DeviceIgnores
<1>2. WireAtHome(toDevice') /\ AtHome(p, ch) /\ p \in Packet(ToDeviceTypes)
  BY <1>0, <1>1, HomeTail, WireTail DEF HomeInv
<1>3. /\ r \in Packet(ToHostTypes) /\ AtHome(r, ch)
      /\ q \in Packet(ToHostTypes) /\ AtHome(q, ch)
  BY <1>2, RpcAssumption DEF Reply, Packet, ToHostTypes, NoBody, Body, AtHome
<1>4. \/ toHost' = toHost
      \/ toHost' = [toHost EXCEPT ![ch] = Append(@, r)]
      \/ toHost' = [toHost EXCEPT ![ch] = Append(@, q)]
      \/ toHost' = [toHost EXCEPT ![ch] = @ \o <<r, q>>]
  BY DEF DeviceStep, DeviceAnswers, DeviceFinalizes, DeviceAnswersAndFinalizes, DeviceIgnores
<1>. HIDE DEF r, q
<1>5. CASE toHost' = [toHost EXCEPT ![ch] = @ \o <<r, q>>]
  <2>. DEFINE once == [toHost EXCEPT ![ch] = Append(@, r)]
  <2>1. once \in [Channels -> Seq(Packet(ToHostTypes))] /\ WireAtHome(once)
    BY <1>0, <1>3, HomeAppend, WireAppend DEF HomeInv
  <2>2. toHost' = [once EXCEPT ![ch] = Append(@, q)]
    BY <1>0, <1>3, <1>5, AppendTwo
  <2>. HIDE DEF once
  <2>. QED
    BY <1>1, <1>2, <1>3, <2>1, <2>2, HomeAppend
<1>6. CASE toHost' = toHost
  BY <1>1, <1>2, <1>6 DEF HomeInv
<1>7. CASE toHost' = [toHost EXCEPT ![ch] = Append(@, r)]
  BY <1>0, <1>1, <1>2, <1>3, <1>7, HomeAppend DEF HomeInv
<1>8. CASE toHost' = [toHost EXCEPT ![ch] = Append(@, q)]
  BY <1>0, <1>1, <1>2, <1>3, <1>8, HomeAppend DEF HomeInv
<1>. QED
  BY <1>4, <1>5, <1>6, <1>7, <1>8

LEMMA HomeInductive ==
    ASSUME TypeInv, InvocationsDistinct, HomeInv, Next
    PROVE  HomeInv'
<1>0. /\ toHost \in [Channels -> Seq(Packet(ToHostTypes))]
      /\ reader \in [Channels -> Reader]
      /\ \A ch \in Channels : reader[ch].stage # "idle" => reader[ch].ctx \in 1 .. Len(ctx)
  BY DEF TypeInv, TypeOK, Allocated
<1>1. WireAtHome(toDevice') /\ WireAtHome(toHost')
  <2>1. ASSUME NEW c \in Callers, SendInitialize(c) \/ SendRequest(c) \/ SendFinalize(c)
        PROVE  WireAtHome(toDevice') /\ WireAtHome(toHost')
    BY <2>1, SendsKeepHome DEF HomeInv
  <2>2. ASSUME NEW ch \in Channels, ReceiveDamaged(ch) \/ FindContext(ch)
        PROVE  WireAtHome(toDevice') /\ WireAtHome(toHost')
    <3>1. /\ toHost[ch] # << >>
          /\ toHost' = [toHost EXCEPT ![ch] = Tail(@)]
          /\ toDevice' = toDevice
      BY <2>2 DEF ReceiveDamaged, FindContext
    <3>. QED
      BY <1>0, <3>1, HomeTail DEF HomeInv
  <2>3. ASSUME NEW ch \in Channels, DeviceStep(ch)
        PROVE  WireAtHome(toDevice') /\ WireAtHome(toHost')
    BY <2>3, DeviceKeepsHome
  <2>4. CASE UNCHANGED wireVars
    BY <2>4 DEF wireVars, HomeInv
  <2>. QED
    BY <2>1, <2>2, <2>3, <2>4, WireSteps
<1>2. \A ch \in Channels : reader'[ch].stage # "idle" =>
          /\ reader'[ch].ctx \in 1 .. Len(ctx)
          /\ ctx[reader'[ch].ctx].channel = ch
  <2>1. ASSUME NEW ch \in Channels, FindContext(ch)
        PROVE  \A d \in Channels : reader'[d].stage # "idle" =>
                  /\ reader'[d].ctx \in 1 .. Len(ctx)
                  /\ ctx[reader'[d].ctx].channel = d
    <3>1. \/ UNCHANGED reader
          \/ \E i \in clientContexts : \E t, b :
                /\ Matches(i, ch, Head(toHost[ch]))
                /\ reader' = [reader EXCEPT ![ch] = [stage |-> t, ctx |-> i, body |-> b]]
      BY <2>1 DEF FindContext
    <3>2. CASE UNCHANGED reader
      BY <1>0, <3>2 DEF HomeInv
    <3>3. ASSUME NEW i \in clientContexts, NEW t, NEW b, Matches(i, ch, Head(toHost[ch])),
                 reader' = [reader EXCEPT ![ch] = [stage |-> t, ctx |-> i, body |-> b]]
          PROVE  \A d \in Channels : reader'[d].stage # "idle" =>
                    /\ reader'[d].ctx \in 1 .. Len(ctx)
                    /\ ctx[reader'[d].ctx].channel = d
      <4>1. i \in 1 .. Len(ctx) /\ ctx[i].channel = ch
        BY <3>3 DEF TypeInv, TypeOK, Allocated, Matches
      <4>. QED
        BY <1>0, <3>3, <4>1 DEF HomeInv
    <3>. QED
      BY <3>1, <3>2, <3>3
  <2>2. ASSUME NEW ch \in Channels, DeliverResponse(ch) \/ DeliverFinalize(ch)
        PROVE  reader' = [reader EXCEPT ![ch] = ReaderIdle]
    BY <2>2 DEF DeliverResponse, DeliverFinalize
  <2>3. ReaderIdle.stage = "idle"
    BY DEF ReaderIdle
  <2>4. CASE UNCHANGED reader
    BY <1>0, <2>4 DEF HomeInv
  <2>5. ASSUME NEW ch \in Channels, reader' = [reader EXCEPT ![ch] = ReaderIdle]
        PROVE  \A d \in Channels : reader'[d].stage # "idle" =>
                  /\ reader'[d].ctx \in 1 .. Len(ctx)
                  /\ ctx[reader'[d].ctx].channel = d
    BY <1>0, <2>3, <2>5 DEF HomeInv
  <2>. QED
    BY <2>1, <2>2, <2>4, <2>5, ReaderSteps
<1>. QED
  BY <1>1, <1>2, ContextsKept DEF HomeInv, WireAtHome, AtHome

-----------------------------------------------------------------------------
(* The end of a call is the last that is heard of it.                      *)

\* What closes ResponseCh, and what a step leaves as it is.
LEMMA ClosedBy ==
    ASSUME TypeInv, HomeInv, Next, NEW i \in 1 .. Len(ctx'), ctx'[i].closed
    PROVE  \/ i \in 1 .. Len(ctx) /\ ctx[i].closed
           \/ /\ i \in 1 .. Len(ctx)
              /\ Home(i) \in Channels
              /\ DeliverFinalize(Home(i))
              /\ reader[Home(i)].ctx = i
<1>. USE DEF TypeInv, TypeOK, Allocated
<1>0. Len(ctx) \in Nat /\ DOMAIN ctx = 1 .. Len(ctx)
  OBVIOUS
<1>1. ASSUME NEW c \in Callers, NEW ch \in Channels, NEW m \in Methods, Allocate(c, ch, m)
      PROVE  i \in 1 .. Len(ctx) /\ ctx[i].closed
  BY <1>1 DEF Allocate
<1>2. ASSUME NEW c \in Callers, ReceiveResponse(c)
      PROVE  i \in 1 .. Len(ctx) /\ ctx[i].closed
  BY <1>2 DEF ReceiveResponse
<1>3. ASSUME NEW ch \in Channels, DeliverResponse(ch)
      PROVE  i \in 1 .. Len(ctx) /\ ctx[i].closed
  <2>1. reader[ch].ctx \in DOMAIN ctx
    BY <1>3 DEF DeliverResponse
  <2>. QED
    BY <1>3, <2>1 DEF DeliverResponse
<1>4. ASSUME NEW ch \in Channels, DeliverFinalize(ch)
      PROVE  \/ i \in 1 .. Len(ctx) /\ ctx[i].closed
             \/ i \in 1 .. Len(ctx) /\ Home(i) = ch /\ reader[ch].ctx = i
  <2>1. reader[ch].ctx \in DOMAIN ctx /\ ctx[reader[ch].ctx].channel = ch
    BY <1>4 DEF DeliverFinalize, HomeInv
  <2>. QED
    BY <1>4, <2>1 DEF DeliverFinalize, Home
<1>. QED
  BY <1>0, <1>1, <1>2, <1>3, <1>4, ContextsOtherwiseUnchanged

\* A handler never finds the ResponseCh of the context it holds closed.
LEMMA HeldIsOpen ==
    ASSUME TypeInv, HomeInv, EndInv, NEW ch \in Channels, reader[ch].stage # "idle"
    PROVE  /\ reader[ch].ctx \in 1 .. Len(ctx)
           /\ Home(reader[ch].ctx) = ch
           /\ ctx[reader[ch].ctx].closed = FALSE
<1>1. reader[ch].ctx \in DOMAIN ctx /\ DOMAIN ctx = 1 .. Len(ctx)
  BY LenProperties DEF TypeInv, TypeOK, Allocated
<1>2. Home(reader[ch].ctx) = ch
  BY DEF HomeInv, Home
<1>3. ctx[reader[ch].ctx].closed \in BOOLEAN
  BY <1>1, ContextFields DEF TypeInv, TypeOK
<1>. QED
  BY <1>1, <1>2, <1>3 DEF EndInv, ClosedIsOver

\* The steps of the callers and of the port.
LEMMA EndKept ==
    ASSUME TypeInv, HomeInv, EndInv, Next, UNCHANGED <<toHost, ended, reader, panicked>>
    PROVE  EndInv'
<1>1. ~panicked' /\ \A ch \in Channels : EndOfLine(ch)'
  BY DEF EndInv, EndOfLine
<1>2. ASSUME NEW i \in 1 .. Len(ctx'), ctx'[i].closed
      PROVE  i \in 1 .. Len(ctx) /\ ctx[i].closed
  <2>1. ASSUME NEW ch \in Channels, DeliverFinalize(ch)
        PROVE  FALSE
    <3>1. reader[ch].stage = "ClientFinalize" /\ reader'[ch] = ReaderIdle
      BY <2>1 DEF DeliverFinalize, TypeInv, TypeOK
    <3>. QED
      BY <3>1 DEF ReaderIdle
  <2>. QED
    BY <1>2, <2>1, ClosedBy
<1>3. ASSUME NEW i \in 1 .. Len(ctx')
      PROVE  ClosedIsOver(i)'
  <2>. SUFFICES ASSUME ctx'[i].closed
                PROVE  ClosedIsOver(i)'
    BY DEF ClosedIsOver
  <2>1. i \in 1 .. Len(ctx) /\ ctx[i].closed /\ Home(i)' = Home(i)
    BY <1>2, ContextsKept DEF Home
  <2>2. ClosedIsOver(i)
    BY <2>1 DEF EndInv
  <2>. QED
    BY <2>1, <2>2 DEF ClosedIsOver
<1>. QED
  BY <1>1, <1>3 DEF EndInv

\* readLoop takes a packet, and drops it or finds its context.
LEMMA EndKeptByLookup ==
    ASSUME TypeInv, InvocationsDistinct, HomeInv, EndInv,
           NEW ch \in Channels, ReceiveDamaged(ch) \/ FindContext(ch)
    PROVE  EndInv'
<1>. DEFINE p == Head(toHost[ch])
<1>0. /\ toHost \in [Channels -> Seq(Packet(ToHostTypes))]
      /\ reader \in [Channels -> Reader]
  BY DEF TypeInv, TypeOK
<1>1. /\ toHost[ch] # << >> /\ reader[ch].stage = "idle"
      /\ toHost' = [toHost EXCEPT ![ch] = Tail(@)]
      /\ UNCHANGED <<ctx, ended, panicked>>
  BY DEF ReceiveDamaged, FindContext, contextVars
<1>2. \/ UNCHANGED reader
      \/ \E i \in clientContexts :
            /\ Matches(i, ch, p)
            /\ reader' = [reader EXCEPT ![ch] = [stage |-> p.type, ctx |-> i, body |-> p.body]]
  BY DEF ReceiveDamaged, FindContext
<1>3. /\ \A i : Silent(toHost[ch], i) => Silent(toHost'[ch], i)
      /\ FinalizeLast(toHost'[ch])
      /\ FinalizeEnded(toHost'[ch], ended[ch])
      /\ p.type = "ClientFinalize" => Silent(toHost'[ch], p.invocation)
  <2>1. toHost'[ch] = Tail(toHost[ch]) /\ toHost[ch] \in Seq(Packet(ToHostTypes))
    BY <1>0, <1>1
  <2>2. FinalizeLast(toHost[ch]) /\ FinalizeEnded(toHost[ch], ended[ch])
    BY DEF EndInv, EndOfLine
  <2>3. /\ \A i : Silent(toHost[ch], i) => Silent(Tail(toHost[ch]), i)
        /\ FinalizeLast(Tail(toHost[ch]))
    BY <1>1, <2>1, <2>2, QueueTail
  <2>4. FinalizeEnded(Tail(toHost[ch]), ended[ch])
    BY <1>1, <2>1, <2>2, QueueTail
  <2>5. p.type = "ClientFinalize" => Silent(Tail(toHost[ch]), p.invocation)
    BY <1>1, <2>1, <2>2, QueueTail
  <2>. QED
    BY <2>1, <2>3, <2>4, <2>5
<1>4. p = toHost[ch][1] /\ 1 \in 1 .. Len(toHost[ch])
  BY <1>0, <1>1
<1>5. p.type = "ClientFinalize" => p.invocation \in ended[ch]
  BY <1>4 DEF EndInv, EndOfLine, FinalizeEnded
<1>6. \A d \in Channels : d # ch => toHost'[d] = toHost[d] /\ reader'[d] = reader[d]
  BY <1>0, <1>1, <1>2
<1>7. \/ reader'[ch].stage = "idle"
      \/ /\ reader'[ch].stage = p.type
         /\ reader'[ch].ctx = p.invocation
  <2>1. ASSUME NEW i \in clientContexts, Matches(i, ch, p)
        PROVE  i = p.invocation
    BY <2>1 DEF Matches, InvocationsDistinct, TypeInv, TypeOK, Allocated
  <2>. QED
    BY <1>0, <1>1, <1>2, <2>1
<1>8. ASSUME NEW d \in Channels
      PROVE  EndOfLine(d)'
  <2>1. EndOfLine(d)
    BY DEF EndInv
  <2>2. CASE d = ch
    BY <1>1, <1>3, <1>5, <1>7, <2>2 DEF EndOfLine
  <2>3. CASE d # ch
    BY <1>1, <1>6, <2>1, <2>3 DEF EndOfLine
  <2>. QED
    BY <2>2, <2>3
<1>9. ASSUME NEW i \in 1 .. Len(ctx')
      PROVE  ClosedIsOver(i)'
  <2>1. ClosedIsOver(i) /\ ctx' = ctx /\ Home(i)' = Home(i)
    BY <1>1 DEF EndInv, Home
  <2>2. Home(i) \in Channels
    BY <1>1, ContextFields DEF Home, TypeInv, TypeOK
  <2>3. CASE Home(i) = ch
    <3>1. Silent(toHost[ch], i) => p.invocation # i
      BY <1>4 DEF Silent
    <3>. QED
      BY <1>1, <1>3, <1>7, <2>1, <2>3, <3>1 DEF ClosedIsOver
  <2>4. CASE Home(i) # ch
    BY <1>1, <1>6, <2>1, <2>2, <2>4 DEF ClosedIsOver
  <2>. QED
    BY <2>3, <2>4
<1>. QED
  BY <1>1, <1>8, <1>9 DEF EndInv

\* The handler delivers what it holds.
LEMMA EndKeptByDelivery ==
    ASSUME TypeInv, HomeInv, EndInv, Next,
           NEW ch \in Channels, DeliverResponse(ch) \/ DeliverFinalize(ch)
    PROVE  EndInv'
<1>0. reader \in [Channels -> Reader] /\ ReaderIdle.stage = "idle"
  BY DEF TypeInv, TypeOK, ReaderIdle
<1>1. /\ reader[ch].stage # "idle"
      /\ panicked' = ctx[reader[ch].ctx].closed
      /\ reader' = [reader EXCEPT ![ch] = ReaderIdle]
      /\ UNCHANGED <<toHost, ended>>
  BY DEF DeliverResponse, DeliverFinalize, wireVars
<1>2. panicked' = FALSE
  BY <1>1, HeldIsOpen
<1>3. reader'[ch].stage = "idle" /\ \A d \in Channels : d # ch => reader'[d] = reader[d]
  BY <1>0, <1>1
<1>4. ASSUME NEW d \in Channels
      PROVE  EndOfLine(d)'
  BY <1>1, <1>3 DEF EndInv, EndOfLine
<1>5. ASSUME NEW i \in 1 .. Len(ctx')
      PROVE  ClosedIsOver(i)'
  <2>. SUFFICES ASSUME ctx'[i].closed
                PROVE  ClosedIsOver(i)'
    BY DEF ClosedIsOver
  <2>1. CASE i \in 1 .. Len(ctx) /\ ctx[i].closed
    <3>1. ClosedIsOver(i) /\ Home(i)' = Home(i)
      BY <2>1, ContextsKept DEF EndInv, Home
    <3>2. Home(i) \in Channels
      BY <2>1, ContextFields, LenProperties DEF Home, TypeInv, TypeOK
    <3>. QED
      BY <1>1, <1>3, <2>1, <3>1, <3>2 DEF ClosedIsOver
  <2>2. CASE /\ i \in 1 .. Len(ctx)
             /\ Home(i) \in Channels
             /\ DeliverFinalize(Home(i))
             /\ reader[Home(i)].ctx = i
    <3>1. Home(i)' = Home(i)
      BY <2>2, ContextsKept DEF Home
    <3>2. reader[Home(i)].stage = "ClientFinalize" /\ reader'[Home(i)].stage = "idle"
      BY <1>0, <2>2 DEF DeliverFinalize
    <3>3. i \in ended[Home(i)] /\ Silent(toHost[Home(i)], i)
      BY <2>2, <3>2 DEF EndInv, EndOfLine
    <3>. QED
      BY <1>1, <3>1, <3>2, <3>3 DEF ClosedIsOver
  <2>. QED
    BY <2>1, <2>2, ClosedBy
<1>. QED
  BY <1>2, <1>4, <1>5 DEF EndInv

\* The device answers or ends a call, unless it has ended it.
LEMMA EndKeptByDevice ==
    ASSUME TypeInv, HomeInv, EndInv, NEW ch \in Channels, DeviceStep(ch)
    PROVE  EndInv'
<1>. DEFINE p == Head(toDevice[ch])
            i == p.invocation
            r == Reply("ClientResponse", p)
            q == Reply("ClientFinalize", p)
<1>0. /\ toDevice \in [Channels -> Seq(Packet(ToDeviceTypes))]
      /\ toHost \in [Channels -> Seq(Packet(ToHostTypes))]
      /\ ended \in [Channels -> SUBSET Nat]
  BY DEF TypeInv, TypeOK
<1>1. toDevice[ch] # << >> /\ UNCHANGED <<ctx, reader, panicked>>
  BY DEF DeviceStep, DeviceAnswers, DeviceFinalizes, DeviceAnswersAndFinalizes, DeviceIgnores,
     contextVars
<1>2. /\ r \in Packet(ToHostTypes) /\ r.invocation = i /\ r.type = "ClientResponse"
      /\ q \in Packet(ToHostTypes) /\ q.invocation = i /\ q.type = "ClientFinalize"
  <2>1. p \in Packet(ToDeviceTypes)
    BY <1>0, <1>1, WireTail
  <2>. QED
    BY <2>1, RpcAssumption DEF Reply, Packet, ToHostTypes, NoBody, Body
<1>3. \/ UNCHANGED <<toHost, ended>>
      \/ /\ i \notin ended[ch]
         /\ \/ /\ toHost' = [toHost EXCEPT ![ch] = Append(@, r)]
               /\ ended' = ended
            \/ /\ toHost' = [toHost EXCEPT ![ch] = Append(@, q)]
               /\ ended' = [ended EXCEPT ![ch] = @ \cup {i}]
            \/ /\ toHost' = [toHost EXCEPT ![ch] = @ \o <<r, q>>]
               /\ ended' = [ended EXCEPT ![ch] = @ \cup {i}]
  BY DEF DeviceStep, DeviceAnswers, DeviceFinalizes, DeviceAnswersAndFinalizes, DeviceIgnores
<1>. HIDE DEF r, q, i
<1>4. CASE UNCHANGED <<toHost, ended>>
  BY <1>1, <1>4 DEF EndInv, EndOfLine, ClosedIsOver, Home
<1>5. CASE i \notin ended[ch] /\ ~UNCHANGED <<toHost, ended>>
  <2>. DEFINE h == toHost[ch]
  <2>0. h \in Seq(Packet(ToHostTypes)) /\ FinalizeLast(h) /\ FinalizeEnded(h, ended[ch])
    BY <1>0 DEF EndInv, EndOfLine
  <2>1. /\ FinalizeLast(toHost'[ch])
        /\ FinalizeEnded(toHost'[ch], ended'[ch])
        /\ ended[ch] \subseteq ended'[ch]
        /\ \A j : j # i /\ Silent(h, j) => Silent(toHost'[ch], j)
        /\ \A d \in Channels : d # ch => toHost'[d] = toHost[d] /\ ended'[d] = ended[d]
    <3>1. CASE toHost' = [toHost EXCEPT ![ch] = Append(@, r)] /\ ended' = ended
      <4>1. toHost'[ch] = Append(h, r)
        BY <1>0, <3>1
      <4>. QED
        BY <1>0, <1>2, <1>5, <2>0, <3>1, <4>1, QueueAppend
    <3>2. CASE /\ toHost' = [toHost EXCEPT ![ch] = Append(@, q)]
               /\ ended' = [ended EXCEPT ![ch] = @ \cup {i}]
      <4>1. /\ toHost'[ch] = Append(h, q) /\ ended'[ch] = ended[ch] \cup {i}
            /\ FinalizeEnded(h, ended'[ch])
        BY <1>0, <2>0, <3>2 DEF FinalizeEnded
      <4>2. /\ FinalizeLast(Append(h, q))
            /\ FinalizeEnded(Append(h, q), ended'[ch])
            /\ \A j : j # i /\ Silent(h, j) => Silent(Append(h, q), j)
        BY <1>2, <1>5, <2>0, <4>1, QueueAppend
      <4>. QED
        BY <1>0, <3>2, <4>1, <4>2
    <3>3. CASE /\ toHost' = [toHost EXCEPT ![ch] = @ \o <<r, q>>]
               /\ ended' = [ended EXCEPT ![ch] = @ \cup {i}]
      <4>. DEFINE g == Append(h, r)
      <4>1. /\ g \in Seq(Packet(ToHostTypes)) /\ toHost'[ch] = Append(g, q)
            /\ ended'[ch] = ended[ch] \cup {i}
        BY <1>0, <1>2, <3>3, AppendTwo
      <4>2. /\ FinalizeLast(g) /\ FinalizeEnded(g, ended[ch])
            /\ \A j : j # i /\ Silent(h, j) => Silent(g, j)
        BY <1>2, <1>5, <2>0, QueueAppend
      <4>. HIDE DEF g
      <4>3. FinalizeEnded(g, ended'[ch])
        BY <4>1, <4>2 DEF FinalizeEnded
      <4>4. /\ FinalizeLast(Append(g, q))
            /\ FinalizeEnded(Append(g, q), ended'[ch])
            /\ \A j : j # i /\ Silent(g, j) => Silent(Append(g, q), j)
        BY <1>2, <1>5, <4>1, <4>2, <4>3, QueueAppend
      <4>. QED
        BY <1>0, <3>3, <4>1, <4>2, <4>4
    <3>. QED
      BY <1>3, <1>5, <3>1, <3>2, <3>3
  <2>. HIDE DEF h
  <2>2. ASSUME NEW d \in Channels
        PROVE  EndOfLine(d)'
    <3>1. EndOfLine(d)
      BY DEF EndInv
    <3>2. CASE d = ch
      <4>1. reader[ch].stage = "ClientFinalize" =>
                reader[ch].ctx # i /\ reader[ch].ctx \in ended[ch] /\ Silent(h, reader[ch].ctx)
        BY <1>5, <3>1, <3>2 DEF EndOfLine, h
      <4>. QED
        BY <1>1, <2>1, <3>2, <4>1 DEF EndOfLine
    <3>3. CASE d # ch
      BY <1>1, <2>1, <3>1, <3>3 DEF EndOfLine
    <3>. QED
      BY <3>2, <3>3
  <2>3. ASSUME NEW j \in 1 .. Len(ctx')
        PROVE  ClosedIsOver(j)'
    <3>1. ClosedIsOver(j) /\ Home(j)' = Home(j) /\ ctx' = ctx
      BY <1>1 DEF EndInv, Home
    <3>2. Home(j) \in Channels
      BY <1>1, ContextFields, LenProperties DEF Home, TypeInv, TypeOK
    <3>3. CASE Home(j) = ch
      <4>1. ctx[j].closed => j # i /\ j \in ended[ch] /\ Silent(h, j)
        BY <1>5, <3>1, <3>3 DEF ClosedIsOver, h
      <4>. QED
        BY <1>1, <2>1, <3>1, <3>3, <4>1 DEF ClosedIsOver
    <3>4. CASE Home(j) # ch
      BY <1>1, <2>1, <3>1, <3>2, <3>4 DEF ClosedIsOver
    <3>. QED
      BY <3>3, <3>4
  <2>. QED
    BY <1>1, <2>2, <2>3 DEF EndInv
<1>. QED
  BY <1>3, <1>4, <1>5

LEMMA EndInductive ==
    ASSUME TypeInv, InvocationsDistinct, HomeInv, EndInv, Next
    PROVE  EndInv'
<1>1. ASSUME NEW c \in Callers,
             \/ \E ch \in Channels, m \in Methods : Allocate(c, ch, m)
             \/ Register(c) \/ SendInitialize(c) \/ SendRequest(c) \/ SendFails(c)
             \/ ReceiveResponse(c) \/ ReceiveClosed(c) \/ Timeout(c) \/ NextSend(c)
             \/ StopSending(c) \/ SendFinalize(c) \/ Free(c)
      PROVE  UNCHANGED <<toHost, ended, reader, panicked>>
  BY <1>1 DEF Allocate, Register, SendInitialize, SendRequest, SendFails, ReceiveResponse,
     ReceiveClosed, Timeout, NextSend, StopSending, SendFinalize, Free, wireVars
<1>2. ASSUME NEW ch \in Channels, CloseChannel(ch) \/ OpenChannel(ch)
      PROVE  UNCHANGED <<toHost, ended, reader, panicked>>
  BY <1>2 DEF CloseChannel, OpenChannel, wireVars
<1>. QED
  BY <1>1, <1>2, EndKept, EndKeptByLookup, EndKeptByDelivery, EndKeptByDevice, NextCases

-----------------------------------------------------------------------------
(* One request or answer of a context on the way.                          *)

\* Nothing on the way is not too much.
LEMMA QuietIsOne == \A i : Quiet(i) => OneOnTheWay(i)
  BY DEF Quiet, OneOnTheWay, NotAsked, AskedOnce, NotAnswered, AnsweredOnce, NotHeld, Held,
     HeldOnce, NotQueued, QueuedOnce, None, Only

\* What a step may do to the places of a context: what is not there does not
\* come, what is there does not change.
Shrinks(i) ==
    /\ NotAsked(i) => NotAsked(i)'
    /\ AskedOnce(i) => AskedOnce(i)'
    /\ NotAnswered(i) => NotAnswered(i)'
    /\ AnsweredOnce(i) => AnsweredOnce(i)'
    /\ NotHeld(i) => NotHeld(i)'
    /\ HeldOnce(i) => HeldOnce(i)'
    /\ NotQueued(i) => NotQueued(i)'
    /\ QueuedOnce(i) => QueuedOnce(i)'

Kept(i) == OneOnTheWay(i)' /\ (Quiet(i) => Quiet(i)')

LEMMA ShrinksKeeps ==
    ASSUME NEW i, OneOnTheWay(i), Shrinks(i)
    PROVE  Kept(i)
  BY DEF OneOnTheWay, Shrinks, Kept, Quiet

\* A context the step does not touch.
LEMMA SameShrinks ==
    ASSUME NEW i, Home(i)' = Home(i), sent'[i] = sent[i],
           toDevice'[Home(i)] = toDevice[Home(i)],
           toHost'[Home(i)] = toHost[Home(i)],
           ended'[Home(i)] = ended[Home(i)],
           reader'[Home(i)] = reader[Home(i)],
           ctx'[i].responses = ctx[i].responses
    PROVE  Shrinks(i)
  BY DEF Shrinks, NotAsked, AskedOnce, NotAnswered, AnsweredOnce, NotHeld, Held,
     HeldOnce, NotQueued, QueuedOnce

LEMMA ContextTyped ==
    ASSUME TypeInv, NEW i \in 1 .. Len(ctx)
    PROVE  /\ i \in Allocated
           /\ Home(i) \in Channels
           /\ ctx[i].responses \in Seq(Body)
           /\ toDevice[Home(i)] \in Seq(Packet(ToDeviceTypes))
           /\ toHost[Home(i)] \in Seq(Packet(ToHostTypes))
<1>1. i \in Allocated
  BY LenProperties DEF TypeInv, TypeOK, Allocated
<1>2. Home(i) \in Channels /\ ctx[i].responses \in Seq(Body)
  BY <1>1, ContextFields DEF TypeInv, TypeOK, Allocated, Home
<1>. QED
  BY <1>1, <1>2 DEF TypeInv, TypeOK

\* Steps of which the callers and the registry see nothing.
LEMMA LineStepKeepsWay ==
    ASSUME WayInv, UNCHANGED <<pc, cur>>, Len(ctx') = Len(ctx), TypeInv,
           \A i \in 1 .. Len(ctx) : Kept(i)
    PROVE  WayInv'
<1>1. \A c \in Callers : pc[c] \in {"register", "init", "send", "ready"} => cur[c] \in 1 .. Len(ctx)
  BY LenProperties DEF TypeInv, TypeOK, Allocated
<1>. QED
  BY <1>1 DEF WayInv, Kept, QuietBetween

\* readLoop drops a packet.
LEMMA WayKeptByDrop ==
    ASSUME TypeInv, WayInv, NEW ch \in Channels, ReceiveDamaged(ch)
    PROVE  WayInv'
<1>1. /\ toHost[ch] # << >>
      /\ toHost' = [toHost EXCEPT ![ch] = Tail(@)]
      /\ UNCHANGED <<ctx, sent, pc, cur, toDevice, ended, reader>>
  BY DEF ReceiveDamaged, contextVars, callerVars
<1>2. ASSUME NEW i \in 1 .. Len(ctx)
      PROVE  Kept(i)
  <2>1. Home(i)' = Home(i) /\ toHost[Home(i)] \in Seq(Packet(ToHostTypes)) /\ Home(i) \in Channels
    BY <1>1, ContextTyped DEF Home
  <2>2. \/ toHost'[Home(i)] = toHost[Home(i)]
        \/ toHost[Home(i)] # << >> /\ toHost'[Home(i)] = Tail(toHost[Home(i)])
    BY <1>1, <2>1 DEF TypeInv, TypeOK
  <2>3. /\ NotAnswered(i) => NotAnswered(i)'
        /\ AnsweredOnce(i) => AnsweredOnce(i)'
    <3>1. /\ None(toHost[Home(i)], "ClientResponse", i) => None(toHost'[Home(i)], "ClientResponse", i)
          /\ Only(toHost[Home(i)], "ClientResponse", i, sent[i])
                => Only(toHost'[Home(i)], "ClientResponse", i, sent[i])
      BY <2>1, <2>2, TailKeeps
    <3>. QED
      BY <1>1, <2>1, <3>1 DEF NotAnswered, AnsweredOnce
  <2>4. Shrinks(i)
    BY <1>1, <2>1, <2>3
       DEF Shrinks, NotAsked, AskedOnce, NotHeld, Held, HeldOnce, NotQueued, QueuedOnce
  <2>. QED
    BY <2>4, ShrinksKeeps DEF WayInv
<1>. QED
  BY <1>1, <1>2, LineStepKeepsWay

\* readLoop finds the context of an answer, which is then the only one of its
\* call; or there is none, or the packet ends the call.
LEMMA WayKeptByLookup ==
    ASSUME TypeInv, InvocationsDistinct, WayInv, NEW ch \in Channels, FindContext(ch)
    PROVE  WayInv'
<1>. DEFINE p == Head(toHost[ch])
<1>0. /\ toHost \in [Channels -> Seq(Packet(ToHostTypes))]
      /\ reader \in [Channels -> Reader]
  BY DEF TypeInv, TypeOK
<1>1. /\ toHost[ch] # << >> /\ reader[ch].stage = "idle"
      /\ toHost' = [toHost EXCEPT ![ch] = Tail(@)]
      /\ UNCHANGED <<ctx, sent, pc, cur, toDevice, ended>>
  BY DEF FindContext, contextVars, callerVars
<1>2. \/ reader' = reader
      \/ reader' = [reader EXCEPT ![ch] = [stage |-> p.type, ctx |-> p.invocation, body |-> p.body]]
  <2>1. ASSUME NEW i \in clientContexts, Matches(i, ch, p)
        PROVE  i = p.invocation
    BY <2>1 DEF Matches, InvocationsDistinct, TypeInv, TypeOK, Allocated
  <2>. QED
    BY <2>1 DEF FindContext
<1>3. p = toHost[ch][1] /\ 1 \in 1 .. Len(toHost[ch])
  BY <1>0, <1>1
<1>. HIDE DEF p
<1>4. ASSUME NEW i \in 1 .. Len(ctx)
      PROVE  Kept(i)
  <2>1. Home(i)' = Home(i) /\ toHost[Home(i)] \in Seq(Packet(ToHostTypes)) /\ Home(i) \in Channels
    BY <1>1, ContextTyped DEF Home
  <2>2. OneOnTheWay(i)
    BY DEF WayInv
  <2>3. CASE Home(i) # ch
    <3>1. Shrinks(i)
      BY <1>0, <1>1, <1>2, <2>1, <2>3, SameShrinks
    <3>. QED
      BY <2>2, <3>1, ShrinksKeeps
  <2>4. CASE Home(i) = ch
    <3>1. toHost'[Home(i)] = Tail(toHost[Home(i)]) /\ toHost[Home(i)] # << >>
      BY <1>0, <1>1, <2>4
    <3>2. /\ NotAnswered(i) => NotAnswered(i)'
          /\ AnsweredOnce(i) => AnsweredOnce(i)'
      <4>1. /\ None(toHost[Home(i)], "ClientResponse", i) => None(toHost'[Home(i)], "ClientResponse", i)
            /\ Only(toHost[Home(i)], "ClientResponse", i, sent[i])
                  => Only(toHost'[Home(i)], "ClientResponse", i, sent[i])
        BY <2>1, <3>1, TailKeeps
      <4>. QED
        BY <1>1, <2>1, <4>1 DEF NotAnswered, AnsweredOnce
    <3>3. /\ NotAsked(i) => NotAsked(i)'
          /\ AskedOnce(i) => AskedOnce(i)'
          /\ NotQueued(i) => NotQueued(i)'
          /\ QueuedOnce(i) => QueuedOnce(i)'
      BY <1>1, <2>1 DEF NotAsked, AskedOnce, NotQueued, QueuedOnce
    <3>4. CASE Held(i)'
      <4>1. p.type = "ClientResponse" /\ p.invocation = i /\ reader'[ch].body = p.body
        BY <1>0, <1>1, <1>2, <2>1, <2>4, <3>4 DEF Held
      <4>2. ~NotAnswered(i)
        BY <1>3, <2>4, <4>1 DEF NotAnswered, None
      <4>3. NotAsked(i) /\ NotHeld(i) /\ NotQueued(i) /\ AnsweredOnce(i)
        BY <2>2, <4>2 DEF OneOnTheWay
      <4>4. p.body.n = sent[i] /\ None(Tail(toHost[ch]), "ClientResponse", i)
        BY <1>0, <1>1, <2>4, <4>1, <4>3, QueueTail DEF AnsweredOnce, p
      <4>5. NotAnswered(i)' /\ HeldOnce(i)'
        BY <1>1, <2>1, <2>4, <3>1, <4>1, <4>4 DEF NotAnswered, HeldOnce
      <4>. QED
        BY <2>2, <3>2, <3>3, <4>2, <4>3, <4>5 DEF OneOnTheWay, Quiet, Kept
    <3>5. CASE NotHeld(i)'
      <4>1. Shrinks(i)
        BY <3>2, <3>3, <3>5 DEF Shrinks, NotHeld, HeldOnce
      <4>. QED
        BY <2>2, <4>1, ShrinksKeeps
    <3>. QED
      BY <3>4, <3>5 DEF NotHeld
  <2>. QED
    BY <2>3, <2>4
<1>. QED
  BY <1>1, <1>4, LineStepKeepsWay

\* What handleClientResponse delivers: the queue is empty, so there is room
\* for the answer whatever the capacity, and the channel is not closed.
LEMMA DeliveryQueues ==
    ASSUME TypeInv, HomeInv, EndInv, WayInv, NEW ch \in Channels, DeliverResponse(ch)
    PROVE  /\ reader[ch].ctx \in 1 .. Len(ctx)
           /\ Home(reader[ch].ctx) = ch
           /\ ctx[reader[ch].ctx].responses = << >>
           /\ ctx' = [ctx EXCEPT ![reader[ch].ctx].responses = <<reader[ch].body>>]
           /\ reader' = [reader EXCEPT ![ch] = ReaderIdle]
           /\ UNCHANGED <<sent, pc, cur, toDevice, toHost, ended>>
<1>. DEFINE i == reader[ch].ctx
<1>1. /\ reader[ch].stage = "ClientResponse"
      /\ reader' = [reader EXCEPT ![ch] = ReaderIdle]
      /\ ctx' = IF ~ctx[i].closed /\ HasRoom(i)
                THEN [ctx EXCEPT ![i].responses = Append(@, reader[ch].body)]
                ELSE ctx
      /\ UNCHANGED <<sent, pc, cur, toDevice, toHost, ended>>
  BY DEF DeliverResponse, callerVars, wireVars
<1>2. i \in 1 .. Len(ctx) /\ Home(i) = ch /\ ctx[i].closed = FALSE
  BY <1>1, HeldIsOpen
<1>3. ctx[i].responses = << >>
  <2>1. OneOnTheWay(i) /\ ~NotHeld(i)
    BY <1>1, <1>2 DEF WayInv, NotHeld, Held
  <2>. QED
    BY <2>1 DEF OneOnTheWay, NotQueued
<1>4. HasRoom(i)
  BY <1>3, RpcAssumption DEF HasRoom
<1>5. Append(ctx[i].responses, reader[ch].body) = <<reader[ch].body>>
  BY <1>3
<1>. QED
  BY <1>1, <1>2, <1>3, <1>4, <1>5

LEMMA WayKeptByResponse ==
    ASSUME TypeInv, HomeInv, EndInv, WayInv, NEW ch \in Channels, DeliverResponse(ch)
    PROVE  WayInv'
<1>. DEFINE i0 == reader[ch].ctx
<1>0. ctx \in Seq(ClientContext) /\ reader \in [Channels -> Reader] /\ ReaderIdle.stage = "idle"
  BY DEF TypeInv, TypeOK, ReaderIdle
<1>1. /\ i0 \in 1 .. Len(ctx)
      /\ Home(i0) = ch
      /\ ctx[i0].responses = << >>
      /\ ctx' = [ctx EXCEPT ![i0].responses = <<reader[ch].body>>]
      /\ reader' = [reader EXCEPT ![ch] = ReaderIdle]
      /\ UNCHANGED <<sent, pc, cur, toDevice, toHost, ended>>
      /\ reader[ch].stage = "ClientResponse"
  BY DeliveryQueues DEF DeliverResponse
<1>2. /\ Len(ctx') = Len(ctx)
      /\ \A i \in 1 .. Len(ctx) : Home(i)' = Home(i)
      /\ \A i \in 1 .. Len(ctx) : i # i0 => ctx'[i] = ctx[i]
      /\ ctx'[i0].responses = <<reader[ch].body>>
  <2>1. \A i \in 1 .. Len(ctx) : ctx'[i].channel = ctx[i].channel
    BY <1>0, <1>1
  <2>. QED
    BY <1>0, <1>1, <2>1 DEF Home
<1>. HIDE DEF i0
<1>3. ASSUME NEW i \in 1 .. Len(ctx)
      PROVE  Kept(i)
  <2>1. OneOnTheWay(i) /\ Home(i)' = Home(i) /\ Home(i) \in Channels
    BY <1>2, ContextTyped DEF WayInv
  <2>2. /\ NotAsked(i)' = NotAsked(i)
        /\ AskedOnce(i)' = AskedOnce(i)
        /\ NotAnswered(i)' = NotAnswered(i)
        /\ AnsweredOnce(i)' = AnsweredOnce(i)
    BY <1>1, <2>1 DEF NotAsked, AskedOnce, NotAnswered, AnsweredOnce
  <2>3. HeldOnce(i)' /\ (NotHeld(i) => NotHeld(i)')
    BY <1>0, <1>1, <2>1 DEF HeldOnce, Held, NotHeld, OneOnTheWay
  <2>4. CASE i = i0
    <3>1. ~NotHeld(i) /\ NotHeld(i)' /\ reader[ch].body.n = sent[i]
      BY <1>0, <1>1, <2>1, <2>4 DEF OneOnTheWay, NotHeld, Held, HeldOnce, i0
    <3>2. QueuedOnce(i)'
      BY <1>1, <1>2, <2>4, <3>1 DEF QueuedOnce
    <3>. QED
      BY <2>1, <2>2, <2>3, <3>1, <3>2 DEF OneOnTheWay, Quiet, Kept
  <2>5. CASE i # i0
    <3>1. /\ NotQueued(i) => NotQueued(i)'
          /\ QueuedOnce(i) => QueuedOnce(i)'
      BY <1>1, <1>2, <2>5 DEF NotQueued, QueuedOnce
    <3>. QED
      BY <2>1, <2>2, <2>3, <3>1, ShrinksKeeps DEF Shrinks
  <2>. QED
    BY <2>4, <2>5
<1>. QED
  BY <1>1, <1>2, <1>3, LineStepKeepsWay

LEMMA WayKeptByClose ==
    ASSUME TypeInv, WayInv, NEW ch \in Channels, DeliverFinalize(ch)
    PROVE  WayInv'
<1>. DEFINE i0 == reader[ch].ctx
<1>0. ctx \in Seq(ClientContext) /\ reader \in [Channels -> Reader] /\ ReaderIdle.stage = "idle"
  BY DEF TypeInv, TypeOK, ReaderIdle
<1>1. /\ i0 \in DOMAIN ctx
      /\ ctx' = [ctx EXCEPT ![i0].closed = TRUE]
      /\ reader' = [reader EXCEPT ![ch] = ReaderIdle]
      /\ UNCHANGED <<sent, pc, cur, toDevice, toHost, ended>>
  BY DEF DeliverFinalize, callerVars, wireVars, TypeInv, TypeOK, Allocated
<1>2. /\ Len(ctx') = Len(ctx)
      /\ \A i \in 1 .. Len(ctx) : ctx'[i].responses = ctx[i].responses
      /\ \A i \in 1 .. Len(ctx) : ctx'[i].channel = ctx[i].channel
  BY <1>0, <1>1
<1>3. ASSUME NEW i \in 1 .. Len(ctx)
      PROVE  Kept(i)
  <2>1. OneOnTheWay(i) /\ Home(i)' = Home(i) /\ Home(i) \in Channels
    BY <1>2, ContextTyped DEF WayInv, Home
  <2>2. HeldOnce(i)' /\ (NotHeld(i) => NotHeld(i)')
    BY <1>0, <1>1, <2>1 DEF HeldOnce, Held, NotHeld, OneOnTheWay
  <2>3. Shrinks(i)
    BY <1>1, <1>2, <2>1, <2>2
       DEF Shrinks, NotAsked, AskedOnce, NotAnswered, AnsweredOnce, NotQueued, QueuedOnce
  <2>. QED
    BY <2>1, <2>3, ShrinksKeeps
<1>. QED
  BY <1>1, <1>2, <1>3, LineStepKeepsWay

\* The device carries a request out, refuses it, or loses it.
LEMMA WayKeptByDevice ==
    ASSUME TypeInv, HomeInv, WayInv, NEW ch \in Channels, DeviceStep(ch)
    PROVE  WayInv'
<1>. DEFINE p == Head(toDevice[ch])
            i0 == p.invocation
            r == Reply("ClientResponse", p)
            q == Reply("ClientFinalize", p)
            d == toDevice[ch]
            h == toHost[ch]
<1>0. /\ toDevice \in [Channels -> Seq(Packet(ToDeviceTypes))]
      /\ toHost \in [Channels -> Seq(Packet(ToHostTypes))]
      /\ ended \in [Channels -> SUBSET Nat]
  BY DEF TypeInv, TypeOK
<1>1. /\ d # << >> /\ toDevice' = [toDevice EXCEPT ![ch] = Tail(@)]
      /\ UNCHANGED <<ctx, sent, pc, cur, reader>>
  BY DEF DeviceStep, DeviceAnswers, DeviceFinalizes, DeviceAnswersAndFinalizes, DeviceIgnores,
     contextVars, callerVars
<1>2. /\ r \in Packet(ToHostTypes) /\ r.invocation = i0 /\ r.type = "ClientResponse"
      /\ r.body = p.body
      /\ q \in Packet(ToHostTypes) /\ q.type # "ClientResponse"
  <2>1. p \in Packet(ToDeviceTypes)
    BY <1>0, <1>1, WireTail
  <2>. QED
    BY <2>1, RpcAssumption DEF Reply, Packet, ToHostTypes, NoBody, Body
<1>3. /\ \A k \in Channels : ended[k] \subseteq ended'[k]
      /\ \A k \in Channels : k # ch => ended'[k] = ended[k] /\ toHost'[k] = toHost[k]
      /\ \/ toHost'[ch] = h
         \/ toHost'[ch] = Append(h, q)
         \/ /\ p.type = "ServerRequest"
            /\ i0 \notin ended[ch]
            /\ \/ toHost'[ch] = Append(h, r)
               \/ toHost'[ch] = h \o <<r, q>>
  <2>1. CASE DeviceAnswers(ch)
    BY <1>0, <2>1 DEF DeviceAnswers
  <2>2. CASE DeviceFinalizes(ch)
    BY <1>0, <2>2 DEF DeviceFinalizes
  <2>3. CASE DeviceAnswersAndFinalizes(ch)
    BY <1>0, <2>3 DEF DeviceAnswersAndFinalizes
  <2>4. CASE DeviceIgnores(ch)
    BY <1>0, <2>4 DEF DeviceIgnores
  <2>. QED
    BY <2>1, <2>2, <2>3, <2>4 DEF DeviceStep
<1>4. p = d[1] /\ 1 \in 1 .. Len(d) /\ d \in Seq(Packet(ToDeviceTypes)) /\ h \in Seq(Packet(ToHostTypes))
  BY <1>0, <1>1
<1>5. toDevice'[ch] = Tail(d) /\ \A k \in Channels : k # ch => toDevice'[k] = toDevice[k]
  BY <1>0, <1>1
<1>. HIDE DEF p, i0, r, q, d, h
<1>6. ASSUME NEW i \in 1 .. Len(ctx), Home(i) = ch
      PROVE  Kept(i)
  <2>1. OneOnTheWay(i) /\ Home(i)' = ch
    BY <1>1, <1>6 DEF WayInv, Home
  <2>2. /\ None(d, "ServerRequest", i) => None(Tail(d), "ServerRequest", i)
        /\ Only(d, "ServerRequest", i, sent[i]) => Only(Tail(d), "ServerRequest", i, sent[i])
    BY <1>1, <1>4, TailKeeps
  <2>3. /\ NotAsked(i) => NotAsked(i)'
        /\ AskedOnce(i) => AskedOnce(i)'
    BY <1>1, <1>3, <1>5, <1>6, <2>1, <2>2 DEF NotAsked, AskedOnce, d
  <2>4. /\ NotHeld(i)' = NotHeld(i)
        /\ HeldOnce(i)' = HeldOnce(i)
        /\ NotQueued(i)' = NotQueued(i)
        /\ QueuedOnce(i)' = QueuedOnce(i)
    BY <1>1, <1>6, <2>1 DEF NotHeld, Held, HeldOnce, NotQueued, QueuedOnce
  <2>. DEFINE none(s) == None(s, "ClientResponse", i)
              only(s) == Only(s, "ClientResponse", i, sent[i])
  <2>5. /\ NotAnswered(i) = none(h) /\ AnsweredOnce(i) = only(h)
        /\ NotAnswered(i)' = none(toHost'[ch]) /\ AnsweredOnce(i)' = only(toHost'[ch])
    BY <1>1, <1>6, <2>1 DEF NotAnswered, AnsweredOnce, h
  <2>. HIDE DEF none, only
  <2>6. ASSUME NEW s \in Seq(Packet(ToHostTypes))
        PROVE  (none(s) => none(Append(s, q))) /\ (only(s) => only(Append(s, q)))
    BY <1>2, AppendKeeps DEF none, only
  <2>7. ASSUME i # i0, NEW s \in Seq(Packet(ToHostTypes))
        PROVE  (none(s) => none(Append(s, r))) /\ (only(s) => only(Append(s, r)))
    BY <1>2, <2>7, AppendKeeps DEF none, only
  <2>8. Append(h, r) \in Seq(Packet(ToHostTypes)) /\ h \o <<r, q>> = Append(Append(h, r), q)
    BY <1>2, <1>4, AppendTwo
  <2>9. CASE \/ toHost'[ch] = h
             \/ toHost'[ch] = Append(h, q)
             \/ i # i0
    <3>1. (none(h) => none(toHost'[ch])) /\ (only(h) => only(toHost'[ch]))
      <4>1. CASE toHost'[ch] = h \/ toHost'[ch] = Append(h, q)
        BY <1>4, <2>6, <4>1
      <4>2. CASE i # i0 /\ toHost'[ch] = Append(h, r)
        BY <1>4, <2>7, <4>2
      <4>3. CASE i # i0 /\ toHost'[ch] = h \o <<r, q>>
        BY <1>4, <2>6, <2>7, <2>8, <4>3
      <4>. QED
        BY <1>3, <2>9, <4>1, <4>2, <4>3
    <3>2. Shrinks(i)
      BY <2>3, <2>4, <2>5, <3>1 DEF Shrinks
    <3>. QED
      BY <2>1, <3>2, ShrinksKeeps
  <2>10. CASE /\ i = i0
              /\ p.type = "ServerRequest"
              /\ i0 \notin ended[ch]
              /\ \/ toHost'[ch] = Append(h, r)
                 \/ toHost'[ch] = h \o <<r, q>>
    <3>1. ~NotAsked(i)
      BY <1>4, <1>6, <2>10 DEF NotAsked, None, i0, d
    <3>2. none(h) /\ NotHeld(i) /\ NotQueued(i) /\ AskedOnce(i)
      BY <2>1, <2>5, <3>1 DEF OneOnTheWay
    <3>3. Only(d, "ServerRequest", i, sent[i])
      BY <1>6, <2>10, <3>2 DEF AskedOnce, d
    <3>4. p.body.n = sent[i] /\ None(Tail(d), "ServerRequest", i)
      BY <1>1, <1>4, <2>10, <3>3, HeadIsOnly DEF p, d, i0
    <3>5. NotAsked(i)' /\ AskedOnce(i)'
      BY <1>1, <1>5, <2>1, <3>4, NoneIsOnly DEF NotAsked, AskedOnce
    <3>6. only(Append(h, r))
      BY <1>2, <1>4, <3>2, <3>4, QueueAppend DEF none, only
    <3>7. AnsweredOnce(i)'
      BY <2>5, <2>6, <2>8, <2>10, <3>6
    <3>. QED
      BY <2>1, <2>4, <3>1, <3>2, <3>5, <3>7 DEF OneOnTheWay, Quiet, Kept
  <2>. QED
    BY <1>3, <2>9, <2>10
<1>7. ASSUME NEW i \in 1 .. Len(ctx), Home(i) # ch
      PROVE  Kept(i)
  <2>1. OneOnTheWay(i) /\ Home(i)' = Home(i) /\ Home(i) \in Channels
    BY <1>1, ContextTyped DEF WayInv, Home
  <2>2. Shrinks(i)
    BY <1>1, <1>3, <1>5, <1>7, <2>1, SameShrinks
  <2>. QED
    BY <2>1, <2>2, ShrinksKeeps
<1>. QED
  BY <1>1, <1>6, <1>7, LineStepKeepsWay

Between == {"register", "init", "send", "ready"}

\* Steps of a caller that leave its contexts and the lines as they are: it
\* waits between two requests only if it did before.
LEMMA WayKeptByCaller ==
    ASSUME TypeInv, WayInv, NEW c \in Callers,
           UNCHANGED <<ctx, sent, cur, toDevice, toHost, ended, reader>>,
           pc' = [pc EXCEPT ![c] = pc'[c]],
           pc'[c] \in Between => Quiet(cur[c])
    PROVE  WayInv'
<1>1. \A i : OneOnTheWay(i)' = OneOnTheWay(i) /\ Quiet(i)' = Quiet(i)
  BY DEF OneOnTheWay, Quiet, NotAsked, AskedOnce, NotAnswered, AnsweredOnce, NotHeld, Held,
     HeldOnce, NotQueued, QueuedOnce, Home
<1>2. \A d \in Callers : d # c => pc'[d] = pc[d]
  BY DEF TypeInv, TypeOK
<1>. QED
  BY <1>1, <1>2 DEF WayInv, QuietBetween, Between

LEMMA WayKeptByStillSteps ==
    ASSUME TypeInv, WayInv, NEW c \in Callers,
           \/ Register(c) \/ SendFails(c) \/ Timeout(c) \/ NextSend(c) \/ StopSending(c) \/ Free(c)
    PROVE  WayInv'
<1>. USE DEF Between
<1>1. UNCHANGED <<ctx, sent, cur, toDevice, toHost, ended, reader>>
  BY DEF Register, SendFails, SendNothing, Timeout, NextSend, StopSending, Free, contextVars, wireVars
<1>2. /\ pc' = [pc EXCEPT ![c] = pc'[c]]
      /\ pc'[c] \in Between => pc[c] \in Between
  BY DEF Register, SendFails, Timeout, NextSend, StopSending, Free, AfterError, TypeInv, TypeOK
<1>3. pc[c] \in Between => Quiet(cur[c])
  BY DEF WayInv, QuietBetween
<1>. QED
  BY <1>1, <1>2, <1>3, WayKeptByCaller

\* A call the device ended: of it nothing more can come.
LEMMA WayKeptByReceiveClosed ==
    ASSUME TypeInv, EndInv, WayInv, NEW c \in Callers, ReceiveClosed(c)
    PROVE  WayInv'
<1>1. /\ UNCHANGED <<ctx, sent, cur, toDevice, toHost, ended, reader>>
      /\ ctx[cur[c]].responses = << >> /\ ctx[cur[c]].closed
      /\ pc' = [pc EXCEPT ![c] = AfterReceive(c)]
      /\ pc[c] = "recv"
  BY DEF ReceiveClosed, contextVars, wireVars
<1>2. pc' = [pc EXCEPT ![c] = pc'[c]]
  BY <1>1 DEF TypeInv, TypeOK
<1>3. cur[c] \in 1 .. Len(ctx)
  BY <1>1, LenProperties DEF TypeInv, TypeOK, Allocated
<1>4. ClosedIsOver(cur[c])
  BY <1>3 DEF EndInv
<1>5. Quiet(cur[c])
  BY <1>1, <1>4
     DEF ClosedIsOver, Quiet, NotAsked, NotAnswered, NotHeld, Held, NotQueued, None, Silent
<1>. QED
  BY <1>1, <1>2, <1>5, WayKeptByCaller

\* A new context is not on any line.
LEMMA WayKeptByAllocate ==
    ASSUME TypeInv, HomeInv, WayInv, NEW c \in Callers, NEW ch \in Channels, NEW m \in Methods,
           Allocate(c, ch, m)
    PROVE  WayInv'
<1>. PICK n : n = Len(ctx) + 1
  OBVIOUS
<1>0. /\ Len(ctx) \in Nat
      /\ Len(sent) = Len(ctx)
      /\ UNCHANGED <<toDevice, toHost, ended, reader>>
  BY DEF TypeInv, TypeOK, Allocate, wireVars
<1>1. /\ Len(ctx') = n
      /\ \A i \in 1 .. Len(ctx) : ctx'[i] = ctx[i] /\ sent'[i] = sent[i]
      /\ ctx'[n].responses = << >>
      /\ ctx'[n].channel = ch
  BY DEF Allocate, TypeInv, TypeOK
<1>2. ASSUME NEW i \in 1 .. Len(ctx)
      PROVE  Kept(i)
  <2>1. Home(i)' = Home(i) /\ ctx'[i].responses = ctx[i].responses /\ sent'[i] = sent[i]
    BY <1>1 DEF Home
  <2>2. Shrinks(i)
    BY <1>0, <2>1, SameShrinks
  <2>. QED
    BY <2>2, ShrinksKeeps DEF WayInv
<1>3. Quiet(n)'
  <2>1. Home(n)' = ch /\ n \notin 1 .. Len(ctx)
    BY <1>0, <1>1 DEF Home
  <2>2. reader[ch].stage # "idle" => reader[ch].ctx # n
    <3>1. reader[ch].stage # "idle" => reader[ch].ctx \in 1 .. Len(ctx)
      BY LenProperties DEF TypeInv, TypeOK, Allocated
    <3>. QED
      BY <2>1, <3>1
  <2>3. /\ \A k \in 1 .. Len(toDevice[ch]) : toDevice[ch][k].invocation # n
        /\ \A k \in 1 .. Len(toHost[ch]) : toHost[ch][k].invocation # n
    BY <2>1 DEF HomeInv, WireAtHome, AtHome
  <2>. QED
    BY <1>0, <1>1, <2>1, <2>2, <2>3
       DEF Quiet, NotAsked, NotAnswered, NotHeld, Held, NotQueued, None
<1>4. \A i \in 1 .. Len(ctx') : OneOnTheWay(i)'
  <2>1. OneOnTheWay(n)'
    BY <1>3, QuietIsOne DEF Quiet, OneOnTheWay, NotAsked, AskedOnce, NotAnswered, AnsweredOnce,
       NotHeld, Held, HeldOnce, NotQueued, QueuedOnce, None, Only
  <2>2. \A i \in 1 .. n : i \in 1 .. Len(ctx) \/ i = n
    BY <1>0
  <2>. QED
    BY <1>1, <1>2, <2>1, <2>2 DEF Kept
<1>5. QuietBetween'
  <2>. SUFFICES ASSUME NEW d \in Callers, pc'[d] \in Between
                PROVE  Quiet(cur[d])'
    BY DEF QuietBetween, Between
  <2>1. CASE d = c
    <3>1. cur'[d] = n
      BY <2>1 DEF Allocate, TypeInv, TypeOK
    <3>. QED
      BY <1>3, <3>1
  <2>2. CASE d # c
    <3>1. cur'[d] = cur[d] /\ pc[d] \in Between
      BY <2>2 DEF Allocate, TypeInv, TypeOK
    <3>2. cur[d] \in 1 .. Len(ctx) /\ Quiet(cur[d])
      BY <3>1, LenProperties DEF Between, WayInv, QuietBetween, TypeInv, TypeOK, Allocated
    <3>. QED
      BY <1>2, <3>1, <3>2 DEF Kept
  <2>. QED
    BY <2>1, <2>2
<1>. QED
  BY <1>4, <1>5 DEF WayInv

\* A send for the context of a caller: the initial and the final packet of a
\* stream are no requests, and a request is sent when nothing is on the way.
LEMMA WayKeptBySend ==
    ASSUME TypeInv, InvocationsDistinct, WayInv, NEW c \in Callers,
           SendInitialize(c) \/ SendFinalize(c)
    PROVE  WayInv'
<1>0. /\ toDevice \in [Channels -> Seq(Packet(ToDeviceTypes))]
      /\ cur[c] \in Allocated
      /\ NoBody \in Body
  BY RpcAssumption DEF TypeInv, TypeOK, SendInitialize, SendFinalize, NoBody, Body
<1>1. /\ UNCHANGED <<ctx, sent, cur, toHost, ended, reader>>
      /\ \A d \in Callers : pc'[d] \in Between => pc[d] \in Between
  BY DEF SendInitialize, SendFinalize, contextVars, Between, TypeInv, TypeOK
<1>2. \/ toDevice' = toDevice
      \/ \E p \in Packet(ToDeviceTypes) :
            /\ p.type # "ServerRequest"
            /\ toDevice' = [toDevice EXCEPT ![Home(cur[c])] = Append(@, p)]
  <2>1. CASE SendInitialize(c)
    BY <1>0, <2>1, SendEffect DEF SendInitialize, SendNothing, ToDeviceTypes
  <2>2. CASE SendFinalize(c)
    BY <1>0, <2>2, SendEffect DEF SendFinalize, SendNothing, ToDeviceTypes
  <2>. QED
    BY <2>1, <2>2
<1>3. ASSUME NEW i \in 1 .. Len(ctx)
      PROVE  Kept(i)
  <2>1. /\ OneOnTheWay(i) /\ Home(i)' = Home(i) /\ Home(i) \in Channels
        /\ toDevice[Home(i)] \in Seq(Packet(ToDeviceTypes))
    BY <1>1, ContextTyped DEF WayInv, Home
  <2>2. /\ None(toDevice[Home(i)], "ServerRequest", i) => None(toDevice'[Home(i)], "ServerRequest", i)
        /\ Only(toDevice[Home(i)], "ServerRequest", i, sent[i])
              => Only(toDevice'[Home(i)], "ServerRequest", i, sent[i])
    <3>1. CASE toDevice'[Home(i)] = toDevice[Home(i)]
      BY <3>1
    <3>2. ASSUME NEW p \in Packet(ToDeviceTypes), p.type # "ServerRequest",
                 toDevice'[Home(i)] = Append(toDevice[Home(i)], p)
          PROVE  /\ None(toDevice[Home(i)], "ServerRequest", i)
                       => None(toDevice'[Home(i)], "ServerRequest", i)
                 /\ Only(toDevice[Home(i)], "ServerRequest", i, sent[i])
                       => Only(toDevice'[Home(i)], "ServerRequest", i, sent[i])
      BY <2>1, <3>2, AppendKeeps
    <3>. QED
      BY <1>0, <1>2, <2>1, <3>1, <3>2
  <2>3. Shrinks(i)
    BY <1>1, <2>1, <2>2
       DEF Shrinks, NotAsked, AskedOnce, NotAnswered, AnsweredOnce, NotHeld, Held, HeldOnce,
           NotQueued, QueuedOnce
  <2>. QED
    BY <2>1, <2>3, ShrinksKeeps
<1>4. QuietBetween'
  <2>. SUFFICES ASSUME NEW d \in Callers, pc'[d] \in Between
                PROVE  Quiet(cur[d])'
    BY DEF QuietBetween, Between
  <2>1. cur'[d] = cur[d] /\ pc[d] \in Between
    BY <1>1
  <2>2. cur[d] \in 1 .. Len(ctx) /\ Quiet(cur[d])
    BY <2>1, LenProperties DEF Between, WayInv, QuietBetween, TypeInv, TypeOK, Allocated
  <2>. QED
    BY <1>3, <2>1, <2>2 DEF Kept
<1>. QED
  BY <1>1, <1>3, <1>4 DEF WayInv, Kept

LEMMA WayKeptByRequest ==
    ASSUME TypeInv, InvocationsDistinct, WayInv, NEW c \in Callers, SendRequest(c)
    PROVE  WayInv'
<1>. PICK i0 : i0 = cur[c]
  OBVIOUS
<1>0. /\ toDevice \in [Channels -> Seq(Packet(ToDeviceTypes))]
      /\ i0 \in Allocated /\ i0 \in 1 .. Len(ctx) /\ Len(ctx) = Len(sent)
      /\ sent \in Seq(0 .. MaxSends)
  BY LenProperties DEF TypeInv, TypeOK, SendRequest, Allocated
<1>1. /\ pc[c] = "send" /\ pc'[c] = "recv"
      /\ UNCHANGED <<ctx, cur, toHost, ended, reader>>
      /\ \A d \in Callers : d # c => pc'[d] = pc[d]
      /\ sent' = [sent EXCEPT ![i0] = sent[i0] + 1]
      /\ SendPacket(c, "ServerRequest", [of |-> i0, n |-> sent[i0] + 1])
  BY DEF SendRequest, TypeInv, TypeOK
<1>2. /\ sent'[i0] = sent[i0] + 1
      /\ \A i \in 1 .. Len(ctx) : i # i0 => sent'[i] = sent[i]
  BY <1>0, <1>1
<1>3. [of |-> i0, n |-> sent[i0] + 1] \in Body
  <2>1. sent[i0] \in 0 .. MaxSends
    BY <1>0, ElementOfSeq
  <2>2. sent[i0] < MaxSends
    BY <1>1 DEF TypeInv, SendBound
  <2>3. i0 \in 0 .. MaxCalls
    BY <1>0, RpcAssumption DEF TypeInv, TypeOK
  <2>. QED
    BY <2>1, <2>2, <2>3, RpcAssumption DEF Body
<1>4. PICK p \in Packet(ToDeviceTypes) :
          /\ p.invocation = i0
          /\ p.body.n = sent'[i0]
          /\ toDevice' = [toDevice EXCEPT ![Home(i0)] = Append(@, p)]
  BY <1>0, <1>1, <1>2, <1>3, SendEffect DEF ToDeviceTypes
<1>5. Quiet(i0)
  BY <1>1 DEF WayInv, QuietBetween
<1>6. ASSUME NEW i \in 1 .. Len(ctx), i # i0
      PROVE  Kept(i)
  <2>1. /\ OneOnTheWay(i) /\ Home(i)' = Home(i) /\ Home(i) \in Channels
        /\ toDevice[Home(i)] \in Seq(Packet(ToDeviceTypes))
    BY <1>1, ContextTyped DEF WayInv, Home
  <2>2. /\ None(toDevice[Home(i)], "ServerRequest", i) => None(toDevice'[Home(i)], "ServerRequest", i)
        /\ Only(toDevice[Home(i)], "ServerRequest", i, sent[i])
              => Only(toDevice'[Home(i)], "ServerRequest", i, sent[i])
    <3>1. toDevice'[Home(i)] = toDevice[Home(i)] \/ toDevice'[Home(i)] = Append(toDevice[Home(i)], p)
      BY <1>0, <1>4, <2>1
    <3>. QED
      BY <1>4, <1>6, <2>1, <3>1, AppendKeeps
  <2>3. Shrinks(i)
    BY <1>1, <1>2, <1>6, <2>1, <2>2
       DEF Shrinks, NotAsked, AskedOnce, NotAnswered, AnsweredOnce, NotHeld, Held, HeldOnce,
           NotQueued, QueuedOnce
  <2>. QED
    BY <2>1, <2>3, ShrinksKeeps
<1>7. OneOnTheWay(i0)'
  <2>1. /\ Home(i0)' = Home(i0) /\ Home(i0) \in Channels
        /\ toDevice[Home(i0)] \in Seq(Packet(ToDeviceTypes))
    BY <1>0, <1>1, ContextTyped DEF Home
  <2>2. NotAnswered(i0)' /\ NotHeld(i0)' /\ NotQueued(i0)'
    BY <1>1, <1>5, <2>1 DEF Quiet, NotAnswered, NotHeld, Held, NotQueued
  <2>3. AnsweredOnce(i0)' /\ HeldOnce(i0)' /\ QueuedOnce(i0)'
    BY <2>2, NoneIsOnly DEF NotAnswered, AnsweredOnce, NotHeld, HeldOnce, NotQueued, QueuedOnce
  <2>4. AskedOnce(i0)'
    <3>1. None(toDevice[Home(i0)], "ServerRequest", i0)
              => Only(Append(toDevice[Home(i0)], p), "ServerRequest", i0, sent'[i0])
      BY <1>4, <2>1, QueueAppend
    <3>2. toDevice'[Home(i0)] = Append(toDevice[Home(i0)], p)
      BY <1>0, <1>4, <2>1
    <3>. QED
      BY <1>1, <1>5, <2>1, <3>1, <3>2 DEF Quiet, NotAsked, AskedOnce
  <2>. QED
    BY <2>2, <2>3, <2>4 DEF OneOnTheWay
<1>8. QuietBetween'
  <2>. SUFFICES ASSUME NEW d \in Callers, pc'[d] \in Between
                PROVE  Quiet(cur[d])'
    BY DEF QuietBetween, Between
  <2>1. d # c /\ cur'[d] = cur[d] /\ pc[d] \in Between
    BY <1>1 DEF Between
  <2>2. cur[d] # i0
    BY <1>1, <2>1 DEF TypeInv, Ownership, Between
  <2>3. cur[d] \in 1 .. Len(ctx) /\ Quiet(cur[d])
    BY <2>1, LenProperties DEF Between, WayInv, QuietBetween, TypeInv, TypeOK, Allocated
  <2>. QED
    BY <1>6, <2>1, <2>2, <2>3 DEF Kept
<1>. QED
  BY <1>1, <1>6, <1>7, <1>8 DEF WayInv, Kept

\* The answer received was the only thing on the way.
LEMMA WayKeptByReceive ==
    ASSUME TypeInv, WayInv, NEW c \in Callers, ReceiveResponse(c)
    PROVE  WayInv'
<1>. PICK i0 : i0 = cur[c]
  OBVIOUS
<1>0. ctx \in Seq(ClientContext) /\ i0 \in 1 .. Len(ctx)
  BY LenProperties DEF TypeInv, TypeOK, ReceiveResponse, Allocated
<1>1. /\ pc[c] = "recv"
      /\ ctx[i0].responses # << >>
      /\ ctx' = [ctx EXCEPT ![i0].responses = Tail(@)]
      /\ UNCHANGED <<sent, cur, toDevice, toHost, ended, reader>>
      /\ \A d \in Callers : d # c => pc'[d] = pc[d]
  BY DEF ReceiveResponse, TypeInv, TypeOK, wireVars
<1>2. /\ Len(ctx') = Len(ctx)
      /\ \A i \in 1 .. Len(ctx) : ctx'[i].channel = ctx[i].channel
      /\ \A i \in 1 .. Len(ctx) : i # i0 => ctx'[i] = ctx[i]
      /\ ctx'[i0].responses = Tail(ctx[i0].responses)
  BY <1>0, <1>1
<1>3. ASSUME NEW i \in 1 .. Len(ctx), i # i0
      PROVE  Kept(i)
  <2>1. OneOnTheWay(i) /\ Home(i)' = Home(i)
    BY <1>2 DEF WayInv, Home
  <2>2. Shrinks(i)
    BY <1>1, <1>2, <1>3, <2>1, SameShrinks
  <2>. QED
    BY <2>1, <2>2, ShrinksKeeps
<1>4. Quiet(i0)'
  <2>1. OneOnTheWay(i0) /\ ~NotQueued(i0) /\ Home(i0)' = Home(i0)
    BY <1>0, <1>1, <1>2 DEF WayInv, NotQueued, Home
  <2>2. NotAsked(i0) /\ NotAnswered(i0) /\ NotHeld(i0) /\ Len(ctx[i0].responses) = 1
    BY <2>1 DEF OneOnTheWay, NotQueued, QueuedOnce
  <2>3. Tail(ctx[i0].responses) = << >>
    <3>1. ctx[i0].responses \in Seq(Body)
      BY <1>0, ContextTyped
    <3>2. Tail(ctx[i0].responses) \in Seq(Body) /\ Len(Tail(ctx[i0].responses)) = 0
      BY <1>1, <2>2, <3>1, HeadTailProperties
    <3>. QED
      BY <3>2, EmptySeq
  <2>. QED
    BY <1>1, <1>2, <2>1, <2>2, <2>3 DEF Quiet, NotAsked, NotAnswered, NotHeld, Held, NotQueued
<1>5. OneOnTheWay(i0)'
  BY <1>4, NoneIsOnly DEF Quiet, OneOnTheWay, NotAsked, AskedOnce, NotAnswered, AnsweredOnce,
     NotHeld, HeldOnce, NotQueued, QueuedOnce
<1>6. QuietBetween'
  <2>. SUFFICES ASSUME NEW d \in Callers, pc'[d] \in Between
                PROVE  Quiet(cur[d])'
    BY DEF QuietBetween, Between
  <2>1. CASE d = c
    BY <1>1, <1>4, <2>1
  <2>2. CASE d # c
    <3>1. cur'[d] = cur[d] /\ pc[d] \in Between
      BY <1>1, <2>2
    <3>2. cur[d] # i0
      BY <1>1, <2>2, <3>1 DEF TypeInv, Ownership, Between
    <3>3. cur[d] \in 1 .. Len(ctx) /\ Quiet(cur[d])
      BY <3>1, LenProperties DEF Between, WayInv, QuietBetween, TypeInv, TypeOK, Allocated
    <3>. QED
      BY <1>3, <3>1, <3>2, <3>3 DEF Kept
  <2>. QED
    BY <2>1, <2>2
<1>. QED
  BY <1>2, <1>3, <1>5, <1>6 DEF WayInv, Kept

LEMMA WayInductive ==
    ASSUME TypeInv, InvocationsDistinct, HomeInv, EndInv, WayInv, Next
    PROVE  WayInv'
<1>1. ASSUME NEW ch \in Channels, CloseChannel(ch) \/ OpenChannel(ch)
      PROVE  WayInv'
  <2>1. UNCHANGED <<ctx, sent, pc, cur, toDevice, toHost, ended, reader>>
    BY <1>1 DEF CloseChannel, OpenChannel, contextVars, callerVars, wireVars
  <2>2. ASSUME NEW i \in 1 .. Len(ctx)
        PROVE  Kept(i)
    <3>1. Shrinks(i)
      BY <2>1, SameShrinks DEF Home
    <3>. QED
      BY <3>1, ShrinksKeeps DEF WayInv
  <2>. QED
    BY <2>1, <2>2, LineStepKeepsWay
<1>2. ASSUME NEW c \in Callers, NEW ch \in Channels, NEW m \in Methods, Allocate(c, ch, m)
      PROVE  WayInv'
  BY <1>2, WayKeptByAllocate
<1>3. ASSUME NEW c \in Callers,
             \/ Register(c) \/ SendInitialize(c) \/ SendRequest(c)
             \/ SendFails(c) \/ ReceiveResponse(c) \/ ReceiveClosed(c)
             \/ Timeout(c) \/ NextSend(c) \/ StopSending(c)
             \/ SendFinalize(c) \/ Free(c)
      PROVE  WayInv'
  BY <1>3, WayKeptByStillSteps, WayKeptBySend, WayKeptByRequest, WayKeptByReceive,
     WayKeptByReceiveClosed
<1>4. ASSUME NEW ch \in Channels,
             \/ ReceiveDamaged(ch) \/ FindContext(ch) \/ DeliverResponse(ch)
             \/ DeliverFinalize(ch) \/ DeviceStep(ch)
      PROVE  WayInv'
  BY <1>4, WayKeptByDrop, WayKeptByLookup, WayKeptByResponse, WayKeptByClose, WayKeptByDevice
<1>. QED
  BY <1>1, <1>2, <1>3, <1>4, NextCases

-----------------------------------------------------------------------------
(* A step of Rpc is a step of CallService or changes nothing of it.        *)

LEMMA WrittenKept ==
    ASSUME TypeInv, \A i \in 1 .. Len(ctx) : sent'[i] = sent[i],
           DOMAIN ctx' = 1 .. Len(ctx')
           /\ \A i \in 1 .. Len(ctx') : i \in 1 .. Len(ctx) \/ sent'[i] = 0,
           \A i \in 1 .. Len(ctx) : i \in 1 .. Len(ctx')
    PROVE  Written' = Written
<1>1. DOMAIN ctx = 1 .. Len(ctx)
  BY LenProperties DEF TypeInv, TypeOK
<1>. QED
  BY <1>1 DEF Written, Allocated

\* What the callers wait for, at a step of one of them.
LEMMA WaitingKept ==
    ASSUME TypeInv, NEW c \in Callers, \A i \in 1 .. Len(ctx) : sent'[i] = sent[i],
           \A d \in Callers : d # c => pc'[d] = pc[d] /\ cur'[d] = cur[d],
           pc'[c] # "recv"
    PROVE  /\ [d \in Callers |-> Outstanding(d)]'
                  = [[d \in Callers |-> Outstanding(d)] EXCEPT ![c] = NoBody]
           /\ pc[c] # "recv" =>
                 UNCHANGED [d \in Callers |-> Outstanding(d)]
<1>1. \A d \in Callers : pc[d] = "recv" => cur[d] \in 1 .. Len(ctx)
  BY LenProperties DEF TypeInv, TypeOK, Allocated
<1>2. \A d \in Callers : d # c => Outstanding(d)' = Outstanding(d)
  BY <1>1 DEF Outstanding
<1>3. Outstanding(c)' = NoBody /\ (pc[c] # "recv" => Outstanding(c) = NoBody)
  BY DEF Outstanding
<1>. QED
  BY <1>2, <1>3

\* The initial states agree.
LEMMA ServiceInit == Init => Service!Init
<1>. SUFFICES ASSUME Init
              PROVE  Service!Init
  OBVIOUS
<1>1. \A c \in Callers : Outstanding(c) = NoBody
  BY DEF Init, Outstanding
<1>2. Written = {}
  BY DEF Init, Written, Allocated
<1>. QED
  BY <1>1, <1>2 DEF Init, NoOutcome, Service!Init, Service!NoOutcome

\* Steps that neither make nor end a request.
LEMMA ServiceStutters ==
    ASSUME TypeInv, UNCHANGED <<sent, cur, outcome>>, DOMAIN ctx' = DOMAIN ctx,
           \A c \in Callers : pc'[c] = "recv" <=> pc[c] = "recv"
    PROVE  UNCHANGED Service!vars
<1>1. \A c \in Callers : Outstanding(c)' = Outstanding(c)
  BY DEF Outstanding
<1>2. Written' = Written
  BY DEF Written, Allocated
<1>. QED
  BY <1>1, <1>2 DEF Service!vars

LEMMA ServiceBegins ==
    ASSUME TypeInv, NEW c \in Callers, NEW ch \in Channels, NEW m \in Methods, Allocate(c, ch, m)
    PROVE  Service!Next
<1>1. /\ Len(ctx) \in Nat /\ Len(sent) = Len(ctx)
      /\ DOMAIN ctx' = 1 .. Len(ctx) + 1 /\ Len(ctx') = Len(ctx) + 1
      /\ sent'[Len(ctx) + 1] = 0
      /\ \A i \in 1 .. Len(ctx) : sent'[i] = sent[i]
  BY DEF Allocate, TypeInv, TypeOK
<1>2. /\ pc[c] # "recv" /\ pc'[c] # "recv"
      /\ \A d \in Callers : d # c => pc'[d] = pc[d] /\ cur'[d] = cur[d]
      /\ outcome' = [outcome EXCEPT ![c] = NoOutcome]
  BY DEF Allocate, TypeInv, TypeOK
<1>3. UNCHANGED [d \in Callers |-> Outstanding(d)]
  BY <1>1, <1>2, WaitingKept
<1>4. Written' = Written
  <2>1. \A i \in 1 .. Len(ctx) + 1 : i \in 1 .. Len(ctx) \/ i = Len(ctx) + 1
    BY <1>1
  <2>. QED
    BY <1>1, <2>1, WrittenKept
<1>5. Outstanding(c) = NoBody
  BY <1>2 DEF Outstanding
<1>6. Service!Begin(c)
  BY <1>2, <1>3, <1>4, <1>5 DEF Service!Begin, Service!NoOutcome, NoOutcome
<1>. QED
  BY <1>6 DEF Service!Next

\* The request written is one that no call has made before.
LEMMA ServiceAsks ==
    ASSUME TypeInv, NEW c \in Callers, SendRequest(c)
    PROVE  Service!Next
<1>. PICK i0 : i0 = cur[c]
  OBVIOUS
<1>0. i0 \in DOMAIN ctx /\ DOMAIN ctx = 1 .. Len(ctx) /\ Len(sent) = Len(ctx)
  BY LenProperties DEF TypeInv, TypeOK, SendRequest, Allocated
<1>1. /\ pc[c] = "send" /\ pc'[c] = "recv"
      /\ UNCHANGED <<ctx, cur>>
      /\ \A d \in Callers : d # c => pc'[d] = pc[d]
      /\ sent' = [sent EXCEPT ![i0] = sent[i0] + 1]
      /\ outcome' = [outcome EXCEPT ![c] = NoOutcome]
  BY DEF SendRequest, TypeInv, TypeOK
<1>2. /\ sent'[i0] = sent[i0] + 1
      /\ \A i \in 1 .. Len(ctx) : i # i0 => sent'[i] = sent[i]
  BY <1>0, <1>1 DEF TypeInv, TypeOK
<1>3. sent[i0] \in 0 .. MaxSends /\ sent[i0] < MaxSends /\ i0 \in 1 .. MaxCalls
  <2>1. sent[i0] \in 0 .. MaxSends
    BY <1>0, ElementOfSeq DEF TypeInv, TypeOK
  <2>2. sent[i0] < MaxSends
    BY <1>1 DEF TypeInv, SendBound
  <2>3. i0 \in 1 .. MaxCalls
    BY <1>0, LenProperties, RpcAssumption DEF TypeInv, TypeOK
  <2>. QED
    BY <2>1, <2>2, <2>3
<1>. DEFINE r == [of |-> i0, n |-> sent[i0] + 1]
<1>4. r \in Body /\ r # NoBody /\ r \notin Written
  BY <1>0, <1>3, RpcAssumption DEF Body, NoBody, Written
<1>5. Written' = Written \cup {r}
  <2>1. Written' \subseteq Written \cup {r}
    <3>. SUFFICES ASSUME NEW b \in Body, b.of \in DOMAIN ctx, b.n \in 1 .. sent'[b.of], b # r
                  PROVE  b.n \in 1 .. sent[b.of]
      BY <1>1 DEF Written, Allocated
    <3>1. CASE b.of # i0
      BY <1>0, <1>2, <3>1
    <3>2. CASE b.of = i0
      <4>1. b.n # sent[i0] + 1
        BY <3>2 DEF Body
      <4>. QED
        BY <1>2, <1>3, <3>2, <4>1
    <3>. QED
      BY <3>1, <3>2
  <2>2. Written \subseteq Written'
    <3>. SUFFICES ASSUME NEW b \in Body, b.of \in DOMAIN ctx, b.n \in 1 .. sent[b.of]
                  PROVE  b.n \in 1 .. sent'[b.of]
      BY <1>1 DEF Written, Allocated
    <3>1. CASE b.of # i0
      BY <1>0, <1>2, <3>1
    <3>2. CASE b.of = i0
      BY <1>2, <1>3, <3>2
    <3>. QED
      BY <3>1, <3>2
  <2>3. r \in Written'
    BY <1>0, <1>1, <1>2, <1>3, <1>4 DEF Written, Allocated
  <2>. QED
    BY <2>1, <2>2, <2>3
<1>6. \A d \in Callers : d # c => Outstanding(d)' = Outstanding(d)
  <2>. SUFFICES ASSUME NEW d \in Callers, d # c, pc[d] = "recv"
                PROVE  sent'[cur[d]] = sent[cur[d]]
    BY <1>1 DEF Outstanding
  <2>1. cur[d] # i0 /\ cur[d] \in DOMAIN ctx
    BY <1>1 DEF TypeInv, TypeOK, Ownership, Allocated
  <2>. QED
    BY <1>0, <1>2, <2>1
<1>7. Outstanding(c) = NoBody /\ Outstanding(c)' = r
  BY <1>1, <1>2 DEF Outstanding
<1>. HIDE DEF r
<1>8. [d \in Callers |-> Outstanding(d)]' = [[d \in Callers |-> Outstanding(d)] EXCEPT ![c] = r]
  BY <1>6, <1>7
<1>9. Service!Ask(c)
  BY <1>1, <1>4, <1>5, <1>7, <1>8 DEF Service!Ask, Service!NoOutcome, NoOutcome
<1>. QED
  BY <1>9 DEF Service!Next

LEMMA ServiceCannotAsk ==
    ASSUME TypeInv, NEW c \in Callers, SendFails(c)
    PROVE  Service!Next
<1>1. /\ UNCHANGED <<ctx, sent, cur>>
      /\ pc[c] # "recv" /\ pc'[c] # "recv"
      /\ \A d \in Callers : d # c => pc'[d] = pc[d]
      /\ outcome' = [outcome EXCEPT ![c] = Failed("senderr")]
  BY DEF SendFails, AfterError, contextVars, TypeInv, TypeOK
<1>2. UNCHANGED [d \in Callers |-> Outstanding(d)] /\ Outstanding(c) = NoBody
  BY <1>1, WaitingKept DEF Outstanding
<1>3. Written' = Written
  BY <1>1 DEF Written, Allocated
<1>4. Service!CannotAsk(c)
  BY <1>1, <1>2, <1>3 DEF Service!CannotAsk, Service!Failed, Failed
<1>. QED
  BY <1>4 DEF Service!Next

\* A request that was outstanding is over.
LEMMA ServiceOver ==
    ASSUME TypeInv, NEW c \in Callers, pc[c] = "recv", pc'[c] # "recv",
           UNCHANGED <<sent, cur>>, DOMAIN ctx' = DOMAIN ctx,
           \A d \in Callers : d # c => pc'[d] = pc[d]
    PROVE  /\ Service!Over(c)
           /\ Outstanding(c) = [of |-> cur[c], n |-> sent[cur[c]]]
<1>1. Outstanding(c) = [of |-> cur[c], n |-> sent[cur[c]]]
  BY DEF Outstanding
<1>2. Outstanding(c) # NoBody
  <2>1. cur[c] # 0
    <3>1. cur[c] \in 1 .. Len(ctx)
      BY LenProperties DEF TypeInv, TypeOK, Allocated
    <3>. QED
      BY <3>1
  <2>. QED
    BY <1>1, <2>1 DEF NoBody
<1>3. [d \in Callers |-> Outstanding(d)]'
          = [[d \in Callers |-> Outstanding(d)] EXCEPT ![c] = NoBody]
  BY WaitingKept
<1>4. Written' = Written
  BY DEF Written, Allocated
<1>. QED
  BY <1>1, <1>2, <1>3, <1>4 DEF Service!Over

\* The answer received is that of the last request of the call.
LEMMA ServiceAnswers ==
    ASSUME TypeInv, ResponsesTruthful, WayInv, NEW c \in Callers, ReceiveResponse(c)
    PROVE  Service!Next
<1>. PICK i0 : i0 = cur[c]
  OBVIOUS
<1>0. /\ ctx \in Seq(ClientContext) /\ i0 \in 1 .. Len(ctx)
      /\ ctx[i0].responses \in Seq(Body) /\ ctx[i0].responses # << >>
  BY LenProperties, ContextTyped DEF TypeInv, TypeOK, ReceiveResponse, Allocated
<1>. DEFINE b == ctx[i0].responses[1]
<1>1. b \in Body /\ b.of = i0 /\ b.n = sent[i0] /\ b = Head(ctx[i0].responses)
  <2>1. 1 \in 1 .. Len(ctx[i0].responses) /\ b = Head(ctx[i0].responses)
    BY <1>0
  <2>2. b \in Body
    BY <1>0, <2>1, ElementOfSeq
  <2>3. b.of = i0
    BY <1>0, <2>1 DEF ResponsesTruthful
  <2>4. QueuedOnce(i0)
    BY <1>0 DEF WayInv, OneOnTheWay
  <2>. QED
    BY <1>0, <2>1, <2>2, <2>3, <2>4 DEF QueuedOnce
<1>2. b = [of |-> cur[c], n |-> sent[cur[c]]]
  BY <1>1 DEF Body
<1>3. /\ pc[c] = "recv" /\ pc'[c] # "recv"
      /\ UNCHANGED <<sent, cur>>
      /\ ctx' = [ctx EXCEPT ![i0].responses = Tail(@)]
      /\ \A d \in Callers : d # c => pc'[d] = pc[d]
      /\ outcome' = [outcome EXCEPT ![c] = [kind |-> "answer", body |-> Head(ctx[i0].responses)]]
  BY DEF ReceiveResponse, AfterReceive, TypeInv, TypeOK
<1>4. DOMAIN ctx' = DOMAIN ctx
  BY <1>3
<1>5. Service!Over(c) /\ Outstanding(c) = b
  BY <1>2, <1>3, <1>4, ServiceOver
<1>. HIDE DEF b
<1>6. Service!Answer(c)
  BY <1>1, <1>3, <1>5 DEF Service!Answer
<1>. QED
  BY <1>6 DEF Service!Next

LEMMA ServiceDoesNotAnswer ==
    ASSUME TypeInv, NEW c \in Callers, ReceiveClosed(c) \/ Timeout(c)
    PROVE  Service!Next
<1>1. /\ pc[c] = "recv" /\ pc'[c] # "recv"
      /\ UNCHANGED <<ctx, sent, cur>>
      /\ \A d \in Callers : d # c => pc'[d] = pc[d]
      /\ \E kind \in {"closed", "timeout"} : outcome' = [outcome EXCEPT ![c] = Failed(kind)]
  BY DEF ReceiveClosed, Timeout, AfterReceive, AfterError, contextVars, TypeInv, TypeOK
<1>2. Service!Over(c)
  BY <1>1, ServiceOver
<1>3. Service!NoAnswer(c)
  BY <1>1, <1>2 DEF Service!NoAnswer, Service!Failed, Failed
<1>. QED
  BY <1>3 DEF Service!Next

LEMMA ServiceStep ==
    ASSUME TypeInv, OwnInv, CallInv, Next
    PROVE  Service!Next \/ UNCHANGED Service!vars
<1>1. ASSUME NEW c \in Callers,
             \/ Register(c) \/ SendInitialize(c) \/ NextSend(c) \/ StopSending(c)
             \/ SendFinalize(c) \/ Free(c)
      PROVE  UNCHANGED Service!vars
  <2>1. UNCHANGED <<ctx, sent, cur, outcome>>
    BY <1>1 DEF Register, SendInitialize, NextSend, StopSending, SendFinalize, Free, contextVars
  <2>2. \A d \in Callers : pc'[d] = "recv" <=> pc[d] = "recv"
    BY <1>1 DEF Register, SendInitialize, NextSend, StopSending, SendFinalize, Free, TypeInv, TypeOK
  <2>. QED
    BY <2>1, <2>2, ServiceStutters
<1>2. ASSUME NEW ch \in Channels,
             \/ ReceiveDamaged(ch) \/ FindContext(ch) \/ DeliverResponse(ch) \/ DeliverFinalize(ch)
             \/ CloseChannel(ch) \/ OpenChannel(ch) \/ DeviceStep(ch)
      PROVE  UNCHANGED Service!vars
  <2>1. UNCHANGED <<sent, pc, cur, outcome>>
    BY <1>2 DEF ReceiveDamaged, FindContext, DeliverResponse, DeliverFinalize, CloseChannel,
       OpenChannel, DeviceStep, DeviceAnswers, DeviceFinalizes, DeviceAnswersAndFinalizes,
       DeviceIgnores, contextVars, callerVars
  <2>2. DOMAIN ctx' = DOMAIN ctx
    <3>1. CASE DeliverResponse(ch)
      BY <3>1 DEF DeliverResponse
    <3>2. CASE DeliverFinalize(ch)
      BY <3>2 DEF DeliverFinalize
    <3>3. CASE \/ ReceiveDamaged(ch) \/ FindContext(ch)
               \/ CloseChannel(ch) \/ OpenChannel(ch) \/ DeviceStep(ch)
      BY <3>3 DEF ReceiveDamaged, FindContext, CloseChannel, OpenChannel, DeviceStep,
         DeviceAnswers, DeviceFinalizes, DeviceAnswersAndFinalizes, DeviceIgnores, contextVars
    <3>. QED
      BY <1>2, <3>1, <3>2, <3>3
  <2>. QED
    BY <2>1, <2>2, ServiceStutters
<1>. QED
  BY <1>1, <1>2, ServiceBegins, ServiceAsks, ServiceCannotAsk, ServiceAnswers,
     ServiceDoesNotAnswer, NextCases DEF OwnInv, CallInv

-----------------------------------------------------------------------------
(* The theorems.                                                           *)

\* One request or answer of each context on the way, on its own channel, and
\* nothing after the end of a call: the state of the layer as a whole.
LEMMA CallInvariant == Spec => []CallInv
<1>1. ASSUME Init
      PROVE  CallInv
  <2>1. HomeInv
    BY <1>1 DEF Init, HomeInv, WireAtHome, ReaderIdle
  <2>2. EndInv
    BY <1>1 DEF Init, EndInv, EndOfLine, FinalizeLast, FinalizeEnded, ReaderIdle
  <2>3. WayInv
    BY <1>1 DEF Init, WayInv, QuietBetween
  <2>. QED
    BY <2>1, <2>2, <2>3 DEF CallInv
<1>2. TypeInv /\ OwnInv /\ CallInv /\ [Next]_vars => CallInv'
  <2>. SUFFICES ASSUME TypeInv, OwnInv, CallInv, [Next]_vars
                PROVE  CallInv'
    OBVIOUS
  <2>1. CASE UNCHANGED vars
    <3>1. HomeInv'
      BY <2>1 DEF vars, CallInv, HomeInv, WireAtHome, AtHome
    <3>2. EndInv'
      BY <2>1 DEF vars, CallInv, EndInv, EndOfLine, ClosedIsOver, Home
    <3>3. WayInv'
      BY <2>1 DEF vars, CallInv, WayInv, QuietBetween, OneOnTheWay, Quiet, NotAsked, AskedOnce,
         NotAnswered, AnsweredOnce, NotHeld, Held, HeldOnce, NotQueued, QueuedOnce, Home
    <3>. QED
      BY <3>1, <3>2, <3>3 DEF CallInv
  <2>2. CASE Next
    BY <2>2, HomeInductive, EndInductive, WayInductive DEF CallInv, OwnInv
  <2>. QED
    BY <2>1, <2>2
<1>. QED
  BY <1>1, <1>2, TypeInvariant, OwnInvariant, PTL DEF Spec

\* No handler sends on a ResponseCh that is closed, or closes one twice: the
\* device ends a call once, and its packets keep their order.
THEOREM NoHandlerPanics == Spec => []NoPanic
<1>1. CallInv => NoPanic
  BY DEF CallInv, EndInv, NoPanic
<1>. QED
  BY <1>1, CallInvariant, PTL

\* handleClientResponse drops no answer, however small the capacity of
\* ResponseCh: there is never a second answer of a call for which a first one
\* could take the room.
THEOREM NoAnswerDropped == Spec => NoAnswerLost
<1>. DEFINE Delivered ==
         \A ch \in Channels :
             LET i == reader[ch].ctx
             IN  /\ reader[ch].stage = "ClientResponse"
                 /\ reader'[ch].stage = "idle"
                 /\ i \in clientContexts
                 => \/ panicked'
                    \/ Len(ctx'[i].responses) = Len(ctx[i].responses) + 1
<1>1. ASSUME TypeInv, CallInv, Next
      PROVE  Delivered
  <2>. SUFFICES ASSUME NEW ch \in Channels, reader[ch].stage = "ClientResponse",
                       reader'[ch].stage = "idle"
                PROVE  Len(ctx'[reader[ch].ctx].responses) = Len(ctx[reader[ch].ctx].responses) + 1
    OBVIOUS
  <2>1. ASSUME NEW d \in Channels, FindContext(d) \/ DeliverResponse(d) \/ DeliverFinalize(d)
        PROVE  d = ch /\ DeliverResponse(ch)
    <3>1. reader[d].stage # "idle" \/ FindContext(d)
      BY <2>1 DEF DeliverResponse, DeliverFinalize
    <3>2. \A e \in Channels : e # d => reader'[e] = reader[e]
      BY <1>1, <2>1 DEF FindContext, DeliverResponse, DeliverFinalize, TypeInv, TypeOK
    <3>3. d = ch
      BY <3>2
    <3>. QED
      BY <2>1, <3>3 DEF FindContext, DeliverFinalize
  <2>2. DeliverResponse(ch)
    BY <1>1, <2>1, ReaderSteps
  <2>3. /\ reader[ch].ctx \in 1 .. Len(ctx)
        /\ ctx[reader[ch].ctx].responses = << >>
        /\ ctx' = [ctx EXCEPT ![reader[ch].ctx].responses = <<reader[ch].body>>]
    BY <1>1, <2>2, DeliveryQueues DEF CallInv
  <2>4. ctx'[reader[ch].ctx].responses = <<reader[ch].body>>
    BY <1>1, <2>3 DEF TypeInv, TypeOK
  <2>. QED
    BY <2>3, <2>4
<1>2. TypeInv /\ CallInv /\ [Next]_vars => [Delivered]_vars
  BY <1>1
<1>. QED
  BY <1>2, TypeInvariant, CallInvariant, PTL DEF Spec, NoAnswerLost

\* The RPC layer implements what CallService promises: each answer, closed
\* call and timeout goes to the request its caller waits for, once, whatever
\* is lost, and however calls, handlers, devices and reopened ports interleave.
THEOREM ImplementsCallService == Spec => CallServiceSpec
<1>1. TypeInv /\ OwnInv /\ CallInv /\ [Next]_vars => [Service!Next]_(Service!vars)
  <2>1. CASE UNCHANGED vars
    <3>1. UNCHANGED Service!vars
      BY <2>1 DEF vars, Service!vars, Outstanding, Written, Allocated
    <3>. QED
      BY <3>1
  <2>. QED
    BY <2>1, ServiceStep
<1>. QED
  BY <1>1, ServiceInit, TypeInvariant, OwnInvariant, CallInvariant, PTL
     DEF Spec, CallServiceSpec, Service!Spec

=============================================================================
