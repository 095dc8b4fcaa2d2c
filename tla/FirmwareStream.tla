--------------------------- MODULE FirmwareStream ---------------------------
(***************************************************************************)
(* Commander.WriteFirmware (internal/device/commander.go): one firmware    *)
(* image written over one streaming call, as                               *)
(*     open, chunk 1, ..., chunk Chunks, close                             *)
(* with a wait for a response after each request.                          *)
(*                                                                         *)
(* The call has its own context (module Rpc shows that only answers to its *)
(* own requests reach it), so the model keeps just that context's          *)
(* ResponseCh, the line to the device and the device's file. FwDevice runs *)
(* the actions of this module for each image of an update.                 *)
(***************************************************************************)
EXTENDS Naturals, Sequences

CONSTANTS
    Chunks,         \* 512-byte chunks in the image
    DeviceMayEnd    \* the device may finalize the call early (flash error)

VARIABLES
    pc,         \* where WriteFirmware is
    request,    \* the request it is at: 0 open, 1 .. Chunks, Chunks + 1 close
    result,     \* what it returned
    acks,       \* responses from the device it has received
    responses,  \* ctx.ResponseCh
    closed,     \* ... has been closed by handleClientFinalize
    toDevice, toHost,
    file,       \* (device) the file behind targetPath
    ended       \* (device) it has finalized the call

hostVars == <<pc, request, result, acks>>
lineVars == <<toDevice, toHost>>
contextVars == <<responses, closed>>
deviceVars == <<file, ended>>

Requests == 0 .. Chunks + 1
Initialize == [type |-> "ServerInitialize", request |-> 0]
Request(n) == [type |-> "ServerRequest", request |-> n]
Finalize == [type |-> "ServerFinalize", request |-> 0]
Response(n) == [type |-> "ClientResponse", request |-> n]
End == [type |-> "ClientFinalize", request |-> 0]

NoFile == [state |-> "none", written |-> << >>]
WholeFile == [state |-> "closed", written |-> [k \in 1 .. Chunks |-> k]]

Init ==
    /\ pc = "start"
    /\ request = 0
    /\ result = "none"
    /\ acks = 0
    /\ responses = << >>
    /\ closed = FALSE
    /\ toDevice = << >>
    /\ toHost = << >>
    /\ file = NoFile
    /\ ended = FALSE

-----------------------------------------------------------------------------
(* WriteFirmware.                                                          *)

\* A packet is sent, or it is damaged on the way (or, for the two packets
\* whose error is ignored, not sent at all).
Send(packet) == toDevice' = Append(toDevice, packet) \/ UNCHANGED toDevice

\* StreamingCall.
Start ==
    /\ pc = "start"
    /\ Send(Initialize)
    /\ pc' = "send"
    /\ UNCHANGED <<request, result, acks, toHost, contextVars, deviceVars>>

SendRequest ==
    /\ pc = "send"
    /\ Send(Request(request))
    /\ pc' = "recv"
    /\ UNCHANGED <<request, result, acks, toHost, contextVars, deviceVars>>

\* Deliberate faults, here and below, with which the properties must fail:
\* no close request, an error that is ignored.
LastRequestShort == Chunks

\* The close request, which follows the last chunk.
LastRequest == Chunks + 1

\* The response itself is not looked at: on to the next request, or done.
Continue ==
    IF request = LastRequest
    THEN /\ result' = "ok"
         /\ pc' = "finalize"
         /\ UNCHANGED request
    ELSE /\ request' = request + 1
         /\ pc' = "send"
         /\ UNCHANGED result

FailIgnored == Continue /\ UNCHANGED acks

\* Every error returns at once, through the deferred StreamingFinalize.
Fail ==
    /\ result' = "error"
    /\ pc' = "finalize"
    /\ UNCHANGED <<request, acks>>

SendFails ==
    /\ pc = "send"
    /\ Fail
    /\ UNCHANGED <<lineVars, contextVars, deviceVars>>

ReceiveResponse ==
    /\ pc = "recv"
    /\ responses # << >>
    /\ responses' = Tail(responses)
    /\ acks' = acks + 1
    /\ Continue
    /\ UNCHANGED <<closed, lineVars, deviceVars>>

\* A closed ResponseCh yields nil and no error, which WriteFirmware takes for
\* a response.
ReceiveClosed ==
    /\ pc = "recv"
    /\ responses = << >>
    /\ closed
    /\ Continue
    /\ UNCHANGED <<acks, lineVars, contextVars, deviceVars>>

Timeout ==
    /\ pc = "recv"
    /\ Fail
    /\ UNCHANGED <<lineVars, contextVars, deviceVars>>

\* StreamingFinalize.
SendFinalize ==
    /\ pc = "finalize"
    /\ Send(Finalize)
    /\ pc' = "done"
    /\ UNCHANGED <<request, result, acks, toHost, contextVars, deviceVars>>

\* readLoop hands the next packet to its handler. Once the context is freed
\* nothing is found for it any more; a damaged packet is dropped.
Receive ==
    LET p == Head(toHost)
    IN  /\ toHost # << >>
        /\ toHost' = Tail(toHost)
        /\ \/ UNCHANGED contextVars
           \/ /\ pc # "done"
              /\ p.type = "ClientResponse"
              /\ responses' = Append(responses, p.request)
              /\ UNCHANGED closed
           \/ /\ pc # "done"
              /\ p.type = "ClientFinalize"
              /\ closed' = TRUE
              /\ UNCHANGED responses
        /\ UNCHANGED <<hostVars, toDevice, deviceVars>>

-----------------------------------------------------------------------------
(* The device (external), as the requests imply it: open starts the file   *)
(* afresh, a chunk is appended at its offset, close completes the file.    *)

Applied(n) ==
    IF n = 0 THEN [state |-> "open", written |-> << >>]
    ELSE IF n = Chunks + 1 THEN [file EXCEPT !.state = "closed"]
    ELSE [file EXCEPT !.written = Append(@, n)]

DeviceApplies ==
    LET p == Head(toDevice)
    IN  /\ toDevice # << >>
        /\ p.type = "ServerRequest"
        /\ ~ended
        /\ file' = Applied(p.request)
        /\ toHost' = Append(toHost, Response(p.request))
        /\ toDevice' = Tail(toDevice)
        /\ UNCHANGED <<hostVars, contextVars, ended>>

\* It ends the call: after ServerFinalize, or early, on a request it refuses.
DeviceEnds ==
    LET p == Head(toDevice)
    IN  /\ toDevice # << >>
        /\ \/ p.type = "ServerFinalize"
           \/ p.type = "ServerRequest" /\ DeviceMayEnd
        /\ ~ended
        /\ ended' = TRUE
        /\ toHost' = Append(toHost, End)
        /\ toDevice' = Tail(toDevice)
        /\ UNCHANGED <<hostVars, contextVars, file>>

DeviceIgnores ==
    /\ toDevice # << >>
    /\ Head(toDevice).type # "ServerRequest" \/ ended
    /\ toDevice' = Tail(toDevice)
    /\ UNCHANGED <<hostVars, contextVars, toHost, deviceVars>>

-----------------------------------------------------------------------------
Writer ==
    \/ Start \/ SendRequest \/ SendFails
    \/ ReceiveResponse \/ ReceiveClosed \/ Timeout \/ SendFinalize

Device == DeviceApplies \/ DeviceEnds \/ DeviceIgnores

-----------------------------------------------------------------------------
(* Properties.                                                             *)

\* Unless the device ended the call early, WriteFirmware returns nil only when
\* the device has the whole image, every chunk once and in order, and has
\* closed the file, whatever was lost on the line and whichever way a timeout
\* and a late response fell.
SuccessMeansWritten == result = "ok" /\ ~closed => file = WholeFile

\* Stop and wait: unless the device ended the call early, a chunk is handed to
\* the line only when the device has written the chunk before it, and nothing
\* of this call is left in its input: it has to buffer one chunk at most.
ChunkFollowsChunk ==
    pc = "send" /\ request >= 1 /\ ~closed =>
        /\ file = [state |-> "open", written |-> [k \in 1 .. request - 1 |-> k]]
        /\ responses = << >>
        /\ \A k \in 1 .. Len(toDevice) : toDevice[k].type # "ServerRequest"

=============================================================================
