---------------------------- MODULE FwDeviceProof ----------------------------
(***************************************************************************)
(* Proofs about FwDevice, and FirmwareStream in it, for every sequence of  *)
(* images, number of chunks and number of verification attempts.           *)
(***************************************************************************)
EXTENDS FwDevice, SequenceTheorems, TLAPS

(* The inductive invariant of a write: stop and wait.                      *)

Requests == 0 .. Chunks + 1
ToDevice == [type : {"ServerInitialize", "ServerRequest", "ServerFinalize"}, request : Requests]
ToHost == [type : {"ClientResponse", "ClientFinalize"}, request : Requests]

Files == [state : {"none", "open", "closed"}, written : Seq(Nat)]

WriteType ==
    /\ step \in {"start", "send", "recv", "finalize", "done"}
    /\ request \in Requests
    /\ result \in {"none", "ok", "error"}
    /\ responses \in Seq(Requests)
    /\ closed \in BOOLEAN
    /\ toDevice \in Seq(ToDevice)
    /\ toHost \in Seq(ToHost)
    /\ file \in Files
    /\ ended \in BOOLEAN

\* The file once the device has carried out requests 0 .. n of the call.
First(n) == [k \in 1 .. n |-> k]
FileAfter(n) ==
    IF n = Chunks + 1 THEN Write!WholeFile ELSE [state |-> "open", written |-> First(n)]

IsRequest(k) == toDevice[k].type = "ServerRequest"
IsResponse(k) == toHost[k].type = "ClientResponse"

NoRequest == \A k \in 1 .. Len(toDevice) : ~IsRequest(k)
NoResponse == \A k \in 1 .. Len(toHost) : ~IsResponse(k)
NothingOnTheWay == NoRequest /\ NoResponse /\ responses = << >>

\* A call that has not begun.
NotBegun ==
    step = "start" =>
        /\ request = 0
        /\ result = "none"
        /\ responses = << >>
        /\ toDevice = << >>
        /\ toHost = << >>
        /\ file = Write!NoFile
        /\ ~closed

\* Between two requests nothing is on the way, and the device has carried out
\* all that were sent, unless it left.
BetweenRequests ==
    step = "send" /\ ~closed =>
        /\ NothingOnTheWay
        /\ port = "open" /\ request >= 1 => file = FileAfter(request - 1)

\* Of a request and its response one at most is on the way; which one tells
\* whether the device has carried the request out.
OneOnTheWay ==
    step = "recv" /\ ~closed =>
        /\ \A k \in 1 .. Len(toDevice) : IsRequest(k) =>
              /\ toDevice[k] = Write!Request(request)
              /\ \A j \in 1 .. Len(toDevice) : IsRequest(j) => j = k
              /\ NoResponse
              /\ responses = << >>
              /\ request >= 1 => file = FileAfter(request - 1)
        /\ \A k \in 1 .. Len(toHost) : IsResponse(k) =>
              /\ \A j \in 1 .. Len(toHost) : IsResponse(j) => j = k
              /\ responses = << >>
              /\ file = FileAfter(request)
        /\ responses # << >> =>
              /\ Len(responses) = 1
              /\ NoRequest
              /\ NoResponse
              /\ port = "open" \/ request = Chunks + 1 => file = FileAfter(request)

\* A write that succeeded has nothing more to come.
WrittenAndOver ==
    /\ step \in {"finalize", "done"} <=> result # "none"
    /\ result = "ok" /\ ~closed => NothingOnTheWay /\ file = Write!WholeFile

\* Once the port is lost so is the line, and no write opens it again.
LineOfPort == pc = "write" /\ port # "open" => toDevice = << >> /\ toHost = << >>

StreamInv ==
    /\ WriteType /\ NotBegun /\ BetweenRequests /\ OneOnTheWay /\ WrittenAndOver /\ LineOfPort

(* The inductive invariant of the update.                                  *)

Steps == {"identify", "poweroff", "write", "reboot", "wait", "verify", "answered", "unanswered", "done"}

UpdateType ==
    /\ pc \in Steps
    /\ index \in 1 .. Len(Images) + 1
    /\ port \in {"open", "deaf", "closed"}
    /\ row \in {"none", "succeeded", "failed"}
    /\ device \in {"up", "rebooting", "gone"}
    /\ power \in {"on", "off"}
    /\ staged \subseteq ImageSet
    /\ running \subseteq ImageSet
    /\ rebooted \in BOOLEAN
    /\ cutShort \in BOOLEAN

\* How far the worker has got, and what it has written by then.
Progress ==
    /\ pc \in {"identify", "poweroff"} => index = 1 /\ step = "start"
    /\ pc \in {"reboot", "wait", "verify", "answered", "unanswered"} => index > Len(Images)
    /\ rebooted \/ row = "succeeded" => index > Len(Images)
    /\ index > Len(Images) => step = "start"
    /\ rebooted => pc \in {"wait", "verify", "answered", "unanswered", "done"}
    /\ row = "succeeded" => pc = "done"

\* Every image before the one being written is staged, or runs after a boot;
\* so is that one as soon as its file is whole.
ImagesKept ==
    /\ ~cutShort => \A k \in 1 .. index - 1 : Images[k] \in staged \cup running
    /\ index <= Len(Images) /\ file = Write!WholeFile => Images[index] \in staged \cup running

\* A device that was told to reboot runs what it had when it is up again.
BootApplies ==
    /\ rebooted /\ device = "up" => staged = {} /\ power = "on"
    /\ rebooted /\ (pc = "answered" \/ row = "succeeded") => staged = {} /\ power = "on"

UpdateInv == UpdateType /\ Progress /\ ImagesKept /\ BootApplies

IInv == StreamInv /\ UpdateInv

-----------------------------------------------------------------------------
(* Operators.                                                              *)

LEMMA ConstantsTyped ==
    /\ Chunks \in Nat
    /\ MaxVerifies \in Nat
    /\ Images \in Seq(STRING)
    /\ Len(Images) \in Nat
  BY FwDeviceAssumption

LEMMA PacketsTyped ==
    /\ Write!Initialize \in ToDevice /\ Write!Initialize.type # "ServerRequest"
    /\ Write!Finalize \in ToDevice /\ Write!Finalize.type # "ServerRequest"
    /\ Write!End \in ToHost /\ Write!End.type # "ClientResponse"
    /\ \A n \in Requests :
          /\ Write!Request(n) \in ToDevice /\ Write!Request(n).type = "ServerRequest"
          /\ Write!Response(n) \in ToHost /\ Write!Response(n).type = "ClientResponse"
  BY ConstantsTyped
  DEF ToDevice, ToHost, Requests, Write!Initialize, Write!Finalize, Write!End, Write!Request,
      Write!Response

\* A chunk appended at its offset.
LEMMA NextChunk ==
    ASSUME NEW n \in Nat \ {0}
    PROVE  Append(First(n - 1), n) = First(n)
  BY DEF First

LEMMA FirstTyped == \A n \in Nat : First(n) \in Seq(Nat) /\ Len(First(n)) = n
  BY DEF First

\* The device carries out the request after the last one it carried out.
LEMMA NextRequestApplied ==
    ASSUME NEW n \in Requests, n >= 1 => file = FileAfter(n - 1)
    PROVE  Write!Applied(n) = FileAfter(n)
<1>. USE ConstantsTyped DEF Requests
<1>1. CASE n = 0
  BY <1>1 DEF Write!Applied, FileAfter, First
<1>2. CASE n = Chunks + 1
  <2>1. n - 1 = Chunks /\ n - 1 # Chunks + 1 /\ n # 0
    BY <1>2
  <2>2. file = [state |-> "open", written |-> First(Chunks)]
    BY <2>1 DEF FileAfter
  <2>3. [file EXCEPT !.state = "closed"] = [state |-> "closed", written |-> First(Chunks)]
    BY <2>2
  <2>4. Write!Applied(n) = [file EXCEPT !.state = "closed"]
    BY <1>2, <2>1 DEF Write!Applied
  <2>. QED
    BY <1>2, <2>3, <2>4 DEF FileAfter, Write!WholeFile, First
<1>3. CASE n # 0 /\ n # Chunks + 1
  <2>1. n \in Nat \ {0} /\ n - 1 # Chunks + 1
    BY <1>3
  <2>2. file = [state |-> "open", written |-> First(n - 1)]
    BY <1>3, <2>1 DEF FileAfter
  <2>3. Append(file.written, n) = First(n)
    BY <2>1, <2>2, NextChunk
  <2>4. [file EXCEPT !.written = First(n)] = [state |-> "open", written |-> First(n)]
    BY <2>2
  <2>5. Write!Applied(n) = [file EXCEPT !.written = Append(file.written, n)]
    BY <1>3 DEF Write!Applied
  <2>. QED
    BY <1>3, <2>3, <2>4, <2>5 DEF FileAfter
<1>. QED
  BY <1>1, <1>2, <1>3

LEMMA AppliedTyped ==
    ASSUME file \in Files, NEW n \in Requests
    PROVE  Write!Applied(n) \in Files
<1>1. [file EXCEPT !.state = "closed"] \in Files
  BY DEF Files
<1>2. [file EXCEPT !.written = Append(file.written, n)] \in Files
  <2>1. file.written \in Seq(Nat) /\ n \in Nat
    BY ConstantsTyped DEF Files, Requests
  <2>2. Append(file.written, n) \in Seq(Nat)
    BY <2>1, AppendProperties
  <2>. QED
    BY <2>2 DEF Files
<1>3. [state |-> "open", written |-> << >>] \in Files
  BY DEF Files
<1>. QED
  BY <1>1, <1>2, <1>3 DEF Write!Applied

LEMMA FilesTyped ==
    /\ Write!NoFile \in Files
    /\ Write!NoFile.state = "none"
    /\ Write!WholeFile.state = "closed"
  BY DEF Files, Write!NoFile, Write!WholeFile

\* A packet that is handed to the line is at its end, or lost.
LEMMA SendKeeps ==
    ASSUME NEW p \in ToDevice, toDevice \in Seq(ToDevice), Write!Send(p)
    PROVE  /\ toDevice' \in Seq(ToDevice)
           /\ p.type # "ServerRequest" /\ NoRequest => NoRequest'
           /\ \A k \in 1 .. Len(toDevice') :
                 toDevice'[k].type = "ServerRequest" /\ NoRequest =>
                    k = Len(toDevice) + 1 /\ toDevice'[k] = p
<1>1. CASE toDevice' = toDevice
  BY <1>1 DEF NoRequest, IsRequest
<1>2. CASE toDevice' = Append(toDevice, p)
  BY <1>2, AppendProperties DEF NoRequest, IsRequest
<1>. QED
  BY <1>1, <1>2 DEF Write!Send

LEMMA TailEach ==
    ASSUME NEW S, NEW q \in Seq(S), q # << >>
    PROVE  /\ Tail(q) \in Seq(S)
           /\ Len(Tail(q)) = Len(q) - 1
           /\ Head(q) = q[1] /\ 1 \in 1 .. Len(q)
           /\ \A k \in 1 .. Len(Tail(q)) : k + 1 \in 1 .. Len(q) /\ Tail(q)[k] = q[k + 1]
  BY HeadTailProperties

-----------------------------------------------------------------------------
(* A write.                                                                *)

LEMMA InitStream == Init => StreamInv
<1>. SUFFICES ASSUME Init PROVE StreamInv
  OBVIOUS
<1>. USE ConstantsTyped DEF Init, Write!Init
<1>1. WriteType
  <2>1. closed \in BOOLEAN /\ ended \in BOOLEAN
    OBVIOUS
  <2>2. file \in Files
    BY DEF Write!NoFile, Files
  <2>3. request \in Requests
    BY DEF Requests
  <2>. QED
    BY <2>1, <2>2, <2>3 DEF WriteType
<1>2. NotBegun /\ BetweenRequests /\ OneOnTheWay /\ WrittenAndOver /\ LineOfPort
  BY DEF NotBegun, BetweenRequests, OneOnTheWay, WrittenAndOver, LineOfPort
<1>. QED
  BY <1>1, <1>2 DEF StreamInv

\* Every step of WriteFirmware keeps the invariant: it sends a request when
\* nothing is on the way, and goes on after a response to that very request.
LEMMA WriterKeeps ==
    ASSUME IInv, WriteStep
    PROVE  StreamInv'
<1>. USE ConstantsTyped
     DEF IInv, StreamInv, WriteType, NotBegun, BetweenRequests, OneOnTheWay, WrittenAndOver,
         NothingOnTheWay, LineOfPort, Write!lineVars, Write!contextVars, Write!deviceVars
<1>0. /\ pc = "write" /\ pc' = "write" /\ port' = port
      /\ port # "open" => toDevice' = toDevice
  BY DEF WriteStep, workerVars, Answered
<1>1. CASE Write!Start
  <2>1. /\ toDevice' \in Seq(ToDevice)
        /\ NoRequest /\ NoRequest'
    BY <1>1, SendKeeps, PacketsTyped DEF Write!Start, NoRequest
  <2>2. NoResponse'
    BY <1>1 DEF Write!Start, NoResponse
  <2>. QED
    BY <1>0, <1>1, <2>1, <2>2 DEF Write!Start
<1>2. CASE Write!SendRequest
  <2>1. /\ toDevice' \in Seq(ToDevice)
        /\ \A k \in 1 .. Len(toDevice') :
              toDevice'[k].type = "ServerRequest" /\ NoRequest =>
                 k = Len(toDevice) + 1 /\ toDevice'[k] = Write!Request(request)
    BY <1>2, SendKeeps, PacketsTyped DEF Write!SendRequest
  <2>2. ~closed => NoResponse' /\ responses = << >>
    BY <1>2 DEF Write!SendRequest, NoResponse, IsResponse
  <2>3. OneOnTheWay'
    BY <1>0, <1>2, <2>1, <2>2 DEF Write!SendRequest, IsRequest, IsResponse, NoRequest, NoResponse
  <2>. QED
    BY <1>0, <1>2, <2>1, <2>3 DEF Write!SendRequest
<1>3. CASE Write!SendFails
  BY <1>0, <1>3 DEF Write!SendFails, Write!Fail
<1>4. CASE Write!ReceiveResponse
  <2>1. responses' \in Seq(Requests)
    BY <1>4, TailEach DEF Write!ReceiveResponse
  <2>2. ~closed => NoRequest' /\ NoResponse' /\ responses' = << >>
    BY <1>4, TailEach DEF Write!ReceiveResponse, NoRequest, NoResponse, IsRequest, IsResponse
  <2>3. CASE request = Chunks + 1
    BY <1>0, <1>4, <2>1, <2>2, <2>3
    DEF Write!ReceiveResponse, Write!Continue, Write!LastRequest, FileAfter
  <2>4. CASE request # Chunks + 1
    BY <1>0, <1>4, <2>1, <2>2, <2>4
    DEF Write!ReceiveResponse, Write!Continue, Write!LastRequest, Requests
  <2>. QED
    BY <2>3, <2>4
<1>5. CASE Write!ReceiveClosed
  <2>1. request' \in Requests
    BY <1>5 DEF Write!ReceiveClosed, Write!Continue, Write!LastRequest, Requests
  <2>. QED
    BY <1>0, <1>5, <2>1 DEF Write!ReceiveClosed, Write!Continue
<1>6. CASE Write!Timeout
  BY <1>0, <1>6 DEF Write!Timeout, Write!Fail
<1>7. CASE Write!SendFinalize
  <2>1. /\ toDevice' \in Seq(ToDevice)
        /\ NoRequest => NoRequest'
    BY <1>7, SendKeeps, PacketsTyped DEF Write!SendFinalize
  <2>2. NoResponse => NoResponse'
    BY <1>7 DEF Write!SendFinalize, NoResponse, IsResponse
  <2>. QED
    BY <1>0, <1>7, <2>1, <2>2 DEF Write!SendFinalize
<1>. QED
  BY <1>1, <1>2, <1>3, <1>4, <1>5, <1>6, <1>7 DEF WriteStep, Write!Writer

\* readLoop: a response leaves the line for ResponseCh, or is lost.
LEMMA LineKeeps ==
    ASSUME IInv, LineDelivers
    PROVE  StreamInv'
<1>. USE ConstantsTyped
     DEF IInv, StreamInv, WriteType, NotBegun, BetweenRequests, OneOnTheWay, WrittenAndOver,
         NothingOnTheWay, LineOfPort
<1>1. /\ port = "open" /\ toHost # << >>
      /\ toHost' = Tail(toHost)
      /\ UNCHANGED <<pc, port, step, request, result, toDevice, file, ended>>
  BY DEF LineDelivers, Write!Receive, Write!hostVars, Write!deviceVars, workerVars
<1>2. /\ toHost' \in Seq(ToHost)
      /\ Head(toHost) = toHost[1] /\ 1 \in 1 .. Len(toHost)
      /\ \A k \in 1 .. Len(toHost') : k + 1 \in 1 .. Len(toHost) /\ toHost'[k] = toHost[k + 1]
  BY <1>1, TailEach
<1>3. /\ NoResponse => NoResponse'
      /\ NoRequest' <=> NoRequest
      /\ \A k : IsRequest(k)' <=> IsRequest(k)
  BY <1>1, <1>2 DEF NoResponse, IsResponse, NoRequest, IsRequest
<1>4. \/ UNCHANGED <<responses, closed>>
      \/ /\ Head(toHost).type = "ClientResponse"
         /\ responses' = Append(responses, Head(toHost).request)
         /\ UNCHANGED closed
         /\ step # "done"
      \/ closed' /\ UNCHANGED responses
  BY DEF LineDelivers, Write!Receive, Write!contextVars
<1>5. CASE UNCHANGED <<responses, closed>>
  <2>1. \A k \in 1 .. Len(toHost') : IsResponse(k)' => IsResponse(k + 1)
    BY <1>2 DEF IsResponse
  <2>2. OneOnTheWay'
    BY <1>1, <1>2, <1>3, <1>5, <2>1
  <2>. QED
    BY <1>1, <1>2, <1>3, <1>5, <2>2
<1>6. CASE /\ Head(toHost).type = "ClientResponse"
           /\ responses' = Append(responses, Head(toHost).request)
           /\ UNCHANGED closed
           /\ step # "done"
  <2>1. responses' \in Seq(Requests) /\ Len(responses') = Len(responses) + 1
    <3>1. toHost[1] \in ToHost
      BY <1>2
    <3>. QED
      BY <1>2, <1>6, <3>1, AppendProperties DEF ToHost
  <2>2. IsResponse(1)
    BY <1>2, <1>6 DEF IsResponse
  <2>3. ~NoResponse
    BY <1>2, <2>2 DEF NoResponse
  <2>4. step = "recv" /\ ~closed => NoResponse' /\ NoRequest'
    <3>. SUFFICES ASSUME step = "recv", ~closed PROVE NoResponse' /\ NoRequest'
      OBVIOUS
    <3>1. NoRequest
      BY <2>3 DEF NoRequest
    <3>2. \A k \in 1 .. Len(toHost') : ~IsResponse(k + 1)
      BY <1>2, <2>2
    <3>. QED
      BY <1>2, <1>3, <3>1, <3>2 DEF NoResponse, IsResponse
  <2>5. OneOnTheWay'
    BY <1>1, <1>2, <1>3, <1>6, <2>1, <2>2, <2>4 DEF NoRequest, NoResponse
  <2>6. step # "start" /\ (result = "ok" => closed)
    BY <1>1, <2>3
  <2>7. ~(step = "send" /\ ~closed)
    BY <2>3
  <2>. QED
    BY <1>1, <1>2, <1>6, <2>1, <2>5, <2>6, <2>7
<1>7. CASE closed' /\ UNCHANGED responses
  BY <1>1, <1>2, <1>7 DEF LineDelivers, Write!Receive
<1>. QED
  BY <1>4, <1>5, <1>6, <1>7

\* The device takes the next packet: a request it carries out is the one that
\* was on the way, and its response is on the way from then on.
LEMMA DeviceKeeps ==
    ASSUME IInv, DeviceWrites
    PROVE  StreamInv'
<1>. USE ConstantsTyped
     DEF IInv, StreamInv, WriteType, NotBegun, BetweenRequests, OneOnTheWay, WrittenAndOver,
         NothingOnTheWay, LineOfPort
<1>1. /\ toDevice # << >>
      /\ toDevice' = Tail(toDevice)
      /\ UNCHANGED <<pc, port, step, request, result, responses, closed>>
  BY DEF DeviceWrites, Write!Device, Write!DeviceApplies, Write!DeviceEnds, Write!DeviceIgnores,
         Write!hostVars, Write!contextVars, workerVars
<1>2. /\ toDevice' \in Seq(ToDevice)
      /\ Head(toDevice) = toDevice[1] /\ 1 \in 1 .. Len(toDevice)
      /\ Head(toDevice) \in ToDevice
      /\ \A k \in 1 .. Len(toDevice') :
            k + 1 \in 1 .. Len(toDevice) /\ toDevice'[k] = toDevice[k + 1]
  BY <1>1, TailEach
<1>3. /\ NoRequest => NoRequest'
      /\ \A k \in 1 .. Len(toDevice') : IsRequest(k)' <=> IsRequest(k + 1)
  BY <1>1, <1>2 DEF NoRequest, IsRequest
<1>4. step # "start"
  BY <1>1
<1>5. CASE Write!DeviceApplies
  <2>. DEFINE n == Head(toDevice).request
  <2>1. /\ Head(toDevice).type = "ServerRequest"
        /\ file' = Write!Applied(n)
        /\ toHost' = Append(toHost, Write!Response(n))
        /\ UNCHANGED ended
    BY <1>5 DEF Write!DeviceApplies
  <2>2. n \in Requests
    BY <1>2 DEF ToDevice
  <2>3. IsRequest(1) /\ ~NoRequest
    BY <1>2, <2>1 DEF IsRequest, NoRequest
  <2>4. /\ toHost' \in Seq(ToHost)
        /\ Len(toHost') = Len(toHost) + 1
        /\ \A k \in 1 .. Len(toHost') :
              (k \in 1 .. Len(toHost) /\ toHost'[k] = toHost[k]) \/ k = Len(toHost) + 1
    BY <2>1, <2>2, PacketsTyped, AppendProperties
  <2>5. file' \in Files
    BY <2>1, <2>2, AppliedTyped
  <2>6. WriteType'
    BY <1>1, <1>2, <2>1, <2>4, <2>5
  <2>7. ~(step = "send" /\ ~closed) /\ (result = "ok" => closed)
    BY <2>3
  <2>8. OneOnTheWay'
    <3>. SUFFICES ASSUME step = "recv", ~closed PROVE OneOnTheWay'
      BY <1>1
    <3>1. Head(toDevice) = Write!Request(request) /\ n = request
      BY <1>2, <2>3 DEF Write!Request
    <3>2. NoResponse /\ responses = << >> /\ (request >= 1 => file = FileAfter(request - 1))
      BY <1>2, <2>3
    <3>3. \A k \in 1 .. Len(toDevice') : ~IsRequest(k)'
      BY <1>2, <1>3, <2>3
    <3>4. \A k \in 1 .. Len(toHost') : IsResponse(k)' => k = Len(toHost) + 1
      BY <2>4, <3>2 DEF NoResponse, IsResponse
    <3>5. file' = FileAfter(request)
      BY <2>1, <2>2, <3>1, <3>2, NextRequestApplied
    <3>. QED
      BY <1>1, <3>2, <3>3, <3>4, <3>5, <2>6 DEF FileAfter
  <2>. QED
    BY <1>1, <1>4, <2>6, <2>7, <2>8
<1>6. CASE Write!DeviceEnds \/ Write!DeviceIgnores
  <2>1. UNCHANGED file /\ ended' \in BOOLEAN
    BY <1>6 DEF Write!DeviceEnds, Write!DeviceIgnores, Write!deviceVars
  <2>2. toHost' = toHost \/ toHost' = Append(toHost, Write!End)
    BY <1>6 DEF Write!DeviceEnds, Write!DeviceIgnores
  <2>3. /\ toHost' \in Seq(ToHost)
        /\ \A k \in 1 .. Len(toHost') :
              IsResponse(k)' => k \in 1 .. Len(toHost) /\ IsResponse(k)
    <3>1. CASE toHost' = toHost
      BY <3>1 DEF IsResponse
    <3>2. CASE toHost' = Append(toHost, Write!End)
      BY <3>2, PacketsTyped, AppendProperties DEF IsResponse
    <3>. QED
      BY <2>2, <3>1, <3>2
  <2>4. NoResponse => NoResponse'
    BY <2>3 DEF NoResponse
  <2>5. WriteType'
    BY <1>1, <1>2, <2>1, <2>3
  <2>6. OneOnTheWay'
    BY <1>1, <1>2, <1>3, <2>1, <2>3, <2>4 DEF FileAfter
  <2>. QED
    BY <1>1, <1>3, <1>4, <2>1, <2>4, <2>5, <2>6
<1>. QED
  BY <1>5, <1>6 DEF DeviceWrites, Write!Device

\* The device leaves the bus: the line is empty from then on, and a file that
\* was closed stays.
LEMMA LeavingKeeps ==
    ASSUME IInv, DeviceLeaves
    PROVE  StreamInv'
<1>. USE ConstantsTyped
     DEF IInv, StreamInv, WriteType, NotBegun, BetweenRequests, OneOnTheWay, WrittenAndOver,
         NothingOnTheWay, LineOfPort, UpdateInv, UpdateType
<1>1. /\ port' # "open" /\ toDevice' = << >> /\ toHost' = << >>
      /\ UNCHANGED <<pc, step, request, result, responses, closed, ended>>
  BY DEF DeviceLeaves
<1>2. /\ file' \in Files
      /\ file = Write!NoFile => file' = Write!NoFile
      /\ file = Write!WholeFile => file' = Write!WholeFile
  <2>1. file' = IF file.state = "open" THEN Write!NoFile ELSE file
    BY DEF DeviceLeaves
  <2>. QED
    BY <2>1, FilesTyped
<1>3. NoRequest' /\ NoResponse'
  BY <1>1 DEF NoRequest, NoResponse
<1>4. WriteType'
  BY <1>1, <1>2
<1>5. OneOnTheWay'
  <2>1. port = "open" \/ request = Chunks + 1 => request = Chunks + 1 \/ port = "open"
    OBVIOUS
  <2>. QED
    BY <1>1, <1>2, <1>3, <1>4 DEF FileAfter
<1>. QED
  BY <1>1, <1>2, <1>3, <1>4, <1>5

\* The rest of updateDeviceFirmware begins the next call or leaves the write
\* alone, and opens the port only after the last image.
LEMMA WorkerKeepsStream ==
    ASSUME IInv,
           \/ Identify \/ PowerOff \/ ImageWritten \/ ImageFails \/ Written
           \/ Reboot \/ Reopen \/ Verify \/ VerifyAgain \/ VerifyGivesUp
           \/ RecordUpdated \/ RecordFailed \/ DeviceBoots
    PROVE  StreamInv'
<1>1. CASE ImageWritten
  <2>1. WriteType'
    <3>1. closed' \in BOOLEAN /\ ended' \in BOOLEAN
      BY <1>1 DEF ImageWritten, NewCall
    <3>2. file' \in Files
      BY <1>1 DEF ImageWritten, NewCall, Write!NoFile, Files
    <3>3. request' \in Requests
      BY <1>1, ConstantsTyped DEF ImageWritten, NewCall, Requests
    <3>. QED
      BY <1>1, <3>1, <3>2, <3>3 DEF ImageWritten, NewCall, WriteType
  <2>. QED
    BY <1>1, <2>1
    DEF ImageWritten, NewCall, StreamInv, NotBegun, BetweenRequests, OneOnTheWay,
        WrittenAndOver, LineOfPort
<1>2. CASE ~ImageWritten
  <2>1. UNCHANGED writeVars
    BY <1>2 DEF Identify, PowerOff, ImageFails, Written, Reboot, Reopen, Verify, VerifyAgain,
                VerifyGivesUp, RecordUpdated, RecordFailed, Record, DeviceBoots
  <2>2. port' = "open" => port = "open" \/ step = "start"
    BY <1>2
    DEF Identify, PowerOff, ImageFails, Written, Reboot, Reopen, Verify, VerifyAgain,
        VerifyGivesUp, RecordUpdated, RecordFailed, Record, DeviceBoots, Fail, ReopenFails,
        workerVars, IInv, UpdateInv, Progress
  <2>3. pc' = "write" => step = "start" \/ (pc = "write" /\ port' = port)
    BY <1>2
    DEF Identify, PowerOff, ImageFails, Written, Reboot, Reopen, Verify, VerifyAgain,
        VerifyGivesUp, RecordUpdated, RecordFailed, Record, DeviceBoots, Fail, ReopenFails, Step,
        workerVars, IInv, UpdateInv, Progress
  <2>. QED
    BY <2>1, <2>2, <2>3
    DEF writeVars, IInv, StreamInv, WriteType, NotBegun, BetweenRequests, OneOnTheWay,
        WrittenAndOver, LineOfPort, NothingOnTheWay, NoRequest, NoResponse, IsRequest, IsResponse
<1>. QED
  BY <1>1, <1>2

LEMMA StepStream ==
    ASSUME IInv, [Next]_vars
    PROVE  StreamInv'
<1>1. CASE UNCHANGED vars
  BY <1>1
  DEF vars, workerVars, writeVars, IInv, StreamInv, WriteType, NotBegun, BetweenRequests,
      OneOnTheWay, WrittenAndOver, LineOfPort, NothingOnTheWay, NoRequest, NoResponse, IsRequest,
      IsResponse
<1>2. CASE Next
  BY <1>2, WriterKeeps, LineKeeps, DeviceKeeps, LeavingKeeps, WorkerKeepsStream DEF Next, Worker
<1>. QED
  BY <1>1, <1>2

-----------------------------------------------------------------------------
(* The update.                                                             *)

LEMMA InitUpdate == Init => UpdateInv
<1>. SUFFICES ASSUME Init PROVE UpdateInv
  OBVIOUS
<1>. USE ConstantsTyped DEF Init
<1>1. UpdateType
  <2>1. rebooted \in BOOLEAN /\ cutShort \in BOOLEAN
    OBVIOUS
  <2>. QED
    BY <2>1 DEF UpdateType, Steps
<1>2. Progress
  BY DEF Progress, Write!Init
<1>3. ImagesKept /\ BootApplies
  BY FilesTyped DEF ImagesKept, BootApplies, Write!Init
<1>. QED
  BY <1>1, <1>2, <1>3 DEF UpdateInv

\* The steps of a write, of the line and of readLoop do not touch the update,
\* but for the file that is staged when its last chunk and the close are there.
LEMMA WriteKeepsUpdate ==
    ASSUME IInv, WriteStep \/ LineDelivers \/ DeviceWrites
    PROVE  UpdateInv'
<1>. USE ConstantsTyped DEF IInv, UpdateInv, workerVars, deviceVars
<1>1. CASE WriteStep \/ LineDelivers
  <2>1. UNCHANGED <<workerVars, deviceVars, file>>
    BY <1>1
    DEF WriteStep, LineDelivers, Write!Receive, Write!Writer, Write!Start, Write!SendRequest,
        Write!SendFails, Write!ReceiveResponse, Write!ReceiveClosed, Write!Timeout,
        Write!SendFinalize, Write!deviceVars
  <2>2. step' = step \/ (pc = "write" /\ index <= Len(Images))
    BY <1>1 DEF WriteStep, LineDelivers, Write!Receive, Write!hostVars
  <2>3. Progress'
    BY <2>1, <2>2 DEF Progress, UpdateType
  <2>. QED
    BY <2>1, <2>3 DEF UpdateType, ImagesKept, BootApplies
<1>2. CASE DeviceWrites
  <2>1. /\ UNCHANGED <<workerVars, device, power, running, rebooted, step>>
        /\ toDevice # << >>
        /\ staged' = IF file' # file /\ file' = Write!WholeFile
                     THEN staged \cup {Images[index]} ELSE staged
    BY <1>2 DEF DeviceWrites, Write!Device, Write!DeviceApplies, Write!DeviceEnds,
                Write!DeviceIgnores, Write!hostVars
  <2>2. step # "start"
    BY <2>1 DEF StreamInv, NotBegun
  <2>3. index \in 1 .. Len(Images) /\ ~rebooted /\ row # "succeeded"
    BY <2>2 DEF Progress, UpdateType
  <2>4. staged' \subseteq ImageSet
    BY <2>1, <2>3 DEF UpdateType, ImageSet
  <2>5. UpdateType'
    BY <2>1, <2>4 DEF UpdateType
  <2>6. Progress'
    BY <2>1 DEF Progress
  <2>7. ImagesKept'
    BY <2>1, <2>3 DEF ImagesKept
  <2>8. BootApplies'
    BY <2>1, <2>3 DEF BootApplies
  <2>. QED
    BY <2>5, <2>6, <2>7, <2>8
<1>. QED
  BY <1>1, <1>2

\* The worker goes to the next image, and past the last one, only with a file
\* that is whole; the device may start anew or go away at any of its steps.
LEMMA WorkerKeepsUpdate ==
    ASSUME IInv,
           \/ Identify \/ PowerOff \/ ImageWritten \/ ImageFails \/ Written
           \/ Reboot \/ Reopen \/ Verify \/ VerifyAgain \/ VerifyGivesUp
           \/ RecordUpdated \/ RecordFailed \/ DeviceBoots \/ DeviceLeaves
    PROVE  UpdateInv'
<1>. USE ConstantsTyped
     DEF IInv, UpdateInv, UpdateType, Steps, Progress, ImagesKept, BootApplies, workerVars,
         deviceVars, writeVars, Step, Fail
<1>1. CASE Identify
  BY <1>1 DEF Identify
<1>2. CASE PowerOff
  BY <1>2 DEF PowerOff
<1>3. CASE ImageWritten
  <2>1. index \in 1 .. Len(Images) /\ index' = index + 1 /\ index' \in 1 .. Len(Images) + 1
    BY <1>3 DEF ImageWritten
  <2>2. /\ UNCHANGED <<pc, port, verifies, event, row, device, power, staged, running, rebooted>>
        /\ step' = "start" /\ file' = Write!NoFile
        /\ cutShort' = (cutShort \/ closed)
        /\ pc = "write"
    BY <1>3 DEF ImageWritten, NewCall
  <2>3. ~cutShort' => Images[index] \in staged \cup running
    <3>1. result = "ok" /\ (~closed => file = Write!WholeFile)
      BY <1>3 DEF ImageWritten, StreamInv, WrittenAndOver
    <3>2. index <= Len(Images)
      BY <2>1
    <3>3. ~cutShort' => ~closed
      BY <2>2
    <3>. QED
      BY <3>1, <3>2, <3>3
  <2>4. ImagesKept'
    <3>1. ~cutShort' => \A k \in 1 .. index' - 1 : Images[k] \in staged \cup running
      BY <2>1, <2>2, <2>3
    <3>. QED
      BY <2>2, <3>1, FilesTyped
  <2>5. Progress'
    BY <2>1, <2>2
  <2>6. UpdateType'
    <3>1. cutShort' \in BOOLEAN
      BY <2>2
    <3>. QED
      BY <2>1, <2>2, <3>1
  <2>7. BootApplies'
    BY <2>2
  <2>. QED
    BY <2>4, <2>5, <2>6, <2>7
<1>4. CASE ImageFails
  BY <1>4 DEF ImageFails
<1>5. CASE Written
  BY <1>5 DEF Written, AllWritten
<1>6. CASE Reboot
  <2>1. /\ pc = "reboot" /\ pc' = "wait" /\ port' = "closed"
        /\ UNCHANGED <<index, verifies, row, cutShort, power, staged, running, writeVars>>
    BY <1>6 DEF Reboot
  <2>2. index > Len(Images) /\ ~rebooted /\ row # "succeeded"
    BY <2>1
  <2>3. \/ device' = "rebooting" /\ rebooted' = TRUE
        \/ device' = device /\ rebooted' = FALSE
    <3>1. rebooted = FALSE
      BY <2>2
    <3>. QED
      BY <1>6, <3>1 DEF Reboot
  <2>4. rebooted' \in BOOLEAN
    BY <2>3
  <2>5. UpdateType'
    BY <2>1, <2>3, <2>4
  <2>6. Progress'
    BY <2>1, <2>2, <2>3
  <2>7. ImagesKept'
    BY <2>1
  <2>8. BootApplies'
    BY <2>1, <2>2, <2>3
  <2>. QED
    BY <2>5, <2>6, <2>7, <2>8
<1>7. CASE Reopen
  BY <1>7 DEF Reopen, ReopenFails
<1>8. CASE Verify
  BY <1>8 DEF Verify, Answered
<1>9. CASE VerifyAgain \/ VerifyGivesUp
  BY <1>9 DEF VerifyAgain, VerifyGivesUp
<1>10. CASE RecordUpdated \/ RecordFailed
  <2>1. CASE RecordUpdated
    BY <1>10, <2>1 DEF RecordUpdated, Record
  <2>2. CASE RecordFailed
    BY <1>10, <2>2 DEF RecordFailed, Record
  <2>. QED
    BY <1>10, <2>1, <2>2
<1>11. CASE DeviceBoots
  BY <1>11 DEF DeviceBoots
<1>12. CASE DeviceLeaves
  <2>1. file' = Write!WholeFile => file = Write!WholeFile
    BY <1>12, FilesTyped DEF DeviceLeaves
  <2>. QED
    BY <1>12, <2>1 DEF DeviceLeaves
<1>. QED
  BY <1>1, <1>2, <1>3, <1>4, <1>5, <1>6, <1>7, <1>8, <1>9, <1>10, <1>11, <1>12

LEMMA StepUpdate ==
    ASSUME IInv, [Next]_vars
    PROVE  UpdateInv'
<1>1. CASE UNCHANGED vars
  BY <1>1
  DEF vars, workerVars, deviceVars, writeVars, IInv, UpdateInv, UpdateType, Progress, ImagesKept,
      BootApplies
<1>2. CASE Next
  BY <1>2, WriteKeepsUpdate, WorkerKeepsUpdate DEF Next, Worker
<1>. QED
  BY <1>1, <1>2

LEMMA Invariance == Spec => []IInv
<1>1. Init => IInv
  BY InitStream, InitUpdate DEF IInv
<1>2. IInv /\ [Next]_vars => IInv'
  BY StepStream, StepUpdate DEF IInv
<1>. QED
  BY <1>1, <1>2, PTL DEF Spec

-----------------------------------------------------------------------------
\* WriteFirmware returns nil only when the device has the whole image, unless
\* the device ended the call: whatever the line lost, however a timeout and a
\* late response fell and whenever the device started anew.
THEOREM NilMeansWritten == Spec => []SuccessMeansWritten
<1>1. IInv => SuccessMeansWritten
  BY DEF IInv, StreamInv, WrittenAndOver, SuccessMeansWritten, Write!SuccessMeansWritten
<1>. QED
  BY <1>1, Invariance, PTL

\* A write is stop and wait: as long as the port is there a chunk is sent when
\* the device has written the chunks before it and nothing is on the way.
THEOREM ChunksStopAndWait == Spec => []ChunkFollowsChunk
<1>1. IInv => ChunkFollowsChunk
  <2>. SUFFICES ASSUME IInv, port = "open", step = "send", request >= 1, ~closed
                PROVE  /\ file = [state |-> "open", written |-> [k \in 1 .. request - 1 |-> k]]
                       /\ responses = << >>
                       /\ \A k \in 1 .. Len(toDevice) : toDevice[k].type # "ServerRequest"
    BY DEF ChunkFollowsChunk, Write!ChunkFollowsChunk
  <2>1. request - 1 # Chunks + 1
    BY ConstantsTyped DEF IInv, StreamInv, WriteType, Requests
  <2>2. file = FileAfter(request - 1) /\ NothingOnTheWay
    BY DEF IInv, StreamInv, BetweenRequests
  <2>. QED
    BY <2>1, <2>2 DEF FileAfter, First, NothingOnTheWay, NoRequest, IsRequest
<1>. QED
  BY <1>1, Invariance, PTL

\* Past the last image every image is on the device.
LEMMA EveryImageKept ==
    ASSUME IInv, index > Len(Images), ~cutShort
    PROVE  staged \cup running = ImageSet
<1>1. index = Len(Images) + 1
  BY ConstantsTyped DEF IInv, UpdateInv, UpdateType
<1>2. \A k \in 1 .. Len(Images) : Images[k] \in staged \cup running
  BY <1>1, ConstantsTyped DEF IInv, UpdateInv, ImagesKept
<1>. QED
  BY <1>2 DEF ImageSet, IInv, UpdateInv, UpdateType

\* The host restarts a device, and a row says succeeded, only when the device
\* has every image, unless it ended a write itself.
THEOREM NoRebootBetweenImages == Spec => []RebootOnlyWhenWritten
<1>1. IInv => RebootOnlyWhenWritten
  BY EveryImageKept DEF IInv, UpdateInv, Progress, RebootOnlyWhenWritten
<1>. QED
  BY <1>1, Invariance, PTL

\* When the device got the reboot request, a row that says succeeded means
\* that it runs every image and is powered on.
THEOREM SucceededRowIsApplied == Spec => []SucceededMeansApplied
<1>1. IInv => SucceededMeansApplied
  <2>. SUFFICES ASSUME IInv, row = "succeeded", rebooted, ~cutShort
                PROVE  running = ImageSet /\ power = "on"
    BY DEF SucceededMeansApplied
  <2>1. index > Len(Images) /\ staged = {} /\ power = "on"
    BY DEF IInv, UpdateInv, Progress, BootApplies
  <2>. QED
    BY <2>1, EveryImageKept
<1>. QED
  BY <1>1, Invariance, PTL

=============================================================================
