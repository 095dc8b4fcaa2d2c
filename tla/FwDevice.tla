------------------------------ MODULE FwDevice ------------------------------
(***************************************************************************)
(* updateDeviceFirmware (cmd/fwupdate.go): the update of one device by one *)
(* worker, with the device and the serial channel it goes through.         *)
(*                                                                         *)
(* Each RPC is one step with the outcomes UnaryCall can have (module Rpc): *)
(* answered; or failed, when the device may or may not have carried the    *)
(* request out, for the request or only its answer was lost. WriteFirmware *)
(* is run request by request: its steps, the line's and the device's are   *)
(* those of module FirmwareStream.                                         *)
(***************************************************************************)
EXTENDS Naturals, Sequences

CONSTANTS
    Images,       \* the images to write, in the order of the fwEntry slice
    MaxVerifies,  \* GetDeviceInfo attempts that fit in fwVerifyBudget
    Chunks,       \* 512-byte chunks in an image
    DeviceMayEnd  \* the device may finalize a write early (flash error)

ASSUME FwDeviceAssumption ==
    /\ Images \in Seq(STRING)
    /\ MaxVerifies \in Nat \ {0}
    /\ Chunks \in Nat
    /\ DeviceMayEnd \in BOOLEAN

VARIABLES
    pc,        \* the step updateDeviceFirmware is at
    index,     \* the image being written
    port,      \* the serial channel: "open", "deaf" (readLoop has ended), "closed"
    verifies,  \* verification attempts made
    event,     \* the last progress event sent to the UI
    row,       \* the row handed to writeFWResult: none, succeeded or failed
    device,    \* (device) "up", "rebooting" or "gone" (unplugged, dead)
    power,     \* (device) what SetPower or the boot left it at
    staged,    \* (device) images written since the last boot
    running,   \* (device) images it runs
    rebooted,  \* (device) it has received a Reboot request
    cutShort,  \* (history) the device ended a write itself and the host went on
    \* WriteFirmware of image number index, its line and the device's file:
    step, request, result, acks, responses, closed, toDevice, toHost, file, ended

Write == INSTANCE FirmwareStream WITH pc <- step

writeVars == <<step, request, result, acks, responses, closed, toDevice, toHost, file, ended>>
workerVars == <<pc, index, port, verifies, event, row, cutShort>>
deviceVars == <<device, power, staged, running, rebooted>>
vars == <<workerVars, deviceVars, writeVars>>

ImageSet == {Images[k] : k \in 1 .. Len(Images)}

Init ==
    /\ pc = "identify"
    /\ index = 1
    /\ port = "open"
    /\ verifies = 0
    /\ event = "identifying"
    /\ row = "none"
    /\ device = "up"
    /\ power = "on"
    /\ staged = {}
    /\ running = {}
    /\ rebooted = FALSE
    /\ cutShort = FALSE
    /\ Write!Init

-----------------------------------------------------------------------------
(* The worker.                                                             *)

\* An RPC the device answers.
Answered == port = "open" /\ device = "up"

Step(next, stage) == pc' = next /\ event' = stage

\* Every failure is reported as an event and as a row with a reason.
Fail ==
    /\ Step("done", "failed")
    /\ row' = "failed"
    /\ UNCHANGED <<index, port, verifies, cutShort>>

\* GetDeviceInfo.
Identify ==
    /\ pc = "identify"
    /\ \/ /\ Answered
          /\ Step("poweroff", "poweringoff")
          /\ UNCHANGED <<index, port, verifies, row, cutShort>>
       \/ Fail
    /\ UNCHANGED <<deviceVars, writeVars>>

\* SetPower(false): it may have worked even when the call fails.
PowerOff ==
    /\ pc = "poweroff"
    /\ \/ /\ Answered
          /\ power' = "off"
          /\ \/ /\ Step("write", "writing")
                /\ UNCHANGED <<index, port, verifies, row, cutShort>>
             \/ Fail
       \/ Fail /\ UNCHANGED power
    /\ UNCHANGED <<device, staged, running, rebooted, writeVars>>

\* WriteFirmware takes a step. What is sent while the device is away is lost.
WriteStep ==
    /\ pc = "write"
    /\ index <= Len(Images)
    /\ Write!Writer
    /\ Answered \/ toDevice' = toDevice
    /\ UNCHANGED <<workerVars, deviceVars>>

\* The next call is a new context on both sides: of what is still on the line
\* nothing can match it.
NewCall ==
    /\ step' = "start"
    /\ request' = 0
    /\ result' = "none"
    /\ acks' = 0
    /\ responses' = << >>
    /\ closed' = FALSE
    /\ toDevice' = << >>
    /\ toHost' = << >>
    /\ file' = Write!NoFile
    /\ ended' = FALSE

\* WriteFirmware returns nil: on to the next image.
ImageWritten ==
    /\ pc = "write"
    /\ step = "done"
    /\ result = "ok"
    /\ index' = index + 1
    /\ cutShort' = (cutShort \/ closed)
    /\ NewCall
    /\ UNCHANGED <<pc, port, verifies, event, row, deviceVars>>

\* It returns an error: the device is left as it is, powered off, with the
\* images before this one written.
ImageFails ==
    /\ pc = "write"
    /\ index <= Len(Images)
    /\ step = "done"
    /\ result = "error"
    /\ Fail
    /\ UNCHANGED <<deviceVars, writeVars>>

\* Deliberate fault: the loop ends an image too early.
AllButOneWritten == index >= Len(Images) /\ step = "start"

AllWritten == index > Len(Images)

Written ==
    /\ pc = "write"
    /\ AllWritten
    /\ Step("reboot", "rebooting")
    /\ UNCHANGED <<index, port, verifies, row, cutShort, deviceVars, writeVars>>

\* Commander.Reboot turns a timeout into success and any other error is only
\* logged: the worker goes on whether or not the device got the request. Then
\* the channel is closed and the apply wait begins.
Reboot ==
    /\ pc = "reboot"
    /\ \/ /\ Answered
          /\ device' = "rebooting"
          /\ rebooted' = TRUE
       \/ UNCHANGED <<device, rebooted>>
    /\ port' = "closed"
    /\ Step("wait", "applying")
    /\ UNCHANGED <<index, verifies, row, cutShort, power, staged, running, writeVars>>

\* Deliberate fault: the apply wait is taken for an update.
ReopenFailsSucceeded ==
    /\ Step("done", "completed")
    /\ row' = "succeeded"
    /\ UNCHANGED <<index, port, verifies, cutShort>>

ReopenFails == Fail

\* The sleep ends, whatever the device has got to, and the port is opened; it
\* cannot be while the device is off the bus.
Reopen ==
    /\ pc = "wait"
    /\ \/ /\ device = "up"
          /\ port' = "open"
          /\ Step("verify", "verifying")
          /\ UNCHANGED <<index, verifies, row, cutShort>>
       \/ ReopenFails
    /\ UNCHANGED <<deviceVars, writeVars>>

\* Deliberate fault: no end of attempts.
VerifyGivesUpNever == FALSE

BudgetLeft == verifies < MaxVerifies

\* GetDeviceInfo on the reopened channel: any answer will do.
Verify ==
    /\ pc = "verify"
    /\ Answered
    /\ pc' = "answered"
    /\ UNCHANGED <<index, port, verifies, event, row, cutShort, deviceVars, writeVars>>

VerifyAgain ==
    /\ pc = "verify"
    /\ BudgetLeft
    /\ verifies' = verifies + 1
    /\ UNCHANGED <<pc, index, port, event, row, cutShort, deviceVars, writeVars>>

VerifyGivesUp ==
    /\ pc = "verify"
    /\ ~BudgetLeft
    /\ pc' = "unanswered"
    /\ UNCHANGED <<index, port, verifies, event, row, cutShort, deviceVars, writeVars>>

\* The channel is closed, the last event sent and the row written.
Record(verdict, stage) ==
    /\ port' = "closed"
    /\ row' = verdict
    /\ Step("done", stage)
    /\ UNCHANGED <<index, verifies, cutShort, deviceVars, writeVars>>

RecordUpdated == pc = "answered" /\ Record("succeeded", "completed")

RecordFailed == pc = "unanswered" /\ Record("failed", "failed")

-----------------------------------------------------------------------------
(* The device (external): a boot applies what was written and powers on;   *)
(* it may reset by itself, or vanish from the bus for good.                *)

DeviceBoots ==
    /\ device = "rebooting"
    /\ device' = "up"
    /\ power' = "on"
    /\ running' = running \cup staged
    /\ staged' = {}
    /\ UNCHANGED <<workerVars, rebooted, writeVars>>

\* The device leaves the bus, to boot or for good: the read of readLoop fails
\* and readLoop ends, so no answer comes through this port until it is opened
\* again, and writes may still be taken by the driver. What was on the line
\* and a file that was not closed are lost.
DeviceLeaves ==
    /\ device \in {"up", "rebooting"}
    /\ device' \in {"rebooting", "gone"} \ {device}
    /\ port' = IF port = "open" THEN "deaf" ELSE port
    /\ toDevice' = << >>
    /\ toHost' = << >>
    /\ file' = IF file.state = "open" THEN Write!NoFile ELSE file
    /\ UNCHANGED <<pc, index, verifies, event, row, cutShort, power, staged, running, rebooted>>
    /\ UNCHANGED <<step, request, result, acks, responses, closed, ended>>

\* The device handles the next packet of a write: a file that is closed with
\* all its chunks is staged for the next boot.
DeviceWrites ==
    /\ device = "up"
    /\ Write!Device
    /\ staged' = IF file' # file /\ file' = Write!WholeFile THEN staged \cup {Images[index]} ELSE staged
    /\ UNCHANGED <<workerVars, device, power, running, rebooted>>

LineDelivers ==
    /\ port = "open"
    /\ Write!Receive
    /\ UNCHANGED <<workerVars, deviceVars>>

Worker ==
    \/ Identify \/ PowerOff \/ WriteStep \/ ImageWritten \/ ImageFails \/ Written
    \/ Reboot \/ Reopen \/ Verify \/ VerifyAgain \/ VerifyGivesUp
    \/ RecordUpdated \/ RecordFailed

Next == Worker \/ LineDelivers \/ DeviceWrites \/ DeviceBoots \/ DeviceLeaves

Spec == Init /\ [][Next]_vars

\* Every step of the worker ends: RPCs have deadlines, sleeps are finite.
FairSpec == Spec /\ WF_vars(Worker)

-----------------------------------------------------------------------------
(* Properties.                                                             *)

\* What module FirmwareStream says of a write, on a device that may restart
\* or go away in the middle of it: nil means the file is whole,
SuccessMeansWritten == Write!SuccessMeansWritten

\* ... and as long as the port is, each chunk waits for the one before it.
ChunkFollowsChunk == port = "open" => Write!ChunkFollowsChunk

\* The host restarts a device, and a row says succeeded, only when the device
\* has every image, unless it ended a write itself: no failed write is passed
\* over, and no device boots into some new images and some old ones by an
\* error of the host.
RebootOnlyWhenWritten ==
    (rebooted \/ row = "succeeded") /\ ~cutShort => staged \cup running = ImageSet

\* When the device did receive the reboot request, a row that says succeeded
\* means that it now runs every image and is powered on again.
SucceededMeansApplied ==
    row = "succeeded" /\ rebooted /\ ~cutShort => running = ImageSet /\ power = "on"

\* Every worker ends, with a row.
WorkerEnds == <>(pc = "done" /\ row # "none")

=============================================================================
