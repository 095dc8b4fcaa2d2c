------------------------------- MODULE Deploy -------------------------------
(***************************************************************************)
(* Service.DeployDevice (internal/deployment/service.go): one device       *)
(* provisioned by one worker, with its retries, the calls of Commander it  *)
(* makes (SetProvision polls the status), the room assignment in the       *)
(* database, and the row it leaves in deployment-result.csv.               *)
(*                                                                         *)
(* An RPC that fails may still have been carried out; so may a database    *)
(* write that returns an error. What other workers do to the same rooms is *)
(* module Zones.                                                           *)
(***************************************************************************)
EXTENDS Naturals

CONSTANTS
    MaxRetries,   \* DeployOptions.MaxRetries: 5
    MaxPolls      \* status polls that fit in DeployOptions.Timeout

ASSUME DeployAssumption ==
    /\ MaxRetries \in Nat
    /\ MaxPolls \in Nat \ {0}

VARIABLES
    wantsRoom,  \* the setting names a lodging and a room
    hasRepo,    \* there is a database connection
    pc,         \* the step DeployDevice is at
    attempt,    \* the loop variable
    polls,      \* status polls of this attempt
    port,       \* the serial channel: "open", "deaf" (readLoop ended), "closed"
    succeeded,  \* the local variable
    room,       \* roomName and roomID: what the row will say of the room
    row,        \* the row appended: none yet, succeeded, failed, or lost in writing it
    rowRoom,    \* ... and its room columns
    device,     \* (device) "up", "rebooting" or "gone"
    config,     \* (device) whose credentials it holds: none, earlier, ours
    online,     \* (device) its status says it publishes to MQTT
    refused,    \* it ended the latest provision call without taking the credentials (history)
    assigned    \* (database) the device is assigned to the setting's room

vars == <<wantsRoom, hasRepo, pc, attempt, polls, port, succeeded, room, row, rowRoom,
          device, config, online, refused, assigned>>
input == <<wantsRoom, hasRepo>>
rowVars == <<row, rowRoom>>
deviceVars == <<device, config, online, refused>>

Init ==
    /\ wantsRoom \in BOOLEAN
    /\ hasRepo \in BOOLEAN
    /\ pc = "info"
    /\ attempt = 0
    /\ polls = 0
    /\ port = "open"
    /\ succeeded = FALSE
    /\ room = "none"
    /\ row = "none"
    /\ rowRoom = "none"
    /\ device = "up"
    /\ config \in {"none", "earlier"}
    /\ online \in {FALSE, config = "earlier"}
    /\ refused = FALSE
    /\ assigned \in BOOLEAN

-----------------------------------------------------------------------------
(* The worker.                                                             *)

\* A request that reaches the device, and one whose answer can come back too:
\* a channel whose readLoop has ended still writes.
Reached == port # "closed" /\ device = "up"
Answered == port = "open" /\ device = "up"

\* "continue": a further attempt is made, or the loop ends without success.
NextAttempt == pc' = IF attempt < MaxRetries THEN "attempt" ELSE "report"

\* writeResult: an append that fails is only logged.
WriteRow(result, itsRoom) ==
    \/ row' = result /\ rowRoom' = itsRoom
    \/ row' = "lost" /\ rowRoom' = "none"

\* GetDeviceInfo; without it there is a failed row and no attempt.
GetInfo ==
    /\ pc = "info"
    /\ \/ /\ Answered
          /\ NextAttempt
          /\ UNCHANGED rowVars
       \/ WriteRow("failed", "none") /\ pc' = "done"
    /\ UNCHANGED <<input, attempt, polls, port, succeeded, room, deviceVars, assigned>>

\* The head of the loop. A retry begins with Reboot, whose failure is ignored,
\* and closes the channel for the pause that follows.
BeginAttempt ==
    /\ pc = "attempt"
    /\ attempt' = attempt + 1
    /\ IF attempt = 0
       THEN pc' = "unprovision" /\ UNCHANGED <<port, device, online>>
       ELSE /\ \/ Reached /\ device' = "rebooting" /\ online' = FALSE
               \/ UNCHANGED <<device, online>>
            /\ port' = "closed"
            /\ pc' = "reopen"
    /\ UNCHANGED <<input, polls, succeeded, room, rowVars, config, refused, assigned>>

\* ActivateChannel after the pause: a failure costs the attempt.
Reopen ==
    /\ pc = "reopen"
    /\ \/ /\ device = "up"
          /\ port' = "open"
          /\ pc' = "unprovision"
       \/ NextAttempt /\ UNCHANGED port
    /\ UNCHANGED <<input, attempt, polls, succeeded, room, rowVars, deviceVars, assigned>>

\* SetProvision with an empty body clears the credentials; then BLE
\* advertising is switched off. Neither error is more than a warning.
Unprovision ==
    /\ pc = "unprovision"
    /\ \/ Reached /\ config' = "none" /\ online' \in {FALSE, online}
       \/ UNCHANGED <<config, online>>
    /\ pc' = "provision"
    /\ polls' = 0
    /\ UNCHANGED <<input, attempt, port, succeeded, room, rowVars, device, refused, assigned>>

\* Deliberate faults, here and below, with which the properties must fail.
AfterProvisionErrorPoll == pc' = "poll"

AfterProvisionError == NextAttempt

\* The request of Commander.SetProvision. What UnaryCall returns is not looked
\* at, and it returns no error either when the device ends the call instead of
\* taking the credentials.
SendProvision ==
    /\ pc = "provision"
    /\ \/ /\ Reached
          /\ config' = "ours"
          /\ online' \in {FALSE, online}
          /\ refused' = FALSE
          /\ \/ port = "open" /\ pc' = "poll"
             \/ AfterProvisionError
       \/ /\ Answered
          /\ refused' = TRUE
          /\ pc' = "poll"
          /\ UNCHANGED <<config, online>>
       \/ /\ AfterProvisionError
          /\ refused' = FALSE
          /\ UNCHANGED <<config, online>>
    /\ UNCHANGED <<input, attempt, polls, port, succeeded, room, rowVars, device, assigned>>

\* A status at or past ProvisionMQTTPublish.
ReportsOnline == Answered /\ online

SucceededBeforeRoom == TRUE

\* Whether a device that is online is all that the setting asks for.
SucceededOnceOnline == ~wantsRoom

\* GetStatus until it reports ReportsOnline or the deadline has passed; a poll that
\* fails is ignored.
PollOnline ==
    /\ pc = "poll"
    /\ polls < MaxPolls
    /\ ReportsOnline
    /\ pc' = IF wantsRoom THEN "room" ELSE "report"
    /\ succeeded' = SucceededOnceOnline
    /\ UNCHANGED <<input, attempt, polls, port, room, rowVars, deviceVars, assigned>>

PollAgain ==
    /\ pc = "poll"
    /\ polls < MaxPolls
    /\ polls' = polls + 1
    /\ UNCHANGED <<input, pc, attempt, port, succeeded, room, rowVars, deviceVars, assigned>>

GivesUpForgotten == FALSE

\* The deadline has passed: ok is false, and the attempt is lost.
PollTimesOut ==
    /\ pc = "poll"
    /\ polls = MaxPolls
    /\ NextAttempt
    /\ UNCHANGED <<input, attempt, polls, port, succeeded, room, rowVars, deviceVars, assigned>>

\* No database connection: the room is named in the row and not assigned.
SkipRoom ==
    /\ pc = "room"
    /\ ~hasRepo
    /\ room' = "name_only"
    /\ succeeded' = TRUE
    /\ pc' = "report"
    /\ UNCHANGED <<input, attempt, polls, port, rowVars, deviceVars, assigned>>

\* GetUserByEmail or GetLodging fails: the loop is left, there is no retry.
RoomUnknown ==
    /\ pc = "room"
    /\ hasRepo
    /\ pc' = "report"
    /\ UNCHANGED <<input, attempt, polls, port, succeeded, room, rowVars, deviceVars, assigned>>

\* FindOrCreateZone and AssignDeviceToZone succeed.
AssignRoom ==
    /\ pc = "room"
    /\ hasRepo
    /\ assigned' = TRUE
    /\ room' = "name_and_id"
    /\ succeeded' = TRUE
    /\ pc' = "report"
    /\ UNCHANGED <<input, attempt, polls, port, rowVars, deviceVars>>

\* One of the two fails, with or without effect: the attempt is lost, and the
\* next one provisions the device all over again.
AssignRoomFails ==
    /\ pc = "room"
    /\ hasRepo
    /\ assigned' \in {assigned, TRUE}
    /\ NextAttempt
    /\ UNCHANGED <<input, attempt, polls, port, succeeded, room, rowVars, deviceVars>>

Row == IF succeeded THEN "succeeded" ELSE "failed"

\* The LEDs, then writeResult.
Report ==
    /\ pc = "report"
    /\ WriteRow(Row, room)
    /\ pc' = "done"
    /\ UNCHANGED <<input, attempt, polls, port, succeeded, room, deviceVars, assigned>>

-----------------------------------------------------------------------------
(* The device (external).                                                  *)

\* With credentials it holds it connects to WiFi and MQTT, or loses them again;
\* its status may lag behind credentials that change.
DeviceConnects ==
    /\ device = "up"
    /\ online \/ config # "none"
    /\ online' = ~online
    /\ UNCHANGED <<input, pc, attempt, polls, port, succeeded, room, rowVars, device, config, refused, assigned>>

DeviceBoots ==
    /\ device = "rebooting"
    /\ device' = "up"
    /\ UNCHANGED <<input, pc, attempt, polls, port, succeeded, room, rowVars, config, online, refused, assigned>>

\* It resets by itself or leaves the bus for good, and readLoop ends.
DeviceLeaves ==
    /\ device \in {"up", "rebooting"}
    /\ device' \in {"rebooting", "gone"} \ {device}
    /\ online' = FALSE
    /\ port' = IF port = "open" THEN "deaf" ELSE port
    /\ UNCHANGED <<input, pc, attempt, polls, succeeded, room, rowVars, config, refused, assigned>>

-----------------------------------------------------------------------------
Worker ==
    \/ GetInfo \/ BeginAttempt \/ Reopen \/ Unprovision \/ SendProvision
    \/ PollOnline \/ PollAgain \/ PollTimesOut
    \/ SkipRoom \/ RoomUnknown \/ AssignRoom \/ AssignRoomFails \/ Report

Device == DeviceConnects \/ DeviceBoots \/ DeviceLeaves

Next == Worker \/ Device

Spec == Init /\ [][Next]_vars

\* Every step of the worker ends: RPCs and polls have deadlines.
FairSpec == Spec /\ WF_vars(Worker)

-----------------------------------------------------------------------------
(* Properties.                                                             *)

\* A row that says succeeded is of a device that holds this deployment's
\* credentials, although clearing the earlier ones may have failed and a device
\* with those may report it is online: a request that failed or was not answered
\* is never taken for one that was carried out. The one exception is a device
\* that ended the latest provision call itself, which the worker cannot tell
\* from one that took the credentials.
SucceededMeansProvisioned == row = "succeeded" => config = "ours" \/ refused

\* A row that gives a room id is of a device the database has in that room;
\* and when the setting asks for a room, a succeeded row has the id if there is
\* a database and lacks it if there is none.
SucceededMeansAssigned ==
    /\ rowRoom = "name_and_id" => assigned
    /\ row = "succeeded" /\ wantsRoom => (hasRepo <=> rowRoom = "name_and_id")

\* Every worker ends, with a row written or lost in writing it, after
\* MaxRetries attempts at most.
WorkerEnds == <>(pc = "done" /\ row # "none")

=============================================================================
