------------------------------- MODULE Zones -------------------------------
(***************************************************************************)
(* Rooms and device assignments in the platform database, as               *)
(* internal/database/repository.go changes them: the workers of deploy     *)
(* call FindOrCreateZone and AssignDeviceToZone, each one a sequence of    *)
(* statements without a transaction around it, while delete-device runs    *)
(* DeleteDevices in another process and delete-property runs DeleteLodging *)
(* in a third. All is within one lodging.                                  *)
(*                                                                         *)
(* The schema is external to the repository: a zone name need not be       *)
(* unique, a device refers to a zone that exists, and a zone some device   *)
(* refers to cannot be deleted; a zone needs its lodging, and goes with it *)
(* ("zones cascade at the DB level"). A statement that fails may have      *)
(* worked.                                                                 *)
(***************************************************************************)
EXTENDS Naturals, Sequences, FiniteSets

CONSTANTS
    Devices,      \* devices that are deployed, one worker each
    RoomOf,       \* the room in the setting of each
    Matching,     \* the devices that delete-device asks for
    DeleteRooms,  \* its flag --delete-room
    MaxAttempts,  \* DeployOptions.MaxRetries
    MaxMisread    \* bound: failed queries of rooms that exist

ASSUME ZonesAssumption ==
    /\ IsFiniteSet(Devices)
    /\ DOMAIN RoomOf = Devices
    /\ \A d \in Devices : RoomOf[d] # "deleted"   \* it marks a row that is gone
    /\ Matching \subseteq Devices
    /\ DeleteRooms \in BOOLEAN
    /\ MaxAttempts \in Nat \ {0}
    /\ MaxMisread \in Nat

VARIABLES
    zone,      \* the zone table: the room each row names, or "deleted"
    zoneOf,    \* the device table: the zone of each device, 0 for none
    pc,        \* what each worker is about to do
    attempts,  \* attempts it has left
    found,     \* the zone FindOrCreateZone returned to it
    misread,   \* rooms that a failed query took for missing (history)
    deleter,   \* DeleteDevices: "idle", "clear", "delete_room", "end"
    devices,   \* its query result: the devices, with the zone read for each
    current,   \* the one it is at
    lodging,   \* the lodging table: the row is there
    integrated,\* the lodging_integration table: it has rows for it
    remover    \* DeleteLodging: "idle", "integrations", "lodging", "end"

vars == <<zone, zoneOf, pc, attempts, found, misread, deleter, devices, current,
          lodging, integrated, remover>>
workerVars == <<pc, attempts, found, misread>>
deleterVars == <<deleter, devices, current>>
lodgingVars == <<lodging, integrated, remover>>

ZoneIds == 1 .. Len(zone)
Unassigned == 0
NoDevice == [device |-> "none", zone |-> Unassigned]

\* Any device may have been assigned to a room of its own before.
Init ==
    /\ zone = <<"old">>
    /\ zoneOf \in [Devices -> {Unassigned, 1}]
    /\ pc = [d \in Devices |-> "find"]
    /\ attempts = [d \in Devices |-> MaxAttempts]
    /\ found = [d \in Devices |-> Unassigned]
    /\ misread = {}
    /\ deleter = "idle"
    /\ devices = {}
    /\ current = NoDevice
    /\ lodging = TRUE
    /\ integrated = TRUE
    /\ remover = "idle"

-----------------------------------------------------------------------------
(* The worker of device d, in DeployDevice.                                *)

Goto(d, step) == pc' = [pc EXCEPT ![d] = step]

AttemptsLeft(d) == attempts[d] > 1

\* The error is returned: the attempt is lost, the next one begins at the top.
Retry(d) ==
    /\ attempts' = [attempts EXCEPT ![d] = @ - 1]
    /\ Goto(d, IF AttemptsLeft(d) THEN "find" ELSE "failed")

\* Deliberate faults, here and below, with which the properties must fail.
FirstZone(d) == {z \in ZoneIds : zone[z] # "deleted"}
AlwaysCreate(d) == {}

\* The rows with the lodging and the name of the setting.
ZonesFound(d) == {z \in ZoneIds : zone[z] = RoomOf[d]}

\* FindOrCreateZone, first statement: the first row by id. Every error counts
\* as not found, that of a query that fails too.
FindZone(d) ==
    /\ pc[d] = "find"
    /\ \/ /\ ZonesFound(d) = {} \/ Cardinality(misread) < MaxMisread
          /\ Goto(d, "create")
          /\ misread' = IF ZonesFound(d) = {} THEN misread ELSE misread \cup {RoomOf[d]}
          /\ UNCHANGED found
       \/ /\ \E z \in ZonesFound(d) :
                /\ \A y \in ZonesFound(d) : z <= y
                /\ found' = [found EXCEPT ![d] = z]
          /\ Goto(d, "assign")
          /\ UNCHANGED misread
    /\ UNCHANGED <<zone, zoneOf, attempts, deleterVars, lodgingVars>>

\* FindOrCreateZone, second statement.
CreateZone(d) ==
    /\ pc[d] = "create"
    /\ lodging
    /\ zone' = Append(zone, RoomOf[d])
    /\ \/ /\ found' = [found EXCEPT ![d] = Len(zone) + 1]
          /\ Goto(d, "assign")
          /\ UNCHANGED attempts
       \/ Retry(d) /\ UNCHANGED found
    /\ UNCHANGED <<zoneOf, misread, deleterVars, lodgingVars>>

CreateZoneFails(d) ==
    /\ pc[d] = "create"
    /\ Retry(d)
    /\ UNCHANGED <<zone, zoneOf, found, misread, deleterVars, lodgingVars>>

\* AssignDeviceToZone: the row of the device is updated, or inserted.
AssignDevice(d) ==
    /\ pc[d] = "assign"
    /\ zone[found[d]] # "deleted"
    /\ zoneOf' = [zoneOf EXCEPT ![d] = found[d]]
    /\ \/ Goto(d, "done") /\ UNCHANGED attempts
       \/ Retry(d)
    /\ UNCHANGED <<zone, found, misread, deleterVars, lodgingVars>>

AssignDeviceFails(d) ==
    /\ pc[d] = "assign"
    /\ Retry(d)
    /\ UNCHANGED <<zone, zoneOf, found, misread, deleterVars, lodgingVars>>

-----------------------------------------------------------------------------
(* DeleteDevices, in another process.                                      *)

AllDevices == Devices

\* The conditions of the query.
Asked == Matching

\* The query: the matching devices that are in a zone, with that zone.
FindDevices ==
    /\ deleter = "idle"
    /\ devices' = {[device |-> d, zone |-> zoneOf[d]] :
                      d \in {e \in Asked : zoneOf[e] # Unassigned}}
    /\ deleter' = "clear"
    /\ UNCHANGED <<zone, zoneOf, workerVars, current, lodgingVars>>

\* Save of the row as it was read, with no zone: what has been written to it
\* since is overwritten. An error ends the call.
ClearZone ==
    /\ deleter = "clear"
    /\ \E dev \in devices :
          /\ devices' = devices \ {dev}
          /\ \/ /\ zoneOf' = [zoneOf EXCEPT ![dev.device] = Unassigned]
                /\ current' = dev
                /\ deleter' = IF DeleteRooms THEN "delete_room" ELSE "clear"
             \/ /\ zoneOf' \in {zoneOf, [zoneOf EXCEPT ![dev.device] = Unassigned]}
                /\ deleter' = "end"
                /\ UNCHANGED current
    /\ UNCHANGED <<zone, workerVars, lodgingVars>>

\* The zone that was read for the device goes, unless a device refers to it.
DeleteRoom ==
    /\ deleter = "delete_room"
    /\ \/ /\ \A d \in Devices : zoneOf[d] # current.zone
          /\ zone' = [zone EXCEPT ![current.zone] = "deleted"]
          /\ deleter' \in {"clear", "end"}
       \/ UNCHANGED zone /\ deleter' = "end"
    /\ UNCHANGED <<zoneOf, workerVars, devices, current, lodgingVars>>

EndDelete ==
    /\ deleter = "clear"
    /\ devices = {}
    /\ deleter' = "end"
    /\ UNCHANGED <<zone, zoneOf, workerVars, devices, current, lodgingVars>>

-----------------------------------------------------------------------------
(* DeleteLodging, in a third process, for the one lodging of the owner.    *)

\* The query finds the lodging. (One that fails ends the call at once.)
FindLodgings ==
    /\ remover = "idle"
    /\ remover' = "integrations"
    /\ UNCHANGED <<zone, zoneOf, workerVars, deleterVars, lodging, integrated>>

DeleteIntegrations ==
    /\ remover = "integrations"
    /\ integrated' \in {integrated, FALSE}
    /\ remover' \in {"end"} \cup (IF integrated' THEN {} ELSE {"lodging"})
    /\ UNCHANGED <<zone, zoneOf, workerVars, deleterVars, lodging>>

\* No device refers to a zone of the lodging.
NoDeviceLeft == \A d \in Devices : zoneOf[d] = Unassigned

DeleteLodgings ==
    /\ remover = "lodging"
    /\ \/ /\ NoDeviceLeft
          /\ lodging' = FALSE
          /\ zone' = [z \in ZoneIds |-> "deleted"]
       \/ UNCHANGED <<lodging, zone>>
    /\ remover' = "end"
    /\ UNCHANGED <<zoneOf, workerVars, deleterVars, integrated>>

-----------------------------------------------------------------------------
Worker(d) ==
    \/ FindZone(d) \/ CreateZone(d) \/ CreateZoneFails(d)
    \/ AssignDevice(d) \/ AssignDeviceFails(d)

Deleter == FindDevices \/ ClearZone \/ DeleteRoom \/ EndDelete

Remover == FindLodgings \/ DeleteIntegrations \/ DeleteLodgings

Next == Deleter \/ Remover \/ \E d \in Devices : Worker(d)

Spec == Init /\ [][Next]_vars

-----------------------------------------------------------------------------
(* Properties.                                                             *)

\* A device whose worker has reported a room is in that room of the database,
\* under the id in the report, also when delete-device clears other devices
\* and removes rooms, or delete-property the lodging, between the worker's
\* statements.
ReportedRoomIsAssigned ==
    \A d \in Devices \ Matching :
        pc[d] = "done" => zoneOf[d] = found[d] /\ zone[found[d]] = RoomOf[d]

\* A room that only one device asks for is created once, however many of its
\* attempts fail after the insert, as long as no query for it fails.
OwnRoomCreatedOnce ==
    \A d \in Devices :
        RoomOf[d] \notin misread /\ (\A e \in Devices \ {d} : RoomOf[e] # RoomOf[d]) =>
            Cardinality({z \in ZoneIds : zone[z] = RoomOf[d]}) <= 1

\* delete-device takes no room from a device it was not asked for, not even
\* from one that shares a room which --delete-room removes.
OthersKeepTheirRoom ==
    [][\A d \in Devices \ Matching : zoneOf[d] # Unassigned => zoneOf'[d] # Unassigned]_vars

=============================================================================
