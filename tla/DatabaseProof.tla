--------------------------- MODULE DatabaseProof ---------------------------
(***************************************************************************)
(* Proofs about what the platform database holds. Zones: what it promises  *)
(* to the caller of deploy, for every set of devices, every assignment of  *)
(* rooms to them, every choice of devices for delete-device and every      *)
(* number of attempts. Account: create-account for every set of runs and   *)
(* every number of polls, and the configuration it works with, for         *)
(* whatever the files and the variables say.                               *)
(***************************************************************************)
EXTENDS Zones, Account, InductionLemmas, FiniteSetTheorems, TLAPS

-----------------------------------------------------------------------------
(* Rooms and devices.                                                      *)

RoomNames == {RoomOf[d] : d \in Devices} \cup {"old", "deleted"}

\* Ids are never given back: a zone is marked, so an id that was read from the
\* table stays an id of it.
ZonesType ==
    /\ zone \in Seq(RoomNames)
    /\ zoneOf \in [Devices -> 0 .. Len(zone)]
    /\ pc \in [Devices -> {"find", "create", "assign", "done", "failed"}]
    /\ found \in [Devices -> 0 .. Len(zone)]

\* DeleteDevices works on the rows of its query, whatever happens after it.
DeleterType ==
    /\ devices \subseteq [device : Matching, zone : ZoneIds]
    /\ deleter = "delete_room" => current \in [device : Matching, zone : ZoneIds]

\* The room FindOrCreateZone returned has the name of the setting as long as it
\* is there.
FoundIsNamed ==
    \A d \in Devices :
        pc[d] \in {"assign", "done"} =>
            found[d] \in ZoneIds /\ zone[found[d]] \in {RoomOf[d], "deleted"}

Alone(d) == \A e \in Devices \ {d} : RoomOf[e] # RoomOf[d]

\* A worker that nobody competes with inserts a room when there is none.
CreatedWhenMissing ==
    \A d \in Devices :
        RoomOf[d] \notin misread /\ Alone(d) =>
            /\ pc[d] = "create" => ZonesFound(d) = {}
            /\ \A y, z \in ZonesFound(d) : y = z

IInv ==
    /\ ZonesType
    /\ DeleterType
    /\ FoundIsNamed
    /\ ReportedRoomIsAssigned
    /\ CreatedWhenMissing

-----------------------------------------------------------------------------
\* A new zone gets the next id and leaves the others as they are.
LEMMA AppendRoom ==
    ASSUME NEW s \in Seq(RoomNames), NEW r \in RoomNames, NEW t, t = Append(s, r)
    PROVE  /\ t \in Seq(RoomNames)
           /\ Len(t) = Len(s) + 1
           /\ t[Len(s) + 1] = r
           /\ \A i \in 1 .. Len(s) : t[i] = s[i]
  OBVIOUS

\* What a statement does to the zone table: it marks rows, or adds one.
Marked(old, new) ==
    /\ new \in Seq(RoomNames)
    /\ Len(new) = Len(old)
    /\ \A z \in 1 .. Len(old) : new[z] \in {old[z], "deleted"}

\* A zone that goes is marked, and no other.
LEMMA MarkOne ==
    ASSUME NEW s \in Seq(RoomNames), NEW i \in 1 .. Len(s), NEW t,
           t = [s EXCEPT ![i] = "deleted"]
    PROVE  /\ Marked(s, t)
           /\ \A z \in 1 .. Len(s) : z # i => t[z] = s[z]
  <1>1. "deleted" \in RoomNames
    BY DEF RoomNames
  <1>2. t \in Seq(RoomNames) /\ Len(t) = Len(s)
    BY <1>1
  <1>3. \A z \in 1 .. Len(s) : t[z] = IF z = i THEN "deleted" ELSE s[z]
    OBVIOUS
  <1> QED
    BY <1>2, <1>3 DEF Marked

\* When the lodging goes all its zones are marked.
LEMMA MarkAll ==
    ASSUME NEW s \in Seq(RoomNames), NEW t, t = [z \in 1 .. Len(s) |-> "deleted"]
    PROVE  Marked(s, t)
  <1>1. "deleted" \in RoomNames
    BY DEF RoomNames
  <1>2. Len(s) \in Nat
    OBVIOUS
  <1>3. t \in Seq(RoomNames) /\ Len(t) = Len(s)
    BY <1>1, <1>2
  <1>4. \A z \in 1 .. Len(s) : t[z] = "deleted"
    OBVIOUS
  <1> QED
    BY <1>3, <1>4 DEF Marked

\* The effect of every step on the zone table: an id stays an id, a row keeps
\* its name or is marked, and the only row that is added is CreateZone's.
LEMMA ZoneTable ==
    ASSUME ZonesType, DeleterType, Next
    PROVE  /\ zone' \in Seq(RoomNames)
           /\ Len(zone') >= Len(zone)
           /\ \A z \in ZoneIds : zone'[z] \in {zone[z], "deleted"}
           /\ \/ Len(zone') = Len(zone)
              \/ \E d \in Devices : CreateZone(d)
  <1> USE DEF ZonesType
  <1>1. CASE Marked(zone, zone')
    BY <1>1 DEF Marked, ZoneIds
  <1>2. CASE UNCHANGED zone
    BY <1>2 DEF ZoneIds
  <1>3. CASE DeleteRoom
    <2>1. CASE zone' = [zone EXCEPT ![current.zone] = "deleted"]
      <3>1. current.zone \in 1 .. Len(zone)
        BY <1>3 DEF DeleteRoom, DeleterType, ZoneIds
      <3> QED
        BY <2>1, <3>1, MarkOne, <1>1
    <2> QED
      BY <1>2, <1>3, <2>1 DEF DeleteRoom
  <1>4. CASE DeleteLodgings
    <2>1. CASE zone' = [z \in ZoneIds |-> "deleted"]
      BY <1>1, <2>1, MarkAll DEF ZoneIds
    <2> QED
      BY <1>2, <1>4, <2>1 DEF DeleteLodgings
  <1>5. ASSUME NEW d \in Devices, CreateZone(d)
        PROVE  /\ zone' \in Seq(RoomNames)
               /\ Len(zone') = Len(zone) + 1
               /\ \A z \in ZoneIds : zone'[z] = zone[z]
    <2>1. RoomOf[d] \in RoomNames
      BY DEF RoomNames
    <2> QED
      BY <1>5, <2>1, AppendRoom DEF CreateZone, ZoneIds
  <1>6. CASE \E d \in Devices : Worker(d)
    <2>1. PICK d \in Devices : Worker(d)
      BY <1>6
    <2>2. CASE CreateZone(d)
      BY <1>5, <2>2
    <2> QED
      BY <1>2, <2>1, <2>2
      DEF Worker, FindZone, CreateZoneFails, AssignDevice, AssignDeviceFails
  <1>7. CASE FindDevices \/ ClearZone \/ EndDelete \/ FindLodgings \/ DeleteIntegrations
    BY <1>2, <1>7 DEF FindDevices, ClearZone, EndDelete, FindLodgings, DeleteIntegrations
  <1> QED
    BY <1>3, <1>4, <1>6, <1>7 DEF Next, Deleter, Remover

-----------------------------------------------------------------------------
Steps == {"find", "create", "assign", "done", "failed"}

\* A worker whose attempt is lost begins again or gives up; no other moves.
LEMMA RetryMoves ==
    ASSUME ZonesType, NEW d \in Devices, Retry(d)
    PROVE  \E next \in {"find", "failed"} : pc' = [pc EXCEPT ![d] = next]
  BY DEF Retry, Goto

\* A step of a worker moves that worker alone, and to a step of the loop.
LEMMA WorkerMoves ==
    ASSUME ZonesType, NEW d \in Devices, Worker(d)
    PROVE  \E next \in Steps : pc' = [pc EXCEPT ![d] = next]
  <1>1. CASE Retry(d)
    BY <1>1, RetryMoves DEF Steps
  <1>2. CASE \E next \in Steps : Goto(d, next)
    BY <1>2 DEF Goto
  <1> QED
    BY <1>1, <1>2 DEF Worker, FindZone, CreateZone, CreateZoneFails, AssignDevice,
                      AssignDeviceFails, Steps

\* What a worker has found is a zone, and its device is assigned to what it has
\* found.
LEMMA WorkerAssigns ==
    ASSUME ZonesType, FoundIsNamed, NEW d \in Devices, Worker(d)
    PROVE  /\ \/ UNCHANGED found
              \/ \E z \in 1 .. Len(zone') : found' = [found EXCEPT ![d] = z]
           /\ \/ UNCHANGED zoneOf
              \/ /\ AssignDevice(d)
                 /\ found[d] \in ZoneIds
                 /\ zoneOf' = [zoneOf EXCEPT ![d] = found[d]]
  <1> USE DEF ZonesType
  <1>1. CASE FindZone(d)
    BY <1>1 DEF FindZone, ZonesFound, ZoneIds
  <1>2. CASE CreateZone(d)
    <2>1. RoomOf[d] \in RoomNames
      BY DEF RoomNames
    <2>2. Len(zone') = Len(zone) + 1
      BY <1>2, <2>1, AppendRoom DEF CreateZone
    <2>3. PICK z : z = Len(zone) + 1
      OBVIOUS
    <2>4. z \in 1 .. Len(zone')
      BY <2>2, <2>3
    <2>5. UNCHANGED found \/ found' = [found EXCEPT ![d] = z]
      BY <1>2, <2>3 DEF CreateZone
    <2> QED
      BY <1>2, <2>4, <2>5 DEF CreateZone
  <1>3. CASE AssignDevice(d)
    BY <1>3 DEF AssignDevice, FoundIsNamed
  <1>4. CASE CreateZoneFails(d) \/ AssignDeviceFails(d)
    BY <1>4 DEF CreateZoneFails, AssignDeviceFails
  <1> QED
    BY <1>1, <1>2, <1>3, <1>4 DEF Worker

\* What the two other processes write to the device table: a device of Matching
\* loses its zone.
LEMMA OthersAssign ==
    ASSUME ZonesType, DeleterType, Deleter \/ Remover
    PROVE  /\ UNCHANGED <<pc, found, misread>>
           /\ \/ UNCHANGED zoneOf
              \/ \E d \in Matching : zoneOf' = [zoneOf EXCEPT ![d] = Unassigned]
  <1>1. CASE ClearZone
    BY <1>1 DEF ClearZone, DeleterType, workerVars
  <1>2. CASE FindDevices \/ DeleteRoom \/ EndDelete \/ Remover
    BY <1>2 DEF FindDevices, DeleteRoom, EndDelete, Remover, FindLodgings,
                DeleteIntegrations, DeleteLodgings, workerVars
  <1> QED
    BY <1>1, <1>2 DEF Deleter

\* The types of the shared tables and of the workers are kept.
LEMMA TypeKept ==
    ASSUME ZonesAssumption, ZonesType, DeleterType, FoundIsNamed, Next
    PROVE  ZonesType'
  <1>1. zone' \in Seq(RoomNames) /\ Len(zone') >= Len(zone)
    BY ZoneTable
  <1>2. Len(zone) \in Nat /\ Len(zone') \in Nat
    BY <1>1 DEF ZonesType
  <1>3. ZoneIds \subseteq 0 .. Len(zone') /\ 0 .. Len(zone) \subseteq 0 .. Len(zone')
    BY <1>1, <1>2 DEF ZoneIds
  <1>4. pc' \in [Devices -> Steps]
    <2>1. CASE Deleter \/ Remover
      BY <2>1, OthersAssign DEF ZonesType, Steps
    <2>2. CASE \E d \in Devices : Worker(d)
      <3>1. PICK d \in Devices, next \in Steps : pc' = [pc EXCEPT ![d] = next]
        BY <2>2, WorkerMoves
      <3> QED
        BY <3>1 DEF ZonesType, Steps
    <2> QED
      BY <2>1, <2>2 DEF Next
  <1>5. found' \in [Devices -> 0 .. Len(zone')] /\ zoneOf' \in [Devices -> 0 .. Len(zone')]
    <2> SUFFICES ASSUME found \in [Devices -> 0 .. Len(zone')],
                        zoneOf \in [Devices -> 0 .. Len(zone')]
                 PROVE  /\ found' \in [Devices -> 0 .. Len(zone')]
                        /\ zoneOf' \in [Devices -> 0 .. Len(zone')]
      BY <1>2, <1>3 DEF ZonesType
    <2>1. CASE Deleter \/ Remover
      <3>1. Unassigned \in 0 .. Len(zone')
        BY <1>2 DEF Unassigned
      <3> QED
        BY <2>1, <3>1, OthersAssign
    <2>2. CASE \E d \in Devices : Worker(d)
      <3>1. PICK d \in Devices : Worker(d)
        BY <2>2
      <3>2. /\ \/ UNCHANGED found
               \/ \E z \in 1 .. Len(zone') : found' = [found EXCEPT ![d] = z]
            /\ \/ UNCHANGED zoneOf
               \/ \E z \in ZoneIds : zoneOf' = [zoneOf EXCEPT ![d] = z]
        BY <3>1, WorkerAssigns
      <3>3. 1 .. Len(zone') \subseteq 0 .. Len(zone')
        BY <1>2
      <3> QED
        BY <3>2, <3>3, <1>3
    <2> QED
      BY <2>1, <2>2 DEF Next
  <1> QED
    BY <1>1, <1>4, <1>5 DEF ZonesType, Steps

-----------------------------------------------------------------------------
\* What DeleteDevices has read stays ids of the zone table.
LEMMA DeleterKept ==
    ASSUME ZonesAssumption, ZonesType, DeleterType, Next
    PROVE  DeleterType'
  <1>1. ZoneIds \subseteq ZoneIds'
    BY ZoneTable DEF ZonesType, ZoneIds
  <1>2. CASE FindDevices
    <2>1. ASSUME NEW d \in Devices, zoneOf[d] # Unassigned
          PROVE  zoneOf[d] \in ZoneIds
      BY <2>1 DEF ZonesType, ZoneIds, Unassigned
    <2>2. devices' \subseteq [device : Matching, zone : ZoneIds]
      BY <1>2, <2>1 DEF FindDevices, Asked, ZonesAssumption
    <2> QED
      BY <1>1, <1>2, <2>2 DEF FindDevices, DeleterType
  <1>3. CASE ClearZone
    BY <1>1, <1>3 DEF ClearZone, DeleterType
  <1>4. CASE DeleteRoom
    BY <1>1, <1>4 DEF DeleteRoom, DeleterType
  <1>5. CASE EndDelete
    BY <1>1, <1>5 DEF EndDelete, DeleterType
  <1>6. CASE Remover
    <2>1. UNCHANGED <<deleter, devices, current>>
      BY <1>6 DEF Remover, FindLodgings, DeleteIntegrations, DeleteLodgings, deleterVars
    <2> QED
      BY <1>1, <2>1 DEF DeleterType
  <1>7. CASE \E d \in Devices : Worker(d)
    <2>1. UNCHANGED <<deleter, devices, current>>
      BY <1>7 DEF Worker, FindZone, CreateZone, CreateZoneFails, AssignDevice,
                  AssignDeviceFails, deleterVars
    <2> QED
      BY <1>1, <2>1 DEF DeleterType
  <1> QED
    BY <1>2, <1>3, <1>4, <1>5, <1>6, <1>7 DEF Next, Deleter

\* The name of a found room is kept by every step of everybody else.
LEMMA NameKept ==
    ASSUME ZonesType, DeleterType, Next, NEW d \in Devices,
           found[d] \in ZoneIds, zone[found[d]] \in {RoomOf[d], "deleted"},
           found'[d] = found[d]
    PROVE  found'[d] \in ZoneIds' /\ zone'[found'[d]] \in {RoomOf[d], "deleted"}
  BY ZoneTable DEF ZonesType, ZoneIds

\* Workers are given rooms of their setting: a room is found by its name, or made
\* with it.
LEMMA FoundKept ==
    ASSUME ZonesType, DeleterType, FoundIsNamed, Next
    PROVE  FoundIsNamed'
  <1> SUFFICES ASSUME NEW d \in Devices, pc'[d] \in {"assign", "done"}
               PROVE  found'[d] \in ZoneIds' /\ zone'[found'[d]] \in {RoomOf[d], "deleted"}
    BY DEF FoundIsNamed
  <1>1. CASE pc[d] \in {"assign", "done"} /\ found'[d] = found[d]
    BY <1>1, NameKept DEF FoundIsNamed
  <1>2. CASE Deleter \/ Remover
    BY <1>1, <1>2, OthersAssign
  <1>3. ASSUME NEW e \in Devices, Worker(e), e # d
        PROVE  pc'[d] = pc[d] /\ found'[d] = found[d]
    <2>1. PICK next \in Steps : pc' = [pc EXCEPT ![e] = next]
      BY <1>3, WorkerMoves
    <2> QED
      BY <1>3, <2>1, WorkerAssigns DEF ZonesType
  <1>4. CASE FindZone(d)
    <2>1. pc'[d] = "assign" /\ UNCHANGED zone
      BY <1>4 DEF FindZone, Goto, ZonesType
    <2>2. PICK z \in ZonesFound(d) : found' = [found EXCEPT ![d] = z]
      BY <1>4, <2>1 DEF FindZone, Goto, ZonesType
    <2> QED
      BY <2>1, <2>2 DEF ZonesFound, ZoneIds, ZonesType
  <1>5. CASE CreateZone(d)
    <2>1. found' = [found EXCEPT ![d] = Len(zone) + 1]
      BY <1>5, RetryMoves DEF CreateZone, ZonesType
    <2>2. RoomOf[d] \in RoomNames
      BY DEF RoomNames
    <2>3. Len(zone') = Len(zone) + 1 /\ zone'[Len(zone) + 1] = RoomOf[d]
      BY <1>5, <2>2, AppendRoom DEF CreateZone, ZonesType
    <2>4. found'[d] = Len(zone) + 1
      BY <2>1 DEF ZonesType
    <2> QED
      BY <2>3, <2>4 DEF ZoneIds, ZonesType
  <1>6. CASE AssignDevice(d)
    BY <1>1, <1>6 DEF AssignDevice
  <1>7. CASE CreateZoneFails(d) \/ AssignDeviceFails(d)
    BY <1>7, RetryMoves DEF CreateZoneFails, AssignDeviceFails, ZonesType
  <1>8. CASE Worker(d)
    BY <1>4, <1>5, <1>6, <1>7, <1>8 DEF Worker
  <1>9. CASE \E e \in Devices : Worker(e)
    <2>1. PICK e \in Devices : Worker(e)
      BY <1>9
    <2> QED
      BY <1>1, <1>3, <1>8, <2>1
  <1> QED
    BY <1>2, <1>9 DEF Next

-----------------------------------------------------------------------------
\* A row that some device refers to is not marked: the schema refuses to delete it.
LEMMA ReferredRoomStays ==
    ASSUME ZonesType, DeleterType, Next,
           NEW d \in Devices, zoneOf[d] \in ZoneIds
    PROVE  zone'[zoneOf[d]] = zone[zoneOf[d]]
  <1> USE DEF ZonesType
  <1>1. CASE UNCHANGED zone
    BY <1>1
  <1>2. CASE DeleteRoom
    <2>1. CASE /\ zoneOf[d] # current.zone
               /\ zone' = [zone EXCEPT ![current.zone] = "deleted"]
      BY <2>1 DEF ZoneIds
    <2> QED
      BY <1>1, <1>2, <2>1 DEF DeleteRoom
  <1>3. CASE DeleteLodgings
    <2>1. ~NoDeviceLeft
      BY DEF NoDeviceLeft, ZoneIds, Unassigned
    <2> QED
      BY <1>1, <1>3, <2>1 DEF DeleteLodgings
  <1>4. ASSUME NEW e \in Devices, CreateZone(e)
        PROVE  zone'[zoneOf[d]] = zone[zoneOf[d]]
    <2>1. RoomOf[e] \in RoomNames
      BY DEF RoomNames
    <2> QED
      BY <1>4, <2>1, AppendRoom DEF CreateZone, ZoneIds
  <1>5. CASE \E e \in Devices : Worker(e)
    <2>1. PICK e \in Devices : Worker(e)
      BY <1>5
    <2> QED
      BY <1>1, <1>4, <2>1
      DEF Worker, FindZone, CreateZoneFails, AssignDevice, AssignDeviceFails
  <1>6. CASE FindDevices \/ ClearZone \/ EndDelete \/ FindLodgings \/ DeleteIntegrations
    BY <1>1, <1>6 DEF FindDevices, ClearZone, EndDelete, FindLodgings, DeleteIntegrations
  <1> QED
    BY <1>2, <1>3, <1>5, <1>6 DEF Next, Deleter, Remover

\* The worker reports the room it has just assigned; after that only
\* DeleteDevices writes to the row of the device, and only if it was asked for.
LEMMA ReportKept ==
    ASSUME ZonesAssumption, ZonesType, DeleterType, FoundIsNamed,
           ReportedRoomIsAssigned, Next
    PROVE  ReportedRoomIsAssigned'
  <1> SUFFICES ASSUME NEW d \in Devices \ Matching, pc'[d] = "done"
               PROVE  zoneOf'[d] = found'[d] /\ zone'[found'[d]] = RoomOf[d]
    BY DEF ReportedRoomIsAssigned
  <1>1. CASE pc[d] = "done" /\ found'[d] = found[d] /\ zoneOf'[d] = zoneOf[d]
    <2>1. zoneOf[d] = found[d] /\ zone[found[d]] = RoomOf[d]
      BY <1>1 DEF ReportedRoomIsAssigned
    <2>2. zoneOf[d] \in ZoneIds
      BY <1>1, <2>1 DEF FoundIsNamed
    <2> QED
      BY <1>1, <2>1, <2>2, ReferredRoomStays
  <1>2. CASE Deleter \/ Remover
    BY <1>1, <1>2, OthersAssign DEF ZonesType
  <1>3. ASSUME NEW e \in Devices, Worker(e), e # d
        PROVE  pc'[d] = pc[d] /\ found'[d] = found[d] /\ zoneOf'[d] = zoneOf[d]
    <2>1. PICK next \in Steps : pc' = [pc EXCEPT ![e] = next]
      BY <1>3, WorkerMoves
    <2> QED
      BY <1>3, <2>1, WorkerAssigns DEF ZonesType
  <1>4. CASE AssignDevice(d)
    <2>1. found[d] \in ZoneIds /\ zone[found[d]] = RoomOf[d]
      BY <1>4 DEF AssignDevice, FoundIsNamed
    <2> QED
      BY <1>4, <2>1 DEF AssignDevice, ZonesType
  <1>5. ASSUME Worker(d), ~AssignDevice(d)
        PROVE  FALSE
    <2>1. CASE Retry(d)
      BY <2>1, RetryMoves DEF ZonesType
    <2>2. CASE \E next \in {"create", "assign"} : Goto(d, next)
      BY <2>2 DEF Goto, ZonesType
    <2> QED
      BY <1>5, <2>1, <2>2
      DEF Worker, FindZone, CreateZone, CreateZoneFails, AssignDeviceFails
  <1>6. CASE \E e \in Devices : Worker(e)
    <2>1. PICK e \in Devices : Worker(e)
      BY <1>6
    <2> QED
      BY <1>1, <1>3, <1>4, <1>5, <2>1
  <1> QED
    BY <1>2, <1>6 DEF Next

\* Only a row made for the device can join the rows of its room, and that row is
\* made when there is none.
LEMMA CreatedKept ==
    ASSUME ZonesAssumption, ZonesType, DeleterType, CreatedWhenMissing, Next
    PROVE  CreatedWhenMissing'
  <1> SUFFICES ASSUME NEW d \in Devices, RoomOf[d] \notin misread', Alone(d)
               PROVE  /\ pc'[d] = "create" => ZonesFound(d)' = {}
                      /\ \A y, z \in ZonesFound(d)' : y = z
    BY DEF CreatedWhenMissing, Alone
  <1>1. misread \subseteq misread'
    <2>1. CASE Deleter \/ Remover
      BY <2>1, OthersAssign
    <2>2. CASE \E e \in Devices : Worker(e)
      BY <2>2 DEF Worker, FindZone, CreateZone, CreateZoneFails, AssignDevice,
                  AssignDeviceFails
    <2> QED
      BY <2>1, <2>2 DEF Next
  <1>2. /\ pc[d] = "create" => ZonesFound(d) = {}
        /\ \A y, z \in ZonesFound(d) : y = z
    BY <1>1 DEF CreatedWhenMissing
  <1>3. RoomOf[d] # "deleted"
    BY DEF ZonesAssumption
  <1>4. ASSUME Len(zone') = Len(zone)
        PROVE  ZonesFound(d)' \subseteq ZonesFound(d)
    BY <1>3, <1>4, ZoneTable DEF ZonesFound, ZoneIds
  <1>5. ASSUME NEW e \in Devices, CreateZone(e)
        PROVE  ZonesFound(d)' = ZonesFound(d) \cup
                                 (IF e = d THEN {Len(zone) + 1} ELSE {})
    <2>1. RoomOf[e] \in RoomNames
      BY DEF RoomNames
    <2>2. /\ Len(zone') = Len(zone) + 1
          /\ zone'[Len(zone) + 1] = RoomOf[e]
          /\ \A i \in 1 .. Len(zone) : zone'[i] = zone[i]
      BY <1>5, <2>1, AppendRoom DEF CreateZone, ZonesType
    <2>3. RoomOf[e] = RoomOf[d] <=> e = d
      BY DEF Alone
    <2> QED
      BY <2>2, <2>3 DEF ZonesFound, ZoneIds, ZonesType
  <1>6. CASE pc'[d] = pc[d] /\ Len(zone') = Len(zone)
    BY <1>2, <1>4, <1>6
  <1>7. CASE Deleter \/ Remover
    <2>1. Len(zone') = Len(zone)
      <3>1. ASSUME NEW e \in Devices, CreateZone(e)
            PROVE  pc'[e] # "create"
        BY <3>1, RetryMoves DEF CreateZone, Goto, ZonesType
      <3>2. UNCHANGED pc
        BY <1>7, OthersAssign
      <3> QED
        BY <3>1, <3>2, ZoneTable DEF CreateZone
    <2> QED
      BY <1>6, <1>7, <2>1, OthersAssign
  <1>8. ASSUME NEW e \in Devices, Worker(e), e # d
        PROVE  /\ pc'[d] = "create" => ZonesFound(d)' = {}
               /\ \A y, z \in ZonesFound(d)' : y = z
    <2>1. PICK next \in Steps : pc' = [pc EXCEPT ![e] = next]
      BY <1>8, WorkerMoves
    <2>2. pc'[d] = pc[d]
      BY <1>8, <2>1 DEF ZonesType
    <2>3. CASE CreateZone(e)
      BY <1>2, <1>5, <1>8, <2>2, <2>3
    <2> QED
      BY <1>6, <1>8, <2>2, <2>3
      DEF Worker, FindZone, CreateZoneFails, AssignDevice, AssignDeviceFails
  <1>9. CASE FindZone(d)
    <2>1. UNCHANGED zone
      BY <1>9 DEF FindZone
    <2>2. ZonesFound(d)' = ZonesFound(d)
      BY <2>1 DEF ZonesFound, ZoneIds
    <2>3. ASSUME pc'[d] = "create", ZonesFound(d) # {}
          PROVE  FALSE
      <3>1. pc' # [pc EXCEPT ![d] = "assign"]
        BY <2>3 DEF ZonesType
      <3>2. misread' = misread \cup {RoomOf[d]}
        BY <1>9, <2>3, <3>1 DEF FindZone, Goto
      <3> QED
        BY <3>2
    <2> QED
      BY <1>2, <2>2, <2>3
  <1>10. CASE CreateZone(d)
    <2>1. pc[d] = "create" /\ pc'[d] # "create"
      BY <1>10, RetryMoves DEF CreateZone, Goto, ZonesType
    <2> QED
      BY <1>2, <1>5, <1>10, <2>1
  <1>11. CASE CreateZoneFails(d) \/ AssignDevice(d) \/ AssignDeviceFails(d)
    <2>1. UNCHANGED zone
      BY <1>11 DEF CreateZoneFails, AssignDevice, AssignDeviceFails
    <2>2. ZonesFound(d)' = ZonesFound(d)
      BY <2>1 DEF ZonesFound, ZoneIds
    <2>3. pc'[d] # "create"
      BY <1>11, RetryMoves DEF CreateZoneFails, AssignDevice, AssignDeviceFails, Goto,
                               ZonesType
    <2> QED
      BY <1>2, <2>2, <2>3
  <1>12. CASE \E e \in Devices : Worker(e)
    <2>1. PICK e \in Devices : Worker(e)
      BY <1>12
    <2> QED
      BY <1>8, <1>9, <1>10, <1>11, <2>1 DEF Worker
  <1> QED
    BY <1>7, <1>12 DEF Next

-----------------------------------------------------------------------------
\* The invariant holds at first, when the only row is that of the room devices
\* may have been in before.
LEMMA InitIInv == ASSUME ZonesAssumption, Init PROVE IInv
  <1> USE DEF Init
  <1>1. zone \in Seq(RoomNames) /\ Len(zone) = 1
    BY DEF RoomNames
  <1>2. ZonesType
    BY <1>1 DEF ZonesType, Unassigned
  <1>3. DeleterType /\ FoundIsNamed /\ ReportedRoomIsAssigned
    BY DEF DeleterType, FoundIsNamed, ReportedRoomIsAssigned
  <1>4. CreatedWhenMissing
    BY <1>1 DEF CreatedWhenMissing, ZonesFound, ZoneIds
  <1> QED
    BY <1>2, <1>3, <1>4 DEF IInv

\* Every step keeps it.
LEMMA NextIInv == ASSUME ZonesAssumption, IInv, [Next]_vars PROVE IInv'
  <1>1. CASE Next
    BY <1>1, TypeKept, DeleterKept, FoundKept, ReportKept, CreatedKept DEF IInv
  <1>2. CASE UNCHANGED vars
    BY <1>2 DEF vars, IInv, ZonesType, DeleterType, FoundIsNamed, ReportedRoomIsAssigned,
                CreatedWhenMissing, ZonesFound, ZoneIds, Alone
  <1> QED
    BY <1>1, <1>2

\* The invariant the three theorems rest on.
LEMMA ZonesInvariant == Spec => []IInv
  BY InitIInv, NextIInv, ZonesAssumption, PTL DEF Spec

\* A device whose deployment has reported a room is in that room of the database,
\* and the room has the name of its setting, whatever delete-device and
\* delete-property do between the statements of FindOrCreateZone and
\* AssignDeviceToZone.
THEOREM ReportIsTrue == Spec => []ReportedRoomIsAssigned
  BY ZonesInvariant, PTL DEF IInv

\* Retries of a worker that nobody competes with do not leave a second room of
\* the same name behind, unless a query of FindOrCreateZone fails.
THEOREM RoomCreatedOnce == Spec => []OwnRoomCreatedOnce
  <1>1. IInv => OwnRoomCreatedOnce
    <2> SUFFICES ASSUME IInv, NEW d \in Devices, RoomOf[d] \notin misread, Alone(d)
                 PROVE  Cardinality(ZonesFound(d)) <= 1
      BY DEF OwnRoomCreatedOnce, Alone, ZonesFound
    <2>1. \A y, z \in ZonesFound(d) : y = z
      BY DEF IInv, CreatedWhenMissing
    <2>2. CASE ZonesFound(d) = {}
      BY <2>2, FS_EmptySet
    <2>3. ASSUME NEW z \in ZonesFound(d)
          PROVE  Cardinality(ZonesFound(d)) <= 1
      <3>1. ZonesFound(d) = {z}
        BY <2>1, <2>3
      <3>2. Cardinality(ZonesFound(d)) = 1
        BY <3>1, FS_Singleton
      <3> QED
        BY <3>2
    <2> QED
      BY <2>2, <2>3
  <1> QED
    BY <1>1, ZonesInvariant, PTL

\* delete-device takes the room of no device but those it was asked for.
THEOREM OthersKeepRoom == Spec => OthersKeepTheirRoom
  <1>1. ASSUME IInv, [Next]_vars, NEW d \in Devices \ Matching, zoneOf[d] # Unassigned
        PROVE  zoneOf'[d] # Unassigned
    <2> USE DEF IInv
    <2>1. CASE Deleter \/ Remover
      BY <1>1, <2>1, OthersAssign DEF ZonesType
    <2>2. CASE \E e \in Devices : Worker(e)
      <3>1. PICK e \in Devices : Worker(e)
        BY <2>2
      <3>2. UNCHANGED zoneOf \/ \E z \in ZoneIds : zoneOf' = [zoneOf EXCEPT ![e] = z]
        BY <1>1, <3>1, WorkerAssigns
      <3> QED
        BY <1>1, <3>2 DEF ZonesType, ZoneIds, Unassigned
    <2>3. CASE UNCHANGED vars
      BY <1>1, <2>3 DEF vars
    <2> QED
      BY <1>1, <2>1, <2>2, <2>3 DEF Next
  <1>2. IInv /\ [Next]_vars =>
            [\A d \in Devices \ Matching : zoneOf[d] # Unassigned => zoneOf'[d] # Unassigned]_vars
    BY <1>1
  <1> QED
    BY <1>2, ZonesInvariant, PTL DEF Spec, OthersKeepTheirRoom

-----------------------------------------------------------------------------
(* create-account.                                                         *)

\* The steps of a run whose sign-up Cognito has accepted.
SignedUp == {"connect", "check", "insert_user", "insert_profile", "ok"}
AccountSteps == SignedUp \cup {"idle", "find", "create", "poll", "sign_up", "error"}

AccountTypeOK ==
    /\ step \in [Runs -> AccountSteps]
    /\ polls \in [Runs -> Nat]
    /\ customers \in Nat
    /\ searchable \in Nat
    /\ login \in BOOLEAN
    /\ users \in Nat
    /\ profiles \in Nat

\* Cognito accepts one sign-up, so one run at most is past it, ever.
OneSignUp ==
    /\ \A r \in Runs : step[r] \in SignedUp => login
    /\ \A r, s \in Runs : step[r] \in SignedUp /\ step[s] \in SignedUp => r = s

\* A run goes past Stripe only with a customer that exists; what the search
\* shows is at most what there is.
HasCustomer ==
    /\ searchable <= customers
    /\ \A r \in Runs : step[r] \in SignedUp \cup {"poll", "sign_up"} => customers > 0

\* What the database holds while the run that signed up is at each of its steps.
RowsOfAccount ==
    /\ ~login => users = 0
    /\ \A r \in Runs :
          /\ step[r] \in {"connect", "check", "insert_user"} => users = 0
          /\ step[r] = "insert_profile" => users = 1 /\ profiles = 0
          /\ step[r] = "ok" => users = 1 /\ profiles = 1
    /\ users <= 1
    /\ profiles <= users
    /\ users > 0 => customers > 0

AccountInv == AccountTypeOK /\ OneSignUp /\ HasCustomer /\ RowsOfAccount

-----------------------------------------------------------------------------
\* No run has started, whatever Stripe and Cognito know of the email.
LEMMA AccountInitInv == AccountInit => AccountInv
<1>. SUFFICES ASSUME AccountInit PROVE AccountInv
  OBVIOUS
<1>1. AccountTypeOK
  BY DEF AccountInit, AccountTypeOK, AccountSteps, SignedUp
<1>2. OneSignUp /\ HasCustomer /\ RowsOfAccount
  BY DEF AccountInit, OneSignUp, HasCustomer, RowsOfAccount, SignedUp
<1>. QED
  BY <1>1, <1>2 DEF AccountInv

\* Every step of a run keeps the invariant, whatever the others are doing: the
\* one that could disturb it, an accepted sign-up, finds the username free, so
\* nobody is past it and the database is empty.
LEMMA AccountRunKeeps ==
    ASSUME AccountInv, NEW r \in Runs, Start(r) \/ RunStep(r) \/ Kill(r)
    PROVE  AccountInv'
<1>. USE DEF AccountInv, AccountTypeOK, AccountSteps, SignedUp, OneSignUp, HasCustomer, RowsOfAccount, StepTo,
             settings, stripe, database
<1>1. CASE Start(r)
  BY <1>1 DEF Start
<1>2. CASE Find(r)
  BY <1>2 DEF Find, AfterCustomer
<1>3. CASE CreateCustomer(r)
  BY <1>3 DEF CreateCustomer
<1>4. CASE Poll(r)
  BY <1>4 DEF Poll, PollsLeft, AfterCustomer
<1>5. CASE SignUp(r)
  BY <1>5 DEF SignUp, LoginExists
<1>6. CASE Connect(r)
  BY <1>6 DEF Connect
<1>7. CASE CheckUser(r)
  BY <1>7 DEF CheckUser
<1>8. CASE InsertUser(r)
  BY <1>8 DEF InsertUser, AfterUserRow
<1>9. CASE InsertProfile(r)
  BY <1>9 DEF InsertProfile
<1>10. CASE Kill(r)
  BY <1>10 DEF Kill
<1>. QED
  BY <1>1, <1>2, <1>3, <1>4, <1>5, <1>6, <1>7, <1>8, <1>9, <1>10
     DEF RunStep

\* And so does Stripe's search index.
LEMMA AccountStepInv ==
    ASSUME AccountInv, [AccountNext]_accountVars
    PROVE  AccountInv'
<1>1. CASE IndexCatchesUp
  BY <1>1 DEF IndexCatchesUp, AccountInv, AccountTypeOK, OneSignUp, HasCustomer, RowsOfAccount, settings, database
<1>2. ASSUME NEW r \in Runs, Start(r) \/ RunStep(r) \/ Kill(r)
      PROVE  AccountInv'
  BY <1>2, AccountRunKeeps
<1>3. CASE UNCHANGED accountVars
  BY <1>3 DEF accountVars, AccountInv, AccountTypeOK, OneSignUp, HasCustomer, RowsOfAccount
<1>. QED
  BY <1>1, <1>2, <1>3 DEF AccountNext

LEMMA AccountInvariance == AccountSpec => []AccountInv
  BY AccountInitInv, AccountStepInv, PTL DEF AccountSpec

-----------------------------------------------------------------------------
\* An account reported as created is complete in all three systems, whatever
\* the other runs for the email did in between.
THEOREM ReportedAccountIsComplete == AccountSpec => []OkMeansComplete
<1>1. AccountInv => OkMeansComplete
  BY DEF AccountInv, OkMeansComplete, OneSignUp, HasCustomer, RowsOfAccount, SignedUp
<1>. QED
  BY <1>1, AccountInvariance, PTL

\* There are never two users, or two profiles, for the email, although the
\* check that looks for one and the insert are not one transaction.
THEOREM NoSecondUser == AccountSpec => []OneUser
<1>1. AccountInv => OneUser
  BY DEF AccountInv, AccountTypeOK, OneUser, RowsOfAccount
<1>. QED
  BY <1>1, AccountInvariance, PTL

\* A user row never appears before the login and the customer it needs.
THEOREM UserRowComesLast == AccountSpec => []UserIsBackedUp
<1>1. AccountInv => UserIsBackedUp
  BY DEF AccountInv, AccountTypeOK, UserIsBackedUp, RowsOfAccount
<1>. QED
  BY <1>1, AccountInvariance, PTL

-----------------------------------------------------------------------------
(* The configuration a run loads.                                          *)

\* FirstBut gives unset if there is nothing else, and otherwise the value at
\* the lowest place that has one.
LEMMA FirstIs ==
    ASSUME NEW S, NEW values \in Seq(S), NEW unset
    PROVE  \/ (\A k \in DOMAIN values : values[k] = unset) /\ FirstBut(unset, values) = unset
           \/ \E m \in DOMAIN values :
                 /\ values[m] # unset
                 /\ \A k \in DOMAIN values : values[k] # unset => m <= k
                 /\ FirstBut(unset, values) = values[m]
<1>. DEFINE T == {k \in DOMAIN values : values[k] # unset}
            Least(k) == values[k] # unset /\ \A j \in 1 .. k - 1 : ~(values[j] # unset)
<1>1. CASE T = {}
  BY <1>1 DEF FirstBut
<1>2. CASE T # {}
  <2>1. T \in SUBSET Nat /\ \A k \in T : \A j \in 1 .. k - 1 : j \in DOMAIN values /\ j < k
    OBVIOUS
  <2>2. PICK m \in T : \A n \in T : m <= n
    <3>. HIDE DEF T
    <3>. QED
      BY <1>2, <2>1, LeastNumber
  <2>3. m \in DOMAIN values /\ Least(m)
    BY <2>1, <2>2
  <2>4. FirstBut(unset, values) = values[CHOOSE k \in DOMAIN values : Least(k)]
    BY <2>3 DEF FirstBut
  <2>5. \A k \in DOMAIN values : Least(k) => k = m
    <3>. TAKE k \in DOMAIN values
    <3>1. m \in Nat /\ k \in Nat /\ m >= 1 /\ k >= 1
      BY <2>1, <2>2
    <3>2. ASSUME Least(k) PROVE k = m
      <4>1. m <= k
        BY <2>2, <3>2
      <4>2. ~(m < k)
        BY <2>3, <3>1, <3>2
      <4>. QED
        BY <3>1, <4>1, <4>2
    <3>. QED
      BY <3>2
  <2>6. FirstBut(unset, values) = values[m]
    BY <2>3, <2>4, <2>5
  <2>. QED
    BY <2>2, <2>6
<1>. QED
  BY <1>1, <1>2

\* One of the values, the very first if that is given.
LEMMA FirstButIs ==
    ASSUME NEW S, NEW values \in Seq(S), NEW unset
    PROVE  /\ FirstBut(unset, values) \in S \cup {unset}
           /\ \A k \in DOMAIN values : values[k] # unset => FirstBut(unset, values) \in S \ {unset}
           /\ 1 \in DOMAIN values /\ values[1] # unset => FirstBut(unset, values) = values[1]
<1>1. CASE \A k \in DOMAIN values : values[k] = unset
  BY <1>1, FirstIs
<1>2. ASSUME NEW m \in DOMAIN values, values[m] # unset,
             \A k \in DOMAIN values : values[k] # unset => m <= k,
             FirstBut(unset, values) = values[m]
      PROVE  /\ FirstBut(unset, values) \in S \ {unset}
             /\ 1 \in DOMAIN values /\ values[1] # unset => FirstBut(unset, values) = values[1]
  BY <1>2
<1>. QED
  BY <1>1, <1>2, FirstIs

\* Where a value is missing, the first one may stand as well.
LEMMA FirstStaysFirst ==
    ASSUME NEW S, NEW values \in Seq(S), NEW T, NEW other \in Seq(T), NEW unset,
           DOMAIN other = DOMAIN values,
           \A k \in DOMAIN values :
               \/ other[k] = values[k]
               \/ values[k] = unset /\ other[k] = FirstBut(unset, values)
    PROVE  FirstBut(unset, other) = FirstBut(unset, values)
<1>1. CASE \A k \in DOMAIN values : values[k] = unset
  <2>1. FirstBut(unset, values) = unset
    BY <1>1, FirstIs
  <2>2. \A k \in DOMAIN other : other[k] = unset
    BY <1>1, <2>1
  <2>. QED
    BY <2>1, <2>2, FirstIs
<1>2. CASE \E k \in DOMAIN values : values[k] # unset
  <2>1. PICK n \in DOMAIN values :
            /\ values[n] # unset
            /\ \A k \in DOMAIN values : values[k] # unset => n <= k
            /\ FirstBut(unset, values) = values[n]
    BY <1>2, FirstIs
  <2>2. other[n] = values[n]
    BY <2>1
  <2>3. PICK m \in DOMAIN other :
            /\ other[m] # unset
            /\ \A k \in DOMAIN other : other[k] # unset => m <= k
            /\ FirstBut(unset, other) = other[m]
    BY <2>1, <2>2, FirstIs
  <2>4. m \in Nat /\ n \in Nat /\ m <= n
    BY <2>1, <2>2, <2>3
  <2>5. CASE values[m] # unset
    BY <2>1, <2>2, <2>3, <2>4, <2>5
  <2>6. CASE values[m] = unset
    BY <2>1, <2>3, <2>6
  <2>. QED
    BY <2>5, <2>6
<1>. QED
  BY <1>1, <1>2

\* The environment that is worked in is one that is named.
Named(e) == {e.flag, e.process.WYND_ENV, e.process.ENV, e.yamlEnv, "dev"} \ {""}

LEMMA EnvIsNamed == \A e : Env(e, e.process) \in Named(e)
<1>. TAKE e
<1>. DEFINE S == {e.flag, e.process.WYND_ENV, e.process.ENV, e.yamlEnv, "dev", ""}
            values == <<e.flag, e.process.WYND_ENV, e.process.ENV,
                        IF e.readable THEN e.yamlEnv ELSE "", "dev">>
<1>1. values \in Seq(S) /\ 5 \in DOMAIN values /\ values[5] # "" /\ "" \in S
  OBVIOUS
<1>2. FirstBut("", values) \in S \ {""}
  <2>. HIDE DEF S, values
  <2>. QED
    BY <1>1, FirstButIs
<1>. QED
  BY <1>2 DEF Env, Named

EnvFile(e) == e.envFile[Env(e, e.process)]

\* It names no environment but the one it is of.
OwnFile(e) == {EnvFile(e).ENV, EnvFile(e).WYND_ENV} \subseteq {"", Env(e, e.process)}

\* The .env file fills in only what the process has not set.
LEMMA VariablesAre ==
    ASSUME NEW e, IsWorld(e), NEW key \in Keys
    PROVE  LET value == Variables(e)
           IN  /\ value.compat[key] \in {e.process.compat[key], EnvFile(e).compat[key], None}
               /\ value.wynd[key] \in {e.process.wynd[key], EnvFile(e).wynd[key], None}
               /\ e.process.compat[key] # None => value.compat[key] = e.process.compat[key]
               /\ OwnFile(e) => Env(e, value) = Env(e, e.process)
<1>1. ASSUME NEW x, NEW y, NEW unset
      PROVE  /\ FirstBut(unset, <<x, y>>) \in {x, y, unset}
             /\ x # unset => FirstBut(unset, <<x, y>>) = x
             /\ y = unset => FirstBut(unset, <<x, y>>) = x
  <2>1. <<x, y>> \in Seq({x, y}) /\ DOMAIN <<x, y>> = {1, 2} /\ <<x, y>>[1] = x /\ <<x, y>>[2] = y
    OBVIOUS
  <2>2. /\ FirstBut(unset, <<x, y>>) \in {x, y} \cup {unset}
        /\ x # unset => FirstBut(unset, <<x, y>>) = x
    BY <2>1, FirstButIs
  <2>. QED
    BY <2>2
<1>2. /\ Variables(e).compat[key] = FirstBut(None, <<e.process.compat[key], EnvFile(e).compat[key]>>)
      /\ Variables(e).wynd[key] = FirstBut(None, <<e.process.wynd[key], EnvFile(e).wynd[key]>>)
      /\ Variables(e).ENV = FirstBut("", <<e.process.ENV, EnvFile(e).ENV>>)
      /\ Variables(e).WYND_ENV = FirstBut("", <<e.process.WYND_ENV, EnvFile(e).WYND_ENV>>)
  BY DEF Variables, EnvFile
<1>3. ASSUME OwnFile(e) PROVE Env(e, Variables(e)) = Env(e, e.process)
  <2>. DEFINE of == IF e.readable THEN e.yamlEnv ELSE ""
              values == <<e.flag, e.process.WYND_ENV, e.process.ENV, of, "dev">>
              other == <<e.flag, Variables(e).WYND_ENV, Variables(e).ENV, of, "dev">>
  <2>1. Env(e, e.process) = FirstBut("", values) /\ Env(e, Variables(e)) = FirstBut("", other)
    BY DEF Env
  <2>3. /\ EnvFile(e).ENV \in {"", Env(e, e.process)}
        /\ EnvFile(e).WYND_ENV \in {"", Env(e, e.process)}
    BY <1>3 DEF OwnFile
  <2>4. \/ Variables(e).ENV = e.process.ENV
        \/ e.process.ENV = "" /\ Variables(e).ENV = Env(e, e.process)
    <3>. DEFINE x == e.process.ENV
                y == EnvFile(e).ENV
    <3>1. FirstBut("", <<x, y>>) = x \/ (x = "" /\ FirstBut("", <<x, y>>) = Env(e, e.process))
      <4>1. y \in {"", Env(e, e.process)}
        BY <2>3
      <4>2. /\ FirstBut("", <<x, y>>) \in {x, y, ""}
            /\ x # "" => FirstBut("", <<x, y>>) = x
            /\ y = "" => FirstBut("", <<x, y>>) = x
        <5>. HIDE DEF x, y
        <5>. QED
          BY <1>1
      <4>. HIDE DEF x, y
      <4>. QED
        BY <4>1, <4>2
    <3>. QED
      BY <1>2, <3>1
  <2>5. \/ Variables(e).WYND_ENV = e.process.WYND_ENV
        \/ e.process.WYND_ENV = "" /\ Variables(e).WYND_ENV = Env(e, e.process)
    <3>. DEFINE x == e.process.WYND_ENV
                y == EnvFile(e).WYND_ENV
    <3>1. FirstBut("", <<x, y>>) = x \/ (x = "" /\ FirstBut("", <<x, y>>) = Env(e, e.process))
      <4>1. y \in {"", Env(e, e.process)}
        BY <2>3
      <4>2. /\ FirstBut("", <<x, y>>) \in {x, y, ""}
            /\ x # "" => FirstBut("", <<x, y>>) = x
            /\ y = "" => FirstBut("", <<x, y>>) = x
        <5>. HIDE DEF x, y
        <5>. QED
          BY <1>1
      <4>. HIDE DEF x, y
      <4>. QED
        BY <4>1, <4>2
    <3>. QED
      BY <1>2, <3>1
  <2>. HIDE DEF of
  <2>. DEFINE S == {e.flag, e.process.WYND_ENV, e.process.ENV, of, "dev"}
              T == {e.flag, Variables(e).WYND_ENV, Variables(e).ENV, of, "dev"}
  <2>6. values \in Seq(S) /\ other \in Seq(T) /\ DOMAIN other = DOMAIN values
    OBVIOUS
  <2>7. ASSUME NEW first, Env(e, e.process) = first
        PROVE  \A k \in DOMAIN values : other[k] = values[k] \/ (values[k] = "" /\ other[k] = first)
    <3>1. DOMAIN values = 1 .. 5
      OBVIOUS
    <3>2. /\ other[1] = values[1] /\ other[4] = values[4] /\ other[5] = values[5]
          /\ values[2] = e.process.WYND_ENV /\ other[2] = Variables(e).WYND_ENV
          /\ values[3] = e.process.ENV /\ other[3] = Variables(e).ENV
      OBVIOUS
    <3>. HIDE DEF values, other
    <3>3. /\ other[2] = values[2] \/ (values[2] = "" /\ other[2] = first)
          /\ other[3] = values[3] \/ (values[3] = "" /\ other[3] = first)
      BY <2>4, <2>5, <2>7, <3>2
    <3>4. \A k \in 1 .. 5 : k = 1 \/ k = 2 \/ k = 3 \/ k = 4 \/ k = 5
      OBVIOUS
    <3>. QED
      BY <3>1, <3>2, <3>3, <3>4
  <2>. HIDE DEF values, other, S, T
  <2>8. \A k \in DOMAIN values : other[k] = values[k] \/ (values[k] = "" /\ other[k] = FirstBut("", values))
    BY <2>1, <2>7
  <2>. QED
    BY <2>1, <2>6, <2>8, FirstStaysFirst
<1>4. /\ Variables(e).compat[key] \in {e.process.compat[key], EnvFile(e).compat[key], None}
      /\ e.process.compat[key] # None => Variables(e).compat[key] = e.process.compat[key]
  <2>. DEFINE x == e.process.compat[key]
              y == EnvFile(e).compat[key]
  <2>1. FirstBut(None, <<x, y>>) \in {x, y, None} /\ (x # None => FirstBut(None, <<x, y>>) = x)
    <3>. HIDE DEF x, y
    <3>. QED
      BY <1>1
  <2>. QED
    BY <1>2, <2>1
<1>5. Variables(e).wynd[key] \in {e.process.wynd[key], EnvFile(e).wynd[key], None}
  <2>. DEFINE x == e.process.wynd[key]
              y == EnvFile(e).wynd[key]
  <2>1. FirstBut(None, <<x, y>>) \in {x, y, None} /\ (x # None => FirstBut(None, <<x, y>>) = x)
    <3>. HIDE DEF x, y
    <3>. QED
      BY <1>1
  <2>. QED
    BY <1>2, <2>1
<1>. QED
  BY <1>3, <1>4, <1>5

\* PG_HOST or the file gives a host, and none of its sources is a reference.
HostGiven(e) ==
    /\ {e.process.compat.host, Yaml(e, "host")} \ {None, Reference} # {}
    /\ Reference \notin {Yaml(e, "host"), Variables(e).wynd.host}

\* Before the secrets: nothing is of a secret, what the file gave is of the
\* environment it is chosen by, and a host that is given stands.
LEMMA SettingIs ==
    ASSUME NEW e, IsWorld(e), NEW key \in Keys
    PROVE  /\ Written(Setting(e, key), {"any", Env(e, e.process)})
           /\ HostGiven(e) => Setting(e, "host") \notin {None, Reference}
<1>. DEFINE v == Variables(e)
            env == Env(e, e.process)
            known == {Yaml(e, key), setDefaults(key)} # {None}
            Values(k) == <<Override(v, k), IF {Yaml(e, k), setDefaults(k)} # {None} THEN v.wynd[k] ELSE None,
                           Yaml(e, k), setDefaults(k)>>
<1>1. Written(None, {"any", env}) /\ Written(setDefaults(key), {"any", env})
  BY DEF Written, None, Hand, setDefaults
<1>2. /\ \A value \in {e.process.compat[key], e.process.wynd[key], e.yaml[key]} : Written(value, {"any", env})
      /\ \A value \in {EnvFile(e).compat[key], EnvFile(e).wynd[key]} : Written(value, {"any", env})
  <2>1. env \in Named(e)
    BY EnvIsNamed
  <2>. QED
    BY <2>1 DEF IsWorld, Named, EnvFile, Written
<1>3. Written(Override(v, key), {"any", env}) /\ Written(v.wynd[key], {"any", env})
  BY <1>1, <1>2, VariablesAre DEF Override
<1>4. Written(Yaml(e, key), {"any", env})
  BY <1>1, <1>2 DEF Yaml
<1>. DEFINE S == {Override(v, key), v.wynd[key], None, Yaml(e, key), setDefaults(key)}
<1>5. \A k : Setting(e, k) = FirstBut(None, Values(k))
  BY DEF Setting
<1>6. Setting(e, key) \in S
  <2>1. Values(key) \in Seq(S)
    OBVIOUS
  <2>2. None \in S
    OBVIOUS
  <2>. HIDE DEF S, Values
  <2>. QED
    BY <1>5, <2>1, <2>2, FirstButIs
<1>7. ASSUME HostGiven(e) PROVE Setting(e, "host") \notin {None, Reference}
  <2>1. "host" \in Keys /\ "host" \in DBKeys /\ e.process.compat["host"] = e.process.compat.host
    BY DEF Keys, DBKeys
  <2>2. e.process.compat.host # None => v.compat["host"] = e.process.compat.host
    BY <2>1, VariablesAre
  <2>3. /\ Override(v, "host") # Reference
        /\ e.process.compat.host \notin {None, Reference} => Override(v, "host") = e.process.compat.host
    BY <2>1, <2>2 DEF Override, Reference, None
  <2>4. Yaml(e, "host") # Reference /\ v.wynd["host"] # Reference
    BY <1>7 DEF HostGiven
  <2>5. \/ Override(v, "host") # None
        \/ Yaml(e, "host") # None
    BY <1>7, <2>3 DEF HostGiven
  <2>6. setDefaults("host") = None /\ None # Reference
    BY DEF setDefaults, None, Reference
  <2>7. /\ Values("host") \in Seq({Values("host")[k] : k \in 1 .. 4}) /\ DOMAIN Values("host") = 1 .. 4
        /\ Values("host")[1] = Override(v, "host") /\ Values("host")[3] = Yaml(e, "host")
        /\ Values("host")[4] = setDefaults("host") /\ Values("host")[2] \in {v.wynd["host"], None}
    OBVIOUS
  <2>. HIDE DEF Values
  <2>8. \A k \in DOMAIN Values("host") : Values("host")[k] # Reference
    BY <2>3, <2>4, <2>6, <2>7
  <2>9. FirstBut(None, Values("host")) \notin {None, Reference}
    BY <2>5, <2>7, <2>8, FirstIs
  <2>. QED
    BY <1>5, <2>9
<1>. QED
  BY <1>1, <1>3, <1>4, <1>6, <1>7

Together(e, cfg) ==
    LET secrets == {key \in {"host", "user", "password"} : cfg[key][1] = "secret"}
    IN  /\ secrets \in {{}, {"host", "user", "password"}}
        /\ HostGiven(e) => secrets = {}
        /\ OwnFile(e) => \A key \in Keys : cfg[key][2] \in {"any", cfg.env}

\* With the secrets: the database has all of one or none.
LEMMA LoadIs ==
    ASSUME NEW e, IsWorld(e)
    PROVE  Together(e, Load(e))
<1>. DEFINE env == Env(e, e.process)
            cfg == [env |-> Env(e, Variables(e)),
                    dsn |-> Setting(e, "dsn"),
                    host |-> Setting(e, "host"),
                    user |-> Setting(e, "user"),
                    password |-> Setting(e, "password"),
                    dbname |-> Setting(e, "dbname"),
                    api_key |-> ResolvedApiKey(e, Setting(e, "api_key")),
                    app_client_id |-> Setting(e, "app_client_id")]
<1>1. \A key \in Keys : Written(Setting(e, key), {"any", env})
  BY SettingIs
<1>2. OwnFile(e) => cfg.env = env
  <2>1. "dsn" \in Keys
    BY DEF Keys
  <2>. QED
    BY <2>1, VariablesAre
<1>3. \A key \in Keys : cfg[key][2] \in {"any", env}
  BY <1>1 DEF Keys, DBKeys, Written, ResolvedApiKey
<1>4. \A key \in {"host", "user", "password"} : cfg[key][1] # "secret"
  BY <1>1 DEF Keys, DBKeys, Written
<1>5. HostGiven(e) => cfg.host \notin {None, Reference}
  <2>1. "host" \in Keys
    BY DEF Keys, DBKeys
  <2>. QED
    BY <2>1, SettingIs
<1>6. Load(e) = ResolvedDB(e, cfg)
  BY DEF Load
<1>7. CASE Load(e) = cfg
  BY <1>2, <1>3, <1>4, <1>7 DEF Together
<1>8. CASE /\ Load(e) = FromSecret(e, cfg)
           /\ cfg.host \in {None, Reference}
  <2>. DEFINE secret == <<"secret", cfg.env>>
              name == IF e.secret = "no_dbname" THEN Hand("default") ELSE secret
              new == [cfg EXCEPT !.host = secret, !.user = secret, !.password = secret, !.dbname = name]
  <2>1. Load(e) = new
    BY <1>8 DEF FromSecret
  <2>2. new.host = secret /\ new.user = secret /\ new.password = secret /\ new.dbname = name
        /\ new.env = cfg.env /\ new.dsn = cfg.dsn /\ new.api_key = cfg.api_key
        /\ new.app_client_id = cfg.app_client_id
    OBVIOUS
  <2>3. secret[1] = "secret" /\ secret[2] = cfg.env /\ name[2] \in {"any", cfg.env}
    BY DEF Hand
  <2>. HIDE DEF new, cfg, secret, name
  <2>4. \A key \in {"host", "user", "password"} : new[key][1] = "secret"
    BY <2>2, <2>3
  <2>5. OwnFile(e) => \A key \in Keys : new[key][2] \in {"any", new.env}
    BY <1>2, <1>3, <2>2, <2>3 DEF Keys, DBKeys
  <2>. QED
    BY <1>5, <1>8, <2>1, <2>4, <2>5 DEF Together
<1>. QED
  BY <1>6, <1>7, <1>8 DEF ResolvedDB, AfterSecretError

\* Nothing changes the configuration once it is loaded.
LoadedOnce == world \in Worlds /\ config = Load(world)

LEMMA LoadedOnceKept == AccountSpec => []LoadedOnce
<1>1. AccountInit => LoadedOnce
  BY DEF AccountInit, LoadedOnce
<1>2. LoadedOnce /\ [AccountNext]_accountVars => LoadedOnce'
  BY DEF LoadedOnce, accountVars, settings, AccountNext, IndexCatchesUp, Start, RunStep, Kill, Find,
         CreateCustomer, Poll, SignUp, Connect, CheckUser, InsertUser, InsertProfile
<1>. QED
  BY <1>1, <1>2, PTL DEF AccountSpec

\* The settings of every run belong together, as long as the .env file that is
\* loaded names no other environment than the one it was chosen by.
THEOREM LoadedSettingsBelongTogether == AccountSpec => []SettingsBelongTogether
<1>1. LoadedOnce => SettingsBelongTogether
  BY LoadIs, AccountAssumption DEF LoadedOnce, SettingsBelongTogether, Together, HostGiven,
       OwnFile, EnvFile, ChosenEnv
<1>. QED
  BY <1>1, LoadedOnceKept, PTL

=============================================================================
