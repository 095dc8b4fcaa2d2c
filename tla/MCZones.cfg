\* Three devices, two in one room; delete-device --delete-room for one of these,
\* delete-property for the lodging of all.
SPECIFICATION MCSpec
CONSTANTS
    Devices <- ThreeDevices
    RoomOf <- SharedRoom
    Matching <- OneOfThem
    DeleteRooms = TRUE
    MaxAttempts = 2
    MaxMisread = 1
INVARIANTS ReportedRoomIsAssigned OwnRoomCreatedOnce
PROPERTY OthersKeepTheirRoom
CHECK_DEADLOCK FALSE
