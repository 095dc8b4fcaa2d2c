\* Three packets, up to two damaged bytes, full groups of three bytes; the codecs on up
\* to seven bytes, varint bytes of two bits, words of seven.
SPECIFICATION MCSpec
CONSTANTS
    FullCode = 4
    GroupBits = 2
    WordBits = 7
    Packets <- ThreePackets
    MaxFaults = 2
    MaxLen = 7
    Fixed32Bytes = 1
    Fixed64Bytes = 3
    MaxMessage = 5
INVARIANTS CobsIsExact VarintsDecode MessagesReadBack FieldsAreTheMessage DeliveredInOrder LossIsLocal
CHECK_DEADLOCK FALSE
