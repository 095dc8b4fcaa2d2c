------------------------------ MODULE Framing ------------------------------
(***************************************************************************)
(* Packets on the serial line: Transport.Write puts each one, encoded and  *)
(* with a delimiter behind it, on the line (packet.go); the line damages   *)
(* bytes; processBytes (serial.go) cuts what arrives at the delimiters and *)
(* hands what it can decode to Transport.Receive.                          *)
(*                                                                         *)
(* A packet is its bytes with the header. The CRC, length and type checks  *)
(* of Receive are taken to tell every packet that was sent from every      *)
(* damaged one.                                                            *)
(***************************************************************************)
EXTENDS Codec

CONSTANTS
    Packets,   \* the packets that are sent, in their order: all different
    MaxFaults  \* bound: damaged bytes

ASSUME FramingAssumption ==
    /\ Packets \in Seq(Seq(0 .. FullCode) \ {<< >>})
    /\ \A k, l \in 1 .. Len(Packets) : k # l => Packets[k] # Packets[l]
    /\ MaxFaults \in Nat

VARIABLES
    written,    \* packets written so far
    wire,       \* the bytes on the line
    faults,     \* bytes damaged so far
    buffer,     \* SerialChannel.buffer
    cost,       \* packets that the damaged bytes belong to or separate (history)
    delivered   \* what Receive has passed on to a handler

lineVars == <<written, wire, faults, cost, buffer, delivered>>
damage == <<faults, cost>>

packetDelimiter == 0
PacketSet == {Packets[k] : k \in 1 .. Len(Packets)}

LineInit ==
    /\ written = 0
    /\ wire = << >>
    /\ faults = 0
    /\ cost = 0
    /\ buffer = << >>
    /\ delivered = << >>

-----------------------------------------------------------------------------
\* Transport.Write and WriteRaw: one write under the channel's mutex.
Write ==
    /\ written < Len(Packets)
    /\ written' = written + 1
    /\ wire' = wire \o COBSEncode(Packets[written + 1]) \o <<packetDelimiter>>
    /\ UNCHANGED <<damage, buffer, delivered>>

\* Deliberate fault, with which the properties must fail.
Kept == buffer

\* The checks of Transport.Receive.
Intact(packet) == packet \in PacketSet

\* The buffer after a line of bytes that does not decode, and after one that does.
AfterDecodeError == << >>
AfterPacket == << >>

\* processBytes, for one byte.
ProcessByte(b) ==
    IF b # packetDelimiter
    THEN buffer' = Append(buffer, b) /\ UNCHANGED delivered
    ELSE IF buffer = << >>
    THEN UNCHANGED <<buffer, delivered>>
    ELSE IF COBSDecode(buffer) = {}
    THEN buffer' = AfterDecodeError /\ UNCHANGED delivered
    ELSE \E packet \in COBSDecode(buffer) :
            /\ delivered' = IF Intact(packet) THEN Append(delivered, packet) ELSE delivered
            /\ buffer' = AfterPacket

ReadByte ==
    /\ wire # << >>
    /\ wire' = Tail(wire)
    /\ ProcessByte(Head(wire))
    /\ UNCHANGED <<written, damage>>

\* A delimiter stands between two packets.
Damage(packets) ==
    /\ faults < MaxFaults
    /\ faults' = faults + 1
    /\ cost' = cost + packets

CostOfHead == IF Head(wire) = packetDelimiter THEN 2 ELSE 1

\* The line loses a byte, alters one, or makes one up.
LoseByte ==
    /\ wire # << >>
    /\ Damage(CostOfHead)
    /\ wire' = Tail(wire)
    /\ UNCHANGED <<written, buffer, delivered>>

AlterByte ==
    /\ wire # << >>
    /\ Damage(CostOfHead)
    /\ wire' = Tail(wire)
    /\ \E b \in (0 .. FullCode) \ {Head(wire)} : ProcessByte(b)
    /\ UNCHANGED written

Noise ==
    /\ Damage(1)
    /\ \E b \in 0 .. FullCode : ProcessByte(b)
    /\ UNCHANGED <<written, wire>>

LineNext == Write \/ ReadByte \/ LoseByte \/ AlterByte \/ Noise

LineSpec == LineInit /\ [][LineNext]_lineVars

-----------------------------------------------------------------------------
(* Properties.                                                             *)

Number(packet) == CHOOSE k \in 1 .. Len(Packets) : Packets[k] = packet

\* The packets that are delivered are some of those written, in their order and
\* each of them once, whatever the line does.
DeliveredInOrder ==
    \A k, l \in 1 .. Len(delivered) :
        k < l => Number(delivered[k]) < Number(delivered[l])

\* Framing finds its feet again: a damaged byte costs the packet it is in, a
\* damaged delimiter the two it separates; every other packet is delivered.
LossIsLocal ==
    wire = << >> => written - Len(delivered) <= cost

=============================================================================
