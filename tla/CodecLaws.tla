----------------------------- MODULE CodecLaws -----------------------------
(***************************************************************************)
(* What the codecs promise, over every sequence of up to MaxLen bytes,     *)
(* taken both as data to encode and as bytes to decode, and every number   *)
(* of the word's width. One input is looked at in each state: a bench the  *)
(* codecs are tried on, which is no part of the program.                   *)
(***************************************************************************)
EXTENDS Codec

CONSTANT MaxLen  \* bound: bytes of a sequence

VARIABLES
    bytes,  \* the sequence that is tried
    number  \* the number that is tried

bench == <<bytes, number>>

Inputs == UNION {[1 .. n -> 0 .. FullCode] : n \in 0 .. MaxLen}
Numbers == 0 .. WordValues - 1

Untried == bytes = << >> /\ number = 0

TryBytes ==
    /\ Untried
    /\ bytes' \in Inputs
    /\ UNCHANGED number

TryNumber ==
    /\ Untried
    /\ number' \in Numbers
    /\ UNCHANGED bytes

-----------------------------------------------------------------------------
(* The laws.                                                               *)

ZeroFree(line) == \A k \in 1 .. Len(line) : line[k] # 0

EndsInFullGroup(d) ==
    /\ Len(d) >= FullCode - 1
    /\ \A k \in Len(d) - FullCode + 2 .. Len(d) : d[k] # 0

\* What COBSEncode makes of a packet decodes to that packet again, at every
\* length around a full group; it is free of the delimiter, and no longer than
\* the encoder reserves: one byte, and one per full group.
CobsRoundTrip ==
    LET encoded == COBSEncode(bytes)
    IN  /\ COBSDecode(encoded) = {bytes}
        /\ ZeroFree(encoded)
        /\ Len(encoded) <= Len(bytes) + Len(bytes) \div (FullCode - 1) + 1

\* COBSDecode accepts what arrives between two delimiters only if it is the
\* encoding of what it makes of it, but for a full group at the end, after
\* which the encoder adds an empty one: no two packets look the same.
CobsDecodesEncodings ==
    ZeroFree(bytes) =>
        \A d \in COBSDecode(bytes) :
            \/ COBSEncode(d) = bytes
            \/ COBSEncode(d) = bytes \o <<1>> /\ EndsInFullGroup(d)

\* Both: every packet has one encoding and every encoding one packet.
CobsIsExact == CobsRoundTrip /\ CobsDecodesEncodings

\* A number of the word's width survives the varint, wherever it stands; and
\* whatever bytes arrive, a decoded number fits the word and its end is inside
\* the packet: the payload that Receive hands on starts there.
VarintsDecode ==
    /\ \A before, after \in {<< >>, <<0>>} :
          DecodeVarint(before \o EncodeVarint(number) \o after, Len(before) + 1)
              = {<<number, Len(before) + Len(EncodeVarint(number)) + 1>>}
    /\ \A r \in DecodeVarint(bytes, 1) :
          /\ r[1] < WordValues
          /\ r[2] \in 2 .. Len(bytes) + 1
          /\ r[2] - 1 <= (WordBits + GroupBits - 1) \div GroupBits

=============================================================================
