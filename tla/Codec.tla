------------------------------- MODULE Codec -------------------------------
(***************************************************************************)
(* The codecs of internal/transport: COBS (cobs.go), varints (varint.go)   *)
(* and the packet around them (packet.go), as operators on sequences of    *)
(* bytes. A decoder yields the set of its results: empty for an error.     *)
(*                                                                         *)
(* The sizes of the code (255, 7 bits, 64 bits) are parameters, so that    *)
(* the boundaries they make are met by short inputs.                       *)
(***************************************************************************)
EXTENDS Integers, Sequences

CONSTANTS
    FullCode,   \* the COBS code of a full group: 0xFF
    GroupBits,  \* bits of a varint byte: 7
    WordBits    \* bits of the value: 64

ASSUME CodecAssumption ==
    /\ FullCode \in Nat \ {0, 1}
    /\ GroupBits \in Nat \ {0}
    /\ WordBits \in Nat \ {0}

-----------------------------------------------------------------------------
(* COBSEncode. The bytes since the last code byte are kept apart: the code *)
(* is one more than their number.                                          *)

\* encoded[codeIdx] = code; the code is a byte.
Closed(s) == s.encoded \o <<(Len(s.group) + 1) % (FullCode + 1)>> \o s.group

\* Deliberate fault, with which the properties must fail.
IsFullOneLate(group) == Len(group) + 1 > FullCode

IsFull(group) == Len(group) + 1 = FullCode

EncodeByte(s, b) ==
    IF b = 0 THEN [encoded |-> Closed(s), group |-> << >>]
    ELSE LET t == [s EXCEPT !.group = Append(@, b)]
         IN  IF IsFull(t.group) THEN [encoded |-> Closed(t), group |-> << >>] ELSE t

COBSEncode(data) ==
    LET after[n \in 0 .. Len(data)] ==
            IF n = 0 THEN [encoded |-> << >>, group |-> << >>]
            ELSE EncodeByte(after[n - 1], data[n])
    IN  Closed(after[Len(data)])

-----------------------------------------------------------------------------
(* COBSDecode: the code at each position gives the next one.               *)

\* A zero ends a group that is neither full nor the last.
EndsWithZero(code) == code < FullCode
MoreFollows(data, next) == next <= Len(data)

COBSDecode(data) ==
    LET from[i \in 1 .. Len(data) + 1] ==
            LET code == data[i]
                next == i + code
            IN  IF i > Len(data) THEN {<< >>}
                ELSE IF code = 0 \/ next > Len(data) + 1 THEN {}
                ELSE {SubSeq(data, i + 1, next - 1)
                        \o (IF EndsWithZero(code) /\ MoreFollows(data, next) THEN <<0>> ELSE << >>)
                        \o rest : rest \in from[next]}
    IN  IF data = << >> THEN {} ELSE from[1]

-----------------------------------------------------------------------------
(* Varints. The continuation bit of a byte is its weight 2^GroupBits.      *)

\* 1 << k.
TwoTo[k \in Nat] == IF k = 0 THEN 1 ELSE 2 * TwoTo[k - 1]

More == TwoTo[GroupBits]
WordValues == TwoTo[WordBits]

EncodeVarint(v) ==
    LET from[n \in 0 .. v] == IF n < More THEN <<n>> ELSE <<(n % More) + More>> \o from[n \div More]
    IN  from[v]

ShiftOneGroupShort(shift) == shift + GroupBits < WordBits

\* A further byte is read only while the shift is below the width.
ShiftFits(shift) == shift < WordBits

\* From position pos on: the value and the position after it. What is shifted
\* out of the word is lost.
DecodeVarint(data, pos) ==
    LET from[i \in pos .. Len(data) + 1] ==
            LET low == ((data[i] % More) * TwoTo[GroupBits * (i - pos)]) % WordValues
            IN  IF i > Len(data) THEN {}
                ELSE IF data[i] < More THEN {<<low, i + 1>>}
                ELSE IF ~ShiftFits(GroupBits * (i - pos + 1)) THEN {}
                ELSE {<<low + r[1], r[2]>> : r \in from[i + 1]}
    IN  from[pos]

=============================================================================
