------------------------------ MODULE Encoding ------------------------------
(***************************************************************************)
(* The protobuf encoding of internal/device/encoding.go, the requests that *)
(* commander.go builds with it and the responses it reads with it.         *)
(*                                                                         *)
(* A message is a sequence of bytes, a byte being one bit wider than a     *)
(* group of a varint. The widths of the code (4 and 8 bytes) are           *)
(* parameters. Decoding ends well, in an error, or in a panic.             *)
(***************************************************************************)
EXTENDS Codec, SequencesExt

CONSTANTS
    Fixed32Bytes,  \* 4
    Fixed64Bytes   \* 8

ASSUME EncodingAssumption ==
    /\ Fixed32Bytes \in Nat \ {0}
    /\ Fixed64Bytes \in Nat \ {0}

wireVarint == 0
wire64Bit == 1
wireLenDel == 2
wire32Bit == 5

ByteBits == GroupBits + 1
ByteValues == TwoTo[ByteBits]
Fixed32Values == TwoTo[ByteBits * Fixed32Bytes]

\* An unsigned number read as a signed one of as many values.
Signed(v, values) == IF v % values < values \div 2 THEN v % values ELSE (v % values) - values

-----------------------------------------------------------------------------
(* protoEncoder: what each write appends.                                  *)

LittleEndian(v, n) == [k \in 1 .. n |-> (v \div TwoTo[ByteBits * (k - 1)]) % ByteValues]

Tag(fieldNum, wireType) == EncodeVarint(8 * fieldNum + wireType)

Length(val) == EncodeVarint(Len(val))

\* WriteString and WriteBytes: nothing is written for nothing.
WriteBytes(fieldNum, val) ==
    IF val = << >> THEN << >> ELSE Tag(fieldNum, wireLenDel) \o Length(val) \o val

WriteMessage(fieldNum, inner) == WriteBytes(fieldNum, inner)

WriteEmptyMessage(fieldNum) == Tag(fieldNum, wireLenDel) \o Length(<< >>)

WriteUint32(fieldNum, val) ==
    IF val = 0 THEN << >> ELSE Tag(fieldNum, wireVarint) \o EncodeVarint(val)

\* These two are written also when they are zero.
WriteFixed32(fieldNum, val) == Tag(fieldNum, wire32Bit) \o LittleEndian(val, Fixed32Bytes)
WriteBool(fieldNum, val) == Tag(fieldNum, wireVarint) \o <<IF val THEN 1 ELSE 0>>

\* val: the bits of the floating-point number.
WriteDouble(fieldNum, val) ==
    IF val = 0 THEN << >> ELSE Tag(fieldNum, wire64Bit) \o LittleEndian(val, Fixed64Bytes)

-----------------------------------------------------------------------------
(* decodeFields.                                                           *)

MaxVarintLen == (WordBits + GroupBits - 1) \div GroupBits

\* binary.Uvarint, which unlike varint.go refuses a number too wide for the
\* word. Empty for an error.
Uvarint(data, pos) ==
    {r \in DecodeVarint(data, pos) :
        LET n == r[2] - pos
        IN  /\ n <= MaxVarintLen
            /\ n = MaxVarintLen =>
                  data[r[2] - 1] < TwoTo[WordBits - GroupBits * (MaxVarintLen - 1)]}

FromLittleEndian(bytes) ==
    LET from[k \in 1 .. Len(bytes) + 1] ==
            IF k > Len(bytes) THEN 0 ELSE bytes[k] + ByteValues * from[k + 1]
    IN  from[1]

\* Deliberate fault: int32(length) on a machine of wider words.
EndInNarrowInt(pos, length) == (pos - 1) + Signed(length, TwoTo[WordBits - 2]) + 1

\* The end of the bytes of a field: int(length) and the sum are signed words.
EndOfBytes(pos, length) == Signed((pos - 1) + length, WordValues) + 1

Failed == [status |-> "error"]
Panics == [status |-> "panic"]
Field(number, wireType, value, next) ==
    [status |-> "field", next |-> next,
     field |-> [number |-> number, wireType |-> wireType, value |-> value]]

FixedField(data, number, wireType, pos, size) ==
    IF pos + size - 1 > Len(data) THEN Failed
    ELSE Field(number, wireType, FromLittleEndian(SubSeq(data, pos, pos + size - 1)), pos + size)

\* What is made of the number at pos and of the position after it.
WithNumber(data, pos, F(_, _)) ==
    IF Uvarint(data, pos) = {} THEN Failed
    ELSE LET r == CHOOSE r \in Uvarint(data, pos) : TRUE IN F(r[1], r[2])

VarintField(data, number, pos) ==
    WithNumber(data, pos, LAMBDA val, next : Field(number, wireVarint, val, next))

\* data[pos:end] with an end before pos panics.
BytesUpTo(data, number, pos, end) ==
    CASE end > Len(data) + 1 -> Failed
      [] end < pos -> Panics
      [] OTHER -> Field(number, wireLenDel, SubSeq(data, pos, end - 1), end)

BytesField(data, number, pos) ==
    WithNumber(data, pos, LAMBDA length, next : BytesUpTo(data, number, next, EndOfBytes(next, length)))

FieldOfType(data, number, wireType, pos) ==
    CASE wireType = wireVarint -> VarintField(data, number, pos)
      [] wireType = wire64Bit -> FixedField(data, number, wireType, pos, Fixed64Bytes)
      [] wireType = wireLenDel -> BytesField(data, number, pos)
      [] wireType = wire32Bit -> FixedField(data, number, wireType, pos, Fixed32Bytes)
      [] OTHER -> Failed

\* One turn of the loop, at position pos.
FieldAt(data, pos) ==
    WithNumber(data, pos, LAMBDA tag, next : FieldOfType(data, tag \div 8, tag % 8, next))

WithRest(f, rest) ==
    CASE f.status # "field" -> f
      [] f.status = "field" /\ rest[f.next].status # "ok" -> rest[f.next]
      [] OTHER -> [status |-> "ok", fields |-> <<f.field>> \o rest[f.next].fields]

\* The fields of a message, or how its decoding ends.
DecodeFields(data) ==
    LET from[pos \in 1 .. Len(data) + 1] ==
            IF pos > Len(data) THEN [status |-> "ok", fields |-> << >>]
            ELSE WithRest(FieldAt(data, pos), from)
    IN  from[1]

-----------------------------------------------------------------------------
(* The getters: the first field of the number and of a type they know.     *)

\* Where such fields are.
Matching(fields, num, wireTypes) ==
    {k \in DOMAIN fields : fields[k].number = num /\ fields[k].wireType \in wireTypes}

Leading(fields, num, wireTypes) == fields[Min(Matching(fields, num, wireTypes))]

First(fields, num, wireTypes, default) ==
    IF Matching(fields, num, wireTypes) = {} THEN default
    ELSE Leading(fields, num, wireTypes).value

getString(fields, num) == First(fields, num, {wireLenDel}, << >>)
getFixed32(fields, num) == First(fields, num, {wire32Bit}, 0)
getBool(fields, num) == First(fields, num, {wireVarint}, 0) # 0
hasBytes(fields, num) == Matching(fields, num, {wireLenDel}) # {}

\* int32((n >> 1) ^ -(n & 1)): a varint is zigzag, a fixed one as it is.
ZigZag(n) == IF n % 2 = 0 THEN n \div 2 ELSE -((n + 1) \div 2)
getInt32Signed(fields, num) ==
    LET types == {wireVarint, wire32Bit}
        n == First(fields, num, types, 0)
    IN  CASE Matching(fields, num, types) = {} -> 0
          [] Matching(fields, num, types) # {}
                /\ Leading(fields, num, types).wireType = wireVarint ->
                Signed(ZigZag(n), Fixed32Values)
          [] OTHER -> Signed(n, Fixed32Values)

-----------------------------------------------------------------------------
(* Requests and responses of commander.go.                                 *)

\* WriteFirmware: the first request, the chunk at an offset, the last request.
OpenRequest(path) == WriteMessage(1, WriteBytes(1, path))
DataRequest(offset, chunk) == WriteMessage(2, WriteUint32(1, offset) \o WriteBytes(2, chunk))
CloseRequest == WriteEmptyMessage(3)

\* SetProvision: a key that is not empty is quoted, backslashes and then quotes
\* in it escaped.
Quote == 1
Backslash == 2
Replaced(s, old, new) == FlattenSeq([k \in DOMAIN s |-> IF s[k] = old THEN new ELSE <<s[k]>>])

\* Deliberate fault: the other order.
QuotesFirst(psk) ==
    Replaced(Replaced(psk, Quote, <<Backslash, Quote>>), Backslash, <<Backslash, Backslash>>)

Escaped(psk) ==
    Replaced(Replaced(psk, Backslash, <<Backslash, Backslash>>), Quote, <<Backslash, Quote>>)

EscapedPSK(psk) == IF psk = << >> THEN psk ELSE <<Quote>> \o Escaped(psk) \o <<Quote>>

\* mqtt: the topics, with the name of the environment in them, and the broker.
ProvisionRequest(ssid, psk, mqtt) ==
    WriteMessage(1, WriteBytes(1, ssid) \o WriteBytes(2, EscapedPSK(psk))
                    \o WriteBytes(3, mqtt.mqttTopic) \o WriteBytes(4, mqtt.BrokerURL)
                    \o WriteUint32(5, mqtt.Port) \o WriteBytes(6, mqtt.ThingsPattern)
                    \o WriteBytes(7, mqtt.logTopic))

\* SetIndicate: the LEDs left, top and right, which are 0, 1 and 2.
Indication(id, color) ==
    WriteMessage(1, Tag(1, wireVarint) \o EncodeVarint(id) \o WriteFixed32(2, color))
IndicateRequest(left, top, right, timeout) ==
    Indication(0, left) \o Indication(1, top) \o Indication(2, right) \o WriteDouble(2, timeout)

\* SetPower and SetAdvertising.
OnRequest(on) == WriteBool(1, on)

\* The three responses hold one message, in field 1, which must be there.
InnerOf(outer) ==
    IF outer.status # "ok" THEN outer
    ELSE IF ~hasBytes(outer.fields, 1) THEN Failed
    ELSE DecodeFields(getString(outer.fields, 1))

Inner(data) == InnerOf(DecodeFields(data))

\* What is read in the fields of a message that decodes.
IfOk(decoded, Read(_)) ==
    IF decoded.status # "ok" THEN decoded
    ELSE [status |-> "ok", value |-> Read(decoded.fields)]

\* parseStatusResponse.
ParseStatus(data) ==
    IfOk(Inner(data), LAMBDA fields :
        [State |-> getFixed32(fields, 1),
         Error |-> getInt32Signed(fields, 2),
         DidProvisioningSucceed |-> getBool(fields, 3)])

\* parseDeviceInfoResponse: of its strings the thing name and the MAC address,
\* and parseBatteryInfoResponse.
ParseDeviceInfo(data) ==
    IfOk(Inner(data), LAMBDA fields :
        [AWSThingName |-> getString(fields, 8), WiFiMAC |-> getString(fields, 9)])

ParseBatteryInfo(data) ==
    IfOk(Inner(data), LAMBDA fields :
        [IsPluggedIn |-> getBool(fields, 1), IsCharging |-> getBool(fields, 2)])

=============================================================================
