---------------------------- MODULE EncodingLaws ----------------------------
(***************************************************************************)
(* What the protobuf encoding promises, over every message of up to        *)
(* MaxMessage bytes, taken both as what a request carries and as a         *)
(* response that arrives, and every number. It adds to the bench of        *)
(* CodecLaws.                                                              *)
(***************************************************************************)
EXTENDS Encoding, CodecLaws

CONSTANT MaxMessage  \* bound: bytes of a message

\* A word holds the tag of field 9, the largest number written here, and eight
\* bytes a word.
ASSUME RoomAssumption ==
    /\ 80 <= TwoTo[WordBits]
    /\ TwoTo[WordBits] <= TwoTo[ByteBits * Fixed64Bytes]

VARIABLE message  \* the bytes that are tried

Messages == UNION {[1 .. n -> 0 .. ByteValues - 1] : n \in 0 .. MaxMessage}

TryMessage ==
    /\ message = << >>
    /\ message' \in Messages

-----------------------------------------------------------------------------
(* The laws.                                                               *)

Fields(data) ==
    LET read == DecodeFields(data) IN IF read.status = "ok" THEN read.fields ELSE << >>
InnerFields(data, num) == Fields(getString(Fields(data), num))
getUint32(fields, num) == First(fields, num, {wireVarint}, 0)
getDouble(fields, num) == First(fields, num, {wire64Bit}, 0)

\* What the device must read in a quoted key: it takes a backslash off.
Unescaped(quoted) ==
    LET from[k \in 1 .. Len(quoted) + 1] ==
            IF k >= Len(quoted) THEN << >>
            ELSE IF quoted[k] = Backslash THEN <<quoted[k + 1]>> \o from[k + 2]
            ELSE <<quoted[k]>> \o from[k + 1]
    IN  from[2]

\* Which of open, data and close a request of a write is.
Kinds(data) == {num \in 1 .. 3 : hasBytes(Fields(data), num)}

\* What a device is told of the broker.
MQTT(port) == [mqttTopic |-> <<0>>, BrokerURL |-> <<1>>, Port |-> port,
               ThingsPattern |-> <<2>>, logTopic |-> <<3>>]

\* The seven fields of a provisioning: of the two strings of the network the key
\* is quoted, and the device can tell it from every other and from none.
SaysProvision(fields, ssid, psk, mqtt) ==
    /\ getString(fields, 1) = ssid
    /\ psk = << >> <=> ~hasBytes(fields, 2)
    /\ psk # << >> => Unescaped(getString(fields, 2)) = psk
    /\ getString(fields, 3) = mqtt.mqttTopic
    /\ getString(fields, 4) = mqtt.BrokerURL
    /\ getUint32(fields, 5) = mqtt.Port
    /\ getString(fields, 6) = mqtt.ThingsPattern
    /\ getString(fields, 7) = mqtt.logTopic

\* A request says what it was built from: the path; the chunk of an image and its
\* offset, zero included, at every length of the chunk; the network, with quotes
\* and backslashes in its key, and the broker.
RequestsReadBack ==
    LET path == <<3>> \o message
        open == OpenRequest(path)
        mqtt == MQTT(WordValues - 1 - number)
        provision == ProvisionRequest(message, message, mqtt)
    IN  /\ Kinds(open) = {1} /\ Kinds(CloseRequest) = {3}
        /\ getString(InnerFields(open, 1), 1) = path
        /\ \A offset \in {number, WordValues - 1} :
              LET data == DataRequest(offset, message)
              IN  data # << >> =>
                      /\ Kinds(data) = {2}
                      /\ getUint32(InnerFields(data, 2), 1) = offset
                      /\ getString(InnerFields(data, 2), 2) = message
        /\ SaysProvision(InnerFields(provision, 1), message, message, mqtt)

\* The colour of each LED, and for how long.
LedsReadBack ==
    LET color == number % Fixed32Values
        fields == Fields(IndicateRequest(1, color, 0, number))
        inner == [k \in Matching(fields, 1, {wireLenDel}) |-> Fields(fields[k].value)]
    IN  /\ getBool(Fields(OnRequest(number > 0)), 1) <=> number > 0
        /\ [k \in DOMAIN inner |-> getUint32(inner[k], 1)] = <<0, 1, 2>>
        /\ [k \in DOMAIN inner |-> getFixed32(inner[k], 2)] = <<1, color, 0>>
        /\ getDouble(fields, 2) = number

\* A device that answers with a status, whatever fields come with it, is read as
\* being in the state it says, with the error it says.
StatusOf(state, error) ==
    WriteMessage(1, WriteFixed32(1, state) \o WriteUint32(2, error) \o WriteBool(3, state = 1))

StatusReadsBack ==
    \A state \in 0 .. Fixed32Values - 1 :
        LET read == ParseStatus(StatusOf(state, number) \o WriteBytes(2, message))
        IN  /\ read.status = "ok"
            /\ read.value.State = state
            /\ read.value.Error = Signed(ZigZag(number), Fixed32Values)
            /\ read.value.DidProvisioningSucceed <=> state = 1

\* The names of a device, and its battery.
InfoReadsBack ==
    LET name == WriteBytes(8, message)
        info == ParseDeviceInfo(WriteMessage(1, name \o WriteBytes(9, <<1>>))).value
        battery == ParseBatteryInfo(
            WriteMessage(1, WriteBool(1, FALSE) \o WriteBool(2, TRUE) \o name)).value
    IN  /\ info.AWSThingName = message /\ info.WiFiMAC = <<1>>
        /\ ~battery.IsPluggedIn /\ battery.IsCharging

\* Each request says all that it was built from, its LEDs, path, chunk or network
\* and broker, and of a response the status, the thing name and MAC address, or
\* the battery are read as it says them. (A state in which a sequence for COBS is
\* tried has no new message or number, nor has one with a new message a new
\* number.)
MessagesReadBack ==
    bytes = << >> =>
        /\ RequestsReadBack /\ StatusReadsBack /\ InfoReadsBack
        /\ message = << >> => LedsReadBack

\* A field as a device would send it.
Sent(f) ==
    CASE f.wireType = wireVarint -> Tag(f.number, wireVarint) \o EncodeVarint(f.value)
      [] f.wireType = wire64Bit -> Tag(f.number, wire64Bit) \o LittleEndian(f.value, Fixed64Bytes)
      [] f.wireType = wire32Bit -> WriteFixed32(f.number, f.value)
      [] f.wireType = wireLenDel -> Tag(f.number, wireLenDel) \o Length(f.value) \o f.value

\* Whatever arrives: the fields made of it are all there is in it, no shorter
\* encoding of them is another message, and only a length that no packet can
\* have makes the decoder panic.
FieldsAreTheMessage ==
    LET read == DecodeFields(message)
    IN  /\ read.status = "ok" =>
              LET again == FlattenSeq([k \in DOMAIN read.fields |-> Sent(read.fields[k])])
              IN  Len(again) <= Len(message) /\ Fields(again) = read.fields
        /\ read.status = "panic" =>
              \E k \in 1 .. Len(message) : \E v \in Uvarint(message, k) :
                  v[1] + Len(message) >= TwoTo[WordBits - 1]

=============================================================================
