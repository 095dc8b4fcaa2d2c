----------------------------- MODULE SerialProof -----------------------------
(***************************************************************************)
(* Proofs about the serial side of internal/transport: a channel for every *)
(* number of Opens and of reads; COBS for every packet, every line and     *)
(* every size of a full group; varints of every width; messages of any     *)
(* fields; the line for all packets and any damage.                        *)
(***************************************************************************)
EXTENDS SerialChannel, Framing, EncodingLaws, InductionLemmas, SequenceTheorems,
        FiniteSetTheorems, TLAPS

(* A channel: the inductive invariant.                                     *)

LoopStates == {"none", "check", "read", "reading", "ended"}
Live(n) == loop[n] \notin {"none", "ended"}

TypeOK ==
    /\ pc \in {"idle", "opened", "closing", "waiting"}
    /\ opens \in 0 .. MaxOpens
    /\ serial \in 0 .. MaxOpens
    /\ running \in BOOLEAN
    /\ closed \in BOOLEAN
    /\ done \in 0 .. MaxOpens
    /\ doneShut \subseteq Opens
    /\ loop \in [Opens -> LoopStates]
    /\ reading \in [Opens -> 0 .. MaxOpens]
    /\ unread \in [Opens -> Nat]
    /\ attached \in BOOLEAN
    /\ panicked \in BOOLEAN

\* The only loop that may still run is the one of the port the field holds, and
\* it reads that port; done is the channel it will close.
LoopOfPort ==
    /\ \A n \in Opens :
          /\ Live(n) => n = serial
          /\ loop[n] = "reading" => reading[n] = serial
          /\ n \in doneShut <=> loop[n] = "ended"
          /\ n > opens => loop[n] = "none"
    /\ serial # 0 => done = serial
    /\ pc = "opened" => opens \in Opens /\ loop[opens] = "none"

\* Which port is open, and what the flags say, at each point of the owner.
PortOfCall ==
    /\ running => serial # 0 /\ pc = "idle"
    /\ pc = "opened" => serial = 0
    /\ pc \in {"closing", "waiting"} => serial # 0
    /\ pc = "opened" => handles = {opens}
    /\ pc = "waiting" => handles = {}
    /\ pc \in {"idle", "closing"} => handles = {serial} \ {0}

\* The bytes kept are of the port the field holds.
BytesOfPort == serial # 0 => bufferOf \subseteq {serial}

IInv == TypeOK /\ LoopOfPort /\ PortOfCall /\ BytesOfPort /\ ~panicked

-----------------------------------------------------------------------------
\* A new channel: no port, no loop.
LEMMA InitIInv == Init => IInv
<1>. SUFFICES ASSUME Init PROVE IInv
  OBVIOUS
<1>. USE SerialChannelAssumption DEF Init, Opens
<1>1. TypeOK
  <2>1. /\ loop \in [Opens -> LoopStates]
        /\ reading \in [Opens -> 0 .. MaxOpens]
        /\ unread \in [Opens -> Nat]
    BY DEF LoopStates
  <2>2. 0 \in 0 .. MaxOpens
    OBVIOUS
  <2>3. /\ running \in BOOLEAN /\ closed \in BOOLEAN
        /\ attached \in BOOLEAN /\ panicked \in BOOLEAN
    OBVIOUS
  <2>. QED
    BY <2>1, <2>2, <2>3 DEF TypeOK
<1>2. LoopOfPort
  BY DEF LoopOfPort, Live
<1>3. PortOfCall
  BY DEF PortOfCall
<1>4. BytesOfPort /\ ~panicked
  BY DEF BytesOfPort
<1>. QED
  BY <1>1, <1>2, <1>3, <1>4 DEF IInv

\* Every step of the owner keeps the invariant. An Open finds that no loop of
\* the channel runs; Close takes the port away only from a loop that has ended.
LEMMA OwnerKeeps ==
    ASSUME IInv, Owner
    PROVE  IInv'
<1>. USE SerialChannelAssumption
     DEF IInv, TypeOK, LoopStates, Live, LoopOfPort, PortOfCall, BytesOfPort, Opens,
         fieldVars, systemVars
<1>1. CASE OpenPort
  BY <1>1 DEF OpenPort, Bracketed
<1>2. CASE StartLoop
  <2>1. TypeOK'
    BY <1>2 DEF StartLoop
  <2>2. LoopOfPort'
    BY <1>2 DEF StartLoop
  <2>3. PortOfCall' /\ BytesOfPort' /\ ~panicked'
    BY <1>2 DEF StartLoop
  <2>. QED
    BY <2>1, <2>2, <2>3
<1>3. CASE CloseFlags
  BY <1>3 DEF CloseFlags
<1>4. CASE ClosePort
  BY <1>4 DEF ClosePort, Released
<1>5. CASE CloseReturns
  BY <1>5 DEF CloseReturns, LoopHasEnded
<1>. QED
  BY <1>1, <1>2, <1>3, <1>4, <1>5 DEF Owner, OwnerContinues

\* So does every step of a readLoop, which is that of the port in the field.
LEMMA ReadLoopKeeps ==
    ASSUME IInv, NEW n \in Opens, ReadLoop(n)
    PROVE  IInv'
<1>. USE SerialChannelAssumption
     DEF IInv, TypeOK, LoopStates, Live, LoopOfPort, PortOfCall, BytesOfPort, Opens,
         fieldVars, systemVars
<1>1. CASE CheckRunning(n)
  BY <1>1 DEF CheckRunning
<1>2. CASE BeginRead(n)
  BY <1>2 DEF BeginRead
<1>3. CASE ReadReturns(n)
  BY <1>3 DEF ReadReturns
<1>4. CASE ReadFails(n)
  BY <1>4 DEF ReadFails
<1>. QED
  BY <1>1, <1>2, <1>3, <1>4 DEF ReadLoop

\* And the device only comes and goes.
LEMMA StepIInv ==
    ASSUME IInv, [Next]_vars
    PROVE  IInv'
<1>1. CASE Owner
  BY <1>1, OwnerKeeps
<1>2. ASSUME NEW n \in Opens, ReadLoop(n)
      PROVE  IInv'
  BY <1>2, ReadLoopKeeps
<1>3. CASE DeviceStep
  BY <1>3 DEF DeviceStep, DeviceLeaves, DeviceReturns, fieldVars, IInv, TypeOK, LoopStates,
              Live, LoopOfPort, PortOfCall, BytesOfPort, Opens
<1>4. CASE UNCHANGED vars
  BY <1>4 DEF vars, IInv, TypeOK, LoopStates, Live, LoopOfPort, PortOfCall, BytesOfPort, Opens
<1>. QED
  BY <1>1, <1>2, <1>3, <1>4 DEF Next

LEMMA Invariance == Spec => []IInv
  BY InitIInv, StepIInv, PTL DEF Spec

-----------------------------------------------------------------------------
\* The live loops are among one number, so there is at most one.
LEMMA OneLoop ==
    ASSUME IInv
    PROVE  Cardinality({n \in Opens : loop[n] \notin {"none", "ended"}}) <= 1
<1>. DEFINE Loops == {n \in Opens : loop[n] \notin {"none", "ended"}}
<1>1. Loops \in SUBSET {serial}
  BY DEF IInv, LoopOfPort, Live
<1>2. IsFiniteSet({serial}) /\ Cardinality({serial}) = 1
  BY FS_Singleton
<1>. QED
  BY <1>1, <1>2, FS_Subset, FS_CardinalityType

\* A channel that is opened, closed and reopened any number of times has one
\* reader at a time: no packet is put together from the bytes of two
\* connections and no readLoop uses a port that Close has set to nil.
THEOREM ReopenedChannelHasOneReader == Spec => []OneReader
<1>1. IInv => OneReader
  BY OneLoop DEF IInv, OneReader, BytesOfPort, PortOfCall
<1>. QED
  BY <1>1, Invariance, PTL

\* Between calls the only port held open is the one the field holds: neither a
\* failed Open nor a Close leaves one behind.
THEOREM ClosedChannelHoldsNoPort == Spec => []NoHandleLeaks
<1>1. IInv => NoHandleLeaks
  BY DEF IInv, NoHandleLeaks, PortOfCall
<1>. QED
  BY <1>1, Invariance, PTL

-----------------------------------------------------------------------------
(* COBS for every packet and every size of a full group.                   *)

Byte == 0 .. FullCode
Bytes == Seq(Byte)

LEMMA SizesAreNumbers == FullCode \in Nat /\ FullCode >= 2
  BY CodecAssumption

-----------------------------------------------------------------------------
(* The decoder.                                                            *)

\* What is decoded at position i, from what is decoded further on.
GroupAt(data, i) ==
    SubSeq(data, i + 1, (i + data[i]) - 1)
        \o (IF EndsWithZero(data[i]) /\ MoreFollows(data, i + data[i]) THEN << 0 >> ELSE << >>)

DecodeStep(data, i, from) ==
    IF i > Len(data) THEN {<< >>}
    ELSE IF data[i] = 0 \/ i + data[i] > Len(data) + 1 THEN {}
    ELSE {GroupAt(data, i) \o rest : rest \in from[i + data[i]]}

DecodeFrom(data) ==
    CHOOSE from : from = [i \in 1 .. Len(data) + 1 |-> DecodeStep(data, i, from)]

LEMMA DecodeIsFrom ==
    ASSUME NEW data \in Bytes, data # << >>
    PROVE  COBSDecode(data) = DecodeFrom(data)[1]
  BY DEF COBSDecode, DecodeFrom, DecodeStep, GroupAt

LEMMA DecodeStepType ==
    ASSUME NEW data \in Bytes, NEW i \in 1 .. Len(data) + 1,
           NEW from \in [1 .. Len(data) + 1 -> SUBSET Bytes]
    PROVE  DecodeStep(data, i, from) \in SUBSET Bytes
<1>1. Len(data) \in Nat /\ \A k \in 1 .. Len(data) : data[k] \in Byte /\ data[k] \in Nat
  BY SizesAreNumbers DEF Bytes, Byte
<1>2. << >> \in Bytes /\ << 0 >> \in Bytes
  BY SizesAreNumbers DEF Bytes, Byte
<1>3. CASE i > Len(data)
  BY <1>2, <1>3 DEF DecodeStep
<1>4. CASE i <= Len(data) /\ (data[i] = 0 \/ i + data[i] > Len(data) + 1)
  BY <1>1, <1>4 DEF DecodeStep
<1>5. CASE i <= Len(data) /\ ~(data[i] = 0 \/ i + data[i] > Len(data) + 1)
  <2>. DEFINE next == i + data[i]
              group == SubSeq(data, i + 1, next - 1)
              zero == IF EndsWithZero(data[i]) /\ MoreFollows(data, next) THEN << 0 >> ELSE << >>
  <2>1. i \in 1 .. Len(data) /\ data[i] \in Nat /\ next \in 1 .. Len(data) + 1 /\ next \in Int
    BY <1>1, <1>5
  <2>2. group \in Bytes
    <3>1. \A k \in i + 1 .. next - 1 : data[k] \in Byte
      BY <1>1, <2>1
    <3>2. i + 1 \in Int /\ next - 1 \in Int
      BY <2>1
    <3>. HIDE DEF next
    <3>. QED
      BY <3>1, <3>2, SubSeqProperties DEF Bytes
  <2>3. zero \in Bytes
    BY <1>2
  <2>4. \A rest \in from[next] : rest \in Bytes
    BY <2>1
  <2>5. GroupAt(data, i) \in Bytes
    <3>1. GroupAt(data, i) = group \o zero
      BY DEF GroupAt
    <3>. HIDE DEF group, zero, next
    <3>. QED
      BY <2>2, <2>3, <3>1, ConcatProperties DEF Bytes
  <2>6. ASSUME NEW rest \in from[next] PROVE GroupAt(data, i) \o rest \in Bytes
    <3>. HIDE DEF next
    <3>. QED
      BY <2>4, <2>5, ConcatProperties DEF Bytes
  <2>7. DecodeStep(data, i, from) = {GroupAt(data, i) \o rest : rest \in from[next]}
    <3>1. ~(i > Len(data)) /\ ~(data[i] = 0 \/ i + data[i] > Len(data) + 1)
      BY <1>1, <1>5
    <3>. QED
      BY ONLY <3>1, Zenon DEF DecodeStep
  <2>. HIDE DEF group, zero, next
  <2>. QED
    BY <2>6, <2>7
<1>. QED
  BY <1>1, <1>3, <1>4, <1>5

\* Nothing but what is decoded after the group is used.
LEMMA DecodeStepUses ==
    ASSUME NEW data \in Bytes, NEW i \in 1 .. Len(data) + 1, NEW g, NEW h,
           \A j \in i + 1 .. Len(data) + 1 : g[j] = h[j]
    PROVE  DecodeStep(data, i, g) = DecodeStep(data, i, h)
<1>1. Len(data) \in Nat /\ i \in Nat /\ (i <= Len(data) => data[i] \in Nat)
  BY SizesAreNumbers DEF Bytes, Byte
<1>2. CASE i > Len(data) \/ data[i] = 0 \/ i + data[i] > Len(data) + 1
  BY <1>2 DEF DecodeStep
<1>3. CASE ~(i > Len(data) \/ data[i] = 0 \/ i + data[i] > Len(data) + 1)
  <2>1. i + data[i] \in i + 1 .. Len(data) + 1
    BY <1>1, <1>3
  <2>2. g[i + data[i]] = h[i + data[i]]
    BY <2>1
  <2>. QED
    BY <1>3, <2>2 DEF DecodeStep
<1>. QED
  BY <1>2, <1>3

\* The recursion is well founded, for the code is not zero where it goes on.
LEMMA DecodeFromIs ==
    ASSUME NEW data \in Bytes
    PROVE  /\ DecodeFrom(data) \in [1 .. Len(data) + 1 -> SUBSET Bytes]
           /\ \A i \in 1 .. Len(data) + 1 :
                 DecodeFrom(data)[i] = DecodeStep(data, i, DecodeFrom(data))
<1>. DEFINE N == Len(data) + 1
            S == 1 .. N
            V == SUBSET Bytes
            rank == [i \in S |-> N - i]
            Step == [i \in S |-> [g \in [S -> V] |-> DecodeStep(data, i, g)]]
<1>1. Len(data) \in Nat /\ N \in Nat /\ rank \in [S -> 0 .. N]
  BY DEF Bytes
<1>2. Step \in [S -> [[S -> V] -> V]]
  <2>1. \A i \in S : \A g \in [S -> V] : DecodeStep(data, i, g) \in V
    BY DecodeStepType
  <2>. HIDE DEF S, V
  <2>. QED
    BY <2>1
<1>3. ASSUME NEW i \in S, NEW g \in [S -> V], NEW h \in [S -> V],
             \A j \in S : rank[j] < rank[i] => g[j] = h[j]
      PROVE  Step[i][g] = Step[i][h]
  <2>1. \A j \in i + 1 .. Len(data) + 1 : j \in S /\ rank[j] < rank[i]
    BY <1>1
  <2>2. DecodeStep(data, i, g) = DecodeStep(data, i, h)
    BY <1>3, <2>1, DecodeStepUses
  <2>. QED
    BY <2>2
<1>4. \E f \in [S -> V] : f = [i \in S |-> Step[i][f]]
  <2>1. Computes(Step, rank, N, S, V)
    <3>. HIDE DEF S, N, V, rank, Step
    <3>. QED
      BY <1>1, <1>2, <1>3 DEF Computes
  <2>2. V # {}
    OBVIOUS
  <2>. HIDE DEF S, N, V, rank, Step
  <2>. QED
    BY <2>1, <2>2, Recursion
<1>5. PICK f : f \in [S -> V] /\ f = [i \in S |-> DecodeStep(data, i, f)]
  BY <1>4
<1>6. DecodeFrom(data) = [i \in S |-> DecodeStep(data, i, DecodeFrom(data))]
  BY <1>5 DEF DecodeFrom
<1>7. \A i \in S : /\ DecodeFrom(data)[i] = DecodeStep(data, i, DecodeFrom(data))
                  /\ f[i] = DecodeStep(data, i, f)
  <2>. HIDE DEF S
  <2>. QED
    BY <1>5, <1>6
<1>8. ASSUME NEW i \in S PROVE DecodeFrom(data)[i] = f[i]
  <2>. DEFINE T == {n \in Nat : \A j \in S : N - j = n => DecodeFrom(data)[j] = f[j]}
  <2>1. ASSUME NEW n \in Nat, \A m \in 0 .. n - 1 : m \in T PROVE n \in T
    <3>1. ASSUME NEW j \in S, N - j = n PROVE DecodeFrom(data)[j] = f[j]
      <4>1. \A k \in j + 1 .. N : k \in S /\ N - k \in 0 .. n - 1
        BY <1>1, <3>1
      <4>2. \A k \in j + 1 .. N : DecodeFrom(data)[k] = f[k]
        BY <2>1, <4>1
      <4>3. DecodeStep(data, j, DecodeFrom(data)) = DecodeStep(data, j, f)
        BY <4>2, DecodeStepUses
      <4>. QED
        BY <1>7, <4>3
    <3>. QED
      BY <3>1
  <2>2. Nat \subseteq T
    <3>. HIDE DEF T
    <3>. QED
      BY <2>1, CompleteInduction
  <2>3. N - i \in Nat
    BY <1>1
  <2>. QED
    BY <2>2, <2>3
<1>9. DecodeFrom(data) \in [S -> V]
  <2>1. DecodeFrom(data) = [i \in S |-> DecodeFrom(data)[i]]
    <3>. HIDE DEF S
    <3>. QED
      BY <1>6
  <2>2. \A i \in S : DecodeFrom(data)[i] \in V
    <3>. HIDE DEF S, V
    <3>. QED
      BY <1>5, <1>8
  <2>. HIDE DEF S, V
  <2>. QED
    BY <2>1, <2>2
<1>. QED
  BY <1>7, <1>9

\* What stands before a position is not looked at any more.
LEMMA DecodeBehind ==
    ASSUME NEW x \in Bytes, NEW t \in Bytes
    PROVE  \A i \in 1 .. Len(t) + 1 : DecodeFrom(x \o t)[Len(x) + i] = DecodeFrom(t)[i]
<1>. DEFINE data == x \o t
            p == Len(x)
<1>1. /\ p \in Nat /\ Len(t) \in Nat /\ data \in Bytes /\ Len(data) = p + Len(t)
      /\ \A i \in 1 .. Len(t) : data[p + i] = t[i] /\ t[i] \in Nat
  <2>1. /\ data \in Bytes /\ Len(data) = p + Len(t) /\ p \in Nat /\ Len(t) \in Nat
        /\ \A i \in 1 .. p + Len(t) : data[i] = IF i <= p THEN x[i] ELSE t[i - p]
    BY ConcatProperties DEF Bytes
  <2>2. \A i \in 1 .. Len(t) : t[i] \in Nat
    BY SizesAreNumbers DEF Bytes, Byte
  <2>3. \A i \in 1 .. Len(t) : p + i \in 1 .. p + Len(t) /\ ~(p + i <= p) /\ (p + i) - p = i
    BY <2>1
  <2>. HIDE DEF data, p
  <2>. QED
    BY <2>1, <2>2, <2>3
<1>. HIDE DEF data, p
<1>2. ASSUME NEW i \in 1 .. Len(t) + 1,
             \A j \in i + 1 .. Len(t) + 1 : DecodeFrom(data)[p + j] = DecodeFrom(t)[j]
      PROVE  DecodeFrom(data)[p + i] = DecodeFrom(t)[i]
  <2>1. p + i \in 1 .. Len(data) + 1 /\ i \in Nat
    BY <1>1
  <2>2. /\ DecodeFrom(data)[p + i] = DecodeStep(data, p + i, DecodeFrom(data))
        /\ DecodeFrom(t)[i] = DecodeStep(t, i, DecodeFrom(t))
    BY <1>1, <2>1, DecodeFromIs
  <2>3. CASE i > Len(t)
    <3>1. p + i > Len(data)
      BY <1>1, <2>3
    <3>. QED
      BY <2>2, <2>3, <3>1 DEF DecodeStep
  <2>4. CASE i <= Len(t) /\ (t[i] = 0 \/ i + t[i] > Len(t) + 1)
    <3>1. /\ ~(i > Len(t)) /\ ~(p + i > Len(data)) /\ data[p + i] = t[i]
          /\ t[i] = 0 \/ (p + i) + t[i] > Len(data) + 1
      BY <1>1, <2>4
    <3>. QED
      BY <2>2, <2>4, <3>1 DEF DecodeStep
  <2>5. CASE i <= Len(t) /\ ~(t[i] = 0 \/ i + t[i] > Len(t) + 1)
    <3>1. /\ ~(i > Len(t)) /\ ~(p + i > Len(data)) /\ data[p + i] = t[i] /\ t[i] \in Nat \ {0}
          /\ i \in 1 .. Len(t) /\ i + t[i] \in i + 1 .. Len(t) + 1
          /\ ~((p + i) + t[i] > Len(data) + 1) /\ (p + i) + t[i] = p + (i + t[i])
      BY <1>1, <2>5
    <3>2. DecodeFrom(data)[p + (i + t[i])] = DecodeFrom(t)[i + t[i]]
      BY <1>2, <3>1
    <3>3. GroupAt(data, p + i) = GroupAt(t, i)
      <4>1. MoreFollows(data, (p + i) + t[i]) <=> MoreFollows(t, i + t[i])
        BY <1>1, <3>1 DEF MoreFollows
      <4>2. SubSeq(data, (p + i) + 1, ((p + i) + t[i]) - 1) = SubSeq(t, i + 1, (i + t[i]) - 1)
        <5>1. CASE t[i] = 1
          <6>1. /\ ((p + i) + t[i]) - 1 < (p + i) + 1 /\ (i + t[i]) - 1 < i + 1
                /\ (p + i) + 1 \in Int /\ ((p + i) + t[i]) - 1 \in Int
                /\ i + 1 \in Int /\ (i + t[i]) - 1 \in Int
            BY <1>1, <2>1, <5>1
          <6>. QED
            BY <6>1, SubSeqEmpty
        <5>2. CASE t[i] # 1
          <6>. DEFINE m == (p + i) + 1
                      n == ((p + i) + t[i]) - 1
          <6>1. /\ m \in p + 1 .. p + Len(t) /\ n \in p + 1 .. p + Len(t)
                /\ m - p = i + 1 /\ n - p = (i + t[i]) - 1
            BY <1>1, <2>1, <3>1, <5>2
          <6>2. SubSeq(x \o t, m, n) = SubSeq(t, m - Len(x), n - Len(x))
            <7>. HIDE DEF m, n
            <7>. QED
              BY <6>1, SubSeqOfConcat2 DEF p, Bytes
          <6>. QED
            BY <6>1, <6>2 DEF data, p
        <5>. QED
          BY <5>1, <5>2
      <4>. QED
        BY <3>1, <4>1, <4>2 DEF GroupAt
    <3>4. DecodeStep(t, i, DecodeFrom(t)) = {GroupAt(t, i) \o r : r \in DecodeFrom(t)[i + t[i]]}
      BY <2>5, <3>1 DEF DecodeStep
    <3>5. DecodeStep(data, p + i, DecodeFrom(data))
              = {GroupAt(data, p + i) \o r : r \in DecodeFrom(data)[(p + i) + t[i]]}
      <4>1. ~(p + i > Len(data)) /\ ~(data[p + i] = 0 \/ (p + i) + data[p + i] > Len(data) + 1)
        BY <3>1
      <4>. QED
        BY <3>1, <4>1 DEF DecodeStep
    <3>6. (p + i) + t[i] = p + (i + t[i])
      BY <3>1
    <3>. QED
      BY <2>2, <3>2, <3>3, <3>4, <3>5, <3>6
  <2>. QED
    BY <1>1, <2>1, <2>3, <2>4, <2>5
<1>. DEFINE T == {n \in Nat : \A i \in 1 .. Len(t) + 1 :
                    (Len(t) + 1) - i = n => DecodeFrom(data)[p + i] = DecodeFrom(t)[i]}
<1>3. ASSUME NEW n \in Nat, \A m \in 0 .. n - 1 : m \in T PROVE n \in T
  <2>1. ASSUME NEW i \in 1 .. Len(t) + 1, (Len(t) + 1) - i = n
        PROVE  DecodeFrom(data)[p + i] = DecodeFrom(t)[i]
    <3>1. \A j \in i + 1 .. Len(t) + 1 :
              j \in 1 .. Len(t) + 1 /\ (Len(t) + 1) - j \in 0 .. n - 1
      BY <1>1, <2>1
    <3>2. \A j \in i + 1 .. Len(t) + 1 : DecodeFrom(data)[p + j] = DecodeFrom(t)[j]
      BY <1>3, <3>1
    <3>. QED
      BY <1>2, <3>2
  <2>. QED
    BY <2>1
<1>4. Nat \subseteq T
  <2>. HIDE DEF T
  <2>. QED
    BY <1>3, CompleteInduction
<1>5. \A i \in 1 .. Len(t) + 1 : (Len(t) + 1) - i \in Nat
  BY <1>1
<1>. QED
  BY <1>4, <1>5 DEF data, p

\* A group on the line: its code and its bytes.
Group(g) == <<Len(g) + 1>> \o g

LEMMA GroupIs ==
    ASSUME NEW g \in Bytes, Len(g) < FullCode
    PROVE  /\ Group(g) \in Bytes /\ Len(Group(g)) = Len(g) + 1 /\ Group(g)[1] = Len(g) + 1
           /\ \A k \in 1 .. Len(g) : Group(g)[k + 1] = g[k]
<1>1. <<Len(g) + 1>> \in Bytes /\ Len(<<Len(g) + 1>>) = 1 /\ <<Len(g) + 1>>[1] = Len(g) + 1
      /\ Len(g) \in Nat
  BY SizesAreNumbers DEF Bytes, Byte
<1>. DEFINE code == <<Len(g) + 1>>
<1>2. /\ code \o g \in Bytes /\ Len(code \o g) = Len(code) + Len(g)
      /\ \A i \in 1 .. Len(code) + Len(g) :
            (code \o g)[i] = IF i <= Len(code) THEN code[i] ELSE g[i - Len(code)]
  <2>. HIDE DEF code
  <2>. QED
    BY <1>1, ConcatProperties DEF Bytes, code
<1>3. \A k \in 1 .. Len(g) :
          k + 1 \in 1 .. Len(code) + Len(g) /\ ~(k + 1 <= Len(code)) /\ (k + 1) - Len(code) = k
  BY <1>1
<1>4. 1 \in 1 .. Len(code) + Len(g) /\ 1 <= Len(code)
  BY <1>1
<1>. QED
  BY <1>1, <1>2, <1>3, <1>4 DEF Group

ZeroAfter(g) == IF Len(g) + 1 < FullCode THEN << 0 >> ELSE << >>

\* A group is decoded to its bytes, and the zero it stands for.
LEMMA GroupDecodes ==
    ASSUME NEW g \in Bytes, Len(g) < FullCode, NEW t \in Bytes
    PROVE  /\ COBSDecode(Group(g)) = {g}
           /\ t # << >> =>
                 COBSDecode(Group(g) \o t) = {(g \o ZeroAfter(g)) \o r : r \in COBSDecode(t)}
<1>. DEFINE x == Group(g)
<1>1. ASSUME NEW u \in Bytes
      PROVE  COBSDecode(x \o u) = {GroupAt(x \o u, 1) \o r : r \in DecodeFrom(u)[1]}
             /\ GroupAt(x \o u, 1)
                   = g \o (IF Len(g) + 1 < FullCode /\ u # << >> THEN << 0 >> ELSE << >>)
  <2>. DEFINE data == x \o u
  <2>1. /\ data \in Bytes /\ Len(data) = Len(g) + 1 + Len(u) /\ data[1] = Len(g) + 1
        /\ Len(g) \in Nat /\ Len(u) \in Nat /\ x \in Bytes /\ Len(x) = Len(g) + 1
    <3>1. /\ x \in Bytes /\ Len(x) = Len(g) + 1 /\ x[1] = Len(g) + 1
          /\ Len(g) \in Nat /\ Len(u) \in Nat
      BY GroupIs DEF Bytes
    <3>2. /\ x \o u \in Bytes /\ Len(x \o u) = Len(x) + Len(u)
          /\ \A i \in 1 .. Len(x) + Len(u) :
                (x \o u)[i] = IF i <= Len(x) THEN x[i] ELSE u[i - Len(x)]
      <4>. HIDE DEF x
      <4>. QED
        BY <3>1, ConcatProperties DEF Bytes
    <3>. HIDE DEF x
    <3>. QED
      BY <3>1, <3>2
  <2>. HIDE DEF data
  <2>2. DecodeFrom(data)[1] = DecodeStep(data, 1, DecodeFrom(data))
    BY <2>1, DecodeFromIs
  <2>3. /\ ~(1 > Len(data)) /\ ~(data[1] = 0 \/ 1 + data[1] > Len(data) + 1)
        /\ 1 + data[1] = Len(x) + 1
    BY <2>1
  <2>4. DecodeFrom(data)[1] = {GroupAt(data, 1) \o r : r \in DecodeFrom(data)[Len(x) + 1]}
    BY <2>2, <2>3 DEF DecodeStep
  <2>5. DecodeFrom(data)[Len(x) + 1] = DecodeFrom(u)[1]
    <3>1. 1 \in 1 .. Len(u) + 1
      BY <2>1
    <3>. HIDE DEF x
    <3>. QED
      BY <2>1, <3>1, DecodeBehind DEF data
  <2>6. COBSDecode(data) = DecodeFrom(data)[1]
    <3>1. data # << >>
      BY <2>1
    <3>. QED
      BY <2>1, <3>1, DecodeIsFrom
  <2>7. GroupAt(data, 1) = g \o (IF Len(g) + 1 < FullCode /\ u # << >> THEN << 0 >> ELSE << >>)
    <3>1. MoreFollows(data, 1 + data[1]) <=> u # << >>
      <4>1. u # << >> <=> Len(u) > 0
        BY DEF Bytes
      <4>. QED
        BY <2>1, <4>1 DEF MoreFollows
    <3>2. EndsWithZero(data[1]) <=> Len(g) + 1 < FullCode
      BY <2>1 DEF EndsWithZero
    <3>3. SubSeq(data, 1 + 1, (1 + data[1]) - 1) = g
      <4>1. \A k \in 1 .. Len(g) : data[1 + k] = g[k]
        <5>1. \A k \in 1 .. Len(g) :
                  1 + k \in 1 .. Len(x) + Len(u) /\ 1 + k <= Len(x) /\ 1 + k = k + 1
          BY <2>1
        <5>2. \A k \in 1 .. Len(g) : x[k + 1] = g[k]
          BY GroupIs
        <5>3. \A i \in 1 .. Len(x) + Len(u) : data[i] = IF i <= Len(x) THEN x[i] ELSE u[i - Len(x)]
          <6>. HIDE DEF x
          <6>. QED
            BY <2>1, ConcatProperties DEF Bytes, data
        <5>. HIDE DEF x
        <5>. QED
          BY <5>1, <5>2, <5>3
      <4>2. SubSeq(data, 2, Len(g) + 1) = g
        <5>. DEFINE s == SubSeq(data, 2, Len(g) + 1)
        <5>1. \A i \in 2 .. Len(g) + 1 : data[i] \in Byte
          <6>1. \A i \in 2 .. Len(g) + 1 : i \in 1 .. Len(data)
            BY <2>1
          <6>. QED
            BY <2>1, <6>1 DEF Bytes
        <5>2. 2 \in Int /\ Len(g) + 1 \in Int
          BY <2>1
        <5>3. /\ s \in Seq(Byte) /\ Len(s) = IF 2 <= Len(g) + 1 THEN (Len(g) + 1) - 2 + 1 ELSE 0
              /\ \A i \in 1 .. (Len(g) + 1) - 2 + 1 : s[i] = data[2 + i - 1]
          BY <5>1, <5>2, SubSeqProperties
        <5>4. Len(s) = Len(g) /\ \A i \in 1 .. Len(g) : s[i] = data[1 + i]
          <6>1. \A i \in 1 .. Len(g) : i \in 1 .. (Len(g) + 1) - 2 + 1 /\ 2 + i - 1 = 1 + i
            BY <2>1
          <6>2. (IF 2 <= Len(g) + 1 THEN (Len(g) + 1) - 2 + 1 ELSE 0) = Len(g)
            BY <2>1
          <6>. HIDE DEF s
          <6>. QED
            BY <5>3, <6>1, <6>2
        <5>. HIDE DEF s
        <5>5. s = g
          BY <4>1, <5>3, <5>4, SeqEqual DEF Bytes
        <5>. QED
          BY <5>5 DEF s
      <4>3. (1 + data[1]) - 1 = Len(g) + 1 /\ 1 + 1 = 2
        BY <2>1
      <4>. QED
        BY <4>2, <4>3
    <3>. QED
      BY <3>1, <3>2, <3>3 DEF GroupAt
  <2>. QED
    BY <2>4, <2>5, <2>6, <2>7 DEF data
<1>2. x \in Bytes /\ << >> \in Bytes
  BY GroupIs DEF Bytes
<1>3. COBSDecode(x) = {g}
  <2>1. x \o << >> = x
    <3>. HIDE DEF x
    <3>. QED
      BY <1>2, ConcatEmptySeq DEF Bytes
  <2>2. DecodeFrom(<< >>)[1] = {<< >>}
    <3>1. 1 \in 1 .. Len(<< >>) + 1 /\ 1 > Len(<< >>)
      OBVIOUS
    <3>. QED
      BY <1>2, <3>1, DecodeFromIs DEF DecodeStep
  <2>3. GroupAt(x \o << >>, 1) = g \o << >>
    BY <1>1, <1>2
  <2>4. (g \o << >>) \o << >> = g
    BY <1>2, ConcatEmptySeq DEF Bytes
  <2>5. COBSDecode(x \o << >>) = {GroupAt(x \o << >>, 1) \o r : r \in DecodeFrom(<< >>)[1]}
    BY <1>1, <1>2
  <2>. HIDE DEF x
  <2>. QED
    BY <2>1, <2>2, <2>3, <2>4, <2>5
<1>4. ASSUME t # << >>
      PROVE  COBSDecode(x \o t) = {(g \o ZeroAfter(g)) \o r : r \in COBSDecode(t)}
  <2>1. DecodeFrom(t)[1] = COBSDecode(t)
    BY <1>4, DecodeIsFrom
  <2>2. GroupAt(x \o t, 1) = g \o ZeroAfter(g)
    BY <1>1, <1>4 DEF ZeroAfter
  <2>3. COBSDecode(x \o t) = {GroupAt(x \o t, 1) \o r : r \in DecodeFrom(t)[1]}
    BY <1>1
  <2>. HIDE DEF x
  <2>. QED
    BY <2>1, <2>2, <2>3
<1>. QED
  BY <1>3, <1>4

-----------------------------------------------------------------------------
(* The encoder.                                                            *)

LEMMA ConcatBytes ==
    ASSUME NEW a \in Bytes, NEW b \in Bytes
    PROVE  a \o b \in Bytes /\ Len(a \o b) = Len(a) + Len(b) /\ Len(a) \in Nat /\ Len(b) \in Nat
  BY ConcatProperties DEF Bytes

LEMMA ConcatOfThree ==
    ASSUME NEW a \in Bytes, NEW b \in Bytes, NEW c \in Bytes
    PROVE  (a \o b) \o c = a \o (b \o c)
  BY ConcatAssociative DEF Bytes

LEMMA Remainder ==
    ASSUME NEW a \in Nat, NEW m \in Nat, m > 0
    PROVE  a % m \in 0 .. m - 1 /\ (a < m => a % m = a)
  OBVIOUS

States == [encoded : Bytes, group : Bytes]
Start == [encoded |-> << >>, group |-> << >>]

EncodeStep(data, n, after) == IF n = 0 THEN Start ELSE EncodeByte(after[n - 1], data[n])

\* The state after each of the bytes.
After(data) == CHOOSE after : after = [n \in 0 .. Len(data) |-> EncodeStep(data, n, after)]

LEMMA EncodeIsAfter ==
    ASSUME NEW data
    PROVE  COBSEncode(data) = Closed(After(data)[Len(data)])
  BY DEF COBSEncode, After, EncodeStep, Start

LEMMA CodeType ==
    ASSUME NEW g \in Bytes
    PROVE  /\ Len(g) \in Nat /\ <<(Len(g) + 1) % (FullCode + 1)>> \in Bytes
           /\ Len(g) < FullCode => (Len(g) + 1) % (FullCode + 1) = Len(g) + 1
<1>1. Len(g) \in Nat /\ Len(g) + 1 \in Nat /\ FullCode + 1 \in Nat /\ FullCode + 1 > 0
  BY SizesAreNumbers DEF Bytes
<1>. DEFINE r == (Len(g) + 1) % (FullCode + 1)
<1>2. r \in 0 .. (FullCode + 1) - 1 /\ (Len(g) + 1 < FullCode + 1 => r = Len(g) + 1)
  <2>. DEFINE a == Len(g) + 1
              m == FullCode + 1
  <2>1. a \in Nat /\ m \in Nat /\ m > 0
    BY <1>1
  <2>2. r = a % m
    OBVIOUS
  <2>. HIDE DEF a, m, r
  <2>3. a % m \in 0 .. m - 1 /\ (a < m => a % m = a)
    BY <2>1, Remainder
  <2>. QED
    BY <2>2, <2>3 DEF a, m
<1>. HIDE DEF r
<1>3. r \in Byte
  BY <1>2, SizesAreNumbers DEF Byte
<1>4. <<r>> \in Bytes
  BY <1>3 DEF Bytes
<1>5. Len(g) < FullCode => Len(g) + 1 < FullCode + 1
  BY <1>1, SizesAreNumbers
<1>. QED
  BY <1>1, <1>2, <1>4, <1>5 DEF r

LEMMA ClosedType ==
    ASSUME NEW s \in States
    PROVE  /\ Closed(s) \in Bytes
           /\ Len(s.group) < FullCode => Closed(s) = s.encoded \o Group(s.group)
<1>. DEFINE code == <<(Len(s.group) + 1) % (FullCode + 1)>>
<1>1. s.encoded \in Bytes /\ s.group \in Bytes /\ Len(s.group) \in Nat
  BY DEF States, Bytes
<1>2. code \in Bytes
  BY <1>1, CodeType
<1>3. Closed(s) \in Bytes /\ Closed(s) = s.encoded \o (code \o s.group)
  <2>1. Closed(s) = (s.encoded \o code) \o s.group
    BY DEF Closed
  <2>. HIDE DEF code
  <2>2. (s.encoded \o code) \o s.group = s.encoded \o (code \o s.group)
    BY <1>1, <1>2, ConcatOfThree
  <2>3. s.encoded \o code \in Bytes
    BY <1>1, <1>2, ConcatBytes
  <2>4. (s.encoded \o code) \o s.group \in Bytes
    BY <1>1, <2>3, ConcatBytes
  <2>. QED
    BY <2>1, <2>2, <2>4
<1>4. ASSUME Len(s.group) < FullCode PROVE code = <<Len(s.group) + 1>>
  BY <1>1, <1>4, CodeType
<1>. QED
  BY <1>3, <1>4 DEF Group

LEMMA EncodeByteType ==
    ASSUME NEW s \in States, NEW b \in Byte
    PROVE  EncodeByte(s, b) \in States
<1>. DEFINE t == [s EXCEPT !.group = Append(@, b)]
<1>1. Append(s.group, b) \in Bytes /\ << >> \in Bytes
  <2>1. s.group \in Seq(Byte)
    BY DEF States, Bytes
  <2>. QED
    BY <2>1, AppendProperties DEF Bytes
<1>2. t \in States
  BY <1>1 DEF States
<1>3. Closed(s) \in Bytes /\ Closed(t) \in Bytes
  <2>. HIDE DEF t
  <2>. QED
    BY <1>2, ClosedType
<1>4. EncodeByte(s, b) \in {[encoded |-> Closed(s), group |-> << >>],
                            [encoded |-> Closed(t), group |-> << >>], t}
  BY DEF EncodeByte
<1>5. /\ [encoded |-> Closed(s), group |-> << >>] \in States
      /\ [encoded |-> Closed(t), group |-> << >>] \in States
  <2>. HIDE DEF t
  <2>. QED
    BY <1>1, <1>3 DEF States
<1>. QED
  BY <1>2, <1>4, <1>5

LEMMA AfterIs ==
    ASSUME NEW data \in Bytes
    PROVE  /\ After(data)[0] = Start
           /\ \A n \in 1 .. Len(data) : After(data)[n] = EncodeByte(After(data)[n - 1], data[n])
           /\ \A n \in 0 .. Len(data) : After(data)[n] \in States
<1>. DEFINE N == Len(data)
            S == 0 .. N
            rank == [n \in S |-> n]
            Step == [n \in S |-> [g \in [S -> States] |-> EncodeStep(data, n, g)]]
<1>1. N \in Nat /\ rank \in [S -> 0 .. N] /\ \A n \in 1 .. N : data[n] \in Byte
  BY DEF Bytes
<1>2. Start \in States
  BY DEF Start, States, Bytes
<1>3. Step \in [S -> [[S -> States] -> States]]
  <2>1. ASSUME NEW n \in S, NEW g \in [S -> States] PROVE EncodeStep(data, n, g) \in States
    <3>1. CASE n = 0
      BY <1>2, <3>1 DEF EncodeStep
    <3>2. CASE n # 0
      <4>1. n \in 1 .. N /\ n - 1 \in S
        BY <1>1, <3>2
      <4>2. g[n - 1] \in States /\ data[n] \in Byte
        BY <1>1, <4>1
      <4>. QED
        BY <3>2, <4>2, EncodeByteType DEF EncodeStep
    <3>. QED
      BY <3>1, <3>2
  <2>. QED
    BY <2>1
<1>4. ASSUME NEW n \in S, NEW g \in [S -> States], NEW h \in [S -> States],
             \A j \in S : rank[j] < rank[n] => g[j] = h[j]
      PROVE  Step[n][g] = Step[n][h]
  <2>1. CASE n = 0
    BY <2>1 DEF EncodeStep
  <2>2. CASE n # 0
    <3>1. n - 1 \in S /\ rank[n - 1] < rank[n]
      BY <1>1, <2>2
    <3>2. g[n - 1] = h[n - 1]
      BY <1>4, <3>1
    <3>. QED
      BY <2>2, <3>2 DEF EncodeStep
  <2>. QED
    BY <2>1, <2>2
<1>5. \E f \in [S -> States] : f = [n \in S |-> Step[n][f]]
  <2>1. Computes(Step, rank, N, S, States)
    <3>. HIDE DEF S, N, rank, Step
    <3>. QED
      BY <1>1, <1>3, <1>4 DEF Computes
  <2>2. States # {}
    BY <1>2
  <2>. HIDE DEF S, N, rank, Step
  <2>. QED
    BY <2>1, <2>2, Recursion
<1>6. \E f : f = [n \in S |-> EncodeStep(data, n, f)]
  BY <1>5
<1>7. After(data) = [n \in S |-> EncodeStep(data, n, After(data))]
  BY <1>6 DEF After
<1>8. \A n \in S : After(data)[n] = EncodeStep(data, n, After(data))
  <2>. HIDE DEF S
  <2>. QED
    BY <1>7
<1>9. /\ After(data)[0] = Start
      /\ \A n \in 1 .. N : After(data)[n] = EncodeByte(After(data)[n - 1], data[n])
  <2>1. 0 \in S /\ \A n \in 1 .. N : n \in S /\ n # 0
    BY <1>1
  <2>. HIDE DEF S, N
  <2>. QED
    BY <1>8, <2>1 DEF EncodeStep
<1>10. \A n \in S : After(data)[n] \in States
  <2>. DEFINE T == {n \in S : After(data)[n] \in States}
  <2>1. ASSUME NEW n \in 0 .. N - 1, n \in T PROVE n + 1 \in T
    <3>1. n + 1 \in 1 .. N /\ n + 1 \in S /\ (n + 1) - 1 = n
      BY <1>1
    <3>2. After(data)[n + 1] = EncodeByte(After(data)[n], data[n + 1])
      BY <1>9, <3>1
    <3>. QED
      BY <1>1, <2>1, <3>1, <3>2, EncodeByteType
  <2>2. 0 .. N \subseteq T
    <3>1. N \in Int /\ 0 \in Int /\ (0 <= N => 0 \in T)
      BY <1>1, <1>2, <1>9
    <3>. HIDE DEF T, N
    <3>. QED
      BY <2>1, <3>1, IntervalInduction
  <2>. QED
    BY <2>2
<1>. QED
  BY <1>9, <1>10

\* What comes after some bytes does not change the state after them.
LEMMA EncodeAhead ==
    ASSUME NEW x \in Bytes, NEW t \in Bytes
    PROVE  \A n \in 0 .. Len(x) : After(x \o t)[n] = After(x)[n]
<1>. DEFINE data == x \o t
            T == {n \in 0 .. Len(x) : After(data)[n] = After(x)[n]}
<1>1. /\ data \in Bytes /\ Len(data) = Len(x) + Len(t) /\ Len(x) \in Nat /\ Len(t) \in Nat
      /\ \A n \in 1 .. Len(x) : n \in 1 .. Len(data) /\ data[n] = x[n]
  <2>1. /\ data \in Bytes /\ Len(data) = Len(x) + Len(t) /\ Len(x) \in Nat /\ Len(t) \in Nat
        /\ \A i \in 1 .. Len(x) + Len(t) : data[i] = IF i <= Len(x) THEN x[i] ELSE t[i - Len(x)]
    BY ConcatProperties DEF Bytes
  <2>2. \A n \in 1 .. Len(x) : n \in 1 .. Len(x) + Len(t) /\ n <= Len(x)
    BY <2>1
  <2>. HIDE DEF data
  <2>. QED
    BY <2>1, <2>2
<1>. HIDE DEF data
<1>2. 0 \in T
  BY <1>1, AfterIs
<1>3. ASSUME NEW n \in 0 .. Len(x) - 1, n \in T PROVE n + 1 \in T
  <2>1. n + 1 \in 1 .. Len(x) /\ (n + 1) - 1 = n /\ n + 1 \in 0 .. Len(x)
    BY <1>1
  <2>2. /\ After(data)[n + 1] = EncodeByte(After(data)[n], data[n + 1])
        /\ After(x)[n + 1] = EncodeByte(After(x)[n], x[n + 1])
    BY <1>1, <2>1, AfterIs
  <2>. QED
    BY <1>1, <1>3, <2>1, <2>2
<1>4. 0 .. Len(x) \subseteq T
  <2>1. Len(x) \in Int /\ 0 \in Int /\ (0 <= Len(x) => 0 \in T)
    BY <1>1, <1>2
  <2>. HIDE DEF T
  <2>. QED
    BY <1>3, <2>1, IntervalInduction
<1>. QED
  BY <1>4 DEF data

\* A state with more encoded before it.
Behind(e, s) == [encoded |-> e \o s.encoded, group |-> s.group]

LEMMA EncodeByteBehind ==
    ASSUME NEW e \in Bytes, NEW s \in States, NEW b \in Byte
    PROVE  /\ Closed(Behind(e, s)) = e \o Closed(s)
           /\ EncodeByte(Behind(e, s), b) = Behind(e, EncodeByte(s, b))
<1>1. ASSUME NEW u \in States
      PROVE  Closed(Behind(e, u)) = e \o Closed(u) /\ Behind(e, u).group = u.group
  <2>. DEFINE code == <<(Len(u.group) + 1) % (FullCode + 1)>>
  <2>1. u.encoded \in Bytes /\ u.group \in Bytes /\ Len(u.group) \in Nat
    BY DEF States, Bytes
  <2>2. code \in Bytes
    BY <2>1, CodeType
  <2>3. Behind(e, u).encoded = e \o u.encoded /\ Behind(e, u).group = u.group
    BY DEF Behind
  <2>4. /\ Closed(Behind(e, u)) = ((e \o u.encoded) \o code) \o u.group
        /\ Closed(u) = (u.encoded \o code) \o u.group
    BY <2>3 DEF Closed
  <2>5. ((e \o u.encoded) \o code) \o u.group = e \o ((u.encoded \o code) \o u.group)
    <3>. HIDE DEF code
    <3>1. (e \o u.encoded) \o code = e \o (u.encoded \o code)
      BY <2>1, <2>2, ConcatOfThree
    <3>2. u.encoded \o code \in Bytes
      BY <2>1, <2>2, ConcatBytes
    <3>3. (e \o (u.encoded \o code)) \o u.group = e \o ((u.encoded \o code) \o u.group)
      BY <2>1, <3>2, ConcatOfThree
    <3>. QED
      BY <3>1, <3>3
  <2>. QED
    BY <2>3, <2>4, <2>5
<1>2. EncodeByte(Behind(e, s), b) = Behind(e, EncodeByte(s, b))
  <2>. DEFINE Put(u) == [encoded |-> u.encoded, group |-> Append(u.group, b)]
              Done(u) == [encoded |-> Closed(u), group |-> << >>]
  <2>1. Put(s) \in States
    <3>1. s.group \in Seq(Byte)
      BY DEF States, Bytes
    <3>. QED
      BY <3>1, AppendProperties DEF States, Bytes
  <2>2. Put(Behind(e, s)) = Behind(e, Put(s)) /\ Put(Behind(e, s)).group = Put(s).group
    BY DEF Behind, States
  <2>3. ASSUME NEW u \in States PROVE Done(Behind(e, u)) = Behind(e, Done(u))
    BY <1>1 DEF Behind
  <2>4. /\ EncodeByte(Behind(e, s), b)
              = IF b = 0 THEN Done(Behind(e, s))
                ELSE IF IsFull(Put(Behind(e, s)).group) THEN Done(Put(Behind(e, s)))
                ELSE Put(Behind(e, s))
        /\ EncodeByte(s, b)
              = IF b = 0 THEN Done(s) ELSE IF IsFull(Put(s).group) THEN Done(Put(s)) ELSE Put(s)
    <3>1. Put(s) = [s EXCEPT !.group = Append(@, b)]
      BY DEF States
    <3>2. Put(Behind(e, s)) = [Behind(e, s) EXCEPT !.group = Append(@, b)]
      <4>1. \A x, g, h :
                [[encoded |-> x, group |-> g] EXCEPT !.group = h] = [encoded |-> x, group |-> h]
        OBVIOUS
      <4>2. Behind(e, s).encoded = e \o s.encoded /\ Behind(e, s).group = s.group
        BY DEF Behind
      <4>. QED
        BY <4>1, <4>2 DEF Behind
    <3>. QED
      BY <3>1, <3>2 DEF EncodeByte
  <2>5. Done(Put(Behind(e, s))) = Behind(e, Done(Put(s))) /\ Done(Behind(e, s)) = Behind(e, Done(s))
    <3>. HIDE DEF Put, Done
    <3>. QED
      BY <2>1, <2>2, <2>3
  <2>. HIDE DEF Put, Done
  <2>. QED
    BY <2>2, <2>4, <2>5
<1>. QED
  BY <1>1, <1>2

\* When a group has just been closed, the rest is encoded as if it were all.
LEMMA EncodeBehind ==
    ASSUME NEW x \in Bytes, NEW t \in Bytes, NEW e \in Bytes,
           After(x)[Len(x)] = [encoded |-> e, group |-> << >>]
    PROVE  COBSEncode(x \o t) = e \o COBSEncode(t)
<1>. DEFINE data == x \o t
            p == Len(x)
            T == {n \in 0 .. Len(t) : After(data)[p + n] = Behind(e, After(t)[n])}
<1>1. /\ data \in Bytes /\ Len(data) = p + Len(t) /\ p \in Nat /\ Len(t) \in Nat
      /\ \A n \in 1 .. Len(t) : p + n \in 1 .. Len(data) /\ data[p + n] = t[n] /\ t[n] \in Byte
  <2>1. /\ data \in Bytes /\ Len(data) = p + Len(t) /\ p \in Nat /\ Len(t) \in Nat
        /\ \A i \in 1 .. p + Len(t) : data[i] = IF i <= p THEN x[i] ELSE t[i - p]
        /\ \A n \in 1 .. Len(t) : t[n] \in Byte
    BY ConcatProperties DEF Bytes
  <2>2. \A n \in 1 .. Len(t) : p + n \in 1 .. p + Len(t) /\ ~(p + n <= p) /\ (p + n) - p = n
    BY <2>1
  <2>. HIDE DEF data, p
  <2>. QED
    BY <2>1, <2>2
<1>2. 0 \in T
  <2>1. After(data)[p] = [encoded |-> e, group |-> << >>]
    BY <1>1, EncodeAhead
  <2>2. After(t)[0] = Start
    BY AfterIs
  <2>3. Behind(e, Start) = [encoded |-> e, group |-> << >>]
    <3>1. e \o << >> = e
      BY ConcatEmptySeq DEF Bytes
    <3>. QED
      BY <3>1 DEF Behind, Start
  <2>4. p + 0 = p /\ 0 \in 0 .. Len(t)
    BY <1>1
  <2>. HIDE DEF data, p
  <2>. QED
    BY <2>1, <2>2, <2>3, <2>4
<1>. HIDE DEF data, p
<1>3. ASSUME NEW n \in 0 .. Len(t) - 1, n \in T PROVE n + 1 \in T
  <2>1. /\ n + 1 \in 1 .. Len(t) /\ (n + 1) - 1 = n /\ n \in 0 .. Len(t) /\ n + 1 \in 0 .. Len(t)
        /\ p + (n + 1) \in 1 .. Len(data) /\ (p + (n + 1)) - 1 = p + n
    BY <1>1
  <2>2. /\ After(data)[p + (n + 1)] = EncodeByte(After(data)[p + n], t[n + 1])
        /\ After(t)[n + 1] = EncodeByte(After(t)[n], t[n + 1])
        /\ After(t)[n] \in States
    BY <1>1, <2>1, AfterIs
  <2>3. EncodeByte(Behind(e, After(t)[n]), t[n + 1]) = Behind(e, EncodeByte(After(t)[n], t[n + 1]))
    BY <1>1, <2>1, <2>2, EncodeByteBehind
  <2>. QED
    BY <1>3, <2>1, <2>2, <2>3
<1>4. 0 .. Len(t) \subseteq T
  <2>1. Len(t) \in Int /\ 0 \in Int /\ (0 <= Len(t) => 0 \in T)
    BY <1>1, <1>2
  <2>. HIDE DEF T
  <2>. QED
    BY <1>3, <2>1, IntervalInduction
<1>5. After(data)[Len(data)] = Behind(e, After(t)[Len(t)]) /\ After(t)[Len(t)] \in States
  BY <1>1, <1>4, AfterIs
<1>6. 0 \in Byte
  BY SizesAreNumbers DEF Byte
<1>7. Closed(Behind(e, After(t)[Len(t)])) = e \o Closed(After(t)[Len(t)])
  BY <1>5, <1>6, EncodeByteBehind
<1>. QED
  BY <1>5, <1>7, EncodeIsAfter DEF data

LEMMA ShortSequences == << >> \in Bytes /\ << 0 >> \in Bytes /\ 0 \in Byte
  BY SizesAreNumbers DEF Bytes, Byte

LEMMA EncodeByteIs ==
    ASSUME NEW e, NEW h, NEW b
    PROVE  /\ b = 0 => EncodeByte([encoded |-> e, group |-> h], b)
                            = [encoded |-> Closed([encoded |-> e, group |-> h]), group |-> << >>]
           /\ b # 0 /\ IsFull(Append(h, b)) =>
                 EncodeByte([encoded |-> e, group |-> h], b)
                    = [encoded |-> Closed([encoded |-> e, group |-> Append(h, b)]), group |-> << >>]
           /\ b # 0 /\ ~IsFull(Append(h, b)) =>
                 EncodeByte([encoded |-> e, group |-> h], b)
                    = [encoded |-> e, group |-> Append(h, b)]
<1>1. \A k : [[encoded |-> e, group |-> h] EXCEPT !.group = k] = [encoded |-> e, group |-> k]
  OBVIOUS
<1>. QED
  BY <1>1 DEF EncodeByte

\* Bytes that are no zero are kept until they fill a group.
LEMMA GroupIsKept ==
    ASSUME NEW g \in Bytes, ZeroFree(g)
    PROVE  \A n \in 0 .. Len(g) :
              n + 1 < FullCode => After(g)[n] = [encoded |-> << >>, group |-> SubSeq(g, 1, n)]
<1>. DEFINE KeptGroup(n) == [encoded |-> << >>, group |-> SubSeq(g, 1, n)]
            T == {n \in 0 .. Len(g) : n + 1 < FullCode => After(g)[n] = KeptGroup(n)}
<1>1. Len(g) \in Nat /\ g \in Seq(Byte) /\ \A k \in 1 .. Len(g) : g[k] \in Byte /\ g[k] # 0
  BY DEF Bytes, ZeroFree
<1>2. 0 \in T
  <2>1. SubSeq(g, 1, 0) = << >>
    BY SubSeqEmpty
  <2>2. After(g)[0] = KeptGroup(0)
    BY <2>1, AfterIs DEF Start
  <2>. QED
    BY <1>1, <2>2
<1>3. ASSUME NEW n \in 0 .. Len(g) - 1, n \in T PROVE n + 1 \in T
  <2>1. SUFFICES ASSUME (n + 1) + 1 < FullCode PROVE After(g)[n + 1] = KeptGroup(n + 1)
    BY <1>1
  <2>2. /\ n + 1 \in 1 .. Len(g) /\ n + 1 \in n + 1 .. Len(g) /\ (n + 1) - 1 = n
        /\ n + 1 < FullCode /\ 1 \in 1 .. Len(g) /\ n + 1 \in 1 .. Len(g)
    BY <1>1, <2>1, SizesAreNumbers
  <2>3. After(g)[n] = KeptGroup(n)
    BY <1>3, <2>2
  <2>4. After(g)[n + 1] = EncodeByte(KeptGroup(n), g[n + 1])
    BY <2>2, <2>3, AfterIs
  <2>5. SubSeq(g, 1, n) \in Bytes
    <3>1. \A i \in 1 .. n : g[i] \in Byte
      BY <1>1
    <3>. QED
      BY <3>1, SubSeqProperties DEF Bytes
  <2>6. /\ Append(SubSeq(g, 1, n), g[n + 1]) = SubSeq(g, 1, n + 1)
        /\ Len(SubSeq(g, 1, n + 1)) = n + 1
    <3>1. SubSeq(g, 1, n + 1) = SubSeq(g, 1, (n + 1) - 1) \o <<g[n + 1]>>
      BY <1>1, <2>2, SubSeqRecursiveSecond
    <3>2. Append(SubSeq(g, 1, n), g[n + 1]) = SubSeq(g, 1, n) \o <<g[n + 1]>>
      BY <1>1, <2>2, <2>5, AppendIsConcat DEF Bytes
    <3>3. \A i \in 1 .. n + 1 : g[i] \in Byte
      BY <1>1
    <3>4. Len(SubSeq(g, 1, n + 1)) = IF 1 <= n + 1 THEN (n + 1) - 1 + 1 ELSE 0
      <4>1. 1 \in Int /\ n + 1 \in Int
        BY <2>2
      <4>. QED
        BY <3>3, <4>1, SubSeqProperties
    <3>. QED
      BY <2>2, <3>1, <3>2, <3>4
  <2>7. ~IsFull(SubSeq(g, 1, n + 1))
    BY <2>1, <2>6 DEF IsFull
  <2>9. g[n + 1] # 0
    BY <1>1, <2>2
  <2>. QED
    <3>1. ~IsFull(Append(SubSeq(g, 1, n), g[n + 1]))
      BY <2>6, <2>7
    <3>2. EncodeByte(KeptGroup(n), g[n + 1])
              = [encoded |-> << >>, group |-> Append(SubSeq(g, 1, n), g[n + 1])]
      BY <2>9, <3>1, EncodeByteIs, Zenon
    <3>. QED
      BY <2>4, <2>6, <3>2
<1>4. 0 .. Len(g) \subseteq T
  <2>1. Len(g) \in Int /\ 0 \in Int /\ (0 <= Len(g) => 0 \in T)
    BY <1>1, <1>2
  <2>. HIDE DEF T
  <2>. QED
    BY <1>3, <2>1, IntervalInduction
<1>. QED
  BY <1>4

\* The state after a group that is not full.
LEMMA StateInGroup ==
    ASSUME NEW g \in Bytes, ZeroFree(g), Len(g) + 1 < FullCode
    PROVE  After(g)[Len(g)] = [encoded |-> << >>, group |-> g]
<1>1. Len(g) \in 0 .. Len(g) /\ SubSeq(g, 1, Len(g)) = g
  BY SubSeqFull DEF Bytes
<1>. QED
  BY <1>1, GroupIsKept

LEMMA ClosedGroup ==
    ASSUME NEW g \in Bytes, Len(g) < FullCode
    PROVE  Closed([encoded |-> << >>, group |-> g]) = Group(g)
<1>1. [encoded |-> << >>, group |-> g] \in States
  BY ShortSequences DEF States
<1>2. Closed([encoded |-> << >>, group |-> g]) = << >> \o Group(g)
  BY <1>1, ClosedType
<1>3. << >> \o Group(g) = Group(g)
  BY GroupIs, ConcatEmptySeq DEF Bytes
<1>. QED
  BY <1>2, <1>3

\* The last byte of a full group closes it.
LEMMA StateAfterFullGroup ==
    ASSUME NEW g \in Bytes, ZeroFree(g), Len(g) + 1 = FullCode
    PROVE  After(g)[Len(g)] = [encoded |-> Group(g), group |-> << >>]
<1>. DEFINE n == Len(g) - 1
            s == [encoded |-> << >>, group |-> SubSeq(g, 1, n)]
            b == g[Len(g)]
<1>1. /\ Len(g) \in 1 .. Len(g) /\ Len(g) \in Nat /\ n \in 0 .. Len(g) /\ n + 1 < FullCode
      /\ g \in Seq(Byte) /\ 1 \in 1 .. Len(g)
      /\ \A k \in 1 .. Len(g) : g[k] \in Byte /\ g[k] # 0
  BY SizesAreNumbers DEF Bytes, ZeroFree
<1>2. After(g)[Len(g)] = EncodeByte(s, b)
  <2>1. After(g)[n] = s
    BY <1>1, GroupIsKept
  <2>. QED
    BY <1>1, <2>1, AfterIs
<1>3. Append(SubSeq(g, 1, n), b) = g
  <2>1. SubSeq(g, 1, Len(g)) = SubSeq(g, 1, n) \o <<b>>
    BY <1>1, SubSeqRecursiveSecond
  <2>2. SubSeq(g, 1, n) \in Seq(Byte)
    <3>1. \A i \in 1 .. n : g[i] \in Byte
      BY <1>1
    <3>2. 1 \in Int /\ n \in Int
      BY <1>1
    <3>. QED
      BY <3>1, <3>2, SubSeqProperties
  <2>3. Append(SubSeq(g, 1, n), b) = SubSeq(g, 1, n) \o <<b>>
    BY <1>1, <2>2, AppendIsConcat
  <2>. QED
    BY <1>1, <2>1, <2>3, SubSeqFull
<1>4. IsFull(g) /\ b # 0 /\ Len(g) < FullCode
  BY <1>1, SizesAreNumbers DEF IsFull
<1>5. EncodeByte(s, b)
          = [encoded |-> Closed([encoded |-> << >>, group |-> Append(SubSeq(g, 1, n), b)]),
             group |-> << >>]
  <2>1. b # 0 /\ IsFull(Append(SubSeq(g, 1, n), b))
    BY <1>3, <1>4
  <2>. HIDE DEF b, n
  <2>. QED
    BY <2>1, EncodeByteIs, Zenon
<1>6. Closed([encoded |-> << >>, group |-> g]) = Group(g)
  BY <1>4, ClosedGroup
<1>. HIDE DEF b, s
<1>. QED
  BY <1>2, <1>3, <1>5, <1>6

\* A zero closes a group.
LEMMA StateAfterZero ==
    ASSUME NEW g \in Bytes, ZeroFree(g), Len(g) + 1 < FullCode
    PROVE  /\ g \o << 0 >> \in Bytes /\ Len(g \o << 0 >>) = Len(g) + 1
           /\ After(g \o << 0 >>)[Len(g) + 1] = [encoded |-> Group(g), group |-> << >>]
<1>. DEFINE d == g \o << 0 >>
<1>1. d \in Bytes /\ Len(d) = Len(g) + 1 /\ Len(g) \in Nat /\ d[Len(g) + 1] = 0
  <2>1. /\ d \in Bytes /\ Len(d) = Len(g) + Len(<< 0 >>) /\ Len(g) \in Nat
        /\ \A i \in 1 .. Len(g) + Len(<< 0 >>) :
              d[i] = IF i <= Len(g) THEN g[i] ELSE << 0 >>[i - Len(g)]
    BY ShortSequences, ConcatProperties DEF Bytes
  <2>2. /\ Len(<< 0 >>) = 1 /\ << 0 >>[1] = 0 /\ ~(Len(g) + 1 <= Len(g))
        /\ (Len(g) + 1) - Len(g) = 1
        /\ Len(g) + 1 \in 1 .. Len(g) + Len(<< 0 >>)
    BY <2>1
  <2>. HIDE DEF d
  <2>. QED
    BY <2>1, <2>2
<1>2. After(d)[Len(g)] = [encoded |-> << >>, group |-> g]
  <2>1. Len(g) \in 0 .. Len(g)
    BY <1>1
  <2>. QED
    BY <2>1, ShortSequences, EncodeAhead, StateInGroup
<1>. HIDE DEF d
<1>3. After(d)[Len(g) + 1] = EncodeByte([encoded |-> << >>, group |-> g], 0)
  <2>1. Len(g) + 1 \in 1 .. Len(d) /\ (Len(g) + 1) - 1 = Len(g)
    BY <1>1
  <2>. QED
    BY <1>1, <1>2, <2>1, AfterIs
<1>4. Len(g) < FullCode
  BY <1>1, SizesAreNumbers
<1>. QED
  <2>1. EncodeByte([encoded |-> << >>, group |-> g], 0)
            = [encoded |-> Closed([encoded |-> << >>, group |-> g]), group |-> << >>]
    BY EncodeByteIs, Zenon
  <2>2. Closed([encoded |-> << >>, group |-> g]) = Group(g)
    BY <1>4, ClosedGroup
  <2>. QED
    BY <1>1, <1>3, <2>1, <2>2 DEF d

\* How data is encoded, group by group.
LEMMA GroupEncodes ==
    ASSUME NEW g \in Bytes, ZeroFree(g)
    PROVE  /\ Len(g) + 1 < FullCode => COBSEncode(g) = Group(g)
           /\ Len(g) + 1 < FullCode =>
                 \A r \in Bytes : COBSEncode((g \o << 0 >>) \o r) = Group(g) \o COBSEncode(r)
           /\ Len(g) + 1 = FullCode =>
                 \A r \in Bytes : COBSEncode(g \o r) = Group(g) \o COBSEncode(r)
<1>1. Len(g) \in Nat /\ (Len(g) + 1 <= FullCode => Len(g) < FullCode)
  BY SizesAreNumbers DEF Bytes
<1>2. ASSUME Len(g) + 1 < FullCode PROVE COBSEncode(g) = Group(g)
  <2>1. Len(g) < FullCode
    BY <1>1, <1>2, SizesAreNumbers
  <2>. QED
    BY <1>2, <2>1, EncodeIsAfter, StateInGroup, ClosedGroup
<1>3. ASSUME Len(g) + 1 < FullCode, NEW r \in Bytes
      PROVE  COBSEncode((g \o << 0 >>) \o r) = Group(g) \o COBSEncode(r)
  <2>1. Len(g) < FullCode
    BY <1>1, <1>3, SizesAreNumbers
  <2>2. Group(g) \in Bytes
    BY <2>1, GroupIs
  <2>. DEFINE d == g \o << 0 >>
  <2>3. /\ d \in Bytes /\ Len(d) = Len(g) + 1
        /\ After(d)[Len(g) + 1] = [encoded |-> Group(g), group |-> << >>]
    BY <1>3, StateAfterZero
  <2>4. After(d)[Len(d)] = [encoded |-> Group(g), group |-> << >>]
    BY <2>3
  <2>. HIDE DEF d
  <2>5. COBSEncode(d \o r) = Group(g) \o COBSEncode(r)
    BY <2>2, <2>3, <2>4, EncodeBehind
  <2>. QED
    BY <2>5 DEF d
<1>4. ASSUME Len(g) + 1 = FullCode, NEW r \in Bytes
      PROVE  COBSEncode(g \o r) = Group(g) \o COBSEncode(r)
  <2>1. Len(g) < FullCode
    BY <1>1, <1>4, SizesAreNumbers
  <2>2. Group(g) \in Bytes
    BY <2>1, GroupIs
  <2>3. After(g)[Len(g)] = [encoded |-> Group(g), group |-> << >>]
    BY <1>4, StateAfterFullGroup
  <2>. QED
    BY <2>2, <2>3, EncodeBehind
<1>. QED
  BY <1>1, <1>2, <1>3, <1>4

LEMMA SplitAt ==
    ASSUME NEW data \in Bytes, NEW n \in 0 .. Len(data)
    PROVE  \E g, r \in Bytes :
              /\ data = g \o r /\ Len(g) = n /\ Len(r) = Len(data) - n
              /\ \A k \in 1 .. n : g[k] = data[k]
              /\ \A k \in 1 .. Len(data) - n : r[k] = data[n + k]
<1>. DEFINE g == SubSeq(data, 1, n)
            r == SubSeq(data, n + 1, Len(data))
<1>1. Len(data) \in Nat /\ n \in Int /\ n + 1 \in Int /\ 1 \in Int /\ Len(data) \in Int /\ n \in Nat
  BY DEF Bytes
<1>2. \A k \in 1 .. Len(data) : data[k] \in Byte
  BY DEF Bytes
<1>3. g \in Bytes /\ Len(g) = n /\ \A k \in 1 .. n : g[k] = data[k]
  <2>1. \A k \in 1 .. n : data[k] \in Byte
    BY <1>1, <1>2
  <2>2. /\ SubSeq(data, 1, n) \in Seq(Byte)
        /\ Len(SubSeq(data, 1, n)) = IF 1 <= n THEN n - 1 + 1 ELSE 0
        /\ \A i \in 1 .. n - 1 + 1 : SubSeq(data, 1, n)[i] = data[1 + i - 1]
    BY <1>1, <2>1, SubSeqProperties
  <2>3. (IF 1 <= n THEN n - 1 + 1 ELSE 0) = n /\ n - 1 + 1 = n /\ \A k \in 1 .. n : 1 + k - 1 = k
    BY <1>1
  <2>. HIDE DEF g
  <2>. QED
    BY <2>2, <2>3 DEF g, Bytes
<1>4. r \in Bytes /\ Len(r) = Len(data) - n /\ \A k \in 1 .. Len(data) - n : r[k] = data[n + k]
  <2>1. \A k \in n + 1 .. Len(data) : data[k] \in Byte
    BY <1>1, <1>2
  <2>2. /\ r \in Seq(Byte)
        /\ Len(r) = IF n + 1 <= Len(data) THEN Len(data) - (n + 1) + 1 ELSE 0
        /\ \A i \in 1 .. Len(data) - (n + 1) + 1 : r[i] = data[(n + 1) + i - 1]
    BY <1>1, <2>1, SubSeqProperties
  <2>3. /\ (IF n + 1 <= Len(data) THEN Len(data) - (n + 1) + 1 ELSE 0) = Len(data) - n
        /\ Len(data) - (n + 1) + 1 = Len(data) - n
        /\ \A k \in 1 .. Len(data) - n : (n + 1) + k - 1 = n + k
    BY <1>1
  <2>. HIDE DEF r
  <2>. QED
    BY <2>2, <2>3 DEF Bytes
<1>5. data = g \o r
  <2>1. /\ 1 \in 1 .. Len(data) + 1 /\ n \in 1 - 1 .. Len(data) /\ Len(data) \in n .. Len(data)
        /\ data \in Seq(Byte)
    BY <1>1 DEF Bytes
  <2>2. SubSeq(data, 1, n) \o SubSeq(data, n + 1, Len(data)) = SubSeq(data, 1, Len(data))
    BY <2>1, ConcatAdjacentSubSeq
  <2>. QED
    BY <2>1, <2>2, SubSeqFull
<1>. HIDE DEF g, r
<1>. QED
  BY <1>3, <1>4, <1>5

LEMMA SplitFirst ==
    ASSUME NEW data \in Bytes, Len(data) > 0
    PROVE  \E r \in Bytes : /\ data = <<data[1]>> \o r /\ Len(r) = Len(data) - 1
                            /\ \A k \in 1 .. Len(r) : r[k] = data[1 + k]
<1>1. Len(data) \in Nat /\ 1 \in 0 .. Len(data) /\ 1 \in 1 .. Len(data)
  BY DEF Bytes
<1>2. PICK h \in Bytes, r \in Bytes :
              /\ data = h \o r /\ Len(h) = 1 /\ Len(r) = Len(data) - 1
              /\ \A k \in 1 .. 1 : h[k] = data[k]
              /\ \A k \in 1 .. Len(data) - 1 : r[k] = data[1 + k]
  BY <1>1, SplitAt
<1>3. data[1] \in Byte
  BY <1>1 DEF Bytes
<1>. DEFINE c == <<data[1]>>
<1>4. c \in Bytes /\ Len(c) = 1 /\ \A k \in 1 .. 1 : c[k] = data[1]
  <2>1. \A k \in 1 .. 1 : k = 1
    OBVIOUS
  <2>2. c \in Bytes /\ Len(c) = 1 /\ c[1] = data[1]
    BY <1>3 DEF Bytes
  <2>. HIDE DEF c
  <2>. QED
    BY <2>1, <2>2
<1>5. h = c
  <2>1. \A k \in 1 .. 1 : h[k] = c[k]
    <3>1. \A k \in 1 .. 1 : data[k] = data[1]
      OBVIOUS
    <3>. HIDE DEF c
    <3>. QED
      BY <1>2, <1>4, <3>1
  <2>. HIDE DEF c
  <2>. QED
    BY <1>2, <1>4, <2>1, SeqEqual DEF Bytes
<1>. HIDE DEF c
<1>6. data = c \o r
  BY <1>2, <1>5
<1>. QED
  BY <1>2, <1>6 DEF c

\* Data is one group, or begins with a group and the zero that ends it, or with
\* a full group.
LEMMA BeginsWithGroup ==
    ASSUME NEW data \in Bytes
    PROVE  \/ ZeroFree(data) /\ Len(data) + 1 < FullCode
           \/ \E g, r \in Bytes : /\ ZeroFree(g) /\ Len(g) + 1 < FullCode
                                  /\ data = (g \o << 0 >>) \o r
                                  /\ Len(data) = Len(g) + 1 + Len(r)
           \/ \E g, r \in Bytes : /\ ZeroFree(g) /\ Len(g) + 1 = FullCode
                                  /\ data = g \o r
                                  /\ Len(data) = Len(g) + Len(r)
<1>. DEFINE Z == {k \in 1 .. Len(data) : k < FullCode /\ data[k] = 0}
<1>1. Len(data) \in Nat
  BY DEF Bytes
<1>2. CASE Z # {}
  <2>1. PICK k \in Z : \A j \in Z : k <= j
    <3>1. Z \in SUBSET Nat
      OBVIOUS
    <3>. HIDE DEF Z
    <3>. QED
      BY <1>2, <3>1, LeastNumber
  <2>2. k - 1 \in 0 .. Len(data) /\ k \in 1 .. Len(data) /\ data[k] = 0 /\ k < FullCode
    BY <1>1
  <2>3. PICK g \in Bytes, u \in Bytes :
              /\ data = g \o u /\ Len(g) = k - 1 /\ Len(u) = Len(data) - (k - 1)
              /\ \A j \in 1 .. k - 1 : g[j] = data[j]
              /\ \A j \in 1 .. Len(data) - (k - 1) : u[j] = data[(k - 1) + j]
    BY <2>2, SplitAt
  <2>4. Len(u) > 0 /\ 1 \in 1 .. Len(data) - (k - 1) /\ (k - 1) + 1 = k
    BY <1>1, <2>2, <2>3
  <2>5. u[1] = 0
    BY <2>2, <2>3, <2>4
  <2>6. PICK r \in Bytes : u = <<u[1]>> \o r /\ Len(r) = Len(u) - 1
    BY <2>4, SplitFirst
  <2>7. u = << 0 >> \o r
    BY <2>5, <2>6
  <2>8. data = (g \o << 0 >>) \o r
    <3>1. (g \o << 0 >>) \o r = g \o (<< 0 >> \o r)
      BY ShortSequences, ConcatOfThree
    <3>. QED
      BY <2>3, <2>7, <3>1
  <2>9. ZeroFree(g)
    <3>1. ASSUME NEW j \in 1 .. k - 1, data[j] = 0 PROVE FALSE
      <4>1. j \in Z
        BY <1>1, <2>2, <3>1, SizesAreNumbers
      <4>. HIDE DEF Z
      <4>. QED
        BY <2>1, <2>2, <4>1
    <3>. QED
      BY <2>3, <3>1 DEF ZeroFree
  <2>10. Len(g) + 1 < FullCode /\ Len(data) = Len(g) + 1 + Len(r)
    BY <1>1, <2>2, <2>3, <2>4, <2>6
  <2>. QED
    BY <2>3, <2>6, <2>8, <2>9, <2>10
<1>3. CASE Z = {} /\ Len(data) + 1 < FullCode
  <2>1. \A k \in 1 .. Len(data) : k < FullCode
    BY <1>1, <1>3, SizesAreNumbers
  <2>. QED
    BY <1>3, <2>1 DEF ZeroFree
<1>4. CASE Z = {} /\ ~(Len(data) + 1 < FullCode)
  <2>. DEFINE n == FullCode - 1
  <2>1. n \in 0 .. Len(data) /\ n + 1 = FullCode /\ n \in Nat
    BY <1>1, <1>4, SizesAreNumbers
  <2>2. PICK g \in Bytes, r \in Bytes :
              /\ data = g \o r /\ Len(g) = n /\ Len(r) = Len(data) - n
              /\ \A k \in 1 .. n : g[k] = data[k]
    <3>. HIDE DEF n
    <3>. QED
      BY <2>1, SplitAt
  <2>3. \A k \in 1 .. n : k \in 1 .. Len(data) /\ k < FullCode
    BY <1>1, <2>1, SizesAreNumbers
  <2>4. ZeroFree(g)
    BY <1>4, <2>2, <2>3 DEF ZeroFree
  <2>5. Len(data) = Len(g) + Len(r)
    BY <1>1, <2>1, <2>2
  <2>. QED
    BY <2>1, <2>2, <2>4, <2>5
<1>. QED
  BY <1>2, <1>3, <1>4

-----------------------------------------------------------------------------
(* Division, for the room that the encoder reserves.                       *)

LEMMA DivType ==
    ASSUME NEW x \in Nat, NEW m \in Nat \ {0}
    PROVE  /\ x \div m \in Nat
           /\ m * (x \div m) <= x
           /\ x < m * (x \div m) + m
  OBVIOUS

LEMMA DivOneMore ==
    ASSUME NEW x \in Nat, NEW m \in Nat \ {0}
    PROVE  (x + m) \div m = (x \div m) + 1
  OBVIOUS

LEMMA DivMonotonic ==
    ASSUME NEW x \in Nat, NEW y \in Nat, NEW m \in Nat \ {0}, x <= y
    PROVE  x \div m <= y \div m
  OBVIOUS

\* What the laws say of a packet.
Exact(d) ==
    LET encoded == COBSEncode(d)
    IN  /\ encoded \in Bytes
        /\ Len(encoded) > 0
        /\ COBSDecode(encoded) = {d}
        /\ ZeroFree(encoded)
        /\ Len(encoded) <= Len(d) + Len(d) \div (FullCode - 1) + 1

LEMMA ZeroFreeConcat ==
    ASSUME NEW a \in Bytes, NEW b \in Bytes, ZeroFree(a), ZeroFree(b)
    PROVE  ZeroFree(a \o b)
<1>1. /\ Len(a) \in Nat /\ Len(b) \in Nat /\ Len(a \o b) = Len(a) + Len(b)
      /\ \A i \in 1 .. Len(a) + Len(b) : (a \o b)[i] = IF i <= Len(a) THEN a[i] ELSE b[i - Len(a)]
  BY ConcatProperties DEF Bytes
<1>2. ASSUME NEW i \in 1 .. Len(a) + Len(b) PROVE (a \o b)[i] # 0
  <2>1. CASE i <= Len(a)
    <3>1. i \in 1 .. Len(a)
      BY <1>1, <2>1
    <3>. QED
      BY <1>1, <2>1, <3>1 DEF ZeroFree
  <2>2. CASE ~(i <= Len(a))
    <3>1. i - Len(a) \in 1 .. Len(b)
      BY <1>1, <2>2
    <3>. QED
      BY <1>1, <2>2, <3>1 DEF ZeroFree
  <2>. QED
    BY <2>1, <2>2
<1>. QED
  BY <1>1, <1>2 DEF ZeroFree

LEMMA GroupZeroFree ==
    ASSUME NEW g \in Bytes, ZeroFree(g), Len(g) < FullCode
    PROVE  ZeroFree(Group(g))
<1>1. /\ Len(g) \in Nat /\ Len(Group(g)) = Len(g) + 1 /\ Group(g)[1] = Len(g) + 1
      /\ \A k \in 1 .. Len(g) : Group(g)[k + 1] = g[k]
  BY GroupIs DEF Bytes
<1>2. ASSUME NEW i \in 1 .. Len(g) + 1 PROVE Group(g)[i] # 0
  <2>1. CASE i = 1
    BY <1>1, <2>1
  <2>2. CASE i # 1
    <3>1. i - 1 \in 1 .. Len(g) /\ (i - 1) + 1 = i
      BY <1>1, <2>2
    <3>2. Group(g)[(i - 1) + 1] = g[i - 1]
      BY <1>1, <3>1
    <3>. QED
      BY <3>1, <3>2 DEF ZeroFree
  <2>. QED
    BY <2>1, <2>2
<1>. QED
  BY <1>1, <1>2 DEF ZeroFree

\* The room: a further group of m bytes takes one byte more.
LEMMA RoomAfterZero ==
    ASSUME NEW x \in Nat, NEW y \in Nat, NEW e \in Nat, NEW m \in Nat \ {0}, e <= y + y \div m + 1
    PROVE  x + 1 + e <= (x + 1 + y) + (x + 1 + y) \div m + 1
<1>1. /\ y \div m \in Nat /\ (x + 1 + y) \div m \in Nat
      /\ y \div m <= (x + 1 + y) \div m
  <2>1. x + 1 + y \in Nat /\ y <= x + 1 + y
    OBVIOUS
  <2>. QED
    BY <2>1, DivType, DivMonotonic
<1>. DEFINE p == y \div m
            q == (x + 1 + y) \div m
<1>2. p \in Nat /\ q \in Nat /\ p <= q /\ e <= y + p + 1
  BY <1>1
<1>3. x + 1 + e <= (x + 1 + y) + q + 1
  <2>. HIDE DEF p, q
  <2>. QED
    BY <1>2
<1>. QED
  BY <1>3

LEMMA RoomAfterFull ==
    ASSUME NEW y \in Nat, NEW e \in Nat, NEW m \in Nat \ {0}, e <= y + y \div m + 1
    PROVE  m + 1 + e <= (m + y) + (m + y) \div m + 1
<1>1. y \div m \in Nat /\ (m + y) \div m = y \div m + 1
  <2>1. m + y = y + m
    OBVIOUS
  <2>. QED
    BY <2>1, DivType, DivOneMore
<1>. DEFINE p == y \div m
            q == (m + y) \div m
<1>2. p \in Nat /\ q = p + 1 /\ e <= y + p + 1
  BY <1>1
<1>3. m + 1 + e <= (m + y) + q + 1
  <2>. HIDE DEF p, q
  <2>. QED
    BY <1>2
<1>. QED
  BY <1>3

\* A group before the rest.
LEMMA GroupBeforeRest ==
    ASSUME NEW g \in Bytes, ZeroFree(g), Len(g) < FullCode, NEW r \in Bytes, Exact(r)
    PROVE  LET encoded == Group(g) \o COBSEncode(r)
           IN  /\ encoded \in Bytes
               /\ Len(encoded) = Len(g) + 1 + Len(COBSEncode(r))
               /\ Len(g) \in Nat /\ Len(COBSEncode(r)) \in Nat
               /\ COBSDecode(encoded) = {(g \o ZeroAfter(g)) \o r}
               /\ ZeroFree(encoded)
<1>. DEFINE t == COBSEncode(r)
            x == Group(g)
<1>1. t \in Bytes /\ Len(t) > 0 /\ t # << >> /\ COBSDecode(t) = {r} /\ ZeroFree(t)
  BY DEF Exact
<1>2. x \in Bytes /\ Len(x) = Len(g) + 1 /\ ZeroFree(x)
  BY GroupIs, GroupZeroFree
<1>3. COBSDecode(x \o t) = {(g \o ZeroAfter(g)) \o u : u \in COBSDecode(t)}
  <2>. HIDE DEF t
  <2>. QED
    BY <1>1, GroupDecodes
<1>. HIDE DEF t, x
<1>4. x \o t \in Bytes /\ Len(x \o t) = Len(x) + Len(t) /\ Len(t) \in Nat
  BY <1>1, <1>2, ConcatBytes
<1>5. ZeroFree(x \o t)
  BY <1>1, <1>2, ZeroFreeConcat
<1>6. COBSDecode(x \o t) = {(g \o ZeroAfter(g)) \o r}
  BY <1>1, <1>3
<1>7. Len(g) \in Nat
  BY DEF Bytes
<1>. QED
  BY <1>2, <1>4, <1>5, <1>6, <1>7 DEF t, x

LEMMA EveryPacketExact ==
    ASSUME NEW packet \in Bytes
    PROVE  Exact(packet)
<1>. DEFINE T == {n \in Nat : \A d \in Bytes : Len(d) = n => Exact(d)}
            m == FullCode - 1
<1>1. m \in Nat \ {0} /\ FullCode = m + 1
  BY SizesAreNumbers
<1>2. ASSUME NEW n \in Nat, \A k \in 0 .. n - 1 : k \in T PROVE n \in T
  <2>1. SUFFICES ASSUME NEW d \in Bytes, Len(d) = n PROVE Exact(d)
    OBVIOUS
  <2>2. CASE ZeroFree(d) /\ Len(d) + 1 < FullCode
    <3>1. Len(d) < FullCode /\ Len(d) \in Nat
      BY <1>1, <2>1, <2>2
    <3>2. COBSEncode(d) = Group(d)
      BY <2>2, GroupEncodes
    <3>3. /\ Group(d) \in Bytes /\ Len(Group(d)) = Len(d) + 1
          /\ COBSDecode(Group(d)) = {d} /\ ZeroFree(Group(d))
      <4>1. << >> \in Bytes
        BY ShortSequences
      <4>. QED
        BY <2>2, <3>1, <4>1, GroupIs, GroupDecodes, GroupZeroFree
    <3>4. Len(d) \div m \in Nat
      BY <1>1, <3>1, DivType
    <3>5. Len(d) + 1 <= Len(d) + Len(d) \div m + 1 /\ Len(d) + 1 > 0
      <4>. DEFINE q == Len(d) \div m
      <4>1. q \in Nat
        BY <3>4
      <4>. HIDE DEF q, m
      <4>2. Len(d) + 1 <= Len(d) + q + 1 /\ Len(d) + 1 > 0
        BY <3>1, <4>1
      <4>. QED
        BY <4>2 DEF q
    <3>. HIDE DEF T
    <3>. QED
      BY <3>2, <3>3, <3>5 DEF Exact
  <2>3. ASSUME NEW g \in Bytes, NEW r \in Bytes, ZeroFree(g), Len(g) + 1 < FullCode,
               d = (g \o << 0 >>) \o r, Len(d) = Len(g) + 1 + Len(r)
        PROVE  Exact(d)
    <3>1. Len(g) < FullCode /\ Len(r) \in Nat /\ Len(g) \in Nat
      BY <2>3, SizesAreNumbers DEF Bytes
    <3>2. Exact(r)
      <4>1. Len(r) \in 0 .. n - 1
        BY <2>1, <2>3, <3>1
      <4>. QED
        BY <1>2, <4>1
    <3>3. COBSEncode(d) = Group(g) \o COBSEncode(r)
      BY <2>3, GroupEncodes
    <3>4. ZeroAfter(g) = << 0 >>
      BY <2>3 DEF ZeroAfter
    <3>. DEFINE encoded == Group(g) \o COBSEncode(r)
                e == Len(COBSEncode(r))
    <3>5. /\ encoded \in Bytes /\ Len(encoded) = Len(g) + 1 + e /\ e \in Nat
          /\ COBSDecode(encoded) = {d} /\ ZeroFree(encoded)
      BY <2>3, <3>1, <3>2, <3>4, GroupBeforeRest
    <3>6. e <= Len(r) + Len(r) \div m + 1
      BY <3>2 DEF Exact
    <3>7. Len(g) + 1 + e <= Len(d) + Len(d) \div m + 1
      <4>1. Len(g) + 1 + e <= (Len(g) + 1 + Len(r)) + (Len(g) + 1 + Len(r)) \div m + 1
        <5>. HIDE DEF e, m, T
        <5>. QED
          BY <1>1, <3>1, <3>5, <3>6, RoomAfterZero
      <4>. QED
        BY <2>3, <4>1
    <3>8. Len(encoded) > 0
      <4>. HIDE DEF e, encoded
      <4>. QED
        BY <3>1, <3>5
    <3>. HIDE DEF e, T
    <3>. QED
      BY <3>3, <3>5, <3>7, <3>8 DEF Exact
  <2>4. ASSUME NEW g \in Bytes, NEW r \in Bytes, ZeroFree(g), Len(g) + 1 = FullCode,
               d = g \o r, Len(d) = Len(g) + Len(r)
        PROVE  Exact(d)
    <3>1. Len(g) < FullCode /\ Len(r) \in Nat /\ Len(g) \in Nat /\ Len(g) = m
      BY <2>4, SizesAreNumbers DEF Bytes
    <3>2. Exact(r)
      <4>1. Len(r) \in 0 .. n - 1
        BY <1>1, <2>1, <2>4, <3>1
      <4>. QED
        BY <1>2, <4>1
    <3>3. COBSEncode(d) = Group(g) \o COBSEncode(r)
      BY <2>4, GroupEncodes
    <3>4. g \o ZeroAfter(g) = g
      <4>1. ZeroAfter(g) = << >>
        BY <2>4, SizesAreNumbers DEF ZeroAfter
      <4>. QED
        BY <4>1, ConcatEmptySeq DEF Bytes
    <3>. DEFINE encoded == Group(g) \o COBSEncode(r)
                e == Len(COBSEncode(r))
    <3>5. /\ encoded \in Bytes /\ Len(encoded) = Len(g) + 1 + e /\ e \in Nat
          /\ COBSDecode(encoded) = {d} /\ ZeroFree(encoded)
      BY <2>4, <3>1, <3>2, <3>4, GroupBeforeRest
    <3>6. e <= Len(r) + Len(r) \div m + 1
      BY <3>2 DEF Exact
    <3>7. Len(g) + 1 + e <= Len(d) + Len(d) \div m + 1
      <4>1. m + 1 + e <= (m + Len(r)) + (m + Len(r)) \div m + 1
        <5>. HIDE DEF e, m, T
        <5>. QED
          BY <1>1, <3>1, <3>5, <3>6, RoomAfterFull
      <4>2. Len(d) = m + Len(r)
        BY <2>4, <3>1
      <4>. HIDE DEF m, e
      <4>. QED
        BY <3>1, <4>1, <4>2
    <3>8. Len(encoded) > 0
      <4>. HIDE DEF e, encoded
      <4>. QED
        BY <3>1, <3>5
    <3>. HIDE DEF e, T
    <3>. QED
      BY <3>3, <3>5, <3>7, <3>8 DEF Exact
  <2>. HIDE DEF T
  <2>. QED
    BY <2>2, <2>3, <2>4, BeginsWithGroup
<1>3. Nat \subseteq T
  <2>. HIDE DEF T
  <2>. QED
    BY <1>2, CompleteInduction
<1>4. Len(packet) \in Nat
  BY DEF Bytes
<1>. QED
  BY <1>3, <1>4

\* What the laws say of what arrives between two delimiters.
Encodes(line) ==
    \A d \in COBSDecode(line) :
        \/ COBSEncode(d) = line
        \/ COBSEncode(d) = line \o << 1 >> /\ EndsInFullGroup(d)

LEMMA DecodedBytes ==
    ASSUME NEW line \in Bytes
    PROVE  COBSDecode(line) \in SUBSET Bytes
<1>1. CASE line = << >>
  BY <1>1 DEF COBSDecode
<1>2. CASE line # << >>
  <2>1. 1 \in 1 .. Len(line) + 1
    BY DEF Bytes
  <2>2. DecodeFrom(line)[1] \in SUBSET Bytes
    BY <2>1, DecodeFromIs
  <2>. QED
    BY <1>2, <2>2, DecodeIsFrom
<1>. QED
  BY <1>1, <1>2

LEMMA EndsBehind ==
    ASSUME NEW x \in Bytes, NEW r \in Bytes, EndsInFullGroup(r)
    PROVE  EndsInFullGroup(x \o r)
<1>1. /\ Len(x) \in Nat /\ Len(r) \in Nat /\ Len(x \o r) = Len(x) + Len(r)
      /\ \A i \in 1 .. Len(x) + Len(r) : (x \o r)[i] = IF i <= Len(x) THEN x[i] ELSE r[i - Len(x)]
  BY ConcatProperties DEF Bytes
<1>2. Len(r) >= FullCode - 1 /\ \A k \in Len(r) - FullCode + 2 .. Len(r) : r[k] # 0
  BY DEF EndsInFullGroup
<1>3. ASSUME NEW i \in (Len(x) + Len(r)) - FullCode + 2 .. Len(x) + Len(r)
      PROVE  (x \o r)[i] # 0
  <2>1. /\ i \in 1 .. Len(x) + Len(r) /\ ~(i <= Len(x))
        /\ i - Len(x) \in Len(r) - FullCode + 2 .. Len(r)
    BY <1>1, <1>2, SizesAreNumbers
  <2>. QED
    BY <1>1, <1>2, <2>1
<1>4. Len(x \o r) >= FullCode - 1
  BY <1>1, <1>2, SizesAreNumbers
<1>. QED
  BY <1>1, <1>3, <1>4 DEF EndsInFullGroup

\* A line that the decoder accepts begins with a group.
LEMMA LineBeginsWithGroup ==
    ASSUME NEW line \in Bytes, ZeroFree(line), COBSDecode(line) # {}
    PROVE  \E g, t \in Bytes : /\ ZeroFree(g) /\ Len(g) < FullCode /\ ZeroFree(t)
                               /\ line = Group(g) \o t
                               /\ Len(line) = Len(g) + 1 + Len(t)
<1>1. line # << >>
  BY DEF COBSDecode
<1>2. Len(line) \in Nat /\ Len(line) > 0 /\ 1 \in 1 .. Len(line)
  BY <1>1 DEF Bytes
<1>. DEFINE c == line[1]
<1>3. c \in 1 .. FullCode /\ c \in Nat
  <2>1. line[1] \in Byte /\ line[1] # 0
    BY <1>2 DEF ZeroFree, Bytes
  <2>. QED
    BY <2>1, SizesAreNumbers DEF Byte
<1>4. 1 + c <= Len(line) + 1
  <2>1. COBSDecode(line) = DecodeStep(line, 1, DecodeFrom(line))
    <3>1. 1 \in 1 .. Len(line) + 1
      BY <1>2
    <3>. QED
      BY <1>1, <3>1, DecodeIsFrom, DecodeFromIs
  <2>2. 1 + line[1] > Len(line) + 1 => DecodeStep(line, 1, DecodeFrom(line)) = {}
    BY <1>2 DEF DecodeStep
  <2>3. ~(1 + line[1] > Len(line) + 1)
    BY <2>1, <2>2
  <2>. QED
    BY <1>2, <1>3, <2>3
<1>5. PICK u \in Bytes : /\ line = <<c>> \o u /\ Len(u) = Len(line) - 1
                         /\ \A k \in 1 .. Len(u) : u[k] = line[1 + k]
  BY <1>2, SplitFirst
<1>. HIDE DEF c
<1>6. c - 1 \in 0 .. Len(u) /\ Len(u) \in Nat
  BY <1>2, <1>3, <1>4, <1>5
<1>7. PICK g \in Bytes, t \in Bytes :
              /\ u = g \o t /\ Len(g) = c - 1 /\ Len(t) = Len(u) - (c - 1)
              /\ \A k \in 1 .. c - 1 : g[k] = u[k]
              /\ \A k \in 1 .. Len(u) - (c - 1) : t[k] = u[(c - 1) + k]
  BY <1>6, SplitAt
<1>8. \A k \in 1 .. Len(u) : u[k] # 0
  <2>1. \A k \in 1 .. Len(u) : 1 + k \in 1 .. Len(line)
    BY <1>2, <1>5, <1>6
  <2>. QED
    BY <1>5, <2>1 DEF ZeroFree
<1>9. ZeroFree(g)
  <2>1. \A k \in 1 .. c - 1 : k \in 1 .. Len(u)
    BY <1>3, <1>6
  <2>. QED
    BY <1>7, <1>8, <2>1 DEF ZeroFree
<1>10. ZeroFree(t)
  <2>1. \A k \in 1 .. Len(u) - (c - 1) : (c - 1) + k \in 1 .. Len(u)
    BY <1>3, <1>6
  <2>. QED
    BY <1>7, <1>8, <2>1 DEF ZeroFree
<1>11. Len(g) < FullCode /\ Len(line) = Len(g) + 1 + Len(t) /\ Len(g) + 1 = c
  BY <1>2, <1>3, <1>5, <1>6, <1>7, SizesAreNumbers
<1>12. line = Group(g) \o t
  <2>1. <<c>> \in Bytes
    BY <1>3, SizesAreNumbers DEF Bytes, Byte
  <2>2. (<<c>> \o g) \o t = <<c>> \o (g \o t)
    BY <2>1, ConcatOfThree
  <2>3. Group(g) = <<c>> \o g
    BY <1>11 DEF Group
  <2>. QED
    BY <1>5, <1>7, <2>2, <2>3
<1>. QED
  BY <1>9, <1>10, <1>11, <1>12

\* The encoding of a group, the zero it stands for, and a rest.
LEMMA EncodesGroup ==
    ASSUME NEW g \in Bytes, ZeroFree(g), Len(g) < FullCode, NEW r \in Bytes
    PROVE  COBSEncode((g \o ZeroAfter(g)) \o r) = Group(g) \o COBSEncode(r)
<1>1. CASE Len(g) + 1 < FullCode
  <2>1. ZeroAfter(g) = << 0 >>
    BY <1>1 DEF ZeroAfter
  <2>. QED
    BY <1>1, <2>1, GroupEncodes
<1>2. CASE Len(g) + 1 = FullCode
  <2>1. ZeroAfter(g) = << >>
    BY <1>2, SizesAreNumbers DEF ZeroAfter
  <2>2. g \o << >> = g
    BY ConcatEmptySeq DEF Bytes
  <2>. QED
    BY <1>2, <2>1, <2>2, GroupEncodes
<1>3. Len(g) + 1 < FullCode \/ Len(g) + 1 = FullCode
  BY SizesAreNumbers DEF Bytes
<1>. QED
  BY <1>1, <1>2, <1>3

\* The encoding of one group that nothing follows.
LEMMA EncodesLastGroup ==
    ASSUME NEW g \in Bytes, ZeroFree(g), Len(g) < FullCode
    PROVE  \/ COBSEncode(g) = Group(g)
           \/ COBSEncode(g) = Group(g) \o << 1 >> /\ EndsInFullGroup(g)
<1>1. CASE Len(g) + 1 < FullCode
  BY <1>1, GroupEncodes
<1>2. CASE Len(g) + 1 = FullCode
  <2>1. << >> \in Bytes /\ ZeroFree(<< >>) /\ Len(<< >>) + 1 < FullCode
    BY ShortSequences, SizesAreNumbers DEF ZeroFree
  <2>2. COBSEncode(<< >>) = << 1 >>
    <3>1. COBSEncode(<< >>) = Group(<< >>)
      BY <2>1, GroupEncodes
    <3>2. Group(<< >>) = << 1 >> \o << >>
      <4>1. Len(<< >>) + 1 = 1
        OBVIOUS
      <4>. QED
        BY <4>1 DEF Group
    <3>3. << 1 >> \o << >> = << 1 >>
      <4>1. << 1 >> \in Bytes
        BY SizesAreNumbers DEF Bytes, Byte
      <4>. QED
        BY <4>1, ConcatEmptySeq DEF Bytes
    <3>. QED
      BY <3>1, <3>2, <3>3
  <2>3. COBSEncode(g \o << >>) = Group(g) \o COBSEncode(<< >>)
    BY <1>2, <2>1, GroupEncodes
  <2>4. g \o << >> = g
    BY ConcatEmptySeq DEF Bytes
  <2>5. EndsInFullGroup(g)
    <3>1. /\ Len(g) >= FullCode - 1
          /\ \A k \in Len(g) - FullCode + 2 .. Len(g) : k \in 1 .. Len(g)
      BY <1>2, SizesAreNumbers DEF Bytes
    <3>. QED
      BY <3>1 DEF EndsInFullGroup, ZeroFree
  <2>. QED
    BY <2>2, <2>3, <2>4, <2>5
<1>3. Len(g) + 1 < FullCode \/ Len(g) + 1 = FullCode
  BY SizesAreNumbers DEF Bytes
<1>. QED
  BY <1>1, <1>2, <1>3

LEMMA EveryLineEncodes ==
    ASSUME NEW line \in Bytes, ZeroFree(line)
    PROVE  Encodes(line)
<1>. DEFINE T == {n \in Nat : \A l \in Bytes : Len(l) = n /\ ZeroFree(l) => Encodes(l)}
<1>1. ASSUME NEW n \in Nat, \A k \in 0 .. n - 1 : k \in T PROVE n \in T
  <2>1. SUFFICES ASSUME NEW l \in Bytes, Len(l) = n, ZeroFree(l), NEW d \in COBSDecode(l)
                 PROVE  \/ COBSEncode(d) = l
                        \/ COBSEncode(d) = l \o << 1 >> /\ EndsInFullGroup(d)
    BY DEF Encodes
  <2>2. PICK g \in Bytes, t \in Bytes : /\ ZeroFree(g) /\ Len(g) < FullCode /\ ZeroFree(t)
                                        /\ l = Group(g) \o t
                                        /\ Len(l) = Len(g) + 1 + Len(t)
    BY <2>1, LineBeginsWithGroup
  <2>3. Group(g) \in Bytes /\ Len(g) \in Nat /\ Len(t) \in Nat
    BY <2>2, GroupIs DEF Bytes
  <2>4. CASE t = << >>
    <3>1. l = Group(g)
      BY <2>2, <2>3, <2>4, ConcatEmptySeq DEF Bytes
    <3>2. d = g
      BY <2>1, <2>2, <3>1, GroupDecodes
    <3>. QED
      BY <2>2, <3>1, <3>2, EncodesLastGroup
  <2>5. CASE t # << >>
    <3>1. PICK r \in COBSDecode(t) : d = (g \o ZeroAfter(g)) \o r
      <4>1. COBSDecode(Group(g) \o t) = {(g \o ZeroAfter(g)) \o r : r \in COBSDecode(t)}
        BY <2>2, <2>5, GroupDecodes
      <4>. QED
        BY <2>1, <2>2, <4>1
    <3>2. r \in Bytes
      BY DecodedBytes
    <3>3. COBSEncode(d) = Group(g) \o COBSEncode(r)
      BY <2>2, <3>1, <3>2, EncodesGroup
    <3>4. Encodes(t)
      <4>1. Len(t) \in 0 .. n - 1
        BY <2>1, <2>2, <2>3
      <4>. QED
        BY <1>1, <2>2, <4>1
    <3>5. CASE COBSEncode(r) = t
      BY <2>2, <3>3, <3>5
    <3>6. CASE COBSEncode(r) = t \o << 1 >> /\ EndsInFullGroup(r)
      <4>1. Group(g) \o (t \o << 1 >>) = l \o << 1 >>
        <5>1. << 1 >> \in Bytes
          BY SizesAreNumbers DEF Bytes, Byte
        <5>2. (Group(g) \o t) \o << 1 >> = Group(g) \o (t \o << 1 >>)
          BY <2>3, <5>1, ConcatOfThree
        <5>. QED
          BY <2>2, <5>2
      <4>2. g \o ZeroAfter(g) \in Bytes
        <5>1. ZeroAfter(g) \in Bytes
          BY ShortSequences DEF ZeroAfter
        <5>. QED
          BY <5>1, ConcatBytes
      <4>3. EndsInFullGroup(d)
        BY <3>1, <3>2, <3>6, <4>2, EndsBehind
      <4>. QED
        BY <3>3, <3>6, <4>1, <4>3
    <3>. QED
      BY <3>4, <3>5, <3>6 DEF Encodes
  <2>. QED
    BY <2>4, <2>5
<1>2. Nat \subseteq T
  <2>. HIDE DEF T
  <2>. QED
    BY <1>1, CompleteInduction
<1>3. Len(line) \in Nat
  BY DEF Bytes
<1>. QED
  BY <1>2, <1>3

\* COBSEncode and COBSDecode are exact for every packet and every line, at every
\* size of a full group.
THEOREM CobsExact ==
    ASSUME bytes \in Seq(0 .. FullCode)
    PROVE  CobsIsExact
<1>1. bytes \in Bytes
  BY DEF Bytes, Byte
<1>2. CobsRoundTrip
  BY <1>1, EveryPacketExact DEF Exact, CobsRoundTrip
<1>3. CobsDecodesEncodings
  BY <1>1, EveryLineEncodes DEF Encodes, CobsDecodesEncodings
<1>. QED
  BY <1>2, <1>3 DEF CobsIsExact

-----------------------------------------------------------------------------
(* Powers of two.                                                          *)

Doubles(f, n) ==
    /\ f \in [0 .. n -> Nat]
    /\ f[0] = 1
    /\ \A k \in 1 .. n : f[k] = 2 * f[k - 1]

LEMMA TwoToIs ==
    /\ TwoTo \in [Nat -> Nat]
    /\ TwoTo[0] = 1
    /\ \A k \in Nat : TwoTo[k + 1] = 2 * TwoTo[k]
<1>. DEFINE T == {n \in Nat : \E f : Doubles(f, n)}
<1>1. 0 \in T
  <2>. DEFINE f == [k \in 0 .. 0 |-> 1]
  <2>1. f \in [0 .. 0 -> Nat] /\ f[0] = 1 /\ \A k \in 1 .. 0 : f[k] = 2 * f[k - 1]
    OBVIOUS
  <2>. HIDE DEF f
  <2>. QED
    BY <2>1 DEF Doubles
<1>2. ASSUME NEW n \in Nat, n \in T PROVE n + 1 \in T
  <2>1. PICK f : Doubles(f, n)
    BY <1>2
  <2>. DEFINE g == [k \in 0 .. n + 1 |-> IF k = n + 1 THEN 2 * f[n] ELSE f[k]]
  <2>2. /\ f \in [0 .. n -> Nat] /\ f[0] = 1 /\ \A k \in 1 .. n : f[k] = 2 * f[k - 1]
        /\ f[n] \in Nat
    BY <2>1 DEF Doubles
  <2>3. \A k \in 0 .. n : g[k] = f[k] /\ f[k] \in Nat
    BY <2>2
  <2>4. g[n + 1] = 2 * f[n] /\ g[n + 1] \in Nat
    BY <2>2
  <2>5. g \in [0 .. n + 1 -> Nat]
    <3>1. \A k \in 0 .. n + 1 : k = n + 1 \/ k \in 0 .. n
      OBVIOUS
    <3>2. \A k \in 0 .. n + 1 : g[k] \in Nat
      <4>. HIDE DEF g
      <4>. QED
        BY <2>3, <2>4, <3>1
    <3>3. g = [k \in 0 .. n + 1 |-> g[k]]
      OBVIOUS
    <3>. HIDE DEF g
    <3>. QED
      BY <3>2, <3>3
  <2>. HIDE DEF g
  <2>6. ASSUME NEW k \in 1 .. n + 1 PROVE g[k] = 2 * g[k - 1]
    <3>1. CASE k = n + 1
      <4>1. k - 1 = n /\ n \in 0 .. n
        BY <3>1
      <4>. QED
        BY <2>3, <2>4, <3>1, <4>1
    <3>2. CASE k # n + 1
      <4>1. k \in 1 .. n /\ k \in 0 .. n /\ k - 1 \in 0 .. n
        BY <3>2
      <4>. QED
        BY <2>2, <2>3, <4>1
    <3>. QED
      BY <3>1, <3>2
  <2>7. g[0] = 1
    BY <2>2, <2>3
  <2>8. Doubles(g, n + 1)
    BY <2>5, <2>6, <2>7 DEF Doubles
  <2>. QED
    BY <2>8
<1>3. \A n \in Nat : \E f : Doubles(f, n)
  <2>1. Nat \subseteq T
    <3>. HIDE DEF T
    <3>. QED
      BY <1>1, <1>2, Induction
  <2>. QED
    BY <2>1
<1>. DEFINE F(n) == CHOOSE f : Doubles(f, n)
<1>4. ASSUME NEW n \in Nat
      PROVE  /\ F(n) \in [0 .. n -> Nat] /\ F(n)[0] = 1
             /\ \A k \in 1 .. n : F(n)[k] = 2 * F(n)[k - 1]
  BY <1>3 DEF Doubles
<1>. HIDE DEF F
<1>5. ASSUME NEW n \in Nat PROVE F(n + 1)[n] = F(n)[n]
  <2>. DEFINE U == {k \in 0 .. n : F(n + 1)[k] = F(n)[k]}
  <2>1. n + 1 \in Nat
    OBVIOUS
  <2>0. 0 \in U
    <3>1. F(n + 1)[0] = 1 /\ F(n)[0] = 1
      BY <1>4, <2>1
    <3>. QED
      BY <3>1
  <2>2. ASSUME NEW k \in 0 .. n - 1, k \in U PROVE k + 1 \in U
    <3>1. k + 1 \in 1 .. n /\ k + 1 \in 1 .. n + 1 /\ (k + 1) - 1 = k /\ k + 1 \in 0 .. n
      OBVIOUS
    <3>2. F(n)[k + 1] = 2 * F(n)[k] /\ F(n + 1)[k + 1] = 2 * F(n + 1)[k]
      BY <1>4, <2>1, <3>1
    <3>. QED
      BY <2>2, <3>1, <3>2
  <2>3. 0 .. n \subseteq U
    <3>1. n \in Int /\ 0 \in Int /\ (0 <= n => 0 \in U)
      BY <2>0
    <3>. HIDE DEF U
    <3>. QED
      BY <2>2, <3>1, IntervalInduction
  <2>. QED
    BY <2>3
<1>. DEFINE f == [k \in Nat |-> F(k)[k]]
<1>6. f = [k \in Nat |-> IF k = 0 THEN 1 ELSE 2 * f[k - 1]]
  <2>1. ASSUME NEW k \in Nat PROVE f[k] = IF k = 0 THEN 1 ELSE 2 * f[k - 1]
    <3>1. CASE k = 0
      BY <1>4, <3>1
    <3>2. CASE k # 0
      <4>1. k - 1 \in Nat /\ (k - 1) + 1 = k /\ k \in 1 .. k
        BY <3>2
      <4>2. F(k)[k] = 2 * F(k)[k - 1]
        BY <1>4, <4>1
      <4>3. F(k)[k - 1] = F(k - 1)[k - 1]
        BY <1>5, <4>1
      <4>. QED
        BY <3>2, <4>1, <4>2, <4>3
    <3>. QED
      BY <3>1, <3>2
  <2>. QED
    BY <2>1
<1>. HIDE DEF f
<1>7. TwoTo = [k \in Nat |-> IF k = 0 THEN 1 ELSE 2 * TwoTo[k - 1]]
  BY <1>6 DEF TwoTo
<1>8. TwoTo[0] = 1 /\ \A k \in Nat : TwoTo[k + 1] = 2 * TwoTo[k]
  <2>1. \A k \in Nat : k + 1 \in Nat /\ k + 1 # 0 /\ (k + 1) - 1 = k
    OBVIOUS
  <2>. QED
    BY <1>7, <2>1
<1>9. \A k \in Nat : TwoTo[k] \in Nat
  <2>. DEFINE N == {k \in Nat : TwoTo[k] \in Nat}
  <2>1. 0 \in N /\ \A k \in Nat : k \in N => k + 1 \in N
    BY <1>8
  <2>2. Nat \subseteq N
    <3>. HIDE DEF N
    <3>. QED
      BY <2>1, Induction
  <2>. QED
    BY <2>2
<1>10. TwoTo \in [Nat -> Nat]
  BY <1>7, <1>9
<1>. QED
  BY <1>8, <1>10

LEMMA TwoToType ==
    ASSUME NEW k \in Nat
    PROVE  TwoTo[k] \in Nat /\ TwoTo[k] > k
<1>. DEFINE T == {n \in Nat : TwoTo[n] \in Nat /\ TwoTo[n] > n}
<1>1. 0 \in T
  BY TwoToIs
<1>2. ASSUME NEW n \in Nat, n \in T PROVE n + 1 \in T
  BY <1>2, TwoToIs
<1>3. Nat \subseteq T
  <2>. HIDE DEF T
  <2>. QED
    BY <1>1, <1>2, Induction
<1>. QED
  BY <1>3

LEMMA TwoToSum ==
    ASSUME NEW a \in Nat, NEW b \in Nat
    PROVE  TwoTo[a + b] = TwoTo[a] * TwoTo[b]
<1>. DEFINE T == {n \in Nat : TwoTo[a + n] = TwoTo[a] * TwoTo[n]}
<1>1. 0 \in T
  <2>1. TwoTo[a] \in Nat /\ a + 0 = a
    BY TwoToType
  <2>. QED
    BY <2>1, TwoToIs
<1>2. ASSUME NEW n \in Nat, n \in T PROVE n + 1 \in T
  <2>1. TwoTo[a] \in Nat /\ TwoTo[n] \in Nat
    BY TwoToType
  <2>2. TwoTo[a + (n + 1)] = 2 * TwoTo[a + n] /\ TwoTo[n + 1] = 2 * TwoTo[n]
    <3>1. a + (n + 1) = (a + n) + 1 /\ a + n \in Nat
      OBVIOUS
    <3>. QED
      BY <3>1, TwoToIs
  <2>3. \A x, y \in Nat : 2 * (x * y) = x * (2 * y)
    OBVIOUS
  <2>. QED
    BY <1>2, <2>1, <2>2, <2>3
<1>3. Nat \subseteq T
  <2>. HIDE DEF T
  <2>. QED
    BY <1>1, <1>2, Induction
<1>. QED
  BY <1>3

\* A power that is below another has the smaller exponent.
LEMMA TwoToBelow ==
    ASSUME NEW a \in Nat, NEW b \in Nat, TwoTo[a] < TwoTo[b]
    PROVE  a < b
<1>1. SUFFICES ASSUME b <= a PROVE FALSE
  OBVIOUS
<1>. DEFINE d == a - b
<1>2. d \in Nat /\ a = b + d
  BY <1>1
<1>. HIDE DEF d
<1>3. TwoTo[a] = TwoTo[b] * TwoTo[d]
  BY <1>2, TwoToSum
<1>4. TwoTo[b] \in Nat /\ TwoTo[d] \in Nat /\ TwoTo[d] > 0
  BY <1>2, TwoToType
<1>5. \A x, y \in Nat : y > 0 => x * y >= x
  OBVIOUS
<1>. QED
  BY <1>3, <1>4, <1>5

USE DEF WordValues

LEMMA MoreIs ==
    /\ More \in Nat /\ More > 1
    /\ GroupBits \in Nat /\ GroupBits > 0
    /\ WordBits \in Nat /\ WordBits > 0
  BY CodecAssumption, TwoToType DEF More

-----------------------------------------------------------------------------
(* Arithmetic.                                                             *)

LEMMA DivRem ==
    ASSUME NEW n \in Nat, NEW m \in Nat, m > 0
    PROVE  /\ n \div m \in Nat /\ n % m \in Nat /\ n % m < m
           /\ n = ((n \div m) * m) + (n % m)
  OBVIOUS

LEMMA DivSmaller ==
    ASSUME NEW n \in Nat, NEW m \in Nat, m > 1, n >= m
    PROVE  n \div m \in 0 .. n - 1
  OBVIOUS

LEMMA RemainderOfSmall ==
    ASSUME NEW n \in Nat, NEW m \in Nat, n < m
    PROVE  n % m = n
  OBVIOUS

\* A quotient and a remainder make a number whose remainder is that one.
LEMMA RemainderOf ==
    ASSUME NEW q \in Nat, NEW m \in Nat, NEW s \in Nat, s < m
    PROVE  ((q * m) + s) % m = s /\ ((q * m) + s) \div m = q
<1>. DEFINE n == (q * m) + s
<1>1. n \in Nat /\ n = (q * m) + s
  OBVIOUS
<1>. HIDE DEF n
<1>. DEFINE d == n \div m
            e == n % m
<1>2. d \in Nat /\ e \in Nat /\ e < m /\ n = (d * m) + e
  BY <1>1, DivRem
<1>. HIDE DEF d, e
<1>3. ~ (d > q)
  <2>1. SUFFICES ASSUME d >= q + 1 PROVE FALSE
    BY <1>2
  <2>2. d * m >= (q + 1) * m
    BY <1>2, <2>1
  <2>. QED
    BY <1>1, <1>2, <2>2
<1>4. ~ (d < q)
  <2>1. SUFFICES ASSUME q >= d + 1 PROVE FALSE
    BY <1>2
  <2>2. q * m >= (d + 1) * m
    BY <1>2, <2>1
  <2>. QED
    BY <1>1, <1>2, <2>2
<1>5. d = q
  BY <1>2, <1>3, <1>4
<1>6. e = s
  BY <1>1, <1>2, <1>5
<1>. QED
  BY <1>1, <1>5, <1>6 DEF d, e, n

\* The continuation bit of a byte is no part of its remainder.
LEMMA RemainderOfMore ==
    ASSUME NEW m \in Nat, NEW s \in Nat, s < m
    PROVE  (s + m) % m = s
<1>. DEFINE q == 1
<1>1. q \in Nat /\ (q * m) + s = s + m
  OBVIOUS
<1>. HIDE DEF q
<1>. QED
  BY <1>1, RemainderOf

LEMMA QuotientOfSmall ==
    ASSUME NEW n \in Nat, NEW m \in Nat, n < m
    PROVE  n \div m = 0
  OBVIOUS

LEMMA RemainderAtMost ==
    ASSUME NEW n \in Nat, NEW m \in Nat, m > 0
    PROVE  n % m <= n
  OBVIOUS

LEMMA RemainderScaled ==
    ASSUME NEW x \in Nat, NEW p \in Nat, NEW r \in Nat, p > 0, r > 0
    PROVE  (x * p) % (p * r) = p * (x % r)
<1>. DEFINE q == x \div r
            s == x % r
<1>1. q \in Nat /\ s \in Nat /\ s < r /\ x = (q * r) + s
  BY DivRem
<1>. HIDE DEF q, s
<1>2. p * r \in Nat /\ p * r > 0
  OBVIOUS
<1>3. x * p = (q * (p * r)) + (p * s)
  BY <1>1
<1>4. p * s \in Nat /\ p * s < p * r
  BY <1>1
<1>5. ((q * (p * r)) + (p * s)) % (p * r) = p * s
  BY <1>1, <1>2, <1>4, RemainderOf
<1>6. (x * p) % (p * r) = p * s
  BY <1>3, <1>5
<1>. QED
  BY <1>6 DEF s

LEMMA QuotientBound ==
    ASSUME NEW k \in Nat, NEW g \in Nat, g > 0, NEW y \in Nat, k * g <= y
    PROVE  k <= y \div g
  OBVIOUS

-----------------------------------------------------------------------------
(* The encoder of varints.                                                 *)

VarintStep(n, from) == IF n < More THEN <<n>> ELSE <<(n % More) + More>> \o from[n \div More]
VarintFrom(v) == CHOOSE from : from = [n \in 0 .. v |-> VarintStep(n, from)]

LEMMA VarintIsFrom ==
    ASSUME NEW v \in Nat
    PROVE  EncodeVarint(v) = VarintFrom(v)[v]
  BY DEF EncodeVarint, VarintFrom, VarintStep

LEMMA VarintStepType ==
    ASSUME NEW n \in Nat, NEW from, n >= More => from[n \div More] \in Seq(Nat)
    PROVE  VarintStep(n, from) \in Seq(Nat)
<1>1. CASE n < More
  BY <1>1 DEF VarintStep
<1>2. CASE ~(n < More)
  <2>1. n >= More
    BY <1>2, MoreIs
  <2>2. (n % More) + More \in Nat
    BY MoreIs, DivRem
  <2>3. <<(n % More) + More>> \in Seq(Nat) /\ from[n \div More] \in Seq(Nat)
    BY <2>1, <2>2
  <2>. QED
    BY <1>2, <2>3, ConcatProperties DEF VarintStep
<1>. QED
  BY <1>1, <1>2

LEMMA VarintStepUses ==
    ASSUME NEW n \in Nat, NEW g, NEW h, n >= More => g[n \div More] = h[n \div More]
    PROVE  VarintStep(n, g) = VarintStep(n, h)
<1>1. CASE n < More
  BY <1>1 DEF VarintStep
<1>2. CASE ~(n < More)
  <2>1. n >= More
    BY <1>2, MoreIs
  <2>. QED
    BY <1>2, <2>1 DEF VarintStep
<1>. QED
  BY <1>1, <1>2

LEMMA VarintFromIs ==
    ASSUME NEW v \in Nat
    PROVE  \A n \in 0 .. v : /\ VarintFrom(v)[n] = VarintStep(n, VarintFrom(v))
                             /\ VarintFrom(v)[n] \in Seq(Nat)
<1>. DEFINE S == 0 .. v
            V == Seq(Nat)
            rank == [n \in S |-> n]
            Step == [n \in S |-> [g \in [S -> V] |-> VarintStep(n, g)]]
<1>0. rank \in [S -> 0 .. v]
  OBVIOUS
<1>1. \A n \in S : n \in Nat /\ (n >= More => n \div More \in S /\ n \div More < n)
  BY MoreIs, DivSmaller
<1>2. Step \in [S -> [[S -> V] -> V]]
  <2>1. ASSUME NEW n \in S, NEW g \in [S -> V] PROVE VarintStep(n, g) \in V
    <3>1. n >= More => g[n \div More] \in V
      BY <1>1
    <3>. QED
      BY <1>1, <3>1, VarintStepType
  <2>. QED
    BY <2>1
<1>3. ASSUME NEW n \in S, NEW g \in [S -> V], NEW h \in [S -> V],
             \A j \in S : rank[j] < rank[n] => g[j] = h[j]
      PROVE  Step[n][g] = Step[n][h]
  <2>1. n >= More => g[n \div More] = h[n \div More]
    BY <1>1, <1>3
  <2>2. VarintStep(n, g) = VarintStep(n, h)
    BY <1>1, <2>1, VarintStepUses
  <2>. QED
    BY <2>2
<1>4. \E f \in [S -> V] : f = [n \in S |-> Step[n][f]]
  <2>1. Computes(Step, rank, v, S, V)
    <3>. HIDE DEF S, V, rank, Step
    <3>. QED
      BY <1>0, <1>2, <1>3 DEF Computes
  <2>2. V # {}
    <3>1. << >> \in V
      OBVIOUS
    <3>. QED
      BY <3>1
  <2>. HIDE DEF S, V, rank, Step
  <2>. QED
    BY <2>1, <2>2, Recursion
<1>5. \E f : f = [n \in S |-> VarintStep(n, f)]
  BY <1>4
<1>6. VarintFrom(v) = [n \in S |-> VarintStep(n, VarintFrom(v))]
  BY <1>5 DEF VarintFrom
<1>7. \A n \in S : VarintFrom(v)[n] = VarintStep(n, VarintFrom(v))
  <2>. HIDE DEF S
  <2>. QED
    BY <1>6
<1>8. \A n \in S : VarintFrom(v)[n] \in V
  <2>. DEFINE T == {n \in Nat : n \in S => VarintFrom(v)[n] \in V}
  <2>1. ASSUME NEW n \in Nat, \A m \in 0 .. n - 1 : m \in T PROVE n \in T
    <3>1. SUFFICES ASSUME n \in S PROVE VarintFrom(v)[n] \in V
      OBVIOUS
    <3>2. n >= More => VarintFrom(v)[n \div More] \in V
      <4>1. SUFFICES ASSUME n >= More PROVE VarintFrom(v)[n \div More] \in V
        OBVIOUS
      <4>2. n \div More \in 0 .. n - 1
        BY <4>1, MoreIs, DivSmaller
      <4>3. n \div More \in S
        BY <3>1, <4>2
      <4>. QED
        BY <2>1, <4>2, <4>3
    <3>. QED
      BY <1>7, <3>1, <3>2, VarintStepType
  <2>2. Nat \subseteq T
    <3>. HIDE DEF T
    <3>. QED
      BY <2>1, CompleteInduction
  <2>. QED
    BY <2>2
<1>. QED
  BY <1>7, <1>8

\* However large the number encoding began with, the rest is encoded the same.
LEMMA VarintFromSame ==
    ASSUME NEW v \in Nat, NEW w \in Nat, w <= v
    PROVE  VarintFrom(v)[w] = VarintFrom(w)[w]
<1>. DEFINE T == {n \in Nat : n <= w => VarintFrom(v)[n] = VarintFrom(w)[n]}
<1>1. ASSUME NEW n \in Nat, \A m \in 0 .. n - 1 : m \in T PROVE n \in T
  <2>1. SUFFICES ASSUME n <= w PROVE VarintFrom(v)[n] = VarintFrom(w)[n]
    OBVIOUS
  <2>2. n >= More => VarintFrom(v)[n \div More] = VarintFrom(w)[n \div More]
    <3>1. SUFFICES ASSUME n >= More PROVE VarintFrom(v)[n \div More] = VarintFrom(w)[n \div More]
      OBVIOUS
    <3>2. n \div More \in 0 .. n - 1
      BY <3>1, MoreIs, DivSmaller
    <3>3. n \div More <= w
      BY <2>1, <3>2
    <3>. QED
      BY <1>1, <3>2, <3>3
  <2>3. n \in 0 .. v /\ n \in 0 .. w
    BY <2>1
  <2>4. VarintStep(n, VarintFrom(v)) = VarintStep(n, VarintFrom(w))
    BY <2>2, VarintStepUses
  <2>. QED
    BY <2>3, <2>4, VarintFromIs
<1>2. Nat \subseteq T
  <2>. HIDE DEF T
  <2>. QED
    BY <1>1, CompleteInduction
<1>. QED
  BY <1>2

\* The varint of a number: its lowest group, and the varint of the rest.
LEMMA VarintIs ==
    ASSUME NEW v \in Nat
    PROVE  /\ EncodeVarint(v) \in Seq(Nat)
           /\ v < More => EncodeVarint(v) = <<v>>
           /\ v >= More => EncodeVarint(v) = <<(v % More) + More>> \o EncodeVarint(v \div More)
<1>1. v \in 0 .. v
  OBVIOUS
<1>2. EncodeVarint(v) = VarintStep(v, VarintFrom(v)) /\ EncodeVarint(v) \in Seq(Nat)
  BY <1>1, VarintIsFrom, VarintFromIs
<1>3. ASSUME v < More PROVE EncodeVarint(v) = <<v>>
  BY <1>2, <1>3 DEF VarintStep
<1>4. ASSUME v >= More PROVE EncodeVarint(v) = <<(v % More) + More>> \o EncodeVarint(v \div More)
  <2>1. ~(v < More)
    BY <1>4, MoreIs
  <2>2. v \div More \in Nat /\ v \div More <= v
    BY <1>4, MoreIs, DivSmaller
  <2>3. VarintFrom(v)[v \div More] = EncodeVarint(v \div More)
    BY <2>2, VarintFromSame, VarintIsFrom
  <2>. QED
    BY <1>2, <2>1, <2>3 DEF VarintStep
<1>. QED
  BY <1>2, <1>3, <1>4

-----------------------------------------------------------------------------
(* The decoder of varints.                                                 *)

Low(data, pos, i) == ((data[i] % More) * TwoTo[GroupBits * (i - pos)]) % TwoTo[WordBits]

NumberStep(data, pos, i, from) ==
    IF i > Len(data) THEN {}
    ELSE IF data[i] < More THEN {<<Low(data, pos, i), i + 1>>}
    ELSE IF ~ShiftFits(GroupBits * (i - pos + 1)) THEN {}
    ELSE {<<Low(data, pos, i) + r[1], r[2]>> : r \in from[i + 1]}

NumberFrom(data, pos) ==
    CHOOSE from : from = [i \in pos .. Len(data) + 1 |-> NumberStep(data, pos, i, from)]

LEMMA NumberIsFrom ==
    ASSUME NEW data, NEW pos
    PROVE  DecodeVarint(data, pos) = NumberFrom(data, pos)[pos]
  BY DEF DecodeVarint, NumberFrom, NumberStep, Low

LEMMA LowType ==
    ASSUME NEW data \in Seq(Nat), NEW pos \in 1 .. Len(data), NEW i \in pos .. Len(data)
    PROVE  /\ Low(data, pos, i) \in Nat
           /\ Low(data, pos, i) < TwoTo[WordBits]
           /\ TwoTo[GroupBits * (i - pos)] \in Nat
           /\ TwoTo[WordBits] \in Nat /\ TwoTo[WordBits] > 0
           /\ data[i] \in Nat
<1>1. GroupBits * (i - pos) \in Nat
  <2>1. i - pos \in Nat
    OBVIOUS
  <2>2. \A a, b \in Nat : a * b \in Nat
    OBVIOUS
  <2>. QED
    BY <2>1, <2>2, MoreIs
<1>2. TwoTo[GroupBits * (i - pos)] \in Nat /\ TwoTo[WordBits] \in Nat /\ TwoTo[WordBits] > 0
  BY <1>1, MoreIs, TwoToType
<1>3. data[i] \in Nat
  OBVIOUS
<1>4. data[i] % More \in Nat
  BY <1>3, MoreIs, DivRem
<1>5. (data[i] % More) * TwoTo[GroupBits * (i - pos)] \in Nat
  BY <1>2, <1>4
<1>. QED
  BY <1>2, <1>3, <1>5, DivRem DEF Low

LEMMA NumberFromIs ==
    ASSUME NEW data \in Seq(Nat), NEW pos \in 1 .. Len(data)
    PROVE  \A i \in pos .. Len(data) + 1 :
              NumberFrom(data, pos)[i] = NumberStep(data, pos, i, NumberFrom(data, pos))
<1>. DEFINE N == Len(data) + 1
            S == pos .. N
            V == SUBSET (Nat \X Nat)
            rank == [i \in S |-> N - i]
            Step == [i \in S |-> [g \in [S -> V] |-> NumberStep(data, pos, i, g)]]
<1>1. Len(data) \in Nat /\ N \in Nat /\ rank \in [S -> 0 .. N]
  OBVIOUS
<1>2. Step \in [S -> [[S -> V] -> V]]
  <2>1. ASSUME NEW i \in S, NEW g \in [S -> V] PROVE NumberStep(data, pos, i, g) \in V
    <3>1. CASE i > Len(data)
      BY <3>1 DEF NumberStep
    <3>2. CASE ~(i > Len(data))
      <4>1. i \in pos .. Len(data) /\ i + 1 \in S /\ i + 1 \in Nat
        BY <3>2
      <4>2. Low(data, pos, i) \in Nat
        BY <4>1, LowType
      <4>3. \A r \in g[i + 1] : <<Low(data, pos, i) + r[1], r[2]>> \in Nat \X Nat
        <5>1. g[i + 1] \in V
          BY <4>1
        <5>2. \A r \in g[i + 1] : r[1] \in Nat /\ r[2] \in Nat
          BY <5>1
        <5>. QED
          BY <4>2, <5>2
      <4>4. <<Low(data, pos, i), i + 1>> \in Nat \X Nat
        BY <4>1, <4>2
      <4>. QED
        BY <3>2, <4>3, <4>4 DEF NumberStep
    <3>. QED
      BY <3>1, <3>2
  <2>. HIDE DEF S, V
  <2>. QED
    BY <2>1
<1>3. ASSUME NEW i \in S, NEW g \in [S -> V], NEW h \in [S -> V],
             \A j \in S : rank[j] < rank[i] => g[j] = h[j]
      PROVE  Step[i][g] = Step[i][h]
  <2>1. CASE i > Len(data)
    BY <2>1 DEF NumberStep
  <2>2. CASE ~(i > Len(data))
    <3>1. i + 1 \in S /\ rank[i + 1] < rank[i]
      BY <1>1, <2>2
    <3>2. g[i + 1] = h[i + 1]
      BY <1>3, <3>1
    <3>. QED
      BY <3>2 DEF NumberStep
  <2>. QED
    BY <2>1, <2>2
<1>4. \E f \in [S -> V] : f = [i \in S |-> Step[i][f]]
  <2>1. Computes(Step, rank, N, S, V)
    <3>. HIDE DEF S, N, V, rank, Step
    <3>. QED
      BY <1>1, <1>2, <1>3 DEF Computes
  <2>2. V # {}
    OBVIOUS
  <2>. HIDE DEF S, N, V, rank, Step
  <2>. QED
    BY ONLY <2>1, <2>2, Recursion, SMTT(60)
<1>5. \E f : f = [i \in S |-> NumberStep(data, pos, i, f)]
  BY <1>4
<1>6. NumberFrom(data, pos) = [i \in S |-> NumberStep(data, pos, i, NumberFrom(data, pos))]
  BY <1>5 DEF NumberFrom
<1>. HIDE DEF S
<1>7. \A i \in S : NumberFrom(data, pos)[i] = NumberStep(data, pos, i, NumberFrom(data, pos))
  BY <1>6
<1>. QED
  BY <1>7 DEF S

\* What is decoded at a position.
LEMMA NumberAt ==
    ASSUME NEW data \in Seq(Nat), NEW pos \in 1 .. Len(data), NEW i \in pos .. Len(data)
    PROVE  /\ data[i] < More => NumberFrom(data, pos)[i] = {<<Low(data, pos, i), i + 1>>}
           /\ data[i] >= More /\ GroupBits * (i - pos + 1) < WordBits =>
                 NumberFrom(data, pos)[i] =
                    {<<Low(data, pos, i) + r[1], r[2]>> : r \in NumberFrom(data, pos)[i + 1]}
           /\ data[i] >= More /\ ~(GroupBits * (i - pos + 1) < WordBits) =>
                 NumberFrom(data, pos)[i] = {}
           /\ NumberFrom(data, pos)[Len(data) + 1] = {}
<1>1. i \in pos .. Len(data) + 1 /\ Len(data) + 1 \in pos .. Len(data) + 1 /\ ~(i > Len(data))
  OBVIOUS
<1>2. NumberFrom(data, pos)[i] = NumberStep(data, pos, i, NumberFrom(data, pos))
  BY <1>1, NumberFromIs
<1>3. /\ NumberFrom(data, pos)[Len(data) + 1] =
             NumberStep(data, pos, Len(data) + 1, NumberFrom(data, pos))
      /\ Len(data) + 1 > Len(data)
  BY <1>1, NumberFromIs
<1>4. data[i] \in Nat /\ (data[i] >= More => ~(data[i] < More))
  BY MoreIs
<1>5. NumberFrom(data, pos)[Len(data) + 1] = {}
  BY <1>3 DEF NumberStep
<1>. HIDE <1>3
<1>6. ASSUME data[i] < More
      PROVE  NumberFrom(data, pos)[i] = {<<Low(data, pos, i), i + 1>>}
  BY <1>1, <1>2, <1>6 DEF NumberStep
<1>7. ASSUME data[i] >= More, GroupBits * (i - pos + 1) < WordBits
      PROVE  NumberFrom(data, pos)[i] =
                {<<Low(data, pos, i) + r[1], r[2]>> : r \in NumberFrom(data, pos)[i + 1]}
  BY <1>1, <1>2, <1>4, <1>7, Zenon DEF NumberStep, ShiftFits
<1>8. ASSUME data[i] >= More, ~(GroupBits * (i - pos + 1) < WordBits)
      PROVE  NumberFrom(data, pos)[i] = {}
  BY <1>1, <1>2, <1>4, <1>8, Zenon DEF NumberStep, ShiftFits
<1>. QED
  BY <1>5, <1>6, <1>7, <1>8

\* The weight of a group is More times that of the group before it.
LEMMA NextWeight ==
    ASSUME NEW j \in Nat
    PROVE  /\ GroupBits * j \in Nat /\ GroupBits * (j + 1) \in Nat
           /\ TwoTo[GroupBits * (j + 1)] = More * TwoTo[GroupBits * j]
           /\ TwoTo[GroupBits * j] \in Nat /\ TwoTo[GroupBits * j] > 0
<1>1. \A a, b \in Nat : a * b \in Nat /\ a * (b + 1) \in Nat /\ a * (b + 1) = a + a * b
  OBVIOUS
<1>2. /\ GroupBits * j \in Nat /\ GroupBits * (j + 1) \in Nat
      /\ GroupBits * (j + 1) = GroupBits + GroupBits * j
  BY <1>1, MoreIs
<1>3. TwoTo[GroupBits + GroupBits * j] = TwoTo[GroupBits] * TwoTo[GroupBits * j]
  BY <1>2, MoreIs, TwoToSum
<1>4. TwoTo[GroupBits * j] \in Nat /\ TwoTo[GroupBits * j] > 0
  BY <1>2, TwoToType
<1>. QED
  BY <1>2, <1>3, <1>4, Zenon DEF More

\* A number in two parts, the second of them shifted by a group.
LEMMA PartsOfNumber ==
    ASSUME NEW n \in Nat, NEW m \in Nat, NEW p \in Nat, NEW w \in Nat,
           m > 1, p > 0, n * p < w
    PROVE  /\ (n % m) * p < w
           /\ (n \div m) * (m * p) < w
           /\ ((n % m) * p) + ((n \div m) * (m * p)) = n * p
           /\ n >= m => m * p < w
<1>. DEFINE q == n \div m
            s == n % m
<1>1. q \in Nat /\ s \in Nat /\ n = (q * m) + s
  BY DivRem
<1>. HIDE DEF q, s
<1>2. (s * p) + (q * (m * p)) = n * p
  BY <1>1
<1>3. s * p \in Nat /\ q * (m * p) \in Nat
  BY <1>1
<1>4. s * p < w /\ q * (m * p) < w
  BY <1>2, <1>3
<1>5. ASSUME n >= m PROVE m * p < w
  <2>1. m * p <= n * p
    BY <1>5
  <2>. QED
    BY <2>1
<1>. QED
  BY <1>2, <1>4, <1>5 DEF q, s

\* Where the varint of a number stands, that number is decoded, shifted by the
\* groups that were read before it.
LEMMA VarintDecodes ==
    ASSUME NEW data \in Seq(Nat), NEW pos \in 1 .. Len(data), NEW v \in Nat, NEW k \in Nat,
           v * TwoTo[GroupBits * k] < TwoTo[WordBits],
           pos + k + Len(EncodeVarint(v)) <= Len(data) + 1,
           \A x \in 1 .. Len(EncodeVarint(v)) : data[pos + k + x - 1] = EncodeVarint(v)[x]
    PROVE  NumberFrom(data, pos)[pos + k] =
              {<<v * TwoTo[GroupBits * k], pos + k + Len(EncodeVarint(v))>>}
<1>. DEFINE Stands(n, j) ==
                /\ n * TwoTo[GroupBits * j] < TwoTo[WordBits]
                /\ pos + j + Len(EncodeVarint(n)) <= Len(data) + 1
                /\ \A x \in 1 .. Len(EncodeVarint(n)) :
                      data[pos + j + x - 1] = EncodeVarint(n)[x]
            Decodes(n, j) ==
                NumberFrom(data, pos)[pos + j] =
                    {<<n * TwoTo[GroupBits * j], pos + j + Len(EncodeVarint(n))>>}
            T == {n \in Nat : \A j \in Nat : Stands(n, j) => Decodes(n, j)}
<1>1. ASSUME NEW n \in Nat, \A m \in 0 .. n - 1 : m \in T PROVE n \in T
  <2>1. SUFFICES ASSUME NEW j \in Nat, Stands(n, j) PROVE Decodes(n, j)
    OBVIOUS
  <2>. DEFINE i == pos + j
              p == TwoTo[GroupBits * j]
              w == TwoTo[WordBits]
              e == EncodeVarint(n)
  <2>2. /\ p \in Nat /\ p > 0 /\ w \in Nat /\ w > 0 /\ More \in Nat /\ More > 1
        /\ n * p < w /\ n * p \in Nat
    <3>1. p \in Nat /\ p > 0 /\ w \in Nat /\ w > 0 /\ n * p < w
      BY <2>1, NextWeight, MoreIs, TwoToType
    <3>. HIDE DEF p, w
    <3>. QED
      BY <3>1, MoreIs
  <2>3. e \in Seq(Nat) /\ Len(e) \in Nat
    <3>1. e \in Seq(Nat)
      BY VarintIs
    <3>. HIDE DEF e
    <3>. QED
      BY <3>1
  <2>4. i \in Nat /\ i - pos = j /\ i + Len(e) <= Len(data) + 1
        /\ \A x \in 1 .. Len(e) : data[i + x - 1] = e[x]
    <3>1. i \in Nat /\ i - pos = j
      OBVIOUS
    <3>2. i + Len(e) <= Len(data) + 1 /\ \A x \in 1 .. Len(e) : data[i + x - 1] = e[x]
      BY <2>1, Zenon
    <3>. QED
      BY <3>1, <3>2
  <2>5. CASE n < More
    <3>1. e = <<n>> /\ Len(e) = 1 /\ e[1] = n
      <4>1. e = <<n>>
        BY <2>5, VarintIs
      <4>. HIDE DEF e
      <4>. QED
        BY <4>1
    <3>2. i \in pos .. Len(data) /\ data[i] = n
      <4>1. i \in pos .. Len(data) /\ i + 1 - 1 = i /\ 1 \in 1 .. Len(e)
        BY <2>4, <3>1
      <4>2. data[i + 1 - 1] = n
        BY <2>4, <3>1, <4>1
      <4>. QED
        BY <4>1, <4>2
    <3>3. NumberFrom(data, pos)[i] = {<<Low(data, pos, i), i + 1>>}
      BY <2>5, <3>2, NumberAt
    <3>4. Low(data, pos, i) = n * p
      <4>1. n % More = n
        BY <2>2, <2>5, RemainderOfSmall
      <4>2. (n * p) % w = n * p
        BY <2>2, RemainderOfSmall
      <4>3. Low(data, pos, i) = ((n % More) * p) % w
        BY <2>4, <3>2 DEF Low
      <4>. QED
        BY <4>1, <4>2, <4>3
    <3>. QED
      BY <3>1, <3>3, <3>4
  <2>6. CASE n >= More
    <3>. DEFINE m == n \div More
                f == EncodeVarint(m)
    <3>1. m \in 0 .. n - 1 /\ m \in Nat /\ m \in T
      <4>1. m \in 0 .. n - 1
        BY <2>2, <2>6, DivSmaller
      <4>. QED
        BY <1>1, <4>1
    <3>2. f \in Seq(Nat) /\ Len(f) \in Nat
      <4>1. f \in Seq(Nat)
        BY <3>1, VarintIs
      <4>. HIDE DEF f
      <4>. QED
        BY <4>1
    <3>3. /\ n % More \in Nat /\ n % More < More /\ (n % More) + More \in Nat
      <4>1. n % More \in Nat /\ n % More < More
        BY MoreIs, DivRem
      <4>. DEFINE s == n % More
      <4>2. s \in Nat
        BY <4>1
      <4>. HIDE DEF s
      <4>3. s + More \in Nat
        BY <4>2, MoreIs
      <4>. QED
        BY <4>1, <4>3 DEF s
    <3>4. e = <<(n % More) + More>> \o f
      BY <2>6, VarintIs
    <3>5. Len(e) = Len(f) + 1 /\ e[1] = (n % More) + More
          /\ \A x \in 1 .. Len(f) : e[x + 1] = f[x]
      <4>. HIDE DEF e, f, m
      <4>1. <<(n % More) + More>> \in Seq(Nat)
        BY <3>3
      <4>. QED
        BY <3>2, <3>4, <4>1
    <3>6. i \in pos .. Len(data) /\ data[i] = (n % More) + More
      <4>. HIDE DEF e, f, m
      <4>1. i \in pos .. Len(data) /\ i + 1 - 1 = i /\ 1 \in 1 .. Len(e)
        BY <2>4, <3>2, <3>5
      <4>2. data[i + 1 - 1] = (n % More) + More
        BY <2>4, <3>5, <4>1
      <4>. QED
        BY <4>1, <4>2
    <3>7. data[i] >= More /\ data[i] % More = n % More
      <4>1. ((n % More) + More) % More = n % More
        BY <2>2, <3>3, RemainderOfMore
      <4>. QED
        BY <2>2, <3>3, <3>6, <4>1
    <3>8. /\ (n % More) * p < w
          /\ m * (More * p) < w
          /\ ((n % More) * p) + (m * (More * p)) = n * p
          /\ More * p < w
      <4>. HIDE DEF p, w
      <4>. QED
        BY <2>2, <2>6, PartsOfNumber
    <3>9. Low(data, pos, i) = (n % More) * p
      <4>1. (n % More) * p \in Nat
        <5>. HIDE DEF p
        <5>. QED
          BY <2>2, <3>3
      <4>2. ((n % More) * p) % w = (n % More) * p
        <5>. HIDE DEF p, w
        <5>. QED
          BY <2>2, <3>8, <4>1, RemainderOfSmall
      <4>3. Low(data, pos, i) = ((n % More) * p) % w
        BY <2>4, <3>7 DEF Low
      <4>. QED
        BY <4>2, <4>3
    <3>10. TwoTo[GroupBits * (j + 1)] = More * p /\ GroupBits * (j + 1) \in Nat
      BY NextWeight
    <3>11. GroupBits * (i - pos + 1) < WordBits
      <4>1. GroupBits * (j + 1) < WordBits
        BY <3>8, <3>10, MoreIs, TwoToBelow
      <4>. QED
        BY <2>4, <4>1
    <3>12. NumberFrom(data, pos)[i] =
              {<<Low(data, pos, i) + r[1], r[2]>> : r \in NumberFrom(data, pos)[i + 1]}
      BY <3>6, <3>7, <3>11, NumberAt
    <3>13. Stands(m, j + 1)
      <4>1. m * TwoTo[GroupBits * (j + 1)] < TwoTo[WordBits]
        BY <3>8, <3>10
      <4>2. pos + (j + 1) + Len(f) <= Len(data) + 1
        <5>. HIDE DEF e, f, m
        <5>. QED
          BY <2>4, <3>2, <3>5
      <4>3. ASSUME NEW x \in 1 .. Len(f) PROVE data[pos + (j + 1) + x - 1] = f[x]
        <5>. HIDE DEF e, f, m
        <5>1. x + 1 \in 1 .. Len(e) /\ i + (x + 1) - 1 = pos + (j + 1) + x - 1
          BY <3>2, <3>5
        <5>2. data[i + (x + 1) - 1] = e[x + 1] /\ e[x + 1] = f[x]
          BY <2>4, <3>5, <5>1
        <5>. QED
          BY <5>1, <5>2
      <4>. QED
        BY <4>1, <4>2, <4>3
    <3>14. NumberFrom(data, pos)[i + 1] = {<<m * (More * p), i + 1 + Len(f)>>}
      <4>1. Decodes(m, j + 1)
        <5>1. j + 1 \in Nat
          OBVIOUS
        <5>. HIDE DEF Decodes, Stands
        <5>. QED
          BY <3>1, <3>13, <5>1
      <4>2. pos + (j + 1) = i + 1
        OBVIOUS
      <4>. QED
        BY <3>10, <4>1, <4>2
    <3>15. NumberFrom(data, pos)[i] =
              {<<Low(data, pos, i) + (m * (More * p)), i + 1 + Len(f)>>}
      <4>. HIDE DEF i, p, f, m
      <4>. QED
        BY <3>12, <3>14
    <3>16. Low(data, pos, i) + (m * (More * p)) = n * p
      BY <3>8, <3>9
    <3>17. i + 1 + Len(f) = i + Len(e)
      <4>. HIDE DEF e, f
      <4>. QED
        BY <2>4, <3>2, <3>5
    <3>. QED
      BY <3>15, <3>16, <3>17
  <2>7. n < More \/ n >= More
    BY <2>2
  <2>. QED
    BY <2>5, <2>6, <2>7
<1>2. Nat \subseteq T
  <2>. HIDE DEF T
  <2>. QED
    BY <1>1, CompleteInduction
<1>3. Stands(v, k)
  OBVIOUS
<1>4. Decodes(v, k)
  <2>. HIDE DEF Stands, Decodes
  <2>. QED
    BY <1>2, <1>3
<1>. QED
  BY <1>4

LEMMA VarintNotEmpty ==
    ASSUME NEW v \in Nat
    PROVE  Len(EncodeVarint(v)) \in Nat /\ Len(EncodeVarint(v)) > 0
<1>. DEFINE e == EncodeVarint(v)
<1>1. CASE v < More
  <2>1. e = <<v>>
    BY <1>1, VarintIs
  <2>. HIDE DEF e
  <2>2. Len(e) = 1
    BY <2>1
  <2>. QED
    BY <2>2 DEF e
<1>2. CASE v >= More
  <2>. DEFINE b == (v % More) + More
              f == EncodeVarint(v \div More)
  <2>1. e = <<b>> \o f
    BY <1>2, VarintIs
  <2>2. f \in Seq(Nat) /\ b \in Nat
    <3>1. v \div More \in Nat /\ v % More \in Nat
      BY MoreIs, DivRem
    <3>2. f \in Seq(Nat)
      BY <3>1, VarintIs
    <3>3. b \in Nat
      BY <3>1, MoreIs
    <3>. QED
      BY <3>2, <3>3
  <2>. HIDE DEF e, b, f
  <2>3. <<b>> \in Seq(Nat) /\ Len(<<b>>) = 1 /\ Len(f) \in Nat
    BY <2>2
  <2>4. Len(e) = 1 + Len(f)
    BY <2>1, <2>2, <2>3, ConcatProperties
  <2>5. Len(e) \in Nat /\ Len(e) > 0
    BY <2>3, <2>4
  <2>. QED
    BY <2>5 DEF e
<1>. QED
  BY <1>1, <1>2, MoreIs

LEMMA NothingToDecode == DecodeVarint(<< >>, 1) = {}
<1>. DEFINE data == << >>
            g == [i \in 1 .. Len(data) + 1 |-> {}]
<1>1. Len(data) = 0 /\ 1 \in 1 .. Len(data) + 1 /\ \A i \in 1 .. Len(data) + 1 : i > Len(data)
  OBVIOUS
<1>2. g = [i \in 1 .. Len(data) + 1 |-> NumberStep(data, 1, i, g)]
  BY <1>1 DEF NumberStep
<1>. HIDE DEF g
<1>3. NumberFrom(data, 1) =
         [i \in 1 .. Len(data) + 1 |-> NumberStep(data, 1, i, NumberFrom(data, 1))]
  BY <1>2 DEF NumberFrom
<1>4. NumberFrom(data, 1)[1] = NumberStep(data, 1, 1, NumberFrom(data, 1))
  <2>. HIDE DEF data
  <2>. QED
    BY <1>1, <1>3
<1>5. NumberFrom(data, 1)[1] = {}
  <2>. HIDE DEF data
  <2>. QED
    BY <1>1, <1>4 DEF NumberStep
<1>. QED
  BY <1>5, NumberIsFrom

\* A group and the groups above it are a multiple of its weight that fits the
\* word, when the groups above it are one of theirs.
LEMMA GroupsFit ==
    ASSUME NEW x \in Nat, NEW c \in Nat, NEW p \in Nat, NEW m \in Nat, NEW s \in Nat,
           p > 0, m > 0, s > 0, x < m, c * (m * p) < p * (m * s)
    PROVE  (p * x) + (c * (m * p)) < p * (m * s)
<1>1. c < s
  <2>1. SUFFICES ASSUME s <= c PROVE FALSE
    OBVIOUS
  <2>2. m * p \in Nat /\ p * (m * s) = s * (m * p)
    OBVIOUS
  <2>3. s * (m * p) <= c * (m * p)
    BY <2>1, <2>2
  <2>. QED
    BY <2>2, <2>3
<1>2. (c * m) + x < m * s
  <2>1. m * (c + 1) <= m * s
    BY <1>1
  <2>2. m * (c + 1) = (c * m) + m
    OBVIOUS
  <2>. QED
    BY <2>1, <2>2
<1>3. (p * x) + (c * (m * p)) = p * ((c * m) + x)
  OBVIOUS
<1>. DEFINE a == (c * m) + x
            b == m * s
<1>4. a \in Nat /\ b \in Nat /\ a < b
  BY <1>2
<1>. HIDE DEF a, b
<1>5. p * a < p * b
  BY <1>4
<1>. QED
  BY <1>3, <1>5 DEF a, b

\* The word has room for a group whose shift is below its width.
LEMMA RoomAbove ==
    ASSUME NEW j \in Nat, GroupBits * j < WordBits
    PROVE  \E r \in Nat : r > 0 /\ TwoTo[WordBits] = TwoTo[GroupBits * j] * r
<1>. DEFINE g == GroupBits * j
            d == WordBits - g
<1>1. g \in Nat /\ g < WordBits
  BY NextWeight
<1>2. d \in Nat /\ WordBits = g + d
  <2>. HIDE DEF g
  <2>. QED
    BY <1>1, MoreIs
<1>. HIDE DEF d, g
<1>3. TwoTo[WordBits] = TwoTo[g] * TwoTo[d] /\ TwoTo[d] \in Nat /\ TwoTo[d] > 0
  BY <1>1, <1>2, TwoToSum, TwoToType
<1>. QED
  BY <1>3 DEF g

\* What a group of a byte below the width leaves of it is a multiple of its weight.
LEMMA LowIs ==
    ASSUME NEW data \in Seq(Nat), NEW pos \in 1 .. Len(data), NEW j \in Nat,
           pos + j <= Len(data), GroupBits * j < WordBits
    PROVE  \E x \in Nat : /\ x < More
                          /\ Low(data, pos, pos + j) = TwoTo[GroupBits * j] * x
<1>. DEFINE p == TwoTo[GroupBits * j]
            b == data[pos + j] % More
<1>1. p \in Nat /\ p > 0
  BY NextWeight
<1>2. PICK r \in Nat : r > 0 /\ TwoTo[WordBits] = p * r
  BY RoomAbove
<1>3. b \in Nat /\ b < More
  <2>1. data[pos + j] \in Nat
    OBVIOUS
  <2>. QED
    BY <2>1, MoreIs, DivRem
<1>4. Low(data, pos, pos + j) = (b * p) % (p * r)
  <2>1. (pos + j) - pos = j
    OBVIOUS
  <2>. QED
    BY <1>2, <2>1 DEF Low
<1>. HIDE DEF p, b
<1>5. (b * p) % (p * r) = p * (b % r)
  BY <1>1, <1>2, <1>3, RemainderScaled
<1>6. b % r \in Nat /\ b % r <= b
  BY <1>2, <1>3, DivRem, RemainderAtMost
<1>7. b % r < More
  BY <1>3, <1>6, MoreIs
<1>. QED
  BY <1>4, <1>5, <1>6, <1>7 DEF p

\* A group in front makes a varint longer by a byte at most: by none, if nothing
\* but zero comes after it.
LEMMA VarintLonger ==
    ASSUME NEW c \in Nat, NEW x \in Nat, x < More
    PROVE  Len(EncodeVarint((c * More) + x)) <= 1 + Len(EncodeVarint(c))
<1>1. Len(EncodeVarint(c)) \in Nat /\ Len(EncodeVarint(c)) > 0 /\ More \in Nat /\ More > 1
  BY VarintNotEmpty, MoreIs
<1>2. CASE c = 0
  <2>1. (c * More) + x = x
    BY <1>1, <1>2
  <2>2. EncodeVarint(x) = <<x>>
    BY VarintIs
  <2>3. Len(<<x>>) = 1
    OBVIOUS
  <2>. QED
    BY <1>1, <2>1, <2>2, <2>3
<1>3. CASE c # 0
  <2>. DEFINE n == (c * More) + x
  <2>1. n \in Nat /\ n >= More
    <3>1. c * More >= More /\ c * More \in Nat
      BY <1>1, <1>3
    <3>. QED
      BY <1>1, <3>1
  <2>2. n \div More = c /\ n % More = x
    BY <1>1, RemainderOf
  <2>. HIDE DEF n
  <2>3. EncodeVarint(n) = <<x + More>> \o EncodeVarint(c)
    BY <2>1, <2>2, VarintIs
  <2>4. EncodeVarint(c) \in Seq(Nat) /\ <<x + More>> \in Seq(Nat) /\ Len(<<x + More>>) = 1
    <3>1. x + More \in Nat
      BY <1>1
    <3>2. \A b \in Nat : <<b>> \in Seq(Nat) /\ Len(<<b>>) = 1
      OBVIOUS
    <3>3. EncodeVarint(c) \in Seq(Nat)
      BY VarintIs
    <3>. QED
      BY <3>1, <3>2, <3>3
  <2>5. Len(EncodeVarint(n)) = 1 + Len(EncodeVarint(c))
    BY <2>3, <2>4, ConcatProperties
  <2>. QED
    BY <1>1, <2>5 DEF n
<1>. QED
  BY <1>2, <1>3

\* A group whose shift is below the width is one of those that a word can have.
LEMMA GroupsOfWord ==
    ASSUME NEW j \in Nat, GroupBits * j < WordBits
    PROVE  j + 1 <= (WordBits + GroupBits - 1) \div GroupBits
<1>1. \A a, b \in Nat : (a + 1) * b = (b * a) + b
  OBVIOUS
<1>2. GroupBits * j \in Nat /\ (j + 1) * GroupBits = (GroupBits * j) + GroupBits
  BY <1>1, MoreIs, NextWeight
<1>. DEFINE y == WordBits + GroupBits - 1
            g == GroupBits * j
<1>3. y \in Nat /\ g + GroupBits <= y
  <2>. HIDE DEF g
  <2>1. g \in Nat /\ g < WordBits
    BY <1>2 DEF g
  <2>. QED
    BY <2>1, MoreIs
<1>4. (j + 1) * GroupBits <= y /\ j + 1 \in Nat
  BY <1>2, <1>3
<1>. HIDE DEF y, g
<1>5. j + 1 <= y \div GroupBits
  BY <1>3, <1>4, MoreIs, QuotientBound
<1>. QED
  BY <1>5 DEF y

\* Whatever the bytes are: what is decoded from a position on is a multiple of
\* the weight there, fits the word, and ends in the packet after a byte the word
\* has a group for; its own varint is no longer than the bytes it was decoded from.
LEMMA NumbersFit ==
    ASSUME NEW data \in Seq(Nat), NEW pos \in 1 .. Len(data), NEW k \in Nat,
           pos + k <= Len(data), GroupBits * k < WordBits,
           NEW result \in NumberFrom(data, pos)[pos + k]
    PROVE  /\ \E c \in Nat : /\ result[1] = c * TwoTo[GroupBits * k]
                             /\ Len(EncodeVarint(c)) <= result[2] - (pos + k)
           /\ result[1] < TwoTo[WordBits]
           /\ result[2] \in pos + k + 1 .. Len(data) + 1
           /\ result[2] - pos <= (WordBits + GroupBits - 1) \div GroupBits
<1>. DEFINE Fits(r, j) ==
                /\ \E c \in Nat : /\ r[1] = c * TwoTo[GroupBits * j]
                                  /\ Len(EncodeVarint(c)) <= r[2] - (pos + j)
                /\ r[1] < TwoTo[WordBits]
                /\ r[2] \in pos + j + 1 .. Len(data) + 1
                /\ r[2] - pos <= (WordBits + GroupBits - 1) \div GroupBits
            Below(j) == pos + j <= Len(data) /\ GroupBits * j < WordBits
            T == {n \in Nat : \A j \in Nat : pos + j + n = Len(data) /\ Below(j) =>
                                 \A r \in NumberFrom(data, pos)[pos + j] : Fits(r, j)}
<1>1. ASSUME NEW n \in Nat, \A m \in 0 .. n - 1 : m \in T PROVE n \in T
  <2>1. SUFFICES ASSUME NEW j \in Nat, pos + j + n = Len(data), Below(j),
                        NEW r \in NumberFrom(data, pos)[pos + j]
                 PROVE  Fits(r, j)
    OBVIOUS
  <2>. DEFINE i == pos + j
              p == TwoTo[GroupBits * j]
              w == TwoTo[WordBits]
              low == Low(data, pos, i)
  <2>2. /\ i \in pos .. Len(data) /\ i \in Nat /\ i - pos = j /\ i - pos + 1 = j + 1
        /\ Len(data) \in Nat
    BY <2>1
  <2>3. p \in Nat /\ p > 0 /\ w \in Nat /\ w > 0
    BY NextWeight, MoreIs, TwoToType
  <2>4. PICK x \in Nat : x < More /\ low = p * x
    <3>1. i <= Len(data) /\ GroupBits * j < WordBits
      BY <2>1
    <3>. QED
      BY <3>1, LowIs
  <2>5. low \in Nat /\ low < w
    BY <2>2, LowType
  <2>6. j + 1 <= (WordBits + GroupBits - 1) \div GroupBits
    <3>1. GroupBits * j < WordBits
      BY <2>1
    <3>. QED
      BY <3>1, GroupsOfWord
  <2>7. CASE data[i] < More
    <3>1. r = <<low, i + 1>>
      <4>1. NumberFrom(data, pos)[i] = {<<low, i + 1>>}
        BY <2>2, <2>7, NumberAt
      <4>. QED
        BY <4>1
    <3>2. r[1] = low /\ r[2] = i + 1
      BY <3>1
    <3>3. low = x * p
      <4>. HIDE DEF p, low
      <4>. QED
        BY <2>3, <2>4
    <3>4. i + 1 \in pos + j + 1 .. Len(data) + 1 /\ i + 1 - pos = j + 1
          /\ (i + 1) - (pos + j) = 1
      BY <2>2
    <3>5. Len(EncodeVarint(x)) <= r[2] - (pos + j)
      <4>1. EncodeVarint(x) = <<x>> /\ Len(<<x>>) = 1
        BY <2>4, VarintIs
      <4>2. Len(EncodeVarint(x)) = 1
        BY <4>1
      <4>. QED
        BY <3>2, <3>4, <4>2
    <3>6. \E c \in Nat : r[1] = c * p /\ Len(EncodeVarint(c)) <= r[2] - (pos + j)
      <4>. HIDE DEF p, low
      <4>. QED
        BY <2>4, <3>2, <3>3, <3>5
    <3>. QED
      BY <2>5, <2>6, <3>2, <3>4, <3>6
  <2>8. CASE data[i] >= More
    <3>1. GroupBits * (j + 1) < WordBits
      <4>1. SUFFICES ASSUME ~(GroupBits * (j + 1) < WordBits) PROVE FALSE
        OBVIOUS
      <4>2. ~(GroupBits * (i - pos + 1) < WordBits)
        BY <2>2, <4>1
      <4>3. NumberFrom(data, pos)[i] = {}
        BY <2>2, <2>8, <4>2, NumberAt
      <4>. QED
        BY <4>3
    <3>2. PICK t \in NumberFrom(data, pos)[i + 1] : r = <<low + t[1], t[2]>>
      <4>1. GroupBits * (i - pos + 1) < WordBits
        BY <2>2, <3>1
      <4>2. NumberFrom(data, pos)[i] =
               {<<low + t[1], t[2]>> : t \in NumberFrom(data, pos)[i + 1]}
        BY <2>2, <2>8, <4>1, NumberAt
      <4>. HIDE DEF low
      <4>. QED
        BY <4>2
    <3>3. n > 0
      <4>1. SUFFICES ASSUME n = 0 PROVE FALSE
        OBVIOUS
      <4>2. i + 1 = Len(data) + 1
        BY <2>1, <4>1
      <4>3. NumberFrom(data, pos)[Len(data) + 1] = {}
        BY <2>2, NumberAt
      <4>. QED
        BY <3>2, <4>2, <4>3
    <3>4. Fits(t, j + 1)
      <4>0. n - 1 \in 0 .. n - 1
        BY <3>3
      <4>1. n - 1 \in T
        <5>. HIDE DEF T
        <5>. QED
          BY <1>1, <4>0
      <4>2. j + 1 \in Nat /\ pos + (j + 1) + (n - 1) = Len(data) /\ Below(j + 1)
            /\ pos + (j + 1) = i + 1
        <5>1. pos \in Nat /\ pos + j + n = Len(data) /\ Len(data) \in Nat
          BY <2>1
        <5>2. j + 1 \in Nat /\ pos + (j + 1) + (n - 1) = Len(data) /\ pos + (j + 1) = i + 1
              /\ pos + (j + 1) <= Len(data)
          BY <3>3, <5>1
        <5>. QED
          BY <3>1, <5>2
      <4>. HIDE DEF Fits, Below
      <4>. QED
        BY <3>2, <4>1, <4>2
    <3>5. PICK c \in Nat : /\ t[1] = c * TwoTo[GroupBits * (j + 1)]
                           /\ Len(EncodeVarint(c)) <= t[2] - (pos + (j + 1))
      BY <3>4
    <3>6. TwoTo[GroupBits * (j + 1)] = More * p
      BY NextWeight
    <3>7. t[1] = c * (More * p) /\ t[1] < w
      BY <3>4, <3>5, <3>6
    <3>8. PICK s \in Nat : s > 0 /\ w = p * (More * s)
      <4>1. PICK s \in Nat : s > 0 /\ w = (More * p) * s
        BY <3>1, <3>6, RoomAbove
      <4>2. (More * p) * s = p * (More * s)
        <5>. HIDE DEF p
        <5>. QED
          BY <2>3, MoreIs
      <4>. QED
        BY <4>1, <4>2
    <3>9. low + t[1] < w /\ low + t[1] = ((c * More) + x) * p /\ (c * More) + x \in Nat
      <4>. HIDE DEF p, w, low
      <4>1. c * (More * p) < p * (More * s)
        BY <3>7, <3>8
      <4>2. (p * x) + (c * (More * p)) < p * (More * s)
        <5>1. More \in Nat /\ More > 0 /\ p \in Nat /\ p > 0 /\ x < More /\ s > 0
          BY <2>3, <2>4, <3>8, MoreIs
        <5>. QED
          BY <4>1, <5>1, Zenon, GroupsFit
      <4>3. (p * x) + (c * (More * p)) = ((c * More) + x) * p
        BY <2>3, MoreIs
      <4>4. (c * More) + x \in Nat
        BY MoreIs
      <4>. QED
        BY <2>4, <3>7, <3>8, <4>2, <4>3, <4>4
    <3>10. r[1] = low + t[1] /\ r[2] = t[2]
      BY <3>2
    <3>11. t[2] \in pos + j + 1 .. Len(data) + 1
      <4>1. t[2] \in pos + (j + 1) + 1 .. Len(data) + 1
        BY <3>4
      <4>2. pos \in Nat /\ Len(data) \in Nat
        OBVIOUS
      <4>3. \A a, b \in Nat : \A c2 \in a + (j + 1) + 1 .. b : c2 \in a + j + 1 .. b
        OBVIOUS
      <4>. QED
        BY ONLY <4>1, <4>2, <4>3
    <3>12. t[2] - pos <= (WordBits + GroupBits - 1) \div GroupBits
      BY <3>4
    <3>13. Len(EncodeVarint((c * More) + x)) <= r[2] - (pos + j)
      <4>. DEFINE a == Len(EncodeVarint((c * More) + x))
                  b == Len(EncodeVarint(c))
      <4>1. a <= 1 + b /\ b <= t[2] - (pos + (j + 1))
        BY <2>4, <3>5, VarintLonger
      <4>2. a \in Nat /\ b \in Nat
        BY <3>9, VarintNotEmpty
      <4>3. pos \in Nat /\ t[2] \in Int
        BY <3>11
      <4>. HIDE DEF a, b
      <4>4. a <= t[2] - (pos + j)
        BY <4>1, <4>2, <4>3
      <4>. QED
        BY <3>10, <4>4 DEF a
    <3>14. \E d \in Nat : r[1] = d * p /\ Len(EncodeVarint(d)) <= r[2] - (pos + j)
      <4>. HIDE DEF p, low
      <4>. QED
        BY <3>9, <3>10, <3>13
    <3>. QED
      BY <3>9, <3>10, <3>11, <3>12, <3>14
  <2>9. data[i] < More \/ data[i] >= More
    BY <2>2, MoreIs
  <2>. QED
    BY <2>7, <2>8, <2>9
<1>2. Nat \subseteq T
  <2>. HIDE DEF T
  <2>. QED
    BY <1>1, CompleteInduction
<1>3. Len(data) - (pos + k) \in Nat /\ pos + k + (Len(data) - (pos + k)) = Len(data) /\ Below(k)
  OBVIOUS
<1>4. Fits(result, k)
  <2>. HIDE DEF Fits, Below
  <2>. QED
    BY <1>2, <1>3
<1>. QED
  BY <1>4

LEMMA VarintDecoded ==
    ASSUME NEW data \in Seq(Nat), NEW pos \in 1 .. Len(data), NEW v \in Nat,
           v < TwoTo[WordBits],
           pos + Len(EncodeVarint(v)) <= Len(data) + 1,
           \A x \in 1 .. Len(EncodeVarint(v)) : data[pos + x - 1] = EncodeVarint(v)[x]
    PROVE  DecodeVarint(data, pos) = {<<v, pos + Len(EncodeVarint(v))>>}
<1>. DEFINE z == 0
<1>1. GroupBits * z = 0 /\ TwoTo[GroupBits * z] = 1 /\ pos + z = pos /\ z \in Nat
  BY MoreIs, TwoToIs
<1>. HIDE DEF z
<1>2. v * TwoTo[GroupBits * z] = v
  <2>1. v * 1 = v
    OBVIOUS
  <2>. QED
    BY <1>1, <2>1
<1>3. NumberFrom(data, pos)[pos + z] =
         {<<v * TwoTo[GroupBits * z], pos + z + Len(EncodeVarint(v))>>}
  <2>1. v * TwoTo[GroupBits * z] < TwoTo[WordBits]
    BY <1>2
  <2>2. pos + z + Len(EncodeVarint(v)) <= Len(data) + 1
    BY <1>1
  <2>3. ASSUME NEW x \in 1 .. Len(EncodeVarint(v))
        PROVE  data[pos + z + x - 1] = EncodeVarint(v)[x]
    BY <1>1
  <2>4. z \in Nat
    BY <1>1
  <2>. QED
    BY ONLY <2>1, <2>2, <2>3, <2>4, VarintDecodes
<1>. QED
  BY <1>1, <1>2, <1>3, NumberIsFrom

\* A number of the word's width survives the varint, whatever the width and the
\* size of a group, and what is decoded of any bytes fits the word and the packet.
THEOREM VarintsExact ==
    ASSUME number \in Numbers, bytes \in Seq(0 .. FullCode)
    PROVE  VarintsDecode
<1>1. number \in Nat /\ number < TwoTo[WordBits]
  <2>1. TwoTo[WordBits] \in Nat
    BY MoreIs, TwoToType
  <2>. QED
    BY <2>1 DEF Numbers
<1>2. ASSUME NEW before \in {<< >>, << 0 >>}, NEW after \in {<< >>, << 0 >>}
      PROVE  DecodeVarint(before \o EncodeVarint(number) \o after, Len(before) + 1)
                 = {<<number, Len(before) + Len(EncodeVarint(number)) + 1>>}
  <2>. DEFINE e == EncodeVarint(number)
              data == before \o e \o after
              pos == Len(before) + 1
  <2>1. /\ before \in Seq(Nat) /\ after \in Seq(Nat)
        /\ Len(before) \in Nat /\ Len(after) \in Nat
    <3>1. \A s \in {<< >>, << 0 >>} : s \in Seq(Nat) /\ Len(s) \in Nat
      <4>1. << >> \in Seq(Nat) /\ Len(<< >>) \in Nat
        OBVIOUS
      <4>2. << 0 >> \in Seq(Nat) /\ Len(<< 0 >>) \in Nat
        OBVIOUS
      <4>. QED
        BY <4>1, <4>2
    <3>. QED
      BY <3>1
  <2>2. e \in Seq(Nat)
    BY <1>1, VarintIs
  <2>3. Len(e) \in Nat /\ Len(e) > 0
    BY <1>1, VarintNotEmpty
  <2>4. /\ data \in Seq(Nat)
        /\ Len(data) = Len(before) + Len(e) + Len(after)
        /\ \A x \in 1 .. Len(e) : data[Len(before) + x] = e[x]
    <3>. HIDE DEF e
    <3>. QED
      BY <2>1, <2>2, <2>3
  <2>5. /\ pos \in 1 .. Len(data) /\ pos + Len(e) <= Len(data) + 1
        /\ \A x \in 1 .. Len(e) : data[pos + x - 1] = e[x]
    <3>. HIDE DEF e, data
    <3>1. pos \in 1 .. Len(data) /\ pos + Len(e) <= Len(data) + 1
      BY ONLY <2>1, <2>3, <2>4
    <3>2. ASSUME NEW x \in 1 .. Len(e) PROVE data[pos + x - 1] = e[x]
      <4>1. pos + x - 1 = Len(before) + x
        BY ONLY <2>1, <2>3, <3>2
      <4>. QED
        BY <2>4, <4>1
    <3>. QED
      BY <3>1, <3>2
  <2>8. DecodeVarint(data, pos) = {<<number, pos + Len(e)>>}
    <3>. HIDE DEF data, pos
    <3>. QED
      BY <1>1, <2>4, <2>5, VarintDecoded
  <2>9. pos + Len(e) = Len(before) + Len(e) + 1
    <3>. HIDE DEF e
    <3>. QED
      BY <2>1, <2>3
  <2>. QED
    BY <2>8, <2>9
<1>3. ASSUME NEW r \in DecodeVarint(bytes, 1)
      PROVE  /\ r[1] < TwoTo[WordBits]
             /\ r[2] \in 2 .. Len(bytes) + 1
             /\ r[2] - 1 <= (WordBits + GroupBits - 1) \div GroupBits
  <2>1. bytes \in Seq(Nat) /\ Len(bytes) \in Nat
    BY CodecAssumption
  <2>2. r \in NumberFrom(bytes, 1)[1]
    BY NumberIsFrom
  <2>3. Len(bytes) > 0
    <3>1. SUFFICES ASSUME bytes = << >> PROVE FALSE
      BY <2>1
    <3>2. DecodeVarint(bytes, 1) = {}
      BY <3>1, NothingToDecode
    <3>. QED
      BY <3>2
  <2>. DEFINE z == 0
              pos == 1
  <2>4. /\ z \in Nat /\ pos \in 1 .. Len(bytes) /\ pos + z <= Len(bytes)
        /\ GroupBits * z < WordBits /\ r \in NumberFrom(bytes, pos)[pos + z]
        /\ pos + z + 1 = 2
    BY <2>1, <2>2, <2>3, MoreIs
  <2>. HIDE DEF z, pos
  <2>5. /\ r[1] < TwoTo[WordBits]
        /\ r[2] \in pos + z + 1 .. Len(bytes) + 1
        /\ r[2] - pos <= (WordBits + GroupBits - 1) \div GroupBits
    BY <2>1, <2>4, NumbersFit
  <2>. QED
    BY <2>4, <2>5 DEF pos
<1>. QED
  BY <1>2, <1>3, Zenon DEF VarintsDecode

-----------------------------------------------------------------------------
(* Protobuf messages: numbers.                                             *)

LEMMA WidthsAreNumbers ==
    /\ ByteBits \in Nat /\ ByteBits > 0
    /\ ByteValues \in Nat /\ ByteValues > 1
    /\ Fixed32Bytes \in Nat /\ Fixed32Bytes > 0
    /\ Fixed64Bytes \in Nat /\ Fixed64Bytes > 0
<1>1. ByteBits \in Nat /\ ByteBits > 0
  BY MoreIs DEF ByteBits
<1>2. ByteValues \in Nat /\ ByteValues > ByteBits
  BY <1>1, TwoToType DEF ByteValues
<1>. QED
  BY <1>1, <1>2, EncodingAssumption

\* Dividing by a product is dividing by its factors in turn.
LEMMA QuotientOfQuotient ==
    ASSUME NEW v \in Nat, NEW a \in Nat, NEW b \in Nat, a > 0, b > 0
    PROVE  v \div (a * b) = (v \div a) \div b
<1>. DEFINE q == v \div a
            s == v % a
            t == q \div b
            u == q % b
<1>1. q \in Nat /\ s \in Nat /\ s < a /\ v = (q * a) + s
  BY DivRem
<1>2. t \in Nat /\ u \in Nat /\ u < b /\ q = (t * b) + u
  <2>. HIDE DEF q
  <2>. QED
    BY <1>1, DivRem
<1>. HIDE DEF q, s, t, u
<1>. DEFINE m == a * b
            e == (u * a) + s
<1>3. v = (t * m) + e
  <2>1. ((t * b) + u) * a = (t * (a * b)) + (u * a)
    BY <1>1, <1>2
  <2>. QED
    BY <1>1, <1>2, <2>1
<1>4. m \in Nat /\ e \in Nat
  BY <1>1, <1>2
<1>5. e < m
  <2>1. (u + 1) * a <= b * a
    BY <1>2
  <2>2. (u + 1) * a = (u * a) + a
    BY <1>2
  <2>3. b * a = a * b
    OBVIOUS
  <2>4. (u * a) + a <= m
    BY <2>1, <2>2, <2>3
  <2>5. u * a \in Nat
    BY <1>2
  <2>. DEFINE x == u * a
  <2>. HIDE DEF m, x
  <2>6. x + s < m
    BY <1>1, <1>4, <2>4, <2>5 DEF x
  <2>. QED
    BY <2>6 DEF x
<1>. HIDE DEF m, e
<1>6. ((t * m) + e) \div m = t
  BY <1>2, <1>4, <1>5, RemainderOf
<1>7. v \div m = t
  BY <1>3, <1>6
<1>. QED
  BY <1>7 DEF m, t, q

\* The weight of a byte, and of the bytes up to one.
LEMMA ByteWeight ==
    ASSUME NEW j \in Nat
    PROVE  /\ ByteBits * j \in Nat /\ ByteBits * (j + 1) \in Nat
           /\ TwoTo[ByteBits * (j + 1)] = TwoTo[ByteBits * j] * ByteValues
           /\ TwoTo[ByteBits * j] \in Nat /\ TwoTo[ByteBits * j] > 0
<1>1. \A a, b \in Nat : a * b \in Nat /\ a * (b + 1) \in Nat /\ a * (b + 1) = a * b + a
  OBVIOUS
<1>2. /\ ByteBits * j \in Nat /\ ByteBits * (j + 1) \in Nat
      /\ ByteBits * (j + 1) = ByteBits * j + ByteBits
  BY <1>1, WidthsAreNumbers
<1>3. TwoTo[ByteBits * j + ByteBits] = TwoTo[ByteBits * j] * TwoTo[ByteBits]
  BY <1>2, WidthsAreNumbers, TwoToSum
<1>4. TwoTo[ByteBits * j] \in Nat /\ TwoTo[ByteBits * j] > 0
  BY <1>2, TwoToType
<1>. QED
  BY <1>2, <1>3, <1>4, Zenon DEF ByteValues

-----------------------------------------------------------------------------
(* Fixed fields.                                                           *)

FixedStep(b, k, from) == IF k > Len(b) THEN 0 ELSE b[k] + ByteValues * from[k + 1]
FixedFrom(b) == CHOOSE from : from = [k \in 1 .. Len(b) + 1 |-> FixedStep(b, k, from)]

LEMMA FixedIsFrom ==
    ASSUME NEW b
    PROVE  FromLittleEndian(b) = FixedFrom(b)[1]
  BY DEF FromLittleEndian, FixedFrom, FixedStep

LEMMA FixedStepType ==
    ASSUME NEW b \in Seq(Nat), NEW k \in 1 .. Len(b) + 1, NEW from \in [1 .. Len(b) + 1 -> Nat]
    PROVE  FixedStep(b, k, from) \in Nat
<1>1. CASE k > Len(b)
  BY <1>1 DEF FixedStep
<1>2. CASE ~(k > Len(b))
  <2>1. b[k] \in Nat /\ from[k + 1] \in Nat
    BY <1>2
  <2>2. \A x, y, z \in Nat : x + y * z \in Nat
    OBVIOUS
  <2>3. b[k] + ByteValues * from[k + 1] \in Nat
    BY <2>1, <2>2, WidthsAreNumbers
  <2>. QED
    BY <1>2, <2>3 DEF FixedStep
<1>. QED
  BY <1>1, <1>2

LEMMA FixedFromIs ==
    ASSUME NEW b \in Seq(Nat)
    PROVE  /\ FixedFrom(b)[Len(b) + 1] = 0
           /\ \A k \in 1 .. Len(b) : FixedFrom(b)[k] = b[k] + ByteValues * FixedFrom(b)[k + 1]
<1>. DEFINE N == Len(b) + 1
            S == 1 .. N
            rank == [k \in S |-> N - k]
            Step == [k \in S |-> [g \in [S -> Nat] |-> FixedStep(b, k, g)]]
<1>1. Len(b) \in Nat /\ N \in Nat /\ rank \in [S -> 0 .. N]
  OBVIOUS
<1>2. Step \in [S -> [[S -> Nat] -> Nat]]
  BY FixedStepType
<1>3. ASSUME NEW k \in S, NEW g \in [S -> Nat], NEW h \in [S -> Nat],
             \A j \in S : rank[j] < rank[k] => g[j] = h[j]
      PROVE  Step[k][g] = Step[k][h]
  <2>1. CASE k > Len(b)
    BY <2>1 DEF FixedStep
  <2>2. CASE ~(k > Len(b))
    <3>1. k + 1 \in S /\ rank[k + 1] < rank[k]
      BY <1>1, <2>2
    <3>2. g[k + 1] = h[k + 1]
      BY <1>3, <3>1
    <3>. QED
      BY <3>2 DEF FixedStep
  <2>. QED
    BY <2>1, <2>2
<1>4. \E f \in [S -> Nat] : f = [k \in S |-> Step[k][f]]
  <2>1. Computes(Step, rank, N, S, Nat)
    <3>. HIDE DEF S, N, rank, Step
    <3>. QED
      BY <1>1, <1>2, <1>3 DEF Computes
  <2>2. Nat # {}
    OBVIOUS
  <2>. HIDE DEF S, N, rank, Step
  <2>. QED
    BY ONLY <2>1, <2>2, Recursion, SMTT(60)
<1>5. \E f : f = [k \in S |-> FixedStep(b, k, f)]
  BY <1>4
<1>6. FixedFrom(b) = [k \in S |-> FixedStep(b, k, FixedFrom(b))]
  BY <1>5 DEF FixedFrom
<1>7. \A k \in S : FixedFrom(b)[k] = FixedStep(b, k, FixedFrom(b))
  <2>. HIDE DEF S
  <2>. QED
    BY <1>6
<1>8. N \in S /\ N > Len(b) /\ \A k \in 1 .. Len(b) : k \in S /\ ~(k > Len(b))
  BY <1>1
<1>. HIDE DEF S
<1>. QED
  BY <1>7, <1>8 DEF FixedStep

\* The bytes of a message.
MessageByte == 0 .. ByteValues - 1
MessageBytes == Seq(MessageByte)

LEMMA MessageBytesAre ==
    ASSUME NEW b \in MessageBytes
    PROVE  /\ b \in Seq(Nat) /\ Len(b) \in Nat
           /\ \A k \in 1 .. Len(b) : b[k] \in Nat /\ b[k] < ByteValues
<1>1. \A x \in 0 .. ByteValues - 1 : x \in Nat /\ x < ByteValues
  BY WidthsAreNumbers
<1>2. Len(b) \in Nat /\ \A k \in 1 .. Len(b) : b[k] \in MessageByte
  BY DEF MessageBytes
<1>3. MessageByte \subseteq Nat
  BY <1>1 DEF MessageByte
<1>4. b \in Seq(Nat)
  BY <1>3, SeqMonotonic DEF MessageBytes
<1>. QED
  BY <1>1, <1>2, <1>4 DEF MessageByte

\* What some bytes stand for fits them.
LEMMA FixedFits ==
    ASSUME NEW b \in MessageBytes
    PROVE  FromLittleEndian(b) \in Nat /\ FromLittleEndian(b) < TwoTo[ByteBits * Len(b)]
<1>. DEFINE F(k) == FixedFrom(b)[k]
            W(k) == TwoTo[ByteBits * (Len(b) + 1 - k)]
            T == {k \in 1 .. Len(b) + 1 : F(k) \in Nat /\ F(k) < W(k)}
<1>1. Len(b) \in Nat /\ b \in Seq(Nat)
  BY MessageBytesAre
<1>2. Len(b) + 1 \in T
  <2>1. Len(b) + 1 - (Len(b) + 1) = 0 /\ 0 \in Nat
    BY <1>1
  <2>2. W(Len(b) + 1) > 0 /\ W(Len(b) + 1) \in Nat
    BY <2>1, ByteWeight
  <2>3. F(Len(b) + 1) = 0
    BY <1>1, FixedFromIs
  <2>. HIDE DEF W, F
  <2>. QED
    BY <1>1, <2>2, <2>3
<1>3. ASSUME NEW k \in 1 + 1 .. Len(b) + 1, k \in T PROVE k - 1 \in T
  <2>. DEFINE j == k - 1
  <2>1. j \in 1 .. Len(b) /\ j + 1 = k /\ j \in 1 .. Len(b) + 1
    BY <1>1, <1>3
  <2>2. F(j) = b[j] + ByteValues * F(k)
    BY <1>1, <2>1, FixedFromIs
  <2>3. W(j) = W(k) * ByteValues /\ W(k) \in Nat
    <3>1. Len(b) + 1 - k \in Nat /\ (Len(b) + 1 - k) + 1 = Len(b) + 1 - j
      BY <1>1, <1>3
    <3>. HIDE DEF j
    <3>. QED
      BY <3>1, ByteWeight
  <2>4. b[j] \in Nat /\ b[j] < ByteValues /\ F(k) \in Nat /\ F(k) < W(k)
    BY <1>3, <2>1, MessageBytesAre
  <2>. HIDE DEF F, W, j
  <2>5. \A x, y, w, m \in Nat : x < m /\ y < w => x + m * y \in Nat /\ x + m * y < w * m
    <3>. TAKE x, y, w, m \in Nat
    <3>. HAVE x < m /\ y < w
    <3>1. m * (y + 1) <= m * w
      OBVIOUS
    <3>2. m * (y + 1) = m * y + m /\ m * w = w * m
      OBVIOUS
    <3>3. m * y \in Nat
      OBVIOUS
    <3>. QED
      BY <3>1, <3>2, <3>3
  <2>6. F(j) \in Nat /\ F(j) < W(j)
    BY <2>2, <2>3, <2>4, <2>5, WidthsAreNumbers
  <2>. QED
    BY <2>1, <2>6 DEF j
<1>4. 1 .. Len(b) + 1 \subseteq T
  <2>1. 1 \in Int /\ Len(b) + 1 \in Int /\ (1 <= Len(b) + 1 => Len(b) + 1 \in T)
    BY <1>1, <1>2
  <2>. HIDE DEF T
  <2>. QED
    BY <1>3, <2>1, DownwardInduction
<1>5. 1 \in T /\ Len(b) + 1 - 1 = Len(b)
  BY <1>1, <1>4
<1>. QED
  BY <1>5, FixedIsFrom

\* A number that fits its bytes is read back from them.
LEMMA FixedReadsBack ==
    ASSUME NEW n \in Nat, NEW v \in Nat, v < TwoTo[ByteBits * n]
    PROVE  /\ LittleEndian(v, n) \in Seq(Nat) /\ Len(LittleEndian(v, n)) = n
           /\ FromLittleEndian(LittleEndian(v, n)) = v
<1>. DEFINE b == LittleEndian(v, n)
            W(k) == TwoTo[ByteBits * (k - 1)]
            T == {k \in 1 .. n + 1 : FixedFrom(b)[k] = v \div W(k)}
<1>1. ASSUME NEW k \in 1 .. n + 1
      PROVE  /\ W(k) \in Nat /\ W(k) > 0 /\ W(k + 1) = W(k) * ByteValues
             /\ v \div W(k) \in Nat /\ (v \div W(k)) % ByteValues \in Nat
             /\ v \div W(k + 1) = (v \div W(k)) \div ByteValues
  <2>1. k - 1 \in Nat /\ (k - 1) + 1 = (k + 1) - 1
    OBVIOUS
  <2>2. W(k) \in Nat /\ W(k) > 0 /\ W(k + 1) = W(k) * ByteValues
    BY <2>1, ByteWeight
  <2>. HIDE DEF W
  <2>3. v \div W(k) \in Nat
    BY <2>2, DivRem
  <2>4. (v \div W(k)) % ByteValues \in Nat
    BY <2>3, WidthsAreNumbers, DivRem
  <2>5. v \div (W(k) * ByteValues) = (v \div W(k)) \div ByteValues
    BY <2>2, WidthsAreNumbers, QuotientOfQuotient
  <2>. QED
    BY <2>2, <2>3, <2>4, <2>5
<1>2. b = [k \in 1 .. n |-> (v \div W(k)) % ByteValues]
  BY DEF LittleEndian
<1>. HIDE DEF b
<1>3. b \in Seq(Nat) /\ Len(b) = n
  <2>1. \A k \in 1 .. n : (v \div W(k)) % ByteValues \in Nat
    <3>. HIDE DEF W
    <3>1. \A k \in 1 .. n : k \in 1 .. n + 1
      OBVIOUS
    <3>. QED
      BY <1>1, <3>1
  <2>. HIDE DEF W
  <2>. QED
    BY <1>2, <2>1
<1>4. n + 1 \in T
  <2>1. v \div W(n + 1) = 0
    <3>1. W(n + 1) = TwoTo[ByteBits * n]
      <4>1. (n + 1) - 1 = n
        OBVIOUS
      <4>. QED
        BY <4>1
    <3>2. n + 1 \in 1 .. n + 1
      OBVIOUS
    <3>. HIDE DEF W
    <3>3. W(n + 1) \in Nat /\ v < W(n + 1)
      BY <1>1, <3>1, <3>2
    <3>. QED
      BY <3>3, QuotientOfSmall
  <2>2. FixedFrom(b)[n + 1] = 0
    BY <1>3, FixedFromIs
  <2>. HIDE DEF W
  <2>. QED
    BY <2>1, <2>2
<1>5. ASSUME NEW k \in 1 + 1 .. n + 1, k \in T PROVE k - 1 \in T
  <2>. DEFINE j == k - 1
  <2>1. j \in 1 .. n /\ j + 1 = k /\ j \in 1 .. n + 1
    BY <1>5
  <2>. HIDE DEF j, W
  <2>2. FixedFrom(b)[j] = b[j] + ByteValues * FixedFrom(b)[k]
    BY <1>3, <2>1, FixedFromIs
  <2>3. b[j] = (v \div W(j)) % ByteValues
    BY <1>2, <2>1
  <2>4. FixedFrom(b)[k] = (v \div W(j)) \div ByteValues
    BY <1>1, <1>5, <2>1
  <2>5. v \div W(j) \in Nat
    BY <1>1, <2>1
  <2>6. \A q, m \in Nat : m > 0 => (q % m) + m * (q \div m) = q
    <3>. TAKE q, m \in Nat
    <3>. HAVE m > 0
    <3>1. q \div m \in Nat /\ q % m \in Nat /\ q = ((q \div m) * m) + (q % m)
      BY DivRem
    <3>. QED
      BY <3>1
  <2>7. FixedFrom(b)[j] = v \div W(j)
    <3>. DEFINE q == v \div W(j)
    <3>1. q \in Nat
      BY <2>5
    <3>2. FixedFrom(b)[j] = (q % ByteValues) + ByteValues * (q \div ByteValues)
      BY <2>2, <2>3, <2>4
    <3>. HIDE DEF q
    <3>3. (q % ByteValues) + ByteValues * (q \div ByteValues) = q
      BY <2>6, <3>1, WidthsAreNumbers
    <3>4. FixedFrom(b)[j] = q
      BY <3>2, <3>3
    <3>. QED
      BY <3>4 DEF q
  <2>. QED
    BY <2>1, <2>7 DEF j
<1>6. 1 .. n + 1 \subseteq T
  <2>1. 1 \in Int /\ n + 1 \in Int /\ (1 <= n + 1 => n + 1 \in T)
    BY <1>4
  <2>. HIDE DEF T
  <2>. QED
    BY <1>5, <2>1, DownwardInduction
<1>7. FixedFrom(b)[1] = v \div W(1)
  <2>1. 1 \in 1 .. n + 1
    OBVIOUS
  <2>. HIDE DEF W
  <2>. QED
    BY <1>6, <2>1
<1>8. W(1) = 1 /\ v \div 1 = v
  <2>1. 1 - 1 = 0 /\ ByteBits * 0 = 0
    BY WidthsAreNumbers
  <2>2. W(1) = 1
    BY <2>1, TwoToIs
  <2>. HIDE DEF W
  <2>. QED
    BY <2>2
<1>9. FromLittleEndian(b) = v
  <2>. HIDE DEF W
  <2>. QED
    BY <1>7, <1>8, FixedIsFrom
<1>. QED
  BY <1>3, <1>9 DEF b

-----------------------------------------------------------------------------
(* Numbers that are read.                                                  *)

\* What a varint is made of are bytes of a message.
LEMMA VarintBytes ==
    ASSUME NEW v \in Nat
    PROVE  EncodeVarint(v) \in MessageBytes
<1>. DEFINE T == {n \in Nat : EncodeVarint(n) \in MessageBytes}
<1>0. ByteValues = 2 * More
  BY MoreIs, TwoToIs DEF ByteValues, ByteBits, More
<1>1. ASSUME NEW n \in Nat, \A m \in 0 .. n - 1 : m \in T PROVE n \in T
  <2>1. CASE n < More
    <3>1. EncodeVarint(n) = <<n>>
      BY <2>1, VarintIs
    <3>2. n \in MessageByte
      BY <1>0, <2>1, MoreIs DEF MessageByte
    <3>. QED
      BY <3>1, <3>2 DEF MessageBytes
  <2>2. CASE n >= More
    <3>. DEFINE b == (n % More) + More
                f == EncodeVarint(n \div More)
    <3>1. EncodeVarint(n) = <<b>> \o f
      BY <2>2, VarintIs
    <3>2. b \in MessageByte
      <4>1. n % More \in Nat /\ n % More < More
        BY MoreIs, DivRem
      <4>. QED
        BY <1>0, <4>1, MoreIs DEF MessageByte
    <3>3. f \in MessageBytes
      <4>1. n \div More \in 0 .. n - 1
        BY <2>2, MoreIs, DivSmaller
      <4>. QED
        BY <1>1, <4>1
    <3>. HIDE DEF b, f
    <3>4. <<b>> \in MessageBytes
      BY <3>2 DEF MessageBytes
    <3>. QED
      BY <3>1, <3>3, <3>4, ConcatProperties DEF MessageBytes
  <2>. QED
    BY <2>1, <2>2, MoreIs
<1>2. Nat \subseteq T
  <2>. HIDE DEF T
  <2>. QED
    BY <1>1, CompleteInduction
<1>. QED
  BY <1>2

\* The last byte of a varint is what its number has in the topmost group.
LEMMA LastOfVarint ==
    ASSUME NEW v \in Nat
    PROVE  /\ EncodeVarint(v)[Len(EncodeVarint(v))] \in Nat
           /\ EncodeVarint(v)[Len(EncodeVarint(v))]
                 * TwoTo[GroupBits * (Len(EncodeVarint(v)) - 1)] <= v
<1>. DEFINE Topmost(n) == EncodeVarint(n)[Len(EncodeVarint(n))]
            Top(n) == TwoTo[GroupBits * (Len(EncodeVarint(n)) - 1)]
            T == {n \in Nat : Topmost(n) \in Nat /\ Topmost(n) * Top(n) <= n}
<1>1. ASSUME NEW n \in Nat, \A m \in 0 .. n - 1 : m \in T PROVE n \in T
  <2>1. CASE n < More
    <3>1. EncodeVarint(n) = <<n>>
      BY <2>1, VarintIs
    <3>2. Len(<<n>>) = 1 /\ <<n>>[1] = n /\ 1 - 1 = 0 /\ GroupBits * 0 = 0
      BY MoreIs
    <3>3. Topmost(n) = n /\ Top(n) = 1
      BY <3>1, <3>2, TwoToIs
    <3>. HIDE DEF Topmost, Top
    <3>. QED
      BY <3>3
  <2>2. CASE n >= More
    <3>. DEFINE b == (n % More) + More
                q == n \div More
                e == EncodeVarint(n)
                f == EncodeVarint(q)
    <3>1. e = <<b>> \o f
      BY <2>2, VarintIs
    <3>2. b \in Nat /\ q \in 0 .. n - 1 /\ q \in Nat /\ q * More <= n
      <4>1. n % More \in Nat /\ q \in Nat /\ n = (q * More) + (n % More)
        BY MoreIs, DivRem
      <4>2. q \in 0 .. n - 1
        BY <2>2, MoreIs, DivSmaller
      <4>3. q * More \in Nat
        BY <4>1, MoreIs
      <4>. HIDE DEF q
      <4>. QED
        BY <4>1, <4>2, <4>3, MoreIs
    <3>3. f \in Seq(Nat) /\ Len(f) \in Nat /\ Len(f) > 0
      <4>. HIDE DEF q
      <4>. QED
        BY <3>2, VarintIs, VarintNotEmpty
    <3>4. Topmost(q) \in Nat /\ Topmost(q) * Top(q) <= q
      <4>. HIDE DEF Topmost, Top, q
      <4>. QED
        BY <1>1, <3>2
    <3>5. Len(e) = Len(f) + 1 /\ e[Len(e)] = f[Len(f)]
      <4>. HIDE DEF e, f, b
      <4>1. <<b>> \in Seq(Nat) /\ Len(<<b>>) = 1
        BY <3>2
      <4>2. /\ Len(e) = 1 + Len(f)
            /\ \A i \in 1 .. 1 + Len(f) : e[i] = IF i <= 1 THEN <<b>>[i] ELSE f[i - 1]
        BY <3>1, <3>3, <4>1, ConcatProperties
      <4>3. Len(e) \in 1 .. 1 + Len(f) /\ ~(Len(e) <= 1) /\ Len(e) - 1 = Len(f)
        BY <3>3, <4>2
      <4>. QED
        BY <3>3, <4>2, <4>3
    <3>6. Topmost(n) = Topmost(q)
      BY <3>5
    <3>7. Top(n) = More * Top(q) /\ Top(q) \in Nat
      <4>1. Len(f) - 1 \in Nat /\ (Len(f) - 1) + 1 = Len(e) - 1
        <5>. HIDE DEF e, f
        <5>. QED
          BY <3>3, <3>5
      <4>2. TwoTo[GroupBits * ((Len(f) - 1) + 1)] = More * TwoTo[GroupBits * (Len(f) - 1)]
            /\ TwoTo[GroupBits * (Len(f) - 1)] \in Nat
        <5>. HIDE DEF f
        <5>. QED
          BY <4>1, NextWeight
      <4>. QED
        BY <4>1, <4>2
    <3>. DEFINE l == Topmost(q)
                t == Top(q)
    <3>8. l * (More * t) <= q * More /\ l * (More * t) \in Nat
      <4>1. l \in Nat /\ t \in Nat /\ l * t <= q /\ q \in Nat /\ More \in Nat
        BY <3>2, <3>4, <3>7, MoreIs
      <4>. HIDE DEF l, t, q
      <4>2. (l * t) * More <= q * More
        BY <4>1
      <4>3. (l * t) * More = l * (More * t)
        BY <4>1
      <4>. QED
        BY <4>1, <4>2, <4>3
    <3>9. Topmost(n) \in Nat /\ Topmost(n) * Top(n) <= n
      <4>1. Topmost(n) = l /\ Top(n) = More * t
        BY <3>6, <3>7
      <4>2. q * More \in Nat /\ l \in Nat
        <5>. HIDE DEF q, l
        <5>1. l \in Nat
          BY <3>4 DEF l
        <5>. QED
          BY <3>2, <5>1, MoreIs
      <4>3. l * (More * t) <= n
        <5>. HIDE DEF l, t, q
        <5>. QED
          BY <3>2, <3>8, <4>2
      <4>. HIDE DEF Topmost, Top, l, t
      <4>. QED
        BY <4>1, <4>2, <4>3
    <3>. HIDE DEF Topmost, Top
    <3>. QED
      BY <3>9
  <2>. QED
    BY <2>1, <2>2, MoreIs
<1>2. Nat \subseteq T
  <2>. HIDE DEF T
  <2>. QED
    BY <1>1, CompleteInduction
<1>. QED
  BY <1>2

\* Where a sequence stands in another.
StandsAt(d, pos, e) ==
    /\ pos + Len(e) <= Len(d) + 1
    /\ \A x \in 1 .. Len(e) : d[pos + x - 1] = e[x]

LEMMA MaxVarintIs ==
    /\ MaxVarintLen \in Nat /\ MaxVarintLen > 0
    /\ GroupBits * (MaxVarintLen - 1) \in Nat
    /\ GroupBits * (MaxVarintLen - 1) < WordBits
<1>. DEFINE y == WordBits + GroupBits - 1
            m == y \div GroupBits
            s == y % GroupBits
<1>1. y \in Nat /\ y >= GroupBits
  BY MoreIs
<1>2. m \in Nat /\ s \in Nat /\ y = (m * GroupBits) + s
  <2>. HIDE DEF y
  <2>. QED
    BY <1>1, MoreIs, DivRem
<1>3. m >= 1
  <2>1. 1 * GroupBits <= y
    BY <1>1, MoreIs
  <2>. HIDE DEF y
  <2>. QED
    BY <1>1, <2>1, MoreIs, QuotientBound
<1>. HIDE DEF m, s
<1>4. GroupBits * (m - 1) = (m * GroupBits) - GroupBits /\ m * GroupBits \in Nat
  BY <1>2, MoreIs
<1>5. GroupBits * (m - 1) \in Nat
  <2>1. m - 1 \in Nat
    BY <1>2, <1>3
  <2>. QED
    BY <2>1, MoreIs
<1>6. (m * GroupBits) - GroupBits < WordBits
  <2>. DEFINE x == m * GroupBits
  <2>1. x \in Nat /\ y = x + s
    BY <1>2, <1>4
  <2>. HIDE DEF x
  <2>2. x <= WordBits + GroupBits - 1
    BY <1>2, <2>1, MoreIs
  <2>3. x - GroupBits < WordBits
    BY <2>1, <2>2, MoreIs
  <2>. QED
    BY <2>3 DEF x
<1>7. MaxVarintLen = m
  BY DEF MaxVarintLen, m
<1>. QED
  BY <1>2, <1>3, <1>4, <1>5, <1>6, <1>7

\* Uvarint reads a number of the word's width where its varint stands.
LEMMA UvarintReads ==
    ASSUME NEW d \in Seq(Nat), NEW pos \in 1 .. Len(d), NEW v \in Nat, v < TwoTo[WordBits],
           StandsAt(d, pos, EncodeVarint(v))
    PROVE  Uvarint(d, pos) = {<<v, pos + Len(EncodeVarint(v))>>}
<1>. DEFINE n == Len(EncodeVarint(v))
            r == <<v, pos + n>>
<1>1. DecodeVarint(d, pos) = {r}
  BY VarintDecoded DEF StandsAt
<1>2. n \in Nat /\ n > 0
  BY VarintNotEmpty
<1>3. n <= MaxVarintLen
  <2>. DEFINE z == 0
  <2>1. /\ z \in Nat /\ pos + z <= Len(d) /\ GroupBits * z < WordBits
        /\ pos + z = pos
    BY MoreIs
  <2>2. r \in NumberFrom(d, pos)[pos + z]
    <3>. HIDE DEF z, r
    <3>. QED
      BY <1>1, <2>1, NumberIsFrom
  <2>. HIDE DEF z
  <2>3. r[2] - pos <= (WordBits + GroupBits - 1) \div GroupBits
    <3>. HIDE DEF r
    <3>. QED
      BY <2>1, <2>2, NumbersFit
  <2>4. r[2] - pos = n
    <3>. HIDE DEF n
    <3>. QED
      BY <1>2
  <2>. HIDE DEF r, n
  <2>. QED
    BY <2>3, <2>4 DEF MaxVarintLen
<1>4. ASSUME n = MaxVarintLen
      PROVE  d[pos + n - 1] < TwoTo[WordBits - GroupBits * (MaxVarintLen - 1)]
  <2>. DEFINE l == EncodeVarint(v)[n]
              g == GroupBits * (MaxVarintLen - 1)
              w == WordBits - g
  <2>1. d[pos + n - 1] = l
    <3>1. n \in 1 .. n
      BY <1>2
    <3>. QED
      BY <3>1 DEF StandsAt
  <2>2. l \in Nat /\ l * TwoTo[g] <= v
    <3>1. n - 1 = MaxVarintLen - 1
      BY <1>4
    <3>. QED
      BY <3>1, LastOfVarint
  <2>3. g \in Nat /\ w \in Nat /\ g + w = WordBits
    <3>1. g \in Nat /\ g < WordBits
      BY MaxVarintIs
    <3>. HIDE DEF g
    <3>. QED
      BY <3>1, MoreIs
  <2>. HIDE DEF l, g, w, n
  <2>4. /\ TwoTo[WordBits] = TwoTo[g] * TwoTo[w]
        /\ TwoTo[g] \in Nat /\ TwoTo[w] \in Nat /\ TwoTo[g] > 0
    <3>1. TwoTo[g + w] = TwoTo[g] * TwoTo[w]
      BY <2>3, TwoToSum
    <3>2. TwoTo[g] \in Nat /\ TwoTo[w] \in Nat /\ TwoTo[g] > 0
      BY <2>3, TwoToType
    <3>. QED
      BY <2>3, <3>1, <3>2
  <2>5. l < TwoTo[w]
    <3>. DEFINE a == TwoTo[g]
                c == TwoTo[w]
    <3>1. a \in Nat /\ c \in Nat /\ a > 0 /\ l * a < a * c
      <4>1. l * a \in Nat /\ a * c \in Nat
        <5>. HIDE DEF a, c
        <5>1. a \in Nat /\ c \in Nat
          BY <2>4 DEF a, c
        <5>. QED
          BY <2>2, <5>1
      <4>. QED
        BY <2>2, <2>4, <4>1
    <3>. HIDE DEF a, c
    <3>2. ~(c <= l)
      <4>1. SUFFICES ASSUME c <= l PROVE FALSE
        OBVIOUS
      <4>2. c * a <= l * a
        BY <2>2, <3>1, <4>1
      <4>3. c * a = a * c /\ a * c \in Nat /\ l * a \in Nat
        BY <2>2, <3>1
      <4>. QED
        BY <3>1, <4>2, <4>3
    <3>3. l < c
      BY <2>2, <3>1, <3>2
    <3>. QED
      BY <3>3 DEF c
  <2>. QED
    BY <2>1, <2>5 DEF w, g
<1>5. r \in Uvarint(d, pos)
  <2>1. r[2] - pos = n /\ r[2] - 1 = pos + n - 1
    <3>. HIDE DEF n
    <3>. QED
      BY <1>2
  <2>. HIDE DEF r, n
  <2>. QED
    BY <1>1, <1>3, <1>4, <2>1 DEF Uvarint
<1>6. Uvarint(d, pos) \subseteq {r}
  <2>. HIDE DEF r
  <2>. QED
    BY <1>1 DEF Uvarint
<1>. QED
  BY <1>5, <1>6

\* No more than one number is read at a position.
LEMMA OneNumber ==
    ASSUME NEW data \in Seq(Nat), NEW pos \in 1 .. Len(data)
    PROVE  \A r, s \in DecodeVarint(data, pos) : r = s /\ r = <<r[1], r[2]>>
<1>. DEFINE F(i) == NumberFrom(data, pos)[i]
            T == {i \in pos .. Len(data) + 1 : \A r, s \in F(i) : r = s /\ r = <<r[1], r[2]>>}
<1>0. Len(data) \in Nat
  OBVIOUS
<1>1. Len(data) + 1 \in T
  <2>1. F(Len(data) + 1) = {}
    BY NumberAt
  <2>. HIDE DEF F
  <2>. QED
    BY <1>0, <2>1
<1>2. ASSUME NEW k \in pos + 1 .. Len(data) + 1, k \in T PROVE k - 1 \in T
  <2>. DEFINE i == k - 1
  <2>1. i \in pos .. Len(data) /\ i + 1 = k /\ i \in pos .. Len(data) + 1
    BY <1>0, <1>2
  <2>. HIDE DEF i
  <2>2. \/ F(i) = {<<Low(data, pos, i), i + 1>>}
        \/ F(i) = {<<Low(data, pos, i) + t[1], t[2]>> : t \in F(k)}
        \/ F(i) = {}
    <3>1. data[i] < More \/ data[i] >= More
      BY <2>1, MoreIs
    <3>. QED
      BY <2>1, <3>1, NumberAt
  <2>3. \A s, t \in F(k) : s = t
    <3>. HIDE DEF F
    <3>. QED
      BY <1>2
  <2>. HIDE DEF F
  <2>4. \A r, s \in F(i) : r = s /\ r = <<r[1], r[2]>>
    BY <2>2, <2>3
  <2>. QED
    BY <2>1, <2>4 DEF i
<1>3. pos .. Len(data) + 1 \subseteq T
  <2>1. pos \in Int /\ Len(data) + 1 \in Int /\ (pos <= Len(data) + 1 => Len(data) + 1 \in T)
    BY <1>0, <1>1
  <2>. HIDE DEF T
  <2>. QED
    BY <1>2, <2>1, DownwardInduction
<1>4. pos \in T
  <2>1. pos \in pos .. Len(data) + 1
    BY <1>0
  <2>. HIDE DEF T
  <2>. QED
    BY <1>3, <2>1
<1>. QED
  BY <1>4, NumberIsFrom

\* A number that is read fits the word, and its varint is no longer than what it
\* was read from.
LEMMA UvarintGives ==
    ASSUME NEW data \in Seq(Nat), NEW pos \in 1 .. Len(data), NEW r \in Uvarint(data, pos)
    PROVE  /\ Uvarint(data, pos) = {<<r[1], r[2]>>}
           /\ r[1] \in Nat /\ r[1] < TwoTo[WordBits]
           /\ r[2] \in pos + 1 .. Len(data) + 1
           /\ Len(EncodeVarint(r[1])) <= r[2] - pos
<1>1. r \in DecodeVarint(data, pos)
  BY DEF Uvarint
<1>2. Uvarint(data, pos) = {<<r[1], r[2]>>}
  <2>1. \A s \in Uvarint(data, pos) : s \in DecodeVarint(data, pos)
    BY DEF Uvarint
  <2>. QED
    BY <1>1, <2>1, OneNumber
<1>. DEFINE z == 0
<1>3. /\ z \in Nat /\ pos + z <= Len(data) /\ GroupBits * z < WordBits
      /\ pos + z = pos /\ TwoTo[GroupBits * z] = 1
  BY MoreIs, TwoToIs
<1>4. r \in NumberFrom(data, pos)[pos + z]
  <2>. HIDE DEF z
  <2>. QED
    BY <1>1, <1>3, NumberIsFrom
<1>. HIDE DEF z
<1>5. /\ \E c \in Nat : /\ r[1] = c * TwoTo[GroupBits * z]
                        /\ Len(EncodeVarint(c)) <= r[2] - (pos + z)
      /\ r[1] < TwoTo[WordBits]
      /\ r[2] \in pos + z + 1 .. Len(data) + 1
  BY <1>3, <1>4, NumbersFit
<1>6. PICK c \in Nat : r[1] = c * 1 /\ Len(EncodeVarint(c)) <= r[2] - pos
  BY <1>3, <1>5
<1>7. r[1] = c
  BY <1>6
<1>. QED
  BY <1>2, <1>3, <1>5, <1>6, <1>7

-----------------------------------------------------------------------------
(* A field.                                                                *)

LEMMA NothingToRead ==
    ASSUME NEW data \in Seq(Nat)
    PROVE  Uvarint(data, Len(data) + 1) = {}
<1>. DEFINE L == Len(data)
            pos == L + 1
            g == [i \in pos .. L + 1 |-> {}]
<1>1. L \in Nat /\ pos \in pos .. L + 1 /\ \A i \in pos .. L + 1 : i > L
  OBVIOUS
<1>. HIDE DEF pos
<1>2. g = [i \in pos .. L + 1 |-> NumberStep(data, pos, i, g)]
  BY <1>1 DEF NumberStep
<1>. HIDE DEF g
<1>3. NumberFrom(data, pos) =
         [i \in pos .. L + 1 |-> NumberStep(data, pos, i, NumberFrom(data, pos))]
  BY <1>2 DEF NumberFrom
<1>4. NumberFrom(data, pos)[pos] = NumberStep(data, pos, pos, NumberFrom(data, pos))
  <2>. HIDE DEF L
  <2>. QED
    BY <1>1, <1>3
<1>5. NumberFrom(data, pos)[pos] = {}
  BY <1>1, <1>4 DEF NumberStep
<1>6. Uvarint(data, pos) = {}
  BY <1>5, NumberIsFrom DEF Uvarint
<1>. QED
  BY <1>6 DEF pos

LEMMA HalfWord ==
    /\ TwoTo[WordBits] = 2 * TwoTo[WordBits - 1]
    /\ TwoTo[WordBits - 1] \in Nat /\ TwoTo[WordBits - 1] > 0
    /\ TwoTo[WordBits] \div 2 = TwoTo[WordBits - 1]
<1>1. WordBits - 1 \in Nat /\ (WordBits - 1) + 1 = WordBits
  BY MoreIs
<1>2. TwoTo[WordBits] = 2 * TwoTo[WordBits - 1]
  BY <1>1, TwoToIs
<1>3. TwoTo[WordBits - 1] \in Nat /\ TwoTo[WordBits - 1] > 0
  BY <1>1, TwoToType
<1>4. \A x \in Nat : (2 * x) \div 2 = x
  OBVIOUS
<1>. QED
  BY <1>2, <1>3, <1>4

\* The end of a field's bytes, computed in signed words, is where they end, or,
\* when the sum does not fit, before their beginning.
LEMMA EndIs ==
    ASSUME NEW pos \in Nat, pos > 0, NEW l \in Nat, l < TwoTo[WordBits]
    PROVE  /\ EndOfBytes(pos, l) \in Int
           /\ (pos - 1) + l < TwoTo[WordBits - 1] => EndOfBytes(pos, l) = pos + l
           /\ (pos - 1) + l >= TwoTo[WordBits - 1] => EndOfBytes(pos, l) < pos
<1>. DEFINE x == (pos - 1) + l
            h == TwoTo[WordBits - 1]
            m == TwoTo[WordBits]
            q == x \div m
            s == x % m
<1>1. x \in Nat /\ h \in Nat /\ h > 0 /\ m = 2 * h /\ m \div 2 = h
  BY HalfWord
<1>2. m \in Nat /\ m > 0
  <2>. HIDE DEF h, m
  <2>. QED
    BY <1>1
<1>3. q \in Nat /\ s \in Nat /\ s < m /\ x = (q * m) + s
  <2>. HIDE DEF x, m
  <2>. QED
    BY <1>1, <1>2, DivRem
<1>4. EndOfBytes(pos, l) = (IF s < h THEN s ELSE s - m) + 1
  BY <1>1 DEF EndOfBytes, Signed
<1>5. x = (pos - 1) + l /\ l < m
  OBVIOUS
<1>. HIDE DEF x, h, m, q, s
<1>6. CASE x < m
  <2>1. q = 0 /\ s = x
    <3>1. q = 0
      <4>1. SUFFICES ASSUME q >= 1 PROVE FALSE
        BY <1>3
      <4>2. 1 * m <= q * m
        BY <1>2, <1>3, <4>1
      <4>3. q * m \in Nat
        BY <1>2, <1>3
      <4>. QED
        BY <1>2, <1>3, <1>6, <4>2, <4>3
    <3>. QED
      BY <1>2, <1>3, <3>1
  <2>2. EndOfBytes(pos, l) \in Int
        /\ (x < h => EndOfBytes(pos, l) = pos + l)
        /\ (x >= h => EndOfBytes(pos, l) < pos)
    BY <1>1, <1>2, <1>3, <1>4, <1>5, <1>6, <2>1
  <2>. QED
    BY <2>2 DEF x, h
<1>7. CASE ~(x < m)
  <2>1. q >= 1
    <3>1. SUFFICES ASSUME q = 0 PROVE FALSE
      BY <1>3
    <3>. QED
      BY <1>2, <1>3, <1>7, <3>1
  <2>2. s <= x - m
    <3>1. 1 * m <= q * m /\ q * m \in Nat
      BY <1>2, <1>3, <2>1
    <3>. QED
      BY <1>2, <1>3, <3>1
  <2>3. s < pos - 1 /\ x >= h
    BY <1>1, <1>2, <1>3, <1>5, <1>7, <2>2
  <2>4. EndOfBytes(pos, l) \in Int /\ EndOfBytes(pos, l) < pos
    BY <1>1, <1>2, <1>3, <1>4, <2>3
  <2>. QED
    BY <1>1, <2>3, <2>4 DEF x, h
<1>. QED
  BY <1>6, <1>7

\* A field that a message can have.
FieldRec(n, w, v) == [number |-> n, wireType |-> w, value |-> v]

Sendable(n, w, v) ==
    /\ n \in Nat
    /\ 8 * n + w < TwoTo[WordBits]
    /\ \/ w = wireVarint /\ v \in Nat /\ v < TwoTo[WordBits]
       \/ w = wire64Bit /\ v \in Nat /\ v < TwoTo[ByteBits * Fixed64Bytes]
       \/ w = wire32Bit /\ v \in Nat /\ v < TwoTo[ByteBits * Fixed32Bytes]
       \/ w = wireLenDel /\ v \in MessageBytes /\ Len(v) < TwoTo[WordBits]

Body(w, v) ==
    IF w = wireVarint THEN EncodeVarint(v)
    ELSE IF w = wire64Bit THEN LittleEndian(v, Fixed64Bytes)
    ELSE IF w = wire32Bit THEN LittleEndian(v, Fixed32Bytes)
    ELSE Length(v) \o v

LEMMA FixedBytes ==
    ASSUME NEW v \in Nat, NEW n \in Nat
    PROVE  LittleEndian(v, n) \in MessageBytes /\ Len(LittleEndian(v, n)) = n
<1>1. \A k \in 1 .. n : (v \div TwoTo[ByteBits * (k - 1)]) % ByteValues \in MessageByte
  <2>. TAKE k \in 1 .. n
  <2>. DEFINE w == TwoTo[ByteBits * (k - 1)]
              q == v \div w
  <2>1. k - 1 \in Nat
    OBVIOUS
  <2>2. w \in Nat /\ w > 0
    BY <2>1, ByteWeight
  <2>. HIDE DEF w
  <2>3. q \in Nat
    BY <2>2, DivRem
  <2>. HIDE DEF q
  <2>4. q % ByteValues \in Nat /\ q % ByteValues < ByteValues
    BY <2>3, WidthsAreNumbers, DivRem
  <2>5. q % ByteValues \in MessageByte
    BY <2>4, WidthsAreNumbers DEF MessageByte
  <2>. QED
    BY <2>5 DEF q, w
<1>. QED
  BY <1>1 DEF LittleEndian, MessageBytes

LEMMA TagIs ==
    ASSUME NEW n \in Nat, NEW w \in 0 .. 7
    PROVE  /\ Tag(n, w) = EncodeVarint(8 * n + w)
           /\ Tag(n, w) \in MessageBytes /\ Len(Tag(n, w)) \in Nat /\ Len(Tag(n, w)) > 0
<1>. DEFINE t == 8 * n + w
<1>1. t \in Nat
  OBVIOUS
<1>. HIDE DEF t
<1>2. EncodeVarint(t) \in MessageBytes /\ Len(EncodeVarint(t)) \in Nat /\ Len(EncodeVarint(t)) > 0
  BY <1>1, VarintBytes, VarintNotEmpty
<1>. QED
  BY <1>2 DEF t, Tag

LEMMA BodyIs ==
    ASSUME NEW n, NEW w, NEW v, Sendable(n, w, v)
    PROVE  /\ w \in 0 .. 7 /\ n \in Nat
           /\ Body(w, v) \in MessageBytes /\ Len(Body(w, v)) \in Nat
<1>1. w \in 0 .. 7 /\ n \in Nat
  BY DEF Sendable, wireVarint, wire64Bit, wire32Bit, wireLenDel
<1>2. Body(w, v) \in MessageBytes
  <2>1. CASE w = wireVarint
    BY <2>1, VarintBytes DEF Sendable, Body, wireVarint, wire64Bit, wire32Bit, wireLenDel
  <2>2. CASE w = wire64Bit
    BY <2>2, FixedBytes, WidthsAreNumbers
       DEF Sendable, Body, wireVarint, wire64Bit, wire32Bit, wireLenDel
  <2>3. CASE w = wire32Bit
    BY <2>3, FixedBytes, WidthsAreNumbers
       DEF Sendable, Body, wireVarint, wire64Bit, wire32Bit, wireLenDel
  <2>4. CASE w = wireLenDel
    <3>1. v \in MessageBytes /\ Len(v) \in Nat
      BY <2>4, MessageBytesAre DEF Sendable, wireVarint, wire64Bit, wire32Bit, wireLenDel
    <3>2. Length(v) \in MessageBytes
      BY <3>1, VarintBytes DEF Length
    <3>3. Length(v) \o v \in MessageBytes
      BY <3>1, <3>2, ConcatProperties DEF MessageBytes
    <3>. QED
      BY <2>4, <3>3 DEF Body, wireVarint, wire64Bit, wire32Bit, wireLenDel
  <2>. QED
    BY <2>1, <2>2, <2>3, <2>4 DEF Sendable
<1>. QED
  BY <1>1, <1>2, MessageBytesAre

LEMMA SentIs ==
    ASSUME NEW n, NEW w, NEW v, Sendable(n, w, v)
    PROVE  /\ Sent(FieldRec(n, w, v)) = Tag(n, w) \o Body(w, v)
           /\ Sent(FieldRec(n, w, v)) \in MessageBytes
           /\ Len(Sent(FieldRec(n, w, v))) = Len(Tag(n, w)) + Len(Body(w, v))
<1>. DEFINE f == FieldRec(n, w, v)
<1>1. f.number = n /\ f.wireType = w /\ f.value = v
  BY DEF FieldRec
<1>. HIDE DEF f
<1>2. w \in 0 .. 7 /\ n \in Nat /\ Body(w, v) \in MessageBytes
  BY BodyIs
<1>3. Tag(n, w) \in MessageBytes
  BY <1>2, TagIs
<1>4. Sent(f) = Tag(n, w) \o Body(w, v)
  <2>1. CASE w = wireVarint
    BY <1>1, <2>1 DEF Sent, Body, wireVarint, wire64Bit, wire32Bit, wireLenDel
  <2>2. CASE w = wire64Bit
    BY <1>1, <2>2 DEF Sent, Body, wireVarint, wire64Bit, wire32Bit, wireLenDel
  <2>3. CASE w = wire32Bit
    BY <1>1, <2>3 DEF Sent, Body, WriteFixed32, wireVarint, wire64Bit, wire32Bit, wireLenDel
  <2>4. CASE w = wireLenDel
    <3>1. v \in MessageBytes /\ Len(v) \in Nat
      BY <2>4, MessageBytesAre DEF Sendable, wireVarint, wire64Bit, wire32Bit, wireLenDel
    <3>2. Length(v) \in MessageBytes
      BY <3>1, VarintBytes DEF Length
    <3>3. (Tag(n, w) \o Length(v)) \o v = Tag(n, w) \o (Length(v) \o v)
      BY <1>3, <3>1, <3>2, ConcatAssociative DEF MessageBytes
    <3>4. Sent(f) = (Tag(n, w) \o Length(v)) \o v
      BY <1>1, <2>4 DEF Sent, wireVarint, wire64Bit, wire32Bit, wireLenDel
    <3>. QED
      BY <2>4, <3>3, <3>4 DEF Body, wireVarint, wire64Bit, wire32Bit, wireLenDel
  <2>. QED
    BY <2>1, <2>2, <2>3, <2>4 DEF Sendable
<1>5. /\ Tag(n, w) \o Body(w, v) \in MessageBytes
      /\ Len(Tag(n, w) \o Body(w, v)) = Len(Tag(n, w)) + Len(Body(w, v))
  BY <1>2, <1>3, ConcatProperties DEF MessageBytes
<1>. QED
  BY <1>4, <1>5 DEF f

\* Only a length that no packet can have makes the decoder panic.
Impossible(data) ==
    \E k \in 1 .. Len(data) : \E v \in Uvarint(data, k) :
        v[1] + Len(data) >= TwoTo[WordBits - 1]

LEMMA TagRead ==
    ASSUME NEW data, NEW pos, NEW a, NEW b, Uvarint(data, pos) = {<<a, b>>}
    PROVE  FieldAt(data, pos) = FieldOfType(data, a \div 8, a % 8, b)
<1>1. (CHOOSE r \in Uvarint(data, pos) : TRUE) = <<a, b>>
  OBVIOUS
<1>2. Uvarint(data, pos) # {}
  OBVIOUS
<1>. QED
  BY <1>1, <1>2 DEF FieldAt, WithNumber

LEMMA NoTagRead ==
    ASSUME NEW data, NEW pos, Uvarint(data, pos) = {}
    PROVE  FieldAt(data, pos) = Failed
  BY DEF FieldAt, WithNumber

LEMMA VarintFieldIs ==
    ASSUME NEW data, NEW n, NEW pos
    PROVE  /\ Uvarint(data, pos) = {} => VarintField(data, n, pos) = Failed
           /\ \A a, b : Uvarint(data, pos) = {<<a, b>>} =>
                 VarintField(data, n, pos) = Field(n, wireVarint, a, b)
<1>1. Uvarint(data, pos) = {} => VarintField(data, n, pos) = Failed
  BY DEF VarintField, WithNumber
<1>2. ASSUME NEW a, NEW b, Uvarint(data, pos) = {<<a, b>>}
      PROVE  VarintField(data, n, pos) = Field(n, wireVarint, a, b)
  <2>1. (CHOOSE r \in Uvarint(data, pos) : TRUE) = <<a, b>>
    BY <1>2
  <2>2. Uvarint(data, pos) # {}
    BY <1>2
  <2>. QED
    BY <1>2, <2>1, <2>2 DEF VarintField, WithNumber
<1>. QED
  BY <1>1, <1>2

LEMMA BytesFieldIs ==
    ASSUME NEW data, NEW n, NEW pos
    PROVE  /\ Uvarint(data, pos) = {} => BytesField(data, n, pos) = Failed
           /\ \A a, b : Uvarint(data, pos) = {<<a, b>>} =>
                 BytesField(data, n, pos) = BytesUpTo(data, n, b, EndOfBytes(b, a))
<1>1. Uvarint(data, pos) = {} => BytesField(data, n, pos) = Failed
  BY DEF BytesField, WithNumber
<1>2. ASSUME NEW a, NEW b, Uvarint(data, pos) = {<<a, b>>}
      PROVE  BytesField(data, n, pos) = BytesUpTo(data, n, b, EndOfBytes(b, a))
  <2>1. (CHOOSE r \in Uvarint(data, pos) : TRUE) = <<a, b>>
    BY <1>2
  <2>2. Uvarint(data, pos) # {}
    BY <1>2
  <2>. QED
    BY <1>2, <2>1, <2>2 DEF BytesField, WithNumber
<1>. QED
  BY <1>1, <1>2

\* What is read after a tag: at a position where no number is, nothing is read.
LEMMA NumberOrNone ==
    ASSUME NEW data \in Seq(Nat), NEW p \in 1 .. Len(data) + 1
    PROVE  \/ Uvarint(data, p) = {}
           \/ /\ p \in 1 .. Len(data)
              /\ \E a, b : /\ Uvarint(data, p) = {<<a, b>>}
                           /\ a \in Nat /\ a < TwoTo[WordBits]
                           /\ b \in p + 1 .. Len(data) + 1
                           /\ Len(EncodeVarint(a)) <= b - p
<1>1. CASE p = Len(data) + 1
  BY <1>1, NothingToRead
<1>2. CASE p # Len(data) + 1
  <2>1. p \in 1 .. Len(data)
    BY <1>2
  <2>2. SUFFICES ASSUME Uvarint(data, p) # {}
                 PROVE \E a, b : /\ Uvarint(data, p) = {<<a, b>>}
                           /\ a \in Nat /\ a < TwoTo[WordBits]
                           /\ b \in p + 1 .. Len(data) + 1
                           /\ Len(EncodeVarint(a)) <= b - p
    BY <2>1
  <2>3. PICK r \in Uvarint(data, p) : TRUE
    BY <2>2
  <2>. QED
    BY <2>1, <2>3, UvarintGives
<1>. QED
  BY <1>1, <1>2

\* What the reading of a body gives.
ReadBody(data, n, w, p, v, next) ==
    /\ Sendable(n, w, v)
    /\ next \in p .. Len(data) + 1
    /\ Len(Body(w, v)) <= next - p
    /\ w = wireLenDel => next - 1 < TwoTo[WordBits - 1]

LEMMA FixedBodyRead ==
    ASSUME NEW data \in MessageBytes, NEW n \in Nat, NEW w \in {wire64Bit, wire32Bit},
           8 * n + w < TwoTo[WordBits], NEW p \in 1 .. Len(data) + 1, NEW size \in Nat, size > 0,
           size = IF w = wire64Bit THEN Fixed64Bytes ELSE Fixed32Bytes
    PROVE  \/ FixedField(data, n, w, p, size) = Failed
           \/ \E v, next : /\ FixedField(data, n, w, p, size) = Field(n, w, v, next)
                           /\ ReadBody(data, n, w, p, v, next)
<1>. DEFINE s == SubSeq(data, p, p + size - 1)
            v == FromLittleEndian(s)
            next == p + size
<1>1. Len(data) \in Nat
  BY MessageBytesAre
<1>2. SUFFICES ASSUME ~(p + size - 1 > Len(data))
               PROVE  /\ FixedField(data, n, w, p, size) = Field(n, w, v, next)
                      /\ ReadBody(data, n, w, p, v, next)
  BY DEF FixedField
<1>3. next \in p .. Len(data) + 1 /\ next - p = size
  BY <1>1, <1>2
<1>4. s \in MessageBytes /\ Len(s) = size
  <2>1. \A i \in p .. p + size - 1 : data[i] \in MessageByte
    <3>. TAKE i \in p .. p + size - 1
    <3>1. i \in 1 .. Len(data)
      BY <1>1, <1>2
    <3>. QED
      BY <3>1, ElementOfSeq DEF MessageBytes
  <2>2. p \in Int /\ p + size - 1 \in Int /\ p <= p + size - 1 /\ (p + size - 1) - p + 1 = size
    OBVIOUS
  <2>. QED
    BY <2>1, <2>2, SubSeqProperties DEF MessageBytes
<1>5. v \in Nat /\ v < TwoTo[ByteBits * size]
  <2>. HIDE DEF s
  <2>. QED
    BY <1>4, FixedFits
<1>6. FixedField(data, n, w, p, size) = Field(n, w, v, next)
  BY <1>2 DEF FixedField
<1>. HIDE DEF v, next, s
<1>7. Body(w, v) = LittleEndian(v, size)
  BY DEF Body, wireVarint, wire64Bit, wire32Bit, wireLenDel
<1>8. Len(Body(w, v)) = size
  BY <1>5, <1>7, FixedBytes
<1>9. Sendable(n, w, v)
  BY <1>5 DEF Sendable, wireVarint, wire64Bit, wire32Bit, wireLenDel
<1>10. w # wireLenDel
  BY DEF wireVarint, wire64Bit, wire32Bit, wireLenDel
<1>11. Len(Body(w, v)) <= next - p
  <2>1. size <= size
    OBVIOUS
  <2>. QED
    BY <1>3, <1>8, <2>1, Zenon
<1>. QED
  BY <1>3, <1>6, <1>9, <1>10, <1>11 DEF ReadBody

LEMMA VarintBodyRead ==
    ASSUME NEW data \in MessageBytes, NEW n \in Nat,
           8 * n + wireVarint < TwoTo[WordBits], NEW p \in 1 .. Len(data) + 1
    PROVE  \/ VarintField(data, n, p) = Failed
           \/ \E v, next : /\ VarintField(data, n, p) = Field(n, wireVarint, v, next)
                           /\ ReadBody(data, n, wireVarint, p, v, next)
<1>1. data \in Seq(Nat) /\ Len(data) \in Nat
  BY MessageBytesAre
<1>2. CASE Uvarint(data, p) = {}
  BY <1>2, VarintFieldIs
<1>3. CASE \E a, b : /\ Uvarint(data, p) = {<<a, b>>}
                     /\ a \in Nat /\ a < TwoTo[WordBits]
                     /\ b \in p + 1 .. Len(data) + 1
                     /\ Len(EncodeVarint(a)) <= b - p
  <2>1. PICK a, b : /\ Uvarint(data, p) = {<<a, b>>}
                    /\ a \in Nat /\ a < TwoTo[WordBits]
                    /\ b \in p + 1 .. Len(data) + 1
                    /\ Len(EncodeVarint(a)) <= b - p
    BY <1>3
  <2>2. VarintField(data, n, p) = Field(n, wireVarint, a, b)
    BY <2>1, VarintFieldIs
  <2>3. Sendable(n, wireVarint, a)
    BY <2>1 DEF Sendable
  <2>4. Body(wireVarint, a) = EncodeVarint(a)
    BY DEF Body
  <2>5. b \in p .. Len(data) + 1
    BY <1>1, <2>1
  <2>6. wireVarint # wireLenDel
    BY DEF wireVarint, wireLenDel
  <2>7. ReadBody(data, n, wireVarint, p, a, b)
    BY <2>1, <2>3, <2>4, <2>5, <2>6 DEF ReadBody
  <2>. QED
    BY <2>2, <2>7
<1>. QED
  BY <1>1, <1>2, <1>3, NumberOrNone

LEMMA BytesBodyRead ==
    ASSUME NEW data \in MessageBytes, NEW n \in Nat,
           8 * n + wireLenDel < TwoTo[WordBits], NEW p \in 1 .. Len(data) + 1
    PROVE  \/ BytesField(data, n, p) = Failed
           \/ BytesField(data, n, p) = Panics /\ Impossible(data)
           \/ \E v, next : /\ BytesField(data, n, p) = Field(n, wireLenDel, v, next)
                           /\ ReadBody(data, n, wireLenDel, p, v, next)
<1>1. data \in Seq(Nat) /\ Len(data) \in Nat
  BY MessageBytesAre
<1>2. CASE Uvarint(data, p) = {}
  BY <1>2, BytesFieldIs
<1>3. CASE p \in 1 .. Len(data) /\
           \E a, b : /\ Uvarint(data, p) = {<<a, b>>}
                     /\ a \in Nat /\ a < TwoTo[WordBits]
                     /\ b \in p + 1 .. Len(data) + 1
                     /\ Len(EncodeVarint(a)) <= b - p
  <2>1. PICK a, b : /\ Uvarint(data, p) = {<<a, b>>}
                    /\ a \in Nat /\ a < TwoTo[WordBits]
                    /\ b \in p + 1 .. Len(data) + 1
                    /\ Len(EncodeVarint(a)) <= b - p
    BY <1>3
  <2>. DEFINE end == EndOfBytes(b, a)
              v == SubSeq(data, b, end - 1)
  <2>2. BytesField(data, n, p) = BytesUpTo(data, n, b, end)
    BY <2>1, BytesFieldIs
  <2>3. b \in Nat /\ b > 0 /\ b - 1 <= Len(data)
    BY <1>1, <2>1
  <2>4. /\ end \in Int
        /\ (b - 1) + a < TwoTo[WordBits - 1] => end = b + a
        /\ (b - 1) + a >= TwoTo[WordBits - 1] => end < b
    BY <2>1, <2>3, EndIs
  <2>5. TwoTo[WordBits - 1] \in Nat
    BY HalfWord
  <2>. HIDE DEF end
  <2>6. CASE end > Len(data) + 1
    <3>1. BytesField(data, n, p) = Failed
      <4>1. ~(end < b)
        BY <1>1, <2>3, <2>4, <2>6
      <4>. QED
        BY <2>2, <2>6, <4>1 DEF BytesUpTo
    <3>. QED
      BY <3>1
  <2>7. CASE ~(end > Len(data) + 1) /\ end < b
    <3>1. BytesField(data, n, p) = Panics
      BY <2>2, <2>7 DEF BytesUpTo
    <3>2. (b - 1) + a >= TwoTo[WordBits - 1]
      BY <2>1, <2>3, <2>4, <2>5, <2>7
    <3>3. a + Len(data) >= TwoTo[WordBits - 1]
      BY <1>1, <2>1, <2>3, <2>5, <3>2
    <3>4. <<a, b>> \in Uvarint(data, p) /\ <<a, b>>[1] = a
      BY <2>1
    <3>5. Impossible(data)
      BY <1>3, <3>3, <3>4 DEF Impossible
    <3>. QED
      BY <3>1, <3>5
  <2>8. CASE ~(end > Len(data) + 1) /\ ~(end < b)
    <3>1. BytesField(data, n, p) = Field(n, wireLenDel, v, end)
      BY <2>2, <2>8 DEF BytesUpTo
    <3>2. end = b + a /\ (b - 1) + a < TwoTo[WordBits - 1]
      BY <2>1, <2>3, <2>4, <2>5, <2>8
    <3>3. v \in MessageBytes /\ Len(v) = a
      <4>1. \A i \in b .. end - 1 : data[i] \in MessageByte
        <5>. TAKE i \in b .. end - 1
        <5>1. i \in 1 .. Len(data)
          BY <1>1, <2>3, <2>4, <2>8
        <5>. QED
          BY <5>1, ElementOfSeq DEF MessageBytes
      <4>2. b \in Int /\ end - 1 \in Int /\ (end - 1) - b + 1 = a /\ (b <= end - 1 \/ a = 0)
        BY <2>1, <2>3, <3>2
      <4>3. v \in Seq(MessageByte) /\ Len(v) = IF b <= end - 1 THEN (end - 1) - b + 1 ELSE 0
        <5>1. end - 1 \in Int /\ b \in Int
          BY <4>2
        <5>. QED
          BY <4>1, <5>1, SubSeqProperties
      <4>4. Len(v) = a
        <5>. HIDE DEF v
        <5>. QED
          BY <4>2, <4>3
      <4>. QED
        BY <4>3, <4>4 DEF MessageBytes
    <3>. HIDE DEF v
    <3>4. Sendable(n, wireLenDel, v)
      BY <2>1, <3>3 DEF Sendable
    <3>5. Body(wireLenDel, v) = EncodeVarint(a) \o v
      BY <3>3 DEF Body, Length, wireVarint, wire64Bit, wire32Bit, wireLenDel
    <3>6. EncodeVarint(a) \in MessageBytes /\ Len(EncodeVarint(a)) \in Nat
      BY <2>1, VarintBytes, VarintNotEmpty
    <3>7. Len(Body(wireLenDel, v)) = Len(EncodeVarint(a)) + a
      BY <3>3, <3>5, <3>6, ConcatProperties DEF MessageBytes
    <3>8. Len(Body(wireLenDel, v)) <= end - p
      BY <2>1, <2>3, <3>2, <3>6, <3>7
    <3>9. end \in p .. Len(data) + 1 /\ end - 1 < TwoTo[WordBits - 1]
      BY <1>1, <2>1, <2>3, <2>4, <2>5, <2>8, <3>2
    <3>10. ReadBody(data, n, wireLenDel, p, v, end)
      BY <3>4, <3>8, <3>9 DEF ReadBody
    <3>. QED
      BY <3>1, <3>10
  <2>. QED
    BY <2>6, <2>7, <2>8
<1>. QED
  BY <1>1, <1>2, <1>3, NumberOrNone

LEMMA BodyRead ==
    ASSUME NEW data \in MessageBytes, NEW n \in Nat, NEW w \in 0 .. 7,
           8 * n + w < TwoTo[WordBits], NEW p \in 1 .. Len(data) + 1
    PROVE  \/ FieldOfType(data, n, w, p) = Failed
           \/ FieldOfType(data, n, w, p) = Panics /\ Impossible(data)
           \/ \E v, next : /\ FieldOfType(data, n, w, p) = Field(n, w, v, next)
                           /\ ReadBody(data, n, w, p, v, next)
<1>1. CASE w = wireVarint
  <2>1. FieldOfType(data, n, w, p) = VarintField(data, n, p)
    BY <1>1 DEF FieldOfType, wireVarint, wire64Bit, wire32Bit, wireLenDel
  <2>. QED
    BY <1>1, <2>1, VarintBodyRead
<1>2. CASE w = wire64Bit
  <2>1. FieldOfType(data, n, w, p) = FixedField(data, n, w, p, Fixed64Bytes)
    BY <1>2 DEF FieldOfType, wireVarint, wire64Bit, wire32Bit, wireLenDel
  <2>2. Fixed64Bytes = IF w = wire64Bit THEN Fixed64Bytes ELSE Fixed32Bytes
    BY <1>2
  <2>. QED
    BY <1>2, <2>1, <2>2, FixedBodyRead, WidthsAreNumbers
<1>3. CASE w = wire32Bit
  <2>1. FieldOfType(data, n, w, p) = FixedField(data, n, w, p, Fixed32Bytes)
    BY <1>3 DEF FieldOfType, wireVarint, wire64Bit, wire32Bit, wireLenDel
  <2>2. Fixed32Bytes = IF w = wire64Bit THEN Fixed64Bytes ELSE Fixed32Bytes
    BY <1>3 DEF wire64Bit, wire32Bit
  <2>. QED
    BY <1>3, <2>1, <2>2, FixedBodyRead, WidthsAreNumbers
<1>4. CASE w = wireLenDel
  <2>1. FieldOfType(data, n, w, p) = BytesField(data, n, p)
    BY <1>4 DEF FieldOfType, wireVarint, wire64Bit, wire32Bit, wireLenDel
  <2>. QED
    BY <1>4, <2>1, BytesBodyRead
<1>5. CASE w \notin {wireVarint, wire64Bit, wire32Bit, wireLenDel}
  BY <1>5 DEF FieldOfType
<1>. QED
  BY <1>1, <1>2, <1>3, <1>4, <1>5

\* A field that is read: it is one a message can have, its encoding no longer
\* than what it was read from.
IsField(data, pos, n, w, v, next) ==
    /\ Sendable(n, w, v)
    /\ next \in pos + 1 .. Len(data) + 1
    /\ Len(Sent(FieldRec(n, w, v))) <= next - pos
    /\ w = wireLenDel => next - 1 < TwoTo[WordBits - 1]

LEMMA FieldRead ==
    ASSUME NEW data \in MessageBytes, NEW pos \in 1 .. Len(data)
    PROVE  \/ FieldAt(data, pos) = Failed
           \/ FieldAt(data, pos) = Panics /\ Impossible(data)
           \/ \E n, w, v, next : /\ FieldAt(data, pos) = Field(n, w, v, next)
                                 /\ IsField(data, pos, n, w, v, next)
<1>1. data \in Seq(Nat) /\ Len(data) \in Nat
  BY MessageBytesAre
<1>2. CASE Uvarint(data, pos) = {}
  BY <1>2, NoTagRead
<1>3. CASE Uvarint(data, pos) # {}
  <2>1. PICK a, b : /\ Uvarint(data, pos) = {<<a, b>>}
                    /\ a \in Nat /\ a < TwoTo[WordBits]
                    /\ b \in pos + 1 .. Len(data) + 1
                    /\ Len(EncodeVarint(a)) <= b - pos
    <3>1. pos \in 1 .. Len(data) + 1
      BY <1>1
    <3>. QED
      BY <1>1, <1>3, <3>1, NumberOrNone
  <2>. DEFINE n == a \div 8
              w == a % 8
  <2>2. n \in Nat /\ w \in 0 .. 7 /\ 8 * n + w = a
    BY <2>1
  <2>3. FieldAt(data, pos) = FieldOfType(data, n, w, b)
    BY <2>1, TagRead
  <2>4. b \in 1 .. Len(data) + 1
    BY <1>1, <2>1
  <2>. HIDE DEF n, w
  <2>5. \/ FieldOfType(data, n, w, b) = Failed
        \/ FieldOfType(data, n, w, b) = Panics /\ Impossible(data)
        \/ \E v, next : /\ FieldOfType(data, n, w, b) = Field(n, w, v, next)
                        /\ ReadBody(data, n, w, b, v, next)
    <3>1. 8 * n + w < TwoTo[WordBits]
      BY <2>1, <2>2
    <3>. QED
      BY <2>2, <2>4, <3>1, BodyRead
  <2>6. ASSUME NEW v, NEW next, FieldAt(data, pos) = Field(n, w, v, next),
               ReadBody(data, n, w, b, v, next)
        PROVE  IsField(data, pos, n, w, v, next)
    <3>1. Sendable(n, w, v)
      BY <2>6 DEF ReadBody
    <3>2. Len(Sent(FieldRec(n, w, v))) = Len(Tag(n, w)) + Len(Body(w, v))
      BY <3>1, SentIs
    <3>3. Len(Tag(n, w)) <= b - pos /\ Len(Tag(n, w)) \in Nat
      BY <2>1, <2>2, TagIs
    <3>4. Len(Body(w, v)) <= next - b /\ Len(Body(w, v)) \in Nat /\ next \in b .. Len(data) + 1
      BY <2>6, <3>1, BodyIs DEF ReadBody
    <3>5. Len(Sent(FieldRec(n, w, v))) <= next - pos /\ next \in pos + 1 .. Len(data) + 1
      BY <1>1, <2>1, <3>2, <3>3, <3>4
    <3>. QED
      BY <2>6, <3>1, <3>5 DEF IsField, ReadBody
  <2>. QED
    BY <2>3, <2>5, <2>6
<1>. QED
  BY <1>2, <1>3

\* What stands in two parts.
LEMMA StandsInParts ==
    ASSUME NEW d \in MessageBytes, NEW pos \in Nat, NEW a \in MessageBytes, NEW b \in MessageBytes
    PROVE  StandsAt(d, pos, a \o b) <=> StandsAt(d, pos, a) /\ StandsAt(d, pos + Len(a), b)
<1>1. Len(a) \in Nat /\ Len(b) \in Nat /\ Len(d) \in Nat
  BY MessageBytesAre
<1>2. /\ Len(a \o b) = Len(a) + Len(b)
      /\ \A i \in 1 .. Len(a) + Len(b) : (a \o b)[i] = IF i <= Len(a) THEN a[i] ELSE b[i - Len(a)]
  BY ConcatProperties DEF MessageBytes
<1>. DEFINE e == a \o b
            m == Len(a)
            k == Len(b)
<1>. HIDE DEF e, m, k
<1>3. m \in Nat /\ k \in Nat
  BY <1>1 DEF m, k
<1>4. Len(e) = m + k /\ \A i \in 1 .. m + k : e[i] = IF i <= m THEN a[i] ELSE b[i - m]
  BY <1>2 DEF e, m, k
<1>5. ASSUME StandsAt(d, pos, e) PROVE StandsAt(d, pos, a) /\ StandsAt(d, pos + m, b)
  <2>1. pos + (m + k) <= Len(d) + 1 /\ \A x \in 1 .. m + k : d[pos + x - 1] = e[x]
    BY <1>4, <1>5 DEF StandsAt
  <2>2. pos + m <= Len(d) + 1 /\ (pos + m) + k <= Len(d) + 1
    BY <1>1, <1>3, <2>1
  <2>3. ASSUME NEW x \in 1 .. m PROVE d[pos + x - 1] = a[x]
    <3>1. x \in 1 .. m + k /\ x <= m
      BY <1>3
    <3>. QED
      BY <1>4, <2>1, <3>1
  <2>4. ASSUME NEW x \in 1 .. k PROVE d[(pos + m) + x - 1] = b[x]
    <3>. DEFINE y == m + x
    <3>1. y \in 1 .. m + k /\ ~(y <= m) /\ y - m = x /\ pos + y - 1 = (pos + m) + x - 1
      BY <1>3
    <3>. HIDE DEF y
    <3>. QED
      BY <1>4, <2>1, <3>1
  <2>. QED
    BY <2>2, <2>3, <2>4 DEF StandsAt, m, k
<1>6. ASSUME StandsAt(d, pos, a), StandsAt(d, pos + m, b) PROVE StandsAt(d, pos, e)
  <2>1. /\ (pos + m) + k <= Len(d) + 1
        /\ \A x \in 1 .. m : d[pos + x - 1] = a[x]
        /\ \A x \in 1 .. k : d[(pos + m) + x - 1] = b[x]
    BY <1>6 DEF StandsAt, m, k
  <2>2. pos + (m + k) <= Len(d) + 1
    BY <1>1, <1>3, <2>1
  <2>3. ASSUME NEW x \in 1 .. m + k PROVE d[pos + x - 1] = e[x]
    <3>1. CASE x <= m
      BY <1>3, <1>4, <2>1, <3>1
    <3>2. CASE ~(x <= m)
      <4>. DEFINE y == x - m
      <4>1. y \in 1 .. k /\ (pos + m) + y - 1 = pos + x - 1
        BY <1>3, <3>2
      <4>. HIDE DEF y
      <4>2. d[pos + x - 1] = b[y]
        BY <2>1, <4>1
      <4>. QED
        BY <1>4, <3>2, <4>2 DEF y
    <3>. QED
      BY <3>1, <3>2
  <2>. QED
    BY <1>4, <2>2, <2>3 DEF StandsAt
<1>. QED
  BY <1>5, <1>6 DEF e, m

\* What stands in a message is a part of it.
LEMMA PartOf ==
    ASSUME NEW d \in MessageBytes, NEW pos \in Nat, pos > 0, NEW e \in MessageBytes,
           StandsAt(d, pos, e)
    PROVE  SubSeq(d, pos, pos + Len(e) - 1) = e
<1>1. Len(d) \in Nat /\ Len(e) \in Nat /\ pos + Len(e) <= Len(d) + 1
  BY MessageBytesAre DEF StandsAt
<1>. DEFINE m == pos + Len(e) - 1
            s == SubSeq(d, pos, m)
<1>2. pos \in Int /\ m \in Int /\ m - pos + 1 = Len(e) /\ (pos <= m \/ Len(e) = 0)
  BY <1>1
<1>3. \A i \in pos .. m : d[i] \in MessageByte
  <2>. TAKE i \in pos .. m
  <2>1. i \in 1 .. Len(d)
    BY <1>1
  <2>. QED
    BY <2>1, ElementOfSeq DEF MessageBytes
<1>. HIDE DEF m
<1>4. /\ s \in Seq(MessageByte) /\ Len(s) = IF pos <= m THEN m - pos + 1 ELSE 0
      /\ \A i \in 1 .. m - pos + 1 : s[i] = d[pos + i - 1]
  BY <1>2, <1>3, SubSeqProperties
<1>5. Len(s) = Len(e)
  <2>. HIDE DEF s
  <2>1. CASE pos <= m
    BY <1>2, <1>4, <2>1
  <2>2. CASE ~(pos <= m)
    BY <1>2, <1>4, <2>2
  <2>. QED
    BY <2>1, <2>2
<1>. HIDE DEF s
<1>6. \A i \in 1 .. Len(e) : s[i] = e[i]
  BY <1>2, <1>4 DEF StandsAt
<1>7. s = e
  <2>1. e \in Seq(MessageByte)
    BY DEF MessageBytes
  <2>2. \A i \in 1 .. Len(s) : s[i] = e[i]
    BY <1>5, <1>6
  <2>. QED
    BY <1>4, <1>5, <2>1, <2>2, SeqEqual
<1>. QED
  BY <1>7 DEF s, m

\* A number that stands somewhere is read there.
LEMMA NumberStands ==
    ASSUME NEW d \in MessageBytes, NEW pos \in Nat, pos > 0, NEW v \in Nat, v < TwoTo[WordBits],
           StandsAt(d, pos, EncodeVarint(v))
    PROVE  Uvarint(d, pos) = {<<v, pos + Len(EncodeVarint(v))>>}
<1>1. d \in Seq(Nat) /\ Len(d) \in Nat
  BY MessageBytesAre
<1>2. Len(EncodeVarint(v)) \in Nat /\ Len(EncodeVarint(v)) > 0
  BY VarintNotEmpty
<1>3. pos \in 1 .. Len(d)
  <2>1. pos + Len(EncodeVarint(v)) <= Len(d) + 1
    BY DEF StandsAt
  <2>. QED
    BY <1>1, <1>2, <2>1
<1>. QED
  BY <1>1, <1>3, UvarintReads

\* So is a field.
LEMMA FieldStands ==
    ASSUME NEW d \in MessageBytes, NEW pos \in Nat, pos > 0, NEW n, NEW w, NEW v,
           Sendable(n, w, v), StandsAt(d, pos, Sent(FieldRec(n, w, v))),
           w = wireLenDel => (pos - 1) + Len(Sent(FieldRec(n, w, v))) < TwoTo[WordBits - 1]
    PROVE  FieldAt(d, pos) = Field(n, w, v, pos + Len(Sent(FieldRec(n, w, v))))
<1>. DEFINE t == Tag(n, w)
            b == Body(w, v)
            p == pos + Len(t)
            a == 8 * n + w
            end == pos + Len(Sent(FieldRec(n, w, v)))
<1>1. w \in 0 .. 7 /\ n \in Nat /\ b \in MessageBytes /\ Len(b) \in Nat
  BY BodyIs
<1>2. /\ t = EncodeVarint(a) /\ t \in MessageBytes /\ Len(t) \in Nat /\ Len(t) > 0
      /\ a \in Nat
  <2>1. a \in Nat
    BY <1>1
  <2>2. /\ Tag(n, w) = EncodeVarint(8 * n + w)
        /\ Tag(n, w) \in MessageBytes /\ Len(Tag(n, w)) \in Nat /\ Len(Tag(n, w)) > 0
    BY <1>1, TagIs
  <2>. QED
    BY <2>1, <2>2
<1>3. Sent(FieldRec(n, w, v)) = t \o b /\ Len(Sent(FieldRec(n, w, v))) = Len(t) + Len(b)
  BY SentIs
<1>4. StandsAt(d, pos, t) /\ StandsAt(d, p, b)
  <2>1. StandsAt(d, pos, t \o b)
    BY <1>3
  <2>2. b \in MessageBytes /\ t \in MessageBytes
    BY <1>1, <1>2
  <2>. HIDE DEF t, b
  <2>. QED
    BY <2>1, <2>2, StandsInParts
<1>5. p \in Nat /\ p > 0 /\ end = p + Len(b)
  BY <1>1, <1>2, <1>3
<1>6. Uvarint(d, pos) = {<<a, p>>}
  <2>1. a < TwoTo[WordBits]
    BY DEF Sendable
  <2>2. StandsAt(d, pos, EncodeVarint(a))
    BY <1>2, <1>4
  <2>3. Uvarint(d, pos) = {<<a, pos + Len(EncodeVarint(a))>>}
    <3>. HIDE DEF a
    <3>. QED
      BY <1>2, <2>1, <2>2, NumberStands
  <2>. QED
    BY <1>2, <2>3
<1>7. FieldAt(d, pos) = FieldOfType(d, n, w, p)
  <2>1. FieldAt(d, pos) = FieldOfType(d, a \div 8, a % 8, p)
    <3>. HIDE DEF a, p
    <3>. QED
      BY <1>6, TagRead
  <2>2. a \div 8 = n /\ a % 8 = w
    BY <1>1
  <2>. QED
    BY <2>1, <2>2
<1>8. p + Len(b) <= Len(d) + 1 /\ Len(d) \in Nat /\ d \in Seq(Nat)
  BY <1>4, MessageBytesAre DEF StandsAt
<1>. HIDE DEF t, p, a, end
<1>9. ASSUME NEW size \in Nat, w # wireVarint, w # wireLenDel, v \in Nat,
             b = LittleEndian(v, size), v < TwoTo[ByteBits * size]
      PROVE  FixedField(d, n, w, p, size) = Field(n, w, v, end)
  <2>1. Len(b) = size /\ FromLittleEndian(b) = v
    BY <1>9, FixedReadsBack
  <2>2. SubSeq(d, p, p + size - 1) = b
    <3>. HIDE DEF b
    <3>. QED
      BY <1>1, <1>4, <1>5, <2>1, PartOf
  <2>3. ~(p + size - 1 > Len(d)) /\ p + size = end
    <3>. HIDE DEF b
    <3>. QED
      BY <1>5, <1>8, <2>1
  <2>. HIDE DEF b
  <2>. QED
    BY <2>1, <2>2, <2>3 DEF FixedField
<1>10. FieldOfType(d, n, w, p) = Field(n, w, v, end)
  <2>1. CASE w = wireVarint
    <3>1. b = EncodeVarint(v) /\ v \in Nat /\ v < TwoTo[WordBits]
      BY <2>1 DEF Sendable, Body, wireVarint, wire64Bit, wire32Bit, wireLenDel
    <3>2. StandsAt(d, p, EncodeVarint(v))
      BY <1>4, <3>1
    <3>3. Uvarint(d, p) = {<<v, p + Len(EncodeVarint(v))>>}
      BY <1>5, <3>1, <3>2, NumberStands
    <3>4. Uvarint(d, p) = {<<v, end>>}
      BY <1>5, <3>1, <3>3
    <3>5. FieldOfType(d, n, w, p) = VarintField(d, n, p)
      BY <2>1 DEF FieldOfType, wireVarint, wire64Bit, wire32Bit, wireLenDel
    <3>. QED
      BY <2>1, <3>4, <3>5, VarintFieldIs
  <2>2. CASE w = wire64Bit
    <3>1. b = LittleEndian(v, Fixed64Bytes) /\ v \in Nat /\ v < TwoTo[ByteBits * Fixed64Bytes]
      BY <2>2 DEF Sendable, Body, wireVarint, wire64Bit, wire32Bit, wireLenDel
    <3>2. w # wireVarint /\ w # wireLenDel
      BY <2>2 DEF wireVarint, wire64Bit, wire32Bit, wireLenDel
    <3>3. FieldOfType(d, n, w, p) = FixedField(d, n, w, p, Fixed64Bytes)
      BY <2>2 DEF FieldOfType, wireVarint, wire64Bit, wire32Bit, wireLenDel
    <3>. QED
      BY <1>9, <3>1, <3>2, <3>3, WidthsAreNumbers
  <2>3. CASE w = wire32Bit
    <3>1. b = LittleEndian(v, Fixed32Bytes) /\ v \in Nat /\ v < TwoTo[ByteBits * Fixed32Bytes]
      BY <2>3 DEF Sendable, Body, wireVarint, wire64Bit, wire32Bit, wireLenDel
    <3>2. w # wireVarint /\ w # wireLenDel
      BY <2>3 DEF wireVarint, wire64Bit, wire32Bit, wireLenDel
    <3>3. FieldOfType(d, n, w, p) = FixedField(d, n, w, p, Fixed32Bytes)
      BY <2>3 DEF FieldOfType, wireVarint, wire64Bit, wire32Bit, wireLenDel
    <3>. QED
      BY <1>9, <3>1, <3>2, <3>3, WidthsAreNumbers
  <2>4. CASE w = wireLenDel
    <3>. DEFINE l == Len(v)
                e == EncodeVarint(l)
                q == p + Len(e)
    <3>1. v \in MessageBytes /\ l \in Nat /\ l < TwoTo[WordBits]
      BY <2>4, MessageBytesAre DEF Sendable, wireVarint, wire64Bit, wire32Bit, wireLenDel
    <3>2. b = e \o v
      BY <2>4 DEF Body, Length, wireVarint, wire64Bit, wire32Bit, wireLenDel
    <3>3. e \in MessageBytes /\ Len(e) \in Nat /\ Len(e) > 0
      <4>. HIDE DEF l
      <4>. QED
        BY <3>1, VarintBytes, VarintNotEmpty
    <3>4. StandsAt(d, p, e) /\ StandsAt(d, q, v) /\ Len(b) = Len(e) + l
      <4>. HIDE DEF e
      <4>1. StandsAt(d, p, e \o v)
        BY <1>4, <3>2
      <4>2. Len(e \o v) = Len(e) + Len(v)
        BY <3>1, <3>3, ConcatProperties DEF MessageBytes
      <4>. HIDE DEF b
      <4>. QED
        BY <1>5, <3>1, <3>2, <3>3, <4>1, <4>2, StandsInParts
    <3>5. Uvarint(d, p) = {<<l, q>>}
      <4>. HIDE DEF l
      <4>. QED
        BY <1>5, <3>1, <3>4, NumberStands
    <3>6. FieldOfType(d, n, w, p) = BytesField(d, n, p)
      BY <2>4 DEF FieldOfType, wireVarint, wire64Bit, wire32Bit, wireLenDel
    <3>. HIDE DEF b, l, e
    <3>7. q \in Nat /\ q > 0 /\ q + l = end
      BY <1>5, <3>1, <3>3, <3>4
    <3>. HIDE DEF q
    <3>8. (q - 1) + l < TwoTo[WordBits - 1]
      <4>1. (q - 1) + l = (pos - 1) + Len(Sent(FieldRec(n, w, v)))
        <5>1. Len(Sent(FieldRec(n, w, v))) \in Nat
          BY <1>1, <1>2, <1>3
        <5>. QED
          BY <3>1, <3>7, <5>1 DEF end
      <4>. QED
        BY <2>4, <4>1
    <3>9. EndOfBytes(q, l) = end
      BY <3>1, <3>7, <3>8, EndIs
    <3>10. BytesField(d, n, p) = BytesUpTo(d, n, q, end)
      BY <3>5, <3>9, BytesFieldIs
    <3>11. SubSeq(d, q, end - 1) = v
      <4>1. SubSeq(d, q, q + Len(v) - 1) = v
        BY <3>1, <3>4, <3>7, PartOf
      <4>. QED
        BY <3>7, <4>1 DEF l
    <3>12. ~(end > Len(d) + 1) /\ ~(end < q)
      BY <1>5, <1>8, <3>1, <3>7
    <3>13. BytesUpTo(d, n, q, end) = Field(n, wireLenDel, v, end)
      BY <3>11, <3>12 DEF BytesUpTo
    <3>. QED
      BY <2>4, <3>6, <3>10, <3>13
  <2>. QED
    BY <2>1, <2>2, <2>3, <2>4 DEF Sendable
<1>. QED
  BY <1>7, <1>10 DEF end

-----------------------------------------------------------------------------
(* Sequences one after the other.                                          *)

FlatStep(s, i, flat) == IF i = 1 THEN s[i] ELSE flat[i - 1] \o s[i]
Flat(s) == CHOOSE flat : flat = [i \in 1 .. Len(s) |-> FlatStep(s, i, flat)]

LEMMA FlattenIs ==
    ASSUME NEW s, Len(s) # 0
    PROVE  FlattenSeq(s) = Flat(s)[Len(s)]
  BY DEF FlattenSeq, Flat, FlatStep

LEMMA FlatIs ==
    ASSUME NEW S, NEW s \in Seq(Seq(S))
    PROVE  \A i \in 1 .. Len(s) :
              /\ Flat(s)[i] \in Seq(S)
              /\ i = 1 => Flat(s)[i] = s[i]
              /\ i > 1 => Flat(s)[i] = Flat(s)[i - 1] \o s[i]
<1>. DEFINE N == Len(s)
            D == 1 .. N
            V == Seq(S)
            rank == [i \in D |-> i]
            Step == [i \in D |-> [g \in [D -> V] |-> FlatStep(s, i, g)]]
<1>1. N \in Nat /\ rank \in [D -> 0 .. N] /\ V # {} /\ \A i \in D : s[i] \in V
  <2>1. N \in Nat /\ rank \in [D -> 0 .. N]
    OBVIOUS
  <2>2. << >> \in V
    OBVIOUS
  <2>3. \A i \in D : s[i] \in V
    OBVIOUS
  <2>. QED
    BY <2>1, <2>2, <2>3
<1>2. ASSUME NEW i \in D, NEW g \in [D -> V] PROVE FlatStep(s, i, g) \in V
  <2>1. CASE i = 1
    BY <1>1, <2>1 DEF FlatStep
  <2>2. CASE i # 1
    <3>1. i - 1 \in D
      BY <1>1, <2>2
    <3>2. g[i - 1] \in V
      BY <3>1
    <3>3. g[i - 1] \o s[i] \in V
      BY <1>1, <3>2, ConcatProperties
    <3>. QED
      BY <2>2, <3>3 DEF FlatStep
  <2>. QED
    BY <2>1, <2>2
<1>3. Step \in [D -> [[D -> V] -> V]]
  <2>. HIDE DEF D, V
  <2>. QED
    BY <1>2
<1>4. ASSUME NEW i \in D, NEW g \in [D -> V], NEW h \in [D -> V],
             \A j \in D : rank[j] < rank[i] => g[j] = h[j]
      PROVE  Step[i][g] = Step[i][h]
  <2>1. CASE i = 1
    BY <2>1 DEF FlatStep
  <2>2. CASE i # 1
    <3>1. i - 1 \in D /\ rank[i - 1] < rank[i]
      BY <1>1, <2>2
    <3>2. g[i - 1] = h[i - 1]
      BY <1>4, <3>1
    <3>. QED
      BY <2>2, <3>2 DEF FlatStep
  <2>. QED
    BY <2>1, <2>2
<1>5. \E f \in [D -> V] : f = [i \in D |-> Step[i][f]]
  <2>1. Computes(Step, rank, N, D, V)
    <3>. HIDE DEF D, N, V, rank, Step
    <3>. QED
      BY <1>1, <1>3, <1>4 DEF Computes
  <2>2. V # {}
    BY <1>1
  <2>. HIDE DEF D, N, V, rank, Step
  <2>. QED
    BY ONLY <2>1, <2>2, Recursion, SMTT(60)
<1>6. PICK f \in [D -> V] : f = [i \in D |-> FlatStep(s, i, f)]
  BY <1>5
<1>7. Flat(s) = [i \in D |-> FlatStep(s, i, Flat(s))]
  BY <1>6 DEF Flat
<1>8. \A i \in D : Flat(s)[i] = FlatStep(s, i, Flat(s))
  <2>. HIDE DEF D
  <2>. QED
    BY <1>7
<1>. DEFINE T == {i \in D : Flat(s)[i] \in V}
<1>9. 1 <= N => 1 \in T
  <2>1. SUFFICES ASSUME 1 <= N PROVE 1 \in T
    OBVIOUS
  <2>2. 1 \in D
    BY <1>1, <2>1
  <2>3. Flat(s)[1] = s[1]
    BY <1>8, <2>2 DEF FlatStep
  <2>. QED
    BY <1>1, <2>2, <2>3
<1>10. ASSUME NEW k \in 1 .. N - 1, k \in T PROVE k + 1 \in T
  <2>1. k + 1 \in D /\ k + 1 # 1 /\ (k + 1) - 1 = k
    BY <1>1
  <2>2. Flat(s)[k + 1] = Flat(s)[k] \o s[k + 1]
    BY <1>8, <2>1 DEF FlatStep
  <2>3. Flat(s)[k] \in V /\ s[k + 1] \in V
    BY <1>1, <1>10, <2>1
  <2>4. Flat(s)[k] \o s[k + 1] \in V
    BY <2>3, ConcatProperties
  <2>. QED
    BY <2>1, <2>2, <2>4
<1>11. D \subseteq T
  <2>1. 1 \in Int /\ N \in Int
    BY <1>1
  <2>. HIDE DEF T, N
  <2>. QED
    BY <1>9, <1>10, <2>1, IntervalInduction
<1>12. ASSUME NEW i \in D
       PROVE  /\ Flat(s)[i] \in V
              /\ i = 1 => Flat(s)[i] = s[i]
              /\ i > 1 => Flat(s)[i] = Flat(s)[i - 1] \o s[i]
  <2>1. Flat(s)[i] \in V
    BY <1>11
  <2>2. Flat(s)[i] = FlatStep(s, i, Flat(s))
    BY <1>8
  <2>3. i = 1 => Flat(s)[i] = s[i]
    BY <2>2 DEF FlatStep
  <2>4. i > 1 => Flat(s)[i] = Flat(s)[i - 1] \o s[i]
    <3>1. i > 1 => i # 1
      BY <1>1
    <3>. QED
      BY <2>2, <3>1 DEF FlatStep
  <2>. QED
    BY <2>1, <2>3, <2>4
<1>. QED
  BY <1>12

LEMMA FlattenNothing == FlattenSeq(<< >>) = << >>
  BY DEF FlattenSeq

LEMMA FlattenType ==
    ASSUME NEW S, NEW s \in Seq(Seq(S))
    PROVE  FlattenSeq(s) \in Seq(S)
<1>1. CASE Len(s) = 0
  <2>1. s = << >>
    BY <1>1
  <2>2. FlattenSeq(s) = << >>
    BY <2>1, FlattenNothing
  <2>. QED
    BY <2>2
<1>2. CASE Len(s) # 0
  <2>1. Len(s) \in 1 .. Len(s)
    BY <1>2
  <2>. QED
    BY <1>2, <2>1, FlattenIs, FlatIs
<1>. QED
  BY <1>1, <1>2

LEMMA Associative ==
    ASSUME NEW S, NEW a \in Seq(S), NEW b \in Seq(S), NEW c \in Seq(S)
    PROVE  (a \o b) \o c = a \o (b \o c)
  BY ONLY ConcatAssociative

LEMMA FlattenMore ==
    ASSUME NEW S, NEW x \in Seq(S), NEW s \in Seq(Seq(S))
    PROVE  FlattenSeq(<<x>> \o s) = x \o FlattenSeq(s)
<1>0. \A u, v, w \in Seq(S) : (u \o v) \o w = u \o (v \o w)
  BY Associative
<1>. DEFINE t == <<x>> \o s
            n == Len(s)
<1>1. <<x>> \in Seq(Seq(S)) /\ Len(<<x>>) = 1 /\ <<x>>[1] = x /\ n \in Nat
  OBVIOUS
<1>2. /\ t \in Seq(Seq(S)) /\ Len(t) = 1 + n
      /\ \A i \in 1 .. 1 + n : t[i] = IF i <= 1 THEN <<x>>[i] ELSE s[i - 1]
  BY <1>1, ConcatProperties
<1>3. t[1] = x /\ \A i \in 1 .. n : t[i + 1] = s[i]
  <2>. HIDE DEF t, n
  <2>1. 1 \in 1 .. 1 + n
    BY <1>1
  <2>2. ASSUME NEW i \in 1 .. n PROVE t[i + 1] = s[i]
    <3>1. i + 1 \in 1 .. 1 + n /\ ~(i + 1 <= 1) /\ (i + 1) - 1 = i
      BY <1>1
    <3>. QED
      BY <1>2, <3>1
  <2>. QED
    BY <1>1, <1>2, <2>1, <2>2
<1>. HIDE DEF t
<1>4. FlattenSeq(t) = Flat(t)[1 + n]
  <2>1. Len(t) # 0
    BY <1>1, <1>2
  <2>. QED
    BY <1>2, <2>1, FlattenIs
<1>5. Flat(t)[1] = x
  <2>1. 1 \in 1 .. Len(t)
    BY <1>1, <1>2
  <2>. QED
    BY <1>2, <1>3, <2>1, FlatIs
<1>6. CASE n = 0
  <2>1. s = << >>
    BY <1>6
  <2>2. FlattenSeq(s) = << >>
    BY <2>1, FlattenNothing
  <2>3. x \o << >> = x
    BY ConcatEmptySeq
  <2>. QED
    BY <1>4, <1>5, <1>6, <2>2, <2>3 DEF t
<1>7. CASE n # 0
  <2>. DEFINE T == {i \in 1 .. n : Flat(t)[i + 1] = x \o Flat(s)[i]}
  <2>1. ASSUME NEW i \in 1 .. n
        PROVE  /\ Flat(t)[i + 1] = Flat(t)[i] \o s[i]
               /\ Flat(s)[i] \in Seq(S) /\ s[i] \in Seq(S)
               /\ i = 1 => Flat(s)[i] = s[i]
               /\ i > 1 => Flat(s)[i] = Flat(s)[i - 1] \o s[i]
    <3>1. i + 1 \in 1 .. Len(t) /\ i + 1 > 1 /\ (i + 1) - 1 = i
      BY <1>1, <1>2
    <3>2. Flat(t)[i + 1] = Flat(t)[i] \o t[i + 1]
      BY <1>2, <3>1, FlatIs
    <3>3. s[i] \in Seq(S)
      OBVIOUS
    <3>. QED
      BY <1>3, <3>2, <3>3, FlatIs
  <2>2. 1 \in T
    <3>1. 1 \in 1 .. n
      BY <1>1, <1>7
    <3>2. Flat(t)[1 + 1] = Flat(t)[1] \o s[1] /\ Flat(s)[1] = s[1]
      BY <2>1, <3>1
    <3>. QED
      BY <1>5, <3>1, <3>2
  <2>3. ASSUME NEW k \in 1 .. n - 1, k \in T PROVE k + 1 \in T
    <3>. DEFINE i == k + 1
    <3>1. i \in 1 .. n /\ i > 1 /\ i - 1 = k /\ k \in 1 .. n
      BY <1>1
    <3>. HIDE DEF i
    <3>2. Flat(t)[i + 1] = Flat(t)[i] \o s[i] /\ Flat(s)[i] = Flat(s)[k] \o s[i] /\ s[i] \in Seq(S)
      BY <2>1, <3>1
    <3>3. Flat(s)[k] \in Seq(S)
      BY <2>1, <3>1
    <3>4. Flat(t)[i] = x \o Flat(s)[k]
      BY <2>3 DEF i
    <3>5. (x \o Flat(s)[k]) \o s[i] = x \o (Flat(s)[k] \o s[i])
      BY <1>0, <3>2, <3>3
    <3>6. Flat(t)[i + 1] = x \o Flat(s)[i]
      BY <3>2, <3>4, <3>5
    <3>. QED
      BY <3>1, <3>6 DEF i
  <2>4. 1 .. n \subseteq T
    <3>1. 1 \in Int /\ n \in Int /\ (1 <= n => 1 \in T)
      BY <1>1, <2>2
    <3>. HIDE DEF T, n
    <3>. QED
      BY <2>3, <3>1, IntervalInduction
  <2>5. n \in T
    <3>1. n \in 1 .. n
      BY <1>1, <1>7
    <3>. HIDE DEF T
    <3>. QED
      BY <2>4, <3>1
  <2>6. FlattenSeq(s) = Flat(s)[n]
    BY <1>7, FlattenIs
  <2>7. n + 1 = 1 + n
    BY <1>1
  <2>. QED
    BY <1>4, <2>5, <2>6, <2>7 DEF t
<1>. QED
  BY <1>6, <1>7

-----------------------------------------------------------------------------
(* Messages.                                                               *)

\* The fields a message can have, and how decoding can end.
AnyField == [number : Nat, wireType : 0 .. 7, value : Nat \cup MessageBytes]
SendableFields == {f \in AnyField : Sendable(f.number, f.wireType, f.value)}
Decoded(fs) == [status |-> "ok", fields |-> fs]
Ends == {Failed, Panics} \cup {Decoded(fs) : fs \in Seq(SendableFields)}

LEMMA SendableIs ==
    ASSUME NEW n, NEW w, NEW v, Sendable(n, w, v)
    PROVE  FieldRec(n, w, v) \in SendableFields
<1>1. n \in Nat /\ w \in 0 .. 7
  BY BodyIs
<1>2. v \in Nat \cup MessageBytes
  BY DEF Sendable
<1>. DEFINE f == FieldRec(n, w, v)
<1>3. f.number = n /\ f.wireType = w /\ f.value = v /\ f \in AnyField
  BY <1>1, <1>2 DEF FieldRec, AnyField
<1>. HIDE DEF f
<1>4. Sendable(f.number, f.wireType, f.value)
  BY <1>3
<1>. QED
  BY <1>3, <1>4 DEF SendableFields, f

LEMMA FieldIsSendable ==
    ASSUME NEW f \in SendableFields
    PROVE  /\ f = FieldRec(f.number, f.wireType, f.value)
           /\ Sendable(f.number, f.wireType, f.value)
           /\ Sent(f) \in MessageBytes
<1>1. f = FieldRec(f.number, f.wireType, f.value)
  BY DEF SendableFields, AnyField, FieldRec
<1>2. Sendable(f.number, f.wireType, f.value)
  BY DEF SendableFields
<1>. DEFINE n == f.number
            w == f.wireType
            v == f.value
<1>3. f = FieldRec(n, w, v) /\ Sendable(n, w, v)
  BY <1>1, <1>2
<1>. HIDE DEF n, w, v
<1>4. Sent(FieldRec(n, w, v)) \in MessageBytes
  BY <1>3, SentIs
<1>. QED
  BY <1>1, <1>2, <1>3, <1>4

\* What a sequence of fields is sent as.
SentAll(fs) == FlattenSeq([k \in DOMAIN fs |-> Sent(fs[k])])

LEMMA SentAllIs ==
    /\ SentAll(<< >>) = << >>
    /\ \A f \in SendableFields, fs \in Seq(SendableFields) :
          SentAll(<<f>> \o fs) = Sent(f) \o SentAll(fs)
    /\ \A fs \in Seq(SendableFields) : SentAll(fs) \in MessageBytes
<1>1. SentAll(<< >>) = << >>
  <2>1. [k \in DOMAIN << >> |-> Sent(<< >>[k])] = << >>
    OBVIOUS
  <2>. QED
    BY <2>1, FlattenNothing DEF SentAll
<1>. DEFINE S(fs) == [k \in DOMAIN fs |-> Sent(fs[k])]
<1>2. ASSUME NEW fs \in Seq(SendableFields)
      PROVE  /\ S(fs) \in Seq(Seq(MessageByte)) /\ Len(S(fs)) = Len(fs)
             /\ \A k \in 1 .. Len(fs) : S(fs)[k] = Sent(fs[k])
  <2>1. DOMAIN fs = 1 .. Len(fs) /\ Len(fs) \in Nat
    OBVIOUS
  <2>2. \A k \in 1 .. Len(fs) : Sent(fs[k]) \in Seq(MessageByte)
    <3>. TAKE k \in 1 .. Len(fs)
    <3>1. fs[k] \in SendableFields
      OBVIOUS
    <3>. QED
      BY <3>1, FieldIsSendable DEF MessageBytes
  <2>3. S(fs) = [k \in 1 .. Len(fs) |-> Sent(fs[k])]
    BY <2>1
  <2>. HIDE DEF S
  <2>. QED
    BY <2>1, <2>2, <2>3
<1>3. ASSUME NEW f \in SendableFields, NEW fs \in Seq(SendableFields)
      PROVE  SentAll(<<f>> \o fs) = Sent(f) \o SentAll(fs)
  <2>. DEFINE gs == <<f>> \o fs
              t == <<Sent(f)>> \o S(fs)
  <2>1. <<f>> \in Seq(SendableFields) /\ Len(<<f>>) = 1 /\ <<f>>[1] = f
    OBVIOUS
  <2>2. /\ gs \in Seq(SendableFields) /\ Len(gs) = 1 + Len(fs)
        /\ \A k \in 1 .. 1 + Len(fs) : gs[k] = IF k <= 1 THEN <<f>>[k] ELSE fs[k - 1]
    BY <2>1, ConcatProperties
  <2>3. Sent(f) \in Seq(MessageByte)
    BY FieldIsSendable DEF MessageBytes
  <2>4. S(fs) \in Seq(Seq(MessageByte)) /\ Len(S(fs)) = Len(fs) /\ Len(fs) \in Nat
    BY <1>2
  <2>5. \A k \in 1 .. Len(fs) : S(fs)[k] = Sent(fs[k])
    BY <1>2
  <2>. HIDE DEF gs
  <2>6. /\ S(gs) \in Seq(Seq(MessageByte)) /\ Len(S(gs)) = Len(gs)
        /\ \A k \in 1 .. Len(gs) : S(gs)[k] = Sent(gs[k])
    BY <1>2, <2>2
  <2>. HIDE DEF S
  <2>7. <<Sent(f)>> \in Seq(Seq(MessageByte)) /\ Len(<<Sent(f)>>) = 1 /\ <<Sent(f)>>[1] = Sent(f)
    BY <2>3
  <2>8. /\ t \in Seq(Seq(MessageByte)) /\ Len(t) = 1 + Len(fs)
        /\ \A k \in 1 .. 1 + Len(fs) : t[k] = IF k <= 1 THEN <<Sent(f)>>[k] ELSE S(fs)[k - 1]
    BY <2>4, <2>7, ConcatProperties
  <2>. HIDE DEF t
  <2>9. ASSUME NEW k \in 1 .. Len(t) PROVE S(gs)[k] = t[k]
    <3>1. k \in 1 .. 1 + Len(fs) /\ k \in 1 .. Len(gs)
      BY <2>2, <2>8
    <3>2. CASE k <= 1
      <4>1. k = 1
        BY <3>1, <3>2, <2>4
      <4>2. gs[k] = f /\ t[k] = Sent(f)
        BY <2>1, <2>2, <2>7, <2>8, <3>1, <3>2, <4>1
      <4>. QED
        BY <2>6, <3>1, <4>2
    <3>3. CASE ~(k <= 1)
      <4>1. k - 1 \in 1 .. Len(fs)
        BY <2>4, <3>1, <3>3
      <4>2. gs[k] = fs[k - 1] /\ t[k] = S(fs)[k - 1]
        BY <2>2, <2>8, <3>1, <3>3
      <4>3. t[k] = Sent(fs[k - 1])
        BY <2>5, <4>1, <4>2
      <4>. QED
        BY <2>6, <3>1, <4>2, <4>3
    <3>. QED
      BY <3>2, <3>3
  <2>10. S(gs) = t
    <3>1. Len(S(gs)) = Len(t) /\ \A k \in 1 .. Len(S(gs)) : S(gs)[k] = t[k]
      BY <2>2, <2>6, <2>8, <2>9
    <3>. QED
      BY <2>6, <2>8, <3>1, SeqEqual
  <2>11. FlattenSeq(t) = Sent(f) \o FlattenSeq(S(fs))
    BY <2>3, <2>4, FlattenMore DEF t
  <2>. QED
    BY <2>10, <2>11 DEF SentAll, S, gs
<1>4. ASSUME NEW fs \in Seq(SendableFields) PROVE SentAll(fs) \in MessageBytes
  <2>1. S(fs) \in Seq(Seq(MessageByte))
    BY <1>2
  <2>2. FlattenSeq(S(fs)) \in Seq(MessageByte)
    <3>. HIDE DEF S
    <3>. QED
      BY <2>1, FlattenType
  <2>. QED
    BY <2>2 DEF SentAll, MessageBytes
<1>. QED
  BY <1>1, <1>3, <1>4

\* What the rest makes of a field.
LEMMA WithRestIs ==
    ASSUME NEW rest
    PROVE  /\ WithRest(Failed, rest) = Failed
           /\ WithRest(Panics, rest) = Panics
           /\ \A n, w, v, next : WithRest(Field(n, w, v, next), rest) =
                 IF rest[next].status # "ok" THEN rest[next]
                 ELSE Decoded(<<FieldRec(n, w, v)>> \o rest[next].fields)
<1>1. WithRest(Failed, rest) = Failed
  BY DEF WithRest, Failed
<1>2. WithRest(Panics, rest) = Panics
  BY DEF WithRest, Panics
<1>3. ASSUME NEW n, NEW w, NEW v, NEW next
      PROVE  WithRest(Field(n, w, v, next), rest) =
                 IF rest[next].status # "ok" THEN rest[next]
                 ELSE Decoded(<<FieldRec(n, w, v)>> \o rest[next].fields)
  <2>. DEFINE f == Field(n, w, v, next)
  <2>1. f.status = "field" /\ f.next = next /\ f.field = FieldRec(n, w, v)
    BY DEF Field, FieldRec
  <2>. HIDE DEF f
  <2>2. WithRest(f, rest) =
                 IF rest[next].status # "ok" THEN rest[next]
                 ELSE Decoded(<<FieldRec(n, w, v)>> \o rest[next].fields)
    BY <2>1 DEF WithRest, Decoded
  <2>. QED
    BY <2>2 DEF f
<1>. QED
  BY <1>1, <1>2, <1>3

LEMMA EndsAre ==
    ASSUME NEW r \in Ends
    PROVE  \/ r.status # "ok" /\ r \in {Failed, Panics}
           \/ r.status = "ok" /\ r.fields \in Seq(SendableFields) /\ r = Decoded(r.fields)
<1>1. CASE r \in {Failed, Panics}
  BY <1>1 DEF Failed, Panics
<1>2. CASE r \notin {Failed, Panics}
  <2>1. PICK fs \in Seq(SendableFields) : r = Decoded(fs)
    BY <1>2 DEF Ends
  <2>2. r.status = "ok" /\ r.fields = fs
    BY <2>1 DEF Decoded
  <2>. QED
    BY <2>1, <2>2
<1>. QED
  BY <1>1, <1>2

\* Decoding from each position.
MessageStep(data, pos, from) ==
    IF pos > Len(data) THEN Decoded(<< >>) ELSE WithRest(FieldAt(data, pos), from)
MessageFrom(data) ==
    CHOOSE from : from = [pos \in 1 .. Len(data) + 1 |-> MessageStep(data, pos, from)]

LEMMA MessageIsFrom ==
    ASSUME NEW data
    PROVE  DecodeFields(data) = MessageFrom(data)[1]
  BY DEF DecodeFields, MessageFrom, MessageStep, Decoded

LEMMA MessageStepType ==
    ASSUME NEW data \in MessageBytes, NEW pos \in 1 .. Len(data) + 1,
           NEW from \in [1 .. Len(data) + 1 -> Ends]
    PROVE  MessageStep(data, pos, from) \in Ends
<1>0. Len(data) \in Nat
  BY MessageBytesAre
<1>1. CASE pos > Len(data)
  <2>1. << >> \in Seq(SendableFields)
    OBVIOUS
  <2>. QED
    BY <1>1, <2>1 DEF MessageStep, Ends
<1>2. CASE ~(pos > Len(data))
  <2>0. pos \in 1 .. Len(data)
    BY <1>0, <1>2
  <2>1. MessageStep(data, pos, from) = WithRest(FieldAt(data, pos), from)
    BY <1>2 DEF MessageStep
  <2>2. CASE FieldAt(data, pos) \in {Failed, Panics}
    BY <2>1, <2>2, WithRestIs DEF Ends
  <2>3. CASE \E n, w, v, next : /\ FieldAt(data, pos) = Field(n, w, v, next)
                                /\ IsField(data, pos, n, w, v, next)
    <3>1. PICK n, w, v, next : /\ FieldAt(data, pos) = Field(n, w, v, next)
                               /\ IsField(data, pos, n, w, v, next)
      BY <2>3
    <3>2. next \in 1 .. Len(data) + 1 /\ FieldRec(n, w, v) \in SendableFields
      <4>1. Sendable(n, w, v) /\ next \in pos + 1 .. Len(data) + 1
        BY <3>1 DEF IsField
      <4>. QED
        BY <1>0, <4>1, SendableIs
    <3>. DEFINE r == from[next]
    <3>3. r \in Ends
      BY <3>2
    <3>4. MessageStep(data, pos, from) =
             IF r.status # "ok" THEN r ELSE Decoded(<<FieldRec(n, w, v)>> \o r.fields)
      BY <2>1, <3>1, WithRestIs
    <3>. HIDE DEF r
    <3>5. CASE r.status # "ok"
      BY <3>3, <3>4, <3>5
    <3>6. CASE r.status = "ok"
      <4>1. r.fields \in Seq(SendableFields)
        BY <3>3, <3>6, EndsAre
      <4>2. <<FieldRec(n, w, v)>> \in Seq(SendableFields)
        BY <3>2
      <4>3. <<FieldRec(n, w, v)>> \o r.fields \in Seq(SendableFields)
        BY <4>1, <4>2, ConcatProperties
      <4>. QED
        BY <3>4, <3>6, <4>3 DEF Ends
    <3>. QED
      BY <3>5, <3>6
  <2>. QED
    BY <2>0, <2>2, <2>3, FieldRead
<1>. QED
  BY <1>1, <1>2

LEMMA MessageStepUses ==
    ASSUME NEW data \in MessageBytes, NEW pos \in 1 .. Len(data) + 1, NEW g, NEW h,
           \A j \in 1 .. Len(data) + 1 : j > pos => g[j] = h[j]
    PROVE  MessageStep(data, pos, g) = MessageStep(data, pos, h)
<1>0. Len(data) \in Nat
  BY MessageBytesAre
<1>1. CASE pos > Len(data)
  BY <1>1 DEF MessageStep
<1>2. CASE ~(pos > Len(data))
  <2>0. pos \in 1 .. Len(data)
    BY <1>0, <1>2
  <2>1. /\ MessageStep(data, pos, g) = WithRest(FieldAt(data, pos), g)
        /\ MessageStep(data, pos, h) = WithRest(FieldAt(data, pos), h)
    BY <1>2 DEF MessageStep
  <2>2. CASE FieldAt(data, pos) \in {Failed, Panics}
    BY <2>1, <2>2, WithRestIs
  <2>3. CASE \E n, w, v, next : /\ FieldAt(data, pos) = Field(n, w, v, next)
                                /\ IsField(data, pos, n, w, v, next)
    <3>1. PICK n, w, v, next : /\ FieldAt(data, pos) = Field(n, w, v, next)
                               /\ IsField(data, pos, n, w, v, next)
      BY <2>3
    <3>2. next \in 1 .. Len(data) + 1 /\ next > pos
      BY <1>0, <3>1 DEF IsField
    <3>3. g[next] = h[next]
      BY <3>2
    <3>. DEFINE e == Field(n, w, v, next)
                Made(r) == IF r.status # "ok" THEN r ELSE Decoded(<<FieldRec(n, w, v)>> \o r.fields)
    <3>4. WithRest(e, g) = Made(g[next]) /\ WithRest(e, h) = Made(h[next])
      BY WithRestIs
    <3>5. FieldAt(data, pos) = e
      BY <3>1
    <3>. HIDE DEF e, Made
    <3>. QED
      BY <2>1, <3>3, <3>4, <3>5
  <2>. QED
    BY <2>0, <2>2, <2>3, FieldRead
<1>. QED
  BY <1>1, <1>2

LEMMA MessageFromIs ==
    ASSUME NEW data \in MessageBytes
    PROVE  /\ MessageFrom(data)[Len(data) + 1] = Decoded(<< >>)
           /\ \A pos \in 1 .. Len(data) :
                 MessageFrom(data)[pos] = WithRest(FieldAt(data, pos), MessageFrom(data))
           /\ \A pos \in 1 .. Len(data) + 1 : MessageFrom(data)[pos] \in Ends
<1>. DEFINE N == Len(data) + 1
            S == 1 .. N
            rank == [pos \in S |-> N - pos]
            Step == [pos \in S |-> [g \in [S -> Ends] |-> MessageStep(data, pos, g)]]
<1>1. Len(data) \in Nat /\ N \in Nat /\ rank \in [S -> 0 .. N]
  BY MessageBytesAre
<1>2. Step \in [S -> [[S -> Ends] -> Ends]]
  BY MessageStepType
<1>3. ASSUME NEW pos \in S, NEW g \in [S -> Ends], NEW h \in [S -> Ends],
             \A j \in S : rank[j] < rank[pos] => g[j] = h[j]
      PROVE  Step[pos][g] = Step[pos][h]
  <2>1. \A j \in S : j > pos => rank[j] < rank[pos]
    BY <1>1
  <2>2. \A j \in 1 .. Len(data) + 1 : j > pos => g[j] = h[j]
    BY <1>3, <2>1
  <2>3. MessageStep(data, pos, g) = MessageStep(data, pos, h)
    BY <2>2, MessageStepUses
  <2>. QED
    BY <2>3
<1>4. Computes(Step, rank, N, S, Ends)
  <2>. HIDE DEF S, N, rank, Step
  <2>. QED
    BY <1>1, <1>2, <1>3 DEF Computes
<1>5. \E f \in [S -> Ends] : f = [pos \in S |-> Step[pos][f]]
  <2>2. Ends # {}
    BY DEF Ends
  <2>. HIDE DEF S, N, rank, Step
  <2>. QED
    BY ONLY <1>4, <2>2, Recursion, SMTT(60)
<1>6. \E f \in [S -> Ends] : f = [pos \in S |-> MessageStep(data, pos, f)]
  BY <1>5
<1>7. MessageFrom(data) = [pos \in S |-> MessageStep(data, pos, MessageFrom(data))]
  BY <1>6 DEF MessageFrom
<1>8. \A f, g : f = [pos \in S |-> MessageStep(data, pos, f)]
                 /\ g \in [S -> Ends] /\ g = [pos \in S |-> MessageStep(data, pos, g)]
                   => \A pos \in S : f[pos] = g[pos]
  <2>. TAKE f, g
  <2>. HAVE f = [pos \in S |-> MessageStep(data, pos, f)]
            /\ g \in [S -> Ends] /\ g = [pos \in S |-> MessageStep(data, pos, g)]
  <2>. DEFINE T == {pos \in S : \A j \in pos .. N : f[j] = g[j]}
  <2>1. \A pos \in S : f[pos] = MessageStep(data, pos, f) /\ g[pos] = MessageStep(data, pos, g)
    <3>. HIDE DEF S
    <3>. QED
      OBVIOUS
  <2>2. 1 <= N => N \in T
    <3>1. f[N] = g[N]
      <4>1. N \in S /\ N > Len(data)
        BY <1>1
      <4>. QED
        BY <2>1, <4>1 DEF MessageStep
    <3>. QED
      BY <1>1, <3>1
  <2>3. ASSUME NEW k \in 1 + 1 .. N, k \in T PROVE k - 1 \in T
    <3>1. k - 1 \in S /\ \A j \in k - 1 .. N : j = k - 1 \/ j \in k .. N
      BY <1>1, <2>3
    <3>2. \A j \in 1 .. Len(data) + 1 : j > k - 1 => f[j] = g[j]
      <4>1. \A j \in k .. N : f[j] = g[j]
        BY <2>3
      <4>2. \A j \in 1 .. Len(data) + 1 : j > k - 1 => j \in k .. N
        BY <1>1
      <4>. QED
        BY <4>1, <4>2
    <3>3. MessageStep(data, k - 1, f) = MessageStep(data, k - 1, g)
      <4>. DEFINE q == k - 1
      <4>1. q \in 1 .. Len(data) + 1 /\ \A j \in 1 .. Len(data) + 1 : j > q => f[j] = g[j]
        BY <3>1, <3>2
      <4>. HIDE DEF q
      <4>2. MessageStep(data, q, f) = MessageStep(data, q, g)
        BY <4>1, MessageStepUses
      <4>. QED
        BY <4>2 DEF q
    <3>4. f[k - 1] = g[k - 1]
      BY <2>1, <3>1, <3>3
    <3>. QED
      BY <2>3, <3>1, <3>4
  <2>4. 1 .. N \subseteq T
    <3>1. 1 \in Int /\ N \in Int
      BY <1>1
    <3>. HIDE DEF T, N
    <3>. QED
      BY <2>2, <2>3, <3>1, DownwardInduction
  <2>5. ASSUME NEW pos \in S PROVE f[pos] = g[pos]
    <3>1. pos \in pos .. N
      BY <1>1, <2>5
    <3>. QED
      BY <2>4, <2>5, <3>1
  <2>. QED
    BY <2>5
<1>9. \A pos \in S : MessageFrom(data)[pos] \in Ends
  <2>1. PICK g \in [S -> Ends] : g = [pos \in S |-> MessageStep(data, pos, g)]
    BY <1>6
  <2>2. \A pos \in S : MessageFrom(data)[pos] = g[pos]
    <3>. HIDE DEF S
    <3>. QED
      BY <1>7, <1>8, <2>1
  <2>. QED
    BY <2>1, <2>2
<1>10. \A pos \in S : MessageFrom(data)[pos] = MessageStep(data, pos, MessageFrom(data))
  <2>. HIDE DEF S
  <2>. QED
    BY <1>7
<1>11. N \in S /\ N > Len(data) /\ \A pos \in 1 .. Len(data) : pos \in S /\ ~(pos > Len(data))
  BY <1>1
<1>. HIDE DEF S
<1>. QED
  BY <1>9, <1>10, <1>11 DEF MessageStep, S

\* Decoding a part of a message from a position gives some fields, and what they
\* are sent as, no longer than the part, gives them again wherever it ends a
\* message, no later than where they were read.
AgainFrom(data, pos, fs) ==
    /\ Len(SentAll(fs)) <= Len(data) + 1 - pos
    /\ \A d \in MessageBytes : \A q \in 1 .. pos :
          StandsAt(d, q, SentAll(fs)) /\ q + Len(SentAll(fs)) = Len(d) + 1
             => MessageFrom(d)[q] = Decoded(fs)

ReadsFrom(data, pos) ==
    \/ MessageFrom(data)[pos] = Failed
    \/ MessageFrom(data)[pos] = Panics /\ Impossible(data)
    \/ \E fs \in Seq(SendableFields) :
          MessageFrom(data)[pos] = Decoded(fs) /\ AgainFrom(data, pos, fs)

LEMMA NothingAgain ==
    ASSUME NEW data \in MessageBytes
    PROVE  ReadsFrom(data, Len(data) + 1)
<1>1. MessageFrom(data)[Len(data) + 1] = Decoded(<< >>)
  BY MessageFromIs
<1>2. SentAll(<< >>) = << >> /\ Len(<< >>) = 0 /\ << >> \in Seq(SendableFields)
  BY SentAllIs
<1>3. Len(data) \in Nat
  BY MessageBytesAre
<1>4. AgainFrom(data, Len(data) + 1, << >>)
  <2>1. Len(SentAll(<< >>)) <= Len(data) + 1 - (Len(data) + 1)
    BY <1>2, <1>3
  <2>2. ASSUME NEW d \in MessageBytes, NEW q \in 1 .. Len(data) + 1,
               q + Len(SentAll(<< >>)) = Len(d) + 1
        PROVE  MessageFrom(d)[q] = Decoded(<< >>)
    <3>1. q = Len(d) + 1
      BY <1>2, <2>2
    <3>. QED
      BY <3>1, MessageFromIs
  <2>. QED
    BY <2>1, <2>2 DEF AgainFrom
<1>. QED
  BY <1>1, <1>2, <1>4 DEF ReadsFrom

LEMMA OneMoreAgain ==
    ASSUME NEW data \in MessageBytes, NEW pos \in 1 .. Len(data), NEW n, NEW w, NEW v, NEW next,
           IsField(data, pos, n, w, v, next),
           NEW fs \in Seq(SendableFields), AgainFrom(data, next, fs)
    PROVE  AgainFrom(data, pos, <<FieldRec(n, w, v)>> \o fs)
<1>. DEFINE f == FieldRec(n, w, v)
            s == Sent(f)
            a == SentAll(fs)
            l == Len(s)
            m == Len(a)
            L == Len(data)
<1>1. L \in Nat /\ Sendable(n, w, v) /\ next \in pos + 1 .. L + 1 /\ l <= next - pos
  BY MessageBytesAre DEF IsField
<1>2. f \in SendableFields /\ s \in MessageBytes /\ l \in Nat /\ l > 0
  <2>1. f \in SendableFields
    BY <1>1, SendableIs
  <2>2. s \in MessageBytes /\ l = Len(Tag(n, w)) + Len(Body(w, v))
    BY <1>1, SentIs
  <2>3. w \in 0 .. 7 /\ n \in Nat /\ Len(Body(w, v)) \in Nat
    BY <1>1, BodyIs
  <2>4. Len(Tag(n, w)) \in Nat /\ Len(Tag(n, w)) > 0
    BY <2>3, TagIs
  <2>5. l \in Nat /\ l > 0
    BY <2>2, <2>3, <2>4
  <2>. QED
    BY <2>1, <2>2, <2>5
<1>3. SentAll(<<f>> \o fs) = s \o a /\ a \in MessageBytes /\ m \in Nat
  <2>1. a \in MessageBytes
    BY SentAllIs
  <2>. HIDE DEF f
  <2>2. SentAll(<<f>> \o fs) = s \o a
    BY <1>2, SentAllIs
  <2>3. m \in Nat
    BY <2>1, MessageBytesAre
  <2>. QED
    BY <2>1, <2>2, <2>3
<1>4. Len(s \o a) = l + m
  <2>. HIDE DEF s, a
  <2>. QED
    BY <1>2, <1>3, ConcatProperties DEF MessageBytes
<1>5. m <= L + 1 - next
  BY DEF AgainFrom
<1>6. ASSUME NEW d \in MessageBytes, NEW q \in 1 .. pos,
             StandsAt(d, q, s \o a), q + (l + m) = Len(d) + 1
      PROVE  MessageFrom(d)[q] = Decoded(<<f>> \o fs)
  <2>0. q \in Nat /\ q > 0 /\ Len(d) \in Nat
    BY <1>6, MessageBytesAre
  <2>1. StandsAt(d, q, s) /\ StandsAt(d, q + l, a)
    <3>. HIDE DEF s, a
    <3>. QED
      BY <1>2, <1>3, <1>6, <2>0, StandsInParts
  <2>2. w = wireLenDel => (q - 1) + l < TwoTo[WordBits - 1]
    <3>1. (q - 1) + l <= next - 1
      <4>. HIDE DEF l
      <4>. QED
        BY <1>1, <1>2, <1>6
    <3>2. w = wireLenDel => next - 1 < TwoTo[WordBits - 1]
      BY DEF IsField
    <3>3. TwoTo[WordBits - 1] \in Nat /\ next \in Int /\ (q - 1) + l \in Int
      <4>. HIDE DEF l
      <4>. QED
        BY <1>1, <1>2, <1>6, HalfWord
    <3>. HIDE DEF l
    <3>. QED
      BY <1>2, <2>0, <3>1, <3>2, <3>3
  <2>3. FieldAt(d, q) = Field(n, w, v, q + l)
    BY <1>1, <2>0, <2>1, <2>2, FieldStands
  <2>. HIDE DEF l, m
  <2>4. q \in 1 .. Len(d) /\ q + l \in 1 .. next /\ (q + l) + m = Len(d) + 1
    BY <1>1, <1>2, <1>3, <1>6, <2>0
  <2>5. MessageFrom(d)[q + l] = Decoded(fs)
    <3>. DEFINE p == q + l
    <3>1. p \in 1 .. next /\ StandsAt(d, p, SentAll(fs)) /\ p + Len(SentAll(fs)) = Len(d) + 1
      BY <2>1, <2>4 DEF m
    <3>. HIDE DEF p
    <3>2. MessageFrom(d)[p] = Decoded(fs)
      BY <3>1 DEF AgainFrom
    <3>. QED
      BY <3>2 DEF p
  <2>6. MessageFrom(d)[q] = WithRest(Field(n, w, v, q + l), MessageFrom(d))
    BY <2>3, <2>4, MessageFromIs
  <2>7. Decoded(fs).status = "ok" /\ Decoded(fs).fields = fs
    BY DEF Decoded
  <2>. QED
    BY <2>5, <2>6, <2>7, WithRestIs
<1>7. l + m <= L + 1 - pos
  <2>. HIDE DEF l, m, L
  <2>. QED
    BY <1>1, <1>2, <1>3, <1>5
<1>. QED
  BY <1>3, <1>4, <1>6, <1>7 DEF AgainFrom

LEMMA EveryPositionReads ==
    ASSUME NEW data \in MessageBytes
    PROVE  \A pos \in 1 .. Len(data) + 1 : ReadsFrom(data, pos)
<1>. DEFINE N == Len(data) + 1
            T == {pos \in 1 .. N : \A j \in pos .. N : ReadsFrom(data, j)}
<1>1. Len(data) \in Nat /\ N \in Nat
  BY MessageBytesAre
<1>2. 1 <= N => N \in T
  <2>1. N \in 1 .. N /\ \A j \in N .. N : j = N
    BY <1>1
  <2>2. ReadsFrom(data, N)
    BY NothingAgain
  <2>. QED
    BY <2>1, <2>2
<1>3. ASSUME NEW k \in 1 + 1 .. N, k \in T PROVE k - 1 \in T
  <2>. DEFINE pos == k - 1
  <2>1. pos \in 1 .. Len(data) /\ pos \in 1 .. N /\ \A j \in pos .. N : j = pos \/ j \in k .. N
    BY <1>1
  <2>2. \A j \in k .. N : ReadsFrom(data, j)
    BY <1>3
  <2>3. \A j \in pos + 1 .. Len(data) + 1 : j \in k .. N
    BY <1>1
  <2>. HIDE DEF pos
  <2>. DEFINE F == MessageFrom(data)
  <2>4. F[pos] = WithRest(FieldAt(data, pos), F)
    BY <2>1, MessageFromIs
  <2>5. ReadsFrom(data, pos)
    <3>1. CASE FieldAt(data, pos) = Failed
      BY <2>4, <3>1, WithRestIs DEF ReadsFrom
    <3>2. CASE FieldAt(data, pos) = Panics /\ Impossible(data)
      BY <2>4, <3>2, WithRestIs DEF ReadsFrom
    <3>3. CASE \E n, w, v, next : /\ FieldAt(data, pos) = Field(n, w, v, next)
                                  /\ IsField(data, pos, n, w, v, next)
      <4>1. PICK n, w, v, next : /\ FieldAt(data, pos) = Field(n, w, v, next)
                                 /\ IsField(data, pos, n, w, v, next)
        BY <3>3
      <4>2. next \in pos + 1 .. Len(data) + 1 /\ Sendable(n, w, v)
        BY <4>1 DEF IsField
      <4>3. ReadsFrom(data, next)
        BY <2>2, <2>3, <4>2
      <4>. DEFINE r == F[next]
      <4>4. F[pos] = IF r.status # "ok" THEN r ELSE Decoded(<<FieldRec(n, w, v)>> \o r.fields)
        BY <2>4, <4>1, WithRestIs
      <4>5. CASE r = Failed
        <5>1. F[pos] = Failed
          <6>1. Failed.status # "ok"
            BY DEF Failed
          <6>. QED
            BY <4>4, <4>5, <6>1
        <5>. QED
          BY <5>1 DEF ReadsFrom
      <4>6. CASE r = Panics /\ Impossible(data)
        <5>1. F[pos] = Panics
          <6>1. Panics.status # "ok"
            BY DEF Panics
          <6>. QED
            BY <4>4, <4>6, <6>1
        <5>. QED
          BY <4>6, <5>1 DEF ReadsFrom
      <4>7. CASE \E fs \in Seq(SendableFields) : r = Decoded(fs) /\ AgainFrom(data, next, fs)
        <5>1. PICK fs \in Seq(SendableFields) : r = Decoded(fs) /\ AgainFrom(data, next, fs)
          BY <4>7
        <5>2. Decoded(fs).status = "ok" /\ Decoded(fs).fields = fs
          BY DEF Decoded
        <5>. DEFINE gs == <<FieldRec(n, w, v)>> \o fs
        <5>3. F[pos] = Decoded(gs)
          BY <4>4, <5>1, <5>2
        <5>4. AgainFrom(data, pos, gs)
          BY <2>1, <4>1, <5>1, OneMoreAgain
        <5>5. gs \in Seq(SendableFields)
          <6>1. <<FieldRec(n, w, v)>> \in Seq(SendableFields)
            BY <4>2, SendableIs
          <6>. QED
            BY <6>1, ConcatProperties
        <5>. HIDE DEF gs
        <5>. QED
          BY <5>3, <5>4, <5>5 DEF ReadsFrom
      <4>. QED
        BY <4>3, <4>5, <4>6, <4>7 DEF ReadsFrom
    <3>. QED
      BY <2>1, <3>1, <3>2, <3>3, FieldRead
  <2>6. \A j \in pos .. N : ReadsFrom(data, j)
    BY <2>1, <2>2, <2>5
  <2>. QED
    BY <2>1, <2>6 DEF pos
<1>4. 1 .. N \subseteq T
  <2>1. 1 \in Int /\ N \in Int
    BY <1>1
  <2>. HIDE DEF T, N
  <2>. QED
    BY <1>2, <1>3, <2>1, DownwardInduction
<1>5. ASSUME NEW pos \in 1 .. N PROVE ReadsFrom(data, pos)
  <2>1. pos \in pos .. N
    BY <1>1, <1>5
  <2>. QED
    BY <1>4, <1>5, <2>1
<1>. QED
  BY <1>5

\* A message stands at its beginning.
LEMMA StandsInItself ==
    ASSUME NEW d \in MessageBytes
    PROVE  StandsAt(d, 1, d) /\ 1 + Len(d) = Len(d) + 1
<1>1. Len(d) \in Nat
  BY MessageBytesAre
<1>. QED
  BY <1>1 DEF StandsAt

THEOREM FieldsExact ==
    ASSUME message \in Seq(0 .. ByteValues - 1)
    PROVE  FieldsAreTheMessage
<1>. DEFINE m == message
            read == DecodeFields(m)
<1>1. m \in MessageBytes
  BY DEF MessageBytes, MessageByte
<1>. HIDE DEF m
<1>2. read = MessageFrom(m)[1] /\ ReadsFrom(m, 1)
  <2>1. 1 \in 1 .. Len(m) + 1
    BY <1>1, MessageBytesAre
  <2>. QED
    BY <1>1, <2>1, EveryPositionReads, MessageIsFrom
<1>. HIDE DEF read
<1>3. ASSUME read.status = "ok"
      PROVE  LET again == SentAll(read.fields)
             IN  Len(again) <= Len(m) /\ Fields(again) = read.fields
  <2>1. PICK fs \in Seq(SendableFields) : read = Decoded(fs) /\ AgainFrom(m, 1, fs)
    <3>1. Failed.status # "ok" /\ Panics.status # "ok"
      BY DEF Failed, Panics
    <3>. QED
      BY <1>2, <1>3, <3>1 DEF ReadsFrom
  <2>2. read.fields = fs
    BY <2>1 DEF Decoded
  <2>. DEFINE a == SentAll(fs)
  <2>3. a \in MessageBytes
    BY SentAllIs
  <2>4. Len(a) <= Len(m)
    <3>1. Len(m) \in Nat /\ Len(a) \in Nat
      BY <1>1, <2>3, MessageBytesAre
    <3>2. Len(a) <= Len(m) + 1 - 1
      BY <2>1 DEF AgainFrom
    <3>. HIDE DEF a
    <3>. QED
      BY <3>1, <3>2
  <2>5. MessageFrom(a)[1] = Decoded(fs)
    <3>1. StandsAt(a, 1, a) /\ 1 + Len(a) = Len(a) + 1 /\ 1 \in 1 .. 1
      <4>. HIDE DEF a
      <4>. QED
        BY <2>3, StandsInItself
    <3>. QED
      BY <2>1, <2>3, <3>1 DEF AgainFrom
  <2>6. Fields(a) = fs
    <3>1. DecodeFields(a) = Decoded(fs)
      BY <2>5, MessageIsFrom
    <3>2. Decoded(fs).status = "ok" /\ Decoded(fs).fields = fs
      BY DEF Decoded
    <3>. HIDE DEF a
    <3>. QED
      BY <3>1, <3>2 DEF Fields
  <2>. QED
    BY <2>2, <2>4, <2>6
<1>4. ASSUME read.status = "panic" PROVE Impossible(m)
  <2>1. Failed.status # "panic" /\ \A fs : Decoded(fs).status # "panic"
    BY DEF Failed, Decoded
  <2>. QED
    BY <1>2, <1>4, <2>1 DEF ReadsFrom
<1>. QED
  BY <1>3, <1>4 DEF FieldsAreTheMessage, SentAll, Impossible, read, m

-----------------------------------------------------------------------------
(* What is sent is read.                                                   *)

\* Where the bytes of fields are the rest of a message, they are read as those.
ReadWhereSent(fs) ==
    \A d \in MessageBytes : \A q \in 1 .. Len(d) + 1 :
        /\ Len(d) < TwoTo[WordBits - 1]
        /\ StandsAt(d, q, SentAll(fs))
        /\ q + Len(SentAll(fs)) = Len(d) + 1
        => MessageFrom(d)[q] = Decoded(fs)

\* No fields are read at the end of a message.
LEMMA NothingReadWhereSent == ReadWhereSent(<< >>)
<1>1. SentAll(<< >>) = << >> /\ Len(<< >>) = 0
  BY SentAllIs
<1>2. ASSUME NEW d \in MessageBytes, NEW q \in 1 .. Len(d) + 1,
             q + Len(SentAll(<< >>)) = Len(d) + 1
      PROVE  MessageFrom(d)[q] = Decoded(<< >>)
  <2>1. q = Len(d) + 1
    BY <1>1, <1>2, MessageBytesAre
  <2>. QED
    BY <2>1, MessageFromIs
<1>. QED
  BY <1>2 DEF ReadWhereSent

\* One field more is read, and then those that were read without it.
LEMMA OneMoreReadWhereSent ==
    ASSUME NEW f \in SendableFields, NEW fs \in Seq(SendableFields), ReadWhereSent(fs)
    PROVE  ReadWhereSent(<<f>> \o fs)
<1>. DEFINE n == f.number
            w == f.wireType
            v == f.value
            s == Sent(f)
            a == SentAll(fs)
            l == Len(s)
            m == Len(a)
<1>1. f = FieldRec(n, w, v) /\ Sendable(n, w, v) /\ s \in MessageBytes
  BY FieldIsSendable
<1>2. l \in Nat /\ l > 0
  <2>1. l = Len(Tag(n, w)) + Len(Body(w, v))
    <3>1. Len(Sent(FieldRec(n, w, v))) = Len(Tag(n, w)) + Len(Body(w, v))
      BY <1>1, SentIs
    <3>. QED
      BY <1>1, <3>1
  <2>2. w \in 0 .. 7 /\ n \in Nat /\ Len(Body(w, v)) \in Nat
    BY <1>1, BodyIs
  <2>3. Len(Tag(n, w)) \in Nat /\ Len(Tag(n, w)) > 0
    BY <2>2, TagIs
  <2>. QED
    BY <2>1, <2>2, <2>3
<1>3. SentAll(<<f>> \o fs) = s \o a /\ a \in MessageBytes /\ m \in Nat
  BY SentAllIs, MessageBytesAre
<1>4. Len(s \o a) = l + m
  <2>. HIDE DEF s, a
  <2>. QED
    BY <1>1, <1>3, ConcatProperties DEF MessageBytes
<1>5. ASSUME NEW d \in MessageBytes, NEW q \in 1 .. Len(d) + 1, Len(d) < TwoTo[WordBits - 1],
             StandsAt(d, q, s \o a), q + (l + m) = Len(d) + 1
      PROVE  MessageFrom(d)[q] = Decoded(<<f>> \o fs)
  <2>0. q \in Nat /\ q > 0 /\ Len(d) \in Nat
    BY <1>5, MessageBytesAre
  <2>1. StandsAt(d, q, s) /\ StandsAt(d, q + l, a)
    <3>. HIDE DEF s, a
    <3>. QED
      BY <1>1, <1>3, <1>5, <2>0, StandsInParts
  <2>. HIDE DEF s
  <2>2. (q - 1) + l < TwoTo[WordBits - 1]
    <3>1. TwoTo[WordBits - 1] \in Nat
      BY HalfWord
    <3>. HIDE DEF l, m
    <3>. QED
      BY <1>2, <1>3, <1>5, <2>0, <3>1
  <2>. HIDE DEF n, w, v
  <2>3. FieldAt(d, q) = Field(n, w, v, q + l)
    <3>1. s = Sent(FieldRec(n, w, v))
      BY <1>1 DEF s
    <3>2. StandsAt(d, q, Sent(FieldRec(n, w, v)))
      BY <2>1, <3>1
    <3>3. (q - 1) + Len(Sent(FieldRec(n, w, v))) < TwoTo[WordBits - 1]
      BY <2>2, <3>1
    <3>4. FieldAt(d, q) = Field(n, w, v, q + Len(Sent(FieldRec(n, w, v))))
      BY <1>1, <2>0, <3>2, <3>3, FieldStands
    <3>. QED
      BY <3>1, <3>4
  <2>. HIDE DEF l, m
  <2>4. q \in 1 .. Len(d) /\ q + l \in 1 .. Len(d) + 1 /\ (q + l) + m = Len(d) + 1
    BY <1>2, <1>3, <1>5, <2>0
  <2>5. MessageFrom(d)[q + l] = Decoded(fs)
    <3>. DEFINE p == q + l
    <3>1. p \in 1 .. Len(d) + 1 /\ StandsAt(d, p, SentAll(fs)) /\ p + Len(SentAll(fs)) = Len(d) + 1
      BY <2>1, <2>4 DEF m
    <3>. HIDE DEF p
    <3>2. MessageFrom(d)[p] = Decoded(fs)
      BY <1>5, <3>1 DEF ReadWhereSent
    <3>. QED
      BY <3>2 DEF p
  <2>6. MessageFrom(d)[q] = WithRest(Field(n, w, v, q + l), MessageFrom(d))
    BY <2>3, <2>4, MessageFromIs
  <2>7. Decoded(fs).status = "ok" /\ Decoded(fs).fields = fs
    BY DEF Decoded
  <2>8. MessageFrom(d)[q] = Decoded(<<FieldRec(n, w, v)>> \o fs)
    BY <2>5, <2>6, <2>7, WithRestIs
  <2>. QED
    BY <1>1, <2>8
<1>. QED
  BY <1>3, <1>4, <1>5 DEF ReadWhereSent

\* What is sent as fields, whichever and however many they are, is read as
\* those: for every message that a signed word can count the bytes of.
THEOREM SentIsRead ==
    ASSUME NEW fs \in Seq(SendableFields), Len(SentAll(fs)) < TwoTo[WordBits - 1]
    PROVE  DecodeFields(SentAll(fs)) = Decoded(fs)
<1>. DEFINE T == {gs \in Seq(SendableFields) : ReadWhereSent(gs)}
<1>1. << >> \in T
  BY NothingReadWhereSent
<1>2. ASSUME NEW f \in SendableFields, NEW gs \in Seq(SendableFields), gs \in T
      PROVE  <<f>> \o gs \in T
  <2>1. ReadWhereSent(<<f>> \o gs)
    BY <1>2, OneMoreReadWhereSent
  <2>2. <<f>> \o gs \in Seq(SendableFields)
    <3>1. <<f>> \in Seq(SendableFields)
      OBVIOUS
    <3>. QED
      BY <3>1, ConcatProperties
  <2>. QED
    BY <2>1, <2>2
<1>3. fs \in T
  <2>1. Seq(SendableFields) \subseteq T
    <3>. HIDE DEF T
    <3>. QED
      BY <1>1, <1>2, SequenceInduction
  <2>. QED
    BY <2>1
<1>. DEFINE d == SentAll(fs)
<1>4. d \in MessageBytes /\ Len(d) \in Nat
  BY SentAllIs, MessageBytesAre
<1>5. StandsAt(d, 1, d) /\ 1 + Len(d) = Len(d) + 1 /\ 1 \in 1 .. Len(d) + 1
  <2>. HIDE DEF d
  <2>. QED
    BY <1>4, StandsInItself
<1>6. MessageFrom(d)[1] = Decoded(fs)
  BY <1>3, <1>4, <1>5 DEF ReadWhereSent
<1>. QED
  BY <1>6, MessageIsFrom

-----------------------------------------------------------------------------
(* What is found among fields.                                             *)

\* No field of a number and of one of these types is there.
NoMatch(fields, num, types) == Matching(fields, num, types) = {}

\* What is found in two sequences of fields, one behind the other.
LEMMA FoundInTwo ==
    ASSUME NEW S, NEW a \in Seq(S), NEW b \in Seq(S), NEW num, NEW types
    PROVE  /\ NoMatch(a \o b, num, types)
                 <=> NoMatch(a, num, types) /\ NoMatch(b, num, types)
           /\ ~NoMatch(a, num, types) =>
                 Leading(a \o b, num, types) = Leading(a, num, types)
           /\ NoMatch(a, num, types) /\ ~NoMatch(b, num, types) =>
                 Leading(a \o b, num, types) = Leading(b, num, types)
<1>. DEFINE c == a \o b
            A == Matching(a, num, types)
            B == Matching(b, num, types)
            C == Matching(c, num, types)
            n == Len(a)
<1>1. /\ c \in Seq(S) /\ Len(c) = n + Len(b) /\ n \in Nat /\ Len(b) \in Nat
      /\ \A i \in 1 .. n + Len(b) : c[i] = IF i <= n THEN a[i] ELSE b[i - n]
  BY ConcatProperties
<1>2. /\ A \subseteq 1 .. n /\ B \subseteq 1 .. Len(b) /\ C \subseteq 1 .. n + Len(b)
      /\ \A k \in 1 .. n : k \in A <=> a[k].number = num /\ a[k].wireType \in types
      /\ \A k \in 1 .. Len(b) : k \in B <=> b[k].number = num /\ b[k].wireType \in types
      /\ \A k \in 1 .. n + Len(b) : k \in C <=> c[k].number = num /\ c[k].wireType \in types
  <2>. HIDE DEF c, n
  <2>1. DOMAIN a = 1 .. n /\ DOMAIN b = 1 .. Len(b) /\ DOMAIN c = 1 .. n + Len(b)
    BY <1>1 DEF n
  <2>. QED
    BY <2>1 DEF Matching
<1>. HIDE DEF c, n, A, B, C
<1>3. \A k \in 1 .. n : k \in C <=> k \in A
  BY <1>1, <1>2
<1>4. \A k \in 1 .. Len(b) : k + n \in C <=> k \in B
  <2>. TAKE k \in 1 .. Len(b)
  <2>1. k + n \in 1 .. n + Len(b) /\ ~(k + n <= n) /\ (k + n) - n = k
    BY <1>1
  <2>2. c[k + n] = b[k]
    BY <1>1, <2>1
  <2>. QED
    BY <1>2, <2>1, <2>2
<1>5. \A k \in C : k \in A \/ k - n \in B
  <2>. TAKE k \in C
  <2>1. k \in 1 .. n + Len(b)
    BY <1>2
  <2>2. CASE k <= n
    BY <1>1, <1>3, <2>1, <2>2
  <2>3. CASE ~(k <= n)
    <3>1. k - n \in 1 .. Len(b) /\ (k - n) + n = k
      BY <1>1, <2>1, <2>3
    <3>. QED
      BY <1>4, <3>1
  <2>. QED
    BY <2>2, <2>3
<1>6. C = {} <=> A = {} /\ B = {}
  BY <1>2, <1>3, <1>4, <1>5
<1>7. ASSUME A # {}
      PROVE  Leading(c, num, types) = Leading(a, num, types)
  <2>1. PICK m \in A : \A k \in A : m <= k
    <3>1. A \in SUBSET Nat
      BY <1>1, <1>2
    <3>. QED
      BY <1>7, <3>1, LeastNumber
  <2>2. m \in 1 .. n
    BY <1>2
  <2>3. Min(A) = m
    <3>1. \A x \in A : (\A k \in A : x <= k) => x = m
      BY <1>1, <1>2, <2>1, <2>2
    <3>. QED
      BY <2>1, <3>1 DEF Min
  <2>4. m \in C /\ \A k \in C : m <= k
    <3>1. m \in C
      BY <1>3, <2>2
    <3>2. ASSUME NEW k \in C PROVE m <= k
      <4>1. CASE k \in A
        BY <2>1, <4>1
      <4>2. CASE k - n \in B
        BY <1>1, <1>2, <2>2, <4>2
      <4>. QED
        BY <1>5, <4>1, <4>2
    <3>. QED
      BY <3>1, <3>2
  <2>5. Min(C) = m
    <3>1. \A x \in C : (\A k \in C : x <= k) => x = m
      BY <1>1, <1>2, <2>2, <2>4
    <3>. QED
      BY <2>4, <3>1 DEF Min
  <2>6. c[m] = a[m]
    BY <1>1, <2>2
  <2>. QED
    BY <2>3, <2>5, <2>6 DEF Leading, A, C
<1>8. ASSUME A = {}, B # {}
      PROVE  Leading(c, num, types) = Leading(b, num, types)
  <2>1. PICK m \in B : \A k \in B : m <= k
    <3>1. B \in SUBSET Nat
      BY <1>1, <1>2
    <3>. QED
      BY <1>8, <3>1, LeastNumber
  <2>2. m \in 1 .. Len(b)
    BY <1>2
  <2>3. Min(B) = m
    <3>1. \A x \in B : (\A k \in B : x <= k) => x = m
      BY <1>1, <1>2, <2>1, <2>2
    <3>. QED
      BY <2>1, <3>1 DEF Min
  <2>4. m + n \in C /\ \A k \in C : m + n <= k
    <3>1. m + n \in C
      BY <1>4, <2>2
    <3>2. ASSUME NEW k \in C PROVE m + n <= k
      <4>1. k - n \in B /\ k \in 1 .. n + Len(b)
        BY <1>2, <1>5, <1>8
      <4>2. m <= k - n
        BY <2>1, <4>1
      <4>. QED
        BY <1>1, <2>2, <4>1, <4>2
    <3>. QED
      BY <3>1, <3>2
  <2>5. Min(C) = m + n
    <3>1. \A x \in C : (\A k \in C : x <= k) => x = m + n
      BY <1>1, <1>2, <2>2, <2>4
    <3>. QED
      BY <2>4, <3>1 DEF Min
  <2>6. c[m + n] = b[m]
    <3>1. m + n \in 1 .. n + Len(b) /\ ~(m + n <= n) /\ (m + n) - n = m
      BY <1>1, <2>2
    <3>. QED
      BY <1>1, <3>1
  <2>. QED
    BY <2>3, <2>5, <2>6 DEF Leading, B, C
<1>. QED
  BY <1>6, <1>7, <1>8 DEF NoMatch, A, B, C, c

\* The first of a number in two sequences of fields.
LEMMA FirstInTwo ==
    ASSUME NEW S, NEW a \in Seq(S), NEW b \in Seq(S), NEW num, NEW types, NEW default
    PROVE  First(a \o b, num, types, default)
              = IF ~NoMatch(a, num, types) THEN First(a, num, types, default)
                ELSE First(b, num, types, default)
<1>. DEFINE c == a \o b
<1>1. /\ NoMatch(c, num, types) <=> NoMatch(a, num, types) /\ NoMatch(b, num, types)
      /\ ~NoMatch(a, num, types) => Leading(c, num, types) = Leading(a, num, types)
      /\ NoMatch(a, num, types) /\ ~NoMatch(b, num, types)
            => Leading(c, num, types) = Leading(b, num, types)
  BY FoundInTwo
<1>. HIDE DEF c
<1>2. First(c, num, types, default)
              = IF ~NoMatch(a, num, types) THEN First(a, num, types, default)
                ELSE First(b, num, types, default)
  BY <1>1 DEF First, NoMatch
<1>. QED
  BY <1>2 DEF c

\* Where a field is found in three.
LEMMA FirstInThree ==
    ASSUME NEW S, NEW a \in Seq(S), NEW b \in Seq(S), NEW c \in Seq(S),
           NEW num, NEW types, NEW default
    PROVE  /\ First((a \o b) \o c, num, types, default)
                = IF ~NoMatch(a, num, types) THEN First(a, num, types, default)
                  ELSE IF ~NoMatch(b, num, types) THEN First(b, num, types, default)
                  ELSE First(c, num, types, default)
           /\ NoMatch((a \o b) \o c, num, types)
                 <=> /\ NoMatch(a, num, types)
                     /\ NoMatch(b, num, types)
                     /\ NoMatch(c, num, types)
<1>. DEFINE d == a \o b
<1>1. d \in Seq(S)
  BY ConcatProperties
<1>2. /\ First(d, num, types, default)
            = IF ~NoMatch(a, num, types) THEN First(a, num, types, default)
              ELSE First(b, num, types, default)
      /\ NoMatch(d, num, types)
            <=> NoMatch(a, num, types) /\ NoMatch(b, num, types)
  BY FirstInTwo, FoundInTwo
<1>. HIDE DEF d
<1>3. /\ First(d \o c, num, types, default)
            = IF ~NoMatch(d, num, types) THEN First(d, num, types, default)
              ELSE First(c, num, types, default)
      /\ NoMatch(d \o c, num, types)
            <=> NoMatch(d, num, types) /\ NoMatch(c, num, types)
  BY <1>1, FirstInTwo, FoundInTwo
<1>. QED
  BY <1>2, <1>3 DEF d

\* The same in three.
LEMMA LeadingInThree ==
    ASSUME NEW S, NEW a \in Seq(S), NEW b \in Seq(S), NEW c \in Seq(S), NEW num, NEW types
    PROVE  /\ ~NoMatch(a, num, types) =>
                 Leading((a \o b) \o c, num, types) = Leading(a, num, types)
           /\ NoMatch(a, num, types) /\ ~NoMatch(b, num, types) =>
                 Leading((a \o b) \o c, num, types) = Leading(b, num, types)
<1>. DEFINE d == a \o b
<1>1. d \in Seq(S)
  BY ConcatProperties
<1>2. /\ ~NoMatch(a, num, types) => Leading(d, num, types) = Leading(a, num, types)
      /\ NoMatch(a, num, types) /\ ~NoMatch(b, num, types) =>
            Leading(d, num, types) = Leading(b, num, types)
      /\ NoMatch(d, num, types) <=> NoMatch(a, num, types) /\ NoMatch(b, num, types)
  BY FoundInTwo
<1>. HIDE DEF d
<1>3. ~NoMatch(d, num, types) => Leading(d \o c, num, types) = Leading(d, num, types)
  BY <1>1, FoundInTwo
<1>. QED
  BY <1>2, <1>3 DEF d

OneField(n, w, v) == <<FieldRec(n, w, v)>>

\* A field that is left out when it would hold what is read in its absence.
FieldUnless(n, w, val, none) == IF val = none THEN << >> ELSE OneField(n, w, val)

\* Whether the only field is one of them.
LEMMA FoundInOne ==
    ASSUME NEW n, NEW w, NEW v, NEW num, NEW types
    PROVE  /\ NoMatch(OneField(n, w, v), num, types) <=> ~(n = num /\ w \in types)
           /\ n = num /\ w \in types =>
                 Leading(OneField(n, w, v), num, types) = FieldRec(n, w, v)
<1>. DEFINE f == FieldRec(n, w, v)
            fs == <<f>>
<1>1. f.number = n /\ f.wireType = w /\ f.value = v
  BY DEF FieldRec
<1>. HIDE DEF f
<1>2. DOMAIN fs = {1} /\ fs[1] = f
  OBVIOUS
<1>. HIDE DEF fs
<1>3. Matching(fs, num, types) = IF n = num /\ w \in types THEN {1} ELSE {}
  BY <1>1, <1>2 DEF Matching
<1>4. Min({1}) = 1
  BY DEF Min
<1>5. n = num /\ w \in types => Leading(fs, num, types) = f
  BY <1>2, <1>3, <1>4 DEF Leading
<1>. QED
  BY <1>3, <1>5 DEF NoMatch, fs, f, OneField

\* What is then read.
LEMMA FirstInOne ==
    ASSUME NEW n, NEW w, NEW v, NEW num, NEW types, NEW default
    PROVE  First(OneField(n, w, v), num, types, default)
              = IF n = num /\ w \in types THEN v ELSE default
<1>1. FieldRec(n, w, v).value = v
  BY DEF FieldRec
<1>. QED
  BY <1>1, FoundInOne DEF First, NoMatch

\* There is none where there is no field.
LEMMA FoundInNone ==
    ASSUME NEW num, NEW types
    PROVE  NoMatch(<< >>, num, types)
  BY DEF Matching, NoMatch

\* What is sent in one part.
LEMMA SentAllOne ==
    ASSUME NEW f \in SendableFields
    PROVE  <<f>> \in Seq(SendableFields) /\ SentAll(<<f>>) = Sent(f)
<1>0. << >> \in Seq(SendableFields) /\ <<f>> \in Seq(SendableFields)
  OBVIOUS
<1>1. SentAll(<<f>> \o << >>) = Sent(f) \o SentAll(<< >>)
  BY <1>0, SentAllIs
<1>2. <<f>> \o << >> = <<f>>
  OBVIOUS
<1>3. Sent(f) \in Seq(MessageByte)
  BY FieldIsSendable DEF MessageBytes
<1>4. Sent(f) \o << >> = Sent(f)
  BY <1>3, ConcatEmptySeq
<1>5. SentAll(<< >>) = << >>
  BY SentAllIs
<1>. QED
  BY <1>0, <1>1, <1>2, <1>4, <1>5

\* What is sent in two parts.
LEMMA SentAllTwo ==
    ASSUME NEW a \in Seq(SendableFields), NEW b \in Seq(SendableFields)
    PROVE  SentAll(a \o b) = SentAll(a) \o SentAll(b)
<1>. DEFINE T == {s \in Seq(SendableFields) : SentAll(s \o b) = SentAll(s) \o SentAll(b)}
<1>0. SentAll(b) \in Seq(MessageByte)
  BY SentAllIs DEF MessageBytes
<1>1. << >> \in T
  <2>1. << >> \in Seq(SendableFields) /\ << >> \o b = b
    OBVIOUS
  <2>2. << >> \o SentAll(b) = SentAll(b)
    BY <1>0, ConcatEmptySeq
  <2>. QED
    BY <2>1, <2>2, SentAllIs
<1>2. ASSUME NEW f \in SendableFields, NEW s \in Seq(SendableFields), s \in T
      PROVE  <<f>> \o s \in T
  <2>1. <<f>> \in Seq(SendableFields)
    OBVIOUS
  <2>2. <<f>> \o s \in Seq(SendableFields) /\ s \o b \in Seq(SendableFields)
    BY <2>1, ConcatProperties
  <2>3. (<<f>> \o s) \o b = <<f>> \o (s \o b)
    BY <2>1, Associative
  <2>4. SentAll(<<f>> \o (s \o b)) = Sent(f) \o SentAll(s \o b)
    BY <2>2, SentAllIs
  <2>5. SentAll(s \o b) = SentAll(s) \o SentAll(b)
    BY <1>2
  <2>6. Sent(f) \in Seq(MessageByte) /\ SentAll(s) \in Seq(MessageByte)
    BY FieldIsSendable, SentAllIs DEF MessageBytes
  <2>7. (Sent(f) \o SentAll(s)) \o SentAll(b) = Sent(f) \o (SentAll(s) \o SentAll(b))
    BY <1>0, <2>6, Associative
  <2>8. SentAll(<<f>> \o s) = Sent(f) \o SentAll(s)
    BY SentAllIs
  <2>9. SentAll((<<f>> \o s) \o b) = SentAll(<<f>> \o s) \o SentAll(b)
    BY <2>3, <2>4, <2>5, <2>7, <2>8
  <2>. QED
    BY <2>2, <2>9
<1>3. Seq(SendableFields) \subseteq T
  <2>. HIDE DEF T
  <2>. QED
    BY <1>1, <1>2, SequenceInduction
<1>. QED
  BY <1>3

\* The bytes m are those of the fields fs.
Carries(m, fs) == fs \in Seq(SendableFields) /\ m = SentAll(fs)

\* The bytes of two sequences of fields.
LEMMA CarriedTwo ==
    ASSUME NEW x, NEW a, NEW y, NEW b, Carries(x, a), Carries(y, b)
    PROVE  Carries(x \o y, a \o b)
<1>1. a \in Seq(SendableFields) /\ b \in Seq(SendableFields)
  BY DEF Carries
<1>2. a \o b \in Seq(SendableFields)
  BY <1>1, ConcatProperties
<1>. QED
  BY <1>1, <1>2, SentAllTwo DEF Carries

\* The fields are read, by SentIsRead.
LEMMA CarriedIsRead ==
    ASSUME NEW m, NEW fs, Carries(m, fs), Len(m) < TwoTo[WordBits - 1]
    PROVE  DecodeFields(m) = Decoded(fs) /\ Fields(m) = fs
<1>1. DecodeFields(m) = Decoded(fs)
  BY SentIsRead DEF Carries
<1>. QED
  BY <1>1 DEF Fields, Decoded

\* The bytes of one field.
LEMMA CarriedOne ==
    ASSUME NEW n, NEW w, NEW v, Sendable(n, w, v)
    PROVE  Carries(Sent(FieldRec(n, w, v)), OneField(n, w, v))
<1>1. FieldRec(n, w, v) \in SendableFields
  BY SendableIs
<1>. QED
  BY <1>1, SentAllOne DEF Carries, OneField

\* The bytes of none.
LEMMA CarriedNone == Carries(<< >>, << >>)
<1>1. << >> \in Seq(SendableFields)
  OBVIOUS
<1>. QED
  BY <1>1, SentAllIs DEF Carries

\* They are bytes.
LEMMA CarriedBytes ==
    ASSUME NEW m, NEW fs, Carries(m, fs)
    PROVE  m \in MessageBytes /\ Len(m) \in Nat
  BY SentAllIs, MessageBytesAre DEF Carries

\* Whether a field that may be left out is one of a number and types.
LEMMA FoundUnless ==
    ASSUME NEW val, NEW none, NEW n, NEW w, NEW num, NEW types
    PROVE  /\ NoMatch(FieldUnless(n, w, val, none), num, types)
                 <=> ~(val # none /\ n = num /\ w \in types)
           /\ val # none /\ n = num /\ w \in types =>
                 Leading(FieldUnless(n, w, val, none), num, types) = FieldRec(n, w, val)
<1>1. CASE val = none
  <2>1. FieldUnless(n, w, val, none) = << >>
    BY <1>1 DEF FieldUnless
  <2>. QED
    BY <1>1, <2>1, FoundInNone
<1>2. CASE val # none
  <2>1. FieldUnless(n, w, val, none) = OneField(n, w, val)
    BY <1>2 DEF FieldUnless
  <2>. QED
    BY <1>2, <2>1, FoundInOne
<1>. QED
  BY <1>1, <1>2

\* When it is not left out.
LEMMA LeadingUnless ==
    ASSUME NEW val, NEW none, NEW n, NEW w, NEW types, val # none, w \in types
    PROVE  Leading(FieldUnless(n, w, val, none), n, types) = FieldRec(n, w, val)
  BY FoundUnless

\* Left out or not, its value is read.
LEMMA FirstUnless ==
    ASSUME NEW val, NEW none, NEW n, NEW w, NEW num, NEW types
    PROVE  First(FieldUnless(n, w, val, none), num, types, none)
              = IF n = num /\ w \in types THEN val ELSE none
<1>1. FieldRec(n, w, val).value = val
  BY DEF FieldRec
<1>. QED
  BY <1>1, FoundUnless DEF First, NoMatch

\* There are no bytes without fields, and no fields without bytes.
LEMMA CarriedNotEmpty ==
    ASSUME NEW x, NEW fs, Carries(x, fs), fs # << >>
    PROVE  x # << >>
<1>1. SUFFICES ASSUME x = << >> PROVE FALSE
  OBVIOUS
<1>. DEFINE e == << >>
<1>2. Carries(e, e) /\ Len(e) < TwoTo[WordBits - 1]
  BY CarriedNone, HalfWord
<1>3. x = e
  BY <1>1
<1>4. fs # e
  OBVIOUS
<1>. HIDE DEF e
<1>5. Fields(e) = e
  BY <1>2, CarriedIsRead
<1>6. Fields(x) = fs
  <2>1. Carries(x, fs) /\ Len(x) < TwoTo[WordBits - 1]
    BY <1>2, <1>3
  <2>. QED
    BY <2>1, CarriedIsRead
<1>. QED
  BY <1>3, <1>4, <1>5, <1>6

\* So a field has bytes.
LEMMA OneNotEmpty ==
    ASSUME NEW x, NEW n, NEW w, NEW v, Carries(x, OneField(n, w, v))
    PROVE  x # << >>
<1>1. OneField(n, w, v) # << >>
  BY DEF OneField
<1>. QED
  BY <1>1, CarriedNotEmpty

\* Two parts are not empty when one is not.
LEMMA ConcatNotEmpty ==
    ASSUME NEW x \in MessageBytes, NEW y \in MessageBytes, x # << >> \/ y # << >>
    PROVE  x \o y \in MessageBytes /\ x \o y # << >>
<1>1. x \o y \in MessageBytes /\ Len(x \o y) = Len(x) + Len(y)
  BY ConcatProperties DEF MessageBytes
<1>2. Len(x) \in Nat /\ Len(y) \in Nat
  BY MessageBytesAre
<1>3. x \in Seq(MessageByte) /\ y \in Seq(MessageByte)
  BY DEF MessageBytes
<1>4. Len(x) > 0 \/ Len(y) > 0
  BY <1>2, <1>3
<1>5. Len(x \o y) > 0
  <2>. DEFINE z == x \o y
  <2>1. Len(z) = Len(x) + Len(y)
    BY <1>1
  <2>. HIDE DEF z
  <2>2. Len(z) > 0
    BY <1>2, <1>4, <2>1
  <2>. QED
    BY <2>2 DEF z
<1>. QED
  BY <1>1, <1>5

\* Three parts of a message.
LEMMA CarriedThree ==
    ASSUME NEW x, NEW a, NEW y, NEW b, NEW z, NEW c, Carries(x, a), Carries(y, b), Carries(z, c)
    PROVE  /\ Carries((x \o y) \o z, (a \o b) \o c)
           /\ x # << >> => (x \o y) \o z # << >>
<1>. DEFINE xy == x \o y
            ab == a \o b
<1>1. Carries(xy, ab) /\ xy \in MessageBytes
  BY CarriedTwo, CarriedBytes
<1>2. x # << >> => xy # << >>
  BY CarriedBytes, ConcatNotEmpty
<1>. HIDE DEF xy, ab
<1>3. Carries(xy \o z, ab \o c)
  BY <1>1, CarriedTwo
<1>4. xy # << >> => xy \o z # << >>
  <2>1. z \in MessageBytes
    BY CarriedBytes
  <2>. QED
    BY <1>1, <2>1, ConcatNotEmpty
<1>. QED
  BY <1>2, <1>3, <1>4 DEF xy, ab

-----------------------------------------------------------------------------
(* What each write appends.                                                *)

\* The numbers of the fields of all messages, and the widths of what they hold,
\* have room in a word.
Room == 80 <= TwoTo[WordBits] /\ TwoTo[WordBits] <= TwoTo[ByteBits * Fixed64Bytes]

\* WriteBytes leaves out nothing but an empty value.
LEMMA WriteBytesIs ==
    ASSUME Room, NEW n \in 1 .. 9, NEW val \in MessageBytes, Len(val) < TwoTo[WordBits]
    PROVE  /\ Carries(WriteBytes(n, val), FieldUnless(n, wireLenDel, val, << >>))
           /\ Carries(Tag(n, wireLenDel) \o Length(val) \o val,
                      OneField(n, wireLenDel, val))
<1>1. Sendable(n, wireLenDel, val)
  <2>1. TwoTo[WordBits] \in Nat
    BY HalfWord
  <2>2. 8 * n + wireLenDel < TwoTo[WordBits]
    BY <2>1 DEF Room, wireLenDel
  <2>. QED
    BY <2>2 DEF Sendable
<1>2. Sent(FieldRec(n, wireLenDel, val)) = Tag(n, wireLenDel) \o Length(val) \o val
  BY DEF Sent, FieldRec, wireVarint, wire64Bit, wire32Bit, wireLenDel
<1>3. Carries(Tag(n, wireLenDel) \o Length(val) \o val, OneField(n, wireLenDel, val))
  BY <1>1, <1>2, CarriedOne
<1>4. CASE val = << >>
  <2>1. WriteBytes(n, val) = << >> /\ FieldUnless(n, wireLenDel, val, << >>) = << >>
    BY <1>4 DEF WriteBytes, FieldUnless
  <2>. QED
    BY <1>3, <2>1, CarriedNone
<1>5. CASE val # << >>
  <2>1. WriteBytes(n, val) = Tag(n, wireLenDel) \o Length(val) \o val /\ FieldUnless(n, wireLenDel, val, << >>) = OneField(n, wireLenDel, val)
    BY <1>5 DEF WriteBytes, FieldUnless
  <2>. QED
    BY <1>3, <2>1
<1>. QED
  BY <1>4, <1>5

\* WriteUint32 leaves out nothing but zero.
LEMMA WriteNumberIs ==
    ASSUME Room, NEW n \in 1 .. 9, NEW val \in Nat, val < TwoTo[WordBits]
    PROVE  /\ Carries(WriteUint32(n, val), FieldUnless(n, wireVarint, val, 0))
           /\ Carries(Tag(n, wireVarint) \o EncodeVarint(val),
                      OneField(n, wireVarint, val))
<1>1. Sendable(n, wireVarint, val)
  <2>1. TwoTo[WordBits] \in Nat
    BY HalfWord
  <2>2. 8 * n + wireVarint < TwoTo[WordBits]
    BY <2>1 DEF Room, wireVarint
  <2>. QED
    BY <2>2 DEF Sendable
<1>2. Sent(FieldRec(n, wireVarint, val)) = Tag(n, wireVarint) \o EncodeVarint(val)
  BY DEF Sent, FieldRec, wireVarint, wire64Bit, wire32Bit, wireLenDel
<1>3. Carries(Tag(n, wireVarint) \o EncodeVarint(val), OneField(n, wireVarint, val))
  BY <1>1, <1>2, CarriedOne
<1>4. CASE val = 0
  <2>1. WriteUint32(n, val) = << >> /\ FieldUnless(n, wireVarint, val, 0) = << >>
    BY <1>4 DEF WriteUint32, FieldUnless
  <2>. QED
    BY <1>3, <2>1, CarriedNone
<1>5. CASE val # 0
  <2>1. WriteUint32(n, val) = Tag(n, wireVarint) \o EncodeVarint(val) /\ FieldUnless(n, wireVarint, val, 0) = OneField(n, wireVarint, val)
    BY <1>5 DEF WriteUint32, FieldUnless
  <2>. QED
    BY <1>3, <2>1
<1>. QED
  BY <1>4, <1>5

\* WriteFixed32 leaves out nothing.
LEMMA WriteFixed32Is ==
    ASSUME Room, NEW n \in 1 .. 9, NEW val \in Nat, val < Fixed32Values
    PROVE  Carries(WriteFixed32(n, val), OneField(n, wire32Bit, val))
<1>1. Sendable(n, wire32Bit, val)
  <2>1. TwoTo[WordBits] \in Nat
    BY HalfWord
  <2>2. 8 * n + wire32Bit < TwoTo[WordBits]
    BY <2>1 DEF Room, wire32Bit
  <2>. QED
    BY <2>2 DEF Sendable, Fixed32Values
<1>2. Sent(FieldRec(n, wire32Bit, val)) = WriteFixed32(n, val)
  BY DEF Sent, FieldRec, wireVarint, wire64Bit, wire32Bit, wireLenDel
<1>. QED
  BY <1>1, <1>2, CarriedOne

\* WriteBool leaves out nothing.
LEMMA WriteBoolIs ==
    ASSUME Room, NEW n \in 1 .. 9, NEW val \in BOOLEAN
    PROVE  Carries(WriteBool(n, val), OneField(n, wireVarint, IF val THEN 1 ELSE 0))
<1>. DEFINE b == IF val THEN 1 ELSE 0
<1>1. b \in Nat /\ b < TwoTo[WordBits] /\ b < More
  <2>1. TwoTo[WordBits] \in Nat /\ More \in Nat /\ More > 1
    BY HalfWord, MoreIs
  <2>. QED
    BY <2>1 DEF Room
<1>2. <<b>> = EncodeVarint(b)
  <2>. HIDE DEF b
  <2>. QED
    BY <1>1, VarintIs
<1>3. Carries(Tag(n, wireVarint) \o EncodeVarint(b), OneField(n, wireVarint, b))
  <2>. HIDE DEF b
  <2>. QED
    BY <1>1, WriteNumberIs
<1>. QED
  BY <1>2, <1>3 DEF WriteBool

\* WriteDouble leaves out nothing but zero.
LEMMA WriteDoubleIs ==
    ASSUME Room, NEW n \in 1 .. 9, NEW val \in Nat, val < TwoTo[WordBits]
    PROVE  Carries(WriteDouble(n, val), FieldUnless(n, wire64Bit, val, 0))
<1>1. Sendable(n, wire64Bit, val)
  <2>1. TwoTo[WordBits] \in Nat /\ TwoTo[ByteBits * Fixed64Bytes] \in Nat
    <3>1. TwoTo[WordBits] \in Nat
      BY HalfWord
    <3>2. Fixed64Bytes \in Nat
      BY WidthsAreNumbers
    <3>. QED
      BY <3>1, <3>2, ByteWeight
  <2>2. 8 * n + wire64Bit < TwoTo[WordBits] /\ val < TwoTo[ByteBits * Fixed64Bytes]
    BY <2>1 DEF Room, wire64Bit
  <2>. QED
    BY <2>2 DEF Sendable
<1>2. Sent(FieldRec(n, wire64Bit, val)) = Tag(n, wire64Bit) \o LittleEndian(val, Fixed64Bytes)
  BY DEF Sent, FieldRec, wireVarint, wire64Bit, wire32Bit, wireLenDel
<1>3. CASE val = 0
  <2>1. WriteDouble(n, val) = << >> /\ FieldUnless(n, wire64Bit, val, 0) = << >>
    BY <1>3 DEF WriteDouble, FieldUnless
  <2>. QED
    BY <2>1, CarriedNone
<1>4. CASE val # 0
  <2>1. WriteDouble(n, val) = Sent(FieldRec(n, wire64Bit, val)) /\ FieldUnless(n, wire64Bit, val, 0) = OneField(n, wire64Bit, val)
    BY <1>2, <1>4 DEF WriteDouble, FieldUnless
  <2>. QED
    BY <1>1, <2>1, CarriedOne
<1>. QED
  BY <1>3, <1>4

\* What is written is bytes, no fewer than the value has, and not none for a
\* value that is not empty.
LEMMA BytesWritten ==
    ASSUME NEW n \in 1 .. 9, NEW val \in MessageBytes
    PROVE  /\ WriteBytes(n, val) \in MessageBytes
           /\ Len(WriteBytes(n, val)) \in Nat /\ Len(WriteBytes(n, val)) >= Len(val)
           /\ val # << >> => WriteBytes(n, val) # << >>
<1>. DEFINE t == Tag(n, wireLenDel)
            l == Length(val)
<1>1. Len(val) \in Nat
  BY MessageBytesAre
<1>2. t \in Seq(MessageByte) /\ Len(t) \in Nat /\ Len(t) > 0
  <2>1. n \in Nat /\ wireLenDel \in 0 .. 7
    BY DEF wireLenDel
  <2>. QED
    BY <2>1, TagIs DEF MessageBytes
<1>3. l \in Seq(MessageByte) /\ Len(l) \in Nat
  BY <1>1, VarintBytes, VarintNotEmpty DEF Length, MessageBytes
<1>4. val \in Seq(MessageByte)
  BY DEF MessageBytes
<1>. HIDE DEF t, l
<1>5. t \o l \in Seq(MessageByte) /\ Len(t \o l) = Len(t) + Len(l)
  BY <1>2, <1>3, ConcatProperties
<1>6. (t \o l) \o val \in Seq(MessageByte) /\ Len((t \o l) \o val) = Len(t) + Len(l) + Len(val)
  BY <1>4, <1>5, ConcatProperties
<1>7. Len((t \o l) \o val) > 0 /\ (t \o l) \o val # << >>
  BY <1>1, <1>2, <1>3, <1>6
<1>8. WriteBytes(n, val) = IF val = << >> THEN << >> ELSE (t \o l) \o val
  BY DEF WriteBytes, t, l
<1>9. CASE val = << >>
  <2>1. WriteBytes(n, val) = val
    BY <1>8, <1>9
  <2>. QED
    BY <1>1, <1>9, <2>1
<1>10. CASE val # << >>
  <2>1. WriteBytes(n, val) = (t \o l) \o val
    BY <1>8, <1>10
  <2>. QED
    BY <1>1, <1>2, <1>3, <1>6, <1>7, <2>1 DEF MessageBytes
<1>. QED
  BY <1>9, <1>10

-----------------------------------------------------------------------------
(* Messages in messages.                                                   *)

\* The fields fs, of bytes x, are the message in field n, which the fields gs, of
\* bytes y, follow.
Nested(n, x, fs, y, gs) ==
    /\ n \in 1 .. 9
    /\ Carries(x, fs) /\ x # << >>
    /\ Carries(y, gs)
    /\ Len(WriteMessage(n, x) \o y) < TwoTo[WordBits - 1]

OuterFields(n, x, gs) == OneField(n, wireLenDel, x) \o gs

\* Both are read.
LEMMA NestedIs ==
    ASSUME Room, NEW n, NEW x, NEW fs, NEW y, NEW gs, Nested(n, x, fs, y, gs)
    PROVE  /\ Carries(WriteMessage(n, x) \o y, OuterFields(n, x, gs))
           /\ DecodeFields(WriteMessage(n, x) \o y) = Decoded(OuterFields(n, x, gs))
           /\ Fields(WriteMessage(n, x) \o y) = OuterFields(n, x, gs)
           /\ hasBytes(OuterFields(n, x, gs), n) /\ getString(OuterFields(n, x, gs), n) = x
           /\ DecodeFields(x) = Decoded(fs) /\ Fields(x) = fs
<1>. DEFINE a == WriteMessage(n, x)
            f == OneField(n, wireLenDel, x)
            r == f \o gs
<1>. /\ n \in 1 .. 9 /\ x # << >> /\ Carries(x, fs) /\ Carries(y, gs)
     /\ Len(WriteMessage(n, x) \o y) < TwoTo[WordBits - 1]
  BY DEF Nested
<1>1. x \in MessageBytes /\ Len(x) \in Nat /\ y \in MessageBytes /\ Len(y) \in Nat
  BY CarriedBytes
<1>2. a = WriteBytes(n, x) /\ a \in MessageBytes /\ Len(a) \in Nat /\ Len(a) >= Len(x)
  BY <1>1, BytesWritten DEF WriteMessage
<1>3. Len(a \o y) = Len(a) + Len(y)
  <2>. HIDE DEF a
  <2>. QED
    BY <1>1, <1>2, ConcatProperties DEF MessageBytes
<1>4. Len(x) < TwoTo[WordBits - 1] /\ Len(x) < TwoTo[WordBits]
  <2>1. TwoTo[WordBits - 1] \in Nat /\ TwoTo[WordBits] = 2 * TwoTo[WordBits - 1]
    BY HalfWord
  <2>2. Len(a \o y) < TwoTo[WordBits - 1]
    OBVIOUS
  <2>. HIDE DEF a
  <2>. QED
    BY <1>1, <1>2, <1>3, <2>1, <2>2
<1>5. Carries(a, f)
  <2>1. Carries(WriteBytes(n, x), FieldUnless(n, wireLenDel, x, << >>))
    BY <1>1, <1>4, WriteBytesIs
  <2>2. FieldUnless(n, wireLenDel, x, << >>) = f
    BY DEF FieldUnless
  <2>. QED
    BY <1>2, <2>1, <2>2
<1>6. Carries(a \o y, r)
  <2>. HIDE DEF a, f
  <2>. QED
    BY <1>5, CarriedTwo DEF r
<1>7. DecodeFields(a \o y) = Decoded(r) /\ Fields(a \o y) = r
  <2>. HIDE DEF a, r
  <2>. QED
    BY <1>6, CarriedIsRead DEF a
<1>8. hasBytes(r, n) /\ getString(r, n) = x
  <2>. DEFINE types == {wireLenDel}
  <2>1. f \in Seq(SendableFields) /\ gs \in Seq(SendableFields)
    BY <1>5 DEF Carries
  <2>2. ~NoMatch(f, n, types) /\ First(f, n, types, << >>) = x
    <3>1. wireLenDel \in types
      OBVIOUS
    <3>. HIDE DEF types
    <3>. QED
      BY <3>1, FoundInOne, FirstInOne
  <2>. HIDE DEF f, types
  <2>3. ~NoMatch(f \o gs, n, types)
    BY ONLY <2>1, <2>2, FoundInTwo
  <2>4. First(f \o gs, n, types, << >>) = First(f, n, types, << >>)
    BY ONLY <2>1, <2>2, FirstInTwo
  <2>. QED
    BY <2>2, <2>3, <2>4 DEF hasBytes, getString, NoMatch, types
<1>9. DecodeFields(x) = Decoded(fs) /\ Fields(x) = fs
  BY <1>4, CarriedIsRead
<1>10. r = OuterFields(n, x, gs)
  BY DEF OuterFields
<1>. HIDE DEF r
<1>. QED
  BY <1>6, <1>7, <1>8, <1>9, <1>10

\* A message in a field that nothing follows.
LEMMA NestedAlone ==
    ASSUME Room, NEW n \in 1 .. 9, NEW x, x # << >>, NEW fs, Carries(x, fs),
           Len(WriteMessage(n, x)) < TwoTo[WordBits - 1]
    PROVE  LET r == OneField(n, wireLenDel, x)
           IN  /\ Carries(WriteMessage(n, x), r)
               /\ DecodeFields(WriteMessage(n, x)) = Decoded(r)
               /\ Fields(WriteMessage(n, x)) = r
               /\ hasBytes(r, n) /\ getString(r, n) = x
               /\ DecodeFields(x) = Decoded(fs) /\ Fields(x) = fs
<1>. DEFINE a == WriteMessage(n, x)
<1>1. Carries(<< >>, << >>)
  BY CarriedNone
<1>2. a \o << >> = a
  <2>1. a \in MessageBytes
    BY CarriedBytes, BytesWritten DEF WriteMessage
  <2>. HIDE DEF a
  <2>. QED
    BY <2>1, ConcatEmptySeq DEF MessageBytes
<1>3. OneField(n, wireLenDel, x) = OuterFields(n, x, << >>)
  BY DEF OneField, OuterFields
<1>4. Nested(n, x, fs, << >>, << >>)
  <2>1. Len(a \o << >>) < TwoTo[WordBits - 1]
    BY <1>2
  <2>. QED
    BY <1>1, <2>1 DEF Nested
<1>. DEFINE e == << >>
            r == OuterFields(n, x, e)
<1>. HIDE DEF e
<1>5. /\ Carries(a \o e, r) /\ DecodeFields(a \o e) = Decoded(r) /\ Fields(a \o e) = r
      /\ hasBytes(r, n) /\ getString(r, n) = x
      /\ DecodeFields(x) = Decoded(fs) /\ Fields(x) = fs
  <2>1. Nested(n, x, fs, e, e)
    BY <1>4 DEF e
  <2>. QED
    BY <2>1, NestedIs
<1>6. a \o e = a /\ OneField(n, wireLenDel, x) = r
  BY <1>2, <1>3 DEF e
<1>. HIDE DEF a, r
<1>. QED
  BY <1>5, <1>6 DEF a

\* The message in field 1 is what a response is read as.
LEMMA InnerIs ==
    ASSUME NEW m, NEW r, DecodeFields(m) = Decoded(r), hasBytes(r, 1),
           NEW fs, DecodeFields(getString(r, 1)) = Decoded(fs)
    PROVE  Inner(m) = Decoded(fs)
  BY DEF Inner, InnerOf, Decoded

\* The bytes of a message in a field, and of what is in it, are counted.
LEMMA CountedInside ==
    ASSUME NEW n \in 1 .. 9, NEW x \in MessageBytes, NEW y \in MessageBytes,
           Len(WriteMessage(n, x) \o y) < TwoTo[WordBits - 1]
    PROVE  /\ Len(x) < TwoTo[WordBits - 1] /\ Len(x) < TwoTo[WordBits]
           /\ Len(y) < TwoTo[WordBits - 1] /\ Len(y) < TwoTo[WordBits]
<1>. DEFINE a == WriteMessage(n, x)
            H == TwoTo[WordBits - 1]
<1>1. a \in Seq(MessageByte) /\ Len(a) \in Nat /\ Len(a) >= Len(x) /\ y \in Seq(MessageByte)
  BY BytesWritten DEF WriteMessage, MessageBytes
<1>2. Len(x) \in Nat /\ Len(y) \in Nat
  BY MessageBytesAre
<1>3. H \in Nat /\ TwoTo[WordBits] = 2 * H
  BY HalfWord
<1>4. Len(a \o y) < H
  OBVIOUS
<1>. HIDE DEF a, H
<1>5. Len(a \o y) = Len(a) + Len(y)
  BY <1>1, ConcatProperties
<1>. QED
  BY <1>1, <1>2, <1>3, <1>4, <1>5 DEF H

\* The same where nothing follows.
LEMMA CountedAlone ==
    ASSUME NEW n \in 1 .. 9, NEW x \in MessageBytes,
           Len(WriteMessage(n, x)) < TwoTo[WordBits - 1]
    PROVE  Len(x) < TwoTo[WordBits - 1] /\ Len(x) < TwoTo[WordBits]
<1>1. WriteMessage(n, x) \in MessageBytes
  BY BytesWritten DEF WriteMessage
<1>2. << >> \in MessageBytes /\ WriteMessage(n, x) \o << >> = WriteMessage(n, x)
  BY <1>1, ConcatEmptySeq DEF MessageBytes
<1>. QED
  BY <1>2, CountedInside

\* Both parts have fewer bytes than the whole may have.
LEMMA CountedInTwo ==
    ASSUME NEW x \in MessageBytes, NEW y \in MessageBytes, NEW b \in Nat, Len(x \o y) < b
    PROVE  x \o y \in MessageBytes /\ Len(x) < b /\ Len(y) < b
<1>1. Len(x) \in Nat /\ Len(y) \in Nat
  BY MessageBytesAre
<1>2. Len(x \o y) = Len(x) + Len(y) /\ x \o y \in MessageBytes
  BY ConcatProperties DEF MessageBytes
<1>. QED
  BY <1>1, <1>2

\* What is read in a response.
LEMMA InnerWithMore ==
    ASSUME Room, NEW x, NEW fs, NEW y, NEW gs, Nested(1, x, fs, y, gs)
    PROVE  Inner(WriteMessage(1, x) \o y) = Decoded(fs)
<1>. DEFINE r == OuterFields(1, x, gs)
<1>1. DecodeFields(WriteMessage(1, x) \o y) = Decoded(r) /\ hasBytes(r, 1)
      /\ DecodeFields(getString(r, 1)) = Decoded(fs)
  BY NestedIs
<1>. HIDE DEF r
<1>. QED
  BY <1>1, InnerIs

\* The same of a response with nothing behind its message.
LEMMA InnerAlone ==
    ASSUME Room, NEW x, x # << >>, NEW fs, Carries(x, fs),
           Len(WriteMessage(1, x)) < TwoTo[WordBits - 1]
    PROVE  Inner(WriteMessage(1, x)) = Decoded(fs)
<1>. DEFINE n == 1
            r == OneField(n, wireLenDel, x)
<1>1. n \in 1 .. 9 /\ Len(WriteMessage(n, x)) < TwoTo[WordBits - 1]
  OBVIOUS
<1>2. DecodeFields(WriteMessage(n, x)) = Decoded(r) /\ hasBytes(r, n)
      /\ DecodeFields(getString(r, n)) = Decoded(fs)
  <2>. HIDE DEF n
  <2>. QED
    BY <1>1, NestedAlone
<1>. HIDE DEF r
<1>. QED
  BY <1>2, InnerIs

-----------------------------------------------------------------------------
(* Responses.                                                              *)

\* There are at least four bytes.
LEMMA ManyBytes == ByteValues \in Nat /\ ByteValues > 3
<1>1. ByteBits \in Nat /\ ByteBits - 2 \in Nat
  BY CodecAssumption DEF ByteBits
<1>2. TwoTo[ByteBits - 2] \in Nat /\ TwoTo[ByteBits - 2] > 0
  BY <1>1, TwoToType
<1>. DEFINE k == ByteBits - 2
<1>3. (k + 1) \in Nat /\ (k + 1) + 1 = ByteBits /\ k \in Nat
  BY <1>1
<1>. HIDE DEF k
<1>4. TwoTo[k + 1] = 2 * TwoTo[k] /\ TwoTo[(k + 1) + 1] = 2 * TwoTo[k + 1]
  BY <1>3, TwoToIs
<1>5. TwoTo[k] \in Nat /\ TwoTo[k] > 0
  BY <1>2 DEF k
<1>. QED
  BY <1>3, <1>4, <1>5 DEF ByteValues

\* A byte string of one byte.
LEMMA OneByte ==
    ASSUME NEW v \in 0 .. 3
    PROVE  <<v>> \in MessageBytes /\ <<v>> # << >>
<1>1. ByteValues \in Nat /\ ByteValues > 3
  BY ManyBytes
<1>2. v \in MessageByte
  BY <1>1 DEF MessageByte
<1>. QED
  BY <1>2 DEF MessageBytes

\* The names of a device, of which the second is not empty.
LEMMA NamesAreRead ==
    ASSUME Room, NEW name \in MessageBytes, NEW mac \in MessageBytes, mac # << >>,
           NEW x, x = WriteBytes(8, name) \o WriteBytes(9, mac),
           Len(WriteMessage(1, x)) < TwoTo[WordBits - 1]
    PROVE  LET info == ParseDeviceInfo(WriteMessage(1, x)).value
           IN  info.AWSThingName = name /\ info.WiFiMAC = mac
<1>. DEFINE a == WriteBytes(8, name)
            b == WriteBytes(9, mac)
            A == FieldUnless(8, wireLenDel, name, << >>)
            B == FieldUnless(9, wireLenDel, mac, << >>)
            m == WriteMessage(1, x)
<1>1. /\ a \in MessageBytes /\ Len(a) >= Len(name) /\ Len(a) \in Nat
      /\ b \in MessageBytes /\ Len(b) >= Len(mac) /\ Len(b) \in Nat /\ b # << >>
  BY BytesWritten
<1>2. Len(name) \in Nat /\ Len(mac) \in Nat /\ TwoTo[WordBits] \in Nat
  BY MessageBytesAre, HalfWord
<1>3. /\ x \in MessageBytes /\ x # << >>
      /\ Len(name) < TwoTo[WordBits] /\ Len(mac) < TwoTo[WordBits]
  <2>. HIDE DEF a, b
  <2>1. x \in MessageBytes /\ Len(x) = Len(a) + Len(b) /\ x # << >>
    <3>1. x = a \o b
      BY DEF a, b
    <3>2. x \in MessageBytes /\ Len(x) = Len(a) + Len(b)
      BY <1>1, <3>1, ConcatProperties DEF MessageBytes
    <3>3. Len(b) > 0
      BY <1>1 DEF MessageBytes
    <3>. QED
      BY <1>1, <3>2, <3>3
  <2>2. Len(x) < TwoTo[WordBits]
    <3>. DEFINE n == 1
    <3>1. n \in 1 .. 9 /\ Len(WriteMessage(n, x)) < TwoTo[WordBits - 1]
      OBVIOUS
    <3>. HIDE DEF n
    <3>. QED
      BY <2>1, <3>1, CountedAlone
  <2>. QED
    BY <1>1, <1>2, <2>1, <2>2
<1>4. Carries(a, A) /\ Carries(b, B)
  <2>. DEFINE i == 8
              j == 9
  <2>1. i \in 1 .. 9 /\ j \in 1 .. 9
    OBVIOUS
  <2>. HIDE DEF i, j
  <2>2. /\ Carries(WriteBytes(i, name), FieldUnless(i, wireLenDel, name, << >>))
        /\ Carries(WriteBytes(j, mac), FieldUnless(j, wireLenDel, mac, << >>))
    BY <1>3, <2>1, WriteBytesIs
  <2>. QED
    BY <2>2 DEF i, j
<1>5. Carries(x, A \o B)
  <2>1. x = a \o b
    OBVIOUS
  <2>. HIDE DEF a, b, A, B
  <2>. QED
    BY <1>4, <2>1, CarriedTwo
<1>6. Inner(m) = Decoded(A \o B)
  <2>. DEFINE F == A \o B
  <2>1. Carries(x, F) /\ x # << >> /\ Len(m) < TwoTo[WordBits - 1]
    BY <1>3, <1>5
  <2>. HIDE DEF F
  <2>2. Inner(m) = Decoded(F)
    BY <2>1, InnerAlone
  <2>. QED
    BY <2>2 DEF F
<1>7. getString(A \o B, 8) = name /\ getString(A \o B, 9) = mac
  <2>. DEFINE types == {wireLenDel}
              none == << >>
  <2>1. /\ First(A, 8, types, none) = name /\ First(B, 8, types, none) = none
        /\ First(A, 9, types, none) = none /\ First(B, 9, types, none) = mac
        /\ NoMatch(A, 8, types) <=> name = none
        /\ NoMatch(A, 9, types)
    <3>1. wireLenDel \in types
      OBVIOUS
    <3>. HIDE DEF types
    <3>. QED
      BY <3>1, FoundUnless, FirstUnless
  <2>2. A \in Seq(SendableFields) /\ B \in Seq(SendableFields)
    BY <1>4 DEF Carries
  <2>. HIDE DEF A, B, types, none
  <2>3. \A num \in Nat : First(A \o B, num, types, none)
            = IF ~NoMatch(A, num, types) THEN First(A, num, types, none)
              ELSE First(B, num, types, none)
    BY ONLY <2>2, FirstInTwo
  <2>4. First(A \o B, 8, types, none) = name /\ First(A \o B, 9, types, none) = mac
    BY <2>1, <2>3
  <2>. QED
    BY <2>4 DEF getString, types, none
<1>8. Decoded(A \o B).status = "ok" /\ Decoded(A \o B).fields = A \o B
  BY DEF Decoded
<1>. HIDE DEF A, B
<1>. QED
  BY <1>6, <1>7, <1>8 DEF ParseDeviceInfo, IfOk

\* A fixed number has more than one value.
LEMMA Fixed32IsMany == Fixed32Values \in Nat /\ Fixed32Values > 1
<1>1. Fixed32Bytes \in Nat /\ Fixed32Bytes > 0 /\ ByteBits \in Nat /\ ByteBits > 0
  BY WidthsAreNumbers
<1>2. ByteBits * Fixed32Bytes \in Nat /\ ByteBits * Fixed32Bytes > 0
  BY <1>1
<1>. QED
  BY <1>2, TwoToType DEF Fixed32Values

\* An error that is left out is none.
LEMMA ZeroIsZero == Signed(ZigZag(0), Fixed32Values) = 0
<1>1. Fixed32Values \in Nat /\ Fixed32Values > 1
  BY Fixed32IsMany
<1>2. ZigZag(0) = 0
  BY DEF ZigZag
<1>3. 0 % Fixed32Values = 0 /\ Fixed32Values \div 2 > 0
  BY <1>1
<1>. QED
  BY <1>2, <1>3 DEF Signed

\* A status, of which what is asked for may be zero, and what comes with it.
LEMMA StatusIsRead ==
    ASSUME Room, NEW state \in Nat, state < Fixed32Values,
           NEW error \in Nat, error < TwoTo[WordBits], NEW more \in MessageBytes,
           Len(StatusOf(state, error) \o WriteBytes(2, more)) < TwoTo[WordBits - 1]
    PROVE  LET read == ParseStatus(StatusOf(state, error) \o WriteBytes(2, more))
           IN  /\ read.status = "ok"
               /\ read.value.State = state
               /\ read.value.Error = Signed(ZigZag(error), Fixed32Values)
               /\ read.value.DidProvisioningSucceed <=> state = 1
<1>. DEFINE a == WriteFixed32(1, state)
            b == WriteUint32(2, error)
            c == WriteBool(3, state = 1)
            bit == IF state = 1 THEN 1 ELSE 0
            A == OneField(1, wire32Bit, state)
            B == FieldUnless(2, wireVarint, error, 0)
            C == OneField(3, wireVarint, bit)
            x == (a \o b) \o c
            y == WriteBytes(2, more)
            G == FieldUnless(2, wireLenDel, more, << >>)
            F == (A \o B) \o C
<1>1. Carries(a, A) /\ Carries(b, B) /\ Carries(c, C)
  <2>1. Carries(a, A)
    <3>. DEFINE n == 1
    <3>1. n \in 1 .. 9
      OBVIOUS
    <3>. HIDE DEF n
    <3>2. Carries(WriteFixed32(n, state), OneField(n, wire32Bit, state))
      BY <3>1, WriteFixed32Is
    <3>. QED
      BY <3>2 DEF n
  <2>2. Carries(b, B)
    <3>. DEFINE n == 2
    <3>1. n \in 1 .. 9
      OBVIOUS
    <3>. HIDE DEF n
    <3>2. Carries(WriteUint32(n, error), FieldUnless(n, wireVarint, error, 0))
      BY <3>1, WriteNumberIs
    <3>. QED
      BY <3>2 DEF n
  <2>3. Carries(c, C)
    <3>. DEFINE n == 3
    <3>1. n \in 1 .. 9
      OBVIOUS
    <3>. HIDE DEF n
    <3>2. CASE state = 1
      <4>1. Carries(WriteBool(n, TRUE), OneField(n, wireVarint, 1))
        BY <3>1, WriteBoolIs
      <4>2. WriteBool(n, state = 1) = WriteBool(n, TRUE) /\ bit = 1
        BY <3>2 DEF WriteBool
      <4>. QED
        BY <4>1, <4>2 DEF n
    <3>3. CASE state # 1
      <4>1. Carries(WriteBool(n, FALSE), OneField(n, wireVarint, 0))
        BY <3>1, WriteBoolIs
      <4>2. WriteBool(n, state = 1) = WriteBool(n, FALSE) /\ bit = 0
        BY <3>3 DEF WriteBool
      <4>. QED
        BY <4>1, <4>2 DEF n
    <3>. QED
      BY <3>2, <3>3
  <2>. QED
    BY <2>1, <2>2, <2>3
<1>2. a # << >> /\ a \in MessageBytes /\ b \in MessageBytes /\ c \in MessageBytes
  <2>. HIDE DEF a, b, c, B, C
  <2>. QED
    BY <1>1, OneNotEmpty, CarriedBytes
<1>3. Carries(x, F) /\ x \in MessageBytes /\ x # << >>
  <2>. HIDE DEF a, b, c, A, B, C
  <2>1. Carries(a \o b, A \o B) /\ a \o b \in MessageBytes /\ a \o b # << >>
    BY <1>1, <1>2, CarriedTwo, ConcatNotEmpty
  <2>. DEFINE ab == a \o b
              AB == A \o B
  <2>2. Carries(ab, AB) /\ ab \in MessageBytes /\ ab # << >>
    BY <2>1
  <2>. HIDE DEF ab, AB
  <2>3. Carries(ab \o c, AB \o C) /\ ab \o c \in MessageBytes /\ ab \o c # << >>
    BY <1>1, <1>2, <2>2, CarriedTwo, ConcatNotEmpty
  <2>. QED
    BY <2>3 DEF ab, AB
<1>4. StatusOf(state, error) = WriteMessage(1, x)
  BY DEF StatusOf
<1>. HIDE DEF x, F, G
<1>5. y \in MessageBytes
  BY BytesWritten
<1>6. Len(more) < TwoTo[WordBits]
  <2>1. Len(y) >= Len(more) /\ Len(y) \in Nat
    BY BytesWritten
  <2>2. Len(more) \in Nat /\ TwoTo[WordBits] \in Nat
    BY MessageBytesAre, HalfWord
  <2>3. Len(WriteMessage(1, x) \o y) < TwoTo[WordBits - 1]
    BY <1>4
  <2>. DEFINE n == 1
  <2>4. n \in 1 .. 9 /\ Len(WriteMessage(n, x) \o y) < TwoTo[WordBits - 1]
    BY <2>3
  <2>. HIDE DEF y, n
  <2>5. Len(y) < TwoTo[WordBits]
    BY <1>3, <1>5, <2>4, CountedInside
  <2>. QED
    BY <2>1, <2>2, <2>5
<1>7. Carries(y, G)
  <2>. DEFINE n == 2
  <2>1. n \in 1 .. 9
    OBVIOUS
  <2>. HIDE DEF n
  <2>2. Carries(WriteBytes(n, more), FieldUnless(n, wireLenDel, more, << >>))
    BY <1>6, <2>1, WriteBytesIs
  <2>. QED
    BY <2>2 DEF n, G
<1>8. Inner(WriteMessage(1, x) \o y) = Decoded(F)
  <2>1. Nested(1, x, F, y, G)
    BY <1>3, <1>4, <1>7 DEF Nested
  <2>. HIDE DEF y
  <2>. QED
    BY <2>1, InnerWithMore
<1>9. A \in Seq(SendableFields) /\ B \in Seq(SendableFields) /\ C \in Seq(SendableFields)
  BY <1>1 DEF Carries
<1>10. getFixed32(F, 1) = state
  <2>. DEFINE types == {wire32Bit}
  <2>1. ~NoMatch(A, 1, types) /\ First(A, 1, types, 0) = state
    <3>1. wire32Bit \in types
      OBVIOUS
    <3>. HIDE DEF types
    <3>. QED
      BY <3>1, FoundInOne, FirstInOne
  <2>. HIDE DEF A, B, C, types
  <2>2. First((A \o B) \o C, 1, types, 0) = First(A, 1, types, 0)
    BY <1>9, <2>1, FirstInThree
  <2>. QED
    BY <2>1, <2>2 DEF getFixed32, types, F
<1>11. getBool(F, 3) <=> state = 1
  <2>. DEFINE types == {wireVarint}
  <2>1. NoMatch(A, 3, types) /\ NoMatch(B, 3, types) /\ First(C, 3, types, 0) = bit
    <3>1. wireVarint \in types
      OBVIOUS
    <3>. HIDE DEF types, bit
    <3>2. NoMatch(A, 3, types)
      BY FoundInOne
    <3>3. NoMatch(B, 3, types)
      BY FoundUnless
    <3>. QED
      BY <3>1, <3>2, <3>3, FirstInOne
  <2>. HIDE DEF A, B, C, types
  <2>2. First((A \o B) \o C, 3, types, 0) = bit
    BY <1>9, <2>1, FirstInThree
  <2>. QED
    BY <2>2 DEF getBool, types, F
<1>12. getInt32Signed(F, 2) = Signed(ZigZag(error), Fixed32Values)
  <2>. DEFINE types == {wireVarint, wire32Bit}
  <2>1. /\ NoMatch(A, 2, types) /\ NoMatch(C, 2, types) /\ First(C, 2, types, 0) = 0
        /\ NoMatch(B, 2, types) <=> error = 0
        /\ error # 0 => Leading(B, 2, types) = FieldRec(2, wireVarint, error)
        /\ First(B, 2, types, 0) = error
    <3>1. wireVarint \in types
      OBVIOUS
    <3>. HIDE DEF types, bit
    <3>2. NoMatch(A, 2, types) /\ NoMatch(C, 2, types)
      BY FoundInOne
    <3>3. First(C, 2, types, 0) = 0
      BY FirstInOne
    <3>4. /\ NoMatch(B, 2, types) <=> error = 0
          /\ error # 0 => Leading(B, 2, types) = FieldRec(2, wireVarint, error)
      <4>1. NoMatch(B, 2, types) <=> error = 0
        BY <3>1, FoundUnless
      <4>2. error # 0 => Leading(B, 2, types) = FieldRec(2, wireVarint, error)
        BY <3>1, LeadingUnless
      <4>. QED
        BY <4>1, <4>2
    <3>5. First(B, 2, types, 0) = error
      BY <3>1, FirstUnless
    <3>. QED
      BY <3>2, <3>3, <3>4, <3>5
  <2>. HIDE DEF A, B, C, types
  <2>2. /\ First((A \o B) \o C, 2, types, 0) = error
        /\ NoMatch((A \o B) \o C, 2, types) <=> error = 0
    BY <1>9, <2>1, FirstInThree
  <2>3. error # 0 => Leading((A \o B) \o C, 2, types) = FieldRec(2, wireVarint, error)
    BY <1>9, <2>1, LeadingInThree
  <2>4. FieldRec(2, wireVarint, error).wireType = wireVarint
    BY DEF FieldRec
  <2>5. /\ First(F, 2, types, 0) = error
        /\ NoMatch(F, 2, types) <=> error = 0
        /\ error # 0 => Leading(F, 2, types).wireType = wireVarint
    BY <2>2, <2>3, <2>4 DEF F
  <2>6. CASE error = 0
    <3>1. Matching(F, 2, types) = {}
      BY <2>5, <2>6 DEF NoMatch
    <3>. QED
      BY <2>6, <3>1, ZeroIsZero DEF getInt32Signed, types
  <2>7. CASE error # 0
    <3>1. Matching(F, 2, types) # {} /\ Leading(F, 2, types).wireType = wireVarint
          /\ First(F, 2, types, 0) = error
      BY <2>5, <2>7 DEF NoMatch
    <3>. QED
      BY <3>1 DEF getInt32Signed, types
  <2>. QED
    BY <2>6, <2>7
<1>13. Decoded(F).status = "ok" /\ Decoded(F).fields = F
  BY DEF Decoded
<1>14. StatusOf(state, error) \o WriteBytes(2, more) = WriteMessage(1, x) \o y
  BY <1>4
<1>. DEFINE m == StatusOf(state, error) \o WriteBytes(2, more)
<1>15. Inner(m) = Decoded(F)
  BY <1>8, <1>14
<1>. HIDE DEF m
<1>16. LET read == ParseStatus(m)
       IN  /\ read.status = "ok"
           /\ read.value.State = state
           /\ read.value.Error = Signed(ZigZag(error), Fixed32Values)
           /\ read.value.DidProvisioningSucceed <=> state = 1
  BY <1>10, <1>11, <1>12, <1>13, <1>15 DEF ParseStatus, IfOk
<1>. QED
  BY <1>16 DEF m

\* The battery, whatever name comes with it.
LEMMA BatteryIsRead ==
    ASSUME Room, NEW name \in MessageBytes, Len(name) < TwoTo[WordBits],
           NEW x, x = (WriteBool(1, FALSE) \o WriteBool(2, TRUE)) \o WriteBytes(8, name),
           Len(WriteMessage(1, x)) < TwoTo[WordBits - 1]
    PROVE  LET battery == ParseBatteryInfo(WriteMessage(1, x)).value
           IN  ~battery.IsPluggedIn /\ battery.IsCharging
<1>. DEFINE a == WriteBool(1, FALSE)
            b == WriteBool(2, TRUE)
            c == WriteBytes(8, name)
            A == OneField(1, wireVarint, 0)
            B == OneField(2, wireVarint, 1)
            C == FieldUnless(8, wireLenDel, name, << >>)
            F == (A \o B) \o C
            m == WriteMessage(1, x)
<1>1. Carries(a, A) /\ Carries(b, B) /\ Carries(c, C)
  <2>. DEFINE i == 1
              j == 2
              k == 8
  <2>1. i \in 1 .. 9 /\ j \in 1 .. 9 /\ k \in 1 .. 9
    OBVIOUS
  <2>. HIDE DEF i, j, k
  <2>2. /\ Carries(WriteBool(i, FALSE), OneField(i, wireVarint, 0))
        /\ Carries(WriteBool(j, TRUE), OneField(j, wireVarint, 1))
    BY <2>1, WriteBoolIs
  <2>3. Carries(WriteBytes(k, name), FieldUnless(k, wireLenDel, name, << >>))
    BY <2>1, WriteBytesIs
  <2>. QED
    BY <2>2, <2>3 DEF i, j, k
<1>2. Carries(x, F) /\ x # << >>
  <2>1. a # << >>
    <3>. HIDE DEF a
    <3>. QED
      BY <1>1, OneNotEmpty
  <2>. HIDE DEF a, b, c, A, B, C
  <2>2. Carries((a \o b) \o c, (A \o B) \o C) /\ (a \o b) \o c # << >>
    BY <1>1, <2>1, CarriedThree
  <2>3. x = (a \o b) \o c
    BY DEF a, b, c
  <2>. DEFINE z == (a \o b) \o c
  <2>4. x = z
    BY <2>3
  <2>5. Carries(z, F) /\ z # << >>
    BY <2>2
  <2>. HIDE DEF z, F
  <2>. QED
    BY <2>4, <2>5
<1>3. Inner(m) = Decoded(F)
  <2>. HIDE DEF F
  <2>. QED
    BY <1>2, InnerAlone
<1>4. A \in Seq(SendableFields) /\ B \in Seq(SendableFields) /\ C \in Seq(SendableFields)
  BY <1>1 DEF Carries
<1>5. ~getBool(F, 1) /\ getBool(F, 2)
  <2>. DEFINE types == {wireVarint}
  <2>1. /\ ~NoMatch(A, 1, types) /\ First(A, 1, types, 0) = 0
        /\ NoMatch(A, 2, types) /\ ~NoMatch(B, 2, types) /\ First(B, 2, types, 0) = 1
    <3>1. wireVarint \in types
      OBVIOUS
    <3>. HIDE DEF types
    <3>2. ~NoMatch(A, 1, types) /\ NoMatch(A, 2, types) /\ ~NoMatch(B, 2, types)
      BY <3>1, FoundInOne
    <3>3. First(A, 1, types, 0) = 0 /\ First(B, 2, types, 0) = 1
      BY <3>1, FirstInOne
    <3>. QED
      BY <3>2, <3>3
  <2>. HIDE DEF A, B, C, types
  <2>2. First((A \o B) \o C, 1, types, 0) = 0 /\ First((A \o B) \o C, 2, types, 0) = 1
    BY <1>4, <2>1, FirstInThree
  <2>. QED
    BY <2>2 DEF getBool, types
<1>6. Decoded(F).status = "ok" /\ Decoded(F).fields = F
  BY DEF Decoded
<1>. HIDE DEF F
<1>. QED
  BY <1>3, <1>5, <1>6 DEF ParseBatteryInfo, IfOk

-----------------------------------------------------------------------------
(* A key in quotes.                                                        *)

\* What a byte of a key is quoted as, and what it is replaced by in a turn.
EscapedByte(c) == IF c \in {Quote, Backslash} THEN <<Backslash, c>> ELSE <<c>>
ReplacedByte(c, old, new) == IF c = old THEN new ELSE <<c>>

ReplacedIn(t, c, s, old, new) ==
    /\ Replaced(s, old, new) \in MessageBytes
    /\ Replaced(t, old, new) = ReplacedByte(c, old, new) \o Replaced(s, old, new)

\* Bytes are replaced one by one.
LEMMA ReplacedMore ==
    ASSUME NEW c \in MessageByte, NEW s \in MessageBytes, NEW old, NEW new \in MessageBytes
    PROVE  ReplacedIn(<<c>> \o s, c, s, old, new)
<1>. DEFINE R(t) == [k \in DOMAIN t |-> ReplacedByte(t[k], old, new)]
            x == ReplacedByte(c, old, new)
            t == <<c>> \o s
            y == R(s)
            r == <<x>> \o y
<1>1. \A b \in MessageByte : ReplacedByte(b, old, new) \in Seq(MessageByte)
  <2>. TAKE b \in MessageByte
  <2>1. <<b>> \in Seq(MessageByte)
    OBVIOUS
  <2>. QED
    BY <2>1 DEF ReplacedByte, MessageBytes
<1>2. ASSUME NEW u \in Seq(MessageByte)
      PROVE  /\ R(u) \in Seq(Seq(MessageByte)) /\ Len(R(u)) = Len(u)
             /\ \A k \in 1 .. Len(u) : R(u)[k] = ReplacedByte(u[k], old, new)
             /\ Replaced(u, old, new) = FlattenSeq(R(u))
  <2>1. DOMAIN u = 1 .. Len(u) /\ Len(u) \in Nat
    OBVIOUS
  <2>2. \A k \in 1 .. Len(u) : ReplacedByte(u[k], old, new) \in Seq(MessageByte)
    BY <1>1
  <2>3. R(u) = [k \in 1 .. Len(u) |-> ReplacedByte(u[k], old, new)]
    BY <2>1
  <2>4. Replaced(u, old, new) = FlattenSeq(R(u))
    BY DEF Replaced, ReplacedByte
  <2>. HIDE DEF R
  <2>. QED
    BY <2>1, <2>2, <2>3, <2>4
<1>3. s \in Seq(MessageByte) /\ Len(s) \in Nat /\ x \in Seq(MessageByte)
  BY <1>1 DEF MessageBytes
<1>4. <<c>> \in Seq(MessageByte) /\ Len(<<c>>) = 1 /\ <<c>>[1] = c
  OBVIOUS
<1>5. /\ t \in Seq(MessageByte) /\ Len(t) = 1 + Len(s)
      /\ \A k \in 1 .. 1 + Len(s) : t[k] = IF k <= 1 THEN <<c>>[k] ELSE s[k - 1]
  BY <1>3, <1>4, ConcatProperties
<1>6. <<x>> \in Seq(Seq(MessageByte)) /\ Len(<<x>>) = 1 /\ <<x>>[1] = x
  BY <1>3
<1>7. R(s) \in Seq(Seq(MessageByte)) /\ Len(R(s)) = Len(s)
  BY <1>2, <1>3
<1>8. \A k \in 1 .. Len(s) : R(s)[k] = ReplacedByte(s[k], old, new)
  BY <1>2, <1>3
<1>9. Replaced(s, old, new) = FlattenSeq(R(s))
  BY <1>2, <1>3
<1>. HIDE DEF t
<1>10. /\ R(t) \in Seq(Seq(MessageByte)) /\ Len(R(t)) = Len(t)
       /\ \A k \in 1 .. Len(t) : R(t)[k] = ReplacedByte(t[k], old, new)
  BY <1>2, <1>5
<1>11. Replaced(t, old, new) = FlattenSeq(R(t))
  BY <1>2, <1>5
<1>. HIDE DEF R
<1>12. /\ r \in Seq(Seq(MessageByte)) /\ Len(r) = 1 + Len(s)
       /\ \A k \in 1 .. 1 + Len(s) : r[k] = IF k <= 1 THEN <<x>>[k] ELSE R(s)[k - 1]
  <2>1. y \in Seq(Seq(MessageByte)) /\ Len(y) = Len(s) /\ y = R(s)
    BY <1>7
  <2>. HIDE DEF x, y
  <2>2. /\ r \in Seq(Seq(MessageByte)) /\ Len(r) = 1 + Len(y)
        /\ \A k \in 1 .. 1 + Len(y) : r[k] = IF k <= 1 THEN <<x>>[k] ELSE y[k - 1]
    BY <1>6, <2>1, ConcatProperties
  <2>. QED
    BY <2>1, <2>2
<1>. HIDE DEF r
<1>13. ASSUME NEW k \in 1 .. Len(r) PROVE R(t)[k] = r[k]
  <2>1. k \in 1 .. 1 + Len(s) /\ k \in 1 .. Len(t)
    BY <1>5, <1>12
  <2>2. CASE k <= 1
    <3>1. k = 1
      BY <1>3, <2>1, <2>2
    <3>2. t[k] = c /\ r[k] = x
      BY <1>4, <1>5, <1>6, <1>12, <2>1, <2>2, <3>1
    <3>. QED
      BY <1>10, <2>1, <3>2
  <2>3. CASE ~(k <= 1)
    <3>1. k - 1 \in 1 .. Len(s)
      BY <1>3, <2>1, <2>3
    <3>2. t[k] = s[k - 1] /\ r[k] = R(s)[k - 1]
      BY <1>5, <1>12, <2>1, <2>3
    <3>. QED
      BY <1>8, <1>10, <2>1, <3>1, <3>2
  <2>. QED
    BY <2>2, <2>3
<1>14. R(t) = r
  <2>1. Len(R(t)) = Len(r) /\ \A k \in 1 .. Len(R(t)) : R(t)[k] = r[k]
    BY <1>5, <1>10, <1>12, <1>13
  <2>. QED
    BY <1>10, <1>12, <2>1, SeqEqual
<1>15. FlattenSeq(r) = x \o FlattenSeq(R(s))
  <2>. HIDE DEF x
  <2>. QED
    BY <1>3, <1>7, FlattenMore DEF r
<1>16. FlattenSeq(R(s)) \in Seq(MessageByte)
  BY <1>7, FlattenType
<1>. QED
  BY <1>9, <1>11, <1>14, <1>15, <1>16 DEF ReplacedIn, t, MessageBytes

\* Nothing is replaced in nothing.
LEMMA ReplacedNothing ==
    ASSUME NEW old, NEW new
    PROVE  Replaced(<< >>, old, new) = << >>
<1>1. [k \in DOMAIN << >> |-> IF << >>[k] = old THEN new ELSE <<(<< >>)[k]>>] = << >>
  OBVIOUS
<1>. QED
  BY <1>1, FlattenNothing DEF Replaced

\* Quotes and backslashes are bytes.
LEMMA MarksAreBytes == Quote \in MessageByte /\ Backslash \in MessageByte
<1>1. ByteValues \in Nat /\ ByteValues > 3
  BY ManyBytes
<1>. QED
  BY <1>1 DEF MessageByte, Quote, Backslash

\* Nothing is escaped in nothing.
LEMMA EscapedNothing == Escaped(<< >>) = << >>
  BY ReplacedNothing DEF Escaped

\* A key is escaped byte by byte: the second replacement does not undo the first.
LEMMA EscapedMore ==
    ASSUME NEW c \in MessageByte, NEW s \in MessageBytes
    PROVE  /\ Escaped(s) \in MessageBytes
           /\ Escaped(<<c>> \o s) = EscapedByte(c) \o Escaped(s)
<1>. DEFINE two == <<Backslash, Backslash>>
            mark == <<Backslash, Quote>>
            r == Replaced(s, Backslash, two)
            e == Replaced(r, Quote, mark)
            back == <<Backslash>>
<1>0. Quote \in MessageByte /\ Backslash \in MessageByte
  BY MarksAreBytes
<1>1. two \in MessageBytes /\ mark \in MessageBytes
  BY <1>0 DEF MessageBytes
<1>. HIDE DEF two, mark
<1>2. /\ r \in MessageBytes
      /\ Replaced(<<c>> \o s, Backslash, two) = ReplacedByte(c, Backslash, two) \o r
  <2>1. ReplacedIn(<<c>> \o s, c, s, Backslash, two)
    BY <1>1, ReplacedMore
  <2>. QED
    BY <2>1 DEF ReplacedIn
<1>. HIDE DEF r
<1>3. e \in MessageBytes
  <2>1. ReplacedIn(<<Quote>> \o r, Quote, r, Quote, mark)
    BY <1>0, <1>1, <1>2, ReplacedMore
  <2>. QED
    BY <2>1 DEF ReplacedIn
<1>4. \A b \in MessageByte : Replaced(<<b>> \o r, Quote, mark) = ReplacedByte(b, Quote, mark) \o e
  <2>. TAKE b \in MessageByte
  <2>1. ReplacedIn(<<b>> \o r, b, r, Quote, mark)
    BY <1>1, <1>2, ReplacedMore
  <2>. QED
    BY <2>1 DEF ReplacedIn
<1>. HIDE DEF e
<1>5. Escaped(<<c>> \o s) = Replaced(ReplacedByte(c, Backslash, two) \o r, Quote, mark)
  BY <1>2 DEF Escaped, two, mark
<1>6. CASE c = Backslash
  <2>. DEFINE u == back \o r
  <2>1. back \in Seq(MessageByte) /\ r \in Seq(MessageByte) /\ e \in Seq(MessageByte)
    BY <1>0, <1>2, <1>3 DEF MessageBytes
  <2>2. two = back \o back /\ EscapedByte(c) = back \o back
    BY <1>6 DEF two, EscapedByte
  <2>3. ReplacedByte(Backslash, Quote, mark) = back
    BY DEF ReplacedByte, Quote, Backslash
  <2>. HIDE DEF back
  <2>4. u \in MessageBytes
    BY <2>1, ConcatProperties DEF MessageBytes
  <2>5. (back \o back) \o r = back \o u
    BY <2>1, Associative
  <2>6. ReplacedByte(c, Backslash, two) = two
    BY <1>6 DEF ReplacedByte
  <2>7. Replaced(u, Quote, mark) = back \o e
    BY <1>0, <1>4, <2>3 DEF back
  <2>. HIDE DEF u
  <2>8. Replaced(back \o u, Quote, mark) = back \o (back \o e)
    <3>1. Replaced(<<Backslash>> \o u, Quote, mark)
            = ReplacedByte(Backslash, Quote, mark) \o Replaced(u, Quote, mark)
      <4>1. ReplacedIn(<<Backslash>> \o u, Backslash, u, Quote, mark)
        BY <1>0, <1>1, <2>4, ReplacedMore
      <4>. QED
        BY <4>1 DEF ReplacedIn
    <3>. QED
      BY <2>3, <2>7, <3>1 DEF back
  <2>9. (back \o back) \o e = back \o (back \o e)
    BY <2>1, Associative
  <2>10. Escaped(s) = e
    BY DEF Escaped, e, r, two, mark
  <2>. QED
    BY <1>3, <1>5, <2>2, <2>5, <2>6, <2>8, <2>9, <2>10
<1>7. CASE c # Backslash
  <2>1. ReplacedByte(c, Backslash, two) = <<c>>
    BY <1>7 DEF ReplacedByte
  <2>2. ReplacedByte(c, Quote, mark) = EscapedByte(c)
    BY <1>7 DEF ReplacedByte, EscapedByte, mark
  <2>3. Escaped(s) = e
    BY DEF Escaped, e, r, two, mark
  <2>. QED
    BY <1>3, <1>4, <1>5, <2>1, <2>2, <2>3
<1>. QED
  BY <1>6, <1>7


UnescapeStep(q, k, from) ==
    IF k >= Len(q) THEN << >>
    ELSE IF q[k] = Backslash THEN <<q[k + 1]>> \o from[k + 2]
    ELSE <<q[k]>> \o from[k + 1]

UnescapedFrom(q) == CHOOSE from : from = [k \in 1 .. Len(q) + 1 |-> UnescapeStep(q, k, from)]

\* The key is read behind the first quote.
LEMMA UnescapedIs ==
    ASSUME NEW q
    PROVE  Unescaped(q) = UnescapedFrom(q)[2]
  BY DEF Unescaped, UnescapedFrom, UnescapeStep

\* What is read from a position on is what a step makes of the next ones.
LEMMA UnescapedFromIs ==
    ASSUME NEW q \in MessageBytes, NEW k \in 1 .. Len(q) + 1
    PROVE  UnescapedFrom(q)[k] = UnescapeStep(q, k, UnescapedFrom(q))
<1>. DEFINE N == Len(q) + 1
            S == 1 .. N
            V == MessageBytes
            rank == [i \in S |-> N - i]
            Step == [i \in S |-> [g \in [S -> V] |-> UnescapeStep(q, i, g)]]
<1>1. Len(q) \in Nat /\ N \in Nat /\ rank \in [S -> 0 .. N]
  BY MessageBytesAre
<1>2. Step \in [S -> [[S -> V] -> V]]
  <2>1. ASSUME NEW i \in S, NEW g \in [S -> V] PROVE UnescapeStep(q, i, g) \in V
    <3>1. << >> \in Seq(MessageByte)
      OBVIOUS
    <3>2. ASSUME ~(i >= Len(q)), NEW j \in {i, i + 1}, NEW m \in {i + 1, i + 2}
          PROVE  <<q[j]>> \o g[m] \in Seq(MessageByte)
      <4>1. j \in 1 .. Len(q) /\ m \in S
        BY <1>1, <3>2
      <4>2. q[j] \in MessageByte /\ g[m] \in Seq(MessageByte)
        BY <4>1, ElementOfSeq DEF MessageBytes
      <4>3. <<q[j]>> \in Seq(MessageByte)
        BY <4>2
      <4>. QED
        BY <4>2, <4>3, ConcatProperties
    <3>. QED
      BY <3>1, <3>2 DEF UnescapeStep, MessageBytes
  <2>. QED
    BY <2>1
<1>3. ASSUME NEW i \in S, NEW g \in [S -> V], NEW h \in [S -> V],
             \A j \in S : rank[j] < rank[i] => g[j] = h[j]
      PROVE  Step[i][g] = Step[i][h]
  <2>1. ~(i >= Len(q)) => g[i + 1] = h[i + 1] /\ g[i + 2] = h[i + 2]
    <3>1. SUFFICES ASSUME ~(i >= Len(q)) PROVE g[i + 1] = h[i + 1] /\ g[i + 2] = h[i + 2]
      OBVIOUS
    <3>2. i + 1 \in S /\ i + 2 \in S /\ rank[i + 1] < rank[i] /\ rank[i + 2] < rank[i]
      BY <1>1, <3>1
    <3>. QED
      BY <1>3, <3>2
  <2>2. UnescapeStep(q, i, g) = UnescapeStep(q, i, h)
    BY <2>1 DEF UnescapeStep
  <2>. QED
    BY <2>2
<1>4. Computes(Step, rank, N, S, V)
  <2>. HIDE DEF S, N, V, rank, Step
  <2>. QED
    BY <1>1, <1>2, <1>3 DEF Computes
<1>5. \E f \in [S -> V] : f = [i \in S |-> Step[i][f]]
  <2>1. V # {}
    <3>1. << >> \in Seq(MessageByte)
      OBVIOUS
    <3>. QED
      BY <3>1 DEF MessageBytes
  <2>. HIDE DEF S, N, V, rank, Step
  <2>. QED
    BY ONLY <1>4, <2>1, Recursion, SMTT(60)
<1>6. \E f : f = [i \in S |-> UnescapeStep(q, i, f)]
  BY <1>5
<1>7. UnescapedFrom(q) = [i \in S |-> UnescapeStep(q, i, UnescapedFrom(q))]
  BY <1>6 DEF UnescapedFrom
<1>. HIDE DEF S
<1>8. k \in S
  BY DEF S
<1>. QED
  BY <1>7, <1>8

\* Where an escaped key is the rest of what is quoted, but for the last quote, the
\* key is read.
ReadWhereEscaped(s) ==
    \A q \in MessageBytes : \A k \in 1 .. Len(q) :
        StandsAt(q, k, Escaped(s)) /\ k + Len(Escaped(s)) = Len(q)
            => UnescapedFrom(q)[k] = s

\* One byte more is read, escaped or not, and then those behind it.
LEMMA OneMoreWhereEscaped ==
    ASSUME NEW c \in MessageByte, NEW s \in MessageBytes, ReadWhereEscaped(s)
    PROVE  ReadWhereEscaped(<<c>> \o s)
<1>. DEFINE b == EscapedByte(c)
            e == Escaped(s)
<1>1. e \in MessageBytes /\ Escaped(<<c>> \o s) = b \o e /\ Len(e) \in Nat
  BY EscapedMore, MessageBytesAre
<1>2. /\ b \in MessageBytes /\ Len(b) \in {1, 2}
      /\ Len(b) = 2 => b[1] = Backslash /\ b[2] = c
      /\ Len(b) = 1 => b[1] = c /\ c # Backslash
  BY MarksAreBytes DEF EscapedByte, MessageBytes
<1>3. Len(b \o e) = Len(b) + Len(e)
  <2>. HIDE DEF b, e
  <2>. QED
    BY <1>1, <1>2, ConcatProperties DEF MessageBytes
<1>. HIDE DEF b
<1>4. ASSUME NEW q \in MessageBytes, NEW k \in 1 .. Len(q),
             StandsAt(q, k, b \o e), k + (Len(b) + Len(e)) = Len(q)
      PROVE  UnescapedFrom(q)[k] = <<c>> \o s
  <2>0. k \in Nat /\ Len(q) \in Nat /\ Len(b) \in Nat /\ k \in 1 .. Len(q) + 1
    BY <1>2, MessageBytesAre
  <2>1. StandsAt(q, k, b) /\ StandsAt(q, k + Len(b), e)
    <3>. HIDE DEF e
    <3>. QED
      BY <1>1, <1>2, <1>4, <2>0, StandsInParts
  <2>. DEFINE j == k + Len(b)
  <2>2. j \in 1 .. Len(q) /\ j + Len(e) = Len(q) /\ ~(k >= Len(q))
    BY <1>1, <1>2, <1>4, <2>0
  <2>3. \A i \in 1 .. Len(b) : q[k + i - 1] = b[i]
    BY <2>1 DEF StandsAt
  <2>4. UnescapedFrom(q)[j] = s
    <3>1. StandsAt(q, j, e)
      BY <2>1
    <3>. HIDE DEF j
    <3>. QED
      BY <2>2, <3>1 DEF ReadWhereEscaped
  <2>5. UnescapedFrom(q)[k] = UnescapeStep(q, k, UnescapedFrom(q))
    BY <2>0, UnescapedFromIs
  <2>6. CASE Len(b) = 1
    <3>1. 1 \in 1 .. Len(b) /\ k + 1 - 1 = k /\ j = k + 1
      BY <2>0, <2>6
    <3>2. q[k] = c /\ c # Backslash
      BY <1>2, <2>3, <2>6, <3>1
    <3>. HIDE DEF j
    <3>. QED
      BY <2>2, <2>4, <2>5, <3>1, <3>2 DEF UnescapeStep
  <2>7. CASE Len(b) = 2
    <3>1. 1 \in 1 .. Len(b) /\ 2 \in 1 .. Len(b) /\ k + 1 - 1 = k /\ k + 2 - 1 = k + 1 /\ j = k + 2
      BY <2>0, <2>7
    <3>2. q[k] = Backslash /\ q[k + 1] = c
      BY <1>2, <2>3, <2>7, <3>1
    <3>. HIDE DEF j
    <3>. QED
      BY <2>2, <2>4, <2>5, <3>1, <3>2 DEF UnescapeStep
  <2>. QED
    BY <1>2, <2>6, <2>7
<1>. QED
  BY <1>1, <1>3, <1>4 DEF ReadWhereEscaped

\* The device reads the key that was quoted, with whatever quotes and backslashes
\* in it.
THEOREM KeyIsRead ==
    ASSUME NEW key \in MessageBytes, key # << >>
    PROVE  EscapedPSK(key) \in MessageBytes /\ Unescaped(EscapedPSK(key)) = key
<1>. DEFINE T == {s \in MessageBytes : ReadWhereEscaped(s)}
<1>1. << >> \in T
  <2>1. << >> \in MessageBytes /\ Len(<< >>) = 0
    BY DEF MessageBytes
  <2>2. ASSUME NEW q \in MessageBytes, NEW k \in 1 .. Len(q), k + 0 = Len(q)
        PROVE  UnescapedFrom(q)[k] = << >>
    <3>1. Len(q) \in Nat /\ k \in 1 .. Len(q) + 1 /\ k >= Len(q)
      BY <2>2, MessageBytesAre
    <3>2. UnescapedFrom(q)[k] = UnescapeStep(q, k, UnescapedFrom(q))
      BY <3>1, UnescapedFromIs
    <3>. QED
      BY <3>1, <3>2 DEF UnescapeStep
  <2>. QED
    BY <2>1, <2>2, EscapedNothing DEF ReadWhereEscaped
<1>2. ASSUME NEW c \in MessageByte, NEW s \in Seq(MessageByte), s \in T
      PROVE  <<c>> \o s \in T
  <2>1. ReadWhereEscaped(<<c>> \o s)
    BY <1>2, OneMoreWhereEscaped
  <2>2. <<c>> \o s \in Seq(MessageByte)
    <3>1. <<c>> \in Seq(MessageByte)
      OBVIOUS
    <3>. QED
      BY <3>1, ConcatProperties
  <2>. QED
    BY <2>1, <2>2 DEF MessageBytes
<1>3. ReadWhereEscaped(key)
  <2>1. Seq(MessageByte) \subseteq T
    <3>. HIDE DEF T
    <3>. QED
      BY <1>1, <1>2, SequenceInduction
  <2>. QED
    BY <2>1 DEF MessageBytes
<1>. DEFINE u == <<Quote>>
            e == Escaped(key)
            ue == u \o e
            q == ue \o u
<1>4. e \in MessageBytes /\ Len(e) \in Nat
  BY MarksAreBytes, EscapedMore, MessageBytesAre
<1>5. u \in MessageBytes /\ Len(u) = 1 /\ u \in Seq(MessageByte)
  BY MarksAreBytes DEF MessageBytes
<1>6. EscapedPSK(key) = q
  BY DEF EscapedPSK
<1>. HIDE DEF u, e
<1>7. ue \in MessageBytes /\ Len(ue) = 1 + Len(e)
  BY <1>4, <1>5, ConcatProperties DEF MessageBytes
<1>. HIDE DEF ue
<1>8. q \in MessageBytes /\ Len(q) = 2 + Len(e)
  <2>1. q \in MessageBytes /\ Len(q) = Len(ue) + Len(u)
    BY <1>5, <1>7, ConcatProperties DEF MessageBytes
  <2>. HIDE DEF q
  <2>. QED
    BY <1>4, <1>5, <1>7, <2>1
<1>9. StandsAt(q, 2, e)
  <2>. HIDE DEF q
  <2>1. StandsAt(q, 1, q)
    BY <1>8, StandsInItself
  <2>2. StandsAt(q, 1, ue)
    BY <1>5, <1>7, <1>8, <2>1, StandsInParts DEF q
  <2>3. StandsAt(q, 1 + Len(u), e)
    BY <1>4, <1>5, <1>8, <2>2, StandsInParts DEF ue
  <2>. QED
    BY <1>5, <2>3
<1>. HIDE DEF q
<1>10. UnescapedFrom(q)[2] = key
  <2>1. 2 \in 1 .. Len(q) /\ 2 + Len(e) = Len(q)
    BY <1>4, <1>8
  <2>. QED
    BY <1>3, <1>8, <1>9, <2>1 DEF ReadWhereEscaped, e
<1>. QED
  BY <1>6, <1>8, <1>10, UnescapedIs

-----------------------------------------------------------------------------
(* Requests.                                                               *)

\* What is read where there is none.
LEMMA FirstOfNone ==
    ASSUME NEW fields, NEW num, NEW types, NEW default, NoMatch(fields, num, types)
    PROVE  First(fields, num, types, default) = default
  BY DEF First, NoMatch

\* A request of a write is of the kind of its one field.
LEMMA KindIs ==
    ASSUME NEW m, NEW n \in 1 .. 3, NEW x, Fields(m) = OneField(n, wireLenDel, x)
    PROVE  Kinds(m) = {n}
<1>. DEFINE r == OneField(n, wireLenDel, x)
            types == {wireLenDel}
<1>1. ASSUME NEW num \in 1 .. 3 PROVE hasBytes(r, num) <=> num = n
  <2>1. wireLenDel \in types
    OBVIOUS
  <2>. HIDE DEF types
  <2>2. NoMatch(OneField(n, wireLenDel, x), num, types) <=> ~(n = num)
    BY <2>1, FoundInOne
  <2>. QED
    BY <2>2 DEF hasBytes, NoMatch, types
<1>. HIDE DEF r
<1>2. Fields(m) = r
  BY DEF r
<1>. QED
  BY <1>1, <1>2 DEF Kinds

\* The request that opens a file, whose path is not empty.
LEMMA OpenIsRead ==
    ASSUME Room, NEW path \in MessageBytes, path # << >>,
           Len(OpenRequest(path)) < TwoTo[WordBits - 1]
    PROVE  /\ Kinds(OpenRequest(path)) = {1}
           /\ getString(InnerFields(OpenRequest(path), 1), 1) = path
<1>. DEFINE n == 1
            x == WriteBytes(n, path)
            A == FieldUnless(n, wireLenDel, path, << >>)
            m == WriteMessage(n, x)
<1>1. m = OpenRequest(path) /\ n \in 1 .. 9
  BY DEF OpenRequest
<1>. HIDE DEF n
<1>2. x \in MessageBytes /\ Len(x) \in Nat /\ Len(x) >= Len(path) /\ x # << >>
  BY <1>1, BytesWritten
<1>3. Len(m) < TwoTo[WordBits - 1]
  BY <1>1
<1>4. Len(path) < TwoTo[WordBits]
  <2>1. Len(path) \in Nat /\ TwoTo[WordBits] \in Nat
    BY MessageBytesAre, HalfWord
  <2>. HIDE DEF x
  <2>2. Len(x) < TwoTo[WordBits]
    BY <1>1, <1>2, <1>3, CountedAlone
  <2>. QED
    BY <1>2, <2>1, <2>2
<1>5. Carries(x, A)
  BY <1>1, <1>4, WriteBytesIs
<1>6. /\ Fields(m) = OneField(n, wireLenDel, x)
      /\ getString(OneField(n, wireLenDel, x), n) = x /\ Fields(x) = A
  <2>. HIDE DEF x, A
  <2>. QED
    BY <1>1, <1>2, <1>3, <1>5, NestedAlone
<1>7. Kinds(m) = {n}
  <2>1. n \in 1 .. 3
    BY DEF n
  <2>. HIDE DEF m, x
  <2>. QED
    BY <1>6, <2>1, KindIs
<1>8. getString(InnerFields(m, n), n) = path
  <2>1. InnerFields(m, n) = A
    <3>. HIDE DEF m, x, A
    <3>. QED
      BY <1>6 DEF InnerFields
  <2>. DEFINE none == << >>
              types == {wireLenDel}
  <2>2. wireLenDel \in types
    OBVIOUS
  <2>. HIDE DEF types, none
  <2>3. First(FieldUnless(n, wireLenDel, path, none), n, types, none) = path
    BY <2>2, FirstUnless
  <2>4. getString(A, n) = path
    BY <2>3 DEF getString, types, none
  <2>. QED
    BY <2>1, <2>4
<1>. QED
  BY <1>1, <1>7, <1>8 DEF n

\* The request that closes it.
LEMMA CloseIsRead ==
    ASSUME Room, Len(CloseRequest) < TwoTo[WordBits - 1]
    PROVE  Kinds(CloseRequest) = {3}
<1>. DEFINE n == 3
            val == << >>
            t == Tag(n, wireLenDel) \o Length(val)
<1>1. n \in 1 .. 9 /\ n \in 1 .. 3 /\ val \in MessageBytes /\ Len(val) = 0
  BY DEF MessageBytes
<1>2. CloseRequest = t
  BY DEF CloseRequest, WriteEmptyMessage
<1>. HIDE DEF n
<1>3. t \in Seq(MessageByte)
  <2>1. n \in Nat /\ wireLenDel \in 0 .. 7
    BY <1>1 DEF wireLenDel
  <2>2. Tag(n, wireLenDel) \in Seq(MessageByte)
    BY <2>1, TagIs DEF MessageBytes
  <2>3. Length(val) \in Seq(MessageByte)
    BY <1>1, VarintBytes DEF Length, MessageBytes
  <2>. HIDE DEF val
  <2>. QED
    BY <2>2, <2>3, ConcatProperties
<1>4. t \o val = t
  <2>. HIDE DEF t
  <2>. QED
    BY <1>3, ConcatEmptySeq
<1>5. 0 < TwoTo[WordBits]
  BY HalfWord DEF Room
<1>. HIDE DEF val
<1>6. Carries(t \o val, OneField(n, wireLenDel, val))
  BY <1>1, <1>5, WriteBytesIs DEF t
<1>. DEFINE r == OneField(n, wireLenDel, val)
<1>7. Carries(t, r)
  BY <1>4, <1>6
<1>. HIDE DEF t, r
<1>8. Fields(t) = r
  BY <1>2, <1>7, CarriedIsRead
<1>9. Kinds(t) = {n}
  BY <1>1, <1>8, KindIs DEF r
<1>. QED
  BY <1>2, <1>9 DEF n

DataInner(offset, chunk) == WriteUint32(1, offset) \o WriteBytes(2, chunk)

\* A chunk and its offset.
LEMMA DataIsRead ==
    ASSUME Room, NEW offset \in Nat, offset < TwoTo[WordBits], NEW chunk \in MessageBytes,
           Len(DataRequest(offset, chunk)) < TwoTo[WordBits - 1], DataRequest(offset, chunk) # << >>,
           Len(chunk) < TwoTo[WordBits]
    PROVE  /\ Kinds(DataRequest(offset, chunk)) = {2}
           /\ getUint32(InnerFields(DataRequest(offset, chunk), 2), 1) = offset
           /\ getString(InnerFields(DataRequest(offset, chunk), 2), 2) = chunk
<1>. DEFINE a == WriteUint32(1, offset)
            b == WriteBytes(2, chunk)
            A == FieldUnless(1, wireVarint, offset, 0)
            B == FieldUnless(2, wireLenDel, chunk, << >>)
            x == a \o b
            F == A \o B
            n == 2
            m == WriteMessage(n, x)
<1>0. DataRequest(offset, chunk) = m /\ n \in 1 .. 9 /\ n \in 1 .. 3
  BY DEF DataRequest
<1>1. Carries(a, A) /\ Carries(b, B)
  <2>. DEFINE i == 1
              j == 2
  <2>1. i \in 1 .. 9 /\ j \in 1 .. 9
    OBVIOUS
  <2>. HIDE DEF i, j
  <2>2. Carries(WriteUint32(i, offset), FieldUnless(i, wireVarint, offset, 0))
    BY <2>1, WriteNumberIs
  <2>3. Carries(WriteBytes(j, chunk), FieldUnless(j, wireLenDel, chunk, << >>))
    BY <2>1, WriteBytesIs
  <2>. QED
    BY <2>2, <2>3 DEF i, j
<1>2. Carries(x, F)
  <2>. HIDE DEF a, b, A, B
  <2>. QED
    BY <1>1, CarriedTwo
<1>. HIDE DEF x, F, n
<1>3. x # << >>
  BY <1>0 DEF WriteMessage, WriteBytes
<1>4. /\ Fields(m) = OneField(n, wireLenDel, x)
      /\ getString(OneField(n, wireLenDel, x), n) = x /\ Fields(x) = F
  <2>1. Len(m) < TwoTo[WordBits - 1]
    BY <1>0
  <2>. QED
    BY <1>0, <1>2, <1>3, <2>1, NestedAlone
<1>. HIDE DEF m
<1>5. Kinds(m) = {n}
  BY <1>0, <1>4, KindIs
<1>6. InnerFields(m, n) = F
  BY <1>4 DEF InnerFields
<1>7. A \in Seq(SendableFields) /\ B \in Seq(SendableFields)
  BY <1>1 DEF Carries
<1>8. getUint32(F, 1) = offset
  <2>. DEFINE types == {wireVarint}
  <2>1. /\ NoMatch(A, 1, types) <=> offset = 0
        /\ First(A, 1, types, 0) = offset
        /\ First(B, 1, types, 0) = 0
    <3>1. wireVarint \in types
      OBVIOUS
    <3>. HIDE DEF types
    <3>2. NoMatch(A, 1, types) <=> offset = 0
      BY <3>1, FoundUnless
    <3>3. First(A, 1, types, 0) = offset
      BY <3>1, FirstUnless
    <3>4. NoMatch(B, 1, types)
      BY FoundUnless
    <3>. QED
      BY <3>2, <3>3, <3>4, FirstOfNone
  <2>. HIDE DEF A, B, types
  <2>2. First(A \o B, 1, types, 0) = offset
    BY <1>7, <2>1, FirstInTwo
  <2>. QED
    BY <2>2 DEF getUint32, types, F
<1>9. getString(F, 2) = chunk
  <2>. DEFINE types == {wireLenDel}
              none == << >>
  <2>1. NoMatch(A, 2, types) /\ First(B, 2, types, none) = chunk
    <3>1. wireLenDel \in types
      OBVIOUS
    <3>. HIDE DEF types
    <3>2. NoMatch(A, 2, types)
      BY FoundUnless
    <3>3. First(B, 2, types, none) = chunk
      BY <3>1, FirstUnless
    <3>. QED
      BY <3>2, <3>3
  <2>. HIDE DEF A, B, types, none
  <2>2. First(A \o B, 2, types, none) = chunk
    BY <1>7, <2>1, FirstInTwo
  <2>. QED
    BY <2>2 DEF getString, types, none, F
<1>. QED
  BY <1>0, <1>5, <1>6, <1>8, <1>9 DEF n

-----------------------------------------------------------------------------
(* A provisioning: seven fields one after the other.                       *)

\* Of the fields, the value of the number and wire type, or none.
Reads(fs, num, type, none, val) ==
    /\ First(fs, num, {type}, none) = val
    /\ NoMatch(fs, num, {type}) <=> val = none

\* The wire types of the seven, and what is not written.
TypeOf(num) == IF num = 5 THEN wireVarint ELSE wireLenDel
NoneOf(num) == IF num = 5 THEN 0 ELSE << >>
Unsaid == [num \in 1 .. 7 |-> NoneOf(num)]

\* The fields say this.
SaidBy(fs, said) ==
    /\ DOMAIN said = 1 .. 7
    /\ \A num \in 1 .. 7 : Reads(fs, num, TypeOf(num), NoneOf(num), said[num])

\* The bytes are those of fields that say this, as long as a word can count them.
Built(x, said) ==
    /\ x \in MessageBytes
    /\ Len(x) < TwoTo[WordBits] => \E fs : Carries(x, fs) /\ SaidBy(fs, said)

\* What one of two sequences of fields lacks is read in the other.
LEMMA ReadsInTwo ==
    ASSUME NEW S, NEW a \in Seq(S), NEW b \in Seq(S), NEW num, NEW type, NEW none, NEW val,
           \/ Reads(a, num, type, none, val) /\ Reads(b, num, type, none, none)
           \/ Reads(a, num, type, none, none) /\ Reads(b, num, type, none, val)
    PROVE  Reads(a \o b, num, type, none, val)
<1>. DEFINE types == {type}
            c == a \o b
<1>1. /\ First(c, num, types, none)
            = IF ~NoMatch(a, num, types) THEN First(a, num, types, none)
              ELSE First(b, num, types, none)
      /\ NoMatch(c, num, types) <=> NoMatch(a, num, types) /\ NoMatch(b, num, types)
  <2>. HIDE DEF types
  <2>. QED
    BY FirstInTwo, FoundInTwo
<1>. HIDE DEF c
<1>2. Reads(c, num, type, none, val)
  BY <1>1 DEF Reads
<1>. QED
  BY <1>2 DEF c

\* A field that is left out when it says nothing.
LEMMA ReadsUnless ==
    ASSUME NEW n, NEW w, NEW val, NEW none
    PROVE  Reads(FieldUnless(n, w, val, none), n, w, none, val)
<1>. DEFINE types == {w}
<1>1. w \in types
  OBVIOUS
<1>2. /\ First(FieldUnless(n, w, val, none), n, types, none) = val
      /\ NoMatch(FieldUnless(n, w, val, none), n, types) <=> val = none
  <2>. HIDE DEF types
  <2>. QED
    BY <1>1, FirstUnless, FoundUnless
<1>. QED
  BY <1>2 DEF Reads

LEMMA ReadsOther ==
    ASSUME NEW n, NEW w, NEW val, NEW none, NEW num, num # n, NEW type, NEW other
    PROVE  Reads(FieldUnless(n, w, val, none), num, type, other, other)
<1>. DEFINE types == {type}
<1>1. NoMatch(FieldUnless(n, w, val, none), num, types)
  <2>. HIDE DEF types
  <2>. QED
    BY FoundUnless
<1>2. First(FieldUnless(n, w, val, none), num, types, other) = other
  <2>. HIDE DEF types
  <2>. QED
    BY <1>1, FirstOfNone
<1>. QED
  BY <1>1, <1>2 DEF Reads

\* Nothing says nothing.
LEMMA NothingBuilt == Built(<< >>, Unsaid)
<1>. DEFINE e == << >>
<1>1. Carries(e, e) /\ e \in MessageBytes
  BY CarriedNone, CarriedBytes
<1>2. ASSUME NEW num \in 1 .. 7
      PROVE  Reads(e, num, TypeOf(num), NoneOf(num), NoneOf(num))
  <2>. DEFINE types == {TypeOf(num)}
  <2>1. NoMatch(e, num, types)
    BY FoundInNone
  <2>. HIDE DEF types, e
  <2>2. First(e, num, types, NoneOf(num)) = NoneOf(num)
    BY <2>1, FirstOfNone
  <2>. QED
    BY <2>1, <2>2 DEF Reads, types
<1>. HIDE DEF e
<1>3. SaidBy(e, Unsaid)
  BY <1>2 DEF SaidBy, Unsaid
<1>4. Built(e, Unsaid)
  BY <1>1, <1>3 DEF Built
<1>. QED
  BY <1>4 DEF e

\* One more field says one thing more.
LEMMA OneMoreBuilt ==
    ASSUME NEW x, NEW said, Built(x, said), NEW n \in 1 .. 7, NEW val, said[n] = NoneOf(n),
           NEW y \in MessageBytes,
           Len(y) < TwoTo[WordBits] => Carries(y, FieldUnless(n, TypeOf(n), val, NoneOf(n)))
    PROVE  Built(x \o y, [said EXCEPT ![n] = val])
<1>. DEFINE z == x \o y
            more == [said EXCEPT ![n] = val]
            W == TwoTo[WordBits]
<1>1. W \in Nat /\ x \in MessageBytes
  BY HalfWord DEF Built
<1>2. z \in MessageBytes
  BY <1>1, ConcatProperties DEF MessageBytes
<1>3. ASSUME Len(z) < W
      PROVE  \E fs : Carries(z, fs) /\ SaidBy(fs, more)
  <2>1. Len(x) < W /\ Len(y) < W
    <3>. HIDE DEF W
    <3>. QED
      BY <1>1, <1>3, CountedInTwo
  <2>2. PICK fs : Carries(x, fs) /\ SaidBy(fs, said)
    BY <2>1 DEF Built
  <2>. DEFINE gs == FieldUnless(n, TypeOf(n), val, NoneOf(n))
              all == fs \o gs
  <2>3. Carries(y, gs)
    BY <2>1
  <2>4. Reads(gs, n, TypeOf(n), NoneOf(n), val)
    BY ReadsUnless
  <2>5. ASSUME NEW num \in 1 .. 7, num # n
        PROVE  Reads(gs, num, TypeOf(num), NoneOf(num), NoneOf(num))
    BY <2>5, ReadsOther
  <2>. HIDE DEF gs
  <2>6. Carries(z, all)
    BY <2>2, <2>3, CarriedTwo
  <2>7. fs \in Seq(SendableFields) /\ gs \in Seq(SendableFields)
    BY <2>2, <2>3 DEF Carries
  <2>8. DOMAIN said = 1 .. 7 /\ \A num \in 1 .. 7 : Reads(fs, num, TypeOf(num), NoneOf(num), said[num])
    BY <2>2 DEF SaidBy
  <2>9. ASSUME NEW num \in 1 .. 7
        PROVE  Reads(all, num, TypeOf(num), NoneOf(num), more[num])
    <3>1. CASE num = n
      <4>1. more[num] = val
        BY <2>8, <3>1
      <4>2. Reads(fs, num, TypeOf(num), NoneOf(num), NoneOf(num))
        BY <2>8, <3>1
      <4>3. Reads(gs, num, TypeOf(num), NoneOf(num), val)
        BY <2>4, <3>1
      <4>4. Reads(fs \o gs, num, TypeOf(num), NoneOf(num), val)
        BY <2>7, <4>2, <4>3, ReadsInTwo
      <4>. QED
        BY <4>1, <4>4
    <3>2. CASE num # n
      <4>1. more[num] = said[num]
        BY <2>8, <3>2
      <4>2. Reads(fs, num, TypeOf(num), NoneOf(num), said[num])
        BY <2>8
      <4>3. Reads(gs, num, TypeOf(num), NoneOf(num), NoneOf(num))
        BY <2>5, <3>2
      <4>4. Reads(fs \o gs, num, TypeOf(num), NoneOf(num), said[num])
        BY <2>7, <4>2, <4>3, ReadsInTwo
      <4>. QED
        BY <4>1, <4>4
    <3>. QED
      BY <3>1, <3>2
  <2>. HIDE DEF all
  <2>10. DOMAIN more = 1 .. 7
    BY <2>8
  <2>. HIDE DEF more
  <2>11. SaidBy(all, more)
    BY <2>9, <2>10 DEF SaidBy
  <2>. QED
    BY <2>6, <2>11
<1>. HIDE DEF z, more
<1>4. Built(z, more)
  BY <1>2, <1>3 DEF Built
<1>. QED
  BY <1>4 DEF z, more

\* One more string.
LEMMA StringBuilt ==
    ASSUME Room, NEW x, NEW said, Built(x, said), NEW n \in 1 .. 7, n # 5, said[n] = << >>,
           NEW val \in MessageBytes
    PROVE  Built(x \o WriteBytes(n, val), [said EXCEPT ![n] = val])
<1>. DEFINE y == WriteBytes(n, val)
<1>1. n \in 1 .. 9 /\ TypeOf(n) = wireLenDel /\ NoneOf(n) = << >>
  BY DEF TypeOf, NoneOf
<1>2. y \in MessageBytes /\ Len(y) \in Nat /\ Len(y) >= Len(val)
  BY <1>1, BytesWritten
<1>3. Len(val) \in Nat /\ TwoTo[WordBits] \in Nat
  BY MessageBytesAre, HalfWord
<1>4. ASSUME Len(y) < TwoTo[WordBits]
      PROVE  Carries(y, FieldUnless(n, wireLenDel, val, << >>))
  <2>1. Len(val) < TwoTo[WordBits]
    <3>. HIDE DEF y
    <3>. QED
      BY <1>2, <1>3, <1>4
  <2>. QED
    BY <1>1, <2>1, WriteBytesIs
<1>. DEFINE none == << >>
<1>5. said[n] = none /\ NoneOf(n) = none
  BY <1>1
<1>6. Len(y) < TwoTo[WordBits] => Carries(y, FieldUnless(n, TypeOf(n), val, NoneOf(n)))
  BY <1>1, <1>4
<1>. HIDE DEF y, none
<1>7. Built(x \o y, [said EXCEPT ![n] = val])
  BY <1>2, <1>5, <1>6, OneMoreBuilt
<1>. QED
  BY <1>7 DEF y

\* The number.
LEMMA NumberBuilt ==
    ASSUME Room, NEW x, NEW said, Built(x, said), said[5] = 0,
           NEW val \in Nat, val < TwoTo[WordBits]
    PROVE  Built(x \o WriteUint32(5, val), [said EXCEPT ![5] = val])
<1>. DEFINE n == 5
            y == WriteUint32(n, val)
<1>1. n \in 1 .. 9 /\ n \in 1 .. 7 /\ TypeOf(n) = wireVarint /\ NoneOf(n) = 0 /\ said[n] = 0
  BY DEF TypeOf, NoneOf
<1>. HIDE DEF n
<1>2. Carries(y, FieldUnless(n, wireVarint, val, 0))
  BY <1>1, WriteNumberIs
<1>3. y \in MessageBytes
  <2>. HIDE DEF y
  <2>. QED
    BY <1>2, CarriedBytes
<1>4. Carries(y, FieldUnless(n, TypeOf(n), val, NoneOf(n))) /\ said[n] = NoneOf(n)
  BY <1>1, <1>2
<1>. HIDE DEF y
<1>5. Built(x \o y, [said EXCEPT ![n] = val])
  BY <1>1, <1>3, <1>4, OneMoreBuilt
<1>. QED
  BY <1>5 DEF y, n

\* A key is quoted unless it is empty.
LEMMA QuotedKey ==
    ASSUME NEW psk \in MessageBytes
    PROVE  /\ EscapedPSK(psk) \in MessageBytes
           /\ psk = << >> <=> EscapedPSK(psk) = << >>
           /\ psk # << >> => Unescaped(EscapedPSK(psk)) = psk
<1>. DEFINE key == EscapedPSK(psk)
<1>1. CASE psk = << >>
  <2>1. key = psk
    BY <1>1 DEF EscapedPSK
  <2>. QED
    BY <1>1, <2>1
<1>2. CASE psk # << >>
  <2>1. key \in MessageBytes /\ Unescaped(key) = psk
    BY <1>2, KeyIsRead
  <2>2. key # << >>
    <3>. DEFINE u == <<Quote>>
                e == Escaped(psk)
    <3>1. u \in MessageBytes /\ u # << >>
      BY MarksAreBytes DEF MessageBytes
    <3>2. e \in MessageBytes
      BY MarksAreBytes, EscapedMore
    <3>3. key = (u \o e) \o u
      BY <1>2 DEF EscapedPSK
    <3>. HIDE DEF u, e, key
    <3>. DEFINE ue == u \o e
    <3>4. ue \in MessageBytes /\ ue # << >>
      BY <3>1, <3>2, ConcatNotEmpty
    <3>. HIDE DEF ue
    <3>5. ue \o u # << >>
      BY <3>1, <3>4, ConcatNotEmpty
    <3>. QED
      BY <3>3, <3>5 DEF ue
  <2>. QED
    BY <1>2, <2>1, <2>2
<1>. QED
  BY <1>1, <1>2

\* What a request with a message of these fields in it is read as.
LEMMA BuiltIsRead ==
    ASSUME Room, NEW x, NEW said, Built(x, said), NEW num \in 1 .. 7, said[num] # NoneOf(num),
           Len(WriteMessage(1, x)) < TwoTo[WordBits - 1]
    PROVE  SaidBy(InnerFields(WriteMessage(1, x), 1), said)
<1>. DEFINE n == 1
            m == WriteMessage(n, x)
<1>1. n \in 1 .. 9 /\ Len(m) < TwoTo[WordBits - 1] /\ x \in MessageBytes
  BY DEF Built
<1>. HIDE DEF n
<1>2. Len(x) < TwoTo[WordBits]
  BY <1>1, CountedAlone
<1>3. PICK fs : Carries(x, fs) /\ SaidBy(fs, said)
  BY <1>2 DEF Built
<1>4. x # << >>
  <2>. DEFINE e == << >>
              types == {TypeOf(num)}
  <2>1. ~NoMatch(fs, num, types)
    BY <1>3 DEF SaidBy, Reads
  <2>2. NoMatch(e, num, types)
    BY FoundInNone
  <2>. HIDE DEF types
  <2>3. fs # e
    BY <2>1, <2>2
  <2>. QED
    BY <1>3, <2>3, CarriedNotEmpty
<1>5. /\ Fields(m) = OneField(n, wireLenDel, x)
      /\ getString(OneField(n, wireLenDel, x), n) = x /\ Fields(x) = fs
  BY <1>1, <1>3, <1>4, NestedAlone
<1>. HIDE DEF m
<1>6. InnerFields(m, n) = fs
  BY <1>5 DEF InnerFields
<1>. QED
  BY <1>3, <1>6 DEF m, n

\* The strings and the port of a broker.
IsBroker(mqtt) ==
    /\ mqtt.mqttTopic \in MessageBytes /\ mqtt.mqttTopic # << >>
    /\ mqtt.BrokerURL \in MessageBytes
    /\ mqtt.Port \in Nat /\ mqtt.Port < TwoTo[WordBits]
    /\ mqtt.ThingsPattern \in MessageBytes
    /\ mqtt.logTopic \in MessageBytes

\* What the seven fields say.
SevenSaid(ssid, key, mqtt) ==
    [num \in 1 .. 7 |->
        CASE num = 1 -> ssid [] num = 2 -> key [] num = 3 -> mqtt.mqttTopic
          [] num = 4 -> mqtt.BrokerURL [] num = 5 -> mqtt.Port
          [] num = 6 -> mqtt.ThingsPattern [] num = 7 -> mqtt.logTopic]

LEMMA ProvisionSaid ==
    ASSUME Room, NEW ssid \in MessageBytes, NEW psk \in MessageBytes, NEW mqtt, IsBroker(mqtt),
           Len(ProvisionRequest(ssid, psk, mqtt)) < TwoTo[WordBits - 1]
    PROVE  SaidBy(InnerFields(ProvisionRequest(ssid, psk, mqtt), 1),
                  SevenSaid(ssid, EscapedPSK(psk), mqtt))
<1>. DEFINE key == EscapedPSK(psk)
            topic == mqtt.mqttTopic
            url == mqtt.BrokerURL
            port == mqtt.Port
            things == mqtt.ThingsPattern
            log == mqtt.logTopic
<1>1. key \in MessageBytes
  BY QuotedKey
<1>2. /\ topic \in MessageBytes /\ topic # << >> /\ url \in MessageBytes
      /\ port \in Nat /\ port < TwoTo[WordBits]
      /\ things \in MessageBytes /\ log \in MessageBytes
  BY DEF IsBroker
<1>. DEFINE x1 == WriteBytes(1, ssid)
            x2 == x1 \o WriteBytes(2, key)
            x3 == x2 \o WriteBytes(3, topic)
            x4 == x3 \o WriteBytes(4, url)
            x5 == x4 \o WriteUint32(5, port)
            x6 == x5 \o WriteBytes(6, things)
            x7 == x6 \o WriteBytes(7, log)
            said == SevenSaid(ssid, key, mqtt)
<1>3. ProvisionRequest(ssid, psk, mqtt) = WriteMessage(1, x7)
  BY DEF ProvisionRequest
<1>4. /\ said[1] = ssid /\ said[2] = key /\ said[3] = topic /\ said[4] = url /\ said[5] = port
      /\ said[6] = things /\ said[7] = log /\ said = [num \in 1 .. 7 |-> said[num]]
  BY DEF SevenSaid
<1>. HIDE DEF key, topic, url, port, things, log, said
\* What the first k of them say.
<1>. DEFINE So(k) == [num \in 1 .. 7 |-> IF num <= k THEN said[num] ELSE NoneOf(num)]
<1>5. /\ So(0) = Unsaid /\ So(7) = said
      /\ So(1) = [So(0) EXCEPT ![1] = ssid] /\ So(2) = [So(1) EXCEPT ![2] = key]
      /\ So(3) = [So(2) EXCEPT ![3] = topic] /\ So(4) = [So(3) EXCEPT ![4] = url]
      /\ So(5) = [So(4) EXCEPT ![5] = port] /\ So(6) = [So(5) EXCEPT ![6] = things]
      /\ So(7) = [So(6) EXCEPT ![7] = log]
  <2>1. So(0) = Unsaid /\ So(7) = said
    BY <1>4 DEF Unsaid
  <2>2. ASSUME NEW k \in 0 .. 6
        PROVE  So(k + 1) = [So(k) EXCEPT ![k + 1] = said[k + 1]]
    <3>. DEFINE j == k + 1
                more == [So(k) EXCEPT ![j] = said[j]]
    <3>1. j \in 1 .. 7 /\ \A num \in 1 .. 7 : num <= j <=> num <= k \/ num = j
      OBVIOUS
    <3>. HIDE DEF j
    <3>2. ASSUME NEW num \in 1 .. 7
          PROVE  more[num] = IF num <= j THEN said[num] ELSE NoneOf(num)
      BY <3>1
    <3>3. more = [num \in 1 .. 7 |-> more[num]]
      OBVIOUS
    <3>. HIDE DEF more
    <3>4. more = So(j)
      BY <3>2, <3>3
    <3>. QED
      BY <3>4 DEF j, more
  <2>3. /\ So(0 + 1) = [So(0) EXCEPT ![0 + 1] = said[0 + 1]]
        /\ So(1 + 1) = [So(1) EXCEPT ![1 + 1] = said[1 + 1]]
        /\ So(2 + 1) = [So(2) EXCEPT ![2 + 1] = said[2 + 1]]
        /\ So(3 + 1) = [So(3) EXCEPT ![3 + 1] = said[3 + 1]]
        /\ So(4 + 1) = [So(4) EXCEPT ![4 + 1] = said[4 + 1]]
        /\ So(5 + 1) = [So(5) EXCEPT ![5 + 1] = said[5 + 1]]
        /\ So(6 + 1) = [So(6) EXCEPT ![6 + 1] = said[6 + 1]]
    <3>. HIDE DEF So
    <3>. QED
      BY <2>2
  <2>. HIDE DEF So
  <2>. QED
    BY <1>4, <2>1, <2>3
<1>6. /\ So(0)[1] = << >> /\ So(1)[2] = << >> /\ So(2)[3] = << >> /\ So(3)[4] = << >>
      /\ So(4)[5] = 0 /\ So(5)[6] = << >> /\ So(6)[7] = << >>
  BY DEF NoneOf
<1>. HIDE DEF So
<1>7. Built(x1, So(1))
  <2>1. Built(<< >> \o WriteBytes(1, ssid), [So(0) EXCEPT ![1] = ssid])
    <3>. DEFINE e == << >>
                said0 == So(0)
                i == 1
    <3>1. Built(e, said0) /\ said0[i] = << >> /\ i \in 1 .. 7 /\ i # 5
      BY <1>5, <1>6, NothingBuilt
    <3>. HIDE DEF e, said0, i
    <3>2. Built(e \o WriteBytes(i, ssid), [said0 EXCEPT ![i] = ssid])
      BY <3>1, StringBuilt
    <3>. QED
      BY <3>2 DEF e, said0, i
  <2>2. << >> \o x1 = x1
    <3>. DEFINE n == 1
    <3>1. n \in 1 .. 9
      OBVIOUS
    <3>. HIDE DEF n
    <3>2. WriteBytes(n, ssid) \in Seq(MessageByte)
      BY <3>1, BytesWritten DEF MessageBytes
    <3>. QED
      BY <3>2, ConcatEmptySeq DEF n
  <2>. HIDE DEF x1
  <2>. QED
    BY <1>5, <2>1, <2>2 DEF x1
<1>. HIDE DEF x1
<1>8. Built(x2, So(2))
  BY <1>1, <1>5, <1>6, <1>7, StringBuilt
<1>. HIDE DEF x2
<1>9. Built(x3, So(3))
  BY <1>2, <1>5, <1>6, <1>8, StringBuilt
<1>. HIDE DEF x3
<1>10. Built(x4, So(4))
  BY <1>2, <1>5, <1>6, <1>9, StringBuilt
<1>. HIDE DEF x4
<1>11. Built(x5, So(5))
  BY <1>2, <1>5, <1>6, <1>10, NumberBuilt
<1>. HIDE DEF x5
<1>12. Built(x6, So(6))
  BY <1>2, <1>5, <1>6, <1>11, StringBuilt
<1>. HIDE DEF x6
<1>13. Built(x7, said)
  BY <1>2, <1>5, <1>6, <1>12, StringBuilt
<1>. HIDE DEF x7
<1>14. SaidBy(InnerFields(WriteMessage(1, x7), 1), said)
  <2>. DEFINE n == 3
  <2>1. n \in 1 .. 7 /\ said[n] # NoneOf(n)
    BY <1>2, <1>4 DEF NoneOf
  <2>. HIDE DEF n
  <2>. QED
    BY <1>3, <1>13, <2>1, BuiltIsRead
<1>. QED
  BY <1>3, <1>14 DEF said, key

\* The network and the broker of a provisioning.
LEMMA ProvisionIsRead ==
    ASSUME Room, NEW ssid \in MessageBytes, NEW psk \in MessageBytes, NEW mqtt, IsBroker(mqtt),
           Len(ProvisionRequest(ssid, psk, mqtt)) < TwoTo[WordBits - 1]
    PROVE  SaysProvision(InnerFields(ProvisionRequest(ssid, psk, mqtt), 1), ssid, psk, mqtt)
<1>. DEFINE fields == InnerFields(ProvisionRequest(ssid, psk, mqtt), 1)
            key == EscapedPSK(psk)
            said == SevenSaid(ssid, key, mqtt)
<1>1. SaidBy(fields, said)
  BY ProvisionSaid
<1>2. /\ said[1] = ssid /\ said[2] = key /\ said[3] = mqtt.mqttTopic /\ said[4] = mqtt.BrokerURL
      /\ said[5] = mqtt.Port /\ said[6] = mqtt.ThingsPattern /\ said[7] = mqtt.logTopic
  BY DEF SevenSaid
<1>3. psk = << >> <=> key = << >>
  BY QuotedKey
<1>4. psk # << >> => Unescaped(key) = psk
  BY QuotedKey
<1>. HIDE DEF fields, said, key
<1>5. ASSUME NEW num \in 1 .. 7, num # 5
      PROVE  getString(fields, num) = said[num] /\ (hasBytes(fields, num) <=> said[num] # << >>)
  <2>1. Reads(fields, num, wireLenDel, << >>, said[num])
    BY <1>1, <1>5 DEF SaidBy, TypeOf, NoneOf
  <2>. QED
    BY <2>1 DEF Reads, getString, hasBytes, NoMatch
<1>6. getUint32(fields, 5) = said[5]
  <2>1. Reads(fields, 5, wireVarint, 0, said[5])
    BY <1>1 DEF SaidBy, TypeOf, NoneOf
  <2>. QED
    BY <2>1 DEF Reads, getUint32
<1>7. SaysProvision(fields, ssid, psk, mqtt)
  <2>1. /\ getString(fields, 1) = ssid /\ getString(fields, 2) = key
        /\ getString(fields, 3) = mqtt.mqttTopic /\ getString(fields, 4) = mqtt.BrokerURL
        /\ getString(fields, 6) = mqtt.ThingsPattern /\ getString(fields, 7) = mqtt.logTopic
    BY <1>2, <1>5
  <2>2. hasBytes(fields, 2) <=> key # << >>
    BY <1>2, <1>5
  <2>. QED
    BY <1>2, <1>3, <1>4, <1>6, <2>1, <2>2 DEF SaysProvision
<1>. QED
  BY <1>7 DEF fields

-----------------------------------------------------------------------------
(* The LEDs.                                                               *)

\* What an LED is asked to be.
LEMMA IndicationIs ==
    ASSUME Room, NEW id \in 0 .. 2, NEW color \in Nat, color < Fixed32Values,
           Len(Indication(id, color)) < TwoTo[WordBits - 1]
    PROVE  \E x : /\ Carries(Indication(id, color), OneField(1, wireLenDel, x))
                  /\ getUint32(Fields(x), 1) = id /\ getFixed32(Fields(x), 2) = color
<1>. DEFINE a == Tag(1, wireVarint) \o EncodeVarint(id)
            b == WriteFixed32(2, color)
            A == OneField(1, wireVarint, id)
            B == OneField(2, wire32Bit, color)
            x == a \o b
            F == A \o B
<1>1. Carries(a, A) /\ Carries(b, B)
  <2>. DEFINE i == 1
              j == 2
  <2>1. i \in 1 .. 9 /\ j \in 1 .. 9
    OBVIOUS
  <2>2. id \in Nat /\ id < TwoTo[WordBits]
    BY HalfWord DEF Room
  <2>. HIDE DEF i, j
  <2>3. Carries(Tag(i, wireVarint) \o EncodeVarint(id), OneField(i, wireVarint, id))
    BY <2>1, <2>2, WriteNumberIs
  <2>4. Carries(WriteFixed32(j, color), OneField(j, wire32Bit, color))
    BY <2>1, WriteFixed32Is
  <2>. QED
    BY <2>3, <2>4 DEF i, j
<1>2. Carries(x, F) /\ x # << >>
  <2>. HIDE DEF a, b, A, B
  <2>1. Carries(a \o b, A \o B)
    BY <1>1, CarriedTwo
  <2>2. b # << >>
    BY <1>1, OneNotEmpty DEF B
  <2>3. a \o b # << >>
    BY <1>1, <2>2, CarriedBytes, ConcatNotEmpty
  <2>. QED
    BY <2>1, <2>3
<1>3. Indication(id, color) = WriteMessage(1, x)
  BY DEF Indication
<1>. HIDE DEF x, F
<1>4. Carries(WriteMessage(1, x), OneField(1, wireLenDel, x)) /\ Fields(x) = F
  <2>. DEFINE n == 1
  <2>1. n \in 1 .. 9 /\ Len(WriteMessage(n, x)) < TwoTo[WordBits - 1]
    BY <1>3
  <2>. HIDE DEF n
  <2>2. Carries(WriteMessage(n, x), OneField(n, wireLenDel, x)) /\ Fields(x) = F
    BY <1>2, <2>1, NestedAlone
  <2>. QED
    BY <2>2 DEF n
<1>5. A \in Seq(SendableFields) /\ B \in Seq(SendableFields)
  BY <1>1 DEF Carries
<1>6. getUint32(F, 1) = id
  <2>. DEFINE types == {wireVarint}
  <2>1. ~NoMatch(A, 1, types) /\ First(A, 1, types, 0) = id
    <3>1. wireVarint \in types
      OBVIOUS
    <3>. HIDE DEF types
    <3>. QED
      BY <3>1, FoundInOne, FirstInOne
  <2>. HIDE DEF A, B, types
  <2>2. First(A \o B, 1, types, 0) = id
    BY <1>5, <2>1, FirstInTwo
  <2>. QED
    BY <2>2 DEF getUint32, types, F
<1>7. getFixed32(F, 2) = color
  <2>. DEFINE types == {wire32Bit}
  <2>1. NoMatch(A, 2, types) /\ First(B, 2, types, 0) = color
    <3>1. wire32Bit \in types
      OBVIOUS
    <3>. HIDE DEF types
    <3>. QED
      BY <3>1, FoundInOne, FirstInOne
  <2>. HIDE DEF A, B, types
  <2>2. First(A \o B, 2, types, 0) = color
    BY <1>5, <2>1, FirstInTwo
  <2>. QED
    BY <2>2 DEF getFixed32, types, F
<1>. QED
  BY <1>3, <1>4, <1>6, <1>7

\* What turns something on or off.
LEMMA OnIsRead ==
    ASSUME Room, NEW on \in BOOLEAN, Len(OnRequest(on)) < TwoTo[WordBits - 1]
    PROVE  getBool(Fields(OnRequest(on)), 1) <=> on
<1>. DEFINE n == 1
            bit == IF on THEN 1 ELSE 0
            m == WriteBool(n, on)
            r == OneField(n, wireVarint, bit)
            types == {wireVarint}
<1>0. OnRequest(on) = m /\ n \in 1 .. 9
  BY DEF OnRequest
<1>. HIDE DEF n
<1>1. Carries(m, r)
  <2>1. CASE on
    <3>1. Carries(WriteBool(n, TRUE), OneField(n, wireVarint, 1))
      BY <1>0, WriteBoolIs
    <3>2. WriteBool(n, on) = WriteBool(n, TRUE) /\ bit = 1
      BY <2>1 DEF WriteBool
    <3>. QED
      BY <3>1, <3>2
  <2>2. CASE ~on
    <3>1. Carries(WriteBool(n, FALSE), OneField(n, wireVarint, 0))
      BY <1>0, WriteBoolIs
    <3>2. WriteBool(n, on) = WriteBool(n, FALSE) /\ bit = 0
      BY <2>2 DEF WriteBool
    <3>. QED
      BY <3>1, <3>2
  <2>. QED
    BY <2>1, <2>2
<1>2. Fields(m) = r
  <2>1. Len(m) < TwoTo[WordBits - 1]
    BY <1>0
  <2>. HIDE DEF m, r
  <2>. QED
    BY <1>1, <2>1, CarriedIsRead
<1>3. First(r, n, types, 0) = bit
  <2>1. wireVarint \in types
    OBVIOUS
  <2>. HIDE DEF types, bit
  <2>. QED
    BY <2>1, FirstInOne
<1>. HIDE DEF m, r, types
<1>4. First(Fields(m), n, types, 0) # 0 <=> on
  BY <1>2, <1>3
<1>. QED
  BY <1>0, <1>4 DEF getBool, types, n

LEMMA IndicationBytes ==
    ASSUME Room, NEW id \in 0 .. 2, NEW color \in Nat, color < Fixed32Values
    PROVE  Indication(id, color) \in MessageBytes
<1>. DEFINE i == 1
            j == 2
            a == Tag(i, wireVarint) \o EncodeVarint(id)
            b == WriteFixed32(j, color)
            A == OneField(i, wireVarint, id)
            B == OneField(j, wire32Bit, color)
            x == a \o b
<1>0. i \in 1 .. 9 /\ j \in 1 .. 9 /\ Indication(id, color) = WriteMessage(i, x)
  BY DEF Indication
<1>1. id \in Nat /\ id < TwoTo[WordBits]
  BY HalfWord DEF Room
<1>. HIDE DEF i, j
<1>2. Carries(a, A)
  BY <1>0, <1>1, WriteNumberIs
<1>3. Carries(b, B)
  BY <1>0, WriteFixed32Is
<1>4. x \in MessageBytes
  <2>. HIDE DEF a, b, A, B
  <2>. QED
    BY <1>2, <1>3, CarriedTwo, CarriedBytes
<1>. HIDE DEF x
<1>. QED
  BY <1>0, <1>4, BytesWritten DEF WriteMessage

\* One element more.
IsAdded(S, t, s, e, n) ==
    /\ t \in Seq(S) /\ Len(t) = n + 1 /\ t[n + 1] = e
    /\ \A i \in 1 .. n : t[i] = s[i]

LEMMA AddedElement ==
    ASSUME NEW S, NEW s \in Seq(S), NEW e \in S
    PROVE  IsAdded(S, s \o <<e>>, s, e, Len(s))
<1>. DEFINE u == <<e>>
            t == s \o u
            n == Len(s)
<1>1. u \in Seq(S) /\ Len(u) = 1 /\ u[1] = e /\ n \in Nat
  OBVIOUS
<1>. HIDE DEF u
<1>2. /\ t \in Seq(S) /\ Len(t) = n + 1
      /\ \A i \in 1 .. n + 1 : t[i] = IF i <= n THEN s[i] ELSE u[i - n]
  <2>1. /\ t \in Seq(S) /\ Len(t) = Len(s) + Len(u)
        /\ \A i \in 1 .. Len(s) + Len(u) : t[i] = IF i <= Len(s) THEN s[i] ELSE u[i - Len(s)]
    BY <1>1, ConcatProperties
  <2>. HIDE DEF t
  <2>. QED
    BY <1>1, <2>1
<1>. HIDE DEF t, n
<1>3. n + 1 \in 1 .. n + 1 /\ ~(n + 1 <= n) /\ (n + 1) - n = 1
  BY <1>1
<1>4. t[n + 1] = e
  BY <1>1, <1>2, <1>3
<1>5. \A i \in 1 .. n : t[i] = s[i]
  BY <1>1, <1>2
<1>. QED
  BY <1>2, <1>4, <1>5 DEF IsAdded, t, u, n

\* Three messages in field 1, and perhaps a number in field 2.
LedFields(x, y, z, v) ==
    ((OneField(1, wireLenDel, x) \o OneField(1, wireLenDel, y)) \o OneField(1, wireLenDel, z))
        \o FieldUnless(2, wire64Bit, v, 0)

HoldsThree(fields, x, y, z) ==
    /\ Matching(fields, 1, {wireLenDel}) = {1, 2, 3}
    /\ fields[1].value = x /\ fields[2].value = y /\ fields[3].value = z

LEMMA ThreeFound ==
    ASSUME NEW x, NEW y, NEW z, NEW v
    PROVE  HoldsThree(LedFields(x, y, z, v), x, y, z)
<1>. DEFINE f == FieldRec(1, wireLenDel, x)
            g == FieldRec(1, wireLenDel, y)
            h == FieldRec(1, wireLenDel, z)
            o == FieldRec(2, wire64Bit, v)
            S == {f, g, h, o}
            a == <<f>>
            b == a \o <<g>>
            c == b \o <<h>>
            d == c \o <<o>>
            e == c \o << >>
            F == LedFields(x, y, z, v)
<1>1. /\ f.number = 1 /\ f.wireType = wireLenDel /\ f.value = x
      /\ g.number = 1 /\ g.wireType = wireLenDel /\ g.value = y
      /\ h.number = 1 /\ h.wireType = wireLenDel /\ h.value = z
      /\ o.number = 2
  BY DEF FieldRec
<1>2. F = IF v = 0 THEN e ELSE d
  BY DEF OneField, FieldUnless, LedFields
<1>. HIDE DEF f, g, h, o, F
<1>3. f \in S /\ g \in S /\ h \in S /\ o \in S
  OBVIOUS
<1>. HIDE DEF S
<1>4. a \in Seq(S) /\ Len(a) = 1 /\ a[1] = f
  BY <1>3
<1>. HIDE DEF a
<1>5. b \in Seq(S) /\ Len(b) = 2 /\ b[1] = f /\ b[2] = g
  <2>1. IsAdded(S, b, a, g, 1)
    BY <1>3, <1>4, AddedElement
  <2>. HIDE DEF b
  <2>. QED
    BY <1>4, <2>1 DEF IsAdded
<1>. HIDE DEF b
<1>6. c \in Seq(S) /\ Len(c) = 3 /\ c[1] = f /\ c[2] = g /\ c[3] = h
  <2>1. IsAdded(S, c, b, h, 2)
    BY <1>3, <1>5, AddedElement
  <2>. HIDE DEF c
  <2>. QED
    BY <1>5, <2>1 DEF IsAdded
<1>. HIDE DEF c
<1>7. /\ d \in Seq(S) /\ Len(d) = 4
      /\ d[1] = f /\ d[2] = g /\ d[3] = h /\ d[4] = o
  <2>1. IsAdded(S, d, c, o, 3)
    BY <1>3, <1>6, AddedElement
  <2>. HIDE DEF d
  <2>. QED
    BY <1>6, <2>1 DEF IsAdded
<1>8. e = c
  BY <1>6, ConcatEmptySeq
<1>. HIDE DEF d, e
<1>9. CASE v = 0
  <2>1. F = c
    BY <1>2, <1>8, <1>9
  <2>2. DOMAIN F = {1, 2, 3} /\ F[1] = f /\ F[2] = g /\ F[3] = h
    BY <1>6, <2>1
  <2>. QED
    BY <1>1, <2>2 DEF HoldsThree, Matching, F
<1>10. CASE v # 0
  <2>1. F = d
    BY <1>2, <1>10
  <2>2. DOMAIN F = {1, 2, 3, 4} /\ F[1] = f /\ F[2] = g /\ F[3] = h /\ F[4] = o
    BY <1>7, <2>1
  <2>. QED
    BY <1>1, <2>2 DEF HoldsThree, Matching, F
<1>. QED
  BY <1>9, <1>10

\* The LEDs, and how long.
SaysLeds(fields, left, top, right, timeout) ==
    /\ Matching(fields, 1, {wireLenDel}) = {1, 2, 3}
    /\ getUint32(Fields(fields[1].value), 1) = 0
    /\ getUint32(Fields(fields[2].value), 1) = 1
    /\ getUint32(Fields(fields[3].value), 1) = 2
    /\ getFixed32(Fields(fields[1].value), 2) = left
    /\ getFixed32(Fields(fields[2].value), 2) = top
    /\ getFixed32(Fields(fields[3].value), 2) = right
    /\ getDouble(fields, 2) = timeout

LEMMA LedsAreRead ==
    ASSUME Room, NEW left \in Nat, left < Fixed32Values, NEW top \in Nat, top < Fixed32Values,
           NEW right \in Nat, right < Fixed32Values, NEW timeout \in Nat, timeout < TwoTo[WordBits],
           Len(IndicateRequest(left, top, right, timeout)) < TwoTo[WordBits - 1]
    PROVE  SaysLeds(Fields(IndicateRequest(left, top, right, timeout)), left, top, right, timeout)
<1>. DEFINE a == Indication(0, left)
            b == Indication(1, top)
            c == Indication(2, right)
            d == WriteDouble(2, timeout)
            D == FieldUnless(2, wire64Bit, timeout, 0)
            ab == a \o b
            abc == ab \o c
            m == abc \o d
            H == TwoTo[WordBits - 1]
<1>0. m = IndicateRequest(left, top, right, timeout) /\ H \in Nat
  BY HalfWord DEF IndicateRequest
<1>1. a \in MessageBytes /\ b \in MessageBytes /\ c \in MessageBytes
  BY IndicationBytes
<1>2. Carries(d, D)
  <2>. DEFINE j == 2
  <2>1. j \in 1 .. 9
    OBVIOUS
  <2>. HIDE DEF j
  <2>2. Carries(WriteDouble(j, timeout), FieldUnless(j, wire64Bit, timeout, 0))
    BY <2>1, WriteDoubleIs
  <2>. QED
    BY <2>2 DEF j
<1>3. Len(a) < H /\ Len(b) < H /\ Len(c) < H
  <2>0. Len(m) < H
    BY <1>0
  <2>. HIDE DEF a, b, c, d, D, H
  <2>1. ab \in MessageBytes
    BY <1>1, ConcatProperties DEF MessageBytes
  <2>. HIDE DEF ab
  <2>2. abc \in MessageBytes
    BY <1>1, <2>1, ConcatProperties DEF MessageBytes
  <2>. HIDE DEF abc
  <2>3. d \in MessageBytes
    BY <1>2, CarriedBytes
  <2>4. Len(abc) < H
    BY <1>0, <2>0, <2>2, <2>3, CountedInTwo
  <2>5. Len(ab) < H /\ Len(c) < H
    BY <1>0, <1>1, <2>1, <2>4, CountedInTwo DEF abc
  <2>. QED
    BY <1>0, <1>1, <2>5, CountedInTwo DEF ab
<1>4. PICK x : /\ Carries(a, OneField(1, wireLenDel, x))
               /\ getUint32(Fields(x), 1) = 0 /\ getFixed32(Fields(x), 2) = left
  BY <1>3, IndicationIs
<1>5. PICK y : /\ Carries(b, OneField(1, wireLenDel, y))
               /\ getUint32(Fields(y), 1) = 1 /\ getFixed32(Fields(y), 2) = top
  BY <1>3, IndicationIs
<1>6. PICK z : /\ Carries(c, OneField(1, wireLenDel, z))
               /\ getUint32(Fields(z), 1) = 2 /\ getFixed32(Fields(z), 2) = right
  BY <1>3, IndicationIs
<1>. DEFINE A == OneField(1, wireLenDel, x)
            B == OneField(1, wireLenDel, y)
            C == OneField(1, wireLenDel, z)
            ABC == (A \o B) \o C
            F == ABC \o D
<1>7. Carries(m, F)
  <2>. HIDE DEF a, b, c, d, A, B, C, D
  <2>1. Carries(abc, ABC)
    BY <1>4, <1>5, <1>6, CarriedThree DEF A, B, C
  <2>. HIDE DEF abc, ABC
  <2>. QED
    BY <1>2, <2>1, CarriedTwo
<1>8. Fields(m) = F
  <2>1. Len(m) < H
    BY <1>0
  <2>. HIDE DEF m, F
  <2>. QED
    BY <1>7, <2>1, CarriedIsRead
<1>12. getDouble(F, 2) = timeout
  <2>. DEFINE types == {wire64Bit}
              i == 1
              j == 2
  <2>1. wire64Bit \in types /\ wireLenDel \notin types
    BY DEF wire64Bit, wireLenDel
  <2>2. /\ A \in Seq(SendableFields) /\ B \in Seq(SendableFields)
        /\ C \in Seq(SendableFields) /\ D \in Seq(SendableFields)
    BY <1>2, <1>4, <1>5, <1>6 DEF Carries
  <2>. HIDE DEF types, i, j
  <2>3. NoMatch(A, j, types) /\ NoMatch(B, j, types) /\ NoMatch(C, j, types)
    BY <2>1, FoundInOne
  <2>4. First(D, j, types, 0) = timeout
    <3>1. First(FieldUnless(j, wire64Bit, timeout, 0), j, types, 0) = timeout
      BY <2>1, FirstUnless
    <3>. QED
      BY <3>1 DEF j
  <2>. HIDE DEF A, B, C, D
  <2>5. NoMatch(ABC, j, types)
    BY <2>2, <2>3, FirstInThree
  <2>6. ABC \in Seq(SendableFields)
    <3>1. A \o B \in Seq(SendableFields)
      BY <2>2, ConcatProperties
    <3>. QED
      BY <2>2, <3>1, ConcatProperties
  <2>. HIDE DEF ABC
  <2>7. First(ABC \o D, j, types, 0) = timeout
    BY <2>2, <2>4, <2>5, <2>6, FirstInTwo
  <2>. QED
    BY <2>7 DEF getDouble, types, j
<1>. HIDE DEF m
<1>9. /\ Matching(Fields(m), 1, {wireLenDel}) = {1, 2, 3}
      /\ Fields(m)[1].value = x /\ Fields(m)[2].value = y /\ Fields(m)[3].value = z
  <2>. DEFINE r == LedFields(x, y, z, timeout)
  <2>1. Fields(m) = r
    BY <1>8 DEF LedFields
  <2>2. HoldsThree(r, x, y, z)
    BY ThreeFound
  <2>. HIDE DEF r
  <2>. QED
    BY <2>1, <2>2 DEF HoldsThree
<1>13. getDouble(Fields(m), 2) = timeout
  <2>. HIDE DEF F
  <2>. QED
    BY <1>8, <1>12
<1>. DEFINE fields == Fields(m)
<1>. HIDE DEF fields
<1>10. /\ Matching(fields, 1, {wireLenDel}) = {1, 2, 3}
       /\ fields[1].value = x /\ fields[2].value = y /\ fields[3].value = z
  BY <1>9 DEF fields
<1>11. fields = Fields(IndicateRequest(left, top, right, timeout))
  BY <1>0 DEF fields
<1>14. getDouble(fields, 2) = timeout
  BY <1>13 DEF fields
<1>. HIDE DEF F
<1>. QED
  BY <1>4, <1>5, <1>6, <1>10, <1>11, <1>14 DEF SaysLeds

-----------------------------------------------------------------------------
(* All of them.                                                            *)

\* An int can count the bytes of a message.
Counted(m) == Len(m) < TwoTo[WordBits - 1]

\* Every message the law speaks of is one an int can count.
MessagesCounted ==
    /\ Counted(OpenRequest(<<3>> \o message)) /\ Counted(CloseRequest)
    /\ \A offset \in {number, WordValues - 1} :
          Counted(DataRequest(offset, message))
    /\ Counted(ProvisionRequest(message, message, MQTT(WordValues - 1 - number)))
    /\ Counted(IndicateRequest(1, number % Fixed32Values, 0, number))
    /\ Counted(OnRequest(number > 0))
    /\ \A state \in 0 .. Fixed32Values - 1 :
          Counted(StatusOf(state, number) \o WriteBytes(2, message))
    /\ Counted(WriteMessage(1, WriteBytes(8, message) \o WriteBytes(9, <<1>>)))
    /\ Counted(WriteMessage(1, WriteBool(1, FALSE) \o WriteBool(2, TRUE) \o WriteBytes(8, message)))

\* What is tried.
Tried ==
    /\ Room /\ MessagesCounted
    /\ message \in MessageBytes
    /\ number \in Nat /\ number < TwoTo[WordBits]

LEMMA PathIs ==
    ASSUME Tried
    PROVE  /\ <<3>> \o message \in MessageBytes /\ <<3>> \o message # << >>
           /\ Len(message) < TwoTo[WordBits]
<1>. DEFINE u == <<3>>
            path == u \o message
            n == 1
            x == WriteBytes(n, path)
            W == TwoTo[WordBits]
<1>1. u \in MessageBytes /\ u # << >> /\ Len(u) = 1
  BY OneByte
<1>2. message \in MessageBytes /\ Len(message) \in Nat /\ W \in Nat
  BY MessageBytesAre, HalfWord DEF Tried
<1>3. Len(WriteMessage(n, x)) < TwoTo[WordBits - 1] /\ n \in 1 .. 9
  BY DEF Tried, MessagesCounted, Counted, OpenRequest
<1>. HIDE DEF u, n, W
<1>4. path \in MessageBytes /\ path # << >> /\ Len(path) = 1 + Len(message)
  <2>1. path \in MessageBytes /\ path # << >>
    BY <1>1, <1>2, ConcatNotEmpty
  <2>2. Len(path) = Len(u) + Len(message)
    BY <1>1, <1>2, ConcatProperties DEF MessageBytes
  <2>. HIDE DEF path
  <2>. QED
    BY <1>1, <2>1, <2>2
<1>. HIDE DEF path
<1>5. x \in MessageBytes /\ Len(x) \in Nat /\ Len(x) >= Len(path)
  BY <1>3, <1>4, BytesWritten
<1>. HIDE DEF x
<1>6. Len(x) < W
  BY <1>3, <1>5, CountedAlone DEF W
<1>7. Len(message) < W
  BY <1>2, <1>4, <1>5, <1>6
<1>. QED
  BY <1>4, <1>7 DEF W, path, u

LEMMA RequestsExact ==
    ASSUME Tried
    PROVE  RequestsReadBack
<1>. DEFINE path == <<3>> \o message
<1>0. /\ Room /\ message \in MessageBytes /\ number \in Nat /\ number < TwoTo[WordBits]
      /\ MessagesCounted
  BY DEF Tried
<1>1. path \in MessageBytes /\ path # << >> /\ Len(message) < TwoTo[WordBits]
  BY PathIs
<1>2. Kinds(OpenRequest(path)) = {1} /\ getString(InnerFields(OpenRequest(path), 1), 1) = path
  <2>1. Len(OpenRequest(path)) < TwoTo[WordBits - 1]
    BY <1>0 DEF MessagesCounted, Counted
  <2>. HIDE DEF path
  <2>. QED
    BY <1>0, <1>1, <2>1, OpenIsRead
<1>3. Kinds(CloseRequest) = {3}
  BY <1>0, CloseIsRead DEF MessagesCounted, Counted
<1>4. ASSUME NEW offset \in {number, WordValues - 1}
      PROVE  LET data == DataRequest(offset, message)
             IN  data # << >> =>
                     /\ Kinds(data) = {2}
                     /\ getUint32(InnerFields(data, 2), 1) = offset
                     /\ getString(InnerFields(data, 2), 2) = message
  <2>1. offset \in Nat /\ offset < TwoTo[WordBits]
    <3>1. TwoTo[WordBits] \in Nat
      BY HalfWord
    <3>. QED
      BY <1>0, <1>4, <3>1 DEF Room, WordValues
  <2>2. Len(DataRequest(offset, message)) < TwoTo[WordBits - 1]
    BY <1>0, <1>4 DEF MessagesCounted, Counted
  <2>. QED
    BY <1>0, <1>1, <2>1, <2>2, DataIsRead
<1>. DEFINE port == WordValues - 1 - number
            mqtt == MQTT(port)
            provision == ProvisionRequest(message, message, mqtt)
<1>5. SaysProvision(InnerFields(provision, 1), message, message, mqtt)
  <2>1. IsBroker(mqtt)
    <3>1. /\ <<0>> \in MessageBytes /\ <<0>> # << >> /\ <<1>> \in MessageBytes
          /\ <<2>> \in MessageBytes /\ <<3>> \in MessageBytes
      BY OneByte
    <3>2. port \in Nat /\ port < TwoTo[WordBits]
      <4>1. TwoTo[WordBits] \in Nat
        BY HalfWord
      <4>. QED
        BY <1>0, <4>1 DEF WordValues
    <3>. HIDE DEF port
    <3>. QED
      BY <3>1, <3>2 DEF IsBroker, MQTT
  <2>2. Len(provision) < TwoTo[WordBits - 1]
    BY <1>0 DEF MessagesCounted, Counted
  <2>. HIDE DEF mqtt
  <2>. QED
    BY <1>0, <2>1, <2>2, ProvisionIsRead
<1>. HIDE DEF path, provision, mqtt
<1>. QED
  BY <1>2, <1>3, <1>4, <1>5 DEF RequestsReadBack, path, provision, mqtt

LEMMA StatusExact ==
    ASSUME Tried
    PROVE  StatusReadsBack
<1>1. ASSUME NEW state \in 0 .. Fixed32Values - 1
      PROVE  LET read == ParseStatus(StatusOf(state, number) \o WriteBytes(2, message))
             IN  /\ read.status = "ok"
                 /\ read.value.State = state
                 /\ read.value.Error = Signed(ZigZag(number), Fixed32Values)
                 /\ read.value.DidProvisioningSucceed <=> state = 1
  <2>1. state \in Nat /\ state < Fixed32Values
    BY Fixed32IsMany
  <2>2. Len(StatusOf(state, number) \o WriteBytes(2, message)) < TwoTo[WordBits - 1]
    BY DEF Tried, MessagesCounted, Counted
  <2>. QED
    BY <2>1, <2>2, StatusIsRead DEF Tried
<1>. QED
  BY <1>1 DEF StatusReadsBack

LEMMA InfoExact ==
    ASSUME Tried
    PROVE  InfoReadsBack
<1>. DEFINE u == <<1>>
            x == WriteBytes(8, message) \o WriteBytes(9, u)
            y == (WriteBool(1, FALSE) \o WriteBool(2, TRUE)) \o WriteBytes(8, message)
            info == ParseDeviceInfo(WriteMessage(1, x)).value
            battery == ParseBatteryInfo(WriteMessage(1, y)).value
<1>0. Room /\ message \in MessageBytes /\ Len(message) < TwoTo[WordBits]
  BY PathIs DEF Tried
<1>1. u \in MessageBytes /\ u # << >>
  BY OneByte
<1>2. Len(WriteMessage(1, x)) < TwoTo[WordBits - 1] /\ Len(WriteMessage(1, y)) < TwoTo[WordBits - 1]
  BY DEF Tried, MessagesCounted, Counted
<1>. HIDE DEF u
<1>3. info.AWSThingName = message /\ info.WiFiMAC = u
  BY <1>0, <1>1, <1>2, NamesAreRead
<1>4. ~battery.IsPluggedIn /\ battery.IsCharging
  BY <1>0, <1>2, BatteryIsRead
<1>. HIDE DEF info, battery
<1>. QED
  BY <1>3, <1>4 DEF InfoReadsBack, info, battery, x, y, u

LEMMA LedsExact ==
    ASSUME Tried
    PROVE  LedsReadBack
<1>. DEFINE color == number % Fixed32Values
            left == 1
            right == 0
            fields == Fields(IndicateRequest(left, color, right, number))
            inner == [k \in Matching(fields, 1, {wireLenDel}) |-> Fields(fields[k].value)]
<1>0. /\ Room /\ number \in Nat /\ number < TwoTo[WordBits]
      /\ color \in Nat /\ color < Fixed32Values
      /\ left \in Nat /\ left < Fixed32Values /\ right \in Nat /\ right < Fixed32Values
  BY Fixed32IsMany DEF Tried
<1>1. getBool(Fields(OnRequest(number > 0)), 1) <=> number > 0
  <2>1. Len(OnRequest(number > 0)) < TwoTo[WordBits - 1]
    BY DEF Tried, MessagesCounted, Counted
  <2>2. CASE number > 0
    <3>1. OnRequest(number > 0) = OnRequest(TRUE)
      BY <2>2 DEF OnRequest, WriteBool
    <3>2. getBool(Fields(OnRequest(TRUE)), 1) <=> TRUE
      BY <1>0, <2>1, <3>1, OnIsRead
    <3>. QED
      BY <2>2, <3>1, <3>2
  <2>3. CASE ~(number > 0)
    <3>1. OnRequest(number > 0) = OnRequest(FALSE)
      BY <2>3 DEF OnRequest, WriteBool
    <3>2. getBool(Fields(OnRequest(FALSE)), 1) <=> FALSE
      BY <1>0, <2>1, <3>1, OnIsRead
    <3>. QED
      BY <2>3, <3>1, <3>2
  <2>. QED
    BY <2>2, <2>3
<1>2. Len(IndicateRequest(left, color, right, number)) < TwoTo[WordBits - 1]
  BY DEF Tried, MessagesCounted, Counted
<1>. HIDE DEF color, left, right
<1>3. /\ Matching(fields, 1, {wireLenDel}) = {1, 2, 3}
      /\ getUint32(Fields(fields[1].value), 1) = 0
      /\ getUint32(Fields(fields[2].value), 1) = 1
      /\ getUint32(Fields(fields[3].value), 1) = 2
      /\ getFixed32(Fields(fields[1].value), 2) = left
      /\ getFixed32(Fields(fields[2].value), 2) = color
      /\ getFixed32(Fields(fields[3].value), 2) = right
      /\ getDouble(fields, 2) = number
  <2>1. SaysLeds(fields, left, color, right, number)
    BY <1>0, <1>2, LedsAreRead
  <2>. QED
    BY <2>1 DEF SaysLeds
<1>. HIDE DEF fields
<1>4. /\ DOMAIN inner = {1, 2, 3}
      /\ \A k \in {1, 2, 3} : inner[k] = Fields(fields[k].value)
  BY <1>3
<1>. HIDE DEF inner
<1>5. [k \in DOMAIN inner |-> getUint32(inner[k], 1)] = <<0, 1, 2>>
  BY <1>3, <1>4
<1>6. [k \in DOMAIN inner |-> getFixed32(inner[k], 2)] = <<left, color, right>>
  BY <1>3, <1>4
<1>. QED
  BY <1>1, <1>3, <1>5, <1>6 DEF LedsReadBack, inner, fields, color, left, right

\* The same as MessagesReadBack says, for every number a word holds and every
\* message whose bytes can be counted: the path, chunk and offset, LEDs, network
\* and broker of the requests, the status, names and battery of the responses.
THEOREM MessagesExact ==
    ASSUME number \in Numbers, message \in Seq(0 .. ByteValues - 1), MessagesCounted
    PROVE  MessagesReadBack
<1>1. Tried
  <2>1. TwoTo[WordBits] \in Nat
    BY HalfWord
  <2>. QED
    BY <2>1, RoomAssumption DEF Tried, Room, MessageBytes, MessageByte, Numbers, WordValues
<1>. QED
  BY <1>1, RequestsExact, StatusExact, InfoExact, LedsExact DEF MessagesReadBack

-----------------------------------------------------------------------------
(* The line.                                                               *)

Line(k) == COBSEncode(Packets[k]) \o <<packetDelimiter>>

\* What is still to be read: from line m on, of which got has been taken off.
\* rest[k] is the line k and those behind it, up to the last one written.
LineAt(stream, count, m, got) ==
    /\ m \in 1 .. count + 1
    /\ got \in Bytes
    /\ \E rest \in [1 .. count + 1 -> Bytes] :
          /\ rest[count + 1] = << >>
          /\ \A k \in 1 .. count : rest[k] = Line(k) \o rest[k + 1]
          /\ \/ m = count + 1 /\ got = << >> /\ stream = << >>
             \/ \E left \in Bytes : /\ m <= count /\ left # << >> /\ Line(m) = got \o left
                                    /\ stream = left \o rest[m + 1]

LineTypeOK ==
    /\ written \in 0 .. Len(Packets)
    /\ wire \in Bytes
    /\ faults \in Nat
    /\ cost \in Nat
    /\ buffer \in Bytes
    /\ delivered \in Seq(PacketSet)

\* Every line that has gone by was delivered or is paid for; the one that is
\* arriving is in the buffer, as far as it has come, or is paid for too.
PaidFor(m, got) ==
    Len(delivered) + cost >= (m - 1) + (IF buffer = got THEN 0 ELSE 1)

\* On a line that damages nothing, the buffer holds what has come of the packet
\* and all the packets before it are delivered.
AsWritten(m, got) ==
    faults = 0 => /\ cost = 0 /\ buffer = got
                  /\ Len(delivered) = m - 1
                  /\ \A k \in 1 .. m - 1 : delivered[k] = Packets[k]

LineIInv ==
    /\ LineTypeOK
    /\ \E m, got : LineAt(wire, written, m, got) /\ PaidFor(m, got) /\ AsWritten(m, got)

-----------------------------------------------------------------------------

LEMMA PacketIs ==
    ASSUME NEW k \in 1 .. Len(Packets)
    PROVE  Packets[k] \in Bytes /\ Packets[k] \in PacketSet
  BY FramingAssumption DEF Bytes, Byte, PacketSet

LEMMA LineIs ==
    ASSUME NEW k \in 1 .. Len(Packets)
    PROVE  LET e == COBSEncode(Packets[k])
           IN  /\ e \in Bytes /\ Len(e) \in Nat /\ Len(e) > 0 /\ e # << >> /\ ZeroFree(e)
               /\ COBSDecode(e) = {Packets[k]}
               /\ Line(k) \in Bytes /\ Len(Line(k)) = Len(e) + 1 /\ Line(k) = e \o << 0 >>
<1>. DEFINE e == COBSEncode(Packets[k])
<1>1. Exact(Packets[k])
  BY PacketIs, EveryPacketExact
<1>2. e \in Bytes /\ Len(e) > 0 /\ ZeroFree(e) /\ COBSDecode(e) = {Packets[k]}
  BY <1>1 DEF Exact
<1>3. Line(k) = e \o << 0 >>
  BY DEF Line, packetDelimiter
<1>. HIDE DEF e
<1>4. Len(<< 0 >>) = 1 /\ e # << >>
  BY <1>2
<1>5. Line(k) \in Bytes /\ Len(Line(k)) = Len(e) + 1 /\ Len(e) \in Nat
  BY <1>2, <1>3, <1>4, ShortSequences, ConcatBytes
<1>. QED
  BY <1>2, <1>3, <1>4, <1>5 DEF e

LEMMA EmptyBytes ==
    ASSUME NEW a \in Bytes
    PROVE  a = << >> <=> Len(a) = 0
  BY EmptySeq DEF Bytes

LEMMA HeadOfConcat ==
    ASSUME NEW a \in Bytes, NEW b \in Bytes, a # << >>
    PROVE  /\ a \o b \in Bytes /\ a \o b # << >>
           /\ Head(a \o b) = Head(a) /\ Tail(a \o b) = Tail(a) \o b
           /\ Head(a) \in Byte /\ Tail(a) \in Bytes /\ Len(Tail(a)) = Len(a) - 1
           /\ Head(a) = a[1] /\ a = <<Head(a)>> \o Tail(a)
<1>1. /\ Len(a) \in Nat /\ Len(b) \in Nat /\ Len(a) > 0
      /\ a \o b \in Bytes /\ Len(a \o b) = Len(a) + Len(b)
      /\ \A i \in 1 .. Len(a) + Len(b) : (a \o b)[i] = IF i <= Len(a) THEN a[i] ELSE b[i - Len(a)]
  BY ConcatProperties DEF Bytes
<1>2. PICK r \in Bytes : a = <<a[1]>> \o r /\ Len(r) = Len(a) - 1
  BY <1>1, SplitFirst
<1>3. a[1] \in Byte
  <2>1. 1 \in 1 .. Len(a)
    BY <1>1
  <2>. QED
    BY <2>1 DEF Bytes
<1>4. \A x \in Byte : \A s \in Bytes : Head(<<x>> \o s) = x /\ Tail(<<x>> \o s) = s
  <2>. SUFFICES ASSUME NEW x \in Byte, NEW s \in Bytes
                PROVE  Head(<<x>> \o s) = x /\ Tail(<<x>> \o s) = s
    OBVIOUS
  <2>1. x \in Byte /\ s \in Seq(Byte)
    BY DEF Bytes
  <2>. QED
    BY <2>1 DEF Bytes
<1>5. <<a[1]>> \in Bytes
  BY <1>3 DEF Bytes
<1>6. a \o b = <<a[1]>> \o (r \o b)
  <2>1. (<<a[1]>> \o r) \o b = <<a[1]>> \o (r \o b)
    BY <1>5, ConcatOfThree
  <2>. QED
    BY <1>2, <2>1
<1>7. r \o b \in Bytes
  BY ConcatBytes
<1>8. Head(a) = a[1] /\ Tail(a) = r
  BY <1>2, <1>3, <1>4
<1>9. Head(a \o b) = a[1] /\ Tail(a \o b) = r \o b
  BY <1>3, <1>4, <1>6, <1>7
<1>10. a \o b # << >>
  BY <1>1
<1>. QED
  BY <1>1, <1>2, <1>3, <1>8, <1>9, <1>10

\* The next byte belongs to the line that is arriving, or ends it.
LEMMA NextByte ==
    ASSUME NEW count \in 0 .. Len(Packets), NEW stream \in Bytes, stream # << >>, NEW m, NEW got,
           LineAt(stream, count, m, got)
    PROVE  /\ Head(stream) \in Byte /\ Tail(stream) \in Bytes
           /\ m \in 1 .. Len(Packets)
           /\ \/ /\ Head(stream) # 0
                 /\ LineAt(Tail(stream), count, m, Append(got, Head(stream)))
              \/ /\ Head(stream) = 0
                 /\ got = COBSEncode(Packets[m])
                 /\ LineAt(Tail(stream), count, m + 1, << >>)
<1>1. PICK rest \in [1 .. count + 1 -> Bytes] :
          /\ rest[count + 1] = << >>
          /\ \A k \in 1 .. count : rest[k] = Line(k) \o rest[k + 1]
          /\ \/ m = count + 1 /\ got = << >> /\ stream = << >>
             \/ \E left \in Bytes : /\ m <= count /\ left # << >> /\ Line(m) = got \o left
                                    /\ stream = left \o rest[m + 1]
  BY DEF LineAt
<1>2. PICK left \in Bytes : /\ m <= count /\ left # << >> /\ Line(m) = got \o left
                            /\ stream = left \o rest[m + 1]
  BY <1>1
<1>3. Len(Packets) \in Nat /\ count \in Nat
  <2>1. Len(Packets) \in Nat
    BY FramingAssumption
  <2>. QED
    BY <2>1
<1>4. /\ m \in 1 .. Len(Packets) /\ m \in 1 .. count /\ m + 1 \in 1 .. count + 1 /\ m \in Nat
      /\ got \in Bytes /\ rest[m + 1] \in Bytes
  BY <1>2, <1>3 DEF LineAt
<1>. DEFINE b == Head(left)
            e == COBSEncode(Packets[m])
<1>5. /\ Head(stream) = b /\ Tail(stream) = Tail(left) \o rest[m + 1]
      /\ b \in Byte /\ Tail(left) \in Bytes /\ Tail(stream) \in Bytes
      /\ left = <<b>> \o Tail(left) /\ b = left[1] /\ Len(Tail(left)) = Len(left) - 1
  <2>1. /\ Head(stream) = b /\ Tail(stream) = Tail(left) \o rest[m + 1]
        /\ b \in Byte /\ Tail(left) \in Bytes
        /\ left = <<b>> \o Tail(left) /\ b = left[1] /\ Len(Tail(left)) = Len(left) - 1
    BY <1>2, <1>4, HeadOfConcat
  <2>2. Tail(left) \o rest[m + 1] \in Bytes
    BY <1>4, <2>1, ConcatBytes
  <2>. QED
    BY <2>1, <2>2
<1>6. /\ e \in Bytes /\ Len(e) \in Nat /\ ZeroFree(e)
      /\ Line(m) = e \o << 0 >> /\ Len(Line(m)) = Len(e) + 1
  BY <1>4, LineIs
<1>7. /\ Len(got) \in Nat /\ Len(left) \in Nat /\ Len(left) > 0 /\ Len(got) + Len(left) = Len(e) + 1
      /\ Line(m)[Len(got) + 1] = b
  <2>1. /\ Len(got) \in Nat /\ Len(left) \in Nat /\ Len(left) > 0
        /\ Len(got \o left) = Len(got) + Len(left)
        /\ \A i \in 1 .. Len(got) + Len(left) :
              (got \o left)[i] = IF i <= Len(got) THEN got[i] ELSE left[i - Len(got)]
    BY <1>2, <1>4, ConcatProperties DEF Bytes
  <2>2. /\ Len(got) + 1 \in 1 .. Len(got) + Len(left) /\ ~(Len(got) + 1 <= Len(got))
        /\ (Len(got) + 1) - Len(got) = 1
    BY <2>1
  <2>. HIDE DEF b, e
  <2>. QED
    BY <1>2, <1>5, <1>6, <2>1, <2>2
<1>8. \A i \in 1 .. Len(e) + 1 : Line(m)[i] = IF i <= Len(e) THEN e[i] ELSE 0
  <2>1. /\ Len(<< 0 >>) = 1
        /\ \A i \in 1 .. Len(e) + Len(<< 0 >>) :
              (e \o << 0 >>)[i] = IF i <= Len(e) THEN e[i] ELSE << 0 >>[i - Len(e)]
    <3>. HIDE DEF e
    <3>. QED
      BY <1>6, ShortSequences, ConcatProperties DEF Bytes
  <2>2. \A i \in 1 .. Len(e) + 1 : ~(i <= Len(e)) => i - Len(e) = 1
    BY <1>6
  <2>3. << 0 >>[1] = 0
    OBVIOUS
  <2>. HIDE DEF e
  <2>. QED
    BY <1>6, <2>1, <2>2, <2>3
<1>. HIDE DEF b, e
<1>9. CASE Len(left) > 1
  <2>1. /\ Len(got) + 1 \in 1 .. Len(e) + 1 /\ Len(got) + 1 <= Len(e)
        /\ Len(got) + 1 \in 1 .. Len(e)
    BY <1>6, <1>7, <1>9
  <2>2. b # 0
    BY <1>6, <1>7, <1>8, <2>1 DEF ZeroFree
  <2>3. Append(got, b) \in Bytes /\ Append(got, b) = got \o <<b>> /\ <<b>> \in Bytes
    <3>1. <<b>> \in Bytes
      BY <1>5 DEF Bytes
    <3>. QED
      BY <1>4, <1>5, <3>1, AppendProperties, AppendIsConcat DEF Bytes
  <2>4. Line(m) = Append(got, b) \o Tail(left)
    <3>1. (got \o <<b>>) \o Tail(left) = got \o (<<b>> \o Tail(left))
      BY <1>4, <1>5, <2>3, ConcatOfThree
    <3>. QED
      BY <1>2, <1>5, <2>3, <3>1
  <2>5. Tail(left) # << >>
    <3>1. Len(Tail(left)) # 0
      BY <1>5, <1>7, <1>9
    <3>. QED
      BY <1>5, <3>1, EmptyBytes
  <2>6. LineAt(Tail(stream), count, m, Append(got, b))
    BY <1>1, <1>2, <1>4, <1>5, <2>3, <2>4, <2>5 DEF LineAt
  <2>. QED
    BY <1>4, <1>5, <2>2, <2>6
<1>10. CASE ~(Len(left) > 1)
  <2>1. /\ Len(left) = 1 /\ Len(got) = Len(e)
        /\ Len(got) + 1 \in 1 .. Len(e) + 1 /\ ~(Len(got) + 1 <= Len(e))
    <3>1. Len(left) = 1
      <4>1. Len(left) \in Nat /\ Len(left) > 0
        BY <1>7
      <4>2. \A n \in Nat : n > 0 /\ ~(n > 1) => n = 1
        OBVIOUS
      <4>. QED
        BY <1>10, <4>1, <4>2
    <3>2. Len(got) = Len(e)
      BY <1>6, <1>7, <3>1
    <3>. QED
      BY <1>6, <3>1, <3>2
  <2>2. b = 0
    BY <1>7, <1>8, <2>1
  <2>3. Tail(left) = << >>
    <3>1. Len(Tail(left)) = 0
      BY <1>5, <2>1
    <3>. QED
      BY <1>5, <3>1, EmptyBytes
  <2>4. got = e
    <3>1. got \o << 0 >> = e \o << 0 >>
      <4>1. <<b>> \o << >> = <<b>>
        BY <2>2, ShortSequences, ConcatEmptySeq DEF Bytes
      <4>. QED
        BY <1>2, <1>5, <1>6, <2>2, <2>3, <4>1
    <3>2. got \in Seq(Byte) /\ e \in Seq(Byte) /\ << 0 >> \in Seq(Byte)
      BY <1>4, <1>6, ShortSequences DEF Bytes
    <3>. QED
      BY <3>1, <3>2, ConcatSimplifications
  <2>5. Tail(stream) = rest[m + 1]
    BY <1>4, <1>5, <2>3, ConcatEmptySeq DEF Bytes
  <2>6. LineAt(Tail(stream), count, m + 1, << >>)
    <3>1. CASE m = count
      <4>1. m + 1 = count + 1 /\ Tail(stream) = << >>
        BY <1>1, <2>5, <3>1
      <4>. QED
        BY <1>1, <1>4, <4>1, ShortSequences DEF LineAt
    <3>2. CASE m # count
      <4>1. m + 1 <= count /\ m + 1 \in 1 .. count /\ m + 1 \in 1 .. Len(Packets)
        BY <1>2, <1>3, <1>4, <3>2
      <4>2. Line(m + 1) \in Bytes /\ Line(m + 1) # << >>
        <5>1. Line(m + 1) \in Bytes /\ Len(Line(m + 1)) = Len(COBSEncode(Packets[m + 1])) + 1
              /\ Len(COBSEncode(Packets[m + 1])) \in Nat
          BY <4>1, LineIs
        <5>. QED
          BY <5>1
      <4>3. Line(m + 1) = << >> \o Line(m + 1)
        BY <4>2, ConcatEmptySeq DEF Bytes
      <4>4. Tail(stream) = Line(m + 1) \o rest[(m + 1) + 1]
        BY <1>1, <2>5, <4>1
      <4>. QED
        BY <1>1, <1>4, <4>1, <4>2, <4>3, <4>4, ShortSequences DEF LineAt
    <3>. QED
      BY <3>1, <3>2
  <2>. QED
    BY <1>4, <1>5, <2>2, <2>4, <2>6 DEF e
<1>. QED
  BY <1>7, <1>9, <1>10

LEMMA LineWritten ==
    ASSUME NEW count \in Nat, count + 1 \in 1 .. Len(Packets), NEW stream \in Bytes, NEW m, NEW got,
           LineAt(stream, count, m, got)
    PROVE  LineAt(stream \o Line(count + 1), count + 1, m, got)
<1>1. PICK rest \in [1 .. count + 1 -> Bytes] :
          /\ rest[count + 1] = << >>
          /\ \A k \in 1 .. count : rest[k] = Line(k) \o rest[k + 1]
          /\ \/ m = count + 1 /\ got = << >> /\ stream = << >>
             \/ \E left \in Bytes : /\ m <= count /\ left # << >> /\ Line(m) = got \o left
                                    /\ stream = left \o rest[m + 1]
  BY DEF LineAt
<1>. DEFINE L == Line(count + 1)
            more == [k \in 1 .. (count + 1) + 1 |->
                        IF k = (count + 1) + 1 THEN << >> ELSE rest[k] \o L]
<1>2. L \in Bytes /\ L # << >> /\ << >> \o L = L /\ L \o << >> = L
  <2>1. L \in Bytes /\ Len(L) = Len(COBSEncode(Packets[count + 1])) + 1
        /\ Len(COBSEncode(Packets[count + 1])) \in Nat
    BY LineIs
  <2>2. Len(L) # 0
    BY <2>1
  <2>. HIDE DEF L
  <2>. QED
    BY <2>1, <2>2, EmptyBytes, ConcatEmptySeq DEF Bytes
<1>3. m \in 1 .. count + 1 /\ got \in Bytes /\ m \in Nat
  BY DEF LineAt
<1>. HIDE DEF L
<1>4. \A k \in 1 .. count + 1 : more[k] = rest[k] \o L /\ rest[k] \in Bytes /\ more[k] \in Bytes
  <2>1. \A k \in 1 .. count + 1 : k \in 1 .. (count + 1) + 1 /\ k # (count + 1) + 1
    OBVIOUS
  <2>. QED
    BY <1>1, <1>2, <2>1, ConcatBytes
<1>5. more \in [1 .. (count + 1) + 1 -> Bytes] /\ more[(count + 1) + 1] = << >>
  <2>1. \A k \in 1 .. (count + 1) + 1 : k = (count + 1) + 1 \/ k \in 1 .. count + 1
    OBVIOUS
  <2>2. (count + 1) + 1 \in 1 .. (count + 1) + 1
    OBVIOUS
  <2>3. more[(count + 1) + 1] = << >>
    BY <2>2
  <2>4. \A k \in 1 .. (count + 1) + 1 : more[k] \in Bytes
    BY <1>4, <2>1, <2>3, ShortSequences
  <2>5. more = [k \in 1 .. (count + 1) + 1 |-> more[k]]
    OBVIOUS
  <2>. HIDE DEF more
  <2>. QED
    BY <2>3, <2>4, <2>5
<1>. HIDE DEF more
<1>6. ASSUME NEW k \in 1 .. count + 1 PROVE more[k] = Line(k) \o more[k + 1]
  <2>1. CASE k = count + 1
    BY <1>1, <1>2, <1>4, <1>5, <2>1 DEF L
  <2>2. CASE k # count + 1
    <3>1. k \in 1 .. count /\ k + 1 \in 1 .. count + 1 /\ k \in 1 .. Len(Packets)
      BY <2>2
    <3>2. Line(k) \in Bytes
      BY <3>1, LineIs
    <3>3. more[k] = (Line(k) \o rest[k + 1]) \o L
      BY <1>1, <1>4, <3>1
    <3>4. (Line(k) \o rest[k + 1]) \o L = Line(k) \o (rest[k + 1] \o L)
      BY <1>2, <1>4, <3>1, <3>2, ConcatOfThree
    <3>. QED
      BY <1>4, <3>1, <3>3, <3>4
  <2>. QED
    BY <2>1, <2>2
<1>7. m <= count + 1 /\ m \in 1 .. (count + 1) + 1
  BY <1>3
<1>8. CASE m = count + 1 /\ got = << >> /\ stream = << >>
  <2>1. Line(m) = got \o L /\ stream \o L = L \o more[m + 1]
    BY <1>2, <1>5, <1>8 DEF L
  <2>. QED
    BY <1>2, <1>3, <1>5, <1>6, <1>7, <2>1 DEF LineAt, L
<1>9. ASSUME NEW left \in Bytes, m <= count, left # << >>,
             Line(m) = got \o left, stream = left \o rest[m + 1]
      PROVE  LineAt(stream \o L, count + 1, m, got)
  <2>1. m + 1 \in 1 .. count + 1
    BY <1>3, <1>9
  <2>2. (left \o rest[m + 1]) \o L = left \o (rest[m + 1] \o L)
    BY <1>2, <1>4, <2>1, ConcatOfThree
  <2>3. stream \o L = left \o more[m + 1]
    BY <1>4, <1>9, <2>1, <2>2
  <2>. QED
    BY <1>3, <1>5, <1>6, <1>7, <1>9, <2>3 DEF LineAt
<1>. QED
  BY <1>1, <1>8, <1>9 DEF L

LEMMA LineInitIInv == LineInit => LineIInv
<1>. SUFFICES ASSUME LineInit PROVE LineIInv
  OBVIOUS
<1>. USE DEF LineInit
<1>1. LineTypeOK
  <2>1. Len(Packets) \in Nat
    BY FramingAssumption
  <2>. QED
    BY <2>1, ShortSequences DEF LineTypeOK
<1>2. LineAt(wire, written, 1, << >>)
  <2>. DEFINE rest == [k \in 1 .. 0 + 1 |-> << >>]
  <2>1. /\ rest \in [1 .. 0 + 1 -> Bytes] /\ rest[0 + 1] = << >>
        /\ \A k \in 1 .. 0 : rest[k] = Line(k) \o rest[k + 1]
        /\ 1 \in 1 .. 0 + 1 /\ 1 = 0 + 1
    BY ShortSequences
  <2>. HIDE DEF rest
  <2>. QED
    BY <2>1, ShortSequences DEF LineAt
<1>3. PaidFor(1, << >>) /\ AsWritten(1, << >>)
  BY DEF PaidFor, AsWritten
<1>. QED
  BY <1>1, <1>2, <1>3 DEF LineIInv

\* What processBytes does with one byte.
LEMMA ByteProcessed ==
    ASSUME LineTypeOK, NEW b \in Byte, ProcessByte(b)
    PROVE  /\ buffer' \in Bytes /\ delivered' \in Seq(PacketSet)
           /\ Len(delivered') \in Nat /\ Len(delivered) \in Nat /\ Len(delivered') >= Len(delivered)
           /\ b # 0 => buffer' = Append(buffer, b) /\ delivered' = delivered
           /\ b = 0 => buffer' = << >>
           /\ b = 0 => \A m \in 1 .. Len(Packets) :
                          buffer = COBSEncode(Packets[m]) =>
                              delivered' = Append(delivered, Packets[m])
<1>1. buffer \in Bytes /\ delivered \in Seq(PacketSet) /\ Len(delivered) \in Nat
  BY DEF LineTypeOK
<1>2. CASE b # 0
  <2>1. buffer' = Append(buffer, b) /\ delivered' = delivered
    BY <1>2 DEF ProcessByte, packetDelimiter
  <2>2. Append(buffer, b) \in Bytes
    BY <1>1, AppendProperties DEF Bytes
  <2>. QED
    BY <1>1, <1>2, <2>1, <2>2
<1>3. CASE b = 0
  <2>1. buffer' = << >>
    BY <1>3 DEF ProcessByte, packetDelimiter, AfterDecodeError, AfterPacket
  <2>2. \/ delivered' = delivered
        \/ \E packet \in PacketSet : delivered' = Append(delivered, packet)
    BY <1>3 DEF ProcessByte, packetDelimiter, Intact
  <2>3. /\ delivered' \in Seq(PacketSet) /\ Len(delivered') \in Nat
        /\ Len(delivered') >= Len(delivered)
    BY <1>1, <2>2, AppendProperties
  <2>4. ASSUME NEW m \in 1 .. Len(Packets), buffer = COBSEncode(Packets[m])
        PROVE  delivered' = Append(delivered, Packets[m])
    <3>1. buffer # << >> /\ COBSDecode(buffer) = {Packets[m]}
      BY <2>4, LineIs
    <3>2. Packets[m] \in PacketSet
      BY PacketIs
    <3>. QED
      BY <1>3, <3>1, <3>2 DEF ProcessByte, packetDelimiter, Intact
  <2>. QED
    BY <1>3, <2>1, <2>3, <2>4, ShortSequences
<1>. QED
  BY <1>2, <1>3

LEMMA LineNextIInv == LineIInv /\ [LineNext]_lineVars => LineIInv'
<1>. SUFFICES ASSUME LineIInv, [LineNext]_lineVars PROVE LineIInv'
  OBVIOUS
<1>1. LineTypeOK /\ Len(Packets) \in Nat /\ Len(delivered) \in Nat
  BY FramingAssumption DEF LineIInv, LineTypeOK
<1>2. PICK m, got : LineAt(wire, written, m, got) /\ PaidFor(m, got) /\ AsWritten(m, got)
  BY DEF LineIInv
<1>3. m \in Nat /\ m > 0 /\ got \in Bytes
  BY <1>1, <1>2 DEF LineAt, LineTypeOK
<1>4. CASE Write
  <2>1. written \in Nat /\ written + 1 \in 1 .. Len(Packets) /\ written' = written + 1
    BY <1>1, <1>4 DEF Write, LineTypeOK
  <2>2. Line(written + 1) \in Bytes
    BY <2>1, LineIs
  <2>3. wire' = wire \o Line(written + 1)
    <3>1. COBSEncode(Packets[written + 1]) \in Bytes /\ <<packetDelimiter>> \in Bytes
      BY <2>1, LineIs, ShortSequences DEF packetDelimiter
    <3>2. (wire \o COBSEncode(Packets[written + 1])) \o <<packetDelimiter>>
             = wire \o (COBSEncode(Packets[written + 1]) \o <<packetDelimiter>>)
      BY <1>1, <3>1, ConcatOfThree DEF LineTypeOK
    <3>. QED
      BY <1>4, <3>2 DEF Write, Line
  <2>4. LineAt(wire', written', m, got)
    BY <1>1, <1>2, <2>1, <2>3, LineWritten DEF LineTypeOK
  <2>5. LineTypeOK'
    <3>1. wire' \in Bytes
      BY <1>1, <2>2, <2>3, ConcatBytes DEF LineTypeOK
    <3>2. written' \in 0 .. Len(Packets)
      BY <2>1
    <3>. QED
      BY <1>1, <1>4, <3>1, <3>2 DEF LineTypeOK, Write, damage
  <2>6. PaidFor(m, got)' /\ AsWritten(m, got)'
    BY <1>2, <1>4 DEF PaidFor, AsWritten, Write, damage
  <2>. QED
    BY <2>4, <2>5, <2>6 DEF LineIInv
<1>5. ASSUME wire # << >>, wire' = Tail(wire), written' = written
      PROVE  /\ m \in 1 .. Len(Packets) /\ wire' \in Bytes /\ Head(wire) \in Byte
             /\ \/ Head(wire) # 0 /\ LineAt(wire', written', m, Append(got, Head(wire)))
                \/ /\ Head(wire) = 0 /\ got = COBSEncode(Packets[m])
                   /\ LineAt(wire', written', m + 1, << >>)
  BY <1>1, <1>2, <1>5, NextByte DEF LineTypeOK
<1>6. CASE ReadByte
  <2>. PICK b : b = Head(wire)
    OBVIOUS
  <2>1. wire # << >> /\ wire' = Tail(wire) /\ written' = written /\ cost' = cost /\ faults' = faults
        /\ ProcessByte(b)
    BY <1>6 DEF ReadByte, damage
  <2>2. /\ m \in 1 .. Len(Packets) /\ wire' \in Bytes /\ b \in Byte
        /\ \/ b # 0 /\ LineAt(wire', written', m, Append(got, b))
           \/ /\ b = 0 /\ got = COBSEncode(Packets[m])
              /\ LineAt(wire', written', m + 1, << >>)
    BY <1>5, <2>1
  <2>3. /\ buffer' \in Bytes /\ delivered' \in Seq(PacketSet)
        /\ Len(delivered') \in Nat /\ Len(delivered) \in Nat /\ Len(delivered') >= Len(delivered)
        /\ b # 0 => buffer' = Append(buffer, b) /\ delivered' = delivered
        /\ b = 0 => buffer' = << >>
        /\ b = 0 => \A k \in 1 .. Len(Packets) :
                       buffer = COBSEncode(Packets[k]) => delivered' = Append(delivered, Packets[k])
    BY <1>1, <2>1, <2>2, ByteProcessed
  <2>4. LineTypeOK'
    BY <1>1, <2>1, <2>2, <2>3 DEF LineTypeOK
  <2>5. CASE b # 0
    <3>1. PaidFor(m, Append(got, b))'
      BY <1>1, <1>2, <1>3, <2>1, <2>3, <2>5 DEF PaidFor, LineTypeOK
    <3>2. AsWritten(m, Append(got, b))'
      BY <1>2, <2>1, <2>3, <2>5 DEF AsWritten
    <3>. QED
      BY <2>2, <2>4, <2>5, <3>1, <3>2 DEF LineIInv
  <2>6. CASE b = 0
    <3>1. buffer = got => delivered' = Append(delivered, Packets[m])
      BY <2>2, <2>3, <2>6
    <3>2. Packets[m] \in PacketSet
      BY <2>2, PacketIs
    <3>3. buffer = got => Len(delivered') = Len(delivered) + 1
      BY <1>1, <3>1, <3>2, AppendProperties DEF LineTypeOK
    <3>4. PaidFor(m + 1, << >>)'
      BY <1>1, <1>2, <1>3, <2>1, <2>3, <2>6, <3>3 DEF PaidFor, LineTypeOK
    <3>5. AsWritten(m + 1, << >>)'
      <4>1. SUFFICES ASSUME faults = 0
                     PROVE  /\ cost = 0 /\ Len(delivered') = m
                            /\ \A k \in 1 .. m : delivered'[k] = Packets[k]
        BY <1>3, <2>1, <2>3, <2>6 DEF AsWritten
      <4>2. /\ cost = 0 /\ buffer = got /\ Len(delivered) = m - 1
            /\ \A k \in 1 .. m - 1 : delivered[k] = Packets[k]
        BY <1>2, <4>1 DEF AsWritten
      <4>3. /\ \A i \in 1 .. Len(delivered) : delivered'[i] = delivered[i]
            /\ delivered'[Len(delivered) + 1] = Packets[m]
        BY <1>1, <3>1, <3>2, <4>2, AppendProperties DEF LineTypeOK
      <4>4. \A k \in 1 .. m : k \in 1 .. m - 1 \/ k = m
        BY <1>3
      <4>. QED
        BY <1>3, <3>3, <4>2, <4>3, <4>4
    <3>. QED
      BY <2>2, <2>4, <2>6, <3>4, <3>5 DEF LineIInv
  <2>. QED
    BY <2>5, <2>6
<1>7. ASSUME wire # << >>, wire' = Tail(wire), written' = written, Damage(CostOfHead),
             buffer' \in Bytes, delivered' \in Seq(PacketSet), Len(delivered') \in Nat,
             Len(delivered') >= Len(delivered)
      PROVE  LineIInv'
  <2>. PICK b : b = Head(wire)
    OBVIOUS
  <2>1. /\ m \in 1 .. Len(Packets) /\ wire' \in Bytes
        /\ \/ b # 0 /\ LineAt(wire', written', m, Append(got, b))
           \/ b = 0 /\ LineAt(wire', written', m + 1, << >>)
    BY <1>5, <1>7
  <2>2. faults' = faults + 1 /\ cost' = cost + (IF b = 0 THEN 2 ELSE 1)
    BY <1>7 DEF Damage, CostOfHead, packetDelimiter
  <2>3. LineTypeOK'
    BY <1>1, <1>7, <2>1, <2>2 DEF LineTypeOK
  <2>4. \A k, g : AsWritten(k, g)'
    <3>1. faults' # 0
      BY <1>1, <2>2 DEF LineTypeOK
    <3>. QED
      BY <3>1 DEF AsWritten
  <2>5. Len(delivered) + cost >= m - 1
    BY <1>1, <1>2, <1>3 DEF PaidFor, LineTypeOK
  <2>6. CASE b # 0 /\ LineAt(wire', written', m, Append(got, b))
    <3>1. PaidFor(m, Append(got, b))'
      BY <1>1, <1>3, <1>7, <2>2, <2>5, <2>6 DEF PaidFor, LineTypeOK
    <3>. QED
      BY <2>3, <2>4, <2>6, <3>1 DEF LineIInv
  <2>7. CASE b = 0 /\ LineAt(wire', written', m + 1, << >>)
    <3>1. PaidFor(m + 1, << >>)'
      BY <1>1, <1>3, <1>7, <2>2, <2>5, <2>7 DEF PaidFor, LineTypeOK
    <3>. QED
      BY <2>3, <2>4, <2>7, <3>1 DEF LineIInv
  <2>. QED
    BY <2>1, <2>6, <2>7
<1>8. CASE LoseByte
  BY <1>1, <1>7, <1>8 DEF LoseByte, LineTypeOK
<1>9. CASE AlterByte
  <2>1. PICK b \in 0 .. FullCode : ProcessByte(b)
    BY <1>9 DEF AlterByte
  <2>2. /\ buffer' \in Bytes /\ delivered' \in Seq(PacketSet)
        /\ Len(delivered') \in Nat /\ Len(delivered') >= Len(delivered)
    BY <1>1, <2>1, ByteProcessed DEF Byte
  <2>. QED
    BY <1>7, <1>9, <2>2 DEF AlterByte
<1>10. CASE Noise
  <2>1. PICK b \in 0 .. FullCode : ProcessByte(b)
    BY <1>10 DEF Noise
  <2>2. /\ buffer' \in Bytes /\ delivered' \in Seq(PacketSet)
        /\ Len(delivered') \in Nat /\ Len(delivered') >= Len(delivered)
    BY <1>1, <2>1, ByteProcessed DEF Byte
  <2>3. wire' = wire /\ written' = written /\ faults' = faults + 1 /\ cost' = cost + 1
    BY <1>10 DEF Noise, Damage
  <2>4. LineTypeOK'
    BY <1>1, <2>2, <2>3 DEF LineTypeOK
  <2>5. LineAt(wire', written', m, got)
    BY <1>2, <2>3
  <2>6. PaidFor(m, got)'
    BY <1>1, <1>2, <1>3, <2>2, <2>3 DEF PaidFor, LineTypeOK
  <2>7. AsWritten(m, got)'
    <3>1. faults' # 0
      BY <1>1, <2>3 DEF LineTypeOK
    <3>. QED
      BY <3>1 DEF AsWritten
  <2>. QED
    BY <2>4, <2>5, <2>6, <2>7 DEF LineIInv
<1>11. CASE UNCHANGED lineVars
  <2>1. LineTypeOK' /\ LineAt(wire', written', m, got) /\ PaidFor(m, got)' /\ AsWritten(m, got)'
    BY <1>1, <1>2, <1>11 DEF lineVars, LineTypeOK, PaidFor, AsWritten
  <2>. QED
    BY <2>1 DEF LineIInv
<1>. QED
  BY <1>4, <1>6, <1>8, <1>9, <1>10, <1>11 DEF LineNext

LEMMA LineInvariant == LineSpec => []LineIInv
  BY LineInitIInv, LineNextIInv, PTL DEF LineSpec

\* Nothing is still to be read of the lines when the wire is empty.
LEMMA AllRead ==
    ASSUME LineTypeOK, NEW m, NEW got, LineAt(wire, written, m, got), wire = << >>
    PROVE  m = written + 1
<1>1. PICK rest \in [1 .. written + 1 -> Bytes] :
          \/ m = written + 1
          \/ \E left \in Bytes : m <= written /\ left # << >> /\ wire = left \o rest[m + 1]
  BY DEF LineAt
<1>2. ASSUME NEW left \in Bytes, m <= written, left # << >>, wire = left \o rest[m + 1] PROVE FALSE
  <2>1. rest[m + 1] \in Bytes
    BY <1>2 DEF LineAt, LineTypeOK
  <2>. QED
    BY <1>2, <2>1, HeadOfConcat
<1>. QED
  BY <1>1, <1>2

\* A damaged byte costs the packet it is in, a damaged delimiter the two it
\* separates: for all packets, however alike, and any amount of damage.
THEOREM DamageIsLocal == LineSpec => []LossIsLocal
<1>1. LineIInv => LossIsLocal
  <2>1. SUFFICES ASSUME LineIInv, wire = << >> PROVE written - Len(delivered) <= cost
    BY DEF LossIsLocal
  <2>2. PICK m, got : LineAt(wire, written, m, got) /\ PaidFor(m, got)
    BY <2>1 DEF LineIInv
  <2>3. m = written + 1
    BY <2>1, <2>2, AllRead DEF LineIInv
  <2>. QED
    BY <2>1, <2>2, <2>3 DEF LineIInv, LineTypeOK, PaidFor
<1>. QED
  BY <1>1, LineInvariant, PTL

\* A line that damages nothing: the packets are delivered in their order, and
\* all of them.
THEOREM UndamagedLine ==
    LineSpec => [](faults = 0 => /\ DeliveredInOrder
                                 /\ wire = << >> => delivered = SubSeq(Packets, 1, written))
<1>. DEFINE Undamaged == faults = 0 => /\ DeliveredInOrder
                                       /\ wire = << >> => delivered = SubSeq(Packets, 1, written)
<1>1. LineIInv => Undamaged
  <2>. SUFFICES ASSUME LineIInv, faults = 0
                PROVE  /\ DeliveredInOrder
                       /\ wire = << >> => delivered = SubSeq(Packets, 1, written)
    OBVIOUS
  <2>1. LineTypeOK /\ Len(Packets) \in Nat /\ Packets \in Seq(Seq(0 .. FullCode))
    BY FramingAssumption DEF LineIInv
  <2>2. PICK m, got : LineAt(wire, written, m, got) /\ AsWritten(m, got)
    BY DEF LineIInv
  <2>3. /\ m \in 1 .. written + 1 /\ Len(delivered) = m - 1 /\ m - 1 \in 0 .. Len(Packets)
        /\ \A k \in 1 .. m - 1 : delivered[k] = Packets[k]
    BY <2>1, <2>2 DEF LineAt, AsWritten, LineTypeOK
  <2>4. DeliveredInOrder
    <3>1. ASSUME NEW k \in 1 .. Len(delivered) PROVE Number(delivered[k]) = k
      <4>1. k \in 1 .. Len(Packets) /\ delivered[k] = Packets[k]
        BY <2>1, <2>3, <3>1
      <4>. QED
        BY <4>1, FramingAssumption DEF Number
    <3>. QED
      BY <3>1 DEF DeliveredInOrder
  <2>5. ASSUME wire = << >> PROVE delivered = SubSeq(Packets, 1, written)
    <3>1. m = written + 1 /\ written \in Nat /\ Len(delivered) = written
      BY <2>1, <2>2, <2>3, <2>5, AllRead DEF LineTypeOK
    <3>. DEFINE S == Seq(0 .. FullCode)
                all == SubSeq(Packets, 1, written)
    <3>2. \A k \in 1 .. written : Packets[k] \in S
      BY <2>1, <3>1 DEF LineTypeOK
    <3>3. /\ all \in Seq(S) /\ Len(all) = IF 1 <= written THEN written - 1 + 1 ELSE 0
          /\ \A i \in 1 .. written - 1 + 1 : all[i] = Packets[1 + i - 1]
      <4>1. 1 \in Int /\ written \in Int
        BY <3>1
      <4>. HIDE DEF S
      <4>. QED
        BY <3>2, <4>1, SubSeqProperties
    <3>4. Len(all) = written /\ \A i \in 1 .. written : all[i] = Packets[i]
      <4>1. written - 1 + 1 = written /\ (IF 1 <= written THEN written - 1 + 1 ELSE 0) = written
            /\ \A i \in 1 .. written : 1 + i - 1 = i
        BY <3>1
      <4>. HIDE DEF all
      <4>. QED
        BY <3>3, <4>1
    <3>5. delivered \in Seq(S)
      <4>1. PacketSet \subseteq S
        BY <2>1 DEF PacketSet
      <4>. HIDE DEF S
      <4>. QED
        BY <2>1, <4>1, SeqMonotonic DEF LineTypeOK
    <3>6. \A i \in 1 .. Len(delivered) : delivered[i] = all[i]
      <4>. HIDE DEF all
      <4>. QED
        BY <2>3, <3>1, <3>4
    <3>. HIDE DEF all, S
    <3>7. delivered = all
      BY <3>1, <3>3, <3>4, <3>5, <3>6, SeqEqual
    <3>. QED
      BY <3>7 DEF all
  <2>. QED
    BY <2>4, <2>5
<1>. HIDE DEF Undamaged
<1>2. LineSpec => []Undamaged
  BY <1>1, LineInvariant, PTL
<1>. QED
  BY <1>2 DEF Undamaged

=============================================================================
