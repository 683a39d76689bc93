--------------------------- MODULE UartRing_proofs ---------------------------
(***************************************************************************)
(* The receive ring of the upgrade UART for every size of the ring, every     *)
(* packet length that fits it and every set of bytes: whatever the order of   *)
(* the interrupt and the task, the ring is a bounded queue, the loop never    *)
(* finds it empty, and a host that waits for answers loses nothing.          *)
(***************************************************************************)
EXTENDS UartRing, SequenceTheorems, TLAPS

-----------------------------------------------------------------------------
(* Arithmetic of the indices.                                               *)

LEMMA ModSize ==
  ASSUME NEW x \in 0 .. 2 * Size - 1
  PROVE  x % Size = IF x < Size THEN x ELSE x - Size
BY RingAssumption, Z3

\* The next slot, and how many bytes lie between two indices.
LEMMA NextSlot ==
  ASSUME NEW i \in Slots
  PROVE  Next1(i) \in Slots /\ Next1(i) = IF i = Size - 1 THEN 0 ELSE i + 1
<1>1. i + 1 \in 0 .. 2 * Size - 1
  BY RingAssumption DEF Slots
<1> QED BY <1>1, ModSize, RingAssumption DEF Next1, Slots

Between(h, t) == IF t <= h THEN h - t ELSE h - t + Size

LEMMA BytesBetween ==
  ASSUME NEW h \in Slots, NEW t \in Slots
  PROVE  (h - t + Size) % Size = Between(h, t) /\ Between(h, t) \in Slots
<1>1. h - t + Size \in 0 .. 2 * Size - 1
  BY RingAssumption DEF Slots
<1>2. (h - t + Size) % Size = IF h - t + Size < Size THEN h - t + Size ELSE h - t
  BY <1>1, ModSize, RingAssumption DEF Slots
<1> QED BY <1>2, RingAssumption DEF Between, Slots

\* A byte goes in at the head, one comes out at the tail.
LEMMA BetweenSteps ==
  ASSUME NEW h \in Slots, NEW t \in Slots
  PROVE  /\ Next1(h) # t => Between(Next1(h), t) = Between(h, t) + 1
         /\ Next1(h) = t <=> Between(h, t) = Size - 1
         /\ h = t <=> Between(h, t) = 0
         /\ h # t => Between(h, Next1(t)) = Between(h, t) - 1
<1>1. /\ Next1(h) = IF h = Size - 1 THEN 0 ELSE h + 1
      /\ Next1(t) = IF t = Size - 1 THEN 0 ELSE t + 1
  BY NextSlot
<1> QED BY <1>1, RingAssumption DEF Between, Slots

-----------------------------------------------------------------------------
(* The inductive invariant.                                                 *)

\* The byte in hand is still in its slot, the bytes that a polite host has under
\* way are those in the ring, and they fit.
RingInv ==
  /\ TypeOK
  /\ SnapshotHolds
  /\ pc = "advance" => byte = buf[tail]
  /\ polite => drops = 0 /\ unread = GetRecvBytes /\ unread + left <= PacketLen

LEMMA Count == ASSUME TypeOK PROVE GetRecvBytes = Between(head, tail) /\ GetRecvBytes \in Slots
BY BytesBetween DEF GetRecvBytes, TypeOK

LEMMA CountNext ==
  ASSUME head' \in Slots, tail' \in Slots PROVE GetRecvBytes' = Between(head', tail')
BY BytesBetween DEF GetRecvBytes

LEMMA FreshPacket ==
  ASSUME NEW u \in {0}, NEW l \in 1 .. PacketLen PROVE u + l <= PacketLen
BY RingAssumption

LEMMA RingStart == Init => RingInv
<1> SUFFICES ASSUME Init PROVE RingInv
  OBVIOUS
<1>1. head \in Slots /\ tail \in Slots /\ head = tail /\ 0 \in Slots
  BY RingAssumption DEF Init, Slots
<1>2. TypeOK
  BY <1>1, RingAssumption DEF Init, TypeOK
<1>3. GetRecvBytes = 0
  BY <1>1, <1>2, Count, BetweenSteps
<1> QED BY <1>2, <1>3, RingAssumption DEF Init, RingInv, SnapshotHolds

LEMMA RingInductive == ASSUME RingInv, [Next]_vars PROVE RingInv'
<1> USE RingAssumption DEF RingInv, SnapshotHolds
<1>0. TypeOK /\ GetRecvBytes = Between(head, tail) /\ GetRecvBytes \in Slots
  BY Count
<1>1. CASE BeginPacket
  <2>1. GetRecvBytes' = GetRecvBytes
    BY <1>1 DEF BeginPacket, ring, GetRecvBytes
  <2>2. TypeOK'
    BY <1>1 DEF BeginPacket, TypeOK, ring, task
  <2>3. pc' = pc /\ drain' = drain /\ byte' = byte /\ buf' = buf /\ tail' = tail
    BY <1>1 DEF BeginPacket, ring, task
  <2>4. drops' = 0 /\ unread' = GetRecvBytes' /\ unread' + left' <= PacketLen
    <3>1. polite /\ unread = 0 /\ unread' = unread /\ drops' = drops /\ left' \in 1 .. PacketLen
      BY <1>1 DEF BeginPacket
    <3>2. drops = 0 /\ unread = GetRecvBytes
      BY <3>1
    <3>3. unread' + left' <= PacketLen
      <4>1. unread' \in {0} /\ left' \in 1 .. PacketLen
        BY <3>1
      <4> QED BY <4>1, FreshPacket
    <3>4. unread' = GetRecvBytes' /\ drops' = 0
      BY <2>1, <3>1, <3>2
    <3> QED BY <3>3, <3>4
  <2> QED BY <2>1, <2>2, <2>3, <2>4
<1>2. ASSUME NEW b \in Byte, IrqProcess(b) PROVE RingInv'
  <2>1. UNCHANGED task /\ tail' = tail /\ head \in Slots /\ tail \in Slots
    BY <1>2 DEF IrqProcess, TypeOK
  <2>2. \/ /\ polite /\ left > 0 /\ left' = left - 1 /\ unread' = unread + 1 /\ polite' = polite
        \/ ~polite /\ UNCHANGED host
    BY <1>2 DEF IrqProcess, FromHost
  <2>3. /\ left' \in 0 .. PacketLen /\ unread' \in 0 .. PacketLen /\ polite' \in BOOLEAN
        /\ polite' => polite
    BY <2>2 DEF TypeOK, host
  <2>4. CASE /\ Next1(head) # tail
             /\ buf' = [buf EXCEPT ![head] = b] /\ head' = Next1(head) /\ drops' = drops
    <3>1. head' \in Slots
      BY <2>1, <2>4, NextSlot
    <3>2. TypeOK'
      BY <2>1, <2>3, <2>4, <3>1 DEF TypeOK, task
    <3>3. GetRecvBytes' = GetRecvBytes + 1
      BY <1>0, <2>1, <2>4, <3>1, CountNext, BetweenSteps
    <3>4. pc = "advance" => head # tail
      BY <1>0, <2>1, BetweenSteps
    <3>5. pc' = "advance" => byte' = buf'[tail']
      BY <2>1, <2>4, <3>4 DEF task, TypeOK
    <3>6. pc' # "sleep" => drain' \in 1 .. GetRecvBytes'
      BY <1>0, <2>1, <3>3 DEF task, Slots
    <3>7. polite' => drops' = 0 /\ unread' = GetRecvBytes' /\ unread' + left' <= PacketLen
      BY <2>2, <2>3, <2>4, <3>3 DEF TypeOK, host
    <3> QED BY <3>2, <3>5, <3>6, <3>7
  <2>5. CASE /\ Next1(head) = tail
             /\ drops' = 1 - drops /\ buf' = buf /\ head' = head
    <3>1. GetRecvBytes = Size - 1
      BY <1>0, <2>1, <2>5, BetweenSteps
    <3>2. ~polite
      BY <2>2, <3>1 DEF TypeOK
    <3>3. GetRecvBytes' = GetRecvBytes
      BY <2>1, <2>5 DEF GetRecvBytes
    <3>4. TypeOK'
      BY <2>1, <2>3, <2>5 DEF TypeOK, task
    <3> QED BY <2>1, <2>3, <2>5, <3>2, <3>3, <3>4 DEF task
  <2> QED BY <1>2, <2>4, <2>5 DEF IrqProcess
<1>3. CASE Snapshot
  <2>1. GetRecvBytes' = GetRecvBytes
    BY <1>3 DEF Snapshot, ring, GetRecvBytes
  <2>2. TypeOK'
    BY <1>0, <1>3 DEF Snapshot, ring, host, TypeOK
  <2>3. pc' # "sleep" => drain' \in 1 .. GetRecvBytes'
    BY <1>0, <1>3, <2>1 DEF Snapshot, Slots
  <2> QED BY <1>3, <2>1, <2>2, <2>3 DEF Snapshot, host
<1>4. CASE ReadByte
  <2>1. head # tail
    BY <1>0, <1>4, BetweenSteps DEF ReadByte, TypeOK
  <2>2. byte' = buf[tail] /\ pc' = "advance" /\ UNCHANGED <<drain, ring, given, host, drops>>
    BY <1>4, <2>1 DEF ReadByte
  <2>3. GetRecvBytes' = GetRecvBytes
    BY <2>2 DEF ring, GetRecvBytes
  <2>4. TypeOK'
    BY <2>2 DEF ring, host, TypeOK
  <2> QED BY <1>4, <2>2, <2>3, <2>4 DEF ReadByte, ring, host
<1>5. CASE Advance
  <2>1. head \in Slots /\ tail \in Slots /\ head # tail /\ drain \in 1 .. GetRecvBytes
    BY <1>0, <1>5, BetweenSteps DEF Advance, TypeOK
  <2>2. head' \in Slots /\ tail' \in Slots
    BY <1>5, <2>1, NextSlot DEF Advance
  <2>3. GetRecvBytes' = GetRecvBytes - 1
    BY <1>0, <1>5, <2>1, <2>2, CountNext, BetweenSteps DEF Advance
  <2>4. polite => unread = GetRecvBytes /\ unread \in 1 .. PacketLen
    BY <1>0, <2>1 DEF TypeOK, Slots
  <2>5. TypeOK'
    BY <1>0, <1>5, <2>1, <2>2, <2>4 DEF Advance, TypeOK, Slots
  <2>6. pc' # "sleep" => drain' \in 1 .. GetRecvBytes'
    BY <1>0, <1>5, <2>1, <2>3 DEF Advance, Slots
  <2>7. pc' # "advance"
    BY <1>5 DEF Advance
  <2>8. polite' => drops' = 0 /\ unread' = GetRecvBytes' /\ unread' + left' <= PacketLen
    BY <1>5, <2>3, <2>4 DEF Advance, TypeOK
  <2> QED BY <2>5, <2>6, <2>7, <2>8
<1>6. CASE UNCHANGED vars
  BY <1>6 DEF vars, ring, task, host, TypeOK, GetRecvBytes
<1> QED BY <1>1, <1>2, <1>3, <1>4, <1>5, <1>6 DEF Next, Irq, Task

LEMMA RingInvariant == Spec => []RingInv
BY RingStart, RingInductive, PTL DEF Spec

\* The indices stay in the buffer, in whatever order the two sides move: TypeOK.
THEOREM TypeCorrect == Spec => []TypeOK
<1>1. RingInv => TypeOK
  BY DEF RingInv
<1> QED BY <1>1, RingInvariant, PTL

\* UPGRADE_USART_ReadChar never finds less than the snapshot promised.
THEOREM SnapshotIsHeld == Spec => []SnapshotHolds
<1>1. RingInv => SnapshotHolds
  BY DEF RingInv
<1> QED BY <1>1, RingInvariant, PTL

\* A host that waits for answers loses no byte, for every packet that fits the ring.
THEOREM PoliteHostIsSafe == Spec => []PoliteNeverLoses
<1>1. RingInv => PoliteNeverLoses
  BY DEF RingInv, PoliteNeverLoses
<1> QED BY <1>1, RingInvariant, PTL

-----------------------------------------------------------------------------
(* The ring as a queue.                                                     *)

\* The slot of the i-th byte that waits.
LEMMA SlotOf ==
  ASSUME NEW t \in Slots, NEW i \in 1 .. Size
  PROVE  /\ (t + i - 1) % Size = IF t + i - 1 < Size THEN t + i - 1 ELSE t + i - 1 - Size
         /\ (t + i - 1) % Size \in Slots
<1>1. t + i - 1 \in 0 .. 2 * Size - 1
  BY RingAssumption DEF Slots
<1>2. (t + i - 1) % Size = IF t + i - 1 < Size THEN t + i - 1 ELSE t + i - 1 - Size
  BY <1>1, ModSize, RingAssumption DEF Slots
<1> QED BY <1>1, <1>2, RingAssumption DEF Slots

LEMMA ContentIs ==
  ASSUME TypeOK
  PROVE  /\ Content \in Seq(Byte) /\ Len(Content) = GetRecvBytes
         /\ \A i \in 1 .. GetRecvBytes : Content[i] = buf[(tail + i - 1) % Size]
<1>1. GetRecvBytes \in Nat /\ GetRecvBytes < Size /\ tail \in Slots /\ buf \in [Slots -> Byte]
  BY Count, RingAssumption DEF TypeOK, Slots
<1>2. \A i \in 1 .. GetRecvBytes : buf[(tail + i - 1) % Size] \in Byte
  BY <1>1, SlotOf, RingAssumption
<1> QED BY <1>1, <1>2 DEF Content

LEMMA ContentNext ==
  ASSUME TypeOK'
  PROVE  /\ Content' \in Seq(Byte) /\ Len(Content') = GetRecvBytes'
         /\ \A i \in 1 .. GetRecvBytes' : Content'[i] = buf'[(tail' + i - 1) % Size]
<1>1. GetRecvBytes' \in Nat /\ GetRecvBytes' < Size /\ tail' \in Slots /\ buf' \in [Slots -> Byte]
  <2>1. head' \in Slots /\ tail' \in Slots /\ buf' \in [Slots -> Byte]
    BY DEF TypeOK
  <2>2. GetRecvBytes' \in Slots
    BY <2>1, CountNext, BytesBetween
  <2> QED BY <2>1, <2>2, RingAssumption DEF Slots
<1>2. \A i \in 1 .. GetRecvBytes' : buf'[(tail' + i - 1) % Size] \in Byte
  BY <1>1, SlotOf, RingAssumption
<1> QED BY <1>1, <1>2 DEF Content

LEMMA SameContent ==
  ASSUME UNCHANGED ring PROVE Content' = Content
BY DEF ring, Content, GetRecvBytes

LEMMA IrqIsPutOrDrop ==
  ASSUME RingInv, RingInv', NEW b \in Byte, IrqProcess(b) PROVE Fifo!Next
<1> USE RingAssumption
<1>1. TypeOK /\ TypeOK' /\ head \in Slots /\ tail \in Slots /\ tail' = tail /\ given' = given
  BY DEF RingInv, TypeOK, IrqProcess, task
<1>2. /\ Content \in Seq(Byte) /\ Len(Content) = GetRecvBytes
      /\ \A i \in 1 .. GetRecvBytes : Content[i] = buf[(tail + i - 1) % Size]
  BY <1>1, ContentIs
<1>3. GetRecvBytes = Between(head, tail) /\ GetRecvBytes \in Slots
  BY <1>1, Count
<1>4. CASE /\ Next1(head) # tail
           /\ buf' = [buf EXCEPT ![head] = b] /\ head' = Next1(head) /\ drops' = drops
  <2>1. head' \in Slots /\ GetRecvBytes' = GetRecvBytes + 1
    BY <1>1, <1>3, <1>4, NextSlot, CountNext, BetweenSteps
  <2>2. GetRecvBytes # Size - 1
    BY <1>1, <1>3, <1>4, BetweenSteps
  <2>3. ASSUME NEW i \in 1 .. GetRecvBytes + 1
        PROVE  buf'[(tail + i - 1) % Size] = IF i = GetRecvBytes + 1 THEN b ELSE Content[i]
    <3>1. i \in 1 .. Size
      BY <1>3 DEF Slots
    <3>2. /\ (tail + i - 1) % Size = IF tail + i - 1 < Size THEN tail + i - 1 ELSE tail + i - 1 - Size
          /\ (tail + i - 1) % Size \in Slots
      BY <1>1, <3>1, SlotOf
    <3>3. (tail + i - 1) % Size = head <=> i = GetRecvBytes + 1
      BY <1>1, <1>3, <2>2, <3>2 DEF Between, Slots
    <3> QED BY <1>1, <1>2, <1>4, <3>2, <3>3 DEF TypeOK
  <2>4. Content' = Append(Content, b)
    <3>1. /\ Content' \in Seq(Byte) /\ Len(Content') = GetRecvBytes + 1
          /\ \A i \in 1 .. GetRecvBytes + 1 : Content'[i] = buf'[(tail + i - 1) % Size]
      BY <1>1, <2>1, ContentNext
    <3> QED BY <1>2, <1>3, <2>3, <3>1 DEF Slots
  <2>5. Len(Content) < Size - 1
    BY <1>2, <1>3, <2>2 DEF Slots
  <2> QED BY <1>1, <1>4, <2>4, <2>5 DEF Fifo!Next, Fifo!Put
<1>5. CASE Next1(head) = tail /\ drops' = 1 - drops /\ buf' = buf /\ head' = head
  <2>1. Content' = Content
    BY <1>1, <1>5, SameContent DEF ring
  <2>2. Len(Content) = Size - 1
    BY <1>1, <1>2, <1>3, <1>5, BetweenSteps
  <2> QED BY <1>1, <1>5, <2>1, <2>2 DEF Fifo!Next, Fifo!Drop
<1> QED BY <1>4, <1>5 DEF IrqProcess

LEMMA AdvanceIsGet ==
  ASSUME RingInv, RingInv', Advance PROVE Fifo!Next
<1> USE RingAssumption
<1>1. TypeOK /\ TypeOK' /\ tail \in Slots /\ UNCHANGED <<head, buf, drops>>
  BY DEF RingInv, TypeOK, Advance
<1>2. /\ Content \in Seq(Byte) /\ Len(Content) = GetRecvBytes
      /\ \A i \in 1 .. GetRecvBytes : Content[i] = buf[(tail + i - 1) % Size]
  BY <1>1, ContentIs
<1>3. GetRecvBytes = Between(head, tail) /\ GetRecvBytes \in Slots /\ GetRecvBytes > 0
  BY <1>1, Count DEF RingInv, SnapshotHolds, Advance, Slots
<1>4. tail' = Next1(tail) /\ tail' \in Slots /\ GetRecvBytes' = GetRecvBytes - 1
  BY <1>1, <1>3, NextSlot, CountNext, BetweenSteps DEF Advance, TypeOK
<1>5. given' = Head(Content) /\ Content # <<>>
  <2>1. (tail + 1 - 1) % Size = tail
    BY <1>1, SlotOf DEF Slots
  <2>2. given' = buf[tail]
    BY DEF RingInv, Advance
  <2>3. Content[1] = buf[tail]
    BY <1>2, <1>3, <2>1 DEF Slots
  <2> QED BY <1>2, <1>3, <2>2, <2>3
<1>6. Content' = Tail(Content)
  <2>1. /\ Content' \in Seq(Byte) /\ Len(Content') = GetRecvBytes - 1
        /\ \A i \in 1 .. GetRecvBytes - 1 : Content'[i] = buf[(tail' + i - 1) % Size]
    BY <1>1, <1>4, ContentNext
  <2>2. /\ Tail(Content) \in Seq(Byte) /\ Len(Tail(Content)) = GetRecvBytes - 1
        /\ \A i \in 1 .. GetRecvBytes - 1 : Tail(Content)[i] = Content[i + 1]
    BY <1>2, <1>3 DEF Slots
  <2>3. ASSUME NEW i \in 1 .. GetRecvBytes - 1
        PROVE  (tail' + i - 1) % Size = (tail + (i + 1) - 1) % Size
    <3>1. i \in 1 .. Size /\ i + 1 \in 1 .. Size
      BY <1>3 DEF Slots
    <3>2. (tail' + i - 1) % Size
            = IF tail' + i - 1 < Size THEN tail' + i - 1 ELSE tail' + i - 1 - Size
      BY <1>4, <3>1, SlotOf
    <3>3. (tail + (i + 1) - 1) % Size
            = IF tail + (i + 1) - 1 < Size THEN tail + (i + 1) - 1 ELSE tail + (i + 1) - 1 - Size
      BY <1>1, <3>1, SlotOf
    <3>4. tail' = IF tail = Size - 1 THEN 0 ELSE tail + 1
      BY <1>1, <1>4, NextSlot
    <3> QED BY <1>1, <3>1, <3>2, <3>3, <3>4 DEF Slots
  <2>4. \A i \in 1 .. GetRecvBytes - 1 : Content'[i] = Tail(Content)[i]
    BY <1>2, <1>3, <2>1, <2>2, <2>3 DEF Slots
  <2> QED BY <1>3, <2>1, <2>2, <2>4 DEF Slots
<1> QED BY <1>1, <1>5, <1>6 DEF Fifo!Next, Fifo!Get

\* Without a lock the ring is a bounded queue: bytes come out in order, each once,
\* and one is lost only when the ring is full: ImplementsFifo.
THEOREM RingIsFifo == Spec => ImplementsFifo
<1>1. Init => Fifo!Init
  <2> SUFFICES ASSUME Init PROVE Fifo!Init
    OBVIOUS
  <2>1. TypeOK /\ GetRecvBytes = 0
    BY RingStart, Count, BetweenSteps DEF RingInv, Init, TypeOK
  <2>2. Content = <<>>
    BY <2>1, ContentIs
  <2> QED BY <2>2 DEF Init, Fifo!Init
<1>2. RingInv /\ RingInv' /\ [Next]_vars => [Fifo!Next]_Fifo!fifo
  <2> SUFFICES ASSUME RingInv, RingInv', [Next]_vars PROVE [Fifo!Next]_Fifo!fifo
    OBVIOUS
  <2>1. UNCHANGED <<ring, given, drops>> => UNCHANGED Fifo!fifo
    BY SameContent DEF Fifo!fifo
  <2>2. CASE BeginPacket \/ Snapshot \/ ReadByte
    BY <2>1, <2>2 DEF BeginPacket, Snapshot, ReadByte, task
  <2>3. CASE Irq
    BY <2>3, IrqIsPutOrDrop DEF Irq
  <2>4. CASE Advance
    BY <2>4, AdvanceIsGet
  <2>5. CASE UNCHANGED vars
    BY <2>1, <2>5 DEF vars, task
  <2> QED BY <2>2, <2>3, <2>4, <2>5 DEF Next, Task
<1> QED BY <1>1, <1>2, RingInvariant, PTL DEF Spec, ImplementsFifo, Fifo!Spec
=============================================================================
