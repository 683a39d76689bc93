--------------------------- MODULE Ymodem_proofs ---------------------------
(***************************************************************************)
(* The local channel, for every sequence number width, file, line and        *)
(* behaviour of the host: its updates run only while it is armed, and it is   *)
(* armed again only by a reset, which keeps OTA and it apart. For files with  *)
(* fewer packets than there are numbers, what is stored is the file in order. *)
(***************************************************************************)
EXTENDS Ymodem, SequenceTheorems, TLAPS

\* Every way to end a session leaves an idle fw_upgrade and an open window.
LEMMA CancelArms == ASSUME Cancel PROVE fw' = "IDLE" /\ armed'
BY DEF Cancel, StopUpdate, YmInit

LEMMA FinishKeeps == ASSUME ReceivingIsArmed, Finish PROVE ReceivingIsArmed'
BY DEF Finish, StopUpdate, YmInit, ReceivingIsArmed, rcb

\* A head packet, or what is taken for one, starts an update in an armed channel.
LEMMA HeadKeeps ==
  ASSUME ReceivingIsArmed, armed, NEW f, NEW done, NEW errs, ReadAsHead(f, done, errs)
  PROVE  ReceivingIsArmed'
<1> USE DEF ReceivingIsArmed
<1>1. ASSUME NEW size, HeadPacket(size, done, errs) PROVE ReceivingIsArmed'
  BY <1>1, CancelArms DEF HeadPacket
<1>2. CASE EndPacket
  BY <1>2, FinishKeeps DEF EndPacket
<1>3. CASE HeadNameTooLong(errs)
  BY <1>3 DEF HeadNameTooLong, fwv
<1> QED
  BY <1>1, <1>2, <1>3 DEF ReadAsHead

LEMMA PacketKeeps ==
  ASSUME ReceivingIsArmed, armed, NEW f, GoodPacket(f) PROVE ReceivingIsArmed'
<1> USE DEF ReceivingIsArmed
<1>1. CASE DataPacket(f)
  BY <1>1, CancelArms DEF DataPacket
<1>2. CASE BadPacket
  BY <1>2 DEF BadPacket, fwv
<1>3. CASE UNCHANGED <<rcb, fwv>>
  BY <1>3 DEF rcb, fwv
<1> QED
  BY <1>1, <1>2, <1>3, HeadKeeps DEF GoodPacket

LEMMA ReceiveKeeps == ASSUME ReceivingIsArmed, Receive PROVE ReceivingIsArmed'
<1> armed
  BY DEF Receive
<1> DEFINE f == Head(toDev)
<1>1. OnEot \/ OnCan \/ AbortSession => ReceivingIsArmed'
  BY CancelArms DEF OnEot, OnCan, AbortSession, rcb, fwv, ReceivingIsArmed
<1>2. BadPacket \/ UNCHANGED <<rcb, fwv, toHost>> => ReceivingIsArmed'
  BY DEF BadPacket, rcb, fwv, ReceivingIsArmed
<1>3. CASE Intact(f)
  BY <1>1, <1>3, PacketKeeps DEF Intact
<1>4. CASE EndsCutPacket(f)
  <2>1. BadPacketThenEot => ReceivingIsArmed'
    BY DEF BadPacketThenEot, fwv, ReceivingIsArmed
  <2>2. Cancel => ReceivingIsArmed'
    BY CancelArms DEF ReceivingIsArmed
  <2> QED BY <1>2, <1>4, <2>1, <2>2 DEF EndsCutPacket
<1>5. CASE Damaged(f)
  <2>1. armed' = armed /\ fw' = fw => ReceivingIsArmed'
    BY DEF ReceivingIsArmed
  <2> QED BY <1>1, <1>2, <1>5, <2>1 DEF Damaged, fwv
<1> QED
  BY <1>3, <1>4, <1>5 DEF Receive

\* The local channel receives only while it is armed.
THEOREM LocalUpdateIsArmed == Spec => []ReceivingIsArmed
<1>1. Init => ReceivingIsArmed
  BY DEF Init, ReceivingIsArmed
<1>2. ReceivingIsArmed /\ [Next]_vars => ReceivingIsArmed'
  <2> SUFFICES ASSUME ReceivingIsArmed, [Next]_vars PROVE ReceivingIsArmed'
    OBVIOUS
  <2>1. CASE Poll
    <3>1. CASE Receive
      BY <3>1, ReceiveKeeps
    <3>2. CASE WindowClose
      BY <3>2 DEF WindowClose, ReceivingIsArmed, fwv
    <3>3. CASE EndPacketMissing
      BY <3>3, FinishKeeps DEF EndPacketMissing
    <3>4. CASE RxTimeout \/ SessionFail
      BY <3>4, CancelArms DEF RxTimeout, SessionFail, ReceivingIsArmed
    <3>5. CASE Drain
      BY <3>5 DEF Drain, ReceivingIsArmed, rcb, fwv
    <3> QED BY <2>1, <3>1, <3>2, <3>3, <3>4, <3>5 DEF Poll
  <2>2. CASE Reset
    BY <2>2 DEF Reset, StopUpdate, YmInit, ReceivingIsArmed
  <2>3. CASE Handshake \/ HostStep \/ UNCHANGED vars
    <3>1. UNCHANGED <<rcb, fwv>>
      BY <2>3 DEF Handshake, HostStep, HostReads, HostTimeout, HostCancels, HostRestarts, vars
    <3> QED BY <3>1 DEF rcb, fwv, ReceivingIsArmed
  <2> QED BY <2>1, <2>2, <2>3 DEF Next
<1> QED
  BY <1>1, <1>2, PTL DEF Spec

\* What OTA builds on after its look at the window: OnlyResetOpens.
THEOREM ClosedStaysClosed == Spec => OnlyResetOpens
<1>1. ReceivingIsArmed /\ [Next]_vars => [~armed => Reset \/ (~armed' /\ fw' = fw)]_vars
  <2> SUFFICES ASSUME ReceivingIsArmed, [Next]_vars, ~armed, ~Reset PROVE ~armed' /\ fw' = fw
    OBVIOUS
  <2> USE DEF ReceivingIsArmed
  <2>1. fw # "RECVING"
    OBVIOUS
  <2>2. CASE Poll
    BY <2>1, <2>2 DEF Poll, Receive, Drain, WindowClose, EndPacketMissing, RxTimeout, SessionFail,
       rcb, fwv
  <2>3. CASE Handshake \/ HostStep \/ UNCHANGED vars
    <3>1. UNCHANGED <<rcb, fwv>>
      BY <2>3 DEF Handshake, HostStep, HostReads, HostTimeout, HostCancels, HostRestarts, vars
    <3> QED BY <3>1 DEF rcb, fwv
  <2> QED BY <2>2, <2>3 DEF Next
<1> QED BY <1>1, LocalUpdateIsArmed, PTL DEF Spec, OnlyResetOpens

-----------------------------------------------------------------------------
(* Types.                                                                   *)

Chars == {ACK, NAK, CAN, CRC_REQ}

RcbOK ==
  /\ expect_seq \in 0 .. SeqMod - 1 /\ errors \in 0 .. MaxErrors + 1
  /\ file_done \in BOOLEAN /\ eot_first \in BOOLEAN /\ session_begin \in BOOLEAN
  /\ armed \in BOOLEAN /\ eot2 \in BOOLEAN /\ mid \in BOOLEAN

FwOK ==
  /\ fw \in {"IDLE", "RECVING", "DONE"} /\ fw_size \in 0 .. MaxSize
  /\ stored \in Seq(1 .. FilePackets) /\ Len(stored) <= fw_size

DeviceOK == RcbOK /\ FwOK /\ toHost \in Seq(Chars)

HostOK ==
  /\ toDev \in Seq(Frames)
  /\ snd \in {"off", "head", "headC", "data", "eot", "endC", "end", "done", "failed"}
  /\ blk \in 0 .. FilePackets /\ tries \in 0 .. MaxTries
  /\ snd = "data" => blk > 0

TypeInv == DeviceOK /\ HostOK

LEMMA TypeInvIsTypeOK == TypeInv => TypeOK
BY DEF TypeInv, DeviceOK, RcbOK, FwOK, HostOK, TypeOK, Chars

LEMMA ReplyType ==
  ASSUME toHost \in Seq(Chars), NEW bytes \in Seq(Chars), Reply(bytes)
  PROVE  toHost' \in Seq(Chars)
<1> DEFINE all == toHost \o bytes
           n == IF Len(all) < ReplyCap THEN Len(all) ELSE ReplyCap
<1>1. all \in Seq(Chars) /\ n \in 0 .. Len(all)
  BY YmodemAssumption
<1>2. toHost' = SubSeq(all, 1, n)
  BY DEF Reply
<1> HIDE DEF all, n
<1> QED BY <1>1, <1>2, SubSeqProperties

LEMMA Replies ==
  ASSUME toHost \in Seq(Chars),
         \/ Reply(<<ACK>>) \/ Reply(<<NAK>>) \/ Reply(<<CAN>>) \/ Reply(<<CRC_REQ>>)
         \/ Reply(<<ACK, CAN>>) \/ Reply(<<ACK, CRC_REQ>>) \/ Reply(<<NAK, CAN>>)
         \/ Reply(<<NAK, NAK>>) \/ Reply(<<NAK, ACK, CRC_REQ>>)
         \/ UNCHANGED toHost
  PROVE  toHost' \in Seq(Chars)
<1>1. \A a, b, c \in Chars :
        <<a>> \in Seq(Chars) /\ <<a, b>> \in Seq(Chars) /\ <<a, b, c>> \in Seq(Chars)
  OBVIOUS
<1>2. ACK \in Chars /\ NAK \in Chars /\ CAN \in Chars /\ CRC_REQ \in Chars
  BY DEF Chars
<1> QED BY <1>1, <1>2, ReplyType

LEMMA CancelType == ASSUME Cancel PROVE RcbOK' /\ FwOK'
<1>1. RcbOK'
  <2>1. armed' \in BOOLEAN
    BY DEF Cancel, YmInit
  <2>2. 0 \in 0 .. SeqMod - 1 /\ 0 \in 0 .. MaxErrors + 1
    BY YmodemAssumption
  <2> QED BY <2>1, <2>2 DEF Cancel, YmInit, RcbOK
<1>2. <<>> \in Seq(1 .. FilePackets) /\ Len(<<>>) = 0
  OBVIOUS
<1> QED BY <1>1, <1>2, YmodemAssumption DEF Cancel, StopUpdate, FwOK

LEMMA FinishType == ASSUME RcbOK, FwOK, Finish PROVE RcbOK' /\ FwOK'
<1>1. CASE StopUpdate /\ YmInit
  BY <1>1, CancelType DEF Cancel
<1>2. CASE fw' = "DONE" /\ UNCHANGED <<fw_size, stored, rcb>>
  BY <1>2 DEF rcb, RcbOK, FwOK
<1> QED BY <1>1, <1>2 DEF Finish

LEMMA KeepsTypes ==
  ASSUME RcbOK, FwOK, UNCHANGED <<rcb, fwv>> PROVE RcbOK' /\ FwOK'
BY DEF rcb, fwv, RcbOK, FwOK

LEMMA CountErrorType == ASSUME RcbOK, CountError PROVE errors' \in 0 .. MaxErrors + 1
BY YmodemAssumption DEF CountError, RcbOK

LEMMA BadPacketType ==
  ASSUME DeviceOK, BadPacket, mid' \in BOOLEAN PROVE DeviceOK'
<1>1. RcbOK /\ FwOK /\ toHost' \in Seq(Chars)
  BY Replies DEF DeviceOK, BadPacket
<1>2. errors' \in 0 .. MaxErrors + 1
  BY <1>1, CountErrorType DEF BadPacket
<1>3. RcbOK'
  BY <1>1, <1>2 DEF BadPacket, RcbOK
<1>4. FwOK'
  BY <1>1 DEF BadPacket, FwOK, fwv
<1> QED BY <1>1, <1>3, <1>4 DEF DeviceOK

LEMMA ReadAsHeadType ==
  ASSUME DeviceOK, NEW f, NEW errs \in 0 .. MaxErrors + 1, ReadAsHead(f, file_done, errs)
  PROVE  DeviceOK'
<1>0. RcbOK /\ FwOK
  BY DEF DeviceOK
<1>1. ASSUME NEW size, HeadPacket(size, file_done, errs) PROVE DeviceOK'
  <2>1. toHost' \in Seq(Chars)
    BY <1>1, Replies DEF DeviceOK, HeadPacket
  <2>2. CASE Cancel
    BY <2>1, <2>2, CancelType DEF DeviceOK
  <2>3. CASE /\ size \in 1 .. MaxSize
             /\ fw' = "RECVING" /\ fw_size' = size /\ stored' = <<>>
             /\ expect_seq' = 1 /\ session_begin' = TRUE
             /\ file_done' = file_done /\ errors' = errs
             /\ UNCHANGED <<eot_first, armed, eot2, mid>>
    <3>1. <<>> \in Seq(1 .. FilePackets) /\ Len(<<>>) = 0 /\ 1 \in 0 .. SeqMod - 1
      BY YmodemAssumption
    <3>2. FwOK'
      BY <2>3, <3>1, YmodemAssumption DEF FwOK
    <3>3. RcbOK'
      BY <1>0, <2>3, <3>1 DEF RcbOK
    <3> QED BY <2>1, <3>2, <3>3 DEF DeviceOK
  <2> QED BY <1>1, <2>2, <2>3 DEF HeadPacket
<1>2. CASE EndPacket
  BY <1>0, <1>2, Replies, FinishType DEF EndPacket, DeviceOK
<1>3. CASE HeadNameTooLong(errs)
  <2>1. toHost' \in Seq(Chars) /\ FwOK'
    BY <1>0, <1>3, Replies DEF HeadNameTooLong, DeviceOK, FwOK, fwv
  <2>2. RcbOK'
    BY <1>0, <1>3 DEF HeadNameTooLong, RcbOK
  <2> QED BY <2>1, <2>2 DEF DeviceOK
<1> QED BY <1>1, <1>2, <1>3 DEF ReadAsHead

LEMMA FrameFacts ==
  /\ \A f \in Packets : f.kind = "data" =>
       \E k \in 1 .. FilePackets : f = Data(k) /\ f.pkt = k /\ f.seq = k % SeqMod
  /\ \A f \in Packets : f.kind \in {"head", "end", "data"}
  /\ \A f \in Packets : f.kind # "data" => f.seq = 0
  /\ Eot \notin Packets /\ Can \notin Packets /\ UserA \notin Packets
  /\ Eot.kind # "data" /\ Can.kind # "data" /\ UserA.kind # "data"
<1>1. \A k \in 1 .. FilePackets :
        Data(k).kind = "data" /\ Data(k).pkt = k /\ Data(k).seq = k % SeqMod
  BY DEF Data
<1>2. /\ Head0.kind = "head" /\ Head0.seq = 0 /\ End0.kind = "end" /\ End0.seq = 0
      /\ Eot.kind = "eot" /\ Can.kind = "can" /\ UserA.kind = "A"
  BY DEF Head0, End0, Eot, Can, UserA
<1>3. \A f \in Packets : f = Head0 \/ f = End0 \/ \E k \in 1 .. FilePackets : f = Data(k)
  BY DEF Packets
<1>4. \A f \in Packets : f.kind \in {"head", "end", "data"}
  BY <1>1, <1>2, <1>3
<1> QED BY <1>1, <1>2, <1>3, <1>4

LEMMA DataPacketType ==
  ASSUME DeviceOK, NEW f \in Packets, f.kind = "data", DataPacket(f) PROVE DeviceOK'
<1>1. RcbOK /\ FwOK /\ toHost' \in Seq(Chars)
  BY Replies DEF DeviceOK, DataPacket
<1>2. CASE Cancel
  BY <1>1, <1>2, CancelType DEF DeviceOK
<1>3. CASE /\ fw = "RECVING" /\ Len(stored) < fw_size
           /\ stored' = Append(stored, f.pkt)
           /\ expect_seq' = (expect_seq + 1) % SeqMod
           /\ errors' = 0
           /\ file_done' = (file_done \/ Len(stored') >= fw_size)
           /\ UNCHANGED <<eot_first, session_begin, armed, eot2, mid, fw, fw_size>>
  <2>1. f.pkt \in 1 .. FilePackets
    BY FrameFacts
  <2>2. FwOK'
    <3>1. stored' \in Seq(1 .. FilePackets) /\ Len(stored') = Len(stored) + 1
      BY <1>1, <1>3, <2>1 DEF FwOK
    <3> QED BY <1>1, <1>3, <3>1, YmodemAssumption DEF FwOK
  <2>3. expect_seq' \in 0 .. SeqMod - 1
    BY <1>1, <1>3, YmodemAssumption DEF RcbOK
  <2>4. file_done' \in BOOLEAN /\ errors' \in 0 .. MaxErrors + 1
    BY <1>3, YmodemAssumption
  <2>5. RcbOK'
    BY <1>1, <1>3, <2>3, <2>4 DEF RcbOK
  <2> QED BY <1>1, <2>2, <2>5 DEF DeviceOK
<1> QED BY <1>2, <1>3 DEF DataPacket

LEMMA GoodPacketType ==
  ASSUME DeviceOK, NEW f \in Packets, GoodPacket(f) PROVE DeviceOK'
<1>0. RcbOK /\ FwOK /\ errors \in 0 .. MaxErrors + 1 /\ 0 \in 0 .. MaxErrors + 1 /\ mid \in BOOLEAN
  BY YmodemAssumption DEF DeviceOK, RcbOK
<1>1. CASE ReadAsHead(f, file_done, errors) \/ ReadAsHead(f, file_done, 0)
  BY <1>0, <1>1, ReadAsHeadType
<1>2. CASE BadPacket /\ UNCHANGED mid
  BY <1>0, <1>2, BadPacketType
<1>3. CASE Reply(<<ACK>>) /\ UNCHANGED <<rcb, fwv>>
  BY <1>0, <1>3, KeepsTypes, Replies DEF DeviceOK
<1>4. CASE f.seq # 0 /\ DataPacket(f)
  BY <1>4, DataPacketType, FrameFacts
<1> QED BY <1>1, <1>2, <1>3, <1>4 DEF GoodPacket

LEMMA ControlType ==
  ASSUME DeviceOK, OnEot \/ OnCan \/ AbortSession PROVE DeviceOK'
<1>1. RcbOK /\ FwOK
  BY DEF DeviceOK
<1>2. CASE OnCan \/ AbortSession
  BY <1>2, CancelType, Replies DEF OnCan, AbortSession, DeviceOK
<1>3. CASE OnEot
  <2>1. toHost' \in Seq(Chars)
    BY <1>3, Replies DEF OnEot, DeviceOK
  <2>2. FwOK'
    BY <1>1, <1>3 DEF OnEot, FwOK, fwv
  <2>3. RcbOK'
    BY <1>1, <1>3 DEF OnEot, RcbOK, rcb
  <2> QED BY <2>1, <2>2, <2>3 DEF DeviceOK
<1> QED BY <1>2, <1>3

LEMMA PollType == ASSUME TypeInv, Poll PROVE TypeInv'
<1>0. DeviceOK /\ HostOK /\ RcbOK /\ FwOK
  BY DEF TypeInv, DeviceOK
<1>1. ASSUME DeviceOK', UNCHANGED host, toDev' = toDev \/ (toDev # <<>> /\ toDev' = Tail(toDev))
      PROVE TypeInv'
  <2>1. toDev' \in Seq(Frames)
    BY <1>0, <1>1, HeadTailProperties DEF HostOK
  <2> QED BY <1>0, <1>1, <2>1 DEF TypeInv, HostOK, host
<1>2. CASE Receive
  <2> DEFINE f == Head(toDev)
  <2>0. toDev # <<>> /\ toDev' = Tail(toDev) /\ UNCHANGED host
    BY <1>2 DEF Receive
  <2>1. CASE UNCHANGED <<rcb, fwv, toHost>>
    BY <1>0, <1>1, <2>0, <2>1, KeepsTypes DEF DeviceOK
  <2>2. CASE BadPacket /\ mid' \in {mid, FALSE, HasPayload(f)}
    <3>1. HasPayload(f) \in BOOLEAN
      BY DEF HasPayload
    <3>2. mid' \in BOOLEAN
      BY <1>0, <2>2, <3>1 DEF RcbOK
    <3> QED BY <1>0, <1>1, <2>0, <2>2, <3>2, BadPacketType
  <2>3. CASE OnEot \/ OnCan \/ AbortSession
    BY <1>0, <1>1, <2>0, <2>3, ControlType
  <2>4. CASE Intact(f)
    <3>1. CASE f \in Packets /\ GoodPacket(f)
      BY <1>0, <1>1, <2>0, <3>1, GoodPacketType
    <3> QED BY <2>3, <2>4, <3>1 DEF Intact
  <2>5. CASE EndsCutPacket(f)
    <3>1. CASE Cancel /\ (Reply(<<NAK>>) \/ Reply(<<NAK, CAN>>))
      <4>1. toHost' \in Seq(Chars)
        BY <1>0, <3>1, Replies DEF DeviceOK
      <4> QED BY <1>1, <2>0, <3>1, <4>1, CancelType DEF DeviceOK
    <3>2. CASE BadPacketThenEot
      <4>1. toHost' \in Seq(Chars)
        BY <1>0, <3>2, Replies DEF BadPacketThenEot, DeviceOK
      <4>2. errors' \in 0 .. MaxErrors + 1
        BY <1>0, <3>2, CountErrorType DEF BadPacketThenEot
      <4>3. RcbOK'
        BY <1>0, <3>2, <4>2 DEF BadPacketThenEot, RcbOK
      <4>4. FwOK'
        BY <1>0, <3>2 DEF BadPacketThenEot, FwOK, fwv
      <4> QED BY <1>1, <2>0, <4>1, <4>3, <4>4 DEF DeviceOK
    <3> QED BY <2>1, <2>2, <2>5, <3>1, <3>2 DEF EndsCutPacket
  <2>6. CASE Damaged(f)
    <3>1. CASE /\ mid' = TRUE
               /\ UNCHANGED <<expect_seq, file_done, eot_first, session_begin, errors, armed,
                              eot2, fwv, toHost>>
      <4>1. RcbOK' /\ FwOK'
        BY <1>0, <3>1 DEF RcbOK, FwOK, fwv
      <4> QED BY <1>0, <1>1, <2>0, <3>1, <4>1 DEF DeviceOK
    <3> QED BY <2>1, <2>2, <2>3, <2>6, <3>1 DEF Damaged
  <2> QED BY <1>2, <2>4, <2>5, <2>6 DEF Receive
<1>3. CASE Drain
  BY <1>0, <1>1, <1>3, KeepsTypes DEF Drain, DeviceOK
<1>4. CASE WindowClose
  <2>1. RcbOK' /\ FwOK'
    BY <1>0, <1>4 DEF WindowClose, RcbOK, FwOK, fwv
  <2> QED BY <1>0, <1>1, <1>4, <2>1 DEF WindowClose, DeviceOK
<1>5. CASE EndPacketMissing
  BY <1>0, <1>1, <1>5, FinishType DEF EndPacketMissing, DeviceOK
<1>6. CASE RxTimeout \/ SessionFail
  BY <1>0, <1>1, <1>6, CancelType, Replies DEF RxTimeout, SessionFail, DeviceOK
<1> QED BY <1>2, <1>3, <1>4, <1>5, <1>6 DEF Poll

\* The host sends frames that it has.
LEMMA SendType ==
  ASSUME NEW f \in Frames, Send(f) PROVE toDev' \in Seq(Frames)
BY DEF Send

LEMMA FrameType == HostOK => Frame \in Frames
BY DEF HostOK, Frame, Frames, Packets

LEMMA HostType == ASSUME TypeInv, HostStep PROVE TypeInv'
<1>0. DeviceOK /\ HostOK /\ RcbOK /\ FwOK /\ Frame \in Frames
  BY FrameType DEF TypeInv, DeviceOK
<1>1. ASSUME HostOK', UNCHANGED <<rcb, fwv>>, toHost' \in Seq(Chars) PROVE TypeInv'
  BY <1>0, <1>1, KeepsTypes DEF TypeInv, DeviceOK
<1>2. Head0 \in Frames /\ End0 \in Frames /\ Eot \in Frames /\ Can \in Frames /\ UserA \in Frames
      /\ \A k \in 1 .. FilePackets : Data(k) \in Frames
  BY DEF Frames, Packets
<1>3. Again => HostOK'
  <2> SUFFICES ASSUME Again PROVE HostOK'
    OBVIOUS
  <2>1. toDev' \in Seq(Frames)
    BY <1>0, SendType DEF Again
  <2>2. tries' \in 0 .. MaxTries
    BY <1>0, YmodemAssumption DEF Again, HostOK
  <2> QED BY <1>0, <2>1, <2>2 DEF Again, HostOK
<1>4. ASSUME NEW phase \in {"head", "data", "eot", "end"}, NEW k \in 0 .. FilePackets,
             phase = "data" => k > 0, NEW f \in Frames, GoTo(phase, k, f)
      PROVE  HostOK'
  <2>1. toDev' \in Seq(Frames)
    BY <1>4, SendType DEF GoTo
  <2> QED BY <1>4, <2>1, YmodemAssumption DEF GoTo, HostOK
<1>5. ASSUME NEW phase \in {"headC", "endC", "done", "failed"}, WaitFor(phase) PROVE HostOK'
  BY <1>0, <1>5, YmodemAssumption DEF WaitFor, HostOK
<1>6. CASE HostReads
  <2>1. toHost' \in Seq(Chars)
    BY <1>0, <1>6, HeadTailProperties DEF HostReads, DeviceOK
  <2>2. ASSUME UNCHANGED <<toDev, host>> PROVE HostOK'
    BY <1>0, <2>2 DEF HostOK, host
  <2>3. ASSUME NEW b, OnReply(b) PROVE HostOK'
    <3>1. blk \in 0 .. FilePackets /\ 1 \in 1 .. FilePackets /\ 0 \in 0 .. FilePackets
          /\ (blk < FilePackets => blk + 1 \in 1 .. FilePackets)
      BY <1>0, YmodemAssumption DEF HostOK
    <3>2. CASE GoTo("head", 0, Head0)
      BY <1>2, <1>4, <3>1, <3>2
    <3>3. CASE GoTo("data", 1, Data(1))
      BY <1>2, <1>4, <3>1, <3>3
    <3>4. CASE blk < FilePackets /\ GoTo("data", blk + 1, Data(blk + 1))
      BY <1>2, <1>4, <3>1, <3>4
    <3>5. CASE GoTo("eot", blk, Eot) \/ GoTo("end", blk, End0)
      BY <1>2, <1>4, <3>1, <3>5
    <3> QED BY <1>3, <1>5, <2>3, <3>2, <3>3, <3>4, <3>5 DEF OnReply
  <2> QED BY <1>1, <1>6, <2>1, <2>2, <2>3 DEF HostReads
<1>7. CASE HostTimeout
  BY <1>0, <1>1, <1>3, <1>7 DEF HostTimeout, DeviceOK
<1>8. CASE HostCancels
  <2>1. toDev' \in Seq(Frames)
    BY <1>2, <1>8, SendType DEF HostCancels
  <2>2. HostOK'
    BY <1>0, <1>8, <2>1, YmodemAssumption DEF HostCancels, HostOK
  <2> QED BY <1>0, <1>1, <1>8, <2>2 DEF HostCancels, DeviceOK
<1>9. CASE HostRestarts
  <2>1. HostOK'
    BY <1>0, <1>9, YmodemAssumption DEF HostRestarts, HostOK
  <2> QED BY <1>0, <1>1, <1>9, <2>1 DEF HostRestarts, DeviceOK
<1> QED BY <1>6, <1>7, <1>8, <1>9 DEF HostStep

LEMMA TypeStart == Init => TypeInv
<1> SUFFICES ASSUME Init PROVE TypeInv
  OBVIOUS
<1>1. RcbOK
  <2>1. 0 \in 0 .. SeqMod - 1 /\ 0 \in 0 .. MaxErrors + 1
    BY YmodemAssumption
  <2> QED BY <2>1 DEF Init, RcbOK
<1>2. FwOK
  BY YmodemAssumption DEF Init, FwOK
<1>3. HostOK
  BY YmodemAssumption DEF Init, HostOK
<1> QED BY <1>1, <1>2, <1>3 DEF Init, TypeInv, DeviceOK

LEMMA TypeInductive == ASSUME TypeInv, [Next]_vars PROVE TypeInv'
<1>1. CASE Handshake
  <2>1. toHost' \in Seq(Chars)
    BY <1>1, Replies DEF Handshake, TypeInv, DeviceOK
  <2> QED BY <1>1, <2>1, KeepsTypes DEF Handshake, TypeInv, DeviceOK, HostOK, host
<1>2. CASE Reset
  <2>1. RcbOK' /\ FwOK'
    BY <1>2, CancelType DEF Reset, Cancel
  <2> QED BY <1>2, <2>1 DEF Reset, TypeInv, DeviceOK, HostOK, host
<1>3. CASE UNCHANGED vars
  BY <1>3, KeepsTypes DEF vars, TypeInv, DeviceOK, HostOK, host
<1> QED BY <1>1, <1>2, <1>3, PollType, HostType DEF Next

LEMMA TypesKept == Spec => []TypeInv
BY TypeStart, TypeInductive, PTL DEF Spec

\* Every variable of the channel, the line and the host keeps its type: TypeOK.
THEOREM TypeCorrect == Spec => []TypeOK
BY TypesKept, TypeInvIsTypeOK, PTL

-----------------------------------------------------------------------------
(* Files with fewer packets than there are sequence numbers.                *)

ShortFile == FilePackets < SeqMod

\* What a step does to the stored file, when no data packet has number 0.
FileStep ==
  \/ UNCHANGED <<fwv, expect_seq>>
  \/ StopUpdate
  \/ /\ Head(toDev).kind = "head"
     /\ fw' = "RECVING" /\ fw_size' = FilePackets /\ stored' = <<>> /\ expect_seq' = 1
  \/ /\ fw = "RECVING" /\ Len(stored) < fw_size /\ UNCHANGED <<fw, fw_size>>
     /\ expect_seq \in 1 .. FilePackets
     /\ stored' = Append(stored, expect_seq) /\ expect_seq' = (expect_seq + 1) % SeqMod
  \/ /\ fw = "RECVING" /\ Len(stored) = fw_size
     /\ fw' = "DONE" /\ UNCHANGED <<fw_size, stored, expect_seq>>

LEMMA CancelIsStop == ASSUME Cancel PROVE StopUpdate
BY DEF Cancel

LEMMA FinishIsFileStep == ASSUME Finish PROVE FileStep
BY DEF Finish, FileStep, rcb

LEMMA ControlIsFileStep == ASSUME OnEot \/ OnCan \/ AbortSession PROVE FileStep
BY CancelIsStop DEF OnEot, OnCan, AbortSession, FileStep, rcb

LEMMA PacketIsFileStep ==
  ASSUME ShortFile, TypeInv, toDev # <<>>, NEW f \in Packets, f = Head(toDev), GoodPacket(f)
  PROVE  FileStep
<1> USE YmodemAssumption DEF FileStep
<1>1. f.kind = "data" => \E k \in 1 .. FilePackets : f = Data(k) /\ f.pkt = k /\ f.seq = k
  <2>1. \A k \in 1 .. FilePackets : k % SeqMod = k
    BY Z3 DEF ShortFile
  <2> QED BY <2>1, FrameFacts
<1>2. ASSUME NEW errs, f.seq = 0, ReadAsHead(f, file_done, errs) PROVE FileStep
  <2>1. f.kind # "data"
    BY <1>1, <1>2
  <2>2. CASE f.kind = "end" /\ EndPacket
    BY <2>2, FinishIsFileStep DEF EndPacket
  <2>3. CASE f.kind = "head" /\ HeadPacket(FilePackets, file_done, errs)
    BY <2>3, CancelIsStop DEF HeadPacket
  <2> QED BY <1>2, <2>1, <2>2, <2>3 DEF ReadAsHead
<1>3. ASSUME f.seq # 0, f.seq = expect_seq, DataPacket(f) PROVE FileStep
  <2>1. PICK k \in 1 .. FilePackets : f.pkt = k /\ f.seq = k
    BY <1>1, <1>3, FrameFacts
  <2>2. CASE Cancel
    BY <2>2, CancelIsStop
  <2>3. CASE /\ fw = "RECVING" /\ Len(stored) < fw_size
             /\ stored' = Append(stored, f.pkt)
             /\ expect_seq' = (expect_seq + 1) % SeqMod
             /\ UNCHANGED <<fw, fw_size>>
    BY <1>3, <2>1, <2>3
  <2> QED BY <1>3, <2>2, <2>3 DEF DataPacket
<1>4. CASE BadPacket \/ UNCHANGED <<rcb, fwv>>
  BY <1>4 DEF BadPacket, rcb
<1> QED BY <1>2, <1>3, <1>4 DEF GoodPacket, AfterFile

LEMMA NextIsFileStep ==
  ASSUME ShortFile, TypeInv, [Next]_vars PROVE FileStep
<1>1. CASE Receive
  <2> DEFINE f == Head(toDev)
  <2>1. toDev # <<>>
    BY <1>1 DEF Receive
  <2>2. CASE BadPacket \/ UNCHANGED <<rcb, fwv>> \/ UNCHANGED <<expect_seq, fwv>>
    BY <2>2 DEF BadPacket, FileStep, rcb
  <2>3. CASE f \in Packets /\ GoodPacket(f)
    BY <2>1, <2>3, PacketIsFileStep
  <2>4. CASE Intact(f)
    BY <2>3, <2>4, ControlIsFileStep DEF Intact
  <2>5. CASE EndsCutPacket(f)
    <3>1. BadPacketThenEot \/ Cancel => FileStep
      BY CancelIsStop DEF BadPacketThenEot, FileStep
    <3> QED BY <2>2, <2>5, <3>1 DEF EndsCutPacket
  <2>6. CASE Damaged(f)
    BY <2>2, <2>6, ControlIsFileStep DEF Damaged
  <2> QED BY <1>1, <2>4, <2>5, <2>6 DEF Receive
<1>2. CASE EndPacketMissing
  BY <1>2, FinishIsFileStep DEF EndPacketMissing
<1>3. CASE RxTimeout \/ SessionFail \/ Reset
  BY <1>3, CancelIsStop DEF RxTimeout, SessionFail, Reset, FileStep
<1>4. CASE Drain \/ WindowClose \/ Handshake \/ HostStep \/ UNCHANGED vars
  BY <1>4 DEF Drain, WindowClose, Handshake, HostStep, HostReads, HostTimeout, HostCancels,
     HostRestarts, FileStep, vars, rcb
<1> QED BY <1>1, <1>2, <1>3, <1>4 DEF Next, Poll

\* The inductive invariant: the number that is expected is that of the packet
\* behind the last one stored.
FileInv ==
  /\ StoredInOrder
  /\ fw = "RECVING" => expect_seq = (Len(stored) + 1) % SeqMod /\ fw_size = FilePackets
  /\ DoneIsWholeFile

LEMMA EmptyInOrder == ASSUME stored' = <<>> PROVE StoredInOrder' /\ Len(stored') = 0
BY DEF StoredInOrder

LEMMA FileInductive ==
  ASSUME ShortFile, TypeInv, FileInv, FileStep PROVE FileInv'
<1> USE YmodemAssumption DEF FileInv, DoneIsWholeFile
<1>1. CASE UNCHANGED <<fwv, expect_seq>>
  BY <1>1 DEF fwv, StoredInOrder
<1>2. CASE StopUpdate
  BY <1>2, EmptyInOrder DEF StopUpdate
<1>3. CASE /\ Head(toDev).kind = "head"
           /\ fw' = "RECVING" /\ fw_size' = FilePackets /\ stored' = <<>> /\ expect_seq' = 1
  <2>1. (0 + 1) % SeqMod = 1
    BY Z3
  <2> QED BY <1>3, <2>1, EmptyInOrder
<1>4. CASE /\ fw = "RECVING" /\ Len(stored) < fw_size /\ UNCHANGED <<fw, fw_size>>
           /\ expect_seq \in 1 .. FilePackets
           /\ stored' = Append(stored, expect_seq) /\ expect_seq' = (expect_seq + 1) % SeqMod
  <2> DEFINE n == Len(stored)
  <2>1. stored \in Seq(1 .. FilePackets) /\ n \in Nat /\ n < FilePackets
    BY <1>4 DEF TypeInv, DeviceOK, FwOK
  <2>2. expect_seq = n + 1
    <3>1. n + 1 \in 0 .. SeqMod - 1
      BY <2>1 DEF ShortFile
    <3>2. \A x \in 0 .. SeqMod - 1 : x % SeqMod = x
      BY Z3
    <3> QED BY <1>4, <3>1, <3>2
  <2>3. Len(stored') = n + 1 /\ \A k \in 1 .. n + 1 : stored'[k] = k
    BY <1>4, <2>1, <2>2 DEF StoredInOrder
  <2>4. stored' \in Seq(1 .. FilePackets)
    BY <1>4, <2>1
  <2>5. stored' = [k \in 1 .. Len(stored') |-> k]
    BY <2>3, <2>4
  <2> QED BY <1>4, <2>2, <2>3, <2>5 DEF StoredInOrder
<1>5. CASE /\ fw = "RECVING" /\ Len(stored) = fw_size
           /\ fw' = "DONE" /\ UNCHANGED <<fw_size, stored, expect_seq>>
  BY <1>5 DEF StoredInOrder
<1> QED BY <1>1, <1>2, <1>3, <1>4, <1>5 DEF FileStep

LEMMA FileKept == ASSUME ShortFile PROVE Spec => [](TypeInv /\ FileInv)
<1>1. Init => TypeInv /\ FileInv
  <2> SUFFICES ASSUME Init PROVE FileInv
    BY TypeStart
  <2>1. StoredInOrder
    BY DEF Init, StoredInOrder
  <2> QED BY <2>1 DEF Init, FileInv, DoneIsWholeFile
<1>2. TypeInv /\ FileInv /\ [Next]_vars => (TypeInv /\ FileInv)'
  BY TypeInductive, NextIsFileStep, FileInductive
<1> QED BY <1>1, <1>2, PTL DEF Spec

\* However frames are lost, damaged, repeated or left over from another session,
\* a file of fewer packets than there are numbers is stored in order: StoredInOrder.
THEOREM ShortFileInOrder == ASSUME ShortFile PROVE Spec => []StoredInOrder
<1>1. FileInv => StoredInOrder
  BY DEF FileInv
<1> QED BY <1>1, FileKept, PTL

\* And only as a whole is it installed: DoneIsWholeFile.
THEOREM ShortFileIsWhole == ASSUME ShortFile PROVE Spec => []DoneIsWholeFile
<1>1. FileInv => DoneIsWholeFile
  BY DEF FileInv
<1> QED BY <1>1, FileKept, PTL

\* What ymodem_recv.c:16 says is true of such files: OnlyHeadStarts.
THEOREM ShortFileHasOneHead == ASSUME ShortFile PROVE Spec => OnlyHeadStarts
<1>1. TypeInv /\ [Next]_vars
        => [fw_size' # fw_size /\ fw' = "RECVING" => Head(toDev).kind = "head"]_vars
  BY NextIsFileStep DEF FileStep, StopUpdate, fwv
<1> QED BY <1>1, TypesKept, PTL DEF Spec, OnlyHeadStarts

-----------------------------------------------------------------------------
(* The interfaces, for every file.                                          *)

\* What a step does to the upgrade control and to the window.
Begins == fw' = "RECVING" /\ fw_size' \in 1 .. MaxSize /\ stored' = <<>> /\ UNCHANGED armed
Stores ==
  /\ fw = "RECVING" /\ Len(stored) < fw_size /\ UNCHANGED <<fw, fw_size, armed>>
  /\ \E x : stored' = Append(stored, x)
Ends == fw = "RECVING" /\ Len(stored) = fw_size /\ fw' = "DONE" /\ UNCHANGED <<fw_size, stored, armed>>
GivesUp == StopUpdate /\ armed' = TRUE

ChannelStep ==
  \/ UNCHANGED <<fwv, armed>>
  \/ armed /\ fw # "DONE" /\ (Begins \/ Stores \/ Ends \/ GivesUp)
  \/ armed /\ fw = "IDLE" /\ armed' = FALSE /\ UNCHANGED fwv
  \/ Reset

LEMMA CancelGivesUp == ASSUME Cancel PROVE GivesUp
BY DEF Cancel, StopUpdate, YmInit, GivesUp

LEMMA FinishEnds == ASSUME Finish PROVE Ends \/ GivesUp
BY DEF Finish, StopUpdate, YmInit, GivesUp, Ends, rcb

LEMMA PacketWorks ==
  ASSUME NEW f, GoodPacket(f)
  PROVE  UNCHANGED <<fwv, armed>> \/ Begins \/ Stores \/ Ends \/ GivesUp
<1>1. ASSUME NEW errs, ReadAsHead(f, file_done, errs)
      PROVE  UNCHANGED <<fwv, armed>> \/ Begins \/ Ends \/ GivesUp
  <2>1. ASSUME NEW size, HeadPacket(size, file_done, errs) PROVE Begins \/ GivesUp
    BY <2>1, CancelGivesUp DEF HeadPacket, Begins
  <2>2. CASE EndPacket
    BY <2>2, FinishEnds DEF EndPacket
  <2>3. CASE HeadNameTooLong(errs)
    BY <2>3 DEF HeadNameTooLong
  <2> QED BY <1>1, <2>1, <2>2, <2>3 DEF ReadAsHead
<1>2. CASE DataPacket(f)
  BY <1>2, CancelGivesUp DEF DataPacket, Stores
<1>3. CASE BadPacket \/ UNCHANGED <<rcb, fwv>>
  BY <1>3 DEF BadPacket, rcb
<1> QED BY <1>1, <1>2, <1>3 DEF GoodPacket

LEMMA NextIsChannelStep == ASSUME ReceivingIsArmed, [Next]_vars PROVE ChannelStep
<1> USE DEF ChannelStep
<1>1. CASE Receive
  <2> DEFINE f == Head(toDev)
  <2>0. armed /\ fw # "DONE"
    BY <1>1 DEF Receive
  <2>1. OnEot \/ OnCan \/ AbortSession => UNCHANGED <<fwv, armed>> \/ GivesUp
    BY CancelGivesUp DEF OnEot, OnCan, AbortSession, rcb
  <2>2. BadPacket \/ UNCHANGED <<rcb, fwv, toHost>> => UNCHANGED <<fwv, armed>>
    BY DEF BadPacket, rcb
  <2>3. CASE Intact(f)
    BY <2>0, <2>1, <2>3, PacketWorks DEF Intact
  <2>4. CASE EndsCutPacket(f)
    <3>1. BadPacketThenEot => UNCHANGED <<fwv, armed>>
      BY DEF BadPacketThenEot
    <3> QED BY <2>0, <2>2, <2>4, <3>1, CancelGivesUp DEF EndsCutPacket
  <2>5. CASE Damaged(f)
    BY <2>0, <2>1, <2>2, <2>5 DEF Damaged
  <2> QED BY <1>1, <2>3, <2>4, <2>5 DEF Receive
<1>2. CASE EndPacketMissing
  BY <1>2, FinishEnds DEF EndPacketMissing
<1>3. CASE RxTimeout \/ SessionFail
  BY <1>3, CancelGivesUp DEF RxTimeout, SessionFail
<1>4. CASE WindowClose
  BY <1>4 DEF WindowClose
<1>5. CASE Drain \/ Handshake \/ HostStep \/ UNCHANGED vars
  <2>1. UNCHANGED <<rcb, fwv>>
    BY <1>5 DEF Drain, Handshake, HostStep, HostReads, HostTimeout, HostCancels, HostRestarts, vars
  <2> QED BY <2>1 DEF rcb
<1> QED BY <1>1, <1>2, <1>3, <1>4, <1>5 DEF Next, Poll

\* The channel works on the upgrade control in its window only, and closes it for good:
\* ImplementsLocalWindow.
THEOREM ChannelIsWindow == Spec => ImplementsLocalWindow
<1> USE DEF Window!Alone, Window!Work, Window!Install, Window!Close, Window!Restart
<1>1. Init => Window!Init
  BY DEF Init, Window!Init
<1>2. ReceivingIsArmed /\ [Next]_vars => [Window!Alone]_<<armed, fw>>
  <2> SUFFICES ASSUME ReceivingIsArmed, [Next]_vars PROVE [Window!Alone]_<<armed, fw>>
    OBVIOUS
  <2>1. CASE UNCHANGED <<fwv, armed>>
    BY <2>1 DEF fwv
  <2>2. CASE armed /\ fw # "DONE" /\ (Begins \/ Stores)
    BY <2>2 DEF Begins, Stores
  <2>3. CASE armed /\ Ends
    BY <2>3 DEF Ends
  <2>4. CASE GivesUp
    BY <2>4 DEF GivesUp, StopUpdate
  <2>5. CASE armed /\ fw = "IDLE" /\ armed' = FALSE /\ UNCHANGED fwv
    BY <2>5 DEF fwv
  <2>6. CASE Reset
    BY <2>6 DEF Reset, StopUpdate, YmInit
  <2> QED BY <2>1, <2>2, <2>3, <2>4, <2>5, <2>6, NextIsChannelStep DEF ChannelStep
<1> QED
  BY <1>1, <1>2, LocalUpdateIsArmed, PTL DEF Spec, ImplementsLocalWindow, Window!AloneSpec

\* Also for files with more packets than numbers, whose data packets may be taken for
\* head packets, no packet is written beyond the size that was announced and nothing is
\* installed before all were: ImplementsUpgradeControl.
THEOREM ChannelIsControlled == Spec => ImplementsUpgradeControl
<1> DEFINE Step == [Control!Next]_<<fw, fw_size, Len(stored)>>
<1> USE DEF Control!Next, Control!Start, Control!Write, Control!Finish, Control!Stop
<1>1. Init => Control!Init
  BY DEF Init, Control!Init
<1>2. TypeInv /\ ReceivingIsArmed /\ [Next]_vars => Step
  <2> SUFFICES ASSUME TypeInv, ReceivingIsArmed, [Next]_vars PROVE Step
    OBVIOUS
  <2>0. stored \in Seq(1 .. FilePackets) /\ fw_size \in Nat /\ MaxSize \in Nat
    BY YmodemAssumption DEF TypeInv, DeviceOK, FwOK
  <2>1. CASE UNCHANGED fwv
    BY <2>1 DEF fwv
  <2>2. CASE Begins
    BY <2>0, <2>2 DEF Begins
  <2>3. CASE Stores
    <3>1. PICK x : stored' = Append(stored, x)
      BY <2>3 DEF Stores
    <3>2. Len(stored') = Len(stored) + 1 /\ Len(stored) \in Nat
      BY <2>0, <3>1
    <3> QED BY <2>0, <2>3, <3>2 DEF Stores
  <2>4. CASE Ends
    BY <2>4 DEF Ends
  <2>5. CASE GivesUp \/ Reset
    BY <2>5 DEF GivesUp, Reset, StopUpdate
  <2> QED BY <2>1, <2>2, <2>3, <2>4, <2>5, NextIsChannelStep DEF ChannelStep
<1> QED
  BY <1>1, <1>2, TypesKept, LocalUpdateIsArmed, PTL DEF Spec, ImplementsUpgradeControl, Control!Spec
=============================================================================
