----------------------- MODULE UpgradeChannels_proofs -----------------------
(***************************************************************************)
(* Two channels, one backup partition. For every size of the file, number of *)
(* retries and answers under way: OTA and the local channel never write into *)
(* one update, no update is left without an owner, and what a round finishes  *)
(* is the file, whatever the server and the network send.                    *)
(***************************************************************************)
EXTENDS UpgradeChannels, SequenceTheorems, TLAPS

-----------------------------------------------------------------------------
(* The exclusion.                                                           *)

Pre == {"open", "version", "check", "start"}

\* The inductive invariant: a look at the window and at the state before a round
\* holds on until OTA itself starts the update.
ExclusionInv ==
  /\ pc \in Inside \cup {"out"}
  /\ pc # "out" => ~armed
  /\ pc \in Pre => fw = "IDLE"
  /\ OneWriter
  /\ NoOrphan

LEMMA ExclusionStart == Init => ExclusionInv
BY DEF Init, ExclusionInv, OneWriter, NoOrphan, OtaHolds, Inside, Pre

\* What a round may do to the update, by where it is.
RoundStep ==
  \/ /\ pc \in Pre /\ pc' \in Pre \cup {"out"} /\ UNCHANGED fwv
  \/ /\ pc = "start" /\ pc' = "loop" /\ StartUpdate("ota")
  \/ /\ pc \in Inside \ Pre /\ pc' \in Inside \ Pre
     /\ owner' = owner /\ (fw' = fw \/ (fw = "RECVING" /\ fw' = "DONE"))
     /\ pc' = "range" => hashed' = hashed /\ (pc = "range" \/ Len(hashed) < Size)
  \/ /\ pc \in Inside \ Pre /\ pc' = "out" /\ StopUpdate

LEMMA RoundIsStep == ASSUME Round PROVE RoundStep
<1> USE DEF Inside, Pre, RoundStep, Leave, fwv
<1>0. GiveUp => pc' = "out" /\ StopUpdate
  BY DEF GiveUp
<1>1. CASE Open
  BY <1>1 DEF Open, Quit
<1>2. CASE Version
  BY <1>2 DEF Version, Quit
<1>3. CASE Check
  BY <1>3 DEF Check, Quit
<1>4. CASE Start
  BY <1>4 DEF Start, Quit
<1>5. CASE Loop
  BY <1>0, <1>5 DEF Loop
<1>6. CASE Download
  <2>1. PICK ans, got : Attempt(ans, got)
    BY <1>6 DEF Download
  <2>2. pc = "range"
    BY <1>6 DEF Download
  <2>3. CASE Take(got)
    BY <2>2, <2>3 DEF Take
  <2>4. CASE UNCHANGED <<pc, body, hashed, fwv>>
    BY <2>2, <2>4
  <2> QED BY <1>0, <2>1, <2>2, <2>3, <2>4 DEF Attempt
<1>7. CASE Write
  BY <1>0, <1>7 DEF Write, WriteData
<1>8. CASE Progress
  BY <1>8 DEF Progress
<1>9. CASE Verify
  BY <1>0, <1>9 DEF Verify
<1>10. CASE Report("status100", "status201") \/ Report("status201", "finish")
  BY <1>10 DEF Report
<1>11. CASE FinishOta
  <2>1. CASE StopUpdate
    BY <1>11, <2>1 DEF FinishOta, StopUpdate
  <2>2. CASE fw = "RECVING" /\ fw' = "DONE" /\ UNCHANGED <<stored, owner>>
    BY <1>11, <2>2 DEF FinishOta
  <2> QED BY <1>11, <2>1, <2>2 DEF FinishOta, Finish
<1> QED BY <1>1, <1>2, <1>3, <1>4, <1>5, <1>6, <1>7, <1>8, <1>9, <1>10, <1>11 DEF Round

LEMMA ExclusionInductive == ASSUME ExclusionInv, [Next]_vars PROVE ExclusionInv'
<1> USE DEF ExclusionInv, OneWriter, NoOrphan, OtaHolds, Pre, Inside
<1>1. CASE YmodemTask
  <2>1. pc' = pc /\ armed /\ pc = "out"
    BY <1>1 DEF YmodemTask, ota, YmStart, YmWrite, YmCancel, YmFinish, WindowClose
  <2>2. fw' = "RECVING" => armed'
    BY <1>1, <2>1 DEF YmodemTask, YmStart, YmWrite, YmCancel, YmFinish, WindowClose, StopUpdate,
       Finish, fwv
  <2> QED BY <2>1, <2>2
<1>2. CASE ConnChange \/ PollPasses
  BY <1>2 DEF ConnChange, PollPasses, fwv, ota
<1>3. CASE PollStarts
  BY <1>3 DEF PollStarts, fwv
<1>4. CASE Round
  <2>1. armed' = armed
    BY <1>4 DEF Round
  <2>2. RoundStep
    BY <1>4, RoundIsStep
  <2>3. CASE pc \in Pre /\ pc' \in Pre \cup {"out"} /\ UNCHANGED fwv
    BY <2>1, <2>3 DEF fwv
  <2>4. CASE pc = "start" /\ pc' = "loop" /\ StartUpdate("ota")
    BY <2>1, <2>4 DEF StartUpdate
  <2>5. CASE /\ pc \in Inside \ Pre /\ pc' \in Inside \ Pre
             /\ owner' = owner /\ (fw' = fw \/ (fw = "RECVING" /\ fw' = "DONE"))
    BY <2>1, <2>5
  <2>6. CASE pc \in Inside \ Pre /\ pc' = "out" /\ StopUpdate
    BY <2>1, <2>6 DEF StopUpdate
  <2> QED BY <2>2, <2>3, <2>4, <2>5, <2>6 DEF RoundStep
<1>5. CASE Reset
  BY <1>5 DEF Reset
<1>6. CASE UNCHANGED vars
  BY <1>6 DEF vars, fwv, ota
<1> QED BY <1>1, <1>2, <1>3, <1>4, <1>5, <1>6 DEF Next, OtaTask

LEMMA Exclusion == Spec => []ExclusionInv
BY ExclusionStart, ExclusionInductive, PTL DEF Spec

\* Two channels never write into one update: OneWriter.
THEOREM ChannelsExclude == Spec => []OneWriter
<1>1. ExclusionInv => OneWriter
  BY DEF ExclusionInv
<1> QED BY <1>1, Exclusion, PTL

\* An update that goes on has a channel that will end it: NoOrphan.
THEOREM UpdateHasOwner == Spec => []NoOrphan
<1>1. ExclusionInv => NoOrphan
  BY DEF ExclusionInv
<1> QED BY <1>1, Exclusion, PTL

-----------------------------------------------------------------------------
(* Types.                                                                   *)

LEMMA BodyTypes ==
  /\ NoBody \in Seq(Pieces) /\ Len(NoBody) = 0
  /\ \A l \in Nat : Noise(l) \in Seq(Pieces) /\ Len(Noise(l)) = l
  /\ \A k \in Nat \ {0}, l \in Nat : Piece(k, l) \in Seq(Pieces)
<1>1. Foreign \in Pieces /\ Size \in Nat
  BY ChannelAssumption DEF Foreign, Pieces
<1>2. ASSUME NEW l \in Nat PROVE Noise(l) \in Seq(Pieces) /\ Len(Noise(l)) = l
  BY <1>1 DEF Noise
<1>3. ASSUME NEW k \in Nat \ {0}, NEW l \in Nat PROVE Piece(k, l) \in Seq(Pieces)
  <2>1. ASSUME NEW j \in 1 .. l
        PROVE  (IF k + j - 1 <= Size THEN k + j - 1 ELSE Foreign) \in Pieces
    BY <1>1 DEF Pieces
  <2> QED BY <2>1 DEF Piece
<1> QED BY <1>2, <1>3 DEF NoBody

\* What Ymodem hands over.
LEMMA PacketType ==
  ASSUME NEW n \in 1 .. Size
  PROVE  Noise(n * Word) \in Seq(Pieces) /\ Noise(n * Word) # <<>>
<1>1. n * Word \in Nat /\ n * Word # 0
  <2>1. n >= 1 /\ Word >= 1 /\ n \in Nat /\ Word \in Nat
    BY ChannelAssumption
  <2>2. (n - 1) * Word >= 0 /\ (n - 1) * Word = n * Word - Word
    BY <2>1
  <2> QED BY <2>1, <2>2
<1>2. Noise(n * Word) \in Seq(Pieces) /\ Len(Noise(n * Word)) = n * Word
  BY <1>1, BodyTypes
<1> QED BY <1>1, <1>2

LEMMA AnswerTypes ==
  /\ NoAnswer \in Answers /\ Texts \subseteq Answers
  /\ \A k \in 1 .. Size : RangeAnswers(k) \subseteq Answers
  /\ \A a \in Answers : Garbled(a) \subseteq Answers
<1>1. Noises \subseteq Seq(Pieces) /\ NoBody \in Seq(Pieces)
  BY BodyTypes, ChannelAssumption DEF Noises, Lengths
<1>2. NoAnswer \in Answers /\ Texts \subseteq Answers
  BY <1>1 DEF NoAnswer, Texts, Answers
<1>3. ASSUME NEW k \in 1 .. Size PROVE RangeAnswers(k) \subseteq Answers
  <2>1. {Piece(k, l) : l \in Lengths} \subseteq Seq(Pieces)
    BY BodyTypes, ChannelAssumption DEF Lengths
  <2> QED BY <1>1, <2>1 DEF RangeAnswers, Answers
<1>4. \A a \in Answers : Garbled(a) \subseteq Answers
  BY <1>1, <1>2 DEF Garbled, Answers
<1> QED BY <1>2, <1>3, <1>4

\* What a read of the connection leaves behind is a stream, and no longer.
LEMMA LeftoversType ==
  ASSUME NEW s \in Seq(Answers), NEW r \in Leftovers(s)
  PROVE  r \in Seq(Answers) /\ Len(r) <= Len(s)
<1> DEFINE rests == {SubSeq(s, j, Len(s)) : j \in 1 .. Len(s) + 1}
<1>1. ASSUME NEW q \in rests PROVE q \in Seq(Answers) /\ Len(q) <= Len(s)
  <2>1. PICK j \in 1 .. Len(s) + 1 : q = SubSeq(s, j, Len(s))
    OBVIOUS
  <2> QED BY <2>1, SubSeqProperties
<1>2. CASE r \in rests
  BY <1>1, <1>2
<1>3. CASE \E q \in rests \ {<<>>} : \E g \in Garbled(Head(q)) : r = <<g>> \o Tail(q)
  <2>0. PICK q \in rests \ {<<>>} : \E g \in Garbled(Head(q)) : r = <<g>> \o Tail(q)
    BY <1>3
  <2>1. PICK g \in Garbled(Head(q)) : r = <<g>> \o Tail(q)
    BY <2>0
  <2>2. q \in Seq(Answers) /\ q # <<>> /\ Len(q) <= Len(s)
    BY <1>1
  <2>3. Head(q) \in Answers /\ Tail(q) \in Seq(Answers) /\ Len(Tail(q)) = Len(q) - 1
    BY <2>2, HeadTailProperties
  <2>4. g \in Answers
    BY <2>3, AnswerTypes
  <2> QED BY <2>1, <2>2, <2>3, <2>4
<1> QED BY <1>2, <1>3 DEF Leftovers

StreamOK == stream \in Seq(Answers) /\ Len(stream) <= StreamCap

LEMMA ExchangeType ==
  ASSUME StreamOK, NEW ans \in Answers, NEW got \in Got(ans), Exchange(ans, got)
  PROVE  StreamOK' /\ got \in Answers
<1> DEFINE s == Append(stream, ans)
<1> USE ChannelAssumption DEF StreamOK
<1>1. s \in Seq(Answers) /\ s # <<>> /\ Len(s) = Len(stream) + 1
  BY AppendProperties
<1>2. Head(s) \in Answers /\ Tail(s) \in Seq(Answers) /\ Len(Tail(s)) = Len(stream)
  BY <1>1, HeadTailProperties
<1>3. got \in Answers
  BY <1>2, AnswerTypes DEF Got
<1>4. CASE stream' \in Leftovers(stream) \cup Leftovers(s) /\ Len(stream') <= StreamCap
  <2>1. stream' \in Seq(Answers)
    BY <1>1, <1>4, LeftoversType
  <2> QED BY <1>3, <1>4, <2>1
<1>5. CASE stream' \in Leftovers(Tail(s))
  <2>1. stream' \in Seq(Answers) /\ Len(stream') <= Len(Tail(s))
    BY <1>2, <1>5, LeftoversType
  <2> HIDE DEF s
  <2> QED BY <1>2, <1>3, <2>1
<1> QED BY <1>4, <1>5 DEF Exchange

RoundTypes ==
  /\ retry \in 0 .. Retry - 1
  /\ body \in Seq(Pieces) /\ hashed \in Seq(Pieces)
  /\ StreamOK

LEMMA WriteType ==
  ASSUME stored \in Seq(Pieces), Len(stored) <= Size,
         NEW data \in Seq(Pieces), WriteData(data)
  PROVE  stored' \in Seq(Pieces) /\ Len(stored') <= Size
<1> DEFINE all == stored \o data
           n == IF Len(all) < Size THEN Len(all) ELSE Size
<1>1. all \in Seq(Pieces) /\ Len(all) \in Nat /\ n \in 0 .. Len(all) /\ n <= Size
  BY ChannelAssumption
<1>2. stored' = SubSeq(all, 1, n)
  BY DEF WriteData, Cut
<1> HIDE DEF all, n
<1> QED BY <1>1, <1>2, SubSeqProperties

LEMMA RoundKeepsTypes ==
  ASSUME TypeOK, RoundTypes, pc = "range" => Len(hashed) < Size, Round
  PROVE  /\ RoundTypes'
         /\ stored' \in Seq(Pieces) /\ Len(stored') <= Size
<1> USE ChannelAssumption DEF RoundTypes
<1> DEFINE Stored == stored \in Seq(Pieces) /\ Len(stored) <= Size
<1> SUFFICES RoundTypes' /\ Stored'
  OBVIOUS
<1>0. /\ Stored /\ <<>> \in Seq(Pieces) /\ <<>> \in Seq(Answers)
      /\ NoBody \in Seq(Pieces)
  BY BodyTypes DEF TypeOK
<1>1. Leave => RoundTypes'
  BY <1>0 DEF Leave, StreamOK
<1>2. StopUpdate => Stored'
  BY <1>0 DEF StopUpdate
<1>3. UNCHANGED fwv => Stored'
  BY <1>0 DEF fwv
<1>4. Quit \/ GiveUp => RoundTypes' /\ Stored'
  BY <1>1, <1>2, <1>3 DEF Quit, GiveUp
<1> HIDE DEF Stored
<1>5. UNCHANGED <<retry, body, hashed, stream>> => RoundTypes'
  BY DEF StreamOK
<1>6. \A ans \in Answers : \A got \in Got(ans) :
        Exchange(ans, got) => StreamOK' /\ got \in Answers
  BY ExchangeType
<1>7. Texts \subseteq Answers
  BY AnswerTypes
<1>8. CASE Open
  BY <1>3, <1>4, <1>5, <1>8 DEF Open
<1>9. CASE Version
  BY <1>3, <1>4, <1>6, <1>7, <1>9 DEF Version
<1>10. CASE Check
  BY <1>3, <1>4, <1>6, <1>7, <1>10 DEF Check
<1>11. CASE Start
  <2>1. CASE StartUpdate("ota") /\ hashed' = <<>> /\ UNCHANGED <<retry, body, stream>>
    <3>1. Stored'
      BY <1>0, <2>1, ChannelAssumption DEF StartUpdate, Stored
    <3> QED BY <1>0, <2>1, <3>1 DEF StreamOK
  <2> QED BY <1>3, <1>4, <1>11, <2>1 DEF Start
<1>12. CASE Loop
  BY <1>3, <1>4, <1>12 DEF Loop, StreamOK
<1>13. CASE Download
  <2>1. Len(hashed) + 1 \in 1 .. Size
    BY <1>13 DEF Download
  <2>2. PICK ans \in RangeAnswers(Len(hashed) + 1) : \E got \in Got(ans) : Attempt(ans, got)
    BY <1>13 DEF Download
  <2>3. PICK got \in Got(ans) : Attempt(ans, got)
    BY <2>2
  <2>4. ans \in Answers
    BY <2>1, <2>2, AnswerTypes
  <2>5. Exchange(ans, got) => StreamOK' /\ got \in Answers
    BY <1>6, <2>4
  <2>6. CASE Exchange(ans, got) /\ Take(got)
    <3>1. got.body \in Seq(Pieces)
      BY <2>5, <2>6 DEF Answers
    <3> QED BY <1>3, <2>5, <2>6, <3>1 DEF Take
  <2>7. CASE /\ retry < Retry - 1 /\ Exchange(ans, got)
             /\ retry' = retry + 1 /\ UNCHANGED <<pc, body, hashed, fwv>>
    <3>1. Stored'
      BY <1>3, <2>7
    <3> QED BY <2>5, <2>7, <3>1
  <2> QED BY <1>4, <2>3, <2>6, <2>7 DEF Attempt
<1>14. CASE Write
  <2>1. CASE GiveUp
    BY <1>4, <2>1
  <2>2. CASE /\ WriteData(body) /\ hashed' = hashed \o body
             /\ body' = NoBody /\ UNCHANGED <<retry, stream>>
    <3>1. Stored'
      BY <1>0, <2>2, WriteType DEF Stored
    <3> QED BY <1>0, <2>2, <3>1 DEF StreamOK
  <2> QED BY <1>14, <2>1, <2>2 DEF Write
<1>15. CASE Progress
  BY <1>3, <1>6, <1>7, <1>15 DEF Progress
<1>16. CASE Verify
  BY <1>3, <1>4, <1>5, <1>16 DEF Verify
<1>17. CASE Report("status100", "status201") \/ Report("status201", "finish")
  BY <1>3, <1>6, <1>7, <1>17 DEF Report
<1>18. CASE FinishOta
  <2>1. Stored'
    BY <1>0, <1>2, <1>18 DEF FinishOta, Finish, Stored
  <2>2. RoundTypes'
    BY <1>0, <1>18, ChannelAssumption DEF FinishOta, StreamOK
  <2> QED BY <2>1, <2>2
<1> QED BY <1>8, <1>9, <1>10, <1>11, <1>12, <1>13, <1>14, <1>15, <1>16, <1>17, <1>18 DEF Round

TypeInv == TypeOK /\ (pc = "range" => Len(hashed) < Size)

LEMMA TypeStart == Init => TypeInv
<1>1. /\ <<>> \in Seq(Pieces) /\ <<>> \in Seq(Answers) /\ Len(<<>>) = 0
      /\ NoBody \in Seq(Pieces)
  BY BodyTypes
<1> SUFFICES ASSUME Init PROVE TypeInv
  OBVIOUS
<1>2. {armed, conn, last_conn} \subseteq BOOLEAN
  BY DEF Init
<1>3. /\ stored \in Seq(Pieces) /\ Len(stored) <= Size
      /\ body \in Seq(Pieces) /\ hashed \in Seq(Pieces) /\ retry \in 0 .. Retry - 1
      /\ stream \in Seq(Answers) /\ Len(stream) <= StreamCap
  BY <1>1, ChannelAssumption DEF Init
<1>4. fw \in {"IDLE", "RECVING", "DONE"} /\ owner \in {"none", "ota", "ym"} /\ pc = "out"
  BY DEF Init
<1> QED BY <1>2, <1>3, <1>4 DEF TypeInv, TypeOK

LEMMA TypeInductive == ASSUME TypeInv, [Next]_vars PROVE TypeInv'
<1> USE ChannelAssumption DEF TypeInv
<1> DEFINE Ota == RoundTypes /\ pc \in Inside \cup {"out"} /\ (pc = "range" => Len(hashed) < Size)
           Store == stored \in Seq(Pieces) /\ Len(stored) <= Size
           Rest == /\ fw \in {"IDLE", "RECVING", "DONE"} /\ owner \in {"none", "ota", "ym"}
                   /\ {armed, conn, last_conn} \subseteq BOOLEAN
<1>0. (Ota /\ Store /\ Rest)' => TypeInv'
  BY DEF RoundTypes, StreamOK, TypeOK
<1>1. Ota /\ Store /\ Rest
  BY DEF RoundTypes, StreamOK, TypeOK
<1>2. UNCHANGED ota => Ota'
  BY <1>1 DEF ota, RoundTypes, StreamOK
<1>3. CASE YmodemTask
  <2>1. /\ \A n \in 1 .. Size : Noise(n * Word) \in Seq(Pieces)
        /\ <<>> \in Seq(Pieces) /\ Len(<<>>) = 0
    BY PacketType
  <2>2. Store'
    <3>1. CASE YmWrite
      BY <1>1, <2>1, <3>1, WriteType DEF YmWrite
    <3>2. CASE YmStart \/ YmCancel \/ YmFinish \/ WindowClose
      <4>1. stored' = <<>> \/ stored' = stored
        BY <3>2 DEF YmStart, YmCancel, YmFinish, WindowClose, StartUpdate, StopUpdate, Finish, fwv
      <4>2. CASE stored' = <<>>
        BY <2>1, <4>2
      <4>3. CASE stored' = stored
        BY <1>1, <4>3
      <4> QED BY <4>1, <4>2, <4>3
    <3> QED BY <1>3, <3>1, <3>2 DEF YmodemTask
  <2>3. Rest'
    BY <1>1, <1>3 DEF YmodemTask, YmStart, YmWrite, YmCancel, YmFinish, WindowClose, WriteData,
       StartUpdate, StopUpdate, Finish, fwv, poll
  <2> QED BY <1>0, <1>2, <1>3, <2>2, <2>3 DEF YmodemTask
<1>4. CASE ConnChange
  BY <1>0, <1>1, <1>2, <1>4 DEF ConnChange, fwv
<1>5. CASE PollStarts \/ PollPasses
  <2>1. Store' /\ Rest'
    BY <1>1, <1>5 DEF PollStarts, PollPasses, fwv
  <2>2. Ota'
    BY <1>1, <1>5 DEF PollStarts, PollPasses, ota, Inside, RoundTypes, StreamOK
  <2> QED BY <1>0, <2>1, <2>2
<1>6. CASE Round
  <2>1. RoundTypes' /\ Store'
    BY <1>1, <1>6, RoundKeepsTypes
  <2>2. Rest'
    <3>1. armed' = armed /\ UNCHANGED poll
      BY <1>6 DEF Round
    <3>2. fw' \in {"IDLE", "RECVING", "DONE"} /\ owner' \in {"none", "ota", "ym"}
      BY <1>1, <1>6, RoundIsStep DEF RoundStep, StartUpdate, StopUpdate, fwv
    <3> QED BY <1>1, <3>1, <3>2 DEF poll
  <2>3. pc' \in Inside \cup {"out"}
    BY <1>1, <1>6, RoundIsStep DEF RoundStep, Pre, Inside
  <2>4. pc' = "range" => Len(hashed') < Size
    BY <1>1, <1>6, RoundIsStep DEF RoundStep, Pre, Inside
  <2> QED BY <1>0, <2>1, <2>2, <2>3, <2>4
<1>7. CASE Reset
  <2>1. /\ <<>> \in Seq(Pieces) /\ <<>> \in Seq(Answers) /\ Len(<<>>) = 0
        /\ NoBody \in Seq(Pieces)
    BY BodyTypes
  <2>2. Ota' /\ Store'
    BY <1>7, <2>1 DEF Reset, RoundTypes, StreamOK
  <2>3. Rest'
    BY <1>7 DEF Reset
  <2> QED BY <1>0, <2>2, <2>3
<1>8. CASE UNCHANGED vars
  <2>1. Store' /\ Rest'
    BY <1>1, <1>8 DEF vars, fwv, poll
  <2> QED BY <1>0, <1>2, <1>8, <2>1 DEF vars
<1> QED BY <1>3, <1>4, <1>5, <1>6, <1>7, <1>8 DEF Next, OtaTask

\* Every variable of the two channels keeps its type: TypeOK.
THEOREM TypeCorrect == Spec => []TypeOK
<1>1. TypeInv => TypeOK
  BY DEF TypeInv
<1> QED BY <1>1, TypeStart, TypeInductive, PTL DEF Spec

-----------------------------------------------------------------------------
(* What is in the partition.                                                *)

Getting == {"loop", "range", "write", "progress", "verify"}
Checked == {"status100", "status201", "finish"}

\* The partition holds what was hashed, up to the size that was announced; behind the comparison of
\* the sums it holds the file, and only there a round can end in DONE.
ContentInv ==
  /\ pc \in Getting => stored = Cut(hashed)
  /\ pc \in Checked => stored = File
  /\ owner = "ota" => pc \in Getting \cup Checked
  /\ fw = "DONE" /\ owner = "ota" => pc = "finish"

LEMMA CutShort ==
  ASSUME NEW s \in Seq(Pieces), Len(s) <= Size PROVE Cut(s) = s
<1>1. (IF Len(s) < Size THEN Len(s) ELSE Size) = Len(s)
  BY ChannelAssumption
<1>2. SubSeq(s, 1, Len(s)) = s
  OBVIOUS
<1> QED BY <1>1, <1>2 DEF Cut

LEMMA CutLength ==
  ASSUME NEW s \in Seq(Pieces) PROVE Len(Cut(s)) < Size => Len(s) < Size
<1> DEFINE n == IF Len(s) < Size THEN Len(s) ELSE Size
<1>1. n \in 0 .. Len(s)
  BY ChannelAssumption
<1>2. Len(SubSeq(s, 1, n)) = n
  <2> HIDE DEF n
  <2> QED BY <1>1, SubSeqProperties
<1> QED BY <1>2, ChannelAssumption DEF Cut

LEMMA CutFile == Cut(File) = File
<1>1. File \in Seq(Pieces) /\ Len(File) = Size
  BY ChannelAssumption DEF File, Pieces
<1> QED BY <1>1, ChannelAssumption, CutShort

\* One body goes into both.
LEMMA WriteKeepsCut ==
  ASSUME stored = Cut(hashed), hashed \in Seq(Pieces), body \in Seq(Pieces),
         WriteData(body), hashed' = hashed \o body
  PROVE  stored' = Cut(hashed')
<1>1. Len(stored) < Size
  BY DEF WriteData
<1>2. Len(hashed) < Size
  BY <1>1, CutLength
<1>3. stored = hashed
  BY <1>2, CutShort, ChannelAssumption
<1> QED BY <1>3 DEF WriteData, Cut

LEMMA RoundKeepsContent ==
  ASSUME TypeInv, ExclusionInv, ContentInv, Round PROVE ContentInv'
<1> USE DEF ContentInv, Getting, Checked, Leave, fwv
<1>0. hashed \in Seq(Pieces) /\ body \in Seq(Pieces)
  BY DEF TypeInv, TypeOK
<1>1. ASSUME pc' = "out", StopUpdate PROVE ContentInv'
  BY <1>1 DEF StopUpdate
<1>2. CASE GiveUp
  BY <1>1, <1>2 DEF GiveUp
<1>3. CASE pc \in Pre /\ pc' \in Pre \cup {"out"} /\ UNCHANGED fwv
  BY <1>3 DEF Pre
<1>4. ASSUME pc \in Getting, pc' \in Getting, UNCHANGED <<stored, hashed, fw, owner>>
      PROVE  ContentInv'
  BY <1>4
<1>5. ASSUME pc \in Checked, pc' \in Checked, pc # "finish", UNCHANGED <<stored, fw, owner>>
      PROVE  ContentInv'
  BY <1>5
<1>6. CASE Open \/ Version \/ Check
  BY <1>3, <1>6 DEF Open, Version, Check, Quit, Pre
<1>7. CASE Start
  <2>1. CASE Quit
    BY <1>3, <1>7, <2>1 DEF Start, Quit, Pre
  <2>2. CASE StartUpdate("ota") /\ pc' = "loop" /\ hashed' = <<>>
    <3>1. Cut(<<>>) = <<>>
      <4>1. <<>> \in Seq(Pieces) /\ Len(<<>>) <= Size
        BY ChannelAssumption
      <4> QED BY <4>1, CutShort
    <3> QED BY <2>2, <3>1 DEF StartUpdate
  <2> QED BY <1>7, <2>1, <2>2 DEF Start
<1>8. CASE Loop
  BY <1>2, <1>4, <1>8 DEF Loop
<1>9. CASE Download
  <2>1. PICK ans, got : Attempt(ans, got)
    BY <1>9 DEF Download
  <2>2. pc = "range"
    BY <1>9 DEF Download
  <2>3. CASE Take(got)
    BY <1>4, <2>2, <2>3 DEF Take
  <2>4. CASE UNCHANGED <<pc, body, hashed, fwv>>
    BY <1>4, <2>2, <2>4
  <2> QED BY <1>2, <2>1, <2>3, <2>4 DEF Attempt
<1>10. CASE Write
  <2>1. CASE WriteData(body) /\ hashed' = hashed \o body /\ pc' \in {"loop", "progress"}
    <3>1. stored' = Cut(hashed')
      BY <1>0, <1>10, <2>1, WriteKeepsCut DEF Write
    <3>2. UNCHANGED <<fw, owner>> /\ fw = "RECVING"
      BY <2>1 DEF WriteData
    <3> QED BY <2>1, <3>1, <3>2
  <2> QED BY <1>2, <1>10, <2>1 DEF Write
<1>11. CASE Progress
  BY <1>4, <1>11 DEF Progress
<1>12. CASE Verify
  <2>1. CASE hashed = File /\ pc' = "status100" /\ UNCHANGED <<hashed, fwv>>
    <3>1. stored' = File
      BY <1>12, <2>1, CutFile DEF Verify
    <3>2. ~(fw = "DONE" /\ owner = "ota")
      BY <1>12 DEF Verify
    <3> QED BY <2>1, <3>1, <3>2
  <2> QED BY <1>2, <1>12, <2>1 DEF Verify
<1>13. CASE Report("status100", "status201") \/ Report("status201", "finish")
  BY <1>5, <1>13 DEF Report
<1>14. CASE FinishOta
  <2>1. CASE StopUpdate
    BY <1>1, <1>14, <2>1 DEF FinishOta, StopUpdate
  <2>2. CASE fw' = "DONE" /\ UNCHANGED <<stored, owner>>
    BY <1>14, <2>2 DEF FinishOta
  <2> QED BY <1>14, <2>1, <2>2 DEF FinishOta, Finish
<1> QED BY <1>6, <1>7, <1>8, <1>9, <1>10, <1>11, <1>12, <1>13, <1>14 DEF Round

LEMMA ContentInductive ==
  ASSUME TypeInv, ExclusionInv, ContentInv, [Next]_vars PROVE ContentInv'
<1> USE DEF ContentInv, Getting, Checked
<1>1. CASE YmodemTask
  <2>1. pc' = pc /\ pc = "out" /\ owner # "ota"
    BY <1>1 DEF YmodemTask, YmStart, YmWrite, YmCancel, YmFinish, WindowClose, ExclusionInv, ota
  <2>2. owner' # "ota"
    BY <1>1, <2>1 DEF YmodemTask, YmStart, YmWrite, YmCancel, YmFinish, WindowClose, StartUpdate,
       StopUpdate, WriteData, Finish, fwv
  <2> QED BY <2>1, <2>2
<1>2. CASE ConnChange \/ PollPasses
  BY <1>2 DEF ConnChange, PollPasses, fwv, ota
<1>3. CASE PollStarts
  BY <1>3 DEF PollStarts, fwv
<1>4. CASE Round
  BY <1>4, RoundKeepsContent
<1>5. CASE Reset
  BY <1>5 DEF Reset
<1>6. CASE UNCHANGED vars
  BY <1>6 DEF vars, fwv, ota
<1> QED BY <1>1, <1>2, <1>3, <1>4, <1>5, <1>6 DEF Next, OtaTask

\* Whatever answers come, late, wrong, too long or cut, what a round installs and
\* reports as a success is the file: OnlyTheFile.
THEOREM OnlyFileInstalled == Spec => []OnlyTheFile
<1> DEFINE Inv == TypeInv /\ ExclusionInv /\ ContentInv
<1>1. Init => Inv
  BY TypeStart, ExclusionStart DEF Init, ContentInv, Getting, Checked
<1>2. Inv /\ [Next]_vars => Inv'
  BY TypeInductive, ExclusionInductive, ContentInductive
<1>3. Inv => OnlyTheFile
  BY DEF ContentInv, Checked, OnlyTheFile
<1> QED BY <1>1, <1>2, <1>3, PTL DEF Spec

-----------------------------------------------------------------------------
(* The two interfaces.                                                      *)

\* A body that is about to be written holds something, where something is missing.
BodyInv == pc = "write" => body # <<>> /\ Len(hashed) < Size

LEMMA BodyInductive == ASSUME TypeInv, BodyInv, [Next]_vars PROVE BodyInv'
<1> USE DEF BodyInv
<1>1. CASE YmodemTask \/ ConnChange \/ PollPasses \/ UNCHANGED vars
  BY <1>1 DEF YmodemTask, ConnChange, PollPasses, vars, ota
<1>2. CASE PollStarts \/ Reset
  BY <1>2 DEF PollStarts, Reset
<1>3. CASE Round
  <2>1. CASE Download
    <3>1. PICK ans, got : Attempt(ans, got)
      BY <2>1 DEF Download
    <3>2. pc = "range" /\ Len(hashed) < Size
      BY <2>1 DEF Download, TypeInv
    <3>3. CASE Take(got)
      <4>1. got.body # <<>>
        BY <3>1, <3>2, <3>3 DEF Attempt, Take, GiveUp, Leave, Whole, NoBody
      <4> QED BY <3>2, <3>3, <4>1 DEF Take
    <3>4. CASE pc' # "write"
      BY <3>4
    <3> QED BY <3>1, <3>2, <3>3, <3>4 DEF Attempt, GiveUp, Leave
  <2>2. CASE Open \/ Version \/ Check \/ Start \/ Loop
    BY <2>2 DEF Open, Version, Check, Start, Loop, Quit, GiveUp, Leave
  <2>3. CASE Write \/ Progress \/ Verify \/ FinishOta
    BY <2>3 DEF Write, Progress, Verify, FinishOta, GiveUp, Leave
  <2>4. CASE Report("status100", "status201") \/ Report("status201", "finish")
    BY <2>4 DEF Report
  <2> QED BY <1>3, <2>1, <2>2, <2>3, <2>4 DEF Round
<1> QED BY <1>1, <1>2, <1>3 DEF Next, OtaTask

\* What any step does to the upgrade control.
ControlStep ==
  \/ UNCHANGED <<fw, stored>>
  \/ fw' = "RECVING" /\ stored' = <<>>
  \/ fw' = "IDLE" /\ stored' = <<>>
  \/ \E data \in Seq(Pieces) \ {<<>>} : WriteData(data)
  \/ fw = "RECVING" /\ Len(stored) = Size /\ fw' = "DONE" /\ stored' = stored

LEMMA NextIsControlStep == ASSUME TypeInv, BodyInv, [Next]_vars PROVE ControlStep
<1> USE DEF ControlStep
<1>0. (Finish \/ StopUpdate \/ StartUpdate("ym") \/ StartUpdate("ota")) => ControlStep
  BY DEF Finish, StopUpdate, StartUpdate
<1>1. CASE YmodemTask
  <2>1. CASE YmWrite
    <3>1. \A n \in 1 .. Size : Noise(n * Word) \in Seq(Pieces) \ {<<>>}
      BY PacketType
    <3> QED BY <2>1, <3>1 DEF YmWrite
  <2> QED BY <1>0, <1>1, <2>1 DEF YmodemTask, YmStart, YmCancel, YmFinish, WindowClose, fwv
<1>2. CASE ConnChange \/ PollPasses \/ PollStarts \/ UNCHANGED vars
  BY <1>2 DEF ConnChange, PollPasses, PollStarts, vars, fwv
<1>3. CASE Reset
  BY <1>3 DEF Reset
<1>4. CASE Round
  <2>1. GiveUp => ControlStep
    BY <1>0 DEF GiveUp
  <2>2. UNCHANGED fwv => ControlStep
    BY DEF fwv
  <2>3. CASE Open \/ Version \/ Check \/ Start
    BY <1>0, <2>2, <2>3 DEF Open, Version, Check, Start, Quit
  <2>4. CASE Loop \/ Progress \/ Verify
    BY <2>1, <2>2, <2>4 DEF Loop, Progress, Verify
  <2>5. CASE Download
    BY <2>1, <2>2, <2>5 DEF Download, Attempt, Take
  <2>6. CASE Write
    <3>1. body \in Seq(Pieces) \ {<<>>}
      BY <2>6 DEF Write, BodyInv, TypeInv, TypeOK
    <3> QED BY <2>1, <2>6, <3>1 DEF Write
  <2>7. CASE FinishOta
    BY <1>0, <2>7 DEF FinishOta
  <2>8. CASE Report("status100", "status201") \/ Report("status201", "finish")
    BY <2>2, <2>8 DEF Report
  <2> QED BY <1>4, <2>3, <2>4, <2>5, <2>6, <2>7, <2>8 DEF Round
<1> QED BY <1>1, <1>2, <1>3, <1>4 DEF Next, OtaTask

\* An update that is over holds nothing.
IdleInv == fw = "IDLE" => stored = <<>>

LEMMA IdleInductive == ASSUME IdleInv, ControlStep PROVE IdleInv'
BY DEF IdleInv, ControlStep, WriteData

LEMMA WriteGrows ==
  ASSUME stored \in Seq(Pieces), NEW data \in Seq(Pieces) \ {<<>>}, WriteData(data)
  PROVE  Len(stored') \in Len(stored) + 1 .. Size
<1> DEFINE all == stored \o data
           n == IF Len(all) < Size THEN Len(all) ELSE Size
<1>0. Len(data) \in Nat \ {0}
  OBVIOUS
<1>1. all \in Seq(Pieces) /\ Len(all) = Len(stored) + Len(data)
  OBVIOUS
<1>2. stored' = SubSeq(all, 1, n) /\ Len(stored) < Size
  BY DEF WriteData, Cut
<1>3. n \in Len(stored) + 1 .. Size /\ n \in 0 .. Len(all)
  BY <1>0, <1>1, <1>2, ChannelAssumption
<1> HIDE DEF all, n
<1>4. Len(stored') = n
  BY <1>1, <1>2, <1>3, SubSeqProperties
<1> QED BY <1>3, <1>4

LEMMA ControlStepRefines ==
  ASSUME TypeInv, IdleInv, ControlStep
  PROVE  Control!Next \/ UNCHANGED <<fw, IF fw = "IDLE" THEN 0 ELSE Size, Len(stored)>>
<1> USE ChannelAssumption DEF Control!Next
<1>0. Len(<<>>) = 0 /\ stored \in Seq(Pieces)
  BY DEF TypeInv, TypeOK
<1>1. CASE UNCHANGED <<fw, stored>>
  BY <1>1
<1>2. CASE fw' = "RECVING" /\ stored' = <<>>
  BY <1>0, <1>2 DEF Control!Start
<1>3. CASE fw' = "IDLE" /\ stored' = <<>>
  BY <1>0, <1>3 DEF Control!Stop
<1>4. CASE \E data \in Seq(Pieces) \ {<<>>} : WriteData(data)
  <2>1. Len(stored') \in Len(stored) + 1 .. Size
    BY <1>0, <1>4, WriteGrows
  <2>2. fw = "RECVING" /\ Len(stored) < Size /\ fw' = fw
    BY <1>4 DEF WriteData
  <2> QED BY <2>1, <2>2 DEF Control!Write
<1>5. CASE fw = "RECVING" /\ Len(stored) = Size /\ fw' = "DONE" /\ stored' = stored
  BY <1>5 DEF Control!Finish
<1> QED BY <1>1, <1>2, <1>3, <1>4, <1>5 DEF ControlStep

\* Both channels together, with whatever answers come, use the upgrade control as
\* its interface says: ImplementsUpgradeControl.
THEOREM ChannelsAreControlled == Spec => ImplementsUpgradeControl
<1> DEFINE Inv == TypeInv /\ BodyInv /\ IdleInv
<1>1. Init => Inv /\ Control!Init
  <2>1. Len(<<>>) = 0
    OBVIOUS
  <2> QED BY <2>1, TypeStart DEF Init, BodyInv, IdleInv, Control!Init
<1>2. Inv /\ [Next]_vars => Inv'
  BY TypeInductive, BodyInductive, NextIsControlStep, IdleInductive
<1>3. Inv /\ [Next]_vars
      => [Control!Next]_<<fw, IF fw = "IDLE" THEN 0 ELSE Size, Len(stored)>>
  BY NextIsControlStep, ControlStepRefines
<1> QED BY <1>1, <1>2, <1>3, PTL DEF Spec, ImplementsUpgradeControl, Control!Spec

LEMMA WindowStep ==
  ASSUME TypeInv, TypeInv', ExclusionInv, [Next]_vars
  PROVE  Window!Next \/ UNCHANGED <<armed, fw>>
<1> USE DEF Window!Next, Window!Alone
<1>0. fw' \in Window!States
  BY DEF TypeInv, TypeOK, Window!States
<1>1. CASE YmodemTask
  <2> USE DEF Window!Work, Window!Install, Window!Close, StartUpdate, StopUpdate, fwv
  <2>1. CASE YmStart \/ YmWrite \/ YmCancel \/ WindowClose
    BY <2>1 DEF YmStart, YmWrite, YmCancel, WindowClose, WriteData
  <2>2. CASE YmFinish
    BY <2>2 DEF YmFinish, Finish
  <2> QED BY <1>1, <2>1, <2>2 DEF YmodemTask
<1>2. CASE ConnChange \/ PollPasses \/ PollStarts \/ UNCHANGED vars
  BY <1>2 DEF ConnChange, PollPasses, PollStarts, vars, fwv
<1>3. CASE Round
  <2>1. pc # "out"
    BY <1>3 DEF Round, Open, Version, Check, Start, Loop, Download, Write, Progress, Verify,
       Report, FinishOta
  <2>2. ~armed /\ armed' = armed
    BY <1>3, <2>1 DEF ExclusionInv, Round
  <2> QED BY <1>0, <2>2 DEF Window!Other
<1>4. CASE Reset
  BY <1>4 DEF Reset, Window!Restart
<1> QED BY <1>1, <1>2, <1>3, <1>4 DEF Next, OtaTask

\* The local channel works in its window only, though OTA shares the upgrade
\* control with it: ImplementsLocalWindow.
THEOREM WindowIsKept == Spec => ImplementsLocalWindow
<1> DEFINE Inv == TypeInv /\ ExclusionInv
<1>1. Init => Inv /\ Window!Init
  BY TypeStart, ExclusionStart DEF Init, Window!Init
<1>2. Inv /\ [Next]_vars => Inv'
  BY TypeInductive, ExclusionInductive
<1>3. Inv /\ [Next]_vars => [Window!Next]_<<armed, fw>>
  BY <1>2, WindowStep
<1> QED BY <1>1, <1>2, <1>3, PTL DEF Spec, ImplementsLocalWindow, Window!Spec

-----------------------------------------------------------------------------
(* The length of a round.                                                   *)

LEMMA UnitIsWorth ==
  ASSUME NEW a \in Nat, NEW b \in Nat, b < a, NEW p \in Nat
  PROVE  b * p \in Nat /\ b * p + p <= a * p
<1>1. (a - b - 1) * p >= 0
  OBVIOUS
<1>2. (a - b - 1) * p = a * p - b * p - p
  OBVIOUS
<1> QED BY <1>1, <1>2

\* The rank of the download, with the units that are missing taken together.
Work == Left * PerUnit

LEMMA WorkIs ==
  ASSUME TypeInv
  PROVE  /\ Work \in Nat /\ Size * PerUnit \in Nat
         /\ Len(hashed) < Size => Work >= PerUnit
<1> USE ChannelAssumption DEF Left, PerUnit, Work
<1>1. Len(hashed) \in Nat
  BY DEF TypeInv, TypeOK
<1>2. Left \in Nat /\ PerUnit \in Nat
  BY <1>1
<1>3. ASSUME Len(hashed) < Size PROVE Work >= PerUnit
  <2>1. 0 < Left
    BY <1>1, <1>3
  <2> HIDE DEF Left, PerUnit
  <2>2. 0 * PerUnit + PerUnit <= Left * PerUnit
    BY <1>2, <2>1, UnitIsWorth
  <2> QED BY <1>2, <2>2
<1> HIDE DEF PerUnit, Left
<1>4. Left * PerUnit \in Nat /\ Size * PerUnit \in Nat
  BY <1>2
<1> QED BY <1>3, <1>4

LEMMA WorkKept == ASSUME hashed' = hashed PROVE Work' = Work
BY DEF Work, Left, PerUnit

\* A write takes off at least what a unit is worth.
LEMMA WorkShrinks ==
  ASSUME TypeInv, TypeInv', Len(hashed) < Size, body \in Seq(Pieces) \ {<<>>},
         hashed' = hashed \o body
  PROVE  Work' \in Nat /\ Work' + PerUnit <= Work
<1> USE ChannelAssumption
<1>1. hashed \in Seq(Pieces)
  BY DEF TypeInv, TypeOK
<1>2. Len(hashed') > Len(hashed) /\ Len(hashed) \in Nat /\ Len(hashed') \in Nat
  BY <1>1
<1>3. Left \in Nat /\ Left' \in Nat /\ Left' < Left /\ PerUnit \in Nat
  BY <1>2 DEF Left, PerUnit
<1>4. Left' * PerUnit \in Nat /\ Left' * PerUnit + PerUnit <= Left * PerUnit
  BY <1>3, UnitIsWorth
<1> QED BY <1>4 DEF Work, PerUnit

\* The rank by where the round is.
LEMMA RankAt ==
  /\ pc = "open" => RoundRank = Size * PerUnit + 9
  /\ pc = "version" => RoundRank = Size * PerUnit + 8
  /\ pc = "check" => RoundRank = Size * PerUnit + 7
  /\ pc = "start" => RoundRank = Size * PerUnit + 6
  /\ pc = "progress" => RoundRank = Work + 6
  /\ pc = "loop" => RoundRank = Work + 5
  /\ pc = "range" => RoundRank = Work + 4 - retry
  /\ pc = "write" => RoundRank = Work + 4 - Retry
  /\ pc = "verify" => RoundRank = 4
  /\ pc = "status100" => RoundRank = 3
  /\ pc = "status201" => RoundRank = 2
  /\ pc = "finish" /\ fw # "DONE" => RoundRank = 1
  /\ pc = "finish" /\ fw = "DONE" => RoundRank = 0
  /\ pc = "out" => RoundRank = 0
BY DEF RoundRank, Work

LEMMA RankAtNext ==
  /\ pc' = "version" => RoundRank' = Size * PerUnit + 8
  /\ pc' = "check" => RoundRank' = Size * PerUnit + 7
  /\ pc' = "start" => RoundRank' = Size * PerUnit + 6
  /\ pc' = "progress" => RoundRank' = Work' + 6
  /\ pc' = "loop" => RoundRank' = Work' + 5
  /\ pc' = "range" => RoundRank' = Work' + 4 - retry'
  /\ pc' = "write" => RoundRank' = Work' + 4 - Retry
  /\ pc' = "verify" => RoundRank' = 4
  /\ pc' = "status100" => RoundRank' = 3
  /\ pc' = "status201" => RoundRank' = 2
  /\ pc' = "finish" /\ fw' # "DONE" => RoundRank' = 1
  /\ pc' = "finish" /\ fw' = "DONE" => RoundRank' = 0
  /\ pc' = "out" => RoundRank' = 0
BY DEF RoundRank, Work, PerUnit

LEMMA RankIsPositive ==
  ASSUME TypeInv, BodyInv, pc # "out", ~(pc = "finish" /\ fw = "DONE")
  PROVE  RoundRank > 0
<1>1. /\ Work \in Nat /\ Size * PerUnit \in Nat /\ retry \in 0 .. Retry - 1
      /\ Len(hashed) < Size => Work >= PerUnit
  BY WorkIs DEF TypeInv, TypeOK
<1>2. Retry \in Nat \ {0} /\ PerUnit = Retry + 3
  BY ChannelAssumption DEF PerUnit
<1>3. pc \in Inside /\ (pc \in {"range", "write"} => Len(hashed) < Size)
  BY DEF TypeInv, TypeOK, BodyInv
<1> DEFINE all == Size * PerUnit
<1>4. all \in Nat /\ all = Size * PerUnit
  BY <1>1
<1> HIDE DEF all
<1>5. CASE pc \in {"open", "version", "check", "start"}
  BY <1>4, <1>5, RankAt
<1>6. CASE pc \in {"progress", "loop", "range", "write"}
  BY <1>1, <1>2, <1>3, <1>6, RankAt
<1>7. CASE pc \in {"verify", "status100", "status201", "finish"}
  BY <1>7, RankAt
<1> QED BY <1>3, <1>5, <1>6, <1>7 DEF Inside

LEMMA RankDrops ==
  ASSUME NEW w \in Nat, NEW v \in Nat, NEW r \in Nat, NEW p, p = r + 3, v + p <= w
  PROVE  v + 5 < w + 4 - r /\ v + 6 < w + 4 - r
OBVIOUS

LEMMA RoundAdvances ==
  ASSUME TypeInv, TypeInv', ExclusionInv, BodyInv, Round
  PROVE  RoundRank' < RoundRank
<1> USE ChannelAssumption, RankAt, RankAtNext
<1> DEFINE Whole0 == Size * PerUnit
<1>0. /\ Work \in Nat /\ Whole0 \in Nat /\ retry \in 0 .. Retry - 1
      /\ Len(hashed) < Size => Work >= PerUnit
  BY WorkIs DEF TypeInv, TypeOK
<1>1. Retry \in Nat \ {0} /\ PerUnit = Retry + 3
  BY DEF PerUnit
<1>2. hashed' = hashed => Work' = Work
  BY WorkKept
<1> HIDE DEF Whole0
<1>3. Whole0 = Size * PerUnit
  BY DEF Whole0
\* A step that leaves the round ends it.
<1>4. ASSUME pc' = "out", RoundRank > 0 PROVE RoundRank' < RoundRank
  BY <1>4
<1>5. CASE Open \/ Version \/ Check
  BY <1>0, <1>3, <1>5 DEF Open, Version, Check, Quit, Leave
<1>6. CASE Start
  <2>1. CASE pc' = "loop" /\ hashed' = <<>>
    <3>1. Work' = Whole0
      BY <2>1, <1>3 DEF Work, Left, PerUnit
    <3> QED BY <1>0, <1>3, <1>6, <2>1, <3>1 DEF Start
  <2> QED BY <1>0, <1>3, <1>6, <2>1 DEF Start, Quit, Leave
<1>7. CASE Loop
  BY <1>0, <1>2, <1>7 DEF Loop, GiveUp, Leave
<1>8. CASE Download
  <2>1. PICK ans, got : Attempt(ans, got)
    BY <1>8 DEF Download
  <2>2. pc = "range" /\ Work >= PerUnit
    BY <1>0, <1>8 DEF Download, TypeInv
  <2>3. CASE Take(got)
    BY <1>0, <1>1, <1>2, <2>2, <2>3 DEF Take
  <2>4. CASE retry' = retry + 1 /\ UNCHANGED <<pc, body, hashed, fwv>>
    BY <1>0, <1>1, <1>2, <2>2, <2>4
  <2>5. CASE GiveUp
    BY <1>0, <1>1, <2>2, <2>5 DEF GiveUp, Leave
  <2> QED BY <2>1, <2>3, <2>4, <2>5 DEF Attempt
<1>9. CASE Write
  <2>0. pc = "write" /\ Len(hashed) < Size /\ body \in Seq(Pieces) \ {<<>>}
    BY <1>9 DEF Write, BodyInv, TypeInv, TypeOK
  <2>1. CASE hashed' = hashed \o body /\ pc' \in {"loop", "progress"}
    <3>1. Work' \in Nat /\ Work' + PerUnit <= Work
      BY <2>0, <2>1, WorkShrinks
    <3>2. RoundRank = Work + 4 - Retry /\ RoundRank' \in {Work' + 5, Work' + 6}
      BY <2>0, <2>1
    <3> QED BY <1>0, <1>1, <3>1, <3>2, RankDrops
  <2>2. CASE GiveUp
    BY <1>0, <1>1, <2>0, <2>2 DEF GiveUp, Leave
  <2> QED BY <1>9, <2>1, <2>2 DEF Write
<1>10. CASE Progress
  BY <1>0, <1>2, <1>10 DEF Progress
<1>11. CASE Verify
  BY <1>11 DEF Verify, GiveUp, Leave
<1>12. CASE Report("status100", "status201") \/ Report("status201", "finish")
  BY <1>12 DEF Report
<1>13. CASE FinishOta
  BY <1>13 DEF FinishOta
<1> QED BY <1>5, <1>6, <1>7, <1>8, <1>9, <1>10, <1>11, <1>12, <1>13 DEF Round

\* Every step of a round brings it nearer to its end, whatever the server sends
\* and the flash does: RoundShrinks, the half of RoundEnds that holds in one step.
THEOREM RoundIsBounded == Spec => RoundShrinks
<1> DEFINE Inv == TypeInv /\ ExclusionInv /\ BodyInv
<1>1. Init => Inv
  BY TypeStart, ExclusionStart DEF Init, BodyInv
<1>2. Inv /\ [Next]_vars => Inv'
  BY TypeInductive, ExclusionInductive, BodyInductive
<1>3. ASSUME Inv, [Next]_vars
      PROVE  [pc # "out" => RoundRank' < RoundRank \/ (~Round /\ RoundRank' = RoundRank)]_vars
  <2> SUFFICES ASSUME pc # "out", vars' # vars
               PROVE  RoundRank' < RoundRank \/ (~Round /\ RoundRank' = RoundRank)
    OBVIOUS
  <2>1. CASE YmodemTask
    BY <1>3, <2>1 DEF YmodemTask, YmStart, YmWrite, YmCancel, YmFinish, WindowClose, ExclusionInv
  <2>2. CASE Round
    BY <1>2, <1>3, <2>2, RoundAdvances
  <2>3. CASE ConnChange
    <3>1. UNCHANGED <<pc, fw, retry, hashed>>
      BY <2>3 DEF ConnChange, fwv, ota
    <3>2. conn' # conn
      BY <1>3, <2>3 DEF ConnChange, TypeInv, TypeOK
    <3>3. ~Round
      BY <3>2 DEF Round, poll
    <3> QED BY <3>1, <3>3 DEF RoundRank, Left, PerUnit
  <2>4. CASE Reset
    <3>1. RoundRank' = 0
      BY <2>4, RankAtNext DEF Reset
    <3>2. CASE pc = "finish" /\ fw = "DONE"
      <4>1. ~Round
        BY <3>2 DEF Round, Open, Version, Check, Start, Loop, Download, Write, Progress, Verify,
           Report, FinishOta
      <4> QED BY <3>1, <3>2, <4>1, RankAt
    <3>3. CASE ~(pc = "finish" /\ fw = "DONE")
      BY <1>3, <3>1, <3>3, RankIsPositive
    <3> QED BY <3>2, <3>3
  <2> QED BY <1>3, <2>1, <2>2, <2>3, <2>4 DEF Next, OtaTask, PollStarts, PollPasses
<1> QED BY <1>1, <1>2, <1>3, PTL DEF Spec, RoundShrinks
====
