------------------------------- MODULE Ymodem -------------------------------
(***************************************************************************)
(* FwUpgrade/ymodem: the local upgrade channel. The device receives a       *)
(* firmware file from a standard Ymodem sender over a serial line that      *)
(* loses, damages and cuts frames, and hands the packets to fw_upgrade.     *)
(*                                                                          *)
(* A packet stands for its 128 or 1024 bytes; sizes are counted in packets, *)
(* and the flash behind FW_UPG_WriteData is modelled in FwUpgrade.          *)
(***************************************************************************)
EXTENDS Naturals, Sequences

CONSTANTS
  SeqMod,      \* values of the uint8_t sequence number (256 in the code)
  FilePackets, \* data packets in the file that the host sends
  MaxSize,     \* packets that fit the backup partition
  MaxErrors,   \* YM_MAX_ERRORS
  MaxTries,    \* bound: retransmissions of one frame by the host
  ReplyCap     \* bound: control characters under way to the host

ASSUME YmodemAssumption ==
  /\ SeqMod \in Nat \ {0, 1}
  /\ FilePackets \in Nat \ {0}
  /\ MaxSize \in Nat /\ FilePackets <= MaxSize
  /\ MaxErrors \in Nat /\ MaxTries \in Nat /\ ReplyCap \in Nat

VARIABLES
  expect_seq, file_done, eot_first, session_begin, errors, armed,   \* s_rcb
  eot2,        \* s_rcb.eot2_tick is not 0
  mid,         \* s_rcb.state is not YM_STATE_HEAD: inside a cut frame
  fw,          \* FW_UPG_GetState
  fw_size,     \* s_fwupg.fw_size, in packets
  stored,      \* the packets FW_UPG_WriteData took, in order
  toDev,       \* frames under way to the device
  toHost,      \* control characters under way to the host
  snd,         \* what the host is at
  blk,         \* the data packet the host is sending
  tries        \* how often the host has sent its current frame again

rcb == <<expect_seq, file_done, eot_first, session_begin, errors, armed, eot2, mid>>
fwv == <<fw, fw_size, stored>>
host == <<snd, blk, tries>>
vars == <<rcb, fwv, toDev, toHost, host>>

ACK == "ACK"
NAK == "NAK"
CAN == "CAN CAN"
CRC_REQ == "C"

Head0 == [kind |-> "head", seq |-> 0]
End0 == [kind |-> "end", seq |-> 0]
Data(k) == [kind |-> "data", seq |-> k % SeqMod, pkt |-> k]
Eot == [kind |-> "eot"]
Can == [kind |-> "can"]
UserA == [kind |-> "A"]
Packets == {Head0, End0} \cup {Data(k) : k \in 1 .. FilePackets}
Frames == Packets \cup {Eot, Can, UserA}

TypeOK ==
  /\ expect_seq \in 0 .. SeqMod - 1 /\ errors \in 0 .. MaxErrors + 1
  /\ {file_done, eot_first, session_begin, armed, eot2, mid} \subseteq BOOLEAN
  /\ fw \in {"IDLE", "RECVING", "DONE"} /\ fw_size \in 0 .. MaxSize
  /\ stored \in Seq(1 .. FilePackets) /\ Len(stored) <= fw_size
  /\ toDev \in Seq(Frames) /\ toHost \in Seq({ACK, NAK, CAN, CRC_REQ})
  /\ snd \in {"off", "head", "headC", "data", "eot", "endC", "end", "done", "failed"}
  /\ blk \in 0 .. FilePackets /\ tries \in 0 .. MaxTries

-----------------------------------------------------------------------------
(* The channel and its window.                                              *)

\* FW_UPG_YM_SendByte: what the host's side of the line cannot hold is lost.
Reply(bytes) ==
  toHost' = LET all == toHost \o bytes
            IN  SubSeq(all, 1, IF Len(all) < ReplyCap THEN Len(all) ELSE ReplyCap)

\* FW_UPG_YM_Init: reset the control block; ymodem_arm opens the window unless
\* an update goes on.
YmInit ==
  /\ expect_seq' = 0 /\ file_done' = FALSE /\ eot_first' = TRUE
  /\ session_begin' = FALSE /\ errors' = 0 /\ eot2' = FALSE /\ mid' = FALSE
  /\ armed' = (fw' = "IDLE")

StopUpdate == fw' = "IDLE" /\ fw_size' = 0 /\ stored' = <<>>

\* An end of the session that the host is told of: two CANs.
Cancel == StopUpdate /\ YmInit

Init ==
  /\ expect_seq = 0 /\ file_done = FALSE /\ eot_first = TRUE /\ session_begin = FALSE
  /\ errors = 0 /\ armed = TRUE /\ eot2 = FALSE /\ mid = FALSE
  /\ fw = "IDLE" /\ fw_size = 0 /\ stored = <<>>
  /\ toDev = <<>> /\ toHost = <<>>
  /\ snd = "off" /\ blk = 0 /\ tries = 0

\* ymodem_send_poll: the handshake is repeated until a head packet comes. Its count
\* is not tied to the window: the last ones may leave behind it.
Handshake ==
  /\ fw = "IDLE" /\ toHost = <<>>
  /\ Reply(<<CRC_REQ>>)
  /\ UNCHANGED <<rcb, fwv, toDev, host>>

\* Mutant of Finish: a file that is not complete is installed.
FinishAny ==
  /\ fw = "RECVING"
  /\ fw' = "DONE"
  /\ UNCHANGED <<fw_size, stored, rcb>>

\* FW_UPG_Finish: the size is compared; what the flash does may still fail.
Finish ==
  \/ /\ fw = "RECVING" /\ Len(stored) = fw_size
     /\ fw' = "DONE"
     /\ UNCHANGED <<fw_size, stored, rcb>>
  \/ StopUpdate /\ YmInit

-----------------------------------------------------------------------------
(* ymodem_packet_done and what it calls, for one whole packet f.             *)

\* The code counts on beyond the limit until the poll looks; the model stops one
\* above it.
CountError == errors' = IF session_begin /\ errors <= MaxErrors THEN errors + 1 ELSE errors

\* A packet whose CRC16 or inverted sequence number is wrong.
BadPacket ==
  /\ Reply(<<NAK>>)
  /\ CountError
  /\ UNCHANGED <<expect_seq, file_done, eot_first, session_begin, armed, eot2, fwv>>

\* ymodem_head_packet, with done for file_done and errs for errors afterwards.
EndPacket ==
  /\ Reply(<<ACK, CAN>>)
  /\ Finish

HeadPacket(size, done, errs) ==
  \/ /\ size \in 1 .. MaxSize
     /\ Reply(<<ACK, CRC_REQ>>)
     /\ fw' = "RECVING" /\ fw_size' = size /\ stored' = <<>>
     /\ expect_seq' = 1 /\ session_begin' = TRUE
     /\ file_done' = done /\ errors' = errs
     /\ UNCHANGED <<eot_first, armed, eot2, mid>>
  \/ /\ size \notin 1 .. MaxSize
     /\ Reply(<<ACK, CAN>>)
     /\ Cancel

HeadNameTooLong(errs) ==
  /\ Reply(<<NAK>>)
  /\ errors' = errs
  /\ UNCHANGED <<expect_seq, file_done, eot_first, session_begin, armed, eot2, mid, fwv>>

\* What a packet says when it is read as a head packet: a data packet has any
\* bytes where the name and the size are looked for.
ReadAsHead(f, done, errs) ==
  \/ f.kind = "end" /\ EndPacket
  \/ f.kind = "head" /\ HeadPacket(FilePackets, done, errs)
  \/ /\ f.kind = "data"
     /\ \/ EndPacket
        \/ HeadNameTooLong(errs)
        \/ \E size \in 0 .. MaxSize + 1 : HeadPacket(size, done, errs)

\* Mutant of DataPacket: the expected number is wider than the number sent.
DataPacketWideSeq(f) ==
  \/ /\ fw = "RECVING" /\ Len(stored) < fw_size
     /\ Reply(<<ACK>>)
     /\ stored' = Append(stored, f.pkt)
     /\ expect_seq' = expect_seq + 1
     /\ errors' = 0
     /\ file_done' = (file_done \/ Len(stored') >= fw_size)
     /\ UNCHANGED <<eot_first, session_begin, armed, eot2, mid, fw, fw_size>>
  \/ Reply(<<CAN>>) /\ Cancel

\* ymodem_data_packet: FW_UPG_WriteData, then the ACK.
DataPacket(f) ==
  \/ /\ fw = "RECVING" /\ Len(stored) < fw_size
     /\ Reply(<<ACK>>)
     /\ stored' = Append(stored, f.pkt)
     /\ expect_seq' = (expect_seq + 1) % SeqMod
     /\ errors' = 0
     /\ file_done' = (file_done \/ Len(stored') >= fw_size)
     /\ UNCHANGED <<eot_first, session_begin, armed, eot2, mid, fw, fw_size>>
  \/ Reply(<<CAN>>) /\ Cancel

Duplicate(f) == f.seq = (expect_seq + SeqMod - 1) % SeqMod
AfterFile(f) == file_done /\ f.seq = 0

\* Mutant of GoodPacket: a packet that is sent again is written again.
GoodPacketNoDup(f) ==
  \/ AfterFile(f) /\ ReadAsHead(f, file_done, errors)
  \/ ~AfterFile(f) /\ f.seq = 0 /\ f.seq = expect_seq /\ ReadAsHead(f, file_done, 0)
  \/ ~AfterFile(f) /\ f.seq # 0 /\ (f.seq = expect_seq \/ Duplicate(f)) /\ DataPacket(f)

GoodPacket(f) ==
  \/ AfterFile(f) /\ ReadAsHead(f, file_done, errors)
  \/ /\ ~AfterFile(f) /\ Duplicate(f)
     /\ Reply(<<ACK>>)
     /\ UNCHANGED <<rcb, fwv>>
  \/ /\ ~AfterFile(f) /\ ~Duplicate(f) /\ f.seq # expect_seq
     /\ BadPacket /\ UNCHANGED mid
  \/ /\ ~AfterFile(f) /\ f.seq = expect_seq
     /\ IF f.seq = 0 THEN ReadAsHead(f, file_done, 0) ELSE DataPacket(f)

-----------------------------------------------------------------------------
(* ymodem_recv_byte over the bytes of one frame.                            *)

OnEot ==
  \/ /\ ~file_done
     /\ UNCHANGED <<rcb, fwv, toHost>>
  \/ /\ file_done /\ eot_first
     /\ eot_first' = FALSE /\ Reply(<<NAK>>)
     /\ UNCHANGED <<expect_seq, file_done, session_begin, errors, armed, eot2, mid, fwv>>
  \/ /\ file_done /\ ~eot_first
     /\ eot2' = TRUE /\ Reply(<<ACK, CRC_REQ>>)
     /\ UNCHANGED <<expect_seq, file_done, eot_first, session_begin, errors, armed, mid, fwv>>

OnCan == Cancel /\ UNCHANGED toHost
AbortSession == Cancel /\ Reply(<<CAN>>)

\* All of the frame came, as it was sent.
Intact(f) ==
  /\ ~mid
  /\ \/ f \in Packets /\ GoodPacket(f)
     \/ f = Eot /\ OnEot
     \/ f = Can /\ OnCan
     \/ f = UserA /\ AbortSession

\* Frames with bytes of any value in them: those of the file and those of its name.
HasPayload(f) == f.kind \in {"head", "data"}

\* A bad packet and, in what is left of the frame that ended it, an EOT.
BadPacketThenEot ==
  /\ file_done
  /\ \/ eot_first /\ Reply(<<NAK, NAK>>) /\ eot_first' = FALSE /\ UNCHANGED eot2
     \/ ~eot_first /\ Reply(<<NAK, ACK, CRC_REQ>>) /\ eot2' = TRUE /\ UNCHANGED eot_first
  /\ CountError /\ mid' = FALSE
  /\ UNCHANGED <<expect_seq, file_done, session_begin, armed, fwv>>

\* The bytes of the frame, of which some may be lost, go into a packet that was cut
\* before: they disappear in it, or end it as a bad packet. What is left of them is
\* read as a head again: it may begin a packet, end the session or be an EOT.
EndsCutPacket(f) ==
  /\ mid
  /\ \/ UNCHANGED <<rcb, fwv, toHost>>
     \/ BadPacket /\ mid' \in {FALSE, HasPayload(f)}
     \/ HasPayload(f) /\ Cancel /\ (Reply(<<NAK>>) \/ Reply(<<NAK, CAN>>))
     \/ HasPayload(f) /\ BadPacketThenEot

\* Damage: nothing that the receiver knows as a start, a wrong check sum, a
\* packet without its last bytes, or a payload whose bytes are taken for
\* control characters because the start of the packet is missing.
Damaged(f) ==
  /\ ~mid
  /\ \/ UNCHANGED <<rcb, fwv, toHost>>
     \/ f \in Packets /\ BadPacket /\ UNCHANGED mid
     \/ f \in Packets /\ mid' = TRUE
        /\ UNCHANGED <<expect_seq, file_done, eot_first, session_begin, errors, armed,
                       eot2, fwv, toHost>>
     \/ HasPayload(f) /\ (OnEot \/ OnCan \/ AbortSession)

Receive ==
  /\ armed /\ fw # "DONE" /\ toDev # <<>>
  /\ LET f == Head(toDev) IN Intact(f) \/ EndsCutPacket(f) \/ Damaged(f)
  /\ toDev' = Tail(toDev)
  /\ UNCHANGED host

\* Out of the window the bytes are only taken out of the ring buffer.
Drain ==
  /\ ~armed /\ toDev # <<>>
  /\ toDev' = Tail(toDev)
  /\ UNCHANGED <<rcb, fwv, toHost, host>>

-----------------------------------------------------------------------------
(* The time limits in ymodem_scan_poll. A silence is a line with no frame.   *)

\* Mutant of WindowClose: also while a file is being received.
WindowCloseAlways ==
  /\ armed /\ fw # "DONE"
  /\ armed' = FALSE
  /\ UNCHANGED <<expect_seq, file_done, eot_first, session_begin, errors, eot2, mid>>
  /\ UNCHANGED <<fwv, toDev, toHost, host>>

WindowClose ==
  /\ armed /\ fw = "IDLE"
  /\ armed' = FALSE
  /\ UNCHANGED <<expect_seq, file_done, eot_first, session_begin, errors, eot2, mid>>
  /\ UNCHANGED <<fwv, toDev, toHost, host>>

EndPacketMissing ==
  /\ armed /\ fw = "RECVING" /\ toDev = <<>>
  /\ file_done /\ eot2 /\ ~mid
  /\ Finish
  /\ UNCHANGED <<toDev, toHost, host>>

\* Mutant of RxTimeout: only between two packets.
RxTimeoutAtHead ==
  /\ armed /\ fw = "RECVING" /\ toDev = <<>> /\ ~mid
  /\ Cancel /\ Reply(<<CAN>>)
  /\ UNCHANGED <<toDev, host>>

RxTimeout ==
  /\ armed /\ fw = "RECVING" /\ toDev = <<>>
  /\ Cancel /\ Reply(<<CAN>>)
  /\ UNCHANGED <<toDev, host>>

SessionFail ==
  /\ armed /\ fw = "RECVING" /\ session_begin /\ errors > MaxErrors
  /\ Cancel /\ Reply(<<CAN>>)
  /\ UNCHANGED <<toDev, host>>

\* NVIC_SystemReset at the end of FW_UPG_Finish, the reset button or a power
\* cut: main opens the window anew.
Reset ==
  /\ StopUpdate /\ YmInit
  /\ toDev' = <<>>
  /\ UNCHANGED <<toHost, host>>

Poll == Receive \/ Drain \/ WindowClose \/ EndPacketMissing \/ RxTimeout \/ SessionFail

-----------------------------------------------------------------------------
(* The host: a standard Ymodem sender, which is not part of the repository. *)

Frame ==
  CASE snd = "head" -> Head0
    [] snd = "data" -> Data(blk)
    [] snd = "eot" -> Eot
    [] OTHER -> End0

Sending == snd \in {"head", "data", "eot", "end"}
Send(f) == toDev = <<>> /\ toDev' = <<f>>

\* Move on to the next frame, if there is one to send in that phase.
GoTo(phase, k, f) ==
  /\ Send(f)
  /\ snd' = phase /\ blk' = k /\ tries' = 0

WaitFor(phase) ==
  /\ snd' = phase /\ tries' = 0
  /\ UNCHANGED <<blk, toDev>>

Again ==
  /\ Sending /\ tries < MaxTries
  /\ Send(Frame)
  /\ tries' = tries + 1
  /\ UNCHANGED <<snd, blk>>

OnReply(b) ==
  \/ snd = "off" /\ b = CRC_REQ /\ GoTo("head", 0, Head0)
  \/ snd = "head" /\ b = ACK /\ WaitFor("headC")
  \/ snd = "headC" /\ b = CRC_REQ /\ GoTo("data", 1, Data(1))
  \/ snd = "data" /\ b = ACK /\ blk < FilePackets /\ GoTo("data", blk + 1, Data(blk + 1))
  \/ snd = "data" /\ b = ACK /\ blk = FilePackets /\ GoTo("eot", blk, Eot)
  \/ snd = "eot" /\ b = ACK /\ WaitFor("endC")
  \/ snd = "endC" /\ b = CRC_REQ /\ GoTo("end", blk, End0)
  \/ snd = "end" /\ b = ACK /\ WaitFor("done")
  \/ b = NAK /\ Again
  \/ b = CAN /\ snd \notin {"off", "done"} /\ WaitFor("failed")

\* The host reads a control character, acts on it or passes over it.
HostReads ==
  /\ toHost # <<>>
  /\ toHost' = Tail(toHost)
  /\ OnReply(Head(toHost)) \/ UNCHANGED <<toDev, host>>
  /\ UNCHANGED <<rcb, fwv>>

HostTimeout ==
  /\ Again
  /\ UNCHANGED <<toHost, rcb, fwv>>

\* The host gives up with two CANs, or its user types an A.
HostCancels ==
  /\ snd \notin {"off", "done", "failed"}
  /\ Send(Can) \/ Send(UserA)
  /\ snd' = "failed" /\ tries' = 0
  /\ UNCHANGED <<blk, toHost, rcb, fwv>>

\* The program on the host ends, whatever it was at, and is started again.
HostRestarts ==
  /\ snd # "off"
  /\ snd' = "off" /\ blk' = 0 /\ tries' = 0
  /\ UNCHANGED <<toDev, toHost, rcb, fwv>>

HostStep == HostReads \/ HostTimeout \/ HostCancels \/ HostRestarts

Next == Poll \/ Handshake \/ Reset \/ HostStep

\* Ymodem_Task has the highest priority and polls every millisecond.
Fairness == WF_vars(Poll) /\ WF_vars(RxTimeout) /\ WF_vars(WindowClose)

Spec == Init /\ [][Next]_vars
FairSpec == Spec /\ Fairness

-----------------------------------------------------------------------------

\* However frames are lost, damaged, repeated or sent into a later session, the
\* device writes the packets of the file in order, each once.
StoredInOrder == stored = [k \in 1 .. Len(stored) |-> k]

\* Only a file that is there as a whole is installed.
DoneIsWholeFile == fw = "DONE" => Len(stored) = FilePackets

\* An update that the channel started stays under its time limits, and OTA, which
\* asks FW_UPG_YM_IsArmed, stays out of it.
ReceivingIsArmed == fw = "RECVING" => armed

\* A closed window stays closed until the device is reset, and what comes over the
\* line meanwhile does nothing: what OTA builds on after its look at the window.
OnlyResetOpens == [][~armed => Reset \/ (~armed' /\ fw' = fw)]_vars

\* What FW_UPG_WriteData and FW_UPG_Finish ask of a transport holds for every frame
\* that may come: fw_upgrade.c shows the same to the channels.
Control == INSTANCE UpgradeControl WITH size <- fw_size, taken <- Len(stored)
ImplementsUpgradeControl == Control!Spec

\* What OTA builds on: Ymodem touches the upgrade control in its window only, and
\* closes it for good when no file is being received.
Window == INSTANCE LocalWindow
ImplementsLocalWindow == Window!AloneSpec

\* When the host falls silent the channel ends: the update is installed or given
\* up, and the window, if it stays silent, is closed for good.
SilenceEndsSession ==
  <>[][~HostStep /\ ~(Reset /\ fw # "DONE")]_vars => []<>(~armed \/ fw = "DONE")

\* ymodem_recv.c:16: only packet 0 is a head packet; the others are data.
OnlyHeadStarts ==
  [][fw_size' # fw_size /\ fw' = "RECVING" => Head(toDev).kind = "head"]_vars
=============================================================================
