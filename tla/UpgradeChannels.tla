-------------------------- MODULE UpgradeChannels --------------------------
(***************************************************************************)
(* Components/ota/ota_mmi.c and the local channel over one upgrade control.   *)
(*                                                                          *)
(* OTA_Task downloads a firmware file in ranges over one HTTP connection.     *)
(* TCP keeps the order of the answers, but an answer may come after its       *)
(* request has timed out; nothing in it says which request it belongs to.     *)
(* Ymodem_Task has a higher priority and comes between any two steps; it is    *)
(* here as LocalWindow and UpgradeControl show it: what it does to the upgrade  *)
(* control, and its window.                                                  *)
(*                                                                          *)
(* Lengths are counted in units of one or more bytes. stored is what           *)
(* FW_UPG_WriteData accepted: FwUpgrade shows how it gets into the flash, and   *)
(* when its tail does not. The flash is one that rejects a word at a misaligned *)
(* address (~TakesMisaligned).                                               *)
(***************************************************************************)
EXTENDS Naturals, Sequences

CONSTANTS
  Size,        \* length of the file of the upgrade task
  Word,        \* length of a word of the flash: 4 bytes
  MaxBody,     \* longest body that is taken for a range: chunk_size + 512 bytes
  Retry,       \* APP_OTA_RETRY
  StreamCap    \* bound: answers under way on the connection

ASSUME ChannelAssumption ==
  /\ {Size, Word, MaxBody, Retry} \subseteq Nat \ {0}
  /\ StreamCap \in Nat

VARIABLES
  fw, stored,   \* s_fwupg: its state, and what was taken; recv_size is its length
  owner,        \* the channel that started the update: history, read by nobody
  armed,        \* s_rcb.armed
  conn,         \* mqtt_is_connected
  last_conn,    \* last_conn of OTA_Task
  pc,           \* OTA_Task: out of ota_task_proc, or where in it
  retry,        \* retry of the chunk
  body,         \* the body in resp_buf that is to be written
  hashed,       \* what MD5_Update was given; recv_size is its length
  stream        \* answers under way on the connection

fwv == <<fw, stored, owner>>
poll == <<conn, last_conn>>
ota == <<pc, retry, body, hashed, stream>>
vars == <<fwv, armed, poll, ota>>

File == [k \in 1 .. Size |-> k]

\* Any byte that is not the file's where it stands: of a text, of an error, of
\* another place, of Ymodem.
Foreign == 0
Pieces == 0 .. Size
Noise(l) == [j \in 1 .. l |-> Foreign]

\* The file from unit k on; what a body holds behind the file's end is foreign.
Piece(k, l) == [j \in 1 .. l |-> IF k + j - 1 <= Size THEN k + j - 1 ELSE Foreign]

\* The lengths that OtaHttpTransaction takes; none of them is compared with the
\* range that was asked for. A body that is empty stands for a head that it does
\* not take.
Lengths == 1 .. MaxBody
NoBody == <<>>
Noises == {Noise(l) : l \in Lengths}

\* An answer: is there a 206 in its head, and its body. A server may answer a range
\* that starts at unit k with less or more than was asked, or with something else.
Answers == [ok : BOOLEAN, body : Seq(Pieces)]
RangeAnswers(k) ==
  [ok : BOOLEAN, body : {NoBody} \cup Noises \cup {Piece(k, l) : l \in Lengths}]
Texts == [ok : {FALSE}, body : {NoBody} \cup Noises]
NoAnswer == [ok |-> FALSE, body |-> NoBody]

Inside == {"open", "version", "check", "start", "loop", "range", "write",
           "progress", "verify", "status100", "status201", "finish"}

\* Between FW_UPG_StartUpdate and FW_UPG_StopUpdate or FW_UPG_Finish.
OtaHolds == pc \in Inside \ {"open", "version", "check", "start"}

TypeOK ==
  /\ fw \in {"IDLE", "RECVING", "DONE"}
  /\ stored \in Seq(Pieces) /\ Len(stored) <= Size
  /\ owner \in {"none", "ota", "ym"} /\ {armed, conn, last_conn} \subseteq BOOLEAN
  /\ pc \in Inside \cup {"out"} /\ retry \in 0 .. Retry - 1
  /\ body \in Seq(Pieces) /\ hashed \in Seq(Pieces)
  /\ stream \in Seq(Answers) /\ Len(stream) <= StreamCap

Init ==
  /\ fw = "IDLE" /\ stored = <<>> /\ owner = "none" /\ armed = TRUE
  /\ conn = FALSE /\ last_conn = FALSE
  /\ pc = "out" /\ retry = 0 /\ body = <<>> /\ hashed = <<>> /\ stream = <<>>

-----------------------------------------------------------------------------
(* The upgrade control.                                                     *)

StartUpdate(who) == fw' = "RECVING" /\ stored' = <<>> /\ owner' = who
StopUpdate == fw' = "IDLE" /\ stored' = <<>> /\ owner' = "none"

\* What goes beyond the size is cut off.
Cut(s) == SubSeq(s, 1, IF Len(s) < Size THEN Len(s) ELSE Size)

\* Mutant of WriteData: padding is written like data.
WriteDataUncut(data) ==
  /\ fw = "RECVING" /\ Len(stored) < Size
  /\ stored' = stored \o data
  /\ UNCHANGED <<fw, owner>>

\* FW_UPG_WriteData. With bytes in wbuf from the call before it succeeds only if no
\* word gets full: it would be written at recv_size, where no word begins.
WriteData(data) ==
  /\ fw = "RECVING" /\ Len(stored) < Size
  /\ stored' = Cut(stored \o data)
  /\ Len(stored) % Word = 0 \/ Len(stored') \div Word = Len(stored) \div Word
  /\ UNCHANGED <<fw, owner>>

\* FW_UPG_Finish compares the size; what the flash does may fail.
Finish ==
  \/ fw = "RECVING" /\ Len(stored) = Size /\ fw' = "DONE" /\ UNCHANGED <<stored, owner>>
  \/ StopUpdate

-----------------------------------------------------------------------------
(* Ymodem_Task.                                                             *)

YmStart == armed /\ fw # "DONE" /\ StartUpdate("ym") /\ UNCHANGED armed
\* Packets are whole words.
YmWrite == armed /\ (\E n \in 1 .. Size : WriteData(Noise(n * Word))) /\ UNCHANGED armed
YmCancel == armed /\ fw # "DONE" /\ StopUpdate /\ UNCHANGED armed
YmFinish == armed /\ fw = "RECVING" /\ Finish /\ UNCHANGED armed
WindowClose == armed /\ fw = "IDLE" /\ armed' = FALSE /\ UNCHANGED fwv

YmodemTask ==
  /\ YmStart \/ YmWrite \/ YmCancel \/ YmFinish \/ WindowClose
  /\ UNCHANGED <<poll, ota>>

-----------------------------------------------------------------------------
(* OTA_Task and the connection.                                             *)

ConnChange == conn' = ~conn /\ UNCHANGED <<fwv, armed, last_conn, ota>>

\* Mutant of PollStarts: the window is forgotten.
PollStartsArmed ==
  /\ pc = "out" /\ conn /\ ~last_conn
  /\ fw = "IDLE"
  /\ pc' = "open" /\ last_conn' = TRUE
  /\ UNCHANGED <<fwv, armed, conn, retry, body, hashed, stream>>

\* MQTT came up since the last poll, and no channel is at work: a round begins.
PollStarts ==
  /\ pc = "out" /\ conn /\ ~last_conn
  /\ ~armed /\ fw = "IDLE"
  /\ pc' = "open" /\ last_conn' = TRUE
  /\ UNCHANGED <<fwv, armed, conn, retry, body, hashed, stream>>

\* Nothing to do, or a round that is skipped: it is not made up for.
PollPasses ==
  /\ pc = "out" /\ last_conn # conn
  /\ conn => armed \/ fw # "IDLE"
  /\ last_conn' = conn
  /\ UNCHANGED <<fwv, armed, conn, ota>>

\* ota_fail and ota_done: close the connection, OtaReset.
Leave == pc' = "out" /\ retry' = 0 /\ body' = NoBody /\ hashed' = <<>> /\ stream' = <<>>
Quit == Leave /\ UNCHANGED fwv
GiveUp == Leave /\ StopUpdate

Open ==
  /\ pc = "open"
  /\ \/ pc' = "version" /\ UNCHANGED <<retry, body, hashed, stream, fwv>>
     \/ Quit

\* recv fills the buffer with what has come: behind the answer it wants, parts of
\* the next ones may be in it, and are lost with it. What is left of an answer has
\* no head that counts, no 206, or a body that is not what it was.
Garbled(a) ==
  {NoAnswer, [a EXCEPT !.ok = FALSE]} \cup {[a EXCEPT !.body = b] : b \in Noises}
Leftovers(s) ==
  LET rests == {SubSeq(s, j, Len(s)) : j \in 1 .. Len(s) + 1}
  IN  rests \cup UNION {{<<g>> \o Tail(r) : g \in Garbled(Head(r))} : r \in rests \ {<<>>}}

\* OtaHttpTransaction for a request that the server answers with ans, or not at
\* all. When the time is up a part of what came has been read; the rest, and the
\* answer, may still come.
Exchange(ans, got) ==
  \/ /\ got = NoAnswer
     /\ stream' \in Leftovers(stream) \cup Leftovers(Append(stream, ans))
     /\ Len(stream') <= StreamCap
  \/ LET s == Append(stream, ans)
     IN  got = Head(s) /\ stream' \in Leftovers(Tail(s))

Got(ans) == {NoAnswer, Head(Append(stream, ans))}

\* Mutant of Whole: an answer may be empty.
WholeAny(got) == got \in Answers

Whole(got) == got.body # <<>>

Version ==
  /\ pc = "version"
  /\ \E ans \in Texts : \E got \in Got(ans) :
       \/ /\ Whole(got) /\ Exchange(ans, got)
          /\ pc' = "check" /\ UNCHANGED <<retry, body, hashed, fwv>>
       \/ ~Whole(got) /\ Quit

\* An upgrade task, none, or an answer that cannot be parsed.
Check ==
  /\ pc = "check"
  /\ \/ \E ans \in Texts : \E got \in Got(ans) :
          /\ Whole(got) /\ Exchange(ans, got)
          /\ pc' = "start" /\ UNCHANGED <<retry, body, hashed, fwv>>
     \/ Quit

\* FW_UPG_StartUpdate looks at the size only, not at its own state.
Start ==
  /\ pc = "start"
  /\ \/ /\ StartUpdate("ota")
        /\ pc' = "loop" /\ hashed' = <<>> /\ UNCHANGED <<retry, body, stream>>
     \/ Quit

-----------------------------------------------------------------------------
(* The download.                                                            *)

\* While something is missing: the window is open, or the request does not fit its
\* buffer; or the next range is asked for.
Loop ==
  /\ pc = "loop"
  /\ \/ Len(hashed) < Size /\ GiveUp
     \/ Len(hashed) < Size /\ ~armed
        /\ pc' = "range" /\ retry' = 0 /\ UNCHANGED <<body, hashed, stream, fwv>>
     \/ Len(hashed) >= Size
        /\ pc' = "verify" /\ UNCHANGED <<retry, body, hashed, stream, fwv>>

Take(got) ==
  /\ pc' = "write" /\ body' = got.body
  /\ retry' = 0 /\ UNCHANGED <<hashed, fwv>>

\* Mutants of Attempt: no end to the retries; a chunk that did not come leaves the
\* update as it is.
AttemptForEver(ans, got) ==
  \/ got.ok /\ Whole(got) /\ Exchange(ans, got) /\ Take(got)
  \/ ~(got.ok /\ Whole(got)) /\ Exchange(ans, got) /\ UNCHANGED <<pc, retry, body, hashed, fwv>>

AttemptQuits(ans, got) ==
  \/ got.ok /\ Whole(got) /\ Exchange(ans, got) /\ Take(got)
  \/ /\ ~(got.ok /\ Whole(got)) /\ retry < Retry - 1
     /\ Exchange(ans, got)
     /\ retry' = retry + 1 /\ UNCHANGED <<pc, body, hashed, fwv>>
  \/ ~(got.ok /\ Whole(got)) /\ retry = Retry - 1 /\ Quit

\* A 206 ends the retries. After the last one any whole answer is taken.
Attempt(ans, got) ==
  \/ got.ok /\ Whole(got) /\ Exchange(ans, got) /\ Take(got)
  \/ /\ ~(got.ok /\ Whole(got)) /\ retry < Retry - 1
     /\ Exchange(ans, got)
     /\ retry' = retry + 1 /\ UNCHANGED <<pc, body, hashed, fwv>>
  \/ ~got.ok /\ Whole(got) /\ retry = Retry - 1 /\ Exchange(ans, got) /\ Take(got)
  \/ ~Whole(got) /\ retry = Retry - 1 /\ GiveUp

Download ==
  /\ pc = "range"
  /\ \E ans \in RangeAnswers(Len(hashed) + 1) : \E got \in Got(ans) : Attempt(ans, got)

\* FW_UPG_WriteData, then MD5_Update with all of the body; a write may fail.
Write ==
  /\ pc = "write"
  /\ \/ /\ WriteData(body)
        /\ hashed' = hashed \o body
        /\ pc' \in {"loop", "progress"}
        /\ body' = NoBody /\ UNCHANGED <<retry, stream>>
     \/ GiveUp

Progress ==
  /\ pc = "progress"
  /\ \E ans \in Texts : \E got \in Got(ans) : Exchange(ans, got)
  /\ pc' = "loop" /\ UNCHANGED <<retry, body, hashed, fwv>>

\* Mutant of Verify: the sum of what came is compared over the file's size only.
VerifySize ==
  /\ pc = "verify"
  /\ \/ /\ Len(hashed) = Size
        /\ pc' = "status100" /\ UNCHANGED <<retry, body, hashed, stream, fwv>>
     \/ Len(hashed) # Size /\ GiveUp

Verify ==
  /\ pc = "verify"
  /\ \/ /\ hashed = File
        /\ pc' = "status100" /\ UNCHANGED <<retry, body, hashed, stream, fwv>>
     \/ hashed # File /\ GiveUp

Report(from, to) ==
  /\ pc = from
  /\ \E ans \in Texts : \E got \in Got(ans) : Exchange(ans, got)
  /\ pc' = to /\ UNCHANGED <<retry, body, hashed, fwv>>

\* FW_UPG_Finish comes back only if it fails.
FinishOta ==
  /\ pc = "finish" /\ fw # "DONE"
  /\ Finish
  /\ pc' = IF fw' = "DONE" THEN "finish" ELSE "out"
  /\ stream' = <<>> /\ UNCHANGED <<retry, body, hashed>>

Round ==
  /\ \/ Open \/ Version \/ Check \/ Start \/ Loop \/ Download \/ Write \/ Progress
     \/ Verify \/ Report("status100", "status201") \/ Report("status201", "finish")
     \/ FinishOta
  /\ UNCHANGED <<armed, poll>>

OtaTask == PollStarts \/ PollPasses \/ Round

-----------------------------------------------------------------------------

\* NVIC_SystemReset, the reset button, or a power cut.
Reset ==
  /\ fw' = "IDLE" /\ stored' = <<>> /\ owner' = "none" /\ armed' = TRUE
  /\ conn' = FALSE /\ last_conn' = FALSE
  /\ pc' = "out" /\ retry' = 0 /\ body' = NoBody /\ hashed' = <<>> /\ stream' = <<>>

Next == YmodemTask \/ ConnChange \/ OtaTask \/ Reset

Spec == Init /\ [][Next]_vars

\* Every call of the socket interface ends: APP_OTA_TIMEOUT_MS.
FairSpec == Spec /\ WF_vars(Round) /\ WF_vars(fw = "DONE" /\ Reset)

-----------------------------------------------------------------------------

\* Two channels never work on one update: while OTA is between start and end, the
\* local window is closed and the update is OTA's own, though OTA looks at the
\* window long before it starts and FW_UPG_StartUpdate does not look at all.
OneWriter == OtaHolds => ~armed /\ (fw # "IDLE" => owner = "ota")

\* Late, wrong, long or foreign answers never become the new firmware, nor are
\* they reported as a success.
OnlyTheFile ==
  (fw = "DONE" /\ owner = "ota") \/ pc \in {"status100", "status201"} => stored = File

\* An update that is going on has a channel that will end it: left behind, it
\* would block both channels and every report to the cloud until the next reset.
NoOrphan == fw = "RECVING" => armed \/ OtaHolds

\* Both channels together still use one upgrade control: no late answer and no
\* channel's step adds to an update beyond its size or to one that is over.
Control ==
  INSTANCE UpgradeControl WITH size <- IF fw = "IDLE" THEN 0 ELSE Size, taken <- Len(stored)
ImplementsUpgradeControl == Control!Spec

\* Ymodem is here what it is in Ymodem, and OTA works behind a closed window only.
Window == INSTANCE LocalWindow
ImplementsLocalWindow == Window!Spec

\* How many steps a round has yet to do, at most: every unit that is missing may be
\* an answer of its own, and take all its attempts, a write, a report and the look at
\* the window.
Left == IF Len(hashed) < Size THEN Size - Len(hashed) ELSE 0
PerUnit == Retry + 3
RoundRank ==
  CASE pc = "open" -> Size * PerUnit + 9
    [] pc = "version" -> Size * PerUnit + 8
    [] pc = "check" -> Size * PerUnit + 7
    [] pc = "start" -> Size * PerUnit + 6
    [] pc = "progress" -> Left * PerUnit + 6
    [] pc = "loop" -> Left * PerUnit + 5
    [] pc = "range" -> Left * PerUnit + 4 - retry
    [] pc = "write" -> Left * PerUnit + 4 - Retry
    [] pc = "verify" -> 4
    [] pc = "status100" -> 3
    [] pc = "status201" -> 2
    [] pc = "finish" /\ fw # "DONE" -> 1
    [] OTHER -> 0

\* Every step of a round brings it nearer to its end, and nothing that comes between
\* takes it back, whatever the server sends and the flash does.
RoundShrinks ==
  [][pc # "out" => RoundRank' < RoundRank \/ (~Round /\ RoundRank' = RoundRank)]_vars

\* However the server behaves, a round comes to its end.
RoundEnds == pc # "out" ~> pc = "out"
=============================================================================
