----------------------------- MODULE UartRing ------------------------------
(***************************************************************************)
(* Platform/drv_uart/bsp_upgrade_usart.c: the ring buffer that the receive   *)
(* interrupt of UART3 fills and Ymodem_Task empties. The two share head, tail *)
(* and the buffer without a lock: the interrupt may come between any two      *)
(* accesses of the task, and runs to its end when it does.                   *)
(*                                                                          *)
(* The host either waits for the answer to each packet, as Ymodem wants, or  *)
(* sends what it likes (a person at a terminal, the wrong program).           *)
(***************************************************************************)
EXTENDS Integers

CONSTANTS
  Byte,        \* the values of a byte that the model tells apart
  Size,        \* UPGRADE_USART_RX_BUF_SIZE
  PacketLen    \* bytes of the longest Ymodem packet

ASSUME RingAssumption ==
  /\ Byte # {}
  /\ Size \in Nat \ {0, 1}
  /\ PacketLen \in 1 .. Size - 1

VARIABLES
  head,     \* s_rx_head, advanced by the interrupt
  tail,     \* s_rx_tail, advanced by the task
  buf,      \* s_rx_buf
  pc,       \* Ymodem_Task: asleep, or at a step of the loop in ymodem_scan_poll
  drain,    \* its snapshot of the number of bytes, counted down
  byte,     \* the byte that UPGRADE_USART_ReadChar has read
  given,    \* the byte that it returned last
  polite,   \* does the host wait for answers?
  left,     \* bytes of a polite host's packet that it has still to send
  unread,   \* and those it has sent that are not handed over
  drops     \* the number of bytes that the interrupt turned away, modulo 2

ring == <<head, tail, buf>>
task == <<pc, drain, byte, given>>
host == <<polite, left, unread>>
vars == <<ring, task, host, drops>>

Slots == 0 .. Size - 1

TypeOK ==
  /\ head \in Slots /\ tail \in Slots /\ buf \in [Slots -> Byte]
  /\ pc \in {"sleep", "read", "advance"} /\ drain \in Slots
  /\ byte \in Byte /\ given \in Byte
  /\ polite \in BOOLEAN /\ left \in 0 .. PacketLen /\ unread \in 0 .. PacketLen
  /\ drops \in {0, 1}

\* UPGRADE_USART_GetRecvBytes
GetRecvBytes == (head - tail + Size) % Size

Init ==
  /\ head = 0 /\ tail = 0 /\ buf \in [Slots -> Byte]
  /\ pc = "sleep" /\ drain = 0 /\ byte \in Byte /\ given = byte
  /\ polite \in BOOLEAN /\ left = 0 /\ unread = 0 /\ drops = 0

-----------------------------------------------------------------------------
(* The line and the interrupt.                                              *)

\* A polite host begins a packet once the device has taken the one before.
BeginPacket ==
  /\ polite /\ unread = 0 /\ left = 0
  /\ left' \in 1 .. PacketLen
  /\ UNCHANGED <<ring, task, polite, unread, drops>>

\* The byte in DR is the next of a packet, or comes as it likes.
FromHost ==
  \/ polite /\ left > 0 /\ left' = left - 1 /\ unread' = unread + 1 /\ UNCHANGED polite
  \/ ~polite /\ UNCHANGED host

Next1(i) == (i + 1) % Size

\* Mutants of IrqProcess: the ring is filled to its last slot and looks empty; one
\* slot more than necessary is kept free.
IrqProcessFills(b) ==
  /\ buf' = [buf EXCEPT ![head] = b] /\ head' = Next1(head)
  /\ FromHost
  /\ UNCHANGED <<tail, task, drops>>

IrqProcessKeepsTwo(b) ==
  /\ IF tail \notin {Next1(head), Next1(Next1(head))}
     THEN buf' = [buf EXCEPT ![head] = b] /\ head' = Next1(head) /\ UNCHANGED drops
     ELSE drops' = 1 - drops /\ UNCHANGED <<buf, head>>
  /\ FromHost
  /\ UNCHANGED <<tail, task>>

\* UPGRADE_USART_IrqProcess: a byte for which there is no slot is dropped.
IrqProcess(b) ==
  /\ \/ /\ Next1(head) # tail
        /\ buf' = [buf EXCEPT ![head] = b] /\ head' = Next1(head)
        /\ UNCHANGED drops
     \/ /\ Next1(head) = tail
        /\ drops' = 1 - drops
        /\ UNCHANGED <<buf, head>>
  /\ FromHost
  /\ UNCHANGED <<tail, task>>

Irq == \E b \in Byte : IrqProcess(b)

-----------------------------------------------------------------------------
(* ymodem_scan_poll: a snapshot of the count, then as many reads. The window    *)
(* decides what becomes of the bytes; both of its loops empty the ring alike.   *)

Snapshot ==
  /\ pc = "sleep"
  /\ drain' = GetRecvBytes
  /\ pc' = IF drain' = 0 THEN "sleep" ELSE "read"
  /\ UNCHANGED <<ring, byte, given, host, drops>>

\* UPGRADE_USART_ReadChar: -1 if there is no byte, else the byte is read...
ReadByte ==
  /\ pc = "read"
  /\ IF head = tail
     THEN /\ drain' = drain - 1
          /\ pc' = IF drain' = 0 THEN "sleep" ELSE "read"
          /\ UNCHANGED byte
     ELSE byte' = buf[tail] /\ pc' = "advance" /\ UNCHANGED drain
  /\ UNCHANGED <<ring, given, host, drops>>

\* Mutants of Advance: the loop runs until the ring is empty; tail runs past the
\* end of the buffer by one.
AdvanceUntilEmpty ==
  /\ pc = "advance"
  /\ tail' = Next1(tail) /\ given' = byte
  /\ unread' = IF polite THEN unread - 1 ELSE unread
  /\ drain' = GetRecvBytes - 1
  /\ pc' = IF drain' = 0 THEN "sleep" ELSE "read"
  /\ UNCHANGED <<head, buf, byte, polite, left, drops>>

AdvanceLate ==
  /\ pc = "advance"
  /\ tail' = IF tail = Size - 1 THEN Size ELSE Next1(tail)
  /\ given' = byte
  /\ unread' = IF polite THEN unread - 1 ELSE unread
  /\ drain' = drain - 1
  /\ pc' = IF drain' = 0 THEN "sleep" ELSE "read"
  /\ UNCHANGED <<head, buf, byte, polite, left, drops>>

\* ...and only then is its slot free for the interrupt.
Advance ==
  /\ pc = "advance"
  /\ tail' = Next1(tail) /\ given' = byte
  /\ unread' = IF polite THEN unread - 1 ELSE unread
  /\ drain' = drain - 1
  /\ pc' = IF drain' = 0 THEN "sleep" ELSE "read"
  /\ UNCHANGED <<head, buf, byte, polite, left, drops>>

Task == Snapshot \/ ReadByte \/ Advance

Next == BeginPacket \/ Irq \/ Task

Spec == Init /\ [][Next]_vars

\* Ymodem_Task has the highest priority and polls every millisecond.
FairSpec == Spec /\ WF_vars(Task)

-----------------------------------------------------------------------------

\* The snapshot never promises more than the ring holds, however often the
\* interrupt comes while the loop runs: ReadChar never finds the ring empty.
SnapshotHolds == pc # "sleep" => drain \in 1 .. GetRecvBytes

\* A host that waits for its answers loses no byte to a full ring, even if the
\* task is held up by a sector erase for the whole of a packet.
PoliteNeverLoses == polite => drops = 0

\* The ring, read without a lock, is a queue that loses only what does not fit.
Content == [i \in 1 .. GetRecvBytes |-> buf[(tail + i - 1) % Size]]
Fifo == INSTANCE BoundedFifo WITH queue <- Content, Cap <- Size - 1
ImplementsFifo == Fifo!Spec

\* ymodem_recv.c:399: a stream of bytes that never ends does not keep the task in
\* the loop, so that its time limits and the handshake go on.
LoopEnds == []<>(pc = "sleep")
=============================================================================
