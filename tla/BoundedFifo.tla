---------------------------- MODULE BoundedFifo ----------------------------
(***************************************************************************)
(* What the receive ring of the upgrade UART promises: a queue of at most    *)
(* Cap bytes between the interrupt and Ymodem_Task. Bytes come out in the     *)
(* order they went in, each once; a byte is turned away only when Cap bytes   *)
(* wait.                                                                    *)
(***************************************************************************)
EXTENDS Naturals, Sequences

CONSTANTS Byte, Cap

VARIABLES
  queue,   \* the bytes that wait
  given,   \* the byte that was handed over last
  drops    \* the number of bytes that were turned away, modulo 2

fifo == <<queue, given, drops>>

Init == queue = <<>> /\ given \in Byte /\ drops = 0

Put(b) == Len(queue) < Cap /\ queue' = Append(queue, b) /\ UNCHANGED <<given, drops>>
Drop == Len(queue) = Cap /\ drops' = 1 - drops /\ UNCHANGED <<queue, given>>
Get == queue # <<>> /\ given' = Head(queue) /\ queue' = Tail(queue) /\ UNCHANGED drops

Next == Get \/ Drop \/ \E b \in Byte : Put(b)

Spec == Init /\ [][Next]_fifo
=============================================================================
