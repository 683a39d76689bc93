------------------------------ MODULE FwUpgrade ------------------------------
(***************************************************************************)
(* FwUpgrade/fw_upgrade.c: the writer of the backup partition. Both         *)
(* transports (Ymodem and OTA) drive it through StartUpdate, WriteData,     *)
(* StopUpdate and Finish. Each flash operation is a step of its own, because*)
(* a power cut may fall between any two of them or in the middle of one.    *)
(*                                                                          *)
(* pc is "run" between two calls; the other values name the flash operation *)
(* that the call in progress performs next.                                 *)
(***************************************************************************)
EXTENDS NorFlash

CONSTANTS
  Chunks,   \* lengths in bytes of the pieces a transport hands to WriteData
  NoImage   \* no update context

ASSUME ChunkAssumption ==
  /\ Chunks \subseteq Nat \ {0}
  /\ NoImage \notin Images

VARIABLES
  state,      \* s_fwupg.state
  img,        \* the image of s_fwupg.fw_size and of the running crc32
  recv_size,  \* s_fwupg.recv_size
  wcnt,       \* s_fwupg.wcnt: bytes waiting in wbuf for a full word
  erased,     \* s_fwupg.erased_addr, as a word offset in backup
  len, rem,   \* WriteData: bytes accepted, bytes not yet moved to wbuf
  wr_offs     \* WriteData: byte offset of the next word to write

fwVars == <<state, img, recv_size, wcnt, erased, len, rem, wr_offs>>

States == {"IDLE", "RECVING", "DONE"}
WritingPcs == {"write", "tail", "flagErase", "flagMagic", "flagSize", "flagCrc"}
AppPcs == WritingPcs \cup {"run", "done"}

FwTypeOK ==
  /\ state \in States
  /\ img \in Images \cup {NoImage}
  /\ state # "IDLE" => img \in Installable
  /\ pc \in WritingPcs => state = "RECVING"
  /\ recv_size \in Nat /\ wcnt \in Nat /\ erased \in Nat
  /\ len \in Nat /\ rem \in Nat /\ wr_offs \in Nat

FwInit ==
  /\ state = "IDLE" /\ img = NoImage /\ recv_size = 0 /\ wcnt = 0
  /\ erased = 0 /\ len = 0 /\ rem = 0 /\ wr_offs = 0

\* fw_upg_reset: memset of the whole context.
Reset ==
  /\ state' = "IDLE" /\ img' = NoImage /\ recv_size' = 0 /\ wcnt' = 0
  /\ erased' = 0 /\ len' = 0 /\ rem' = 0 /\ wr_offs' = 0

\* The call in progress gives up, leaving the context as the given action says.
GiveUp(context) ==
  /\ pc' = "run"
  /\ context

-----------------------------------------------------------------------------
(* FW_UPG_StartUpdate and FW_UPG_StopUpdate                                 *)

\* Mutants of StartUpdate: the size is not checked; the progress of the
\* erase is that of the update before.
StartUpdateAnySize(i) ==
  /\ pc = "run"
  /\ state' = "RECVING" /\ img' = i /\ recv_size' = 0 /\ wcnt' = 0
  /\ erased' = 0
  /\ UNCHANGED <<pc, len, rem, wr_offs>> /\ UNCHANGED flashVars

StartUpdateKeepsErased(i) ==
  /\ pc = "run"
  /\ i \in Installable
  /\ state' = "RECVING" /\ img' = i /\ recv_size' = 0 /\ wcnt' = 0
  /\ UNCHANGED <<erased, pc, len, rem, wr_offs>> /\ UNCHANGED flashVars

\* There is no check of state: a start during an update restarts it.
StartUpdate(i) ==
  /\ pc = "run"
  /\ i \in Installable
  /\ state' = "RECVING" /\ img' = i /\ recv_size' = 0 /\ wcnt' = 0
  /\ erased' = 0
  /\ UNCHANGED <<pc, len, rem, wr_offs>> /\ UNCHANGED flashVars

StopUpdate ==
  /\ pc = "run"
  /\ Reset
  /\ UNCHANGED pc /\ UNCHANGED flashVars

-----------------------------------------------------------------------------
(* FW_UPG_WriteData                                                         *)

\* The padding of the last packet is cut off at the declared size.
WriteData(n) ==
  /\ pc = "run"
  /\ state = "RECVING"
  /\ recv_size < Size[img]
  /\ len' = IF recv_size + n > Size[img] THEN Size[img] - recv_size ELSE n
  /\ rem' = len'
  /\ wr_offs' = recv_size
  /\ pc' = "write"
  /\ UNCHANGED <<state, img, recv_size, wcnt, erased>> /\ UNCHANGED flashVars

WordReady == wcnt + rem >= W
WriteOffset == wr_offs \div W
\* The cells a word written at wr_offs touches: two when it is misaligned.
WriteCells == {k \in Offsets : k * W < wr_offs + W /\ wr_offs < k * W + W}

\* WriteData gives up with a full wbuf; the other fields stay as they are.
WriteFailed ==
  GiveUp(/\ state' = "IDLE" /\ wcnt' = W
         /\ len' = 0 /\ rem' = 0 /\ wr_offs' = 0
         /\ UNCHANGED <<img, recv_size, erased>>)

\* Mutant of EraseBefore: only the word, not its sector, counts as erased.
EraseBeforeEachWord ==
  /\ pc = "write" /\ WordReady
  /\ WriteOffset >= erased
  /\ WriteOffset \in Offsets
  /\ backup' = [k \in Offsets |-> IF k \in SectorOf(WriteOffset)
                                  THEN Erased ELSE backup[k]]
  /\ erased' = WriteOffset + 1
  /\ UNCHANGED <<pc, state, img, recv_size, wcnt, len, rem, wr_offs, app, flag>>

\* fw_upg_erase_before: the sector is erased when the first word falls in it.
EraseBefore ==
  /\ pc = "write" /\ WordReady
  /\ WriteOffset >= erased
  /\ \/ /\ WriteOffset \in Offsets
        /\ backup' = [k \in Offsets |-> IF k \in SectorOf(WriteOffset)
                                        THEN Erased ELSE backup[k]]
        /\ erased' = (WriteOffset \div SectorWords + 1) * SectorWords
        /\ UNCHANGED <<pc, state, img, recv_size, wcnt, len, rem, wr_offs>>
     \/ /\ backup' \in Damaged(backup, SectorOf(WriteOffset), {})
        /\ WriteFailed
  /\ UNCHANGED <<app, flag>>

\* Mutant of WriteWord: what the flash answers is not looked at.
WriteWordUnchecked ==
  /\ pc = "write" /\ WordReady
  /\ WriteOffset < erased
  /\ \/ /\ wr_offs = WriteOffset * W
        /\ backup' = [backup EXCEPT ![WriteOffset] = <<img, WriteOffset>>]
     \/ backup' \in Damaged(backup, {}, WriteCells)
  /\ wr_offs' = wr_offs + W
  /\ rem' = rem - (W - wcnt)
  /\ wcnt' = 0
  /\ UNCHANGED <<pc, state, img, recv_size, erased, len, app, flag>>

\* Flash_Write_Word of a full wbuf. A call that began with bytes in wbuf writes at
\* recv_size all the same: such a word fails, or garbles both cells it straddles.
WriteWord ==
  /\ pc = "write" /\ WordReady
  /\ WriteOffset < erased
  /\ \/ /\ \/ /\ wr_offs = WriteOffset * W
              /\ \E x \in Programmed(backup[WriteOffset], <<img, WriteOffset>>) :
                   backup' = [backup EXCEPT ![WriteOffset] = x]
           \/ /\ TakesMisaligned /\ wr_offs # WriteOffset * W
              /\ backup' = [k \in Offsets |-> IF k \in WriteCells
                                              THEN Garbled ELSE backup[k]]
        /\ wr_offs' = wr_offs + W
        /\ rem' = rem - (W - wcnt)
        /\ wcnt' = 0
        /\ UNCHANGED <<pc, state, img, recv_size, erased, len>>
     \/ /\ backup' \in Damaged(backup, {}, WriteCells)
        /\ WriteFailed
  /\ UNCHANGED <<app, flag>>

\* The loop ends: what is left of the chunk stays in wbuf.
WriteReturn ==
  /\ pc = "write" /\ ~WordReady
  /\ wcnt' = wcnt + rem
  /\ recv_size' = recv_size + len
  /\ pc' = "run"
  /\ rem' = 0 /\ len' = 0 /\ wr_offs' = 0
  /\ UNCHANGED <<state, img, erased>> /\ UNCHANGED flashVars

-----------------------------------------------------------------------------
(* FW_UPG_Finish                                                            *)

\* Mutant of CheckSize: the received size is not compared.
CheckNothing ==
  /\ pc' = "flagErase"
  /\ UNCHANGED <<state, img, recv_size, erased, len, rem, wr_offs>>
  /\ wcnt' = 0

\* A size mismatch ends the update; a mismatch of the CRC read back from the
\* backup partition is only printed, so nothing here depends on it.
CheckSize ==
  IF recv_size = Size[img]
  THEN /\ pc' = "flagErase"
       /\ UNCHANGED <<state, img, recv_size, erased, len, rem, wr_offs>>
       /\ wcnt' = 0
  ELSE GiveUp(Reset)

Finish ==
  /\ pc = "run"
  /\ \/ state # "RECVING" /\ GiveUp(Reset)
     \/ state = "RECVING" /\ wcnt = 0 /\ CheckSize
     \/ state = "RECVING" /\ wcnt # 0 /\ pc' = "tail" /\ UNCHANGED fwVars
  /\ UNCHANGED flashVars

TailOffset == recv_size \div W
\* The padded tail equals the last word of the image only if all bytes came.
TailWord == IF recv_size = Size[img] THEN <<img, TailOffset>> ELSE Garbled

\* The tail is programmed with no fw_upg_erase_before.
FinishTail ==
  /\ pc = "tail"
  /\ \/ /\ \E x \in Programmed(backup[TailOffset], TailWord) :
             backup' = [backup EXCEPT ![TailOffset] = x]
        /\ CheckSize
     \/ /\ backup' \in Damaged(backup, {}, {TailOffset})
        /\ GiveUp(Reset)
  /\ UNCHANGED <<app, flag>>

FinishFlagErase ==
  /\ pc = "flagErase"
  /\ \/ flag' = ErasedFlag /\ pc' = "flagMagic" /\ UNCHANGED fwVars
     \/ flag' \in DamagedFlag(FlagFields, {}) /\ GiveUp(Reset)
  /\ UNCHANGED <<backup, app>>

\* Program one word of the flag; the sector was erased just before.
ProgramFlag(at, field, value, next) ==
  /\ pc = at
  /\ \/ /\ \E x \in Programmed(flag[field], value) :
             flag' = [flag EXCEPT ![field] = x]
        /\ pc' = next
        /\ UNCHANGED fwVars
     \/ flag' \in DamagedFlag({}, {field}) /\ GiveUp(Reset)
  /\ UNCHANGED <<backup, app>>

FinishFlagMagic == ProgramFlag("flagMagic", "magic", MAGIC, "flagSize")
FinishFlagSize == ProgramFlag("flagSize", "size", Size[img], "flagCrc")

\* After the last flag word the state is DONE, and only a reset follows.
FinishFlagCrc ==
  /\ pc = "flagCrc"
  /\ \/ /\ \E x \in Programmed(flag.crc, img) : flag' = [flag EXCEPT !.crc = x]
        /\ pc' = "done" /\ state' = "DONE"
        /\ UNCHANGED <<img, recv_size, wcnt, erased, len, rem, wr_offs>>
     \/ flag' \in DamagedFlag({}, {"crc"}) /\ GiveUp(Reset)
  /\ UNCHANGED <<backup, app>>

\* The steps of a call that has begun, and the calls a transport may make.
FwStep ==
  \/ EraseBefore \/ WriteWord \/ WriteReturn
  \/ FinishTail \/ FinishFlagErase
  \/ FinishFlagMagic \/ FinishFlagSize \/ FinishFlagCrc

FwCall ==
  \/ \E i \in Images : StartUpdate(i)
  \/ \E n \in Chunks : WriteData(n)
  \/ StopUpdate
  \/ Finish
=============================================================================
