------------------------- MODULE AtomicUpdate_proofs -------------------------
(***************************************************************************)
(* What FW_UPG_WriteData and FW_UPG_Finish leave in the backup partition, and*)
(* that the whole path is one atomic update. For every flash geometry and set *)
(* of images; where a theorem needs it, for a flash that rejects misaligned    *)
(* words or transports that never cause one, and images whose tail is not      *)
(* alone in its sector. Last, what the path promises without any of that:      *)
(* TwoSlots.                                                                  *)
(***************************************************************************)
EXTENDS UpdateSystem_proofs

\* Every chunk is a number of whole words, as Ymodem's 128 and 1024 are, and OTA's
\* while the server answers with the range it was asked for.
Aligned == \A n \in Chunks : \E q \in Nat : n = q * W

\* No word is stored at a misaligned address: the flash rejects it, or no chunk
\* makes FW_UPG_WriteData ask for it.
WordsInPlace == TakesMisaligned => Aligned

\* No image ends just behind a sector boundary: see the run tail_not_erased.
SafeTails ==
  \A i \in Installable : \A w \in Nat, s \in Nat, t \in 1 .. W - 1 :
    Size[i] = w * W + t => w # s * SectorWords

-----------------------------------------------------------------------------
(* The bytes in wbuf, for chunks of any length.                              *)

\* The inductive invariant: the bytes that were accepted are whole words and what
\* is in wbuf or will still go through it.
WbufInv ==
  /\ pc \in {"run", "tail"} /\ state = "RECVING" =>
       wcnt < W /\ \E q \in Nat : recv_size = q * W + wcnt
  /\ pc = "write" =>
       wcnt < W /\ \E q \in Nat : recv_size + len = q * W + wcnt + rem

LEMMA NextWord == \A q, w \in Nat : (q + 1) * w = q * w + w
OBVIOUS

LEMMA ModOfSum ==
  ASSUME NEW q \in Nat, NEW w \in Nat \ {0}, NEW t \in Nat, t < w
  PROVE  (q * w + t) % w = t /\ (q * w + t) \div w = q
BY Z3

\* In the Bootloader no update is in progress; after a finished one only a reset
\* follows.
IdleInv ==
  /\ pc \in BootPcs => state = "IDLE"
  /\ state = "DONE" => pc = "done"

\* What a step of the Bootloader leaves alone.
LEMMA LoaderIsIdle ==
  ASSUME IdleInv, LoaderStep
  PROVE  /\ pc \in BootPcs /\ pc' \in BootPcs \cup {"run"}
         /\ state = "IDLE" /\ state' = "IDLE" /\ UNCHANGED fwVars
BY DEF LoaderStep, BootStep, BootCheck, EraseApp, CopyWord, CopyEnd, ClearUpgradeFlag, JumpToApp,
   CopyError, BootPcs, fwVars, IdleInv

\* A step of the APP stays in the APP.
LEMMA AppStaysApp ==
  ASSUME AppStep
  PROVE  pc \in AppPcs /\ pc' \in AppPcs /\ app' = app /\ pc \notin BootPcs /\ pc' \notin BootPcs
BY DEF AppStep, FwStep, FwCall, EraseBefore, WriteWord, WriteReturn, WriteFailed, GiveUp,
   FinishTail, CheckSize, FinishFlagErase, FinishFlagMagic, FinishFlagSize, FinishFlagCrc,
   ProgramFlag, StartUpdate, StopUpdate, WriteData, Finish, AppPcs, WritingPcs, BootPcs, flashVars

LEMMA IdleInductive ==
  ASSUME TypeOK, IdleInv, [Next]_vars PROVE IdleInv'
<1>1. CASE AppStep
  <2>1. pc' \notin BootPcs
    BY <1>1, AppStaysApp
  <2>2. state' = "DONE" => pc' = "done"
    BY <1>1 DEF IdleInv, TypeOK, FwTypeOK, WritingPcs, AppStep, FwStep, FwCall, EraseBefore,
       WriteWord, WriteReturn, WriteFailed, GiveUp, Reset, FinishTail, CheckSize, FinishFlagErase,
       FinishFlagMagic, FinishFlagSize, FinishFlagCrc, ProgramFlag, StartUpdate, StopUpdate,
       WriteData, Finish, fwVars
  <2> QED BY <2>1, <2>2 DEF IdleInv
<1>2. CASE LoaderStep
  BY <1>2, LoaderIsIdle DEF IdleInv
<1>3. CASE SystemReset \/ PowerLoss
  BY <1>3 DEF SystemReset, PowerLoss, Restart, Reset, IdleInv
<1>4. CASE UNCHANGED vars
  BY <1>4 DEF vars, IdleInv
<1> QED BY <1>1, <1>2, <1>3, <1>4 DEF Next

\* It holds in every state.
LEMMA IdleInvariant == Spec => []IdleInv
<1>1. Init => IdleInv
  BY DEF Init, FwInit, IdleInv
<1> QED BY <1>1, IdleInductive, TypeCorrect, PTL DEF Spec

LEMMA WbufInductive ==
  ASSUME TypeOK, TypeOK', IdleInv, WbufInv, [Next]_vars PROVE WbufInv'
<1> USE GeometryAssumption DEF WbufInv
<1>0. /\ recv_size \in Nat /\ wcnt \in Nat /\ len \in Nat /\ rem \in Nat /\ W \in Nat \ {0}
      /\ len' \in Nat /\ rem' \in Nat
      /\ pc \in WritingPcs => state = "RECVING"
  BY DEF TypeOK, FwTypeOK
<1>1. CASE pc' = "run" /\ state' = "IDLE"
  BY <1>1
<1>2. CASE UNCHANGED <<pc, state, wcnt, recv_size, len, rem>>
  BY <1>2
<1>3. ASSUME NEW i \in Images, StartUpdate(i) PROVE WbufInv'
  <2>1. 0 = 0 * W + 0
    BY <1>0
  <2> QED BY <1>0, <1>3, <2>1 DEF StartUpdate
<1>4. ASSUME NEW n \in Chunks, WriteData(n) PROVE WbufInv'
  <2>1. PICK q \in Nat : recv_size = q * W + wcnt
    BY <1>4 DEF WriteData
  <2>2. recv_size + len' = q * W + wcnt + rem'
    BY <1>0, <1>4, <2>1 DEF WriteData
  <2> QED BY <1>4, <2>2 DEF WriteData
<1>5. CASE StopUpdate
  BY <1>5 DEF StopUpdate, Reset
<1>6. CASE Finish \/ FinishTail
  BY <1>0, <1>6 DEF Finish, FinishTail, CheckSize, GiveUp, Reset, fwVars
<1>7. CASE EraseBefore
  BY <1>1, <1>7, <1>2 DEF EraseBefore, WriteFailed, GiveUp
<1>8. CASE WriteWord
  <2>1. CASE WriteFailed
    BY <1>1, <2>1 DEF WriteFailed, GiveUp
  <2>2. CASE rem' = rem - (W - wcnt) /\ wcnt' = 0 /\ UNCHANGED <<pc, state, recv_size, len>>
    <3>1. PICK q \in Nat : recv_size + len = q * W + wcnt + rem
      BY <1>8 DEF WriteWord
    <3>2. recv_size' + len' = (q + 1) * W + wcnt' + rem'
      <4>1. (q + 1) * W = q * W + W /\ q * W \in Nat
        BY <1>0, NextWord
      <4> QED BY <1>0, <2>2, <3>1, <4>1
    <3>3. q + 1 \in Nat /\ pc' = "write" /\ wcnt' < W
      BY <1>0, <1>8, <2>2 DEF WriteWord
    <3> QED BY <3>2, <3>3
  <2> QED BY <1>8, <2>1, <2>2 DEF WriteWord
<1>9. CASE WriteReturn
  <2>1. PICK q \in Nat : recv_size + len = q * W + wcnt + rem
    BY <1>9 DEF WriteReturn
  <2>2. recv_size' = q * W + wcnt' /\ wcnt' < W
    BY <1>0, <1>9, <2>1 DEF WriteReturn, WordReady
  <2> QED BY <1>9, <2>2 DEF WriteReturn
<1>10. CASE FinishFlagErase \/ FinishFlagMagic \/ FinishFlagSize \/ FinishFlagCrc
  BY <1>1, <1>10 DEF FinishFlagErase, FinishFlagMagic, FinishFlagSize, FinishFlagCrc, ProgramFlag,
     GiveUp, Reset
<1>11. CASE LoaderStep
  BY <1>11, LoaderIsIdle DEF BootPcs
<1>12. CASE SystemReset \/ PowerLoss
  BY <1>12 DEF SystemReset, PowerLoss, Restart, Reset
<1>13. CASE UNCHANGED vars
  BY <1>13 DEF vars
<1> QED BY <1>3, <1>4, <1>5, <1>6, <1>7, <1>8, <1>9, <1>10, <1>11, <1>12, <1>13
        DEF Next, AppStep, FwStep, FwCall

LEMMA WbufInvariant == Spec => []WbufInv
<1>1. Init => WbufInv
  BY DEF Init, FwInit, WbufInv
<1> QED BY <1>1, WbufInductive, TypeCorrect, IdleInvariant, PTL DEF Spec

\* Between calls wbuf holds exactly the bytes after the last whole word, whatever
\* the chunks and whichever operation failed or was cut: recv_size & ~3 is where
\* FW_UPG_Finish has to program them (fw_upgrade.c, the tail).
THEOREM WbufIsTheRemainder == Spec => []WbufIsRemainder
<1>1. TypeOK /\ WbufInv => WbufIsRemainder
  <2> SUFFICES ASSUME TypeOK, WbufInv, pc \in {"run", "tail"}, state = "RECVING"
               PROVE  wcnt = recv_size % W
    BY DEF WbufIsRemainder
  <2>1. PICK q \in Nat : recv_size = q * W + wcnt /\ wcnt < W
    BY DEF WbufInv
  <2> QED BY <2>1, ModOfSum, GeometryAssumption DEF TypeOK, FwTypeOK
<1> QED BY <1>1, WbufInvariant, TypeCorrect, PTL

-----------------------------------------------------------------------------
(* What WriteData stored, for chunks of whole words.                         *)

\* The first w words of the image are in the backup partition, and the cells that
\* were erased for what follows are still erased.
Stored(w) ==
  /\ \A k \in Offsets : k < w => backup[k] = <<img, k>>
  /\ \A k \in Offsets : w <= k /\ k < erased => backup[k] = Erased
  /\ w <= erased
  /\ \E s \in Nat : erased = s * SectorWords

\* Between calls: w words are stored and the bytes after them are in wbuf. Chunks of
\* whole words leave none there before the last piece of the image.
Between ==
  \E w \in Nat :
    /\ recv_size = w * W + wcnt /\ wcnt < W
    /\ recv_size <= Size[img]
    /\ Aligned /\ recv_size < Size[img] => wcnt = 0
    /\ Stored(w)

\* Inside WriteData word w is next, asked for behind the bytes in wbuf: where there
\* are any the address is misaligned, and the call comes to nothing. Of chunks of
\* whole words, what is left is whole words unless the image ends with it.
WordNext(w) ==
  /\ wr_offs = w * W + wcnt /\ wcnt < W
  /\ recv_size + len = w * W + wcnt + rem
  /\ recv_size + len <= Size[img]
  /\ Aligned => wcnt = 0
  /\ Aligned /\ recv_size + len < Size[img] => \E q \in Nat : rem = q * W
  /\ Stored(w)

Within == \E w \in Nat : WordNext(w)

WriterInv ==
  /\ pc \in {"run", "tail"} /\ state = "RECVING" => Between
  /\ pc = "tail" => wcnt # 0
  /\ pc = "write" => Within
  /\ SafeTails /\ pc \in {"flagErase", "flagMagic", "flagSize", "flagCrc", "done"} =>
       Holds(backup, img)

\* A word that is wholly before n words and a rest is one of the n.
LEMMA WordBefore ==
  ASSUME NEW k \in Nat, NEW n \in Nat, NEW w \in Nat \ {0}, NEW t \in Nat, t < w
  PROVE  /\ k * w + w <= n * w + t => k < n
         /\ k * w < n * w + t => k <= n
         /\ k * w < n * w => k < n
<1>1. k >= n => k * w >= n * w
  <2> SUFFICES ASSUME k >= n PROVE k * w >= n * w
    OBVIOUS
  <2>1. (k - n) * w >= 0
    OBVIOUS
  <2>2. (k - n) * w = k * w - n * w
    OBVIOUS
  <2> QED BY <2>1, <2>2
<1>2. k > n => k * w >= n * w + w
  <2> SUFFICES ASSUME k > n PROVE k * w >= n * w + w
    OBVIOUS
  <2>1. (k - n - 1) * w >= 0
    OBVIOUS
  <2>2. (k - n - 1) * w = k * w - n * w - w
    OBVIOUS
  <2> QED BY <2>1, <2>2
<1>3. k * w \in Nat /\ n * w \in Nat
  OBVIOUS
<1> QED BY <1>1, <1>2, <1>3

\* Where WriteData is, in words.
LEMMA WriteAtWord ==
  ASSUME NEW w \in Nat, wcnt \in Nat, wr_offs = w * W + wcnt, wcnt < W
  PROVE  WriteOffset = w /\ (wr_offs = WriteOffset * W => wcnt = 0)
<1>1. (w * W + wcnt) \div W = w
  BY ModOfSum, GeometryAssumption
<1>2. w * W \in Nat
  BY GeometryAssumption
<1> QED BY <1>1, <1>2 DEF WriteOffset

\* The sector of a word.
LEMMA SectorOfWord ==
  ASSUME NEW s \in Nat, NEW m \in Nat \ {0}, NEW k \in Nat
  PROVE  /\ (s * m) \div m = s
         /\ k < s * m => k \div m # s
         /\ s * m <= k /\ k < (s + 1) * m => k \div m = s
BY Z3

\* The types that the arithmetic below needs.
LEMMA WriterTypes ==
  ASSUME TypeOK
  PROVE  /\ recv_size \in Nat /\ wcnt \in Nat /\ len \in Nat /\ rem \in Nat /\ erased \in Nat
         /\ wr_offs \in Nat /\ W \in Nat \ {0} /\ SectorWords \in Nat \ {0}
         /\ state # "IDLE" => img \in Images /\ img \in Installable /\ Size[img] \in Nat
         /\ pc \in WritingPcs => state = "RECVING"
         /\ Offsets \subseteq Nat
BY GeometryAssumption, ImageAssumption DEF TypeOK, FwTypeOK, Installable, Offsets

\* Erasing the sector of the next word keeps what is stored.
LEMMA EraseKeepsStored ==
  ASSUME TypeOK, NEW w \in Nat, Stored(w), w >= erased, img' = img,
         backup' = [k \in Offsets |-> IF k \in SectorOf(w) THEN Erased ELSE backup[k]],
         erased' = (w \div SectorWords + 1) * SectorWords
  PROVE  Stored(w)'
<1> USE WriterTypes
<1>1. PICK s \in Nat : erased = s * SectorWords
  BY DEF Stored
<1>2. w = s * SectorWords /\ w \div SectorWords = s
  BY <1>1, SectorOfWord DEF Stored
<1>3. erased' = (s + 1) * SectorWords /\ (s + 1) * SectorWords = w + SectorWords
  <2>1. (s + 1) * SectorWords = s * SectorWords + SectorWords
    BY NextWord
  <2> QED BY <1>2, <2>1
<1>4. ASSUME NEW k \in Offsets, k < w PROVE backup'[k] = <<img, k>>
  <2>1. k \div SectorWords # w \div SectorWords
    BY <1>2, <1>4, SectorOfWord
  <2> QED BY <1>4, <2>1 DEF SectorOf, Stored
<1>5. ASSUME NEW k \in Offsets, w <= k, k < erased' PROVE backup'[k] = Erased
  <2>1. k \div SectorWords = w \div SectorWords
    BY <1>2, <1>3, <1>5, SectorOfWord
  <2> QED BY <2>1 DEF SectorOf
<1>6. s + 1 \in Nat /\ w <= erased'
  BY <1>3
<1> QED BY <1>3, <1>4, <1>5, <1>6 DEF Stored

\* Programming the next word adds it to what is stored.
LEMMA ProgramStores ==
  ASSUME TypeOK, NEW w \in Nat, Stored(w), w < erased, UNCHANGED <<img, erased>>,
         NEW x \in Programmed(backup[w], <<img, w>>), backup' = [backup EXCEPT ![w] = x]
  PROVE  Stored(w + 1)'
<1> USE WriterTypes
<1>0. backup \in [Offsets -> Cell]
  BY DEF TypeOK, FlashTypeOK
<1>1. ASSUME NEW k \in Offsets, k < w + 1 PROVE backup'[k] = <<img, k>>
  <2>1. CASE k = w
    <3>1. backup[w] = Erased
      BY <2>1 DEF Stored
    <3> QED BY <1>0, <2>1, <3>1 DEF Programmed
  <2>2. CASE k # w
    <3>1. k < w
      BY <1>1, <2>2
    <3> QED BY <1>0, <2>2, <3>1 DEF Stored
  <2> QED BY <2>1, <2>2
<1>2. ASSUME NEW k \in Offsets, w + 1 <= k, k < erased PROVE backup'[k] = Erased
  <2>1. w <= k /\ k # w
    BY <1>2
  <2> QED BY <1>0, <1>2, <2>1 DEF Stored
<1>3. w + 1 <= erased
  OBVIOUS
<1> QED BY <1>1, <1>2, <1>3 DEF Stored

\* A call that begins takes over what is stored.
LEMMA WriteDataWithin ==
  ASSUME TypeOK, WriterInv, NEW n \in Chunks, WriteData(n) PROVE Within'
<1> USE WriterTypes
<1>1. /\ pc = "run" /\ state = "RECVING" /\ recv_size < Size[img] /\ rem' = len'
      /\ wr_offs' = recv_size /\ UNCHANGED <<img, recv_size, wcnt, erased, backup>>
      /\ len' = IF recv_size + n > Size[img] THEN Size[img] - recv_size ELSE n
  BY DEF WriteData, flashVars
<1>2. PICK w \in Nat : /\ recv_size = w * W + wcnt /\ wcnt < W
                       /\ Aligned => wcnt = 0
                       /\ Stored(w)
  BY <1>1 DEF WriterInv, Between
<1>3. Stored(w)'
  BY <1>1, <1>2 DEF Stored
<1>4. n \in Nat /\ Size[img] \in Nat
  BY <1>1, ChunkAssumption
<1>5. recv_size + len' <= Size[img] /\ (recv_size + len' < Size[img] => len' = n)
  BY <1>1, <1>4
<1>6. recv_size + len' = w * W + wcnt + rem'
  BY <1>1, <1>2
<1>7. Aligned /\ recv_size + len' < Size[img] => \E q \in Nat : rem' = q * W
  BY <1>1, <1>5 DEF Aligned
<1>8. WordNext(w)'
  BY <1>1, <1>2, <1>3, <1>5, <1>6, <1>7 DEF WordNext, Aligned
<1> QED BY <1>8 DEF Within

LEMMA EraseBeforeWriter ==
  ASSUME TypeOK, WriterInv, EraseBefore PROVE WriterInv'
<1> USE WriterTypes
<1>1. CASE WriteFailed
  BY <1>1 DEF WriteFailed, GiveUp, WriterInv
<1>2. CASE /\ WriteOffset \in Offsets
           /\ backup' = [k \in Offsets |-> IF k \in SectorOf(WriteOffset)
                                           THEN Erased ELSE backup[k]]
           /\ erased' = (WriteOffset \div SectorWords + 1) * SectorWords
           /\ UNCHANGED <<pc, state, img, recv_size, wcnt, len, rem, wr_offs>>
  <2>1. PICK w \in Nat : WordNext(w)
    BY DEF EraseBefore, WriterInv, Within
  <2>2. WriteOffset = w
    BY <2>1, WriteAtWord DEF WordNext
  <2>3. Stored(w)'
    BY <1>2, <2>1, <2>2, EraseKeepsStored DEF EraseBefore, WordNext
  <2>4. WordNext(w)'
    BY <1>2, <2>1, <2>3 DEF WordNext, Aligned
  <2> QED BY <1>2, <2>4 DEF EraseBefore, WriterInv, Within
<1> QED BY <1>1, <1>2 DEF EraseBefore

\* A word that was taken is in its place: with bytes in wbuf when the call began the
\* flash would have rejected it.
LEMMA WriteWordWriter ==
  ASSUME WordsInPlace, TypeOK, WriterInv, WriteWord PROVE WriterInv'
<1> USE WriterTypes
<1>1. CASE WriteFailed
  BY <1>1 DEF WriteFailed, GiveUp, WriterInv
<1>2. CASE /\ wr_offs' = wr_offs + W /\ rem' = rem - (W - wcnt) /\ wcnt' = 0
           /\ UNCHANGED <<pc, state, img, recv_size, erased, len>>
           /\ ~WriteFailed
  <2>1. PICK w \in Nat : WordNext(w)
    BY DEF WriteWord, WriterInv, Within
  <2>2. WriteOffset = w /\ (wr_offs = WriteOffset * W => wcnt = 0)
    BY <2>1, WriteAtWord DEF WordNext
  <2>3. wcnt = 0
    <3>1. CASE TakesMisaligned
      BY <2>1, <3>1 DEF WordsInPlace, WordNext
    <3>2. CASE ~TakesMisaligned
      BY <1>2, <2>2, <3>2 DEF WriteWord
    <3> QED BY <3>1, <3>2
  <2>4. w * W \in Nat /\ wr_offs = WriteOffset * W
    BY <2>1, <2>2, <2>3 DEF WordNext
  <2>5. PICK x \in Programmed(backup[w], <<img, w>>) : backup' = [backup EXCEPT ![w] = x]
    BY <1>2, <2>2, <2>4 DEF WriteWord
  <2>6. Stored(w + 1)'
    BY <1>2, <2>1, <2>2, <2>5, ProgramStores DEF WriteWord, WordNext
  <2>7. w + 1 \in Nat /\ (w + 1) * W = w * W + W
    BY NextWord
  <2>8. rem' = rem - W /\ rem >= W
    BY <1>2, <2>3 DEF WriteWord, WordReady
  <2>9. wr_offs' = (w + 1) * W + wcnt' /\ recv_size + len = (w + 1) * W + wcnt' + rem'
    BY <1>2, <2>1, <2>3, <2>4, <2>7, <2>8 DEF WordNext
  <2>10. ASSUME Aligned, recv_size + len < Size[img] PROVE \E q \in Nat : rem' = q * W
    <3>1. PICK q \in Nat : rem = q * W
      BY <2>1, <2>10 DEF WordNext
    <3>2. q # 0
      BY <2>8, <3>1
    <3>3. q - 1 \in Nat /\ (q - 1) * W = q * W - W
      BY <3>2
    <3> QED BY <2>8, <3>1, <3>3
  <2>11. WordNext(w + 1)'
    BY <1>2, <2>1, <2>6, <2>9, <2>10 DEF WordNext, Aligned
  <2> QED BY <1>2, <2>7, <2>11 DEF WriteWord, WriterInv, Within
<1> QED BY <1>1, <1>2 DEF WriteWord

LEMMA WriteReturnWriter ==
  ASSUME TypeOK, WriterInv, WriteReturn PROVE WriterInv'
<1> USE WriterTypes
<1>1. PICK w \in Nat : WordNext(w)
  BY DEF WriteReturn, WriterInv, Within
<1>2. /\ wcnt' = wcnt + rem /\ recv_size' = recv_size + len /\ wcnt + rem < W
      /\ pc' = "run" /\ UNCHANGED <<img, erased, backup>>
  BY <1>1 DEF WriteReturn, WordReady, flashVars
<1>3. Stored(w)'
  BY <1>1, <1>2 DEF Stored, WordNext
<1>4. ASSUME Aligned, recv_size + len < Size[img] PROVE rem = 0 /\ wcnt = 0
  <2>1. PICK q \in Nat : rem = q * W
    BY <1>1, <1>4 DEF WordNext
  <2>2. q < 1
    <3>1. q * W < 1 * W
      BY <1>1, <1>2, <2>1
    <3> QED BY <3>1, WordBefore
  <2> QED BY <1>1, <1>4, <2>1, <2>2 DEF WordNext
<1>5. recv_size' = w * W + wcnt'
  <2>1. w * W \in Nat
    OBVIOUS
  <2> QED BY <1>1, <1>2, <2>1 DEF WordNext
<1>6. Between'
  BY <1>1, <1>2, <1>3, <1>4, <1>5 DEF Between, WordNext, Aligned
<1> QED BY <1>2, <1>6 DEF WriterInv

\* When all bytes came and wbuf is empty, the backup partition holds the image.
LEMMA WholeIsHeld ==
  ASSUME TypeOK, state = "RECVING", Between, wcnt = 0, recv_size = Size[img]
  PROVE  Holds(backup, img)
<1> USE WriterTypes
<1>1. PICK w \in Nat : recv_size = w * W + wcnt /\ Stored(w)
  BY DEF Between
<1>2. ASSUME NEW k \in Offsets, k * W < Size[img] PROVE backup[k] = <<img, k>>
  <2>1. k * W < w * W /\ k \in Nat
    BY <1>1, <1>2
  <2>2. k < w
    BY <2>1, WordBefore
  <2> QED BY <1>1, <2>2 DEF Stored
<1> QED BY <1>2 DEF Holds

\* The tail goes behind the whole words. If all bytes came it is the image's last
\* word, and its cell was erased with the words before it unless it is alone in its
\* sector.
LEMMA TailPlace ==
  ASSUME TypeOK, WriterInv, pc = "tail"
  PROVE  /\ Aligned => recv_size = Size[img]
         /\ TailOffset \in Offsets /\ TailOffset * W + wcnt = recv_size
         /\ wcnt < W /\ Stored(TailOffset)
         /\ recv_size = Size[img] =>
              /\ TailWord = <<img, TailOffset>>
              /\ SafeTails => TailOffset < erased
<1> USE WriterTypes
<1>1. state = "RECVING" /\ Between /\ wcnt # 0
  BY DEF WriterInv, WritingPcs
<1>2. PICK w \in Nat :
        /\ recv_size = w * W + wcnt /\ wcnt < W
        /\ recv_size <= Size[img]
        /\ Aligned /\ recv_size < Size[img] => wcnt = 0
        /\ Stored(w)
  BY <1>1 DEF Between
<1>0. /\ img \in Installable /\ Size[img] \in Nat /\ recv_size \in Nat /\ wcnt \in Nat
      /\ erased \in Nat
  BY <1>1
<1>3. Aligned => recv_size = Size[img]
  BY <1>0, <1>1, <1>2
<1>4. TailOffset = w
  <2>1. (w * W + wcnt) \div W = w
    BY <1>0, <1>2, ModOfSum
  <2> QED BY <1>2, <2>1 DEF TailOffset
<1>5. recv_size = Size[img] => TailWord = <<img, TailOffset>>
  BY DEF TailWord
<1>6. w \in Offsets
  <2>1. Words \in Nat /\ Size[img] <= Words * W
    BY <1>1, GeometryAssumption DEF Installable, Capacity, Words
  <2>2. w * W < Words * W + 0
    <3>1. Words * W \in Nat /\ w * W \in Nat
      BY <2>1
    <3> QED BY <1>0, <1>1, <1>2, <2>1, <3>1
  <2>3. w < Words
    <3>1. Words * W + 0 = Words * W
      BY <2>1
    <3> QED BY <2>1, <2>2, <3>1, WordBefore
  <2> QED BY <2>1, <2>3 DEF Offsets
<1>7. ASSUME SafeTails, recv_size = Size[img] PROVE w < erased
  <2>1. PICK s \in Nat : erased = s * SectorWords
    BY <1>2 DEF Stored
  <2>2. wcnt \in 1 .. W - 1 /\ img \in Installable
    BY <1>0, <1>1, <1>2
  <2>3. w # s * SectorWords
    BY <1>2, <1>7, <2>2 DEF SafeTails
  <2>4. w <= erased /\ w # erased
    BY <1>2, <2>1, <2>3 DEF Stored
  <2> QED BY <1>0, <2>4
<1> QED BY <1>2, <1>3, <1>4, <1>5, <1>6, <1>7

LEMMA FinishTailHolds ==
  ASSUME TypeOK, WriterInv, FinishTail, SafeTails, pc' = "flagErase"
  PROVE  Holds(backup, img)'
<1> USE WriterTypes
<1>0. backup \in [Offsets -> Cell] /\ img' = img
  BY DEF TypeOK, FlashTypeOK, FinishTail, CheckSize, GiveUp
<1>1. PICK x \in Programmed(backup[TailOffset], TailWord) :
        backup' = [backup EXCEPT ![TailOffset] = x]
  BY DEF FinishTail, GiveUp
<1>2. /\ recv_size = Size[img]
      /\ TailOffset \in Offsets /\ TailOffset * W + wcnt = recv_size
      /\ wcnt < W /\ TailWord = <<img, TailOffset>>
      /\ Stored(TailOffset) /\ TailOffset < erased
  BY TailPlace DEF FinishTail, CheckSize, GiveUp
<1>3. backup'[TailOffset] = <<img, TailOffset>>
  <2>1. backup[TailOffset] = Erased
    BY <1>2 DEF Stored
  <2> QED BY <1>0, <1>1, <1>2, <2>1 DEF Programmed
<1>4. ASSUME NEW k \in Offsets, k * W < Size[img] PROVE backup'[k] = <<img, k>>
  <2>1. k * W < TailOffset * W + wcnt /\ k \in Nat /\ TailOffset \in Nat
    BY <1>2, <1>4
  <2>2. k <= TailOffset
    BY <1>2, <2>1, WordBefore
  <2>3. CASE k = TailOffset
    BY <1>3, <2>3
  <2>4. CASE k # TailOffset
    <3>1. k < TailOffset
      BY <2>1, <2>2, <2>4
    <3> QED BY <1>0, <1>1, <1>2, <2>4, <3>1 DEF Stored
  <2> QED BY <2>3, <2>4
<1> QED BY <1>0, <1>4 DEF Holds

LEMMA FinishWriter ==
  ASSUME TypeOK, WriterInv, Finish PROVE WriterInv'
<1>1. CASE state # "RECVING" /\ GiveUp(Reset)
  BY <1>1 DEF GiveUp, Reset, WriterInv
<1>2. CASE state = "RECVING" /\ wcnt = 0 /\ CheckSize
  <2>1. CASE recv_size = Size[img]
    <3>1. Holds(backup, img)
      BY <1>2, <2>1, WholeIsHeld DEF Finish, WriterInv
    <3>2. backup' = backup /\ img' = img /\ pc' = "flagErase"
      BY <1>2, <2>1 DEF Finish, CheckSize, flashVars
    <3>3. Holds(backup, img)'
      BY <3>1, <3>2 DEF Holds
    <3> QED BY <3>2, <3>3 DEF WriterInv
  <2>2. CASE recv_size # Size[img]
    BY <1>2, <2>2 DEF CheckSize, GiveUp, Reset, WriterInv
  <2> QED BY <2>1, <2>2
<1>3. CASE state = "RECVING" /\ wcnt # 0 /\ pc' = "tail" /\ UNCHANGED fwVars
  <2>1. Between /\ UNCHANGED <<img, recv_size, wcnt, erased, backup>>
    BY <1>3 DEF Finish, WriterInv, fwVars, flashVars
  <2>2. Between'
    BY <2>1 DEF Between, Stored
  <2> QED BY <1>3, <2>1, <2>2 DEF WriterInv
<1> QED BY <1>1, <1>2, <1>3 DEF Finish

LEMMA FinishTailWriter ==
  ASSUME TypeOK, WriterInv, FinishTail PROVE WriterInv'
<1>1. CASE GiveUp(Reset)
  BY <1>1 DEF GiveUp, Reset, WriterInv
<1>2. CASE pc' = "flagErase"
  BY <1>2, FinishTailHolds DEF WriterInv
<1> QED BY <1>1, <1>2 DEF FinishTail, CheckSize

\* A call that has begun, and a call of a transport, keep the invariant.
LEMMA AppStepWriter ==
  ASSUME WordsInPlace, TypeOK, WriterInv, AppStep PROVE WriterInv'
<1>1. ASSUME NEW i \in Images, StartUpdate(i) PROVE WriterInv'
  <2>1. /\ pc' = "run" /\ img' = i /\ recv_size' = 0 /\ wcnt' = 0 /\ erased' = 0
        /\ i \in Installable /\ Size[i] \in Nat /\ W \in Nat \ {0} /\ SectorWords \in Nat
    BY <1>1, WriterTypes, GeometryAssumption, ImageAssumption DEF StartUpdate
  <2>2. 0 = 0 * W + 0 /\ 0 = 0 * SectorWords
    BY <2>1
  <2>3. \A k \in Offsets : ~(k < 0)
    BY WriterTypes
  <2>4. Stored(0)'
    BY <2>1, <2>2, <2>3 DEF Stored
  <2>5. Between'
    BY <2>1, <2>2, <2>4 DEF Between
  <2> QED BY <2>1, <2>5 DEF WriterInv
<1>2. ASSUME NEW n \in Chunks, WriteData(n) PROVE WriterInv'
  BY <1>2, WriteDataWithin DEF WriteData, WriterInv
<1>3. CASE StopUpdate
  BY <1>3 DEF StopUpdate, Reset, WriterInv
<1>4. CASE FinishFlagErase \/ FinishFlagMagic \/ FinishFlagSize \/ FinishFlagCrc
  <2>1. CASE GiveUp(Reset)
    BY <2>1 DEF GiveUp, Reset, WriterInv
  <2>2. CASE ~GiveUp(Reset)
    <3>1. /\ UNCHANGED <<backup, img>>
          /\ pc \in {"flagErase", "flagMagic", "flagSize", "flagCrc"}
          /\ pc' \in {"flagMagic", "flagSize", "flagCrc", "done"}
      BY <1>4, <2>2 DEF FinishFlagErase, FinishFlagMagic, FinishFlagSize, FinishFlagCrc,
         ProgramFlag, fwVars
    <3> QED BY <3>1 DEF WriterInv, Holds
  <2> QED BY <2>1, <2>2
<1> QED
  BY <1>1, <1>2, <1>3, <1>4, EraseBeforeWriter, WriteWordWriter, WriteReturnWriter,
     FinishWriter, FinishTailWriter DEF AppStep, FwStep, FwCall

LEMMA WriterInductive ==
  ASSUME WordsInPlace, TypeOK, IdleInv, WriterInv, [Next]_vars PROVE WriterInv'
<1>1. CASE LoaderStep
  BY <1>1, LoaderIsIdle DEF WriterInv, BootPcs
<1>2. CASE SystemReset \/ PowerLoss
  BY <1>2 DEF SystemReset, PowerLoss, Restart, WriterInv
<1>3. CASE UNCHANGED vars
  BY <1>3 DEF vars, WriterInv, Between, Within, WordNext, Stored, Holds, Aligned
<1> QED BY <1>1, <1>2, <1>3, AppStepWriter DEF Next

\* It holds in every state.
LEMMA WriterInvariant == WordsInPlace => (Spec => []WriterInv)
<1> SUFFICES ASSUME WordsInPlace PROVE Spec => []WriterInv
  OBVIOUS
<1>1. Init => WriterInv
  BY DEF Init, FwInit, WriterInv
<1> QED BY <1>1, WriterInductive, TypeCorrect, IdleInvariant, PTL DEF Spec

\* What WriteData accepted is in the backup partition: erasing on demand never takes
\* back a word of the update in progress, nor is one skipped or misplaced.
THEOREM AcceptedStaysStored == WordsInPlace => (Spec => []AcceptedIsStored)
<1> SUFFICES ASSUME WordsInPlace PROVE Spec => []AcceptedIsStored
  OBVIOUS
<1>1. TypeOK /\ WriterInv => AcceptedIsStored
  <2> SUFFICES ASSUME TypeOK, WriterInv, pc \in {"run", "tail"}, state = "RECVING",
                      NEW k \in Offsets, k * W + W <= recv_size
               PROVE  backup[k] = <<img, k>>
    BY DEF AcceptedIsStored
  <2>1. PICK w \in Nat : recv_size = w * W + wcnt /\ wcnt < W /\ Stored(w)
    BY DEF WriterInv, Between
  <2>2. k < w
    BY <2>1, WriterTypes, WordBefore
  <2> QED BY <2>1, <2>2 DEF Stored
<1> QED BY <1>1, WriterInvariant, TypeCorrect, PTL

\* Flash_Write_Word is only given an erased cell, for images whose tail is not alone
\* in its sector.
THEOREM OnlyErasedIsProgrammed == Aligned /\ SafeTails => (Spec => []ProgramsErasedOnly)
<1> SUFFICES ASSUME Aligned, SafeTails PROVE Spec => []ProgramsErasedOnly
  OBVIOUS
<1>0. Spec => []WriterInv
  BY WriterInvariant DEF WordsInPlace
<1>1. TypeOK /\ WriterInv => ProgramsErasedOnly
  <2> SUFFICES ASSUME TypeOK, WriterInv PROVE ProgramsErasedOnly
    OBVIOUS
  <2>1. ASSUME pc = "write", WriteOffset < erased, NEW k \in WriteCells
        PROVE  backup[k] = Erased
    <3>1. PICK w \in Nat : wr_offs = w * W /\ wr_offs = w * W + wcnt /\ wcnt < W /\ Stored(w)
      BY <2>1, WriterTypes DEF WriterInv, Within, WordNext
    <3>2. WriteOffset = w
      BY <3>1, WriterTypes, WriteAtWord
    <3>3. k \in Offsets /\ k \in Nat /\ k * W < w * W + W /\ w * W + 0 < k * W + W
      BY <3>1, WriterTypes DEF WriteCells
    <3>4. k * W + W <= w * W => FALSE
      BY <3>3, WriterTypes
    <3>5. w <= k
      <4> SUFFICES ASSUME k < w PROVE FALSE
        BY <3>3
      <4>1. (k + 1) * W <= w * W
        <5>1. (w - (k + 1)) * W >= 0
          BY <3>3, WriterTypes
        <5>2. (w - (k + 1)) * W = w * W - (k + 1) * W
          BY <3>3, WriterTypes
        <5>3. (k + 1) * W \in Nat /\ w * W \in Nat
          BY <3>3, WriterTypes
        <5> QED BY <5>1, <5>2, <5>3
      <4>2. (k + 1) * W = k * W + W
        BY <3>3, WriterTypes, NextWord
      <4> QED BY <3>4, <4>1, <4>2
    <3>6. k < w + 1
      <4>1. (w + 1) * W = w * W + W /\ w + 1 \in Nat
        BY WriterTypes, NextWord
      <4>2. k * W < (w + 1) * W
        BY <3>3, <4>1
      <4> QED BY <3>3, <4>1, <4>2, WriterTypes, WordBefore
    <3>7. k = w
      BY <3>3, <3>5, <3>6
    <3> QED BY <2>1, <3>1, <3>2, <3>3, <3>7 DEF Stored
  <2>2. ASSUME pc = "tail" PROVE backup[TailOffset] = Erased
    <3>1. TailOffset \in Offsets /\ Stored(TailOffset) /\ TailOffset < erased
      BY <2>2, TailPlace
    <3>2. TailOffset <= TailOffset
      BY <3>1, WriterTypes
    <3> QED BY <3>1, <3>2 DEF Stored
  <2> QED BY <2>1, <2>2 DEF ProgramsErasedOnly
<1> QED BY <1>0, <1>1, TypeCorrect, PTL

\* FW_UPG_STATE_DONE means that the backup partition holds the image, for images
\* whose tail is not alone in its sector.
THEOREM DoneIsVerified == WordsInPlace /\ SafeTails => (Spec => []DoneMeansVerified)
<1> SUFFICES ASSUME WordsInPlace, SafeTails PROVE Spec => []DoneMeansVerified
  OBVIOUS
<1>1. IdleInv /\ WriterInv => DoneMeansVerified
  BY DEF IdleInv, WriterInv, DoneMeansVerified
<1> QED BY <1>1, WriterInvariant, IdleInvariant, PTL

-----------------------------------------------------------------------------
(* The update path implements AtomicUpdate.                                  *)

\* The three words of the flag ask for image i.
Named(i) == flag.magic = MAGIC /\ flag.size = Size[i] /\ flag.crc = i

\* The flag never asks for what the backup partition does not hold, and asks for
\* nothing while the APP runs: FW_UPG_Finish writes the flag behind the image and the
\* CRC32, the last of its words, behind the others.
FlagInv ==
  /\ \A i \in Images : Named(i) => FlagValid(i)
  /\ pc \in {"jump"} \cup (AppPcs \ {"done"}) => \A i \in Images : ~Named(i)
  /\ pc \in {"flagMagic", "flagSize", "flagCrc"} => flag.crc = Erased
  /\ pc = "clear" => \E i \in Images : FlagValid(i) /\ Holds(app, i)

\* Damage to the flag never makes it ask for an image.
LEMMA DamagedNamed ==
  ASSUME flag \in FlagCell, NEW es, NEW ps, flag' \in DamagedFlag(es, ps),
         NEW i \in Images, Named(i)'
  PROVE  Named(i)
<1>1. Size[i] \in Nat
  BY ImageAssumption
<1>2. /\ flag'.magic \in {flag.magic, Erased, Garbled}
      /\ flag'.size \in {flag.size, Erased, Garbled}
      /\ flag'.crc \in {flag.crc, Erased, Garbled}
  BY DEF DamagedFlag
<1> QED BY <1>1, <1>2, ImageAssumption, MagicAssumption DEF Named

\* A flag and a backup partition that have not changed ask for the same image.
LEMMA SameFlag ==
  ASSUME flag' = flag, NEW i
  PROVE  /\ Named(i)' = Named(i)
         /\ backup' = backup => FlagValid(i)' = FlagValid(i)
BY DEF Named, FlagValid, Holds

LEMMA AppStepFlag ==
  ASSUME SafeTails, TypeOK, WriterInv, FlagInv, AppStep PROVE FlagInv'
<1>0. pc \in AppPcs /\ pc' \in AppPcs /\ pc' # "jump" /\ pc' # "clear" /\ flag \in FlagCell
      /\ pc # "done"
  BY AppStaysApp DEF AppPcs, WritingPcs, TypeOK, FlashTypeOK, AppStep, FwStep, FwCall,
     EraseBefore, WriteWord, WriteReturn, FinishTail, FinishFlagErase, FinishFlagMagic,
     FinishFlagSize, FinishFlagCrc, ProgramFlag, StartUpdate, StopUpdate, WriteData, Finish
<1>1. \A i \in Images : ~Named(i)
  BY <1>0 DEF FlagInv
<1>2. CASE FinishFlagErase
  <2>1. \A i \in Images : ~Named(i)'
    <3>1. CASE flag' = ErasedFlag
      BY <3>1, ImageAssumption DEF ErasedFlag, Named
    <3>2. CASE flag' \in DamagedFlag(FlagFields, {})
      BY <1>0, <1>1, <3>2, DamagedNamed
    <3> QED BY <1>2, <3>1, <3>2 DEF FinishFlagErase
  <2>2. pc' \in {"flagMagic", "flagSize", "flagCrc"} => flag'.crc = Erased
    BY <1>2 DEF FinishFlagErase, ErasedFlag, GiveUp
  <2> QED BY <1>0, <2>1, <2>2 DEF FlagInv
<1>3. CASE FinishFlagMagic \/ FinishFlagSize
  <2>0. pc \in {"flagMagic", "flagSize"} /\ flag.crc = Erased
    BY <1>3 DEF FinishFlagMagic, FinishFlagSize, ProgramFlag, FlagInv
  <2>1. CASE flag'.crc = flag.crc
    <3>1. \A i \in Images : ~Named(i)'
      BY <2>0, <2>1, ImageAssumption DEF Named
    <3> QED BY <1>0, <2>0, <2>1, <3>1 DEF FlagInv
  <2>2. CASE flag' \in DamagedFlag({}, {"magic"}) \/ flag' \in DamagedFlag({}, {"size"})
    <3>1. flag'.crc = flag.crc
      BY <2>2 DEF DamagedFlag
    <3> QED BY <2>1, <3>1
  <2>3. flag'.crc = flag.crc \/ flag' \in DamagedFlag({}, {"magic"}) \/ flag' \in DamagedFlag({}, {"size"})
    BY <1>0, <1>3 DEF FinishFlagMagic, FinishFlagSize, ProgramFlag, FlagCell
  <2> QED BY <2>1, <2>2, <2>3
<1>4. CASE FinishFlagCrc
  <2>1. CASE flag' \in DamagedFlag({}, {"crc"}) /\ GiveUp(Reset)
    <3>1. \A i \in Images : ~Named(i)'
      BY <1>0, <1>1, <2>1, DamagedNamed
    <3> QED BY <1>0, <2>1, <3>1 DEF FlagInv, GiveUp
  <2>2. CASE pc' = "done" /\ flag'.crc = img
    <3>1. Holds(backup, img) /\ img \in Installable /\ backup' = backup
      BY <1>4 DEF FinishFlagCrc, WriterInv, TypeOK, FwTypeOK, WritingPcs
    <3>2. ASSUME NEW i \in Images, Named(i)' PROVE FlagValid(i)'
      BY <2>2, <3>1, <3>2 DEF Named, FlagValid, Holds
    <3> QED BY <2>2, <3>2 DEF FlagInv
  <2>3. pc' = "done" => flag'.crc = img
    <3>1. CASE pc' = "done"
      <4>1. PICK x \in Programmed(flag.crc, img) : flag' = [flag EXCEPT !.crc = x]
        BY <1>4, <3>1 DEF FinishFlagCrc, GiveUp
      <4>2. x = img
        BY <1>4, <4>1 DEF FinishFlagCrc, FlagInv, Programmed
      <4> QED BY <1>0, <4>1, <4>2 DEF FlagCell
    <3> QED BY <3>1
  <2> QED BY <1>4, <2>1, <2>2, <2>3 DEF FinishFlagCrc
<1>5. CASE flag' = flag /\ pc' \notin {"flagMagic", "flagSize", "flagCrc", "done"}
  BY <1>0, <1>1, <1>5, SameFlag DEF FlagInv
<1>6. \/ FinishFlagErase \/ FinishFlagMagic \/ FinishFlagSize \/ FinishFlagCrc
      \/ flag' = flag /\ pc' \notin {"flagMagic", "flagSize", "flagCrc", "done"}
  BY <1>0 DEF AppStep, FwStep, FwCall, EraseBefore, WriteWord, WriteReturn, WriteFailed, GiveUp,
     FinishTail, CheckSize, StartUpdate, StopUpdate, WriteData, Finish, flashVars
<1> QED BY <1>2, <1>3, <1>4, <1>5, <1>6

LEMMA LoaderFlag ==
  ASSUME ~BootFaults, TypeOK, RecoveryInv, IdleInv, FlagInv, LoaderStep PROVE FlagInv'
<1> USE DEF AppPcs, WritingPcs, flashVars, CopyError
<1>1. CASE BootCheck
  <2>1. pc' = "jump" => \A i \in Images : ~Named(i)
    BY <1>1 DEF BootCheck, FlagInv, Named
  <2> QED BY <1>1, <2>1, SameFlag DEF BootCheck, FlagInv
<1>2. CASE EraseApp \/ CopyWord
  <2>1. flag' = flag /\ backup' = backup /\ pc' \in {"erase", "copy"}
    BY <1>2 DEF EraseApp, CopyWord
  <2> QED BY <2>1, SameFlag DEF FlagInv
<1>3. CASE CopyEnd
  <2>1. PICK i \in Images : FlagValid(i)
    BY <1>3 DEF CopyEnd, RecoveryInv
  <2>2. Holds(app, i)
    BY <1>3, <2>1, CopiedWhole DEF CopyEnd
  <2>3. flag' = flag /\ backup' = backup /\ app' = app /\ pc' = "clear"
    BY <1>3 DEF CopyEnd
  <2>4. (FlagValid(i) /\ Holds(app, i))'
    BY <2>1, <2>2, <2>3, SameFlag DEF Holds
  <2> QED BY <2>3, <2>4, SameFlag DEF FlagInv
<1>4. CASE ClearUpgradeFlag
  <2>1. \A i \in Images : ~Named(i)'
    BY <1>4, ImageAssumption DEF ClearUpgradeFlag, ErasedFlag, Named
  <2>2. pc' = "jump"
    BY <1>4 DEF ClearUpgradeFlag
  <2> QED BY <2>1, <2>2 DEF FlagInv
<1>5. CASE JumpToApp
  <2>1. flag' = flag /\ backup' = backup /\ pc' \in {"run", "halt", "broken"} /\ pc = "jump"
    BY <1>5 DEF JumpToApp
  <2> QED BY <2>1, SameFlag DEF FlagInv
<1> QED BY <1>1, <1>2, <1>3, <1>4, <1>5 DEF LoaderStep, BootStep

\* What a power cut leaves: outside the APP's writer and the clearing of the flag it
\* touches neither the flag nor the backup partition.
LEMMA PowerLossLeaves ==
  ASSUME TypeOK, PowerLoss
  PROVE  /\ pc' = "boot" /\ flag \in FlagCell
         /\ \E es, ps : flag' \in DamagedFlag(es, ps)
         /\ pc \notin {"erase", "copy"} => app' = app
         /\ pc \in {"boot", "erase", "copy", "jump", "halt", "broken", "done"} =>
              flag' = flag /\ backup' = backup
         /\ pc = "clear" => backup' = backup
<1>1. backup \in [Offsets -> Cell] /\ app \in [Offsets -> Cell] /\ flag \in FlagCell
  BY DEF TypeOK, FlashTypeOK
<1>2. pc \notin {"erase", "copy"} => app' = app
  BY <1>1, DamagedNothing DEF PowerLoss, ErasingApp, ProgrammingApp
<1>3. pc \in {"boot", "erase", "copy", "jump", "halt", "broken", "done"} => flag' = flag
  BY <1>1, DamagedFlagNothing DEF PowerLoss, ErasingFlag, ProgrammingFlag
<1>4. pc \in {"boot", "erase", "copy", "jump", "halt", "broken", "done", "clear"} => backup' = backup
  BY <1>1, DamagedNothing DEF PowerLoss, ErasingBackup, ProgrammingBackup
<1> QED BY <1>1, <1>2, <1>3, <1>4 DEF PowerLoss, Restart

LEMMA RestartFlag ==
  ASSUME TypeOK, BootInv, FlagInv, SystemReset \/ PowerLoss PROVE FlagInv'
<1> USE DEF AppPcs, WritingPcs
<1>1. CASE SystemReset
  BY <1>1, SameFlag DEF SystemReset, Restart, flashVars, FlagInv
<1>2. CASE PowerLoss
  <2>1. pc' = "boot" /\ flag \in FlagCell /\ \E es, ps : flag' \in DamagedFlag(es, ps)
    BY <1>2, PowerLossLeaves
  <2>2. CASE flag' = flag /\ backup' = backup
    BY <2>1, <2>2, SameFlag DEF FlagInv
  <2>3. CASE \A i \in Images : ~Named(i)
    <3>1. \A i \in Images : ~Named(i)'
      BY <2>1, <2>3, DamagedNamed
    <3> QED BY <2>1, <3>1 DEF FlagInv
  <2>4. CASE pc = "clear"
    <3>1. backup' = backup
      BY <1>2, <2>4, PowerLossLeaves
    <3>2. ASSUME NEW i \in Images, Named(i)' PROVE FlagValid(i)'
      <4>1. Named(i)
        BY <2>1, <3>2, DamagedNamed
      <4>2. FlagValid(i)
        BY <4>1 DEF FlagInv
      <4> QED BY <3>1, <3>2, <4>2 DEF Named, FlagValid, Holds
    <3> QED BY <2>1, <3>2 DEF FlagInv
  <2>5. pc \in {"jump"} \cup (AppPcs \ {"done"}) => \A i \in Images : ~Named(i)
    BY DEF FlagInv
  <2>6. \/ pc \in {"jump"} \cup (AppPcs \ {"done"}) \/ pc = "clear"
        \/ pc \in {"boot", "erase", "copy", "jump", "halt", "broken", "done"}
    BY DEF TypeOK, BootPcs
  <2> QED BY <1>2, <2>2, <2>3, <2>4, <2>5, <2>6, PowerLossLeaves
<1> QED BY <1>1, <1>2

\* It holds in every state.
LEMMA FlagInvariant == ~BootFaults /\ WordsInPlace /\ SafeTails => (Spec => [](BootInv /\ FlagInv))
<1> SUFFICES ASSUME ~BootFaults, WordsInPlace, SafeTails PROVE Spec => [](BootInv /\ FlagInv)
  OBVIOUS
<1>1. Init => BootInv /\ FlagInv
  BY ImageAssumption DEF Init, BootInv, FlagInv, Named, ErasedFlag, AppPcs, WritingPcs
<1>2. TypeOK /\ RecoveryInv /\ IdleInv /\ WriterInv /\ BootInv /\ FlagInv /\ [Next]_vars =>
        (BootInv /\ FlagInv)'
  <2> SUFFICES ASSUME TypeOK, RecoveryInv, IdleInv, WriterInv, BootInv, FlagInv, [Next]_vars
               PROVE  (BootInv /\ FlagInv)'
    OBVIOUS
  <2>1. CASE Next
    BY <2>1, BootInductive, AppStepFlag, LoaderFlag, RestartFlag DEF Next
  <2>2. CASE UNCHANGED vars
    BY <2>2, SameFlashSameImages, SameFlag DEF vars, BootInv, FlagInv, Holds
  <2> QED BY <2>1, <2>2
<1> QED
  BY <1>1, <1>2, TypeCorrect, RecoveryInvariant, IdleInvariant, WriterInvariant, PTL DEF Spec

\* Only one image starts with the first word of a partition.
LEMMA OneImage ==
  ASSUME NEW part, NEW i \in Installable, NEW j \in Installable, Holds(part, i), Holds(part, j)
  PROVE  i = j
<1>1. 0 \in Offsets
  <2>1. Words \in Nat /\ Words > 0
    BY GeometryAssumption DEF Words
  <2> QED BY <2>1 DEF Offsets
<1>2. 0 * W < Size[i] /\ 0 * W < Size[j]
  BY GeometryAssumption, ImageAssumption DEF Installable
<1> QED BY <1>1, <1>2 DEF Holds

\* The installed image is what a valid flag names.
LEMMA InstalledByFlag ==
  /\ \A i \in Images : FlagValid(i) => Installed = i
  /\ (\A i \in Images : FlagValid(i) => Installed = i)'
<1>1. ASSUME NEW i \in Images, FlagValid(i) PROVE Installed = i
  BY <1>1 DEF Installed, FlagValid
<1>2. ASSUME NEW i \in Images, FlagValid(i)' PROVE Installed' = i
  BY <1>2 DEF Installed, FlagValid
<1> QED BY <1>1, <1>2

\* Without one it is the image that the APP partition holds.
LEMMA InstalledByApp ==
  ASSUME NEW i \in Installable, Holds(app, i), \A j \in Images : ~FlagValid(j)
  PROVE  Installed = i
<1>1. AppComplete /\ Installed = CHOOSE j \in Installable : Holds(app, j)
  BY DEF Installed, AppComplete
<1>2. Installed \in Installable /\ Holds(app, Installed)
  BY <1>1
<1> QED BY <1>2, OneImage

LEMMA InstalledByAppNext ==
  ASSUME NEW i \in Installable, Holds(app, i)', \A j \in Images : ~FlagValid(j)'
  PROVE  Installed' = i
<1>0. Holds(app', i)
  BY DEF Holds
<1>1. Installed' = CHOOSE j \in Installable : Holds(app', j)
  BY <1>0 DEF Installed, AppComplete, Holds
<1>2. Installed' \in Installable /\ Holds(app', Installed')
  BY <1>0, <1>1
<1> QED BY <1>0, <1>2, OneImage

\* The installed image does not change while the flash does not.
LEMMA SameInstalled ==
  ASSUME app' = app,
         \/ flag' = flag /\ backup' = backup
         \/ (\A i \in Images : ~FlagValid(i)) /\ (\A i \in Images : ~FlagValid(i)')
  PROVE  Installed' = Installed
<1>1. AppComplete' = AppComplete
      /\ (CHOOSE j \in Installable : Holds(app, j))' = CHOOSE j \in Installable : Holds(app, j)
  BY DEF AppComplete, Holds
<1>2. CASE flag' = flag /\ backup' = backup
  <2>1. (\E i \in Images : FlagValid(i))' = \E i \in Images : FlagValid(i)
    BY <1>2, SameFlag
  <2> QED BY <1>1, <1>2, <2>1 DEF Installed
<1>3. CASE (\A i \in Images : ~FlagValid(i)) /\ (\A i \in Images : ~FlagValid(i)')
  BY <1>1, <1>3 DEF Installed
<1> QED BY <1>2, <1>3

LEMMA NamedValid == \A i \in Images : FlagValid(i) => Named(i)
BY DEF FlagValid, Named

\* A step that leaves the installed image alone and at most drops the update is a
\* step of AtomicUpdate or a stutter.
LEMMA DropOrStutter ==
  ASSUME Installed' = Installed, Receiving' \in {Receiving, NoImage}
  PROVE  [Atomic!Next]_<<Installed, Receiving>>
BY DEF Atomic!Next, Atomic!Drop

\* A step of the writer begins, drops or commits the update.
LEMMA AppStepAtomic ==
  ASSUME TypeOK, FlagInv, FlagInv', AppStep
  PROVE  [Atomic!Next]_<<Installed, Receiving>>
<1>0. /\ pc \in AppPcs /\ pc' \in AppPcs /\ app' = app /\ pc # "done"
  BY AppStaysApp DEF AppStep, FwStep, FwCall, EraseBefore, WriteWord, WriteReturn, FinishTail,
     FinishFlagErase, FinishFlagMagic, FinishFlagSize, FinishFlagCrc, ProgramFlag, StartUpdate,
     StopUpdate, WriteData, Finish
<1>1. \A i \in Images : ~FlagValid(i)
  BY <1>0, NamedValid DEF FlagInv
<1>2. ASSUME \A i \in Images : ~FlagValid(i)' PROVE Installed' = Installed
  BY <1>0, <1>1, <1>2, SameInstalled
<1>3. pc' # "done" => \A i \in Images : ~FlagValid(i)'
  <2>1. pc' # "done" => \A i \in Images : ~Named(i)'
    BY <1>0 DEF FlagInv
  <2> QED BY <2>1 DEF FlagValid, Named
<1>4. ASSUME NEW i \in Images, StartUpdate(i) PROVE [Atomic!Next]_<<Installed, Receiving>>
  <2>1. Installed' = Installed
    BY <1>2, <1>3, <1>4 DEF StartUpdate
  <2>2. Receiving' = i
    BY <1>4 DEF StartUpdate, Receiving
  <2> QED BY <2>1, <2>2 DEF Atomic!Next, Atomic!Begin
<1>5. CASE FinishFlagCrc /\ pc' = "done"
  <2>1. state = "RECVING" /\ state' = "DONE" /\ img' = img /\ img \in Images
    BY <1>5 DEF FinishFlagCrc, GiveUp, TypeOK, FwTypeOK, WritingPcs, Installable
  <2>2. Receiving = img /\ Receiving' = img /\ img # NoImage
    BY <2>1, ChunkAssumption DEF Receiving
  <2>3. flag'.crc = img
    <3>1. PICK x \in Programmed(flag.crc, img) : flag' = [flag EXCEPT !.crc = x]
      BY <1>5 DEF FinishFlagCrc, GiveUp
    <3>2. x = img
      BY <1>5, <3>1 DEF FinishFlagCrc, FlagInv, Programmed
    <3> QED BY <3>1, <3>2 DEF TypeOK, FlashTypeOK, FlagCell
  <2>4. ASSUME NEW i \in Images, FlagValid(i)' PROVE [Atomic!Next]_<<Installed, Receiving>>
    <3>1. i = img
      BY <2>3, <2>4 DEF FlagValid
    <3>2. Installed' = img
      BY <2>4, <3>1, InstalledByFlag
    <3> QED BY <2>2, <3>2 DEF Atomic!Next, Atomic!Commit
  <2>5. CASE \A i \in Images : ~FlagValid(i)'
    BY <1>2, <2>2, <2>5, DropOrStutter
  <2> QED BY <2>4, <2>5
<1>6. ASSUME ~(FinishFlagCrc /\ pc' = "done"), \A i \in Images : ~StartUpdate(i)
      PROVE  [Atomic!Next]_<<Installed, Receiving>>
  <2>1. pc' # "done" /\ (state' = "IDLE" \/ UNCHANGED <<state, img>>)
    BY <1>6 DEF AppStep, FwStep, FwCall, EraseBefore, WriteWord, WriteReturn, WriteFailed, GiveUp,
       Reset, FinishTail, CheckSize, FinishFlagErase, FinishFlagMagic, FinishFlagSize,
       FinishFlagCrc, ProgramFlag, StopUpdate, WriteData, Finish, fwVars
  <2>2. Receiving' \in {Receiving, NoImage}
    BY <2>1 DEF Receiving
  <2> QED BY <1>2, <1>3, <2>1, <2>2, DropOrStutter
<1> QED BY <1>4, <1>5, <1>6

\* Every step of the Bootloader is a stutter.
LEMMA LoaderAtomic ==
  ASSUME ~BootFaults, TypeOK, RecoveryInv, IdleInv, FlagInv, LoaderStep
  PROVE  [Atomic!Next]_<<Installed, Receiving>>
<1> USE DEF flashVars, CopyError
<1>1. Receiving' = Receiving
  BY LoaderIsIdle DEF Receiving
<1>2. CASE BootCheck \/ CopyEnd \/ JumpToApp
  <2>1. app' = app /\ flag' = flag /\ backup' = backup
    BY <1>2 DEF BootCheck, CopyEnd, JumpToApp
  <2> QED BY <1>1, <2>1, SameInstalled, DropOrStutter
<1>3. CASE EraseApp \/ CopyWord
  <2>1. PICK i \in Images : FlagValid(i)
    BY <1>3 DEF EraseApp, CopyWord, RecoveryInv
  <2>2. flag' = flag /\ backup' = backup
    BY <1>3 DEF EraseApp, CopyWord
  <2>3. FlagValid(i)'
    BY <2>1, <2>2, SameFlag
  <2>4. Installed = i /\ Installed' = i
    BY <2>1, <2>3, InstalledByFlag
  <2> QED BY <1>1, <2>4, DropOrStutter
<1>4. CASE ClearUpgradeFlag
  <2>1. PICK i \in Images : FlagValid(i) /\ Holds(app, i)
    BY <1>4 DEF ClearUpgradeFlag, FlagInv
  <2>2. flag' = ErasedFlag /\ app' = app
    BY <1>4 DEF ClearUpgradeFlag
  <2>3. i \in Installable /\ Holds(app, i)'
    BY <2>1, <2>2 DEF FlagValid, Holds
  <2>4. \A j \in Images : ~FlagValid(j)'
    BY <2>2, ImageAssumption DEF ErasedFlag, FlagValid
  <2>5. Installed = i /\ Installed' = i
    BY <2>1, <2>3, <2>4, InstalledByFlag, InstalledByAppNext
  <2> QED BY <1>1, <2>5, DropOrStutter
<1> QED BY <1>2, <1>3, <1>4 DEF LoaderStep, BootStep

\* A restart drops the update: no power cut changes the installed image.
LEMMA RestartAtomic ==
  ASSUME TypeOK, RecoveryInv, BootInv, FlagInv, FlagInv', SystemReset \/ PowerLoss
  PROVE  [Atomic!Next]_<<Installed, Receiving>>
<1>1. Receiving' = NoImage
  BY DEF SystemReset, PowerLoss, Restart, Reset, Receiving
<1>2. CASE SystemReset
  BY <1>1, <1>2, SameInstalled, DropOrStutter DEF SystemReset, flashVars
<1>3. CASE PowerLoss
  <2>1. CASE pc \in {"boot", "jump", "halt", "broken", "done"}
    <3>1. app' = app /\ flag' = flag /\ backup' = backup
      BY <1>3, <2>1, PowerLossLeaves
    <3> QED BY <1>1, <3>1, SameInstalled, DropOrStutter
  <2>2. CASE pc \in {"erase", "copy"}
    <3>1. PICK i \in Images : FlagValid(i)
      BY <2>2 DEF RecoveryInv
    <3>2. FlagValid(i)'
      BY <1>3, <2>2, <3>1, PowerLossLeaves, SameFlag
    <3>3. Installed = i /\ Installed' = i
      BY <3>1, <3>2, InstalledByFlag
    <3> QED BY <1>1, <3>3, DropOrStutter
  <2>3. CASE pc = "clear"
    <3>1. PICK i \in Images : FlagValid(i) /\ Holds(app, i)
      BY <2>3 DEF FlagInv
    <3>2. app' = app
      BY <1>3, <2>3, PowerLossLeaves
    <3>3. Installed = i /\ i \in Installable /\ Holds(app, i)'
      BY <3>1, <3>2, InstalledByFlag DEF FlagValid, Holds
    <3>4. ASSUME NEW j \in Images, FlagValid(j)' PROVE Installed' = i
      <4>1. Named(j)'
        BY <3>4 DEF FlagValid, Named
      <4>2. Named(j)
        BY <1>3, <4>1, PowerLossLeaves, DamagedNamed
      <4>3. j = i
        BY <3>1, <4>2 DEF Named, FlagValid
      <4> QED BY <3>4, <4>3, InstalledByFlag
    <3>5. Installed' = i
      BY <3>3, <3>4, InstalledByAppNext
    <3> QED BY <1>1, <3>3, <3>5, DropOrStutter
  <2>4. CASE pc \in AppPcs \ {"done"}
    <3>1. \A i \in Images : ~Named(i)
      BY <2>4 DEF FlagInv
    <3>2. \A i \in Images : ~Named(i)'
      BY <1>3, <3>1, PowerLossLeaves, DamagedNamed
    <3>3. app' = app
      BY <1>3, <2>4, PowerLossLeaves DEF AppPcs, WritingPcs
    <3>4. (\A i \in Images : ~FlagValid(i)) /\ (\A i \in Images : ~FlagValid(i)')
      BY <3>1, <3>2 DEF FlagValid, Named
    <3> QED BY <1>1, <3>3, <3>4, SameInstalled, DropOrStutter
  <2> QED BY <2>1, <2>2, <2>3, <2>4 DEF TypeOK, BootPcs
<1> QED BY <1>2, <1>3

\* The update path is one atomic update: with a Bootloader whose flash works, whole
\* words from the transport and tails that are not alone in a sector, no power cut and
\* no error of the APP's flash operations makes the device install anything but the
\* image it was sent, nor any part of it.
THEOREM UpdateIsAtomic ==
  ~BootFaults /\ WordsInPlace /\ SafeTails => (Spec => ImplementsAtomicUpdate)
<1> SUFFICES ASSUME ~BootFaults, WordsInPlace, SafeTails PROVE Spec => ImplementsAtomicUpdate
  OBVIOUS
<1>1. Init => Atomic!Init
  <2> SUFFICES ASSUME Init PROVE Installed \in Images /\ Receiving = NoImage
    BY DEF Atomic!Init
  <2>1. PICK i \in Installable :
          app = [k \in Offsets |-> IF k * W < Size[i] THEN <<i, k>> ELSE Erased]
    BY DEF Init
  <2>2. Holds(app, i)
    BY <2>1 DEF Holds
  <2>3. \A j \in Images : ~FlagValid(j)
    BY ImageAssumption DEF Init, ErasedFlag, FlagValid
  <2>4. Installed = i /\ i \in Images
    BY <2>2, <2>3, InstalledByApp DEF Installable
  <2> QED BY <2>4 DEF Init, FwInit, Receiving
<1>2. /\ TypeOK /\ RecoveryInv /\ IdleInv /\ BootInv /\ FlagInv
      /\ (BootInv /\ FlagInv)' /\ [Next]_vars
      => [Atomic!Next]_<<Installed, Receiving>>
  <2>1. CASE UNCHANGED vars
    BY <2>1, SameInstalled, DropOrStutter DEF vars, Receiving
  <2> QED BY <2>1, AppStepAtomic, LoaderAtomic, RestartAtomic DEF Next
<1> QED
  BY <1>1, <1>2, TypeCorrect, RecoveryInvariant, IdleInvariant, FlagInvariant, PTL
  DEF Spec, ImplementsAtomicUpdate, Atomic!Spec

-----------------------------------------------------------------------------
(* TwoSlots, with no hypothesis on faults, chunks or tails.                  *)

\* What the refinement needs besides RecoveryInv: the CRC32 is the last word of the
\* flag, and the flag is cleared behind a copy of the image it names.
SlotInv ==
  /\ pc \in {"flagMagic", "flagSize", "flagCrc"} => flag.crc = Erased
  /\ pc = "clear" => \E i \in Images : FlagValid(i) /\ Holds(app, i)

LEMMA SlotInductive ==
  ASSUME RecoveryInv, SlotInv, [Next]_vars PROVE SlotInv'
<1> TypeOK
  BY DEF RecoveryInv
<1> flag \in FlagCell
  BY DEF TypeOK, FlashTypeOK
<1>1. CASE AppStep
  <2>1. pc' # "clear"
    BY <1>1, AppStaysApp DEF BootPcs
  <2>2. CASE EraseBefore \/ WriteWord \/ WriteReturn \/ FinishTail \/ FinishFlagErase
    BY <2>1, <2>2 DEF EraseBefore, WriteWord, WriteReturn, WriteFailed, GiveUp, FinishTail,
       CheckSize, FinishFlagErase, ErasedFlag, SlotInv
  <2>3. CASE FinishFlagMagic \/ FinishFlagSize \/ FinishFlagCrc
    BY <2>1, <2>3 DEF FinishFlagMagic, FinishFlagSize, FinishFlagCrc, ProgramFlag, GiveUp, FlagCell,
       SlotInv
  <2>4. CASE FwCall
    BY <2>1, <2>4 DEF FwCall, StartUpdate, WriteData, StopUpdate, Finish, CheckSize, GiveUp, SlotInv
  <2> QED BY <1>1, <2>2, <2>3, <2>4 DEF AppStep, FwStep
<1>2. CASE LoaderStep
  <2>1. CASE CopyEnd
    <3>1. PICK i \in Images : FlagValid(i)
      BY <2>1 DEF CopyEnd, RecoveryInv
    <3>2. Holds(app, i)
      BY <2>1, <3>1, CopiedWhole DEF CopyEnd
    <3>3. pc' = "clear" /\ UNCHANGED flashVars
      BY <2>1 DEF CopyEnd
    <3>4. FlagValid(i)' /\ Holds(app, i)'
      BY <3>1, <3>2, <3>3 DEF flashVars, FlagValid, Holds
    <3> QED BY <3>3, <3>4 DEF SlotInv
  <2>2. CASE BootCheck \/ EraseApp \/ CopyWord \/ ClearUpgradeFlag \/ JumpToApp
    BY <2>2 DEF BootCheck, EraseApp, CopyWord, ClearUpgradeFlag, JumpToApp, CopyError, SlotInv
  <2> QED BY <1>2, <2>1, <2>2 DEF LoaderStep, BootStep
<1>3. CASE SystemReset \/ PowerLoss
  BY <1>3 DEF SystemReset, PowerLoss, Restart, SlotInv
<1>4. CASE UNCHANGED vars
  BY <1>4 DEF vars, SlotInv, FlagValid, Holds
<1> QED BY <1>1, <1>2, <1>3, <1>4 DEF Next

LEMMA SlotInvariant == Spec => []SlotInv
<1>1. Init => SlotInv
  BY DEF Init, SlotInv
<1> QED BY <1>1, SlotInductive, RecoveryInvariant, PTL DEF Spec

\* Cells that fail or are erased: each keeps its value or names no image.
Loses(part, q) == \A k \in Offsets : q[k] \in {part[k], Erased, Garbled}

LEMMA DamagedLoses ==
  ASSUME NEW part, NEW es, NEW ps, NEW q \in Damaged(part, es, ps)
  PROVE  Loses(part, q)
BY DEF Damaged, Loses

\* A partition never becomes whole by losing cells.
LEMMA LosesHolds ==
  ASSUME NEW part, NEW q, Loses(part, q), NEW i \in Images, Holds(q, i)
  PROVE  Holds(part, i)
<1> SUFFICES ASSUME NEW k \in Offsets, k * W < Size[i] PROVE part[k] = <<i, k>>
  BY DEF Holds
<1>1. q[k] = <<i, k>> /\ <<i, k>> \in Images \X Nat
  BY DEF Holds, Offsets
<1> QED BY <1>1, ImageAssumption DEF Loses

\* The pending image is the one the flag names, before and after a step.
LEMMA PendingIs ==
  /\ \A i \in Images : FlagValid(i) => Pending = i
  /\ (\A i \in Images : ~FlagValid(i)) => Pending = NoImage
  /\ (\A i \in Images : FlagValid(i) => Pending = i)'
  /\ (\A i \in Images : ~FlagValid(i)') => Pending' = NoImage
<1>1. \A i \in Images : FlagValid(i) => flag.crc = i
  BY DEF FlagValid
<1>2. \A i \in Images : FlagValid(i)' => flag.crc' = i
  BY DEF FlagValid
<1> QED BY <1>1, <1>2 DEF Pending

\* What runs is the one image that the APP partition holds.
LEMMA RunningIs ==
  ASSUME NEW i \in Installable
  PROVE  /\ Holds(app, i) => Running = i
         /\ Holds(app', i) => Running' = i
<1>1. ASSUME Holds(app, i) PROVE Running = i
  <2>1. AppComplete /\ Running = CHOOSE j \in Installable : Holds(app, j)
    BY <1>1 DEF AppComplete, Running
  <2>2. Running \in Installable /\ Holds(app, Running)
    BY <1>1, <2>1
  <2> QED BY <1>1, <2>2, OneImage
<1>2. ASSUME Holds(app', i) PROVE Running' = i
  <2>1. Running' = CHOOSE j \in Installable : Holds(app', j)
    BY <1>2 DEF AppComplete, Running, Holds
  <2>2. Running' \in Installable /\ Holds(app', Running')
    BY <1>2, <2>1
  <2> QED BY <1>2, <2>2, OneImage
<1> QED BY <1>1, <1>2

LEMMA NothingRuns ==
  /\ (\A i \in Installable : ~Holds(app, i)) => Running = NoImage
  /\ (\A i \in Installable : ~Holds(app', i)) => Running' = NoImage
  /\ AppComplete => Running \in Installable /\ Running # NoImage
<1>1. ASSUME AppComplete PROVE Running \in Installable
  BY <1>1 DEF AppComplete, Running
<1> QED BY <1>1, ChunkAssumption DEF AppComplete, Running, Installable, Holds

LEMMA SameRunning == ASSUME app' = app PROVE Running' = Running
BY DEF Running, AppComplete, Holds

\* Losing cells of the APP partition leaves what runs or nothing.
LEMMA LosesRunning ==
  ASSUME Loses(app, app') PROVE Running' \in {Running, NoImage}
<1>1. ASSUME NEW i \in Installable, Holds(app', i) PROVE Running' = Running
  BY <1>1, RunningIs, LosesHolds DEF Installable
<1> QED BY <1>1, NothingRuns

\* Losing cells of the backup partition or words of the flag leaves what is pending
\* or nothing.
LEMMA LosesPending ==
  ASSUME flag \in FlagCell, Loses(backup, backup'),
         flag' = flag \/ \E es, ps : flag' \in DamagedFlag(es, ps)
  PROVE  Pending' \in {Pending, NoImage}
<1>1. ASSUME NEW i \in Images, FlagValid(i)' PROVE Pending' = Pending
  <2>1. Named(i)'
    BY <1>1 DEF FlagValid, Named
  <2>2. Named(i)
    BY <2>1, DamagedNamed, SameFlag
  <2>3. Holds(backup', i) /\ i \in Installable
    BY <1>1 DEF FlagValid, Holds
  <2>4. FlagValid(i)
    BY <2>2, <2>3, LosesHolds DEF FlagValid, Named
  <2> QED BY <1>1, <2>4, PendingIs
<1> QED BY <1>1, PendingIs

LEMMA SamePending ==
  ASSUME flag' = flag, backup' = backup PROVE Pending' = Pending
BY DEF Pending, FlagValid, Holds

\* Steps of TwoSlots by their effect.
SlotStep == [Slots!Next]_<<Running, Pending, Receiving>>

LEMMA DropsOnly ==
  ASSUME Running' = Running, Pending' = Pending, Receiving' \in {Receiving, NoImage}
  PROVE  SlotStep
BY DEF SlotStep, Slots!Next, Slots!Drop

LEMMA MakesRoom ==
  ASSUME Running' = Running, Running # NoImage, Pending' \in {Pending, NoImage},
         Receiving # NoImage, Receiving' \in {Receiving, NoImage}
  PROVE  SlotStep
BY DEF SlotStep, Slots!Next, Slots!Drop, Slots!Withdraw, Slots!Withdrawal

\* A word of the image being received, or garbage, in the backup partition.
LEMMA WordCommits ==
  ASSUME TypeOK, Running' = Running, Running # NoImage, state = "RECVING", UNCHANGED <<state, img>>,
         flag' = flag, NEW k, NEW x \in {<<img, k>>, Garbled}, backup' = [backup EXCEPT ![k] = x]
  PROVE  SlotStep
<1>0. img \in Images /\ Receiving = img /\ Receiving' = img /\ img # NoImage
  BY ChunkAssumption DEF TypeOK, FwTypeOK, Receiving, Installable
<1>1. CASE FlagValid(img)'
  <2>1. Pending' = img
    BY <1>0, <1>1, PendingIs
  <2> QED BY <1>0, <2>1 DEF SlotStep, Slots!Next, Slots!Commit
<1>2. CASE ~FlagValid(img)'
  <2>1. ASSUME NEW i \in Images, FlagValid(i)' PROVE FlagValid(i)
    <3>1. i # img /\ Holds(backup', i)
      BY <1>2, <2>1 DEF FlagValid, Holds
    <3>2. ASSUME NEW j \in Offsets, j * W < Size[i] PROVE backup[j] = <<i, j>>
      <4>1. backup'[j] = <<i, j>> /\ j \in Nat
        BY <3>1, <3>2 DEF Holds, Offsets
      <4>2. backup'[j] # x
        BY <3>1, <4>1, ImageAssumption
      <4> QED BY <4>1, <4>2 DEF TypeOK, FlashTypeOK
    <3>3. Holds(backup, i)
      BY <3>2 DEF Holds
    <3> QED BY <2>1, <3>3 DEF FlagValid
  <2>2. Pending' \in {Pending, NoImage}
    BY <2>1, PendingIs
  <2> QED BY <1>0, <2>2, MakesRoom
<1> QED BY <1>1, <1>2

\* The calls of a transport leave the flash alone.
LEMMA FwCallSlots == ASSUME FwCall PROVE SlotStep
<1>1. Running' = Running /\ Pending' = Pending
  BY SameRunning, SamePending DEF FwCall, StartUpdate, WriteData, StopUpdate, Finish, flashVars
<1>2. ASSUME NEW i \in Images, StartUpdate(i) PROVE SlotStep
  <2>1. Receiving' = i
    BY <1>2 DEF StartUpdate, Receiving
  <2> QED BY <1>1, <2>1 DEF SlotStep, Slots!Next, Slots!Begin
<1>3. CASE \A i \in Images : ~StartUpdate(i)
  <2>1. Receiving' \in {Receiving, NoImage}
    BY <1>3 DEF FwCall, WriteData, StopUpdate, Finish, CheckSize, GiveUp, Reset, fwVars, Receiving
  <2> QED BY <1>1, <2>1, DropsOnly
<1> QED BY <1>2, <1>3

\* The steps of a call in progress, on the backup partition and on the flag.
LEMMA FwStepSlots ==
  ASSUME RecoveryInv, SlotInv, FwStep PROVE SlotStep
<1>0. /\ TypeOK /\ flag \in FlagCell /\ backup \in [Offsets -> Cell]
      /\ pc \in WritingPcs /\ app' = app
      /\ state = "RECVING" /\ img \in Images
  BY DEF RecoveryInv, TypeOK, FlashTypeOK, FwTypeOK, Installable, FwStep, EraseBefore, WriteWord,
     WriteReturn, FinishTail, FinishFlagErase, FinishFlagMagic, FinishFlagSize, FinishFlagCrc,
     ProgramFlag, WritingPcs, flashVars
<1>1. Running' = Running /\ Running # NoImage
  BY <1>0, SameRunning, NothingRuns DEF RecoveryInv, AppPcs
<1>2. Receiving = img /\ Receiving # NoImage
  BY <1>0, ChunkAssumption DEF Receiving
<1>3. state' = "IDLE" \/ UNCHANGED <<state, img>> \/ (state' = "DONE" /\ img' = img)
  BY DEF FwStep, EraseBefore, WriteWord, WriteReturn, WriteFailed, GiveUp, Reset, FinishTail,
     CheckSize, FinishFlagErase, FinishFlagMagic, FinishFlagSize, FinishFlagCrc, ProgramFlag,
     fwVars
<1>4. Receiving' \in {Receiving, NoImage}
  BY <1>0, <1>3 DEF Receiving
<1>5. ASSUME Loses(backup, backup'), flag' = flag PROVE SlotStep
  BY <1>0, <1>1, <1>2, <1>4, <1>5, LosesPending, MakesRoom
<1>6. CASE EraseBefore
  <2>1. flag' = flag
    BY <1>6 DEF EraseBefore
  <2>2. Loses(backup, backup')
    BY <1>6, DamagedLoses DEF EraseBefore, Loses
  <2> QED BY <1>5, <2>1, <2>2
<1>7. CASE WriteWord
  <2>1. flag' = flag
    BY <1>7 DEF WriteWord
  <2>2. CASE backup' \in Damaged(backup, {}, WriteCells)
    BY <1>5, <2>1, <2>2, DamagedLoses
  <2>3. CASE backup' = [k \in Offsets |-> IF k \in WriteCells THEN Garbled ELSE backup[k]]
    <3>1. Loses(backup, backup')
      BY <2>3 DEF Loses
    <3> QED BY <1>5, <2>1, <3>1
  <2>4. ASSUME UNCHANGED <<state, img>>,
               NEW x \in Programmed(backup[WriteOffset], <<img, WriteOffset>>),
               backup' = [backup EXCEPT ![WriteOffset] = x]
        PROVE  SlotStep
    <3>1. x \in {<<img, WriteOffset>>, Garbled}
      BY DEF Programmed
    <3> QED BY <1>0, <1>1, <2>1, <2>4, <3>1, WordCommits
  <2> QED BY <1>7, <2>2, <2>3, <2>4 DEF WriteWord
<1>8. CASE WriteReturn
  <2>1. flag' = flag /\ backup' = backup
    BY <1>8 DEF WriteReturn, flashVars
  <2> QED BY <1>1, <1>4, <2>1, SamePending, DropsOnly
<1>9. CASE FinishTail
  <2>1. flag' = flag
    BY <1>9 DEF FinishTail
  <2>2. CASE backup' \in Damaged(backup, {}, {TailOffset})
    BY <1>5, <2>1, <2>2, DamagedLoses
  <2>3. ASSUME NEW x \in Programmed(backup[TailOffset], TailWord),
               backup' = [backup EXCEPT ![TailOffset] = x], CheckSize
        PROVE  SlotStep
    <3>1. CASE recv_size = Size[img]
      <4>1. x \in {<<img, TailOffset>>, Garbled}
        BY <3>1 DEF Programmed, TailWord
      <4>2. UNCHANGED <<state, img>>
        BY <2>3, <3>1 DEF CheckSize
      <4> QED BY <1>0, <1>1, <2>1, <2>3, <4>1, <4>2, WordCommits
    <3>2. CASE recv_size # Size[img]
      <4>1. x = Garbled
        BY <3>2 DEF Programmed, TailWord
      <4>2. Loses(backup, backup')
        BY <1>0, <2>3, <4>1 DEF Loses
      <4> QED BY <1>5, <2>1, <4>2
    <3> QED BY <3>1, <3>2
  <2> QED BY <1>9, <2>2, <2>3 DEF FinishTail
<1>10. ASSUME backup' = backup, \E es, ps : flag' \in DamagedFlag(es, ps) PROVE SlotStep
  <2>1. Loses(backup, backup')
    BY <1>10 DEF Loses
  <2> QED BY <1>0, <1>1, <1>2, <1>4, <1>10, <2>1, LosesPending, MakesRoom
<1>11. CASE FinishFlagErase
  <2>1. backup' = backup
    BY <1>11 DEF FinishFlagErase
  <2>2. flag' \in DamagedFlag(FlagFields, {})
    BY <1>11 DEF FinishFlagErase, DamagedFlag, ErasedFlag, FlagFields
  <2> QED BY <1>10, <2>1, <2>2
<1>12. ASSUME backup' = backup, flag.crc = Erased, flag'.crc = Erased PROVE SlotStep
  <2>1. \A i \in Images : ~FlagValid(i) /\ ~FlagValid(i)'
    BY <1>12, ImageAssumption DEF FlagValid
  <2>2. Pending = NoImage /\ Pending' = NoImage
    BY <2>1, PendingIs
  <2> QED BY <1>1, <1>4, <2>2, DropsOnly
<1>13. CASE FinishFlagMagic \/ FinishFlagSize
  <2>1. backup' = backup /\ flag.crc = Erased
    BY <1>13 DEF FinishFlagMagic, FinishFlagSize, ProgramFlag, SlotInv
  <2>2. flag'.crc = Erased \/ \E es, ps : flag' \in DamagedFlag(es, ps)
    BY <1>0, <1>13, <2>1 DEF FinishFlagMagic, FinishFlagSize, ProgramFlag, FlagCell
  <2> QED BY <1>10, <1>12, <2>1, <2>2
<1>14. CASE FinishFlagCrc
  <2>1. backup' = backup /\ flag.crc = Erased
    BY <1>14 DEF FinishFlagCrc, SlotInv
  <2>2. CASE flag' \in DamagedFlag({}, {"crc"})
    BY <1>10, <2>1, <2>2
  <2>3. ASSUME NEW x \in Programmed(flag.crc, img), flag' = [flag EXCEPT !.crc = x],
               state' = "DONE", img' = img
        PROVE  SlotStep
    <3>1. flag'.crc = img
      BY <1>0, <2>1, <2>3 DEF Programmed, FlagCell
    <3>2. Receiving' = Receiving
      BY <1>0, <2>3 DEF Receiving
    <3>3. Pending = NoImage
      <4>1. \A i \in Images : ~FlagValid(i)
        BY <2>1, ImageAssumption DEF FlagValid
      <4> QED BY <4>1, PendingIs
    <3>4. Pending' \in {img, NoImage}
      <4>1. \A i \in Images : FlagValid(i)' => i = img
        BY <3>1 DEF FlagValid
      <4> QED BY <1>0, <4>1, PendingIs
    <3> QED BY <1>1, <1>2, <3>2, <3>3, <3>4 DEF SlotStep, Slots!Next, Slots!Commit
  <2> QED BY <1>14, <2>2, <2>3 DEF FinishFlagCrc
<1> QED BY <1>6, <1>7, <1>8, <1>9, <1>11, <1>13, <1>14 DEF FwStep

\* The Bootloader tears down what runs only to install what is pending.
LEMMA LoaderSlots ==
  ASSUME RecoveryInv, IdleInv, SlotInv, LoaderStep PROVE SlotStep
<1>0. TypeOK /\ flag \in FlagCell /\ app \in [Offsets -> Cell] /\ backup \in [Offsets -> Cell]
  BY DEF RecoveryInv, TypeOK, FlashTypeOK
<1>1. Receiving' = Receiving
  BY LoaderIsIdle DEF Receiving
<1>2. CASE BootCheck \/ CopyEnd \/ JumpToApp
  <2>1. app' = app /\ flag' = flag /\ backup' = backup
    BY <1>2 DEF BootCheck, CopyEnd, JumpToApp, flashVars
  <2> QED BY <1>1, <2>1, SameRunning, SamePending, DropsOnly
<1>3. ASSUME NEW i \in Images, FlagValid(i), flag' = flag, backup' = backup,
             Loses(app, app')
      PROVE  SlotStep
  <2>1. Pending = i /\ Pending' = Pending /\ i # NoImage
    BY <1>3, PendingIs, SamePending, ChunkAssumption
  <2>2. Running' \in {Running, NoImage}
    BY <1>3, LosesRunning
  <2> QED BY <1>1, <2>1, <2>2 DEF SlotStep, Slots!Next, Slots!Tear
<1>4. CASE EraseApp
  <2>1. PICK i \in Images : FlagValid(i)
    BY <1>4 DEF EraseApp, RecoveryInv
  <2>2. Loses(app, app')
    BY <1>4, DamagedLoses DEF EraseApp, Loses
  <2> QED BY <1>3, <1>4, <2>1, <2>2 DEF EraseApp
<1>5. CASE CopyWord
  <2>1. PICK i \in Images : FlagValid(i)
    BY <1>5 DEF CopyWord, RecoveryInv
  <2>2. pc = "copy" /\ flag' = flag /\ backup' = backup
    BY <1>5 DEF CopyWord
  <2>3. CASE app' \in Damaged(app, {}, {cursor})
    BY <1>3, <2>1, <2>2, <2>3, DamagedLoses
  <2>4. ASSUME NEW x \in Programmed(app[cursor], backup[cursor]),
               app' = [app EXCEPT ![cursor] = x]
        PROVE  SlotStep
    <3>1. ASSUME NEW k \in Offsets PROVE app'[k] \in {backup[k], Erased}
      BY <1>0, <2>2, <2>4 DEF RecoveryInv, CopyProgress, Programmed
    <3>2. Pending = i /\ Pending' = i /\ i # NoImage
      BY <2>1, <2>2, PendingIs, SamePending, ChunkAssumption
    <3>3. ASSUME NEW j \in Installable, Holds(app', j) PROVE Running' = i
      <4>1. ASSUME NEW k \in Offsets, k * W < Size[j] PROVE backup[k] = <<j, k>>
        <5>1. app'[k] = <<j, k>> /\ <<j, k>> \in Images \X Nat
          BY <3>3, <4>1 DEF Holds, Installable, Offsets
        <5> QED BY <3>1, <5>1, ImageAssumption
      <4>2. j = i
        BY <2>1, <4>1, OneImage DEF FlagValid, Holds
      <4> QED BY <3>3, <4>2, RunningIs
    <3>4. Running' \in {i, NoImage}
      BY <3>3, NothingRuns
    <3> QED BY <1>1, <3>2, <3>4 DEF SlotStep, Slots!Next, Slots!Tear, Slots!Install
  <2> QED BY <1>5, <2>3, <2>4 DEF CopyWord
<1>6. CASE ClearUpgradeFlag
  <2>1. PICK i \in Images : FlagValid(i) /\ Holds(app, i)
    BY <1>6 DEF ClearUpgradeFlag, SlotInv
  <2>2. Pending = i /\ Running = i /\ i # NoImage
    BY <2>1, PendingIs, RunningIs, ChunkAssumption DEF FlagValid
  <2>3. app' = app /\ backup' = backup /\ flag' \in DamagedFlag(FlagFields, {})
    BY <1>6 DEF ClearUpgradeFlag, DamagedFlag, ErasedFlag, FlagFields
  <2>4. Pending' \in {Pending, NoImage} /\ Running' = Running
    <3>1. Loses(backup, backup')
      BY <2>3 DEF Loses
    <3> QED BY <1>0, <2>3, <3>1, LosesPending, SameRunning
  <2> QED BY <1>1, <2>2, <2>4 DEF SlotStep, Slots!Next, Slots!Withdraw, Slots!Withdrawal
<1> QED BY <1>2, <1>4, <1>5, <1>6 DEF LoaderStep, BootStep

\* A restart ends the update; a power cut does what the operation it cuts might have
\* done.
LEMMA RestartSlots ==
  ASSUME RecoveryInv, IdleInv, SlotInv, SystemReset \/ PowerLoss PROVE SlotStep
<1>0. /\ TypeOK /\ flag \in FlagCell /\ app \in [Offsets -> Cell] /\ backup \in [Offsets -> Cell]
      /\ Receiving' = NoImage
  BY DEF RecoveryInv, TypeOK, FlashTypeOK, SystemReset, PowerLoss, Restart, Reset, Receiving
<1>1. CASE SystemReset
  <2>1. app' = app /\ flag' = flag /\ backup' = backup
    BY <1>1 DEF SystemReset, flashVars
  <2> QED BY <1>0, <2>1, SameRunning, SamePending, DropsOnly
<1>2. CASE PowerLoss
  <2>1. /\ Loses(app, app') /\ Loses(backup, backup')
        /\ \E es, ps : flag' \in DamagedFlag(es, ps)
    BY <1>2, DamagedLoses DEF PowerLoss
  <2>2. Running' \in {Running, NoImage} /\ Pending' \in {Pending, NoImage}
    BY <1>0, <2>1, LosesRunning, LosesPending
  <2>3. CASE pc \in WritingPcs
    <3>1. Running' = Running /\ Running # NoImage
      BY <1>0, <1>2, <2>3, PowerLossLeaves, SameRunning, NothingRuns
      DEF WritingPcs, AppPcs, RecoveryInv
    <3>2. Receiving # NoImage
      BY <1>0, <2>3, ChunkAssumption DEF TypeOK, FwTypeOK, Receiving, Installable
    <3> QED BY <1>0, <2>2, <3>1, <3>2, MakesRoom
  <2>4. CASE pc \in {"erase", "copy"}
    <3>1. PICK i \in Images : FlagValid(i)
      BY <2>4 DEF RecoveryInv
    <3>2. Pending' = Pending /\ Pending # NoImage
      BY <1>0, <1>2, <2>4, <3>1, PowerLossLeaves, SamePending, PendingIs, ChunkAssumption
    <3>3. Receiving = NoImage
      BY <2>4 DEF IdleInv, BootPcs, Receiving
    <3> QED BY <1>0, <2>2, <3>2, <3>3 DEF SlotStep, Slots!Next, Slots!Tear
  <2>5. CASE pc = "clear"
    <3>1. PICK i \in Images : FlagValid(i) /\ Holds(app, i)
      BY <2>5 DEF SlotInv
    <3>2. Pending = i /\ Running = i /\ i # NoImage
      BY <3>1, PendingIs, RunningIs, ChunkAssumption DEF FlagValid
    <3>3. Running' = Running
      BY <1>0, <1>2, <2>5, PowerLossLeaves, SameRunning
    <3> QED BY <1>0, <2>2, <3>2, <3>3 DEF SlotStep, Slots!Next, Slots!Drop, Slots!Withdrawal
  <2>6. CASE pc \in {"boot", "jump", "halt", "broken", "done", "run"}
    <3>1. app' = app /\ backup' = backup /\ flag' = flag
      BY <1>0, <1>2, <2>6, DamagedNothing, DamagedFlagNothing
      DEF PowerLoss, ErasingBackup, ProgrammingBackup, ErasingApp, ProgrammingApp, ErasingFlag,
          ProgrammingFlag
    <3> QED BY <1>0, <3>1, SameRunning, SamePending, DropsOnly
  <2> QED BY <1>0, <2>3, <2>4, <2>5, <2>6 DEF TypeOK, AppPcs, BootPcs
<1> QED BY <1>1, <1>2

\* Whatever flash operation fails, whatever the lengths of chunks and images, with
\* power cuts at any moment: an image that runs is torn down only to be replaced by the
\* pending one, and nothing but the image being received ever becomes pending.
THEOREM UpdateKeepsTwoSlots == Spec => ImplementsTwoSlots
<1>1. Init => Slots!Init
  <2> SUFFICES ASSUME Init PROVE Running \in Images /\ Pending = NoImage /\ Receiving = NoImage
    BY DEF Slots!Init
  <2>1. PICK i \in Installable :
          app = [k \in Offsets |-> IF k * W < Size[i] THEN <<i, k>> ELSE Erased]
    BY DEF Init
  <2>2. Holds(app, i)
    BY <2>1 DEF Holds
  <2>3. \A j \in Images : ~FlagValid(j)
    BY ImageAssumption DEF Init, ErasedFlag, FlagValid
  <2> QED BY <2>2, <2>3, RunningIs, PendingIs DEF Init, FwInit, Receiving, Installable
<1>2. RecoveryInv /\ IdleInv /\ SlotInv /\ [Next]_vars => [Slots!Next]_<<Running, Pending, Receiving>>
  <2> SUFFICES ASSUME RecoveryInv, IdleInv, SlotInv, [Next]_vars PROVE SlotStep
    BY DEF SlotStep
  <2>1. CASE UNCHANGED vars
    <3>1. app' = app /\ backup' = backup /\ flag' = flag /\ Receiving' = Receiving
      BY <2>1 DEF vars, Receiving
    <3> QED BY <3>1, SameRunning, SamePending, DropsOnly
  <2> QED BY <2>1, FwStepSlots, FwCallSlots, LoaderSlots, RestartSlots DEF Next, AppStep
<1> QED
  BY <1>1, <1>2, RecoveryInvariant, IdleInvariant, SlotInvariant, PTL
  DEF Spec, ImplementsTwoSlots, Slots!Spec

-----------------------------------------------------------------------------
(* UpgradeControl: what is counted, for chunks of any length.                *)

\* Between calls no more was taken than the size; a call in progress will not take
\* more; the flag is written for an update that is there as a whole.
CountInv ==
  /\ pc \in {"run", "tail"} /\ state = "RECVING" => recv_size <= Size[img]
  /\ pc = "write" => len > 0 /\ recv_size + len <= Size[img]
  /\ pc \in {"flagErase", "flagMagic", "flagSize", "flagCrc"} => recv_size = Size[img]

ControlStep == [Control!Next]_<<state, IF Updating THEN Size[img] ELSE 0,
                                IF Updating THEN recv_size ELSE 0>>

\* Steps of UpgradeControl by their effect.
LEMMA ControlStops == ASSUME state' = "IDLE" PROVE ControlStep
BY DEF ControlStep, Control!Next, Control!Stop, Updating

LEMMA ControlStutters == ASSUME UNCHANGED <<state, img, recv_size>> PROVE ControlStep
BY DEF ControlStep, Updating

LEMMA CountStep ==
  ASSUME TypeOK, IdleInv, CountInv, [Next]_vars PROVE CountInv' /\ ControlStep
<1> USE WriterTypes DEF CountInv
<1>0. pc \in WritingPcs => state = "RECVING"
  BY DEF TypeOK, FwTypeOK
<1>1. ASSUME state' = "IDLE", pc' \notin WritingPcs PROVE CountInv' /\ ControlStep
  BY <1>1, ControlStops DEF WritingPcs
<1>2. ASSUME UNCHANGED <<pc, state, img, recv_size, len>> PROVE CountInv' /\ ControlStep
  BY <1>2, ControlStutters
<1>3. CASE GiveUp(Reset) \/ WriteFailed
  BY <1>1, <1>3 DEF GiveUp, Reset, WriteFailed, WritingPcs
<1>4. ASSUME NEW i \in Images, StartUpdate(i) PROVE CountInv' /\ ControlStep
  <2>1. Size[i] \in Nat /\ Size[i] > 0
    BY <1>4, ImageAssumption DEF StartUpdate, Installable
  <2>2. /\ pc' = "run" /\ state' = "RECVING" /\ img' = i /\ recv_size' = 0
    BY <1>4 DEF StartUpdate
  <2>3. Control!Start
    BY <2>1, <2>2 DEF Control!Start, Updating
  <2> QED BY <2>1, <2>2, <2>3 DEF ControlStep, Control!Next
<1>5. ASSUME NEW n \in Chunks, WriteData(n) PROVE CountInv' /\ ControlStep
  <2>1. /\ pc' = "write" /\ state = "RECVING" /\ recv_size < Size[img]
        /\ UNCHANGED <<state, img, recv_size>>
        /\ len' = IF recv_size + n > Size[img] THEN Size[img] - recv_size ELSE n
    BY <1>5 DEF WriteData
  <2>2. n \in Nat \ {0}
    BY ChunkAssumption
  <2> QED BY <2>1, <2>2, ControlStutters
<1>6. CASE StopUpdate
  BY <1>1, <1>6 DEF StopUpdate, Reset, WritingPcs
<1>7. ASSUME pc \in {"run", "tail"}, state = "RECVING", CheckSize PROVE CountInv' /\ ControlStep
  <2>1. CASE recv_size = Size[img]
    BY <1>7, <2>1, ControlStutters DEF CheckSize
  <2> QED BY <1>3, <1>7, <2>1 DEF CheckSize
<1>8. CASE Finish
  BY <1>3, <1>7, <1>8, ControlStutters DEF Finish, fwVars
<1>9. CASE FinishTail
  BY <1>0, <1>3, <1>7, <1>9 DEF FinishTail, WritingPcs
<1>10. CASE EraseBefore \/ WriteWord
  BY <1>2, <1>3, <1>10 DEF EraseBefore, WriteWord
<1>11. CASE WriteReturn
  <2>1. /\ state = "RECVING" /\ pc' = "run" /\ recv_size' = recv_size + len
        /\ UNCHANGED <<state, img>> /\ len > 0 /\ recv_size + len <= Size[img]
    BY <1>0, <1>11 DEF WriteReturn, WritingPcs
  <2>2. Control!Write
    BY <2>1 DEF Control!Write, Updating
  <2> QED BY <2>1, <2>2 DEF ControlStep, Control!Next
<1>12. CASE FinishFlagErase
  BY <1>3, <1>12, ControlStutters DEF FinishFlagErase, fwVars
<1>13. CASE FinishFlagMagic \/ FinishFlagSize
  BY <1>3, <1>13, ControlStutters DEF FinishFlagMagic, FinishFlagSize, ProgramFlag, fwVars
<1>14. CASE FinishFlagCrc
  <2>1. CASE pc' = "done" /\ state' = "DONE" /\ UNCHANGED <<img, recv_size>>
    <3>1. state = "RECVING" /\ recv_size = Size[img]
      BY <1>0, <1>14 DEF FinishFlagCrc, WritingPcs
    <3>2. Control!Finish
      BY <2>1, <3>1 DEF Control!Finish, Updating
    <3> QED BY <2>1, <3>2 DEF ControlStep, Control!Next
  <2> QED BY <1>3, <1>14, <2>1 DEF FinishFlagCrc
<1>15. CASE LoaderStep
  <2>1. pc' \in BootPcs \cup {"run"} /\ state' = "IDLE"
    BY <1>15, LoaderIsIdle
  <2> QED BY <1>1, <2>1 DEF BootPcs, WritingPcs
<1>16. CASE SystemReset \/ PowerLoss
  BY <1>1, <1>16 DEF SystemReset, PowerLoss, Restart, Reset, WritingPcs
<1>17. CASE UNCHANGED vars
  BY <1>2, <1>17 DEF vars
<1> QED BY <1>4, <1>5, <1>6, <1>8, <1>9, <1>10, <1>11, <1>12, <1>13, <1>14, <1>15, <1>16, <1>17
        DEF Next, AppStep, FwStep, FwCall

\* For chunks of any length and whatever fails, the upgrade control takes no byte
\* beyond the size of the update and is done only with all of them.
THEOREM UpdateIsControlled == Spec => ImplementsUpgradeControl
<1>1. Init => CountInv /\ Control!Init
  BY DEF Init, FwInit, CountInv, Control!Init, Updating
<1>2. TypeOK /\ IdleInv /\ CountInv /\ [Next]_vars =>
        CountInv' /\ [Control!Next]_<<state, IF Updating THEN Size[img] ELSE 0,
                                     IF Updating THEN recv_size ELSE 0>>
  BY CountStep DEF ControlStep
<1> QED
  BY <1>1, <1>2, TypeCorrect, IdleInvariant, PTL DEF Spec, ImplementsUpgradeControl, Control!Spec

-----------------------------------------------------------------------------
(* The length of a call and of a boot, whichever operation fails.            *)

\* The Bootloader's index stays within the partition.
CursorInv ==
  /\ pc = "erase" => cursor < Sectors
  /\ pc = "copy" => cursor <= Words

LEMMA WordsType == Words \in Nat /\ Words > 0 /\ Sectors \in Nat \ {0}
BY GeometryAssumption DEF Words

\* The word that is copied next belongs to the image that the flag names.
LEMMA CopiesWithin ==
  ASSUME RecoveryInv, CopyWord PROVE cursor \in Nat /\ cursor < Words
<1>1. PICK i \in Images : FlagValid(i)
  BY DEF CopyWord, RecoveryInv
<1>2. cursor \in Nat /\ cursor * W < Size[i] /\ Size[i] \in Nat /\ Size[i] <= Words * W
  BY <1>1, ImageAssumption
  DEF CopyWord, FlagValid, Installable, Capacity, RecoveryInv, TypeOK
<1> QED BY <1>2, TimesOrder, WordsType, GeometryAssumption

LEMMA CursorInductive ==
  ASSUME RecoveryInv, CursorInv, [Next]_vars PROVE CursorInv'
<1> USE WordsType DEF CursorInv
<1>0. cursor \in Nat
  BY DEF RecoveryInv, TypeOK
<1>1. CASE AppStep
  BY <1>1, AppStaysApp DEF BootPcs
<1>2. CASE BootCheck
  BY <1>2 DEF BootCheck
<1>3. CASE EraseApp
  BY <1>0, <1>3 DEF EraseApp, CopyError
<1>4. CASE CopyWord
  BY <1>4, CopiesWithin DEF CopyWord, CopyError
<1>5. CASE CopyEnd \/ ClearUpgradeFlag \/ JumpToApp
  BY <1>5 DEF CopyEnd, ClearUpgradeFlag, JumpToApp, CopyError
<1>6. CASE SystemReset \/ PowerLoss
  BY <1>6 DEF SystemReset, PowerLoss, Restart
<1>7. CASE UNCHANGED vars
  BY <1>7 DEF vars
<1> QED BY <1>1, <1>2, <1>3, <1>4, <1>5, <1>6, <1>7 DEF Next, LoaderStep, BootStep

\* Every step of a boot leaves less to do.
LEMMA LoaderAdvances ==
  ASSUME RecoveryInv, CursorInv, LoaderStep PROVE Rank' < Rank
<1> USE WordsType DEF CursorInv, Rank
<1>0. cursor \in Nat
  BY DEF RecoveryInv, TypeOK
<1>1. CASE BootCheck
  BY <1>1 DEF BootCheck
<1>2. CASE EraseApp
  BY <1>0, <1>2 DEF EraseApp, CopyError
<1>3. CASE CopyWord
  BY <1>3, CopiesWithin DEF CopyWord, CopyError
<1>4. CASE CopyEnd
  BY <1>0, <1>4 DEF CopyEnd
<1>5. CASE ClearUpgradeFlag
  BY <1>5 DEF ClearUpgradeFlag, CopyError
<1>6. CASE JumpToApp
  BY <1>6 DEF JumpToApp
<1> QED BY <1>1, <1>2, <1>3, <1>4, <1>5, <1>6 DEF LoaderStep, BootStep

\* A word lies before the end of its sector.
LEMMA SectorEnds ==
  ASSUME NEW k \in Nat, NEW m \in Nat \ {0} PROVE k < (k \div m + 1) * m
BY Z3

LEMMA WriteAdvances ==
  ASSUME TypeOK, WbufInv, EraseBefore \/ WriteWord \/ WriteReturn PROVE Rank' < Rank
<1> USE DEF Rank
<1>0. /\ wcnt \in Nat /\ rem \in Nat /\ erased \in Nat /\ wr_offs \in Nat
      /\ W \in Nat \ {0} /\ SectorWords \in Nat \ {0}
  BY WriterTypes
<1>1. pc = "write" /\ WriteOffset \in Nat
  BY <1>0 DEF EraseBefore, WriteWord, WriteReturn, WriteOffset
<1>2. Rank \in {2 * rem + 1, 2 * rem + 2}
  BY <1>1
<1>3. CASE pc' = "run"
  BY <1>0, <1>2, <1>3
<1>4. CASE EraseBefore
  <2>1. CASE /\ erased' = (WriteOffset \div SectorWords + 1) * SectorWords
             /\ UNCHANGED <<pc, rem, wr_offs>>
    <3>1. WriteOffset' = WriteOffset /\ WriteOffset < erased'
      BY <1>0, <1>1, <2>1, SectorEnds DEF WriteOffset
    <3>2. Rank' = 2 * rem + 1
      <4>1. erased' \in Nat
        BY <1>0, <1>1, <2>1
      <4> QED BY <1>1, <2>1, <3>1, <4>1
    <3>3. Rank = 2 * rem + 2
      BY <1>1, <1>4 DEF EraseBefore
    <3> QED BY <1>0, <3>2, <3>3
  <2> QED BY <1>3, <1>4, <2>1 DEF EraseBefore, WriteFailed, GiveUp
<1>5. CASE WriteWord
  <2>1. CASE rem' = rem - (W - wcnt) /\ pc' = pc
    <3>1. rem' \in Nat /\ rem' < rem
      BY <1>0, <1>1, <1>5, <2>1 DEF WbufInv, WriteWord, WordReady
    <3>2. Rank' \in {2 * rem' + 1, 2 * rem' + 2}
      BY <1>1, <2>1
    <3> QED BY <1>0, <1>2, <3>1, <3>2
  <2> QED BY <1>3, <1>5, <2>1 DEF WriteWord, WriteFailed, GiveUp
<1>6. CASE WriteReturn
  BY <1>3, <1>6 DEF WriteReturn
<1> QED BY <1>4, <1>5, <1>6

LEMMA FwStepAdvances ==
  ASSUME TypeOK, WbufInv, FwStep PROVE Rank' < Rank
<1>1. CASE FinishTail
  BY <1>1 DEF FinishTail, CheckSize, GiveUp, Rank
<1>2. CASE FinishFlagErase
  BY <1>2 DEF FinishFlagErase, GiveUp, Rank
<1>3. CASE FinishFlagMagic \/ FinishFlagSize
  BY <1>3 DEF FinishFlagMagic, FinishFlagSize, ProgramFlag, GiveUp, Rank
<1>4. CASE FinishFlagCrc
  BY <1>4 DEF FinishFlagCrc, GiveUp, Rank
<1> QED BY <1>1, <1>2, <1>3, <1>4, WriteAdvances DEF FwStep

\* No call of the upgrade control and no boot runs for ever, for chunks of any length
\* and whichever flash operation fails: StepsAdvance.
THEOREM CallsAreBounded == Spec => StepsAdvance
<1> DEFINE Inv == RecoveryInv /\ WbufInv /\ CursorInv
<1>1. Init => CursorInv
  BY DEF Init, CursorInv
<1>2. RecoveryInv /\ CursorInv /\ [Next]_vars => CursorInv'
  BY CursorInductive
<1>3. Inv => [FwStep \/ LoaderStep => Rank' < Rank]_vars
  BY FwStepAdvances, LoaderAdvances DEF RecoveryInv
<1> QED BY <1>1, <1>2, <1>3, RecoveryInvariant, WbufInvariant, PTL DEF Spec, StepsAdvance
====
