---------------------------- MODULE UpdateSystem ----------------------------
(***************************************************************************)
(* The whole firmware update path: the APP's writer (FwUpgrade), the        *)
(* Bootloader and the flash they share, with a power cut at any moment,     *)
(* also in the middle of a program or of an erase.                          *)
(***************************************************************************)
EXTENDS FwUpgrade, Bootloader

vars == <<backup, app, flag, pc, cursor, state, img, recv_size, wcnt, erased,
          len, rem, wr_offs>>

\* A device as it leaves the factory: one image, no update requested.
Init ==
  /\ \E i \in Installable :
       app = [k \in Offsets |-> IF k * W < Size[i] THEN <<i, k>> ELSE Erased]
  /\ backup = ErasedPartition
  /\ flag = ErasedFlag
  /\ pc = "boot" /\ cursor = 0
  /\ FwInit

\* The cells a power cut leaves in doubt: those of the operation under way.
ErasingBackup ==
  IF pc = "write" /\ WordReady /\ WriteOffset >= erased THEN SectorOf(WriteOffset) ELSE {}
ProgrammingBackup ==
  IF pc = "write" /\ WordReady /\ WriteOffset < erased THEN WriteCells
  ELSE IF pc = "tail" THEN {TailOffset} ELSE {}
ErasingApp == IF pc = "erase" THEN AppSector(cursor) ELSE {}
ProgrammingApp == IF pc = "copy" /\ cursor * W < flag.size THEN {cursor} ELSE {}
ErasingFlag == IF pc \in {"flagErase", "clear"} THEN FlagFields ELSE {}
ProgrammingFlag ==
  IF pc = "flagMagic" THEN {"magic"}
  ELSE IF pc = "flagSize" THEN {"size"}
  ELSE IF pc = "flagCrc" THEN {"crc"} ELSE {}

\* RAM is lost: after the boot the APP starts with FW_UPG_Init.
Restart == pc' = "boot" /\ cursor' = 0 /\ Reset

PowerLoss ==
  /\ Restart
  /\ backup' \in Damaged(backup, ErasingBackup, ProgrammingBackup)
  /\ app' \in Damaged(app, ErasingApp, ProgrammingApp)
  /\ flag' \in DamagedFlag(ErasingFlag, ProgrammingFlag)

\* NVIC_SystemReset at the end of FW_UPG_Finish.
SystemReset ==
  /\ pc = "done"
  /\ Restart
  /\ UNCHANGED flashVars

AppStep == (FwStep \/ FwCall) /\ UNCHANGED cursor
LoaderStep == BootStep /\ UNCHANGED fwVars

Next == AppStep \/ LoaderStep \/ SystemReset \/ PowerLoss

\* The processor keeps running: a call that has begun, the Bootloader and the
\* reset go on. Nothing obliges a transport to make a call.
Fairness == WF_vars((FwStep /\ UNCHANGED cursor) \/ LoaderStep \/ SystemReset)

Spec == Init /\ [][Next]_vars
FairSpec == Spec /\ Fairness

-----------------------------------------------------------------------------

\* Every variable has its type, in every state of the update path.
TypeOK ==
  /\ FlashTypeOK
  /\ FwTypeOK
  /\ pc \in AppPcs \cup BootPcs
  /\ cursor \in Nat

\* Whatever was interrupted, the device is never left without a complete
\* image: either the APP partition holds one, or the flag and the backup
\* partition are such that the next boot copies one (fw_boot_fixed.c:99-182).
Recoverable == AppComplete \/ \E i \in Images : FlagValid(i)

\* How far a copy in progress has come: erased sectors, then copied words.
CopyProgress ==
  /\ pc = "erase" =>
       \A k \in Offsets : k \div SectorWords < cursor => app[k] = Erased
  /\ pc = "copy" =>
       \A k \in Offsets : app[k] = IF k < cursor THEN backup[k] ELSE Erased

\* The inductive invariant behind Recoverable: while the APP is not complete a
\* valid flag and an untouched backup are behind it.
RecoveryInv ==
  /\ TypeOK
  /\ pc \in AppPcs \cup {"clear"} => AppComplete
  /\ pc \in {"erase", "copy"} => \E i \in Images : FlagValid(i)
  /\ CopyProgress
  /\ Recoverable

\* The Bootloader never jumps to an APP partition that holds a part of an
\* image or a mixture of two, nor refuses to jump: that test is on word 0 alone
\* (fw_boot_fixed.c:196). Holds where its own flash operations succeed.
NeverRunsPartial ==
  /\ pc \notin {"broken", "halt"}
  /\ pc \in AppPcs => AppComplete

\* The inductive form: without faults nothing but a whole image gets to "jump".
BootInv ==
  /\ pc \notin {"broken", "halt"}
  /\ pc \in AppPcs \cup {"clear", "jump"} => AppComplete

\* The APP partition is erased and written only while the flag asks for the
\* very image that the backup partition holds with a matching CRC32.
AppWrittenFromVerifiedBackup ==
  [][app' # app => \E i \in Images : FlagValid(i)]_vars

\* FW_UPG_STATE_DONE: what was received is in the backup partition
\* (fw_upgrade.h:19, shown to the user by the LCD task).
DoneMeansVerified == state = "DONE" => Holds(backup, img)

\* The tail handling of Finish relies on it: between calls wbuf holds exactly
\* the bytes after the last whole word, so recv_size & ~3 is where they go.
WbufIsRemainder ==
  pc \in {"run", "tail"} /\ state = "RECVING" => wcnt = recv_size % W

\* What WriteData accepted is in the flash: erasing on demand never takes back
\* a word of the update in progress, nor is one skipped, nor misplaced.
AcceptedIsStored ==
  pc \in {"run", "tail"} /\ state = "RECVING" =>
    \A k \in Offsets : k * W + W <= recv_size => backup[k] = <<img, k>>

\* Flash_Write_Word is only given an erased cell, or the value it holds
\* (drv_flash.c:34-35).
ProgramsErasedOnly ==
  /\ pc = "write" /\ WordReady /\ WriteOffset < erased =>
       \A k \in WriteCells : backup[k] = Erased
  /\ pc = "tail" => backup[TailOffset] \in {Erased, TailWord}

-----------------------------------------------------------------------------
(* The update path implements AtomicUpdate. *)

\* The image that the next undisturbed boot runs.
Installed ==
  IF \E i \in Images : FlagValid(i) THEN flag.crc
  ELSE IF AppComplete THEN CHOOSE i \in Installable : Holds(app, i)
  ELSE NoImage

Receiving == IF state = "IDLE" THEN NoImage ELSE img

Atomic == INSTANCE AtomicUpdate WITH installed <- Installed, update <- Receiving

\* The installed image changes at once, and only to the one being received.
ImplementsAtomicUpdate == Atomic!Spec

-----------------------------------------------------------------------------
(* The update path implements TwoSlots, whichever operation fails. *)

Running ==
  IF AppComplete THEN CHOOSE i \in Installable : Holds(app, i) ELSE NoImage

Pending == IF \E i \in Images : FlagValid(i) THEN flag.crc ELSE NoImage

Slots == INSTANCE TwoSlots WITH running <- Running, pending <- Pending, update <- Receiving

\* With faulty flash operations, chunks of any length and any tail: what runs is
\* torn down only for a pending image that replaces it, and only the image being
\* received becomes pending.
ImplementsTwoSlots == Slots!Spec

-----------------------------------------------------------------------------
(* The update path implements UpgradeControl. *)

Updating == state # "IDLE"

Control ==
  INSTANCE UpgradeControl WITH fw <- state,
    size <- IF Updating THEN Size[img] ELSE 0, taken <- IF Updating THEN recv_size ELSE 0

\* Whatever the lengths of the chunks and whichever flash operation fails, an update
\* takes no byte beyond its size and is done only with the last of them.
ImplementsUpgradeControl == Control!Spec

-----------------------------------------------------------------------------
\* How many flash operations the call or the boot in progress has yet to do, at most.
Rank ==
  CASE pc = "boot" -> Words + Sectors + 4
    [] pc = "erase" -> Words + Sectors + 3 - cursor
    [] pc = "copy" -> Words + 3 - cursor
    [] pc = "write" -> IF WriteOffset >= erased THEN 2 * rem + 2 ELSE 2 * rem + 1
    [] pc = "tail" -> 5
    [] pc = "flagErase" -> 4
    [] pc = "flagMagic" -> 3
    [] pc \in {"flagSize", "clear"} -> 2
    [] pc \in {"flagCrc", "jump"} -> 1
    [] OTHER -> 0

\* No call of the upgrade control and no boot runs for ever, whichever of their flash
\* operations fail and whatever the lengths of the chunks.
StepsAdvance == [][FwStep \/ LoaderStep => Rank' < Rank]_vars

\* An image the flag names is installed and started once the power holds.
EventuallyInstalled ==
  <>[][~PowerLoss]_vars =>
    \A i \in Images :
      (pc = "boot" /\ FlagValid(i)) ~> (pc = "run" /\ Holds(app, i))
=============================================================================
