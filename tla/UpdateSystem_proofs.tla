------------------------ MODULE UpdateSystem_proofs ------------------------
(***************************************************************************)
(* Type correctness of the firmware update path and its central promise:    *)
(* no power cut, and no error reported by the flash, leaves the device      *)
(* without a complete image to run. For every flash geometry, every set of  *)
(* images and every chunk size.                                             *)
(***************************************************************************)
EXTENDS UpdateSystem, Integers, TLAPS

USE DEF FlagFields, MAGIC

-----------------------------------------------------------------------------
(* What damage can do to the flash.                                         *)

\* A damaged partition is a partition.
LEMMA DamagedType ==
  ASSUME NEW part \in [Offsets -> Cell], NEW es, NEW ps,
         NEW q \in Damaged(part, es, ps)
  PROVE  q \in [Offsets -> Cell]
BY DEF Damaged, Cell

\* Damage to no cell is no damage.
LEMMA DamagedNothing ==
  ASSUME NEW part \in [Offsets -> Cell], NEW q \in Damaged(part, {}, {})
  PROVE  q = part
BY DEF Damaged

\* A damaged flag is a flag.
LEMMA DamagedFlagType ==
  ASSUME flag \in FlagCell, NEW es, NEW ps, NEW q \in DamagedFlag(es, ps)
  PROVE  q \in FlagCell
BY DEF DamagedFlag, FlagCell

\* Damage to no word of the flag is no damage.
LEMMA DamagedFlagNothing ==
  ASSUME flag \in FlagCell, NEW q \in DamagedFlag({}, {})
  PROVE  q = flag
BY DEF DamagedFlag, FlagCell

-----------------------------------------------------------------------------
(* Type correctness.                                                        *)

LEMMA InitType == Init => TypeOK
<1> SUFFICES ASSUME Init PROVE TypeOK
  OBVIOUS
<1> USE ImageAssumption, ChunkAssumption DEF Init, FwInit
<1>1. FlashTypeOK
  <2>1. PICK i \in Images :
          app = [k \in Offsets |-> IF k * W < Size[i] THEN <<i, k>> ELSE Erased]
    BY DEF Installable
  <2>2. app \in [Offsets -> Cell]
    BY <2>1 DEF Offsets, Cell
  <2> QED BY <2>2 DEF FlashTypeOK, Cell, FlagCell, ErasedPartition, ErasedFlag
<1>2. FwTypeOK
  BY DEF FwTypeOK, States, WritingPcs
<1> QED
  BY <1>1, <1>2 DEF TypeOK, BootPcs

\* The context after fw_upg_reset is a context.
LEMMA ResetType ==
  ASSUME Reset, pc' \notin WritingPcs PROVE FwTypeOK'
BY DEF Reset, FwTypeOK, States

\* A step of FwUpgrade keeps the types.
LEMMA FwStepType ==
  ASSUME TypeOK, FwStep, UNCHANGED cursor PROVE TypeOK'
<1> USE GeometryAssumption, ImageAssumption, ResetType, DamagedType, DamagedFlagType
<1> USE DEF TypeOK, FlashTypeOK, FwTypeOK, States, AppPcs, WritingPcs, BootPcs, GiveUp
<1>1. CASE EraseBefore
  <2>1. backup' \in [Offsets -> Cell]
    BY <1>1 DEF EraseBefore, Cell
  <2>2. FwTypeOK' /\ pc' \in AppPcs
    BY <1>1 DEF EraseBefore, WriteFailed, WriteOffset
  <2> QED BY <1>1, <2>1, <2>2 DEF EraseBefore
<1>2. CASE WriteWord
  <2>1. backup' \in [Offsets -> Cell]
    BY <1>2 DEF WriteWord, Cell, Programmed, Installable, WriteOffset
  <2>2. FwTypeOK' /\ pc' \in AppPcs
    BY <1>2 DEF WriteWord, WriteFailed, WordReady
  <2> QED BY <1>2, <2>1, <2>2 DEF WriteWord
<1>3. CASE WriteReturn
  BY <1>3 DEF WriteReturn, flashVars
<1>4. CASE FinishTail
  <2>1. backup' \in [Offsets -> Cell]
    <3>1. TailOffset \in Nat /\ img \in Images
      BY <1>4 DEF FinishTail, Installable, TailOffset
    <3>2. TailWord \in Cell
      BY <3>1 DEF TailWord, Cell
    <3>3. ASSUME NEW x \in Programmed(backup[TailOffset], TailWord),
                 backup' = [backup EXCEPT ![TailOffset] = x]
          PROVE  backup' \in [Offsets -> Cell]
      BY <3>2, <3>3 DEF Programmed, Cell
    <3> QED BY <1>4, <3>3 DEF FinishTail
  <2>2. FwTypeOK' /\ pc' \in AppPcs
    BY <1>4 DEF FinishTail, CheckSize
  <2> QED BY <1>4, <2>1, <2>2 DEF FinishTail
<1>5. CASE FinishFlagErase
  BY <1>5 DEF FinishFlagErase, FlagCell, ErasedFlag, fwVars
<1>6. CASE FinishFlagMagic
  BY <1>6 DEF FinishFlagMagic, ProgramFlag, FlagCell, Programmed, fwVars
<1>7. CASE FinishFlagSize
  BY <1>7 DEF FinishFlagSize, ProgramFlag, FlagCell, Programmed, fwVars, Installable
<1>8. CASE FinishFlagCrc
  <2>1. flag' \in FlagCell
    BY <1>8 DEF FinishFlagCrc, FlagCell, Programmed, Installable
  <2>2. FwTypeOK' /\ pc' \in AppPcs
    BY <1>8 DEF FinishFlagCrc
  <2> QED BY <1>8, <2>1, <2>2 DEF FinishFlagCrc
<1> QED
  BY <1>1, <1>2, <1>3, <1>4, <1>5, <1>6, <1>7, <1>8 DEF FwStep

\* A call of a transport keeps the types.
LEMMA FwCallType ==
  ASSUME TypeOK, FwCall, UNCHANGED cursor PROVE TypeOK'
<1> USE GeometryAssumption, ImageAssumption, ChunkAssumption, ResetType
<1> USE DEF TypeOK, FlashTypeOK, FwTypeOK, States, AppPcs, WritingPcs, BootPcs, GiveUp, flashVars
<1>1. ASSUME NEW i \in Images, StartUpdate(i) PROVE TypeOK'
  BY <1>1 DEF StartUpdate
<1>2. ASSUME NEW n \in Chunks, WriteData(n) PROVE TypeOK'
  <2>1. img \in Images /\ Size[img] \in Nat /\ n \in Nat
    BY <1>2 DEF WriteData, Installable
  <2>2. len' \in Nat
    BY <1>2, <2>1 DEF WriteData
  <2> QED BY <1>2, <2>2 DEF WriteData
<1>3. CASE StopUpdate
  BY <1>3 DEF StopUpdate
<1>4. CASE Finish
  BY <1>4 DEF Finish, CheckSize, fwVars
<1> QED
  BY <1>1, <1>2, <1>3, <1>4 DEF FwCall

\* A step of the Bootloader keeps the types.
LEMMA LoaderType ==
  ASSUME TypeOK, LoaderStep PROVE TypeOK'
<1> USE DamagedType, DamagedFlagType
<1> USE DEF TypeOK, FlashTypeOK, AppPcs, WritingPcs, BootPcs, flashVars, CopyError
<1>1. FwTypeOK /\ UNCHANGED fwVars
  BY DEF LoaderStep
<1>2. CASE BootCheck
  BY <1>1, <1>2 DEF BootCheck, FwTypeOK, fwVars
<1>3. CASE EraseApp
  <2>1. app' \in [Offsets -> Cell]
    BY <1>3 DEF EraseApp, Cell
  <2> QED BY <1>1, <1>3, <2>1 DEF EraseApp, FwTypeOK, fwVars
<1>4. CASE CopyWord
  <2>1. ASSUME NEW x \in Programmed(app[cursor], backup[cursor]),
               app' = [app EXCEPT ![cursor] = x]
        PROVE  app' \in [Offsets -> Cell]
    BY <2>1 DEF Programmed, Cell
  <2>2. app' \in [Offsets -> Cell]
    BY <1>4, <2>1 DEF CopyWord
  <2> QED BY <1>1, <1>4, <2>2 DEF CopyWord, FwTypeOK, fwVars
<1>5. CASE CopyEnd
  BY <1>1, <1>5 DEF CopyEnd, FwTypeOK, fwVars
<1>6. CASE ClearUpgradeFlag
  BY <1>1, <1>6 DEF ClearUpgradeFlag, FwTypeOK, fwVars, FlagCell, ErasedFlag
<1>7. CASE JumpToApp
  BY <1>1, <1>7 DEF JumpToApp, FwTypeOK, fwVars
<1> QED
  BY <1>2, <1>3, <1>4, <1>5, <1>6, <1>7 DEF LoaderStep, BootStep

\* A restart, with whatever damage, keeps the types.
LEMMA RestartType ==
  ASSUME TypeOK, SystemReset \/ PowerLoss PROVE TypeOK'
<1> USE DEF TypeOK, FlashTypeOK, BootPcs, WritingPcs, Restart, flashVars
<1>1. FwTypeOK' /\ pc' = "boot" /\ cursor' = 0
  BY ResetType DEF SystemReset, PowerLoss
<1>2. CASE SystemReset
  BY <1>1, <1>2 DEF SystemReset
<1>3. CASE PowerLoss
  BY <1>1, <1>3, DamagedType, DamagedFlagType DEF PowerLoss
<1> QED
  BY <1>2, <1>3

\* Every variable of the update path always has its type.
THEOREM TypeCorrect == Spec => []TypeOK
<1>1. TypeOK /\ [Next]_vars => TypeOK'
  <2> SUFFICES ASSUME TypeOK, [Next]_vars PROVE TypeOK'
    OBVIOUS
  <2>1. CASE AppStep
    BY <2>1, FwStepType, FwCallType DEF AppStep
  <2>2. CASE LoaderStep
    BY <2>2, LoaderType
  <2>3. CASE SystemReset \/ PowerLoss
    BY <2>3, RestartType
  <2>4. CASE UNCHANGED vars
    BY <2>4 DEF vars, TypeOK, FlashTypeOK, FwTypeOK
  <2> QED
    BY <2>1, <2>2, <2>3, <2>4 DEF Next
<1> QED
  BY <1>1, InitType, PTL DEF Spec

-----------------------------------------------------------------------------
(* Recoverable, by the inductive invariant RecoveryInv.                     *)

\* A partition that has not changed holds what it held.
LEMMA SameFlashSameImages ==
  /\ app' = app => AppComplete' = AppComplete
  /\ backup' = backup /\ flag' = flag => \A i : FlagValid(i)' = FlagValid(i)
BY DEF AppComplete, FlagValid, Holds

\* Every cell is in one of the sectors.
LEMMA SectorBound ==
  \A k \in Offsets : k \div SectorWords \in Nat /\ k \div SectorWords < Sectors
BY GeometryAssumption DEF Offsets, Words

\* A product with the word size orders like its other factor.
LEMMA TimesOrder ==
  ASSUME NEW k \in Int, NEW c \in Nat, NEW w \in Nat \ {0}, NEW z \in Nat,
         k * w < z, c * w >= z
  PROVE  k < c
<1> SUFFICES ASSUME k >= c PROVE FALSE
  OBVIOUS
<1>1. (k - c) * w >= 0
  OBVIOUS
<1>2. (k - c) * w = k * w - c * w
  OBVIOUS
<1> QED BY <1>1, <1>2

LEMMA InitRecovery == Init => RecoveryInv
<1> SUFFICES ASSUME Init PROVE RecoveryInv
  OBVIOUS
<1>1. AppComplete
  BY DEF Init, AppComplete, Holds
<1> QED
  BY <1>1, InitType DEF Init, RecoveryInv, Recoverable, CopyProgress, AppPcs, WritingPcs

\* No step of the APP touches the APP partition.
LEMMA AppStepRecovery ==
  ASSUME RecoveryInv, TypeOK', AppStep PROVE RecoveryInv'
<1>1. pc \in AppPcs /\ pc' \in AppPcs /\ app' = app
  BY DEF AppStep, FwStep, FwCall, EraseBefore, WriteWord, WriteReturn, WriteFailed, GiveUp,
     FinishTail, CheckSize, FinishFlagErase, FinishFlagMagic, FinishFlagSize, FinishFlagCrc,
     ProgramFlag, StartUpdate, StopUpdate, WriteData, Finish, AppPcs, WritingPcs, flashVars
<1>2. AppComplete'
  BY <1>1, SameFlashSameImages DEF RecoveryInv
<1> QED
  BY <1>1, <1>2 DEF RecoveryInv, Recoverable, CopyProgress, AppPcs, WritingPcs

\* A copy that came to its end is the image that the flag names.
LEMMA CopiedWhole ==
  ASSUME RecoveryInv, pc = "copy", cursor * W >= flag.size, NEW i \in Images, FlagValid(i)
  PROVE  Holds(app, i)
<1>1. Size[i] \in Nat /\ cursor \in Nat /\ cursor * W >= Size[i]
  BY ImageAssumption DEF FlagValid, RecoveryInv, TypeOK
<1>2. ASSUME NEW k \in Offsets, k * W < Size[i]
      PROVE  app[k] = <<i, k>>
  <2>1. k < cursor
    BY <1>1, <1>2, GeometryAssumption, TimesOrder DEF Offsets
  <2>2. app[k] = backup[k]
    BY <2>1 DEF RecoveryInv, CopyProgress
  <2> QED BY <1>2, <2>2 DEF FlagValid, Holds
<1> QED BY <1>2 DEF Holds

LEMMA LoaderRecovery ==
  ASSUME RecoveryInv, TypeOK', LoaderStep PROVE RecoveryInv'
<1> USE SameFlashSameImages DEF RecoveryInv, Recoverable, CopyProgress, AppPcs, WritingPcs, flashVars, CopyError
<1> TypeOK
  OBVIOUS
<1>1. CASE BootCheck
  BY <1>1, SectorBound DEF BootCheck
<1>2. CASE EraseApp
  <2>1. (\E i \in Images : FlagValid(i))'
    BY <1>2 DEF EraseApp
  <2>2. CASE app' \in Damaged(app, AppSector(cursor), {}) /\ CopyError
    BY <1>2, <2>1, <2>2 DEF EraseApp
  <2>3. CASE app' = [k \in Offsets |-> IF k \in AppSector(cursor) THEN Erased ELSE app[k]]
             /\ ~CopyError
    <3>1. \A k \in Offsets : k \div SectorWords < cursor + 1 => app'[k] = Erased
      BY <1>2, <2>3, SectorBound DEF EraseApp, AppSector, TypeOK
    <3>2. CASE cursor + 1 < Sectors
      BY <1>2, <2>1, <2>3, <3>1, <3>2 DEF EraseApp
    <3>3. CASE ~(cursor + 1 < Sectors)
      <4>1. \A k \in Offsets : app'[k] = Erased
        BY <3>1, <3>3, SectorBound, GeometryAssumption DEF TypeOK
      <4> QED BY <1>2, <2>1, <2>3, <3>3, <4>1 DEF EraseApp, Offsets
    <3> QED BY <3>2, <3>3
  <2> QED BY <1>2, <2>2, <2>3 DEF EraseApp
<1>3. CASE CopyWord
  <2>1. (\E i \in Images : FlagValid(i))'
    BY <1>3 DEF CopyWord
  <2>2. CASE app' \in Damaged(app, {}, {cursor}) /\ CopyError
    BY <1>3, <2>1, <2>2 DEF CopyWord
  <2>3. ASSUME NEW x \in Programmed(app[cursor], backup[cursor]),
               app' = [app EXCEPT ![cursor] = x],
               cursor' = cursor + 1, pc' = pc
        PROVE  RecoveryInv'
    <3>1. cursor \in Nat /\ app \in [Offsets -> Cell] /\ pc = "copy"
      BY <1>3 DEF CopyWord, TypeOK, FlashTypeOK
    <3>2. cursor \in Offsets => x = backup[cursor]
      BY <3>1, <2>3 DEF Programmed
    <3>3. ASSUME NEW k \in Offsets
          PROVE  app'[k] = IF k < cursor' THEN backup[k] ELSE Erased
      <4>1. k \in Int /\ (k < cursor + 1 <=> k < cursor \/ k = cursor)
        BY <3>1 DEF Offsets
      <4> QED BY <2>3, <3>1, <3>2, <4>1
    <3> QED BY <1>3, <2>1, <2>3, <3>1, <3>3 DEF CopyWord
  <2> QED BY <1>3, <2>2, <2>3 DEF CopyWord
<1>4. CASE CopyEnd
  <2>1. PICK i \in Images : FlagValid(i)
    BY <1>4 DEF CopyEnd
  <2>2. Holds(app, i)
    BY <1>4, <2>1, CopiedWhole DEF CopyEnd
  <2>4. AppComplete'
    BY <1>4, <2>1, <2>2 DEF CopyEnd, AppComplete, Holds, FlagValid
  <2> QED BY <1>4, <2>4 DEF CopyEnd
<1>5. CASE ClearUpgradeFlag
  BY <1>5 DEF ClearUpgradeFlag
<1>6. CASE JumpToApp
  BY <1>6 DEF JumpToApp
<1> QED
  BY <1>1, <1>2, <1>3, <1>4, <1>5, <1>6 DEF LoaderStep, BootStep

\* A restart, with the damage a power cut does to the operation under way.
LEMMA RestartRecovery ==
  ASSUME RecoveryInv, TypeOK', SystemReset \/ PowerLoss PROVE RecoveryInv'
<1> USE SameFlashSameImages DEF RecoveryInv, Recoverable, CopyProgress, AppPcs, WritingPcs
<1> TypeOK
  OBVIOUS
<1>1. pc' = "boot"
  BY DEF SystemReset, PowerLoss, Restart
<1>2. CASE SystemReset
  BY <1>1, <1>2 DEF SystemReset, flashVars
<1>3. CASE PowerLoss
  <2>1. backup \in [Offsets -> Cell] /\ app \in [Offsets -> Cell] /\ flag \in FlagCell
    BY DEF TypeOK, FlashTypeOK
  <2>2. CASE pc \in {"erase", "copy"}
    <3>1. backup' = backup
      BY <1>3, <2>1, <2>2, DamagedNothing DEF PowerLoss, ErasingBackup, ProgrammingBackup
    <3>2. flag' = flag
      BY <1>3, <2>1, <2>2, DamagedFlagNothing DEF PowerLoss, ErasingFlag, ProgrammingFlag
    <3> QED BY <1>1, <2>2, <3>1, <3>2
  <2>3. CASE pc \notin {"erase", "copy"}
    <3>1. app' = app
      BY <1>3, <2>1, <2>3, DamagedNothing DEF PowerLoss, ErasingApp, ProgrammingApp
    <3>2. CASE AppComplete
      BY <1>1, <3>1, <3>2
    <3>3. CASE ~AppComplete
      <4>1. pc \in BootPcs \ {"clear", "erase", "copy"}
        BY <2>3, <3>3 DEF TypeOK
      <4>2. backup' = backup
        BY <1>3, <2>1, <4>1, DamagedNothing DEF PowerLoss, ErasingBackup, ProgrammingBackup, BootPcs
      <4>3. flag' = flag
        BY <1>3, <2>1, <4>1, DamagedFlagNothing DEF PowerLoss, ErasingFlag, ProgrammingFlag, BootPcs
      <4> QED BY <1>1, <3>3, <4>2, <4>3
    <3> QED BY <3>2, <3>3
  <2> QED BY <2>2, <2>3
<1> QED BY <1>2, <1>3

LEMMA RecoveryInductive == RecoveryInv /\ TypeOK' /\ [Next]_vars => RecoveryInv'
<1> SUFFICES ASSUME RecoveryInv, TypeOK', [Next]_vars PROVE RecoveryInv'
  OBVIOUS
<1>1. CASE UNCHANGED vars
  BY <1>1, SameFlashSameImages DEF vars, RecoveryInv, Recoverable, CopyProgress
<1> QED
  BY <1>1, AppStepRecovery, LoaderRecovery, RestartRecovery DEF Next

\* The invariant holds in every state.
THEOREM RecoveryInvariant == Spec => []RecoveryInv
BY InitRecovery, RecoveryInductive, TypeCorrect, PTL DEF Spec

\* Power cuts and flash errors never leave the device without a complete image:
\* the APP partition holds one, or the next boot copies one.
THEOREM AlwaysRecoverable == Spec => []Recoverable
<1>1. RecoveryInv => Recoverable
  BY DEF RecoveryInv
<1> QED BY <1>1, RecoveryInvariant, PTL

-----------------------------------------------------------------------------
(* The APP partition and its image.                                         *)

\* Nothing but a copy in progress changes the APP partition, and a copy is in
\* progress only while the backup holds the image that the flag names.
THEOREM AppOnlyFromVerifiedBackup == Spec => AppWrittenFromVerifiedBackup
<1>1. RecoveryInv /\ [Next]_vars => [app' # app => \E i \in Images : FlagValid(i)]_vars
  <2> SUFFICES ASSUME RecoveryInv, Next, app' # app
               PROVE  \E i \in Images : FlagValid(i)
    OBVIOUS
  <2>1. pc \in {"erase", "copy"}
    <3>1. ~AppStep
      BY DEF AppStep, FwStep, FwCall, EraseBefore, WriteWord, WriteReturn, FinishTail,
         FinishFlagErase, FinishFlagMagic, FinishFlagSize, FinishFlagCrc, ProgramFlag,
         StartUpdate, StopUpdate, WriteData, Finish, flashVars
    <3>2. CASE LoaderStep
      BY <3>2 DEF LoaderStep, BootStep, BootCheck, EraseApp, CopyWord, CopyEnd,
         ClearUpgradeFlag, JumpToApp, flashVars
    <3>3. ~SystemReset
      BY DEF SystemReset, flashVars
    <3>4. CASE PowerLoss
      BY <3>4, DamagedNothing DEF PowerLoss, ErasingApp, ProgrammingApp, RecoveryInv,
         TypeOK, FlashTypeOK
    <3> QED BY <3>1, <3>2, <3>3, <3>4 DEF Next
  <2> QED BY <2>1 DEF RecoveryInv
<1> QED
  BY <1>1, RecoveryInvariant, PTL DEF Spec, AppWrittenFromVerifiedBackup

\* The first word of a complete APP passes the test of JumpToApp.
LEMMA FirstWord == AppComplete => app[0] \notin {Erased, Garbled}
<1>1. 0 \in Offsets
  <2>1. Words \in Nat /\ Words > 0
    BY GeometryAssumption DEF Words
  <2> QED BY <2>1 DEF Offsets
<1>2. ASSUME NEW i \in Installable, Holds(app, i) PROVE app[0] = <<i, 0>>
  <2>1. 0 * W < Size[i]
    BY GeometryAssumption, ImageAssumption DEF Installable
  <2> QED BY <1>1, <1>2, <2>1 DEF Holds
<1> QED
  BY <1>2, ImageAssumption DEF AppComplete, Installable

\* Without faults of its own flash operations the Bootloader keeps BootInv.
LEMMA BootInductive ==
  ASSUME ~BootFaults, RecoveryInv, BootInv, Next PROVE BootInv'
<1> USE SameFlashSameImages DEF BootInv
<1>1. CASE AppStep
  <2>1. pc \in AppPcs /\ pc' \in AppPcs /\ app' = app
    BY <1>1 DEF AppStep, FwStep, FwCall, EraseBefore, WriteWord, WriteReturn, FinishTail, WriteFailed, GiveUp, CheckSize,
       FinishFlagErase, FinishFlagMagic, FinishFlagSize, FinishFlagCrc, ProgramFlag,
       StartUpdate, StopUpdate, WriteData, Finish, AppPcs, WritingPcs, flashVars
  <2> QED BY <2>1 DEF AppPcs, WritingPcs
<1>2. CASE LoaderStep
  <2> USE DEF CopyError, flashVars, AppPcs, WritingPcs
  <2>1. CASE BootCheck
    <3>1. \A i : FlagValid(i) => flag.magic = MAGIC
      BY DEF FlagValid
    <3> QED BY <2>1, <3>1 DEF BootCheck, RecoveryInv, Recoverable
  <2>2. CASE EraseApp
    BY <2>2 DEF EraseApp
  <2>3. CASE CopyWord
    BY <2>3 DEF CopyWord
  <2>4. CASE CopyEnd
    BY <1>2, <2>4, LoaderRecovery, LoaderType DEF CopyEnd, RecoveryInv
  <2>5. CASE ClearUpgradeFlag
    BY <2>5 DEF ClearUpgradeFlag
  <2>6. CASE JumpToApp
    BY <2>6, FirstWord DEF JumpToApp
  <2> QED BY <1>2, <2>1, <2>2, <2>3, <2>4, <2>5, <2>6 DEF LoaderStep, BootStep
<1>3. CASE SystemReset \/ PowerLoss
  BY <1>3 DEF SystemReset, PowerLoss, Restart, AppPcs, WritingPcs
<1> QED
  BY <1>1, <1>2, <1>3 DEF Next

\* An undisturbed flash in the Bootloader: it always jumps, and only to a
\* complete image, whatever power cuts interrupted before.
THEOREM NeverPartial == ~BootFaults => (Spec => []NeverRunsPartial)
<1> SUFFICES ASSUME ~BootFaults PROVE Spec => []NeverRunsPartial
  OBVIOUS
<1>1. Init => BootInv
  BY DEF Init, BootInv, AppPcs, WritingPcs
<1>2. RecoveryInv /\ BootInv /\ [Next]_vars => BootInv'
  <2>1. RecoveryInv /\ BootInv /\ UNCHANGED vars => BootInv'
    BY SameFlashSameImages DEF vars, BootInv
  <2> QED BY <2>1, BootInductive
<1>3. BootInv => NeverRunsPartial
  BY DEF BootInv, NeverRunsPartial
<1> QED
  BY <1>1, <1>2, <1>3, RecoveryInvariant, PTL DEF Spec
=============================================================================
