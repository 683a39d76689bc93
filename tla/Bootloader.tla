----------------------------- MODULE Bootloader -----------------------------
(***************************************************************************)
(* Listings/fw_boot_fixed.c: the Bootloader copies the backup partition to  *)
(* the APP partition when the flag in Sector 4 asks for it, then jumps to   *)
(* the APP. Its main() is not in the repository: after a reset it is taken  *)
(* to call IsUpdateRequired, CopyFirmware if so, and then JumpToApp whatever*)
(* CopyFirmware returned (JumpToApp checks by itself whether an APP exists).*)
(***************************************************************************)
EXTENDS NorFlash

CONSTANT BootFaults   \* may a flash operation of the Bootloader report an error?

ASSUME BootFaultsAssumption == BootFaults \in BOOLEAN

VARIABLE cursor   \* CopyFirmware's i: the sector to erase, the word to copy

BootPcs == {"boot", "erase", "copy", "clear", "jump", "halt", "broken"}

\* Mutants of BootCheck: the flag is cleared before the copy; a full partition is
\* taken for an oversize image.
BootCheckClearsFlag ==
  /\ pc = "boot"
  /\ pc' = IF flag.magic = MAGIC /\ \E i \in Images : FlagValid(i)
           THEN "erase" ELSE "jump"
  /\ flag' = ErasedFlag
  /\ cursor' = 0
  /\ UNCHANGED <<backup, app>>

BootCheckRejectsFull ==
  /\ pc = "boot"
  /\ pc' = IF flag.magic = MAGIC /\ \E i \in Images : FlagValid(i) /\ Size[i] < Capacity
           THEN "erase" ELSE "jump"
  /\ cursor' = 0
  /\ UNCHANGED flashVars

\* FW_BOOT_IsUpdateRequired and the checks of FW_BOOT_CopyFirmware: the size is
\* in range and the backup partition has the CRC32 that the flag names.
BootCheck ==
  /\ pc = "boot"
  /\ pc' = IF flag.magic = MAGIC /\ \E i \in Images : FlagValid(i)
           THEN "erase" ELSE "jump"
  /\ cursor' = 0
  /\ UNCHANGED flashVars

\* FW_BOOT_CopyFirmware names the sectors of the APP by number, 5 to 7.
AppSector(s) == {k \in Offsets : k \div SectorWords = s}

\* CopyFirmware returns an error; the flag and the backup stay.
CopyError == BootFaults /\ pc' = "jump" /\ cursor' = 0

\* Mutant of EraseApp: the last sector of the partition is not erased.
EraseAppButLast ==
  /\ pc = "erase"
  /\ app' = [k \in Offsets |-> IF k \in AppSector(cursor) THEN Erased ELSE app[k]]
  /\ IF cursor + 2 < Sectors
     THEN cursor' = cursor + 1 /\ UNCHANGED pc
     ELSE cursor' = 0 /\ pc' = "copy"
  /\ UNCHANGED <<backup, flag>>

EraseApp ==
  /\ pc = "erase"
  /\ \/ /\ app' = [k \in Offsets |-> IF k \in AppSector(cursor) THEN Erased ELSE app[k]]
        /\ IF cursor + 1 < Sectors
           THEN cursor' = cursor + 1 /\ UNCHANGED pc
           ELSE cursor' = 0 /\ pc' = "copy"
     \/ app' \in Damaged(app, AppSector(cursor), {}) /\ CopyError
  /\ UNCHANGED <<backup, flag>>

\* Mutant of CopyWord: a copy that fails is not tried again at the next boot.
CopyWordGivesUp ==
  /\ pc = "copy"
  /\ cursor * W < flag.size
  /\ \/ /\ \E x \in Programmed(app[cursor], backup[cursor]) :
             app' = [app EXCEPT ![cursor] = x]
        /\ cursor' = cursor + 1
        /\ UNCHANGED <<pc, flag>>
     \/ app' \in Damaged(app, {}, {cursor}) /\ flag' = ErasedFlag /\ CopyError
  /\ UNCHANGED backup

\* Mutant of CopyWord: a word that could not be programmed is tried again.
CopyWordRetries ==
  /\ pc = "copy"
  /\ cursor * W < flag.size
  /\ \/ /\ \E x \in Programmed(app[cursor], backup[cursor]) :
             app' = [app EXCEPT ![cursor] = x]
        /\ cursor' = cursor + 1
     \/ BootFaults /\ app' \in Damaged(app, {}, {cursor}) /\ UNCHANGED cursor
  /\ UNCHANGED <<pc, backup, flag>>

CopyWord ==
  /\ pc = "copy"
  /\ cursor * W < flag.size
  /\ \/ /\ \E x \in Programmed(app[cursor], backup[cursor]) :
             app' = [app EXCEPT ![cursor] = x]
        /\ cursor' = cursor + 1
        /\ UNCHANGED pc
     \/ app' \in Damaged(app, {}, {cursor}) /\ CopyError
  /\ UNCHANGED <<backup, flag>>

\* Mutant of CopyEnd: the last word of the image may be left out.
CopyEndEarly ==
  /\ pc = "copy"
  /\ cursor * W + W >= flag.size
  /\ pc' = "clear" /\ cursor' = 0
  /\ UNCHANGED flashVars

CopyEnd ==
  /\ pc = "copy"
  /\ cursor * W >= flag.size
  /\ pc' = "clear" /\ cursor' = 0
  /\ UNCHANGED flashVars

\* FW_BOOT_ClearUpgradeFlag erases the flag sector.
ClearUpgradeFlag ==
  /\ pc = "clear"
  /\ \/ flag' = ErasedFlag /\ pc' = "jump" /\ UNCHANGED cursor
     \/ flag' \in DamagedFlag(FlagFields, {}) /\ CopyError
  /\ UNCHANGED <<backup, app>>

AppComplete == \E i \in Installable : Holds(app, i)

\* JumpToApp only looks at the stack pointer in word 0. An erased word fails
\* the test, garbage may pass it; a partial image that passes it runs amok.
JumpToApp ==
  /\ pc = "jump"
  /\ \/ app[0] # Erased /\ pc' = IF AppComplete THEN "run" ELSE "broken"
     \/ app[0] \in {Erased, Garbled} /\ pc' = "halt"
  /\ UNCHANGED cursor /\ UNCHANGED flashVars

BootStep ==
  \/ BootCheck \/ EraseApp \/ CopyWord \/ CopyEnd \/ ClearUpgradeFlag \/ JumpToApp
=============================================================================
