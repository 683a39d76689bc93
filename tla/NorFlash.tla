------------------------------ MODULE NorFlash ------------------------------
(***************************************************************************)
(* The internal NOR flash of the STM32F407 as the firmware sees it through  *)
(* Platform/drv_flash: three regions that survive a power cut, and what a   *)
(* program or an erase may leave in a cell.                                 *)
(*                                                                          *)
(*   backup   Sector 8-10, where a new image is received                    *)
(*   app      Sector 5-7, the image that is linked and executed             *)
(*   flag     Sector 4, magic / size / CRC32 of the image to install        *)
(*                                                                          *)
(* A cell is one 32-bit word. Word k of image i is the pair <<i, k>>: the   *)
(* bytes are not modelled, only whose bytes they are. CRC32 is taken to be  *)
(* free of collisions, so the CRC of image i is represented by i itself.    *)
(***************************************************************************)
EXTENDS Naturals

CONSTANTS
  W,            \* bytes in a flash word (4 in the code)
  SectorWords,  \* words in a sector (32768 in the code)
  Sectors,      \* sectors in a partition (3 in the code)
  Images,       \* firmware images that are ever offered or installed
  Size,         \* their size in bytes
  Erased,       \* a cell that reads 0xFFFFFFFF
  Garbled,      \* a cell that holds neither 0xFFFFFFFF nor a word of an image
  TakesMisaligned  \* is a word taken at an address that is no multiple of W?

ASSUME GeometryAssumption ==
  /\ W \in Nat \ {0}
  /\ SectorWords \in Nat \ {0}
  /\ Sectors \in Nat \ {0}

ASSUME ImageAssumption ==
  /\ Size \in [Images -> Nat]
  /\ Erased # Garbled
  /\ Erased \notin Images \X Nat
  /\ Garbled \notin Images \X Nat
  /\ Erased \notin Images /\ Garbled \notin Images
  /\ Erased \notin Nat /\ Garbled \notin Nat

\* Flash_Write_Word asks for an aligned address and does not look (drv_flash.c:36):
\* the flash answers with an error, or the word runs into two cells.
ASSUME MisalignedAssumption == TakesMisaligned \in BOOLEAN

VARIABLES
  backup, app, flag,   \* the three regions of the flash
  pc                   \* where the processor is, in the Bootloader or in the APP

flashVars == <<backup, app, flag>>

-----------------------------------------------------------------------------
(* Geometry. Partitions are addressed by word, from 0.                      *)

Words == Sectors * SectorWords
Offsets == 0 .. Words - 1
Capacity == Words * W

\* The cells of the sector that holds word k.
SectorOf(k) == {j \in Offsets : j \div SectorWords = k \div SectorWords}

Cell == (Images \X Nat) \cup {Erased, Garbled}
MAGIC == "FWUP"

\* The magic word is neither an erased word nor garbage.
ASSUME MagicAssumption == MAGIC \notin {Erased, Garbled}

FlagCell == [magic : {MAGIC, Erased, Garbled},
             size  : Nat \cup {Erased, Garbled},
             crc   : Images \cup {Erased, Garbled}]

ErasedPartition == [k \in Offsets |-> Erased]
ErasedFlag == [magic |-> Erased, size |-> Erased, crc |-> Erased]

\* Only an image that fits a partition can be installed.
Installable == {i \in Images : Size[i] > 0 /\ Size[i] <= Capacity}

\* Reading Size[i] bytes from the start of part gives image i.
Holds(part, i) ==
  \A k \in Offsets : k * W < Size[i] => part[k] = <<i, k>>

-----------------------------------------------------------------------------
(* What the hardware does.                                                  *)

\* Programming can only clear bits: an erased cell, or one that already holds
\* the value, takes it; any other cell ends as the bitwise AND of the two,
\* which is the new value or garbage. HAL_FLASH_Program reports no error.
Programmed(old, new) ==
  IF old \in {Erased, new} THEN {new} ELSE {new, Garbled}

\* A failed or interrupted erase of the cells in es, or program of those in
\* ps, leaves each of them as it was, erased (only by an erase) or garbled.
Damaged(part, es, ps) ==
  { [k \in Offsets |-> IF k \in e THEN Erased
                       ELSE IF k \in g THEN Garbled ELSE part[k]] :
      e \in SUBSET es, g \in SUBSET (es \cup ps) }

\* The same for the three words of the flag sector.
FlagFields == {"magic", "size", "crc"}
DamagedFlag(es, ps) ==
  LET Left(f) == {flag[f]} \cup (IF f \in es THEN {Erased, Garbled}
                                ELSE IF f \in ps THEN {Garbled} ELSE {})
  IN  [magic : Left("magic"), size : Left("size"), crc : Left("crc")]

FlashTypeOK ==
  /\ backup \in [Offsets -> Cell]
  /\ app \in [Offsets -> Cell]
  /\ flag \in FlagCell

\* The Bootloader, if it ran now, would copy image i to the APP partition.
FlagValid(i) ==
  /\ flag.magic = MAGIC
  /\ flag.size = Size[i]
  /\ flag.crc = i
  /\ i \in Installable
  /\ Holds(backup, i)
=============================================================================
