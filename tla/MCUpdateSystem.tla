--------------------------- MODULE MCUpdateSystem ---------------------------
(***************************************************************************)
(* Small devices for TLC: two bytes to a word, two words to a sector, two   *)
(* sectors to a partition.                                                  *)
(***************************************************************************)
EXTENDS UpdateSystem

\* Image a ends on a sector boundary plus one byte, image b fills the partition
\* and the oversize image must be refused.
TailSizes == [i \in Images |-> IF i = "a" THEN 5 ELSE IF i = "b" THEN 8 ELSE 9]

\* No image has its tail in a sector without a whole word before it.
SafeSizes == [i \in Images |-> IF i = "a" THEN 7 ELSE 8]
=============================================================================
