--------------------------- MODULE UpgradeControl ---------------------------
(***************************************************************************)
(* What the functions of fw_upgrade.h promise to a transport: an update has a *)
(* size, takes data up to that size and no further, and is done only with all *)
(* of it. FwUpgrade shows it in bytes, down to the flash; the transports       *)
(* Ymodem and UpgradeChannels use it, in packets and in pieces of a file.     *)
(***************************************************************************)
EXTENDS Naturals

VARIABLES
  fw,      \* FW_UPG_GetState
  size,    \* what FW_UPG_StartUpdate was given
  taken    \* what FW_UPG_WriteData took of it

Init == fw = "IDLE" /\ size = 0 /\ taken = 0

\* A start is never refused for the update that goes on.
Start == fw' = "RECVING" /\ size' \in Nat \ {0} /\ taken' = 0

Write ==
  /\ fw = "RECVING" /\ taken < size
  /\ taken' \in taken + 1 .. size
  /\ UNCHANGED <<fw, size>>

Finish == fw = "RECVING" /\ taken = size /\ fw' = "DONE" /\ UNCHANGED <<size, taken>>

\* FW_UPG_StopUpdate, an error of the flash, a Finish that is refused, a reset.
Stop == fw' = "IDLE" /\ size' = 0 /\ taken' = 0

Next == Start \/ Write \/ Finish \/ Stop

Spec == Init /\ [][Next]_<<fw, size, taken>>
=============================================================================
