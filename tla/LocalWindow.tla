----------------------------- MODULE LocalWindow -----------------------------
(***************************************************************************)
(* What Ymodem promises to the other channel: it works on the upgrade control *)
(* only in its window, and a window that was closed is opened by a reset only. *)
(* Ymodem implements it alone; UpgradeChannels, where OTA is the other channel, *)
(* together with OTA.                                                        *)
(***************************************************************************)
VARIABLES
  armed,   \* FW_UPG_YM_IsArmed
  fw       \* FW_UPG_GetState

States == {"IDLE", "RECVING", "DONE"}

Init == armed = TRUE /\ fw = "IDLE"

\* A file is begun, begun again or given up.
Work == armed /\ fw # "DONE" /\ fw' \in {"IDLE", "RECVING"} /\ UNCHANGED armed
Install == armed /\ fw = "RECVING" /\ fw' = "DONE" /\ UNCHANGED armed
Close == armed /\ fw = "IDLE" /\ armed' = FALSE /\ UNCHANGED fw
Restart == armed' = TRUE /\ fw' = "IDLE"

\* Whatever another channel does to the upgrade control, behind a closed window.
Other == ~armed /\ fw' \in States /\ UNCHANGED armed

Alone == Work \/ Install \/ Close \/ Restart
Next == Alone \/ Other

Spec == Init /\ [][Next]_<<armed, fw>>
AloneSpec == Init /\ [][Alone]_<<armed, fw>>
=============================================================================
