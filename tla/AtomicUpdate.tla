---------------------------- MODULE AtomicUpdate ----------------------------
(***************************************************************************)
(* What the update path promises: at every moment exactly one complete      *)
(* image is installed, the one the device runs after its next undisturbed   *)
(* boot. It changes at once, and only to the image being received.          *)
(***************************************************************************)
CONSTANTS Images, NoImage

VARIABLES
  installed,   \* the image that the next undisturbed boot runs
  update       \* the image being received, NoImage if there is none

Init == installed \in Images /\ update = NoImage

Begin == update' \in Images /\ UNCHANGED installed
Drop == update' = NoImage /\ UNCHANGED installed
Commit == update # NoImage /\ installed' = update /\ UNCHANGED update

Next == Begin \/ Drop \/ Commit

Spec == Init /\ [][Next]_<<installed, update>>
=============================================================================
