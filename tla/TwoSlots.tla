------------------------------ MODULE TwoSlots ------------------------------
(***************************************************************************)
(* What the update path promises whatever fails: an image to run and an     *)
(* image that waits to replace it. The first is taken away only while there *)
(* is a second to put in its place, the second only behind a whole first.   *)
(***************************************************************************)
CONSTANTS Images, NoImage

VARIABLES
  running,   \* the whole image in the APP partition, NoImage if there is none
  pending,   \* the image that the next boot installs, NoImage if there is none
  update     \* the image being received, NoImage if there is none

Init == running \in Images /\ pending = NoImage /\ update = NoImage

\* The pending image goes once it runs, or to make room for the next update.
Withdrawal ==
  /\ running # NoImage
  /\ running = pending \/ update # NoImage
  /\ pending' = NoImage

Begin == update' \in Images /\ UNCHANGED <<running, pending>>
Drop == update' = NoImage /\ (UNCHANGED pending \/ Withdrawal) /\ UNCHANGED running
Withdraw == Withdrawal /\ UNCHANGED <<running, update>>
Commit == update # NoImage /\ pending' = update /\ UNCHANGED <<running, update>>
Tear == pending # NoImage /\ running' = NoImage /\ UNCHANGED <<pending, update>>
Install == pending # NoImage /\ running' = pending /\ UNCHANGED <<pending, update>>

Next == Begin \/ Drop \/ Withdraw \/ Commit \/ Tear \/ Install

Spec == Init /\ [][Next]_<<running, pending, update>>
=============================================================================
