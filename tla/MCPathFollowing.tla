----------------------------- MODULE MCPathFollowing -----------------------------
(* Instances of PathFollowing for TLC. *)
EXTENDS PathFollowing

ThreePaths == 1..3
=============================================================================
