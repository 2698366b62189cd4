----------------------------- MODULE MCActionServer -----------------------------
(* Instances of ActionServer for TLC. *)
EXTENDS ActionServer, TLC

GoalSymmetry == Permutations(Goals \ BadGoals)
=============================================================================
