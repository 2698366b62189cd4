---------------------------- MODULE MCWheelOdometry ----------------------------
(* Instances of WheelOdometry for TLC.  A glitch the guard can accept, as a     *)
(* count too many, and one it must drop.                                        *)
EXTENDS WheelOdometry

SmallAndLarge == {1, 9}
=============================================================================
