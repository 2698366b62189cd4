------------------------------ MODULE MCSerialLines ------------------------------
(* An instance of SerialLines for TLC: a command to the left, and the stop.        *)
EXTENDS SerialLines

LeftAndStop == {Stop, [sa |-> 1, th |-> 1]}
=============================================================================
