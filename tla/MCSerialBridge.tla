----------------------------- MODULE MCSerialBridge -----------------------------
(* Instances of SerialBridge for TLC. *)
EXTENDS SerialBridge

\* A forward left turn tighter than the wheels can steer: v in 0.1 m/s, w in 0.1 rad/s.
ForwardOnly == {[v |-> 10, w |-> 10]}

\* steer_sign of the launch configuration.
Inverted == -1
=============================================================================
