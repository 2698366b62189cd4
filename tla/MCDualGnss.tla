------------------------------- MODULE MCDualGnss -------------------------------
(* A recording of eight ticks of 0.06 s.  The timeout, the status period and *)
(* the jump are scaled down with it.  The yaws are half a turn apart, which   *)
(* is plausible only after ShownBound (1.5 s at 120 degrees per second).      *)
EXTENDS DualGnss

MCYaws == {0, 5}
=============================================================================
