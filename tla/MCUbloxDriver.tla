----------------------------- MODULE MCUbloxDriver -----------------------------
(* The measurement rate, which must succeed, and three message rates, which  *)
(* are requests of one kind.  An answer may come after its request was given *)
(* up, while the next one or the one after that is waited for.               *)
EXTENDS UbloxDriver

RateAndMessages == <<[kind |-> "CFG-RATE", must |-> TRUE], [kind |-> "CFG-MSG", must |-> FALSE],
                     [kind |-> "CFG-MSG", must |-> FALSE], [kind |-> "CFG-MSG", must |-> FALSE]>>
===============================================================================
