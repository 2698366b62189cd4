-------------------------------- MODULE DeadMan --------------------------------
(***************************************************************************)
(* What the host promises the board about the motor, whatever its threads, *)
(* ports and planners do.  While the link is up, a command that drives the *)
(* motor was made from a message no older than Fresh when it was written,  *)
(* and it is replaced before that message is older than Bound.  When the   *)
(* link goes the promise ends: the board's own timeout takes over.         *)
(***************************************************************************)
EXTENDS Naturals

CONSTANTS
  Fresh,  \* oldest message a driving command may still be written from
  Bound   \* oldest message a driving command may still stand for; >= Fresh

VARIABLES
  link,   \* the host has a working port
  drive,  \* the last command on this link drives the motor
  age     \* age of the message behind that command; 0 when it does not drive

vars == <<link, drive, age>>

Init == link = FALSE /\ drive = FALSE /\ age = 0

Connect == ~link /\ link' = TRUE /\ UNCHANGED <<drive, age>>

Lose == link /\ link' = FALSE /\ drive' = FALSE /\ age' = 0

PutDrive == link /\ drive' = TRUE /\ age' \in 0..Fresh /\ UNCHANGED link

PutStop == link /\ drive' = FALSE /\ age' = 0 /\ UNCHANGED link

\* Time may pass over a driving command only while it is within its bound.
Pass == drive /\ age < Bound /\ age' = age + 1 /\ UNCHANGED <<link, drive>>

Next == Connect \/ Lose \/ PutDrive \/ PutStop \/ Pass

Spec == Init /\ [][Next]_vars

\* Type invariant, with the promise itself: a driving command is never older
\* than Bound, and nothing drives without a link.
DeadManInv ==
  /\ link \in BOOLEAN /\ drive \in BOOLEAN /\ age \in 0..Bound
  /\ drive => link
=============================================================================
