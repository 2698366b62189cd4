------------------------------ MODULE CommandChain ------------------------------
(***************************************************************************)
(* From /cmd_vel to the motor pins: the host, as DeadMan promises it, the  *)
(* serial line, and the board of DriveFirmware.  SerialBridge implements   *)
(* DeadMan, so what holds here holds for the bridge and the board.         *)
(*                                                                         *)
(* The line takes less than a tick, and the board reads what a write left  *)
(* in one pass.  A write that fails half way, or meets a receive buffer    *)
(* that setup() does not empty, leaves the front of its pair of lines: the *)
(* board keeps a cut TH line, over an outage of any length, and the next   *)
(* newline completes it.  The port may or may not reset the board when it  *)
(* is opened; the cable may go at any time.                                *)
(***************************************************************************)
EXTENDS DriveFirmware

CONSTANTS Fresh, Bound   \* the promise of the host, see DeadMan

ASSUME ChainAssumption ==
  /\ Fresh \in Nat /\ Bound \in Nat /\ Fresh <= Bound
  /\ NoLine \notin {0, Full}

VARIABLES
  link, drive, age,  \* DeadMan
  frag,    \* throttle of a cut TH line in serialBuffer, cut digits and all; or NoLine
  rxAge,   \* history: age of the message behind the throttle in rx; of a line that was
           \* cut, the time since a later write completed it
  srcAge,  \* history: the same age, of throttle_cmd
  pwmAge,  \* history: the same age, of the PWM of auto mode
  steady   \* history: time the link has been up, setup() over and no cut line left

DM == INSTANCE DeadMan

hostVars  == <<link, drive, age>>
chainVars == <<vars, hostVars, frag, rxAge, srcAge, pwmAge, steady>>

\* Longest time from a message to the last moment its throttle turns a motor: the
\* host's delay, setup() or one pass until the line is parsed, the timeout of the
\* board, and one pass until the timeout is noticed.
ParseWait == LoopSlack + (IF BootTime > LoopDelay THEN BootTime ELSE LoopDelay)
EndBound  == Fresh + ParseWait + CommandTimeout + LoopGap

\* The same over a link that stays up: the host replaces the command by Bound, and the
\* board parses and obeys the stop within one pass.
LinkedBound == Bound + LoopGap

SourceOlder(a) == IF a > EndBound THEN a ELSE a + 1

ChainInit == Init /\ DM!Init /\ frag = NoLine /\ rxAge = 0 /\ srcAge = 0
             /\ pwmAge = 0 /\ steady = 0
-----------------------------------------------------------------------------
\* A throttle th reaches the board, or none if it is NoLine.  What the SA lines say is
\* left out: no motor depends on it.
Line(th, a) ==
  /\ Receive([th |-> th, sa |-> NoLine])
  /\ rxAge' = IF th = NoLine THEN rxAge ELSE a

\* The next newline completes a cut line, and the board stamps it like a new one.
CutLineCompleted == Line(frag, 0)

\* All of the pair: its SA line completes what was cut, its TH line has the last word.
WholePair(th, a) == Line(th, a) /\ frag' = NoLine

\* The front of the pair: cut before its first newline, when the cut line stays or, too
\* long for serialBuffer, is dropped; or after it, when a new one may be left.
PairCut(th) ==
  \/ UNCHANGED <<vars, rxAge>> /\ frag' \in {frag, NoLine}
  \/ CutLineCompleted /\ frag' \in 0..th \cup {NoLine}

\* The receive buffer holds a pair that setup() does not read.
Overflow == pc = "boot" /\ rx.th # NoLine

HostDrives ==
  /\ DM!PutDrive
  /\ WholePair(Full, age') \/ (Overflow /\ PairCut(Full))
  /\ UNCHANGED <<srcAge, pwmAge, steady>>

\* Mutant: the stop of a timed-out command writes no TH line.
StopWithoutThrottle ==
  /\ DM!PutStop
  /\ UNCHANGED <<vars, frag, rxAge, srcAge, pwmAge, steady>>

\* The stop of destroy_node is a TH line alone, and only completes one that was cut.
HostStops ==
  /\ DM!PutStop
  /\ \/ WholePair(0, 0)
     \/ frag # NoLine /\ CutLineCompleted /\ frag' = NoLine
     \/ Overflow /\ PairCut(0)
  /\ UNCHANGED <<srcAge, pwmAge, steady>>

HostConnects ==
  /\ DM!Connect
  /\ \/ BoardReset /\ frag' = NoLine /\ rxAge' = 0 /\ srcAge' = 0 /\ pwmAge' = 0
     \/ UNCHANGED <<vars, frag, rxAge, srcAge, pwmAge>>
  /\ UNCHANGED steady

\* The cable goes or a write fails; any part of that write may have reached the board.
HostLoses ==
  /\ DM!Lose /\ steady' = 0
  /\ \/ PairCut(Full)
     \/ WholePair(0, 0)
     \/ \E a \in 0..Fresh : WholePair(Full, a)
  /\ UNCHANGED <<srcAge, pwmAge>>

BoardParses ==
  /\ LoopTop
  /\ srcAge' = IF rx.th = NoLine THEN srcAge ELSE rxAge
  /\ rxAge' = 0
  /\ UNCHANGED <<hostVars, frag, pwmAge, steady>>

BoardDrives ==
  /\ LoopControl
  /\ pwmAge' = IF Mode = AUTO_MODE /\ motor'.pwm > 0 THEN srcAge ELSE 0
  /\ UNCHANGED <<hostVars, frag, rxAge, srcAge, steady>>

BoardInterrupted ==
  /\ Interrupts \/ SetupDone
  /\ UNCHANGED <<hostVars, frag, rxAge, srcAge, pwmAge, steady>>

TimePasses ==
  /\ Tick
  /\ IF drive THEN DM!Pass ELSE UNCHANGED hostVars
  /\ rxAge' = IF rx.th = NoLine THEN 0 ELSE SourceOlder(rxAge)
  /\ srcAge' = SourceOlder(srcAge)
  /\ pwmAge' = IF mode = AUTO_MODE /\ motor.pwm > 0 THEN SourceOlder(pwmAge) ELSE 0
  /\ steady' = IF ~link \/ pc = "boot" \/ frag # NoLine THEN 0
               ELSE IF steady > EndBound THEN steady ELSE steady + 1
  /\ UNCHANGED frag

ChainNext ==
  \/ HostDrives \/ HostStops \/ HostConnects \/ HostLoses
  \/ BoardParses \/ BoardDrives \/ BoardInterrupted \/ TimePasses

ChainSpec == ChainInit /\ [][ChainNext]_chainVars
-----------------------------------------------------------------------------
\* The dead man's chain: in auto mode no motor turns on a message older than EndBound,
\* whatever is lost, replugged or reset on the way, and whoever of the planner, the
\* bridge and the cable stopped first.  One line is counted otherwise: a TH line that a
\* failing write cut off is stamped by the board when a later write completes it, so its
\* message may be of any age; it turns no motor beyond EndBound from that write on.
EndToEndStop == mode = AUTO_MODE /\ motor.pwm > 0 => pwmAge <= EndBound

\* Once a link has been up long enough for what got lost or cut before to be over, the
\* host's own timeout stops the motor, sooner than the board's would, and no cut line
\* is left to drive it.
LinkedStop ==
  mode = AUTO_MODE /\ motor.pwm > 0 /\ steady > EndBound => pwmAge <= LinkedBound
=============================================================================
