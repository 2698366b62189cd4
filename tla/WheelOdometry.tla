------------------------------ MODULE WheelOdometry ------------------------------
(***************************************************************************)
(* From the wheel to the velocity in /odom/encoder: the board of           *)
(* EncoderStream, the serial line with _reader_loop and _process_encoder   *)
(* of serial_bridge, and the node encoder_odometry.                        *)
(*                                                                         *)
(* A line is in transit from the print to speed_callback(), in order, for  *)
(* MaxTransit ticks at most.  Lines are lost while the port is closed, and *)
(* opening it may reset the board.  Of a speed, delta / dt in the line,    *)
(* the node keeps here whether it is zero; the position, a sum of speeds,  *)
(* is left out.                                                            *)
(***************************************************************************)
EXTENDS EncoderStream

CONSTANTS
  None,
  MaxLines,        \* bound on the lines in transit
  MaxTransit,      \* bound on the time of one
  EncoderTimeout,  \* encoder_timeout_sec
  OdomPeriod       \* 1 / odom_publish_rate_hz

ASSUME OdometryAssumption ==
  /\ {MaxLines, MaxTransit, EncoderTimeout} \subseteq Nat /\ OdomPeriod \in Nat \ {0}
  /\ None \notin Int

VARIABLES
  transit,       \* lines printed and not processed, with the time since the print
  sampleAge,     \* age of the watchdog's _last_sample_time, or None
  current_speed, \* the speed kept, with the time since its print, or None for 0.0
  velocity,      \* the same for the speed published last in /odom/encoder
  timer,         \* ticks until odom_timer expires
  last           \* history: the count processed last, None after a loss or a sync

odomVars == <<sampleAge, current_speed, velocity, timer>>
vars == <<boardVars, transit, odomVars, last>>

\* The oldest measurement that a published velocity may stand for.
Bound == MaxTransit + EncoderTimeout + OdomPeriod

Init ==
  /\ BoardInit
  /\ transit = <<>> /\ last = None
  /\ sampleAge = None /\ current_speed = None /\ velocity = None /\ timer = OdomPeriod
-----------------------------------------------------------------------------
Pass ==
  /\ \/ \E e \in Glitches \cup {0} : Guard(counter + e)
     \/ StreamNothing
  /\ UNCHANGED <<transit, odomVars, last>>

PrintLine ==
  /\ Len(transit) < MaxLines
  /\ \E sync \in BOOLEAN :
       /\ StreamLine(sync)
       /\ transit' = Append(transit, [sync |-> sync, count |-> guarded, age |-> 0,
                                      delta |-> Sample.delta, dt |-> Sample.dt])
  /\ UNCHANGED <<odomVars, last>>

\* A reset of the board, or an R command: lines printed before are still read.
Reset == ResetCount /\ UNCHANGED <<transit, odomVars, last>>

\* The port is closed: what is in transit is lost.
LoseLines ==
  /\ transit # <<>>
  /\ transit' = <<>> /\ last' = None
  /\ UNCHANGED <<boardVars, odomVars>>

\* EncoderWatchdog.record_sample().
record_sample == sampleAge' = 0

\* _handle_line() and speed_callback(): a sync line is logged only.
speed_callback ==
  /\ transit # <<>> /\ transit' = Tail(transit)
  /\ LET line == Head(transit)
     IN IF line.sync THEN last' = None /\ UNCHANGED odomVars
        ELSE /\ record_sample
             /\ current_speed' = [moving |-> line.delta # 0, age |-> line.age]
             /\ last' = line.count
             /\ UNCHANGED <<velocity, timer>>
  /\ UNCHANGED boardVars

\* Mutant: once a sample has come the watchdog never bites.
EverFresh == sampleAge # None

\* EncoderWatchdog.check().
fresh == sampleAge # None /\ sampleAge <= EncoderTimeout

odom_timer_callback ==
  /\ timer = 0 /\ timer' = OdomPeriod
  /\ current_speed' = IF fresh THEN current_speed ELSE None
  /\ velocity' = IF fresh THEN current_speed ELSE None
  /\ UNCHANGED <<boardVars, transit, sampleAge, last>>

\* Time passes when no line is late and the odometry timer has been served.
Tick ==
  LET capped(x, cap) == IF x < cap THEN x + 1 ELSE cap
      older(speed) == IF speed = None THEN None ELSE [speed EXCEPT !.age = capped(@, Bound + 1)]
  IN /\ BoardTick
     /\ timer > 0 /\ timer' = timer - 1
     /\ \A i \in DOMAIN transit : transit[i].age < MaxTransit
     /\ transit' = [i \in DOMAIN transit |-> [transit[i] EXCEPT !.age = @ + 1]]
     /\ sampleAge' = IF sampleAge = None THEN None ELSE capped(sampleAge, EncoderTimeout + 1)
     /\ current_speed' = older(current_speed) /\ velocity' = older(velocity)
     /\ UNCHANGED last

Next ==
  \/ Turn /\ UNCHANGED <<transit, odomVars, last>>
  \/ Pass \/ PrintLine \/ Reset \/ LoseLines
  \/ speed_callback \/ odom_timer_callback \/ Tick

Spec == Init /\ [][Next]_vars

-----------------------------------------------------------------------------
(* Properties. *)

\* While every read is right and no pass overlong, the guard loses nothing: the
\* guarded count is the wheel's, but for the turn since the last update.
CountIsExact == faults = 0 => Abs(counter - guarded) <= WheelRate * (guardAge + 1)

\* No line reports more than the guard admits in its interval, and in the MinDt by
\* which the last update may be older than the line before, whatever was read, skipped or reset.
SpeedIsPossible ==
  \A i \in DOMAIN transit :
    ~transit[i].sync => Abs(transit[i].delta) <= MaxDelta * (transit[i].dt + MinDt)

\* Between two syncs, the deltas the host receives add up to the counts: no count
\* is reported twice or never because a line was late or found no room.
DeltasAddUp ==
  \A i \in DOMAIN transit :
    LET before == IF i = 1 THEN last ELSE IF transit[i - 1].sync THEN None ELSE transit[i - 1].count
    IN ~transit[i].sync /\ before # None => transit[i].count = before + transit[i].delta

\* /odom/encoder shows a wheel that turns only for Bound after it was measured,
\* whichever of the board, the cable and the bridge has stopped.
VelocityIsRecent == velocity # None /\ velocity.moving => velocity.age <= Bound
=============================================================================
