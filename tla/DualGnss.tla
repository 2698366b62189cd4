-------------------------------- MODULE DualGnss --------------------------------
(***************************************************************************)
(* The ROS node dual_gnss_map (src/utm_pkg/utm_pkg/dual_gnss_map_node.py): *)
(* the fixes of a rear and a front antenna are paired by their stamps, and *)
(* every pair that passes the checks gives the global yaw.  The node has   *)
(* one thread; its callbacks run to their end.                             *)
(*                                                                         *)
(* Time is discrete.  Stamps are times of a recording of BagEnd + 1 ticks  *)
(* that is played again and again (rosbag play --loop): lap is the parity  *)
(* of the play, and a sample remembers the play it is from.  Ages are      *)
(* monotonic time.  A fix is usable or not (status, RTK, covariance), and  *)
(* the yaw of a pair is the front sample's, an integer; a baseline out of  *)
(* range counts as an unusable front sample.                               *)
(***************************************************************************)
EXTENDS Integers, Sequences, FiniteSets

CONSTANTS
  BagEnd,          \* the last stamp of the recording
  MaxDelay,        \* ticks a fix may take to arrive
  MaxSilence,      \* ticks of the recording's ends that have a fix of each stream
  Yaws,            \* what a pair may measure
  MaxYawRate,      \* maximum_yaw_rate, per tick
  SyncTolerance, MaxInterpolationGap, PairWait, HeadingTimeout,
  StatusPeriod,    \* of status_timer
  JumpThreshold,   \* the 1.0 of _check_time_jump
  RearMax, FrontMax, \* maxlen of the deques
  None             \* Python's None

\* What last_raw_yaw and last_raw_stamp, and the history of a pair, may be.
Accepted == [yaw : Yaws, stamp : 0..BagEnd]
Pairs    == [age : Int, spread : Int, oneLap : BOOLEAN, usable : BOOLEAN]

ASSUME GnssAssumption ==
  /\ {MaxDelay, MaxSilence, MaxYawRate, SyncTolerance, MaxInterpolationGap, PairWait,
      HeadingTimeout, JumpThreshold} \subseteq Nat
  /\ StatusPeriod \in Nat \ {0} /\ RearMax \in Nat \ {0} /\ FrontMax \in Nat \ {0}
  /\ Yaws # {} /\ Yaws \subseteq Nat /\ None \notin Nat \cup Accepted \cup Pairs
  \* A replay starts earlier, by more than the threshold, than whatever came last,
  \* and its first fixes match none that is late from the play before.
  /\ BagEnd \in Nat /\ BagEnd > 2 * MaxSilence + JumpThreshold
  /\ \A tolerance \in {JumpThreshold, SyncTolerance} :
       BagEnd >= MaxSilence + MaxDelay + tolerance

VARIABLES
  src, lap,    \* the recording's time, and the parity of its play
  measured,    \* [Streams -> ticks since the stream's last fix was measured]
  rear_samples, front_samples,
  last_input,  \* last_rear_input_stamp and last_front_input_stamp
  raw,         \* last_raw_yaw and last_raw_stamp, or None
  valid_age,   \* the age of last_valid_wall, or None
  valid_state,
  processing,  \* process_pending() is running
  due,         \* timers that have expired and whose callbacks have not run
  phase,       \* ticks until status_timer expires
  pair         \* history: what the last accepted pair was made of, or None

inputVars == <<src, lap, measured, phase>>
yawVars   == <<raw, valid_age, valid_state, pair>>
vars == <<inputVars, rear_samples, front_samples, last_input, yawVars, processing, due>>

Streams == {"rear", "front"}

\* What a callback receives, and what it queues; held is the time a front
\* sample has been queued.
RearFixes  == [usable : BOOLEAN]
FrontFixes == [usable : {TRUE}, yaw : Yaws] \cup {[usable |-> FALSE, yaw |-> None]}
RearSample(fix, new)  == [usable |-> fix.usable, stamp |-> new.stamp, lap |-> new.lap]
FrontSample(fix, new) ==
  [usable |-> fix.usable, yaw |-> fix.yaw, held |-> 0, stamp |-> new.stamp, lap |-> new.lap]

Abs(x) == IF x < 0 THEN -x ELSE x
Capped(x, cap) == IF x < cap THEN x ELSE cap
LastOf(s) == s[Len(s)]

\* The longest an accepted yaw may be shown as valid: publish_status() looks
\* at its age every StatusPeriod only.
ShownBound == HeadingTimeout + StatusPeriod
\* How old its front sample may be then: it waits for a rear sample, or for
\* the first one, which may be later by the tolerance.
Wait     == IF PairWait >= SyncTolerance THEN PairWait ELSE SyncTolerance
AgeBound == ShownBound + MaxDelay + Wait

Init ==
  /\ src = 0 /\ lap = 0
  /\ measured = [s \in Streams |-> MaxDelay + 1]
  /\ rear_samples = <<>> /\ front_samples = <<>>
  /\ last_input = [s \in Streams |-> None]
  /\ raw = None /\ valid_age = None /\ valid_state = FALSE /\ pair = None
  /\ processing = FALSE /\ due = {} /\ phase = StatusPeriod

-----------------------------------------------------------------------------
(* Fixes. *)

\* How long ago a sample was measured.
AgeOf(sample) == IF sample.lap = lap THEN src - sample.stamp ELSE src + BagEnd + 1 - sample.stamp

\* A fix measured delay ticks ago, perhaps at the end of the play before.
Measured(delay) ==
  IF delay <= src THEN [stamp |-> src - delay, lap |-> lap]
  ELSE [stamp |-> src + BagEnd + 1 - delay, lap |-> 1 - lap]

\* A deque of bounded length drops its oldest sample.
Enqueue(s, x, max) == IF Len(s) < max THEN Append(s, x) ELSE Append(Tail(s), x)

\* Mutant: a jump empties only the deque it is seen on.
ClearsOwnOnly(stream, jumped) == IF jumped THEN {stream} ELSE {}

\* The deques that a fix of the stream empties.
Cleared(stream, jumped) == IF jumped THEN Streams ELSE {}

\* Mutant: the jump forgets the yaw but not when it was accepted.
JumpKeepsWall(jumped) ==
  IF jumped THEN raw' = None /\ valid_state' = FALSE /\ UNCHANGED <<valid_age, pair>>
  ELSE UNCHANGED yawVars

\* A jump forgets the yaw, and the node is not valid any more.
JumpReset(jumped) ==
  IF jumped THEN raw' = None /\ valid_state' = FALSE /\ valid_age' = None /\ UNCHANGED pair
  ELSE UNCHANGED yawVars

\* rear_callback and front_callback: _check_time_jump(), the sample is queued
\* and process_pending() begins.
Callback(stream, delay, fix) ==
  LET new    == Measured(delay)
      jumped == last_input[stream] # None /\ new.stamp < last_input[stream] - JumpThreshold
      kept(s, samples) == IF s \in Cleared(stream, jumped) THEN <<>> ELSE samples
      rears  == kept("rear", rear_samples)
      fronts == kept("front", front_samples)
  IN /\ ~processing
     /\ delay < measured[stream]
     /\ measured' = [measured EXCEPT ![stream] = delay]
     /\ JumpReset(jumped)
     /\ last_input' = [s \in Streams |-> IF s = stream THEN new.stamp
                                         ELSE IF jumped THEN None ELSE last_input[s]]
     /\ rear_samples'  = IF stream = "rear" THEN Enqueue(rears, RearSample(fix, new), RearMax) ELSE rears
     /\ front_samples' = IF stream = "front" THEN Enqueue(fronts, FrontSample(fix, new), FrontMax) ELSE fronts
     /\ processing' = TRUE
     /\ UNCHANGED <<src, lap, phase, due>>

-----------------------------------------------------------------------------
(* Pairing. *)

\* The rear samples that stand for the rear antenna at the stamp: the two
\* around it, the nearest one, or none.  The scan goes up to the first sample
\* that is not earlier, and replays may leave the deque unsorted.
InterpolatedRear(stamp) ==
  LET D == DOMAIN rear_samples
      later  == {i \in D : rear_samples[i].stamp >= stamp}
      after  == CHOOSE i \in later : \A j \in later : i <= j
      seen   == {i \in D : rear_samples[i].stamp <= stamp /\ (later # {} => i <= after)}
      before == CHOOSE i \in seen : \A j \in seen : j <= i
      span   == rear_samples[after].stamp - rear_samples[before].stamp
      away(i) == Abs(rear_samples[i].stamp - stamp)
      nearest == CHOOSE i \in D : \A j \in D : away(i) < away(j) \/ (away(i) = away(j) /\ i <= j)
  IN IF later # {} /\ seen # {} /\ span = 0 THEN {rear_samples[before]}
     ELSE IF later # {} /\ seen # {} /\ span <= MaxInterpolationGap
     THEN {rear_samples[before], rear_samples[after]}
     ELSE IF D # {} /\ away(nearest) <= SyncTolerance THEN {rear_samples[nearest]}
     ELSE {}

\* process_pending() leaves the front sample for later.
Waits(front) ==
  /\ LastOf(rear_samples).stamp < front.stamp \/ InterpolatedRear(front.stamp) = {}
  /\ front.held < PairWait

\* _fix_is_usable() of both fixes.
PairUsable(rears, front) == front.usable /\ \A r \in rears : r.usable

\* The heading change from the last accepted yaw is possible.
Plausible(front) ==
  raw = None \/
    (/\ front.stamp - raw.stamp > 0
     /\ Abs(front.yaw - raw.yaw) <= MaxYawRate * (front.stamp - raw.stamp))

\* What the history keeps of a pair: how old its front sample is, how far the
\* rear ones are from it, and whether all are of one play and usable.
MadeOf(rears, front) ==
  [age |-> AgeOf(front),
   spread |-> CHOOSE d \in {Abs(r.stamp - front.stamp) : r \in rears} :
                \A r \in rears : Abs(r.stamp - front.stamp) <= d,
   oneLap |-> \A r \in rears : r.lap = front.lap,
   usable |-> front.usable /\ \A r \in rears : r.usable]

\* Mutant: the wall time is noted before the checks.
NoteThenCheck(rears, front) ==
  /\ valid_age' = 0
  /\ IF PairUsable(rears, front) /\ Plausible(front)
     THEN /\ raw' = [yaw |-> front.yaw, stamp |-> front.stamp] /\ valid_state' = TRUE
          /\ pair' = MadeOf(rears, front)
     ELSE UNCHANGED <<raw, valid_state, pair>>

\* process_pair(): the pair is accepted or rejected.
ProcessPair(rears, front) ==
  IF PairUsable(rears, front) /\ Plausible(front)
  THEN /\ raw' = [yaw |-> front.yaw, stamp |-> front.stamp]
       /\ valid_age' = 0
       /\ valid_state' = TRUE
       /\ pair' = MadeOf(rears, front)
  ELSE UNCHANGED yawVars

\* Old rear samples go, two are kept.
Pruned(stamp) ==
  LET stops(k) == k >= Len(rear_samples) - 2
                  \/ rear_samples[k + 2].stamp >= stamp - MaxInterpolationGap
      k == CHOOSE n \in 0..Len(rear_samples) :
             stops(n) /\ \A m \in 0..(n - 1) : ~stops(m)
  IN SubSeq(rear_samples, k + 1, Len(rear_samples))

\* One turn of the loop of process_pending(), or its end.
ProcessPending ==
  /\ processing
  /\ IF front_samples = <<>> \/ rear_samples = <<>> \/ Waits(Head(front_samples))
     THEN processing' = FALSE /\ UNCHANGED <<rear_samples, front_samples, yawVars>>
     ELSE LET front == Head(front_samples)
              rears == InterpolatedRear(front.stamp)
          IN /\ front_samples' = Tail(front_samples)
             /\ IF rears = {} THEN UNCHANGED <<rear_samples, yawVars>>
                ELSE ProcessPair(rears, front) /\ rear_samples' = Pruned(front.stamp)
             /\ UNCHANGED processing
  /\ UNCHANGED <<inputVars, last_input, due>>

-----------------------------------------------------------------------------
(* Timers. *)

ProcessTimer ==
  /\ ~processing /\ "process" \in due
  /\ processing' = TRUE /\ due' = due \ {"process"}
  /\ UNCHANGED <<inputVars, rear_samples, front_samples, last_input, yawVars>>

\* Mutant: the timeout keeps the yaw that later ones are compared with.
ForgetNothing(current) == raw

\* What is left of the last accepted yaw when valid_state changes.
AfterTimeout(current) == IF current THEN raw ELSE None

\* publish_status(): the only place that ends a yaw's validity by its age.
PublishStatus ==
  LET current == valid_age # None /\ valid_age <= HeadingTimeout
  IN /\ ~processing /\ "status" \in due
     /\ due' = due \ {"status"}
     /\ valid_state' = current
     /\ raw' = IF current # valid_state THEN AfterTimeout(current) ELSE raw
     /\ UNCHANGED <<inputVars, rear_samples, front_samples, last_input, valid_age, pair, processing>>

\* Time passes once the callbacks that are due have run.  The recording starts
\* again after BagEnd, and each stream has a fix within MaxSilence of its ends.
Tick ==
  LET older(samples) ==
        [i \in DOMAIN samples |-> [samples[i] EXCEPT !.held = Capped(@ + 1, PairWait + 2)]]
  IN /\ ~processing /\ due = {}
     /\ src \in {MaxSilence, BagEnd} => \A s \in Streams : measured[s] <= MaxSilence
     /\ src' = (src + 1) % (BagEnd + 1)
     /\ lap' = IF src = BagEnd THEN 1 - lap ELSE lap
     /\ measured' = [s \in Streams |-> Capped(measured[s] + 1, MaxSilence + MaxDelay + 1)]
     /\ front_samples' = older(front_samples)
     /\ valid_age' = IF valid_age = None THEN None ELSE Capped(valid_age + 1, ShownBound + 2)
     /\ pair' = IF pair = None THEN None ELSE [pair EXCEPT !.age = Capped(@ + 1, AgeBound + 1)]
     /\ phase' = IF phase = 1 THEN StatusPeriod ELSE phase - 1
     /\ due' = {"process"} \cup (IF phase = 1 THEN {"status"} ELSE {})
     /\ UNCHANGED <<rear_samples, last_input, raw, valid_state, processing>>

Next ==
  \/ \E delay \in 0..MaxDelay, fix \in RearFixes  : Callback("rear", delay, fix)
  \/ \E delay \in 0..MaxDelay, fix \in FrontFixes : Callback("front", delay, fix)
  \/ ProcessPending
  \/ ProcessTimer
  \/ PublishStatus
  \/ Tick

Spec == Init /\ [][Next]_vars

-----------------------------------------------------------------------------
(* Properties. *)

Stamps == 0..BagEnd
\* No accepted pair mixes two plays of the recording, uses an unusable fix or
\* reaches further than the tolerances, whatever was queued when the stamps
\* jumped back (_check_time_jump, _interpolated_rear).
PairsMatch ==
  pair # None =>
    /\ pair.oneLap /\ pair.usable
    /\ pair.spread <= SyncTolerance \/ pair.spread <= MaxInterpolationGap

\* A yaw is shown as valid only while the fixes it came from are recent: the
\* delays, the wait for a rear sample, heading_timeout and one period of
\* publish_status() add up to AgeBound (a rejected pair renews nothing).
ValidIsRecent == valid_state => raw # None /\ pair # None /\ pair.age <= AgeBound

\* The node turns valid only when a pair is accepted: neither publish_status()
\* nor a jump brings an old acceptance back to life.
ValidFromPairs == [][valid_state' /\ ~valid_state => valid_age' = 0 /\ processing]_vars

\* process_pair() refuses a pair of two usable fixes.
Refuses ==
  /\ processing /\ Len(front_samples') < Len(front_samples)
  /\ LET front == Head(front_samples)
         rears == InterpolatedRear(front.stamp)
     IN rears # {} /\ PairUsable(rears, front)
  /\ valid_age' # 0
\* After an outlier was accepted, good pairs are refused as implausible no
\* longer than heading_timeout and one status period: the timeout forgets the
\* outlier, and so does a jump back of the stamps.
OutlierIsForgotten == [][Refuses => valid_age # None /\ valid_age <= ShownBound]_vars

=============================================================================
