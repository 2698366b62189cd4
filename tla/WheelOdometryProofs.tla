-------------------------- MODULE WheelOdometryProofs --------------------------
(***************************************************************************)
(* Proofs about WheelOdometry and EncoderStream, for every wheel, guard,   *)
(* interval and timeout.                                                   *)
(***************************************************************************)
EXTENDS WheelOdometry, SequenceTheorems, TLAPS

Line == [sync : BOOLEAN, count : Int, age : Nat, delta : Int, dt : Nat]
Speed == [moving : BOOLEAN, age : Nat]

OdomType ==
  /\ counter \in Int /\ turned \in BOOLEAN /\ pass \in {"guard", "stream"}
  /\ guarded \in Int /\ guardRaw \in Int /\ guardAge \in Nat /\ faults \in Nat
  /\ streamed \in Int /\ streamAge \in Nat /\ csvAge \in Nat /\ drops \in Nat
  /\ transit \in Seq(Line) /\ last \in Int \cup {None}
  /\ sampleAge \in Nat \cup {None} /\ timer \in Nat
  /\ current_speed \in Speed \cup {None} /\ velocity \in Speed \cup {None}

\* As long as every read was right, the guard holds the counter of its last update.
ExactInv ==
  faults = 0 =>
    /\ guarded = guardRaw
    /\ Abs(counter - guardRaw) <= WheelRate * guardAge + (IF turned THEN WheelRate ELSE 0)

\* What was counted since the last line was admitted for the time since then.
SampleInv ==
  /\ pass = "stream" => guardAge <= MinDt
  /\ Abs(guarded - streamed) + MaxDelta * guardAge <= MaxDelta * (streamAge + MinDt)

\* The next line starts where the last one on its way, or processed, ended.
ChainedInv ==
  drops = 0 =>
    /\ transit = <<>> => last \in {None, streamed}
    /\ transit # <<>> => \/ transit[Len(transit)].sync
                         \/ transit[Len(transit)].count = streamed

\* What the host shows stays within what the transit, the watchdog and the timer allow.
RecentInv ==
  /\ \A i \in DOMAIN transit : transit[i].age <= MaxTransit
  /\ current_speed # None => sampleAge # None
  /\ current_speed # None /\ sampleAge <= EncoderTimeout =>
       current_speed.age <= MaxTransit + sampleAge
  /\ timer <= OdomPeriod
  /\ velocity # None => velocity.age + timer <= Bound
-----------------------------------------------------------------------------
LEMMA EncoderConstants ==
  /\ MaxCount \in Nat /\ WheelRate \in Nat /\ MaxDelta \in Nat /\ MinDelta \in Nat
  /\ MaxDt \in Nat /\ SyncDrops \in Nat /\ MaxAge \in Nat /\ MaxFaults \in Nat
  /\ MinDt \in Nat /\ MinDt >= 1 /\ Interval \in Nat /\ Interval >= 1 /\ Glitches \subseteq Int
  /\ MinDelta <= MaxDelta
  /\ MaxLines \in Nat /\ MaxTransit \in Nat /\ EncoderTimeout \in Nat
  /\ OdomPeriod \in Nat /\ OdomPeriod >= 1 /\ None \notin Int /\ Bound \in Nat
BY EncoderAssumption, OdometryAssumption DEF Bound

LEMMA InitType == Init => OdomType
<1> SUFFICES ASSUME Init PROVE OdomType
  OBVIOUS
<1>1. <<>> \in Seq(Line)
  OBVIOUS
<1>2. /\ counter = 0 /\ turned = FALSE /\ pass = "guard"
      /\ guarded = 0 /\ guardRaw = 0 /\ guardAge = 0 /\ faults = 0
      /\ streamed = 0 /\ streamAge = 0 /\ csvAge = 0 /\ drops = SyncDrops
      /\ transit = <<>> /\ last = None
      /\ sampleAge = None /\ current_speed = None /\ velocity = None /\ timer = OdomPeriod
  BY DEF Init, BoardInit
<1>3. SyncDrops \in Nat /\ OdomPeriod \in Nat
  BY EncoderConstants
<1>4. turned \in BOOLEAN
  BY <1>2
<1>5. transit \in Seq(Line) /\ last \in Int \cup {None} /\ sampleAge \in Nat \cup {None}
      /\ current_speed \in Speed \cup {None} /\ velocity \in Speed \cup {None}
  BY <1>1, <1>2
<1> QED
  BY <1>2, <1>3, <1>4, <1>5 DEF OdomType

LEMMA TypePass == OdomType /\ Pass => OdomType'
<1> SUFFICES ASSUME OdomType, Pass PROVE OdomType'
  OBVIOUS
<1>1. ASSUME NEW e \in Glitches \cup {0}, Guard(counter + e) PROVE OdomType'
  <2>1. counter + e \in Int
    BY EncoderConstants DEF OdomType
  <2> DEFINE raw == counter + e
  <2> HIDE DEF raw
  <2>2. guarded' \in Int /\ guardRaw' \in Int /\ guardAge' \in Nat /\ faults' \in Nat
    BY <1>1, <2>1 DEF Guard, OdomType, raw
  <2> QED
    BY <1>1, <2>2 DEF Pass, Guard, OdomType, wheelVars, streamVars, odomVars
<1>2. CASE StreamNothing
  BY <1>2 DEF Pass, StreamNothing, NoRoom, OdomType, wheelVars, guardVars, streamVars, odomVars
<1> QED
  BY <1>1, <1>2 DEF Pass

LEMMA SampleType == OdomType => Sample.delta \in Int /\ Sample.dt \in Nat /\ Sample.dt >= streamAge
BY EncoderConstants DEF OdomType, Sample

LEMMA PrintedLine ==
  ASSUME OdomType, PrintLine
  PROVE  \E sync \in BOOLEAN :
           /\ StreamLine(sync)
           /\ [sync |-> sync, count |-> guarded, age |-> 0,
               delta |-> Sample.delta, dt |-> Sample.dt] \in Line
           /\ transit' = Append(transit, [sync |-> sync, count |-> guarded, age |-> 0,
                                          delta |-> Sample.delta, dt |-> Sample.dt])
BY SampleType DEF PrintLine, Line, OdomType

LEMMA TypePrint == OdomType /\ PrintLine => OdomType'
<1> SUFFICES ASSUME OdomType, PrintLine PROVE OdomType'
  OBVIOUS
<1>1. PICK sync \in BOOLEAN :
        /\ StreamLine(sync)
        /\ [sync |-> sync, count |-> guarded, age |-> 0,
            delta |-> Sample.delta, dt |-> Sample.dt] \in Line
        /\ transit' = Append(transit, [sync |-> sync, count |-> guarded, age |-> 0,
                                       delta |-> Sample.delta, dt |-> Sample.dt])
  BY PrintedLine
<1>2. transit' \in Seq(Line)
  BY <1>1 DEF OdomType
<1>3. csvAge' \in Nat /\ drops' \in Nat
  BY <1>1, EncoderConstants DEF StreamLine, NextCsvAge, OdomType
<1> QED
  BY <1>1, <1>2, <1>3 DEF StreamLine, PrintLine, OdomType, wheelVars, guardVars, odomVars

LEMMA TypeCallback == OdomType /\ (speed_callback \/ odom_timer_callback) => OdomType'
<1> SUFFICES ASSUME OdomType, speed_callback \/ odom_timer_callback PROVE OdomType'
  OBVIOUS
<1>1. CASE speed_callback
  <2>1. Head(transit) \in Line /\ Tail(transit) \in Seq(Line)
    BY <1>1 DEF speed_callback, OdomType
  <2>2. [moving |-> Head(transit).delta # 0, age |-> Head(transit).age] \in Speed
    BY <2>1 DEF Line, Speed
  <2>3. /\ last' \in Int \cup {None} /\ sampleAge' \in Nat \cup {None}
        /\ current_speed' \in Speed \cup {None} /\ UNCHANGED <<velocity, timer>>
    <3>1. CASE Head(transit).sync
      BY <1>1, <3>1 DEF speed_callback, OdomType, odomVars
    <3>2. CASE ~Head(transit).sync
      <4>1. /\ sampleAge' = 0 /\ last' = Head(transit).count
            /\ current_speed' = [moving |-> Head(transit).delta # 0, age |-> Head(transit).age]
            /\ UNCHANGED <<velocity, timer>>
        BY <1>1, <3>2 DEF speed_callback, record_sample
      <4>2. Head(transit).count \in Int
        BY <2>1 DEF Line
      <4> QED
        BY <2>2, <4>1, <4>2
    <3> QED
      BY <3>1, <3>2
  <2> QED
    BY <1>1, <2>1, <2>3 DEF speed_callback, OdomType, boardVars, wheelVars, guardVars, streamVars
<1>2. CASE odom_timer_callback
  BY <1>2, EncoderConstants DEF odom_timer_callback, OdomType, boardVars, wheelVars, guardVars, streamVars
<1> QED
  BY <1>1, <1>2

\* A tick makes a line older, and a kept speed, up to a cap.
LEMMA TickOlder ==
  ASSUME OdomType, Tick
  PROVE  /\ transit' \in Seq(Line) /\ Len(transit') = Len(transit)
         /\ \A i \in DOMAIN transit :
              /\ transit'[i] = [transit[i] EXCEPT !.age = @ + 1]
              /\ transit[i].age < MaxTransit
         /\ sampleAge = None => sampleAge' = None
         /\ sampleAge # None => sampleAge' \in Nat /\ sampleAge' <= sampleAge + 1
         /\ sampleAge # None /\ sampleAge' <= EncoderTimeout => sampleAge' = sampleAge + 1
         /\ current_speed = None => current_speed' = None
         /\ current_speed # None => /\ current_speed' \in Speed
                                    /\ current_speed'.age <= current_speed.age + 1
         /\ velocity = None => velocity' = None
         /\ velocity # None => velocity' \in Speed /\ velocity'.age <= velocity.age + 1
         /\ timer' \in Nat /\ timer' + 1 = timer
<1> DEFINE capped(x, cap) == IF x < cap THEN x + 1 ELSE cap
<1> DEFINE older(speed) ==
             IF speed = None THEN None ELSE [speed EXCEPT !.age = capped(@, Bound + 1)]
<1>1. /\ timer > 0 /\ timer' = timer - 1
      /\ \A i \in DOMAIN transit : transit[i].age < MaxTransit
      /\ transit' = [i \in DOMAIN transit |-> [transit[i] EXCEPT !.age = @ + 1]]
      /\ sampleAge' = IF sampleAge = None THEN None ELSE capped(sampleAge, EncoderTimeout + 1)
      /\ current_speed' = older(current_speed) /\ velocity' = older(velocity)
  BY DEF Tick
<1>2. ASSUME NEW line \in Line PROVE [line EXCEPT !.age = @ + 1] \in Line
  BY DEF Line
<1>3. transit' \in Seq(Line) /\ Len(transit') = Len(transit)
  <2>1. transit \in Seq(Line)
    BY DEF OdomType
  <2>2. Len(transit) \in Nat /\ DOMAIN transit = 1..Len(transit)
    BY <2>1, LenProperties
  <2>3. \A i \in 1..Len(transit) : [transit[i] EXCEPT !.age = @ + 1] \in Line
    BY <1>2, <2>1, ElementOfSeq
  <2>4. transit' = [i \in 1..Len(transit) |-> [transit[i] EXCEPT !.age = @ + 1]]
    BY <1>1, <2>2
  <2> QED
    BY <2>2, <2>3, <2>4
<1>4. /\ sampleAge = None => sampleAge' = None
      /\ sampleAge # None => sampleAge' \in Nat /\ sampleAge' <= sampleAge + 1
      /\ sampleAge # None /\ sampleAge' <= EncoderTimeout => sampleAge' = sampleAge + 1
  <2>1. CASE sampleAge = None
    BY <1>1, <2>1
  <2>2. CASE sampleAge # None
    <3>1. sampleAge \in Nat
      BY <2>2 DEF OdomType
    <3> QED
      BY <1>1, <2>2, <3>1, EncoderConstants
  <2> QED
    BY <2>1, <2>2
<1>5. ASSUME NEW speed \in Speed, speed # None
      PROVE  older(speed) \in Speed /\ older(speed).age <= speed.age + 1
  BY <1>5, EncoderConstants DEF Speed
<1>6. older(None) = None
  OBVIOUS
<1> HIDE DEF older
<1>7. /\ current_speed = None => current_speed' = None
      /\ current_speed # None => current_speed' \in Speed /\ current_speed'.age <= current_speed.age + 1
      /\ velocity = None => velocity' = None
      /\ velocity # None => velocity' \in Speed /\ velocity'.age <= velocity.age + 1
  BY <1>1, <1>5, <1>6 DEF OdomType
<1>8. timer' \in Nat /\ timer' + 1 = timer
  BY <1>1 DEF OdomType
<1> QED
  BY <1>1, <1>3, <1>4, <1>7, <1>8

LEMMA TypeTick == OdomType /\ Tick => OdomType'
<1> SUFFICES ASSUME OdomType, Tick PROVE OdomType'
  OBVIOUS
<1>1. /\ sampleAge' \in Nat \cup {None} /\ current_speed' \in Speed \cup {None}
      /\ velocity' \in Speed \cup {None} /\ timer' \in Nat /\ transit' \in Seq(Line)
  BY TickOlder
<1>2. /\ counter' \in Int /\ turned' \in BOOLEAN /\ pass' \in {"guard", "stream"}
      /\ guarded' \in Int /\ guardRaw' \in Int /\ guardAge' \in Nat /\ faults' \in Nat
      /\ streamed' \in Int /\ streamAge' \in Nat /\ csvAge' \in Nat /\ drops' \in Nat
      /\ last' \in Int \cup {None}
  <2>1. /\ turned' = FALSE /\ last' = last
        /\ guardAge' = guardAge + 1 /\ streamAge' = streamAge + 1 /\ csvAge' = csvAge + 1
        /\ UNCHANGED <<counter, pass, guarded, guardRaw, faults, streamed, drops>>
    BY DEF Tick, BoardTick
  <2>2. turned' \in BOOLEAN
    BY <2>1
  <2> QED
    BY <2>1, <2>2 DEF OdomType
<1> QED
  BY <1>1, <1>2 DEF OdomType

LEMMA TypeNext == OdomType /\ [Next]_vars => OdomType'
<1> SUFFICES ASSUME OdomType, [Next]_vars PROVE OdomType'
  OBVIOUS
<1>1. CASE Turn /\ UNCHANGED <<transit, odomVars, last>>
  BY <1>1, EncoderConstants DEF Turn, OdomType, guardVars, streamVars, odomVars
<1>2. CASE Reset
  BY <1>2, EncoderConstants DEF Reset, ResetCount, OdomType, odomVars
<1>3. CASE LoseLines
  BY <1>3 DEF LoseLines, OdomType, boardVars, wheelVars, guardVars, streamVars, odomVars
<1>4. CASE UNCHANGED vars
  BY <1>4 DEF vars, OdomType, boardVars, wheelVars, guardVars, streamVars, odomVars
<1> QED
  BY <1>1, <1>2, <1>3, <1>4, TypePass, TypePrint, TypeCallback, TypeTick DEF Next

LEMMA TypeAlways == Spec => []OdomType
BY InitType, TypeNext, PTL DEF Spec
-----------------------------------------------------------------------------
(* The count: what the guard admits. *)

LEMMA AbsNat == \A x \in Int : Abs(x) \in Nat
BY DEF Abs

LEMMA Distribute == \A a, b, c \in Nat : a * (b + c) = a * b + a * c
OBVIOUS

LEMMA Grows == \A a, b, c \in Nat : a <= b => c * a <= c * b
OBVIOUS

LEMMA Limit ==
  ASSUME OdomType, guardAge >= 1
  PROVE  MaxDeltaForDt(guardAge) = MaxDelta * guardAge
<1>1. MaxDelta <= MaxDelta * guardAge
  <2>1. MaxDelta * 1 <= MaxDelta * guardAge
    BY Grows, EncoderConstants DEF OdomType
  <2> QED
    BY <2>1, EncoderConstants
<1>2. MaxDelta * guardAge \in Nat
  BY EncoderConstants DEF OdomType
<1> QED
  BY <1>1, <1>2, EncoderConstants DEF MaxDeltaForDt

\* While no read was wrong, what the wheel made since the last update is admitted.
LEMMA Admitted ==
  ASSUME OdomType, ExactInv, 2 * WheelRate <= MaxDelta, faults = 0, guardAge >= MinDt
  PROVE  Possible(counter - guardRaw)
<1>1. Abs(counter - guardRaw) <= WheelRate * guardAge + WheelRate
  <2>1. WheelRate * guardAge \in Nat
    BY EncoderConstants DEF OdomType
  <2> QED
    BY <2>1, EncoderConstants DEF ExactInv, OdomType, Abs
<1>2. /\ guardAge >= 1 /\ guardAge \in Nat
      /\ WheelRate * 1 <= WheelRate * guardAge
  BY Grows, EncoderConstants DEF OdomType
<1>3. guardAge * (WheelRate + WheelRate) <= guardAge * MaxDelta
  BY Grows, <1>2, EncoderConstants
<1>4. guardAge * (WheelRate + WheelRate) = guardAge * WheelRate + guardAge * WheelRate
  BY Distribute, <1>2, EncoderConstants
<1>5. /\ guardAge * WheelRate = WheelRate * guardAge /\ guardAge * MaxDelta = MaxDelta * guardAge
      /\ WheelRate * guardAge \in Nat /\ MaxDelta * guardAge \in Nat
  BY <1>2, EncoderConstants
<1>6. Abs(counter - guardRaw) <= MaxDelta * guardAge
  <2>1. Abs(counter - guardRaw) \in Int
    BY DEF Abs, OdomType
  <2> QED
    BY <2>1, <1>1, <1>2, <1>3, <1>4, <1>5, EncoderConstants
<1> QED
  BY <1>6, <1>2, Limit DEF Possible

LEMMA ExactNext ==
  ASSUME OdomType, ExactInv, 2 * WheelRate <= MaxDelta, [Next]_vars PROVE ExactInv'
<1>1. CASE Turn
  <2>1. PICK d \in -WheelRate..WheelRate : counter' = counter + d
    BY <1>1 DEF Turn
  <2>2. ~turned /\ turned' /\ UNCHANGED guardVars
    BY <1>1 DEF Turn
  <2>3. WheelRate * guardAge \in Nat
    BY EncoderConstants DEF OdomType
  <2> QED
    BY <2>1, <2>2, <2>3, EncoderConstants DEF ExactInv, OdomType, guardVars, Abs
<1>2. ASSUME NEW e \in Glitches \cup {0}, Guard(counter + e) PROVE ExactInv'
  <2>1. UNCHANGED wheelVars
    BY <1>2 DEF Guard
  <2>2. CASE guardAge < MinDt
    BY <1>2, <2>1, <2>2, EncoderConstants DEF Guard, ExactInv, OdomType, wheelVars
  <2>3. CASE guardAge >= MinDt /\ (counter + e # counter \/ guardAge > MaxDt)
    BY <1>2, <2>3 DEF Guard, ExactInv, OdomType
  <2>4. CASE guardAge >= MinDt /\ counter + e = counter /\ guardAge <= MaxDt
    <3>1. CASE faults = 0
      <4>1. Possible(counter - guardRaw)
        BY <2>4, <3>1, Admitted
      <4>2. /\ guardRaw' = counter /\ guardAge' = 0
            /\ guarded' = guarded + (counter - guardRaw)
        BY <1>2, <2>4, <4>1, EncoderConstants DEF Guard, OdomType
      <4>3. guarded = guardRaw /\ counter' = counter /\ turned' = turned
        BY <2>1, <3>1 DEF ExactInv, wheelVars
      <4>4. WheelRate * 0 = 0
        BY EncoderConstants
      <4> QED
        BY <4>2, <4>3, <4>4, EncoderConstants DEF ExactInv, OdomType, Abs
    <3>2. CASE faults # 0
      BY <1>2, <2>4, <3>2, EncoderConstants DEF Guard, ExactInv, OdomType
    <3> QED
      BY <3>1, <3>2
  <2> QED
    BY <2>2, <2>3, <2>4, EncoderConstants DEF OdomType
<1>3. CASE ResetCount
  <2>1. WheelRate * 0 = 0
    BY EncoderConstants
  <2> QED
    BY <1>3, <2>1, EncoderConstants DEF ResetCount, ExactInv, OdomType, Abs
<1>4. CASE Tick
  <2>1. /\ turned' = FALSE /\ guardAge' = guardAge + 1
        /\ UNCHANGED <<counter, guarded, guardRaw, faults>>
    BY <1>4 DEF Tick, BoardTick
  <2>2. WheelRate * (guardAge + 1) = WheelRate * guardAge + WheelRate * 1
    BY Distribute, EncoderConstants DEF OdomType
  <2>3. WheelRate * guardAge \in Nat
    BY EncoderConstants DEF OdomType
  <2> QED
    BY <2>1, <2>2, <2>3, EncoderConstants DEF ExactInv, OdomType, Abs
<1>5. CASE UNCHANGED <<wheelVars, guardVars>>
  BY <1>5 DEF ExactInv, wheelVars, guardVars
<1>6. UNCHANGED vars => UNCHANGED <<wheelVars, guardVars>>
  BY DEF vars, boardVars
<1>7. Pass => \/ \E e \in Glitches \cup {0} : Guard(counter + e)
              \/ UNCHANGED <<wheelVars, guardVars>>
  BY DEF Pass, StreamNothing
<1>8. PrintLine \/ LoseLines \/ speed_callback \/ odom_timer_callback
        => UNCHANGED <<wheelVars, guardVars>>
  BY DEF PrintLine, StreamLine, LoseLines, speed_callback, odom_timer_callback, boardVars
<1> QED
  BY <1>1, <1>2, <1>3, <1>4, <1>5, <1>6, <1>7, <1>8 DEF Next, Reset

\* The guard never takes what the wheel really did for a spike, and so the guarded
\* count follows it, when the limit admits twice what the wheel makes at most.
THEOREM Exact == ASSUME 2 * WheelRate <= MaxDelta PROVE Spec => []CountIsExact
<1>1. Init => ExactInv
  <2>1. WheelRate * 0 = 0
    BY EncoderConstants
  <2> QED
    BY <2>1, EncoderConstants DEF Init, BoardInit, ExactInv, Abs
<1>2. OdomType /\ ExactInv /\ [Next]_vars => ExactInv'
  BY ExactNext
<1>3. OdomType /\ ExactInv => CountIsExact
  <2> SUFFICES ASSUME OdomType, ExactInv, faults = 0
               PROVE  Abs(counter - guarded) <= WheelRate * (guardAge + 1)
    BY DEF CountIsExact
  <2>1. WheelRate * (guardAge + 1) = WheelRate * guardAge + WheelRate * 1
    BY Distribute, EncoderConstants DEF OdomType
  <2>2. WheelRate * guardAge \in Nat
    BY EncoderConstants DEF OdomType
  <2> QED
    BY <2>1, <2>2, EncoderConstants DEF ExactInv, OdomType, Abs
<1> QED
  BY <1>1, <1>2, <1>3, TypeAlways, PTL DEF Spec
-----------------------------------------------------------------------------
(* The deltas: what a line may report. *)

\* What a step of the guard adds fits in the time it covers.
LEMMA GuardAdds ==
  ASSUME OdomType, NEW e \in Glitches \cup {0}, Guard(counter + e)
  PROVE  /\ guarded' \in Int /\ guardAge' \in Nat
         /\ Abs(guarded' - guarded) + MaxDelta * guardAge' <= MaxDelta * guardAge
         /\ guardAge' <= MinDt
<1>1. counter + e \in Int /\ MinDt >= 1 /\ MinDt \in Nat
  BY EncoderConstants DEF OdomType
<1>2. MaxDelta * guardAge \in Nat /\ MaxDelta * 0 = 0
  BY EncoderConstants DEF OdomType
<1>3. CASE guardAge < MinDt
  BY <1>1, <1>2, <1>3 DEF Guard, OdomType, Abs
<1>4. CASE guardAge >= MinDt
  <2> DEFINE raw == counter + e
  <2>1. /\ guardAge' = 0
        /\ \/ guarded' = guarded
           \/ Possible(raw - guardRaw) /\ guarded' = guarded + (raw - guardRaw)
    BY <1>1, <1>4 DEF Guard, OdomType
  <2> HIDE DEF raw
  <2>2. raw \in Int
    BY <1>1 DEF raw
  <2>3. Possible(raw - guardRaw) => Abs(raw - guardRaw) <= MaxDelta * guardAge
    BY Limit, <1>1, <1>4 DEF Possible, OdomType
  <2>4. MaxDelta * guardAge' = 0 /\ guardAge' = 0
    BY <1>2, <2>1
  <2>5. guarded' \in Int /\ Abs(guarded' - guarded) <= MaxDelta * guardAge
    BY <1>2, <2>1, <2>2, <2>3 DEF OdomType, Abs
  <2>6. Abs(guarded' - guarded) \in Int
    <3>1. guarded \in Int /\ guarded' \in Int
      BY <2>5 DEF OdomType
    <3>2. guarded' - guarded \in Int
      BY <3>1
    <3> QED
      BY <3>2, AbsNat
  <2> QED
    BY <1>1, <2>4, <2>5, <2>6
<1> QED
  BY <1>1, <1>3, <1>4 DEF OdomType

LEMMA Triangle ==
  \A a, b, c, x, y, z \in Int : Abs(a - b) + x <= y /\ Abs(b - c) + y <= z => Abs(a - c) + x <= z
BY DEF Abs

LEMMA SampleNext == OdomType /\ SampleInv /\ [Next]_vars => SampleInv'
<1> SUFFICES ASSUME OdomType, SampleInv, [Next]_vars PROVE SampleInv'
  OBVIOUS
<1>0. /\ MaxDelta * guardAge \in Nat /\ MaxDelta * (streamAge + MinDt) \in Nat
      /\ MaxDelta * MinDt \in Nat
  BY EncoderConstants DEF OdomType
<1>1. ASSUME NEW e \in Glitches \cup {0}, Guard(counter + e) PROVE SampleInv'
  <2>1. UNCHANGED <<streamed, streamAge>>
    BY <1>1 DEF Guard, streamVars
  <2>2. MaxDelta * guardAge' \in Nat
    BY GuardAdds, <1>1, EncoderConstants
  <2>3. Abs(guarded' - streamed) + MaxDelta * guardAge' <= MaxDelta * (streamAge + MinDt)
    <3>1. /\ guarded' \in Int /\ guarded \in Int /\ streamed \in Int
          /\ Abs(guarded' - guarded) + MaxDelta * guardAge' <= MaxDelta * guardAge
      BY GuardAdds, <1>1 DEF OdomType
    <3>2. Abs(guarded - streamed) + MaxDelta * guardAge <= MaxDelta * (streamAge + MinDt)
      BY DEF SampleInv
    <3> DEFINE x == MaxDelta * guardAge'
               y == MaxDelta * guardAge
               z == MaxDelta * (streamAge + MinDt)
    <3>3. x \in Int /\ y \in Int /\ z \in Int
      BY <1>0, <2>2
    <3>4. Abs(guarded' - guarded) + x <= y /\ Abs(guarded - streamed) + y <= z
      BY <3>1, <3>2
    <3> HIDE DEF x, y, z
    <3>5. Abs(guarded' - streamed) + x <= z
      BY <3>1, <3>3, <3>4, Triangle
    <3> QED
      BY <3>5 DEF x, z
  <2> QED
    BY GuardAdds, <1>1, <2>1, <2>3 DEF SampleInv
<1>2. CASE PrintLine
  <2>1. /\ pass = "stream" /\ pass' = "guard" /\ streamed' = guarded /\ streamAge' = 0
        /\ UNCHANGED <<guarded, guardAge>>
    BY <1>2 DEF PrintLine, StreamLine, guardVars
  <2>2. MaxDelta * guardAge <= MaxDelta * MinDt
    BY Grows, <2>1, EncoderConstants DEF SampleInv, OdomType
  <2>3. 0 + MinDt = MinDt
    BY EncoderConstants
  <2> QED
    BY <1>0, <2>1, <2>2, <2>3 DEF SampleInv, OdomType, Abs
<1>3. CASE ResetCount
  <2>1. MaxDelta * 0 = 0 /\ MaxDelta * (0 + MinDt) \in Nat
    BY EncoderConstants
  <2> QED
    BY <1>3, <2>1 DEF ResetCount, SampleInv, Abs
<1>4. CASE Tick
  <2>1. /\ pass = "stream" => guardAge < MinDt
        /\ guardAge' = guardAge + 1 /\ streamAge' = streamAge + 1
        /\ UNCHANGED <<pass, guarded, streamed>>
    BY <1>4 DEF Tick, BoardTick
  <2>2. /\ MaxDelta * (guardAge + 1) = MaxDelta * guardAge + MaxDelta * 1
        /\ MaxDelta * ((streamAge + MinDt) + 1) = MaxDelta * (streamAge + MinDt) + MaxDelta * 1
    BY Distribute, EncoderConstants DEF OdomType
  <2>3. (streamAge + 1) + MinDt = (streamAge + MinDt) + 1 /\ MaxDelta * 1 \in Nat
    BY EncoderConstants DEF OdomType
  <2>4. Abs(guarded - streamed) \in Nat
    BY DEF OdomType, Abs
  <2>5. Abs(guarded - streamed) + MaxDelta * (guardAge + 1)
          <= MaxDelta * ((streamAge + 1) + MinDt)
    BY <1>0, <2>2, <2>3, <2>4 DEF SampleInv
  <2> QED
    BY <2>1, <2>5, EncoderConstants DEF SampleInv, OdomType
<1>5. CASE pass' = "guard" /\ UNCHANGED <<guardVars, streamed, streamAge>>
  BY <1>5 DEF SampleInv, guardVars
<1>6. CASE UNCHANGED <<pass, guardVars, streamVars>>
  BY <1>6 DEF SampleInv, guardVars, streamVars
<1>7. StreamNothing => pass' = "guard" /\ UNCHANGED <<guardVars, streamed, streamAge>>
  BY DEF StreamNothing, NoRoom, streamVars
<1>8. LoseLines \/ speed_callback \/ odom_timer_callback \/ Turn \/ UNCHANGED vars
        => UNCHANGED <<pass, guardVars, streamVars>>
  BY DEF LoseLines, speed_callback, odom_timer_callback, Turn, vars, boardVars
<1> QED
  BY <1>1, <1>2, <1>3, <1>4, <1>5, <1>6, <1>7, <1>8 DEF Next, Pass, Reset

\* A sample may be printed as a line at any time.
LEMMA SampleFits ==
  ASSUME OdomType, SampleInv
  PROVE  Abs(Sample.delta) <= MaxDelta * (Sample.dt + MinDt)
<1>1. Abs(guarded - streamed) <= MaxDelta * (streamAge + MinDt)
  <2>1. MaxDelta * guardAge \in Nat /\ MaxDelta * (streamAge + MinDt) \in Nat
    BY EncoderConstants DEF OdomType
  <2>2. Abs(guarded - streamed) \in Nat
    BY DEF OdomType, Abs
  <2> QED
    BY <2>1, <2>2 DEF SampleInv
<1>2. Sample.dt + MinDt >= streamAge + MinDt /\ Sample.dt \in Nat
  BY SampleType, EncoderConstants DEF OdomType
<1>3. MaxDelta * (streamAge + MinDt) <= MaxDelta * (Sample.dt + MinDt)
  BY Grows, <1>2, EncoderConstants DEF OdomType
<1>4. Sample.delta = guarded - streamed
  BY DEF Sample
<1>5. /\ Abs(guarded - streamed) \in Nat /\ MaxDelta * (streamAge + MinDt) \in Nat
      /\ MaxDelta * (Sample.dt + MinDt) \in Nat
  BY <1>2, EncoderConstants DEF OdomType, Abs
<1> QED
  BY <1>1, <1>3, <1>4, <1>5

\* The same lines, older perhaps.
SameLines ==
  /\ DOMAIN transit' = DOMAIN transit /\ Len(transit') = Len(transit)
  /\ \A i \in DOMAIN transit :
       /\ transit'[i].sync = transit[i].sync /\ transit'[i].count = transit[i].count
       /\ transit'[i].delta = transit[i].delta /\ transit'[i].dt = transit[i].dt

\* A step may add a line, take the oldest, lose all, reset the board, or make them older.
LEMMA Lines ==
  ASSUME OdomType, [Next]_vars
  PROVE  \/ PrintLine
         \/ speed_callback
         \/ transit' = <<>> /\ last' = None /\ UNCHANGED boardVars
         \/ ResetCount /\ UNCHANGED <<transit, last>>
         \/ SameLines /\ UNCHANGED <<streamed, drops, last>>
<1>1. UNCHANGED transit => SameLines
  BY DEF SameLines
<1>2. CASE UNCHANGED <<transit, streamed, drops, last>>
  BY <1>1, <1>2
<1>3. CASE Tick
  <2>1. /\ transit' \in Seq(Line) /\ Len(transit') = Len(transit)
        /\ \A i \in DOMAIN transit : transit'[i] = [transit[i] EXCEPT !.age = @ + 1]
    BY TickOlder, <1>3
  <2>2. ASSUME NEW line \in Line
        PROVE  /\ [line EXCEPT !.age = @ + 1].sync = line.sync
               /\ [line EXCEPT !.age = @ + 1].count = line.count
               /\ [line EXCEPT !.age = @ + 1].delta = line.delta
               /\ [line EXCEPT !.age = @ + 1].dt = line.dt
    BY DEF Line
  <2>3. \A i \in DOMAIN transit : transit[i] \in Line
    BY DEF OdomType
  <2>4. DOMAIN transit' = DOMAIN transit
    BY <2>1 DEF OdomType
  <2>5. SameLines
    BY <2>1, <2>2, <2>3, <2>4 DEF SameLines
  <2>6. UNCHANGED <<streamed, drops, last>>
    BY <1>3 DEF Tick, BoardTick
  <2> QED
    BY <2>5, <2>6
<1>4. CASE LoseLines
  BY <1>4 DEF LoseLines
<1>5. CASE Reset
  BY <1>5 DEF Reset
<1>6. CASE Turn /\ UNCHANGED <<transit, odomVars, last>>
  BY <1>2, <1>6 DEF Turn, streamVars
<1>7. CASE Pass
  BY <1>2, <1>7 DEF Pass, Guard, StreamNothing, NoRoom, streamVars
<1>8. CASE odom_timer_callback \/ UNCHANGED vars
  BY <1>2, <1>8 DEF odom_timer_callback, vars, boardVars, streamVars
<1> QED
  BY <1>3, <1>4, <1>5, <1>6, <1>7, <1>8 DEF Next

LEMMA PossibleNext ==
  ASSUME OdomType, SampleInv, SpeedIsPossible, [Next]_vars PROVE SpeedIsPossible'
<1>1. CASE PrintLine
  <2>1. PICK sync \in BOOLEAN :
          /\ StreamLine(sync)
          /\ [sync |-> sync, count |-> guarded, age |-> 0,
              delta |-> Sample.delta, dt |-> Sample.dt] \in Line
          /\ transit' = Append(transit, [sync |-> sync, count |-> guarded, age |-> 0,
                                         delta |-> Sample.delta, dt |-> Sample.dt])
    BY PrintedLine, <1>1
  <2> DEFINE line == [sync |-> sync, count |-> guarded, age |-> 0,
                      delta |-> Sample.delta, dt |-> Sample.dt]
  <2>2. line.delta = Sample.delta /\ line.dt = Sample.dt
    OBVIOUS
  <2>3. transit' = Append(transit, line) /\ line \in Line
    BY <2>1
  <2> HIDE DEF line
  <2>4. ASSUME NEW i \in DOMAIN transit', ~transit'[i].sync
        PROVE  Abs(transit'[i].delta) <= MaxDelta * (transit'[i].dt + MinDt)
    <3>1. CASE i \in DOMAIN transit
      <4>1. transit'[i] = transit[i]
        BY <2>3, <3>1 DEF OdomType
      <4> QED
        BY <2>4, <3>1, <4>1 DEF SpeedIsPossible
    <3>2. CASE i = Len(transit) + 1
      <4>1. transit'[i] = line
        BY <2>3, <3>2 DEF OdomType
      <4> QED
        BY <2>2, <4>1, SampleFits
    <3> QED
      BY <2>3, <3>1, <3>2 DEF OdomType
  <2> QED
    BY <2>4 DEF SpeedIsPossible
<1>2. CASE speed_callback
  <2>1. transit # <<>> /\ transit' = Tail(transit)
    BY <1>2 DEF speed_callback
  <2>2. \A i \in DOMAIN transit' : i + 1 \in DOMAIN transit /\ transit'[i] = transit[i + 1]
    BY <2>1 DEF OdomType
  <2> QED
    BY <2>2 DEF SpeedIsPossible
<1>3. CASE transit' = <<>>
  BY <1>3 DEF SpeedIsPossible
<1>4. CASE UNCHANGED transit
  BY <1>4 DEF SpeedIsPossible
<1>5. CASE SameLines
  BY <1>5 DEF SpeedIsPossible, SameLines
<1> QED
  BY <1>1, <1>2, <1>3, <1>4, <1>5, Lines

\* No line reports a delta beyond what the guard admits, whatever was misread.
THEOREM Possibles == Spec => []SpeedIsPossible
<1>1. Init => SampleInv /\ SpeedIsPossible
  <2>1. MaxDelta * 0 = 0 /\ MaxDelta * (0 + MinDt) \in Nat
    BY EncoderConstants
  <2> QED
    BY <2>1 DEF Init, BoardInit, SampleInv, SpeedIsPossible, Abs
<1>2. OdomType /\ SampleInv /\ SpeedIsPossible /\ [Next]_vars => SampleInv' /\ SpeedIsPossible'
  BY SampleNext, PossibleNext
<1> QED
  BY <1>1, <1>2, TypeAlways, PTL DEF Spec
-----------------------------------------------------------------------------
(* The deltas: how they add up. *)

\* The count that line i goes on from, or None.
Before(i) == IF i = 1 THEN last ELSE IF transit[i - 1].sync THEN None ELSE transit[i - 1].count

LEMMA ChainedNext ==
  ASSUME OdomType, ChainedInv, DeltasAddUp, SyncDrops > 0, [Next]_vars
  PROVE  ChainedInv' /\ DeltasAddUp'
<1>0. /\ transit \in Seq(Line) /\ Len(transit) \in Nat /\ DOMAIN transit = 1..Len(transit)
      /\ \A i \in DOMAIN transit : transit[i] \in Line
      /\ transit = <<>> <=> Len(transit) = 0
  BY DEF OdomType
<1>1. CASE PrintLine
  <2>1. PICK sync \in BOOLEAN :
          /\ StreamLine(sync)
          /\ [sync |-> sync, count |-> guarded, age |-> 0,
              delta |-> Sample.delta, dt |-> Sample.dt] \in Line
          /\ transit' = Append(transit, [sync |-> sync, count |-> guarded, age |-> 0,
                                         delta |-> Sample.delta, dt |-> Sample.dt])
    BY PrintedLine, <1>1
  <2> DEFINE line == [sync |-> sync, count |-> guarded, age |-> 0,
                      delta |-> Sample.delta, dt |-> Sample.dt]
  <2>2. line.sync = sync /\ line.count = guarded /\ line.delta = guarded - streamed
    BY DEF Sample
  <2>3. transit' = Append(transit, line) /\ line \in Line
    BY <2>1
  <2> HIDE DEF line
  <2>4. /\ Len(transit') = Len(transit) + 1 /\ DOMAIN transit' = 1..(Len(transit) + 1)
        /\ \A i \in DOMAIN transit : transit'[i] = transit[i]
        /\ transit'[Len(transit) + 1] = line /\ transit' # <<>>
    BY <1>0, <2>3
  <2>5. last' = last /\ streamed' = guarded /\ (sync <=> drops > 0)
    BY <1>1, <2>1 DEF PrintLine, StreamLine
  <2>6. ChainedInv'
    BY <2>2, <2>4, <2>5 DEF ChainedInv
  <2>7. ASSUME NEW i \in DOMAIN transit', ~transit'[i].sync, Before(i)' # None
        PROVE  transit'[i].count = Before(i)' + transit'[i].delta
    <3>1. CASE i \in DOMAIN transit
      <4>1. /\ transit'[i] = transit[i]
            /\ i # 1 => i - 1 \in DOMAIN transit /\ transit'[i - 1] = transit[i - 1]
        BY <1>0, <2>4, <3>1
      <4>2. Before(i)' = Before(i)
        BY <4>1, <2>5 DEF Before
      <4> QED
        BY <2>7, <3>1, <4>1, <4>2 DEF DeltasAddUp, Before
    <3>2. CASE i = Len(transit) + 1
      <4>1. transit'[i] = line /\ drops = 0
        BY <2>2, <2>4, <2>5, <2>7, <3>2 DEF OdomType
      <4>2. Before(i)' = streamed
        <5>1. CASE transit = <<>>
          BY <1>0, <2>5, <2>7, <3>2, <4>1, <5>1 DEF ChainedInv, Before
        <5>2. CASE transit # <<>>
          <6>1. i # 1 /\ i - 1 = Len(transit) /\ transit'[i - 1] = transit[Len(transit)]
            BY <1>0, <2>4, <3>2, <5>2
          <6> QED
            BY <2>7, <4>1, <5>2, <6>1 DEF ChainedInv, Before
        <5> QED
          BY <5>1, <5>2
      <4> QED
        BY <2>2, <4>1, <4>2 DEF OdomType
    <3> QED
      BY <1>0, <2>4, <3>1, <3>2
  <2> QED
    BY <2>6, <2>7 DEF DeltasAddUp, Before
<1>2. CASE speed_callback
  <2>1. /\ transit # <<>> /\ transit' = Tail(transit) /\ UNCHANGED <<streamed, drops>>
        /\ last' = IF transit[1].sync THEN None ELSE transit[1].count
    BY <1>2 DEF speed_callback, boardVars, streamVars
  <2>2. /\ Len(transit') = Len(transit) - 1 /\ DOMAIN transit' = 1..(Len(transit) - 1)
        /\ \A i \in DOMAIN transit' : i + 1 \in DOMAIN transit /\ transit'[i] = transit[i + 1]
    <3>1. transit \in Seq(Line) /\ transit # <<>>
      BY <1>0, <2>1
    <3>2. /\ transit' \in Seq(Line) /\ Len(transit') = Len(transit) - 1
          /\ \A i \in 1..Len(transit') : transit'[i] = transit[i + 1]
      BY <2>1, <3>1, HeadTailProperties
    <3>3. DOMAIN transit = 1..Len(transit) /\ Len(transit) \in Nat /\ DOMAIN transit' = 1..Len(transit')
      BY <3>1, <3>2, LenProperties
    <3> QED
      BY <3>2, <3>3
  <2>5. (transit' = <<>>) <=> (Len(transit) = 1)
    <3>1. Len(transit) \in Nat /\ transit' \in Seq(Line)
      BY <1>0, <2>1, HeadTailProperties
    <3>2. (transit' = <<>>) <=> (Len(transit') = 0)
      BY <3>1, EmptySeq
    <3> QED
      BY <2>2, <3>1, <3>2
  <2>3. ChainedInv'
    <3>1. CASE transit' = <<>>
      BY <1>0, <2>1, <2>2, <2>5, <3>1 DEF ChainedInv
    <3>2. CASE transit' # <<>>
      <4>1. transit'[Len(transit')] = transit[Len(transit)]
        <5>1. Len(transit') \in DOMAIN transit'
          BY <1>0, <2>2, <2>5, <3>2
        <5> QED
          BY <1>0, <2>2, <5>1
      <4> QED
        BY <2>1, <3>2, <4>1 DEF ChainedInv
    <3> QED
      BY <3>1, <3>2
  <2>4. ASSUME NEW i \in DOMAIN transit', ~transit'[i].sync, Before(i)' # None
        PROVE  transit'[i].count = Before(i)' + transit'[i].delta
    <3>1. i + 1 \in DOMAIN transit /\ transit'[i] = transit[i + 1] /\ i \in Nat /\ i >= 1
      BY <1>0, <2>2, <2>4
    <3>2. Before(i)' = Before(i + 1)
      <4>1. CASE i = 1
        BY <2>1, <4>1 DEF Before
      <4>2. CASE i # 1
        <5>1. i - 1 \in DOMAIN transit' /\ transit'[i - 1] = transit[i] /\ (i + 1) - 1 = i
          BY <1>0, <2>2, <2>4, <4>2
        <5> QED
          BY <3>1, <4>2, <5>1 DEF Before
      <4> QED
        BY <4>1, <4>2
    <3> QED
      BY <2>4, <3>1, <3>2 DEF DeltasAddUp, Before
  <2> QED
    BY <2>3, <2>4 DEF DeltasAddUp, Before
<1>3. CASE transit' = <<>> /\ last' = None /\ UNCHANGED boardVars
  BY <1>3 DEF ChainedInv, DeltasAddUp
<1>4. CASE ResetCount /\ UNCHANGED <<transit, last>>
  BY <1>4 DEF ResetCount, ChainedInv, DeltasAddUp
<1>5. CASE SameLines /\ UNCHANGED <<streamed, drops, last>>
  <2>1. ChainedInv'
    <3>1. transit' = <<>> <=> transit = <<>>
      BY <1>0, <1>5 DEF SameLines
    <3>2. transit # <<>> => Len(transit) \in DOMAIN transit
      BY <1>0
    <3> QED
      BY <1>5, <3>1, <3>2 DEF ChainedInv, SameLines
  <2>2. ASSUME NEW i \in DOMAIN transit, ~transit'[i].sync, Before(i)' # None
        PROVE  transit'[i].count = Before(i)' + transit'[i].delta
    <3>1. i # 1 => i - 1 \in DOMAIN transit
      BY <1>0
    <3>2. Before(i)' = Before(i)
      BY <1>5, <3>1 DEF Before, SameLines
    <3> QED
      BY <1>5, <2>2, <3>2 DEF DeltasAddUp, Before, SameLines
  <2> QED
    BY <1>5, <2>1, <2>2 DEF DeltasAddUp, Before, SameLines
<1> QED
  BY <1>1, <1>2, <1>3, <1>4, <1>5, Lines

\* No count is reported twice, or never, from one sync to the next.
THEOREM AddUp == ASSUME SyncDrops > 0 PROVE Spec => []DeltasAddUp
<1>1. Init => ChainedInv /\ DeltasAddUp
  BY DEF Init, ChainedInv, DeltasAddUp
<1>2. OdomType /\ ChainedInv /\ DeltasAddUp /\ [Next]_vars => ChainedInv' /\ DeltasAddUp'
  BY ChainedNext
<1> QED
  BY <1>1, <1>2, TypeAlways, PTL DEF Spec
-----------------------------------------------------------------------------
(* The velocity: how old it may be. *)

LEMMA RecentNext == OdomType /\ RecentInv /\ [Next]_vars => RecentInv'
<1> SUFFICES ASSUME OdomType, RecentInv, [Next]_vars PROVE RecentInv'
  OBVIOUS
<1>0. /\ MaxTransit \in Nat /\ EncoderTimeout \in Nat /\ OdomPeriod \in Nat
      /\ Bound = MaxTransit + EncoderTimeout + OdomPeriod
  BY EncoderConstants DEF Bound
<1>1. CASE PrintLine
  <2>1. PICK sync \in BOOLEAN :
          transit' = Append(transit, [sync |-> sync, count |-> guarded, age |-> 0,
                                      delta |-> Sample.delta, dt |-> Sample.dt])
    BY PrintedLine, <1>1
  <2> DEFINE line == [sync |-> sync, count |-> guarded, age |-> 0,
                      delta |-> Sample.delta, dt |-> Sample.dt]
  <2>2. line.age = 0
    OBVIOUS
  <2> HIDE DEF line
  <2>3. \A i \in DOMAIN transit' : \/ i \in DOMAIN transit /\ transit'[i] = transit[i]
                                   \/ transit'[i] = line
    BY <2>1 DEF OdomType, line
  <2>4. UNCHANGED odomVars
    BY <1>1 DEF PrintLine
  <2> QED
    BY <1>0, <2>2, <2>3, <2>4 DEF RecentInv, odomVars
<1>2. CASE speed_callback
  <2>1. transit # <<>> /\ transit' = Tail(transit) /\ UNCHANGED <<velocity, timer>>
    BY <1>2 DEF speed_callback, odomVars
  <2>2. \A i \in DOMAIN transit' : i + 1 \in DOMAIN transit /\ transit'[i] = transit[i + 1]
    BY <2>1 DEF OdomType
  <2>3. transit[1].age <= MaxTransit /\ transit[1].age \in Nat
    <3>1. 1 \in DOMAIN transit /\ transit[1] \in Line
      BY <2>1 DEF OdomType
    <3> QED
      BY <3>1 DEF RecentInv, Line
  <2>4. \/ UNCHANGED <<sampleAge, current_speed>>
        \/ sampleAge' = 0 /\ current_speed'.age = transit[1].age
    BY <1>2 DEF speed_callback, record_sample, odomVars
  <2>5. 0 # None
    BY EncoderConstants
  <2> QED
    BY <1>0, <2>1, <2>2, <2>3, <2>4, <2>5 DEF RecentInv
<1>3. CASE odom_timer_callback
  <2>1. /\ timer' = OdomPeriod /\ UNCHANGED <<transit, sampleAge>>
        /\ current_speed' \in {current_speed, None}
        /\ velocity' # None => fresh /\ velocity' = current_speed
    BY <1>3 DEF odom_timer_callback
  <2>2. velocity' # None => velocity'.age <= MaxTransit + EncoderTimeout /\ velocity'.age \in Nat
    <3> SUFFICES ASSUME velocity' # None
                 PROVE  velocity'.age <= MaxTransit + EncoderTimeout /\ velocity'.age \in Nat
      OBVIOUS
    <3>1. sampleAge \in Nat /\ sampleAge <= EncoderTimeout /\ current_speed # None
      BY <2>1 DEF fresh, OdomType
    <3>2. current_speed.age \in Nat
      BY <3>1 DEF OdomType, Speed
    <3> QED
      BY <1>0, <2>1, <3>1, <3>2 DEF RecentInv
  <2> QED
    BY <1>0, <2>1, <2>2 DEF RecentInv
<1>4. CASE Tick
  <2>1. \A i \in DOMAIN transit' : transit'[i].age <= MaxTransit
    <3>1. DOMAIN transit' = DOMAIN transit
      BY TickOlder, <1>4 DEF OdomType
    <3>2. ASSUME NEW i \in DOMAIN transit PROVE transit'[i].age <= MaxTransit
      <4>1. transit[i] \in Line /\ transit'[i] = [transit[i] EXCEPT !.age = @ + 1]
            /\ transit[i].age < MaxTransit
        BY TickOlder, <1>4 DEF OdomType
      <4>2. transit[i].age \in Nat /\ transit'[i].age = transit[i].age + 1
        BY <4>1 DEF Line
      <4> QED
        BY <1>0, <4>1, <4>2
    <3> QED
      BY <3>1, <3>2
  <2>2. current_speed' # None => current_speed # None /\ sampleAge' # None
    <3>1. Nat \cap {None} = {}
      BY EncoderConstants
    <3> QED
      BY <1>4, <3>1, TickOlder DEF RecentInv
  <2>3. ASSUME current_speed' # None, sampleAge' <= EncoderTimeout
        PROVE  current_speed'.age <= MaxTransit + sampleAge'
    <3>1. current_speed # None /\ current_speed \in Speed /\ sampleAge # None /\ sampleAge \in Nat
      BY <1>4, <2>3, TickOlder DEF RecentInv, OdomType
    <3>2. sampleAge' = sampleAge + 1 /\ current_speed'.age <= current_speed.age + 1
          /\ current_speed' \in Speed
      BY <1>4, <2>3, <3>1, TickOlder
    <3>3. current_speed.age <= MaxTransit + sampleAge
      BY <1>0, <2>3, <3>1, <3>2 DEF RecentInv
    <3>4. current_speed.age \in Nat /\ current_speed'.age \in Nat
      BY <3>1, <3>2 DEF Speed
    <3> QED
      BY <1>0, <3>1, <3>2, <3>3, <3>4
  <2>4. timer' <= OdomPeriod /\ timer' \in Nat /\ timer \in Nat /\ timer' + 1 = timer
    BY <1>0, <1>4, TickOlder DEF RecentInv, OdomType
  <2>5. velocity' # None => velocity'.age + timer' <= Bound
    <3> SUFFICES ASSUME velocity' # None PROVE velocity'.age + timer' <= Bound
      OBVIOUS
    <3>1. velocity # None /\ velocity \in Speed
          /\ velocity' \in Speed /\ velocity'.age <= velocity.age + 1
      BY <1>4, TickOlder DEF OdomType
    <3>2. velocity.age \in Nat /\ velocity'.age \in Nat
      BY <3>1 DEF Speed
    <3>3. velocity.age + timer <= Bound /\ Bound \in Nat
      BY <3>1, EncoderConstants DEF RecentInv
    <3>4. \A v, w, t, u, b \in Nat : w <= v + 1 /\ v + t <= b /\ u + 1 = t => w + u <= b
      OBVIOUS
    <3> QED
      BY <2>4, <3>1, <3>2, <3>3, <3>4
  <2> QED
    BY <2>1, <2>2, <2>3, <2>4, <2>5 DEF RecentInv
<1>5. CASE LoseLines
  BY <1>5 DEF LoseLines, RecentInv, odomVars
<1>6. CASE UNCHANGED <<transit, odomVars>>
  BY <1>6 DEF RecentInv, odomVars
<1>7. (Turn /\ UNCHANGED <<transit, odomVars, last>>) \/ Pass \/ Reset \/ UNCHANGED vars
        => UNCHANGED <<transit, odomVars>>
  BY DEF Pass, Reset, vars
<1> QED
  BY <1>1, <1>2, <1>3, <1>4, <1>5, <1>6, <1>7 DEF Next

\* /odom/encoder does not show an old speed for longer than transit, watchdog and
\* timer take together.
THEOREM Recent == Spec => []VelocityIsRecent
<1>1. Init => RecentInv
  <2>1. OdomPeriod <= OdomPeriod /\ DOMAIN <<>> = {}
    BY EncoderConstants
  <2> QED
    BY <2>1 DEF Init, RecentInv
<1>2. OdomType /\ RecentInv => VelocityIsRecent
  <2> SUFFICES ASSUME OdomType, RecentInv, velocity # None PROVE velocity.age <= Bound
    BY DEF VelocityIsRecent
  <2>1. velocity.age \in Nat /\ timer \in Nat /\ velocity.age + timer <= Bound
    BY DEF OdomType, Speed, RecentInv
  <2> QED
    BY <2>1, EncoderConstants
<1> QED
  BY <1>1, <1>2, RecentNext, TypeAlways, PTL DEF Spec
=============================================================================
