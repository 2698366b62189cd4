----------------------------- MODULE DualGnssProofs -----------------------------
(***************************************************************************)
(* Proofs about DualGnss, for every recording, delay, tolerance and length *)
(* of the deques: how long a yaw is shown as valid, and that no accepted   *)
(* pair mixes two plays of the recording.                                  *)
(***************************************************************************)
EXTENDS DualGnss, SequenceTheorems, WellFoundedInduction, TLAPS

Rears  == [usable : BOOLEAN, stamp : 0..BagEnd, lap : {0, 1}]
Fronts ==
  {front \in [usable : BOOLEAN, yaw : Yaws \cup {None}, held : Nat,
             stamp : 0..BagEnd, lap : {0, 1}] : front.usable => front.yaw \in Yaws}

TypeOK ==
  /\ src \in 0..BagEnd /\ lap \in {0, 1}
  /\ measured \in [Streams -> Nat]
  /\ rear_samples \in Seq(Rears) /\ front_samples \in Seq(Fronts)
  /\ last_input \in [Streams -> 0..BagEnd \cup {None}]
  /\ raw \in Accepted \cup {None} /\ pair \in Pairs \cup {None}
  /\ valid_age \in Nat \cup {None} /\ valid_state \in BOOLEAN
  /\ processing \in BOOLEAN /\ due \subseteq {"process", "status"}
  /\ phase \in 1..StatusPeriod

-----------------------------------------------------------------------------
(* The two plays of the recording that fixes may be from.                  *)

Samples(s) == IF s = "rear" THEN rear_samples ELSE front_samples

\* The last fix of the stream is of the present play.
New(s) == measured[s] <= src

\* What is remembered of a stream's last fix, and where a jump is seen.
LastInv ==
  \A s \in Streams :
    /\ src > MaxSilence => New(s)
    /\ last_input[s] = None => Samples(s) = <<>>
    /\ last_input[s] = None /\ src > MaxSilence =>
         measured[s] >= src - MaxSilence \/ measured[s] > MaxSilence
    /\ last_input[s] # None /\ New(s) =>
         /\ last_input[s] <= src - measured[s]
         /\ measured[s] <= MaxSilence => last_input[s] = src - measured[s]
    /\ last_input[s] # None /\ ~New(s) =>
         /\ last_input[s] > MaxSilence + JumpThreshold
         /\ last_input[s] <= src + BagEnd + 1 - measured[s]

\* A deque holds the fixes of one play.  When the other stream is ahead, they are late
\* ones, from the very end of the play before.
LapInv ==
  \A s \in Streams : \A i \in DOMAIN Samples(s) :
    LET sample == Samples(s)[i] IN
      /\ New(s)  => sample.lap = lap /\ sample.stamp <= src
      /\ ~New(s) => sample.lap = 1 - lap
      /\ \A t \in Streams : ~New(s) /\ (New(t) \/ last_input[t] = None) =>
           sample.stamp > BagEnd - MaxDelay

-----------------------------------------------------------------------------
(* How old a front sample can be when its pair is accepted.                *)

Ready == \A i \in DOMAIN front_samples : front_samples[i].held <= PairWait

HeldInv ==
  /\ \A i, j \in DOMAIN front_samples : i < j => front_samples[i].held >= front_samples[j].held
  /\ \A i \in DOMAIN front_samples :
       front_samples[i].held <= PairWait + 1 =>
         AgeOf(front_samples[i]) <= front_samples[i].held + MaxDelay
  /\ rear_samples # <<>> /\ ~processing /\ "process" \notin due =>
       \A i \in DOMAIN front_samples : front_samples[i].held < PairWait
  /\ \/ rear_samples = <<>>
     \/ Ready
     \/ processing /\ Len(rear_samples) = 1 /\ AgeOf(rear_samples[1]) <= MaxDelay

ValidInv ==
  /\ raw # None <=> valid_state
  /\ valid_age # None /\ valid_age <= HeadingTimeout => valid_state
  /\ valid_state =>
       /\ pair # None /\ valid_age # None
       /\ pair.age <= valid_age + MaxDelay + Wait
       /\ valid_age + phase <= ShownBound \/ ("status" \in due /\ valid_age <= ShownBound)

IInv == TypeOK /\ LastInv /\ LapInv /\ HeldInv /\ ValidInv /\ PairsMatch

-----------------------------------------------------------------------------
(* The helpers.                                                            *)

LEMMA Limits ==
  /\ MaxDelay \in Nat /\ MaxSilence \in Nat /\ MaxYawRate \in Nat /\ SyncTolerance \in Nat
  /\ MaxInterpolationGap \in Nat /\ PairWait \in Nat /\ HeadingTimeout \in Nat
  /\ JumpThreshold \in Nat /\ BagEnd \in Nat
  /\ StatusPeriod \in Nat \ {0} /\ RearMax \in Nat \ {0} /\ FrontMax \in Nat \ {0}
  /\ Yaws \subseteq Nat /\ None \notin Nat /\ None \notin Accepted /\ None \notin Pairs
  /\ BagEnd > 2 * MaxSilence + JumpThreshold
  /\ BagEnd >= MaxSilence + MaxDelay + JumpThreshold
  /\ BagEnd >= MaxSilence + MaxDelay + SyncTolerance
BY GnssAssumption

LEMMA Least == ASSUME NEW T, T \subseteq Nat, T # {} PROVE \E x \in T : \A y \in T : x <= y
<1>1. PICK x \in T : \A y \in T : ~(<<y, x>> \in OpToRel(<, Nat))
  BY WFMin, NatLessThanWellFounded
<1>2. \A y \in T : ~(y < x) BY <1>1 DEF OpToRel
<1> QED BY <1>2

LEMMA Greatest ==
  ASSUME NEW n \in Nat, NEW T, T \subseteq 1..n, T # {}
  PROVE  \E x \in T : \A y \in T : y <= x
<1> DEFINE U == {n - y : y \in T}
<1>1. U \subseteq Nat /\ U # {}
  <2>1. \A y \in T : n - y \in Nat OBVIOUS
  <2> QED BY <2>1
<1>2. PICK u \in U : \A v \in U : u <= v BY <1>1, Least
<1>3. PICK x \in T : u = n - x OBVIOUS
<1>4. ASSUME NEW y \in T PROVE y <= x
  <2>1. n - x <= n - y BY <1>2, <1>3
  <2> QED BY <2>1
<1> QED BY <1>4

\* The rear samples of a pair are near the stamp, or on both sides of it.
LEMMA Interpolated ==
  ASSUME rear_samples \in Seq(Rears), NEW stamp \in 0..BagEnd, InterpolatedRear(stamp) # {}
  PROVE  \E a, b \in 1..Len(rear_samples) :
           /\ InterpolatedRear(stamp) = {rear_samples[a], rear_samples[b]}
           /\ \/ a = b /\ Abs(rear_samples[a].stamp - stamp) <= SyncTolerance
              \/ /\ rear_samples[a].stamp <= stamp /\ stamp <= rear_samples[b].stamp
                 /\ rear_samples[b].stamp - rear_samples[a].stamp <= MaxInterpolationGap
<1> DEFINE D == DOMAIN rear_samples
           later  == {i \in D : rear_samples[i].stamp >= stamp}
           after  == CHOOSE i \in later : \A j \in later : i <= j
           seen   == {i \in D : rear_samples[i].stamp <= stamp /\ (later # {} => i <= after)}
           before == CHOOSE i \in seen : \A j \in seen : j <= i
           span   == rear_samples[after].stamp - rear_samples[before].stamp
           away(i) == Abs(rear_samples[i].stamp - stamp)
           nearest == CHOOSE i \in D :
                        \A j \in D : away(i) < away(j) \/ (away(i) = away(j) /\ i <= j)
<1>1. InterpolatedRear(stamp) =
        IF later # {} /\ seen # {} /\ span = 0 THEN {rear_samples[before]}
        ELSE IF later # {} /\ seen # {} /\ span <= MaxInterpolationGap
        THEN {rear_samples[before], rear_samples[after]}
        ELSE IF D # {} /\ away(nearest) <= SyncTolerance THEN {rear_samples[nearest]}
        ELSE {}
  BY DEF InterpolatedRear
<1>2. D = 1..Len(rear_samples) /\ Len(rear_samples) \in Nat OBVIOUS
<1>3. \A i \in D : rear_samples[i].stamp \in 0..BagEnd
  <2>1. \A i \in D : rear_samples[i] \in Rears BY <1>2, ElementOfSeq
  <2> QED BY <2>1 DEF Rears
<1>4. later # {} => after \in later
  <2>1. later \subseteq Nat BY <1>2
  <2>2. later # {} => \E i \in later : \A j \in later : i <= j BY <2>1, Least
  <2> HIDE DEF later
  <2> QED BY <2>2
<1>5. seen # {} => before \in seen
  <2>1. seen \subseteq 1..Len(rear_samples) BY <1>2
  <2> HIDE DEF seen
  <2>2. seen # {} => \E i \in seen : \A j \in seen : j <= i BY <1>2, <2>1, Greatest
  <2> QED BY <2>2
<1>6. D # {} => nearest \in D
  <2> SUFFICES ASSUME D # {} PROVE nearest \in D
    OBVIOUS
  <2>1. \A i \in D : away(i) \in Nat BY <1>3, Limits DEF Abs
  <2> HIDE DEF away
  <2>2. {away(i) : i \in D} \subseteq Nat /\ {away(i) : i \in D} # {} BY <2>1
  <2>3. PICK m \in {away(i) : i \in D} : \A y \in {away(i) : i \in D} : m <= y
    BY <2>2, Least
  <2>4. {i \in D : away(i) = m} \subseteq Nat /\ {i \in D : away(i) = m} # {} BY <1>2, <2>3
  <2>5. PICK i \in {j \in D : away(j) = m} : \A y \in {j \in D : away(j) = m} : i <= y
    BY <2>4, Least
  <2>6. ASSUME NEW j \in D PROVE away(i) < away(j) \/ (away(i) = away(j) /\ i <= j)
    <3>1. m <= away(j) /\ away(j) \in Nat /\ m \in Nat /\ away(i) = m BY <2>1, <2>2, <2>3, <2>5
    <3>2. CASE away(j) = m BY <2>5, <3>1, <3>2
    <3>3. CASE away(j) # m BY <3>1, <3>3
    <3> QED BY <3>2, <3>3
  <2> HIDE DEF D
  <2> QED BY <2>5, <2>6
<1>7. CASE later # {} /\ seen # {} /\ span <= MaxInterpolationGap
  <2>1. before \in D /\ rear_samples[before].stamp <= stamp BY <1>5, <1>7
  <2>2. after \in D /\ stamp <= rear_samples[after].stamp BY <1>4, <1>7, <1>3
  <2>3. CASE span = 0
    <3>1. InterpolatedRear(stamp) = {rear_samples[before]} BY <1>1, <1>7, <2>3
    <3> HIDE DEF before, after, later, seen
    <3>2. rear_samples[before].stamp = stamp BY <1>3, <2>1, <2>2, <2>3
    <3>3. Abs(rear_samples[before].stamp - stamp) <= SyncTolerance
      BY <3>2, Limits DEF Abs
    <3> QED BY <1>2, <2>1, <3>1, <3>3
  <2>4. CASE span # 0
    <3>1. InterpolatedRear(stamp) = {rear_samples[before], rear_samples[after]}
      BY <1>1, <1>7, <2>4
    <3> HIDE DEF before, after, later, seen
    <3> QED BY <1>2, <1>7, <2>1, <2>2, <3>1
  <2> QED BY <2>3, <2>4
<1>8. CASE ~(later # {} /\ seen # {} /\ span <= MaxInterpolationGap)
  <2>1. ~(later # {} /\ seen # {} /\ span = 0)
    <3>1. 0 <= MaxInterpolationGap BY Limits
    <3> HIDE DEF before, after, later, seen
    <3> QED BY <1>8, <3>1
  <2>2. D # {} /\ away(nearest) <= SyncTolerance /\ InterpolatedRear(stamp) = {rear_samples[nearest]}
    <3> HIDE DEF before, after, later, seen, nearest, away, D
    <3> QED BY <1>1, <1>8, <2>1
  <2>3. nearest \in D BY <1>6, <2>2
  <2> HIDE DEF nearest
  <2> QED BY <1>2, <2>2, <2>3
<1> QED BY <1>7, <1>8

\* What is left of the rear deque after a pair.
LEMMA PrunedSamples ==
  ASSUME rear_samples \in Seq(Rears), NEW stamp \in 0..BagEnd
  PROVE  /\ Pruned(stamp) \in Seq(Rears)
         /\ \A i \in DOMAIN Pruned(stamp) :
              \E j \in DOMAIN rear_samples : Pruned(stamp)[i] = rear_samples[j]
         /\ Len(rear_samples) = 1 => Pruned(stamp) = rear_samples
<1> DEFINE n == Len(rear_samples)
           stops(k) == k >= n - 2 \/ rear_samples[k + 2].stamp >= stamp - MaxInterpolationGap
           first(k) == stops(k) /\ \A m \in 0..(k - 1) : ~stops(m)
           k0 == CHOOSE k \in 0..n : first(k)
<1>1. Pruned(stamp) = SubSeq(rear_samples, k0 + 1, n) BY DEF Pruned
<1>2. n \in Nat /\ DOMAIN rear_samples = 1..n OBVIOUS
<1>3. \E k \in 0..n : first(k)
  <2> DEFINE K == {k \in 0..n : stops(k)}
  <2>1. n \in K BY <1>2
  <2>2. K \subseteq Nat BY <1>2
  <2> HIDE DEF K
  <2>3. PICK k \in K : \A m \in K : k <= m BY <2>1, <2>2, Least
  <2>4. k \in 0..n /\ stops(k) BY <2>3 DEF K
  <2>5. ASSUME NEW m \in 0..(k - 1) PROVE ~stops(m)
    <3>1. m \in 0..n /\ m < k BY <1>2, <2>4
    <3>2. m \notin K BY <2>2, <2>3, <3>1
    <3> QED BY <3>1, <3>2 DEF K
  <2> QED BY <2>4, <2>5
<1>4. k0 \in 0..n /\ first(k0)
  <2> HIDE DEF first
  <2> QED BY <1>3
<1>5. /\ SubSeq(rear_samples, k0 + 1, n) \in Seq(Rears)
      /\ Len(SubSeq(rear_samples, k0 + 1, n)) = n - k0
      /\ \A i \in 1..(n - k0) : SubSeq(rear_samples, k0 + 1, n)[i] = rear_samples[k0 + i]
  <2> HIDE DEF k0
  <2>1. k0 \in Int /\ n \in Int BY <1>2, <1>4
  <2>2. \A i \in (k0 + 1)..n : rear_samples[i] \in Rears BY <1>2, <1>4, ElementOfSeq
  <2>3. /\ SubSeq(rear_samples, k0 + 1, n) \in Seq(Rears)
        /\ Len(SubSeq(rear_samples, k0 + 1, n)) = IF k0 + 1 <= n THEN n - (k0 + 1) + 1 ELSE 0
        /\ \A i \in 1..(n - (k0 + 1) + 1) :
             SubSeq(rear_samples, k0 + 1, n)[i] = rear_samples[(k0 + 1) + i - 1]
    BY <2>1, <2>2, SubSeqProperties
  <2>4. n - (k0 + 1) + 1 = n - k0 /\ \A i \in Nat : (k0 + 1) + i - 1 = k0 + i BY <1>2, <1>4
  <2>5. \A i \in 1..(n - k0) : SubSeq(rear_samples, k0 + 1, n)[i] = rear_samples[k0 + i]
    BY <2>1, <2>3, <2>4
  <2>6. Len(SubSeq(rear_samples, k0 + 1, n)) = n - k0
    <3>1. k0 \in 0..n BY <1>4
    <3>2. \A b \in Nat : \A a \in 0..b : (IF a + 1 <= b THEN b - (a + 1) + 1 ELSE 0) = b - a
      OBVIOUS
    <3> HIDE DEF n
    <3>3. (IF k0 + 1 <= n THEN n - (k0 + 1) + 1 ELSE 0) = n - k0 BY <1>2, <3>1, <3>2
    <3> QED BY <2>3, <3>3
  <2> QED BY <2>3, <2>5, <2>6
<1>6. ASSUME n = 1 PROVE Pruned(stamp) = rear_samples
  <2>1. stops(0) BY <1>6
  <2>2. k0 = 0 
    <3> HIDE DEF k0, stops
    <3>1. k0 \in 0..1 BY <1>4, <1>6
    <3>2. k0 = 1 => 0 \in 0..(k0 - 1) OBVIOUS
    <3> QED BY <1>4, <2>1, <3>1, <3>2
  <2> HIDE DEF k0
  <2> QED BY <1>1, <2>2, SubSeqFull
<1>7. ASSUME NEW i \in DOMAIN Pruned(stamp)
      PROVE  \E j \in DOMAIN rear_samples : Pruned(stamp)[i] = rear_samples[j]
  <2> HIDE DEF k0
  <2>1. i \in 1..(n - k0) BY <1>1, <1>5, <1>7, LenProperties
  <2>2. k0 + i \in 1..n BY <1>2, <1>4, <2>1
  <2> QED BY <1>1, <1>2, <1>5, <2>1, <2>2
<1> QED BY <1>1, <1>5, <1>6, <1>7

\* A new sample comes last; the oldest may go.
LEMMA Enqueued ==
  ASSUME NEW S, NEW s \in Seq(S), NEW x \in S, NEW max \in Nat \ {0}
  PROVE  /\ Enqueue(s, x, max) \in Seq(S)
         /\ s = <<>> => Len(Enqueue(s, x, max)) = 1
         /\ \E d \in {0, 1} : LET q == Enqueue(s, x, max) IN
              /\ Len(q) = Len(s) + 1 - d /\ Len(q) > 0
              /\ q[Len(q)] = x
              /\ \A i \in 1..(Len(q) - 1) : i + d \in 1..Len(s) /\ q[i] = s[i + d]
<1> DEFINE q == Enqueue(s, x, max)
<1>1. Len(s) \in Nat OBVIOUS
<1>2. CASE Len(s) < max
  <2>1. q = Append(s, x) BY <1>2 DEF Enqueue
  <2> HIDE DEF q
  <2>2. q \in Seq(S) /\ Len(q) = Len(s) + 1 /\ q[Len(q)] = x BY <2>1
  <2>3. \A i \in 1..(Len(q) - 1) : i + 0 \in 1..Len(s) /\ q[i] = s[i + 0] BY <1>1, <2>1, <2>2
  <2>4. Len(q) = Len(s) + 1 - 0 /\ Len(q) > 0 BY <1>1, <2>2
  <2>5. s = <<>> => Len(q) = 1 BY <2>2
  <2> QED BY <2>2, <2>3, <2>4, <2>5 DEF q
<1>3. CASE ~(Len(s) < max)
  <2>1. q = Append(Tail(s), x) BY <1>3 DEF Enqueue
  <2> HIDE DEF q
  <2>2. s # <<>> /\ Len(s) > 0 BY <1>1, <1>3
  <2>3. /\ Tail(s) \in Seq(S) /\ Len(Tail(s)) = Len(s) - 1
        /\ \A i \in 1..Len(Tail(s)) : Tail(s)[i] = s[i + 1]
    BY <2>2, HeadTailProperties
  <2>4. q \in Seq(S) /\ Len(q) = Len(s) /\ q[Len(q)] = x BY <1>1, <2>1, <2>2, <2>3
  <2>5. \A i \in 1..(Len(q) - 1) : i + 1 \in 1..Len(s) /\ q[i] = s[i + 1]
    BY <1>1, <2>1, <2>3, <2>4
  <2>6. Len(q) = Len(s) + 1 - 1 /\ Len(q) > 0 BY <1>1, <2>2, <2>4
  <2> QED BY <2>2, <2>4, <2>5, <2>6 DEF q
<1> QED BY <1>2, <1>3

\* How a fix is stamped, and how old it is.
LEMMA MeasuredStamp ==
  ASSUME TypeOK, NEW delay \in 0..MaxDelay
  PROVE  /\ Measured(delay).stamp \in 0..BagEnd /\ Measured(delay).lap \in {0, 1}
         /\ delay <= src => Measured(delay).stamp = src - delay /\ Measured(delay).lap = lap
         /\ delay > src => /\ Measured(delay).stamp = src + BagEnd + 1 - delay
                           /\ Measured(delay).lap = 1 - lap
BY Limits DEF TypeOK, Measured
-----------------------------------------------------------------------------
(* A fix arrives.                                                          *)

Jumped(stream, delay) ==
  last_input[stream] # None /\ Measured(delay).stamp < last_input[stream] - JumpThreshold

\* A jump is seen exactly at the first fix of a play, unless the stream has just been forgotten.
LEMMA JumpedMeans ==
  ASSUME TypeOK, LastInv, NEW stream \in Streams, NEW delay \in 0..MaxDelay,
         delay < measured[stream]
  PROVE  Jumped(stream, delay) <=> last_input[stream] # None /\ ~New(stream) /\ delay <= src
<1> DEFINE stamp == Measured(delay).stamp
<1>1. CASE last_input[stream] = None BY <1>1 DEF Jumped
<1>2. CASE last_input[stream] # None
  <2>1. /\ stamp \in 0..BagEnd
        /\ delay <= src => stamp = src - delay
        /\ delay > src => stamp = src + BagEnd + 1 - delay
    BY MeasuredStamp
  <2>2. /\ last_input[stream] \in Nat /\ src \in Nat /\ measured[stream] \in Nat /\ delay \in Nat
    BY <1>2, Limits DEF TypeOK
  <2>3. Jumped(stream, delay) <=> stamp < last_input[stream] - JumpThreshold
    BY <1>2 DEF Jumped
  <2> HIDE DEF stamp
  <2>4. CASE New(stream)
    <3>1. measured[stream] <= src /\ last_input[stream] <= src - measured[stream]
      BY <1>2, <2>4 DEF LastInv, New
    <3> QED BY <2>1, <2>2, <2>3, <2>4, <3>1, Limits
  <2>5. CASE ~New(stream)
    <3>1. /\ src <= MaxSilence /\ last_input[stream] > MaxSilence + JumpThreshold
          /\ last_input[stream] <= src + BagEnd + 1 - measured[stream]
      BY <1>2, <2>2, <2>5, Limits DEF LastInv
    <3> QED BY <1>2, <2>1, <2>2, <2>3, <2>5, <3>1, Limits
  <2> QED BY <2>4, <2>5
<1> QED BY <1>1, <1>2

\* What a callback leaves in the deques.
LEMMA Received ==
  ASSUME TypeOK, NEW stream \in Streams, NEW delay \in 0..MaxDelay, NEW fix,
         stream = "rear" => fix \in RearFixes, stream = "front" => fix \in FrontFixes,
         Callback(stream, delay, fix)
  PROVE  /\ rear_samples' \in Seq(Rears) /\ front_samples' \in Seq(Fronts)
         /\ \A t \in Streams \ {stream} :
              Samples(t)' = IF Jumped(stream, delay) THEN <<>> ELSE Samples(t)
         /\ \A i \in DOMAIN Samples(stream)' :
              \/ /\ Samples(stream)'[i].stamp = Measured(delay).stamp
                 /\ Samples(stream)'[i].lap = Measured(delay).lap
              \/ /\ ~Jumped(stream, delay)
                 /\ \E j \in DOMAIN Samples(stream) : Samples(stream)'[i] = Samples(stream)[j]
         /\ stream = "rear" /\ (Jumped(stream, delay) \/ rear_samples = <<>>) =>
              /\ Len(rear_samples') = 1
              /\ rear_samples'[1].stamp = Measured(delay).stamp
              /\ rear_samples'[1].lap = Measured(delay).lap
         /\ stream = "front" =>
              \A i \in DOMAIN front_samples' :
                \/ /\ front_samples'[i].held = 0 /\ i = Len(front_samples')
                   /\ front_samples'[i].stamp = Measured(delay).stamp
                   /\ front_samples'[i].lap = Measured(delay).lap
                \/ /\ ~Jumped(stream, delay)
                   /\ \E d \in {0, 1} :
                        /\ \A k \in 1..i : k + d \in DOMAIN front_samples
                                        /\ front_samples'[k] = front_samples[k + d]
<1> DEFINE new == Measured(delay)
           jumped == Jumped(stream, delay)
           rears  == IF jumped THEN <<>> ELSE rear_samples
           fronts == IF jumped THEN <<>> ELSE front_samples
<1>1. /\ rear_samples'  = IF stream = "rear" THEN Enqueue(rears, RearSample(fix, new), RearMax) ELSE rears
      /\ front_samples' = IF stream = "front" THEN Enqueue(fronts, FrontSample(fix, new), FrontMax) ELSE fronts
  BY DEF Callback, Jumped, Cleared, Streams
<1>2. rears \in Seq(Rears) /\ fronts \in Seq(Fronts) BY DEF TypeOK
<1>3. new.stamp \in 0..BagEnd /\ new.lap \in {0, 1} BY MeasuredStamp
<1> HIDE DEF new, jumped
<1>4. CASE stream = "rear"
  <2> DEFINE x == RearSample(fix, new)
             q == Enqueue(rears, x, RearMax)
  <2>1. x \in Rears /\ x.stamp = new.stamp /\ x.lap = new.lap
    BY <1>3, <1>4 DEF RearFixes, RearSample, Rears
  <2>2. rear_samples' = q /\ front_samples' = fronts BY <1>1, <1>4
  <2> HIDE DEF x
  <2>3. RearMax \in Nat \ {0} BY Limits
  <2>4. /\ q \in Seq(Rears) /\ (rears = <<>> => Len(q) = 1)
        /\ \E d \in {0, 1} :
              /\ Len(q) = Len(rears) + 1 - d /\ Len(q) > 0 /\ q[Len(q)] = x
              /\ \A i \in 1..(Len(q) - 1) : i + d \in 1..Len(rears) /\ q[i] = rears[i + d]
    <3> HIDE DEF rears
    <3> QED BY <1>2, <2>1, <2>3, Enqueued
  <2> HIDE DEF q
  <2>5. \A i \in DOMAIN q : q[i] = x \/ (~jumped /\ \E j \in DOMAIN rear_samples : q[i] = rear_samples[j])
    <3> SUFFICES ASSUME NEW i \in DOMAIN q, q[i] # x
                 PROVE  ~jumped /\ \E j \in DOMAIN rear_samples : q[i] = rear_samples[j]
      OBVIOUS
    <3>1. DOMAIN q = 1..Len(q) /\ Len(q) \in Nat BY <2>4
    <3>2. i \in 1..(Len(q) - 1) BY <2>4, <3>1
    <3>3. PICK j \in 1..Len(rears) : q[i] = rears[j] BY <2>4, <3>2
    <3>4. ~jumped BY <3>3
    <3>5. rears = rear_samples BY <3>4
    <3>6. DOMAIN rear_samples = 1..Len(rear_samples) BY DEF TypeOK
    <3> QED BY <3>3, <3>4, <3>5, <3>6
  <2>6. Samples("rear") = rear_samples /\ Samples("rear")' = q
        /\ Samples("front") = front_samples /\ Samples("front")' = fronts
    BY <2>2 DEF Samples
  <2>7. Streams \ {stream} = {"front"} BY <1>4 DEF Streams
  <2>8. (jumped \/ rear_samples = <<>>) => Len(q) = 1 /\ q[1] = x
    <3>1. (jumped \/ rear_samples = <<>>) => rears = <<>> OBVIOUS
    <3> QED BY <2>4, <3>1
  <2> QED BY <1>2, <1>4, <2>1, <2>2, <2>4, <2>5, <2>6, <2>7, <2>8 DEF new, jumped
<1>5. CASE stream = "front"
  <2> DEFINE x == FrontSample(fix, new)
             q == Enqueue(fronts, x, FrontMax)
  <2>1. x \in Fronts /\ x.stamp = new.stamp /\ x.lap = new.lap /\ x.held = 0
    <3>1. fix.usable \in BOOLEAN /\ fix.yaw \in Yaws \cup {None} /\ (fix.usable => fix.yaw \in Yaws)
      <4>1. CASE fix \in [usable : {TRUE}, yaw : Yaws]
        <5>1. fix.usable = TRUE /\ fix.yaw \in Yaws BY <4>1
        <5> QED BY <5>1
      <4>2. CASE fix = [usable |-> FALSE, yaw |-> None]
        <5>1. fix.usable = FALSE /\ fix.yaw = None BY <4>2
        <5> QED BY <5>1
      <4> QED BY <1>5, <4>1, <4>2 DEF FrontFixes
    <3> QED BY <1>3, <3>1 DEF FrontSample, Fronts
  <2>2. rear_samples' = rears /\ front_samples' = q BY <1>1, <1>5
  <2> HIDE DEF x
  <2>3. FrontMax \in Nat \ {0} BY Limits
  <2>4. /\ q \in Seq(Fronts)
        /\ \E d \in {0, 1} :
              /\ Len(q) = Len(fronts) + 1 - d /\ Len(q) > 0 /\ q[Len(q)] = x
              /\ \A i \in 1..(Len(q) - 1) : i + d \in 1..Len(fronts) /\ q[i] = fronts[i + d]
    <3>1. fronts \in Seq(Fronts) /\ x \in Fronts BY <1>2, <2>1
    <3> HIDE DEF rears, fronts
    <3> QED BY <2>3, <3>1, Enqueued
  <2> HIDE DEF q
  <2>5. PICK d \in {0, 1} :
              /\ Len(q) = Len(fronts) + 1 - d /\ Len(q) > 0 /\ q[Len(q)] = x
              /\ \A i \in 1..(Len(q) - 1) : i + d \in 1..Len(fronts) /\ q[i] = fronts[i + d]
    BY <2>4
  <2>6. \A i \in DOMAIN q :
          \/ q[i] = x /\ i = Len(q)
          \/ ~jumped /\ \A k \in 1..i : k + d \in DOMAIN front_samples /\ q[k] = front_samples[k + d]
    <3> SUFFICES ASSUME NEW i \in DOMAIN q, i # Len(q)
                 PROVE  ~jumped /\ \A k \in 1..i : k + d \in DOMAIN front_samples
                                               /\ q[k] = front_samples[k + d]
      BY <2>5
    <3>1. DOMAIN q = 1..Len(q) /\ Len(q) \in Nat BY <2>4
    <3>2. i \in 1..(Len(q) - 1) BY <3>1
    <3>3. i + d \in 1..Len(fronts) BY <2>5, <3>2
    <3>4. ~jumped BY <3>3
    <3>5. fronts = front_samples BY <3>4
    <3>6. DOMAIN front_samples = 1..Len(front_samples) BY DEF TypeOK
    <3>7. \A k \in 1..i : k \in 1..(Len(q) - 1) BY <3>1, <3>2
    <3> QED BY <2>5, <3>4, <3>5, <3>6, <3>7
  <2>7. \A i \in DOMAIN q : i \in 1..i
    <3>1. DOMAIN q = 1..Len(q) /\ Len(q) \in Nat BY <2>4
    <3> QED BY <3>1
  <2>8. \A i \in DOMAIN q : q[i] = x \/ (~jumped /\ \E j \in DOMAIN front_samples : q[i] = front_samples[j])
    BY <2>6, <2>7
  <2>9. Samples("rear") = rear_samples /\ Samples("rear")' = rears
        /\ Samples("front") = front_samples /\ Samples("front")' = q
    BY <2>2 DEF Samples
  <2>10. Streams \ {stream} = {"rear"} BY <1>5 DEF Streams
  <2>11. \A t \in Streams \ {stream} :
           Samples(t)' = IF Jumped(stream, delay) THEN <<>> ELSE Samples(t)
    BY <2>9, <2>10 DEF jumped
  <2>12. \A i \in DOMAIN Samples(stream)' :
              \/ /\ Samples(stream)'[i].stamp = Measured(delay).stamp
                 /\ Samples(stream)'[i].lap = Measured(delay).lap
              \/ /\ ~Jumped(stream, delay)
                 /\ \E j \in DOMAIN Samples(stream) : Samples(stream)'[i] = Samples(stream)[j]
    BY <1>5, <2>1, <2>8, <2>9 DEF jumped, new
  <2>13. \A i \in DOMAIN front_samples' :
                \/ /\ front_samples'[i].held = 0 /\ i = Len(front_samples')
                   /\ front_samples'[i].stamp = Measured(delay).stamp
                   /\ front_samples'[i].lap = Measured(delay).lap
                \/ /\ ~Jumped(stream, delay)
                   /\ \E c \in {0, 1} :
                        /\ \A k \in 1..i : k + c \in DOMAIN front_samples
                                        /\ front_samples'[k] = front_samples[k + c]
    <3> HIDE DEF q
    <3> QED BY <2>1, <2>2, <2>6 DEF jumped, new
  <2> QED BY <1>2, <1>5, <2>2, <2>4, <2>11, <2>12, <2>13
<1> QED BY <1>4, <1>5 DEF Streams
LEMMA CallbackType ==
  ASSUME TypeOK, NEW stream \in Streams, NEW delay \in 0..MaxDelay, NEW fix,
         stream = "rear" => fix \in RearFixes, stream = "front" => fix \in FrontFixes,
         Callback(stream, delay, fix)
  PROVE  TypeOK'
<1>1. /\ measured' = [measured EXCEPT ![stream] = delay]
      /\ last_input' = [s \in Streams |-> IF s = stream THEN Measured(delay).stamp
                                         ELSE IF Jumped(stream, delay) THEN None ELSE last_input[s]]
      /\ processing' = TRUE /\ UNCHANGED <<src, lap, phase, due>>
  BY DEF Callback, Jumped
<1>2. /\ raw' \in {raw, None} /\ valid_age' \in {valid_age, None}
      /\ valid_state' \in {valid_state, FALSE} /\ pair' = pair
  BY DEF Callback, JumpReset, yawVars
<1>3. rear_samples' \in Seq(Rears) /\ front_samples' \in Seq(Fronts) BY Received
<1>4. Measured(delay).stamp \in 0..BagEnd BY MeasuredStamp
<1>5. measured' \in [Streams -> Nat] BY <1>1, Limits DEF TypeOK
<1>6. last_input' \in [Streams -> 0..BagEnd \cup {None}] BY <1>1, <1>4 DEF TypeOK
<1> QED BY <1>1, <1>2, <1>3, <1>5, <1>6 DEF TypeOK

LEMMA CallbackLaps ==
  ASSUME TypeOK, LastInv, LapInv,
         NEW stream \in Streams, NEW delay \in 0..MaxDelay, NEW fix,
         stream = "rear" => fix \in RearFixes, stream = "front" => fix \in FrontFixes,
         Callback(stream, delay, fix)
  PROVE  LastInv' /\ LapInv'
<1> DEFINE jumped == Jumped(stream, delay)
           stamp == Measured(delay).stamp
<1>1. /\ delay < measured[stream]
      /\ measured' = [measured EXCEPT ![stream] = delay]
      /\ last_input' = [s \in Streams |-> IF s = stream THEN stamp
                                         ELSE IF jumped THEN None ELSE last_input[s]]
      /\ src' = src /\ lap' = lap
  BY DEF Callback, Jumped
<1>2. jumped <=> last_input[stream] # None /\ ~New(stream) /\ delay <= src
  BY <1>1, JumpedMeans
<1>3. /\ stamp \in 0..BagEnd
      /\ delay <= src => stamp = src - delay /\ Measured(delay).lap = lap
      /\ delay > src => stamp = src + BagEnd + 1 - delay /\ Measured(delay).lap = 1 - lap
  BY MeasuredStamp
<1>4. /\ \A t \in Streams \ {stream} : Samples(t)' = IF jumped THEN <<>> ELSE Samples(t)
      /\ \A i \in DOMAIN Samples(stream)' :
           \/ Samples(stream)'[i].stamp = stamp /\ Samples(stream)'[i].lap = Measured(delay).lap
           \/ ~jumped /\ \E j \in DOMAIN Samples(stream) : Samples(stream)'[i] = Samples(stream)[j]
  BY Received
<1> HIDE DEF jumped, stamp
<1>5. /\ src \in 0..BagEnd /\ measured \in [Streams -> Nat] /\ delay \in 0..MaxDelay
      /\ last_input \in [Streams -> 0..BagEnd \cup {None}]
  BY DEF TypeOK
<1>6. /\ measured'[stream] = delay /\ last_input'[stream] = stamp
      /\ \A t \in Streams \ {stream} :
           /\ measured'[t] = measured[t] 
           /\ last_input'[t] = IF jumped THEN None ELSE last_input[t]
  BY <1>1, <1>5
<1>7. /\ New(stream)' <=> delay <= src
      /\ New(stream) => delay <= src
      /\ \A t \in Streams \ {stream} : New(t)' = New(t)
  <2>1. New(stream)' <=> delay <= src BY <1>1, <1>6 DEF New
  <2>2. New(stream) => delay <= src BY <1>1, <1>5, Limits DEF New
  <2>3. ASSUME NEW t \in Streams \ {stream} PROVE New(t)' = New(t)
    BY <1>1, <1>6, <2>3 DEF New
  <2> QED BY <2>1, <2>2, <2>3
<1>8. stamp # None BY <1>3, Limits
<1>9. LastInv'
  <2> SUFFICES ASSUME NEW s \in Streams
               PROVE  (/\ src > MaxSilence => New(s)
                       /\ last_input[s] = None => Samples(s) = <<>>
                       /\ last_input[s] = None /\ src > MaxSilence =>
                            measured[s] >= src - MaxSilence \/ measured[s] > MaxSilence
                       /\ last_input[s] # None /\ New(s) =>
                            /\ last_input[s] <= src - measured[s]
                            /\ measured[s] <= MaxSilence => last_input[s] = src - measured[s]
                       /\ last_input[s] # None /\ ~New(s) =>
                            /\ last_input[s] > MaxSilence + JumpThreshold
                            /\ last_input[s] <= src + BagEnd + 1 - measured[s])'
    BY DEF LastInv
  <2>1. CASE s = stream
    <3>1. src > MaxSilence => New(stream)' BY <1>7 DEF LastInv
    <3>2. New(stream)' => stamp = src - delay BY <1>3, <1>7
    <3>3. ~New(stream)' => /\ stamp > MaxSilence + JumpThreshold
                           /\ stamp = src + BagEnd + 1 - delay
      BY <1>3, <1>5, <1>7, Limits
    <3>4. stamp <= stamp BY <1>3
    <3> QED BY <1>1, <1>6, <1>8, <2>1, <3>1, <3>2, <3>3, <3>4
  <2>2. CASE s # stream
    <3>1. s \in Streams \ {stream} BY <2>2
    <3>2. CASE jumped
      <4>1. ~(src > MaxSilence) BY <1>2, <3>2 DEF LastInv
      <4> QED BY <1>1, <1>4, <1>6, <3>1, <3>2, <4>1
    <3>3. CASE ~jumped
      <4>1. /\ Samples(s)' = Samples(s) /\ New(s)' = New(s)
            /\ last_input'[s] = last_input[s] /\ measured'[s] = measured[s]
        BY <1>4, <1>6, <1>7, <3>1, <3>3
      <4> QED BY <1>1, <4>1 DEF LastInv
    <3> QED BY <3>2, <3>3
  <2> QED BY <2>1, <2>2
<1>10. LapInv'
  <2> SUFFICES ASSUME NEW s \in Streams, NEW i \in DOMAIN Samples(s)'
               PROVE  (/\ New(s)  => Samples(s)[i].lap = lap /\ Samples(s)[i].stamp <= src
                       /\ ~New(s) => Samples(s)[i].lap = 1 - lap
                       /\ \A t \in Streams : ~New(s) /\ (New(t) \/ last_input[t] = None) =>
                            Samples(s)[i].stamp > BagEnd - MaxDelay)'
    BY DEF LapInv
  <2>1. CASE s = stream /\ Samples(stream)'[i].stamp = stamp
                        /\ Samples(stream)'[i].lap = Measured(delay).lap
    <3>1. delay <= src => stamp <= src BY <1>3, <1>5, Limits
    <3>2. delay > src => stamp > BagEnd - MaxDelay BY <1>3, <1>5, Limits
    <3>3. delay > src <=> ~(delay <= src) BY <1>5
    <3> QED BY <1>1, <1>3, <1>7, <2>1, <3>1, <3>2, <3>3
  <2>2. CASE s = stream /\ ~jumped
             /\ \E j \in DOMAIN Samples(stream) : Samples(stream)'[i] = Samples(stream)[j]
    <3>1. PICK j \in DOMAIN Samples(stream) : Samples(stream)'[i] = Samples(stream)[j] BY <2>2
    <3>2. last_input[stream] # None BY <3>1 DEF LastInv
    <3>3. New(stream)' <=> New(stream) BY <1>2, <1>7, <2>2, <3>2
    <3>4. \A t \in Streams : New(t)' \/ last_input'[t] = None => New(t) \/ last_input[t] = None
                            \/ New(stream)
      BY <1>6, <1>7, <1>8, <2>2, <3>3
    <3> QED BY <1>1, <2>2, <3>1, <3>3, <3>4 DEF LapInv
  <2>3. CASE s # stream
    <3>1. s \in Streams \ {stream} BY <2>3
    <3>2. ~jumped /\ Samples(s)' = Samples(s) BY <1>4, <3>1
    <3>3. New(s)' = New(s) BY <1>7, <3>1
    <3>4. \A t \in Streams : New(t)' \/ last_input'[t] = None => New(t) \/ last_input[t] = None
      BY <1>2, <1>6, <1>7, <1>8, <3>2
    <3> QED BY <1>1, <3>2, <3>3, <3>4 DEF LapInv
  <2> QED BY <1>4, <2>1, <2>2, <2>3
<1> QED BY <1>9, <1>10
\* A fix is as old as it took to arrive.
LEMMA AgeMeasured ==
  ASSUME TypeOK, NEW delay \in 0..MaxDelay, NEW sample,
         sample.stamp = Measured(delay).stamp, sample.lap = Measured(delay).lap
  PROVE  AgeOf(sample) = delay
<1>1. src \in 0..BagEnd /\ lap \in {0, 1} /\ BagEnd \in Nat /\ delay \in Nat
  BY Limits DEF TypeOK
<1>2. /\ delay <= src => Measured(delay).stamp = src - delay /\ Measured(delay).lap = lap
      /\ delay > src => Measured(delay).stamp = src + BagEnd + 1 - delay /\ Measured(delay).lap = 1 - lap
  BY MeasuredStamp
<1>3. CASE delay <= src
  <2>1. sample.stamp = src - delay /\ sample.lap = lap BY <1>2, <1>3
  <2>2. AgeOf(sample) = src - sample.stamp BY <2>1 DEF AgeOf
  <2> QED BY <1>1, <2>1, <2>2
<1>4. CASE delay > src
  <2>1. sample.stamp = src + BagEnd + 1 - delay /\ sample.lap = 1 - lap BY <1>2, <1>4
  <2>2. sample.lap # lap BY <1>1, <2>1
  <2>3. AgeOf(sample) = src + BagEnd + 1 - sample.stamp BY <2>2 DEF AgeOf
  <2> QED BY <1>1, <2>1, <2>3
<1> QED BY <1>1, <1>3, <1>4

LEMMA SampleTypes ==
  ASSUME TypeOK
  PROVE  /\ DOMAIN front_samples = 1..Len(front_samples) /\ Len(front_samples) \in Nat
         /\ DOMAIN rear_samples = 1..Len(rear_samples) /\ Len(rear_samples) \in Nat
         /\ \A i \in DOMAIN front_samples :
              /\ front_samples[i] \in Fronts /\ front_samples[i].held \in Nat
              /\ front_samples[i].stamp \in 0..BagEnd /\ front_samples[i].lap \in {0, 1}
              /\ front_samples[i].usable => front_samples[i].yaw \in Yaws
              /\ AgeOf(front_samples[i]) \in Int
         /\ \A i \in DOMAIN rear_samples :
              /\ rear_samples[i] \in Rears
              /\ rear_samples[i].stamp \in 0..BagEnd /\ rear_samples[i].lap \in {0, 1}
              /\ AgeOf(rear_samples[i]) \in Int
<1>1. rear_samples \in Seq(Rears) /\ front_samples \in Seq(Fronts) BY DEF TypeOK
<1>2. /\ DOMAIN front_samples = 1..Len(front_samples) /\ Len(front_samples) \in Nat
      /\ DOMAIN rear_samples = 1..Len(rear_samples) /\ Len(rear_samples) \in Nat
  BY <1>1
<1>3. src \in Int /\ BagEnd \in Nat BY Limits DEF TypeOK
<1>4. ASSUME NEW i \in DOMAIN front_samples
      PROVE  /\ front_samples[i] \in Fronts /\ front_samples[i].held \in Nat
             /\ front_samples[i].stamp \in 0..BagEnd /\ front_samples[i].lap \in {0, 1}
             /\ front_samples[i].usable => front_samples[i].yaw \in Yaws
             /\ AgeOf(front_samples[i]) \in Int
  <2>1. front_samples[i] \in Fronts BY <1>1, <1>2, ElementOfSeq
  <2>2. /\ front_samples[i].held \in Nat
        /\ front_samples[i].stamp \in 0..BagEnd /\ front_samples[i].lap \in {0, 1}
        /\ front_samples[i].usable => front_samples[i].yaw \in Yaws
    BY <2>1 DEF Fronts
  <2> QED BY <1>3, <2>1, <2>2 DEF AgeOf
<1>5. ASSUME NEW i \in DOMAIN rear_samples
      PROVE  /\ rear_samples[i] \in Rears
             /\ rear_samples[i].stamp \in 0..BagEnd /\ rear_samples[i].lap \in {0, 1}
             /\ AgeOf(rear_samples[i]) \in Int
  <2>1. rear_samples[i] \in Rears BY <1>1, <1>2, ElementOfSeq
  <2>2. rear_samples[i].stamp \in 0..BagEnd /\ rear_samples[i].lap \in {0, 1}
    BY <2>1 DEF Rears
  <2> QED BY <1>3, <2>1, <2>2 DEF AgeOf
<1> QED BY <1>2, <1>4, <1>5

\* When the deque of rear samples fills, a front sample may have waited for long.
LEMMA CallbackHeld ==
  ASSUME TypeOK, HeldInv,
         NEW stream \in Streams, NEW delay \in 0..MaxDelay, NEW fix,
         stream = "rear" => fix \in RearFixes, stream = "front" => fix \in FrontFixes,
         Callback(stream, delay, fix)
  PROVE  HeldInv'
<1> DEFINE jumped == Jumped(stream, delay)
<1>1. ~processing /\ processing' /\ src' = src /\ lap' = lap BY DEF Callback
<1>2. \A sample : AgeOf(sample)' = AgeOf(sample) BY <1>1 DEF AgeOf
<1>3. TypeOK' BY CallbackType
<1>4. rear_samples = <<>> \/ Ready BY <1>1 DEF HeldInv
<1>5. CASE stream = "rear"
  <2>1. front_samples' = IF jumped THEN <<>> ELSE front_samples
    BY <1>5, Received DEF Samples, Streams
  <2>2. jumped \/ rear_samples = <<>> => Len(rear_samples') = 1 /\ AgeOf(rear_samples'[1]) <= MaxDelay
    <3> SUFFICES ASSUME jumped \/ rear_samples = <<>>
                 PROVE  Len(rear_samples') = 1 /\ AgeOf(rear_samples'[1]) <= MaxDelay
      OBVIOUS
    <3>1. /\ Len(rear_samples') = 1 /\ rear_samples'[1].stamp = Measured(delay).stamp
          /\ rear_samples'[1].lap = Measured(delay).lap
      BY <1>5, Received
    <3>2. AgeOf(rear_samples'[1]) = delay BY <3>1, AgeMeasured
    <3> QED BY <3>1, <3>2, Limits
  <2> HIDE DEF jumped
  <2>3. AgeOf(rear_samples[1])' = AgeOf(rear_samples'[1]) BY <1>1 DEF AgeOf
  <2>4. CASE jumped
    <3>1. DOMAIN front_samples' = {} BY <2>1, <2>4
    <3> QED BY <1>1, <2>2, <2>3, <2>4, <3>1 DEF HeldInv, Ready
  <2>5. CASE ~jumped
    <3>1. front_samples' = front_samples BY <2>1, <2>5
    <3>2. Ready' = Ready BY <3>1 DEF Ready
    <3>3. \A i \in DOMAIN front_samples : AgeOf(front_samples[i])' = AgeOf(front_samples[i])
      BY <1>1, <3>1 DEF AgeOf
    <3>4. (rear_samples = <<>> \/ Ready \/ (processing /\ Len(rear_samples) = 1
                                        /\ AgeOf(rear_samples[1]) <= MaxDelay))'
      BY <1>1, <1>4, <2>2, <2>3, <3>2
    <3> QED BY <1>1, <3>1, <3>3, <3>4 DEF HeldInv
  <2> QED BY <2>4, <2>5
<1>6. CASE stream = "front"
  <2>1. rear_samples' = IF jumped THEN <<>> ELSE rear_samples
    BY <1>6, Received DEF Samples, Streams
  <2>2. ASSUME NEW i \in DOMAIN front_samples'
        PROVE  \/ /\ front_samples'[i].held = 0 /\ i = Len(front_samples')
                  /\ AgeOf(front_samples'[i]) <= MaxDelay
               \/ /\ ~jumped
                  /\ \E d \in {0, 1} : \A k \in 1..i :
                       k + d \in DOMAIN front_samples /\ front_samples'[k] = front_samples[k + d]
    <3>1. \/ /\ front_samples'[i].held = 0 /\ i = Len(front_samples')
             /\ front_samples'[i].stamp = Measured(delay).stamp
             /\ front_samples'[i].lap = Measured(delay).lap
          \/ /\ ~jumped
             /\ \E d \in {0, 1} : \A k \in 1..i :
                  k + d \in DOMAIN front_samples /\ front_samples'[k] = front_samples[k + d]
      BY <1>6, Received
    <3>2. CASE /\ front_samples'[i].held = 0 /\ i = Len(front_samples')
               /\ front_samples'[i].stamp = Measured(delay).stamp
               /\ front_samples'[i].lap = Measured(delay).lap
      <4>1. AgeOf(front_samples'[i]) = delay BY <3>2, AgeMeasured
      <4> QED BY <3>2, <4>1, Limits
    <3> QED BY <3>1, <3>2
  <2> HIDE DEF jumped
  <2>3. /\ DOMAIN front_samples' = 1..Len(front_samples') /\ Len(front_samples') \in Nat
        /\ \A i \in DOMAIN front_samples' : front_samples'[i].held \in Nat
    <3>1. front_samples' \in Seq(Fronts) BY <1>3 DEF TypeOK
    <3>2. DOMAIN front_samples' = 1..Len(front_samples') /\ Len(front_samples') \in Nat BY <3>1
    <3>3. \A i \in DOMAIN front_samples' : front_samples'[i] \in Fronts
      BY <3>1, <3>2, ElementOfSeq
    <3> QED BY <3>2, <3>3 DEF Fronts
  <2>4. ASSUME NEW i \in DOMAIN front_samples', NEW j \in DOMAIN front_samples', i < j
        PROVE  front_samples'[i].held >= front_samples'[j].held
    <3>1. CASE front_samples'[j].held = 0 BY <2>3, <3>1
    <3>2. CASE \E d \in {0, 1} : \A k \in 1..j :
                  k + d \in DOMAIN front_samples /\ front_samples'[k] = front_samples[k + d]
      <4>1. PICK d \in {0, 1} : \A k \in 1..j :
              k + d \in DOMAIN front_samples /\ front_samples'[k] = front_samples[k + d]
        BY <3>2
      <4>2. i \in 1..j /\ j \in 1..j BY <2>3, <2>4
      <4>3. i + d < j + d BY <2>3, <2>4
      <4> QED BY <4>1, <4>2, <4>3 DEF HeldInv
    <3> QED BY <2>2, <3>1, <3>2
  <2>5. ASSUME NEW i \in DOMAIN front_samples', front_samples'[i].held <= PairWait + 1
        PROVE  AgeOf(front_samples[i])' <= front_samples'[i].held + MaxDelay
    <3>1. AgeOf(front_samples[i])' = AgeOf(front_samples'[i]) BY <1>1 DEF AgeOf
    <3>2. CASE front_samples'[i].held = 0 /\ AgeOf(front_samples'[i]) <= MaxDelay
      BY <3>1, <3>2, Limits
    <3>3. CASE \E d \in {0, 1} : \A k \in 1..i :
                  k + d \in DOMAIN front_samples /\ front_samples'[k] = front_samples[k + d]
      <4>1. i \in 1..i BY <2>3, <2>5
      <4>2. PICK k \in DOMAIN front_samples : front_samples'[i] = front_samples[k]
        BY <3>3, <4>1
      <4> QED BY <2>5, <3>1, <4>2 DEF HeldInv
    <3> QED BY <2>2, <3>2, <3>3
  <2>6. (rear_samples = <<>> \/ Ready)'
    <3>1. CASE jumped BY <2>1, <3>1
    <3>2. CASE ~jumped
      <4>1. CASE rear_samples = <<>> BY <2>1, <3>2, <4>1
      <4>2. CASE Ready
        <5>1. ASSUME NEW i \in DOMAIN front_samples' PROVE front_samples'[i].held <= PairWait
          <6>1. CASE front_samples'[i].held = 0 BY <6>1, Limits
          <6>2. CASE \E d \in {0, 1} : \A k \in 1..i :
                  k + d \in DOMAIN front_samples /\ front_samples'[k] = front_samples[k + d]
            <7>1. i \in 1..i BY <2>3, <5>1
            <7> QED BY <4>2, <6>2, <7>1 DEF Ready
          <6> QED BY <2>2, <6>1, <6>2
        <5> QED BY <5>1 DEF Ready
      <4> QED BY <1>4, <4>1, <4>2
    <3> QED BY <3>1, <3>2
  <2> QED BY <1>1, <2>4, <2>5, <2>6 DEF HeldInv
<1> QED BY <1>5, <1>6 DEF Streams

LEMMA CallbackValid ==
  ASSUME TypeOK, ValidInv, PairsMatch,
         NEW stream \in Streams, NEW delay \in 0..MaxDelay, NEW fix,
         Callback(stream, delay, fix)
  PROVE  ValidInv' /\ PairsMatch'
<1>1. UNCHANGED <<phase, due, pair>> BY DEF Callback, JumpReset, yawVars
<1>2. CASE UNCHANGED yawVars BY <1>1, <1>2 DEF ValidInv, PairsMatch, yawVars
<1>3. CASE raw' = None /\ valid_state' = FALSE /\ valid_age' = None
  BY <1>1, <1>3 DEF ValidInv, PairsMatch
<1> QED BY <1>2, <1>3 DEF Callback, JumpReset
-----------------------------------------------------------------------------
(* Pairs.                                                                  *)

\* The samples of a pair are of one play: those of two plays are further apart than the
\* tolerance, and never on both sides of a stamp.
LEMMA PairLaps ==
  ASSUME TypeOK, LastInv, LapInv, front_samples # <<>>,
         NEW a \in DOMAIN rear_samples, NEW b \in DOMAIN rear_samples,
         \/ a = b /\ Abs(rear_samples[a].stamp - front_samples[1].stamp) <= SyncTolerance
         \/ /\ rear_samples[a].stamp <= front_samples[1].stamp
            /\ front_samples[1].stamp <= rear_samples[b].stamp
  PROVE  rear_samples[a].lap = front_samples[1].lap /\ rear_samples[b].lap = front_samples[1].lap
<1> DEFINE f == front_samples[1]
<1>1. 1 \in DOMAIN front_samples
  <2>1. Len(front_samples) # 0 BY DEF TypeOK
  <2> QED BY <2>1, SampleTypes
<1>2. f.stamp \in Nat /\ rear_samples[a].stamp \in Nat /\ rear_samples[b].stamp \in Nat
  BY <1>1, SampleTypes, Limits
<1>3. /\ Samples("rear") = rear_samples /\ Samples("front") = front_samples
      /\ "rear" \in Streams /\ "front" \in Streams
  BY DEF Samples, Streams
<1>4. \A s \in Streams : ~New(s) => src <= MaxSilence
  BY Limits DEF LastInv, TypeOK
<1> HIDE DEF f
<1>5. /\ New("front") => f.lap = lap /\ f.stamp <= src
      /\ ~New("front") => f.lap = 1 - lap
      /\ ~New("front") /\ New("rear") => f.stamp > BagEnd - MaxDelay
  BY <1>1, <1>3 DEF LapInv, f
<1>6. \A i \in DOMAIN rear_samples :
        /\ New("rear") => rear_samples[i].lap = lap /\ rear_samples[i].stamp <= src
        /\ ~New("rear") => rear_samples[i].lap = 1 - lap
        /\ ~New("rear") /\ New("front") => rear_samples[i].stamp > BagEnd - MaxDelay
  BY <1>3 DEF LapInv
<1>7. src \in Nat /\ BagEnd \in Nat /\ BagEnd - MaxDelay >= MaxSilence + SyncTolerance
  BY Limits DEF TypeOK
<1>8. CASE New("rear") <=> New("front") BY <1>5, <1>6, <1>8 DEF f
<1>9. CASE New("rear") /\ ~New("front")
  <2>1. src <= MaxSilence /\ f.stamp > BagEnd - MaxDelay BY <1>3, <1>4, <1>5, <1>9
  <2>2. rear_samples[a].stamp <= src /\ rear_samples[b].stamp <= src BY <1>6, <1>9
  <2>3. f.stamp - rear_samples[a].stamp > SyncTolerance /\ f.stamp > rear_samples[b].stamp
    BY <1>2, <1>7, <2>1, <2>2, Limits
  <2>4. Abs(rear_samples[a].stamp - f.stamp) > SyncTolerance BY <1>2, <2>3, Limits DEF Abs
  <2> QED BY <1>2, <2>3, <2>4, Limits DEF f, Abs
<1>10. CASE ~New("rear") /\ New("front")
  <2>1. src <= MaxSilence /\ f.stamp <= src BY <1>3, <1>4, <1>5, <1>10
  <2>2. rear_samples[a].stamp > BagEnd - MaxDelay BY <1>6, <1>10
  <2>3. rear_samples[a].stamp - f.stamp > SyncTolerance
    BY <1>2, <1>7, <2>1, <2>2, Limits
  <2>4. Abs(rear_samples[a].stamp - f.stamp) > SyncTolerance BY <1>2, <2>3, Limits DEF Abs
  <2> QED BY <1>2, <2>3, <2>4, Limits DEF f, Abs
<1> QED BY <1>8, <1>9, <1>10

(* The distance between two stamps is a natural number.                    *)
LEMMA AbsNat ==
  ASSUME NEW i \in Int, NEW j \in Int
  PROVE  Abs(i - j) \in Nat
BY DEF Abs

\* Two samples of one play differ in age as they differ in stamp.
LEMMA AgeShift ==
  ASSUME src \in Int, BagEnd \in Int,
         NEW s, NEW r, s.lap = r.lap, s.stamp \in Int, r.stamp \in Int
  PROVE  AgeOf(s) = AgeOf(r) + r.stamp - s.stamp
<1>1. ASSUME NEW now \in Int, NEW i \in Int, NEW j \in Int
      PROVE  now - i = (now - j) + j - i
  OBVIOUS
<1>2. CASE s.lap = lap
  <2>1. AgeOf(s) = src - s.stamp /\ AgeOf(r) = src - r.stamp BY <1>2 DEF AgeOf
  <2> QED BY <1>1, <2>1
<1>3. CASE s.lap # lap
  <2>1. PICK now \in Int : now = src + BagEnd + 1 OBVIOUS
  <2>2. AgeOf(s) = src + BagEnd + 1 - s.stamp /\ AgeOf(r) = src + BagEnd + 1 - r.stamp
    BY <1>3 DEF AgeOf
  <2>3. AgeOf(s) = now - s.stamp /\ AgeOf(r) = now - r.stamp BY <2>1, <2>2
  <2> QED BY <1>1, <2>3
<1> QED BY <1>2, <1>3

\* What the history keeps of an accepted pair.
LEMMA PairFacts ==
  ASSUME TypeOK, LastInv, LapInv, HeldInv, front_samples # <<>>,
         InterpolatedRear(front_samples[1].stamp) # {},
         PairUsable(InterpolatedRear(front_samples[1].stamp), front_samples[1])
  PROVE  LET made == MadeOf(InterpolatedRear(front_samples[1].stamp), front_samples[1]) IN
         /\ made \in Pairs /\ made.oneLap /\ made.usable
         /\ made.spread <= SyncTolerance \/ made.spread <= MaxInterpolationGap
         /\ made.age <= MaxDelay + Wait
<1> DEFINE f == front_samples[1]
           rears == InterpolatedRear(f.stamp)
           made == MadeOf(rears, f)
<1>1. 1 \in DOMAIN front_samples
  <2>1. Len(front_samples) # 0 BY DEF TypeOK
  <2> QED BY <2>1, SampleTypes
<1>2. f.stamp \in 0..BagEnd /\ f.held \in Nat /\ AgeOf(f) \in Int BY <1>1, SampleTypes
<1>3. rears # {} OBVIOUS
<1>4. PICK a, b \in 1..Len(rear_samples) :
           /\ rears = {rear_samples[a], rear_samples[b]}
           /\ \/ a = b /\ Abs(rear_samples[a].stamp - f.stamp) <= SyncTolerance
              \/ /\ rear_samples[a].stamp <= f.stamp /\ f.stamp <= rear_samples[b].stamp
                 /\ rear_samples[b].stamp - rear_samples[a].stamp <= MaxInterpolationGap
  <2> HIDE DEF f
  <2> QED BY <1>2, <1>3, Interpolated DEF TypeOK
<1>5. a \in DOMAIN rear_samples /\ b \in DOMAIN rear_samples BY SampleTypes
<1>6. rear_samples[a].lap = f.lap /\ rear_samples[b].lap = f.lap BY <1>4, <1>5, PairLaps
<1>7. /\ rear_samples[a].stamp \in Nat /\ rear_samples[b].stamp \in Nat
      /\ AgeOf(rear_samples[a]) \in Int
  BY <1>5, SampleTypes, Limits
<1>8. /\ made.age = AgeOf(f)
      /\ made.spread = CHOOSE d \in {Abs(r.stamp - f.stamp) : r \in rears} :
                         \A r \in rears : Abs(r.stamp - f.stamp) <= d
      /\ made.oneLap = (\A r \in rears : r.lap = f.lap)
      /\ made.usable = (f.usable /\ \A r \in rears : r.usable)
      /\ made = [age |-> made.age, spread |-> made.spread, oneLap |-> made.oneLap, usable |-> made.usable]
  BY DEF MadeOf
<1> HIDE DEF rears, made, f
<1>9. made.oneLap = TRUE BY <1>4, <1>6, <1>8
<1>10. made.usable = TRUE BY <1>8 DEF PairUsable, f, rears
<1>11. /\ made.spread \in Int
       /\ made.spread <= SyncTolerance \/ made.spread <= MaxInterpolationGap
  <2> DEFINE away(r) == Abs(r.stamp - f.stamp)
             x == away(rear_samples[a])
             y == away(rear_samples[b])
  <2>1. x \in Nat /\ y \in Nat
    <3>1. f.stamp \in Int BY <1>2, Limits
    <3>2. rear_samples[a].stamp \in Int /\ rear_samples[b].stamp \in Int BY <1>7
    <3>3. Abs(rear_samples[a].stamp - f.stamp) \in Nat BY <3>1, <3>2, AbsNat
    <3>4. Abs(rear_samples[b].stamp - f.stamp) \in Nat BY <3>1, <3>2, AbsNat
    <3> QED BY <3>3, <3>4
  <2>2. \/ x <= SyncTolerance /\ y <= SyncTolerance
        \/ x <= MaxInterpolationGap /\ y <= MaxInterpolationGap
    <3>1. f.stamp \in Nat BY <1>2, Limits
    <3>2. CASE a = b /\ Abs(rear_samples[a].stamp - f.stamp) <= SyncTolerance BY <3>2
    <3>3. CASE /\ rear_samples[a].stamp <= f.stamp /\ f.stamp <= rear_samples[b].stamp
               /\ rear_samples[b].stamp - rear_samples[a].stamp <= MaxInterpolationGap
      <4>1. /\ rear_samples[a].stamp - f.stamp <= 0 /\ rear_samples[b].stamp - f.stamp >= 0
            /\ f.stamp - rear_samples[a].stamp <= MaxInterpolationGap
            /\ rear_samples[b].stamp - f.stamp <= MaxInterpolationGap
        BY <1>7, <3>1, <3>3, Limits
      <4>2. x = f.stamp - rear_samples[a].stamp /\ y = rear_samples[b].stamp - f.stamp
        BY <1>7, <3>1, <4>1 DEF Abs
      <4> QED BY <4>1, <4>2
    <3> QED BY <1>4, <3>2, <3>3
  <2>3. made.spread = CHOOSE d \in {away(r) : r \in rears} : \A r \in rears : away(r) <= d
    BY <1>8
  <2> HIDE DEF away
  <2>4. \E d \in {away(r) : r \in rears} : \A r \in rears : away(r) <= d
    <3>1. CASE x <= y BY <1>4, <2>1, <3>1
    <3>2. CASE y <= x BY <1>4, <2>1, <3>2
    <3> QED BY <2>1, <3>1, <3>2
  <2>5. made.spread \in {away(r) : r \in rears} BY <2>3, <2>4
  <2>6. made.spread \in {x, y} BY <1>4, <2>5
  <2> QED BY <2>1, <2>2, <2>6
<1>12. AgeOf(f) <= MaxDelay + Wait
  <2>1. Wait \in Nat /\ PairWait <= Wait /\ SyncTolerance <= Wait BY Limits DEF Wait
  <2>2. CASE Ready
    <3>1. f.held <= PairWait BY <1>1, <2>2 DEF Ready, f
    <3>2. AgeOf(f) <= f.held + MaxDelay BY <1>1, <1>2, <3>1, Limits DEF HeldInv, f
    <3> QED BY <1>2, <2>1, <3>1, <3>2, Limits
  <2>3. CASE Len(rear_samples) = 1 /\ AgeOf(rear_samples[1]) <= MaxDelay
    <3>1. a = 1 /\ b = 1 BY <2>3
    <3>2. f.stamp \in Int /\ SyncTolerance \in Nat /\ MaxDelay \in Nat BY <1>2, Limits
    <3>3. Abs(rear_samples[a].stamp - f.stamp) <= SyncTolerance
      <4>1. CASE a = b /\ Abs(rear_samples[a].stamp - f.stamp) <= SyncTolerance BY <4>1
      <4>2. CASE rear_samples[a].stamp <= f.stamp /\ f.stamp <= rear_samples[b].stamp
        <5>1. rear_samples[a].stamp - f.stamp = 0 BY <1>7, <3>1, <3>2, <4>2
        <5> QED BY <3>2, <5>1 DEF Abs
      <4> QED BY <1>4, <4>1, <4>2
    <3>4. rear_samples[a].stamp - f.stamp <= SyncTolerance BY <1>7, <3>2, <3>3 DEF Abs
    <3>5. AgeOf(f) = AgeOf(rear_samples[a]) + rear_samples[a].stamp - f.stamp
      <4>1. src \in Int /\ BagEnd \in Int BY Limits DEF TypeOK
      <4> QED BY <1>6, <1>7, <3>2, <4>1, AgeShift
    <3>6. AgeOf(rear_samples[a]) <= MaxDelay BY <2>3, <3>1
    <3>7. AgeOf(f) <= MaxDelay + SyncTolerance BY <1>7, <3>2, <3>4, <3>5, <3>6
    <3> QED BY <1>2, <2>1, <3>2, <3>7
  <2> QED BY <2>2, <2>3 DEF HeldInv
<1>13. made \in Pairs
  <2>1. made.age \in Int BY <1>2, <1>8
  <2> QED BY <1>8, <1>9, <1>10, <1>11, <2>1 DEF Pairs
<1>14. made.age <= MaxDelay + Wait BY <1>8, <1>12
<1> QED BY <1>9, <1>10, <1>11, <1>13, <1>14 DEF made, rears, f
LEMMA FewerSamples ==
  ASSUME LastInv, LapInv, UNCHANGED <<src, lap, measured, last_input>>,
         \A s \in Streams :
           /\ Samples(s) = <<>> => Samples(s)' = <<>>
           /\ \A i \in DOMAIN Samples(s)' :
                \E j \in DOMAIN Samples(s) : Samples(s)'[i] = Samples(s)[j]
  PROVE  LastInv' /\ LapInv'
<1>1. \A s \in Streams : New(s)' = New(s) BY DEF New
<1>2. LastInv' BY <1>1 DEF LastInv
<1>3. LapInv'
  <2> SUFFICES ASSUME NEW s \in Streams, NEW i \in DOMAIN Samples(s)'
               PROVE  (/\ New(s)  => Samples(s)[i].lap = lap /\ Samples(s)[i].stamp <= src
                       /\ ~New(s) => Samples(s)[i].lap = 1 - lap
                       /\ \A t \in Streams : ~New(s) /\ (New(t) \/ last_input[t] = None) =>
                            Samples(s)[i].stamp > BagEnd - MaxDelay)'
    BY DEF LapInv
  <2>1. PICK j \in DOMAIN Samples(s) : Samples(s)'[i] = Samples(s)[j] OBVIOUS
  <2> QED BY <1>1, <2>1 DEF LapInv
<1> QED BY <1>2, <1>3

\* The loop ends with nothing left to do until a timer, a fix, or PairWait.
LEMMA LoopEnds ==
  ASSUME IInv, ProcessPending,
         front_samples = <<>> \/ rear_samples = <<>> \/ Waits(Head(front_samples))
  PROVE  IInv'
<1>1. /\ processing' = FALSE
      /\ UNCHANGED <<rear_samples, front_samples, yawVars, inputVars, last_input, due>>
  BY DEF ProcessPending
<1>2. UNCHANGED <<src, lap, measured, phase, raw, valid_age, valid_state, pair>>
  BY <1>1 DEF yawVars, inputVars
<1>3. TypeOK' BY <1>1, <1>2 DEF IInv, TypeOK
<1>4. \A s \in Streams : Samples(s)' = Samples(s) BY <1>1 DEF Samples
<1>5. LastInv' /\ LapInv' BY <1>1, <1>2, <1>4, FewerSamples DEF IInv
<1>6. ValidInv' /\ PairsMatch' BY <1>1, <1>2 DEF IInv, ValidInv, PairsMatch
<1>7. rear_samples = <<>> \/ \A i \in DOMAIN front_samples : front_samples[i].held < PairWait
  <2> SUFFICES ASSUME rear_samples # <<>>, NEW i \in DOMAIN front_samples
               PROVE  front_samples[i].held < PairWait
    OBVIOUS
  <2>1. TypeOK /\ HeldInv BY DEF IInv
  <2>2. i \in 1..Len(front_samples) /\ Len(front_samples) \in Nat BY <2>1, SampleTypes
  <2>3. front_samples # <<>> /\ 1 \in DOMAIN front_samples BY <2>1, <2>2, SampleTypes
  <2>4. Head(front_samples) = front_samples[1] BY <2>1, <2>3 DEF TypeOK
  <2>5. front_samples[1].held < PairWait BY <2>3, <2>4 DEF Waits
  <2>6. i = 1 \/ front_samples[1].held >= front_samples[i].held BY <2>1, <2>2, <2>3 DEF HeldInv
  <2>7. front_samples[1].held \in Nat /\ front_samples[i].held \in Nat
    BY <2>1, <2>3, SampleTypes
  <2> QED BY <2>5, <2>6, <2>7, Limits
<1>8. rear_samples = <<>> \/ Ready
  <2>1. \A i \in DOMAIN front_samples : front_samples[i].held \in Nat BY SampleTypes DEF IInv
  <2> QED BY <1>7, <2>1, Limits DEF Ready
<1>9. \A i \in DOMAIN front_samples : AgeOf(front_samples[i])' = AgeOf(front_samples[i])
  BY <1>1, <1>2 DEF AgeOf
<1>10. Ready' = Ready BY <1>1 DEF Ready
<1>11. HeldInv' BY <1>1, <1>7, <1>8, <1>9, <1>10 DEF IInv, HeldInv
<1> QED BY <1>3, <1>5, <1>6, <1>11 DEF IInv

\* One turn: the first front sample goes, with or without its pair.
LEMMA LoopTurns ==
  ASSUME IInv, ProcessPending,
         ~(front_samples = <<>> \/ rear_samples = <<>> \/ Waits(Head(front_samples)))
  PROVE  IInv'
<1> DEFINE f == front_samples[1]
           rears == InterpolatedRear(f.stamp)
<1>1. TypeOK /\ LastInv /\ LapInv /\ HeldInv /\ ValidInv /\ PairsMatch BY DEF IInv
<1>2. Head(front_samples) = f BY <1>1 DEF TypeOK
<1>3. /\ front_samples' = Tail(front_samples) /\ processing /\ processing' = processing
      /\ IF rears = {} THEN UNCHANGED <<rear_samples, yawVars>>
         ELSE ProcessPair(rears, f) /\ rear_samples' = Pruned(f.stamp)
      /\ UNCHANGED <<src, lap, measured, phase, last_input, due>>
  BY <1>2 DEF ProcessPending, inputVars
<1>4. 1 \in DOMAIN front_samples
  <2>1. Len(front_samples) # 0 BY <1>1 DEF TypeOK
  <2> QED BY <1>1, <2>1, SampleTypes
<1>5. f.stamp \in 0..BagEnd /\ f \in Fronts /\ (f.usable => f.yaw \in Yaws) BY <1>1, <1>4, SampleTypes
<1> HIDE DEF f
<1>6. /\ front_samples' \in Seq(Fronts) /\ Len(front_samples') = Len(front_samples) - 1
      /\ DOMAIN front_samples' = 1..(Len(front_samples) - 1)
      /\ \A i \in DOMAIN front_samples' :
           i + 1 \in DOMAIN front_samples /\ front_samples'[i] = front_samples[i + 1]
  <2>1. front_samples \in Seq(Fronts) /\ front_samples # <<>> BY <1>1 DEF TypeOK
  <2>2. /\ front_samples' \in Seq(Fronts) /\ Len(front_samples') = Len(front_samples) - 1
        /\ \A i \in 1..Len(front_samples') : front_samples'[i] = front_samples[i + 1]
    BY <1>3, <2>1, HeadTailProperties
  <2>3. DOMAIN front_samples' = 1..Len(front_samples') BY <2>2
  <2> QED BY <1>1, <2>2, <2>3, SampleTypes
<1>7. /\ rear_samples' \in Seq(Rears)
      /\ \A i \in DOMAIN rear_samples' : \E j \in DOMAIN rear_samples : rear_samples'[i] = rear_samples[j]
      /\ Len(rear_samples) = 1 => rear_samples' = rear_samples
  <2>1. rear_samples \in Seq(Rears) BY <1>1 DEF TypeOK
  <2>2. CASE rears = {} BY <1>3, <2>1, <2>2
  <2>3. CASE rears # {} BY <1>3, <1>5, <2>1, <2>3, PrunedSamples
  <2> QED BY <2>2, <2>3
<1>8. LastInv' /\ LapInv'
  <2>1. ASSUME NEW s \in Streams
        PROVE  /\ Samples(s) # <<>>
               /\ \A i \in DOMAIN Samples(s)' :
                    \E j \in DOMAIN Samples(s) : Samples(s)'[i] = Samples(s)[j]
    <3>1. CASE s = "rear" BY <1>7, <3>1 DEF Samples
    <3>2. CASE s = "front" BY <1>6, <3>2 DEF Samples
    <3> QED BY <3>1, <3>2 DEF Streams
  <2> QED BY <1>1, <1>3, <2>1, FewerSamples
<1>9. HeldInv'
  <2>1. \A i \in DOMAIN front_samples' : AgeOf(front_samples[i])' = AgeOf(front_samples[i + 1])
    BY <1>3, <1>6 DEF AgeOf
  <2>2. \A i, j \in DOMAIN front_samples' : i < j => front_samples'[i].held >= front_samples'[j].held
    <3>1. \A i, j \in DOMAIN front_samples' : i < j => i + 1 < j + 1 BY <1>6
    <3> QED BY <1>1, <1>6, <3>1 DEF HeldInv
  <2>3. Ready => Ready' BY <1>6 DEF Ready
  <2>4. Len(rear_samples) = 1 /\ AgeOf(rear_samples[1]) <= MaxDelay =>
          Len(rear_samples') = 1 /\ AgeOf(rear_samples[1])' <= MaxDelay
    BY <1>3, <1>7 DEF AgeOf
  <2>5. (rear_samples = <<>> \/ Ready \/ (processing /\ Len(rear_samples) = 1
                                       /\ AgeOf(rear_samples[1]) <= MaxDelay))'
    BY <1>1, <1>3, <2>3, <2>4 DEF HeldInv
  <2>6. \A i \in DOMAIN front_samples' : front_samples'[i].held <= PairWait + 1 =>
          AgeOf(front_samples[i])' <= front_samples'[i].held + MaxDelay
    BY <1>1, <1>6, <2>1 DEF HeldInv
  <2> QED BY <1>3, <2>2, <2>5, <2>6 DEF HeldInv
<1>10. CASE UNCHANGED yawVars
  <2>1. TypeOK' BY <1>1, <1>3, <1>6, <1>7, <1>10 DEF TypeOK, yawVars
  <2>2. ValidInv' /\ PairsMatch' BY <1>1, <1>3, <1>10 DEF ValidInv, PairsMatch, yawVars
  <2> QED BY <1>8, <1>9, <2>1, <2>2 DEF IInv
<1>11. CASE ~UNCHANGED yawVars
  <2>1. rears # {} /\ ProcessPair(rears, f) BY <1>3, <1>11
  <2>2. /\ PairUsable(rears, f)
        /\ raw' = [yaw |-> f.yaw, stamp |-> f.stamp] /\ valid_age' = 0 /\ valid_state' = TRUE
        /\ pair' = MadeOf(rears, f)
    BY <1>11, <2>1 DEF ProcessPair
  <2>3. /\ pair' \in Pairs /\ pair'.oneLap /\ pair'.usable
        /\ pair'.spread <= SyncTolerance \/ pair'.spread <= MaxInterpolationGap
        /\ pair'.age <= MaxDelay + Wait
    BY <1>1, <2>1, <2>2, PairFacts DEF f
  <2>4. raw' \in Accepted BY <1>5, <2>2 DEF Accepted, PairUsable
  <2>5. TypeOK' BY <1>1, <1>3, <1>6, <1>7, <2>2, <2>3, <2>4 DEF TypeOK
  <2>6. raw' # None /\ pair' # None /\ valid_age' # None BY <2>2, <2>3, <2>4, Limits
  <2>7. ValidInv'
    <3>1. Wait \in Nat /\ Wait' = Wait /\ ShownBound = HeadingTimeout + StatusPeriod
      BY Limits DEF Wait, ShownBound
    <3>2. phase \in 1..StatusPeriod /\ phase' = phase BY <1>1, <1>3 DEF TypeOK
    <3>3. pair'.age <= valid_age' + MaxDelay + Wait BY <2>2, <2>3, <3>1, Limits
    <3>4. valid_age' + phase' <= ShownBound BY <2>2, <3>1, <3>2, Limits
    <3> QED BY <2>2, <2>6, <3>3, <3>4 DEF ValidInv
  <2>8. PairsMatch' BY <2>3 DEF PairsMatch
  <2> QED BY <1>8, <1>9, <2>5, <2>7, <2>8 DEF IInv
<1> QED BY <1>10, <1>11
-----------------------------------------------------------------------------
(* Timers and time.                                                        *)

LEMMA TimerNext == ASSUME IInv, ProcessTimer PROVE IInv'
<1>1. /\ ~processing /\ processing' = TRUE /\ due' = due \ {"process"}
      /\ UNCHANGED <<src, lap, measured, phase, rear_samples, front_samples, last_input,
                     raw, valid_age, valid_state, pair>>
  BY DEF ProcessTimer, inputVars, yawVars
<1>2. TypeOK' BY <1>1 DEF IInv, TypeOK
<1>3. \A s \in Streams : Samples(s)' = Samples(s) BY <1>1 DEF Samples
<1>4. LastInv' /\ LapInv' BY <1>1, <1>3, FewerSamples DEF IInv
<1>5. \A i \in DOMAIN front_samples : AgeOf(front_samples[i])' = AgeOf(front_samples[i])
  BY <1>1 DEF AgeOf
<1>6. Ready' = Ready BY <1>1 DEF Ready
<1>7. HeldInv' BY <1>1, <1>5, <1>6 DEF IInv, HeldInv
<1>8. ValidInv' /\ PairsMatch' BY <1>1 DEF IInv, ValidInv, PairsMatch
<1> QED BY <1>2, <1>4, <1>7, <1>8 DEF IInv

LEMMA StatusNext == ASSUME IInv, PublishStatus PROVE IInv'
<1> DEFINE current == valid_age # None /\ valid_age <= HeadingTimeout
<1>1. /\ due' = due \ {"status"} /\ valid_state' = current
      /\ raw' = IF current # valid_state THEN (IF current THEN raw ELSE None) ELSE raw
      /\ UNCHANGED <<src, lap, measured, phase, rear_samples, front_samples, last_input,
                     valid_age, pair, processing>>
  BY DEF PublishStatus, AfterTimeout, inputVars
<1>2. current => valid_state BY DEF IInv, ValidInv
<1>3. raw' = IF current THEN raw ELSE None BY <1>1, <1>2 DEF IInv, ValidInv, TypeOK
<1>4. TypeOK' BY <1>1, <1>3 DEF IInv, TypeOK
<1>5. \A s \in Streams : Samples(s)' = Samples(s) BY <1>1 DEF Samples
<1>6. LastInv' /\ LapInv' BY <1>1, <1>5, FewerSamples DEF IInv
<1>7. \A i \in DOMAIN front_samples : AgeOf(front_samples[i])' = AgeOf(front_samples[i])
  BY <1>1 DEF AgeOf
<1>8. Ready' = Ready /\ ("process" \notin due' <=> "process" \notin due) BY <1>1 DEF Ready
<1>9. HeldInv'
  <2>1. \A i \in DOMAIN front_samples' : /\ AgeOf(front_samples[i])' = AgeOf(front_samples[i])
                                       /\ front_samples'[i] = front_samples[i]
    BY <1>1, <1>7
  <2>2. AgeOf(rear_samples[1])' = AgeOf(rear_samples[1]) BY <1>1 DEF AgeOf
  <2> QED BY <1>1, <1>8, <2>1, <2>2 DEF IInv, HeldInv
<1>10. PairsMatch' BY <1>1 DEF IInv, PairsMatch
<1>11. ValidInv'
  <2>1. raw' # None <=> valid_state' BY <1>1, <1>2, <1>3 DEF IInv, ValidInv
  <2>2. valid_state' => valid_age + phase <= ShownBound
    <3>1. valid_state' => valid_age \in Nat /\ valid_age <= HeadingTimeout BY <1>1 DEF IInv, TypeOK
    <3>2. phase \in 1..StatusPeriod BY DEF IInv, TypeOK
    <3> QED BY <3>1, <3>2, Limits DEF ShownBound
  <2> QED BY <1>1, <1>2, <2>1, <2>2 DEF IInv, ValidInv
<1> QED BY <1>4, <1>6, <1>9, <1>10, <1>11 DEF IInv

\* A tick in the middle of a play, and one that begins another.
LEMMA TickLaps ==
  ASSUME TypeOK, LastInv, LapInv,
         src \in {MaxSilence, BagEnd} => \A s \in Streams : measured[s] <= MaxSilence,
         src' = IF src = BagEnd THEN 0 ELSE src + 1,
         lap' = IF src = BagEnd THEN 1 - lap ELSE lap,
         measured' = [s \in Streams |-> Capped(measured[s] + 1, MaxSilence + MaxDelay + 1)],
         last_input' = last_input,
         \A s \in Streams :
           /\ Samples(s) = <<>> => Samples(s)' = <<>>
           /\ DOMAIN Samples(s)' = DOMAIN Samples(s)
           /\ \A i \in DOMAIN Samples(s) : /\ Samples(s)'[i].stamp = Samples(s)[i].stamp
                                          /\ Samples(s)'[i].lap = Samples(s)[i].lap
                                          /\ Samples(s)[i].stamp \in 0..BagEnd
  PROVE  LastInv' /\ LapInv'
<1>0. /\ MaxSilence \in Nat /\ MaxDelay \in Nat /\ JumpThreshold \in Nat /\ BagEnd \in Nat
      /\ BagEnd > 2 * MaxSilence + JumpThreshold
  BY Limits
<1>1. /\ src \in 0..BagEnd /\ lap \in {0, 1}
      /\ \A s \in Streams : measured[s] \in Nat /\ last_input[s] \in 0..BagEnd \cup {None}
  BY DEF TypeOK
<1>2. /\ measured \in [Streams -> Nat] /\ measured' \in [Streams -> Nat]
      /\ \A s \in Streams :
           /\ measured'[s] <= measured[s] + 1
           /\ measured'[s] = measured[s] + 1 \/ measured'[s] > MaxSilence
           /\ measured[s] <= MaxSilence => measured'[s] = measured[s] + 1
           /\ measured'[s] > 0
  <2>1. measured \in [Streams -> Nat] BY DEF TypeOK
  <2>2. \A s \in Streams : Capped(measured[s] + 1, MaxSilence + MaxDelay + 1) \in Nat
    BY <1>0, <2>1 DEF Capped
  <2>3. measured' \in [Streams -> Nat] BY <2>2
  <2>4. ASSUME NEW s \in Streams
        PROVE  /\ measured'[s] <= measured[s] + 1
               /\ measured'[s] = measured[s] + 1 \/ measured'[s] > MaxSilence
               /\ measured[s] <= MaxSilence => measured'[s] = measured[s] + 1
               /\ measured'[s] > 0
    <3>1. measured'[s] = Capped(measured[s] + 1, MaxSilence + MaxDelay + 1) OBVIOUS
    <3>2. measured[s] \in Nat BY <2>1
    <3> QED BY <1>0, <3>1, <3>2 DEF Capped
  <2> QED BY <2>1, <2>3, <2>4
<1>3. CASE src # BagEnd
  <2>1. src' = src + 1 /\ lap' = lap BY <1>3
  <2>2. \A s \in Streams : New(s)' = New(s)
    <3> SUFFICES ASSUME NEW s \in Streams PROVE New(s)' = New(s)
      OBVIOUS
    <3>0. /\ measured[s] \in Nat /\ measured'[s] \in Nat /\ measured'[s] <= measured[s] + 1
          /\ measured'[s] = measured[s] + 1 \/ measured'[s] > MaxSilence
      BY <1>1, <1>2
    <3>1. CASE New(s) BY <1>1, <2>1, <3>0, <3>1 DEF New
    <3>2. CASE ~New(s)
      <4>1. src <= MaxSilence /\ src # MaxSilence BY <1>0, <1>1, <3>0, <3>2 DEF LastInv, New
      <4> QED BY <1>0, <1>1, <2>1, <3>0, <3>2, <4>1 DEF New
    <3> QED BY <3>1, <3>2
  <2>3. \A s \in Streams : src' > MaxSilence => New(s)
    <3> SUFFICES ASSUME NEW s \in Streams, src' > MaxSilence PROVE New(s)
      OBVIOUS
    <3>1. src > MaxSilence \/ src = MaxSilence BY <1>0, <1>1, <2>1
    <3> QED BY <1>1, <3>1 DEF LastInv, New
  <2>4. LastInv'
    <3> SUFFICES ASSUME NEW s \in Streams
                 PROVE  (/\ src > MaxSilence => New(s)
                         /\ last_input[s] = None => Samples(s) = <<>>
                         /\ last_input[s] = None /\ src > MaxSilence =>
                              measured[s] >= src - MaxSilence \/ measured[s] > MaxSilence
                         /\ last_input[s] # None /\ New(s) =>
                              /\ last_input[s] <= src - measured[s]
                              /\ measured[s] <= MaxSilence => last_input[s] = src - measured[s]
                         /\ last_input[s] # None /\ ~New(s) =>
                              /\ last_input[s] > MaxSilence + JumpThreshold
                              /\ last_input[s] <= src + BagEnd + 1 - measured[s])'
      BY DEF LastInv
    <3>0. /\ measured[s] \in Nat /\ measured'[s] \in Nat /\ measured'[s] <= measured[s] + 1
          /\ measured'[s] = measured[s] + 1 \/ measured'[s] > MaxSilence
          /\ measured'[s] > 0 /\ last_input[s] \in 0..BagEnd \cup {None} /\ last_input' = last_input
      BY <1>1, <1>2
    <3>1. (src > MaxSilence => New(s))' BY <2>2, <2>3
    <3>2. (last_input[s] = None => Samples(s) = <<>>)' BY DEF LastInv
    <3>3. (last_input[s] = None /\ src > MaxSilence =>
             measured[s] >= src - MaxSilence \/ measured[s] > MaxSilence)'
      <4> SUFFICES ASSUME last_input[s] = None, src' > MaxSilence
                   PROVE  measured'[s] >= src' - MaxSilence \/ measured'[s] > MaxSilence
        OBVIOUS
      <4>1. CASE src = MaxSilence BY <1>0, <1>1, <2>1, <3>0, <4>1
      <4>2. CASE src > MaxSilence
        <5>1. measured[s] >= src - MaxSilence \/ measured[s] > MaxSilence BY <4>2 DEF LastInv
        <5> QED BY <1>0, <1>1, <2>1, <3>0, <5>1
      <4> QED BY <1>0, <1>1, <2>1, <4>1, <4>2
    <3>4. (last_input[s] # None /\ New(s) =>
             /\ last_input[s] <= src - measured[s]
             /\ measured[s] <= MaxSilence => last_input[s] = src - measured[s])'
      <4> SUFFICES ASSUME last_input[s] # None, New(s)
                   PROVE  /\ last_input[s] <= src' - measured'[s]
                          /\ measured'[s] <= MaxSilence => last_input[s] = src' - measured'[s]
        BY <2>2
      <4>1. /\ last_input[s] <= src - measured[s]
            /\ measured[s] <= MaxSilence => last_input[s] = src - measured[s]
        BY DEF LastInv
      <4>2. last_input[s] \in Nat BY <1>0, <3>0
      <4>3. /\ measured[s] \in Nat /\ measured'[s] \in Nat /\ measured'[s] <= measured[s] + 1
            /\ measured'[s] = measured[s] + 1 \/ measured'[s] > MaxSilence
        BY <3>0
      <4>4. src \in Int BY <1>0, <1>1
      <4>5. last_input[s] <= src' - measured'[s] BY <2>1, <4>1, <4>2, <4>3, <4>4
      <4>6. ASSUME measured'[s] <= MaxSilence PROVE last_input[s] = src' - measured'[s]
        <5>1. measured'[s] = measured[s] + 1 /\ measured[s] <= MaxSilence BY <1>0, <4>3, <4>6
        <5> QED BY <2>1, <4>1, <4>2, <4>3, <4>4, <5>1
      <4> QED BY <4>5, <4>6
    <3>5. (last_input[s] # None /\ ~New(s) =>
             /\ last_input[s] > MaxSilence + JumpThreshold
             /\ last_input[s] <= src + BagEnd + 1 - measured[s])'
      <4> SUFFICES ASSUME last_input[s] # None, ~New(s)
                   PROVE  /\ last_input[s] > MaxSilence + JumpThreshold
                          /\ last_input[s] <= src' + BagEnd + 1 - measured'[s]
        BY <2>2
      <4>1. /\ last_input[s] > MaxSilence + JumpThreshold
            /\ last_input[s] <= src + BagEnd + 1 - measured[s]
        BY DEF LastInv
      <4>2. last_input[s] \in Nat BY <1>0, <3>0
      <4> QED BY <1>0, <1>1, <2>1, <3>0, <4>1, <4>2
    <3> QED BY <3>1, <3>2, <3>3, <3>4, <3>5
  <2>5. LapInv'
    <3> SUFFICES ASSUME NEW s \in Streams, NEW i \in DOMAIN Samples(s)
                 PROVE  (/\ New(s)  => Samples(s)[i].lap = lap /\ Samples(s)[i].stamp <= src
                         /\ ~New(s) => Samples(s)[i].lap = 1 - lap
                         /\ \A t \in Streams : ~New(s) /\ (New(t) \/ last_input[t] = None) =>
                              Samples(s)[i].stamp > BagEnd - MaxDelay)'
      BY DEF LapInv
    <3>1. New(s) => Samples(s)[i].stamp <= src' BY <1>1, <2>1 DEF LapInv
    <3> QED BY <2>1, <2>2, <3>1 DEF LapInv
  <2> QED BY <2>4, <2>5
<1>4. CASE src = BagEnd
  <2>1. src' = 0 /\ lap' = 1 - lap /\ src > MaxSilence BY <1>0, <1>4
  <2>2. \A s \in Streams : ~New(s)'
    <3> SUFFICES ASSUME NEW s \in Streams PROVE ~New(s)'
      OBVIOUS
    <3>1. measured'[s] \in Nat /\ measured'[s] > 0 BY <1>2
    <3> QED BY <2>1, <3>1 DEF New
  <2>3. ASSUME NEW s \in Streams
        PROVE  /\ New(s) /\ measured[s] <= MaxSilence /\ measured'[s] = measured[s] + 1
               /\ last_input[s] # None /\ last_input[s] = BagEnd - measured[s]
    <3>1. New(s) /\ measured[s] <= MaxSilence BY <1>4, <2>1 DEF LastInv
    <3>2. last_input[s] # None
      <4> SUFFICES ASSUME last_input[s] = None PROVE FALSE
        OBVIOUS
      <4>1. measured[s] >= src - MaxSilence \/ measured[s] > MaxSilence BY <2>1 DEF LastInv
      <4>2. measured[s] \in Nat BY <1>1
      <4> QED BY <1>0, <1>4, <3>1, <4>1, <4>2
    <3> QED BY <1>2, <1>4, <3>1, <3>2 DEF LastInv
  <2>4. LastInv'
    <3> SUFFICES ASSUME NEW s \in Streams
                 PROVE  /\ last_input[s] > MaxSilence + JumpThreshold
                        /\ last_input[s] <= 0 + BagEnd + 1 - measured'[s]
      <4>1. last_input' = last_input /\ ~(src' > MaxSilence) BY <1>0, <2>1
      <4> QED BY <2>1, <2>2, <2>3, <4>1 DEF LastInv
    <3>1. measured[s] \in Nat /\ measured[s] <= MaxSilence /\ measured'[s] = measured[s] + 1
          /\ last_input[s] = BagEnd - measured[s]
      BY <1>1, <2>3
    <3> QED BY <1>0, <3>1
  <2>5. LapInv'
    <3> SUFFICES ASSUME NEW s \in Streams, NEW i \in DOMAIN Samples(s)
                 PROVE  Samples(s)[i].lap = 1 - lap'
      BY <2>2, <2>3 DEF LapInv
    <3>1. Samples(s)[i].lap = lap BY <2>3 DEF LapInv
    <3> QED BY <1>1, <2>1, <3>1
  <2> QED BY <2>4, <2>5
<1> QED BY <1>3, <1>4
LEMMA ModSmall ==
  ASSUME NEW W \in Nat \ {0}, NEW x \in Nat, x < W
  PROVE  x % W = x
OBVIOUS

LEMMA ModSelf == \A W \in Nat \ {0} : W % W = 0
OBVIOUS

LEMMA TickNext == ASSUME IInv, Tick PROVE IInv'
<1>1. TypeOK /\ LastInv /\ LapInv /\ HeldInv /\ ValidInv /\ PairsMatch BY DEF IInv
<1>2. /\ ~processing /\ due = {}
      /\ src \in {MaxSilence, BagEnd} => \A s \in Streams : measured[s] <= MaxSilence
      /\ src' = (src + 1) % (BagEnd + 1)
      /\ lap' = IF src = BagEnd THEN 1 - lap ELSE lap
      /\ measured' = [s \in Streams |-> Capped(measured[s] + 1, MaxSilence + MaxDelay + 1)]
      /\ front_samples' = [i \in DOMAIN front_samples |->
                            [front_samples[i] EXCEPT !.held = Capped(@ + 1, PairWait + 2)]]
      /\ valid_age' = IF valid_age = None THEN None ELSE Capped(valid_age + 1, ShownBound + 2)
      /\ pair' = IF pair = None THEN None ELSE [pair EXCEPT !.age = Capped(@ + 1, AgeBound + 1)]
      /\ phase' = IF phase = 1 THEN StatusPeriod ELSE phase - 1
      /\ due' = {"process"} \cup (IF phase = 1 THEN {"status"} ELSE {})
      /\ UNCHANGED <<rear_samples, last_input, raw, valid_state, processing>>
  BY DEF Tick
<1>3. src' = IF src = BagEnd THEN 0 ELSE src + 1
  <2>1. src \in 0..BagEnd /\ BagEnd \in Nat BY <1>1, Limits DEF TypeOK
  <2>2. BagEnd + 1 \in Nat \ {0} BY <2>1
  <2>3. CASE src = BagEnd BY <1>2, <2>2, <2>3, ModSelf
  <2>4. CASE src # BagEnd
    <3>1. src + 1 \in Nat /\ src + 1 < BagEnd + 1 BY <2>1, <2>4
    <3>2. (src + 1) % (BagEnd + 1) = src + 1 BY <2>2, <3>1, ModSmall
    <3> QED BY <1>2, <2>4, <3>2
  <2> QED BY <2>3, <2>4
<1>4. /\ front_samples' \in Seq(Fronts) /\ DOMAIN front_samples' = DOMAIN front_samples
      /\ \A i \in DOMAIN front_samples :
           /\ front_samples'[i].stamp = front_samples[i].stamp
           /\ front_samples'[i].lap = front_samples[i].lap
           /\ front_samples'[i].held = Capped(front_samples[i].held + 1, PairWait + 2)
  <2>1. DOMAIN front_samples = 1..Len(front_samples) /\ Len(front_samples) \in Nat
    BY <1>1, SampleTypes
  <2>2. ASSUME NEW i \in DOMAIN front_samples
        PROVE  /\ front_samples'[i] \in Fronts
               /\ front_samples'[i].stamp = front_samples[i].stamp
               /\ front_samples'[i].lap = front_samples[i].lap
               /\ front_samples'[i].held = Capped(front_samples[i].held + 1, PairWait + 2)
    <3> DEFINE h == Capped(front_samples[i].held + 1, PairWait + 2)
    <3>1. front_samples[i] \in Fronts BY <1>1, SampleTypes
    <3>2. front_samples'[i] = [front_samples[i] EXCEPT !.held = h] BY <1>2
    <3>3. h \in Nat
      <4>1. front_samples[i].held \in Nat BY <1>1, SampleTypes
      <4> QED BY <4>1, Limits DEF Capped
    <3> HIDE DEF h
    <3>4. [front_samples[i] EXCEPT !.held = h] \in Fronts BY <3>1, <3>3 DEF Fronts
    <3>5. /\ front_samples'[i].stamp = front_samples[i].stamp
          /\ front_samples'[i].lap = front_samples[i].lap /\ front_samples'[i].held = h
      BY <3>1, <3>2 DEF Fronts
    <3> QED BY <3>2, <3>4, <3>5 DEF h
  <2>3. front_samples' \in [1..Len(front_samples) -> Fronts] BY <1>2, <2>1, <2>2
  <2>4. front_samples' \in Seq(Fronts) BY <2>1, <2>3, SeqDef
  <2> QED BY <1>2, <2>2, <2>4
<1>5. LastInv' /\ LapInv'
  <2>1. \A s \in Streams :
          /\ Samples(s) = <<>> => Samples(s)' = <<>>
          /\ DOMAIN Samples(s)' = DOMAIN Samples(s)
          /\ \A i \in DOMAIN Samples(s) :
               /\ Samples(s)'[i].stamp = Samples(s)[i].stamp
               /\ Samples(s)'[i].lap = Samples(s)[i].lap
               /\ Samples(s)[i].stamp \in 0..BagEnd
    <3>1. front_samples = <<>> => front_samples' = <<>>
      <4> SUFFICES ASSUME front_samples = <<>> PROVE front_samples' = <<>>
        OBVIOUS
      <4>1. DOMAIN front_samples' = {} BY <1>4
      <4>2. Len(front_samples') \in Nat /\ DOMAIN front_samples' = 1..Len(front_samples')
        BY <1>4, LenProperties
      <4>3. Len(front_samples') = 0 BY <4>1, <4>2
      <4> QED BY <1>4, <4>3
    <3>2. rear_samples' = rear_samples BY <1>2
    <3> QED BY <1>1, <1>4, <3>1, <3>2, SampleTypes DEF Samples
  <2> QED BY <1>1, <1>2, <1>3, <2>1, TickLaps
<1>6. TypeOK'
  <2>1. src' \in 0..BagEnd /\ lap' \in {0, 1}
    <3>1. src \in 0..BagEnd /\ lap \in {0, 1} /\ BagEnd \in Nat BY <1>1, Limits DEF TypeOK
    <3>2. CASE src = BagEnd BY <1>2, <1>3, <3>1, <3>2
    <3>3. CASE src # BagEnd BY <1>2, <1>3, <3>1, <3>3
    <3> QED BY <3>2, <3>3
  <2>2. measured' \in [Streams -> Nat]
    <3>1. \A s \in Streams : measured[s] \in Nat BY <1>1 DEF TypeOK
    <3>2. \A s \in Streams : Capped(measured[s] + 1, MaxSilence + MaxDelay + 1) \in Nat
      BY <3>1, Limits DEF Capped
    <3> QED BY <1>2, <3>2
  <2>3. valid_age' \in Nat \cup {None}
    <3>1. CASE valid_age = None BY <1>2, <3>1
    <3>2. CASE valid_age \in Nat /\ valid_age # None
      <4>1. valid_age' = Capped(valid_age + 1, ShownBound + 2) BY <1>2, <3>2
      <4> QED BY <3>2, <4>1, Limits DEF Capped, ShownBound
    <3> QED BY <1>1, <3>1, <3>2 DEF TypeOK
  <2>4. pair' \in Pairs \cup {None}
    <3>1. CASE pair = None BY <1>2, <3>1
    <3>2. CASE pair \in Pairs
      <4>1. pair.age \in Int BY <3>2 DEF Pairs
      <4>2. Capped(pair.age + 1, AgeBound + 1) \in Int
        BY <4>1, Limits DEF Capped, AgeBound, ShownBound, Wait
      <4>3. pair' = [pair EXCEPT !.age = Capped(pair.age + 1, AgeBound + 1)]
        BY <1>2, <3>2, Limits
      <4> QED BY <3>2, <4>2, <4>3 DEF Pairs
    <3> QED BY <1>1, <3>1, <3>2 DEF TypeOK
  <2>5. phase' \in 1..StatusPeriod
    <3>1. phase \in 1..StatusPeriod /\ StatusPeriod \in Nat \ {0} BY <1>1, Limits DEF TypeOK
    <3>2. CASE phase = 1 BY <1>2, <3>1, <3>2
    <3>3. CASE phase # 1 BY <1>2, <3>1, <3>3
    <3> QED BY <3>2, <3>3
  <2> QED BY <1>1, <1>2, <1>4, <2>1, <2>2, <2>3, <2>4, <2>5 DEF TypeOK
<1>7. \A sample : sample.stamp \in 0..BagEnd => AgeOf(sample)' <= AgeOf(sample) + 1
  <2> SUFFICES ASSUME NEW sample, sample.stamp \in 0..BagEnd
               PROVE  AgeOf(sample)' <= AgeOf(sample) + 1
    OBVIOUS
  <2>1. src \in 0..BagEnd /\ lap \in {0, 1} /\ BagEnd \in Nat BY <1>1, Limits DEF TypeOK
  <2>2. AgeOf(sample)' = IF sample.lap = lap' THEN src' - sample.stamp
                         ELSE src' + BagEnd + 1 - sample.stamp
    BY DEF AgeOf
  <2>3. AgeOf(sample) = IF sample.lap = lap THEN src - sample.stamp
                        ELSE src + BagEnd + 1 - sample.stamp
    BY DEF AgeOf
  <2>4. sample.stamp \in Int BY <2>1
  <2>5. CASE src = BagEnd
    <3>1. src' = 0 /\ lap' = 1 - lap /\ lap' # lap BY <1>2, <1>3, <2>1, <2>5
    <3> QED BY <2>1, <2>2, <2>3, <2>4, <2>5, <3>1
  <2>6. CASE src # BagEnd
    <3>1. src' = src + 1 /\ lap' = lap BY <1>2, <1>3, <2>6
    <3> QED BY <2>1, <2>2, <2>3, <2>4, <3>1
  <2> QED BY <2>5, <2>6
<1>8. HeldInv'
  <2>1. \A i \in DOMAIN front_samples :
          /\ front_samples[i].held \in Nat /\ AgeOf(front_samples[i]) \in Int
          /\ front_samples[i].stamp \in 0..BagEnd
    BY <1>1, SampleTypes
  <2>2. \A i, j \in DOMAIN front_samples' : i < j => front_samples'[i].held >= front_samples'[j].held
    <3> SUFFICES ASSUME NEW i \in DOMAIN front_samples, NEW j \in DOMAIN front_samples, i < j
                 PROVE  front_samples'[i].held >= front_samples'[j].held
      BY <1>4
    <3>1. front_samples[i].held >= front_samples[j].held BY <1>1 DEF HeldInv
    <3> QED BY <1>4, <2>1, <3>1, Limits DEF Capped
  <2>3. \A i \in DOMAIN front_samples' : front_samples'[i].held <= PairWait + 1 =>
          AgeOf(front_samples[i])' <= front_samples'[i].held + MaxDelay
    <3> SUFFICES ASSUME NEW i \in DOMAIN front_samples, front_samples'[i].held <= PairWait + 1
                 PROVE  AgeOf(front_samples[i])' <= front_samples'[i].held + MaxDelay
      BY <1>4
    <3>1. front_samples'[i].held = front_samples[i].held + 1 /\ front_samples[i].held <= PairWait
      BY <1>4, <2>1, Limits DEF Capped
    <3>2. AgeOf(front_samples[i]) <= front_samples[i].held + MaxDelay
      BY <1>1, <2>1, <3>1, Limits DEF HeldInv
    <3>4. AgeOf(front_samples[i])' <= AgeOf(front_samples[i]) + 1
      <4>1. AgeOf(front_samples[i])' = IF front_samples'[i].lap = lap' THEN src' - front_samples'[i].stamp
                                       ELSE src' + BagEnd + 1 - front_samples'[i].stamp
        BY DEF AgeOf
      <4> DEFINE x == front_samples[i]
      <4>2. (IF x.lap = lap' THEN src' - x.stamp ELSE src' + BagEnd + 1 - x.stamp) <= AgeOf(x) + 1
        BY <1>7, <2>1 DEF AgeOf
      <4> QED BY <1>4, <4>1, <4>2
    <3>5. front_samples[i].held \in Nat /\ AgeOf(front_samples[i]) \in Int BY <2>1
    <3>6. AgeOf(front_samples[i])' \in Int
      <4>1. front_samples'[i].stamp \in Int BY <1>4, <2>1, Limits
      <4>2. src' \in Int /\ BagEnd \in Int BY <1>6, Limits DEF TypeOK
      <4>3. src' - front_samples'[i].stamp \in Int /\ src' + BagEnd + 1 - front_samples'[i].stamp \in Int
        BY <4>1, <4>2
      <4>4. front_samples'[i].stamp = front_samples[i].stamp /\ front_samples'[i].lap = front_samples[i].lap
        BY <1>4
      <4> QED BY <4>3, <4>4 DEF AgeOf
    <3> QED BY <3>1, <3>2, <3>4, <3>5, <3>6, Limits
  <2>4. (rear_samples = <<>> \/ Ready)'
    <3>1. rear_samples = <<>> \/ \A i \in DOMAIN front_samples : front_samples[i].held < PairWait
      BY <1>1, <1>2 DEF HeldInv
    <3>2. ASSUME \A i \in DOMAIN front_samples : front_samples[i].held < PairWait PROVE Ready'
      <4> SUFFICES ASSUME NEW i \in DOMAIN front_samples PROVE front_samples'[i].held <= PairWait
        BY <1>4 DEF Ready
      <4>1. front_samples[i].held < PairWait /\ front_samples[i].held \in Nat BY <2>1, <3>2
      <4> QED BY <1>4, <4>1, Limits DEF Capped
    <3> QED BY <1>2, <3>1, <3>2
  <2> QED BY <1>2, <2>2, <2>3, <2>4 DEF HeldInv
<1>9. ValidInv'
  <2> DEFINE W == MaxDelay + Wait
  <2>1. /\ ShownBound \in Nat /\ HeadingTimeout <= ShownBound /\ W \in Nat
        /\ AgeBound = ShownBound + W /\ StatusPeriod \in Nat /\ HeadingTimeout \in Nat
    BY Limits DEF ShownBound, Wait, AgeBound
  <2>2. phase \in 1..StatusPeriod BY <1>1 DEF TypeOK
  <2>3. raw' # None <=> valid_state' BY <1>1, <1>2 DEF ValidInv
  <2>4. valid_age' # None /\ valid_age' <= HeadingTimeout => valid_state'
    <3> SUFFICES ASSUME valid_age' # None, valid_age' <= HeadingTimeout PROVE valid_state
      BY <1>2
    <3>1. valid_age # None /\ valid_age \in Nat BY <1>1, <1>2 DEF TypeOK
    <3>2. valid_age' = Capped(valid_age + 1, ShownBound + 2) BY <1>2, <3>1
    <3>3. valid_age <= HeadingTimeout BY <2>1, <3>1, <3>2 DEF Capped
    <3> QED BY <1>1, <3>1, <3>3 DEF ValidInv
  <2>5. ASSUME valid_state'
        PROVE  /\ pair' # None /\ valid_age' # None
               /\ pair'.age <= valid_age' + MaxDelay + Wait
               /\ valid_age' + phase' <= ShownBound \/ ("status" \in due' /\ valid_age' <= ShownBound)
    <3>1. /\ pair # None /\ valid_age # None
          /\ pair.age <= valid_age + MaxDelay + Wait /\ valid_age + phase <= ShownBound
      BY <1>1, <1>2, <2>5 DEF ValidInv
    <3>2. valid_age \in Nat /\ pair \in Pairs /\ pair.age \in Int
      BY <1>1, <3>1 DEF TypeOK, Pairs
    <3>3. valid_age' = valid_age + 1 BY <1>2, <2>1, <2>2, <3>1, <3>2 DEF Capped
    <3>4. pair'.age = Capped(pair.age + 1, AgeBound + 1) /\ pair' # None
      <4>1. pair' = [pair EXCEPT !.age = Capped(pair.age + 1, AgeBound + 1)] BY <1>2, <3>1
      <4>2. pair'.age = Capped(pair.age + 1, AgeBound + 1) BY <3>2, <4>1 DEF Pairs
      <4>3. Capped(pair.age + 1, AgeBound + 1) \in Int BY <2>1, <3>2 DEF Capped
      <4>4. pair' \in Pairs BY <3>2, <4>1, <4>3 DEF Pairs
      <4> QED BY <4>2, <4>4, Limits
    <3>5. pair'.age <= valid_age' + MaxDelay + Wait
      <4>1. Wait \in Nat BY Limits DEF Wait
      <4> QED BY <2>1, <3>1, <3>2, <3>3, <3>4, <4>1, Limits DEF Capped
    <3>6. CASE phase = 1
      <4>1. "status" \in due' BY <1>2, <3>6
      <4>2. valid_age' <= ShownBound BY <2>1, <3>1, <3>2, <3>3, <3>6
      <4> QED BY <3>3, <3>2, <3>4, <3>5, <4>1, <4>2, Limits
    <3>7. CASE phase # 1
      <4>1. valid_age' + phase' <= ShownBound BY <1>2, <2>1, <2>2, <3>1, <3>2, <3>3, <3>7
      <4> QED BY <3>3, <3>2, <3>4, <3>5, <4>1, Limits
    <3> QED BY <3>6, <3>7
  <2> QED BY <2>3, <2>4, <2>5 DEF ValidInv
<1>10. PairsMatch'
  <2>1. CASE pair = None BY <1>2, <2>1 DEF PairsMatch
  <2>2. CASE pair \in Pairs /\ pair # None
    <3>1. pair' = [pair EXCEPT !.age = Capped(pair.age + 1, AgeBound + 1)] BY <1>2, <2>2
    <3>2. pair'.oneLap = pair.oneLap /\ pair'.usable = pair.usable /\ pair'.spread = pair.spread
      BY <2>2, <3>1 DEF Pairs
    <3> QED BY <1>1, <2>2, <3>2 DEF PairsMatch
  <2> QED BY <1>1, <2>1, <2>2 DEF TypeOK
<1> QED BY <1>5, <1>6, <1>8, <1>9, <1>10 DEF IInv
-----------------------------------------------------------------------------
LEMMA StartInv == Init => IInv
<1> SUFFICES ASSUME Init PROVE IInv
  OBVIOUS
<1>1. /\ src = 0 /\ lap = 0 /\ measured = [s \in Streams |-> MaxDelay + 1]
      /\ rear_samples = <<>> /\ front_samples = <<>> /\ last_input = [s \in Streams |-> None]
      /\ raw = None /\ valid_age = None /\ valid_state = FALSE /\ pair = None
      /\ processing = FALSE /\ due = {} /\ phase = StatusPeriod
  BY DEF Init
<1>2. TypeOK
  <2>1. src \in 0..BagEnd /\ lap \in {0, 1} /\ phase \in 1..StatusPeriod BY <1>1, Limits
  <2>2. measured \in [Streams -> Nat] BY <1>1, Limits
  <2>3. last_input \in [Streams -> 0..BagEnd \cup {None}] BY <1>1
  <2>4. rear_samples \in Seq(Rears) /\ front_samples \in Seq(Fronts) BY <1>1
  <2>5. valid_state \in BOOLEAN /\ processing \in BOOLEAN BY <1>1
  <2> QED BY <1>1, <2>1, <2>2, <2>3, <2>4, <2>5 DEF TypeOK
<1>3. \A s \in Streams : Samples(s) = <<>> /\ last_input[s] = None BY <1>1 DEF Samples
<1>4. LastInv /\ LapInv
  <2>1. ~(src > MaxSilence) BY <1>1, Limits
  <2> QED BY <1>3, <2>1 DEF LastInv, LapInv
<1>5. HeldInv /\ ValidInv /\ PairsMatch BY <1>1 DEF HeldInv, ValidInv, PairsMatch
<1> QED BY <1>2, <1>4, <1>5 DEF IInv

LEMMA StepInv == IInv /\ [Next]_vars => IInv'
<1> SUFFICES ASSUME IInv, [Next]_vars PROVE IInv'
  OBVIOUS
<1>1. ASSUME NEW stream \in Streams, NEW delay \in 0..MaxDelay, NEW fix,
             stream = "rear" => fix \in RearFixes, stream = "front" => fix \in FrontFixes,
             Callback(stream, delay, fix)
      PROVE  IInv'
  BY <1>1, CallbackType, CallbackLaps, CallbackHeld, CallbackValid DEF IInv
<1>2. CASE \E delay \in 0..MaxDelay, fix \in RearFixes : Callback("rear", delay, fix)
  BY <1>1, <1>2 DEF Streams
<1>3. CASE \E delay \in 0..MaxDelay, fix \in FrontFixes : Callback("front", delay, fix)
  BY <1>1, <1>3 DEF Streams
<1>4. CASE ProcessPending BY <1>4, LoopEnds, LoopTurns
<1>5. CASE ProcessTimer BY <1>5, TimerNext
<1>6. CASE PublishStatus BY <1>6, StatusNext
<1>7. CASE Tick BY <1>7, TickNext
<1>8. CASE UNCHANGED vars
  <2>1. UNCHANGED <<src, lap, measured, phase, rear_samples, front_samples, last_input,
                    raw, valid_age, valid_state, pair, processing, due>>
    BY <1>8 DEF vars, inputVars, yawVars
  <2>2. TypeOK' BY <2>1 DEF IInv, TypeOK
  <2>3. \A s \in Streams : Samples(s)' = Samples(s) BY <2>1 DEF Samples
  <2>4. LastInv' /\ LapInv' BY <2>1, <2>3, FewerSamples DEF IInv
  <2>5. /\ \A i \in DOMAIN front_samples' : /\ AgeOf(front_samples[i])' = AgeOf(front_samples[i])
                                         /\ front_samples'[i] = front_samples[i]
        /\ AgeOf(rear_samples[1])' = AgeOf(rear_samples[1]) /\ Ready' = Ready
    BY <2>1 DEF AgeOf, Ready
  <2>6. HeldInv' BY <2>1, <2>5 DEF IInv, HeldInv
  <2>7. ValidInv' /\ PairsMatch' BY <2>1 DEF IInv, ValidInv, PairsMatch
  <2> QED BY <2>2, <2>4, <2>6, <2>7 DEF IInv
<1> QED BY <1>2, <1>3, <1>4, <1>5, <1>6, <1>7, <1>8 DEF Next

LEMMA Invariance == Spec => []IInv
BY StartInv, StepInv, PTL DEF Spec

\* Every reachable state of the node is well typed, for every recording and every length of
\* the deques.
THEOREM TypeCorrect == Spec => []TypeOK
<1>1. IInv => TypeOK BY DEF IInv
<1> QED BY <1>1, Invariance, PTL

\* No accepted pair mixes two plays of the recording, uses an unusable fix or reaches
\* further than the tolerances, whatever the delays, losses and lengths of the deques
\* (_check_time_jump, _interpolated_rear).
THEOREM Matched == Spec => []PairsMatch
<1>1. IInv => PairsMatch BY DEF IInv
<1> QED BY <1>1, Invariance, PTL

\* A yaw is shown as valid no longer than AgeBound after its front fix was measured
\* (process_pending, process_pair, publish_status).
THEOREM RecentYaw == Spec => []ValidIsRecent
<1>1. IInv => ValidIsRecent
  <2> SUFFICES ASSUME IInv, valid_state PROVE raw # None /\ pair # None /\ pair.age <= AgeBound
    BY DEF ValidIsRecent
  <2>1. /\ raw # None /\ pair # None /\ valid_age # None
        /\ pair.age <= valid_age + MaxDelay + Wait
        /\ valid_age + phase <= ShownBound \/ valid_age <= ShownBound
    BY DEF IInv, ValidInv
  <2>2. valid_age \in Nat /\ pair.age \in Int /\ phase \in 1..StatusPeriod
    BY <2>1 DEF IInv, TypeOK, Pairs
  <2>3. valid_age <= ShownBound BY <2>1, <2>2, Limits DEF ShownBound
  <2>4. ShownBound \in Nat /\ Wait \in Nat BY Limits DEF ShownBound, Wait
  <2>5. pair.age <= AgeBound BY <2>1, <2>2, <2>3, <2>4, Limits DEF AgeBound
  <2> QED BY <2>1, <2>5
<1> QED BY <1>1, Invariance, PTL

\* The node turns valid only when a pair is accepted, never by publish_status() or a jump.
THEOREM FromPairs == Spec => ValidFromPairs
<1>1. IInv /\ [Next]_vars => [valid_state' /\ ~valid_state => valid_age' = 0 /\ processing]_vars
  <2> SUFFICES ASSUME IInv, Next, valid_state', ~valid_state
               PROVE  valid_age' = 0 /\ processing
    BY DEF vars, yawVars
  <2>1. valid_state \in BOOLEAN BY DEF IInv, TypeOK
  <2>2. ASSUME NEW stream, NEW delay, NEW fix, Callback(stream, delay, fix) PROVE FALSE
    BY <2>2 DEF Callback, JumpReset, yawVars
  <2>3. CASE ProcessPending
    <3>1. ~UNCHANGED yawVars BY DEF yawVars
    <3>2. processing BY <2>3 DEF ProcessPending
    <3>3. \E rears, front : ProcessPair(rears, front) BY <2>3, <3>1 DEF ProcessPending
    <3> QED BY <3>1, <3>2, <3>3 DEF ProcessPair
  <2>4. CASE ProcessTimer BY <2>4 DEF ProcessTimer, yawVars
  <2>5. CASE PublishStatus
    <3>1. valid_age # None /\ valid_age <= HeadingTimeout BY <2>5 DEF PublishStatus
    <3> QED BY <3>1 DEF IInv, ValidInv
  <2>6. CASE Tick BY <2>6 DEF Tick
  <2> QED BY <2>2, <2>3, <2>4, <2>5, <2>6 DEF Next
<1> QED BY <1>1, Invariance, PTL DEF Spec, ValidFromPairs

\* Good pairs are refused as implausible no longer than heading_timeout and one status period
\* after the outlier was accepted (process_pair, publish_status).
THEOREM Forgotten == Spec => OutlierIsForgotten
<1>1. IInv /\ [Next]_vars => [Refuses => valid_age # None /\ valid_age <= ShownBound]_vars
  <2> SUFFICES ASSUME IInv, Next, Refuses PROVE valid_age # None /\ valid_age <= ShownBound
    OBVIOUS
  <2> DEFINE front == Head(front_samples)
             rears == InterpolatedRear(front.stamp)
  <2>1. /\ processing /\ Len(front_samples') < Len(front_samples)
        /\ rears # {} /\ PairUsable(rears, front) /\ valid_age' # 0
    BY DEF Refuses
  <2>2. ~(Len(front_samples) < Len(front_samples)) BY SampleTypes DEF IInv
  <2>3. ProcessPending
    BY <2>1, <2>2 DEF Next, Callback, ProcessTimer, PublishStatus, Tick
  <2>4. front_samples' # front_samples BY <2>1, <2>2
  <2>5. ProcessPair(rears, front) BY <2>1, <2>3, <2>4 DEF ProcessPending
  <2>6. ~Plausible(front) BY <2>1, <2>5 DEF ProcessPair
  <2>7. raw # None BY <2>6 DEF Plausible
  <2>8. /\ valid_age # None
        /\ valid_age + phase <= ShownBound \/ valid_age <= ShownBound
    BY <2>7 DEF IInv, ValidInv
  <2>9. valid_age \in Nat /\ phase \in 1..StatusPeriod BY <2>8 DEF IInv, TypeOK
  <2> QED BY <2>8, <2>9, Limits DEF ShownBound
<1> QED BY <1>1, Invariance, PTL DEF Spec, OutlierIsForgotten
=============================================================================
