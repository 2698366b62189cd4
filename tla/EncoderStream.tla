------------------------------ MODULE EncoderStream ------------------------------
(***************************************************************************)
(* The encoder side of arduino/mando_ver2: every pass of loop() reads the  *)
(* LS7366R counter, updateEncoderFaultGuard() drops impossible jumps, and  *)
(* printEncoderCsv() prints a line every ENCODER_STREAM_INTERVAL_MS.       *)
(*                                                                         *)
(* A pass is two actions, Guard and Stream, because each calls millis()    *)
(* itself.  A timestamp is kept as its age; an age of MaxAge stands for    *)
(* every later one, and a pass is never that late.  Counts do not overflow.*)
(***************************************************************************)
EXTENDS Integers, Sequences

CONSTANTS
  MaxCount,      \* bound on the counter, which the wheel does not leave
  WheelRate,     \* counts the wheel makes in a tick at most
  Glitches,      \* errors of a read of the counter
  MaxFaults,     \* bound on wrong reads and overlong passes between two resets
  MaxDelta,      \* ENCODER_FAULT_MAX_DELTA_PER_10MS, per tick
  MinDelta,      \* ENCODER_FAULT_MIN_DELTA_COUNTS
  MinDt, MaxDt,  \* ENCODER_FAULT_MIN_DT_MS, ENCODER_FAULT_MAX_DT_MS
  Interval,      \* ENCODER_STREAM_INTERVAL_MS
  SyncDrops,     \* ENCODER_RESET_SYNC_DROP_SAMPLES
  MaxAge         \* bound on the time between two lines and between two updates

ASSUME EncoderAssumption ==
  /\ {MaxCount, WheelRate, MaxDelta, MinDelta, MaxDt, SyncDrops, MaxAge, MaxFaults} \subseteq Nat
  /\ MinDt \in Nat \ {0} /\ Interval \in Nat \ {0} /\ Glitches \subseteq Int
  /\ MinDelta <= MaxDelta /\ MaxDt < MaxAge /\ 2 * Interval < MaxAge

VARIABLES
  counter,    \* the LS7366R, without the errors of reading it
  turned,     \* the wheel has turned in this tick
  pass,       \* what loop() does next: "guard" or "stream"
  guarded,    \* encoderGuardedCount
  guardRaw,   \* encoderGuardPrevRawCount
  guardAge,   \* age of encoderGuardPrevMs
  streamed,   \* encoderStreamPrevCount
  streamAge,  \* age of encoderStreamPrevMs
  csvAge,     \* age of encoderCsvPrevMs
  drops,      \* encoderStreamSyncDropsPending
  faults      \* history: wrong reads and overlong passes since the reset

guardVars  == <<guarded, guardRaw, guardAge, faults>>
streamVars == <<streamed, streamAge, csvAge, drops>>
wheelVars  == <<counter, turned>>
boardVars  == <<wheelVars, pass, guardVars, streamVars>>

Abs(x) == IF x < 0 THEN -x ELSE x

\* setup(), with the counter cleared by ls7366rBegin().
BoardInit ==
  /\ counter = 0 /\ turned = FALSE /\ pass = "guard"
  /\ guarded = 0 /\ guardRaw = 0 /\ guardAge = 0 /\ faults = 0
  /\ streamed = 0 /\ streamAge = 0 /\ csvAge = 0 /\ drops = SyncDrops

-----------------------------------------------------------------------------
\* setup() after a reset of the board, at any time, or resetEncoderCount() by an
\* R command, which parseSerial() handles at the start of a pass.
ResetCount ==
  /\ pass' = "guard"
  /\ counter' = 0 /\ guarded' = 0 /\ guardRaw' = 0 /\ guardAge' = 0 /\ faults' = 0
  /\ streamed' = 0 /\ streamAge' = 0 /\ csvAge' = 0 /\ drops' = SyncDrops
  /\ UNCHANGED turned

\* Mutant: the limit is that of one tick, however long ago the last update was.
MaxDeltaPerTick(dt) == MaxDelta

\* encoderMaxDeltaForDt(): the quotient is exact in ticks.
MaxDeltaForDt(dt) == IF MaxDelta * dt < MinDelta THEN MinDelta ELSE MaxDelta * dt

\* Mutant: no jump is impossible.
AnyDelta(delta) == TRUE

\* The test for a spike.
Possible(delta) == Abs(delta) <= MaxDeltaForDt(guardAge)

\* updateEncoderFaultGuard() on a reading of the counter.
Guard(raw) ==
  LET fault == guardAge >= MinDt /\ (raw # counter \/ guardAge > MaxDt)
  IN /\ pass = "guard" /\ pass' = "stream"
     /\ fault => faults < MaxFaults
     /\ faults' = IF fault THEN faults + 1 ELSE faults
     /\ IF guardAge < MinDt THEN UNCHANGED <<guarded, guardRaw, guardAge>>
        ELSE /\ guardRaw' = raw /\ guardAge' = 0
             /\ guarded' = IF guardAge <= MaxDt /\ Possible(raw - guardRaw)
                           THEN guarded + (raw - guardRaw) ELSE guarded
     /\ UNCHANGED <<wheelVars, streamVars>>

\* The next time a line is due: a fixed rate, unless a whole interval was missed.
NextCsvAge == IF csvAge - Interval >= Interval THEN 0 ELSE csvAge - Interval

\* Mutant: a line that finds no room is given up, with its sample.
SkipSample == streamed' = guarded /\ streamAge' = 0 /\ UNCHANGED <<csvAge, drops>>

\* No room for a line in the transmit buffer: it is tried again in the next pass.
NoRoom == UNCHANGED streamVars

\* The sample that a line reports.
Sample == [delta |-> guarded - streamed, dt |-> IF streamAge = 0 THEN Interval ELSE streamAge]

\* printEncoderCsv() takes a sample and prints it: an ENC_SYNC line while
\* drops are pending, else an ENC line.
StreamLine(sync) ==
  /\ pass = "stream" /\ pass' = "guard"
  /\ csvAge >= Interval
  /\ sync <=> drops > 0
  /\ drops' = IF sync THEN drops - 1 ELSE drops
  /\ streamed' = guarded /\ streamAge' = 0 /\ csvAge' = NextCsvAge
  /\ UNCHANGED <<wheelVars, guardVars>>

\* It prints none, because none is due or there is no room for it.
StreamNothing ==
  /\ pass = "stream" /\ pass' = "guard"
  /\ IF csvAge < Interval THEN UNCHANGED streamVars ELSE NoRoom
  /\ UNCHANGED <<wheelVars, guardVars>>

\* The wheel makes the counts of a tick at any point of it.
Turn ==
  /\ ~turned /\ turned' = TRUE
  /\ \E d \in -WheelRate..WheelRate :
       counter + d \in -MaxCount..MaxCount /\ counter' = counter + d
  /\ UNCHANGED <<pass, guardVars, streamVars>>

\* Guard and Stream are two statements in a row: no whole tick passes between
\* them.  A pass is not later than MaxAge, and a line finds room before.
BoardTick ==
  /\ pass = "stream" => guardAge < MinDt
  /\ guardAge < (IF faults < MaxFaults THEN MaxAge ELSE MaxDt)
  /\ streamAge < MaxAge /\ csvAge < MaxAge
  /\ turned' = FALSE
  /\ guardAge' = guardAge + 1 /\ streamAge' = streamAge + 1 /\ csvAge' = csvAge + 1
  /\ UNCHANGED <<counter, pass, guarded, guardRaw, faults, streamed, drops>>
=================================================================================
