--------------------------- MODULE SerialBridgeProofs ---------------------------
(***************************************************************************)
(* Proofs about the serial_bridge node, for every value of the constants   *)
(* of its two modules: its threads and its port first (SerialBridge), the  *)
(* bytes it writes and the board reads after them (SerialLines).           *)
(*                                                                         *)
(* PortInv holds whatever the wall clock does (SteppedSpec).  CommandInv   *)
(* needs a clock that is never stepped back (Spec).  LinesInv is about the *)
(* lines (LinesSpec) alone.                                                *)
(***************************************************************************)
EXTENDS SerialBridge, SerialLines, SequenceTheorems, TLAPS

\* The lock is held where a thread writes or flushes, and over a port.
LockInv ==
  /\ lock = "tx" <=> txPc = "write"
  /\ lock = "main" <=> exPc \in {"stopWrite", "flush"}
  /\ lock # "free" => ser # NoPort

Running == {"spin", "throttle", "stamp"}

\* A transmitter that is still at work when destroy_node joins it gets to its
\* loop condition before the join gives up.
JoinInv ==
  /\ stop <=> exPc \notin Running
  /\ txPc = "done" => stop
  /\ txPc = "check" => txTimer <= TxPeriod
  /\ txPc = "write" => txTimer <= WriteTimeout
  /\ exPc = "joinTx" =>
       \/ txPc = "done"
       \/ txPc = "check" /\ txTimer < exTimer
       \/ txPc = "write" /\ txTimer + TxPeriod < exTimer
       \/ /\ txPc \in {"readSteer", "readThrottle", "silence", "acquire"}
          /\ WriteTimeout + TxPeriod < exTimer
  /\ exPc \notin Running \cup {"joinTx"} => txPc = "done"
  /\ finalWrite # "none" => exPc \in {"flush", "joinRecon", "joinRx", "drop", "exit"}
  /\ finalWrite = "done" => wire.throttle = 0

\* A port being opened is nobody else's, and is not published before a reader
\* of the one before it has noticed.
OpenInv ==
  /\ recPc = "settle" => ser = NoPort /\ recSer \in Handles \ {rxSer, wire.h}
  /\ rxPc \in {"read", "drop"} => rxSer \in Handles /\ ser \in {rxSer, NoPort}
  /\ rxPc = "read" => rxTimer <= ReadTimeout
  /\ rxPc = "read" /\ recPc = "settle" => rxTimer < recTimer
  /\ rxPc = "drop" /\ recPc = "settle" => 0 < recTimer

PortInv == TypeOK /\ LockInv /\ JoinInv /\ OpenInv

\* A last command that is not timed out was made of messages at least as fresh.
StampInv ==
  /\ 0 <= cmdClock
  /\ exPc \in {"throttle", "stamp"} => steerAge = 0
  /\ exPc = "stamp" => throttleAge = 0
  /\ cmdClock <= CmdTimeout => steerAge <= cmdClock /\ throttleAge <= cmdClock

\* What the transmitter carries is a stop or fresh.
CarryInv ==
  /\ txPc = "check" => txSteer = 0 /\ txThrottle = 0
  /\ txPc \in {"readSteer", "readThrottle"} =>
       steerAge <= CmdTimeout /\ throttleAge <= CmdTimeout /\ txThrottle = 0
  /\ txPc = "readThrottle" => txAge <= CmdTimeout
  /\ txPc \in {"silence", "acquire"} =>
       (txSteer = 0 /\ txThrottle = 0) \/ txAge <= CmdTimeout
  /\ txPc = "write" =>
       (txSteer = 0 /\ txThrottle = 0) \/ txAge + txTimer <= FreshBound

\* The startup silence is over before anything can drive.
SilenceInv ==
  /\ txPc \in {"acquire", "write"} => StartupSilence <= upClock
  /\ ~IsStop(wire) => StartupSilence <= upClock

OnLiveWire == ser \in live /\ wire.h = ser /\ ~IsStop(wire) /\ ~stop

\* How long the command on the wire may still last, by where the transmitter is.
ReplaceInv ==
  OnLiveWire =>
    /\ txPc = "check" => wireAge + txTimer <= FreshBound + TxPeriod
    /\ txPc \in {"readSteer", "readThrottle", "silence", "acquire"} =>
         wireAge <= FreshBound + TxPeriod
    /\ txPc = "write" => wireAge + txTimer <= StopBound

CommandInv == PortInv /\ StampInv /\ CarryInv /\ SilenceInv /\ ReplaceInv
-----------------------------------------------------------------------------
\* A step of the node under a steady clock is one under any clock.
LEMMA SteadyIsStepped == [Next]_vars => [SteppedNext]_vars
BY DEF SteppedNext
-----------------------------------------------------------------------------
(* Types.                                                                  *)

\* A clamped value stays within its limit.
LEMMA ClampRange ==
  ASSUME NEW x \in Int, NEW limit \in Nat
  PROVE  Clamp(x, limit) \in -limit..limit
BY DEF Clamp, Larger, Smaller

\* on_cmd_vel's angle is within max_steer_deg and its throttle within full scale.
LEMMA CommandRange ==
  ASSUME NEW t \in Twists
  PROVE  AutoSteer(t) \in Steers /\ AutoThrottle(t) \in Throttles
<1>1. t.v \in Int /\ t.w \in Int
  BY BridgeAssumption
<1>2. Larger(MinSpeed, Larger(t.v, -t.v)) \in Nat \ {0}
  BY <1>1, BridgeAssumption DEF Larger
<1>3. Wheelbase * (SteerSign * (IF t.v < 0 THEN -t.w ELSE t.w)) \in Int
  BY <1>1, BridgeAssumption
<1>4. Tangent(t) \in Int
  BY <1>2, <1>3 DEF Tangent
<1>5. AutoSteer(t) \in Steers
  BY <1>4, ClampRange, BridgeAssumption DEF AutoSteer, Steers
<1> DEFINE th == (2000 * t.v + VMax) \div (2 * VMax)
<1>6. th \in Int
  BY <1>1, BridgeAssumption
<1>7. AutoThrottle(t) = Clamp(th, 1000)
  BY DEF AutoThrottle
<1> HIDE DEF th
<1>8. Clamp(th, 1000) \in -1000..1000
  BY <1>6 DEF Clamp, Larger, Smaller
<1> QED
  BY <1>5, <1>7, <1>8 DEF Throttles

\* The durations and the bounds made of them are natural numbers.
LEMMA BoundsNat ==
  /\ {CmdTimeout, TxPeriod, WriteTimeout, ReadTimeout, ReaderIdle, ReaderBackoff,
      OpenSettle, OpenRetry, ReconnectPoll, StartupSilence, JoinTimeout, ClockStep,
      MaxClockSteps, MaxSteer} \subseteq Nat
  /\ FreshBound \in Nat /\ StopBound \in Nat /\ AgeCap \in Nat \ {0}
  /\ ClockCap \in Nat \ {0}
<1>1. MaxClockSteps * ClockStep \in Nat
  BY BridgeAssumption
<1> QED
  BY <1>1, BridgeAssumption DEF FreshBound, StopBound, AgeCap, ClockCap

LEMMA TypeInit == Init => TypeOK
<1> SUFFICES ASSUME Init PROVE TypeOK
  OBVIOUS
<1>1. 0 \in Steers /\ 0 \in Throttles /\ 0 \in Ages /\ AgeCap \in Ages
  BY BoundsNat DEF Steers, Throttles, Ages
<1>2. NoCommand \in [h : Handles \cup {NoPort}, steer : Steers, throttle : Throttles]
  BY <1>1 DEF NoCommand
<1>3. ClockCap \in Int /\ 0 <= StartupSilence /\ MaxClockSteps \in 0..MaxClockSteps
  BY BoundsNat
<1>4. PortType
  BY DEF Init, PortType
<1>5. CommandType
  BY <1>1, <1>3 DEF Init, CommandType
<1>6. ExecutorType
  BY <1>1 DEF Init, ExecutorType
<1>7. TransmitterType
  BY <1>1 DEF Init, TransmitterType
<1>8. ReaderType /\ ReconnectType
  BY DEF Init, ReaderType, ReconnectType
<1>9. WireType /\ TimeType
  BY <1>1, <1>2, <1>3 DEF Init, WireType, TimeType
<1> QED
  BY <1>4, <1>5, <1>6, <1>7, <1>8, <1>9 DEF TypeOK

\* A step that leaves a component's variables alone leaves its type alone.
LEMMA TypeFrame ==
  /\ PortType /\ UNCHANGED portVars => PortType'
  /\ CommandType /\ UNCHANGED cmdVars => CommandType'
  /\ ExecutorType /\ UNCHANGED exVars => ExecutorType'
  /\ TransmitterType /\ UNCHANGED txVars => TransmitterType'
  /\ ReaderType /\ UNCHANGED rxVars => ReaderType'
  /\ ReconnectType /\ UNCHANGED recVars => ReconnectType'
  /\ WireType /\ UNCHANGED wireVars => WireType'
  /\ TimeType /\ UNCHANGED timeVars => TimeType'
<1>1. PortType /\ UNCHANGED portVars => PortType'
  BY DEF PortType, portVars
<1>2. CommandType /\ UNCHANGED cmdVars => CommandType'
  BY DEF CommandType, cmdVars
<1>3. ExecutorType /\ UNCHANGED exVars => ExecutorType'
  BY DEF ExecutorType, exVars
<1>4. TransmitterType /\ UNCHANGED txVars => TransmitterType'
  BY DEF TransmitterType, txVars
<1>5. ReaderType /\ UNCHANGED rxVars => ReaderType'
  BY DEF ReaderType, rxVars
<1>6. ReconnectType /\ UNCHANGED recVars => ReconnectType'
  BY DEF ReconnectType, recVars
<1>7. WireType /\ UNCHANGED wireVars => WireType'
  BY DEF WireType, wireVars
<1>8. TimeType /\ UNCHANGED timeVars => TimeType'
  BY DEF TimeType, timeVars
<1> QED
  BY <1>1, <1>2, <1>3, <1>4, <1>5, <1>6, <1>7, <1>8

\* Constants of the types.
LEMMA ZeroTypes ==
  /\ 0 \in Steers /\ 0 \in Throttles /\ 0 \in Ages
  /\ \A a \in Ages : Older(a) \in Ages
  /\ \A a, b \in Ages : Larger(a, b) \in Ages
  /\ \A n \in Nat : Left(n) \in Nat
BY BoundsNat DEF Steers, Throttles, Ages, Older, Left, Larger, Smaller

LEMMA TypeExecutor == TypeOK /\ Executor => TypeOK'
<1> SUFFICES ASSUME TypeOK, Executor PROVE TypeOK'
  OBVIOUS
<1>1. ASSUME NEW t \in Twists, OnCmdVelSteer(t) PROVE TypeOK'
  BY <1>1, TypeFrame, ZeroTypes, CommandRange
  DEF TypeOK, OnCmdVelSteer, CommandType, ExecutorType, cmdVars, exVars
<1>2. CASE OnCmdVelThrottle
  BY <1>2, TypeFrame, ZeroTypes
  DEF TypeOK, OnCmdVelThrottle, CommandType, ExecutorType
<1>3. CASE OnCmdVelStamp
  BY <1>3, TypeFrame, BoundsNat
  DEF TypeOK, OnCmdVelStamp, CommandType, ExecutorType
<1> QED
  BY <1>1, <1>2, <1>3 DEF Executor

LEMMA TypeTransmitter == TypeOK /\ Transmitter => TypeOK'
<1> SUFFICES ASSUME TypeOK, Transmitter PROVE TypeOK'
  OBVIOUS
<1>1. CASE TxLoop
  BY <1>1, TypeFrame DEF TypeOK, TxLoop, TransmitterType
<1>2. CASE SendReadSteer
  BY <1>2, TypeFrame DEF TypeOK, SendReadSteer, TransmitterType, CommandType
<1>3. CASE SendReadThrottle
  BY <1>3, TypeFrame, ZeroTypes
  DEF TypeOK, SendReadThrottle, TransmitterType, CommandType
<1>4. TxSleep => TransmitterType'
  BY ZeroTypes, BoundsNat DEF TxSleep, TransmitterType
<1>5. CASE WriteLineSilence
  BY <1>4, <1>5, TypeFrame DEF TypeOK, WriteLineSilence, TransmitterType
<1>6. CASE WriteLineAcquire
  <2>1. TransmitterType'
    BY <1>4, <1>6, BoundsNat DEF TypeOK, WriteLineAcquire, TransmitterType
  <2>2. PortType'
    BY <1>6 DEF TypeOK, WriteLineAcquire, PortType
  <2> QED
    BY <1>6, <2>1, <2>2, TypeFrame DEF TypeOK, WriteLineAcquire
<1>7. Transmit => WireType'
  BY ZeroTypes DEF TypeOK, Transmit, WireType, TransmitterType, PortType
<1>8. CASE WriteLineDone
  <2>1. PortType'
    BY <1>8 DEF TypeOK, WriteLineDone, PortType
  <2> QED
    BY <1>4, <1>7, <1>8, <2>1, TypeFrame DEF TypeOK, WriteLineDone
<1>9. CASE WriteLineFail
  <2>1. PortType'
    BY <1>9 DEF TypeOK, WriteLineFail, DropSerial, PortType
  <2>2. WireType'
    BY <1>7, <1>9, TypeFrame DEF TypeOK, WriteLineFail
  <2> QED
    BY <1>4, <1>9, <2>1, <2>2, TypeFrame DEF TypeOK, WriteLineFail
<1> QED
  BY <1>1, <1>2, <1>3, <1>5, <1>6, <1>8, <1>9 DEF Transmitter

LEMMA TypeReader == TypeOK /\ Reader => TypeOK'
<1> SUFFICES ASSUME TypeOK, Reader PROVE TypeOK'
  OBVIOUS
<1>1. CASE ReaderCopy
  BY <1>1, TypeFrame, BoundsNat DEF TypeOK, ReaderCopy, ReaderType, PortType, portVars
<1>2. CASE ReaderReturn
  BY <1>2, TypeFrame DEF TypeOK, ReaderReturn, ReaderType
<1>3. CASE ReaderFail
  BY <1>3, TypeFrame DEF TypeOK, ReaderFail, ReaderType
<1>4. CASE ReaderDrop
  <2>1. PortType' /\ ReaderType'
    BY <1>4, BoundsNat DEF TypeOK, ReaderDrop, DropSerial, PortType, ReaderType
  <2> QED
    BY <1>4, <2>1, TypeFrame DEF TypeOK, ReaderDrop
<1> QED
  BY <1>1, <1>2, <1>3, <1>4 DEF Reader

LEMMA TypeReconnector == TypeOK /\ Reconnector => TypeOK'
<1> SUFFICES ASSUME TypeOK, Reconnector PROVE TypeOK'
  OBVIOUS
<1>1. CASE ReconnectLoop
  <2>1. PortType'
    BY <1>1 DEF TypeOK, ReconnectLoop, PortType
  <2>2. ReconnectType'
    BY <1>1, BoundsNat DEF TypeOK, ReconnectLoop, SettleAfterOpen, ReconnectType
  <2> QED
    BY <1>1, <2>1, <2>2, TypeFrame DEF TypeOK, ReconnectLoop
<1>2. CASE ReconnectSet
  <2>1. PortType' /\ ReconnectType'
    BY <1>2, BoundsNat DEF TypeOK, ReconnectSet, PortType, ReconnectType
  <2> QED
    BY <1>2, <2>1, TypeFrame DEF TypeOK, ReconnectSet
<1> QED
  BY <1>1, <1>2 DEF Reconnector

LEMMA TypeDestroy == TypeOK /\ Destroy => TypeOK'
<1> SUFFICES ASSUME TypeOK, Destroy PROVE TypeOK'
  OBVIOUS
<1>1. CASE DestroyJoinTx
  BY <1>1, TypeFrame DEF TypeOK, DestroyJoinTx, ExecutorType
<1>2. CASE DestroyStopAcquire
  <2>1. PortType'
    BY <1>2 DEF TypeOK, DestroyStopAcquire, PortType
  <2>2. ExecutorType'
    BY <1>2, BoundsNat DEF TypeOK, DestroyStopAcquire, ExecutorType
  <2> QED
    BY <1>2, <2>1, <2>2, TypeFrame DEF TypeOK, DestroyStopAcquire
<1>3. CASE DestroyStopDone
  <2>1. PortType'
    BY <1>3, TypeFrame DEF TypeOK, DestroyStopDone
  <2>2. ExecutorType'
    BY <1>3, BoundsNat DEF TypeOK, DestroyStopDone, ExecutorType
  <2>3. WireType'
    BY <1>3, ZeroTypes DEF TypeOK, DestroyStopDone, WireType, PortType
  <2> QED
    BY <1>3, <2>1, <2>2, <2>3, TypeFrame DEF TypeOK, DestroyStopDone
<1>4. CASE DestroyStopFail
  <2>1. PortType'
    BY <1>4 DEF TypeOK, DestroyStopFail, PortType
  <2>2. ExecutorType'
    BY <1>4, BoundsNat DEF TypeOK, DestroyStopFail, ExecutorType
  <2> QED
    BY <1>4, <2>1, <2>2, TypeFrame DEF TypeOK, DestroyStopFail
<1>5. CASE DestroyJoinRecon
  BY <1>5, TypeFrame, BoundsNat DEF TypeOK, DestroyJoinRecon, ExecutorType
<1>8. CASE DestroyFlushDone \/ DestroyFlushFail
  <2>1. PortType'
    BY <1>8 DEF TypeOK, DestroyFlushDone, DestroyFlushFail, PortType
  <2>2. ExecutorType'
    BY <1>8, BoundsNat DEF TypeOK, DestroyFlushDone, DestroyFlushFail, ExecutorType
  <2> QED
    BY <1>8, <2>1, <2>2, TypeFrame DEF TypeOK, DestroyFlushDone, DestroyFlushFail
<1>6. CASE DestroyJoinRx
  BY <1>6, TypeFrame DEF TypeOK, DestroyJoinRx, ExecutorType
<1>7. CASE DestroyDrop
  <2>1. PortType' /\ ExecutorType'
    BY <1>7 DEF TypeOK, DestroyDrop, PortType, ExecutorType
  <2>2. TransmitterType' /\ ReaderType' /\ ReconnectType'
    BY <1>7 DEF TypeOK, DestroyDrop, TransmitterType, ReaderType, ReconnectType
  <2> QED
    BY <1>7, <2>1, <2>2, TypeFrame DEF TypeOK, DestroyDrop
<1> QED
  BY <1>1, <1>2, <1>3, <1>4, <1>5, <1>6, <1>7, <1>8 DEF Destroy, DestroySteps

LEMMA TypeEnvironment == TypeOK /\ (Environment \/ ClockStepBack) => TypeOK'
<1> SUFFICES ASSUME TypeOK, Environment \/ ClockStepBack PROVE TypeOK'
  OBVIOUS
<1>1. CASE Interrupt
  BY <1>1, TypeFrame, ZeroTypes, BoundsNat DEF TypeOK, Interrupt, ExecutorType
<1>2. CASE Plug \/ Unplug
  <2>1. PortType'
    BY <1>2 DEF TypeOK, Plug, Unplug, PortType
  <2> QED
    BY <1>2, <2>1, TypeFrame DEF TypeOK, Plug, Unplug
<1>3. CASE ClockStepBack
  <2>1. CommandType'
    BY <1>3, BoundsNat DEF TypeOK, ClockStepBack, CommandType
  <2>2. TimeType'
    BY <1>3, BoundsNat DEF TypeOK, ClockStepBack, TimeType
  <2> QED
    BY <1>3, <2>1, <2>2, TypeFrame DEF TypeOK, ClockStepBack
<1> QED
  BY <1>1, <1>2, <1>3 DEF Environment

LEMMA TypeTick == TypeOK /\ Tick => TypeOK'
<1> SUFFICES ASSUME TypeOK, Tick PROVE TypeOK'
  OBVIOUS
<1>1. PortType'
  BY TypeFrame DEF TypeOK, Tick
<1>2. CommandType'
  BY ZeroTypes, BoundsNat DEF TypeOK, Tick, CommandType, Smaller
<1>3. ExecutorType'
  BY ZeroTypes DEF TypeOK, Tick, ExecutorType
<1>4. TransmitterType'
  BY ZeroTypes DEF TypeOK, Tick, TransmitterType
<1>5. ReaderType' /\ ReconnectType'
  BY ZeroTypes DEF TypeOK, Tick, ReaderType, ReconnectType
<1>6. WireType'
  BY ZeroTypes DEF TypeOK, Tick, WireType
<1>7. TimeType'
  BY BoundsNat DEF TypeOK, Tick, TimeType, Smaller
<1> QED
  BY <1>1, <1>2, <1>3, <1>4, <1>5, <1>6, <1>7 DEF TypeOK

LEMMA TypeNext == TypeOK /\ [SteppedNext]_vars => TypeOK'
<1> SUFFICES ASSUME TypeOK, [SteppedNext]_vars PROVE TypeOK'
  OBVIOUS
<1>1. CASE UNCHANGED vars
  BY <1>1, TypeFrame DEF TypeOK, vars
<1>2. CASE SteppedNext
  BY <1>2, TypeExecutor, TypeTransmitter, TypeReader, TypeReconnector,
     TypeDestroy, TypeEnvironment, TypeTick DEF SteppedNext, Next
<1> QED
  BY <1>1, <1>2

\* Every reachable state is well typed: what on_cmd_vel computes, and what goes
\* to the board, is within max_steer_deg and full throttle.
THEOREM TypeCorrect == SteppedSpec => []TypeOK
BY TypeInit, TypeNext, PTL DEF SteppedSpec
-----------------------------------------------------------------------------
(* The port and the shutdown.                                              *)

LEMMA LockInvNext == PortInv /\ [SteppedNext]_vars => LockInv'
<1> SUFFICES ASSUME PortInv, [SteppedNext]_vars PROVE LockInv'
  OBVIOUS
<1> USE DEF PortInv, LockInv
<1>1. ASSUME NEW t \in Twists, OnCmdVelSteer(t) PROVE LockInv'
  BY <1>1 DEF OnCmdVelSteer, portVars, txVars
<1>2. CASE OnCmdVelThrottle \/ OnCmdVelStamp
  BY <1>2 DEF OnCmdVelThrottle, OnCmdVelStamp, portVars, txVars
<1>3. CASE TxLoop \/ SendReadSteer \/ SendReadThrottle \/ WriteLineSilence
  BY <1>3 DEF TxLoop, SendReadSteer, SendReadThrottle, WriteLineSilence, TxSleep,
     portVars, exVars
<1>4. CASE WriteLineAcquire
  BY <1>4 DEF WriteLineAcquire, TxSleep, exVars
<1>5. CASE WriteLineDone \/ WriteLineFail
  BY <1>5 DEF WriteLineDone, WriteLineFail, TxSleep, exVars
<1>6. CASE ReaderCopy \/ ReaderReturn \/ ReaderFail
  BY <1>6 DEF ReaderCopy, ReaderReturn, ReaderFail, portVars, exVars, txVars
<1>7. CASE ReaderDrop
  BY <1>7 DEF ReaderDrop, DropSerial, exVars, txVars
<1>8. CASE ReconnectLoop \/ ReconnectSet
  BY <1>8 DEF ReconnectLoop, ReconnectSet, exVars, txVars
<1>9. CASE DestroyStopAcquire \/ DestroyStopDone \/ DestroyStopFail
  BY <1>9 DEF DestroyStopAcquire, DestroyStopDone, DestroyStopFail, portVars, txVars
<1>14. CASE DestroyFlushDone \/ DestroyFlushFail
  BY <1>14 DEF DestroyFlushDone, DestroyFlushFail, txVars
<1>10. CASE DestroyJoinTx \/ DestroyJoinRecon \/ DestroyJoinRx \/ DestroyDrop
  BY <1>10 DEF DestroyJoinTx, DestroyJoinRecon, DestroyJoinRx, DestroyDrop,
     portVars, txVars
<1>11. CASE Environment \/ ClockStepBack
  BY <1>11 DEF Environment, Interrupt, Plug, Unplug, ClockStepBack, portVars, exVars, txVars
<1>12. CASE Tick
  BY <1>12 DEF Tick, portVars
<1>13. CASE UNCHANGED vars
  BY <1>13 DEF vars, portVars, exVars, txVars
<1> QED
  BY <1>1, <1>2, <1>3, <1>4, <1>5, <1>6, <1>7, <1>8, <1>9, <1>10, <1>11, <1>12, <1>13,
     <1>14
  DEF SteppedNext, Next, Executor, Transmitter, Reader, Reconnector, Destroy, DestroySteps

\* Nothing but the executor and the transmitter can break JoinInv, and time.
LEMMA JoinInvNext == PortInv /\ [SteppedNext]_vars => JoinInv'
<1> SUFFICES ASSUME PortInv, [SteppedNext]_vars PROVE JoinInv'
  OBVIOUS
<1> USE DEF PortInv, JoinInv, Running
<1>1. ASSUME NEW t \in Twists, OnCmdVelSteer(t) PROVE JoinInv'
  BY <1>1 DEF OnCmdVelSteer, txVars, wireVars
<1>2. CASE OnCmdVelThrottle \/ OnCmdVelStamp
  BY <1>2 DEF OnCmdVelThrottle, OnCmdVelStamp, txVars, wireVars
<1>3. CASE TxLoop \/ SendReadSteer \/ SendReadThrottle
  BY <1>3 DEF TxLoop, SendReadSteer, SendReadThrottle, exVars, wireVars
<1>4. TypeOK /\ TxSleep => txPc' = "check" /\ txTimer' = TxPeriod /\ TxPeriod \in Nat
  BY BoundsNat DEF TxSleep
<1>5. txTimer \in Nat /\ exTimer \in Nat /\ WriteTimeout \in Nat
  BY BoundsNat DEF TypeOK, TransmitterType, ExecutorType
<1>6. CASE WriteLineSilence
  BY <1>4, <1>5, <1>6 DEF WriteLineSilence, exVars, wireVars
<1>7. CASE WriteLineAcquire
  BY <1>4, <1>5, <1>7 DEF WriteLineAcquire, exVars, wireVars
<1>8. CASE WriteLineDone
  BY <1>4, <1>5, <1>8 DEF WriteLineDone, exVars
<1>9. CASE WriteLineFail
  BY <1>4, <1>5, <1>9 DEF WriteLineFail, exVars
<1>10. CASE Reader
  BY <1>10 DEF Reader, ReaderCopy, ReaderReturn, ReaderFail, ReaderDrop, exVars, txVars, wireVars
<1>11. CASE Reconnector
  BY <1>11 DEF Reconnector, ReconnectLoop, ReconnectSet, exVars, txVars, wireVars
<1>12. CASE DestroyJoinTx
  BY <1>5, <1>12, BoundsNat DEF DestroyJoinTx, txVars, wireVars
<1>13. CASE DestroyStopAcquire \/ DestroyStopDone \/ DestroyStopFail
  BY <1>13 DEF DestroyStopAcquire, DestroyStopDone, DestroyStopFail, txVars, wireVars
<1>19. CASE DestroyFlushDone \/ DestroyFlushFail
  BY <1>19 DEF DestroyFlushDone, DestroyFlushFail, txVars, wireVars
<1>14. CASE DestroyJoinRecon \/ DestroyJoinRx \/ DestroyDrop
  BY <1>14 DEF DestroyJoinRecon, DestroyJoinRx, DestroyDrop, txVars, wireVars
<1>15. CASE Interrupt
  BY <1>4, <1>5, <1>15, BoundsNat, DurationAssumption
  DEF Interrupt, txVars, wireVars, TypeOK, TransmitterType
<1>16. CASE Plug \/ Unplug \/ ClockStepBack
  BY <1>16 DEF Plug, Unplug, ClockStepBack, exVars, txVars, wireVars
<1>17. CASE Tick
  <2>1. txPc \notin {"readSteer", "readThrottle", "silence"}
    BY <1>17 DEF Tick, TransmitterDue
  <2>2. txPc \in {"check", "write"} => txTimer' = txTimer - 1
    BY <1>5, <1>17 DEF Tick, TransmitterDue, Left, Larger
  <2>3. txPc = "acquire" => exPc \in {"stopWrite", "flush"}
    BY <1>17 DEF Tick, TransmitterDue, LockInv, TypeOK, PortType
  <2>4. exTimer > 0 => exTimer' = exTimer - 1
    BY <1>5, <1>17 DEF Tick, Left, Larger
  <2>5. UNCHANGED <<stop, exPc, finalWrite, txPc, wire>>
    BY <1>17 DEF Tick
  <2>6. txTimer' <= txTimer /\ TxPeriod \in Nat /\ txTimer' \in Nat
    BY <1>5, <1>17, BoundsNat DEF Tick, Left, Larger
  <2> QED
    BY <1>5, <2>1, <2>2, <2>3, <2>4, <2>5, <2>6
<1>18. CASE UNCHANGED vars
  BY <1>18 DEF vars, exVars, txVars, wireVars
<1> QED
  BY <1>1, <1>2, <1>3, <1>6, <1>7, <1>8, <1>9, <1>10, <1>11, <1>12, <1>13, <1>14,
     <1>15, <1>16, <1>17, <1>18, <1>19
  DEF SteppedNext, Next, Executor, Transmitter, Destroy, DestroySteps, Environment

LEMMA OpenInvNext == PortInv /\ [SteppedNext]_vars => OpenInv'
<1> SUFFICES ASSUME PortInv, [SteppedNext]_vars PROVE OpenInv'
  OBVIOUS
<1> USE DEF PortInv, OpenInv
<1>1. /\ ser \in Handles \cup {NoPort} /\ NoPort \notin Handles /\ live \subseteq Handles
      /\ rxTimer \in Nat /\ recTimer \in Nat
  BY BridgeAssumption DEF TypeOK, PortType, ReaderType, ReconnectType
<1>2. ASSUME NEW t \in Twists, OnCmdVelSteer(t) PROVE OpenInv'
  BY <1>2 DEF OnCmdVelSteer, portVars, rxVars, recVars, wireVars
<1>3. CASE OnCmdVelThrottle \/ OnCmdVelStamp
  BY <1>3 DEF OnCmdVelThrottle, OnCmdVelStamp, portVars, rxVars, recVars, wireVars
<1>4. CASE TxLoop \/ SendReadSteer \/ SendReadThrottle \/ WriteLineSilence \/ WriteLineAcquire
  BY <1>4 DEF TxLoop, SendReadSteer, SendReadThrottle, WriteLineSilence,
     WriteLineAcquire, portVars, rxVars, recVars, wireVars
<1>5. Transmit => wire'.h = ser
  BY DEF Transmit
<1>6. CASE WriteLineDone
  BY <1>1, <1>5, <1>6 DEF WriteLineDone, rxVars, recVars
<1>7. CASE WriteLineFail
  BY <1>1, <1>5, <1>7 DEF WriteLineFail, DropSerial, rxVars, recVars, wireVars
<1>8. CASE ReaderCopy
  BY <1>1, <1>8, BoundsNat DEF ReaderCopy, portVars, recVars, wireVars, TypeOK, ReconnectType
<1>9. CASE ReaderReturn
  BY <1>1, <1>9 DEF ReaderReturn, portVars, recVars, wireVars
<1>10. CASE ReaderFail
  BY <1>1, <1>10 DEF ReaderFail, portVars, recVars, wireVars
<1>11. CASE ReaderDrop
  BY <1>1, <1>11 DEF ReaderDrop, DropSerial, recVars, wireVars
<1>12. CASE ReconnectLoop
  BY <1>1, <1>12, BoundsNat, DurationAssumption
  DEF ReconnectLoop, SettleAfterOpen, rxVars, wireVars
<1>13. CASE ReconnectSet
  BY <1>1, <1>13 DEF ReconnectSet, rxVars, wireVars
<1>14. CASE DestroyJoinTx \/ DestroyStopAcquire \/ DestroyStopFail
  BY <1>14 DEF DestroyJoinTx, DestroyStopAcquire, DestroyStopFail, portVars, rxVars,
     recVars, wireVars
<1>15. CASE DestroyStopDone
  BY <1>1, <1>15 DEF DestroyStopDone, portVars, rxVars, recVars
<1>20. CASE DestroyFlushDone \/ DestroyFlushFail
  BY <1>20 DEF DestroyFlushDone, DestroyFlushFail, rxVars, recVars, wireVars
<1>16. CASE DestroyJoinRecon \/ DestroyJoinRx \/ DestroyDrop
  BY <1>16 DEF DestroyJoinRecon, DestroyJoinRx, DestroyDrop, portVars, rxVars, recVars, wireVars
<1>17. CASE Environment \/ ClockStepBack
  BY <1>17 DEF Environment, Interrupt, Plug, Unplug, ClockStepBack, portVars, rxVars,
     recVars, wireVars
<1>18. CASE Tick
  <2>1. rxPc = "read" => rxTimer' = rxTimer - 1 /\ rxTimer > 0
    BY <1>1, <1>18 DEF Tick, ReaderDue, Left, Larger
  <2>2. rxPc = "drop" => lock # "free"
    BY <1>18 DEF Tick, ReaderDue
  <2>3. recTimer > 0 => recTimer' = recTimer - 1
    BY <1>1, <1>18 DEF Tick, Left, Larger
  <2>4. UNCHANGED <<ser, rxPc, rxSer, recPc, recSer, wire>>
    BY <1>18 DEF Tick, portVars
  <2>5. ReadTimeout \in Nat
    BY BoundsNat
  <2> QED
    BY <1>1, <2>1, <2>2, <2>3, <2>4, <2>5 DEF LockInv
<1>19. CASE UNCHANGED vars
  BY <1>19 DEF vars, portVars, rxVars, recVars, wireVars
<1> QED
  BY <1>2, <1>3, <1>4, <1>6, <1>7, <1>8, <1>9, <1>10, <1>11, <1>12, <1>13, <1>14,
     <1>15, <1>16, <1>17, <1>18, <1>19, <1>20
  DEF SteppedNext, Next, Executor, Transmitter, Reader, Reconnector, Destroy, DestroySteps

LEMMA PortInvInit == Init => PortInv
<1> SUFFICES ASSUME Init PROVE PortInv
  OBVIOUS
<1>1. LockInv /\ OpenInv
  BY DEF Init, LockInv, OpenInv
<1>2. JoinInv
  BY BoundsNat DEF Init, JoinInv, Running
<1> QED
  BY <1>1, <1>2, TypeInit DEF PortInv

THEOREM PortInvariant == SteppedSpec => []PortInv
<1>1. PortInv /\ [SteppedNext]_vars => PortInv'
  BY TypeNext, LockInvNext, JoinInvNext, OpenInvNext DEF PortInv
<1> QED
  BY <1>1, PortInvInit, PTL DEF SteppedSpec

\* Whatever the clock and the cable do, no write follows the stop that
\* destroy_node wrote: every transmitter is done by then.
THEOREM StopLast == SteppedSpec => []StopIsLastWrite
<1>1. PortInv => StopIsLastWrite
  BY DEF PortInv, JoinInv, StopIsLastWrite
<1> QED
  BY <1>1, PortInvariant, PTL

\* A reader whose handle failed never closes a port that was opened after it.
THEOREM DropOwn == SteppedSpec => []ReaderDropsItsOwn
<1>1. PortInv => ReaderDropsItsOwn
  BY DEF PortInv, OpenInv, ReaderDropsItsOwn
<1> QED
  BY <1>1, PortInvariant, PTL
-----------------------------------------------------------------------------
(* The command path, with a clock that is never stepped back.              *)

LEMMA CommandNat ==
  ASSUME TypeOK
  PROVE  /\ cmdClock \in Int /\ upClock \in Int /\ clockSteps \in Nat
         /\ steerAge \in Nat /\ throttleAge \in Nat /\ txAge \in Nat /\ wireAge \in Nat
         /\ txTimer \in Nat
BY BoundsNat DEF TypeOK, CommandType, TransmitterType, WireType, TimeType, Ages

\* What a tick does to the ages, the timers and the clocks.
LEMMA TickSteps ==
  ASSUME TypeOK, Tick
  PROVE  /\ cmdClock <= CmdTimeout => cmdClock' = cmdClock + 1
         /\ cmdClock' <= CmdTimeout => cmdClock < CmdTimeout
         /\ steerAge' <= steerAge + 1 /\ throttleAge' <= throttleAge + 1
         /\ txAge' <= txAge + 1 /\ wireAge' <= wireAge + 1
         /\ txTimer > 0 => txTimer' = txTimer - 1
         /\ txPc \in {"check", "write"} => txTimer > 0
         /\ txPc \notin {"readSteer", "readThrottle", "silence"}
         /\ exPc \notin {"throttle", "stamp"}
<1>1. CmdTimeout < ClockCap
  BY BridgeAssumption, BoundsNat DEF ClockCap
<1>2. /\ cmdClock <= CmdTimeout => cmdClock' = cmdClock + 1
      /\ cmdClock' <= CmdTimeout => cmdClock < CmdTimeout
  BY <1>1, BoundsNat, CommandNat DEF Tick, Smaller
<1>3. /\ steerAge' <= steerAge + 1 /\ throttleAge' <= throttleAge + 1
      /\ txAge' <= txAge + 1 /\ wireAge' <= wireAge + 1
  BY BoundsNat, CommandNat DEF Tick, Older, Smaller
<1>4. txTimer > 0 => txTimer' = txTimer - 1
  BY CommandNat DEF Tick, Left, Larger
<1>5. /\ txPc \in {"check", "write"} => txTimer > 0
      /\ txPc \notin {"readSteer", "readThrottle", "silence"}
      /\ exPc \notin {"throttle", "stamp"}
  BY CommandNat DEF Tick, TransmitterDue, ExecutorDue
<1> QED
  BY <1>2, <1>3, <1>4, <1>5

\* While the transmitter's timer runs, an age and the timer together do not grow.
LEMMA TickSums ==
  ASSUME TypeOK, Tick, txTimer > 0
  PROVE  \A bound \in Nat :
           /\ txAge + txTimer <= bound => txAge' + txTimer' <= bound
           /\ wireAge + txTimer <= bound => wireAge' + txTimer' <= bound
<1>1. TAKE bound \in Nat
<1> DEFINE tx == txAge'   wired == wireAge'   timer == txTimer'
<1>2. TypeOK'
  BY TypeNext DEF SteppedNext, Next
<1>3. tx \in Nat /\ wired \in Nat /\ timer \in Nat
  BY <1>2, BoundsNat DEF TypeOK, TransmitterType, WireType, Ages
<1>4. tx <= txAge + 1 /\ wired <= wireAge + 1 /\ timer = txTimer - 1
  BY TickSteps
<1> HIDE DEF tx, wired, timer
<1>5. /\ txAge + txTimer <= bound => tx + timer <= bound
      /\ wireAge + txTimer <= bound => wired + timer <= bound
  BY <1>3, <1>4, CommandNat
<1> QED
  BY <1>5 DEF tx, wired, timer

LEMMA StampInvNext == CommandInv /\ [Next]_vars => StampInv'
<1> SUFFICES ASSUME CommandInv, [Next]_vars PROVE StampInv'
  OBVIOUS
<1> USE DEF CommandInv, PortInv, StampInv
<1>1. TypeOK' /\ CmdTimeout \in Nat
  BY TypeNext, SteadyIsStepped, BoundsNat
<1>2. ASSUME NEW t \in Twists, OnCmdVelSteer(t) PROVE StampInv'
  BY <1>2 DEF OnCmdVelSteer, timeVars
<1>3. CASE OnCmdVelThrottle \/ OnCmdVelStamp
  BY <1>3, <1>1 DEF OnCmdVelThrottle, OnCmdVelStamp, timeVars
<1>4. CASE Transmitter
  BY <1>4 DEF Transmitter, TxLoop, SendReadSteer, SendReadThrottle, WriteLineSilence,
     WriteLineAcquire, WriteLineDone, WriteLineFail, cmdVars, exVars, timeVars
<1>5. CASE Reader
  BY <1>5 DEF Reader, ReaderCopy, ReaderReturn, ReaderFail, ReaderDrop, cmdVars, exVars, timeVars
<1>6. CASE Reconnector
  BY <1>6 DEF Reconnector, ReconnectLoop, ReconnectSet, cmdVars, exVars, timeVars
<1>7. CASE Destroy
  BY <1>7 DEF Destroy, DestroySteps, DestroyFlushDone, DestroyFlushFail, DestroyJoinTx, DestroyStopAcquire, DestroyStopDone, DestroyStopFail,
     DestroyJoinRecon, DestroyJoinRx, DestroyDrop, cmdVars, timeVars
<1>8. CASE Environment
  BY <1>8 DEF Environment, Interrupt, Plug, Unplug, cmdVars, exVars, timeVars
<1>9. CASE Tick
  <2>1. exPc' = exPc
    BY <1>9 DEF Tick
  <2>2. 0 <= cmdClock'
    BY <1>9, BoundsNat, CommandNat DEF Tick, Smaller
  <2>3. steerAge' \in Nat /\ throttleAge' \in Nat /\ cmdClock' \in Int
    BY <1>1, BoundsNat DEF TypeOK, CommandType, Ages
  <2>4. cmdClock' <= CmdTimeout => steerAge' <= cmdClock' /\ throttleAge' <= cmdClock'
    BY <1>1, <1>9, <2>3, TickSteps, CommandNat
  <2> QED
    BY <1>9, <2>1, <2>2, <2>4, TickSteps
<1>10. CASE UNCHANGED vars
  BY <1>10 DEF vars, cmdVars, exVars, timeVars
<1> QED
  BY <1>2, <1>3, <1>4, <1>5, <1>6, <1>7, <1>8, <1>9, <1>10 DEF Next, Executor

\* Between two ticks on_cmd_vel only makes the command younger.
LEMMA CarryInvNext == CommandInv /\ [Next]_vars => CarryInv'
<1> SUFFICES ASSUME CommandInv, [Next]_vars PROVE CarryInv'
  OBVIOUS
<1> USE DEF CommandInv, PortInv, CarryInv
<1>1. /\ CmdTimeout \in Nat /\ WriteTimeout \in Nat
      /\ FreshBound = CmdTimeout + WriteTimeout
  BY BoundsNat DEF FreshBound
<1>2. ASSUME NEW t \in Twists, OnCmdVelSteer(t) PROVE CarryInv'
  BY <1>1, <1>2 DEF OnCmdVelSteer, txVars
<1>3. CASE OnCmdVelThrottle \/ OnCmdVelStamp
  BY <1>1, <1>3 DEF OnCmdVelThrottle, OnCmdVelStamp, txVars
<1>4. CASE TxLoop
  <2>1. ~CommandTimedOut => steerAge <= CmdTimeout /\ throttleAge <= CmdTimeout
    BY <1>1, CommandNat DEF CommandTimedOut, StampInv
  <2> QED
    BY <1>4, <2>1 DEF TxLoop, cmdVars
<1>5. CASE SendReadSteer \/ SendReadThrottle
  BY <1>5, CommandNat DEF SendReadSteer, SendReadThrottle, cmdVars, Larger
<1>6. CASE WriteLineSilence
  BY <1>6 DEF WriteLineSilence, TxSleep, cmdVars
<1>7. CASE WriteLineAcquire
  BY <1>1, <1>7, CommandNat DEF WriteLineAcquire, TxSleep, cmdVars
<1>8. CASE WriteLineDone \/ WriteLineFail
  BY <1>8 DEF WriteLineDone, WriteLineFail, TxSleep
<1>9. CASE Reader
  BY <1>9 DEF Reader, ReaderCopy, ReaderReturn, ReaderFail, ReaderDrop, cmdVars, txVars
<1>10. CASE Reconnector
  BY <1>10 DEF Reconnector, ReconnectLoop, ReconnectSet, cmdVars, txVars
<1>11. CASE Destroy
  BY <1>11 DEF Destroy, DestroySteps, DestroyFlushDone, DestroyFlushFail, DestroyJoinTx, DestroyStopAcquire, DestroyStopDone, DestroyStopFail,
     DestroyJoinRecon, DestroyJoinRx, DestroyDrop, cmdVars, txVars
<1>12. CASE Environment
  BY <1>12 DEF Environment, Interrupt, Plug, Unplug, cmdVars, txVars
<1>13. CASE Tick
  <2>1. UNCHANGED <<txPc, txSteer, txThrottle>>
    BY <1>13 DEF Tick
  <2>2. txPc # "acquire"
    BY <1>13 DEF Tick, TransmitterDue, LockInv, JoinInv, Running, TypeOK, PortType
  <2>3. txPc \in {"check", "write", "done"}
    BY <1>13, <2>2, TickSteps DEF TypeOK, TransmitterType
  <2>4. txPc = "write" /\ txAge + txTimer <= FreshBound => txAge' + txTimer' <= FreshBound
    BY <1>13, TickSteps, TickSums, BoundsNat
  <2> QED
    BY <2>1, <2>3, <2>4
<1>14. CASE UNCHANGED vars
  BY <1>14 DEF vars, cmdVars, txVars
<1> QED
  BY <1>2, <1>3, <1>4, <1>5, <1>6, <1>7, <1>8, <1>9, <1>10, <1>11, <1>12, <1>13, <1>14
  DEF Next, Executor, Transmitter

LEMMA SilenceInvNext == CommandInv /\ [Next]_vars => SilenceInv'
<1> SUFFICES ASSUME CommandInv, [Next]_vars PROVE SilenceInv'
  OBVIOUS
<1> USE DEF CommandInv, PortInv, SilenceInv
<1>1. ASSUME NEW t \in Twists, OnCmdVelSteer(t) PROVE SilenceInv'
  BY <1>1 DEF OnCmdVelSteer, txVars, wireVars, timeVars, IsStop
<1>2. CASE OnCmdVelThrottle \/ OnCmdVelStamp
  BY <1>2 DEF OnCmdVelThrottle, OnCmdVelStamp, txVars, wireVars, timeVars, IsStop
<1>3. CASE TxLoop \/ SendReadSteer \/ SendReadThrottle
  BY <1>3 DEF TxLoop, SendReadSteer, SendReadThrottle, wireVars, timeVars, IsStop
<1>4. CASE WriteLineSilence
  BY <1>4, BoundsNat, CommandNat
  DEF WriteLineSilence, InStartupSilence, TxSleep, wireVars, timeVars, IsStop
<1>5. CASE WriteLineAcquire
  BY <1>5 DEF WriteLineAcquire, TxSleep, wireVars, timeVars, IsStop
<1>6. CASE WriteLineDone \/ WriteLineFail
  BY <1>6 DEF WriteLineDone, WriteLineFail, TxSleep, timeVars
<1>7. CASE Reader
  BY <1>7 DEF Reader, ReaderCopy, ReaderReturn, ReaderFail, ReaderDrop, txVars,
     wireVars, timeVars, IsStop
<1>8. CASE Reconnector
  BY <1>8 DEF Reconnector, ReconnectLoop, ReconnectSet, txVars, wireVars, timeVars, IsStop
<1>9. CASE DestroyStopDone
  <2>1. txPc' = txPc /\ upClock' = upClock
    BY <1>9 DEF DestroyStopDone, txVars, timeVars
  <2>2. IsStop(wire) => IsStop(wire')
    BY <1>9 DEF DestroyStopDone, IsStop
  <2> QED
    BY <2>1, <2>2
<1>10. CASE DestroyJoinTx \/ DestroyStopAcquire \/ DestroyStopFail
  BY <1>10 DEF DestroyJoinTx, DestroyStopAcquire, DestroyStopFail, txVars, wireVars,
     timeVars, IsStop
<1>11. CASE DestroyJoinRecon \/ DestroyJoinRx \/ DestroyDrop
  BY <1>11 DEF DestroyJoinRecon, DestroyJoinRx, DestroyDrop, txVars, wireVars, timeVars, IsStop
<1>15. CASE DestroyFlushDone \/ DestroyFlushFail
  BY <1>15 DEF DestroyFlushDone, DestroyFlushFail, txVars, wireVars, timeVars, IsStop
<1>12. CASE Environment
  BY <1>12 DEF Environment, Interrupt, Plug, Unplug, StampInv, txVars,
     wireVars, timeVars, IsStop
<1>13. CASE Tick
  <2>1. StartupSilence <= upClock => StartupSilence <= upClock'
    BY <1>13, BoundsNat, CommandNat DEF Tick, Smaller
  <2> QED
    BY <1>13, <2>1 DEF Tick
<1>14. CASE UNCHANGED vars
  BY <1>14 DEF vars, txVars, wireVars, timeVars, IsStop
<1> QED
  BY <1>1, <1>2, <1>3, <1>4, <1>5, <1>6, <1>7, <1>8, <1>9, <1>10, <1>11, <1>12, <1>13, <1>14,
     <1>15
  DEF Next, Executor, Transmitter, Destroy, DestroySteps

LEMMA ReplaceInvNext == CommandInv /\ [Next]_vars => ReplaceInv'
<1> SUFFICES ASSUME CommandInv, [Next]_vars PROVE ReplaceInv'
  OBVIOUS
<1> USE DEF CommandInv, PortInv, ReplaceInv, OnLiveWire
<1>1. /\ FreshBound \in Nat /\ TxPeriod \in Nat /\ WriteTimeout \in Nat /\ StopBound \in Nat
      /\ StopBound = FreshBound + TxPeriod + WriteTimeout
      /\ NoPort \notin Handles /\ live \subseteq Handles
  BY BoundsNat, BridgeAssumption DEF StopBound, TypeOK, PortType
<1>2. ASSUME NEW t \in Twists, OnCmdVelSteer(t) PROVE ReplaceInv'
  BY <1>2 DEF OnCmdVelSteer, portVars, txVars, wireVars, IsStop
<1>3. CASE OnCmdVelThrottle \/ OnCmdVelStamp
  BY <1>3 DEF OnCmdVelThrottle, OnCmdVelStamp, portVars, exVars, txVars, wireVars, IsStop
<1>4. CASE TxLoop
  <2>1. txPc = "check" => txTimer = 0
    BY <1>4 DEF TxLoop
  <2>2. UNCHANGED <<ser, live, wire, wireAge, stop>>
    BY <1>4 DEF TxLoop, portVars, exVars, wireVars
  <2>3. txPc' \in {"done", "silence", "readSteer"} /\ txPc = "check" /\ (txPc' = "done" => stop)
    BY <1>4 DEF TxLoop
  <2> QED
    BY <1>1, <2>1, <2>2, <2>3, CommandNat DEF IsStop
<1>5. CASE SendReadSteer \/ SendReadThrottle
  BY <1>5 DEF SendReadSteer, SendReadThrottle, portVars, exVars, wireVars, IsStop
<1>6. CASE WriteLineSilence
  <2>1. ~IsStop(wire) => ~InStartupSilence
    BY BoundsNat, CommandNat DEF SilenceInv, InStartupSilence
  <2> QED
    BY <1>6, <2>1 DEF WriteLineSilence, portVars, exVars, wireVars, IsStop
<1>7. CASE WriteLineAcquire
  <2>1. CASE ser = NoPort
    BY <1>1, <1>7, <2>1 DEF WriteLineAcquire
  <2>2. CASE ser # NoPort
    <3>1. /\ UNCHANGED <<ser, live, wire, wireAge, stop>>
          /\ txPc = "acquire" /\ txPc' = "write" /\ txTimer' = WriteTimeout
      BY <1>7, <2>2 DEF WriteLineAcquire, exVars, wireVars
    <3>2. wireAge <= FreshBound + TxPeriod => wireAge + WriteTimeout <= StopBound
      BY <1>1, CommandNat
    <3> QED
      BY <3>1, <3>2 DEF IsStop
  <2> QED
    BY <2>1, <2>2
<1>8. CASE WriteLineDone
  <2>1. txPc = "write" /\ txPc' = "check" /\ txTimer' = TxPeriod /\ Transmit
    BY <1>8 DEF WriteLineDone, TxSleep
  <2>2. ~IsStop(wire') => wireAge' = txAge
    BY <2>1 DEF Transmit
  <2>3. ~IsStop(wire') => txAge + txTimer <= FreshBound
    BY <2>1 DEF CarryInv, Transmit, IsStop
  <2>4. txAge + txTimer <= FreshBound => txAge + TxPeriod <= FreshBound + TxPeriod
    BY <1>1, CommandNat
  <2> QED
    BY <2>1, <2>2, <2>3, <2>4
<1>9. CASE WriteLineFail \/ ReaderDrop
  BY <1>1, <1>9 DEF WriteLineFail, ReaderDrop, DropSerial
<1>10. CASE ReaderCopy \/ ReaderReturn \/ ReaderFail
  BY <1>10 DEF ReaderCopy, ReaderReturn, ReaderFail, portVars, exVars, txVars, wireVars, IsStop
<1>11. CASE ReconnectLoop
  BY <1>1, <1>11 DEF ReconnectLoop, exVars, txVars, wireVars, IsStop
<1>12. CASE ReconnectSet
  BY <1>12 DEF ReconnectSet, OpenInv, exVars, txVars, wireVars, IsStop
<1>13. CASE Destroy
  <2>1. stop' = stop /\ exPc \notin Running
    BY <1>13 DEF Destroy, DestroySteps, DestroyFlushDone, DestroyFlushFail, DestroyJoinTx, DestroyStopAcquire, DestroyStopDone,
       DestroyStopFail, DestroyJoinRecon, DestroyJoinRx, DestroyDrop, Running
  <2> QED
    BY <2>1 DEF JoinInv
<1>14. CASE Environment
  BY <1>14 DEF Environment, Interrupt, Plug, Unplug, portVars, exVars, txVars,
     wireVars, IsStop
<1>15. CASE Tick
  <2>1. UNCHANGED <<ser, live, wire, stop, txPc>>
    BY <1>15 DEF Tick, portVars
  <2>2. txPc = "acquire" => stop
    BY <1>15 DEF Tick, TransmitterDue, LockInv, JoinInv, Running, TypeOK, PortType
  <2>3. txPc = "done" => stop
    BY DEF JoinInv
  <2>4. FreshBound + TxPeriod \in Nat
    BY <1>1
  <2>5. /\ txPc = "check" /\ wireAge + txTimer <= FreshBound + TxPeriod =>
             wireAge' + txTimer' <= FreshBound + TxPeriod
        /\ txPc = "write" /\ wireAge + txTimer <= StopBound =>
             wireAge' + txTimer' <= StopBound
    BY <1>1, <1>15, <2>4, TickSteps, TickSums
  <2> QED
    BY <1>15, <2>1, <2>2, <2>3, <2>5, TickSteps DEF IsStop
<1>16. CASE UNCHANGED vars
  BY <1>16 DEF vars, portVars, exVars, txVars, wireVars, IsStop
<1> QED
  BY <1>2, <1>3, <1>4, <1>5, <1>6, <1>7, <1>8, <1>9, <1>10, <1>11, <1>12, <1>13, <1>14, <1>15, <1>16
  DEF Next, Executor, Transmitter, Reader, Reconnector

LEMMA CommandInvInit == Init => CommandInv
<1> SUFFICES ASSUME Init PROVE CommandInv
  OBVIOUS
<1>1. StampInv
  <2>1. CmdTimeout < ClockCap /\ ClockCap \in Nat /\ CmdTimeout \in Nat
    BY BridgeAssumption, BoundsNat DEF ClockCap
  <2> QED
    BY <2>1 DEF Init, StampInv
<1>2. CarryInv /\ SilenceInv /\ ReplaceInv
  BY DEF Init, CarryInv, SilenceInv, ReplaceInv, OnLiveWire, NoCommand, IsStop
<1> QED
  BY <1>1, <1>2, PortInvInit DEF CommandInv

LEMMA CommandInvNext == CommandInv /\ [Next]_vars => CommandInv'
BY SteadyIsStepped, TypeNext, LockInvNext, JoinInvNext, OpenInvNext, StampInvNext, CarryInvNext,
   SilenceInvNext, ReplaceInvNext DEF CommandInv, PortInv

\* cmd_timeout works end to end: with a clock that is never stepped back, and for
\* every choice of the periods and timeouts, a command that is not a stop stays on
\* the wire of a live port no longer than StopBound.
THEOREM Deadline == Spec => []StopDeadline
<1>1. CommandInv => StopDeadline
  <2> SUFFICES ASSUME CommandInv, OnLiveWire PROVE wireAge <= StopBound
    BY DEF StopDeadline, OnLiveWire
  <2>1. txPc # "done"
    BY DEF CommandInv, PortInv, JoinInv, OnLiveWire
  <2>2. /\ FreshBound + TxPeriod <= StopBound
        /\ FreshBound \in Nat /\ TxPeriod \in Nat /\ StopBound \in Nat
    BY BoundsNat DEF StopBound
  <2>3. TypeOK
    BY DEF CommandInv, PortInv
  <2> QED
    BY <2>1, <2>2, <2>3, CommandNat DEF CommandInv, ReplaceInv, TypeOK, TransmitterType
<1> QED
  BY <1>1, CommandInvInit, CommandInvNext, PTL DEF Spec

\* Whatever the interleaving of on_cmd_vel with _tx_loop, a command that is not a
\* stop is written only while both of the messages it is made of are fresh.
THEOREM Fresh == Spec => FreshWhenWritten
<1>1. CommandInv /\ [Next]_vars =>
        [wire' # wire /\ txPc = "write" /\ ~IsStop(wire') => wireAge' <= FreshBound]_vars
  <2> SUFFICES ASSUME CommandInv, [Next]_vars, wire' # wire, txPc = "write", ~IsStop(wire')
               PROVE  wireAge' <= FreshBound
    OBVIOUS
  <2>1. (WriteLineDone \/ WriteLineFail) /\ Transmit
    BY DEF Next, Executor, OnCmdVelSteer, OnCmdVelThrottle, OnCmdVelStamp, Transmitter, TxLoop,
       SendReadSteer, SendReadThrottle, WriteLineSilence, WriteLineAcquire, WriteLineDone,
       WriteLineFail, Reader, ReaderCopy, ReaderReturn, ReaderFail, ReaderDrop, Reconnector,
       ReconnectLoop, ReconnectSet, Destroy, DestroySteps, DestroyFlushDone,
       DestroyFlushFail, DestroyJoinTx, DestroyStopAcquire,
       DestroyStopDone, DestroyStopFail, DestroyJoinRecon, DestroyJoinRx, DestroyDrop,
       Environment, Interrupt, Plug, Unplug, Tick, vars, wireVars,
       CommandInv, PortInv, LockInv
  <2>2. wireAge' = txAge
    BY <2>1 DEF Transmit
  <2>3. txAge + txTimer <= FreshBound
    BY <2>1 DEF CommandInv, CarryInv, Transmit, IsStop
  <2>4. TypeOK
    BY DEF CommandInv, PortInv
  <2> QED
    BY <2>2, <2>3, <2>4, CommandNat, BoundsNat
<1> QED
  BY <1>1, CommandInvInit, CommandInvNext, PTL DEF Spec, FreshWhenWritten
-----------------------------------------------------------------------------
(* The promise of DeadMan, the shutdown included.                          *)

\* How long a throttle on a working link may still last, by where the
\* transmitter is and then by where destroy_node is.
DriveInv ==
  Driving =>
    /\ exPc \notin {"flush", "joinRecon", "joinRx", "drop", "exit"}
    /\ txPc = "check" => wireAge + txTimer <= FreshBound + TxPeriod
    /\ txPc \in {"readSteer", "readThrottle", "silence", "acquire"} =>
         wireAge <= FreshBound + TxPeriod
    /\ txPc = "write" => wireAge + txTimer <= StopBound
    /\ txPc = "done" /\ exPc # "stopWrite" => wireAge <= FreshBound + TxPeriod
    /\ exPc = "stopWrite" => wireAge + exTimer <= StopBound

PromiseInv == CommandInv /\ DriveInv

\* What a throttle on the link is on the wire, and what takes it off the link.
LEMMA DrivingFacts ==
  ASSUME CommandInv
  PROVE  /\ Driving => ser \in live /\ wire.h = ser /\ ~IsStop(wire) /\ ser # NoPort
         /\ ser' \notin live' \/ ser' # wire'.h \/ wire'.throttle = 0 => ~Driving'
         /\ UNCHANGED <<ser, live, wire, finalWrite>> => Driving' = Driving /\ LinkUp' = LinkUp
<1>1. NoPort \notin live
  BY BridgeAssumption DEF CommandInv, PortInv, TypeOK, PortType
<1> QED
  BY <1>1 DEF Driving, LinkUp, IsStop

\* Before the shutdown has joined the transmitter the last write is still to come.
LEMMA BeforeFinalWrite ==
  ASSUME CommandInv, txPc # "done"
  PROVE  finalWrite = "none" /\ exPc \in Running \cup {"joinTx"}
BY DEF CommandInv, PortInv, JoinInv, TypeOK, ExecutorType, Running

LEMMA BoundSums ==
  /\ FreshBound \in Nat /\ TxPeriod \in Nat /\ WriteTimeout \in Nat /\ StopBound \in Nat
  /\ StopBound = FreshBound + TxPeriod + WriteTimeout
  /\ FreshBound + TxPeriod \in Nat /\ AgeCap = StopBound + 1
BY BoundsNat DEF StopBound, AgeCap

\* Only the steps of the transmitter, of destroy_node and of time bear on
\* how long a throttle may last.
LEMMA DriveInvOthers ==
  ASSUME CommandInv, DriveInv,
         Executor \/ Reader \/ Reconnector \/ Environment \/ UNCHANGED vars
  PROVE  DriveInv'
<1> USE DEF DriveInv
<1>1. ASSUME NEW t \in Twists, OnCmdVelSteer(t) PROVE DriveInv'
  BY <1>1, DrivingFacts DEF OnCmdVelSteer, portVars, txVars, wireVars
<1>2. CASE OnCmdVelThrottle \/ OnCmdVelStamp
  BY <1>2, DrivingFacts DEF OnCmdVelThrottle, OnCmdVelStamp, portVars, txVars, wireVars
<1>3. NoPort \notin live
  BY BridgeAssumption DEF CommandInv, PortInv, TypeOK, PortType
<1>4. CASE ReaderDrop
  BY <1>3, <1>4, DrivingFacts DEF ReaderDrop, DropSerial
<1>5. CASE ReaderCopy \/ ReaderReturn \/ ReaderFail
  BY <1>5, DrivingFacts DEF ReaderCopy, ReaderReturn, ReaderFail, portVars, exVars, txVars, wireVars
<1>6. CASE ReconnectLoop
  <2>1. CASE live' = live
    BY <1>6, <2>1, DrivingFacts DEF ReconnectLoop, exVars, txVars, wireVars
  <2>2. CASE live' # live
    <3>1. ser' = NoPort /\ live' \subseteq live \cup Handles
      BY <1>6, <2>2 DEF ReconnectLoop
    <3> QED
      BY <1>3, <3>1, DrivingFacts, BridgeAssumption
  <2> QED
    BY <2>1, <2>2
<1>7. CASE ReconnectSet
  <2>1. ser' # wire'.h
    BY <1>7 DEF ReconnectSet, CommandInv, PortInv, OpenInv, wireVars
  <2> QED
    BY <2>1, DrivingFacts
<1>8. CASE Interrupt
  <2>1. UNCHANGED <<ser, live, wire, finalWrite, wireAge, txPc, txTimer>> /\ exPc' = "joinTx"
    BY <1>8 DEF Interrupt, portVars, txVars, wireVars
  <2>2. exPc # "stopWrite"
    BY <1>8 DEF Interrupt
  <2> QED
    BY <2>1, <2>2, DrivingFacts
<1>9. CASE Plug
  BY <1>9, DrivingFacts DEF Plug, exVars, txVars, wireVars
<1>10. CASE Unplug
  BY <1>10, DrivingFacts DEF Unplug
<1>11. CASE UNCHANGED vars
  BY <1>11, DrivingFacts DEF vars, portVars, exVars, txVars, wireVars
<1> QED
  BY <1>1, <1>2, <1>4, <1>5, <1>6, <1>7, <1>8, <1>9, <1>10, <1>11
  DEF Executor, Reader, Reconnector, Environment

LEMMA DriveInvTransmitter ==
  ASSUME CommandInv, DriveInv, Transmitter
  PROVE  DriveInv'
<1> USE DEF DriveInv
<1>1. TypeOK
  BY DEF CommandInv, PortInv
<1>2. txPc # "done" /\ exPc' = exPc /\ finalWrite' = finalWrite
  BY DEF Transmitter, TxLoop, SendReadSteer, SendReadThrottle, WriteLineSilence,
     WriteLineAcquire, WriteLineDone, WriteLineFail, exVars
<1>3. finalWrite = "none" /\ exPc \in Running \cup {"joinTx"}
  BY <1>2, BeforeFinalWrite
<1>4. exPc' \notin {"flush", "joinRecon", "joinRx", "drop", "exit", "stopWrite"}
  BY <1>2, <1>3 DEF Running
<1>5. CASE TxLoop
  <2>1. UNCHANGED <<ser, live, wire, finalWrite, wireAge>>
    BY <1>5 DEF TxLoop, portVars, exVars, wireVars
  <2>2. txPc = "check" /\ txTimer = 0 /\ txPc' \in {"done", "silence", "readSteer"}
    BY <1>5 DEF TxLoop
  <2>3. Driving => wireAge <= FreshBound + TxPeriod
    BY <1>1, <2>2, CommandNat
  <2> QED
    BY <1>4, <2>1, <2>2, <2>3, DrivingFacts
<1>6. CASE SendReadSteer \/ SendReadThrottle
  BY <1>4, <1>6, DrivingFacts DEF SendReadSteer, SendReadThrottle, portVars, exVars, wireVars
<1>7. CASE WriteLineSilence
  <2>1. ~IsStop(wire) => ~InStartupSilence
    BY <1>1, BoundsNat, CommandNat DEF CommandInv, SilenceInv, InStartupSilence
  <2>2. Driving => ~InStartupSilence
    BY <2>1, DrivingFacts
  <2> QED
    BY <1>4, <1>7, <2>2, DrivingFacts DEF WriteLineSilence, portVars, exVars, wireVars
<1>8. CASE WriteLineAcquire
  <2>1. UNCHANGED <<ser, live, wire, finalWrite, wireAge>> /\ txPc = "acquire"
    BY <1>8 DEF WriteLineAcquire, exVars, wireVars
  <2>2. Driving => txPc' = "write" /\ txTimer' = WriteTimeout
    BY <1>8, DrivingFacts DEF WriteLineAcquire
  <2>3. wireAge <= FreshBound + TxPeriod => wireAge + WriteTimeout <= StopBound
    BY <1>1, BoundSums, CommandNat
  <2> QED
    BY <1>4, <2>1, <2>2, <2>3, DrivingFacts
<1>9. CASE WriteLineDone
  <2>1. txPc = "write" /\ txPc' = "check" /\ txTimer' = TxPeriod /\ Transmit
    BY <1>9 DEF WriteLineDone, TxSleep
  <2>2. wire'.throttle # 0 => wireAge' = txAge /\ txAge + txTimer <= FreshBound
    BY <2>1 DEF Transmit, IsStop, CommandInv, CarryInv
  <2>3. txAge + txTimer <= FreshBound => txAge + TxPeriod <= FreshBound + TxPeriod
    BY <1>1, BoundSums, CommandNat
  <2> QED
    BY <1>4, <2>1, <2>2, <2>3, DrivingFacts
<1>10. CASE WriteLineFail
  <2>1. ser' \notin live'
    BY <1>10, BridgeAssumption DEF WriteLineFail, DropSerial, CommandInv, PortInv, TypeOK, PortType
  <2> QED
    BY <2>1, DrivingFacts
<1> QED
  BY <1>5, <1>6, <1>7, <1>8, <1>9, <1>10 DEF Transmitter

LEMMA DriveInvDestroy ==
  ASSUME CommandInv, DriveInv, Destroy
  PROVE  DriveInv'
<1> USE DEF DriveInv
<1>1. TypeOK
  BY DEF CommandInv, PortInv
<1>2. exPc \notin Running \cup {"joinTx"} => txPc = "done"
  BY DEF CommandInv, PortInv, JoinInv
<1>3. CASE DestroyJoinTx
  <2>1. txPc = "done"
    BY <1>1, <1>3, BoundsNat, CommandNat DEF DestroyJoinTx, CommandInv, PortInv, JoinInv
  <2> QED
    BY <1>3, <2>1, DrivingFacts DEF DestroyJoinTx, portVars, txVars, wireVars
<1>4. CASE DestroyStopAcquire
  <2>1. UNCHANGED <<ser, live, wire, finalWrite, wireAge, txPc, txTimer>> /\ exPc = "stopAcquire"
    BY <1>4 DEF DestroyStopAcquire, txVars, wireVars
  <2>2. Driving => exPc' = "stopWrite" /\ exTimer' = WriteTimeout
    BY <1>4, DrivingFacts DEF DestroyStopAcquire
  <2>3. txPc = "done"
    BY <1>2, <2>1 DEF Running
  <2>4. wireAge <= FreshBound + TxPeriod => wireAge + WriteTimeout <= StopBound
    BY <1>1, BoundSums, CommandNat
  <2> QED
    BY <2>1, <2>2, <2>3, <2>4, DrivingFacts
<1>5. CASE DestroyStopDone
  BY <1>5, DrivingFacts DEF DestroyStopDone
<1>6. CASE DestroyStopFail
  BY <1>6 DEF DestroyStopFail, Driving, LinkUp
<1>9. CASE DestroyFlushDone
  BY <1>9 DEF DestroyFlushDone, Driving, LinkUp, wireVars
<1>10. CASE DestroyFlushFail
  BY <1>10 DEF DestroyFlushFail, Driving, LinkUp
<1>7. CASE DestroyJoinRecon \/ DestroyJoinRx
  BY <1>7, DrivingFacts DEF DestroyJoinRecon, DestroyJoinRx, portVars, txVars, wireVars
<1>8. CASE DestroyDrop
  BY <1>8, DrivingFacts DEF DestroyDrop
<1> QED
  BY <1>3, <1>4, <1>5, <1>6, <1>7, <1>8, <1>9, <1>10 DEF Destroy, DestroySteps

\* Time passes over a throttle only while its deadline is not there.
LEMMA DriveInvTick ==
  ASSUME CommandInv, DriveInv, Tick
  PROVE  DriveInv' /\ (Driving => wireAge < StopBound)
<1>1. TypeOK /\ LockInv /\ JoinInv
  BY DEF CommandInv, PortInv
<1>2. UNCHANGED <<ser, live, wire, finalWrite, txPc, exPc>>
  BY DEF Tick, portVars
<1>3. /\ txPc \notin {"readSteer", "readThrottle", "silence"}
      /\ txPc \in {"check", "write"} => txTimer > 0
      /\ wireAge' <= wireAge + 1
  BY <1>1, TickSteps
<1>4. txPc = "acquire" => FALSE
  BY <1>1 DEF Tick, TransmitterDue, LockInv, JoinInv, Running, TypeOK, PortType
<1>5. txPc = "done" => exPc \notin {"joinTx", "stopAcquire"} \cup Running
  BY <1>1 DEF Tick, ExecutorDue, LockInv, JoinInv, Running, TypeOK, PortType
<1>6. exTimer \in Nat /\ wireAge \in Nat /\ txTimer \in Nat
  BY <1>1, CommandNat DEF TypeOK, ExecutorType
<1>7. exPc = "stopWrite" => exTimer > 0 /\ exTimer' = exTimer - 1 /\ txPc = "done"
  BY <1>1, <1>6 DEF Tick, ExecutorDue, Left, Larger, JoinInv, Running
<1>8. CASE ~Driving
  BY <1>2, <1>8, DrivingFacts DEF DriveInv
<1>9. CASE Driving /\ txPc = "check"
  <2>1. wireAge + txTimer <= FreshBound + TxPeriod /\ txTimer > 0
    BY <1>3, <1>9 DEF DriveInv
  <2>2. wireAge' + txTimer' <= FreshBound + TxPeriod
    BY <1>1, <2>1, TickSums, BoundSums
  <2>3. exPc # "stopWrite" /\ exPc \notin {"flush", "joinRecon", "joinRx", "drop", "exit"}
    BY <1>7, <1>9 DEF DriveInv
  <2>4. wireAge < StopBound
    BY <1>6, <2>1, BoundSums
  <2> QED
    BY <1>2, <1>9, <2>2, <2>3, <2>4 DEF DriveInv
<1>10. CASE Driving /\ txPc = "write"
  <2>1. wireAge + txTimer <= StopBound /\ txTimer > 0
    BY <1>3, <1>10 DEF DriveInv
  <2>2. wireAge' + txTimer' <= StopBound
    BY <1>1, <2>1, TickSums, BoundSums
  <2>3. exPc # "stopWrite" /\ exPc \notin {"flush", "joinRecon", "joinRx", "drop", "exit"}
    BY <1>7, <1>10 DEF DriveInv
  <2>4. wireAge < StopBound
    BY <1>6, <2>1, BoundSums
  <2> QED
    BY <1>2, <1>10, <2>2, <2>3, <2>4 DEF DriveInv
<1>11. CASE Driving /\ txPc = "done"
  <2>1. exPc = "stopWrite"
    BY <1>1, <1>5, <1>11 DEF DriveInv, TypeOK, ExecutorType, Running
  <2>2. wireAge + exTimer <= StopBound
    BY <1>11, <2>1 DEF DriveInv
  <2>3. wireAge' \in Nat
    BY TypeNext, CommandNat, <1>1 DEF SteppedNext, Next, TypeOK, WireType, Ages
  <2> DEFINE wired == wireAge'   timer == exTimer'
  <2>4. wired \in Nat /\ wired <= wireAge + 1 /\ timer = exTimer - 1 /\ exTimer > 0
    BY <1>3, <1>7, <2>1, <2>3
  <2> HIDE DEF wired, timer
  <2>5. wired + timer <= StopBound /\ wireAge < StopBound
    BY <1>6, <2>2, <2>4, BoundSums
  <2>6. wireAge' + exTimer' <= StopBound
    BY <2>5 DEF wired, timer
  <2> QED
    BY <1>2, <1>11, <2>1, <2>5, <2>6 DEF DriveInv
<1> QED
  BY <1>1, <1>3, <1>4, <1>8, <1>9, <1>10, <1>11 DEF TypeOK, TransmitterType

LEMMA PromiseInvNext == PromiseInv /\ [Next]_vars => PromiseInv'
BY CommandInvNext, DriveInvOthers, DriveInvTransmitter, DriveInvDestroy, DriveInvTick
DEF PromiseInv, Next

\* A link that goes takes the throttle with it; no link, nothing to see.
LEMMA LinkLost ==
  ASSUME ~LinkUp' PROVE DM!Lose \/ UNCHANGED DM!vars
<1>1. ~Driving'
  BY DEF Driving
<1>2. CASE LinkUp
  BY <1>1, <1>2 DEF DM!Lose
<1>3. CASE ~LinkUp
  <2>1. ~Driving
    BY <1>3 DEF Driving
  <2>2. LinkUp' = LinkUp /\ Driving' = Driving
    BY <1>1, <1>3, <2>1 DEF LinkUp, Driving
  <2> QED
    BY <1>1, <2>1, <2>2 DEF DM!vars
<1> QED
  BY <1>2, <1>3

\* A step that leaves the port and the wire alone is invisible.
LEMMA Invisible ==
  ASSUME UNCHANGED <<ser, live, wire, wireAge, finalWrite>>
  PROVE  UNCHANGED DM!vars
BY DEF DM!vars, Driving, LinkUp

LEMMA WriteRefines ==
  ASSUME CommandInv, ser \in live, ser' = ser, live' = live, finalWrite = "none",
         finalWrite' # "failed", wire'.h = ser,
         wire'.throttle # 0 => wireAge' \in 0..FreshBound
  PROVE  DM!PutDrive \/ DM!PutStop
<1>1. LinkUp /\ LinkUp' /\ (Driving' <=> wire'.throttle # 0)
  BY DEF LinkUp, Driving
<1>2. CASE wire'.throttle # 0
  BY <1>1, <1>2 DEF DM!PutDrive
<1>3. CASE wire'.throttle = 0
  BY <1>1, <1>3 DEF DM!PutStop
<1> QED
  BY <1>2, <1>3

LEMMA TransmitterRefines ==
  ASSUME CommandInv, Transmitter
  PROVE  [DM!Next]_(DM!vars)
<1>1. CASE TxLoop \/ SendReadSteer \/ SendReadThrottle \/ WriteLineSilence \/ WriteLineAcquire
  BY <1>1, Invisible DEF TxLoop, SendReadSteer, SendReadThrottle, WriteLineSilence,
     WriteLineAcquire, portVars, exVars, wireVars
<1>2. CASE WriteLineDone
  <2>1. /\ ser \in live /\ ser' = ser /\ live' = live /\ finalWrite' = finalWrite
        /\ txPc = "write" /\ Transmit /\ wire'.h = ser
    BY <1>2 DEF WriteLineDone, Transmit, exVars
  <2>2. finalWrite = "none"
    BY <2>1, BeforeFinalWrite
  <2>3. wire'.throttle # 0 => wireAge' = txAge /\ txAge + txTimer <= FreshBound
    BY <2>1 DEF Transmit, IsStop, CommandInv, CarryInv
  <2>4. wire'.throttle # 0 => wireAge' \in 0..FreshBound
    BY <2>3, BoundSums, CommandNat DEF CommandInv, PortInv
  <2> QED
    BY <2>1, <2>2, <2>4, WriteRefines DEF DM!Next
<1>3. CASE WriteLineFail
  <2>1. ~LinkUp'
    BY <1>3, BridgeAssumption
    DEF WriteLineFail, DropSerial, LinkUp, CommandInv, PortInv, TypeOK, PortType
  <2> QED
    BY <2>1, LinkLost DEF DM!Next
<1> QED
  BY <1>1, <1>2, <1>3 DEF Transmitter

LEMMA DestroyRefines ==
  ASSUME CommandInv, Destroy
  PROVE  [DM!Next]_(DM!vars)
<1>1. CASE \/ DestroyJoinTx \/ DestroyStopAcquire \/ DestroyFlushDone
           \/ DestroyJoinRecon \/ DestroyJoinRx
  BY <1>1, Invisible DEF DestroyJoinTx, DestroyStopAcquire, DestroyFlushDone,
     DestroyJoinRecon, DestroyJoinRx, portVars, wireVars
<1>2. CASE DestroyStopDone
  <2>1. /\ ser \in live /\ ser' = ser /\ live' = live /\ finalWrite' = "done"
        /\ wire'.h = ser /\ wire'.throttle = 0 /\ exPc = "stopWrite"
    BY <1>2 DEF DestroyStopDone, portVars
  <2>2. finalWrite = "none"
    BY <2>1 DEF CommandInv, PortInv, JoinInv, TypeOK, ExecutorType
  <2> QED
    BY <2>1, <2>2, WriteRefines DEF DM!Next
<1>3. CASE DestroyStopFail \/ DestroyFlushFail \/ DestroyDrop
  <2>1. ~LinkUp'
    BY <1>3 DEF DestroyStopFail, DestroyFlushFail, DestroyDrop, LinkUp
  <2> QED
    BY <2>1, LinkLost DEF DM!Next
<1> QED
  BY <1>1, <1>2, <1>3 DEF Destroy, DestroySteps

LEMMA PortRefines ==
  ASSUME CommandInv, Executor \/ Reader \/ Reconnector \/ Environment \/ UNCHANGED vars
  PROVE  [DM!Next]_(DM!vars)
<1>1. NoPort \notin live /\ NoPort \notin Handles
  BY BridgeAssumption DEF CommandInv, PortInv, TypeOK, PortType
<1>2. ASSUME NEW t \in Twists, OnCmdVelSteer(t) PROVE UNCHANGED DM!vars
  BY <1>2, Invisible DEF OnCmdVelSteer, portVars, wireVars
<1>3. CASE OnCmdVelThrottle \/ OnCmdVelStamp \/ Interrupt \/ Plug \/ UNCHANGED vars
  BY <1>3, Invisible DEF OnCmdVelThrottle, OnCmdVelStamp, Interrupt, Plug, vars, portVars,
     exVars, wireVars
<1>4. CASE ReaderCopy \/ ReaderReturn \/ ReaderFail
  BY <1>4, Invisible DEF ReaderCopy, ReaderReturn, ReaderFail, portVars, exVars, wireVars
<1>5. CASE ReaderDrop \/ Unplug
  <2>1. ~LinkUp'
    BY <1>1, <1>5 DEF ReaderDrop, DropSerial, Unplug, LinkUp
  <2> QED
    BY <2>1, LinkLost DEF DM!Next
<1>6. CASE ReconnectLoop
  <2>1. CASE live' = live
    BY <1>6, <2>1, Invisible DEF ReconnectLoop, exVars, wireVars
  <2>2. CASE live' # live
    <3>1. ser' = NoPort /\ live' \subseteq live \cup Handles
      BY <1>6, <2>2 DEF ReconnectLoop
    <3>2. ~LinkUp'
      BY <1>1, <3>1 DEF LinkUp
    <3> QED
      BY <3>2, LinkLost DEF DM!Next
  <2> QED
    BY <2>1, <2>2
<1>7. CASE ReconnectSet
  <2>1. ser = NoPort /\ ser' = recSer /\ recSer # wire.h /\ wire' = wire
    BY <1>7 DEF ReconnectSet, CommandInv, PortInv, OpenInv, wireVars
  <2>2. ~LinkUp /\ ~Driving /\ ~Driving'
    BY <1>1, <2>1 DEF LinkUp, Driving
  <2>3. Driving' = Driving
    BY <2>2 DEF Driving
  <2>4. LinkUp' => DM!Connect
    BY <2>2, <2>3 DEF DM!Connect
  <2> QED
    BY <2>4, LinkLost DEF DM!Next
<1> QED
  BY <1>2, <1>3, <1>4, <1>5, <1>6, <1>7 DEF Executor, Reader, Reconnector, Environment

LEMMA TickRefines ==
  ASSUME PromiseInv, Tick
  PROVE  [DM!Next]_(DM!vars)
<1>1. Driving' = Driving /\ LinkUp' = LinkUp /\ wire' = wire
  BY DrivingFacts DEF PromiseInv, Tick, portVars
<1>2. CASE ~Driving
  BY <1>1, <1>2 DEF DM!vars
<1>3. CASE Driving
  <2>1. wireAge < StopBound
    BY <1>3, DriveInvTick DEF PromiseInv
  <2>2. wireAge' = Older(wireAge)
    BY <1>3, DrivingFacts DEF Tick, PromiseInv
  <2>3. wireAge' = wireAge + 1
    BY <2>1, <2>2, BoundSums, CommandNat
    DEF Older, Smaller, PromiseInv, CommandInv, PortInv
  <2>4. DM!Pass
    BY <1>1, <1>3, <2>1, <2>3 DEF DM!Pass
  <2> QED
    BY <2>4 DEF DM!Next
<1> QED
  BY <1>2, <1>3

\* The node implements DeadMan, for every choice of its periods and timeouts: each
\* of its steps is one of DeadMan or invisible to it, up to the end of destroy_node.
THEOREM Refines == Spec => ImplementsDeadMan
<1>1. Init => DM!Init /\ PromiseInv
  <2> SUFFICES ASSUME Init PROVE DM!Init /\ PromiseInv
    OBVIOUS
  <2>1. ~LinkUp /\ ~Driving
    BY DEF Init, LinkUp, Driving
  <2> QED
    BY <2>1, CommandInvInit DEF DM!Init, PromiseInv, DriveInv
<1>2. PromiseInv /\ [Next]_vars => [DM!Next]_(DM!vars)
  BY TransmitterRefines, DestroyRefines, PortRefines, TickRefines DEF PromiseInv, Next
<1> QED
  BY <1>1, <1>2, PromiseInvNext, PTL DEF Spec, ImplementsDeadMan, DM!Spec
-----------------------------------------------------------------------------
(* The bytes: what the board holds after broken writes.                    *)

Kinds == {"S", "A", "T", "H", "newline", "number", "head", "tail"}
Byte  == [kind : Kinds, value : Int]

LinesType ==
  /\ rx \in Seq(Byte) /\ serialBuffer \in Seq(Byte)
  /\ throttle_cmd \in Int /\ steer_auto_deg \in Int
  /\ sent \subseteq Commands /\ meant \in [sa : Clamped(SteerLimit), th : Clamped(Full)]
  /\ inStep \in 0..2 /\ port \in BOOLEAN /\ halted \in BOOLEAN
  /\ booting \in BOOLEAN /\ lost \in BOOLEAN

\* A line is four bytes.  The proofs keep the number itself out of sight.
LineSize == 4

\* What the board has not made a command of yet.
Pending == serialBuffer \o rx

\* The text q is what is pending, or comes at its end after a newline.
Due(q) ==
  \/ Pending = q /\ Len(serialBuffer) < LineSize
  \/ /\ Len(rx) > Len(q) /\ rx[Len(rx) - Len(q)] = Newline
     /\ \A i \in 1..Len(q) : rx[Len(rx) - Len(q) + i] = q[i]

ThrottleLine(x) == Line("T", "H", x)
SteerLine(x)    == Line("S", "A", x)

\* After one whole pair the board has its throttle, or the line that says it is due.
ThrottleInv ==
  inStep >= 1 => \/ Pending = <<>> /\ throttle_cmd = meant.th
                 \/ Due(ThrottleLine(meant.th))

\* One throttle line, and the one of destroy_node after it.
OnlyThrottle(q) ==
  /\ Len(q) = 0 \/ Len(q) = LineSize \/ (Len(q) = 2 * LineSize /\ halted)
  /\ \A i \in 1..Len(q) : /\ i \in {LineSize, 2 * LineSize} <=> q[i] = Newline
                          /\ i \in {1, LineSize + 1} => q[i].kind = "T"

\* After two whole pairs it has the steering, and only throttle lines to read, or the
\* line that says it is due before them.
SteerInv ==
  inStep = 2 => \E q \in Seq(Byte) :
    /\ OnlyThrottle(q)
    /\ \/ Pending = q /\ Len(serialBuffer) < LineSize /\ steer_auto_deg = meant.sa
       \/ Due(SteerLine(meant.sa) \o q)

\* The value v after the letter k is one of the commands cs.
Fits(cs, k, v) ==
  \E c \in cs \cup {Stop} : (k = "A" /\ v = c.sa) \/ (k = "H" /\ v = c.th)

\* Every number pending follows the letter it was written after.
GluedBytes ==
  \A i \in 1..Len(Pending) :
    /\ Pending[i].kind # "tail"
    /\ Pending[i].kind \in Digits /\ i > 1 => Fits(sent, Pending[i - 1].kind, Pending[i].value)

\* So it is while no byte is lost.
GlueInv == ~lost => CutsOnlyShorten /\ GluedBytes

\* A board that loses bytes in setup() has a full buffer, and no whole pair fits.
BootInv  == booting /\ lost => Len(rx) = Room /\ inStep = 0
HaltInv  == halted => ~port
MeantInv == \E c, d \in sent \cup {Stop} : meant.th = c.th /\ meant.sa = d.sa

LinesInv ==
  LinesType /\ ThrottleInv /\ SteerInv /\ GlueInv /\ BootInv /\ HaltInv /\ MeantInv

LEMMA LineLimits ==
  /\ Full \in Nat /\ SteerLimit \in Nat /\ Room \in Nat
  /\ BufferSize \in Nat /\ BufferSize >= 3
  /\ \A c \in Commands \cup {Stop} : c.sa \in Clamped(SteerLimit) /\ c.th \in Clamped(Full)
  /\ \A c \in Commands : c \in [sa : Clamped(SteerLimit), th : Clamped(Full)]
  /\ Clamped(SteerLimit) \subseteq Int /\ Clamped(Full) \subseteq Int
BY LinesAssumption DEF Clamped, Stop

-----------------------------------------------------------------------------
(* Texts.                                                                  *)

LEMMA ConcatBytes ==
  ASSUME NEW s \in Seq(Byte), NEW t \in Seq(Byte)
  PROVE  /\ s \o t \in Seq(Byte) /\ Len(s \o t) = Len(s) + Len(t)
         /\ Len(s) \in Nat /\ Len(t) \in Nat
         /\ \A i \in 1..Len(s) : (s \o t)[i] = s[i]
         /\ \A i \in 1..Len(t) : (s \o t)[Len(s) + i] = t[i]
<1>1. /\ s \o t \in Seq(Byte) /\ Len(s \o t) = Len(s) + Len(t)
      /\ \A i \in 1..Len(s) + Len(t) : (s \o t)[i] = IF i <= Len(s) THEN s[i] ELSE t[i - Len(s)]
  BY ConcatProperties
<1>2. Len(s) \in Nat /\ Len(t) \in Nat BY LenProperties
<1>3. ASSUME NEW i \in 1..Len(t) PROVE (s \o t)[Len(s) + i] = t[i]
  <2>1. Len(s) + i \in 1..Len(s) + Len(t) /\ ~(Len(s) + i <= Len(s)) /\ Len(s) + i - Len(s) = i
    BY <1>2
  <2> QED BY <1>1, <2>1
<1>4. ASSUME NEW i \in 1..Len(s) PROVE (s \o t)[i] = s[i]
  BY <1>1, <1>2
<1> QED BY <1>1, <1>2, <1>3, <1>4

LEMMA BytesAssociative ==
  ASSUME NEW s \in Seq(Byte), NEW t \in Seq(Byte), NEW u \in Seq(Byte)
  PROVE  (s \o t) \o u = s \o (t \o u)
BY ConcatAssociative

LEMMA FourBytes == LineSize \in Nat /\ LineSize >= 4 /\ LineSize <= 4
BY DEF LineSize

LEMMA LineBytes ==
  ASSUME NEW a \in Kinds, NEW b \in Kinds, NEW x \in Int
  PROVE  /\ Line(a, b, x) \in Seq(Byte) /\ Len(Line(a, b, x)) = LineSize
         /\ Line(a, b, x)[1] = Letter(a) /\ Line(a, b, x)[2] = Letter(b)
         /\ Line(a, b, x)[3] = Number(x) /\ Line(a, b, x)[LineSize] = Newline
<1>1. Letter(a) \in Byte /\ Letter(b) \in Byte /\ Number(x) \in Byte /\ Newline \in Byte
  BY DEF Letter, Number, Newline, Byte, Kinds
<1> QED BY <1>1 DEF Line, LineSize

LEMMA ThrottleBytes ==
  ASSUME NEW x \in Int
  PROVE  LET q == ThrottleLine(x) IN
         /\ q \in Seq(Byte) /\ Len(q) = LineSize /\ q[LineSize] = Newline
         /\ q[1] = Letter("T") /\ q[2] = Letter("H") /\ q[3] = Number(x)
         /\ \A i \in 1..LineSize - 1 : q[i] # Newline
<1>1. {"T", "H"} \subseteq Kinds BY DEF Kinds
<1>2. Letter("T") # Newline /\ Letter("H") # Newline /\ Number(x) # Newline
  BY DEF Letter, Number, Newline
<1>3. \A i \in 1..LineSize - 1 : i = 1 \/ i = 2 \/ i = 3 BY FourBytes
<1> DEFINE q == Line("T", "H", x)
<1>4. /\ q \in Seq(Byte) /\ Len(q) = LineSize /\ q[LineSize] = Newline
      /\ q[1] = Letter("T") /\ q[2] = Letter("H") /\ q[3] = Number(x)
  BY <1>1, LineBytes
<1> HIDE DEF q
<1>5. \A i \in 1..LineSize - 1 : q[i] # Newline BY <1>2, <1>3, <1>4
<1> QED BY <1>4, <1>5 DEF ThrottleLine, q

LEMMA SteerBytes ==
  ASSUME NEW x \in Int
  PROVE  LET q == SteerLine(x) IN
         /\ q \in Seq(Byte) /\ Len(q) = LineSize /\ q[LineSize] = Newline
         /\ q[1] = Letter("S") /\ q[2] = Letter("A") /\ q[3] = Number(x)
         /\ \A i \in 1..LineSize - 1 : q[i] # Newline
<1>1. {"S", "A"} \subseteq Kinds BY DEF Kinds
<1>2. Letter("S") # Newline /\ Letter("A") # Newline /\ Number(x) # Newline
  BY DEF Letter, Number, Newline
<1>3. \A i \in 1..LineSize - 1 : i = 1 \/ i = 2 \/ i = 3 BY FourBytes
<1> DEFINE q == Line("S", "A", x)
<1>4. /\ q \in Seq(Byte) /\ Len(q) = LineSize /\ q[LineSize] = Newline
      /\ q[1] = Letter("S") /\ q[2] = Letter("A") /\ q[3] = Number(x)
  BY <1>1, LineBytes
<1> HIDE DEF q
<1>5. \A i \in 1..LineSize - 1 : q[i] # Newline BY <1>2, <1>3, <1>4
<1> QED BY <1>4, <1>5 DEF SteerLine, q

LEMMA PairBytes ==
  ASSUME NEW c \in Commands
  PROVE  /\ SteerLine(c.sa) \in Seq(Byte) /\ Len(SteerLine(c.sa)) = LineSize
         /\ ThrottleLine(c.th) \in Seq(Byte) /\ Len(ThrottleLine(c.th)) = LineSize
         /\ Pair(c) \in Seq(Byte) /\ Len(Pair(c)) = 2 * LineSize
         /\ Pair(c) = SteerLine(c.sa) \o ThrottleLine(c.th)
         /\ \A i \in 1..LineSize : /\ Pair(c)[i] = SteerLine(c.sa)[i]
                                   /\ Pair(c)[LineSize + i] = ThrottleLine(c.th)[i]
<1>1. c.sa \in Int /\ c.th \in Int BY LineLimits
<1>2. {"S", "A", "T", "H"} \subseteq Kinds BY DEF Kinds
<1>3. SteerLine(c.sa) \in Seq(Byte) /\ Len(SteerLine(c.sa)) = LineSize
  BY <1>1, <1>2, LineBytes DEF SteerLine
<1>4. ThrottleLine(c.th) \in Seq(Byte) /\ Len(ThrottleLine(c.th)) = LineSize
  BY <1>1, <1>2, LineBytes DEF ThrottleLine
<1>5. Pair(c) = SteerLine(c.sa) \o ThrottleLine(c.th)
  BY DEF Pair, SteerLine, ThrottleLine
<1> QED BY <1>3, <1>4, <1>5, ConcatBytes, FourBytes

\* A text that ends anywhere keeps its bytes, but for a number that is cut.
LEMMA HeadBytes ==
  ASSUME NEW text \in Seq(Byte), NEW h \in Heads(text)
  PROVE  /\ h \in Seq(Byte) /\ Len(h) <= Len(text)
         /\ \A i \in 1..Len(h) :
              \/ h[i] = text[i]
              \/ text[i].kind = "number" /\ h[i].kind = "head" /\ h[i].value = text[i].value
<1>0. Len(text) \in Nat /\ DOMAIN text = 1..Len(text) /\ \A i \in 1..Len(text) : text[i] \in Byte
  BY LenProperties, ElementOfSeq
<1>1. ASSUME NEW n \in 0..Len(text)
      PROVE  /\ SubSeq(text, 1, n) \in Seq(Byte) /\ Len(SubSeq(text, 1, n)) = n
             /\ \A i \in 1..n : SubSeq(text, 1, n)[i] = text[i]
  BY <1>0, SubSeqProperties
<1>2. CASE \E n \in 0..Len(text) : h = SubSeq(text, 1, n) BY <1>0, <1>1, <1>2
<1>3. CASE \E n \in Numbers(text) : h = [SubSeq(text, 1, n) EXCEPT ![n].kind = "head"]
  <2>1. PICK n \in 1..Len(text) : /\ text[n].kind = "number"
                                  /\ h = [SubSeq(text, 1, n) EXCEPT ![n].kind = "head"]
    BY <1>0, <1>3 DEF Numbers
  <2> DEFINE s == SubSeq(text, 1, n)
  <2>2. s \in Seq(Byte) /\ Len(s) = n /\ \A i \in 1..n : s[i] = text[i] BY <1>1
  <2> HIDE DEF s
  <2>8. s[n] \in Byte /\ s[n] = text[n] BY <2>2, ElementOfSeq
  <2>3. [s[n] EXCEPT !.kind = "head"] \in Byte BY <2>8 DEF Byte, Kinds
  <2>4. h = [s EXCEPT ![n] = [s[n] EXCEPT !.kind = "head"]] BY <2>1 DEF s
  <2>5. h \in Seq(Byte) /\ Len(h) = n BY <2>2, <2>3, <2>4, ExceptSeq
  <2>6. \A i \in 1..n : h[i] = IF i = n THEN [s[n] EXCEPT !.kind = "head"] ELSE s[i]
    BY <2>2, <2>3, <2>4, ExceptSeq
  <2>7. [s[n] EXCEPT !.kind = "head"].kind = "head" /\ [s[n] EXCEPT !.kind = "head"].value = s[n].value
    BY <2>8 DEF Byte
  <2> HIDE DEF s
  <2> QED BY <1>0, <2>1, <2>2, <2>5, <2>6, <2>7, <2>8
<1> QED BY <1>2, <1>3 DEF Heads

LEMMA TailBytes ==
  ASSUME NEW text \in Seq(Byte), NEW t \in Tails(text)
  PROVE  t \in Seq(Byte)
<1>0. Len(text) \in Nat /\ DOMAIN text = 1..Len(text) /\ \A i \in 1..Len(text) : text[i] \in Byte
  BY LenProperties, ElementOfSeq
<1>1. ASSUME NEW n \in 1..Len(text) + 1
      PROVE  /\ SubSeq(text, n, Len(text)) \in Seq(Byte)
             /\ n <= Len(text) => Len(SubSeq(text, n, Len(text))) >= 1
  BY <1>0, SubSeqProperties
<1>2. CASE \E n \in 1..Len(text) + 1 : t = SubSeq(text, n, Len(text)) BY <1>1, <1>2
<1>3. CASE \E n \in Numbers(text) : t = [SubSeq(text, n, Len(text)) EXCEPT ![1].kind = "tail"]
  <2>1. PICK n \in 1..Len(text) : t = [SubSeq(text, n, Len(text)) EXCEPT ![1].kind = "tail"]
    BY <1>0, <1>3 DEF Numbers
  <2> DEFINE s == SubSeq(text, n, Len(text))
  <2>2. s \in Seq(Byte) /\ Len(s) >= 1 BY <1>0, <1>1
  <2>3. t = [s EXCEPT ![1] = [s[1] EXCEPT !.kind = "tail"]] BY <2>1
  <2> HIDE DEF s
  <2>4. s[1] \in Byte /\ 1 \in 1..Len(s) BY <2>2, LenProperties, ElementOfSeq
  <2>5. [s[1] EXCEPT !.kind = "tail"] \in Byte BY <2>4 DEF Byte, Kinds
  <2> QED BY <2>2, <2>3, <2>4, <2>5, ExceptSeq
<1> QED BY <1>2, <1>3 DEF Tails

\* What the board has after a text, received whole or not.
LEMMA ReceivedBytes ==
  ASSUME LinesType, NEW text \in Seq(Byte), NEW gap \in BOOLEAN, Receives(text, gap)
  PROVE  /\ rx' \in Seq(Byte) /\ booting' \in BOOLEAN
         /\ ~booting => rx = <<>> /\ ~booting'
         /\ ~gap => rx' = rx \o text /\ booting' = booting
         /\ gap => booting /\ text # <<>> /\ (booting' => Len(rx') = Room)
         /\ booting' => Len(rx') <= Room
<1>1. rx \in Seq(Byte) /\ booting \in BOOLEAN BY DEF LinesType
<1>2. CASE ~booting
  <2>1. rx = <<>> /\ rx' = text /\ ~gap /\ booting' = booting BY <1>2 DEF Receives
  <2>2. rx' = rx \o text BY <2>1, ConcatEmptySeq
  <2> QED BY <1>1, <1>2, <2>1, <2>2
<1>3. CASE booting
  <2>1. PICK head \in Heads(text) :
           /\ Len(rx) + Len(head) <= Room /\ (head # text => Len(rx) + Len(head) = Room)
           /\ gap <=> head # text
           /\ \/ rx' = rx \o head /\ booting' = booting
              \/ /\ gap /\ booting' = FALSE
                 /\ \E tail \in Tails(text) : rx' = rx \o head \o tail
    BY <1>3 DEF Receives
  <2>2. head \in Seq(Byte) /\ Len(head) <= Len(text) BY HeadBytes
  <2>3. rx \o head \in Seq(Byte) /\ Len(rx \o head) = Len(rx) + Len(head)
    BY <1>1, <2>2, ConcatProperties
  <2>4. \A tail \in Tails(text) : (rx \o head) \o tail \in Seq(Byte)
    BY <2>3, TailBytes, ConcatProperties
  <2>5. rx' \in Seq(Byte) /\ booting' \in BOOLEAN BY <1>3, <2>1, <2>3, <2>4
  <2>6. head # text => text # <<>>
    <3>1. ASSUME text = <<>> PROVE head = <<>>
      <4>1. Len(head) = 0 BY <2>2, <3>1, LenProperties, EmptySeq
      <4> QED BY <2>2, <4>1, EmptySeq
    <3> QED BY <3>1
  <2> QED BY <1>3, <2>1, <2>3, <2>5, <2>6
<1> QED BY <1>1, <1>2, <1>3

-----------------------------------------------------------------------------
(* A byte is read.                                                         *)

\* Where a byte of what is pending stands.
LEMMA PendingBytes ==
  ASSUME LinesType
  PROVE  /\ Pending \in Seq(Byte) /\ Len(Pending) = Len(serialBuffer) + Len(rx)
         /\ Len(serialBuffer) \in Nat /\ Len(rx) \in Nat
         /\ \A i \in 1..Len(serialBuffer) : Pending[i] = serialBuffer[i]
         /\ \A i \in 1..Len(rx) : Pending[Len(serialBuffer) + i] = rx[i]
<1>1. serialBuffer \in Seq(Byte) /\ rx \in Seq(Byte) BY DEF LinesType
<1> QED BY <1>1, ConcatBytes DEF Pending

\* Append or drop: what is pending stays, or the line so far is forgotten.
LEMMA ByteRead ==
  ASSUME LinesType, ParseSerial
  PROVE  /\ rx # <<>> /\ Len(rx) \in Nat /\ Len(rx) >= 1
         /\ rx' \in Seq(Byte) /\ Len(rx') = Len(rx) - 1
         /\ \A i \in 1..Len(rx') : rx'[i] = rx[i + 1]
         /\ serialBuffer' \in Seq(Byte)
         /\ rx[1] = Newline => ParseLine /\ serialBuffer' = <<>>
         /\ rx[1] # Newline => UNCHANGED <<throttle_cmd, steer_auto_deg>>
         /\ rx[1] # Newline /\ Len(serialBuffer) < BufferSize =>
              /\ Len(serialBuffer') = Len(serialBuffer) + 1
              /\ serialBuffer' \o rx' = serialBuffer \o rx
         /\ rx[1] # Newline /\ ~(Len(serialBuffer) < BufferSize) => serialBuffer' = <<>>
<1>1. /\ rx \in Seq(Byte) /\ serialBuffer \in Seq(Byte) /\ rx # <<>> /\ rx' = Tail(rx)
      /\ IF Head(rx) = Newline THEN ParseLine
         ELSE /\ serialBuffer' = IF Len(serialBuffer) < BufferSize THEN Append(serialBuffer, Head(rx))
                                 ELSE <<>>
              /\ UNCHANGED <<throttle_cmd, steer_auto_deg>>
  BY DEF LinesType, ParseSerial
<1>2. /\ Len(rx) \in Nat /\ Len(rx) >= 1 /\ Head(rx) = rx[1] /\ rx[1] \in Byte
      /\ Tail(rx) \in Seq(Byte) /\ Len(Tail(rx)) = Len(rx) - 1
      /\ \A i \in 1..Len(Tail(rx)) : Tail(rx)[i] = rx[i + 1]
  BY <1>1, HeadTailProperties, EmptySeq
<1>3. /\ Append(serialBuffer, rx[1]) \in Seq(Byte)
      /\ Len(Append(serialBuffer, rx[1])) = Len(serialBuffer) + 1
  BY <1>1, <1>2
<1>4. Append(serialBuffer, rx[1]) \o Tail(rx) = serialBuffer \o rx
  <2>1. rx = <<rx[1]>> \o Tail(rx) BY <1>1, <1>2
  <2>2. Append(serialBuffer, rx[1]) = serialBuffer \o <<rx[1]>> BY <1>1, <1>2
  <2>3. <<rx[1]>> \in Seq(Byte) BY <1>2
  <2>4. (serialBuffer \o <<rx[1]>>) \o Tail(rx) = serialBuffer \o (<<rx[1]>> \o Tail(rx))
    BY <1>1, <1>2, <2>3, BytesAssociative
  <2> QED BY <2>1, <2>2, <2>4
<1>5. ParseLine => serialBuffer' = <<>> BY DEF ParseLine
<1>6. <<>> \in Seq(Byte) BY EmptySeq
<1> QED BY <1>1, <1>2, <1>3, <1>4, <1>5, <1>6

\* The line that begins a text is read byte by byte.
LEMMA BegunRead ==
  ASSUME LinesType, ParseSerial, NEW q \in Seq(Byte), Len(q) >= LineSize,
         q[LineSize] = Newline, \A i \in 1..LineSize - 1 : q[i] # Newline,
         Pending = q, Len(serialBuffer) < LineSize
  PROVE  \/ /\ Pending' = q /\ Len(serialBuffer') < LineSize
            /\ UNCHANGED <<throttle_cmd, steer_auto_deg>>
         \/ /\ rx[1] = Newline /\ ParseLine /\ serialBuffer' = <<>>
            /\ Len(serialBuffer) = LineSize - 1
            /\ \A i \in 1..LineSize - 1 : serialBuffer[i] = q[i]
            /\ rx' \in Seq(Byte) /\ Len(rx') = Len(q) - LineSize
            /\ \A i \in 1..Len(rx') : rx'[i] = q[LineSize + i]
<1>1. rx[1] = q[Len(serialBuffer) + 1] /\ Len(q) = Len(serialBuffer) + Len(rx)
      /\ Len(serialBuffer) \in Nat /\ Len(rx) >= 1
  BY PendingBytes, ByteRead
<1>2. CASE Len(serialBuffer) < LineSize - 1
  <2>1. rx[1] # Newline BY <1>1, <1>2, FourBytes
  <2>2. Len(serialBuffer) < BufferSize BY <1>1, <1>2, FourBytes, LineLimits
  <2>3. Pending' = q /\ Len(serialBuffer') < LineSize
    BY <1>1, <1>2, <2>1, <2>2, ByteRead, FourBytes DEF Pending
  <2> QED BY <2>1, <2>3, ByteRead
<1>3. CASE ~(Len(serialBuffer) < LineSize - 1)
  <2>1. Len(serialBuffer) = LineSize - 1 /\ Len(serialBuffer) + 1 = LineSize
    BY <1>1, <1>3, FourBytes
  <2>2. rx[1] = Newline BY <1>1, <2>1
  <2>3. Len(rx') = Len(q) - LineSize BY <1>1, <2>1, ByteRead, FourBytes
  <2>4. ASSUME NEW i \in 1..Len(rx') PROVE rx'[i] = q[LineSize + i]
    <3>1. Len(rx') \in Nat /\ Len(rx) = Len(rx') + 1 BY ByteRead
    <3>2. i + 1 \in 1..Len(rx) /\ Len(serialBuffer) + (i + 1) = LineSize + i
      BY <2>1, <3>1, FourBytes
    <3>3. Pending[Len(serialBuffer) + (i + 1)] = rx[i + 1] BY <3>2, PendingBytes
    <3> QED BY <3>2, <3>3, ByteRead
  <2>5. \A i \in 1..LineSize - 1 : serialBuffer[i] = q[i] BY <2>1, PendingBytes
  <2> QED BY <2>1, <2>2, <2>3, <2>4, <2>5, ByteRead
<1> QED BY <1>2, <1>3

\* What is read before a text that is still to come does not matter.
LEMMA ComingRead ==
  ASSUME LinesType, ParseSerial, NEW q \in Seq(Byte),
         Len(rx) > Len(q), rx[Len(rx) - Len(q)] = Newline,
         \A i \in 1..Len(q) : rx[Len(rx) - Len(q) + i] = q[i]
  PROVE  Due(q)'
<1>0. Len(q) \in Nat BY LenProperties
<1>1. Len(rx) \in Nat /\ Len(rx') \in Nat /\ Len(rx') = Len(rx) - 1 /\ rx' \in Seq(Byte)
  BY ByteRead, LenProperties
<1>2. CASE Len(rx) > Len(q) + 1
  <2>1. Len(rx') > Len(q) BY <1>0, <1>1, <1>2
  <2>2. ASSUME NEW i \in 0..Len(q) PROVE rx'[Len(rx') - Len(q) + i] = rx[Len(rx) - Len(q) + i]
    <3>1. /\ Len(rx') - Len(q) + i \in 1..Len(rx')
          /\ (Len(rx') - Len(q) + i) + 1 = Len(rx) - Len(q) + i
      BY <1>0, <1>1, <2>1
    <3> QED BY <3>1, ByteRead
  <2>3. rx'[Len(rx') - Len(q)] = Newline
    <3>1. 0 \in 0..Len(q) /\ Len(rx') - Len(q) + 0 = Len(rx') - Len(q)
          /\ Len(rx) - Len(q) + 0 = Len(rx) - Len(q)
      BY <1>0, <1>1
    <3> QED BY <2>2, <3>1
  <2>4. \A i \in 1..Len(q) : rx'[Len(rx') - Len(q) + i] = q[i] BY <1>0, <2>2
  <2> QED BY <2>1, <2>3, <2>4 DEF Due
<1>3. CASE ~(Len(rx) > Len(q) + 1)
  <2>1. Len(rx) - Len(q) = 1 /\ Len(rx') = Len(q) BY <1>0, <1>1, <1>3
  <2>2. rx[1] = Newline /\ serialBuffer' = <<>> BY <2>1, ByteRead
  <2>3. \A i \in 1..Len(rx') : rx'[i] = q[i]
    <3>1. SUFFICES ASSUME NEW i \in 1..Len(q) PROVE rx'[i] = q[i] BY <2>1
    <3>2. rx[1 + i] = q[i] /\ 1 + i = i + 1 BY <1>0, <2>1
    <3> QED BY <2>1, <3>2, ByteRead
  <2>4. rx' = q BY <1>1, <2>1, <2>3, SeqEqual
  <2>5. serialBuffer' \o rx' = rx' BY <1>1, <2>2, ConcatEmptySeq
  <2>6. Len(serialBuffer') < LineSize BY <2>2, FourBytes, EmptySeq
  <2> QED BY <2>4, <2>5, <2>6 DEF Due, Pending
<1> QED BY <1>2, <1>3

\* A text that begins with a line stays due until that line is read.
LEMMA DueRead ==
  ASSUME LinesType, ParseSerial, NEW q \in Seq(Byte), Due(q), Len(q) >= LineSize,
         q[LineSize] = Newline, \A i \in 1..LineSize - 1 : q[i] # Newline
  PROVE  \/ Due(q)'
         \/ /\ rx[1] = Newline /\ ParseLine /\ serialBuffer' = <<>>
            /\ Len(serialBuffer) = LineSize - 1
            /\ \A i \in 1..LineSize - 1 : serialBuffer[i] = q[i]
            /\ rx' \in Seq(Byte) /\ Len(rx') = Len(q) - LineSize
            /\ \A i \in 1..Len(rx') : rx'[i] = q[LineSize + i]
<1>1. CASE Pending = q /\ Len(serialBuffer) < LineSize BY <1>1, BegunRead DEF Due
<1>2. CASE /\ Len(rx) > Len(q) /\ rx[Len(rx) - Len(q)] = Newline
           /\ \A i \in 1..Len(q) : rx[Len(rx) - Len(q) + i] = q[i]
  BY <1>2, ComingRead
<1> QED BY <1>1, <1>2 DEF Due

\* A text that arrives is due after what was due.
LEMMA DueReceived ==
  ASSUME LinesType, NEW q \in Seq(Byte), NEW text \in Seq(Byte), Due(q),
         rx' = rx \o text, serialBuffer' = serialBuffer
  PROVE  Due(q \o text)'
<1>0. /\ rx \in Seq(Byte) /\ serialBuffer \in Seq(Byte)
      /\ Len(rx) \in Nat /\ Len(q) \in Nat /\ Len(text) \in Nat
  BY LenProperties DEF LinesType
<1>1. CASE Pending = q /\ Len(serialBuffer) < LineSize
  <2>1. serialBuffer' \o rx' = q \o text
    <3>1. serialBuffer \o (rx \o text) = (serialBuffer \o rx) \o text BY <1>0, BytesAssociative
    <3>2. serialBuffer \o rx = q BY <1>1 DEF Pending
    <3> QED BY <3>1, <3>2
  <2> QED BY <1>1, <2>1 DEF Due, Pending
<1>2. CASE /\ Len(rx) > Len(q) /\ rx[Len(rx) - Len(q)] = Newline
           /\ \A i \in 1..Len(q) : rx[Len(rx) - Len(q) + i] = q[i]
  <2>1. /\ Len(rx') = Len(rx) + Len(text) /\ Len(q \o text) = Len(q) + Len(text)
        /\ \A i \in 1..Len(rx) : rx'[i] = rx[i]
        /\ \A i \in 1..Len(text) : rx'[Len(rx) + i] = text[i]
        /\ \A i \in 1..Len(q) : (q \o text)[i] = q[i]
        /\ \A i \in 1..Len(text) : (q \o text)[Len(q) + i] = text[i]
    BY <1>0, ConcatBytes
  <2> DEFINE before == Len(rx) - Len(q)
  <2>2. /\ before \in 1..Len(rx) /\ Len(rx') - Len(q \o text) = before
        /\ Len(rx') > Len(q \o text)
    BY <1>0, <1>2, <2>1
  <2>3. rx'[before] = Newline BY <1>2, <2>1, <2>2
  <2>4. ASSUME NEW i \in 1..Len(q \o text) PROVE rx'[before + i] = (q \o text)[i]
    <3>1. CASE i <= Len(q)
      <4>1. i \in 1..Len(q) /\ before + i \in 1..Len(rx) BY <1>0, <2>1, <2>2, <3>1
      <4> QED BY <1>2, <2>1, <4>1
    <3>2. CASE ~(i <= Len(q))
      <4>1. PICK j \in 1..Len(text) : i = Len(q) + j /\ before + i = Len(rx) + j
        <5>1. i - Len(q) \in 1..Len(text) /\ i = Len(q) + (i - Len(q))
              /\ before + i = Len(rx) + (i - Len(q))
          BY <1>0, <2>1, <2>2, <3>2
        <5> QED BY <5>1
      <4> QED BY <2>1, <4>1
    <3> QED BY <3>1, <3>2
  <2> QED BY <2>2, <2>3, <2>4 DEF Due
<1> QED BY <1>1, <1>2 DEF Due

\* Nothing is pending that a new text could be glued to.
Aligned == (rx = <<>> /\ serialBuffer = <<>>) \/ (rx # <<>> /\ rx[Len(rx)] = Newline)

LEMMA AlignedReceived ==
  ASSUME LinesType, Aligned, NEW text \in Seq(Byte), rx' = rx \o text, serialBuffer' = serialBuffer
  PROVE  Due(text)'
<1>0. rx \in Seq(Byte) /\ Len(rx) \in Nat /\ Len(text) \in Nat BY LenProperties DEF LinesType
<1>1. CASE rx = <<>> /\ serialBuffer = <<>>
  <2>1. rx' = text BY <1>1, ConcatEmptySeq
  <2>2. Pending' = text BY <1>1, <2>1, ConcatEmptySeq DEF Pending
  <2>3. Len(serialBuffer') < LineSize BY <1>1, FourBytes, EmptySeq
  <2> QED BY <2>2, <2>3 DEF Due
<1>2. CASE rx # <<>> /\ rx[Len(rx)] = Newline
  <2>1. Len(rx) >= 1 BY <1>0, <1>2, EmptySeq
  <2>2. /\ Len(rx') = Len(rx) + Len(text)
        /\ \A i \in 1..Len(rx) : rx'[i] = rx[i]
        /\ \A i \in 1..Len(text) : rx'[Len(rx) + i] = text[i]
    BY <1>0, ConcatBytes
  <2>3. Len(rx') - Len(text) = Len(rx) /\ Len(rx') > Len(text) /\ Len(rx) \in 1..Len(rx)
    BY <1>0, <2>1, <2>2
  <2> QED BY <1>2, <2>2, <2>3 DEF Due
<1> QED BY <1>1, <1>2 DEF Aligned

LEMMA AlignedInv ==
  ASSUME LinesType, ThrottleInv, inStep >= 1
  PROVE  Aligned
<1>0. rx \in Seq(Byte) /\ serialBuffer \in Seq(Byte) /\ meant.th \in Int
  BY LineLimits DEF LinesType
<1>1. CASE Pending = <<>>
  <2>1. Len(rx) = 0 /\ Len(serialBuffer) = 0 BY <1>1, PendingBytes, EmptySeq
  <2> QED BY <1>0, <2>1, EmptySeq DEF Aligned
<1>2. CASE Due(ThrottleLine(meant.th))
  <2> DEFINE q == ThrottleLine(meant.th)
  <2>1. q \in Seq(Byte) /\ Len(q) = LineSize /\ q[LineSize] = Newline BY <1>0, ThrottleBytes
  <2> HIDE DEF q
  <2>2. Len(rx) \in Nat /\ Len(serialBuffer) \in Nat BY PendingBytes
  <2>3. CASE Pending = q /\ Len(serialBuffer) < LineSize
    <3>1. Len(serialBuffer) + Len(rx) = LineSize /\ Len(rx) >= 1
      BY <2>1, <2>2, <2>3, PendingBytes, FourBytes
    <3>2. rx[Len(rx)] = q[Len(serialBuffer) + Len(rx)] BY <2>2, <2>3, <3>1, PendingBytes
    <3>3. rx # <<>> BY <3>1, EmptySeq
    <3> QED BY <2>1, <3>1, <3>2, <3>3 DEF Aligned
  <2>4. CASE Len(rx) > Len(q) /\ \A i \in 1..Len(q) : rx[Len(rx) - Len(q) + i] = q[i]
    <3>1. LineSize \in 1..Len(q) /\ Len(rx) - Len(q) + LineSize = Len(rx) /\ Len(rx) >= 1
      BY <2>1, <2>2, <2>4, FourBytes
    <3>2. rx # <<>> BY <3>1, EmptySeq
    <3> QED BY <2>1, <2>4, <3>1, <3>2 DEF Aligned
  <2> QED BY <1>2, <2>3, <2>4 DEF Due, q
<1> QED BY <1>1, <1>2 DEF ThrottleInv

\* Whatever a pair is glued to, its throttle line comes after a newline.
LEMMA PairReceived ==
  ASSUME LinesType, NEW c \in Commands, rx' = rx \o Pair(c), serialBuffer' = serialBuffer
  PROVE  Due(ThrottleLine(c.th))'
<1> DEFINE p == Pair(c)
           q == ThrottleLine(c.th)
           s == SteerLine(c.sa)
<1>1. /\ p \in Seq(Byte) /\ Len(p) = 2 * LineSize /\ Len(q) = LineSize
      /\ s[LineSize] = Newline
      /\ \A i \in 1..LineSize : p[i] = s[i] /\ p[LineSize + i] = q[i]
  <2>1. c.sa \in Int BY LineLimits
  <2> QED BY <2>1, PairBytes, SteerBytes
<1> HIDE DEF p, q, s
<1>2. rx \in Seq(Byte) BY DEF LinesType
<1>3. /\ Len(rx') = Len(rx) + 2 * LineSize /\ Len(rx) \in Nat
      /\ \A i \in 1..2 * LineSize : rx'[Len(rx) + i] = p[i]
  BY <1>1, <1>2, ConcatBytes DEF p
<1>4. Len(rx') > Len(q) /\ Len(rx') - Len(q) = Len(rx) + LineSize BY <1>1, <1>3, FourBytes
<1>5. rx'[Len(rx') - Len(q)] = Newline
  <2>1. LineSize \in 1..2 * LineSize /\ LineSize \in 1..LineSize BY FourBytes
  <2> QED BY <1>1, <1>3, <1>4, <2>1
<1>6. ASSUME NEW i \in 1..Len(q) PROVE rx'[Len(rx') - Len(q) + i] = q[i]
  <2>1. LineSize + i \in 1..2 * LineSize /\ i \in 1..LineSize
        /\ Len(rx) + LineSize + i = Len(rx) + (LineSize + i)
    BY <1>1, <1>3, FourBytes
  <2>2. rx'[Len(rx) + (LineSize + i)] = p[LineSize + i] BY <1>3, <2>1
  <2>3. p[LineSize + i] = q[i] BY <1>1, <2>1
  <2> QED BY <1>4, <2>1, <2>2, <2>3
<1>7. (Due(q))' BY <1>4, <1>5, <1>6 DEF Due
<1> QED BY <1>7 DEF q

\* What is read of a line of three bytes and its newline.
LEMMA NumberRead ==
  ASSUME NEW text \in Seq(Byte), Len(text) = 1, NEW limit \in Nat, NEW x \in Clamped(limit),
         text[1] = Number(x)
  PROVE  Readings(text, limit) = {x}
<1>1. text # <<>> BY EmptySeq
<1>2. text[1].kind = "number" /\ text[1].value = x BY DEF Number
<1>3. x \in Int /\ x <= limit /\ ~(x < -limit) BY DEF Clamped
<1>4. Constrain(x, limit) = x BY <1>3 DEF Constrain
<1> QED BY <1>1, <1>2, <1>4 DEF Readings, Digits

LEMMA LineRead ==
  ASSUME LinesType, ParseLine, Len(serialBuffer) = LineSize - 1
  PROVE  /\ serialBuffer[1].kind = "T" => steer_auto_deg' = steer_auto_deg
         /\ \A x \in Clamped(Full) :
              serialBuffer[1] = Letter("T") /\ serialBuffer[2] = Letter("H") /\ serialBuffer[3] = Number(x)
                => throttle_cmd' = x
         /\ \A x \in Clamped(SteerLimit) :
              serialBuffer[1] = Letter("S") /\ serialBuffer[2] = Letter("A") /\ serialBuffer[3] = Number(x)
                => steer_auto_deg' = x
<1> DEFINE text == SubSeq(serialBuffer, 3, Len(serialBuffer))
           begins(a, b) == Len(serialBuffer) >= 2 /\ serialBuffer[1].kind = a /\ serialBuffer[2].kind = b
<1>1. /\ IF begins("T", "H") THEN throttle_cmd' \in Readings(text, Full) ELSE UNCHANGED throttle_cmd
      /\ IF begins("S", "A") THEN steer_auto_deg' \in Readings(text, SteerLimit)
         ELSE UNCHANGED steer_auto_deg
  BY DEF ParseLine
<1>2. /\ serialBuffer \in Seq(Byte) /\ Len(serialBuffer) \in Nat
      /\ Len(serialBuffer) >= 3 /\ Len(serialBuffer) <= 3
  BY FourBytes DEF LinesType
<1>3. text \in Seq(Byte) /\ Len(text) = 1 /\ text[1] = serialBuffer[3]
  <2>1. \A i \in 3..Len(serialBuffer) : serialBuffer[i] \in Byte BY <1>2, ElementOfSeq
  <2>2. /\ text \in Seq(Byte)
        /\ Len(text) = IF 3 <= Len(serialBuffer) THEN Len(serialBuffer) - 3 + 1 ELSE 0
        /\ \A i \in 1..Len(serialBuffer) - 3 + 1 : text[i] = serialBuffer[3 + i - 1]
    BY <1>2, <2>1, SubSeqProperties
  <2>3. Len(serialBuffer) - 3 + 1 = 1 /\ 1 \in 1..Len(serialBuffer) - 3 + 1 /\ 3 + 1 - 1 = 3
    BY <1>2
  <2> QED BY <1>2, <2>2, <2>3
<1> HIDE DEF text
<1>4. Len(serialBuffer) >= 2 /\ \A k : Letter(k).kind = k BY <1>2 DEF Letter
<1>5. Full \in Nat /\ SteerLimit \in Nat BY LineLimits
<1>6. ASSUME NEW x \in Clamped(Full), serialBuffer[1] = Letter("T"), serialBuffer[2] = Letter("H"),
             serialBuffer[3] = Number(x)
      PROVE  throttle_cmd' = x
  <2>1. Readings(text, Full) = {x} BY <1>3, <1>5, <1>6, NumberRead
  <2>2. begins("T", "H") BY <1>4, <1>6
  <2> QED BY <1>1, <2>1, <2>2
<1>7. ASSUME NEW x \in Clamped(SteerLimit), serialBuffer[1] = Letter("S"),
             serialBuffer[2] = Letter("A"), serialBuffer[3] = Number(x)
      PROVE  steer_auto_deg' = x
  <2>1. Readings(text, SteerLimit) = {x} BY <1>3, <1>5, <1>7, NumberRead
  <2>2. begins("S", "A") BY <1>4, <1>7
  <2> QED BY <1>1, <2>1, <2>2
<1>8. serialBuffer[1].kind = "T" => steer_auto_deg' = steer_auto_deg BY <1>1
<1> QED BY <1>6, <1>7, <1>8

-----------------------------------------------------------------------------
(* Throttle and steering, step by step.                                    *)

\* What a write that breaks off leaves: a part, or nothing changed.
LEMMA BrokenBytes ==
  ASSUME LinesType, NEW text \in Seq(Byte), Breaks(text)
  PROVE  /\ rx' \in Seq(Byte) /\ booting' \in BOOLEAN /\ inStep' \in 0..2 /\ lost' \in BOOLEAN
         /\ UNCHANGED <<serialBuffer, throttle_cmd, steer_auto_deg>>
         /\ \/ inStep' = 0
            \/ rx' = rx /\ UNCHANGED <<booting, inStep, lost>>
         /\ lost => lost'
         /\ BootInv => BootInv'
         /\ ~lost' => \E part \in Heads(text) : rx' = rx \o part
<1>1. PICK part \in Heads(text), gap \in BOOLEAN :
         /\ Receives(part, gap)
         /\ UNCHANGED <<serialBuffer, throttle_cmd, steer_auto_deg>>
         /\ inStep' = IF part = <<>> THEN inStep ELSE 0
         /\ lost' = (gap \/ lost)
  BY DEF Breaks, Receiving
<1>2. part \in Seq(Byte) BY HeadBytes
<1>3. /\ rx' \in Seq(Byte) /\ booting' \in BOOLEAN
      /\ ~booting => rx = <<>> /\ ~booting'
      /\ ~gap => rx' = rx \o part /\ booting' = booting
      /\ gap => booting /\ part # <<>> /\ (booting' => Len(rx') = Room)
      /\ booting' => Len(rx') <= Room
  BY <1>1, <1>2, ReceivedBytes
<1>4. rx \in Seq(Byte) /\ inStep \in 0..2 /\ lost \in BOOLEAN /\ booting \in BOOLEAN BY DEF LinesType
<1>5. part = <<>> => rx' = rx /\ UNCHANGED <<booting, inStep, lost>>
  <2> SUFFICES ASSUME part = <<>> PROVE rx' = rx /\ UNCHANGED <<booting, inStep, lost>>
    OBVIOUS
  <2>1. ~gap BY <1>3
  <2>2. rx' = rx \o <<>> BY <1>3, <2>1
  <2> QED BY <1>1, <1>3, <1>4, <2>1, <2>2, ConcatEmptySeq
<1>6. ASSUME BootInv, booting', lost' PROVE Len(rx') = Room /\ inStep' = 0
  <2>1. CASE gap BY <1>1, <1>3, <1>6, <2>1
  <2>2. CASE ~gap
    <3>1. Len(rx) = Room /\ inStep = 0 /\ rx' = rx \o part
      BY <1>1, <1>3, <1>6, <2>2 DEF BootInv
    <3>2. Len(rx') = Len(rx) + Len(part) /\ Len(part) \in Nat
      BY <1>2, <1>4, <3>1, ConcatBytes
    <3>3. Len(part) = 0 BY <1>3, <1>6, <3>1, <3>2, LineLimits
    <3>4. part = <<>> BY <1>2, <3>3, EmptySeq
    <3>5. rx' = rx /\ inStep' = inStep BY <1>5, <3>4
    <3> QED BY <3>1, <3>5
  <2> QED BY <2>1, <2>2
<1>7. BootInv => BootInv' BY <1>6 DEF BootInv
<1>8. inStep' \in 0..2 /\ lost' \in BOOLEAN /\ (lost => lost') BY <1>1, <1>4
<1>9. inStep' = 0 \/ (rx' = rx /\ UNCHANGED <<booting, inStep, lost>>) BY <1>1, <1>5
<1>10. ~lost' => rx' = rx \o part BY <1>1, <1>3
<1> QED BY <1>1, <1>3, <1>7, <1>8, <1>9, <1>10

\* The read of a byte.
LEMMA ThrottleRead ==
  ASSUME LinesType, ThrottleInv, ParseSerial
  PROVE  ThrottleInv'
<1> SUFFICES ASSUME inStep' >= 1
             PROVE  \/ Pending' = <<>> /\ throttle_cmd' = meant'.th
                    \/ (Due(ThrottleLine(meant.th)))'
  BY DEF ThrottleInv
<1>1. UNCHANGED <<inStep, meant>> BY DEF ParseSerial, history
<1>2. meant.th \in Clamped(Full) /\ meant.th \in Int BY LineLimits DEF LinesType
<1>3. Due(ThrottleLine(meant.th))
  <2>1. Pending # <<>>
    <3>1. Len(Pending) >= 1 BY PendingBytes, ByteRead
    <3> QED BY <3>1, EmptySeq
  <2> QED BY <1>1, <2>1 DEF ThrottleInv
<1>q. PICK q : q = ThrottleLine(meant.th) OBVIOUS
<1>4. /\ q \in Seq(Byte) /\ Len(q) = LineSize /\ q[LineSize] = Newline
      /\ q[1] = Letter("T") /\ q[2] = Letter("H") /\ q[3] = Number(meant.th)
      /\ \A i \in 1..LineSize - 1 : q[i] # Newline
  BY <1>2, <1>q, ThrottleBytes
<1>5. ThrottleLine(meant.th)' = q BY <1>1, <1>q
<1>6. CASE Due(q)'
  <2>1. Due(ThrottleLine(meant.th))' BY <1>5, <1>6 DEF Due
  <2> QED BY <2>1
<1>7. CASE /\ rx[1] = Newline /\ ParseLine /\ serialBuffer' = <<>>
           /\ Len(serialBuffer) = LineSize - 1
           /\ \A i \in 1..LineSize - 1 : serialBuffer[i] = q[i]
           /\ rx' \in Seq(Byte) /\ Len(rx') = Len(q) - LineSize
  <2>1. 1 \in 1..LineSize - 1 /\ 2 \in 1..LineSize - 1 /\ 3 \in 1..LineSize - 1 BY FourBytes
  <2>2. throttle_cmd' = meant.th BY <1>2, <1>4, <1>7, <2>1, LineRead
  <2>3. rx' = <<>>
    <3>1. Len(rx') = 0 BY <1>4, <1>7, FourBytes
    <3> QED BY <1>7, <3>1, EmptySeq
  <2>4. Pending' = <<>>
    <3>1. <<>> \in Seq(Byte) /\ <<>> \o <<>> = <<>> BY EmptySeq, ConcatEmptySeq
    <3> QED BY <1>7, <2>3, <3>1 DEF Pending
  <2> QED BY <1>1, <2>2, <2>4
<1>8. Due(q) BY <1>3, <1>q
<1> QED BY <1>4, <1>6, <1>7, <1>8, DueRead, FourBytes

LEMMA SteerRead ==
  ASSUME LinesType, SteerInv, ParseSerial
  PROVE  SteerInv'
<1> SUFFICES ASSUME inStep' = 2
             PROVE  \E q \in Seq(Byte) :
                      /\ OnlyThrottle(q)'
                      /\ \/ Pending' = q /\ Len(serialBuffer') < LineSize /\ steer_auto_deg' = meant'.sa
                         \/ (Due(SteerLine(meant.sa) \o q))'
  BY DEF SteerInv
<1>1. UNCHANGED <<inStep, meant, halted>> BY DEF ParseSerial, history, hostVars
<1>2. meant.sa \in Clamped(SteerLimit) /\ meant.sa \in Int BY LineLimits DEF LinesType
<1>3. PICK q \in Seq(Byte) :
        /\ OnlyThrottle(q)
        /\ \/ Pending = q /\ Len(serialBuffer) < LineSize /\ steer_auto_deg = meant.sa
           \/ Due(SteerLine(meant.sa) \o q)
  BY <1>1 DEF SteerInv
<1>4. OnlyThrottle(q)' BY <1>1, <1>3 DEF OnlyThrottle
<1>5. CASE Pending = q /\ Len(serialBuffer) < LineSize /\ steer_auto_deg = meant.sa
  <2>1. Len(q) >= LineSize
    <3>1. Len(q) >= 1 BY <1>5, PendingBytes, ByteRead
    <3> QED BY <1>3, <3>1, FourBytes DEF OnlyThrottle
  <2>2. Len(q) \in Nat BY LenProperties
  <2>3. q[LineSize] = Newline /\ q[1].kind = "T" /\ \A i \in 1..LineSize - 1 : q[i] # Newline
    <3>1. LineSize \in 1..Len(q) /\ 1 \in 1..Len(q) BY <2>1, <2>2, FourBytes
    <3>2. \A i \in 1..LineSize - 1 : i \in 1..Len(q) /\ i \notin {LineSize, 2 * LineSize}
      BY <2>1, <2>2, FourBytes
    <3>3. \A i \in 1..Len(q) : /\ i \in {LineSize, 2 * LineSize} <=> q[i] = Newline
                               /\ i \in {1, LineSize + 1} => q[i].kind = "T"
      BY <1>3, FourBytes DEF OnlyThrottle
    <3>4. q[LineSize] = Newline BY <3>1, <3>3
    <3>5. q[1].kind = "T" BY <3>1, <3>3
    <3>6. \A i \in 1..LineSize - 1 : q[i] # Newline BY <3>2, <3>3
    <3> QED BY <3>4, <3>5, <3>6
  <2>4. CASE /\ Pending' = q /\ Len(serialBuffer') < LineSize
             /\ UNCHANGED <<throttle_cmd, steer_auto_deg>>
    BY <1>1, <1>4, <1>5, <2>4
  <2>5. CASE /\ rx[1] = Newline /\ ParseLine /\ serialBuffer' = <<>>
             /\ Len(serialBuffer) = LineSize - 1
             /\ \A i \in 1..LineSize - 1 : serialBuffer[i] = q[i]
             /\ rx' \in Seq(Byte) /\ Len(rx') = Len(q) - LineSize
             /\ \A i \in 1..Len(rx') : rx'[i] = q[LineSize + i]
    <3>1. 1 \in 1..LineSize - 1 BY FourBytes
    <3>2. steer_auto_deg' = steer_auto_deg BY <2>3, <2>5, <3>1, LineRead
    <3>3. Pending' = rx' /\ Len(serialBuffer') < LineSize
      BY <2>5, ConcatEmptySeq, EmptySeq, FourBytes DEF Pending
    <3>4. Len(rx') = 0 \/ Len(rx') = LineSize
      BY <1>3, <2>1, <2>2, <2>5, FourBytes DEF OnlyThrottle
    <3>5. ASSUME NEW i \in 1..Len(rx')
          PROVE  /\ i \in {LineSize, 2 * LineSize} <=> rx'[i] = Newline
                 /\ i \in {1, LineSize + 1} => rx'[i].kind = "T"
      <4>1. i \in 1..LineSize /\ LineSize + i \in 1..Len(q) BY <2>2, <2>5, <3>4, <3>5, FourBytes
      <4>2. /\ LineSize + i \in {LineSize, 2 * LineSize} <=> q[LineSize + i] = Newline
            /\ LineSize + i \in {1, LineSize + 1} => q[LineSize + i].kind = "T"
        <5>1. \A j \in 1..Len(q) : /\ j \in {LineSize, 2 * LineSize} <=> q[j] = Newline
                                   /\ j \in {1, LineSize + 1} => q[j].kind = "T"
          BY <1>3, FourBytes DEF OnlyThrottle
        <5>2. PICK j \in 1..Len(q) : j = LineSize + i BY <4>1
        <5> QED BY <5>1, <5>2
      <4>3. /\ i \in {LineSize, 2 * LineSize} <=> LineSize + i \in {LineSize, 2 * LineSize}
            /\ i \in {1, LineSize + 1} <=> LineSize + i \in {1, LineSize + 1}
        BY <4>1, FourBytes
      <4> QED BY <2>5, <4>2, <4>3
    <3>7. PICK r \in Seq(Byte) : rx' = r BY <2>5
    <3>6. OnlyThrottle(r)'
      <4>1. Len(r) = 0 \/ Len(r) = LineSize BY <3>4, <3>7
      <4>2. \A i \in 1..Len(r) : /\ i \in {LineSize, 2 * LineSize} <=> r[i] = Newline
                                 /\ i \in {1, LineSize + 1} => r[i].kind = "T"
        BY <3>5, <3>7
      <4> QED BY <4>1, <4>2, FourBytes DEF OnlyThrottle
    <3> QED BY <1>1, <1>5, <3>2, <3>3, <3>6, <3>7
  <2> QED BY <1>5, <2>1, <2>3, <2>4, <2>5, BegunRead
<1>6. CASE Due(SteerLine(meant.sa) \o q)
  <2>s. PICK s : s = SteerLine(meant.sa) OBVIOUS
  <2>t. PICK t : t = s \o q OBVIOUS
  <2>1. /\ s \in Seq(Byte) /\ Len(s) = LineSize /\ s[LineSize] = Newline
        /\ s[1] = Letter("S") /\ s[2] = Letter("A") /\ s[3] = Number(meant.sa)
        /\ \A i \in 1..LineSize - 1 : s[i] # Newline
    BY <1>2, <2>s, SteerBytes
  <2>2. SteerLine(meant.sa)' = s BY <1>1, <2>s
  <2>3. /\ t \in Seq(Byte) /\ Len(t) = LineSize + Len(q) /\ Len(q) \in Nat
        /\ \A i \in 1..LineSize : t[i] = s[i]
        /\ \A i \in 1..Len(q) : t[LineSize + i] = q[i]
    BY <2>1, <2>t, ConcatBytes
  <2>4. Due(t) BY <1>6, <2>t, <2>s
  <2>5. (SteerLine(meant.sa) \o q)' = t BY <2>2, <2>t
  <2>6. /\ Len(t) >= LineSize /\ t[LineSize] = Newline
        /\ \A i \in 1..LineSize - 1 : t[i] # Newline /\ t[i] = s[i]
    BY <2>1, <2>3, FourBytes
  <2>7. CASE Due(t)'
    <3>1. Due(SteerLine(meant.sa) \o q)' BY <2>5, <2>7 DEF Due
    <3> QED BY <1>4, <3>1
  <2>8. CASE /\ rx[1] = Newline /\ ParseLine /\ serialBuffer' = <<>>
             /\ Len(serialBuffer) = LineSize - 1
             /\ \A i \in 1..LineSize - 1 : serialBuffer[i] = t[i]
             /\ rx' \in Seq(Byte) /\ Len(rx') = Len(t) - LineSize
             /\ \A i \in 1..Len(rx') : rx'[i] = t[LineSize + i]
    <3>1. 1 \in 1..LineSize - 1 /\ 2 \in 1..LineSize - 1 /\ 3 \in 1..LineSize - 1 BY FourBytes
    <3>2. steer_auto_deg' = meant.sa
      <4>1. /\ serialBuffer[1] = Letter("S") /\ serialBuffer[2] = Letter("A")
            /\ serialBuffer[3] = Number(meant.sa)
        BY <2>1, <2>6, <2>8, <3>1
      <4> QED BY <1>2, <2>8, <4>1, LineRead
    <3>3. Len(rx') = Len(q) BY <2>3, <2>8, FourBytes
    <3>4. rx' = q
      <4>1. \A i \in 1..Len(rx') : rx'[i] = q[i] BY <2>3, <2>8, <3>3
      <4> QED BY <2>8, <3>3, <4>1, SeqEqual
    <3>5. Pending' = q /\ Len(serialBuffer') < LineSize
      BY <2>8, <3>4, ConcatEmptySeq, EmptySeq, FourBytes DEF Pending
    <3> QED BY <1>1, <1>4, <3>2, <3>5
  <2> QED BY <2>3, <2>4, <2>6, <2>7, <2>8, DueRead
<1> QED BY <1>3, <1>5, <1>6


\* Nothing left to read: what was due has been made a command.
LEMMA AllRead ==
  ASSUME LinesType, ThrottleInv, SteerInv, rx = <<>>
  PROVE  /\ inStep >= 1 => Pending = <<>> /\ throttle_cmd = meant.th
         /\ inStep = 2 => steer_auto_deg = meant.sa
<1>1. Len(rx) = 0 /\ Len(Pending) = Len(serialBuffer) BY PendingBytes, EmptySeq
<1>2. meant.sa \in Int /\ meant.th \in Int BY LineLimits DEF LinesType
<1>3. ASSUME NEW q \in Seq(Byte), Len(q) >= LineSize PROVE ~Due(q)
  <2>1. Len(q) \in Nat /\ Len(serialBuffer) \in Nat BY PendingBytes, LenProperties
  <2>2. ~(Len(rx) > Len(q)) BY <1>1, <2>1
  <2>3. ~(Pending = q /\ Len(serialBuffer) < LineSize) BY <1>1, <1>3, <2>1, FourBytes
  <2> QED BY <2>2, <2>3 DEF Due
<1>4. inStep >= 1 => Pending = <<>> /\ throttle_cmd = meant.th
  <2>1. PICK q : q = ThrottleLine(meant.th) OBVIOUS
  <2>2. q \in Seq(Byte) /\ Len(q) >= LineSize BY <1>2, <2>1, ThrottleBytes, FourBytes
  <2> QED BY <1>3, <2>1, <2>2 DEF ThrottleInv
<1>5. ASSUME inStep = 2 PROVE steer_auto_deg = meant.sa
  <2>1. PICK q \in Seq(Byte) :
          \/ Pending = q /\ Len(serialBuffer) < LineSize /\ steer_auto_deg = meant.sa
          \/ Due(SteerLine(meant.sa) \o q)
    BY <1>5 DEF SteerInv
  <2>2. PICK s : s = SteerLine(meant.sa) OBVIOUS
  <2>3. s \in Seq(Byte) /\ Len(s) = LineSize BY <1>2, <2>2, SteerBytes
  <2>4. s \o q \in Seq(Byte) /\ Len(s \o q) >= LineSize BY <2>3, ConcatBytes, FourBytes
  <2> QED BY <1>3, <2>1, <2>2, <2>4
<1> QED BY <1>4, <1>5

\* A write that arrives whole.
LEMMA SendLines ==
  ASSUME LinesType, ThrottleInv, NEW c \in Commands, SendCommand(c)
  PROVE  LinesType' /\ ThrottleInv' /\ SteerInv'
<1>1. PICK gap \in BOOLEAN :
         /\ Receives(Pair(c), gap)
         /\ UNCHANGED <<serialBuffer, throttle_cmd, steer_auto_deg>>
         /\ inStep' = IF gap THEN 0 ELSE IF inStep = 0 THEN 1 ELSE 2
         /\ lost' = (gap \/ (lost /\ inStep < 2))
  BY DEF SendCommand, Receiving
<1>2. sent' = sent \cup {c} /\ meant' = c /\ UNCHANGED <<port, halted>>
  BY DEF SendCommand, hostVars
<1>3. /\ Pair(c) \in Seq(Byte) /\ Pair(c) = SteerLine(c.sa) \o ThrottleLine(c.th)
      /\ c.th \in Int
  BY PairBytes, LineLimits
<1>4. rx' \in Seq(Byte) /\ booting' \in BOOLEAN /\ (~gap => rx' = rx \o Pair(c))
  BY <1>1, <1>3, ReceivedBytes
<1>5. LinesType'
  <2>1. c \in [sa : Clamped(SteerLimit), th : Clamped(Full)] BY LineLimits
  <2> QED BY <1>1, <1>2, <1>4, <2>1 DEF LinesType
<1>6. ThrottleInv'
  <2>1. CASE gap BY <1>1, <2>1 DEF ThrottleInv
  <2>2. CASE ~gap
    <3>1. Due(ThrottleLine(c.th))' BY <1>1, <1>4, <2>2, PairReceived
    <3> QED BY <1>2, <3>1 DEF ThrottleInv
  <2> QED BY <2>1, <2>2
<1>7. SteerInv'
  <2> SUFFICES ASSUME inStep' = 2
               PROVE  \E q \in Seq(Byte) :
                        /\ OnlyThrottle(q)'
                        /\ (Due(SteerLine(meant.sa) \o q))'
    BY DEF SteerInv
  <2>1. ~gap /\ inStep >= 1 BY <1>1 DEF LinesType
  <2>2. Due(Pair(c))'
    <3>1. Aligned BY <2>1, AlignedInv
    <3>2. rx' = rx \o Pair(c) /\ serialBuffer' = serialBuffer BY <1>1, <1>4, <2>1
    <3>3. Pair(c) \in Seq(Byte) BY <1>3
    <3> QED BY <3>1, <3>2, <3>3, AlignedReceived
  <2>3. PICK q : q = ThrottleLine(c.th) OBVIOUS
  <2>4. /\ q \in Seq(Byte) /\ Len(q) = LineSize /\ q[LineSize] = Newline /\ q[1].kind = "T"
        /\ \A i \in 1..LineSize - 1 : q[i] # Newline
    BY <1>3, <2>3, ThrottleBytes DEF Letter
  <2>5. OnlyThrottle(q)'
    <3>1. ASSUME NEW i \in 1..Len(q)
          PROVE  /\ i \in {LineSize, 2 * LineSize} <=> q[i] = Newline
                 /\ i \in {1, LineSize + 1} => q[i].kind = "T"
      <4>1. i = LineSize \/ i \in 1..LineSize - 1 BY <2>4, FourBytes
      <4>2. /\ i \in {LineSize, 2 * LineSize} <=> i = LineSize
            /\ i \in {1, LineSize + 1} <=> i = 1
        BY <2>4, FourBytes
      <4> QED BY <2>4, <4>1, <4>2, FourBytes
    <3> QED BY <2>4, <3>1 DEF OnlyThrottle
  <2>6. (SteerLine(meant.sa) \o q)' = Pair(c) BY <1>2, <1>3, <2>3
  <2>7. (Due(SteerLine(meant.sa) \o q))' BY <2>2, <2>6 DEF Due
  <2> QED BY <2>4, <2>5, <2>7
<1> QED BY <1>5, <1>6, <1>7

\* A write that breaks off after a part, or before any.
LEMMA BreakLines ==
  ASSUME LinesType, ThrottleInv, SteerInv, NEW text \in Seq(Byte), Breaks(text),
         UNCHANGED meant, halted' \in BOOLEAN, halted => halted'
  PROVE  ThrottleInv' /\ SteerInv'
<1>1. /\ UNCHANGED <<serialBuffer, throttle_cmd, steer_auto_deg>>
      /\ \/ inStep' = 0
         \/ rx' = rx /\ UNCHANGED <<booting, inStep, lost>>
  BY BrokenBytes
<1>2. CASE inStep' = 0 BY <1>2 DEF ThrottleInv, SteerInv
<1>3. CASE UNCHANGED <<rx, inStep>>
  <2>1. ASSUME NEW q, Due(q) PROVE Due(q)' BY <1>1, <1>3, <2>1 DEF Due, Pending
  <2>2. Pending' = Pending BY <1>1, <1>3 DEF Pending
  <2>3. ThrottleInv'
    <3>1. PICK q : q = ThrottleLine(meant.th) OBVIOUS
    <3>2. ThrottleLine(meant.th)' = q BY <3>1
    <3>3. Due(q) => Due(ThrottleLine(meant.th))'
      <4> SUFFICES ASSUME Due(q) PROVE Due(ThrottleLine(meant.th))' OBVIOUS
      <4>1. Due(q)' BY <2>1
      <4> QED BY <3>2, <4>1 DEF Due
    <3> QED BY <1>1, <1>3, <2>2, <3>1, <3>3 DEF ThrottleInv
  <2>4. SteerInv'
    <3> SUFFICES ASSUME inStep' = 2
                 PROVE  \E q \in Seq(Byte) :
                          /\ OnlyThrottle(q)'
                          /\ \/ Pending' = q /\ Len(serialBuffer') < LineSize /\ steer_auto_deg' = meant'.sa
                             \/ (Due(SteerLine(meant.sa) \o q))'
      BY DEF SteerInv
    <3>1. PICK q \in Seq(Byte) :
            /\ OnlyThrottle(q)
            /\ \/ Pending = q /\ Len(serialBuffer) < LineSize /\ steer_auto_deg = meant.sa
               \/ Due(SteerLine(meant.sa) \o q)
      BY <1>3 DEF SteerInv
    <3>2. OnlyThrottle(q)' BY <3>1 DEF OnlyThrottle
    <3>3. PICK t : t = SteerLine(meant.sa) \o q OBVIOUS
    <3>4. (SteerLine(meant.sa) \o q)' = t BY <3>3
    <3>5. Due(t) => (Due(SteerLine(meant.sa) \o q))'
      <4> SUFFICES ASSUME Due(t) PROVE (Due(SteerLine(meant.sa) \o q))' OBVIOUS
      <4>1. Due(t)' BY <2>1
      <4> QED BY <3>4, <4>1 DEF Due
    <3> QED BY <1>1, <2>2, <3>1, <3>2, <3>3, <3>5
  <2> QED BY <2>3, <2>4
<1> QED BY <1>1, <1>2, <1>3

\* The stop of destroy_node, whole, after what was due.
LEMMA StopLines ==
  ASSUME LinesType, ThrottleInv, SteerInv, ~halted, halted' = TRUE,
         NEW gap \in BOOLEAN, Receives(FinalLine, gap),
         UNCHANGED <<serialBuffer, throttle_cmd, steer_auto_deg>>,
         inStep' = IF gap THEN 0 ELSE inStep,
         meant' = [meant EXCEPT !.th = 0]
  PROVE  ThrottleInv' /\ SteerInv'
<1>0. PICK r : r = ThrottleLine(0) OBVIOUS
<1>1. /\ r \in Seq(Byte) /\ FinalLine = r /\ Len(r) = LineSize /\ r[LineSize] = Newline
      /\ r[1].kind = "T" /\ \A i \in 1..LineSize - 1 : r[i] # Newline
  BY <1>0, ThrottleBytes DEF FinalLine, ThrottleLine, Letter
<1>r. r \in Seq(Byte) BY <1>1
<1>2. ~gap => rx' = rx \o r BY <1>1, ReceivedBytes
<1>3. meant.sa \in Int /\ meant'.th = 0 /\ meant'.sa = meant.sa BY LineLimits DEF LinesType
<1>4. CASE gap BY <1>4 DEF ThrottleInv, SteerInv
<1>5. CASE ~gap
  <2>1. ThrottleInv'
    <3> SUFFICES ASSUME inStep' >= 1 PROVE (Due(ThrottleLine(meant.th)))' BY DEF ThrottleInv
    <3>1. Due(r)' BY <1>1, <1>2, <1>5, AlignedInv, AlignedReceived
    <3>2. ThrottleLine(meant.th)' = r BY <1>0, <1>3
    <3> QED BY <3>1, <3>2 DEF Due
  <2>2. SteerInv'
    <3> SUFFICES ASSUME inStep' = 2
                 PROVE  \E q \in Seq(Byte) :
                          /\ OnlyThrottle(q)'
                          /\ \/ Pending' = q /\ Len(serialBuffer') < LineSize /\ steer_auto_deg' = meant'.sa
                             \/ (Due(SteerLine(meant.sa) \o q))'
      BY DEF SteerInv
    <3>1. PICK q \in Seq(Byte) :
            /\ OnlyThrottle(q)
            /\ \/ Pending = q /\ Len(serialBuffer) < LineSize /\ steer_auto_deg = meant.sa
               \/ Due(SteerLine(meant.sa) \o q)
      BY <1>5 DEF SteerInv
    <3>2. PICK t : t = q \o r OBVIOUS
    <3>3. /\ t \in Seq(Byte) /\ Len(t) = Len(q) + LineSize /\ Len(q) \in Nat
          /\ \A i \in 1..Len(q) : t[i] = q[i]
          /\ \A i \in 1..LineSize : t[Len(q) + i] = r[i]
      BY <1>1, <3>2, ConcatBytes
    <3>4. Len(q) = 0 \/ Len(q) = LineSize BY <3>1 DEF OnlyThrottle
    <3>5. ASSUME NEW i \in 1..Len(t)
          PROVE  /\ i \in {LineSize, 2 * LineSize} <=> t[i] = Newline
                 /\ i \in {1, LineSize + 1} => t[i].kind = "T"
      <4>1. CASE i <= Len(q)
        <5>1. i \in 1..Len(q) BY <3>3, <4>1
        <5> QED BY <3>1, <3>3, <5>1, FourBytes DEF OnlyThrottle
      <4>2. CASE ~(i <= Len(q))
        <5>1. PICK j \in 1..LineSize : i = Len(q) + j
          <6>1. i - Len(q) \in 1..LineSize /\ i = Len(q) + (i - Len(q)) BY <3>3, <4>2, FourBytes
          <6> QED BY <6>1
        <5>2. t[i] = r[j] BY <3>3, <5>1
        <5>3. j = LineSize \/ j \in 1..LineSize - 1 BY FourBytes
        <5>4. /\ i \in {LineSize, 2 * LineSize} <=> j = LineSize
              /\ i \in {1, LineSize + 1} <=> j = 1
          BY <3>4, <5>1, FourBytes
        <5>5. r[j] = Newline <=> j = LineSize BY <1>1, <5>3, FourBytes
        <5> QED BY <1>1, <5>2, <5>4, <5>5
      <4> QED BY <4>1, <4>2
    <3>6. OnlyThrottle(t)'
      <4>1. \/ Len(t) = 0 \/ Len(t) = LineSize \/ Len(t) = 2 * LineSize
        BY <3>3, <3>4, FourBytes
      <4> QED BY <3>5, <4>1 DEF OnlyThrottle
    <3>7. CASE Pending = q /\ Len(serialBuffer) < LineSize /\ steer_auto_deg = meant.sa
      <4>1. serialBuffer \in Seq(Byte) /\ rx \in Seq(Byte) BY DEF LinesType
      <4>2. serialBuffer \o (rx \o r) = (serialBuffer \o rx) \o r BY <1>r, <4>1, BytesAssociative
      <4>3. Pending' = t BY <1>2, <1>5, <3>2, <3>7, <4>2 DEF Pending
      <4> QED BY <1>3, <3>3, <3>6, <3>7, <4>3
    <3>8. CASE Due(SteerLine(meant.sa) \o q)
      <4>1. PICK s : s = SteerLine(meant.sa) OBVIOUS
      <4>2. s \in Seq(Byte) BY <1>3, <4>1, SteerBytes
      <4>3. s \o q \in Seq(Byte) /\ Due(s \o q) BY <3>8, <4>1, <4>2, ConcatBytes
      <4>4. Due((s \o q) \o r)' BY <1>1, <1>2, <1>5, <4>3, DueReceived
      <4>5. (s \o q) \o r = s \o t BY <1>r, <3>2, <4>2, BytesAssociative
      <4>6. PICK u : u = s \o t OBVIOUS
      <4>7. Due(u)' BY <4>4, <4>5, <4>6
      <4>8. (SteerLine(meant.sa) \o t)' = u BY <1>3, <4>1, <4>6
      <4>9. (Due(SteerLine(meant.sa) \o t))' BY <4>7, <4>8 DEF Due
      <4> QED BY <3>3, <3>6, <4>9
    <3> QED BY <3>1, <3>7, <3>8
  <2> QED BY <2>1, <2>2
<1> QED BY <1>4, <1>5

\* The board after a reset has the stop, and nothing pending.
LEMMA ResetLines ==
  ASSUME LinesType, BoardReset, port' \in BOOLEAN, halted' \in BOOLEAN
  PROVE  LinesType' /\ ThrottleInv' /\ SteerInv' /\ GlueInv' /\ BootInv' /\ MeantInv'
<1>1. /\ booting' = TRUE /\ rx' = <<>> /\ serialBuffer' = <<>>
      /\ throttle_cmd' = 0 /\ steer_auto_deg' = 0
      /\ sent' = {} /\ meant' = Stop /\ inStep' = 2 /\ lost' = FALSE
  BY DEF BoardReset
<1>2. <<>> \in Seq(Byte) /\ Len(<<>>) = 0 /\ <<>> \o <<>> = <<>> BY EmptySeq, ConcatEmptySeq
<1>3. Stop \in [sa : Clamped(SteerLimit), th : Clamped(Full)] BY LineLimits DEF Stop, Clamped
<1>4. LinesType'
  <2>1. rx' \in Seq(Byte) /\ serialBuffer' \in Seq(Byte) BY <1>1, <1>2
  <2>2. meant' \in [sa : Clamped(SteerLimit), th : Clamped(Full)] BY <1>1, <1>3
  <2>3. throttle_cmd' \in Int /\ steer_auto_deg' \in Int /\ inStep' \in 0..2 BY <1>1
  <2>4. sent' \subseteq Commands /\ booting' \in BOOLEAN /\ lost' \in BOOLEAN BY <1>1
  <2> QED BY <2>1, <2>2, <2>3, <2>4 DEF LinesType
<1>5. Pending' = <<>> BY <1>1, <1>2 DEF Pending
<1>6. ThrottleInv' BY <1>1, <1>5 DEF ThrottleInv, Stop
<1>7. SteerInv'
  <2>1. PICK q : q = <<>> OBVIOUS
  <2>2. OnlyThrottle(q)'
    <3>1. Len(q) = 0 /\ 1..Len(q) = {} BY <1>2, <2>1
    <3> QED BY <3>1 DEF OnlyThrottle
  <2>3. q \in Seq(Byte) /\ Len(serialBuffer') < LineSize BY <1>1, <1>2, <2>1, FourBytes
  <2> QED BY <1>1, <1>5, <2>1, <2>2, <2>3 DEF SteerInv, Stop
<1>8. GlueInv'
  <2>1. Stop.th = 0 /\ Stop.sa = 0 BY DEF Stop
  <2>2. CutsOnlyShorten' BY <1>1, <2>1 DEF CutsOnlyShorten, Shortened
  <2>3. 1..Len(Pending') = {} BY <1>2, <1>5
  <2> QED BY <2>2, <2>3 DEF GlueInv, GluedBytes
<1>9. BootInv' BY <1>1 DEF BootInv
<1>10. MeantInv' BY <1>1 DEF MeantInv
<1> QED BY <1>4, <1>6, <1>7, <1>8, <1>9, <1>10

-----------------------------------------------------------------------------
(* The letters and their numbers.                                          *)

\* Every number of a text follows its letter.
Fitting(cs, text) ==
  \A i \in 1..Len(text) :
    /\ text[i].kind # "tail"
    /\ text[i].kind \in Digits => i > 1 /\ Fits(cs, text[i - 1].kind, text[i].value)

LEMMA FitsMore ==
  ASSUME NEW cs, NEW ds, cs \subseteq ds, NEW k, NEW v, Fits(cs, k, v)
  PROVE  Fits(ds, k, v)
BY DEF Fits

LEMMA PairFits ==
  ASSUME NEW cs, NEW c \in Commands, c \in cs
  PROVE  Fitting(cs, Pair(c))
<1>1. /\ Len(Pair(c)) = 2 * LineSize /\ c.sa \in Int /\ c.th \in Int
      /\ \A i \in 1..LineSize : /\ Pair(c)[i] = SteerLine(c.sa)[i]
                                /\ Pair(c)[LineSize + i] = ThrottleLine(c.th)[i]
  BY PairBytes, LineLimits
<1>2. PICK p, s, t : p = Pair(c) /\ s = SteerLine(c.sa) /\ t = ThrottleLine(c.th) OBVIOUS
<1>3. /\ s[1] = Letter("S") /\ s[2] = Letter("A") /\ s[3] = Number(c.sa) /\ s[LineSize] = Newline
      /\ t[1] = Letter("T") /\ t[2] = Letter("H") /\ t[3] = Number(c.th) /\ t[LineSize] = Newline
  BY <1>1, <1>2, SteerBytes, ThrottleBytes
<1>4. /\ \A k : Letter(k).kind = k
      /\ \A x : Number(x).kind = "number" /\ Number(x).value = x
      /\ Newline.kind = "newline"
  BY DEF Letter, Number, Newline
<1>5. Fits(cs, "A", c.sa) /\ Fits(cs, "H", c.th) BY DEF Fits
<1>6. SUFFICES ASSUME NEW i \in 1..2 * LineSize
               PROVE  /\ p[i].kind # "tail"
                      /\ p[i].kind \in Digits => i > 1 /\ Fits(cs, p[i - 1].kind, p[i].value)
  BY <1>1, <1>2 DEF Fitting
<1>7. CASE i \in 1..LineSize
  <2>1. p[i] = s[i] BY <1>1, <1>2, <1>7
  <2>2. i = 1 \/ i = 2 \/ i = 3 \/ i = LineSize BY <1>7, FourBytes
  <2>3. CASE i = 3
    <3>1. i - 1 \in 1..LineSize /\ i - 1 = 2 BY <2>3, FourBytes
    <3>2. p[i - 1] = s[2] BY <1>1, <1>2, <3>1
    <3> QED BY <1>3, <1>4, <1>5, <2>1, <2>3, <3>2
  <2>4. CASE i = 1 \/ i = 2 \/ i = LineSize
    <3>1. p[i].kind \notin Digits BY <1>3, <1>4, <2>1, <2>4 DEF Digits
    <3> QED BY <3>1 DEF Digits
  <2> QED BY <2>2, <2>3, <2>4
<1>8. CASE ~(i \in 1..LineSize)
  <2>0. PICK j \in 1..LineSize : i = LineSize + j
    <3>1. i - LineSize \in 1..LineSize /\ i = LineSize + (i - LineSize) BY <1>8, FourBytes
    <3> QED BY <3>1
  <2>1. p[i] = t[j] BY <1>1, <1>2, <2>0
  <2>2. j = 1 \/ j = 2 \/ j = 3 \/ j = LineSize BY FourBytes
  <2>3. CASE j = 3
    <3>1. i - 1 = LineSize + 2 /\ 2 \in 1..LineSize /\ i > 1 BY <2>0, <2>3, FourBytes
    <3>2. p[i - 1] = t[2] BY <1>1, <1>2, <3>1
    <3> QED BY <1>3, <1>4, <1>5, <2>1, <2>3, <3>1, <3>2
  <2>4. CASE j = 1 \/ j = 2 \/ j = LineSize
    <3>1. p[i].kind \notin Digits BY <1>3, <1>4, <2>1, <2>4 DEF Digits
    <3> QED BY <3>1 DEF Digits
  <2> QED BY <2>2, <2>3, <2>4
<1> QED BY <1>7, <1>8

LEMMA StopFits ==
  /\ FinalLine \in Seq(Byte) /\ FinalLine = ThrottleLine(0) /\ Len(FinalLine) = LineSize
  /\ \A cs : Fitting(cs, FinalLine)
<1>1. PICK p : p = ThrottleLine(0) /\ p = FinalLine BY DEF FinalLine, ThrottleLine
<1>2. /\ p \in Seq(Byte) /\ Len(p) = LineSize /\ p[LineSize] = Newline
      /\ p[1] = Letter("T") /\ p[2] = Letter("H") /\ p[3] = Number(0)
  BY <1>1, ThrottleBytes
<1>3. /\ \A k : Letter(k).kind = k
      /\ Number(0).kind = "number" /\ Number(0).value = 0 /\ Newline.kind = "newline"
  BY DEF Letter, Number, Newline
<1>4. \A cs : Fits(cs, "H", 0)
  <2>1. Stop.th = 0 BY DEF Stop
  <2> QED BY <2>1 DEF Fits
<1>5. ASSUME NEW cs, NEW i \in 1..LineSize
      PROVE  /\ p[i].kind # "tail"
             /\ p[i].kind \in Digits => i > 1 /\ Fits(cs, p[i - 1].kind, p[i].value)
  <2>1. i = 1 \/ i = 2 \/ i = 3 \/ i = LineSize BY FourBytes
  <2>2. CASE i = 3
    <3>1. i - 1 = 2 /\ i > 1 BY <2>2
    <3> QED BY <1>2, <1>3, <1>4, <2>2, <3>1
  <2>3. CASE i = 1 \/ i = 2 \/ i = LineSize
    <3>1. p[i].kind \notin Digits BY <1>2, <1>3, <2>3 DEF Digits
    <3> QED BY <3>1 DEF Digits
  <2> QED BY <2>1, <2>2, <2>3
<1> QED BY <1>1, <1>2, <1>5 DEF Fitting

\* A part of a text fits as the text does.
LEMMA HeadFits ==
  ASSUME NEW cs, NEW text \in Seq(Byte), Fitting(cs, text), NEW h \in Heads(text)
  PROVE  Fitting(cs, h)
<1>1. /\ h \in Seq(Byte) /\ Len(h) <= Len(text) /\ Len(h) \in Nat /\ Len(text) \in Nat
      /\ \A i \in 1..Len(h) :
           \/ h[i] = text[i]
           \/ text[i].kind = "number" /\ h[i].kind = "head" /\ h[i].value = text[i].value
  BY HeadBytes, LenProperties
<1>2. ASSUME NEW i \in 1..Len(h)
      PROVE  /\ h[i].kind # "tail"
             /\ h[i].kind \in Digits => i > 1 /\ Fits(cs, h[i - 1].kind, h[i].value)
  <2>1. i \in 1..Len(text) BY <1>1
  <2>2. /\ text[i].kind # "tail"
        /\ text[i].kind \in Digits => i > 1 /\ Fits(cs, text[i - 1].kind, text[i].value)
    BY <2>1 DEF Fitting
  <2>3. h[i].kind # "tail" BY <1>1, <2>2
  <2>4. ASSUME h[i].kind \in Digits PROVE i > 1 /\ Fits(cs, h[i - 1].kind, h[i].value)
    <3>1. h[i].value = text[i].value /\ text[i].kind \in Digits BY <1>1, <2>4 DEF Digits
    <3>2. i > 1 /\ Fits(cs, text[i - 1].kind, text[i].value) BY <2>2, <3>1
    <3>3. text[i - 1].kind # "number" BY <3>2 DEF Fits
    <3>4. i - 1 \in 1..Len(h) BY <1>1, <3>2
    <3>5. h[i - 1] = text[i - 1] BY <1>1, <3>3, <3>4
    <3> QED BY <3>1, <3>2, <3>5
  <2> QED BY <2>3, <2>4
<1> QED BY <1>2 DEF Fitting

\* A text that fits may come after what is pending.
LEMMA GlueReceived ==
  ASSUME LinesType, GluedBytes, NEW text \in Seq(Byte), Fitting(sent', text), sent \subseteq sent',
         rx' = rx \o text, serialBuffer' = serialBuffer
  PROVE  GluedBytes'
<1>1. PICK p, r : p = Pending /\ r = p \o text OBVIOUS
<1>2. p \in Seq(Byte) /\ Len(p) \in Nat BY <1>1, PendingBytes, LenProperties
<1>3. Pending' = r
  <2>1. serialBuffer \in Seq(Byte) /\ rx \in Seq(Byte) BY DEF LinesType
  <2>2. serialBuffer \o (rx \o text) = (serialBuffer \o rx) \o text BY <2>1, BytesAssociative
  <2> QED BY <1>1, <2>2 DEF Pending
<1>4. /\ Len(r) = Len(p) + Len(text) /\ Len(text) \in Nat
      /\ \A i \in 1..Len(p) : r[i] = p[i]
      /\ \A i \in 1..Len(text) : r[Len(p) + i] = text[i]
  BY <1>1, <1>2, ConcatBytes
<1>5. SUFFICES ASSUME NEW i \in 1..Len(r)
               PROVE  /\ r[i].kind # "tail"
                      /\ r[i].kind \in Digits /\ i > 1 => Fits(sent', r[i - 1].kind, r[i].value)
  BY <1>3 DEF GluedBytes
<1>6. CASE i <= Len(p)
  <2>1. i \in 1..Len(p) /\ r[i] = p[i] /\ (i > 1 => r[i - 1] = p[i - 1])
    <3>1. i \in 1..Len(p) /\ (i > 1 => i - 1 \in 1..Len(p)) BY <1>2, <1>4, <1>6
    <3>2. \A j \in 1..Len(p) : r[j] = p[j] BY <1>4
    <3> QED BY <3>1, <3>2
  <2>2. /\ p[i].kind # "tail"
        /\ p[i].kind \in Digits /\ i > 1 => Fits(sent, p[i - 1].kind, p[i].value)
    BY <1>1, <2>1 DEF GluedBytes
  <2> QED BY <2>1, <2>2, FitsMore
<1>7. CASE ~(i <= Len(p))
  <2>1. PICK j \in 1..Len(text) : i = Len(p) + j
    <3>1. i - Len(p) \in 1..Len(text) /\ i = Len(p) + (i - Len(p)) BY <1>2, <1>4, <1>7
    <3> QED BY <3>1
  <2>2. r[i] = text[j] BY <1>4, <2>1
  <2>3. /\ text[j].kind # "tail"
        /\ text[j].kind \in Digits => j > 1 /\ Fits(sent', text[j - 1].kind, text[j].value)
    BY DEF Fitting
  <2>4. j > 1 => r[i - 1] = text[j - 1]
    <3> SUFFICES ASSUME j > 1 PROVE r[i - 1] = text[j - 1] OBVIOUS
    <3>1. j - 1 \in 1..Len(text) /\ i - 1 = Len(p) + (j - 1) BY <1>2, <1>4, <2>1
    <3> QED BY <1>4, <3>1
  <2> QED BY <2>2, <2>3, <2>4, FitsMore
<1> QED BY <1>6, <1>7

\* The line so far is dropped, or taken: what follows the byte that is read remains.
LEMMA GlueDropped ==
  ASSUME LinesType, GluedBytes, ParseSerial, serialBuffer' = <<>>
  PROVE  GluedBytes'
<1>1. /\ Len(rx) \in Nat /\ Len(rx) >= 1 /\ Len(rx') = Len(rx) - 1 /\ rx' \in Seq(Byte)
      /\ \A i \in 1..Len(rx') : rx'[i] = rx[i + 1]
  BY ByteRead
<1>2. UNCHANGED sent BY DEF ParseSerial, history
<1>3. PICK p, n, r : p = Pending /\ n = Len(serialBuffer) + 1 /\ r = rx' OBVIOUS
<1>4. Pending' = r
  <2>1. r \in Seq(Byte) /\ r = rx' BY <1>1, <1>3
  <2>2. <<>> \o r = r BY <2>1, ConcatEmptySeq
  <2>3. serialBuffer' \o rx' = <<>> \o r BY <2>1
  <2> QED BY <2>2, <2>3 DEF Pending
<1>5. ASSUME NEW i \in 1..Len(r) PROVE n + i \in 1..Len(p) /\ r[i] = p[n + i] /\ n \in Nat
  <2>0. Len(r) = Len(rx) - 1 /\ Len(serialBuffer) \in Nat BY <1>1, <1>3, PendingBytes
  <2>1. i + 1 \in 1..Len(rx) /\ n + i = Len(serialBuffer) + (i + 1)
    BY <1>1, <1>3, <2>0
  <2>2. r[i] = rx[i + 1] BY <1>1, <1>3
  <2>3. p[Len(serialBuffer) + (i + 1)] = rx[i + 1] /\ Len(p) = Len(serialBuffer) + Len(rx)
    BY <1>3, <2>1, PendingBytes
  <2> QED BY <1>1, <1>3, <2>0, <2>1, <2>2, <2>3
<1>6. ASSUME NEW i \in 1..Len(r)
      PROVE  /\ r[i].kind # "tail"
             /\ r[i].kind \in Digits /\ i > 1 => Fits(sent, r[i - 1].kind, r[i].value)
  <2>1. n + i \in 1..Len(p) /\ r[i] = p[n + i] /\ n \in Nat BY <1>5
  <2>2. /\ p[n + i].kind # "tail"
        /\ p[n + i].kind \in Digits /\ n + i > 1 => Fits(sent, p[(n + i) - 1].kind, p[n + i].value)
    BY <1>3, <2>1 DEF GluedBytes
  <2>3. i > 1 => r[i - 1] = p[(n + i) - 1] /\ n + i > 1
    <3> SUFFICES ASSUME i > 1 PROVE r[i - 1] = p[(n + i) - 1] /\ n + i > 1 OBVIOUS
    <3>1. i - 1 \in 1..Len(r) /\ n + (i - 1) = (n + i) - 1 BY <1>1, <1>3, <2>1
    <3> QED BY <1>5, <2>1, <3>1
  <2> QED BY <2>1, <2>2, <2>3
<1> QED BY <1>2, <1>4, <1>6 DEF GluedBytes

LEMMA ReadingBounds ==
  ASSUME NEW text \in Seq(Byte), NEW limit \in Nat, NEW x \in Readings(text, limit)
  PROVE  x \in Int
<1>1. Clamped(limit) \subseteq Int BY DEF Clamped
<1>2. text # <<>> => text[1].value \in Int /\ Constrain(text[1].value, limit) \in Int
  <2> SUFFICES ASSUME text # <<>> PROVE text[1].value \in Int /\ Constrain(text[1].value, limit) \in Int
    OBVIOUS
  <2>1. 1 \in 1..Len(text) BY LenProperties, EmptySeq
  <2>2. text[1] \in Byte BY <2>1, ElementOfSeq
  <2> QED BY <2>2 DEF Byte, Constrain
<1> QED BY <1>1, <1>2 DEF Readings

\* A number that fits, cut or not, is read as a shortened one.
LEMMA FitReading ==
  ASSUME NEW text \in Seq(Byte), NEW limit \in Nat, NEW x \in Readings(text, limit),
         text # <<>> /\ text[1].kind \in Digits =>
           /\ text[1].kind # "tail" /\ text[1].value \in Clamped(limit)
           /\ ~(Len(text) > 1 /\ text[2].kind \in Digits)
  PROVE  \/ Shortened(x, 0)
         \/ text # <<>> /\ text[1].kind \in Digits /\ Shortened(x, text[1].value)
<1>1. CASE text = <<>> \/ text[1].kind \notin Digits
  <2>1. x = 0 BY <1>1 DEF Readings
  <2> QED BY <2>1 DEF Shortened
<1>2. CASE text # <<>> /\ text[1].kind \in Digits
  <2>1. text[1].value \in Int /\ text[1].value <= limit /\ ~(text[1].value < -limit)
    BY <1>2 DEF Clamped
  <2>2. Constrain(text[1].value, limit) = text[1].value BY <2>1 DEF Constrain
  <2>3. CASE text[1].kind = "head"
    <3>1. Readings(text, limit) = {y \in Clamped(limit) : Shortened(y, text[1].value)}
      BY <1>2, <2>3 DEF Readings
    <3> QED BY <1>2, <3>1
  <2>4. CASE text[1].kind # "head"
    <3>1. x = text[1].value BY <1>2, <2>2, <2>4 DEF Readings
    <3> QED BY <1>2, <2>1, <3>1 DEF Shortened
  <2> QED BY <2>3, <2>4
<1> QED BY <1>1, <1>2

\* What the line so far is read as: a number that was written after its letter.
LEMMA GluedReading ==
  ASSUME LinesType, GluedBytes, NEW k, Len(serialBuffer) >= 2, serialBuffer[2].kind = k,
         NEW limit \in Nat, NEW x \in Readings(SubSeq(serialBuffer, 3, Len(serialBuffer)), limit),
         \A v : Fits(sent, k, v) => v \in Clamped(limit)
  PROVE  Shortened(x, 0) \/ \E v : Fits(sent, k, v) /\ Shortened(x, v)
<1>1. PICK b, n, text : b = serialBuffer /\ n = Len(b) /\ text = SubSeq(b, 3, n) OBVIOUS
<1>2. b \in Seq(Byte) /\ n \in Nat /\ n >= 2 BY <1>1 DEF LinesType
<1>3. /\ text \in Seq(Byte) /\ Len(text) = n - 2
      /\ \A i \in 1..n - 2 : text[i] = b[2 + i]
  <2>1. \A i \in 3..n : b[i] \in Byte BY <1>1, <1>2, ElementOfSeq
  <2>2. /\ text \in Seq(Byte)
        /\ Len(text) = IF 3 <= n THEN n - 3 + 1 ELSE 0
        /\ \A i \in 1..n - 3 + 1 : text[i] = b[3 + i - 1]
    BY <1>1, <1>2, <2>1, SubSeqProperties
  <2> QED BY <1>2, <2>2
<1>4. ASSUME NEW i \in 1..n PROVE Pending[i] = b[i] /\ i \in 1..Len(Pending)
  BY <1>1, PendingBytes
<1>5. ASSUME text # <<>>, text[1].kind \in Digits
      PROVE  /\ text[1].kind # "tail" /\ Fits(sent, k, text[1].value)
             /\ ~(Len(text) > 1 /\ text[2].kind \in Digits)
  <2>1. n - 2 \in Nat /\ n - 2 # 0 BY <1>2, <1>3, <1>5, EmptySeq
  <2>2. 1 \in 1..n - 2 /\ 2 \in 1..n /\ 3 \in 1..n BY <1>2, <2>1
  <2>3. text[1] = b[3] /\ Pending[3] = b[3] /\ Pending[2] = b[2] BY <1>3, <1>4, <2>2
  <2>4. b[3].kind # "tail" /\ Fits(sent, b[2].kind, b[3].value)
    <3>1. /\ Pending[3].kind # "tail"
          /\ Pending[3].kind \in Digits /\ 3 > 1 => Fits(sent, Pending[3 - 1].kind, Pending[3].value)
      BY <1>4, <2>2 DEF GluedBytes
    <3>2. 3 > 1 /\ 3 - 1 = 2 OBVIOUS
    <3> QED BY <1>5, <2>3, <3>1, <3>2
  <2>5. ASSUME Len(text) > 1, text[2].kind \in Digits PROVE FALSE
    <3>1. 2 \in 1..n - 2 /\ 4 \in 1..n BY <1>2, <1>3, <2>5
    <3>2. text[2] = b[4] /\ Pending[4] = b[4] BY <1>3, <1>4, <3>1
    <3>3. /\ Pending[4].kind \in Digits /\ 4 > 1 => Fits(sent, Pending[4 - 1].kind, Pending[4].value)
      BY <1>4, <3>1 DEF GluedBytes
    <3>4. 4 > 1 /\ 4 - 1 = 3 OBVIOUS
    <3>5. Fits(sent, b[3].kind, b[4].value) BY <2>3, <2>5, <3>2, <3>3, <3>4
    <3>6. b[3].kind \in {"A", "H"} BY <3>5 DEF Fits
    <3> QED BY <1>5, <2>3, <3>6 DEF Digits
  <2> QED BY <1>1, <2>3, <2>4, <2>5
<1>6. x \in Readings(text, limit) BY <1>1
<1>7. \/ Shortened(x, 0)
      \/ text # <<>> /\ text[1].kind \in Digits /\ Shortened(x, text[1].value)
  BY <1>3, <1>5, <1>6, FitReading
<1> QED BY <1>5, <1>7

\* The read of a byte keeps both commands shortened ones.
LEMMA ShortenedRead ==
  ASSUME LinesType, ~lost, GluedBytes, CutsOnlyShorten, ParseSerial
  PROVE  CutsOnlyShorten'
<1>1. UNCHANGED sent BY DEF ParseSerial, history
<1>2. PICK c, d \in sent \cup {Stop} : Shortened(throttle_cmd, c.th) /\ Shortened(steer_auto_deg, d.sa)
  BY DEF CutsOnlyShorten
<1>3. CASE UNCHANGED <<throttle_cmd, steer_auto_deg>> BY <1>1, <1>2, <1>3 DEF CutsOnlyShorten
<1>4. CASE ParseLine
  <2> DEFINE text == SubSeq(serialBuffer, 3, Len(serialBuffer))
             begins(a, b) == Len(serialBuffer) >= 2 /\ serialBuffer[1].kind = a /\ serialBuffer[2].kind = b
  <2>1. /\ IF begins("T", "H") THEN throttle_cmd' \in Readings(text, Full) ELSE UNCHANGED throttle_cmd
        /\ IF begins("S", "A") THEN steer_auto_deg' \in Readings(text, SteerLimit)
           ELSE UNCHANGED steer_auto_deg
    BY <1>4 DEF ParseLine
  <2>2. Stop.th = 0 /\ Stop.sa = 0 BY DEF Stop
  <2>3. \A x \in sent \cup {Stop} : x.sa \in Clamped(SteerLimit) /\ x.th \in Clamped(Full)
    BY LineLimits DEF LinesType
  <2>4. Full \in Nat /\ SteerLimit \in Nat BY LineLimits
  <2>5. \E x \in sent \cup {Stop} : Shortened(throttle_cmd', x.th)
    <3>1. CASE begins("T", "H")
      <4>1. PICK y : y = throttle_cmd' /\ y \in Readings(text, Full) BY <2>1, <3>1
      <4>2. \A v : Fits(sent, "H", v) => v \in Clamped(Full) BY <2>3 DEF Fits
      <4>3. Shortened(y, 0) \/ \E v : Fits(sent, "H", v) /\ Shortened(y, v)
        BY <2>4, <3>1, <4>1, <4>2, GluedReading
      <4> QED BY <2>2, <4>1, <4>3 DEF Fits
    <3>2. CASE ~begins("T", "H") BY <1>2, <2>1, <3>2
    <3> QED BY <3>1, <3>2
  <2>6. \E x \in sent \cup {Stop} : Shortened(steer_auto_deg', x.sa)
    <3>1. CASE begins("S", "A")
      <4>1. PICK y : y = steer_auto_deg' /\ y \in Readings(text, SteerLimit) BY <2>1, <3>1
      <4>2. \A v : Fits(sent, "A", v) => v \in Clamped(SteerLimit) BY <2>3 DEF Fits
      <4>3. Shortened(y, 0) \/ \E v : Fits(sent, "A", v) /\ Shortened(y, v)
        BY <2>4, <3>1, <4>1, <4>2, GluedReading
      <4> QED BY <2>2, <4>1, <4>3 DEF Fits
    <3>2. CASE ~begins("S", "A") BY <1>2, <2>1, <3>2
    <3> QED BY <3>1, <3>2
  <2> QED BY <1>1, <2>5, <2>6 DEF CutsOnlyShorten
<1> QED BY <1>3, <1>4, ByteRead

-----------------------------------------------------------------------------
(* The invariant.                                                          *)

LEMMA LinesInitially == LinesInit => LinesInv
<1> SUFFICES ASSUME LinesInit PROVE LinesInv OBVIOUS
<1>1. /\ port = FALSE /\ halted = FALSE /\ booting = TRUE /\ rx = <<>> /\ serialBuffer = <<>>
      /\ throttle_cmd = 0 /\ steer_auto_deg = 0
      /\ sent = {} /\ meant = Stop /\ inStep = 2 /\ lost = FALSE
  BY DEF LinesInit
<1>2. <<>> \in Seq(Byte) /\ Len(<<>>) = 0 /\ <<>> \o <<>> = <<>> BY EmptySeq, ConcatEmptySeq
<1>3. LinesType
  <2>1. rx \in Seq(Byte) /\ serialBuffer \in Seq(Byte) BY <1>1, <1>2
  <2>2. meant \in [sa : Clamped(SteerLimit), th : Clamped(Full)]
    BY <1>1, LineLimits DEF Stop, Clamped
  <2>3. throttle_cmd \in Int /\ steer_auto_deg \in Int /\ inStep \in 0..2 BY <1>1
  <2>4. sent \subseteq Commands /\ booting \in BOOLEAN /\ lost \in BOOLEAN BY <1>1
  <2>5. port \in BOOLEAN /\ halted \in BOOLEAN BY <1>1
  <2> QED BY <2>1, <2>2, <2>3, <2>4, <2>5 DEF LinesType
<1>4. Pending = <<>> BY <1>1, <1>2 DEF Pending
<1>5. ThrottleInv BY <1>1, <1>4 DEF ThrottleInv, Stop
<1>6. SteerInv
  <2>1. PICK q : q = <<>> OBVIOUS
  <2>2. OnlyThrottle(q)
    <3>1. Len(q) = 0 /\ 1..Len(q) = {} BY <1>2, <2>1
    <3> QED BY <3>1 DEF OnlyThrottle
  <2>3. q \in Seq(Byte) /\ Len(serialBuffer) < LineSize BY <1>1, <1>2, <2>1, FourBytes
  <2> QED BY <1>1, <1>4, <2>1, <2>2, <2>3 DEF SteerInv, Stop
<1>7. GlueInv
  <2>1. Stop.th = 0 /\ Stop.sa = 0 BY DEF Stop
  <2>2. CutsOnlyShorten BY <1>1, <2>1 DEF CutsOnlyShorten, Shortened
  <2>3. 1..Len(Pending) = {} BY <1>2, <1>4
  <2> QED BY <2>2, <2>3 DEF GlueInv, GluedBytes
<1>8. BootInv /\ HaltInv /\ MeantInv BY <1>1 DEF BootInv, HaltInv, MeantInv
<1> QED BY <1>3, <1>5, <1>6, <1>7, <1>8 DEF LinesInv

LEMMA ShortenMore ==
  ASSUME sent \subseteq sent', UNCHANGED <<throttle_cmd, steer_auto_deg>>, ~lost, CutsOnlyShorten
  PROVE  CutsOnlyShorten'
BY DEF CutsOnlyShorten

\* _send_last_cmd(), a write that succeeds.
LEMMA SendStep ==
  ASSUME LinesInv, NEW c \in Commands, SendCommand(c)
  PROVE  LinesInv'
<1> USE DEF LinesInv
<1>1. PICK gap \in BOOLEAN :
         /\ Receives(Pair(c), gap)
         /\ UNCHANGED <<serialBuffer, throttle_cmd, steer_auto_deg>>
         /\ inStep' = IF gap THEN 0 ELSE IF inStep = 0 THEN 1 ELSE 2
         /\ lost' = (gap \/ (lost /\ inStep < 2))
  BY DEF SendCommand, Receiving
<1>2. sent' = sent \cup {c} /\ meant' = c /\ UNCHANGED <<port, halted>>
  BY DEF SendCommand, hostVars
<1>3. Pair(c) \in Seq(Byte) /\ Len(Pair(c)) = 2 * LineSize /\ c.th \in Int /\ c.sa \in Int
  BY PairBytes, LineLimits
<1>4. /\ rx' \in Seq(Byte) /\ booting' \in BOOLEAN
      /\ ~booting => rx = <<>> /\ ~booting'
      /\ ~gap => rx' = rx \o Pair(c) /\ booting' = booting
      /\ gap => booting /\ (booting' => Len(rx') = Room)
      /\ booting' => Len(rx') <= Room
  BY <1>1, <1>3, ReceivedBytes
<1>5. LinesType' /\ ThrottleInv' /\ SteerInv' BY SendLines
<1>6. BootInv'
  <2> SUFFICES ASSUME booting', lost' PROVE Len(rx') = Room /\ inStep' = 0 BY DEF BootInv
  <2>1. CASE gap BY <1>1, <1>4, <2>1
  <2>2. CASE ~gap
    <3>1. Len(rx) = Room /\ rx \in Seq(Byte) BY <1>1, <1>4, <2>2 DEF BootInv, LinesType
    <3>2. Len(rx') = Len(rx) + 2 * LineSize BY <1>3, <1>4, <2>2, <3>1, ConcatBytes
    <3> QED BY <1>4, <3>1, <3>2, FourBytes, LineLimits
  <2> QED BY <2>1, <2>2
<1>7. GlueInv'
  <2> SUFFICES ASSUME ~lost' PROVE CutsOnlyShorten' /\ GluedBytes' BY DEF GlueInv
  <2>1. ~gap /\ (~lost \/ inStep = 2) BY <1>1 DEF LinesType
  <2>2. Fitting(sent', Pair(c))
    <3>1. c \in sent' BY <1>2
    <3> QED BY <3>1, PairFits
  <2>3. sent \subseteq sent' BY <1>2
  <2>4. CASE ~lost
    <3>1. CutsOnlyShorten /\ GluedBytes BY <2>4 DEF GlueInv
    <3> QED BY <1>1, <1>3, <1>4, <2>1, <2>2, <2>3, <2>4, <3>1, GlueReceived, ShortenMore
  <2>5. CASE lost
    <3>1. inStep = 2 /\ rx = <<>> /\ ~booting BY <1>4, <2>1, <2>5 DEF BootInv
    <3>2. Pending = <<>> /\ throttle_cmd = meant.th /\ steer_auto_deg = meant.sa
      BY <3>1, AllRead
    <3>3. meant.sa \in Int /\ meant.th \in Int BY LineLimits DEF LinesType
    <3>4. Shortened(throttle_cmd, meant.th) /\ Shortened(steer_auto_deg, meant.sa)
      BY <3>2, <3>3 DEF Shortened
    <3>5. CutsOnlyShorten' BY <1>1, <2>3, <3>4 DEF MeantInv, CutsOnlyShorten
    <3>6. GluedBytes
      <4>1. 1..Len(Pending) = {} BY <3>2, EmptySeq
      <4> QED BY <4>1 DEF GluedBytes
    <3> QED BY <1>1, <1>3, <1>4, <2>1, <2>2, <2>3, <3>5, <3>6, GlueReceived
  <2> QED BY <2>4, <2>5
<1>8. HaltInv' BY <1>2 DEF HaltInv
<1>9. MeantInv' BY <1>2 DEF MeantInv
<1> QED BY <1>5, <1>6, <1>7, <1>8, <1>9

\* A write that breaks off, of a text whose numbers fit the commands sent.
LEMMA BreakGlue ==
  ASSUME LinesType, GlueInv, NEW text \in Seq(Byte), Breaks(text), Fitting(sent', text),
         sent \subseteq sent'
  PROVE  GlueInv'
<1> SUFFICES ASSUME ~lost' PROVE CutsOnlyShorten' /\ GluedBytes' BY DEF GlueInv
<1>1. /\ UNCHANGED <<serialBuffer, throttle_cmd, steer_auto_deg>> /\ ~lost
      /\ \E part \in Heads(text) : rx' = rx \o part
  BY BrokenBytes
<1>2. CutsOnlyShorten /\ GluedBytes BY <1>1 DEF GlueInv
<1>3. PICK part \in Heads(text) : rx' = rx \o part BY <1>1
<1>4. part \in Seq(Byte) /\ Fitting(sent', part) BY HeadBytes, HeadFits
<1> QED BY <1>1, <1>2, <1>3, <1>4, GlueReceived, ShortenMore

\* _send_last_cmd(), a write that fails.
LEMMA FailStep ==
  ASSUME LinesInv, NEW c \in Commands, SendFails(c)
  PROVE  LinesInv'
<1> USE DEF LinesInv
<1>1. /\ port' = FALSE /\ Breaks(Pair(c)) /\ sent' = sent \cup {c} /\ UNCHANGED <<halted, meant>>
  BY DEF SendFails
<1>2. Pair(c) \in Seq(Byte) BY PairBytes
<1>3. /\ rx' \in Seq(Byte) /\ booting' \in BOOLEAN /\ inStep' \in 0..2 /\ lost' \in BOOLEAN
      /\ UNCHANGED <<serialBuffer, throttle_cmd, steer_auto_deg>> /\ BootInv'
  BY <1>1, <1>2, BrokenBytes
<1>4. LinesType' BY <1>1, <1>3 DEF LinesType
<1>5. ThrottleInv' /\ SteerInv'
  <2>1. halted' \in BOOLEAN /\ UNCHANGED meant BY <1>1 DEF LinesType
  <2> QED BY <1>1, <1>2, <2>1, BreakLines
<1>6. GlueInv'
  <2>1. c \in sent' /\ sent \subseteq sent' BY <1>1
  <2>2. Fitting(sent', Pair(c)) BY <2>1, PairFits
  <2> QED BY <1>1, <1>2, <2>1, <2>2, BreakGlue
<1>7. HaltInv' /\ MeantInv' BY <1>1 DEF HaltInv, MeantInv
<1> QED BY <1>3, <1>4, <1>5, <1>6, <1>7

\* destroy_node().
LEMMA DestroyStep ==
  ASSUME LinesInv, DestroyNode
  PROVE  LinesInv'
<1> USE DEF LinesInv
<1>1. port /\ port' = FALSE /\ halted' = TRUE /\ UNCHANGED sent BY DEF DestroyNode
<1>2. ~halted BY <1>1 DEF HaltInv
<1>3. FinalLine \in Seq(Byte) /\ Len(FinalLine) = LineSize /\ Fitting(sent', FinalLine) BY StopFits
<1>4. HaltInv' BY <1>1 DEF HaltInv
<1>5. CASE /\ \E gap \in BOOLEAN :
                /\ Receiving(FinalLine, gap)
                /\ inStep' = IF gap THEN 0 ELSE inStep
                /\ lost' = (gap \/ lost)
                /\ meant' = [meant EXCEPT !.th = 0]
  <2>1. PICK gap \in BOOLEAN :
          /\ Receives(FinalLine, gap)
          /\ UNCHANGED <<serialBuffer, throttle_cmd, steer_auto_deg>>
          /\ inStep' = IF gap THEN 0 ELSE inStep
          /\ lost' = (gap \/ lost)
          /\ meant' = [meant EXCEPT !.th = 0]
    BY <1>5 DEF Receiving
  <2>2. /\ rx' \in Seq(Byte) /\ booting' \in BOOLEAN
        /\ ~gap => rx' = rx \o FinalLine /\ booting' = booting
        /\ gap => booting /\ (booting' => Len(rx') = Room)
        /\ booting' => Len(rx') <= Room
    BY <1>3, <2>1, ReceivedBytes
  <2>3. LinesType'
    <3>1. meant' \in [sa : Clamped(SteerLimit), th : Clamped(Full)]
      <4>1. meant \in [sa : Clamped(SteerLimit), th : Clamped(Full)] BY DEF LinesType
      <4>2. 0 \in Clamped(Full) BY LineLimits DEF Clamped
      <4> QED BY <2>1, <4>1, <4>2
    <3>2. inStep' \in 0..2 /\ lost' \in BOOLEAN BY <2>1 DEF LinesType
    <3> QED BY <1>1, <2>1, <2>2, <3>1, <3>2 DEF LinesType
  <2>4. ThrottleInv' /\ SteerInv' BY <1>1, <1>2, <2>1, StopLines
  <2>5. BootInv'
    <3> SUFFICES ASSUME booting', lost' PROVE Len(rx') = Room /\ inStep' = 0 BY DEF BootInv
    <3>1. CASE gap BY <2>1, <2>2, <3>1
    <3>2. CASE ~gap
      <4>1. Len(rx) = Room /\ rx \in Seq(Byte) BY <2>1, <2>2, <3>2 DEF BootInv, LinesType
      <4>2. Len(rx') = Len(rx) + LineSize BY <1>3, <2>2, <3>2, <4>1, ConcatBytes
      <4> QED BY <2>2, <4>1, <4>2, FourBytes, LineLimits
    <3> QED BY <3>1, <3>2
  <2>6. GlueInv'
    <3> SUFFICES ASSUME ~lost' PROVE CutsOnlyShorten' /\ GluedBytes' BY DEF GlueInv
    <3>1. ~gap /\ ~lost BY <2>1
    <3>2. CutsOnlyShorten /\ GluedBytes BY <3>1 DEF GlueInv
    <3> QED BY <1>1, <1>3, <2>1, <2>2, <3>1, <3>2, GlueReceived, ShortenMore
  <2>7. MeantInv'
    <3>1. meant'.th = 0 /\ meant'.sa = meant.sa BY <2>1 DEF LinesType
    <3>2. Stop.th = 0 BY DEF Stop
    <3> QED BY <1>1, <3>1, <3>2 DEF MeantInv
  <2> QED BY <1>4, <2>3, <2>4, <2>5, <2>6, <2>7
<1>6. CASE Breaks(FinalLine) /\ UNCHANGED meant
  <2>1. /\ rx' \in Seq(Byte) /\ booting' \in BOOLEAN /\ inStep' \in 0..2 /\ lost' \in BOOLEAN
        /\ UNCHANGED <<serialBuffer, throttle_cmd, steer_auto_deg>> /\ BootInv'
    BY <1>3, <1>6, BrokenBytes
  <2>2. LinesType' BY <1>1, <1>6, <2>1 DEF LinesType
  <2>3. ThrottleInv' /\ SteerInv' BY <1>1, <1>3, <1>6, BreakLines
  <2>4. GlueInv' BY <1>1, <1>3, <1>6, BreakGlue
  <2>5. MeantInv' BY <1>1, <1>6 DEF MeantInv
  <2> QED BY <1>4, <2>1, <2>2, <2>3, <2>4, <2>5
<1> QED BY <1>5, <1>6 DEF DestroyNode

\* parseSerial() takes a byte.
LEMMA ParseStep ==
  ASSUME LinesInv, ParseSerial
  PROVE  LinesInv'
<1> USE DEF LinesInv
<1>1. ~booting /\ UNCHANGED <<port, halted, booting, sent, meant, inStep, lost>>
  BY DEF ParseSerial, hostVars, history
<1>2. rx' \in Seq(Byte) /\ serialBuffer' \in Seq(Byte) BY ByteRead
<1>3. throttle_cmd' \in Int /\ steer_auto_deg' \in Int
  <2>1. CASE UNCHANGED <<throttle_cmd, steer_auto_deg>> BY <2>1 DEF LinesType
  <2>2. CASE ParseLine
    <3> DEFINE text == SubSeq(serialBuffer, 3, Len(serialBuffer))
    <3>1. throttle_cmd' \in Readings(text, Full) \/ throttle_cmd' = throttle_cmd BY <2>2 DEF ParseLine
    <3>2. steer_auto_deg' \in Readings(text, SteerLimit) \/ steer_auto_deg' = steer_auto_deg
      BY <2>2 DEF ParseLine
    <3>3. text \in Seq(Byte)
      <4>1. serialBuffer \in Seq(Byte) /\ Len(serialBuffer) \in Nat BY LenProperties DEF LinesType
      <4>2. \A i \in 3..Len(serialBuffer) : serialBuffer[i] \in Byte BY <4>1, ElementOfSeq
      <4> QED BY <4>1, <4>2, SubSeqProperties
    <3>4. \A x \in Readings(text, Full) \cup Readings(text, SteerLimit) : x \in Int
      BY <3>3, LineLimits, ReadingBounds
    <3> QED BY <3>1, <3>2, <3>4 DEF LinesType
  <2> QED BY <2>1, <2>2, ByteRead
<1>4. LinesType' BY <1>1, <1>2, <1>3 DEF LinesType
<1>5. ThrottleInv' /\ SteerInv' BY ThrottleRead, SteerRead
<1>6. GlueInv'
  <2> SUFFICES ASSUME ~lost' PROVE CutsOnlyShorten' /\ GluedBytes' BY DEF GlueInv
  <2>1. ~lost /\ CutsOnlyShorten /\ GluedBytes BY <1>1 DEF GlueInv
  <2>2. CutsOnlyShorten' BY <2>1, ShortenedRead
  <2>3. CASE serialBuffer' = <<>> BY <2>1, <2>2, <2>3, GlueDropped
  <2>4. CASE serialBuffer' \o rx' = serialBuffer \o rx
    <3>1. Pending' = Pending BY <2>4 DEF Pending
    <3> QED BY <1>1, <2>1, <2>2, <3>1 DEF GluedBytes
  <2> QED BY <2>3, <2>4, ByteRead
<1>7. BootInv' /\ HaltInv' /\ MeantInv' BY <1>1 DEF BootInv, HaltInv, MeantInv
<1> QED BY <1>4, <1>5, <1>6, <1>7

\* A step that leaves the lines alone.
LEMMA QuietStep ==
  ASSUME LinesInv, port' \in BOOLEAN, UNCHANGED halted, halted => ~port',
         booting' = booting \/ booting' = FALSE,
         UNCHANGED <<rx, serialBuffer, throttle_cmd, steer_auto_deg, history>>
  PROVE  LinesInv'
<1> USE DEF LinesInv
<1>1. UNCHANGED <<sent, meant, inStep, lost, rx, serialBuffer, throttle_cmd, steer_auto_deg, halted>>
  BY DEF history
<1>2. LinesType' BY <1>1 DEF LinesType
<1>3. ThrottleInv' BY <1>1 DEF ThrottleInv, Pending, Due
<1>4. SteerInv'
  <2>1. ASSUME NEW q, OnlyThrottle(q) PROVE OnlyThrottle(q)' BY <1>1, <2>1 DEF OnlyThrottle
  <2> QED BY <1>1, <2>1 DEF SteerInv, Pending, Due
<1>5. GlueInv' BY <1>1 DEF GlueInv, GluedBytes, CutsOnlyShorten, Pending
<1>6. BootInv' BY <1>1 DEF BootInv, LinesType
<1>7. HaltInv' /\ MeantInv' BY <1>1 DEF HaltInv, MeantInv
<1> QED BY <1>2, <1>3, <1>4, <1>5, <1>6, <1>7

LEMMA LinesStep == LinesInv /\ [LinesNext]_linesVars => LinesInv'
<1> SUFFICES ASSUME LinesInv, [LinesNext]_linesVars PROVE LinesInv' OBVIOUS
<1>0. LinesType /\ HaltInv BY DEF LinesInv
<1>1. ASSUME NEW c \in Commands, SendCommand(c) PROVE LinesInv' BY <1>1, SendStep
<1>2. ASSUME NEW c \in Commands, SendFails(c) PROVE LinesInv' BY <1>2, FailStep
<1>3. CASE DestroyNode BY <1>3, DestroyStep
<1>4. CASE Reconnect
  <2>1. ~halted /\ port' = TRUE /\ UNCHANGED halted BY <1>4 DEF Reconnect
  <2>2. CASE BoardReset
    <3>1. port' \in BOOLEAN /\ halted' \in BOOLEAN /\ HaltInv' BY <1>0, <2>1 DEF LinesType, HaltInv
    <3> QED BY <1>0, <2>2, <3>1, ResetLines DEF LinesInv
  <2>3. CASE UNCHANGED <<boardVars, history>>
    <3>1. UNCHANGED <<rx, serialBuffer, throttle_cmd, steer_auto_deg, history>> /\ booting' = booting
      BY <2>3 DEF boardVars
    <3> QED BY <2>1, <3>1, QuietStep
  <2> QED BY <1>4, <2>2, <2>3 DEF Reconnect
<1>5. CASE PowerCycle
  <2>1. BoardReset /\ UNCHANGED <<port, halted>> BY <1>5 DEF PowerCycle, hostVars
  <2>2. port' \in BOOLEAN /\ halted' \in BOOLEAN /\ HaltInv' BY <1>0, <2>1 DEF LinesType, HaltInv
  <2> QED BY <1>0, <2>1, <2>2, ResetLines DEF LinesInv
<1>6. CASE SetupDone
  <2>1. /\ booting' = FALSE /\ UNCHANGED <<port, halted>>
        /\ UNCHANGED <<rx, serialBuffer, throttle_cmd, steer_auto_deg, history>>
    BY <1>6 DEF SetupDone, hostVars
  <2>2. port' \in BOOLEAN /\ (halted => ~port') BY <1>0, <2>1 DEF LinesType, HaltInv
  <2> QED BY <2>1, <2>2, QuietStep
<1>7. CASE ParseSerial BY <1>7, ParseStep
<1>8. CASE UNCHANGED linesVars
  <2>1. /\ UNCHANGED <<port, halted, booting>>
        /\ UNCHANGED <<rx, serialBuffer, throttle_cmd, steer_auto_deg, history>>
    BY <1>8 DEF linesVars, hostVars, boardVars
  <2>2. port' \in BOOLEAN /\ (halted => ~port') BY <1>0, <2>1 DEF LinesType, HaltInv
  <2> QED BY <2>1, <2>2, QuietStep
<1> QED BY <1>1, <1>2, <1>3, <1>4, <1>5, <1>6, <1>7, <1>8 DEF LinesNext

\* For any commands, limits and buffers: a line is pending only as the writes left it.
LEMMA LinesInvariant == LinesSpec => []LinesInv
BY LinesInitially, LinesStep, PTL DEF LinesSpec

\* Whatever was cut before, one whole pair restores the throttle on the board and two
\* the steering: what _send_last_cmd() and parseSerial() make of each other's bytes.
THEOREM NextPairHeals == LinesSpec => []HealsWithTheNextPair
<1>1. LinesInv => HealsWithTheNextPair BY AllRead DEF LinesInv, HealsWithTheNextPair
<1> QED BY <1>1, LinesInvariant, PTL

\* A write that breaks off never makes the board obey a number that was not sent.
THEOREM CutsNeverInvent == LinesSpec => []CutsOnlyShorten
<1>1. LinesInv => CutsOnlyShorten
  <2>1. CASE lost BY <2>1 DEF CutsOnlyShorten
  <2>2. CASE ~lost BY <2>2 DEF LinesInv, GlueInv
  <2> QED BY <2>1, <2>2
<1> QED BY <1>1, LinesInvariant, PTL
=============================================================================
