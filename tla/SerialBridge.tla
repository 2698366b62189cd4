------------------------------ MODULE SerialBridge ------------------------------
(***************************************************************************)
(* The ROS node serial_bridge (bridge_pkg/serial_bridge.py).               *)
(*                                                                         *)
(* One serial port, four threads: the executor (on_cmd_vel, and after the  *)
(* spin destroy_node), the transmitter _tx_loop, the reader _reader_loop   *)
(* and _reconnect_loop.  _ser_lock protects self.ser only; the last        *)
(* command (last_auto_steer_deg, last_auto_throttle, last_cmd_t) is shared *)
(* by the executor and the transmitter with no lock, one attribute at a    *)
(* time, so every read and every write of it is a step of its own.         *)
(*                                                                         *)
(* Time is discrete.  A duration is a number of ticks, a timestamp is kept *)
(* as its age, and an age saturates just above the largest bound it is     *)
(* compared with.  A thread that can run does so before the next tick;     *)
(* sleeps last exactly their time and blocking calls at most their timeout.*)
(* The one blocking call without a timeout is the flush of destroy_node.   *)
(***************************************************************************)
EXTENDS Integers, FiniteSets

CONSTANTS
  Twists,          \* /cmd_vel messages, records [v, w] in small integer units
  Wheelbase, VMax, MinSpeed, MaxSteer, SteerSign,
  Handles,         \* serial.Serial objects; an id is reused once nobody holds it
  NoPort,          \* self.ser is None
  CmdTimeout,      \* cmd_timeout
  TxPeriod,        \* 1 / tx_rate_hz
  WriteTimeout,    \* write_timeout of the port
  ReadTimeout,     \* timeout of the port
  ReaderIdle,      \* the reader's sleep while there is no port
  ReaderBackoff,   \* the reader's sleep after a failed read
  OpenSettle,      \* sleep between opening the port and publishing it in self.ser
  OpenRetry,       \* sleep after a failed open
  ReconnectPoll,   \* sleep of every round of _reconnect_loop
  StartupSilence,  \* startup_silence_sec
  JoinTimeout,     \* timeout of the joins in destroy_node
  ClockStep,       \* size of a backward step of time.time()
  MaxClockSteps    \* bound on the number of such steps in a behaviour

ASSUME BridgeAssumption ==
  /\ Twists \subseteq [v : Int, w : Int]
  /\ Wheelbase \in Nat /\ VMax \in Nat \ {0} /\ MinSpeed \in Nat \ {0}
  /\ MaxSteer \in Nat /\ SteerSign \in {-1, 1}
  /\ NoPort \notin Handles
  /\ \A d \in {CmdTimeout, TxPeriod, WriteTimeout, ReadTimeout, ReaderIdle,
               ReaderBackoff, OpenSettle, OpenRetry, ReconnectPoll,
               StartupSilence, JoinTimeout, ClockStep, MaxClockSteps} : d \in Nat

\* The relations between the durations that the safety of the node rests on:
\* 0.05 s < 0.3 s, and 0.2 s + 1/30 s < 0.5 s.
ASSUME DurationAssumption ==
  /\ ReadTimeout < OpenSettle
  /\ WriteTimeout + TxPeriod < JoinTimeout

VARIABLES
  ser,           \* self.ser
  lock,          \* holder of _ser_lock
  live,          \* handles that are open and whose device is still there
  plugged,       \* the board is on the bus
  stop,          \* self._stop
  lastSteer, lastThrottle, \* last_auto_steer_deg, last_auto_throttle
  cmdClock,      \* time.time() - last_cmd_t
  upClock,       \* time.time() - _start_time
  clockSteps,    \* backward steps of time.time() still to come
  exPc, exTimer, exThrottle,          \* the executor; then destroy_node
  txPc, txTimer, txSteer, txThrottle, \* _tx_loop
  rxPc, rxTimer, rxSer,               \* _reader_loop
  recPc, recTimer, recSer,            \* _reconnect_loop
  wire,          \* the last SA/TH command written, and to which handle
  finalWrite,    \* what became of the last write of destroy_node
  steerAge, throttleAge,  \* history: age of the messages behind the last command
  txAge,         \* history: age of the older one behind txSteer, txThrottle
  wireAge        \* history: age of the older message behind wire

portVars == <<ser, lock, live, plugged>>
cmdVars  == <<lastSteer, lastThrottle, cmdClock, steerAge, throttleAge>>
exVars   == <<exPc, exTimer, exThrottle, stop, finalWrite>>
txVars   == <<txPc, txTimer, txSteer, txThrottle, txAge>>
rxVars   == <<rxPc, rxTimer, rxSer>>
recVars  == <<recPc, recTimer, recSer>>
wireVars == <<wire, wireAge>>
timeVars == <<upClock, clockSteps>>
vars == <<portVars, cmdVars, exVars, txVars, rxVars, recVars, wireVars, timeVars>>
-----------------------------------------------------------------------------
Larger(a, b)  == IF a > b THEN a ELSE b
Smaller(a, b) == IF a < b THEN a ELSE b
Clamp(x, limit) == Larger(-limit, Smaller(limit, x))

\* Steering of on_cmd_vel.  The angle is kept as its tangent L * w / v: atan is
\* increasing and odd, so clamping the tangent is clamping the angle.
Tangent(t) ==
  LET size == Larger(MinSpeed, Larger(t.v, -t.v))
      turn == SteerSign * (IF t.v < 0 THEN -t.w ELSE t.w)
  IN  (Wheelbase * turn) \div size

\* Mutant: the clamp to max_steer_deg is forgotten.
UnclampedSteer(t) == Tangent(t)

AutoSteer(t) == Clamp(Tangent(t), MaxSteer)

\* TH = v / v_max, clamped to [-1, 1] and rounded to 0.001 as "%.3f" does.
AutoThrottle(t) == Clamp((2000 * t.v + VMax) \div (2 * VMax), 1000)

\* A nonzero command may reach the wire this long after its message, ...
FreshBound == CmdTimeout + WriteTimeout
\* ... and the wire holds it at most this long: the next round of _tx_loop,
\* and the write in it, replace it.
StopBound == FreshBound + TxPeriod + WriteTimeout

AgeCap   == StopBound + 1
ClockCap == CmdTimeout + 1 + MaxClockSteps * ClockStep
NoCommand == [h |-> NoPort, steer |-> 0, throttle |-> 0]

IsStop(c) == c.steer = 0 /\ c.throttle = 0
Older(age) == Smaller(AgeCap, age + 1)
Left(timer) == Larger(0, timer - 1)

Init ==
  /\ ser = NoPort /\ lock = "free" /\ live = {} /\ plugged \in BOOLEAN
  /\ stop = FALSE
  /\ lastSteer = 0 /\ lastThrottle = 0
  /\ cmdClock = ClockCap            \* last_cmd_t = 0.0, the epoch
  /\ upClock = 0 /\ clockSteps = MaxClockSteps
  /\ exPc = "spin" /\ exTimer = 0 /\ exThrottle = 0
  /\ txPc = "check" /\ txTimer = 0 /\ txSteer = 0 /\ txThrottle = 0
  /\ rxPc = "copy" /\ rxTimer = 0 /\ rxSer = NoPort
  /\ recPc = "poll" /\ recTimer = 0 /\ recSer = NoPort
  /\ wire = NoCommand /\ finalWrite = "none"
  /\ steerAge = AgeCap /\ throttleAge = AgeCap /\ txAge = 0 /\ wireAge = 0
-----------------------------------------------------------------------------
(* Executor: on_cmd_vel, one step per shared attribute it assigns.         *)

\* Mutant: the message is stamped before its throttle is stored.
StampFirst(t) ==
  /\ exPc = "spin"
  /\ lastSteer' = AutoSteer(t) /\ steerAge' = 0 /\ cmdClock' = 0
  /\ exThrottle' = AutoThrottle(t)
  /\ exPc' = "throttle"
  /\ UNCHANGED <<portVars, lastThrottle, throttleAge, exTimer, stop,
                 finalWrite, txVars, rxVars, recVars, wireVars, timeVars>>

OnCmdVelSteer(t) ==
  /\ exPc = "spin"
  /\ lastSteer' = AutoSteer(t) /\ steerAge' = 0
  /\ exThrottle' = AutoThrottle(t)
  /\ exPc' = "throttle"
  /\ UNCHANGED <<portVars, lastThrottle, cmdClock, throttleAge, exTimer, stop,
                 finalWrite, txVars, rxVars, recVars, wireVars, timeVars>>

OnCmdVelThrottle ==
  /\ exPc = "throttle"
  /\ lastThrottle' = exThrottle /\ throttleAge' = 0
  /\ exThrottle' = 0
  /\ exPc' = "stamp"
  /\ UNCHANGED <<portVars, lastSteer, cmdClock, steerAge, exTimer, stop,
                 finalWrite, txVars, rxVars, recVars, wireVars, timeVars>>

OnCmdVelStamp ==
  /\ exPc = "stamp"
  /\ cmdClock' = 0
  /\ exPc' = "spin"
  /\ UNCHANGED <<portVars, lastSteer, lastThrottle, steerAge, throttleAge,
                 exTimer, exThrottle, stop, finalWrite, txVars, rxVars,
                 recVars, wireVars, timeVars>>
-----------------------------------------------------------------------------
(* Transmitter: _tx_loop, _send_last_cmd and _write_line.                  *)

\* Mutant: the port is closed but stays in self.ser.
CloseOnly == live' = live \ {ser} /\ UNCHANGED ser

\* _drop_serial: self.ser is closed and forgotten, whichever port it holds.
DropSerial == live' = live \ {ser} /\ ser' = NoPort

TxSleep ==
  /\ txPc' = "check" /\ txTimer' = TxPeriod
  /\ txSteer' = 0 /\ txThrottle' = 0 /\ txAge' = 0

\* Mutant: the age of the last command is not checked.
NeverTimedOut == FALSE

CommandTimedOut == cmdClock > CmdTimeout

\* Mutant: an old command is not sent again, and no stop in its place.
SilentWhenTimedOut ==
  /\ txPc = "check" /\ txTimer = 0
  /\ \/ stop /\ txPc' = "done" /\ UNCHANGED <<txTimer, txSteer, txThrottle, txAge>>
     \/ ~stop /\ CommandTimedOut /\ TxSleep
     \/ /\ ~stop /\ ~CommandTimedOut /\ txPc' = "readSteer"
        /\ UNCHANGED <<txTimer, txSteer, txThrottle, txAge>>
  /\ UNCHANGED <<portVars, cmdVars, exVars, rxVars, recVars, wireVars, timeVars>>

\* The loop condition and the age of the last command; a stop when it is old.
TxLoop ==
  /\ txPc = "check" /\ txTimer = 0
  /\ \/ stop /\ txPc' = "done"
     \/ ~stop /\ CommandTimedOut /\ txPc' = "silence"
     \/ ~stop /\ ~CommandTimedOut /\ txPc' = "readSteer"
  /\ UNCHANGED <<portVars, cmdVars, exVars, txTimer, txSteer, txThrottle, txAge,
                 rxVars, recVars, wireVars, timeVars>>

SendReadSteer ==
  /\ txPc = "readSteer"
  /\ txSteer' = lastSteer /\ txAge' = steerAge
  /\ txPc' = "readThrottle"
  /\ UNCHANGED <<portVars, cmdVars, exVars, txTimer, txThrottle,
                 rxVars, recVars, wireVars, timeVars>>

SendReadThrottle ==
  /\ txPc = "readThrottle"
  /\ txThrottle' = lastThrottle /\ txAge' = Larger(txAge, throttleAge)
  /\ txPc' = "silence"
  /\ UNCHANGED <<portVars, cmdVars, exVars, txTimer, txSteer,
                 rxVars, recVars, wireVars, timeVars>>

InStartupSilence == upClock < StartupSilence

WriteLineSilence ==
  /\ txPc = "silence"
  /\ IF InStartupSilence
       THEN TxSleep
       ELSE txPc' = "acquire" /\ UNCHANGED <<txTimer, txSteer, txThrottle, txAge>>
  /\ UNCHANGED <<portVars, cmdVars, exVars, rxVars, recVars, wireVars, timeVars>>

WriteLineAcquire ==
  /\ txPc = "acquire" /\ lock = "free"
  /\ IF ser = NoPort
       THEN TxSleep /\ UNCHANGED lock
       ELSE /\ lock' = "tx"
            /\ txPc' = "write" /\ txTimer' = WriteTimeout
            /\ UNCHANGED <<txSteer, txThrottle, txAge>>
  /\ UNCHANGED <<ser, live, plugged, cmdVars, exVars, rxVars, recVars,
                 wireVars, timeVars>>

Transmit ==
  /\ wire' = [h |-> ser, steer |-> txSteer, throttle |-> txThrottle]
  /\ wireAge' = IF IsStop(wire') THEN 0 ELSE txAge

WriteLineDone ==
  /\ txPc = "write" /\ ser \in live
  /\ Transmit
  /\ lock' = "free" /\ TxSleep
  /\ UNCHANGED <<ser, live, plugged, cmdVars, exVars, rxVars, recVars, timeVars>>

\* Mutant: _drop_serial() is called without locked=True and waits for its own lock.
FailHoldingLock ==
  /\ txPc = "write" /\ (ser \notin live \/ txTimer = 0)
  /\ txPc' = "acquire" /\ txTimer' = 0
  /\ UNCHANGED <<portVars, cmdVars, exVars, txSteer, txThrottle, txAge, rxVars,
                 recVars, wireVars, timeVars>>

\* The write raises: the device is gone, or write_timeout is over (the bytes may
\* have left all the same).  _drop_serial(locked=True).
WriteLineFail ==
  /\ txPc = "write" /\ (ser \notin live \/ txTimer = 0)
  /\ \/ UNCHANGED wireVars
     \/ ser \in live /\ Transmit
  /\ DropSerial
  /\ lock' = "free" /\ TxSleep
  /\ UNCHANGED <<plugged, cmdVars, exVars, rxVars, recVars, timeVars>>
-----------------------------------------------------------------------------
(* Reader: _reader_loop.  What a line means is left to the encoder modules.*)

ReaderCopy ==
  /\ rxPc = "copy" /\ rxTimer = 0 /\ (stop \/ lock = "free")
  /\ \/ stop /\ rxPc' = "done" /\ UNCHANGED <<rxTimer, rxSer>>
     \/ /\ ~stop /\ ser = NoPort
        /\ rxTimer' = ReaderIdle /\ UNCHANGED <<rxPc, rxSer>>
     \/ /\ ~stop /\ ser # NoPort
        /\ rxPc' = "read" /\ rxSer' = ser /\ rxTimer' = ReadTimeout
  /\ UNCHANGED <<portVars, cmdVars, exVars, txVars, recVars, wireVars, timeVars>>

\* read(256) returns data, or nothing when its timeout is over.
ReaderReturn ==
  /\ rxPc = "read" /\ rxSer \in live
  /\ rxPc' = "copy" /\ rxSer' = NoPort /\ rxTimer' = 0
  /\ UNCHANGED <<portVars, cmdVars, exVars, txVars, recVars, wireVars, timeVars>>

\* read raises: the device is gone, or another thread closed the handle; or the
\* handling of a line raises while the port works (a number that does not fit, a
\* publisher whose context is shut down), and the same handler drops the port.
ReaderFail ==
  /\ rxPc = "read"
  /\ rxPc' = "drop" /\ rxTimer' = 0
  /\ UNCHANGED <<portVars, cmdVars, exVars, txVars, rxSer, recVars, wireVars,
                 timeVars>>

\* _drop_serial(): closes whatever self.ser holds by now.
ReaderDrop ==
  /\ rxPc = "drop" /\ lock = "free"
  /\ DropSerial
  /\ rxPc' = "copy" /\ rxTimer' = ReaderBackoff /\ rxSer' = NoPort
  /\ UNCHANGED <<lock, plugged, cmdVars, exVars, txVars, recVars, wireVars,
                 timeVars>>
-----------------------------------------------------------------------------
(* _reconnect_loop.  self.ser is tested without the lock.                  *)

\* Mutant: no sleep between opening the port and publishing it.
PublishAtOnce == recPc' = "settle" /\ recTimer' = 0

SettleAfterOpen == recPc' = "settle" /\ recTimer' = OpenSettle

ReconnectLoop ==
  /\ recPc = "poll" /\ recTimer = 0
  /\ \/ stop /\ recPc' = "done" /\ UNCHANGED <<recTimer, recSer, live>>
     \/ /\ ~stop /\ ser # NoPort
        /\ recTimer' = ReconnectPoll /\ UNCHANGED <<recPc, recSer, live>>
     \/ /\ ~stop /\ ser = NoPort /\ ~plugged
        /\ recTimer' = OpenRetry + ReconnectPoll /\ UNCHANGED <<recPc, recSer, live>>
     \/ /\ ~stop /\ ser = NoPort /\ plugged
        /\ \E h \in Handles \ {rxSer, wire.h} :
             recSer' = h /\ live' = live \cup {h}
        /\ SettleAfterOpen
  /\ UNCHANGED <<ser, lock, plugged, cmdVars, exVars, txVars, rxVars, wireVars,
                 timeVars>>

ReconnectSet ==
  /\ recPc = "settle" /\ recTimer = 0 /\ lock = "free"
  /\ ser' = recSer
  /\ recPc' = "poll" /\ recTimer' = ReconnectPoll /\ recSer' = NoPort
  /\ UNCHANGED <<lock, live, plugged, cmdVars, exVars, txVars, rxVars, wireVars,
                 timeVars>>
-----------------------------------------------------------------------------
(* Shutdown: the interrupt may hit spin or a callback; then destroy_node.  *)

Interrupt ==
  /\ exPc \in {"spin", "throttle", "stamp"}
  /\ stop' = TRUE
  /\ exPc' = "joinTx" /\ exTimer' = JoinTimeout /\ exThrottle' = 0
  /\ UNCHANGED <<portVars, cmdVars, finalWrite, txVars, rxVars, recVars,
                 wireVars, timeVars>>

\* Mutant: destroy_node does not wait for the transmitter.
NoJoinTx ==
  /\ exPc = "joinTx"
  /\ exPc' = "stopAcquire" /\ exTimer' = 0
  /\ UNCHANGED <<portVars, cmdVars, exThrottle, stop, finalWrite, txVars, rxVars,
                 recVars, wireVars, timeVars>>

DestroyJoinTx ==
  /\ exPc = "joinTx" /\ (txPc = "done" \/ exTimer = 0)
  /\ exPc' = "stopAcquire" /\ exTimer' = 0
  /\ UNCHANGED <<portVars, cmdVars, exThrottle, stop, finalWrite, txVars, rxVars,
                 recVars, wireVars, timeVars>>

DestroyStopAcquire ==
  /\ exPc = "stopAcquire" /\ lock = "free"
  /\ IF ser = NoPort
       THEN exPc' = "joinRecon" /\ exTimer' = JoinTimeout /\ UNCHANGED lock
       ELSE lock' = "main" /\ exPc' = "stopWrite" /\ exTimer' = WriteTimeout
  /\ UNCHANGED <<ser, live, plugged, cmdVars, exThrottle, stop, finalWrite,
                 txVars, rxVars, recVars, wireVars, timeVars>>

\* write() of the stop.  Only TH is written: the board keeps the steering of the
\* last command.
DestroyStopDone ==
  /\ exPc = "stopWrite" /\ ser \in live
  /\ wire' = [h |-> ser, steer |-> IF wire.h = ser THEN wire.steer ELSE 0,
              throttle |-> 0]
  /\ wireAge' = IF IsStop(wire') THEN 0 ELSE wireAge
  /\ finalWrite' = "done"
  /\ exPc' = "flush" /\ exTimer' = 0
  /\ UNCHANGED <<portVars, cmdVars, exThrottle, stop, txVars, rxVars, recVars,
                 timeVars>>

\* The write raises and the exception is swallowed.
DestroyStopFail ==
  /\ exPc = "stopWrite" /\ (ser \notin live \/ exTimer = 0)
  /\ finalWrite' = "failed"
  /\ lock' = "free" /\ exPc' = "joinRecon" /\ exTimer' = JoinTimeout
  /\ UNCHANGED <<ser, live, plugged, cmdVars, exThrottle, stop, txVars, rxVars,
                 recVars, wireVars, timeVars>>

\* flush(), under the lock, returns when the device has taken every byte: no
\* timeout ends it on a port that is there and takes nothing.
DestroyFlushDone ==
  /\ exPc = "flush" /\ ser \in live
  /\ lock' = "free" /\ exPc' = "joinRecon" /\ exTimer' = JoinTimeout
  /\ UNCHANGED <<ser, live, plugged, cmdVars, exThrottle, stop, finalWrite,
                 txVars, rxVars, recVars, wireVars, timeVars>>

\* flush() raises when the device goes away; the exception is swallowed.
DestroyFlushFail ==
  /\ exPc = "flush" /\ ser \notin live
  /\ finalWrite' = "failed"
  /\ lock' = "free" /\ exPc' = "joinRecon" /\ exTimer' = JoinTimeout
  /\ UNCHANGED <<ser, live, plugged, cmdVars, exThrottle, stop, txVars, rxVars,
                 recVars, wireVars, timeVars>>

DestroyJoinRecon ==
  /\ exPc = "joinRecon" /\ (recPc = "done" \/ exTimer = 0)
  /\ exPc' = "joinRx" /\ exTimer' = JoinTimeout
  /\ UNCHANGED <<portVars, cmdVars, exThrottle, stop, finalWrite, txVars, rxVars,
                 recVars, wireVars, timeVars>>

DestroyJoinRx ==
  /\ exPc = "joinRx" /\ (rxPc = "done" \/ exTimer = 0)
  /\ exPc' = "drop" /\ exTimer' = 0
  /\ UNCHANGED <<portVars, cmdVars, exThrottle, stop, finalWrite, txVars, rxVars,
                 recVars, wireVars, timeVars>>

\* _drop_serial(); the process ends and its daemon threads with it.
DestroyDrop ==
  /\ exPc = "drop" /\ lock = "free"
  /\ live' = {} /\ ser' = NoPort
  /\ exPc' = "exit"
  /\ txPc' = "done" /\ txTimer' = 0
  /\ rxPc' = "done" /\ rxTimer' = 0 /\ rxSer' = NoPort
  /\ recPc' = "done" /\ recTimer' = 0 /\ recSer' = NoPort
  /\ UNCHANGED <<lock, plugged, cmdVars, exTimer, exThrottle, stop, finalWrite,
                 txSteer, txThrottle, txAge, wireVars, timeVars>>
-----------------------------------------------------------------------------
(* Environment: the USB cable, the system clock, the passing of time.      *)

Plug ==
  /\ ~plugged /\ plugged' = TRUE
  /\ UNCHANGED <<ser, lock, live, cmdVars, exVars, txVars, rxVars, recVars,
                 wireVars, timeVars>>

Unplug ==
  /\ plugged /\ plugged' = FALSE
  /\ live' = {}
  /\ UNCHANGED <<ser, lock, cmdVars, exVars, txVars, rxVars, recVars, wireVars,
                 timeVars>>

\* time.time() is the wall clock: a correction may step it back.
ClockStepBack ==
  /\ clockSteps > 0 /\ clockSteps' = clockSteps - 1
  /\ cmdClock' = cmdClock - ClockStep /\ upClock' = upClock - ClockStep
  /\ UNCHANGED <<portVars, lastSteer, lastThrottle, steerAge, throttleAge, exVars,
                 txVars, rxVars, recVars, wireVars>>

ExecutorDue ==
  \/ exPc \in {"throttle", "stamp"}
  \/ exPc \in {"stopAcquire", "drop"} /\ lock = "free"
  \/ exPc = "flush" /\ ser \notin live
  \/ exPc \in {"joinTx", "joinRecon", "joinRx", "stopWrite"} /\ exTimer = 0
  \/ exPc = "joinTx" /\ txPc = "done"
  \/ exPc = "joinRecon" /\ recPc = "done"
  \/ exPc = "joinRx" /\ rxPc = "done"

TransmitterDue ==
  \/ txPc \in {"readSteer", "readThrottle", "silence"}
  \/ txPc = "acquire" /\ lock = "free"
  \/ txPc \in {"check", "write"} /\ txTimer = 0

ReaderDue ==
  \/ rxPc = "copy" /\ rxTimer = 0 /\ (stop \/ lock = "free")
  \/ rxPc = "drop" /\ lock = "free"
  \/ rxPc = "read" /\ rxTimer = 0

ReconnectDue ==
  \/ recPc = "poll" /\ recTimer = 0
  \/ recPc = "settle" /\ recTimer = 0 /\ lock = "free"

Tick ==
  /\ ~ExecutorDue /\ ~TransmitterDue /\ ~ReaderDue /\ ~ReconnectDue
  /\ cmdClock' = Smaller(ClockCap, cmdClock + 1)
  /\ upClock' = Smaller(StartupSilence, upClock + 1)
  /\ steerAge' = Older(steerAge) /\ throttleAge' = Older(throttleAge)
  /\ txAge' = IF txPc \in {"acquire", "write"} THEN Older(txAge) ELSE txAge
  /\ wireAge' = IF IsStop(wire) THEN 0 ELSE Older(wireAge)
  /\ exTimer' = Left(exTimer) /\ txTimer' = Left(txTimer)
  /\ rxTimer' = Left(rxTimer) /\ recTimer' = Left(recTimer)
  /\ UNCHANGED <<portVars, lastSteer, lastThrottle, exPc, exThrottle, stop,
                 finalWrite, txPc, txSteer, txThrottle, rxPc, rxSer, recPc,
                 recSer, wire, clockSteps>>
-----------------------------------------------------------------------------
Executor == (\E t \in Twists : OnCmdVelSteer(t)) \/ OnCmdVelThrottle \/ OnCmdVelStamp

Transmitter ==
  \/ TxLoop \/ SendReadSteer \/ SendReadThrottle
  \/ WriteLineSilence \/ WriteLineAcquire \/ WriteLineDone \/ WriteLineFail

Reader == ReaderCopy \/ ReaderReturn \/ ReaderFail \/ ReaderDrop

Reconnector == ReconnectLoop \/ ReconnectSet

\* What destroy_node does by itself; that a flush returns is up to the device.
DestroySteps ==
  \/ DestroyJoinTx \/ DestroyStopAcquire \/ DestroyStopDone \/ DestroyStopFail
  \/ DestroyFlushFail \/ DestroyJoinRecon \/ DestroyJoinRx \/ DestroyDrop

Destroy == DestroySteps \/ DestroyFlushDone

Environment == Interrupt \/ Plug \/ Unplug

Next == Executor \/ Transmitter \/ Reader \/ Reconnector \/ Destroy \/ Environment \/ Tick

Spec == Init /\ [][Next]_vars

\* The node under a wall clock that is set back now and then.
SteppedNext == Next \/ ClockStepBack

SteppedSpec == Init /\ [][SteppedNext]_vars

\* Every thread keeps running, and time passes however many messages and bytes
\* come in (strong fairness: only finitely many fit between two ticks); the
\* cable, the clock, the operator, the planner and a flush on a port that is
\* there owe nothing.
FairSpec ==
  /\ Spec
  /\ WF_vars(OnCmdVelThrottle \/ OnCmdVelStamp) /\ WF_vars(Transmitter)
  /\ WF_vars(Reader) /\ WF_vars(Reconnector) /\ WF_vars(DestroySteps)
  /\ SF_vars(Tick)
-----------------------------------------------------------------------------
Ages == 0..AgeCap
Steers == -MaxSteer..MaxSteer
Throttles == -1000..1000

PortType ==
  /\ ser \in Handles \cup {NoPort} /\ lock \in {"free", "tx", "main"}
  /\ live \subseteq Handles /\ plugged \in BOOLEAN

CommandType ==
  /\ lastSteer \in Steers /\ lastThrottle \in Throttles
  /\ cmdClock \in Int /\ cmdClock <= ClockCap
  /\ steerAge \in Ages /\ throttleAge \in Ages

ExecutorType ==
  /\ exPc \in {"spin", "throttle", "stamp", "joinTx", "stopAcquire", "stopWrite",
               "flush", "joinRecon", "joinRx", "drop", "exit"}
  /\ exTimer \in Nat /\ exThrottle \in Throttles
  /\ stop \in BOOLEAN /\ finalWrite \in {"none", "done", "failed"}

TransmitterType ==
  /\ txPc \in {"check", "readSteer", "readThrottle", "silence", "acquire",
               "write", "done"}
  /\ txTimer \in Nat /\ txSteer \in Steers /\ txThrottle \in Throttles
  /\ txAge \in Ages

ReaderType ==
  /\ rxPc \in {"copy", "read", "drop", "done"}
  /\ rxTimer \in Nat /\ rxSer \in Handles \cup {NoPort}

ReconnectType ==
  /\ recPc \in {"poll", "settle", "done"}
  /\ recTimer \in Nat /\ recSer \in Handles \cup {NoPort}

WireType ==
  /\ wire \in [h : Handles \cup {NoPort}, steer : Steers, throttle : Throttles]
  /\ wireAge \in Ages

TimeType ==
  upClock \in Int /\ upClock <= StartupSilence /\ clockSteps \in 0..MaxClockSteps

\* Every variable holds a value of its kind.  Steering and throttle stay within
\* max_steer_deg and full throttle in every thread and on the wire.
TypeOK ==
  /\ PortType /\ CommandType /\ ExecutorType /\ TransmitterType
  /\ ReaderType /\ ReconnectType /\ WireType /\ TimeType

\* A command that is not a stop leaves the host only while the messages behind
\* both its halves are fresh, however the two threads interleave: last_cmd_t is
\* assigned last in on_cmd_vel and read first in _send_last_cmd.
FreshWhenWritten ==
  [][wire' # wire /\ txPc = "write" /\ ~IsStop(wire') => wireAge' <= FreshBound]_vars

\* cmd_timeout works end to end in the node: while the port it wrote to is in
\* use, a command that is not a stop is replaced within StopBound of the
\* messages it was made from.
StopDeadline ==
  ser \in live /\ wire.h = ser /\ ~IsStop(wire) /\ ~stop => wireAge <= StopBound

\* destroy_node: once its stop is written nothing drives the motor again.
StopIsLastWrite == finalWrite = "done" => wire.throttle = 0

\* The reader closes whatever self.ser holds after its own handle failed; that
\* is never a port that _reconnect_loop has opened in the meantime.
ReaderDropsItsOwn == rxPc = "drop" => ser \in {rxSer, NoPort}

\* The node keeps the promise of DeadMan: cmd_timeout, the periodic resend and the
\* shutdown order together bound how long a throttle stays on a working link.
LinkUp == ser \in live /\ finalWrite # "failed"
Driving == LinkUp /\ wire.h = ser /\ wire.throttle # 0

DM == INSTANCE DeadMan WITH
        Fresh <- FreshBound, Bound <- StopBound,
        link <- LinkUp, drive <- Driving, age <- IF Driving THEN wireAge ELSE 0

ImplementsDeadMan == DM!Spec

\* self.ser recovers: while the board stays plugged in and the node runs, it is
\* connected again and again, whatever the writes do.
Reconnects == <>[](plugged /\ ~stop) => []<>(ser \in live)

\* destroy_node gets to its end, whatever the other threads and the cable do,
\* unless its flush waits for ever on a port that is there and takes nothing:
\* the joins and the write have timeouts, the flush has none.
FlushWaits == exPc = "flush" /\ ser \in live
ShutdownEnds == (stop ~> exPc = "exit") \/ <>[]FlushWaits
=============================================================================
