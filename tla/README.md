# A verification of the car's command, path and heading software

The repository is a small autonomous car on ROS 2: a path client, a Navigation2
controller under a lifecycle manager, a serial bridge, an Arduino that drives the
motors, wheel odometry, and two GNSS antennas for the heading, with corrections
from an NTRIP caster.  This directory holds TLA+ models of the
parts that carry its control logic, TLC configurations that check them on small
instances, and TLAPS proofs for every value of the constants.

Run `tlc -config <X>.cfg <Module>` for a run and `tlapm <Module>.tla` for the
proofs of each of the eight modules whose name ends in `Proofs`; `PROJECT.json` lists the runs, what each definition models (with
source lines), the mutants that show each property can fail, the hazards and the
findings.

## 1. The system

    RViz goal ──► mppi_path_client ──► planner_server
    CSV path ──►        │ FollowPath goals
                        ▼
                controller_server (SimpleActionServer) ── /cmd_vel ──► serial_bridge
                   ▲    ▲                                                │ SA / TH lines
    lifecycle_manager   │                                                │
         /odom/ekf_encoder_imu                                           ▼
                        │                                          mando_ver2 board
     ekf ◄── encoder_odometry ◄── encoder/speed ◄── serial_bridge ◄── ENC lines
      ▲
     imu

    NTRIP caster ──► ntrip_client ──► /rtcm ──► ublox_gps, rear and front ──► NavSatFix
                          ▲                          │ requests, acknowledgements
                          └── NMEA ◄── fix2nmea       ▼
                                                 u-blox receivers

    rear NavSatFix, front NavSatFix ──► dual_gnss_map ──► /global_yaw, /global_yaw/valid

| component | state it keeps | operations | interacts by | hard about it |
|---|---|---|---|---|
| `serial_bridge` (`bridge_pkg`) | the port, the last command and its time, the stop flag | `on_cmd_vel`, `_tx_loop`, `_reader_loop`, `_reconnect_loop`, `destroy_node` | `/cmd_vel`, a serial port, `encoder/*` | four threads and one lock that does not cover the command; unplugging; shutdown; wall clock |
| `mando_ver2` firmware | last commands and their times, pulse widths, pins, encoder guard | `setup`, `loop`, four interrupts | serial line, RC receiver, motors | interrupts between two statements; timeouts; `millis()` wraps; resets; mode switches |
| FollowPath server (`nav2_util`, `nav2_controller`) | current and pending goal, flags, the goal's state | goal, accept, cancel, worker, lifecycle | action protocol, `/cmd_vel` | a lock taken per operation; preemption; deactivation at any point |
| `mppi_path_client` | current handle, pending path, planning request | goal and path callbacks, five answer callbacks | two action servers, topics | answers late and in any order; cancel before send |
| `dual_gnss_map` (`utm_pkg`) | two queues of fixes, last accepted yaw, validity | two fix callbacks, two timers | two NavSatFix streams, `/global_yaw*` | late, lost, unusable fixes; outliers; stamps that jump back |
| encoder stream (firmware and bridge) | counts, guard, stream sample | guard, ENC lines, `_process_encoder` | serial line | resets, glitches, skipped lines |
| `encoder_odometry`, `encoder_imu_odometry`, `ekf_encoder_imu_odometry` | position, speed, watchdog, a child process | callbacks, timers | topics, subprocess | freshness, gaps, restarts |
| lifecycle manager (`nav2_lifecycle_manager`) | state of the system, bonds, two timers | five commands, bond check, respawn poll | services of the managed nodes, heartbeats | a node may die between any two requests; a failed step in a takedown; respawn |
| NTRIP client and its RTCM parser | the socket, four counters, cached bytes | `run`, `recv_rtcm`, `send_nmea`, `reconnect`, `parse` | TCP, `/rtcm`, NMEA | a connection ends in three ways that are noticed differently; packets in pieces |
| u-blox driver (`ublox_gps`) | the last acknowledgement, the buffers, the port | `configure`, `waitForAcknowledge`, `AsyncWorker` | serial port or UDP, topics | two threads and a condition variable without predicate; late or lost answers; unplugging |
| `imu_pkg`, `fix2nmea` | gyro angle; none | one callback each | topics | numeric only |
| the rest of Navigation2, u-blox messages | | | | third-party, numeric or stateless |

What makes each right:

* bridge: an old command is never kept on the wire, the port comes back, shutdown
  ends with a stop and ends;
* firmware: no motor turns without a recent command of the active mode, and a
  reversal pauses;
* the two together: a bound on how long any message can turn a motor, over every
  loss, replug and reset;
* server: every accepted goal gets a result, a cancelled one ends, the robot
  stands when there is nothing to follow;
* client: what was published last is what is followed, nothing sent is forgotten;
* heading: fixes are paired only when they belong together, and validity ends;
* lifecycle manager: what counts as active is watched, a crash is noticed, one that is down
  takes the others down, and their return brings the system back;
* NTRIP client: a broken connection is replaced, every packet that arrives whole is published;
* u-blox driver: the result of a request is that of its own acknowledgement, and nothing hangs.

## 2. Modules

| module | models | composed from |
|---|---|---|
| `SerialBridge` | the node `serial_bridge` and its port | |
| `DeadMan` | what the host promises the board (abstract) | refined by `SerialBridge` |
| `DriveFirmware` | commands, modes, RC throttle and drive pins of the board | |
| `CommandChain` | host, line and board | EXTENDS `DriveFirmware`, INSTANCE `DeadMan` |
| `ActionServer` | `SimpleActionServer` with `computeControl()` | |
| `PathFollowing` | `mppi_path_client` with the server | EXTENDS `ActionServer` |
| `DualGnss` | `dual_gnss_map` | |
| `EncoderStream` | counter, fault guard and ENC lines of the board | |
| `WheelOdometry` | the way of a line to `/odom/encoder` | EXTENDS `EncoderStream` |
| `SerialLines` | the SA and TH lines as bytes, between `serial_bridge` and the board | |
| `LifecycleManager` | `nav2_lifecycle_manager` with the nodes it manages | |
| `RtcmParser` | `RTCMParser` of the NTRIP client, a function | |
| `NtripClient` | `NTRIPRos`, `NTRIPClient`, caster and network | EXTENDS `RtcmParser` |
| `UbloxDriver` | `Gps` and `AsyncWorker` of `ublox_gps`, receiver and cable | |
| `<Module>Proofs` | theorems about `<Module>` | EXTENDS `<Module>`; those about `DriveFirmware` are in `CommandChainProofs`, those about `ActionServer` in `PathFollowingProofs`, those about `SerialLines` in `SerialBridgeProofs` (hence the names `LinesInit`, `LinesNext`, `LinesSpec`) |
| `MC*` | instances for TLC | |

**SerialBridge.** One action per step that another thread can see: the three
assignments of `on_cmd_vel` are three actions (no lock), the two reads of
`_send_last_cmd` are two, `_write_line` is silence test, acquisition, and the write
that ends or fails.  `recPc`, `rxPc`, `txPc`, `exPc` say where each thread is, with a timer
for its sleep or blocking call.  A timestamp is kept as its age.  `wire` is the last
line that reached a handle, with the ages of the messages behind it (history).  The stop of
`destroy_node` is a write, which `write_timeout` ends, and a `flush()` that only the device ends: it
returns, raises when the device goes, or waits for ever with the lock held.  The reader drops the port on any
exception of its loop, so `ReaderFail` may come on a live port too.
Conversions are kept: clamps, the minimum speed, the bicycle formula in fixed
point.  What an ENC line means is left out; the reader keeps its
part in closing the port.  `Spec` has a steady clock; `SteppedSpec` adds the step of a wall clock
that is set back (`ClockStepBack`).

**DriveFirmware.** A pass of `loop()` is `LoopTop` (parse, `t_us`) and `LoopControl`
(copy, mode, drive), because interrupts fall between them.  Unsigned clock
differences are differences of ages modulo `ClockWrap`.  Received lines are records,
and a new one replaces an unparsed one (the later line wins when both are parsed).
Steering is kept as the source of the PID's reference; its arithmetic is not.  `SetupDone` starts
`loop()` after the steering was centred for `BootTime`.

**CommandChain.** `DeadMan` is the host: `bridge_command` shows the bridge implements it.
What comes while `setup()` runs and the buffer is full is lost; opening the port
may or may not reset the board.  A write that breaks off leaves any front of its pair of lines, and `frag` is
what a cut `TH` line leaves in `serialBuffer`: the board keeps it, over an outage of any length, and the next
newline completes it (`CutLineCompleted`).  The board then stamps an old throttle afresh.  The age of such a
line is counted from the write that completes it, because no bound holds of the age of its message: if that
write breaks off too, the old throttle drives for `THROTTLE_TIMEOUT_MS`.

**ActionServer.** Executor, worker and lifecycle interleave at every locked operation.
The controller's numbers are a choice: a cycle moves, fails, or reaches the goal.  A deactivation that has waited
for `server_timeout_` calls `terminate_all()` at any step of the worker, and a null handle that is then
followed ends the process (`worker = "crashed"`).

**PathFollowing.** The client's callbacks and the messages between client and servers:
answers of one service keep their order, different services do not.  The planner is
external: it accepts, rejects, succeeds or fails in any order.  The client starts with or without a
path of a CSV file, which counts as published first.

**DualGnss.** Callbacks run to their end (one thread), with the loop of
`process_pending()` one turn per action.  The stamps are those of a recording of
`BagEnd + 1` ticks played in a loop; a sample remembers its play, so a mix can be
seen.  A fix is usable or not, and the front sample carries the yaw of the pair.

**EncoderStream, WheelOdometry.** A pass of `loop()` is `Guard` and `Stream`, since each takes
`millis()` for itself.  A read of the counter may be wrong by a glitch, a pass may be too long, a
line may find no room, and the board may be reset at any time.  A line is in transit
from the print to `speed_callback()`; closing the port loses it.  `last` is the count the host
processed last (history), and a speed keeps the age of its print.  What only counts and
times decide is kept; `serial_bridge` divides and scales, which is left out.

**SerialLines.** What `CommandChain` has as the throttle of a line, whole or cut, byte by byte and without time: the
write of a pair that breaks off anywhere, the stop of `destroy_node`, the buffer of the board that
nobody reads during `setup()`, and `parseSerial()` with its limited line buffer.  The text of a
number is one byte that may be cut into a head and a tail: a head is a number between zero
and the whole (`atof()` of its first digits), a tail any number.

**LifecycleManager.** Callbacks of the manager exclude each other (one callback group) and are a
program counter over a command's transitions: request, the node's answer, the comparison of its
state, the bond.  `Crash`, `Restart` and `BondBreaks` may fall between any two.  A request under
way to a node that dies hangs, since nothing ends that wait; a missing service throws after 5 s.
Null pointers that the code would follow (`get_state()` on destroyed clients, `isBroken()` on a
missing bond) end the manager (`Dead`).

**RtcmParser, NtripClient.** The stream is numbered, so a packet is a range of units and a
fragment one that was cut; the payload reads as a preamble, which makes the scan meet packets that are none.
`parse()` is a recursive function with all its locals.  The client is one thread: a callback is
several steps where the connection may change between them (`select`, `recv`, the test of the
socket), and `reconnect()` holds the thread, one attempt a step.  A connection is closed, reset
or silent, and the caster answers with a success, an error, or both.

**UbloxDriver.** The thread that configures (`Configure`, `Send`, `Load`, `EnterWait`, `Wake`) and
that of `AsyncWorker` (`doRead`, `readEnd`, `doWrite`, `doClose` in the order posted) meet in
`ack_`, `read_mutex_` and a condition variable.  `readEnd` is two steps, because what it holds the
mutex for matters.  An answer names the kind of its request, not the request, and may come long after its
request was given up (`givenUp`, history).  A write to a port that is
gone throws, and ends the process.

## 3. Runs

Each property has a mutant: a definition changed the way a bug would change the code,
under which TLC finds the property violated.

| run | asks | instance |
|---|---|---|
| `bridge_command` | Can an old command reach or stay on the wire, whatever the four threads, the cable and shutdown do? Does the node implement `DeadMan`? Does the port come back, does `destroy_node` end? | 2 handles, timeout 2 ticks, silence 4; 0.68 M states, with fairness |
| `firmware` | Do timeouts, switches and the reversal pause hold against interrupts at any point? | every stick position, a reset at any time, `setup()` of 5 ticks; 4.2 M |
| `chain` | How long can one message turn a motor? | timeouts 2, boot 2, cut lines; 5.0 M |
| `lines` | What does the board make of broken, lost and glued bytes, and how soon is it right again? | two commands, line buffer 5, receive buffer 9; 5.2 M |
| `server` | Do goals end, are handles valid, is a success that of the goal's own path? | 3 goals (one bad), 2 activations; 57 K |
| `follow` | Does the robot follow what was published last, is nothing forgotten? | 3 paths, 2 planner requests, CSV path or none; 1.6 M |
| `gnss` | Which fixes are paired, how long is a yaw valid, how long does an outlier last? | recording of 8 ticks, 2 yaws; 4.9 M |
| `odometry` | What does the guard lose and admit, does every count reach the host once, how long does a velocity outlive its measurement? | counter within 2, glitches 1 and 9, one fault between resets, 2 lines under way; 5.9 M |
| `lifecycle` | Is what counts as active watched, is a crash noticed, does a takedown reach all, does the system come back? | 2 nodes, 3 commands, 4 faults, 2 polls; 131 K, with fairness |
| `ntrip` | Is every whole packet published, every broken connection replaced, when does the client give up? | 2 packets of 5 units in every cut, 2 breaks, 2 attempts; 0.51 M, with fairness |
| `ublox` | Is the result of a request that of its own acknowledgement, though answers may come too late, does everything end? | 4 requests, three of one kind, timeout 2, answers within 3; 197 K, with fairness |
| `firmware_reversal` | violation: manual to auto reverses without the dead time | |

The properties, and what they relate:

* `StopDeadline`: a driving command on a live wire is younger than `StopBound`
  (timeout, period, write timeout: `serial_bridge.py:248-287`), from the last message to
  the wire, through an unlocked pair of attributes, a lock and a blocking write.
  `FreshWhenWritten`: it is written only from fresh messages (the stamp is set last).
  `StopIsLastWrite`: nothing follows the stop of `destroy_node`.  `ReaderDropsItsOwn`: a reader
  whose handle failed closes no port opened after it.  That one rests on times: the
  reader notices within its read timeout, a new port is published after
  `OpenSettle`; without that (mutant `PublishAtOnce`) it fails.  `ImplementsDeadMan`, `Reconnects`.
  `ShutdownEnds`: `destroy_node` ends, unless its `flush()` waits for ever on a device that is there and takes
  nothing; the joins and the write have timeouts.
* `EndToEndStop`: in auto mode no motor turns on a message older than `EndBound`,
  whoever stopped first, and on a throttle line that was cut no longer than that from the write that completes
  it.  `LinkedStop`: over a link that stays up, with no cut line left, the host's stop ends
  it earlier.
* `InputsTimeOut`: a pass of `loop()` later, the drive of the auto mode, its steering and the drive of the
  stick have each a recent input.  `SwitchesWin`: a switch position that lasts is obeyed within
  one pass.  `AutoReversalPauses`.  These are about the board alone.
* `HealsWithTheNextPair`: after any cut, the board holds the throttle of a whole write as soon as one
  whole pair came before it, and the steering a pair later, since `SA` comes first and is what a
  fragment is glued to.  `CutsOnlyShorten`: broken writes alone never make the board turn
  against, or beyond, all that was asked; lost bytes may.
* `NoLeakedGoal`: every live goal is current, pending or about to be accepted.
  `NoNullGoal`: `computeControl()` dereferences no null handle, but for a deactivation that has waited for
  `server_timeout_`: its `terminate_all()` may leave one at a fetch, at `accept_pending_goal()` or in
  `publish_feedback()`, and the run reaches that.  `SucceedsOnItsPath`: a goal
  succeeds only when its own path was followed to the end.  `CancelEnds`.
* `FollowsPublished`: when nothing is under way, what the server follows is what was published last.
  `PendingIsSent`: a path that waits for a cancellation is never forgotten.  `NobodyForgotten`: of
  every goal the server works on, the client hears the result.
* `PairsMatch`: no accepted pair mixes two plays or exceeds the tolerances.
  `ValidIsRecent`: validity ends within the sum of delays, `heading_timeout` and one
  status period.  `ValidFromPairs`: nothing but a pair makes it valid.
  `OutlierIsForgotten`: an accepted outlier keeps good pairs out no longer than
  `heading_timeout` and one status period.
* `CountIsExact`: without a wrong read or an overlong pass the guard loses no count, however the
  passes fall.  `DeltasAddUp`: between two syncs the deltas the host receives add up to the
  counts, over late lines, lines without room and resets.  `SpeedIsPossible`: no line reports
  more than the guard admits in its interval and one tick more, by which the two clocks of a pass
  differ.  `VelocityIsRecent`: `/odom/encoder` shows motion at most `MaxTransit`,
  `encoder_timeout_sec` and one period after it was measured.
* `ActiveIsWatched`: while the system counts as active, the bond timer runs and every node has a
  bond that will tell.  `TakeDownReachesAll`: a takedown leaves a node active only below one
  that was missing.  `CrashIsNoticed`.  `Recovers`: after a takedown that left nothing active, the
  return of the nodes is enough.
* `IdleIsAccepted`: a callback finds an accepted connection, however attempts failed before.
  `GivesUpAtTheLast`: the exception comes after `reconnect_attempt_max` attempts of this outage.
  `WholeIsPublished`: a packet that arrives whole over one connection is published with its last
  byte, in however many pieces it came, unless a piece ended within what reads as a header
  (section 5).  `BrokenIsReplaced`.
* `ResultIsTheAnswer`: `configure()` returns true whenever the acknowledgement of that request was
  handled before it returned, and true without it only when an earlier request of the same kind was given
  up, whose late acknowledgement cannot be told from it.  `NothingHangs`: the configuration and the destructor end.

### Bounds, and why they are enough

* Durations are a few ticks.  What matters is their order and that each can end
  before, at and after another; `DurationAssumption` names the orders of the code's values
  that the bridge rests on (`ReadTimeout < OpenSettle`, `WriteTimeout + TxPeriod <
  JoinTimeout`), and the instances keep the others.  The proofs remove the bound for the bridge.
* A thread that can run does so before the next tick; a scheduler that starves one for
  longer than a tick stretches every bound by the same.
* Two handles: one in use or held by a reader that has not noticed, and one being opened, since
  the opening comes last and an id nobody holds is reused.  The proofs are for any number.
* `DriveFirmware`: `BootTime` is longer than the switches and sticks take to time out, so that `setup()`
  outlasts an input.
* Ages saturate above the largest bound they are compared with.
* Goals, paths, planner requests and activations are bounded by `Goals`, `MaxPaths`,
  `MaxRequests` and `MaxActivations`: three paths are the one followed, the one being
  cancelled for and the one that replaces it.  When they are used up the model stops,
  hence `CHECK_DEADLOCK FALSE` in `Server.cfg` and `Follow.cfg`.
* `LifecycleManager`: two nodes have a first and a last; three commands and four faults let a crash fall
  into a takedown, a recovery and a second crash; the poll that gives up is the second.  A manager
  that hangs or is dead, with all nodes down and no faults left, is the end: `CHECK_DEADLOCK FALSE`.
* `NtripClient`: a packet of 5 units has a header of 2, whose cut `HeaderSize` makes visible, a
  payload that looks like a header, and a checksum; two packets and two breaks leave a fragment in the cache
  for the next connection, twice; two attempts are one that fails and the last.  It ends when the
  client does: `CHECK_DEADLOCK FALSE`.
* `UbloxDriver`: the first of four requests must succeed, the others are of one kind, one after the other.
  `Timeout` is 2 and `MaxAnswer` 3: an answer comes in time, while the next request or the one after that
  waits, or never.  It ends when the
  thread is joined or dead: `CHECK_DEADLOCK FALSE`.  All other configurations check for deadlock.
* `SerialLines`: a line of 4 bytes, a line buffer of 5 and a receive buffer of 9 that holds one pair and
  the beginning of another; one command and the stop.
* `DualGnss`: `RearMax` and `FrontMax` stand for deques of 240 and 120; they hold all
  samples the tolerances and waits can reach (the proofs hold for every length).  The recording is longer
  than the jump threshold, the tolerance and the delays, and each stream has a fix near its ends
  (`GnssAssumption`, `MaxSilence`): a recording shorter than that can start
  again unnoticed.
* `EncoderStream`: `MaxDelta` is 2 and `WheelRate` 1, as the guard admits 60 counts in 10 ms and
  the car makes about 15: a wheel that outran the guard would lose counts, and
  `CountIsExact` says nothing of it.  One glitch passes the guard and one does not.  No whole tick
  passes between the two statements of a pass, and a line finds room before `MaxAge`.

### Fairness

* `SerialBridge!FairSpec`: weak fairness of each thread (the executor's callback once
  begun, transmitter, reader, reconnector, `destroy_node` but for the return of its `flush()`) and strong fairness of time.
  They are operating-system threads with bounded sleeps and timeouts, and the lock is
  held only inside them; nothing makes `flush()` return, so `DestroyFlushDone` has no fairness.  Nothing is assumed of `/cmd_vel` or of the interrupt that ends
  the node; `Reconnects` supposes a cable that is in again.
* `ActionServer!FairSpec`: the executor ends the acceptance it began, and the worker
  runs on; the costmap becomes current in the end (`computeControl()` waits for it and
  looks at nothing else).  Clients owe nothing.
* `LifecycleManager!FairSpec`: the manager's callback goes on and its timers fire, a node that is up
  answers, and a bond whose node is gone breaks (it has a heartbeat timeout).  Nobody owes a
  restart: `Recovers` supposes it.
* `NtripClient!FairSpec`: the thread runs and time passes; `recv_rtcm()` is strongly fair, because the
  executor looks at its timer in every turn however many sentences are waiting.
* `UbloxDriver!FairSpec`: both threads run, a read of a port that is gone fails, and time passes.
  `EnterWait` and `Wake` are strongly fair: the worker takes and gives back the mutex again and
  again, and a mutex of the system is got in the end.
* The other runs have none.

## 4. Proofs

Every theorem is about all values of the constants that satisfy the named `ASSUME`s of its module,
and has no other hypothesis than those shown.

| theorem | of | states |
|---|---|---|
| `TypeCorrect` | `SerialBridge` | `SteppedSpec => []TypeOK`, with the steering within `max_steer_deg` |
| `StopLast` | | `SteppedSpec => []StopIsLastWrite` |
| `DropOwn` | | `SteppedSpec => []ReaderDropsItsOwn` |
| `Deadline` | | `Spec => []StopDeadline` |
| `Fresh` | | `Spec => FreshWhenWritten` |
| `Refines` | | `Spec => ImplementsDeadMan` |
| `NextPairHeals`, `CutsNeverInvent` | `SerialLines` | `LinesSpec => []HealsWithTheNextPair`, `[]CutsOnlyShorten` |
| `TypeCorrect`, `Switches`, `Reversals` | `DriveFirmware` | `Spec => []TypeOK`, `[]SwitchesWin`, `AutoReversalPauses` |
| `Timeouts` | | `MaxAge < ClockWrap` gives `Spec => []InputsTimeOut` |
| `EndToEnd`, `Linked` | `CommandChain` | `MaxAge < ClockWrap` gives `ChainSpec => []EndToEndStop`, `[]LinkedStop` |
| `TypeCorrect`, `NoLeak`, `NoNull`, `OwnPath` | `ActionServer` | `Spec => []TypeOK`, `[]NoLeakedGoal`, `[]NoNullGoal`, `SucceedsOnItsPath` |
| `Sent`, `Heard`, `Follows` | `PathFollowing` | `FollowSpec => []PendingIsSent`, `[]NobodyForgotten`, `[]FollowsPublished` |
| `Exact` | `WheelOdometry` | `2 * WheelRate <= MaxDelta` gives `Spec => []CountIsExact` |
| `AddUp` | | `SyncDrops > 0` gives `Spec => []DeltasAddUp` |
| `Possibles`, `Recent` | | `Spec => []SpeedIsPossible`, `[]VelocityIsRecent` |
| `TypeCorrect`, `Watched`, `TakesDown` | `LifecycleManager` | `Spec => []TypeOK`, `[]ActiveIsWatched`, `TakeDownReachesAll` |
| `Accepted`, `LastAttempt` | `NtripClient` | `Spec => []IdleIsAccepted`, `[]GivesUpAtTheLast` |
| `OwnAnswer` | `UbloxDriver` | `Spec => []ResultIsTheAnswer` |
| `TypeCorrect`, `Matched`, `RecentYaw` | `DualGnss` | `Spec => []TypeOK`, `[]PairsMatch`, `[]ValidIsRecent` |
| `FromPairs`, `Forgotten` | | `Spec => ValidFromPairs`, `OutlierIsForgotten` |

**SerialBridge.**  `TypeOK` is inductive as it stands.  The others need two invariants.  `PortInv`
(`PortInvariant`), whatever the clock does:

* `LockInv` ties the lock to the two places that write;
* `JoinInv` bounds where the transmitter can be by the time left to the join of
  `destroy_node`: it leaves before the join gives up because
  `WriteTimeout + TxPeriod < JoinTimeout`, so nothing is written after the stop;
* `OpenInv` says that a port being opened is nobody else's and that a reader in a read of
  the old one returns before it is published, because `ReadTimeout < OpenSettle`.

`CommandInv` is `PortInv` with

* `StampInv`: a command that is not timed out was made of messages at least as young
  (the stamp is set after both values);
* `CarryInv`: what the transmitter has read is a stop or still fresh, wherever it is between
  the test and the write;
* `SilenceInv`: what the start-up silence leaves out;
* `ReplaceInv`: while a driving command stands on a live wire, the sum of its age and the time
  the transmitter needs to write the next one is within `StopBound`.

`StampInv` fails when a wall clock steps back, so `Deadline`, `Fresh` and `Refines` are about
`Spec`, where it does not.  `Refines` maps each step of the node to a step of `DeadMan` or to none:
opening and losing the port, the end of a write, and a tick, which `ReplaceInv` keeps below `Bound`.

**SerialLines.**  `LinesInv` is about `Pending`, the line so far with the bytes not yet read.
`ThrottleInv`: after one whole write nothing is pending and the throttle is that of the last write, or
its line is due: it comes at the end of what is pending, and first or after a newline, so whatever
stands before it cannot spoil it.  `SteerInv` says the same of the steering line after two, with only
throttle lines behind it, which do not touch the steering (the pair's own, and the stop of
`destroy_node`: there is one, because `HaltInv` leaves the port closed after it).  Both go through a read, a
write and a cut by the same lemmas (`DueRead`, `DueReceived`, `AlignedReceived`, `BrokenBytes`).
`GlueInv` follows each number pending back to the letter it was written after, and so to a
command; it holds until a byte is lost.  It returns with the second whole write, which finds
nothing pending: `BootInv` says that a board that has lost bytes while it starts has a full buffer, so that
write reached a running one, and the two clauses above give what it holds.

**DriveFirmware, CommandChain.**  `Since` is the time since the last pass of `LoopControl`.  What drives was fresh,
and a switch that has not moved was obeyed, at that pass (`FreshInv`, `SwitchInv`); a pass comes
before `Since` exceeds `LoopGap`.  `SignInv` ties `last_dir_sign` to the pins in auto mode, which
is what makes the pause come.  `ChainInv` carries the age of a message along its way: in the receive
buffer (`RxInv`, with the time `setup()` may still take), in the kept command (`SrcInv`), on the pins
(`PwmInv`).  A cut line adds nothing to it: when it is completed its age is counted from there, and `steady`
is zero until it is gone.  `LinkInv` says the same of what was sent since the link came up, against the host's
present command.  The host in `CommandChain` is `DeadMan`: with `Refines`, the end-to-end bound holds of
the node and the board.

**ActionServer, PathFollowing.**  The handles name different goals and are never unsent
(`HandlesInv`); a preemption is asked for only while there is a pending goal to go on with
(`PreemptInv`), which is what keeps every dereference valid (`FetchInv`) until a deactivation has waited for too long
(`overdue`); `PathInv` ties the path to the
current goal wherever the loop may succeed.  Every step of `PathFollowing` is one of
`ActionServer` or leaves it alone, so its invariant is taken from there.  `OrderInv` adds that
paths reach the server in the order published and that the last one is on its way, kept, or
known; `LatestInv` says where the server has it; `ReplyInv` that a refused goal was told so.

**WheelOdometry.**  `ExactInv` bounds the distance of the counter from the last read by what the wheel
can make, which stays below what the guard admits.  `SampleInv` does the same for the stream
sample, with the tick by which the two clocks of a pass differ.  `ChainedInv` says that consecutive
lines meet unless a sync is due, `RecentInv` adds ages along transit, watchdog and timer.

**LifecycleManager.**  `BringupInv` follows a bringup node by node: those activated have bonds.  `BondInv`
says that a formed bond is that of an active node, except between a deactivation and its check, and
`DownInv` that the system is then marked inactive.  `ResetInv` follows a takedown up the list: only
nodes it has not reached yet are active, none in its second round, and it ends early only at a node
that is gone.

**NtripClient.**  `ConnectedInv` and `AttemptInv` are inductive only together: a callback runs over an
accepted connection, so `reconnect()` always enters its loop, and the count of attempts is zero outside it.

**UbloxDriver.**  An acknowledgement does not say which request it is for, and nothing bounds how late it comes, so
answers of earlier requests may be anywhere.  `OrderInv` says that requests and answers stay in the order sent,
through four places: the output buffer, the receiver, the answers on their way, and the answer the worker is about
to handle (`ReadInv`: there is one, since one read is under way at a time).  So nothing is behind the request at hand, and
once its own answer is handled nothing is left under way (`AckInv`): no other can overwrite it.  `FlowInv` says of whatever
else is under way that it is covered: a request of its kind, itself or an earlier one, was given up.  An answer
that passes for the own one is therefore a late one.

**DualGnss.**  `LastInv` and `LapInv` say that a stream's deque holds fixes of one play: the first fix of a new play is
always seen as a jump, unless the other stream has just emptied both deques, and what arrives late
then is from the very end of the old play, further from the new one than the tolerance.
`HeldInv` bounds the wait of a front fix once there is a rear one; before, it may wait for ever, and the first
rear fix then pairs only with a front one no older than itself by more than `SyncTolerance`
(hence `Wait` in `AgeBound`).  `ValidInv` ties `valid_state` to the remembered yaw and to the time left until the next `publish_status()`.

Checked by TLC only: liveness (`Reconnects`, `ShutdownEnds`, `CancelEnds`, `CrashIsNoticed`, `Recovers`,
`BrokenIsReplaced`, `NothingHangs`), which is out of the prover's reach, and `WholeIsPublished`, which
depends on what a recursive function computes.  Every other property of a run is a theorem.

## 5. What the code does otherwise than it says

A run exists for one (`firmware_reversal`; `PROJECT.json`, "findings").  Met while modelling, and
without a run:

Bridge and board

* `serial_bridge.py:257` measures the age of a command with `time.time()`: a wall clock that is set back
  makes an old command fresh again, though the comment at line 27 speaks of a stop after `cmd_timeout`.
* `serial_bridge.py:330` calls `flush()` with the lock held and without a timeout: on a device that is there and
  takes nothing, `destroy_node` does not end.  `ShutdownEnds` excuses that and nothing else.
* `mando_ver2.ino:304`: a `TH` line that a failing write cut off stays in `serialBuffer` while the host is away; the first
  write after that completes it, and the board obeys a throttle of any age, for `THROTTLE_TIMEOUT_MS` at most.
* `destroy_node` writes its stop even within the startup silence (`serial_bridge.py:329`);
  the silence does not start again after a reconnection, which resets the board.
* `mando_ver2.ino:728`: `millis()` wraps after 49.7 days, and a throttle received once is then fresh
  again for 500 ms, though `description.md:55` says a command not renewed for 500 ms times out.
  `InputsTimeOut` is checked and proved below the wrap.
* `mando_ver2.ino:210`: the limit grows with the time of a pass, so a wrong read may be admitted and
  the right one after it dropped, or the reverse; the guarded count keeps the difference until the
  next reset.  A dropped jump also loses what the wheel turned in the two intervals.
* `mando_ver2.ino:680`: a pulse newer than `t_us` makes the unsigned age wrap; the stick is
  ignored for one pass.
* `setup.py:27` of `odom_pkg` names a module `encoder_imu_odometry` that does not exist (the file is
  `raw_encoder_imu_odometry.py`), so the command of `howtorun.md:55` fails.

Path following

* `simple_action_server.hpp:182`: a goal that arrives while the worker leaves is parked and
  followed only after the next one arrives.
* `simple_action_server.hpp:201`: a goal accepted just before a deactivation stays executing for ever,
  though `test_actions.cpp:352` expects a deactivation to abort goals.
* `simple_action_server.hpp:292`: a deactivation that has waited for `server_timeout_` terminates the goals under a
  worker that still runs, and `controller_server.cpp:364`, `:382`, `:544` or `simple_action_server.hpp:497` may then
  follow a null handle.
* `controller_server.cpp:393`: a path accepted between the test for a cancellation and
  `terminate_all()` is aborted with the cancelled one.
* `controller_server.cpp:546`: a preempting goal with an unknown controller ends without a
  replacement, and the loop goes on along the old path.
* `mppi_path_client.py:275`: the late result of an old path sets the status to IDLE while the next is
  followed, though `mppi_controller.yaml:246` says that it tells the state of the client.

Heading

* `utm_pkg/README.md:134` says that validity ends when no heading was accepted for 0.5 s, and
  line 159 that it is false on a rejected pair; the status timer has a period of 0.5 s of its
  own, so validity may last 1.0 s, through rejected pairs (`ValidIsRecent` has the bound).

Lifecycle manager

* `lifecycle_manager.cpp:258`: a node that is away for 5 s makes `change_state()` throw, which ends even a
  hard reset: nodes before it in the list stay active, nothing watches them, and the startup after the
  respawn fails at them.  `lifecycle_manager.hpp:161` says that something unresponsive takes down the system.
* The respawn timer is not cancelled by a shutdown, a pause or a reset: it follows destroyed clients, or starts the
  system unasked.
* A request to a node that dies while it works on it is never answered, and the manager waits
  without a limit.
* A bond that did not form in a failed startup stays in the map and is taken for good by the next
  (`lifecycle_manager.cpp:188`); a failed startup leaves nodes active and unwatched.

GNSS

* `ntrip_client.py:197`: when the last attempt allowed succeeds, the exception is raised all the same, and
  its message has the count that line 198 has just set to 0.
* `ntrip_client.py:244`: a connection that falls silent before its first data, after a reconnection
  for silence, is never replaced.  A reconnection for another reason does not renew the time of the
  last packet, so a second one may follow at once.
* `ntrip_client.py:132` decodes the first answer as text: one that brings its first data with it may
  fail and cost an attempt.
* `rtcm_parser.py:72` cuts the new piece at an index of the cache and the piece together: a piece that
  ends within what reads as a header may lose a packet.  A whole packet and a fragment in one
  read leave the whole one in the cache, which returns it again.  Line 106 speaks of throwing
  away old data; the oldest bytes are kept.
* `gps.cpp:608`: an acknowledgement that comes after its timeout is taken for that of the next
  request of its kind, whose own is then late for the one after it (`ResultIsTheAnswer` has the exact terms).
* `callback.hpp:190`: the handler of a polled message is inserted after the poll was sent, so an
  early answer is missed.
* `async_worker.hpp:200`: `asio::write()` to a port that is gone throws in the worker's thread, which
  ends the process; a read error posts the next read at once, a busy loop.
* `async_worker.hpp:311`: callbacks run with `read_mutex_` held, so a `configure()` from one would wait
  for itself.
* `node.cpp:879`: when the configuration fails the node stays alive and subscribes to nothing.
* `gps.cpp:579`: `sendRtcm()` returns true when the buffer was full and nothing was sent.

## 6. Not modelled

* The PID and every other floating-point computation; wording, logs, RViz markers, trails,
  diagnostics, parameters, the CSV reader.
* Torn pairs of steering and throttle within one message: the code allows them, and the skew is
  at most one message.
* Fragments and splices of ENC lines in the reader of the bridge (`buf` survives a
  reconnection, `serial_bridge.py:152`), the second text format that `_process_encoder` accepts, and
  every position, a sum of speeds.
* Servers that die with a request under way: `mppi_path_client` has no timeout and waits.
* `is_active`, the diagnostics and the preshutdown callback of the lifecycle manager, and its wait for
  the services at the start.
* TLS, the text of the NTRIP request and the NMEA parser; what a u-blox message says, and
  `Gps::read()` and the initialisation of the port.
* `encoder_imu_odometry` cannot be started (section 5).  `ekf_encoder_imu_odometry` starts
  `ros2 run` of an external filter and ends it with signals: whether a child is left behind
  depends on how that command passes them on, which is not in this repository.
* `imu_pkg` and `fix2nmea` are numeric and sequential; `encoder_pkg` and the other sketches are
  predecessors; u-blox messages are stateless encodings.
* The rest of Navigation2, most of the repository's lines: plugins, costmaps and optimizers are numeric,
  and the launch file starts the planner and controller server only.

## 7. Plan

Done, in this order: `SerialBridge` with `DeadMan` (the car's dead man's switch), `DriveFirmware`,
`CommandChain`, `ActionServer`, `PathFollowing`, `DualGnss`, `EncoderStream` and `WheelOdometry`,
`LifecycleManager`, `SerialLines`, `RtcmParser` and `NtripClient`, `UbloxDriver`; the proofs of
section 4, from the bridge's invariants to its refinement of `DeadMan`, the chain over it, the
server and the client over it, the odometry, the manager, the NTRIP client, the u-blox driver and the two
antennas.

Next, in order of worth:

1. Splices of ENC lines over a reconnection, in the way of `SerialLines`, composed with `WheelOdometry`.
2. The planner server over `ActionServer`, so that `PathFollowing` has two servers of the same code.
