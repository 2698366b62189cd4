----------------------------- MODULE DriveFirmware -----------------------------
(***************************************************************************)
(* The motor side of arduino/mando_ver2: serial commands with a timeout,   *)
(* the mode switches and the throttle of the RC receiver measured by pulse *)
(* interrupts, and the control loop that drives the motors from them.  The *)
(* encoder is left out.                                                    *)
(*                                                                         *)
(* One pass of loop() is two actions, because an interrupt can fall        *)
(* between them: LoopTop parses the serial port and takes t_us, LoopControl*)
(* copies the interrupt variables and drives the motors.  A timestamp is   *)
(* kept as its age, so an unsigned difference of two clocks is a           *)
(* difference of ages modulo ClockWrap; millis() and micros() share one    *)
(* tick.  Steering is kept as the source of the PID's reference.           *)
(***************************************************************************)
EXTENDS Integers

CONSTANTS
  Commands,      \* what the host sends: records [th, sa]; NoLine for a line not sent
  NoLine,
  Sticks,        \* positions the RC throttle takes, out of -1, 0, 1
  Full,          \* throttle 1.0, and SIGNAL_THRESHOLD of it is one unit
  SteerLimit,    \* MAX_STEER_TIRE_DEG
  CommandTimeout,\* THROTTLE_TIMEOUT_MS and STEER_TIMEOUT_MS, both 500
  AccelTimeout,  \* the 30000 us after which the RC throttle is ignored
  LoopDelay,     \* LOOP_DELAY_MS: ticks between two control passes
  LoopSlack,     \* ticks by which LoopTop and LoopControl may each be late
  BootTime,      \* setup(): CenterSteeringOnce may take that long
  ClockWrap,     \* 2^32 for millis() and micros()
  MaxAge         \* bound on the ages that are told apart

ASSUME FirmwareAssumption ==
  /\ Sticks \subseteq {-1, 0, 1} /\ Full \in Nat \ {0} /\ SteerLimit \in Nat
  /\ \A c \in Commands : /\ c.th \in Int \/ c.th = NoLine
                         /\ c.sa \in Int \/ c.sa = NoLine
  /\ CommandTimeout \in Nat /\ AccelTimeout \in Nat
  /\ LoopDelay \in Nat \ {0} /\ LoopSlack \in Nat /\ BootTime \in Nat
  /\ ClockWrap \in Nat \ {0} /\ MaxAge \in Nat
  /\ CommandTimeout + LoopDelay + 2 * LoopSlack < MaxAge

VARIABLES
  pc,            \* "boot", "top" of loop(), or "control" after t_us was taken
  boot,          \* ticks setup() may still take
  rx,            \* lines in the receive buffer, the last of each kind
  throttle_cmd, throttleFresh, thAge,  \* thAge is millis() - lastThrottleMs, unwrapped
  steer_auto_deg, steerFresh, saAge,
  autoHigh, manualHigh,  \* Auto_us > 1600, Manual_us > 1600
  accel, accelAge,       \* Accel_us as -1, 0, 1 about its dead band; age of the pulse
  prevT,         \* micros() - prev_t_us
  lag,           \* micros() - t_us
  motor,         \* drive pins: direction and PWM
  last_dir_sign,
  steerFrom,     \* where the steering reference comes from
  mode,          \* mode of the last control pass
  deadtime,      \* history: the last pass switched the PWM off before the direction
  switchAge      \* history: time since a mode switch moved, or setup() ended

loopVars  == <<pc, boot, prevT, lag>>
cmdVars   == <<rx, throttle_cmd, throttleFresh, thAge, steer_auto_deg, steerFresh, saAge>>
rcVars    == <<autoHigh, manualHigh, accel, accelAge, switchAge>>
driveVars == <<motor, last_dir_sign, steerFrom, mode, deadtime>>
vars == <<loopVars, cmdVars, rcVars, driveVars>>
-----------------------------------------------------------------------------
BREAK_MODE == "break"
MANUAL_MODE == "manual"
AUTO_MODE == "auto"

Constrain(x, limit) == IF x > limit THEN limit ELSE IF x < -limit THEN -limit ELSE x
Magnitude(x) == IF x < 0 THEN -x ELSE x
Sign(x) == IF x > 0 THEN 1 ELSE IF x < 0 THEN -1 ELSE 0
Older(age) == IF age < MaxAge THEN age + 1 ELSE MaxAge

LoopMax == LoopDelay + LoopSlack   \* between two snapshots of t_us
LoopGap == LoopMax + LoopSlack     \* between two passes of LoopControl
NoLines == [th |-> NoLine, sa |-> NoLine]

\* Initial values of the globals.  Both clocks start at zero and nothing is fresh.
Init ==
  /\ pc = "boot" /\ boot \in 0..BootTime /\ rx = NoLines
  /\ throttle_cmd = 0 /\ throttleFresh = FALSE /\ thAge = 0
  /\ steer_auto_deg = 0 /\ steerFresh = FALSE /\ saAge = 0
  /\ autoHigh = FALSE /\ manualHigh = FALSE /\ switchAge = 0
  /\ accel = 0 /\ accelAge = 0
  /\ prevT = LoopDelay /\ lag = 0
  /\ motor = [dir |-> "brake", pwm |-> 0] /\ last_dir_sign = 0
  /\ steerFrom = "centering" /\ mode = BREAK_MODE /\ deadtime = FALSE

\* Opening the port resets the board, and so does its power.
BoardReset ==
  /\ pc' = "boot" /\ boot' \in 0..BootTime /\ rx' = NoLines
  /\ throttle_cmd' = 0 /\ throttleFresh' = FALSE /\ thAge' = 0
  /\ steer_auto_deg' = 0 /\ steerFresh' = FALSE /\ saAge' = 0
  /\ autoHigh' = FALSE /\ manualHigh' = FALSE /\ switchAge' = 0
  /\ accel' = 0 /\ accelAge' = 0
  /\ prevT' = LoopDelay /\ lag' = 0
  /\ motor' = [dir |-> "brake", pwm |-> 0] /\ last_dir_sign' = 0
  /\ steerFrom' = "centering" /\ mode' = BREAK_MODE /\ deadtime' = FALSE
-----------------------------------------------------------------------------
(* Interrupts, and bytes from the host.                                    *)

\* A TH and an SA line reach the receive buffer.  Nobody reads it during setup(),
\* so lines that no longer fit are lost and the older ones stay.
Receive(c) ==
  /\ rx' = [k \in {"th", "sa"} |-> IF c[k] = NoLine THEN rx[k] ELSE c[k]]
  /\ UNCHANGED <<loopVars, throttle_cmd, throttleFresh, thAge, steer_auto_deg,
                 steerFresh, saAge, rcVars, driveVars>>

AccelPulseInt(a) ==
  /\ accel' = a /\ accelAge' = 0
  /\ UNCHANGED <<loopVars, cmdVars, autoHigh, manualHigh, switchAge, driveVars>>

AutoPulseInt ==
  /\ autoHigh' = ~autoHigh /\ switchAge' = 0
  /\ UNCHANGED <<loopVars, cmdVars, manualHigh, accel, accelAge, driveVars>>

ManualPulseInt ==
  /\ manualHigh' = ~manualHigh /\ switchAge' = 0
  /\ UNCHANGED <<loopVars, cmdVars, autoHigh, accel, accelAge, driveVars>>
-----------------------------------------------------------------------------
(* setup() and loop().                                                     *)

SetupDone ==
  /\ pc = "boot" /\ pc' = "top"
  /\ boot' = 0 /\ switchAge' = 0
  /\ UNCHANGED <<prevT, lag, cmdVars, autoHigh, manualHigh, accel, accelAge, driveVars>>

\* parseSerial: the last line of each kind is what its globals are left with.
ParseSerial ==
  /\ IF rx.th = NoLine
       THEN UNCHANGED <<throttle_cmd, throttleFresh, thAge>>
       ELSE /\ throttle_cmd' = Constrain(rx.th, Full)
            /\ throttleFresh' = TRUE /\ thAge' = 0
  /\ IF rx.sa = NoLine
       THEN UNCHANGED <<steer_auto_deg, steerFresh, saAge>>
       ELSE /\ steer_auto_deg' = Constrain(rx.sa, SteerLimit)
            /\ steerFresh' = TRUE /\ saAge' = 0
  /\ rx' = NoLines

\* loop() up to t_us = micros(): it returns early until LOOP_DELAY_MS are over.
LoopTop ==
  /\ pc = "top"
  /\ ParseSerial
  /\ IF prevT < LoopDelay
       THEN UNCHANGED <<pc, prevT, lag>>
       ELSE pc' = "control" /\ prevT' = 0 /\ lag' = 0
  /\ UNCHANGED <<boot, rcVars, driveVars>>

Mode ==
  CASE autoHigh                -> AUTO_MODE
    [] ~autoHigh /\ manualHigh -> MANUAL_MODE
    [] OTHER                   -> BREAK_MODE

\* now - last <= timeout on unsigned 32-bit clocks.
InTime(age, timeout) == age % ClockWrap <= timeout

\* Mutant: a throttle that was received once stays valid (throttleFresh is never
\* cleared).
ThrottleOnceFresh == throttleFresh

th_ok == throttleFresh /\ InTime(thAge, CommandTimeout)

sa_ok == steerFresh /\ InTime(saAge, CommandTimeout)

\* t_us - accel_last_us > 30000 is unsigned as well, and a pulse that came after
\* t_us was taken makes it wrap.
AccelInput == IF InTime(accelAge - lag, AccelTimeout) THEN accel ELSE 0

\* Mutant: break mode leaves the motors as they are.
Coast == deadtime' = FALSE /\ UNCHANGED <<motor, last_dir_sign>>

StopMotor ==
  /\ motor' = [dir |-> "brake", pwm |-> 0]
  /\ deadtime' = FALSE /\ UNCHANGED last_dir_sign

\* Manual mode: MoveBackward, MoveForward, or both PWMs off; no dead time, and
\* last_dir_sign is left as it was.
DriveManually ==
  /\ motor' = [dir |-> CASE AccelInput > 0 -> "reverse"
                         [] AccelInput < 0 -> "forward"
                         [] OTHER -> motor.dir,
               pwm |-> Full * Magnitude(AccelInput)]
  /\ deadtime' = FALSE /\ UNCHANGED last_dir_sign

\* Mutant: the direction is switched with the PWM on.
DriveWithoutDeadtime(cmd) ==
  LET speed == Magnitude(cmd) IN
  /\ deadtime' = FALSE
  /\ IF speed < 1
       THEN motor' = [motor EXCEPT !.pwm = 0] /\ last_dir_sign' = 0
       ELSE /\ motor' = [dir |-> IF cmd > 0 THEN "forward" ELSE "reverse", pwm |-> speed]
            /\ last_dir_sign' = Sign(cmd)

driveWithDeadtime(cmd) ==
  LET speed == Magnitude(cmd) IN
  /\ deadtime' = (speed >= 1 /\ last_dir_sign # 0 /\ Sign(cmd) # last_dir_sign)
  /\ IF speed < 1
       THEN motor' = [motor EXCEPT !.pwm = 0] /\ last_dir_sign' = 0
       ELSE /\ motor' = [dir |-> IF cmd > 0 THEN "forward" ELSE "reverse", pwm |-> speed]
            /\ last_dir_sign' = Sign(cmd)

LoopControl ==
  /\ pc = "control" /\ pc' = "top"
  /\ mode' = Mode
  /\ \/ Mode = BREAK_MODE /\ StopMotor /\ steerFrom' = "off"
     \/ Mode = MANUAL_MODE /\ DriveManually /\ steerFrom' = "rc"
     \/ /\ Mode = AUTO_MODE
        /\ driveWithDeadtime(IF th_ok THEN throttle_cmd ELSE 0)
        /\ steerFrom' = IF sa_ok THEN "sa" ELSE "rc"
  /\ lag' = 0
  /\ UNCHANGED <<boot, prevT, cmdVars, rcVars>>
-----------------------------------------------------------------------------
\* Time passes: setup() ends in time, and so does every pass of loop().
Tick ==
  /\ pc = "boot" => boot > 0
  /\ pc = "top" => prevT < LoopMax
  /\ pc = "control" => lag < LoopSlack
  /\ boot' = IF pc = "boot" THEN boot - 1 ELSE 0
  /\ prevT' = IF pc = "boot" THEN prevT ELSE prevT + 1
  /\ lag' = IF pc = "control" THEN lag + 1 ELSE 0
  /\ thAge' = Older(thAge) /\ saAge' = Older(saAge)
  /\ accelAge' = Older(accelAge)
  /\ switchAge' = IF switchAge > LoopGap THEN switchAge ELSE switchAge + 1
  /\ UNCHANGED <<pc, rx, throttle_cmd, throttleFresh, steer_auto_deg, steerFresh,
                 autoHigh, manualHigh, accel, driveVars>>
-----------------------------------------------------------------------------
Interrupts ==
  \/ \E a \in Sticks : AccelPulseInt(a)
  \/ AutoPulseInt \/ ManualPulseInt

Next ==
  \/ \E c \in Commands : Receive(c)
  \/ Interrupts
  \/ SetupDone \/ LoopTop \/ LoopControl
  \/ BoardReset \/ Tick

Spec == Init /\ [][Next]_vars
-----------------------------------------------------------------------------
Ages == 0..MaxAge

\* Every variable holds a value of its kind; what the host sent is clamped.
TypeOK ==
  /\ pc \in {"boot", "top", "control"} /\ boot \in 0..BootTime
  /\ DOMAIN rx = {"th", "sa"}
  /\ rx.th \in Int \cup {NoLine} /\ rx.sa \in Int \cup {NoLine}
  /\ throttle_cmd \in -Full..Full /\ throttleFresh \in BOOLEAN /\ thAge \in Ages
  /\ steer_auto_deg \in -SteerLimit..SteerLimit /\ steerFresh \in BOOLEAN
  /\ saAge \in Ages
  /\ autoHigh \in BOOLEAN /\ manualHigh \in BOOLEAN
  /\ accel \in {-1, 0, 1} /\ accelAge \in Ages
  /\ switchAge \in 0..(LoopGap + 1)
  /\ prevT \in 0..LoopMax /\ lag \in 0..LoopSlack
  /\ motor \in [dir : {"brake", "forward", "reverse"}, pwm : 0..Full]
  /\ last_dir_sign \in {-1, 0, 1}
  /\ steerFrom \in {"centering", "off", "rc", "sa"}
  /\ mode \in {BREAK_MODE, MANUAL_MODE, AUTO_MODE} /\ deadtime \in BOOLEAN

\* Nothing drives on an input that has fallen silent: in auto mode the motors stop when the
\* last throttle was parsed longer ago than its timeout and one pass of the loop, and the PID
\* follows the receiver again when the last steering angle was; in manual mode the motors stop
\* when the receiver's pulses have ceased (th_ok, sa_ok and the 30000 us of loop()).
InputsTimeOut ==
  /\ mode = AUTO_MODE /\ motor.pwm > 0 => throttleFresh /\ thAge <= CommandTimeout + LoopGap
  /\ mode = AUTO_MODE /\ steerFrom = "sa" => steerFresh /\ saAge <= CommandTimeout + LoopGap
  /\ mode = MANUAL_MODE /\ motor.pwm > 0 => accelAge <= AccelTimeout + LoopGap

\* The mode switches win over everything else within one pass of the loop: both low
\* stops the motors, and the auto switch takes them from the receiver's stick.
SwitchesWin ==
  pc # "boot" /\ switchAge > LoopGap =>
    /\ ~autoHigh /\ ~manualHigh => motor.pwm = 0
    /\ autoHigh => mode = AUTO_MODE

\* While auto mode lasts, the drive never changes direction without the dead time,
\* through whatever zeros, timeouts and reversals of the command.
AutoReversalPauses ==
  [][mode = AUTO_MODE /\ mode' = AUTO_MODE /\ motor.pwm > 0 /\ motor'.pwm > 0
     /\ motor'.dir # motor.dir => deadtime']_vars

\* The same for every pass in auto mode, its first one included.
ReversalPauses ==
  [][mode' = AUTO_MODE /\ motor.pwm > 0 /\ motor'.pwm > 0
     /\ motor'.dir # motor.dir => deadtime']_vars
=============================================================================
