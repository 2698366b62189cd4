--------------------------- MODULE CommandChainProofs ---------------------------
(***************************************************************************)
(* Proofs about the board and about the chain that drives it, for every    *)
(* value of their constants: timeouts, jitter of the loop, length of       *)
(* setup().  What depends on an age assumes that millis() does not wrap    *)
(* within the ages that are told apart.  The second part holds for every   *)
(* host that keeps the promise of DeadMan.                                 *)
(***************************************************************************)
EXTENDS CommandChain, TLAPS

(***************************************************************************)
(* The board: the theorems of DriveFirmware.                               *)
(***************************************************************************)

\* The longest time since the last pass of LoopControl.
Since == IF pc = "control" THEN LoopMax + lag ELSE prevT

\* prevT and lag measure from the same moment while a pass is under way, and setup() drives
\* nothing.
LoopInv ==
  /\ pc = "control" => prevT = lag
  /\ pc = "boot" => mode = BREAK_MODE /\ motor.pwm = 0

\* What drives since the last pass was fresh in that pass.
FreshInv ==
  /\ mode = AUTO_MODE /\ motor.pwm > 0 => throttleFresh /\ thAge <= CommandTimeout + Since
  /\ mode = AUTO_MODE /\ steerFrom = "sa" => steerFresh /\ saAge <= CommandTimeout + Since
  /\ mode = MANUAL_MODE /\ motor.pwm > 0 => accelAge <= AccelTimeout + Since

\* A switch that has not moved since the last pass was obeyed in it.
SwitchInv ==
  pc # "boot" /\ switchAge > Since => mode = Mode /\ (mode = BREAK_MODE => motor.pwm = 0)

\* In auto mode last_dir_sign is the direction the motors turn in.
SignInv ==
  mode = AUTO_MODE /\ motor.pwm > 0 =>
    \/ motor.dir = "forward" /\ last_dir_sign = 1
    \/ motor.dir = "reverse" /\ last_dir_sign = -1

IInv == TypeOK /\ LoopInv /\ SwitchInv /\ SignInv
-----------------------------------------------------------------------------
(* The operators.                                                          *)

LEMMA LoopBounds ==
  /\ LoopMax \in Nat /\ LoopGap \in Nat /\ LoopDelay <= LoopMax
  /\ LoopGap = LoopMax + LoopSlack
BY FirmwareAssumption DEF LoopMax, LoopGap

\* What parseSerial() keeps is within its limit.
LEMMA ConstrainRange ==
  ASSUME NEW x \in Int, NEW limit \in Nat
  PROVE  Constrain(x, limit) \in -limit..limit
BY DEF Constrain

LEMMA OlderAges ==
  ASSUME NEW a \in Ages
  PROVE  Older(a) \in Ages /\ (Older(a) = a \/ Older(a) = a + 1)
BY FirmwareAssumption DEF Older, Ages

LEMMA ModeRange == Mode \in {BREAK_MODE, MANUAL_MODE, AUTO_MODE}
BY DEF Mode

LEMMA ModesDiffer ==
  BREAK_MODE # AUTO_MODE /\ MANUAL_MODE # AUTO_MODE /\ BREAK_MODE # MANUAL_MODE
BY DEF BREAK_MODE, MANUAL_MODE, AUTO_MODE

\* The PWM of manual mode is off or full.
LEMMA ManualPwm ==
  ASSUME NEW a \in {-1, 0, 1}
  PROVE  Full * Magnitude(a) \in 0..Full
<1>1. CASE a = 0 BY <1>1, FirmwareAssumption DEF Magnitude
<1>2. CASE a = 1 BY <1>2, FirmwareAssumption DEF Magnitude
<1>3. CASE a = -1 BY <1>3, FirmwareAssumption DEF Magnitude
<1> QED BY <1>1, <1>2, <1>3
-----------------------------------------------------------------------------
(* Types.                                                                  *)

\* The values a reset leaves.
LEMMA ResetValues ==
  /\ DOMAIN NoLines = {"th", "sa"} /\ NoLines.th = NoLine /\ NoLines.sa = NoLine
  /\ [dir |-> "brake", pwm |-> 0] \in [dir : {"brake", "forward", "reverse"}, pwm : 0..Full]
  /\ 0 \in Ages /\ 0 \in 0..(LoopGap + 1) /\ 0 \in 0..LoopSlack /\ LoopDelay \in 0..LoopMax
  /\ 0 \in -Full..Full /\ 0 \in -SteerLimit..SteerLimit
<1>1. DOMAIN NoLines = {"th", "sa"} /\ NoLines.th = NoLine /\ NoLines.sa = NoLine
  BY DEF NoLines
<1>2. 0 \in 0..Full BY FirmwareAssumption
<1>3. [dir |-> "brake", pwm |-> 0] \in [dir : {"brake", "forward", "reverse"}, pwm : 0..Full]
  BY <1>2
<1> QED BY <1>1, <1>3, FirmwareAssumption, LoopBounds DEF Ages

LEMMA TypeInit == Init => TypeOK
BY ResetValues DEF Init, TypeOK

LEMMA TypeReset == BoardReset => TypeOK'
BY ResetValues DEF BoardReset, TypeOK

LEMMA TypeReceive ==
  ASSUME TypeOK, NEW c, c.th \in Int \cup {NoLine}, c.sa \in Int \cup {NoLine}, Receive(c)
  PROVE  TypeOK'
BY DEF Receive, TypeOK, loopVars, rcVars, driveVars

LEMMA TypeInterrupts == TypeOK /\ Interrupts => TypeOK'
<1> SUFFICES ASSUME TypeOK, Interrupts PROVE TypeOK' OBVIOUS
<1>1. ASSUME NEW a \in Sticks, AccelPulseInt(a) PROVE TypeOK'
  BY <1>1, FirmwareAssumption DEF AccelPulseInt, TypeOK, Ages, loopVars, cmdVars, driveVars
<1>2. CASE AutoPulseInt
  BY <1>2, LoopBounds DEF AutoPulseInt, TypeOK, loopVars, cmdVars, driveVars
<1>3. CASE ManualPulseInt
  BY <1>3, LoopBounds DEF ManualPulseInt, TypeOK, loopVars, cmdVars, driveVars
<1> QED BY <1>1, <1>2, <1>3 DEF Interrupts

LEMMA TypeTop == TypeOK /\ LoopTop => TypeOK'
<1> SUFFICES ASSUME TypeOK, LoopTop PROVE TypeOK' OBVIOUS
<1>1. throttle_cmd' \in -Full..Full /\ throttleFresh' \in BOOLEAN /\ thAge' \in Ages
  <2>1. CASE rx.th = NoLine BY <2>1 DEF LoopTop, ParseSerial, TypeOK
  <2>2. CASE rx.th # NoLine
    BY <2>2, ConstrainRange, FirmwareAssumption DEF LoopTop, ParseSerial, TypeOK, Ages
  <2> QED BY <2>1, <2>2
<1>2. steer_auto_deg' \in -SteerLimit..SteerLimit /\ steerFresh' \in BOOLEAN /\ saAge' \in Ages
  <2>1. CASE rx.sa = NoLine BY <2>1 DEF LoopTop, ParseSerial, TypeOK
  <2>2. CASE rx.sa # NoLine
    BY <2>2, ConstrainRange, FirmwareAssumption DEF LoopTop, ParseSerial, TypeOK, Ages
  <2> QED BY <2>1, <2>2
<1>3. DOMAIN rx' = {"th", "sa"} /\ rx'.th = NoLine /\ rx'.sa = NoLine
  BY DEF LoopTop, ParseSerial, NoLines
<1>4. pc' \in {"boot", "top", "control"} /\ prevT' \in 0..LoopMax /\ lag' \in 0..LoopSlack
  BY FirmwareAssumption, LoopBounds DEF LoopTop, TypeOK
<1> QED BY <1>1, <1>2, <1>3, <1>4 DEF LoopTop, TypeOK, rcVars, driveVars

LEMMA TypeControl == TypeOK /\ LoopControl => TypeOK'
<1> SUFFICES ASSUME TypeOK, LoopControl PROVE TypeOK' OBVIOUS
<1> DEFINE DriveOK == /\ motor' \in [dir : {"brake", "forward", "reverse"}, pwm : 0..Full]
                      /\ last_dir_sign' \in {-1, 0, 1} /\ deadtime' \in BOOLEAN
                      /\ steerFrom' \in {"centering", "off", "rc", "sa"}
<1>1. CASE StopMotor /\ steerFrom' = "off"
  <2> DriveOK BY <1>1, ResetValues DEF StopMotor, TypeOK
  <2> QED BY ModeRange, FirmwareAssumption DEF LoopControl, TypeOK, cmdVars, rcVars
<1>2. CASE DriveManually /\ steerFrom' = "rc"
  <2>1. AccelInput \in {-1, 0, 1} BY DEF AccelInput, TypeOK
  <2>2. Full * Magnitude(AccelInput) \in 0..Full BY <2>1, ManualPwm
  <2> DriveOK BY <1>2, <2>2 DEF DriveManually, TypeOK
  <2> QED BY ModeRange, FirmwareAssumption DEF LoopControl, TypeOK, cmdVars, rcVars
<1>3. ASSUME NEW cmd \in -Full..Full, driveWithDeadtime(cmd), steerFrom' \in {"sa", "rc"}
      PROVE  TypeOK'
  <2>1. Magnitude(cmd) \in 0..Full /\ Sign(cmd) \in {-1, 0, 1}
    BY FirmwareAssumption DEF Magnitude, Sign
  <2> DriveOK BY <1>3, <2>1, FirmwareAssumption DEF driveWithDeadtime, TypeOK
  <2> QED BY ModeRange, FirmwareAssumption DEF LoopControl, TypeOK, cmdVars, rcVars
<1>4. (IF th_ok THEN throttle_cmd ELSE 0) \in -Full..Full
  BY FirmwareAssumption DEF TypeOK
<1> QED BY <1>1, <1>2, <1>3, <1>4 DEF LoopControl

LEMMA TypeTick == TypeOK /\ LoopInv /\ Tick => TypeOK'
<1> SUFFICES ASSUME TypeOK, LoopInv, Tick PROVE TypeOK' OBVIOUS
<1>1. thAge' \in Ages /\ saAge' \in Ages /\ accelAge' \in Ages
  BY OlderAges DEF Tick, TypeOK
<1>2. switchAge' \in 0..(LoopGap + 1) BY LoopBounds DEF Tick, TypeOK
<1>3. boot' \in 0..BootTime
  <2>1. CASE pc = "boot" BY <2>1, FirmwareAssumption DEF Tick, TypeOK
  <2>2. CASE pc # "boot" BY <2>2, FirmwareAssumption DEF Tick, TypeOK
  <2> QED BY <2>1, <2>2
<1>4. lag' \in 0..LoopSlack
  <2>1. CASE pc = "control" BY <2>1, FirmwareAssumption DEF Tick, TypeOK
  <2>2. CASE pc # "control" BY <2>2, FirmwareAssumption DEF Tick, TypeOK
  <2> QED BY <2>1, <2>2
<1>5. prevT' \in 0..LoopMax
  BY FirmwareAssumption, LoopBounds DEF Tick, TypeOK, LoopInv, LoopMax
<1> QED BY <1>1, <1>2, <1>3, <1>4, <1>5 DEF Tick, TypeOK, driveVars

LEMMA TypeNext == TypeOK /\ LoopInv /\ [Next]_vars => TypeOK'
<1> SUFFICES ASSUME TypeOK, LoopInv, [Next]_vars PROVE TypeOK' OBVIOUS
<1>1. CASE SetupDone
  BY <1>1, FirmwareAssumption, LoopBounds DEF SetupDone, TypeOK, cmdVars, driveVars
<1>2. CASE UNCHANGED vars
  BY <1>2 DEF vars, loopVars, cmdVars, rcVars, driveVars, TypeOK
<1>3. ASSUME NEW c \in Commands, Receive(c) PROVE TypeOK'
  BY <1>3, TypeReceive, FirmwareAssumption
<1> QED BY <1>1, <1>2, <1>3, TypeReset, TypeInterrupts, TypeTop, TypeControl, TypeTick
        DEF Next
-----------------------------------------------------------------------------
(* The pass, the switches and the direction.                               *)

\* What leaves the loop and the drive alone: bytes from the host and pulses of the stick.
Aside == UNCHANGED <<loopVars, autoHigh, manualHigh, switchAge, driveVars>>

LEMMA AsideInv ==
  ASSUME Aside
  PROVE  (LoopInv => LoopInv') /\ (SwitchInv => SwitchInv') /\ (SignInv => SignInv')
BY DEF Aside, loopVars, driveVars, LoopInv, SwitchInv, SignInv, Since, Mode

LEMMA ReceiveAside == ASSUME NEW c, Receive(c) PROVE Aside
BY DEF Receive, Aside, rcVars

LEMMA AccelAside == ASSUME NEW a, AccelPulseInt(a) PROVE Aside
BY DEF AccelPulseInt, Aside

LEMMA LoopInvNext == TypeOK /\ LoopInv /\ [Next]_vars => LoopInv'
<1> SUFFICES ASSUME TypeOK, LoopInv, [Next]_vars PROVE LoopInv' OBVIOUS
<1>1. CASE AutoPulseInt \/ ManualPulseInt
  BY <1>1 DEF AutoPulseInt, ManualPulseInt, LoopInv, loopVars, driveVars
<1>2. CASE SetupDone BY <1>2 DEF SetupDone, LoopInv
<1>3. CASE LoopTop BY <1>3 DEF LoopTop, LoopInv, driveVars
<1>4. CASE LoopControl BY <1>4 DEF LoopControl, LoopInv
<1>5. CASE BoardReset BY <1>5 DEF BoardReset, LoopInv
<1>6. CASE Tick BY <1>6 DEF Tick, LoopInv, TypeOK, driveVars
<1>7. CASE UNCHANGED vars BY <1>7 DEF vars, loopVars, driveVars, LoopInv
<1> QED BY <1>1, <1>2, <1>3, <1>4, <1>5, <1>6, <1>7, AsideInv, ReceiveAside, AccelAside
        DEF Next, Interrupts

LEMMA SwitchInvNext == TypeOK /\ LoopInv /\ SwitchInv /\ [Next]_vars => SwitchInv'
<1> SUFFICES ASSUME TypeOK, LoopInv, SwitchInv, [Next]_vars PROVE SwitchInv' OBVIOUS
<1>0. Since \in Nat /\ Since <= LoopGap
  BY FirmwareAssumption, LoopBounds DEF Since, TypeOK
<1>1. CASE AutoPulseInt \/ ManualPulseInt
  <2> switchAge' = 0 /\ Since' = Since
    BY <1>1 DEF AutoPulseInt, ManualPulseInt, Since, loopVars
  <2> QED BY <1>0 DEF SwitchInv
<1>2. CASE SetupDone
  <2> switchAge' = 0 /\ Since' \in Nat
    BY <1>2, LoopBounds DEF SetupDone, Since, TypeOK
  <2> QED BY DEF SwitchInv
<1>3. CASE LoopTop
  <2>1. Since' \in Nat /\ Since <= Since'
    BY <1>3, FirmwareAssumption, LoopBounds DEF LoopTop, Since, TypeOK
  <2>2. UNCHANGED <<autoHigh, manualHigh, switchAge, mode, motor>> /\ switchAge \in Nat
    BY <1>3, LoopBounds DEF LoopTop, rcVars, driveVars, TypeOK
  <2>3. pc # "boot" BY <1>3 DEF LoopTop
  <2> QED BY <1>0, <2>1, <2>2, <2>3 DEF SwitchInv, Mode
<1>4. CASE LoopControl
  <2>1. mode' = Mode /\ Mode' = Mode BY <1>4 DEF LoopControl, Mode, rcVars
  <2>2. Mode = BREAK_MODE => motor'.pwm = 0
    BY <1>4, ModesDiffer DEF LoopControl, StopMotor
  <2> QED BY <2>1, <2>2 DEF SwitchInv
<1>5. CASE BoardReset BY <1>5 DEF BoardReset, SwitchInv
<1>6. CASE Tick
  <2>1. UNCHANGED <<pc, autoHigh, manualHigh, mode, motor>> BY <1>6 DEF Tick, driveVars
  <2>2. pc # "boot" => Since' = Since + 1
    BY <1>6, FirmwareAssumption, LoopBounds DEF Tick, Since, TypeOK
  <2>3. pc # "boot" /\ switchAge' > Since' => switchAge > Since
    BY <1>0, <1>6, <2>2, LoopBounds DEF Tick, TypeOK
  <2> QED BY <2>1, <2>3 DEF SwitchInv, Mode
<1>7. CASE UNCHANGED vars
  BY <1>7 DEF vars, loopVars, rcVars, driveVars, SwitchInv, Since, Mode
<1> QED BY <1>1, <1>2, <1>3, <1>4, <1>5, <1>6, <1>7, AsideInv, ReceiveAside, AccelAside
        DEF Next, Interrupts

\* driveWithDeadtime() leaves the sign of what it drives, and pauses when that changes.
LEMMA DriveSign ==
  ASSUME TypeOK, NEW cmd \in -Full..Full, driveWithDeadtime(cmd), motor'.pwm > 0
  PROVE  /\ \/ motor'.dir = "forward" /\ last_dir_sign' = 1
            \/ motor'.dir = "reverse" /\ last_dir_sign' = -1
         /\ deadtime' = (last_dir_sign # 0 /\ last_dir_sign' # last_dir_sign)
<1>1. cmd \in Int BY FirmwareAssumption
<1>2. Magnitude(cmd) >= 1
  <2> SUFFICES ASSUME Magnitude(cmd) < 1 PROVE FALSE BY <1>1 DEF Magnitude
  <2> motor' = [motor EXCEPT !.pwm = 0] BY DEF driveWithDeadtime
  <2> motor \in [dir : {"brake", "forward", "reverse"}, pwm : 0..Full] BY DEF TypeOK
  <2> motor'.pwm = 0 OBVIOUS
  <2> QED OBVIOUS
<1>3. /\ motor' = [dir |-> IF cmd > 0 THEN "forward" ELSE "reverse", pwm |-> Magnitude(cmd)]
      /\ last_dir_sign' = Sign(cmd)
      /\ deadtime' = (last_dir_sign # 0 /\ Sign(cmd) # last_dir_sign)
  BY <1>1, <1>2 DEF driveWithDeadtime, Magnitude
<1>4. motor'.dir = IF cmd > 0 THEN "forward" ELSE "reverse" BY <1>3
<1>5. cmd # 0 BY <1>2 DEF Magnitude
<1>6. (cmd > 0 => Sign(cmd) = 1) /\ (~(cmd > 0) => Sign(cmd) = -1) BY <1>1, <1>5 DEF Sign
<1> QED BY <1>3, <1>4, <1>6

LEMMA ThrottleRange == TypeOK => (IF th_ok THEN throttle_cmd ELSE 0) \in -Full..Full
BY FirmwareAssumption DEF TypeOK

LEMMA SignInvNext == TypeOK /\ SignInv /\ [Next]_vars => SignInv'
<1> SUFFICES ASSUME TypeOK, SignInv, [Next]_vars PROVE SignInv' OBVIOUS
<1>1. CASE UNCHANGED driveVars BY <1>1 DEF driveVars, SignInv
<1>2. CASE LoopControl
  <2> SUFFICES ASSUME mode' = AUTO_MODE, motor'.pwm > 0
               PROVE  \/ motor'.dir = "forward" /\ last_dir_sign' = 1
                      \/ motor'.dir = "reverse" /\ last_dir_sign' = -1
    BY DEF SignInv
  <2>1. driveWithDeadtime(IF th_ok THEN throttle_cmd ELSE 0)
    BY <1>2, ModesDiffer DEF LoopControl
  <2> QED BY <2>1, ThrottleRange, DriveSign
<1>3. CASE BoardReset BY <1>3, ModesDiffer DEF BoardReset, SignInv
<1>4. CASE Tick BY <1>1, <1>4 DEF Tick
<1>5. CASE Next /\ ~LoopControl /\ ~BoardReset /\ ~Tick
  <2> UNCHANGED driveVars
    BY <1>5 DEF Next, Receive, Interrupts, AccelPulseInt, AutoPulseInt, ManualPulseInt,
                SetupDone, LoopTop
  <2> QED BY <1>1
<1>6. CASE UNCHANGED vars BY <1>1, <1>6 DEF vars
<1> QED BY <1>2, <1>3, <1>4, <1>5, <1>6

LEMMA Invariance == Spec => []IInv
<1>1. Init => IInv
  <2> SUFFICES ASSUME Init PROVE IInv OBVIOUS
  <2>1. LoopInv /\ SwitchInv /\ SignInv
    BY ModesDiffer DEF Init, LoopInv, SwitchInv, SignInv
  <2> QED BY <2>1, TypeInit DEF IInv
<1>2. IInv /\ [Next]_vars => IInv'
  BY TypeNext, LoopInvNext, SwitchInvNext, SignInvNext DEF IInv
<1> QED BY <1>1, <1>2, PTL DEF Spec

\* Every reachable state is well typed: what the host sends is clamped before it is kept.
THEOREM TypeCorrect == Spec => []TypeOK
BY Invariance, PTL DEF IInv

\* The mode switches are obeyed within one pass, whatever the loop's delay and jitter.
THEOREM Switches == Spec => []SwitchesWin
<1>1. IInv => SwitchesWin
  <2> SUFFICES ASSUME IInv, pc # "boot", switchAge > LoopGap
               PROVE  (~autoHigh /\ ~manualHigh => motor.pwm = 0) /\ (autoHigh => mode = AUTO_MODE)
    BY DEF SwitchesWin
  <2>1. Since \in Nat /\ Since <= LoopGap /\ switchAge \in Nat
    BY FirmwareAssumption, LoopBounds DEF Since, IInv, TypeOK
  <2>2. mode = Mode /\ (mode = BREAK_MODE => motor.pwm = 0)
    BY <2>1, LoopBounds DEF IInv, SwitchInv
  <2> QED BY <2>2 DEF Mode, IInv, TypeOK
<1> QED BY <1>1, Invariance, PTL

\* While auto mode lasts, every reversal of the motors pauses.
THEOREM Reversals == Spec => AutoReversalPauses
<1> DEFINE Pauses == mode = AUTO_MODE /\ mode' = AUTO_MODE /\ motor.pwm > 0 /\ motor'.pwm > 0
                       /\ motor'.dir # motor.dir => deadtime'
<1>1. IInv /\ [Next]_vars => [Pauses]_vars
  <2> SUFFICES ASSUME IInv, Next, mode = AUTO_MODE, mode' = AUTO_MODE, motor.pwm > 0,
                      motor'.pwm > 0, motor'.dir # motor.dir
               PROVE  deadtime'
    OBVIOUS
  <2>1. LoopControl
    BY ModesDiffer
    DEF Next, Receive, Interrupts, AccelPulseInt, AutoPulseInt, ManualPulseInt, SetupDone,
        LoopTop, BoardReset, Tick, driveVars
  <2>2. driveWithDeadtime(IF th_ok THEN throttle_cmd ELSE 0)
    BY <2>1, ModesDiffer DEF LoopControl
  <2> DEFINE cmd == IF th_ok THEN throttle_cmd ELSE 0
  <2>3. cmd \in -Full..Full BY ThrottleRange DEF IInv
  <2> HIDE DEF cmd
  <2>4. /\ \/ motor'.dir = "forward" /\ last_dir_sign' = 1
           \/ motor'.dir = "reverse" /\ last_dir_sign' = -1
        /\ deadtime' = (last_dir_sign # 0 /\ last_dir_sign' # last_dir_sign)
    BY <2>2, <2>3, DriveSign DEF IInv, cmd
  <2>5. \/ motor.dir = "forward" /\ last_dir_sign = 1
        \/ motor.dir = "reverse" /\ last_dir_sign = -1
    BY DEF IInv, SignInv
  <2>6. last_dir_sign # 0 /\ last_dir_sign' # last_dir_sign BY <2>4, <2>5
  <2> QED BY <2>4, <2>6, Zenon
<1> QED BY <1>1, Invariance, PTL DEF Spec, AutoReversalPauses
-----------------------------------------------------------------------------
(* The timeouts.                                                           *)

LEMMA ModSmall ==
  ASSUME NEW W \in Nat \ {0}, NEW x \in Nat, x < W
  PROVE  x % W = x
OBVIOUS

\* Below the wrap, what counts as fresh is not older than its timeout.
LEMMA InTimeMeans ==
  ASSUME MaxAge < ClockWrap, NEW a \in Ages, NEW timeout \in Nat, InTime(a, timeout)
  PROVE  a <= timeout
<1>1. a \in Nat /\ a < ClockWrap BY FirmwareAssumption DEF Ages
<1>2. a % ClockWrap = a BY <1>1, ModSmall, FirmwareAssumption
<1> QED BY <1>2 DEF InTime

\* A pass that follows the receiver's stick saw a pulse that was not too old when t_us was taken.
LEMMA AccelInTime ==
  ASSUME MaxAge < ClockWrap, TypeOK, AccelInput # 0
  PROVE  accelAge <= AccelTimeout + lag
<1>1. InTime(accelAge - lag, AccelTimeout) BY DEF AccelInput
<1>2. accelAge \in 0..MaxAge /\ lag \in Nat /\ MaxAge \in Nat /\ AccelTimeout \in Nat
  BY FirmwareAssumption DEF TypeOK, Ages
<1>3. CASE accelAge < lag BY <1>2, <1>3
<1>4. CASE lag <= accelAge
  <2>1. accelAge - lag \in Ages BY <1>2, <1>4 DEF Ages
  <2> QED BY <1>1, <1>2, <2>1, InTimeMeans
<1> QED BY <1>2, <1>3, <1>4

LEMMA FreshInvNext ==
  ASSUME MaxAge < ClockWrap
  PROVE  IInv /\ FreshInv /\ [Next]_vars => FreshInv'
<1> SUFFICES ASSUME IInv, FreshInv, [Next]_vars PROVE FreshInv' OBVIOUS
<1> USE DEF IInv
<1>0. /\ Since \in Nat /\ CommandTimeout \in Nat /\ AccelTimeout \in Nat
      /\ thAge \in Nat /\ saAge \in Nat /\ accelAge \in Nat
  BY FirmwareAssumption, LoopBounds DEF Since, TypeOK, Ages
<1>1. ASSUME UNCHANGED <<loopVars, driveVars, throttleFresh, thAge, steerFresh, saAge>>,
             accelAge' \in {0, accelAge}
      PROVE  FreshInv'
  BY <1>0, <1>1 DEF FreshInv, Since, loopVars, driveVars
<1>2. ASSUME NEW c, Receive(c) PROVE FreshInv'
  BY <1>1, <1>2 DEF Receive, rcVars
<1>3. CASE Interrupts
  BY <1>1, <1>3 DEF Interrupts, AccelPulseInt, AutoPulseInt, ManualPulseInt, cmdVars
<1>4. CASE SetupDone
  BY <1>4, ModesDiffer DEF SetupDone, driveVars, LoopInv, FreshInv
<1>5. CASE LoopTop
  <2>1. Since' \in Nat /\ Since <= Since'
    BY <1>5, FirmwareAssumption, LoopBounds DEF LoopTop, Since, TypeOK
  <2>2. (throttleFresh => throttleFresh') /\ thAge' \in {0, thAge}
    BY <1>5 DEF LoopTop, ParseSerial
  <2>3. (steerFresh => steerFresh') /\ saAge' \in {0, saAge}
    BY <1>5 DEF LoopTop, ParseSerial
  <2>4. UNCHANGED <<mode, motor, steerFrom, accelAge>> BY <1>5 DEF LoopTop, rcVars, driveVars
  <2>5. /\ mode = AUTO_MODE /\ motor.pwm > 0 => throttleFresh'
        /\ mode = AUTO_MODE /\ steerFrom = "sa" => steerFresh'
    BY <2>2, <2>3 DEF FreshInv
  <2> DEFINE before == Since
             after  == Since'
  <2>6. before \in Nat /\ after \in Nat /\ before <= after BY <1>0, <2>1
  <2>7. /\ mode = AUTO_MODE /\ motor.pwm > 0 => thAge <= CommandTimeout + before
        /\ mode = AUTO_MODE /\ steerFrom = "sa" => saAge <= CommandTimeout + before
        /\ mode = MANUAL_MODE /\ motor.pwm > 0 => accelAge <= AccelTimeout + before
    BY DEF FreshInv
  <2> HIDE DEF before, after
  <2>8. /\ mode = AUTO_MODE /\ motor.pwm > 0 => thAge' <= CommandTimeout + after
        /\ mode = AUTO_MODE /\ steerFrom = "sa" => saAge' <= CommandTimeout + after
        /\ mode = MANUAL_MODE /\ motor.pwm > 0 => accelAge' <= AccelTimeout + after
    BY <1>0, <2>2, <2>3, <2>4, <2>6, <2>7
  <2> QED BY <2>4, <2>5, <2>8 DEF FreshInv, after
<1>6. CASE LoopControl
  <2>1. Since' = lag /\ lag \in Nat
    BY <1>6, FirmwareAssumption DEF LoopControl, Since, LoopInv, TypeOK
  <2>2. UNCHANGED <<throttleFresh, thAge, steerFresh, saAge, accelAge>>
    BY <1>6 DEF LoopControl, cmdVars, rcVars
  <2>3. ASSUME mode' = AUTO_MODE, motor'.pwm > 0
        PROVE  throttleFresh /\ thAge <= CommandTimeout
    <3>1. driveWithDeadtime(IF th_ok THEN throttle_cmd ELSE 0)
      BY <1>6, <2>3, ModesDiffer DEF LoopControl
    <3>2. SUFFICES ASSUME ~th_ok PROVE FALSE
      BY <1>0, InTimeMeans DEF th_ok, TypeOK
    <3>3. driveWithDeadtime(0) BY <3>1, <3>2
    <3>4. motor' = [motor EXCEPT !.pwm = 0] BY <3>3 DEF driveWithDeadtime, Magnitude
    <3>5. motor'.pwm = 0 BY <3>4 DEF TypeOK
    <3> QED BY <2>3, <3>5
  <2>4. ASSUME mode' = AUTO_MODE, steerFrom' = "sa"
        PROVE  steerFresh /\ saAge <= CommandTimeout
    <3>1. sa_ok BY <1>6, <2>4, ModesDiffer DEF LoopControl
    <3> QED BY <1>0, <3>1, InTimeMeans DEF sa_ok, TypeOK
  <2>5. ASSUME mode' = MANUAL_MODE, motor'.pwm > 0
        PROVE  accelAge <= AccelTimeout + lag
    <3>1. DriveManually BY <1>6, <2>5, ModesDiffer DEF LoopControl
    <3>2. motor'.pwm = Full * Magnitude(AccelInput) BY <3>1 DEF DriveManually
    <3>3. AccelInput # 0
      <4> SUFFICES ASSUME AccelInput = 0 PROVE FALSE OBVIOUS
      <4> Magnitude(AccelInput) = 0 BY DEF Magnitude
      <4> QED BY <2>5, <3>2, FirmwareAssumption
    <3> QED BY <3>3, AccelInTime
  <2> QED BY <1>0, <2>1, <2>2, <2>3, <2>4, <2>5 DEF FreshInv
<1>7. CASE BoardReset
  BY <1>7, ModesDiffer DEF BoardReset, FreshInv
<1>8. CASE Tick
  <2>1. UNCHANGED <<pc, mode, motor, steerFrom, throttleFresh, steerFresh>>
    BY <1>8 DEF Tick, driveVars
  <2>2. CASE pc = "boot" BY <2>1, <2>2, ModesDiffer DEF LoopInv, FreshInv
  <2>3. CASE pc # "boot"
    <3>1. Since' = Since + 1
      BY <1>8, <2>3, FirmwareAssumption, LoopBounds DEF Tick, Since, TypeOK
    <3>2. thAge' <= thAge + 1 /\ saAge' <= saAge + 1 /\ accelAge' <= accelAge + 1
          /\ thAge' \in Nat /\ saAge' \in Nat /\ accelAge' \in Nat
      BY <1>8, FirmwareAssumption DEF Tick, Older, TypeOK, Ages
    <3> QED BY <1>0, <2>1, <3>1, <3>2 DEF FreshInv
  <2> QED BY <2>2, <2>3
<1>9. CASE UNCHANGED vars BY <1>1, <1>9 DEF vars, cmdVars, rcVars
<1> QED BY <1>2, <1>3, <1>4, <1>5, <1>6, <1>7, <1>8, <1>9 DEF Next

\* Nothing drives on an input that has fallen silent, for all timeouts and all jitter of the
\* loop, as long as the clocks do not wrap within the ages told apart.
THEOREM Timeouts == ASSUME MaxAge < ClockWrap PROVE Spec => []InputsTimeOut
<1>1. Init => FreshInv BY ModesDiffer DEF Init, FreshInv
<1>2. IInv /\ IInv' /\ FreshInv /\ [Next]_vars => FreshInv' BY FreshInvNext
<1>3. IInv /\ FreshInv => InputsTimeOut
  <2> SUFFICES ASSUME IInv, FreshInv PROVE InputsTimeOut OBVIOUS
  <2>1. /\ Since \in Nat /\ Since <= LoopGap /\ LoopGap \in Nat
        /\ CommandTimeout \in Nat /\ AccelTimeout \in Nat
        /\ thAge \in Nat /\ saAge \in Nat /\ accelAge \in Nat
    BY FirmwareAssumption, LoopBounds DEF Since, IInv, TypeOK, Ages
  <2> QED BY <2>1 DEF FreshInv, InputsTimeOut
<1> QED BY <1>1, <1>2, <1>3, Invariance, PTL DEF Spec

(***************************************************************************)
(* The end-to-end bounds of CommandChain.                                  *)
(***************************************************************************)

\* The longest a line may have to wait for the board before it is parsed, apart from
\* the jitter of the loop.
Wait == IF BootTime > LoopDelay THEN BootTime ELSE LoopDelay

ChainType ==
  /\ TypeOK /\ LoopInv /\ DM!DeadManInv
  /\ frag \in 0..Full \cup {NoLine}
  /\ rxAge \in Nat /\ srcAge \in Nat /\ pwmAge \in Nat /\ steady \in Nat
  /\ pc = "boot" => prevT = LoopDelay

\* How old the message behind a line that is not parsed yet may be.
RxInv ==
  rx.th # NoLine =>
    /\ pc = "boot" => rxAge + boot <= Fresh + BootTime
    /\ pc = "top" => rxAge + LoopDelay <= Fresh + Wait + prevT
    /\ pc = "control" => rxAge <= Fresh + lag

\* What the board keeps is older than its parsing by no more than that.
SrcInv ==
  throttleFresh /\ thAge < MaxAge => srcAge <= Fresh + ParseWait + thAge

\* What drives was in time in the last pass.
PwmInv ==
  mode = AUTO_MODE /\ motor.pwm > 0 =>
    pwmAge <= Fresh + ParseWait + CommandTimeout + Since

\* Over a link that stays up, a command is the newest, has been replaced only just, or
\* was there before.
LinkInv ==
  /\ steady > 0 => link /\ pc # "boot" /\ frag = NoLine
  /\ rx.th # NoLine /\ rxAge < steady => rx.th = 0 \/ (drive /\ rxAge <= age)
  /\ throttle_cmd # 0 /\ srcAge < steady =>
       IF rx.th = NoLine THEN drive /\ srcAge <= age ELSE srcAge <= Bound + prevT
  /\ mode = AUTO_MODE /\ motor.pwm > 0 /\ pwmAge < steady => pwmAge <= Bound + Since

ChainInv == ChainType /\ RxInv /\ SrcInv /\ PwmInv /\ LinkInv
-----------------------------------------------------------------------------
LEMMA ChainBounds ==
  /\ Fresh \in Nat /\ Bound \in Nat /\ Fresh <= Bound /\ Wait \in Nat /\ LoopDelay <= Wait
  /\ BootTime <= Wait /\ ParseWait = Wait + LoopSlack /\ ParseWait \in Nat
  /\ CommandTimeout \in Nat /\ CommandTimeout < MaxAge /\ MaxAge \in Nat
  /\ LoopDelay \in Nat /\ LoopSlack \in Nat /\ BootTime \in Nat /\ EndBound \in Nat
  /\ EndBound = Fresh + ParseWait + CommandTimeout + LoopGap
  /\ LoopMax = LoopDelay + LoopSlack
BY FirmwareAssumption, ChainAssumption, LoopBounds DEF Wait, ParseWait, EndBound, LoopMax

\* An age that is not told apart above EndBound.
LEMMA SourceOlderSteps ==
  ASSUME NEW a \in Nat
  PROVE  /\ SourceOlder(a) \in Nat /\ SourceOlder(a) <= a + 1
         /\ a <= EndBound => SourceOlder(a) = a + 1
         /\ a > EndBound => SourceOlder(a) = a
BY ChainBounds DEF SourceOlder

LEMMA SinceRange == TypeOK => Since \in Nat /\ Since <= LoopGap
BY FirmwareAssumption, LoopBounds DEF Since, TypeOK

\* What the host may leave at the board: a throttle line, or none.
Sent == 0..Full \cup {NoLine}

LEMMA SentRange ==
  /\ Full \in Int /\ Full > 0 /\ Sent \subseteq Int \cup {NoLine}
  /\ {0, Full, NoLine} \subseteq Sent /\ NoLine \notin {0, Full}
BY FirmwareAssumption, ChainAssumption DEF Sent

\* Types and the loop, by what the board does in a step.
LEMMA BoardType ==
  ASSUME TypeOK, LoopInv,
         [Next]_vars \/ \E th \in Sent : Receive([th |-> th, sa |-> NoLine])
  PROVE  TypeOK' /\ LoopInv'
<1>1. CASE [Next]_vars
  BY <1>1, TypeNext, LoopInvNext
<1>2. ASSUME NEW th \in Sent, Receive([th |-> th, sa |-> NoLine]) PROVE TypeOK' /\ LoopInv'
  <2> DEFINE c == [th |-> th, sa |-> NoLine]
  <2>1. c.th \in Int \cup {NoLine} /\ c.sa \in Int \cup {NoLine} /\ Receive(c)
    BY <1>2, SentRange
  <2> HIDE DEF c
  <2> QED
    BY <2>1, TypeReceive, ReceiveAside, AsideInv
<1> QED
  BY <1>1, <1>2

\* What the board does in a step of the chain.
LEMMA ChainBoard ==
  ASSUME frag \in Sent, [ChainNext]_chainVars
  PROVE  [Next]_vars \/ \E th \in Sent : Receive([th |-> th, sa |-> NoLine])
<1>1. CASE HostDrives \/ HostStops \/ HostLoses
  BY <1>1, SentRange DEF HostDrives, HostStops, HostLoses, WholePair, PairCut, CutLineCompleted, Line
<1>2. CASE ~(HostDrives \/ HostStops \/ HostLoses)
  BY <1>2 DEF ChainNext, HostConnects, BoardParses, BoardDrives, BoardInterrupted, TimePasses,
     chainVars, Next
<1> QED
  BY <1>1, <1>2

LEMMA HostInv ==
  ASSUME DM!DeadManInv, [DM!Next]_hostVars
  PROVE  DM!DeadManInv'
<1> USE DEF DM!DeadManInv
<1>0. 0 \in 0..Bound
  BY ChainBounds
<1>1. CASE DM!Connect \/ DM!Lose \/ DM!PutStop
  <2>1. CASE DM!Connect
    BY <2>1 DEF DM!Connect
  <2>2. CASE DM!Lose
    BY <1>0, <2>2 DEF DM!Lose
  <2>3. CASE DM!PutStop
    BY <1>0, <2>3 DEF DM!PutStop
  <2> QED
    BY <1>1, <2>1, <2>2, <2>3
<1>2. CASE DM!PutDrive
  BY <1>2, ChainBounds DEF DM!PutDrive
<1>3. CASE DM!Pass
  BY <1>3, ChainBounds DEF DM!Pass
<1>4. CASE UNCHANGED hostVars
  BY <1>4 DEF hostVars
<1> QED
  BY <1>1, <1>2, <1>3, <1>4 DEF DM!Next

LEMMA ChainHost ==
  ASSUME [ChainNext]_chainVars
  PROVE  [DM!Next]_hostVars
BY DEF ChainNext, HostDrives, HostStops, HostConnects, HostLoses, BoardParses, BoardDrives,
   BoardInterrupted, TimePasses, chainVars, DM!Next

LEMMA ChainTypeNext == ChainType /\ [ChainNext]_chainVars => ChainType'
<1> SUFFICES ASSUME ChainType, [ChainNext]_chainVars PROVE ChainType'
  OBVIOUS
<1> USE DEF ChainType
<1>1. TypeOK' /\ LoopInv' /\ DM!DeadManInv'
  BY BoardType, ChainBoard, HostInv, ChainHost DEF Sent
<1>2. age \in Nat /\ age' \in Nat
  BY <1>1, ChainBounds DEF DM!DeadManInv
<1>3. rxAge' \in Nat /\ srcAge' \in Nat /\ pwmAge' \in Nat /\ steady' \in Nat
  <2>1. CASE HostDrives \/ HostStops \/ HostConnects \/ HostLoses
    BY <1>2, <2>1, ChainBounds DEF HostDrives, HostStops, HostConnects, HostLoses, WholePair,
       PairCut, CutLineCompleted, Line
  <2>2. CASE BoardParses \/ BoardDrives \/ BoardInterrupted
    BY <2>2 DEF BoardParses, BoardDrives, BoardInterrupted
  <2>3. CASE TimePasses
    BY <2>3, SourceOlderSteps DEF TimePasses
  <2>4. CASE UNCHANGED chainVars
    BY <2>4 DEF chainVars
  <2> QED
    BY <2>1, <2>2, <2>3, <2>4 DEF ChainNext
<1>4. pc' = "boot" => prevT' = LoopDelay
  <2>1. CASE HostDrives \/ HostStops \/ HostConnects \/ HostLoses
    BY <2>1 DEF HostDrives, HostStops, HostConnects, HostLoses, WholePair, PairCut,
       CutLineCompleted, Line, Receive, BoardReset, vars, loopVars
  <2>2. CASE BoardParses \/ BoardDrives \/ BoardInterrupted
    BY <2>2 DEF BoardParses, BoardDrives, BoardInterrupted, LoopTop, LoopControl, Interrupts,
       AccelPulseInt, AutoPulseInt, ManualPulseInt, SetupDone, loopVars
  <2>3. CASE TimePasses
    BY <2>3 DEF TimePasses, Tick
  <2>4. CASE UNCHANGED chainVars
    BY <2>4 DEF chainVars, vars, loopVars
  <2> QED
    BY <2>1, <2>2, <2>3, <2>4 DEF ChainNext
<1>5. frag' \in Sent
  <2>1. CASE HostDrives \/ HostStops \/ HostConnects \/ HostLoses
    BY <2>1, SentRange DEF HostDrives, HostStops, HostConnects, HostLoses, WholePair, PairCut, Sent
  <2>2. CASE ~(HostDrives \/ HostStops \/ HostConnects \/ HostLoses)
    BY <2>2 DEF ChainNext, BoardParses, BoardDrives, BoardInterrupted, TimePasses, chainVars, Sent
  <2> QED
    BY <2>1, <2>2
<1> QED
  BY <1>1, <1>3, <1>4, <1>5 DEF Sent
-----------------------------------------------------------------------------
\* Types at hand for the arithmetic of a step.
LEMMA ChainNat ==
  ASSUME ChainType
  PROVE  /\ rxAge \in Nat /\ srcAge \in Nat /\ pwmAge \in Nat /\ steady \in Nat /\ age \in Nat
         /\ thAge \in Nat /\ boot \in Nat /\ prevT \in Nat /\ prevT <= LoopMax
         /\ lag \in Nat /\ lag <= LoopSlack /\ Since \in Nat /\ Since <= LoopGap
         /\ boot <= BootTime /\ age <= Bound /\ thAge <= MaxAge
BY ChainBounds, SinceRange, LoopBounds DEF ChainType, TypeOK, Ages, DM!DeadManInv

\* What a tick does to the ages.
LEMMA ChainTick ==
  ASSUME ChainType, TimePasses
  PROVE  /\ rxAge' <= rxAge + 1 /\ srcAge' <= srcAge + 1 /\ pwmAge' <= pwmAge + 1
         /\ UNCHANGED <<pc, rx, throttle_cmd, throttleFresh, mode, motor>>
         /\ pc = "boot" => boot' + 1 = boot /\ prevT' = prevT
         /\ pc # "boot" => prevT' = prevT + 1 /\ Since' = Since + 1
         /\ pc = "control" => lag' = lag + 1
         /\ thAge' < MaxAge => thAge' = thAge + 1 /\ thAge < MaxAge
<1>1. Tick /\ TypeOK /\ LoopInv
  BY DEF TimePasses, ChainType
<1>2. rxAge' <= rxAge + 1 /\ srcAge' <= srcAge + 1 /\ pwmAge' <= pwmAge + 1
  BY SourceOlderSteps, ChainNat DEF TimePasses
<1>3. UNCHANGED <<pc, rx, throttle_cmd, throttleFresh, mode, motor>>
  BY <1>1 DEF Tick, driveVars
<1>4. pc = "boot" => boot' + 1 = boot /\ prevT' = prevT
  BY <1>1, ChainNat DEF Tick
<1>5. pc # "boot" => prevT' = prevT + 1
  BY <1>1 DEF Tick
<1>6. pc = "control" => lag' = lag + 1
  BY <1>1 DEF Tick
<1>7. pc # "boot" => Since' = Since + 1
  BY <1>3, <1>5, <1>6, ChainNat, ChainBounds DEF Since
<1>8. thAge' < MaxAge => thAge' = thAge + 1 /\ thAge < MaxAge
  BY <1>1, ChainNat, ChainBounds DEF Tick, Older
<1> QED
  BY <1>2, <1>3, <1>4, <1>5, <1>6, <1>7, <1>8

\* A line leaves all but rx alone.
LEMMA LineFrame ==
  ASSUME NEW th \in Sent, NEW a, Line(th, a)
  PROVE  /\ UNCHANGED <<pc, boot, prevT, lag, throttle_cmd, throttleFresh, thAge, mode, motor>>
         /\ th = NoLine => rx'.th = rx.th /\ rxAge' = rxAge
         /\ th # NoLine => rx'.th = th /\ rxAge' = a
BY DEF Line, Receive, loopVars, driveVars

\* What a write leaves at the board, broken or not: nothing new, or a throttle that
\* counts as fresh.
LEMMA HostLine ==
  ASSUME ChainType, HostDrives \/ HostStops \/ HostLoses
  PROVE  /\ UNCHANGED <<pc, boot, prevT, lag, throttle_cmd, throttleFresh, thAge, mode, motor,
                        srcAge, pwmAge>>
         /\ rxAge' \in 0..Fresh \/ (rx'.th = rx.th /\ rxAge' = rxAge)
<1>1. 0 \in 0..Fresh /\ frag \in Sent /\ 0 \in Sent /\ Full \in Sent
  BY ChainBounds, SentRange DEF ChainType, Sent
<1>2. UNCHANGED <<srcAge, pwmAge>>
  BY DEF HostDrives, HostStops, HostLoses
<1>3. CASE UNCHANGED <<vars, rxAge>>
  BY <1>2, <1>3 DEF vars, loopVars, cmdVars, driveVars
<1>4. CASE Line(frag, 0)
  BY <1>1, <1>2, <1>4, LineFrame
<1>5. ASSUME NEW th \in {0, Full}, NEW a \in 0..Fresh, Line(th, a)
      PROVE  /\ UNCHANGED <<pc, boot, prevT, lag, throttle_cmd, throttleFresh, thAge, mode, motor>>
             /\ rxAge' \in 0..Fresh
  BY <1>1, <1>5, LineFrame, SentRange
<1>6. CASE HostDrives
  <2>1. age' \in 0..Fresh
    BY <1>6 DEF HostDrives, DM!PutDrive
  <2> QED
    BY <1>2, <1>3, <1>4, <1>5, <1>6, <2>1 DEF HostDrives, WholePair, PairCut, CutLineCompleted
<1>7. CASE HostStops
  BY <1>1, <1>2, <1>3, <1>4, <1>5, <1>7 DEF HostStops, WholePair, PairCut, CutLineCompleted
<1>8. CASE HostLoses
  BY <1>1, <1>2, <1>3, <1>4, <1>5, <1>8 DEF HostLoses, WholePair, PairCut, CutLineCompleted
<1> QED
  BY <1>6, <1>7, <1>8

\* With the board running and no line cut, a write of a host whose link is up arrives whole.
LEMMA HostPair ==
  ASSUME ChainType, HostDrives \/ HostStops
  PROVE  /\ link /\ link' /\ steady' = steady
         /\ pc # "boot" /\ frag = NoLine =>
              /\ frag' = NoLine /\ rx'.th # NoLine /\ rxAge' \in 0..Fresh
              /\ rx'.th = 0 \/ (drive' /\ rxAge' = age')
<1>1. 0 \in 0..Fresh /\ 0 \in Sent /\ Full \in Sent /\ NoLine \notin {0, Full}
  BY ChainBounds, SentRange
<1>2. CASE HostDrives
  <2>1. age' \in 0..Fresh /\ drive' /\ link /\ link' /\ steady' = steady
    BY <1>2 DEF HostDrives, DM!PutDrive
  <2>2. pc # "boot" => Line(Full, age') /\ frag' = NoLine
    BY <1>2 DEF HostDrives, WholePair, Overflow
  <2> QED
    BY <1>1, <2>1, <2>2, LineFrame
<1>3. CASE HostStops
  <2>1. link /\ link' /\ steady' = steady
    BY <1>3 DEF HostStops, DM!PutStop
  <2>2. pc # "boot" /\ frag = NoLine => Line(0, 0) /\ frag' = NoLine
    BY <1>3 DEF HostStops, WholePair, Overflow
  <2> QED
    BY <1>1, <2>1, <2>2, LineFrame
<1> QED
  BY <1>2, <1>3

\* A connection leaves the board alone, or resets it.
LEMMA HostCable ==
  ASSUME HostConnects
  PROVE  \/ UNCHANGED <<vars, rxAge, srcAge, pwmAge>>
         \/ rx'.th = NoLine /\ throttleFresh' = FALSE /\ throttle_cmd' = 0
            /\ mode' # AUTO_MODE
BY ModesDiffer, ResetValues DEF HostConnects, BoardReset

\* Interrupts and the end of setup() leave the command path alone.
LEMMA InterruptedFrame ==
  ASSUME BoardInterrupted
  PROVE  /\ UNCHANGED <<prevT, lag, rx, throttle_cmd, throttleFresh, thAge, mode, motor,
                        hostVars, frag, rxAge, srcAge, pwmAge, steady>>
         /\ \/ UNCHANGED <<pc, boot>>
            \/ pc = "boot" /\ pc' = "top"
BY DEF BoardInterrupted, Interrupts, AccelPulseInt, AutoPulseInt, ManualPulseInt, SetupDone,
   loopVars, cmdVars, driveVars

LEMMA RxInvNext == ChainType /\ RxInv /\ [ChainNext]_chainVars => RxInv'
<1> SUFFICES ASSUME ChainType, RxInv, [ChainNext]_chainVars, rx'.th # NoLine
             PROVE  RxInv'
  BY DEF RxInv
<1> USE DEF RxInv
<1>1. CASE HostDrives \/ HostStops \/ HostLoses
  <2>1. CASE rxAge' \in 0..Fresh
    <3>1. UNCHANGED <<pc, boot, prevT, lag>>
      BY <1>1, HostLine
    <3> QED
      BY <2>1, <3>1, ChainNat, ChainBounds
  <2>2. CASE rx'.th = rx.th /\ rxAge' = rxAge
    BY <1>1, <2>2, HostLine
  <2> QED
    BY <1>1, <2>1, <2>2, HostLine
<1>2. CASE HostConnects
  BY <1>2, HostCable DEF vars, loopVars, cmdVars
<1>3. CASE BoardParses
  BY <1>3 DEF BoardParses, LoopTop, ParseSerial, NoLines
<1>4. CASE BoardDrives
  <2>1. /\ pc = "control" /\ pc' = "top" /\ UNCHANGED <<prevT, rx, rxAge>>
        /\ prevT = lag
    BY <1>4 DEF BoardDrives, LoopControl, cmdVars, ChainType, LoopInv
  <2> QED
    BY <2>1, ChainNat, ChainBounds
<1>5. CASE BoardInterrupted
  <2>1. CASE UNCHANGED <<pc, boot>>
    BY <1>5, <2>1, InterruptedFrame
  <2>2. CASE pc = "boot" /\ pc' = "top"
    <3>1. prevT' = LoopDelay /\ rxAge' = rxAge /\ rxAge + boot <= Fresh + BootTime
      BY <1>5, <2>2, InterruptedFrame DEF ChainType
    <3> QED
      BY <2>2, <3>1, ChainNat, ChainBounds
  <2> QED
    BY <1>5, <2>1, <2>2, InterruptedFrame
<1>6. CASE TimePasses
  <2>1. rxAge' <= rxAge + 1 /\ pc' = pc /\ rx' = rx
    BY <1>6, ChainTick
  <2>2. pc \in {"boot", "top", "control"} /\ rxAge' \in Nat
    BY ChainTypeNext DEF ChainType, TypeOK
  <2>3. CASE pc = "boot"
    <3>1. boot' + 1 = boot /\ rxAge + boot <= Fresh + BootTime
      BY <1>6, <2>1, <2>3, ChainTick
    <3>2. boot' \in Nat
      BY ChainTypeNext, ChainNat, ChainBounds DEF ChainType, TypeOK
    <3> DEFINE older == rxAge'   left == boot'
    <3>3. older <= rxAge + 1 /\ older \in Nat /\ left + 1 = boot /\ left \in Nat
      BY <2>1, <2>2, <3>1, <3>2
    <3> HIDE DEF older, left
    <3>4. older + left <= Fresh + BootTime
      BY <3>1, <3>3, ChainNat, ChainBounds
    <3> QED
      BY <2>1, <2>3, <3>4 DEF older, left
  <2>4. CASE pc = "top"
    BY <1>6, <2>1, <2>2, <2>4, ChainTick, ChainNat, ChainBounds
  <2>5. CASE pc = "control"
    BY <1>6, <2>1, <2>2, <2>5, ChainTick, ChainNat, ChainBounds
  <2> QED
    BY <2>2, <2>3, <2>4, <2>5
<1>7. CASE UNCHANGED chainVars
  BY <1>7 DEF chainVars, vars, loopVars, cmdVars
<1> QED
  BY <1>1, <1>2, <1>3, <1>4, <1>5, <1>6, <1>7 DEF ChainNext

LEMMA SrcInvNext == ChainType /\ RxInv /\ SrcInv /\ [ChainNext]_chainVars => SrcInv'
<1> SUFFICES ASSUME ChainType, RxInv, SrcInv, [ChainNext]_chainVars PROVE SrcInv'
  OBVIOUS
<1> USE DEF SrcInv
<1>1. CASE HostDrives \/ HostStops \/ HostLoses
  BY <1>1, HostLine
<1>2. CASE HostConnects
  BY <1>2, HostCable DEF vars, cmdVars
<1>3. CASE BoardParses
  <2>1. CASE rx.th = NoLine
    BY <1>3, <2>1 DEF BoardParses, LoopTop, ParseSerial
  <2>2. CASE rx.th # NoLine
    <3>1. thAge' = 0 /\ srcAge' = rxAge /\ pc = "top"
      BY <1>3, <2>2 DEF BoardParses, LoopTop, ParseSerial
    <3>2. rxAge + LoopDelay <= Fresh + Wait + prevT
      BY <2>2, <3>1 DEF RxInv
    <3>3. rxAge <= Fresh + ParseWait
      BY <3>2, ChainNat, ChainBounds
    <3> QED
      BY <3>1, <3>3, ChainNat, ChainBounds
  <2> QED
    BY <2>1, <2>2
<1>4. CASE BoardDrives
  BY <1>4 DEF BoardDrives, LoopControl, cmdVars
<1>5. CASE BoardInterrupted
  BY <1>5, InterruptedFrame
<1>6. CASE TimePasses
  <2>1. srcAge' \in Nat /\ thAge' \in Nat
    BY ChainTypeNext, ChainBounds DEF ChainType, TypeOK, Ages
  <2> SUFFICES ASSUME throttleFresh', thAge' < MaxAge
               PROVE  srcAge' <= Fresh + ParseWait + thAge'
    OBVIOUS
  <2>2. srcAge' <= srcAge + 1 /\ thAge' = thAge + 1
    BY <1>6, ChainTick
  <2>3. srcAge <= Fresh + ParseWait + thAge
    BY <1>6, ChainTick
  <2> QED
    BY <2>1, <2>2, <2>3, ChainNat, ChainBounds
<1>7. CASE UNCHANGED chainVars
  BY <1>7 DEF chainVars, vars, cmdVars
<1> QED
  BY <1>1, <1>2, <1>3, <1>4, <1>5, <1>6, <1>7 DEF ChainNext

\* A pass that drives in auto mode found a throttle in time.
LEMMA DrivesInTime ==
  ASSUME MaxAge < ClockWrap, ChainType, BoardDrives, mode' = AUTO_MODE, motor'.pwm > 0
  PROVE  /\ throttleFresh /\ thAge <= CommandTimeout /\ throttle_cmd # 0
         /\ pwmAge' = srcAge /\ Since' = lag /\ pc = "control"
<1>1. LoopControl /\ Mode = AUTO_MODE /\ TypeOK /\ LoopInv
  BY DEF BoardDrives, LoopControl, ChainType
<1>2. driveWithDeadtime(IF th_ok THEN throttle_cmd ELSE 0)
  BY <1>1, ModesDiffer DEF LoopControl
<1>3. ~driveWithDeadtime(0)
  <2> SUFFICES ASSUME driveWithDeadtime(0) PROVE FALSE
    OBVIOUS
  <2>1. motor' = [motor EXCEPT !.pwm = 0]
    BY DEF driveWithDeadtime, Magnitude
  <2>2. motor'.pwm = 0
    BY <1>1, <2>1 DEF TypeOK
  <2> QED
    BY <2>2
<1>4. th_ok /\ throttle_cmd # 0
  BY <1>2, <1>3
<1>5. throttleFresh /\ thAge <= CommandTimeout
  BY <1>1, <1>4, InTimeMeans, ChainBounds DEF th_ok, TypeOK
<1>6. pwmAge' = srcAge
  BY <1>1 DEF BoardDrives
<1>7. Since' = lag /\ pc = "control"
  BY <1>1 DEF LoopControl, Since, LoopInv
<1> QED
  BY <1>4, <1>5, <1>6, <1>7

\* Parsing only lets Since grow.
LEMMA ParseSince ==
  ASSUME ChainType, BoardParses
  PROVE  Since' \in Nat /\ Since <= Since' /\ UNCHANGED <<mode, motor, pwmAge, steady, hostVars>>
BY ChainBounds, ChainNat DEF BoardParses, LoopTop, Since, driveVars

LEMMA PwmInvNext ==
  ASSUME MaxAge < ClockWrap
  PROVE  ChainType /\ SrcInv /\ PwmInv /\ [ChainNext]_chainVars => PwmInv'
<1> SUFFICES ASSUME ChainType, SrcInv, PwmInv, [ChainNext]_chainVars,
                    mode' = AUTO_MODE, motor'.pwm > 0
             PROVE  pwmAge' <= Fresh + ParseWait + CommandTimeout + Since'
  BY DEF PwmInv
<1> USE DEF PwmInv
<1>1. CASE HostDrives \/ HostStops \/ HostLoses
  BY <1>1, HostLine DEF Since
<1>2. CASE HostConnects
  BY <1>2, HostCable DEF vars, loopVars, driveVars, Since
<1>3. CASE BoardParses
  <2>1. pwmAge <= Fresh + ParseWait + CommandTimeout + Since
    BY <1>3, ParseSince
  <2>2. pwmAge' = pwmAge /\ Since <= Since' /\ Since' \in Nat
    BY <1>3, ParseSince
  <2> QED
    BY <2>1, <2>2, ChainNat, ChainBounds
<1>4. CASE BoardDrives
  <2>1. throttleFresh /\ thAge <= CommandTimeout /\ pwmAge' = srcAge /\ Since' = lag
    BY <1>4, DrivesInTime
  <2>2. srcAge <= Fresh + ParseWait + thAge
    BY <2>1, ChainNat, ChainBounds DEF SrcInv
  <2> QED
    BY <2>1, <2>2, ChainNat, ChainBounds
<1>5. CASE BoardInterrupted
  <2>1. mode = AUTO_MODE /\ motor.pwm > 0 /\ pwmAge' = pwmAge /\ pc # "boot"
    BY <1>5, InterruptedFrame, ModesDiffer DEF ChainType, LoopInv
  <2>2. Since' = Since
    BY <1>5, <2>1, InterruptedFrame DEF Since
  <2> QED
    BY <2>1, <2>2
<1>6. CASE TimePasses
  <2>1. mode = AUTO_MODE /\ motor.pwm > 0 /\ pwmAge' <= pwmAge + 1
    BY <1>6, ChainTick
  <2>2. Since' = Since + 1
    BY <1>6, <2>1, ChainTick, ModesDiffer DEF ChainType, LoopInv
  <2>3. pwmAge' \in Nat
    BY ChainTypeNext DEF ChainType
  <2> QED
    BY <2>1, <2>2, <2>3, ChainNat, ChainBounds
<1>7. CASE UNCHANGED chainVars
  BY <1>7 DEF chainVars, vars, loopVars, driveVars, Since
<1> QED
  BY <1>1, <1>2, <1>3, <1>4, <1>5, <1>6, <1>7 DEF ChainNext

LEMMA ChainInvInit == ChainInit => ChainInv
<1> SUFFICES ASSUME ChainInit PROVE ChainInv
  OBVIOUS
<1>1. TypeOK /\ LoopInv
  BY TypeInit DEF ChainInit, Init, LoopInv
<1>2. DM!DeadManInv
  <2>1. 0 \in 0..Bound
    BY ChainBounds
  <2> QED
    BY <2>1 DEF ChainInit, DM!Init, DM!DeadManInv
<1>3. /\ rx.th = NoLine /\ throttleFresh = FALSE /\ throttle_cmd = 0 /\ mode # AUTO_MODE
      /\ prevT = LoopDelay
  BY ModesDiffer, ResetValues DEF ChainInit, Init
<1> QED
  BY <1>1, <1>2, <1>3 DEF ChainInit, ChainInv, ChainType, RxInv, SrcInv, PwmInv, LinkInv

\* The link is steady only while it is up and the board runs.
LEMMA SteadyNext ==
  ASSUME ChainType, LinkInv, [ChainNext]_chainVars
  PROVE  steady' > 0 => link' /\ pc' # "boot" /\ frag' = NoLine
<1> USE DEF LinkInv
<1>1. CASE HostDrives \/ HostStops
  BY <1>1, HostLine, HostPair
<1>2. CASE HostConnects
  BY <1>2, ChainNat DEF HostConnects, DM!Connect
<1>3. CASE HostLoses
  BY <1>3 DEF HostLoses
<1>4. CASE BoardParses
  BY <1>4 DEF BoardParses, LoopTop, hostVars
<1>5. CASE BoardDrives
  BY <1>5 DEF BoardDrives, LoopControl, hostVars
<1>6. CASE BoardInterrupted
  BY <1>6, InterruptedFrame DEF hostVars
<1>7. CASE TimePasses
  BY <1>7, ChainTick DEF TimePasses, DM!Pass, hostVars
<1>8. CASE UNCHANGED chainVars
  BY <1>8 DEF chainVars, vars, loopVars, hostVars
<1> QED
  BY <1>1, <1>2, <1>3, <1>4, <1>5, <1>6, <1>7, <1>8 DEF ChainNext

\* While the link has been up, an age that falls short of steady grows with it.
LEMMA SteadyTick ==
  ASSUME ChainType, LinkInv, TimePasses, steady' > 0,
         NEW a \in Nat, SourceOlder(a) < steady'
  PROVE  a < steady
<1>1. steady' = IF steady > EndBound THEN steady ELSE steady + 1
  BY DEF TimePasses
<1> QED
  BY <1>1, ChainNat, ChainBounds DEF SourceOlder

LEMMA LinkInvTick ==
  ASSUME ChainType, LinkInv, TimePasses
  PROVE  LinkInv'
<1> USE DEF LinkInv
<1>1. steady' > 0 => link' /\ pc' # "boot" /\ frag' = NoLine
  BY SteadyNext DEF ChainNext
<1>2. CASE ~(steady' > 0)
  <2>1. steady' = 0 /\ rxAge' \in Nat /\ srcAge' \in Nat /\ pwmAge' \in Nat
    BY <1>2, ChainTypeNext DEF ChainType, ChainNext
  <2> QED
    BY <1>1, <2>1
<1>3. CASE steady' > 0
  <2>1. /\ UNCHANGED <<pc, rx, throttle_cmd, mode, motor>> /\ pc # "boot"
        /\ prevT' = prevT + 1 /\ Since' = Since + 1
        /\ rxAge' <= rxAge + 1 /\ srcAge' <= srcAge + 1 /\ pwmAge' <= pwmAge + 1
    BY <1>1, <1>3, ChainTick
  <2>2. /\ rxAge' \in Nat /\ srcAge' \in Nat /\ pwmAge' \in Nat /\ age' \in Nat
    BY ChainTypeNext, ChainBounds DEF ChainType, ChainNext, DM!DeadManInv
  <2>3. drive => drive' /\ age' = age + 1
    BY DEF TimePasses, DM!Pass
  <2>4. rx.th # NoLine /\ rxAge' < steady' => rx.th = 0 \/ (drive' /\ rxAge' <= age')
    <3> SUFFICES ASSUME rx.th # NoLine, rxAge' < steady', rx.th # 0
                 PROVE  drive' /\ rxAge' <= age'
      OBVIOUS
    <3>1. rxAge' = SourceOlder(rxAge)
      BY DEF TimePasses
    <3>2. rxAge < steady
      BY <1>3, <3>1, SteadyTick, ChainNat
    <3>3. drive /\ rxAge <= age
      BY <3>2
    <3> QED
      BY <2>1, <2>2, <2>3, <3>3, ChainNat
  <2>5. throttle_cmd # 0 /\ srcAge' < steady' =>
          IF rx.th = NoLine THEN drive' /\ srcAge' <= age' ELSE srcAge' <= Bound + prevT'
    <3> SUFFICES ASSUME throttle_cmd # 0, srcAge' < steady'
                 PROVE  IF rx.th = NoLine THEN drive' /\ srcAge' <= age'
                                          ELSE srcAge' <= Bound + prevT'
      OBVIOUS
    <3>1. srcAge' = SourceOlder(srcAge)
      BY DEF TimePasses
    <3>2. srcAge < steady
      BY <1>3, <3>1, SteadyTick, ChainNat
    <3>3. CASE rx.th = NoLine
      <4>1. drive /\ srcAge <= age
        BY <3>2, <3>3
      <4> QED
        BY <2>1, <2>2, <2>3, <3>3, <4>1, ChainNat
    <3>4. CASE rx.th # NoLine
      <4>1. srcAge <= Bound + prevT
        BY <3>2, <3>4
      <4>2. srcAge' <= Bound + prevT'
        BY <2>1, <2>2, <4>1, ChainNat, ChainBounds
      <4> QED
        BY <3>4, <4>2
    <3> QED
      BY <3>3, <3>4
  <2>6. mode = AUTO_MODE /\ motor.pwm > 0 /\ pwmAge' < steady' => pwmAge' <= Bound + Since'
    <3> SUFFICES ASSUME mode = AUTO_MODE, motor.pwm > 0, pwmAge' < steady'
                 PROVE  pwmAge' <= Bound + Since'
      OBVIOUS
    <3>1. pwmAge' = SourceOlder(pwmAge)
      BY DEF TimePasses
    <3>2. pwmAge < steady
      BY <1>3, <3>1, SteadyTick, ChainNat
    <3>3. pwmAge <= Bound + Since
      BY <3>2
    <3> QED
      BY <2>1, <2>2, <3>3, ChainNat, ChainBounds
  <2> QED
    BY <1>1, <2>1, <2>4, <2>5, <2>6
<1> QED
  BY <1>2, <1>3

LEMMA LinkInvHost ==
  ASSUME ChainType, LinkInv, HostDrives \/ HostStops
  PROVE  LinkInv'
<1> USE DEF LinkInv
<1>1. steady' > 0 => link' /\ pc' # "boot" /\ frag' = NoLine
  BY SteadyNext DEF ChainNext
<1>2. UNCHANGED <<pc, prevT, lag, throttle_cmd, mode, motor, srcAge, pwmAge, steady>>
  BY HostLine, HostPair
<1>3. Since' = Since
  BY <1>2 DEF Since
<1>4. CASE ~(steady > 0)
  <2>1. steady = 0
    BY <1>4, ChainNat
  <2>2. rxAge' \in Nat /\ srcAge \in Nat /\ pwmAge \in Nat
    BY ChainTypeNext, ChainNat DEF ChainType, ChainNext
  <2> QED
    BY <1>1, <1>2, <2>1, <2>2
<1>5. CASE steady > 0
  <2>1. rx'.th # NoLine /\ rxAge' \in 0..Fresh /\ (rx'.th = 0 \/ (drive' /\ rxAge' = age'))
    BY <1>5, HostPair
  <2>2. throttle_cmd # 0 /\ srcAge < steady => srcAge <= Bound + prevT
    BY ChainNat, ChainBounds
  <2>3. rx'.th = 0 \/ (drive' /\ rxAge' <= age')
    BY <2>1, ChainBounds
  <2> QED
    BY <1>1, <1>2, <1>3, <2>1, <2>2, <2>3
<1> QED
  BY <1>4, <1>5

LEMMA LinkInvBoard ==
  ASSUME MaxAge < ClockWrap, ChainType, LinkInv, BoardParses \/ BoardDrives \/ BoardInterrupted
  PROVE  LinkInv'
<1> USE DEF LinkInv
<1>1. steady' > 0 => link' /\ pc' # "boot" /\ frag' = NoLine
  BY SteadyNext DEF ChainNext
<1>2. UNCHANGED <<hostVars, steady>>
  BY DEF BoardParses, BoardDrives, BoardInterrupted
<1>3. CASE BoardParses
  <2>1. Since' \in Nat /\ Since <= Since' /\ UNCHANGED <<mode, motor, pwmAge>>
    BY <1>3, ParseSince
  <2>2. rx'.th = NoLine
    BY <1>3 DEF BoardParses, LoopTop, ParseSerial, NoLines
  <2>3. CASE rx.th = NoLine
    <3>1. UNCHANGED <<throttle_cmd, srcAge>>
      BY <1>3, <2>3 DEF BoardParses, LoopTop, ParseSerial
    <3>2. throttle_cmd # 0 /\ srcAge < steady => drive /\ srcAge <= age
      BY <2>3
    <3>3. mode = AUTO_MODE /\ motor.pwm > 0 /\ pwmAge < steady => pwmAge <= Bound + Since'
      BY <2>1, ChainNat, ChainBounds
    <3> QED
      BY <1>1, <1>2, <2>1, <2>2, <3>1, <3>2, <3>3 DEF hostVars
  <2>4. CASE rx.th # NoLine
    <3>1. srcAge' = rxAge /\ throttle_cmd' = Constrain(rx.th, Full)
      BY <1>3, <2>4 DEF BoardParses, LoopTop, ParseSerial
    <3>2. Constrain(0, Full) = 0
      BY FirmwareAssumption DEF Constrain
    <3>3. throttle_cmd' # 0 /\ srcAge' < steady => drive /\ srcAge' <= age
      BY <2>4, <3>1, <3>2
    <3>4. mode = AUTO_MODE /\ motor.pwm > 0 /\ pwmAge < steady => pwmAge <= Bound + Since'
      BY <2>1, ChainNat, ChainBounds
    <3> QED
      BY <1>1, <1>2, <2>1, <2>2, <3>3, <3>4 DEF hostVars
  <2> QED
    BY <2>3, <2>4
<1>4. CASE BoardDrives
  <2>1. UNCHANGED <<rx, rxAge, throttle_cmd, srcAge, prevT>> /\ prevT = lag
    BY <1>4 DEF BoardDrives, LoopControl, cmdVars, ChainType, LoopInv
  <2>2. ASSUME mode' = AUTO_MODE, motor'.pwm > 0, pwmAge' < steady
        PROVE  pwmAge' <= Bound + Since'
    <3>1. throttle_cmd # 0 /\ pwmAge' = srcAge /\ Since' = lag
      BY <1>4, <2>2, DrivesInTime
    <3>2. srcAge <= Bound + lag
      <4>1. CASE rx.th = NoLine
        <5>1. srcAge <= age
          BY <2>2, <3>1, <4>1
        <5> QED
          BY <5>1, ChainNat, ChainBounds
      <4>2. CASE rx.th # NoLine
        BY <2>1, <2>2, <3>1, <4>2
      <4> QED
        BY <4>1, <4>2
    <3> QED
      BY <3>1, <3>2
  <2> QED
    BY <1>1, <1>2, <2>1, <2>2 DEF hostVars
<1>5. CASE BoardInterrupted
  <2>1. CASE pc = "boot"
    <3>1. steady = 0
      BY <2>1, ChainNat
    <3>2. UNCHANGED <<rxAge, srcAge, pwmAge>>
      BY <1>5, InterruptedFrame
    <3> QED
      BY <1>1, <1>2, <3>1, <3>2, ChainNat
  <2>2. CASE pc # "boot"
    <3>1. /\ UNCHANGED <<pc, prevT, lag, rx, throttle_cmd, mode, motor, rxAge, srcAge, pwmAge>>
      BY <1>5, <2>2, InterruptedFrame
    <3>2. Since' = Since
      BY <3>1 DEF Since
    <3> QED
      BY <1>1, <1>2, <3>1, <3>2 DEF hostVars
  <2> QED
    BY <2>1, <2>2
<1> QED
  BY <1>3, <1>4, <1>5

LEMMA LinkInvNext ==
  ASSUME MaxAge < ClockWrap
  PROVE  ChainType /\ LinkInv /\ [ChainNext]_chainVars => LinkInv'
<1> SUFFICES ASSUME ChainType, LinkInv, [ChainNext]_chainVars PROVE LinkInv'
  OBVIOUS
<1>1. CASE HostConnects \/ HostLoses
  <2>1. steady' = 0
    BY <1>1, ChainNat DEF HostConnects, HostLoses, DM!Connect, LinkInv
  <2>2. rxAge' \in Nat /\ srcAge' \in Nat /\ pwmAge' \in Nat
    BY ChainTypeNext DEF ChainType
  <2> QED
    BY <2>1, <2>2 DEF LinkInv
<1>2. CASE UNCHANGED chainVars
  <2>1. Since' = Since
    BY <1>2 DEF chainVars, vars, loopVars, Since
  <2> QED
    BY <1>2, <2>1 DEF chainVars, vars, loopVars, cmdVars, driveVars, hostVars, LinkInv
<1> QED
  BY <1>1, <1>2, LinkInvTick, LinkInvHost, LinkInvBoard DEF ChainNext

LEMMA ChainInvariance == ASSUME MaxAge < ClockWrap PROVE ChainSpec => []ChainInv
<1>1. ChainInv /\ [ChainNext]_chainVars => ChainInv'
  BY ChainTypeNext, RxInvNext, SrcInvNext, PwmInvNext, LinkInvNext DEF ChainInv
<1> QED
  BY <1>1, ChainInvInit, PTL DEF ChainSpec

LEMMA EndBoundHolds ==
  ASSUME ChainInv, mode = AUTO_MODE, motor.pwm > 0
  PROVE  pwmAge <= EndBound
<1>1. pwmAge <= Fresh + ParseWait + CommandTimeout + Since
  BY DEF ChainInv, PwmInv
<1>2. ChainType
  BY DEF ChainInv
<1> QED
  BY <1>1, <1>2, ChainNat, ChainBounds, LoopBounds

\* In auto mode no motor turns on a message older than the host's delay, the wait for its
\* parsing, the board's timeout and one pass of the loop: for every such host and board.
THEOREM EndToEnd == ASSUME MaxAge < ClockWrap PROVE ChainSpec => []EndToEndStop
<1>1. ChainInv => EndToEndStop
  BY EndBoundHolds DEF EndToEndStop
<1> QED
  BY <1>1, ChainInvariance, PTL

\* Over a link that stays up, the host's own stop ends the drive within one pass of the
\* board, however the passes, the writes and the bytes fall.
THEOREM Linked == ASSUME MaxAge < ClockWrap PROVE ChainSpec => []LinkedStop
<1>1. ChainInv => LinkedStop
  <2> SUFFICES ASSUME ChainInv, mode = AUTO_MODE, motor.pwm > 0, steady > EndBound
               PROVE  pwmAge <= LinkedBound
    BY DEF LinkedStop
  <2>1. ChainType /\ pwmAge <= EndBound
    BY EndBoundHolds DEF ChainInv
  <2>2. pwmAge < steady
    BY <2>1, ChainNat, ChainBounds
  <2>3. pwmAge <= Bound + Since
    BY <2>2 DEF ChainInv, LinkInv
  <2> QED
    BY <2>1, <2>3, ChainNat, ChainBounds, LoopBounds DEF LinkedBound
<1> QED
  BY <1>1, ChainInvariance, PTL
=============================================================================
