SPECIFICATION Spec
CONSTANTS
  Commands <- DriveCommands
  NoLine = NoLine
  Sticks <- AllSticks
  Full = 2
  SteerLimit = 5
  CommandTimeout = 2
  AccelTimeout = 1
  LoopDelay = 1
  LoopSlack = 1
  BootTime = 5
  ClockWrap = 16
  MaxAge = 6
INVARIANTS InputsTimeOut SwitchesWin
PROPERTIES AutoReversalPauses
