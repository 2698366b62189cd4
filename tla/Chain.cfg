SPECIFICATION ChainSpec
CONSTANTS
  Commands = {}
  NoLine = NoLine
  Sticks = {}
  Full = 1
  SteerLimit = 5
  CommandTimeout = 2
  AccelTimeout = 1
  LoopDelay = 1
  LoopSlack = 1
  BootTime = 2
  ClockWrap = 16
  MaxAge = 6
  Fresh = 1
  Bound = 2
INVARIANTS EndToEndStop LinkedStop
