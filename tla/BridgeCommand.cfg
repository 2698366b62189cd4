SPECIFICATION FairSpec
CONSTANTS
  Twists <- ForwardOnly
  Wheelbase = 724
  VMax = 44
  MinSpeed = 2
  MaxSteer = 445
  SteerSign <- Inverted
  Handles = {h1, h2}
  NoPort = NoPort
  CmdTimeout = 2
  TxPeriod = 1
  WriteTimeout = 1
  ReadTimeout = 1
  ReaderIdle = 1
  ReaderBackoff = 1
  OpenSettle = 2
  OpenRetry = 1
  ReconnectPoll = 1
  StartupSilence = 4
  JoinTimeout = 3
  ClockStep = 1
  MaxClockSteps = 0
INVARIANTS TypeOK StopDeadline StopIsLastWrite ReaderDropsItsOwn
PROPERTIES FreshWhenWritten ImplementsDeadMan Reconnects ShutdownEnds
