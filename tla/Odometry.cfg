SPECIFICATION Spec
CONSTANTS
  MaxCount = 2
  WheelRate = 1
  Glitches <- SmallAndLarge
  MaxFaults = 1
  MaxDelta = 2
  MinDelta = 1
  MinDt = 1
  MaxDt = 2
  Interval = 1
  SyncDrops = 1
  MaxAge = 3
  None = None
  MaxLines = 2
  MaxTransit = 1
  EncoderTimeout = 1
  OdomPeriod = 1
INVARIANTS CountIsExact SpeedIsPossible DeltasAddUp VelocityIsRecent
