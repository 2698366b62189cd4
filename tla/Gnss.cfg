CONSTANTS
  BagEnd = 7
  MaxDelay = 1
  MaxSilence = 2
  Yaws <- MCYaws
  MaxYawRate = 1
  SyncTolerance = 1
  MaxInterpolationGap = 2
  PairWait = 1
  HeadingTimeout = 2
  StatusPeriod = 2
  JumpThreshold = 2
  RearMax = 3
  FrontMax = 2
  None = None
SPECIFICATION Spec
INVARIANTS PairsMatch ValidIsRecent
PROPERTIES ValidFromPairs OutlierIsForgotten
