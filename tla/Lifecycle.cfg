SPECIFICATION FairSpec
CONSTANTS
  node_names <- LaunchNodes
  MaxPolls = 2
  attempt_respawn_reconnection = TRUE
  MaxCommands = 3
  MaxFaults = 4
INVARIANTS ActiveIsWatched
PROPERTIES TakeDownReachesAll CrashIsNoticed Recovers
CHECK_DEADLOCK FALSE
