SPECIFICATION FollowSpec
CONSTANTS
  Goals <- ThreePaths
  BadGoals = {}
  None = None
  MaxActivations = 1
  MaxPaths = 3
  MaxRequests = 2
CHECK_DEADLOCK FALSE
INVARIANTS FollowsPublished PendingIsSent NobodyForgotten
