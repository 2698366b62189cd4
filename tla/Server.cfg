SPECIFICATION FairSpec
CONSTANTS
  Goals = {g1, g2, g3}
  BadGoals = {g3}
  None = None
  MaxActivations = 2
CHECK_DEADLOCK FALSE
INVARIANTS NoLeakedGoal NoNullGoal
PROPERTIES SucceedsOnItsPath CancelEnds
