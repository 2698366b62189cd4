SPECIFICATION FairSpec
CONSTANTS
  Requests <- RateAndMessages
  Timeout = 2
  MaxAnswer = 3
INVARIANTS ResultIsTheAnswer
PROPERTIES NothingHangs
CHECK_DEADLOCK FALSE
