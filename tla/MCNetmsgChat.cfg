SPECIFICATION FairSpec
CONSTANTS
  Plans <- MCPlans
  MayCut = TRUE
INVARIANT NothingLost
PROPERTY EndsTogether
CHECK_DEADLOCK FALSE
