SPECIFICATION FairSpec
CONSTANTS
  NBlocks = 2
  ByteMod = 256
  Tries = 3
  MaxFaults = 2
  MayBeEarly = TRUE
  MayHangUp = TRUE
INVARIANT SuccessIsWhole
PROPERTIES LostOnlyIfEarly Ends
CHECK_DEADLOCK FALSE
