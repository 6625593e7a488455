SPECIFICATION FairSpec
CONSTANTS
  NData = 2
  SeqMod = 2
  RetryMax = 1
  LinkCap = 3
  MaxCorrupt = 1
  MaxAborts = 0
  MayOverRead = FALSE
  MayLoseAck = FALSE
  MayBreak = FALSE
PROPERTY Completes
CHECK_DEADLOCK FALSE
