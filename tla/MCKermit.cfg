SPECIFICATION Spec
CONSTANTS
  NData = 2
  SeqMod = 2
  RetryMax = 1
  LinkCap = 3
  MaxCorrupt = 2
  MaxAborts = 1
  MayOverRead = TRUE
  MayLoseAck = TRUE
  MayBreak = TRUE
INVARIANT TypeOK
INVARIANT OutIsPrefix
INVARIANT AckedIsWritten
INVARIANT SuccessIsWhole
PROPERTY NoMidwayRestart
PROPERTY StepsImplement
CHECK_DEADLOCK FALSE
