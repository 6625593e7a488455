SPECIFICATION FairSpec
CONSTANTS
  Texts <- MCTexts
  InputLen = 4
  MaxDepth = 5
INVARIANT AutomatonIsLalr
INVARIANT TablesAreRight
INVARIANT CaseIsRule
INVARIANT ParsesLanguage
INVARIANT ErrorsAtOnce
PROPERTY Terminates
CHECK_DEADLOCK FALSE
