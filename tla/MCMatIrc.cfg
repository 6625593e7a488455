SPECIFICATION Spec
CONSTANTS
  None = None
  Nicks = {ann, bob, cyd}
  UserNick = ann
  Names = {chan}
  MaxServers = 2
  MaxWindows = 2
  Cap = 2
CONSTRAINT Few
INVARIANTS UnreadIsMarked PartIsFirst NickAgrees JoinedHasWindow
PROPERTY FocusStaysOwned
CHECK_DEADLOCK FALSE
