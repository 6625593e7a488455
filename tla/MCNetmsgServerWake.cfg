SPECIFICATION Spec
CONSTANTS
  Clients = {ann, bob}
  Plans <- WakePlans
  ann = ann
  bob = bob
  Nil = Nil
  MsgLen = 2
INVARIANT WaitsOnlyForAnswer
CHECK_DEADLOCK FALSE
