SPECIFICATION Spec
CONSTANTS
  Clients = {ann, bob}
  Plans <- MCPlans
  ann = ann
  bob = bob
  Nil = Nil
  MsgLen = 2
INVARIANT RemovedOnce
INVARIANT ListIsMembers
INVARIANT NothingHangs
PROPERTY BufferHandedOver
CHECK_DEADLOCK FALSE
