CONSTANTS
  o1 = o1
  o2 = o2
  o3 = o3
  c = c
  NullOp = NullOp
  Ops = {c, o1, o2, o3}
  AdderOps = {o2}
  Transfers = {}
  Connects = {c}
  Key <- MCKey
  Role = "main"
SPECIFICATION FairSpec
INVARIANTS
  ClosedLeavesNothing
  QueueIsSound
PROPERTIES
  ImplementsSerialQueue
  DeinitializeReturns
  QueuedIsServed
CHECK_DEADLOCK FALSE
