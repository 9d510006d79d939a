CONSTANTS
  o1 = o1
  o2 = o2
  o3 = o3
  c = c
  NullOp = NullOp
  Ops = {o1, o2}
  AdderOps = {}
  Transfers = {o1, o2}
  Connects = {}
  Key <- MCKey
  Role = "transfer"
SPECIFICATION FairSpec
INVARIANTS
  TypeOK
  CancelExcludesFinish
  RowsAreQueuedWhileOpen
  StartPrecedesPerform
PROPERTIES
  DeinitializeReturns
CHECK_DEADLOCK FALSE
