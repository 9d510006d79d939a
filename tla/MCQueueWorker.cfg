CONSTANTS
  o1 = o1
  o2 = o2
  o3 = o3
  c = c
  NullOp = NullOp
  Ops = {o1, o2, o3}
  AdderOps = {o1, o2, o3}
  Transfers = {o1, o2, o3}
  Connects = {}
  Key <- MCKey
  Role = "worker"
SPECIFICATION Spec
INVARIANTS
  CancelExcludesFinish
  MessagesAreLive
CHECK_DEADLOCK FALSE
SYMMETRY MCSymmetry
