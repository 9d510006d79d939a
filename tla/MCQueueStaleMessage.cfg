CONSTANTS
  o1 = o1
  o2 = o2
  o3 = o3
  c = c
  NullOp = NullOp
  Ops = {c, o1}
  AdderOps = {}
  Transfers = {}
  Connects = {c}
  Key <- MCKey
  Role = "main"
SPECIFICATION Spec
INVARIANTS
  MessagesAreLive
CHECK_DEADLOCK FALSE
