CONSTANTS
  t1 = t1
  t2 = t2
  Transfers = {t1, t2}
  KeepAlive = FALSE
  MaxGeneration = 5
SPECIFICATION Spec
INVARIANTS
  ConnectIsOffered
CHECK_DEADLOCK FALSE
