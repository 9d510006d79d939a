CONSTANTS
  t1 = t1
  t2 = t2
  Transfers = {t1, t2}
  KeepAlive = TRUE
  MaxGeneration = 5
SPECIFICATION FairSpec
INVARIANTS
  TypeOK
  RunningIsComplete
  OverLeavesNothing
  ShownRootIsLive
  ActiveIsExact
PROPERTIES
  ConnectSettles
CHECK_DEADLOCK FALSE
