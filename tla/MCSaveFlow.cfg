CONSTANTS
  t1 = t1
  t2 = t2
  a = a
  a2 = a2
  b = b
  fa2 = fa2
  plain = plain
  None = None
  Transfers = {t1, t2}
  KeepAlive = TRUE
  MaxGeneration = 3
  Profiles <- MCProfiles
  Folder <- MCFolder
  Server <- MCServer
  Home <- MCHome
  Files = {fa2, plain}
SPECIFICATION FairSaveSpec
INVARIANTS
  SessionIsWhole
  ActiveIsExact
  ShownRootIsLive
  SavesStayInSession
PROPERTIES
  ConnectSettles
  ImplementsSession
  SaveReturns
CHECK_DEADLOCK FALSE
