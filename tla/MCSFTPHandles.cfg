CONSTANTS
  main = main
  transfer = transfer
  f1 = f1
  Wrappers <- MCAlone
  Files <- MCFiles
  Operations <- MCOperations
  Accepted <- MCOne
  MaxRetries = 1
  MaxChallenges = 1
  Chunks = 1
  MaxCalls = 2
  MaxAborts = 1
SPECIFICATION Spec
INVARIANT
  NothingIsLeftOpen
CHECK_DEADLOCK FALSE
