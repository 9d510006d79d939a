CONSTANTS
  main = main
  transfer = transfer
  f1 = f1
  Wrappers <- MCAlone
  Files <- MCFiles
  Operations <- MCTransferring
  Accepted <- MCOne
  MaxRetries = 1
  MaxChallenges = 1
  Chunks = 1
  MaxCalls = 2
  MaxAborts = 1
SPECIFICATION Spec
PROPERTY
  SuccessIsComplete
CHECK_DEADLOCK FALSE
