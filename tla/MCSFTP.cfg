CONSTANTS
  main = main
  transfer = transfer
  f1 = f1
  Wrappers <- MCAlone
  Files <- MCFiles
  Operations <- MCOperations
  Accepted <- MCTwo
  MaxRetries = 1
  MaxChallenges = 1
  Chunks = 2
  MaxCalls = 3
  MaxAborts = 1
SPECIFICATION FairSpec
INVARIANT
  ResourcesAreHeld
PROPERTIES
  TransfersAreWhole
  CallsReturn
CHECK_DEADLOCK FALSE
