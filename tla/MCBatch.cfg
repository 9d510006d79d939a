CONSTANTS
  f1 = f1
  f2 = f2
  f3 = f3
  Files = {f1, f2, f3}
  Prepare = Prepare
  Complete = Complete
  MaxWorkers = 2
SPECIFICATION FairSpec
INVARIANTS
  SummaryIsExact
  ReferencesAreHeld
PROPERTIES
  BatchIsReported
CHECK_DEADLOCK FALSE
