CONSTANTS
  f1 = f1
  f2 = f2
  f3 = f3
  Files = {f1, f2}
  Prepare = Prepare
  Complete = Complete
  MaxWorkers = 2
SPECIFICATION Spec
INVARIANTS
  SummaryIsEmitted
CHECK_DEADLOCK FALSE
