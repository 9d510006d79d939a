CONSTANTS
  s1 = s1
  s2 = s2
  n1 = n1
  b1 = b1
  x1 = x1
  fa = fa
  fb = fb
  w1 = w1
  w2 = w2
  NoOp = NoOp
  Ops = {s1, s2, n1, b1, x1}
  Saves = {s1, s2}
  Batched = {b1}
  Files = {fa, fb}
  File <- MCFile
  Workers = {w1, w2}
SPECIFICATION Spec
INVARIANTS
  NoConcurrentConflict
  OneOwner
  LatestSaveStored
  SavesAreUrgent
  ClosedLeavesNothing
PROPERTIES
  ServerNeverGoesBack
CHECK_DEADLOCK FALSE
SYMMETRY MCSymmetry
