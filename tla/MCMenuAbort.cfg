CONSTANTS
  s1 = s1
  n1 = n1
  b1 = b1
  fa = fa
  fb = fb
  w1 = w1
  w2 = w2
  NoOp = NoOp
  apart = n1
  Ops = {s1, n1}
  Saves = {s1}
  Batched = {}
  Files = {fa, fb}
  File <- MCFile
  Workers = {w1, w2}
SPECIFICATION MenuSpec
PROPERTIES
  AbortTargetsSelected
CHECK_DEADLOCK FALSE
SYMMETRY MCSymmetry
