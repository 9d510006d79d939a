CONSTANTS
  s1 = s1
  b1 = b1
  n1 = n1
  fa = fa
  fb = fb
  w1 = w1
  w2 = w2
  NoOp = NoOp
  apart = n1
  Ops = {s1, b1, n1}
  Saves = {s1}
  Batched = {b1}
  Files = {fa, fb}
  File <- MCFile
  Workers = {w1, w2}
SPECIFICATION FairMenuSpec
PROPERTIES
  CancelHitsOneWaiting
  UploadsFinish
CHECK_DEADLOCK FALSE
