------------------------- MODULE MCUploadScheduler -------------------------
(***************************************************************************)
(* UploadScheduler on two files and two workers.                           *)
(***************************************************************************)
EXTENDS UploadScheduler

CONSTANTS
  s1, s2,   \* two saves of a file
  n1, b1,   \* a plain upload and a directory upload's upload of that file
  x1,       \* an upload of another file
  fa, fb, w1, w2

MCFile == [o \in Ops |-> IF o = x1 THEN fb ELSE fa]

MCSymmetry == Permutations({w1, w2}) \cup Permutations({s1, s2})
=============================================================================
