---------------------------- MODULE MCQueueMenu ----------------------------
(***************************************************************************)
(* QueueMenu on the constants of MCUploadScheduler.                        *)
(***************************************************************************)
EXTENDS QueueMenu

CONSTANTS s1, b1, n1, apart, fa, fb, w1, w2

MCFile == [o \in Ops |-> IF o = apart THEN fb ELSE fa]

MCSymmetry == Permutations(Workers)
=============================================================================
