--------------------------- MODULE MCUploadBatch ---------------------------
(***************************************************************************)
(* UploadBatch on a plan of three files and two workers.                   *)
(***************************************************************************)
EXTENDS UploadBatch, TLC

CONSTANTS f1, f2, f3

MCSymmetry == Permutations(Files)
=============================================================================
