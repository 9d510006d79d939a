----------------------------- MODULE MCSession -----------------------------
(***************************************************************************)
(* Session with two transfers and up to three sessions.                    *)
(***************************************************************************)
EXTENDS Session, TLC

CONSTANTS t1, t2

MCSymmetry == Permutations(Transfers)
=============================================================================
