----------------------------- MODULE MCFTPQueue -----------------------------
(***************************************************************************)
(* FTPQueue on four operations: the session's connect c, two others that   *)
(* QueueOperation::Equals cannot tell apart, o1 and o3, and o2.            *)
(***************************************************************************)
EXTENDS FTPQueue

CONSTANTS c, o1, o2, o3

\* o1 and o3 have the same key and the same threads add them.
MCSymmetry == Permutations({o1, o3})

MCKey == [o \in Ops |-> CASE o = c  -> "connect"
                        [] o = o2 -> "k2"
                        [] OTHER  -> "k1"]
=============================================================================
