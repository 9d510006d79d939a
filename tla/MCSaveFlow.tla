----------------------------- MODULE MCSaveFlow -----------------------------
(***************************************************************************)
(* Three servers, two of them on one host at different ports, which their  *)
(* directory does not show; a file of the second, whose profile stands     *)
(* behind that of the first in the list, and one that is not of a server.  *)
(***************************************************************************)
EXTENDS SaveFlow

CONSTANTS t1, t2, a, a2, b, fa2, plain

MCProfiles == <<a, a2, b>>
MCFolder == [p \in {a, a2, b} |-> IF p = b THEN b ELSE a]
MCServer == [p \in {a, a2, b} |-> p]
MCHome == [f \in Files |-> IF f = fa2 THEN a2 ELSE None]
=============================================================================
