--------------------------- MODULE MCRemoteBrowser ---------------------------
(***************************************************************************)
(* A directory in the root, one in it, and two files there.                *)
(***************************************************************************)
EXTENDS RemoteBrowser

CONSTANTS root, dir, sub, file, new

MCParent == [p \in {dir, sub, file, new} |-> IF p = dir THEN root ELSE dir]
MCFilters == {Paths, {file}}
=============================================================================
