----------------------------- MODULE MCDownload -----------------------------
(***************************************************************************)
(* A directory with two names that differ in case, a directory that holds  *)
(* a file, and a link.                                                     *)
(***************************************************************************)
EXTENDS Download

CONSTANTS
  upper, lower,   \* "A" and "a": a file and a directory or a file
  dir, inner,     \* a directory and the file in it
  link            \* a symbolic link

MCEntries == {upper, lower, dir, inner, link}
MCParent == [e \in MCEntries |-> IF e = inner THEN dir ELSE Root]
MCKind == [e \in MCEntries |->
             IF e = dir THEN "dir" ELSE IF e = link THEN "link" ELSE "file"]
MCLocalName == [e \in MCEntries |->
                  CASE e \in {upper, lower} -> "a" [] e = dir -> "d"
                    [] e = inner -> "i" [] e = link -> "l"]

\* What is somewhere on a disk is in a directory (a reparse point shows what is
\* behind it).
MCDisks ==
  {d \in [LocalPaths -> Kinds] :
     /\ d[<<"l">>] = "none"
     /\ \A p \in LocalPaths \ {<<>>} :
          d[p] # "none" => d[SubSeq(p, 1, Len(p) - 1)] \in {"dir", "reparse"}}
=============================================================================
