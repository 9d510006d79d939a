---- MODULE MCProfileTree ----
(***************************************************************************)
(* One name for profiles, one for folders.  The fourth node makes a folder *)
(* in a folder, with a profile beside or in it; such trees are looked at   *)
(* without the dialog, a session and deleted profiles in the menu, which   *)
(* only use the list.                                                      *)
(***************************************************************************)
EXTENDS ProfileTree

P == <<"p">>
F == <<"f">>
Names == <<<<>>, Copied(P), F, P>>
GivenNames == {P}
Groups == {<<>>, <<F>>}

Careful == ~misused /\ ~crashed

Nested == \E n \in Folders : Len(nodes[n].path) = 2
DeepBound ==
  Cardinality(DOMAIN nodes) = 4 =>
    Nested /\ opened = "no" /\ session = Null /\ Freed \notin Range(menu)
====
