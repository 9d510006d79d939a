------------------------- MODULE RemoteBrowserProofs -------------------------
(***************************************************************************)
(* Proofs about the remote list, for every tree of paths, every state of   *)
(* the server and any number of commands.                                  *)
(***************************************************************************)
EXTENDS RemoteBrowser, SequenceTheorems, FiniteSetTheorems, WellFoundedInduction, TLAPS

-----------------------------------------------------------------------------
(***************************************************************************)
(* The least-number principle, and induction in a form steps can cite.     *)
(***************************************************************************)

\* Every set of naturals that is not empty has a least element.
LEMMA LeastNatural ==
  ASSUME NEW T \in SUBSET Nat, T # {}
  PROVE  \E x \in T : \A y \in T : x <= y
<1> DEFINE R == {ss \in Nat \X Nat : ss[1] < ss[2]}
<1>1. IsWellFoundedOn(R, Nat)
  BY NatLessThanWellFounded DEF OpToRel
<1>2. \A x, y \in Nat : (<<y, x>> \in R) <=> y < x
  OBVIOUS
<1> HIDE DEF R
<1>3. PICK x \in T : \A y \in T : ~ (<<y, x>> \in R)
  BY <1>1, WFMin
<1>4. x \in Nat /\ \A y \in T : y \in Nat /\ ~(y < x)
  BY <1>2, <1>3
<1>5. \A y \in T : x <= y
  BY <1>4
<1> QED
  BY <1>5

\* Induction over the naturals, stated for a set: what the library's theorem says of
\* an operator.
LEMMA NatInductionSet ==
  ASSUME NEW T \in SUBSET Nat, 0 \in T, \A n \in T : n + 1 \in T
  PROVE  T = Nat
<1> SUFFICES ASSUME Nat \ T # {}
             PROVE  FALSE
  OBVIOUS
<1>1. PICK m \in Nat \ T : \A k \in Nat \ T : m <= k
  BY LeastNatural
<1>2. m - 1 \in Nat /\ (m - 1) + 1 = m
  BY <1>1
<1>3. m - 1 \in T
  BY <1>1, <1>2
<1> QED
  BY <1>1, <1>2, <1>3

\* Append adds one member and keeps a sequence free of repetitions.
LEMMA AppendFacts ==
  ASSUME NEW S, NEW s \in Seq(S), NEW e \in S
  PROVE  /\ Append(s, e) \in Seq(S)
         /\ Append(s, e) # <<>>
         /\ ToSet(Append(s, e)) = ToSet(s) \cup {e}
         /\ s # <<>> => Head(Append(s, e)) = Head(s)
         /\ e \notin ToSet(s) /\ IsInjective(s) => IsInjective(Append(s, e))
<1>1. DOMAIN s = 1..Len(s) /\ DOMAIN Append(s, e) = 1..(Len(s) + 1) /\ Len(s) \in Nat
  OBVIOUS
<1>2. \A i \in 1..(Len(s) + 1) : Append(s, e)[i] = IF i = Len(s) + 1 THEN e ELSE s[i]
  OBVIOUS
<1>3. \A i \in 1..(Len(s) + 1) : i = Len(s) + 1 \/ i \in 1..Len(s)
  BY <1>1
<1>4. ToSet(Append(s, e)) = ToSet(s) \cup {e}
  BY <1>1, <1>2, <1>3 DEF ToSet
<1>5. e \notin ToSet(s) /\ IsInjective(s) => IsInjective(Append(s, e))
  BY <1>1, <1>2, <1>3 DEF ToSet, IsInjective
<1>6. Append(s, e) \in Seq(S)
  OBVIOUS
<1>8. Append(s, e) # <<>>
  BY <1>1
<1>7. s # <<>> => Head(Append(s, e)) = Head(s)
  OBVIOUS
<1> QED
  BY <1>4, <1>5, <1>6, <1>7, <1>8

-----------------------------------------------------------------------------

Chains == {s \in Seq(Paths) : s # <<>> /\ s[1] = Root}

\* Append to a chain that starts at the root.
LEMMA ChainGrows ==
  ASSUME NEW s \in Chains, NEW p \in Paths
  PROVE  Append(s, p) \in Chains /\ Range(Append(s, p)) = Range(s) \cup {p}
<1>1. s \in Seq(Paths) /\ Len(s) \in Nat \ {0} /\ s[1] = Root
  BY DEF Chains
<1>2. /\ Append(s, p) \in Seq(Paths) /\ Append(s, p) # <<>> /\ Append(s, p)[1] = s[1]
      /\ DOMAIN s = 1..Len(s) /\ DOMAIN Append(s, p) = 1..(Len(s) + 1)
      /\ \A i \in 1..(Len(s) + 1) : Append(s, p)[i] = IF i = Len(s) + 1 THEN p ELSE s[i]
  BY <1>1
<1>3. Append(s, p) \in Chains
  BY <1>1, <1>2 DEF Chains
<1>4. \A i \in 1..Len(s) : i \in 1..(Len(s) + 1) /\ i # Len(s) + 1
  BY <1>1
<1>5. Len(s) + 1 \in 1..(Len(s) + 1) /\ \A i \in 1..(Len(s) + 1) : i = Len(s) + 1 \/ i \in 1..Len(s)
  BY <1>1
<1>6. Range(Append(s, p)) = Range(s) \cup {p}
  BY <1>2, <1>4, <1>5 DEF Range
<1> QED
  BY <1>3, <1>6

\* The ancestry of a path is what its definition says: paths form a tree.
LEMMA AncestryUnfolds ==
  \A p \in Paths :
    /\ Ancestry[p] = IF p = Root THEN <<Root>> ELSE Append(Ancestry[Parent[p]], p)
    /\ Ancestry[p] \in Chains
<1>1. PICK depth \in [Paths -> 0..Cardinality(Paths)] :
        \A p \in Paths \ {Root} : depth[Parent[p]] < depth[p]
  BY BrowserAssumption
<1>2. Cardinality(Paths) \in Nat
  BY BrowserAssumption, FS_CardinalityType
<1>3. \A p \in Paths : depth[p] \in Nat /\ depth[p] <= Cardinality(Paths)
  BY <1>1, <1>2
<1>4. \A p \in Paths \ {Root} : Parent[p] \in Paths
  BY BrowserAssumption DEF Paths
<1>5. Root \in Paths /\ <<Root>> \in Chains
  BY BrowserAssumption DEF Paths, Chains
<1> DEFINE Level(k) == {p \in Paths : depth[p] <= k}
           Body(f, p) == IF p = Root THEN <<Root>> ELSE Append(f[Parent[p]], p)
           Good(f, k) == \A p \in Level(k) : f[p] = Body(f, p)
           T == {k \in Nat : \E f \in [Level(k) -> Chains] : Good(f, k)}
<1>6. 0 \in T
  <2>1. \A p \in Level(0) : p = Root
    BY <1>1, <1>3, <1>4
  <2>2. [p \in Level(0) |-> <<Root>>] \in [Level(0) -> Chains]
    BY <1>5
  <2>3. Good([p \in Level(0) |-> <<Root>>], 0)
    BY <2>1
  <2> QED
    BY <2>2, <2>3
<1>7. ASSUME NEW k \in T
      PROVE  k + 1 \in T
  <2>1. PICK f \in [Level(k) -> Chains] : Good(f, k)
    OBVIOUS
  <2> DEFINE g == [p \in Level(k + 1) |-> Body(f, p)]
  <2>2. \A p \in Level(k + 1) : p = Root \/ Parent[p] \in Level(k)
    BY <1>1, <1>3, <1>4
  <2>3. \A p \in Level(k) : p \in Level(k + 1)
    BY <1>3
  <2>4. \A p \in Level(k + 1) : Body(f, p) \in Chains
    BY <1>5, <2>1, <2>2, ChainGrows
  <2>5. g \in [Level(k + 1) -> Chains]
    BY <2>4
  <2>6. \A p \in Level(k) : g[p] = f[p]
    BY <2>1, <2>3
  <2>7. Good(g, k + 1)
    BY <2>2, <2>6
  <2>8. k + 1 \in Nat
    OBVIOUS
  <2> HIDE DEF g
  <2> QED
    BY <2>5, <2>7, <2>8
<1>8. Cardinality(Paths) \in T
  <2> HIDE DEF T
  <2>1. T \in SUBSET Nat
    BY DEF T
  <2> QED
    BY <1>2, <1>6, <1>7, <2>1, NatInductionSet
<1>9. PICK f \in [Level(Cardinality(Paths)) -> Chains] : Good(f, Cardinality(Paths))
  BY <1>8
<1>10. Level(Cardinality(Paths)) = Paths
  BY <1>3
<1>11. f = [p \in Paths |-> Body(f, p)]
  BY <1>9, <1>10
<1>12. Ancestry = [p \in Paths |-> Body(Ancestry, p)]
  BY <1>11 DEF Ancestry
<1>13. \A p \in Paths : Ancestry[p] = Body(Ancestry, p)
  BY <1>12
<1> DEFINE U == {k \in Nat : \A p \in Level(k) : Ancestry[p] \in Chains}
<1>14. 0 \in U
  <2>1. \A p \in Level(0) : p = Root
    BY <1>1, <1>3, <1>4
  <2> QED
    BY <1>5, <1>13, <2>1
<1>15. ASSUME NEW k \in U
       PROVE  k + 1 \in U
  <2>1. \A p \in Level(k + 1) : p = Root \/ Parent[p] \in Level(k)
    BY <1>1, <1>3, <1>4
  <2>2. \A p \in Level(k + 1) : Ancestry[p] \in Chains
    BY <1>5, <1>13, <2>1, ChainGrows
  <2> QED
    BY <2>2
<1>16. Cardinality(Paths) \in U
  <2> HIDE DEF U
  <2>1. U \in SUBSET Nat
    BY DEF U
  <2> QED
    BY <1>2, <1>14, <1>15, <2>1, NatInductionSet
<1> QED
  BY <1>10, <1>13, <1>16

-----------------------------------------------------------------------------
\* Who is above a path, and what is below it.
LEMMA AboveFacts ==
  /\ \A p \in Paths : p \in Range(Ancestry[p]) /\ Root \in Range(Ancestry[p])
                      /\ Range(Ancestry[p]) \subseteq Paths
  /\ \A p \in Paths \ {Root} : Parent[p] \in Paths /\ Parent[p] \in Range(Ancestry[p])
  /\ \A d \in Paths : d \notin Below(d) /\ Root \notin Below(d)
<1>1. \A p \in Paths \ {Root} : Parent[p] \in Paths
  BY BrowserAssumption DEF Paths
<1>2. Root \in Paths
  BY BrowserAssumption DEF Paths
<1>3. ASSUME NEW p \in Paths
      PROVE  Root \in Range(Ancestry[p]) /\ Range(Ancestry[p]) \subseteq Paths
  <2>1. Ancestry[p] \in Seq(Paths) /\ Len(Ancestry[p]) \in Nat \ {0} /\ Ancestry[p][1] = Root
    BY AncestryUnfolds DEF Chains
  <2>2. DOMAIN Ancestry[p] = 1..Len(Ancestry[p]) /\ 1 \in DOMAIN Ancestry[p]
    BY <2>1
  <2> QED
    BY <2>1, <2>2 DEF Range
<1>4. Range(<<Root>>) = {Root}
  BY DEF Range
<1>5. ASSUME NEW p \in Paths \ {Root}
      PROVE  Range(Ancestry[p]) = Range(Ancestry[Parent[p]]) \cup {p}
  BY <1>1, AncestryUnfolds, ChainGrows
<1>6. \A p \in Paths : p \in Range(Ancestry[p])
  BY <1>4, <1>5, AncestryUnfolds
<1>7. \A p \in Paths \ {Root} : Parent[p] \in Range(Ancestry[p])
  BY <1>1, <1>5, <1>6
<1>8. Range(Ancestry[Root]) = {Root}
  BY <1>2, <1>4, AncestryUnfolds
<1>9. \A d \in Paths : d \notin Below(d) /\ Root \notin Below(d)
  BY <1>8 DEF Below
<1> QED
  BY <1>1, <1>3, <1>6, <1>7, <1>9

\* The directories that are listed for a target that is not known yet.
LEMMA HierarchyTyped ==
  ASSUME NEW p \in Paths \ tree, Root \in tree, NEW parents \in Hierarchies(p)
  PROVE  parents \in Seq(Paths)
<1> DEFINE path == Ancestry[p]
           unknown == {i \in DOMAIN path : path[i] \notin tree}
<1>1. path \in Seq(Paths) /\ path # <<>> /\ path[1] = Root
  BY AncestryUnfolds DEF Chains
<1>2. p \in Range(path)
  BY AboveFacts
<1> HIDE DEF path
<1>3. DOMAIN path = 1..Len(path) /\ Len(path) \in Nat
  BY <1>1
<1>4. unknown # {} /\ unknown \in SUBSET Nat
  BY <1>2, <1>3 DEF Range
<1>5. \E i \in unknown : \A j \in unknown : i <= j
  BY <1>4, LeastNatural
<1>6. Min(unknown) \in unknown
  BY <1>5 DEF Min
<1>7. Min(unknown) \in 1..Len(path) /\ Min(unknown) # 1
  BY <1>1, <1>3, <1>6
<1> DEFINE first == Min(unknown)
<1>8. PICK i \in 2..first : parents = SubSeq(path, i - 1, Len(path) - 1)
  BY DEF Hierarchies, path
<1> HIDE DEF first
<1>9. i - 1 \in 1..Len(path) /\ Len(path) - 1 \in 0..Len(path)
  BY <1>3, <1>7, <1>8 DEF first
<1>10. SubSeq(path, i - 1, Len(path) - 1) \in Seq(Paths)
  BY <1>1, <1>3, <1>9, SubSeqProperties
<1> QED
  BY <1>8, <1>10

\* Adding the parents of a listing only adds to the tree.
LEMMA ParentsAreAdded ==
  ASSUME NEW op \in Commands, tree \in SUBSET Paths,
         \A d \in Range(op.parents) : listing[d] \subseteq Paths
  PROVE  tree \subseteq WithParents(op) /\ WithParents(op) \subseteq Paths
<1> DEFINE L == Len(op.parents)
           Body(f, n) == IF n = 0 THEN tree ELSE Refreshed(f[n - 1], op.parents[n])
           Grown == {t \in SUBSET Paths : tree \subseteq t}
           known[n \in 0..L] == Body(known, n)
<1>1. L \in Nat /\ \A n \in 1..L : op.parents[n] \in Range(op.parents)
  <2>1. op.parents \in Seq(Paths)
    BY DEF Commands
  <2>2. DOMAIN op.parents = 1..L /\ L \in Nat
    BY <2>1
  <2> QED
    BY <2>2 DEF Range
<1>2. ASSUME NEW t \in Grown, NEW n \in 1..L
      PROVE  Refreshed(t, op.parents[n]) \in Grown
  BY <1>1, <1>2 DEF Refreshed
<1> HIDE DEF L, Grown
<1>3. tree \in Grown
  BY DEF Grown
<1> DEFINE T == {k \in Nat : k > L \/ \E f \in [0..k -> Grown] : \A n \in 0..k : f[n] = Body(f, n)}
<1>4. 0 \in T
  <2>1. [n \in 0..0 |-> tree] \in [0..0 -> Grown]
    BY <1>3
  <2>2. \A n \in 0..0 : [m \in 0..0 |-> tree][n] = Body([m \in 0..0 |-> tree], n)
    OBVIOUS
  <2> QED
    BY <2>1, <2>2
<1>5. ASSUME NEW k \in T
      PROVE  k + 1 \in T
  <2>1. CASE k + 1 > L
    BY <2>1
  <2>2. CASE ~(k + 1 > L)
    <3>1. k \in Nat /\ ~(k > L) /\ k + 1 \in Nat
      BY <1>1, <2>2
    <3>2. PICK f \in [0..k -> Grown] : \A n \in 0..k : f[n] = Body(f, n)
      BY <3>1
    <3> DEFINE g == [n \in 0..(k + 1) |-> Body(f, n)]
    <3>3. \A n \in 0..(k + 1) : n = 0 \/ (n - 1 \in 0..k /\ n \in 1..L)
      BY <1>1, <2>2, <3>1
    <3>4. \A n \in 0..(k + 1) : Body(f, n) \in Grown
      BY <1>2, <1>3, <3>2, <3>3
    <3>5. g \in [0..(k + 1) -> Grown]
      BY <3>4
    <3>6. \A n \in 0..k : n \in 0..(k + 1) /\ g[n] = f[n]
      BY <3>1, <3>2
    <3>7. \A n \in 0..(k + 1) : g[n] = Body(g, n)
      BY <3>3, <3>6
    <3> HIDE DEF g
    <3> QED
      BY <3>1, <3>5, <3>7
  <2> QED
    BY <2>1, <2>2
<1>6. L \in T
  <2> HIDE DEF T
  <2>1. T \in SUBSET Nat
    BY DEF T
  <2> QED
    BY <1>1, <1>4, <1>5, <2>1, NatInductionSet
<1>7. PICK f \in [0..L -> Grown] : \A n \in 0..L : f[n] = Body(f, n)
  BY <1>1, <1>6
<1>8. f = [n \in 0..L |-> Body(f, n)]
  BY <1>7
<1>9. known = [n \in 0..L |-> Body(known, n)]
  BY <1>8
<1>10. \A n \in 0..L : known[n] = Body(known, n)
  BY <1>9
<1> HIDE DEF known
<1> DEFINE U == {k \in Nat : k > L \/ known[k] \in Grown}
<1>11. 0 \in U
  BY <1>1, <1>3, <1>10
<1>12. ASSUME NEW k \in U
       PROVE  k + 1 \in U
  <2>1. CASE k + 1 > L
    BY <2>1
  <2>2. CASE ~(k + 1 > L)
    <3>1. k \in Nat /\ known[k] \in Grown /\ k + 1 \in 1..L /\ k + 1 \in 0..L /\ (k + 1) - 1 = k /\ k + 1 # 0
      BY <1>1, <2>2
    <3>2. known[k + 1] = Refreshed(known[k], op.parents[k + 1])
      BY <1>10, <3>1
    <3> QED
      BY <1>2, <3>1, <3>2
  <2> QED
    BY <2>1, <2>2
<1>13. L \in U
  <2> HIDE DEF U
  <2>1. U \in SUBSET Nat
    BY DEF U
  <2> QED
    BY <1>1, <1>11, <1>12, <2>1, NatInductionSet
<1>14. known[L] \in Grown
  BY <1>1, <1>13
<1>15. WithParents(op) = IF CommitsPending(op) THEN known[L] ELSE tree
  BY DEF WithParents, known, L
<1> QED
  BY <1>3, <1>14, <1>15 DEF Grown

-----------------------------------------------------------------------------
\* What the window queues is a command.
LEMMA CommandsTyped ==
  /\ \A p \in Paths, parents \in Seq(Paths) : List(p, parents) \in Commands
  /\ \A p \in Paths : List(p, <<>>) \in Commands /\ ListAfterUpload(p) \in Commands
  /\ \A p, to \in Paths, type \in {"create", "delete", "rename", "chmod"} :
       Mutation(type, p, to) \in Commands
<1>1. <<>> \in Seq(Paths)
  OBVIOUS
<1>2. ASSUME NEW p \in Paths, NEW parents \in Seq(Paths)
      PROVE  List(p, parents) \in Commands
  BY DEF List, Commands
<1>3. ASSUME NEW p \in Paths
      PROVE  ListAfterUpload(p) \in Commands
  <2>1. List(p, <<>>) \in Commands
    BY <1>1, <1>2
  <2>2. (p # Root) \in BOOLEAN
    OBVIOUS
  <2>3. [List(p, <<>>) EXCEPT !.slash = (p # Root)] \in Commands
    BY <2>1, <2>2 DEF Commands
  <2> QED
    BY <2>3 DEF ListAfterUpload
<1>4. ASSUME NEW p \in Paths, NEW to \in Paths, NEW type \in {"create", "delete", "rename", "chmod"}
      PROVE  Mutation(type, p, to) \in Commands
  BY <1>1 DEF Mutation, Commands
<1> QED
  BY <1>1, <1>2, <1>3, <1>4

\* AddQueueOp leaves the front of the queue alone.
LEMMA AddFacts ==
  ASSUME NEW q \in Seq(Commands), NEW op \in Commands
  PROVE  /\ AddQueueOp(q, op) \in Seq(Commands)
         /\ q # <<>> => AddQueueOp(q, op) # <<>> /\ Head(AddQueueOp(q, op)) = Head(q)
<1>1. /\ Append(q, op) \in Seq(Commands) /\ Append(q, op) # <<>>
      /\ q # <<>> => Head(Append(q, op)) = Head(q)
  BY AppendFacts
<1> QED
  BY <1>1 DEF AddQueueOp

\* So a listing that has arrived stays the one at the front.
LEMMA FrontStays ==
  ASSUME BrowserInv, queue' \in Seq(Commands), UNCHANGED <<step, listing>>,
         queue # <<>> => queue' # <<>> /\ Head(queue') = Head(queue)
  PROVE  /\ step' # "waiting" => queue' # <<>>
         /\ ListingInv'
<1>1. step # "waiting" => queue # <<>>
  BY DEF BrowserInv
<1>2. ListingInv
  BY DEF BrowserInv
<1>3. step = "done" => queue # <<>> /\ Head(queue') = Head(queue)
  BY <1>1
<1> QED
  BY <1>1, <1>2, <1>3 DEF ListingInv

\* What the window points to while it is connected are paths.
LEMMA PointersTyped ==
  ASSUME BrowserInv, Connected
  PROVE  /\ current.path \in Paths /\ selection.path \in Paths
         /\ \A o \in rows : o.path \in Paths \ {Root}
<1>1. current.path \in tree /\ tree \subseteq Paths
  BY DEF BrowserInv, ViewIsLive
<1>2. selection.path \in Children(current.path, tree) \cup Range(Ancestry[current.path])
  BY DEF BrowserInv, ViewIsLive
<1>3. \A o \in rows : o.path \in Children(current.path, tree)
  BY DEF BrowserInv, ViewIsLive
<1>4. Range(Ancestry[current.path]) \subseteq Paths
  BY <1>1, AboveFacts
<1> QED
  BY <1>1, <1>2, <1>3, <1>4 DEF Children

\* What a command of the user leaves as it was.
LEMMA ViewKept ==
  ASSUME BrowserInv, Connected, UNCHANGED <<viewVars, exists, step, listing>>,
         queue' \in Seq(Commands), queue # <<>> => queue' # <<>> /\ Head(queue') = Head(queue),
         pending' \in {None, asked'},
         transfers' \in [Files -> {"no", "upload", "agreed", "sent", "download"}]
  PROVE  BrowserInv'
<1>1. (step' # "waiting" => queue' # <<>>) /\ ListingInv'
  BY FrontStays
<1>2. ViewIsLive'
  BY DEF BrowserInv, ViewIsLive, viewVars, Connected
<1>3. OfflineInv'
  BY DEF BrowserInv, OfflineInv, viewVars, Connected
<1> QED
  BY <1>1, <1>2, <1>3 DEF BrowserInv, viewVars

\* Commands that queue a listing, or a mutation and a listing.
LEMMA RequestStep ==
  ASSUME BrowserInv,
         \/ \E p \in Dirs : NavigateRemotePath(p, None)
         \/ \E p \in Files : NavigateRemotePath(Parent[p], p)
         \/ GetDirectory(selection) \/ GetDirectory(current)
         \/ Delete \/ Chmod \/ \E p \in Paths : Create(p) \/ Rename(p)
  PROVE  BrowserInv'
<1>0. queue \in Seq(Commands) /\ pending \in {None, asked} /\ tree \subseteq Paths
      /\ transfers \in [Files -> {"no", "upload", "agreed", "sent", "download"}]
      /\ (Connected => Root \in tree)
  BY DEF BrowserInv, OfflineInv
<1>1. ASSUME NEW p \in Paths, NEW f, NavigateRemotePath(p, f)
      PROVE  BrowserInv'
  <2>1. Connected
    BY <1>1 DEF NavigateRemotePath, Request
  <2>0. PICK parents \in IF p \in tree THEN {<<>>} ELSE Hierarchies(p) :
                queue' = AddQueueOp(queue, List(p, parents))
    BY <1>1 DEF NavigateRemotePath
  <2> DEFINE op == List(p, parents)
  <2>2. parents \in Seq(Paths)
    <3>1. CASE p \in tree
      BY <2>0, <3>1
    <3>2. CASE p \notin tree
      <4>1. p \in Paths \ tree /\ Root \in tree /\ parents \in Hierarchies(p)
        BY <1>0, <2>0, <2>1, <3>2
      <4> QED
        BY <4>1, HierarchyTyped
    <3> QED
      BY <3>1, <3>2
  <2>3. op \in Commands /\ queue' = AddQueueOp(queue, op)
    BY <2>0, <2>2, CommandsTyped
  <2> HIDE DEF op
  <2>4. pending' \in {None, asked'} /\ UNCHANGED <<viewVars, exists, step, listing, transfers>>
    BY <1>1 DEF NavigateRemotePath, serverVars
  <2> QED
    BY <1>0, <2>1, <2>3, <2>4, AddFacts, ViewKept
<1>2. ASSUME NEW o, o.path \in Paths, GetDirectory(o)
      PROVE  BrowserInv'
  <2>1. Connected /\ queue' = AddQueueOp(queue, List(o.path, <<>>))
    BY <1>2 DEF GetDirectory, Request
  <2>2. List(o.path, <<>>) \in Commands
    BY <1>2, CommandsTyped
  <2>3. UNCHANGED <<pending, asked, viewVars, exists, step, listing, transfers>>
    BY <1>2 DEF GetDirectory, serverVars
  <2> QED
    BY <1>0, <2>1, <2>2, <2>3, AddFacts, ViewKept
<1>3. ASSUME NEW type \in {"create", "delete", "rename", "chmod"}, NEW p \in Paths \ {Root}, NEW to \in Paths,
             NEW f, Mutate(Mutation(type, p, to), f)
      PROVE  BrowserInv'
  <2> DEFINE op == Mutation(type, p, to)
             list == List(Parent[p], <<>>)
  <2>1. op \in Commands /\ list \in Commands /\ op.path = p
    <3>1. Parent[p] \in Paths
      BY AboveFacts
    <3>2. op \in Commands /\ list \in Commands
      BY <3>1, CommandsTyped
    <3> QED
      BY <3>2 DEF Mutation
  <2>2. Connected /\ queue' = AddQueueOp(AddQueueOp(queue, op), list)
    BY <1>3, <2>1 DEF Mutate, Request
  <2> HIDE DEF op, list
  <2>3. UNCHANGED <<pending, asked, viewVars, exists, step, listing, transfers>>
    BY <1>3 DEF Mutate, serverVars
  <2>4. /\ AddQueueOp(queue, op) \in Seq(Commands)
        /\ queue # <<>> => AddQueueOp(queue, op) # <<>> /\ Head(AddQueueOp(queue, op)) = Head(queue)
    BY <1>0, <2>1, AddFacts
  <2>5. /\ queue' \in Seq(Commands)
        /\ queue # <<>> => queue' # <<>> /\ Head(queue') = Head(queue)
    BY <2>1, <2>2, <2>4, AddFacts
  <2> QED
    BY <1>0, <2>2, <2>3, <2>5, ViewKept
<1>4. \A p \in Dirs : p \in Paths
  BY DEF Paths
<1>5. \A p \in Files : NavigateRemotePath(Parent[p], p) => Parent[p] \in Paths
  BY DEF NavigateRemotePath, IsDir, Paths
<1>6. CASE GetDirectory(selection) \/ GetDirectory(current)
  <2>1. Connected
    BY <1>6 DEF GetDirectory, Request
  <2> QED
    BY <1>2, <1>6, <2>1, PointersTyped
<1>7. CASE Delete \/ Chmod
  <2>1. Connected /\ selection \in rows
    BY <1>7 DEF Delete, Chmod
  <2>2. selection.path \in Paths \ {Root}
    BY <2>1, PointersTyped
  <2> QED
    BY <1>3, <1>7, <2>2 DEF Delete, Chmod
<1>8. ASSUME NEW p \in Paths, Create(p) \/ Rename(p)
      PROVE  BrowserInv'
  <2>1. CASE Create(p)
    BY <1>3, <2>1 DEF Create
  <2>2. CASE Rename(p)
    <3>1. Connected /\ selection \in rows
      BY <2>2 DEF Rename
    <3>2. selection.path \in Paths \ {Root}
      BY <3>1, PointersTyped
    <3> QED
      BY <1>3, <2>2, <3>2 DEF Rename
  <2> QED
    BY <1>8, <2>1, <2>2
<1> QED
  BY <1>1, <1>4, <1>5, <1>6, <1>7, <1>8

-----------------------------------------------------------------------------
\* Commands that queue nothing.
LEMMA LocalStep ==
  ASSUME BrowserInv,
         \/ \E p \in Files : DownloadFileCache(p) \/ Upload(p)
         \/ \E o \in rows \cup {Object(p) : p \in Dirs} : Select(o)
         \/ \E f \in Filters : Search(f)
  PROVE  BrowserInv'
<1>0. queue \in Seq(Commands) /\ pending \in {None, asked} /\ tree \subseteq Paths
      /\ transfers \in [Files -> {"no", "upload", "agreed", "sent", "download"}]
  BY DEF BrowserInv, OfflineInv
<1>1. ASSUME NEW p \in Files, DownloadFileCache(p) \/ Upload(p)
      PROVE  BrowserInv'
  <2>1. Connected /\ UNCHANGED <<exists, queue, step, listing, viewVars, pending, asked>>
    BY <1>1 DEF DownloadFileCache, Upload, Request, queueVars
  <2>2. transfers' \in [Files -> {"no", "upload", "agreed", "sent", "download"}]
    BY <1>0, <1>1 DEF DownloadFileCache, Upload
  <2> QED
    BY <1>0, <2>1, <2>2, ViewKept
<1>2. ASSUME NEW o, Select(o)
      PROVE  BrowserInv'
  <2>1. Connected /\ selection' = o /\ o \in rows \cup {current} \cup {Object(Parent[p]) : p \in {current.path} \ {Root}}
    BY <1>2 DEF Select
  <2>2. UNCHANGED <<exists, transfers, queue, step, listing, tree, current, rows, pending, asked>>
    BY <1>2 DEF Select, serverVars, queueVars
  <2>3. current.live /\ current.path \in tree
        /\ \A r \in rows : r.live /\ r.path \in Children(current.path, tree)
    BY <2>1 DEF BrowserInv, ViewIsLive
  <2>4. o.live /\ o.path \in Children(current.path, tree) \cup Range(Ancestry[current.path])
    <3>1. current.path \in Paths
      BY <1>0, <2>3
    <3>2. CASE o \in rows
      BY <2>3, <3>2
    <3>3. CASE o = current
      BY <2>3, <3>1, <3>3, AboveFacts
    <3>4. CASE o = Object(Parent[current.path]) /\ current.path # Root
      BY <3>1, <3>4, AboveFacts DEF Object
    <3> QED
      BY <2>1, <3>2, <3>3, <3>4
  <2>5. ViewIsLive'
    BY <2>1, <2>2, <2>3, <2>4 DEF ViewIsLive, Connected
  <2>6. (step' # "waiting" => queue' # <<>>) /\ ListingInv'
    BY <1>0, <2>2, FrontStays
  <2>7. OfflineInv'
    BY <2>2 DEF BrowserInv, OfflineInv, Connected
  <2> QED
    BY <2>2, <2>5, <2>6, <2>7 DEF BrowserInv
<1>3. ASSUME NEW f, Search(f)
      PROVE  BrowserInv'
  <2>1. UNCHANGED <<exists, transfers, queue, step, listing, tree, current, selection, pending, asked>>
    BY <1>3 DEF Search, serverVars, queueVars
  <2>2. Connected /\ rows' = {Object(p) : p \in Children(current.path, tree) \cap filter'}
    BY <1>3 DEF Search, FillRemoteList
  <2>3. \A r \in rows' : r.live /\ r.path \in Children(current.path, tree)
    BY <2>2 DEF Object
  <2>4. ViewIsLive'
    BY <2>1, <2>2, <2>3 DEF BrowserInv, ViewIsLive, Connected
  <2>5. (step' # "waiting" => queue' # <<>>) /\ ListingInv'
    BY <1>0, <2>1, FrontStays
  <2>6. OfflineInv'
    BY <2>1 DEF BrowserInv, OfflineInv, Connected
  <2> QED
    BY <2>1, <2>4, <2>5, <2>6 DEF BrowserInv
<1> QED
  BY <1>1, <1>2, <1>3

\* The transfers, on their own connections.
LEMMA TransferStep ==
  ASSUME BrowserInv, Transfers
  PROVE  BrowserInv'
<1>0. queue \in Seq(Commands) /\ pending \in {None, asked} /\ exists \subseteq Paths
      /\ transfers \in [Files -> {"no", "upload", "agreed", "sent", "download"}]
  BY DEF BrowserInv, OfflineInv
<1>1. PICK p \in Files : UploadPerform(p) \/ UploadEnd(p) \/ TransferEnd(p)
  BY DEF Transfers
<1>2. Connected
  <2>1. transfers[p] # "no"
    BY <1>1 DEF UploadPerform, UploadEnd, TransferEnd
  <2> QED
    BY <2>1 DEF BrowserInv, OfflineInv, Nothing
<1>3. transfers' \in [Files -> {"no", "upload", "agreed", "sent", "download"}]
  BY <1>0, <1>1 DEF UploadPerform, UploadEnd, TransferEnd
<1>4. CASE UploadPerform(p)
  <2>1. UNCHANGED <<queue, step, listing, viewVars, pending, asked>> /\ exists' = exists \cup {p}
    BY <1>4 DEF UploadPerform, queueVars
  <2>2. exists' \in SUBSET Paths
    BY <1>0, <2>1 DEF Paths
  <2>3. (step' # "waiting" => queue' # <<>>) /\ ListingInv'
    BY <1>0, <2>1, FrontStays
  <2>4. ViewIsLive'
    BY <2>1 DEF BrowserInv, ViewIsLive, viewVars, Connected
  <2>5. OfflineInv'
    BY <1>2, <1>3, <2>1 DEF BrowserInv, OfflineInv, viewVars, Connected
  <2> QED
    BY <2>1, <2>2, <2>3, <2>4, <2>5 DEF BrowserInv, viewVars
<1>5. CASE UploadEnd(p)
  <2>1. Parent[p] \in Paths
    <3>1. p \in Paths \ {Root}
      BY BrowserAssumption DEF Paths
    <3> QED
      BY <3>1, AboveFacts
  <2>2. queue' = AddQueueOp(queue, ListAfterUpload(Parent[p])) /\ ListAfterUpload(Parent[p]) \in Commands
    BY <1>5, <2>1, CommandsTyped DEF UploadEnd
  <2>3. UNCHANGED <<exists, step, listing, viewVars, pending, asked>>
    BY <1>5 DEF UploadEnd
  <2> QED
    BY <1>0, <1>2, <1>3, <2>2, <2>3, AddFacts, ViewKept
<1>6. CASE TransferEnd(p)
  <2>1. UNCHANGED <<exists, queue, step, listing, viewVars, pending, asked>>
    BY <1>6 DEF TransferEnd, queueVars
  <2> QED
    BY <1>0, <1>2, <1>3, <2>1, ViewKept
<1> QED
  BY <1>1, <1>4, <1>5, <1>6

-----------------------------------------------------------------------------
\* The thread of the main queue.
LEMMA QueueStep ==
  ASSUME BrowserInv, Queue
  PROVE  BrowserInv'
<1>0. /\ queue \in Seq(Commands) /\ pending \in {None, asked} /\ exists \subseteq Paths
      /\ step # "waiting" => queue # <<>>
  BY DEF BrowserInv
<1>1. queue # <<>>
  BY <1>0 DEF Queue, Perform, PerformFails, RemoveOp
<1>2. Connected
  BY <1>1 DEF BrowserInv, OfflineInv
<1>3. UNCHANGED <<viewVars, pending, asked, transfers>>
  BY DEF Queue, Perform, PerformFails, RemoveOp, serverVars
<1>4. ViewIsLive' /\ OfflineInv'
  <2>1. UNCHANGED <<tree, current, rows, selection, transfers>>
    BY <1>3 DEF viewVars
  <2>2. ViewIsLive'
    BY <2>1 DEF BrowserInv, ViewIsLive, Connected
  <2>3. OfflineInv'
    BY <1>2, <2>1 DEF BrowserInv, OfflineInv, Connected
  <2> QED
    BY <2>2, <2>3
<1>5. exists' \in SUBSET Paths
  <2>1. Head(queue).path \in Paths /\ Head(queue).to \in Paths
    <3>1. Head(queue) \in Commands
      BY <1>0, <1>1
    <3> QED
      BY <3>1 DEF Commands
  <2>2. Effect(Head(queue)) \subseteq Paths
    BY <1>0, <2>1 DEF Effect
  <2> QED
    BY <1>0, <2>2 DEF Queue, Perform, PerformFails, RemoveOp, serverVars
<1>6. /\ queue' \in Seq(Commands) /\ step' \in {"waiting", "done", "failed", "ended"}
      /\ step' # "waiting" => queue' # <<>>
  BY <1>0, <1>1 DEF Queue, Perform, PerformFails, RemoveOp
<1>7. ListingInv'
  <2>1. CASE Perform
    <3>1. queue' = queue
      BY <2>1 DEF Perform
    <3>2. ASSUME Head(queue).type = "list"
          PROVE  \A d \in Range(Head(queue).parents) \cup {Head(queue).path} : listing'[d] \subseteq Paths
      <4>1. listing' = [d \in Range(Head(queue).parents) \cup {Head(queue).path} |-> Children(d, exists)]
        BY <2>1, <3>2 DEF Perform
      <4>2. \A d \in Range(Head(queue).parents) \cup {Head(queue).path} : listing'[d] = Children(d, exists)
        BY <4>1
      <4>3. \A d : Children(d, exists) \subseteq Paths
        BY <1>0 DEF Children
      <4> QED
        BY <4>2, <4>3
    <3> QED
      BY <3>1, <3>2 DEF ListingInv
  <2>2. CASE PerformFails \/ RemoveOp
    <3>1. step' # "done"
      BY <2>2 DEF PerformFails, RemoveOp
    <3> QED
      BY <3>1 DEF ListingInv
  <2> QED
    BY <2>1, <2>2 DEF Queue
<1> QED
  BY <1>0, <1>3, <1>4, <1>5, <1>6, <1>7 DEF BrowserInv, viewVars

\* The list after the refresh of a directory that is found: its rows, the focus and
\* the directory itself are the new objects.
LEMMA ListedShows ==
  ASSUME BrowserInv, Listed
  PROVE  /\ current' = Object(Head(queue).path) /\ current'.path \in tree' /\ Root \in tree'
         /\ tree' \subseteq Paths /\ ViewIsLive'
<1> DEFINE op == Head(queue)
<1>1. op \in Commands /\ op.path \in Paths
  <2>1. queue \in Seq(Commands) /\ queue # <<>>
    BY DEF BrowserInv, Listed
  <2>2. op \in Commands
    BY <2>1
  <2> QED
    BY <2>2 DEF Commands
<1>2. \A d \in Range(op.parents) \cup {op.path} : listing[d] \subseteq Paths
  BY DEF BrowserInv, ListingInv, Listed
<1>3. tree \subseteq WithParents(op) /\ WithParents(op) \subseteq Paths /\ op.path \in WithParents(op)
  BY <1>1, <1>2, ParentsAreAdded DEF BrowserInv, Listed
<1>4. Connected
  BY <1>1 DEF BrowserInv, OfflineInv, Listed
<1>5. UpdatesVisibleUi(op) /\ OnDirectoryRefresh(op)
  BY DEF Listed
<1>6. Root \in WithParents(op)
  BY <1>3, <1>4 DEF BrowserInv, OfflineInv
<1> HIDE DEF op
<1>7. CommitsPending(op) \/ current = Object(op.path)
  BY <1>5 DEF UpdatesVisibleUi
<1>8. tree' = (WithParents(op) \ Below(op.path)) \cup listing[op.path]
  BY <1>5 DEF OnDirectoryRefresh, Replaced
<1>9. op.path \in tree' /\ Root \in tree' /\ tree' \subseteq Paths
  BY <1>1, <1>2, <1>3, <1>6, <1>8, AboveFacts
<1>10. current' = Object(op.path) /\ rows' = {Object(p) : p \in Children(op.path, tree') \cap filter'}
       /\ selection' = IF Object(focus) \in rows' THEN Object(focus) ELSE Object(op.path)
  BY <1>5, <1>7 DEF OnDirectoryRefresh, SetRemoteCurrentDir, RestoreRemoteListFocus, FillRemoteList
<1>11. \A o \in rows' : o.live /\ o.path \in Children(op.path, tree')
  BY <1>10 DEF Object
<1>12. selection'.live /\ selection'.path \in Children(op.path, tree') \cup Range(Ancestry[op.path])
  <2>1. op.path \in Range(Ancestry[op.path])
    BY <1>1, AboveFacts
  <2>2. CASE Object(focus) \in rows'
    BY <1>10, <1>11, <2>2
  <2>3. CASE Object(focus) \notin rows'
    BY <1>10, <2>1, <2>3 DEF Object
  <2> QED
    BY <2>2, <2>3
<1>13. current'.live /\ current'.path = op.path
  BY <1>10 DEF Object
<1>14. ViewIsLive'
  BY <1>9, <1>11, <1>12, <1>13 DEF ViewIsLive
<1> QED
  BY <1>9, <1>10, <1>13, <1>14 DEF op

\* The Ends that the window handles.
LEMMA WindowStep ==
  ASSUME BrowserInv, Window
  PROVE  BrowserInv'
<1>0. /\ queue \in Seq(Commands) /\ queue # <<>> /\ pending \in {None, asked} /\ exists \subseteq Paths
  BY DEF BrowserInv, Window, Listed, ListedInVain, Unreachable, Mutated
<1>1. Connected
  BY <1>0 DEF BrowserInv, OfflineInv
<1>2. step' = "ended" /\ UNCHANGED <<exists, transfers, queue, asked>> /\ ListingInv'
  <2>1. step' = "ended" /\ UNCHANGED <<exists, transfers, queue, asked>>
    BY DEF Window, Listed, ListedInVain, Unreachable, Mutated, End, serverVars
  <2> QED
    BY <2>1 DEF ListingInv
<1>3. pending' \in {None, asked}
  BY <1>0 DEF Window, Listed, ListedInVain, Unreachable, Mutated, OnDirectoryRefresh
<1>4. CASE Listed
  <2>1. /\ current' = Object(Head(queue).path) /\ Root \in tree' /\ tree' \subseteq Paths /\ ViewIsLive'
    BY <1>4, ListedShows
  <2>2. current' # None
    <3>1. Head(queue) \in Commands
      BY <1>0
    <3>2. Object(Head(queue).path) \in [path : Paths, live : BOOLEAN]
      BY <3>1 DEF Commands, Object
    <3> QED
      BY <2>1, <3>2, BrowserAssumption
  <2>3. OfflineInv'
    BY <1>2, <2>1, <2>2 DEF BrowserInv, OfflineInv, Connected
  <2> QED
    BY <1>0, <1>2, <1>3, <2>1, <2>3 DEF BrowserInv
<1>5. CASE ListedInVain \/ Mutated
  <2>1. UNCHANGED <<tree, current, rows, selection>>
    BY <1>5 DEF ListedInVain, Mutated, viewVars
  <2>2. ViewIsLive'
    BY <2>1 DEF BrowserInv, ViewIsLive, Connected
  <2>3. OfflineInv'
    BY <1>1, <1>2, <2>1 DEF BrowserInv, OfflineInv, Connected
  <2> QED
    BY <1>0, <1>2, <1>3, <2>1, <2>2, <2>3 DEF BrowserInv
<1>6. CASE Unreachable
  <2>1. UNCHANGED <<current, rows, selection>>
    BY <1>6 DEF Unreachable
  <2>2. tree \subseteq tree' /\ tree' \subseteq Paths
    <3>1. CASE tree' = tree
      BY <3>1 DEF BrowserInv
    <3>2. CASE tree' # tree
      <4>1. step = "done" /\ Head(queue).type = "list" /\ tree' = WithParents(Head(queue))
        BY <1>6, <3>2 DEF Unreachable
      <4>2. \A d \in Range(Head(queue).parents) : listing[d] \subseteq Paths
        BY <4>1 DEF BrowserInv, ListingInv
      <4>3. Head(queue) \in Commands
        BY <1>0
      <4> QED
        BY <4>1, <4>2, <4>3, ParentsAreAdded DEF BrowserInv
    <3> QED
      BY <3>1, <3>2
  <2>3. \A d : Children(d, tree) \subseteq Children(d, tree')
    BY <2>2 DEF Children
  <2>4. ViewIsLive'
    BY <2>1, <2>2, <2>3 DEF BrowserInv, ViewIsLive, Connected
  <2>5. OfflineInv'
    BY <1>1, <1>2, <2>1, <2>2 DEF BrowserInv, OfflineInv, Connected
  <2> QED
    BY <1>0, <1>2, <1>3, <2>2, <2>4, <2>5 DEF BrowserInv
<1> QED
  BY <1>4, <1>5, <1>6 DEF Window

\* Connecting and disconnecting.
LEMMA ConnectionStep ==
  ASSUME BrowserInv, OnConnect \/ OnDisconnect
  PROVE  BrowserInv'
<1>0. InitialDir \in Paths
  BY BrowserAssumption DEF Paths
<1>1. CASE OnConnect
  <2>1. /\ tree' = Range(Ancestry[InitialDir]) /\ current' = Object(InitialDir)
        /\ selection' = Object(InitialDir) /\ rows' = {} /\ pending' = None
        /\ queue' = <<List(InitialDir, <<>>)>>
        /\ UNCHANGED <<exists, transfers, step, listing>>
    BY <1>1 DEF OnConnect, serverVars
  <2>2. /\ tree' \subseteq Paths /\ InitialDir \in tree' /\ Root \in tree'
        /\ InitialDir \in Range(Ancestry[InitialDir])
    BY <1>0, <2>1, AboveFacts
  <2>3. ViewIsLive'
    BY <2>1, <2>2 DEF ViewIsLive, Object
  <2>4. queue' \in Seq(Commands) /\ queue' # <<>>
    <3>1. List(InitialDir, <<>>) \in Commands
      BY <1>0, CommandsTyped
    <3> QED
      BY <2>1, <3>1
  <2>5. current' # None
    <3>1. Object(InitialDir) \in [path : Paths, live : BOOLEAN]
      BY <1>0 DEF Object
    <3> QED
      BY <2>1, <3>1, BrowserAssumption
  <2>6. step = "waiting"
    <3>1. ~Connected
      BY <1>1 DEF OnConnect
    <3> QED
      BY <3>1 DEF BrowserInv, OfflineInv
  <2>7. ListingInv'
    BY <2>1, <2>6 DEF ListingInv
  <2>8. OfflineInv'
    BY <2>1, <2>2, <2>5 DEF BrowserInv, OfflineInv, Connected
  <2> QED
    BY <2>1, <2>2, <2>3, <2>4, <2>7, <2>8 DEF BrowserInv
<1>2. CASE OnDisconnect
  <2>1. /\ queue' = <<>> /\ step' = "waiting" /\ tree' = {} /\ current' = None /\ pending' = None
        /\ transfers' = Nothing /\ exists' = exists
    BY <1>2 DEF OnDisconnect
  <2>2. Nothing \in [Files -> {"no", "upload", "agreed", "sent", "download"}]
    BY DEF Nothing
  <2>3. queue' \in Seq(Commands)
    BY <2>1
  <2>4. ListingInv' /\ ViewIsLive' /\ OfflineInv'
    BY <2>1, <2>2 DEF ListingInv, ViewIsLive, OfflineInv, Connected
  <2> QED
    BY <2>1, <2>3, <2>4 DEF BrowserInv
<1> QED
  BY <1>1, <1>2

\* The inductive invariant holds in every state.
LEMMA BrowserInductive == Spec => []BrowserInv
<1>1. Init => BrowserInv
  <2> SUFFICES ASSUME Init PROVE BrowserInv
    OBVIOUS
  <2>1. /\ queue = <<>> /\ step = "waiting" /\ tree = {} /\ current = None /\ pending = None
        /\ transfers = Nothing /\ exists = Present
    BY DEF Init
  <2>2. Nothing \in [Files -> {"no", "upload", "agreed", "sent", "download"}]
    BY DEF Nothing
  <2>3. queue \in Seq(Commands) /\ exists \in SUBSET Paths
    BY <2>1, BrowserAssumption
  <2>4. ListingInv /\ ViewIsLive /\ OfflineInv
    BY <2>1, <2>2 DEF ListingInv, ViewIsLive, OfflineInv, Connected
  <2> QED
    BY <2>1, <2>3, <2>4 DEF BrowserInv
<1>2. BrowserInv /\ [Next]_vars => BrowserInv'
  <2> SUFFICES ASSUME BrowserInv, [Next]_vars PROVE BrowserInv'
    OBVIOUS
  <2>1. CASE User
    <3>1. \/ OnConnect \/ OnDisconnect
          \/ \/ \E p \in Dirs : NavigateRemotePath(p, None)
             \/ \E p \in Files : NavigateRemotePath(Parent[p], p)
             \/ GetDirectory(selection) \/ GetDirectory(current)
             \/ Delete \/ Chmod \/ \E p \in Paths : Create(p) \/ Rename(p)
          \/ \/ \E p \in Files : DownloadFileCache(p) \/ Upload(p)
             \/ \E o \in rows \cup {Object(p) : p \in Dirs} : Select(o)
             \/ \E f \in Filters : Search(f)
      BY <2>1 DEF User
    <3> QED
      BY <3>1, ConnectionStep, RequestStep, LocalStep
  <2>2. CASE Queue
    BY <2>2, QueueStep
  <2>3. CASE Window
    BY <2>3, WindowStep
  <2>4. CASE Transfers
    BY <2>4, TransferStep
  <2>5. CASE UNCHANGED vars
    <3>1. UNCHANGED <<exists, queue, step, listing, tree, current, rows, selection, pending, transfers, asked>>
      BY <2>5 DEF vars, queueVars, viewVars
    <3>2. ListingInv' /\ ViewIsLive' /\ OfflineInv'
      BY <3>1 DEF BrowserInv, ListingInv, ViewIsLive, OfflineInv, Connected
    <3> QED
      BY <3>1, <3>2 DEF BrowserInv
  <2> QED
    BY <2>1, <2>2, <2>3, <2>4, <2>5 DEF Next
<1> QED
  BY <1>1, <1>2, PTL DEF Spec

\* For every tree of paths and every server: nothing the list shows, no selection a
\* command acts on and no current directory is an object that a refresh replaced.
THEOREM ViewStaysLive == Spec => []ViewIsLive
<1>1. BrowserInv => ViewIsLive
  BY DEF BrowserInv
<1> QED
  BY <1>1, BrowserInductive, PTL

\* ... and the list moves only to the directory that was asked for last.
THEOREM LatestRequestIsShown == Spec => LatestRequestWins
<1>1. ASSUME BrowserInv, Next, current # None, current' # None, current' # current
      PROVE  current'.path = asked
  <2>1. CASE Listed
    <3>1. current' = Object(Head(queue).path)
      BY <1>1, <2>1, ListedShows
    <3>2. CommitsPending(Head(queue))
      BY <1>1, <2>1, <3>1 DEF Listed, UpdatesVisibleUi
    <3>3. Head(queue).path = pending /\ pending \in {None, asked} /\ Head(queue).path \in Paths
      <4>1. queue \in Seq(Commands) /\ queue # <<>> /\ pending \in {None, asked}
        BY <1>1, <2>1 DEF BrowserInv, Listed
      <4>2. Head(queue) \in Commands
        BY <4>1
      <4> QED
        BY <3>2, <4>1, <4>2 DEF CommitsPending, Commands
    <3>4. Head(queue).path = asked
      BY <3>3, BrowserAssumption
    <3> QED
      BY <3>1, <3>4 DEF Object
  <2>2. CASE ~Listed
    <3>1. current' = current \/ OnConnect \/ OnDisconnect
      BY <1>1, <2>2 DEF Next, User, Queue, Window, Transfers, NavigateRemotePath, DownloadFileCache, Upload,
        GetDirectory, Select, Search, Delete, Chmod, Create, Rename, Mutate, Perform, PerformFails, RemoveOp,
        ListedInVain, Unreachable, Mutated, UploadPerform, UploadEnd, TransferEnd, viewVars
    <3>2. ~OnConnect /\ ~OnDisconnect
      BY <1>1 DEF OnConnect, OnDisconnect, Connected
    <3> QED
      BY <1>1, <3>1, <3>2
  <2> QED
    BY <2>1, <2>2
<1>2. BrowserInv /\ [Next]_vars
        => [current # None /\ current' # None /\ current' # current => current'.path = asked]_vars
  BY <1>1
<1> QED
  BY <1>2, BrowserInductive, PTL DEF Spec, LatestRequestWins
=============================================================================
