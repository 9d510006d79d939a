--------------------------- MODULE DownloadProofs ---------------------------
(***************************************************************************)
(* Proofs about Download, for every tree of remote entries, every local    *)
(* disk and every order in which the server lists a directory.  IInv is    *)
(* inductive: the plan is a tree in which each directory was scanned once  *)
(* (PlanInv), what is on the disk fits it once the dialogs are asked       *)
(* (DiskInv), a file that is there is agreed to or still asked for         *)
(* (ConsentInv), the queue holds selected files once each and the marker   *)
(* behind them (QueueInv), and what left the queue was counted (CountInv). *)
(***************************************************************************)
EXTENDS Download, SequenceTheorems, FiniteSetTheorems, WellFoundedInduction, TLAPS

-----------------------------------------------------------------------------
(***************************************************************************)
(* The least-number principle, and induction in a form steps can cite.     *)
(***************************************************************************)

\* Every set of naturals that is not empty has a least element.
LEMMA LeastNatural ==
  ASSUME NEW T \in SUBSET Nat, T # {}
  PROVE  \E x \in T : \A y \in T : x <= y
<1> DEFINE R == {ss \in Nat \X Nat : ss[1] < ss[2]}
<1>1. IsWellFoundedOn(R, Nat)
  BY NatLessThanWellFounded DEF OpToRel
<1>2. \A x, y \in Nat : (<<y, x>> \in R) <=> y < x
  OBVIOUS
<1> HIDE DEF R
<1>3. PICK x \in T : \A y \in T : ~ (<<y, x>> \in R)
  BY <1>1, WFMin
<1>4. x \in Nat /\ \A y \in T : y \in Nat /\ ~(y < x)
  BY <1>2, <1>3
<1>5. \A y \in T : x <= y
  BY <1>4
<1> QED
  BY <1>5

\* Induction over the naturals, stated for a set: what the library's theorem says of
\* an operator.
LEMMA NatInductionSet ==
  ASSUME NEW T \in SUBSET Nat, 0 \in T, \A n \in T : n + 1 \in T
  PROVE  T = Nat
<1> SUFFICES ASSUME Nat \ T # {}
             PROVE  FALSE
  OBVIOUS
<1>1. PICK m \in Nat \ T : \A k \in Nat \ T : m <= k
  BY LeastNatural
<1>2. m - 1 \in Nat /\ (m - 1) + 1 = m
  BY <1>1
<1>3. m - 1 \in T
  BY <1>1, <1>2
<1> QED
  BY <1>1, <1>2, <1>3

-----------------------------------------------------------------------------
(***************************************************************************)
(* Sequences that stand for a deque: push_back, pop_front and erase.       *)
(***************************************************************************)

\* Append adds one member and keeps a sequence free of repetitions.
LEMMA AppendFacts ==
  ASSUME NEW S, NEW s \in Seq(S), NEW e \in S
  PROVE  /\ Append(s, e) \in Seq(S)
         /\ Append(s, e) # <<>>
         /\ ToSet(Append(s, e)) = ToSet(s) \cup {e}
         /\ s # <<>> => Head(Append(s, e)) = Head(s)
         /\ e \notin ToSet(s) /\ IsInjective(s) => IsInjective(Append(s, e))
<1>1. DOMAIN s = 1..Len(s) /\ DOMAIN Append(s, e) = 1..(Len(s) + 1) /\ Len(s) \in Nat
  OBVIOUS
<1>2. \A i \in 1..(Len(s) + 1) : Append(s, e)[i] = IF i = Len(s) + 1 THEN e ELSE s[i]
  OBVIOUS
<1>3. \A i \in 1..(Len(s) + 1) : i = Len(s) + 1 \/ i \in 1..Len(s)
  BY <1>1
<1>4. ToSet(Append(s, e)) = ToSet(s) \cup {e}
  BY <1>1, <1>2, <1>3 DEF ToSet
<1>5. e \notin ToSet(s) /\ IsInjective(s) => IsInjective(Append(s, e))
  BY <1>1, <1>2, <1>3 DEF ToSet, IsInjective
<1>6. Append(s, e) \in Seq(S)
  OBVIOUS
<1>7. Append(s, e) # <<>>
  BY <1>1
<1>8. s # <<>> => Head(Append(s, e)) = Head(s)
  OBVIOUS
<1> QED
  BY <1>4, <1>5, <1>6, <1>8, <1>7

\* The front of a sequence is one of its members; popping it leaves the others.
LEMMA TailFacts ==
  ASSUME NEW S, NEW s \in Seq(S), s # <<>>
  PROVE  /\ Head(s) \in S /\ Head(s) \in ToSet(s)
         /\ Tail(s) \in Seq(S)
         /\ ToSet(s) = ToSet(Tail(s)) \cup {Head(s)}
         /\ IsInjective(s) => Head(s) \notin ToSet(Tail(s)) /\ IsInjective(Tail(s))
<1>1. /\ Tail(s) \in Seq(S) /\ Len(Tail(s)) = Len(s) - 1 /\ Len(s) \in Nat \ {0}
      /\ \A i \in 1..Len(Tail(s)) : Tail(s)[i] = s[i + 1]
      /\ Head(s) = s[1]
      /\ DOMAIN s = 1..Len(s) /\ DOMAIN Tail(s) = 1..Len(Tail(s))
  OBVIOUS
<1>2. Head(s) \in S /\ Head(s) \in ToSet(s)
  BY <1>1 DEF ToSet
<1>3. \A i \in 1..Len(s) : i = 1 \/ (i - 1 \in 1..Len(Tail(s)) /\ s[i] = Tail(s)[i - 1])
  BY <1>1
<1>4. \A i \in 1..Len(Tail(s)) : i + 1 \in 1..Len(s) /\ i + 1 # 1
  BY <1>1
<1>5. ToSet(s) \subseteq ToSet(Tail(s)) \cup {Head(s)}
  <2>1. ASSUME NEW i \in 1..Len(s) PROVE s[i] \in ToSet(Tail(s)) \cup {Head(s)}
    BY <1>1, <1>3 DEF ToSet
  <2> QED
    BY <1>1, <2>1 DEF ToSet
<1>6. ToSet(Tail(s)) \subseteq ToSet(s)
  BY <1>1, <1>4 DEF ToSet
<1>7. ASSUME IsInjective(s)
      PROVE  Head(s) \notin ToSet(Tail(s)) /\ IsInjective(Tail(s))
  BY <1>1, <1>4, <1>7 DEF ToSet, IsInjective
<1> QED
  BY <1>1, <1>2, <1>5, <1>6, <1>7

\* erase, as a sequence that skips position i.
LEMMA EraseShape ==
  ASSUME NEW S, NEW s \in Seq(S), NEW i \in 1..Len(s)
  PROVE  LET t == RemoveAt(s, i)
         IN  /\ t \in Seq(S) /\ Len(t) = Len(s) - 1
             /\ \A j \in 1..Len(t) : t[j] = IF j < i THEN s[j] ELSE s[j + 1]
<1> DEFINE a == SubSeq(s, 1, i - 1)
           b == SubSeq(s, i + 1, Len(s))
<1>1. Len(s) \in Nat \ {0} /\ i \in Nat /\ 1 <= i /\ i <= Len(s)
  OBVIOUS
<1>2. a \in Seq(S) /\ Len(a) = i - 1 /\ \A j \in 1..(i - 1) : a[j] = s[j]
  BY <1>1
<1>3. /\ b \in Seq(S) /\ Len(b) = Len(s) - i
      /\ \A j \in 1..(Len(s) - i) : b[j] = s[i + j]
  BY <1>1
<1> HIDE DEF a, b
<1>4. a \o b \in Seq(S) /\ Len(a \o b) = Len(s) - 1
  <2>1. a \in Seq(S) /\ b \in Seq(S)
    BY <1>2, <1>3
  <2>3. a \o b \in Seq(S) /\ Len(a \o b) = Len(a) + Len(b)
    BY <2>1
  <2>2. Len(a) + Len(b) = Len(s) - 1
    BY <1>1, <1>2, <1>3
  <2> QED
    BY <2>2, <2>3
<1>5. ASSUME NEW j \in 1..Len(a \o b)
      PROVE  (a \o b)[j] = IF j < i THEN s[j] ELSE s[j + 1]
  <2>1. (a \o b)[j] = IF j <= Len(a) THEN a[j] ELSE b[j - Len(a)]
    BY <1>2, <1>3, <1>4
  <2>2. CASE j < i
    BY <1>1, <1>2, <2>1, <2>2
  <2>3. CASE ~(j < i)
    <3>1. j - (i - 1) \in 1..(Len(s) - i) /\ i + (j - (i - 1)) = j + 1
      BY <1>1, <1>4, <2>3
    <3>2. ~(j <= Len(a)) /\ j - Len(a) = j - (i - 1)
      BY <1>1, <1>2, <2>3
    <3> QED
      BY <1>3, <2>1, <2>3, <3>1, <3>2
  <2> QED
    BY <2>2, <2>3
<1> QED
  BY <1>4, <1>5 DEF a, b, RemoveAt

\* Removing the element at position i leaves the others, in particular the front.
LEMMA EraseFacts ==
  ASSUME NEW S, NEW s \in Seq(S), NEW i \in 1..Len(s)
  PROVE  /\ s[i] \in S /\ s[i] \in ToSet(s)
         /\ ToSet(RemoveAt(s, i)) \subseteq ToSet(s)
         /\ i # 1 => /\ RemoveAt(s, i) # <<>>
                     /\ Head(RemoveAt(s, i)) = Head(s)
                     /\ IsInjective(s) => s[i] # Head(s)
         /\ IsInjective(s) => /\ s[i] \notin ToSet(RemoveAt(s, i))
                              /\ IsInjective(RemoveAt(s, i))
<1> DEFINE t == RemoveAt(s, i)
<1>0. /\ t \in Seq(S) /\ Len(t) = Len(s) - 1
      /\ \A j \in 1..Len(t) : t[j] = IF j < i THEN s[j] ELSE s[j + 1]
  BY EraseShape
<1> HIDE DEF t
<1> DEFINE shift(j) == IF j < i THEN j ELSE j + 1
<1>1. /\ Len(s) \in Nat \ {0} /\ Len(t) \in Nat /\ i \in Nat /\ 1 <= i /\ i <= Len(s)
      /\ DOMAIN s = 1..Len(s) /\ DOMAIN t = 1..Len(t)
  BY <1>0
<1>2. \A j \in 1..Len(t) : t[j] = s[shift(j)] /\ shift(j) \in 1..Len(s) /\ shift(j) # i
  BY <1>0, <1>1
<1>3. \A j, k \in 1..Len(t) : shift(j) = shift(k) => j = k
  BY <1>0, <1>1
<1> HIDE DEF shift
<1>4. s[i] \in S /\ s[i] \in ToSet(s)
  BY DEF ToSet
<1>5. ToSet(t) \subseteq ToSet(s)
  BY <1>1, <1>2 DEF ToSet
<1>6. i # 1 => t # <<>> /\ Head(t) = Head(s)
  BY <1>0, <1>1
<1>7. i # 1 /\ IsInjective(s) => s[i] # Head(s)
  BY <1>1 DEF IsInjective
<1>8. ASSUME IsInjective(s)
      PROVE  s[i] \notin ToSet(t) /\ IsInjective(t)
  <2>1. \A j \in 1..Len(t) : t[j] # s[i]
    BY <1>1, <1>2, <1>8 DEF IsInjective
  <2>2. \A j, k \in 1..Len(t) : t[j] = t[k] => j = k
    BY <1>1, <1>2, <1>3, <1>8 DEF IsInjective
  <2> QED
    BY <1>1, <2>1, <2>2 DEF ToSet, IsInjective
<1> QED
  BY <1>4, <1>5, <1>6, <1>7, <1>8 DEF t

\* ... and nothing else is removed.
LEMMA EraseKeeps ==
  ASSUME NEW S, NEW s \in Seq(S), NEW i \in 1..Len(s)
  PROVE  ToSet(s) \subseteq ToSet(RemoveAt(s, i)) \cup {s[i]}
<1> DEFINE t == RemoveAt(s, i)
<1>1. /\ t \in Seq(S) /\ Len(t) = Len(s) - 1
      /\ \A j \in 1..Len(t) : t[j] = IF j < i THEN s[j] ELSE s[j + 1]
  BY EraseShape
<1> HIDE DEF t
<1>2. ASSUME NEW k \in 1..Len(s), k # i
      PROVE  s[k] \in ToSet(t)
  <2>1. DOMAIN t = 1..Len(t) /\ Len(s) \in Nat
    BY <1>1
  <2>2. CASE k < i
    <3>1. k \in 1..Len(t) /\ t[k] = s[k]
      BY <1>1, <2>1, <2>2
    <3> QED
      BY <2>1, <3>1 DEF ToSet
  <2>3. CASE ~(k < i)
    <3>1. k - 1 \in 1..Len(t) /\ ~(k - 1 < i) /\ (k - 1) + 1 = k
      BY <1>1, <1>2, <2>1, <2>3
    <3>2. t[k - 1] = s[k]
      BY <1>1, <3>1
    <3> QED
      BY <2>1, <3>1, <3>2 DEF ToSet
  <2> QED
    BY <2>2, <2>3
<1> QED
  BY <1>2 DEF t, ToSet

-----------------------------------------------------------------------------
(***************************************************************************)
(* Folds over a sequence, and local paths.                                 *)
(***************************************************************************)

\* The entries with their root, and the local names a path is made of.
Nodes == Entries \cup {Root}
Names == {LocalName[e] : e \in Entries}

\* A fold that takes step i with G, and what it can be built from.
Steps(S, n) == [S \X (1..n) -> S]
FoldOf(f, S, b, n, G) ==
  f \in [0..n -> S] /\ f[0] = b /\ \A i \in 1..n : f[i] = G[<<f[i - 1], i>>]

\* The fold exists: what makes a recursive function over the positions of a sequence
\* equal to its definition.
LEMMA FoldExists ==
  ASSUME NEW S, NEW b \in S, NEW n \in Nat, NEW G \in Steps(S, n)
  PROVE  \E f : FoldOf(f, S, b, n, G)
<1> DEFINE T == {k \in Nat : k <= n =>
                   \E f \in [0..k -> S] :
                     f[0] = b /\ \A i \in 1..k : f[i] = G[<<f[i - 1], i>>]}
<1>0. G \in [S \X (1..n) -> S]
  BY DEF Steps
<1>1. 0 \in T
  <2> DEFINE g == [i \in 0..0 |-> b]
  <2>1. g \in [0..0 -> S] /\ g[0] = b /\ \A i \in 1..0 : g[i] = G[<<g[i - 1], i>>]
    OBVIOUS
  <2> HIDE DEF g
  <2> QED
    BY <2>1
<1>2. ASSUME NEW k \in T
      PROVE  k + 1 \in T
  <2>1. k \in Nat /\ k + 1 \in Nat
    OBVIOUS
  <2>2. SUFFICES ASSUME k + 1 <= n
                 PROVE  \E f \in [0..(k + 1) -> S] :
                          f[0] = b /\ \A i \in 1..(k + 1) : f[i] = G[<<f[i - 1], i>>]
    BY <2>1
  <2>3. PICK f \in [0..k -> S] : f[0] = b /\ \A i \in 1..k : f[i] = G[<<f[i - 1], i>>]
    BY <2>1, <2>2
  <2> DEFINE g == [i \in 0..(k + 1) |-> IF i = k + 1 THEN G[<<f[k], k + 1>>] ELSE f[i]]
  <2>4. k + 1 \in 1..n /\ k \in 0..k
    BY <2>1, <2>2
  <2>5. G[<<f[k], k + 1>>] \in S
    BY <1>0, <2>3, <2>4
  <2>6. g \in [0..(k + 1) -> S]
    BY <2>1, <2>3, <2>5
  <2>7. \A i \in 0..k : g[i] = f[i]
    BY <2>1
  <2>8. g[0] = b
    BY <2>1, <2>3, <2>7
  <2>9. ASSUME NEW i \in 1..(k + 1)
        PROVE  g[i] = G[<<g[i - 1], i>>]
    <3>1. i - 1 \in 0..k /\ i \in 0..(k + 1) /\ (i = k + 1 \/ i \in 1..k)
      BY <2>1
    <3>2. g[i - 1] = f[i - 1]
      BY <2>7, <3>1
    <3>3. CASE i = k + 1
      <4>1. g[i] = G[<<f[k], k + 1>>] /\ i - 1 = k
        BY <2>1, <3>1, <3>3
      <4> QED
        BY <3>2, <3>3, <4>1
    <3>4. CASE i \in 1..k
      <4>1. g[i] = f[i]
        BY <2>1, <2>7, <3>4
      <4> QED
        BY <2>3, <3>2, <3>4, <4>1
    <3> QED
      BY <3>1, <3>3, <3>4
  <2> HIDE DEF g
  <2> QED
    BY <2>6, <2>8, <2>9
<1>3. T = Nat
  <2> HIDE DEF T
  <2>1. T \in SUBSET Nat
    BY DEF T
  <2> QED
    BY <1>1, <1>2, <2>1, NatInductionSet
<1> QED
  <2>1. n \in T
    <3> HIDE DEF T
    <3> QED
      BY <1>3
  <2>2. n <= n
    OBVIOUS
  <2>3. PICK f \in [0..n -> S] : f[0] = b /\ \A i \in 1..n : f[i] = G[<<f[i - 1], i>>]
    BY <2>1, <2>2
  <2>4. FoldOf(f, S, b, n, G)
    BY <2>3 DEF FoldOf
  <2> QED
    BY <2>4

\* Induction over the positions of a sequence.
LEMMA UpTo ==
  ASSUME NEW n \in Nat, NEW T \in SUBSET (0..n), 0 \in T, \A i \in 1..n : i - 1 \in T => i \in T
  PROVE  \A i \in 0..n : i \in T
<1> DEFINE U == {k \in Nat : k <= n => k \in T}
<1>1. 0 \in U
  OBVIOUS
<1>2. ASSUME NEW k \in U
      PROVE  k + 1 \in U
  <2>1. k \in Nat /\ k + 1 \in Nat /\ (k + 1) - 1 = k /\ (k + 1 <= n => k <= n /\ k + 1 \in 1..n)
    OBVIOUS
  <2> QED
    BY <2>1
<1>3. U = Nat
  <2> HIDE DEF U
  <2>1. U \in SUBSET Nat
    BY DEF U
  <2> QED
    BY <1>1, <1>2, <2>1, NatInductionSet
<1>4. ASSUME NEW i \in 0..n
      PROVE  i \in T
  <2>1. i \in U
    <3>1. i \in Nat
      OBVIOUS
    <3> HIDE DEF U
    <3> QED
      BY <1>3, <3>1
  <2> QED
    BY <2>1
<1> QED
  BY <1>4

\* The local path of an entry is its directory's, and its own name.
LEMMA PathFacts ==
  /\ LocalPath \in [Nodes -> Seq(Names)] /\ LocalPath[Root] = <<>>
  /\ \A e \in Entries : LocalPath[e] = Append(LocalPath[Parent[e]], LocalName[e])
<1>1. PICK depth \in [Entries -> 1..Cardinality(Entries)] :
        \A e \in Entries : Parent[e] # Root => depth[Parent[e]] < depth[e]
  BY DownloadAssumption
<1>2. Cardinality(Entries) \in Nat
  BY DownloadAssumption, FS_CardinalityType
<1>3. \A e \in Entries : depth[e] \in Nat /\ 1 <= depth[e] /\ depth[e] <= Cardinality(Entries)
  BY <1>1, <1>2
<1>4. /\ Root \notin Entries
      /\ \A e \in Entries : Parent[e] \in Nodes /\ (Parent[e] # Root => Parent[e] \in Entries)
  BY DownloadAssumption DEF Nodes
<1> DEFINE Level(k) == {e \in Nodes : e # Root => depth[e] <= k}
           Body(f, e) == IF e = Root THEN <<>> ELSE Append(f[Parent[e]], LocalName[e])
           Good(f, k) == \A e \in Level(k) : f[e] = Body(f, e)
           T == {k \in Nat : \E f \in [Level(k) -> Seq(Names)] : Good(f, k)}
<1>5. 0 \in T
  <2>1. \A e \in Level(0) : e = Root
    BY <1>3 DEF Nodes
  <2>2. [e \in Level(0) |-> <<>>] \in [Level(0) -> Seq(Names)]
    OBVIOUS
  <2>3. Good([e \in Level(0) |-> <<>>], 0)
    BY <2>1
  <2> QED
    BY <2>2, <2>3
<1>6. ASSUME NEW k \in T
      PROVE  k + 1 \in T
  <2>1. PICK f \in [Level(k) -> Seq(Names)] : Good(f, k)
    OBVIOUS
  <2> DEFINE g == [e \in Level(k + 1) |-> Body(f, e)]
  <2>2. \A e \in Level(k + 1) : e = Root \/ (e \in Entries /\ Parent[e] \in Level(k))
    BY <1>1, <1>3, <1>4 DEF Nodes
  <2>3. \A e \in Level(k) : e \in Level(k + 1)
    BY <1>3 DEF Nodes
  <2>4. \A e \in Level(k + 1) : Body(f, e) \in Seq(Names)
    <3>1. ASSUME NEW e \in Level(k + 1) PROVE Body(f, e) \in Seq(Names)
      <4>1. CASE e = Root
        BY <4>1
      <4>2. CASE e # Root
        <5>1. e \in Entries /\ f[Parent[e]] \in Seq(Names)
          BY <2>1, <2>2, <4>2
        <5>2. LocalName[e] \in Names
          BY <5>1 DEF Names
        <5> QED
          BY <4>2, <5>1, <5>2
      <4> QED
        BY <4>1, <4>2
    <3> QED
      BY <3>1
  <2>5. g \in [Level(k + 1) -> Seq(Names)]
    BY <2>4
  <2>6. \A e \in Level(k) : g[e] = f[e]
    BY <2>1, <2>3
  <2>7. Good(g, k + 1)
    BY <2>2, <2>6
  <2>8. k + 1 \in Nat
    OBVIOUS
  <2> HIDE DEF g
  <2> QED
    BY <2>5, <2>7, <2>8
<1>7. Cardinality(Entries) \in T
  <2> HIDE DEF T
  <2>1. T \in SUBSET Nat
    BY DEF T
  <2> QED
    BY <1>2, <1>5, <1>6, <2>1, NatInductionSet
<1>8. PICK f \in [Level(Cardinality(Entries)) -> Seq(Names)] : Good(f, Cardinality(Entries))
  BY <1>7
<1>9. Level(Cardinality(Entries)) = Nodes
  BY <1>3 DEF Nodes
<1>10. f = [e \in Nodes |-> Body(f, e)]
  BY <1>8, <1>9
<1>11. LocalPath = [e \in Nodes |-> Body(LocalPath, e)]
  BY <1>10 DEF LocalPath, Nodes
<1>12. \A e \in Nodes : LocalPath[e] = Body(LocalPath, e)
  BY <1>11
<1>13. LocalPath[Root] = <<>> /\ LocalPath[Root] \in Seq(Names)
  <2>1. Root \in Nodes
    BY DEF Nodes
  <2>2. LocalPath[Root] = <<>>
    BY <1>12, <2>1
  <2> QED
    BY <2>2
<1> DEFINE U == {k \in Nat : \A e \in Level(k) : LocalPath[e] \in Seq(Names)}
<1>14. 0 \in U
  <2>1. \A e \in Level(0) : e = Root
    BY <1>3 DEF Nodes
  <2> QED
    BY <1>13, <2>1
<1>15. ASSUME NEW k \in U
       PROVE  k + 1 \in U
  <2>1. \A e \in Level(k + 1) : e = Root \/ (e \in Entries /\ Parent[e] \in Level(k))
    BY <1>1, <1>3, <1>4 DEF Nodes
  <2>2. ASSUME NEW e \in Level(k + 1) PROVE LocalPath[e] \in Seq(Names)
    <3>1. CASE e = Root
      BY <1>13, <3>1
    <3>2. CASE e # Root
      <4>1. e \in Entries /\ e \in Nodes /\ LocalPath[Parent[e]] \in Seq(Names)
        BY <2>1, <3>2
      <4>2. LocalName[e] \in Names
        BY <4>1 DEF Names
      <4>3. LocalPath[e] = Append(LocalPath[Parent[e]], LocalName[e])
        BY <1>12, <3>2, <4>1
      <4> QED
        BY <4>1, <4>2, <4>3
    <3> QED
      BY <3>1, <3>2
  <2> QED
    BY <2>2
<1>16. Cardinality(Entries) \in U
  <2> HIDE DEF U
  <2>1. U \in SUBSET Nat
    BY DEF U
  <2> QED
    BY <1>2, <1>14, <1>15, <2>1, NatInductionSet
<1>17. \A e \in Nodes : LocalPath[e] \in Seq(Names)
  BY <1>9, <1>16
<1>18. LocalPath \in [Nodes -> Seq(Names)]
  BY <1>11, <1>17
<1> QED
  BY <1>4, <1>12, <1>18, <1>13 DEF Nodes

\* Prefixes of a path that is one name longer than another.
LEMMA PrefixFacts ==
  ASSUME NEW S, NEW s \in Seq(S), NEW t \in Seq(S), NEW x \in S
  PROVE  /\ IsPrefix(s, s)
         /\ IsPrefix(t, s) => IsPrefix(t, Append(s, x))
         /\ IsPrefix(t, Append(s, x)) => t = Append(s, x) \/ IsPrefix(t, s)
<1> DEFINE u == Append(s, x)
<1>1. /\ u \in Seq(S) /\ Len(u) = Len(s) + 1 /\ Len(s) \in Nat /\ Len(t) \in Nat
      /\ \A i \in 1..Len(s) : u[i] = s[i]
  OBVIOUS
<1>2. ASSUME NEW w \in Seq(S), Len(t) <= Len(w)
      PROVE  (SubSeq(t, 1, Len(t)) = SubSeq(w, 1, Len(t))) <=> \A i \in 1..Len(t) : t[i] = w[i]
  <2>1. /\ SubSeq(t, 1, Len(t)) = t
        /\ SubSeq(w, 1, Len(t)) \in Seq(S) /\ Len(SubSeq(w, 1, Len(t))) = Len(t)
        /\ \A i \in 1..Len(t) : SubSeq(w, 1, Len(t))[i] = w[i]
    BY <1>1, <1>2
  <2> QED
    BY <2>1, SeqEqual
<1>3. \A w \in Seq(S) : IsPrefix(t, w) <=> Len(t) <= Len(w) /\ \A i \in 1..Len(t) : t[i] = w[i]
  BY <1>2 DEF IsPrefix
<1>4. IsPrefix(s, s)
  BY DEF IsPrefix
<1> HIDE DEF u
<1>5. IsPrefix(t, s) => IsPrefix(t, u)
  BY <1>1, <1>3
<1>6. ASSUME IsPrefix(t, u), t # u
      PROVE  IsPrefix(t, s)
  <2>1. Len(t) <= Len(u) /\ \A i \in 1..Len(t) : t[i] = u[i]
    BY <1>1, <1>3, <1>6
  <2>2. Len(t) # Len(u)
    BY <1>1, <1>6, <2>1, SeqEqual
  <2>3. Len(t) <= Len(s)
    BY <1>1, <2>1, <2>2
  <2> QED
    BY <1>1, <1>3, <2>1, <2>3
<1> QED
  BY <1>4, <1>5, <1>6 DEF u

-----------------------------------------------------------------------------
(***************************************************************************)
(* The folds of the plan unfold as they are defined.                       *)
(***************************************************************************)

\* What a listing works on.
Plans == [items : Seq(Nodes), selected : SUBSET Nodes, skipped : Nat]

\* One more file of a listing keeps the plan in its type.
LEMMA AddItemType ==
  ASSUME NEW p \in Plans, NEW e \in Entries
  PROVE  AddItem(p, e) \in Plans
<1>1. e \in Nodes /\ p.items \in Seq(Nodes) /\ p.selected \in SUBSET Nodes /\ p.skipped \in Nat
      /\ p = [items |-> p.items, selected |-> p.selected, skipped |-> p.skipped]
  BY DEF Nodes, Plans
<1>2. /\ Append(p.items, e) \in Seq(Nodes) /\ p.selected \cup {e} \in SUBSET Nodes
      /\ p.skipped + 1 \in Nat
  BY <1>1
<1>3. /\ [p EXCEPT !.skipped = @ + 1] \in Plans
      /\ [p EXCEPT !.items = Append(@, e), !.skipped = @ + 1] \in Plans
      /\ [p EXCEPT !.items = Append(@, e), !.selected = @ \cup {e}] \in Plans
  BY <1>1, <1>2 DEF Plans
<1> QED
  BY <1>3 DEF AddItem

\* ApplyRemoteDirectoryListing is the fold of its definition.
LEMMA ListingUnfolds ==
  ASSUME Plan \in Plans, NEW d, NEW listing \in Seq(Entries), ~ReparsePointAbove(LocalPath[d])
  PROVE  \E f \in [0..Len(listing) -> Plans] :
           /\ f[0] = Plan
           /\ \A i \in 1..Len(listing) : f[i] = AddItem(f[i - 1], listing[i])
           /\ ApplyRemoteDirectoryListing(d, listing) = f[Len(listing)]
<1> DEFINE n == Len(listing)
           G == [x \in Plans \X (1..n) |-> AddItem(x[1], listing[x[2]])]
           Body(f) == [i \in 0..n |-> IF i = 0 THEN Plan ELSE AddItem(f[i - 1], listing[i])]
<1>1. n \in Nat /\ \A i \in 1..n : listing[i] \in Entries
  OBVIOUS
<1> HIDE DEF n
<1>2. G \in [Plans \X (1..n) -> Plans]
  <2>1. ASSUME NEW x \in Plans \X (1..n)
        PROVE  AddItem(x[1], listing[x[2]]) \in Plans
    <3>1. x[1] \in Plans /\ listing[x[2]] \in Entries
      BY <1>1
    <3> QED
      BY <3>1, AddItemType
  <2> QED
    BY <2>1
<1>3. \A p \in Plans, i \in 1..n : G[<<p, i>>] = AddItem(p, listing[i])
  OBVIOUS
<1> HIDE DEF G
<1>4. PICK f : FoldOf(f, Plans, Plan, n, G)
  <2>1. Plan \in Plans /\ G \in Steps(Plans, n)
    BY <1>2 DEF Steps
  <2> QED
    BY <1>1, <2>1, FoldExists
<1>5. \A i \in 1..n : i - 1 \in 0..n
  BY <1>1
<1>6. \A i \in 1..n : f[i] = AddItem(f[i - 1], listing[i])
  BY <1>3, <1>4, <1>5 DEF FoldOf
<1>7. \A i \in 0..n : i = 0 \/ i \in 1..n
  BY <1>1
<1>8. f = Body(f)
  BY <1>4, <1>6, <1>7 DEF FoldOf
<1> DEFINE h == CHOOSE g : g = Body(g)
<1>9. h = Body(h)
  BY <1>8
<1>10. ApplyRemoteDirectoryListing(d, listing) = h[n]
  BY DEF ApplyRemoteDirectoryListing, n
<1> HIDE DEF h
<1> DEFINE T == {i \in 0..n : h[i] \in Plans}
<1>11. h[0] = Plan /\ \A i \in 1..n : h[i] = AddItem(h[i - 1], listing[i])
  <2>1. 0 \in 0..n /\ \A i \in 1..n : i \in 0..n /\ i # 0
    BY <1>1
  <2> QED
    BY <1>9, <2>1
<1>12. 0 \in T
  BY <1>1, <1>11
<1>13. ASSUME NEW i \in 1..n, i - 1 \in T
       PROVE  i \in T
  <2>1. i \in 0..n /\ h[i - 1] \in Plans
    BY <1>1, <1>13
  <2> QED
    BY <1>1, <1>11, <2>1, AddItemType
<1>14. \A i \in 0..n : h[i] \in Plans
  <2>1. \A i \in 0..n : i \in T
    <3> HIDE DEF T
    <3>1. T \in SUBSET (0..n)
      BY DEF T
    <3> QED
      BY <1>1, <1>12, <1>13, <3>1, UpTo
  <2> QED
    BY <2>1
<1>15. DOMAIN h = 0..n /\ h = [i \in 0..n |-> h[i]]
  BY <1>9
<1>16. h \in [0..n -> Plans]
  BY <1>14, <1>15
<1> QED
  BY <1>10, <1>11, <1>16 DEF n

\* What the preparation of the local directories works on, and where it starts.
Preps == [disk : [LocalPaths -> Kinds], selected : SUBSET Nodes, skipped : Nat]
Prep == [disk |-> disk, selected |-> selected, skipped |-> skipped]

\* What ItemsIn works on, and its step.
Chosen == Seq(Nodes)
Choose(s, e, X) == IF e \in X THEN Append(s, e) ELSE s

\* What a directory or a file that is in the way does to the preparation.
LEMMA PrepTypes ==
  ASSUME NEW p \in Preps, NEW e \in Nodes
  PROVE  CreateDirectory(p, e) \in Preps /\ CheckFile(p, e) \in Preps
<1>1. /\ p.disk \in [LocalPaths -> Kinds] /\ p.selected \in SUBSET Nodes /\ p.skipped \in Nat
      /\ p = [disk |-> p.disk, selected |-> p.selected, skipped |-> p.skipped]
  BY DEF Preps
<1>2. LocalPath[e] \in LocalPaths /\ "dir" \in Kinds
  BY DEF LocalPaths, Kinds, Nodes
<1>3. p.skipped + 1 \in Nat
  BY <1>1
<1>4. [p.disk EXCEPT ![LocalPath[e]] = "dir"] \in [LocalPaths -> Kinds]
  BY <1>1, <1>2
<1>5. [p EXCEPT !.disk[LocalPath[e]] = "dir"] =
        [disk |-> [p.disk EXCEPT ![LocalPath[e]] = "dir"],
         selected |-> p.selected, skipped |-> p.skipped]
  BY <1>1
<1>6. CreateDirectory(p, e) \in Preps
  <2>1. [p EXCEPT !.disk[LocalPath[e]] = "dir"] \in Preps
    BY <1>1, <1>4, <1>5 DEF Preps
  <2> DEFINE S == {f \in p.selected : ~IsPrefix(LocalPath[e], LocalPath[f])}
  <2>2. S \in SUBSET Nodes
    BY <1>1
  <2>3. [p EXCEPT !.skipped = @ + 1,
                  !.selected = {f \in @ : ~IsPrefix(LocalPath[e], LocalPath[f])}] \in Preps
    BY <1>1, <1>3, <2>2 DEF Preps
  <2> QED
    BY <2>1, <2>3 DEF CreateDirectory
<1>7. CheckFile(p, e) \in Preps
  <2>1. p.selected \ {e} \in SUBSET Nodes
    BY <1>1
  <2>2. [p EXCEPT !.skipped = @ + 1, !.selected = @ \ {e}] \in Preps
    BY <1>1, <1>3, <2>1 DEF Preps
  <2> QED
    BY <2>2 DEF CheckFile
<1> QED
  BY <1>6, <1>7

\* CreateDirectories is the fold of its definition.
LEMMA CreateDirectoriesUnfolds ==
  ASSUME Prep \in Preps, items \in Seq(Nodes)
  PROVE  \E f \in [0..Len(items) -> Preps] :
           /\ f[0] = Prep
           /\ \A i \in 1..Len(items) : f[i] = CreateDirectory(f[i - 1], items[i])
           /\ CreateDirectories = f[Len(items)]
<1> DEFINE n == Len(items)
           G == [x \in Preps \X (1..n) |-> CreateDirectory(x[1], items[x[2]])]
           Body(f) == [i \in 0..n |-> IF i = 0 THEN Prep ELSE CreateDirectory(f[i - 1], items[i])]
<1>0. Prep \in Preps
  OBVIOUS
<1>1. n \in Nat /\ \A i \in 1..n : items[i] \in Nodes
  OBVIOUS
<1> HIDE DEF n
<1>2. G \in [Preps \X (1..n) -> Preps]
  <2>1. ASSUME NEW x \in Preps \X (1..n)
        PROVE  CreateDirectory(x[1], items[x[2]]) \in Preps
    <3>1. x[1] \in Preps /\ items[x[2]] \in Nodes
      BY <1>1
    <3> QED
      BY <3>1, PrepTypes
  <2> QED
    BY <2>1
<1>3. \A p \in Preps, i \in 1..n : G[<<p, i>>] = CreateDirectory(p, items[i])
  OBVIOUS
<1> HIDE DEF G
<1>4. PICK f : FoldOf(f, Preps, Prep, n, G)
  <2>1. Prep \in Preps /\ G \in Steps(Preps, n)
    BY <1>0, <1>2 DEF Steps
  <2> QED
    BY <1>1, <2>1, FoldExists
<1>5. \A i \in 1..n : i - 1 \in 0..n
  BY <1>1
<1>6. \A i \in 1..n : f[i] = CreateDirectory(f[i - 1], items[i])
  BY <1>3, <1>4, <1>5 DEF FoldOf
<1>7. \A i \in 0..n : i = 0 \/ i \in 1..n
  BY <1>1
<1>8. f = Body(f)
  BY <1>4, <1>6, <1>7 DEF FoldOf
<1> DEFINE h == CHOOSE g : g = Body(g)
<1>9. h = Body(h)
  BY <1>8
<1>10. CreateDirectories = h[n]
  BY DEF CreateDirectories, Prep, n
<1> HIDE DEF h
<1> DEFINE T == {i \in 0..n : h[i] \in Preps}
<1>11. h[0] = Prep /\ \A i \in 1..n : h[i] = CreateDirectory(h[i - 1], items[i])
  <2>1. 0 \in 0..n /\ \A i \in 1..n : i \in 0..n /\ i # 0
    BY <1>1
  <2> QED
    BY <1>9, <2>1
<1>12. 0 \in T
  BY <1>0, <1>1, <1>11
<1>13. ASSUME NEW i \in 1..n, i - 1 \in T
       PROVE  i \in T
  <2>1. i \in 0..n /\ h[i - 1] \in Preps
    BY <1>1, <1>13
  <2> QED
    BY <1>1, <1>11, <2>1, PrepTypes
<1>14. \A i \in 0..n : h[i] \in Preps
  <2>1. \A i \in 0..n : i \in T
    <3> HIDE DEF T
    <3>1. T \in SUBSET (0..n)
      BY DEF T
    <3> QED
      BY <1>1, <1>12, <1>13, <3>1, UpTo
  <2> QED
    BY <2>1
<1>15. DOMAIN h = 0..n /\ h = [i \in 0..n |-> h[i]]
  BY <1>9
<1>16. h \in [0..n -> Preps]
  BY <1>14, <1>15
<1> QED
  BY <1>10, <1>11, <1>16 DEF n

\* ... and so is the pass over the files.
LEMMA PrepareUnfolds ==
  ASSUME CreateDirectories \in Preps, items \in Seq(Nodes)
  PROVE  \E f \in [0..Len(items) -> Preps] :
           /\ f[0] = CreateDirectories
           /\ \A i \in 1..Len(items) : f[i] = CheckFile(f[i - 1], items[i])
           /\ PrepareLocalDirectories = f[Len(items)]
<1> DEFINE n == Len(items)
           G == [x \in Preps \X (1..n) |-> CheckFile(x[1], items[x[2]])]
           Body(f) == [i \in 0..n |-> IF i = 0 THEN CreateDirectories ELSE CheckFile(f[i - 1], items[i])]
<1>0. CreateDirectories \in Preps
  OBVIOUS
<1>1. n \in Nat /\ \A i \in 1..n : items[i] \in Nodes
  OBVIOUS
<1> HIDE DEF n
<1>2. G \in [Preps \X (1..n) -> Preps]
  <2>1. ASSUME NEW x \in Preps \X (1..n)
        PROVE  CheckFile(x[1], items[x[2]]) \in Preps
    <3>1. x[1] \in Preps /\ items[x[2]] \in Nodes
      BY <1>1
    <3> QED
      BY <3>1, PrepTypes
  <2> QED
    BY <2>1
<1>3. \A p \in Preps, i \in 1..n : G[<<p, i>>] = CheckFile(p, items[i])
  OBVIOUS
<1> HIDE DEF G
<1>4. PICK f : FoldOf(f, Preps, CreateDirectories, n, G)
  <2>1. CreateDirectories \in Preps /\ G \in Steps(Preps, n)
    BY <1>0, <1>2 DEF Steps
  <2> QED
    BY <1>1, <2>1, FoldExists
<1>5. \A i \in 1..n : i - 1 \in 0..n
  BY <1>1
<1>6. \A i \in 1..n : f[i] = CheckFile(f[i - 1], items[i])
  BY <1>3, <1>4, <1>5 DEF FoldOf
<1>7. \A i \in 0..n : i = 0 \/ i \in 1..n
  BY <1>1
<1>8. f = Body(f)
  BY <1>4, <1>6, <1>7 DEF FoldOf
<1> DEFINE h == CHOOSE g : g = Body(g)
<1>9. h = Body(h)
  BY <1>8
<1>10. PrepareLocalDirectories = h[n]
  BY DEF PrepareLocalDirectories, n
<1> HIDE DEF h
<1> DEFINE T == {i \in 0..n : h[i] \in Preps}
<1>11. h[0] = CreateDirectories /\ \A i \in 1..n : h[i] = CheckFile(h[i - 1], items[i])
  <2>1. 0 \in 0..n /\ \A i \in 1..n : i \in 0..n /\ i # 0
    BY <1>1
  <2> QED
    BY <1>9, <2>1
<1>12. 0 \in T
  BY <1>0, <1>1, <1>11
<1>13. ASSUME NEW i \in 1..n, i - 1 \in T
       PROVE  i \in T
  <2>1. i \in 0..n /\ h[i - 1] \in Preps
    BY <1>1, <1>13
  <2> QED
    BY <1>1, <1>11, <2>1, PrepTypes
<1>14. \A i \in 0..n : h[i] \in Preps
  <2>1. \A i \in 0..n : i \in T
    <3> HIDE DEF T
    <3>1. T \in SUBSET (0..n)
      BY DEF T
    <3> QED
      BY <1>1, <1>12, <1>13, <3>1, UpTo
  <2> QED
    BY <2>1
<1>15. DOMAIN h = 0..n /\ h = [i \in 0..n |-> h[i]]
  BY <1>9
<1>16. h \in [0..n -> Preps]
  BY <1>14, <1>15
<1> QED
  BY <1>10, <1>11, <1>16 DEF n

\* An item is appended to the chosen ones, or not.
LEMMA ChosenType ==
  ASSUME NEW X \in SUBSET Nodes, NEW s \in Chosen, NEW e \in Nodes
  PROVE  Choose(s, e, X) \in Chosen
BY DEF Chosen, Choose

\* The items in a set are chosen in the order of the items.
LEMMA ItemsInUnfolds ==
  ASSUME NEW X \in SUBSET Nodes, items \in Seq(Nodes)
  PROVE  \E f \in [0..Len(items) -> Chosen] :
           /\ f[0] = <<>>
           /\ \A i \in 1..Len(items) : f[i] = Choose(f[i - 1], items[i], X)
           /\ ItemsIn(X) = f[Len(items)]
<1> DEFINE n == Len(items)
           G == [x \in Chosen \X (1..n) |-> Choose(x[1], items[x[2]], X)]
           Body(f) == [i \in 0..n |-> IF i = 0 THEN <<>> ELSE Choose(f[i - 1], items[i], X)]
<1>0. <<>> \in Chosen
  BY DEF Chosen
<1>1. n \in Nat /\ \A i \in 1..n : items[i] \in Nodes
  OBVIOUS
<1> HIDE DEF n
<1>2. G \in [Chosen \X (1..n) -> Chosen]
  <2>1. ASSUME NEW x \in Chosen \X (1..n)
        PROVE  Choose(x[1], items[x[2]], X) \in Chosen
    <3>1. x[1] \in Chosen /\ items[x[2]] \in Nodes
      BY <1>1
    <3> QED
      BY <3>1, ChosenType
  <2> QED
    BY <2>1
<1>3. \A p \in Chosen, i \in 1..n : G[<<p, i>>] = Choose(p, items[i], X)
  OBVIOUS
<1> HIDE DEF G
<1>4. PICK f : FoldOf(f, Chosen, <<>>, n, G)
  <2>1. <<>> \in Chosen /\ G \in Steps(Chosen, n)
    BY <1>0, <1>2 DEF Steps
  <2> QED
    BY <1>1, <2>1, FoldExists
<1>5. \A i \in 1..n : i - 1 \in 0..n
  BY <1>1
<1>6. \A i \in 1..n : f[i] = Choose(f[i - 1], items[i], X)
  BY <1>3, <1>4, <1>5 DEF FoldOf
<1>7. \A i \in 0..n : i = 0 \/ i \in 1..n
  BY <1>1
<1>8. f = Body(f)
  BY <1>4, <1>6, <1>7 DEF FoldOf
<1> DEFINE h == CHOOSE g : g = Body(g)
<1>9. h = Body(h)
  BY <1>8
<1>10. ItemsIn(X) = h[n]
  BY DEF ItemsIn, Choose, n
<1> HIDE DEF h
<1> DEFINE T == {i \in 0..n : h[i] \in Chosen}
<1>11. h[0] = <<>> /\ \A i \in 1..n : h[i] = Choose(h[i - 1], items[i], X)
  <2>1. 0 \in 0..n /\ \A i \in 1..n : i \in 0..n /\ i # 0
    BY <1>1
  <2> QED
    BY <1>9, <2>1
<1>12. 0 \in T
  BY <1>0, <1>1, <1>11
<1>13. ASSUME NEW i \in 1..n, i - 1 \in T
       PROVE  i \in T
  <2>1. i \in 0..n /\ h[i - 1] \in Chosen
    BY <1>1, <1>13
  <2> QED
    BY <1>1, <1>11, <2>1, ChosenType
<1>14. \A i \in 0..n : h[i] \in Chosen
  <2>1. \A i \in 0..n : i \in T
    <3> HIDE DEF T
    <3>1. T \in SUBSET (0..n)
      BY DEF T
    <3> QED
      BY <1>1, <1>12, <1>13, <3>1, UpTo
  <2> QED
    BY <2>1
<1>15. DOMAIN h = 0..n /\ h = [i \in 0..n |-> h[i]]
  BY <1>9
<1>16. h \in [0..n -> Chosen]
  BY <1>14, <1>15
<1> QED
  BY <1>10, <1>11, <1>16 DEF n

-----------------------------------------------------------------------------
(***************************************************************************)
(* What the folds compute.                                                 *)
(***************************************************************************)

\* A directory that holds a selected item is selected.
Closed(sel) == \A e \in sel \ {Root} : Parent[e] \in sel

\* The first i items.
Found(i) == {items[j] : j \in 1..i}

\* The chosen items are those in the set, once each.
LEMMA ItemsInFacts ==
  ASSUME NEW X \in SUBSET Nodes, items \in Seq(Nodes), IsInjective(items)
  PROVE  /\ ItemsIn(X) \in Seq(Nodes) /\ IsInjective(ItemsIn(X))
         /\ ToSet(ItemsIn(X)) = ToSet(items) \cap X
<1>1. PICK f \in [0..Len(items) -> Chosen] :
        /\ f[0] = <<>>
        /\ \A i \in 1..Len(items) : f[i] = Choose(f[i - 1], items[i], X)
        /\ ItemsIn(X) = f[Len(items)]
  BY ItemsInUnfolds
<1> DEFINE n == Len(items)
           Good(i) == IsInjective(f[i]) /\ ToSet(f[i]) = Found(i) \cap X
           T == {i \in 0..n : Good(i)}
<1>2. n \in Nat /\ DOMAIN items = 1..n /\ \A i \in 1..n : items[i] \in Nodes
  OBVIOUS
<1>3. 0 \in T
  <2>1. Good(0)
    BY <1>1 DEF IsInjective, ToSet, Found
  <2> QED
    BY <1>2, <2>1
<1>4. ASSUME NEW i \in 1..n, i - 1 \in T
      PROVE  i \in T
  <2>1. Good(i - 1) /\ i - 1 \in 0..n /\ i \in 0..n
    BY <1>2, <1>4
  <2>2. f[i] = Choose(f[i - 1], items[i], X) /\ f[i - 1] \in Seq(Nodes) /\ items[i] \in Nodes
    BY <1>1, <1>2, <2>1 DEF Chosen
  <2>3. Found(i) = Found(i - 1) \cup {items[i]} /\ items[i] \notin Found(i - 1)
    <3>1. \A j \in 1..i : j = i \/ j \in 1..(i - 1)
      BY <1>2
    <3>2. \A j \in 1..(i - 1) : j \in 1..i /\ j \in 1..n /\ j # i
      BY <1>2
    <3>3. i \in 1..i
      BY <1>2
    <3>4. Found(i) = Found(i - 1) \cup {items[i]}
      BY <3>1, <3>2, <3>3 DEF Found
    <3>5. items[i] \notin Found(i - 1)
      BY <1>2, <3>2 DEF Found, IsInjective
    <3> QED
      BY <3>4, <3>5
  <2>4. CASE items[i] \in X
    <3>1. f[i] = Append(f[i - 1], items[i])
      BY <2>2, <2>4 DEF Choose
    <3>2. items[i] \notin ToSet(f[i - 1])
      BY <2>1, <2>3
    <3>3. ToSet(f[i]) = ToSet(f[i - 1]) \cup {items[i]} /\ IsInjective(f[i])
      BY <2>1, <2>2, <3>1, <3>2, AppendFacts
    <3> QED
      BY <2>1, <2>3, <2>4, <3>3
  <2>5. CASE items[i] \notin X
    <3>1. f[i] = f[i - 1]
      BY <2>2, <2>5 DEF Choose
    <3> QED
      BY <2>1, <2>3, <2>5, <3>1
  <2> QED
    BY <2>4, <2>5
<1>5. Good(n)
  <2>1. \A i \in 0..n : i \in T
    <3> HIDE DEF T, n
    <3>1. T \in SUBSET (0..n)
      BY DEF T
    <3> QED
      BY <1>2, <1>3, <1>4, <3>1, UpTo
  <2> QED
    BY <1>2, <2>1
<1>6. Found(n) = ToSet(items)
  BY <1>2 DEF Found, ToSet
<1>7. f[n] \in Seq(Nodes)
  BY <1>1, <1>2 DEF Chosen
<1> QED
  BY <1>1, <1>5, <1>6, <1>7

\* What the preparation of the directories leaves: every directory that is still
\* selected exists, and so does the one above it.
LEMMA CreateFacts ==
  ASSUME Prep \in Preps, items \in Seq(Nodes), selected \subseteq ToSet(items), Closed(selected)
  PROVE  /\ CreateDirectories \in Preps
         /\ CreateDirectories.selected \subseteq selected /\ Closed(CreateDirectories.selected)
         /\ \A e \in CreateDirectories.selected :
              IsDir(e) => CreateDirectories.disk[LocalPath[e]] = "dir"
<1>1. PICK f \in [0..Len(items) -> Preps] :
        /\ f[0] = Prep
        /\ \A i \in 1..Len(items) : f[i] = CreateDirectory(f[i - 1], items[i])
        /\ CreateDirectories = f[Len(items)]
  BY CreateDirectoriesUnfolds
<1> DEFINE n == Len(items)
           Good(i) == /\ f[i].selected \subseteq selected /\ Closed(f[i].selected)
                      /\ \A e \in Found(i) \cap f[i].selected :
                           IsDir(e) => f[i].disk[LocalPath[e]] = "dir"
           T == {i \in 0..n : Good(i)}
<1>2. n \in Nat /\ DOMAIN items = 1..n /\ \A i \in 1..n : items[i] \in Nodes
  OBVIOUS
<1>3. 0 \in T
  <2>1. Found(0) = {}
    BY DEF Found
  <2>2. f[0].selected = selected
    BY <1>1 DEF Prep
  <2>3. Good(0)
    BY <2>1, <2>2
  <2> QED
    BY <1>2, <2>3
<1>4. ASSUME NEW i \in 1..n, i - 1 \in T
      PROVE  i \in T
  <2>1. Good(i - 1) /\ i - 1 \in 0..n /\ i \in 0..n
    BY <1>2, <1>4
  <2> DEFINE p == f[i - 1]
             e == items[i]
  <2>2. f[i] = CreateDirectory(p, e) /\ p \in Preps /\ e \in Nodes
    BY <1>1, <1>2, <2>1
  <2>3. /\ p.disk \in [LocalPaths -> Kinds] /\ p.selected \in SUBSET Nodes
        /\ p = [disk |-> p.disk, selected |-> p.selected, skipped |-> p.skipped]
    BY <2>2 DEF Preps
  <2>4. Found(i) \subseteq Found(i - 1) \cup {e}
    <3>1. \A j \in 1..i : j = i \/ j \in 1..(i - 1)
      BY <1>2
    <3> QED
      BY <3>1 DEF Found
  <2>5. /\ p.selected \subseteq selected /\ Closed(p.selected)
        /\ \A x \in Found(i - 1) \cap p.selected : IsDir(x) => p.disk[LocalPath[x]] = "dir"
    BY <2>1
  <2>6. \A x \in Nodes : LocalPath[x] \in LocalPaths
    BY DEF LocalPaths, Nodes
  <2>7. f[i] \in Preps
    BY <1>1, <2>1
  <2> HIDE DEF p, e
  <2>8. CASE e \notin p.selected \/ ~IsDir(e)
    <3>1. f[i] = p
      BY <2>2, <2>8 DEF CreateDirectory
    <3>2. \A x \in Found(i) \cap p.selected : IsDir(x) => p.disk[LocalPath[x]] = "dir"
      BY <2>4, <2>5, <2>8
    <3>3. Good(i)
      BY <2>5, <3>1, <3>2
    <3> QED
      BY <2>1, <3>3
  <2>9. CASE e \in p.selected /\ IsDir(e) /\ p.disk[LocalPath[e]] \in {"none", "dir"}
    <3>1. f[i] = [p EXCEPT !.disk[LocalPath[e]] = "dir"]
      BY <2>2, <2>9 DEF CreateDirectory
    <3>2. f[i].selected = p.selected /\ f[i].disk = [p.disk EXCEPT ![LocalPath[e]] = "dir"]
      BY <2>3, <3>1
    <3>3. \A x \in Nodes : f[i].disk[LocalPath[x]] =
                             IF LocalPath[x] = LocalPath[e] THEN "dir" ELSE p.disk[LocalPath[x]]
      BY <2>2, <2>3, <2>6, <3>2
    <3>4. \A x \in Found(i) \cap p.selected : IsDir(x) => f[i].disk[LocalPath[x]] = "dir"
      BY <2>3, <2>4, <2>5, <3>3
    <3>5. Good(i)
      BY <2>5, <3>2, <3>4
    <3> QED
      BY <2>1, <3>5
  <2>10. CASE e \in p.selected /\ IsDir(e) /\ p.disk[LocalPath[e]] \notin {"none", "dir"}
    <3> DEFINE S == {x \in p.selected : ~IsPrefix(LocalPath[e], LocalPath[x])}
    <3>1. f[i] = [p EXCEPT !.skipped = @ + 1,
                           !.selected = {x \in @ : ~IsPrefix(LocalPath[e], LocalPath[x])}]
      BY <2>2, <2>10 DEF CreateDirectory
    <3>2. f[i].selected = S /\ f[i].disk = p.disk
      BY <2>3, <3>1
    <3>3. e \notin S
      <4>1. LocalPath[e] \in Seq(Names)
        BY <2>2, PathFacts
      <4>2. IsPrefix(LocalPath[e], LocalPath[e])
        BY <4>1 DEF IsPrefix
      <4> QED
        BY <4>2
    <3>4. ASSUME NEW x \in S \ {Root}
          PROVE  Parent[x] \in S
      <4>1. x \in p.selected /\ x \in Entries /\ ~IsPrefix(LocalPath[e], LocalPath[x])
        BY <2>3 DEF Nodes
      <4>2. Parent[x] \in p.selected /\ Parent[x] \in Nodes
        BY <2>3, <2>5, <4>1 DEF Closed
      <4>3. /\ LocalPath[Parent[x]] \in Seq(Names) /\ LocalPath[e] \in Seq(Names)
            /\ LocalName[x] \in Names
            /\ LocalPath[x] = Append(LocalPath[Parent[x]], LocalName[x])
        BY <2>2, <4>1, <4>2, PathFacts DEF Names
      <4>4. ~IsPrefix(LocalPath[e], LocalPath[Parent[x]])
        BY <4>1, <4>3, PrefixFacts
      <4> QED
        BY <4>2, <4>4
    <3>5. \A x \in Found(i) \cap S : IsDir(x) => p.disk[LocalPath[x]] = "dir"
      BY <2>4, <2>5, <3>3
    <3>6. Good(i)
      BY <2>5, <3>2, <3>4, <3>5 DEF Closed
    <3> QED
      BY <2>1, <3>6
  <2> QED
    BY <2>8, <2>9, <2>10
<1>5. Good(n)
  <2>1. \A i \in 0..n : i \in T
    <3> HIDE DEF T, n
    <3>1. T \in SUBSET (0..n)
      BY DEF T
    <3> QED
      BY <1>2, <1>3, <1>4, <3>1, UpTo
  <2> QED
    BY <1>2, <2>1
<1>6. Found(n) = ToSet(items)
  BY <1>2 DEF Found, ToSet
<1>7. f[n] \in Preps
  BY <1>1, <1>2
<1> QED
  BY <1>1, <1>5, <1>6, <1>7

\* ... and behind the files, nothing but a file is in the way of one.
LEMMA PrepareFacts ==
  ASSUME Prep \in Preps, items \in Seq(Nodes), selected \subseteq ToSet(items), Closed(selected),
         \A e \in selected \ {Root} : IsDir(Parent[e])
  PROVE  LET p == PrepareLocalDirectories
         IN  /\ p \in Preps /\ p.selected \subseteq selected /\ Closed(p.selected)
             /\ \A e \in p.selected : /\ IsDir(e) => p.disk[LocalPath[e]] = "dir"
                                      /\ IsFile(e) => p.disk[LocalPath[e]] \in {"none", "file"}
<1> DEFINE c == CreateDirectories
<1>0. /\ c \in Preps /\ c.selected \subseteq selected /\ Closed(c.selected)
      /\ \A e \in c.selected : IsDir(e) => c.disk[LocalPath[e]] = "dir"
  BY CreateFacts
<1>1. PICK f \in [0..Len(items) -> Preps] :
        /\ f[0] = c
        /\ \A i \in 1..Len(items) : f[i] = CheckFile(f[i - 1], items[i])
        /\ PrepareLocalDirectories = f[Len(items)]
  BY <1>0, PrepareUnfolds
<1> HIDE DEF c
<1> DEFINE n == Len(items)
           Good(i) == /\ f[i].selected \subseteq c.selected /\ Closed(f[i].selected)
                      /\ f[i].disk = c.disk
                      /\ \A e \in Found(i) \cap f[i].selected :
                           IsFile(e) => c.disk[LocalPath[e]] \in {"none", "file"}
           T == {i \in 0..n : Good(i)}
<1>2. n \in Nat /\ DOMAIN items = 1..n /\ \A i \in 1..n : items[i] \in Nodes
  OBVIOUS
<1>3. c.disk \in [LocalPaths -> Kinds] /\ \A x \in Nodes : c.disk[LocalPath[x]] \in Kinds
  <2>1. \A x \in Nodes : LocalPath[x] \in LocalPaths
    BY DEF LocalPaths, Nodes
  <2> QED
    BY <1>0, <2>1 DEF Preps
<1>4. 0 \in T
  <2>1. Found(0) = {}
    BY DEF Found
  <2>3. Good(0)
    BY <1>0, <1>1, <2>1
  <2> QED
    BY <1>2, <2>3
<1>5. ASSUME NEW i \in 1..n, i - 1 \in T
      PROVE  i \in T
  <2>1. Good(i - 1) /\ i - 1 \in 0..n /\ i \in 0..n
    BY <1>2, <1>5
  <2> DEFINE p == f[i - 1]
             e == items[i]
  <2>2. f[i] = CheckFile(p, e) /\ p \in Preps /\ e \in Nodes
    BY <1>1, <1>2, <2>1
  <2>3. p.selected \in SUBSET Nodes
        /\ p = [disk |-> p.disk, selected |-> p.selected, skipped |-> p.skipped]
    BY <2>2 DEF Preps
  <2>4. Found(i) \subseteq Found(i - 1) \cup {e}
    <3>1. \A j \in 1..i : j = i \/ j \in 1..(i - 1)
      BY <1>2
    <3> QED
      BY <3>1 DEF Found
  <2>5. /\ p.selected \subseteq c.selected /\ Closed(p.selected) /\ p.disk = c.disk
        /\ \A x \in Found(i - 1) \cap p.selected :
             IsFile(x) => c.disk[LocalPath[x]] \in {"none", "file"}
    BY <2>1
  <2> HIDE DEF p, e
  <2>6. CASE e \in p.selected /\ IsFile(e) /\ p.disk[LocalPath[e]] \in {"dir", "reparse"}
    <3>1. f[i] = [p EXCEPT !.skipped = @ + 1, !.selected = @ \ {e}]
      BY <2>2, <2>6 DEF CheckFile
    <3>2. f[i].selected = p.selected \ {e} /\ f[i].disk = p.disk
      BY <2>3, <3>1
    <3>3. ASSUME NEW x \in p.selected \ {e, Root}
          PROVE  Parent[x] \in p.selected \ {e}
      <4>1. IsDir(Parent[x])
        BY <1>0, <2>5
      <4>2. ~IsDir(e)
        BY <2>6 DEF IsDir, IsFile
      <4>3. Parent[x] \in p.selected
        BY <2>5 DEF Closed
      <4> QED
        BY <4>1, <4>2, <4>3
    <3>4. \A x \in Found(i) \cap f[i].selected :
            IsFile(x) => c.disk[LocalPath[x]] \in {"none", "file"}
      BY <2>4, <2>5, <3>2
    <3>5. Closed(f[i].selected)
      BY <3>2, <3>3 DEF Closed
    <3>6. Good(i)
      BY <2>5, <3>2, <3>4, <3>5
    <3> QED
      BY <2>1, <3>6
  <2>7. CASE ~(e \in p.selected /\ IsFile(e) /\ p.disk[LocalPath[e]] \in {"dir", "reparse"})
    <3>1. f[i] = p
      BY <2>2, <2>7 DEF CheckFile
    <3>2. ASSUME e \in p.selected, IsFile(e)
          PROVE  c.disk[LocalPath[e]] \in {"none", "file"}
      BY <1>3, <2>2, <2>5, <2>7, <3>2 DEF Kinds
    <3>3. \A x \in Found(i) \cap p.selected :
            IsFile(x) => c.disk[LocalPath[x]] \in {"none", "file"}
      BY <2>4, <2>5, <3>2
    <3>4. Good(i)
      BY <2>5, <3>1, <3>3
    <3> QED
      BY <2>1, <3>4
  <2> QED
    BY <2>6, <2>7
<1>6. Good(n)
  <2>1. \A i \in 0..n : i \in T
    <3> HIDE DEF T, n
    <3>1. T \in SUBSET (0..n)
      BY DEF T
    <3> QED
      BY <1>2, <1>4, <1>5, <3>1, UpTo
  <2> QED
    BY <1>2, <2>1
<1>7. Found(n) = ToSet(items)
  BY <1>2 DEF Found, ToSet
<1>8. f[n] \in Preps
  BY <1>1, <1>2
<1> QED
  BY <1>0, <1>1, <1>6, <1>7, <1>8


\* The plan: its items are found once each, in directories that were scanned; what is
\* selected is a tree of directories with files in it, each at a local path of its own.
PlanInv ==
  /\ items \in Seq(Nodes) /\ IsInjective(items)
  /\ selected \subseteq ToSet(items) /\ scanned \subseteq ToSet(items)
  /\ \A e \in ToSet(items) \ {Root} : Parent[e] \in scanned
  /\ \A e \in selected : IsDir(e) \/ IsFile(e)
  /\ Closed(selected) /\ \A e \in selected \ {Root} : IsDir(Parent[e])
  /\ \A e, f \in selected : LocalPath[e] = LocalPath[f] => e = f
  /\ skipped \in Nat
  /\ stage = "idle" => scanned = {}

\* One more file of the listing of a directory whose files are not in the plan yet.
LEMMA AddItemFacts ==
  ASSUME NEW p \in Plans, NEW e \in Entries, e \notin ToSet(p.items), IsInjective(p.items),
         p.selected \subseteq ToSet(p.items),
         \A x, y \in p.selected : LocalPath[x] = LocalPath[y] => x = y
  PROVE  LET q == AddItem(p, e)
         IN  /\ IsInjective(q.items)
             /\ ToSet(p.items) \subseteq ToSet(q.items)
             /\ ToSet(q.items) \subseteq ToSet(p.items) \cup {e}
             /\ p.selected \subseteq q.selected /\ q.selected \subseteq p.selected \cup {e}
             /\ q.selected \subseteq ToSet(q.items)
             /\ \A x \in q.selected \ p.selected : IsDir(x) \/ IsFile(x)
             /\ \A x, y \in q.selected : LocalPath[x] = LocalPath[y] => x = y
<1>1. /\ p.items \in Seq(Nodes) /\ e \in Nodes
      /\ p = [items |-> p.items, selected |-> p.selected, skipped |-> p.skipped]
  BY DEF Plans, Nodes
<1>2. /\ IsInjective(Append(p.items, e)) /\ ToSet(Append(p.items, e)) = ToSet(p.items) \cup {e}
  BY <1>1, AppendFacts
<1>3. CASE ~Fits(e) \/ ~(IsDir(e) \/ IsFile(e))
  <2>1. AddItem(p, e).items = p.items /\ AddItem(p, e).selected = p.selected
    BY <1>1, <1>3 DEF AddItem
  <2> QED
    BY <2>1
<1>4. CASE /\ ~(~Fits(e) \/ ~(IsDir(e) \/ IsFile(e)))
           /\ \E f \in ToSet(p.items) : LocalPath[f] = LocalPath[e]
  <2>1. AddItem(p, e).items = Append(p.items, e) /\ AddItem(p, e).selected = p.selected
    BY <1>1, <1>4 DEF AddItem
  <2> QED
    BY <1>2, <2>1
<1>5. CASE /\ ~(~Fits(e) \/ ~(IsDir(e) \/ IsFile(e)))
           /\ ~\E f \in ToSet(p.items) : LocalPath[f] = LocalPath[e]
  <2>1. AddItem(p, e).items = Append(p.items, e) /\ AddItem(p, e).selected = p.selected \cup {e}
    BY <1>1, <1>5 DEF AddItem
  <2>2. \A x, y \in p.selected \cup {e} : LocalPath[x] = LocalPath[y] => x = y
    BY <1>5
  <2>3. IsDir(e) \/ IsFile(e)
    BY <1>5
  <2> QED
    BY <1>2, <2>1, <2>2, <2>3
<1> QED
  BY <1>3, <1>4, <1>5

\* The listing of a selected directory, scanned for the first time.
LEMMA ListingFacts ==
  ASSUME PlanInv, NEW d \in selected, IsDir(d), d \notin scanned,
         NEW listing \in SetToSeqs({e \in Entries : Parent[e] = d})
  PROVE  LET q == ApplyRemoteDirectoryListing(d, listing)
         IN  /\ q \in Plans /\ IsInjective(q.items)
             /\ ToSet(items) \subseteq ToSet(q.items)
             /\ \A e \in ToSet(q.items) : e \in ToSet(items) \/ (e \in Entries /\ Parent[e] = d)
             /\ selected \subseteq q.selected /\ q.selected \subseteq ToSet(q.items)
             /\ \A e \in q.selected : e \in selected \/ (e \in Entries /\ Parent[e] = d)
             /\ \A e \in q.selected : IsDir(e) \/ IsFile(e)
             /\ \A x, y \in q.selected : LocalPath[x] = LocalPath[y] => x = y
<1>1. /\ listing \in Seq(Entries)
      /\ \A i \in 1..Len(listing) : Parent[listing[i]] = d
      /\ \A i, j \in 1..Len(listing) : i # j => listing[i] # listing[j]
  <2> DEFINE L == {e \in Entries : Parent[e] = d}
             m == Cardinality(L)
  <2>1. listing \in [1..m -> L] /\ \A i, j \in 1..m : i # j => listing[i] # listing[j]
    BY DEF SetToSeqs
  <2>2. m \in Nat
    <3>1. IsFiniteSet(L)
      BY DownloadAssumption, FS_Subset
    <3> QED
      BY <3>1, FS_CardinalityType
  <2>3. Len(listing) = m /\ listing \in Seq(L)
    <3> HIDE DEF L, m
    <3> QED
      BY <2>1, <2>2
  <2> QED
    BY <2>1, <2>3
<1>2. Plan \in Plans
  <2>1. selected \in SUBSET Nodes
    <3>1. ToSet(items) \subseteq Nodes
      BY DEF PlanInv, ToSet
    <3> QED
      BY <3>1 DEF PlanInv
  <2> QED
    BY <2>1 DEF Plan, Plans, PlanInv
<1>3. Plan.items = items /\ Plan.selected = selected
  BY DEF Plan
<1>4. CASE ReparsePointAbove(LocalPath[d])
  <2> DEFINE q == [Plan EXCEPT !.skipped = @ + 1]
  <2>1. ApplyRemoteDirectoryListing(d, listing) = q
    BY <1>4 DEF ApplyRemoteDirectoryListing
  <2>2. q \in Plans /\ q.items = items /\ q.selected = selected
    BY <1>2, <1>3 DEF Plans
  <2> HIDE DEF q
  <2> QED
    BY <2>1, <2>2 DEF PlanInv
<1>5. CASE ~ReparsePointAbove(LocalPath[d])
  <2>1. PICK f \in [0..Len(listing) -> Plans] :
          /\ f[0] = Plan
          /\ \A i \in 1..Len(listing) : f[i] = AddItem(f[i - 1], listing[i])
          /\ ApplyRemoteDirectoryListing(d, listing) = f[Len(listing)]
    BY <1>1, <1>2, <1>5, ListingUnfolds
  <2> DEFINE n == Len(listing)
             New(i) == {listing[j] : j \in 1..i}
             Good(i) == /\ IsInjective(f[i].items)
                        /\ ToSet(items) \subseteq ToSet(f[i].items)
                        /\ ToSet(f[i].items) \subseteq ToSet(items) \cup New(i)
                        /\ selected \subseteq f[i].selected
                        /\ f[i].selected \subseteq ToSet(f[i].items)
                        /\ f[i].selected \subseteq selected \cup New(i)
                        /\ \A e \in f[i].selected : IsDir(e) \/ IsFile(e)
                        /\ \A x, y \in f[i].selected : LocalPath[x] = LocalPath[y] => x = y
             T == {i \in 0..n : Good(i)}
  <2>2. n \in Nat /\ \A i \in 1..n : listing[i] \in Entries
    BY <1>1
  <2>3. 0 \in T
    <3>1. New(0) = {}
      OBVIOUS
    <3>2. Good(0)
      BY <1>3, <2>1, <3>1 DEF PlanInv
    <3> QED
      BY <2>2, <3>2
  <2>4. ASSUME NEW i \in 1..n, i - 1 \in T
        PROVE  i \in T
    <3>1. Good(i - 1) /\ i - 1 \in 0..n /\ i \in 0..n
      BY <2>2, <2>4
    <3> DEFINE p == f[i - 1]
               e == listing[i]
    <3>2. f[i] = AddItem(p, e) /\ p \in Plans /\ e \in Entries
      BY <2>1, <2>2, <3>1
    <3>3. New(i) = New(i - 1) \cup {e} /\ e \notin New(i - 1)
      <4>1. \A j \in 1..i : j = i \/ j \in 1..(i - 1)
        BY <2>2
      <4>2. \A j \in 1..(i - 1) : j \in 1..i /\ j \in 1..n /\ j # i
        BY <2>2
      <4>3. i \in 1..i
        BY <2>2
      <4>4. New(i) = New(i - 1) \cup {e}
        BY <4>1, <4>2, <4>3
      <4>5. e \notin New(i - 1)
        BY <1>1, <4>2
      <4> QED
        BY <4>4, <4>5
    <3>4. e \notin ToSet(items)
      <4>1. Parent[e] = d /\ e # Root
        BY <1>1, <3>2, DownloadAssumption
      <4> QED
        BY <4>1 DEF PlanInv
    <3> DEFINE N == New(i - 1)
    <3>5. /\ IsInjective(p.items)
          /\ ToSet(items) \subseteq ToSet(p.items)
          /\ ToSet(p.items) \subseteq ToSet(items) \cup N
          /\ selected \subseteq p.selected
          /\ p.selected \subseteq ToSet(p.items)
          /\ p.selected \subseteq selected \cup N
          /\ \A x \in p.selected : IsDir(x) \/ IsFile(x)
          /\ \A x, y \in p.selected : LocalPath[x] = LocalPath[y] => x = y
      BY <3>1
    <3>6. e \notin N
      BY <3>3
    <3> HIDE DEF p, e, N
    <3>7. e \notin ToSet(p.items)
      BY <3>4, <3>5, <3>6
    <3>8. LET q == AddItem(p, e)
          IN  /\ IsInjective(q.items)
              /\ ToSet(p.items) \subseteq ToSet(q.items)
              /\ ToSet(q.items) \subseteq ToSet(p.items) \cup {e}
              /\ p.selected \subseteq q.selected /\ q.selected \subseteq p.selected \cup {e}
              /\ q.selected \subseteq ToSet(q.items)
              /\ \A x \in q.selected \ p.selected : IsDir(x) \/ IsFile(x)
              /\ \A x, y \in q.selected : LocalPath[x] = LocalPath[y] => x = y
      BY <3>2, <3>5, <3>7, AddItemFacts
    <3>9. New(i) = N \cup {e}
      BY <3>3 DEF N
    <3> HIDE DEF New
    <3>10. Good(i)
      BY <3>2, <3>5, <3>8, <3>9
    <3> QED
      BY <3>1, <3>10
  <2>5. Good(n)
    <3>1. \A i \in 0..n : i \in T
      <4> HIDE DEF T, n
      <4>1. T \in SUBSET (0..n)
        BY DEF T
      <4> QED
        BY <2>2, <2>3, <2>4, <4>1, UpTo
    <3> QED
      BY <2>2, <3>1
  <2>6. \A e \in New(n) : e \in Entries /\ Parent[e] = d
    BY <1>1, <2>2
  <2>7. f[n] \in Plans
    BY <2>1, <2>2
  <2> HIDE DEF New, n
  <2>8. ApplyRemoteDirectoryListing(d, listing) = f[n]
    BY <2>1 DEF n
  <2> QED
    BY <2>5, <2>6, <2>7, <2>8
<1> QED
  BY <1>4, <1>5

-----------------------------------------------------------------------------
(***************************************************************************)
(* The inductive invariant.                                                *)
(***************************************************************************)

\* The disk: once the directories are prepared, each selected directory is one, and
\* nothing but a file is where a selected file goes.
DiskInv ==
  /\ disk \in [LocalPaths -> Kinds]
  /\ stage \in {"asking", "queued"} =>
       \A e \in selected : /\ IsDir(e) => disk[LocalPath[e]] = "dir"
                           /\ IsFile(e) => disk[LocalPath[e]] \in {"none", "file"}

\* The dialogs: a selected file that is there already is agreed to or still asked for;
\* once it is queued, it is agreed to, or its own download has just written it.
ConsentInv ==
  /\ consent \subseteq Entries /\ asking \in Seq(Entries)
  /\ \A e \in ToSet(asking) : IsFile(e)
  /\ stage = "asking" =>
       \A e \in Files : disk[LocalPath[e]] = "file" => e \in consent \cup ToSet(asking)
  /\ \A e \in Downloads : disk[LocalPath[e]] = "file" =>
       e \in consent \/ (step = "performed" /\ e = Head(queue))

\* The transfer queue: selected files, once each, and the marker behind them.
LastOnly(q) == \A i \in DOMAIN q : q[i] = Complete => i = Len(q)
QueueInv ==
  /\ queue \in Seq(Entries \cup {Complete}) /\ IsInjective(queue) /\ LastOnly(queue)
  /\ Downloads \subseteq Files
  /\ stage # "queued" => queue = <<>> /\ step = "idle"
  /\ step # "idle" => queue # <<>>

\* The counters: a file that left the queue was counted, once, or twice if it was aborted.
Done == Files \ ToSet(queue)
CountInv ==
  /\ canceled \subseteq Entries \cup {Complete} /\ shown \in BOOLEAN
  /\ batch \in [completed : Nat, failures : Nat, canceled : Nat]
  /\ stage \notin {"queued", "closed"} =>
       batch = [completed |-> 0, failures |-> 0, canceled |-> 0] /\ ~shown
  /\ shown => queue = <<>>
  /\ stage = "queued" \/ shown =>
       Cardinality(Done) <= Counted /\ Counted <= Cardinality(Done) + Cardinality(Aborted)

IInv ==
  /\ stage \in Stages /\ step \in {"idle", "picked", "starting", "running", "performed"}
  /\ PlanInv /\ DiskInv /\ ConsentInv /\ QueueInv /\ CountInv

\* What the invariant says of the sets the steps below work on.
LEMMA SetFacts ==
  ASSUME PlanInv
  PROVE  /\ ToSet(items) \subseteq Nodes /\ selected \subseteq Nodes
         /\ Files \subseteq Entries /\ Files \subseteq selected
         /\ \A e \in Nodes : LocalPath[e] \in LocalPaths
         /\ \A e : ~(IsDir(e) /\ IsFile(e))
<1>1. ToSet(items) \subseteq Nodes
  BY DEF PlanInv, ToSet
<1>2. selected \subseteq Nodes
  BY <1>1 DEF PlanInv
<1>3. Files \subseteq Entries /\ Files \subseteq selected
  BY <1>2 DEF Files, IsFile, Nodes
<1>4. \A e \in Nodes : LocalPath[e] \in LocalPaths
  BY DEF LocalPaths, Nodes
<1>5. \A e : ~(IsDir(e) /\ IsFile(e))
  BY DEF IsDir, IsFile
<1> QED
  BY <1>1, <1>2, <1>3, <1>4, <1>5

\* Init.
LEMMA InitIInv == Init => IInv
<1> SUFFICES ASSUME Init
             PROVE  IInv
  OBVIOUS
<1> USE DEF Init
<1>1. ToSet(<<>>) = {} /\ IsInjective(<<>>) /\ LastOnly(<<>>)
  BY DEF ToSet, IsInjective, LastOnly
<1>2. PlanInv
  BY <1>1 DEF PlanInv, Closed
<1>3. DiskInv
  BY DiskAssumption DEF DiskInv
<1>4. ConsentInv
  BY <1>1 DEF ConsentInv, Downloads
<1>5. QueueInv
  BY <1>1 DEF QueueInv, Downloads
<1>6. CountInv
  BY DEF CountInv
<1>7. stage \in Stages /\ step \in {"idle", "picked", "starting", "running", "performed"}
  BY DEF Stages
<1> QED
  BY <1>2, <1>3, <1>4, <1>5, <1>6, <1>7 DEF IInv

-----------------------------------------------------------------------------
(***************************************************************************)
(* The plan.                                                               *)
(***************************************************************************)

\* The first item.
LEMMA BuildPlan == PlanInv /\ Build => PlanInv'
<1> SUFFICES ASSUME PlanInv, Build
             PROVE  PlanInv'
  OBVIOUS
<1>1. /\ items' = <<Root>> /\ selected' = {Root} /\ scanned' = {} /\ skipped' = skipped
      /\ stage' = "scanning"
  BY DEF Build, PlanInv
<1>2. Root \in Nodes /\ <<Root>> \in Seq(Nodes) /\ IsInjective(<<Root>>)
      /\ ToSet(<<Root>>) = {Root}
  BY DEF Nodes, IsInjective, ToSet
<1>3. IsDir(Root)
  BY DEF IsDir
<1> QED
  BY <1>1, <1>2, <1>3 DEF PlanInv, Closed

\* One directory.
LEMMA ScanPlan == PlanInv /\ ScanDirectory => PlanInv'
<1> SUFFICES ASSUME PlanInv, ScanDirectory
             PROVE  PlanInv'
  OBVIOUS
<1> DEFINE d == items[Min(ToScan)]
<1>1. d \in selected \ scanned /\ IsDir(d)
  <2>1. ToScan # {} /\ ToScan \subseteq Nat
    BY DEF ScanDirectory, ToScan, PlanInv
  <2>2. Min(ToScan) \in ToScan
    <3>1. PICK m \in ToScan : \A y \in ToScan : m <= y
      BY <2>1, LeastNatural
    <3> QED
      BY <2>1, <3>1 DEF Min
  <2> QED
    BY <2>2 DEF ToScan
<1>2. PICK listing \in SetToSeqs({e \in Entries : Parent[e] = d}) :
        SetPlan(ApplyRemoteDirectoryListing(d, listing))
  BY DEF ScanDirectory
<1>3. scanned' = scanned \cup {d} /\ stage' = stage /\ stage = "scanning"
  BY DEF ScanDirectory
<1> HIDE DEF d
<1> DEFINE q == ApplyRemoteDirectoryListing(d, listing)
<1>4. /\ q \in Plans /\ IsInjective(q.items)
      /\ ToSet(items) \subseteq ToSet(q.items)
      /\ \A e \in ToSet(q.items) : e \in ToSet(items) \/ (e \in Entries /\ Parent[e] = d)
      /\ selected \subseteq q.selected /\ q.selected \subseteq ToSet(q.items)
      /\ \A e \in q.selected : e \in selected \/ (e \in Entries /\ Parent[e] = d)
      /\ \A e \in q.selected : IsDir(e) \/ IsFile(e)
      /\ \A x, y \in q.selected : LocalPath[x] = LocalPath[y] => x = y
  BY <1>1, ListingFacts
<1>5. items' = q.items /\ selected' = q.selected /\ skipped' = q.skipped
  BY <1>2 DEF SetPlan
<1> HIDE DEF q
<1>6. q.items \in Seq(Nodes) /\ q.skipped \in Nat
  BY <1>4 DEF Plans
<1>7. d \in ToSet(items)
  BY <1>1 DEF PlanInv
<1>8. scanned \cup {d} \subseteq ToSet(q.items)
  BY <1>4, <1>7 DEF PlanInv
<1>9. \A e \in ToSet(q.items) \ {Root} : Parent[e] \in scanned \cup {d}
  BY <1>4 DEF PlanInv
<1>10. \A e \in q.selected \ {Root} : Parent[e] \in q.selected /\ IsDir(Parent[e])
  BY <1>1, <1>4 DEF PlanInv, Closed
<1> QED
  BY <1>3, <1>4, <1>5, <1>6, <1>8, <1>9, <1>10 DEF PlanInv, Closed

\* Less is selected: files, or a directory with all that is below it.
LEMMA DeselectPlan ==
  ASSUME PlanInv, items' = items, scanned' = scanned, selected' \subseteq selected,
         Closed(selected'), skipped' \in Nat, stage' # "idle"
  PROVE  PlanInv'
BY DEF PlanInv, Closed

\* What the preparation of the local directories does.
LEMMA ConfirmFacts ==
  ASSUME PlanInv, disk \in [LocalPaths -> Kinds], ConfirmRemoteDownloadCollisions
  PROVE  /\ disk' \in [LocalPaths -> Kinds]
         /\ items' = items /\ scanned' = scanned /\ skipped' \in Nat
         /\ selected' \subseteq selected /\ Closed(selected')
         /\ \A e \in selected' : /\ IsDir(e) => disk'[LocalPath[e]] = "dir"
                                 /\ IsFile(e) => disk'[LocalPath[e]] \in {"none", "file"}
         /\ asking' \in Seq(Entries)
         /\ ToSet(asking') = {e \in selected' : IsFile(e) /\ disk'[LocalPath[e]] = "file"}
<1> DEFINE p == PrepareLocalDirectories
           X == {e \in p.selected : IsFile(e) /\ p.disk[LocalPath[e]] = "file"}
<1>1. Prep \in Preps
  BY SetFacts DEF Prep, Preps, PlanInv
<1>2. /\ p \in Preps /\ p.selected \subseteq selected /\ Closed(p.selected)
      /\ \A e \in p.selected : /\ IsDir(e) => p.disk[LocalPath[e]] = "dir"
                               /\ IsFile(e) => p.disk[LocalPath[e]] \in {"none", "file"}
  <2>1. /\ items \in Seq(Nodes) /\ selected \subseteq ToSet(items) /\ Closed(selected)
        /\ \A e \in selected \ {Root} : IsDir(Parent[e])
    BY DEF PlanInv
  <2> QED
    BY <1>1, <2>1, PrepareFacts
<1>3. /\ disk' = p.disk /\ selected' = p.selected /\ skipped' = p.skipped
      /\ items' = items /\ scanned' = scanned
      /\ asking' = ItemsIn(X)
  BY DEF ConfirmRemoteDownloadCollisions, GetLocalFileCollisions
<1> HIDE DEF p
<1>4. p.disk \in [LocalPaths -> Kinds] /\ p.skipped \in Nat
  BY <1>2 DEF Preps
<1>5. X \subseteq selected /\ X \subseteq Entries
  BY <1>2, SetFacts DEF Files
<1>6. X = {e \in selected' : IsFile(e) /\ disk'[LocalPath[e]] = "file"}
  BY <1>3
<1> HIDE DEF X
<1>7. /\ ItemsIn(X) \in Seq(Nodes)
      /\ ToSet(ItemsIn(X)) = ToSet(items) \cap X
  <2>1. X \in SUBSET Nodes
    BY <1>5 DEF Nodes
  <2> QED
    BY <2>1, ItemsInFacts DEF PlanInv
<1>8. ToSet(ItemsIn(X)) = X
  BY <1>5, <1>7 DEF PlanInv
<1>9. ItemsIn(X) \in Seq(Entries)
  <2> DEFINE s == ItemsIn(X)
  <2>1. s \in Seq(Nodes) /\ \A i \in 1..Len(s) : s[i] \in Entries
    BY <1>5, <1>7, <1>8 DEF ToSet
  <2> HIDE DEF s
  <2>2. s \in Seq(Entries)
    BY <2>1
  <2> QED
    BY <2>2 DEF s
<1> QED
  BY <1>2, <1>3, <1>4, <1>8, <1>9, <1>6

\* The plan is kept by every step.
LEMMA PlanStep == IInv /\ [Next]_vars => PlanInv'
<1> SUFFICES ASSUME IInv, [Next]_vars
             PROVE  PlanInv'
  OBVIOUS
<1>1. PlanInv /\ disk \in [LocalPaths -> Kinds]
  BY DEF IInv, DiskInv
<1>2. CASE Build
  BY <1>1, <1>2, BuildPlan
<1>3. CASE ScanDirectory
  BY <1>1, <1>3, ScanPlan
<1>4. CASE ConfirmRemoteDownloadCollisions
  <2>1. stage' # "idle"
    BY <1>4 DEF ConfirmRemoteDownloadCollisions
  <2> QED
    BY <1>1, <1>4, <2>1, ConfirmFacts, DeselectPlan
<1>5. ASSUME NEW all \in BOOLEAN, Skip(all)
      PROVE  PlanInv'
  <2>1. /\ items' = items /\ scanned' = scanned /\ skipped' = skipped /\ stage' = "asking"
        /\ selected' = selected \ Decided(all)
    BY <1>5 DEF Skip
  <2>2. \A e \in Decided(all) : IsFile(e)
    <3>1. asking \in Seq(Entries) /\ asking # <<>> /\ \A e \in ToSet(asking) : IsFile(e)
      BY <1>5 DEF IInv, ConsentInv, Skip
    <3>2. Head(asking) \in ToSet(asking)
      BY <3>1, TailFacts
    <3> QED
      BY <3>1, <3>2 DEF Decided
  <2>3. Closed(selected')
    BY <1>1, <2>1, <2>2, SetFacts DEF Closed, PlanInv
  <2>4. skipped' \in Nat /\ stage' # "idle" /\ selected' \subseteq selected
    BY <1>1, <2>1 DEF PlanInv
  <2> QED
    BY <1>1, <2>1, <2>3, <2>4, DeselectPlan
<1>6. CASE UNCHANGED planVars /\ (stage' = "idle" => stage = "idle")
  BY <1>1, <1>6 DEF PlanInv, Closed, planVars
<1>7. \/ ScanFails \/ ScanEnds \/ Drop \/ QueueRemoteDownloadPlan
      \/ (\E all \in BOOLEAN : Overwrite(all))
      \/ Pick \/ Begin("picked", "starting") \/ Begin("starting", "running")
      \/ (\E r \in {"ok", "error"} : Perform(r)) \/ End
      \/ (\E i \in 1..(Cardinality(Entries) + 1) : CancelOperation(i))
      \/ AbortActive \/ TerminateSession \/ UNCHANGED vars
      => UNCHANGED planVars /\ (stage' = "idle" => stage = "idle")
  BY DEF ScanFails, ScanEnds, Drop, QueueRemoteDownloadPlan, Overwrite, Pick, Begin, Perform, End,
         CancelOperation, AbortActive, TerminateSession, vars
<1> QED
  BY <1>2, <1>3, <1>4, <1>5, <1>6, <1>7 DEF Next, Scan, Window, QueueThread

\* The front of the transfer queue, when its thread has one.
LEMMA FrontFacts ==
  ASSUME QueueInv, queue # <<>>
  PROVE  /\ Head(queue) \in Entries \cup {Complete} /\ Head(queue) \in ToSet(queue)
         /\ Head(queue) # Complete => Head(queue) \in Downloads /\ Head(queue) \in Files
         /\ ToSet(Tail(queue)) = ToSet(queue) \ {Head(queue)}
         /\ Tail(queue) \in Seq(Entries \cup {Complete}) /\ IsInjective(Tail(queue))
         /\ Head(queue) = Complete => Tail(queue) = <<>>
         /\ LastOnly(Tail(queue))
<1>1. queue \in Seq(Entries \cup {Complete}) /\ IsInjective(queue) /\ LastOnly(queue)
  BY DEF QueueInv
<1>2. /\ Head(queue) \in Entries \cup {Complete} /\ Head(queue) \in ToSet(queue)
      /\ ToSet(queue) = ToSet(Tail(queue)) \cup {Head(queue)}
      /\ Tail(queue) \in Seq(Entries \cup {Complete})
      /\ Head(queue) \notin ToSet(Tail(queue)) /\ IsInjective(Tail(queue))
  BY <1>1, TailFacts
<1>3. Head(queue) # Complete => Head(queue) \in Downloads /\ Head(queue) \in Files
  BY <1>2 DEF Downloads, QueueInv
<1>4. /\ Len(queue) \in Nat \ {0} /\ DOMAIN queue = 1..Len(queue) /\ Head(queue) = queue[1]
      /\ Len(Tail(queue)) = Len(queue) - 1 /\ DOMAIN Tail(queue) = 1..(Len(queue) - 1)
      /\ \A i \in 1..(Len(queue) - 1) : Tail(queue)[i] = queue[i + 1]
  BY <1>1
<1>5. \A i \in 1..Len(queue) : queue[i] = Complete => i = Len(queue)
  BY <1>1, <1>4 DEF LastOnly
<1>6. Head(queue) = Complete => Tail(queue) = <<>>
  <2>1. SUFFICES ASSUME Head(queue) = Complete
                 PROVE  Tail(queue) = <<>>
    OBVIOUS
  <2>2. 1 = Len(queue)
    <3>1. 1 \in 1..Len(queue)
      BY <1>4
    <3> QED
      BY <1>4, <1>5, <2>1, <3>1
  <2>3. Len(Tail(queue)) = 0
    <3>1. Len(queue) - 1 = 0
      BY <2>2
    <3>2. Len(Tail(queue)) = Len(queue) - 1
      BY <1>4
    <3> QED
      BY <3>1, <3>2, Zenon
  <2> QED
    BY <1>2, <2>3, EmptySeq
<1>7. LastOnly(Tail(queue))
  <2>1. ASSUME NEW i \in 1..(Len(queue) - 1), Tail(queue)[i] = Complete
        PROVE  i = Len(queue) - 1
    <3>1. i + 1 \in 1..Len(queue) /\ queue[i + 1] = Complete
      BY <1>4, <2>1
    <3>2. i + 1 = Len(queue)
      BY <1>5, <3>1
    <3>3. i \in Nat /\ Len(queue) \in Nat /\ \A m \in Nat : i + 1 = m => i = m - 1
      BY <1>4
    <3> QED
      BY <3>2, <3>3
  <2> QED
    BY <1>4, <2>1 DEF LastOnly
<1> QED
  BY <1>2, <1>3, <1>6, <1>7

\* An operation that is taken out of the queue.
LEMMA CanceledFacts ==
  ASSUME QueueInv, NEW i \in DOMAIN queue, step # "idle" => i # 1
  PROVE  LET q == RemoveAt(queue, i)
         IN  /\ q \in Seq(Entries \cup {Complete}) /\ IsInjective(q) /\ LastOnly(q)
             /\ ToSet(q) = ToSet(queue) \ {queue[i]} /\ queue[i] \in ToSet(queue)
             /\ queue[i] \in Entries \cup {Complete}
             /\ step # "idle" => q # <<>> /\ Head(q) = Head(queue)
<1> DEFINE q == RemoveAt(queue, i)
<1>1. queue \in Seq(Entries \cup {Complete}) /\ IsInjective(queue) /\ LastOnly(queue)
  BY DEF QueueInv
<1>2. i \in 1..Len(queue) /\ DOMAIN queue = 1..Len(queue) /\ Len(queue) \in Nat
  BY <1>1
<1>3. /\ q \in Seq(Entries \cup {Complete}) /\ Len(q) = Len(queue) - 1
      /\ \A j \in 1..Len(q) : q[j] = IF j < i THEN queue[j] ELSE queue[j + 1]
  BY <1>1, <1>2, EraseShape
<1>4. /\ queue[i] \in Entries \cup {Complete} /\ queue[i] \in ToSet(queue)
      /\ ToSet(q) \subseteq ToSet(queue)
      /\ i # 1 => q # <<>> /\ Head(q) = Head(queue)
      /\ queue[i] \notin ToSet(q) /\ IsInjective(q)
  BY <1>1, <1>2, EraseFacts
<1>5. ToSet(queue) \subseteq ToSet(q) \cup {queue[i]}
  BY <1>1, <1>2, EraseKeeps
<1> HIDE DEF q
<1>6. \A j \in 1..Len(queue) : queue[j] = Complete => j = Len(queue)
  BY <1>1, <1>2 DEF LastOnly
<1>7. LastOnly(q)
  <2>1. DOMAIN q = 1..Len(q) /\ Len(q) \in Nat
    BY <1>3
  <2>2. ASSUME NEW j \in 1..Len(q), q[j] = Complete
        PROVE  j = Len(q)
    <3>1. j \in 1..Len(queue) /\ j + 1 \in 1..Len(queue)
      BY <1>2, <1>3
    <3>2. CASE j < i
      <4>1. queue[j] = Complete
        BY <1>3, <2>2, <3>2
      <4>2. j = Len(queue)
        BY <1>6, <3>1, <4>1
      <4> QED
        BY <1>2, <3>2, <4>2
    <3>3. CASE ~(j < i)
      <4>1. queue[j + 1] = Complete
        BY <1>3, <2>2, <3>3
      <4>2. j + 1 = Len(queue)
        BY <1>6, <3>1, <4>1
      <4>3. \A m \in Nat : j + 1 = m => j = m - 1
        OBVIOUS
      <4>4. j = Len(queue) - 1
        BY <1>2, <4>2, <4>3
      <4> QED
        BY <1>3, <4>4
    <3> QED
      BY <3>2, <3>3
  <2> QED
    BY <2>1, <2>2 DEF LastOnly
<1> QED
  BY <1>3, <1>4, <1>5, <1>7 DEF q

\* The transfer queue as it is filled.
LEMMA QueuedFacts ==
  ASSUME PlanInv
  PROVE  LET q == Append(ItemsIn({e \in selected : IsFile(e)}), Complete)
         IN  /\ q \in Seq(Entries \cup {Complete}) /\ q # <<>>
             /\ IsInjective(q) /\ LastOnly(q)
             /\ ToSet(q) = Files \cup {Complete}
<1> DEFINE s == ItemsIn(Files)
           q == Append(s, Complete)
<1>1. Files \in SUBSET Nodes /\ Files \subseteq ToSet(items) /\ Files \subseteq Entries
  BY SetFacts DEF Nodes, PlanInv
<1>2. s \in Seq(Nodes) /\ IsInjective(s) /\ ToSet(s) = Files
  <2>1. s \in Seq(Nodes) /\ IsInjective(s) /\ ToSet(s) = ToSet(items) \cap Files
    BY <1>1, ItemsInFacts DEF PlanInv
  <2> QED
    BY <1>1, <2>1
<1>3. Complete \notin Files
  BY <1>1, DownloadAssumption
<1> HIDE DEF s
<1>4. s \in Seq(Entries \cup {Complete})
  <2>1. \A i \in 1..Len(s) : s[i] \in Entries \cup {Complete}
    BY <1>1, <1>2 DEF ToSet
  <2> QED
    BY <1>2, <2>1
<1>5. /\ q \in Seq(Entries \cup {Complete}) /\ q # <<>>
      /\ ToSet(q) = ToSet(s) \cup {Complete} /\ IsInjective(q)
  BY <1>2, <1>3, <1>4, AppendFacts
<1>6. LastOnly(q)
  <2>1. /\ DOMAIN q = 1..(Len(s) + 1) /\ Len(q) = Len(s) + 1
        /\ DOMAIN s = 1..Len(s) /\ Len(s) \in Nat
        /\ \A i \in 1..(Len(s) + 1) : q[i] = IF i = Len(s) + 1 THEN Complete ELSE s[i]
    BY <1>4
  <2>2. \A i \in 1..(Len(s) + 1) : i = Len(s) + 1 \/ i \in 1..Len(s)
    BY <2>1
  <2>3. \A i \in 1..Len(s) : s[i] # Complete
    BY <1>2, <1>3, <2>1 DEF ToSet
  <2> QED
    BY <2>1, <2>2, <2>3 DEF LastOnly
<1>7. q = Append(ItemsIn({e \in selected : IsFile(e)}), Complete)
  BY DEF s, Files
<1> HIDE DEF q
<1> QED
  BY <1>2, <1>5, <1>6, <1>7

-----------------------------------------------------------------------------
(***************************************************************************)
(* The disk and the queue.                                                 *)
(***************************************************************************)

\* What a step of the thread or of the window on the queue may assume.
LEMMA MoveFacts ==
  ASSUME IInv, NEW from, NEW to, Move(from, to)
  PROVE  /\ stage = "queued" /\ queue # <<>> /\ step = from /\ step' = to
         /\ PlanInv /\ DiskInv /\ ConsentInv /\ QueueInv /\ CountInv
BY DEF Move, IInv

\* The disk is kept by every step.
LEMMA DiskStep == IInv /\ [Next]_vars => DiskInv'
<1> SUFFICES ASSUME IInv, [Next]_vars
             PROVE  DiskInv'
  OBVIOUS
<1>1. PlanInv /\ DiskInv /\ disk \in [LocalPaths -> Kinds]
  BY DEF IInv, DiskInv
<1>2. CASE ConfirmRemoteDownloadCollisions
  BY <1>1, <1>2, ConfirmFacts DEF DiskInv
<1>3. ASSUME NEW r \in {"ok", "error"}, Perform(r)
      PROVE  DiskInv'
  <2>1. /\ stage = "queued" /\ queue # <<>> /\ QueueInv
        /\ selected' = selected /\ stage' = stage
        /\ disk' = IF Head(queue) = Complete THEN disk
                   ELSE [disk EXCEPT ![LocalPath[Head(queue)]] = "file"]
    BY <1>3, MoveFacts DEF Perform, planVars
  <2>2. CASE Head(queue) = Complete
    BY <1>1, <2>1, <2>2 DEF DiskInv
  <2>3. CASE Head(queue) # Complete
    <3> DEFINE h == Head(queue)
    <3>1. h \in Files /\ h \in selected /\ IsFile(h) /\ ~IsDir(h) /\ LocalPath[h] \in LocalPaths
      <4>1. h \in Files
        BY <2>1, <2>3, FrontFacts
      <4> QED
        BY <1>1, <4>1, SetFacts DEF Files
    <3>2. disk' = [disk EXCEPT ![LocalPath[h]] = "file"]
      BY <2>1, <2>3
    <3> HIDE DEF h
    <3>3. disk' \in [LocalPaths -> Kinds]
      BY <1>1, <3>1, <3>2 DEF Kinds
    <3>4. ASSUME NEW e \in selected
          PROVE  /\ IsDir(e) => disk'[LocalPath[e]] = "dir"
                 /\ IsFile(e) => disk'[LocalPath[e]] \in {"none", "file"}
      <4>1. /\ IsDir(e) => disk[LocalPath[e]] = "dir"
            /\ IsFile(e) => disk[LocalPath[e]] \in {"none", "file"}
        BY <1>1, <2>1 DEF DiskInv
      <4>2. LocalPath[e] \in LocalPaths /\ (LocalPath[e] = LocalPath[h] => e = h)
        BY <1>1, <3>1, SetFacts DEF PlanInv
      <4>3. disk'[LocalPath[e]] = IF e = h THEN "file" ELSE disk[LocalPath[e]]
        BY <1>1, <3>1, <3>2, <4>2
      <4> QED
        BY <3>1, <4>1, <4>3
    <3> QED
      BY <2>1, <3>3, <3>4 DEF DiskInv
  <2> QED
    BY <2>2, <2>3
<1>4. CASE disk' = disk /\ (stage' \in {"asking", "queued"} =>
              stage \in {"asking", "queued"} /\ selected' \subseteq selected)
  BY <1>1, <1>4 DEF DiskInv
<1>5. \/ Scan \/ QueueRemoteDownloadPlan \/ Drop
      \/ (\E all \in BOOLEAN : Overwrite(all) \/ Skip(all))
      \/ Pick \/ Begin("picked", "starting") \/ Begin("starting", "running") \/ End
      \/ (\E i \in 1..(Cardinality(Entries) + 1) : CancelOperation(i))
      \/ AbortActive \/ TerminateSession \/ UNCHANGED vars
      => disk' = disk /\ (stage' \in {"asking", "queued"} =>
              stage \in {"asking", "queued"} /\ selected' \subseteq selected)
  BY DEF Scan, Build, ScanDirectory, ScanFails, ScanEnds, Drop, QueueRemoteDownloadPlan, Overwrite,
         Skip, Pick, Begin, End, CancelOperation, AbortActive, TerminateSession, vars, planVars
<1> QED
  BY <1>2, <1>3, <1>4, <1>5 DEF Next, Window, QueueThread

\* The transfer queue is kept by every step.
LEMMA QueueStep == IInv /\ [Next]_vars => QueueInv'
<1> SUFFICES ASSUME IInv, [Next]_vars
             PROVE  QueueInv'
  OBVIOUS
<1>1. PlanInv /\ QueueInv
  BY DEF IInv
<1>2. CASE QueueRemoteDownloadPlan
  <2>1. /\ queue' = Append(ItemsIn({e \in selected : IsFile(e)}), Complete)
        /\ stage' = "queued" /\ selected' = selected
    BY <1>2 DEF QueueRemoteDownloadPlan, planVars
  <2>2. /\ queue' \in Seq(Entries \cup {Complete}) /\ queue' # <<>>
        /\ IsInjective(queue') /\ LastOnly(queue')
        /\ ToSet(queue') = Files \cup {Complete}
    BY <1>1, <2>1, QueuedFacts
  <2>3. Downloads' \subseteq Files'
    BY <2>1, <2>2 DEF Downloads, Files
  <2> QED
    BY <2>1, <2>2, <2>3 DEF QueueInv, LastOnly, IsInjective
<1>3. CASE End
  <2>1. /\ stage = "queued" /\ queue # <<>> /\ step' = "idle" /\ queue' = Tail(queue)
        /\ stage' = stage /\ selected' = selected
    BY <1>3, MoveFacts DEF End, planVars
  <2>2. /\ ToSet(queue') = ToSet(queue) \ {Head(queue)}
        /\ queue' \in Seq(Entries \cup {Complete}) /\ IsInjective(queue') /\ LastOnly(queue')
    BY <1>1, <2>1, FrontFacts
  <2>3. Downloads' \subseteq Files'
    BY <1>1, <2>1, <2>2 DEF Downloads, Files, QueueInv
  <2> QED
    BY <2>1, <2>2, <2>3 DEF QueueInv, LastOnly, IsInjective
<1>4. ASSUME NEW i \in 1..(Cardinality(Entries) + 1), CancelOperation(i)
      PROVE  QueueInv'
  <2>1. /\ stage = "queued" /\ i \in DOMAIN queue /\ (step # "idle" => i # 1)
        /\ queue' = RemoveAt(queue, i) /\ step' = step /\ stage' = stage /\ selected' = selected
    BY <1>4 DEF CancelOperation, planVars
  <2>2. /\ queue' \in Seq(Entries \cup {Complete}) /\ IsInjective(queue') /\ LastOnly(queue')
        /\ ToSet(queue') = ToSet(queue) \ {queue[i]}
        /\ step # "idle" => queue' # <<>>
    BY <1>1, <2>1, CanceledFacts
  <2>3. Downloads' \subseteq Files'
    BY <1>1, <2>1, <2>2 DEF Downloads, Files, QueueInv
  <2> QED
    BY <2>1, <2>2, <2>3 DEF QueueInv, LastOnly, IsInjective
<1>5. CASE TerminateSession
  <2>1. queue' = <<>> /\ step' = "idle"
    BY <1>5 DEF TerminateSession
  <2>2. ToSet(queue') = {} /\ IsInjective(queue') /\ LastOnly(queue')
        /\ queue' \in Seq(Entries \cup {Complete})
    BY <2>1 DEF ToSet, IsInjective, LastOnly
  <2> QED
    BY <2>1, <2>2 DEF QueueInv, Downloads, LastOnly, IsInjective
<1>6. CASE /\ queue' = queue /\ (stage' # "queued" => stage # "queued" /\ step' = step)
           /\ (step' # "idle" => queue # <<>>) /\ (queue # <<>> => selected' = selected)
  <2>1. Downloads' = Downloads /\ Downloads \subseteq Files
    BY <1>1, <1>6 DEF QueueInv, Downloads
  <2>2. Downloads' \subseteq Files'
    <3>1. CASE queue = <<>>
      BY <1>6, <3>1 DEF Downloads, ToSet
    <3>2. CASE queue # <<>>
      BY <1>6, <2>1, <3>2 DEF Files
    <3> QED
      BY <3>1, <3>2
  <2> QED
    BY <1>1, <1>6, <2>2 DEF QueueInv, LastOnly, IsInjective
<1>7. \/ Scan \/ ConfirmRemoteDownloadCollisions \/ Drop
      \/ (\E all \in BOOLEAN : Overwrite(all) \/ Skip(all))
      => queue' = queue /\ step' = step /\ stage' # "queued" /\ stage # "queued"
  BY DEF Scan, Build, ScanDirectory, ScanFails, ScanEnds, Drop, ConfirmRemoteDownloadCollisions,
         Overwrite, Skip, batchVars
<1>8. \/ Pick \/ Begin("picked", "starting") \/ Begin("starting", "running")
      \/ (\E r \in {"ok", "error"} : Perform(r))
      => /\ queue' = queue /\ queue # <<>> /\ selected' = selected
         /\ stage' = stage /\ stage = "queued"
  BY DEF Pick, Begin, Perform, Move, planVars
<1>9. AbortActive \/ UNCHANGED vars
      => queue' = queue /\ stage' = stage /\ step' = step /\ selected' = selected
  BY DEF AbortActive, vars, planVars, batchVars
<1>10. (step # "idle" => queue # <<>>) /\ (stage # "queued" => queue = <<>>)
  BY <1>1 DEF QueueInv
<1> QED
  BY <1>2, <1>3, <1>4, <1>5, <1>6, <1>7, <1>8, <1>9, <1>10 DEF Next, Window, QueueThread

\* Consent is kept by every step.
LEMMA ConsentStep == IInv /\ [Next]_vars => ConsentInv'
<1> SUFFICES ASSUME IInv, [Next]_vars
             PROVE  ConsentInv'
  OBVIOUS
<1>1. PlanInv /\ DiskInv /\ ConsentInv /\ QueueInv /\ disk \in [LocalPaths -> Kinds]
  BY DEF IInv, DiskInv
<1>2. consent \subseteq Entries /\ asking \in Seq(Entries) /\ \A e \in ToSet(asking) : IsFile(e)
  BY <1>1 DEF ConsentInv
<1>3. \A e \in Downloads : disk[LocalPath[e]] = "file" =>
        e \in consent \/ (step = "performed" /\ e = Head(queue))
  BY <1>1 DEF ConsentInv
<1>4. stage # "queued" => Downloads = {}
  BY <1>1 DEF QueueInv, Downloads, ToSet
<1>5. CASE ConfirmRemoteDownloadCollisions
  <2>1. stage = "scanned" /\ queue' = queue /\ consent' = consent
    BY <1>5 DEF ConfirmRemoteDownloadCollisions, batchVars
  <2>2. Downloads' = {}
    BY <1>4, <2>1 DEF Downloads
  <2>3. /\ asking' \in Seq(Entries)
        /\ ToSet(asking') = {e \in selected' : IsFile(e) /\ disk'[LocalPath[e]] = "file"}
    BY <1>1, <1>5, ConfirmFacts
  <2> QED
    BY <1>2, <2>1, <2>2, <2>3 DEF ConsentInv, Files
<1>6. ASSUME stage = "asking", asking # <<>>, NEW all \in BOOLEAN, Ask(all)
      PROVE  /\ asking' \in Seq(Entries) /\ ToSet(asking') \subseteq ToSet(asking)
             /\ ToSet(asking) \subseteq ToSet(asking') \cup Decided(all)
             /\ Decided(all) \subseteq ToSet(asking)
  <2>1. /\ Head(asking) \in ToSet(asking) /\ Tail(asking) \in Seq(Entries)
        /\ ToSet(asking) = ToSet(Tail(asking)) \cup {Head(asking)}
    BY <1>2, <1>6, TailFacts
  <2>2. <<>> \in Seq(Entries) /\ ToSet(<<>>) = {}
    BY DEF ToSet
  <2>3. CASE all
    BY <1>6, <2>2, <2>3 DEF Ask, Decided
  <2>4. CASE ~all
    BY <1>6, <2>1, <2>4 DEF Ask, Decided
  <2> QED
    BY <2>3, <2>4
<1>7. ASSUME NEW all \in BOOLEAN, Overwrite(all)
      PROVE  ConsentInv'
  <2>1. /\ stage = "asking" /\ asking # <<>> /\ consent' = consent \cup Decided(all) /\ Ask(all)
        /\ selected' = selected /\ disk' = disk /\ stage' = stage /\ queue' = queue
    BY <1>7 DEF Overwrite, planVars, batchVars
  <2>2. /\ asking' \in Seq(Entries) /\ ToSet(asking') \subseteq ToSet(asking)
        /\ ToSet(asking) \subseteq ToSet(asking') \cup Decided(all)
        /\ Decided(all) \subseteq ToSet(asking)
    BY <1>6, <2>1
  <2>3. ToSet(asking) \subseteq Entries
    BY <1>2 DEF ToSet
  <2>4. Downloads' = {}
    BY <1>4, <2>1 DEF Downloads
  <2>5. \A e \in Files : disk[LocalPath[e]] = "file" => e \in consent \cup ToSet(asking)
    BY <1>1, <2>1 DEF ConsentInv
  <2>6. Files' = Files
    BY <2>1 DEF Files
  <2> QED
    BY <1>2, <2>1, <2>2, <2>3, <2>4, <2>5, <2>6 DEF ConsentInv
<1>8. ASSUME NEW all \in BOOLEAN, Skip(all)
      PROVE  ConsentInv'
  <2>1. /\ stage = "asking" /\ asking # <<>> /\ selected' = selected \ Decided(all) /\ Ask(all)
        /\ consent' = consent /\ disk' = disk /\ stage' = stage /\ queue' = queue
    BY <1>8 DEF Skip, batchVars
  <2>2. /\ asking' \in Seq(Entries) /\ ToSet(asking') \subseteq ToSet(asking)
        /\ ToSet(asking) \subseteq ToSet(asking') \cup Decided(all)
    BY <1>6, <2>1
  <2>3. Downloads' = {}
    BY <1>4, <2>1 DEF Downloads
  <2>4. \A e \in Files : disk[LocalPath[e]] = "file" => e \in consent \cup ToSet(asking)
    BY <1>1, <2>1 DEF ConsentInv
  <2>5. Files' = Files \ Decided(all)
    BY <2>1 DEF Files
  <2> QED
    BY <1>2, <2>1, <2>2, <2>3, <2>4, <2>5 DEF ConsentInv
<1>9. CASE QueueRemoteDownloadPlan
  <2>1. /\ stage = "asking" /\ asking = <<>> /\ selected' = selected /\ disk' = disk
        /\ stage' = "queued" /\ consent' = consent /\ asking' = asking
        /\ queue' = Append(ItemsIn({e \in selected : IsFile(e)}), Complete)
    BY <1>9 DEF QueueRemoteDownloadPlan, planVars
  <2>2. ToSet(queue') = Files \cup {Complete}
    BY <1>1, <2>1, QueuedFacts
  <2>3. Downloads' \subseteq Files
    BY <2>2 DEF Downloads
  <2>4. ToSet(asking) = {}
    BY <2>1 DEF ToSet
  <2>5. \A e \in Files : disk[LocalPath[e]] = "file" => e \in consent
    BY <1>1, <2>1, <2>4 DEF ConsentInv
  <2> QED
    BY <1>2, <2>1, <2>3, <2>5 DEF ConsentInv
<1>10. CASE /\ consent' = consent /\ asking' = asking /\ disk' = disk
            /\ stage' # "asking" /\ queue' = queue /\ step # "performed"
  <2>1. Downloads' = Downloads
    BY <1>10 DEF Downloads
  <2> QED
    BY <1>2, <1>3, <1>10, <2>1 DEF ConsentInv
<1>11. CASE /\ consent' = consent /\ asking' = asking /\ disk' = disk /\ selected' = selected
            /\ stage' = stage /\ queue' = queue /\ step' = step
  <2>1. Downloads' = Downloads /\ Files' = Files
    BY <1>11 DEF Downloads, Files
  <2>2. stage = "asking" =>
          \A e \in Files : disk[LocalPath[e]] = "file" => e \in consent \cup ToSet(asking)
    BY <1>1 DEF ConsentInv
  <2> QED
    BY <1>2, <1>3, <1>11, <2>1, <2>2 DEF ConsentInv
<1>12. ASSUME NEW r \in {"ok", "error"}, Perform(r)
       PROVE  ConsentInv'
  <2> DEFINE h == Head(queue)
  <2>1. /\ stage = "queued" /\ stage' = stage /\ queue # <<>>
        /\ step = "running" /\ step' = "performed"
        /\ consent' = consent /\ asking' = asking /\ queue' = queue
        /\ disk' = IF h = Complete THEN disk ELSE [disk EXCEPT ![LocalPath[h]] = "file"]
    BY <1>12, MoveFacts DEF Perform
  <2>2. Downloads' = Downloads
    BY <2>1 DEF Downloads
  <2>3. ASSUME NEW e \in Downloads, disk'[LocalPath[e]] = "file", e # h
        PROVE  e \in consent
    <3>1. CASE h = Complete
      BY <1>3, <2>1, <2>3, <3>1
    <3>2. CASE h # Complete
      <4>1. h \in Files /\ e \in Files
        BY <1>1, <2>1, <3>2, FrontFacts DEF QueueInv
      <4>2. /\ h \in selected /\ e \in selected
            /\ LocalPath[h] \in LocalPaths /\ LocalPath[e] \in LocalPaths
        BY <1>1, <4>1, SetFacts
      <4>3. LocalPath[e] # LocalPath[h]
        BY <1>1, <2>3, <4>2 DEF PlanInv
      <4>4. disk' = [disk EXCEPT ![LocalPath[h]] = "file"]
        BY <2>1, <3>2
      <4> HIDE DEF h
      <4>5. disk[LocalPath[e]] = "file"
        BY <1>1, <2>3, <4>2, <4>3, <4>4
      <4> QED
        BY <1>3, <2>1, <4>5
    <3> QED
      BY <3>1, <3>2
  <2> QED
    BY <1>2, <2>1, <2>2, <2>3 DEF ConsentInv
<1>13. CASE End
  <2>1. /\ stage = "queued" /\ stage' = stage /\ queue # <<>>
        /\ consent' = consent /\ asking' = asking /\ queue' = Tail(queue) /\ disk' = disk
    BY <1>13, MoveFacts DEF End
  <2>2. ToSet(queue') = ToSet(queue) \ {Head(queue)}
    BY <1>1, <2>1, FrontFacts
  <2>3. \A e \in Downloads' : e \in Downloads /\ e # Head(queue)
    BY <2>2 DEF Downloads
  <2> QED
    BY <1>2, <1>3, <2>1, <2>3 DEF ConsentInv
<1>14. ASSUME NEW i \in 1..(Cardinality(Entries) + 1), CancelOperation(i)
       PROVE  ConsentInv'
  <2>1. /\ stage = "queued" /\ i \in DOMAIN queue /\ (step # "idle" => i # 1)
        /\ stage' = stage /\ step' = step /\ queue' = RemoveAt(queue, i)
        /\ consent' = consent /\ asking' = asking /\ disk' = disk
    BY <1>14 DEF CancelOperation
  <2>2. /\ ToSet(queue') = ToSet(queue) \ {queue[i]}
        /\ step # "idle" => Head(queue') = Head(queue)
    BY <1>1, <2>1, CanceledFacts
  <2>3. \A e \in Downloads' : e \in Downloads
    BY <2>2 DEF Downloads
  <2> QED
    BY <1>2, <1>3, <2>1, <2>2, <2>3 DEF ConsentInv
<1>15. CASE TerminateSession
  <2>1. queue' = <<>> /\ stage' = "closed" /\ consent' = consent /\ asking' = asking
    BY <1>15 DEF TerminateSession
  <2>2. Downloads' = {}
    BY <2>1 DEF Downloads, ToSet
  <2> QED
    BY <1>2, <2>1, <2>2 DEF ConsentInv
<1>16. step = "performed" => stage = "queued"
  BY <1>1 DEF QueueInv
<1>17. \/ Scan \/ Drop \/ Pick \/ Begin("picked", "starting") \/ Begin("starting", "running")
       => /\ consent' = consent /\ asking' = asking /\ disk' = disk
          /\ stage' # "asking" /\ queue' = queue /\ (stage = "queued" => step # "performed")
  BY DEF Scan, Build, ScanDirectory, ScanFails, ScanEnds, Drop, Pick, Begin, Move, batchVars
<1>18. AbortActive \/ UNCHANGED vars
       => /\ consent' = consent /\ asking' = asking /\ disk' = disk /\ selected' = selected
          /\ stage' = stage /\ queue' = queue /\ step' = step
  BY DEF AbortActive, vars, planVars, batchVars
<1> QED
  BY <1>5, <1>7, <1>8, <1>9, <1>10, <1>11, <1>12, <1>13, <1>14, <1>15, <1>16, <1>17, <1>18
     DEF Next, Window, QueueThread

-----------------------------------------------------------------------------
(***************************************************************************)
(* The counters.                                                           *)
(***************************************************************************)

\* Everything that is counted is finite.
LEMMA FiniteFacts ==
  /\ IsFiniteSet(Entries \cup {Complete})
  /\ \A S \in SUBSET (Entries \cup {Complete}) : IsFiniteSet(S) /\ Cardinality(S) \in Nat
  /\ \A S \in SUBSET Entries : \A e \in Entries \ S :
       Cardinality(S \cup {e}) = Cardinality(S) + 1
  /\ \A S, U \in SUBSET Entries : S \subseteq U => Cardinality(S) <= Cardinality(U)
  /\ Cardinality({}) = 0 /\ \A e : Cardinality({e}) = 1
<1>1. IsFiniteSet(Entries \cup {Complete})
  BY DownloadAssumption, FS_AddElement
<1>2. \A S \in SUBSET (Entries \cup {Complete}) : IsFiniteSet(S) /\ Cardinality(S) \in Nat
  BY <1>1, FS_Subset, FS_CardinalityType
<1>3. ASSUME NEW S \in SUBSET Entries, NEW e \in Entries \ S
      PROVE  Cardinality(S \cup {e}) = Cardinality(S) + 1
  <2>1. IsFiniteSet(S)
    BY <1>2
  <2> QED
    BY <2>1, FS_AddElement
<1>4. ASSUME NEW S \in SUBSET Entries, NEW U \in SUBSET Entries, S \subseteq U
      PROVE  Cardinality(S) <= Cardinality(U)
  <2>1. IsFiniteSet(U)
    BY <1>2
  <2> QED
    BY <1>4, <2>1, FS_Subset
<1>5. Cardinality({}) = 0
  BY FS_EmptySet
<1>6. \A e : Cardinality({e}) = 1
  BY FS_Singleton
<1> QED
  BY <1>1, <1>2, <1>3, <1>4, <1>5, <1>6

\* What is counted, and of what type.
LEMMA CountTypes ==
  ASSUME IInv
  PROVE  /\ batch.completed \in Nat /\ batch.failures \in Nat /\ batch.canceled \in Nat
         /\ batch = [completed |-> batch.completed, failures |-> batch.failures,
                     canceled |-> batch.canceled]
         /\ skipped \in Nat /\ Counted \in Int
         /\ Done \in SUBSET Entries /\ Aborted \in SUBSET Entries
         /\ Cardinality(Done) \in Nat /\ Cardinality(Aborted) \in Nat
         /\ ToSet(queue) \subseteq Entries \cup {Complete}
<1>1. batch \in [completed : Nat, failures : Nat, canceled : Nat] /\ skipped \in Nat
  BY DEF IInv, CountInv, PlanInv
<1>2. Files \subseteq Entries
  BY SetFacts DEF IInv
<1>3. Done \in SUBSET Entries
  BY <1>2 DEF Done
<1>4. Aborted \in SUBSET Entries
  BY <1>2 DEF Aborted, Files
<1>5. Cardinality(Done) \in Nat /\ Cardinality(Aborted) \in Nat
  BY <1>3, <1>4, FiniteFacts
<1>6. ToSet(queue) \subseteq Entries \cup {Complete}
  BY DEF IInv, QueueInv, ToSet
<1>7. Counted \in Int
  BY <1>1 DEF Counted
<1> QED
  BY <1>1, <1>3, <1>4, <1>5, <1>6, <1>7

\* The counters are kept by every step.
LEMMA CountStep == IInv /\ [Next]_vars => CountInv'
<1> SUFFICES ASSUME IInv, [Next]_vars
             PROVE  CountInv'
  OBVIOUS
<1>1. PlanInv /\ QueueInv /\ CountInv
  BY DEF IInv
<1>2. /\ batch.completed \in Nat /\ batch.failures \in Nat /\ batch.canceled \in Nat
      /\ batch = [completed |-> batch.completed, failures |-> batch.failures,
                  canceled |-> batch.canceled]
      /\ skipped \in Nat /\ Counted \in Int
      /\ Done \in SUBSET Entries /\ Aborted \in SUBSET Entries
      /\ Cardinality(Done) \in Nat /\ Cardinality(Aborted) \in Nat
      /\ ToSet(queue) \subseteq Entries \cup {Complete}
  BY CountTypes
<1>3. /\ canceled \subseteq Entries \cup {Complete} /\ shown \in BOOLEAN
      /\ batch \in [completed : Nat, failures : Nat, canceled : Nat]
      /\ shown => queue = <<>>
  BY <1>1 DEF CountInv
<1>4. Complete \notin Entries /\ Complete \notin Files /\ Files \subseteq Entries
  BY <1>1, SetFacts, DownloadAssumption
<1>5. stage = "queued" =>
        Cardinality(Done) <= Counted /\ Counted <= Cardinality(Done) + Cardinality(Aborted)
  BY <1>1 DEF CountInv
<1>6. CASE QueueRemoteDownloadPlan
  <2>1. /\ stage = "asking" /\ stage' = "queued" /\ selected' = selected /\ skipped' = skipped
        /\ batch' = [batch EXCEPT !.failures = skipped]
        /\ canceled' = canceled /\ shown' = shown
        /\ queue' = Append(ItemsIn({e \in selected : IsFile(e)}), Complete)
    BY <1>6 DEF QueueRemoteDownloadPlan, planVars
  <2>2. batch = [completed |-> 0, failures |-> 0, canceled |-> 0] /\ ~shown
    BY <1>1, <2>1 DEF CountInv
  <2>3. batch' = [completed |-> 0, failures |-> skipped, canceled |-> 0]
    BY <2>1, <2>2
  <2>4. Counted' = 0
    <3>1. /\ batch'.completed = 0 /\ batch'.failures = skipped /\ batch'.canceled = 0
      BY <2>3
    <3>2. Counted' = batch'.completed + batch'.failures + batch'.canceled - skipped'
      BY DEF Counted
    <3> QED
      BY <1>2, <2>1, <3>1, <3>2
  <2>5. ToSet(queue') = Files \cup {Complete}
    BY <1>1, <2>1, QueuedFacts
  <2>6. Done' = {} /\ Aborted' = Aborted
    BY <2>1, <2>5 DEF Done, Files, Aborted
  <2>7. Cardinality(Done') = 0
    BY <2>6, FiniteFacts
  <2>8. batch' \in [completed : Nat, failures : Nat, canceled : Nat]
    BY <1>2, <2>3
  <2>9. Cardinality(Aborted') \in Nat
    BY <1>2, <2>6
  <2>10. Cardinality(Done') <= Counted' /\ Counted' <= Cardinality(Done') + Cardinality(Aborted')
    BY <2>4, <2>7, <2>9
  <2> QED
    BY <1>3, <2>1, <2>2, <2>8, <2>10 DEF CountInv
<1>7. CASE End
  <2> DEFINE h == Head(queue)
  <2>1. /\ stage = "queued" /\ stage' = stage /\ queue # <<>> /\ queue' = Tail(queue)
        /\ canceled' = canceled /\ selected' = selected /\ skipped' = skipped
    BY <1>7, MoveFacts DEF End, planVars
  <2>2. /\ h # Complete => h \in Files
        /\ ToSet(queue') = ToSet(queue) \ {h} /\ h \in ToSet(queue)
        /\ h = Complete => queue' = <<>>
    BY <1>1, <2>1, FrontFacts
  <2>3. ~shown /\ Aborted' = Aborted /\ Files' = Files
    BY <1>3, <2>1 DEF Aborted, Files
  <2>4. CASE EndOfDownload
    <3>1. h # Complete /\ batch' = CountFile(batch) /\ shown' = shown
      BY <2>4 DEF EndOfDownload
    <3>2. batch' \in [completed : Nat, failures : Nat, canceled : Nat] /\ Counted' = Counted + 1
      <4>1. CASE result = "ok"
        <5>1. batch' = [completed |-> batch.completed + 1, failures |-> batch.failures,
                        canceled |-> batch.canceled]
          BY <1>2, <3>1, <4>1 DEF CountFile
        <5>2. batch'.completed = batch.completed + 1 /\ batch'.failures = batch.failures
              /\ batch'.canceled = batch.canceled
          BY <5>1
        <5>3. Counted' = batch'.completed + batch'.failures + batch'.canceled - skipped
          BY <2>1 DEF Counted
        <5>4. Counted' = Counted + 1
          BY <1>2, <5>2, <5>3 DEF Counted
        <5>5. batch' \in [completed : Nat, failures : Nat, canceled : Nat]
          BY <1>2, <5>1
        <5> QED
          BY <5>4, <5>5
      <4>2. CASE result # "ok"
        <5>1. batch' = [completed |-> batch.completed, failures |-> batch.failures + 1,
                        canceled |-> batch.canceled]
          BY <1>2, <3>1, <4>2 DEF CountFile
        <5>2. batch'.completed = batch.completed /\ batch'.failures = batch.failures + 1
              /\ batch'.canceled = batch.canceled
          BY <5>1
        <5>3. Counted' = batch'.completed + batch'.failures + batch'.canceled - skipped
          BY <2>1 DEF Counted
        <5>4. Counted' = Counted + 1
          BY <1>2, <5>2, <5>3 DEF Counted
        <5>5. batch' \in [completed : Nat, failures : Nat, canceled : Nat]
          BY <1>2, <5>1
        <5> QED
          BY <5>4, <5>5
      <4> QED
        BY <4>1, <4>2
    <3>3. h \in Entries /\ h \notin Done /\ Done' = Done \cup {h}
      BY <1>4, <2>2, <2>3, <3>1 DEF Done
    <3>4. Cardinality(Done') = Cardinality(Done) + 1
      BY <1>2, <3>3, FiniteFacts
    <3>5. Cardinality(Aborted') = Cardinality(Aborted)
      BY <2>3
    <3>6. Cardinality(Done') <= Counted' /\ Counted' <= Cardinality(Done') + Cardinality(Aborted')
      BY <1>2, <1>5, <2>1, <3>2, <3>4, <3>5
    <3>7. shown' = FALSE
      BY <1>3, <2>3, <3>1
    <3>8. canceled' \subseteq Entries \cup {Complete}
      BY <1>3, <2>1
    <3>9. stage' \in {"queued", "closed"} /\ batch' \in [completed : Nat, failures : Nat, canceled : Nat]
      BY <2>1, <3>2
    <3> HIDE DEF h
    <3> QED
      BY <3>6, <3>7, <3>8, <3>9 DEF CountInv
  <2>5. CASE EndOfComplete
    <3>1. h = Complete /\ batch' = batch /\ shown' \in BOOLEAN
      BY <2>5 DEF EndOfComplete
    <3>2. Done' = Done
      BY <1>4, <2>2, <2>3, <3>1 DEF Done
    <3>3. Counted' = Counted
      BY <2>1, <3>1 DEF Counted
    <3>4. Cardinality(Done') <= Counted' /\ Counted' <= Cardinality(Done') + Cardinality(Aborted')
      BY <1>5, <2>1, <2>3, <3>2, <3>3
    <3> QED
      BY <1>3, <2>1, <2>2, <3>1, <3>4 DEF CountInv
  <2> QED
    BY <1>7, <2>4, <2>5 DEF End
<1>8. ASSUME NEW ops \in SUBSET (Entries \cup {Complete}), Cancel(ops), skipped' = skipped
      PROVE  /\ canceled' \subseteq Entries \cup {Complete} /\ canceled' = canceled \cup ops
             /\ batch' \in [completed : Nat, failures : Nat, canceled : Nat]
             /\ Counted' = Counted + Cardinality(ops \ {Complete})
  <2> DEFINE c == Cardinality(ops \ {Complete})
  <2>1. c \in Nat
    BY FiniteFacts
  <2>2. /\ canceled' = canceled \cup ops
        /\ batch' = [batch EXCEPT !.canceled = @ + c]
    BY <1>8 DEF Cancel
  <2> HIDE DEF c
  <2>3. batch' = [completed |-> batch.completed, failures |-> batch.failures,
                  canceled |-> batch.canceled + c]
    BY <1>2, <2>2
  <2>4. batch'.completed = batch.completed /\ batch'.failures = batch.failures
        /\ batch'.canceled = batch.canceled + c
    BY <2>3
  <2>5. Counted' = batch'.completed + batch'.failures + batch'.canceled - skipped'
    BY DEF Counted
  <2>6. Counted' = Counted + c
    BY <1>2, <1>8, <2>1, <2>4, <2>5 DEF Counted
  <2>7. batch' \in [completed : Nat, failures : Nat, canceled : Nat]
    BY <1>2, <2>1, <2>3
  <2>8. canceled' \subseteq Entries \cup {Complete}
    BY <1>3, <2>2
  <2> QED
    BY <2>2, <2>6, <2>7, <2>8 DEF c
<1>9. \A e \in Entries : Cardinality({e} \ {Complete}) = 1
  <2>1. \A e \in Entries : {e} \ {Complete} = {e}
    BY <1>4
  <2> QED
    BY <2>1, FiniteFacts
<1>10. Cardinality({Complete} \ {Complete}) = 0
  <2>1. {Complete} \ {Complete} = {}
    OBVIOUS
  <2> QED
    BY <2>1, FiniteFacts
<1>11. ASSUME NEW i \in 1..(Cardinality(Entries) + 1), CancelOperation(i)
       PROVE  CountInv'
  <2> DEFINE e == queue[i]
  <2>1. /\ stage = "queued" /\ stage' = stage /\ i \in DOMAIN queue /\ (step # "idle" => i # 1)
        /\ Cancel({e}) /\ queue' = RemoveAt(queue, i)
        /\ selected' = selected /\ skipped' = skipped /\ shown' = shown
    BY <1>11 DEF CancelOperation, planVars
  <2>2. /\ ToSet(queue') = ToSet(queue) \ {e} /\ e \in ToSet(queue) /\ e \in Entries \cup {Complete}
    BY <1>1, <2>1, CanceledFacts
  <2>3. ~shown
    <3>1. queue # <<>>
      BY <2>1
    <3> QED
      BY <1>3, <3>1
  <2> HIDE DEF e
  <2>4. /\ canceled' \subseteq Entries \cup {Complete} /\ canceled' = canceled \cup {e}
        /\ batch' \in [completed : Nat, failures : Nat, canceled : Nat]
        /\ Counted' = Counted + Cardinality({e} \ {Complete})
    <3>1. {e} \in SUBSET (Entries \cup {Complete})
      BY <2>2
    <3> QED
      BY <1>8, <2>1, <3>1
  <2>5. Files' = Files /\ Aborted \subseteq Aborted' /\ Aborted' \in SUBSET Entries
    <3>1. Files' = Files
      BY <2>1 DEF Files
    <3>2. Aborted' \subseteq Files'
      BY DEF Aborted, Files
    <3>3. Aborted \subseteq Aborted'
      BY <2>1, <2>4 DEF Aborted
    <3> QED
      BY <1>4, <3>1, <3>2, <3>3
  <2>6. Cardinality(Aborted) <= Cardinality(Aborted') /\ Cardinality(Aborted') \in Nat
    BY <1>2, <2>5, FiniteFacts
  <2>7. Cardinality(Done') <= Counted' /\ Counted' <= Cardinality(Done') + Cardinality(Aborted')
    <3>1. CASE e = Complete
      <4>1. Done' = Done
        BY <1>4, <2>2, <2>5, <3>1 DEF Done
      <4>2. Counted' = Counted
        BY <1>2, <1>10, <2>4, <3>1
      <4> QED
        BY <1>2, <1>5, <2>1, <2>6, <4>1, <4>2
    <3>2. CASE e # Complete
      <4>1. e \in Files
        BY <1>1, <2>2, <3>2 DEF QueueInv, Downloads
      <4>2. e \in Entries /\ e \notin Done /\ Done' = Done \cup {e}
        BY <1>4, <2>2, <2>5, <4>1 DEF Done
      <4>3. Cardinality(Done') = Cardinality(Done) + 1
        BY <1>2, <4>2, FiniteFacts
      <4>4. Counted' = Counted + 1
        BY <1>9, <2>4, <4>2
      <4> QED
        BY <1>2, <1>5, <2>1, <2>6, <4>3, <4>4
    <3> QED
      BY <3>1, <3>2
  <2> QED
    BY <1>3, <2>1, <2>3, <2>4, <2>7 DEF CountInv
<1>12. CASE AbortActive
  <2> DEFINE h == Head(queue)
  <2>1. /\ stage = "queued" /\ stage' = stage /\ h \notin canceled /\ Cancel({h})
        /\ selected' = selected /\ skipped' = skipped /\ shown' = shown /\ queue' = queue
        /\ step # "idle"
    BY <1>12 DEF AbortActive, planVars
  <2>2. queue # <<>> /\ ~shown
    BY <1>1, <1>3, <2>1 DEF QueueInv
  <2>3. h \in Entries \cup {Complete} /\ (h # Complete => h \in Files)
    BY <1>1, <2>2, FrontFacts
  <2> HIDE DEF h
  <2>4. /\ canceled' \subseteq Entries \cup {Complete} /\ canceled' = canceled \cup {h}
        /\ batch' \in [completed : Nat, failures : Nat, canceled : Nat]
        /\ Counted' = Counted + Cardinality({h} \ {Complete})
    <3>1. {h} \in SUBSET (Entries \cup {Complete})
      BY <2>3
    <3> QED
      BY <1>8, <2>1, <3>1
  <2>5. Files' = Files /\ Done' = Done
    BY <2>1 DEF Files, Done
  <2>6. Cardinality(Done') <= Counted' /\ Counted' <= Cardinality(Done') + Cardinality(Aborted')
    <3>1. CASE h = Complete
      <4>1. Aborted' = Aborted
        <5>1. Aborted' \subseteq Files' /\ Complete \notin Files'
          BY <1>4, <2>5 DEF Aborted, Files
        <5> QED
          BY <2>1, <2>4, <3>1, <5>1 DEF Aborted
      <4>2. Counted' = Counted
        BY <1>2, <1>10, <2>4, <3>1
      <4> QED
        BY <1>2, <1>5, <2>1, <2>5, <4>1, <4>2
    <3>2. CASE h # Complete
      <4>1. h \in Files /\ h \in Entries
        BY <1>4, <2>3, <3>2
      <4>2. h \notin Aborted /\ Aborted' = Aborted \cup {h}
        BY <2>1, <2>4, <4>1 DEF Aborted, Files
      <4>3. Cardinality(Aborted') = Cardinality(Aborted) + 1
        BY <1>2, <4>1, <4>2, FiniteFacts
      <4>4. Counted' = Counted + 1
        BY <1>9, <2>4, <4>1
      <4> QED
        BY <1>2, <1>5, <2>1, <2>5, <4>3, <4>4
    <3> QED
      BY <3>1, <3>2
  <2> QED
    BY <1>3, <2>1, <2>2, <2>4, <2>6 DEF CountInv
<1>13. CASE TerminateSession
  <2> DEFINE ops ==
        ToSet(queue) \ (canceled \cup {e \in ToSet(queue) : step = "performed" /\ e = Head(queue)})
  <2>1. /\ Cancel(ops) /\ queue' = <<>> /\ stage' = "closed"
        /\ selected' = selected /\ skipped' = skipped /\ shown' = shown
    BY <1>13 DEF TerminateSession, planVars
  <2>2. ops \in SUBSET (Entries \cup {Complete})
    BY <1>2
  <2>3. queue = <<>> => ops = {} /\ ToSet(queue') = ToSet(queue)
    BY <2>1 DEF ToSet
  <2> HIDE DEF ops
  <2>4. /\ canceled' \subseteq Entries \cup {Complete} /\ canceled' = canceled \cup ops
        /\ batch' \in [completed : Nat, failures : Nat, canceled : Nat]
        /\ Counted' = Counted + Cardinality(ops \ {Complete})
    BY <1>8, <2>1, <2>2
  <2>5. ASSUME shown
        PROVE  /\ Cardinality(Done') <= Counted'
               /\ Counted' <= Cardinality(Done') + Cardinality(Aborted')
    <3>1. ops = {} /\ ToSet(queue') = ToSet(queue)
      BY <1>3, <2>3, <2>5
    <3>2. ops \ {Complete} = {} /\ canceled' = canceled
      BY <2>4, <3>1
    <3>3. Counted' = Counted
      BY <1>2, <2>4, <3>2, FiniteFacts
    <3>4. Done' = Done /\ Aborted' = Aborted
      BY <2>1, <3>1, <3>2 DEF Done, Files, Aborted
    <3>5. Cardinality(Done) <= Counted /\ Counted <= Cardinality(Done) + Cardinality(Aborted)
      BY <1>1, <2>5 DEF CountInv
    <3> QED
      BY <3>3, <3>4, <3>5
  <2> QED
    BY <1>3, <2>1, <2>4, <2>5 DEF CountInv
<1>14. CASE /\ batch' = batch /\ shown' = shown /\ canceled' = canceled /\ queue' = queue
            /\ stage \notin {"queued", "closed"} /\ stage' \notin {"queued", "closed"}
  BY <1>1, <1>3, <1>14 DEF CountInv
<1>15. CASE /\ batch' = batch /\ shown' = shown /\ canceled' = canceled /\ queue' = queue
            /\ stage' = stage /\ selected' = selected /\ skipped' = skipped
  <2>1. Done' = Done /\ Aborted' = Aborted /\ Counted' = Counted
    BY <1>15 DEF Done, Files, Aborted, Counted
  <2> QED
    BY <1>1, <1>15, <2>1 DEF CountInv
<1>16. \/ Scan \/ ConfirmRemoteDownloadCollisions \/ Drop
       \/ (\E all \in BOOLEAN : Overwrite(all) \/ Skip(all))
       => /\ batch' = batch /\ shown' = shown /\ canceled' = canceled /\ queue' = queue
          /\ stage \notin {"queued", "closed"} /\ stage' \notin {"queued", "closed"}
  BY DEF Scan, Build, ScanDirectory, ScanFails, ScanEnds, Drop, ConfirmRemoteDownloadCollisions,
         Overwrite, Skip, batchVars
<1>17. \/ Pick \/ Begin("picked", "starting") \/ Begin("starting", "running")
       \/ (\E r \in {"ok", "error"} : Perform(r)) \/ UNCHANGED vars
       => /\ batch' = batch /\ shown' = shown /\ canceled' = canceled /\ queue' = queue
          /\ stage' = stage /\ selected' = selected /\ skipped' = skipped
  BY DEF Pick, Begin, Perform, vars, planVars, batchVars
<1> QED
  BY <1>6, <1>7, <1>11, <1>12, <1>13, <1>14, <1>15, <1>16, <1>17 DEF Next, Window, QueueThread

-----------------------------------------------------------------------------
(***************************************************************************)
(* The theorems.                                                           *)
(***************************************************************************)

\* The stages of a download and of the front of the queue.
LEMMA StageStep ==
  IInv /\ [Next]_vars =>
    /\ stage' \in Stages
    /\ step' \in {"idle", "picked", "starting", "running", "performed"}
<1> SUFFICES ASSUME IInv, [Next]_vars
             PROVE  /\ stage' \in Stages
                    /\ step' \in {"idle", "picked", "starting", "running", "performed"}
  OBVIOUS
<1>1. stage \in Stages /\ step \in {"idle", "picked", "starting", "running", "performed"}
  BY DEF IInv
<1>2. Scan \/ Window => stage' \in Stages /\ step' = step
  BY <1>1 DEF Scan, Build, ScanDirectory, ScanFails, ScanEnds, Window, Drop,
         QueueRemoteDownloadPlan, ConfirmRemoteDownloadCollisions, Overwrite, Skip, batchVars, Stages
<1>3. QueueThread =>
        stage' = stage /\ step' \in {"idle", "picked", "starting", "running", "performed"}
  BY DEF QueueThread, Pick, Begin, Perform, End, Move
<1>4. (\E i \in 1..(Cardinality(Entries) + 1) : CancelOperation(i)) \/ AbortActive
      => stage' = stage /\ step' = step
  BY DEF CancelOperation, AbortActive
<1>5. TerminateSession => stage' \in Stages /\ step' = "idle"
  BY DEF TerminateSession, Stages
<1>6. UNCHANGED vars => stage' = stage /\ step' = step
  BY DEF vars, batchVars
<1> QED
  BY <1>1, <1>2, <1>3, <1>4, <1>5, <1>6 DEF Next

\* The inductive invariant, for every tree of entries, every local disk and every order in
\* which the server lists a directory.
THEOREM Invariant == Spec => []IInv
<1>1. IInv /\ [Next]_vars => IInv'
  BY PlanStep, DiskStep, ConsentStep, QueueStep, CountStep, StageStep DEF IInv
<1> QED
  BY <1>1, InitIInv, PTL DEF Spec

\* The variables of a download stay in their types.
THEOREM TypeCorrect == Spec => []TypeOK
<1>1. IInv => TypeOK
  <2>1. SUFFICES ASSUME IInv
                 PROVE  TypeOK
    OBVIOUS
  <2>2. PlanInv /\ QueueInv
    BY <2>1 DEF IInv
  <2>3. ToSet(items) \subseteq Entries \cup {Root}
    BY <2>2, SetFacts DEF Nodes
  <2>4. ToSet(queue) \subseteq Entries \cup {Complete}
    BY <2>1, CountTypes
  <2> QED
    BY <2>1, <2>2, <2>3, <2>4 DEF TypeOK, IInv, PlanInv
<1> QED
  BY <1>1, Invariant, PTL

\* Above a selected item there are directories only, up to the local root: each selected
\* directory was made one, and the directory of a selected item is selected.
LEMMA AboveSelected ==
  ASSUME IInv, stage \in {"asking", "queued"}, NEW e \in selected, NEW path \in LocalPaths,
         IsPrefix(path, LocalPath[e])
  PROVE  path = LocalPath[e] \/ disk[path] = "dir"
<1>1. PlanInv /\ DiskInv
  BY DEF IInv
<1>2. path \in Seq(Names)
  BY PathFacts DEF LocalPaths, Nodes
<1>3. \A x \in selected : x \in Nodes /\ LocalPath[x] \in Seq(Names) /\ Len(LocalPath[x]) \in Nat
  BY <1>1, SetFacts, PathFacts
<1> DEFINE Good(x) == IsPrefix(path, LocalPath[x]) => path = LocalPath[x] \/ disk[path] = "dir"
           T == {k \in Nat : \A x \in selected : Len(LocalPath[x]) = k => Good(x)}
<1>4. ASSUME NEW x \in selected, x # Root
      PROVE  /\ Parent[x] \in selected /\ disk[LocalPath[Parent[x]]] = "dir"
             /\ Len(LocalPath[x]) = Len(LocalPath[Parent[x]]) + 1
             /\ IsPrefix(path, LocalPath[x]) =>
                  path = LocalPath[x] \/ IsPrefix(path, LocalPath[Parent[x]])
  <2>1. Parent[x] \in selected /\ IsDir(Parent[x])
    BY <1>1, <1>4 DEF PlanInv, Closed
  <2>2. disk[LocalPath[Parent[x]]] = "dir"
    BY <1>1, <2>1 DEF DiskInv
  <2>3. x \in Entries
    BY <1>3, <1>4 DEF Nodes
  <2>4. LocalName[x] \in Names /\ LocalPath[Parent[x]] \in Seq(Names)
        /\ LocalPath[x] = Append(LocalPath[Parent[x]], LocalName[x])
    BY <1>3, <2>1, <2>3, PathFacts DEF Names
  <2> QED
    BY <1>2, <2>1, <2>2, <2>4, PrefixFacts
<1>5. 0 \in T
  <2>1. ASSUME NEW x \in selected, Len(LocalPath[x]) = 0, IsPrefix(path, LocalPath[x])
        PROVE  path = LocalPath[x]
    <3>1. Len(path) = 0
      <4>1. Len(path) <= 0 /\ Len(path) \in Nat
        BY <1>2, <2>1 DEF IsPrefix
      <4> QED
        BY <4>1
    <3> QED
      BY <1>2, <1>3, <2>1, <3>1, EmptySeq
  <2> QED
    BY <2>1
<1>6. ASSUME NEW k \in T
      PROVE  k + 1 \in T
  <2>1. ASSUME NEW x \in selected, Len(LocalPath[x]) = k + 1, IsPrefix(path, LocalPath[x]),
               path # LocalPath[x]
        PROVE  disk[path] = "dir"
    <3>1. x # Root
      BY <2>1, PathFacts
    <3>2. Parent[x] \in selected /\ IsPrefix(path, LocalPath[Parent[x]])
          /\ disk[LocalPath[Parent[x]]] = "dir"
          /\ Len(LocalPath[x]) = Len(LocalPath[Parent[x]]) + 1
      BY <1>4, <2>1, <3>1
    <3>3. Len(LocalPath[Parent[x]]) = k
      <4>1. Len(LocalPath[Parent[x]]) \in Nat
        BY <1>3, <3>2
      <4> QED
        BY <2>1, <3>2, <4>1
    <3>4. Good(Parent[x])
      BY <3>2, <3>3
    <3> QED
      BY <3>2, <3>4
  <2>2. k + 1 \in Nat
    OBVIOUS
  <2> QED
    BY <2>1, <2>2
<1>7. T = Nat
  <2> HIDE DEF T
  <2>1. T \in SUBSET Nat
    BY DEF T
  <2> QED
    BY <1>5, <1>6, <2>1, NatInductionSet
<1>8. Len(LocalPath[e]) \in T
  <2> HIDE DEF T
  <2> QED
    BY <1>3, <1>7
<1> QED
  BY <1>8

\* Downloads are safe: each goes into a directory, through no reparse point, over nothing but
\* a file, which the user agreed to if it was there before; and no two into one place.
THEOREM DownloadSafety == Spec => []DownloadsAreSafe
<1>1. IInv => DownloadsAreSafe
  <2>1. SUFFICES ASSUME IInv
                 PROVE  DownloadsAreSafe
    OBVIOUS
  <2>2. PlanInv /\ DiskInv /\ ConsentInv /\ QueueInv
    BY <2>1 DEF IInv
  <2>3. ASSUME NEW e \in Downloads
        PROVE  /\ disk[LocalPath[Parent[e]]] = "dir" /\ ~ReparsePointAbove(LocalPath[e])
               /\ disk[LocalPath[e]] \in {"none", "file"}
               /\ step = "idle" /\ disk[LocalPath[e]] = "file" => e \in consent
    <3>1. e \in Files /\ stage = "queued"
      BY <2>2 DEF QueueInv, Downloads, ToSet
    <3>2. e \in selected /\ IsFile(e) /\ e # Root
      BY <3>1 DEF Files, IsFile
    <3>3. disk[LocalPath[e]] \in {"none", "file"}
      BY <2>2, <3>1, <3>2 DEF DiskInv
    <3>4. disk[LocalPath[Parent[e]]] = "dir"
      <4>1. Parent[e] \in selected /\ IsDir(Parent[e])
        BY <2>2, <3>2 DEF PlanInv, Closed
      <4> QED
        BY <2>2, <3>1, <4>1 DEF DiskInv
    <3>5. ~ReparsePointAbove(LocalPath[e])
      <4>1. SUFFICES ASSUME NEW p \in DOMAIN disk, IsPrefix(p, LocalPath[e]), disk[p] = "reparse"
                     PROVE  FALSE
        BY DEF ReparsePointAbove
      <4>2. p \in LocalPaths
        BY <2>2 DEF DiskInv
      <4>3. p = LocalPath[e] \/ disk[p] = "dir"
        BY <2>1, <3>1, <3>2, <4>1, <4>2, AboveSelected
      <4> QED
        BY <3>3, <4>1, <4>3
    <3>6. step = "idle" /\ disk[LocalPath[e]] = "file" => e \in consent
      BY <2>2 DEF ConsentInv
    <3> QED
      BY <3>3, <3>4, <3>5, <3>6
  <2>4. \A e, f \in selected : LocalPath[e] = LocalPath[f] => e = f
    BY <2>2 DEF PlanInv
  <2> QED
    BY <2>3, <2>4 DEF DownloadsAreSafe
<1> QED
  BY <1>1, Invariant, PTL

\* The summary accounts for every selected file.
THEOREM SummaryIsComplete == Spec => []SummaryAccounts
<1>1. IInv => SummaryAccounts
  <2>1. SUFFICES ASSUME IInv, shown
                 PROVE  /\ queue = <<>> /\ Cardinality(Files) <= Counted
                        /\ Counted <= Cardinality(Files) + Cardinality(Aborted)
    BY DEF SummaryAccounts
  <2>2. /\ queue = <<>>
        /\ Cardinality(Done) <= Counted /\ Counted <= Cardinality(Done) + Cardinality(Aborted)
    BY <2>1 DEF IInv, CountInv
  <2>3. Done = Files
    BY <2>2 DEF Done, ToSet
  <2> QED
    BY <2>2, <2>3
<1> QED
  BY <1>1, Invariant, PTL
=============================================================================
