------------------------ MODULE UploadSchedulerProofs ------------------------
(***************************************************************************)
(* Proofs about UploadScheduler, for every set of uploads, files and       *)
(* workers.                                                                *)
(***************************************************************************)
EXTENDS QueueMenu, SequenceTheorems, TLAPS

-----------------------------------------------------------------------------
(***************************************************************************)
(* Sequences that stand for a deque: push_back, pop_front and erase.       *)
(***************************************************************************)

\* Append adds one member and keeps a sequence free of repetitions.
LEMMA AppendFacts ==
  ASSUME NEW S, NEW s \in Seq(S), NEW e \in S
  PROVE  /\ Append(s, e) \in Seq(S)
         /\ Append(s, e) # <<>>
         /\ ToSet(Append(s, e)) = ToSet(s) \cup {e}
         /\ s # <<>> => Head(Append(s, e)) = Head(s)
         /\ e \notin ToSet(s) /\ IsInjective(s) => IsInjective(Append(s, e))
<1>1. DOMAIN s = 1..Len(s) /\ DOMAIN Append(s, e) = 1..(Len(s) + 1) /\ Len(s) \in Nat
  OBVIOUS
<1>2. \A i \in 1..(Len(s) + 1) : Append(s, e)[i] = IF i = Len(s) + 1 THEN e ELSE s[i]
  OBVIOUS
<1>3. \A i \in 1..(Len(s) + 1) : i = Len(s) + 1 \/ i \in 1..Len(s)
  BY <1>1
<1>4. ToSet(Append(s, e)) = ToSet(s) \cup {e}
  BY <1>1, <1>2, <1>3 DEF ToSet
<1>5. e \notin ToSet(s) /\ IsInjective(s) => IsInjective(Append(s, e))
  BY <1>1, <1>2, <1>3 DEF ToSet, IsInjective
<1>6. Append(s, e) \in Seq(S)
  OBVIOUS
<1>8. Append(s, e) # <<>>
  BY <1>1
<1>7. s # <<>> => Head(Append(s, e)) = Head(s)
  OBVIOUS
<1> QED
  BY <1>4, <1>5, <1>6, <1>7, <1>8

\* erase, as a sequence that skips position i.
LEMMA EraseShape ==
  ASSUME NEW S, NEW s \in Seq(S), NEW i \in 1..Len(s)
  PROVE  LET t == RemoveAt(s, i)
         IN  /\ t \in Seq(S) /\ Len(t) = Len(s) - 1
             /\ \A j \in 1..Len(t) : t[j] = IF j < i THEN s[j] ELSE s[j + 1]
<1> DEFINE a == SubSeq(s, 1, i - 1)
           b == SubSeq(s, i + 1, Len(s))
<1>1. Len(s) \in Nat \ {0} /\ i \in Nat /\ 1 <= i /\ i <= Len(s)
  OBVIOUS
<1>2. a \in Seq(S) /\ Len(a) = i - 1 /\ \A j \in 1..(i - 1) : a[j] = s[j]
  BY <1>1
<1>3. /\ b \in Seq(S) /\ Len(b) = Len(s) - i
      /\ \A j \in 1..(Len(s) - i) : b[j] = s[i + j]
  BY <1>1
<1> HIDE DEF a, b
<1>4. a \o b \in Seq(S) /\ Len(a \o b) = Len(s) - 1
  <2>1. a \in Seq(S) /\ b \in Seq(S)
    BY <1>2, <1>3
  <2>3. a \o b \in Seq(S) /\ Len(a \o b) = Len(a) + Len(b)
    BY <2>1
  <2>2. Len(a) + Len(b) = Len(s) - 1
    BY <1>1, <1>2, <1>3
  <2> QED
    BY <2>2, <2>3
<1>5. ASSUME NEW j \in 1..Len(a \o b)
      PROVE  (a \o b)[j] = IF j < i THEN s[j] ELSE s[j + 1]
  <2>1. (a \o b)[j] = IF j <= Len(a) THEN a[j] ELSE b[j - Len(a)]
    BY <1>2, <1>3, <1>4
  <2>2. CASE j < i
    BY <1>1, <1>2, <2>1, <2>2
  <2>3. CASE ~(j < i)
    <3>1. j - (i - 1) \in 1..(Len(s) - i) /\ i + (j - (i - 1)) = j + 1
      BY <1>1, <1>4, <2>3
    <3>2. ~(j <= Len(a)) /\ j - Len(a) = j - (i - 1)
      BY <1>1, <1>2, <2>3
    <3> QED
      BY <1>3, <2>1, <2>3, <3>1, <3>2
  <2> QED
    BY <2>2, <2>3
<1> QED
  BY <1>4, <1>5 DEF a, b, RemoveAt

\* Removing the element at position i leaves the others, in particular the front.
LEMMA EraseFacts ==
  ASSUME NEW S, NEW s \in Seq(S), NEW i \in 1..Len(s)
  PROVE  /\ s[i] \in S /\ s[i] \in ToSet(s)
         /\ ToSet(RemoveAt(s, i)) \subseteq ToSet(s)
         /\ i # 1 => /\ RemoveAt(s, i) # <<>>
                     /\ Head(RemoveAt(s, i)) = Head(s)
                     /\ IsInjective(s) => s[i] # Head(s)
         /\ IsInjective(s) => /\ s[i] \notin ToSet(RemoveAt(s, i))
                              /\ IsInjective(RemoveAt(s, i))
<1> DEFINE t == RemoveAt(s, i)
<1>0. /\ t \in Seq(S) /\ Len(t) = Len(s) - 1
      /\ \A j \in 1..Len(t) : t[j] = IF j < i THEN s[j] ELSE s[j + 1]
  BY EraseShape
<1> HIDE DEF t
<1> DEFINE shift(j) == IF j < i THEN j ELSE j + 1
<1>1. /\ Len(s) \in Nat \ {0} /\ Len(t) \in Nat /\ i \in Nat /\ 1 <= i /\ i <= Len(s)
      /\ DOMAIN s = 1..Len(s) /\ DOMAIN t = 1..Len(t)
  BY <1>0
<1>2. \A j \in 1..Len(t) : t[j] = s[shift(j)] /\ shift(j) \in 1..Len(s) /\ shift(j) # i
  BY <1>0, <1>1
<1>3. \A j, k \in 1..Len(t) : shift(j) = shift(k) => j = k
  BY <1>0, <1>1
<1> HIDE DEF shift
<1>4. s[i] \in S /\ s[i] \in ToSet(s)
  BY DEF ToSet
<1>5. ToSet(t) \subseteq ToSet(s)
  BY <1>1, <1>2 DEF ToSet
<1>6. i # 1 => t # <<>> /\ Head(t) = Head(s)
  BY <1>0, <1>1
<1>7. i # 1 /\ IsInjective(s) => s[i] # Head(s)
  BY <1>1 DEF IsInjective
<1>8. ASSUME IsInjective(s)
      PROVE  s[i] \notin ToSet(t) /\ IsInjective(t)
  <2>1. \A j \in 1..Len(t) : t[j] # s[i]
    BY <1>1, <1>2, <1>8 DEF IsInjective
  <2>2. \A j, k \in 1..Len(t) : t[j] = t[k] => j = k
    BY <1>1, <1>2, <1>3, <1>8 DEF IsInjective
  <2> QED
    BY <1>1, <2>1, <2>2 DEF ToSet, IsInjective
<1> QED
  BY <1>4, <1>5, <1>6, <1>7, <1>8 DEF t

\* ... and nothing else is removed.
LEMMA EraseKeeps ==
  ASSUME NEW S, NEW s \in Seq(S), NEW i \in 1..Len(s)
  PROVE  ToSet(s) \subseteq ToSet(RemoveAt(s, i)) \cup {s[i]}
<1> DEFINE t == RemoveAt(s, i)
<1>1. /\ t \in Seq(S) /\ Len(t) = Len(s) - 1
      /\ \A j \in 1..Len(t) : t[j] = IF j < i THEN s[j] ELSE s[j + 1]
  BY EraseShape
<1> HIDE DEF t
<1>2. ASSUME NEW k \in 1..Len(s), k # i
      PROVE  s[k] \in ToSet(t)
  <2>1. DOMAIN t = 1..Len(t) /\ Len(s) \in Nat
    BY <1>1
  <2>2. CASE k < i
    <3>1. k \in 1..Len(t) /\ t[k] = s[k]
      BY <1>1, <2>1, <2>2
    <3> QED
      BY <2>1, <3>1 DEF ToSet
  <2>3. CASE ~(k < i)
    <3>1. k - 1 \in 1..Len(t) /\ ~(k - 1 < i) /\ (k - 1) + 1 = k
      BY <1>1, <1>2, <2>1, <2>3
    <3>2. t[k - 1] = s[k]
      BY <1>1, <3>1
    <3> QED
      BY <2>1, <3>1, <3>2 DEF ToSet
  <2> QED
    BY <2>2, <2>3
<1> QED
  BY <1>2 DEF t, ToSet

-----------------------------------------------------------------------------
\* Taking an operation out of a lane that holds it once.
LEMMA TakeFacts ==
  ASSUME NEW lane \in Seq(Ops), IsInjective(lane), NEW i \in 1..Len(lane)
  PROVE  /\ lane[i] \in Ops /\ lane[i] \in ToSet(lane)
         /\ RemoveAt(lane, i) \in Seq(Ops)
         /\ IsInjective(RemoveAt(lane, i))
         /\ ToSet(RemoveAt(lane, i)) = ToSet(lane) \ {lane[i]}
<1>1. RemoveAt(lane, i) \in Seq(Ops)
  BY EraseShape
<1> QED
  BY <1>1, EraseFacts, EraseKeeps

\* RemoveFrom removes the operation, wherever it stands, and nothing else.
LEMMA RemoveFromFacts ==
  ASSUME NEW lane \in Seq(Ops), IsInjective(lane), NEW o \in Ops
  PROVE  /\ RemoveFrom(lane, o) \in Seq(Ops)
         /\ IsInjective(RemoveFrom(lane, o))
         /\ ToSet(RemoveFrom(lane, o)) = ToSet(lane) \ {o}
<1>1. CASE o \in ToSet(lane)
  <2> DEFINE i == CHOOSE k \in 1..Len(lane) : lane[k] = o
  <2>1. \E k \in 1..Len(lane) : lane[k] = o
    BY <1>1 DEF ToSet
  <2>2. i \in 1..Len(lane) /\ lane[i] = o
    BY <2>1
  <2>3. RemoveFrom(lane, o) = RemoveAt(lane, i)
    BY <1>1 DEF RemoveFrom
  <2> HIDE DEF i
  <2> QED
    BY <2>2, <2>3, TakeFacts
<1>2. CASE o \notin ToSet(lane)
  BY <1>2 DEF RemoveFrom
<1> QED
  BY <1>1, <1>2

\* PromoteWaiting moves a waiting operation; both lanes together keep theirs.
LEMMA PromoteFacts ==
  ASSUME TypeOK, OneOwner, NEW p \in Waiting, PromoteWaiting(p)
  PROVE  /\ urgent' \in Seq(Ops) /\ normal' \in Seq(Ops)
         /\ IsInjective(urgent') /\ IsInjective(normal')
         /\ ToSet(urgent') = ToSet(urgent) \cup {p}
         /\ ToSet(normal') = ToSet(normal) \ {p}
<1>a. /\ urgent \in Seq(Ops) /\ normal \in Seq(Ops)
      /\ IsInjective(urgent) /\ IsInjective(normal)
      /\ ToSet(urgent) \cap ToSet(normal) = {}
  BY DEF TypeOK, OneOwner
<1>b. p \in Ops
  BY <1>a DEF Waiting, ToSet
<1>0. /\ urgent \in Seq(Ops) /\ normal \in Seq(Ops) /\ p \in Ops
      /\ IsInjective(urgent) /\ IsInjective(normal)
      /\ ToSet(urgent) \cap ToSet(normal) = {}
  BY <1>a, <1>b
<1>1. CASE p \in ToSet(urgent)
  BY <1>0, <1>1 DEF PromoteWaiting
<1>2. CASE p \notin ToSet(urgent)
  <2>1. normal' = RemoveFrom(normal, p) /\ urgent' = Append(urgent, p)
    BY <1>2 DEF PromoteWaiting
  <2> QED
    BY <1>0, <1>2, <2>1, RemoveFromFacts, AppendFacts
<1> QED
  BY <1>1, <1>2

\* A round of the dispatcher takes one operation from one of the lanes.
LEMMA TakeNextFacts ==
  ASSUME TypeOK, OneOwner, NEW w \in Workers, TakeNextMatching(w)
  PROVE  \E o \in Waiting :
           /\ ~WorkerConflict(o)
           /\ Assign(w, o)
           /\ urgent' \in Seq(Ops) /\ normal' \in Seq(Ops)
           /\ IsInjective(urgent') /\ IsInjective(normal')
           /\ ToSet(urgent') = ToSet(urgent) \ {o}
           /\ ToSet(normal') = ToSet(normal) \ {o}
<1>0. /\ urgent \in Seq(Ops) /\ normal \in Seq(Ops)
      /\ IsInjective(urgent) /\ IsInjective(normal)
      /\ ToSet(urgent) \cap ToSet(normal) = {}
  BY DEF TypeOK, OneOwner
<1>1. ASSUME NEW i \in 1..Len(urgent), FirstMatching(urgent, i), Assign(w, urgent[i]),
             urgent' = RemoveAt(urgent, i), UNCHANGED normal
      PROVE  \E o \in Waiting :
               /\ ~WorkerConflict(o)
               /\ Assign(w, o)
               /\ urgent' \in Seq(Ops) /\ normal' \in Seq(Ops)
               /\ IsInjective(urgent') /\ IsInjective(normal')
               /\ ToSet(urgent') = ToSet(urgent) \ {o}
               /\ ToSet(normal') = ToSet(normal) \ {o}
  <2>1. urgent[i] \in ToSet(urgent) /\ ~WorkerConflict(urgent[i])
    BY <1>0, <1>1, TakeFacts DEF FirstMatching
  <2>2. urgent[i] \in Waiting
    BY <2>1 DEF Waiting
  <2>3. /\ urgent' \in Seq(Ops) /\ normal' \in Seq(Ops)
        /\ IsInjective(urgent') /\ IsInjective(normal')
        /\ ToSet(urgent') = ToSet(urgent) \ {urgent[i]}
        /\ ToSet(normal') = ToSet(normal) \ {urgent[i]}
    BY <1>0, <1>1, <2>1, TakeFacts
  <2> QED
    BY <1>1, <2>1, <2>2, <2>3
<1>2. ASSUME NEW i \in 1..Len(normal), FirstMatching(normal, i), Assign(w, normal[i]),
             normal' = RemoveAt(normal, i), UNCHANGED urgent
      PROVE  \E o \in Waiting :
               /\ ~WorkerConflict(o)
               /\ Assign(w, o)
               /\ urgent' \in Seq(Ops) /\ normal' \in Seq(Ops)
               /\ IsInjective(urgent') /\ IsInjective(normal')
               /\ ToSet(urgent') = ToSet(urgent) \ {o}
               /\ ToSet(normal') = ToSet(normal) \ {o}
  <2>1. normal[i] \in ToSet(normal) /\ ~WorkerConflict(normal[i])
    BY <1>0, <1>2, TakeFacts DEF FirstMatching
  <2>2. normal[i] \in Waiting
    BY <2>1 DEF Waiting
  <2>3. /\ urgent' \in Seq(Ops) /\ normal' \in Seq(Ops)
        /\ IsInjective(urgent') /\ IsInjective(normal')
        /\ ToSet(urgent') = ToSet(urgent) \ {normal[i]}
        /\ ToSet(normal') = ToSet(normal) \ {normal[i]}
    BY <1>0, <1>2, <2>1, TakeFacts
  <2> QED
    BY <1>2, <2>1, <2>2, <2>3
<1> QED
  BY <1>1, <1>2 DEF TakeNextMatching

-----------------------------------------------------------------------------
\* An operation that is given up leaves every variable in its type.
LEMMA GiveUpFacts ==
  ASSUME TypeOK, NEW w \in Workers, NEW from, GiveUp(w, from), assigned[w] \in Ops
  PROVE  TypeOK'
<1>1. /\ phase' = [phase EXCEPT ![w] = "ended"]
      /\ lost' = lost \cup {File[assigned[w]]}
      /\ UNCHANGED <<laneVars, assigned, opVars, stopVars, upc, saved, reading, remote>>
  BY DEF GiveUp, Move
<1>2. phase' \in [Workers -> Phases]
  BY <1>1 DEF TypeOK, Phases
<1>3. lost' \in SUBSET Files
  <2>1. File[assigned[w]] \in Files
    BY OpsAssumption
  <2> QED
    BY <1>1, <2>1 DEF TypeOK
<1> QED
  BY <1>1, <1>2, <1>3 DEF laneVars, opVars, stopVars, TypeOK

\* Every action keeps the types.
LEMMA TypeStep ==
  ASSUME IInv, Next
  PROVE  TypeOK'
<1> USE OpsAssumption
<1>0. /\ TypeOK
      /\ urgent \in Seq(Ops) /\ normal \in Seq(Ops) /\ Waiting \subseteq Ops
      /\ IsInjective(urgent) /\ IsInjective(normal)
      /\ assigned \in [Workers -> Ops \cup {NoOp}] /\ phase \in [Workers -> Phases]
      /\ adding \in Ops \cup {NoOp}
      /\ canceled \in SUBSET Ops /\ created \in SUBSET Ops /\ gone \in SUBSET Ops
      /\ stopped \in SUBSET Workers /\ upc \in WindowPcs
      /\ saved \in [Files -> Nat] /\ remote \in [Files -> Nat] /\ reading \in [Workers -> Nat]
      /\ lost \in SUBSET Files
      /\ \A o \in Ops : File[o] \in Files
      /\ upc = "adding" => adding \in Ops
      /\ \A w \in Workers : phase[w] \in {"queued", "picked", "starting", "running", "ended", "popped"}
           => assigned[w] \in Ops
  <2>1. TypeOK /\ OneOwner /\ AddingInv /\ PhaseInv
    BY DEF IInv
  <2>2. Waiting \subseteq Ops
    BY <2>1 DEF Waiting, ToSet, TypeOK
  <2>3. IsInjective(urgent) /\ IsInjective(normal)
    BY <2>1 DEF OneOwner
  <2>4. \A w \in Workers : phase[w] \in {"queued", "picked", "starting", "running", "ended", "popped"}
           => assigned[w] \in Ops
    BY <2>1 DEF PhaseInv, TypeOK, Phases
  <2>5. upc = "adding" => adding \in Ops
    BY <2>1 DEF AddingInv, TypeOK
  <2> QED
    BY <2>1, <2>2, <2>3, <2>4, <2>5 DEF TypeOK
<1>1. ASSUME NEW o \in Ops, AddQueueOp(o)
      PROVE  TypeOK'
  <2>1. /\ adding' \in Ops \cup {NoOp} /\ created' \in SUBSET Ops /\ gone' \in SUBSET Ops
        /\ canceled' \in SUBSET Ops /\ upc' \in WindowPcs
        /\ assigned' = assigned /\ phase' = phase /\ stopping' = stopping
        /\ dispatcher' = dispatcher /\ stopped' = stopped
        /\ remote' = remote /\ reading' = reading
    BY <1>0, <1>1 DEF AddQueueOp, workVars, stopVars, WindowPcs
  <2>2. saved' \in [Files -> Nat] /\ lost' \in SUBSET Files
    BY <1>0, <1>1 DEF AddQueueOp
  <2>3. urgent' \in Seq(Ops) /\ normal' \in Seq(Ops)
    <3>1. CASE UNCHANGED <<urgent, normal>>
      BY <1>0, <3>1
    <3>2. ASSUME NEW p \in WaitingDuplicates(o), PromoteWaiting(p)
          PROVE  urgent' \in Seq(Ops) /\ normal' \in Seq(Ops)
      BY <3>2, PromoteFacts DEF WaitingDuplicates, IInv
    <3> QED
      BY <1>1, <3>1, <3>2 DEF AddQueueOp
  <2> QED
    BY <1>0, <2>1, <2>2, <2>3 DEF TypeOK
<1>2. ASSUME NEW o \in Ops, CancelWaiting(o)
      PROVE  TypeOK'
  <2>1. urgent' \in Seq(Ops) /\ normal' \in Seq(Ops)
    BY <1>0, <1>2, RemoveFromFacts DEF CancelWaiting
  <2> QED
    BY <1>0, <1>2, <2>1 DEF CancelWaiting, workVars, stopVars, TypeOK
<1>3. CASE AddQueueOpPush
  <2>1. Append(urgent, adding) \in Seq(Ops) /\ Append(normal, adding) \in Seq(Ops)
    BY <1>0, <1>3 DEF AddQueueOpPush
  <2> QED
    BY <1>0, <1>3, <2>1 DEF AddQueueOpPush, workVars, opVars, stopVars, fileVars,
      TypeOK, WindowPcs
<1>4. CASE AbortActive
  <2>1. {assigned[w] : w \in {v \in Workers : phase[v] \in {"starting", "running"}}} \subseteq Ops
    BY <1>0
  <2>2. canceled' \in SUBSET Ops
    BY <1>0, <1>4, <2>1 DEF AbortActive
  <2> QED
    BY <1>0, <1>4, <2>2 DEF AbortActive, laneVars, workVars, stopVars, fileVars, TypeOK
<1>5. CASE Deinitialize
  <2>1. {assigned[w] : w \in {v \in Workers : phase[v] \in {"picked", "starting", "running"}}}
          \subseteq Ops
    BY <1>0
  <2>2. canceled' \in SUBSET Ops
    BY <1>0, <1>5, <2>1 DEF Deinitialize
  <2> QED
    BY <1>0, <1>5, <2>2 DEF Deinitialize, laneVars, workVars, fileVars, TypeOK, WindowPcs
<1>6. CASE JoinDispatcher
  BY <1>0, <1>6 DEF JoinDispatcher, laneVars, workVars, opVars, stopVars,
    fileVars, TypeOK, Phases, WindowPcs
<1>7. CASE DrainWorker
  <2>1. upc' \in WindowPcs /\ assigned' \in [Workers -> Ops \cup {NoOp}]
    BY <1>0, <1>7 DEF DrainWorker, WindowPcs
  <2>2. ({assigned[w] : w \in stopped} \ {NoOp}) \in SUBSET Ops
    BY <1>0
  <2>3. canceled' \in SUBSET Ops /\ gone' \in SUBSET Ops /\ lost' \in SUBSET Files
    BY <1>0, <1>7, <2>2 DEF DrainWorker
  <2> QED
    BY <1>0, <1>7, <2>1, <2>3 DEF DrainWorker, laneVars, stopVars, TypeOK
<1>8. CASE DeletePendingOperations
  <2>1. canceled' \in SUBSET Ops /\ gone' \in SUBSET Ops /\ lost' \in SUBSET Files
    BY <1>0, <1>8 DEF DeletePendingOperations
  <2> QED
    BY <1>0, <1>8, <2>1 DEF DeletePendingOperations, workVars, stopVars, TypeOK, WindowPcs
<1>9. ASSUME NEW w \in Workers, StopWorker(w)
      PROVE  TypeOK'
  BY <1>0, <1>9 DEF StopWorker, laneVars, workVars, opVars, stopVars,
    fileVars, TypeOK, Phases, WindowPcs
<1>10. CASE DispatcherExits
  BY <1>0, <1>10 DEF DispatcherExits, laneVars, workVars, opVars, stopVars,
    fileVars, TypeOK, Phases, WindowPcs
<1>11. ASSUME NEW w \in Workers, Dispatch(w)
      PROVE  TypeOK'
  <2>1. PICK o \in Waiting : /\ Assign(w, o)
                             /\ urgent' \in Seq(Ops) /\ normal' \in Seq(Ops)
    BY <1>11, TakeNextFacts DEF Dispatch, IInv
  <2> QED
    BY <1>0, <1>11, <2>1 DEF Dispatch, Assign, opVars, stopVars, fileVars, TypeOK, Phases
<1>12. ASSUME NEW w \in Workers, CancelAssigned(w)
      PROVE  TypeOK'
  BY <1>0, <1>12 DEF CancelAssigned, laneVars, workVars, opVars, stopVars,
    fileVars, TypeOK, Phases, WindowPcs
<1>13. ASSUME NEW w \in Workers, Pick(w)
      PROVE  TypeOK'
  BY <1>0, <1>13 DEF Pick, Move, laneVars, workVars, opVars, stopVars,
    fileVars, TypeOK, Phases, WindowPcs
<1>14. ASSUME NEW w \in Workers, StartExecution(w)
      PROVE  TypeOK'
  <2>1. CASE assigned[w] \notin canceled
    <3>1. /\ phase' \in [Workers -> Phases]
          /\ UNCHANGED <<laneVars, assigned, opVars, stopVars, upc, fileVars>>
      BY <1>0, <1>14, <2>1 DEF StartExecution, GiveUp, Move, Phases
    <3> QED
      BY <1>0, <3>1 DEF laneVars, opVars, stopVars, fileVars, TypeOK
  <2>2. CASE GiveUp(w, "picked")
    <3>1. assigned[w] \in Ops
      BY <1>0, <2>2 DEF GiveUp, Move
    <3> QED
      BY <1>0, <2>2, <3>1, GiveUpFacts
  <2> QED
    BY <1>14, <2>1, <2>2 DEF StartExecution
<1>15. ASSUME NEW w \in Workers, BeginPerform(w)
      PROVE  TypeOK'
  <2>1. CASE assigned[w] \notin canceled
    <3>1. /\ Move(w, "starting", "running")
          /\ reading' = [reading EXCEPT ![w] = saved[File[assigned[w]]]]
          /\ UNCHANGED <<laneVars, assigned, opVars, stopVars, upc, saved, remote, lost>>
      BY <1>15, <2>1 DEF BeginPerform, GiveUp
    <3>2. phase' \in [Workers -> Phases]
      BY <1>0, <3>1 DEF Move, Phases
    <3>3. saved[File[assigned[w]]] \in Nat
      <4>1. assigned[w] \in Ops
        BY <1>0, <3>1 DEF Move
      <4> QED
        BY <1>0, <4>1
    <3>4. reading' \in [Workers -> Nat]
      BY <1>0, <3>1, <3>3
    <3> QED
      BY <1>0, <3>1, <3>2, <3>4 DEF laneVars, opVars, stopVars, TypeOK
  <2>2. CASE GiveUp(w, "starting")
    <3>1. assigned[w] \in Ops
      BY <1>0, <2>2 DEF GiveUp, Move
    <3> QED
      BY <1>0, <2>2, <3>1, GiveUpFacts
  <2> QED
    BY <1>15, <2>1, <2>2 DEF BeginPerform
<1>16. ASSUME NEW w \in Workers, SendFileOk(w)
      PROVE  TypeOK'
  BY <1>0, <1>16 DEF SendFileOk, Move, laneVars, workVars, opVars, stopVars,
    fileVars, TypeOK, Phases, WindowPcs
<1>17. ASSUME NEW w \in Workers, SendFileFails(w)
      PROVE  TypeOK'
  BY <1>0, <1>17 DEF SendFileFails, Move, laneVars, workVars, opVars,
    stopVars, fileVars, TypeOK, Phases, WindowPcs
<1>18. ASSUME NEW w \in Workers, PopFront(w)
      PROVE  TypeOK'
  BY <1>0, <1>18 DEF PopFront, Move, laneVars, workVars, opVars, stopVars,
    fileVars, TypeOK, Phases, WindowPcs
<1>19. ASSUME NEW w \in Workers, WorkerOperationTerminal(w)
      PROVE  TypeOK'
  BY <1>0, <1>19 DEF WorkerOperationTerminal, Move, laneVars, workVars,
    opVars, stopVars, fileVars, TypeOK, Phases, WindowPcs
<1>20. ASSUME NEW w \in Workers, StopThread(w)
      PROVE  TypeOK'
  BY <1>0, <1>20 DEF StopThread, laneVars, workVars, opVars, stopVars,
    fileVars, TypeOK, Phases, WindowPcs
<1> QED
  BY <1>1, <1>2, <1>3, <1>4, <1>5, <1>6, <1>7, <1>8, <1>9, <1>10, <1>11,
    <1>12, <1>13, <1>14, <1>15, <1>16, <1>17, <1>18, <1>19, <1>20
    DEF Next, Closing, Worker

\* Every action keeps what the phases and Deinitialize's progress imply.
LEMMA ControlStep ==
  ASSUME IInv, Next
  PROVE  PhaseInv' /\ AddingInv' /\ StopInv'
<1> USE OpsAssumption
<1>0. /\ PhaseInv /\ AddingInv /\ StopInv
      /\ phase \in [Workers -> Phases] /\ assigned \in [Workers -> Ops \cup {NoOp}]
      /\ stopped \subseteq Workers /\ Waiting \subseteq created /\ created \subseteq Ops
      /\ adding \in Ops \cup {NoOp}
      /\ \A w \in Workers : assigned[w] # NoOp => assigned[w] \in created
      /\ stopping \in BOOLEAN /\ upc \in WindowPcs
  <2>1. PhaseInv /\ AddingInv /\ StopInv /\ TypeOK /\ OneOwner
    BY DEF IInv
  <2>2. Waiting \subseteq created /\ \A w \in Workers : assigned[w] # NoOp => assigned[w] \in created
    BY <2>1 DEF OneOwner, Live, Assigned
  <2> QED
    BY <2>1, <2>2 DEF TypeOK
<1>1. ASSUME NEW o \in Ops, AddQueueOp(o)
      PROVE  PhaseInv' /\ AddingInv' /\ StopInv'
  BY <1>0, <1>1 DEF AddQueueOp, laneVars, workVars, opVars, stopVars,
    fileVars, PhaseInv, AddingInv, StopInv, Phases
<1>2. ASSUME NEW o \in Ops, CancelWaiting(o)
      PROVE  PhaseInv' /\ AddingInv' /\ StopInv'
  BY <1>0, <1>2 DEF CancelWaiting, laneVars, workVars, opVars, stopVars,
    fileVars, PhaseInv, AddingInv, StopInv, Phases
<1>3. CASE AddQueueOpPush
  BY <1>0, <1>3 DEF AddQueueOpPush, laneVars, workVars, opVars, stopVars,
    fileVars, PhaseInv, AddingInv, StopInv, Phases
<1>4. CASE AbortActive
  BY <1>0, <1>4 DEF AbortActive, laneVars, workVars, opVars, stopVars,
    fileVars, PhaseInv, AddingInv, StopInv, Phases
<1>5. CASE Deinitialize
  BY <1>0, <1>5 DEF Deinitialize, laneVars, workVars, opVars, stopVars,
    fileVars, PhaseInv, AddingInv, StopInv, Phases
<1>6. CASE JoinDispatcher
  BY <1>0, <1>6 DEF JoinDispatcher, laneVars, workVars, opVars, stopVars,
    fileVars, PhaseInv, AddingInv, StopInv, Phases
<1>7. CASE DrainWorker
  <2>3. ({assigned[w] : w \in stopped} \ {NoOp}) \subseteq created
    BY <1>0
  <2>1. gone' \subseteq created'
    BY <1>0, <1>7, <2>3 DEF DrainWorker, AddingInv
  <2>2. /\ assigned' = [w \in Workers |-> IF w \in stopped THEN NoOp ELSE assigned[w]]
        /\ upc' = IF stopped = Workers THEN "deletePending" ELSE "stopWorkers"
        /\ upc = "waitWorker" /\ phase' = phase /\ stopped' = stopped
        /\ dispatcher' = dispatcher /\ adding' = adding
        /\ \A w \in stopped : phase[w] = "exited"
    BY <1>7 DEF DrainWorker, laneVars, stopVars
  <2> QED
    BY <1>0, <2>1, <2>2 DEF PhaseInv, AddingInv, StopInv, Phases
<1>8. CASE DeletePendingOperations
  BY <1>0, <1>8 DEF DeletePendingOperations, laneVars, workVars, opVars,
    stopVars, fileVars, PhaseInv, AddingInv, StopInv, Phases
<1>9. ASSUME NEW w \in Workers, StopWorker(w)
      PROVE  PhaseInv' /\ AddingInv' /\ StopInv'
  BY <1>0, <1>9 DEF StopWorker, laneVars, workVars, opVars, stopVars,
    fileVars, PhaseInv, AddingInv, StopInv, Phases
<1>10. CASE DispatcherExits
  BY <1>0, <1>10 DEF DispatcherExits, laneVars, workVars, opVars, stopVars,
    fileVars, PhaseInv, AddingInv, StopInv, Phases
<1>11. ASSUME NEW w \in Workers, Dispatch(w)
      PROVE  PhaseInv' /\ AddingInv' /\ StopInv'
  <2>1. PICK o \in Waiting : Assign(w, o)
    BY <1>11, TakeNextFacts DEF Dispatch, IInv
  <2> QED
    BY <1>0, <1>11, <2>1 DEF Dispatch, Assign, opVars, stopVars, fileVars,
      PhaseInv, AddingInv, StopInv, Phases
<1>12. ASSUME NEW w \in Workers, CancelAssigned(w)
      PROVE  PhaseInv' /\ AddingInv' /\ StopInv'
  BY <1>0, <1>12 DEF CancelAssigned, laneVars, workVars, opVars, stopVars,
    fileVars, PhaseInv, AddingInv, StopInv, Phases
<1>13. ASSUME NEW w \in Workers, Pick(w)
      PROVE  PhaseInv' /\ AddingInv' /\ StopInv'
  BY <1>0, <1>13 DEF Pick, Move, laneVars, workVars, opVars, stopVars,
    fileVars, PhaseInv, AddingInv, StopInv, Phases
<1>14. ASSUME NEW w \in Workers, StartExecution(w)
      PROVE  PhaseInv' /\ AddingInv' /\ StopInv'
  BY <1>0, <1>14 DEF StartExecution, GiveUp, Move, laneVars, workVars,
    opVars, stopVars, fileVars, PhaseInv, AddingInv, StopInv, Phases
<1>15. ASSUME NEW w \in Workers, BeginPerform(w)
      PROVE  PhaseInv' /\ AddingInv' /\ StopInv'
  BY <1>0, <1>15 DEF BeginPerform, GiveUp, Move, laneVars, workVars, opVars,
    stopVars, fileVars, PhaseInv, AddingInv, StopInv, Phases
<1>16. ASSUME NEW w \in Workers, SendFileOk(w)
      PROVE  PhaseInv' /\ AddingInv' /\ StopInv'
  BY <1>0, <1>16 DEF SendFileOk, Move, laneVars, workVars, opVars, stopVars,
    fileVars, PhaseInv, AddingInv, StopInv, Phases
<1>17. ASSUME NEW w \in Workers, SendFileFails(w)
      PROVE  PhaseInv' /\ AddingInv' /\ StopInv'
  BY <1>0, <1>17 DEF SendFileFails, Move, laneVars, workVars, opVars,
    stopVars, fileVars, PhaseInv, AddingInv, StopInv, Phases
<1>18. ASSUME NEW w \in Workers, PopFront(w)
      PROVE  PhaseInv' /\ AddingInv' /\ StopInv'
  BY <1>0, <1>18 DEF PopFront, Move, laneVars, workVars, opVars, stopVars,
    fileVars, PhaseInv, AddingInv, StopInv, Phases
<1>19. ASSUME NEW w \in Workers, WorkerOperationTerminal(w)
      PROVE  PhaseInv' /\ AddingInv' /\ StopInv'
  BY <1>0, <1>19 DEF WorkerOperationTerminal, Move, laneVars, workVars,
    opVars, stopVars, fileVars, PhaseInv, AddingInv, StopInv, Phases
<1>20. ASSUME NEW w \in Workers, StopThread(w)
      PROVE  PhaseInv' /\ AddingInv' /\ StopInv'
  BY <1>0, <1>20 DEF StopThread, laneVars, workVars, opVars, stopVars,
    fileVars, PhaseInv, AddingInv, StopInv, Phases
<1> QED
  BY <1>1, <1>2, <1>3, <1>4, <1>5, <1>6, <1>7, <1>8, <1>9, <1>10, <1>11,
    <1>12, <1>13, <1>14, <1>15, <1>16, <1>17, <1>18, <1>19, <1>20
    DEF Next, Closing, Worker

-----------------------------------------------------------------------------
\* No two workers have the same operation.
NoSharing == \A v, w \in Workers : v # w /\ assigned[v] = assigned[w] => assigned[v] = NoOp

\* Taking a worker's operation away, in terms of the set of assigned ones.
LEMMA ReleaseFacts ==
  ASSUME TypeOK, NoSharing, NEW w \in Workers, assigned' = [assigned EXCEPT ![w] = NoOp]
  PROVE  Assigned' = Assigned \ {assigned[w]} /\ NoSharing'
<1>1. \A v \in Workers : assigned'[v] = IF v = w THEN NoOp ELSE assigned[v]
  BY DEF TypeOK
<1>2. Assigned' \subseteq Assigned \ {assigned[w]}
  BY <1>1 DEF Assigned, NoSharing
<1>3. Assigned \ {assigned[w]} \subseteq Assigned'
  BY <1>1 DEF Assigned
<1> QED
  BY <1>1, <1>2, <1>3 DEF NoSharing

\* Giving an idle worker an operation that no worker has.
LEMMA AssignFacts ==
  ASSUME TypeOK, NoSharing, NEW w \in Workers, NEW o \in Ops \ Assigned, assigned[w] = NoOp,
         assigned' = [assigned EXCEPT ![w] = o]
  PROVE  Assigned' = Assigned \cup {o} /\ NoSharing'
<1>1. \A v \in Workers : assigned'[v] = IF v = w THEN o ELSE assigned[v]
  BY DEF TypeOK
<1>2. Assigned' \subseteq Assigned \cup {o}
  BY <1>1 DEF Assigned
<1>3. Assigned \subseteq Assigned' /\ o \in Assigned'
  BY <1>1, OpsAssumption DEF Assigned
<1>4. \A v \in Workers : assigned[v] # o
  BY OpsAssumption DEF Assigned
<1> QED
  BY <1>1, <1>2, <1>3, <1>4 DEF NoSharing

\* Taking away the operations of all stopped workers.
LEMMA DrainFacts ==
  ASSUME TypeOK, NoSharing,
         assigned' = [w \in Workers |-> IF w \in stopped THEN NoOp ELSE assigned[w]]
  PROVE  Assigned' = Assigned \ {assigned[w] : w \in stopped} /\ NoSharing'
<1>1. \A v \in Workers : assigned'[v] = IF v \in stopped THEN NoOp ELSE assigned[v]
  BY DEF TypeOK
<1>0. stopped \subseteq Workers
  BY DEF TypeOK
<1>2. Assigned' \subseteq Assigned \ {assigned[w] : w \in stopped}
  BY <1>0, <1>1 DEF Assigned, NoSharing
<1>3. Assigned \ {assigned[w] : w \in stopped} \subseteq Assigned'
  BY <1>1 DEF Assigned
<1> QED
  BY <1>1, <1>2, <1>3 DEF NoSharing

\* Every action hands operations on, from one owner to the next.
LEMMA OwnerStep ==
  ASSUME IInv, Next
  PROVE  OneOwner'
<1> USE OpsAssumption
<1>0. /\ TypeOK /\ OneOwner /\ AddingInv /\ NoSharing
      /\ urgent \in Seq(Ops) /\ normal \in Seq(Ops) /\ Waiting \subseteq Ops
      /\ IsInjective(urgent) /\ IsInjective(normal) /\ ToSet(urgent) \cap ToSet(normal) = {}
      /\ adding \in Ops \cup {NoOp} /\ gone \subseteq created
      /\ \A w \in Workers : phase[w] \in {"queued", "popped"} => assigned[w] \in Ops
      /\ stopped \subseteq Workers
      /\ Waiting \cap Assigned = {} /\ NoOp \notin Assigned
  <2>1. TypeOK /\ OneOwner /\ AddingInv /\ PhaseInv
    BY DEF IInv
  <2>2. Waiting \subseteq Ops
    BY <2>1 DEF Waiting, ToSet, TypeOK
  <2>3. /\ IsInjective(urgent) /\ IsInjective(normal) /\ ToSet(urgent) \cap ToSet(normal) = {}
        /\ NoSharing /\ Waiting \cap Assigned = {}
    BY <2>1 DEF OneOwner, NoSharing
  <2>4. \A w \in Workers : phase[w] \in {"queued", "popped"} => assigned[w] \in Ops
    BY <2>1 DEF PhaseInv, TypeOK, Phases
  <2>5. gone \subseteq created /\ NoOp \notin Assigned
    BY <2>1 DEF AddingInv, Assigned
  <2> QED
    BY <2>1, <2>2, <2>3, <2>4, <2>5 DEF TypeOK
<1>1. ASSUME NEW o \in Ops, AddQueueOp(o)
      PROVE  OneOwner'
  <2>1. Assigned' = Assigned /\ NoSharing'
    BY <1>0, <1>1 DEF AddQueueOp, workVars, Assigned, NoSharing
  <2>2. adding = NoOp /\ o \notin Live /\ o \notin gone
    BY <1>0, <1>1 DEF AddQueueOp, AddingInv, Live
  <2>3. CASE WaitingDuplicates(o) # {}
    <3>1. /\ IsInjective(urgent') /\ IsInjective(normal')
          /\ Waiting' = Waiting /\ ToSet(urgent') \cap ToSet(normal') = {}
      <4>1. CASE UNCHANGED <<urgent, normal>>
        BY <1>0, <4>1 DEF Waiting
      <4>2. ASSUME NEW p \in WaitingDuplicates(o), PromoteWaiting(p)
            PROVE  /\ IsInjective(urgent') /\ IsInjective(normal')
                   /\ Waiting' = Waiting /\ ToSet(urgent') \cap ToSet(normal') = {}
        BY <1>0, <4>2, PromoteFacts DEF Waiting, WaitingDuplicates
      <4> QED
        BY <1>1, <2>3, <4>1, <4>2 DEF AddQueueOp
    <3>2. adding' = adding /\ Live' = Live
      BY <1>1, <2>2, <2>3 DEF AddQueueOp, Live
    <3> QED
      BY <1>0, <2>1, <3>1, <3>2 DEF OneOwner, NoSharing
  <2>4. CASE WaitingDuplicates(o) = {}
    <3>1. UNCHANGED <<urgent, normal>> /\ adding' = o /\ Live' = Live \cup {o}
      BY <1>1, <2>2, <2>4 DEF AddQueueOp, Live
    <3> QED
      BY <1>0, <2>1, <2>2, <3>1 DEF OneOwner, Waiting, NoSharing
  <2> QED
    BY <2>3, <2>4
<1>2. ASSUME NEW o \in Ops, CancelWaiting(o)
      PROVE  OneOwner'
  <2>1. Assigned' = Assigned /\ NoSharing' /\ adding' = adding
    BY <1>0, <1>2 DEF CancelWaiting, workVars, Assigned, NoSharing
  <2>2. /\ ToSet(urgent') = ToSet(urgent) \ {o} /\ ToSet(normal') = ToSet(normal) \ {o}
        /\ IsInjective(urgent') /\ IsInjective(normal')
    BY <1>0, <1>2, RemoveFromFacts DEF CancelWaiting
  <2>3. Live' = Live \ {o} /\ o \in Waiting
    BY <1>2 DEF CancelWaiting, Live
  <2> QED
    BY <1>0, <2>1, <2>2, <2>3 DEF OneOwner, Waiting, NoSharing
<1>3. CASE AddQueueOpPush
  <2>1. Assigned' = Assigned /\ NoSharing' /\ adding' = NoOp
    BY <1>0, <1>3 DEF AddQueueOpPush, workVars, Assigned, NoSharing
  <2>2. adding \in Ops /\ adding \notin Waiting \cup Assigned
    BY <1>0, <1>3 DEF AddQueueOpPush, AddingInv, OneOwner
  <2>3. /\ IsInjective(urgent') /\ IsInjective(normal')
        /\ Waiting' = Waiting \cup {adding}
        /\ ToSet(urgent') \cap ToSet(normal') = {}
    <3>1. CASE urgent' = Append(urgent, adding) /\ normal' = normal
      BY <1>0, <2>2, <3>1, AppendFacts DEF Waiting
    <3>2. CASE normal' = Append(normal, adding) /\ urgent' = urgent
      BY <1>0, <2>2, <3>2, AppendFacts DEF Waiting
    <3> QED
      BY <1>3, <3>1, <3>2 DEF AddQueueOpPush
  <2>4. Live' = Live
    BY <1>3 DEF AddQueueOpPush, opVars, Live
  <2>5. NoOp \notin Waiting' \cup Assigned'
    BY <1>0, <2>1, <2>2, <2>3 DEF Assigned
  <2> QED
    BY <1>0, <2>1, <2>2, <2>3, <2>4, <2>5 DEF OneOwner, NoSharing
<1>4. CASE AbortActive
  <2>1. Assigned' = Assigned /\ NoSharing'
    BY <1>0, <1>4 DEF AbortActive, workVars, Assigned, NoSharing
  <2>2. UNCHANGED <<urgent, normal, adding>>
    BY <1>4 DEF AbortActive, laneVars
  <2>3. Live' = Live
    BY <1>4 DEF AbortActive, Live, opVars
  <2> QED
    BY <1>0, <2>1, <2>2, <2>3 DEF OneOwner, Waiting, NoSharing
<1>5. CASE Deinitialize
  <2>1. Assigned' = Assigned /\ NoSharing'
    BY <1>0, <1>5 DEF Deinitialize, workVars, Assigned, NoSharing
  <2>2. UNCHANGED <<urgent, normal, adding>>
    BY <1>5 DEF Deinitialize, laneVars
  <2>3. Live' = Live
    BY <1>5 DEF Deinitialize, Live, opVars
  <2> QED
    BY <1>0, <2>1, <2>2, <2>3 DEF OneOwner, Waiting, NoSharing
<1>6. CASE JoinDispatcher
  <2>1. Assigned' = Assigned /\ NoSharing'
    BY <1>0, <1>6 DEF JoinDispatcher, workVars, Assigned, NoSharing
  <2>2. UNCHANGED <<urgent, normal, adding>>
    BY <1>6 DEF JoinDispatcher, laneVars
  <2>3. Live' = Live
    BY <1>6 DEF JoinDispatcher, Live, opVars
  <2> QED
    BY <1>0, <2>1, <2>2, <2>3 DEF OneOwner, Waiting, NoSharing
<1>7. CASE DrainWorker
  <2> DEFINE left == {assigned[w] : w \in stopped}
  <2>1. Assigned' = Assigned \ left /\ NoSharing'
    BY <1>0, <1>7, DrainFacts DEF DrainWorker
  <2>2. UNCHANGED <<urgent, normal, adding>>
    BY <1>7 DEF DrainWorker, laneVars
  <2>3. Live' = Live \ (left \ {NoOp})
    BY <1>7 DEF DrainWorker, Live
  <2>4. left \ {NoOp} \subseteq Assigned
    BY <1>0 DEF Assigned
  <2> HIDE DEF left
  <2> QED
    BY <1>0, <2>1, <2>2, <2>3, <2>4 DEF OneOwner, Waiting, NoSharing
<1>8. CASE DeletePendingOperations
  <2>1. Assigned' = Assigned /\ NoSharing' /\ adding' = adding
    BY <1>0, <1>8 DEF DeletePendingOperations, workVars, Assigned, NoSharing
  <2>2. /\ ToSet(urgent') = {} /\ ToSet(normal') = {}
        /\ IsInjective(urgent') /\ IsInjective(normal')
    BY <1>8 DEF DeletePendingOperations, ToSet, IsInjective
  <2>3. Live' = Live \ Waiting
    BY <1>8 DEF DeletePendingOperations, Live
  <2> QED
    BY <1>0, <2>1, <2>2, <2>3 DEF OneOwner, Waiting, NoSharing
<1>9. ASSUME NEW w \in Workers, StopWorker(w)
      PROVE  OneOwner'
  <2>1. Assigned' = Assigned /\ NoSharing'
    BY <1>0, <1>9 DEF StopWorker, workVars, Assigned, NoSharing
  <2>2. UNCHANGED <<urgent, normal, adding>>
    BY <1>9 DEF StopWorker, laneVars
  <2>3. Live' = Live
    BY <1>9 DEF StopWorker, Live, opVars
  <2> QED
    BY <1>0, <2>1, <2>2, <2>3 DEF OneOwner, Waiting, NoSharing
<1>10. CASE DispatcherExits
  <2>1. Assigned' = Assigned /\ NoSharing'
    BY <1>0, <1>10 DEF DispatcherExits, workVars, Assigned, NoSharing
  <2>2. UNCHANGED <<urgent, normal, adding>>
    BY <1>10 DEF DispatcherExits, laneVars
  <2>3. Live' = Live
    BY <1>10 DEF DispatcherExits, Live, opVars
  <2> QED
    BY <1>0, <2>1, <2>2, <2>3 DEF OneOwner, Waiting, NoSharing
<1>11. ASSUME NEW w \in Workers, Dispatch(w)
      PROVE  OneOwner'
  <2>1. PICK o \in Waiting :
          /\ Assign(w, o)
          /\ urgent' \in Seq(Ops) /\ normal' \in Seq(Ops)
          /\ IsInjective(urgent') /\ IsInjective(normal')
          /\ ToSet(urgent') = ToSet(urgent) \ {o}
          /\ ToSet(normal') = ToSet(normal) \ {o}
    BY <1>0, <1>11, TakeNextFacts DEF Dispatch
  <2>2. Assigned' = Assigned \cup {o} /\ NoSharing'
    BY <1>0, <1>11, <2>1, AssignFacts DEF Dispatch, Assign, Idle
  <2>3. adding' = adding /\ Live' = Live
    BY <1>11 DEF Dispatch, opVars, Live
  <2> QED
    BY <1>0, <2>1, <2>2, <2>3 DEF OneOwner, Waiting, NoSharing
<1>12. ASSUME NEW w \in Workers, CancelAssigned(w)
      PROVE  OneOwner'
  <2>1. assigned[w] \in Ops /\ assigned[w] \in Assigned
    BY <1>0, <1>12, OpsAssumption DEF CancelAssigned, Assigned
  <2>2. Assigned' = Assigned \ {assigned[w]} /\ NoSharing'
    BY <1>0, <1>12, ReleaseFacts DEF CancelAssigned
  <2>3. UNCHANGED <<urgent, normal, adding>>
    BY <1>12 DEF CancelAssigned, laneVars
  <2>4. Live' = Live \ {assigned[w]}
    BY <1>12 DEF CancelAssigned, Live
  <2> QED
    BY <1>0, <2>1, <2>2, <2>3, <2>4 DEF OneOwner, Waiting, NoSharing
<1>13. ASSUME NEW w \in Workers, Pick(w)
      PROVE  OneOwner'
  <2>1. Assigned' = Assigned /\ NoSharing'
    BY <1>0, <1>13 DEF Pick, Assigned, NoSharing, Move
  <2>2. UNCHANGED <<urgent, normal, adding>>
    BY <1>13 DEF Pick, laneVars
  <2>3. Live' = Live
    BY <1>13 DEF Pick, Live, opVars
  <2> QED
    BY <1>0, <2>1, <2>2, <2>3 DEF OneOwner, Waiting, NoSharing
<1>14. ASSUME NEW w \in Workers, StartExecution(w)
      PROVE  OneOwner'
  <2>1. Assigned' = Assigned /\ NoSharing'
    BY <1>0, <1>14 DEF StartExecution, Assigned, NoSharing, Move, GiveUp
  <2>2. UNCHANGED <<urgent, normal, adding>>
    BY <1>14 DEF StartExecution, laneVars, GiveUp
  <2>3. Live' = Live
    BY <1>14 DEF StartExecution, Live, opVars, GiveUp
  <2> QED
    BY <1>0, <2>1, <2>2, <2>3 DEF OneOwner, Waiting, NoSharing
<1>15. ASSUME NEW w \in Workers, BeginPerform(w)
      PROVE  OneOwner'
  <2>1. Assigned' = Assigned /\ NoSharing'
    BY <1>0, <1>15 DEF BeginPerform, Assigned, NoSharing, Move, GiveUp
  <2>2. UNCHANGED <<urgent, normal, adding>>
    BY <1>15 DEF BeginPerform, laneVars, GiveUp
  <2>3. Live' = Live
    BY <1>15 DEF BeginPerform, Live, opVars, GiveUp
  <2> QED
    BY <1>0, <2>1, <2>2, <2>3 DEF OneOwner, Waiting, NoSharing
<1>16. ASSUME NEW w \in Workers, SendFileOk(w)
      PROVE  OneOwner'
  <2>1. Assigned' = Assigned /\ NoSharing'
    BY <1>0, <1>16 DEF SendFileOk, Assigned, NoSharing, Move
  <2>2. UNCHANGED <<urgent, normal, adding>>
    BY <1>16 DEF SendFileOk, laneVars
  <2>3. Live' = Live
    BY <1>16 DEF SendFileOk, Live, opVars
  <2> QED
    BY <1>0, <2>1, <2>2, <2>3 DEF OneOwner, Waiting, NoSharing
<1>17. ASSUME NEW w \in Workers, SendFileFails(w)
      PROVE  OneOwner'
  <2>1. Assigned' = Assigned /\ NoSharing'
    BY <1>0, <1>17 DEF SendFileFails, Assigned, NoSharing, Move
  <2>2. UNCHANGED <<urgent, normal, adding>>
    BY <1>17 DEF SendFileFails, laneVars
  <2>3. Live' = Live
    BY <1>17 DEF SendFileFails, Live, opVars
  <2> QED
    BY <1>0, <2>1, <2>2, <2>3 DEF OneOwner, Waiting, NoSharing
<1>18. ASSUME NEW w \in Workers, PopFront(w)
      PROVE  OneOwner'
  <2>1. Assigned' = Assigned /\ NoSharing'
    BY <1>0, <1>18 DEF PopFront, Assigned, NoSharing, Move
  <2>2. UNCHANGED <<urgent, normal, adding>>
    BY <1>18 DEF PopFront, laneVars
  <2>3. Live' = Live
    BY <1>18 DEF PopFront, Live, opVars
  <2> QED
    BY <1>0, <2>1, <2>2, <2>3 DEF OneOwner, Waiting, NoSharing
<1>19. ASSUME NEW w \in Workers, WorkerOperationTerminal(w)
      PROVE  OneOwner'
  <2>1. assigned[w] \in Ops /\ assigned[w] \in Assigned
    BY <1>0, <1>19, OpsAssumption DEF WorkerOperationTerminal, Move, Assigned
  <2>2. Assigned' = Assigned \ {assigned[w]} /\ NoSharing'
    BY <1>0, <1>19, ReleaseFacts DEF WorkerOperationTerminal
  <2>3. UNCHANGED <<urgent, normal, adding>>
    BY <1>19 DEF WorkerOperationTerminal, laneVars
  <2>4. Live' = Live \ {assigned[w]}
    BY <1>19 DEF WorkerOperationTerminal, Live
  <2> QED
    BY <1>0, <2>1, <2>2, <2>3, <2>4 DEF OneOwner, Waiting, NoSharing
<1>20. ASSUME NEW w \in Workers, StopThread(w)
      PROVE  OneOwner'
  <2>1. Assigned' = Assigned /\ NoSharing'
    BY <1>0, <1>20 DEF StopThread, Assigned, NoSharing
  <2>2. UNCHANGED <<urgent, normal, adding>>
    BY <1>20 DEF StopThread, laneVars
  <2>3. Live' = Live
    BY <1>20 DEF StopThread, Live, opVars
  <2> QED
    BY <1>0, <2>1, <2>2, <2>3 DEF OneOwner, Waiting, NoSharing
<1> QED
  BY <1>1, <1>2, <1>3, <1>4, <1>5, <1>6, <1>7, <1>8, <1>9, <1>10, <1>11,
    <1>12, <1>13, <1>14, <1>15, <1>16, <1>17, <1>18, <1>19, <1>20
    DEF Next, Closing, Worker

-----------------------------------------------------------------------------
\* Only a dispatch gives a worker an operation.
LEMMA AssignedStep ==
  ASSUME TypeOK, Next, \A w \in Workers : ~Dispatch(w)
  PROVE  \A w \in Workers : assigned'[w] \in {assigned[w], NoOp}
<1> USE OpsAssumption
<1>0. assigned \in [Workers -> Ops \cup {NoOp}]
  BY DEF TypeOK
<1>1. ASSUME UNCHANGED assigned
      PROVE  \A w \in Workers : assigned'[w] \in {assigned[w], NoOp}
  BY <1>1
<1>2. ASSUME NEW v \in Workers, assigned' = [assigned EXCEPT ![v] = NoOp]
      PROVE  \A w \in Workers : assigned'[w] \in {assigned[w], NoOp}
  BY <1>0, <1>2
<1>3. CASE DrainWorker
  BY <1>0, <1>3 DEF DrainWorker
<1>4. ASSUME NEW v \in Workers, CancelAssigned(v) \/ WorkerOperationTerminal(v)
      PROVE  assigned' = [assigned EXCEPT ![v] = NoOp]
  BY <1>4 DEF CancelAssigned, WorkerOperationTerminal
<1>5. ASSUME NEW o \in Ops, AddQueueOp(o) \/ CancelWaiting(o)
      PROVE  UNCHANGED assigned
  BY <1>5 DEF AddQueueOp, CancelWaiting, workVars
<1>6. CASE AddQueueOpPush \/ AbortActive \/ Deinitialize \/ JoinDispatcher
           \/ DeletePendingOperations \/ DispatcherExits
  BY <1>1, <1>6 DEF AddQueueOpPush, AbortActive, Deinitialize, JoinDispatcher,
    DeletePendingOperations, DispatcherExits, workVars
<1>7. ASSUME NEW w \in Workers,
             StopWorker(w) \/ Pick(w) \/ StartExecution(w) \/ BeginPerform(w)
             \/ SendFileOk(w) \/ SendFileFails(w) \/ PopFront(w) \/ StopThread(w)
      PROVE  UNCHANGED assigned
  BY <1>7 DEF StopWorker, Pick, StartExecution, BeginPerform, SendFileOk,
    SendFileFails, PopFront, StopThread, workVars, Move, GiveUp
<1> QED
  BY <1>1, <1>2, <1>3, <1>4, <1>5, <1>6, <1>7 DEF Next, Closing, Worker

\* The dispatcher looks at all workers under the monitor before it assigns.
LEMMA ConflictStep ==
  ASSUME IInv, Next
  PROVE  NoConcurrentConflict'
<1> USE OpsAssumption
<1>0. /\ assigned \in [Workers -> Ops \cup {NoOp}] /\ TypeOK /\ OneOwner
      /\ NoConcurrentConflict
  BY DEF IInv, TypeOK
<1>1. ASSUME NEW w \in Workers, Dispatch(w)
      PROVE  NoConcurrentConflict'
  <2>1. PICK o \in Waiting : ~WorkerConflict(o) /\ Assign(w, o)
    BY <1>0, <1>1, TakeNextFacts DEF Dispatch
  <2>2. \A v \in Workers : assigned'[v] = IF v = w THEN o ELSE assigned[v]
    BY <1>0, <2>1 DEF Assign
  <2>3. \A v \in Workers : assigned[v] # NoOp => File[o] # File[assigned[v]]
    BY <2>1 DEF WorkerConflict, Assigned
  <2> QED
    BY <1>0, <2>2, <2>3 DEF NoConcurrentConflict
<1>2. CASE \A w \in Workers : ~Dispatch(w)
  BY <1>0, <1>2, AssignedStep DEF NoConcurrentConflict
<1> QED
  BY <1>1, <1>2

\* What is being sent stays between what the server has and what was saved.
LEMMA VersionStep ==
  ASSUME IInv, Next
  PROVE  VersionInv' /\ \A f \in Files : remote'[f] >= remote[f]
<1> USE OpsAssumption
<1>0. /\ TypeOK /\ OneOwner /\ VersionInv /\ NoConcurrentConflict
      /\ assigned \in [Workers -> Ops \cup {NoOp}] /\ phase \in [Workers -> Phases]
      /\ saved \in [Files -> Nat] /\ remote \in [Files -> Nat] /\ reading \in [Workers -> Nat]
      /\ \A o \in Ops : File[o] \in Files
      /\ \A w \in Workers : phase[w] \in {"starting", "running"} => assigned[w] \in Ops
  <2>1. TypeOK /\ OneOwner /\ VersionInv /\ NoConcurrentConflict /\ PhaseInv
    BY DEF IInv
  <2>2. \A w \in Workers : phase[w] \in {"starting", "running"} => assigned[w] \in Ops
    BY <2>1 DEF PhaseInv, TypeOK, Phases
  <2> QED
    BY <2>1, <2>2 DEF TypeOK
<1>1. ASSUME NEW o \in Ops, AddQueueOp(o)
      PROVE  VersionInv' /\ \A f \in Files : remote'[f] >= remote[f]
  <2>1. /\ phase' = phase /\ assigned' = assigned /\ remote' = remote /\ reading' = reading
        /\ saved' \in [Files -> Nat] /\ \A f \in Files : saved[f] <= saved'[f]
    BY <1>0, <1>1 DEF AddQueueOp, workVars
  <2> QED
    BY <1>0, <2>1 DEF VersionInv
<1>2. ASSUME NEW o \in Ops, CancelWaiting(o)
      PROVE  VersionInv' /\ \A f \in Files : remote'[f] >= remote[f]
  BY <1>0, <1>2 DEF CancelWaiting, laneVars, workVars, opVars, stopVars,
    fileVars, VersionInv, Phases
<1>3. CASE AddQueueOpPush
  BY <1>0, <1>3 DEF AddQueueOpPush, laneVars, workVars, opVars, stopVars,
    fileVars, VersionInv, Phases
<1>4. CASE AbortActive
  BY <1>0, <1>4 DEF AbortActive, laneVars, workVars, opVars, stopVars,
    fileVars, VersionInv, Phases
<1>5. CASE Deinitialize
  BY <1>0, <1>5 DEF Deinitialize, laneVars, workVars, opVars, stopVars,
    fileVars, VersionInv, Phases
<1>6. CASE JoinDispatcher
  BY <1>0, <1>6 DEF JoinDispatcher, laneVars, workVars, opVars, stopVars,
    fileVars, VersionInv, Phases
<1>7. CASE DrainWorker
  BY <1>0, <1>7 DEF DrainWorker, laneVars, workVars, opVars, stopVars,
    fileVars, VersionInv, Phases
<1>8. CASE DeletePendingOperations
  BY <1>0, <1>8 DEF DeletePendingOperations, laneVars, workVars, opVars,
    stopVars, fileVars, VersionInv, Phases
<1>9. ASSUME NEW w \in Workers, StopWorker(w)
      PROVE  VersionInv' /\ \A f \in Files : remote'[f] >= remote[f]
  BY <1>0, <1>9 DEF StopWorker, laneVars, workVars, opVars, stopVars,
    fileVars, VersionInv, Phases
<1>10. CASE DispatcherExits
  BY <1>0, <1>10 DEF DispatcherExits, laneVars, workVars, opVars, stopVars,
    fileVars, VersionInv, Phases
<1>11. ASSUME NEW w \in Workers, Dispatch(w)
      PROVE  VersionInv' /\ \A f \in Files : remote'[f] >= remote[f]
  <2>1. PICK o \in Waiting : Assign(w, o)
    BY <1>0, <1>11, TakeNextFacts DEF Dispatch
  <2>2. \A v \in Workers : phase'[v] = "running" => phase[v] = "running" /\ assigned'[v] = assigned[v]
    BY <1>0, <2>1 DEF Assign
  <2>3. saved' = saved /\ remote' = remote /\ reading' = reading
    BY <1>11 DEF Dispatch, fileVars
  <2> QED
    BY <1>0, <2>2, <2>3 DEF VersionInv
<1>12. ASSUME NEW w \in Workers, CancelAssigned(w)
      PROVE  VersionInv' /\ \A f \in Files : remote'[f] >= remote[f]
  BY <1>0, <1>12 DEF CancelAssigned, laneVars, workVars, opVars, stopVars,
    fileVars, VersionInv, Phases
<1>13. ASSUME NEW w \in Workers, Pick(w)
      PROVE  VersionInv' /\ \A f \in Files : remote'[f] >= remote[f]
  BY <1>0, <1>13 DEF Pick, Move, laneVars, workVars, opVars, stopVars,
    fileVars, VersionInv, Phases
<1>14. ASSUME NEW w \in Workers, StartExecution(w)
      PROVE  VersionInv' /\ \A f \in Files : remote'[f] >= remote[f]
  BY <1>0, <1>14 DEF StartExecution, GiveUp, Move, laneVars, workVars,
    opVars, stopVars, fileVars, VersionInv, Phases
<1>15. ASSUME NEW w \in Workers, BeginPerform(w)
      PROVE  VersionInv' /\ \A f \in Files : remote'[f] >= remote[f]
  <2>1. CASE GiveUp(w, "starting")
    BY <1>0, <2>1 DEF GiveUp, Move, VersionInv
  <2>2. CASE ~GiveUp(w, "starting")
    <3>1. /\ phase' = [phase EXCEPT ![w] = "running"] /\ phase[w] = "starting"
          /\ reading' = [reading EXCEPT ![w] = saved[File[assigned[w]]]]
          /\ assigned' = assigned /\ saved' = saved /\ remote' = remote
      BY <1>15, <2>2 DEF BeginPerform, Move
    <3>2. \A v \in Workers : phase'[v] = "running" =>
            \/ v = w /\ reading'[v] = saved[File[assigned[w]]]
            \/ phase[v] = "running" /\ reading'[v] = reading[v]
      BY <1>0, <3>1
    <3> QED
      BY <1>0, <3>1, <3>2 DEF VersionInv
  <2> QED
    BY <2>1, <2>2
<1>16. ASSUME NEW w \in Workers, SendFileOk(w)
      PROVE  VersionInv' /\ \A f \in Files : remote'[f] >= remote[f]
  <2>1. /\ phase[w] = "running" /\ assigned[w] \in Ops
        /\ \A v \in Workers : phase'[v] = "running" => phase[v] = "running" /\ v # w
        /\ assigned' = assigned /\ saved' = saved /\ reading' = reading
        /\ remote' = [remote EXCEPT ![File[assigned[w]]] = reading[w]]
    BY <1>0, <1>16 DEF SendFileOk, Move
  <2>2. \A v \in Workers : phase'[v] = "running" =>
          assigned[v] \in Ops /\ File[assigned[v]] # File[assigned[w]]
    BY <1>0, <2>1 DEF NoConcurrentConflict
  <2>3. \A f \in Files : remote'[f] = IF f = File[assigned[w]] THEN reading[w] ELSE remote[f]
    BY <1>0, <2>1
  <2>4. remote[File[assigned[w]]] <= reading[w] /\ reading[w] <= saved[File[assigned[w]]]
    BY <1>0, <2>1 DEF VersionInv
  <2>5. \A f \in Files : remote'[f] <= saved'[f] /\ remote'[f] >= remote[f]
    BY <1>0, <2>1, <2>3, <2>4 DEF VersionInv
  <2>6. \A v \in Workers : phase'[v] = "running" =>
          remote'[File[assigned'[v]]] = remote[File[assigned[v]]]
    BY <1>0, <2>1, <2>2, <2>3
  <2> QED
    BY <1>0, <2>1, <2>5, <2>6 DEF VersionInv
<1>17. ASSUME NEW w \in Workers, SendFileFails(w)
      PROVE  VersionInv' /\ \A f \in Files : remote'[f] >= remote[f]
  BY <1>0, <1>17 DEF SendFileFails, Move, laneVars, workVars, opVars,
    stopVars, fileVars, VersionInv, Phases
<1>18. ASSUME NEW w \in Workers, PopFront(w)
      PROVE  VersionInv' /\ \A f \in Files : remote'[f] >= remote[f]
  BY <1>0, <1>18 DEF PopFront, Move, laneVars, workVars, opVars, stopVars,
    fileVars, VersionInv, Phases
<1>19. ASSUME NEW w \in Workers, WorkerOperationTerminal(w)
      PROVE  VersionInv' /\ \A f \in Files : remote'[f] >= remote[f]
  BY <1>0, <1>19 DEF WorkerOperationTerminal, Move, laneVars, workVars,
    opVars, stopVars, fileVars, VersionInv, Phases
<1>20. ASSUME NEW w \in Workers, StopThread(w)
      PROVE  VersionInv' /\ \A f \in Files : remote'[f] >= remote[f]
  BY <1>0, <1>20 DEF StopThread, laneVars, workVars, opVars, stopVars,
    fileVars, VersionInv, Phases
<1> QED
  BY <1>1, <1>2, <1>3, <1>4, <1>5, <1>6, <1>7, <1>8, <1>9, <1>10, <1>11,
    <1>12, <1>13, <1>14, <1>15, <1>16, <1>17, <1>18, <1>19, <1>20
    DEF Next, Closing, Worker

\* A saved version stays urgent until it is stored or given up.
LEMMA UrgentStep ==
  ASSUME IInv, Next
  PROVE  SavesAreUrgent'
<1> USE OpsAssumption
<1>0. /\ TypeOK /\ OneOwner /\ AddingInv /\ VersionInv /\ SavesAreUrgent
      /\ urgent \in Seq(Ops) /\ normal \in Seq(Ops) /\ Waiting \subseteq Ops
      /\ IsInjective(urgent) /\ IsInjective(normal)
      /\ assigned \in [Workers -> Ops \cup {NoOp}] /\ phase \in [Workers -> Phases]
      /\ saved \in [Files -> Nat] /\ remote \in [Files -> Nat] /\ reading \in [Workers -> Nat]
      /\ stopped \subseteq Workers
      /\ \A o \in Ops : File[o] \in Files
      /\ upc = "adding" => adding \in Ops
      /\ \A w \in Workers : phase[w] = "running" => assigned[w] \in Ops
      /\ \A w \in Workers : phase[w] = "idle" => assigned[w] = NoOp
  <2>1. TypeOK /\ OneOwner /\ AddingInv /\ VersionInv /\ SavesAreUrgent /\ PhaseInv
    BY DEF IInv
  <2>2. Waiting \subseteq Ops
    BY <2>1 DEF Waiting, ToSet, TypeOK
  <2>3. IsInjective(urgent) /\ IsInjective(normal)
    BY <2>1 DEF OneOwner
  <2>4. \A w \in Workers : /\ phase[w] = "running" => assigned[w] \in Ops
                           /\ phase[w] = "idle" => assigned[w] = NoOp
    BY <2>1 DEF PhaseInv, TypeOK, Phases
  <2>5. upc = "adding" => adding \in Ops
    BY <2>1 DEF AddingInv, TypeOK
  <2> QED
    BY <2>1, <2>2, <2>3, <2>4, <2>5 DEF TypeOK
<1>1. ASSUME NEW o \in Ops, AddQueueOp(o)
      PROVE  SavesAreUrgent'
  <2>1. UNCHANGED <<assigned, phase, remote, reading>> /\ (adding = NoOp)
    BY <1>0, <1>1 DEF AddQueueOp, workVars, AddingInv
  <2>2. ToSet(urgent) \subseteq ToSet(urgent') /\ adding \notin Saves
    <3>1. ASSUME NEW p \in WaitingDuplicates(o), PromoteWaiting(p)
          PROVE  ToSet(urgent) \subseteq ToSet(urgent')
      BY <1>0, <3>1, PromoteFacts DEF WaitingDuplicates
    <3> QED
      BY <1>0, <1>1, <2>1, <3>1 DEF AddQueueOp
  <2>3. ASSUME NEW f \in Files \ lost', o \in Saves, f = File[o]
        PROVE  UrgentFor(f)'
    <3>1. CASE WaitingDuplicates(o) = {}
      BY <1>0, <1>1, <2>3, <3>1 DEF AddQueueOp, UrgentFor
    <3>2. CASE WaitingDuplicates(o) # {}
      <4>1. PICK p \in WaitingDuplicates(o) : PromoteWaiting(p)
        BY <1>1, <2>3, <3>2 DEF AddQueueOp
      <4>2. p \in ToSet(urgent') /\ File[p] = f
        BY <1>0, <2>3, <4>1, PromoteFacts DEF WaitingDuplicates, Equals
      <4> QED
        BY <4>2 DEF UrgentFor
    <3> QED
      BY <3>1, <3>2
  <2>4. ASSUME NEW f \in Files \ lost', ~(o \in Saves /\ f = File[o])
        PROVE  saved'[f] = saved[f] /\ f \notin lost
    BY <1>0, <1>1, <2>4 DEF AddQueueOp
  <2>5. ASSUME NEW f \in Files \ lost', ~(o \in Saves /\ f = File[o])
        PROVE  remote'[f] = saved'[f] \/ UrgentFor(f)' \/ WorkerFor(f)'
    <3>1. remote[f] = saved[f] \/ UrgentFor(f) \/ WorkerFor(f)
      BY <1>0, <2>4, <2>5 DEF SavesAreUrgent
    <3>2. UrgentFor(f) => UrgentFor(f)'
      BY <2>2 DEF UrgentFor
    <3>3. WorkerFor(f) => WorkerFor(f)'
      BY <2>1, <2>4, <2>5 DEF WorkerFor
    <3> QED
      BY <2>1, <2>4, <2>5, <3>1, <3>2, <3>3
  <2> QED
    BY <2>3, <2>5 DEF SavesAreUrgent
<1>2. ASSUME NEW o \in Ops, CancelWaiting(o)
      PROVE  SavesAreUrgent'
  <2>1. UNCHANGED <<adding, assigned, phase, saved, remote, reading>>
    BY <1>2 DEF CancelWaiting, workVars
  <2>2. ToSet(urgent') = ToSet(urgent) \ {o} /\ lost' = lost \cup {File[o]}
    BY <1>0, <1>2, RemoveFromFacts DEF CancelWaiting
  <2>3. \A f \in Files \ lost' : UrgentFor(f) => UrgentFor(f)'
    BY <2>1, <2>2 DEF UrgentFor
  <2>4. \A f \in Files \ lost' : WorkerFor(f) => WorkerFor(f)'
    BY <2>1 DEF WorkerFor
  <2> QED
    BY <1>0, <2>1, <2>2, <2>3, <2>4 DEF SavesAreUrgent
<1>3. CASE AddQueueOpPush
  <2>1. UNCHANGED <<assigned, phase, saved, remote, reading, lost>>
    BY <1>3 DEF AddQueueOpPush, workVars, fileVars
  <2>2. ToSet(urgent) \cup ({adding} \cap Saves) \subseteq ToSet(urgent')
    <3>1. CASE adding \in Saves
      <4>1. urgent' = Append(urgent, adding) /\ adding \in Ops
        BY <1>0, <1>3, <3>1 DEF AddQueueOpPush
      <4>2. ToSet(urgent') = ToSet(urgent) \cup {adding}
        BY <1>0, <4>1, AppendFacts
      <4> QED
        BY <4>2
    <3>2. CASE adding \notin Saves
      BY <1>3, <3>2 DEF AddQueueOpPush
    <3> QED
      BY <3>1, <3>2
  <2>3. \A f \in Files : UrgentFor(f) => UrgentFor(f)'
    BY <2>2 DEF UrgentFor
  <2>4. \A f \in Files : WorkerFor(f) => WorkerFor(f)'
    BY <2>1 DEF WorkerFor
  <2> QED
    BY <1>0, <2>1, <2>3, <2>4 DEF SavesAreUrgent
<1>4. CASE AbortActive
  <2>1. /\ UNCHANGED <<urgent, adding, assigned, phase, saved, remote, reading>> /\ lost \subseteq lost'
    BY <1>4 DEF AbortActive, laneVars, workVars, fileVars
  <2> QED
    BY <1>0, <2>1 DEF SavesAreUrgent, UrgentFor, WorkerFor
<1>5. CASE Deinitialize
  <2>1. /\ UNCHANGED <<urgent, adding, assigned, phase, saved, remote, reading>> /\ lost \subseteq lost'
    BY <1>5 DEF Deinitialize, laneVars, workVars, fileVars
  <2> QED
    BY <1>0, <2>1 DEF SavesAreUrgent, UrgentFor, WorkerFor
<1>6. CASE JoinDispatcher
  <2>1. /\ UNCHANGED <<urgent, adding, assigned, phase, saved, remote, reading>> /\ lost \subseteq lost'
    BY <1>6 DEF JoinDispatcher, laneVars, workVars, fileVars
  <2> QED
    BY <1>0, <2>1 DEF SavesAreUrgent, UrgentFor, WorkerFor
<1>7. CASE DrainWorker
  <2>1. UNCHANGED <<urgent, adding, saved>>
    BY <1>7 DEF DrainWorker, laneVars
  <2>2. /\ UNCHANGED <<remote, reading, phase>>
        /\ assigned' = [w \in Workers |-> IF w \in stopped THEN NoOp ELSE assigned[w]]
        /\ lost' = lost \cup {File[o] : o \in ({assigned[w] : w \in stopped} \ {NoOp})}
    BY <1>7 DEF DrainWorker
  <2>3. \A f \in Files \ lost' : WorkerFor(f) => WorkerFor(f)'
    BY <1>0, <2>1, <2>2 DEF WorkerFor
  <2>4. \A f \in Files : UrgentFor(f) => UrgentFor(f)'
    BY <2>1 DEF UrgentFor
  <2> QED
    BY <1>0, <2>1, <2>2, <2>3, <2>4 DEF SavesAreUrgent
<1>8. CASE DeletePendingOperations
  <2>1. /\ UNCHANGED <<adding, assigned, phase, saved, remote, reading>>
        /\ lost' = lost \cup {File[o] : o \in Waiting}
    BY <1>8 DEF DeletePendingOperations, workVars
  <2>2. \A f \in Files \ lost' : UrgentFor(f) => UrgentFor(f)'
    BY <2>1 DEF UrgentFor, Waiting
  <2>3. \A f \in Files \ lost' : WorkerFor(f) => WorkerFor(f)'
    BY <2>1 DEF WorkerFor
  <2> QED
    BY <1>0, <2>1, <2>2, <2>3 DEF SavesAreUrgent
<1>9. ASSUME NEW w \in Workers, StopWorker(w)
      PROVE  SavesAreUrgent'
  <2>1. /\ UNCHANGED <<urgent, adding, assigned, phase, saved, remote, reading>> /\ lost \subseteq lost'
    BY <1>9 DEF StopWorker, laneVars, workVars, fileVars
  <2> QED
    BY <1>0, <2>1 DEF SavesAreUrgent, UrgentFor, WorkerFor
<1>10. CASE DispatcherExits
  <2>1. /\ UNCHANGED <<urgent, adding, assigned, phase, saved, remote, reading>> /\ lost \subseteq lost'
    BY <1>10 DEF DispatcherExits, laneVars, workVars, fileVars
  <2> QED
    BY <1>0, <2>1 DEF SavesAreUrgent, UrgentFor, WorkerFor
<1>11. ASSUME NEW w \in Workers, Dispatch(w)
      PROVE  SavesAreUrgent'
  <2>1. PICK o \in Waiting :
          Assign(w, o) /\ ToSet(urgent') = ToSet(urgent) \ {o}
    BY <1>0, <1>11, TakeNextFacts DEF Dispatch
  <2>2. UNCHANGED <<adding, saved, remote, reading, lost>> /\ assigned[w] = NoOp /\ o \in Ops
    BY <1>0, <1>11 DEF Dispatch, fileVars, Idle
  <2>3. \A v \in Workers : /\ assigned'[v] = IF v = w THEN o ELSE assigned[v]
                           /\ phase'[v] = IF v = w THEN "queued" ELSE phase[v]
    BY <1>0, <2>1 DEF Assign
  <2>4. \A f \in Files : WorkerFor(f) => WorkerFor(f)'
    BY <2>2, <2>3 DEF WorkerFor
  <2>5. WorkerFor(File[o])'
    BY <2>2, <2>3, OpsAssumption DEF WorkerFor
  <2>6. \A f \in Files : UrgentFor(f) => UrgentFor(f)' \/ f = File[o]
    BY <2>1, <2>2 DEF UrgentFor
  <2> QED
    BY <1>0, <2>2, <2>4, <2>5, <2>6 DEF SavesAreUrgent
<1>12. ASSUME NEW w \in Workers, CancelAssigned(w)
      PROVE  SavesAreUrgent'
  <2>1. UNCHANGED <<urgent, adding, saved>>
    BY <1>12 DEF CancelAssigned, laneVars
  <2>2. /\ UNCHANGED <<remote, reading>> /\ lost' = lost \cup {File[assigned[w]]}
        /\ assigned' = [assigned EXCEPT ![w] = NoOp] /\ phase' = [phase EXCEPT ![w] = "idle"]
    BY <1>12 DEF CancelAssigned
  <2>3. \A f \in Files \ lost' : WorkerFor(f) => WorkerFor(f)'
    BY <1>0, <2>1, <2>2 DEF WorkerFor
  <2>4. \A f \in Files : UrgentFor(f) => UrgentFor(f)'
    BY <2>1 DEF UrgentFor
  <2> QED
    BY <1>0, <2>1, <2>2, <2>3, <2>4 DEF SavesAreUrgent
<1>13. ASSUME NEW w \in Workers, Pick(w)
      PROVE  SavesAreUrgent'
  <2>1. UNCHANGED <<urgent, adding, saved>>
    BY <1>13 DEF Pick, laneVars, fileVars
  <2>2. UNCHANGED <<assigned, remote, reading, lost>> /\ phase' = [phase EXCEPT ![w] = "picked"]
    BY <1>13 DEF Pick, fileVars, Move
  <2>3. \A f \in Files : WorkerFor(f) => WorkerFor(f)'
    BY <1>0, <2>1, <2>2 DEF WorkerFor
  <2>4. \A f \in Files : UrgentFor(f) => UrgentFor(f)'
    BY <2>1 DEF UrgentFor
  <2> QED
    BY <1>0, <2>1, <2>2, <2>3, <2>4 DEF SavesAreUrgent
<1>14. ASSUME NEW w \in Workers, StartExecution(w)
      PROVE  SavesAreUrgent'
  <2>1. UNCHANGED <<urgent, adding, assigned, saved, remote, reading>>
    BY <1>14 DEF StartExecution, GiveUp, laneVars, fileVars
  <2>2. \/ phase' = [phase EXCEPT ![w] = "starting"] /\ lost' = lost
        \/ phase' = [phase EXCEPT ![w] = "ended"] /\ lost' = lost \cup {File[assigned[w]]}
    BY <1>14 DEF StartExecution, GiveUp, Move, fileVars
  <2>3. \A f \in Files \ lost' : WorkerFor(f) => WorkerFor(f)'
    BY <1>0, <2>1, <2>2 DEF WorkerFor
  <2>4. \A f \in Files : UrgentFor(f) => UrgentFor(f)'
    BY <2>1 DEF UrgentFor
  <2> QED
    BY <1>0, <2>1, <2>2, <2>3, <2>4 DEF SavesAreUrgent
<1>15. ASSUME NEW w \in Workers, BeginPerform(w)
      PROVE  SavesAreUrgent'
  <2>1. UNCHANGED <<urgent, adding, assigned, saved, remote>>
    BY <1>15 DEF BeginPerform, GiveUp, laneVars
  <2>2. CASE GiveUp(w, "starting")
    <3>1. /\ phase' = [phase EXCEPT ![w] = "ended"] /\ lost' = lost \cup {File[assigned[w]]}
          /\ reading' = reading
      BY <2>2 DEF GiveUp, Move
    <3>2. \A f \in Files \ lost' : WorkerFor(f) => WorkerFor(f)'
      BY <1>0, <2>1, <3>1 DEF WorkerFor
    <3>3. \A f \in Files : UrgentFor(f) => UrgentFor(f)'
      BY <2>1 DEF UrgentFor
    <3> QED
      BY <1>0, <2>1, <3>1, <3>2, <3>3 DEF SavesAreUrgent
  <2>3. CASE ~GiveUp(w, "starting")
    <3>1. /\ phase' = [phase EXCEPT ![w] = "running"] /\ lost' = lost
          /\ reading' = [reading EXCEPT ![w] = saved[File[assigned[w]]]]
      BY <1>15, <2>3 DEF BeginPerform, Move
    <3>2. \A v \in Workers :
            /\ reading'[v] = IF v = w THEN saved[File[assigned[w]]] ELSE reading[v]
            /\ phase'[v] = IF v = w THEN "running" ELSE phase[v]
      BY <1>0, <3>1
    <3>3. \A f \in Files : WorkerFor(f) => WorkerFor(f)'
      BY <2>1, <3>2 DEF WorkerFor
    <3>4. \A f \in Files : UrgentFor(f) => UrgentFor(f)'
      BY <2>1 DEF UrgentFor
    <3> QED
      BY <1>0, <2>1, <3>1, <3>3, <3>4 DEF SavesAreUrgent
  <2> QED
    BY <2>2, <2>3
<1>16. ASSUME NEW w \in Workers, SendFileOk(w)
      PROVE  SavesAreUrgent'
  <2> DEFINE g == File[assigned[w]]
  <2>1. /\ UNCHANGED <<urgent, adding, assigned, saved, reading, lost>>
        /\ remote' = [remote EXCEPT ![g] = reading[w]]
        /\ phase[w] = "running" /\ phase' = [phase EXCEPT ![w] = "ended"]
    BY <1>16 DEF SendFileOk, Move, laneVars
  <2>2. remote[g] <= reading[w] /\ reading[w] <= saved[g] /\ g \in Files
    BY <1>0, <2>1 DEF VersionInv
  <2>3. ASSUME NEW f \in Files, remote[f] = saved[f]
        PROVE  remote'[f] = saved'[f]
    BY <1>0, <2>1, <2>2, <2>3
  <2>4. ASSUME NEW f \in Files, WorkerFor(f)
        PROVE  WorkerFor(f)' \/ remote'[f] = saved'[f]
    <3>1. PICK v \in Workers : /\ assigned[v] # NoOp /\ File[assigned[v]] = f
                               /\ \/ phase[v] \in {"queued", "picked", "starting", "exited"}
                                  \/ phase[v] = "running" /\ reading[v] = saved[f]
      BY <2>4 DEF WorkerFor
    <3>2. CASE v = w
      BY <1>0, <2>1, <3>1, <3>2
    <3>3. CASE v # w
      BY <1>0, <2>1, <3>1, <3>3 DEF WorkerFor
    <3> QED
      BY <3>2, <3>3
  <2>5. \A f \in Files : UrgentFor(f) => UrgentFor(f)'
    BY <2>1 DEF UrgentFor
  <2> QED
    BY <1>0, <2>1, <2>3, <2>4, <2>5 DEF SavesAreUrgent
<1>17. ASSUME NEW w \in Workers, SendFileFails(w)
      PROVE  SavesAreUrgent'
  <2> DEFINE g == File[assigned[w]]
  <2>1. /\ UNCHANGED <<urgent, adding, assigned, saved, reading, remote>>
        /\ lost' = IF reading[w] = saved[g] THEN lost \cup {g} ELSE lost
        /\ phase[w] = "running" /\ phase' = [phase EXCEPT ![w] = "ended"]
    BY <1>17 DEF SendFileFails, Move, laneVars
  <2>2. ASSUME NEW f \in Files \ lost', WorkerFor(f)
        PROVE  WorkerFor(f)'
    <3>1. PICK v \in Workers : /\ assigned[v] # NoOp /\ File[assigned[v]] = f
                               /\ \/ phase[v] \in {"queued", "picked", "starting", "exited"}
                                  \/ phase[v] = "running" /\ reading[v] = saved[f]
      BY <2>2 DEF WorkerFor
    <3>2. v # w
      BY <2>1, <2>2, <3>1
    <3> QED
      BY <1>0, <2>1, <3>1, <3>2 DEF WorkerFor
  <2>3. \A f \in Files : UrgentFor(f) => UrgentFor(f)'
    BY <2>1 DEF UrgentFor
  <2> QED
    BY <1>0, <2>1, <2>2, <2>3 DEF SavesAreUrgent
<1>18. ASSUME NEW w \in Workers, PopFront(w)
      PROVE  SavesAreUrgent'
  <2>1. UNCHANGED <<urgent, adding, saved>>
    BY <1>18 DEF PopFront, laneVars, fileVars
  <2>2. /\ UNCHANGED <<assigned, remote, reading, lost>>
        /\ phase[w] = "ended" /\ phase' = [phase EXCEPT ![w] = "popped"]
    BY <1>18 DEF PopFront, fileVars, Move
  <2>3. \A f \in Files : WorkerFor(f) => WorkerFor(f)'
    BY <1>0, <2>1, <2>2 DEF WorkerFor
  <2>4. \A f \in Files : UrgentFor(f) => UrgentFor(f)'
    BY <2>1 DEF UrgentFor
  <2> QED
    BY <1>0, <2>1, <2>2, <2>3, <2>4 DEF SavesAreUrgent
<1>19. ASSUME NEW w \in Workers, WorkerOperationTerminal(w)
      PROVE  SavesAreUrgent'
  <2>1. UNCHANGED <<urgent, adding, saved>>
    BY <1>19 DEF WorkerOperationTerminal, laneVars, fileVars
  <2>2. /\ UNCHANGED <<remote, reading, lost>> /\ phase[w] = "popped"
        /\ assigned' = [assigned EXCEPT ![w] = NoOp] /\ phase' = [phase EXCEPT ![w] = "idle"]
    BY <1>19 DEF WorkerOperationTerminal, fileVars, Move
  <2>3. \A f \in Files : WorkerFor(f) => WorkerFor(f)'
    BY <1>0, <2>1, <2>2 DEF WorkerFor
  <2>4. \A f \in Files : UrgentFor(f) => UrgentFor(f)'
    BY <2>1 DEF UrgentFor
  <2> QED
    BY <1>0, <2>1, <2>2, <2>3, <2>4 DEF SavesAreUrgent
<1>20. ASSUME NEW w \in Workers, StopThread(w)
      PROVE  SavesAreUrgent'
  <2>1. UNCHANGED <<urgent, adding, saved>>
    BY <1>20 DEF StopThread, laneVars, fileVars
  <2>2. /\ UNCHANGED <<assigned, remote, reading, lost>>
        /\ phase' = [phase EXCEPT ![w] = "exited"]
    BY <1>20 DEF StopThread, fileVars
  <2>3. \A f \in Files : WorkerFor(f) => WorkerFor(f)'
    BY <1>0, <2>1, <2>2 DEF WorkerFor
  <2>4. \A f \in Files : UrgentFor(f) => UrgentFor(f)'
    BY <2>1 DEF UrgentFor
  <2> QED
    BY <1>0, <2>1, <2>2, <2>3, <2>4 DEF SavesAreUrgent
<1> QED
  BY <1>1, <1>2, <1>3, <1>4, <1>5, <1>6, <1>7, <1>8, <1>9, <1>10, <1>11,
    <1>12, <1>13, <1>14, <1>15, <1>16, <1>17, <1>18, <1>19, <1>20
    DEF Next, Closing, Worker

-----------------------------------------------------------------------------
\* A new scheduler satisfies the inductive invariant.
LEMMA InitInv == Init => IInv
<1> SUFFICES ASSUME Init PROVE IInv
  OBVIOUS
<1> USE OpsAssumption
<1>1. TypeOK
  <2>1. urgent \in Seq(Ops) /\ normal \in Seq(Ops) /\ adding \in Ops \cup {NoOp}
    BY DEF Init
  <2>2. assigned \in [Workers -> Ops \cup {NoOp}] /\ phase \in [Workers -> Phases]
    BY DEF Init, Phases
  <2>3. saved \in [Files -> Nat] /\ remote \in [Files -> Nat] /\ reading \in [Workers -> Nat]
    BY DEF Init
  <2> QED
    BY <2>1, <2>2, <2>3 DEF Init, TypeOK, WindowPcs
<1>2. ToSet(urgent) = {} /\ ToSet(normal) = {} /\ Assigned = {} /\ Live = {}
  BY DEF Init, ToSet, Assigned, Live
<1>3. IsInjective(urgent) /\ IsInjective(normal)
  BY DEF Init, IsInjective
<1>4. OneOwner
  BY <1>2, <1>3 DEF Init, OneOwner, Waiting
<1>5. PhaseInv /\ AddingInv /\ StopInv
  BY DEF Init, PhaseInv, AddingInv, StopInv, Phases
<1>6. NoConcurrentConflict /\ VersionInv /\ SavesAreUrgent
  BY DEF Init, NoConcurrentConflict, VersionInv, SavesAreUrgent
<1> QED
  BY <1>1, <1>4, <1>5, <1>6 DEF IInv

\* So does a state in which nothing changes.
LEMMA StutterInv ==
  ASSUME IInv, UNCHANGED vars
  PROVE  IInv'
<1>1. UNCHANGED <<urgent, normal, adding, assigned, phase, canceled, created, gone,
                  stopping, dispatcher, upc, stopped, saved, reading, remote, lost>>
  BY DEF vars, laneVars, workVars, opVars, stopVars, fileVars
<1>2. TypeOK' /\ PhaseInv' /\ AddingInv' /\ StopInv'
  BY <1>1 DEF IInv, TypeOK, PhaseInv, AddingInv, StopInv
<1>3. OneOwner'
  <2>1. Waiting' = Waiting /\ Assigned' = Assigned /\ Live' = Live
    BY <1>1 DEF Waiting, Assigned, Live
  <2> QED
    BY <1>1, <2>1 DEF IInv, OneOwner
<1>4. NoConcurrentConflict' /\ VersionInv' /\ SavesAreUrgent'
  BY <1>1 DEF IInv, NoConcurrentConflict, VersionInv, SavesAreUrgent, UrgentFor, WorkerFor
<1> QED
  BY <1>2, <1>3, <1>4 DEF IInv

\* The inductive invariant.
THEOREM Invariant == Spec => []IInv
<1>1. Init => IInv
  BY InitInv
<1>2. IInv /\ [Next]_vars => IInv'
  <2>1. IInv /\ Next => IInv'
    BY TypeStep, ControlStep, ConflictStep, OwnerStep, VersionStep, UrgentStep DEF IInv
  <2> QED
    BY <2>1, StutterInv
<1> QED
  BY <1>1, <1>2, PTL DEF Spec

\* Type correctness.
THEOREM TypeCorrect == Spec => []TypeOK
<1>1. IInv => TypeOK
  BY DEF IInv
<1> QED
  BY <1>1, Invariant, PTL

\* Two workers never send the same local file to the same remote path at once:
\* ConcurrentUploadScheduler dispatches only what conflicts with no worker.
THEOREM ConflictsExcluded == Spec => []NoConcurrentConflict
<1>1. IInv => NoConcurrentConflict
  BY DEF IInv
<1> QED
  BY <1>1, Invariant, PTL

\* Every accepted upload stands in one place: a lane, a worker or the call that
\* adds it.
THEOREM OwnersAreUnique == Spec => []OneOwner
<1>1. IInv => OneOwner
  BY DEF IInv
<1> QED
  BY <1>1, Invariant, PTL

\* A save does not wait behind directory uploads, also when it found the file
\* waiting in the normal lane.
THEOREM SavesStayUrgent == Spec => []SavesAreUrgent
<1>1. IInv => SavesAreUrgent
  BY DEF IInv
<1> QED
  BY <1>1, Invariant, PTL

\* When no upload of a file is left and its last save was not given up, the
\* server has what was saved last.
THEOREM LatestSaveIsStored == Spec => []LatestSaveStored
<1>1. IInv => LatestSaveStored
  <2> SUFFICES ASSUME IInv, NEW f \in Files \ lost, \A o \in Live : File[o] # f
               PROVE  remote[f] = saved[f]
    BY DEF LatestSaveStored
  <2>1. OneOwner /\ SavesAreUrgent /\ TypeOK
    BY DEF IInv
  <2>2. ToSet(urgent) \subseteq Live /\ Assigned \subseteq Live
    BY <2>1 DEF OneOwner, Waiting
  <2>3. {adding} \cap Saves \subseteq Live
    BY <2>1, OpsAssumption DEF OneOwner
  <2>4. ~UrgentFor(f)
    BY <2>2, <2>3 DEF UrgentFor
  <2>5. ~WorkerFor(f)
    BY <2>2 DEF WorkerFor, Assigned
  <2> QED
    BY <2>1, <2>4, <2>5 DEF SavesAreUrgent
<1> QED
  BY <1>1, Invariant, PTL

\* An upload never replaces a newer version on the server by an older one.
THEOREM ServerAdvances == Spec => ServerNeverGoesBack
<1>1. IInv /\ [Next]_vars => [\A f \in Files : remote'[f] >= remote[f]]_vars
  BY VersionStep
<1> QED
  BY <1>1, Invariant, PTL DEF Spec, ServerNeverGoesBack

\* After Deinitialize there is no upload left and no worker thread runs.
THEOREM CloseIsComplete == Spec => []ClosedLeavesNothing
<1>1. IInv => ClosedLeavesNothing
  <2> SUFFICES ASSUME IInv, upc = "closed"
               PROVE  Live = {} /\ \A w \in Workers : phase[w] = "exited"
    BY DEF ClosedLeavesNothing
  <2>1. OneOwner /\ StopInv /\ AddingInv
    BY DEF IInv
  <2>2. stopped = Workers /\ adding = NoOp /\ urgent = <<>> /\ normal = <<>>
    BY <2>1 DEF StopInv, AddingInv
  <2>3. \A w \in Workers : phase[w] = "exited" /\ assigned[w] = NoOp
    BY <2>1, <2>2 DEF StopInv
  <2>4. Waiting = {} /\ Assigned = {}
    BY <2>2, <2>3 DEF Waiting, Assigned, ToSet
  <2> QED
    BY <2>1, <2>2, <2>3, <2>4 DEF OneOwner
<1> QED
  BY <1>1, Invariant, PTL

-----------------------------------------------------------------------------
(***************************************************************************)
(* The menu of the queue window, which stays open while the rest goes on.  *)
(***************************************************************************)

\* Whatever the menu does is a step of the scheduler, or leaves it alone.
LEMMA MenuStep ==
  ASSUME selected \in Ops \cup {NoOp}, [MenuNext]_menuVars
  PROVE  [Next]_vars
<1>1. ASSUME NEW o \in Ops, OpenMenu(o)
      PROVE  UNCHANGED vars
  BY <1>1 DEF OpenMenu
<1>2. CASE QueueAbort
  BY <1>2 DEF QueueAbort, Next
<1>3. CASE QueueCancel
  <2>1. (UNCHANGED vars \/ CancelOperation(selected)) /\ selected # NoOp
    BY <1>3 DEF QueueCancel
  <2>2. CancelWaiting(selected) => Next
    BY <2>1 DEF Next
  <2> QED
    BY <2>1, <2>2 DEF CancelOperation, Next
<1> QED
  BY <1>1, <1>2, <1>3 DEF MenuNext, menuVars

\* A step of the scheduler creates none but operations.
LEMMA CreatesOps ==
  ASSUME Next
  PROVE  created' \ created \subseteq Ops
<1>1. ASSUME NEW o \in Ops, AddQueueOp(o) \/ CancelWaiting(o)
      PROVE  created' \ created \subseteq Ops
  BY <1>1 DEF AddQueueOp, CancelWaiting
<1>2. CASE AddQueueOpPush \/ AbortActive \/ Deinitialize \/ DispatcherExits
  BY <1>2 DEF AddQueueOpPush, AbortActive, Deinitialize, DispatcherExits, opVars
<1>3. CASE Closing
  BY <1>3 DEF Closing, JoinDispatcher, DrainWorker, DeletePendingOperations,
    StopWorker, opVars
<1>4. ASSUME NEW w \in Workers, Dispatch(w) \/ CancelAssigned(w)
      PROVE  created' \ created \subseteq Ops
  BY <1>4 DEF Dispatch, CancelAssigned, opVars
<1>5. ASSUME NEW w \in Workers, Worker(w)
      PROVE  created' \ created \subseteq Ops
  BY <1>5 DEF Worker, Pick, StartExecution, BeginPerform, GiveUp, SendFileOk,
    SendFileFails, PopFront, WorkerOperationTerminal, StopThread, opVars
<1> QED
  BY <1>1, <1>2, <1>3, <1>4, <1>5 DEF Next

\* An operation that was deleted stays deleted, whatever is put at its address.
LEMMA GoneGrows ==
  ASSUME [Next]_vars
  PROVE  gone \subseteq gone'
<1>1. ASSUME NEW o \in Ops, AddQueueOp(o) \/ CancelWaiting(o)
      PROVE  gone \subseteq gone'
  BY <1>1 DEF AddQueueOp, CancelWaiting
<1>2. CASE AddQueueOpPush \/ AbortActive \/ Deinitialize \/ DispatcherExits
  BY <1>2 DEF AddQueueOpPush, AbortActive, Deinitialize, DispatcherExits, opVars
<1>3. CASE Closing
  BY <1>3 DEF Closing, JoinDispatcher, DrainWorker, DeletePendingOperations,
    StopWorker, opVars
<1>4. ASSUME NEW w \in Workers, Dispatch(w) \/ CancelAssigned(w)
      PROVE  gone \subseteq gone'
  BY <1>4 DEF Dispatch, CancelAssigned, opVars
<1>5. ASSUME NEW w \in Workers, Worker(w)
      PROVE  gone \subseteq gone'
  BY <1>5 DEF Worker, Pick, StartExecution, BeginPerform, GiveUp, SendFileOk,
    SendFileFails, PopFront, WorkerOperationTerminal, StopThread, opVars
<1>6. CASE UNCHANGED vars
  BY <1>6 DEF vars, opVars
<1> QED
  BY <1>1, <1>2, <1>3, <1>4, <1>5, <1>6 DEF Next

\* m_cancelOperation: what stands at its address is the operation the menu was
\* opened on, for as long as that one is not deleted.
LEMMA PointerStep ==
  ASSUME PointerInv, TypeOK', [MenuNext]_menuVars
  PROVE  PointerInv'
<1>1. gone \subseteq gone'
  BY MenuStep, GoneGrows DEF PointerInv
<1>2. CASE Next /\ Allocate /\ UNCHANGED opened
  BY <1>1, <1>2 DEF Allocate, PointerInv, TypeOK
<1>3. ASSUME NEW o \in Ops, OpenMenu(o)
      PROVE  PointerInv'
  BY <1>3 DEF OpenMenu, PointerInv
<1>4. CASE QueueAbort \/ QueueCancel
  BY <1>4 DEF QueueAbort, QueueCancel, CloseMenu, PointerInv
<1>5. CASE UNCHANGED menuVars
  BY <1>1, <1>5 DEF menuVars, PointerInv
<1> QED
  BY <1>2, <1>3, <1>4, <1>5 DEF MenuNext

\* So every theorem about the scheduler is one about the scheduler with its menu.
THEOREM MenuIsScheduler == MenuSpec => Spec
<1>1. MenuInit => Init /\ selected \in Ops \cup {NoOp}
  BY DEF MenuInit
<1>2. selected \in Ops \cup {NoOp} /\ [MenuNext]_menuVars
        => (selected \in Ops \cup {NoOp})'
  <2>1. ASSUME selected \in Ops \cup {NoOp}, Next, Allocate
        PROVE  selected' \in Ops \cup {NoOp}
    <3>1. created' \ created \subseteq Ops
      BY <2>1, CreatesOps
    <3> QED
      BY <2>1, <3>1 DEF Allocate
  <2>2. ASSUME selected \in Ops \cup {NoOp}, QueueAbort \/ QueueCancel
        PROVE  selected' \in Ops \cup {NoOp}
    BY <2>2 DEF QueueAbort, QueueCancel, CloseMenu
  <2> QED
    BY <2>1, <2>2 DEF MenuNext, OpenMenu, menuVars
<1> QED
  BY <1>1, <1>2, MenuStep, PTL DEF MenuSpec, Spec

\* With any number of uploads and workers and however long the menu was open:
\* Cancel gives up one operation at most, only while no worker's thread has picked
\* it, and another than the one the menu was opened on only when that one had been
\* deleted and its address been given to the other.
THEOREM CancelStaysOnTarget == MenuSpec => CancelHitsOneWaiting
<1>1. ASSUME IInv, PointerInv, QueueCancel, gone' # gone
      PROVE  \E o \in Live :
               /\ gone' = gone \cup {o}
               /\ \A w \in Workers : assigned[w] = o => phase[w] = "queued"
               /\ o = opened \/ opened \in gone
  <2>1. /\ OneOwner /\ selected # NoOp
        /\ selected = opened \/ opened \in gone
    BY <1>1 DEF IInv, QueueCancel, PointerInv
  <2>2. CancelOperation(selected)
    BY <1>1 DEF QueueCancel, vars, opVars
  <2> SUFFICES /\ selected \in Live
               /\ gone' = gone \cup {selected}
               /\ \A w \in Workers : assigned[w] = selected => phase[w] = "queued"
    BY <2>1
  <2>3. CASE CancelWaiting(selected)
    BY <1>1, <2>1, <2>3 DEF CancelWaiting, OneOwner, Assigned
  <2>4. ASSUME NEW v \in Workers, assigned[v] = selected, CancelAssigned(v)
        PROVE  /\ selected \in Live
               /\ gone' = gone \cup {selected}
               /\ \A w \in Workers : assigned[w] = selected => phase[w] = "queued"
    BY <1>1, <2>1, <2>4 DEF CancelAssigned, OneOwner, Assigned
  <2> QED
    BY <1>1, <2>2, <2>3, <2>4 DEF CancelOperation, vars, opVars
<1>2. IInv /\ PointerInv /\ [MenuNext]_menuVars
        => [QueueCancel /\ gone' # gone =>
              \E o \in Live :
                /\ gone' = gone \cup {o}
                /\ \A w \in Workers : assigned[w] = o => phase[w] = "queued"
                /\ o = opened \/ opened \in gone]_menuVars
  BY <1>1
<1>3. MenuInit => PointerInv
  BY DEF MenuInit, PointerInv
<1>4. IInv => TypeOK
  BY DEF IInv
<1> QED
  BY <1>2, <1>3, <1>4, PointerStep, MenuIsScheduler, Invariant, PTL
    DEF MenuSpec, CancelHitsOneWaiting
=============================================================================
