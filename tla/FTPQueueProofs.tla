--------------------------- MODULE FTPQueueProofs ---------------------------
(***************************************************************************)
(* Proofs about FTPQueue, for every set of operations and every role.      *)
(***************************************************************************)
EXTENDS FTPQueue, SequenceTheorems, TLAPS

-----------------------------------------------------------------------------
(***************************************************************************)
(* Sequences that stand for a deque: push_back, pop_front and erase.       *)
(***************************************************************************)

\* Append adds one member and keeps a sequence free of repetitions.
LEMMA AppendFacts ==
  ASSUME NEW S, NEW s \in Seq(S), NEW e \in S
  PROVE  /\ Append(s, e) \in Seq(S)
         /\ Append(s, e) # <<>>
         /\ ToSet(Append(s, e)) = ToSet(s) \cup {e}
         /\ s # <<>> => Head(Append(s, e)) = Head(s)
         /\ e \notin ToSet(s) /\ IsInjective(s) => IsInjective(Append(s, e))
<1>1. DOMAIN s = 1..Len(s) /\ DOMAIN Append(s, e) = 1..(Len(s) + 1) /\ Len(s) \in Nat
  OBVIOUS
<1>2. \A i \in 1..(Len(s) + 1) : Append(s, e)[i] = IF i = Len(s) + 1 THEN e ELSE s[i]
  OBVIOUS
<1>3. \A i \in 1..(Len(s) + 1) : i = Len(s) + 1 \/ i \in 1..Len(s)
  BY <1>1
<1>4. ToSet(Append(s, e)) = ToSet(s) \cup {e}
  BY <1>1, <1>2, <1>3 DEF ToSet
<1>5. e \notin ToSet(s) /\ IsInjective(s) => IsInjective(Append(s, e))
  BY <1>1, <1>2, <1>3 DEF ToSet, IsInjective
<1>6. Append(s, e) \in Seq(S)
  OBVIOUS
<1>8. Append(s, e) # <<>>
  BY <1>1
<1>7. s # <<>> => Head(Append(s, e)) = Head(s)
  OBVIOUS
<1> QED
  BY <1>4, <1>5, <1>6, <1>7, <1>8

\* The front of a sequence is one of its members; popping it leaves the others.
LEMMA TailFacts ==
  ASSUME NEW S, NEW s \in Seq(S), s # <<>>
  PROVE  /\ Head(s) \in S /\ Head(s) \in ToSet(s)
         /\ Tail(s) \in Seq(S)
         /\ ToSet(s) = ToSet(Tail(s)) \cup {Head(s)}
         /\ IsInjective(s) => Head(s) \notin ToSet(Tail(s)) /\ IsInjective(Tail(s))
<1>1. /\ Tail(s) \in Seq(S) /\ Len(Tail(s)) = Len(s) - 1 /\ Len(s) \in Nat \ {0}
      /\ \A i \in 1..Len(Tail(s)) : Tail(s)[i] = s[i + 1]
      /\ Head(s) = s[1]
      /\ DOMAIN s = 1..Len(s) /\ DOMAIN Tail(s) = 1..Len(Tail(s))
  OBVIOUS
<1>2. Head(s) \in S /\ Head(s) \in ToSet(s)
  BY <1>1 DEF ToSet
<1>3. \A i \in 1..Len(s) : i = 1 \/ (i - 1 \in 1..Len(Tail(s)) /\ s[i] = Tail(s)[i - 1])
  BY <1>1
<1>4. \A i \in 1..Len(Tail(s)) : i + 1 \in 1..Len(s) /\ i + 1 # 1
  BY <1>1
<1>5. ToSet(s) \subseteq ToSet(Tail(s)) \cup {Head(s)}
  <2>1. ASSUME NEW i \in 1..Len(s) PROVE s[i] \in ToSet(Tail(s)) \cup {Head(s)}
    BY <1>1, <1>3 DEF ToSet
  <2> QED
    BY <1>1, <2>1 DEF ToSet
<1>6. ToSet(Tail(s)) \subseteq ToSet(s)
  BY <1>1, <1>4 DEF ToSet
<1>7. ASSUME IsInjective(s)
      PROVE  Head(s) \notin ToSet(Tail(s)) /\ IsInjective(Tail(s))
  BY <1>1, <1>4, <1>7 DEF ToSet, IsInjective
<1> QED
  BY <1>1, <1>2, <1>5, <1>6, <1>7

\* erase, as a sequence that skips position i.
LEMMA EraseShape ==
  ASSUME NEW S, NEW s \in Seq(S), NEW i \in 1..Len(s)
  PROVE  LET t == RemoveAt(s, i)
         IN  /\ t \in Seq(S) /\ Len(t) = Len(s) - 1
             /\ \A j \in 1..Len(t) : t[j] = IF j < i THEN s[j] ELSE s[j + 1]
<1> DEFINE a == SubSeq(s, 1, i - 1)
           b == SubSeq(s, i + 1, Len(s))
<1>1. Len(s) \in Nat \ {0} /\ i \in Nat /\ 1 <= i /\ i <= Len(s)
  OBVIOUS
<1>2. a \in Seq(S) /\ Len(a) = i - 1 /\ \A j \in 1..(i - 1) : a[j] = s[j]
  BY <1>1
<1>3. /\ b \in Seq(S) /\ Len(b) = Len(s) - i
      /\ \A j \in 1..(Len(s) - i) : b[j] = s[i + j]
  BY <1>1
<1> HIDE DEF a, b
<1>4. a \o b \in Seq(S) /\ Len(a \o b) = Len(s) - 1
  <2>1. a \in Seq(S) /\ b \in Seq(S)
    BY <1>2, <1>3
  <2>3. a \o b \in Seq(S) /\ Len(a \o b) = Len(a) + Len(b)
    BY <2>1
  <2>2. Len(a) + Len(b) = Len(s) - 1
    BY <1>1, <1>2, <1>3
  <2> QED
    BY <2>2, <2>3
<1>5. ASSUME NEW j \in 1..Len(a \o b)
      PROVE  (a \o b)[j] = IF j < i THEN s[j] ELSE s[j + 1]
  <2>1. (a \o b)[j] = IF j <= Len(a) THEN a[j] ELSE b[j - Len(a)]
    BY <1>2, <1>3, <1>4
  <2>2. CASE j < i
    BY <1>1, <1>2, <2>1, <2>2
  <2>3. CASE ~(j < i)
    <3>1. j - (i - 1) \in 1..(Len(s) - i) /\ i + (j - (i - 1)) = j + 1
      BY <1>1, <1>4, <2>3
    <3>2. ~(j <= Len(a)) /\ j - Len(a) = j - (i - 1)
      BY <1>1, <1>2, <2>3
    <3> QED
      BY <1>3, <2>1, <2>3, <3>1, <3>2
  <2> QED
    BY <2>2, <2>3
<1> QED
  BY <1>4, <1>5 DEF a, b, RemoveAt

\* Removing the element at position i leaves the others, in particular the front.
LEMMA EraseFacts ==
  ASSUME NEW S, NEW s \in Seq(S), NEW i \in 1..Len(s)
  PROVE  /\ s[i] \in S /\ s[i] \in ToSet(s)
         /\ ToSet(RemoveAt(s, i)) \subseteq ToSet(s)
         /\ i # 1 => /\ RemoveAt(s, i) # <<>>
                     /\ Head(RemoveAt(s, i)) = Head(s)
                     /\ IsInjective(s) => s[i] # Head(s)
         /\ IsInjective(s) => /\ s[i] \notin ToSet(RemoveAt(s, i))
                              /\ IsInjective(RemoveAt(s, i))
<1> DEFINE t == RemoveAt(s, i)
<1>0. /\ t \in Seq(S) /\ Len(t) = Len(s) - 1
      /\ \A j \in 1..Len(t) : t[j] = IF j < i THEN s[j] ELSE s[j + 1]
  BY EraseShape
<1> HIDE DEF t
<1> DEFINE shift(j) == IF j < i THEN j ELSE j + 1
<1>1. /\ Len(s) \in Nat \ {0} /\ Len(t) \in Nat /\ i \in Nat /\ 1 <= i /\ i <= Len(s)
      /\ DOMAIN s = 1..Len(s) /\ DOMAIN t = 1..Len(t)
  BY <1>0
<1>2. \A j \in 1..Len(t) : t[j] = s[shift(j)] /\ shift(j) \in 1..Len(s) /\ shift(j) # i
  BY <1>0, <1>1
<1>3. \A j, k \in 1..Len(t) : shift(j) = shift(k) => j = k
  BY <1>0, <1>1
<1> HIDE DEF shift
<1>4. s[i] \in S /\ s[i] \in ToSet(s)
  BY DEF ToSet
<1>5. ToSet(t) \subseteq ToSet(s)
  BY <1>1, <1>2 DEF ToSet
<1>6. i # 1 => t # <<>> /\ Head(t) = Head(s)
  BY <1>0, <1>1
<1>7. i # 1 /\ IsInjective(s) => s[i] # Head(s)
  BY <1>1 DEF IsInjective
<1>8. ASSUME IsInjective(s)
      PROVE  s[i] \notin ToSet(t) /\ IsInjective(t)
  <2>1. \A j \in 1..Len(t) : t[j] # s[i]
    BY <1>1, <1>2, <1>8 DEF IsInjective
  <2>2. \A j, k \in 1..Len(t) : t[j] = t[k] => j = k
    BY <1>1, <1>2, <1>3, <1>8 DEF IsInjective
  <2> QED
    BY <1>1, <2>1, <2>2 DEF ToSet, IsInjective
<1> QED
  BY <1>4, <1>5, <1>6, <1>7, <1>8 DEF t

\* ... and nothing else is removed.
LEMMA EraseKeeps ==
  ASSUME NEW S, NEW s \in Seq(S), NEW i \in 1..Len(s)
  PROVE  ToSet(s) \subseteq ToSet(RemoveAt(s, i)) \cup {s[i]}
<1> DEFINE t == RemoveAt(s, i)
<1>1. /\ t \in Seq(S) /\ Len(t) = Len(s) - 1
      /\ \A j \in 1..Len(t) : t[j] = IF j < i THEN s[j] ELSE s[j + 1]
  BY EraseShape
<1> HIDE DEF t
<1>2. ASSUME NEW k \in 1..Len(s), k # i
      PROVE  s[k] \in ToSet(t)
  <2>1. DOMAIN t = 1..Len(t) /\ Len(s) \in Nat
    BY <1>1
  <2>2. CASE k < i
    <3>1. k \in 1..Len(t) /\ t[k] = s[k]
      BY <1>1, <2>1, <2>2
    <3> QED
      BY <2>1, <3>1 DEF ToSet
  <2>3. CASE ~(k < i)
    <3>1. k - 1 \in 1..Len(t) /\ ~(k - 1 < i) /\ (k - 1) + 1 = k
      BY <1>1, <1>2, <2>1, <2>3
    <3>2. t[k - 1] = s[k]
      BY <1>1, <3>1
    <3> QED
      BY <2>1, <3>1, <3>2 DEF ToSet
  <2> QED
    BY <2>2, <2>3
<1> QED
  BY <1>2 DEF t, ToSet

\* The front of a sequence apart from the rest: what a push at the back and an
\* erase do to the rest.
LEMMA BehindFront ==
  ASSUME NEW S, NEW s \in Seq(S), s # <<>>
  PROVE  /\ RemoveAt(s, 1) = Tail(s)
         /\ \A e \in S : Tail(Append(s, e)) = Append(Tail(s), e)
         /\ \A i \in 1..Len(s) : i # 1 =>
              /\ i - 1 \in 1..Len(Tail(s)) /\ Tail(s)[i - 1] = s[i]
              /\ Tail(RemoveAt(s, i)) = RemoveAt(Tail(s), i - 1)
<1> DEFINE w == Tail(s)
<1>1. /\ w \in Seq(S) /\ Len(w) = Len(s) - 1 /\ Len(s) \in Nat \ {0}
      /\ \A j \in 1..Len(w) : w[j] = s[j + 1]
  OBVIOUS
<1> HIDE DEF w
<1>2. RemoveAt(s, 1) = w
  <2>1. 1 \in 1..Len(s)
    BY <1>1
  <2> DEFINE t == RemoveAt(s, 1)
  <2>2. /\ t \in Seq(S) /\ Len(t) = Len(s) - 1
        /\ \A j \in 1..Len(t) : t[j] = IF j < 1 THEN s[j] ELSE s[j + 1]
    BY <2>1, EraseShape
  <2> HIDE DEF t
  <2>3. Len(t) = Len(w) /\ \A j \in 1..Len(t) : t[j] = w[j]
    BY <1>1, <2>2
  <2>4. t = w
    BY <1>1, <2>2, <2>3, SeqEqual
  <2> QED
    BY <2>4 DEF t
<1>3. ASSUME NEW e \in S
      PROVE  Tail(Append(s, e)) = Append(w, e)
  <2> DEFINE t == Append(s, e)
             u == Append(w, e)
  <2>1. /\ t \in Seq(S) /\ Len(t) = Len(s) + 1 /\ t # <<>>
        /\ \A j \in 1..(Len(s) + 1) : t[j] = IF j = Len(s) + 1 THEN e ELSE s[j]
    BY <1>1
  <2>2. /\ u \in Seq(S) /\ Len(u) = Len(s)
        /\ \A j \in 1..Len(s) : u[j] = IF j = Len(s) THEN e ELSE s[j + 1]
    BY <1>1
  <2> HIDE DEF t, u
  <2>3. /\ Tail(t) \in Seq(S) /\ Len(Tail(t)) = Len(s)
        /\ \A j \in 1..Len(s) : Tail(t)[j] = t[j + 1]
    BY <1>1, <2>1
  <2>4. ASSUME NEW j \in 1..Len(s)
        PROVE  Tail(t)[j] = u[j]
    <3>1. j + 1 \in 1..(Len(s) + 1) /\ (j + 1 = Len(s) + 1) = (j = Len(s))
      BY <1>1
    <3> QED
      BY <2>1, <2>2, <2>3, <3>1
  <2>5. Tail(t) = u
    BY <2>2, <2>3, <2>4, SeqEqual
  <2> QED
    BY <2>5 DEF t, u
<1>4. ASSUME NEW i \in 1..Len(s), i # 1
      PROVE  /\ i - 1 \in 1..Len(w) /\ w[i - 1] = s[i]
             /\ Tail(RemoveAt(s, i)) = RemoveAt(w, i - 1)
  <2> DEFINE t == RemoveAt(s, i)
             u == RemoveAt(w, i - 1)
  <2>1. i - 1 \in 1..Len(w) /\ w[i - 1] = s[i]
    BY <1>1, <1>4
  <2>2. /\ t \in Seq(S) /\ Len(t) = Len(s) - 1
        /\ \A j \in 1..Len(t) : t[j] = IF j < i THEN s[j] ELSE s[j + 1]
    BY EraseShape
  <2>3. /\ u \in Seq(S) /\ Len(u) = Len(w) - 1
        /\ \A j \in 1..Len(u) :
             u[j] = IF j < i - 1 THEN w[j] ELSE w[j + 1]
    BY <1>1, <2>1, EraseShape
  <2> HIDE DEF t, u
  <2>4. Len(t) \in Nat \ {0} /\ t # <<>>
    BY <1>1, <1>4, <2>2
  <2>5. /\ Tail(t) \in Seq(S) /\ Len(Tail(t)) = Len(s) - 2
        /\ \A j \in 1..Len(Tail(t)) : Tail(t)[j] = t[j + 1]
    BY <1>1, <2>2, <2>4
  <2>6. ASSUME NEW j \in 1..Len(Tail(t))
        PROVE  Tail(t)[j] = u[j]
    <3>1. /\ j + 1 \in 1..Len(t) /\ j \in 1..Len(u)
          /\ j \in 1..Len(w) /\ j + 1 \in 1..Len(w)
          /\ (j + 1 < i) = (j < i - 1)
      BY <1>1, <2>1, <2>2, <2>3, <2>5
    <3>2. Tail(t)[j] = IF j + 1 < i THEN s[j + 1] ELSE s[(j + 1) + 1]
      BY <2>2, <2>5, <3>1
    <3>3. u[j] = IF j < i - 1 THEN s[j + 1] ELSE s[(j + 1) + 1]
      BY <1>1, <2>3, <3>1
    <3> QED
      BY <3>1, <3>2, <3>3
  <2>7. Len(Tail(t)) = Len(u)
    BY <1>1, <2>3, <2>5
  <2>8. Tail(t) = u
    BY <2>3, <2>5, <2>6, <2>7, SeqEqual
  <2> QED
    BY <2>1, <2>8 DEF t, u
<1> QED
  BY <1>2, <1>3, <1>4 DEF w

-----------------------------------------------------------------------------
\* The same facts about m_queue, as the steps below use them.
LEMMA QueueFacts ==
  ASSUME queue \in Seq(Ops)
  PROVE  /\ Queued \subseteq Ops
         /\ queue # <<>> =>
              /\ Head(queue) \in Queued /\ Tail(queue) \in Seq(Ops)
              /\ Queued = ToSet(Tail(queue)) \cup {Head(queue)}
              /\ IsInjective(queue) => /\ Head(queue) \notin ToSet(Tail(queue))
                                       /\ IsInjective(Tail(queue))
         /\ \A o \in Ops :
              /\ ToSet(Append(queue, o)) = Queued \cup {o}
              /\ Append(queue, o) # <<>>
              /\ queue # <<>> => Head(Append(queue, o)) = Head(queue)
              /\ o \notin Queued /\ IsInjective(queue) => IsInjective(Append(queue, o))
         /\ \A i \in 1..Len(queue) :
              /\ queue[i] \in Queued
              /\ ToSet(RemoveAt(queue, i)) \subseteq Queued
              /\ i # 1 => /\ RemoveAt(queue, i) # <<>>
                          /\ Head(RemoveAt(queue, i)) = Head(queue)
                          /\ IsInjective(queue) => queue[i] # Head(queue)
              /\ IsInjective(queue) => /\ queue[i] \notin ToSet(RemoveAt(queue, i))
                                       /\ IsInjective(RemoveAt(queue, i))
<1>1. Queued \subseteq Ops
  BY DEF Queued, ToSet
<1>2. ASSUME queue # <<>>
      PROVE  /\ Head(queue) \in Queued /\ Tail(queue) \in Seq(Ops)
             /\ Queued = ToSet(Tail(queue)) \cup {Head(queue)}
             /\ IsInjective(queue) => /\ Head(queue) \notin ToSet(Tail(queue))
                                      /\ IsInjective(Tail(queue))
  BY <1>2, TailFacts DEF Queued
<1>3. ASSUME NEW o \in Ops
      PROVE  /\ ToSet(Append(queue, o)) = Queued \cup {o}
             /\ Append(queue, o) # <<>>
             /\ queue # <<>> => Head(Append(queue, o)) = Head(queue)
             /\ o \notin Queued /\ IsInjective(queue) => IsInjective(Append(queue, o))
  BY AppendFacts DEF Queued
<1>4. ASSUME NEW i \in 1..Len(queue)
      PROVE  /\ queue[i] \in Queued
             /\ ToSet(RemoveAt(queue, i)) \subseteq Queued
             /\ i # 1 => /\ RemoveAt(queue, i) # <<>>
                         /\ Head(RemoveAt(queue, i)) = Head(queue)
                         /\ IsInjective(queue) => queue[i] # Head(queue)
             /\ IsInjective(queue) => /\ queue[i] \notin ToSet(RemoveAt(queue, i))
                                      /\ IsInjective(RemoveAt(queue, i))
  BY EraseFacts DEF Queued
<1> QED
  BY <1>1, <1>2, <1>3, <1>4

-----------------------------------------------------------------------------
\* Every action keeps the types.
LEMMA TypeStep ==
  ASSUME IInv, Next
  PROVE  TypeOK'
<1> USE OpsAssumption
<1>0. /\ FlagTypes /\ OpTypes /\ WindowTypes /\ PcTypes
      /\ qpc \in Working => activeOp \in Ops
      /\ performing => activeOp \in Ops /\ queue # <<>>
      /\ qpc \in Working => queue # <<>>
      /\ queue # <<>> => Head(queue) \in Ops /\ Tail(queue) \in Seq(Ops)
      /\ Queued \subseteq Ops /\ \A p : Append(queue, p) \in Seq(Ops) <=> p \in Ops
      /\ upc = "pushing" => uop \in Ops
      /\ apc # "idle" => aop \in Ops
      /\ handling # NoMessage => handling \in Message
      /\ posted # <<>> => Head(posted) \in Message /\ Tail(posted) \in Seq(Message)
      /\ <<>> \in Seq(Ops) /\ <<>> \in Seq(Message)
  BY DEF IInv, TypeOK, FlagTypes, OpTypes, WindowTypes, PcTypes, ThreadInv,
    HolderInv, QueueInv, Live, Working, Queued, ToSet
<1>1. CASE Enter
  <2>1. FlagTypes'
    BY <1>0, <1>1 DEF FlagTypes, Enter, queueVars
  <2>2. OpTypes'
    BY <1>0, <1>1 DEF OpTypes, Enter, Working, ExecStates, queueVars, opVars
  <2>3. WindowTypes'
    BY <1>0, <1>1 DEF WindowTypes, Enter, Working, winVars
  <2>4. PcTypes'
    BY <1>0, <1>1 DEF PcTypes, Enter, Working, QueuePcs, WindowPcs, AdderPcs,
      pcVars
  <2> QED
    BY <2>1, <2>2, <2>3, <2>4 DEF TypeOK
<1>2. CASE WakeUp
  <2>1. FlagTypes'
    BY <1>0, <1>2 DEF FlagTypes, WakeUp, queueVars
  <2>2. OpTypes'
    BY <1>0, <1>2 DEF OpTypes, WakeUp, Working, ExecStates, queueVars, opVars
  <2>3. WindowTypes'
    BY <1>0, <1>2 DEF WindowTypes, WakeUp, Working, winVars
  <2>4. PcTypes'
    BY <1>0, <1>2 DEF PcTypes, WakeUp, Working, QueuePcs, WindowPcs, AdderPcs,
      pcVars
  <2> QED
    BY <2>1, <2>2, <2>3, <2>4 DEF TypeOK
<1>3. CASE MarkSent
  BY <1>0, <1>3 DEF MarkSent, TypeOK, FlagTypes, OpTypes, WindowTypes,
    PcTypes, QueuePcs, WindowPcs, AdderPcs, ExecStates, Working, queueVars,
    opVars, winVars, pcVars, Sending, EventAt, AfterSend, SendDone, Events
<1>4. CASE PostNotification
  <2>1. FlagTypes'
    BY <1>0, <1>4 DEF FlagTypes, PostNotification, queueVars
  <2>2. OpTypes'
    BY <1>0, <1>4 DEF OpTypes, PostNotification, Working, ExecStates,
      queueVars, opVars, Sending, EventAt, AfterSend, SendDone, Message,
      Events
  <2>3. WindowTypes'
    <3>1. [event |-> EventAt[qpc], op |-> activeOp] \in Message
      BY <1>0, <1>4 DEF PostNotification, PcTypes, QueuePcs, Working, Sending,
        EventAt, Message, Events
    <3> QED
      BY <1>0, <3>1, <1>4 DEF PostNotification, WindowTypes
  <2>4. PcTypes'
    BY <1>0, <1>4 DEF PcTypes, PostNotification, Working, QueuePcs, WindowPcs,
      AdderPcs, pcVars, Sending, EventAt, AfterSend, SendDone, Message, Events
  <2> QED
    BY <2>1, <2>2, <2>3, <2>4 DEF TypeOK
<1>5. CASE AwaitAck
  BY <1>0, <1>5 DEF AwaitAck, TypeOK, FlagTypes, OpTypes, WindowTypes, PcTypes,
       QueuePcs, WindowPcs, AdderPcs, ExecStates, Working, queueVars, opVars,
       winVars, pcVars, Sending, EventAt, AfterSend, SendDone, Acknowledged
<1>6. CASE SetRunning
  BY <1>0, <1>6 DEF SetRunning, TypeOK, FlagTypes, OpTypes, WindowTypes,
    PcTypes, QueuePcs, WindowPcs, AdderPcs, ExecStates, Working, queueVars,
    opVars, winVars, pcVars
<1>7. CASE StartExecution
  BY <1>0, <1>7 DEF StartExecution, TypeOK, FlagTypes, OpTypes, WindowTypes,
    PcTypes, QueuePcs, WindowPcs, AdderPcs, ExecStates, Working, queueVars,
    opVars, winVars, pcVars
<1>8. CASE BeginPerform
  BY <1>0, <1>8 DEF BeginPerform, TypeOK, FlagTypes, OpTypes, WindowTypes,
    PcTypes, QueuePcs, WindowPcs, AdderPcs, ExecStates, Working, queueVars,
    opVars, winVars, pcVars
<1>9. CASE ReportProgress
  BY <1>0, <1>9 DEF ReportProgress, TypeOK, FlagTypes, OpTypes, WindowTypes,
    PcTypes, QueuePcs, WindowPcs, AdderPcs, ExecStates, Working, queueVars,
    opVars, winVars, pcVars
<1>10. CASE ClientReturn
  <2>1. FlagTypes'
    BY <1>0, <1>10 DEF FlagTypes, ClientReturn, queueVars
  <2>2. OpTypes'
    BY <1>0, <1>10 DEF OpTypes, ClientReturn, Working, ExecStates, queueVars,
      opVars
  <2>3. WindowTypes'
    BY <1>0, <1>10 DEF WindowTypes, ClientReturn, Working, winVars
  <2>4. PcTypes'
    BY <1>0, <1>10 DEF PcTypes, ClientReturn, Working, QueuePcs, WindowPcs,
      AdderPcs, pcVars
  <2> QED
    BY <2>1, <2>2, <2>3, <2>4 DEF TypeOK
<1>11. CASE FinishExecution
  BY <1>0, <1>11 DEF FinishExecution, TypeOK, FlagTypes, OpTypes, WindowTypes,
       PcTypes, QueuePcs, WindowPcs, AdderPcs, ExecStates, Working, queueVars,
       opVars, winVars, pcVars, FinishedFrom
<1>12. CASE UnsetRunning
  BY <1>0, <1>12 DEF UnsetRunning, TypeOK, FlagTypes, OpTypes, WindowTypes,
    PcTypes, QueuePcs, WindowPcs, AdderPcs, ExecStates, Working, queueVars,
    opVars, winVars, pcVars
<1>13. CASE Ended
  BY <1>0, <1>13 DEF Ended, TypeOK, FlagTypes, OpTypes, WindowTypes, PcTypes,
    QueuePcs, WindowPcs, AdderPcs, ExecStates, Working, queueVars, opVars,
    winVars, pcVars
<1>14. CASE PopFront
  <2>1. FlagTypes'
    BY <1>0, <1>14 DEF FlagTypes, PopFront, queueVars
  <2>2. OpTypes'
    BY <1>0, <1>14 DEF OpTypes, PopFront, Working, ExecStates, queueVars,
      opVars
  <2>3. WindowTypes'
    BY <1>0, <1>14 DEF WindowTypes, PopFront, Working, winVars
  <2>4. PcTypes'
    BY <1>0, <1>14 DEF PcTypes, PopFront, Working, QueuePcs, WindowPcs,
      AdderPcs, pcVars
  <2> QED
    BY <2>1, <2>2, <2>3, <2>4 DEF TypeOK
<1>15. CASE StopThread
  <2>1. FlagTypes'
    BY <1>0, <1>15 DEF FlagTypes, StopThread, queueVars
  <2>2. OpTypes'
    BY <1>0, <1>15 DEF OpTypes, StopThread, Working, ExecStates, queueVars,
      opVars
  <2>3. WindowTypes'
    BY <1>0, <1>15 DEF WindowTypes, StopThread, Working, winVars
  <2>4. PcTypes'
    BY <1>0, <1>15 DEF PcTypes, StopThread, Working, QueuePcs, WindowPcs,
      AdderPcs, pcVars
  <2> QED
    BY <2>1, <2>2, <2>3, <2>4 DEF TypeOK
<1>16. CASE HandleRowMessage
  BY <1>0, <1>16 DEF HandleRowMessage, TypeOK, FlagTypes, OpTypes,
    WindowTypes, PcTypes, QueuePcs, WindowPcs, AdderPcs, ExecStates, Working,
    queueVars, opVars, winVars, pcVars, MessageLoop, Message, Events
<1>17. CASE HandleEvent
  BY <1>0, <1>17 DEF HandleEvent, TypeOK, FlagTypes, OpTypes, WindowTypes,
    PcTypes, QueuePcs, WindowPcs, AdderPcs, ExecStates, Working, queueVars,
    opVars, winVars, pcVars, MessageLoop
<1>18. CASE AckNotification
  BY <1>0, <1>18 DEF AckNotification, TypeOK, FlagTypes, OpTypes, WindowTypes,
    PcTypes, QueuePcs, WindowPcs, AdderPcs, ExecStates, Working, queueVars,
    opVars, winVars, pcVars, Message, Events
<1>19. CASE AddQueueOpPush
  <2>1. FlagTypes'
    BY <1>0, <1>19 DEF FlagTypes, AddQueueOpPush, queueVars, PushBack
  <2>2. OpTypes'
    BY <1>0, <1>19 DEF OpTypes, AddQueueOpPush, Working, ExecStates,
      queueVars, opVars, PushBack
  <2>3. WindowTypes'
    BY <1>0, <1>19 DEF WindowTypes, AddQueueOpPush, Working, winVars, PushBack
  <2>4. PcTypes'
    BY <1>0, <1>19 DEF PcTypes, AddQueueOpPush, Working, QueuePcs, WindowPcs,
      AdderPcs, pcVars, PushBack
  <2> QED
    BY <2>1, <2>2, <2>3, <2>4 DEF TypeOK
<1>20. CASE AbortCall
  BY <1>0, <1>20 DEF AbortCall, TypeOK, FlagTypes, OpTypes, WindowTypes,
    PcTypes, QueuePcs, WindowPcs, AdderPcs, ExecStates, Working, queueVars,
    opVars, winVars, pcVars
<1>21. CASE TeardownAbort
  BY <1>0, <1>21 DEF TeardownAbort, TypeOK, FlagTypes, OpTypes, WindowTypes,
    PcTypes, QueuePcs, WindowPcs, AdderPcs, ExecStates, Working, queueVars,
    opVars, winVars, pcVars
<1>22. CASE AbortWrapper
  BY <1>0, <1>22 DEF AbortWrapper, TypeOK, FlagTypes, OpTypes, WindowTypes,
    PcTypes, QueuePcs, WindowPcs, AdderPcs, ExecStates, Working, queueVars,
    opVars, winVars, pcVars
<1>23. CASE JoinThread
  BY <1>0, <1>23 DEF JoinThread, TypeOK, FlagTypes, OpTypes, WindowTypes,
    PcTypes, QueuePcs, WindowPcs, AdderPcs, ExecStates, Working, queueVars,
    opVars, winVars, pcVars
<1>24. CASE DrainOne
  BY <1>0, <1>24 DEF DrainOne, TypeOK, FlagTypes, OpTypes, WindowTypes,
       PcTypes, QueuePcs, WindowPcs, AdderPcs, ExecStates, Working, queueVars,
       opVars, winVars, pcVars, Events, ClearPendingNotifications
<1>25. CASE DeinitializeDone
  <2>1. FlagTypes'
    BY <1>0, <1>25 DEF FlagTypes, DeinitializeDone, queueVars, Drained
  <2>2. OpTypes'
    BY <1>0, <1>25 DEF OpTypes, DeinitializeDone, Working, ExecStates,
         queueVars, opVars, Drained
  <2>3. WindowTypes'
    BY <1>0, <1>25 DEF WindowTypes, DeinitializeDone, Working, winVars, Drained
  <2>4. PcTypes'
    BY <1>0, <1>25 DEF PcTypes, DeinitializeDone, Working, QueuePcs, WindowPcs,
         AdderPcs, pcVars, Drained
  <2> QED
    BY <2>1, <2>2, <2>3, <2>4 DEF TypeOK
<1>26. ASSUME NEW o \in Ops, AddQueueOp(o)
      PROVE  TypeOK'
  BY <1>0, <1>26 DEF AddQueueOp, TypeOK, FlagTypes, OpTypes, WindowTypes,
    PcTypes, QueuePcs, WindowPcs, AdderPcs, ExecStates, Working, queueVars,
    opVars, winVars, pcVars, Events
<1>27. ASSUME NEW i \in 1..Len(queue), CancelQueueOp(i)
      PROVE  TypeOK'
  <2>1. RemoveAt(queue, i) \in Seq(Ops)
    BY <1>0, EraseShape DEF OpTypes
  <2>2. queue[i] \in Ops
    BY <1>0 DEF OpTypes
  <2> QED
    BY <1>0, <1>27, <2>1, <2>2 DEF CancelQueueOp, TypeOK, FlagTypes, OpTypes,
         WindowTypes, PcTypes, QueuePcs, WindowPcs, AdderPcs, Events,
         queueVars, opVars, winVars, pcVars, Cancelable
<1>28. CASE AbortActive
  BY <1>0, <1>28 DEF AbortActive, TypeOK, FlagTypes, OpTypes, WindowTypes,
    PcTypes, QueuePcs, WindowPcs, AdderPcs, ExecStates, Working, queueVars,
    opVars, winVars, pcVars
<1>29. CASE BeginTeardown
  <2>1. FlagTypes'
    BY <1>0, <1>29 DEF FlagTypes, BeginTeardown, queueVars, Terminate,
         ClearPendingNotifications
  <2>2. OpTypes'
    BY <1>0, <1>29 DEF OpTypes, BeginTeardown, Working, ExecStates, queueVars,
         opVars, Terminate, ClearPendingNotifications
  <2>3. WindowTypes'
    BY <1>0, <1>29 DEF WindowTypes, BeginTeardown, Working, winVars, Terminate,
         ClearPendingNotifications
  <2>4. PcTypes'
    BY <1>0, <1>29 DEF PcTypes, BeginTeardown, Working, QueuePcs, WindowPcs,
         AdderPcs, pcVars, Terminate, ClearPendingNotifications
  <2> QED
    BY <2>1, <2>2, <2>3, <2>4 DEF TypeOK
<1>30. CASE ClearQueue
  <2>1. FlagTypes'
    BY <1>0, <1>30 DEF FlagTypes, ClearQueue, queueVars, Kept, Dropped
  <2>2. OpTypes'
    <3> DEFINE dropped == ToSet(IF performing THEN Tail(queue) ELSE queue)
    <3>1. dropped \subseteq Ops
      BY <1>0 DEF ToSet, OpTypes
    <3>2. queue' \in Seq(Ops)
      BY <1>0, <1>30 DEF ClearQueue, Kept, Dropped
    <3>3. notifSent' = [o \in Ops |-> IF o \in dropped THEN notifSent[o] \cup {"Remove"} ELSE notifSent[o]]
      BY <1>30 DEF ClearQueue, Kept, Dropped
    <3> HIDE DEF dropped
    <3>4. notifSent' \in [Ops -> SUBSET Events]
      BY <1>0, <3>3 DEF OpTypes, Events
    <3>5. canceled' = canceled \cup dropped /\ deleted' = deleted \cup dropped
      BY <1>30 DEF ClearQueue, dropped, Kept, Dropped
    <3> QED
      BY <1>0, <3>1, <3>2, <3>4, <3>5, <1>30 DEF ClearQueue, OpTypes, Kept,
           Dropped
  <2>3. WindowTypes'
    BY <1>0, <1>30 DEF WindowTypes, ClearQueue, Working, winVars, Events,
         ToSet, Queued, Kept, Dropped
  <2>4. PcTypes'
    BY <1>0, <1>30 DEF PcTypes, ClearQueue, Working, QueuePcs, WindowPcs,
         AdderPcs, pcVars, Events, ToSet, Queued, Kept, Dropped
  <2> QED
    BY <2>1, <2>2, <2>3, <2>4 DEF TypeOK
<1>31. CASE Deinitialize
  <2>1. FlagTypes'
    BY <1>0, <1>31 DEF FlagTypes, Deinitialize, queueVars, Terminate
  <2>2. OpTypes'
    BY <1>0, <1>31 DEF OpTypes, Deinitialize, Working, ExecStates, queueVars,
         opVars, Events, Terminate
  <2>3. WindowTypes'
    BY <1>0, <1>31 DEF WindowTypes, Deinitialize, Working, winVars, Events,
         Terminate
  <2>4. PcTypes'
    BY <1>0, <1>31 DEF PcTypes, Deinitialize, Working, QueuePcs, WindowPcs,
         AdderPcs, pcVars, Events, Terminate
  <2> QED
    BY <2>1, <2>2, <2>3, <2>4 DEF TypeOK
<1>32. CASE AdderAwaitAck
  BY <1>0, <1>32 DEF AdderAwaitAck, TypeOK, FlagTypes, OpTypes, WindowTypes,
       PcTypes, QueuePcs, WindowPcs, AdderPcs, ExecStates, Working, queueVars,
       opVars, winVars, pcVars, Acknowledged
<1>33. CASE AdderPush
  <2>1. FlagTypes'
    BY <1>0, <1>33 DEF FlagTypes, AdderPush, queueVars, PushBack
  <2>2. OpTypes'
    BY <1>0, <1>33 DEF OpTypes, AdderPush, Working, ExecStates, queueVars,
      opVars, PushBack
  <2>3. WindowTypes'
    BY <1>0, <1>33 DEF WindowTypes, AdderPush, Working, winVars, PushBack
  <2>4. PcTypes'
    BY <1>0, <1>33 DEF PcTypes, AdderPush, Working, QueuePcs, WindowPcs,
      AdderPcs, pcVars, PushBack
  <2> QED
    BY <2>1, <2>2, <2>3, <2>4 DEF TypeOK
<1>34. ASSUME NEW o \in Ops, AdderRefused(o)
      PROVE  TypeOK'
  BY <1>0, <1>34 DEF AdderRefused, TypeOK, FlagTypes, OpTypes, WindowTypes,
    PcTypes, QueuePcs, WindowPcs, AdderPcs, ExecStates, Working, queueVars,
    opVars, winVars, pcVars, AdderCalls
<1>35. ASSUME NEW o \in Ops, TimerAdd(o)
      PROVE  TypeOK'
  <2>1. FlagTypes'
    BY <1>0, <1>35 DEF FlagTypes, TimerAdd, queueVars, AdderAccepted
  <2>2. OpTypes'
    BY <1>0, <1>35 DEF OpTypes, TimerAdd, Working, ExecStates, queueVars,
      opVars, AdderAccepted, AdderCalls, Events
  <2>3. WindowTypes'
    <3>1. [event |-> "Add", op |-> o] \in Message
      BY DEF Message, Events
    <3> QED
      BY <1>0, <3>1, <1>35 DEF TimerAdd, AdderAccepted, AdderCalls,
        WindowTypes
  <2>4. PcTypes'
    BY <1>0, <1>35 DEF PcTypes, TimerAdd, Working, QueuePcs, WindowPcs,
      AdderPcs, pcVars, AdderAccepted, AdderCalls, Events
  <2> QED
    BY <2>1, <2>2, <2>3, <2>4 DEF TypeOK
<1>36. ASSUME NEW o \in Ops, DispatcherAdd(o)
      PROVE  TypeOK'
  BY <1>0, <1>36 DEF DispatcherAdd, TypeOK, FlagTypes, OpTypes, WindowTypes,
    PcTypes, QueuePcs, WindowPcs, AdderPcs, ExecStates, Working, queueVars,
    opVars, winVars, pcVars, AdderAccepted, AdderCalls, Events
<1>37. CASE DropNotification
  BY <1>0, <1>37 DEF DropNotification, TypeOK, FlagTypes, OpTypes, WindowTypes,
    PcTypes, QueuePcs, WindowPcs, AdderPcs, ExecStates, Working, queueVars,
    opVars, winVars, pcVars, FailedConnect
<1> QED
  BY <1>1, <1>2, <1>3, <1>4, <1>5, <1>6, <1>7, <1>8, <1>9, <1>10, <1>11,
    <1>12, <1>13, <1>14, <1>15, <1>16, <1>17, <1>18, <1>19, <1>20, <1>21,
    <1>22, <1>23, <1>24, <1>25, <1>26, <1>27, <1>28, <1>29, <1>30, <1>31,
    <1>32, <1>33, <1>34, <1>35, <1>36, <1>37 DEF Next, QueueThread, WindowThread,
    WindowRequest, AdderThread

\* Every action keeps the queue thread in step with m_queue.
LEMMA ThreadStep ==
  ASSUME IInv, Next
  PROVE  ThreadInv'
<1> USE OpsAssumption
<1>a. /\ OpTypes /\ PcTypes /\ queue \in Seq(Ops)
      /\ ThreadInv /\ HolderInv /\ QueueInv
  BY DEF IInv, TypeOK, OpTypes
<1> USE DEF ThreadInv, HolderInv, QueueInv, QueueHoldsLiveOps, Live, OpTypes,
  PcTypes, QueuePcs, WindowPcs, AdderPcs, Working, queueVars, opVars, winVars,
  pcVars
<1>1. CASE Enter
  BY <1>a, <1>1, QueueFacts DEF Enter, Queued
<1>2. CASE WakeUp
  BY <1>a, <1>2 DEF WakeUp, Queued
<1>3. CASE MarkSent
  BY <1>a, <1>3 DEF MarkSent, Sending, EventAt, AfterSend, SendDone, Queued
<1>4. CASE PostNotification
  BY <1>a, <1>4 DEF PostNotification, Sending, EventAt, AfterSend, SendDone,
    Queued
<1>5. CASE AwaitAck
  BY <1>a, <1>5 DEF AwaitAck, Sending, EventAt, AfterSend, SendDone, Queued,
       Acknowledged
<1>6. CASE SetRunning
  BY <1>a, <1>6 DEF SetRunning, Queued
<1>7. CASE StartExecution
  BY <1>a, <1>7 DEF StartExecution, Queued
<1>8. CASE BeginPerform
  BY <1>a, <1>8 DEF BeginPerform, Queued
<1>9. CASE ReportProgress
  BY <1>a, <1>9 DEF ReportProgress, Queued
<1>10. CASE ClientReturn
  BY <1>a, <1>10 DEF ClientReturn, Queued
<1>11. CASE FinishExecution
  BY <1>a, <1>11 DEF FinishExecution, Queued, FinishedFrom
<1>12. CASE UnsetRunning
  BY <1>a, <1>12 DEF UnsetRunning, Queued
<1>13. CASE Ended
  BY <1>a, <1>13 DEF Ended, Queued
<1>14. CASE PopFront
  BY <1>a, <1>14, QueueFacts DEF PopFront, Queued
<1>15. CASE StopThread
  BY <1>a, <1>15 DEF StopThread, Queued
<1>16. CASE HandleRowMessage
  BY <1>a, <1>16 DEF HandleRowMessage, MessageLoop, Queued
<1>17. CASE HandleEvent
  BY <1>a, <1>17 DEF HandleEvent, MessageLoop, Queued
<1>18. CASE AckNotification
  BY <1>a, <1>18 DEF AckNotification, Queued
<1>19. CASE AddQueueOpPush
  <2>1. uop \in Ops /\ queue' = Append(queue, uop) /\ Queued' = Queued \cup {uop}
    BY <1>a, QueueFacts, <1>19 DEF AddQueueOpPush, PushBack, Queued
  <2> QED
    BY <1>a, QueueFacts, <2>1, <1>19 DEF AddQueueOpPush
<1>20. CASE AbortCall
  BY <1>a, <1>20 DEF AbortCall, Queued
<1>21. CASE TeardownAbort
  BY <1>a, <1>21 DEF TeardownAbort, Queued
<1>22. CASE AbortWrapper
  BY <1>a, <1>22 DEF AbortWrapper, Queued
<1>23. CASE JoinThread
  BY <1>a, <1>23 DEF JoinThread, Queued
<1>24. CASE DrainOne
  BY <1>a, <1>24, QueueFacts DEF DrainOne, Queued, ClearPendingNotifications
<1>25. CASE DeinitializeDone
  BY <1>a, <1>25 DEF DeinitializeDone, Queued, Drained
<1>26. ASSUME NEW o \in Ops, AddQueueOp(o)
      PROVE  ThreadInv'
  BY <1>a, <1>26, QueueFacts DEF AddQueueOp, Queued
<1>27. ASSUME NEW i \in 1..Len(queue), CancelQueueOp(i)
      PROVE  ThreadInv'
  <2>1. queue' = RemoveAt(queue, i) /\ deleted' = deleted \cup {queue[i]} /\ (performing => i # 1)
    BY <1>27 DEF CancelQueueOp, Cancelable
  <2>2. Queued \subseteq Queued' \cup {queue[i]}
    BY <1>a, <2>1, EraseKeeps DEF Queued
  <2> QED
    BY <1>a, QueueFacts, <2>1, <2>2, <1>27 DEF CancelQueueOp, Cancelable
<1>28. CASE AbortActive
  BY <1>a, <1>28 DEF AbortActive, CancelExecutable, Queued
<1>29. CASE BeginTeardown
  BY <1>a, <1>29 DEF BeginTeardown, CancelExecutable, Queued, Terminate,
       ClearPendingNotifications
<1>30. CASE ClearQueue
  <2>1. /\ performing => queue' = <<Head(queue)>> /\ queue # <<>> /\ Head(queue) = activeOp
        /\ ~performing => queue' = <<>> /\ deleted' = deleted \cup Queued
        /\ performing => deleted' = deleted \cup ToSet(Tail(queue))
    BY <1>a, QueueFacts, <1>30 DEF ClearQueue, Queued, Kept, Dropped
  <2>2. Queued' = IF performing THEN {Head(queue)} ELSE {}
    BY <2>1 DEF Queued, ToSet
  <2> QED
    BY <1>a, QueueFacts, <2>1, <2>2, <1>30 DEF ClearQueue, Kept, Dropped
<1>31. CASE Deinitialize
  BY <1>a, <1>31, QueueFacts DEF Deinitialize, Queued, Terminate
<1>32. CASE AdderAwaitAck
  BY <1>a, <1>32 DEF AdderAwaitAck, Queued, Acknowledged
<1>33. CASE AdderPush
  <2>1. aop \in Ops /\ queue' = Append(queue, aop) /\ Queued' = Queued \cup {aop}
    BY <1>a, QueueFacts, <1>33 DEF AdderPush, PushBack, Queued
  <2> QED
    BY <1>a, QueueFacts, <2>1, <1>33 DEF AdderPush
<1>34. ASSUME NEW o \in Ops, AdderRefused(o)
      PROVE  ThreadInv'
  BY <1>a, <1>34, QueueFacts DEF AdderRefused, AdderCalls, Queued
<1>35. ASSUME NEW o \in Ops, TimerAdd(o)
      PROVE  ThreadInv'
  BY <1>a, <1>35, QueueFacts DEF TimerAdd, AdderAccepted, AdderCalls, Queued
<1>36. ASSUME NEW o \in Ops, DispatcherAdd(o)
      PROVE  ThreadInv'
  BY <1>a, <1>36, QueueFacts DEF DispatcherAdd, AdderAccepted, AdderCalls,
    Queued
<1>37. CASE DropNotification
  BY <1>a, <1>37 DEF DropNotification, Queued
<1> QED
  BY <1>1, <1>2, <1>3, <1>4, <1>5, <1>6, <1>7, <1>8, <1>9, <1>10, <1>11,
    <1>12, <1>13, <1>14, <1>15, <1>16, <1>17, <1>18, <1>19, <1>20, <1>21,
    <1>22, <1>23, <1>24, <1>25, <1>26, <1>27, <1>28, <1>29, <1>30, <1>31,
    <1>32, <1>33, <1>34, <1>35, <1>36, <1>37 DEF Next, QueueThread, WindowThread,
    WindowRequest, AdderThread

\* Every action keeps the operations that are being added apart from the queue.
LEMMA HolderStep ==
  ASSUME IInv, Next
  PROVE  HolderInv'
<1> USE OpsAssumption
<1>a. /\ OpTypes /\ PcTypes /\ queue \in Seq(Ops)
      /\ ThreadInv /\ HolderInv /\ QueueInv
  BY DEF IInv, TypeOK, OpTypes
<1> USE DEF ThreadInv, HolderInv, QueueInv, QueueHoldsLiveOps, Live, OpTypes,
  PcTypes, QueuePcs, WindowPcs, AdderPcs, Working, queueVars, opVars, winVars,
  pcVars
<1>1. CASE Enter
  BY <1>a, <1>1, QueueFacts DEF Enter, Queued
<1>2. CASE WakeUp
  BY <1>a, <1>2 DEF WakeUp, Queued
<1>3. CASE MarkSent
  BY <1>a, <1>3 DEF MarkSent, Sending, EventAt, AfterSend, SendDone, Queued
<1>4. CASE PostNotification
  BY <1>a, <1>4 DEF PostNotification, Sending, EventAt, AfterSend, SendDone,
    Queued
<1>5. CASE AwaitAck
  BY <1>a, <1>5 DEF AwaitAck, Sending, EventAt, AfterSend, SendDone, Queued,
       Acknowledged
<1>6. CASE SetRunning
  BY <1>a, <1>6 DEF SetRunning, Queued
<1>7. CASE StartExecution
  BY <1>a, <1>7 DEF StartExecution, Queued
<1>8. CASE BeginPerform
  BY <1>a, <1>8 DEF BeginPerform, Queued
<1>9. CASE ReportProgress
  BY <1>a, <1>9 DEF ReportProgress, Queued
<1>10. CASE ClientReturn
  BY <1>a, <1>10 DEF ClientReturn, Queued
<1>11. CASE FinishExecution
  BY <1>a, <1>11 DEF FinishExecution, Queued, FinishedFrom
<1>12. CASE UnsetRunning
  BY <1>a, <1>12 DEF UnsetRunning, Queued
<1>13. CASE Ended
  BY <1>a, <1>13 DEF Ended, Queued
<1>14. CASE PopFront
  BY <1>a, <1>14, QueueFacts DEF PopFront, Queued
<1>15. CASE StopThread
  BY <1>a, <1>15 DEF StopThread, Queued
<1>16. CASE HandleRowMessage
  BY <1>a, <1>16 DEF HandleRowMessage, MessageLoop, Queued
<1>17. CASE HandleEvent
  BY <1>a, <1>17 DEF HandleEvent, MessageLoop, Queued
<1>18. CASE AckNotification
  BY <1>a, <1>18 DEF AckNotification, Queued
<1>19. CASE AddQueueOpPush
  BY <1>a, <1>19, QueueFacts DEF AddQueueOpPush, PushBack, Queued
<1>20. CASE AbortCall
  BY <1>a, <1>20 DEF AbortCall, Queued
<1>21. CASE TeardownAbort
  BY <1>a, <1>21 DEF TeardownAbort, Queued
<1>22. CASE AbortWrapper
  BY <1>a, <1>22 DEF AbortWrapper, Queued
<1>23. CASE JoinThread
  BY <1>a, <1>23 DEF JoinThread, Queued
<1>24. CASE DrainOne
  BY <1>a, <1>24, QueueFacts DEF DrainOne, Queued, ClearPendingNotifications
<1>25. CASE DeinitializeDone
  BY <1>a, <1>25 DEF DeinitializeDone, Queued, Drained
<1>26. ASSUME NEW o \in Ops, AddQueueOp(o)
      PROVE  HolderInv'
  BY <1>a, <1>26, QueueFacts DEF AddQueueOp, Queued
<1>27. ASSUME NEW i \in 1..Len(queue), CancelQueueOp(i)
      PROVE  HolderInv'
  BY <1>a, <1>27, QueueFacts DEF CancelQueueOp, Queued, Cancelable
<1>28. CASE AbortActive
  BY <1>a, <1>28 DEF AbortActive, CancelExecutable, Queued
<1>29. CASE BeginTeardown
  BY <1>a, <1>29 DEF BeginTeardown, CancelExecutable, Queued, Terminate,
       ClearPendingNotifications
<1>30. CASE ClearQueue
  <2>1. /\ performing => queue' = <<Head(queue)>> /\ queue # <<>> /\ Head(queue) = activeOp
        /\ ~performing => queue' = <<>> /\ deleted' = deleted \cup Queued
        /\ performing => deleted' = deleted \cup ToSet(Tail(queue))
    BY <1>a, QueueFacts, <1>30 DEF ClearQueue, Queued, Kept, Dropped
  <2>2. Queued' = IF performing THEN {Head(queue)} ELSE {}
    BY <2>1 DEF Queued, ToSet
  <2> QED
    BY <1>a, QueueFacts, <2>1, <2>2, <1>30 DEF ClearQueue, Kept, Dropped
<1>31. CASE Deinitialize
  BY <1>a, <1>31, QueueFacts DEF Deinitialize, Queued, Terminate
<1>32. CASE AdderAwaitAck
  BY <1>a, <1>32 DEF AdderAwaitAck, Queued, Acknowledged
<1>33. CASE AdderPush
  BY <1>a, <1>33, QueueFacts DEF AdderPush, PushBack, Queued
<1>34. ASSUME NEW o \in Ops, AdderRefused(o)
      PROVE  HolderInv'
  BY <1>a, <1>34, QueueFacts DEF AdderRefused, AdderCalls, Queued
<1>35. ASSUME NEW o \in Ops, TimerAdd(o)
      PROVE  HolderInv'
  BY <1>a, <1>35, QueueFacts DEF TimerAdd, AdderAccepted, AdderCalls, Queued
<1>36. ASSUME NEW o \in Ops, DispatcherAdd(o)
      PROVE  HolderInv'
  BY <1>a, <1>36, QueueFacts DEF DispatcherAdd, AdderAccepted, AdderCalls,
    Queued
<1>37. CASE DropNotification
  BY <1>a, <1>37 DEF DropNotification, Queued
<1> QED
  BY <1>1, <1>2, <1>3, <1>4, <1>5, <1>6, <1>7, <1>8, <1>9, <1>10, <1>11,
    <1>12, <1>13, <1>14, <1>15, <1>16, <1>17, <1>18, <1>19, <1>20, <1>21,
    <1>22, <1>23, <1>24, <1>25, <1>26, <1>27, <1>28, <1>29, <1>30, <1>31,
    <1>32, <1>33, <1>34, <1>35, <1>36, <1>37 DEF Next, QueueThread, WindowThread,
    WindowRequest, AdderThread

\* Every action keeps the queued operations alive and distinct.
LEMMA QueueStep ==
  ASSUME IInv, Next
  PROVE  QueueInv'
<1> USE OpsAssumption
<1>a. /\ OpTypes /\ PcTypes /\ queue \in Seq(Ops)
      /\ ThreadInv /\ HolderInv /\ QueueInv
  BY DEF IInv, TypeOK, OpTypes
<1> USE DEF ThreadInv, HolderInv, QueueInv, QueueHoldsLiveOps, Live, OpTypes,
  PcTypes, QueuePcs, WindowPcs, AdderPcs, Working, queueVars, opVars, winVars,
  pcVars
<1>1. CASE Enter
  BY <1>a, <1>1, QueueFacts DEF Enter, Queued
<1>2. CASE WakeUp
  BY <1>a, <1>2 DEF WakeUp, Queued
<1>3. CASE MarkSent
  BY <1>a, <1>3 DEF MarkSent, Sending, EventAt, AfterSend, SendDone, Queued
<1>4. CASE PostNotification
  BY <1>a, <1>4 DEF PostNotification, Sending, EventAt, AfterSend, SendDone,
    Queued
<1>5. CASE AwaitAck
  BY <1>a, <1>5 DEF AwaitAck, Sending, EventAt, AfterSend, SendDone, Queued,
       Acknowledged
<1>6. CASE SetRunning
  BY <1>a, <1>6 DEF SetRunning, Queued
<1>7. CASE StartExecution
  BY <1>a, <1>7 DEF StartExecution, Queued
<1>8. CASE BeginPerform
  BY <1>a, <1>8 DEF BeginPerform, Queued
<1>9. CASE ReportProgress
  BY <1>a, <1>9 DEF ReportProgress, Queued
<1>10. CASE ClientReturn
  BY <1>a, <1>10 DEF ClientReturn, Queued
<1>11. CASE FinishExecution
  BY <1>a, <1>11 DEF FinishExecution, Queued, FinishedFrom
<1>12. CASE UnsetRunning
  BY <1>a, <1>12 DEF UnsetRunning, Queued
<1>13. CASE Ended
  BY <1>a, <1>13 DEF Ended, Queued
<1>14. CASE PopFront
  BY <1>a, <1>14, QueueFacts DEF PopFront, Queued
<1>15. CASE StopThread
  BY <1>a, <1>15 DEF StopThread, Queued
<1>16. CASE HandleRowMessage
  BY <1>a, <1>16 DEF HandleRowMessage, MessageLoop, Queued
<1>17. CASE HandleEvent
  BY <1>a, <1>17 DEF HandleEvent, MessageLoop, Queued
<1>18. CASE AckNotification
  BY <1>a, <1>18 DEF AckNotification, Queued
<1>19. CASE AddQueueOpPush
  BY <1>a, <1>19, QueueFacts DEF AddQueueOpPush, PushBack, Queued
<1>20. CASE AbortCall
  BY <1>a, <1>20 DEF AbortCall, Queued
<1>21. CASE TeardownAbort
  BY <1>a, <1>21 DEF TeardownAbort, Queued
<1>22. CASE AbortWrapper
  BY <1>a, <1>22 DEF AbortWrapper, Queued
<1>23. CASE JoinThread
  BY <1>a, <1>23 DEF JoinThread, Queued
<1>24. CASE DrainOne
  BY <1>a, <1>24, QueueFacts DEF DrainOne, Queued, ClearPendingNotifications
<1>25. CASE DeinitializeDone
  BY <1>a, <1>25 DEF DeinitializeDone, Queued, Drained
<1>26. ASSUME NEW o \in Ops, AddQueueOp(o)
      PROVE  QueueInv'
  BY <1>a, <1>26, QueueFacts DEF AddQueueOp, Queued
<1>27. ASSUME NEW i \in 1..Len(queue), CancelQueueOp(i)
      PROVE  QueueInv'
  BY <1>a, <1>27, QueueFacts DEF CancelQueueOp, Queued, Cancelable
<1>28. CASE AbortActive
  BY <1>a, <1>28 DEF AbortActive, CancelExecutable, Queued
<1>29. CASE BeginTeardown
  BY <1>a, <1>29 DEF BeginTeardown, CancelExecutable, Queued, Terminate,
       ClearPendingNotifications
<1>30. CASE ClearQueue
  <2>1. /\ performing => queue' = <<Head(queue)>> /\ queue # <<>> /\ Head(queue) = activeOp
        /\ ~performing => queue' = <<>> /\ deleted' = deleted \cup Queued
        /\ performing => deleted' = deleted \cup ToSet(Tail(queue))
    BY <1>a, QueueFacts, <1>30 DEF ClearQueue, Queued, Kept, Dropped
  <2>2. Queued' = IF performing THEN {Head(queue)} ELSE {}
    BY <2>1 DEF Queued, ToSet
  <2> QED
    BY <1>a, QueueFacts, <2>1, <2>2, <1>30 DEF ClearQueue, IsInjective, Kept,
         Dropped
<1>31. CASE Deinitialize
  BY <1>a, <1>31, QueueFacts DEF Deinitialize, Queued, Terminate
<1>32. CASE AdderAwaitAck
  BY <1>a, <1>32 DEF AdderAwaitAck, Queued, Acknowledged
<1>33. CASE AdderPush
  BY <1>a, <1>33, QueueFacts DEF AdderPush, PushBack, Queued
<1>34. ASSUME NEW o \in Ops, AdderRefused(o)
      PROVE  QueueInv'
  BY <1>a, <1>34, QueueFacts DEF AdderRefused, AdderCalls, Queued
<1>35. ASSUME NEW o \in Ops, TimerAdd(o)
      PROVE  QueueInv'
  BY <1>a, <1>35, QueueFacts DEF TimerAdd, AdderAccepted, AdderCalls, Queued
<1>36. ASSUME NEW o \in Ops, DispatcherAdd(o)
      PROVE  QueueInv'
  BY <1>a, <1>36, QueueFacts DEF DispatcherAdd, AdderAccepted, AdderCalls,
    Queued
<1>37. CASE DropNotification
  BY <1>a, <1>37 DEF DropNotification, Queued
<1> QED
  BY <1>1, <1>2, <1>3, <1>4, <1>5, <1>6, <1>7, <1>8, <1>9, <1>10, <1>11,
    <1>12, <1>13, <1>14, <1>15, <1>16, <1>17, <1>18, <1>19, <1>20, <1>21,
    <1>22, <1>23, <1>24, <1>25, <1>26, <1>27, <1>28, <1>29, <1>30, <1>31,
    <1>32, <1>33, <1>34, <1>35, <1>36, <1>37 DEF Next, QueueThread, WindowThread,
    WindowRequest, AdderThread

\* Every action keeps m_executionState in step with the queue thread.
LEMMA ExecStep ==
  ASSUME IInv, Next
  PROVE  ExecInv'
<1> USE OpsAssumption
<1>a. /\ OpTypes /\ PcTypes /\ queue \in Seq(Ops)
      /\ ThreadInv /\ HolderInv /\ QueueInv /\ ExecInv
  BY DEF IInv, TypeOK, OpTypes
<1> USE DEF ThreadInv, HolderInv, QueueInv, ExecInv, QueueHoldsLiveOps, Live,
  OpTypes, PcTypes, QueuePcs, WindowPcs, AdderPcs, Working, queueVars, opVars,
  winVars, pcVars
<1>1. CASE Enter
  BY <1>a, <1>1, QueueFacts DEF Enter, Queued
<1>2. CASE WakeUp
  BY <1>a, <1>2 DEF WakeUp, Queued
<1>3. CASE MarkSent
  BY <1>a, <1>3 DEF MarkSent, Sending, EventAt, AfterSend, SendDone, Queued
<1>4. CASE PostNotification
  BY <1>a, <1>4 DEF PostNotification, Sending, EventAt, AfterSend, SendDone,
    Queued
<1>5. CASE AwaitAck
  BY <1>a, <1>5 DEF AwaitAck, Sending, EventAt, AfterSend, SendDone, Queued,
       Acknowledged
<1>6. CASE SetRunning
  BY <1>a, <1>6 DEF SetRunning, Queued
<1>7. CASE StartExecution
  BY <1>a, <1>7 DEF StartExecution, Queued
<1>8. CASE BeginPerform
  BY <1>a, <1>8 DEF BeginPerform, Queued
<1>9. CASE ReportProgress
  BY <1>a, <1>9 DEF ReportProgress, Queued
<1>10. CASE ClientReturn
  BY <1>a, <1>10 DEF ClientReturn, Queued
<1>11. CASE FinishExecution
  BY <1>a, <1>11 DEF FinishExecution, Queued, FinishedFrom
<1>12. CASE UnsetRunning
  BY <1>a, <1>12 DEF UnsetRunning, Queued
<1>13. CASE Ended
  BY <1>a, <1>13 DEF Ended, Queued
<1>14. CASE PopFront
  BY <1>a, <1>14, QueueFacts DEF PopFront, Queued
<1>15. CASE StopThread
  BY <1>a, <1>15 DEF StopThread, Queued
<1>16. CASE HandleRowMessage
  BY <1>a, <1>16 DEF HandleRowMessage, MessageLoop, Queued
<1>17. CASE HandleEvent
  BY <1>a, <1>17 DEF HandleEvent, MessageLoop, Queued
<1>18. CASE AckNotification
  BY <1>a, <1>18 DEF AckNotification, Queued
<1>19. CASE AddQueueOpPush
  BY <1>a, <1>19, QueueFacts DEF AddQueueOpPush, PushBack, Queued
<1>20. CASE AbortCall
  BY <1>a, <1>20 DEF AbortCall, Queued
<1>21. CASE TeardownAbort
  BY <1>a, <1>21 DEF TeardownAbort, Queued
<1>22. CASE AbortWrapper
  BY <1>a, <1>22 DEF AbortWrapper, Queued
<1>23. CASE JoinThread
  BY <1>a, <1>23 DEF JoinThread, Queued
<1>24. CASE DrainOne
  BY <1>a, <1>24, QueueFacts DEF DrainOne, Queued, ClearPendingNotifications
<1>25. CASE DeinitializeDone
  <2>1. Queued = {} /\ Queued' = {}
    BY <1>25 DEF DeinitializeDone, Queued, ToSet, Drained
  <2>2. qpc = "exited" /\ activeOp' = NullOp /\ (activeOp = NullOp \/ activeOp \in deleted)
    BY <1>a, <2>1, <1>25 DEF DeinitializeDone, Drained
  <2>3. exec' = exec /\ created' = created /\ deleted' = deleted /\ canceled' = canceled
    BY <1>25 DEF DeinitializeDone, Drained
  <2> QED
    BY <1>a, <2>1, <2>2, <2>3, <1>25 DEF DeinitializeDone, Drained
<1>26. ASSUME NEW o \in Ops, AddQueueOp(o)
      PROVE  ExecInv'
  BY <1>a, <1>26, QueueFacts DEF AddQueueOp, Queued
<1>27. ASSUME NEW i \in 1..Len(queue), CancelQueueOp(i)
      PROVE  ExecInv'
  BY <1>a, <1>27, QueueFacts DEF CancelQueueOp, Queued, Cancelable
<1>28. CASE AbortActive
  BY <1>a, <1>28 DEF AbortActive, CancelExecutable, Queued
<1>29. CASE BeginTeardown
  BY <1>a, <1>29 DEF BeginTeardown, CancelExecutable, Queued, Terminate,
       ClearPendingNotifications
<1>30. CASE ClearQueue
  <2>1. /\ performing => queue' = <<Head(queue)>> /\ queue # <<>> /\ Head(queue) = activeOp
        /\ ~performing => queue' = <<>> /\ deleted' = deleted \cup Queued
        /\ performing => deleted' = deleted \cup ToSet(Tail(queue))
    BY <1>a, QueueFacts, <1>30 DEF ClearQueue, Queued, Kept, Dropped
  <2>2. Queued' = IF performing THEN {Head(queue)} ELSE {}
    BY <2>1 DEF Queued, ToSet
  <2> QED
    BY <1>a, QueueFacts, <2>1, <2>2, <1>30 DEF ClearQueue, Kept, Dropped
<1>31. CASE Deinitialize
  BY <1>a, <1>31, QueueFacts DEF Deinitialize, Queued, Terminate
<1>32. CASE AdderAwaitAck
  BY <1>a, <1>32 DEF AdderAwaitAck, Queued, Acknowledged
<1>33. CASE AdderPush
  BY <1>a, <1>33, QueueFacts DEF AdderPush, PushBack, Queued
<1>34. ASSUME NEW o \in Ops, AdderRefused(o)
      PROVE  ExecInv'
  BY <1>a, <1>34, QueueFacts DEF AdderRefused, AdderCalls, Queued
<1>35. ASSUME NEW o \in Ops, TimerAdd(o)
      PROVE  ExecInv'
  BY <1>a, <1>35, QueueFacts DEF TimerAdd, AdderAccepted, AdderCalls, Queued
<1>36. ASSUME NEW o \in Ops, DispatcherAdd(o)
      PROVE  ExecInv'
  BY <1>a, <1>36, QueueFacts DEF DispatcherAdd, AdderAccepted, AdderCalls,
    Queued
<1>37. CASE DropNotification
  BY <1>a, <1>37 DEF DropNotification, Queued
<1> QED
  BY <1>1, <1>2, <1>3, <1>4, <1>5, <1>6, <1>7, <1>8, <1>9, <1>10, <1>11,
    <1>12, <1>13, <1>14, <1>15, <1>16, <1>17, <1>18, <1>19, <1>20, <1>21,
    <1>22, <1>23, <1>24, <1>25, <1>26, <1>27, <1>28, <1>29, <1>30, <1>31,
    <1>32, <1>33, <1>34, <1>35, <1>36, <1>37 DEF Next, QueueThread, WindowThread,
    WindowRequest, AdderThread

\* Every action keeps cancellation and completion exclusive.
LEMMA CancelStep ==
  ASSUME IInv, Next
  PROVE  CancelInv'
<1> USE OpsAssumption
<1>a. /\ OpTypes /\ PcTypes /\ queue \in Seq(Ops)
      /\ ThreadInv /\ HolderInv /\ QueueInv /\ ExecInv /\ CancelInv
  BY DEF IInv, TypeOK, OpTypes
<1> USE DEF ThreadInv, HolderInv, QueueInv, ExecInv, CancelInv,
  CancelExcludesFinish, QueueHoldsLiveOps, Live, OpTypes, PcTypes, QueuePcs,
  WindowPcs, AdderPcs, Working, queueVars, opVars, winVars, pcVars
<1>1. CASE Enter
  BY <1>a, <1>1, QueueFacts DEF Enter, Queued
<1>2. CASE WakeUp
  BY <1>a, <1>2 DEF WakeUp, Queued
<1>3. CASE MarkSent
  BY <1>a, <1>3 DEF MarkSent, Sending, EventAt, AfterSend, SendDone, Queued
<1>4. CASE PostNotification
  BY <1>a, <1>4 DEF PostNotification, Sending, EventAt, AfterSend, SendDone,
    Queued
<1>5. CASE AwaitAck
  BY <1>a, <1>5 DEF AwaitAck, Sending, EventAt, AfterSend, SendDone, Queued,
       Acknowledged
<1>6. CASE SetRunning
  BY <1>a, <1>6 DEF SetRunning, Queued
<1>7. CASE StartExecution
  BY <1>a, <1>7 DEF StartExecution, Queued
<1>8. CASE BeginPerform
  BY <1>a, <1>8 DEF BeginPerform, Queued
<1>9. CASE ReportProgress
  BY <1>a, <1>9 DEF ReportProgress, Queued
<1>10. CASE ClientReturn
  BY <1>a, <1>10 DEF ClientReturn, Queued
<1>11. CASE FinishExecution
  BY <1>a, <1>11 DEF FinishExecution, Queued, FinishedFrom
<1>12. CASE UnsetRunning
  BY <1>a, <1>12 DEF UnsetRunning, Queued
<1>13. CASE Ended
  BY <1>a, <1>13 DEF Ended, Queued
<1>14. CASE PopFront
  BY <1>a, <1>14, QueueFacts DEF PopFront, Queued
<1>15. CASE StopThread
  BY <1>a, <1>15 DEF StopThread, Queued
<1>16. CASE HandleRowMessage
  BY <1>a, <1>16 DEF HandleRowMessage, MessageLoop, Queued
<1>17. CASE HandleEvent
  BY <1>a, <1>17 DEF HandleEvent, MessageLoop, Queued
<1>18. CASE AckNotification
  BY <1>a, <1>18 DEF AckNotification, Queued
<1>19. CASE AddQueueOpPush
  BY <1>a, <1>19, QueueFacts DEF AddQueueOpPush, PushBack, Queued
<1>20. CASE AbortCall
  BY <1>a, <1>20 DEF AbortCall, Queued
<1>21. CASE TeardownAbort
  BY <1>a, <1>21 DEF TeardownAbort, Queued
<1>22. CASE AbortWrapper
  BY <1>a, <1>22 DEF AbortWrapper, Queued
<1>23. CASE JoinThread
  BY <1>a, <1>23 DEF JoinThread, Queued
<1>24. CASE DrainOne
  BY <1>a, <1>24, QueueFacts DEF DrainOne, Queued, ClearPendingNotifications
<1>25. CASE DeinitializeDone
  <2>1. Queued = {} /\ Queued' = {}
    BY <1>25 DEF DeinitializeDone, Queued, ToSet, Drained
  <2>2. qpc = "exited" /\ activeOp' = NullOp /\ (activeOp = NullOp \/ activeOp \in deleted)
    BY <1>a, <2>1, <1>25 DEF DeinitializeDone, Drained
  <2>3. exec' = exec /\ created' = created /\ deleted' = deleted /\ canceled' = canceled
    BY <1>25 DEF DeinitializeDone, Drained
  <2> QED
    BY <1>a, <2>1, <2>2, <2>3, <1>25 DEF DeinitializeDone, Drained
<1>26. ASSUME NEW o \in Ops, AddQueueOp(o)
      PROVE  CancelInv'
  BY <1>a, <1>26, QueueFacts DEF AddQueueOp, Queued
<1>27. ASSUME NEW i \in 1..Len(queue), CancelQueueOp(i)
      PROVE  CancelInv'
  <2>1. /\ canceled' = canceled \cup {queue[i]} /\ deleted' = deleted \cup {queue[i]}
        /\ exec' = exec /\ activeOp' = activeOp
    BY <1>27 DEF CancelQueueOp, Cancelable
  <2>2. queue[i] # activeOp
    <3>1. CASE performing
      BY <1>a, QueueFacts, <3>1, <1>27 DEF CancelQueueOp, Cancelable
    <3>2. CASE ~performing
      BY <1>a, QueueFacts, <3>2, <1>27 DEF CancelQueueOp, Cancelable
    <3> QED
      BY <3>1, <3>2
  <2>3. exec[queue[i]] = "Idle"
    BY <1>a, QueueFacts, <2>2
  <2> QED
    BY <1>a, <2>1, <2>2, <2>3
<1>28. CASE AbortActive
  BY <1>a, <1>28 DEF AbortActive, CancelExecutable, Queued
<1>29. CASE BeginTeardown
  BY <1>a, <1>29 DEF BeginTeardown, CancelExecutable, Queued, Terminate,
       ClearPendingNotifications
<1>30. CASE ClearQueue
  <2> DEFINE dropped == ToSet(IF performing THEN Tail(queue) ELSE queue)
  <2>1. /\ canceled' = canceled \cup dropped /\ deleted' = deleted \cup dropped
        /\ exec' = exec /\ activeOp' = activeOp
    BY <1>30 DEF ClearQueue, Kept, Dropped
  <2>2. dropped \subseteq Queued /\ activeOp \notin dropped
    <3>1. CASE performing
      BY <1>a, QueueFacts, <3>1
    <3>2. CASE ~performing
      <4>1. activeOp = NullOp
        BY <1>a, <3>2, <1>30 DEF ClearQueue, Kept, Dropped
      <4> QED
        BY <1>a, QueueFacts, <3>2, <4>1 DEF Queued
    <3> QED
      BY <3>1, <3>2
  <2>3. \A o \in dropped : exec[o] = "Idle"
    BY <1>a, <2>2
  <2> HIDE DEF dropped
  <2> QED
    BY <1>a, <2>1, <2>2, <2>3
<1>31. CASE Deinitialize
  BY <1>a, <1>31, QueueFacts DEF Deinitialize, Queued, Terminate
<1>32. CASE AdderAwaitAck
  BY <1>a, <1>32 DEF AdderAwaitAck, Queued, Acknowledged
<1>33. CASE AdderPush
  BY <1>a, <1>33, QueueFacts DEF AdderPush, PushBack, Queued
<1>34. ASSUME NEW o \in Ops, AdderRefused(o)
      PROVE  CancelInv'
  BY <1>a, <1>34, QueueFacts DEF AdderRefused, AdderCalls, Queued
<1>35. ASSUME NEW o \in Ops, TimerAdd(o)
      PROVE  CancelInv'
  BY <1>a, <1>35, QueueFacts DEF TimerAdd, AdderAccepted, AdderCalls, Queued
<1>36. ASSUME NEW o \in Ops, DispatcherAdd(o)
      PROVE  CancelInv'
  BY <1>a, <1>36, QueueFacts DEF DispatcherAdd, AdderAccepted, AdderCalls,
    Queued
<1>37. CASE DropNotification
  BY <1>a, <1>37 DEF DropNotification, Queued
<1> QED
  BY <1>1, <1>2, <1>3, <1>4, <1>5, <1>6, <1>7, <1>8, <1>9, <1>10, <1>11,
    <1>12, <1>13, <1>14, <1>15, <1>16, <1>17, <1>18, <1>19, <1>20, <1>21,
    <1>22, <1>23, <1>24, <1>25, <1>26, <1>27, <1>28, <1>29, <1>30, <1>31,
    <1>32, <1>33, <1>34, <1>35, <1>36, <1>37 DEF Next, QueueThread, WindowThread,
    WindowRequest, AdderThread

-----------------------------------------------------------------------------
\* The invariant holds when the queue thread has just been created.
LEMMA Initially ==
  Init => IInv
<1> SUFFICES ASSUME Init PROVE IInv
  OBVIOUS
<1> USE OpsAssumption DEF Init
<1>1. TypeOK
  <2>1. FlagTypes
    BY DEF FlagTypes
  <2>2. OpTypes
    BY DEF OpTypes, ExecStates, Events
  <2>3. WindowTypes
    BY DEF WindowTypes
  <2>4. PcTypes
    BY DEF PcTypes, QueuePcs, WindowPcs, AdderPcs
  <2> QED
    BY <2>1, <2>2, <2>3, <2>4 DEF TypeOK
<1>2. Queued = {}
  BY DEF Queued, ToSet
<1>3. ThreadInv /\ HolderInv
  BY <1>2 DEF ThreadInv, HolderInv, Working
<1>4. QueueInv
  BY <1>2 DEF QueueInv, QueueHoldsLiveOps, IsInjective
<1>5. ExecInv /\ CancelInv
  BY <1>2 DEF ExecInv, CancelInv, CancelExcludesFinish
<1> QED
  BY <1>1, <1>3, <1>4, <1>5 DEF IInv

\* Steps of the rest of the program leave it alone.
LEMMA Stuttering ==
  IInv /\ UNCHANGED vars => IInv'
  BY DEF IInv, vars, queueVars, opVars, winVars, pcVars, TypeOK, FlagTypes,
    OpTypes, WindowTypes, PcTypes, ThreadInv, HolderInv, QueueInv,
    QueueHoldsLiveOps, ExecInv, CancelInv, CancelExcludesFinish, Queued, Live,
    IsInjective, ToSet

\* The conjunction of the parts is an invariant of the queue, whatever the
\* window does and however the threads interleave.
THEOREM Invariant == Spec => []IInv
<1>1. Init => IInv
  BY Initially
<1>2. IInv /\ [Next]_vars => IInv'
  BY TypeStep, ThreadStep, HolderStep, QueueStep, ExecStep, CancelStep,
    Stuttering DEF IInv
<1> QED
  BY <1>1, <1>2, PTL DEF Spec

\* Every variable keeps its type.
THEOREM TypeCorrect == Spec => []TypeOK
  BY Invariant, PTL DEF IInv

\* QueueLoop's pop_front removes the operation the thread performed: a queue
\* that is performing has it in front, and nobody deleted it.
THEOREM FrontIsActive == Spec => []ActiveIsFront
<1>1. IInv => ActiveIsFront
  BY DEF IInv, ActiveIsFront, ThreadInv, QueueInv, QueueHoldsLiveOps, TypeOK,
    OpTypes, Queued, ToSet, Working
<1> QED
  BY <1>1, Invariant, PTL

\* No operation is queued twice or after it was deleted.
THEOREM QueuedAreLive == Spec => []QueueHoldsLiveOps
<1>1. IInv => QueueHoldsLiveOps
  BY DEF IInv, QueueInv
<1> QED
  BY <1>1, Invariant, PTL

\* Both together: what QueueLoop takes for granted of m_queue between two locks.
THEOREM QueueStaysSound == Spec => []QueueIsSound
  BY FrontIsActive, QueuedAreLive, PTL DEF QueueIsSound

\* A canceled operation never finishes and a finished one is never canceled.
THEOREM CancelIsExclusive == Spec => []CancelExcludesFinish
<1>1. IInv => CancelExcludesFinish
  BY DEF IInv, CancelInv
<1> QED
  BY <1>1, Invariant, PTL

-----------------------------------------------------------------------------
\* Every action keeps the operations that are not deleted accounted for.
LEMMA LiveStep ==
  ASSUME IInv, LiveInv, Next
  PROVE  LiveInv'
<1> USE OpsAssumption
<1>a. /\ OpTypes /\ PcTypes /\ queue \in Seq(Ops)
      /\ ThreadInv /\ HolderInv /\ QueueInv /\ LiveInv
      /\ NullOp \notin Live
  BY DEF IInv, TypeOK, OpTypes, Live
<1> USE DEF ThreadInv, HolderInv, QueueInv, QueueHoldsLiveOps, Live, LiveInv,
  OpTypes, PcTypes, QueuePcs, WindowPcs, AdderPcs, Working, queueVars, opVars,
  winVars, pcVars
<1>1. CASE Enter
  BY <1>a, <1>1, QueueFacts DEF Enter, Queued
<1>2. CASE WakeUp
  BY <1>a, <1>2 DEF WakeUp, Queued
<1>3. CASE MarkSent
  BY <1>a, <1>3 DEF MarkSent, Sending, EventAt, AfterSend, SendDone, Queued
<1>4. CASE PostNotification
  BY <1>a, <1>4 DEF PostNotification, Sending, EventAt, AfterSend, SendDone,
    Queued
<1>5. CASE AwaitAck
  BY <1>a, <1>5 DEF AwaitAck, Sending, EventAt, AfterSend, SendDone, Queued,
       Acknowledged
<1>6. CASE SetRunning
  BY <1>a, <1>6 DEF SetRunning, Queued
<1>7. CASE StartExecution
  BY <1>a, <1>7 DEF StartExecution, Queued
<1>8. CASE BeginPerform
  BY <1>a, <1>8 DEF BeginPerform, Queued
<1>9. CASE ReportProgress
  BY <1>a, <1>9 DEF ReportProgress, Queued
<1>10. CASE ClientReturn
  BY <1>a, <1>10 DEF ClientReturn, Queued
<1>11. CASE FinishExecution
  BY <1>a, <1>11 DEF FinishExecution, Queued, FinishedFrom
<1>12. CASE UnsetRunning
  BY <1>a, <1>12 DEF UnsetRunning, Queued
<1>13. CASE Ended
  BY <1>a, <1>13 DEF Ended, Queued
<1>14. CASE PopFront
  <2>1. /\ queue # <<>> /\ queue' = Tail(queue) /\ Queued \subseteq Queued' \cup {Head(queue)}
        /\ deleted' = deleted \cup {Head(queue)}
    BY <1>a, QueueFacts, <1>14 DEF PopFront, Queued
  <2> QED
    BY <1>a, <2>1, <1>14 DEF PopFront
<1>15. CASE StopThread
  BY <1>a, <1>15 DEF StopThread, Queued
<1>16. CASE HandleRowMessage
  BY <1>a, <1>16 DEF HandleRowMessage, MessageLoop, Queued
<1>17. CASE HandleEvent
  BY <1>a, <1>17 DEF HandleEvent, MessageLoop, Queued
<1>18. CASE AckNotification
  BY <1>a, <1>18 DEF AckNotification, Queued
<1>19. CASE AddQueueOpPush
  <2>1. /\ uop \in Ops /\ queue' = Append(queue, uop) /\ queue' # <<>>
        /\ Queued' = Queued \cup {uop}
        /\ queue # <<>> => Head(queue') = Head(queue)
    BY <1>a, QueueFacts, <1>19 DEF AddQueueOpPush, PushBack, Queued
  <2> QED
    BY <1>a, <2>1, <1>19 DEF AddQueueOpPush
<1>20. CASE AbortCall
  BY <1>a, <1>20 DEF AbortCall, Queued
<1>21. CASE TeardownAbort
  BY <1>a, <1>21 DEF TeardownAbort, Queued
<1>22. CASE AbortWrapper
  BY <1>a, <1>22 DEF AbortWrapper, Queued
<1>23. CASE JoinThread
  BY <1>a, <1>23 DEF JoinThread, Queued
<1>24. CASE DrainOne
  <2>1. /\ queue' = Tail(queue) /\ Queued \subseteq Queued' \cup {Head(queue)}
        /\ deleted' = deleted \cup {Head(queue)}
    BY <1>a, QueueFacts, <1>24 DEF DrainOne, Queued
  <2> QED
    BY <1>a, <2>1, <1>24 DEF DrainOne
<1>25. CASE DeinitializeDone
  BY <1>a, <1>25 DEF DeinitializeDone, Queued, Drained
<1>26. ASSUME NEW o \in Ops, AddQueueOp(o)
      PROVE  LiveInv'
  BY <1>a, <1>26, QueueFacts DEF AddQueueOp, Queued
<1>27. ASSUME NEW i \in 1..Len(queue), CancelQueueOp(i)
      PROVE  LiveInv'
  <2>1. queue' = RemoveAt(queue, i) /\ deleted' = deleted \cup {queue[i]} /\ (performing => i # 1)
    BY <1>27 DEF CancelQueueOp, Cancelable
  <2>2. Queued \subseteq Queued' \cup {queue[i]}
    BY <1>a, <2>1, EraseKeeps DEF Queued
  <2>3. activeOp \in Live => performing
    BY <1>a, <1>27 DEF CancelQueueOp
  <2>4. performing => queue' # <<>> /\ Head(queue') = Head(queue)
    BY <1>a, QueueFacts, <2>1
  <2> QED
    BY <1>a, <2>1, <2>2, <2>3, <2>4, <1>27 DEF CancelQueueOp
<1>28. CASE AbortActive
  BY <1>a, <1>28 DEF AbortActive, CancelExecutable, Queued
<1>29. CASE BeginTeardown
  BY <1>a, <1>29 DEF BeginTeardown, CancelExecutable, Queued, Terminate,
       ClearPendingNotifications
<1>30. CASE ClearQueue
  <2>1. /\ performing => queue' = <<Head(queue)>> /\ queue # <<>>
        /\ ~performing => queue' = <<>> /\ deleted' = deleted \cup Queued
        /\ performing => deleted' = deleted \cup ToSet(Tail(queue))
    BY <1>a, QueueFacts, <1>30 DEF ClearQueue, Queued, Kept, Dropped
  <2>2. Queued' = IF performing THEN {Head(queue)} ELSE {}
    BY <2>1 DEF Queued, ToSet
  <2>3. Queued \subseteq Queued' \cup deleted'
    BY <1>a, QueueFacts, <2>1, <2>2
  <2>4. activeOp \in Live => performing
    BY <1>a, <1>30 DEF ClearQueue
  <2> QED
    BY <1>a, <2>1, <2>3, <2>4, <1>30 DEF ClearQueue
<1>31. CASE Deinitialize
  BY <1>a, <1>31, QueueFacts DEF Deinitialize, Queued, Terminate
<1>32. CASE AdderAwaitAck
  BY <1>a, <1>32 DEF AdderAwaitAck, Queued, Acknowledged
<1>33. CASE AdderPush
  <2>1. /\ aop \in Ops /\ queue' = Append(queue, aop) /\ queue' # <<>>
        /\ Queued' = Queued \cup {aop}
        /\ queue # <<>> => Head(queue') = Head(queue)
    BY <1>a, QueueFacts, <1>33 DEF AdderPush, PushBack, Queued
  <2> QED
    BY <1>a, <2>1, <1>33 DEF AdderPush
<1>34. ASSUME NEW o \in Ops, AdderRefused(o)
      PROVE  LiveInv'
  BY <1>a, <1>34, QueueFacts DEF AdderRefused, AdderCalls, Queued
<1>35. ASSUME NEW o \in Ops, TimerAdd(o)
      PROVE  LiveInv'
  BY <1>a, <1>35, QueueFacts DEF TimerAdd, AdderAccepted, AdderCalls, Queued
<1>36. ASSUME NEW o \in Ops, DispatcherAdd(o)
      PROVE  LiveInv'
  BY <1>a, <1>36, QueueFacts DEF DispatcherAdd, AdderAccepted, AdderCalls,
    Queued
<1>37. CASE DropNotification
  BY <1>a, <1>37 DEF DropNotification, Queued
<1> QED
  BY <1>1, <1>2, <1>3, <1>4, <1>5, <1>6, <1>7, <1>8, <1>9, <1>10, <1>11,
    <1>12, <1>13, <1>14, <1>15, <1>16, <1>17, <1>18, <1>19, <1>20, <1>21,
    <1>22, <1>23, <1>24, <1>25, <1>26, <1>27, <1>28, <1>29, <1>30, <1>31,
    <1>32, <1>33, <1>34, <1>35, <1>36, <1>37 DEF Next, QueueThread, WindowThread,
    WindowRequest, AdderThread

\* The rest of m_queue behind its front, as the refinement sees it.
LEMMA WaitingFacts ==
  ASSUME IInv, LiveInv
  PROVE  /\ Waiting \in Seq(Ops) /\ ToSet(Waiting) \subseteq Queued
         /\ IsActive => queue # <<>> /\ Head(queue) = activeOp /\ Active # NullOp
         /\ Active \in Queued \cup {NullOp}
         /\ IsInjective(queue)
         /\ Queued \subseteq created /\ deleted \subseteq created
         /\ Queued \cap deleted = {}
         /\ activeOp \in Ops => activeOp \in created
         /\ ToSet(Waiting) \cup {Active} \subseteq (created \ deleted) \cup {NullOp}
<1> USE OpsAssumption
<1>1. queue \in Seq(Ops) /\ activeOp \in Ops \cup {NullOp} /\ created \subseteq Ops
  BY DEF IInv, TypeOK, OpTypes
<1>2. /\ Queued \subseteq Live /\ IsInjective(queue) /\ deleted \subseteq created
      /\ activeOp # NullOp => activeOp \in Queued \cup deleted
  BY DEF IInv, QueueInv, QueueHoldsLiveOps, ThreadInv
<1>3. IsActive => queue # <<>> /\ Head(queue) = activeOp /\ activeOp # NullOp
  BY <1>1 DEF LiveInv, IsActive, Live
<1>4. queue # <<>> => /\ Tail(queue) \in Seq(Ops) /\ Head(queue) \in Queued
                      /\ ToSet(Tail(queue)) \subseteq Queued
  BY <1>1, QueueFacts
<1>5. Waiting \in Seq(Ops) /\ ToSet(Waiting) \subseteq Queued
  BY <1>1, <1>3, <1>4 DEF Waiting, Queued
<1>6. Active \in Queued \cup {NullOp} /\ (IsActive => Active # NullOp)
  BY <1>3, <1>4 DEF Active
<1> QED
  BY <1>1, <1>2, <1>3, <1>5, <1>6 DEF Live

\* A step that leaves m_queue, m_activeOp and what is deleted alone is not seen.
LEMMA Unseen ==
  ASSUME IInv, LiveInv, UNCHANGED <<queue, activeOp, deleted>>,
         created' = created \/ \E o \in Ops \ created : created' = created \cup {o}
  PROVE  UNCHANGED Abstract!vars
<1>1. activeOp \in Ops => activeOp \in created
  BY WaitingFacts
<1>2. created' \subseteq Ops \/ created' = created
  BY DEF IInv, TypeOK, OpTypes
<1>3. NullOp \notin created' /\ NullOp \notin created /\ activeOp \in Ops \cup {NullOp}
  BY <1>2, OpsAssumption DEF IInv, TypeOK, OpTypes
<1>4. IsActive' <=> IsActive
  BY <1>1, <1>3 DEF IsActive, Live
<1> QED
  BY <1>4 DEF Abstract!vars, Waiting, Active

\* Every action of the queue is an action of the abstract queue or not seen.
LEMMA RefinementStep ==
  ASSUME IInv, LiveInv, IInv', LiveInv', Next
  PROVE  [Abstract!Next]_(Abstract!vars)
<1> USE OpsAssumption
<1>a. /\ OpTypes /\ PcTypes /\ queue \in Seq(Ops) /\ FlagTypes
      /\ ThreadInv /\ HolderInv /\ QueueInv /\ LiveInv
      /\ NullOp \notin Live /\ NullOp \notin created /\ NullOp \notin deleted
  BY DEF IInv, TypeOK, OpTypes, Live
<1>c. qpc \in {"enter", "idleWait"} => ~IsActive
  BY <1>a DEF IsActive, ThreadInv
<1>d. upc \notin {"waitStop", "drain", "closed"} => (performing <=> IsActive)
  <2>1. qpc \in QueuePcs
    BY <1>a DEF PcTypes
  <2>2. performing /\ upc \notin {"waitStop", "drain", "closed"} => qpc \in Working
    BY <1>a, <2>1 DEF ThreadInv, QueuePcs, Working
  <2>3. performing => queue # <<>> /\ Head(queue) = activeOp
    BY <1>a DEF ThreadInv
  <2>4. performing => activeOp \in Live
    BY <1>a, <2>3, QueueFacts DEF QueueInv, QueueHoldsLiveOps
  <2>5. IsActive => activeOp # NullOp
    BY <1>a DEF IsActive
  <2>6. upc \notin {"waitStop", "drain", "closed"} => qpc \in Working \/ qpc \in {"enter", "idleWait"}
    BY <1>a, <2>1 DEF ThreadInv, QueuePcs, Working
  <2> QED
    BY <1>a, <1>c, <2>4, <2>6 DEF IsActive, ThreadInv
\* An operation that was just made is accepted or refused by nobody yet.
<1>e. \A o \in Ops : o \notin created \/ o \in Live \ Queued =>
        o \notin deleted \cup ToSet(Waiting) \cup {Active}
  BY <1>a, WaitingFacts DEF Live
<1>f. ASSUME NEW o \in Live \ Queued, queue' = Append(queue, o),
             UNCHANGED <<activeOp, deleted, created>>
      PROVE  Abstract!Next
  <2>1. o \in Ops
    BY <1>a, <1>f DEF Live, OpTypes
  <2>2. IsActive' <=> IsActive
    BY <1>f DEF IsActive, Live
  <2>3. IsActive => Tail(Append(queue, o)) = Append(Tail(queue), o)
    BY <1>a, <2>1, WaitingFacts, BehindFront
  <2>4. Waiting' = Append(Waiting, o) /\ Active' = Active
    BY <1>f, <2>2, <2>3 DEF Waiting, Active
  <2>5. Abstract!Accept(o)
    BY <1>e, <1>f, <2>1, <2>4 DEF Abstract!Accept, Abstract!ToSet, ToSet
  <2> QED
    BY <2>1, <2>5 DEF Abstract!Next
<1>g. ASSUME NEW o \in Ops \ created, created' = created \cup {o},
             deleted' = deleted \cup {o}, UNCHANGED <<queue, activeOp>>
      PROVE  Abstract!Next
  <2>1. IsActive' <=> IsActive
    BY <1>a, <1>g, WaitingFacts DEF IsActive, Live
  <2>2. Waiting' = Waiting /\ Active' = Active
    BY <1>g, <2>1 DEF Waiting, Active
  <2>3. Abstract!Refuse(o)
    BY <1>e, <1>g, <2>2 DEF Abstract!Refuse, Abstract!ToSet, ToSet
  <2> QED
    BY <2>3 DEF Abstract!Next
<1>h. ASSUME IsActive, queue' = Tail(queue), deleted' = deleted \cup {Head(queue)},
             created' = created, activeOp' \in {activeOp, NullOp}
      PROVE  Abstract!Next
  <2>1. Head(queue) = activeOp /\ Active = activeOp /\ Waiting = Tail(queue) /\ Active # NullOp
    BY <1>h, WaitingFacts DEF Active, Waiting
  <2>2. ~IsActive'
    BY <1>a, <1>h, <2>1 DEF IsActive, Live
  <2>3. Active' = NullOp /\ Waiting' = Waiting
    BY <1>h, <2>1, <2>2 DEF Active, Waiting
  <2>4. Abstract!Retire
    BY <1>h, <2>1, <2>3 DEF Abstract!Retire
  <2> QED
    BY <2>4 DEF Abstract!Next
<1>i. ASSUME NEW i \in 1..Len(queue), queue' = RemoveAt(queue, i),
             deleted' = deleted \cup {queue[i]}, UNCHANGED <<activeOp, created>>,
             IsActive => i # 1
      PROVE  Abstract!Next
  <2>1. CASE IsActive
    <3>1. queue # <<>> /\ Head(queue) = activeOp /\ queue[i] # activeOp
      BY <1>a, <1>i, <2>1, QueueFacts, WaitingFacts
    <3>2. IsActive'
      BY <1>i, <2>1, <3>1 DEF IsActive, Live
    <3>3. /\ i - 1 \in 1..Len(Waiting) /\ Waiting[i - 1] = queue[i]
          /\ Waiting' = RemoveAt(Waiting, i - 1)
      BY <1>a, <1>i, <2>1, <3>1, <3>2, BehindFront DEF Waiting
    <3>4. Active' = Active
      BY <1>i, <2>1, <3>2 DEF Active
    <3>5. Abstract!Withdraw(i - 1)
      BY <1>i, <3>3, <3>4 DEF Abstract!Withdraw, Abstract!RemoveAt, RemoveAt
    <3> QED
      BY <3>3, <3>5 DEF Abstract!Next
  <2>2. CASE ~IsActive
    <3>1. ~IsActive'
      BY <1>i, <2>2 DEF IsActive, Live
    <3>2. Waiting = queue /\ Waiting' = RemoveAt(Waiting, i) /\ Active' = Active
      BY <1>i, <2>2, <3>1 DEF Waiting, Active
    <3>3. Abstract!Withdraw(i)
      BY <1>i, <3>2 DEF Abstract!Withdraw, Abstract!RemoveAt, RemoveAt
    <3> QED
      BY <3>2, <3>3 DEF Abstract!Next
  <2> QED
    BY <2>1, <2>2
<1> USE DEF queueVars, opVars, winVars, pcVars
<1>1. CASE Enter
  <2>1. CASE stopping \/ queue = <<>>
    BY <1>1, <2>1, Unseen DEF Enter
  <2>2. CASE ~stopping /\ queue # <<>>
    <3>1. /\ activeOp' = Head(queue)
          /\ UNCHANGED <<queue, created, deleted>> /\ ~IsActive
      BY <1>1, <1>c, <2>2 DEF Enter
    <3>2. IsActive'
      BY <1>a, <2>2, <3>1, QueueFacts DEF IsActive, Live, QueueInv, QueueHoldsLiveOps
    <3>3. /\ Active = NullOp /\ Waiting = queue
          /\ Active' = Head(queue) /\ Waiting' = Tail(queue)
      BY <3>1, <3>2 DEF Active, Waiting
    <3>4. Abstract!Activate
      BY <2>2, <3>1, <3>3 DEF Abstract!Activate
    <3> QED
      BY <3>4 DEF Abstract!Next
  <2> QED
    BY <2>1, <2>2
<1>2. CASE WakeUp
  BY <1>2, Unseen DEF WakeUp
<1>3. CASE MarkSent
  BY <1>3, Unseen DEF MarkSent
<1>4. CASE PostNotification
  BY <1>4, Unseen DEF PostNotification
<1>5. CASE AwaitAck
  BY <1>5, Unseen DEF AwaitAck
<1>6. CASE SetRunning
  BY <1>6, Unseen DEF SetRunning
<1>7. CASE StartExecution
  BY <1>7, Unseen DEF StartExecution
<1>8. CASE BeginPerform
  BY <1>8, Unseen DEF BeginPerform
<1>9. CASE ReportProgress
  BY <1>9, Unseen DEF ReportProgress
<1>10. CASE ClientReturn
  BY <1>10, Unseen DEF ClientReturn
<1>11. CASE FinishExecution
  BY <1>11, Unseen DEF FinishExecution
<1>12. CASE UnsetRunning
  BY <1>12, Unseen DEF UnsetRunning
<1>13. CASE Ended
  BY <1>13, Unseen DEF Ended
<1>14. CASE PopFront
  <2>1. IsActive
    BY <1>14, <1>a, QueueFacts DEF PopFront, IsActive, ThreadInv, Working, QueueInv,
      QueueHoldsLiveOps
  <2> QED
    BY <1>14, <1>h, <2>1 DEF PopFront
<1>15. CASE StopThread
  BY <1>15, Unseen DEF StopThread
<1>16. CASE HandleRowMessage
  BY <1>16, Unseen DEF HandleRowMessage
<1>17. CASE HandleEvent
  BY <1>17, Unseen DEF HandleEvent
<1>18. CASE AckNotification
  BY <1>18, Unseen DEF AckNotification
<1>19. CASE AddQueueOpPush
  <2>1. uop \in Live \ Queued
    BY <1>a, <1>19 DEF AddQueueOpPush, HolderInv
  <2> QED
    BY <1>19, <1>f, <2>1 DEF AddQueueOpPush, PushBack
<1>20. CASE AbortCall
  BY <1>20, Unseen DEF AbortCall
<1>21. CASE TeardownAbort
  BY <1>21, Unseen DEF TeardownAbort
<1>22. CASE AbortWrapper
  BY <1>22, Unseen DEF AbortWrapper
<1>23. CASE JoinThread
  BY <1>23, Unseen DEF JoinThread
<1>24. CASE DrainOne
  <2>1. /\ queue # <<>> /\ queue' = Tail(queue) /\ deleted' = deleted \cup {Head(queue)}
        /\ UNCHANGED <<activeOp, created>>
    BY <1>24 DEF DrainOne
  <2>2. CASE IsActive
    BY <1>h, <2>1, <2>2
  <2>3. CASE ~IsActive
    <3>1. 1 \in 1..Len(queue) /\ queue[1] = Head(queue) /\ RemoveAt(queue, 1) = Tail(queue)
      BY <1>a, <2>1, BehindFront
    <3> QED
      BY <1>i, <2>1, <2>3, <3>1
  <2> QED
    BY <2>2, <2>3
<1>25. CASE DeinitializeDone
  <2>1. queue = <<>> /\ activeOp' = NullOp /\ UNCHANGED <<queue, created, deleted>>
    BY <1>25 DEF DeinitializeDone, Drained
  <2>2. ~IsActive /\ ~IsActive'
    BY <1>a, <2>1, WaitingFacts DEF IsActive, Live
  <2> QED
    BY <2>1, <2>2 DEF Abstract!vars, Waiting, Active
<1>26. ASSUME NEW o \in Ops, AddQueueOp(o)
      PROVE  [Abstract!Next]_(Abstract!vars)
  <2>1. o \in Ops \ created /\ created' = created \cup {o} /\ UNCHANGED <<queue, activeOp>>
    BY <1>26 DEF AddQueueOp
  <2>2. CASE \E p \in Queued : Duplicate(o, p)
    BY <1>26, <1>g, <2>1, <2>2 DEF AddQueueOp
  <2>3. CASE ~\E p \in Queued : Duplicate(o, p)
    BY <1>26, <2>1, <2>3, Unseen DEF AddQueueOp
  <2> QED
    BY <2>2, <2>3
<1>27. ASSUME NEW i \in 1..Len(queue), CancelQueueOp(i)
      PROVE  [Abstract!Next]_(Abstract!vars)
  <2>1. /\ queue' = RemoveAt(queue, i) /\ deleted' = deleted \cup {queue[i]}
        /\ (performing => i # 1) /\ UNCHANGED <<activeOp, created>> /\ upc = "idle"
    BY <1>27 DEF CancelQueueOp, Cancelable
  <2> QED
    BY <1>d, <1>i, <2>1
<1>28. CASE AbortActive
  BY <1>28, Unseen DEF AbortActive
<1>29. CASE BeginTeardown
  BY <1>29, Unseen DEF BeginTeardown
<1>30. CASE ClearQueue
  <2>1. /\ queue' = Kept /\ deleted' = deleted \cup Dropped /\ UNCHANGED <<activeOp, created>>
        /\ upc \in {"idle", "tornDown"}
    BY <1>30 DEF ClearQueue
  <2>2. performing <=> IsActive
    BY <1>d, <2>1
  <2>3. Dropped = ToSet(Waiting)
    BY <2>2 DEF Dropped, Waiting
  <2>4. IsActive => /\ activeOp \notin Dropped /\ queue # <<>>
    BY <1>a, <2>3, WaitingFacts, QueueFacts DEF Waiting
  <2>5. IsActive' <=> IsActive
    BY <2>1, <2>4 DEF IsActive, Live
  <2>6. Waiting' = <<>> /\ Active' = Active
    BY <2>1, <2>2, <2>5 DEF Waiting, Active, Kept
  <2>7. Abstract!WithdrawAll
    BY <2>1, <2>3, <2>6 DEF Abstract!WithdrawAll, Abstract!ToSet, ToSet
  <2> QED
    BY <2>7 DEF Abstract!Next
<1>31. CASE Deinitialize
  BY <1>31, Unseen DEF Deinitialize
<1>32. CASE AdderAwaitAck
  BY <1>32, Unseen DEF AdderAwaitAck
<1>33. CASE AdderPush
  <2>1. aop \in Live \ Queued
    BY <1>a, <1>33 DEF AdderPush, HolderInv
  <2> QED
    BY <1>33, <1>f, <2>1 DEF AdderPush, PushBack
<1>34. ASSUME NEW o \in Ops, AdderRefused(o)
      PROVE  [Abstract!Next]_(Abstract!vars)
  BY <1>34, <1>g DEF AdderRefused, AdderCalls
<1>35. ASSUME NEW o \in Ops, TimerAdd(o)
      PROVE  [Abstract!Next]_(Abstract!vars)
  BY <1>35, Unseen DEF TimerAdd, AdderAccepted, AdderCalls
<1>36. ASSUME NEW o \in Ops, DispatcherAdd(o)
      PROVE  [Abstract!Next]_(Abstract!vars)
  BY <1>36, Unseen DEF DispatcherAdd, AdderAccepted, AdderCalls
<1>37. CASE DropNotification
  BY <1>37, Unseen DEF DropNotification
<1> QED
  BY <1>1, <1>2, <1>3, <1>4, <1>5, <1>6, <1>7, <1>8, <1>9, <1>10, <1>11,
    <1>12, <1>13, <1>14, <1>15, <1>16, <1>17, <1>18, <1>19, <1>20, <1>21,
    <1>22, <1>23, <1>24, <1>25, <1>26, <1>27, <1>28, <1>29, <1>30, <1>31,
    <1>32, <1>33, <1>34, <1>35, <1>36, <1>37 DEF Next, QueueThread, WindowThread,
    WindowRequest, AdderThread

\* Stuttering keeps LiveInv, and the first state has no operation.
LEMMA LiveKept ==
  /\ Init => LiveInv
  /\ IInv /\ LiveInv /\ [Next]_vars => LiveInv'
<1> USE OpsAssumption
<1>1. Init => LiveInv
  BY DEF Init, LiveInv, Live
<1>2. ASSUME LiveInv, UNCHANGED vars
      PROVE  LiveInv'
  BY <1>2 DEF LiveInv, Live, Queued, vars, queueVars, opVars, pcVars
<1> QED
  BY <1>1, <1>2, LiveStep

\* Every operation that was made and is not deleted is in m_queue or in the hands
\* of the thread that adds it: AddQueueOp, CancelQueueOp, ClearQueue and
\* Deinitialize lose none, and none is freed while it is reachable.
THEOREM NothingIsLost == Spec => []LiveInv
  BY LiveKept, Invariant, PTL DEF Spec

\* Once Deinitialize has returned no operation the queue accepted is left.
THEOREM CloseIsComplete == Spec => []ClosedLeavesNothing
<1>1. IInv => NullOp \notin Live
  BY OpsAssumption DEF IInv, TypeOK, OpTypes, Live
<1>2. queue = <<>> => Queued = {}
  BY DEF Queued, ToSet
<1>3. IInv /\ LiveInv => ClosedLeavesNothing
  BY <1>1, <1>2 DEF LiveInv, ClosedLeavesNothing
<1> QED
  BY <1>3, Invariant, NothingIsLost, PTL

\* The queue with its three threads implements the serial queue: operations
\* become active one at a time, in the order in which the pushes happened, and
\* what was performed, canceled or refused never comes back.
THEOREM QueueIsSerial == Spec => ImplementsSerialQueue
<1>1. Init => Abstract!Init
  BY OpsAssumption DEF Init, Abstract!Init, Waiting, Active, IsActive, Live
<1>2. ASSUME IInv, LiveInv, UNCHANGED vars
      PROVE  UNCHANGED Abstract!vars
  BY <1>2, Unseen DEF vars, queueVars, opVars
<1>3. IInv /\ LiveInv /\ IInv' /\ LiveInv' /\ [Next]_vars => [Abstract!Next]_(Abstract!vars)
  BY <1>2, RefinementStep
<1> QED
  BY <1>1, <1>3, Invariant, NothingIsLost, PTL DEF Spec, ImplementsSerialQueue, Abstract!Spec

-----------------------------------------------------------------------------
\* A step of a worker's queue, to which only the dispatch thread adds, keeps what
\* is known of its messages.
LEMMA WorkerStep ==
  ASSUME Role = "worker", AdderOps = Ops, IInv, LiveInv, WorkerInv, Next
  PROVE  WorkerInv'
<1> USE OpsAssumption
<1>a. /\ OpTypes /\ PcTypes /\ WindowTypes /\ queue \in Seq(Ops)
      /\ ThreadInv /\ HolderInv /\ QueueInv /\ LiveInv
      /\ OneAtATime /\ SendInv /\ MessageAwaited /\ MessageDrained
      /\ posted # <<>> => Head(posted) \in Message /\ Tail(posted) \in Seq(Message)
  BY DEF IInv, TypeOK, OpTypes, WorkerInv, WindowTypes
<1>b. NoMessage \notin Message
  BY DEF NoMessage, Message, Events
<1> USE DEF ThreadInv, HolderInv, QueueInv, QueueHoldsLiveOps, Live, LiveInv,
  OneAtATime, SendInv, MessageAwaited, MessageDrained, Undelivered, OpTypes,
  PcTypes, WindowTypes, QueuePcs, WindowPcs, AdderPcs, Working, Sending, EventAt,
  queueVars, opVars, winVars, pcVars
<1>1. CASE Enter
  BY <1>a, <1>1, QueueFacts DEF WorkerInv, Enter, Queued
<1>2. CASE WakeUp
  BY <1>a, <1>2 DEF WorkerInv, WakeUp, Queued
<1>3. CASE MarkSent
  BY <1>a, <1>3 DEF WorkerInv, MarkSent, Sending, EventAt, AfterSend, SendDone, Queued
<1>4. CASE PostNotification
  <2>1. qpc \in Sending /\ send = "post" /\ ~(upc \in {"idle", "abortCall"} /\ Undelivered)
    BY <1>a, <1>4 DEF PostNotification
  <2>2. CASE activeOp \in terminating
    BY <1>a, <1>4, <2>1, <2>2 DEF WorkerInv, PostNotification, AfterSend, SendDone, Queued
  <2>3. CASE activeOp \notin terminating
    <3> DEFINE m == [event |-> EventAt[qpc], op |-> activeOp]
    <3>1. posted' = Append(posted, m) /\ acked' = acked \ {activeOp} /\ send' = "wait" /\ qpc' = qpc
      BY <1>4, <2>3 DEF PostNotification
    <3>2. upc \in {"idle", "abortCall"} => posted' = <<m>> /\ handling = NoMessage
      <4>1. Append(<<>>, m) = <<m>>
        OBVIOUS
      <4> QED
        BY <2>1, <3>1, <4>1 DEF Undelivered
    <3>3. m.op = activeOp
      OBVIOUS
    <3> HIDE DEF m
    <3>4. upc \in {"idle", "abortCall"} => Head(posted') = m /\ Tail(posted') = <<>>
      <4>1. Head(<<m>>) = m /\ Tail(<<m>>) = <<>>
        OBVIOUS
      <4> QED
        BY <3>2, <4>1
    <3>5. MessageAwaited'
      BY <1>a, <1>4, <2>1, <3>1, <3>2, <3>3, <3>4 DEF PostNotification
    <3>6. activeOp \in Queued
      BY <1>a, <2>1, QueueFacts
    <3>7. MessageDrained' /\ OneAtATime'
      BY <1>a, <1>4, <2>1, <2>3, <3>1, <3>6 DEF PostNotification, Queued
    <3>8. SendInv'
      BY <1>a, <1>4, <2>1, <3>1 DEF PostNotification, Queued
    <3> QED
      BY <3>5, <3>7, <3>8 DEF WorkerInv
  <2> QED
    BY <2>2, <2>3
<1>5. CASE AwaitAck
  BY <1>a, <1>5 DEF WorkerInv, AwaitAck, Sending, EventAt, AfterSend, SendDone, Queued,
       Acknowledged
<1>6. CASE SetRunning
  BY <1>a, <1>6 DEF WorkerInv, SetRunning, Queued
<1>7. CASE StartExecution
  BY <1>a, <1>7 DEF WorkerInv, StartExecution, Queued
<1>8. CASE BeginPerform
  BY <1>a, <1>8 DEF WorkerInv, BeginPerform, Queued
<1>9. CASE ReportProgress
  BY <1>a, <1>9 DEF WorkerInv, ReportProgress, Queued
<1>10. CASE ClientReturn
  BY <1>a, <1>10 DEF WorkerInv, ClientReturn, Queued
<1>11. CASE FinishExecution
  BY <1>a, <1>11 DEF WorkerInv, FinishExecution, Queued, FinishedFrom
<1>12. CASE UnsetRunning
  BY <1>a, <1>12 DEF WorkerInv, UnsetRunning, Queued
<1>13. CASE Ended
  BY <1>a, <1>13 DEF WorkerInv, Ended, Queued
<1>14. CASE PopFront
  BY <1>a, <1>14, QueueFacts DEF WorkerInv, PopFront, Queued
<1>15. CASE StopThread
  BY <1>a, <1>15 DEF WorkerInv, StopThread, Queued
<1>16. CASE HandleRowMessage
  BY <1>a, <1>16 DEF WorkerInv, HandleRowMessage, MessageLoop, Queued
<1>17. CASE HandleEvent
  BY <1>a, <1>17 DEF WorkerInv, HandleEvent, MessageLoop, Queued
<1>18. CASE AckNotification
  BY <1>a, <1>18 DEF WorkerInv, AckNotification, Queued
<1>19. CASE AddQueueOpPush
  BY <1>a, <1>19, QueueFacts DEF WorkerInv, AddQueueOpPush, PushBack, Queued
<1>20. CASE AbortCall
  BY <1>a, <1>20 DEF WorkerInv, AbortCall, Queued
<1>21. CASE TeardownAbort
  BY <1>a, <1>21 DEF WorkerInv, TeardownAbort, Queued
<1>22. CASE AbortWrapper
  BY <1>a, <1>22 DEF WorkerInv, AbortWrapper, Queued
<1>23. CASE JoinThread
  BY <1>a, <1>23 DEF WorkerInv, JoinThread, Queued
<1>24. CASE DrainOne
  BY <1>a, <1>24, QueueFacts DEF WorkerInv, DrainOne, Queued, ClearPendingNotifications
<1>25. CASE DeinitializeDone
  BY <1>a, <1>25 DEF WorkerInv, DeinitializeDone, Queued, Drained
<1>26. ASSUME NEW o \in Ops, AddQueueOp(o)
      PROVE  WorkerInv'
  BY <1>a, <1>26, QueueFacts DEF WorkerInv, AddQueueOp, Queued
<1>27. ASSUME NEW i \in 1..Len(queue), CancelQueueOp(i)
      PROVE  WorkerInv'
  <2>1. queue # <<>> /\ i = 1 /\ RemoveAt(queue, 1) = Tail(queue)
    <3>1. queue # <<>>
      OBVIOUS
    <3>2. Len(Tail(queue)) = Len(queue) - 1 /\ Len(queue) \in Nat /\ Len(<<>>) = 0
      BY <1>a, <3>1
    <3>3. Len(queue) = 1
      <4>1. Tail(queue) = <<>>
        BY <1>a, <3>1
      <4>2. Len(queue) - 1 = 0
        BY <3>2, <4>1
      <4> QED
        BY <3>2, <4>2
    <3> QED
      BY <1>a, <3>1, <3>3, BehindFront
  <2>2. queue' = <<>> /\ upc = "idle" /\ ~performing
    BY <1>a, <1>27, <2>1 DEF CancelQueueOp, Cancelable
  <2>3. ~Undelivered /\ Queued' = {}
    BY <1>a, <2>2 DEF Queued, ToSet
  <2>4. notifSent' = [notifSent EXCEPT ![queue[i]] = @ \cup {"Remove"}] /\ queue[i] \in created
    BY <1>a, <1>27, QueueFacts DEF CancelQueueOp
  <2> QED
    BY <1>a, <1>27, <2>2, <2>3, <2>4 DEF CancelQueueOp, Queued, WorkerInv
<1>28. CASE AbortActive
  BY <1>a, <1>28 DEF WorkerInv, AbortActive, CancelExecutable, Queued
<1>29. CASE BeginTeardown
  <2>1. upc = "idle" /\ handling = NoMessage /\ apc = "idle" /\ apc' = apc /\ handling' = handling
    BY <1>29 DEF BeginTeardown, SchedulerMonitorFree
  <2>2. CASE performing
    BY <1>a, <1>29, <2>1, <2>2 DEF BeginTeardown, Queued, Terminate,
      ClearPendingNotifications, WorkerInv
  <2>3. CASE ~performing
    <3>1. qpc \notin Working /\ posted = <<>>
      BY <1>a, <2>1, <2>3
    <3> QED
      BY <1>a, <1>29, <2>1, <2>3, <3>1 DEF BeginTeardown, Queued, WorkerInv
  <2> QED
    BY <2>2, <2>3
<1>30. CASE ClearQueue
  <2>1. /\ performing => queue' = <<Head(queue)>> /\ queue # <<>> /\ Head(queue) = activeOp
        /\ ~performing => queue' = <<>> /\ deleted' = deleted \cup Queued
        /\ performing => deleted' = deleted \cup ToSet(Tail(queue))
    BY <1>a, QueueFacts, <1>30 DEF ClearQueue, Queued, Kept, Dropped
  <2>2. Queued' = IF performing THEN {Head(queue)} ELSE {}
    BY <2>1 DEF Queued, ToSet
  <2> QED
    BY <1>a, QueueFacts, <2>1, <2>2, <1>30 DEF WorkerInv, ClearQueue, Kept, Dropped
<1>31. CASE Deinitialize
  BY <1>a, <1>31, QueueFacts DEF WorkerInv, Deinitialize, Queued, Terminate
<1>32. CASE AdderAwaitAck
  BY <1>a, <1>32 DEF WorkerInv, AdderAwaitAck, Queued, Acknowledged
<1>33. CASE AdderPush
  BY <1>a, <1>33, QueueFacts DEF WorkerInv, AdderPush, PushBack, Queued
<1>34. ASSUME NEW o \in Ops, AdderRefused(o)
      PROVE  WorkerInv'
  BY <1>a, <1>34, QueueFacts DEF WorkerInv, AdderRefused, AdderCalls, Queued
<1>35. ASSUME NEW o \in Ops, TimerAdd(o)
      PROVE  WorkerInv'
  BY <1>a, <1>35, QueueFacts DEF WorkerInv, TimerAdd, AdderAccepted, AdderCalls, Queued
<1>36. ASSUME NEW o \in Ops, DispatcherAdd(o)
      PROVE  WorkerInv'
  BY <1>a, <1>36, QueueFacts DEF WorkerInv, DispatcherAdd, AdderAccepted, AdderCalls,
    Queued
<1>37. CASE DropNotification
  BY <1>a, <1>37 DEF WorkerInv, DropNotification, Queued
<1> QED
  BY <1>1, <1>2, <1>3, <1>4, <1>5, <1>6, <1>7, <1>8, <1>9, <1>10, <1>11,
    <1>12, <1>13, <1>14, <1>15, <1>16, <1>17, <1>18, <1>19, <1>20, <1>21,
    <1>22, <1>23, <1>24, <1>25, <1>26, <1>27, <1>28, <1>29, <1>30, <1>31,
    <1>32, <1>33, <1>34, <1>35, <1>36, <1>37 DEF Next, QueueThread, WindowThread,
    WindowRequest, AdderThread

\* In an upload worker's queue, to which only the dispatch thread adds, a message
\* the window finds is about an operation that is not deleted, also when the queue
\* was closed while the queue thread waited for the window.  (On the main queue
\* that is not so: Deinitialize looks only at what m_queue still holds.)
THEOREM WorkerMessagesAreLive ==
  ASSUME Role = "worker", AdderOps = Ops
  PROVE  Spec => []MessagesAreLive
<1> USE OpsAssumption
<1>1. ASSUME Init
      PROVE  WorkerInv
  <2>1. OneAtATime /\ MessageAwaited /\ MessageDrained
    BY <1>1 DEF Init, OneAtATime, MessageAwaited, MessageDrained, Undelivered, Working
  <2>2. SendInv
    BY <1>1 DEF Init, SendInv, Sending, EventAt, Queued, ToSet
  <2> QED
    BY <2>1, <2>2 DEF WorkerInv
<1>2. ASSUME WorkerInv, UNCHANGED vars
      PROVE  WorkerInv'
  BY <1>2 DEF WorkerInv, OneAtATime, SendInv, MessageAwaited, MessageDrained,
    Undelivered, Queued, vars, queueVars, opVars, winVars, pcVars
<1>3. IInv /\ LiveInv /\ WorkerInv /\ [Next]_vars => WorkerInv'
  BY <1>2, WorkerStep
<1>4. ASSUME IInv, WorkerInv
      PROVE  MessagesAreLive
  <2>1. posted \in Seq(Message) /\ queue \in Seq(Ops) /\ ThreadInv /\ QueueInv
        /\ MessageAwaited /\ MessageDrained /\ SendInv
    BY <1>4 DEF IInv, TypeOK, WindowTypes, OpTypes, WorkerInv
  <2>2. ASSUME upc = "idle", NEW i \in 1..Len(posted)
        PROVE  posted[i].op \in Live
    <3>1. posted # <<>>
      BY <2>2
    <3>2. send = "wait" /\ Tail(posted) = <<>> /\ Head(posted).op = activeOp
      BY <2>1, <2>2, <3>1 DEF MessageAwaited, Undelivered
    <3>3. /\ Len(posted) \in Nat /\ Len(Tail(posted)) = Len(posted) - 1
          /\ Head(posted) = posted[1] /\ Len(<<>>) = 0
      BY <2>1, <3>1
    <3>4. Len(posted) = 1
      <4>1. Len(posted) - 1 = 0
        BY <3>2, <3>3
      <4> QED
        BY <3>3, <4>1
    <3>5. activeOp \in Live
      <4>1. qpc \in Working
        BY <2>1, <3>2 DEF SendInv, Sending, EventAt, Working
      <4>2. queue # <<>> /\ Head(queue) = activeOp
        BY <2>1, <4>1 DEF ThreadInv
      <4> QED
        BY <2>1, <4>2, QueueFacts DEF QueueInv, QueueHoldsLiveOps
    <3> QED
      BY <2>2, <3>2, <3>3, <3>4, <3>5
  <2>3. upc = "closed" => posted = <<>>
    BY <2>1 DEF MessageDrained
  <2>4. Len(<<>>) = 0 /\ \A i : i \notin 1..0
    OBVIOUS
  <2> QED
    BY <2>2, <2>3, <2>4 DEF MessagesAreLive
<1> QED
  BY <1>1, <1>3, <1>4, Invariant, NothingIsLost, PTL DEF Spec
=============================================================================
