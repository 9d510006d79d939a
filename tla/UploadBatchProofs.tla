-------------------------- MODULE UploadBatchProofs --------------------------
(***************************************************************************)
(* Proofs about UploadBatch, for every number of files and of workers: the *)
(* batch is released by exactly those that hold it, every file is counted  *)
(* down once, the summary comes behind the last file and is exact.         *)
(***************************************************************************)
EXTENDS UploadBatch, FiniteSetTheorems, TLAPS

Batches == [completed : Nat, failed : Nat, canceled : Nat, remaining : Int,
            requested : BOOLEAN, unstarted : BOOLEAN, refs : Int, posted : Int]

\* What is taken off is an integer here; that it is no less than 0 follows.
BatchTypeOK ==
  /\ batch \in Batches
  /\ selected \subseteq Files
  /\ phase \in [Ops -> Phases]
  /\ canceled \subseteq Ops /\ terminating \subseteq Ops
  /\ result \in [Ops -> {"ok", "error"}]
  /\ session \in {"open", "closing", "joining", "closed"}
  /\ dispatched \in BOOLEAN
  /\ shown \in Int

\* Nothing happens before the batch is queued, and no file moves before it is
\* dispatched; a batch is dispatched or given up, never both.
DispatchInv ==
  /\ phase[Prepare] = "none" =>
       /\ \A o \in Ops : phase[o] = "none"
       /\ dispatched = FALSE
       /\ batch = NoBatch
  /\ \A f \in Files : phase[f] # "none" <=> dispatched = TRUE /\ f \in selected
  /\ \A f \in Files \cap canceled : phase[f] \notin {"none", "waiting"}
  /\ dispatched = TRUE =>
       /\ phase[Prepare] \in {"ended", "terminal", "gone"}
       /\ result[Prepare] = "ok" /\ Prepare \notin canceled
       /\ batch.unstarted = FALSE
  /\ batch.unstarted = TRUE /\ session = "open" => phase[Prepare] \in {"terminal", "gone"}
  /\ phase[Prepare] # "last" /\ phase[Complete] # "last"
  /\ session = "open" => terminating = {}

\* The summary is requested once, when nothing remains.
RequestInv ==
  /\ batch.requested = TRUE =>
       batch.remaining = 0 /\ phase[Prepare] # "none"
       /\ (batch.unstarted = TRUE \/ dispatched = TRUE)
  /\ batch.posted \in {0, 1}
  /\ batch.posted = 1 => batch.requested = TRUE /\ phase[Complete] = "none"
  /\ phase[Complete] # "none" => batch.requested = TRUE
  /\ shown \in {0, 1}
  /\ shown = 1 => phase[Complete] \in {"ended", "terminal", "gone"}

\* The files that are counted in the summary while the session is open.
Over == {f \in selected : phase[f] \in {"last", "terminal", "gone"}}
Counted == {f \in selected : f \in canceled \/ phase[f] \in {"ended", "last", "terminal", "gone"}}
Sum == batch.completed + batch.failed + batch.canceled

SumInv ==
  /\ session = "open" =>
       Sum = IF batch.unstarted = TRUE THEN Selected ELSE Cardinality(Counted)
  /\ shown = 1 => Sum = Selected

IInv == BatchTypeOK /\ DispatchInv /\ RequestInv /\ ReferencesAreHeld /\ RemainingIsExact /\ SumInv

-----------------------------------------------------------------------------
\* Finite sets: the operations, and the counted ones.
LEMMA SetsAreFinite ==
  ASSUME BatchTypeOK
  PROVE  /\ IsFiniteSet(Ops) /\ IsFiniteSet(Files) /\ IsFiniteSet(selected)
         /\ IsFiniteSet(Live) /\ IsFiniteSet(Over) /\ IsFiniteSet(Counted)
<1>1. IsFiniteSet(Files)
  BY BatchAssumption
<1>2. IsFiniteSet({Prepare, Complete})
  <2>1. IsFiniteSet({Prepare}) /\ {Prepare, Complete} = {Prepare} \cup {Complete}
    BY FS_Singleton
  <2> QED
    BY <2>1, FS_AddElement
<1>3. IsFiniteSet(Ops)
  BY <1>1, <1>2, FS_Union DEF Ops
<1>4. Live \subseteq Ops /\ selected \subseteq Files /\ Over \subseteq Files /\ Counted \subseteq Files
  BY DEF Live, Over, Counted, BatchTypeOK
<1>5. IsFiniteSet(Live)
  BY <1>3, <1>4, FS_Subset
<1>6. IsFiniteSet(selected) /\ IsFiniteSet(Over) /\ IsFiniteSet(Counted)
  BY <1>1, <1>4, FS_Subset
<1> QED
  BY <1>1, <1>3, <1>5, <1>6

\* RequestCompletionIfReady changes a batch only the first time nothing remains.
LEMMA RequestFacts ==
  ASSUME NEW b \in Batches
  PROVE  LET c == RequestCompletionIfReady(b) IN
         /\ c \in Batches
         /\ c.completed = b.completed /\ c.failed = b.failed /\ c.canceled = b.canceled
         /\ c.remaining = b.remaining /\ c.unstarted = b.unstarted
         /\ b.requested = TRUE \/ b.remaining # 0 => c = b
         /\ b.requested = FALSE /\ b.remaining = 0 =>
              c.requested = TRUE /\ c.posted = b.posted + 1 /\ c.refs = b.refs + 1
<1> DEFINE c == RequestCompletionIfReady(b)
<1>1. b.requested \in BOOLEAN /\ b.remaining \in Int
  BY DEF Batches
<1>2. CASE b.requested = TRUE \/ b.remaining # 0
  <2>1. ~(b.remaining = 0 /\ ~b.requested)
    BY <1>2
  <2>2. c = b
    BY <2>1 DEF RequestCompletionIfReady
  <2> QED
    BY <1>2, <2>2
<1>3. CASE b.requested = FALSE /\ b.remaining = 0
  <2>1. b.remaining = 0 /\ ~b.requested
    BY <1>3
  <2>2. c = [b EXCEPT !.requested = TRUE, !.posted = @ + 1, !.refs = @ + 1]
    BY <2>1 DEF RequestCompletionIfReady
  <2> HIDE DEF c
  <2>3. c \in Batches
    <3> DEFINE b1 == [b EXCEPT !.requested = TRUE]
               b2 == [b1 EXCEPT !.posted = @ + 1]
    <3>1. b1 \in Batches /\ b1.posted = b.posted /\ b1.refs = b.refs
      BY DEF Batches
    <3>2. c = [b2 EXCEPT !.refs = @ + 1]
      BY <2>2 DEF Batches
    <3> HIDE DEF b1
    <3>3. b2 \in Batches
      BY <3>1 DEF Batches
    <3> HIDE DEF b2
    <3> QED
      BY <3>2, <3>3 DEF Batches
  <2>4. /\ c.completed = b.completed /\ c.failed = b.failed /\ c.canceled = b.canceled
        /\ c.remaining = b.remaining /\ c.posted = b.posted + 1 /\ c.refs = b.refs + 1
    BY <2>2 DEF Batches
  <2>5. c.unstarted = b.unstarted
    BY <2>2 DEF Batches
  <2>6. c.requested = TRUE
    BY <2>2 DEF Batches
  <2> QED
    BY <1>3, <2>3, <2>4, <2>5, <2>6 DEF c
<1> QED
  BY <1>1, <1>2, <1>3

\* CountDown takes the files off what remains, and nothing else.
LEMMA CountDownFacts ==
  ASSUME NEW b \in Batches, NEW S, IsFiniteSet(S)
  PROVE  LET c == CountDown(b, S) IN
         /\ c \in Batches
         /\ c.completed = b.completed /\ c.failed = b.failed /\ c.canceled = b.canceled
         /\ c.unstarted = b.unstarted /\ c.requested = b.requested
         /\ c.refs = b.refs /\ c.posted = b.posted
         /\ Cardinality(S) <= b.remaining => c.remaining = b.remaining - Cardinality(S)
<1>1. Cardinality(S) \in Int
  BY FS_CardinalityType
<1> QED
  BY <1>1 DEF CountDown, Batches

\* RecordCanceled counts the files as canceled.
LEMMA RecordFacts ==
  ASSUME NEW b \in Batches, NEW S, IsFiniteSet(S)
  PROVE  LET c == RecordCanceled(b, S) IN
         /\ c \in Batches
         /\ c.completed = b.completed /\ c.failed = b.failed
         /\ c.canceled = b.canceled + Cardinality(S)
         /\ c.remaining = b.remaining /\ c.unstarted = b.unstarted /\ c.requested = b.requested
         /\ c.refs = b.refs /\ c.posted = b.posted
<1>1. Cardinality(S) \in Nat
  BY FS_CardinalityType
<1> QED
  BY <1>1 DEF RecordCanceled, Batches

\* Release gives n references back.
LEMMA ReleaseFacts ==
  ASSUME NEW b \in Batches, NEW n \in Int
  PROVE  LET c == Release(b, n) IN
         /\ c \in Batches
         /\ c.completed = b.completed /\ c.failed = b.failed /\ c.canceled = b.canceled
         /\ c.remaining = b.remaining /\ c.unstarted = b.unstarted /\ c.requested = b.requested
         /\ c.refs = b.refs - n /\ c.posted = b.posted
  BY DEF Release, Batches

\* CancelUnstartedSelectedFiles, when every selected file still remains.
LEMMA UnstartedFacts ==
  ASSUME BatchTypeOK, NEW b \in Batches, b.remaining = Selected, b.unstarted = FALSE, b.requested = FALSE
  PROVE  LET c == CancelUnstartedSelectedFiles(b) IN
         /\ c \in Batches
         /\ c.completed = b.completed /\ c.failed = b.failed
         /\ c.canceled = b.canceled + Selected
         /\ c.remaining = 0 /\ c.unstarted = TRUE /\ c.requested = TRUE
         /\ c.refs = b.refs + 1 /\ c.posted = b.posted + 1
<1> DEFINE b0 == [b EXCEPT !.unstarted = TRUE]
           b1 == RecordCanceled(b0, selected)
           b2 == CountDown(b1, selected)
<1>0. IsFiniteSet(selected) /\ Selected \in Nat
  BY SetsAreFinite, FS_CardinalityType DEF Selected
<1>1. /\ b0 \in Batches /\ b0.unstarted = TRUE
      /\ b0.completed = b.completed /\ b0.failed = b.failed /\ b0.canceled = b.canceled
      /\ b0.remaining = b.remaining /\ b0.requested = b.requested
      /\ b0.refs = b.refs /\ b0.posted = b.posted
  BY DEF Batches
<1> HIDE DEF b0
<1>2. /\ b1 \in Batches /\ b1.unstarted = TRUE
      /\ b1.completed = b.completed /\ b1.failed = b.failed /\ b1.canceled = b.canceled + Selected
      /\ b1.remaining = Selected /\ b1.requested = FALSE
      /\ b1.refs = b.refs /\ b1.posted = b.posted
  BY <1>0, <1>1, RecordFacts DEF Selected
<1> HIDE DEF b1
<1>3. /\ b2 \in Batches /\ b2.unstarted = TRUE
      /\ b2.completed = b.completed /\ b2.failed = b.failed /\ b2.canceled = b.canceled + Selected
      /\ b2.remaining = 0 /\ b2.requested = FALSE
      /\ b2.refs = b.refs /\ b2.posted = b.posted
  <2>1. Cardinality(selected) <= b1.remaining /\ b1.remaining - Cardinality(selected) = 0
    BY <1>0, <1>2 DEF Selected
  <2> QED
    BY <1>0, <1>2, <2>1, CountDownFacts
<1>4. CancelUnstartedSelectedFiles(b) = RequestCompletionIfReady(b2)
  BY Zenon DEF CancelUnstartedSelectedFiles, b2, b1, b0
<1> HIDE DEF b2
<1> DEFINE c == RequestCompletionIfReady(b2)
<1>5. /\ c \in Batches
      /\ c.completed = b2.completed /\ c.failed = b2.failed /\ c.canceled = b2.canceled
      /\ c.remaining = b2.remaining /\ c.unstarted = b2.unstarted
      /\ c.requested = TRUE /\ c.posted = b2.posted + 1 /\ c.refs = b2.refs + 1
  <2>1. b2 \in Batches /\ b2.requested = FALSE /\ b2.remaining = 0
    BY <1>3
  <2> QED
    BY <2>1, RequestFacts
<1> HIDE DEF c
<1>6. c = CancelUnstartedSelectedFiles(b)
  BY <1>4 DEF c
<1> QED
  BY <1>3, <1>5, <1>6

-----------------------------------------------------------------------------
\* What Move does to the phases.
LEMMA MoveFacts ==
  ASSUME BatchTypeOK, NEW o \in Ops, NEW from, NEW to \in Phases, Move(o, from, to)
  PROVE  /\ phase[o] = from /\ phase'[o] = to /\ phase' \in [Ops -> Phases]
         /\ \A p \in Ops \ {o} : phase'[p] = phase[p]
  BY DEF Move, BatchTypeOK

\* Preparation, summary and files are different operations.
LEMMA Different == Prepare \in Ops /\ Complete \in Ops /\ Prepare # Complete
                   /\ Files \subseteq Ops /\ Prepare \notin Files /\ Complete \notin Files
  BY BatchAssumption DEF Ops

\* A step that leaves the batch, what is canceled and what is shown, and begins or
\* ends no operation, nor the part of it that is counted.
LEMMA QuietStep ==
  ASSUME IInv, BatchTypeOK',
         UNCHANGED <<selected, canceled, dispatched, batch, shown>>,
         \A o \in Ops : (phase'[o] = "none" <=> phase[o] = "none")
                        /\ (phase'[o] = "gone" <=> phase[o] = "gone")
                        /\ (phase'[o] = "waiting" => phase[o] = "waiting"),
         \A o \in Ops : phase[o] = "ended" => phase'[o] \in {"ended", "terminal"},
         \A o \in Ops : phase[o] = "terminal" => phase'[o] = "terminal",
         \A f \in Files : phase'[f] \in {"last", "terminal", "gone"}
                          <=> phase[f] \in {"last", "terminal", "gone"},
         phase'[Prepare] # "last", phase'[Complete] # "last",
         session' = "open" => /\ session = "open" /\ terminating' = {}
                              /\ \A f \in Files : phase'[f] = "ended" <=> phase[f] = "ended",
         phase[Prepare] = "running" \/ result'[Prepare] = result[Prepare]
  PROVE  IInv'
<1> USE Different
<1>1. Live' = Live
  BY DEF Live
<1>2. Over' = Over
  BY DEF Over, IInv, BatchTypeOK
<1>3. session' = "open" => Counted' = Counted
  BY DEF Counted, IInv, BatchTypeOK
<1>4. DispatchInv'
  BY DEF IInv, DispatchInv
<1>5. RequestInv'
  BY DEF IInv, RequestInv
<1>6. ReferencesAreHeld' /\ RemainingIsExact'
  BY <1>1, <1>2 DEF IInv, ReferencesAreHeld, RemainingIsExact, Over, Selected
<1>7. SumInv'
  BY <1>3 DEF IInv, SumInv, Sum, Selected
<1> QED
  BY <1>4, <1>5, <1>6, <1>7 DEF IInv

-----------------------------------------------------------------------------
\* The threads, as far as they only move their operation on.
LEMMA QuietActions ==
  ASSUME IInv,
         \/ \E o \in Ops : \/ Pick(o) \/ StartExecution(o) \/ BeginPerform(o) \/ SendEnd(o)
                           \/ \E r \in {"ok", "error"} : Perform(o, r)
         \/ CompleteTerminal \/ StopThreads \/ UNCHANGED vars
  PROVE  IInv'
<1> USE Different
<1>0. BatchTypeOK
  BY DEF IInv
<1>1. ASSUME NEW o \in Ops, Pick(o) \/ StartExecution(o) \/ BeginPerform(o) \/ SendEnd(o)
      PROVE  IInv'
  <2>1. \E from \in {"waiting", "picked", "starting", "performed"},
           to \in {"picked", "starting", "running", "performed", "ending", "ended"} : Move(o, from, to)
    BY <1>1 DEF Pick, StartExecution, BeginPerform, SendEnd
  <2>2. /\ phase[o] \in {"waiting", "picked", "starting", "performed"}
        /\ phase'[o] \in {"picked", "starting", "running", "performed", "ending", "ended"}
        /\ phase' \in [Ops -> Phases] /\ \A p \in Ops \ {o} : phase'[p] = phase[p]
    BY <1>0, <2>1, MoveFacts DEF Phases
  <2>3. UNCHANGED <<selected, canceled, result, terminating, dispatched, batch, session, shown>>
    BY <1>1 DEF Pick, StartExecution, BeginPerform, SendEnd
  <2>4. session = "open" => phase'[o] # "ended"
    <3>1. session = "open" => terminating = {}
      BY DEF IInv, DispatchInv
    <3> QED
      BY <1>0, <1>1, <3>1, MoveFacts DEF Pick, StartExecution, BeginPerform, SendEnd, Phases
  <2>5. BatchTypeOK'
    BY <1>0, <2>2, <2>3 DEF BatchTypeOK
  <2>6. session' = "open" => terminating' = {}
    BY <2>3 DEF IInv, DispatchInv
  <2> QED
    BY <2>2, <2>3, <2>4, <2>5, <2>6, QuietStep DEF IInv, DispatchInv
<1>2. ASSUME NEW o \in Ops, NEW r \in {"ok", "error"}, Perform(o, r)
      PROVE  IInv'
  <2>1. /\ phase[o] = "running" /\ phase'[o] = "performed"
        /\ phase' \in [Ops -> Phases] /\ \A p \in Ops \ {o} : phase'[p] = phase[p]
    BY <1>0, <1>2, MoveFacts DEF Perform, Phases
  <2>2. /\ UNCHANGED <<selected, canceled, terminating, dispatched, batch, session, shown>>
        /\ result' \in [Ops -> {"ok", "error"}]
        /\ phase[Prepare] = "running" \/ result'[Prepare] = result[Prepare]
    BY <1>0, <1>2, <2>1 DEF Perform, BatchTypeOK
  <2>3. BatchTypeOK'
    BY <1>0, <2>1, <2>2 DEF BatchTypeOK
  <2>4. session' = "open" => terminating' = {}
    BY <2>2 DEF IInv, DispatchInv
  <2> QED
    BY <2>1, <2>2, <2>3, <2>4, QuietStep DEF IInv, DispatchInv
<1>3. CASE CompleteTerminal
  <2>1. /\ phase[Complete] = "ended" /\ phase'[Complete] = "terminal"
        /\ phase' \in [Ops -> Phases] /\ \A p \in Ops \ {Complete} : phase'[p] = phase[p]
    BY <1>0, <1>3, MoveFacts DEF CompleteTerminal, Phases
  <2>2. UNCHANGED <<selected, canceled, result, terminating, dispatched, batch, session, shown>>
    BY <1>3 DEF CompleteTerminal
  <2>3. BatchTypeOK'
    BY <1>0, <2>1, <2>2 DEF BatchTypeOK
  <2>4. session' = "open" => terminating' = {}
    BY <2>2 DEF IInv, DispatchInv
  <2> QED
    BY <2>1, <2>2, <2>3, <2>4, QuietStep DEF IInv, DispatchInv
<1>4. CASE StopThreads
  <2>1. /\ UNCHANGED <<selected, canceled, result, dispatched, batch, shown>>
        /\ session' = "joining" /\ terminating' \subseteq Ops
        /\ phase' = [o \in Ops |-> IF o \in Live /\ phase[o] = "ending" THEN "ended" ELSE phase[o]]
    BY <1>0, <1>4 DEF StopThreads, Stop, BatchTypeOK, Live
  <2>2. BatchTypeOK'
    BY <1>0, <2>1 DEF BatchTypeOK, Phases
  <2>3. \A o \in Ops : phase'[o] = phase[o] \/ (phase[o] = "ending" /\ phase'[o] = "ended")
    BY <2>1
  <2> QED
    BY <2>1, <2>2, <2>3, QuietStep DEF IInv, DispatchInv
<1>5. CASE UNCHANGED vars
  BY <1>5 DEF vars, IInv, BatchTypeOK, DispatchInv, RequestInv, ReferencesAreHeld, RemainingIsExact,
              SumInv, Sum, Counted, Live, Selected
<1> QED
  BY <1>1, <1>2, <1>3, <1>4, <1>5

-----------------------------------------------------------------------------
\* Before a batch is dispatched or given up, nothing of it is counted.
LEMMA NotStarted ==
  ASSUME IInv, phase[Prepare] # "none", dispatched = FALSE, batch.unstarted = FALSE
  PROVE  /\ batch.requested = FALSE /\ batch.remaining = Selected /\ batch.posted = 0
         /\ phase[Complete] = "none" /\ shown = 0
         /\ Over = {} /\ Counted = {}
         /\ session = "open" => Sum = 0
<1>1. batch.requested = FALSE
  BY DEF IInv, RequestInv, BatchTypeOK, Batches
<1>2. batch.posted = 0 /\ phase[Complete] = "none"
  BY <1>1 DEF IInv, RequestInv
<1>3. shown = 0
  BY <1>2 DEF IInv, RequestInv
<1>4. Over = {} /\ Counted = {}
  BY DEF IInv, DispatchInv, Over, Counted, BatchTypeOK
<1>5. Cardinality({}) = 0 /\ Selected \in Int
  BY FS_EmptySet, FS_CardinalityType, SetsAreFinite DEF IInv, Selected
<1>6. batch.remaining = Selected
  <2>1. batch.remaining = Selected - Cardinality(Over)
    BY DEF IInv, RemainingIsExact, Over
  <2> QED
    BY <1>4, <1>5, <2>1
<1>7. session = "open" => Sum = 0
  BY <1>4, <1>5 DEF IInv, SumInv
<1> QED
  BY <1>1, <1>2, <1>3, <1>4, <1>6, <1>7

\* When the summary was requested, every file is counted and over.
LEMMA RequestedIsOver ==
  ASSUME IInv, batch.requested = TRUE
  PROVE  /\ batch.unstarted = TRUE \/ (Over = selected /\ Counted = selected)
         /\ session = "open" => Sum = Selected
         /\ \A f \in Files : phase[f] \in {"none", "last", "terminal", "gone"}
<1> USE Different
<1>0. IsFiniteSet(selected) /\ IsFiniteSet(Over) /\ Selected \in Int /\ Cardinality(Over) \in Int
  BY SetsAreFinite, FS_CardinalityType DEF IInv, Selected
<1>1. CASE batch.unstarted = TRUE
  <2>1. \A f \in Files : phase[f] = "none"
    BY <1>1 DEF IInv, DispatchInv
  <2> QED
    BY <1>1, <2>1 DEF IInv, SumInv
<1>2. CASE batch.unstarted = FALSE
  <2>1. batch.remaining = Selected - Cardinality(Over) /\ batch.remaining = 0
    BY <1>2 DEF IInv, RequestInv, RemainingIsExact, Over
  <2>2. Over \in SUBSET selected
    BY DEF Over
  <2>3. Over = selected
    BY <1>0, <2>1, <2>2, FS_Subset DEF Selected
  <2>4. Counted = selected
    BY <2>3 DEF Over, Counted
  <2>5. \A f \in Files : phase[f] \in {"none", "last", "terminal", "gone"}
    BY <2>3 DEF Over, IInv, DispatchInv
  <2>6. session = "open" => Sum = Selected
    BY <1>2, <2>4 DEF IInv, SumInv, Selected
  <2> QED
    BY <2>3, <2>4, <2>5, <2>6
<1> QED
  BY <1>1, <1>2 DEF IInv, BatchTypeOK, Batches

\* A file that is not over yet was dispatched, is selected, and remains.
LEMMA FileRemains ==
  ASSUME IInv, NEW f \in Files, phase[f] \notin {"none", "last", "terminal", "gone"}
  PROVE  /\ f \in selected /\ dispatched = TRUE /\ batch.unstarted = FALSE
         /\ phase[Prepare] # "none"
         /\ batch.requested = FALSE /\ batch.posted = 0 /\ phase[Complete] = "none" /\ shown = 0
         /\ batch.remaining = Selected - Cardinality(Over)
         /\ batch.remaining >= 1
         /\ f \notin Over
<1>1. f \in selected /\ dispatched = TRUE /\ batch.unstarted = FALSE /\ phase[Prepare] # "none"
  BY DEF IInv, DispatchInv
<1>2. batch.requested = FALSE
  BY RequestedIsOver DEF IInv, BatchTypeOK, Batches
<1>3. batch.posted = 0 /\ phase[Complete] = "none" /\ shown = 0
  BY <1>2 DEF IInv, RequestInv
<1>4. f \notin Over /\ Over \in SUBSET selected
  BY DEF Over
<1>5. batch.remaining = Selected - Cardinality(Over)
  BY <1>1 DEF IInv, RemainingIsExact, Over
<1>6. /\ Selected \in Int /\ Cardinality(Over) \in Int
      /\ Cardinality(Over) <= Selected /\ Cardinality(Over) # Selected
  BY <1>1, <1>4, SetsAreFinite, FS_CardinalityType, FS_Subset DEF IInv, Selected
<1> QED
  BY <1>1, <1>2, <1>3, <1>4, <1>5, <1>6

-----------------------------------------------------------------------------
\* The end of a file: counted down once.
LEMMA FileTerminalStep ==
  ASSUME IInv, NEW f \in Files, FileTerminal(f)
  PROVE  IInv'
<1> USE Different
<1>0. BatchTypeOK /\ IsFiniteSet({f}) /\ Cardinality({f}) = 1 /\ batch \in Batches
  BY FS_Singleton DEF IInv, BatchTypeOK
<1>1. /\ phase[f] = "ended" /\ phase'[f] \in {"last", "terminal"}
      /\ phase' \in [Ops -> Phases] /\ \A p \in Ops \ {f} : phase'[p] = phase[p]
  BY <1>0, MoveFacts DEF FileTerminal, Phases
<1>2. UNCHANGED <<selected, canceled, result, terminating, dispatched, session, shown>>
  BY DEF FileTerminal
<1>3. /\ f \in selected /\ dispatched = TRUE /\ batch.unstarted = FALSE
      /\ batch.requested = FALSE /\ batch.posted = 0 /\ phase[Complete] = "none" /\ shown = 0
      /\ batch.remaining = Selected - Cardinality(Over) /\ batch.remaining >= 1
      /\ f \notin Over
  BY <1>1, FileRemains
<1>4. /\ batch' \in Batches
      /\ batch'.completed = batch.completed /\ batch'.failed = batch.failed
      /\ batch'.canceled = batch.canceled
      /\ batch'.unstarted = FALSE /\ batch'.requested = FALSE
      /\ batch'.refs = batch.refs /\ batch'.posted = 0
      /\ batch'.remaining = batch.remaining - 1
  <2>1. batch' = CountDown(batch, {f})
    BY DEF FileTerminal
  <2>2. Cardinality({f}) <= batch.remaining
    BY <1>0, <1>3
  <2> QED
    BY <1>0, <1>3, <2>1, <2>2, CountDownFacts
<1>5. Live' = Live /\ Counted' = Counted /\ Over' = Over \cup {f}
  BY <1>0, <1>1, <1>2, <1>3 DEF Live, Counted, Over, BatchTypeOK
<1>6. Cardinality(Over') = Cardinality(Over) + 1 /\ Selected' = Selected /\ Selected \in Int
      /\ Cardinality(Over) \in Int
  BY <1>0, <1>2, <1>3, <1>5, SetsAreFinite, FS_AddElement, FS_CardinalityType, SMTT(30) DEF Selected
<1>7. BatchTypeOK'
  BY <1>0, <1>1, <1>2, <1>4 DEF BatchTypeOK
<1>8. DispatchInv'
  BY <1>1, <1>2, <1>3, <1>4 DEF IInv, DispatchInv
<1>9. RequestInv'
  BY <1>1, <1>2, <1>3, <1>4 DEF IInv, RequestInv
<1>10. ReferencesAreHeld'
  BY <1>3, <1>4, <1>5 DEF IInv, ReferencesAreHeld
<1>11. RemainingIsExact'
  BY <1>3, <1>4, <1>6 DEF RemainingIsExact, Over
<1>12. SumInv'
  BY <1>2, <1>3, <1>4, <1>5, <1>6 DEF IInv, SumInv, Sum
<1> QED
  BY <1>7, <1>8, <1>9, <1>10, <1>11, <1>12 DEF IInv

\* The thread that counted down to zero requests the summary.
LEMMA RequestCompletionStep ==
  ASSUME IInv, NEW f \in Files, RequestCompletion(f)
  PROVE  IInv'
<1> USE Different
<1>0. BatchTypeOK /\ batch \in Batches
  BY DEF IInv, BatchTypeOK
<1>1. /\ phase[f] = "last" /\ phase'[f] = "terminal"
      /\ phase' \in [Ops -> Phases] /\ \A p \in Ops \ {f} : phase'[p] = phase[p]
  BY <1>0, MoveFacts DEF RequestCompletion, Phases
<1>2. UNCHANGED <<selected, canceled, result, terminating, dispatched, session, shown>>
  BY DEF RequestCompletion
<1>3. dispatched = TRUE /\ batch.unstarted = FALSE /\ phase[Prepare] # "none"
  BY <1>1 DEF IInv, DispatchInv
<1>4. batch' = RequestCompletionIfReady(batch)
  BY DEF RequestCompletion
<1>5. /\ batch' \in Batches
      /\ batch'.completed = batch.completed /\ batch'.failed = batch.failed
      /\ batch'.canceled = batch.canceled
      /\ batch'.unstarted = FALSE /\ batch'.remaining = batch.remaining
  BY <1>0, <1>3, <1>4, RequestFacts
<1>6. \/ batch' = batch
      \/ /\ batch.requested = FALSE /\ batch.remaining = 0 /\ batch'.requested = TRUE
         /\ batch'.posted = batch.posted + 1 /\ batch'.refs = batch.refs + 1
  <2>1. batch.requested \in BOOLEAN /\ batch.remaining \in Int
    BY <1>0 DEF Batches
  <2> QED
    BY <1>0, <1>4, <2>1, RequestFacts
<1>7. Live' = Live /\ Counted' = Counted /\ Over' = Over
  BY <1>0, <1>1, <1>2 DEF Live, Counted, Over, BatchTypeOK
<1>8. BatchTypeOK'
  BY <1>0, <1>1, <1>2, <1>5 DEF BatchTypeOK
<1>9. DispatchInv'
  BY <1>1, <1>2, <1>3, <1>5 DEF IInv, DispatchInv
<1>10. RequestInv'
  BY <1>1, <1>2, <1>3, <1>5, <1>6 DEF IInv, RequestInv
<1>11. ReferencesAreHeld'
  BY <1>0, <1>6, <1>7, SetsAreFinite, FS_CardinalityType, SMTT(30) DEF IInv, ReferencesAreHeld, Batches
<1>12. RemainingIsExact'
  BY <1>1, <1>2, <1>3, <1>5, <1>7 DEF IInv, RemainingIsExact, Over, Selected
<1>13. SumInv'
  BY <1>2, <1>3, <1>5, <1>7 DEF IInv, SumInv, Sum, Selected
<1> QED
  BY <1>8, <1>9, <1>10, <1>11, <1>12, <1>13 DEF IInv

\* The deletion of an operation, which gives one reference back.
LEMMA DeleteStep ==
  ASSUME IInv, NEW o \in Ops, Delete(o)
  PROVE  IInv'
<1> USE Different
<1>0. BatchTypeOK /\ batch \in Batches
  BY DEF IInv, BatchTypeOK
<1>1. /\ phase[o] = "terminal" /\ phase'[o] = "gone"
      /\ phase' \in [Ops -> Phases] /\ \A p \in Ops \ {o} : phase'[p] = phase[p]
  BY <1>0, MoveFacts DEF Delete, Phases
<1>2. UNCHANGED <<selected, canceled, result, terminating, dispatched, session, shown>>
  BY DEF Delete
<1>3. /\ batch' \in Batches
      /\ batch'.completed = batch.completed /\ batch'.failed = batch.failed
      /\ batch'.canceled = batch.canceled /\ batch'.remaining = batch.remaining
      /\ batch'.unstarted = batch.unstarted /\ batch'.requested = batch.requested
      /\ batch'.refs = batch.refs - 1 /\ batch'.posted = batch.posted
  BY <1>0, ReleaseFacts DEF Delete
<1>4. o \in Live /\ Live' = Live \ {o} /\ Counted' = Counted /\ Over' = Over
  BY <1>0, <1>1, <1>2 DEF Live, Counted, Over, BatchTypeOK
<1>5. Cardinality(Live') = Cardinality(Live) - 1 /\ Cardinality(Live) \in Int
  BY <1>0, <1>4, SetsAreFinite, FS_RemoveElement, FS_CardinalityType
<1>6. BatchTypeOK'
  BY <1>0, <1>1, <1>2, <1>3 DEF BatchTypeOK
<1>7. DispatchInv'
  BY <1>1, <1>2, <1>3 DEF IInv, DispatchInv
<1>8. RequestInv'
  BY <1>1, <1>2, <1>3 DEF IInv, RequestInv
<1>9. ReferencesAreHeld'
  BY <1>0, <1>3, <1>5 DEF IInv, ReferencesAreHeld, Batches
<1>10. RemainingIsExact'
  BY <1>1, <1>2, <1>3, <1>4 DEF IInv, RemainingIsExact, Over, Selected
<1>11. SumInv'
  BY <1>2, <1>3, <1>4 DEF IInv, SumInv, Sum, Selected
<1> QED
  BY <1>6, <1>7, <1>8, <1>9, <1>10, <1>11 DEF IInv

-----------------------------------------------------------------------------
\* The End of a file is handled: a file that was not canceled is counted now.
LEMMA UploadEndStep ==
  ASSUME IInv, NEW f \in Files, UploadEnd(f)
  PROVE  IInv'
<1> USE Different
<1>0. BatchTypeOK /\ batch \in Batches
  BY DEF IInv, BatchTypeOK
<1>1. /\ phase[f] = "ending" /\ phase'[f] = "ended"
      /\ phase' \in [Ops -> Phases] /\ \A p \in Ops \ {f} : phase'[p] = phase[p]
  BY <1>0, MoveFacts DEF UploadEnd, Phases
<1>2. /\ session = "open"
      /\ UNCHANGED <<selected, canceled, result, terminating, dispatched, session, shown>>
  BY DEF UploadEnd
<1>3. f \in selected /\ batch.unstarted = FALSE /\ shown = 0
  BY <1>1, FileRemains
<1>4. /\ batch' \in Batches
      /\ batch'.canceled = batch.canceled /\ batch'.remaining = batch.remaining
      /\ batch'.unstarted = batch.unstarted /\ batch'.requested = batch.requested
      /\ batch'.refs = batch.refs /\ batch'.posted = batch.posted
  BY <1>0 DEF UploadEnd, Outcome, Batches
<1>5. batch'.completed + batch'.failed =
        (IF f \in canceled THEN batch.completed + batch.failed ELSE batch.completed + batch.failed + 1)
  BY <1>0 DEF UploadEnd, Outcome, Batches
<1>6. Live' = Live /\ Counted' = Counted \cup {f} /\ Over' = Over
  BY <1>0, <1>1, <1>2, <1>3 DEF Live, Counted, Over, BatchTypeOK
<1>7. f \in Counted <=> f \in canceled
  BY <1>1, <1>3 DEF Counted
<1>8. /\ Cardinality(Counted') = IF f \in canceled THEN Cardinality(Counted) ELSE Cardinality(Counted) + 1
      /\ Cardinality(Counted) \in Int
  BY <1>0, <1>6, <1>7, SetsAreFinite, FS_AddElement, FS_CardinalityType
<1>9. BatchTypeOK'
  BY <1>0, <1>1, <1>2, <1>4 DEF BatchTypeOK
<1>10. DispatchInv'
  BY <1>1, <1>2, <1>4 DEF IInv, DispatchInv
<1>11. RequestInv'
  BY <1>1, <1>2, <1>4 DEF IInv, RequestInv
<1>12. ReferencesAreHeld' /\ RemainingIsExact'
  BY <1>1, <1>2, <1>4, <1>6 DEF IInv, ReferencesAreHeld, RemainingIsExact, Over, Selected
<1>13. SumInv'
  <2>1. Sum = Cardinality(Counted)
    BY <1>2, <1>3 DEF IInv, SumInv
  <2>2. Sum' = (IF f \in canceled THEN Sum ELSE Sum + 1)
    BY <1>0, <1>4, <1>5 DEF Sum, Batches
  <2>3. Sum' = Cardinality(Counted')
    BY <1>8, <2>1, <2>2
  <2> QED
    BY <1>2, <1>3, <1>4, <2>3 DEF SumInv
<1> QED
  BY <1>9, <1>10, <1>11, <1>12, <1>13 DEF IInv

\* The summary is shown, once and with every file in it.
LEMMA CompleteEndStep ==
  ASSUME IInv, CompleteEnd
  PROVE  IInv'
<1> USE Different
<1>0. BatchTypeOK
  BY DEF IInv
<1>1. /\ phase[Complete] = "ending" /\ phase'[Complete] = "ended"
      /\ phase' \in [Ops -> Phases] /\ \A p \in Ops \ {Complete} : phase'[p] = phase[p]
  BY <1>0, MoveFacts DEF CompleteEnd, Phases
<1>2. /\ session = "open"
      /\ UNCHANGED <<selected, canceled, result, terminating, dispatched, batch, session>>
  BY DEF CompleteEnd
<1>3. batch.requested = TRUE /\ shown = 0
  BY <1>1 DEF IInv, RequestInv
<1>4. shown' \in {0, 1}
  BY <1>3 DEF CompleteEnd
<1>5. Live' = Live /\ Counted' = Counted /\ Over' = Over
  BY <1>0, <1>1, <1>2 DEF Live, Counted, Over, BatchTypeOK
<1>6. Sum' = Sum /\ Sum = Selected /\ Selected' = Selected
  BY <1>2, <1>3, RequestedIsOver DEF Sum, Selected
<1>7. BatchTypeOK'
  BY <1>0, <1>1, <1>2, <1>4 DEF BatchTypeOK
<1>8. DispatchInv'
  BY <1>1, <1>2 DEF IInv, DispatchInv
<1>9. RequestInv'
  BY <1>1, <1>2, <1>3, <1>4 DEF IInv, RequestInv
<1>10. ReferencesAreHeld' /\ RemainingIsExact'
  BY <1>1, <1>2, <1>5, <1>6 DEF IInv, ReferencesAreHeld, RemainingIsExact, Over
<1>11. SumInv'
  BY <1>2, <1>5, <1>6 DEF IInv, SumInv
<1> QED
  BY <1>7, <1>8, <1>9, <1>10, <1>11 DEF IInv

\* The message's reference becomes the one of the operation.
LEMMA HandleCompletionStep ==
  ASSUME IInv, HandleRemoteUploadBatchCompletion
  PROVE  IInv'
<1> USE Different
<1>0. BatchTypeOK /\ batch \in Batches
  BY DEF IInv, BatchTypeOK
<1>1. batch.posted = 1
  BY DEF HandleRemoteUploadBatchCompletion, IInv, RequestInv
<1>2. batch.requested = TRUE /\ phase[Complete] = "none" /\ shown = 0
  BY <1>1 DEF IInv, RequestInv
<1>3. phase[Prepare] # "none"
  BY <1>2 DEF IInv, RequestInv
<1>4. /\ phase' = [phase EXCEPT ![Complete] = "waiting"]
      /\ UNCHANGED <<selected, canceled, result, terminating, dispatched, session, shown>>
  BY DEF HandleRemoteUploadBatchCompletion
<1>5. /\ phase'[Complete] = "waiting" /\ phase' \in [Ops -> Phases]
      /\ \A p \in Ops \ {Complete} : phase'[p] = phase[p]
  BY <1>0, <1>4 DEF BatchTypeOK, Phases
<1>6. /\ batch' \in Batches
      /\ batch'.completed = batch.completed /\ batch'.failed = batch.failed
      /\ batch'.canceled = batch.canceled /\ batch'.remaining = batch.remaining
      /\ batch'.refs = batch.refs /\ batch'.posted = 0
  BY <1>0, <1>1 DEF HandleRemoteUploadBatchCompletion, Batches
<1>7. batch'.unstarted = batch.unstarted /\ batch'.requested = batch.requested
  BY <1>0 DEF HandleRemoteUploadBatchCompletion, Batches
<1>8. /\ Complete \notin Live /\ Live' = Live \cup {Complete}
      /\ Counted' = Counted /\ Over' = Over
  BY <1>0, <1>2, <1>4, <1>5 DEF Live, Counted, Over, BatchTypeOK
<1>9. Cardinality(Live') = Cardinality(Live) + 1 /\ Cardinality(Live) \in Int
  BY <1>0, <1>8, SetsAreFinite, FS_AddElement, FS_CardinalityType
<1>10. BatchTypeOK'
  BY <1>0, <1>4, <1>5, <1>6 DEF BatchTypeOK
<1>11. DispatchInv'
  BY <1>3, <1>4, <1>5, <1>6, <1>7 DEF IInv, DispatchInv
<1>12. RequestInv'
  BY <1>2, <1>3, <1>4, <1>5, <1>6, <1>7 DEF IInv, RequestInv
<1>13. ReferencesAreHeld'
  BY <1>0, <1>1, <1>6, <1>9 DEF IInv, ReferencesAreHeld, Batches
<1>14. RemainingIsExact'
  BY <1>3, <1>4, <1>6, <1>7, <1>8 DEF IInv, RemainingIsExact, Over, Selected
<1>15. SumInv'
  BY <1>4, <1>6, <1>7, <1>8 DEF IInv, SumInv, Sum, Selected
<1> QED
  BY <1>10, <1>11, <1>12, <1>13, <1>14, <1>15 DEF IInv

\* A waiting file is canceled: it is counted, counted down and deleted at once.
LEMMA CancelOperationStep ==
  ASSUME IInv, NEW f \in Files, CancelOperation(f)
  PROVE  IInv'
<1> USE Different
<1> DEFINE b1 == RecordCanceled(batch, {f})
           b2 == CountDown(b1, {f})
           b3 == RequestCompletionIfReady(b2)
<1>0. BatchTypeOK /\ batch \in Batches /\ IsFiniteSet({f}) /\ Cardinality({f}) = 1
  BY FS_Singleton DEF IInv, BatchTypeOK
<1>1. /\ phase[f] = "waiting" /\ phase'[f] = "gone"
      /\ phase' \in [Ops -> Phases] /\ \A p \in Ops \ {f} : phase'[p] = phase[p]
  BY <1>0, MoveFacts DEF CancelOperation, Phases
<1>2. /\ session = "open" /\ canceled' = canceled \cup {f}
      /\ UNCHANGED <<selected, result, terminating, dispatched, session, shown>>
  BY DEF CancelOperation
<1>3. /\ f \in selected /\ dispatched = TRUE /\ batch.unstarted = FALSE /\ phase[Prepare] # "none"
      /\ batch.requested = FALSE /\ batch.posted = 0 /\ phase[Complete] = "none" /\ shown = 0
      /\ batch.remaining = Selected - Cardinality(Over) /\ batch.remaining >= 1
      /\ f \notin Over
  BY <1>1, FileRemains
<1>4. f \notin canceled
  BY <1>1 DEF IInv, DispatchInv
<1>5. /\ b1 \in Batches
      /\ b1.completed = batch.completed /\ b1.failed = batch.failed
      /\ b1.canceled = batch.canceled + 1 /\ b1.remaining = batch.remaining
      /\ b1.unstarted = FALSE /\ b1.requested = FALSE
      /\ b1.refs = batch.refs /\ b1.posted = 0
  BY <1>0, <1>3, RecordFacts
<1> HIDE DEF b1
<1>6. /\ b2 \in Batches
      /\ b2.completed = batch.completed /\ b2.failed = batch.failed
      /\ b2.canceled = batch.canceled + 1 /\ b2.remaining = batch.remaining - 1
      /\ b2.unstarted = FALSE /\ b2.requested = FALSE
      /\ b2.refs = batch.refs /\ b2.posted = 0
  <2>1. Cardinality({f}) <= b1.remaining
    BY <1>0, <1>3, <1>5
  <2> QED
    BY <1>0, <1>5, <2>1, CountDownFacts
<1> HIDE DEF b2
<1>7. /\ b3 \in Batches
      /\ b3.completed = batch.completed /\ b3.failed = batch.failed
      /\ b3.canceled = batch.canceled + 1 /\ b3.remaining = batch.remaining - 1
      /\ b3.unstarted = FALSE
      /\ \/ b3.requested = FALSE /\ b3.posted = 0 /\ b3.refs = batch.refs
         \/ b3.requested = TRUE /\ b3.posted = 1 /\ b3.refs = batch.refs + 1 /\ b3.remaining = 0
  <2>1. CASE b2.remaining = 0
    <3>1. b2 \in Batches /\ b2.requested = FALSE /\ b2.remaining = 0
      BY <1>6, <2>1
    <3>2. /\ b3 \in Batches
          /\ b3.completed = b2.completed /\ b3.failed = b2.failed /\ b3.canceled = b2.canceled
          /\ b3.remaining = b2.remaining /\ b3.unstarted = b2.unstarted
          /\ b3.requested = TRUE /\ b3.posted = b2.posted + 1 /\ b3.refs = b2.refs + 1
      BY <3>1, RequestFacts
    <3> HIDE DEF b3
    <3>3. b3.posted = 1 /\ b3.refs = batch.refs + 1 /\ b3.remaining = 0
      BY <1>6, <2>1, <3>2
    <3> QED
      BY <1>6, <3>2, <3>3
  <2>2. CASE b2.remaining # 0
    BY <1>6, <2>2, RequestFacts
  <2> QED
    BY <2>1, <2>2
<1>8. batch' = Release(b3, 1)
  BY DEF CancelOperation, b1, b2, b3
<1> HIDE DEF b3
<1>9. /\ batch' \in Batches
      /\ batch'.completed = batch.completed /\ batch'.failed = batch.failed
      /\ batch'.canceled = batch.canceled + 1 /\ batch'.remaining = batch.remaining - 1
      /\ batch'.unstarted = FALSE
      /\ \/ batch'.requested = FALSE /\ batch'.posted = 0 /\ batch'.refs = batch.refs - 1
         \/ batch'.requested = TRUE /\ batch'.posted = 1 /\ batch'.refs = batch.refs /\ batch'.remaining = 0
  <2>1. batch.refs \in Int
    BY <1>0 DEF Batches
  <2>2. /\ batch' \in Batches
        /\ batch'.completed = b3.completed /\ batch'.failed = b3.failed
        /\ batch'.canceled = b3.canceled /\ batch'.remaining = b3.remaining
        /\ batch'.unstarted = b3.unstarted /\ batch'.requested = b3.requested
        /\ batch'.refs = b3.refs - 1 /\ batch'.posted = b3.posted
    BY <1>7, <1>8, ReleaseFacts
  <2>3. CASE b3.requested = FALSE /\ b3.posted = 0 /\ b3.refs = batch.refs
    BY <1>7, <2>2, <2>3
  <2>4. CASE b3.requested = TRUE /\ b3.posted = 1 /\ b3.refs = batch.refs + 1 /\ b3.remaining = 0
    <3>1. b3.refs - 1 = batch.refs
      BY <2>1, <2>4
    <3> QED
      BY <1>7, <2>2, <2>4, <3>1
  <2> QED
    BY <1>7, <2>3, <2>4
<1>10. /\ f \in Live /\ Live' = Live \ {f}
       /\ f \notin Counted /\ Counted' = Counted \cup {f}
       /\ Over' = Over \cup {f}
  BY <1>0, <1>1, <1>2, <1>3, <1>4 DEF Live, Counted, Over, BatchTypeOK
<1>11. /\ Cardinality(Live') = Cardinality(Live) - 1 /\ Cardinality(Live) \in Int
       /\ Cardinality(Counted') = Cardinality(Counted) + 1 /\ Cardinality(Counted) \in Int
       /\ Cardinality(Over') = Cardinality(Over) + 1 /\ Cardinality(Over) \in Int
       /\ Selected' = Selected /\ Selected \in Int
  <2>0. IsFiniteSet(Live) /\ IsFiniteSet(Counted) /\ IsFiniteSet(Over)
    BY <1>0, SetsAreFinite
  <2>1. Cardinality(Live') = Cardinality(Live) - 1 /\ Cardinality(Live) \in Int
    <3>1. f \in Live /\ Live' = Live \ {f}
      BY <1>10
    <3> QED
      BY <2>0, <3>1, FS_RemoveElement, FS_CardinalityType
  <2>2. Cardinality(Counted') = Cardinality(Counted) + 1 /\ Cardinality(Counted) \in Int
    <3>1. f \notin Counted /\ Counted' = Counted \cup {f}
      BY <1>10
    <3> QED
      BY <2>0, <3>1, FS_AddElement, FS_CardinalityType
  <2>3. Cardinality(Over') = Cardinality(Over) + 1 /\ Cardinality(Over) \in Int
    <3>1. f \notin Over /\ Over' = Over \cup {f}
      BY <1>3, <1>10
    <3> QED
      BY <2>0, <3>1, FS_AddElement, FS_CardinalityType
  <2>4. Selected' = Selected /\ Selected \in Int
    BY <1>0, <1>2, SetsAreFinite, FS_CardinalityType DEF Selected
  <2> QED
    BY <2>1, <2>2, <2>3, <2>4
<1>12. BatchTypeOK'
  BY <1>0, <1>1, <1>2, <1>9 DEF BatchTypeOK
<1>13. DispatchInv'
  BY <1>1, <1>2, <1>3, <1>9 DEF IInv, DispatchInv
<1>14. RequestInv'
  BY <1>1, <1>2, <1>3, <1>9 DEF IInv, RequestInv
<1>15. ReferencesAreHeld'
  BY <1>0, <1>3, <1>9, <1>11 DEF IInv, ReferencesAreHeld, Batches
<1>16. RemainingIsExact'
  BY <1>3, <1>9, <1>11 DEF RemainingIsExact, Over
<1>17. SumInv'
  <2>1. Sum = Cardinality(Counted) /\ Sum' = Sum + 1
    BY <1>0, <1>2, <1>3, <1>9 DEF IInv, SumInv, Sum, Batches
  <2> QED
    BY <1>2, <1>3, <1>9, <1>11, <2>1 DEF SumInv
<1> QED
  BY <1>12, <1>13, <1>14, <1>15, <1>16, <1>17 DEF IInv

\* An operation is aborted: a file is counted, once.
LEMMA AbortActiveStep ==
  ASSUME IInv, NEW o \in Ops, AbortActive(o)
  PROVE  IInv'
<1> USE Different
<1> DEFINE S == {o} \cap Files
<1>0. BatchTypeOK /\ batch \in Batches
  BY DEF IInv, BatchTypeOK
<1>1. /\ session = "open" /\ phase[o] \in {"starting", "running"} /\ o \notin canceled
      /\ canceled' = canceled \cup {o}
      /\ UNCHANGED <<selected, phase, result, terminating, dispatched, session, shown>>
  BY DEF AbortActive
<1>2. IsFiniteSet(S) /\ Cardinality(S) = IF o \in Files THEN 1 ELSE 0
  <2>1. S = IF o \in Files THEN {o} ELSE {}
    OBVIOUS
  <2>2. CASE o \in Files
    BY <2>1, <2>2, FS_Singleton
  <2>3. CASE o \notin Files
    BY <2>1, <2>3, FS_EmptySet
  <2> QED
    BY <2>2, <2>3
<1>3. /\ batch' \in Batches
      /\ batch'.completed = batch.completed /\ batch'.failed = batch.failed
      /\ batch'.canceled = batch.canceled + Cardinality(S)
      /\ batch'.remaining = batch.remaining
      /\ batch'.unstarted = batch.unstarted /\ batch'.requested = batch.requested
      /\ batch'.refs = batch.refs /\ batch'.posted = batch.posted
  BY <1>0, <1>2, RecordFacts DEF AbortActive
<1> HIDE DEF S
<1>4. Live' = Live /\ Over' = Over
  BY <1>1 DEF Live, Over
<1>5. BatchTypeOK'
  BY <1>0, <1>1, <1>3 DEF BatchTypeOK
<1>6. DispatchInv'
  BY <1>1, <1>3 DEF IInv, DispatchInv
<1>7. RequestInv'
  BY <1>1, <1>3 DEF IInv, RequestInv
<1>8. ReferencesAreHeld' /\ RemainingIsExact'
  BY <1>1, <1>3, <1>4 DEF IInv, ReferencesAreHeld, RemainingIsExact, Over, Selected
<1>9. SumInv'
  <2>1. CASE o \in Files
    <3>1. o \in selected /\ batch.unstarted = FALSE /\ shown = 0
      BY <1>1, <2>1, FileRemains
    <3>2. o \notin Counted /\ Counted' = Counted \cup {o}
      BY <1>1, <3>1 DEF Counted
    <3>3. Cardinality(Counted') = Cardinality(Counted) + 1 /\ Cardinality(Counted) \in Int
      BY <1>0, <3>2, SetsAreFinite, FS_AddElement, FS_CardinalityType
    <3>4. Sum = Cardinality(Counted) /\ Sum' = Sum + 1
      BY <1>0, <1>1, <1>2, <1>3, <2>1, <3>1 DEF IInv, SumInv, Sum, Batches
    <3> QED
      BY <1>1, <1>3, <3>1, <3>3, <3>4 DEF SumInv
  <2>2. CASE o \notin Files
    <3>1. Counted' = Counted
      BY <1>0, <1>1, <2>2 DEF Counted, BatchTypeOK
    <3>2. Sum' = Sum
      BY <1>0, <1>2, <1>3, <2>2 DEF Sum, Batches
    <3> QED
      BY <1>1, <1>3, <3>1, <3>2 DEF IInv, SumInv, Selected
  <2> QED
    BY <2>1, <2>2
<1> QED
  BY <1>5, <1>6, <1>7, <1>8, <1>9 DEF IInv

-----------------------------------------------------------------------------
\* The batch is queued: all of the selected files remain.
LEMMA PlanStep ==
  ASSUME IInv, QueueRemoteUploadPlan
  PROVE  IInv'
<1> USE Different
<1>0. BatchTypeOK /\ Selected \in Int /\ Cardinality({}) = 0
  BY SetsAreFinite, FS_CardinalityType, FS_EmptySet DEF IInv, Selected
<1>1. /\ \A o \in Ops : phase[o] = "none"
      /\ dispatched = FALSE /\ batch = NoBatch
      /\ phase[Prepare] = "none" /\ session = "open"
  BY DEF QueueRemoteUploadPlan, IInv, DispatchInv
<1>2. /\ phase' = [phase EXCEPT ![Prepare] = "waiting"]
      /\ UNCHANGED <<selected, canceled, result, terminating, dispatched, session, shown>>
  BY DEF QueueRemoteUploadPlan
<1>3. /\ phase'[Prepare] = "waiting" /\ phase' \in [Ops -> Phases]
      /\ \A o \in Ops \ {Prepare} : phase'[o] = "none"
  BY <1>0, <1>1, <1>2 DEF BatchTypeOK, Phases
<1>4. /\ batch' \in Batches
      /\ batch'.completed = 0 /\ batch'.failed = 0 /\ batch'.canceled = 0
      /\ batch'.remaining = Selected /\ batch'.refs = 1 /\ batch'.posted = 0
  <2>1. batch' = [completed |-> 0, failed |-> 0, canceled |-> 0, remaining |-> Selected,
                  requested |-> FALSE, unstarted |-> FALSE, refs |-> 1, posted |-> 0]
    BY <1>1 DEF QueueRemoteUploadPlan, NoBatch
  <2>2. batch' \in Batches
    BY <1>0, <2>1 DEF Batches
  <2>3. /\ batch'.completed = 0 /\ batch'.failed = 0 /\ batch'.canceled = 0
        /\ batch'.remaining = Selected /\ batch'.refs = 1 /\ batch'.posted = 0
    BY <2>1
  <2> QED
    BY <2>2, <2>3
<1>5. batch'.requested = FALSE
  BY <1>1 DEF QueueRemoteUploadPlan, NoBatch
<1>6. batch'.unstarted = FALSE
  BY <1>1 DEF QueueRemoteUploadPlan, NoBatch
<1>7. shown = 0
  BY <1>1 DEF IInv, RequestInv
<1>8. canceled \cap Files = {}
  BY <1>1 DEF IInv, DispatchInv
<1>9. Live' = {Prepare} /\ Over' = {} /\ Counted' = {}
  BY <1>0, <1>2, <1>3, <1>8 DEF Live, Over, Counted, BatchTypeOK
<1>10. Cardinality(Live') = 1
  BY <1>9, FS_Singleton
<1>11. BatchTypeOK'
  BY <1>0, <1>2, <1>3, <1>4 DEF BatchTypeOK
<1>12. DispatchInv'
  BY <1>1, <1>2, <1>3, <1>5, <1>6, <1>8 DEF IInv, DispatchInv
<1>13. RequestInv'
  BY <1>2, <1>3, <1>4, <1>5, <1>7 DEF RequestInv
<1>14. ReferencesAreHeld'
  BY <1>4, <1>10 DEF ReferencesAreHeld
<1>15. RemainingIsExact'
  <2>1. batch'.remaining = Selected' - Cardinality(Over')
    BY <1>0, <1>2, <1>4, <1>9 DEF Selected
  <2> QED
    BY <1>6, <2>1 DEF RemainingIsExact, Over
<1>16. SumInv'
  <2>1. Sum' = 0 /\ Cardinality(Counted') = 0
    BY <1>0, <1>4, <1>9 DEF Sum
  <2> QED
    BY <1>2, <1>6, <1>7, <2>1 DEF SumInv
<1> QED
  BY <1>11, <1>12, <1>13, <1>14, <1>15, <1>16 DEF IInv

\* The End of the preparation is handled without success: nothing is dispatched.
LEMMA NoDispatchStep ==
  ASSUME IInv, PrepareEnd, ~(result[Prepare] = "ok" /\ Prepare \notin canceled)
  PROVE  IInv'
<1> USE Different
<1>0. BatchTypeOK
  BY DEF IInv
<1>1. /\ Move(Prepare, "ending", "ended") /\ session = "open"
      /\ UNCHANGED <<selected, canceled, result, terminating, dispatched, batch, session, shown>>
  BY DEF PrepareEnd
<1>2. /\ phase[Prepare] = "ending" /\ phase'[Prepare] = "ended"
      /\ phase' \in [Ops -> Phases] /\ \A p \in Ops \ {Prepare} : phase'[p] = phase[p]
  BY <1>0, <1>1, MoveFacts DEF Phases
<1>3. BatchTypeOK'
  BY <1>0, <1>1, <1>2 DEF BatchTypeOK
<1>4. session' = "open" => terminating' = {}
  BY <1>1 DEF IInv, DispatchInv
<1> QED
  BY <1>1, <1>2, <1>3, <1>4, QuietStep DEF IInv, DispatchInv

\* Dispatch: every selected file becomes an operation that holds the batch.
LEMMA DispatchStep ==
  ASSUME IInv, PrepareEnd, result[Prepare] = "ok" /\ Prepare \notin canceled
  PROVE  IInv'
<1> USE Different
<1> DEFINE b1 == [batch EXCEPT !.refs = @ + Selected]
           b2 == RequestCompletionIfReady(b1)
<1>0. /\ BatchTypeOK /\ batch \in Batches /\ batch.refs \in Int
      /\ Selected \in Int /\ IsFiniteSet(Live) /\ IsFiniteSet(selected) /\ Cardinality({}) = 0
      /\ selected \subseteq Files
  BY SetsAreFinite, FS_CardinalityType, FS_EmptySet DEF IInv, Selected, BatchTypeOK, Batches
<1>1. /\ phase' = [o \in Ops |-> IF o = Prepare THEN "ended"
                                 ELSE IF o \in selected THEN "waiting" ELSE phase[o]]
      /\ batch' = b2 /\ dispatched' = TRUE
      /\ session = "open" /\ phase[Prepare] = "ending"
      /\ UNCHANGED <<selected, canceled, result, terminating, session, shown>>
  BY DEF PrepareEnd, DispatchRemoteUploadBatch
<1>2. dispatched # TRUE /\ batch.unstarted # TRUE
  BY <1>1 DEF IInv, DispatchInv
<1>3. batch.unstarted = FALSE
  BY <1>0, <1>2 DEF Batches
<1>4. \A f \in Files : phase[f] = "none"
  BY <1>2 DEF IInv, DispatchInv
<1>5. canceled \cap Files = {}
  BY <1>4 DEF IInv, DispatchInv
<1>6. batch.requested = FALSE
  BY <1>0, <1>2 DEF IInv, RequestInv, Batches
<1>7. batch.posted = 0 /\ phase[Complete] = "none"
  BY <1>6 DEF IInv, RequestInv
<1>8. shown = 0
  BY <1>7 DEF IInv, RequestInv
<1>9. Over = {} /\ Counted = {}
  BY <1>0, <1>4, <1>5 DEF Over, Counted
<1>10. batch.remaining = Selected /\ Sum = 0
  <2>1. batch.remaining = Selected - Cardinality(Over) /\ Sum = Cardinality(Counted)
    BY <1>1, <1>3 DEF IInv, RemainingIsExact, SumInv, Over
  <2> QED
    BY <1>0, <1>9, <2>1
<1>11. /\ phase'[Prepare] = "ended" /\ phase'[Complete] = "none"
       /\ \A f \in Files : phase'[f] = IF f \in selected THEN "waiting" ELSE "none"
       /\ phase' \in [Ops -> Phases]
  BY <1>0, <1>1, <1>4, <1>7 DEF BatchTypeOK, Phases
<1>12. Live' = Live \cup selected /\ Live \cap selected = {} /\ Over' = {} /\ Counted' = {}
  BY <1>0, <1>1, <1>4, <1>5, <1>7, <1>11 DEF Live, Over, Counted, Ops
<1>13. Cardinality(Live') = Cardinality(Live) + Selected /\ Cardinality(Live) \in Int
  <2>1. Cardinality(Live) \in Int /\ Cardinality(selected) = Selected
    BY <1>0, FS_CardinalityType DEF Selected
  <2>2. Cardinality(Live \cup selected)
          = Cardinality(Live) + Cardinality(selected) - Cardinality(Live \cap selected)
    BY <1>0, FS_Union
  <2>3. Cardinality(Live \cap selected) = 0 /\ Cardinality(Live') = Cardinality(Live \cup selected)
    BY <1>0, <1>12
  <2> QED
    BY <1>0, <2>1, <2>2, <2>3
<1>14. /\ b1 \in Batches
       /\ b1.completed = batch.completed /\ b1.failed = batch.failed
       /\ b1.canceled = batch.canceled /\ b1.remaining = batch.remaining
       /\ b1.refs = batch.refs + Selected /\ b1.posted = 0
  BY <1>0, <1>7 DEF Batches
<1>15. b1.unstarted = FALSE /\ b1.requested = FALSE
  BY <1>0, <1>3, <1>6 DEF Batches
<1> HIDE DEF b1
<1>16. /\ b2 \in Batches
       /\ b2.completed = batch.completed /\ b2.failed = batch.failed
       /\ b2.canceled = batch.canceled /\ b2.remaining = Selected
       /\ b2.unstarted = FALSE
       /\ \/ b2.requested = FALSE /\ b2.posted = 0 /\ b2.refs = batch.refs + Selected
          \/ b2.requested = TRUE /\ b2.posted = 1 /\ b2.refs = batch.refs + Selected + 1 /\ b2.remaining = 0
  <2>1. CASE b1.remaining = 0
    <3>1. b1 \in Batches /\ b1.requested = FALSE /\ b1.remaining = 0
      BY <1>14, <1>15, <2>1
    <3>2. /\ b2 \in Batches
          /\ b2.completed = b1.completed /\ b2.failed = b1.failed /\ b2.canceled = b1.canceled
          /\ b2.remaining = b1.remaining /\ b2.unstarted = b1.unstarted
          /\ b2.requested = TRUE /\ b2.posted = b1.posted + 1 /\ b2.refs = b1.refs + 1
      BY <3>1, RequestFacts
    <3> HIDE DEF b2
    <3>3. b2.posted = 1 /\ b2.refs = batch.refs + Selected + 1 /\ b2.remaining = 0
      BY <1>14, <2>1, <3>2
    <3> QED
      BY <1>10, <1>14, <1>15, <3>2, <3>3
  <2>2. CASE b1.remaining # 0
    <3>1. b2 = b1
      BY <1>14, <2>2, RequestFacts
    <3> HIDE DEF b2
    <3> QED
      BY <1>10, <1>14, <1>15, <3>1
  <2> QED
    BY <2>1, <2>2
<1> HIDE DEF b2
<1>17. BatchTypeOK'
  BY <1>0, <1>1, <1>11, <1>16 DEF BatchTypeOK
<1>18. DispatchInv'
  BY <1>0, <1>1, <1>5, <1>11, <1>16 DEF IInv, DispatchInv
<1>19. RequestInv'
  BY <1>1, <1>8, <1>11, <1>16 DEF RequestInv
<1>20. ReferencesAreHeld'
  BY <1>0, <1>1, <1>7, <1>13, <1>16 DEF IInv, ReferencesAreHeld
<1>21. RemainingIsExact'
  <2>1. Selected' = Selected /\ Cardinality(Over') = 0
    BY <1>0, <1>1, <1>12 DEF Selected
  <2> QED
    BY <1>0, <1>1, <1>16, <2>1 DEF RemainingIsExact, Over
<1>22. SumInv'
  <2>1. Sum' = 0 /\ Cardinality(Counted') = 0
    BY <1>0, <1>1, <1>10, <1>12, <1>16 DEF Sum
  <2> QED
    BY <1>1, <1>8, <1>16, <2>1 DEF SumInv
<1> QED
  BY <1>17, <1>18, <1>19, <1>20, <1>21, <1>22 DEF IInv

-----------------------------------------------------------------------------
\* The end of the preparation: what was not dispatched is canceled, once.
LEMMA PrepareTerminalStep ==
  ASSUME IInv, PrepareTerminal
  PROVE  IInv'
<1> USE Different
<1>0. BatchTypeOK /\ batch \in Batches
  BY DEF IInv, BatchTypeOK
<1>1. /\ phase[Prepare] = "ended" /\ phase'[Prepare] = "terminal"
      /\ phase' \in [Ops -> Phases] /\ \A p \in Ops \ {Prepare} : phase'[p] = phase[p]
  BY <1>0, MoveFacts DEF PrepareTerminal, Phases
<1>2. UNCHANGED <<selected, canceled, result, terminating, dispatched, session, shown>>
  BY DEF PrepareTerminal
<1>3. CASE batch' = batch
  <2>1. BatchTypeOK'
    BY <1>0, <1>1, <1>2, <1>3 DEF BatchTypeOK
  <2>2. session' = "open" => terminating' = {}
    BY <1>2 DEF IInv, DispatchInv
  <2> QED
    BY <1>1, <1>2, <1>3, <2>1, <2>2, QuietStep DEF IInv, DispatchInv
<1>4. CASE batch' # batch
  <2>1. /\ batch' = CancelUnstartedSelectedFiles(batch)
        /\ result[Prepare] = "error" \/ Prepare \in canceled
    BY <1>4 DEF PrepareTerminal
  <2>2. batch.unstarted = FALSE
    BY <1>0, <1>4, <2>1 DEF CancelUnstartedSelectedFiles, Batches
  <2>3. dispatched = FALSE
    BY <1>0, <2>1 DEF IInv, DispatchInv, BatchTypeOK
  <2>4. phase[Prepare] # "none"
    BY <1>1
  <2>5. /\ batch.requested = FALSE /\ batch.remaining = Selected /\ batch.posted = 0
        /\ phase[Complete] = "none" /\ shown = 0
        /\ session = "open" => Sum = 0
    BY <2>2, <2>3, <2>4, NotStarted
  <2>6. /\ batch' \in Batches
        /\ batch'.completed = batch.completed /\ batch'.failed = batch.failed
        /\ batch'.canceled = batch.canceled + Selected
        /\ batch'.remaining = 0 /\ batch'.unstarted = TRUE /\ batch'.requested = TRUE
        /\ batch'.refs = batch.refs + 1 /\ batch'.posted = 1
    <3>1. batch \in Batches /\ batch.remaining = Selected /\ batch.unstarted = FALSE /\ batch.requested = FALSE
      BY <1>0, <2>2, <2>5
    <3>2. /\ batch' \in Batches
          /\ batch'.completed = batch.completed /\ batch'.failed = batch.failed
          /\ batch'.canceled = batch.canceled + Selected
          /\ batch'.remaining = 0 /\ batch'.unstarted = TRUE /\ batch'.requested = TRUE
          /\ batch'.refs = batch.refs + 1 /\ batch'.posted = batch.posted + 1
      BY <1>0, <2>1, <3>1, UnstartedFacts
    <3>3. batch'.posted = 1
      BY <2>5, <3>2
    <3> QED
      BY <3>2, <3>3
  <2>7. Live' = Live /\ Selected' = Selected /\ Selected \in Int /\ Cardinality(Live) \in Int
    BY <1>0, <1>1, <1>2, SetsAreFinite, FS_CardinalityType DEF Live, Selected
  <2>8. BatchTypeOK'
    BY <1>0, <1>1, <1>2, <2>6 DEF BatchTypeOK
  <2>9. DispatchInv'
    BY <1>1, <1>2, <2>3, <2>6 DEF IInv, DispatchInv
  <2>10. RequestInv'
    BY <1>1, <1>2, <2>5, <2>6 DEF RequestInv
  <2>11. ReferencesAreHeld'
    BY <2>5, <2>6, <2>7 DEF IInv, ReferencesAreHeld
  <2>12. RemainingIsExact'
    BY <2>6 DEF RemainingIsExact
  <2>13. SumInv'
    <3>1. session = "open" => Sum' = Selected
      BY <1>0, <2>5, <2>6, <2>7 DEF Sum, Batches
    <3> QED
      BY <1>2, <2>5, <2>6, <2>7, <3>1 DEF SumInv
  <2> QED
    BY <2>8, <2>9, <2>10, <2>11, <2>12, <2>13 DEF IInv
<1> QED
  BY <1>3, <1>4

\* The teardown: what is performed is canceled, and a batch not dispatched given up.
LEMMA BeginTeardownStep ==
  ASSUME IInv, BeginTeardown
  PROVE  IInv'
<1> USE Different
<1> DEFINE hit == {o \in Ops \ canceled : phase[o] \in {"picked", "starting", "running"}}
           b   == RecordCanceled(batch, hit \cap Files)
<1>0. BatchTypeOK /\ batch \in Batches /\ IsFiniteSet(hit \cap Files)
  <2>1. hit \cap Files \subseteq Files
    OBVIOUS
  <2> QED
    BY <2>1, SetsAreFinite, FS_Subset DEF IInv, BatchTypeOK
<1>1. /\ session = "open" /\ session' = "closing" /\ canceled' = canceled \cup hit
      /\ batch' = IF phase[Prepare] \in Performing /\ ~dispatched
                    THEN CancelUnstartedSelectedFiles(b) ELSE b
      /\ terminating' = terminating \cup {o \in Ops : phase[o] \in Performing}
      /\ phase' = [o \in Ops |-> IF o \in {p \in Ops : phase[p] \in Performing} /\ phase[o] = "ending"
                                   THEN "ended" ELSE phase[o]]
      /\ UNCHANGED <<selected, result, dispatched, shown>>
  BY DEF BeginTeardown, Stop
<1>2. /\ phase' \in [Ops -> Phases] /\ terminating' \subseteq Ops /\ canceled' \subseteq Ops
      /\ \A o \in Ops : phase'[o] = phase[o] \/ (phase[o] = "ending" /\ phase'[o] = "ended")
  BY <1>0, <1>1 DEF BatchTypeOK, Phases
<1>3. /\ b \in Batches
      /\ b.completed = batch.completed /\ b.failed = batch.failed
      /\ b.canceled = batch.canceled + Cardinality(hit \cap Files)
      /\ b.remaining = batch.remaining /\ b.unstarted = batch.unstarted
      /\ b.requested = batch.requested /\ b.refs = batch.refs /\ b.posted = batch.posted
  BY <1>0, RecordFacts
<1>4. \A o \in hit : phase[o] \in {"picked", "starting", "running"} /\ phase'[o] = phase[o]
  BY <1>2
<1>5. shown = 1 => Sum = Selected /\ batch.requested = TRUE /\ b.canceled = batch.canceled
  <2>1. SUFFICES ASSUME shown = 1
                 PROVE  Sum = Selected /\ batch.requested = TRUE /\ b.canceled = batch.canceled
    OBVIOUS
  <2>2. phase[Complete] # "none"
    BY <2>1 DEF IInv, RequestInv
  <2>3. Sum = Selected /\ batch.requested = TRUE
    BY <2>1, <2>2 DEF IInv, RequestInv, SumInv
  <2>4. hit \cap Files = {}
    BY <1>4, <2>3, RequestedIsOver
  <2>5. Cardinality(hit \cap Files) = 0 /\ batch.canceled \in Int
    BY <1>0, <2>4, FS_EmptySet DEF Batches
  <2> QED
    BY <1>3, <2>3, <2>5
<1>6. Live' = Live /\ Selected' = Selected /\ Over' = Over
  BY <1>0, <1>1, <1>2 DEF Live, Selected, Over, BatchTypeOK
<1> HIDE DEF b
<1>7. CASE batch' = b
  <2>1. BatchTypeOK'
    BY <1>0, <1>1, <1>2, <1>3, <1>7 DEF BatchTypeOK
  <2>2. DispatchInv'
    <3>1. /\ phase'[Prepare] = "none" =>
               /\ \A o \in Ops : phase'[o] = "none"
               /\ dispatched' = FALSE
               /\ batch' = NoBatch
      <4>1. SUFFICES ASSUME phase'[Prepare] = "none"
                     PROVE  /\ \A o \in Ops : phase'[o] = "none"
                            /\ dispatched' = FALSE
                            /\ batch' = NoBatch
        OBVIOUS
      <4>2. \A o \in Ops : phase[o] = "none"
        BY <1>2, <4>1 DEF IInv, DispatchInv
      <4>3. hit \cap Files = {} /\ Cardinality({}) = 0
        BY <4>2, FS_EmptySet
      <4>4. batch = NoBatch /\ dispatched = FALSE
        BY <4>2 DEF IInv, DispatchInv
      <4>5. b = batch
        BY <4>3, <4>4 DEF b, RecordCanceled, NoBatch
      <4> QED
        BY <1>1, <1>2, <1>7, <4>2, <4>4, <4>5
    <3>2. \A f \in Files : phase'[f] # "none" <=> dispatched' = TRUE /\ f \in selected'
      BY <1>1, <1>2 DEF IInv, DispatchInv
    <3>3. \A f \in Files \cap canceled' : phase'[f] \notin {"none", "waiting"}
      BY <1>1, <1>2, <1>4 DEF IInv, DispatchInv
    <3>4. dispatched' = TRUE =>
            /\ phase'[Prepare] \in {"ended", "terminal", "gone"}
            /\ result'[Prepare] = "ok" /\ Prepare \notin canceled'
            /\ batch'.unstarted = FALSE
      BY <1>1, <1>2, <1>3, <1>4, <1>7 DEF IInv, DispatchInv
    <3>5. phase'[Prepare] # "last" /\ phase'[Complete] # "last" /\ session' # "open"
      BY <1>1, <1>2 DEF IInv, DispatchInv
    <3> QED
      BY <3>1, <3>2, <3>3, <3>4, <3>5 DEF DispatchInv
  <2>3. RequestInv'
    BY <1>1, <1>2, <1>3, <1>7 DEF IInv, RequestInv
  <2>4. ReferencesAreHeld' /\ RemainingIsExact'
    BY <1>1, <1>2, <1>3, <1>6, <1>7 DEF IInv, ReferencesAreHeld, RemainingIsExact, Over
  <2>5. SumInv'
    BY <1>1, <1>3, <1>5, <1>6, <1>7 DEF SumInv, Sum
  <2> QED
    BY <2>1, <2>2, <2>3, <2>4, <2>5 DEF IInv
<1>8. CASE batch' # b
  <2>1. /\ batch' = CancelUnstartedSelectedFiles(b)
        /\ phase[Prepare] \in Performing /\ dispatched = FALSE
    BY <1>0, <1>1, <1>8 DEF BatchTypeOK
  <2>2. b.unstarted = FALSE
    BY <1>3, <1>8, <2>1 DEF CancelUnstartedSelectedFiles, Batches
  <2>3. phase[Prepare] # "none" /\ batch.unstarted = FALSE
    BY <1>3, <2>1, <2>2 DEF Performing
  <2>4. /\ batch.requested = FALSE /\ batch.remaining = Selected /\ batch.posted = 0
        /\ phase[Complete] = "none" /\ shown = 0
    BY <2>1, <2>3, NotStarted
  <2>5. b \in Batches /\ b.remaining = Selected /\ b.unstarted = FALSE /\ b.requested = FALSE
    BY <1>3, <2>2, <2>4
  <2>6. /\ batch' \in Batches
        /\ batch'.remaining = 0 /\ batch'.unstarted = TRUE /\ batch'.requested = TRUE
        /\ batch'.refs = b.refs + 1 /\ batch'.posted = b.posted + 1
    BY <1>0, <2>1, <2>5, UnstartedFacts
  <2>7. BatchTypeOK'
    BY <1>0, <1>1, <1>2, <2>6 DEF BatchTypeOK
  <2>8. DispatchInv'
    <3>1. phase'[Prepare] # "none" /\ dispatched' = FALSE /\ session' # "open"
      BY <1>1, <1>2, <2>1, <2>3
    <3>2. \A f \in Files : phase'[f] # "none" <=> dispatched' = TRUE /\ f \in selected'
      BY <1>1, <1>2 DEF IInv, DispatchInv
    <3>3. \A f \in Files \cap canceled' : phase'[f] \notin {"none", "waiting"}
      BY <1>1, <1>2, <1>4 DEF IInv, DispatchInv
    <3>4. phase'[Prepare] # "last" /\ phase'[Complete] # "last"
      BY <1>1, <1>2 DEF IInv, DispatchInv
    <3> QED
      BY <3>1, <3>2, <3>3, <3>4 DEF DispatchInv
  <2>9. batch'.posted = 1 /\ batch'.refs = batch.refs + 1
    BY <1>3, <2>4, <2>6
  <2>10. RequestInv'
    BY <1>1, <1>2, <2>3, <2>4, <2>6, <2>9 DEF RequestInv
  <2>11. ReferencesAreHeld'
    <3>1. Cardinality(Live) \in Int
      BY <1>0, SetsAreFinite, FS_CardinalityType
    <3> QED
      BY <1>6, <2>4, <2>9, <3>1 DEF IInv, ReferencesAreHeld
  <2>12. RemainingIsExact'
    BY <2>6 DEF RemainingIsExact
  <2>13. SumInv'
    BY <1>1, <2>4 DEF SumInv
  <2> QED
    BY <2>7, <2>8, <2>10, <2>11, <2>12, <2>13 DEF IInv
<1> QED
  BY <1>7, <1>8

-----------------------------------------------------------------------------
\* The drain: the files that wait are counted and counted down, and everything
\* that held the batch is released.
LEMMA DrainStep ==
  ASSUME IInv, Drain
  PROVE  IInv'
<1> USE Different
<1> DEFINE left == {o \in Live : phase[o] = "waiting"}
           S  == left \cap Files
           r1 == RecordCanceled(batch, S)
           r2 == CountDown(r1, S)
           b1 == IF S = {} THEN batch ELSE RequestCompletionIfReady(r2)
           b2 == IF Prepare \in left THEN CancelUnstartedSelectedFiles(b1) ELSE b1
           n  == Cardinality(Live) + b2.posted
           rel == Release(b2, n)
<1>0. /\ BatchTypeOK /\ batch \in Batches /\ Cardinality({}) = 0
      /\ IsFiniteSet(S) /\ IsFiniteSet(Live) /\ IsFiniteSet(Over) /\ IsFiniteSet(selected)
      /\ Cardinality(Live) \in Int /\ Cardinality(Over) \in Int /\ Cardinality(S) \in Int
      /\ Selected \in Int
  <2>1. BatchTypeOK /\ batch \in Batches
    BY DEF IInv, BatchTypeOK
  <2>2. S \subseteq Files
    OBVIOUS
  <2>3. IsFiniteSet(S)
    BY <2>1, <2>2, SetsAreFinite, FS_Subset
  <2> QED
    BY <2>1, <2>3, SetsAreFinite, FS_CardinalityType, FS_EmptySet DEF Selected
<1>1. /\ session = "joining" /\ session' = "closed"
      /\ \A o \in Live : phase[o] \in {"waiting", "terminal"}
      /\ canceled' = canceled \cup (left \ {Complete})
      /\ batch' = [rel EXCEPT !.posted = 0]
      /\ phase' = [o \in Ops |-> IF o \in Live THEN "gone" ELSE phase[o]]
      /\ UNCHANGED <<selected, result, terminating, dispatched, shown>>
  BY Zenon DEF Drain
<1>2. /\ phase' \in [Ops -> Phases] /\ canceled' \subseteq Ops
      /\ \A o \in Ops : /\ phase[o] = "none" <=> phase'[o] = "none"
                        /\ phase'[o] \in {"none", "gone"}
  BY <1>0, <1>1 DEF BatchTypeOK, Phases, Live
<1>3. Live' = {} /\ Cardinality(Live') = 0
  BY <1>0, <1>2 DEF Live
<1>4. S \subseteq Files /\ \A f \in S : phase[f] = "waiting"
  OBVIOUS
<1>5. Prepare \in left => phase[Prepare] = "waiting" /\ dispatched = FALSE
  <2>1. Prepare \in left => phase[Prepare] = "waiting"
    OBVIOUS
  <2> QED
    BY <1>0, <2>1 DEF IInv, DispatchInv, BatchTypeOK
<1>6. dispatched = TRUE => S = selected \ Over /\ batch.unstarted = FALSE
  BY <1>0, <1>1 DEF IInv, DispatchInv, BatchTypeOK, Live, Over
<1>7. dispatched = FALSE => S = {}
  BY <1>4 DEF IInv, DispatchInv
<1>8. batch.requested = TRUE => S = {}
  BY <1>4, RequestedIsOver
<1> HIDE DEF left, S
<1>9. Cardinality(S) >= 1 \/ S = {}
  BY <1>0, FS_EmptySet, FS_CardinalityType
<1>10. dispatched = TRUE => Cardinality(S) = batch.remaining
  <2>1. SUFFICES ASSUME dispatched = TRUE PROVE Cardinality(S) = batch.remaining
    OBVIOUS
  <2>2. Over \subseteq selected /\ Over \cap selected = Over /\ S = selected \ Over
    BY <1>6, <2>1 DEF Over
  <2>3. Cardinality(S) = Selected - Cardinality(Over)
    <3>1. IsFiniteSet(selected) /\ IsFiniteSet(Over) /\ selected \cap Over = Over
      BY <1>0, <2>2
    <3>2. Cardinality(selected \ Over) = Cardinality(selected) - Cardinality(selected \cap Over)
      BY <3>1, FS_Difference
    <3> QED
      BY <2>2, <3>1, <3>2 DEF Selected
  <2>4. phase[Prepare] # "none" /\ batch.unstarted = FALSE
    BY <1>6, <2>1 DEF IInv, DispatchInv
  <2> QED
    BY <2>3, <2>4 DEF IInv, RemainingIsExact, Over
\* What the drain does to the batch before it is released.
<1>11. /\ r1 \in Batches
       /\ r1.remaining = batch.remaining /\ r1.unstarted = batch.unstarted
       /\ r1.requested = batch.requested /\ r1.refs = batch.refs /\ r1.posted = batch.posted
  BY <1>0, RecordFacts
<1> HIDE DEF r1
<1>12. /\ r2 \in Batches
       /\ r2.unstarted = batch.unstarted
       /\ r2.requested = batch.requested /\ r2.refs = batch.refs /\ r2.posted = batch.posted
       /\ dispatched = TRUE => r2.remaining = 0
  <2>1. /\ r2 \in Batches
        /\ r2.unstarted = r1.unstarted
        /\ r2.requested = r1.requested /\ r2.refs = r1.refs /\ r2.posted = r1.posted
        /\ Cardinality(S) <= r1.remaining => r2.remaining = r1.remaining - Cardinality(S)
    BY <1>0, <1>11, CountDownFacts
  <2> HIDE DEF r2
  <2>2. dispatched = TRUE => r2.remaining = 0
    BY <1>0, <1>10, <1>11, <2>1
  <2> QED
    BY <1>11, <2>1, <2>2
<1> HIDE DEF r2
<1>13. /\ b1 \in Batches /\ b1.unstarted = batch.unstarted
       /\ S = {} => b1 = batch
       /\ S # {} => b1.requested = TRUE /\ b1.remaining = 0
       /\ b1.refs - b1.posted = batch.refs - batch.posted
  <2>1. CASE S = {}
    BY <1>0, <2>1
  <2>2. CASE S # {}
    <3>1. dispatched = TRUE /\ batch.requested = FALSE
      BY <1>0, <1>7, <1>8, <2>2 DEF BatchTypeOK, Batches
    <3>2. r2 \in Batches /\ r2.requested = FALSE /\ r2.remaining = 0
      BY <1>12, <3>1
    <3>3. b1 = RequestCompletionIfReady(r2)
      BY <2>2
    <3> HIDE DEF b1
    <3>4. /\ b1 \in Batches
          /\ b1.remaining = r2.remaining /\ b1.unstarted = r2.unstarted
          /\ b1.requested = TRUE /\ b1.posted = r2.posted + 1 /\ b1.refs = r2.refs + 1
      BY <3>2, <3>3, RequestFacts
    <3>5. b1.refs - b1.posted = batch.refs - batch.posted
      <4>1. batch.refs \in Int /\ batch.posted \in Int
        BY <1>0 DEF Batches
      <4> QED
        BY <1>12, <3>4, <4>1
    <3> QED
      BY <1>12, <2>2, <3>2, <3>4, <3>5
  <2> QED
    BY <2>1, <2>2
<1> HIDE DEF b1
<1>14. /\ b2 \in Batches
       /\ Prepare \notin left => b2 = b1
       /\ Prepare \in left => b2.unstarted = TRUE
       /\ b2 = b1 \/ (b2.requested = TRUE /\ b2.remaining = 0 /\ b2.unstarted = TRUE /\ shown = 0
                      /\ batch.requested = FALSE)
       /\ b2.refs - b2.posted = b1.refs - b1.posted
  <2>1. CASE Prepare \notin left
    BY <1>13, <2>1
  <2>2. CASE Prepare \in left /\ b1.unstarted = TRUE
    <3>1. b2 = b1
      BY <2>2 DEF CancelUnstartedSelectedFiles
    <3> QED
      BY <1>13, <2>2, <3>1
  <2>3. CASE Prepare \in left /\ b1.unstarted = FALSE
    <3>1. phase[Prepare] # "none" /\ dispatched = FALSE /\ batch.unstarted = FALSE /\ b1 = batch
      BY <1>5, <1>7, <1>13, <2>3
    <3>2. batch.requested = FALSE /\ batch.remaining = Selected /\ shown = 0
      BY <3>1, NotStarted
    <3>3. b1 \in Batches /\ b1.remaining = Selected /\ b1.unstarted = FALSE /\ b1.requested = FALSE
      BY <1>0, <3>1, <3>2
    <3>4. b2 = CancelUnstartedSelectedFiles(b1)
      BY <2>3
    <3> HIDE DEF b2
    <3>5. /\ b2 \in Batches
          /\ b2.remaining = 0 /\ b2.unstarted = TRUE /\ b2.requested = TRUE
          /\ b2.refs = b1.refs + 1 /\ b2.posted = b1.posted + 1
      BY <1>0, <3>3, <3>4, UnstartedFacts
    <3>6. b2.refs - b2.posted = b1.refs - b1.posted
      <4>1. b1.refs \in Int /\ b1.posted \in Int
        BY <3>3 DEF Batches
      <4> QED
        BY <3>5, <4>1
    <3> QED
      BY <2>3, <3>2, <3>5, <3>6
  <2> QED
    BY <1>13, <2>1, <2>2, <2>3 DEF Batches
<1> HIDE DEF b2
\* ... and after: nothing holds it any more.
<1>15. /\ batch' \in Batches
       /\ batch'.completed = b2.completed /\ batch'.failed = b2.failed
       /\ batch'.canceled = b2.canceled /\ batch'.remaining = b2.remaining
       /\ batch'.unstarted = b2.unstarted /\ batch'.requested = b2.requested
       /\ batch'.refs = 0 /\ batch'.posted = 0
  <2>1. b2.posted \in Int /\ n \in Int
    BY <1>0, <1>14 DEF Batches
  <2>2. b2.refs - n = 0
    <3>1. batch.refs = Cardinality(Live) + batch.posted
      BY DEF IInv, ReferencesAreHeld
    <3>2. b2.refs \in Int /\ b2.posted \in Int /\ batch.refs \in Int /\ batch.posted \in Int
      BY <1>0, <1>14 DEF Batches
    <3>3. b2.refs - b2.posted = batch.refs - batch.posted
      BY <1>13, <1>14
    <3>4. b2.refs - b2.posted = Cardinality(Live)
      BY <1>0, <3>1, <3>2, <3>3
    <3> QED
      BY <1>0, <3>2, <3>4
  <2> HIDE DEF n
  <2>3. /\ rel \in Batches
        /\ rel.completed = b2.completed /\ rel.failed = b2.failed
        /\ rel.canceled = b2.canceled /\ rel.remaining = b2.remaining
        /\ rel.unstarted = b2.unstarted /\ rel.requested = b2.requested
        /\ rel.refs = b2.refs - n
    BY <1>14, <2>1, ReleaseFacts
  <2> HIDE DEF rel
  <2>4. /\ batch' \in Batches
        /\ batch'.completed = rel.completed /\ batch'.failed = rel.failed
        /\ batch'.canceled = rel.canceled /\ batch'.remaining = rel.remaining
        /\ batch'.refs = rel.refs /\ batch'.posted = 0
    BY <1>1, <2>3 DEF Batches
  <2>5. batch'.unstarted = rel.unstarted
    BY <1>1, <2>3 DEF Batches
  <2>6. batch'.requested = rel.requested
    BY <1>1, <2>3 DEF Batches
  <2> QED
    BY <2>2, <2>3, <2>4, <2>5, <2>6
<1>16. BatchTypeOK'
  BY <1>0, <1>1, <1>2, <1>15 DEF BatchTypeOK
<1>17. DispatchInv'
  <2>1. phase'[Prepare] = "none" =>
            /\ \A o \in Ops : phase'[o] = "none"
            /\ dispatched' = FALSE
            /\ batch' = NoBatch
    <3>1. SUFFICES ASSUME phase'[Prepare] = "none"
                   PROVE  /\ \A o \in Ops : phase'[o] = "none"
                          /\ dispatched' = FALSE
                          /\ batch' = NoBatch
      OBVIOUS
    <3>2. /\ \A o \in Ops : phase[o] = "none"
          /\ dispatched = FALSE /\ batch = NoBatch
      BY <1>2, <3>1 DEF IInv, DispatchInv
    <3>3. S = {} /\ Prepare \notin left /\ Live = {}
      BY <1>5, <1>7, <3>2 DEF Live, left
    <3>4. b2 = NoBatch
      BY <1>13, <1>14, <3>2, <3>3
    <3>5. n = 0
      BY <1>0, <3>3, <3>4 DEF NoBatch
    <3> HIDE DEF n
    <3>6. rel = [NoBatch EXCEPT !.refs = @ - 0]
      BY <3>4, <3>5 DEF Release
    <3>7. rel = NoBatch
      BY <3>6 DEF NoBatch
    <3> HIDE DEF rel
    <3>8. batch' = NoBatch
      BY <1>1, <3>7 DEF NoBatch
    <3> QED
      BY <1>1, <1>2, <3>2, <3>8
  <2>2. \A f \in Files : phase'[f] # "none" <=> dispatched' = TRUE /\ f \in selected'
    BY <1>1, <1>2 DEF IInv, DispatchInv
  <2>3. \A f \in Files \cap canceled' : phase'[f] \notin {"none", "waiting"}
    BY <1>1, <1>2 DEF IInv, DispatchInv, left
  <2>4. dispatched' = TRUE =>
          /\ phase'[Prepare] \in {"ended", "terminal", "gone"}
          /\ result'[Prepare] = "ok" /\ Prepare \notin canceled'
          /\ batch'.unstarted = FALSE
    <3>1. SUFFICES ASSUME dispatched = TRUE
                   PROVE  /\ phase'[Prepare] \in {"ended", "terminal", "gone"}
                          /\ result'[Prepare] = "ok" /\ Prepare \notin canceled'
                          /\ batch'.unstarted = FALSE
      BY <1>1
    <3>2. Prepare \notin left
      BY <1>5, <3>1
    <3>3. batch'.unstarted = FALSE
      BY <1>6, <1>13, <1>14, <1>15, <3>1, <3>2
    <3> QED
      BY <1>1, <1>2, <3>1, <3>2, <3>3 DEF IInv, DispatchInv
  <2>5. phase'[Prepare] # "last" /\ phase'[Complete] # "last" /\ session' # "open"
    BY <1>1, <1>2
  <2> QED
    BY <2>1, <2>2, <2>3, <2>4, <2>5 DEF DispatchInv
<1>18. batch.requested = TRUE => b2.requested = TRUE /\ b2 = batch
  BY <1>8, <1>13, <1>14
<1>19. RequestInv'
  <2>1. batch'.requested = TRUE =>
           batch'.remaining = 0 /\ phase'[Prepare] # "none"
           /\ (batch'.unstarted = TRUE \/ dispatched' = TRUE)
    <3>1. phase[Prepare] # "none"
             => (batch'.requested = TRUE => batch'.remaining = 0
                   /\ (batch'.unstarted = TRUE \/ dispatched' = TRUE))
      <4>1. CASE b2 = b1 /\ S = {}
        BY <1>1, <1>13, <1>15, <4>1 DEF IInv, RequestInv
      <4>2. CASE b2 = b1 /\ S # {}
        BY <1>0, <1>1, <1>7, <1>13, <1>15, <4>2 DEF BatchTypeOK
      <4>3. CASE b2 # b1
        BY <1>14, <1>15, <4>3
      <4> QED
        BY <4>1, <4>2, <4>3
    <3>2. phase[Prepare] = "none" => batch'.requested = FALSE
      <4>1. phase[Prepare] = "none" => batch' = NoBatch
        BY <1>2, <1>17 DEF DispatchInv
      <4> QED
        BY <4>1 DEF NoBatch
    <3> QED
      BY <1>2, <3>1, <3>2
  <2>2. phase'[Complete] # "none" => batch'.requested = TRUE
    BY <1>2, <1>15, <1>18 DEF IInv, RequestInv
  <2>3. shown' = 1 => phase'[Complete] \in {"ended", "terminal", "gone"}
    BY <1>1, <1>2 DEF IInv, RequestInv
  <2> QED
    BY <1>1, <1>15, <2>1, <2>2, <2>3 DEF IInv, RequestInv
<1>20. ReferencesAreHeld'
  BY <1>3, <1>15 DEF ReferencesAreHeld
<1>21. RemainingIsExact'
  <2>1. Selected' = Selected
    BY <1>1 DEF Selected
  <2>2. CASE b2 # b1
    BY <1>14, <1>15, <2>2 DEF RemainingIsExact
  <2>3. CASE b2 = b1 /\ dispatched = TRUE
    <3>1. Over' = selected
      BY <1>0, <1>1, <1>2, <2>3 DEF Over, IInv, DispatchInv, BatchTypeOK
    <3>2. b1.remaining = 0
      BY <1>0, <1>10, <1>13, <2>3
    <3>3. batch'.remaining = Selected' - Cardinality(Over')
      BY <1>0, <1>15, <2>1, <2>3, <3>1, <3>2 DEF Selected
    <3> QED
      BY <1>6, <1>13, <1>15, <2>3, <3>3 DEF RemainingIsExact, Over
  <2>4. CASE b2 = b1 /\ dispatched = FALSE
    <3>1. batch'.remaining = batch.remaining /\ batch'.unstarted = batch.unstarted
      BY <1>7, <1>13, <1>15, <2>4
    <3>2. Over' = Over
      BY <1>0, <1>1, <1>2, <2>4 DEF Over, IInv, DispatchInv, BatchTypeOK
    <3> QED
      BY <1>2, <2>1, <3>1, <3>2 DEF IInv, RemainingIsExact, Over
  <2> QED
    BY <1>0, <2>2, <2>3, <2>4 DEF BatchTypeOK
<1>22. SumInv'
  <2>1. SUFFICES ASSUME shown = 1
                 PROVE  Sum' = Selected'
    BY <1>1 DEF SumInv
  <2>2. batch.requested = TRUE /\ Sum = Selected
    BY <2>1 DEF IInv, RequestInv, SumInv
  <2>3. b2 = batch
    BY <1>18, <2>2
  <2> QED
    BY <1>1, <1>15, <2>2, <2>3 DEF Sum, Selected
<1> QED
  BY <1>16, <1>17, <1>19, <1>20, <1>21, <1>22 DEF IInv

-----------------------------------------------------------------------------
\* The invariant holds before a batch is queued, and every action keeps it.
LEMMA Initially == Init => IInv
<1> USE Different
<1>1. SUFFICES ASSUME Init PROVE IInv
  OBVIOUS
<1>2. Live = {} /\ Over = {} /\ Counted = {} /\ Cardinality({}) = 0
  BY <1>1, FS_EmptySet DEF Init, Live, Over, Counted
<1>3. /\ batch = NoBatch /\ batch.completed = 0 /\ batch.failed = 0 /\ batch.canceled = 0
      /\ batch.remaining = 0 /\ batch.refs = 0 /\ batch.posted = 0
  BY <1>1 DEF Init, NoBatch
<1>4. batch.requested = FALSE
  BY <1>3 DEF NoBatch
<1>5. batch.unstarted = FALSE
  BY <1>3 DEF NoBatch
<1>6. BatchTypeOK
  <2>1. batch \in Batches
    BY <1>3 DEF NoBatch, Batches
  <2>2. phase \in [Ops -> Phases] /\ result \in [Ops -> {"ok", "error"}]
    BY <1>1 DEF Init, Phases
  <2>3. /\ selected \subseteq Files /\ canceled \subseteq Ops /\ terminating \subseteq Ops
        /\ session \in {"open", "closing", "joining", "closed"} /\ shown \in Int
    BY <1>1 DEF Init
  <2>4. dispatched \in BOOLEAN
    BY <1>1 DEF Init
  <2> QED
    BY <2>1, <2>2, <2>3, <2>4 DEF BatchTypeOK
<1>7. /\ \A o \in Ops : phase[o] = "none"
      /\ dispatched = FALSE /\ canceled = {} /\ terminating = {}
      /\ session = "open" /\ shown = 0
  BY <1>1 DEF Init
<1>8. DispatchInv
  BY <1>3, <1>5, <1>7 DEF DispatchInv
<1>9. RequestInv
  BY <1>3, <1>4, <1>7 DEF RequestInv
<1>10. ReferencesAreHeld /\ RemainingIsExact
  BY <1>2, <1>3, <1>7 DEF ReferencesAreHeld, RemainingIsExact
<1>11. SumInv
  BY <1>2, <1>3, <1>5, <1>7 DEF SumInv, Sum
<1> QED
  BY <1>6, <1>8, <1>9, <1>10, <1>11 DEF IInv

\* One case for each action of Next.
LEMMA Inductive == IInv /\ [Next]_vars => IInv'
<1> USE Different
<1>1. SUFFICES ASSUME IInv, [Next]_vars PROVE IInv'
  OBVIOUS
<1>2. CASE QueueRemoteUploadPlan
  BY <1>1, <1>2, PlanStep
<1>3. CASE BeginTeardown
  BY <1>1, <1>3, BeginTeardownStep
<1>4. CASE PrepareEnd
  BY <1>1, <1>4, DispatchStep, NoDispatchStep
<1>5. CASE CompleteEnd
  BY <1>1, <1>5, CompleteEndStep
<1>6. CASE HandleRemoteUploadBatchCompletion
  BY <1>1, <1>6, HandleCompletionStep
<1>7. CASE \E f \in Files : UploadEnd(f) \/ CancelOperation(f)
  BY <1>1, <1>7, UploadEndStep, CancelOperationStep
<1>8. CASE StopThreads
  BY <1>1, <1>8, QuietActions
<1>9. CASE Drain
  BY <1>1, <1>9, DrainStep
<1>10. ASSUME NEW o \in Ops, Thread(o) PROVE IInv'
  <2>1. CASE Pick(o) \/ StartExecution(o) \/ BeginPerform(o) \/ SendEnd(o)
             \/ \E r \in {"ok", "error"} : Perform(o, r)
    BY <1>1, <2>1, QuietActions
  <2>2. CASE Delete(o)
    BY <1>1, <2>2, DeleteStep
  <2>3. CASE o \in Files /\ (FileTerminal(o) \/ RequestCompletion(o))
    BY <1>1, <2>3, FileTerminalStep, RequestCompletionStep
  <2>4. CASE o = Prepare /\ PrepareTerminal
    BY <1>1, <2>4, PrepareTerminalStep
  <2>5. CASE o = Complete /\ CompleteTerminal
    BY <1>1, <2>5, QuietActions
  <2> QED
    BY <1>10, <2>1, <2>2, <2>3, <2>4, <2>5 DEF Thread
<1>11. CASE \E o \in Ops : AbortActive(o)
  BY <1>1, <1>11, AbortActiveStep
<1>12. CASE UNCHANGED vars
  BY <1>1, <1>12, QuietActions
<1> QED
  BY <1>1, <1>2, <1>3, <1>4, <1>5, <1>6, <1>7, <1>8, <1>9, <1>10, <1>11, <1>12
  DEF Next, Window, Closing

\* References, counters, phases and dispatch agree in every state.
THEOREM BatchIsSound == Spec => []IInv
<1> QED
  BY Initially, Inductive, PTL DEF Spec

-----------------------------------------------------------------------------
\* Every variable keeps its type; no counter of the batch falls below 0.
THEOREM TypeCorrect == Spec => []TypeOK
<1>1. ASSUME IInv PROVE TypeOK
  <2>1. /\ BatchTypeOK /\ batch \in Batches /\ IsFiniteSet(selected) /\ IsFiniteSet(Live)
        /\ Selected \in Nat /\ Cardinality(Live) \in Nat
    BY <1>1, SetsAreFinite, FS_CardinalityType DEF IInv, BatchTypeOK, Selected
  <2>2. batch.posted \in Nat /\ shown \in Nat
    BY <1>1 DEF IInv, RequestInv
  <2>3. batch.refs \in Nat
    BY <1>1, <2>1, <2>2 DEF IInv, ReferencesAreHeld
  <2>4. batch.remaining \in Nat
    <3>1. CASE phase[Prepare] = "none"
      <4>1. batch = NoBatch
        BY <1>1, <3>1 DEF IInv, DispatchInv
      <4> QED
        BY <4>1 DEF NoBatch
    <3>2. CASE phase[Prepare] # "none"
      <4>1. Over \subseteq selected
        BY DEF Over
      <4>2. Cardinality(Over) \in Nat /\ Cardinality(Over) <= Selected
        BY <2>1, <4>1, FS_Subset, FS_CardinalityType DEF Selected
      <4>3. batch.remaining = 0 \/ batch.remaining = Selected - Cardinality(Over)
        BY <1>1, <3>2 DEF IInv, RemainingIsExact, Over
      <4> QED
        BY <2>1, <4>2, <4>3
    <3> QED
      BY <3>1, <3>2
  <2>5. batch \in [completed : Nat, failed : Nat, canceled : Nat, remaining : Nat,
                   requested : BOOLEAN, unstarted : BOOLEAN, refs : Nat, posted : Nat]
    BY <2>1, <2>2, <2>3, <2>4 DEF Batches
  <2> QED
    BY <2>1, <2>2, <2>5 DEF TypeOK, BatchTypeOK
<1> QED
  BY <1>1, BatchIsSound, PTL

\* The batch is counted by exactly the operations and messages that hold it: it is
\* deleted neither while one of them still uses it nor never.
THEOREM ReferencesStayHeld == Spec => []ReferencesAreHeld
<1>1. IInv => ReferencesAreHeld
  BY DEF IInv
<1> QED
  BY <1>1, BatchIsSound, PTL

\* Every file of a queued batch is counted down exactly once.
THEOREM RemainingStaysExact == Spec => []RemainingIsExact
<1>1. IInv => RemainingIsExact
  BY DEF IInv
<1> QED
  BY <1>1, BatchIsSound, PTL

\* The summary is shown at most once, and counts every selected file once.
THEOREM SummaryStaysExact == Spec => []SummaryIsExact
<1>1. IInv => SummaryIsExact
  BY DEF IInv, RequestInv, SumInv, Sum, SummaryIsExact
<1> QED
  BY <1>1, BatchIsSound, PTL

\* No summary is queued while a file may still be transferred by another worker.
THEOREM MarkerStaysBehind == Spec => []MarkerFollowsFiles
<1>1. ASSUME IInv PROVE MarkerFollowsFiles
  <2>1. SUFFICES ASSUME batch.posted > 0 \/ phase[Complete] # "none"
                 PROVE  \A f \in selected : phase[f] \in {"none", "last", "terminal", "gone"}
    BY DEF MarkerFollowsFiles
  <2>2. batch.requested = TRUE
    BY <1>1, <2>1 DEF IInv, RequestInv
  <2>3. selected \subseteq Files
    BY <1>1 DEF IInv, BatchTypeOK
  <2> QED
    BY <1>1, <2>2, <2>3, RequestedIsOver
<1> QED
  BY <1>1, BatchIsSound, PTL

=============================================================================
