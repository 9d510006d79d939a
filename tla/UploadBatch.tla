---------------------------- MODULE UploadBatch ----------------------------
(***************************************************************************)
(* The upload of a directory: a RemoteUploadBatch (RemoteUploadPlan.cpp),  *)
(* the operation that prepares the remote directories, one upload per      *)
(* selected file, and the operation that carries the summary.  Preparation *)
(* and summary go through the transfer queue, the files through the upload *)
(* scheduler, where MaxWorkers of them run at a time.                      *)
(*                                                                         *)
(* Queues are taken as modules FTPQueue and UploadScheduler show them to   *)
(* behave.  All changes of the batch are made by the window thread or by   *)
(* the thread of the queue that performs an operation.                     *)
(***************************************************************************)
EXTENDS Integers, FiniteSets

CONSTANTS
  Files,        \* the files of the plan
  Prepare,      \* the QueueRemoteUploadPrepare
  Complete,     \* the QueueRemoteUploadComplete
  MaxWorkers

ASSUME BatchAssumption ==
  /\ IsFiniteSet(Files)
  /\ Prepare \notin Files /\ Complete \notin Files /\ Prepare # Complete
  /\ MaxWorkers \in Nat \ {0}

Ops == Files \cup {Prepare, Complete}

VARIABLES
  selected,      \* the files left after the overwrite dialog
  phase,         \* where each operation is
  canceled,      \* m_canceled, set together with QueueExecutionCanceled
  result,        \* m_result
  terminating,   \* m_terminating
  dispatched,    \* QueueRemoteUploadPrepare::m_filesDispatched
  batch,         \* the counters of RemoteUploadBatch, and the posted messages
  session,       \* how far FTPSession::Clear is
  shown          \* how many summaries were shown

vars == <<selected, phase, canceled, result, terminating, dispatched, batch,
          session, shown>>

\* "ending": the End message waits for the window; "ended": it was acknowledged;
\* "last": CompleteFileTerminal counted down to zero; "terminal": what is left
\* is to remove the operation.
Phases == {"none", "waiting", "picked", "starting", "running", "performed",
           "ending", "ended", "last", "terminal", "gone"}
Performing == Phases \ {"none", "waiting", "gone"}

Selected == Cardinality(selected)
Live == {o \in Ops : phase[o] \notin {"none", "gone"}}

NoBatch == [completed |-> 0, failed |-> 0, canceled |-> 0, remaining |-> 0,
            requested |-> FALSE, unstarted |-> FALSE, refs |-> 0, posted |-> 0]

Init ==
  /\ selected \in SUBSET Files
  /\ phase = [o \in Ops |-> "none"]
  /\ canceled = {} /\ terminating = {}
  /\ result = [o \in Ops |-> "error"]
  /\ dispatched = FALSE
  /\ batch = NoBatch
  /\ session = "open"
  /\ shown = 0

-----------------------------------------------------------------------------
(***************************************************************************)
(* RemoteUploadBatch.                                                      *)
(***************************************************************************)
RecordCanceled(b, files) == [b EXCEPT !.canceled = @ + Cardinality(files)]

\* Posts the completion message, which holds a reference; a mutant does not
\* take it.
RequestUncounted(b) ==
  IF b.remaining = 0 /\ ~b.requested
    THEN [b EXCEPT !.requested = TRUE, !.posted = @ + 1]
    ELSE b
RequestCompletionIfReady(b) ==
  IF b.remaining = 0 /\ ~b.requested
    THEN [b EXCEPT !.requested = TRUE, !.posted = @ + 1, !.refs = @ + 1]
    ELSE b

\* CompleteFileTerminal, once for each file, never below zero.
CountDown(b, files) ==
  [b EXCEPT !.remaining = IF @ < Cardinality(files) THEN 0 ELSE @ - Cardinality(files)]

\* The files are canceled and counted down at once, before any upload exists.
CancelUnstartedSelectedFiles(b) ==
  IF b.unstarted
    THEN b
    ELSE RequestCompletionIfReady(
           CountDown(RecordCanceled([b EXCEPT !.unstarted = TRUE], selected), selected))

\* A mutant gives the reference of a plan back as well.
ReleaseTwice(b, n) == [b EXCEPT !.refs = @ - 2 * n]
Release(b, n) == [b EXCEPT !.refs = @ - n]

-----------------------------------------------------------------------------
(***************************************************************************)
(* The queue threads.                                                      *)
(***************************************************************************)
Move(o, from, to) == phase[o] = from /\ phase' = [phase EXCEPT ![o] = to]

\* The preparation and the summary share the transfer queue.
HasThread(o) ==
  IF o \in Files
    THEN Cardinality({f \in Files : phase[f] \in Performing}) < MaxWorkers
    ELSE phase[Prepare] \notin Performing /\ phase[Complete] \notin Performing

Pick(o) ==
  /\ session # "joining" /\ HasThread(o)
  /\ Move(o, "waiting", "picked")
  /\ UNCHANGED <<selected, canceled, result, terminating, dispatched, batch, session, shown>>

\* StartExecution and BeginPerform refuse an operation that was canceled.
StartExecution(o) ==
  /\ Move(o, "picked", IF o \in canceled THEN "performed" ELSE "starting")
  /\ UNCHANGED <<selected, canceled, result, terminating, dispatched, batch, session, shown>>

BeginPerform(o) ==
  /\ Move(o, "starting", IF o \in canceled THEN "performed" ELSE "running")
  /\ UNCHANGED <<selected, canceled, result, terminating, dispatched, batch, session, shown>>

\* Perform: a file is sent or not; the preparation fails only when it sees that
\* it was canceled, which an abort after its last look does not achieve.
Perform(o, r) ==
  /\ r = "error" => o \in Files \/ (o = Prepare /\ o \in canceled)
  /\ Move(o, "running", "performed")
  /\ result' = [result EXCEPT ![o] = r]
  /\ UNCHANGED <<selected, canceled, terminating, dispatched, batch, session, shown>>

SendEnd(o) ==
  /\ Move(o, "performed", IF o \in terminating THEN "ended" ELSE "ending")
  /\ UNCHANGED <<selected, canceled, result, terminating, dispatched, batch, session, shown>>

\* QueueRemoteUploadPrepare::OnQueueTerminal; a mutant that does not look
\* whether the files were handed over.
PrepareAlwaysCancels ==
  /\ Move(Prepare, "ended", "terminal")
  /\ batch' = CancelUnstartedSelectedFiles(batch)
  /\ UNCHANGED <<selected, canceled, result, terminating, dispatched, session, shown>>
PrepareTerminal ==
  /\ Move(Prepare, "ended", "terminal")
  /\ batch' = IF result[Prepare] = "error" \/ Prepare \in canceled
                THEN CancelUnstartedSelectedFiles(batch) ELSE batch
  /\ UNCHANGED <<selected, canceled, result, terminating, dispatched, session, shown>>

\* QueueRemoteUploadFile::OnQueueTerminal: the thread that counts down to zero
\* requests the summary, in a step of its own.
FileTerminal(f) ==
  /\ Move(f, "ended", IF batch.remaining = 1 THEN "last" ELSE "terminal")
  /\ batch' = CountDown(batch, {f})
  /\ UNCHANGED <<selected, canceled, result, terminating, dispatched, session, shown>>

RequestCompletion(f) ==
  /\ Move(f, "last", "terminal")
  /\ batch' = RequestCompletionIfReady(batch)
  /\ UNCHANGED <<selected, canceled, result, terminating, dispatched, session, shown>>

CompleteTerminal ==
  /\ Move(Complete, "ended", "terminal")
  /\ UNCHANGED <<selected, canceled, result, terminating, dispatched, batch, session, shown>>

\* The queue removes and deletes the operation, which releases the batch.
Delete(o) ==
  /\ Move(o, "terminal", "gone")
  /\ batch' = Release(batch, 1)
  /\ UNCHANGED <<selected, canceled, result, terminating, dispatched, session, shown>>

Thread(o) ==
  \/ Pick(o) \/ StartExecution(o) \/ BeginPerform(o)
  \/ \E r \in {"ok", "error"} : Perform(o, r)
  \/ SendEnd(o) \/ Delete(o)
  \/ o \in Files /\ (FileTerminal(o) \/ RequestCompletion(o))
  \/ o = Prepare /\ PrepareTerminal
  \/ o = Complete /\ CompleteTerminal

-----------------------------------------------------------------------------
(***************************************************************************)
(* The window thread: what the End of an operation and the completion      *)
(* message do, and what the user does.                                     *)
(***************************************************************************)

\* QueueRemoteUploadPlan: the operation keeps the reference it takes, the
\* caller's own is released.
QueueRemoteUploadPlan ==
  /\ session = "open" /\ phase[Prepare] = "none"
  /\ phase' = [phase EXCEPT ![Prepare] = "waiting"]
  /\ batch' = [batch EXCEPT !.remaining = Selected, !.refs = 1]
  /\ UNCHANGED <<selected, canceled, result, terminating, dispatched, session, shown>>

\* DispatchRemoteUploadBatch adds every selected file to the scheduler (none is
\* a duplicate: they differ in their paths, and other uploads in their batch);
\* without one the summary is due at once.
DispatchRemoteUploadBatch ==
  /\ phase' = [o \in Ops |-> IF o = Prepare THEN "ended"
                             ELSE IF o \in selected THEN "waiting" ELSE phase[o]]
  /\ batch' = RequestCompletionIfReady([batch EXCEPT !.refs = @ + Selected])
  /\ dispatched' = TRUE

PrepareEnd ==
  /\ session = "open" /\ phase[Prepare] = "ending"
  /\ IF result[Prepare] = "ok" /\ Prepare \notin canceled
       THEN DispatchRemoteUploadBatch
       ELSE Move(Prepare, "ending", "ended") /\ UNCHANGED <<batch, dispatched>>
  /\ UNCHANGED <<selected, canceled, result, terminating, session, shown>>

\* A canceled file has been counted already, whatever its transfer returned; a
\* mutant goes by the result.
OutcomeByResult(f) ==
  IF result[f] = "ok" THEN [batch EXCEPT !.completed = @ + 1]
                      ELSE [batch EXCEPT !.failed = @ + 1]
Outcome(f) ==
  IF f \in canceled THEN batch
  ELSE IF result[f] = "ok" THEN [batch EXCEPT !.completed = @ + 1]
                           ELSE [batch EXCEPT !.failed = @ + 1]

UploadEnd(f) ==
  /\ session = "open"
  /\ Move(f, "ending", "ended")
  /\ batch' = Outcome(f)
  /\ UNCHANGED <<selected, canceled, result, terminating, dispatched, session, shown>>

CompleteEnd ==
  /\ session = "open"
  /\ Move(Complete, "ending", "ended")
  /\ shown' = IF result[Complete] = "ok" THEN shown + 1 ELSE shown
  /\ UNCHANGED <<selected, canceled, result, terminating, dispatched, batch, session>>

\* The message hands its reference over to the new operation.
HandleRemoteUploadBatchCompletion ==
  /\ session = "open" /\ batch.posted > 0
  /\ phase[Complete] \in {"none", "gone"}
  /\ phase' = [phase EXCEPT ![Complete] = "waiting"]
  /\ batch' = [batch EXCEPT !.posted = @ - 1]
  /\ UNCHANGED <<selected, canceled, result, terminating, dispatched, session, shown>>

\* CancelOperation on the row of a waiting file; a mutant forgets that this is
\* the end of the file.
CancelForgetful(f) ==
  /\ session = "open"
  /\ Move(f, "waiting", "gone")
  /\ canceled' = canceled \cup {f}
  /\ batch' = Release(RecordCanceled(batch, {f}), 1)
  /\ UNCHANGED <<selected, result, terminating, dispatched, session, shown>>
CancelOperation(f) ==
  /\ session = "open"
  /\ Move(f, "waiting", "gone")
  /\ canceled' = canceled \cup {f}
  /\ batch' = Release(RequestCompletionIfReady(
                CountDown(RecordCanceled(batch, {f}), {f})), 1)
  /\ UNCHANGED <<selected, result, terminating, dispatched, session, shown>>

\* AbortTransfer reaches the queues one after the other.
AbortActive(o) ==
  /\ session = "open"
  /\ phase[o] \in {"starting", "running"} /\ o \notin canceled
  /\ canceled' = canceled \cup {o}
  /\ batch' = RecordCanceled(batch, {o} \cap Files)
  /\ UNCHANGED <<selected, phase, result, terminating, dispatched, session, shown>>

-----------------------------------------------------------------------------
(***************************************************************************)
(* The window thread: FTPSession::Clear.                                   *)
(***************************************************************************)
Stop(ops) ==
  /\ terminating' = terminating \cup ops
  /\ phase' = [o \in Ops |-> IF o \in ops /\ phase[o] = "ending" THEN "ended" ELSE phase[o]]

\* BeginTeardown on the transfer queue and the workers' queues.
BeginTeardown ==
  LET hit == {o \in Ops \ canceled : phase[o] \in {"picked", "starting", "running"}}
      b   == RecordCanceled(batch, hit \cap Files)
  IN
  /\ session = "open" /\ session' = "closing"
  /\ canceled' = canceled \cup hit
  /\ batch' = IF phase[Prepare] \in Performing /\ ~dispatched
                THEN CancelUnstartedSelectedFiles(b) ELSE b
  /\ Stop({o \in Ops : phase[o] \in Performing})
  /\ UNCHANGED <<selected, result, dispatched, shown>>

\* Deinitialize stops the threads, which pick no operation from now on.
StopThreads ==
  /\ session = "closing" /\ session' = "joining"
  /\ Stop(Live)
  /\ UNCHANGED <<selected, canceled, result, dispatched, batch, shown>>

\* ... and when they have ended, everything left is canceled and deleted, and
\* posted completion messages are discarded.
Drain ==
  LET left == {o \in Live : phase[o] = "waiting"}
      b1 == IF left \cap Files = {} THEN batch
            ELSE RequestCompletionIfReady(
                   CountDown(RecordCanceled(batch, left \cap Files), left \cap Files))
      b2 == IF Prepare \in left THEN CancelUnstartedSelectedFiles(b1) ELSE b1
  IN
  /\ session = "joining" /\ \A o \in Live : phase[o] \in {"waiting", "terminal"}
  /\ session' = "closed"
  /\ canceled' = canceled \cup (left \ {Complete})
  /\ batch' = [Release(b2, Cardinality(Live) + b2.posted) EXCEPT !.posted = 0]
  /\ phase' = [o \in Ops |-> IF o \in Live THEN "gone" ELSE phase[o]]
  /\ UNCHANGED <<selected, result, terminating, dispatched, shown>>

-----------------------------------------------------------------------------
Window ==
  \/ PrepareEnd \/ CompleteEnd \/ HandleRemoteUploadBatchCompletion
  \/ \E f \in Files : UploadEnd(f)

Closing == StopThreads \/ Drain

Next ==
  \/ QueueRemoteUploadPlan \/ BeginTeardown
  \/ Window \/ Closing
  \/ \E f \in Files : CancelOperation(f)
  \/ \E o \in Ops : AbortActive(o) \/ Thread(o)

Spec == Init /\ [][Next]_vars

\* The threads run and the window handles its messages; nobody has to upload,
\* cancel, abort or close.
Fairness ==
  /\ WF_vars(Window) /\ WF_vars(Closing)
  /\ \A o \in Ops : WF_vars(Thread(o))

FairSpec == Spec /\ Fairness

-----------------------------------------------------------------------------
(***************************************************************************)
(* Properties.                                                             *)
(***************************************************************************)
TypeOK ==
  /\ selected \subseteq Files
  /\ phase \in [Ops -> Phases]
  /\ canceled \subseteq Ops /\ terminating \subseteq Ops
  /\ result \in [Ops -> {"ok", "error"}]
  /\ dispatched \in BOOLEAN
  /\ batch \in [completed : Nat, failed : Nat, canceled : Nat, remaining : Nat,
                requested : BOOLEAN, unstarted : BOOLEAN, refs : Nat, posted : Nat]
  /\ session \in {"open", "closing", "joining", "closed"}
  /\ shown \in Nat

\* The summary is shown once, and every selected file is in exactly one of its
\* counts, whatever was canceled or aborted at which moment.
SummaryIsExact ==
  /\ shown <= 1
  /\ shown = 1 => batch.completed + batch.failed + batch.canceled = Selected

\* "a queue marker must never overtake files that are active on another worker"
\* (design document): when the summary is queued, every file is over.
MarkerFollowsFiles ==
  (batch.posted > 0 \/ phase[Complete] # "none") =>
    \A f \in selected : phase[f] \in {"none", "last", "terminal", "gone"}

\* The batch is counted by exactly those that refer to it: no reference is
\* released while an operation or a message still holds it, and none is left.
ReferencesAreHeld == batch.refs = Cardinality(Live) + batch.posted

\* Every file of a queued batch is counted down exactly once.
RemainingIsExact ==
  phase[Prepare] # "none" =>
    batch.remaining =
      IF batch.unstarted THEN 0
      ELSE Selected - Cardinality({f \in selected : phase[f] \in {"last", "terminal", "gone"}})

\* "Its summary is emitted once" (design document): when the summary operation
\* is over and the session still open, the summary has been shown.
SummaryIsEmitted == phase[Complete] = "gone" /\ session = "open" => shown > 0

\* A batch ends with its summary, unless the session is closed or the operation
\* that carries the summary is aborted itself.
BatchIsReported ==
  (phase[Prepare] = "waiting")
    ~> (shown > 0 \/ session = "closed" \/ Complete \in canceled)
=============================================================================
