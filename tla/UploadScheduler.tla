-------------------------- MODULE UploadScheduler --------------------------
(***************************************************************************)
(* ConcurrentUploadScheduler (src/src/ConcurrentUploadScheduler.cpp) with  *)
(* its two lanes (UploadSchedulingPolicy.h), its dispatch thread and its   *)
(* workers.  A worker's FTPQueue is taken as module FTPQueue shows it to   *)
(* behave: one operation at a time, through the phases below.              *)
(*                                                                         *)
(* The window thread is the only caller of AddQueueOp, CancelQueueOp,      *)
(* AbortActive and Deinitialize.  It therefore never finds a pending add   *)
(* of another call, and never adds to a scheduler that stopped accepting.  *)
(*                                                                         *)
(* What the uploads are for is modelled with versions: saved[f] counts the *)
(* times Notepad++ saved the file, remote[f] is the version on the server, *)
(* and an upload reads the file when it starts to be performed.            *)
(***************************************************************************)
EXTENDS Naturals, FiniteSets, Sequences, SequencesExt

CONSTANTS
  Ops,        \* the QueueUpload objects that may be created
  Saves,      \* those of FTPSession::UploadFileCache, which are urgent
  Batched,    \* those of a RemoteUploadBatch
  Files,      \* pairs of a local and a remote path
  File,       \* File[o]: the pair of operation o
  Workers,
  NoOp

ASSUME OpsAssumption ==
  /\ IsFiniteSet(Ops)
  /\ NoOp \notin Ops
  /\ Saves \subseteq Ops /\ Batched \subseteq Ops \ Saves
  /\ File \in [Ops -> Files]

VARIABLES
  urgent, normal,   \* the lanes of m_policy
  adding,           \* m_pendingAdds: the operation being announced
  assigned,         \* Worker::operations, at most one
  phase,            \* where the worker's thread is with it
  canceled,         \* operations whose execution was canceled
  created, gone,
  stopping,         \* m_stopping (and not m_accepting)
  dispatcher,       \* "running" or "exited"
  upc,              \* the window thread
  stopped,          \* the workers whose queue is stopping
  saved, reading, remote,
  lost              \* files whose last saved version was given up

laneVars == <<urgent, normal, adding>>
workVars == <<assigned, phase>>
opVars   == <<canceled, created, gone>>
stopVars == <<stopping, dispatcher, stopped>>
fileVars == <<saved, reading, remote, lost>>
vars     == <<laneVars, workVars, opVars, stopVars, upc, fileVars>>

\* "popped": m_queue.pop_front() is done, the terminal callback is not.
Phases == {"idle", "queued", "picked", "starting", "running", "ended",
           "popped", "exited"}
WindowPcs == {"idle", "adding", "joinDispatcher", "stopWorkers", "waitWorker",
              "deletePending", "closed"}

Waiting == ToSet(urgent) \cup ToSet(normal)
Assigned == {assigned[w] : w \in Workers} \ {NoOp}
Live == created \ gone

Init ==
  /\ urgent = <<>> /\ normal = <<>> /\ adding = NoOp
  /\ assigned = [w \in Workers |-> NoOp]
  /\ phase = [w \in Workers |-> "idle"]
  /\ canceled = {} /\ created = {} /\ gone = {}
  /\ stopping = FALSE /\ dispatcher = "running" /\ stopped = {}
  /\ upc = "idle"
  /\ saved = [f \in Files |-> 0] /\ remote = [f \in Files |-> 0]
  /\ reading = [w \in Workers |-> 0]
  /\ lost = {}

-----------------------------------------------------------------------------
\* QueueUpload::Equals among waiting operations: same paths, same batch.  All
\* uploads of a batch belong to one batch here.
Equals(o, p) == File[o] = File[p] /\ (o \in Batched <=> p \in Batched)

\* A mutant that also takes an upload on a worker for a duplicate, and
\* FindWaitingDuplicateLocked.
DuplicatesAnywhere(o) == {p \in Waiting \cup Assigned : Equals(o, p)}
WaitingDuplicates(o) == {p \in Waiting : Equals(o, p)}

\* QueueUpload::ConflictsWith an assigned upload; a mutant compares objects.
SameObject(o) == o \in Assigned
WorkerConflict(o) == \E p \in Assigned : File[o] = File[p]

\* RemoveFrom: an operation stands in a lane at most once.
RemoveFrom(lane, o) ==
  IF o \in ToSet(lane)
    THEN RemoveAt(lane, CHOOSE i \in 1..Len(lane) : lane[i] = o)
    ELSE lane

\* PromoteWaiting: from the normal lane to the end of the urgent one; a mutant
\* leaves the operation where it is.
PromoteNothing(o) == o \in Ops /\ UNCHANGED <<urgent, normal>>
PromoteWaiting(o) ==
  IF o \in ToSet(urgent)
    THEN UNCHANGED <<urgent, normal>>
    ELSE /\ normal' = RemoveFrom(normal, o)
         /\ urgent' = Append(urgent, o)

\* The place of the first operation of a lane that no worker conflicts with.
FirstMatching(lane, i) ==
  /\ i \in 1..Len(lane) /\ ~WorkerConflict(lane[i])
  /\ \A j \in 1..i-1 : WorkerConflict(lane[j])

NoMatching(lane) == \A i \in 1..Len(lane) : WorkerConflict(lane[i])

-----------------------------------------------------------------------------
(***************************************************************************)
(* The window thread.                                                      *)
(***************************************************************************)

\* AddQueueOp: a duplicate is deleted, an urgent one promotes what waits
\* already; anything else is announced before it enters a lane.
AddQueueOp(o) ==
  /\ upc = "idle" /\ o \notin created
  /\ created' = created \cup {o}
  /\ saved' = IF o \in Saves THEN [saved EXCEPT ![File[o]] = @ + 1] ELSE saved
  /\ lost' = IF o \in Saves THEN lost \ {File[o]} ELSE lost
  /\ IF WaitingDuplicates(o) # {}
       THEN /\ gone' = gone \cup {o} /\ canceled' = canceled \cup {o}
            /\ IF o \in Saves
                 THEN \E p \in WaitingDuplicates(o) : PromoteWaiting(p)
                 ELSE UNCHANGED <<urgent, normal>>
            /\ UNCHANGED <<adding, upc>>
       ELSE /\ adding' = o /\ upc' = "adding"
            /\ UNCHANGED <<urgent, normal, canceled, gone>>
  /\ UNCHANGED <<workVars, stopVars, reading, remote>>

\* The second monitor section of AddQueueOp; UploadSchedulingPolicy::Push.
\* Mutants push without a pending add, and without regard to the priority.
PushUnchecked ==
  /\ upc \in {"idle", "adding"}
  /\ normal' = Append(normal, adding)
  /\ adding' = NoOp /\ upc' = "idle"
  /\ UNCHANGED <<urgent, workVars, opVars, stopVars, fileVars>>
PushNormal ==
  /\ upc = "adding"
  /\ normal' = Append(normal, adding)
  /\ adding' = NoOp /\ upc' = "idle"
  /\ UNCHANGED <<urgent, workVars, opVars, stopVars, fileVars>>
AddQueueOpPush ==
  /\ upc = "adding"
  /\ IF adding \in Saves
       THEN urgent' = Append(urgent, adding) /\ UNCHANGED normal
       ELSE normal' = Append(normal, adding) /\ UNCHANGED urgent
  /\ adding' = NoOp /\ upc' = "idle"
  /\ UNCHANGED <<workVars, opVars, stopVars, fileVars>>

\* CancelQueueOp of a waiting operation; one deque holds it.
CancelWaiting(o) ==
  /\ upc = "idle" /\ o \in Waiting
  /\ urgent' = RemoveFrom(urgent, o) /\ normal' = RemoveFrom(normal, o)
  /\ canceled' = canceled \cup {o} /\ gone' = gone \cup {o}
  /\ lost' = lost \cup {File[o]}
  /\ UNCHANGED <<adding, workVars, created, stopVars, upc, saved, reading, remote>>

\* CancelQueueOp of an assigned operation that the worker's thread has not
\* picked yet; FTPQueue::CancelQueueOp refuses it later, a mutant does not.
CancelPicked(w) ==
  /\ upc = "idle" /\ phase[w] \in {"queued", "picked"}
  /\ assigned' = [assigned EXCEPT ![w] = NoOp]
  /\ phase' = [phase EXCEPT ![w] = "idle"]
  /\ canceled' = canceled \cup {assigned[w]}
  /\ gone' = gone \cup {assigned[w]}
  /\ lost' = lost \cup {File[assigned[w]]}
  /\ UNCHANGED <<laneVars, created, stopVars, upc, saved, reading, remote>>
CancelAssigned(w) ==
  /\ upc = "idle" /\ phase[w] = "queued"
  /\ assigned' = [assigned EXCEPT ![w] = NoOp]
  /\ phase' = [phase EXCEPT ![w] = "idle"]
  /\ canceled' = canceled \cup {assigned[w]}
  /\ gone' = gone \cup {assigned[w]}
  /\ lost' = lost \cup {File[assigned[w]]}
  /\ UNCHANGED <<laneVars, created, stopVars, upc, saved, reading, remote>>

\* AbortActive on every worker's queue.
AbortActive ==
  /\ upc = "idle"
  /\ canceled' = canceled \cup
       {assigned[w] : w \in {v \in Workers : phase[v] \in {"starting", "running"}}}
  /\ UNCHANGED <<laneVars, workVars, created, gone, stopVars, upc, fileVars>>

-----------------------------------------------------------------------------
(***************************************************************************)
(* The dispatch thread: one round of SchedulerLoop.                        *)
(***************************************************************************)
Idle(w) == assigned[w] = NoOp /\ phase[w] = "idle"

Assign(w, o) ==
  /\ assigned' = [assigned EXCEPT ![w] = o]
  /\ phase' = [phase EXCEPT ![w] = "queued"]

\* TakeNextMatching: the urgent lane first; a mutant that does not care.
TakeAny(w) ==
  \/ \E i \in 1..Len(urgent) :
       FirstMatching(urgent, i) /\ Assign(w, urgent[i])
       /\ urgent' = RemoveAt(urgent, i) /\ UNCHANGED normal
  \/ \E i \in 1..Len(normal) :
       FirstMatching(normal, i) /\ Assign(w, normal[i])
       /\ normal' = RemoveAt(normal, i) /\ UNCHANGED urgent
TakeNextMatching(w) ==
  \/ \E i \in 1..Len(urgent) :
       FirstMatching(urgent, i) /\ Assign(w, urgent[i])
       /\ urgent' = RemoveAt(urgent, i) /\ UNCHANGED normal
  \/ /\ NoMatching(urgent)
     /\ \E i \in 1..Len(normal) :
          FirstMatching(normal, i) /\ Assign(w, normal[i])
          /\ normal' = RemoveAt(normal, i) /\ UNCHANGED urgent

Dispatch(w) ==
  /\ dispatcher = "running" /\ ~stopping
  /\ Idle(w)
  /\ TakeNextMatching(w)
  /\ UNCHANGED <<adding, opVars, stopVars, upc, fileVars>>

DispatcherExits ==
  /\ dispatcher = "running" /\ stopping
  /\ dispatcher' = "exited"
  /\ UNCHANGED <<laneVars, workVars, opVars, stopping, stopped, upc, fileVars>>

-----------------------------------------------------------------------------
(***************************************************************************)
(* A worker's queue thread.                                                *)
(***************************************************************************)
Move(w, from, to) == phase[w] = from /\ phase' = [phase EXCEPT ![w] = to]

Pick(w) ==
  /\ w \notin stopped
  /\ Move(w, "queued", "picked")
  /\ UNCHANGED <<laneVars, assigned, opVars, stopVars, upc, fileVars>>

\* An operation canceled before it is performed is given up.
GiveUp(w, from) ==
  /\ assigned[w] \in canceled
  /\ Move(w, from, "ended")
  /\ lost' = lost \cup {File[assigned[w]]}
  /\ UNCHANGED <<laneVars, assigned, opVars, stopVars, upc, saved, reading, remote>>

StartExecution(w) ==
  \/ /\ assigned[w] \notin canceled
     /\ Move(w, "picked", "starting")
     /\ UNCHANGED <<laneVars, assigned, opVars, stopVars, upc, fileVars>>
  \/ GiveUp(w, "picked")

\* BeginPerform, and SendFile opens the local file.
BeginPerform(w) ==
  \/ /\ assigned[w] \notin canceled
     /\ Move(w, "starting", "running")
     /\ reading' = [reading EXCEPT ![w] = saved[File[assigned[w]]]]
     /\ UNCHANGED <<laneVars, assigned, opVars, stopVars, upc, saved, remote, lost>>
  \/ GiveUp(w, "starting")

SendFileOk(w) ==
  LET f == File[assigned[w]] IN
  /\ Move(w, "running", "ended")
  /\ remote' = [remote EXCEPT ![f] = reading[w]]
  /\ UNCHANGED <<laneVars, assigned, opVars, stopVars, upc, saved, reading, lost>>

\* Connecting or sending fails, or gives up because of an abort.
SendFileFails(w) ==
  LET f == File[assigned[w]] IN
  /\ Move(w, "running", "ended")
  /\ lost' = IF reading[w] = saved[f] THEN lost \cup {f} ELSE lost
  /\ UNCHANGED <<laneVars, assigned, opVars, stopVars, upc, saved, reading, remote>>

PopFront(w) ==
  /\ w \notin stopped
  /\ Move(w, "ended", "popped")
  /\ UNCHANGED <<laneVars, assigned, opVars, stopVars, upc, fileVars>>

\* WorkerOperationTerminal, then the queue thread deletes the operation; a
\* mutant forgets operations.erase.
TerminalKeeps(w) ==
  /\ Move(w, "popped", "idle")
  /\ gone' = gone \cup {assigned[w]}
  /\ UNCHANGED <<laneVars, assigned, canceled, created, stopVars, upc, fileVars>>
WorkerOperationTerminal(w) ==
  /\ Move(w, "popped", "idle")
  /\ gone' = gone \cup {assigned[w]}
  /\ assigned' = [assigned EXCEPT ![w] = NoOp]
  /\ UNCHANGED <<laneVars, canceled, created, stopVars, upc, fileVars>>

\* The thread sees m_stopping; a mutant is not woken up when it has no work.
StopWhenBusy(w) ==
  /\ w \in stopped /\ phase[w] \in {"queued", "ended"}
  /\ phase' = [phase EXCEPT ![w] = "exited"]
  /\ UNCHANGED <<laneVars, assigned, opVars, stopVars, upc, fileVars>>
StopThread(w) ==
  /\ w \in stopped /\ phase[w] \in {"idle", "queued", "ended"}
  /\ phase' = [phase EXCEPT ![w] = "exited"]
  /\ UNCHANGED <<laneVars, assigned, opVars, stopVars, upc, fileVars>>

Worker(w) ==
  \/ Pick(w) \/ StartExecution(w) \/ BeginPerform(w) \/ SendFileOk(w)
  \/ SendFileFails(w) \/ PopFront(w) \/ WorkerOperationTerminal(w) \/ StopThread(w)

-----------------------------------------------------------------------------
(***************************************************************************)
(* The window thread: Deinitialize.                                        *)
(***************************************************************************)

\* The first section tears down every worker's queue, which cancels what is
\* being performed there.
Deinitialize ==
  /\ upc = "idle"
  /\ stopping' = TRUE
  /\ canceled' = canceled \cup
       {assigned[w] : w \in {v \in Workers : phase[v] \in {"picked", "starting", "running"}}}
  /\ upc' = "joinDispatcher"
  /\ UNCHANGED <<laneVars, workVars, created, gone, dispatcher, stopped, fileVars>>

\* WaitForSingleObject(dispatchThread) returns.
JoinDispatcher ==
  /\ upc = "joinDispatcher" /\ dispatcher = "exited"
  /\ upc' = "stopWorkers"
  /\ UNCHANGED <<laneVars, workVars, opVars, stopVars, fileVars>>

\* DeleteWorkerList: the queues are deinitialized one after the other.
StopWorker(w) ==
  /\ upc = "stopWorkers" /\ w \notin stopped
  /\ stopped' = stopped \cup {w}
  /\ upc' = "waitWorker"
  /\ UNCHANGED <<laneVars, workVars, opVars, stopping, dispatcher, fileVars>>

\* FTPQueue::Deinitialize after its thread has ended: what is left in the
\* queue is deleted, and WorkerOperationTerminal is called for it; a mutant
\* goes on without.
SkipDrain ==
  /\ upc = "waitWorker" /\ \A w \in stopped : phase[w] = "exited"
  /\ upc' = IF stopped = Workers THEN "deletePending" ELSE "stopWorkers"
  /\ UNCHANGED <<laneVars, workVars, opVars, stopVars, fileVars>>
DrainWorker ==
  /\ upc = "waitWorker" /\ \A w \in stopped : phase[w] = "exited"
  /\ LET left == {assigned[w] : w \in stopped} \ {NoOp} IN
       /\ canceled' = canceled \cup left
       /\ gone' = gone \cup left
       /\ lost' = lost \cup {File[o] : o \in left}
  /\ assigned' = [w \in Workers |-> IF w \in stopped THEN NoOp ELSE assigned[w]]
  /\ upc' = IF stopped = Workers THEN "deletePending" ELSE "stopWorkers"
  /\ UNCHANGED <<laneVars, phase, created, stopVars, saved, reading, remote>>

DeletePendingOperations ==
  /\ upc = "deletePending"
  /\ canceled' = canceled \cup Waiting
  /\ gone' = gone \cup Waiting
  /\ lost' = lost \cup {File[o] : o \in Waiting}
  /\ urgent' = <<>> /\ normal' = <<>>
  /\ upc' = "closed"
  /\ UNCHANGED <<adding, workVars, created, stopVars, saved, reading, remote>>

Closing == JoinDispatcher \/ DrainWorker \/ DeletePendingOperations
           \/ \E w \in Workers : StopWorker(w)

-----------------------------------------------------------------------------
Next ==
  \/ \E o \in Ops : AddQueueOp(o) \/ CancelWaiting(o)
  \/ AddQueueOpPush \/ AbortActive \/ Deinitialize \/ Closing
  \/ DispatcherExits
  \/ \E w \in Workers : Dispatch(w) \/ CancelAssigned(w) \/ Worker(w)

Spec == Init /\ [][Next]_vars

\* The threads run and a call of the window thread returns; nobody has to
\* save, cancel, abort or close.
Fairness ==
  /\ WF_vars(AddQueueOpPush \/ Closing)
  /\ WF_vars(DispatcherExits \/ \E w \in Workers : Dispatch(w))
  /\ \A w \in Workers : WF_vars(Worker(w))

FairSpec == Spec /\ Fairness

-----------------------------------------------------------------------------
(***************************************************************************)
(* Properties.                                                             *)
(***************************************************************************)
TypeOK ==
  /\ urgent \in Seq(Ops) /\ normal \in Seq(Ops) /\ adding \in Ops \cup {NoOp}
  /\ assigned \in [Workers -> Ops \cup {NoOp}]
  /\ phase \in [Workers -> Phases]
  /\ canceled \in SUBSET Ops /\ created \in SUBSET Ops /\ gone \in SUBSET Ops
  /\ stopping \in BOOLEAN /\ dispatcher \in {"running", "exited"}
  /\ stopped \in SUBSET Workers
  /\ upc \in WindowPcs
  /\ saved \in [Files -> Nat] /\ remote \in [Files -> Nat]
  /\ reading \in [Workers -> Nat]
  /\ lost \in SUBSET Files

\* Two workers never transfer between the same two paths at the same time,
\* whatever is canceled, aborted or torn down: their writes to the remote file
\* would mix.
NoConcurrentConflict ==
  \A v, w \in Workers :
    v # w /\ assigned[v] # NoOp /\ assigned[w] # NoOp
      => File[assigned[v]] # File[assigned[w]]

\* Every accepted operation has exactly one owner: one place in one lane, one
\* worker, or the AddQueueOp that announces it.  So none is performed or
\* deleted twice and none is forgotten, and GetQueueSize counts them all.
OneOwner ==
  /\ IsInjective(urgent) /\ IsInjective(normal)
  /\ ToSet(urgent) \cap ToSet(normal) = {}
  /\ Waiting \cap Assigned = {}
  /\ \A v, w \in Workers : v # w /\ assigned[v] = assigned[w] => assigned[v] = NoOp
  /\ Live = Waiting \cup Assigned \cup ({adding} \ {NoOp})
  /\ adding \notin Waiting \cup Assigned

\* "leaves the remote file with the latest saved content" (design document,
\* Save Priority): when no upload of a file is left and none of the latest
\* version failed or was given up, the server has what was saved last.
LatestSaveStored ==
  \A f \in Files \ lost :
    (\A o \in Live : File[o] # f) => remote[f] = saved[f]

\* An upload that started earlier never overwrites the version of one that
\* started later.
ServerNeverGoesBack ==
  [][\A f \in Files : remote'[f] >= remote[f]]_vars

\* The version of f saved last is still to be sent by an urgent upload, or by a
\* worker that has yet to read the file or sends that version now (or whose
\* thread has ended, and whose operation Deinitialize gives up).
UrgentFor(f) == \E o \in ToSet(urgent) \cup ({adding} \cap Saves) : File[o] = f
WorkerFor(f) ==
  \E w \in Workers :
    /\ assigned[w] # NoOp /\ File[assigned[w]] = f
    /\ \/ phase[w] \in {"queued", "picked", "starting", "exited"}
       \/ phase[w] = "running" /\ reading[w] = saved[f]

\* A saved version that is not stored yet is not left to the normal lane,
\* although the upload that waited for the file already was a normal one.
SavesAreUrgent ==
  \A f \in Files \ lost : remote[f] = saved[f] \/ UrgentFor(f) \/ WorkerFor(f)

\* No worker takes a normal upload while a save could have been taken.
UrgentFirst ==
  [][\A w \in Workers, i \in 1..Len(urgent) :
       /\ assigned[w] = NoOp /\ assigned'[w] \in ToSet(normal)
       => WorkerConflict(urgent[i])]_vars

\* Deinitialize leaves no operation behind, and nobody works on one any more.
ClosedLeavesNothing ==
  upc = "closed" => Live = {} /\ \A w \in Workers : phase[w] = "exited"

\* Every operation is performed or withdrawn in the end: a conflict or an
\* urgent upload delays it, but does not block it for ever.
UploadsFinish == \A o \in Ops : (o \in created) ~> (o \in gone)

\* Deinitialize returns, in whatever phase the workers are.
DeinitializeReturns == (upc = "joinDispatcher") ~> (upc = "closed")

-----------------------------------------------------------------------------
(***************************************************************************)
(* The inductive invariant that the proofs rest on.                        *)
(***************************************************************************)

\* A worker's phase says whether it has an operation.
PhaseInv ==
  \A w \in Workers :
    /\ phase[w] = "idle" => assigned[w] = NoOp
    /\ phase[w] \in Phases \ {"idle", "exited"} => assigned[w] # NoOp
    /\ phase[w] = "exited" => w \in stopped

\* Only the AddQueueOp in progress has an operation outside lanes and workers.
AddingInv ==
  /\ upc = "adding" <=> adding # NoOp
  /\ gone \subseteq created

\* How far Deinitialize is, and what is over by then.
StopInv ==
  /\ upc \in {"idle", "adding"} => ~stopping
  /\ upc \in {"idle", "adding", "joinDispatcher"} => stopped = {}
  /\ upc \in {"stopWorkers", "waitWorker", "deletePending", "closed"}
       => dispatcher = "exited"
  /\ upc \in {"stopWorkers", "deletePending", "closed"}
       => \A w \in stopped : phase[w] = "exited" /\ assigned[w] = NoOp
  /\ upc \in {"deletePending", "closed"} => stopped = Workers
  /\ upc = "closed" => urgent = <<>> /\ normal = <<>>

\* What is being sent is not older than what the server has.
VersionInv ==
  /\ \A f \in Files : remote[f] <= saved[f]
  /\ \A w \in Workers :
       phase[w] = "running" =>
         /\ remote[File[assigned[w]]] <= reading[w]
         /\ reading[w] <= saved[File[assigned[w]]]

IInv ==
  /\ TypeOK /\ PhaseInv /\ AddingInv /\ StopInv
  /\ NoConcurrentConflict /\ OneOwner /\ VersionInv /\ SavesAreUrgent
=============================================================================
