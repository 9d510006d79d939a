------------------------------ MODULE FTPQueue ------------------------------
(***************************************************************************)
(* One FTPQueue (src/src/FTPQueue.cpp) with the QueueOperations it runs    *)
(* (src/src/QueueOperation.cpp) and the three threads that touch them:     *)
(*                                                                         *)
(*   - the queue thread (QueueLoop), program counter qpc;                  *)
(*   - the window thread, which owns the message queue `posted', handles   *)
(*     notifications, and calls AddQueueOp, CancelQueueOp, AbortActive,    *)
(*     BeginTeardown, ClearQueue and Deinitialize, program counter upc;    *)
(*   - one other thread that calls AddQueueOp, program counter apc: the    *)
(*     NoOp timer of FTPSession on the main queue, the dispatch thread of  *)
(*     ConcurrentUploadScheduler on an upload worker's queue.              *)
(*                                                                         *)
(* A section between m_monitor->Enter() and Exit() is one action; what the *)
(* code does outside the monitor is an action of its own.  The queue's     *)
(* Role says which of the program's queues it is, because FTPSession and   *)
(* the scheduler close them differently.                                   *)
(***************************************************************************)
EXTENDS Naturals, FiniteSets, Sequences, SequencesExt

CONSTANTS
  Ops,          \* the QueueOperation objects that may be created
  AdderOps,     \* those created by the thread that is not the window's
  Transfers,    \* those with a row in the QueueWindow (downloads, uploads)
  Connects,     \* the QueueConnect that FTPSession::Connect adds
  Key,          \* Key[o]: what QueueOperation::Equals compares
  Role,         \* "main", "transfer" or "worker"
  NullOp        \* the NULL pointer

ASSUME OpsAssumption ==
  /\ IsFiniteSet(Ops)
  /\ NullOp \notin Ops
  /\ AdderOps \subseteq Ops
  /\ Transfers \subseteq Ops
  /\ Connects \subseteq Ops \ (AdderOps \cup Transfers)
  /\ DOMAIN Key = Ops

ASSUME RoleAssumption == Role \in {"main", "transfer", "worker"}

\* FTPSession::Clear and ConcurrentUploadScheduler::Deinitialize call
\* BeginTeardown on every queue but the main one.
TearsDown == Role # "main"

Events == {"Add", "Start", "Progress", "End", "Remove"}
Message == [event : Events, op : Ops]
NoMessage == [event |-> "None", op |-> NullOp]
ExecStates == {"Idle", "Starting", "Running", "Finished", "Canceled"}

VARIABLES
  \* members of FTPQueue
  queue, stopping, performing, teardown, activeOp,
  opsEvent,     \* the auto-reset event behind ConditionQueueOps
  \* members of the QueueOperations
  exec,         \* m_executionState
  canceled,     \* the operations whose m_canceled is set
  terminating,  \* ... whose m_terminating is set
  notifSent,    \* m_notifSent
  acked,        \* ... whose ack event is signalled
  opRunning,    \* ... whose m_running is set
  result,       \* m_result; "aborted" is the -1 of a call that saw m_aborting
  created, deleted,
  \* the window: messages posted to it, the one being handled, its list rows
  posted, handling, rows,
  \* FTPClientWrapper::m_aborting
  aborting,
  \* program counters; send is where the queue thread is in SendNotification
  qpc, send, upc, uop, apc, aop

queueVars == <<queue, stopping, performing, teardown, activeOp, opsEvent>>
opVars    == <<exec, canceled, terminating, notifSent, acked, opRunning, result,
               created, deleted>>
winVars   == <<posted, handling, rows>>
pcVars    == <<qpc, send, upc, uop, apc, aop>>
vars      == <<queueVars, opVars, winVars, aborting, pcVars>>

QueuePcs == {"enter", "idleWait", "start", "starting", "handoff", "begin",
             "performing", "progress", "finish", "unset", "end", "ended",
             "remove", "pop", "stop", "exited"}
WindowPcs == {"idle", "pushing", "abortCall", "teardownAbort", "tornDown",
              "closing", "deinit", "waitStop", "drain", "closed"}
AdderPcs == {"idle", "awaiting", "push"}

\* The states in which the queue thread works on the operation it picked.
Working == {"start", "starting", "handoff", "begin", "performing", "progress",
            "finish", "unset", "end", "ended", "remove", "pop"}

Queued == ToSet(queue)
Live == created \ deleted

\* The queue's constructor and Initialize: the thread has just been created.
Init ==
  /\ queue = <<>> /\ stopping = FALSE /\ performing = FALSE
  /\ teardown = FALSE /\ activeOp = NullOp /\ opsEvent = FALSE
  /\ exec = [o \in Ops |-> "Idle"]
  /\ notifSent = [o \in Ops |-> {}]
  /\ result = [o \in Ops |-> "none"]
  /\ canceled = {} /\ terminating = {} /\ acked = {} /\ opRunning = {}
  /\ created = {} /\ deleted = {}
  /\ posted = <<>> /\ handling = NoMessage /\ rows = {}
  /\ aborting = FALSE
  /\ qpc = "enter" /\ send = "none"
  /\ upc = "idle" /\ uop = NullOp
  /\ apc = "idle" /\ aop = NullOp

-----------------------------------------------------------------------------
(***************************************************************************)
(* QueueOperation's execution state: one compare-and-swap each.            *)
(***************************************************************************)
CancelExecutable(o, allowIdle) ==
  \/ exec[o] \in {"Starting", "Running"}
  \/ allowIdle /\ exec[o] = "Idle"

\* FinishExecution's compare-and-swap, and a mutant that just writes.
FinishAlways(state) == "Finished"
FinishedFrom(state) == IF state = "Running" THEN "Finished" ELSE state

\* Terminate: nothing is posted for these operations any more, and a thread
\* that waits for their acknowledgement goes on.  The mutant does not signal.
TerminateSilently(ops) ==
  /\ terminating' = terminating \cup ops
  /\ UNCHANGED acked
Terminate(ops) ==
  /\ terminating' = terminating \cup ops
  /\ acked' = acked \cup ops

\* The wait in SendNotification; the mutant posts and goes on.
AcknowledgedAlways(o) == o \in Ops
Acknowledged(o) == o \in acked

\* PeekMessage until none is left: every notification of the window goes,
\* whatever operation it is about.  The mutant leaves them.
KeepPendingNotifications == UNCHANGED posted
ClearPendingNotifications == posted' = <<>>

\* QueueOperation::Equals: transfers that run already are never duplicates.
Duplicate(o, p) ==
  /\ Key[o] = Key[p]
  /\ p \in Transfers => p \notin opRunning

\* The scheduler calls a worker queue's AddQueueOp, AbortActive, CancelQueueOp
\* and BeginTeardown inside its own monitor.
SchedulerMonitorFree == Role = "worker" => apc = "idle"

\* SetEvent on ConditionQueueOps when a push made the queue non-empty; mutants
\* that push at the wrong end and that do not signal.
PushFront(o) ==
  /\ queue' = <<o>> \o queue
  /\ opsEvent' = IF queue = <<>> THEN TRUE ELSE opsEvent
PushUnsignaled(o) ==
  /\ queue' = Append(queue, o)
  /\ UNCHANGED opsEvent
PushBack(o) ==
  /\ queue' = Append(queue, o)
  /\ opsEvent' = IF queue = <<>> THEN TRUE ELSE opsEvent

-----------------------------------------------------------------------------
(***************************************************************************)
(* The queue thread.                                                       *)
(***************************************************************************)

\* The monitor section that heads each iteration of QueueLoop.
Enter ==
  /\ qpc = "enter"
  /\ IF stopping
       THEN qpc' = "stop" /\ UNCHANGED <<queueVars, opVars, send>>
       ELSE IF queue = <<>>
         THEN /\ qpc' = "idleWait" /\ opsEvent' = FALSE
              /\ UNCHANGED <<queue, stopping, performing, teardown, activeOp,
                             opVars, send>>
         ELSE /\ activeOp' = Head(queue)
              /\ performing' = TRUE
              /\ exec' = [exec EXCEPT ![Head(queue)] = "Idle"]
              /\ qpc' = "start" /\ send' = "mark"
              /\ UNCHANGED <<queue, stopping, teardown, opsEvent, canceled,
                             terminating, notifSent, acked, opRunning, result,
                             created, deleted>>
  /\ UNCHANGED <<winVars, aborting, upc, uop, apc, aop>>

\* Monitor::Wait(ConditionQueueOps) returns.
WakeUp ==
  /\ qpc = "idleWait" /\ opsEvent
  /\ opsEvent' = FALSE
  /\ qpc' = "enter"
  /\ UNCHANGED <<queue, stopping, performing, teardown, activeOp, opVars,
                 winVars, aborting, send, upc, uop, apc, aop>>

\* A mutant that sends End where Remove is due.
EventAtWrong == [start |-> "Start", progress |-> "Progress", end |-> "End",
                 remove |-> "End"]

\* Which notification the queue thread sends at a program counter, and where
\* it goes on afterwards.
EventAt == [start |-> "Start", progress |-> "Progress", end |-> "End",
            remove |-> "Remove"]
AfterSend == [start |-> "starting", progress |-> "performing",
              end |-> "ended", remove |-> "pop"]
Sending == DOMAIN EventAt
SendDone == qpc' = AfterSend[qpc] /\ send' = "none"

\* QueueOperation::SendNotification off the window thread: the test and the
\* update of m_notifSent, which no lock covers, ...
MarkSent ==
  /\ qpc \in Sending /\ send = "mark"
  /\ notifSent' = [notifSent EXCEPT ![activeOp] = @ \cup {EventAt[qpc]}]
  /\ IF qpc # "progress" /\ EventAt[qpc] \in notifSent[activeOp]
       THEN SendDone
       ELSE qpc' = qpc /\ send' = "post"
  /\ UNCHANGED <<queueVars, exec, canceled, terminating, acked, opRunning,
                 result, created, deleted, winVars, aborting, upc, uop, apc, aop>>

\* ... PostMessage unless the operation is being terminated, ...
PostNotification ==
  /\ qpc \in Sending /\ send = "post"
  /\ IF activeOp \in terminating
       THEN SendDone /\ UNCHANGED <<posted, acked>>
       ELSE /\ posted' = Append(posted, [event |-> EventAt[qpc], op |-> activeOp])
            /\ acked' = acked \ {activeOp}
            /\ send' = "wait" /\ qpc' = qpc
  /\ UNCHANGED <<queueVars, exec, canceled, terminating, notifSent, opRunning,
                 result, created, deleted, handling, rows, aborting, upc, uop,
                 apc, aop>>

\* ... and the wait for AckNotification or Terminate.
AwaitAck ==
  /\ qpc \in Sending /\ send = "wait" /\ Acknowledged(activeOp)
  /\ acked' = acked \ {activeOp}
  /\ SendDone
  /\ UNCHANGED <<queueVars, exec, canceled, terminating, notifSent, opRunning,
                 result, created, deleted, winVars, aborting, upc, uop, apc, aop>>

\* op->SetRunning(true), then Sleep(500).
SetRunning ==
  /\ qpc = "starting"
  /\ opRunning' = opRunning \cup {activeOp}
  /\ qpc' = "handoff"
  /\ UNCHANGED <<queueVars, exec, canceled, terminating, notifSent, acked,
                 result, created, deleted, winVars, aborting, send, upc, uop,
                 apc, aop>>

\* StartExecution; an operation canceled in between is only marked.
StartExecution ==
  /\ qpc = "handoff"
  /\ IF exec[activeOp] = "Idle"
       THEN /\ exec' = [exec EXCEPT ![activeOp] = "Starting"]
            /\ qpc' = "begin" /\ UNCHANGED canceled
       ELSE /\ canceled' = canceled \cup {activeOp}
            /\ qpc' = "unset" /\ UNCHANGED exec
  /\ UNCHANGED <<queueVars, terminating, notifSent, acked, opRunning, result,
                 created, deleted, winVars, aborting, send, upc, uop, apc, aop>>

\* BeginPerform, the first call of every Perform.
BeginPerform ==
  /\ qpc = "begin"
  /\ IF exec[activeOp] \in {"Starting", "Idle"}
       THEN exec' = [exec EXCEPT ![activeOp] = "Running"] /\ qpc' = "performing"
       ELSE qpc' = "finish" /\ UNCHANGED exec
  /\ UNCHANGED <<queueVars, canceled, terminating, notifSent, acked, opRunning,
                 result, created, deleted, winVars, aborting, send, upc, uop,
                 apc, aop>>

\* The wrapper reports progress (OnDataReceived, OnDataSent); at most one
\* report per operation keeps the model finite.
ReportProgress ==
  /\ qpc = "performing" /\ "Progress" \notin notifSent[activeOp]
  /\ qpc' = "progress" /\ send' = "mark"
  /\ UNCHANGED <<queueVars, opVars, winVars, aborting, upc, uop, apc, aop>>

\* The client call of Perform returns.  A call that polls m_aborting may give
\* up because of it; OnReturn resets the flag in either case.
ClientReturn ==
  /\ qpc = "performing"
  /\ \E r \in {"ok", "error"} \cup (IF aborting THEN {"aborted"} ELSE {}) :
       result' = [result EXCEPT ![activeOp] = r]
  /\ aborting' = FALSE
  /\ qpc' = "finish"
  /\ UNCHANGED <<queueVars, exec, canceled, terminating, notifSent, acked,
                 opRunning, created, deleted, winVars, send, upc, uop, apc, aop>>

FinishExecution ==
  /\ qpc = "finish"
  /\ exec' = [exec EXCEPT ![activeOp] = FinishedFrom(@)]
  /\ qpc' = "unset"
  /\ UNCHANGED <<queueVars, canceled, terminating, notifSent, acked, opRunning,
                 result, created, deleted, winVars, aborting, send, upc, uop,
                 apc, aop>>

\* op->SetRunning(false), then the End notification.
UnsetRunning ==
  /\ qpc = "unset"
  /\ opRunning' = opRunning \ {activeOp}
  /\ qpc' = "end" /\ send' = "mark"
  /\ UNCHANGED <<queueVars, exec, canceled, terminating, notifSent, acked,
                 result, created, deleted, winVars, aborting, upc, uop, apc, aop>>

\* OnQueueTerminal returns NULL for every operation, so only the unlocked
\* test of m_stopping is left; a stopping queue keeps the operation.
Ended ==
  /\ qpc = "ended"
  /\ IF stopping THEN qpc' = "stop" /\ send' = send
                 ELSE qpc' = "remove" /\ send' = "mark"
  /\ UNCHANGED <<queueVars, opVars, winVars, aborting, upc, uop, apc, aop>>

\* m_queue.pop_front(), the terminal callback and delete op.
PopFront ==
  /\ qpc = "pop"
  /\ queue' = Tail(queue)
  /\ deleted' = deleted \cup {Head(queue)}
  /\ activeOp' = NullOp /\ performing' = FALSE
  /\ qpc' = "enter"
  /\ UNCHANGED <<stopping, teardown, opsEvent, exec, canceled, terminating,
                 notifSent, acked, opRunning, result, created, winVars, aborting,
                 send, upc, uop, apc, aop>>

\* The section after the loop, which signals ConditionQueueStop.
StopThread ==
  /\ qpc = "stop"
  /\ performing' = FALSE
  /\ qpc' = "exited"
  /\ UNCHANGED <<queue, stopping, teardown, activeOp, opsEvent, opVars, winVars,
                 aborting, send, upc, uop, apc, aop>>

QueueThread ==
  \/ Enter \/ WakeUp \/ MarkSent \/ PostNotification \/ AwaitAck
  \/ SetRunning \/ StartExecution \/ BeginPerform \/ ReportProgress
  \/ ClientReturn \/ FinishExecution \/ UnsetRunning \/ Ended \/ PopFront
  \/ StopThread

-----------------------------------------------------------------------------
(***************************************************************************)
(* The window thread: messages.                                            *)
(***************************************************************************)
MessageLoop == upc \in {"idle", "closed"} /\ handling = NoMessage

\* NotifyMessageAdd, NotifyMessageRemove and NotifyMessageProgress.
HandleRowMessage ==
  /\ MessageLoop /\ posted # <<>>
  /\ Head(posted).event \in {"Add", "Remove", "Progress"}
  /\ LET m == Head(posted) IN
       /\ posted' = Tail(posted)
       /\ acked' = acked \cup {m.op}
       /\ rows' = CASE m.event = "Add"    -> rows \cup ({m.op} \cap Transfers)
                    [] m.event = "Remove" -> rows \ {m.op}
                    [] OTHER              -> rows
  /\ UNCHANGED <<queueVars, exec, canceled, terminating, notifSent, opRunning,
                 result, created, deleted, handling, aborting, pcVars>>

\* NotifyMessageStart and NotifyMessageEnd: OnEvent runs, and may itself add
\* operations or close the session, before the acknowledgement.
HandleEvent ==
  /\ MessageLoop /\ posted # <<>>
  /\ Head(posted).event \in {"Start", "End"}
  /\ handling' = Head(posted)
  /\ posted' = Tail(posted)
  /\ UNCHANGED <<queueVars, opVars, rows, aborting, pcVars>>

\* The End of a QueueConnect that failed: OnEvent calls TerminateSession and
\* returns 1, so that MessageProc does not acknowledge.
FailedConnect(m) ==
  m.event = "End" /\ m.op \in Connects /\ result[m.op] \in {"error", "aborted"}

\* A mutant that acknowledges without a message.
AckNothing ==
  /\ upc \in {"idle", "closed"}
  /\ acked' = acked \cup {handling.op}
  /\ handling' = NoMessage
  /\ UNCHANGED <<queueVars, exec, canceled, terminating, notifSent, opRunning,
                 result, created, deleted, posted, rows, aborting, pcVars>>

AckNotification ==
  /\ upc \in {"idle", "closed"} /\ handling # NoMessage
  /\ ~FailedConnect(handling)
  /\ acked' = acked \cup {handling.op}
  /\ handling' = NoMessage
  /\ UNCHANGED <<queueVars, exec, canceled, terminating, notifSent, opRunning,
                 result, created, deleted, posted, rows, aborting, pcVars>>

\* The user refused TerminateSession's question, and the message is dropped
\* although the queue goes on; the other outcome is ClearQueue below.
DropNotification ==
  /\ upc \in {"idle", "closed"} /\ FailedConnect(handling)
  /\ handling' = NoMessage
  /\ UNCHANGED <<queueVars, opVars, posted, rows, aborting, pcVars>>

-----------------------------------------------------------------------------
(***************************************************************************)
(* The window thread: the queue's operations.                              *)
(***************************************************************************)

\* FTPSession::Connect queues the connect before anything else, and once.
InSessionOrder(o) == o \in Connects <=> Role = "main" /\ created = {}

\* AddQueueOp up to the second monitor section: duplicates are deleted, the
\* Add notification is handled at once because the caller is the window.
AddQueueOp(o) ==
  /\ upc = "idle" /\ o \in Ops \ AdderOps /\ o \notin created
  /\ InSessionOrder(o)
  /\ created' = created \cup {o}
  /\ IF \E p \in Queued : Duplicate(o, p)
       THEN /\ deleted' = deleted \cup {o}
            /\ UNCHANGED <<notifSent, rows, upc, uop>>
       ELSE /\ notifSent' = [notifSent EXCEPT ![o] = @ \cup {"Add"}]
            /\ rows' = rows \cup ({o} \cap Transfers)
            /\ upc' = "pushing" /\ uop' = o
            /\ UNCHANGED deleted
  /\ UNCHANGED <<queueVars, exec, canceled, terminating, acked, opRunning,
                 result, posted, handling, aborting, qpc, send, apc, aop>>

AddQueueOpPush ==
  /\ upc = "pushing"
  /\ PushBack(uop)
  /\ upc' = "idle" /\ uop' = NullOp
  /\ UNCHANGED <<stopping, performing, teardown, activeOp, opVars, winVars,
                 aborting, qpc, send, apc, aop>>

\* "Cannot cancel running operation, only abort", and a mutant without it.
CancelableAlways(i) == i \in 1..Len(queue)
Cancelable(i) == performing => i # 1

\* CancelQueueOp for the selected row: the front of a performing queue can
\* only be aborted, anything else queued is removed and deleted.
CancelQueueOp(i) ==
  /\ upc = "idle" /\ handling = NoMessage
  /\ i \in 1..Len(queue) /\ queue[i] \in rows \ opRunning
  /\ Cancelable(i)
  /\ SchedulerMonitorFree
  /\ LET o == queue[i] IN
       /\ queue' = RemoveAt(queue, i)
       /\ canceled' = canceled \cup {o}
       /\ notifSent' = [notifSent EXCEPT ![o] = @ \cup {"Remove"}]
       /\ rows' = rows \ {o}
       /\ deleted' = deleted \cup {o}
  /\ UNCHANGED <<stopping, performing, teardown, activeOp, opsEvent, exec,
                 terminating, acked, opRunning, result, created, posted,
                 handling, aborting, pcVars>>

\* AbortActive: the monitor section, and m_wrapper->Abort() after it.
AbortActive ==
  /\ upc = "idle" /\ handling = NoMessage /\ TearsDown
  /\ performing /\ CancelExecutable(activeOp, FALSE)
  /\ SchedulerMonitorFree
  /\ exec' = [exec EXCEPT ![activeOp] = "Canceled"]
  /\ canceled' = canceled \cup {activeOp}
  /\ upc' = IF exec[activeOp] = "Running" THEN "abortCall" ELSE upc
  /\ UNCHANGED <<queueVars, terminating, notifSent, acked, opRunning, result,
                 created, deleted, winVars, aborting, qpc, send, uop, apc, aop>>

AbortCall ==
  /\ upc = "abortCall"
  /\ aborting' = TRUE
  /\ upc' = "idle"
  /\ UNCHANGED <<queueVars, opVars, winVars, qpc, send, uop, apc, aop>>

-----------------------------------------------------------------------------
(***************************************************************************)
(* The window thread: closing the queue.  FTPSession::Clear calls          *)
(* BeginTeardown, ClearQueue(true), Abort and Deinitialize on the transfer *)
(* queue and ClearQueue(false), Abort and Deinitialize on the main queue;  *)
(* ConcurrentUploadScheduler calls BeginTeardown, joins its dispatch       *)
(* thread and calls Deinitialize on a worker's queue.                      *)
(***************************************************************************)
BeginTeardown ==
  /\ upc = "idle" /\ handling = NoMessage /\ TearsDown
  /\ SchedulerMonitorFree
  /\ teardown' = TRUE
  /\ IF performing
       THEN LET hit == CancelExecutable(activeOp, TRUE) IN
            /\ exec' = IF hit THEN [exec EXCEPT ![activeOp] = "Canceled"] ELSE exec
            /\ canceled' = IF hit THEN canceled \cup {activeOp} ELSE canceled
            /\ Terminate({activeOp})
            /\ ClearPendingNotifications
            /\ upc' = IF exec[activeOp] = "Running" THEN "teardownAbort"
                                                    ELSE "tornDown"
       ELSE upc' = "tornDown" /\ UNCHANGED <<exec, canceled, terminating, acked, posted>>
  /\ UNCHANGED <<queue, stopping, performing, activeOp, opsEvent, notifSent,
                 opRunning, result, created, deleted, handling, rows, aborting,
                 qpc, send, uop, apc, aop>>

TeardownAbort ==
  /\ upc = "teardownAbort"
  /\ aborting' = TRUE
  /\ upc' = "tornDown"
  /\ UNCHANGED <<queueVars, opVars, winVars, qpc, send, uop, apc, aop>>

\* What ClearQueue leaves in m_queue, mutants that leave everything and not
\* even the operation being performed, and what it drops.
KeptAll == queue
KeptNothing == <<>>
Kept == IF performing THEN <<Head(queue)>> ELSE <<>>
Dropped == ToSet(IF performing THEN Tail(queue) ELSE queue)

\* ClearQueue: everything but the operation being performed is canceled,
\* removed from the list and deleted.  A main queue is closed from the
\* message loop or from the End event of a failed QueueConnect; completion
\* markers never stand in a queue that is cleared without suppression.
ClearQueue ==
  /\ \/ /\ Role = "main" /\ upc = "idle"
        /\ handling = NoMessage \/ FailedConnect(handling)
     \/ Role = "transfer" /\ upc = "tornDown"
  /\ queue' = Kept
  /\ canceled' = canceled \cup Dropped
  /\ notifSent' = [o \in Ops |-> IF o \in Dropped THEN notifSent[o] \cup {"Remove"}
                                                  ELSE notifSent[o]]
  /\ rows' = rows \ Dropped
  /\ deleted' = deleted \cup Dropped
  /\ upc' = "closing"
  /\ UNCHANGED <<stopping, performing, teardown, activeOp, opsEvent, exec,
                 terminating, acked, opRunning, result, created, posted,
                 handling, aborting, qpc, send, uop, apc, aop>>

\* FTPSession::Clear aborts the wrapper before it stops the queue.
AbortWrapper ==
  /\ upc = "closing"
  /\ aborting' = TRUE
  /\ upc' = "deinit"
  /\ UNCHANGED <<queueVars, opVars, winVars, qpc, send, uop, apc, aop>>

\* Deinitialize up to Wait(ConditionQueueStop).  On a queue that was not torn
\* down the End of the operation being performed is handled right here.
Deinitialize ==
  /\ \/ upc = "deinit"
     \/ Role = "worker" /\ upc = "tornDown"
  /\ stopping' = TRUE
  /\ Terminate(Queued)
  /\ notifSent' = IF performing /\ ~teardown
                    THEN [notifSent EXCEPT ![Head(queue)] = @ \cup {"End"}]
                    ELSE notifSent
  /\ opsEvent' = TRUE
  /\ upc' = "waitStop"
  /\ UNCHANGED <<queue, performing, teardown, activeOp, exec, canceled,
                 opRunning, result, created, deleted, winVars, aborting, qpc,
                 send, uop, apc, aop>>

\* Wait(ConditionQueueStop) and WaitForSingleObject(threadHandle) return.
JoinThread ==
  /\ upc = "waitStop" /\ qpc = "exited"
  /\ upc' = "drain"
  /\ UNCHANGED <<queueVars, opVars, winVars, aborting, qpc, send, uop, apc, aop>>

\* One round of the loop that deletes what is left in m_queue.
\* ClearPendingNotifications removes every notification of the window.
DrainOne ==
  /\ upc = "drain" /\ queue # <<>>
  /\ LET o == Head(queue) IN
       /\ canceled' = IF o # activeOp THEN canceled \cup {o} ELSE canceled
       /\ rows' = IF "Remove" \in notifSent[o] THEN rows ELSE rows \ {o}
       /\ notifSent' = [notifSent EXCEPT ![o] = @ \cup {"Remove"}]
       /\ deleted' = deleted \cup {o}
  /\ ClearPendingNotifications
  /\ queue' = Tail(queue)
  /\ UNCHANGED <<stopping, performing, teardown, activeOp, opsEvent, exec,
                 terminating, acked, opRunning, result, created, handling,
                 aborting, pcVars>>

\* The loop over m_queue has ended; a mutant that skips it.
DrainedAlways == upc = "drain"
Drained == queue = <<>>

\* The members are reset and the caller deletes the queue.  A window
\* procedure that closed the session does not acknowledge its message.
DeinitializeDone ==
  /\ upc = "drain" /\ Drained
  /\ stopping' = FALSE /\ performing' = FALSE /\ teardown' = FALSE
  /\ activeOp' = NullOp
  /\ handling' = NoMessage
  /\ upc' = "closed"
  /\ UNCHANGED <<queue, opsEvent, opVars, posted, rows, aborting, qpc, send,
                 uop, apc, aop>>

WindowThread ==
  \/ HandleRowMessage \/ HandleEvent \/ AckNotification \/ DropNotification
  \/ AddQueueOpPush \/ AbortCall \/ TeardownAbort \/ AbortWrapper
  \/ JoinThread \/ DrainOne \/ DeinitializeDone

\* What the user or a window procedure decides to do.
WindowRequest ==
  \/ \E o \in Ops : AddQueueOp(o)
  \/ \E i \in 1..Len(queue) : CancelQueueOp(i)
  \/ AbortActive \/ BeginTeardown

\* Once a close has begun, Clear runs through.
CloseThread == (Role = "transfer" /\ ClearQueue) \/ Deinitialize

-----------------------------------------------------------------------------
(***************************************************************************)
(* The other thread that adds operations.  The NoOp timer announces its    *)
(* operation to the window and waits for the acknowledgement; the dispatch *)
(* thread passes sendAddNotification = false to an idle worker, its        *)
(* operation has a row since the scheduler accepted it, and it stops       *)
(* before BeginTeardown.                                                   *)
(***************************************************************************)
AdderCalls(o) ==
  /\ apc = "idle" /\ o \in AdderOps /\ o \notin created
  /\ InSessionOrder(o)
  /\ IF Role = "worker" THEN upc = "idle" /\ queue = <<>> ELSE upc # "closed"
  /\ created' = created \cup {o}

\* The queue is being torn down or stopped, or holds the operation already.
AdderRefused(o) ==
  /\ AdderCalls(o)
  /\ teardown \/ stopping \/ \E p \in Queued : Duplicate(o, p)
  /\ canceled' = IF teardown \/ stopping THEN canceled \cup {o} ELSE canceled
  /\ deleted' = deleted \cup {o}
  /\ UNCHANGED <<queueVars, exec, terminating, notifSent, acked, opRunning,
                 result, winVars, aborting, pcVars>>

AdderAccepted(o) ==
  /\ AdderCalls(o)
  /\ ~teardown /\ ~stopping /\ \A p \in Queued : ~Duplicate(o, p)
  /\ notifSent' = [notifSent EXCEPT ![o] = @ \cup {"Add"}]
  /\ aop' = o
  /\ UNCHANGED <<queueVars, exec, canceled, terminating, acked, opRunning,
                 result, deleted, handling, aborting, qpc, send, upc, uop>>

TimerAdd(o) ==
  /\ Role # "worker" /\ AdderAccepted(o)
  /\ posted' = Append(posted, [event |-> "Add", op |-> o])
  /\ apc' = "awaiting"
  /\ UNCHANGED rows

DispatcherAdd(o) ==
  /\ Role = "worker" /\ AdderAccepted(o)
  /\ rows' = rows \cup ({o} \cap Transfers)
  /\ apc' = "push"
  /\ UNCHANGED posted

AdderAwaitAck ==
  /\ apc = "awaiting" /\ Acknowledged(aop)
  /\ acked' = acked \ {aop}
  /\ apc' = "push"
  /\ UNCHANGED <<queueVars, exec, canceled, terminating, notifSent, opRunning,
                 result, created, deleted, winVars, aborting, qpc, send, upc,
                 uop, aop>>

\* The second monitor section, which does not look at m_teardown or
\* m_stopping again.  A queue deleted meanwhile is outside the model.
AdderPush ==
  /\ apc = "push" /\ upc # "closed"
  /\ PushBack(aop)
  /\ apc' = "idle" /\ aop' = NullOp
  /\ UNCHANGED <<stopping, performing, teardown, activeOp, opVars, winVars,
                 aborting, qpc, send, upc, uop>>

AdderThread == AdderAwaitAck \/ AdderPush

-----------------------------------------------------------------------------
Next ==
  \/ QueueThread
  \/ WindowThread \/ WindowRequest \/ ClearQueue \/ Deinitialize
  \/ AdderThread
  \/ \E o \in Ops : AdderRefused(o) \/ TimerAdd(o) \/ DispatcherAdd(o)

Spec == Init /\ [][Next]_vars

\* The threads run, the window keeps handling its messages and a close that
\* has begun goes on; nobody is obliged to add, cancel, abort or close.
Fairness ==
  /\ WF_vars(QueueThread)
  /\ WF_vars(WindowThread)
  /\ WF_vars(CloseThread)
  /\ WF_vars(AdderThread)

FairSpec == Spec /\ Fairness
-----------------------------------------------------------------------------
(***************************************************************************)
(* Properties.                                                             *)
(***************************************************************************)
FlagTypes ==
  /\ stopping \in BOOLEAN /\ performing \in BOOLEAN /\ teardown \in BOOLEAN
  /\ opsEvent \in BOOLEAN /\ aborting \in BOOLEAN

OpTypes ==
  /\ queue \in Seq(Ops)
  /\ activeOp \in Ops \cup {NullOp}
  /\ exec \in [Ops -> ExecStates]
  /\ notifSent \in [Ops -> SUBSET Events]
  /\ result \in [Ops -> {"none", "ok", "error", "aborted"}]
  /\ canceled \in SUBSET Ops /\ terminating \in SUBSET Ops
  /\ acked \in SUBSET Ops /\ opRunning \in SUBSET Ops
  /\ created \in SUBSET Ops /\ deleted \in SUBSET Ops

WindowTypes ==
  /\ posted \in Seq(Message)
  /\ handling \in Message \cup {NoMessage}
  /\ rows \in SUBSET Ops

PcTypes ==
  /\ qpc \in QueuePcs /\ send \in {"none", "mark", "post", "wait"}
  /\ upc \in WindowPcs /\ uop \in Ops \cup {NullOp}
  /\ apc \in AdderPcs /\ aop \in Ops \cup {NullOp}

TypeOK == FlagTypes /\ OpTypes /\ WindowTypes /\ PcTypes

\* QueueLoop pops m_queue.front() without looking whether it still is the
\* operation it picked: whatever AddQueueOp, CancelQueueOp and ClearQueue did
\* meanwhile, the front of a performing queue is the active operation, and
\* the thread's operation is alive until the thread deletes it.
ActiveIsFront ==
  /\ performing => queue # <<>> /\ Head(queue) = activeOp
  /\ qpc \in Working => performing /\ activeOp \in Live

\* Every operation in m_queue is alive and stands there once, so no path
\* deletes an operation twice or leaves a deleted one queued.
QueueHoldsLiveOps ==
  /\ Queued \subseteq Live
  /\ IsInjective(queue)

\* The queue and its thread agree: the two above, together.
QueueIsSound == ActiveIsFront /\ QueueHoldsLiveOps

\* An operation reported canceled never also finishes: the cancellations of
\* AbortActive, BeginTeardown and StartExecution and FinishExecution compete
\* for m_executionState and exactly one wins, however late the abort is.
CancelExcludesFinish ==
  \A o \in canceled : exec[o] \in {"Idle", "Canceled"}

\* The window never finds a message whose operation has been deleted, in
\* particular not after the session is closed.
MessagesAreLive ==
  upc \in {"idle", "closed"} =>
    \A i \in 1..Len(posted) : posted[i].op \in Live

\* While the session is open the rows of the QueueWindow are transfers that
\* are queued, being added or being performed.
RowsAreQueuedWhileOpen ==
  upc \in {"idle", "pushing", "abortCall"} =>
    rows \subseteq Queued \cup {uop, aop}

\* The Start message of an operation is handled before the operation can be
\* performed, unless the operation is being terminated.
StartPrecedesPerform ==
  \A i \in 1..Len(posted) :
    posted[i].event = "Start" /\ posted[i].op \notin terminating
      => exec[posted[i].op] \in {"Idle", "Canceled"}

\* Once Deinitialize has returned, every operation the queue accepted has
\* been deleted: only one the adding thread still holds is left.
ClosedLeavesNothing ==
  upc = "closed" => Live \subseteq {aop}

\* Deinitialize always returns: the queue thread, which may be waiting for an
\* acknowledgement, for the network or for work, reaches its end.
DeinitializeReturns == (upc = "waitStop") ~> (upc = "closed")

\* The queue stands still: the End of the failed connect was dropped, and its
\* thread waits for the acknowledgement that nobody is going to give.
ConnectUnacknowledged ==
  /\ qpc = "end" /\ send = "wait" /\ activeOp \notin acked
  /\ FailedConnect([event |-> "End", op |-> activeOp])
  /\ handling = NoMessage
  /\ \A i \in 1..Len(posted) : posted[i].op # activeOp

\* Everything that is queued is eventually deleted: no wake-up and no
\* acknowledgement is lost but the one of a failed connect whose session the
\* user kept (FTPWindow.cpp:2180), and that one costs the whole queue.
QueuedIsServed ==
  \A o \in Ops : (o \in Queued) ~> (o \in deleted \/ ConnectUnacknowledged)

\* docs/index.md:86: "The queue window shows the currently active and queued
\* file transfers": also after the session is closed.
RowsAreQueued == upc \in {"idle", "closed"} => rows \subseteq Queued \cup {aop}

\* docs/superpowers/specs/2026-08-17-concurrent-uploads-and-save-priority-design.md:40:
\* "Session shutdown stops dispatching, aborts all active upload workers": no
\* operation starts to be performed once its queue is torn down.
NoPerformAfterTeardown ==
  [][\A o \in Ops : exec[o] # "Running" /\ exec'[o] = "Running" => ~teardown]_vars

\* The same document, lines 42-44: the Abort command continues "to target only the
\* selected active operation": an operation whose call gave up because of
\* m_aborting is one that was canceled.
AbortHitsItsTarget ==
  upc \in {"idle", "pushing", "abortCall"} =>
    \A o \in Ops : result[o] = "aborted" => exec[o] = "Canceled"

\* "Right-clicking on an item allows to abort or cancel it, depending whether
\* the transfer is active or queued" (docs/index.md): AbortActive takes effect on
\* every operation whose row offers Abort.
RunningIsAbortable == \A o \in opRunning : exec[o] # "Idle"

\* FTPQueue.cpp: "Can safely inform queueWindow, Add is called by window
\* thread": an Add notification is never posted from elsewhere.
AddIsCalledByWindow ==
  \A i \in 1..Len(posted) : posted[i].event # "Add"

-----------------------------------------------------------------------------
(***************************************************************************)
(* The inductive invariant behind ActiveIsFront, QueueHoldsLiveOps and     *)
(* CancelExcludesFinish.                                                   *)
(***************************************************************************)

\* The queue thread's program counter, m_performing, m_activeOp and the front
\* of m_queue agree.
ThreadInv ==
  /\ qpc \in {"enter", "idleWait"} => ~performing /\ activeOp = NullOp
  /\ qpc \in Working => performing
  /\ qpc = "exited" => ~performing
  /\ performing => queue # <<>> /\ Head(queue) = activeOp
  /\ activeOp # NullOp => activeOp \in Queued \cup deleted
  /\ upc \in {"drain", "closed"} => qpc = "exited"
  /\ stopping => upc \in {"waitStop", "drain"}
  /\ qpc \in {"stop", "exited"} => upc \in {"waitStop", "drain", "closed"}

\* An operation between the two monitor sections of AddQueueOp is alive and
\* not queued yet; the two callers never hold the same one.
HolderInv ==
  /\ upc = "pushing" => uop \in Live \ (AdderOps \cup Queued)
  /\ apc # "idle" => aop \in (Live \cap AdderOps) \ Queued

QueueInv == QueueHoldsLiveOps /\ deleted \subseteq created

\* m_executionState follows the thread's program counter; an operation that
\* was never picked is Idle.
ExecInv ==
  /\ qpc \in {"start", "starting", "handoff"} => exec[activeOp] \in {"Idle", "Canceled"}
  /\ qpc = "begin" => exec[activeOp] \in {"Starting", "Canceled"}
  /\ qpc \in {"performing", "progress", "finish"} => exec[activeOp] \in {"Running", "Canceled"}
  /\ qpc \in {"unset", "end", "ended", "remove", "pop"} => exec[activeOp] \in {"Finished", "Canceled"}
  /\ \A o \in Queued \cup (Ops \ created) : o # activeOp => exec[o] = "Idle"
  /\ upc = "pushing" => exec[uop] = "Idle"
  /\ apc # "idle" => exec[aop] = "Idle"

\* A canceled operation is the active one or has been deleted.
CancelInv ==
  /\ CancelExcludesFinish
  /\ canceled \subseteq deleted \cup {activeOp}
  /\ activeOp \in canceled => exec[activeOp] = "Canceled"

IInv == TypeOK /\ ThreadInv /\ HolderInv /\ QueueInv /\ ExecInv /\ CancelInv

\* Behind ClosedLeavesNothing and the refinement: an operation that is not
\* deleted is queued or held by a thread that adds it, and until it is deleted
\* the active one stays in front, also after the thread stopped.
LiveInv ==
  /\ Live \subseteq Queued \cup {uop, aop}
  /\ upc # "pushing" => uop = NullOp
  /\ apc = "idle" => aop = NullOp
  /\ activeOp \in Live => queue # <<>> /\ Head(queue) = activeOp
  /\ upc = "closed" => queue = <<>>

(***************************************************************************)
(* What MessagesAreLive rests on in an upload worker's queue, to which     *)
(* only the dispatch thread adds, one operation at a time.                 *)
(***************************************************************************)
Undelivered == posted # <<>> \/ handling # NoMessage

\* At most one operation is queued or being added, and none once the close
\* has begun; nothing is terminated before.
OneAtATime ==
  /\ apc # "awaiting"
  /\ apc = "push" => queue = <<>>
  /\ queue # <<>> => Tail(queue) = <<>>
  /\ upc \in {"idle", "abortCall", "teardownAbort", "tornDown", "waitStop",
              "drain", "closed"}
  /\ upc \in {"idle", "abortCall"} => terminating = {}
  /\ upc \notin {"idle", "abortCall"} => apc = "idle" /\ handling = NoMessage

\* The queue thread sends where EventAt says so, and never Start twice.
SendInv ==
  /\ send # "none" <=> qpc \in Sending
  /\ \A o \in Queued \cup (Ops \ created) :
       o # activeOp => "Start" \notin notifSent[o]
  /\ apc # "idle" => "Start" \notin notifSent[aop]
  /\ qpc = "start" /\ send = "mark" => "Start" \notin notifSent[activeOp]

\* While the window runs, the one message under way is what the queue thread
\* waits for.
MessageAwaited ==
  upc \in {"idle", "abortCall"} /\ Undelivered =>
    /\ send = "wait" /\ activeOp \notin acked
    /\ posted # <<>> => /\ handling = NoMessage /\ Tail(posted) = <<>>
                        /\ Head(posted).op = activeOp
    /\ handling # NoMessage => handling.op = activeOp

\* Once the close has begun a message can only be the Start of an operation
\* that Deinitialize will find in m_queue.
MessageDrained ==
  /\ upc \in {"teardownAbort", "tornDown"} =>
       /\ qpc \in Working /\ activeOp \notin terminating =>
            qpc = "start" /\ (send = "wait" => activeOp \notin acked)
       /\ posted # <<>> => qpc = "start" /\ send = "wait" /\ activeOp \notin acked
  /\ upc = "waitStop" => Queued \subseteq terminating /\ stopping
  /\ upc \in {"waitStop", "drain"} /\ posted # <<>> =>
       queue # <<>> /\ qpc \notin {"remove", "pop"}
  /\ upc = "closed" => posted = <<>>

WorkerInv == OneAtATime /\ SendInv /\ MessageAwaited /\ MessageDrained

\* What the queue promises, without threads and messages: the active operation
\* no longer waits, although m_queue holds it in front until it is popped.
IsActive == activeOp \in Live
Waiting == IF IsActive THEN Tail(queue) ELSE queue
Active == IF IsActive THEN activeOp ELSE NullOp

Abstract == INSTANCE SerialQueue WITH
  active <- Active, waiting <- Waiting, gone <- deleted

\* The detailed queue implements the abstract one.
ImplementsSerialQueue == Abstract!Spec
=============================================================================
