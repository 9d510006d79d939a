------------------------------ MODULE Session ------------------------------
(***************************************************************************)
(* The life of FTPSession (FTPSession.cpp) and what FTPWindow shows of it: *)
(* starting, connecting, transfers, the question whether to disconnect     *)
(* although there are transfers, and Clear.  Three kinds of threads:       *)
(*                                                                         *)
(*   - the window thread.  MessageBox runs a message loop, so messages are *)
(*     handled while a question is open, and one of them may ask again:    *)
(*     `boxes' is the stack of open questions.  The user can do nothing    *)
(*     else until they are answered.                                       *)
(*   - the threads of the queues, which perform the connect and the        *)
(*     transfers and wait for the window between their phases;             *)
(*   - the thread of the keep-alive timer.                                 *)
(***************************************************************************)
EXTENDS Naturals, Sequences, FiniteSets

CONSTANTS
  Transfers,       \* downloads and uploads
  KeepAlive,       \* the profile has a NoOp interval
  MaxGeneration    \* bounds m_generation, and so the number of sessions

ASSUME SessionAssumption ==
  /\ IsFiniteSet(Transfers)
  /\ KeepAlive \in BOOLEAN /\ MaxGeneration \in Nat

VARIABLES
  running,      \* m_running
  generation,   \* m_generation
  objects,      \* what the session has allocated
  refs,         \* references the session holds on profiles
  connect,      \* where the QueueConnect is
  connected,    \* its result
  transfer,     \* where each transfer is
  boxes,        \* who asked the open questions, the last one first
  closing,      \* how far TerminateSession is
  view,         \* FTPWindow: "connected" or "disconnected"
  connecting,   \* FTPWindow::m_connecting
  active,       \* FTPWindow::m_activeTransferCount
  tpc           \* the timer thread

vars == <<running, generation, objects, refs, connect, connected, transfer,
          boxes, closing, view, connecting, active, tpc>>
sessionVars == <<running, generation, objects, refs>>
opVars      == <<connect, connected, transfer>>
windowVars  == <<view, connecting, active>>

Objects == {"wrappers", "queues", "root", "timer"}
\* "starting", "ending": the Start or End notification waits for the window.
\* "performed": between Perform and End.  "asking": OnEvent for the End asks;
\* "unacked": OnEvent has returned 1, so nobody acknowledges the End.
ConnectPhases == {"none", "queued", "starting", "performing", "performed",
                  "ending", "asking", "unacked", "done"}
TransferPhases == {"none", "queued", "starting", "performing", "ending", "ended"}

Init ==
  /\ running = FALSE /\ generation = 0 /\ objects = {} /\ refs = 0
  /\ connect = "none" /\ connected = FALSE
  /\ transfer = [t \in Transfers |-> "none"]
  /\ boxes = <<>> /\ closing = "no"
  /\ view = "disconnected" /\ connecting = FALSE /\ active = 0
  /\ tpc = "idle"

TransferCount == Cardinality({t \in Transfers : transfer[t] # "none"})
Started == {t \in Transfers : transfer[t] \in {"performing", "ending"}}

UserMayAct == boxes = <<>> /\ closing = "no"
\* What the window handles outside Clear.
HandlesMessages == closing = "no"

-----------------------------------------------------------------------------
(***************************************************************************)
(* FTPWindow.                                                              *)
(***************************************************************************)
OnConnect == view' = "connected" /\ UNCHANGED active

\* Mutants leave the tree, or m_activeTransferCount, alone.
OnDisconnectShows == active' = 0 /\ UNCHANGED view
OnDisconnectCounts == view' = "disconnected" /\ UNCHANGED active
OnDisconnect == view' = "disconnected" /\ active' = 0

-----------------------------------------------------------------------------
(***************************************************************************)
(* FTPSession: StartSession and Connect, which always follow each other.   *)
(***************************************************************************)
StartSession ==
  /\ UserMayAct /\ ~running /\ generation < MaxGeneration
  /\ running' = TRUE /\ generation' = generation + 1 /\ refs' = refs + 1
  /\ objects' = IF KeepAlive THEN Objects ELSE Objects \ {"timer"}
  /\ connect' = "queued" /\ connected' = FALSE
  /\ UNCHANGED <<transfer, boxes, closing, windowVars, tpc>>

\* A wrapper, a queue or the scheduler cannot be made: Clear, which tells the
\* window.
StartSessionFails ==
  /\ UserMayAct /\ ~running /\ generation < MaxGeneration
  /\ generation' = generation + 1
  /\ OnDisconnect
  /\ UNCHANGED <<running, objects, refs, opVars, boxes, closing, connecting, tpc>>

\* DownloadFile and UploadFile need a running session, not a connected one: a
\* save connects and uploads at once.
AddTransfer(t) ==
  /\ UserMayAct /\ running /\ transfer[t] = "none"
  /\ transfer' = [transfer EXCEPT ![t] = "queued"]
  /\ UNCHANGED <<sessionVars, connect, connected, boxes, closing, windowVars, tpc>>

-----------------------------------------------------------------------------
(***************************************************************************)
(* FTPSession: TerminateSession.                                           *)
(***************************************************************************)

\* The session stops running and its timer is deleted; Clear comes next.  A
\* mutant clears first.
ClearFirst ==
  /\ objects' = objects \ {"timer"} /\ closing' = "queues"
  /\ UNCHANGED running
StopRunning ==
  /\ running' = FALSE
  /\ objects' = objects \ {"timer"} /\ closing' = "queues"

\* Asks when transfers are queued.
TerminateSession(caller) ==
  IF TransferCount > 0
    THEN boxes' = <<caller>> \o boxes /\ UNCHANGED <<running, objects, closing>>
    ELSE StopRunning /\ UNCHANGED boxes

Disconnect ==
  /\ UserMayAct /\ running
  /\ TerminateSession("user")
  /\ UNCHANGED <<generation, refs, opVars, windowVars, tpc>>

\* A mutant takes the answer for a No.
AnswerIgnored ==
  /\ boxes # <<>> /\ closing = "no"
  /\ boxes' = Tail(boxes)
  /\ UNCHANGED <<sessionVars, opVars, closing, windowVars, tpc>>
AnswerYes ==
  /\ boxes # <<>> /\ closing = "no"
  /\ boxes' = Tail(boxes)
  /\ StopRunning
  /\ UNCHANGED <<generation, refs, opVars, windowVars, tpc>>

AnswerNo ==
  /\ boxes # <<>> /\ closing = "no"
  /\ boxes' = Tail(boxes)
  /\ connect' = IF Head(boxes) = "connect" THEN "unacked" ELSE connect
  /\ UNCHANGED <<sessionVars, connected, transfer, closing, windowVars, tpc>>

\* Clear: the upload workers and the transfer queue; no End is sent.  A mutant
\* waits for none that is performed.
CloseWaiting ==
  /\ closing = "queues" /\ closing' = "main"
  /\ generation' = generation + 1
  /\ transfer' = [t \in Transfers |->
                   IF transfer[t] = "performing" THEN transfer[t] ELSE "none"]
  /\ UNCHANGED <<running, objects, refs, connect, connected, boxes, windowVars, tpc>>
CloseQueues ==
  /\ closing = "queues" /\ closing' = "main"
  /\ generation' = generation + 1
  /\ transfer' = [t \in Transfers |-> "none"]
  /\ UNCHANGED <<running, objects, refs, connect, connected, boxes, windowVars, tpc>>

\* The main queue: Deinitialize sends the End of what is performed itself,
\* unless the queue thread has posted it.
CloseMain ==
  /\ closing = "main" /\ closing' = "wrappers"
  /\ objects' = objects \ {"queues"}
  /\ connect' = "none"
  /\ IF connect \in {"starting", "performing", "performed"}
       THEN connecting' = FALSE /\ IF connected THEN OnConnect ELSE OnDisconnect
       ELSE UNCHANGED windowVars
  /\ UNCHANGED <<running, generation, refs, connected, transfer, boxes, tpc>>

\* QueueDisconnect on the main wrapper, and the wrappers are deleted.
CloseWrappers ==
  /\ closing = "wrappers" /\ closing' = "profile"
  /\ objects' = objects \ {"wrappers"}
  /\ IF "wrappers" \in objects THEN OnDisconnect ELSE UNCHANGED <<view, active>>
  /\ UNCHANGED <<running, generation, refs, opVars, boxes, connecting, tpc>>

\* Back in TerminateSession: a session that was ended meanwhile has no profile
\* any more.  A mutant releases it in any case.
ReleaseAlways ==
  /\ closing = "profile" /\ closing' = "no"
  /\ refs' = refs - 1
  /\ objects' = objects \ {"root"}
  /\ UNCHANGED <<running, generation, opVars, boxes, windowVars, tpc>>
CloseProfile ==
  /\ closing = "profile" /\ closing' = "no"
  /\ refs' = IF "root" \in objects THEN refs - 1 ELSE refs
  /\ objects' = objects \ {"root"}
  /\ UNCHANGED <<running, generation, opVars, boxes, windowVars, tpc>>

Clear == CloseQueues \/ CloseMain \/ CloseWrappers \/ CloseProfile

-----------------------------------------------------------------------------
(***************************************************************************)
(* The connect: the main queue's thread and FTPWindow::OnEvent.            *)
(***************************************************************************)
ConnectStep(from, to) == connect = from /\ connect' = to

ConnectStart ==
  /\ ConnectStep("queued", "starting")
  /\ UNCHANGED <<sessionVars, connected, transfer, boxes, closing, windowVars, tpc>>

OnConnectStart ==
  /\ HandlesMessages /\ ConnectStep("starting", "performing")
  /\ connecting' = TRUE
  /\ UNCHANGED <<sessionVars, connected, transfer, boxes, closing, view, active, tpc>>

ConnectPerform ==
  /\ ConnectStep("performing", "performed")
  /\ connected' \in BOOLEAN
  /\ UNCHANGED <<sessionVars, transfer, boxes, closing, windowVars, tpc>>

ConnectEnd ==
  /\ ConnectStep("performed", "ending")
  /\ UNCHANGED <<sessionVars, connected, transfer, boxes, closing, windowVars, tpc>>

OnConnectEnd ==
  /\ HandlesMessages /\ connect = "ending"
  /\ connecting' = FALSE
  /\ IF connected
       THEN /\ OnConnect /\ connect' = "done"
            /\ UNCHANGED <<running, objects, boxes, closing>>
       ELSE /\ OnDisconnect /\ connect' = "asking"
            /\ TerminateSession("connect")
  /\ UNCHANGED <<generation, refs, connected, transfer, tpc>>

-----------------------------------------------------------------------------
(***************************************************************************)
(* A transfer: its queue's thread and FTPWindow::OnEvent.                  *)
(***************************************************************************)
TransferStep(t, from, to) ==
  transfer[t] = from /\ transfer' = [transfer EXCEPT ![t] = to]

TransferThread(t) ==
  /\ \/ TransferStep(t, "queued", "starting")
     \/ TransferStep(t, "performing", "ending")
     \/ TransferStep(t, "ended", "none")
  /\ UNCHANGED <<sessionVars, connect, connected, boxes, closing, windowVars, tpc>>

OnTransferStart(t) ==
  /\ HandlesMessages /\ TransferStep(t, "starting", "performing")
  /\ active' = active + 1
  /\ UNCHANGED <<sessionVars, connect, connected, boxes, closing, view, connecting, tpc>>

\* A mutant counts down regardless.
OnTransferEndDown(t) ==
  /\ HandlesMessages /\ TransferStep(t, "ending", "ended")
  /\ active' = active - 1
  /\ UNCHANGED <<sessionVars, connect, connected, boxes, closing, view, connecting, tpc>>
OnTransferEnd(t) ==
  /\ HandlesMessages /\ TransferStep(t, "ending", "ended")
  /\ active' = IF active > 0 THEN active - 1 ELSE 0
  /\ UNCHANGED <<sessionVars, connect, connected, boxes, closing, view, connecting, tpc>>

-----------------------------------------------------------------------------
(***************************************************************************)
(* The timer thread, in QueueTimerHandler.  What it dereferences may be    *)
(* gone: a fault, which in the program is the end of everything.           *)
(***************************************************************************)
TimerFires ==
  /\ tpc = "idle" /\ "timer" \in objects
  /\ tpc' = "wrappers"
  /\ UNCHANGED <<sessionVars, opVars, boxes, closing, windowVars>>

\* LastAction of both wrappers; too recent, and there is nothing to do.
TimerLastAction ==
  /\ tpc = "wrappers"
  /\ IF "wrappers" \in objects THEN tpc' \in {"idle", "profile"} ELSE tpc' = "fault"
  /\ UNCHANGED <<sessionVars, opVars, boxes, closing, windowVars>>

\* The NoOp interval of the profile, then NoOp's test of m_running.
TimerNoOp ==
  /\ tpc = "profile"
  /\ tpc' = IF "root" \notin objects THEN "fault" ELSE IF running THEN "add" ELSE "idle"
  /\ UNCHANGED <<sessionVars, opVars, boxes, closing, windowVars>>

\* AddQueueOp on the main queue.
TimerAdd ==
  /\ tpc = "add"
  /\ tpc' = IF "queues" \in objects THEN "idle" ELSE "fault"
  /\ UNCHANGED <<sessionVars, opVars, boxes, closing, windowVars>>

Timer == TimerFires \/ TimerLastAction \/ TimerNoOp \/ TimerAdd

-----------------------------------------------------------------------------
User == StartSession \/ StartSessionFails \/ Disconnect \/ \E t \in Transfers : AddTransfer(t)
Answer == AnswerYes \/ AnswerNo
Messages ==
  \/ OnConnectStart \/ OnConnectEnd
  \/ \E t \in Transfers : OnTransferStart(t) \/ OnTransferEnd(t)
Connect == ConnectStart \/ ConnectPerform \/ ConnectEnd

Next ==
  \/ User \/ Answer \/ Clear \/ Messages \/ Connect \/ Timer
  \/ \E t \in Transfers : TransferThread(t)

Spec == Init /\ [][Next]_vars

\* The window handles each posted message in its turn and gets on with Clear,
\* the threads run, and the user answers; nobody has to start or end a session.
Fairness ==
  /\ WF_vars(Answer) /\ WF_vars(Clear) /\ WF_vars(Connect)
  /\ WF_vars(OnConnectStart \/ OnConnectEnd)
  /\ \A t \in Transfers :
       WF_vars(TransferThread(t)) /\ WF_vars(OnTransferStart(t) \/ OnTransferEnd(t))

FairSpec == Spec /\ Fairness

-----------------------------------------------------------------------------
(***************************************************************************)
(* Properties.                                                             *)
(***************************************************************************)
TypeOK ==
  /\ running \in BOOLEAN /\ generation \in Nat /\ objects \subseteq Objects
  /\ refs \in Nat
  /\ connect \in ConnectPhases /\ connected \in BOOLEAN
  /\ transfer \in [Transfers -> TransferPhases]
  /\ boxes \in Seq({"user", "connect"})
  /\ closing \in {"no", "queues", "main", "wrappers", "profile"}
  /\ view \in {"connected", "disconnected"} /\ connecting \in BOOLEAN
  /\ active \in Nat
  /\ tpc \in {"idle", "wrappers", "profile", "add", "fault"}

\* Whoever sees m_running finds the wrappers, queues, root directory and
\* profile: every operation of the session tests only m_running.
RunningIsComplete ==
  running => {"wrappers", "queues", "root"} \subseteq objects /\ refs = 1

\* A session that is over has left nothing, however many questions were open
\* when it was ended and in whatever order they were answered.
OverLeavesNothing ==
  ~running /\ closing = "no" =>
    /\ objects = {} /\ refs = 0 /\ connect = "none"
    /\ \A t \in Transfers : transfer[t] = "none"

\* A session is there as a whole or not at all: the two above, together.
SessionIsWhole == RunningIsComplete /\ OverLeavesNothing

\* The tree and the list only show directories that exist: TerminateSession
\* deletes m_rootObject.
ShownRootIsLive == view = "connected" => "root" \in objects

\* FTPWindow counts the transfers that are active, which decides whether the
\* toolbar offers Abort, unless the connect has failed.
ActiveIsExact ==
  closing = "no" /\ connect \notin {"asking", "unacked"} => active = Cardinality(Started)

\* "if res == 1, then queueop becomes invalid" (FTPWindow.cpp): an End that is
\* not acknowledged is that of an operation that is deleted.
UnackedIsInvalid == connect # "unacked"

\* "(Dis)Connect: Either connect to a server from a profile [...], or
\* disconnect" (docs/index.md): without a session, the toolbar offers to
\* connect, which SetToolbarState refuses while m_connecting.
ConnectIsOffered == ~running /\ closing = "no" => ~connecting

\* "Successfully deleted session timer" (the message of TerminateSession): what
\* the timer's handler uses is not deleted under it.
TimerIsGone == tpc # "fault"

\* Once the connect is queued, the session ends or is connected, unless the user
\* keeps a session whose connect failed.
ConnectSettles ==
  (connect = "queued") ~> (connect \in {"none", "done", "unacked"})

-----------------------------------------------------------------------------
(***************************************************************************)
(* The inductive invariant that the proofs rest on.                        *)
(***************************************************************************)

\* Who may have asked; the connect asks only while its End is handled.
BoxInv ==
  /\ boxes \in {<<>>, <<"user">>, <<"connect">>, <<"connect", "user">>}
  /\ closing = "no" =>
       (connect = "asking" <=> boxes \in {<<"connect">>, <<"connect", "user">>})
  /\ closing # "no" => boxes \in {<<>>, <<"user">>}

\* What is gone already at each step of TerminateSession.
ClosingInv ==
  /\ closing # "no" => ~running /\ "timer" \notin objects
  /\ closing \in {"main", "wrappers", "profile"} => \A t \in Transfers : transfer[t] = "none"
  /\ closing \in {"wrappers", "profile"} => "queues" \notin objects
  /\ closing = "profile" => "wrappers" \notin objects

\* What needs what.
NeedInv ==
  /\ refs = (IF "root" \in objects THEN 1 ELSE 0)
  /\ connect # "none" => "queues" \in objects
  /\ "queues" \in objects => "wrappers" \in objects
  /\ "wrappers" \in objects => "root" \in objects
  /\ view = "connected" => "wrappers" \in objects

IInv ==
  /\ TypeOK /\ BoxInv /\ ClosingInv /\ NeedInv
  /\ RunningIsComplete /\ OverLeavesNothing /\ ShownRootIsLive
=============================================================================
