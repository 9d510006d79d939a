--------------------------- MODULE SessionProofs ---------------------------
(***************************************************************************)
(* Proofs about Session and SaveFlow, for every number of transfers, files *)
(* and sessions and every list of profiles.  That OnSave is nothing new to *)
(* the session carries the theorems about the session over to its saves.   *)
(***************************************************************************)
EXTENDS SaveFlow, SequenceTheorems, FiniteSetTheorems, WellFoundedInduction, TLAPS

\* Every set of naturals that is not empty has a least element.
LEMMA LeastNatural ==
  ASSUME NEW T \in SUBSET Nat, T # {}
  PROVE  \E x \in T : \A y \in T : x <= y
<1> DEFINE R == {ss \in Nat \X Nat : ss[1] < ss[2]}
<1>1. IsWellFoundedOn(R, Nat)
  BY NatLessThanWellFounded DEF OpToRel
<1>2. \A x, y \in Nat : (<<y, x>> \in R) <=> y < x
  OBVIOUS
<1> HIDE DEF R
<1>3. PICK x \in T : \A y \in T : ~ (<<y, x>> \in R)
  BY <1>1, WFMin
<1>4. x \in Nat /\ \A y \in T : y \in Nat /\ ~(y < x)
  BY <1>2, <1>3
<1>5. \A y \in T : x <= y
  BY <1>4
<1> QED
  BY <1>5

-----------------------------------------------------------------------------

\* The stacks of questions are sequences of who asked.
LEMMA BoxesTyped ==
  {<<>>, <<"user">>, <<"connect">>, <<"connect", "user">>} \subseteq Seq({"user", "connect"})
<1>1. <<>> \in Seq({"user", "connect"}) /\ <<"user">> \in Seq({"user", "connect"})
  OBVIOUS
<1>2. <<"connect">> \in Seq({"user", "connect"}) /\ <<"connect", "user">> \in Seq({"user", "connect"})
  OBVIOUS
<1> QED
  BY <1>1, <1>2

\* What an answer leaves of the open questions.
LEMMA TailOfBoxes ==
  /\ Tail(<<"user">>) = <<>> /\ Tail(<<"connect">>) = <<>>
  /\ Tail(<<"connect", "user">>) = <<"user">>
  /\ Head(<<"user">>) = "user" /\ Head(<<"connect">>) = "connect"
  /\ Head(<<"connect", "user">>) = "connect"
  OBVIOUS

\* Who asks is put in front.
LEMMA AskOnBoxes ==
  /\ <<"user">> \o <<>> = <<"user">> /\ <<"connect">> \o <<>> = <<"connect">>
  /\ <<"connect">> \o <<"user">> = <<"connect", "user">>
<1> DEFINE S == {"user", "connect"}
<1>1. <<"user">> \in Seq(S) /\ <<"connect">> \in Seq(S) /\ "user" \in S
  OBVIOUS
<1>2. <<"user">> \o <<>> = <<"user">> /\ <<"connect">> \o <<>> = <<"connect">>
  BY <1>1, ConcatEmptySeq
<1>3. <<"connect">> \o <<"user">> = Append(<<"connect">>, "user")
  BY <1>1, AppendIsConcat
<1>4. Append(<<"connect">>, "user") = <<"connect", "user">>
  <2>1. Append(<<"connect">>, "user") \in Seq(S) /\ <<"connect", "user">> \in Seq(S)
    BY <1>1
  <2>2. /\ Len(Append(<<"connect">>, "user")) = 2 /\ Len(<<"connect", "user">>) = 2
        /\ \A i \in 1..2 : Append(<<"connect">>, "user")[i] = <<"connect", "user">>[i]
    BY <1>1
  <2> QED
    BY <2>1, <2>2, SeqEqual
<1> QED
  BY <1>2, <1>3, <1>4

\* The stacks of questions differ.
LEMMA BoxesDiffer ==
  /\ <<>> # <<"user">> /\ <<>> # <<"connect">> /\ <<>> # <<"connect", "user">>
  /\ <<"user">> # <<"connect">> /\ <<"user">> # <<"connect", "user">>
  /\ <<"connect">> # <<"connect", "user">>
<1>1. Len(<<>>) = 0 /\ Len(<<"user">>) = 1 /\ Len(<<"connect">>) = 1 /\ Len(<<"connect", "user">>) = 2
  OBVIOUS
<1>2. <<"user">>[1] = "user" /\ <<"connect">>[1] = "connect"
  OBVIOUS
<1> QED
  BY <1>1, <1>2

\* The initial state satisfies the invariant.
LEMMA InitInv == Init => IInv
<1> SUFFICES ASSUME Init PROVE IInv
  OBVIOUS
<1>1. TypeOK
  <2>1. running \in BOOLEAN /\ connected \in BOOLEAN /\ connecting \in BOOLEAN
    BY DEF Init
  <2>2. transfer \in [Transfers -> TransferPhases]
    BY DEF Init, TransferPhases
  <2>3. boxes \in Seq({"user", "connect"}) /\ objects \subseteq Objects /\ active \in Nat
    BY DEF Init
  <2>4. generation \in Nat /\ refs \in Nat /\ connect \in ConnectPhases
    BY DEF Init, ConnectPhases
  <2> QED
    BY <2>1, <2>2, <2>3, <2>4 DEF Init, TypeOK
<1>2. BoxInv /\ ClosingInv /\ NeedInv
  BY BoxesDiffer DEF Init, BoxInv, ClosingInv, NeedInv
<1>3. RunningIsComplete /\ OverLeavesNothing /\ ShownRootIsLive
  BY DEF Init, RunningIsComplete, OverLeavesNothing, ShownRootIsLive
<1> QED
  BY <1>1, <1>2, <1>3 DEF IInv

\* Ending the session keeps the invariant, whatever questions are left.
LEMMA StopKeepsInv ==
  ASSUME IInv, StopRunning, closing = "no", boxes' \in {<<>>, <<"user">>},
         UNCHANGED <<generation, refs, connect, connected, transfer, view, connecting, active, tpc>>
  PROVE  IInv'
<1>1. TypeOK'
  <2>1. running' \in BOOLEAN /\ objects' \subseteq Objects /\ closing' = "queues"
    BY DEF StopRunning, IInv, TypeOK
  <2>2. boxes' \in Seq({"user", "connect"})
    BY BoxesTyped
  <2> QED
    BY <2>1, <2>2 DEF IInv, TypeOK
<1>2. BoxInv' /\ ClosingInv'
  BY DEF StopRunning, BoxInv, ClosingInv
<1>3. NeedInv' /\ RunningIsComplete' /\ OverLeavesNothing' /\ ShownRootIsLive'
  BY DEF StopRunning, IInv, NeedInv, RunningIsComplete, OverLeavesNothing, ShownRootIsLive
<1> QED
  BY <1>1, <1>2, <1>3 DEF IInv

\* Every step of Session keeps the invariant.
LEMMA NextInv == IInv /\ [Next]_vars => IInv'
<1> SUFFICES ASSUME IInv PROVE [Next]_vars => IInv'
  OBVIOUS
<1>1. ASSUME StartSession PROVE IInv'
  <2>1. /\ running' = TRUE /\ refs' = refs + 1 /\ connect' = "queued" /\ closing = "no" /\ boxes = <<>>
        /\ {"wrappers", "queues", "root"} \subseteq objects' /\ objects' \subseteq Objects
    BY <1>1 DEF StartSession, UserMayAct, Objects
  <2>2. refs = 0
    BY <1>1 DEF StartSession, UserMayAct, IInv, OverLeavesNothing
  <2>3. UNCHANGED <<transfer, boxes, closing, view, connecting, active, tpc>>
    BY <1>1 DEF StartSession, windowVars
  <2>4. TypeOK'
    <3>1. connected' \in BOOLEAN
      BY <1>1 DEF StartSession
    <3>2. generation' \in Nat /\ refs' \in Nat
      BY <1>1, <2>1, <2>2 DEF StartSession, IInv, TypeOK
    <3> QED
      BY <2>1, <2>3, <3>1, <3>2 DEF IInv, TypeOK, ConnectPhases
  <2>5. BoxInv' /\ ClosingInv'
    BY <2>1, <2>3, BoxesDiffer DEF BoxInv, ClosingInv
  <2>6. NeedInv' /\ RunningIsComplete' /\ OverLeavesNothing' /\ ShownRootIsLive'
    BY <2>1, <2>2, <2>3 DEF NeedInv, RunningIsComplete, OverLeavesNothing, ShownRootIsLive
  <2> QED
    BY <2>4, <2>5, <2>6 DEF IInv
<1>2. ASSUME StartSessionFails PROVE IInv'
  BY <1>2 DEF StartSessionFails, OnDisconnect, UserMayAct, IInv, TypeOK, BoxInv, ClosingInv,
     NeedInv, RunningIsComplete, OverLeavesNothing, ShownRootIsLive, Objects, opVars
<1>3. ASSUME NEW t \in Transfers, AddTransfer(t) PROVE IInv'
  BY <1>3 DEF AddTransfer, UserMayAct, IInv, TypeOK, BoxInv, ClosingInv, NeedInv,
     RunningIsComplete, OverLeavesNothing, ShownRootIsLive, Objects, TransferPhases, sessionVars,
     windowVars
<1>4. ASSUME Disconnect PROVE IInv'
  <2>1. /\ boxes = <<>> /\ closing = "no" /\ running
        /\ UNCHANGED <<generation, refs, connect, connected, transfer, view, connecting, active, tpc>>
    BY <1>4 DEF Disconnect, UserMayAct, opVars, windowVars
  <2>2. CASE TransferCount > 0
    <3>1. boxes' = <<"user">> /\ UNCHANGED <<running, objects, closing>>
      BY <1>4, <2>1, <2>2, AskOnBoxes DEF Disconnect, TerminateSession
    <3>2. TypeOK'
      BY <2>1, <3>1 DEF IInv, TypeOK
    <3>3. BoxInv'
      BY <2>1, <3>1, BoxesDiffer DEF IInv, BoxInv
    <3> QED
      BY <2>1, <3>1, <3>2, <3>3
         DEF IInv, ClosingInv, NeedInv, RunningIsComplete, OverLeavesNothing, ShownRootIsLive
  <2>3. CASE ~(TransferCount > 0)
    <3>1. StopRunning /\ UNCHANGED boxes
      BY <1>4, <2>3 DEF Disconnect, TerminateSession
    <3> QED
      BY <2>1, <3>1, StopKeepsInv
  <2> QED
    BY <2>2, <2>3
<1>5. ASSUME AnswerYes PROVE IInv'
  <2>1. /\ StopRunning /\ closing = "no" /\ boxes # <<>> /\ boxes' = Tail(boxes)
        /\ UNCHANGED <<generation, refs, connect, connected, transfer, view, connecting, active, tpc>>
    BY <1>5 DEF AnswerYes, opVars, windowVars
  <2>2. boxes' \in {<<>>, <<"user">>}
    BY <2>1, TailOfBoxes DEF IInv, BoxInv
  <2> QED
    BY <2>1, <2>2, StopKeepsInv
<1>6. ASSUME AnswerNo PROVE IInv'
  <2>1. /\ closing = "no" /\ boxes # <<>> /\ boxes' = Tail(boxes)
        /\ connect' = IF Head(boxes) = "connect" THEN "unacked" ELSE connect
        /\ UNCHANGED <<running, generation, objects, refs, connected, transfer, closing,
                       view, connecting, active, tpc>>
    BY <1>6 DEF AnswerNo, sessionVars, windowVars
  <2>2. Head(boxes) = "connect" <=> connect = "asking"
    BY <2>1, TailOfBoxes, BoxesDiffer DEF IInv, BoxInv
  <2>3. boxes' \in {<<>>, <<"user">>} /\ connect' # "asking"
    BY <2>1, <2>2, TailOfBoxes DEF IInv, BoxInv
  <2>4. TypeOK'
    BY <2>1, <2>3 DEF IInv, TypeOK, ConnectPhases
  <2>5. BoxInv' /\ ClosingInv'
    BY <2>1, <2>3, BoxesDiffer DEF IInv, BoxInv, ClosingInv
  <2>6. NeedInv' /\ OverLeavesNothing'
    BY <2>1, <2>2 DEF IInv, NeedInv, OverLeavesNothing
  <2>7. RunningIsComplete' /\ ShownRootIsLive'
    BY <2>1 DEF IInv, RunningIsComplete, ShownRootIsLive
  <2> QED
    BY <2>4, <2>5, <2>6, <2>7 DEF IInv
<1>7. ASSUME CloseQueues PROVE IInv'
  BY <1>7 DEF CloseQueues, IInv, TypeOK, BoxInv, ClosingInv, NeedInv, RunningIsComplete,
     OverLeavesNothing, ShownRootIsLive, Objects, TransferPhases, windowVars
<1>8. ASSUME CloseMain PROVE IInv'
  <2>1. /\ closing = "main" /\ closing' = "wrappers" /\ connect' = "none"
        /\ objects' = objects \ {"queues"}
        /\ UNCHANGED <<running, generation, refs, connected, transfer, boxes, tpc>>
    BY <1>8 DEF CloseMain
  <2>2. view' # view => connect # "none"
    BY <1>8 DEF CloseMain, windowVars
  <2>3. /\ view' \in {"connected", "disconnected"} /\ connecting' \in BOOLEAN /\ active' \in Nat
    <3>1. CASE connect \in {"starting", "performing", "performed"} /\ connected
      BY <1>8, <3>1 DEF CloseMain, OnConnect, IInv, TypeOK
    <3>2. CASE connect \in {"starting", "performing", "performed"} /\ ~connected
      <4>1. connecting' = FALSE /\ view' = "disconnected" /\ active' = 0
        BY <1>8, <3>2 DEF CloseMain, OnDisconnect
      <4> QED
        BY <4>1
    <3>3. CASE connect \notin {"starting", "performing", "performed"}
      BY <1>8, <3>3 DEF CloseMain, windowVars, IInv, TypeOK
    <3> QED
      BY <3>1, <3>2, <3>3
  <2>4. TypeOK'
    BY <2>1, <2>3 DEF IInv, TypeOK, ConnectPhases
  <2>5. BoxInv' /\ ClosingInv'
    BY <2>1 DEF IInv, BoxInv, ClosingInv
  <2>6. NeedInv' /\ ShownRootIsLive'
    BY <2>1, <2>2 DEF IInv, NeedInv, ShownRootIsLive
  <2>7. RunningIsComplete' /\ OverLeavesNothing'
    BY <2>1 DEF IInv, ClosingInv, RunningIsComplete, OverLeavesNothing
  <2> QED
    BY <2>4, <2>5, <2>6, <2>7 DEF IInv
<1>9. ASSUME CloseWrappers PROVE IInv'
  BY <1>9 DEF CloseWrappers, OnDisconnect, IInv, TypeOK, BoxInv, ClosingInv, NeedInv,
     RunningIsComplete, OverLeavesNothing, ShownRootIsLive, Objects, opVars
<1>10. ASSUME CloseProfile PROVE IInv'
  BY <1>10, SMTT(30) DEF CloseProfile, IInv, TypeOK, BoxInv, ClosingInv, NeedInv, RunningIsComplete,
     OverLeavesNothing, ShownRootIsLive, Objects, opVars, windowVars
<1>11. ASSUME OnConnectStart PROVE IInv'
  BY <1>11 DEF OnConnectStart, HandlesMessages, ConnectStep, IInv, TypeOK, BoxInv, ClosingInv,
     NeedInv, RunningIsComplete, OverLeavesNothing, ShownRootIsLive, Objects, ConnectPhases,
     sessionVars
<1>12. ASSUME OnConnectEnd PROVE IInv'
  <2>1. /\ closing = "no" /\ connect = "ending" /\ connecting' = FALSE
        /\ UNCHANGED <<generation, refs, connected, transfer, tpc>>
        /\ boxes \in {<<>>, <<"user">>} /\ "wrappers" \in objects /\ running
    BY <1>12 DEF OnConnectEnd, HandlesMessages, IInv, BoxInv, NeedInv, OverLeavesNothing
  <2>2. CASE connected
    <3>1. /\ view' = "connected" /\ connect' = "done"
          /\ UNCHANGED <<active, running, objects, boxes, closing>>
      BY <1>12, <2>2 DEF OnConnectEnd, OnConnect
    <3>2. TypeOK'
      BY <2>1, <3>1 DEF IInv, TypeOK, ConnectPhases
    <3>3. BoxInv' /\ ClosingInv'
      BY <2>1, <3>1 DEF IInv, BoxInv, ClosingInv
    <3>4. NeedInv' /\ RunningIsComplete' /\ OverLeavesNothing' /\ ShownRootIsLive'
      BY <2>1, <3>1 DEF IInv, NeedInv, RunningIsComplete, OverLeavesNothing, ShownRootIsLive
    <3> QED
      BY <3>2, <3>3, <3>4 DEF IInv
  <2>3. CASE ~connected
    <3>1. view' = "disconnected" /\ active' = 0 /\ connect' = "asking" /\ TerminateSession("connect")
      BY <1>12, <2>3 DEF OnConnectEnd, OnDisconnect
    <3>2. CASE TransferCount > 0
      <4>1. /\ boxes' \in {<<"connect">>, <<"connect", "user">>}
            /\ UNCHANGED <<running, objects, closing>>
        BY <2>1, <3>1, <3>2, AskOnBoxes DEF TerminateSession
      <4>2. TypeOK'
        <5>1. boxes' \in Seq({"user", "connect"})
          BY <4>1, BoxesTyped
        <5>2. connecting' \in BOOLEAN
          BY <2>1
        <5> QED
          BY <2>1, <3>1, <4>1, <5>1, <5>2 DEF IInv, TypeOK, ConnectPhases
      <4>3. BoxInv' /\ ClosingInv'
        BY <2>1, <3>1, <4>1 DEF IInv, BoxInv, ClosingInv
      <4>4. NeedInv' /\ RunningIsComplete' /\ OverLeavesNothing' /\ ShownRootIsLive'
        BY <2>1, <3>1, <4>1 DEF IInv, NeedInv, RunningIsComplete, OverLeavesNothing, ShownRootIsLive
      <4> QED
        BY <4>2, <4>3, <4>4 DEF IInv
    <3>3. CASE ~(TransferCount > 0)
      <4>1. /\ running' = FALSE /\ objects' = objects \ {"timer"} /\ closing' = "queues"
            /\ UNCHANGED boxes
        BY <3>1, <3>3 DEF TerminateSession, StopRunning
      <4>2. TypeOK'
        BY <2>1, <3>1, <4>1 DEF IInv, TypeOK, ConnectPhases
      <4>3. BoxInv' /\ ClosingInv'
        BY <2>1, <4>1 DEF IInv, BoxInv, ClosingInv
      <4>4. NeedInv' /\ RunningIsComplete' /\ OverLeavesNothing' /\ ShownRootIsLive'
        BY <2>1, <3>1, <4>1 DEF IInv, NeedInv, RunningIsComplete, OverLeavesNothing, ShownRootIsLive
      <4> QED
        BY <4>2, <4>3, <4>4 DEF IInv
    <3> QED
      BY <3>2, <3>3
  <2> QED
    BY <2>2, <2>3
<1>13. ASSUME NEW t \in Transfers, OnTransferStart(t) PROVE IInv'
  BY <1>13 DEF OnTransferStart, TransferStep, HandlesMessages, IInv, TypeOK, BoxInv, ClosingInv,
     NeedInv, RunningIsComplete, OverLeavesNothing, ShownRootIsLive, Objects, TransferPhases,
     sessionVars
<1>14. ASSUME NEW t \in Transfers, OnTransferEnd(t) PROVE IInv'
  BY <1>14 DEF OnTransferEnd, TransferStep, HandlesMessages, IInv, TypeOK, BoxInv, ClosingInv,
     NeedInv, RunningIsComplete, OverLeavesNothing, ShownRootIsLive, Objects, TransferPhases,
     sessionVars
<1>15. ASSUME ConnectStart PROVE IInv'
  BY <1>15 DEF ConnectStart, ConnectStep, IInv, TypeOK, BoxInv, ClosingInv, NeedInv,
     RunningIsComplete, OverLeavesNothing, ShownRootIsLive, Objects, ConnectPhases, sessionVars,
     windowVars
<1>16. ASSUME ConnectPerform PROVE IInv'
  BY <1>16 DEF ConnectPerform, ConnectStep, IInv, TypeOK, BoxInv, ClosingInv, NeedInv,
     RunningIsComplete, OverLeavesNothing, ShownRootIsLive, Objects, ConnectPhases, sessionVars,
     windowVars
<1>17. ASSUME ConnectEnd PROVE IInv'
  BY <1>17 DEF ConnectEnd, ConnectStep, IInv, TypeOK, BoxInv, ClosingInv, NeedInv,
     RunningIsComplete, OverLeavesNothing, ShownRootIsLive, Objects, ConnectPhases, sessionVars,
     windowVars
<1>18. ASSUME TimerFires PROVE IInv'
  BY <1>18 DEF TimerFires, IInv, TypeOK, BoxInv, ClosingInv, NeedInv, RunningIsComplete,
     OverLeavesNothing, ShownRootIsLive, Objects, sessionVars, opVars, windowVars
<1>19. ASSUME TimerLastAction PROVE IInv'
  BY <1>19 DEF TimerLastAction, IInv, TypeOK, BoxInv, ClosingInv, NeedInv, RunningIsComplete,
     OverLeavesNothing, ShownRootIsLive, Objects, sessionVars, opVars, windowVars
<1>20. ASSUME TimerNoOp PROVE IInv'
  BY <1>20 DEF TimerNoOp, IInv, TypeOK, BoxInv, ClosingInv, NeedInv, RunningIsComplete,
     OverLeavesNothing, ShownRootIsLive, Objects, sessionVars, opVars, windowVars
<1>21. ASSUME TimerAdd PROVE IInv'
  BY <1>21 DEF TimerAdd, IInv, TypeOK, BoxInv, ClosingInv, NeedInv, RunningIsComplete,
     OverLeavesNothing, ShownRootIsLive, Objects, sessionVars, opVars, windowVars
<1>22. ASSUME NEW t \in Transfers, TransferThread(t) PROVE IInv'
  BY <1>22 DEF TransferThread, TransferStep, IInv, TypeOK, BoxInv, ClosingInv, NeedInv,
     RunningIsComplete, OverLeavesNothing, ShownRootIsLive, Objects, TransferPhases, sessionVars,
     windowVars
<1>23. ASSUME UNCHANGED vars PROVE IInv'
  BY <1>23 DEF IInv, TypeOK, BoxInv, ClosingInv, NeedInv, RunningIsComplete, OverLeavesNothing,
     ShownRootIsLive, vars
<1> QED
  BY <1>1, <1>2, <1>3, <1>4, <1>5, <1>6, <1>7, <1>8, <1>9, <1>10, <1>11, <1>12, <1>13, <1>14,
     <1>15, <1>16, <1>17, <1>18, <1>19, <1>20, <1>21, <1>22, <1>23
     DEF Next, User, Answer, Clear, Messages, Connect, Timer

\* The inductive invariant holds in every state of every behaviour.
LEMMA Inductive == Spec => []IInv
  BY InitInv, NextInv, PTL DEF Spec

\* The variables of the session, the window and the timer keep their types:
\* m_activeTransferCount is never counted below 0.
THEOREM TypeCorrect == Spec => []TypeOK
<1>1. IInv => TypeOK
  BY DEF IInv
<1> QED
  BY <1>1, Inductive, PTL

\* The operations of FTPSession, which test only m_running, find the wrappers,
\* the queues, the root directory and the profile.
THEOREM SessionIsComplete == Spec => []RunningIsComplete
<1>1. IInv => RunningIsComplete
  BY DEF IInv
<1> QED
  BY <1>1, Inductive, PTL

\* A session that is over holds nothing, although questions nest and a session may
\* be ended while another call of TerminateSession waits for its answer.
THEOREM SessionLeavesNothing == Spec => []OverLeavesNothing
<1>1. IInv => OverLeavesNothing
  BY DEF IInv
<1> QED
  BY <1>1, Inductive, PTL

\* Both together: a session is there as a whole or, once it is over, not at all.
THEOREM SessionStaysWhole == Spec => []SessionIsWhole
  BY SessionIsComplete, SessionLeavesNothing, PTL DEF SessionIsWhole

\* FTPWindow shows a session's directories only while their root exists.
THEOREM ShownIsLive == Spec => []ShownRootIsLive
<1>1. IInv => ShownRootIsLive
  BY DEF IInv
<1> QED
  BY <1>1, Inductive, PTL

-----------------------------------------------------------------------------
(***************************************************************************)
(* The count of active transfers.  Without wrappers there are none, which  *)
(* is what a second Clear, which sends no End of a disconnect, relies on.  *)
(***************************************************************************)
CountInv ==
  /\ ActiveIsExact
  /\ "wrappers" \notin objects => active = 0

\* Nothing is started when no transfer is performed.
LEMMA NoneStarted ==
  ASSUME \A t \in Transfers : transfer[t] \notin {"performing", "ending"}
  PROVE  Cardinality(Started) = 0
<1>1. Started = {}
  BY DEF Started
<1> QED
  BY <1>1, FS_EmptySet

\* The started transfers can be counted.
LEMMA StartedIsFinite == IsFiniteSet(Started) /\ Cardinality(Started) \in Nat
<1>1. Started \subseteq Transfers
  BY DEF Started
<1>2. IsFiniteSet(Started)
  BY <1>1, FS_Subset, SessionAssumption
<1> QED
  BY <1>2, FS_CardinalityType

\* The steps that leave the started transfers and the count alone.
LEMMA CountKept ==
  ASSUME CountInv, UNCHANGED active, Started' = Started,
         closing' = "no" /\ connect' \notin {"asking", "unacked"}
           => closing = "no" /\ connect \notin {"asking", "unacked"},
         "wrappers" \in objects => "wrappers" \in objects'
  PROVE  CountInv'
  BY DEF CountInv, ActiveIsExact

\* Every step keeps the count.
LEMMA NextCount == IInv /\ IInv' /\ CountInv /\ [Next]_vars => CountInv'
<1> SUFFICES ASSUME IInv, IInv', CountInv PROVE [Next]_vars => CountInv'
  OBVIOUS
<1>1. ASSUME StartSession PROVE CountInv'
  <2>1. /\ "wrappers" \in objects' /\ UNCHANGED <<active, transfer, closing>>
        /\ connect' = "queued" /\ connect = "none" /\ closing = "no"
    BY <1>1 DEF StartSession, UserMayAct, windowVars, Objects, IInv, OverLeavesNothing
  <2>2. Started' = Started
    BY <2>1 DEF Started
  <2> QED
    BY <2>1, <2>2 DEF CountInv, ActiveIsExact
<1>2. ASSUME StartSessionFails PROVE CountInv'
  <2>1. /\ active' = 0 /\ UNCHANGED <<transfer, closing, connect, objects>>
        /\ \A t \in Transfers : transfer[t] = "none"
    BY <1>2 DEF StartSessionFails, UserMayAct, OnDisconnect, opVars, IInv, OverLeavesNothing
  <2>2. Started' = Started /\ Cardinality(Started) = 0
    BY <2>1, NoneStarted DEF Started
  <2> QED
    BY <2>1, <2>2 DEF CountInv, ActiveIsExact
<1>3. ASSUME NEW t \in Transfers, AddTransfer(t) PROVE CountInv'
  <2>1. Started' = Started
    BY <1>3 DEF AddTransfer, Started, IInv, TypeOK
  <2> QED
    BY <1>3, <2>1, CountKept DEF AddTransfer, windowVars, sessionVars
<1>4. ASSUME Disconnect PROVE CountInv'
  <2>1. Started' = Started
    BY <1>4 DEF Disconnect, Started, opVars
  <2>2. "wrappers" \in objects => "wrappers" \in objects'
    BY <1>4 DEF Disconnect, TerminateSession, StopRunning
  <2> QED
    BY <1>4, <2>1, <2>2, CountKept DEF Disconnect, UserMayAct, opVars, windowVars
<1>5. ASSUME AnswerYes PROVE CountInv'
  <2>1. Started' = Started
    BY <1>5 DEF AnswerYes, Started, opVars
  <2> QED
    BY <1>5, <2>1, CountKept DEF AnswerYes, StopRunning, opVars, windowVars
<1>6. ASSUME AnswerNo PROVE CountInv'
  <2>1. Started' = Started
    BY <1>6 DEF AnswerNo, Started
  <2>2. connect' \in {connect, "unacked"} /\ closing = "no"
    BY <1>6 DEF AnswerNo
  <2>3. connect = "asking" => connect' = "unacked"
    BY <1>6, TailOfBoxes DEF AnswerNo, IInv, BoxInv
  <2> QED
    BY <1>6, <2>1, <2>2, <2>3, CountKept DEF AnswerNo, sessionVars, windowVars
<1>7. ASSUME CloseQueues PROVE CountInv'
  BY <1>7 DEF CloseQueues, windowVars, CountInv, ActiveIsExact
<1>8. ASSUME CloseMain PROVE CountInv'
  <2>1. closing' = "wrappers" /\ active' \in {active, 0}
    BY <1>8 DEF CloseMain, OnConnect, OnDisconnect, windowVars
  <2>2. "wrappers" \in objects => "wrappers" \in objects'
    BY <1>8 DEF CloseMain
  <2> QED
    BY <2>1, <2>2 DEF CountInv, ActiveIsExact
<1>9. ASSUME CloseWrappers PROVE CountInv'
  <2>1. closing' = "profile" /\ active' = 0
    BY <1>9 DEF CloseWrappers, OnDisconnect, CountInv
  <2> QED
    BY <2>1 DEF CountInv, ActiveIsExact
<1>10. ASSUME CloseProfile PROVE CountInv'
  <2>1. /\ UNCHANGED <<active, transfer>> /\ active = 0
        /\ \A t \in Transfers : transfer[t] = "none"
    BY <1>10 DEF CloseProfile, opVars, windowVars, CountInv, IInv, ClosingInv
  <2>2. Started' = Started /\ Cardinality(Started) = 0
    BY <2>1, NoneStarted DEF Started
  <2> QED
    BY <2>1, <2>2 DEF CountInv, ActiveIsExact
<1>11. ASSUME NEW t \in Transfers, OnTransferStart(t) PROVE CountInv'
  <2>1. /\ active' = active + 1 /\ UNCHANGED <<connect, closing, objects>>
        /\ t \notin Started /\ Started' = Started \cup {t}
    BY <1>11 DEF OnTransferStart, TransferStep, sessionVars, Started, IInv, TypeOK
  <2>2. Cardinality(Started') = Cardinality(Started) + 1
    BY <2>1, StartedIsFinite, FS_AddElement
  <2>3. "wrappers" \in objects
    BY <1>11 DEF OnTransferStart, HandlesMessages, TransferStep, IInv, RunningIsComplete,
                OverLeavesNothing
  <2> QED
    BY <2>1, <2>2, <2>3 DEF CountInv, ActiveIsExact
<1>12. ASSUME NEW t \in Transfers, OnTransferEnd(t) PROVE CountInv'
  <2>1. /\ active' = (IF active > 0 THEN active - 1 ELSE 0)
        /\ UNCHANGED <<connect, closing, objects>>
        /\ t \in Started /\ Started' = Started \ {t}
    BY <1>12 DEF OnTransferEnd, TransferStep, sessionVars, Started, IInv, TypeOK
  <2>2. Cardinality(Started') = Cardinality(Started) - 1
    BY <2>1, StartedIsFinite, FS_RemoveElement
  <2>3. Cardinality(Started) # 0
    BY <2>1, StartedIsFinite, FS_EmptySet
  <2> QED
    BY <2>1, <2>2, <2>3, StartedIsFinite DEF CountInv, ActiveIsExact
<1>13. ASSUME OnConnectEnd PROVE CountInv'
  <2>1. CASE connected
    <3>1. Started' = Started /\ UNCHANGED <<active, objects>> /\ connect = "ending" /\ closing = "no"
      BY <1>13, <2>1 DEF OnConnectEnd, OnConnect, HandlesMessages, Started
    <3> QED
      BY <3>1, CountKept
  <2>2. CASE ~connected
    BY <1>13, <2>2 DEF OnConnectEnd, OnDisconnect, CountInv, ActiveIsExact
  <2> QED
    BY <2>1, <2>2
<1>14. ASSUME OnConnectStart \/ Connect PROVE CountInv'
  <2>1. /\ UNCHANGED <<active, objects, transfer, closing>>
        /\ connect \in {"queued", "starting", "performing", "performed"}
    BY <1>14 DEF OnConnectStart, Connect, ConnectStart, ConnectPerform, ConnectEnd, ConnectStep,
                 sessionVars, windowVars
  <2>2. Started' = Started
    BY <2>1 DEF Started
  <2> QED
    BY <2>1, <2>2, CountKept
<1>15. ASSUME NEW t \in Transfers, TransferThread(t) PROVE CountInv'
  <2>1. Started' = Started
    BY <1>15 DEF TransferThread, TransferStep, Started, IInv, TypeOK
  <2> QED
    BY <1>15, <2>1, CountKept DEF TransferThread, sessionVars, windowVars
<1>16. ASSUME Timer \/ UNCHANGED vars PROVE CountInv'
  <2>1. UNCHANGED <<active, objects, transfer, closing, connect>>
    BY <1>16 DEF Timer, TimerFires, TimerLastAction, TimerNoOp, TimerAdd, sessionVars, opVars,
                 windowVars, vars
  <2>2. Started' = Started
    BY <2>1 DEF Started
  <2> QED
    BY <2>1, <2>2, CountKept
<1> QED
  BY <1>1, <1>2, <1>3, <1>4, <1>5, <1>6, <1>7, <1>8, <1>9, <1>10, <1>11, <1>12, <1>13, <1>14,
     <1>15, <1>16 DEF Next, User, Answer, Clear, Messages

\* m_activeTransferCount is the number of transfers that are performed, unless the
\* connect has failed and the user is asked, or has kept the session.
THEOREM CountIsExact == Spec => []ActiveIsExact
<1>1. Init => CountInv
  <2> SUFFICES ASSUME Init PROVE CountInv
    OBVIOUS
  <2>1. active = 0 /\ \A t \in Transfers : transfer[t] = "none"
    BY DEF Init
  <2> QED
    BY <2>1, NoneStarted DEF CountInv, ActiveIsExact
<1>2. CountInv => ActiveIsExact
  BY DEF CountInv
<1> QED
  BY <1>1, <1>2, NextCount, Inductive, PTL DEF Spec

-----------------------------------------------------------------------------
(***************************************************************************)
(* The saves.                                                              *)
(***************************************************************************)
\* The profile that AttemptToAutoConnect picks is one of the list, and its
\* directory is the file's.
LEMMA MatchFits ==
  ASSUME NEW f \in Files, Fitting(f) # {}
  PROVE  /\ MatchingProfile(f) \in DOMAIN Folder
         /\ Folder[MatchingProfile(f)] = FileFolder(f)
<1>1. DOMAIN Profiles = 1..Len(Profiles) /\ Len(Profiles) \in Nat
  BY SaveAssumption
<1>2. Fitting(f) \in SUBSET Nat /\ Fitting(f) \subseteq DOMAIN Profiles
  BY <1>1 DEF Fitting
<1>3. \E i \in Fitting(f) : \A j \in Fitting(f) : i <= j
  BY <1>2, LeastNatural
<1> DEFINE first == CHOOSE i \in Fitting(f) : \A j \in Fitting(f) : i <= j
<1>4. first \in Fitting(f)
  BY <1>3
<1>5. MatchingProfile(f) = Profiles[first]
  BY DEF MatchingProfile
<1> HIDE DEF first
<1>6. first \in DOMAIN Profiles /\ Folder[Profiles[first]] = FileFolder(f)
  BY <1>4 DEF Fitting
<1>7. Profiles[first] \in DOMAIN Folder
  BY <1>1, <1>6, SaveAssumption
<1> QED
  BY <1>5, <1>6, <1>7

\* The first state has neither a profile nor an upload.
LEMMA SaveInitially ==
  ASSUME SaveInit
  PROVE  Init /\ SaveInv /\ UploadInv
  BY DEF SaveInit, SaveInv, UploadInv, SavesStayInSession, Init

\* Every step of OnSave and of what goes on beside it is a step of the session, or
\* leaves it alone.
LEMMA SaveIsSession ==
  ASSUME SaveInv, [SaveNext]_saveAll
  PROVE  [Next]_vars
<1>1. ASSUME NEW f \in Files, OnSave(f)
      PROVE  UNCHANGED vars
  BY <1>1 DEF OnSave
<1>2. CASE DisconnectOnInfoMismatch
  <2>1. Disconnect
    BY <1>2 DEF DisconnectOnInfoMismatch, Blocked, SaveInv, Disconnect, UserMayAct
  <2> QED
    BY <2>1 DEF Next, User
<1>3. CASE AttemptToAutoConnect
  BY <1>3 DEF AttemptToAutoConnect, Next, User
<1>4. CASE AutoConnectFails
  BY <1>4 DEF AutoConnectFails, Next, User
<1>5. CASE NoAutoConnect \/ NotUploaded
  BY <1>5 DEF NoAutoConnect, NotUploaded
<1>6. ASSUME NEW t \in Transfers, UploadFileCache(t)
      PROVE  [Next]_vars
  BY <1>6 DEF UploadFileCache, Next, User
<1>7. ASSUME NEW i \in DOMAIN Profiles, ConnectTo(Profiles[i])
      PROVE  [Next]_vars
  BY <1>7 DEF ConnectTo, Next, User
<1>8. CASE SessionStep
  BY <1>8 DEF SessionStep, UserAction, WindowAction, Next, User
<1>9. CASE UNCHANGED saveAll
  BY <1>9 DEF saveAll
<1> QED
  BY <1>1, <1>2, <1>3, <1>4, <1>5, <1>6, <1>7, <1>8, <1>9 DEF SaveNext, Save

\* Every step keeps what OnSave relies on between its calls.
LEMMA SaveStep ==
  ASSUME SaveInv, [SaveNext]_saveAll
  PROVE  SaveInv'
<1> USE SaveAssumption
<1>1. ASSUME NEW f \in Files, OnSave(f)
      PROVE  SaveInv'
  BY <1>1 DEF OnSave, SaveInv, UserMayAct, vars
<1>2. CASE DisconnectOnInfoMismatch
  BY <1>2 DEF DisconnectOnInfoMismatch, SaveInv
<1>3. CASE AttemptToAutoConnect
  <2>1. saving \in Files /\ Fitting(saving) # {}
    BY <1>3 DEF AttemptToAutoConnect, SaveInv
  <2>2. profile' \in DOMAIN Folder
    BY <1>3, <2>1, MatchFits DEF AttemptToAutoConnect
  <2> QED
    BY <1>3, <2>2 DEF AttemptToAutoConnect, SaveInv
<1>4. CASE AutoConnectFails
  BY <1>4 DEF AutoConnectFails, SaveInv
<1>5. CASE NoAutoConnect \/ NotUploaded
  BY <1>5 DEF NoAutoConnect, NotUploaded, SaveInv, vars
<1>6. ASSUME NEW t \in Transfers, UploadFileCache(t)
      PROVE  SaveInv'
  BY <1>6 DEF UploadFileCache, SaveInv
<1>7. ASSUME NEW i \in DOMAIN Profiles, ConnectTo(Profiles[i])
      PROVE  SaveInv'
  <2>1. Profiles[i] \in DOMAIN Folder
    OBVIOUS
  <2> QED
    BY <1>7, <2>1 DEF ConnectTo, SaveInv
<1>8. CASE SessionStep
  <2>1. profile' \in {None, profile} /\ DOMAIN uploads' = Transfers /\ UNCHANGED <<saving, spc>>
    BY <1>8 DEF SessionStep, Forget
  <2>2. spc = "mismatch" => UNCHANGED <<running, boxes, closing>>
    <3>1. ASSUME spc = "mismatch"
          PROVE  Connect \/ Timer \/ \E t \in Transfers : TransferThread(t)
      BY <1>8, <3>1 DEF SessionStep, Blocked, SaveInv
    <3>2. Connect => UNCHANGED <<running, boxes, closing>>
      BY DEF Connect, ConnectStart, ConnectPerform, ConnectEnd, sessionVars
    <3>3. Timer => UNCHANGED <<running, boxes, closing>>
      BY DEF Timer, TimerFires, TimerLastAction, TimerNoOp, TimerAdd, sessionVars
    <3>4. (\E t \in Transfers : TransferThread(t)) => UNCHANGED <<running, boxes, closing>>
      BY DEF TransferThread, sessionVars
    <3> QED
      BY <3>1, <3>2, <3>3, <3>4
  <2> QED
    BY <2>1, <2>2 DEF SaveInv
<1>9. CASE UNCHANGED saveAll
  BY <1>9 DEF saveAll, saveVars, vars, SaveInv
<1> QED
  BY <1>1, <1>2, <1>3, <1>4, <1>5, <1>6, <1>7, <1>8, <1>9 DEF SaveNext, Save

\* Transfers are there only with the session's root directory: they are added to
\* a running session, and Clear has removed them before the root is deleted.
LEMMA TransfersNeedRoot ==
  ASSUME IInv, [Next]_vars,
         \A t \in Transfers : transfer[t] # "none" => "root" \in objects
  PROVE  \A t \in Transfers : transfer'[t] # "none" => "root" \in objects'
<1> USE DEF IInv, TypeOK
<1>1. CASE UNCHANGED <<transfer, objects>>
  BY <1>1
<1>2. CASE StartSession
  BY <1>2 DEF StartSession, Objects
<1>3. ASSUME NEW t \in Transfers, AddTransfer(t)
      PROVE  \A u \in Transfers : transfer'[u] # "none" => "root" \in objects'
  BY <1>3 DEF AddTransfer, RunningIsComplete, sessionVars
<1>4. ASSUME UNCHANGED transfer, objects' = objects \/ objects' = objects \ {"timer"}
      PROVE  \A u \in Transfers : transfer'[u] # "none" => "root" \in objects'
  BY <1>4
<1>5. CASE Disconnect \/ AnswerYes
  BY <1>4, <1>5 DEF Disconnect, AnswerYes, TerminateSession, StopRunning, opVars
<1>6. CASE OnConnectEnd
  BY <1>4, <1>6 DEF OnConnectEnd, TerminateSession, StopRunning
<1>7. CASE StartSessionFails \/ AnswerNo \/ Connect \/ OnConnectStart \/ Timer
  BY <1>1, <1>7 DEF StartSessionFails, AnswerNo, Connect, ConnectStart, ConnectPerform,
    ConnectEnd, OnConnectStart, Timer, TimerFires, TimerLastAction, TimerNoOp, TimerAdd,
    sessionVars, opVars
<1>8. ASSUME NEW t \in Transfers,
             TransferThread(t) \/ OnTransferStart(t) \/ OnTransferEnd(t)
      PROVE  \A u \in Transfers : transfer'[u] # "none" => "root" \in objects'
  BY <1>8 DEF TransferThread, OnTransferStart, OnTransferEnd, TransferStep, sessionVars
<1>9. CASE CloseQueues
  BY <1>9 DEF CloseQueues
<1>10. CASE CloseMain \/ CloseWrappers \/ CloseProfile
  BY <1>10 DEF CloseMain, CloseWrappers, CloseProfile, ClosingInv, opVars
<1>11. CASE UNCHANGED vars
  BY <1>1, <1>11 DEF vars, sessionVars, opVars
<1> QED
  BY <1>2, <1>3, <1>5, <1>6, <1>7, <1>8, <1>9, <1>10, <1>11
    DEF Next, User, Answer, Clear, Messages

\* Every step keeps the uploads in their session: while there is one, its session's
\* root is there, so that the profile is neither released nor another.
LEMMA UploadStep ==
  ASSUME IInv, IInv', SaveInv, UploadInv, [SaveNext]_saveAll
  PROVE  UploadInv'
<1> USE SaveAssumption DEF IInv
<1>0. [Next]_vars
  BY SaveIsSession
<1>a. \A t \in Transfers : transfer'[t] # "none" => "root" \in objects'
  BY <1>0, TransfersNeedRoot DEF UploadInv
<1>b. ~running /\ closing = "no" => \A t \in Transfers : uploads[t] = None
  BY DEF OverLeavesNothing, UploadInv
<1>1. ASSUME UNCHANGED <<uploads, profile, transfer>>
      PROVE  UploadInv'
  BY <1>1, <1>a DEF UploadInv, SavesStayInSession
<1>2. ASSUME NEW t \in Transfers, UploadFileCache(t)
      PROVE  UploadInv'
  <2>1. /\ saving \in Files /\ profile \in DOMAIN Folder
        /\ Folder[profile] = FileFolder(saving)
    BY <1>2 DEF UploadFileCache, IsInCache, SaveInv
  <2>2. /\ uploads' = [uploads EXCEPT ![t] = [file |-> saving, profile |-> profile]]
        /\ transfer' = [transfer EXCEPT ![t] = "queued"]
        /\ profile' = profile
    BY <1>2 DEF UploadFileCache, AddTransfer
  <2>3. DOMAIN uploads = Transfers /\ transfer \in [Transfers -> TransferPhases]
    BY DEF SaveInv, TypeOK
  <2>4. ASSUME NEW u \in Transfers, uploads'[u] # None
        PROVE  /\ uploads'[u].profile = profile'
               /\ Folder[profile'] = FileFolder(uploads'[u].file)
               /\ transfer'[u] # "none"
    <3>1. CASE u = t
      BY <2>1, <2>2, <2>3, <3>1
    <3>2. CASE u # t
      BY <2>2, <2>3, <2>4, <3>2 DEF UploadInv, SavesStayInSession
    <3> QED
      BY <3>1, <3>2
  <2> QED
    BY <1>a, <2>4 DEF UploadInv, SavesStayInSession, FileFolder
<1>3. CASE SessionStep
  <2>1. ASSUME NEW t \in Transfers, uploads'[t] # None
        PROVE  /\ uploads'[t] = uploads[t] /\ transfer'[t] # "none"
               /\ profile' = profile
    <3>1. uploads'[t] = uploads[t] /\ transfer'[t] # "none"
      BY <1>3, <2>1 DEF SessionStep, Forget
    <3>2. refs' = 1
      BY <1>a, <3>1 DEF NeedInv
    <3> QED
      BY <1>3, <3>1, <3>2 DEF SessionStep
  <2> QED
    BY <1>a, <2>1 DEF UploadInv, SavesStayInSession, FileFolder
<1>4. CASE UNCHANGED saveAll
  BY <1>1, <1>4 DEF saveAll, saveVars, vars, opVars
<1>5. ASSUME UNCHANGED uploads, ~running, closing = "no"
      PROVE  UploadInv'
  BY <1>5, <1>a, <1>b DEF UploadInv, SavesStayInSession
<1>6. ASSUME NEW f \in Files, OnSave(f)
      PROVE  UploadInv'
  BY <1>1, <1>6 DEF OnSave, vars, opVars
<1>7. ASSUME NEW i \in DOMAIN Profiles, ConnectTo(Profiles[i])
      PROVE  UploadInv'
  BY <1>5, <1>7 DEF ConnectTo, StartSession, UserMayAct
<1>8. CASE AttemptToAutoConnect
  BY <1>5, <1>8 DEF AttemptToAutoConnect, StartSession, UserMayAct
<1>9. CASE DisconnectOnInfoMismatch \/ AutoConnectFails \/ NoAutoConnect \/ NotUploaded
  BY <1>1, <1>9 DEF DisconnectOnInfoMismatch, AutoConnectFails, StartSessionFails,
    NoAutoConnect, NotUploaded, vars, opVars
<1> QED
  BY <1>2, <1>3, <1>4, <1>6, <1>7, <1>8, <1>9 DEF SaveNext, Save

-----------------------------------------------------------------------------
\* What OnSave relies on between its calls holds whenever the window thread is
\* inside it.
LEMMA SaveInductive == SaveSpec => []SaveInv
  BY SaveInitially, SaveStep, PTL DEF SaveSpec

\* A save is nothing new to the session.
THEOREM SaveImplementsSession == SaveSpec => ImplementsSession
<1>1. SaveInit => Init
  BY SaveInitially
<1>2. SaveInv /\ [SaveNext]_saveAll => [Next]_vars
  BY SaveIsSession
<1> QED
  BY <1>1, <1>2, SaveInductive, PTL DEF SaveSpec, ImplementsSession, Spec

\* An upload that a save queued stays with its session and below its file's
\* directory, whatever the user, the running session and a failed connect do in the
\* middle of OnSave: no session is replaced before Clear has ended its uploads.
THEOREM SavesKeepTheirSession == SaveSpec => []SavesStayInSession
<1>1. SaveInit => UploadInv
  BY SaveInitially
<1>2. IInv /\ IInv' /\ SaveInv /\ UploadInv /\ [SaveNext]_saveAll => UploadInv'
  BY UploadStep
<1>3. SaveSpec => []IInv
  BY SaveImplementsSession, Inductive, PTL DEF ImplementsSession
<1>4. UploadInv => SavesStayInSession
  BY DEF UploadInv
<1> QED
  BY <1>1, <1>2, <1>3, <1>4, SaveInductive, PTL DEF SaveSpec

\* So a session that saves connect, end and replace is a whole one or none ...
THEOREM SavedSessionIsWhole == SaveSpec => []SessionIsWhole
  BY SaveImplementsSession, SessionStaysWhole, PTL DEF ImplementsSession

\* ... and FTPWindow counts the transfers of saves exactly, too.
THEOREM SavedCountIsExact == SaveSpec => []ActiveIsExact
  BY SaveImplementsSession, CountIsExact, PTL DEF ImplementsSession
=============================================================================
