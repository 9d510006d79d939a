-------------------------- MODULE SFTPClientProofs --------------------------
(***************************************************************************)
(* Proofs about the SSH wrappers, for any number of wrappers and files,    *)
(* any calls, and any bounds.                                              *)
(***************************************************************************)
EXTENDS SFTPClient, FiniteSetTheorems, TLAPS

\* Initially no wrapper has anything.
LEMMA SFTPInitially == Init => SFTPInv
<1> SUFFICES ASSUME Init PROVE SFTPInv
  OBVIOUS
<1>1. SFTPDomains
  BY SFTPAssumption DEF Init, SFTPDomains, WithSession, Connecting
<1>2. \A w \in Wrappers : SessionInv(w) /\ CallInv(w) /\ HandlesInv(w) /\ ProgressInv(w)
  BY SFTPAssumption DEF Init, SessionInv, CallInv, HandlesInv, ProgressInv, WithSession, Connecting,
    Transferring, Transfers, Handle
<1>3. Counted = {}
  BY DEF Init, Counted, Connecting
<1>4. Cardinality(Counted) = 0 /\ users = 0
  BY <1>3, FS_EmptySet DEF Init
<1> QED
  BY <1>1, <1>2, <1>4 DEF SFTPInv

\* What the head of authenticate's loop does, whatever the server offers.
LEMMA AuthListGoesOn ==
  ASSUME NEW w \in Wrappers, AuthList(w)
  PROVE  /\ pc[w] = "methods" /\ (ConnectFails(w) \/ Proceed(w, "key"))
         /\ UNCHANGED <<users, data, history>>
BY DEF AuthList

\* Every step keeps the domains.
LEMMA DomainsStep ==
  ASSUME SFTPInv, NEW w \in Wrappers, Start(w) \/ Step(w) \/ Abort(w) \/ Drop(w)
  PROVE  SFTPDomains'
<1> USE SFTPAssumption DEF SFTPInv, SFTPDomains, connection, call, data, history, Set, Goto, Finish, Stay,
      OnReturn, WithSession, Connecting
<1>1. CASE Start(w)
  BY <1>1 DEF Start
<1>2. CASE Abort(w)
  BY <1>2 DEF Abort
<1>3. CASE Drop(w)
  BY <1>3 DEF Drop
<1>4. CASE DisconnectCall(w)
  BY <1>4 DEF DisconnectCall, Disconnect
<1>5. CASE IsConnected(w)
  BY <1>5 DEF IsConnected, Disconnect, First
<1>6. CASE Connect(w)
  BY <1>6 DEF Connect, ConnectFails, Proceed
<1>7. CASE ConnectSSH(w)
  BY <1>7 DEF ConnectSSH, ConnectFails
<1>8. CASE VerifyKnownHost(w)
  BY <1>8 DEF VerifyKnownHost, ConnectFails, Proceed
<1>9. CASE UserauthNone(w)
  BY <1>9 DEF UserauthNone, ConnectFails, Proceed
<1>10. CASE AuthList(w)
  BY <1>10, AuthListGoesOn DEF ConnectFails, Proceed
<1>11. CASE \E m \in Methods : Authenticate(w, m)
  <2>1. PICK m \in Methods : Authenticate(w, m)
    BY <1>11
  <2> QED
    BY <2>1 DEF Authenticate, Answered, Proceed
<1>12. CASE Challenge(w)
  BY <1>12 DEF Challenge, Answered, Proceed
<1>13. CASE Judge(w)
  BY <1>13 DEF Judge, ConnectFails, Proceed
<1>14. CASE OpenChannel(w)
  BY <1>14 DEF OpenChannel, ConnectFails, First
<1>15. CASE Change(w)
  BY <1>15 DEF Change
<1>16. CASE OpenDir(w)
  BY <1>16 DEF OpenDir
<1>17. CASE DirCheck(w)
  BY <1>17 DEF DirCheck, CloseDir
<1>18. CASE ReadDir(w)
  BY <1>18 DEF ReadDir
<1>19. CASE Listed(w)
  BY <1>19 DEF Listed, CloseDir, EndLoop
<1>20. CASE OpenFile(w)
  BY <1>20 DEF OpenFile, Mode, Handle
<1>21. CASE OpenRemote(w)
  BY <1>21 DEF OpenRemote, CloseLocal, Mode, Handle
<1>22. CASE Check(w)
  BY <1>22 DEF Check, CloseBoth, CloseLocal, Mode, Handle
<1>23. CASE Move(w)
  <2>1. moved[w] \in 0..Chunks /\ offset[w] \in 0..Chunks /\ moved[w] <= offset[w]
    BY <1>23 DEF Move, ProgressInv
  <2>2. MoveChunk(w) => moved[w] + 1 \in 0..Chunks /\ offset[w] + 1 \in 0..Chunks
    BY <2>1 DEF MoveChunk
  <2>3. moved' \in [Wrappers -> 0..Chunks] /\ offset' \in [Wrappers -> 0..Chunks]
    BY <1>23, <2>2 DEF Move, MoveChunk, MoveEnds
  <2> QED
    BY <1>23, <2>3 DEF Move, MoveChunk, MoveEnds
<1>24. CASE Close(w)
  BY <1>24 DEF Close, CloseBoth, CloseLocal, EndLoop, Mode, Handle, Returned
<1> QED
  BY <1>1, <1>2, <1>3, <1>4, <1>5, <1>6, <1>7, <1>8, <1>9, <1>10, <1>11, <1>12, <1>13, <1>14, <1>15,
    <1>16, <1>17, <1>18, <1>19, <1>20, <1>21, <1>22, <1>23, <1>24 DEF Step

\* Every step keeps what a wrapper's place says of its session and its call, and
\* leaves every other wrapper alone.
LEMMA PlacesStep ==
  ASSUME SFTPInv, NEW w \in Wrappers, Start(w) \/ Step(w) \/ Abort(w) \/ Drop(w)
  PROVE  \A x \in Wrappers : SessionInv(x)' /\ CallInv(x)'
<1> SUFFICES ASSUME NEW x \in Wrappers PROVE SessionInv(x)' /\ CallInv(x)'
  OBVIOUS
<1> USE SFTPAssumption DEF SFTPInv, SFTPDomains, connection, call, data, history, Set, Goto, Finish, Stay,
      OnReturn, WithSession, Connecting, Transferring, Transfers, SessionInv, CallInv
<1>1. CASE Start(w)
  BY <1>1 DEF Start
<1>2. CASE Abort(w)
  BY <1>2 DEF Abort
<1>3. CASE Drop(w)
  BY <1>3 DEF Drop
<1>4. CASE DisconnectCall(w)
  <2>1. CASE connected[w]
    <3>1. CASE x = w
      <4>1. session' = [session EXCEPT ![w] = FALSE] /\ connected' = [connected EXCEPT ![w] = FALSE]
        BY <1>4, <2>1 DEF DisconnectCall, Disconnect
      <4>2. session'[w] = FALSE /\ connected'[w] = FALSE
        BY <4>1
      <4>3. pc'[w] = "idle"
        BY <1>4 DEF DisconnectCall
      <4> QED
        BY <3>1, <4>2, <4>3
    <3>2. CASE x # w
      BY <1>4, <2>1, <3>2 DEF DisconnectCall, Disconnect
    <3> QED
      BY <3>1, <3>2
  <2>2. CASE ~connected[w]
    BY <1>4, <2>2 DEF DisconnectCall
  <2> QED
    BY <2>1, <2>2
<1>5. CASE IsConnected(w)
  <2>1. CASE connected[w] /\ link[w] = "up" /\ op[w] = "noop" /\ Finish(w, "ok") /\ UNCHANGED <<connection, data>>
    BY <2>1
  <2>2. CASE connected[w] /\ op[w] # "noop" /\ Stay(w, First(op[w])) /\ UNCHANGED <<connection, data>>
    BY <1>5, <2>2 DEF IsConnected, First
  <2>3. CASE connected[w] /\ Disconnect(w) /\ (Finish(w, "ok") \/ Stay(w, "connect"))
    <3>1. CASE x = w
      <4>1. session'[w] = FALSE /\ connected'[w] = FALSE /\ pc'[w] \in {"idle", "connect"}
        BY <2>3 DEF Disconnect
      <4>2. CASE Finish(w, "ok")
        <5>1. pc'[w] = "idle"
          BY <4>2
        <5> QED
          BY <3>1, <4>1, <5>1
      <4>3. CASE Stay(w, "connect")
        <5>1. pc'[w] = "connect" /\ op' = op /\ file' = file
          BY <4>3
        <5>2. file[w] \in Files
          BY <1>5 DEF IsConnected
        <5> QED
          BY <3>1, <4>1, <5>1, <5>2
      <4> QED
        BY <2>3, <4>2, <4>3
    <3>2. CASE x # w
      BY <2>3, <3>2 DEF Disconnect
    <3> QED
      BY <3>1, <3>2
  <2>4. CASE ~connected[w] /\ UNCHANGED connection /\ (Finish(w, "ok") \/ Stay(w, "connect"))
    BY <1>5, <2>4 DEF IsConnected
  <2> QED
    BY <1>5, <2>1, <2>2, <2>3, <2>4 DEF IsConnected
<1>6. CASE Connect(w)
  BY <1>6 DEF Connect, ConnectFails, Proceed
<1>7. CASE ConnectSSH(w)
  BY <1>7 DEF ConnectSSH, ConnectFails
<1>8. CASE VerifyKnownHost(w)
  BY <1>8 DEF VerifyKnownHost, ConnectFails, Proceed
<1>9. CASE UserauthNone(w)
  BY <1>9 DEF UserauthNone, ConnectFails, Proceed
<1>10. CASE AuthList(w)
  BY <1>10, AuthListGoesOn DEF ConnectFails, Proceed
<1>11. CASE \E m \in Methods : Authenticate(w, m)
  <2>1. PICK m \in Methods : Authenticate(w, m)
    BY <1>11
  <2> QED
    BY <2>1 DEF Authenticate, Answered, Proceed, Methods, After
<1>12. CASE Challenge(w)
  BY <1>12 DEF Challenge, Answered, Proceed
<1>13. CASE Judge(w)
  BY <1>13 DEF Judge, ConnectFails, Proceed
<1>14. CASE OpenChannel(w)
  <2>1. CASE ConnectFails(w)
    BY <1>14, <2>1 DEF OpenChannel, ConnectFails
  <2>2. CASE ~ConnectFails(w)
    <3>. session' = [session EXCEPT ![w] = TRUE] /\ connected' = [connected EXCEPT ![w] = TRUE]
      BY <1>14, <2>2 DEF OpenChannel
    <3>. session'[w] = TRUE /\ connected'[w] = TRUE
      OBVIOUS
    <3>1. CASE x = w /\ op[w] = "connect"
      <4>1. pc'[w] = "idle"
        BY <1>14, <2>2, <3>1 DEF OpenChannel
      <4> QED
        BY <3>1, <4>1
    <3>2. CASE x = w /\ op[w] # "connect"
      <4>1. /\ pc'[w] = First(op[w]) /\ op'[w] = op[w] /\ file'[w] = file[w] /\ file[w] \in Files
        BY <1>14, <2>2, <3>2 DEF OpenChannel
      <4> QED
        BY <3>2, <4>1 DEF First
    <3>3. CASE x # w
      BY <1>14, <2>2, <3>3 DEF OpenChannel
    <3> QED
      BY <3>1, <3>2, <3>3
  <2> QED
    BY <2>1, <2>2
<1>15. CASE Change(w)
  BY <1>15 DEF Change
<1>16. CASE OpenDir(w)
  BY <1>16 DEF OpenDir
<1>17. CASE DirCheck(w)
  BY <1>17 DEF DirCheck, CloseDir
<1>18. CASE ReadDir(w)
  BY <1>18 DEF ReadDir
<1>19. CASE Listed(w)
  BY <1>19 DEF Listed, CloseDir, EndLoop
<1>20. CASE OpenFile(w)
  BY <1>20 DEF OpenFile, Mode, Handle
<1>21. CASE OpenRemote(w)
  BY <1>21 DEF OpenRemote, CloseLocal, Mode, Handle
<1>22. CASE Check(w)
  BY <1>22 DEF Check, CloseBoth, CloseLocal, Mode, Handle
<1>23. CASE Move(w)
  BY <1>23 DEF Move, MoveChunk, MoveEnds
<1>24. CASE Close(w)
  BY <1>24 DEF Close, CloseBoth, CloseLocal, EndLoop, Mode, Handle, Returned
<1> QED
  BY <1>1, <1>2, <1>3, <1>4, <1>5, <1>6, <1>7, <1>8, <1>9, <1>10, <1>11, <1>12, <1>13, <1>14, <1>15,
    <1>16, <1>17, <1>18, <1>19, <1>20, <1>21, <1>22, <1>23, <1>24 DEF Step

\* The same of its handles.
LEMMA HandlesStep ==
  ASSUME SFTPInv, NEW w \in Wrappers, Start(w) \/ Step(w) \/ Abort(w) \/ Drop(w)
  PROVE  \A x \in Wrappers : HandlesInv(x)'
<1> SUFFICES ASSUME NEW x \in Wrappers PROVE HandlesInv(x)'
  OBVIOUS
<1> USE SFTPAssumption DEF SFTPInv, SFTPDomains, connection, call, data, history, Set, Goto, Finish, Stay,
      OnReturn, WithSession, Connecting, Transferring, Transfers, SessionInv, CallInv, HandlesInv
<1>1. CASE Start(w)
  BY <1>1 DEF Start
<1>2. CASE Abort(w)
  BY <1>2 DEF Abort
<1>3. CASE Drop(w)
  BY <1>3 DEF Drop
<1>4. CASE DisconnectCall(w)
  BY <1>4 DEF DisconnectCall, Disconnect
<1>5. CASE IsConnected(w)
  BY <1>5 DEF IsConnected, Disconnect, First
<1>6. CASE Connect(w)
  BY <1>6 DEF Connect, ConnectFails, Proceed
<1>7. CASE ConnectSSH(w)
  BY <1>7 DEF ConnectSSH, ConnectFails
<1>8. CASE VerifyKnownHost(w)
  BY <1>8 DEF VerifyKnownHost, ConnectFails, Proceed
<1>9. CASE UserauthNone(w)
  BY <1>9 DEF UserauthNone, ConnectFails, Proceed
<1>10. CASE AuthList(w)
  BY <1>10, AuthListGoesOn DEF ConnectFails, Proceed
<1>11. CASE \E m \in Methods : Authenticate(w, m)
  <2>1. PICK m \in Methods : Authenticate(w, m)
    BY <1>11
  <2> QED
    BY <2>1 DEF Authenticate, Answered, Proceed, Methods, After
<1>12. CASE Challenge(w)
  BY <1>12 DEF Challenge, Answered, Proceed
<1>13. CASE Judge(w)
  BY <1>13 DEF Judge, ConnectFails, Proceed
<1>14. CASE OpenChannel(w)
  BY <1>14 DEF OpenChannel, ConnectFails, First
<1>15. CASE Change(w)
  BY <1>15 DEF Change
<1>16. CASE OpenDir(w)
  BY <1>16 DEF OpenDir
<1>17. CASE DirCheck(w)
  BY <1>17 DEF DirCheck, CloseDir
<1>18. CASE ReadDir(w)
  BY <1>18 DEF ReadDir
<1>19. CASE Listed(w)
  BY <1>19 DEF Listed, CloseDir, EndLoop
<1>20. CASE OpenFile(w)
  BY <1>20 DEF OpenFile, Mode, Handle
<1>21. CASE OpenRemote(w)
  BY <1>21 DEF OpenRemote, CloseLocal, Mode, Handle
<1>22. CASE Check(w)
  BY <1>22 DEF Check, CloseBoth, CloseLocal, Mode, Handle
<1>23. CASE Move(w)
  BY <1>23 DEF Move, MoveChunk, MoveEnds
<1>24. CASE Close(w)
  BY <1>24 DEF Close, CloseBoth, CloseLocal, EndLoop, Mode, Handle, Returned
<1> QED
  BY <1>1, <1>2, <1>3, <1>4, <1>5, <1>6, <1>7, <1>8, <1>9, <1>10, <1>11, <1>12, <1>13, <1>14, <1>15,
    <1>16, <1>17, <1>18, <1>19, <1>20, <1>21, <1>22, <1>23, <1>24 DEF Step

\* The same of how far its transfer is.
LEMMA ProgressStep ==
  ASSUME SFTPInv, NEW w \in Wrappers, Start(w) \/ Step(w) \/ Abort(w) \/ Drop(w)
  PROVE  \A x \in Wrappers : ProgressInv(x)'
<1> SUFFICES ASSUME NEW x \in Wrappers PROVE ProgressInv(x)'
  OBVIOUS
<1> USE SFTPAssumption DEF SFTPInv, SFTPDomains, connection, call, data, history, Set, Goto, Finish, Stay,
      OnReturn, WithSession, Connecting, Transferring, Transfers, SessionInv, CallInv, ProgressInv
<1>1. CASE Start(w)
  BY <1>1 DEF Start
<1>2. CASE Abort(w)
  BY <1>2 DEF Abort
<1>3. CASE Drop(w)
  BY <1>3 DEF Drop
<1>4. CASE DisconnectCall(w)
  BY <1>4 DEF DisconnectCall, Disconnect
<1>5. CASE IsConnected(w)
  BY <1>5 DEF IsConnected, Disconnect, First
<1>6. CASE Connect(w)
  BY <1>6 DEF Connect, ConnectFails, Proceed
<1>7. CASE ConnectSSH(w)
  BY <1>7 DEF ConnectSSH, ConnectFails
<1>8. CASE VerifyKnownHost(w)
  BY <1>8 DEF VerifyKnownHost, ConnectFails, Proceed
<1>9. CASE UserauthNone(w)
  BY <1>9 DEF UserauthNone, ConnectFails, Proceed
<1>10. CASE AuthList(w)
  BY <1>10, AuthListGoesOn DEF ConnectFails, Proceed
<1>11. CASE \E m \in Methods : Authenticate(w, m)
  <2>1. PICK m \in Methods : Authenticate(w, m)
    BY <1>11
  <2> QED
    BY <2>1 DEF Authenticate, Answered, Proceed, Methods, After
<1>12. CASE Challenge(w)
  BY <1>12 DEF Challenge, Answered, Proceed
<1>13. CASE Judge(w)
  BY <1>13 DEF Judge, ConnectFails, Proceed
<1>14. CASE OpenChannel(w)
  BY <1>14 DEF OpenChannel, ConnectFails, First
<1>15. CASE Change(w)
  BY <1>15 DEF Change
<1>16. CASE OpenDir(w)
  BY <1>16 DEF OpenDir
<1>17. CASE DirCheck(w)
  BY <1>17 DEF DirCheck, CloseDir
<1>18. CASE ReadDir(w)
  BY <1>18 DEF ReadDir
<1>19. CASE Listed(w)
  BY <1>19 DEF Listed, CloseDir, EndLoop
<1>20. CASE OpenFile(w)
  BY <1>20 DEF OpenFile, Mode, Handle
<1>21. CASE OpenRemote(w)
  BY <1>21 DEF OpenRemote, CloseLocal, Mode, Handle
<1>22. CASE Check(w)
  BY <1>22 DEF Check, CloseBoth, CloseLocal, Mode, Handle
<1>23. CASE Move(w)
  BY <1>23 DEF Move, MoveChunk, MoveEnds
<1>24. CASE Close(w)
  BY <1>24 DEF Close, CloseBoth, CloseLocal, EndLoop, Mode, Handle, Returned
<1> QED
  BY <1>1, <1>2, <1>3, <1>4, <1>5, <1>6, <1>7, <1>8, <1>9, <1>10, <1>11, <1>12, <1>13, <1>14, <1>15,
    <1>16, <1>17, <1>18, <1>19, <1>20, <1>21, <1>22, <1>23, <1>24 DEF Step

\* The wrappers that libssh counts, and what each kind of step makes of them.
LEMMA CountedIsFinite == IsFiniteSet(Counted)
BY SFTPAssumption, FS_Subset DEF Counted

LEMMA CountedKept ==
  ASSUME SFTPInv, users' = users \/ users' = users + 1, Counted' \subseteq Counted
  PROVE  users' \in Int /\ Cardinality(Counted)' <= users'
<1>1. Cardinality(Counted') <= Cardinality(Counted) /\ Cardinality(Counted) \in Nat
  BY CountedIsFinite, FS_Subset, FS_CardinalityType
<1>2. Cardinality(Counted') \in Nat
  BY CountedIsFinite, FS_Subset, FS_CardinalityType
<1>3. Cardinality(Counted)' = Cardinality(Counted')
  OBVIOUS
<1> QED
  BY <1>1, <1>2, <1>3 DEF SFTPInv

LEMMA CountedMore ==
  ASSUME SFTPInv, NEW w \in Wrappers, users' = users + 1, Counted' \subseteq Counted \cup {w}
  PROVE  users' \in Int /\ Cardinality(Counted)' <= users'
<1>1. IsFiniteSet(Counted \cup {w}) /\ Cardinality(Counted) \in Nat
        /\ Cardinality(Counted \cup {w}) <= Cardinality(Counted) + 1
  <2>1. Cardinality(Counted) \in Nat
    BY CountedIsFinite, FS_CardinalityType
  <2>2. CASE w \in Counted
    <3>1. Counted \cup {w} = Counted
      BY <2>2
    <3>2. IsFiniteSet(Counted)
      BY CountedIsFinite
    <3>3. Cardinality(Counted \cup {w}) = Cardinality(Counted) /\ IsFiniteSet(Counted \cup {w})
      BY <3>1, <3>2
    <3> QED
      BY <2>1, <3>3
  <2>3. CASE w \notin Counted
    <3>1. IsFiniteSet(Counted)
      BY CountedIsFinite
    <3>2. IsFiniteSet(Counted \cup {w}) /\ Cardinality(Counted \cup {w}) = Cardinality(Counted) + 1
      BY <2>3, <3>1, FS_AddElement
    <3> QED
      BY <2>1, <3>2
  <2> QED
    BY <2>2, <2>3
<1>2. Cardinality(Counted') <= Cardinality(Counted \cup {w})
  BY <1>1, FS_Subset
<1>3. Cardinality(Counted') \in Nat /\ Cardinality(Counted \cup {w}) \in Nat
  BY <1>1, FS_Subset, FS_CardinalityType
<1>4. Cardinality(Counted)' = Cardinality(Counted')
  OBVIOUS
<1> QED
  BY <1>1, <1>2, <1>3, <1>4 DEF SFTPInv

LEMMA CountedLess ==
  ASSUME SFTPInv, NEW w \in Counted, users' = users - 1, Counted' \subseteq Counted \ {w}
  PROVE  users' \in Int /\ Cardinality(Counted)' <= users'
<1>1. /\ IsFiniteSet(Counted \ {w}) /\ Cardinality(Counted) \in Nat
      /\ Cardinality(Counted \ {w}) = Cardinality(Counted) - 1
  BY CountedIsFinite, FS_RemoveElement, FS_CardinalityType
<1>2. Cardinality(Counted') <= Cardinality(Counted \ {w})
  BY <1>1, FS_Subset
<1>3. Cardinality(Counted') \in Nat
  BY <1>1, FS_Subset, FS_CardinalityType
<1>4. Cardinality(Counted)' = Cardinality(Counted')
  OBVIOUS
<1> QED
  BY <1>1, <1>2, <1>3, <1>4 DEF SFTPInv

\* libssh has at least as many users as there are sessions and attempts at one.
LEMMA UsersStep ==
  ASSUME SFTPInv, NEW w \in Wrappers, Start(w) \/ Step(w) \/ Abort(w) \/ Drop(w)
  PROVE  users' \in Int /\ Cardinality(Counted)' <= users'
<1> USE SFTPAssumption DEF SFTPInv, SFTPDomains, connection, call, data, history, Set, Goto, Finish, Stay,
      OnReturn, Connecting
<1>1. CASE Start(w) \/ Abort(w) \/ Drop(w)
  <2>1. Counted' \subseteq Counted /\ users' = users
    BY <1>1 DEF Start, Abort, Drop, Counted
  <2> QED
    BY <2>1, CountedKept
<1>2. CASE DisconnectCall(w) \/ IsConnected(w)
  <2>1. CASE connected[w] /\ Disconnect(w) /\ (Finish(w, "ok") \/ Stay(w, "connect"))
    <3>1. w \in Counted /\ users' = users - 1
      BY <2>1 DEF Disconnect, Counted, SessionInv
    <3>2. session' = [session EXCEPT ![w] = FALSE] /\ pc'[w] \notin Connecting
      BY <2>1 DEF Disconnect
    <3>3. \A x \in Wrappers \ {w} : pc'[x] = pc[x]
      BY <2>1
    <3>4. Counted' \subseteq Counted \ {w}
      BY <3>2, <3>3 DEF Counted
    <3> QED
      BY <3>1, <3>4, CountedLess
  <2>2. CASE UNCHANGED connection
    <3>1. Counted' \subseteq Counted /\ users' = users
      BY <1>2, <2>2 DEF DisconnectCall, IsConnected, Counted, First
    <3> QED
      BY <3>1, CountedKept
  <2> QED
    BY <1>2, <2>1, <2>2 DEF DisconnectCall, IsConnected
<1>3. CASE Connect(w)
  <2>1. users' = users \/ users' = users + 1
    BY <1>3 DEF Connect
  <2>2. CASE Proceed(w, "tcp") /\ users' = users + 1
    <3>1. Counted' \subseteq Counted \cup {w}
      BY <2>2 DEF Proceed, Counted
    <3> QED
      BY <2>2, <3>1, CountedMore
  <2>3. CASE ~(Proceed(w, "tcp") /\ users' = users + 1)
    <3>1. Counted' \subseteq Counted
      BY <1>3, <2>3 DEF Connect, ConnectFails, Counted
    <3> QED
      BY <2>1, <3>1, CountedKept
  <2> QED
    BY <2>2, <2>3
<1>4. CASE ConnectSSH(w) \/ VerifyKnownHost(w) \/ UserauthNone(w) \/ AuthList(w) \/ Judge(w)
        \/ OpenChannel(w)
  <2>1. users' = users /\ pc[w] \in Connecting
    BY <1>4 DEF ConnectSSH, VerifyKnownHost, UserauthNone, AuthList, Judge, OpenChannel
  <2>2. \A x \in Wrappers \ {w} : pc'[x] = pc[x] /\ session'[x] = session[x]
    BY <1>4 DEF ConnectSSH, VerifyKnownHost, UserauthNone, AuthList, Judge, OpenChannel, ConnectFails,
      Proceed
  <2>3. Counted' \subseteq Counted
    BY <2>1, <2>2 DEF Counted
  <2> QED
    BY <2>1, <2>3, CountedKept
<1>5. CASE (\E m \in Methods : Authenticate(w, m)) \/ Challenge(w)
  <2>1. users' = users /\ pc[w] \in Connecting
    BY <1>5 DEF Authenticate, Challenge, Methods
  <2>2. \A x \in Wrappers \ {w} : pc'[x] = pc[x] /\ session'[x] = session[x]
    BY <1>5 DEF Authenticate, Challenge, Answered, Proceed
  <2>3. Counted' \subseteq Counted
    BY <2>1, <2>2 DEF Counted
  <2> QED
    BY <2>1, <2>3, CountedKept
<1>6. CASE Change(w) \/ OpenDir(w) \/ DirCheck(w) \/ ReadDir(w) \/ Listed(w) \/ OpenFile(w)
        \/ OpenRemote(w) \/ Check(w) \/ Move(w) \/ Close(w)
  <2>1. users' = users /\ session' = session
    BY <1>6 DEF Change, OpenDir, DirCheck, ReadDir, Listed, OpenFile, OpenRemote, Check, Move, Close
  <2>2. pc'[w] \notin Connecting
    BY <1>6 DEF Change, OpenDir, DirCheck, ReadDir, Listed, OpenFile, OpenRemote, Check, Move, Close,
      CloseDir, MoveChunk, MoveEnds
  <2>3. \A x \in Wrappers \ {w} : pc'[x] = pc[x]
    BY <1>6 DEF Change, OpenDir, DirCheck, ReadDir, Listed, OpenFile, OpenRemote, Check, Move, Close,
      CloseDir, MoveChunk, MoveEnds
  <2>4. Counted' \subseteq Counted
    BY <2>1, <2>2, <2>3 DEF Counted
  <2> QED
    BY <2>1, <2>4, CountedKept
<1> QED
  BY <1>1, <1>2, <1>3, <1>4, <1>5, <1>6 DEF Step

\* The inductive invariant holds in every state.
LEMMA SFTPInductive == Spec => []SFTPInv
<1>1. SFTPInv /\ [Next]_vars => SFTPInv'
  <2> SUFFICES ASSUME SFTPInv, [Next]_vars PROVE SFTPInv'
    OBVIOUS
  <2>1. CASE Next
    <3>1. PICK w \in Wrappers : Start(w) \/ Step(w) \/ Abort(w) \/ Drop(w)
      BY <2>1 DEF Next
    <3>2. SFTPDomains'
      BY <3>1, DomainsStep
    <3>3. \A x \in Wrappers : SessionInv(x)' /\ CallInv(x)'
      BY <3>1, PlacesStep
    <3>4. \A x \in Wrappers : HandlesInv(x)'
      BY <3>1, HandlesStep
    <3>5. \A x \in Wrappers : ProgressInv(x)'
      BY <3>1, ProgressStep
    <3>6. users' \in Int /\ Cardinality(Counted)' <= users'
      BY <3>1, UsersStep
    <3> QED
      BY <3>2, <3>3, <3>4, <3>5, <3>6 DEF SFTPInv
  <2>2. CASE UNCHANGED vars
    BY <2>2 DEF vars, connection, call, data, history, SFTPInv, SFTPDomains, SessionInv, CallInv,
      HandlesInv, ProgressInv, Counted
  <2> QED
    BY <2>1, <2>2
<1> QED
  BY <1>1, SFTPInitially, PTL DEF Spec

\* For any number of wrappers and files, any calls and any bounds: the library is
\* only called with a session that exists, with libssh initialised for it, and a
\* call that is over leaves no file open at the server and none open for reading.
THEOREM SessionsAreHeld == Spec => []ResourcesAreHeld
<1>1. SFTPInv => ResourcesAreHeld
  <2> SUFFICES ASSUME SFTPInv PROVE ResourcesAreHeld
    OBVIOUS
  <2>1. ASSUME NEW w \in Wrappers
        PROVE  /\ pc[w] \in {"change", "opendir", "dircheck", "readdir", "open", "check", "move"} => session[w]
               /\ pc[w] = "idle" => session[w] = connected[w] /\ remote[w] # "file"
    BY DEF SFTPInv, SessionInv, HandlesInv, WithSession
  <2>2. ASSUME NEW w \in Wrappers, pc[w] = "idle", NEW f \in Files
        PROVE  Handle(w, "read") \notin local[f]
    BY <2>2 DEF SFTPInv, HandlesInv, Transferring
  <2>3. Cardinality({w \in Wrappers : session[w]}) <= users
    <3> DEFINE S == {w \in Wrappers : session[w]}
    <3>1. S \subseteq Counted
      BY DEF Counted
    <3>2. IsFiniteSet(Counted)
      BY CountedIsFinite
    <3>3. Cardinality(S) <= Cardinality(Counted) /\ IsFiniteSet(S)
      BY <3>1, <3>2, FS_Subset
    <3>4. Cardinality(S) \in Nat /\ Cardinality(Counted) \in Nat
      BY <3>2, <3>3, FS_CardinalityType
    <3> HIDE DEF S
    <3>5. Cardinality(S) <= users
      BY <3>3, <3>4 DEF SFTPInv
    <3> QED
      BY <3>5 DEF S
  <2> QED
    BY <2>1, <2>2, <2>3 DEF ResourcesAreHeld
<1> QED
  BY <1>1, SFTPInductive, PTL

\* What a step that ends a transfer with success says of the transfer.
LEMMA SuccessIsWhole ==
  ASSUME SFTPInv, NEW w \in Wrappers, Start(w) \/ Step(w) \/ Abort(w) \/ Drop(w),
         NEW x \in Wrappers, op[x] \in Transfers, pc[x] # "idle", pc'[x] = "idle", result'[x] = "ok"
  PROVE  moved[x] = Chunks \/ (op[x] = "stor" /\ short[x])
<1> USE DEF SFTPInv, SFTPDomains, Set, Goto, Finish, Stay
<1>1. CASE Start(w) \/ Abort(w) \/ Drop(w)
  BY <1>1 DEF Start, Abort, Drop, call
<1>2. CASE DisconnectCall(w) \/ IsConnected(w)
  BY <1>2 DEF DisconnectCall, IsConnected, First, Transfers, CallInv, call
<1>3. CASE Connect(w) \/ OpenChannel(w)
  BY <1>3 DEF Connect, OpenChannel, ConnectFails, Proceed, First, Transfers, SessionInv, CallInv, call
<1>4. CASE ConnectSSH(w) \/ VerifyKnownHost(w) \/ UserauthNone(w) \/ AuthList(w)
  BY <1>4 DEF ConnectSSH, VerifyKnownHost, UserauthNone, AuthList, ConnectFails, Proceed, call
<1>5. CASE (\E m \in Methods : Authenticate(w, m)) \/ Challenge(w)
  BY <1>5 DEF Authenticate, Challenge, Answered, Proceed, Methods, After, call
<1>6. CASE Judge(w)
  BY <1>6 DEF Judge, ConnectFails, Proceed, call
<1>7. CASE Change(w) \/ OpenDir(w) \/ DirCheck(w) \/ ReadDir(w) \/ Listed(w)
  BY <1>7 DEF Change, OpenDir, DirCheck, ReadDir, Listed, CloseDir, Transfers, CallInv, call
<1>8. CASE OpenFile(w) \/ OpenRemote(w) \/ Check(w) \/ Move(w)
  BY <1>8 DEF OpenFile, OpenRemote, Check, Move, MoveChunk, MoveEnds, call
<1>9. CASE Close(w)
  <2>1. x = w
    BY <1>9 DEF Close
  <2>2. pc[w] = "close" /\ Returned(w) = "ok"
    BY <1>9, <2>1 DEF Close
  <2>3. ~broken[w] /\ ~aborting[w]
    BY <2>2 DEF Returned
  <2>4. short[w] => op[w] = "stor"
    BY DEF ProgressInv
  <2>5. ~short[w] => offset[w] = Chunks /\ moved[w] = offset[w]
    BY <2>2, <2>3 DEF ProgressInv
  <2> QED
    BY <2>1, <2>4, <2>5
<1> QED
  BY <1>1, <1>2, <1>3, <1>4, <1>5, <1>6, <1>7, <1>8, <1>9 DEF Step

\* For any number of wrappers and files, any calls and any bounds: a transfer that
\* reports success has moved the whole file, or is an upload of which the server took
\* a write only in part, which SendFile does not notice.
THEOREM SuccessMeansWhole == Spec => TransfersAreWhole
<1>1. SFTPInv /\ [Next]_vars
        => [\A w \in Wrappers : Succeeds(w) =>
              \/ moved[w] = Chunks
              \/ op[w] = "stor" /\ short[w]]_vars
  <2> SUFFICES ASSUME SFTPInv, Next, NEW x \in Wrappers, Succeeds(x)
               PROVE  moved[x] = Chunks \/ (op[x] = "stor" /\ short[x])
    OBVIOUS
  <2>1. PICK w \in Wrappers : Start(w) \/ Step(w) \/ Abort(w) \/ Drop(w)
    BY DEF Next
  <2> QED
    BY <2>1, SuccessIsWhole DEF Succeeds
<1> QED
  BY <1>1, SFTPInductive, PTL DEF Spec, TransfersAreWhole
=============================================================================
