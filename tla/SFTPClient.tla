----------------------------- MODULE SFTPClient -----------------------------
(***************************************************************************)
(* FTPClientWrapperSSH: the wrappers of a session (the main one and its    *)
(* clones), each with an SSH connection of its own, over libssh, which     *)
(* counts its users, and over the local files, which have sharing modes.   *)
(*                                                                         *)
(* A step is a call of the library or of the system with what follows it.  *)
(* An operation first asks IsConnected and connects where it must; the     *)
(* user may abort, and the connection may be lost, between any two steps.  *)
(***************************************************************************)
EXTENDS Integers, FiniteSets

CONSTANTS
  Wrappers, Files,
  Operations,          \* the calls that are made of each wrapper
  Accepted,            \* m_acceptedMethods
  MaxRetries,          \* maxRetries of authenticate
  MaxChallenges,       \* the bound on keyboard-interactive challenges
  Chunks,              \* the size of every file, in buffers of 128 KB
  MaxCalls, MaxAborts  \* bounds

Methods == {"key", "interactive", "password"}

ASSUME SFTPAssumption ==
  /\ IsFiniteSet(Wrappers) /\ Accepted \subseteq Methods
  /\ Operations \in [Wrappers -> SUBSET {"connect", "disconnect", "list", "retr", "stor", "change",
                                        "delete", "noop"}]
  /\ MaxRetries \in Nat /\ MaxChallenges \in Nat /\ Chunks \in Nat
  /\ MaxCalls \in Nat /\ MaxAborts \in Nat

VARIABLES
  connected,         \* m_connected
  session,           \* m_sshsession and m_sftpsession are not NULL
  aborting,          \* m_aborting
  link,              \* the connection of the ssh_session: "none", "up" or "lost"
  op, file,          \* the call, and the file it is about
  pc, result,        \* where it is, and what it returned
  login,             \* authres, methods, retries and i of authenticate
  remote,            \* the open handle of the call: "none", "dir" or "file"
  moved, offset,     \* chunks (entries) that were moved, and that were passed over
  broken,            \* readdir, read or write ended for an error
  short,             \* history: the server took only a part of a write of this call
  users,             \* ssh_init less ssh_finalize
  local,             \* of each local file, the open handles
  stopped,           \* history: the user aborted this call before it was through
  calls, aborts

connection == <<connected, session, link, login, users>>
call == <<op, file, result>>
data == <<remote, moved, offset, broken, short, local>>
history == <<stopped, calls, aborts>>
vars == <<connection, aborting, call, pc, data, history>>

\* What a server makes of an attempt to log in, and libssh of a lost connection.
Answers == {"success", "denied", "partial", "again", "error"}

NoLogin == [res |-> "none", methods |-> {}, retries |-> 0, challenges |-> 0]

Handle(w, mode) == <<w, mode>>
Transfers == {"retr", "stor"}

-----------------------------------------------------------------------------
(***************************************************************************)
(* Calls and returns.                                                      *)
(***************************************************************************)
Set(f, w, v) == f' = [f EXCEPT ![w] = v]
Goto(w, step) == Set(pc, w, step)

\* OnReturn.
OnReturn(w) == Set(aborting, w, FALSE)

Finish(w, res) == Goto(w, "idle") /\ Set(result, w, res) /\ Set(op, w, "none") /\ file' = file
Stay(w, step) == Goto(w, step) /\ UNCHANGED call

\* Perform of the queue operation.
Start(w) ==
  /\ pc[w] = "idle" /\ calls < MaxCalls
  /\ \E o \in Operations[w], f \in Files :
       /\ Set(op, w, o) /\ Set(file, w, f)
       /\ Goto(w, IF o \in {"connect", "disconnect"} THEN o ELSE "alive")
  /\ Set(result, w, "ok") /\ Set(stopped, w, FALSE) /\ calls' = calls + 1
  /\ UNCHANGED <<connection, aborting, data, aborts>>

\* FTPClientWrapper::Abort, from the window.
Abort(w) ==
  /\ aborts < MaxAborts
  /\ Set(aborting, w, TRUE)
  /\ Set(stopped, w, op[w] \in Transfers)
  /\ aborts' = aborts + 1
  /\ UNCHANGED <<connection, call, pc, data, calls>>

\* The first step of a call, behind IsConnected.
First(o) ==
  CASE o = "list" -> "opendir" [] o \in Transfers -> "local" [] OTHER -> "change"

-----------------------------------------------------------------------------
(***************************************************************************)
(* Connecting.                                                             *)
(***************************************************************************)
\* A mutant leaves m_connected set.
DisconnectQuietly(w) ==
  /\ Set(session, w, FALSE) /\ Set(link, w, "none") /\ users' = users - 1
  /\ OnReturn(w)
  /\ UNCHANGED <<connected, login>>

Disconnect(w) ==
  /\ Set(session, w, FALSE) /\ Set(link, w, "none") /\ users' = users - 1
  /\ Set(connected, w, FALSE) /\ OnReturn(w)
  /\ login' = login

DisconnectCall(w) ==
  /\ pc[w] = "disconnect" /\ Finish(w, "ok")
  /\ IF connected[w] THEN Disconnect(w) ELSE UNCHANGED <<connection, aborting>>
  /\ UNCHANGED <<data, history>>

\* IsConnected asks the server for its directory; QueueNoOp does not connect.
IsConnected(w) ==
  /\ pc[w] = "alive"
  /\ \/ /\ connected[w] /\ link[w] = "up"
        /\ IF op[w] = "noop" THEN Finish(w, "ok") ELSE Stay(w, First(op[w]))
        /\ UNCHANGED <<connection, aborting>>
     \/ /\ IF connected[w] THEN Disconnect(w) ELSE UNCHANGED <<connection, aborting>>
        /\ IF op[w] = "noop" THEN Finish(w, "ok") ELSE Stay(w, "connect")
  /\ UNCHANGED <<data, history>>

\* connect_ssh fails: what it has is disconnected and freed, but libssh is not
\* told that a user is gone.
ConnectFails(w) ==
  /\ Finish(w, "failed") /\ OnReturn(w) /\ Set(link, w, "none") /\ Set(login, w, NoLogin)
  /\ UNCHANGED <<connected, session>>

Proceed(w, step) == Stay(w, step) /\ UNCHANGED <<connected, session, link, aborting>>

\* Connect, ssh_init, ssh_new and the options.
Connect(w) ==
  /\ pc[w] = "connect"
  /\ \/ connected[w] /\ Finish(w, "ok") /\ UNCHANGED <<connected, session, link, login, users, aborting>>
     \/ ~connected[w] /\ users' = users + 1 /\ Proceed(w, "tcp") /\ login' = login
     \/ ~connected[w] /\ users' \in {users, users + 1} /\ ConnectFails(w)
  /\ UNCHANGED <<data, history>>

\* ssh_connect.
ConnectSSH(w) ==
  /\ pc[w] = "tcp"
  /\ \/ /\ Stay(w, "hostkey") /\ Set(link, w, "up")
        /\ UNCHANGED <<connected, session, login, aborting>>
     \/ ConnectFails(w)
  /\ UNCHANGED <<users, data, history>>

\* verify_knownhost: the key is known, or the user accepts it.
VerifyKnownHost(w) ==
  /\ pc[w] = "hostkey"
  /\ ConnectFails(w) \/ (Proceed(w, "none") /\ login' = login)
  /\ UNCHANGED <<users, data, history>>

\* What the library returns, which a lost connection decides.
Reply(w, res) == link[w] # "up" => res = "error"

\* ssh_userauth_none, once more if it is to be called again.
UserauthNone(w) ==
  /\ pc[w] = "none"
  /\ \/ ConnectFails(w)
     \/ link[w] = "up" /\ Proceed(w, "channel") /\ login' = login
     \/ /\ link[w] = "up" /\ Proceed(w, "methods")
        /\ \E res \in {"denied", "partial", "again"} : Set(login, w, [NoLogin EXCEPT !.res = res])
  /\ UNCHANGED <<users, data, history>>

\* The head of authenticate's loop.
AuthList(w) ==
  /\ pc[w] = "methods"
  /\ \/ ConnectFails(w)
     \/ /\ link[w] = "up" /\ Proceed(w, "key")
        /\ \E usable \in SUBSET Accepted :
             Set(login, w, [login[w] EXCEPT !.methods = usable, !.challenges = 0])
  /\ UNCHANGED <<users, data, history>>

After(m) == CASE m = "key" -> "interactive" [] m = "interactive" -> "password" [] m = "password" -> "judge"

Wanted(w, m) == login[w].res \in {"denied", "partial"} /\ m \in login[w].methods

Answered(w, res, step) == Set(login, w, [login[w] EXCEPT !.res = res]) /\ Proceed(w, step)

\* authenticate_key (the key may be missing), authenticate_kbinteractive and
\* authenticate_password, one after the other, as long as none was the last.
Authenticate(w, m) ==
  /\ pc[w] = m
  /\ \/ ~Wanted(w, m) /\ Proceed(w, After(m)) /\ login' = login
     \/ Wanted(w, m) /\ \E res \in Answers : Reply(w, res) /\ Answered(w, res, After(m))
     \/ Wanted(w, m) /\ m = "interactive" /\ link[w] = "up" /\ Answered(w, "info", "challenge")
  /\ UNCHANGED <<users, data, history>>

\* A challenge is shown to the user, who answers or cancels.
Challenge(w) ==
  LET more == login[w].challenges < MaxChallenges IN
  /\ pc[w] = "challenge"
  /\ \/ ~more /\ Proceed(w, "password") /\ login' = login
     \/ more /\ \E res \in Answers : Reply(w, res) /\ Answered(w, res, "password")
     \/ more /\ link[w] = "up" /\ Proceed(w, "challenge")
          /\ Set(login, w, [login[w] EXCEPT !.challenges = @ + 1])
  /\ UNCHANGED <<users, data, history>>

\* A mutant does not count.
LoopsFor(w) == login[w].res = "partial"

\* Once more as long as the server wants more, but not for ever.
Loops(w) == login[w].res = "partial" /\ login[w].retries + 1 <= MaxRetries

Count(n, max) == IF n < max THEN n + 1 ELSE max

\* The tail of the loop.
Judge(w) ==
  /\ pc[w] = "judge"
  /\ CASE login[w].methods # {} /\ login[w].res = "success" ->
            Proceed(w, "channel") /\ Set(login, w, NoLogin)
       [] login[w].methods # {} /\ Loops(w) ->
            /\ Set(login, w, [login[w] EXCEPT !.retries = Count(@, MaxRetries)])
            /\ Proceed(w, "methods")
       [] OTHER -> ConnectFails(w)
  /\ UNCHANGED <<users, data, history>>

\* sftp_new and sftp_init, and the end of Connect.
OpenChannel(w) ==
  /\ pc[w] = "channel"
  /\ \/ /\ link[w] = "up" /\ Set(session, w, TRUE) /\ Set(connected, w, TRUE) /\ OnReturn(w)
        /\ IF op[w] = "connect" THEN Finish(w, "ok") ELSE Stay(w, First(op[w]))
        /\ UNCHANGED <<link, login>>
     \/ ConnectFails(w)
  /\ UNCHANGED <<users, data, history>>

\* The connection is lost.
Drop(w) ==
  /\ link[w] = "up" /\ Set(link, w, "lost")
  /\ UNCHANGED <<connected, session, login, users, aborting, call, pc, data, history>>

-----------------------------------------------------------------------------
(***************************************************************************)
(* Commands and listings.                                                  *)
(***************************************************************************)
\* Rename, ChmodFile, MkDir, RmDir, MkFile; DeleteFile does not call OnReturn.
Change(w) ==
  /\ pc[w] = "change"
  /\ \E res \in {"ok", "failed"} : (link[w] # "up" => res = "failed") /\ Finish(w, res)
  /\ IF op[w] = "delete" THEN aborting' = aborting ELSE OnReturn(w)
  /\ UNCHANGED <<connection, data, history>>

OpenDir(w) ==
  /\ pc[w] = "opendir"
  /\ \/ link[w] = "up" /\ Stay(w, "dircheck") /\ Set(remote, w, "dir") /\ aborting' = aborting
     \/ Finish(w, "failed") /\ OnReturn(w) /\ remote' = remote
  /\ UNCHANGED <<connection, moved, offset, broken, short, local, history>>

CloseDir(w, res) == Set(remote, w, "none") /\ Finish(w, res) /\ OnReturn(w)

\* The end of the call's loop: nothing of it is left.
EndLoop(w) ==
  Set(moved, w, 0) /\ Set(offset, w, 0) /\ Set(broken, w, FALSE) /\ Set(short, w, FALSE)

DirCheck(w) ==
  /\ pc[w] = "dircheck"
  /\ IF aborting[w] THEN CloseDir(w, "failed")
     ELSE Stay(w, "readdir") /\ UNCHANGED <<remote, aborting>>
  /\ UNCHANGED <<connection, moved, offset, broken, short, local, history>>

ReadDir(w) ==
  /\ pc[w] = "readdir"
  /\ \/ /\ link[w] = "up" /\ moved[w] < Chunks
        /\ IF aborting[w] THEN Stay(w, "listed") /\ moved' = moved
           ELSE Stay(w, "readdir") /\ Set(moved, w, moved[w] + 1)
        /\ broken' = broken
     \/ link[w] = "up" /\ moved[w] = Chunks /\ Stay(w, "listed") /\ UNCHANGED <<moved, broken>>
     \/ Stay(w, "listed") /\ Set(broken, w, TRUE) /\ moved' = moved
  /\ UNCHANGED <<connection, aborting, remote, offset, short, local, history>>

\* The end of GetDir: a listing that broke off before its first entry leaves the
\* directory open.
Listed(w) ==
  /\ pc[w] = "listed"
  /\ CASE aborting[w] -> CloseDir(w, "failed")
       [] ~aborting[w] /\ broken[w] /\ moved[w] = 0 ->
            Finish(w, "failed") /\ OnReturn(w) /\ remote' = remote
       [] OTHER -> CloseDir(w, "ok")
  /\ EndLoop(w)
  /\ UNCHANGED <<connection, local, history>>

-----------------------------------------------------------------------------
(***************************************************************************)
(* Transfers.                                                              *)
(***************************************************************************)
Mode(w) == IF op[w] = "retr" THEN "write" ELSE "read"

\* CreateFile shares for reading only.
Shares(f, mode) ==
  IF mode = "write" THEN local[f] = {} ELSE \A h \in local[f] : h[2] = "read"

CloseLocal(w) == local' = [local EXCEPT ![file[w]] = @ \ {Handle(w, Mode(w))}]

OpenFile(w) ==
  /\ pc[w] = "local"
  /\ \/ /\ Shares(file[w], Mode(w))
        /\ local' = [local EXCEPT ![file[w]] = @ \cup {Handle(w, Mode(w))}]
        /\ Stay(w, "open") /\ aborting' = aborting
     \/ Finish(w, "failed") /\ OnReturn(w) /\ local' = local
  /\ UNCHANGED <<connection, remote, moved, offset, broken, short, history>>

\* sftp_open.  If it fails, an upload closes its local file, a download does not.
OpenRemote(w) ==
  /\ pc[w] = "open"
  /\ \/ /\ link[w] = "up" /\ Set(remote, w, "file")
        /\ Stay(w, "check") /\ UNCHANGED <<aborting, local>>
     \/ /\ Finish(w, "failed") /\ OnReturn(w) /\ remote' = remote
        /\ IF op[w] = "stor" THEN CloseLocal(w) ELSE local' = local
  /\ UNCHANGED <<connection, moved, offset, broken, short, history>>

\* A mutant keeps the handle at the server.
CloseLocalOnly(w) == CloseLocal(w) /\ remote' = remote

CloseBoth(w) == CloseLocal(w) /\ Set(remote, w, "none")

Check(w) ==
  /\ pc[w] = "check"
  /\ IF aborting[w] THEN CloseBoth(w) /\ Finish(w, "failed") /\ OnReturn(w)
     ELSE Stay(w, "move") /\ UNCHANGED <<remote, local, aborting>>
  /\ UNCHANGED <<connection, moved, offset, broken, short, history>>

\* A buffer is read and written.  sftp_write may take less of it, which SendFile
\* passes over, or nothing, which ends its loop like the end of the file.
MoveChunk(w) ==
  /\ link[w] = "up" /\ offset[w] < Chunks /\ ~aborting[w]
  /\ Set(offset, w, offset[w] + 1)
  /\ \/ Set(moved, w, moved[w] + 1) /\ Stay(w, "move") /\ short' = short
     \/ op[w] = "stor" /\ moved' = moved /\ Set(short, w, TRUE)
        /\ (Stay(w, "move") \/ Stay(w, "close"))
  /\ broken' = broken

\* The source ends, the user aborts, or a read or write fails.
MoveEnds(w) ==
  /\ Stay(w, "close") /\ UNCHANGED <<moved, offset, short>>
  /\ \/ offset[w] = Chunks /\ broken' = broken
     \/ aborting[w] /\ broken' = broken
     \/ Set(broken, w, TRUE)

Move(w) ==
  /\ pc[w] = "move"
  /\ MoveChunk(w) \/ MoveEnds(w)
  /\ UNCHANGED <<connection, aborting, remote, local, history>>

\* A mutant forgets that the transfer broke off.
Outcome(w) == IF aborting[w] THEN "failed" ELSE "ok"

Returned(w) == IF broken[w] \/ aborting[w] THEN "failed" ELSE "ok"

Close(w) ==
  /\ pc[w] = "close"
  /\ CloseBoth(w) /\ Finish(w, Returned(w)) /\ OnReturn(w) /\ EndLoop(w)
  /\ UNCHANGED <<connection, history>>

-----------------------------------------------------------------------------
Init ==
  /\ connected = [w \in Wrappers |-> FALSE] /\ session = connected /\ aborting = connected
  /\ link = [w \in Wrappers |-> "none"]
  /\ op = [w \in Wrappers |-> "none"] /\ file \in [Wrappers -> {CHOOSE f \in Files : TRUE}]
  /\ pc = [w \in Wrappers |-> "idle"] /\ result = [w \in Wrappers |-> "ok"]
  /\ login = [w \in Wrappers |-> NoLogin]
  /\ remote = [w \in Wrappers |-> "none"]
  /\ moved = [w \in Wrappers |-> 0] /\ offset = moved /\ broken = connected /\ short = connected
  /\ users = 0 /\ local = [f \in Files |-> {}]
  /\ stopped = connected /\ calls = 0 /\ aborts = 0

Step(w) ==
  \/ DisconnectCall(w) \/ IsConnected(w) \/ Connect(w) \/ ConnectSSH(w) \/ VerifyKnownHost(w)
  \/ UserauthNone(w) \/ AuthList(w) \/ (\E m \in Methods : Authenticate(w, m)) \/ Challenge(w)
  \/ Judge(w) \/ OpenChannel(w)
  \/ Change(w) \/ OpenDir(w) \/ DirCheck(w) \/ ReadDir(w) \/ Listed(w)
  \/ OpenFile(w) \/ OpenRemote(w) \/ Check(w) \/ Move(w) \/ Close(w)

Next == \E w \in Wrappers : Start(w) \/ Step(w) \/ Abort(w) \/ Drop(w)

Spec == Init /\ [][Next]_vars

\* Every call of libssh has a time-out, and every dialog is answered.
FairSpec == Spec /\ \A w \in Wrappers : WF_vars(Step(w))

-----------------------------------------------------------------------------
TypeOK ==
  /\ \A f \in {connected, session, aborting, broken, short, stopped} : f \in [Wrappers -> BOOLEAN]
  /\ link \in [Wrappers -> {"none", "up", "lost"}]
  /\ \A w \in Wrappers : op[w] \in Operations[w] \cup {"none"}
  /\ file \in [Wrappers -> Files]
  /\ result \in [Wrappers -> {"ok", "failed"}] /\ remote \in [Wrappers -> {"none", "dir", "file"}]
  /\ moved \in [Wrappers -> 0..Chunks] /\ offset \in [Wrappers -> 0..Chunks]
  /\ users \in Nat /\ local \in [Files -> SUBSET (Wrappers \X {"read", "write"})]

\* The step that ends the transfer of w with success.
Succeeds(w) ==
  op[w] \in Transfers /\ pc[w] # "idle" /\ pc'[w] = "idle" /\ result'[w] = "ok"

\* A transfer that reports success has moved the whole file, wherever it was
\* aborted, lost its connection or failed: nothing but a write that the server took
\* in part, in an upload, is passed over.
TransfersAreWhole ==
  [][\A w \in Wrappers : Succeeds(w) =>
       \/ moved[w] = Chunks
       \/ op[w] = "stor" /\ short[w]]_vars

\* Reported as complete, transferred completely; SendFile does not compare what
\* sftp_write took with what it was given.
SuccessIsComplete == [][\A w \in Wrappers : Succeeds(w) => moved[w] = Chunks]_vars

\* The library is only called with a session that exists and while it is
\* initialised, and a call that is over leaves no file open at the server and no
\* local file open for reading, whatever it was ended by.
ResourcesAreHeld ==
  /\ \A w \in Wrappers :
       /\ pc[w] \in {"change", "opendir", "dircheck", "readdir", "open", "check", "move"} => session[w]
       /\ pc[w] = "idle" => session[w] = connected[w] /\ remote[w] # "file"
       /\ pc[w] = "idle" => \A f \in Files : Handle(w, "read") \notin local[f]
  /\ Cardinality({w \in Wrappers : session[w]}) <= users

\* Where a wrapper has its session, and where it is about to get one.
WithSession == {"change", "opendir", "dircheck", "readdir", "listed",
                "local", "open", "check", "move", "close"}
Connecting  == {"tcp", "hostkey", "none", "methods", "key", "interactive", "password",
                "challenge", "judge", "channel"}
Transferring == {"local", "open", "check", "move", "close"}

\* The wrappers that have told libssh of themselves and have not failed since.
Counted == {w \in Wrappers : session[w] \/ pc[w] \in Connecting}

\* What a wrapper's place in its call says of its session, of its handles, and
\* of how far its transfer is.
SessionInv(w) ==
  /\ session[w] = connected[w]
  /\ pc[w] \in WithSession => session[w]
  /\ pc[w] \in Connecting => ~session[w]
  /\ pc[w] = "connect" => op[w] = "connect" \/ ~session[w]

CallInv(w) ==
  /\ pc[w] \in Transferring => op[w] \in Transfers /\ file[w] \in Files
  /\ pc[w] = "disconnect" => op[w] = "disconnect"
  /\ pc[w] = "change" => op[w] \notin Transfers
  /\ pc[w] \in {"opendir", "dircheck", "readdir", "listed"} => op[w] = "list"
  /\ pc[w] \in {"alive", "connect"} \cup Connecting => file[w] \in Files

HandlesInv(w) ==
  /\ remote[w] = "file" => pc[w] \in {"check", "move", "close"}
  /\ \A f \in Files : Handle(w, "read") \in local[f] =>
       pc[w] \in Transferring \ {"local"} /\ op[w] = "stor" /\ f = file[w]

ProgressInv(w) ==
  /\ pc[w] \notin {"readdir", "listed", "move", "close"} => moved[w] = 0
  /\ pc[w] \notin {"move", "close"} => offset[w] = 0
  /\ pc[w] \in {"move", "close"} => moved[w] <= offset[w]
  /\ pc[w] \in {"move", "close"} /\ ~short[w] => moved[w] = offset[w]
  /\ pc[w] = "close" => broken[w] \/ aborting[w] \/ short[w] \/ offset[w] = Chunks
  /\ short[w] => pc[w] \in {"move", "close"} /\ op[w] = "stor"

SFTPDomains ==
  /\ \A f \in {connected, session, aborting, broken, short, op, pc, file, result, remote} :
       DOMAIN f = Wrappers
  /\ DOMAIN local = Files
  /\ moved \in [Wrappers -> 0..Chunks] /\ offset \in [Wrappers -> 0..Chunks]

\* The inductive invariant.
SFTPInv ==
  /\ SFTPDomains
  /\ \A w \in Wrappers : SessionInv(w) /\ CallInv(w) /\ HandlesInv(w) /\ ProgressInv(w)
  /\ users \in Int /\ Cardinality(Counted) <= users

\* Every call returns: a server that always wants one more factor or one more
\* answer does not keep the queue's thread for ever.
CallsReturn == \A w \in Wrappers : (pc[w] # "idle") ~> (pc[w] = "idle")

\* "If a transfer is active, abort it" (docs/index.md).
AbortStopsTransfer ==
  [][\A w \in Wrappers :
       stopped[w] /\ pc[w] # "idle" /\ pc'[w] = "idle" => result'[w] = "failed"]_vars

\* A download that is over leaves its local file, too, to the next one, and a
\* listing its directory.
NothingIsLeftOpen ==
  \A w \in Wrappers : pc[w] = "idle" =>
    remote[w] = "none" /\ \A f \in Files : Handle(w, "write") \notin local[f]
=============================================================================
