------------------------------ MODULE FTPClient ------------------------------
(***************************************************************************)
(* An FTP(E)S connection: CUT_FTPClient and the socket class under it,     *)
(* FtpSSLWrapper and FTPClientWrapperSSL above it, and a server that       *)
(* answers the commands of the control connection one after the other.     *)
(*                                                                         *)
(* A call of the wrapper is the sequence of its sends, reads and checks,   *)
(* consumed one by one by the queue's thread; the user may abort at any    *)
(* moment.  A reply is the first digit of its code, and whether it answers *)
(* the command that was sent last.  Implicit FTPS, whose handshake comes   *)
(* before the greeting and which sends no AUTH, is left out.               *)
(***************************************************************************)
EXTENDS Integers, SequencesExt

CONSTANTS
  Securities,        \* m_sMode = FTPES, where it may be so, and not
  Modes,             \* m_nFirewallMode, where it may be on, and off
  MinPort, MaxPort,  \* m_nDataPortMin, m_nDataPortMax
  Busy,              \* ports another program listens on
  Operations,        \* the calls that are made
  MaxCalls, MaxAborts  \* bounds

ASSUME ClientAssumption ==
  /\ Securities \subseteq BOOLEAN /\ Securities # {} /\ Modes \subseteq BOOLEAN /\ Modes # {}
  /\ MinPort \in Nat /\ MaxPort \in Nat /\ MinPort < MaxPort
  /\ Operations \subseteq {"connect", "list", "retr", "stor", "rename", "delete", "noop", "quit"}
  /\ MaxCalls \in Nat /\ MaxAborts \in Nat

VARIABLES
  secure, passive,   \* m_sMode = FTPES, m_nFirewallMode
  port,              \* m_nDataPort
  connected,         \* FTPClientWrapper::m_connected
  aborted,           \* m_isAborted
  cached, last,      \* m_cachedResponse, m_lastResponseCode
  listening,         \* m_wsData.m_serverSocket: "none", "bound" or "unbound"
  data,              \* m_wsData.m_socket: "none", "open", or "ended" by the server
  op, todo, result,  \* the call, the rest of it, and what it returned
  wanted,            \* m_tMode of the operation: binary or not
  toServer,          \* commands the server has not seen
  toClient,          \* replies that were not read
  link,              \* the control connection: "closed", "up", or "lost" by the server
  login,             \* what the server made of USER, PASS and ACCT
  transfer,          \* the command of the transfer the server works on
  image,             \* the type at the server
  refused,           \* history: the type it refused, if the last TYPE was refused
  own,               \* history: the replies of this call answered its own commands
  disturbed,         \* history: the server still owes a reply nobody will wait for
  calls, aborts

settings == <<secure, passive>>
client  == <<connected, aborted, cached, last, listening, data, port>>
call    == <<op, todo, result, wanted>>
control == <<toServer, toClient, link>>
remote  == <<login, transfer, image, refused>>
history == <<own, disturbed, calls, aborts>>
vars    == <<settings, client, call, control, remote, history>>

NoReply == [code |-> 0, own |-> TRUE]
NoTransfer == [cmd |-> "none", own |-> TRUE]

-----------------------------------------------------------------------------
(***************************************************************************)
(* The calls.                                                              *)
(***************************************************************************)
Do(what) == <<what, "none">>
Send(c)  == <<"send", c>>
Read(c)  == <<"read", c>>
Cmd(c)   == <<Send(c), Read(c)>>

\* FTPConnect with SocketOnConnected: the login, and what is settled after it.
LoginSteps ==
  <<Do("open"), Read("hello")>>
  \o (IF secure THEN Cmd("AUTH") \o <<Do("tls")>> ELSE <<>>) \o Cmd("USER") \o Cmd("PASS")
SettingSteps ==
  (IF secure THEN Cmd("PBSZ") \o Cmd("PROT") ELSE <<>>)
  \o Cmd("TYPE_A") \o Cmd("MODE") \o Cmd("STRU") \o <<Do("connected")>>
ConnectSteps == LoginSteps \o SettingSteps

\* The server's endpoint for the data, or ours.
Endpoint == IF passive THEN Cmd("PASV") ELSE <<Do("listen")>> \o Cmd("PORT")

\* A mutant never reads the preliminary reply of a passive transfer.
DataCommandUnread(c, early) ==
  IF early THEN <<Send(c), Do("data")>> ELSE <<Send(c), Read(c), Do("data")>>

\* The data connection is made before the preliminary reply is read, or after.
DataCommand(c, early) ==
  IF early THEN <<Send(c), Do("data"), Read(c)>> ELSE <<Send(c), Read(c), Do("data")>>

Check(needed) == IF needed THEN <<Do("check")>> ELSE <<>>
Type(binary)  == Cmd(IF binary THEN "TYPE_I" ELSE "TYPE_A")

List ==
  Cmd("CWD") \o Endpoint \o DataCommand("LIST", TRUE) \o <<Do("lines"), Read("end")>>

Retrieve ==
  Cmd("SIZE") \o Endpoint \o Check(passive) \o DataCommand("RETR", passive)
  \o <<Do("receive"), Read("end")>>

Store ==
  Endpoint \o Check(TRUE) \o DataCommand("STOR", passive) \o <<Do("transmit"), Read("end")>>

\* The wrapper's calls, with what they call in the client.
Steps(o) ==
  CASE o = "list" -> List
    [] o = "retr" -> Retrieve
    [] o = "stor" -> Store
    [] o = "rename" -> Cmd("RNFR") \o Cmd("RNTO")
    [] o = "delete" -> Cmd("DELE")
    [] o = "noop"   -> Cmd("NOOP")

Typed(o, binary) == IF o \in {"retr", "stor"} THEN Type(binary) ELSE <<>>

\* A mutant sets the type first.
CallTypeFirst(o, binary) ==
  CASE o = "connect" -> IF connected THEN <<>> ELSE ConnectSteps
    [] o = "quit" -> <<Do("quit")>>
    [] OTHER -> Typed(o, binary) \o <<Do("alive")>> \o Steps(o)

\* Perform of the queue operation: it connects where it must, and sets the type,
\* whatever the server makes of that.
Call(o, binary) ==
  CASE o = "connect" -> IF connected THEN <<>> ELSE ConnectSteps
    [] o = "quit" -> <<Do("quit")>>
    [] OTHER -> <<Do("alive")>> \o Typed(o, binary) \o Steps(o)

\* The first digit of a code (0 where none came); 421 says goodbye.
Codes == (0..5) \cup {421}

\* The replies that let a call go on.
Accepted(c) ==
  CASE c \in {"hello", "AUTH", "USER", "PASS", "ACCT"} -> {2, 3}
    [] c \in {"TYPE_A", "TYPE_I", "MODE", "STRU", "SIZE", "late"} -> Codes
    [] c = "RNFR" -> {3}
    [] c \in {"LIST", "RETR", "STOR"} -> {1, 2}
    [] OTHER -> {2}

\* m_wsData.CloseConnection.
CloseData == listening' = "none" /\ data' = "none"
KeepData  == UNCHANGED <<listening, data>>

\* A mutant leaves a data connection behind.
AfterFailureOpen == KeepData

\* What a call does about the data connection when a command of it fails.
AfterFailure == IF op \in {"list", "retr", "stor"} /\ connected THEN CloseData ELSE KeepData

-----------------------------------------------------------------------------
(***************************************************************************)
(* The wrapper.                                                            *)
(***************************************************************************)
At(what) == todo # <<>> /\ Head(todo)[1] = what
GoOn == todo' = Tail(todo) /\ result' = result
Fail == todo' = <<>> /\ result' = "failed"

Start(o) ==
  /\ op = "none" /\ calls < MaxCalls
  /\ op' = o /\ result' = "ok" /\ own' = TRUE
  /\ wanted' \in IF o \in {"retr", "stor"} THEN BOOLEAN ELSE {wanted}
  /\ todo' = Call(o, wanted')
  /\ calls' = calls + 1
  /\ UNCHANGED <<settings, client, control, remote, disturbed, aborts>>

\* A new command, and the end of a call, make every reply that is still to come
\* one of an older command, but for a goodbye, which answers any.
Stale(c) == IF c = NoTransfer THEN c ELSE [c EXCEPT !.own = FALSE]
StaleReply(r) == IF r.code = 421 THEN r ELSE [r EXCEPT !.own = FALSE]
Overtaken == [i \in DOMAIN toServer |-> Stale(toServer[i])]

Overtake ==
  /\ toClient' = [i \in DOMAIN toClient |-> StaleReply(toClient[i])]
  /\ last' = IF cached THEN StaleReply(last) ELSE last
  /\ transfer' = Stale(transfer)

\* OnReturn clears the flag of Abort; NoOp does not call it.  So do Connect and
\* Disconnect, in the middle of a call that had to reconnect.
Return ==
  /\ op # "none" /\ todo = <<>>
  /\ op' = "none"
  /\ aborted' = (aborted /\ op = "noop")
  /\ Overtake /\ toServer' = Overtaken
  /\ UNCHANGED <<settings, connected, cached, listening, data, port, todo, result, wanted, link,
                 login, image, refused, history>>

\* FTPClientWrapperSSL::Abort, from the window.
Abort ==
  /\ aborts < MaxAborts /\ ~aborted
  /\ aborted' = TRUE /\ aborts' = aborts + 1
  /\ UNCHANGED <<settings, connected, cached, last, listening, data, port, call, control, remote,
                 own, disturbed, calls>>

\* ReceiveLine returns nothing when the user aborts or the time is out: what
\* was not read is still to come.
Cut(r) ==
  /\ aborted \/ (link = "up" /\ toClient = <<>>)
  /\ r = NoReply /\ disturbed' = TRUE /\ toClient' = toClient

ReceiveLine(r) ==
  \/ Cut(r)
  \/ ~aborted /\ link # "up" /\ toClient = <<>> /\ r = NoReply /\ UNCHANGED <<disturbed, toClient>>
  \/ ~aborted /\ toClient # <<>> /\ r = Head(toClient) /\ toClient' = Tail(toClient)
     /\ disturbed' = disturbed

Replies == [code : Codes, own : BOOLEAN]

\* FtpSSLWrapper::IsConnected: a reply that waits (or the end of the stream) is
\* read, and kept for the next command; then the socket is asked.
Waiting == connected /\ (toClient # <<>> \/ link # "up")

PeekResponseCode ==
  IF Waiting THEN \E r \in Replies : ReceiveLine(r) /\ last' = r /\ cached' = TRUE
  ELSE UNCHANGED <<last, cached, toClient, disturbed>>

-----------------------------------------------------------------------------
(***************************************************************************)
(* The client.                                                             *)
(***************************************************************************)
\* A mutant keeps the reply that was peeked.
KeepResponse == UNCHANGED <<cached, last>>

ClearResponse == cached' = FALSE /\ last' = NoReply

CloseLink(state) ==
  /\ link' = state /\ toServer' = <<>>
  /\ login' = "none" /\ transfer' = NoTransfer /\ image' = FALSE /\ refused' = {}
  /\ connected' = FALSE /\ CloseData

\* ... and a connection that is gone is closed.  QueueNoOp does not connect.
IsConnected ==
  LET alive == connected /\ (link = "up" \/ toClient' # <<>>) IN
  /\ At("alive")
  /\ PeekResponseCode
  /\ result' = result
  /\ todo' = CASE alive -> Tail(todo) [] ~alive /\ op = "noop" -> <<>>
               [] OTHER -> ConnectSteps \o Tail(todo)
  /\ IF connected /\ ~alive THEN CloseLink("closed") /\ aborted' = FALSE
     ELSE UNCHANGED <<connected, aborted, listening, data, link, toServer, remote>>
  /\ UNCHANGED <<settings, port, op, wanted, own, calls, aborts>>

\* Close, and Connect of the socket; the server says hello.
Open ==
  /\ At("open")
  /\ ClearResponse /\ disturbed' = FALSE
  /\ \/ CloseLink("up") /\ GoOn
        /\ \E digit \in {2, 4} : toClient' = <<[NoReply EXCEPT !.code = digit]>>
     \/ CloseLink("closed") /\ Fail /\ toClient' = <<>>
  /\ UNCHANGED <<settings, aborted, port, op, wanted, own, calls, aborts>>

\* ConnectSSL: the handshake, and the user's word on the certificate.
ConnectSSL ==
  /\ At("tls")
  /\ \/ link = "up" /\ GoOn /\ UNCHANGED <<link, toClient>>
     \/ Fail /\ link' = "closed" /\ toClient' = <<>>
  /\ UNCHANGED <<settings, client, op, wanted, toServer, remote, history>>

Connected ==
  /\ At("connected")
  /\ connected' = TRUE /\ aborted' = FALSE /\ GoOn
  /\ UNCHANGED <<settings, cached, last, listening, data, port, op, wanted, control, remote,
                 history>>

Disconnect ==
  /\ At("quit")
  /\ CloseLink("closed") /\ toClient' = <<>> /\ GoOn
  /\ UNCHANGED <<settings, aborted, cached, last, port, op, wanted, history>>

NextPort == IF port + 1 \in MinPort..MaxPort THEN port + 1 ELSE MinPort

SendCommand ==
  /\ At("send")
  /\ Overtake
  /\ toServer' = IF link # "up" THEN <<>>
                 ELSE Append(Overtaken, [cmd |-> Head(todo)[2], own |-> TRUE])
  /\ port' = IF Head(todo)[2] = "PORT" THEN NextPort ELSE port
  /\ GoOn
  /\ UNCHANGED <<settings, connected, aborted, cached, listening, data, op, wanted, link, login,
                 image, refused, history>>

\* GetResponseCode: the reply that was peeked comes first.
GetResponseCode(r) ==
  IF cached THEN r = last /\ UNCHANGED <<toClient, disturbed>> ELSE ReceiveLine(r)

\* PASV wants an endpoint: the reply of another command has none.
Usable(c, r) == r.code \in Accepted(c) /\ (c = "PASV" => r.own)

\* USER may log in at once, PASS may ask for ACCT.
Rest(c, r) ==
  CASE c = "USER" /\ r.code = 2 -> SubSeq(todo, 4, Len(todo))
    [] c = "PASS" /\ r.code = 3 -> Cmd("ACCT") \o Tail(todo)
    [] OTHER -> Tail(todo)

\* A listing that ended reads once more after a preliminary reply or none.
Again == <<Read("end2")>>

\* SocketOnConnected and SetDataSecure close the connection, a login leaves it.
Refused(c) ==
  /\ Fail
  /\ IF c \in {"hello", "AUTH", "PBSZ", "PROT"}
     THEN KeepData /\ link' = "closed" /\ toServer' = <<>>
     ELSE AfterFailure /\ UNCHANGED <<link, toServer>>

ReadReply ==
  /\ At("read")
  /\ \E r \in Replies : LET c == Head(todo)[2] IN
       /\ GetResponseCode(r)
       /\ last' = r
       /\ own' = (own /\ r.own)
       /\ CASE Usable(c, r) ->
                 todo' = Rest(c, r) /\ result' = result /\ KeepData /\ UNCHANGED <<link, toServer>>
            [] ~Usable(c, r) /\ c = "end" /\ op = "list" /\ r.code < 2 ->
                 todo' = Again /\ result' = result /\ KeepData /\ UNCHANGED <<link, toServer>>
            [] OTHER -> Refused(c)
  /\ cached' = FALSE
  /\ UNCHANGED <<settings, connected, aborted, port, op, wanted, remote, calls, aborts>>

\* WaitForConnect, up to 128 times.  A bind that fails leaves the socket, and
\* the next attempt finds it open: none of them looks at its port.
WaitForConnect ==
  /\ At("listen")
  /\ IF listening = "none" /\ port \notin Busy
     THEN GoOn /\ listening' = "bound" /\ port' = port
     ELSE Fail /\ listening' = "unbound" /\ port' = port + 128
  /\ UNCHANGED <<settings, connected, aborted, cached, last, data, op, wanted, control, remote,
                 history>>

\* IsAborted between two commands.
CheckAborted ==
  /\ At("check")
  /\ IF aborted THEN Fail /\ AfterFailure ELSE GoOn /\ KeepData
  /\ UNCHANGED <<settings, connected, aborted, cached, last, port, op, wanted, control, remote,
                 history>>

\* Connect of m_wsData, or WaitForAccept and AcceptConnection: in active mode it
\* is the server that comes, once it accepts the command.
OpenData ==
  /\ At("data") /\ link = "up" /\ (passive \/ transfer # NoTransfer)
  /\ data' = "open" /\ GoOn
  /\ UNCHANGED <<settings, connected, aborted, cached, last, listening, port, op, wanted, control,
                 remote, history>>

\* ... or not: ClearReceiveBuffer drops what has arrived by now.
OpenDataFails ==
  /\ At("data")
  /\ Fail /\ CloseData
  /\ toClient' = <<>>
  /\ disturbed' = (disturbed \/ toServer # <<>> \/ transfer # NoTransfer)
  /\ UNCHANGED <<settings, connected, aborted, cached, last, port, op, wanted, toServer, link, remote,
                 own, calls, aborts>>

-----------------------------------------------------------------------------
(***************************************************************************)
(* The data.                                                               *)
(***************************************************************************)
Data(what) ==
  /\ At(what) /\ CloseData
  /\ UNCHANGED <<settings, connected, aborted, cached, last, port, op, wanted, control, remote, own,
                 calls, aborts>>

\* The lines of a listing, until the server ends or none comes in time.
Lines == Data("lines") /\ ~aborted /\ GoOn /\ UNCHANGED disturbed

\* The user aborts, or there are more than MAX_FTP_DIR_INFO_LINES: the reply
\* behind the listing is not read.
LinesCut == Data("lines") /\ Fail /\ disturbed' = TRUE

\* Receive to its end.
ReceiveAll == Data("receive") /\ data = "ended" /\ GoOn /\ UNCHANGED disturbed

\* An abort, a time-out or a file that cannot be written: ReceiveFile reads the
\* reply, ReceiveFilePASV does not.
ReceiveCut ==
  /\ Data("receive") /\ result' = "failed"
  /\ todo' = IF passive THEN <<>> ELSE <<Read("late")>>
  /\ disturbed' = (disturbed \/ passive)

\* Send to its end, which is also where the file cannot be read on.
SendAll == Data("transmit") /\ GoOn /\ UNCHANGED disturbed

SendCut ==
  /\ Data("transmit") /\ result' = "failed"
  /\ todo' = <<Read("late")>>
  /\ UNCHANGED disturbed

-----------------------------------------------------------------------------
(***************************************************************************)
(* The server.                                                             *)
(***************************************************************************)
Answers(c) ==
  CASE login # "in" /\ c \notin {"AUTH", "USER", "PASS", "ACCT"} -> {5}
    [] c = "RNFR" -> {3, 5}
    [] c \in {"USER", "PASS"} -> {2, 3, 5}
    [] c \in {"LIST", "RETR", "STOR"} -> {1, 5}
    [] OTHER -> {2, 5}

\* The next command is answered when no transfer is under way.
Answer ==
  /\ link = "up" /\ toServer # <<>> /\ transfer = NoTransfer
  /\ LET c == Head(toServer) IN
     \E digit \in Answers(c.cmd) :
       /\ toClient' = Append(toClient, [code |-> digit, own |-> c.own])
       /\ login' = IF c.cmd \in {"USER", "PASS", "ACCT"}
                   THEN (IF digit = 2 THEN "in" ELSE "none") ELSE login
       /\ IF c.cmd \in {"TYPE_A", "TYPE_I"}
          THEN LET binary == c.cmd = "TYPE_I" IN
               /\ image' = IF digit = 2 THEN binary ELSE image
               /\ refused' = IF digit = 2 THEN {} ELSE {binary}
          ELSE UNCHANGED <<image, refused>>
       /\ transfer' = IF digit = 1 THEN c ELSE transfer
  /\ toServer' = Tail(toServer)
  /\ UNCHANGED <<settings, client, call, link, history>>

\* A transfer ends: the server has sent everything, the client has closed the
\* data connection or never made it, or something went wrong.
FinishTransfer ==
  /\ link = "up" /\ transfer # NoTransfer
  /\ \E digit \in {2, 4} :
       /\ transfer.cmd = "STOR" /\ digit = 2 => data = "none"
       /\ toClient' = Append(toClient, [code |-> digit, own |-> transfer.own])
  /\ data' = IF data = "open" /\ transfer.own THEN "ended" ELSE data
  /\ transfer' = NoTransfer
  /\ UNCHANGED <<settings, connected, aborted, cached, last, listening, port, call, toServer, link,
                 login, image, refused, history>>

\* The connection is lost, perhaps with a 421 before.
Drop ==
  /\ link = "up"
  /\ link' = "lost" /\ toServer' = <<>> /\ transfer' = NoTransfer
  /\ \/ toClient' = toClient
     \/ toClient' = Append(toClient, [NoReply EXCEPT !.code = 421])
  /\ data' = IF data = "open" THEN "ended" ELSE data
  /\ UNCHANGED <<settings, connected, aborted, cached, last, listening, port, call, login, image,
                 refused, history>>

-----------------------------------------------------------------------------
Init ==
  /\ secure \in Securities /\ passive \in Modes /\ port \in MinPort..(MaxPort - 1)
  /\ connected = FALSE /\ aborted = FALSE /\ cached = FALSE /\ last = NoReply
  /\ listening = "none" /\ data = "none"
  /\ op = "none" /\ todo = <<>> /\ result = "ok" /\ wanted = TRUE
  /\ toServer = <<>> /\ toClient = <<>> /\ link = "closed"
  /\ login = "none" /\ transfer = NoTransfer /\ image = FALSE /\ refused = {}
  /\ own = TRUE /\ disturbed = FALSE /\ calls = 0 /\ aborts = 0

Client ==
  \/ Return \/ IsConnected \/ Open \/ ConnectSSL \/ Connected \/ Disconnect
  \/ SendCommand \/ ReadReply \/ WaitForConnect \/ CheckAborted \/ OpenData \/ OpenDataFails
  \/ Lines \/ LinesCut \/ ReceiveAll \/ ReceiveCut \/ SendAll \/ SendCut

Server == Answer \/ FinishTransfer \/ Drop

Next == (\E o \in Operations : Start(o)) \/ Abort \/ Client \/ Server

Spec == Init /\ [][Next]_vars

-----------------------------------------------------------------------------
\* Every reply a call reads answers a command of that call, as long as no call
\* was cut short on this connection (by an abort, a time-out, a listing that is
\* too long or a file that cannot be written): refusals and lost connections
\* never shift the replies, and connecting again puts an end to it.
RepliesAreOwn == ~disturbed => own

\* A reply is an acknowledgment of the command it is read for: a call that
\* succeeds was answered by the server.
SuccessIsAcknowledged == op # "none" /\ todo = <<>> /\ result = "ok" => own

\* The wrapper is connected only when the server has logged it in, whatever was
\* left over from the connection before.
ConnectedIsLoggedIn == connected => login = "in"

Accepts(c) == transfer'.cmd = c /\ transfer'.own /\ transfer = NoTransfer

\* A transfer the server accepts has the type its operation asked for, although
\* the operation may have had to connect again, which sets the type to ASCII; or
\* the server was asked for that very type last, and refused it.
TypeIsSet ==
  [][\A c \in {"RETR", "STOR"} : Accepts(c) => image = wanted \/ wanted \in refused]_vars

\* A file is never transferred in another type than its operation asked for.
TypeIsGranted == [][\A c \in {"RETR", "STOR"} : Accepts(c) => image = wanted]_vars

\* No call leaves a data connection or a port that is listened on behind, for
\* the next one would take it for its own.
DataIsClosed == op = "none" => data = "none" /\ listening # "bound"

\* A port that is busy is skipped: a transfer fails for want of a port only when
\* none is free.
BusyPortIsSkipped ==
  [][At("listen") /\ result' = "failed" => MinPort..MaxPort \subseteq Busy]_vars
-----------------------------------------------------------------------------
(***************************************************************************)
(* What holds between two steps of a call, on which the properties rest.   *)
(***************************************************************************)
Transfers == {"LIST", "RETR", "STOR"}
Types     == {"TYPE_A", "TYPE_I"}
Logins    == {"USER", "PASS", "ACCT"}
Settings  == {"PBSZ", "PROT", "TYPE_A", "MODE", "STRU"}
Operative == Transfers \cup Types
               \cup {"CWD", "SIZE", "PASV", "PORT", "RNFR", "RNTO", "DELE", "NOOP"}

\* The steps that move data, and those that come next where no reply is owed.
Closers == {"lines", "receive", "transmit"}
Quiets  == {"send", "check", "listen", "tls", "connected"}

Names == Operative \cup Settings \cup Logins \cup {"AUTH", "hello", "end", "end2", "late", "none"}
Kinds == Closers \cup Quiets \cup {"read", "data", "alive", "open", "quit"}

\* The steps up to the login, those of FTPConnect after it, and those of the calls.
LogsIn(x) ==
  x[1] \in {"open", "tls"} \/ (x[1] \in {"send", "read"} /\ x[2] \in {"hello", "AUTH"} \cup Logins)
Connects(x) == LogsIn(x) \/ (x[1] \in {"send", "read"} /\ x[2] \in Settings)
Operates(x) ==
  \/ x[1] \in {"check", "listen", "data"} \cup Closers /\ x[2] = "none"
  \/ x[1] \in {"send", "read"} /\ x[2] \in Operative
  \/ x[1] = "read" /\ x[2] \in {"end", "end2", "late"}

\* The steps of a transfer from the endpoint on; from "listen" on the data
\* connection may be there until one of the closers is done.
Holds(x) ==
  \/ x[1] \in {"check", "data"} \cup Closers
  \/ x[1] \in {"send", "read"} /\ x[2] \in Transfers \cup {"PORT"}

\* The steps between the setting of the type and the transfer.
Prepares(x) ==
  \/ x[1] \in {"check", "listen"}
  \/ x[1] = "send" /\ x[2] \in {"SIZE", "PASV", "PORT"}
  \/ x[1] = "read" /\ x[2] \in {"SIZE", "PASV", "PORT"} \cup Types

\* How the steps of a call follow each other: what may come after x, where
\* nothing stands for the end of the call.
Absent == Do("none")
Nth(s, i) == IF i \in DOMAIN s THEN s[i] ELSE Absent

Sends(x, commands) == x[1] = "send" /\ x[2] \in commands
Reads(x, commands) == x[1] = "read" /\ x[2] \in commands
Fits(x, y, z) ==
  /\ x[1] = "send" => \/ Reads(y, {x[2]})
                      \/ y[1] = "data" /\ x[2] \in Transfers /\ Reads(z, {x[2]})
  /\ Reads(x, Transfers) => y[1] \in Closers \/ (y[1] = "data" /\ z[1] \in Closers)
  /\ Reads(x, {"PORT"}) => y[1] = "check" \/ Sends(y, Transfers)
  /\ Reads(x, {"USER"}) => Sends(y, {"PASS"})
  /\ Reads(x, {"hello", "AUTH"}) \/ x[1] = "tls" => y[1] \in Quiets /\ LogsIn(y)
  /\ x[1] = "data" => y[1] \in Closers \/ Reads(y, Transfers)
  /\ x[1] \in Closers => Reads(y, {"end"})
  /\ x[1] = "check" => Sends(y, Transfers)
  /\ x[1] = "listen" => Sends(y, {"PORT"})
  /\ x[1] = "open" => Reads(y, {"hello"})
  /\ x[1] \in {"tls", "connected", "alive"} => y[1] \in Quiets \cup {"none"}
  /\ x[1] = "read" /\ x[2] \notin Transfers => y[1] \in Quiets \cup {"none"}
  /\ LogsIn(y) => LogsIn(x)

Linked(s) == \A i \in DOMAIN s : Fits(s[i], Nth(s, i + 1), Nth(s, i + 2))

\* Where a call is: it ended, asks whether it is connected, connects with the
\* rest of its steps ahead, or works over the connection.
ConnectsTo(s, j) ==
  /\ s[j][1] = "connected"
  /\ \A i \in DOMAIN s : (i < j => Connects(s[i])) /\ (j < i => Operates(s[i]))
Connecting(s, on) == (\E j \in DOMAIN s : ConnectsTo(s, j)) /\ (on => s[1][1] = "open")
Working(s, on)    == on /\ \A i \in DOMAIN s : Operates(s[i])
Stage(s, on) ==
  \/ s = <<>> \/ (Len(s) = 1 /\ s[1][1] = "quit")
  \/ s[1][1] = "alive" /\ \A i \in DOMAIN s : i > 1 => Operates(s[i])
  \/ Connecting(s, on) \/ Working(s, on)

Program(s, on, o) ==
  /\ Linked(s) /\ Stage(s, on)
  /\ \A i \in DOMAIN s : Holds(s[i]) \/ s[i][1] = "listen" => o \in {"list", "retr", "stor"}

ClientType ==
  /\ secure \in BOOLEAN /\ passive \in BOOLEAN /\ connected \in BOOLEAN
  /\ aborted \in BOOLEAN /\ cached \in BOOLEAN /\ last \in Replies
  /\ listening \in {"none", "bound", "unbound"} /\ data \in {"none", "open", "ended"}
  /\ op \in Operations \cup {"none"} /\ todo \in Seq(Kinds \X Names) /\ wanted \in BOOLEAN
  /\ toServer \in Seq([cmd : Names, own : BOOLEAN]) /\ toClient \in Seq(Replies)
  /\ link \in {"closed", "up", "lost"} /\ image \in BOOLEAN /\ refused \subseteq BOOLEAN
  /\ transfer \in [cmd : Names, own : BOOLEAN] /\ own \in BOOLEAN /\ disturbed \in BOOLEAN
  /\ op = "none" => todo = <<>>

ProgramInv == Program(todo, connected, op)

\* A data connection, or a port that is listened on, is one of the call's own.
DataInv == data # "none" \/ listening = "bound" => Holds(Nth(todo, 1))

\* The replies that are owed.  A goodbye comes last, and the link is lost by then.
Goodbye(s) == s = <<>> \/ (Len(s) = 1 /\ s[1].code = 421 /\ link # "up")
Quiet      == toServer = <<>> /\ transfer = NoTransfer /\ Goodbye(toClient)
Asked      == Len(toServer) = 1 /\ toClient = <<>> /\ transfer = NoTransfer /\ link = "up"
Replied    == toServer = <<>> /\ transfer = NoTransfer /\ toClient # <<>> /\ Goodbye(Tail(toClient))
OneOwed ==
  \/ Quiet \/ Replied
  \/ Asked /\ toServer[1].cmd \notin Transfers
  \/ toServer = <<>> /\ toClient = <<>> /\ transfer # NoTransfer /\ link = "up"
TwoOwed ==
  \/ Quiet \/ Replied
  \/ Asked /\ toServer[1].cmd \in Transfers
  \/ /\ toServer = <<>> /\ toClient # <<>> /\ Head(toClient).code = 1
     /\ IF transfer = NoTransfer
        THEN Tail(toClient) = <<>> \/ Goodbye(Tail(Tail(toClient)))
        ELSE Tail(toClient) = <<>> /\ link = "up"

\* The replies that are owed before step x, when step y is next.
OwedAt(x, y) ==
  /\ x[1] \in Quiets \cup {"alive", "quit", "none"} => Quiet
  /\ Reads(x, Transfers) \/ (x[1] = "data" /\ y[1] = "read") => TwoOwed
  /\ x[1] \in Closers \/ (x[1] = "read" /\ x[2] \notin Transfers) \/ (x[1] = "data" /\ y[1] # "read") =>
       OneOwed
Owed == OwedAt(Nth(todo, 1), Nth(todo, 2))

\* Where no reply is owed to a call that was cut short, all are this call's own.
Entries == {"alive", "open", "quit"}
ReplyInv ==
  /\ Nth(todo, 1)[1] \in Entries => own
  /\ ~disturbed =>
       /\ own /\ Owed /\ transfer.own
       /\ \A i \in DOMAIN toClient : toClient[i].own
       /\ \A i \in DOMAIN toServer : toServer[i].own
       /\ cached => ~connected /\ Nth(todo, 1)[1] \in Entries \cup {"none"}

\* The login, up to which no reply is missed.
NoLoginAsked == \A i \in DOMAIN toServer : toServer[i].cmd \notin Logins
LoginIs(c) ==
  /\ transfer = NoTransfer /\ (toServer # <<>> => toServer[1].cmd = c)
  /\ toClient # <<>> => (toClient[1].code = 2 => login = "in") /\ (c = "ACCT" => toClient[1].code # 3)
LoginInv ==
  /\ connected => login = "in" /\ NoLoginAsked
  /\ Connecting(todo, connected) /\ Nth(todo, 1)[1] # "open" =>
       IF LogsIn(Nth(todo, 1)) THEN ~disturbed ELSE login = "in" /\ NoLoginAsked
  /\ Reads(Nth(todo, 1), Logins) /\ ~disturbed => LoginIs(Nth(todo, 1)[2])

\* The type that was set, or refused, by the time the server reads command k + 1,
\* and at the end.
Tried == {image} \cup refused
TypeFor(binary) == IF binary THEN "TYPE_I" ELSE "TYPE_A"
TypedAt(k) ==
  \/ \E m \in 1..k : toServer[m].cmd = TypeFor(wanted) /\ \A l \in (m+1)..k : toServer[l].cmd \notin Types
  \/ wanted \in Tried /\ \A l \in 1..k : toServer[l].cmd \notin Types
TypeIsAhead(s, i, binary) ==
  \E m \in 1..(i-1) : Sends(s[m], {TypeFor(binary)}) /\ \A n \in (m+1)..(i-1) : Prepares(s[n])

Carries(x) == Sends(x, {"RETR", "STOR"})
TypeInv ==
  /\ \A i \in DOMAIN todo : Carries(todo[i]) =>
       \/ TypeIsAhead(todo, i, wanted)
       \/ (\A n \in 1..(i-1) : Prepares(todo[n])) /\ (link # "up" \/ TypedAt(Len(toServer)))
  /\ \A k \in DOMAIN toServer : toServer[k].own /\ toServer[k].cmd \in {"RETR", "STOR"} =>
       op # "none" /\ connected /\ TypedAt(k - 1)

ClientInv == ClientType /\ ProgramInv /\ DataInv /\ ReplyInv /\ LoginInv /\ TypeInv
=============================================================================
