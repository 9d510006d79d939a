-------------------------- MODULE FTPClientProofs ---------------------------
(***************************************************************************)
(* Proofs about the FTP client, for both modes, with and without TLS, and  *)
(* any ports.  ClientInv is inductive: after every step the rest of the    *)
(* call is a program that connects before it works (ProgramInv), it holds  *)
(* the data connection (DataInv), it is owed no more replies than it reads *)
(* (ReplyInv), it is logged in from the login on (LoginInv), and its       *)
(* transfer comes behind the type it needs (TypeInv).                      *)
(***************************************************************************)
EXTENDS FTPClient, SequenceTheorems, TLAPS

(***************************************************************************)
(* The steps of every call: they are well formed, linked, and typed.       *)
(***************************************************************************)

StepSeq == Seq(Kinds \X Names)

\* A step, and what it is made of.
IsSend(x, c) == x = Send(c) /\ x[1] = "send" /\ x[2] = c
IsRead(x, c) == x = Read(c) /\ x[1] = "read" /\ x[2] = c
IsDo(x, what) == x = Do(what) /\ x[1] = what /\ x[2] = "none"

\* The steps of a call over the connection.
Work(s, o) ==
  /\ s # <<>> /\ Linked(s) /\ s[1][1] \in Quiets /\ ~LogsIn(s[1])
  /\ \A i \in DOMAIN s : Operates(s[i])
  /\ \A i \in DOMAIN s : Holds(s[i]) \/ s[i][1] = "listen" => o \in {"list", "retr", "stor"}

Prepared(s) == \A i \in DOMAIN s : Carries(s[i]) => \A n \in 1..(i-1) : Prepares(s[n])

\* The steps of FTPConnect.
Idle(x) == ~Holds(x) /\ x[1] # "listen" /\ ~Carries(x)
Login(s) ==
  /\ s # <<>> /\ Linked(s) /\ s[1][1] = "open"
  /\ \A i \in DOMAIN s : Connects(s[i]) /\ Idle(s[i])
Setting(s) ==
  /\ s # <<>> /\ Linked(s) /\ s[1][1] \in Quiets /\ ~LogsIn(s[1]) /\ s[Len(s)][1] = "connected"
  /\ \A i \in DOMAIN s : Idle(s[i]) /\ (i < Len(s) => Connects(s[i]))

\* Sending, reading and the other steps are steps.
LEMMA StepsTyped ==
  /\ \A c \in Names : Send(c) \in Kinds \X Names /\ Read(c) \in Kinds \X Names
  /\ \A what \in Kinds : Do(what) \in Kinds \X Names
BY DEF Do, Send, Read, Kinds, Names, Quiets, Closers

\* A TYPE command is none of the commands of a transfer or a login.
LEMMA TypesApart ==
  ASSUME NEW b \in BOOLEAN
  PROVE  /\ TypeFor(b) \in Types /\ TypeFor(b) \in Names
         /\ TypeFor(b) \notin Transfers \cup Logins \cup {"PORT", "hello", "AUTH", "end"}
BY DEF TypeFor, Types, Transfers, Logins, Names, Operative

\* Two programs in a row are a program.
LEMMA StepsJoin ==
  ASSUME NEW s \in StepSeq, NEW t \in StepSeq
  PROVE  s \o t \in StepSeq
BY DEF StepSeq

\* A command with its reply is a program.
LEMMA CommandsTyped ==
  ASSUME NEW c \in Names
  PROVE  Cmd(c) \in StepSeq /\ DataCommand(c, TRUE) \in StepSeq /\ DataCommand(c, FALSE) \in StepSeq
<1>1. Do("data") \in Kinds \X Names
  BY StepsTyped DEF Kinds
<1> QED
  BY StepsTyped, <1>1 DEF Cmd, DataCommand, StepSeq

\* The pieces the transfers are put together from are programs.
LEMMA PiecesTyped ==
  ASSUME passive \in BOOLEAN
  PROVE  /\ Endpoint \in StepSeq /\ Check(TRUE) \in StepSeq /\ Check(passive) \in StepSeq
         /\ DataCommand("LIST", TRUE) \in StepSeq /\ DataCommand("RETR", passive) \in StepSeq
         /\ DataCommand("STOR", passive) \in StepSeq
         /\ <<Do("lines"), Read("end")>> \in StepSeq
         /\ <<Do("receive"), Read("end")>> \in StepSeq
         /\ <<Do("transmit"), Read("end")>> \in StepSeq
<1>1. Cmd("PASV") \in StepSeq /\ Cmd("PORT") \in StepSeq
  BY CommandsTyped DEF Names, Operative
<1>2. <<Do("listen")>> \in StepSeq /\ <<Do("check")>> \in StepSeq
  BY StepsTyped DEF Kinds, Quiets, StepSeq
<1>3. Endpoint \in StepSeq
  <2>1. CASE passive
    BY <1>1, <2>1 DEF Endpoint
  <2>2. CASE ~passive
    BY <1>1, <1>2, <2>2 DEF Endpoint, StepSeq
  <2> QED
    BY <2>1, <2>2
<1>4. Check(TRUE) \in StepSeq /\ Check(passive) \in StepSeq
  BY <1>2 DEF Check, StepSeq
<1>5. /\ DataCommand("LIST", TRUE) \in StepSeq
      /\ DataCommand("RETR", TRUE) \in StepSeq /\ DataCommand("RETR", FALSE) \in StepSeq
      /\ DataCommand("STOR", TRUE) \in StepSeq /\ DataCommand("STOR", FALSE) \in StepSeq
  BY CommandsTyped DEF Names, Operative, Transfers
<1>6. Read("end") \in Kinds \X Names /\ \A what \in Closers : Do(what) \in Kinds \X Names
  BY StepsTyped DEF Names, Kinds
<1>7. /\ <<Do("lines"), Read("end")>> \in StepSeq
      /\ <<Do("receive"), Read("end")>> \in StepSeq
      /\ <<Do("transmit"), Read("end")>> \in StepSeq
  BY <1>6 DEF Closers, StepSeq
<1> QED
  BY <1>3, <1>4, <1>5, <1>7

\* The steps of every operation are a program.
LEMMA StepsAreTyped ==
  ASSUME passive \in BOOLEAN
  PROVE  /\ List \in StepSeq /\ Retrieve \in StepSeq /\ Store \in StepSeq
         /\ Cmd("RNFR") \o Cmd("RNTO") \in StepSeq /\ Cmd("DELE") \in StepSeq /\ Cmd("NOOP") \in StepSeq
<1>1. /\ Cmd("CWD") \in StepSeq /\ Cmd("SIZE") \in StepSeq /\ Cmd("RNFR") \in StepSeq
      /\ Cmd("RNTO") \in StepSeq /\ Cmd("DELE") \in StepSeq /\ Cmd("NOOP") \in StepSeq
  BY CommandsTyped DEF Names, Operative
<1>2. List \in StepSeq
  <2>1. /\ Endpoint \in StepSeq /\ DataCommand("LIST", TRUE) \in StepSeq
        /\ <<Do("lines"), Read("end")>> \in StepSeq
    BY PiecesTyped
  <2> QED
    BY <1>1, <2>1, StepsJoin DEF List
<1>3. Retrieve \in StepSeq
  <2>1. /\ Endpoint \in StepSeq /\ Check(passive) \in StepSeq
        /\ DataCommand("RETR", passive) \in StepSeq /\ <<Do("receive"), Read("end")>> \in StepSeq
    BY PiecesTyped
  <2> QED
    BY <1>1, <2>1, StepsJoin DEF Retrieve
<1>4. Store \in StepSeq
  <2>1. /\ Endpoint \in StepSeq /\ Check(TRUE) \in StepSeq
        /\ DataCommand("STOR", passive) \in StepSeq /\ <<Do("transmit"), Read("end")>> \in StepSeq
    BY PiecesTyped
  <2> QED
    BY <2>1, StepsJoin DEF Store
<1>5. Cmd("RNFR") \o Cmd("RNTO") \in StepSeq
  BY <1>1 DEF StepSeq
<1> QED
  BY <1>1, <1>2, <1>3, <1>4, <1>5

\* GetDirInfoPASV works over the connection and carries no file.
LEMMA ListPassive ==
  ASSUME passive
  PROVE  Work(List, "list") /\ \A i \in DOMAIN List : ~Carries(List[i])
<1> DEFINE s == List
<1>1. s = <<Send("CWD"), Read("CWD")>> \o <<Send("PASV"), Read("PASV")>>
            \o <<Send("LIST"), Do("data"), Read("LIST")>> \o <<Do("lines"), Read("end")>>
  BY DEF List, Cmd, Endpoint, DataCommand
<1>2. DOMAIN s = 1..9 /\ s # <<>>
  BY <1>1
<1>3. /\ s[1] = Send("CWD") /\ s[2] = Read("CWD") /\ s[3] = Send("PASV") /\ s[4] = Read("PASV")
     /\ s[5] = Send("LIST") /\ s[6] = Do("data") /\ s[7] = Read("LIST") /\ s[8] = Do("lines")
     /\ s[9] = Read("end")
  BY <1>1
<1> HIDE DEF s
<1>4. /\ IsSend(s[1], "CWD") /\ IsRead(s[2], "CWD") /\ IsSend(s[3], "PASV")
     /\ IsRead(s[4], "PASV") /\ IsSend(s[5], "LIST") /\ IsDo(s[6], "data")
     /\ IsRead(s[7], "LIST") /\ IsDo(s[8], "lines") /\ IsRead(s[9], "end")
  BY <1>3 DEF IsSend, IsRead, IsDo, Send, Read, Do
<1>5. Linked(s) /\ s[1][1] \in Quiets /\ ~LogsIn(s[1])
  BY <1>2, <1>4 DEF IsSend, IsRead, IsDo, Linked, Fits, Nth, Absent, Do, Reads, Sends,
    LogsIn, Quiets, Closers, Transfers, Logins
<1>6. \A i \in DOMAIN s : Operates(s[i])
  BY <1>2, <1>4 DEF IsSend, IsRead, IsDo, Operates, Operative, Closers, Transfers
<1>7. \A i \in DOMAIN s : ~Carries(s[i])
  BY <1>2, <1>4 DEF IsSend, IsRead, IsDo, Carries, Sends
<1> QED
  BY <1>2, <1>5, <1>6, <1>7 DEF Work, s

\* GetDirInfo works over the connection and carries no file.
LEMMA ListActive ==
  ASSUME ~passive
  PROVE  Work(List, "list") /\ \A i \in DOMAIN List : ~Carries(List[i])
<1> DEFINE s == List
<1>1. s = <<Send("CWD"), Read("CWD")>> \o <<Do("listen")>> \o <<Send("PORT"), Read("PORT")>>
            \o <<Send("LIST"), Do("data"), Read("LIST")>> \o <<Do("lines"), Read("end")>>
  BY DEF List, Cmd, Endpoint, DataCommand
<1>2. DOMAIN s = 1..10 /\ s # <<>>
  BY <1>1
<1>3. /\ s[1] = Send("CWD") /\ s[2] = Read("CWD") /\ s[3] = Do("listen") /\ s[4] = Send("PORT")
     /\ s[5] = Read("PORT") /\ s[6] = Send("LIST") /\ s[7] = Do("data") /\ s[8] = Read("LIST")
     /\ s[9] = Do("lines") /\ s[10] = Read("end")
  BY <1>1
<1> HIDE DEF s
<1>4. /\ IsSend(s[1], "CWD") /\ IsRead(s[2], "CWD") /\ IsDo(s[3], "listen")
     /\ IsSend(s[4], "PORT") /\ IsRead(s[5], "PORT") /\ IsSend(s[6], "LIST")
     /\ IsDo(s[7], "data") /\ IsRead(s[8], "LIST") /\ IsDo(s[9], "lines")
     /\ IsRead(s[10], "end")
  BY <1>3 DEF IsSend, IsRead, IsDo, Send, Read, Do
<1>5. Linked(s) /\ s[1][1] \in Quiets /\ ~LogsIn(s[1])
  BY <1>2, <1>4 DEF IsSend, IsRead, IsDo, Linked, Fits, Nth, Absent, Do, Reads, Sends,
    LogsIn, Quiets, Closers, Transfers, Logins
<1>6. \A i \in DOMAIN s : Operates(s[i])
  BY <1>2, <1>4 DEF IsSend, IsRead, IsDo, Operates, Operative, Closers, Transfers
<1>7. \A i \in DOMAIN s : ~Carries(s[i])
  BY <1>2, <1>4 DEF IsSend, IsRead, IsDo, Carries, Sends
<1> QED
  BY <1>2, <1>5, <1>6, <1>7 DEF Work, s

\* ReceiveFilePASV works over the connection; nothing before RETR undoes the type.
LEMMA RetrievePassive ==
  ASSUME passive
  PROVE  Work(Retrieve, "retr") /\ Prepared(Retrieve)
<1> DEFINE s == Retrieve
<1>1. s = <<Send("SIZE"), Read("SIZE")>> \o <<Send("PASV"), Read("PASV")>> \o <<Do("check")>>
            \o <<Send("RETR"), Do("data"), Read("RETR")>> \o <<Do("receive"), Read("end")>>
  BY DEF Retrieve, Cmd, Endpoint, Check, DataCommand
<1>2. DOMAIN s = 1..10 /\ s # <<>>
  BY <1>1
<1>3. /\ s[1] = Send("SIZE") /\ s[2] = Read("SIZE") /\ s[3] = Send("PASV") /\ s[4] = Read("PASV")
     /\ s[5] = Do("check") /\ s[6] = Send("RETR") /\ s[7] = Do("data") /\ s[8] = Read("RETR")
     /\ s[9] = Do("receive") /\ s[10] = Read("end")
  BY <1>1
<1> HIDE DEF s
<1>4. /\ IsSend(s[1], "SIZE") /\ IsRead(s[2], "SIZE") /\ IsSend(s[3], "PASV")
     /\ IsRead(s[4], "PASV") /\ IsDo(s[5], "check") /\ IsSend(s[6], "RETR")
     /\ IsDo(s[7], "data") /\ IsRead(s[8], "RETR") /\ IsDo(s[9], "receive")
     /\ IsRead(s[10], "end")
  BY <1>3 DEF IsSend, IsRead, IsDo, Send, Read, Do
<1>5. Linked(s) /\ s[1][1] \in Quiets /\ ~LogsIn(s[1])
  BY <1>2, <1>4 DEF IsSend, IsRead, IsDo, Linked, Fits, Nth, Absent, Do, Reads, Sends,
    LogsIn, Quiets, Closers, Transfers, Logins
<1>6. \A i \in DOMAIN s : Operates(s[i])
  BY <1>2, <1>4 DEF IsSend, IsRead, IsDo, Operates, Operative, Closers, Transfers
<1>7. \A i \in DOMAIN s : Carries(s[i]) => i = 6
  BY <1>2, <1>4 DEF IsSend, IsRead, IsDo, Carries, Sends
<1>8. \A n \in 1..5 : Prepares(s[n])
  BY <1>4 DEF IsSend, IsRead, IsDo, Prepares
<1> QED
  BY <1>2, <1>5, <1>6, <1>7, <1>8 DEF Work, Prepared, s

\* ReceiveFile works over the connection; nothing before RETR undoes the type.
LEMMA RetrieveActive ==
  ASSUME ~passive
  PROVE  Work(Retrieve, "retr") /\ Prepared(Retrieve)
<1> DEFINE s == Retrieve
<1>1. s = <<Send("SIZE"), Read("SIZE")>> \o <<Do("listen")>> \o <<Send("PORT"), Read("PORT")>>
            \o <<Send("RETR"), Read("RETR"), Do("data")>> \o <<Do("receive"), Read("end")>>
  BY DEF Retrieve, Cmd, Endpoint, Check, DataCommand
<1>2. DOMAIN s = 1..10 /\ s # <<>>
  BY <1>1
<1>3. /\ s[1] = Send("SIZE") /\ s[2] = Read("SIZE") /\ s[3] = Do("listen") /\ s[4] = Send("PORT")
     /\ s[5] = Read("PORT") /\ s[6] = Send("RETR") /\ s[7] = Read("RETR") /\ s[8] = Do("data")
     /\ s[9] = Do("receive") /\ s[10] = Read("end")
  BY <1>1
<1> HIDE DEF s
<1>4. /\ IsSend(s[1], "SIZE") /\ IsRead(s[2], "SIZE") /\ IsDo(s[3], "listen")
     /\ IsSend(s[4], "PORT") /\ IsRead(s[5], "PORT") /\ IsSend(s[6], "RETR")
     /\ IsRead(s[7], "RETR") /\ IsDo(s[8], "data") /\ IsDo(s[9], "receive")
     /\ IsRead(s[10], "end")
  BY <1>3 DEF IsSend, IsRead, IsDo, Send, Read, Do
<1>5. Linked(s) /\ s[1][1] \in Quiets /\ ~LogsIn(s[1])
  BY <1>2, <1>4 DEF IsSend, IsRead, IsDo, Linked, Fits, Nth, Absent, Do, Reads, Sends,
    LogsIn, Quiets, Closers, Transfers, Logins
<1>6. \A i \in DOMAIN s : Operates(s[i])
  BY <1>2, <1>4 DEF IsSend, IsRead, IsDo, Operates, Operative, Closers, Transfers
<1>7. \A i \in DOMAIN s : Carries(s[i]) => i = 6
  BY <1>2, <1>4 DEF IsSend, IsRead, IsDo, Carries, Sends
<1>8. \A n \in 1..5 : Prepares(s[n])
  BY <1>4 DEF IsSend, IsRead, IsDo, Prepares
<1> QED
  BY <1>2, <1>5, <1>6, <1>7, <1>8 DEF Work, Prepared, s

\* SendFilePASV works over the connection; nothing before STOR undoes the type.
LEMMA StorePassive ==
  ASSUME passive
  PROVE  Work(Store, "stor") /\ Prepared(Store)
<1> DEFINE s == Store
<1>1. s = <<Send("PASV"), Read("PASV")>> \o <<Do("check")>>
            \o <<Send("STOR"), Do("data"), Read("STOR")>> \o <<Do("transmit"), Read("end")>>
  BY DEF Store, Cmd, Endpoint, Check, DataCommand
<1>2. DOMAIN s = 1..8 /\ s # <<>>
  BY <1>1
<1>3. /\ s[1] = Send("PASV") /\ s[2] = Read("PASV") /\ s[3] = Do("check") /\ s[4] = Send("STOR")
     /\ s[5] = Do("data") /\ s[6] = Read("STOR") /\ s[7] = Do("transmit") /\ s[8] = Read("end")
  BY <1>1
<1> HIDE DEF s
<1>4. /\ IsSend(s[1], "PASV") /\ IsRead(s[2], "PASV") /\ IsDo(s[3], "check")
     /\ IsSend(s[4], "STOR") /\ IsDo(s[5], "data") /\ IsRead(s[6], "STOR")
     /\ IsDo(s[7], "transmit") /\ IsRead(s[8], "end")
  BY <1>3 DEF IsSend, IsRead, IsDo, Send, Read, Do
<1>5. Linked(s) /\ s[1][1] \in Quiets /\ ~LogsIn(s[1])
  BY <1>2, <1>4 DEF IsSend, IsRead, IsDo, Linked, Fits, Nth, Absent, Do, Reads, Sends,
    LogsIn, Quiets, Closers, Transfers, Logins
<1>6. \A i \in DOMAIN s : Operates(s[i])
  BY <1>2, <1>4 DEF IsSend, IsRead, IsDo, Operates, Operative, Closers, Transfers
<1>7. \A i \in DOMAIN s : Carries(s[i]) => i = 4
  BY <1>2, <1>4 DEF IsSend, IsRead, IsDo, Carries, Sends
<1>8. \A n \in 1..3 : Prepares(s[n])
  BY <1>4 DEF IsSend, IsRead, IsDo, Prepares
<1> QED
  BY <1>2, <1>5, <1>6, <1>7, <1>8 DEF Work, Prepared, s

\* SendFile works over the connection; nothing before STOR undoes the type.
LEMMA StoreActive ==
  ASSUME ~passive
  PROVE  Work(Store, "stor") /\ Prepared(Store)
<1> DEFINE s == Store
<1>1. s = <<Do("listen")>> \o <<Send("PORT"), Read("PORT")>> \o <<Do("check")>>
            \o <<Send("STOR"), Read("STOR"), Do("data")>> \o <<Do("transmit"), Read("end")>>
  BY DEF Store, Cmd, Endpoint, Check, DataCommand
<1>2. DOMAIN s = 1..9 /\ s # <<>>
  BY <1>1
<1>3. /\ s[1] = Do("listen") /\ s[2] = Send("PORT") /\ s[3] = Read("PORT") /\ s[4] = Do("check")
     /\ s[5] = Send("STOR") /\ s[6] = Read("STOR") /\ s[7] = Do("data") /\ s[8] = Do("transmit")
     /\ s[9] = Read("end")
  BY <1>1
<1> HIDE DEF s
<1>4. /\ IsDo(s[1], "listen") /\ IsSend(s[2], "PORT") /\ IsRead(s[3], "PORT")
     /\ IsDo(s[4], "check") /\ IsSend(s[5], "STOR") /\ IsRead(s[6], "STOR")
     /\ IsDo(s[7], "data") /\ IsDo(s[8], "transmit") /\ IsRead(s[9], "end")
  BY <1>3 DEF IsSend, IsRead, IsDo, Send, Read, Do
<1>5. Linked(s) /\ s[1][1] \in Quiets /\ ~LogsIn(s[1])
  BY <1>2, <1>4 DEF IsSend, IsRead, IsDo, Linked, Fits, Nth, Absent, Do, Reads, Sends,
    LogsIn, Quiets, Closers, Transfers, Logins
<1>6. \A i \in DOMAIN s : Operates(s[i])
  BY <1>2, <1>4 DEF IsSend, IsRead, IsDo, Operates, Operative, Closers, Transfers
<1>7. \A i \in DOMAIN s : Carries(s[i]) => i = 5
  BY <1>2, <1>4 DEF IsSend, IsRead, IsDo, Carries, Sends
<1>8. \A n \in 1..4 : Prepares(s[n])
  BY <1>4 DEF IsSend, IsRead, IsDo, Prepares
<1> QED
  BY <1>2, <1>5, <1>6, <1>7, <1>8 DEF Work, Prepared, s

\* RenameFile works over the connection and carries no file.
LEMMA RenameWorks ==
  /\ Work(Cmd("RNFR") \o Cmd("RNTO"), "rename")
  /\ \A i \in DOMAIN (Cmd("RNFR") \o Cmd("RNTO")) : ~Carries((Cmd("RNFR") \o Cmd("RNTO"))[i])
<1> DEFINE s == Cmd("RNFR") \o Cmd("RNTO")
<1>1. s = <<Send("RNFR"), Read("RNFR")>>
            \o <<Send("RNTO"), Read("RNTO")>>
  BY DEF Cmd
<1>2. DOMAIN s = 1..4 /\ s # <<>>
  BY <1>1
<1>3. s[1] = Send("RNFR") /\ s[2] = Read("RNFR") /\ s[3] = Send("RNTO") /\ s[4] = Read("RNTO")
  BY <1>1
<1> HIDE DEF s
<1>4. /\ IsSend(s[1], "RNFR") /\ IsRead(s[2], "RNFR") /\ IsSend(s[3], "RNTO")
     /\ IsRead(s[4], "RNTO")
  BY <1>3 DEF IsSend, IsRead, IsDo, Send, Read, Do
<1>5. Linked(s) /\ s[1][1] \in Quiets /\ ~LogsIn(s[1])
  BY <1>2, <1>4 DEF IsSend, IsRead, IsDo, Linked, Fits, Nth, Absent, Do, Reads, Sends,
    LogsIn, Quiets, Closers, Transfers, Logins
<1>6. \A i \in DOMAIN s : Operates(s[i])
  BY <1>2, <1>4 DEF IsSend, IsRead, IsDo, Operates, Operative, Closers, Transfers
<1>7. \A i \in DOMAIN s : ~Holds(s[i]) /\ s[i][1] # "listen" /\ ~Carries(s[i])
  BY <1>2, <1>4 DEF IsSend, IsRead, IsDo, Holds, Closers, Transfers, Carries, Sends
<1> QED
  BY <1>2, <1>5, <1>6, <1>7 DEF Work, s

\* DeleteFile works over the connection and carries no file.
LEMMA DeleteWorks ==
  /\ Work(Cmd("DELE"), "delete")
  /\ \A i \in DOMAIN Cmd("DELE") : ~Carries(Cmd("DELE")[i])
<1> DEFINE s == Cmd("DELE")
<1>1. s = <<Send("DELE"), Read("DELE")>>
  BY DEF Cmd
<1>2. DOMAIN s = 1..2 /\ s # <<>>
  BY <1>1
<1>3. s[1] = Send("DELE") /\ s[2] = Read("DELE")
  BY <1>1
<1> HIDE DEF s
<1>4. IsSend(s[1], "DELE") /\ IsRead(s[2], "DELE")
  BY <1>3 DEF IsSend, IsRead, IsDo, Send, Read, Do
<1>5. Linked(s) /\ s[1][1] \in Quiets /\ ~LogsIn(s[1])
  BY <1>2, <1>4 DEF IsSend, IsRead, IsDo, Linked, Fits, Nth, Absent, Do, Reads, Sends,
    LogsIn, Quiets, Closers, Transfers, Logins
<1>6. \A i \in DOMAIN s : Operates(s[i])
  BY <1>2, <1>4 DEF IsSend, IsRead, IsDo, Operates, Operative, Closers, Transfers
<1>7. \A i \in DOMAIN s : ~Holds(s[i]) /\ s[i][1] # "listen" /\ ~Carries(s[i])
  BY <1>2, <1>4 DEF IsSend, IsRead, IsDo, Holds, Closers, Transfers, Carries, Sends
<1> QED
  BY <1>2, <1>5, <1>6, <1>7 DEF Work, s

\* NoOp works over the connection and carries no file.
LEMMA NoOpWorks ==
  /\ Work(Cmd("NOOP"), "noop")
  /\ \A i \in DOMAIN Cmd("NOOP") : ~Carries(Cmd("NOOP")[i])
<1> DEFINE s == Cmd("NOOP")
<1>1. s = <<Send("NOOP"), Read("NOOP")>>
  BY DEF Cmd
<1>2. DOMAIN s = 1..2 /\ s # <<>>
  BY <1>1
<1>3. s[1] = Send("NOOP") /\ s[2] = Read("NOOP")
  BY <1>1
<1> HIDE DEF s
<1>4. IsSend(s[1], "NOOP") /\ IsRead(s[2], "NOOP")
  BY <1>3 DEF IsSend, IsRead, IsDo, Send, Read, Do
<1>5. Linked(s) /\ s[1][1] \in Quiets /\ ~LogsIn(s[1])
  BY <1>2, <1>4 DEF IsSend, IsRead, IsDo, Linked, Fits, Nth, Absent, Do, Reads, Sends,
    LogsIn, Quiets, Closers, Transfers, Logins
<1>6. \A i \in DOMAIN s : Operates(s[i])
  BY <1>2, <1>4 DEF IsSend, IsRead, IsDo, Operates, Operative, Closers, Transfers
<1>7. \A i \in DOMAIN s : ~Holds(s[i]) /\ s[i][1] # "listen" /\ ~Carries(s[i])
  BY <1>2, <1>4 DEF IsSend, IsRead, IsDo, Holds, Closers, Transfers, Carries, Sends
<1> QED
  BY <1>2, <1>5, <1>6, <1>7 DEF Work, s

\* The login of explicit TLS is one.
LEMMA LoginSecure ==
  ASSUME secure
  PROVE  Login(LoginSteps)
<1> DEFINE s == LoginSteps
<1>1. s = <<Do("open"), Read("hello")>> \o (<<Send("AUTH"), Read("AUTH")>> \o <<Do("tls")>>)
            \o <<Send("USER"), Read("USER")>> \o <<Send("PASS"), Read("PASS")>>
  BY DEF LoginSteps, Cmd
<1>2. DOMAIN s = 1..9 /\ s # <<>> /\ Len(s) = 9
  BY <1>1
<1>3. /\ s[1] = Do("open") /\ s[2] = Read("hello") /\ s[3] = Send("AUTH") /\ s[4] = Read("AUTH")
     /\ s[5] = Do("tls") /\ s[6] = Send("USER") /\ s[7] = Read("USER") /\ s[8] = Send("PASS")
     /\ s[9] = Read("PASS")
  BY <1>1
<1> HIDE DEF s
<1>4. /\ IsDo(s[1], "open") /\ IsRead(s[2], "hello") /\ IsSend(s[3], "AUTH")
     /\ IsRead(s[4], "AUTH") /\ IsDo(s[5], "tls") /\ IsSend(s[6], "USER")
     /\ IsRead(s[7], "USER") /\ IsSend(s[8], "PASS") /\ IsRead(s[9], "PASS")
  BY <1>3 DEF IsSend, IsRead, IsDo, Send, Read, Do
<1>5. Linked(s)
  BY <1>2, <1>4 DEF IsSend, IsRead, IsDo, Linked, Fits, Nth, Absent, Do, Reads, Sends,
    LogsIn, Quiets, Closers, Transfers, Logins
<1>6. \A i \in 1..9 : Connects(s[i])
  BY <1>4 DEF IsSend, IsRead, IsDo, Connects, LogsIn, Logins, Settings
<1>7. \A i \in DOMAIN s : Idle(s[i])
  BY <1>2, <1>4 DEF IsSend, IsRead, IsDo, Holds, Closers, Transfers, Carries, Sends, Idle
<1> QED
  BY <1>2, <1>4, <1>5, <1>6, <1>7 DEF Login, IsDo, s

\* What FTPConnect sets after it, down to m_connected, has the form of a setting.
LEMMA SettingSecure ==
  ASSUME secure
  PROVE  Setting(SettingSteps)
<1> DEFINE s == SettingSteps
<1>1. s = (<<Send("PBSZ"), Read("PBSZ")>> \o <<Send("PROT"), Read("PROT")>>) \o <<Send("TYPE_A"), Read("TYPE_A")>>
            \o <<Send("MODE"), Read("MODE")>> \o <<Send("STRU"), Read("STRU")>> \o <<Do("connected")>>
  BY DEF SettingSteps, Cmd
<1>2. DOMAIN s = 1..11 /\ s # <<>> /\ Len(s) = 11
  BY <1>1
<1>3. /\ s[1] = Send("PBSZ") /\ s[2] = Read("PBSZ") /\ s[3] = Send("PROT") /\ s[4] = Read("PROT")
     /\ s[5] = Send("TYPE_A") /\ s[6] = Read("TYPE_A") /\ s[7] = Send("MODE")
     /\ s[8] = Read("MODE") /\ s[9] = Send("STRU") /\ s[10] = Read("STRU")
     /\ s[11] = Do("connected")
  BY <1>1
<1> HIDE DEF s
<1>4. /\ IsSend(s[1], "PBSZ") /\ IsRead(s[2], "PBSZ") /\ IsSend(s[3], "PROT")
     /\ IsRead(s[4], "PROT") /\ IsSend(s[5], "TYPE_A") /\ IsRead(s[6], "TYPE_A")
     /\ IsSend(s[7], "MODE") /\ IsRead(s[8], "MODE") /\ IsSend(s[9], "STRU")
     /\ IsRead(s[10], "STRU") /\ IsDo(s[11], "connected")
  BY <1>3 DEF IsSend, IsRead, IsDo, Send, Read, Do
<1>5. Linked(s) /\ s[1][1] \in Quiets /\ ~LogsIn(s[1])
  BY <1>2, <1>4 DEF IsSend, IsRead, IsDo, Linked, Fits, Nth, Absent, Do, Reads, Sends,
    LogsIn, Quiets, Closers, Transfers, Logins
<1>6. \A i \in 1..10 : Connects(s[i])
  BY <1>4 DEF IsSend, IsRead, IsDo, Connects, LogsIn, Logins, Settings
<1>7. \A i \in DOMAIN s : Idle(s[i])
  BY <1>2, <1>4 DEF IsSend, IsRead, IsDo, Holds, Closers, Transfers, Carries, Sends, Idle
<1> QED
  BY <1>2, <1>4, <1>5, <1>6, <1>7 DEF Setting, IsDo, s

\* The login of plain FTP is one.
LEMMA LoginPlain ==
  ASSUME ~secure
  PROVE  Login(LoginSteps)
<1> DEFINE s == LoginSteps
<1>1. s = <<Do("open"), Read("hello")>> \o << >>
            \o <<Send("USER"), Read("USER")>> \o <<Send("PASS"), Read("PASS")>>
  BY DEF LoginSteps, Cmd
<1>2. DOMAIN s = 1..6 /\ s # <<>> /\ Len(s) = 6
  BY <1>1
<1>3. /\ s[1] = Do("open") /\ s[2] = Read("hello") /\ s[3] = Send("USER") /\ s[4] = Read("USER")
     /\ s[5] = Send("PASS") /\ s[6] = Read("PASS")
  BY <1>1
<1> HIDE DEF s
<1>4. /\ IsDo(s[1], "open") /\ IsRead(s[2], "hello") /\ IsSend(s[3], "USER")
     /\ IsRead(s[4], "USER") /\ IsSend(s[5], "PASS") /\ IsRead(s[6], "PASS")
  BY <1>3 DEF IsSend, IsRead, IsDo, Send, Read, Do
<1>5. Linked(s)
  BY <1>2, <1>4 DEF IsSend, IsRead, IsDo, Linked, Fits, Nth, Absent, Do, Reads, Sends,
    LogsIn, Quiets, Closers, Transfers, Logins
<1>6. \A i \in 1..6 : Connects(s[i])
  BY <1>4 DEF IsSend, IsRead, IsDo, Connects, LogsIn, Logins, Settings
<1>7. \A i \in DOMAIN s : Idle(s[i])
  BY <1>2, <1>4 DEF IsSend, IsRead, IsDo, Holds, Closers, Transfers, Carries, Sends, Idle
<1> QED
  BY <1>2, <1>4, <1>5, <1>6, <1>7 DEF Login, IsDo, s

\* What FTPConnect sets after it, down to m_connected, has the form of a setting.
LEMMA SettingPlain ==
  ASSUME ~secure
  PROVE  Setting(SettingSteps)
<1> DEFINE s == SettingSteps
<1>1. s = << >> \o <<Send("TYPE_A"), Read("TYPE_A")>>
            \o <<Send("MODE"), Read("MODE")>> \o <<Send("STRU"), Read("STRU")>> \o <<Do("connected")>>
  BY DEF SettingSteps, Cmd
<1>2. DOMAIN s = 1..7 /\ s # <<>> /\ Len(s) = 7
  BY <1>1
<1>3. /\ s[1] = Send("TYPE_A") /\ s[2] = Read("TYPE_A") /\ s[3] = Send("MODE")
     /\ s[4] = Read("MODE") /\ s[5] = Send("STRU") /\ s[6] = Read("STRU")
     /\ s[7] = Do("connected")
  BY <1>1
<1> HIDE DEF s
<1>4. /\ IsSend(s[1], "TYPE_A") /\ IsRead(s[2], "TYPE_A") /\ IsSend(s[3], "MODE")
     /\ IsRead(s[4], "MODE") /\ IsSend(s[5], "STRU") /\ IsRead(s[6], "STRU")
     /\ IsDo(s[7], "connected")
  BY <1>3 DEF IsSend, IsRead, IsDo, Send, Read, Do
<1>5. Linked(s) /\ s[1][1] \in Quiets /\ ~LogsIn(s[1])
  BY <1>2, <1>4 DEF IsSend, IsRead, IsDo, Linked, Fits, Nth, Absent, Do, Reads, Sends,
    LogsIn, Quiets, Closers, Transfers, Logins
<1>6. \A i \in 1..6 : Connects(s[i])
  BY <1>4 DEF IsSend, IsRead, IsDo, Connects, LogsIn, Logins, Settings
<1>7. \A i \in DOMAIN s : Idle(s[i])
  BY <1>2, <1>4 DEF IsSend, IsRead, IsDo, Holds, Closers, Transfers, Carries, Sends, Idle
<1> QED
  BY <1>2, <1>4, <1>5, <1>6, <1>7 DEF Setting, IsDo, s

\* Both parts of FTPConnect are programs.
LEMMA ConnectStepsTyped ==
  ASSUME secure \in BOOLEAN
  PROVE  LoginSteps \in StepSeq /\ SettingSteps \in StepSeq
<1>1. /\ Cmd("AUTH") \in StepSeq /\ Cmd("USER") \in StepSeq /\ Cmd("PASS") \in StepSeq
      /\ Cmd("PBSZ") \in StepSeq /\ Cmd("PROT") \in StepSeq /\ Cmd("TYPE_A") \in StepSeq
      /\ Cmd("MODE") \in StepSeq /\ Cmd("STRU") \in StepSeq
  BY CommandsTyped DEF Names, Settings, Logins
<1>2. Do("open") \in Kinds \X Names /\ Read("hello") \in Kinds \X Names
  BY StepsTyped DEF Kinds, Names
<1>3. <<Do("tls")>> \in StepSeq /\ <<Do("connected")>> \in StepSeq /\ << >> \in StepSeq
  BY StepsTyped DEF Kinds, Quiets, StepSeq
<1>4. <<Do("open"), Read("hello")>> \in StepSeq
  BY <1>2 DEF StepSeq
<1>5. /\ (IF secure THEN Cmd("AUTH") \o <<Do("tls")>> ELSE <<>>) \in StepSeq
      /\ (IF secure THEN Cmd("PBSZ") \o Cmd("PROT") ELSE <<>>) \in StepSeq
  BY <1>1, <1>3, StepsJoin
<1> QED
  BY <1>1, <1>3, <1>4, <1>5, StepsJoin DEF LoginSteps, SettingSteps

\* What fits at the end of a sequence fits before more steps, and the steps
\* that follow one another do so wherever they are.
LEMMA FitsOn ==
  ASSUME NEW x, NEW y, NEW z
  PROVE  /\ Fits(x, y, Absent) => Fits(x, y, z)
         /\ Fits(x, Absent, Absent) /\ y[1] \in Quiets /\ ~LogsIn(y) => Fits(x, y, z)
         /\ Fits(x, Absent, Absent) => Fits(x, Absent, z)
BY DEF Fits, Absent, Do, Reads, Sends, LogsIn, Quiets, Closers, Transfers, Logins

\* Linked programs in a row are linked, if the second may begin where no reply is owed.
LEMMA LinkedJoin ==
  ASSUME NEW s \in StepSeq, NEW t \in StepSeq, Linked(s), Linked(t),
         t # <<>> => t[1][1] \in Quiets /\ ~LogsIn(t[1])
  PROVE  Linked(s \o t)
<1> DEFINE u == s \o t
<1>1. DOMAIN u = 1..(Len(s) + Len(t)) /\ DOMAIN s = 1..Len(s) /\ DOMAIN t = 1..Len(t)
  BY DEF StepSeq
<1>2. \A k \in 1..Len(s) : u[k] = s[k]
  BY DEF StepSeq
<1>3. \A k \in 1..Len(t) : u[k + Len(s)] = t[k]
  BY DEF StepSeq
<1>0. Len(s) \in Nat /\ Len(t) \in Nat
  BY DEF StepSeq
<1>4. t # <<>> <=> Len(t) # 0
  BY DEF StepSeq
<1> HIDE DEF u
<1> SUFFICES ASSUME NEW i \in 1..(Len(s) + Len(t)) PROVE Fits(u[i], Nth(u, i + 1), Nth(u, i + 2))
  BY <1>1 DEF Linked, u
<1>5. CASE i > Len(s)
  <2> DEFINE k == i - Len(s)
  <2>1. k \in DOMAIN t /\ u[i] = t[k]
    BY <1>0, <1>1, <1>3, <1>5
  <2>2. Nth(u, i + 1) = Nth(t, k + 1) /\ Nth(u, i + 2) = Nth(t, k + 2)
    BY <1>0, <1>1, <1>3, <1>5 DEF Nth
  <2> QED
    BY <2>1, <2>2 DEF Linked
<1>6. CASE i <= Len(s)
  <2>1. i \in DOMAIN s /\ u[i] = s[i] /\ Fits(s[i], Nth(s, i + 1), Nth(s, i + 2))
    BY <1>0, <1>1, <1>2, <1>6 DEF Linked
  <2>2. CASE i + 2 <= Len(s)
    <3>1. Nth(u, i + 1) = Nth(s, i + 1) /\ Nth(u, i + 2) = Nth(s, i + 2)
      BY <1>0, <1>1, <1>2, <2>2 DEF Nth
    <3> QED
      BY <2>1, <3>1
  <2>3. CASE i + 1 = Len(s)
    <3>1. Nth(u, i + 1) = Nth(s, i + 1) /\ Nth(s, i + 2) = Absent
      BY <1>0, <1>1, <1>2, <2>3 DEF Nth
    <3> QED
      BY <2>1, <3>1, FitsOn
  <2>4. CASE i = Len(s)
    <3>1. Nth(s, i + 1) = Absent /\ Nth(s, i + 2) = Absent
      BY <1>0, <1>1, <2>4 DEF Nth
    <3>2. CASE t = <<>>
      <4>1. Nth(u, i + 1) = Absent
        BY <1>0, <1>1, <1>4, <2>4, <3>2 DEF Nth
      <4> QED
        BY <2>1, <3>1, <4>1, FitsOn
    <3>3. CASE t # <<>>
      <4>1. Nth(u, i + 1) = t[1]
        BY <1>0, <1>1, <1>3, <1>4, <2>4, <3>3 DEF Nth
      <4> QED
        BY <2>1, <3>1, <3>3, <4>1, FitsOn
    <3> QED
      BY <3>2, <3>3
  <2> QED
    BY <1>0, <1>6, <2>2, <2>3, <2>4
<1> QED
  BY <1>0, <1>5, <1>6

\* The rest of a program, and its steps.
LEMMA TailIs ==
  ASSUME NEW s \in StepSeq, s # <<>>
  PROVE  /\ Tail(s) \in StepSeq /\ Len(s) \in Nat \ {0} /\ Len(Tail(s)) = Len(s) - 1
         /\ DOMAIN s = 1..Len(s) /\ DOMAIN Tail(s) = 1..(Len(s) - 1)
         /\ \A i \in 1..(Len(s) - 1) : Tail(s)[i] = s[i + 1]
         /\ Head(s) = s[1] /\ Head(s) \in Kinds \X Names
         /\ \A k \in Nat \ {0} : Nth(Tail(s), k) = Nth(s, k + 1)
         /\ Tail(s) # <<>> => Tail(s)[1] = Nth(s, 2) /\ Tail(s)[1] \in Kinds \X Names
         /\ Tail(s) = <<>> => Nth(s, 2) = Absent
<1>1. /\ Tail(s) \in StepSeq /\ Len(s) \in Nat \ {0} /\ Len(Tail(s)) = Len(s) - 1
      /\ DOMAIN s = 1..Len(s) /\ DOMAIN Tail(s) = 1..(Len(s) - 1)
      /\ \A i \in 1..(Len(s) - 1) : Tail(s)[i] = s[i + 1]
      /\ Head(s) = s[1] /\ Head(s) \in Kinds \X Names
  BY DEF StepSeq
<1>2. \A k \in Nat \ {0} : Nth(Tail(s), k) = Nth(s, k + 1)
  BY <1>1 DEF Nth
<1>3. Tail(s) # <<>> => 1 \in DOMAIN Tail(s) /\ Tail(s)[1] \in Kinds \X Names
  BY <1>1 DEF StepSeq
<1>4. Tail(s) # <<>> => Tail(s)[1] = Nth(s, 2)
  BY <1>1, <1>3 DEF Nth
<1>5. Tail(s) = <<>> => Nth(s, 2) = Absent
  <2>1. Tail(s) = <<>> => Len(s) = 1
    <3>1. Tail(s) = <<>> => Len(Tail(s)) = 0
      BY <1>1, EmptySeq DEF StepSeq
    <3> QED
      BY <1>1, <3>1
  <2> QED
    BY <1>1, <2>1 DEF Nth
<1> QED
  BY <1>1, <1>2, <1>3, <1>4, <1>5

\* A linked program stays linked, and its first step fits what follows.
LEMMA LinkedTail ==
  ASSUME NEW s \in StepSeq, s # <<>>, Linked(s)
  PROVE  Linked(Tail(s)) /\ Fits(Head(s), Nth(s, 2), Nth(s, 3))
<1>1. Fits(Head(s), Nth(s, 2), Nth(s, 3))
  BY TailIs DEF Linked
<1>2. ASSUME NEW i \in DOMAIN Tail(s)
      PROVE  Fits(Tail(s)[i], Nth(Tail(s), i + 1), Nth(Tail(s), i + 2))
  <2>1. i + 1 \in DOMAIN s /\ Tail(s)[i] = s[i + 1] /\ i \in Nat \ {0}
    <3>1. /\ Len(s) \in Nat \ {0} /\ i \in 1..(Len(s) - 1) /\ DOMAIN s = 1..Len(s)
          /\ \A j \in 1..(Len(s) - 1) : Tail(s)[j] = s[j + 1]
      BY TailIs
    <3> QED
      BY <3>1
  <2>2. Nth(Tail(s), i + 1) = Nth(s, i + 2) /\ Nth(Tail(s), i + 2) = Nth(s, i + 3)
    BY <2>1, TailIs
  <2>3. i + 1 + 1 = i + 2 /\ i + 1 + 2 = i + 3
    BY <2>1
  <2> QED
    BY <2>1, <2>2, <2>3 DEF Linked
<1> QED
  BY <1>1, <1>2 DEF Linked

(***************************************************************************)
(* The program of a call, and how it begins and ends.                      *)
(***************************************************************************)

\* The first step of a program, if it has one.
LEMMA FirstIs ==
  ASSUME NEW s \in StepSeq
  PROVE  /\ s = <<>> => Nth(s, 1) = Absent
         /\ s # <<>> => Nth(s, 1) = s[1] /\ Head(s) = s[1] /\ 1 \in DOMAIN s /\ s[1] \in Kinds \X Names
<1>1. CASE s = <<>>
  <2>1. 1 \notin DOMAIN s
    BY <1>1
  <2> QED
    BY <1>1, <2>1 DEF Nth
<1>2. CASE s # <<>>
  <2>1. /\ Len(s) \in Nat \ {0} /\ DOMAIN s = 1..Len(s) /\ Head(s) = s[1]
        /\ Head(s) \in Kinds \X Names
    BY <1>2, TailIs
  <2> QED
    BY <1>2, <2>1 DEF Nth
<1> QED
  BY <1>1, <1>2

\* Where a call is, told by its next step.
LEMMA StageIs ==
  ASSUME NEW s \in StepSeq, s # <<>>, NEW on \in BOOLEAN, Stage(s, on)
  PROVE  /\ s[1][1] = "quit" => Len(s) = 1
         /\ s[1][1] = "alive" => \A i \in DOMAIN s : i > 1 => Operates(s[i])
         /\ s[1][1] \notin {"quit", "alive"} => Connecting(s, on) \/ Working(s, on)
         /\ Connecting(s, on) => s[1][1] \in {"open", "tls", "send", "read", "connected"}
         /\ Working(s, on) => s[1][1] \in {"check", "listen", "data", "send", "read"} \cup Closers
<1>1. /\ Len(s) \in Nat \ {0} /\ DOMAIN s = 1..Len(s)
  BY TailIs
<1>2. \A x : Connects(x) => x[1] \in {"open", "tls", "send", "read"}
  BY DEF Connects, LogsIn
<1>3. \A x : Operates(x) => x[1] \in {"check", "listen", "data", "send", "read"} \cup Closers
  BY DEF Operates
<1>4. Connecting(s, on) => s[1][1] \in {"open", "tls", "send", "read", "connected"}
  BY <1>1, <1>2 DEF Connecting, ConnectsTo
<1>5. Working(s, on) => s[1][1] \in {"check", "listen", "data", "send", "read"} \cup Closers
  BY <1>1, <1>3 DEF Working
<1>6. s[1][1] = "quit" => Len(s) = 1
  BY <1>4, <1>5 DEF Stage, Closers
<1>7. s[1][1] = "alive" => \A i \in DOMAIN s : i > 1 => Operates(s[i])
  BY <1>1, <1>4, <1>5 DEF Stage, Closers
<1>8. s[1][1] \notin {"quit", "alive"} => Connecting(s, on) \/ Working(s, on)
  BY DEF Stage
<1> QED
  BY <1>4, <1>5, <1>6, <1>7, <1>8

\* A call goes on with its next step.
LEMMA ProgramTail ==
  ASSUME NEW s \in StepSeq, s # <<>>, NEW on \in BOOLEAN, NEW o, Program(s, on, o),
         NEW now \in BOOLEAN, now <=> (on \/ s[1][1] = "connected") /\ s[1][1] # "open",
         s[1][1] = "alive" => on
  PROVE  Program(Tail(s), now, o)
<1>1. /\ Len(s) \in Nat \ {0} /\ DOMAIN s = 1..Len(s) /\ DOMAIN Tail(s) = 1..(Len(s) - 1)
      /\ Len(Tail(s)) = Len(s) - 1
      /\ \A i \in 1..(Len(s) - 1) : Tail(s)[i] = s[i + 1]
  BY TailIs
<1>2. Linked(s) /\ Stage(s, on)
  BY DEF Program
<1>3. Linked(Tail(s))
  BY <1>2, LinkedTail
<1>4. \A i \in DOMAIN Tail(s) : Holds(Tail(s)[i]) \/ Tail(s)[i][1] = "listen" => o \in {"list", "retr", "stor"}
  BY <1>1 DEF Program
<1>5. Stage(Tail(s), now)
  <2>1. CASE s[1][1] = "quit"
    <3>1. Len(s) = 1
      BY <1>2, <2>1, StageIs
    <3>2. Tail(s) \in StepSeq /\ Len(Tail(s)) = 0
      BY <1>1, <3>1, TailIs
    <3>3. Tail(s) = <<>>
      BY <3>2, EmptySeq DEF StepSeq
    <3> QED
      BY <3>3 DEF Stage
  <2>2. CASE s[1][1] = "alive"
    <3>0. \A i \in DOMAIN s : i > 1 => Operates(s[i])
      BY <1>2, <2>2, StageIs
    <3>1. \A i \in DOMAIN Tail(s) : Operates(Tail(s)[i])
      BY <1>1, <3>0
    <3>2. now
      BY <2>2
    <3> QED
      BY <3>1, <3>2 DEF Stage, Working
  <2>3. CASE Connecting(s, on)
    <3>1. PICK j \in DOMAIN s : ConnectsTo(s, j)
      BY <2>3 DEF Connecting
    <3>2. CASE j = 1
      <4>1. s[1][1] = "connected"
        BY <3>1, <3>2 DEF ConnectsTo
      <4>2. \A i \in DOMAIN Tail(s) : Operates(Tail(s)[i])
        BY <1>1, <3>1, <3>2 DEF ConnectsTo
      <4>3. now
        BY <4>1
      <4> QED
        BY <4>2, <4>3 DEF Stage, Working
    <3>3. CASE j # 1
      <4>1. j - 1 \in DOMAIN Tail(s) /\ ConnectsTo(Tail(s), j - 1)
        BY <1>1, <3>1, <3>3 DEF ConnectsTo
      <4>2. Connects(s[1])
        BY <1>1, <3>1, <3>3 DEF ConnectsTo
      <4>3. ~now
        BY <2>3, <4>2 DEF Connecting, Connects, LogsIn
      <4> QED
        BY <4>1, <4>3 DEF Stage, Connecting
    <3> QED
      BY <3>2, <3>3
  <2>4. CASE Working(s, on)
    <3>1. s[1][1] \in {"check", "listen", "data", "send", "read"} \cup Closers
      BY <1>2, <2>4, StageIs
    <3>2. now
      BY <2>4, <3>1 DEF Working, Closers
    <3>3. \A i \in DOMAIN Tail(s) : Operates(Tail(s)[i])
      BY <1>1, <2>4 DEF Working
    <3> QED
      BY <3>2, <3>3 DEF Stage, Working
  <2> QED
    BY <1>2, <2>1, <2>2, <2>3, <2>4, StageIs
<1> QED
  BY <1>3, <1>4, <1>5 DEF Program

\* A call that is over, and one that reads once more.
LEMMA ProgramEnd ==
  ASSUME NEW on \in BOOLEAN, NEW o
  PROVE  Program(<<>>, on, o)
BY DEF Program, Linked, Stage

\* A single reply to read is a program of a connected client.
LEMMA ProgramLast ==
  ASSUME NEW c \in {"end2", "late"}, NEW on \in BOOLEAN, on, NEW o
  PROVE  Program(<<Read(c)>>, on, o) /\ <<Read(c)>> \in StepSeq
<1> DEFINE s == <<Read(c)>>
<1>1. s \in StepSeq
  BY StepsTyped DEF StepSeq, Names
<1>2. DOMAIN s = 1..1 /\ s[1] = Read(c)
  OBVIOUS
<1> HIDE DEF s
<1>3. s[1][1] = "read" /\ s[1][2] = c
  BY <1>2 DEF Read
<1>4. Linked(s)
  BY <1>2, <1>3 DEF Linked, Fits, Nth, Absent, Do, Reads, Sends, LogsIn, Quiets, Closers, Transfers, Logins
<1>5. Working(s, on)
  BY <1>2, <1>3 DEF Working, Operates
<1>6. \A i \in DOMAIN s : ~Holds(s[i]) /\ s[i][1] # "listen"
  BY <1>2, <1>3 DEF Holds, Transfers, Closers
<1> QED
  BY <1>1, <1>4, <1>5, <1>6 DEF Program, Stage, s

\* Connecting, with the rest of the call ahead.
LEMMA ConnectStepsAre ==
  ASSUME secure \in BOOLEAN
  PROVE  /\ ConnectSteps \in StepSeq /\ ConnectSteps # <<>> /\ Linked(ConnectSteps)
         /\ ConnectSteps[1][1] = "open" /\ ConnectSteps[Len(ConnectSteps)][1] = "connected"
         /\ \A i \in DOMAIN ConnectSteps : Idle(ConnectSteps[i])
         /\ \A i \in DOMAIN ConnectSteps : i < Len(ConnectSteps) => Connects(ConnectSteps[i])
<1> DEFINE a == LoginSteps
<1> DEFINE b == SettingSteps
<1>1. a \in StepSeq /\ b \in StepSeq
  BY ConnectStepsTyped
<1>2. Login(a) /\ Setting(b)
  BY LoginSecure, LoginPlain, SettingSecure, SettingPlain
<1>3. ConnectSteps = a \o b
  BY DEF ConnectSteps
<1> HIDE DEF a, b
<1>4. /\ a # <<>> /\ b # <<>> /\ Linked(a) /\ Linked(b) /\ a[1][1] = "open"
      /\ b[1][1] \in Quiets /\ ~LogsIn(b[1]) /\ b[Len(b)][1] = "connected"
      /\ \A i \in DOMAIN a : Connects(a[i]) /\ Idle(a[i])
      /\ \A i \in DOMAIN b : Idle(b[i]) /\ (i < Len(b) => Connects(b[i]))
  BY <1>2 DEF Login, Setting
<1>5. Linked(a \o b)
  BY <1>1, <1>4, LinkedJoin
<1>6. /\ Len(a) \in Nat \ {0} /\ Len(b) \in Nat \ {0} /\ DOMAIN a = 1..Len(a) /\ DOMAIN b = 1..Len(b)
  BY <1>1, <1>4, TailIs
<1>7. /\ Len(a \o b) = Len(a) + Len(b) /\ DOMAIN (a \o b) = 1..(Len(a) + Len(b))
      /\ \A i \in 1..Len(a) : (a \o b)[i] = a[i]
      /\ \A i \in 1..Len(b) : (a \o b)[i + Len(a)] = b[i]
      /\ a \o b \in StepSeq
  BY <1>1 DEF StepSeq
<1> DEFINE u == a \o b
<1> HIDE DEF u
<1>8. \A i \in DOMAIN u : i \in DOMAIN a \/ (i - Len(a) \in DOMAIN b /\ u[i] = b[i - Len(a)])
  BY <1>6, <1>7 DEF u
<1>9. \A i \in DOMAIN u : Idle(u[i])
  BY <1>4, <1>6, <1>7, <1>8 DEF u
<1>10. \A i \in DOMAIN u : i < Len(u) => Connects(u[i])
  BY <1>4, <1>6, <1>7, <1>8 DEF u
<1>11. u[1][1] = "open" /\ u[Len(u)][1] = "connected" /\ u # <<>>
  BY <1>4, <1>6, <1>7 DEF u
<1> QED
  BY <1>3, <1>5, <1>7, <1>9, <1>10, <1>11 DEF u

\* FTPConnect before the steps of a call is a program, whatever m_connected is.
LEMMA ProgramConnect ==
  ASSUME secure \in BOOLEAN, NEW s \in StepSeq, Linked(s), NEW o, NEW on \in BOOLEAN,
         s # <<>> => s[1][1] \in Quiets /\ ~LogsIn(s[1]),
         \A i \in DOMAIN s : Operates(s[i]),
         \A i \in DOMAIN s : Holds(s[i]) \/ s[i][1] = "listen" => o \in {"list", "retr", "stor"}
  PROVE  /\ ConnectSteps \o s \in StepSeq /\ ConnectSteps \o s # <<>>
         /\ (ConnectSteps \o s)[1][1] = "open"
         /\ Program(ConnectSteps \o s, on, o)
<1> DEFINE a == ConnectSteps
<1>1. /\ a \in StepSeq /\ a # <<>> /\ Linked(a)
      /\ a[1][1] = "open" /\ a[Len(a)][1] = "connected"
      /\ \A i \in DOMAIN a : Idle(a[i])
      /\ \A i \in DOMAIN a : i < Len(a) => Connects(a[i])
  BY ConnectStepsAre
<1> HIDE DEF a
<1>2. /\ Len(a) \in Nat \ {0} /\ DOMAIN a = 1..Len(a)
  BY <1>1, TailIs
<1>3. /\ Len(s) \in Nat /\ DOMAIN s = 1..Len(s)
  BY DEF StepSeq
<1>4. /\ Len(a \o s) = Len(a) + Len(s) /\ DOMAIN (a \o s) = 1..(Len(a) + Len(s))
      /\ \A i \in 1..Len(a) : (a \o s)[i] = a[i]
      /\ \A i \in 1..Len(s) : (a \o s)[i + Len(a)] = s[i]
      /\ a \o s \in StepSeq
  BY <1>1 DEF StepSeq
<1>5. Linked(a \o s)
  BY <1>1, LinkedJoin
<1> DEFINE u == a \o s
<1> HIDE DEF u
<1>6. \A i \in DOMAIN u : i \in DOMAIN a \/ (i - Len(a) \in DOMAIN s /\ u[i] = s[i - Len(a)])
  BY <1>2, <1>3, <1>4 DEF u
<1>7. \A i \in DOMAIN u : Holds(u[i]) \/ u[i][1] = "listen" => o \in {"list", "retr", "stor"}
  BY <1>1, <1>2, <1>4, <1>6 DEF u, Idle
<1>8. u[1][1] = "open" /\ u # <<>>
  BY <1>1, <1>2, <1>3, <1>4 DEF u
<1>9. Len(a) \in DOMAIN u /\ ConnectsTo(u, Len(a))
  <2>1. u[Len(a)][1] = "connected" /\ Len(a) \in DOMAIN u
    BY <1>1, <1>2, <1>3, <1>4 DEF u
  <2>2. \A i \in DOMAIN u : i < Len(a) => Connects(u[i])
    BY <1>1, <1>2, <1>3, <1>4 DEF u
  <2>3. \A i \in DOMAIN u : Len(a) < i => Operates(u[i])
    BY <1>2, <1>6
  <2> QED
    BY <2>1, <2>2, <2>3 DEF ConnectsTo
<1>10. Stage(u, on)
  BY <1>8, <1>9 DEF Stage, Connecting
<1> QED
  BY <1>4, <1>5, <1>7, <1>8, <1>10 DEF Program, u, a

(***************************************************************************)
(* A transfer's type is set ahead of it.                                   *)
(***************************************************************************)

TypesAhead(s, b) == \A i \in DOMAIN s : Carries(s[i]) => TypeIsAhead(s, i, b)

\* Every operation works over the connection; its transfer, if any, is prepared.
LEMMA WorkIs ==
  ASSUME passive \in BOOLEAN, NEW o \in {"list", "retr", "stor", "rename", "delete", "noop"}
  PROVE  /\ Steps(o) \in StepSeq /\ Work(Steps(o), o)
         /\ o \in {"retr", "stor"} => Prepared(Steps(o))
         /\ o \notin {"retr", "stor"} => \A i \in DOMAIN Steps(o) : ~Carries(Steps(o)[i])
<1>1. CASE o = "list"
  BY <1>1, StepsAreTyped, ListPassive, ListActive DEF Steps
<1>2. CASE o = "retr"
  BY <1>2, StepsAreTyped, RetrievePassive, RetrieveActive DEF Steps
<1>3. CASE o = "stor"
  BY <1>3, StepsAreTyped, StorePassive, StoreActive DEF Steps
<1>4. CASE o = "rename"
  BY <1>4, StepsAreTyped, RenameWorks DEF Steps
<1>5. CASE o = "delete"
  BY <1>5, StepsAreTyped, DeleteWorks DEF Steps
<1>6. CASE o = "noop"
  BY <1>6, StepsAreTyped, NoOpWorks DEF Steps
<1> QED
  BY <1>1, <1>2, <1>3, <1>4, <1>5, <1>6

\* The way into a call: is it connected, and the type of a transfer.
LEMMA EntryIs ==
  ASSUME NEW o, NEW b \in BOOLEAN
  PROVE  LET e == <<Do("alive")>> \o Typed(o, b)
         IN  /\ e \in StepSeq /\ Linked(e) /\ e # <<>> /\ e[1][1] = "alive"
             /\ \A i \in DOMAIN e : i > 1 => Operates(e[i])
             /\ \A i \in DOMAIN e : Idle(e[i])
             /\ o \in {"retr", "stor"} => Len(e) = 3 /\ Sends(e[2], {TypeFor(b)}) /\ Prepares(e[3])
<1> DEFINE e == <<Do("alive")>> \o Typed(o, b)
<1> DEFINE c == TypeFor(b)
<1>1. c \in Types /\ c \in Names /\ c \notin Transfers \cup Logins \cup {"PORT", "hello", "AUTH", "end"}
  BY TypesApart
<1>2. Do("alive") \in Kinds \X Names
  BY StepsTyped DEF Kinds
<1>3. Type(b) = Cmd(c)
  BY DEF Type, TypeFor
<1>4. CASE o \in {"retr", "stor"}
  <2>1. e = <<Do("alive")>> \o <<Send(c), Read(c)>>
    BY <1>3, <1>4 DEF Typed, Cmd
  <2>2. Send(c) \in Kinds \X Names /\ Read(c) \in Kinds \X Names
    BY <1>1, StepsTyped
  <2>3. e \in StepSeq
    <3>1. <<Do("alive")>> \in StepSeq /\ <<Send(c), Read(c)>> \in StepSeq
      BY <1>2, <2>2 DEF StepSeq
    <3> HIDE DEF e, c
    <3> QED
      BY <2>1, <3>1, StepsJoin
  <2>4. DOMAIN e = 1..3 /\ Len(e) = 3 /\ e # <<>> /\ e[1] = Do("alive") /\ e[2] = Send(c) /\ e[3] = Read(c)
    BY <2>1
  <2> HIDE DEF e, c
  <2>5. IsDo(e[1], "alive") /\ IsSend(e[2], c) /\ IsRead(e[3], c)
    BY <2>4 DEF IsDo, IsSend, IsRead, Do, Send, Read
  <2>6. Linked(e)
    BY <1>1, <2>4, <2>5 DEF IsSend, IsRead, IsDo, Linked, Fits, Nth, Absent, Do, Reads, Sends,
      LogsIn, Quiets, Closers, Transfers, Logins, Types
  <2>7. \A i \in DOMAIN e : i > 1 => Operates(e[i])
    BY <1>1, <2>4, <2>5 DEF IsSend, IsRead, Operates, Operative
  <2>8. \A i \in DOMAIN e : Idle(e[i])
    BY <1>1, <2>4, <2>5 DEF IsSend, IsRead, IsDo, Idle, Holds, Closers, Transfers, Carries, Sends
  <2>9. Sends(e[2], {c}) /\ Prepares(e[3]) /\ e[1][1] = "alive"
    BY <1>1, <2>5 DEF IsDo, IsSend, IsRead, Sends, Prepares
  <2> QED
    BY <2>3, <2>4, <2>6, <2>7, <2>8, <2>9 DEF e, c
<1>5. CASE o \notin {"retr", "stor"}
  <2>1. e = <<Do("alive")>>
    BY <1>5 DEF Typed
  <2>2. e \in StepSeq
    <3>1. <<Do("alive")>> \in StepSeq
      BY <1>2 DEF StepSeq
    <3> HIDE DEF e
    <3> QED
      BY <2>1, <3>1
  <2>3. DOMAIN e = 1..1 /\ e # <<>> /\ e[1] = Do("alive")
    BY <2>1
  <2> HIDE DEF e
  <2>4. IsDo(e[1], "alive")
    BY <2>3 DEF IsDo, Do
  <2>5. Linked(e)
    BY <2>3, <2>4 DEF IsDo, Linked, Fits, Nth, Absent, Do, Reads, Sends,
      LogsIn, Quiets, Closers, Transfers, Logins
  <2>6. \A i \in DOMAIN e : Idle(e[i]) /\ i <= 1
    BY <2>3, <2>4 DEF IsDo, Idle, Holds, Closers, Transfers, Carries, Sends
  <2> QED
    BY <1>5, <2>2, <2>3, <2>4, <2>5, <2>6 DEF IsDo, e
<1> QED
  BY <1>4, <1>5

\* A call as it starts.
LEMMA CallIs ==
  ASSUME ClientAssumption, secure \in BOOLEAN, passive \in BOOLEAN, connected \in BOOLEAN,
         NEW o \in Operations, NEW b \in BOOLEAN
  PROVE  /\ Call(o, b) \in StepSeq /\ (Call(o, b) # <<>> => Call(o, b)[1][1] \in Entries)
         /\ Program(Call(o, b), connected, o) /\ TypesAhead(Call(o, b), b)
<1> DEFINE on == connected
<1>0. CASE o = "connect" /\ connected
  <2>1. Call(o, b) = <<>>
    BY <1>0 DEF Call
  <2>2. << >> \in StepSeq /\ TypesAhead(<<>>, b)
    BY DEF StepSeq, TypesAhead
  <2> QED
    BY <2>1, <2>2, ProgramEnd
<1>1. CASE o = "connect" /\ ~connected
  <2>1. << >> \in StepSeq /\ Linked(<<>>) /\ \A i \in DOMAIN << >> : FALSE
    BY DEF StepSeq, Linked
  <2>2. /\ ConnectSteps \o << >> # <<>>
        /\ (ConnectSteps \o << >>)[1][1] = "open"
        /\ Program(ConnectSteps \o << >>, on, o)
    BY <2>1, ProgramConnect
  <2>3. /\ ConnectSteps \in StepSeq
        /\ \A i \in DOMAIN ConnectSteps : Idle(ConnectSteps[i])
    BY ConnectStepsAre
  <2>4. ConnectSteps \o << >> = ConnectSteps
    BY <2>3, ConcatEmptySeq DEF StepSeq
  <2>5. Call(o, b) = ConnectSteps
    BY <1>1 DEF Call
  <2>6. TypesAhead(ConnectSteps, b)
    BY <2>3 DEF TypesAhead, Idle
  <2> QED
    BY <1>1, <2>2, <2>3, <2>4, <2>5, <2>6 DEF Entries
<1>2. CASE o = "quit"
  <2> DEFINE s == <<Do("quit")>>
  <2>1. s \in StepSeq
    BY StepsTyped DEF StepSeq, Kinds
  <2>2. DOMAIN s = 1..1 /\ Len(s) = 1 /\ s # <<>> /\ s[1] = Do("quit")
    OBVIOUS
  <2> HIDE DEF s
  <2>3. IsDo(s[1], "quit")
    BY <2>2 DEF IsDo, Do
  <2>4. Linked(s)
    BY <2>2, <2>3 DEF IsDo, Linked, Fits, Nth, Absent, Do, Reads, Sends,
      LogsIn, Quiets, Closers, Transfers, Logins
  <2>5. \A i \in DOMAIN s : ~Holds(s[i]) /\ s[i][1] # "listen" /\ ~Carries(s[i])
    BY <2>2, <2>3 DEF IsDo, Holds, Closers, Transfers, Carries, Sends
  <2>6. Program(s, on, o) /\ TypesAhead(s, b) /\ s[1][1] = "quit"
    BY <2>2, <2>3, <2>4, <2>5 DEF Program, Stage, TypesAhead, IsDo
  <2>7. Call(o, b) = s
    BY <1>2 DEF Call, s
  <2> QED
    BY <1>2, <2>1, <2>2, <2>6, <2>7 DEF Entries
<1>3. CASE o \notin {"connect", "quit"}
  <2>1. o \in {"list", "retr", "stor", "rename", "delete", "noop"}
    BY <1>3 DEF ClientAssumption
  <2> DEFINE e == <<Do("alive")>> \o Typed(o, b)
  <2> DEFINE w == Steps(o)
  <2>2. Call(o, b) = e \o w
    BY <1>3 DEF Call
  <2>3. /\ e \in StepSeq /\ Linked(e) /\ e # <<>> /\ e[1][1] = "alive"
        /\ \A i \in DOMAIN e : i > 1 => Operates(e[i])
        /\ \A i \in DOMAIN e : Idle(e[i])
        /\ o \in {"retr", "stor"} => Len(e) = 3 /\ Sends(e[2], {TypeFor(b)}) /\ Prepares(e[3])
    BY EntryIs
  <2>4. /\ w \in StepSeq /\ Work(w, o)
        /\ o \in {"retr", "stor"} => Prepared(w)
        /\ o \notin {"retr", "stor"} => \A i \in DOMAIN w : ~Carries(w[i])
    BY <2>1, WorkIs
  <2> HIDE DEF e, w
  <2>5. /\ w # <<>> /\ Linked(w) /\ w[1][1] \in Quiets /\ ~LogsIn(w[1])
        /\ \A i \in DOMAIN w : Operates(w[i])
        /\ \A i \in DOMAIN w : Holds(w[i]) \/ w[i][1] = "listen" => o \in {"list", "retr", "stor"}
    BY <2>4 DEF Work
  <2> DEFINE u == e \o w
  <2>6. Linked(u)
    BY <2>3, <2>4, <2>5, LinkedJoin
  <2>7. /\ Len(e) \in Nat \ {0} /\ DOMAIN e = 1..Len(e) /\ Len(w) \in Nat \ {0} /\ DOMAIN w = 1..Len(w)
    BY <2>3, <2>4, <2>5, TailIs
  <2>8. /\ DOMAIN u = 1..(Len(e) + Len(w))
        /\ \A i \in 1..Len(e) : u[i] = e[i]
        /\ \A i \in 1..Len(w) : u[i + Len(e)] = w[i]
        /\ u \in StepSeq
    BY <2>3, <2>4 DEF StepSeq
  <2> HIDE DEF u
  <2>9. \A i \in DOMAIN u : (i \in DOMAIN e /\ u[i] = e[i]) \/ (i - Len(e) \in DOMAIN w /\ u[i] = w[i - Len(e)])
    BY <2>7, <2>8
  <2>10. u[1][1] = "alive" /\ u # <<>>
    BY <2>3, <2>7, <2>8
  <2>11. \A i \in DOMAIN u : i > 1 => Operates(u[i])
    BY <2>3, <2>5, <2>9
  <2>12. \A i \in DOMAIN u : Holds(u[i]) \/ u[i][1] = "listen" => o \in {"list", "retr", "stor"}
    BY <2>3, <2>5, <2>9 DEF Idle
  <2>13. Program(u, on, o)
    BY <2>6, <2>10, <2>11, <2>12 DEF Program, Stage, u
  <2>14. TypesAhead(u, b)
    <3> SUFFICES ASSUME NEW i \in DOMAIN u, Carries(u[i]) PROVE TypeIsAhead(u, i, b)
      BY DEF TypesAhead
    <3>1. i - Len(e) \in DOMAIN w /\ Carries(w[i - Len(e)])
      BY <2>3, <2>9 DEF Idle
    <3>2. o \in {"retr", "stor"}
      BY <2>4, <3>1
    <3>3. \A n \in 1..(i - Len(e) - 1) : Prepares(w[n])
      BY <2>4, <3>1, <3>2 DEF Prepared
    <3>4. Len(e) = 3 /\ i \in 4..(3 + Len(w))
      BY <2>3, <2>7, <2>8, <3>1, <3>2, SMTT(30)
    <3>5. Sends(u[2], {TypeFor(b)}) /\ Prepares(u[3])
      BY <2>3, <2>8, <3>2, <3>4
    <3>6. ASSUME NEW n \in 3..(i - 1) PROVE Prepares(u[n])
      <4>1. CASE n = 3
        BY <3>5, <4>1
      <4>2. CASE n # 3
        <5>1. n - 3 \in 1..(i - 3 - 1) /\ n - 3 \in 1..Len(w) /\ n = (n - 3) + 3
          BY <2>7, <3>4, <4>2
        <5>2. u[n] = w[n - 3]
          BY <2>8, <3>4, <5>1
        <5> QED
          BY <3>3, <3>4, <5>1, <5>2
      <4> QED
        BY <4>1, <4>2
    <3>7. 2 \in 1..(i - 1) /\ 2 + 1 = 3
      BY <3>4
    <3> QED
      BY <3>5, <3>6, <3>7 DEF TypeIsAhead
  <2> QED
    BY <2>2, <2>8, <2>10, <2>13, <2>14 DEF Entries, u
<1> QED
  BY <1>0, <1>1, <1>2, <1>3

(***************************************************************************)
(* A program that goes on.                                                 *)
(***************************************************************************)

\* A program stays one when a step is done that does not connect.
LEMMA ProgramGoesOn ==
  ASSUME NEW s \in StepSeq, s # <<>>, NEW on \in BOOLEAN, NEW o, Program(s, on, o),
         s[1][1] \notin {"alive", "open", "connected"}
  PROVE  Program(Tail(s), on, o)
<1>1. CASE on
  <2>1. Program(Tail(s), TRUE, o)
    BY <1>1, ProgramTail
  <2> QED
    BY <1>1, <2>1
<1>2. CASE ~on
  <2>1. Program(Tail(s), FALSE, o)
    BY <1>2, ProgramTail
  <2> QED
    BY <1>2, <2>1
<1> QED
  BY <1>1, <1>2

\* A type that is ahead stays ahead until it is sent.
LEMMA TypesAheadTail ==
  ASSUME NEW s \in StepSeq, s # <<>>, NEW b \in BOOLEAN, TypesAhead(s, b), ~Sends(s[1], Types)
  PROVE  TypesAhead(Tail(s), b)
<1>1. /\ Len(s) \in Nat \ {0} /\ DOMAIN s = 1..Len(s) /\ DOMAIN Tail(s) = 1..(Len(s) - 1)
      /\ \A i \in 1..(Len(s) - 1) : Tail(s)[i] = s[i + 1]
  BY TailIs
<1>2. SUFFICES ASSUME NEW i \in DOMAIN Tail(s), Carries(Tail(s)[i])
               PROVE  TypeIsAhead(Tail(s), i, b)
  BY DEF TypesAhead
<1>3. i + 1 \in DOMAIN s /\ Carries(s[i + 1])
  BY <1>1, <1>2
<1>4. PICK m \in 1..(i + 1 - 1) : /\ Sends(s[m], {TypeFor(b)})
                                  /\ \A n \in (m+1)..(i + 1 - 1) : Prepares(s[n])
  <2>1. TypeIsAhead(s, i + 1, b)
    BY <1>3 DEF TypesAhead
  <2> QED
    BY <2>1 DEF TypeIsAhead
<1>5. m # 1
  BY <1>4, TypesApart DEF Sends
<1>6. m - 1 \in 1..(i - 1) /\ m - 1 \in 1..(Len(s) - 1) /\ m - 1 + 1 = m
  BY <1>1, <1>4, <1>5
<1>7. Sends(Tail(s)[m - 1], {TypeFor(b)})
  BY <1>1, <1>4, <1>6
<1>8. ASSUME NEW n \in (m - 1 + 1)..(i - 1) PROVE Prepares(Tail(s)[n])
  <2>1. n + 1 \in (m+1)..(i + 1 - 1) /\ n \in 1..(Len(s) - 1)
    BY <1>1, <1>6
  <2> QED
    BY <1>1, <1>4, <2>1
<1> QED
  BY <1>6, <1>7, <1>8 DEF TypeIsAhead

\* A type that is ahead is ahead after more steps.
LEMMA TypesAheadJoin ==
  ASSUME NEW a \in StepSeq, NEW t \in StepSeq, NEW b \in BOOLEAN, TypesAhead(t, b),
         \A i \in DOMAIN a : ~Carries(a[i])
  PROVE  TypesAhead(a \o t, b)
<1> DEFINE u == a \o t
<1>1. /\ Len(a) \in Nat /\ Len(t) \in Nat /\ DOMAIN a = 1..Len(a) /\ DOMAIN t = 1..Len(t)
      /\ DOMAIN u = 1..(Len(a) + Len(t))
      /\ \A i \in 1..Len(a) : u[i] = a[i]
      /\ \A i \in 1..Len(t) : u[i + Len(a)] = t[i]
  BY DEF StepSeq
<1> HIDE DEF u
<1>2. SUFFICES ASSUME NEW i \in DOMAIN u, Carries(u[i]) PROVE TypeIsAhead(u, i, b)
  BY DEF TypesAhead, u
<1> DEFINE k == i - Len(a)
<1>3. k \in DOMAIN t /\ Carries(t[k]) /\ i = k + Len(a)
  BY <1>1, <1>2
<1> HIDE DEF k
<1>4. PICK m \in 1..(k - 1) : Sends(t[m], {TypeFor(b)}) /\ \A n \in (m+1)..(k-1) : Prepares(t[n])
  BY <1>3 DEF TypesAhead, TypeIsAhead
<1>5. m + Len(a) \in 1..(i - 1) /\ u[m + Len(a)] = t[m]
  BY <1>1, <1>3, <1>4
<1>6. ASSUME NEW n \in (m + Len(a) + 1)..(i - 1) PROVE Prepares(u[n])
  <2>1. n - Len(a) \in (m+1)..(k - 1) /\ n - Len(a) \in 1..Len(t) /\ (n - Len(a)) + Len(a) = n
    BY <1>1, <1>3, <1>4
  <2> QED
    BY <1>1, <1>4, <2>1
<1> QED
  BY <1>4, <1>5, <1>6 DEF TypeIsAhead

\* What comes next.
LEMMA NextIs ==
  ASSUME NEW s \in StepSeq, s # <<>>, NEW on \in BOOLEAN, NEW o, Program(s, on, o)
  PROVE  /\ Fits(Nth(s, 1), Nth(s, 2), Nth(s, 3))
         /\ Nth(Tail(s), 1) = Nth(s, 2) /\ Nth(Tail(s), 2) = Nth(s, 3)
         /\ Nth(s, 2)[1] \notin Entries
         /\ Nth(s, 1) = s[1] /\ s[1] \in Kinds \X Names
<1>1. Linked(s) /\ Stage(s, on)
  BY DEF Program
<1>2. Fits(s[1], Nth(s, 2), Nth(s, 3)) /\ s[1] \in Kinds \X Names /\ Nth(s, 1) = s[1]
  BY <1>1, LinkedTail, FirstIs
<1>3. Nth(Tail(s), 1) = Nth(s, 2) /\ Nth(Tail(s), 2) = Nth(s, 3)
  BY TailIs
<1>4. CASE s[1][1] = "quit"
  <2>1. Len(s) = 1
    BY <1>1, <1>4, StageIs
  <2>2. Nth(s, 2) = Absent
    BY <2>1, TailIs DEF Nth
  <2> QED
    BY <1>2, <1>3, <2>2 DEF Absent, Do, Entries
<1>5. CASE s[1][1] # "quit"
  <2>1. s[1][1] \in Kinds \ {"quit"}
    BY <1>2, <1>5
  <2>2. Nth(s, 2)[1] \notin Entries
    BY <1>2, <2>1 DEF Fits, Kinds, Closers, Quiets, Reads, Sends, Entries
  <2> QED
    BY <1>2, <1>3, <2>2
<1> QED
  BY <1>4, <1>5

\* USER logs in at once: PASS is left out.
LEMMA SkipPass ==
  ASSUME NEW s \in StepSeq, s # <<>>, NEW on \in BOOLEAN, NEW o, Program(s, on, o),
         Reads(s[1], {"USER"}), NEW b \in BOOLEAN, TypesAhead(s, b)
  PROVE  LET u == SubSeq(s, 4, Len(s))
         IN  u \in StepSeq /\ Program(u, on, o) /\ TypesAhead(u, b) /\ Nth(u, 1)[1] \in Quiets \cup {"none"}
<1> DEFINE t1 == Tail(s)
<1> DEFINE t2 == Tail(t1)
<1> DEFINE t3 == Tail(t2)
<1> DEFINE u == SubSeq(s, 4, Len(s))
<1>1. Fits(s[1], Nth(s, 2), Nth(s, 3)) /\ Nth(t1, 1) = Nth(s, 2)
  BY NextIs
<1>2. Sends(Nth(s, 2), {"PASS"})
  BY <1>1 DEF Fits
<1>3. t1 \in StepSeq /\ Program(t1, on, o)
  <2>1. s[1][1] = "read"
    BY DEF Reads
  <2> QED
    BY <2>1, ProgramGoesOn, TailIs
<1>4. t1 # <<>> /\ Sends(t1[1], {"PASS"})
  <2>1. t1 = <<>> => Nth(t1, 1) = Absent
    BY <1>3, FirstIs
  <2>2. t1 # <<>>
    BY <1>1, <1>2, <2>1 DEF Absent, Do, Sends
  <2> QED
    BY <1>1, <1>2, <1>3, <2>2, FirstIs
<1>5. TypesAhead(t1, b)
  BY TypesAheadTail DEF Reads, Sends
<1> HIDE DEF t1
<1>6. Fits(t1[1], Nth(t1, 2), Nth(t1, 3)) /\ Nth(t2, 1) = Nth(t1, 2)
  BY <1>3, <1>4, NextIs
<1>7. Reads(Nth(t1, 2), {"PASS"})
  BY <1>4, <1>6 DEF Fits, Sends, Transfers
<1>8. t2 \in StepSeq /\ Program(t2, on, o)
  <2>1. t1[1][1] = "send"
    BY <1>4 DEF Sends
  <2> QED
    BY <1>3, <1>4, <2>1, ProgramGoesOn, TailIs
<1>9. t2 # <<>> /\ Reads(t2[1], {"PASS"})
  <2>1. t2 = <<>> => Nth(t2, 1) = Absent
    BY <1>8, FirstIs
  <2>2. t2 # <<>>
    BY <1>6, <1>7, <2>1 DEF Absent, Do, Reads
  <2> QED
    BY <1>6, <1>7, <1>8, <2>2, FirstIs
<1>10. TypesAhead(t2, b)
  <2>1. ~Sends(t1[1], Types)
    BY <1>4 DEF Sends, Types
  <2> QED
    BY <1>3, <1>4, <1>5, <2>1, TypesAheadTail
<1> HIDE DEF t2
<1>11. Fits(t2[1], Nth(t2, 2), Nth(t2, 3)) /\ Nth(t3, 1) = Nth(t2, 2)
  BY <1>8, <1>9, NextIs
<1>12. Nth(t2, 2)[1] \in Quiets \cup {"none"}
  BY <1>9, <1>11 DEF Fits, Reads, Transfers
<1>13. t3 \in StepSeq /\ Program(t3, on, o)
  <2>1. t2[1][1] = "read"
    BY <1>9 DEF Reads
  <2> QED
    BY <1>8, <1>9, <2>1, ProgramGoesOn, TailIs
<1>14. TypesAhead(t3, b)
  <2>1. ~Sends(t2[1], Types)
    BY <1>9 DEF Sends, Reads
  <2> QED
    BY <1>8, <1>9, <1>10, <2>1, TypesAheadTail
<1>15. u = t3
  <2>1. /\ Len(s) \in Nat \ {0} /\ Len(t1) = Len(s) - 1
        /\ \A i \in 1..(Len(s) - 1) : t1[i] = s[i + 1]
    BY TailIs DEF t1
  <2>2. /\ Len(t1) \in Nat \ {0} /\ Len(t2) = Len(t1) - 1
        /\ \A i \in 1..(Len(t1) - 1) : t2[i] = t1[i + 1]
    BY <1>3, <1>4, TailIs DEF t2
  <2>3. /\ Len(t2) \in Nat \ {0} /\ Len(t3) = Len(t2) - 1
        /\ \A i \in 1..(Len(t2) - 1) : t3[i] = t2[i + 1]
    BY <1>8, <1>9, TailIs
  <2> HIDE DEF t3
  <2>4. /\ u \in StepSeq /\ Len(u) = Len(s) - 3
        /\ \A i \in 1..(Len(s) - 3) : u[i] = s[i + 3]
    BY <2>1, <2>2, <2>3 DEF StepSeq
  <2> HIDE DEF u
  <2>5. \A i \in 1..(Len(s) - 3) : t3[i] = s[i + 3]
    <3> SUFFICES ASSUME NEW i \in 1..(Len(s) - 3) PROVE t3[i] = s[i + 3]
      OBVIOUS
    <3>1. i \in 1..(Len(t2) - 1) /\ i + 1 \in 1..(Len(t1) - 1) /\ i + 2 \in 1..(Len(s) - 1)
      BY <2>1, <2>2, <2>3
    <3>2. t3[i] = t2[i + 1] /\ t2[i + 1] = t1[i + 1 + 1] /\ t1[i + 2] = s[i + 2 + 1]
      BY <2>1, <2>2, <2>3, <3>1
    <3>3. i + 1 + 1 = i + 2 /\ i + 2 + 1 = i + 3
      OBVIOUS
    <3> QED
      BY <3>2, <3>3
  <2>6. Len(t3) = Len(s) - 3
    BY <2>1, <2>2, <2>3
  <2>7. Len(u) = Len(t3) /\ \A i \in 1..Len(u) : u[i] = t3[i]
    BY <2>4, <2>5, <2>6
  <2> QED
    BY <1>13, <2>4, <2>7, SeqEqual DEF StepSeq
<1> QED
  BY <1>11, <1>12, <1>13, <1>14, <1>15

\* PASS asks for ACCT.
LEMMA AskAcct ==
  ASSUME NEW s \in StepSeq, s # <<>>, NEW on \in BOOLEAN, NEW o, Program(s, on, o),
         Reads(s[1], {"PASS"}), NEW b \in BOOLEAN, TypesAhead(s, b)
  PROVE  LET u == Cmd("ACCT") \o Tail(s)
         IN  /\ u \in StepSeq /\ Program(u, on, o) /\ TypesAhead(u, b)
             /\ Nth(u, 1) = Send("ACCT")
<1> DEFINE t == Tail(s)
<1> DEFINE c == Cmd("ACCT")
<1> DEFINE u == c \o t
<1>1. /\ Len(s) \in Nat \ {0} /\ Len(t) = Len(s) - 1 /\ DOMAIN s = 1..Len(s)
      /\ DOMAIN t = 1..(Len(s) - 1) /\ t \in StepSeq
      /\ \A i \in 1..(Len(s) - 1) : t[i] = s[i + 1]
  BY TailIs
<1>2. c \in StepSeq
  BY CommandsTyped DEF Names, Logins
<1>3. DOMAIN c = 1..2 /\ Len(c) = 2 /\ c[1] = Send("ACCT") /\ c[2] = Read("ACCT")
  BY DEF Cmd
<1> HIDE DEF t, c
<1>4. /\ DOMAIN u = 1..(Len(s) + 1) /\ u \in StepSeq
      /\ u[1] = Send("ACCT") /\ u[2] = Read("ACCT")
      /\ \A i \in 1..(Len(s) - 1) : u[i + 2] = t[i]
  <2>1. /\ Len(u) = Len(c) + Len(t) /\ DOMAIN u = 1..(Len(c) + Len(t)) /\ u \in StepSeq
        /\ \A i \in 1..Len(c) : u[i] = c[i]
        /\ \A i \in 1..Len(t) : u[i + Len(c)] = t[i]
    <3>1. c \in StepSeq /\ t \in StepSeq
      BY <1>1, <1>2
    <3> QED
      BY <3>1 DEF StepSeq
  <2> HIDE DEF u
  <2>2. DOMAIN u = 1..(Len(s) + 1) /\ \A i \in 1..(Len(s) - 1) : u[i + 2] = t[i]
    <3>1. Len(c) = 2 /\ Len(t) = Len(s) - 1 /\ Len(c) + Len(t) = Len(s) + 1
      BY <1>1, <1>3
    <3> QED
      BY <2>1, <3>1
  <2>3. u[1] = c[1] /\ u[2] = c[2]
    BY <1>3, <2>1
  <2> QED
    BY <1>3, <2>1, <2>2, <2>3
<1> HIDE DEF u
<1>5. IsSend(u[1], "ACCT") /\ IsRead(u[2], "ACCT")
  BY <1>4 DEF IsSend, IsRead, Send, Read
<1>6. \A i \in 2..Len(s) : u[i + 1] = s[i]
  <2> SUFFICES ASSUME NEW i \in 2..Len(s) PROVE u[i + 1] = s[i]
    OBVIOUS
  <2>1. i - 1 \in 1..(Len(s) - 1) /\ (i - 1) + 2 = i + 1 /\ (i - 1) + 1 = i
    BY <1>1
  <2> QED
    BY <1>1, <1>4, <2>1
<1>7. \A k \in Nat : k >= 2 => Nth(u, k + 1) = Nth(s, k)
  BY <1>1, <1>4, <1>6 DEF Nth
<1>8. Linked(s) /\ Stage(s, on) /\ Fits(s[1], Nth(s, 2), Nth(s, 3))
  BY NextIs DEF Program
<1>9. Linked(u)
  <2> SUFFICES ASSUME NEW i \in DOMAIN u PROVE Fits(u[i], Nth(u, i + 1), Nth(u, i + 2))
    BY DEF Linked
  <2>1. CASE i = 1
    <3>1. Nth(u, 2) = u[2]
      BY <1>1, <1>4 DEF Nth
    <3>2. Fits(u[1], u[2], Nth(u, 3))
      BY <1>5 DEF Fits, IsSend, IsRead, Reads, Sends, LogsIn, Quiets, Closers, Transfers, Logins
    <3> QED
      BY <2>1, <3>1, <3>2
  <2>2. CASE i = 2
    <3>1. Nth(u, 3) = Nth(s, 2) /\ Nth(u, 4) = Nth(s, 3)
      <4>1. 2 + 1 = 3 /\ 3 + 1 = 4 /\ 2 \in Nat /\ 3 \in Nat /\ 2 >= 2 /\ 3 >= 2
        OBVIOUS
      <4> QED
        BY <1>7, <4>1
    <3>2. Fits(u[2], Nth(s, 2), Nth(s, 3))
      BY <1>5, <1>8 DEF Fits, IsRead, Reads, LogsIn, Quiets, Closers, Transfers, Logins
    <3> QED
      BY <2>2, <3>1, <3>2
  <2>3. CASE i > 2
    <3> DEFINE k == i - 1
    <3>1. k \in DOMAIN s /\ k \in 2..Len(s) /\ k + 1 = i
      BY <1>1, <1>4, <2>3
    <3>2. u[i] = s[k]
      BY <1>6, <3>1
    <3>3. Nth(u, i + 1) = Nth(s, k + 1) /\ Nth(u, i + 2) = Nth(s, k + 2)
      <4>1. k + 1 \in Nat /\ k + 2 \in Nat /\ k + 1 >= 2 /\ k + 2 >= 2 /\ k + 1 + 1 = i + 1 /\ k + 2 + 1 = i + 2
        BY <1>1, <3>1
      <4> QED
        BY <1>7, <4>1
    <3> QED
      BY <1>8, <3>1, <3>2, <3>3 DEF Linked
  <2> QED
    BY <1>1, <1>4, <2>1, <2>2, <2>3
<1>10. Connecting(s, on)
  <2>1. s[1][1] = "read"
    BY DEF Reads
  <2>2. ~Operates(s[1])
    BY DEF Reads, Operates, Operative, Transfers, Types
  <2>3. ~Working(s, on)
    BY <1>1, <2>2 DEF Working
  <2> QED
    BY <1>8, <2>1, <2>3, StageIs
<1>11. Stage(u, on)
  <2>1. PICK j \in DOMAIN s : ConnectsTo(s, j)
    BY <1>10 DEF Connecting
  <2>2. j # 1 /\ ~on
    BY <1>10, <2>1 DEF ConnectsTo, Connecting, Reads
  <2>3. j \in 2..Len(s) /\ j + 1 \in DOMAIN u
    BY <1>1, <1>4, <2>2
  <2>4. Connects(u[1]) /\ Connects(u[2])
    BY <1>5 DEF IsSend, IsRead, Connects, LogsIn, Logins
  <2>5. \A i \in DOMAIN u : i > 2 => i - 1 \in 2..Len(s) /\ u[i] = s[i - 1]
    <3> SUFFICES ASSUME NEW i \in DOMAIN u, i > 2 PROVE i - 1 \in 2..Len(s) /\ u[i] = s[i - 1]
      OBVIOUS
    <3>1. i - 1 \in 2..Len(s) /\ (i - 1) + 1 = i
      BY <1>1, <1>4
    <3> QED
      BY <1>6, <3>1
  <2>6. \A i \in DOMAIN u : i < j + 1 => Connects(u[i])
    BY <1>1, <1>4, <2>1, <2>3, <2>4, <2>5, SMTT(30) DEF ConnectsTo
  <2>7. \A i \in DOMAIN u : j + 1 < i => Operates(u[i])
    <3> SUFFICES ASSUME NEW i \in DOMAIN u, j + 1 < i PROVE Operates(u[i])
      OBVIOUS
    <3>1. i > 2 /\ i - 1 \in DOMAIN s /\ j < i - 1
      BY <1>1, <1>4, <2>3
    <3> QED
      BY <2>1, <2>5, <3>1 DEF ConnectsTo
  <2>8. u[j + 1][1] = "connected"
    BY <1>6, <2>1, <2>3 DEF ConnectsTo
  <2> QED
    BY <2>2, <2>3, <2>6, <2>7, <2>8 DEF Stage, Connecting, ConnectsTo
<1>12. \A i \in DOMAIN u : Holds(u[i]) \/ u[i][1] = "listen" => o \in {"list", "retr", "stor"}
  <2>1. \A i \in 1..2 : ~Holds(u[i]) /\ u[i][1] # "listen"
    BY <1>5 DEF IsSend, IsRead, Holds, Transfers, Closers
  <2>2. \A i \in DOMAIN u : i > 2 => i - 2 \in DOMAIN t /\ u[i] = t[i - 2] /\ i - 1 \in DOMAIN s /\ u[i] = s[i - 1]
    <3> SUFFICES ASSUME NEW i \in DOMAIN u, i > 2
                 PROVE  i - 2 \in DOMAIN t /\ u[i] = t[i - 2] /\ i - 1 \in DOMAIN s /\ u[i] = s[i - 1]
      OBVIOUS
    <3>1. i - 1 \in 2..Len(s) /\ (i - 1) + 1 = i /\ i - 2 \in 1..(Len(s) - 1) /\ (i - 2) + 2 = i
      BY <1>1, <1>4
    <3> QED
      BY <1>1, <1>4, <1>6, <3>1
  <2> QED
    BY <1>1, <1>4, <2>1, <2>2 DEF Program
<1>13. TypesAhead(u, b)
  <2>1. TypesAhead(t, b)
    BY TypesAheadTail DEF t, Reads, Sends
  <2>2. \A i \in DOMAIN c : ~Carries(c[i])
    BY <1>3 DEF Carries, Sends, Send, Read
  <2> QED
    BY <1>1, <1>2, <2>1, <2>2, TypesAheadJoin DEF u
<1>14. Nth(u, 1) = Send("ACCT")
  BY <1>1, <1>4 DEF Nth
<1> QED
  BY <1>4, <1>9, <1>11, <1>12, <1>13, <1>14 DEF Program, u, t, c

\* The call has to connect again.
LEMMA Reconnect ==
  ASSUME NEW s \in StepSeq, s # <<>>, NEW on \in BOOLEAN, NEW now \in BOOLEAN, NEW o,
         Program(s, on, o), s[1][1] = "alive", secure \in BOOLEAN,
         NEW b \in BOOLEAN, TypesAhead(s, b)
  PROVE  LET u == ConnectSteps \o Tail(s)
         IN  u \in StepSeq /\ u # <<>> /\ Program(u, now, o) /\ TypesAhead(u, b) /\ u[1][1] = "open"
<1> DEFINE t == Tail(s)
<1>1. Linked(s) /\ Stage(s, on) /\ Fits(s[1], Nth(s, 2), Nth(s, 3))
  BY NextIs DEF Program
<1>2. /\ t \in StepSeq /\ Len(s) \in Nat \ {0} /\ DOMAIN s = 1..Len(s) /\ DOMAIN t = 1..(Len(s) - 1)
      /\ \A i \in 1..(Len(s) - 1) : t[i] = s[i + 1]
      /\ t # <<>> => t[1] = Nth(s, 2) /\ t[1] \in Kinds \X Names
  BY TailIs
<1>3. Linked(t)
  BY <1>1, LinkedTail
<1>4. t # <<>> => t[1][1] \in Quiets /\ ~LogsIn(t[1])
  <2> SUFFICES ASSUME t # <<>> PROVE t[1][1] \in Quiets /\ ~LogsIn(t[1])
    OBVIOUS
  <2>1. t[1] = Nth(s, 2) /\ t[1][1] \in Kinds
    BY <1>2
  <2>2. Nth(s, 2)[1] \in Quiets \cup {"none"} /\ ~LogsIn(Nth(s, 2))
    BY <1>1 DEF Fits, LogsIn
  <2> QED
    BY <2>1, <2>2 DEF Kinds, Quiets, Closers
<1>5. \A i \in DOMAIN s : i > 1 => Operates(s[i])
  BY <1>1, StageIs
<1>6. \A i \in DOMAIN t : Operates(t[i])
  BY <1>2, <1>5
<1>7. \A i \in DOMAIN t : Holds(t[i]) \/ t[i][1] = "listen" => o \in {"list", "retr", "stor"}
  BY <1>2 DEF Program
<1>8. TypesAhead(t, b)
  BY TypesAheadTail DEF Sends
<1> HIDE DEF t
<1>9. /\ ConnectSteps \o t \in StepSeq /\ ConnectSteps \o t # <<>>
      /\ (ConnectSteps \o t)[1][1] = "open"
      /\ Program(ConnectSteps \o t, now, o)
  BY <1>2, <1>3, <1>4, <1>6, <1>7, ProgramConnect
<1>10. TypesAhead(ConnectSteps \o t, b)
  <2>1. ConnectSteps \in StepSeq /\ \A i \in DOMAIN ConnectSteps : ~Carries(ConnectSteps[i])
    BY ConnectStepsAre DEF Idle
  <2> QED
    BY <1>2, <1>8, <2>1, TypesAheadJoin
<1> QED
  BY <1>9, <1>10 DEF t

(***************************************************************************)
(* What is on its way between the client and the server.                   *)
(***************************************************************************)

Commands == [cmd : Names, own : BOOLEAN]

\* No transfer is an empty command.
LEMMA NoTransferIs == NoTransfer \in Commands /\ NoTransfer.cmd = "none" /\ NoTransfer.own
BY DEF NoTransfer, Commands, Names

\* No reply is an empty reply, and every code makes one.
LEMMA NoReplyIs ==
  /\ NoReply \in Replies /\ NoReply.code = 0 /\ NoReply.own
  /\ \A digit \in Codes : LET r == [NoReply EXCEPT !.code = digit]
                          IN  r \in Replies /\ r.code = digit /\ r.own
<1>1. NoReply \in Replies /\ NoReply.code = 0 /\ NoReply.own
  BY DEF NoReply, Replies, Codes
<1>2. ASSUME NEW digit \in Codes
      PROVE  LET r == [NoReply EXCEPT !.code = digit]
             IN  r \in Replies /\ r.code = digit /\ r.own
  BY <1>1 DEF Replies
<1> QED
  BY <1>1, <1>2

\* A command of a call that is over keeps its name and is no call's own.
LEMMA StaleIs ==
  ASSUME NEW c \in Commands
  PROVE  /\ Stale(c) \in Commands /\ Stale(c).cmd = c.cmd
         /\ c = NoTransfer => Stale(c) = c
         /\ c # NoTransfer => ~Stale(c).own /\ Stale(c) # NoTransfer
<1>1. CASE c = NoTransfer
  BY <1>1 DEF Stale
<1>2. CASE c # NoTransfer
  <2>1. Stale(c) = [c EXCEPT !.own = FALSE]
    BY <1>2 DEF Stale
  <2>2. [c EXCEPT !.own = FALSE] \in Commands
    BY DEF Commands
  <2>3. [c EXCEPT !.own = FALSE].cmd = c.cmd /\ ~[c EXCEPT !.own = FALSE].own
    BY DEF Commands
  <2> QED
    BY <1>2, <2>1, <2>2, <2>3, NoTransferIs
<1> QED
  BY <1>1, <1>2

\* A reply to a call that is over keeps its code; a goodbye belongs to no call.
LEMMA StaleReplyIs ==
  ASSUME NEW r \in Replies
  PROVE  StaleReply(r) \in Replies /\ StaleReply(r).code = r.code /\ (r.code = 421 => StaleReply(r) = r)
<1>1. CASE r.code = 421
  BY <1>1 DEF StaleReply
<1>2. CASE r.code # 421
  BY <1>2 DEF StaleReply, Replies
<1> QED
  BY <1>1, <1>2

\* The commands on their way when a call ends: the same, and no longer its own.
LEMMA OvertakenIs ==
  ASSUME toServer \in Seq(Commands)
  PROVE  /\ Overtaken \in Seq(Commands) /\ Len(Overtaken) = Len(toServer)
         /\ DOMAIN Overtaken = DOMAIN toServer
         /\ \A i \in DOMAIN toServer : Overtaken[i] = Stale(toServer[i])
         /\ \A i \in DOMAIN toServer : Overtaken[i].cmd = toServer[i].cmd
<1>1. DOMAIN toServer = 1..Len(toServer) /\ Len(toServer) \in Nat /\ \A i \in DOMAIN toServer : toServer[i] \in Commands
  OBVIOUS
<1>2. \A i \in DOMAIN toServer : Stale(toServer[i]) \in Commands /\ Stale(toServer[i]).cmd = toServer[i].cmd
  BY <1>1, StaleIs
<1>3. /\ Overtaken = [i \in 1..Len(toServer) |-> Stale(toServer[i])]
  BY <1>1 DEF Overtaken
<1>4. Overtaken \in Seq(Commands) /\ Len(Overtaken) = Len(toServer)
  BY <1>1, <1>2, <1>3, SeqDef, LenProperties
<1> QED
  BY <1>1, <1>2, <1>3, <1>4

StaleReplies == [i \in DOMAIN toClient |-> StaleReply(toClient[i])]
\* The replies on their way when a call ends: the same, and no longer its own.
LEMMA StaleRepliesAre ==
  ASSUME toClient \in Seq(Replies)
  PROVE  /\ StaleReplies \in Seq(Replies) /\ Len(StaleReplies) = Len(toClient)
         /\ DOMAIN StaleReplies = DOMAIN toClient
         /\ \A i \in DOMAIN toClient : /\ StaleReplies[i].code = toClient[i].code
                                       /\ toClient[i].code = 421 => StaleReplies[i] = toClient[i]
<1>1. DOMAIN toClient = 1..Len(toClient) /\ Len(toClient) \in Nat /\ \A i \in DOMAIN toClient : toClient[i] \in Replies
  OBVIOUS
<1>2. \A i \in DOMAIN toClient : /\ StaleReply(toClient[i]) \in Replies /\ StaleReply(toClient[i]).code = toClient[i].code
                                 /\ toClient[i].code = 421 => StaleReply(toClient[i]) = toClient[i]
  BY <1>1, StaleReplyIs
<1>3. /\ StaleReplies = [i \in 1..Len(toClient) |-> StaleReply(toClient[i])]
  BY <1>1 DEF StaleReplies
<1>4. StaleReplies \in Seq(Replies) /\ Len(StaleReplies) = Len(toClient)
  BY <1>1, <1>2, <1>3, SeqDef, LenProperties
<1> QED
  BY <1>1, <1>2, <1>3, <1>4

\* The next step.
LEMMA AtIs ==
  ASSUME todo \in StepSeq, NEW what, At(what)
  PROVE  /\ todo # <<>> /\ Head(todo) = todo[1] /\ Nth(todo, 1) = todo[1] /\ todo[1][1] = what
         /\ todo[1] \in Kinds \X Names /\ Head(todo)[2] = todo[1][2] /\ todo[1][2] \in Names
         /\ Tail(todo) \in StepSeq
BY FirstIs, TailIs DEF At

(***************************************************************************)
(* Every step leaves a program.                                            *)
(***************************************************************************)

\* A step that does not connect leaves a program.
LEMMA GoOnProgram ==
  ASSUME ClientType, ProgramInv, todo # <<>>, todo' = Tail(todo), UNCHANGED <<op, connected>>,
         todo[1][1] \notin {"alive", "open", "connected"}
  PROVE  todo' \in StepSeq /\ ProgramInv'
<1>1. todo \in StepSeq /\ connected \in BOOLEAN /\ Program(todo, connected, op)
  BY DEF ClientType, StepSeq, ProgramInv
<1>2. Program(Tail(todo), connected, op) /\ Tail(todo) \in StepSeq
  BY <1>1, ProgramGoesOn, TailIs
<1> QED
  BY <1>2 DEF ProgramInv

\* A call that ends leaves the empty program.
LEMMA EndProgram ==
  ASSUME todo' = <<>>, connected' \in BOOLEAN
  PROVE  todo' \in StepSeq /\ ProgramInv'
<1>1. Program(<<>>, connected', op')
  BY ProgramEnd
<1>2. << >> \in StepSeq
  BY DEF StepSeq
<1> QED
  BY <1>1, <1>2 DEF ProgramInv

\* Where neither the type nor the way to the transfer is next, the type is ahead.
LEMMA AheadIs ==
  ASSUME ClientType, TypeInv, todo # <<>>, ~Prepares(todo[1]), ~Carries(todo[1])
  PROVE  TypesAhead(todo, wanted)
<1> SUFFICES ASSUME NEW i \in DOMAIN todo, Carries(todo[i]) PROVE TypeIsAhead(todo, i, wanted)
  BY DEF TypesAhead
<1>1. i \in Nat /\ i >= 1
  BY DEF ClientType
<1>2. 1 \in 1..(i - 1)
  BY <1>1
<1> QED
  BY <1>2 DEF TypeInv

\* How an action leaves the rest of the call.
Moves ==
  \/ todo' = <<>>
  \/ todo # <<>> /\ todo' = Tail(todo) /\ wanted' = wanted
  \/ TypesAhead(todo', wanted')
Goes == todo' \in StepSeq /\ ProgramInv' /\ Moves

\* A call begins with a program.
LEMMA StartGoes ==
  ASSUME ClientInv, NEW o \in Operations, Start(o)
  PROVE  Goes /\ (todo' # <<>> => todo'[1][1] \in Entries) /\ wanted' \in BOOLEAN
<1>1. secure \in BOOLEAN /\ passive \in BOOLEAN /\ connected \in BOOLEAN /\ wanted \in BOOLEAN
  BY DEF ClientInv, ClientType
<1>2. wanted' \in BOOLEAN /\ todo' = Call(o, wanted') /\ op' = o /\ connected' = connected
  <2>1. CASE o \in {"retr", "stor"}
    BY <2>1 DEF Start, client
  <2>2. CASE o \notin {"retr", "stor"}
    BY <1>1, <2>2 DEF Start, client
  <2> QED
    BY <2>1, <2>2
<1>3. \A b \in BOOLEAN :
         /\ Call(o, b) \in StepSeq /\ (Call(o, b) # <<>> => Call(o, b)[1][1] \in Entries)
         /\ Program(Call(o, b), connected, o) /\ TypesAhead(Call(o, b), b)
  BY <1>1, CallIs, ClientAssumption
<1>4. /\ todo' \in StepSeq /\ (todo' # <<>> => todo'[1][1] \in Entries)
      /\ Program(todo', connected', op') /\ TypesAhead(todo', wanted')
  BY <1>2, <1>3
<1> QED
  BY <1>2, <1>4 DEF Goes, Moves, ProgramInv

\* A step that is done leaves the rest of the program.
LEMMA GoOnGoes ==
  ASSUME ClientInv, NEW what \in Kinds \ {"alive", "open", "connected"}, At(what), todo' = Tail(todo),
         UNCHANGED <<op, connected, wanted>>
  PROVE  Goes
<1>1. ClientType /\ ProgramInv /\ todo \in StepSeq
  BY DEF ClientInv, ClientType, StepSeq
<1>2. todo # <<>> /\ todo[1][1] = what
  BY <1>1, AtIs
<1>3. todo' \in StepSeq /\ ProgramInv'
  BY <1>1, <1>2, GoOnProgram
<1> QED
  BY <1>2, <1>3 DEF Goes, Moves

\* A call that ends leaves the empty program.
LEMMA EndGoes ==
  ASSUME todo' = <<>>, connected' \in BOOLEAN
  PROVE  Goes
BY EndProgram DEF Goes, Moves

\* A call that has only a late reply to read has a program.
LEMMA LastGoes ==
  ASSUME NEW c \in {"end2", "late"}, todo' = <<Read(c)>>, connected' = TRUE
  PROVE  Goes /\ Nth(todo', 1) = Read(c) /\ Nth(todo', 2) = Absent
<1>1. Program(<<Read(c)>>, TRUE, op') /\ <<Read(c)>> \in StepSeq
  BY ProgramLast
<1>2. \A i \in DOMAIN <<Read(c)>> : ~Carries(<<Read(c)>>[i])
  BY DEF Carries, Sends, Read
<1>3. Nth(<<Read(c)>>, 1) = Read(c) /\ Nth(<<Read(c)>>, 2) = Absent
  BY DEF Nth
<1> QED
  BY <1>1, <1>2, <1>3 DEF Goes, Moves, TypesAhead, ProgramInv

\* IsConnected leaves a program: that of the call, or FTPConnect before it.
LEMMA IsConnectedGoes ==
  ASSUME ClientInv, IsConnected
  PROVE  Goes
<1>1. /\ ClientType /\ Program(todo, connected, op) /\ todo \in StepSeq /\ TypeInv
      /\ secure \in BOOLEAN /\ connected \in BOOLEAN /\ wanted \in BOOLEAN
  BY DEF ClientInv, ClientType, StepSeq, ProgramInv
<1>2. todo # <<>> /\ todo[1][1] = "alive"
  BY <1>1, AtIs DEF IsConnected
<1> DEFINE alive == connected /\ (link = "up" \/ toClient' # <<>>)
<1>3. op' = op /\ wanted' = wanted /\ connected' \in BOOLEAN
  <2>1. CASE connected /\ ~alive
    BY <2>1 DEF IsConnected, CloseLink
  <2>2. CASE ~(connected /\ ~alive)
    BY <1>1, <2>2 DEF IsConnected
  <2> QED
    BY <2>1, <2>2
<1>4. CASE alive
  <2>1. todo' = Tail(todo) /\ connected' = TRUE
    BY <1>1, <1>4 DEF IsConnected
  <2>2. Program(Tail(todo), TRUE, op) /\ Tail(todo) \in StepSeq
    <3>1. TRUE <=> (connected \/ todo[1][1] = "connected") /\ todo[1][1] # "open"
      BY <1>2, <1>4
    <3> QED
      BY <1>1, <1>2, <1>4, <3>1, ProgramTail, TailIs
  <2> QED
    BY <1>2, <1>3, <2>1, <2>2 DEF Goes, Moves, ProgramInv
<1>5. CASE ~alive /\ op = "noop"
  <2>1. todo' = <<>>
    BY <1>5 DEF IsConnected
  <2> QED
    BY <1>3, <2>1, EndGoes
<1>6. CASE ~alive /\ op # "noop"
  <2>1. todo' = ConnectSteps \o Tail(todo)
    BY <1>6 DEF IsConnected
  <2>2. TypesAhead(todo, wanted)
    BY <1>1, <1>2, AheadIs DEF Prepares, Carries, Sends
  <2>3. todo' \in StepSeq /\ Program(todo', connected', op) /\ TypesAhead(todo', wanted)
    BY <1>1, <1>2, <1>3, <2>1, <2>2, Reconnect
  <2> QED
    BY <1>3, <2>3 DEF Goes, Moves, ProgramInv
<1> QED
  BY <1>4, <1>5, <1>6

\* Opening the connection leaves a program.
LEMMA OpenGoes ==
  ASSUME ClientInv, Open
  PROVE  Goes
<1>1. /\ Program(todo, connected, op) /\ todo \in StepSeq /\ connected \in BOOLEAN
  BY DEF ClientInv, ClientType, StepSeq, ProgramInv
<1>2. todo # <<>> /\ todo[1][1] = "open"
  BY <1>1, AtIs DEF Open
<1>3. op' = op /\ wanted' = wanted /\ connected' = FALSE
  BY DEF Open, CloseLink
<1>4. CASE todo' = Tail(todo)
  <2>1. Program(Tail(todo), FALSE, op) /\ Tail(todo) \in StepSeq
    <3>1. FALSE <=> (connected \/ todo[1][1] = "connected") /\ todo[1][1] # "open"
      BY <1>2
    <3> QED
      BY <1>1, <1>2, <3>1, ProgramTail, TailIs
  <2> QED
    BY <1>2, <1>3, <1>4, <2>1 DEF Goes, Moves, ProgramInv
<1>5. CASE todo' = <<>>
  BY <1>3, <1>5, EndGoes
<1> QED
  BY <1>4, <1>5 DEF Open, GoOn, Fail

\* Once m_connected is set the rest works over the connection.
LEMMA ConnectedGoes ==
  ASSUME ClientInv, Connected
  PROVE  Goes
<1>1. /\ Program(todo, connected, op) /\ todo \in StepSeq /\ connected \in BOOLEAN
  BY DEF ClientInv, ClientType, StepSeq, ProgramInv
<1>2. todo # <<>> /\ todo[1][1] = "connected"
  BY <1>1, AtIs DEF Connected
<1>3. op' = op /\ wanted' = wanted /\ connected' = TRUE /\ todo' = Tail(todo)
  BY DEF Connected, GoOn
<1>4. Program(Tail(todo), TRUE, op) /\ Tail(todo) \in StepSeq
  <2>1. TRUE <=> (connected \/ todo[1][1] = "connected") /\ todo[1][1] # "open"
    BY <1>2
  <2> QED
    BY <1>1, <1>2, <2>1, ProgramTail, TailIs
<1> QED
  BY <1>2, <1>3, <1>4 DEF Goes, Moves, ProgramInv

\* The call works over the connection where its next step is not one of FTPConnect.
LEMMA WorkingIs ==
  ASSUME ClientType, ProgramInv, todo # <<>>, ~Connects(todo[1]),
         todo[1][1] \notin {"alive", "quit", "connected"}
  PROVE  connected /\ Working(todo, connected) /\ Operates(todo[1])
<1>1. todo \in StepSeq /\ connected \in BOOLEAN /\ Stage(todo, connected)
  BY DEF ClientType, StepSeq, ProgramInv, Program
<1>2. 1 \in DOMAIN todo /\ \A j \in DOMAIN todo : j \in Nat /\ j >= 1
  <2>1. Len(todo) \in Nat \ {0} /\ DOMAIN todo = 1..Len(todo)
    BY <1>1, TailIs
  <2> QED
    BY <2>1
<1>3. ~Connecting(todo, connected)
  BY <1>2 DEF Connecting, ConnectsTo
<1>4. Working(todo, connected)
  BY <1>1, <1>3, StageIs
<1> QED
  BY <1>2, <1>4 DEF Working

\* ... and connects where it is not one of the calls over a connection.
LEMMA ConnectingIs ==
  ASSUME ClientType, ProgramInv, todo # <<>>, ~Operates(todo[1]), todo[1][1] \notin {"alive", "quit"}
  PROVE  /\ Connecting(todo, connected) /\ (Connects(todo[1]) \/ todo[1][1] = "connected")
         /\ todo[1][1] # "open" => ~connected
<1>1. todo \in StepSeq /\ connected \in BOOLEAN /\ Stage(todo, connected)
  BY DEF ClientType, StepSeq, ProgramInv, Program
<1>2. 1 \in DOMAIN todo /\ \A j \in DOMAIN todo : j \in Nat /\ j >= 1
  <2>1. Len(todo) \in Nat \ {0} /\ DOMAIN todo = 1..Len(todo)
    BY <1>1, TailIs
  <2> QED
    BY <2>1
<1>3. ~Working(todo, connected)
  BY <1>2 DEF Working
<1>4. Connecting(todo, connected)
  BY <1>1, <1>3, StageIs
<1> QED
  BY <1>2, <1>4 DEF Connecting, ConnectsTo

\* A reply leaves a program: the rest, what ACCT adds, a late reply, or the end.
LEMMA ReadReplyGoes ==
  ASSUME ClientInv, ReadReply
  PROVE  Goes
<1>1. /\ ClientType /\ ProgramInv /\ Program(todo, connected, op) /\ todo \in StepSeq /\ TypeInv
      /\ connected \in BOOLEAN /\ wanted \in BOOLEAN
  BY DEF ClientInv, ClientType, StepSeq, ProgramInv
<1>2. todo # <<>> /\ todo[1][1] = "read" /\ Head(todo)[2] = todo[1][2]
  BY <1>1, AtIs DEF ReadReply
<1> DEFINE c == todo[1][2]
<1>3. op' = op /\ wanted' = wanted /\ connected' = connected
  BY DEF ReadReply
<1>4. \/ \E r \in Replies : todo' = Rest(c, r)
      \/ todo' = Again /\ c = "end"
      \/ todo' = <<>>
  BY <1>2 DEF ReadReply, Refused, Fail
<1>5. CASE todo' = <<>>
  BY <1>1, <1>3, <1>5, EndGoes
<1>6. CASE todo' = Again /\ c = "end"
  <2>1. ~Connects(todo[1])
    BY <1>2, <1>6 DEF Connects, LogsIn, Logins, Settings
  <2>2. connected
    BY <1>1, <1>2, <2>1, WorkingIs
  <2> QED
    BY <1>1, <1>3, <1>6, <2>2, LastGoes DEF Again
<1>7. ASSUME NEW r \in Replies, todo' = Rest(c, r) PROVE Goes
  <2>1. CASE c = "USER" /\ r.code = 2
    <3>1. todo' = SubSeq(todo, 4, Len(todo))
      BY <1>7, <2>1 DEF Rest
    <3>2. Reads(todo[1], {"USER"})
      BY <1>2, <2>1 DEF Reads
    <3>3. TypesAhead(todo, wanted)
      BY <1>1, <1>2, <3>2, AheadIs DEF Prepares, Carries, Sends, Reads, Types
    <3>4. todo' \in StepSeq /\ Program(todo', connected, op) /\ TypesAhead(todo', wanted)
      BY <1>1, <1>2, <3>1, <3>2, <3>3, SkipPass
    <3> QED
      BY <1>3, <3>4 DEF Goes, Moves, ProgramInv
  <2>2. CASE c = "PASS" /\ r.code = 3
    <3>1. todo' = Cmd("ACCT") \o Tail(todo)
      BY <1>7, <2>2 DEF Rest
    <3>2. Reads(todo[1], {"PASS"})
      BY <1>2, <2>2 DEF Reads
    <3>3. TypesAhead(todo, wanted)
      BY <1>1, <1>2, <3>2, AheadIs DEF Prepares, Carries, Sends, Reads, Types
    <3>4. todo' \in StepSeq /\ Program(todo', connected, op) /\ TypesAhead(todo', wanted)
      BY <1>1, <1>2, <3>1, <3>2, <3>3, AskAcct
    <3> QED
      BY <1>3, <3>4 DEF Goes, Moves, ProgramInv
  <2>3. CASE ~(c = "USER" /\ r.code = 2) /\ ~(c = "PASS" /\ r.code = 3)
    <3>1. todo' = Tail(todo)
      BY <1>7, <2>3 DEF Rest
    <3>2. todo' \in StepSeq /\ ProgramInv'
      BY <1>1, <1>2, <1>3, <3>1, GoOnProgram
    <3> QED
      BY <1>2, <1>3, <3>1, <3>2 DEF Goes, Moves
  <2> QED
    BY <2>1, <2>2, <2>3
<1> QED
  BY <1>4, <1>5, <1>6, <1>7

\* Disconnect ends the program.
LEMMA DisconnectGoes ==
  ASSUME ClientInv, Disconnect
  PROVE  Goes /\ todo' = <<>>
<1>1. /\ Stage(todo, connected) /\ todo \in StepSeq /\ connected \in BOOLEAN
  BY DEF ClientInv, ClientType, StepSeq, ProgramInv, Program
<1>2. todo # <<>> /\ todo[1][1] = "quit"
  BY <1>1, AtIs DEF Disconnect
<1>3. Len(todo) = 1
  BY <1>1, <1>2, StageIs
<1>4. Tail(todo) \in StepSeq /\ Len(Tail(todo)) = 0
  BY <1>1, <1>2, <1>3, TailIs
<1>5. todo' = <<>> /\ connected' = FALSE
  BY <1>4, EmptySeq DEF Disconnect, GoOn, CloseLink, StepSeq
<1> QED
  BY <1>5, EndGoes

\* A transfer that was cut leaves its late reply to read.
LEMMA LateGoes ==
  ASSUME ClientInv, ReceiveCut \/ SendCut
  PROVE  Goes
<1>1. /\ ClientType /\ ProgramInv /\ todo \in StepSeq /\ connected \in BOOLEAN
  BY DEF ClientInv, ClientType, StepSeq
<1>2. At("receive") \/ At("transmit")
  BY DEF ReceiveCut, SendCut, Data
<1>3. todo # <<>> /\ todo[1][1] \in {"receive", "transmit"}
  BY <1>1, <1>2, AtIs
<1>4. connected
  BY <1>1, <1>3, WorkingIs DEF Connects, LogsIn
<1>5. connected' = connected
  BY DEF ReceiveCut, SendCut, Data
<1>6. todo' = <<>> \/ todo' = <<Read("late")>>
  BY DEF ReceiveCut, SendCut
<1>7. connected' = TRUE
  BY <1>1, <1>4, <1>5
<1> QED
  BY <1>6, <1>7, EndGoes, LastGoes

\* OnReturn leaves no program.
LEMMA ReturnGoes ==
  ASSUME ClientInv, Return
  PROVE  Goes
<1>1. connected' \in BOOLEAN
  BY DEF ClientInv, ClientType, Return
<1>2. todo' = <<>>
  BY DEF Return
<1> QED
  BY <1>1, <1>2, EndGoes

\* Every other step goes on, or ends the call.
LEMMA StepsGo ==
  ASSUME ClientInv,
         \/ ConnectSSL \/ SendCommand \/ WaitForConnect \/ CheckAborted \/ OpenData \/ OpenDataFails
         \/ Lines \/ LinesCut \/ ReceiveAll \/ SendAll
  PROVE  Goes
<1>1. connected \in BOOLEAN
  BY DEF ClientInv, ClientType
<1>2. UNCHANGED <<op, connected, wanted>>
  <2>1. CASE ConnectSSL
    BY <2>1 DEF ConnectSSL, client
  <2>2. CASE SendCommand
    BY <2>2 DEF SendCommand
  <2>3. CASE WaitForConnect
    BY <2>3 DEF WaitForConnect
  <2>4. CASE CheckAborted
    BY <2>4 DEF CheckAborted
  <2>5. CASE OpenData \/ OpenDataFails
    BY <2>5 DEF OpenData, OpenDataFails
  <2>6. CASE Lines \/ LinesCut \/ ReceiveAll \/ SendAll
    BY <2>6 DEF Lines, LinesCut, ReceiveAll, SendAll, Data
  <2> QED
    BY <2>1, <2>2, <2>3, <2>4, <2>5, <2>6
<1>3. /\ todo' = Tail(todo) \/ todo' = <<>>
      /\ At("tls") \/ At("send") \/ At("listen") \/ At("check") \/ At("data") \/ At("lines")
           \/ At("receive") \/ At("transmit")
  <2>1. CASE ConnectSSL
    BY <2>1 DEF ConnectSSL, GoOn, Fail
  <2>2. CASE SendCommand
    BY <2>2 DEF SendCommand, GoOn
  <2>3. CASE WaitForConnect
    BY <2>3 DEF WaitForConnect, GoOn, Fail
  <2>4. CASE CheckAborted
    BY <2>4 DEF CheckAborted, GoOn, Fail
  <2>5. CASE OpenData \/ OpenDataFails
    BY <2>5 DEF OpenData, OpenDataFails, GoOn, Fail
  <2>6. CASE Lines \/ LinesCut \/ ReceiveAll \/ SendAll
    BY <2>6 DEF Lines, LinesCut, ReceiveAll, SendAll, Data, GoOn, Fail
  <2> QED
    BY <2>1, <2>2, <2>3, <2>4, <2>5, <2>6
<1>4. CASE todo' = <<>>
  BY <1>1, <1>2, <1>4, EndGoes
<1>5. CASE todo' = Tail(todo)
  BY <1>2, <1>3, <1>5, GoOnGoes DEF Kinds, Quiets, Closers
<1> QED
  BY <1>3, <1>4, <1>5

\* The steps that leave the call where it is.
Stays == UNCHANGED <<todo, op, wanted, connected>>

\* The server and Abort leave the program alone.
LEMMA OthersStay ==
  ASSUME Abort \/ Server \/ UNCHANGED vars
  PROVE  Stays
<1>1. CASE Abort
  BY <1>1 DEF Abort, Stays, call
<1>2. CASE Answer
  BY <1>2 DEF Answer, Stays, call, client
<1>3. CASE FinishTransfer
  BY <1>3 DEF FinishTransfer, Stays, call
<1>4. CASE Drop
  BY <1>4 DEF Drop, Stays, call
<1>5. CASE UNCHANGED vars
  BY <1>5 DEF vars, Stays, call, client
<1> QED
  BY <1>1, <1>2, <1>3, <1>4, <1>5 DEF Server

\* Every step of the client leaves a program.
LEMMA ClientGoes ==
  ASSUME ClientInv, Client
  PROVE  Goes
BY StepsGo, ReturnGoes, LateGoes, DisconnectGoes, ReadReplyGoes, OpenGoes, ConnectedGoes, IsConnectedGoes
   DEF Client

\* Every step leaves a program.
LEMMA ProgramNext ==
  ASSUME ClientInv, [Next]_vars
  PROVE  todo' \in StepSeq /\ ProgramInv' /\ (Goes \/ Stays)
<1>1. ASSUME NEW o \in Operations, Start(o) PROVE Goes
  BY <1>1, StartGoes
<1>2. CASE Client
  BY <1>2, ClientGoes DEF Goes
<1>3. CASE Abort \/ Server \/ UNCHANGED vars
  <2>1. Stays /\ todo \in StepSeq /\ ProgramInv
    BY <1>3, OthersStay DEF ClientInv, ClientType, StepSeq
  <2> QED
    BY <2>1 DEF Stays, ProgramInv
<1> QED
  BY <1>1, <1>2, <1>3 DEF Next, Goes

(***************************************************************************)
(* Every step keeps the types.                                             *)
(***************************************************************************)

\* The types of the client's variables and of the connection's.
ClientVars ==
  /\ secure \in BOOLEAN /\ passive \in BOOLEAN /\ connected \in BOOLEAN
  /\ aborted \in BOOLEAN /\ cached \in BOOLEAN
  /\ listening \in {"none", "bound", "unbound"} /\ data \in {"none", "open", "ended"}
  /\ op \in Operations \cup {"none"} /\ wanted \in BOOLEAN
  /\ own \in BOOLEAN /\ disturbed \in BOOLEAN
RemoteVars ==
  /\ last \in Replies /\ link \in {"closed", "up", "lost"} /\ image \in BOOLEAN /\ refused \subseteq BOOLEAN
  /\ toServer \in Seq(Commands) /\ toClient \in Seq(Replies) /\ transfer \in Commands

\* The types of the client's variables, of the link's, and of the program.
LEMMA ClientTypeIs ==
  ClientType <=> ClientVars /\ RemoteVars /\ todo \in StepSeq /\ (op = "none" => todo = <<>>)
BY DEF ClientType, ClientVars, RemoteVars, Commands, StepSeq

\* The empty sequence holds commands, and replies.
LEMMA Empties == << >> \in Seq(Commands) /\ << >> \in Seq(Replies)
OBVIOUS

\* A call that begins keeps the types.
LEMMA TypedStart ==
  ASSUME ClientVars, RemoteVars, ClientInv, NEW o \in Operations, Start(o)
  PROVE  ClientVars' /\ RemoteVars' /\ op' # "none"
<1>1. wanted' \in BOOLEAN
  BY StartGoes
<1>2. ClientVars'
  BY <1>1 DEF ClientVars, Start, settings, client
<1>3. RemoteVars'
  BY DEF RemoteVars, Start, client, control, remote
<1>4. op' # "none"
  BY ClientAssumption DEF Start, ClientAssumption
<1> QED
  BY <1>2, <1>3, <1>4

\* What is on its way when a call ends keeps its type.
LEMMA TypedOvertake ==
  ASSUME RemoteVars, cached \in BOOLEAN, Overtake
  PROVE  /\ toClient' = StaleReplies /\ toClient' \in Seq(Replies) /\ last' \in Replies
         /\ transfer' = Stale(transfer) /\ transfer' \in Commands
<1>1. toClient' = StaleReplies /\ transfer' = Stale(transfer)
  BY DEF Overtake, StaleReplies
<1>2. last' \in Replies
  BY StaleReplyIs DEF Overtake, RemoteVars
<1> QED
  BY <1>1, <1>2, StaleRepliesAre, StaleIs DEF RemoteVars

\* OnReturn keeps the types.
LEMMA TypedReturn ==
  ASSUME ClientVars, RemoteVars, Return
  PROVE  ClientVars' /\ RemoteVars'
<1>1. cached \in BOOLEAN /\ Overtake /\ toServer' = Overtaken
  BY DEF ClientVars, Return
<1>2. ClientVars'
  BY DEF ClientVars, Return, settings, history
<1>3. RemoteVars'
  BY <1>1, TypedOvertake, OvertakenIs DEF RemoteVars, Return
<1> QED
  BY <1>2, <1>3

\* Abort keeps the types.
LEMMA TypedAbort ==
  ASSUME ClientVars, RemoteVars, Abort
  PROVE  ClientVars' /\ RemoteVars'
<1>1. ClientVars'
  BY DEF ClientVars, Abort, settings, call
<1>2. RemoteVars'
  BY DEF RemoteVars, Abort, control, remote
<1> QED
  BY <1>1, <1>2

\* ReceiveLine takes the first reply, or cuts the call short.
LEMMA ReceiveIs ==
  ASSUME RemoteVars, disturbed \in BOOLEAN, NEW r \in Replies, ReceiveLine(r)
  PROVE  /\ toClient' \in Seq(Replies) /\ disturbed' \in BOOLEAN
         /\ ~disturbed' => /\ ~disturbed
                           /\ \/ link # "up" /\ toClient = <<>> /\ toClient' = <<>> /\ r = NoReply
                              \/ toClient # <<>> /\ r = toClient[1] /\ toClient' = Tail(toClient)
<1>1. toClient \in Seq(Replies)
  BY DEF RemoteVars
<1>2. CASE Cut(r)
  BY <1>1, <1>2 DEF Cut
<1>3. CASE ~aborted /\ link # "up" /\ toClient = <<>> /\ r = NoReply /\ UNCHANGED <<disturbed, toClient>>
  BY <1>1, <1>3
<1>4. CASE ~aborted /\ toClient # <<>> /\ r = Head(toClient) /\ toClient' = Tail(toClient) /\ disturbed' = disturbed
  BY <1>1, <1>4
<1> QED
  BY <1>2, <1>3, <1>4 DEF ReceiveLine

\* A closed connection has nothing on its way, no login and no transfer.
LEMMA ClosedLink ==
  ASSUME NEW state \in {"closed", "up", "lost"}, CloseLink(state)
  PROVE  /\ link' = state /\ toServer' = <<>> /\ toServer' \in Seq(Commands)
         /\ login' = "none" /\ transfer' = NoTransfer /\ transfer' \in Commands /\ image' = FALSE /\ refused' = {}
         /\ connected' = FALSE /\ listening' = "none" /\ data' = "none"
BY NoTransferIs DEF CloseLink, CloseData

\* IsConnected keeps the types.
LEMMA TypedIsConnected ==
  ASSUME ClientVars, RemoteVars, IsConnected
  PROVE  ClientVars' /\ RemoteVars'
<1> DEFINE alive == connected /\ (link = "up" \/ toClient' # <<>>)
<1>1. cached' \in BOOLEAN /\ last' \in Replies /\ toClient' \in Seq(Replies) /\ disturbed' \in BOOLEAN
  <2>1. CASE Waiting
    <3>1. PICK r \in Replies : ReceiveLine(r) /\ last' = r /\ cached' = TRUE
      BY <2>1 DEF IsConnected, PeekResponseCode
    <3> QED
      BY <3>1, ReceiveIs DEF ClientVars
  <2>2. CASE ~Waiting
    BY <2>2 DEF IsConnected, PeekResponseCode, ClientVars, RemoteVars
  <2> QED
    BY <2>1, <2>2
<1>2. CASE connected /\ ~alive
  <2>1. CloseLink("closed") /\ aborted' = FALSE
    BY <1>2 DEF IsConnected
  <2>2. ClientVars'
    BY <1>1, <2>1, ClosedLink DEF ClientVars, IsConnected, settings
  <2>3. RemoteVars'
    BY <1>1, <2>1, ClosedLink DEF RemoteVars
  <2> QED
    BY <2>2, <2>3
<1>3. CASE ~(connected /\ ~alive)
  <2>1. UNCHANGED <<connected, aborted, listening, data, link, toServer, remote>>
    BY <1>3 DEF IsConnected
  <2>2. ClientVars'
    BY <1>1, <2>1 DEF ClientVars, IsConnected, settings
  <2>3. RemoteVars'
    BY <1>1, <2>1 DEF RemoteVars, remote
  <2> QED
    BY <2>2, <2>3
<1> QED
  BY <1>2, <1>3

\* Opening the connection keeps the types.
LEMMA TypedOpen ==
  ASSUME ClientVars, RemoteVars, Open
  PROVE  ClientVars' /\ RemoteVars'
<1>1. CloseLink("up") \/ CloseLink("closed")
  BY DEF Open
<1>2. toClient' \in Seq(Replies)
  <2>1. CASE toClient' = <<>>
    BY <2>1
  <2>2. CASE \E digit \in {2, 4} : toClient' = <<[NoReply EXCEPT !.code = digit]>>
    BY <2>2, NoReplyIs DEF Codes
  <2> QED
    BY <2>1, <2>2 DEF Open
<1>3. ClientVars'
  BY <1>1, ClosedLink DEF ClientVars, Open, ClearResponse, settings
<1>4. RemoteVars'
  BY <1>1, <1>2, ClosedLink, NoReplyIs DEF RemoteVars, Open, ClearResponse
<1> QED
  BY <1>3, <1>4

\* The steps that neither send nor read keep the types.
LEMMA TypedSteps ==
  ASSUME ClientVars, RemoteVars,
         ConnectSSL \/ Connected \/ Disconnect \/ WaitForConnect \/ CheckAborted \/ OpenData \/ OpenDataFails
  PROVE  ClientVars' /\ RemoteVars'
<1>1. CASE ConnectSSL
  <2>1. ClientVars'
    BY <1>1 DEF ClientVars, ConnectSSL, settings, client, history
  <2>2. RemoteVars'
    <3>1. toClient' \in Seq(Replies) /\ link' \in {"closed", "up", "lost"}
      BY <1>1, Empties DEF RemoteVars, ConnectSSL
    <3> QED
      BY <1>1, <3>1 DEF RemoteVars, ConnectSSL, client, remote
  <2> QED
    BY <2>1, <2>2
<1>2. CASE Connected
  <2>1. ClientVars'
    BY <1>2 DEF ClientVars, Connected, settings, history
  <2>2. RemoteVars'
    BY <1>2 DEF RemoteVars, Connected, control, remote
  <2> QED
    BY <2>1, <2>2
<1>3. CASE Disconnect
  <2>1. CloseLink("closed") /\ toClient' = <<>>
    BY <1>3 DEF Disconnect
  <2>2. ClientVars'
    BY <1>3, <2>1, ClosedLink DEF ClientVars, Disconnect, settings, history
  <2>3. RemoteVars'
    BY <1>3, <2>1, ClosedLink DEF RemoteVars, Disconnect
  <2> QED
    BY <2>2, <2>3
<1>4. CASE WaitForConnect
  <2>1. ClientVars'
    BY <1>4 DEF ClientVars, WaitForConnect, settings, history
  <2>2. RemoteVars'
    BY <1>4 DEF RemoteVars, WaitForConnect, control, remote
  <2> QED
    BY <2>1, <2>2
<1>5. CASE CheckAborted
  <2>1. ClientVars'
    BY <1>5 DEF ClientVars, CheckAborted, AfterFailure, CloseData, KeepData, settings, history
  <2>2. RemoteVars'
    BY <1>5 DEF RemoteVars, CheckAborted, control, remote
  <2> QED
    BY <2>1, <2>2
<1>6. CASE OpenData
  <2>1. ClientVars'
    BY <1>6 DEF ClientVars, OpenData, settings, history
  <2>2. RemoteVars'
    BY <1>6 DEF RemoteVars, OpenData, control, remote
  <2> QED
    BY <2>1, <2>2
<1>7. CASE OpenDataFails
  <2>1. ClientVars'
    BY <1>7 DEF ClientVars, OpenDataFails, CloseData, settings
  <2>2. RemoteVars'
    BY <1>7 DEF RemoteVars, OpenDataFails, remote
  <2> QED
    BY <2>1, <2>2
<1> QED
  BY <1>1, <1>2, <1>3, <1>4, <1>5, <1>6, <1>7

\* SendCommand keeps the types.
LEMMA TypedSend ==
  ASSUME ClientVars, RemoteVars, todo \in StepSeq, SendCommand
  PROVE  ClientVars' /\ RemoteVars'
<1>1. cached \in BOOLEAN /\ Overtake
  BY DEF ClientVars, SendCommand
<1>2. ClientVars'
  BY DEF ClientVars, SendCommand, settings, history
<1>3. Head(todo)[2] \in Names
  BY AtIs DEF SendCommand
<1>4. [cmd |-> Head(todo)[2], own |-> TRUE] \in Commands
  BY <1>3 DEF Commands
<1>5. toServer' \in Seq(Commands)
  <2>1. Overtaken \in Seq(Commands)
    BY OvertakenIs DEF RemoteVars
  <2> QED
    BY <1>4, <2>1 DEF SendCommand
<1>6. RemoteVars'
  BY <1>1, <1>5, TypedOvertake DEF RemoteVars, SendCommand
<1> QED
  BY <1>2, <1>6

\* Reading a reply keeps the types.
LEMMA TypedRead ==
  ASSUME ClientVars, RemoteVars, ReadReply
  PROVE  ClientVars' /\ RemoteVars'
<1> DEFINE c == Head(todo)[2]
<1>1. PICK r \in Replies : /\ GetResponseCode(r) /\ last' = r /\ own' = (own /\ r.own)
                           /\ \/ KeepData /\ UNCHANGED <<link, toServer>>
                              \/ Refused(c)
  BY DEF ReadReply
<1>2. toClient' \in Seq(Replies) /\ disturbed' \in BOOLEAN
  <2>1. CASE cached
    BY <1>1, <2>1 DEF GetResponseCode, ClientVars, RemoteVars
  <2>2. CASE ~cached
    BY <1>1, <2>2, ReceiveIs DEF GetResponseCode, ClientVars
  <2> QED
    BY <2>1, <2>2
<1>3. CASE KeepData /\ UNCHANGED <<link, toServer>>
  <2>1. ClientVars'
    BY <1>1, <1>2, <1>3 DEF ClientVars, ReadReply, KeepData, settings
  <2>2. RemoteVars'
    BY <1>1, <1>2, <1>3 DEF RemoteVars, ReadReply, remote
  <2> QED
    BY <2>1, <2>2
<1>4. CASE Refused(c)
  <2>1. /\ listening' \in {"none", "bound", "unbound"} /\ data' \in {"none", "open", "ended"}
        /\ link' \in {"closed", "up", "lost"} /\ toServer' \in Seq(Commands)
    <3>1. (KeepData \/ CloseData) /\ ((link' = "closed" /\ toServer' = <<>>) \/ UNCHANGED <<link, toServer>>)
      BY <1>4 DEF Refused, AfterFailure
    <3>2. link' \in {"closed", "up", "lost"} /\ toServer' \in Seq(Commands)
      BY <3>1, Empties DEF RemoteVars
    <3> QED
      BY <3>1, <3>2 DEF KeepData, CloseData, ClientVars
  <2>2. ClientVars'
    BY <1>1, <1>2, <2>1 DEF ClientVars, ReadReply, settings
  <2>3. RemoteVars'
    BY <1>1, <1>2, <2>1 DEF RemoteVars, ReadReply, remote
  <2> QED
    BY <2>2, <2>3
<1> QED
  BY <1>1, <1>3, <1>4

\* The transfers keep the types.
LEMMA TypedData ==
  ASSUME ClientVars, RemoteVars, Lines \/ LinesCut \/ ReceiveAll \/ ReceiveCut \/ SendAll \/ SendCut
  PROVE  ClientVars' /\ RemoteVars'
<1>1. Data("lines") \/ Data("receive") \/ Data("transmit")
  BY DEF Lines, LinesCut, ReceiveAll, ReceiveCut, SendAll, SendCut
<1>2. disturbed' \in BOOLEAN
  BY DEF Lines, LinesCut, ReceiveAll, ReceiveCut, SendAll, SendCut, ClientVars
<1>3. ClientVars'
  BY <1>1, <1>2 DEF ClientVars, Data, CloseData, settings
<1>4. RemoteVars'
  BY <1>1 DEF RemoteVars, Data, control, remote
<1> QED
  BY <1>3, <1>4

\* The server keeps the types.
LEMMA TypedServer ==
  ASSUME ClientVars, RemoteVars, Server
  PROVE  ClientVars' /\ RemoteVars'
<1>1. CASE Answer
  <2>1. toServer # <<>> /\ toServer \in Seq(Commands) /\ Head(toServer) \in Commands
    BY <1>1 DEF Answer, RemoteVars
  <2> DEFINE c == Head(toServer)
  <2>2. PICK digit \in Answers(c.cmd) :
          /\ toClient' = Append(toClient, [code |-> digit, own |-> c.own])
          /\ image' = image \/ image' = (c.cmd = "TYPE_I")
          /\ refused' \in {refused, {}, {c.cmd = "TYPE_I"}}
          /\ transfer' = IF digit = 1 THEN c ELSE transfer
    BY <1>1 DEF Answer
  <2>3. digit \in Codes
    BY <2>2 DEF Answers, Codes
  <2>4. c.own \in BOOLEAN
    BY <2>1 DEF Commands
  <2>5. [code |-> digit, own |-> c.own] \in Replies
    BY <2>3, <2>4 DEF Replies
  <2>6. toClient' \in Seq(Replies) /\ transfer' \in Commands
    BY <2>1, <2>2, <2>5 DEF RemoteVars
  <2>7. image' \in BOOLEAN /\ refused' \subseteq BOOLEAN
    BY <2>2 DEF RemoteVars
  <2>8. toServer' \in Seq(Commands)
    BY <1>1, <2>1 DEF Answer
  <2>9. ClientVars'
    BY <1>1 DEF ClientVars, Answer, settings, client, call, history
  <2>10. RemoteVars'
    BY <1>1, <2>6, <2>7, <2>8 DEF RemoteVars, Answer, client
  <2> QED
    BY <2>9, <2>10
<1>2. CASE FinishTransfer
  <2>1. PICK digit \in {2, 4} : toClient' = Append(toClient, [code |-> digit, own |-> transfer.own])
    BY <1>2 DEF FinishTransfer
  <2>2. [code |-> digit, own |-> transfer.own] \in Replies
    BY DEF Replies, Codes, RemoteVars, Commands
  <2>3. toClient' \in Seq(Replies)
    BY <2>1, <2>2 DEF RemoteVars
  <2>4. ClientVars'
    BY <1>2 DEF ClientVars, FinishTransfer, settings, call, history
  <2>5. RemoteVars'
    BY <1>2, <2>3, NoTransferIs DEF RemoteVars, FinishTransfer
  <2> QED
    BY <2>4, <2>5
<1>3. CASE Drop
  <2>1. [NoReply EXCEPT !.code = 421] \in Replies
    BY NoReplyIs DEF Codes
  <2>2. toClient' \in Seq(Replies)
    BY <1>3, <2>1, SMTT(30) DEF Drop, RemoteVars
  <2>3. ClientVars'
    BY <1>3 DEF ClientVars, Drop, settings, call, history
  <2>4. RemoteVars'
    BY <1>3, <2>2, NoTransferIs DEF RemoteVars, Drop
  <2> QED
    BY <2>3, <2>4
<1> QED
  BY <1>1, <1>2, <1>3 DEF Server

\* A step of the client ends the call only with its program.
LEMMA NoCallIs ==
  ASSUME ClientInv, Client
  PROVE  op' = "none" => todo' = <<>>
<1>1. op = "none" => todo = <<>>
  BY DEF ClientInv, ClientType
<1>2. CASE Return
  BY <1>2 DEF Return
<1>3. CASE op' = op /\ \E what \in Kinds : At(what)
  BY <1>1, <1>3 DEF At
<1>4. CASE IsConnected \/ Open \/ ConnectSSL \/ Connected \/ Disconnect
  BY <1>3, <1>4 DEF IsConnected, Open, ConnectSSL, Connected, Disconnect, Kinds, Quiets
<1>5. CASE SendCommand \/ ReadReply \/ WaitForConnect \/ CheckAborted \/ OpenData \/ OpenDataFails
  BY <1>3, <1>5 DEF SendCommand, ReadReply, WaitForConnect, CheckAborted, OpenData, OpenDataFails, Kinds, Quiets
<1>6. CASE Lines \/ LinesCut \/ ReceiveAll \/ ReceiveCut \/ SendAll \/ SendCut
  BY <1>3, <1>6 DEF Lines, LinesCut, ReceiveAll, ReceiveCut, SendAll, SendCut, Data, Kinds, Closers
<1> QED
  BY <1>2, <1>4, <1>5, <1>6 DEF Client

\* Every step keeps the types.
LEMMA TypeNext ==
  ASSUME ClientInv, [Next]_vars
  PROVE  ClientType'
<1>1. ClientVars /\ RemoteVars /\ todo \in StepSeq /\ (op = "none" => todo = <<>>)
  BY ClientTypeIs DEF ClientInv
<1>2. todo' \in StepSeq
  BY ProgramNext
<1>3. ClientVars' /\ RemoteVars' /\ (op' = "none" => todo' = <<>>)
  <2>1. ASSUME NEW o \in Operations, Start(o) PROVE ClientVars' /\ RemoteVars' /\ op' # "none"
    BY <1>1, <2>1, TypedStart
  <2>2. CASE Client
    <3>1. ClientVars' /\ RemoteVars'
      BY <1>1, <2>2, TypedReturn, TypedIsConnected, TypedOpen, TypedSteps, TypedSend, TypedRead, TypedData
         DEF Client
    <3> QED
      BY <2>2, <3>1, NoCallIs
  <2>3. CASE Abort \/ Server \/ UNCHANGED vars
    <3>1. ClientVars' /\ RemoteVars'
      <4>1. CASE Abort \/ Server
        BY <1>1, <4>1, TypedAbort, TypedServer
      <4>2. CASE UNCHANGED vars
        <5>1. ClientVars'
          BY <1>1, <4>2 DEF ClientVars, vars, settings, client, call, history
        <5>2. RemoteVars'
          BY <1>1, <4>2 DEF RemoteVars, vars, client, control, remote
        <5> QED
          BY <5>1, <5>2
      <4> QED
        BY <2>3, <4>1, <4>2
    <3> QED
      BY <1>1, <2>3, <3>1, OthersStay DEF Stays
  <2> QED
    BY <2>1, <2>2, <2>3 DEF Next
<1> QED
  <2>1. (ClientVars /\ RemoteVars /\ todo \in StepSeq /\ (op = "none" => todo = <<>>))'
    BY <1>2, <1>3
  <2> QED
    BY <2>1, ClientTypeIs, PTL

(***************************************************************************)
(* No data connection is left behind.                                      *)
(***************************************************************************)

\* A step that may find the data connection open is followed by another, until it is closed.
LEMMA HoldsOn ==
  ASSUME NEW x, NEW y, NEW z, Fits(x, y, z), Holds(x), x[1] \notin Closers
  PROVE  Holds(y)
BY DEF Fits, Holds, Reads, Sends, Closers, Transfers

\* No step holds no data connection and does not log in.
LEMMA AbsentIs ==
  /\ Absent[1] = "none" /\ Absent[2] = "none" /\ ~Holds(Absent) /\ ~LogsIn(Absent)
BY DEF Absent, Do, Holds, Closers, LogsIn

\* Where no step holds it there is no data connection and no bound port.
LEMMA NothingHeld ==
  ASSUME DataInv, ~Holds(Nth(todo, 1))
  PROVE  data = "none" /\ listening # "bound"
BY DEF DataInv

\* A step before the closers keeps what holds the data connection.
LEMMA DataGoesOn ==
  ASSUME ClientInv, todo # <<>>, todo[1][1] \notin Closers, todo' = Tail(todo)
  PROVE  /\ Holds(Nth(todo, 1)) => Holds(Nth(todo', 1))
         /\ KeepData => DataInv'
<1>1. todo \in StepSeq /\ Program(todo, connected, op) /\ connected \in BOOLEAN /\ DataInv
  BY DEF ClientInv, ClientType, StepSeq, ProgramInv
<1>2. /\ Fits(Nth(todo, 1), Nth(todo, 2), Nth(todo, 3)) /\ Nth(todo', 1) = Nth(todo, 2)
      /\ Nth(todo, 1) = todo[1]
  BY <1>1, NextIs
<1>3. Holds(Nth(todo, 1)) => Holds(Nth(todo', 1))
  BY <1>2, HoldsOn
<1>4. KeepData => DataInv'
  <2>1. KeepData => (data' # "none" \/ listening' = "bound" => Holds(Nth(todo, 1)))
    BY <1>1 DEF DataInv, KeepData
  <2> QED
    BY <1>3, <2>1 DEF DataInv
<1> QED
  BY <1>3, <1>4

\* Closing the data connection leaves none.
LEMMA DataClosed == CloseData => DataInv'
BY DEF CloseData, DataInv

\* Without a data connection no step needs to hold one.
LEMMA DataKept ==
  ASSUME DataInv, ~Holds(Nth(todo, 1)), KeepData
  PROVE  DataInv'
BY NothingHeld DEF DataInv, KeepData

\* Reading a reply leaves no data connection behind: a refusal closes it.
LEMMA DataRead ==
  ASSUME ClientInv, ReadReply
  PROVE  DataInv'
<1>1. /\ ClientType /\ ProgramInv /\ DataInv /\ todo \in StepSeq /\ Program(todo, connected, op)
  BY DEF ClientInv, ClientType, StepSeq, ProgramInv
<1>2. /\ todo # <<>> /\ todo[1][1] = "read" /\ Head(todo)[2] = todo[1][2] /\ Nth(todo, 1) = todo[1]
      /\ 1 \in DOMAIN todo
  BY <1>1, AtIs, FirstIs DEF ReadReply
<1> DEFINE c == todo[1][2]
<1>3. \/ (\E r \in Replies : todo' = Rest(c, r)) /\ KeepData
      \/ c = "end" /\ KeepData
      \/ Refused(c)
  BY <1>2 DEF ReadReply
<1>4. CASE ~Holds(todo[1])
  <2>1. KeepData \/ CloseData
    BY <1>3 DEF Refused, AfterFailure
  <2> QED
    BY <1>1, <1>2, <1>4, <2>1, DataKept, DataClosed
<1>5. CASE Holds(todo[1])
  <2>1. c \in Transfers \cup {"PORT"}
    BY <1>2, <1>5 DEF Holds, Closers
  <2>2. ~Connects(todo[1])
    BY <1>2, <2>1 DEF Connects, LogsIn, Logins, Settings, Transfers
  <2>3. connected /\ op \in {"list", "retr", "stor"}
    BY <1>1, <1>2, <1>5, <2>2, WorkingIs DEF Program
  <2>4. CASE Refused(c)
    BY <2>1, <2>3, <2>4, DataClosed DEF Refused, AfterFailure, Transfers
  <2>5. ASSUME NEW r \in Replies, todo' = Rest(c, r), KeepData PROVE DataInv'
    <3>1. todo' = Tail(todo)
      BY <2>1, <2>5 DEF Rest, Transfers
    <3> QED
      BY <1>2, <2>5, <3>1, DataGoesOn DEF Closers
  <2>6. c # "end"
    BY <2>1 DEF Transfers
  <2> QED
    BY <1>3, <2>4, <2>5, <2>6
<1> QED
  BY <1>4, <1>5

\* Nor do the steps that neither read nor move data.
LEMMA DataSteps ==
  ASSUME ClientInv, ConnectSSL \/ Connected \/ SendCommand \/ WaitForConnect \/ CheckAborted \/ OpenData
  PROVE  DataInv'
<1>1. /\ ClientType /\ ProgramInv /\ DataInv /\ todo \in StepSeq /\ Program(todo, connected, op)
      /\ connected \in BOOLEAN
  BY DEF ClientInv, ClientType, StepSeq, ProgramInv
<1>2. CASE ConnectSSL \/ Connected
  <2>1. ~Holds(Nth(todo, 1))
    BY <1>1, <1>2, AtIs DEF ConnectSSL, Connected, Holds, Closers
  <2>2. KeepData
    BY <1>2 DEF ConnectSSL, Connected, KeepData, client
  <2> QED
    BY <1>1, <2>1, <2>2, DataKept
<1>3. CASE SendCommand
  <2>1. todo # <<>> /\ todo[1][1] = "send"
    BY <1>1, <1>3, AtIs DEF SendCommand
  <2>2. KeepData /\ todo' = Tail(todo)
    BY <1>3 DEF SendCommand, KeepData, GoOn
  <2> QED
    BY <2>1, <2>2, DataGoesOn DEF Closers
<1>4. CASE WaitForConnect
  <2>1. todo # <<>> /\ todo[1][1] = "listen" /\ Nth(todo, 1) = todo[1]
    BY <1>1, <1>4, AtIs DEF WaitForConnect
  <2>2. data = "none"
    BY <1>1, <2>1, NothingHeld DEF Holds, Closers
  <2>3. data' = data
    BY <1>4 DEF WaitForConnect
  <2>4. CASE listening' = "unbound"
    BY <2>2, <2>3, <2>4 DEF DataInv
  <2>5. CASE GoOn
    <3>1. Fits(Nth(todo, 1), Nth(todo, 2), Nth(todo, 3)) /\ Nth(todo', 1) = Nth(todo, 2)
      BY <1>1, <2>1, <2>5, NextIs DEF GoOn
    <3>2. Holds(Nth(todo', 1))
      BY <2>1, <3>1 DEF Fits, Sends, Holds
    <3> QED
      BY <3>2 DEF DataInv
  <2> QED
    BY <1>4, <2>4, <2>5 DEF WaitForConnect
<1>5. CASE CheckAborted
  <2>1. todo # <<>> /\ todo[1][1] = "check" /\ Nth(todo, 1) = todo[1] /\ 1 \in DOMAIN todo
    BY <1>1, <1>5, AtIs, FirstIs DEF CheckAborted
  <2>2. CASE GoOn /\ KeepData
    BY <2>1, <2>2, DataGoesOn DEF Closers, GoOn
  <2>3. CASE AfterFailure
    <3>1. Holds(todo[1]) /\ ~Connects(todo[1])
      BY <2>1 DEF Holds, Connects, LogsIn
    <3>2. connected /\ op \in {"list", "retr", "stor"}
      BY <1>1, <2>1, <3>1, WorkingIs DEF Program
    <3> QED
      BY <2>3, <3>2, DataClosed DEF AfterFailure
  <2> QED
    BY <1>5, <2>2, <2>3 DEF CheckAborted
<1>6. CASE OpenData
  <2>1. todo # <<>> /\ todo[1][1] = "data" /\ Nth(todo, 1) = todo[1]
    BY <1>1, <1>6, AtIs DEF OpenData
  <2>2. todo' = Tail(todo)
    BY <1>6 DEF OpenData, GoOn
  <2>3. Holds(Nth(todo', 1))
    BY <2>1, <2>2, DataGoesOn DEF Holds, Closers
  <2> QED
    BY <2>3 DEF DataInv
<1> QED
  BY <1>2, <1>3, <1>4, <1>5, <1>6

\* No step leaves a data connection behind.
LEMMA DataNext ==
  ASSUME ClientInv, [Next]_vars
  PROVE  DataInv'
<1>1. /\ DataInv /\ todo \in StepSeq /\ (op = "none" => todo = <<>>)
  BY DEF ClientInv, ClientType, StepSeq
<1>2. todo = <<>> => ~Holds(Nth(todo, 1))
  BY <1>1, FirstIs, AbsentIs
<1>3. ASSUME NEW o \in Operations, Start(o) PROVE DataInv'
  <2>1. todo = <<>> /\ KeepData
    BY <1>1, <1>3 DEF Start, KeepData, client
  <2> QED
    BY <1>1, <1>2, <2>1, DataKept
<1>4. CASE Return
  <2>1. todo = <<>> /\ KeepData
    BY <1>4 DEF Return, KeepData
  <2> QED
    BY <1>1, <1>2, <2>1, DataKept
<1>5. CASE IsConnected
  <2>1. ~Holds(Nth(todo, 1))
    BY <1>1, <1>5, AtIs DEF IsConnected, Holds, Closers
  <2>2. KeepData \/ CloseData
    BY <1>5 DEF IsConnected, KeepData, CloseLink
  <2> QED
    BY <1>1, <2>1, <2>2, DataKept, DataClosed
<1>6. CASE Open \/ Disconnect
  BY <1>6, DataClosed DEF Open, Disconnect, CloseLink
<1>7. CASE OpenDataFails \/ Lines \/ LinesCut \/ ReceiveAll \/ ReceiveCut \/ SendAll \/ SendCut
  BY <1>7, DataClosed DEF OpenDataFails, Lines, LinesCut, ReceiveAll, ReceiveCut, SendAll, SendCut, Data
<1>8. CASE Abort \/ Server \/ UNCHANGED vars
  <2>1. listening' = listening /\ (data' # "none" => data # "none")
    <3>1. CASE Abort
      BY <3>1 DEF Abort
    <3>2. CASE Server
      BY <3>2 DEF Server, Answer, FinishTransfer, Drop, client
    <3>3. CASE UNCHANGED vars
      BY <3>3 DEF vars, client
    <3> QED
      BY <1>8, <3>1, <3>2, <3>3
  <2>2. todo' = todo
    BY <1>8, OthersStay DEF Stays
  <2> QED
    BY <1>1, <2>1, <2>2 DEF DataInv
<1> QED
  BY <1>3, <1>4, <1>5, <1>6, <1>7, <1>8, DataRead, DataSteps DEF Next, Client

(***************************************************************************)
(* The replies: every reply that is owed is read by the call that asked.   *)
(***************************************************************************)

\* What is appended comes last.
LEMMA AppendIs ==
  ASSUME NEW S, NEW s \in Seq(S), NEW x \in S
  PROVE  /\ Append(s, x) \in Seq(S) /\ Append(s, x) # <<>>
         /\ s = <<>> => /\ Append(s, x)[1] = x /\ Tail(Append(s, x)) = <<>> /\ Len(Append(s, x)) = 1
         /\ s # <<>> => /\ Append(s, x)[1] = s[1] /\ Tail(Append(s, x)) = Append(Tail(s), x)
                        /\ Tail(s) \in Seq(S)
<1> DEFINE u == Append(s, x)
<1>1. /\ u \in Seq(S) /\ Len(u) = Len(s) + 1 /\ Len(s) \in Nat
      /\ \A i \in 1..Len(s) : u[i] = s[i]
      /\ u[Len(s) + 1] = x
  OBVIOUS
<1>2. u # <<>> /\ (s = <<>> <=> Len(s) = 0)
  BY <1>1, EmptySeq
<1> HIDE DEF u
<1>3. Tail(u) \in Seq(S) /\ Len(Tail(u)) = Len(s) /\ \A i \in 1..Len(s) : Tail(u)[i] = u[i + 1]
  BY <1>1, <1>2
<1>4. CASE s = <<>>
  <2>1. Len(s) = 0
    BY <1>2, <1>4
  <2>2. u[1] = x /\ Len(u) = 1 /\ Len(Tail(u)) = 0
    BY <1>1, <1>3, <2>1
  <2>3. Tail(u) = <<>>
    BY <1>3, <2>2, EmptySeq
  <2> QED
    BY <1>1, <1>2, <1>4, <2>2, <2>3 DEF u
<1>5. CASE s # <<>>
  <2>1. Len(s) \in Nat \ {0}
    BY <1>1, <1>2, <1>5
  <2>2. u[1] = s[1]
    BY <1>1, <2>1
  <2> DEFINE t == Tail(s)
  <2>3. t \in Seq(S) /\ Len(t) = Len(s) - 1 /\ \A i \in 1..(Len(s) - 1) : t[i] = s[i + 1]
    BY <1>5, <2>1
  <2> HIDE DEF t
  <2> DEFINE v == Append(t, x)
  <2>4. v \in Seq(S) /\ Len(v) = Len(t) + 1 /\ (\A i \in 1..Len(t) : v[i] = t[i]) /\ v[Len(t) + 1] = x
    BY <2>3
  <2> HIDE DEF v
  <2>5. Len(v) = Len(Tail(u))
    BY <1>3, <2>1, <2>3, <2>4
  <2>6. ASSUME NEW i \in 1..Len(v) PROVE v[i] = Tail(u)[i]
    <3>1. i \in 1..Len(s) /\ Tail(u)[i] = u[i + 1]
      BY <1>3, <2>5, <2>6
    <3>2. CASE i = Len(s)
      BY <1>1, <2>1, <2>3, <2>4, <3>1, <3>2
    <3>3. CASE i # Len(s)
      <4>1. i \in 1..(Len(s) - 1) /\ i \in 1..Len(t) /\ i + 1 \in 1..Len(s)
        BY <2>1, <2>3, <3>1, <3>3
      <4> QED
        BY <1>1, <2>3, <2>4, <3>1, <4>1
    <3> QED
      BY <3>2, <3>3
  <2>7. v = Tail(u)
    BY <1>3, <2>4, <2>5, <2>6, SeqEqual
  <2> QED
    BY <1>1, <1>2, <1>5, <2>2, <2>3, <2>7 DEF u, v, t
<1> QED
  BY <1>4, <1>5

\* The first element of a sequence and the rest.
LEMMA TailOf ==
  ASSUME NEW S, NEW s \in Seq(S)
  PROVE  /\ s = <<>> <=> Len(s) = 0
         /\ Len(s) = 1 => s # <<>> /\ Tail(s) = <<>>
         /\ s # <<>> => Tail(s) \in Seq(S) /\ Head(s) = s[1] /\ s[1] \in S /\ 1 \in DOMAIN s
                        /\ (\A i \in DOMAIN Tail(s) : i + 1 \in DOMAIN s /\ Tail(s)[i] = s[i + 1])
<1>1. s = <<>> <=> Len(s) = 0
  BY EmptySeq
<1>2. Len(s) = 1 => s # <<>> /\ Tail(s) = <<>>
  <2>1. Len(s) = 1 => Tail(s) \in Seq(S) /\ Len(Tail(s)) = 0
    OBVIOUS
  <2>2. Len(s) = 1 => s # <<>>
    BY <1>1
  <2> QED
    BY <2>1, <2>2, EmptySeq
<1>3. s # <<>> => Tail(s) \in Seq(S) /\ Head(s) = s[1] /\ s[1] \in S /\ 1 \in DOMAIN s
                  /\ (\A i \in DOMAIN Tail(s) : i + 1 \in DOMAIN s /\ Tail(s)[i] = s[i + 1])
  <2> SUFFICES ASSUME s # <<>>
               PROVE  /\ Tail(s) \in Seq(S) /\ Head(s) = s[1] /\ s[1] \in S /\ 1 \in DOMAIN s
                      /\ (\A i \in DOMAIN Tail(s) : i + 1 \in DOMAIN s /\ Tail(s)[i] = s[i + 1])
    OBVIOUS
  <2>1. Len(s) \in Nat \ {0} /\ DOMAIN s = 1..Len(s)
    BY <1>1
  <2>2. /\ Tail(s) \in Seq(S) /\ DOMAIN Tail(s) = 1..(Len(s) - 1)
        /\ \A i \in 1..(Len(s) - 1) : Tail(s)[i] = s[i + 1]
    BY <2>1
  <2>3. Head(s) = s[1] /\ s[1] \in S
    BY <2>1
  <2> QED
    BY <2>1, <2>2, <2>3
<1> QED
  BY <1>1, <1>2, <1>3

\* The server answers, ends a transfer or drops the connection: as many replies
\* are owed as before.
LEMMA AnswerOwes ==
  ASSUME RemoteVars, Answer
  PROVE  (Quiet => Quiet') /\ (OneOwed => OneOwed') /\ (TwoOwed => TwoOwed')
<1>1. toServer \in Seq(Commands) /\ toClient \in Seq(Replies)
  BY DEF RemoteVars
<1>2. toServer # <<>> /\ transfer = NoTransfer /\ link = "up" /\ link' = "up" /\ toServer' = Tail(toServer)
  BY DEF Answer
<1> DEFINE c == toServer[1]
<1>3. Head(toServer) = c /\ c \in Commands
  BY <1>1, <1>2, TailOf
<1>4. PICK digit \in Answers(c.cmd) :
        /\ toClient' = Append(toClient, [code |-> digit, own |-> c.own])
        /\ transfer' = IF digit = 1 THEN c ELSE transfer
  BY <1>3 DEF Answer
<1> DEFINE d == [code |-> digit, own |-> c.own]
<1>5. d \in Replies /\ d.code = digit
  BY <1>3, <1>4 DEF Answers, Replies, Codes, Commands
<1>6. digit = 1 => c.cmd \in Transfers
  BY <1>4 DEF Answers, Transfers
<1>7. c.cmd \in Transfers => c # NoTransfer
  BY NoTransferIs DEF Transfers
<1> HIDE DEF c, d
<1>8. CASE Asked
  <2>1. toServer' = <<>> /\ toClient = <<>>
    BY <1>1, <1>2, <1>8, TailOf DEF Asked
  <2>2. toClient' # <<>> /\ toClient'[1] = d /\ Tail(toClient') = <<>> /\ toClient' \in Seq(Replies)
    BY <1>1, <1>4, <1>5, <2>1, AppendIs DEF d
  <2>3. Head(toClient').code = digit
    BY <1>5, <2>2, TailOf
  <2>4. CASE digit # 1
    <3>1. Replied'
      BY <1>2, <1>4, <2>1, <2>2, <2>4 DEF Replied, Goodbye
    <3> QED
      BY <1>2, <3>1 DEF OneOwed, TwoOwed, Quiet
  <2>5. CASE digit = 1
    <3>1. TwoOwed'
      BY <1>2, <1>4, <1>6, <1>7, <2>1, <2>2, <2>3, <2>5 DEF TwoOwed
    <3>2. ~OneOwed /\ ~Quiet
      BY <1>2, <1>6, <2>5 DEF OneOwed, Quiet, Replied, c
    <3> QED
      BY <3>1, <3>2
  <2> QED
    BY <2>4, <2>5
<1>9. CASE ~Asked
  BY <1>2, <1>9 DEF OneOwed, TwoOwed, Quiet, Replied
<1> QED
  BY <1>8, <1>9

\* The reply to a finished transfer is the one that was owed.
LEMMA FinishOwes ==
  ASSUME RemoteVars, FinishTransfer
  PROVE  (Quiet => Quiet') /\ (OneOwed => OneOwed') /\ (TwoOwed => TwoOwed')
<1>1. toClient \in Seq(Replies) /\ transfer.own \in BOOLEAN
  BY DEF RemoteVars, Commands
<1>2. transfer # NoTransfer /\ link' = "up" /\ toServer' = toServer /\ transfer' = NoTransfer
  BY DEF FinishTransfer
<1>3. PICK digit \in {2, 4} : toClient' = Append(toClient, [code |-> digit, own |-> transfer.own])
  BY DEF FinishTransfer
<1> DEFINE d == [code |-> digit, own |-> transfer.own]
<1>4. d \in Replies
  BY <1>1 DEF Replies, Codes
<1> HIDE DEF d
<1>5. CASE toServer = <<>> /\ toClient = <<>>
  <2>1. toClient' # <<>> /\ Tail(toClient') = <<>>
    BY <1>1, <1>3, <1>4, <1>5, AppendIs DEF d
  <2>2. Replied'
    BY <1>2, <1>5, <2>1 DEF Replied, Goodbye
  <2> QED
    BY <1>2, <2>2 DEF OneOwed, TwoOwed, Quiet
<1>6. CASE toServer = <<>> /\ toClient # <<>> /\ Head(toClient).code = 1 /\ Tail(toClient) = <<>>
  <2>1. /\ toClient' # <<>> /\ toClient' \in Seq(Replies) /\ toClient'[1] = toClient[1]
        /\ Tail(toClient') = Append(Tail(toClient), d) /\ Tail(toClient) \in Seq(Replies)
    BY <1>1, <1>3, <1>4, <1>6, AppendIs DEF d
  <2>2. Head(toClient').code = 1
    BY <1>1, <1>6, <2>1, TailOf
  <2>3. Tail(Tail(toClient')) = <<>>
    <3> DEFINE q == Tail(toClient)
    <3>1. q \in Seq(Replies) /\ q = <<>> /\ Tail(toClient') = Append(q, d)
      BY <1>6, <2>1
    <3> HIDE DEF q
    <3>2. Tail(Append(q, d)) = <<>>
      BY <1>4, <3>1, AppendIs
    <3> QED
      BY <3>1, <3>2
  <2>4. TwoOwed'
    BY <1>2, <1>6, <2>1, <2>2, <2>3 DEF TwoOwed, Goodbye
  <2> QED
    BY <1>2, <1>6, <2>4 DEF OneOwed, Quiet, Asked, Replied
<1> QED
  BY <1>2, <1>5, <1>6 DEF OneOwed, TwoOwed, Quiet, Asked, Replied

\* A goodbye after nothing is only a goodbye.
LEMMA GoodbyeIs ==
  ASSUME NEW d \in Replies, d.code = 421, NEW s \in Seq(Replies), s = <<>>,
         NEW t, t = s \/ t = Append(s, d)
  PROVE  t = <<>> \/ (Len(t) = 1 /\ t[1].code = 421)
BY AppendIs

\* A goodbye and a lost link add to what is owed only what every reader survives.
LEMMA DropOwes ==
  ASSUME RemoteVars, Drop
  PROVE  (Quiet => Quiet') /\ (OneOwed => OneOwed') /\ (TwoOwed => TwoOwed')
<1> DEFINE d == [NoReply EXCEPT !.code = 421]
<1>1. toClient \in Seq(Replies) /\ d \in Replies /\ d.code = 421
  BY NoReplyIs DEF RemoteVars, Codes
<1>2. link = "up" /\ link' = "lost" /\ toServer' = <<>> /\ transfer' = NoTransfer
  BY DEF Drop
<1>3. toClient' = toClient \/ toClient' = Append(toClient, d)
  BY DEF Drop
<1> HIDE DEF d
<1>5. CASE toClient = <<>>
  <2>1. Goodbye(toClient)'
    <3>1. toClient' = <<>> \/ (Len(toClient') = 1 /\ toClient'[1].code = 421)
      BY <1>1, <1>3, <1>5, GoodbyeIs
    <3> QED
      BY <1>2, <3>1 DEF Goodbye
  <2> QED
    BY <1>2, <2>1 DEF Quiet, OneOwed, TwoOwed
<1>6. CASE toClient # <<>>
  <2>1. /\ toClient' # <<>> /\ toClient' \in Seq(Replies) /\ toClient'[1] = toClient[1]
        /\ Tail(toClient) \in Seq(Replies)
        /\ Tail(toClient') = Tail(toClient) \/ Tail(toClient') = Append(Tail(toClient), d)
    BY <1>1, <1>3, <1>6, AppendIs, SMTT(30)
  <2>2. Head(toClient').code = Head(toClient).code
    BY <1>1, <1>6, <2>1, TailOf
  <2> DEFINE q == Tail(toClient)
             w == Tail(toClient')
  <2>3. q \in Seq(Replies) /\ (w = q \/ w = Append(q, d))
    BY <2>1
  <2>4. CASE Tail(toClient) = <<>>
    <3>1. q = <<>>
      BY <2>4
    <3> HIDE DEF q, w
    <3>2. w = <<>> \/ (Len(w) = 1 /\ w[1].code = 421)
      BY <1>1, <2>3, <3>1, GoodbyeIs
    <3>3. Goodbye(Tail(toClient))'
      BY <1>2, <3>2 DEF Goodbye, w
    <3>4. Replied'
      BY <1>2, <2>1, <3>3 DEF Replied, Goodbye
    <3> QED
      BY <1>2, <1>6, <3>4 DEF Quiet, OneOwed, TwoOwed, Goodbye
  <2>5. CASE Tail(toClient) # <<>>
    <3>1. ~Quiet /\ ~Replied /\ ~Asked
      BY <1>2, <1>6, <2>5 DEF Quiet, Replied, Asked, Goodbye
    <3>2. ~OneOwed
      BY <1>6, <3>1 DEF OneOwed
    <3>3. TwoOwed => Head(toClient).code = 1 /\ Tail(Tail(toClient)) = <<>>
      BY <1>2, <2>5, <3>1 DEF TwoOwed, Goodbye
    <3>4. ASSUME Tail(Tail(toClient)) = <<>> PROVE Goodbye(Tail(Tail(toClient)))'
      <4> DEFINE p == Tail(q)
                 v == Tail(w)
      <4>1. q # <<>> /\ p = <<>>
        BY <2>5, <3>4
      <4> HIDE DEF q, w
      <4>2. p \in Seq(Replies) /\ (v = p \/ v = Append(p, d))
        BY <1>1, <2>3, <4>1, AppendIs
      <4> HIDE DEF p, v
      <4>3. v = <<>> \/ (Len(v) = 1 /\ v[1].code = 421)
        BY <1>1, <4>1, <4>2, GoodbyeIs
      <4> QED
        BY <1>2, <4>3 DEF Goodbye, v, w
    <3>5. TwoOwed => TwoOwed'
      BY <1>2, <2>1, <2>2, <3>3, <3>4 DEF TwoOwed, Goodbye
    <3> QED
      BY <3>1, <3>2, <3>5
  <2> QED
    BY <2>4, <2>5
<1> QED
  BY <1>5, <1>6

\* The parts of ReplyInv, where no reply is owed to a call that was cut short.
Held ==
  /\ own /\ transfer.own
  /\ \A i \in DOMAIN toClient : toClient[i].own
  /\ \A i \in DOMAIN toServer : toServer[i].own
KeptWhere == cached => ~connected /\ Nth(todo, 1)[1] \in Entries \cup {"none"}
Settled == ~disturbed => Held /\ Owed /\ KeptWhere

\* The invariant of the replies, by its parts.
LEMMA ReplyInvIs == ReplyInv <=> (Nth(todo, 1)[1] \in Entries => own) /\ Settled
BY DEF ReplyInv, Settled, Held, KeptWhere

\* Where nothing is owed, every step owes at most what it may.
LEMMA QuietOwes == Quiet => Owed
BY DEF Owed, OwedAt, OneOwed, TwoOwed

\* Nothing but Start and IsConnected leads to the entry of a call.
LEMMA EntriesBegin ==
  ASSUME ClientInv, Client, ~IsConnected
  PROVE  Nth(todo', 1)[1] \notin Entries
<1>1. /\ ClientType /\ ProgramInv /\ TypeInv /\ todo \in StepSeq /\ Program(todo, connected, op)
      /\ connected \in BOOLEAN /\ wanted \in BOOLEAN
  BY DEF ClientInv, ClientType, StepSeq, ProgramInv
<1>2. CASE todo' = <<>>
  BY <1>2 DEF Nth, Absent, Do, Entries
<1>3. CASE todo # <<>> /\ todo' = Tail(todo)
  <2>1. Nth(Tail(todo), 1) = Nth(todo, 2) /\ Nth(todo, 2)[1] \notin Entries
    BY <1>1, <1>3, NextIs
  <2> QED
    BY <1>3, <2>1
<1>4. CASE \E c \in {"end2", "late"} : todo' = <<Read(c)>>
  BY <1>4 DEF Nth, Read, Entries
<1>5. CASE ReadReply
  <2>1. todo # <<>> /\ todo[1][1] = "read" /\ Head(todo)[2] = todo[1][2]
    BY <1>1, <1>5, AtIs DEF ReadReply
  <2> DEFINE c == todo[1][2]
  <2>2. (\E r \in Replies : todo' = Rest(c, r)) \/ todo' = Again \/ todo' = <<>>
    BY <1>5, <2>1 DEF ReadReply, Refused, Fail
  <2>3. ASSUME NEW r \in Replies, todo' = Rest(c, r), todo' # Tail(todo)
        PROVE  Nth(todo', 1)[1] \in Quiets \cup {"none"}
    <3>1. CASE c = "USER" /\ todo' = SubSeq(todo, 4, Len(todo))
      <4>1. Reads(todo[1], {"USER"})
        BY <2>1, <3>1 DEF Reads
      <4>2. TypesAhead(todo, wanted)
        BY <1>1, <2>1, <4>1, AheadIs DEF Prepares, Carries, Sends, Reads, Types
      <4>3. Nth(SubSeq(todo, 4, Len(todo)), 1)[1] \in Quiets \cup {"none"}
        BY <1>1, <2>1, <4>1, <4>2, SkipPass
      <4> QED
        BY <3>1, <4>3
    <3>2. CASE c = "PASS" /\ todo' = Cmd("ACCT") \o Tail(todo)
      <4>1. Reads(todo[1], {"PASS"})
        BY <2>1, <3>2 DEF Reads
      <4>2. TypesAhead(todo, wanted)
        BY <1>1, <2>1, <4>1, AheadIs DEF Prepares, Carries, Sends, Reads, Types
      <4>3. Nth(Cmd("ACCT") \o Tail(todo), 1) = Send("ACCT")
        BY <1>1, <2>1, <4>1, <4>2, AskAcct
      <4> QED
        BY <3>2, <4>3 DEF Send, Quiets
    <3> QED
      BY <2>3, <3>1, <3>2 DEF Rest
  <2>4. CASE \E r \in Replies : todo' = Rest(c, r)
    BY <1>3, <2>1, <2>3, <2>4 DEF Quiets, Entries
  <2> QED
    BY <1>2, <1>4, <2>2, <2>4 DEF Again
<1>6. CASE Return
  BY <1>2, <1>6 DEF Return
<1>7. CASE Open
  BY <1>2, <1>3, <1>7 DEF Open, GoOn, Fail, At
<1>8. CASE ConnectSSL \/ Connected \/ Disconnect
  BY <1>2, <1>3, <1>8 DEF ConnectSSL, Connected, Disconnect, GoOn, Fail, At
<1>9. CASE SendCommand \/ WaitForConnect \/ CheckAborted \/ OpenData \/ OpenDataFails
  BY <1>2, <1>3, <1>9 DEF SendCommand, WaitForConnect, CheckAborted, OpenData, OpenDataFails, GoOn, Fail, At
<1>10. CASE Lines \/ LinesCut \/ ReceiveAll \/ SendAll
  BY <1>2, <1>3, <1>10 DEF Lines, LinesCut, ReceiveAll, SendAll, Data, GoOn, Fail, At
<1>11. CASE ReceiveCut \/ SendCut
  BY <1>2, <1>4, <1>11 DEF ReceiveCut, SendCut
<1> QED
  BY <1>5, <1>6, <1>7, <1>8, <1>9, <1>10, <1>11 DEF Client

\* A goodbye is nobody's: a new command does not overtake it.
LEMMA QuietOvertake ==
  ASSUME RemoteVars, cached \in BOOLEAN, Quiet, Overtake
  PROVE  Overtaken = <<>> /\ transfer' = NoTransfer /\ toClient' = toClient
<1>1. toServer \in Seq(Commands) /\ toClient \in Seq(Replies) /\ transfer \in Commands
  BY DEF RemoteVars
<1>2. toServer = <<>> /\ transfer = NoTransfer /\ Goodbye(toClient)
  BY DEF Quiet
<1>3. Overtaken = <<>>
  BY <1>1, <1>2, OvertakenIs, EmptySeq
<1>4. transfer' = NoTransfer
  BY <1>2, NoTransferIs, StaleIs, TypedOvertake
<1>5. /\ StaleReplies \in Seq(Replies) /\ Len(StaleReplies) = Len(toClient)
      /\ DOMAIN StaleReplies = DOMAIN toClient /\ toClient' = StaleReplies
      /\ \A i \in DOMAIN toClient : toClient[i].code = 421 => StaleReplies[i] = toClient[i]
  BY <1>1, StaleRepliesAre, TypedOvertake
<1>6. \A i \in DOMAIN toClient : StaleReplies[i] = toClient[i]
  <2>1. toClient = <<>> => DOMAIN toClient = {}
    BY <1>1
  <2>2. Len(toClient) = 1 => DOMAIN toClient = {1}
    BY <1>1
  <2> QED
    BY <1>2, <1>5, <2>1, <2>2 DEF Goodbye
<1>7. DOMAIN toClient = 1..Len(toClient)
  BY <1>1
<1>8. StaleReplies = toClient
  BY <1>1, <1>5, <1>6, <1>7, SeqEqual
<1> QED
  BY <1>3, <1>4, <1>5, <1>8

\* What holds before the step x of a call.
LEMMA Before ==
  ASSUME ClientInv, NEW what \in Kinds, At(what)
  PROVE  /\ todo # <<>> /\ todo \in StepSeq /\ todo[1] \in Kinds \X Names /\ Nth(todo, 1) = todo[1]
         /\ todo[1][1] = what /\ Head(todo)[2] = todo[1][2]
         /\ Fits(todo[1], Nth(todo, 2), Nth(todo, 3))
         /\ Nth(Tail(todo), 1) = Nth(todo, 2) /\ Nth(Tail(todo), 2) = Nth(todo, 3)
         /\ what \in Entries => own
         /\ ~disturbed => /\ Held /\ OwedAt(todo[1], Nth(todo, 2))
                          /\ cached => ~connected /\ what \in Entries
<1>1. ClientType /\ todo \in StepSeq /\ Program(todo, connected, op) /\ connected \in BOOLEAN /\ ReplyInv
  BY DEF ClientInv, ClientType, StepSeq, ProgramInv
<1>2. /\ todo # <<>> /\ todo[1] \in Kinds \X Names /\ Nth(todo, 1) = todo[1]
      /\ todo[1][1] = what /\ Head(todo)[2] = todo[1][2]
  BY <1>1, AtIs
<1>3. /\ Fits(todo[1], Nth(todo, 2), Nth(todo, 3))
      /\ Nth(Tail(todo), 1) = Nth(todo, 2) /\ Nth(Tail(todo), 2) = Nth(todo, 3)
  BY <1>1, <1>2, NextIs
<1>4. what # "none"
  BY DEF Kinds, Closers, Quiets
<1>5. (what \in Entries => own) /\ Settled
  BY <1>1, <1>2, ReplyInvIs
<1> QED
  BY <1>1, <1>2, <1>3, <1>4, <1>5 DEF Settled, Owed, KeptWhere

\* The types, by their parts.
LEMMA TypesAre ==
  ASSUME ClientInv
  PROVE  ClientVars /\ RemoteVars /\ todo \in StepSeq /\ (op = "none" => todo = <<>>)
BY ClientTypeIs DEF ClientInv

\* Before and after a call nothing is owed.
LEMMA IdleIs ==
  ASSUME ClientInv, todo = <<>>
  PROVE  Nth(todo, 1) = Absent /\ (~disturbed => Held /\ Quiet /\ KeptWhere)
<1>1. Nth(todo, 1) = Absent /\ ReplyInv
  BY DEF Nth, ClientInv
<1>2. ~disturbed => Held /\ Owed /\ KeptWhere
  BY <1>1, ReplyInvIs DEF Settled
<1>3. Owed => Quiet
  BY <1>1, AbsentIs DEF Owed, OwedAt
<1> QED
  BY <1>1, <1>2, <1>3

\* A call that begins owes nothing to the last, or that one was cut short.
LEMMA SettledStart ==
  ASSUME ClientInv, NEW o \in Operations, Start(o)
  PROVE  Settled'
<1>1. todo = <<>>
  BY TypesAre DEF Start
<1>2. (todo' # <<>> => todo'[1][1] \in Entries) /\ todo' \in StepSeq
  BY StartGoes DEF Goes
<1>3. Nth(todo', 1)[1] \in Entries \cup {"none"}
  BY <1>2, FirstIs, AbsentIs
<1>4. /\ own' /\ disturbed' = disturbed /\ toServer' = toServer /\ toClient' = toClient /\ link' = link
      /\ transfer' = transfer /\ cached' = cached /\ connected' = connected
  BY DEF Start, control, remote, client
<1>5. ~disturbed => (Held /\ Quiet /\ KeptWhere)'
  <2>1. ~disturbed => Held /\ Quiet /\ KeptWhere
    BY <1>1, IdleIs
  <2>2. Held => Held'
    BY <1>4 DEF Held
  <2>3. Quiet => Quiet'
    BY <1>4 DEF Quiet, Goodbye
  <2>4. KeptWhere => KeptWhere'
    BY <1>2, <1>3, <1>4 DEF KeptWhere
  <2> QED
    BY <2>1, <2>2, <2>3, <2>4
<1>6. Quiet' => Owed'
  BY QuietOwes, PTL
<1> QED
  BY <1>4, <1>5, <1>6 DEF Settled

\* OnReturn leaves only replies of a call that was cut short.
LEMMA SettledReturn ==
  ASSUME ClientInv, Return
  PROVE  Settled'
<1>1. todo = <<>> /\ todo' = <<>> /\ Overtake /\ toServer' = Overtaken
  BY DEF Return
<1>2. /\ own' = own /\ disturbed' = disturbed /\ link' = link /\ cached' = cached /\ connected' = connected
  BY DEF Return, history
<1>3. SUFFICES ASSUME ~disturbed PROVE (Held /\ Quiet /\ KeptWhere)'
  <2>1. Quiet' => Owed'
    BY QuietOwes, PTL
  <2> QED
    BY <1>2, <1>3, <2>1 DEF Settled
<1>4. Held /\ Quiet /\ KeptWhere
  BY <1>1, <1>3, IdleIs
<1>5. toServer' = <<>> /\ transfer' = NoTransfer /\ toClient' = toClient
  BY <1>1, <1>4, TypesAre, QuietOvertake DEF ClientVars
<1>6. Held'
  BY <1>2, <1>4, <1>5, NoTransferIs DEF Held
<1>7. Quiet'
  BY <1>2, <1>4, <1>5 DEF Quiet, Goodbye
<1>8. KeptWhere'
  BY <1>1, <1>2, <1>4 DEF KeptWhere
<1> QED
  BY <1>6, <1>7, <1>8

\* Abort touches no reply.
LEMMA SettledAbort ==
  ASSUME ClientInv, Abort \/ UNCHANGED vars
  PROVE  ReplyInv'
<1>1. /\ own' = own /\ disturbed' = disturbed /\ link' = link /\ cached' = cached /\ connected' = connected
      /\ todo' = todo /\ toServer' = toServer /\ toClient' = toClient /\ transfer' = transfer
  <2>1. CASE Abort
    BY <2>1 DEF Abort, call, control, remote
  <2>2. CASE UNCHANGED vars
    BY <2>2 DEF vars, call, control, remote, client, history
  <2> QED
    BY <2>1, <2>2
<1>2. ReplyInv
  BY DEF ClientInv
<1>3. /\ Quiet' = Quiet /\ OneOwed' = OneOwed /\ TwoOwed' = TwoOwed
  BY <1>1 DEF Quiet, OneOwed, TwoOwed, Goodbye, Asked, Replied
<1>4. Owed' = Owed
  BY <1>1, <1>3 DEF Owed, OwedAt
<1>5. Held' = Held /\ KeptWhere' = KeptWhere
  BY <1>1 DEF Held, KeptWhere
<1>6. ((Nth(todo, 1)[1] \in Entries => own) /\ Settled)'
  BY <1>1, <1>2, <1>4, <1>5, ReplyInvIs DEF Settled
<1> QED
  BY <1>6, ReplyInvIs, PTL

\* The server answers what it was asked, once.
LEMMA SettledServer ==
  ASSUME ClientInv, Server
  PROVE  ReplyInv'
<1>1. /\ RemoteVars /\ ReplyInv
  BY TypesAre DEF ClientInv
<1>2. /\ own' = own /\ disturbed' = disturbed /\ todo' = todo /\ cached' = cached /\ connected' = connected
  BY DEF Server, Answer, FinishTransfer, Drop, call, client, history
<1>3. (Quiet => Quiet') /\ (OneOwed => OneOwed') /\ (TwoOwed => TwoOwed')
  BY <1>1, AnswerOwes, FinishOwes, DropOwes DEF Server
<1>4. Owed => Owed'
  BY <1>2, <1>3 DEF Owed, OwedAt
<1>5. KeptWhere => KeptWhere'
  BY <1>2 DEF KeptWhere
<1>6. ASSUME Held PROVE Held'
  <2>1. /\ \A i \in DOMAIN toClient : toClient[i].own
        /\ \A i \in DOMAIN toServer : toServer[i].own
        /\ transfer.own /\ own
    BY <1>6 DEF Held
  <2>2. ASSUME NEW d \in Replies, d.own, toClient' = Append(toClient, d)
        PROVE  \A i \in DOMAIN toClient' : toClient'[i].own
    <3>1. /\ toClient \in Seq(Replies)
      BY <1>1 DEF RemoteVars
    <3>2. /\ DOMAIN toClient' = 1..(Len(toClient) + 1) /\ toClient'[Len(toClient) + 1] = d
          /\ \A i \in 1..Len(toClient) : toClient'[i] = toClient[i]
      BY <2>2, <3>1
    <3>3. DOMAIN toClient = 1..Len(toClient) /\ Len(toClient) \in Nat
      BY <3>1
    <3> QED
      BY <2>1, <2>2, <3>2, <3>3
  <2>3. CASE Answer
    <3>1. toServer # <<>> /\ toServer' = Tail(toServer) /\ toServer \in Seq(Commands)
      BY <1>1, <2>3 DEF Answer, RemoteVars
    <3>2. Head(toServer) = toServer[1] /\ toServer[1] \in Commands /\ toServer[1].own
      BY <2>1, <3>1, TailOf
    <3>3. PICK digit \in Answers(toServer[1].cmd) :
            /\ toClient' = Append(toClient, [code |-> digit, own |-> toServer[1].own])
            /\ transfer' = IF digit = 1 THEN toServer[1] ELSE transfer
      BY <2>3, <3>2 DEF Answer
    <3>4. transfer'.own
      BY <2>1, <3>2, <3>3
    <3>5. \A i \in DOMAIN toServer' : toServer'[i].own
      BY <2>1, <3>1, TailOf
    <3>6. digit \in Codes
      BY <3>3 DEF Answers, Codes
    <3>7. [code |-> digit, own |-> toServer[1].own] \in Replies /\ [code |-> digit, own |-> toServer[1].own].own
      BY <3>2, <3>6 DEF Replies
    <3> QED
      BY <1>2, <2>1, <2>2, <3>3, <3>4, <3>5, <3>7 DEF Held
  <2>4. CASE FinishTransfer
    <3>1. PICK digit \in {2, 4} : toClient' = Append(toClient, [code |-> digit, own |-> transfer.own])
      BY <2>4 DEF FinishTransfer
    <3>2. [code |-> digit, own |-> transfer.own] \in Replies /\ [code |-> digit, own |-> transfer.own].own
      BY <2>1 DEF Replies, Codes
    <3>3. toServer' = toServer /\ transfer' = NoTransfer
      BY <2>4 DEF FinishTransfer
    <3> QED
      BY <1>2, <2>1, <2>2, <3>1, <3>2, <3>3, NoTransferIs DEF Held
  <2>5. CASE Drop
    <3>1. toServer' = <<>> /\ transfer' = NoTransfer
          /\ (toClient' = toClient \/ toClient' = Append(toClient, [NoReply EXCEPT !.code = 421]))
      BY <2>5 DEF Drop
    <3>2. [NoReply EXCEPT !.code = 421] \in Replies /\ [NoReply EXCEPT !.code = 421].own
      BY NoReplyIs DEF Codes
    <3>3. \A i \in DOMAIN toClient' : toClient'[i].own
      BY <2>1, <2>2, <3>1, <3>2
    <3> QED
      BY <1>2, <2>1, <3>1, <3>3, NoTransferIs DEF Held
  <2> QED
    BY <2>3, <2>4, <2>5 DEF Server
<1>7. ((Nth(todo, 1)[1] \in Entries => own) /\ Settled)'
  BY <1>1, <1>2, <1>4, <1>5, <1>6, ReplyInvIs DEF Settled
<1> QED
  BY <1>7, ReplyInvIs, PTL

\* IsConnected reads what it peeked at back, or connects anew.
LEMMA SettledIsConnected ==
  ASSUME ClientInv, IsConnected
  PROVE  (Nth(todo', 1)[1] \in Entries => own') /\ Settled'
<1> DEFINE alive == connected /\ (link = "up" \/ toClient' # <<>>)
<1>1. /\ own /\ own' = own /\ todo \in StepSeq /\ Nth(Tail(todo), 1) = Nth(todo, 2)
      /\ Fits(todo[1], Nth(todo, 2), Nth(todo, 3)) /\ todo[1][1] = "alive"
      /\ ~disturbed => Held /\ OwedAt(todo[1], Nth(todo, 2)) /\ (cached => ~connected)
  BY Before DEF IsConnected, Kinds, Entries
<1>2. ~disturbed => Held /\ Quiet /\ (cached => ~connected)
  BY <1>1 DEF OwedAt
<1>3. RemoteVars /\ ClientVars
  BY TypesAre
<1>4. ASSUME ~disturbed'
      PROVE  /\ ~disturbed
             /\ \/ toClient' = toClient /\ cached' = cached /\ (connected => link = "up" /\ toClient = <<>>)
                \/ toClient' = <<>> /\ link # "up" /\ connected
  <2>1. CASE Waiting
    <3>1. PICK r \in Replies : ReceiveLine(r)
      BY <2>1 DEF IsConnected, PeekResponseCode
    <3>2. /\ ~disturbed
          /\ \/ link # "up" /\ toClient' = <<>>
             \/ toClient # <<>> /\ toClient' = Tail(toClient)
      BY <1>3, <1>4, <3>1, ReceiveIs DEF ClientVars
    <3>3. toClient # <<>> => Tail(toClient) = <<>> /\ link # "up"
      BY <1>2, <1>3, <3>2, TailOf DEF Quiet, Goodbye, RemoteVars
    <3> QED
      BY <2>1, <3>2, <3>3 DEF Waiting
  <2>2. CASE ~Waiting
    BY <1>4, <2>2 DEF IsConnected, PeekResponseCode, Waiting
  <2> QED
    BY <2>1, <2>2
<1>5. Nth(todo', 1)[1] \in Entries => own'
  BY <1>1
<1>6. CASE alive
  <2>1. todo' = Tail(todo) /\ connected
    BY <1>6 DEF IsConnected
  <2>2. UNCHANGED <<connected, link, toServer, transfer>>
    BY <1>6 DEF IsConnected, remote
  <2>3. ASSUME ~disturbed' PROVE (Held /\ Quiet /\ KeptWhere)'
    <3>1. Held /\ Quiet /\ (cached => ~connected) /\ toClient' = toClient /\ cached' = cached
      BY <1>2, <1>4, <1>6, <2>3
    <3>2. Held'
      BY <1>1, <2>2, <3>1 DEF Held
    <3>3. Quiet'
      BY <2>2, <3>1 DEF Quiet, Goodbye
    <3>4. KeptWhere'
      BY <2>1, <3>1 DEF KeptWhere
    <3> QED
      BY <3>2, <3>3, <3>4
  <2>4. Quiet' => Owed'
    BY QuietOwes, PTL
  <2> QED
    BY <1>5, <2>3, <2>4 DEF Settled
<1>7. CASE ~alive
  <2>1. /\ connected' = FALSE
        /\ \/ link' = "closed" /\ toServer' = <<>> /\ transfer' = NoTransfer
           \/ UNCHANGED <<link, toServer, transfer>>
    <3>1. CASE connected
      BY <1>7, <3>1, ClosedLink DEF IsConnected
    <3>2. CASE ~connected
      BY <1>3, <3>2 DEF IsConnected, remote, ClientVars
    <3> QED
      BY <3>1, <3>2
  <2>2. Nth(todo', 1)[1] \in Entries \cup {"none"}
    <3>1. CASE op = "noop"
      <4>1. todo' = <<>>
        BY <1>7, <3>1 DEF IsConnected
      <4> QED
        BY <4>1 DEF Nth, Absent, Do
    <3>2. CASE op # "noop"
      <4>1. todo' = ConnectSteps \o Tail(todo)
        BY <1>7, <3>2 DEF IsConnected
      <4>2. /\ Program(todo, connected, op) /\ TypeInv /\ ClientType /\ secure \in BOOLEAN /\ wanted \in BOOLEAN
            /\ connected \in BOOLEAN /\ todo # <<>>
        BY Before DEF ClientInv, ProgramInv, ClientType, IsConnected, Kinds
      <4>3. TypesAhead(todo, wanted)
        BY <1>1, <4>2, AheadIs DEF Prepares, Carries, Sends
      <4>4. todo' \in StepSeq /\ todo' # <<>> /\ todo'[1][1] = "open"
        BY <1>1, <4>1, <4>2, <4>3, Reconnect
      <4>5. Nth(todo', 1) = todo'[1]
        BY <4>4, FirstIs
      <4> QED
        BY <4>4, <4>5 DEF Entries
    <3> QED
      BY <3>1, <3>2
  <2>3. ASSUME ~disturbed' PROVE (Held /\ Quiet /\ KeptWhere)'
    <3>1. Held /\ Quiet
      BY <1>2, <1>4, <2>3
    <3>2. toClient' = <<>> \/ (toClient' = toClient /\ UNCHANGED <<link, toServer, transfer>>)
      <4>1. CASE connected
        BY <1>4, <1>7, <2>3, <4>1
      <4>2. CASE ~connected
        BY <1>4, <2>1, <2>3, <4>2 DEF IsConnected, remote
      <4> QED
        BY <1>3, <4>1, <4>2 DEF ClientVars
    <3>3. Quiet'
      BY <2>1, <3>1, <3>2 DEF Quiet, Goodbye
    <3>4. Held'
      <4>1. toServer' = <<>> /\ transfer' = NoTransfer
        BY <2>1, <3>1 DEF Quiet
      <4>2. \A i \in DOMAIN toClient' : toClient'[i].own
        BY <3>1, <3>2 DEF Held
      <4> QED
        BY <1>1, <4>1, <4>2, NoTransferIs DEF Held
    <3>5. KeptWhere'
      BY <2>1, <2>2 DEF KeptWhere
    <3> QED
      BY <3>3, <3>4, <3>5
  <2>4. Quiet' => Owed'
    BY QuietOwes, PTL
  <2> QED
    BY <1>5, <2>3, <2>4 DEF Settled
<1> QED
  BY <1>6, <1>7

\* Where nothing is owed after a step.
LEMMA SettledQuiet ==
  ASSUME ~disturbed' => (Held /\ Quiet /\ KeptWhere)'
  PROVE  Settled'
<1>1. Quiet' => Owed'
  BY QuietOwes, PTL
<1> QED
  BY <1>1 DEF Settled

\* Where a step leaves the control connection alone.
LEMMA SettledSame ==
  ASSUME UNCHANGED <<control, remote, own, cached>>, connected' \in {connected, TRUE}
  PROVE  (Quiet => Quiet') /\ (OneOwed => OneOwed') /\ (TwoOwed => TwoOwed') /\ (Held => Held')
<1>1. UNCHANGED <<toServer, toClient, link, transfer, own>>
  BY DEF control, remote
<1>2. Goodbye(toClient) => Goodbye(toClient)'
  BY <1>1 DEF Goodbye
<1> QED
  BY <1>1, SMTT(30) DEF Quiet, OneOwed, TwoOwed, Held, Asked, Replied, Goodbye

\* A new connection owes the greeting only.
LEMMA SettledOpen ==
  ASSUME ClientInv, Open
  PROVE  Settled'
<1>1. /\ own /\ own' = own /\ Fits(todo[1], Nth(todo, 2), Nth(todo, 3)) /\ Nth(Tail(todo), 1) = Nth(todo, 2)
      /\ todo[1][1] = "open"
  BY Before DEF Open, Kinds, Entries
<1>2. cached' = FALSE
  BY DEF Open, ClearResponse
<1>3. CASE CloseLink("closed") /\ toClient' = <<>>
  <2>1. link' = "closed" /\ toServer' = <<>> /\ transfer' = NoTransfer
    BY <1>3, ClosedLink
  <2>2. Held' /\ Quiet' /\ KeptWhere'
    BY <1>1, <1>2, <1>3, <2>1, NoTransferIs DEF Held, Quiet, KeptWhere, Goodbye
  <2> QED
    BY <2>2, SettledQuiet
<1>4. ASSUME CloseLink("up"), GoOn, NEW digit \in {2, 4}, toClient' = <<[NoReply EXCEPT !.code = digit]>>
      PROVE  Settled'
  <2>1. link' = "up" /\ toServer' = <<>> /\ transfer' = NoTransfer
    BY <1>4, ClosedLink
  <2> DEFINE r == [NoReply EXCEPT !.code = digit]
  <2>2. r \in Replies /\ r.own
    BY NoReplyIs DEF Codes
  <2> HIDE DEF r
  <2>3. toClient' = <<r>>
    BY <1>4 DEF r
  <2>4. toClient' # <<>> /\ Tail(toClient') = <<>> /\ \A i \in DOMAIN toClient' : toClient'[i].own
    BY <2>2, <2>3
  <2>5. Held' /\ KeptWhere'
    BY <1>1, <1>2, <2>1, <2>4, NoTransferIs DEF Held, KeptWhere
  <2>6. OneOwed'
    BY <2>1, <2>4 DEF OneOwed, Replied, Goodbye
  <2>7. Reads(Nth(todo', 1), {"hello"})
    BY <1>1, <1>4 DEF Fits, GoOn
  <2>8. Owed'
    BY <2>6, <2>7 DEF Owed, OwedAt, Reads, Quiets, Transfers
  <2> QED
    BY <2>5, <2>8 DEF Settled
<1> QED
  BY <1>3, <1>4 DEF Open

\* The steps that neither send nor read change nothing that is owed.
LEMMA SettledConnect ==
  ASSUME ClientInv, ConnectSSL \/ Connected \/ WaitForConnect \/ CheckAborted
  PROVE  Settled'
<1>1. \E what \in {"tls", "connected", "listen", "check"} : At(what)
  BY DEF ConnectSSL, Connected, WaitForConnect, CheckAborted
<1>2. ~disturbed => Held /\ Quiet /\ ~cached
  <2>1. PICK what \in {"tls", "connected", "listen", "check"} : At(what)
    BY <1>1
  <2>2. todo[1][1] = what /\ (~disturbed => Held /\ OwedAt(todo[1], Nth(todo, 2)) /\ (cached => what \in Entries))
    BY <2>1, Before DEF Kinds, Quiets
  <2> QED
    BY <2>2 DEF OwedAt, Quiets, Entries
<1>3. disturbed' = disturbed /\ own' = own /\ cached' = cached
  BY DEF ConnectSSL, Connected, WaitForConnect, CheckAborted, history, client
<1>4. toServer' = toServer /\ transfer' = transfer /\ ((toClient' = toClient /\ link' = link) \/ toClient' = <<>>)
  <2>1. CASE ConnectSSL
    BY <2>1 DEF ConnectSSL, remote
  <2>2. CASE Connected
    BY <2>2 DEF Connected, control, remote
  <2>3. CASE WaitForConnect
    BY <2>3 DEF WaitForConnect, control, remote
  <2>4. CASE CheckAborted
    BY <2>4 DEF CheckAborted, control, remote
  <2> QED
    BY <2>1, <2>2, <2>3, <2>4
<1>5. Held => Held'
  BY <1>3, <1>4 DEF Held
<1>6. Quiet => Quiet'
  BY <1>4 DEF Quiet, Goodbye
<1> QED
  BY <1>2, <1>3, <1>5, <1>6, SettledQuiet DEF KeptWhere

\* Disconnect drops what was owed.
LEMMA SettledDisconnect ==
  ASSUME ClientInv, Disconnect
  PROVE  Settled'
<1>1. own /\ own' = own
  BY Before DEF Disconnect, Kinds, Entries, history
<1>2. todo' = <<>>
  BY DisconnectGoes
<1>3. link' = "closed" /\ toServer' = <<>> /\ transfer' = NoTransfer /\ toClient' = <<>> /\ connected' = FALSE
  BY ClosedLink DEF Disconnect
<1>4. Held' /\ Quiet'
  BY <1>1, <1>3, NoTransferIs DEF Held, Quiet, Goodbye
<1>5. Nth(todo', 1)[1] = "none"
  BY <1>2 DEF Nth, Absent, Do
<1>6. KeptWhere'
  BY <1>3, <1>5 DEF KeptWhere
<1> QED
  BY <1>4, <1>6, SettledQuiet

\* SendCommand owes the reply that the next step reads.
LEMMA SettledSend ==
  ASSUME ClientInv, SendCommand
  PROVE  Settled'
<1>1. /\ Head(todo)[2] = todo[1][2] /\ todo[1] \in Kinds \X Names /\ todo[1][1] = "send"
      /\ Fits(todo[1], Nth(todo, 2), Nth(todo, 3))
      /\ Nth(Tail(todo), 1) = Nth(todo, 2) /\ Nth(Tail(todo), 2) = Nth(todo, 3)
      /\ ~disturbed => Held /\ OwedAt(todo[1], Nth(todo, 2)) /\ (cached => "send" \in Entries)
  BY Before DEF SendCommand, Kinds, Quiets
<1>2. ~disturbed => Held /\ Quiet /\ ~cached
  BY <1>1 DEF OwedAt, Quiets, Entries
<1>3. disturbed' = disturbed /\ own' = own /\ cached' = cached /\ link' = link /\ todo' = Tail(todo) /\ Overtake
  BY DEF SendCommand, history, GoOn
<1>4. SUFFICES ASSUME ~disturbed PROVE Held' /\ Owed' /\ KeptWhere'
  BY <1>3 DEF Settled
<1>5. Overtaken = <<>> /\ transfer' = NoTransfer /\ toClient' = toClient
  BY <1>2, <1>3, <1>4, TypesAre, QuietOvertake DEF ClientVars
<1>6. KeptWhere'
  BY <1>2, <1>3, <1>4 DEF KeptWhere
<1>7. own' /\ transfer'.own /\ \A i \in DOMAIN toClient' : toClient'[i].own
  BY <1>2, <1>3, <1>4, <1>5, NoTransferIs DEF Held
<1> DEFINE d == [cmd |-> todo[1][2], own |-> TRUE]
<1>8. d.own /\ d.cmd = todo[1][2]
  OBVIOUS
<1> HIDE DEF d
<1>9. toServer' = IF link # "up" THEN <<>> ELSE Append(<<>>, d)
  BY <1>1, <1>5 DEF SendCommand, d
<1>10. CASE link # "up"
  <2>1. toServer' = <<>>
    BY <1>9, <1>10
  <2>2. Quiet'
    BY <1>2, <1>3, <1>4, <1>5, <2>1 DEF Quiet, Goodbye
  <2>3. Quiet' => Owed'
    BY QuietOwes, PTL
  <2> QED
    BY <1>6, <1>7, <2>1, <2>2, <2>3 DEF Held
<1>11. CASE link = "up"
  <2>1. toServer' = <<d>>
    BY <1>9, <1>11
  <2>2. Len(toServer') = 1 /\ toServer'[1] = d /\ \A i \in DOMAIN toServer' : toServer'[i] = d
    BY <2>1
  <2>3. toClient' = <<>>
    BY <1>2, <1>4, <1>5, <1>11 DEF Quiet, Goodbye
  <2>4. Asked' /\ toServer'[1].cmd = todo[1][2]
    BY <1>3, <1>5, <1>8, <1>11, <2>2, <2>3 DEF Asked
  <2>5. IF todo[1][2] \in Transfers THEN TwoOwed' ELSE OneOwed'
    BY <2>4 DEF TwoOwed, OneOwed
  <2>6. \/ Reads(Nth(todo', 1), {todo[1][2]})
        \/ Nth(todo', 1)[1] = "data" /\ todo[1][2] \in Transfers /\ Nth(todo', 2)[1] = "read"
    BY <1>1, <1>3 DEF Fits, Reads
  <2>7. Owed'
    BY <2>5, <2>6 DEF Owed, OwedAt, Reads, Quiets, Closers
  <2> QED
    BY <1>6, <1>7, <1>8, <2>2, <2>7 DEF Held
<1> QED
  BY <1>10, <1>11

\* The transfers change nothing that is owed.
LEMMA SettledData ==
  ASSUME ClientInv, OpenData \/ OpenDataFails \/ Lines \/ LinesCut \/ ReceiveAll \/ ReceiveCut \/ SendAll \/ SendCut
  PROVE  Settled'
<1>1. \E what \in {"data"} \cup Closers : At(what)
  BY DEF OpenData, OpenDataFails, Lines, LinesCut, ReceiveAll, ReceiveCut, SendAll, SendCut, Data, Closers
<1>2. /\ todo[1][1] \in {"data"} \cup Closers
      /\ Fits(todo[1], Nth(todo, 2), Nth(todo, 3)) /\ Nth(Tail(todo), 1) = Nth(todo, 2)
      /\ ~disturbed => Held /\ OwedAt(todo[1], Nth(todo, 2)) /\ ~cached
  <2>1. PICK what \in {"data"} \cup Closers : At(what)
    BY <1>1
  <2>2. /\ todo[1][1] = what /\ (~disturbed => Held /\ OwedAt(todo[1], Nth(todo, 2)) /\ (cached => what \in Entries))
        /\ Fits(todo[1], Nth(todo, 2), Nth(todo, 3)) /\ Nth(Tail(todo), 1) = Nth(todo, 2)
    BY <2>1, Before DEF Kinds
  <2> QED
    BY <2>2 DEF Entries, Closers
<1>3. own' = own /\ cached' = cached /\ connected' = connected /\ (~disturbed' => ~disturbed)
  <2>1. CASE OpenData
    BY <2>1 DEF OpenData, history
  <2>5. CASE OpenDataFails
    <3>1. own' = own /\ cached' = cached /\ connected' = connected
      BY <2>5 DEF OpenDataFails
    <3>2. ~disturbed' => ~disturbed
      BY <2>5, Zenon DEF OpenDataFails
    <3> QED
      BY <3>1, <3>2
  <2>2. CASE Lines \/ LinesCut
    BY <2>2 DEF Lines, LinesCut, Data
  <2>3. CASE ReceiveAll \/ SendAll \/ SendCut
    BY <2>3 DEF ReceiveAll, SendAll, SendCut, Data
  <2>4. CASE ReceiveCut
    BY <2>4 DEF ReceiveCut, Data
  <2> QED
    BY <2>1, <2>2, <2>3, <2>4, <2>5
<1>4. ~disturbed' => KeptWhere'
  BY <1>2, <1>3 DEF KeptWhere
<1>5. CASE OpenDataFails
  <2>1. toServer' = toServer /\ transfer' = transfer /\ toClient' = <<>>
    BY <1>5 DEF OpenDataFails, remote
  <2>2. ~disturbed' => toServer = <<>> /\ transfer = NoTransfer
    BY <1>5 DEF OpenDataFails
  <2>3. ~disturbed' => Quiet'
    BY <2>1, <2>2 DEF Quiet, Goodbye
  <2>4. ~disturbed' => Held'
    BY <1>2, <1>3, <2>1 DEF Held
  <2> QED
    BY <1>4, <2>3, <2>4, SettledQuiet
<1>6. CASE ~OpenDataFails
  <2>1. UNCHANGED <<control, remote, own, cached>>
    BY <1>3, <1>6 DEF OpenData, Lines, LinesCut, ReceiveAll, ReceiveCut, SendAll, SendCut, Data
  <2>2. (OneOwed => OneOwed') /\ (TwoOwed => TwoOwed') /\ (Held => Held')
    BY <1>3, <2>1, SettledSame
  <2>3. CASE OpenData
    <3>1. todo[1][1] = "data" /\ todo' = Tail(todo)
      BY <2>3, Before DEF OpenData, GoOn, Kinds
    <3>2. Nth(todo', 1)[1] \in Closers \/ Reads(Nth(todo', 1), Transfers)
      BY <1>2, <3>1 DEF Fits
    <3>3. ~disturbed => IF Nth(todo', 1)[1] = "read" THEN TwoOwed ELSE OneOwed
      BY <1>2, <3>1 DEF OwedAt
    <3>4. ~disturbed => Owed'
      BY <2>2, <3>2, <3>3 DEF Owed, OwedAt, Reads, Quiets, Closers
    <3> QED
      BY <1>2, <1>3, <1>4, <2>2, <3>4 DEF Settled
  <2>4. CASE ~OpenData
    <3>1. \E what \in Closers : At(what)
      BY <1>6, <2>4 DEF Lines, LinesCut, ReceiveAll, ReceiveCut, SendAll, SendCut, Data, Closers
    <3>2. todo[1][1] \in Closers
      BY <3>1, Before DEF Kinds
    <3>3. ~disturbed => OneOwed'
      BY <1>2, <2>2, <3>2 DEF OwedAt
    <3>4. disturbed' \/ Reads(Nth(todo', 1), {"end", "late"})
      <4>1. CASE todo' = Tail(todo)
        BY <1>2, <3>2, <4>1 DEF Fits, Reads
      <4>2. CASE todo' = <<Read("late")>>
        BY <4>2 DEF Nth, Read, Reads
      <4> QED
        BY <1>6, <2>4, <4>1, <4>2 DEF Lines, LinesCut, ReceiveAll, ReceiveCut, SendAll, SendCut, GoOn
    <3>5. ~disturbed' => Owed'
      BY <1>3, <3>3, <3>4 DEF Owed, OwedAt, Reads, Quiets, Closers, Transfers
    <3> QED
      BY <1>2, <1>3, <1>4, <2>2, <3>5 DEF Settled
  <2> QED
    BY <2>3, <2>4
<1> QED
  BY <1>5, <1>6

\* A reply that is read where none is owed to anybody else.
Reading(r) ==
  /\ ~disturbed
  /\ \/ link # "up" /\ toClient = <<>> /\ toClient' = <<>> /\ r = NoReply
     \/ toClient # <<>> /\ r = toClient[1] /\ toClient' = Tail(toClient)

\* Reading a reply, whatever it is: the call goes on, reads a late reply, or is refused.
LEMMA ReadIs ==
  ASSUME ClientInv, ReadReply
  PROVE  \E r \in Replies :
           /\ last' = r /\ own' = (own /\ r.own) /\ (~disturbed' => Reading(r))
           /\ ~disturbed /\ r.code # 0 => ~disturbed'
           /\ \/ Usable(todo[1][2], r) /\ todo' = Rest(todo[1][2], r) /\ UNCHANGED <<link, toServer>>
              \/ /\ ~Usable(todo[1][2], r) /\ todo[1][2] = "end" /\ todo' = Again
                 /\ UNCHANGED <<link, toServer>>
              \/ ~Usable(todo[1][2], r) /\ Refused(todo[1][2])
<1>1. Head(todo)[2] = todo[1][2] /\ (~disturbed => ~cached)
  <2>1. /\ Head(todo)[2] = todo[1][2]
        /\ ~disturbed => (cached => "read" \in Entries)
    BY Before DEF ReadReply, Kinds
  <2> QED
    BY <2>1 DEF Entries
<1>2. PICK r \in Replies :
        /\ GetResponseCode(r) /\ last' = r /\ own' = (own /\ r.own)
        /\ \/ Usable(todo[1][2], r) /\ todo' = Rest(todo[1][2], r) /\ UNCHANGED <<link, toServer>>
           \/ /\ ~Usable(todo[1][2], r) /\ todo[1][2] = "end" /\ todo' = Again
              /\ UNCHANGED <<link, toServer>>
           \/ ~Usable(todo[1][2], r) /\ Refused(todo[1][2])
  BY <1>1 DEF ReadReply
<1>3. ASSUME ~disturbed' PROVE Reading(r)
  <2>1. ~cached
    BY <1>1, <1>2, <1>3 DEF GetResponseCode
  <2>2. ReceiveLine(r)
    BY <1>2, <2>1 DEF GetResponseCode
  <2> QED
    BY <1>3, <2>2, TypesAre, ReceiveIs DEF ClientVars, Reading
<1>4. ASSUME ~disturbed, r.code # 0 PROVE ~disturbed'
  <2>1. ReceiveLine(r)
    BY <1>1, <1>2, <1>4 DEF GetResponseCode
  <2> QED
    BY <1>4, <2>1, NoReplyIs DEF ReceiveLine, Cut
<1> QED
  BY <1>2, <1>3, <1>4

\* It is the one that is owed.
LEMMA ReadingOwes ==
  ASSUME RemoteVars, NEW r \in Replies, Reading(r), transfer' = transfer,
         toServer' \in {toServer, <<>>}, link' \in {link, "closed"}
  PROVE  /\ OneOwed => Quiet'
         /\ TwoOwed /\ r.code # 1 => Quiet'
         /\ TwoOwed /\ link' = link => OneOwed'
         /\ (\A i \in DOMAIN toClient : toClient[i].own) =>
              r.own /\ (\A i \in DOMAIN toClient' : toClient'[i].own)
<1>1. toClient \in Seq(Replies) /\ toServer \in Seq(Commands)
  BY DEF RemoteVars
<1>2. CASE toClient = <<>>
  <2>1. link # "up" /\ link' # "up" /\ toClient' = <<>> /\ r = NoReply
    BY <1>2 DEF Reading
  <2>2. Quiet => Quiet'
    BY <2>1 DEF Quiet, Goodbye
  <2>3. (OneOwed => Quiet) /\ (TwoOwed => Quiet)
    BY <1>2, <2>1 DEF OneOwed, TwoOwed, Asked, Replied
  <2> QED
    BY <1>2, <2>1, <2>2, <2>3, NoReplyIs DEF OneOwed
<1>3. CASE toClient # <<>>
  <2>1. r = toClient[1] /\ toClient' = Tail(toClient) /\ Head(toClient) = toClient[1]
    BY <1>1, <1>3, TailOf DEF Reading
  <2>2. Quiet \/ Replied => Quiet'
    <3>1. Quiet => toClient' = <<>>
      BY <1>1, <1>3, <2>1, TailOf DEF Quiet, Goodbye
    <3>2. Goodbye(Tail(toClient)) => Goodbye(toClient)'
      BY <2>1 DEF Goodbye
    <3> QED
      BY <3>1, <3>2 DEF Quiet, Replied, Goodbye
  <2>3. OneOwed => Quiet \/ Replied
    BY <1>3 DEF OneOwed, Asked
  <2>4. TwoOwed => \/ Quiet \/ Replied
                   \/ /\ toServer = <<>> /\ r.code = 1
                      /\ IF transfer = NoTransfer
                         THEN toClient' = <<>> \/ Goodbye(Tail(toClient'))
                         ELSE toClient' = <<>> /\ link = "up"
    <3>1. TwoOwed => \/ Quiet \/ Replied
                     \/ /\ toServer = <<>> /\ r.code = 1
                        /\ IF transfer = NoTransfer
                           THEN Tail(toClient) = <<>> \/ Goodbye(Tail(Tail(toClient)))
                           ELSE Tail(toClient) = <<>> /\ link = "up"
      BY <1>3, <2>1 DEF TwoOwed, Asked
    <3> QED
      BY <2>1, <3>1
  <2>5. TwoOwed /\ link' = link => OneOwed'
    <3>1. CASE Quiet \/ Replied
      BY <2>2, <3>1 DEF OneOwed
    <3>2. ASSUME toServer = <<>>, link' = link, transfer # NoTransfer, toClient' = <<>>, link = "up"
          PROVE  OneOwed'
      BY <3>2 DEF OneOwed
    <3>3. ASSUME toServer = <<>>, link' = link, transfer = NoTransfer,
                 toClient' = <<>> \/ Goodbye(Tail(toClient'))
          PROVE  OneOwed'
      <4>1. toServer' = <<>> /\ transfer' = NoTransfer
        BY <3>3
      <4>2. CASE toClient' = <<>>
        BY <4>1, <4>2 DEF OneOwed, Quiet, Goodbye
      <4>3. CASE toClient' # <<>> /\ Goodbye(Tail(toClient'))
        <5>1. Goodbye(Tail(toClient))'
          BY <3>3, <4>3 DEF Goodbye
        <5> QED
          BY <4>1, <4>3, <5>1 DEF OneOwed, Replied
      <4> QED
        BY <3>3, <4>2, <4>3
    <3> QED
      BY <2>4, <3>1, <3>2, <3>3
  <2>6. (\A i \in DOMAIN toClient : toClient[i].own) => r.own /\ (\A i \in DOMAIN toClient' : toClient'[i].own)
    BY <1>1, <1>3, <2>1, TailOf
  <2> QED
    BY <2>2, <2>3, <2>4, <2>5, <2>6
<1> QED
  BY <1>2, <1>3

\* A reply that is read is the one that was owed.
LEMMA SettledRead ==
  ASSUME ClientInv, ReadReply
  PROVE  Settled'
<1> DEFINE c == todo[1][2]
<1>1. /\ todo \in StepSeq /\ todo # <<>> /\ todo[1] \in Kinds \X Names /\ todo[1][1] = "read"
      /\ Fits(todo[1], Nth(todo, 2), Nth(todo, 3))
      /\ Nth(Tail(todo), 1) = Nth(todo, 2) /\ Nth(Tail(todo), 2) = Nth(todo, 3)
      /\ ~disturbed => Held /\ OwedAt(todo[1], Nth(todo, 2))
  BY Before DEF ReadReply, Kinds
<1>2. PICK r \in Replies :
           /\ own' = (own /\ r.own) /\ (~disturbed' => Reading(r))
           /\ \/ Usable(c, r) /\ todo' = Rest(c, r) /\ UNCHANGED <<link, toServer>>
              \/ ~Usable(c, r) /\ c = "end" /\ todo' = Again /\ UNCHANGED <<link, toServer>>
              \/ ~Usable(c, r) /\ Refused(c)
  BY ReadIs
<1>3. transfer' = transfer /\ cached' = FALSE
  BY DEF ReadReply, remote
<1>4. SUFFICES ASSUME ~disturbed' PROVE Held' /\ Owed'
  BY <1>3 DEF Settled, KeptWhere
<1>5. Reading(r) /\ Held /\ OwedAt(todo[1], Nth(todo, 2))
  BY <1>1, <1>2, <1>4 DEF Reading
<1>6. toServer' \in {toServer, <<>>} /\ link' \in {link, "closed"}
  BY <1>2 DEF Refused
<1>7. /\ OneOwed => Quiet'
      /\ TwoOwed /\ r.code # 1 => Quiet'
      /\ TwoOwed /\ link' = link => OneOwed'
      /\ r.own /\ \A i \in DOMAIN toClient' : toClient'[i].own
  BY <1>3, <1>5, <1>6, TypesAre, ReadingOwes DEF Held
<1>8. Held'
  <2>1. \A i \in DOMAIN toServer' : toServer'[i].own
    BY <1>5, <1>6 DEF Held
  <2> QED
    BY <1>2, <1>3, <1>5, <1>7, <2>1 DEF Held
<1>9. CASE c \notin Transfers
  <2>1. OneOwed
    BY <1>1, <1>5, <1>9 DEF OwedAt
  <2>2. Quiet' => Owed'
    BY QuietOwes, PTL
  <2> QED
    BY <1>7, <1>8, <2>1, <2>2
<1>10. CASE c \in Transfers
  <2>1. TwoOwed
    BY <1>1, <1>5, <1>10 DEF OwedAt, Reads
  <2>2. CASE Usable(c, r) /\ todo' = Rest(c, r) /\ link' = link
    <3>1. todo' = Tail(todo)
      BY <1>10, <2>2 DEF Rest, Transfers
    <3>2. Nth(todo', 1)[1] \in Closers \/ (Nth(todo', 1)[1] = "data" /\ Nth(todo', 2)[1] \in Closers)
      BY <1>1, <1>10, <3>1 DEF Fits, Reads
    <3>3. Owed'
      BY <1>7, <2>1, <2>2, <3>2 DEF Owed, OwedAt, Reads, Quiets, Closers
    <3> QED
      BY <1>8, <3>3
  <2>3. CASE ~Usable(c, r) /\ Refused(c)
    <3>1. r.code \notin {1, 2}
      BY <1>10, <2>3 DEF Usable, Accepted, Transfers
    <3>2. Quiet' => Owed'
      BY QuietOwes, PTL
    <3> QED
      BY <1>7, <1>8, <2>1, <3>1, <3>2
  <2>4. c # "end"
    BY <1>10 DEF Transfers
  <2> QED
    BY <1>2, <2>2, <2>3, <2>4
<1> QED
  BY <1>9, <1>10

\* Every step leaves the replies to those who own them.
LEMMA ReplyNext ==
  ASSUME ClientInv, [Next]_vars
  PROVE  ReplyInv'
<1>1. ASSUME (Nth(todo', 1)[1] \in Entries => own'), Settled' PROVE ReplyInv'
  <2>1. ((Nth(todo, 1)[1] \in Entries => own) /\ Settled)'
    BY <1>1
  <2> QED
    BY <2>1, ReplyInvIs, PTL
<1>2. ASSUME NEW o \in Operations, Start(o) PROVE ReplyInv'
  <2>1. own'
    BY <1>2 DEF Start
  <2> QED
    BY <1>1, <1>2, <2>1, SettledStart
<1>3. CASE Client
  <2>1. CASE IsConnected
    BY <1>1, <2>1, SettledIsConnected
  <2>2. CASE ~IsConnected
    <3>1. Nth(todo', 1)[1] \notin Entries
      BY <1>3, <2>2, EntriesBegin
    <3>2. Settled'
      BY <1>3, <2>2, SettledReturn, SettledOpen, SettledConnect, SettledDisconnect, SettledSend, SettledRead,
         SettledData DEF Client
    <3> QED
      BY <1>1, <3>1, <3>2
  <2> QED
    BY <2>1, <2>2
<1>4. CASE Abort \/ UNCHANGED vars
  BY <1>4, SettledAbort
<1>5. CASE Server
  BY <1>5, SettledServer
<1> QED
  BY <1>2, <1>3, <1>4, <1>5 DEF Next

(***************************************************************************)
(* The login: connected only over a connection that is logged in.          *)
(***************************************************************************)

\* The parts of LoginInv.
LoggedIn == connected => login = "in" /\ NoLoginAsked
LoginAhead ==
  Connecting(todo, connected) /\ Nth(todo, 1)[1] # "open" =>
     IF LogsIn(Nth(todo, 1)) THEN ~disturbed ELSE login = "in" /\ NoLoginAsked
LoginAsked == Reads(Nth(todo, 1), Logins) /\ ~disturbed => LoginIs(Nth(todo, 1)[2])

\* The invariant of the login, by its parts.
LEMMA LoginInvIs == LoginInv <=> LoggedIn /\ LoginAhead /\ LoginAsked
BY DEF LoginInv, LoggedIn, LoginAhead, LoginAsked

\* The invariant of the login after a step, by its parts.
LEMMA LoginInvNext ==
  ASSUME LoggedIn', LoginAhead', LoginAsked'
  PROVE  LoginInv'
BY LoginInvIs, PTL

\* A call either connects or works over the connection.
LEMMA ConnectsOrWorks ==
  ASSUME ClientInv, NEW what \in Kinds \ {"alive", "quit", "open"}, At(what)
  PROVE  /\ connected => Working(todo, connected) /\ Operates(todo[1])
         /\ ~connected => /\ Connecting(todo, connected) /\ (Connects(todo[1]) \/ what = "connected")
                          /\ IF LogsIn(todo[1]) THEN ~disturbed ELSE login = "in" /\ NoLoginAsked
<1>1. /\ todo # <<>> /\ todo \in StepSeq /\ todo[1][1] = what /\ Nth(todo, 1) = todo[1]
      /\ Stage(todo, connected) /\ connected \in BOOLEAN /\ LoginAhead
  BY Before, TypesAre, LoginInvIs DEF ClientInv, ClientVars, ProgramInv, Program
<1>2. 1 \in DOMAIN todo /\ \A j \in DOMAIN todo : j \in Nat /\ j >= 1
  <2>1. Len(todo) \in Nat \ {0} /\ DOMAIN todo = 1..Len(todo)
    BY <1>1, TailIs
  <2> QED
    BY <2>1
<1>3. Connecting(todo, connected) \/ Working(todo, connected)
  BY <1>1, StageIs
<1>4. CASE connected
  <2>1. ~Connecting(todo, connected)
    BY <1>1, <1>4 DEF Connecting
  <2> QED
    BY <1>2, <1>3, <1>4, <2>1 DEF Working
<1>5. CASE ~connected
  <2>1. Connecting(todo, connected)
    BY <1>3, <1>5 DEF Working
  <2>2. Connects(todo[1]) \/ what = "connected"
    BY <1>1, <1>2, <2>1 DEF Connecting, ConnectsTo
  <2> QED
    BY <1>1, <1>5, <2>1, <2>2 DEF LoginAhead
<1> QED
  BY <1>1, <1>4, <1>5

\* After the end of a call, at its entry and while it is connected.
LEMMA NoLoginAhead ==
  ASSUME todo' \in StepSeq,
         \/ todo' = <<>> \/ connected' = TRUE
         \/ todo' # <<>> /\ todo'[1][1] \in Entries
  PROVE  LoginAhead'
<1>1. CASE todo' = <<>>
  BY <1>1 DEF LoginAhead, Connecting
<1>2. CASE connected' = TRUE /\ todo' # <<>>
  <2>1. Nth(todo', 1) = todo'[1]
    BY <1>2, FirstIs
  <2> QED
    BY <1>2, <2>1 DEF LoginAhead, Connecting
<1>3. CASE todo' # <<>> /\ todo'[1][1] \in Entries
  <2>1. Nth(todo', 1) = todo'[1]
    BY <1>3, FirstIs
  <2>2. todo'[1][1] # "open" => ~Connecting(todo', connected')
    <3>1. 1 \in DOMAIN todo' /\ \A j \in DOMAIN todo' : j \in Nat /\ j >= 1
      <4>1. Len(todo') \in Nat \ {0} /\ DOMAIN todo' = 1..Len(todo')
        BY <1>3, TailIs
      <4> QED
        BY <4>1
    <3> QED
      BY <1>3, <3>1 DEF Connecting, ConnectsTo, Connects, LogsIn, Entries
  <2> QED
    BY <2>1, <2>2 DEF LoginAhead
<1> QED
  BY <1>1, <1>2, <1>3

\* Where no login's reply is read nothing is asked of one.
LEMMA NoLoginRead ==
  ASSUME ~Reads(Nth(todo', 1), Logins)
  PROVE  LoginAsked'
BY DEF LoginAsked

\* A call that begins keeps the login.
LEMMA LoginStart ==
  ASSUME ClientInv, NEW o \in Operations, Start(o)
  PROVE  LoginInv'
<1>1. (todo' # <<>> => todo'[1][1] \in Entries) /\ todo' \in StepSeq
  BY StartGoes DEF Goes
<1>2. LoginAhead'
  BY <1>1, NoLoginAhead
<1>3. LoginAsked'
  BY <1>1, FirstIs, AbsentIs, NoLoginRead DEF Reads, Entries
<1>4. LoggedIn'
  BY LoginInvIs DEF ClientInv, Start, client, control, remote, LoggedIn, NoLoginAsked
<1> QED
  BY <1>2, <1>3, <1>4, LoginInvNext

\* OnReturn keeps the login.
LEMMA LoginReturn ==
  ASSUME ClientInv, Return
  PROVE  LoginInv'
<1>1. todo' = <<>> /\ todo' \in StepSeq /\ toServer' = Overtaken /\ UNCHANGED <<connected, login>>
  BY ReturnGoes DEF Return, Goes
<1>2. LoginAhead'
  BY <1>1, NoLoginAhead
<1>3. LoginAsked'
  BY <1>1, NoLoginRead DEF Nth, Absent, Do, Reads
<1>4. LoggedIn
  BY LoginInvIs DEF ClientInv
<1>5. NoLoginAsked => NoLoginAsked'
  BY <1>1, TypesAre, OvertakenIs DEF NoLoginAsked, RemoteVars
<1>6. LoggedIn'
  BY <1>1, <1>4, <1>5 DEF LoggedIn
<1> QED
  BY <1>2, <1>3, <1>6, LoginInvNext

\* Abort keeps the login.
LEMMA LoginAbort ==
  ASSUME ClientInv, Abort \/ UNCHANGED vars
  PROVE  LoginInv'
<1>1. UNCHANGED <<todo, connected, login, disturbed, toServer, toClient, transfer>>
  <2>1. CASE Abort
    BY <2>1 DEF Abort, call, control, remote
  <2>2. CASE UNCHANGED vars
    BY <2>2 DEF vars, call, control, remote, client, history
  <2> QED
    BY <2>1, <2>2
<1>2. LoggedIn /\ LoginAhead /\ LoginAsked
  BY LoginInvIs DEF ClientInv
<1>3. NoLoginAsked' = NoLoginAsked
  BY <1>1 DEF NoLoginAsked
<1>4. LoggedIn'
  BY <1>1, <1>2, <1>3 DEF LoggedIn
<1>5. LoginAhead'
  BY <1>1, <1>2, <1>3 DEF LoginAhead
<1>6. LoginAsked'
  BY <1>1, <1>2 DEF LoginAsked, LoginIs
<1> QED
  BY <1>4, <1>5, <1>6, LoginInvNext

\* IsConnected keeps the login, or ends the connection.
LEMMA LoginIsConnected ==
  ASSUME ClientInv, IsConnected
  PROVE  LoginInv'
<1> DEFINE alive == connected /\ (link = "up" \/ toClient' # <<>>)
<1>1. /\ todo \in StepSeq /\ Nth(Tail(todo), 1) = Nth(todo, 2) /\ todo # <<>>
      /\ Fits(todo[1], Nth(todo, 2), Nth(todo, 3)) /\ todo[1][1] = "alive"
  BY Before DEF IsConnected, Kinds
<1>2. todo' \in StepSeq
  BY IsConnectedGoes DEF Goes
<1>3. CASE alive
  <2>1. todo' = Tail(todo) /\ connected
    BY <1>3 DEF IsConnected
  <2>2. UNCHANGED <<connected, toServer, login>> /\ connected \in BOOLEAN
    BY <1>3, TypesAre DEF IsConnected, remote, ClientVars
  <2>3. LoginAhead'
    BY <1>2, <2>1, <2>2, NoLoginAhead
  <2>4. LoginAsked'
    BY <1>1, <2>1, NoLoginRead DEF Fits, Quiets, Reads
  <2>5. LoggedIn'
    BY <2>1, <2>2, LoginInvIs DEF ClientInv, LoggedIn, NoLoginAsked
  <2> QED
    BY <2>3, <2>4, <2>5, LoginInvNext
<1>4. CASE ~alive
  <2>1. connected' = FALSE
    <3>1. CASE connected
      BY <1>4, <3>1, ClosedLink DEF IsConnected
    <3>2. CASE ~connected
      BY <3>2, TypesAre DEF IsConnected, ClientVars
    <3> QED
      BY <3>1, <3>2
  <2>2. todo' = <<>> \/ (todo' # <<>> /\ todo'[1][1] \in Entries)
    <3>1. CASE op = "noop"
      BY <1>4, <3>1 DEF IsConnected
    <3>2. CASE op # "noop"
      <4>1. todo' = ConnectSteps \o Tail(todo)
        BY <1>4, <3>2 DEF IsConnected
      <4>2. /\ Program(todo, connected, op) /\ TypeInv /\ ClientType /\ secure \in BOOLEAN /\ wanted \in BOOLEAN
            /\ connected \in BOOLEAN
        BY DEF ClientInv, ProgramInv, ClientType
      <4>3. TypesAhead(todo, wanted)
        BY <1>1, <4>2, AheadIs DEF Prepares, Carries, Sends
      <4> QED
        BY <1>1, <4>1, <4>2, <4>3, Reconnect DEF Entries
    <3> QED
      BY <3>1, <3>2
  <2>3. LoginAhead'
    BY <1>2, <2>2, NoLoginAhead
  <2>4. ~Reads(Nth(todo', 1), Logins)
    BY <1>2, <2>2, FirstIs DEF Nth, Absent, Do, Reads, Entries
  <2>5. LoggedIn'
    BY <2>1 DEF LoggedIn
  <2> QED
    BY <2>3, <2>4, <2>5, LoginInvNext, NoLoginRead
<1> QED
  BY <1>3, <1>4

\* A new connection is not logged in, and nothing claims that it is.
LEMMA LoginOpen ==
  ASSUME ClientInv, Open
  PROVE  LoginInv'
<1>1. /\ Fits(todo[1], Nth(todo, 2), Nth(todo, 3)) /\ Nth(Tail(todo), 1) = Nth(todo, 2) /\ todo[1][1] = "open"
  BY Before DEF Open, Kinds
<1>2. connected' = FALSE /\ disturbed' = FALSE
  BY ClosedLink DEF Open
<1>3. todo' = <<>> \/ (todo' = Tail(todo) /\ Reads(Nth(todo', 1), {"hello"}))
  BY <1>1 DEF Open, GoOn, Fail, Fits
<1>4. LoggedIn'
  BY <1>2 DEF LoggedIn
<1>5. CASE todo' = <<>>
  <2>1. todo' \in StepSeq
    BY OpenGoes DEF Goes
  <2>2. LoginAhead'
    BY <1>5, <2>1, NoLoginAhead
  <2>3. LoginAsked'
    BY <1>5, NoLoginRead DEF Nth, Absent, Do, Reads
  <2> QED
    BY <1>4, <2>2, <2>3, LoginInvNext
<1>6. CASE Reads(Nth(todo', 1), {"hello"})
  <2>1. LoginAhead'
    BY <1>2, <1>6 DEF LoginAhead, LogsIn, Reads
  <2>2. LoginAsked'
    BY <1>6, NoLoginRead DEF Reads, Logins
  <2> QED
    BY <1>4, <2>1, <2>2, LoginInvNext
<1> QED
  BY <1>3, <1>5, <1>6

\* The TLS handshake keeps the login.
LEMMA LoginSSL ==
  ASSUME ClientInv, ConnectSSL
  PROVE  LoginInv'
<1>1. /\ Fits(todo[1], Nth(todo, 2), Nth(todo, 3)) /\ Nth(Tail(todo), 1) = Nth(todo, 2) /\ todo[1][1] = "tls"
  BY Before DEF ConnectSSL, Kinds, Quiets
<1>2. LogsIn(todo[1]) /\ ~Operates(todo[1])
  BY <1>1 DEF LogsIn, Operates, Closers
<1>3. ~connected /\ ~disturbed /\ connected \in BOOLEAN
  BY <1>2, ConnectsOrWorks, TypesAre DEF ConnectSSL, Kinds, Quiets, ClientVars
<1>4. connected' = FALSE /\ ~disturbed'
  BY <1>3 DEF ConnectSSL, client, history
<1>5. LoggedIn'
  BY <1>4 DEF LoggedIn
<1>6. CASE todo' = <<>>
  <2>1. todo' \in StepSeq
    BY StepsGo DEF Goes
  <2>2. LoginAhead'
    BY <1>6, <2>1, NoLoginAhead
  <2>3. LoginAsked'
    BY <1>6, NoLoginRead DEF Nth, Absent, Do, Reads
  <2> QED
    BY <1>5, <2>2, <2>3, LoginInvNext
<1>7. CASE todo' = Tail(todo)
  <2>1. LogsIn(Nth(todo', 1)) /\ Nth(todo', 1)[1] \in Quiets
    BY <1>1, <1>7 DEF Fits
  <2>2. LoginAhead'
    BY <1>4, <2>1 DEF LoginAhead
  <2>3. LoginAsked'
    BY <2>1, NoLoginRead DEF Reads, Quiets
  <2> QED
    BY <1>5, <2>2, <2>3, LoginInvNext
<1> QED
  BY <1>6, <1>7 DEF ConnectSSL, GoOn, Fail

\* m_connected is set only after the login.
LEMMA LoginConnected ==
  ASSUME ClientInv, Connected
  PROVE  LoginInv'
<1>1. /\ Fits(todo[1], Nth(todo, 2), Nth(todo, 3)) /\ Nth(Tail(todo), 1) = Nth(todo, 2) /\ todo[1][1] = "connected"
  BY Before DEF Connected, Kinds, Quiets
<1>2. ~LogsIn(todo[1]) /\ ~Operates(todo[1])
  BY <1>1 DEF LogsIn, Operates, Closers
<1>3. login = "in" /\ NoLoginAsked
  BY <1>2, ConnectsOrWorks DEF Connected, Kinds, Quiets
<1>4. UNCHANGED <<login, toServer>> /\ connected' = TRUE /\ todo' = Tail(todo)
  BY DEF Connected, control, remote, GoOn
<1>5. LoggedIn'
  BY <1>3, <1>4 DEF LoggedIn, NoLoginAsked
<1>6. todo' \in StepSeq
  BY ConnectedGoes DEF Goes
<1>7. LoginAhead'
  BY <1>4, <1>6, NoLoginAhead
<1>8. LoginAsked'
  BY <1>1, <1>4, NoLoginRead DEF Fits, Quiets, Reads
<1> QED
  BY <1>5, <1>7, <1>8, LoginInvNext

\* Disconnect ends the connection with the login.
LEMMA LoginDisconnect ==
  ASSUME ClientInv, Disconnect
  PROVE  LoginInv'
<1>1. todo' = <<>> /\ todo' \in StepSeq
  BY DisconnectGoes DEF Goes
<1>2. connected' = FALSE
  BY ClosedLink DEF Disconnect
<1>3. LoggedIn'
  BY <1>2 DEF LoggedIn
<1>4. LoginAhead'
  BY <1>1, NoLoginAhead
<1>5. LoginAsked'
  BY <1>1, NoLoginRead DEF Nth, Absent, Do, Reads
<1> QED
  BY <1>3, <1>4, <1>5, LoginInvNext

\* The steps that work over the connection.
LEMMA LoginWork ==
  ASSUME ClientInv,
         \/ WaitForConnect \/ CheckAborted \/ OpenData \/ OpenDataFails
         \/ Lines \/ LinesCut \/ ReceiveAll \/ ReceiveCut \/ SendAll \/ SendCut
  PROVE  LoginInv'
<1> DEFINE Here == {"listen", "check", "data"} \cup Closers
<1>1. \E what \in Here : At(what)
  BY DEF WaitForConnect, CheckAborted, OpenData, OpenDataFails, Lines, LinesCut, ReceiveAll, ReceiveCut, SendAll,
         SendCut, Data, Closers
<1>2. PICK what \in Here : At(what)
  BY <1>1
<1>3. /\ todo[1][1] = what /\ Fits(todo[1], Nth(todo, 2), Nth(todo, 3)) /\ Nth(Tail(todo), 1) = Nth(todo, 2)
  BY <1>2, Before DEF Kinds, Quiets
<1>4. ~Connects(todo[1])
  BY <1>2, <1>3 DEF Connects, LogsIn, Closers
<1>5. connected
  <2>1. what \in Kinds \ {"alive", "quit", "open"} /\ what # "connected"
    BY <1>2 DEF Kinds, Quiets, Closers
  <2> QED
    BY <1>2, <1>4, <2>1, ConnectsOrWorks
<1>6. connected' = connected /\ UNCHANGED <<login, toServer>>
  <2>1. CASE WaitForConnect \/ CheckAborted \/ OpenData
    BY <2>1 DEF WaitForConnect, CheckAborted, OpenData, control, remote
  <2>2. CASE OpenDataFails
    BY <2>2 DEF OpenDataFails, remote
  <2>3. CASE Lines \/ LinesCut \/ ReceiveAll \/ ReceiveCut \/ SendAll \/ SendCut
    BY <2>3 DEF Lines, LinesCut, ReceiveAll, ReceiveCut, SendAll, SendCut, Data, control, remote
  <2> QED
    BY <2>1, <2>2, <2>3
<1>7. todo' \in StepSeq
  BY StepsGo, LateGoes DEF Goes
<1>8. todo' = Tail(todo) \/ todo' = <<>> \/ todo' = <<Read("late")>>
  BY DEF WaitForConnect, CheckAborted, OpenData, OpenDataFails, Lines, LinesCut, ReceiveAll, ReceiveCut, SendAll,
         SendCut, GoOn, Fail
<1>9. LoggedIn'
  BY <1>6, LoginInvIs DEF ClientInv, LoggedIn, NoLoginAsked
<1>10. LoginAhead'
  <2>1. connected' = TRUE
    BY <1>5, <1>6, TypesAre DEF ClientVars
  <2> QED
    BY <1>7, <2>1, NoLoginAhead
<1>11. ~Reads(Nth(todo', 1), Logins)
  <2>1. CASE todo' = Tail(todo)
    <3>1. Nth(todo', 1)[1] \in Closers \/ Reads(Nth(todo', 1), Transfers \cup {"end"})
            \/ Nth(todo', 1)[1] = "send"
      BY <1>2, <1>3, <2>1 DEF Fits, Reads, Sends
    <3> QED
      BY <3>1 DEF Reads, Transfers, Logins, Closers
  <2>2. CASE todo' = <<>>
    BY <2>2 DEF Nth, Absent, Do, Reads
  <2>3. CASE todo' = <<Read("late")>>
    BY <2>3 DEF Nth, Read, Reads, Logins
  <2> QED
    BY <1>8, <2>1, <2>2, <2>3
<1> QED
  BY <1>9, <1>10, <1>11, LoginInvNext, NoLoginRead

\* Sending a command keeps the login; the login's own commands are answered alone.
LEMMA LoginSend ==
  ASSUME ClientInv, SendCommand
  PROVE  LoginInv'
<1> DEFINE c == todo[1][2]
<1>1. /\ Head(todo)[2] = c /\ todo[1] \in Kinds \X Names /\ todo[1][1] = "send"
      /\ Fits(todo[1], Nth(todo, 2), Nth(todo, 3)) /\ Nth(Tail(todo), 1) = Nth(todo, 2)
      /\ ~disturbed => OwedAt(todo[1], Nth(todo, 2))
  BY Before DEF SendCommand, Kinds, Quiets
<1>2. /\ connected => Operates(todo[1])
      /\ ~connected => /\ Connects(todo[1])
                       /\ IF LogsIn(todo[1]) THEN ~disturbed ELSE login = "in" /\ NoLoginAsked
  BY ConnectsOrWorks DEF SendCommand, Kinds, Quiets
<1>3. ~disturbed => Quiet
  BY <1>1 DEF OwedAt, Quiets
<1>4. UNCHANGED <<connected, disturbed, link, login>> /\ todo' = Tail(todo) /\ Overtake
  BY DEF SendCommand, history, GoOn
<1>5. RemoteVars /\ ClientVars /\ LoggedIn /\ toServer \in Seq(Commands)
  BY TypesAre, LoginInvIs DEF ClientInv, RemoteVars
<1> DEFINE d == [cmd |-> c, own |-> TRUE]
<1>6. d.cmd = c /\ d \in Commands
  BY <1>1 DEF Commands
<1> HIDE DEF d
<1>7. toServer' = <<>> \/ toServer' = Append(Overtaken, d)
  BY <1>1 DEF SendCommand, d
<1>8. NoLoginAsked /\ c \notin Logins => NoLoginAsked'
  <2>0. SUFFICES ASSUME NoLoginAsked, c \notin Logins PROVE NoLoginAsked'
    OBVIOUS
  <2> DEFINE q == Overtaken
  <2>1. q \in Seq(Commands) /\ \A i \in DOMAIN q : q[i].cmd \notin Logins
    BY <1>5, <2>0, OvertakenIs DEF NoLoginAsked
  <2>2. toServer' = <<>> \/ toServer' = Append(q, d)
    BY <1>7
  <2> HIDE DEF q
  <2>3. CASE toServer' = <<>>
    BY <2>3 DEF NoLoginAsked
  <2>4. CASE toServer' = Append(q, d)
    <3>1. /\ DOMAIN toServer' = 1..(Len(q) + 1) /\ toServer'[Len(q) + 1] = d
          /\ \A i \in 1..Len(q) : toServer'[i] = q[i]
      BY <1>6, <2>1, <2>4
    <3>2. DOMAIN q = 1..Len(q) /\ Len(q) \in Nat
      BY <2>1
    <3>3. ASSUME NEW i \in DOMAIN toServer' PROVE toServer'[i].cmd \notin Logins
      <4>1. i = Len(q) + 1 \/ i \in 1..Len(q)
        BY <3>1, <3>2
      <4> QED
        BY <1>6, <2>0, <2>1, <3>1, <3>2, <4>1
    <3> QED
      BY <3>3 DEF NoLoginAsked
  <2> QED
    BY <2>2, <2>3, <2>4
<1>9. LoggedIn'
  <2>1. connected => c \notin Logins
    BY <1>1, <1>2 DEF Operates, Operative, Transfers, Types, Logins
  <2> QED
    BY <1>4, <1>5, <1>8, <2>1 DEF LoggedIn
<1>10. Reads(Nth(todo', 1), {c}) \/ (Nth(todo', 1)[1] = "data" /\ c \in Transfers)
  BY <1>1, <1>4 DEF Fits
<1>11. LoginAhead'
  <2>1. CASE connected
    <3>1. connected' = TRUE /\ todo' \in StepSeq
      BY <1>4, <1>5, <2>1, StepsGo DEF ClientVars, Goes
    <3> QED
      BY <3>1, NoLoginAhead
  <2>2. CASE ~connected
    <3>1. c \notin Transfers
      BY <1>1, <1>2, <2>2 DEF Connects, LogsIn, Logins, Settings, Transfers
    <3>2. Reads(Nth(todo', 1), {c})
      BY <1>10, <3>1
    <3>3. LogsIn(Nth(todo', 1)) <=> LogsIn(todo[1])
      BY <1>1, <3>2 DEF LogsIn, Reads
    <3>4. ~LogsIn(todo[1]) => c \notin Logins
      BY <1>1 DEF LogsIn
    <3> QED
      BY <1>2, <1>4, <1>8, <2>2, <3>3, <3>4 DEF LoginAhead
  <2> QED
    BY <2>1, <2>2
<1>12. LoginAsked'
  <2>0. SUFFICES ASSUME Reads(Nth(todo', 1), Logins), ~disturbed'
                 PROVE  /\ transfer' = NoTransfer /\ (toServer' # <<>> => toServer'[1].cmd = c)
                        /\ toClient' # <<>> => (toClient'[1].code = 2 => login' = "in")
                                             /\ (c = "ACCT" => toClient'[1].code # 3)
                        /\ Nth(todo', 1)[2] = c
    BY DEF LoginAsked, LoginIs
  <2>1. Quiet /\ Nth(todo', 1)[2] = c
    BY <1>3, <1>4, <1>10, <2>0 DEF Reads
  <2>2. Overtaken = <<>> /\ transfer' = NoTransfer /\ toClient' = toClient
    BY <1>4, <1>5, <2>1, QuietOvertake DEF ClientVars
  <2>3. toServer' # <<>> => toServer'[1] = d
    <3> DEFINE q == Overtaken
    <3>1. q = <<>> /\ (toServer' = <<>> \/ toServer' = Append(q, d)) /\ q \in Seq(Commands)
      BY <1>7, <2>2, Empties
    <3> HIDE DEF q
    <3> QED
      BY <1>6, <3>1, AppendIs
  <2>4. toClient # <<>> => toClient[1].code = 421
    BY <2>1 DEF Quiet, Goodbye
  <2> QED
    BY <1>6, <2>1, <2>2, <2>3, <2>4
<1> QED
  BY <1>9, <1>11, <1>12, LoginInvNext

\* What follows a reply: the preliminary reply of a transfer, data or nothing to be read at all.
LEMMA AfterReading ==
  ASSUME ClientInv, ReadReply, NEW r \in Replies, todo' = Rest(todo[1][2], r)
  PROVE  /\ todo[1][2] \in Transfers \/ Nth(todo', 1)[1] \in Quiets \cup {"none"}
         /\ todo[1][2] \in Transfers => todo' = Tail(todo) /\ Nth(todo', 1)[1] \in Closers \cup {"data"}
<1>1. /\ todo \in StepSeq /\ todo # <<>> /\ todo[1][1] = "read" /\ Fits(todo[1], Nth(todo, 2), Nth(todo, 3))
      /\ Nth(Tail(todo), 1) = Nth(todo, 2)
  BY Before DEF ReadReply, Kinds
<1>2. /\ Program(todo, connected, op) /\ TypeInv /\ ClientType /\ wanted \in BOOLEAN /\ connected \in BOOLEAN
  BY DEF ClientInv, ProgramInv, ClientType
<1> DEFINE c == todo[1][2]
<1>3. CASE todo' = Tail(todo)
  BY <1>1, <1>3 DEF Fits, Reads
<1>4. CASE c = "USER" /\ todo' = SubSeq(todo, 4, Len(todo))
  <2>1. Reads(todo[1], {"USER"})
    BY <1>1, <1>4 DEF Reads
  <2>2. TypesAhead(todo, wanted)
    BY <1>1, <1>2, <2>1, AheadIs DEF Prepares, Carries, Sends, Reads, Types
  <2>3. Nth(SubSeq(todo, 4, Len(todo)), 1)[1] \in Quiets \cup {"none"}
    BY <1>1, <1>2, <2>1, <2>2, SkipPass
  <2> QED
    BY <1>4, <2>3 DEF Transfers
<1>5. CASE c = "PASS" /\ todo' = Cmd("ACCT") \o Tail(todo)
  <2>1. Reads(todo[1], {"PASS"})
    BY <1>1, <1>5 DEF Reads
  <2>2. TypesAhead(todo, wanted)
    BY <1>1, <1>2, <2>1, AheadIs DEF Prepares, Carries, Sends, Reads, Types
  <2>3. Nth(Cmd("ACCT") \o Tail(todo), 1) = Send("ACCT")
    BY <1>1, <1>2, <2>1, <2>2, AskAcct
  <2>4. Nth(todo', 1)[1] = "send"
    <3>1. Nth(todo', 1) = Send("ACCT")
      BY <1>5, <2>3, Zenon
    <3>2. Send("ACCT")[1] = "send"
      BY DEF Send
    <3> QED
      BY <3>1, <3>2, Zenon
  <2>5. todo[1][2] = "PASS"
    BY <1>5
  <2> QED
    BY <2>4, <2>5 DEF Quiets, Transfers
<1> QED
  BY <1>3, <1>4, <1>5 DEF Rest

\* FTPConnect goes on past the login only when the server accepted it.
LEMMA LoginRead ==
  ASSUME ClientInv, ReadReply
  PROVE  LoginInv'
<1> DEFINE c == todo[1][2]
<1>1. /\ todo \in StepSeq /\ todo # <<>> /\ todo[1] \in Kinds \X Names /\ todo[1][1] = "read"
      /\ Nth(todo, 1) = todo[1]
      /\ Fits(todo[1], Nth(todo, 2), Nth(todo, 3)) /\ Nth(Tail(todo), 1) = Nth(todo, 2)
      /\ ~disturbed => OwedAt(todo[1], Nth(todo, 2))
  BY Before DEF ReadReply, Kinds
<1>2. PICK r \in Replies :
           /\ ~disturbed' => Reading(r)
           /\ ~disturbed /\ r.code # 0 => ~disturbed'
           /\ \/ Usable(c, r) /\ todo' = Rest(c, r) /\ UNCHANGED <<link, toServer>>
              \/ ~Usable(c, r) /\ c = "end" /\ todo' = Again /\ UNCHANGED <<link, toServer>>
              \/ ~Usable(c, r) /\ Refused(c)
  BY ReadIs
<1>3. /\ connected => Operates(todo[1])
      /\ ~connected => /\ Connects(todo[1])
                       /\ IF LogsIn(todo[1]) THEN ~disturbed ELSE login = "in" /\ NoLoginAsked
  BY ConnectsOrWorks DEF ReadReply, Kinds
<1>4. /\ UNCHANGED <<connected, login, transfer>> /\ connected \in BOOLEAN
      /\ toServer' \in {toServer, <<>>} /\ link' \in {link, "closed"}
  BY <1>2, TypesAre DEF ReadReply, remote, Refused, ClientVars
<1>5. LoggedIn /\ LoginAsked
  BY LoginInvIs DEF ClientInv
<1>6. NoLoginAsked => NoLoginAsked'
  BY <1>4 DEF NoLoginAsked
<1>7. LoggedIn'
  BY <1>4, <1>5, <1>6 DEF LoggedIn
<1>8. todo' \in StepSeq
  BY ReadReplyGoes DEF Goes
<1>9. CASE todo' = Rest(c, r) /\ Usable(c, r) /\ UNCHANGED <<link, toServer>>
  <2>1. ~Reads(Nth(todo', 1), Logins)
    BY <1>9, AfterReading DEF Reads, Quiets, Closers
  <2>2. LoginAhead'
    <3>1. CASE connected
      BY <1>4, <1>8, <3>1, NoLoginAhead
    <3>2. CASE ~connected /\ ~LogsIn(todo[1])
      <4>1. todo' = Tail(todo)
        BY <1>1, <1>9, <3>2 DEF LogsIn, Logins, Rest
      <4>2. ~LogsIn(Nth(todo', 1))
        BY <1>1, <3>2, <4>1 DEF Fits
      <4> QED
        BY <1>3, <1>4, <1>6, <3>2, <4>2 DEF LoginAhead
    <3>3. CASE ~connected /\ LogsIn(todo[1])
      <4>1. ~disturbed /\ c \in {"hello", "AUTH"} \cup Logins
        BY <1>1, <1>3, <3>3 DEF LogsIn
      <4>2. r.code \in {2, 3}
        BY <1>9, <4>1 DEF Usable, Accepted, Logins
      <4>3. ~disturbed' /\ Reading(r)
        BY <1>2, <4>1, <4>2
      <4>4. toClient # <<>> /\ r = toClient[1]
        BY <4>2, <4>3, NoReplyIs DEF Reading
      <4>5. OneOwed
        BY <1>1, <4>1 DEF OwedAt, Logins, Transfers
      <4>6. toServer' = <<>>
        BY <1>4, <4>3, <4>5, TypesAre, ReadingOwes DEF Quiet
      <4>7. NoLoginAsked'
        BY <4>6 DEF NoLoginAsked
      <4>8. CASE LogsIn(Nth(todo', 1))
        BY <4>3, <4>8 DEF LoginAhead
      <4>9. CASE ~LogsIn(Nth(todo', 1))
        <5>1. c \in Logins
          <6>1. c \in {"hello", "AUTH"} => todo' = Tail(todo)
            BY <1>9 DEF Rest
          <6>2. c \in {"hello", "AUTH"} => LogsIn(Nth(todo', 1))
            BY <1>1, <6>1 DEF Fits, Reads
          <6> QED
            BY <4>1, <4>9, <6>2
        <5>2. LoginIs(c)
          BY <1>1, <1>5, <4>1, <5>1 DEF LoginAsked, Reads
        <5>3. r.code # 3
          <6>1. c = "ACCT" => r.code # 3
            BY <4>4, <5>2 DEF LoginIs
          <6>2. c = "USER" /\ r.code = 3 => LogsIn(Nth(todo', 1))
            <7>1. c = "USER" /\ r.code = 3 => todo' = Tail(todo)
              BY <1>9 DEF Rest
            <7>2. c = "USER" /\ r.code = 3 => Sends(Nth(todo', 1), {"PASS"})
              BY <1>1, <7>1 DEF Fits, Reads
            <7> QED
              BY <7>2 DEF Sends, LogsIn, Logins
          <6>3. c = "PASS" /\ r.code = 3 => LogsIn(Nth(todo', 1))
            <7> SUFFICES ASSUME c = "PASS", r.code = 3 PROVE LogsIn(Nth(todo', 1))
              OBVIOUS
            <7>1. todo' = Cmd("ACCT") \o Tail(todo) /\ Reads(todo[1], {"PASS"})
              BY <1>1, <1>9 DEF Rest, Reads
            <7>2. /\ Program(todo, connected, op) /\ TypeInv /\ ClientType /\ wanted \in BOOLEAN
                  /\ connected \in BOOLEAN
              BY DEF ClientInv, ProgramInv, ClientType
            <7>3. TypesAhead(todo, wanted)
              BY <1>1, <7>1, <7>2, AheadIs DEF Prepares, Carries, Sends, Reads, Types
            <7>4. Nth(todo', 1) = Send("ACCT")
              BY <1>1, <7>1, <7>2, <7>3, AskAcct
            <7> QED
              BY <7>4 DEF LogsIn, Send, Logins
          <6> QED
            BY <4>9, <5>1, <6>1, <6>2, <6>3 DEF Logins
        <5>4. login = "in"
          BY <4>2, <4>4, <5>2, <5>3 DEF LoginIs
        <5> QED
          BY <1>4, <4>7, <4>9, <5>4 DEF LoginAhead
      <4> QED
        BY <4>8, <4>9
    <3> QED
      BY <3>1, <3>2, <3>3
  <2> QED
    BY <1>7, <2>1, <2>2, LoginInvNext, NoLoginRead
<1>10. CASE c = "end" /\ todo' = Again
  <2>1. connected
    BY <1>1, <1>3, <1>10 DEF Connects, LogsIn, Logins, Settings
  <2>2. LoginAhead'
    BY <1>4, <1>8, <2>1, NoLoginAhead
  <2>3. ~Reads(Nth(todo', 1), Logins)
    BY <1>10 DEF Again, Nth, Read, Reads, Logins
  <2> QED
    BY <1>7, <2>2, <2>3, LoginInvNext, NoLoginRead
<1>11. CASE Refused(c)
  <2>1. todo' = <<>>
    BY <1>11 DEF Refused, Fail
  <2>2. LoginAhead'
    BY <1>8, <2>1, NoLoginAhead
  <2>3. ~Reads(Nth(todo', 1), Logins)
    BY <2>1 DEF Nth, Absent, Do, Reads
  <2> QED
    BY <1>7, <2>2, <2>3, LoginInvNext, NoLoginRead
<1> QED
  BY <1>2, <1>9, <1>10, <1>11

\* The server logs in who it accepts, and ends a login only with the link.
LEMMA LoginServer ==
  ASSUME ClientInv, Server
  PROVE  LoginInv'
<1>1. RemoteVars /\ LoggedIn /\ LoginAhead /\ LoginAsked /\ Settled /\ todo \in StepSeq
  BY TypesAre, LoginInvIs, ReplyInvIs DEF ClientInv
<1>2. UNCHANGED <<todo, connected, disturbed>>
  BY DEF Server, Answer, FinishTransfer, Drop, call, client, history
<1>3. SUFFICES /\ login = "in" /\ NoLoginAsked => login' = "in" /\ NoLoginAsked'
               /\ LoginAsked'
  <2>1. ASSUME login = "in" /\ NoLoginAsked => login' = "in" /\ NoLoginAsked'
        PROVE  LoggedIn' /\ LoginAhead'
    BY <1>1, <1>2, <2>1 DEF LoggedIn, LoginAhead
  <2> QED
    BY <1>3, <2>1, LoginInvNext
<1>4. CASE Answer
  <2>1. /\ toServer # <<>> /\ toServer' = Tail(toServer) /\ toServer \in Seq(Commands)
        /\ transfer = NoTransfer /\ toClient \in Seq(Replies)
    BY <1>1, <1>4 DEF Answer, RemoteVars
  <2> DEFINE b == toServer[1]
  <2>2. Head(toServer) = b /\ b \in Commands /\ 1 \in DOMAIN toServer
    BY <2>1, TailOf
  <2>3. PICK digit \in Answers(b.cmd) :
          /\ toClient' = Append(toClient, [code |-> digit, own |-> b.own])
          /\ login' = IF b.cmd \in Logins THEN (IF digit = 2 THEN "in" ELSE "none") ELSE login
          /\ transfer' = IF digit = 1 THEN b ELSE transfer
    BY <1>4, <2>2 DEF Answer, Logins
  <2>4. login = "in" /\ NoLoginAsked => login' = "in" /\ NoLoginAsked'
    <3> SUFFICES ASSUME login = "in", NoLoginAsked PROVE login' = "in" /\ NoLoginAsked'
      OBVIOUS
    <3>1. b.cmd \notin Logins
      BY <2>2 DEF NoLoginAsked
    <3>2. NoLoginAsked'
      BY <2>1, TailOf DEF NoLoginAsked
    <3> QED
      BY <2>3, <3>1, <3>2
  <2>5. ASSUME Reads(Nth(todo, 1), Logins), ~disturbed
        PROVE  /\ transfer' = NoTransfer /\ toServer' = <<>>
               /\ toClient' # <<>> => (toClient'[1].code = 2 => login' = "in")
                                    /\ (Nth(todo, 1)[2] = "ACCT" => toClient'[1].code # 3)
    <3>1. LoginIs(Nth(todo, 1)[2]) /\ Owed
      BY <1>1, <2>5 DEF LoginAsked, Settled
    <3>2. OneOwed
      BY <2>5, <3>1 DEF Owed, OwedAt, Reads, Logins, Transfers
    <3>3. Len(toServer) = 1 /\ toClient = <<>>
      BY <2>1, <3>2 DEF OneOwed, Quiet, Replied, Asked
    <3>4. b.cmd = Nth(todo, 1)[2] /\ b.cmd \in Logins
      BY <2>1, <2>5, <3>1 DEF LoginIs, Reads
    <3>5. digit \in {2, 3, 5} /\ (b.cmd = "ACCT" => digit # 3)
      BY <2>3, <3>4 DEF Answers, Logins
    <3> DEFINE d == [code |-> digit, own |-> b.own]
    <3>6. d \in Replies /\ d.code = digit
      BY <2>2, <3>5 DEF Replies, Codes, Commands
    <3> HIDE DEF d
    <3>7. toClient'[1] = d
      BY <2>1, <2>3, <3>3, <3>6, AppendIs DEF d
    <3>8. toServer' = <<>>
      BY <2>1, <3>3, TailOf
    <3> QED
      BY <2>1, <2>3, <3>4, <3>5, <3>6, <3>7, <3>8
  <2>6. LoginAsked'
    BY <1>2, <2>5 DEF LoginAsked, LoginIs
  <2> QED
    BY <2>4, <2>6
<1>5. CASE FinishTransfer
  <2>1. transfer # NoTransfer /\ UNCHANGED <<toServer, login>>
    BY <1>5 DEF FinishTransfer
  <2>2. LoginAsked'
    BY <1>1, <1>2, <2>1 DEF LoginAsked, LoginIs
  <2> QED
    BY <2>1, <2>2 DEF NoLoginAsked
<1>6. CASE Drop
  <2> DEFINE d == [NoReply EXCEPT !.code = 421]
  <2>1. d \in Replies /\ d.code = 421
    BY NoReplyIs DEF Codes
  <2>2. /\ toServer' = <<>> /\ transfer' = NoTransfer /\ login' = login
        /\ toClient' = toClient \/ toClient' = Append(toClient, d)
    BY <1>6 DEF Drop
  <2> HIDE DEF d
  <2>3. toClient' # <<>> => toClient'[1] = d \/ (toClient # <<>> /\ toClient'[1] = toClient[1])
    BY <1>1, <2>1, <2>2, AppendIs DEF RemoteVars
  <2>4. LoginAsked'
    BY <1>1, <1>2, <2>1, <2>2, <2>3 DEF LoginAsked, LoginIs
  <2> QED
    BY <2>2, <2>4 DEF NoLoginAsked
<1> QED
  BY <1>4, <1>5, <1>6 DEF Server

\* Every step keeps the login.
LEMMA LoginNext ==
  ASSUME ClientInv, [Next]_vars
  PROVE  LoginInv'
BY LoginStart, LoginReturn, LoginAbort, LoginIsConnected, LoginOpen, LoginSSL, LoginConnected, LoginDisconnect,
   LoginWork, LoginSend, LoginRead, LoginServer DEF Next, Client

(***************************************************************************)
(* The transfer type: a file is sent behind the type it needs.             *)
(***************************************************************************)

\* The parts of TypeInv, with the type that is set, or refused, by the first k of
\* commands q.
TypedBy(q, set, binary, k) ==
  \/ \E m \in 1..k : q[m].cmd = TypeFor(binary) /\ \A l \in (m+1)..k : q[l].cmd \notin Types
  \/ binary \in set /\ \A l \in 1..k : q[l].cmd \notin Types
Ready == link # "up" \/ TypedBy(toServer, Tried, wanted, Len(toServer))
CarriesReady ==
  \A i \in DOMAIN todo : Carries(todo[i]) =>
    TypeIsAhead(todo, i, wanted) \/ ((\A n \in 1..(i-1) : Prepares(todo[n])) /\ Ready)
Ordered ==
  \A k \in DOMAIN toServer : toServer[k].own /\ toServer[k].cmd \in {"RETR", "STOR"} =>
    op # "none" /\ connected /\ TypedBy(toServer, Tried, wanted, k - 1)

\* The invariant of the transfer type, by its parts.
LEMMA TypeInvIs == TypeInv <=> CarriesReady /\ Ordered
BY DEF TypeInv, CarriesReady, Ordered, Ready, TypedAt, TypedBy

\* The type that is set after one more command.
LEMMA TypedByOn ==
  ASSUME NEW q, NEW u, NEW set, NEW b \in BOOLEAN, NEW k \in Nat, \A l \in 1..k : u[l].cmd = q[l].cmd
  PROVE  /\ TypedBy(q, set, b, k) => TypedBy(u, set, b, k)
         /\ TypedBy(q, set, b, k) /\ u[k + 1].cmd \notin Types => TypedBy(u, set, b, k + 1)
         /\ u[k + 1].cmd = TypeFor(b) => TypedBy(u, set, b, k + 1)
<1>1. TypedBy(q, set, b, k) => TypedBy(u, set, b, k)
  <2>1. ASSUME NEW m \in 1..k, q[m].cmd = TypeFor(b), \A l \in (m+1)..k : q[l].cmd \notin Types
        PROVE  TypedBy(u, set, b, k)
    <3>1. u[m].cmd = TypeFor(b) /\ \A l \in (m+1)..k : l \in 1..k /\ u[l].cmd \notin Types
      BY <2>1
    <3> QED
      BY <3>1 DEF TypedBy
  <2>2. ASSUME b \in set, \A l \in 1..k : q[l].cmd \notin Types PROVE TypedBy(u, set, b, k)
    BY <2>2 DEF TypedBy
  <2> QED
    BY <2>1, <2>2 DEF TypedBy
<1>2. ASSUME TypedBy(u, set, b, k), u[k + 1].cmd \notin Types PROVE TypedBy(u, set, b, k + 1)
  <2>1. ASSUME NEW m \in 1..k, u[m].cmd = TypeFor(b), \A l \in (m+1)..k : u[l].cmd \notin Types
        PROVE  TypedBy(u, set, b, k + 1)
    <3>1. m \in 1..(k + 1) /\ \A l \in (m+1)..(k + 1) : u[l].cmd \notin Types
      <4>1. \A l \in (m+1)..(k + 1) : l \in (m+1)..k \/ l = k + 1
        OBVIOUS
      <4> QED
        BY <1>2, <2>1, <4>1
    <3> QED
      BY <2>1, <3>1 DEF TypedBy
  <2>2. ASSUME b \in set, \A l \in 1..k : u[l].cmd \notin Types PROVE TypedBy(u, set, b, k + 1)
    <3>1. \A l \in 1..(k + 1) : l \in 1..k \/ l = k + 1
      OBVIOUS
    <3> QED
      BY <1>2, <2>2, <3>1 DEF TypedBy
  <2> QED
    BY <1>2, <2>1, <2>2 DEF TypedBy
<1>3. ASSUME u[k + 1].cmd = TypeFor(b) PROVE TypedBy(u, set, b, k + 1)
  <2>1. k + 1 \in 1..(k + 1) /\ \A l \in (k + 1 + 1)..(k + 1) : FALSE
    OBVIOUS
  <2> QED
    BY <1>3, <2>1 DEF TypedBy
<1> QED
  BY <1>1, <1>2, <1>3

\* The server takes the first command, and the type from it.
LEMMA TypedByTail ==
  ASSUME NEW q, NEW u, NEW set, NEW now, NEW b \in BOOLEAN, NEW k \in Nat \ {0},
         \A l \in 1..(k - 1) : u[l].cmd = q[l + 1].cmd,
         IF q[1].cmd \in Types THEN (q[1].cmd = "TYPE_I") \in now ELSE now = set,
         TypedBy(q, set, b, k)
  PROVE  TypedBy(u, now, b, k - 1)
<1>1. ASSUME NEW m \in 1..k, q[m].cmd = TypeFor(b), \A l \in (m+1)..k : q[l].cmd \notin Types
      PROVE  TypedBy(u, now, b, k - 1)
  <2>1. \A l \in m..(k - 1) : l + 1 \in (m+1)..k /\ l \in 1..(k - 1) /\ u[l].cmd \notin Types
    BY <1>1
  <2>2. CASE m = 1
    <3>1. b \in now
      BY <1>1, <2>2 DEF TypeFor, Types
    <3> QED
      BY <2>1, <2>2, <3>1 DEF TypedBy
  <2>3. CASE m # 1
    <3>1. m - 1 \in 1..(k - 1) /\ m - 1 + 1 = m
      BY <2>3
    <3>2. u[m - 1].cmd = TypeFor(b)
      BY <1>1, <3>1
    <3> QED
      BY <2>1, <3>1, <3>2 DEF TypedBy
  <2> QED
    BY <2>2, <2>3
<1>2. ASSUME b \in set, \A l \in 1..k : q[l].cmd \notin Types
      PROVE  TypedBy(u, now, b, k - 1)
  <2>1. b \in now
    BY <1>2
  <2>2. \A l \in 1..(k - 1) : l + 1 \in 1..k /\ u[l].cmd \notin Types
    BY <1>2
  <2> QED
    BY <2>1, <2>2 DEF TypedBy
<1> QED
  BY <1>1, <1>2 DEF TypedBy

\* On the way to a transfer the call works over the connection.
LEMMA CarryingWorks ==
  ASSUME ClientInv, NEW i \in DOMAIN todo, Carries(todo[i]), \A n \in 1..(i-1) : Prepares(todo[n])
  PROVE  connected /\ login = "in"
<1>1. todo \in StepSeq /\ Stage(todo, connected) /\ connected \in BOOLEAN /\ LoggedIn
  BY TypesAre, LoginInvIs DEF ClientInv, ProgramInv, Program, ClientVars
<1>2. DOMAIN todo = 1..Len(todo) /\ Len(todo) \in Nat \ {0} /\ todo # <<>>
  <2>1. todo # <<>>
    BY <1>1
  <2> QED
    BY <1>1, <2>1, TailIs
<1>3. todo[1][1] \notin {"quit", "alive"}
  <2>1. CASE i = 1
    BY <2>1 DEF Carries, Sends
  <2>2. CASE i # 1
    <3>1. 1 \in 1..(i - 1)
      BY <1>2, <2>2
    <3> QED
      BY <3>1 DEF Prepares
  <2> QED
    BY <2>1, <2>2
<1>4. ~Connecting(todo, connected)
  <2> SUFFICES ASSUME NEW j \in DOMAIN todo, ConnectsTo(todo, j) PROVE FALSE
    BY DEF Connecting
  <2>1. ~Connects(todo[i]) /\ todo[i][1] # "connected"
    BY DEF Carries, Sends, Connects, LogsIn, Logins, Settings
  <2>2. ~(i < j) /\ i # j
    BY <2>1 DEF ConnectsTo
  <2>3. j \in 1..(i - 1)
    BY <1>2, <2>2
  <2> QED
    BY <2>3 DEF ConnectsTo, Prepares
<1>5. Working(todo, connected)
  BY <1>1, <1>2, <1>3, <1>4, StageIs
<1> QED
  BY <1>1, <1>5 DEF Working, LoggedIn

\* Where the rest of the call goes, and the server stays ready.
LEMMA CarriesGoOn ==
  ASSUME ClientInv, Goes, wanted \in BOOLEAN,
         todo # <<>> /\ todo' = Tail(todo) /\ wanted' = wanted =>
            /\ Sends(todo[1], {TypeFor(wanted)}) => Ready'
            /\ Prepares(todo[1]) /\ Ready => Ready'
  PROVE  CarriesReady'
<1> SUFFICES ASSUME NEW i \in DOMAIN todo', Carries(todo'[i])
             PROVE  TypeIsAhead(todo', i, wanted') \/ ((\A n \in 1..(i-1) : Prepares(todo'[n])) /\ Ready')
  BY DEF CarriesReady
<1>1. todo \in StepSeq /\ CarriesReady
  BY TypesAre, TypeInvIs DEF ClientInv
<1>2. CASE todo' = <<>>
  BY <1>2
<1>3. CASE TypesAhead(todo', wanted')
  BY <1>3 DEF TypesAhead
<1>4. CASE todo # <<>> /\ todo' = Tail(todo) /\ wanted' = wanted
  <2>1. /\ Len(todo) \in Nat \ {0} /\ DOMAIN todo = 1..Len(todo) /\ DOMAIN todo' = 1..(Len(todo) - 1)
        /\ \A n \in 1..(Len(todo) - 1) : todo'[n] = todo[n + 1]
    BY <1>1, <1>4, TailIs
  <2>2. i + 1 \in DOMAIN todo /\ Carries(todo[i + 1]) /\ i + 1 - 1 = i /\ i \in Nat \ {0}
    BY <2>1
  <2>3. ASSUME NEW m \in 1..i, \A n \in (m+1)..i : Prepares(todo[n])
        PROVE  \A n \in m..(i - 1) : Prepares(todo'[n])
    <3> SUFFICES ASSUME NEW n \in m..(i - 1) PROVE Prepares(todo'[n])
      OBVIOUS
    <3>1. n + 1 \in (m+1)..i /\ n \in 1..(Len(todo) - 1)
      BY <2>1, <2>2
    <3> QED
      BY <2>1, <2>3, <3>1
  <2>4. CASE TypeIsAhead(todo, i + 1, wanted)
    <3>1. PICK m \in 1..i : Sends(todo[m], {TypeFor(wanted)}) /\ \A n \in (m+1)..i : Prepares(todo[n])
      BY <2>2, <2>4 DEF TypeIsAhead
    <3>2. \A n \in m..(i - 1) : Prepares(todo'[n])
      BY <2>3, <3>1
    <3>3. CASE m = 1
      BY <1>4, <3>1, <3>2, <3>3
    <3>4. CASE m # 1
      <4>1. m - 1 \in 1..(i - 1) /\ m - 1 + 1 = m /\ m - 1 \in 1..(Len(todo) - 1)
        BY <2>1, <2>2, <3>4
      <4>2. Sends(todo'[m - 1], {TypeFor(wanted')})
        BY <1>4, <2>1, <3>1, <4>1
      <4> QED
        BY <3>2, <4>1, <4>2 DEF TypeIsAhead
    <3> QED
      BY <3>3, <3>4
  <2>5. CASE (\A n \in 1..i : Prepares(todo[n])) /\ Ready
    <3>1. 1 \in 1..i /\ \A n \in (1+1)..i : n \in 1..i
      BY <2>2
    <3>2. \A n \in 1..(i - 1) : Prepares(todo'[n])
      BY <2>3, <2>5, <3>1
    <3> QED
      BY <1>4, <2>5, <3>1, <3>2
  <2> QED
    BY <1>1, <2>2, <2>4, <2>5 DEF CarriesReady
<1> QED
  BY <1>2, <1>3, <1>4 DEF Goes, Moves

\* A type that is set stays set while nothing is sent.
LEMMA ReadySame ==
  ASSUME wanted' = wanted, UNCHANGED <<Tried, toServer, link>> \/ link' # "up"
  PROVE  Ready => Ready'
BY DEF Ready, TypedBy

\* A command that is sent: those before it keep their place.
LEMMA Sent ==
  ASSUME ClientInv, SendCommand, link = "up"
  PROVE  /\ toServer' \in Seq(Commands) /\ Len(toServer') = Len(toServer) + 1 /\ Len(toServer) \in Nat
         /\ \A l \in 1..Len(toServer) : /\ toServer'[l].cmd = toServer[l].cmd
                                        /\ toServer'[l].own => toServer'[l].cmd = "none"
         /\ toServer'[Len(toServer) + 1].cmd = todo[1][2]
<1>1. toServer \in Seq(Commands) /\ Head(todo)[2] = todo[1][2] /\ todo[1][2] \in Names
  BY TypesAre, AtIs DEF RemoteVars, SendCommand
<1> DEFINE q == Overtaken
<1> DEFINE d == [cmd |-> todo[1][2], own |-> TRUE]
<1>2. d \in Commands /\ d.cmd = todo[1][2]
  BY <1>1 DEF Commands
<1>3. toServer' = Append(q, d)
  BY <1>1 DEF SendCommand
<1>4. /\ q \in Seq(Commands) /\ Len(q) = Len(toServer) /\ DOMAIN toServer = 1..Len(toServer) /\ Len(toServer) \in Nat
      /\ \A l \in DOMAIN toServer : q[l] = Stale(toServer[l]) /\ q[l].cmd = toServer[l].cmd
  BY <1>1, OvertakenIs
<1>5. \A l \in DOMAIN toServer : q[l].own => q[l].cmd = "none"
  <2> SUFFICES ASSUME NEW l \in DOMAIN toServer PROVE q[l].own => q[l].cmd = "none"
    OBVIOUS
  <2>1. toServer[l] \in Commands
    BY <1>1
  <2>2. q[l].own => toServer[l] = NoTransfer
    BY <1>4, <2>1, StaleIs
  <2> QED
    BY <1>4, <2>2, NoTransferIs
<1> HIDE DEF q, d
<1>6. /\ toServer' \in Seq(Commands) /\ Len(toServer') = Len(q) + 1 /\ toServer'[Len(q) + 1] = d
      /\ \A l \in 1..Len(q) : toServer'[l] = q[l]
  BY <1>2, <1>3, <1>4
<1> QED
  BY <1>2, <1>4, <1>5, <1>6

\* A type that is set stays set unless another is sent, which then is set.
LEMMA ReadySend ==
  ASSUME ClientInv, SendCommand, wanted' = wanted
  PROVE  /\ Ready /\ todo[1][2] \notin Types => Ready'
         /\ todo[1][2] = TypeFor(wanted) => Ready'
<1>1. link' = link /\ Tried' = Tried
  BY DEF SendCommand, Tried
<1>2. CASE link # "up"
  BY <1>1, <1>2 DEF Ready
<1>3. CASE link = "up"
  <2> DEFINE k == Len(toServer)
  <2>1. /\ Len(toServer') = k + 1 /\ k \in Nat /\ (\A l \in 1..k : toServer'[l].cmd = toServer[l].cmd)
        /\ toServer'[k + 1].cmd = todo[1][2] /\ wanted \in BOOLEAN
    BY <1>3, Sent, TypesAre DEF ClientVars
  <2> HIDE DEF k
  <2>2. /\ TypedBy(toServer, Tried, wanted, k) /\ todo[1][2] \notin Types => TypedBy(toServer', Tried, wanted, k + 1)
        /\ todo[1][2] = TypeFor(wanted) => TypedBy(toServer', Tried, wanted, k + 1)
    <3>1. k \in Nat /\ wanted \in BOOLEAN /\ \A l \in 1..k : toServer'[l].cmd = toServer[l].cmd
      BY <2>1
    <3>2. /\ TypedBy(toServer, Tried, wanted, k) /\ toServer'[k + 1].cmd \notin Types =>
               TypedBy(toServer', Tried, wanted, k + 1)
          /\ toServer'[k + 1].cmd = TypeFor(wanted) => TypedBy(toServer', Tried, wanted, k + 1)
      BY <3>1, TypedByOn
    <3> QED
      BY <2>1, <3>2
  <2>3. TypedBy(toServer', Tried, wanted, k + 1) => Ready'
    BY <1>1, <2>1 DEF Ready, TypedBy
  <2>4. Ready => TypedBy(toServer, Tried, wanted, k)
    BY <1>3 DEF Ready, k
  <2> QED
    BY <2>2, <2>3, <2>4
<1> QED
  BY <1>2, <1>3

\* Once its TYPE is sent, a transfer's type stays set up to the transfer.
LEMMA ReadyNext ==
  ASSUME ClientInv, Client, todo # <<>>, wanted' = wanted
  PROVE  /\ Sends(todo[1], {TypeFor(wanted)}) => Ready'
         /\ Prepares(todo[1]) /\ Ready => Ready'
<1>1. CASE SendCommand
  <2>1. todo[1][1] = "send"
    BY <1>1, Before DEF SendCommand, Kinds, Quiets
  <2>2. Prepares(todo[1]) => todo[1][2] \notin Types
    BY <2>1 DEF Prepares, Types
  <2>3. Sends(todo[1], {TypeFor(wanted)}) => todo[1][2] = TypeFor(wanted)
    BY DEF Sends
  <2> QED
    BY <1>1, <2>2, <2>3, ReadySend
<1>2. CASE ReadReply
  <2>1. todo[1][1] = "read"
    BY <1>2, Before DEF ReadReply, Kinds
  <2>2. UNCHANGED <<Tried, toServer, link>> \/ link' # "up"
    BY <1>2, ReadIs DEF ReadReply, remote, Refused, Tried
  <2> QED
    BY <2>1, <2>2, ReadySame DEF Sends
<1>3. CASE CheckAborted \/ WaitForConnect
  <2>1. todo[1][1] \in {"check", "listen"}
    BY <1>3, Before DEF CheckAborted, WaitForConnect, Kinds, Quiets
  <2>2. UNCHANGED <<Tried, toServer, link>>
    BY <1>3 DEF CheckAborted, WaitForConnect, control, remote, Tried
  <2> QED
    BY <2>1, <2>2, ReadySame DEF Sends
<1>4. CASE IsConnected \/ Open \/ ConnectSSL \/ Connected \/ Disconnect
  <2>1. todo[1][1] \in {"alive", "open", "tls", "connected", "quit"}
    BY <1>4, Before DEF IsConnected, Open, ConnectSSL, Connected, Disconnect, Kinds, Quiets
  <2> QED
    BY <2>1 DEF Sends, Prepares
<1>5. CASE OpenData \/ OpenDataFails \/ Lines \/ LinesCut \/ ReceiveAll \/ ReceiveCut \/ SendAll \/ SendCut
  <2>1. todo[1][1] \in {"data"} \cup Closers
    BY <1>5, Before DEF OpenData, OpenDataFails, Lines, LinesCut, ReceiveAll, ReceiveCut, SendAll, SendCut, Data,
                        Kinds, Closers
  <2> QED
    BY <2>1 DEF Sends, Prepares, Closers
<1>6. ~Return
  BY DEF Return
<1> QED
  BY <1>1, <1>2, <1>3, <1>4, <1>5, <1>6 DEF Client

\* The commands on their way stay in order while none is added.
LEMMA OrderedSame ==
  ASSUME ClientInv,
         \/ toServer' = <<>>
         \/ UNCHANGED <<toServer, op, wanted, Tried>> /\ connected' \in {connected, TRUE}
  PROVE  Ordered'
<1>1. Ordered
  BY TypeInvIs DEF ClientInv
<1>2. CASE toServer' = <<>>
  BY <1>2 DEF Ordered
<1>3. CASE UNCHANGED <<toServer, op, wanted, Tried>> /\ connected' \in {connected, TRUE}
  <2>1. connected => connected'
    BY <1>3
  <2> SUFFICES ASSUME NEW k \in DOMAIN toServer', toServer'[k].own, toServer'[k].cmd \in {"RETR", "STOR"}
               PROVE  op' # "none" /\ connected' /\ TypedBy(toServer', Tried', wanted', k - 1)
    BY DEF Ordered
  <2>2. op # "none" /\ connected /\ TypedBy(toServer, Tried, wanted, k - 1)
    BY <1>1, <1>3 DEF Ordered
  <2> QED
    BY <1>3, <2>1, <2>2
<1> QED
  BY <1>2, <1>3

\* A call that begins leaves the commands on their way, which are no longer its own.
LEMMA OrderedStart ==
  ASSUME ClientInv, NEW o \in Operations, Start(o)
  PROVE  Ordered'
<1>1. Ordered /\ op = "none" /\ toServer' = toServer
  BY TypeInvIs DEF ClientInv, Start, control
<1> QED
  BY <1>1 DEF Ordered

\* So does OnReturn.
LEMMA OrderedReturn ==
  ASSUME ClientInv, Return
  PROVE  Ordered'
<1> SUFFICES ASSUME NEW k \in DOMAIN toServer', toServer'[k].own PROVE toServer'[k].cmd \notin {"RETR", "STOR"}
  BY DEF Ordered
<1>1. toServer \in Seq(Commands) /\ toServer' = Overtaken
  BY TypesAre DEF RemoteVars, Return
<1>2. k \in DOMAIN toServer /\ toServer'[k] = Stale(toServer[k]) /\ toServer'[k].cmd = toServer[k].cmd
  BY <1>1, OvertakenIs
<1>3. toServer[k] \in Commands
  BY <1>1, <1>2
<1>4. toServer[k] = NoTransfer
  BY <1>2, <1>3, StaleIs
<1> QED
  BY <1>2, <1>4, NoTransferIs

\* A transfer is sent only behind the type it needs.
LEMMA OrderedSend ==
  ASSUME ClientInv, SendCommand
  PROVE  Ordered'
<1>1. UNCHANGED <<op, wanted, Tried, connected>> /\ (link # "up" => toServer' = <<>>)
  BY DEF SendCommand, Tried
<1>2. CASE link # "up"
  BY <1>1, <1>2, OrderedSame
<1>3. CASE link = "up"
  <2> DEFINE n == Len(toServer)
  <2>1. /\ toServer' \in Seq(Commands) /\ Len(toServer') = n + 1 /\ n \in Nat
        /\ \A l \in 1..n : toServer'[l].cmd = toServer[l].cmd /\ (toServer'[l].own => toServer'[l].cmd = "none")
        /\ toServer'[n + 1].cmd = todo[1][2]
    BY <1>3, Sent
  <2> HIDE DEF n
  <2> SUFFICES ASSUME NEW k \in DOMAIN toServer', toServer'[k].own, toServer'[k].cmd \in {"RETR", "STOR"}
               PROVE  op # "none" /\ connected /\ TypedBy(toServer', Tried, wanted, k - 1)
    BY <1>1 DEF Ordered, TypedBy
  <2>2. k = n + 1
    <3>1. k \in 1..(n + 1)
      BY <2>1
    <3>2. k \in 1..n => toServer'[k].cmd = "none"
      BY <2>1
    <3> QED
      BY <2>1, <3>1, <3>2
  <2>3. /\ todo[1][1] = "send" /\ todo # <<>> /\ todo[1][2] \in {"RETR", "STOR"} /\ todo \in StepSeq
        /\ 1 \in DOMAIN todo /\ (op = "none" => todo = <<>>) /\ wanted \in BOOLEAN
    BY <2>1, <2>2, Before, TypesAre, FirstIs DEF SendCommand, Kinds, Quiets, ClientVars
  <2>4. Carries(todo[1]) /\ \A l \in 1..(1 - 1) : FALSE
    BY <2>3 DEF Carries, Sends
  <2>5. connected
    BY <2>3, <2>4, CarryingWorks
  <2>6. Ready
    <3>1. ~TypeIsAhead(todo, 1, wanted)
      BY DEF TypeIsAhead
    <3>2. CarriesReady
      BY TypeInvIs DEF ClientInv
    <3> QED
      BY <2>3, <2>4, <3>1, <3>2 DEF CarriesReady
  <2>7. TypedBy(toServer, Tried, wanted, n)
    BY <1>3, <2>6 DEF Ready, n
  <2>8. TypedBy(toServer', Tried, wanted, n)
    <3>1. n \in Nat /\ wanted \in BOOLEAN /\ \A l \in 1..n : toServer'[l].cmd = toServer[l].cmd
      BY <2>1, <2>3
    <3> QED
      BY <2>7, <3>1, TypedByOn
  <2>9. k - 1 = n
    BY <2>1, <2>2
  <2> QED
    BY <2>3, <2>5, <2>8, <2>9
<1> QED
  BY <1>2, <1>3

\* Every step of the client keeps the commands in order.
LEMMA OrderedClient ==
  ASSUME ClientInv, Client
  PROVE  Ordered'
<1>1. CASE Return \/ SendCommand
  BY <1>1, OrderedReturn, OrderedSend
<1>2. CASE Open \/ Disconnect
  <2>1. toServer' = <<>>
    BY <1>2 DEF Open, Disconnect, CloseLink
  <2> QED
    BY <2>1, OrderedSame
<1>3. CASE IsConnected
  <2>1. toServer' = <<>> \/ UNCHANGED <<connected, toServer, remote>>
    BY <1>3 DEF IsConnected, CloseLink
  <2>2. UNCHANGED <<op, wanted>>
    BY <1>3 DEF IsConnected
  <2> QED
    BY <2>1, <2>2, OrderedSame DEF remote, Tried
<1>4. CASE ConnectSSL \/ Connected
  <2>1. UNCHANGED <<toServer, op, wanted, Tried>> /\ connected' \in {connected, TRUE}
    BY <1>4 DEF ConnectSSL, Connected, client, control, remote, Tried
  <2> QED
    BY <2>1, OrderedSame
<1>5. CASE ReadReply
  <2>1. toServer' \in {toServer, <<>>}
    BY <1>5, ReadIs DEF Refused
  <2>2. UNCHANGED <<op, wanted, Tried, connected>>
    BY <1>5 DEF ReadReply, remote, Tried
  <2> QED
    BY <2>1, <2>2, OrderedSame
<1>6. CASE WaitForConnect \/ CheckAborted \/ OpenData \/ OpenDataFails
  <2>1. UNCHANGED <<toServer, op, wanted, Tried, connected>>
    <3>1. CASE WaitForConnect
      BY <3>1 DEF WaitForConnect, control, remote, Tried
    <3>2. CASE CheckAborted
      BY <3>2 DEF CheckAborted, control, remote, Tried
    <3>3. CASE OpenData
      BY <3>3 DEF OpenData, control, remote, Tried
    <3>4. CASE OpenDataFails
      BY <3>4 DEF OpenDataFails, remote, Tried
    <3> QED
      BY <1>6, <3>1, <3>2, <3>3, <3>4
  <2> QED
    BY <2>1, OrderedSame
<1>7. CASE Lines \/ LinesCut \/ ReceiveAll \/ ReceiveCut \/ SendAll \/ SendCut
  <2>1. UNCHANGED <<toServer, op, wanted, Tried, connected>>
    BY <1>7 DEF Lines, LinesCut, ReceiveAll, ReceiveCut, SendAll, SendCut, Data, control, remote, Tried
  <2> QED
    BY <2>1, OrderedSame
<1> QED
  BY <1>1, <1>2, <1>3, <1>4, <1>5, <1>6, <1>7 DEF Client

\* Abort keeps the transfer type.
LEMMA TypeOthers ==
  ASSUME ClientInv, Abort \/ UNCHANGED vars
  PROVE  CarriesReady' /\ Ordered'
<1>1. UNCHANGED <<todo, op, wanted, Tried, toServer, link, connected>>
  <2>1. CASE Abort
    BY <2>1 DEF Abort, call, control, remote, Tried
  <2>2. CASE UNCHANGED vars
    BY <2>2 DEF vars, call, control, remote, client, Tried
  <2> QED
    BY <2>1, <2>2
<1>2. CarriesReady
  BY TypeInvIs DEF ClientInv
<1>3. Ready => Ready'
  BY <1>1, ReadySame
<1> QED
  BY <1>1, <1>2, <1>3, OrderedSame DEF CarriesReady

\* The server answers: the type is set by what it has read.
LEMMA TypedAnswer ==
  ASSUME ClientInv, Answer, login = "in", NEW k \in DOMAIN toServer, TypedBy(toServer, Tried, wanted, k)
  PROVE  TypedBy(toServer', Tried', wanted, k - 1)
<1>1. toServer \in Seq(Commands) /\ toServer # <<>> /\ toServer' = Tail(toServer) /\ wanted \in BOOLEAN
  BY TypesAre DEF RemoteVars, ClientVars, Answer
<1>2. Head(toServer) = toServer[1] /\ k \in Nat \ {0} /\ k <= Len(toServer) /\ Len(toServer) \in Nat
  BY <1>1, TailOf
<1>3. PICK digit \in Answers(toServer[1].cmd) :
        IF toServer[1].cmd \in {"TYPE_A", "TYPE_I"}
        THEN /\ image' = IF digit = 2 THEN toServer[1].cmd = "TYPE_I" ELSE image
             /\ refused' = IF digit = 2 THEN {} ELSE {toServer[1].cmd = "TYPE_I"}
        ELSE UNCHANGED <<image, refused>>
  BY <1>2 DEF Answer
<1>4. IF toServer[1].cmd \in Types THEN (toServer[1].cmd = "TYPE_I") \in Tried' ELSE Tried' = Tried
  BY <1>3 DEF Types, Tried
<1>5. \A l \in 1..(k - 1) : toServer'[l].cmd = toServer[l + 1].cmd
  BY <1>1, <1>2
<1> QED
  BY <1>1, <1>2, <1>4, <1>5, TypedByTail

\* The server takes on the commands in order.
LEMMA TypeServer ==
  ASSUME ClientInv, Server
  PROVE  CarriesReady' /\ Ordered'
<1>1. UNCHANGED <<todo, op, wanted, connected>>
  BY OthersStay DEF Stays
<1>2. CarriesReady /\ Ordered /\ LoggedIn /\ toServer \in Seq(Commands)
  BY TypeInvIs, LoginInvIs, TypesAre DEF ClientInv, RemoteVars
<1>3. CASE Answer
  <2>1. toServer # <<>> /\ toServer' = Tail(toServer) /\ link' = "up" /\ link = "up"
    BY <1>3 DEF Answer
  <2>2. /\ Len(toServer) \in Nat \ {0} /\ DOMAIN toServer = 1..Len(toServer) /\ Len(toServer') = Len(toServer) - 1
        /\ DOMAIN toServer' = 1..(Len(toServer) - 1)
        /\ \A k \in 1..(Len(toServer) - 1) : toServer'[k] = toServer[k + 1]
    <3>1. Len(toServer) \in Nat \ {0}
      BY <1>2, <2>1, TailOf
    <3> QED
      BY <1>2, <2>1, <3>1
  <2>3. ASSUME login = "in", Ready PROVE Ready'
    <3>1. TypedBy(toServer, Tried, wanted, Len(toServer)) /\ Len(toServer) \in DOMAIN toServer
      BY <2>1, <2>2, <2>3 DEF Ready
    <3>2. TypedBy(toServer', Tried', wanted, Len(toServer) - 1)
      BY <1>3, <2>3, <3>1, TypedAnswer
    <3> QED
      BY <1>1, <2>2, <3>2 DEF Ready, TypedBy
  <2>4. CarriesReady'
    <3> SUFFICES ASSUME NEW i \in DOMAIN todo, Carries(todo[i]),
                        \A n \in 1..(i-1) : Prepares(todo[n]), Ready
                 PROVE  Ready'
      BY <1>1, <1>2 DEF CarriesReady
    <3>1. login = "in"
      BY CarryingWorks
    <3> QED
      BY <2>3, <3>1
  <2>5. Ordered'
    <3> SUFFICES ASSUME NEW k \in DOMAIN toServer', toServer'[k].own, toServer'[k].cmd \in {"RETR", "STOR"}
                 PROVE  op # "none" /\ connected /\ TypedBy(toServer', Tried', wanted, k - 1)
      BY <1>1 DEF Ordered, TypedBy
    <3>1. k + 1 \in DOMAIN toServer /\ toServer'[k] = toServer[k + 1] /\ k \in Nat \ {0}
      BY <2>2
    <3>2. op # "none" /\ connected /\ TypedBy(toServer, Tried, wanted, k + 1 - 1)
      BY <1>2, <3>1 DEF Ordered
    <3>3. k \in DOMAIN toServer /\ k + 1 - 1 = k
      BY <2>2, <3>1
    <3>4. login = "in"
      BY <1>2, <3>2 DEF LoggedIn
    <3>5. TypedBy(toServer', Tried', wanted, k - 1)
      BY <1>3, <3>2, <3>3, <3>4, TypedAnswer
    <3> QED
      BY <3>2, <3>5
  <2> QED
    BY <2>4, <2>5
<1>4. CASE FinishTransfer
  <2>1. UNCHANGED <<Tried, toServer, link>>
    BY <1>4 DEF FinishTransfer, Tried
  <2>2. Ready => Ready'
    BY <1>1, <2>1, ReadySame
  <2> QED
    BY <1>1, <1>2, <2>1, <2>2, OrderedSame DEF CarriesReady
<1>5. CASE Drop
  <2>1. toServer' = <<>> /\ link' = "lost"
    BY <1>5 DEF Drop
  <2>2. Ready'
    BY <2>1 DEF Ready
  <2> QED
    BY <1>1, <1>2, <2>1, <2>2, OrderedSame DEF CarriesReady
<1> QED
  BY <1>3, <1>4, <1>5 DEF Server

\* Every step keeps the transfer type.
LEMMA TypesNext ==
  ASSUME ClientInv, [Next]_vars
  PROVE  TypeInv'
<1>1. ASSUME CarriesReady', Ordered' PROVE TypeInv'
  BY <1>1, TypeInvIs, PTL
<1>2. wanted \in BOOLEAN
  BY TypesAre DEF ClientVars
<1>3. ASSUME NEW o \in Operations, Start(o) PROVE TypeInv'
  <2>1. todo = <<>> /\ Goes
    BY <1>3, TypesAre, StartGoes DEF Start
  <2>2. CarriesReady'
    BY <1>2, <2>1, CarriesGoOn
  <2> QED
    BY <1>1, <1>3, <2>2, OrderedStart
<1>4. CASE Client
  <2>1. Goes
    BY <1>4, ClientGoes
  <2>2. CarriesReady'
    BY <1>2, <1>4, <2>1, CarriesGoOn, ReadyNext
  <2> QED
    BY <1>1, <1>4, <2>2, OrderedClient
<1>5. CASE Abort \/ UNCHANGED vars
  BY <1>1, <1>5, TypeOthers
<1>6. CASE Server
  BY <1>1, <1>6, TypeServer
<1> QED
  BY <1>3, <1>4, <1>5, <1>6 DEF Next

(***************************************************************************)
(* The inductive invariant, and what follows from it.                      *)
(***************************************************************************)

\* Initially there is no call and no connection.
LEMMA ClientInit == Init => ClientInv
<1> SUFFICES ASSUME Init PROVE ClientInv
  OBVIOUS
<1>1. /\ todo = <<>> /\ toServer = <<>> /\ toClient = <<>> /\ transfer = NoTransfer /\ link = "closed"
      /\ connected = FALSE /\ cached = FALSE /\ own = TRUE /\ disturbed = FALSE /\ op = "none"
      /\ data = "none" /\ listening = "none"
  BY DEF Init
<1>2. ClientType
  <2>1. ClientVars
    BY ClientAssumption DEF Init, ClientVars, ClientAssumption
  <2>2. RemoteVars
    BY NoTransferIs, NoReplyIs, Empties DEF Init, RemoteVars
  <2>3. todo \in StepSeq
    BY <1>1 DEF StepSeq
  <2> QED
    BY <1>1, <2>1, <2>2, <2>3, ClientTypeIs
<1>3. ProgramInv
  BY <1>1, ProgramEnd DEF ProgramInv
<1>4. DataInv
  BY <1>1 DEF DataInv
<1>5. Nth(todo, 1) = Absent
  BY <1>1 DEF Nth
<1>6. ReplyInv
  <2>1. Quiet
    BY <1>1 DEF Quiet, Goodbye
  <2>2. Held /\ KeptWhere
    BY <1>1, NoTransferIs DEF Held, KeptWhere
  <2> QED
    BY <1>1, <2>1, <2>2, QuietOwes, ReplyInvIs DEF Settled
<1>7. LoginInv
  BY <1>1, <1>5, AbsentIs, LoginInvIs DEF LoggedIn, LoginAhead, LoginAsked, Connecting, Reads
<1>8. TypeInv
  BY <1>1, TypeInvIs DEF CarriesReady, Ordered
<1> QED
  BY <1>2, <1>3, <1>4, <1>6, <1>7, <1>8 DEF ClientInv

\* What holds between two steps of a call always holds.
THEOREM ClientInductive == Spec => []ClientInv
<1>1. Init => ClientInv
  BY ClientInit
<1>2. ClientInv /\ [Next]_vars => ClientInv'
  BY ProgramNext, TypeNext, DataNext, ReplyNext, LoginNext, TypesNext DEF ClientInv
<1> QED
  BY <1>1, <1>2, PTL DEF Spec

\* A call reads the replies to its own commands only, unless a call before it was
\* cut short on this connection.
THEOREM RepliesStayOwn == Spec => []RepliesAreOwn
<1>1. ClientInv => RepliesAreOwn
  BY ReplyInvIs DEF ClientInv, Settled, Held, RepliesAreOwn
<1> QED
  BY <1>1, ClientInductive, PTL

\* The wrapper is connected only over a connection that is logged in.
THEOREM ConnectedMeansLoggedIn == Spec => []ConnectedIsLoggedIn
<1>1. ClientInv => ConnectedIsLoggedIn
  BY LoginInvIs DEF ClientInv, LoggedIn, ConnectedIsLoggedIn
<1> QED
  BY <1>1, ClientInductive, PTL

\* Between two calls there is neither a data connection nor a port that is listened on.
THEOREM DataStaysClosed == Spec => []DataIsClosed
<1>1. ClientInv => DataIsClosed
  <2> SUFFICES ASSUME ClientInv, op = "none" PROVE data = "none" /\ listening # "bound"
    BY DEF DataIsClosed
  <2>1. Nth(todo, 1) = Absent /\ DataInv
    BY IdleIs, TypesAre DEF ClientInv
  <2> QED
    BY <2>1, AbsentIs, NothingHeld
<1> QED
  BY <1>1, ClientInductive, PTL

\* A transfer the server takes on has the type its call wants.
LEMMA TransferIsTyped ==
  ASSUME ClientInv, [Next]_vars, NEW c \in {"RETR", "STOR"}, Accepts(c)
  PROVE  image = wanted \/ wanted \in refused
<1>1. transfer' # NoTransfer /\ transfer = NoTransfer /\ transfer'.cmd = c /\ transfer'.own
  BY NoTransferIs DEF Accepts
<1>2. Stale(NoTransfer) = NoTransfer
  BY DEF Stale
<1>3. Answer
  <2>1. ASSUME NEW o \in Operations PROVE ~Start(o)
    BY <1>1 DEF Start, remote
  <2>2. ~Return /\ ~SendCommand
    BY <1>1, <1>2 DEF Return, SendCommand, Overtake
  <2>3. ~IsConnected /\ ~Open /\ ~Disconnect
    BY <1>1 DEF IsConnected, Open, Disconnect, CloseLink, remote
  <2>4. ~ConnectSSL /\ ~Connected /\ ~ReadReply /\ ~WaitForConnect /\ ~CheckAborted /\ ~OpenData /\ ~OpenDataFails
    BY <1>1 DEF ConnectSSL, Connected, ReadReply, WaitForConnect, CheckAborted, OpenData, OpenDataFails, remote
  <2>5. ~Lines /\ ~LinesCut /\ ~ReceiveAll /\ ~ReceiveCut /\ ~SendAll /\ ~SendCut
    BY <1>1 DEF Lines, LinesCut, ReceiveAll, ReceiveCut, SendAll, SendCut, Data, remote
  <2>6. ~Abort /\ ~FinishTransfer /\ ~Drop /\ ~UNCHANGED vars
    BY <1>1 DEF Abort, FinishTransfer, Drop, vars, remote
  <2> QED
    BY <2>1, <2>2, <2>3, <2>4, <2>5, <2>6 DEF Next, Client, Server
<1>4. toServer \in Seq(Commands) /\ toServer # <<>> /\ Ordered
  BY <1>3, TypesAre, TypeInvIs DEF RemoteVars, ClientInv, Answer
<1>5. Head(toServer) = toServer[1] /\ 1 \in DOMAIN toServer
  BY <1>4, TailOf
<1>6. transfer' = toServer[1]
  <2>1. PICK digit \in Answers(toServer[1].cmd) : transfer' = IF digit = 1 THEN toServer[1] ELSE transfer
    BY <1>3, <1>5 DEF Answer
  <2> QED
    BY <1>1, <2>1
<1>7. toServer[1].own /\ toServer[1].cmd \in {"RETR", "STOR"}
  BY <1>1, <1>6
<1>8. TypedBy(toServer, Tried, wanted, 1 - 1)
  BY <1>4, <1>5, <1>7 DEF Ordered
<1> QED
  BY <1>8 DEF TypedBy, Tried

\* A transfer the server takes on has the type its operation asked for.
THEOREM TypeStaysSet == Spec => TypeIsSet
<1>1. ClientInv /\ [Next]_vars =>
        [\A c \in {"RETR", "STOR"} : Accepts(c) => image = wanted \/ wanted \in refused]_vars
  BY TransferIsTyped
<1> QED
  BY <1>1, ClientInductive, PTL DEF Spec, TypeIsSet
=============================================================================
