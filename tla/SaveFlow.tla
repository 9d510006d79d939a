------------------------------ MODULE SaveFlow ------------------------------
(***************************************************************************)
(* What a save in Notepad++ does (NppFTP::OnSave), on top of Session: a    *)
(* file below a user@host directory ends a session with another server,    *)
(* starts one with the first profile that fits, and is uploaded, all in    *)
(* one call on the window thread, in which the question of                 *)
(* TerminateSession may be open.                                           *)
(*                                                                         *)
(* The local directory of a file is what the expanded cache path of the    *)
(* profile it was opened from was.  OnSave takes user and host from its    *)
(* name, but no port: profiles of several servers may have one Folder.     *)
(***************************************************************************)
EXTENDS Session

CONSTANTS
  Profiles,      \* m_profiles, in order
  Folder,        \* the cache directory a profile expands to: user@host
  Server,        \* the server of a profile: user, host and port
  Files,         \* the files the user has open
  Home,          \* the profile a file was opened from, or None
  None

ASSUME SaveAssumption ==
  /\ Profiles \in Seq(DOMAIN Folder) /\ None \notin DOMAIN Folder
  /\ \A p \in DOMAIN Folder : Folder[p] # None
  /\ DOMAIN Server = DOMAIN Folder
  /\ \A p, q \in DOMAIN Folder : Server[p] = Server[q] => Folder[p] = Folder[q]
  /\ Home \in [Files -> DOMAIN Folder \cup {None}]

VARIABLES
  profile,       \* m_currentProfile
  saving,        \* the file OnSave works on
  spc,           \* how far it is
  uploads        \* the file and the profile of each upload a save queued

saveVars == <<profile, saving, spc, uploads>>
saveAll  == <<vars, saveVars>>

\* GetUserAndHostFromFilename: a file that no profile has opened has none.
FileFolder(f) == IF Home[f] = None THEN None ELSE Folder[Home[f]]

\* AttemptToAutoConnect: the first profile with that user and host.
Fitting(f) == {i \in DOMAIN Profiles : Folder[Profiles[i]] = FileFolder(f)}
MatchingProfile(f) == Profiles[CHOOSE i \in Fitting(f) : \A j \in Fitting(f) : i <= j]

\* GetCacheExternal of the current profile: the file is in its directory.
IsInCache(f) == profile # None /\ Folder[profile] = FileFolder(f)

\* OnSave returns to the message loop only in the question.
Blocked == spc # "idle" /\ boxes = <<>> /\ closing = "no"

\* A transfer that is gone has no file.
Forget == uploads' = [t \in Transfers |-> IF transfer'[t] = "none" THEN None ELSE uploads[t]]

-----------------------------------------------------------------------------
(***************************************************************************)
(* OnSave, one call after the other.                                       *)
(***************************************************************************)

\* beNotified for NPPN_FILESAVED.
OnSave(f) ==
  /\ UserMayAct /\ spc = "idle"
  /\ saving' = f
  /\ spc' = IF running /\ FileFolder(f) # None /\ Folder[profile] # FileFolder(f)
            THEN "mismatch" ELSE "connect"
  /\ UNCHANGED <<vars, profile, uploads>>

\* A mutant ends the session without a question.
DisconnectAtOnce ==
  /\ Blocked /\ spc = "mismatch"
  /\ StopRunning /\ boxes' = boxes
  /\ spc' = "connect"
  /\ UNCHANGED <<generation, refs, opVars, windowVars, tpc, profile, saving, uploads>>

\* Its call of TerminateSession may ask, and the user may decline: the session
\* with the other server stays.
DisconnectOnInfoMismatch ==
  /\ Blocked /\ spc = "mismatch"
  /\ TerminateSession("user")
  /\ spc' = "connect"
  /\ UNCHANGED <<generation, refs, opVars, windowVars, tpc, profile, saving, uploads>>

\* AttemptToAutoConnect, StartSession and Connect.
AttemptToAutoConnect ==
  /\ Blocked /\ spc = "connect" /\ ~running /\ Fitting(saving) # {}
  /\ StartSession
  /\ profile' = MatchingProfile(saving) /\ spc' = "upload"
  /\ UNCHANGED <<saving, uploads>>

AutoConnectFails ==
  /\ Blocked /\ spc = "connect" /\ ~running /\ Fitting(saving) # {}
  /\ StartSessionFails
  /\ spc' = "idle"
  /\ UNCHANGED <<profile, saving, uploads>>

\* A mutant waits for a session.
NoAutoConnectStuck ==
  /\ Blocked /\ spc = "connect" /\ running
  /\ spc' = "upload"
  /\ UNCHANGED <<vars, profile, saving, uploads>>

\* There is a session, or no profile fits (or the bound on sessions is reached).
NoAutoConnect ==
  /\ Blocked /\ spc = "connect"
  /\ running \/ Fitting(saving) = {} \/ generation >= MaxGeneration
  /\ spc' = IF running THEN "upload" ELSE "idle"
  /\ UNCHANGED <<vars, profile, saving, uploads>>

\* UploadFileCache; the transfer that is free stands for the operation.
UploadFileCache(t) ==
  /\ Blocked /\ spc = "upload" /\ IsInCache(saving)
  /\ AddTransfer(t)
  /\ uploads' = [uploads EXCEPT ![t] = [file |-> saving, profile |-> profile]]
  /\ spc' = "idle"
  /\ UNCHANGED <<profile, saving>>

NotUploaded ==
  /\ Blocked /\ spc = "upload"
  /\ ~IsInCache(saving) \/ \A t \in Transfers : transfer[t] # "none"
  /\ spc' = "idle"
  /\ UNCHANGED <<vars, profile, saving, uploads>>

Save == DisconnectOnInfoMismatch \/ AttemptToAutoConnect \/ AutoConnectFails \/ NoAutoConnect
        \/ NotUploaded \/ \E t \in Transfers : UploadFileCache(t)

-----------------------------------------------------------------------------
(***************************************************************************)
(* The session under it.                                                   *)
(***************************************************************************)

\* The user connects to a profile of the list.
ConnectTo(p) ==
  /\ spc = "idle" /\ StartSession
  /\ profile' = p
  /\ UNCHANGED <<saving, spc, uploads>>

UserAction == StartSessionFails \/ Disconnect \/ \E t \in Transfers : AddTransfer(t)

\* m_currentProfile is cleared where it is released.
WindowAction == Answer \/ Clear \/ Messages

SessionStep ==
  /\ \/ spc = "idle" /\ UserAction
     \/ ~Blocked /\ WindowAction
     \/ Connect \/ Timer
     \/ \E t \in Transfers : TransferThread(t)
  /\ profile' = IF refs' = 0 THEN None ELSE profile
  /\ Forget
  /\ UNCHANGED <<saving, spc>>

SaveInit ==
  /\ Init
  /\ profile = None /\ saving = None /\ spc = "idle"
  /\ uploads = [t \in Transfers |-> None]

SaveNext ==
  \/ \E f \in Files : OnSave(f)
  \/ Save
  \/ \E i \in DOMAIN Profiles : ConnectTo(Profiles[i])
  \/ SessionStep

\* OnSave goes on whenever it can.
SaveSpec == SaveInit /\ [][SaveNext]_saveAll
FairSaveSpec == SaveSpec /\ Fairness /\ WF_saveAll(Save)

-----------------------------------------------------------------------------
\* An upload that a save queued never runs over another session than its own,
\* nor below another directory than its file's: the session that was running may
\* have stayed (the user declined), ended (a failed connect while the question
\* was open) or been replaced by one with another profile in the middle of OnSave.
SavesStayInSession ==
  \A t \in Transfers :
    uploads[t] # None =>
      /\ uploads[t].profile = profile
      /\ Folder[profile] = FileFolder(uploads[t].file)

\* What the user expects of it, port included: the save goes to the server the
\* file was opened from ("find a reasonable" profile, NppFTP.cpp:363).
SavesReachHome ==
  \A t \in Transfers :
    uploads[t] # None => Server[uploads[t].profile] = Server[Home[uploads[t].file]]

\* Behind it: an upload is noted for a transfer that is there, and transfers are
\* there only with the session's root directory.
UploadInv ==
  /\ SavesStayInSession
  /\ \A t \in Transfers : uploads[t] # None => transfer[t] # "none"
  /\ \A t \in Transfers : transfer[t] # "none" => "root" \in objects

\* Behind both: OnSave works on one of the user's files and for a profile of the
\* list; the session it is about to end runs, because the message loop is not
\* entered before the question.
SaveInv ==
  /\ profile \in DOMAIN Folder \cup {None}
  /\ spc # "idle" => saving \in Files
  /\ spc = "mismatch" => running /\ boxes = <<>> /\ closing = "no"
  /\ DOMAIN uploads = Transfers

\* To the session a save is a sequence of what the user does anyway: every step
\* of OnSave is one the session takes or leaves it alone.
ImplementsSession == Spec

\* OnSave returns: Notepad++ is not held up for ever.
SaveReturns == (spc # "idle") ~> (spc = "idle")
=============================================================================
