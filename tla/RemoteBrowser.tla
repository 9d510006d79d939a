---------------------------- MODULE RemoteBrowser ----------------------------
(***************************************************************************)
(* The flat remote list of FTPWindow: the tree of FileObjects the session  *)
(* keeps, the directory the list shows, the navigation it waits for, and   *)
(* the main queue whose directory listings and mutations arrive behind the *)
(* user's back.                                                            *)
(*                                                                         *)
(* A path is a value of Paths.  A FileObject is a path and whether it is   *)
(* still in the tree: OnDirectoryRefresh replaces the children of a        *)
(* directory without deleting the old ones, so a pointer to one of them    *)
(* stays readable and is out of the tree.                                  *)
(***************************************************************************)
EXTENDS Integers, FiniteSets, SequencesExt

CONSTANTS
  Dirs, Files,  \* the paths
  Root,         \* "/"
  Parent,       \* the directory of any other path
  InitialDir,   \* where a connection starts
  Present,      \* what the server has at first
  None,
  Filters,      \* what the quick search may match, every path included
  MaxRequests   \* bound: commands of the user

Paths == Dirs \cup Files

ASSUME BrowserAssumption ==
  /\ IsFiniteSet(Paths) /\ Dirs \cap Files = {} /\ Root \in Dirs /\ InitialDir \in Dirs
  /\ None \notin Paths \cup [path : Paths, live : BOOLEAN]
  /\ Parent \in [Paths \ {Root} -> Dirs]
  /\ \E depth \in [Paths -> 0..Cardinality(Paths)] :   \* a tree
       \A p \in Paths \ {Root} : depth[Parent[p]] < depth[p]
  /\ Present \subseteq Paths /\ Root \in Present
  /\ Paths \in Filters /\ \A f \in Filters : f \subseteq Paths
  /\ MaxRequests \in Nat

VARIABLES
  exists,       \* the server: the paths it has
  queue,        \* the main queue
  step,         \* what its thread does with the front
  listing,      \* m_data and parentDirObjs of the front, if it succeeded
  tree,         \* the paths below m_rootObject
  current,      \* m_remoteCurrentDir
  rows,         \* the rows of m_remoteList, without ".."
  selection,    \* m_currentSelection
  filter,       \* what m_remoteSearchEdit matches
  pending,      \* m_remotePendingPath
  focus,        \* m_remotePendingFocusPath
  busy,         \* m_remoteBusyCursor
  transfers,    \* the single uploads and downloads that are under way
  asked,        \* the directory the user went to last
  requests      \* the commands so far

viewVars   == <<tree, current, rows, selection, filter>>
queueVars  == <<queue, step, listing>>
serverVars == <<exists, transfers>>
vars == <<exists, queueVars, viewVars, pending, focus, busy, transfers, asked, requests>>

\* The paths from Root to p, both of them.
Ancestry[p \in Paths] ==
  IF p = Root THEN <<Root>> ELSE Append(Ancestry[Parent[p]], p)

Below(d) == {p \in Paths : p # d /\ d \in Range(Ancestry[p])}
Children(d, set) == {p \in set \ {Root} : Parent[p] = d}
IsDir(p) == p \in Dirs

Object(p) == [path |-> p, live |-> TRUE]
Connected == current # None

\* What RemoveAllChildren(false) of d makes of a pointer.
Detach(o, d) ==
  IF o # None /\ o.path \in Below(d) THEN [o EXCEPT !.live = FALSE] ELSE o

-----------------------------------------------------------------------------
(***************************************************************************)
(* Requests.                                                               *)
(***************************************************************************)

List(p, parents) == [type |-> "list", path |-> p, to |-> p, slash |-> FALSE, parents |-> parents]
\* The End of an upload truncates the path behind the slash: "/a/" is not "/a".
ListAfterUpload(p) == [List(p, <<>>) EXCEPT !.slash = p # Root]

\* QueueGetDir::Equals: the data of a listing that arrived tells it apart, the
\* parents do not.
Equals(q, op, i) ==
  /\ q[i].type = op.type /\ q[i].path = op.path /\ q[i].to = op.to
  /\ q[i].slash = op.slash
  /\ ~(i = 1 /\ listing # None)

\* FTPQueue::AddQueueOp: what it makes of the queue.
AddQueueOp(q, op) == IF \E i \in DOMAIN q : Equals(q, op, i) THEN q ELSE Append(q, op)

\* GetDirectoryHierarchy lists every directory above the target from the parent of
\* the first that is not known or that has no item in the tree view, where the user
\* may have collapsed any directory on the way.  (A path that is too long for its
\* buffer is given up, and left out.)
Hierarchies(p) ==
  LET path  == Ancestry[p]
      first == Min({i \in DOMAIN path : path[i] \notin tree})
  IN  {SubSeq(path, i - 1, Len(path) - 1) : i \in 2..first}

Request == Connected /\ requests < MaxRequests /\ requests' = requests + 1

\* NavigateRemotePath, from a row, Backspace, a typed path or a saved file
\* (file # None, NavigateRemoteSavedFile).
NavigateRemotePath(p, file) ==
  /\ Request
  /\ IsDir(p)
  /\ pending' = p /\ asked' = p /\ focus' = file /\ busy' = TRUE
  /\ \E parents \in IF p \in tree THEN {<<>>} ELSE Hierarchies(p) :
       queue' = AddQueueOp(queue, List(p, parents))
  /\ UNCHANGED <<serverVars, step, listing, viewVars>>

\* ActivateRemoteListSelection and the combo box on a known file: it is
\* downloaded and opened.
DownloadFileCache(p) ==
  /\ Request
  /\ p \in Files \cap tree /\ transfers[p] = "no"
  /\ busy' = TRUE
  /\ transfers' = [transfers EXCEPT ![p] = "download"]
  /\ UNCHANGED <<exists, queueVars, viewVars, pending, focus, asked>>

\* IDM_POPUP_REMOTE_REFRESH and IDB_BUTTON_TOOLBAR_REFRESH.
GetDirectory(o) ==
  /\ Request
  /\ o # None /\ IsDir(o.path)
  /\ queue' = AddQueueOp(queue, List(o.path, <<>>))
  /\ UNCHANGED <<serverVars, step, listing, viewVars, pending, focus, busy, asked>>

\* OnRemoteListSelectionChanged and the context menu; the row ".." stands for
\* the parent.
Select(o) ==
  /\ Connected /\ o # selection
  /\ o \in rows \cup {current} \cup {Object(Parent[p]) : p \in {current.path} \ {Root}}
  /\ selection' = o
  /\ UNCHANGED <<serverVars, queueVars, tree, current, rows, filter, pending, focus, busy, asked,
                 requests>>

\* FillRemoteList: the children of the directory that match the quick search.
FillRemoteList(d, t) == {Object(p) : p \in Children(d, t) \cap filter'}

\* The quick search does not touch the selection.
Search(f) ==
  /\ Connected /\ f # filter
  /\ filter' = f
  /\ rows' = FillRemoteList(current.path, tree)
  /\ UNCHANGED <<serverVars, queueVars, tree, current, selection, pending, focus, busy, asked, requests>>

\* CreateFile and CreateDirectory below the selected directory or the current
\* one, DeleteFile, DeleteDirectory, Rename and Chmod of the selected row: the
\* mutation is queued, and behind it the listing of the directory.
Mutation(type, p, to) == [type |-> type, path |-> p, to |-> to, slash |-> FALSE, parents |-> <<>>]

Mutate(op, focused) ==
  /\ Request
  /\ focus' = IF focused = None THEN focus ELSE focused
  /\ queue' = AddQueueOp(AddQueueOp(queue, op), List(Parent[op.path], <<>>))
  /\ UNCHANGED <<serverVars, step, listing, viewVars, pending, busy, asked>>

Target == IF IsDir(selection.path) THEN selection ELSE current

Create(p) ==
  /\ Connected /\ p # Root /\ Parent[p] = Target.path
  /\ Mutate(Mutation("create", p, p), IF IsDir(p) THEN None ELSE p)

Delete ==
  /\ Connected /\ selection \in rows
  /\ Mutate(Mutation("delete", selection.path, selection.path), None)

Rename(to) ==
  /\ Connected /\ selection \in rows
  /\ to # Root /\ to # selection.path /\ Parent[to] = Parent[selection.path]
  /\ IsDir(to) = IsDir(selection.path)
  /\ Mutate(Mutation("rename", selection.path, to), to)

Chmod ==
  /\ Connected /\ selection \in rows
  /\ Mutate(Mutation("chmod", selection.path, selection.path), selection.path)

\* QueueDirectRemoteUploads: the overwrite dialog is shown for a name the tree
\* has.  The user may also decline it: then nothing happens.
Upload(p) ==
  /\ Request
  /\ p \in Files /\ Parent[p] = Target.path /\ transfers[p] = "no"
  /\ transfers' = [transfers EXCEPT ![p] = IF p \in tree THEN "agreed" ELSE "upload"]
  /\ UNCHANGED <<exists, queueVars, viewVars, pending, focus, busy, asked>>

-----------------------------------------------------------------------------
(***************************************************************************)
(* The thread of the main queue and the server.                            *)
(***************************************************************************)

Grants(op) ==
  CASE op.type = "create" -> Parent[op.path] \in exists /\ (IsDir(op.path) => op.path \notin exists)
    [] op.type = "delete" -> op.path \in exists /\ Children(op.path, exists) = {}
    [] op.type = "rename" -> op.path \in exists /\ op.to \notin exists /\ Below(op.path) \cap exists = {}
    [] OTHER -> op.path \in exists /\ Range(op.parents) \subseteq exists

Effect(op) ==
  CASE op.type = "create" -> exists \cup {op.path}
    [] op.type = "delete" -> exists \ {op.path}
    [] op.type = "rename" -> (exists \ {op.path}) \cup {op.to}
    [] OTHER -> exists

\* Perform; the parents of a QueueGetDir are listed first.
Perform ==
  /\ queue # <<>> /\ step = "waiting" /\ Grants(Head(queue))
  /\ step' = "done"
  /\ exists' = Effect(Head(queue))
  /\ listing' = IF Head(queue).type = "list"
                THEN [d \in Range(Head(queue).parents) \cup {Head(queue).path} |-> Children(d, exists)]
                ELSE None
  /\ UNCHANGED <<queue, viewVars, pending, focus, busy, transfers, asked, requests>>

\* The server refuses, or the connection is bad.
PerformFails ==
  /\ queue # <<>> /\ step = "waiting"
  /\ step' = "failed"
  /\ UNCHANGED <<exists, queue, listing, viewVars, pending, focus, busy, transfers, asked, requests>>

\* The End was handled: the operation leaves the queue.
RemoveOp ==
  /\ step = "ended"
  /\ queue' = Tail(queue) /\ step' = "waiting" /\ listing' = None
  /\ UNCHANGED <<serverVars, viewVars, pending, focus, busy, asked, requests>>

-----------------------------------------------------------------------------
(***************************************************************************)
(* OnEvent: the End of an operation, on the thread of the window.          *)
(***************************************************************************)

\* A mutant takes whatever listing arrives.
CommitsAny(op) == pending # None

\* remote_browser_completed_request_commits_pending.
CommitsPending(op) == op.path = pending /\ ~op.slash

\* A mutant takes a listing of a directory that is not shown.
UpdatesAlways(op) == TRUE

\* remote_browser_refresh_updates_visible_ui.
UpdatesVisibleUi(op) ==
  CommitsPending(op) \/ (pending = None /\ current = Object(op.path))

\* OnDirectoryRefresh for the parents, one after the other: what is missing is
\* added to a directory that is found.
Refreshed(t, d) == IF d \in t THEN t \cup listing[d] ELSE t

WithParents(op) ==
  LET known[n \in 0..Len(op.parents)] ==
        IF n = 0 THEN tree ELSE Refreshed(known[n - 1], op.parents[n])
  IN  IF CommitsPending(op) THEN known[Len(op.parents)] ELSE tree

\* OnDirectoryRefresh for the directory itself.
Replaced(op) == (WithParents(op) \ Below(op.path)) \cup listing[op.path]

\* SetRemoteCurrentDir, or FillRemoteList alone.
SetRemoteCurrentDir(d) ==
  /\ current' = Object(d)
  /\ rows' = FillRemoteList(d, tree')

\* RestoreRemoteListFocus: the file may be gone, or not match the quick search.
RestoreRemoteListFocus(op) ==
  selection' = IF Object(focus) \in rows' THEN Object(focus) ELSE Object(op.path)

OnDirectoryRefresh(op) ==
  /\ tree' = Replaced(op) /\ filter' = filter
  /\ IF CommitsPending(op) \/ current = Object(op.path)
     THEN SetRemoteCurrentDir(op.path) /\ RestoreRemoteListFocus(op)
     ELSE /\ current' = Detach(current, op.path) /\ selection' = Detach(selection, op.path)
          /\ rows' = {Detach(o, op.path) : o \in rows}
  /\ pending' = IF CommitsPending(op) THEN None ELSE pending
  /\ focus' = IF CommitsPending(op) \/ (focus # None /\ Parent[focus] = op.path) THEN None ELSE focus
  /\ busy' = (busy /\ ~CommitsPending(op))

End == step' = "ended" /\ UNCHANGED <<serverVars, queue, listing, asked, requests>>

\* QueueTypeDirectoryGet, of a directory that is found.
Listed ==
  /\ step = "done" /\ Head(queue).type = "list"
  /\ Head(queue).path \in WithParents(Head(queue)) /\ UpdatesVisibleUi(Head(queue))
  /\ OnDirectoryRefresh(Head(queue)) /\ End

\* ... that is neither shown nor waited for.
ListedInVain ==
  /\ step = "done" /\ Head(queue).type = "list"
  /\ Head(queue).path \in WithParents(Head(queue)) /\ ~UpdatesVisibleUi(Head(queue))
  /\ End /\ UNCHANGED <<viewVars, pending, focus, busy>>

\* ... that is not found, or could not be listed: the view stays.
Unreachable ==
  /\ queue # <<>> /\ Head(queue).type = "list"
  /\ \/ step = "failed" /\ tree' = tree
     \/ /\ step = "done" /\ Head(queue).path \notin WithParents(Head(queue))
        /\ tree' = WithParents(Head(queue))
  /\ pending' = IF CommitsPending(Head(queue)) THEN None ELSE pending
  /\ busy' = (busy /\ ~CommitsPending(Head(queue)))
  /\ End /\ UNCHANGED <<current, rows, selection, filter, focus>>

\* A mutation that failed gives its focus up.
Mutated ==
  /\ queue # <<>> /\ step \in {"done", "failed"} /\ Head(queue).type # "list"
  /\ focus' = IF step = "failed" /\ focus = Head(queue).to /\ Head(queue).type # "delete"
              THEN None ELSE focus
  /\ End /\ UNCHANGED <<viewVars, pending, busy>>

\* The transfer queue and the upload workers, on their own connections.
UploadPerform(p) ==
  /\ transfers[p] \in {"upload", "agreed"} /\ Parent[p] \in exists
  /\ transfers' = [transfers EXCEPT ![p] = "sent"]
  /\ exists' = exists \cup {p}
  /\ UNCHANGED <<queueVars, viewVars, pending, focus, busy, asked, requests>>

UploadEnd(p) ==
  /\ transfers[p] = "sent"
  /\ transfers' = [transfers EXCEPT ![p] = "no"]
  /\ queue' = AddQueueOp(queue, ListAfterUpload(Parent[p]))
  /\ UNCHANGED <<exists, step, listing, viewVars, pending, focus, busy, asked, requests>>

\* An upload that failed refreshes nothing; a download that ended, in any way,
\* clears the wait cursor.
TransferEnd(p) ==
  /\ transfers[p] \in {"upload", "agreed", "download"}
  /\ transfers' = [transfers EXCEPT ![p] = "no"]
  /\ busy' = (busy /\ transfers[p] # "download")
  /\ UNCHANGED <<exists, queueVars, viewVars, pending, focus, asked, requests>>

-----------------------------------------------------------------------------
Nothing == [p \in Files |-> "no"]

\* OnConnect: GetRootObject made the directories down to the initial one.
OnConnect ==
  /\ ~Connected /\ requests < MaxRequests /\ requests' = requests + 1
  /\ tree' = Range(Ancestry[InitialDir])
  /\ current' = Object(InitialDir) /\ selection' = Object(InitialDir) /\ rows' = {}
  /\ filter' = filter
  /\ asked' = InitialDir /\ busy' = FALSE
  /\ pending' = None /\ focus' = None
  /\ queue' = <<List(InitialDir, <<>>)>>
  /\ UNCHANGED <<serverVars, step, listing>>

\* OnDisconnect, after TerminateSession stopped the queues.
OnDisconnect ==
  /\ Connected
  /\ queue' = <<>> /\ step' = "waiting" /\ listing' = None
  /\ tree' = {} /\ current' = None /\ selection' = None /\ rows' = {} /\ filter' = filter
  /\ pending' = None /\ focus' = None /\ busy' = FALSE
  /\ asked' = None /\ transfers' = Nothing
  /\ UNCHANGED <<exists, requests>>

Init ==
  /\ exists = Present
  /\ queue = <<>> /\ step = "waiting" /\ listing = None
  /\ tree = {} /\ current = None /\ rows = {} /\ selection = None /\ filter = Paths
  /\ pending = None /\ focus = None /\ busy = FALSE
  /\ transfers = Nothing /\ asked = None /\ requests = 0

User ==
  \/ OnConnect \/ OnDisconnect
  \/ \E p \in Dirs : NavigateRemotePath(p, None)
  \/ \E p \in Files : NavigateRemotePath(Parent[p], p) \/ DownloadFileCache(p) \/ Upload(p)
  \/ GetDirectory(selection) \/ GetDirectory(current)
  \/ \E o \in rows \cup {Object(p) : p \in Dirs} : Select(o)
  \/ \E f \in Filters : Search(f)
  \/ Delete \/ Chmod
  \/ \E p \in Paths : Create(p) \/ Rename(p)

Queue == Perform \/ PerformFails \/ RemoveOp
Window == Listed \/ ListedInVain \/ Unreachable \/ Mutated
Transfers == \E p \in Files : UploadPerform(p) \/ UploadEnd(p) \/ TransferEnd(p)

Next == User \/ Queue \/ Window \/ Transfers

Spec == Init /\ [][Next]_vars

-----------------------------------------------------------------------------
\* What the list shows, what a command acts on and where the user is are in the
\* tree, although every refresh replaces the objects of a whole directory: the
\* rows are children of the current directory, and the selection is a child of
\* it, that directory, or its parent.
ViewIsLive ==
  Connected =>
    /\ current.live /\ current.path \in tree
    /\ \A o \in rows : o.live /\ o.path \in Children(current.path, tree)
    /\ selection.live
    /\ selection.path \in Children(current.path, tree) \cup Range(Ancestry[current.path])

\* The list only moves to where the user asked to go last, or where a connection
\* starts or ends: not to a directory an earlier request, a refresh or an upload
\* listed (latest-request-wins).
LatestRequestWins ==
  [][current # None /\ current' # None /\ current' # current => current'.path = asked]_vars

\* What the queue carries, and what a listing that arrived consists of.
Commands ==
  [type : {"list", "create", "delete", "rename", "chmod"}, path : Paths, to : Paths,
   slash : BOOLEAN, parents : Seq(Paths)]

ListingInv ==
  step = "done" /\ Head(queue).type = "list" =>
    \A d \in Range(Head(queue).parents) \cup {Head(queue).path} : listing[d] \subseteq Paths

\* Without a connection nothing is asked for and nothing is under way.
OfflineInv ==
  /\ Connected => Root \in tree
  /\ ~Connected => queue = <<>> /\ transfers = Nothing
  /\ transfers \in [Files -> {"no", "upload", "agreed", "sent", "download"}]

\* The inductive invariant: the pending directory is the one that was asked for last.
BrowserInv ==
  /\ exists \in SUBSET Paths /\ tree \in SUBSET Paths
  /\ queue \in Seq(Commands) /\ step \in {"waiting", "done", "failed", "ended"}
  /\ step # "waiting" => queue # <<>>
  /\ pending \in {None, asked}
  /\ ListingInv /\ OfflineInv /\ ViewIsLive

\* A mutation that succeeded refreshes the affected directory: the listing is
\* still to come.
MutationsAreRefreshed ==
  [][step = "done" /\ step' = "ended" /\ Head(queue).type # "list" =>
       \E i \in 2..Len(queue) :
          queue[i].type = "list" /\ queue[i].path = Parent[Head(queue).path]]_vars

\* A file of the server is replaced only after the user agreed to it.
UploadsAreAgreed ==
  [][\A p \in Files : transfers[p] = "upload" /\ transfers'[p] = "sent" => p \notin exists]_vars

\* While a navigation is pending the list shows the wait cursor.
PendingIsBusy == pending # None => busy
=============================================================================
