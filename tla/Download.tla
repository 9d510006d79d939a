------------------------------ MODULE Download ------------------------------
(***************************************************************************)
(* The download of a remote directory: the RemoteDownloadPlan that a scan  *)
(* on the main queue fills one directory listing at a time, the overwrite  *)
(* dialogs, one download per selected file on the transfer queue, and the  *)
(* operation behind them that carries the summary.                         *)
(*                                                                         *)
(* A remote entry is a value; its name shows up only as the local name it  *)
(* is converted to, where names that differ only in case are one.  A local *)
(* path is the sequence of those names below the local root.               *)
(***************************************************************************)
EXTENDS Integers, FiniteSets, SequencesExt

CONSTANTS
  Entries,      \* what is below the remote directory
  Root,         \* the directory itself
  Complete,     \* the QueueRemoteDownloadComplete
  Parent,       \* the directory an entry is in
  Kind,         \* "dir", "file", or what is not downloaded: "link", "other"
  LocalName,    \* the local name of an entry
  Invalid,      \* ... that has none
  MaxDepth,     \* MAX_PATH
  Disks         \* the local disks to start from

\* Entries form a tree below the root, which the scan and its marker are no part of.
ASSUME DownloadAssumption ==
  /\ IsFiniteSet(Entries) /\ Root \notin Entries /\ Complete \notin Entries \cup {Root}
  /\ Parent \in [Entries -> Entries \cup {Root}]
  /\ \E depth \in [Entries -> 1..Cardinality(Entries)] :
       \A e \in Entries : Parent[e] # Root => depth[Parent[e]] < depth[e]
  /\ MaxDepth \in Nat

VARIABLES
  items,        \* m_items, in the order they were found
  selected,     \* RemoteDownloadItem::selected
  scanned,      \* RemoteDownloadItem::scanned
  skipped,      \* m_failures: how many
  disk,         \* what is at each local path
  stage,        \* how far the download is
  asking,       \* the collisions that are still to be decided
  consent,      \* the files the user agreed to overwrite
  queue,        \* the transfer queue
  step,         \* what its thread does with the front
  canceled,     \* m_canceled
  result,       \* m_result of the front
  batch,        \* the counters of the RemoteDownloadBatch
  shown         \* whether the summary was shown

planVars  == <<items, selected, scanned, skipped>>
batchVars == <<queue, step, canceled, result, batch, shown>>
vars == <<planVars, disk, stage, asking, consent, batchVars>>

Stages == {"idle", "scanning", "scanned", "failed", "asking", "queued",
           "dropped", "closed"}

IsDir(e)  == e = Root \/ Kind[e] = "dir"
IsFile(e) == e # Root /\ Kind[e] = "file"

-----------------------------------------------------------------------------
(***************************************************************************)
(* RemoteDownloadPlan.                                                     *)
(***************************************************************************)

\* GetLocalPath below m_localRoot; Fits when no name is invalid and the path not
\* too long.
LocalPath[e \in Entries \cup {Root}] ==
  IF e = Root THEN <<>> ELSE Append(LocalPath[Parent[e]], LocalName[e])

LocalPaths == {LocalPath[e] : e \in Entries \cup {Root}}

\* What can be at a local path; a disk is known at the paths of the entries.
Kinds == {"none", "file", "dir", "reparse"}

ASSUME DiskAssumption == Disks \subseteq [LocalPaths -> Kinds]

Fits(e) == Len(LocalPath[e]) <= MaxDepth /\ LocalName[e] # Invalid

\* HasExistingReparsePointAncestor, the path itself included.
ReparsePointAbove(path) ==
  \E p \in DOMAIN disk : IsPrefix(p, path) /\ disk[p] = "reparse"

\* Build: the root has to be writable as a directory.
Build ==
  /\ stage = "idle" /\ disk[<<>>] # "reparse"
  /\ items' = <<Root>> /\ selected' = {Root}
  /\ stage' = "scanning"
  /\ UNCHANGED <<scanned, skipped, disk, asking, consent, batchVars>>

\* One file of a listing.  What has the local path of an item already is kept,
\* but not selected; a mutant selects every name the server tells apart.
AddItemCased(p, e) ==
  IF ~Fits(e) \/ ~(IsDir(e) \/ IsFile(e))
    THEN [p EXCEPT !.skipped = @ + 1]
    ELSE [p EXCEPT !.items = Append(@, e), !.selected = @ \cup {e}]
AddItem(p, e) ==
  IF ~Fits(e) \/ ~(IsDir(e) \/ IsFile(e))
    THEN [p EXCEPT !.skipped = @ + 1]
  ELSE IF \E f \in ToSet(p.items) : LocalPath[f] = LocalPath[e]
    THEN [p EXCEPT !.items = Append(@, e), !.skipped = @ + 1]
    ELSE [p EXCEPT !.items = Append(@, e), !.selected = @ \cup {e}]

Plan == [items |-> items, selected |-> selected, skipped |-> skipped]
SetPlan(p) == items' = p.items /\ selected' = p.selected /\ skipped' = p.skipped

ApplyRemoteDirectoryListing(d, listing) ==
  IF ReparsePointAbove(LocalPath[d])
    THEN [Plan EXCEPT !.skipped = @ + 1]
    ELSE LET after[i \in 0..Len(listing)] ==
               IF i = 0 THEN Plan ELSE AddItem(after[i - 1], listing[i])
         IN  after[Len(listing)]

\* QueueRemoteDownloadScan::Perform takes the items in turn, those it appends
\* included; links are no items, so the scan ends.
ToScan == {i \in DOMAIN items : items[i] \in selected \ scanned /\ IsDir(items[i])}

ScanDirectory ==
  /\ stage = "scanning" /\ ToScan # {}
  /\ LET d == items[Min(ToScan)] IN
       /\ \E listing \in SetToSeqs({e \in Entries : Parent[e] = d}) :
            SetPlan(ApplyRemoteDirectoryListing(d, listing))
       /\ scanned' = scanned \cup {d}
  /\ UNCHANGED <<disk, stage, asking, consent, batchVars>>

\* Not connected, canceled, or a GetDir that fails: the plan is deleted with the
\* operation.
ScanFails ==
  /\ stage = "scanning" /\ stage' = "failed"
  /\ UNCHANGED <<planVars, disk, asking, consent, batchVars>>

ScanEnds ==
  /\ stage = "scanning" /\ ToScan = {} /\ stage' = "scanned"
  /\ UNCHANGED <<planVars, disk, asking, consent, batchVars>>

-----------------------------------------------------------------------------
(***************************************************************************)
(* The End of the scan, in the window.                                     *)
(***************************************************************************)

\* PrepareLocalDirectories: the directories from the top down, each as the
\* deselection of those above it left it; a mutant leaves what is below a
\* directory that could not be created.
CreateOnly(p, e) ==
  IF e \notin p.selected \/ ~IsDir(e) THEN p
  ELSE IF p.disk[LocalPath[e]] \in {"none", "dir"}
    THEN [p EXCEPT !.disk[LocalPath[e]] = "dir"]
    ELSE [p EXCEPT !.skipped = @ + 1, !.selected = @ \ {e}]
CreateDirectory(p, e) ==
  IF e \notin p.selected \/ ~IsDir(e) THEN p
  ELSE IF p.disk[LocalPath[e]] \in {"none", "dir"}
    THEN [p EXCEPT !.disk[LocalPath[e]] = "dir"]
    ELSE [p EXCEPT !.skipped = @ + 1,
                   !.selected = {f \in @ : ~IsPrefix(LocalPath[e], LocalPath[f])}]

\* ... then the files that something other than a file is in the way of.
CheckFile(p, e) ==
  IF e \in p.selected /\ IsFile(e) /\ p.disk[LocalPath[e]] \in {"dir", "reparse"}
    THEN [p EXCEPT !.skipped = @ + 1, !.selected = @ \ {e}]
    ELSE p

CreateDirectories ==
  LET after[i \in 0..Len(items)] ==
        IF i = 0 THEN [disk |-> disk, selected |-> selected, skipped |-> skipped]
                 ELSE CreateDirectory(after[i - 1], items[i])
  IN  after[Len(items)]

PrepareLocalDirectories ==
  LET after[i \in 0..Len(items)] ==
        IF i = 0 THEN CreateDirectories ELSE CheckFile(after[i - 1], items[i])
  IN  after[Len(items)]

\* The items that are in S, in the order they were found.
ItemsIn(S) ==
  LET upTo[i \in 0..Len(items)] ==
        IF i = 0 THEN <<>>
        ELSE IF items[i] \in S THEN Append(upTo[i - 1], items[i]) ELSE upTo[i - 1]
  IN  upTo[Len(items)]

GetLocalFileCollisions(p) ==
  ItemsIn({e \in p.selected : IsFile(e) /\ p.disk[LocalPath[e]] = "file"})

ConfirmRemoteDownloadCollisions ==
  /\ stage = "scanned"
  /\ LET p == PrepareLocalDirectories IN
       /\ disk' = p.disk /\ selected' = p.selected /\ skipped' = p.skipped
       /\ asking' = GetLocalFileCollisions(p)
  /\ stage' = "asking"
  /\ UNCHANGED <<items, scanned, consent, batchVars>>

\* The dialog on the next collision; with "apply to all" it decides the others.
Decided(all) == IF all THEN ToSet(asking) ELSE {Head(asking)}
Ask(all)   == asking' = IF all THEN <<>> ELSE Tail(asking)

Overwrite(all) ==
  /\ stage = "asking" /\ asking # <<>>
  /\ consent' = consent \cup Decided(all)
  /\ Ask(all)
  /\ UNCHANGED <<planVars, disk, stage, batchVars>>

Skip(all) ==
  /\ stage = "asking" /\ asking # <<>>
  /\ selected' = selected \ Decided(all)
  /\ Ask(all)
  /\ UNCHANGED <<items, scanned, skipped, disk, stage, consent, batchVars>>

\* "Cancel", or nothing to be downloaded into: the plan is deleted.
Drop ==
  /\ stage = "asking"
  /\ asking # <<>> \/ Root \notin selected
  /\ stage' = "dropped"
  /\ UNCHANGED <<planVars, disk, asking, consent, batchVars>>

\* FTPSession::QueueRemoteDownloadPlan: the failures of the plan are the first of
\* the batch; the marker goes behind the files.
QueueRemoteDownloadPlan ==
  /\ stage = "asking" /\ asking = <<>> /\ Root \in selected
  /\ queue' = Append(ItemsIn({e \in selected : IsFile(e)}), Complete)
  /\ batch' = [batch EXCEPT !.failures = skipped]
  /\ stage' = "queued"
  /\ UNCHANGED <<planVars, disk, asking, consent, step, canceled, result, shown>>

-----------------------------------------------------------------------------
(***************************************************************************)
(* The transfer queue, as module FTPQueue shows it: the window handles the *)
(* End while the thread waits.                                             *)
(***************************************************************************)
Move(from, to) == stage = "queued" /\ queue # <<>> /\ step = from /\ step' = to

Pick ==
  /\ Move("idle", "picked")
  /\ result' = "error"
  /\ UNCHANGED <<planVars, disk, stage, asking, consent, queue, canceled, batch, shown>>

\* StartExecution, then BeginPerform.
Begin(from, to) ==
  /\ Move(from, IF Head(queue) \in canceled THEN "performed" ELSE to)
  /\ UNCHANGED <<planVars, disk, stage, asking, consent, queue, canceled, result, batch, shown>>

\* The local file is written, whether the transfer succeeds or not.  A mutant
\* leaves the marker's m_result as it is.
PerformForgetful(r) ==
  /\ Move("running", "performed")
  /\ result' = IF Head(queue) = Complete THEN result ELSE r
  /\ disk' = IF Head(queue) = Complete THEN disk
             ELSE [disk EXCEPT ![LocalPath[Head(queue)]] = "file"]
  /\ UNCHANGED <<planVars, stage, asking, consent, queue, canceled, batch, shown>>
Perform(r) ==
  /\ Move("running", "performed")
  /\ result' = IF Head(queue) = Complete THEN "ok" ELSE r
  /\ disk' = IF Head(queue) = Complete THEN disk
             ELSE [disk EXCEPT ![LocalPath[Head(queue)]] = "file"]
  /\ UNCHANGED <<planVars, stage, asking, consent, queue, canceled, batch, shown>>

\* OnEvent: a file counts by the result of its transfer, even if it was canceled
\* (and counted) while it ran.  A mutant does not record failures.
CountSucceeded(b) == IF result = "ok" THEN [b EXCEPT !.completed = @ + 1] ELSE b
CountFile(b) ==
  IF result = "ok" THEN [b EXCEPT !.completed = @ + 1] ELSE [b EXCEPT !.failures = @ + 1]

EndOfDownload ==
  /\ Head(queue) # Complete
  /\ batch' = CountFile(batch)
  /\ UNCHANGED shown
EndOfComplete ==
  /\ Head(queue) = Complete
  /\ shown' = (shown \/ result = "ok")
  /\ UNCHANGED batch
End ==
  /\ Move("performed", "idle")
  /\ EndOfDownload \/ EndOfComplete
  /\ queue' = Tail(queue)
  /\ UNCHANGED <<planVars, disk, stage, asking, consent, canceled, result>>

\* OnQueueCanceled of the operations in ops.
Cancel(ops) ==
  /\ canceled' = canceled \cup ops
  /\ batch' = [batch EXCEPT !.canceled = @ + Cardinality(ops \ {Complete})]

\* The menu's Cancel on the row of a waiting operation.
CancelOperation(i) ==
  /\ stage = "queued" /\ i \in DOMAIN queue /\ (step # "idle" => i # 1)
  /\ Cancel({queue[i]})
  /\ queue' = RemoveAt(queue, i)
  /\ UNCHANGED <<planVars, disk, stage, asking, consent, step, result, shown>>

AbortActive ==
  /\ stage = "queued" /\ step \in {"starting", "running"} /\ Head(queue) \notin canceled
  /\ Cancel({Head(queue)})
  /\ UNCHANGED <<planVars, disk, stage, asking, consent, queue, step, result, shown>>

\* FTPSession::TerminateSession, not while a dialog is open: no End is handled
\* any more, and what is left is canceled.
TerminateSession ==
  /\ stage \in {"scanning", "scanned", "queued"}
  /\ Cancel(ToSet(queue) \ (canceled \cup {e \in ToSet(queue) : step = "performed" /\ e = Head(queue)}))
  /\ queue' = <<>> /\ step' = "idle"
  /\ stage' = "closed"
  /\ UNCHANGED <<planVars, disk, asking, consent, result, shown>>

-----------------------------------------------------------------------------
Init ==
  /\ items = <<>> /\ selected = {} /\ scanned = {} /\ skipped = 0
  /\ disk \in Disks
  /\ stage = "idle" /\ asking = <<>> /\ consent = {}
  /\ queue = <<>> /\ step = "idle" /\ canceled = {} /\ result = "error"
  /\ batch = [completed |-> 0, failures |-> 0, canceled |-> 0]
  /\ shown = FALSE

Scan == Build \/ ScanDirectory \/ ScanFails \/ ScanEnds

Window ==
  \/ ConfirmRemoteDownloadCollisions \/ QueueRemoteDownloadPlan \/ Drop
  \/ \E all \in BOOLEAN : Overwrite(all) \/ Skip(all)

QueueThread ==
  \/ Pick \/ Begin("picked", "starting") \/ Begin("starting", "running")
  \/ \E r \in {"ok", "error"} : Perform(r)
  \/ End

Next ==
  \/ Scan \/ Window \/ QueueThread
  \/ \E i \in 1..(Cardinality(Entries) + 1) : CancelOperation(i)
  \/ AbortActive \/ TerminateSession

Spec == Init /\ [][Next]_vars

\* Threads run, a listing arrives or fails, dialogs are answered; nobody has to
\* download, cancel or close.
FairSpec ==
  Spec /\ WF_vars(Scan /\ stage = "scanning") /\ WF_vars(Window) /\ WF_vars(QueueThread)

-----------------------------------------------------------------------------
(***************************************************************************)
(* Properties.                                                             *)
(***************************************************************************)
TypeOK ==
  /\ ToSet(items) \subseteq Entries \cup {Root}
  /\ selected \subseteq ToSet(items) /\ scanned \subseteq ToSet(items)
  /\ stage \in Stages
  /\ step \in {"idle", "picked", "starting", "running", "performed"}
  /\ ToSet(queue) \subseteq Entries \cup {Complete}

Downloads == ToSet(queue) \ {Complete}

\* A download writes where its directory is a directory and nothing but a file
\* is in its place, no other download writes there too, and a file that was
\* there before the download is only replaced with the user's consent.
DownloadsAreSafe ==
  /\ \A e \in Downloads :
       /\ disk[LocalPath[Parent[e]]] = "dir" /\ ~ReparsePointAbove(LocalPath[e])
       /\ disk[LocalPath[e]] \in {"none", "file"}
       /\ step = "idle" /\ disk[LocalPath[e]] = "file" => e \in consent
  /\ \A e, f \in selected : LocalPath[e] = LocalPath[f] => e = f

\* When the summary is shown, every selected file is in it, once, or twice if it
\* was aborted while its transfer ran; and nothing follows the summary.
Files == {e \in selected : IsFile(e)}
Aborted == {e \in canceled \cap selected : IsFile(e)}
Counted == batch.completed + batch.failures + batch.canceled - skipped
SummaryAccounts ==
  shown =>
    /\ queue = <<>>
    /\ Cardinality(Files) <= Counted /\ Counted <= Cardinality(Files) + Cardinality(Aborted)

\* The summary counts every file once.
FilesCountOnce == shown => Counted = Cardinality(Files)

\* A download that was started comes to its summary, unless it fails as a whole,
\* is dropped in a dialog or ends with the session, or its summary is canceled.
DownloadIsReported ==
  (stage = "scanning")
    ~> (shown \/ stage \in {"failed", "dropped", "closed"} \/ Complete \in canceled)
=============================================================================
