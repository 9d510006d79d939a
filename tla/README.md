# NppFTP in TLA+

NppFTP is a Notepad++ plug-in that browses FTP, FTPS and SFTP servers and
transfers files in the background. This directory holds TLA+ models of its
queues, sessions, transfers, clients, profiles and cache, the TLC runs that check
them and the TLAPS proofs about queues, uploads, sessions, the browser and the
clients. Paths are relative to the root of the repository; the plug-in's own code is
under `src/` of the repository, so `src/src/FTPQueue.cpp` in `PROJECT.json` is
`src/FTPQueue.cpp` of a checkout. "Design document" is
`docs/superpowers/specs/2026-08-17-concurrent-uploads-and-save-priority-design.md`.

Contents: 1 the system, 2 the plan, 3 the modules and the code, 4 the runs,
5 where the code disagrees with its documents, 6 the proofs, 7 what is left out.

## 1. The system

### Components

| component | source (under `src/`) | state | operations |
|---|---|---|---|
| window | `Windows/FTPWindow.cpp` | `m_ftpSession`, connection flags, `m_activeTransferCount`, browser flags, busy cursor | message handlers, `OnEvent` on Start/End of an operation, commands, dialogs |
| queue window | `Windows/QueueWindow.cpp` | rows of the transfer list, each holding a `QueueOperation*`; `m_cancelOperation` while the menu is open | `PushQueueItem`, `RemoveQueueItem`, `ProgressQueueItem`, the context menu |
| session | `FTPSession.cpp` | `m_running`, `m_generation`, the profile, main wrapper and queue, transfer wrapper and queue, upload scheduler, root directory, keep-alive timer | `StartSession`, `Connect`, `TerminateSession`, `Clear`, one method per remote action |
| queue | `FTPQueue.cpp` | `m_queue`, `m_stopping`, `m_performing`, `m_teardown`, `m_activeOp`, a thread | `AddQueueOp`, `CancelQueueOp`, `AbortActive`, `BeginTeardown`, `ClearQueue`, `Initialize`, `Deinitialize` |
| operation | `QueueOperation.cpp` | `m_executionState`, `m_notifSent`, `m_terminating`, `m_running`, `m_canceled`, `m_result` | `Perform` of each kind, `SendNotification`, `AckNotification`, `Terminate` |
| upload scheduler | `ConcurrentUploadScheduler.cpp`, `UploadSchedulingPolicy.h` | urgent and normal lanes, pending adds, four workers (wrapper and queue), a thread | `AddQueueOp`, `CancelQueueOp`, `AbortActive`, `GetQueueSize`, `Deinitialize` |
| directory upload | `RemoteUploadPlan.cpp`, `QueueOperation.cpp` | counts of files, terminal states, summary flags, reference count | `Record*`, `CancelUnstartedSelectedFiles`, `RequestCompletionIfReady` |
| directory download | `RemoteDownloadPlan.cpp`, `QueueOperation.cpp` | plan entries, counts | scan, overwrite resolution, file operations, completion marker |
| FTP client | `FTPClientWrapperSSL.cpp`, `FtpSSLWrapper.cpp`, `UTCP/src/ftp_c.cpp`, `ut_clnt.cpp` | control and data connection, listening socket, `m_cachedResponse`, `m_aborted` | connect, list, receive, send, one command per simple call, `Abort` |
| SSH client wrapper | `FTPClientWrapperSSH.cpp` over libssh | SSH and SFTP session, `m_connected`, `m_aborting`, open handles | connect and log in, the same calls, `Abort` |
| remote browser | `remote_browser_utils.h`, `Windows/FTPWindow.cpp` | current directory, pending navigation, history | navigation, refresh, upload targets |
| plug-in entry | `NppFTP.cpp`, `PluginInterface.cpp` | the window, the settings | `OnSave`, `OnActivateLocalFile`, start and stop |
| profiles and their tree | `FTPProfile.cpp`, `Windows/ProfileObject.cpp`, `Windows/ProfilesWindow.cpp`, `Windows/ProfilesDialog.cpp` | `m_vProfiles`, the tree and its path map, reference counts | create, rename, move, copy, delete, load, save |
| cache and paths | `FTPCache.cpp`, `PathUtils.cpp`, `FTPSettings.cpp` | path maps, their expansion, the environment | both look-ups, edits, copy, load |
| encryption, certificates | `Encryption.cpp`, `SSLCertificates.cpp` | certificate store | encrypt, decrypt, accept a certificate |
| strings | `StringUtils.cpp` | none | conversions between encodings |
| drag and drop | `DragDropSupport.cpp`, `Windows/DragDropWindow.cpp` | COM data objects | a download |
| dialogs, output | `Windows/*Dialog.cpp`, `Windows/OutputWindow.cpp` | controls | display |
| vendored | `UTCP`, `tinyxml`, `Npp`, ... | | FTP client, XML, Notepad++ headers |

### How they interact

There is one window thread, one thread per `FTPQueue` (main, transfer, one per
upload worker), the scheduler's dispatch thread and a pool thread for the
keep-alive timer.

- The window thread calls the session; the session puts operations into the
  main queue (navigation, connects, NoOp), the transfer queue (downloads, the
  preparation and the summary of a directory upload) or the scheduler (uploads).
- A queue thread posts Start, Progress, End and Remove with a raw
  `QueueOperation*` to the window and **waits for the acknowledgement**; the
  window answers in `AckNotification` after `OnEvent`. Inside `OnEvent` the
  window may add operations, ask questions in a message box (which runs a
  message loop) or terminate the session.
- Closing goes the other way: the window thread waits for the queue threads in
  `Deinitialize`. `Terminate` frees a queue thread that waits for the window.
- The scheduler's dispatch thread adds to the workers' queues; a worker's queue
  calls back (`WorkerOperationTerminal`) when an operation is over.
- Operations of a directory upload share a reference-counted batch; the thread
  that finishes the last file posts the request for the summary.
- `Abort` sets the wrapper's `m_aborting` from another thread; the blocking call
  polls it, and its return resets it.

### What is hard, and what correct means

| component | hard behaviour | correct means |
|---|---|---|
| queue, operation | two monitor sections per add, an unlocked execution state with compare-and-swap, a thread that pops "the front", messages with raw pointers, a close that waits for a thread that waits for the closer | the popped operation is the performed one; nothing is deleted twice or leaked; canceled excludes finished; every wait ends; no message outlives its operation |
| upload scheduler | several queues, conflicts between paths, duplicates of waiting but not of running uploads, promotion of a waiting upload by a save | no two transfers of one file at once; one owner per operation; the server ends with the last save and never goes back; everything is dispatched in the end |
| directory upload | counts changed from several threads, cancellation at any phase, a summary that must come after the last file and once | exact counts, exact references, exactly one summary |
| session, window | a question whose message loop handles the messages that ask the next question; objects deleted while a timer thread uses them; results that arrive while the session closes | a running session is complete, an ended one leaves nothing, the view shows only what exists, a connect settles |
| queue menu | the command is handled long after the row was chosen, through a raw pointer that nobody clears | the command acts on that operation only |
| directory download | names the server tells apart and Windows does not; dialogs asked long after the disk was read; cancellation and failure of one file counted by two handlers | no two downloads share a file, nothing is replaced unasked, every file is accounted for |
| remote browser | listings of superseded navigations; every refresh replaces the objects of a directory | the directory shown is the one asked for last; nothing shown is out of the tree |
| plug-in entry | a save that changes sessions and may be refused | a save goes to the server the file came from |
| FTP client | replies that are not read because a call is cut short; a reconnect in the middle of an operation; a dozen ways out of a transfer | replies belong to the commands of the call; nothing of an old connection reaches the next; no data connection is left behind |
| SSH client wrapper | many ways out of a connect, a transfer, a listing; a server that always wants one more factor | a reported success is a whole transfer; nothing freed is used; every call returns |
| profiles | reference counts held by tree, list, menu, dialog and session; folders that exist only through a "dummy" profile | nobody holds a deleted profile; the tree shows what will be saved |
| cache | two look-ups with different notions of a prefix; directories expanded for a server of some time | a file goes back to the path, and the server, it came from |

`PROJECT.json` lists each hazard at its line with the properties that cover it.

## 2. The plan

In the order of importance. The modules of 1 to 8 exist.

1. **FTPQueue** with its abstract specification **SerialQueue** (operations
   become active one at a time in the order of acceptance): everything else in
   the program runs on such queues. Proofs of all its safety properties and of
   the refinement.
2. **UploadScheduler**: takes a worker's queue at the level of SerialQueue plus
   the phases of one operation. Proofs of all its safety invariants.
3. **UploadBatch** and **Download**: take queues and scheduler as "some
   operations run", and follow a directory from its plan to its summary. Proofs
   of all of UploadBatch's safety invariants but `SummaryIsEmitted`, which the
   code does not keep, and of all of Download's.
4. **QueueMenu**, which composes the menu with UploadScheduler. Proofs that it
   does nothing the scheduler may not do, and of what Cancel may hit.
5. **Session** with the part of the window that shows it. Proofs of all its
   safety properties but those that the code does not keep.
6. **SaveFlow**, which composes `OnSave` with Session and is proved to implement
   it: to the session a save is what a user does.
7. **RemoteBrowser**, the remote list over the main queue. Proofs of both its
   safety properties.
8. The ends, with proofs for the two clients: **FTPClient** and **SFTPClient** below the queues, **ProfileTree**
   and **FTPCache** above the session.
9. *Next*: two queues that share one window (`ClearPendingNotifications` of one
   removes the messages of the other); the certificate store that the
   connections of a session share; Session over SerialQueue; moves and copies by
   drag and drop in the remote list.
10. *Proofs still worth having*: ProfileTree's `PathsAgree`, for which its
   recursive operators must become recursive functions, as those of RemoteBrowser
   and Download are.

Runs stay small enough for a few minutes: at most four operations in a queue,
five uploads on two workers, three files in a batch, three sessions, three calls
of a client.

## 3. The modules and the code

| module | code | kind |
|---|---|---|
| `FTPQueue` | `FTPQueue.cpp`, the execution state and notifications of `QueueOperation.cpp`, the notification handler of `FTPWindow.cpp` | component |
| `SerialQueue` | what a queue promises | abstract specification |
| `UploadScheduler` | `ConcurrentUploadScheduler.cpp`, `UploadSchedulingPolicy.h`, `QueueUpload` | component |
| `UploadBatch` | `RemoteUploadBatch`, `QueueRemoteUploadPrepare/File/Complete`, `FTPSession::QueueRemoteUploadPlan`, `DispatchRemoteUploadBatch`, `OnEvent` for them | component |
| `Download` | `RemoteDownloadPlan.cpp`, `QueueRemoteDownloadScan/File/Complete`, the overwrite dialogs and the queueing in `FTPWindow.cpp` | component |
| `QueueMenu` | the context menu of the queue window | extends `UploadScheduler` |
| `Session` | `FTPSession::StartSession/Connect/TerminateSession/Clear`, `QueueTimerHandler`, `OnEvent` for connects and transfers | component |
| `SaveFlow` | `NppFTP::OnSave`, its disconnect, automatic connect and upload | extends `Session`, implements it |
| `RemoteBrowser` | the remote list of `FTPWindow.cpp`, `remote_browser_utils.h`, `FileObject.cpp`, directory listings and mutations of `QueueOperation.cpp` | component |
| `FTPClient` | `FTPClientWrapperSSL.cpp`, `FtpSSLWrapper.cpp`, `UTCP/src/ftp_c.cpp`, `UTCP/src/ut_clnt.cpp` | component |
| `SFTPClient` | `FTPClientWrapperSSH.cpp` | component |
| `ProfileTree` | `ProfileObject.cpp`, `ProfilesWindow.cpp`, `ProfilesDialog.cpp`, the reference counts of `FTPProfile.cpp` | component |
| `FTPCache` | `FTPCache.cpp`, the path functions it uses, what `FTPProfile`, `FTPSettings` and `FTPSession` do to it | component |
| `MC*` | | small instances for TLC |
| `FTPQueueProofs`, `UploadSchedulerProofs` (with QueueMenu), `UploadBatchProofs`, `SessionProofs` (with SaveFlow), `RemoteBrowserProofs`, `FTPClientProofs`, `SFTPClientProofs`, `DownloadProofs` | | proofs |

Some definitions stand beside one that looks almost the same (for instance
`PushUnsignaled` beside `PushBack`): these are deliberate mistakes, each the
mutation that one property must detect. No action uses them.

### FTPQueue

One action per monitor section and one per thing that happens outside it, so
that other threads can step in exactly where they can in the program.

- *Queue thread* (`qpc`). `Enter` is the section that heads `QueueLoop`;
  `MarkSent`, `PostNotification`, `AwaitAck` are the three parts of
  `SendNotification` off the window thread and are used for Start, Progress, End
  and Remove (`EventAt` says which at which point); then `SetRunning`,
  `StartExecution`, `BeginPerform`, `ClientReturn`, `FinishExecution`,
  `UnsetRunning`, `Ended`, `PopFront`, `StopThread`.
- *Window thread* (`upc`). `HandleRowMessage`, `HandleEvent` and
  `AckNotification` are the message handler; between the last two the window may
  add or close, as `OnEvent` does. `AddQueueOp` and `AddQueueOpPush` are the two
  sections of an add from the window. `AbortActive`/`AbortCall` and
  `BeginTeardown`/`TeardownAbort` are split where the code leaves the monitor.
  Closing is `ClearQueue`, `AbortWrapper`, `Deinitialize`, `JoinThread`,
  `DrainOne` (one round of the final loop) and `DeinitializeDone`.
- The End of a failed connect (`Connects`, `FailedConnect`) is the one message
  `OnEvent` returns 1 for: it is then not acknowledged. Either the session ends
  (`ClearQueue` is enabled behind it), or the user has refused
  `TerminateSession`'s question and the message is dropped with the queue alive
  (`DropNotification`). `InSessionOrder`: a session queues its connect first.
- *Third thread* (`apc`): the keep-alive timer on the main queue, the dispatch
  thread on a worker's queue.
- `Role` selects which queue of the program it is, since they are closed
  differently: the main queue without `BeginTeardown`, possibly from inside
  `OnEvent`; the transfer queue with it; a worker's queue without `ClearQueue`
  and with the scheduler's monitor held (`SchedulerMonitorFree`).

Abstractions. A Progress report is posted at most once per operation. The
terminal callback and `delete op` belong to `PopFront`. Every `OnQueueTerminal`
returns NULL, so the branch of `QueueLoop` for follow-up operations is never
taken and is left out; so is `ClearQueue`'s exception for completion markers,
which stand only in queues that are cleared with suppression. `m_notifSent` is
updated in one step although no lock covers it. An add by the timer that is
between its sections when the queue is deleted is outside the model. Message
boxes opened by `OnEvent` (nested message loops) are modelled in Session only.

### UploadScheduler

`urgent` and `normal` are the lanes, `adding` is `m_pendingAdds`, `assigned[w]`
and `phase[w]` are a worker's operation and where its queue's thread is with it.
`AddQueueOp` looks for a waiting duplicate, promotes it for a save, and otherwise
announces the operation; `AddQueueOpPush` enters it into its lane. `Dispatch` is
one round of `SchedulerLoop`: the first operation of the urgent lane that
conflicts with no worker, else of the normal lane. The worker's phases are those
of FTPQueue, with `popped` between `pop_front` and the terminal callback.
`Deinitialize`, `JoinDispatcher`, `StopWorker`, `DrainWorker`,
`DeletePendingOperations` are the stages of closing.

`saved`, `reading`, `remote` are history: they count the saves of a file, note
the version an upload reads when `SendFile` opens the file, and the version on
the server. `lost` holds the files whose last version failed or was given up by
the user, about which nothing can be promised.

Abstractions. The window thread is the only caller, so the waits for another
caller's pending add and the refusals after `m_accepting` is cleared cannot
occur. Loops over workers within one monitor section are one step. Any idle
worker is taken, where the code takes the first. The scheduler's result of the
worker's `AddQueueOp` is ignored by the code; the worker's queue is empty and
open then, so it accepts.

### UploadBatch

`batch` is the record of `RemoteUploadBatch`'s counters, with `posted`, the
completion messages in the window's queue; `phase` says for each operation where
its queue is with it. `CountDown`, `RequestCompletionIfReady`,
`CancelUnstartedSelectedFiles`, `Release` are its methods. The last file's thread
counts down (`FileTerminal`) and requests the summary (`RequestCompletion`) in
two steps; cancel and abort of the user and the stages of `Clear` interleave.

Abstractions. The handshake of Start is not repeated. `PostMessage` succeeds.
Failures to create a directory are not counted. The workers are torn down in one
step. The local paths of a plan are distinct (the plan is built from a directory
listing). Building the plan and the overwrite dialog are reduced to `selected`,
any subset of the files.

### QueueMenu

`OpenMenu` chooses a live operation; from then on the scheduler goes on at will
until `QueueAbort` or `QueueCancel`. `selected` is the raw pointer
`m_cancelOperation`, `opened` (history) the operation the menu was opened on. When
that one has been deleted, the allocator may give its address to an operation that
is created later, which is then what `selected` stands for (`Allocate`).
`GetRunning` reads `m_running` of what is there: anything in freed memory, and
unknown in the 500 ms of `SetRunning`.

### Session

`boxes` is the stack of open questions of `TerminateSession`: one asked by the
user's Disconnect, one by the End of a failed connect that was handled in the
message loop of the first. `closing` is the stage of `Clear`; the window handles
no message in it. `objects` and `refs` are what the session owns. `connect` and
`transfer[t]` are the operations' phases. `tpc` is the timer's handler: it reads
wrappers, profile and queue one after the other, and reading what is gone is
`fault`.

Abstractions. `StartSession` and `Connect` are one step, as they always follow
each other on one thread. Every transfer has a thread of its own, which allows
more interleavings than the transfer queue and the workers. While a box is open,
the user can do nothing else (message boxes are modal). After a fault the model
goes on, which only adds behaviours. When a wrapper cannot be created at all,
`StartSession` returns before anything has changed, which is a stutter.
`MaxGeneration` bounds the number of sessions.

### SaveFlow

`spc` is where the call of `OnSave` is: `mismatch` before
`DisconnectOnInfoMismatch`, `connect` before `AttemptToAutoConnect`, `upload`.
`profile` is the session's profile, `uploads` the history of what was sent where.
The question of `TerminateSession` may be open in the middle of a save, with all
that its message loop handles. `Folder` gives the cache directory of a profile,
user@host, which is what `OnSave` compares, taking the first profile of the list
that fits; `Server` is user, host and port. Two profiles may share a directory, and
two servers too, on one host at different ports.

Abstractions. A file is known by the profile it was opened from (`Home`). Whether
the upload itself finds a mapping is FTPCache's matter.

### Download

`items`, `selected`, `scanned`, `skipped` are the plan, `disk` the local disk,
`stage` where the download is between scan and summary, `queue`, `step` the
transfer queue at the level of SerialQueue. An entry's name is only the local
name it is converted to (case is folded there). The dialogs change the disk's
consent, one collision or all; the disk may hold anything in `Disks` at first. The
code's loops over `m_items` and over a listing are recursive functions of the index
(`after[i]` is what the first `i` turns have made).

Abstractions. Other programs do not write below the local root meanwhile. The
listing of a directory comes in any order, but whole.

### RemoteBrowser

`tree` holds the paths that have a `FileObject`, `rows` and `selection` pointers
(an object is its path and whether it is still in the tree). `pending` is
`m_pendingNavigation`, `busy` the wait cursor, `listing` what a `QueueGetDir` has
read, `queue` the main queue, whose `Equals` drops a request that is waiting
already. `exists` is the server's side. `asked` is history: the directory the
user asked for last. The chain of listings of `GetDirectoryHierarchy` is a recursive
function of the path (`WithParents`).

Abstractions. Moves and copies by drag and drop, sorting and drawing are left
out. A listing returns what exists when it is performed. Which directories the tree
view has collapsed is not kept: a known directory may have an item or not when
`GetDirectoryHierarchy` looks for one, as the user may collapse any of them. Paths
fit into `MAX_PATH`.

### FTPClient

A call is the sequence `todo` of its sends, reads and other steps, built by the
operators named after the client's methods (FTPConnect in two parts, `LoginSteps`
with the login and `SettingSteps` with what is settled after it); `toServer` and `toClient` are the
two directions of the control connection, `own` says whether the reply read last
answers the command it was read for. `Abort` may come between any two steps;
`Drop` cuts the connection. `disturbed` is history: a call returned without
reading a reply that was still to come. `refused`, of the server, is history too:
the types it has refused on this connection. A connect on a connected wrapper does
nothing.

Abstractions. A reply is the first digit of its code. The data's content, the
progress report and the TLS handshake beyond "it may fail" are left out, and so is
implicit FTPS, which shakes hands before the greeting and sends no AUTH. The
server answers commands in order, refuses any of them, and may hang up.

### SFTPClient

One step per call of libssh or of the local file system, named after the method
or the call; `pc` is per wrapper, `users` the count of `ssh_init`, `local` the
handles on a local file with their access. What a call of libssh may return is
read off the code that looks at it. `sftp_write` may take a part of what it is given
or nothing; `short` is history and notes that it did in this call.

Abstractions. Why a call failed is not told apart. A key file exists or not is
one of the ways a login fails. Attributes are left out.

### ProfileTree

The operations work on a record of the five tree variables, as the C++ methods
work on the objects. `nodes` are the ProfileObjects, `treeMap` the static map from
path to node that is only ever added to, `list` is `m_vProfiles`, `menu` the
profiles the Connect menu shows. `crashed` stands for undefined behaviour; `misused`
is history and notes what the code lets a user do and does not expect: a
profile's node used as a folder (a paste by key on a profile), a dummy connected to
or edited, a deleted profile pasted. `PathsAgree` promises nothing after either, and
its run does not look further (constraint `Careful`). That nobody holds a deleted
profile is not kept by the code: `HoldersAreLive`, in section 5, has neither
exception.
`std::sort` with `lstrcmpi` is not stable; the model keeps the order of equal
names, which no property tells apart.

### FTPCache

An external path is a sequence of tokens, "/" and pieces of names, because the
look-up from the server's side compares characters; a local path is a sequence of
names. A server is a host and a port; the user goes with the host. A template may
name the host, the port, both or neither; the default one names the host only, as
`FTPSettings.cpp` has it. `env` is what each profile's cache was last told:
`SetHostname` and `SetPort` tell it, a restart does not (`LoadProfile` never calls
`SetEnvironment`), and `StartSession` tells the global cache only. `files` are the
cached files with the server they came from and whether the map that placed them
named it; `strays` (history) are the uploads that went to another server, each with
whether the maps on both ways named theirs.

## 4. The runs

`tlc -config X.cfg M` for each; `PROJECT.json` names module, configuration and
properties. The models may stop when everything is done, so deadlock is not
checked as such; that a wait always ends is stated by the liveness properties.

| run | configuration | shows |
|---|---|---|
| `queue_main` | 4 operations: the session's connect, the timer's, two that are duplicates | `ImplementsSerialQueue`: the main queue is a serial queue. `QueueIsSound`: whatever the window and the timer add and the window clears behind the active operation, the thread pops what it picked, and every queued operation is alive and queued once. `QueuedIsServed`: no wake-up is lost, and no acknowledgement but that of a failed connect whose session the user kept, which stops the queue (section 5). `DeinitializeReturns`, `ClosedLeavesNothing`: a close, from the message loop or from inside `OnEvent`, ends and leaves nothing. |
| `queue_worker` | 3 operations of the dispatch thread | A canceled operation never finishes; no message outlives its operation. |
| `uploads` | saves `s1 s2`, an upload `n1`, a directory's upload `b1` of one file, `x1` of another; 2 workers | No concurrent conflict, one owner, last save stored, the server never goes back, saves stay urgent, a close leaves nothing. |
| `uploads_live` | `s1 b1` of one file, `n1` of another, 2 workers, an open menu | Cancel gives up one upload at most and none that runs, and another than the one the menu was opened on only when that one is deleted; every upload leaves the scheduler. |
| `batch` | 3 files, 2 workers | Counts, references and the moment of the summary are exact, and the summary comes unless it is aborted itself or the session is closed. |
| `saves` | files of one server and of none, 3 profiles of 3 servers on 2 hosts, 2 transfers | To the session a save is what a user does (`ImplementsSession`); a session is there whole or not at all; no root directory is deleted while it is shown; the count of active transfers is exact; a connect settles; an upload that a save queued is never carried into another session, nor below another directory; `OnSave` returns. |
| `download` | 5 entries, every disk over their paths | No two downloads share a file, nothing is replaced without consent, the summary misses no file and comes. |
| `browser` | 5 paths, 4 commands | What the list shows is in the tree; the list moves only to where the user asked to go last. |
| `client` | 2 calls of 8 kinds, plain and TLS, active and passive | Replies never shift unless a call was cut short; connected is logged in; a transfer has its type unless the server refused it; no data connection is left behind. |
| `sftp` | 3 calls of 8 kinds, 2 factors, files of 2 buffers | Nothing freed is used, no file is left open at the server; success is a whole transfer but for a write that the server took in part; every call returns. |
| `profiles` | 2 profiles, 2 folders, a session, the dialog, restarts | The tree shows what the list will save. |
| `cache` | 2 profiles, 2 hosts, 2 ports, 2 maps each, 5 edits | A file returns to its path, and never to another server between maps that name theirs. |

**Bounds.** Three operations behind the connect let one be performed while one waits
in front of a third, one be canceled out of the middle, and one be a duplicate of
another in every phase; the queue's code looks only at the front, at equality and at the
last place, and what is proved in section 6 holds for any number. Five uploads fill
two workers, leave a conflict waiting in each lane and still let a save come that
duplicates it; conflicts are between pairs. Three files on two workers have one
waiting, one running and one over at once. Two transfers suffice to have one active
while the other starts or ends; `MaxGeneration = 3` allows a session, its end and a
second session (each start and each clear counts one), `MCSession` has three
sessions. A call of a client meets what the call before it left, so two calls of
FTPClient suffice for what is left over; SFTPClient's three let a connection be
made, broken and made again. Four commands of the browser overtake each other.
A tree of two profiles and four nodes, three deep, has a folder in a folder with a
profile beside one in the root, and the moves between them (`DeepBound`: such deep
trees without the dialog and a session, which only use the list); `MaxOpens = 1` allows the dialog, a cut or a
copy once between two restarts, and any number of restarts. Five edits let a map
be added, moved, retargeted and copied, on either side of a restart. Integers are counters far from their
width; `m_generation` is only compared for equality.

**Symmetry** is used only in runs without liveness.

**Fairness.** Weak fairness for each thread's steps: the operating system runs
them, none of their monitors is held for ever. Weak fairness for handling
messages: the window's message loop runs, also inside a message box. Weak
fairness for a close that has begun, which is a call that runs through, and, in
Session, SaveFlow and Download, for answering an open question, without which
nothing modal ever ends. A client call returns, because the wrappers' calls have
time-outs: in SFTPClient this is weak fairness of each single call of libssh, and
that the whole call returns is what `CallsReturn` shows. There is no fairness for
the user: nobody must add, cancel, abort, save, close or open a menu, and an open
menu need not be answered.

## 5. Where the code disagrees

The following properties state what a document, a comment or a message of the
code says, or what one would expect of it; each is defined in its module and TLC
finds a behaviour in which the code does otherwise. They are kept beside the models
because they mark exactly how far the properties of section 4 reach. Where there
is no configuration of its own, the property is checked with the constants of the
one named in brackets.

| property | module | configuration | what happens |
|---|---|---|---|
| `MessagesAreLive` | `FTPQueue` | `MCQueueStaleMessage` | `FTPQueue.cpp:103`, "Remove any remaining messages": Deinitialize clears messages only for what is still in `m_queue`. When it interrupts the thread's wait after Remove was posted, the thread deletes the operation itself and the message stays (main queue; a worker's queue keeps the property). |
| `RunningIsAbortable` | `FTPQueue` | (`MCQueueTransfer`) | in the 500 ms after `SetRunning` an operation can be neither canceled nor aborted |
| `RowsAreQueued` | `FTPQueue` | (`MCQueueTransfer`) | after a close the list keeps the row of an operation whose Remove was dropped |
| `AbortHitsItsTarget` | `FTPQueue` | (`MCQueueTransfer`) | `m_aborting` is set after the monitor is left and hits the next operation |
| `NoPerformAfterTeardown` | `FTPQueue` | (`MCQueueWorker`) | a queued operation is picked and performed after `BeginTeardown`, until `Deinitialize` stops the thread |
| `AddIsCalledByWindow` | `FTPQueue` | (`MCQueueMain`) | the keep-alive timer adds on a thread of its own, contrary to the comment in `AddQueueOp` |
| `SummaryIsEmitted` | `UploadBatch` | `MCBatchEmitted` | design document: "Its summary is emitted once". An abort that reaches the operation carrying the summary between `StartExecution` and `BeginPerform` cancels it; no summary is shown. |
| `AbortTargetsSelected` | `QueueMenu` | `MCMenuAbort` | design document: Abort "continues to target only the selected active operation". It calls `AbortTransfer`, which aborts every worker. |
| `CancelTargetsOpened` | `QueueMenu` | (`MCUploadsLive`) | `docs/index.md:86`, "Right-clicking on an item allows to abort or cancel it". `m_cancelOperation` is not cleared when its operation is deleted, and `CancelQueueOp` compares addresses: an upload that was added meanwhile and got the address is canceled. |
| `UnackedIsInvalid` | `Session` | `MCSessionUnacked` | `FTPWindow.cpp:2179`, "if res == 1, then queueop becomes invalid". A save queues an upload while it connects; the connect fails; the user answers No. `OnEvent` returns 1 all the same: the operation is alive, its End is never acknowledged and the main queue stands still (`ConnectUnacknowledged` in FTPQueue). |
| `SavesReachHome` | `SaveFlow` | (`MCSaveFlow`) | `NppFTP.cpp:363`, "find a reasonable" profile. User and host are compared, not the port, and the first profile that fits is taken: a file of the second server on a host is uploaded to the first. |
| `TimerIsGone` | `Session` | (`MCSession`) | `FTPSession.cpp:171`, "Successfully deleted session timer". The timer is deleted without waiting for a running handler, which goes on to use what `Clear` deletes. |
| `ConnectIsOffered` | `Session` | `MCSessionOffered` | the End of a connect is lost between queue thread and `Deinitialize`; `m_connecting` stays set |
| `FilesCountOnce` | `Download` | (`MCDownload`) | one would expect each file in one count of the summary. One that is aborted is counted by `OnQueueCanceled` and again by `OnEvent`. |
| `MutationsAreRefreshed` | `RemoteBrowser` | (`MCBrowser`) | `docs/superpowers/specs/2026-07-10-remote-file-operations-design.md:77`, "Successful mutations refresh the affected directory". The refresh is queued together with the mutation and dropped as a duplicate of a listing that waits in front of it. |
| `UploadsAreAgreed` | `RemoteBrowser` | (`MCBrowser`) | `README.md:72`: an upload onto an existing name asks first. The question looks at the listing, which may be older than the file. |
| `PendingIsBusy` | `RemoteBrowser` | (`MCBrowser`) | `README.md:57`: the wait cursor is shown during the operation. The End of any download takes it away. |
| `SuccessIsAcknowledged` | `FTPClient` | `MCClientUnacked` | `UTCP/src/ftp_c.cpp:2368`: a reply is the acknowledgment of the command. A transfer that is aborted leaves its final reply unread, and the next call takes it for its own. |
| `TypeIsGranted` | `FTPClient` | (`MCClient`) | one would expect a transfer in the type its operation asked for. `SetTransferMode` and `Perform` ignore the answer to TYPE: when the server refuses it, the file is transferred in the old type. |
| `BusyPortIsSkipped` | `FTPClient` | `MCClientPort` | `UTCP/src/ftp_c.cpp:341`, "if the one requested is busy then increment to the next port". The next attempt fails on the socket the failed bind left open, whatever the port. |
| `AbortStopsTransfer` | `SFTPClient` | `MCSFTPAbort` | `docs/index.md:75`, "If a transfer is active, abort it". When the transfer has to connect first, Connect's `OnReturn` clears `m_aborting`. |
| `NothingIsLeftOpen` | `SFTPClient` | `MCSFTPHandles` | `ReceiveFile` keeps its local handle when `sftp_open` fails, where `SendFile` closes it; `GetDir` keeps its directory when reading it breaks off before the first entry. |
| `SuccessIsComplete` | `SFTPClient` | `MCSFTPShort` | one would expect a reported success to be a whole file. `SendFile` takes a write that accepts less than the buffer for a whole one. |
| `HoldersAreLive` | `ProfileTree` | (`MCProfiles` without `CONSTRAINTS`) | the reference counts exist so that nobody holds a deleted profile. One that is cut, connected to, deleted and pasted is released twice, the second time for the session that holds it. |
| `MenuConnectsShown` | `ProfileTree` | `MCProfilesMenu` | `docs/index.md:70`, "connect to a server from a profile form a dropdown menu". The menu passes an index; the tree may have changed the list since the menu was built. |
| `OnlyDeletedLeave` | `ProfileTree` | `MCProfilesLost` | `docs/index.md:24`: profiles are created, modified and deleted, with unique names. A profile that has the name of a group beside it is taken for the group: when a profile of that group is added to the tree, it is dropped from the list as the group's dummy. |
| `MapsServeSubpaths` | `FTPCache` | (`MCCache`) | `docs/index.md:29`: a map serves "that path and its subpaths". The comparison is by characters: a map of `/root` serves `/root2` as well. |
| `EnvironmentIsCurrent` | `FTPCache` | (`MCCache`) | `history.md:144`: starting a session sets the environment of the profile's cache. It sets the global cache's only. A loaded profile's cache was told no server at all, and editing the host during the session tells it another. |
| `SavesReachTheirServer` | `FTPCache` | (`MCCache`) | one would expect a save to go back where the file came from. The default template does not name the port, so two servers of a host share a directory; and after a restart `%HOSTNAME%` is empty in every profile's maps until the profile is edited, so that those of two hosts share one too. |

Three more hold and are kept for their configurations: `RowsAreQueuedWhileOpen`
and `StartPrecedesPerform` (`MCQueueTransfer`, with `DeinitializeReturns` for the
transfer queue), all of Session by itself (`MCSession`), and SFTPClient with two
wrappers that share libssh and a local file (`MCShared` in `MCSFTPClient`).

## 6. The proofs

`tlapm` checks every theorem for all values of the constants that meet the
modules' assumptions, which TLC evaluates in every run: finite sets of operations
(transfers), distinguished NULL values, `Saves` and `Batched` disjoint, `File`
total; the cache directories of the profiles are directories (`SaveAssumption`);
the browser's paths are a finite tree of directories and files
(`BrowserAssumption`: some numbering falls from each path to its parent), and so are
the entries of a download (`DownloadAssumption`), whose disks know the local paths of
the entries (`DiskAssumption`). TLC has
checked each invariant before it was proved. One theorem has a hypothesis of its own,
named where it is described.

**FTPQueueProofs.** `TypeCorrect`, `FrontIsActive`, `QueuedAreLive`,
`QueueStaysSound` (the last two in one, as `queue_main` checks it) and
`CancelIsExclusive` follow from `IInv`. `ActiveIsFront` alone is not inductive:
that the front is not removed by a cancel needs `performing`, that `performing`
is right needs the program counter (`ThreadInv`); that an add does not insert an
operation twice needs `HolderInv`, which says who holds an operation between the
two sections of `AddQueueOp`; and that cancellation excludes completion needs the
execution state at each program counter (`ExecInv`) and that only the active
operation or a deleted one is canceled (`CancelInv`). One lemma per action or
group of actions that changes the same part; the lemmas at the head of the module
say what `RemoveAt`, `Append`, `Tail` and `Head` do to the elements and to injectivity.

`NothingIsLost` is `LiveInv`: an operation that is not deleted is in `m_queue` or in
the hands of the thread that adds it. At the end of `Deinitialize` `m_queue` is
empty and nobody adds, so nothing is left (`CloseIsComplete`). `QueueIsSerial` is the
refinement `Spec => Abstract!Spec`: the abstract queue waits with `Waiting` and
serves `Active`, where an operation is active from the moment it is picked until it is
deleted, which is not when it is popped; the front is `m_queue`'s only then. Every
step is one of SerialQueue or changes neither (`RefinementStep`, from `IInv` and
`LiveInv`).
`WorkerMessagesAreLive` needs `Role = "worker"` and `AdderOps = Ops`, which is how the
scheduler uses the queues of its workers: only its dispatch thread adds, one
operation when none is there. `WorkerInv` says that there is one at a time, and
where each of its four messages is between `SendNotification` and its
acknowledgement. For the main queue the property is false (section 5).

**UploadSchedulerProofs.** `ConflictsExcluded`, `OwnersAreUnique`,
`SavesStayUrgent`, `LatestSaveIsStored`, `ServerAdvances`, `CloseIsComplete`
follow from `IInv`: `PhaseInv` (a phase tells whether there is an operation),
`AddingInv`, `StopInv` (what is over at each stage of `Deinitialize`),
`VersionInv` (what is being sent lies between what is stored and what was saved).
`LatestSaveStored` follows from `SavesAreUrgent`: a version not yet stored has an
urgent upload or a worker that will send it, so without live uploads it is
stored. `ServerNeverGoesBack` is an action property and follows from `VersionInv`
and `NoConcurrentConflict`: with two transfers of one file the older could end
last.

`MenuIsScheduler` shows that QueueMenu's specification implies the scheduler's, so
that the theorems above hold with an open menu. `CancelStaysOnTarget` then is an
action property of the two: Cancel gives up one operation at most, never one whose
worker has begun it, and another than the one the menu was opened on only when that
one has been deleted. It rests on `PointerInv`: the pointer leaves its operation only
when that is deleted.

**UploadBatchProofs.** `ReferencesStayHeld`, `SummaryStaysExact`,
`RemainingStaysExact`, `MarkerStaysBehind` and `TypeCorrect` follow from `IInv`,
for any number of files and workers. None of them is inductive by itself: that a
file is counted once needs to know which files are counted already (`SumInv`: the
canceled ones, and those whose End was handled), and a close may cancel the files
of a batch as a whole (`CancelUnstartedSelectedFiles`) or one by one, never both.
That is `DispatchInv`: files move only after the dispatch, and a batch is
dispatched or given up, not both. `RequestInv` says that the summary is requested
once, when nothing remains. One lemma per action; `QuietStep` serves all the
actions that count nothing. Cardinalities come from the library's
facts on finite sets.

**SessionProofs.** `SessionIsComplete`, `SessionLeavesNothing`, `SessionStaysWhole`
(both in one) and `ShownIsLive` follow from `IInv`: `BoxInv` (which questions can be open,
and that the connect asks only while its End is handled), `ClosingInv` (what is
gone at each stage of `Clear`), `NeedInv` (queues need wrappers, wrappers need the
session's root, the view needs the wrappers). `CountIsExact` strengthens the count
with "no wrappers, no active transfers" and uses the library's facts on the
cardinality of finite sets.

`SaveImplementsSession` shows the same of a program that saves: every step of
`OnSave` is one of Session's actions, or changes nothing of it. It needs `SaveInv`:
while `DisconnectOnInfoMismatch` is due the session runs and no question is open, so
its Disconnect is one that a user could make. `SavedSessionIsWhole` and
`SavedCountIsExact` follow. `SavesKeepTheirSession` needs `UploadInv`: a transfer is
there only with the session's root directory, and the profile is released, or another
one taken, only when that is gone, however the questions nest. That the profile is one
of the file's own server is not proved, as it is false (section 5).

**RemoteBrowserProofs.** `ViewStaysLive` and `LatestRequestIsShown` follow from
`BrowserInv`: `m_pendingNavigation` is empty or what was asked for last, what a
`QueueGetDir` has read of each directory of its chain are paths (`ListingInv`), with a
session the root is in the tree, and without one nothing is queued (`OfflineInv`). That a listing
may replace objects all over a chain of directories and still leaves nothing dead
shown needs the chain itself: `AncestryUnfolds` and `ParentsAreAdded` unfold the recursive
functions over the tree of paths, by induction over the depth.

**FTPClientProofs.** `RepliesStayOwn`, `ConnectedMeansLoggedIn`, `DataStaysClosed` and
`TypeStaysSet` follow from `ClientInv`, in which each of them needs the others. The
core is `ProgramInv`: at every moment the rest of a call is a program whose steps fit
each other (`Linked`) and that asks whether it is connected, connects before it
works, or works over the connection (`Stage`). `ReplyInv` counts what is owed before
each step, up to the two replies of a transfer and the goodbye of a server that hangs
up; nothing more than that can be unread when a call ends uncut. `LoginInv` says that
FTPConnect goes on past the login only with the server's acceptance, for which the
reply must be the login's own; `DataInv` that a data connection is there only before
a step that will close it; `TypeInv` that a transfer still to be sent is behind the
TYPE it needs, in the program, on the way or at the server, also when `IsConnected`
puts a whole FTPConnect, with its own TYPE A, in front; a type the server has refused
is excepted, as nobody looks at the refusal. The lemmas come in this
order; one lemma per action and part.

**SFTPClientProofs.** `SessionsAreHeld` follows from `SFTPInv`, for any number of
wrappers: at each program counter which of the sessions and handles exist
(`SessionInv`, `CallInv`, `HandlesInv`), how much has been moved (`ProgressInv`), and
that libssh is initialised at least as often as wrappers count on it, which takes the
library's facts on cardinalities. `SuccessMeansWhole` follows from the same: before a
transfer closes, something broke, it was aborted, the source was at its end, or the
server took a write only in part, and without the last as much was moved as was read.

**DownloadProofs.** `DownloadSafety` (`DownloadsAreSafe`) and `SummaryIsComplete`
(`SummaryAccounts`) follow from `IInv`, for every remote tree, every assignment of
local names to it and every local disk. `DownloadsAreSafe` speaks of the queue; what
makes it true happens long before, so the invariant follows the plan through its
stages:

- `PlanInv`: the items are entries found so far, each once, because a directory is
  listed once and its entries have one parent; two selected items differ in their
  local paths, which `AddItem` decides against all items, selected or not; the parent
  of a selected item is selected, and stays so when `PrepareLocalDirectories`
  deselects: what it deselects is closed downwards, as local paths of entries extend
  those of their parents (`PathFacts`, `PrefixFacts`).
- `DiskInv`: once the directories are prepared, each selected directory is one on the
  disk, and a selected file has a file or nothing in its place. A transfer writes
  where no other item is selected. That nothing above a selected item is a link
  follows from `PlanInv` and `DiskInv` by induction over the depth (`AboveSelected`).
- `ConsentInv`: while the dialogs are open, a selected file that is on the disk is
  still to be asked about or was agreed to; once it is queued, it was agreed to, or its
  own transfer has just written it.
- `QueueInv`: what is queued are selected files, each once, with the marker last.
- `CountInv`: as many are counted as have left the queue, and at most one more for
  each that was canceled while it ran.

The loops are recursive functions of an index. `FoldExists` and `UpTo` show, by
induction over a set of naturals, that such a function exists and satisfies its
recursion; `CreateDirectoriesUnfolds`, `PrepareUnfolds`, `ListingUnfolds` and
`ItemsInUnfolds` apply it, and `CreateFacts`, `PrepareFacts`, `ListingFacts` and
`ItemsInFacts` say what each loop has done after every turn. One lemma per part of the
invariant that a group of actions can disturb (`PlanStep`, `DiskStep`, `ConsentStep`,
`QueueStep`, `CountStep`, `StageStep`).

**Only model-checked.** All liveness (`DeinitializeReturns`, `QueuedIsServed`,
`UploadsFinish`, `BatchIsReported`, `DownloadIsReported`, `ConnectSettles`,
`SaveReturns`, `CallsReturn`): fairness is out of the prover's reach. ProfileTree, whose
operations are recursive operators over a tree that they change, for which `tlapm` has
no backend. FTPCache, whose look-ups are folds over sequences: what a fold computes
needs an induction that takes an operator as its parameter, which none of the installed
provers can instantiate. (Induction over a *set* of naturals, `NatInductionSet`, is
enough for the recursive functions of RemoteBrowser and Download.) And the properties
of section 5 that the code does not keep.

## 7. What is not modelled

- *Encryption* (`Encryption.cpp`, `DPAPI`): a profile's password is stored or not; no
  state others depend on.
- *Certificates* (`SSLCertificates.cpp`, `CertificateStoreLock`): planned; a
  certificate is accepted or not in FTPClient and SFTPClient.
- *Dialogs, output, docking, drawing*: they show state kept elsewhere.
- *Drag and drop*: COM objects whose calls Windows orders; it ends in a download or
  an upload, which are modelled.
- *XML*: what a restart keeps is modelled (names, groups, maps, the order), the
  format and a crash while a file is written are not.
- *Strings*: names and messages are opaque, except where a comparison by characters
  matters (FTPCache) or case does (Download).
- *Paths*: relative local paths, paths beyond `MAX_PATH` (but for Download's) and
  drive roots.
- *libssh, OpenSSL, Windows*: what their calls may return, not what they do.
- *The network*: a command, a reply or the data is delivered in order or the
  connection is lost, as TCP does it.
- *Settings inside a profile*: modes, time-outs, the data port range (which a
  clone of the wrapper does not copy), file types.
- *Directory hierarchies* of `FTPSession` beyond the chain of listings in
  RemoteBrowser; implicit FTPS; resuming a transfer; UTCP's calls the plug-in does not make.
- *A local file that cannot be read* during an FTP upload.
- *Memory allocation failing* and *Windows calls failing*, where the code does not
  check them.
