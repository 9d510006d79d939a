----------------------------- MODULE QueueMenu -----------------------------
(***************************************************************************)
(* The context menu of the queue window (FTPWindow.cpp) on the uploads of  *)
(* a scheduler.  The menu runs a message loop of its own, so everything    *)
(* goes on between its opening and the command that is chosen from it.     *)
(*                                                                         *)
(* m_cancelOperation is a raw pointer that nobody clears when the          *)
(* operation is deleted, and the scheduler finds operations by comparing   *)
(* addresses.  So the operation the menu was opened on and the operation   *)
(* that stands at the address are told apart: the allocator may give the   *)
(* address of a deleted operation to a new one.                            *)
(***************************************************************************)
EXTENDS UploadScheduler

VARIABLES
  selected,   \* what m_cancelOperation points at, NoOp for NULL; an operation
              \* that is gone while nothing else has been put there
  opened      \* history: the operation the menu was opened on

menuVars == <<vars, selected, opened>>

MenuInit == Init /\ selected = NoOp /\ opened = NoOp

\* The menu opens on a row.
OpenMenu(o) ==
  /\ upc = "idle" /\ o \in Live
  /\ selected' = o /\ opened' = o
  /\ UNCHANGED vars

\* The menu is answered: m_cancelOperation = NULL.
CloseMenu == selected' = NoOp /\ opened' = NoOp

\* operator new: the operation that a step creates may get the address of the
\* one that was deleted.
Allocate ==
  IF selected \in gone
    THEN selected' \in {selected} \cup (created' \ created)
    ELSE UNCHANGED selected

\* QueueOperation::GetRunning: set some time after the worker's thread picked
\* the operation; freed memory may hold anything.
PhaseOf(o) == {phase[w] : w \in {v \in Workers : assigned[v] = o}}
GetRunning(o) ==
  IF o \notin Live \/ PhaseOf(o) = {"picked"}
    THEN BOOLEAN
    ELSE {PhaseOf(o) \subseteq {"starting", "running"} /\ PhaseOf(o) # {}}

\* IDM_POPUP_QUEUE_ABORT
QueueAbort ==
  /\ upc = "idle" /\ selected # NoOp
  /\ \E running \in GetRunning(selected) : IF running THEN AbortActive ELSE UNCHANGED vars
  /\ CloseMenu

\* CancelOperation: what stands at the address is withdrawn if it waits or is
\* assigned but not picked yet, and anything else is left alone.
CancelOperation(o) ==
  \/ CancelWaiting(o)
  \/ \E w \in Workers : assigned[w] = o /\ CancelAssigned(w)
  \/ /\ o \notin Waiting
     /\ \A w \in Workers : assigned[w] = o => phase[w] # "queued"
     /\ UNCHANGED vars

\* IDM_POPUP_QUEUE_CANCEL
QueueCancel ==
  /\ upc = "idle" /\ selected # NoOp
  /\ \E running \in GetRunning(selected) :
       IF running THEN UNCHANGED vars ELSE CancelOperation(selected)
  /\ CloseMenu

MenuNext ==
  \/ Next /\ Allocate /\ UNCHANGED opened
  \/ \E o \in Ops : OpenMenu(o)
  \/ QueueAbort \/ QueueCancel

MenuSpec == MenuInit /\ [][MenuNext]_menuVars
FairMenuSpec == MenuSpec /\ Fairness     \* the threads', not the user's

-----------------------------------------------------------------------------
\* "The queue context-menu Abort command continues to target only the selected
\* active operation" (design document): it cancels no other operation.
AbortTargetsSelected ==
  [][QueueAbort => canceled' \ canceled \subseteq {opened}]_menuVars

\* "Right-clicking on an item allows to abort or cancel it" (docs/index.md:86):
\* Cancel gives up the operation the menu was opened on, or none.
CancelTargetsOpened ==
  [][QueueCancel => gone' \ gone \subseteq {opened}]_menuVars

\* What is left of that without a cleared pointer, however long the menu stays
\* open: Cancel gives up one operation at most, never one that a worker's thread
\* has picked, and another than the one it was opened on only when that one had
\* been deleted first, so that the other could be put in its place.
CancelHitsOneWaiting ==
  [][QueueCancel /\ gone' # gone =>
       \E o \in Live :
         /\ gone' = gone \cup {o}
         /\ \A w \in Workers : assigned[w] = o => phase[w] = "queued"
         /\ o = opened \/ opened \in gone]_menuVars

\* Behind it: the pointer leaves the operation it was set to only when that one
\* has been deleted.
PointerInv ==
  /\ selected \in Ops \cup {NoOp}
  /\ selected = opened \/ opened \in gone
=============================================================================
