---------------------------- MODULE ProfileTree ----------------------------
(***************************************************************************)
(* The profile list (m_vProfiles), the profile tree built from it          *)
(* (ProfileObject, ProfilesWindow), the toolbar's Connect menu             *)
(* (FTPWindow::OnProfileChange), the profiles dialog and the session that  *)
(* borrows a profile.                                                      *)
(*                                                                         *)
(* Only the list is saved.  A folder exists on disk through the profiles   *)
(* in it, or through a "dummy": a profile with an empty name whose parent  *)
(* is the folder.  A path is a sequence of names, a name a sequence of     *)
(* words ("Copy of " is prepended by a copy), the empty name a dummy's.    *)
(* Every operation works on a record t of the five tree variables, as the  *)
(* C++ methods work on the objects; t.crashed stands for undefined         *)
(* behaviour (an iterator before begin(), a freed profile, an endless      *)
(* recursion), after which the program is gone.                            *)
(***************************************************************************)
EXTENDS Integers, Sequences, SequencesExt, FiniteSets, TLC

CONSTANTS
  NameOrder,    \* every name a profile may get, in lstrcmpi's order; <<>> first
  Given,        \* names the user types when he renames
  NewProfile, NewFolder,   \* the names of fresh entries
  Parents,      \* group names the user types in the dialog (paths)
  MaxProfiles,  \* bound on live FTPProfile objects
  MaxNodes,     \* bound on tree nodes
  MaxDepth,     \* bound on the depth of the tree
  MaxOpens      \* bound on openings of the dialog, cuts and copies between two restarts

Null == 0        \* no profile, no node
Freed == -1      \* the address of a profile that was deleted
Root == 1
Copied(name) == <<"Copy of">> \o name

ASSUME NamesAssumption ==
  /\ NameOrder[1] = <<>>
  /\ Given \cup {NewProfile, NewFolder} \subseteq Range(NameOrder)
ASSUME BoundsAssumption == {MaxProfiles, MaxNodes, MaxDepth, MaxOpens} \subseteq Nat

VARIABLES
  profiles,   \* live FTPProfile objects: name, parent, reference count
  list,       \* m_vProfiles
  nodes,      \* the ProfileObjects that can still be reached
  treeMap,    \* ProfileObject::treeMap: path -> node, never updated
  crashed,
  menu,       \* the profiles the Connect menu shows, by index
  drag,       \* m_currentDragObject and its m_cutpaste
  session,    \* m_currentProfile of the session
  dialog,     \* m_currentProfile of the open profiles dialog
  shown,      \* the profiles its list box shows
  opened,     \* "no", or the dialog that is open: "all" or "single"
  opens,
  misused       \* history: a profile's node was misused for a folder

vars == <<profiles, list, nodes, treeMap, crashed, menu, drag, session, dialog, shown, opened, opens,
          misused>>
tree == [profiles |-> profiles, list |-> list, nodes |-> nodes, treeMap |-> treeMap, crashed |-> crashed]
NoDrag == [node |-> Null, cut |-> FALSE]

---------------------------------------------------------------------------
\* FTPProfile objects and their reference counts (RefObject)

\* The address new returns.
Unused(f) == CHOOSE i \in 1..(Cardinality(DOMAIN f) + 1) : i \notin DOMAIN f
Crash(t) == [t EXCEPT !.crashed = TRUE]

Allocate(t, name, parent, refs) ==
  LET p == Unused(t.profiles) IN
  [t EXCEPT !.profiles = @ @@ (p :> [name |-> name, parent |-> parent, refs |-> refs])]

AddRef(t, p) == [t EXCEPT !.profiles[p].refs = @ + 1]

Release(t, p) ==
  IF p \notin DOMAIN t.profiles THEN Crash(t)
  ELSE IF t.profiles[p].refs > 1 THEN [t EXCEPT !.profiles[p].refs = @ - 1]
  ELSE [t EXCEPT !.profiles = [q \in DOMAIN @ \ {p} |-> @[q]],
                 !.nodes = [n \in DOMAIN @ |-> IF @[n].profile = p THEN [@[n] EXCEPT !.profile = Freed] ELSE @[n]]]

Listed(t, p) == p \in Range(t.list)
Erase(t, p) == [t EXCEPT !.list = SelectSeq(@, LAMBDA q : q # p)]
SortVector(t) ==
  IF ~(Range(t.list) \subseteq DOMAIN t.profiles) THEN Crash(t)
  ELSE [t EXCEPT !.list =
         FlattenSeq([i \in DOMAIN NameOrder |-> SelectSeq(@, LAMBDA p : t.profiles[p].name = NameOrder[i])])]

---------------------------------------------------------------------------
\* ProfileObject: building the tree

Children(t, n) == t.nodes[n].children
ChildNamed(t, n, name) ==
  LET same == SelectSeq(Children(t, n), LAMBDA c : t.nodes[c].name = name) IN
  IF same = <<>> THEN Null ELSE Head(same)

SetProfileParent(t, p, path) ==
  IF p = Null THEN t
  ELSE IF p \notin DOMAIN t.profiles THEN Crash(t)
  ELSE [t EXCEPT !.profiles[p].parent = path]

\* AddChild(ProfileObject*): the dummy of the new parent, if any, stays
Adopt(t, parent, n) ==
  LET path == t.nodes[parent].path IN
  SetProfileParent([t EXCEPT !.nodes[parent].children = Append(@, n),
                             !.nodes[n].parent = parent,
                             !.nodes[n].path = path \o <<t.nodes[n].name>>],
                   t.nodes[n].profile, path)

NewNode(t, parent, name, dir, p) ==
  LET n == Unused(t.nodes) IN
  [t |-> Adopt([t EXCEPT !.nodes = @ @@ (n :> [dir |-> dir, name |-> name, path |-> <<>>, profile |-> p,
                                             parent |-> Null, children |-> <<>>])], parent, n),
   n |-> n]

RECURSIVE CreateParentPath(_, _, _)
CreateParentPath(t, n, parts) ==
  IF parts = <<>> THEN [t |-> t, n |-> n]
  ELSE LET old == ChildNamed(t, n, Head(parts))
           next == IF old = Null THEN NewNode(t, n, Head(parts), TRUE, Null) ELSE [t |-> t, n |-> old]
       IN CreateParentPath(next.t, next.n, Tail(parts))

\* The folder AddChild(path, ...) works in; a path once seen is answered by treeMap
FolderOf(t, self, path) ==
  LET full == t.nodes[self].path \o path IN
  IF path = <<>> THEN [t |-> t, n |-> self]
  ELSE IF full \in DOMAIN t.treeMap THEN [t |-> t, n |-> t.treeMap[full]]
  ELSE LET made == CreateParentPath(t, self, path) IN
       [made EXCEPT !.t.treeMap = @ @@ (full :> made.n)]

AddDummy(t, n) ==
  LET p == Unused(t.profiles)
      u == Allocate(t, <<>>, t.nodes[n].path, 1)
  IN [u EXCEPT !.list = Append(@, p), !.nodes[n].profile = p]

\* A named child replaces the dummy of its folder; FindProfileIndex(...) >= 0 is
\* always true of a size_t, so a profile that is not listed makes erase(begin() - 1)
DropDummy(t, n) ==
  LET p == t.nodes[n].profile IN
  IF p = Null THEN t
  ELSE IF ~Listed(t, p) THEN Crash(t)
  ELSE Release([Erase(t, p) EXCEPT !.nodes[n].profile = Null], p)

AddChild(t, self, path, name, p) ==
  LET folder == FolderOf(t, self, path)
      n == folder.n
      u == folder.t
  IN IF name = <<>>
     THEN [t |-> IF p # Null THEN [u EXCEPT !.nodes[n].profile = p]
                 ELSE IF u.nodes[n].profile = Null THEN AddDummy(u, n) ELSE u,
           n |-> n]
     ELSE LET v == DropDummy(u, n) IN
          IF v.crashed THEN [t |-> v, n |-> n] ELSE NewNode(v, n, name, FALSE, p)

RECURSIVE Fill(_, _)
Fill(t, i) ==
  IF t.crashed \/ i > Len(t.list) THEN t
  ELSE IF t.list[i] \notin DOMAIN t.profiles THEN Crash(t)
  ELSE LET p == t.list[i] IN Fill(AddChild(t, Root, t.profiles[p].parent, t.profiles[p].name, p).t, i + 1)

\* InitProfilesTree walks m_vProfiles by index while AddChild erases dummies from it
InitProfilesTree(t) ==
  Fill([t EXCEPT !.nodes = Root :> [dir |-> TRUE, name |-> <<"Profiles">>, path |-> <<>>, profile |-> Null,
                                    parent |-> Null, children |-> <<>>],
                 !.treeMap = <<>> :> Root], 1)

---------------------------------------------------------------------------
\* ProfileObject: removing, moving, renaming, copying

RECURSIVE RemoveChild(_, _, _, _)
RECURSIVE RemoveAllChildren(_, _, _)
RemoveAllChildren(t, n, rest) ==
  IF rest = <<>> THEN [t EXCEPT !.nodes[n].children = <<>>]
  ELSE RemoveAllChildren(RemoveChild(t, n, Head(rest), TRUE), n, Tail(rest))

RemoveChild(t, n, c, del) ==
  IF n \notin DOMAIN t.nodes \/ ~Contains(Children(t, n), c) THEN t
  ELSE
    LET u == IF del /\ Children(t, c) # <<>> THEN RemoveAllChildren(t, c, Children(t, c)) ELSE t
        p == u.nodes[c].profile
        d == Unused(u.profiles)
        only == Len(Children(u, n)) = 1
        \* the emptied folder is kept by a dummy, in the place of the deleted profile
        kept == IF ~Listed(u, p) THEN u
                ELSE IF only
                THEN [Allocate(u, <<>>, u.nodes[n].path, 1) EXCEPT
                        !.list = IF del THEN ReplaceAll(@, p, d) ELSE Append(@, d),
                        !.nodes[n].profile = d]
                ELSE IF del THEN Erase(u, p) ELSE u
        freed == IF del /\ p # Null THEN Release(kept, p) ELSE kept
    IN [freed EXCEPT !.nodes[n].children = SelectSeq(@, LAMBDA k : k # c)]

\* A mutant leaves the paths below a renamed or moved folder.
KeepPaths(t, cs) == t

RECURSIVE UpdatePath(_, _)
UpdatePaths(t, cs) == FoldLeft(LAMBDA u, c : UpdatePath(u, c), t, cs)
UpdatePath(t, n) ==
  LET above == t.nodes[t.nodes[n].parent].path
      path == above \o <<t.nodes[n].name>>
      u == SetProfileParent([t EXCEPT !.nodes[n].path = path], t.nodes[n].profile,
                            IF t.nodes[n].dir THEN path ELSE above)
  IN IF t.nodes[n].dir THEN UpdatePaths(u, Children(u, n)) ELSE u

RECURSIVE Under(_, _)
Under(t, n) == {n} \cup UNION {Under(t, c) : c \in Range(Children(t, n))}

\* Moving a folder into itself or below makes UpdatePath run for ever
MoveTo(t, n, parent) ==
  IF t.nodes[n].parent = parent THEN t
  ELSE IF t.nodes[n].dir /\ parent \in Under(t, n) THEN Crash(t)
  ELSE LET u == Adopt(RemoveChild(t, t.nodes[n].parent, n, FALSE), parent, n) IN
       IF t.nodes[n].dir /\ ~u.crashed THEN UpdatePath(u, n) ELSE u

SetName(t, n, name) ==
  LET p == t.nodes[n].profile
      path == t.nodes[t.nodes[n].parent].path \o <<name>>
      u == [t EXCEPT !.nodes[n].name = name, !.nodes[n].path = path]
      named == IF p = Null THEN u
               ELSE IF p \notin DOMAIN u.profiles THEN Crash(u)
               ELSE IF t.nodes[n].dir THEN [u EXCEPT !.profiles[p].parent = path, !.profiles[p].name = <<>>]
               ELSE [u EXCEPT !.profiles[p].name = name]
  IN IF t.nodes[n].dir THEN UpdatePaths(named, Children(named, n)) ELSE named

RECURSIVE FreeName(_, _, _)
FreeName(t, parent, name) ==
  IF ChildNamed(t, parent, name) = Null THEN name ELSE FreeName(t, parent, Copied(name))

\* Copying a folder into itself or below never ends; treeMap may name the folder
\* itself where a new one is asked for
RECURSIVE CopyTo(_, _, _)
CopyTo(t, n, parent) ==
  IF t.crashed THEN t
  ELSE IF parent \in Under(t, n) \/ (~t.nodes[n].dir /\ t.nodes[n].profile = Freed) THEN Crash(t)
  ELSE
    LET name == FreeName(t, parent, t.nodes[n].name)
        p == Unused(t.profiles)
        made == IF t.nodes[n].dir THEN AddChild(t, parent, <<name>>, <<>>, Null)
                ELSE IF t.nodes[n].profile = Null THEN AddChild(t, parent, <<>>, name, Null)
                ELSE LET u == Allocate(t, name, t.nodes[parent].path, 1)
                     IN AddChild([u EXCEPT !.list = Append(@, p)], parent, <<>>, name, p)
        cs == Children(made.t, n)
    IN IF cs # <<>> /\ made.n \in Under(made.t, n) THEN Crash(made.t)
       ELSE FoldLeft(LAMBDA u, c : CopyTo(u, c, made.n), made.t, cs)

---------------------------------------------------------------------------
\* What an action leaves: every name, path and object within the bounds, and no
\* node that neither the view, treeMap nor a drag can reach

RECURSIVE Reachable(_, _, _)
Reachable(t, found, last) ==
  IF last = {} THEN found
  ELSE LET more == UNION {{t.nodes[n].parent} \cup ToSet(Children(t, n)) : n \in last} \ (found \cup {Null})
       IN Reachable(t, found \cup more, more)

Shown(t) == IF Root \in DOMAIN t.nodes THEN Under(t, Root) ELSE {}

Bounded(t) ==
  /\ DOMAIN t.profiles \subseteq 1..MaxProfiles
  /\ \A p \in DOMAIN t.profiles :
       t.profiles[p].name \in Range(NameOrder) /\ Len(t.profiles[p].parent) < MaxDepth
  /\ \A n \in DOMAIN t.nodes : Len(t.nodes[n].path) <= MaxDepth
  /\ \A n \in DOMAIN t.nodes \ {Root} : t.nodes[n].name \in Range(NameOrder)

\* A profile's node got children or the dummy of a folder; or the session or the
\* dialog holds a dummy, which the menu and the list box show without a name; or a
\* profile that was cut and then deleted was pasted.
Dummies(t) == {p \in DOMAIN t.profiles : t.profiles[p].name = <<>>}
Misused(t) ==
  \/ {session, dialog} \cap Dummies(tree) # {}
  \/ \E n \in Shown(t) :
       /\ ~t.nodes[n].dir
       /\ \/ Children(t, n) # <<>>
          \/ t.nodes[n].profile \in Dummies(t)
          \/ t.nodes[n].profile # Null /\ ~Listed(t, t.nodes[n].profile)

Becomes(t, d) ==
  LET roots == (DOMAIN t.nodes \cap {Root}) \cup Range(t.treeMap)
                 \cup (IF d = NoDrag THEN {} ELSE {d.node})
      kept == Reachable(t, roots, roots)
  IN /\ crashed' = t.crashed
     /\ IF t.crashed THEN UNCHANGED <<profiles, list, nodes, treeMap, drag, misused>>
        ELSE /\ Bounded(t) /\ kept \subseteq 1..MaxNodes
             /\ profiles' = t.profiles /\ list' = t.list /\ treeMap' = t.treeMap
             /\ nodes' = [n \in kept |-> t.nodes[n]]
             /\ drag' = d /\ misused' = (misused \/ Misused(t))

\* Pointers to a profile that is gone
Dangling(ps) == [i \in DOMAIN ps |-> IF ps[i] \in DOMAIN profiles' THEN ps[i] ELSE Freed]
SameMenu == menu' = Dangling(menu)

\* OnProfileChange: the menu, and then the tree, whose construction may erase dummies
OnProfileChange(t) == Becomes(InitProfilesTree(t), NoDrag) /\ menu' = t.list

---------------------------------------------------------------------------
\* The tree, while it is shown and no dialog is open

TreeShown == ~crashed /\ opened = "no" /\ Root \in DOMAIN nodes
Folders == {n \in Shown(tree) : nodes[n].dir}
Leaves == Shown(tree) \ Folders

\* A step on the tree: what else refers to profiles stays
TreeStep(t, d) ==
  /\ TreeShown /\ Becomes(t, d) /\ SameMenu
  /\ UNCHANGED <<session, dialog, shown, opened, opens>>

\* The dialog: OnInitDialog forgets the profile it held the last time
Opens(kind, p) ==
  /\ opens < MaxOpens /\ opens' = opens + 1
  /\ opened' = kind /\ dialog' = p

\* CreateProfile ends in the dialog for the new profile
CreateProfile(n) ==
  LET p == Unused(profiles)
      path == nodes[n].path
      t == [Allocate(tree, NewProfile, path, 1) EXCEPT !.list = Append(@, p)]
      u == AddChild(t, n, <<>>, NewProfile, p).t
  IN /\ TreeShown /\ Becomes(IF u.crashed THEN u ELSE AddRef(u, p), drag)
     /\ SameMenu /\ shown' = list' /\ Opens("single", p)
     /\ UNCHANGED session

CreateProfileFolder(n) == TreeStep(AddChild(tree, n, <<NewFolder>>, <<>>, Null).t, drag)

DeleteProfile(n) == n # Root /\ TreeStep(RemoveChild(tree, nodes[n].parent, n, TRUE), drag)

Rename(n, name) == n # Root /\ TreeStep(SetName(tree, n, name), drag)

\* Cut and copy, from the menu, by key or by dragging
Take(n, cut) ==
  /\ n # Root /\ TreeShown /\ Becomes(tree, [node |-> n, cut |-> cut]) /\ SameMenu
  /\ opens < MaxOpens /\ opens' = opens + 1
  /\ UNCHANGED <<session, dialog, shown, opened>>

\* Paste, or the end of a drag, on a folder; a key pastes on a profile too, and
\* does not ask whether anything was misused
Paste(n) ==
  TreeStep(IF drag = NoDrag THEN Crash(tree)
           ELSE IF drag.cut THEN MoveTo(tree, drag.node, n)
           ELSE CopyTo(tree, drag.node, n), NoDrag)

---------------------------------------------------------------------------
\* The profiles dialog, for one profile or for all

EditProfile(n) ==
  LET p == nodes[n].profile IN
  /\ TreeShown
  /\ Becomes(IF Listed(tree, p) THEN AddRef(tree, p) ELSE tree, drag)
  /\ SameMenu /\ shown' = list /\ Opens("single", IF Listed(tree, p) THEN p ELSE Null)
  /\ UNCHANGED session

OpenDialog ==
  /\ ~crashed /\ opened = "no" /\ Opens("all", Null) /\ shown' = list
  /\ UNCHANGED <<profiles, list, nodes, treeMap, crashed, misused, menu, drag, session>>

\* OnSelectProfile
OnSelectProfile(t, p) ==
  LET u == IF dialog = Null THEN t ELSE Release(t, dialog) IN
  IF u.crashed \/ p = Null THEN u
  ELSE IF p \notin DOMAIN u.profiles THEN Crash(u)
  ELSE AddRef(u, p)

DialogSame == UNCHANGED <<session, opened, opens>>
InDialog == ~crashed /\ opened = "all"

DialogSelect(p) ==
  /\ InDialog /\ p # dialog
  /\ Becomes(OnSelectProfile(tree, p), drag)
  /\ dialog' = p /\ shown' = Dangling(shown) /\ SameMenu /\ DialogSame

\* Add and Copy: the new profile is listed, sorted in and selected
DialogChange(t, p) ==
  LET u == InitProfilesTree(t)
      v == IF u.crashed THEN u ELSE OnSelectProfile(u, p)
  IN /\ Becomes(v, NoDrag) /\ menu' = t.list
     /\ dialog' = p /\ shown' = list' /\ DialogSame

DialogAdd(name) ==
  LET p == Unused(profiles) IN
  /\ InDialog
  /\ DialogChange(SortVector([Allocate(tree, name, <<>>, 1) EXCEPT !.list = Append(@, p)]), p)

\* What requires a profile
WithProfile(t) == IF dialog \in DOMAIN profiles THEN t ELSE Crash(tree)

DialogCopy(name) ==
  LET p == Unused(profiles)
      t == WithProfile([Allocate(tree, name, profiles[dialog].parent, 1) EXCEPT !.list = Append(@, p)])
  IN InDialog /\ dialog # Null /\ DialogChange(SortVector(t), p)

DialogRename(name) ==
  LET t == SortVector(WithProfile([tree EXCEPT !.profiles[dialog].name = name])) IN
  /\ InDialog /\ dialog # Null /\ OnProfileChange(t)
  /\ dialog' = dialog /\ shown' = list' /\ DialogSame

\* The profile of the dialog may not be listed any more; it is released all the same
DialogDelete ==
  LET t == SortVector(Release(Erase(tree, dialog), dialog))
      u == InitProfilesTree(t)
      p == IF u.list = <<>> THEN Null ELSE Head(u.list)
  IN /\ InDialog /\ dialog # Null
     /\ Becomes(IF u.crashed THEN u ELSE OnSelectProfile(u, p), NoDrag)
     /\ menu' = t.list /\ dialog' = p /\ shown' = list' /\ DialogSame

\* The group of the profile, typed key by key; the list box stays as it is
DialogSetParent(path) ==
  /\ ~crashed /\ opened # "no" /\ dialog # Null
  /\ OnProfileChange(WithProfile([tree EXCEPT !.profiles[dialog].parent = path]))
  /\ shown' = Dangling(shown)
  /\ UNCHANGED <<session, dialog, opened, opens>>

\* Nothing releases the profile the dialog holds
Close ==
  /\ ~crashed /\ opened # "no"
  /\ opened' = "no" /\ dialog' = Null /\ shown' = <<>>
  /\ UNCHANGED <<profiles, list, nodes, treeMap, crashed, misused, menu, drag, session, opens>>

---------------------------------------------------------------------------
\* The session

StartSession(p) ==
  /\ session = Null
  /\ Becomes(IF p \in DOMAIN profiles THEN AddRef(tree, p) ELSE Crash(tree), drag)
  /\ session' = p /\ SameMenu
  /\ UNCHANGED <<dialog, shown, opened, opens>>

ConnectTree(n) == TreeShown /\ StartSession(nodes[n].profile)

\* The menu passes an index of m_vProfiles
ConnectMenu(i) ==
  /\ ~crashed /\ opened = "no"
  /\ StartSession(IF i \in DOMAIN list THEN list[i] ELSE Freed)

\* The connect succeeds: the view shows the server
OnConnect ==
  /\ ~crashed /\ session # Null /\ nodes # <<>>
  /\ nodes' = <<>> /\ treeMap' = <<>> /\ drag' = NoDrag
  /\ UNCHANGED <<profiles, list, crashed, misused, menu, session, dialog, shown, opened, opens>>

\* It fails, or ends: OnDisconnect, then TerminateSession
Disconnect ==
  LET t == InitProfilesTree(tree) IN
  /\ ~crashed /\ session # Null
  /\ Becomes(IF t.crashed THEN t ELSE Release(t, session), NoDrag)
  /\ session' = Null /\ shown' = Dangling(shown) /\ SameMenu
  /\ UNCHANGED <<dialog, opened, opens>>

---------------------------------------------------------------------------
\* SaveSettings and LoadSettings keep the list and sort it
Loaded ==
  IF ~(Range(list) \subseteq DOMAIN profiles) THEN Crash(tree)
  ELSE SortVector([tree EXCEPT
    !.profiles = [i \in DOMAIN list |-> [profiles[list[i]] EXCEPT !.refs = 1]],
    !.list = [i \in DOMAIN list |-> i]])

Restart ==
  /\ ~crashed /\ opened = "no" /\ session = Null
  /\ OnProfileChange(Loaded)
  /\ opens' = 0
  /\ UNCHANGED <<session, dialog, shown, opened>>

Init ==
  /\ profiles = <<>> /\ list = <<>> /\ crashed = FALSE
  /\ nodes = InitProfilesTree([profiles |-> <<>>, list |-> <<>>, nodes |-> <<>>, treeMap |-> <<>>,
                               crashed |-> FALSE]).nodes
  /\ treeMap = <<>> :> Root
  /\ menu = <<>> /\ drag = NoDrag /\ session = Null
  /\ dialog = Null /\ shown = <<>> /\ opened = "no" /\ opens = 0
  /\ misused = FALSE

TreeAction ==
  \/ \E n \in Folders : CreateProfile(n) \/ CreateProfileFolder(n)
  \/ \E n \in Shown(tree) : \/ DeleteProfile(n) \/ Paste(n)
                            \/ \E name \in Given : Rename(n, name)
                            \/ \E cut \in BOOLEAN : Take(n, cut)
  \/ \E n \in Leaves : EditProfile(n) \/ ConnectTree(n)

DialogAction ==
  \/ OpenDialog \/ DialogDelete \/ Close
  \/ \E i \in DOMAIN shown : DialogSelect(shown[i])
  \/ \E name \in Given : DialogAdd(name) \/ DialogCopy(name) \/ DialogRename(name)
  \/ \E path \in Parents : DialogSetParent(path)

SessionAction == (\E i \in DOMAIN menu : ConnectMenu(i)) \/ OnConnect \/ Disconnect

Next == TreeAction \/ DialogAction \/ SessionAction \/ Restart

Spec == Init /\ [][Next]_vars

---------------------------------------------------------------------------
\* A dummy has no name.
Named(ps, l) == {p \in Range(l) : ps[p].name # <<>>}
\* What the tree shows is what the list will be saved as: a profile has the path of
\* its folder as its group, and its node's name, through every move, copy and rename
\* of the folders above it; unless one was misused before.
PathsAgree ==
  ~crashed /\ ~misused => \A n \in Leaves : nodes[n].profile \in DOMAIN profiles =>
    /\ profiles[nodes[n].profile].parent = nodes[nodes[n].parent].path
    /\ profiles[nodes[n].profile].name = nodes[n].name

\* Nobody works on a profile that was deleted: those that are listed, used by the
\* session or open in the dialog are alive.
HoldersAreLive ==
  ~crashed => Range(list) \cup ({session, dialog} \ {Null}) \subseteq DOMAIN profiles

\* The Connect menu connects to the profile it shows.
MenuConnectsShown ==
  [][\A i \in DOMAIN menu : ConnectMenu(i) => session' = menu[i]]_vars

\* A profile leaves the list only when it is deleted.
OnlyDeletedLeave ==
  [][Named(profiles, list) \subseteq Named(profiles', list')
     \/ crashed' \/ Restart \/ DialogDelete
     \/ \E n \in Shown(tree) : DeleteProfile(n)]_vars
=============================================================================
