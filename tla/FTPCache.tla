----------------------------- MODULE FTPCache -----------------------------
(***************************************************************************)
(* The cache: which local file stands for which file of a server           *)
(* (FTPCache, the path functions of PathUtils it uses, and what FTPProfile,*)
(* FTPSettings and FTPSession do to it).                                   *)
(*                                                                         *)
(* A profile has a list of path maps and its parent is the global cache,   *)
(* one map of "/".  A map's local path is a template; it is expanded, with *)
(* the host, user and port the cache was last told, when the map is added  *)
(* and whenever the cache is told others.  A server is a host and a port;  *)
(* the user always travels with the host, which stands for both.           *)
(*                                                                         *)
(* An external path is a sequence of tokens, "/" or a piece of a name, so  *)
(* that a prefix may end in the middle of a name; a local path is a        *)
(* sequence of names, a name a sequence of pieces.                         *)
(***************************************************************************)
EXTENDS Integers, Sequences, SequencesExt, FiniteSets

CONSTANTS
  Profiles,         \* slots for profiles
  Hosts, Ports,     \* what a profile may be set to connect to
  DefaultPort,      \* ... and the port of a new one
  Files,            \* external paths a server lists
  Externals,        \* external paths the user types for a map
  Templates,        \* local paths the user types for a map
  GlobalTemplates,  \* ... and for the default cache, its default among them
  DefaultTemplate,
  InvalidPieces,    \* pieces that hold a character no local name may hold
  MaxMaps,          \* bound on the maps of a profile
  MaxEdits,         \* bound on changes of profiles and settings
  MaxFiles          \* bound on cached files

NoHost == "no host"         \* empty host and user
Server(host, port) == [host |-> host, port |-> port]
NoServer == Server(NoHost, "0")   \* what a cache was told that was told nothing
Host == <<"%HOSTNAME%">>    \* the names in a template that ExpandPath replaces
Port == <<"%PORT%">>
NoSession == [profile |-> "none", server |-> NoServer]
Failed == <<>>

ASSUME ServersAssumption == NoHost \notin Hosts /\ "0" \notin Ports /\ DefaultPort \in Ports
ASSUME TemplatesAssumption == DefaultTemplate \in GlobalTemplates
ASSUME BoundsAssumption == {MaxMaps, MaxEdits, MaxFiles} \subseteq Nat

VARIABLES
  existing,  \* the profiles that exist
  server,    \* what each is set to connect to (m_hostname, m_username, m_port)
  env,       \* what each one's cache was told (m_activeHost, ...)
  maps,      \* each one's m_vCachePaths
  globalEnv, globalMap,   \* the same of FTPSettings::m_globalCache
  session,   \* the running session: its profile, and where it connected to
  files,     \* cached files: local path -> the server it came from, and (history)
             \* whether the map that placed it named that server
  strays,    \* uploads that went to another server than the file came from: did the
             \* maps that placed it and that found its path both name theirs?
  edits

vars == <<existing, server, env, maps, globalEnv, globalMap, session, files, strays, edits>>
caches == <<env, maps, globalEnv, globalMap>>

---------------------------------------------------------------------------
\* Paths (PathUtils)

Names(external) ==      \* what stands between the slashes
  SelectSeq(FoldLeft(LAMBDA names, token :
                       IF token = "/" THEN Append(names, <<>>)
                       ELSE ReplaceAt(names, Len(names), Append(Last(names), token)),
                     <<(<<>>)>>, external),
            LAMBDA name : name # <<>>)
Slashed(names) == FoldLeft(LAMBDA path, name : path \o <<"/">> \o name, <<>>, names)

ExternalPathHasParentSegment(external) == Contains(Names(external), <<"..">>)
ToLocalName(name) == [i \in DOMAIN name |-> IF name[i] \in InvalidPieces THEN "_" ELSE name[i]]
ExternalToLocalPath(external) ==
  LET names == Names(external) IN [i \in DOMAIN names |-> ToLocalName(names[i])]

\* PathCanonicalize: ".." takes the name before it, "." nothing
Canonical(path) ==
  FoldLeft(LAMBDA names, name : CASE name = <<".">> -> names
                                  [] name = <<"..">> -> IF names = <<>> THEN names ELSE Front(names)
                                  [] OTHER -> Append(names, name),
           <<>>, path)

ConcatExternalToLocal(local, external) ==
  LET path == Canonical(local \o ExternalToLocalPath(external))
  IN  IF ExternalPathHasParentSegment(external) \/ ~IsPrefix(Canonical(local), path) THEN Failed
      ELSE path
JoinExternal(path, rest) == path \o rest    \* mutant: the slashes are not looked at
ConcatExternal(path, rest) ==
  LET ends == Last(path) = "/"
      starts == rest # <<>> /\ Head(rest) = "/"
  IN  CASE ends /\ starts -> path \o Tail(rest)
        [] ends # starts -> path \o rest
        [] OTHER -> path \o <<"/">> \o rest

---------------------------------------------------------------------------
\* FTPCache

\* ExpandPath: an empty name disappears, for PathSearchAndQualify makes one
\* backslash of two and PathRemoveBackslash drops a trailing one
ExpandPath(template, to) ==
  SelectSeq([i \in DOMAIN template |-> CASE template[i] = Host -> <<to.host>>
                                         [] template[i] = Port -> <<to.port>>
                                         [] OTHER -> template[i]],
            LAMBDA name : name # <<NoHost>>)
PathMap(template, external, to) ==
  [localpath |-> template, externalpath |-> external, expanded |-> ExpandPath(template, to)]
\* ExpandPaths
Expanded(ms, to) == [i \in DOMAIN ms |-> PathMap(ms[i].localpath, ms[i].externalpath, to)]
\* SetEnvironment (and a mutant that leaves the maps as they were expanded)
KeepExpanded(p, to) == env' = [env EXCEPT ![p] = to] /\ UNCHANGED maps
SetEnvironment(p, to) == env' = [env EXCEPT ![p] = to] /\ maps' = [maps EXCEPT ![p] = Expanded(@, to)]

\* the maps in the order they are looked up: the profile's, then the parent's
Chain(p) == Append(maps[p], globalMap)

IsPathPrefixLocal(path, prefix) == IsPrefix(prefix, path)
IsPathPrefixExternal(path, prefix) == IsPrefix(prefix, path)
After(path, prefix) == SubSeq(path, Len(prefix) + 1, Len(path))

LocalMatch(p, local) == SelectInSeq(Chain(p), LAMBDA m : IsPathPrefixLocal(local, m.expanded))
ExternalMatch(p, external) == SelectInSeq(Chain(p), LAMBDA m : IsPathPrefixExternal(external, m.externalpath))

GetExternalPathFromLocal(p, local) ==
  LET i == LocalMatch(p, local)
  IN  IF i = 0 THEN Failed
      ELSE ConcatExternal(Chain(p)[i].externalpath, Slashed(After(local, Chain(p)[i].expanded)))
GetLocalPathFromExternal(p, external) ==
  LET i == ExternalMatch(p, external)
  IN  IF i = 0 THEN Failed
      ELSE ConcatExternalToLocal(Chain(p)[i].expanded, After(external, Chain(p)[i].externalpath))

---------------------------------------------------------------------------
\* The profiles dialog, the settings dialog, the profile tree

Edit == edits < MaxEdits /\ edits' = edits + 1
NoFileMoves == UNCHANGED <<files, strays>>

NewProfile(p) ==        \* FTPProfile(name)
  /\ Edit /\ p \notin existing
  /\ existing' = existing \cup {p}
  /\ server' = [server EXCEPT ![p] = Server(NoHost, DefaultPort)]
  /\ env' = [env EXCEPT ![p] = Server(NoHost, DefaultPort)]
  /\ maps' = [maps EXCEPT ![p] = <<>>]
  /\ UNCHANGED <<globalEnv, globalMap, session>> /\ NoFileMoves

CopyProfile(p, other) ==   \* FTPProfile(name, other)
  /\ Edit /\ p \notin existing /\ other \in existing
  /\ existing' = existing \cup {p}
  /\ server' = [server EXCEPT ![p] = server[other]]
  /\ env' = [env EXCEPT ![p] = server[other]]
  /\ maps' = [maps EXCEPT ![p] = Expanded(maps[other], server[other])]
  /\ UNCHANGED <<globalEnv, globalMap, session>> /\ NoFileMoves

SetServer(p, to) ==
  /\ Edit /\ p \in existing
  /\ server' = [server EXCEPT ![p] = to]
  /\ SetEnvironment(p, to)
  /\ UNCHANGED <<existing, globalEnv, globalMap, session>> /\ NoFileMoves
SetHostname(p, host) == SetServer(p, Server(host, server[p].port))
SetPort(p, port) == SetServer(p, Server(server[p].host, port))

EditMaps(p, ms) ==
  /\ Edit /\ p \in existing
  /\ maps' = [maps EXCEPT ![p] = ms]
  /\ UNCHANGED <<existing, server, env, globalEnv, globalMap, session>> /\ NoFileMoves
AddPathMap(p, template, external) ==
  /\ Len(maps[p]) < MaxMaps
  /\ EditMaps(p, Append(maps[p], PathMap(template, external, env[p])))
SetPathMap(p, i, template, external) ==
  /\ i \in DOMAIN maps[p]
  /\ EditMaps(p, ReplaceAt(maps[p], i, PathMap(template, external, env[p])))
DeletePathMap(p, i) == i \in DOMAIN maps[p] /\ EditMaps(p, RemoveAt(maps[p], i))
SwapPathMap(p, i) ==    \* the spin control moves a map up or down by one
  /\ {i, i + 1} \subseteq DOMAIN maps[p]
  /\ EditMaps(p, [maps[p] EXCEPT ![i] = maps[p][i + 1], ![i + 1] = maps[p][i]])

SetGlobalCachePath(template) ==
  /\ Edit
  /\ globalMap' = PathMap(template, <<"/">>, globalEnv)
  /\ UNCHANGED <<existing, server, env, maps, globalEnv, session>> /\ NoFileMoves

---------------------------------------------------------------------------
\* The session

StartSession(p) ==
  /\ session = NoSession /\ p \in existing /\ server[p].host # NoHost
  /\ session' = [profile |-> p, server |-> server[p]]
  /\ globalEnv' = server[p]
  /\ globalMap' = PathMap(globalMap.localpath, <<"/">>, server[p])
  /\ UNCHANGED <<existing, server, env, maps, edits>> /\ NoFileMoves

\* ClearCurrentCache: the directories of the profile's maps and the parent's
InCache(p, local) == LocalMatch(p, local) # 0
Kept(p) == {local \in DOMAIN files : ~InCache(p, local)}

EndSession(clear) ==
  /\ session # NoSession
  /\ session' = NoSession
  /\ files' = IF clear THEN [local \in Kept(session.profile) |-> files[local]] ELSE files
  /\ UNCHANGED <<existing, server, caches, strays, edits>>

KnowsServer == env[session.profile] = session.server
Connected == session # NoSession

\* Whether map i of the session's chain was expanded to a path of the session's
\* server: its template names host and port, and the cache it is in was told them.
NamesServer(i) ==
  LET p == session.profile IN
  /\ {Host, Port} \subseteq Range(Chain(p)[i].localpath)
  /\ (IF i \in DOMAIN maps[p] THEN env[p] ELSE globalEnv) = session.server

DownloadFileCache(external) ==
  LET p == session.profile
      local == GetLocalPathFromExternal(p, external)
      file == [from |-> session.server, named |-> NamesServer(ExternalMatch(p, external))]
  IN
  /\ Connected /\ local # Failed
  /\ Cardinality(DOMAIN files \cup {local}) <= MaxFiles
  /\ files' = [l \in DOMAIN files \cup {local} |-> IF l = local THEN file ELSE files[l]]
  /\ UNCHANGED <<existing, server, caches, session, strays, edits>>

UploadFileCache(local) ==
  LET p == session.profile IN
  /\ Connected /\ local \in DOMAIN files
  /\ GetExternalPathFromLocal(p, local) # Failed
  /\ strays' = IF files[local].from = session.server THEN strays
               ELSE strays \cup {files[local].named /\ NamesServer(LocalMatch(p, local))}
  /\ UNCHANGED <<existing, server, caches, session, files, edits>>

\* The program ends and starts: SaveCache writes the templates, LoadCache adds
\* them to a cache that was told no server
Restart ==
  /\ session' = NoSession
  /\ env' = [p \in Profiles |-> NoServer]
  /\ maps' = [p \in Profiles |-> Expanded(maps[p], NoServer)]
  /\ globalEnv' = NoServer
  /\ globalMap' = PathMap(globalMap.localpath, <<"/">>, NoServer)
  /\ UNCHANGED <<existing, server, edits>> /\ NoFileMoves

---------------------------------------------------------------------------
Init ==
  /\ existing = {}
  /\ server = [p \in Profiles |-> NoServer]
  /\ env = [p \in Profiles |-> NoServer]
  /\ maps = [p \in Profiles |-> <<>>]
  /\ globalEnv = NoServer
  /\ globalMap = PathMap(DefaultTemplate, <<"/">>, NoServer)
  /\ session = NoSession
  /\ files = <<>>
  /\ strays = {}
  /\ edits = 0

EditStep(p) ==
  \/ NewProfile(p)
  \/ \E other \in Profiles : CopyProfile(p, other)
  \/ \E host \in Hosts : SetHostname(p, host)
  \/ \E port \in Ports : SetPort(p, port)
  \/ \E template \in Templates, external \in Externals :
       \/ AddPathMap(p, template, external)
       \/ \E i \in 1 .. MaxMaps : SetPathMap(p, i, template, external)
  \/ \E i \in 1 .. MaxMaps : DeletePathMap(p, i) \/ SwapPathMap(p, i)

Next ==
  \/ \E p \in Profiles : EditStep(p) \/ StartSession(p)
  \/ \E template \in GlobalTemplates : SetGlobalCachePath(template)
  \/ \E clear \in BOOLEAN : EndSession(clear)
  \/ \E external \in Files : DownloadFileCache(external)
  \/ \E local \in DOMAIN files : UploadFileCache(local)
  \/ Restart

Spec == Init /\ [][Next]_vars

---------------------------------------------------------------------------
\* What the cache promises

Tangled(m, n) == IsPrefix(m.expanded, n.expanded) \/ IsPrefix(n.expanded, m.expanded)
Untangled(p) ==
  \A i, j \in DOMAIN Chain(p) : i # j => ~Tangled(Chain(p)[i], Chain(p)[j])
\* the map that serves the path ends between two of its names
MatchesWholeNames(p, external) ==
  LET prefix == Chain(p)[ExternalMatch(p, external)].externalpath
      rest == After(external, prefix)
  IN  rest # <<>> /\ (Last(prefix) = "/" \/ Head(rest) = "/")
HasLocalName(external) == Range(external) \cap InvalidPieces = {}

(* Unless the user's maps overlap on the local side, a file that is         *)
(* downloaded into the cache and saved goes back to the path it came from:  *)
(* the two look-ups, one by raw prefix from the server's side, one by whole *)
(* names from the local side, each taking the first map that fits, find the *)
(* same map (FTPCache.cpp:127-165).                                         *)
RoundTrip ==
  \A p \in existing, external \in Files :
    LET local == GetLocalPathFromExternal(p, external) IN
    Untangled(p) /\ HasLocalName(external) /\ local # Failed /\ MatchesWholeNames(p, external)
      => GetExternalPathFromLocal(p, local) = external

(* A file that was placed by a map of its server and is found by a map of   *)
(* the session's server is never uploaded to another server than it came    *)
(* from, whatever was edited, copied, saved and reloaded in between: an      *)
(* expansion that names a server is renewed with it.  After a restart the    *)
(* maps of the global cache are such, and those of a profile only once it is  *)
(* edited.                                                                  *)
NamedMapsKeepServers == TRUE \notin strays

(* A saved file is never uploaded to another server than it came from.      *)
SavesReachTheirServer == strays = {}

(* docs/index.md:29: a map of an external path serves "that path and its    *)
(* subpaths".                                                               *)
MapsServeSubpaths ==
  \A p \in existing, external \in Files :
    IsPrefix(Names(Chain(p)[ExternalMatch(p, external)].externalpath), Names(external))

(* history.md:144: StartSession sets the environment of the profile's       *)
(* cache, so in a session it is the session's server.                       *)
EnvironmentIsCurrent == session # NoSession => KnowsServer
=============================================================================
