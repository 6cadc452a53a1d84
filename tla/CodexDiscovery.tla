---------------------------- MODULE CodexDiscovery ----------------------------
(***************************************************************************)
(* The rollout files Codex writes under its sessions directory, one         *)
(* directory per day, and the cache by which the daemon finds the sessions  *)
(* in them without reading every file in every collection                   *)
(* (codex_turn_discovery_cache.go).                                        *)
(*                                                                         *)
(* A directory is read again only when its modification time changed, and   *)
(* a file only when the cache has no header of it, so that what the cache   *)
(* holds of a file (its size and modification time) is that of the last     *)
(* time its directory was read.  The cache is in memory: a daemon that      *)
(* starts has none.                                                        *)
(*                                                                         *)
(* A file is whether its first line, which names its session, is complete,  *)
(* the messages written to it and its modification time.  Titles, models,   *)
(* and the rejection of a session that names itself as its parent are left  *)
(* out.                                                                    *)
(***************************************************************************)
EXTENDS Integers, Sequences, SequencesExt

CONSTANTS
    Sessions,
    Paths,      \* paths of rollout files
    Root,       \* the sessions directory
    SessionOf,  \* the session of each path, whose name holds its ID
    DirOf,      \* the directory of each path, one below Root
    Worlds      \* bounds on what happens: a sequence of records of
                \*   paths      those that may be used
                \*   lengths    of messages
                \*   revised    whether messages are written again
                \*   halves     whether a header may be seen half written
                \*   databases  Codex's, in this world
                \*   time       bound on the clock
                \*   mishaps    bound on deaths and failures of the daemon

Days == {DirOf[p] : p \in Paths}
Directories == Days \cup {Root}

ASSUME DiscoveryAssumption ==
    /\ SessionOf \in [Paths -> Sessions]
    /\ DirOf \in [Paths -> Days] /\ Root \notin Days
    /\ IsFiniteSet(Sessions)
    /\ \A i \in DOMAIN Worlds :
        /\ Worlds[i].paths \subseteq Paths
        /\ Worlds[i].lengths \subseteq Nat \ {0}
        /\ Worlds[i].time \in Nat \ {0} /\ Worlds[i].mishaps \in Nat

VARIABLES
    world,      \* which of the worlds this is
    now,        \* the clock: no two things Codex does have one time
    files,      \* path -> rollout file
    named,      \* the paths that were drawn so far
    dirTime,    \* modification time of each directory, 0 if it is not there
    home,       \* session -> path of the file Codex writes it to
    cache,      \* path -> cached entry
    dirSeen     \* directory -> modification time when it was read

codexVars == <<world, now, files, named, dirTime, home>>
cacheVars == <<cache, dirSeen>>

World == Worlds[world]

Message == [m : Nat, at : Nat, len : World.lengths]
Rollout == [whole : BOOLEAN, records : Seq(Message), mtime : Nat]
CacheEntry == [parsed : BOOLEAN, size : Nat, mtime : Nat]

Put(f, k, v) == [x \in DOMAIN f \cup {k} |-> IF x = k THEN v ELSE f[x]]

Size(p) == Len(files[p].records) + (IF files[p].whole THEN 1 ELSE 0)

DiscoveryInit ==
    /\ world \in DOMAIN Worlds
    /\ now = 1
    /\ files = << >> /\ named = {} /\ home = << >>
    /\ dirTime = [d \in Directories |-> IF d = Root THEN 1 ELSE 0]
    /\ cache = << >> /\ dirSeen = << >>

-----------------------------------------------------------------------------
(* Codex *)
Write(p, file) ==
    /\ now < World.time
    /\ now' = now + 1
    /\ files' = Put(files, p, [file EXCEPT !.mtime = now'])
    /\ UNCHANGED <<world, cacheVars>>

(* A name is of its time, and not drawn again.  A new entry of a directory   *)
(* changes its time, and a new directory Root's.                            *)
WriteNew(s, p, file) ==
    /\ p \notin named /\ SessionOf[p] = s
    /\ Write(p, file)
    /\ named' = named \cup {p}
    /\ home' = Put(home, s, p)
    /\ dirTime' = [d \in Directories |->
                     IF d = DirOf[p] \/ (d = Root /\ dirTime[DirOf[p]] = 0)
                     THEN now' ELSE dirTime[d]]

(* The first line may be seen half written. *)
Begin(s, p, whole) ==
    /\ s \notin DOMAIN home /\ (whole \/ World.halves)
    /\ WriteNew(s, p, [whole |-> whole, records |-> << >>, mtime |-> 0])

WriteHeader(p) ==
    /\ p \in DOMAIN files /\ ~files[p].whole
    /\ Write(p, [files[p] EXCEPT !.whole = TRUE])
    /\ UNCHANGED <<named, dirTime, home>>

IsOpen(s) ==
    s \in DOMAIN home /\ home[s] \in DOMAIN files /\ files[home[s]].whole

AddRecord(s, m, len) ==
    /\ Write(home[s], [files[home[s]] EXCEPT
                         !.records = Append(@, [m |-> m, at |-> now + 1, len |-> len])])
    /\ UNCHANGED <<named, dirTime, home>>

Say(s, len) == IsOpen(s) /\ AddRecord(s, now + 1, len)

(* A message is written again under its ID. *)
Revise(s, len) ==
    /\ World.revised /\ IsOpen(s) /\ files[home[s]].records # << >>
    /\ AddRecord(s, Last(files[home[s]].records).m, len)

(* A session goes on in a new file that begins with a copy of the old one.  *)
Resume(s, p) ==
    /\ IsOpen(s)
    /\ WriteNew(s, p, files[home[s]])

(* codex archive takes the file out of the sessions directory. *)
Archive(p) ==
    /\ p \in DOMAIN files
    /\ now < World.time
    /\ now' = now + 1
    /\ files' = [q \in DOMAIN files \ {p} |-> files[q]]
    /\ dirTime' = [dirTime EXCEPT ![DirOf[p]] = now']
    /\ UNCHANGED <<world, named, home, cacheVars>>

CodexWrites ==
    \/ \E s \in Sessions, p \in World.paths, whole \in BOOLEAN : Begin(s, p, whole)
    \/ \E p \in Paths : WriteHeader(p)
    \/ \E s \in Sessions, len \in World.lengths : Say(s, len)
    \/ \E s \in Sessions, len \in World.lengths : Revise(s, len)
    \/ \E s \in Sessions, p \in World.paths : Resume(s, p)
    \/ \E p \in Paths : Archive(p)

-----------------------------------------------------------------------------
(* The daemon *)

(* cachedCodexTurnSession: the entry of a file after it was looked at.  One  *)
(* whose header is not there yet will be tried again; one that grew is not  *)
(* read again, as its header does not change.                              *)
Cached(p) ==
    [parsed |-> files[p].whole, size |-> Size(p), mtime |-> files[p].mtime]

(* refreshPendingCodexRollouts *)
Refreshed ==
    [p \in DOMAIN cache |->
        IF ~cache[p].parsed /\ p \in DOMAIN files THEN Cached(p) ELSE cache[p]]

(* changedCodexDiscoveryDirectories: Root covers the others. *)
ChangedDirectories ==
    LET changed == {d \in DOMAIN dirSeen : dirTime[d] # dirSeen[d]}
    IN  IF Root \notin DOMAIN dirSeen \/ Root \in changed THEN {Root} ELSE changed

Within(d) == IF d = Root THEN {e \in Directories : dirTime[e] # 0} ELSE {d}

FilesWithin(d) == {p \in DOMAIN files : DirOf[p] \in Within(d)}

(* scanCodexDiscoveryDirectory: the files it sees, all of them unless it met *)
(* an error, go into the cache; after an error nothing is forgotten, nor is  *)
(* the time of any directory recorded.                                     *)
ScanDirectory(d, seen) ==
    LET complete == seen = FilesWithin(d)
        kept == IF complete THEN {p \in DOMAIN cache : DirOf[p] \notin Within(d)}
                ELSE DOMAIN cache
    IN  /\ seen \subseteq FilesWithin(d)
        /\ cache' = [p \in kept \cup seen |->
                        IF p \in seen THEN Cached(p) ELSE cache[p]]
        /\ dirSeen' = IF complete
                      THEN [e \in DOMAIN dirSeen \cup Within(d) |->
                               IF e \in Within(d) THEN dirTime[e] ELSE dirSeen[e]]
                      ELSE dirSeen

(* Of two cached files of a session, the one modified last, then the longer.*)
Newer(p, q) ==
    \/ cache[p].mtime > cache[q].mtime
    \/ cache[p].mtime = cache[q].mtime /\ cache[p].size > cache[q].size

CachedPathsOf(s) == {p \in DOMAIN cache : cache[p].parsed /\ SessionOf[p] = s}

CachedSessions == {s \in Sessions : CachedPathsOf(s) # {}}

(* cachedCodexTurnSessions *)
DiscoveredPath(s) ==
    CHOOSE p \in CachedPathsOf(s) : ~\E q \in CachedPathsOf(s) : Newer(q, p)

DiscoveryTypeOK ==
    /\ world \in DOMAIN Worlds /\ now \in 1 .. World.time
    /\ named \subseteq Paths /\ DOMAIN files \subseteq named /\ files \in [DOMAIN files -> Rollout]
    /\ dirTime \in [Directories -> 0 .. now]
    /\ DOMAIN home \subseteq Sessions /\ home \in [DOMAIN home -> Paths]
    /\ DOMAIN cache \subseteq Paths /\ cache \in [DOMAIN cache -> CacheEntry]
    /\ DOMAIN dirSeen \subseteq Directories
    /\ dirSeen \in [DOMAIN dirSeen -> 1 .. now]
=============================================================================
