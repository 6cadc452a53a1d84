--------------------------- MODULE CodexTranscripts ---------------------------
(***************************************************************************)
(* The transcripts of Codex sessions: the daemon reads the last messages of *)
(* the sessions Codex's state database lists, and of the most recent ones   *)
(* CodexDiscovery finds beside them, and queues those it has not queued     *)
(* before in numbered chunks.  What it queued is the cursor of a session,   *)
(* in a baseline it keeps per state database and saves after the chunks     *)
(* were appended to the queue, so that a crash may come between.            *)
(*                                                                         *)
(* What is there when a baseline is begun is history, and is not queued.    *)
(* A message is its ID, time and length; a version of it is the whole       *)
(* record.  Roles, texts and their redaction, titles and the approval       *)
(* dialogues that are filtered out are left out.                           *)
(***************************************************************************)
EXTENDS CodexDiscovery, FiniteSets, FiniteSetsExt, Keep

CONSTANTS
    Databases,      \* Codex's state databases
    NoDatabase,     \* none, when the rollouts are the source
    TailRecords,    \* codexTranscriptTailBytes, in records
    MaxMessages,    \* codexMaxTranscriptMessages
    MaxBytes,       \* codexMaxTranscriptTotalBytes
    MaxRows,        \* codexMaxTranscriptRows
    ChunkMessages,  \* transcriptChunkMaxMessages
    ChunkBytes,     \* transcriptChunkMaxBytes
    MaxVersions,    \* transcriptCursorMaxVersions
    Midnight        \* time at which the date changes

Sources == Databases \cup {NoDatabase}

ASSUME TranscriptAssumption ==
    /\ NoDatabase \notin Databases
    /\ {TailRecords, MaxMessages, MaxBytes, MaxRows, ChunkMessages, ChunkBytes,
        MaxVersions, Midnight} \subseteq Nat \ {0}
    /\ \A i \in DOMAIN Worlds : Worlds[i].databases \subseteq Sources

VARIABLES
    database,   \* the latest state database
    rows,       \* the sessions each database lists
    baseline,   \* source -> saved baseline
    queued,     \* chunks appended to the queue, with their source
    pc,         \* where the collection is
    source,     \* database of this collection
    observed,   \* when it began
    stateRead,  \* whether it could be read
    payloads,   \* session -> messages read of it
    scans,      \* directories still to read
    plan,       \* what the collection will append and save
    due,        \* what the collection must know of, with its place
    torn,       \* chunks appended by collections that did not save
    history,    \* messages the saved baselines left out as history: observed by
                \* no action
    mishaps     \* deaths and failures so far

stored == <<database, rows, baseline, queued, torn, history>>
collection == <<pc, source, observed, stateRead, payloads, scans, plan, due>>
vars == <<codexVars, cacheVars, stored, collection, mishaps>>

-----------------------------------------------------------------------------
(* Reading a rollout *)
LastOf(n, s) == SubSeq(s, Len(s) - (IF n < Len(s) THEN n ELSE Len(s)) + 1, Len(s))

(* codexLatestTranscriptCandidates: a message written again takes the place *)
(* of the first.                                                           *)
Renew(kept, r) ==
    IF \A i \in DOMAIN kept : kept[i].m # r.m THEN Append(kept, r)
    ELSE [i \in DOMAIN kept |-> IF kept[i].m = r.m THEN r ELSE kept[i]]

Latest(records) == FoldLeft(Renew, << >>, records)

AddBytes(n, r) == n + r.len

BytesOf(msgs) == FoldLeft(AddBytes, 0, msgs)

(* codexTranscriptMessages: the last MaxMessages, but of the messages up to *)
(* the first that does not fit beside those kept before it.                *)
Fit(w, r) ==
    IF w.full \/ BytesOf(w.msgs) + r.len > MaxBytes
    THEN [w EXCEPT !.full = TRUE]
    ELSE [w EXCEPT !.msgs = LastOf(MaxMessages, Append(@, r))]

Kept(records) == FoldLeft(Fit, [msgs |-> << >>, full |-> FALSE], records)

(* readCodexTranscript *)
Window(records) == Kept(Latest(LastOf(TailRecords, records))).msgs

Messages(p) == IF p \in DOMAIN files THEN Window(files[p].records) ELSE << >>

-----------------------------------------------------------------------------
(* Chunks and cursors *)
NoCursor == [versions |-> << >>, sequence |-> 0, ready |-> FALSE, hash |-> << >>]

NoBaseline == [at |-> 0, sessions |-> << >>]

Seen(cursor) == ToSet(cursor.versions)

Unseen(cursor, msgs) == Keeping(msgs, ToSet(msgs) \ Seen(cursor))

(* boundedTranscriptVersions *)
Remembered(cursor, msgs) ==
    [cursor EXCEPT !.versions = LastOf(MaxVersions, @ \o Unseen(cursor, msgs)), !.ready = TRUE]

(* seedTranscriptCursor *)
Seeded(cursor, msgs) == [Remembered(cursor, msgs) EXCEPT !.hash = msgs]

(* seedTranscriptCursorBeforeBaseline *)
SeededBefore(cursor, msgs, at) ==
    Remembered(cursor, Keeping(msgs, {r \in ToSet(msgs) : r.at <= at}))

Date(r) == r.at > Midnight

(* Faulty variant: the date of a message is not looked at. *)
FitsAnyDay(chunk, r) ==
    Len(chunk) < ChunkMessages /\ BytesOf(chunk) + r.len <= ChunkBytes

(* A message goes into the chunk begun before it, or begins the next. *)
Fits(chunk, r) ==
    /\ Len(chunk) < ChunkMessages
    /\ BytesOf(chunk) + r.len <= ChunkBytes
    /\ Date(r) = Date(Last(chunk))

Fill(chunks, r) ==
    IF chunks # << >> /\ Fits(Last(chunks), r)
    THEN [chunks EXCEPT ![Len(chunks)] = Append(@, r)]
    ELSE Append(chunks, <<r>>)

(* Faulty variant: the chunk begun last is not ended. *)
SplitUnflushed(msgs) ==
    LET chunks == FoldLeft(Fill, << >>, msgs)
    IN  IF chunks = << >> THEN chunks ELSE Front(chunks)

Split(msgs) == FoldLeft(Fill, << >>, msgs)

(* prepareTranscriptChunks: the chunks, and the cursor after them.           *)
Chunks(s, cursor, msgs) ==
    LET parts == Split(Unseen(cursor, msgs))
    IN  {[source |-> source, sid |-> s, sequence |-> cursor.sequence + i,
          msgs |-> parts[i]] : i \in DOMAIN parts}

Advanced(cursor, s, msgs) ==
    [Seeded(cursor, msgs) EXCEPT !.sequence = @ + Cardinality(Chunks(s, cursor, msgs))]

-----------------------------------------------------------------------------
(* The baseline of a collection *)
SessionsOf(b) == DOMAIN b.sessions

Listed == IF stateRead /\ source # NoDatabase THEN rows[source] ELSE {}

(* initializeCodexBaseline: everything there is history. *)
Initialized(read) ==
    [at |-> observed,
     sessions |-> [s \in Listed \cup DOMAIN read |->
                     IF s \in DOMAIN read THEN Seeded(NoCursor, read[s]) ELSE NoCursor]]

(* Faulty variant: the cursor of a discovered session is always begun anew. *)
CursorOfAnew(s, read, fallback) ==
    LET b == baseline[source]
    IN  IF s \in fallback THEN SeededBefore(NoCursor, read[s], b.at)
        ELSE IF s \in SessionsOf(b) THEN b.sessions[s]
        ELSE NoCursor

(* The cursor of s as the collection finds it: a session first found by      *)
(* discovery may be older than the baseline.                               *)
CursorOf(s, read, fallback) ==
    LET b == baseline[source]
    IN  IF s \in SessionsOf(b) THEN b.sessions[s]
        ELSE IF s \in fallback THEN SeededBefore(NoCursor, read[s], b.at)
        ELSE NoCursor

(* A session known from its usage alone: what was not read so far is not    *)
(* queued.                                                                 *)
PassedOver(s) ==
    s \in SessionsOf(baseline[source]) /\ ~baseline[source].sessions[s].ready

(* shouldSkipBaselineTranscript *)
Unchanged(s, msgs) ==
    s \in SessionsOf(baseline[source]) /\ baseline[source].sessions[s].hash = msgs

(* filterCodexTranscriptBaseline, for one session. *)
NextCursor(s, read, fallback) ==
    LET cursor == CursorOf(s, read, fallback)
    IN  IF s \notin DOMAIN read \/ Unchanged(s, read[s]) THEN cursor
        ELSE IF PassedOver(s) THEN Seeded(cursor, read[s])
        ELSE Advanced(cursor, s, read[s])

(* What may be left out of what was read: all of it when the baseline is     *)
(* begun, and all of a session that is passed over; of a session discovery   *)
(* finds first after that, the messages no later than the baseline.         *)
Past(read, fallback) ==
    LET b == baseline[source]
        IsPast(s, r) ==
            \/ b.at = 0 \/ PassedOver(s)
            \/ s \in fallback \ SessionsOf(b) /\ r.at <= b.at
    IN  UNION {{<<source, s, r>> : r \in {m \in ToSet(read[s]) : IsPast(s, m)}} :
                 s \in DOMAIN read}

(* filterCodexSessionBackfill *)
Plan(read, fallback) ==
    IF baseline[source].at = 0
    THEN [chunks |-> {}, base |-> Initialized(read), history |-> Past(read, fallback)]
    ELSE [history |-> Past(read, fallback),
          chunks |->
            UNION {Chunks(s, CursorOf(s, read, fallback), read[s]) :
                     s \in {t \in DOMAIN read : ~PassedOver(t) /\ ~Unchanged(t, read[t])}},
          base |-> [baseline[source] EXCEPT !.sessions =
                      [s \in DOMAIN @ \cup Listed \cup DOMAIN read |->
                         NextCursor(s, read, fallback)]]]

NoPlan == [chunks |-> {}, base |-> NoBaseline, history |-> {}]

-----------------------------------------------------------------------------
Init ==
    /\ DiscoveryInit
    /\ database \in World.databases
    /\ rows = [d \in Sources |-> {}]
    /\ baseline = [d \in Sources |-> NoBaseline]
    /\ queued = {} /\ torn = {} /\ history = {} /\ mishaps = 0
    /\ pc = "idle" /\ source = NoDatabase /\ observed = 0 /\ stateRead = FALSE
    /\ payloads = << >> /\ scans = {} /\ plan = NoPlan
    /\ due = {}

(* Codex lists a session once it counts tokens of it, and a new version of  *)
(* Codex keeps another database.                                           *)
List(s) ==
    /\ database # NoDatabase /\ IsOpen(s) /\ s \notin rows[database]
    /\ files[home[s]].records # << >>
    /\ rows' = [rows EXCEPT ![database] = @ \cup {s}]
    /\ UNCHANGED <<codexVars, cacheVars, database, baseline, queued, torn, history,
                   collection, mishaps>>

ChangeDatabase(d) ==
    /\ now < World.time
    /\ now' = now + 1
    /\ database' = d
    /\ UNCHANGED <<world, files, named, dirTime, home, cacheVars, rows, baseline, queued, torn,
                   history, collection, mishaps>>

Codex ==
    \/ CodexWrites /\ UNCHANGED <<stored, collection, mishaps>>
    \/ \E s \in Sessions : List(s)
    \/ \E d \in World.databases \ {NoDatabase, database} : ChangeDatabase(d)

-----------------------------------------------------------------------------
Modified(p) == IF p \in DOMAIN files THEN files[p].mtime ELSE 0

(* The n sessions of S whose files, at path[s], were modified last. *)
MostRecent(n, S, path) ==
    {s \in S : Cardinality({t \in S : Modified(path[t]) > Modified(path[s])}) < n}

Fails(so) ==
    /\ mishaps' = IF so THEN mishaps + 1 ELSE mishaps
    /\ mishaps' <= World.mishaps

(* readCodexState: the rows last updated, and what their rollouts hold.  It   *)
(* may fail, and fails for a database that lists no session yet, of which    *)
(* sqlite3 prints nothing.                                                 *)
ReadState(ok) ==
    /\ pc = "idle"
    /\ Fails(~ok)
    /\ source' = database /\ observed' = now
    /\ stateRead' = (database = NoDatabase \/ (ok /\ rows[database] # {}))
    /\ LET top == IF ok THEN MostRecent(MaxRows, rows[database], home) ELSE {}
           some == {s \in top : Messages(home[s]) # << >>}
       IN  payloads' = [s \in some |-> Messages(home[s])]
    /\ due' = UNION {{<<s, home[s], r>> : r \in ToSet(Messages(home[s]))} :
                       s \in {t \in Sessions : IsOpen(t)}}
    /\ pc' = "discover"
    /\ UNCHANGED <<codexVars, cacheVars, stored, scans, plan>>

(* discoverCodexTurnSessions begins. *)
Discover ==
    /\ pc = "discover"
    /\ cache' = Refreshed
    /\ scans' = ChangedDirectories
    /\ pc' = "scan"
    /\ UNCHANGED <<codexVars, dirSeen, stored, source, observed, stateRead, payloads, plan,
                   due, mishaps>>

(* What an incomplete scan did not see is due another time. *)
Scan(d, seen) ==
    /\ pc = "scan" /\ d \in scans
    /\ Fails(seen # FilesWithin(d))
    /\ ScanDirectory(d, seen)
    /\ scans' = scans \ {d}
    /\ due' = IF seen = FilesWithin(d) THEN due ELSE {}
    /\ UNCHANGED <<codexVars, stored, pc, source, observed, stateRead, payloads, plan>>

(* mergeCodexTurnSessions: where discovery and the database differ, the path *)
(* is that of discovery.                                                   *)
TurnPaths ==
    [s \in Listed \cup CachedSessions |->
        IF s \in CachedSessions THEN DiscoveredPath(s) ELSE home[s]]

(* Of the files of a session, the one written last *)
FilesOf(s) == {p \in DOMAIN files : SessionOf[p] = s}

LastFile(s) ==
    CHOOSE p \in FilesOf(s) : \A q \in FilesOf(s) : files[q].mtime <= files[p].mtime

(* What the sessions written last hold, and held before in the same place,   *)
(* is not to be missed; one whose file was archived may be read in an older. *)
StillDue ==
    LET there == {s \in Sessions : FilesOf(s) # {}}
        last == MostRecent(MaxRows, there, [s \in there |-> LastFile(s)])
    IN  {e \in due : /\ e[1] \in last /\ e[2] = home[e[1]]
                     /\ e[3] \in ToSet(Messages(e[2]))}

(* mergeCodexTranscriptFallbacks, then filterCodexSessionBackfill. *)
Filter ==
    /\ pc = "scan" /\ scans = {}
    /\ LET path == TurnPaths
           others == {s \in DOMAIN path \ DOMAIN payloads : Messages(path[s]) # << >>}
           fallback == MostRecent(MaxRows, others, path)
           read == [s \in DOMAIN payloads \cup fallback |->
                      IF s \in fallback THEN Messages(path[s]) ELSE payloads[s]]
       IN  IF \/ ~stateRead /\ fallback = {}
              \/ source = NoDatabase /\ DOMAIN read = {}
           THEN pc' = "idle" /\ plan' = NoPlan
           ELSE pc' = "append" /\ plan' = Plan(read, fallback)
    /\ payloads' = << >>
    /\ due' = StillDue
    /\ UNCHANGED <<codexVars, cacheVars, stored, source, observed, stateRead, scans,
                   mishaps>>

AppendEvents ==
    /\ pc = "append"
    /\ queued' = queued \cup plan.chunks
    /\ pc' = "commit"
    /\ UNCHANGED <<codexVars, cacheVars, database, rows, baseline, torn, history, source,
                   observed, stateRead, payloads, scans, plan, due, mishaps>>

End ==
    /\ pc' = "idle" /\ payloads' = << >> /\ scans' = {} /\ plan' = NoPlan
    /\ source' = NoDatabase /\ observed' = 0 /\ stateRead' = FALSE /\ due' = {}
    /\ UNCHANGED <<codexVars, database, rows, queued>>

(* commitCodexBaseline *)
CommitBaseline ==
    /\ pc = "commit"
    /\ baseline' = [baseline EXCEPT ![source] = plan.base]
    /\ history' = history \cup plan.history
    /\ End
    /\ UNCHANGED <<cacheVars, torn, mishaps>>

LeaveTorn == torn' = IF pc = "commit" THEN torn \cup plan.chunks ELSE torn

(* The queue or the baseline cannot be written: the cycle ends with an error.*)
Abandon ==
    /\ pc \in {"append", "commit"}
    /\ Fails(TRUE)
    /\ LeaveTorn
    /\ End
    /\ UNCHANGED <<cacheVars, baseline, history>>

(* The daemon dies, and what it cached of the rollouts with it. *)
Crash ==
    /\ pc # "idle" \/ DOMAIN dirSeen # {}
    /\ Fails(TRUE)
    /\ LeaveTorn
    /\ cache' = << >> /\ dirSeen' = << >>
    /\ End
    /\ UNCHANGED <<baseline, history>>

Collection ==
    \/ \E ok \in BOOLEAN : ReadState(ok)
    \/ Discover
    \/ \E d \in scans : \E seen \in SUBSET FilesWithin(d) : Scan(d, seen)
    \/ Filter
    \/ AppendEvents
    \/ CommitBaseline
    \/ Abandon
    \/ Crash

Next == Codex \/ Collection

Spec == Init /\ [][Next]_vars

-----------------------------------------------------------------------------
Cursor == [versions : Seq(Message), sequence : Nat, ready : BOOLEAN, hash : Seq(Message)]

IsBaseline(b) ==
    /\ b.at \in 0 .. now
    /\ SessionsOf(b) \subseteq Sessions
    /\ b.sessions \in [SessionsOf(b) -> Cursor]
    /\ \A s \in SessionsOf(b) :
        LET c == b.sessions[s]
        IN  /\ Len(c.versions) <= MaxVersions
            /\ (c.sequence > 0 \/ c.versions # << >>) => c.ready

(* The variables have the types their uses need; chunks keep within their    *)
(* limits, and no cursor counts chunks unless it knows messages.            *)
TypeOK ==
    /\ DiscoveryTypeOK
    /\ database \in Sources /\ source \in Sources
    /\ rows \in [Sources -> SUBSET Sessions]
    /\ \A d \in Sources : IsBaseline(baseline[d])
    /\ IsBaseline(plan.base)
    /\ pc \in {"idle", "discover", "scan", "append", "commit"}
    /\ scans \subseteq Directories
    /\ torn \subseteq queued
    /\ \A c \in queued \cup plan.chunks :
        /\ c.sid \in Sessions /\ c.source \in Sources
        /\ Len(c.msgs) \in 1 .. ChunkMessages
        /\ Len(c.msgs) = 1 \/ BytesOf(c.msgs) <= ChunkBytes
        /\ \A i \in DOMAIN c.msgs : Date(c.msgs[i]) = Date(c.msgs[1])

Sent(d, s) ==
    UNION {ToSet(c.msgs) : c \in {q \in queued : q.source = d /\ q.sid = s}}

(* The cursor is never ahead of the queue: every number it counts was given  *)
(* to a chunk that is queued, whatever crash came when.                     *)
CountsWhatWasQueued(d, s) ==
    \A n \in 1 .. baseline[d].sessions[s].sequence :
        \E c \in queued : c.source = d /\ c.sid = s /\ c.sequence = n

(* A message of s is in the queue, on its way to it, or history.  What the   *)
(* cursor knows is not asked.                                              *)
Accounted(s, r) ==
    \/ r \in Sent(source, s)
    \/ \E c \in plan.chunks : c.sid = s /\ r \in ToSet(c.msgs)
    \/ <<source, s, r>> \in history \cup plan.history

(* No message is missed: when a collection has made its plan, every message  *)
(* of the session written last that was in its rollout when the collection   *)
(* began and is still among the last ones, in whatever file the session      *)
(* goes on and whatever of the directories the cache skipped, is queued or   *)
(* in a chunk of the plan, unless it is history; and the numbers a cursor    *)
(* counts are all those of chunks in the queue.                             *)
NothingMissed ==
    /\ pc \in {"idle", "append", "commit"} => \A e \in due : Accounted(e[1], e[3])
    /\ \A d \in Sources : \A s \in SessionsOf(baseline[d]) : CountsWhatWasQueued(d, s)

(* What the session of a chunk sent in it and later, up to the number n *)
SentSince(c, n) ==
    UNION {ToSet(e.msgs) : e \in {q \in queued : /\ q.source = c.source /\ q.sid = c.sid
                                                /\ q.sequence \in c.sequence .. n}}

(* Each message goes out once under each baseline, in a chunk whose number   *)
(* no other chunk of the session has, unless the daemon died, or failed to  *)
(* save, between queueing one of the two chunks and saving the cursor, or    *)
(* the session sent more than MaxVersions messages from the first chunk to   *)
(* the second, as when its last file goes and an older one is found again.   *)
SentOnce ==
    \A c, d \in queued \ torn :
        c # d /\ c.source = d.source /\ c.sid = d.sid =>
            /\ c.sequence # d.sequence
            /\ c.sequence < d.sequence /\ ToSet(c.msgs) \cap ToSet(d.msgs) # {} =>
                    Cardinality(SentSince(c, d.sequence - 1)) > MaxVersions
=============================================================================
