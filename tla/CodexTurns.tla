------------------------------ MODULE CodexTurns ------------------------------
(***************************************************************************)
(* Token use of Codex turns: turn.CollectCodex of src/pkg/turn, and the     *)
(* part of the collection cycle of src/pkg/daemon that queues its events     *)
(* and then saves its cursors.                                              *)
(*                                                                         *)
(* Codex appends records to one rollout file per session while the daemon    *)
(* reads it.  A token_count record carries the total of the session so far,  *)
(* which goes on from the total of the parent in a forked session, whose     *)
(* file starts with a copy of the parent's records.  The daemon may die at   *)
(* any point of its cycle and then starts again from the cursors it saved.   *)
(*                                                                         *)
(* A file is the sequence of its complete lines, so that an offset is a      *)
(* number of records; the four token counters are one.  A session's start is *)
(* measured in collections begun before it.                                 *)
(***************************************************************************)
EXTENDS Integers, Sequences, SequencesExt

CONSTANTS
    Sessions,
    ParentOf,       \* the session each one is forked from, or NoSession
    LegacyOf,       \* the key an older agent filed each under, or NoSession
    NoSession, NoCursor,
    SeedTail,       \* records that codexSeedTailBytes hold
    MaxTurns,       \* bound on the turns
    MaxTotal,       \* bound on a session's total
    Worlds          \* what may happen, a sequence of
                    \*   recordings: records that may be in the files at first
                    \*   oldReads:   how many of them an older agent may have read
                    \*   forks:      the sessions that may be forked
                    \*   piecewise:  whether a parent's records are copied one by one
                    \*   optional:   of "repeat" and "unnamed", records Codex may write
                    \*   records, rounds, moves: bounds on the records written,
                    \*               the collections and the files moved

Never == -1

(* A turn is named by the session that began it. *)
NoTurn == <<NoSession, 0>>
TurnsOf(s) == {s} \X (1 .. MaxTurns)
AllTurns == UNION {TurnsOf(s) : s \in Sessions}

(* The key of an older agent, and the keys of the store. *)
OldKey(s) == IF LegacyOf[s] = NoSession THEN s ELSE LegacyOf[s]
Keys == Sessions \cup {OldKey(s) : s \in Sessions}

ASSUME CodexAssumption ==
    /\ ParentOf \in [Sessions -> (Sessions \cup {NoSession})]
    /\ DOMAIN LegacyOf = Sessions
    /\ \A n \in DOMAIN Worlds :
        /\ Worlds[n].forks \subseteq Sessions /\ Worlds[n].oldReads \subseteq Nat
        /\ Worlds[n].piecewise \in BOOLEAN
        /\ {Worlds[n].records, Worlds[n].rounds, Worlds[n].moves} \subseteq Nat
    /\ NoSession \notin Sessions
    /\ \A s \in Sessions : ParentOf[s] # s
    /\ SeedTail \in Nat \ {0} /\ {MaxTurns, MaxTotal} \subseteq Nat

VARIABLES
    world,      \* which of Worlds this is
    files,      \* session -> records of its rollout file
    copying,    \* session -> records of its parent not copied yet
    path,       \* session -> path of its file
    started,    \* session -> time of its first record
    written,    \* records Codex wrote, copies aside
    turns,      \* turns Codex started
    moves,
    store,      \* the saved cursor store
    round,      \* collections begun; also observedAt
    phase,      \* where the collection cycle is
    todo,       \* sessions found and not looked at yet
    found,      \* sessions of this collection
    next,       \* the cursor store the collection prepares
    events,     \* the usage it found
    queued,     \* events ever queued
    split       \* history: forks read before their prefix was complete

codexVars == <<world, files, copying, path, started, written, turns, moves>>
cycleVars == <<phase, todo, found, next, events>>
vars == <<codexVars, store, round, cycleVars, queued, split>>

World == Worlds[world]

-----------------------------------------------------------------------------
(* Records and cursors *)
StartRecord(t) == [kind |-> "start", turn |-> t, total |-> 0]
TokensRecord(n) == [kind |-> "tokens", turn |-> NoTurn, total |-> n]
DoneRecord(t) == [kind |-> "done", turn |-> t, total |-> 0]

NoActive == [turn |-> NoTurn, baseline |-> 0, latest |-> 0,
             inherited |-> FALSE, reset |-> FALSE]

NewCursor(p) == [path |-> p, offset |-> 0, last |-> 0, awaiting |-> FALSE, active |-> NoActive]

IsActive(c) == c.active.turn # NoTurn

(* startCodexTurn *)
Start(c, t, inherited) ==
    IF c.active.turn = t THEN c
    ELSE [c EXCEPT !.active = [turn |-> t, baseline |-> c.last, latest |-> c.last,
                               inherited |-> t \in inherited, reset |-> FALSE]]

(* Faulty variant: a decrease of the counters is not noticed. *)
UpdateTotalsBlind(c, total) ==
    IF c.awaiting
    THEN [c EXCEPT !.last = total, !.awaiting = FALSE,
                   !.active = IF IsActive(c) THEN [@ EXCEPT !.baseline = total, !.latest = total] ELSE @]
    ELSE [c EXCEPT !.last = total,
                   !.active = IF IsActive(c) THEN [@ EXCEPT !.latest = total] ELSE @]

(* updateCodexTokenTotals *)
UpdateTotals(c, total) ==
    IF c.awaiting
    THEN [c EXCEPT !.last = total, !.awaiting = FALSE,
                   !.active = IF IsActive(c) THEN [@ EXCEPT !.baseline = total, !.latest = total] ELSE @]
    ELSE [c EXCEPT !.last = total,
                   !.active = IF IsActive(c)
                              THEN [@ EXCEPT !.latest = total, !.reset = c.active.reset \/ total < c.last] ELSE @]

(* Faulty variant: only a record that names the turn ends it. *)
EndsByName(c, t) == IsActive(c) /\ t = c.active.turn

(* completeCodexTurn: the record ends the active turn, named or not. *)
Ends(c, t) == IsActive(c) /\ t \in {NoTurn, c.active.turn}

(* Faulty variant: a turn in which nothing was used is reported. *)
ReportableAlways(a) == ~a.inherited /\ ~a.reset

(* ... and what it reports of it. *)
Reportable(a) == ~a.inherited /\ ~a.reset /\ a.latest > a.baseline

Usage(s, a) == [session |-> s, turn |-> a.turn, tokens |-> a.latest - a.baseline]

(* CodexSession: whose file it is, and the turns in it that are not its own *)
Session(s, inherited) == [id |-> s, inherited |-> inherited]

(* processCodexRecord on one more line of the file *)
Process(session, st, r) ==
    LET c == [st.cursor EXCEPT !.offset = @ + 1]
    IN  CASE r.kind = "start" -> [st EXCEPT !.cursor = Start(c, r.turn, session.inherited)]
          [] r.kind = "tokens" -> [st EXCEPT !.cursor = UpdateTotals(c, r.total)]
          [] r.kind = "done" /\ ~Ends(c, r.turn) -> [st EXCEPT !.cursor = c]
          [] r.kind = "done" /\ Ends(c, r.turn) ->
                [cursor |-> [c EXCEPT !.active = NoActive],
                 events |-> IF Reportable(c.active) THEN st.events \cup {Usage(session.id, c.active)}
                            ELSE st.events]

(* scanCodex from the offset of cursor c *)
Scan(session, c, file) ==
    FoldLeft(LAMBDA st, r : Process(session, st, r),
             [cursor |-> c, events |-> {}],
             SubSeq(file, c.offset + 1, Len(file)))

(* Faulty variant: the first total after a seed is not taken as a baseline. *)
SeedWithoutBaseline(p, file) ==
    LET offset == IF Len(file) > SeedTail THEN Len(file) - SeedTail ELSE 0
    IN  Scan(Session(NoSession, {}), [NewCursor(p) EXCEPT !.offset = offset], file).cursor

(* seedCodexCursor: what is there is skipped, and its last total is where the *)
(* turn in progress starts.                                                   *)
Seed(p, file) ==
    LET offset == IF Len(file) > SeedTail THEN Len(file) - SeedTail ELSE 0
        c == Scan(Session(NoSession, {}),
                  [NewCursor(p) EXCEPT !.offset = offset, !.awaiting = TRUE], file).cursor
    IN  IF IsActive(c) THEN [c EXCEPT !.active.baseline = c.last, !.active.latest = c.last] ELSE c

(* completedCodexTurnIDHashes: turns ended in the file, by name or not. *)
LastStart(file, i) ==
    LET marks == {k \in 1 .. i - 1 : file[k].kind # "tokens"}
        m == IF marks = {} THEN 0 ELSE CHOOSE k \in marks : \A j \in marks : j <= k
    IN  IF m = 0 \/ file[m].kind = "done" THEN NoTurn ELSE file[m].turn

Completed(file) ==
    LET ended(i) == IF file[i].turn = NoTurn THEN LastStart(file, i) ELSE file[i].turn
    IN  {ended(i) : i \in {k \in 1 .. Len(file) :
                              /\ file[k].kind = "done" /\ ended(k) # NoTurn
                              /\ LastStart(file, k) \in {NoTurn, ended(k)}}}

-----------------------------------------------------------------------------
(* What Codex may have recorded *)
Record ==
    [kind : {"start", "tokens", "done"}, turn : AllTurns \cup {NoTurn}, total : 0 .. MaxTotal]

(* The turn that a record is part of *)
TurnAt(file, i) == IF file[i].kind = "start" THEN file[i].turn ELSE LastStart(file, i)

EndsAt(file, t, i) ==
    /\ file[i].kind = "done" /\ file[i].turn \in {t, NoTurn}
    /\ LastStart(file, i) = t

(* The records of a turn are together: it is started once, or once more as   *)
(* long as it is the one in progress, and only that one is ended.            *)
WellFormed(file) ==
    \A i \in DOMAIN file :
        /\ file[i].kind = "start" =>
              /\ file[i].turn # NoTurn
              /\ \/ LastStart(file, i) = file[i].turn
                 \/ \A j \in 1 .. i - 1 : file[j].turn # file[i].turn
        /\ file[i].kind = "tokens" => file[i].turn = NoTurn
        /\ file[i].kind = "done" =>
              LastStart(file, i) # NoTurn /\ file[i].turn \in {NoTurn, LastStart(file, i)}

Agree(f, g, n) == n <= Len(f) /\ n <= Len(g) /\ \A i \in 1 .. n : f[i] = g[i]

(* What is of another session is a copy: the file of a fork begins like that *)
(* of its parent, which was there before it and has nothing of the fork.     *)
Recorded(f) ==
    \A s \in Sessions :
        /\ WellFormed(f[s])
        /\ \A i \in DOMAIN f[s] : TurnAt(f[s], i) # NoTurn => Agree(f[s], f[TurnAt(f[s], i)[1]], i)
        /\ LastStart(f[s], Len(f[s]) + 1)[1] \in {s, NoSession}
        /\ ParentOf[s] = NoSession => \A i \in DOMAIN f[s] : TurnAt(f[s], i)[1] \in {s, NoSession}
        /\ ParentOf[s] # NoSession =>
              /\ f[s] # << >> => f[ParentOf[s]] # << >>
              /\ \A i \in DOMAIN f[s], t \in AllTurns \ TurnsOf(s) :
                    EndsAt(f[s], t, i) => Agree(f[s], f[ParentOf[s]], i)
              /\ \A i \in DOMAIN f[ParentOf[s]] : f[ParentOf[s]][i].turn[1] # s

(* An older agent filed a fork under the key of the session it is forked from. *)
SharedKeys(f) ==
    \A s \in Sessions : \A i \in DOMAIN f[s] :
        TurnAt(f[s], i) # NoTurn => OldKey(TurnAt(f[s], i)[1]) = OldKey(s)

ASSUME RecordingsAssumption ==
    \A n \in DOMAIN Worlds : \A recorded \in Worlds[n].recordings :
        /\ recorded \in [Sessions -> Seq(Record)] /\ Recorded(recorded)
        /\ Worlds[n].oldReads # {} => SharedKeys(recorded)

-----------------------------------------------------------------------------
PathOf(s) == <<s, path[s]>>

NoStore == [initAt |-> Never, cutoverAt |-> Never, seeded |-> {},
            cursors |-> [k \in Keys |-> NoCursor]]

(* What an older agent leaves, which read n records of the file of s, and    *)
(* filed and reported them under OldKey(s).                                  *)
OldAgent(s, n) ==
    LET read == Scan(Session(OldKey(s), {}), NewCursor(<<s, 0>>), SubSeq(files[s], 1, n))
    IN  /\ store = [NoStore EXCEPT !.initAt = 0, !.cursors[OldKey(s)] = read.cursor]
        /\ queued = read.events

(* It did not see a fork before its parent's records were copied. *)
OldOffsets(s) ==
    {n \in World.oldReads \cap (1 .. Len(files[s])) :
        \A i \in n + 1 .. Len(files[s]) : TurnAt(files[s], i)[1] \in {s, NoSession}}

Init ==
    /\ world \in DOMAIN Worlds
    /\ files \in World.recordings
    /\ copying = [s \in Sessions |-> <<>>]
    /\ path = [s \in Sessions |-> 0]
    /\ started = [s \in Sessions |-> IF files[s] = <<>> THEN Never ELSE 0]
    /\ written = 0 /\ moves = 0
    /\ turns = Max({0} \cup UNION {{r.turn[2] : r \in Range(files[s])} : s \in Sessions})
    /\ \/ store = NoStore /\ queued = {}
       \/ \E s \in Sessions : \E n \in OldOffsets(s) : OldAgent(s, n)
    /\ round = 0
    /\ phase = "idle" /\ todo = {} /\ found = {} /\ next = NoStore /\ events = {}
    /\ split = {}

-----------------------------------------------------------------------------
(* Codex *)
Exists(s) == started[s] # Never

(* Whether it is now that Codex does something.  While events are queued and *)
(* cursors saved nothing looks at the files: what Codex does then is as good  *)
(* as done next.                                                             *)
Observable == phase \in {"idle", "scan"}

(* The turn in progress in a file. *)
Current(file) == LastStart(file, Len(file) + 1)

Write(s, r) ==
    /\ Observable
    /\ written < World.records /\ written' = written + 1
    /\ copying[s] = <<>>
    /\ Exists(s) \/ ParentOf[s] = NoSession
    /\ files' = [files EXCEPT ![s] = Append(@, r)]
    /\ started' = [started EXCEPT ![s] = IF @ = Never THEN round ELSE @]
    /\ UNCHANGED <<world, copying, path, moves, store, round, cycleVars, queued, split>>

(* task_started; the turn before may have been cut off. *)
BeginTurn(s) ==
    /\ turns < MaxTurns /\ turns' = turns + 1
    /\ Write(s, StartRecord(<<s, turns + 1>>))

(* turn_context *)
RepeatTurn(s) ==
    /\ "repeat" \in World.optional /\ Current(files[s]) # NoTurn
    /\ Write(s, StartRecord(Current(files[s])))
    /\ UNCHANGED turns

(* token_count, after a turn too, and with totals that start again *)
CountTokens(s, n) ==
    /\ Write(s, TokensRecord(n))
    /\ UNCHANGED turns

(* task_complete or turn_aborted, which may not name the turn *)
EndTurn(s, t) ==
    /\ Current(files[s]) # NoTurn
    /\ t = Current(files[s]) \/ (t = NoTurn /\ "unnamed" \in World.optional)
    /\ Write(s, DoneRecord(t))
    /\ UNCHANGED turns

(* A session is forked between two turns of its parent. *)
Fork(s) ==
    LET p == ParentOf[s]
    IN  /\ Observable
        /\ s \in World.forks /\ p # NoSession /\ ~Exists(s)
        /\ Exists(p) /\ copying[p] = <<>> /\ Current(files[p]) = NoTurn
        /\ \/ files' = [files EXCEPT ![s] = files[p]] /\ UNCHANGED copying
           \/ World.piecewise /\ copying' = [copying EXCEPT ![s] = files[p]] /\ UNCHANGED files
        /\ started' = [started EXCEPT ![s] = round]
        /\ UNCHANGED <<world, path, written, turns, moves, store, round, cycleVars, queued, split>>

Copy(s) ==
    /\ Observable
    /\ copying[s] # <<>>
    /\ files' = [files EXCEPT ![s] = Append(@, Head(copying[s]))]
    /\ copying' = [copying EXCEPT ![s] = Tail(@)]
    /\ UNCHANGED <<world, path, started, written, turns, moves, store, round, cycleVars, queued, split>>

(* The file goes to the archive, or comes back. *)
Move(s) ==
    /\ Observable
    /\ Exists(s) /\ moves < World.moves /\ moves' = moves + 1
    /\ path' = [path EXCEPT ![s] = 1 - @]
    /\ UNCHANGED <<world, files, copying, started, written, turns, store, round, cycleVars, queued, split>>

-----------------------------------------------------------------------------
(* The collection cycle *)
FirstCollection == store.initAt = Never

StartCollection(S) ==
    /\ phase = "idle" /\ round < World.rounds
    /\ round' = round + 1
    /\ next' = [store EXCEPT !.cutoverAt = IF @ = Never THEN round' ELSE @]
    /\ found' = S /\ todo' = S /\ events' = {}
    /\ phase' = "scan"
    /\ UNCHANGED <<codexVars, store, queued, split>>

Seeded(s) == [cursor |-> Seed(PathOf(s), files[s]), events |-> {}, seeded |-> {s}]

Scanned(s, inherited, c) ==
    LET st == Scan(Session(s, inherited), c, files[s])
    IN  [cursor |-> st.cursor, events |-> st.events, seeded |-> {}]

(* A session whose cursor is c *)
Continued(s, c) ==
    IF c.path # PathOf(s) \/ Len(files[s]) < c.offset THEN Seeded(s) ELSE Scanned(s, {}, c)

(* codexRolloutStartedAtOrAfter *)
StartedAtOrAfter(s, time) == time # Never /\ started[s] >= time

(* inheritedCodexTurnIDHashes, of a session whose parent was found *)
Inherited(s) == IF ParentOf[s] = NoSession THEN {} ELSE Completed(files[ParentOf[s]])

(* Faulty variant: a fork whose parent is not found is read like any other. *)
DiscoveredWithoutParent(s) ==
    IF ~StartedAtOrAfter(s, store.initAt) THEN Seeded(s)
    ELSE Scanned(s, IF ParentOf[s] \in found THEN Inherited(s) ELSE {}, NewCursor(PathOf(s)))

(* A session seen for the first time *)
Discovered(s) ==
    IF StartedAtOrAfter(s, store.initAt) /\ ParentOf[s] \in found \cup {NoSession}
    THEN Scanned(s, Inherited(s), NewCursor(PathOf(s)))
    ELSE Seeded(s)

(* migrateCodexIdentityCursor *)
Migrated(s) ==
    LET legacy == next.cursors[LegacyOf[s]]
    IN  IF legacy # NoCursor /\ legacy.path = PathOf(s) /\ legacy.offset <= Len(files[s])
        THEN Continued(s, legacy)
        ELSE IF StartedAtOrAfter(s, next.cutoverAt) THEN Discovered(s) ELSE Seeded(s)

Collected(s) ==
    IF FirstCollection THEN Seeded(s)
    ELSE IF next.cursors[s] # NoCursor THEN Continued(s, next.cursors[s])
    ELSE IF LegacyOf[s] # NoSession THEN Migrated(s) ELSE Discovered(s)

Collect(s) ==
    LET got == Collected(s)
        shared(k) == /\ k = LegacyOf[s]
                     /\ next.cursors[k] # NoCursor /\ next.cursors[k].path = PathOf(s)
    IN  /\ phase = "scan" /\ s \in todo
        /\ todo' = todo \ {s}
        /\ next' = [next EXCEPT !.cursors = [k \in Keys |->
                                    IF k = s \/ shared(k) THEN got.cursor ELSE @[k]],
                                !.seeded = @ \cup got.seeded]
        /\ events' = events \cup got.events
        /\ split' = IF copying[s] # <<>> THEN split \cup {s} ELSE split
        /\ UNCHANGED <<codexVars, store, round, phase, found, queued>>

Collecting == phase = "scan" /\ todo = {}

Initialised == [next EXCEPT !.initAt = IF FirstCollection THEN round ELSE @]

(* Faulty variant: the cursors are saved before the events are queued. *)
EndCollectionSaving ==
    /\ Collecting
    /\ next' = Initialised /\ store' = Initialised
    /\ phase' = "append" /\ found' = {}
    /\ UNCHANGED <<codexVars, round, todo, events, queued, split>>

EndCollection ==
    /\ Collecting
    /\ next' = Initialised
    /\ phase' = "append" /\ found' = {}
    /\ UNCHANGED <<codexVars, store, round, todo, events, queued, split>>

AppendEvents ==
    /\ phase = "append"
    /\ queued' = queued \cup events
    /\ phase' = "commit"
    /\ UNCHANGED <<codexVars, store, round, todo, found, next, events, split>>

CommitCursors ==
    /\ phase = "commit"
    /\ store' = next
    /\ phase' = "idle" /\ todo' = {} /\ found' = {} /\ next' = NoStore /\ events' = {}
    /\ UNCHANGED <<codexVars, round, queued, split>>

(* An error, or the death of the daemon: what was not saved is gone. *)
Abandon ==
    /\ phase # "idle"
    /\ phase' = "idle" /\ todo' = {} /\ found' = {} /\ next' = NoStore /\ events' = {}
    /\ UNCHANGED <<codexVars, store, round, queued, split>>

Next ==
    \/ \E s \in Sessions :
        \/ BeginTurn(s) \/ RepeatTurn(s)
        \/ \E n \in 1 .. MaxTotal : CountTokens(s, n)
        \/ \E t \in AllTurns \cup {NoTurn} : EndTurn(s, t)
        \/ Fork(s) \/ Copy(s) \/ Move(s)
        \/ Collect(s)
    \/ \E S \in SUBSET {s \in Sessions : Exists(s)} : StartCollection(S)
    \/ EndCollection \/ AppendEvents \/ CommitCursors \/ Abandon

Spec == Init /\ [][Next]_vars

-----------------------------------------------------------------------------
(* The use of a turn, read from the whole file of its session *)
Starts(file, t, i) == file[i].kind = "start" /\ file[i].turn = t

FirstStart(file, t) ==
    CHOOSE i \in 1 .. Len(file) :
        Starts(file, t, i) /\ \A j \in 1 .. i - 1 : ~Starts(file, t, j)

TotalBefore(file, i) ==
    LET counts == {k \in 1 .. i - 1 : file[k].kind = "tokens"}
    IN  IF counts = {} THEN 0 ELSE file[Max(counts)].total

CountsOf(file, t, end) == {i \in FirstStart(file, t) .. end : file[i].kind = "tokens"}

Growth(file, i) == file[i].total - TotalBefore(file, i)

ResetIn(file, t, end) == \E i \in CountsOf(file, t, end) : Growth(file, i) < 0

Used(file, t, end) ==
    MapThenSumSet(LAMBDA i : Growth(file, i), {i \in CountsOf(file, t, end) : Growth(file, i) > 0})

-----------------------------------------------------------------------------
Cursor ==
    [path : Sessions \X {0, 1}, offset : Nat, last : 0 .. MaxTotal, awaiting : BOOLEAN,
     active : [turn : AllTurns \cup {NoTurn}, baseline : 0 .. MaxTotal, latest : 0 .. MaxTotal,
               inherited : BOOLEAN, reset : BOOLEAN]]

ASSUME NoCursorAssumption == NoCursor \notin Cursor

Store ==
    [initAt : Never .. World.rounds, cutoverAt : Never .. World.rounds, seeded : SUBSET Sessions,
     cursors : [Keys -> Cursor \cup {NoCursor}]]

UsageEvent == [session : Keys, turn : AllTurns, tokens : 1 .. MaxTotal]

(* Every variable has its type; what is reported is never zero or negative. *)
TypeOK ==
    /\ world \in DOMAIN Worlds
    /\ files \in [Sessions -> Seq(Record)] /\ copying \in [Sessions -> Seq(Record)]
    /\ path \in [Sessions -> {0, 1}] /\ started \in [Sessions -> Never .. World.rounds]
    /\ written \in 0 .. World.records /\ turns \in 0 .. MaxTurns /\ moves \in 0 .. World.moves
    /\ round \in 0 .. World.rounds
    /\ phase \in {"idle", "scan", "append", "commit"}
    /\ todo \subseteq found /\ found \subseteq Sessions
    /\ store \in Store /\ next \in Store
    /\ events \subseteq UsageEvent /\ queued \subseteq UsageEvent

(* stableEventID: whatever the order of collections, forks, archiving and    *)
(* crashes, all events for a turn are one event, of the session that ran it: *)
(* a replay has the same ID and the same content, and a fork does not report *)
(* its parent's turns as its own, unless it was read before its prefix was   *)
(* complete.                                                                 *)
EachTurnOnce ==
    LET whole == {e \in queued : e.session \notin split}
    IN  /\ \A e \in whole : e.session \in {e.turn[1], OldKey(e.turn[1])}
        /\ \A e, f \in whole : e.turn = f.turn => e = f

(* token-accounting-guardrails.md, on forks: no event for inherited turns,   *)
(* also if collection stops in the middle of the copied prefix.              *)
NoInheritedUsage ==
    \A e \in queued : e.session \in {e.turn[1], OldKey(e.turn[1])}

(* completeCodexTurn: the tokens reported are those the turn used, however   *)
(* many collections it took to read them and however many of them were lost, *)
(* and a turn in which the counters went back is not reported; after the     *)
(* cursor had to be seeded in the middle, they are not more than it used.    *)
UseIsExact ==
    \A e \in queued :
        LET s == e.turn[1]
            file == files[s]
        IN  \E end \in 1 .. Len(file) :
                /\ EndsAt(file, e.turn, end)
                /\ e.tokens <= Used(file, e.turn, end)
                /\ {s, e.session} \cap (store.seeded \cup next.seeded) = {} =>
                      /\ e.tokens = Used(file, e.turn, end)
                      /\ ~ResetIn(file, e.turn, end)

(* collectAndQueue saves the cursors after it queued the events: a turn that *)
(* a saved cursor is past, and that was neither there before the agent nor   *)
(* behind a seeded cursor, has been queued.                                  *)
NothingSkipped ==
    \A s \in Sessions \ store.seeded :
        store.cursors[s] # NoCursor /\ store.cursors[s].path[1] = s =>
            \A t \in TurnsOf(s), end \in 1 .. store.cursors[s].offset :
                /\ EndsAt(files[s], t, end)
                /\ ~ResetIn(files[s], t, end) /\ Used(files[s], t, end) > 0
                => \E e \in queued : e.turn = t
=============================================================================
