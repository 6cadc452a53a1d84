----------------------------- MODULE ClaudeUsage -----------------------------
(***************************************************************************)
(* The Claude Code adapter of the daemon: it reads all transcripts, decides  *)
(* which session owns what several of them contain, finds the turns that are *)
(* new and the use that was added, queues both, and then saves four stores   *)
(* one after the other.  The daemon may die, or a save fail, anywhere.       *)
(*                                                                         *)
(* Two transcripts are enough for what is hard: the second begins as a copy  *)
(* of the first, either as a fork (another session) or when the session is   *)
(* resumed (the same one).  Transcripts are read one after the other while   *)
(* Claude Code writes them.                                                 *)
(***************************************************************************)
EXTENDS ClaudeTranscripts, UsageDelta, FiniteSetsExt, TLC

CONSTANTS
    Sessions,
    Original, Copy,     \* the two transcripts, in the order of their paths
    Layouts,            \* transcript -> session: forked or resumed
    HashRank,           \* session -> its place in the order of the hashes
    Answers,            \* the answers of the model that may be written
    OldAgents,          \* transcripts an older agent may have accounted for
    RunningAgents,      \* transcripts this agent may have seen first
    MaxRecords,         \* bound on the records written
    MaxRounds           \* bound on the collections

Transcripts == {Original, Copy}

ASSUME ClaudeAssumption ==
    /\ Layouts \subseteq [Transcripts -> Sessions]
    /\ DOMAIN HashRank = Sessions
    /\ MaxRecords \in Nat /\ MaxRounds \in Nat

VARIABLES
    layout,         \* transcript -> its session
    transcripts,    \* transcript -> its records
    copied,         \* records the second has of the first
    deleted,        \* transcripts Claude Code removed
    clock,          \* the time of the last record or collection
    written,        \* records written, copies aside
    turnStore,      \* claude-turn-cursors-v1.json
    baselines,      \* the Claude group of session-baselines.json
    accounting,     \* claude-fork-accounting-v2.json
    cursors,        \* usage-cursors.json
    rounds,         \* collections begun
    phase,          \* where the cycle is
    observedAt,     \* when the collection began
    read,           \* transcript -> what the collection read of it
    next,           \* the stores it is going to save
    queued,         \* turn.usage events ever queued
    charged,        \* the sum of the usage.delta events ever queued
    collected,      \* history: invocations of collections that were queued
    waived,         \* history: those of them that were there before
    torn,           \* history: a collection was queued and not all saved
    early           \* history: a fork was read past what was read of its origin

claudeVars == <<layout, transcripts, copied, deleted, written>>
storeVars == <<turnStore, baselines, accounting, cursors>>
queueVars == <<queued, charged>>
historyVars == <<collected, waived, torn, early>>
cycleVars == <<rounds, phase, observedAt, read, next>>
vars == <<claudeVars, clock, storeVars, cycleVars, queueVars, historyVars>>

-----------------------------------------------------------------------------
(* The stores *)
NoTurnCursor == [last |-> Never, seen |-> {}]
NoTurnStore == [initAt |-> Never, cursors |-> << >>]

(* The entries of the buckets, and those of the sessions themselves, which   *)
(* hold what was sent of their transcripts and tool calls.                  *)
NoBaselines ==
    [init |-> FALSE, sessions |-> {}, buckets |-> [s \in Sessions |-> NoBaseline]]

NoOffset == [rest |-> 0, cache |-> 0]
NoAccounting ==
    [version |-> 0, initAt |-> Never, ranks |-> << >>, active |-> {},
     offsets |-> [s \in Sessions |-> NoOffset]]

NoCursors == [s \in Sessions |-> NoUsageCursor]

NoNext ==
    [turnStore |-> NoTurnStore, baselines |-> NoBaselines, accounting |-> NoAccounting,
     cursors |-> NoCursors]

-----------------------------------------------------------------------------
(* What a collection has read: the sessions, and of each its turns and       *)
(* invocations.                                                             *)
Unread == [f \in Transcripts |-> Nothing]

Present == {layout[f] : f \in {g \in Transcripts : read[g] # Nothing}}

Session(s) == Merge({read[f] : f \in {g \in Transcripts : layout[g] = s}})

UseOf(invocations) ==
    [rest |-> MapThenSumSet(LAMBDA r : r.rest, invocations),
     cache |-> MapThenSumSet(LAMBDA r : r.cache, invocations)]

TokensOf(invocations) == MapThenSumSet(Tokens, invocations)

(* assignClaudeSessionRanks *)
Ranks ==
    LET new == Present \ DOMAIN accounting.ranks
        base == Cardinality(DOMAIN accounting.ranks)
    IN  [s \in DOMAIN accounting.ranks \cup new |->
            IF s \in new THEN base + Cardinality({t \in new : HashRank[t] <= HashRank[s]})
            ELSE accounting.ranks[s]]

(* resolveClaudeAccountingOwners: what one session alone has, has no owner. *)
InheritedBy(s, holders) == \E t \in holders : t # s /\ Ranks[t] < Ranks[s]

(* Faulty variant: the turns of every session are its own. *)
IsInheritedNever(s, turn) == FALSE

IsInherited(s, turn) ==
    InheritedBy(s, {t \in Present : turn.id \in {u.id : u \in Session(t).turns}})

InheritedInvocations(s) ==
    {i \in Session(s).invocations : InheritedBy(s, {t \in Present : i \in Session(t).invocations})}

(* Faulty variant: what is inherited now is added to what was stored. *)
OffsetsAdded ==
    [s \in Sessions |->
        IF s \notin Present THEN NoOffset
        ELSE LET now == UseOf(InheritedInvocations(s))
             IN  [rest |-> accounting.offsets[s].rest + now.rest,
                  cache |-> accounting.offsets[s].cache + now.cache]]

(* nextClaudeInheritedOffsets: what was inherited once stays inherited, also *)
(* when the session it came from is gone.                                   *)
Offsets ==
    [s \in Sessions |->
        IF s \notin Present THEN NoOffset
        ELSE LET now == UseOf(InheritedInvocations(s))
             IN  [rest |-> Larger(accounting.offsets[s].rest, now.rest),
                  cache |-> Larger(accounting.offsets[s].cache, now.cache)]]

(* Faulty variant: a fork is charged for what it inherited. *)
OwnUseWithInherited(s) ==
    LET use == UseOf(Session(s).invocations)
    IN  CountersOf(use.rest, use.cache)

(* applyClaudeInheritedOffsets *)
OwnUse(s) ==
    LET use == UseOf(Session(s).invocations)
    IN  CountersOf(Larger(0, use.rest - Offsets[s].rest), Larger(0, use.cache - Offsets[s].cache))

OwnTurns(s) == {t \in Session(s).turns : ~IsInherited(s, t)}

(* Faulty variant: inherited turns count too. *)
FirstTurnOfAny(s) ==
    LET starts == {t.started : t \in Session(s).turns}
    IN  IF starts = {} THEN Never ELSE Min(starts)

(* firstClaudeAccountedTurnAt *)
FirstTurnAt(s) ==
    LET starts == {t.started : t \in OwnTurns(s)}
    IN  IF starts = {} THEN Never ELSE Min(starts)

(* claudeAccountingNeedsCutover *)
Schema == 2

NeedsCutover ==
    /\ accounting.version # Schema
    /\ baselines.sessions # {} \/ \E s \in Sessions : baselines.buckets[s] # NoBaseline

(* prepareClaudeForkAccounting *)
SeedOnly(s) ==
    \/ NeedsCutover
    \/ /\ s \notin accounting.active
       /\ accounting.initAt # Never
       /\ FirstTurnAt(s) # Never /\ FirstTurnAt(s) < accounting.initAt

NextAccounting ==
    [version |-> Schema,
     initAt |-> IF accounting.initAt = Never THEN observedAt ELSE accounting.initAt,
     ranks |-> Ranks, active |-> Present, offsets |-> Offsets]

-----------------------------------------------------------------------------
(* CollectClaude *)
FirstCollection == turnStore.initAt = Never

TurnCursor(s) == IF s \in DOMAIN turnStore.cursors THEN turnStore.cursors[s] ELSE NoTurnCursor

Emits(s) ==
    /\ ~SeedOnly(s) /\ ~FirstCollection
    /\ s \in DOMAIN turnStore.cursors \/ FirstTurnAt(s) >= turnStore.initAt

(* claudeTurnAfterCursor; turns are taken in the order of their ends, so that *)
(* none of them puts another one behind the cursor.                          *)
NewTurns(s) ==
    {t \in Session(s).turns :
        \/ t.ended > TurnCursor(s).last
        \/ t.ended = TurnCursor(s).last /\ t.id \notin TurnCursor(s).seen}

(* advanceClaudeCursor, past all of them *)
NextTurnCursor(s) ==
    LET cursor == TurnCursor(s)
        last == Max({cursor.last} \cup {t.ended : t \in NewTurns(s)})
        ids == {t.id : t \in {u \in NewTurns(s) : u.ended = last}}
    IN  [last |-> last, seen |-> IF last = cursor.last THEN cursor.seen \cup ids ELSE ids]

NextTurnStore ==
    [initAt |-> IF FirstCollection THEN observedAt ELSE turnStore.initAt,
     cursors |-> [s \in DOMAIN turnStore.cursors \cup Present |->
                    IF s \in Present THEN NextTurnCursor(s) ELSE turnStore.cursors[s]]]

TurnEvents ==
    UNION {{[session |-> s, turn |-> t.id, status |-> t.status, tokens |-> t.tokens] :
                t \in {u \in NewTurns(s) : ~IsInherited(s, u)}} :
           s \in {p \in Present : Emits(p)}}

-----------------------------------------------------------------------------
(* collectClaudeEventsFromSessions and BuildUsageDeltaEvents: one summary for *)
(* every bucket in which something was used, and an entry for every session. *)
Summarised == {s \in Present : OwnUse(s).total > 0}

NextBaselines ==
    [init |-> TRUE, sessions |-> baselines.sessions \cup Present,
     buckets |-> [s \in Sessions |->
        IF s \in Summarised THEN NextBaseline(baselines.buckets[s], OwnUse(s), SeedOnly(s))
        ELSE baselines.buckets[s]]]

(* Nothing counts in the first collection. *)
Counting == IF baselines.init THEN Summarised ELSE {}

Deltas ==
    [s \in Sessions |->
        IF s \in Counting
        THEN Charge(cursors[s], baselines.buckets[s], OwnUse(s), SeedOnly(s)) ELSE Zero]

NextCursors ==
    [s \in Sessions |->
        IF s \in Counting
        THEN NextUsageCursor(cursors[s], baselines.buckets[s], OwnUse(s), SeedOnly(s))
        ELSE cursors[s]]

-----------------------------------------------------------------------------
(* What was collected of the original before, as it then was: by an older     *)
(* agent, which had other baselines and no fork accounting, or by this one,  *)
(* in its first collection.                                                 *)
UseBefore(s, seen) ==
    LET use == UseOf(Parse(seen[Original]).invocations)
    IN  IF layout[Original] = s THEN CountersOf(use.rest, use.cache) ELSE Zero

TurnCursorBefore(seen) ==
    LET turns == Parse(seen[Original]).turns
        last == Max({Never} \cup {t.ended : t \in turns})
    IN  [last |-> last, seen |-> {t.id : t \in {u \in turns : u.ended = last}}]

Before(seen) ==
    /\ transcripts = seen /\ clock = Len(seen[Original]) + 1
    /\ turnStore =
        [initAt |-> clock,
         cursors |-> IF seen[Original] = << >> THEN << >>
                     ELSE layout[Original] :> TurnCursorBefore(seen)]
    /\ collected = Parse(seen[Original]).invocations /\ waived = collected

BaselinesBefore(seen, current) ==
    [init |-> TRUE, sessions |-> DOMAIN turnStore.cursors,
     buckets |-> [s \in Sessions |->
        IF UseBefore(s, seen).total = 0 THEN NoBaseline
        ELSE [Seeded(UseBefore(s, seen)) EXCEPT !.current = current]]]

OldAgent(seen) ==
    Before(seen) /\ baselines = BaselinesBefore(seen, FALSE) /\ accounting = NoAccounting

RunningAgent(seen) ==
    /\ Before(seen) /\ baselines = BaselinesBefore(seen, TRUE)
    /\ LET present == DOMAIN turnStore.cursors
       IN  accounting = [NoAccounting EXCEPT !.version = Schema, !.initAt = clock,
                            !.ranks = [s \in present |-> 1], !.active = present]

NewAgent ==
    /\ transcripts = [f \in Transcripts |-> << >>] /\ clock = 0
    /\ turnStore = NoTurnStore /\ baselines = NoBaselines /\ accounting = NoAccounting
    /\ collected = {} /\ waived = {}

Init ==
    /\ layout \in Layouts
    /\ \/ NewAgent
       \/ \E seen \in OldAgents : OldAgent(seen)
       \/ \E seen \in RunningAgents : RunningAgent(seen)
    /\ cursors = NoCursors
    /\ copied = 0 /\ deleted = {} /\ written = 0
    /\ rounds = 0 /\ phase = "idle" /\ observedAt = Never
    /\ read = Unread /\ next = NoNext
    /\ queued = {} /\ charged = [s \in Sessions |-> Zero]
    /\ torn = FALSE /\ early = FALSE

-----------------------------------------------------------------------------
(* Claude Code *)
(* While nothing looks at the transcripts, what it writes is as good as      *)
(* written next.                                                            *)
Observable == phase \in {"idle", "readOriginal", "readCopy"}

Write(f, r) ==
    /\ written' = written + 1
    /\ transcripts' = [transcripts EXCEPT ![f] = Append(@, r)]
    /\ clock' = clock + 1
    /\ UNCHANGED <<layout, copied, deleted, storeVars, cycleVars, queueVars, historyVars>>

(* A transcript that can go on: it was not removed, and its session was not  *)
(* resumed in the other.                                                    *)
Exists(f) == f \notin deleted /\ (f = Original \/ copied > 0)

Writable(f) ==
    /\ Observable /\ written < MaxRecords
    /\ Exists(f) /\ (f = Original /\ copied > 0 => layout[Copy] # layout[Original])

(* A prompt that no final answer followed *)
InTurn(f) ==
    \E p \in DOMAIN transcripts[f] :
        /\ transcripts[f][p].kind = "prompt"
        /\ \A a \in p .. Len(transcripts[f]) :
            transcripts[f][a].final => transcripts[f][a].internal

WritePrompt(f) == Writable(f) /\ Write(f, Prompt(clock + 1))

(* An answer in a turn, or beside the turns. *)
WriteAnswer(f, use) ==
    /\ Writable(f)
    /\ use.internal \/ InTurn(f)
    /\ Write(f, Answer(clock + 1, use))

(* The session is forked or resumed, between two of its turns. *)
CopyTranscript ==
    /\ Observable
    /\ copied = 0 /\ Exists(Original) /\ transcripts[Original] # << >>
    /\ ~InTurn(Original)
    /\ transcripts' = [transcripts EXCEPT ![Copy] = transcripts[Original]]
    /\ copied' = Len(transcripts[Original])
    /\ UNCHANGED <<layout, deleted, clock, written, storeVars, cycleVars, queueVars, historyVars>>

(* Claude Code removes transcripts that were not used for weeks: by then     *)
(* collections have seen them all.                                          *)
Delete ==
    /\ phase = "idle"
    /\ Original \notin deleted /\ copied > 0
    /\ {layout[f] : f \in Transcripts} \subseteq accounting.active
    /\ deleted' = {Original}
    /\ transcripts' = [transcripts EXCEPT ![Original] = << >>]
    /\ UNCHANGED <<layout, copied, clock, written, storeVars, cycleVars, queueVars, historyVars>>

-----------------------------------------------------------------------------
(* The daemon *)
StartCollection ==
    /\ phase = "idle" /\ rounds < MaxRounds
    /\ rounds' = rounds + 1
    /\ clock' = clock + 1 /\ observedAt' = clock'
    /\ phase' = "readOriginal"
    /\ UNCHANGED <<claudeVars, storeVars, read, next, queueVars, historyVars>>

ReadOriginal ==
    /\ phase = "readOriginal"
    /\ read' = [read EXCEPT ![Original] = Parse(transcripts[Original])]
    /\ phase' = "readCopy"
    /\ UNCHANGED <<claudeVars, clock, storeVars, rounds, observedAt, next, queueVars, historyVars>>

ReadCopy ==
    /\ phase = "readCopy"
    /\ read' = [read EXCEPT ![Copy] = Parse(transcripts[Copy])]
    /\ phase' = "collect"
    /\ UNCHANGED <<claudeVars, clock, storeVars, rounds, observedAt, next, queueVars, historyVars>>

(* The fork was read past what was read of the session it was forked from. *)
ReadEarly ==
    /\ layout[Copy] # layout[Original] /\ Original \notin deleted
    /\ \E n \in 1 .. copied :
        transcripts[Copy][n] \in read[Copy].invocations \ read[Original].invocations

(* What a session has used was there before: before the agent, before its     *)
(* present accounting, or it began its own work before and was found later.  *)
Seeding(s) ==
    \/ ~baselines.init
    \/ Rebased(baselines.buckets[s], NeedsCutover)
    \/ /\ s \notin accounting.active
       /\ \E t \in OwnTurns(s) : t.started < accounting.initAt

(* The adapter makes the events, the daemon appends them to its queue: what  *)
(* is only prepared is gone in a crash, as if it had not been.               *)
AppendEvents ==
    /\ phase = "collect"
    /\ queued' = queued \cup TurnEvents
    /\ charged' = [s \in Sessions |-> [c \in DOMAIN Zero |-> charged[s][c] + Deltas[s][c]]]
    /\ next' = [turnStore |-> NextTurnStore, baselines |-> NextBaselines,
                accounting |-> NextAccounting, cursors |-> NextCursors]
    /\ collected' = collected \cup UNION {Session(s).invocations : s \in Present}
    /\ waived' = waived \cup (UNION {Session(s).invocations \ InheritedInvocations(s) :
                                        s \in {p \in Present : Seeding(p)}} \ collected)
    /\ early' = (early \/ ReadEarly)
    /\ read' = Unread /\ observedAt' = Never
    /\ phase' = "turns"
    /\ UNCHANGED <<claudeVars, clock, storeVars, rounds, torn>>

CommitTurns ==
    /\ phase = "turns"
    /\ turnStore' = next.turnStore
    /\ phase' = "baselines"
    /\ UNCHANGED <<claudeVars, clock, baselines, accounting, cursors, rounds, observedAt, read,
                   next, queueVars, historyVars>>

CommitBaselines ==
    /\ phase = "baselines"
    /\ baselines' = next.baselines
    /\ phase' = "accounting"
    /\ UNCHANGED <<claudeVars, clock, turnStore, accounting, cursors, rounds, observedAt, read,
                   next, queueVars, historyVars>>

CommitAccounting ==
    /\ phase = "accounting"
    /\ accounting' = next.accounting
    /\ phase' = "cursors"
    /\ UNCHANGED <<claudeVars, clock, turnStore, baselines, cursors, rounds, observedAt, read,
                   next, queueVars, historyVars>>

CommitCursors ==
    /\ phase = "cursors"
    /\ cursors' = next.cursors
    /\ phase' = "idle" /\ next' = NoNext
    /\ UNCHANGED <<claudeVars, clock, turnStore, baselines, accounting, rounds, observedAt,
                   read, queueVars, historyVars>>

(* A save fails, or the daemon dies.  A collection that ends before its      *)
(* events are queued changed nothing: it is as if it had not begun.          *)
Abandon ==
    /\ phase \in {"turns", "baselines", "accounting", "cursors"}
    /\ torn' = TRUE
    /\ phase' = "idle" /\ next' = NoNext
    /\ UNCHANGED <<claudeVars, clock, storeVars, rounds, observedAt, read, queueVars,
                   collected, waived, early>>

Next ==
    \/ \E f \in Transcripts :
        \/ WritePrompt(f)
        \/ \E use \in Answers : WriteAnswer(f, use)
    \/ CopyTranscript \/ Delete
    \/ StartCollection \/ ReadOriginal \/ ReadCopy
    \/ AppendEvents \/ CommitTurns \/ CommitBaselines \/ CommitAccounting \/ CommitCursors
    \/ Abandon

Spec == Init /\ [][Next]_vars

-----------------------------------------------------------------------------
Phases == {"idle", "readOriginal", "readCopy", "collect",
           "turns", "baselines", "accounting", "cursors"}

Counters == [total : Nat, rest : Nat, cache : Nat]

TurnEvent == [session : Sessions, turn : Nat, status : {"completed", "aborted"}, tokens : Nat \ {0}]

(* Every variable has its type; in particular no delta is negative. *)
TypeOK ==
    /\ layout \in Layouts /\ deleted \subseteq Transcripts
    /\ \A f \in Transcripts : \A n \in DOMAIN transcripts[f] : transcripts[f][n].at \in 1 .. clock
    /\ copied \in 0 .. Len(transcripts[Copy])
    /\ written \in 0 .. MaxRecords /\ rounds \in 0 .. MaxRounds
    /\ phase \in Phases
    /\ turnStore.initAt \in 0 .. clock /\ DOMAIN turnStore.cursors \subseteq Sessions
    /\ baselines.sessions \subseteq Sessions
    /\ \A s \in Sessions : baselines.buckets[s].at \in Counters /\ cursors[s].at \in Counters
    /\ accounting.version \in {0, Schema} /\ accounting.active \subseteq DOMAIN accounting.ranks
    /\ queued \subseteq TurnEvent /\ charged \in [Sessions -> Counters]

ChargedTokens == MapThenSumSet(LAMBDA s : charged[s].total, Sessions)

(* A crash that leaves the ranks of a session and its fork unsaved, or a      *)
(* fork that is read first, can make the fork own what is too old for it.    *)
Contested == copied > 0 /\ layout[Copy] # layout[Original] /\ (torn \/ early)

(* stableEventID: a turn that is reported again, after any crash, is the     *)
(* same event; and no two sessions report one turn, unless a crash left the  *)
(* ranks of the sessions unsaved, or a fork was read before its origin.      *)
TurnsOnce ==
    \A e, f \in queued : e.turn = f.turn =>
        \/ e = f
        \/ e.session # f.session /\ Contested

(* Without crashes every invocation of the collections so far, of which      *)
(* several transcripts may have copies, is charged exactly once, except the  *)
(* ones that were there before the agent or its present accounting.          *)
UseExact ==
    phase = "idle" /\ ~torn /\ ~early => ChargedTokens = TokensOf(collected \ waived)

(* Whatever crashes there were, nothing that a collection queued is missing. *)
NothingLost ==
    phase = "idle" /\ ~early => ChargedTokens >= TokensOf(collected \ waived)

(* A completed turn is reported once the cursor of its session has been      *)
(* saved past it, by the session itself or by one that it shares it with,    *)
(* whatever crashes there were, unless its use was there before the agent or *)
(* its present accounting.                                                  *)
CompletedTurnsReported ==
    phase = "idle" /\ ~Contested => \A f \in Transcripts : \A t \in Parse(transcripts[f]).turns :
        /\ t.status = "completed"
        /\ layout[f] \in DOMAIN turnStore.cursors
        /\ t.ended <= turnStore.cursors[layout[f]].last
        /\ t.ended \notin {i.at : i \in waived}
        => t.id \in {e.turn : e \in queued}

(* token-accounting-guardrails.md, on delivery: crashes must replay the same *)
(* event, so that no use is charged twice.                                   *)
UseNeverTwice == phase = "idle" /\ ~early => ChargedTokens <= TokensOf(collected \ waived)

(* CacheObserved (session_baseline_store.go): counters of the cache that     *)
(* were zero are told apart from counters never recorded, so that the tiers  *)
(* of what is charged add up to its total.                                   *)
TiersAddUp == \A s \in Sessions : charged[s].total = charged[s].rest + charged[s].cache
=============================================================================
