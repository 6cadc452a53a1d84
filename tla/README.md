# Gesta agent: a TLA+ development

Gesta agent runs on a developer's machine beside coding agents (Codex, Claude
Code). A daemon reads the transcripts those agents write, turns them into
usage events, and sends the events to a control plane. Short-lived hook
processes, started by the coding agents, ask the policy for a decision, record
what a turn did and show notices. All of them share files in one state
directory: a bbolt database, JSON stores, lock files.

This directory holds TLA+ modules of the parts of that program in which state
outlives a step or several actors meet, TLC runs of them on small instances,
and proofs by TLAPS for every instance. `PROJECT.json` lists the components,
runs, theorems and hazards, and for every definition the lines of `src/` it
models.

## 1. The system

### Components, state and operations

| Component (`src/`) | State it keeps | Operations that change it | What makes it correct |
|---|---|---|---|
| Event queue (`pkg/eventqueue`) | `queue-v3.db`: events by sequence, time index, two ID indexes, delivered IDs and their times, quarantine, counts; `drain` flock | `AppendWithStats`, `Drain`, `acknowledge`, `quarantineRejectedEvents`, retention, eviction, backfill on opening | no event lost without a reason, indexes and counts agree, one sender, a poisoned event holds nothing up |
| Control-plane client (`pkg/controlclient`) | none; requests | `SendEventsForDaemon`: filter, split by size, bisect what is rejected | what is blamed for a rejection is what caused it |
| Lock file (`pkg/lockfile`) | one file per lock; a registry of tokens per process | `Acquire`, its unlock, `RemoveStale` | one holder at a time, over threads and processes; every call ends; a dead holder's file is taken over |
| Codex turn usage (`pkg/turn/codex*.go`) | `turn-cursors-v1.json`: per session offset, last total, turn in progress; time of the first collection | `CollectCodex`, seeding, migration of keys, `processCodexRecord` | each turn reported once, under its own session, with its own use |
| Claude turn usage (`pkg/turn/claude.go`) | `claude-turn-cursors-v1.json`: per session the last end time and the hashes of the turns that ended then | `CollectClaude` | each turn once |
| Claude transcripts and fork accounting (`pkg/daemon/claude*.go`) | `claude-fork-accounting-v2.json`: ranks of the sessions, the active ones, what each inherited | parse, merge of a session's files, ownership | one owner per invocation, which stays the owner |
| Session baselines and usage deltas (`pkg/daemon/session_baseline*.go`, `usage_delta.go`) | `session-baselines.json`, `usage-cursors.json` | baselines at first sight, deltas, recovery from a lost cursor | no use lost, none twice, none from before the installation |
| Codex discovery (`pkg/daemon/codex*.go`) | in memory: per directory and per rollout what was last seen of it | the cached scan, the state database's rows, their merge | every session is found, at the file it goes on in |
| Transcript chunks (`pkg/daemon/transcript_chunk.go`, `codex_transcript.go`) | in the baseline: per session the versions sent and the number of the last chunk | read the last messages, cut chunks, queue, save the cursor | no message missed, none twice, chunks numbered without a gap |
| Daemon cycle (`pkg/daemon/runner.go`) | whether the settings are known; order of queueing and commits | `RunOnce`, `collectAndQueue`, heartbeats, `flushWithHeartbeat`, `SyncRules` | a crash between any two commits loses nothing; no failure ends the loop |
| Agent upgrade (`pkg/agentupgrade`, `pkg/daemon/upgrade.go`) | the binary, the launcher, their backups, `upgrade-state.json` | decide, download, verify, rename, record, restart; the helper on Windows | there is always a binary to go back to; a bundle is replaced whole; a failure is not retried at once, nor never |
| Turn receipts, pending notices (`pkg/turnreceipt`) | a directory per turn and per pending notice, below those of session and agent type; the clean-up's cursor | `Begin`, `RecordOutput`, `Consume`, `SavePending`, `ConsumePending`, `CleanupExpired` | what a turn made is shown at the next prompt, all of it and once; what expired goes |
| Activity details (`pkg/activitydetail`) | a file per prompt; the clean-up's cursor | `create`, `RecordContext`, `RecordOutput`, `Cleanup` with migration, expiry and eviction | a page shows what belongs to it, and stays until it expired or enough others came |
| Rule caches, policy, guard (`pkg/rulecache`, `pkg/policy`, `pkg/agent/guard.go`, `codex_hook.go`) | a file per kind of rules; approvals, at the control plane | `SyncRules`; decide, consume a grant, request one, add context | what runs was permitted by rules no older than the copy at hand; one grant, one run |

The rest keeps no state that another step reads, or edits other programs'
configuration once: hooks' installation, the Codex app client, MCP inventory,
configuration, matching, metering, redaction, the local activity server,
`cmd/` and scripts. `PROJECT.json` gives every one of them with its reason.

### How they interact

- The daemon's cycle calls the collectors in turn. Each returns events and a
  prepared copy of its store; the events go into the queue in one transaction,
  then the stores are saved one after the other (`atomicfile.Write`: a reader
  finds the old file or the new one). Queue first, cursor second is the
  convention that every store relies on.
- The daemon drains the queue after each heartbeat, guard hooks append and
  drain too, all through the `drain` flock and bbolt's own file lock. During a
  request no transaction is open.
- Hooks and the daemon share stores through lock files.
- A heartbeat's answer carries the settings and the release that is offered; the
  daemon then upgrades itself inside its cycle, and on Windows hands over to a
  helper process that starts the new one. The user's `gesta-agent upgrade` may
  run beside both.
- The daemon writes the rule caches; the hooks read them, and ask the control
  plane only where a cache is missing, or for a grant.
- The hook of a prompt opens a page (activity details), the local server shows it,
  and the hooks at the end of the turn before have left what goes on it.
- The coding agents append to the transcripts while the daemon reads them, fork
  sessions by copying a file's beginning, archive and rewrite files.

### What is hard

The steps of drainers, appenders and hooks interleave; a process may die at any
point between two commits; an answer from the control plane may be lost; a fork
may be read before it is complete; counters go back; a lock file outlives its
owner; a rename is the last thing before a death; a cache is asked about a file
that changed. `PROJECT.json` lists these hazards, each at the line where it bites, with
the properties below that would notice it going wrong.

## 2. Modules

                  Outbox (implemented by)
                     ^
    EventStore <-- EventQueue <-- MCEventQueue
                       ^
                       EventQueueProofs

    LockFile <-- MCLockFile, LockFileProofs
    CodexTurns <-- MCCodexTurns, CodexTurnsProofs
    CodexDiscovery <-- CodexTranscripts <-- MCCodexTranscripts, CodexTranscriptsProofs

    ClaudeTranscripts <--+
    UsageDelta        <--+-- ClaudeUsage <-- MCClaudeUsage

    ActivityDetails <-- TurnNotices <-- MCTurnNotices, TurnNoticesProofs

    AgentUpgrade <--+
    CommandGuard <--+-- DaemonCycle <-- MCDaemonCycle, DaemonCycleProofs

    Keep <-- ActivityDetails, CommandGuard, CodexTranscripts

    FoldTheory (an instance per fold) --> DataProofs <-- EventQueueProofs,
        CodexTurnsProofs, TurnNoticesProofs, CodexTranscriptsProofs, DaemonCycleProofs

An arrow points from a module to what it extends. `Keep` is the loop that appends
to a slice what meets a condition; it is written as a fold over a sequence, about
which the provers can be told something, where `SelectSeq` is closed to them.

### EventStore: the database

A store is a record with one field per bucket. Each operator is what one
function of the package does to the buckets inside a transaction: `Insert`,
`DeleteQueued`, `PruneExpired`, `EvictOverCapacity`, `RecordDelivered`,
`Backfill`. Payloads are left out and an event's size is a function of its ID,
as no decision looks at anything else. The module has no variables, so that its
lemmas are about every store and not about one reachable state.

`evictOverCapacity` is a loop that removes the oldest event as long as the byte
count is too high. It is written as the set of the events it removes: those
without which, and without every older one, the limit is still exceeded.

### EventQueue: producers, drainers and the control plane

One action is one bbolt transaction, since bbolt holds the database's file lock
for that long; only an append is taken apart into its inserts, so that an
insert that fails, or a death, can fall between two of them. `Drain` is a
program counter per drainer: lock, watermark, fetch, requests, acknowledge or
quarantine. Between fetch and acknowledge any transaction of others, a clock
tick, and the death of the drainer may happen. `Request` is the next body posted:
the leftmost half left from bisection, or as many events as fit in a body.
`PostLost` is a request that was accepted and whose answer did not arrive.
`GiveUp` is every error of `Drain` and the death of its process at once: the
flock and the local variables are gone in both cases.

The control plane is external. It is assumed to accept or reject a request as a
whole, to reject what contains a poisoned event (400) or is too big (413), and
the answer to be permanent. Producers are assumed to give every event an ID.

### Outbox: what the queue promises

The queue as its users see it: events are accepted under growing numbers, reach
the receiver in that order, at least once, and leave when they were sent, when
the receiver refused them, or, oldest first, to make room. It knows no batches,
transactions, drainers, bisection or crashes. EventQueue implements it under a
mapping of five variables (`Out` in EventQueue): the queued events by sequence,
the last number given (an open append has given none yet), `received`, what a
drainer has isolated and not yet quarantined, and the IDs that were quarantined. `IsOutbox` is that refinement. What makes it hold is
the drain lock, the order of a batch and the side from which bisection goes on.

### LockFile: one lock path

One action per system call or registry operation of `Acquire`, of the unlock it
returns, and of `RemoveStale` as the clean-up of turn receipts calls it without
holding anything (the `MkdirAll` and the first stat of a call are one, as nothing
lies between them that another thread could see). Files are told apart by who
created them, which is what `os.SameFile` compares. A process that dies takes its
registry, tokens and threads with it and leaves the file.

Any file operation may fail (`FileError`): the call then returns, or, while a lock is
given back, the file stays. The directory may go while it is empty
(`LoseDirectory`, by whoever cleans up around the agent); `Create` then meets
`ErrNotExist`, and the loop makes the directory again and goes round until its
deadline (`CreateNowhere`, `MakeDirectory`). Left out is the removal of the
directory together with the lock files in it.

Nothing bounds how often the threads call. That matters for `AcquireEnds`: the
loop goes round without a look at the deadline when the file it found has vanished
or was stale (`src/pkg/lockfile/lock.go:90-95`). That every call ends by its deadline,
or ends at all, is therefore not so: TLC answers the claim without a condition
with a behaviour in which another thread takes the lock and gives it back again and
again, always between the failed creation and the stat of this one. What holds, and
what `AcquireEnds` says, is that this is the only way: a call goes on for ever only
while others go on and on taking the lock.

`Tick` carries one assumption: the critical sections of the callers, a few file
operations long, end before their own file is stale. A thread that was already
robbed of its file does not hold the clock back.

### CodexTurns: usage of Codex turns

Codex writes records (`task_started` or `turn_context`, `token_count`,
`task_complete` or `turn_aborted`) to one rollout file per session; the daemon
collects, session by session, any set of the sessions there are, then queues,
then saves, and may die in each of those places. A forked session begins with
its parent's records, copied at once or one by one. `Scan` folds
`processCodexRecord` over the records from the saved offset; `Seed` is
`seedCodexCursor`, with the tail it starts in; `Discovered`, `Continued` and
`Migrated` are the branches of `CollectCodex`. A store an older agent left, with
several sessions under one key, is one of the initial states.

Abstractions: a file is its complete lines; the four token counters are one;
sessions are forked between two turns of their parent; timestamps count the
collections. Codex acts only while the daemon is idle or scanning: in the other
two phases nothing reads the files, so acting then is as good as acting in the
next idle state. Not in the model: the second read of a parent's file between
two forks of it in one collection (there is one fork), deleted files, titles,
models and scores, and the warning after a reset.

`UseIsExact` compares what the incremental parser reports with `Used`, a
definition that reads the whole file of the session at once and shares no
operator with the parser but `LastStart`, the turn in progress at a position.

What may be in the files when the agent is installed is a constant, and
`RecordingsAssumption` says what Codex is assumed to have written (the actions of
Codex write nothing else, and the invariant shows that all of it stays so):

- `WellFormed`: the records of a turn are together. It is started once, and once
  more only while it is the one in progress; an end names the turn in progress, or
  none.
- `Recorded`: whatever belongs to another session is a copy of the beginning of
  its file, up to that record; a fork begins like its parent, which was there before
  it and has no turn of the fork; the turn in progress at the end is the
  session's own.
- `SharedKeys`, in worlds with an older agent only: that agent filed a fork under the
  key of the session it is forked from.

### ClaudeTranscripts and UsageDelta: two pure parts

`ClaudeTranscripts` is the parser: `AddRecord` is the accumulator's step over
one line, `Parse` folds it over a transcript, `Merge` unites the transcripts of
one session. `UsageDelta` is what happens to the cumulative use of one bucket:
first past its baseline (`Counts`, `NextBaseline`, and `Hint`, the value that the
summary carries along to count from), then past its usage cursor (`Charge`).
Neither has variables.

Abstractions: the four token tiers are two, `rest` (input and output) and
`cache` (read and written), as the code treats the members of each pair alike;
a session has one bucket, so one model and one day; synthetic answers,
answers without usage and repeated records with other counters are left out;
times are the identities of records.

### ClaudeUsage: the Claude adapter and the daemon's commits

A session has a transcript, and a second one that begins as a copy of it: of
another session (a fork) or of the same one (a resumed session, which then no
longer writes the first). Claude Code writes prompts and answers to them and
removes an old one. A collection reads the two transcripts one after the other,
while they grow. `AppendEvents` is the whole preparation and the append to the
queue: ranks and ownership (`Ranks`, `IsInherited`, `Offsets`), new turns
(`NewTurns`, `Emits`), baselines and deltas. Four actions then save the four
stores, in the order of `collectAndQueue`, and `Abandon` is a failed save or the
death of the daemon before any of them. A collection that ends before its append
left nothing behind, and is not an action. Claude Code acts only while
the daemon is idle or reading, for the reason given for Codex.

The agent is new, or begins with the stores it has after it saw nothing or one
turn, or with those of an older agent that knew no fork accounting
(`NewAgent`, `RunningAgent`, `OldAgent`).

Not in the model: stores that cannot be read (the code abandons the collection,
or goes on with the turns alone); forks made in the middle of a turn, and more
than two transcripts; the removal of a transcript before a collection has
recorded its session.

The properties compare what was queued with `collected`, the invocations that
were read, as a set: copies are one element, whatever the ranks and offsets
say. `waived` holds those that were there before the agent or before its
present accounting, and that are seeded instead of charged.

### CodexDiscovery and CodexTranscripts: from rollouts to chunks

`CodexDiscovery` is the files as Codex writes, copies, rewrites and archives them,
and the daemon's cached scan: a directory is read again when its modification
time changed, a file when the cache has no header of it. `Scan` reads one
directory that changed, and an error may let it see any part of it. Of several
files of a session the one modified last stands for it, by the times that were
cached. The cache dies with the daemon.

`CodexTranscripts` composes that with the rest of the Codex collection: the rows
of the state database (`ReadState`, which may fail, and does for a database that
lists no session yet: `sqlite3 -json` prints nothing for no rows, and
`sqliteJSON`, `src/pkg/daemon/codex.go:281`, takes that for an error), the refresh
of the cache that begins discovery (`Discover`), the sessions found beside it
(`Filter`, with `TurnPaths` where the two differ), the last messages of each
(`Window`), the baseline that says what is history, and the chunks (`Plan`).
`AppendEvents` and `CommitBaseline` are the queue and the save, with `Abandon` and
`Crash` around them. A message is its ID, time and length; a version of it is the
whole record, so that one written again counts as new.

`due` is what a collection must not miss: the messages of the sessions written last
that were in their files when the collection began, that are still among the last
ones when it filters, unless a directory could not be read whole (`StillDue`; a
session counts as written when the last of its files was). `NothingMissed` asks that
each of these is in the queue under the baseline of the collection, or in a chunk of
its plan, unless it is history. What a cursor knows is not asked: a cursor
remembers what was read, and a plan that read a message, recorded it and put it in
no chunk would have lost it. `history` is a record, which no action looks at, of
what the saved baselines left out, and `Past` is what a plan may leave out: all it
reads when it begins the baseline, all of a session that was known by its use
alone, and of a session that is found later by discovery the messages from before
the baseline. These limits of the code are outside of it, and were looked at:

- A message that does not fit into 256 KB beside those kept before it stops the
  reading (`Kept`): later messages come only when the window of 8 MB has moved
  past the long ones. The loop that would drop the oldest for their bytes is never
  entered for that reason. `TestReadCodexTranscriptKeepsLatestMessages`
  (`src/pkg/daemon/codex_test.go:558`) tries short messages only.
- The cached times are refreshed only when the directory is read again, so that of
  two files of one session the older may stand for it until a file is added.
- A session whose last file was archived is read in an older one, and takes by that
  one's time a place among the sessions read, which another session then does not get.
- A cursor remembers the last 4096 versions of messages it queued (here 2). A
  session that went on in another file and whose new file was archived is found
  by its old one again, and if it said more than that in between, its old messages
  are queued again. `SentOnce` excepts exactly these, and the world `Returns` meets
  them. That a rollout's path is never used twice (`named`; Codex puts the time and
  the session's ID into it) matters for the same reason.
- There is one baseline per state database. A new database begins history and
  the numbers of the chunks anew; `SentOnce` speaks of each baseline alone.
- History is what is found when the baseline begins: what a failed scan or a
  failed read hid then is sent later as if it were new. A session that was only
  known by its usage has what is first read of it recorded, never sent.
- 40 rows and 40 sessions beside them (here 1 and 1) are read per collection.

### TurnNotices and ActivityDetails: receipts, notices and pages of the hooks

A hook is a process with a task: the one of a prompt begins a receipt, opens a
page, records in it the rules that matched and what it finds pending, the one of a
tool records output, the one of the turn's end consumes the receipt and saves a
notice, and one at the start of a session cleans up both stores (the daemon cleans
up the pages as well, which is a hook that finds the other clean-up busy). `SubmitPrompt`, `UseTool` and `StopTurn` are the coding agent, which waits
for the hooks of a session, unless the user interrupts the turn: then old hooks
run beside those of the next. `Finish` and `Fail` are what a hook does after an
operation that worked or returned an error.

What happens under the lock of a path is one step, but the directories of a
new receipt or notice are made one by one (`MakeAgentDir`, `MakeSessionDir`,
`MakeDir`), because empty ones are removed under no lock (`Prune`,
`PruneAgent`). Reading and discarding what was claimed is outside the lock in
the code, and two more steps. A clean-up scans (`Scan`, within the two limits,
from the cursor), removes one directory after the other (`SweepNext`) and keeps
its place (`EndSweep`). A hook that dies leaves its directories, the directory
it had claimed, and, if it was inside, its lock, which is in the way until it is
stale (`LockExpires`).

`ActivityDetails` has the operators on the pages, each under the store's one lock
and so one step (`OpenPage`, `RecordRules`, `TellResult`, `RemoveDetails`). Only
the migration of the layout before goes file by file (`MoveNext`, `MoveFails`),
since a hook may die on the way and another take its lock over; the old root goes
at its end in any case (`DropOld`). Reading a directory with more entries than
asked for returns any that many: that a clean-up reads `MaxDetails +
DetailRemovals + 1` of them is why eviction never takes one of the last
`MaxDetails` that were written.

Abstractions: a lock excludes (LockFile says when); the output of a tool is
one element of a set; prompts that are blocked or cannot be verified touch nothing
and are not actions; the only errors of the file system are a parent that has gone and a page
that cannot be moved; a stale `cleanup.lock` expires like the others; a page is
named by its prompt, where the code draws its name at random.

`upset` holds the turns in which something failed: an interruption, a death, a
lock that was not to be had in time, expiry, the limit of fragments, a
directory that could not be made, a page that could not be opened or moved. (Where
a page cannot be opened the notice is consumed all the same and shown nowhere,
`src/pkg/agent/turn_completion_notice.go:117-121`.) `NoticeComplete` promises nothing of them and
everything of the others. In particular the hooks of Claude Code name no turn,
so that a late hook of an interrupted turn works on the receipt of the next: a
prompt that begins beside one is `upset` too.

### AgentUpgrade: one binary and who replaces it

One action is one rename, removal or saved file, except `Stage`, where the removal
of an older staged file, the rename of the new one to its place and the start of
the helper from it are one step
(`src/pkg/agentupgrade/replace_windows.go:19-57`): a failure of any of the
three leaves what the next attempt removes, but two processes that stage in the same
instant, and would start two helpers side by side, are not in the model. `Step` is the
daemon or the user's command: fetch and verify, then on Unix `Stat`,
`ClearBackup`, `BackUp`, `Install`, `Undo`, `SetMode` and `Exec`, on Windows
`Stage` and `ExitStaged`; `HelperStep` is the helper with its phases, its retries
and its ways to restore. Any of them may fail, any process may die between two.
`Precedes` compares versions with prereleases as the code does, numerically inside
a label. `hurt` records that two replacements overlapped on Unix, that a helper
started from a state without a binary, or that a restore failed: what the
properties except. docs/design/windows-agent-rc.md:106 calls the replacement "one
rollback-safe bundle", which it is unless the restore itself fails.

The compared version is that of the running process (`src/pkg/daemon/upgrade.go:17`),
not of the file. Every release that is offered has its launcher for Windows, and
automatic updates are not switched off on the machine
(`AutoUpdateDisabled`, `src/pkg/daemon/upgrade.go:38`): with the switch the daemon does
nothing, as in the mode `off`, and `Upgraded` would not hold. The helper waits two
minutes for its parent and then ends; that it ends at any time is `HelperDies`. The
helper's `RecordSuccess` may come after a record of the daemon
that it started (`src/pkg/agentupgrade/upgrade_helper_windows.go:98`); that is the
exception named at `RetriesWait`.

### CommandGuard: rules and what they do

The daemon fetches, validates and saves the three caches one after the other; the
control plane publishes new rules at any time; hooks, `gesta-agent guard` and
prompts take the rules they find, or are given, and decide. `Decision` is the
fold of `applyRuleMatches`: a block stays, of approvals and warnings the last one
counts, so that a warning behind an approval overrides it
(`src/pkg/policy/policy.go:80-82`). A grant is consumed at the control plane, whose
answer may be lost or late; then the command does not run and the grant is gone.
`recorded` is what is handed to the queue. On what texts a rule matches is given;
patterns and hashes are not modelled.

A prompt is checked only if it can be verified. `src/pkg/agent/codex_hook.go:103-107`
lets a Codex prompt go on as it is, with no check, nothing recorded and nothing
added, when it has no transcript path or turn, its transcript cannot be read, its
turn has ended or is not in the tail that is read, or another text is found there;
and so does `codex_hook.go:99-102` when no request is found in the text.
`StartPrompt` has that as an outcome of every Codex prompt (`unchecked`).
`src/README.md:122-123` says that rules "can block prompt text before it leaves the
local client"; they cannot for these. `RunsPermitted` therefore says of prompts
that those that were checked are let through only unblocked, and that none but Codex
prompts go unchecked. Blank prompts match no rule.

### DaemonCycle: the loop

`DaemonCycle` composes the two with `RunOnce`: settings, rules, collection,
heartbeat, flush, heartbeat, sleep. An upgrade begins with the answer of a
heartbeat and the cycle waits for it. A failed heartbeat is only logged, except the
last one; a failed collection ends the cycle, and with it its heartbeats: a daemon
whose every collection fails sends none once it has its settings
(`src/pkg/daemon/runner.go:74`) and is offered no upgrade, which is why fairness asks
for a collection that succeeds. On Windows a helper that cannot save its record and
a daemon that cannot either may start each other for ever before any collection;
the bound on mishaps ends that.

Abstractions: `Tick` is the hour, and an attempt is shorter than that; a service
does not start the daemon beside a running helper; what is collected is the
subject of the other modules.

## 3. Runs

| Run | Properties | Shows |
|---|---|---|
| `event_queue` | `TypeOK`, `StoreConsistent`, `BytesConsistent`, `CapacityRespected`, `OneSender`, `DeliveredWasAccepted`, `QuarantineJustified`, `EventsLeaveForAReason`, `IsOutbox`, `EventuallySettled`, `DrainEnds` | Over appends, two drainers, retention, eviction, bisection, lost answers and crashes, from an empty database and from one older than its indexes: the buckets agree, an event leaves the queue only when the control plane accepted that very event, or filtered, quarantined, expired, superseded or evicted it, and the whole implements an outbox that sends in order. Once failures end, every queued event leaves, the ones behind a poisoned event included, and every `Drain` ends. |
| `lock_file` | `TypeOK`, `ExclusiveWhileFresh`, `RegistrySound`, `AcquireEnds`, `StaleFileTakenOver` | Until a file can be stale, one thread of all processes holds the lock and the registry is right, with crashes, deadlines and callers that do not wait; afterwards too an `Acquire` goes on for ever only while others go on taking the lock, and a dead holder's file goes, with failing file operations, a directory that is removed and the sweep beside it, and any number of calls. |
| `lock_takeover` (violation) | `MutualExclusion` | Two threads inside the lock after a takeover, see below. |
| `codex_turns` | `TypeOK`, `UseIsExact`, `NothingSkipped`, `EachTurnOnce` | One session, with counter resets, unnamed ends, repeated starts, archiving, lost collections and crashes; and a session with its fork, found in any combination, on a new store or one an older agent filed under a shared key: each turn is reported once, under its own session, with its use, none is skipped. |
| `codex_transcripts` | `TypeOK`, `NothingMissed`, `SentOnce` | Rollouts that grow, are rewritten, appear half written, move and are archived, listed by a database or found by a cached scan that may fail, with crashes and failed saves between queue and cursor: each message of the latest session is queued or on its way unless it is history, and each goes out once per baseline unless a collection was torn. |
| `codex_split_prefix` (violation) | `NoInheritedUsage` | A fork read before its prefix was complete, see below. |
| `claude_usage` | `TypeOK`, `TurnsOnce`, `UseExact`, `NothingLost`, `CompletedTurnsReported` | A session and its fork or its second transcript, over two collections with a crash between any two commits: each turn is one event of one session, without a crash each invocation is charged once over all copies, with crashes none is lost, and a completed turn behind the saved cursor was reported. |
| `claude_crash` (violation) | `UseNeverTwice` | Use that is charged twice after a crash, see below. |
| `claude_tiers` (violation) | `TiersAddUp` | Use of the cache that is missing from its tier, see below. |
| `turn_notices` | `TypeOK`, `ShownOnce`, `NoticeComplete`, `ExpiredGoes` | Hooks of one or two sessions' turns, deaths, expiry, migration and clean-ups interleave: the page of a prompt shows its rules and exactly what the turn before it made, no output is shown twice whatever failed, a page stays until it expired or enough others came, and what expired goes. |
| `turn_sessions` (violation) | `SessionsIsolated` | One session removes the directory in which another makes its own, see below. |
| `daemon_cycle` | `TypeOK`, `BinaryKept`, `BundleTogether`, `RunsPermitted`, `ContextFits`, `RetriesWait`, `CollectsOn`, `Upgraded` | Upgrades on either system with a command of the user beside them, deaths and failures anywhere, and hooks, guards and prompts that decide while rules are published and synced: a binary is left to go back to, the bundle is replaced whole, a failed upgrade waits its hour, no command runs against the rules it was asked under nor on another's grant, no prompt that was checked goes on against them, and the daemon collects on and gets to the release offered. |

Every property of a passing run has a mutant in `PROJECT.json`: a change of one
definition as a plausible bug would make it (the definitions commented "Faulty
variant"), under which TLC finds that property violated. No specification uses
those definitions.

### Bounds, and why they are enough

- Event queue: four IDs, one of each kind the code tells apart: an ordinary
  event, a snapshot that a newer one replaces, a poisoned event, a policy
  decision that is never uploaded. Two drainers. Sequences up to 4: a batch of
  3 and one event beyond the watermark or the batch. The limits are chosen to
  be reached: 4 bytes in the database and 3 in a body (a snapshot takes 2), 2
  accepted by the control plane, so that a rejected request of each cause, a
  split by size, and an eviction occur. `MaxAge` 0 with a clock up to 1 makes
  events and delivered IDs expire during an append and during a drain. The
  older database holds an ID twice.
- Lock file: two threads of one process and one of another are the least with
  contention at the token and at the file at once. `StaleAfter` 1: a clock up
  to 2 lets a file become stale, up to 3 (`lock_takeover`) also the file that
  replaced it. `MaxCrashes` 1. Calls are not bounded.
- Codex: two turns, so that one can be cut off by the next; totals up to 2, so
  that one turn can grow, drop and grow; four records, enough for a turn to be
  scanned in three parts; three collections: a first one that seeds, and two
  of which one may be lost. `SeedTail` 2 makes seeding begin inside a turn. The
  world with a fork starts with a recorded turn of the parent, so that three more
  records suffice; `oldReads` lets the older agent have stopped inside that
  turn, after it, or inside the fork's own.
- Codex transcripts: four worlds. `Grows`: one rollout of up to five messages of
  length 1 or 2 with rewrites, where a window is 3 records, 2 messages and 3 bytes,
  a chunk 2 messages and 2 bytes, the date changes between the third time and the
  fifth, and a cursor remembers 2 versions. `Moves`: two files of one session and
  one of another in two directories, half-written headers, scans that fail.
  `Lists`: a state database that appears, lists a session or not, and fails. One
  death or failure in each of these. `Returns`: a session that goes on in a second file
  which is then archived, with time for more messages in between than a cursor
  remembers.
- Claude: three records, so that a turn with an internal answer inside it, or a
  turn of the parent and one of its fork, are read in parts; two collections,
  after an initial state in which an earlier one has already been: one that
  a crash tears and one that repairs it. The hash order puts the fork first, the
  case in which the ranks do not follow the transcripts by luck. Answers use 1
  token; `claude_tiers` adds answers with use of the cache and a fourth record.
- Receipts: `Worlds` lists small worlds, each with one source of trouble, and
  the run covers their union: three turns, so that one can be interrupted and
  its notice be left to the next but one; three tools and two fragments, so
  that the limit is reached; a death; a clock with clean-ups, from a receipt that
  is due when a new turn begins, and over what a dead session left. Two hooks at a
  time: what hooks share is a path or a parent directory, and each conflict is
  between two. A clean-up visits 2 and removes 1 of up to 5 directories. Of pages
  2 are kept and one removed at a time, with two left behind and two in the old
  layout; younger pages come first among the names, so that an order by name
  would show. Turns are not interrupted in the worlds with clean-ups, where the
  hooks of an interrupted turn meet nothing new.
- Daemon cycle: eight worlds, three of upgrades and five of rules, as the two
  touch only through the cycle. Two prereleases whose numbers compare differently
  as texts (rc.9, rc.10) and the release after them; two mishaps, which is a
  failure and a death in its repair, where there are upgrades (a daemon that dies
  does to the rules what a failed save does); `RetryAfter` 1. Two bundles of rules, of which
  the second blocks what the first leaves, and two hooks on one command with one
  grant.

Deadlock is checked in `codex_transcripts`, where a collection is always possible.
The bounds of the others stop them.

### Fairness

- A transaction that began ends, and a drainer inside `Drain` goes on (weak
  fairness): file locks, HTTP requests and bbolt's open have timeouts, and the
  processes are scheduled. `GiveUp` being always enabled, this alone allows a
  system that fails for ever; `FailuresEnd` says that there is a last failure,
  without saying when.
- The daemon gets the drain lock if it is free again and again (strong
  fairness): it drains after every heartbeat, and polls for the lock each time.
- Lock file: a thread in `Acquire`, in its critical section, in the unlock or in the
  sweep goes on, and deadlines pass. Nobody has to call, no process has to die, and
  the directory need not go or stay.
- Receipts: a hook goes on, the lock of a dead one becomes stale, and sessions
  are started again and again (strong fairness of `StartSweep`, as another
  clean-up may be running). Nobody has to prompt or use tools.
- Daemon cycle: the daemon, the helper, the command and the service that starts the
  daemon go on, and the hour passes (weak fairness). A collection and an answered
  heartbeat come again and again (strong fairness): `Upgraded` is about failures
  that end. `CollectsOn` needs neither the heartbeat nor the upgrade to succeed.
- CodexTurns, CodexTranscripts and ClaudeUsage have only safety properties and no
  fairness.

### Findings

1. `lock_takeover`. `RemoveStale` (`src/pkg/lockfile/lock.go:190`) stats a file
   and then removes what is at its path. Two waiters that both found a dead
   holder's file stale can follow each other: the second removes the new file of
   the first, and both hold the lock. `docs/design/package-structure-alignment.md:28`
   calls the package cross-process locking and the notice design relies on it.
2. `codex_split_prefix`. The hashes of inherited turns are computed when a fork
   is first discovered (`src/pkg/turn/codex.go:62`) and are not kept. A collection
   that sees a fork with a part of its prefix leaves the rest to be reported
   under the fork. `docs/design/token-accounting-guardrails.md:73-75` asks for no
   event for inherited turns, also when collection stops in the middle of the
   prefix. `EachTurnOnce` therefore speaks of forks whose prefix was complete when
   they were read (`split` records the others).

3. `claude_crash`. `usage.delta` events get a random ID
   (`src/pkg/daemon/usage_delta.go:166`) and are queued before the baselines and
   cursors are saved. After a crash in between, the next collection queues the same
   use under another ID. `docs/design/token-accounting-guardrails.md:166-168` asks
   that process crashes replay the same event ID. Nothing is lost by it
   (`NothingLost`): the order of the commits errs on this side.
4. `claude_tiers`. A baseline first made without use of the cache is taken
   for one that never recorded it (`src/pkg/daemon/session_baseline.go:318`), which
   `session_baseline_store.go:50-51` means to tell apart. The next delta then
   counts use of the cache in the total and in no tier.
5. `turn_sessions`. `pruneEmptyParents` (`src/pkg/turnreceipt/store.go:279`) removes
   the directories of a session and of the agent type when they are empty, without
   a lock. A `Begin` or `SavePending` of another session that is about to make its
   own directory there fails, and its turn shows no output.
   `docs/design/next-turn-activity-notice.zh-CN.md:335` calls sessions completely
   isolated. Nothing else is lost, and the next turn begins anew.

### What the Claude properties leave out

Each of these is a condition in the properties, and what happens there was looked
at:

- `early`: a fork that was read past what was read of its origin (the origin is
  read first, both grow). What looks like the fork's own is charged to it, and
  the origin is charged for the same when it is read.
- `Contested`: with a fork, after a crash that left the ranks unsaved, or an early
  read, another session may win the ownership of a turn. `TurnsOnce` then speaks
  of each session alone, and `CompletedTurnsReported` of nothing.
- `waived`: what was used before the agent, or before its present accounting, is
  not charged. The cutover comes with any entry among the baselines
  (`NeedsCutover`), that of a session with a transcript and no use included: a
  collection that saved the baselines and not the accounting has the next one
  seed all it finds. After a cutover in which all of a session's use is inherited
  its old baseline stays, so that its first own use is only seeded too.
- Interrupted turns: one whose end is behind a turn that was already reported is
  never reported. The guardrails document names this limit;
  `CompletedTurnsReported` speaks of completed turns.

## 4. Proofs

All obligations of the eight modules with theorems are proved by `tlapm`, for any
sets of IDs, drainers, threads, hooks, sessions, rollouts, rules, releases and
upgrading processes and any limits and sizes. They rest on the ASSUMEs of the
modules, which say what type each constant has, of the threads and the sessions that
they are finitely many, and of Codex what it records (`RecordingsAssumption`).

**Data** (`FoldTheory`, `DataProofs`). What a loop of the code computes is here a
fold over a sequence (`FoldLeft`) or a sum over a set (`MapThenSumSet`). Both are
recursions, and the library's induction theorems take the property as a
parameter, which the installed provers cannot instantiate. `FoldTheory` therefore
has the operator of the fold as a CONSTANT of the module. It shows, by a least
counterexample, that the recursion goes through the sequence one element after
the other (`FoldAppend`, `FoldConcat`), and that a set which holds the base and
which the operator does not leave holds the result (`FoldIn`). Each fold of the model is
then an instance of the module, with a lemma that says that the two are the same
(`LatestFolded`, `SplitFolded`, ...), and an induction over data becomes a set to
be shown closed. `SeqInduction` is the same for sets of sequences. `DataProofs` has
the facts that several proofs need: sums over disjoint sets and over sets that grow,
what `Keeping` leaves of a sequence, least and greatest elements.

**The store** (`EventQueueProofs`, first part). One lemma per operator of the database says
that it keeps `StoreType` and `Consistent`, another that the byte count stays that
of the events. `EvictedOldest` is the lemma about `evictOverCapacity`: what it takes
exceeds the limit together with what is not older, so it is older than all that
stays, and what stays fits.

**Event queue, types and exclusion** (`EventQueueProofs`). `Invariant` proves
`Spec => []IInv`, and from it follow `TypeCorrect`, `BucketsAgree`
(`StoreConsistent`), `ExclusiveDrain` (`OneSender`) and `DeliveredOnlyWhenAccepted`
(`DeliveredWasAccepted`). `IInv` adds to those:

- `AppendInv`: an open append works on a store that is indexed and no older than
  the committed one. Without it a commit could bring back a smaller `next`, and
  the sequences in a drainer's batch or in `received` would be out of range.
- `LockInv`: whoever is inside `Drain` owns the drain lock. This is why no two
  batches overlap.
- `BatchInv` and `HalvesInv`: there is a batch only while one is being sent, and
  the requests left from bisection are disjoint, so that taking an accepted one
  out leaves the others whole.
- `SentInv`: an event of a batch that is no longer unsent was accepted, or is
  filtered. An acknowledgement is enabled when nothing is unsent, and what it
  records as delivered was then accepted: the step from `SentInv` to
  `DeliveredWasAccepted`.

**Event queue, promises** (`EventQueueProofs`). `PromisesKept` adds `Promises` to
`IInv`, and from it follow `BytesCounted` (`BytesConsistent`), `CapacityKept`
(`CapacityRespected`) and `QuarantineOfTheGuilty` (`QuarantineJustified`). Its parts:

- `WorkInv`: what an open append knows of each committed event. It is still in
  the append's store, or expired when the append began and is older than all
  that is left, or was replaced by a newer one. At the commit these are the
  reasons to lose it; without them nothing relates the store that is put in place
  to the one it replaces.
- `OrderInv`: a batch leaves out no older event of the store; the requests left
  from bisection are the first of what is unsent, one before the other; and
  who is about to quarantine has bisected down to one event, which the control
  plane rejects alone. Quarantine is justified by the last of these, and
  the order of sending by the others.

**Event queue, refinement** (`EventQueueProofs`). `NoEventIsLost` proves the
action property `EventsLeaveForAReason`: each action that takes events out is put
down to one of the reasons, in a state of `IInv /\ Promises`. `QueueIsOutbox` proves
`IsOutbox`, `Spec => Out!Spec` under the mapping above: initial states map to
initial states (`OutboxInit`) and each step to a step of Outbox or a stutter
(`OutboxStep`). The rejection of an event and its quarantine are two steps of the
code, and the drainer may die between them; the mapped variable `rejected` is
what makes the second one a step that Outbox allows, and `Forget` the death.

**Codex turns** (`CodexTurnsProofs`), for any sessions, forks, recordings, old
cursors and limits. `Inductive` proves `IInv`, and from it follow `TypesHold` (`TypeOK`),
`TurnsReportedOnce` (`EachTurnOnce`), `UseReportedExactly` (`UseIsExact`) and
`NoTurnSkipped` (`NothingSkipped`). None of the three is inductive: what the next
collection reports hangs on a cursor that some earlier one saved, and on what the
file it is in will say by then. `IInv` adds to them:

- `FilesInv`: what `RecordingsAssumption` says of a recording, of every file with what is
  still to be copied into it. Files only grow; a record of another session stands
  where it stands in that session's own file.
- `CursorInv`, of each cursor, saved or prepared: it is what reading its file that far
  gives. If it began at the beginning it has exactly the use of the turn in progress
  (`Exact`), and what ended before it was reported (`Reported`); if it was seeded in the
  middle, it never has more than was used (`Known`). What ends behind it is its
  session's own (`OwnBehind`), unless the session is in `split`. This is why
  `Continued` may scan without the turns of the parent.
- `OnceInv`, of each event that was reported and each cursor from which its session could
  go on: the turn is behind the cursor, or reading on from it makes this same event
  again. It is what carries `EachTurnOnce` over a crash between the queue and the
  cursors, and over a migrated key.
- `LegacyInv` and `NextInv`: a session whose old cursor would be migrated was there before
  the cutover, and what is prepared for the sessions still to be looked at is what is
  saved.

The proof has two halves. The lemmas on scans are an instance of FoldTheory with
`Process` as its operator: `ScanInv` is kept by each kind of record, so that a scan from a
cursor that knows its file ends in one that does, with the events that the whole
file justifies and, from an exact cursor, all of them; and a scan goes through a file that has grown
as through what was there before. For the steps, whatever Codex writes is
one case (`GoesOn`: each file is a beginning of the file after it), each way through
`CollectCodex` is shown `Sound` (a right cursor, right events) and `Fresh` (no event beside
one already reported of the same turn), and what only moves the cycle is
`CycleOn`. TLC checked `IInv` as an invariant of `codex_turns` before it was proved.

**Lock file** (`LockFileProofs`). `Exclusive` proves mutual exclusion until the
clock has passed `StaleAfter`, the first moment at which a file can be stale
(`AllFresh`). Its invariant `FreshInv` says of that time `FileInv`: no thread is
about to remove a file it did not create, and the file of a thread that holds
the lock is its own. As the clock is never set back (`ClockAdvances`), what is fresh
after a step was fresh before it. Creation with `O_EXCL` is the whole argument, and
the proof shows that the in-process tokens are not needed for it. The condition
cannot be dropped: `lock_takeover` is the counterexample.

`RegistryKept` proves `RegistryInv`, with no condition on the clock: the
references of a lock are the threads that use it, all of one process; a registry
names only what is in use; and the token of a lock in use is free or owned by one
thread. From it follow `LockTyped` (`TypeOK`: a count never falls below zero) and,
as long as nothing is retired, `RegistryIsSound` (`RegistrySound`). Cardinalities
change by one with a thread at a time, and by all of a process in a crash; that
no two processes share a lock is what the second needs.

**Agent upgrade** (`DaemonCycleProofs`), as a part of the daemon's cycle, for any
worlds of it. `UpgradeKept` proves the inductive `UpgradeInv`; from it follow
`BinaryIsKept` (`BinaryKept`), `BundleIsWhole` (`BundleTogether`) and `FailuresWait`
(`RetriesWait`). `UpgradeStep` lists what a step of the cycle can do to the
upgrade (`CycleSteps`), so that the proofs have one case per rename and process,
and none per step of the cycle. The parts, beside the types:

- `StageInv`: each system has its own stages, and a process is in them only with
  a release that it verified.
- `ReplaceInv`, for Unix: as long as nothing overlapped there is one process
  between its first look at the binary and its last rename, and the old binary is
  where that process needs it. `BinaryKept` alone is not inductive: a process
  about to remove the old backup must know that the binary is there.
- `HelperInv` and `BundleInv`, for Windows: of each file of the bundle the helper
  has what was there before, at its place or, once it is moved, as its backup; when
  it installs, all are backed up. That is what makes a restoration after any
  failure whole, and keeps an agent meanwhile.
- `AttemptInv`: the record is no older than the last attempt it is about, a failure
  that was saved is still what it says, and a helper that may yet record a failure
  has no daemon that runs beside it. Without the last, a late record could name a
  target that has been tried again since.

**Rules** (`DaemonCycleProofs`), for any rules, hooks, guards and prompts beside any
upgrade. `GuardKept` proves `GuardInv`; from it follow `PermissionsHold`
(`RunsPermitted`) and `ContextAlwaysFits` (`ContextFits`), and with the invariant of
the upgrade `CycleTyped` (`TypeOK` of the whole cycle). Its parts:

- `FetchedInv`: what the daemon has fetched and not yet saved is no older than any
  of the three copies. Without it a save could put an older copy back and a hook's
  decision would be of rules older than what was there when it began.
- `Decided`, of each hook or guard where it is: once it took its rules they are at
  least as new as the copy it could have found; where it runs they do not block
  it; and where it runs without a grant, each approval they ask for has a warning
  behind it that overrides it. A prompt that goes through unchecked is one of Codex
  that could not be verified. It joins the step that reads the copy to the step,
  several later, that runs.
- `GrantInv`: of each command, the runs that an approval was consumed for and the
  approvals still there are together no more than were granted; the rest were lost
  with an answer.
- `Fitting`: the context rules taken keep both limits, and their length is counted
  with the lines between them. They are taken by a fold, and this is `FoldIn` with
  its operator (`Take`).

**Receipts, notices and pages** (`TurnNoticesProofs`). An output of a turn is a
token. `NoticesSafe` proves `NoticeInv`: a token that was not observed yet is nowhere;
every other is with one hook, in one directory or on one page, but for a hook
that has read the directory it claimed and has still to discard it, and then both
are one place. From it follows `OutputShownOnce` (`ShownOnce`): each rename, read,
removal and page keeps it, whichever hooks of a turn overlap and wherever they die.
The types (`NoticesTyped`) are part of it, and with them where each directory's
parents are, and how many pages there can be: `MaxDetails` of the present layout,
and those of the one before once for each hook that died while it moved them. The
proof asked for `MaxTurns` of at least 1.

`NoticesComplete` (`NoticeComplete`) says that something is there at the end of a row of
steps, and so needs to know what each step has still to do. `CompleteSafe` proves
`CompleteInv` beside `NoticeInv`; its parts:

- `SessionInv`, of each session whose turn nothing upset: its hooks are of that turn
  and one is alone, unless all of them record (`AloneInv`). By what that hook does and
  where it is, `HookDue` says what is in the receipt, the notice, the directory it claimed
  and its page; `SessionDue` says it of a session between two hooks. The notice is the
  output of the turn before until the prompt's hook claims it, then what it claimed is,
  then what it carries, then its page; the receipt and what tools' hooks have in
  flight are together all that was observed of the turn (`InFlight`). A step of one
  session leaves the paths and pages of the others alone (`Elsewhere`, `CleaningElsewhere`).
- `LiveInv` and `SweepInv`: turns are those of live sessions, and a clean-up takes no time that
  is still to come, so that what it removes is upset (`SweptExpired`).
- `StayInv`: the pages that are there are in the order in which they were written,
  and one that was written is there, has expired or has `MaxDetails` newer ones.
  It joins eviction, which takes the oldest of what it happened to read, to the order of
  all writes: of `MaxDetails + DetailRemovals + 1` entries read, those that go have enough
  newer ones whichever were read (`TrimmedOrder`).
- `OldInv`: a page of the layout before is there or was written, and a hook that moves
  them has it still on its list or it was written, also when another hook took over.
- `ToldInv`: the property for prompts that the agent was told of. A hook of a prompt is no
  longer at work only at the end of it or where it failed (`PromptEnds`).

**Codex transcripts** (`CodexTranscriptsProofs`). `TranscriptsSafe` proves `SendInv`, and
from it follow `TranscriptsSentOnce` (`SentOnce`) and `TranscriptsTyped` (`TypeOK`);
`NothingIsMissed` (`NothingMissed`) needs `FoundInv`, `KnownInv` and `CountInv` besides. That
each message goes out once is not inductive: a plan is made from a cursor that is saved
two commits later. `SendInv` says of each saved cursor, and of the one in the plan, that it
accounts for the queue (`CursorSafe`):

- no chunk of its session in the queue has a greater number than it counts, so
  that the next chunk has a number of its own;
- of each message in such a chunk it knows the version, and what it knows behind
  that version was all sent since (`Remembers`); or more than `MaxVersions` messages
  were sent since. The second half of this is what survives that a cursor forgets
  its oldest versions (`RememberLast`): what it keeps are the last of a sequence without
  doubles, and if they are full of what was sent since then that is more than
  `MaxVersions`;
- but for the chunks in doubt (`Doubtful`): those of collections that queued and did not
  save, and those of this one between its two commits. The saved cursor accounts
  for all but these, the planned one for those of its own plan as well.

Under it are lemmas about the operators: messages that are read have different IDs
(`LatestIDs`, `KeptIDs`, `WindowIDs`), what they are split into are parts within the
limits (`SplitParts`) that hold each message once (`SplitSpread`), and what is kept of
the unseen is without doubles.

`NothingMissed` says that a message due is queued, in a chunk of the plan, or history:
that the cache of discovery hides none, and that none is lost between reading and
queueing. The cache is right
about less than one would like: its times are those of the last time a directory was
read, and so may put a file that has grown behind another. `FoundInv` says what
holds all the same:

- the times of the file a session goes on in, the cached one as well as its own,
  are after all times of the session's other files (`CacheInv`), so that a cached
  home is what `DiscoveredPath` chooses (`HomeFound`);
- a directory whose time is the one that was seen has no file that is not cached,
  and if the root's is, every directory that is there has been read (`DirInv`);
- what is due has been read, or its file is cached with its header, or is in a
  directory that is still to be read (`DueInv`, `ToFind`).

What is due at the end was therefore read (`DueRead`): a session that would take its
place among the `MaxRows` has a file written later, which is what the property counts
by.

What was read is not all put into chunks: a plan leaves out what its cursor has seen.
`KnownInv` therefore says that all a cursor knows, by a version or by the hash of its
last reading, was told: it is in a chunk of the queue, or is history; and for the cursor
of the plan the chunks and the history of the plan count as well (`Knows`, `Told`). A
step that finds a session anew (`ToldFound`), and a plan that is carried out (`ToldNext`,
`ToldPlan`), keep it: each part that `Split` makes becomes a chunk, the last one too, and
what a baseline seeds or passes over goes to the history (`PlanHistory`). So every message
that was read is accounted for, whether it was new to the cursor or not. `CountInv` is that
each number a cursor counts is that of a chunk, in the queue or in the plan.

**What the proofs found in the model.** Attempts that failed, and what they changed:

- `SentOnce` had been stated without the limit of the cursor, and held only because
  no world had more messages than a cursor remembers. The code does send again what
  the cursor has forgotten, when an older file of a session is found once more; the
  property now says so, and a world meets it.
- `NothingMissed` had counted as the sessions written last those whose *present* file
  was. It fails with three paths and time for it, which no world of the run has: a
  session whose last file was archived goes on being read in an older one, and takes
  the place of another. `StillDue` now counts by the last file a session has.
- A rollout's path could be drawn twice in the model, and a session could go back
  to a file it had left, which Codex cannot do. `named` rules that out.
- The pages of the layout before could be those of prompts that were still to come, in
  TurnNotices: moving one would then have put it in place of a new page. No prompt
  is given the name of an older one; `NoticeAssumption` says so now.
- `Decide` of CommandGuard was a CASE whose arms overlapped, between which TLA+
  leaves the choice open; its alternatives are exclusive now, as in the code.
- `TypeOK` of TurnNotices bounded the pages by `MaxDetails` and the old layout's
  once. A migration that dies halfway and is taken over can leave more.
- An older agent's cursor in CodexTurns could stand in a fork before records that
  were copied from its parent, if these had no turn's name in them: `OldOffsets` looked at
  the name in a record and not at the turn the record is part of. No recording
  of the run had one.
- What Codex records was known to CodexTurns only by the recordings of the run;
  `RecordingsAssumption` is what the proof needs of them. Without `SharedKeys` an older
  agent could have reported a parent's turn under a key that the parent never had.

**Only model-checked.** Liveness of the queue, the lock, the receipts and the
daemon cycle, which is beyond the prover; and the properties of ClaudeUsage, for which
the recursive functions of Claude's transcripts (`Scan`, `Parse`, the merges) would
have to become folds first.

## 5. Plan

Done: the queue with its client, the lock, the usage of both coding agents, the
receipts, notices and pages of their hooks, the discovery and the chunks of
transcripts, the rules and what they decide, the upgrade and the daemon's
cycle; the proofs about the queue, the lock, the usage of Codex, the upgrade, the rules,
the notices and the transcripts. What is left, in this order:

1. **Proofs** over what is there. Type correctness of ClaudeUsage and `TurnsOnce`.
   Lemmas of UsageDelta: a delta is never
   negative, two deltas in a row charge what one would, and an advance keeps what
   the baseline advanced from below what it is at.
2. **A ledger** that charges each invocation once, which ClaudeUsage implements as
   long as nothing fails, as Outbox is to the queue.
3. **The cursor of MCP calls and the Codex usage baselines**, further commits of
   `collectAndQueue`. Their order and crash windows are those that ClaudeUsage and
   CodexTranscripts show for the stores beside them.
4. **The daily recap's claim** among the notices, and the output classifications
   among the rule caches.

### Not modelled, and why

- Redaction, titles, scores, matching, metering and the layout of messages are
  functions of text about which no property here speaks. Where a decision hangs on
  them (a rule matches, a finding is sensitive) their outcome is an input.
- Configuration, the MCP inventory and hook installation read or write files of
  other programs once, in one process. The first two layouts of the pages
  are removed whole by every clean-up, whatever is in them. `LegacyStats` only reads the
  file of the queue before this one.
- The Codex app client is a subprocess and its JSON-RPC, used at installation. The
  local activity server serves what ActivityDetails keeps, and changes nothing.
- `cmd/` and the scripts parse arguments and start processes.
- `atomicfile.Write` is assumed: it is why saving a store is one action.
