------------------------------ MODULE TurnNotices ------------------------------
(***************************************************************************)
(* Turn receipts and pending notices (src/pkg/turnreceipt), as the hooks of  *)
(* Claude Code and Codex use them (src/pkg/agent/turn_completion_notice.go): *)
(* the hook of a prompt begins a receipt, those of tools record output in it, *)
(* the hook of the turn's end consumes it and saves a pending notice, and the *)
(* next prompt's hook consumes that and shows it.  Hooks are processes: they  *)
(* overlap, they may be killed, and a hook at the start of any session cleans *)
(* up what expired.                                                         *)
(*                                                                         *)
(* A path is a directory below that of its session, which is below that of   *)
(* the agent type.  What happens under the lock of a path is one step, except *)
(* that a directory is made level by level: empty parents are removed without *)
(* a lock.  The lock itself is LockFile's; here it excludes, and the lock of a *)
(* hook that died is in the way for a while.                                *)
(*                                                                         *)
(* What is shown is the page of the prompt (ActivityDetails), whose store has *)
(* one lock.  The prompt's hook opens a page, records in it the rules that    *)
(* matched and what it found pending, and tells the agent of it.             *)
(***************************************************************************)
EXTENDS ActivityDetails, Functions

CONSTANTS
    Sessions,       \* numbers, as their hashes have an order
    Hooks,          \* hook processes, numbers as well
    Worlds,         \* what the agent is, who takes turns, what there is already
    TTL,            \* receiptTTL
    MaxFragments,   \* maxOutputFragments
    MaxVisits, MaxRemovals,             \* of one clean-up
    MaxTurns        \* bound on the turns of a session

ASSUME NoticeAssumption ==
    /\ Sessions \subseteq Nat \ {0} /\ Hooks \subseteq Nat \ {0}
    /\ TTL \in Nat \ {0} /\ MaxFragments \in Nat \ {0}
    /\ MaxVisits \in Nat \ {0} /\ MaxRemovals \in Nat \ {0}
    /\ MaxTurns \in Nat \ {0} /\ Sessions \X (0 .. MaxTurns) \subseteq Prompts
    /\ \A w \in Worlds :
        /\ w.agent \in {"claude_code", "codex"} /\ w.live \subseteq Sessions
        /\ w.turns \in 0 .. MaxTurns /\ w.cleanups \in BOOLEAN
        /\ w.rules \in BOOLEAN /\ w.interrupts \in BOOLEAN
        /\ w.left \subseteq [session : Sessions, key : 0 .. MaxTurns, claim : Hooks \cup {0}]
        /\ w.old \cup ToSet(w.kept) \subseteq Prompts /\ IsFiniteSet(w.old)
        \* What is left of the layout before are pages of earlier prompts.
        /\ w.old \cap (w.live \X (1 .. w.turns)) = {}
        /\ w.kept \in Seq(Prompts) /\ IsInjective(w.kept) /\ Len(w.kept) <= MaxDetails
        /\ w.tools \in Nat /\ w.crashes \in Nat /\ w.time \in Nat

VARIABLES
    world,          \* one of Worlds: the agent, the live sessions, whether rules
                    \* match, what was left behind, and bounds on turns, tools in
                    \* a turn, deaths and failures, clean-ups and the clock
    turn, busy,     \* session -> its last turn; sessions in the middle of one
    observed,       \* session -> the output of its turns
    agentDir,       \* whether the directory of the agent type exists
    sessionDirs,    \* the sessions that have a directory
    dirs,           \* path -> what is in it, of the directories there are
    deadLocks,      \* paths locked by a hook that died
    cursor,         \* where the clean-up goes on
    hook,           \* what each hook process does
    clock, crashes,
    upset           \* history: the turns in which something failed

agentVars == <<world, turn, busy, observed>>
treeVars == <<agentDir, sessionDirs, dirs>>
otherVars == <<clock, crashes, detailVars>>
vars == <<agentVars, treeVars, deadLocks, cursor, hook, otherVars, upset>>

-----------------------------------------------------------------------------
(* Paths: that of a turn, that of the pending notice, and what a hook        *)
(* renames one of them to in order to consume it.                           *)
Pending == 0
NoHook == 0

(* receiptPath: Claude Code names no turn, and all turns of a session share  *)
(* the path "active".                                                       *)
KeyOf(t) == IF world.agent = "codex" THEN t ELSE 1

PathOf(s, key) == [session |-> s, key |-> key, claim |-> NoHook]

(* The order in which a walk visits the directories *)
Place(p) == (p.session * (MaxTurns + 1) + p.key) * (Max(Hooks) + 1) + p.claim

(* A directory that was just made, and one with a receipt or notice in it *)
Made == [written |-> FALSE, since |-> clock, output |-> {}]
Written(output) == [written |-> TRUE, since |-> clock, output |-> output]

(* receiptDirectoryExpired: by the receipt, or else by the directory's time  *)
Expired(d, now) == IF d.written THEN d.since + TTL <= now ELSE d.since + TTL < now

-----------------------------------------------------------------------------
NoSweep == [left |-> {}, after |-> 0, complete |-> TRUE, now |-> 0]
NoWork == [task |-> "none", at |-> "idle", session |-> 0, turn |-> 0, output |-> {},
           page |-> FALSE, sweep |-> NoSweep]

Works(h, task) == hook[h].task = task
At(h, place) == hook[h].at = place

(* The locks cleanup.lock and activity-details.lock *)
Cleanup == PathOf(0, 0)
DetailLock == PathOf(0, 1)

(* What a hook works on *)
Target(h) ==
    IF hook[h].task \in {"open", "tell", "tidy"} THEN DetailLock
    ELSE PathOf(hook[h].session, IF hook[h].task \in {"show", "save"} THEN Pending ELSE KeyOf(hook[h].turn))

Claim(h) == [Target(h) EXCEPT !.claim = h]

(* withReceiptLock: only a write takes more than one step under the lock, but *)
(* a hook may die before the others' step as well.                           *)
Writing == {"mkAgent", "mkSession", "mkDir", "write", "move"}
Locking == {"lock", "record", "claim", "create", "context", "result", "expire"}
Locked(p) == p \in deadLocks \/ \E h \in Hooks : hook[h].at \in Writing /\ Target(h) = p

(* The hooks of a session for which its agent waits *)
Attending(s) == {h \in Hooks : hook[h].session = s /\ hook[h].turn = turn[s]}

(* What failed concerns the turn of the hook and the one that is under way. *)
Upset(h) == upset' = upset \cup {<<hook[h].session, t>> : t \in {hook[h].turn, turn[hook[h].session]}}

Without(p) == Restrict(dirs, DOMAIN dirs \ {p})

(* The directories where there is d at p, and as they were elsewhere in S *)
Holding(p, d, S) == [q \in S \cup {p} |-> IF q = p THEN d ELSE dirs[q]]

-----------------------------------------------------------------------------
(* A hook goes on to the next thing its event asks for. *)
Go(h, place) == hook' = [hook EXCEPT ![h].at = place]

NextTask(h, task, place) == hook' = [hook EXCEPT ![h].task = task, ![h].at = place]

End(h) == hook' = [hook EXCEPT ![h] = NoWork]

(* processUserPromptSubmit, processTurnStop: every operation is best effort. *)
Finish(h) ==
    CASE Works(h, "begin") ->
            /\ NextTask(h, "open", "create")
            /\ UNCHANGED busy
      [] Works(h, "show") ->
            /\ IF hook[h].output # {} /\ hook[h].page THEN NextTask(h, "tell", "result")
               ELSE End(h)
            /\ UNCHANGED busy
      [] Works(h, "consume") /\ hook[h].output # {} ->
            /\ NextTask(h, "save", "lock")
            /\ UNCHANGED busy
      [] Works(h, "clean") ->
            /\ Go(h, "sweep")
            /\ UNCHANGED busy
      [] OTHER ->
            /\ End(h)
            /\ busy' = IF Works(h, "record") \/ hook[h].turn # turn[hook[h].session] THEN busy
                       ELSE busy \ {hook[h].session}

(* An operation ends with an error, and what it had found is not used. *)
Fail(h) ==
    /\ Upset(h)
    /\ CASE Works(h, "begin") ->
                NextTask(h, "open", "create") /\ UNCHANGED busy
         [] Works(h, "open") ->
                NextTask(h, "show", "claim") /\ UNCHANGED busy
         [] Works(h, "record") ->
                Go(h, "prune") /\ UNCHANGED busy
         [] OTHER ->
                /\ End(h)
                /\ busy' = IF hook[h].task \in {"show", "tell"} \/ hook[h].turn # turn[hook[h].session] THEN busy
                           ELSE busy \ {hook[h].session}

-----------------------------------------------------------------------------
(* The coding agents *)
Started(h) == hook[h] = NoWork /\ \A g \in Hooks : g < h => hook[g] # NoWork

Work(task, place, s, output) ==
    [NoWork EXCEPT !.task = task, !.at = place, !.session = s, !.turn = turn'[s], !.output = output]

(* A hook of an interrupted turn may still run: it gets in the way of this. *)
SubmitPrompt(h, s) ==
    /\ Started(h) /\ s \notin busy /\ s \in world.live /\ turn[s] < world.turns
    /\ turn' = [turn EXCEPT ![s] = @ + 1]
    /\ busy' = busy \cup {s}
    /\ hook' = [hook EXCEPT ![h] = Work("begin", "lock", s, {})]
    /\ upset' = IF \E g \in Hooks : ~Works(g, "clean") /\ hook[g].session = s
                THEN upset \cup {<<s, turn'[s]>>} ELSE upset
    /\ UNCHANGED <<world, observed, treeVars, deadLocks, cursor, otherVars>>

OutputOf(s, t) == {o \in observed[s] : o[1] = t}

(* recordGrossToolUseBestEffortWithConfig, of a tool whose output was queued. *)
UseTool(h, s) ==
    LET made == Cardinality(OutputOf(s, turn[s]))
    IN  /\ world.agent = "claude_code"
        /\ Started(h) /\ s \in busy /\ made < world.tools
        /\ \A g \in Attending(s) : Works(g, "record")
        /\ observed' = [observed EXCEPT ![s] = @ \cup {<<turn[s], made + 1>>}]
        /\ UNCHANGED turn
        /\ hook' = [hook EXCEPT ![h] = Work("record", "record", s, {<<turn[s], made + 1>>})]
        /\ UNCHANGED <<world, busy, treeVars, deadLocks, cursor, otherVars, upset>>

(* processTurnStop: Codex is asked for what the turn made (recordCodexTurn). *)
StopTurn(h, s) ==
    /\ Started(h) /\ s \in busy /\ Attending(s) = {}
    /\ \E output \in IF world.agent = "codex" THEN {{}, {<<turn[s], 1>>}} ELSE {{}} :
        /\ observed' = [observed EXCEPT ![s] = @ \cup output]
        /\ UNCHANGED turn
        /\ hook' = [hook EXCEPT ![h] = Work("consume", "claim", s, output)]
    /\ UNCHANGED <<world, busy, treeVars, deadLocks, cursor, otherVars, upset>>

(* The user interrupts the turn: its end is not announced, and hooks that    *)
(* still run may outlive it.                                                *)
Interrupt(s) ==
    /\ world.interrupts /\ s \in busy
    /\ busy' = busy \ {s}
    /\ upset' = upset \cup {<<s, turn[s]>>}
    /\ UNCHANGED <<world, turn, observed, treeVars, deadLocks, cursor, hook, otherVars>>

-----------------------------------------------------------------------------
(* Store.Begin and Store.SavePending: remove what is there, make the         *)
(* directory, write the file.                                               *)
LockAndReset(h) ==
    /\ At(h, "lock") /\ ~Locked(Target(h))
    /\ dirs' = Without(Target(h))
    /\ Go(h, IF hook[h].session \in sessionDirs THEN "mkDir"
             ELSE IF agentDir THEN "mkSession" ELSE "mkAgent")
    /\ UNCHANGED <<agentVars, agentDir, sessionDirs, deadLocks, cursor, otherVars, upset>>

(* os.MkdirAll: a level whose parent has gone fails. *)
MakeAgentDir(h) ==
    /\ At(h, "mkAgent")
    /\ agentDir' = TRUE
    /\ Go(h, "mkSession")
    /\ UNCHANGED <<agentVars, sessionDirs, dirs, deadLocks, cursor, otherVars, upset>>

MakeSessionDir(h) ==
    /\ At(h, "mkSession") /\ agentDir
    /\ sessionDirs' = sessionDirs \cup {hook[h].session}
    /\ Go(h, "mkDir")
    /\ UNCHANGED <<agentVars, agentDir, dirs, deadLocks, cursor, otherVars, upset>>

MakeDir(h) ==
    /\ At(h, "mkDir") /\ hook[h].session \in sessionDirs
    /\ dirs' = Holding(Target(h), Made, DOMAIN dirs)
    /\ Go(h, "write")
    /\ UNCHANGED <<agentVars, agentDir, sessionDirs, deadLocks, cursor, otherVars, upset>>

ParentGone(h) ==
    \/ At(h, "mkSession") /\ ~agentDir
    \/ At(h, "mkDir") /\ hook[h].session \notin sessionDirs

MakeFails(h) ==
    /\ ParentGone(h)
    /\ Fail(h)
    /\ UNCHANGED <<world, turn, observed, treeVars, deadLocks, cursor, otherVars>>

WriteFile(h) ==
    /\ At(h, "write")
    /\ dirs' = [dirs EXCEPT ![Target(h)] = Written(hook[h].output)]
    /\ Finish(h)
    /\ UNCHANGED <<world, turn, observed, agentDir, sessionDirs, deadLocks, cursor, otherVars, upset>>

(* Store.RecordOutput: only if there is a receipt. *)
HasReceipt(p) == p \in DOMAIN dirs /\ dirs[p].written

RecordOutput(h) ==
    /\ At(h, "record") /\ ~Locked(Target(h))
    /\ IF ~HasReceipt(Target(h)) THEN UNCHANGED <<dirs, upset>>
       ELSE IF Cardinality(dirs[Target(h)].output) >= MaxFragments THEN Upset(h) /\ UNCHANGED dirs
       ELSE /\ dirs' = [dirs EXCEPT ![Target(h)].output = @ \cup hook[h].output]
            /\ UNCHANGED upset
    /\ Go(h, "prune")
    /\ UNCHANGED <<agentVars, agentDir, sessionDirs, deadLocks, cursor, otherVars>>

(* Faulty variant: what is consumed stays until the next turn. *)
ClaimItCopying(h) ==
    /\ At(h, "claim") /\ ~Locked(Target(h))
    /\ IF Target(h) \in DOMAIN dirs
       THEN /\ dirs' = Holding(Claim(h), dirs[Target(h)], DOMAIN dirs)
            /\ Go(h, "read")
       ELSE /\ hook' = [hook EXCEPT ![h].at = "prune", ![h].output = {}]
            /\ UNCHANGED dirs
    /\ UNCHANGED <<agentVars, agentDir, sessionDirs, deadLocks, cursor, otherVars, upset>>

(* Store.Consume and Store.ConsumePending: rename it under the lock, ...     *)
ClaimIt(h) ==
    /\ At(h, "claim") /\ ~Locked(Target(h))
    /\ IF Target(h) \in DOMAIN dirs
       THEN /\ dirs' = Holding(Claim(h), dirs[Target(h)], DOMAIN dirs \ {Target(h)})
            /\ Go(h, "read")
       ELSE /\ hook' = [hook EXCEPT ![h].at = "prune", ![h].output = {}]
            /\ UNCHANGED dirs
    /\ UNCHANGED <<agentVars, agentDir, sessionDirs, deadLocks, cursor, otherVars, upset>>

(* ... read it, if it has not expired, ...                                  *)
ReadClaim(h) ==
    LET written == HasReceipt(Claim(h))
        found == written /\ ~Expired(dirs[Claim(h)], clock)
    IN  /\ At(h, "read")
        /\ hook' = [hook EXCEPT ![h].at = "discard",
                                ![h].output = IF found THEN @ \cup dirs[Claim(h)].output ELSE {}]
        /\ IF written /\ ~found THEN Upset(h) ELSE UNCHANGED upset
        /\ UNCHANGED <<agentVars, treeVars, deadLocks, cursor, otherVars>>

(* ... and remove it.                                                       *)
DiscardClaim(h) ==
    /\ At(h, "discard")
    /\ dirs' = Without(Claim(h))
    /\ Go(h, "prune")
    /\ UNCHANGED <<agentVars, agentDir, sessionDirs, deadLocks, cursor, otherVars, upset>>

(* acquireReceiptLock gives up after receiptLockWait. *)
LockTimesOut(h) ==
    /\ hook[h].at \in Locking \ {"expire"} /\ Locked(Target(h))
    /\ Fail(h)
    /\ UNCHANGED <<world, turn, observed, treeVars, deadLocks, cursor, otherVars>>

(* pruneEmptyParents: the directory of the session, then that of the agent. *)
(* Faulty variant: only directories with something written in them count. *)
IsEmptyOfFiles(s) == \A p \in DOMAIN dirs : p.session = s => ~dirs[p].written

IsEmpty(s) == \A p \in DOMAIN dirs : p.session # s

Prune(h) ==
    LET s == hook[h].session
    IN  /\ At(h, "prune")
        /\ IF s \in sessionDirs /\ IsEmpty(s)
           THEN /\ sessionDirs' = sessionDirs \ {s}
                /\ Go(h, "pruneAgent")
                /\ UNCHANGED <<busy>>
           ELSE Finish(h) /\ UNCHANGED sessionDirs
        /\ UNCHANGED <<world, turn, observed, agentDir, dirs, deadLocks, cursor, otherVars, upset>>

PruneAgent(h) ==
    /\ At(h, "pruneAgent")
    /\ agentDir' = (agentDir /\ sessionDirs # {})
    /\ Finish(h)
    /\ UNCHANGED <<world, turn, observed, sessionDirs, dirs, deadLocks, cursor, otherVars, upset>>

-----------------------------------------------------------------------------
(* cleanupTurnReceiptsBestEffort, at the start of any session: first         *)
(* Store.CleanupExpired of the receipts, one at a time, then Store.Cleanup of  *)
(* the pages.  Neither waits for its lock.                                   *)
Tidying == [NoWork EXCEPT !.task = "tidy", !.at = "expire"]

StartSweep(h) ==
    /\ Started(h) /\ world.cleanups
    /\ hook' = [hook EXCEPT ![h] =
                    IF Cleanup \notin deadLocks /\ \A g \in Hooks : ~Works(g, "clean")
                    THEN [NoWork EXCEPT !.task = "clean", !.at = "scan"]
                    ELSE Tidying]
    /\ UNCHANGED <<agentVars, treeVars, deadLocks, cursor, otherVars, upset>>

(* scanCleanupCandidates: of the directories behind the cursor, as many as   *)
(* may be visited, and as many as contain no more expired ones than may be   *)
(* removed.                                                                 *)
Behind(place) == {p \in DOMAIN dirs : Place(p) > place}

UpTo(p, place) == {q \in Behind(place) : Place(q) <= Place(p)}

Visited(place, now) ==
    {p \in Behind(place) :
        /\ Cardinality(UpTo(p, place)) <= MaxVisits
        /\ Cardinality({q \in UpTo(p, place) : Expired(dirs[q], now)}) <= MaxRemovals}

Scan(h) ==
    LET visited == Visited(cursor, clock)
    IN  /\ At(h, "scan")
        /\ hook' = [hook EXCEPT ![h].at = "sweep",
                ![h].sweep = [left |-> {p \in visited : Expired(dirs[p], clock)},
                              after |-> Max({cursor} \cup {Place(p) : p \in visited}),
                              complete |-> visited = Behind(cursor) /\ Cardinality(visited) < MaxVisits,
                              now |-> clock]]
        /\ UNCHANGED <<agentVars, treeVars, deadLocks, cursor, otherVars, upset>>

(* removeExpiredDirectory looks at the directory again, under its lock if it *)
(* has one.                                                                 *)
StillExpired(h, p) == p \in DOMAIN dirs /\ Expired(dirs[p], hook[h].sweep.now)

SweepNext(h) ==
    /\ At(h, "sweep") /\ hook[h].sweep.left # {}
    /\ \E p \in hook[h].sweep.left :
        /\ \A q \in hook[h].sweep.left : Place(p) <= Place(q)
        /\ LET swept == [hook[h] EXCEPT !.sweep.left = @ \ {p}]
           IN  IF StillExpired(h, p) /\ (p.claim = NoHook => ~Locked(p))
               THEN /\ dirs' = Without(p)
                    /\ hook' = [hook EXCEPT ![h] = [swept EXCEPT !.at = "prune", !.session = p.session]]
                    /\ upset' = IF Expired(dirs[p], clock) THEN upset \cup {<<p.session, turn[p.session]>>}
                                ELSE upset
               ELSE /\ hook' = [hook EXCEPT ![h] = swept]
                    /\ UNCHANGED <<dirs, upset>>
    /\ UNCHANGED <<agentVars, agentDir, sessionDirs, deadLocks, cursor, otherVars>>

(* Faulty variant: the cursor is never cleared. *)
EndSweepGoingOn(h) ==
    /\ At(h, "sweep") /\ hook[h].sweep.left = {}
    /\ cursor' = hook[h].sweep.after
    /\ hook' = [hook EXCEPT ![h] = Tidying]
    /\ UNCHANGED <<agentVars, treeVars, deadLocks, otherVars, upset>>

(* The cursor is kept if there is more to visit. *)
EndSweep(h) ==
    /\ At(h, "sweep") /\ hook[h].sweep.left = {}
    /\ cursor' = IF hook[h].sweep.complete THEN 0 ELSE hook[h].sweep.after
    /\ hook' = [hook EXCEPT ![h] = Tidying]
    /\ UNCHANGED <<agentVars, treeVars, deadLocks, otherVars, upset>>

-----------------------------------------------------------------------------
(* The page of the prompt *)
Page(h) == <<hook[h].session, hook[h].turn>>

receiptVars == <<agentVars, treeVars, deadLocks, cursor, clock>>

(* Store.Begin *)
OpenPage(h) ==
    /\ At(h, "create") /\ ~Locked(DetailLock)
    /\ CreateDetail(Page(h), clock)
    /\ hook' = [hook EXCEPT ![h].page = TRUE,
                            ![h].task = IF world.rules THEN "open" ELSE "show",
                            ![h].at = IF world.rules THEN "context" ELSE "claim"]
    /\ UNCHANGED <<receiptVars, crashes, oldDetails, detailCursor, upset>>

(* Store.RecordContext, if rules other than those for every prompt matched. *)
RecordRules(h) ==
    /\ At(h, "context") /\ ~Locked(DetailLock)
    /\ IF Recordable(Page(h), clock) THEN RecordContext(Page(h)) /\ UNCHANGED upset
       ELSE Upset(h) /\ UNCHANGED <<details, lastWrites>>
    /\ NextTask(h, "show", "claim")
    /\ UNCHANGED <<receiptVars, crashes, oldDetails, detailCursor>>

(* Store.RecordOutput of what was pending, and the hook's answer names the page. *)
TellResult(h) ==
    /\ At(h, "result") /\ ~Locked(DetailLock)
    /\ IF Recordable(Page(h), clock)
       THEN RecordOutcome(Page(h), hook[h].output) /\ UNCHANGED upset
       ELSE Upset(h) /\ UNCHANGED <<details, lastWrites>>
    /\ End(h)
    /\ UNCHANGED <<receiptVars, crashes, oldDetails, detailCursor>>

(* Store.Cleanup: the layout before, what expired, what is too much.         *)
RemoveDetails(h) ==
    /\ At(h, "expire") /\ oldDetails = {} /\ ~Locked(DetailLock)
    /\ RemoveExpiredAndTrim(clock)
    /\ End(h)
    /\ UNCHANGED <<receiptVars, crashes, oldDetails, lastWrites, upset>>

StartMove(h) ==
    /\ At(h, "expire") /\ oldDetails # {} /\ ~Locked(DetailLock)
    /\ hook' = [hook EXCEPT ![h].at = "move", ![h].sweep.left = {d.id : d \in oldDetails}]
    /\ UNCHANGED <<receiptVars, crashes, detailVars, upset>>

SkipDetails(h) ==
    /\ At(h, "expire") /\ Locked(DetailLock)
    /\ End(h)
    /\ UNCHANGED <<receiptVars, crashes, detailVars, upset>>

(* One file is moved over, ... *)
MoveNext(h) ==
    /\ At(h, "move")
    /\ \E d \in oldDetails :
        /\ d.id \in hook[h].sweep.left
        /\ IF d \in Movable(clock) THEN WriteDetail(d) ELSE UNCHANGED <<details, lastWrites>>
        /\ hook' = [hook EXCEPT ![h].sweep.left = @ \ {d.id}]
    /\ UNCHANGED <<receiptVars, crashes, oldDetails, detailCursor, upset>>

(* ... or cannot be written. *)
MoveFails(h) ==
    /\ At(h, "move") /\ crashes < world.crashes
    /\ \E d \in Movable(clock) :
        /\ d.id \in hook[h].sweep.left
        /\ hook' = [hook EXCEPT ![h].sweep.left = @ \ {d.id}, ![h].sweep.complete = FALSE]
        /\ upset' = upset \cup {d.id}
    /\ crashes' = crashes + 1
    /\ UNCHANGED <<receiptVars, detailVars>>

(* The old ones are removed in any case; after a failure the rest is left.   *)
DropOld(h) ==
    /\ At(h, "move") /\ hook[h].sweep.left = {}
    /\ oldDetails' = {}
    /\ IF hook[h].sweep.complete THEN RemoveExpiredAndTrim(clock)
       ELSE UNCHANGED <<details, detailCursor>>
    /\ End(h)
    /\ UNCHANGED <<receiptVars, crashes, lastWrites, upset>>

-----------------------------------------------------------------------------
(* A hook dies, or is killed when its time is over. *)
Crash(h) ==
    /\ hook[h] # NoWork /\ crashes < world.crashes
    /\ crashes' = crashes + 1
    /\ \/ hook[h].at \notin Writing /\ ~Works(h, "clean") /\ UNCHANGED deadLocks
       \/ hook[h].at \in Writing /\ deadLocks' = deadLocks \cup {Target(h)}
       \/ hook[h].at \in Locking /\ ~Locked(Target(h)) /\ deadLocks' = deadLocks \cup {Target(h)}
       \/ Works(h, "clean") /\ deadLocks' = deadLocks \cup {Cleanup}
    /\ End(h)
    /\ IF hook[h].task \in {"clean", "tidy"} THEN UNCHANGED <<busy, upset>>
       ELSE /\ Upset(h)
            /\ busy' = IF hook[h].task \in {"consume", "save"} /\ hook[h].turn = turn[hook[h].session]
                       THEN busy \ {hook[h].session} ELSE busy
    /\ UNCHANGED <<world, turn, observed, treeVars, cursor, clock, detailVars>>

(* The lock of a dead hook becomes stale and is taken over. *)
LockExpires(p) ==
    /\ p \in deadLocks
    /\ deadLocks' = deadLocks \ {p}
    /\ UNCHANGED <<agentVars, treeVars, cursor, hook, otherVars, upset>>

Tick ==
    /\ clock < world.time
    /\ clock' = clock + 1
    /\ UNCHANGED <<agentVars, treeVars, deadLocks, cursor, hook, crashes, detailVars, upset>>

-----------------------------------------------------------------------------
Init ==
    /\ world \in Worlds
    /\ turn = [s \in Sessions |-> 0] /\ busy = {} /\ observed = [s \in Sessions |-> {}]
    /\ dirs = [p \in world.left |-> [written |-> TRUE, since |-> 0, output |-> {}]]
    /\ sessionDirs = {p.session : p \in world.left} /\ agentDir = (world.left # {})
    /\ deadLocks = {} /\ cursor = 0
    /\ hook = [h \in Hooks |-> NoWork]
    /\ clock = 0 /\ crashes = 0
    /\ LET left(id) == [NewDetail(id, 0) EXCEPT !.context = TRUE]
       IN  /\ details = [i \in DOMAIN world.kept |-> left(world.kept[i])]
           /\ oldDetails = {left(id) : id \in world.old}
    /\ detailCursor = 0 /\ lastWrites = details
    /\ upset = {}

Goes(h) ==
    \/ LockAndReset(h) \/ MakeAgentDir(h) \/ MakeSessionDir(h) \/ MakeDir(h) \/ MakeFails(h)
    \/ WriteFile(h) \/ RecordOutput(h)
    \/ ClaimIt(h) \/ ReadClaim(h) \/ DiscardClaim(h) \/ LockTimesOut(h)
    \/ Prune(h) \/ PruneAgent(h)
    \/ Scan(h) \/ SweepNext(h) \/ EndSweep(h)
    \/ OpenPage(h) \/ RecordRules(h) \/ TellResult(h)
    \/ RemoveDetails(h) \/ StartMove(h) \/ SkipDetails(h)
    \/ MoveNext(h) \/ MoveFails(h) \/ DropOld(h)

Next ==
    \/ \E h \in Hooks, s \in Sessions : SubmitPrompt(h, s) \/ UseTool(h, s) \/ StopTurn(h, s)
    \/ \E s \in Sessions : Interrupt(s)
    \/ \E h \in Hooks : StartSweep(h) \/ Goes(h) \/ Crash(h)
    \/ \E p \in deadLocks : LockExpires(p)
    \/ Tick

Spec == Init /\ [][Next]_vars

(* Hooks run, locks of dead ones become stale, and sessions are started now  *)
(* and then.                                                                *)
Fairness ==
    /\ \A h \in Hooks : WF_vars(Goes(h))
    /\ SF_vars(\E h \in Hooks : StartSweep(h))
    /\ WF_vars(\E p \in deadLocks : LockExpires(p))

FairSpec == Spec /\ Fairness

-----------------------------------------------------------------------------
Tasks == {"none", "begin", "open", "show", "tell", "record", "consume", "save",
          "clean", "tidy"}

(* Every variable has its type, and a directory has its parents. *)
TypeOK ==
    /\ world \in Worlds
    /\ turn \in [Sessions -> 0 .. MaxTurns] /\ busy \subseteq Sessions
    /\ agentDir \in BOOLEAN /\ sessionDirs \subseteq Sessions
    /\ \A p \in DOMAIN dirs : p.session \in sessionDirs /\ p.claim \in Hooks \cup {NoHook}
    /\ sessionDirs # {} => agentDir
    /\ \A h \in Hooks : hook[h].task \in Tasks
    /\ DetailsTypeOK
    /\ Len(details) <= MaxDetails + (crashes + 1) * Cardinality(world.old)
    /\ clock \in 0 .. world.time /\ crashes \in 0 .. world.crashes

(* No output is shown twice: of two hooks that consume the same receipt or   *)
(* notice one gets it, whatever dies in between, and it is on one page.      *)
ShownOnce ==
    \A c, d \in ToSet(lastWrites) :
        c.id[1] = d.id[1] /\ c.output \cap d.output # {} => c = d

(* The hook of the prompt has done its work, and nothing went wrong in its    *)
(* turn nor in the one before.                                              *)
Told(s, t) ==
    /\ <<s, t>> \notin upset /\ <<s, t - 1>> \notin upset
    /\ \A h \in Hooks :
        Page(h) = <<s, t>> => hook[h].task \notin {"begin", "open", "show", "tell"}

(* The page of a prompt shows the rules that matched and all output of the   *)
(* turn before, no other, unless something failed in one of the two turns;    *)
(* and it stays, as it is, until it expires or MaxDetails pages were written   *)
(* after it: no clean-up, pruning, eviction or hook of another session gets    *)
(* in the way, and the pages of the layout before are kept unless they cannot *)
(* be written.                                                             *)
NoticeComplete ==
    /\ \A s \in Sessions : \A t \in 1 .. turn[s] :
        Told(s, t) => \E d \in Of(lastWrites, <<s, t>>) :
                        d.context = world.rules /\ d.output = OutputOf(s, t - 1)
    /\ \A i \in DOMAIN lastWrites :
        i + MaxDetails > Len(lastWrites) /\ ~DetailExpired(lastWrites[i], clock)
        => lastWrites[i] \in ToSet(details)
    /\ \A id \in world.old \ upset :
        clock < DetailTTL => id \in {d.id : d \in oldDetails \cup ToSet(lastWrites)}

(* Whatever expired goes, receipts, notices and pages, however few of them a  *)
(* clean-up may visit and remove, and whatever hooks and clean-ups died on    *)
(* the way.                                                                *)
ExpiredGoes ==
    []<>(/\ \A p \in DOMAIN dirs : ~Expired(dirs[p], clock)
         /\ ExpiredDetails(clock) = {})

(* "Different sessions use different state keys and are completely isolated": *)
(* while nothing went wrong in any session, no directory that one is about to *)
(* use goes because of another.                                              *)
SessionsIsolated == upset = {} => \A h \in Hooks : ~ParentGone(h)
=============================================================================
