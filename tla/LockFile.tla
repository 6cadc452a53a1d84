------------------------------- MODULE LockFile -------------------------------
(***************************************************************************)
(* The file lock of src/pkg/lockfile, for one path.  A lock is a file that  *)
(* its owner created with O_EXCL; a file left by a process that died is     *)
(* taken over once its modification time is more than StaleAfter ago.       *)
(* Inside a process a registry of tokens comes first, so that its threads   *)
(* do not race for the file.                                                *)
(*                                                                         *)
(* One action per system call or registry operation of Acquire and of the   *)
(* unlock function it returns: anything may happen in between.              *)
(***************************************************************************)
EXTENDS Naturals, FiniteSets

CONSTANTS
    Threads,        \* callers of Acquire, one acquisition at a time each
    ProcessOf,      \* the process each of them runs in
    Waiting,        \* those that call Acquire with wait set
    StaleAfter,     \* Options.StaleAfter
    MaxTime,        \* bound on the clock
    MaxCrashes,     \* bound on the crashes
    NoThread        \* owner of no file

Processes == {ProcessOf[t] : t \in Threads}

(* One processLock each: no more are referenced at any time. *)
Locks == 1 .. Cardinality(Threads)
NoLock == 0

ASSUME LockAssumption ==
    /\ IsFiniteSet(Threads)
    /\ DOMAIN ProcessOf = Threads
    /\ Waiting \subseteq Threads
    /\ StaleAfter \in Nat /\ MaxTime \in Nat /\ MaxCrashes \in Nat
    /\ NoThread \notin Threads

VARIABLES
    directory,  \* whether the directory of the path exists
    owner,      \* the thread whose lock file the path names
    modified,   \* the modification time of that file
    registry,   \* process -> the processLock of the path
    token,      \* processLocks whose token is in their channel
    refs,       \* reference count of each processLock
    using,      \* the processLock each thread has a reference to
    pc,         \* where each thread is in Acquire and unlock
    late,       \* threads still in Acquire whose deadline has passed
    now,
    crashes

fileVars == <<directory, owner, modified>>
lockVars == <<registry, token, refs, using>>
vars == <<fileVars, lockVars, pc, late, now, crashes>>

Init ==
    /\ directory = FALSE /\ owner = NoThread /\ modified = 0
    /\ registry = [p \in Processes |-> NoLock]
    /\ token = {}
    /\ refs = [l \in Locks |-> 0]
    /\ using = [t \in Threads |-> NoLock]
    /\ pc = [t \in Threads |-> "idle"]
    /\ late = {}
    /\ now = 0 /\ crashes = 0

Goto(t, place) == pc' = [pc EXCEPT ![t] = place]

At(t, place) == pc[t] = place

Exists == owner # NoThread

(* Faulty variant: a file exactly StaleAfter old is stale. *)
StaleTooSoon == Exists /\ modified + StaleAfter <= now

(* os.Stat finds a file modified before now.Add(-StaleAfter). *)
Stale == Exists /\ modified + StaleAfter < now

Remove == owner' = NoThread /\ modified' = 0 /\ UNCHANGED directory

-----------------------------------------------------------------------------
(* os.MkdirAll, and the first stat of retireStaleProcessLock, before the     *)
(* token is asked for.  Acquire returns at once when the directory cannot be *)
(* made, and nothing has changed.                                            *)
Call(t) ==
    /\ At(t, "idle")
    /\ directory' = TRUE
    /\ Goto(t, IF Stale THEN "retire" ELSE "enter")
    /\ UNCHANGED <<owner, modified, lockVars, late, now, crashes>>

RetireStat(t) ==
    /\ At(t, "retire")
    /\ Goto(t, IF ~Exists THEN "forget" ELSE IF Stale THEN "retireRemove" ELSE "enter")
    /\ UNCHANGED <<fileVars, lockVars, late, now, crashes>>

RetireRemove(t) ==
    /\ At(t, "retireRemove")
    /\ Remove
    /\ Goto(t, "forget")
    /\ UNCHANGED <<lockVars, late, now, crashes>>

Forget(t) ==
    /\ At(t, "forget")
    /\ registry' = [registry EXCEPT ![ProcessOf[t]] = NoLock]
    /\ Goto(t, "enter")
    /\ UNCHANGED <<fileVars, token, refs, using, late, now, crashes>>

-----------------------------------------------------------------------------
(* acquireProcessLock *)
Unused == {l \in Locks : refs[l] = 0}

Enter(t) ==
    LET p == ProcessOf[t]
        new == registry[p] = NoLock
        l == IF new THEN CHOOSE u \in Unused : TRUE ELSE registry[p]
    IN  /\ At(t, "enter")
        /\ registry' = [registry EXCEPT ![p] = l]
        /\ token' = IF new THEN token \cup {l} ELSE token
        /\ refs' = [refs EXCEPT ![l] = @ + 1]
        /\ using' = [using EXCEPT ![t] = l]
        /\ Goto(t, "token")
        /\ UNCHANGED <<fileVars, late, now, crashes>>

TakeToken(t) ==
    /\ At(t, "token") /\ using[t] \in token
    /\ token' = token \ {using[t]}
    /\ Goto(t, "create")
    /\ UNCHANGED <<fileVars, registry, refs, using, late, now, crashes>>

(* A caller that does not wait finds no token, or the timer fires. *)
MissToken(t) ==
    /\ At(t, "token")
    /\ IF t \in Waiting THEN t \in late ELSE using[t] \notin token
    /\ Goto(t, "release")
    /\ UNCHANGED <<fileVars, lockVars, late, now, crashes>>

-----------------------------------------------------------------------------
(* The loop of Acquire around the creation of the file *)
(* Faulty variant: the file's time is that of a clock which runs ahead. *)
CreateAhead(t) ==
    /\ At(t, "create") /\ directory /\ ~Exists
    /\ owner' = t /\ modified' = now + 1
    /\ \/ Goto(t, "holding")
       \/ Goto(t, "abandon")
    /\ late' = late \ {t}
    /\ UNCHANGED <<directory, lockVars, now, crashes>>

Create(t) ==
    /\ At(t, "create") /\ directory /\ ~Exists
    /\ owner' = t /\ modified' = now
    /\ \/ Goto(t, "holding")
       \/ Goto(t, "abandon")
    /\ late' = late \ {t}
    /\ UNCHANGED <<directory, lockVars, now, crashes>>

(* The stat of the file just created failed. *)
Abandon(t) ==
    /\ At(t, "abandon")
    /\ Remove
    /\ Goto(t, "return")
    /\ UNCHANGED <<lockVars, late, now, crashes>>

(* ErrNotExist: the directory of the path has gone.                          *)
CreateNowhere(t) ==
    /\ At(t, "create") /\ ~directory
    /\ Goto(t, "mkdir")
    /\ UNCHANGED <<fileVars, lockVars, late, now, crashes>>

(* It is made again, and the loop goes round until the deadline, for a caller *)
(* that does not wait as well.                                               *)
MakeDirectory(t) ==
    /\ At(t, "mkdir")
    /\ directory' = TRUE
    /\ Goto(t, IF t \in late THEN "return" ELSE "create")
    /\ UNCHANGED <<owner, modified, lockVars, late, now, crashes>>

CreateExists(t) ==
    /\ At(t, "create") /\ Exists
    /\ Goto(t, "stat")
    /\ UNCHANGED <<fileVars, lockVars, late, now, crashes>>

(* Faulty variant: the deadline is not looked at. *)
StatFileWaitsOn(t) ==
    /\ At(t, "stat")
    /\ Goto(t, IF ~Exists \/ (t \in Waiting /\ ~Stale) THEN "create"
               ELSE IF Stale THEN "remove" ELSE "return")
    /\ UNCHANGED <<fileVars, lockVars, late, now, crashes>>

(* RemoveStale's stat, and what the loop does with a file that is not stale.  *)
(* One that has gone counts as removed: the loop goes round at once, whether *)
(* the deadline has passed or not.                                           *)
StatFile(t) ==
    /\ At(t, "stat")
    /\ Goto(t, IF ~Exists THEN "create"
               ELSE IF Stale THEN "remove"
               ELSE IF t \in Waiting /\ t \notin late THEN "create"
               ELSE "return")
    /\ UNCHANGED <<fileVars, lockVars, late, now, crashes>>

(* Faulty variant: RemoveStale keeps the file. *)
RemoveFileNever(t) ==
    /\ At(t, "remove")
    /\ Goto(t, "create")
    /\ UNCHANGED <<fileVars, lockVars, late, now, crashes>>

RemoveFile(t) ==
    /\ At(t, "remove")
    /\ Remove
    /\ Goto(t, "create")
    /\ UNCHANGED <<lockVars, late, now, crashes>>

-----------------------------------------------------------------------------
(* The function Acquire returns *)
Unlock(t) ==
    /\ At(t, "holding")
    /\ Goto(t, IF owner = t THEN "unlink" ELSE "return")
    /\ UNCHANGED <<fileVars, lockVars, late, now, crashes>>

Unlink(t) ==
    /\ At(t, "unlink")
    /\ Remove
    /\ Goto(t, "return")
    /\ UNCHANGED <<lockVars, late, now, crashes>>

ReturnToken(t) ==
    /\ At(t, "return")
    /\ token' = token \cup {using[t]}
    /\ Goto(t, "release")
    /\ UNCHANGED <<fileVars, registry, refs, using, late, now, crashes>>

(* Faulty variant: the registry entry goes with the first reference. *)
ReleaseEarly(t) ==
    /\ At(t, "release")
    /\ refs' = [refs EXCEPT ![using[t]] = @ - 1]
    /\ registry' = [registry EXCEPT ![ProcessOf[t]] = IF @ = using[t] THEN NoLock ELSE @]
    /\ using' = [using EXCEPT ![t] = NoLock]
    /\ Goto(t, "idle")
    /\ late' = late \ {t}
    /\ UNCHANGED <<fileVars, token, now, crashes>>

(* releaseProcessLockReference *)
Release(t) ==
    LET l == using[t]
        last == refs[l] = 1
    IN  /\ At(t, "release")
        /\ refs' = [refs EXCEPT ![l] = @ - 1]
        /\ registry' = [registry EXCEPT ![ProcessOf[t]] = IF last /\ @ = l THEN NoLock ELSE @]
        /\ token' = IF last THEN token \ {l} ELSE token
        /\ using' = [using EXCEPT ![t] = NoLock]
        /\ Goto(t, "idle")
        /\ late' = late \ {t}
        /\ UNCHANGED <<fileVars, now, crashes>>

-----------------------------------------------------------------------------
(* RemoveStale as the clean-up of the turn receipts calls it, without a token *)
SweepStat(t) ==
    /\ At(t, "idle") /\ Stale
    /\ Goto(t, "sweep")
    /\ UNCHANGED <<fileVars, lockVars, late, now, crashes>>

SweepRemove(t) ==
    /\ At(t, "sweep")
    /\ Remove
    /\ Goto(t, "idle")
    /\ UNCHANGED <<lockVars, late, now, crashes>>

-----------------------------------------------------------------------------
(* Where a thread goes when a file operation fails.  An error of the stat and *)
(* the removals by which a lock is given back is not looked at: the file stays. *)
Early == {"retire", "retireRemove", "sweep"}
WithToken == {"create", "mkdir", "stat", "remove", "abandon", "holding", "unlink"}
OnError == [place \in Early \cup WithToken |-> IF place \in Early THEN "idle" ELSE "return"]

FileError(t) ==
    /\ pc[t] \in DOMAIN OnError
    /\ Goto(t, OnError[pc[t]])
    /\ UNCHANGED <<fileVars, lockVars, late, now, crashes>>

(* The deadline matters from the moment it is set until the loop is left. *)
DeadlinePasses(t) ==
    /\ pc[t] \in {"token", "create", "mkdir", "stat", "remove"} /\ t \notin late
    /\ late' = late \cup {t}
    /\ UNCHANGED <<fileVars, lockVars, pc, now, crashes>>

(* Somebody else removes the directory while it is empty. *)
LoseDirectory ==
    /\ directory /\ ~Exists
    /\ directory' = FALSE
    /\ UNCHANGED <<owner, modified, lockVars, pc, late, now, crashes>>

(* A process dies and is started again; its lock file stays. *)
Crash(p) ==
    LET mine == {t \in Threads : ProcessOf[t] = p}
        gone == {using[t] : t \in mine}
    IN  /\ crashes < MaxCrashes
        /\ \E t \in mine : pc[t] # "idle"
        /\ crashes' = crashes + 1
        /\ registry' = [registry EXCEPT ![p] = NoLock]
        /\ token' = token \ gone
        /\ refs' = [l \in Locks |-> IF l \in gone THEN 0 ELSE refs[l]]
        /\ using' = [t \in Threads |-> IF t \in mine THEN NoLock ELSE using[t]]
        /\ pc' = [t \in Threads |-> IF t \in mine THEN "idle" ELSE pc[t]]
        /\ late' = late \ mine
        /\ UNCHANGED <<fileVars, now>>

Holds(t) == pc[t] \in {"holding", "unlink", "abandon"}

(* The callers' critical sections are a few file operations long: while one  *)
(* of them has the file, it does not become stale.                          *)
Tick ==
    /\ now < MaxTime
    /\ \A t \in Threads : Holds(t) /\ owner = t => modified + StaleAfter > now
    /\ now' = now + 1
    /\ UNCHANGED <<fileVars, lockVars, pc, late, crashes>>

Acquire(t) ==
    \/ Call(t) \/ RetireStat(t) \/ RetireRemove(t) \/ Forget(t)
    \/ Enter(t) \/ TakeToken(t) \/ MissToken(t)
    \/ Create(t) \/ Abandon(t) \/ CreateNowhere(t) \/ MakeDirectory(t)
    \/ CreateExists(t) \/ StatFile(t) \/ RemoveFile(t)

Return(t) == Unlock(t) \/ Unlink(t) \/ ReturnToken(t) \/ Release(t)

Sweep(t) == SweepStat(t) \/ SweepRemove(t)

Next ==
    \/ \E t \in Threads :
          Acquire(t) \/ Return(t) \/ Sweep(t) \/ FileError(t) \/ DeadlinePasses(t)
    \/ \E p \in Processes : Crash(p)
    \/ LoseDirectory
    \/ Tick

Spec == Init /\ [][Next]_vars

(* Every thread keeps running, its critical section ends, and its deadline  *)
(* comes; nobody has to call, and no process has to die.                     *)
Fairness ==
    \A t \in Threads :
        /\ WF_vars(pc[t] # "idle" /\ (Acquire(t) \/ Return(t) \/ Sweep(t)))
        /\ WF_vars(DeadlinePasses(t))

FairSpec == Spec /\ Fairness

-----------------------------------------------------------------------------
Places == {"idle", "retire", "retireRemove", "forget", "enter", "token", "create",
           "mkdir", "abandon", "stat", "remove", "holding", "unlink", "return", "release", "sweep"}

OwnsToken(t) ==
    pc[t] \in {"create", "mkdir", "abandon", "stat", "remove", "holding", "unlink", "return"}

(* Every variable has its type. *)
TypeOK ==
    /\ directory \in BOOLEAN
    /\ owner \in Threads \cup {NoThread}
    /\ modified \in 0 .. MaxTime
    /\ registry \in [Processes -> Locks \cup {NoLock}]
    /\ token \subseteq Locks
    /\ refs \in [Locks -> Nat]
    /\ using \in [Threads -> Locks \cup {NoLock}]
    /\ pc \in [Threads -> Places]
    /\ late \subseteq Threads
    /\ now \in 0 .. MaxTime
    /\ crashes \in 0 .. MaxCrashes

(* The package comment: the lock is exclusive, across processes. *)
MutualExclusion ==
    \A t, u \in Threads : Holds(t) /\ Holds(u) => t = u

(* Before any file can be old enough to be taken over, at most one thread of *)
(* all processes is between the creation of the file and its removal:        *)
(* crashes, deadlines and callers that do not wait change nothing about it.  *)
ExclusiveWhileFresh == now <= StaleAfter => MutualExclusion

(* releaseProcessLockReference: before anything is retired, the registry names *)
(* exactly the processLock in use by the threads of each process, with the   *)
(* count of those that refer to it, and its token is either in its channel   *)
(* or owned by one of them: so `lock.token <- struct{}{}` never blocks, no   *)
(* caller waits for a token nobody will return, and no two threads of a      *)
(* process hold tokens of different locks.                                   *)
RegistrySound ==
    now <= StaleAfter => \A l \in Locks :
        LET users == {t \in Threads : using[t] = l}
            owners == {t \in users : OwnsToken(t)}
        IN  /\ refs[l] = Cardinality(users)
            /\ {p \in Processes : registry[p] = l} = {ProcessOf[t] : t \in users}
            /\ users # {} => Cardinality(owners) = IF l \in token THEN 0 ELSE 1

(* The loop of Acquire goes round without a look at the deadline when the     *)
(* file it found has vanished or was stale, so that no caller's deadline      *)
(* bounds it.  But a file that vanishes was created: an Acquire, waiting or   *)
(* not, comes to an end unless other threads go on and on taking the lock,    *)
(* whatever dies, fails or loses the directory.                               *)
AcquireEnds ==
    \A t \in Threads :
        \/ []<>(pc[t] \in {"idle", "holding"})
        \/ []<>(\E u \in Threads \ {t} : Holds(u))

(* A crash does not lock everybody out for ever: no file stays stale while a  *)
(* thread is at work in Acquire or in the sweep.                             *)
StaleFileTakenOver ==
    \A t \in Threads : []<>(Stale => At(t, "idle"))
=============================================================================
