----------------------------- MODULE AgentUpgrade -----------------------------
(***************************************************************************)
(* The upgrade of the agent's binary.  The control plane offers a release   *)
(* in the answer to a heartbeat; the daemon downloads and verifies it and   *)
(* replaces its binary.  On Unix it does that itself and then executes the  *)
(* new one; on Windows, where a running executable cannot be overwritten,   *)
(* it starts a helper and exits, and the helper replaces the agent and the  *)
(* hook launcher as one bundle and starts the agent again.  The user may    *)
(* run `gesta-agent upgrade` at any time.                                   *)
(*                                                                         *)
(* One action is one rename, removal or saved file; any of them may fail,   *)
(* and the process may die between any two.  The one exception is Stage,    *)
(* which takes the removal of an old staged file, the rename over it and    *)
(* the start of the helper together.                                       *)
(***************************************************************************)
EXTENDS Integers, Sequences

CONSTANTS
    Releases,       \* the versions there are, in the order of their release
    None,           \* no file, no version
    Broken,         \* a download that is not what was published
    Upgraders,      \* the processes that may replace the binary
    Daemon,         \* the one that does so when the control plane says so
    RetryAfter      \* upgradeFailureRetryAfter

Versions == {Releases[i] : i \in DOMAIN Releases}

ASSUME UpgradeAssumption ==
    /\ Releases \in Seq([core : Nat, label : Nat, n : Nat]) /\ Len(Releases) > 0
    /\ None \notin Versions /\ Broken \notin Versions \cup {None}
    /\ Daemon \in Upgraders
    /\ RetryAfter \in Nat

VARIABLES
    host,       \* "unix" or "windows"
    offer,      \* what the control plane answers a heartbeat with
    file,       \* name -> the version of the file, or None
    record,     \* upgrade-state.json; its age is the time since LastAttemptAt
    up,         \* where each upgrader is, what it is and what it installs
    helper,     \* the process that replaces the bundle on Windows
    tried,      \* the daemon's last attempt: its age, whether its time was
                \* recorded, and whether its failure was
    hurt        \* whether a replacement overlapped another, or followed one
                \* that was cut off or could not be undone

upgradeVars == <<host, offer, file, record, up, helper, tried, hurt>>

Artifacts == {"agent", "launcher"}
Backup(f) == IF f = "agent" THEN "agent.prev" ELSE "launcher.prev"
Files == Artifacts \cup {Backup(f) : f \in Artifacts}

-----------------------------------------------------------------------------
(* compareDaemonVersions.  A version is its three numbers (`core`), the      *)
(* label of its prerelease (0: none) and the number that follows the label. *)
Precedes(v, w) ==
    \/ v.core < w.core
    \/ v.core = w.core /\ v.label # 0 /\ w.label = 0
    \/ v.core = w.core /\ v.label # 0 /\ v.label < w.label
    \/ v.core = w.core /\ v.label = w.label /\ v.n < w.n

(* DecideAgentUpgrade for a process of version v.  On Windows a missing or  *)
(* outdated launcher is reason enough: every offer has a launcher there.    *)
(* Automatic upgrades are not disabled; where they are, none is applied.    *)
ShouldApply(v) ==
    /\ offer.mode \in {"auto", "required"}
    /\ \/ Precedes(v, offer.target)
       \/ /\ v = offer.target
          /\ host = "windows" /\ file["launcher"] # v

(* Faulty variant: what was downloaded is taken as it is. *)
VerifiedNever(got, target) == TRUE

(* What was downloaded has the published checksum and says the right version. *)
Verified(got, target) == got # Broken /\ got = target

-----------------------------------------------------------------------------
NoRecord == [state |-> "none", target |-> None, age |-> RetryAfter]
NotTried == [target |-> None, age |-> RetryAfter, known |-> FALSE, failed |-> FALSE]
Down == [pc |-> "down", is |-> None, target |-> None]
Running(v) == [pc |-> "idle", is |-> v, target |-> None]
NoHelper == [pc |-> "none", parent |-> Daemon, new |-> None, before |-> << >>,
             at |-> "agent", backed |-> {}, then |-> "again"]

(* The agent is installed and runs; on Windows an older one has no launcher. *)
UpgradeInit ==
    /\ host \in {"unix", "windows"}
    /\ \E launcher \in {None, Releases[1]} :
        /\ host = "unix" => launcher = None
        /\ file = [f \in Files |-> IF f = "agent" THEN Releases[1]
                                   ELSE IF f = "launcher" THEN launcher ELSE None]
    /\ record = NoRecord /\ tried = NotTried
    /\ up = [p \in Upgraders |-> IF p = Daemon THEN Running(Releases[1]) ELSE Down]
    /\ helper = NoHelper
    /\ hurt = FALSE

Goto(p, place) == up' = [up EXCEPT ![p].pc = place]

(* The file's version, once it is renamed from one name to another. *)
Move(from, to) == file' = [file EXCEPT ![to] = file[from], ![from] = None]

(* Saving upgrade-state.json replaces it; an error is ignored.  The daemon   *)
(* saves the time of its attempt, the helper the time that it finds there.  *)
Record(r, saved) == record' = IF saved THEN r ELSE record

Save(state, saved) ==
    /\ Record([state |-> state, target |-> up[Daemon].target, age |-> 0], saved)
    /\ tried' = [tried EXCEPT !.known = @ \/ saved,
                              !.failed = @ \/ (saved /\ state = "failed")]

(* The hour passes; an attempt takes less. *)
Older(r) == [r EXCEPT !.age = IF @ < RetryAfter THEN @ + 1 ELSE @]

Tick ==
    /\ up[Daemon].pc \in {"idle", "down"} /\ helper = NoHelper
    /\ record' = Older(record) /\ tried' = Older(tried)
    /\ UNCHANGED <<host, offer, file, up, helper, hurt>>

(* A later release is offered. *)
Publish(v) ==
    /\ Precedes(offer.target, v)
    /\ offer' = [offer EXCEPT !.target = v]
    /\ UNCHANGED <<host, file, record, up, helper, tried, hurt>>

-----------------------------------------------------------------------------
(* applyUpgradeFromHeartbeat, and the command *)

(* Faulty variant: a failure is remembered for good. *)
SuppressedForGood(v) == record.state = "failed" /\ record.target = v

(* A failure of the same target is not retried within the hour. *)
Suppressed(v) ==
    /\ record.state = "failed" /\ record.target = v
    /\ record.age < RetryAfter

BeginUpgrade(saved) ==
    /\ up[Daemon].pc = "idle"
    /\ ShouldApply(up[Daemon].is) /\ ~Suppressed(offer.target)
    /\ up' = [up EXCEPT ![Daemon].pc = "fetch", ![Daemon].target = offer.target]
    /\ Record([state |-> "running", target |-> offer.target, age |-> 0], saved)
    /\ tried' = [target |-> offer.target, age |-> 0, known |-> saved, failed |-> FALSE]
    /\ UNCHANGED <<host, offer, file, helper, hurt>>

(* The user names the target; unless forced, it must be newer. *)
RunCommand(c, v, force) ==
    /\ c # Daemon /\ up[c].pc = "down" /\ file["agent"] # None
    /\ force \/ Precedes(file["agent"], v)
    /\ up' = [up EXCEPT ![c] = [pc |-> "fetch", is |-> file["agent"], target |-> v]]
    /\ UNCHANGED <<host, offer, file, record, helper, tried, hurt>>

(* The attempt of p failed: the daemon records it and goes on, the command   *)
(* ends.  Nothing else happens to the variables but what is said beside it. *)
Fails(p, saved) ==
    IF p = Daemon
    THEN /\ up' = [up EXCEPT ![p] = Running(up[p].is)]
         /\ Save("failed", saved)
    ELSE up' = [up EXCEPT ![p] = Down] /\ UNCHANGED <<record, tried>>

GoesTo(p, place) == Goto(p, place) /\ UNCHANGED <<record, tried>>

(* Download and verify the agent, and on Windows the launcher. *)
Fetch(p, got, saved) ==
    /\ up[p].pc = "fetch"
    /\ IF Verified(got, up[p].target)
       THEN /\ up' = [up EXCEPT ![p].target = got,
                                ![p].pc = IF host = "unix" THEN "stat" ELSE "stage"]
            /\ UNCHANGED <<record, tried>>
       ELSE Fails(p, saved)
    /\ UNCHANGED <<host, offer, file, helper, hurt>>

(* replaceAgentBinary on Unix *)
Replacing == {"clear", "backup", "install", "undo"}

(* Faulty variant: the old backup is removed before the binary is looked at. *)
StatCleared(p, saved) ==
    /\ up[p].pc = "stat"
    /\ file' = [file EXCEPT !["agent.prev"] = None]
    /\ IF file["agent"] # None THEN GoesTo(p, "clear") ELSE Fails(p, saved)
    /\ UNCHANGED <<host, offer, helper, hurt>>

Stat(p, saved) ==
    /\ up[p].pc = "stat"
    /\ IF file["agent"] # None THEN GoesTo(p, "clear") ELSE Fails(p, saved)
    /\ hurt' = \/ hurt
               \/ /\ file["agent"] # None
                  /\ \E q \in Upgraders \ {p} : up[q].pc \in Replacing
    /\ UNCHANGED <<host, offer, file, helper>>

ClearBackup(p) ==
    /\ up[p].pc = "clear"
    /\ GoesTo(p, "backup")
    /\ file' = [file EXCEPT !["agent.prev"] = None]
    /\ UNCHANGED <<host, offer, helper, hurt>>

BackUp(p, ok, saved) ==
    /\ up[p].pc = "backup"
    /\ IF ok /\ file["agent"] # None
       THEN Move("agent", "agent.prev") /\ GoesTo(p, "install")
       ELSE Fails(p, saved) /\ UNCHANGED file
    /\ UNCHANGED <<host, offer, helper, hurt>>

Install(p, ok) ==
    /\ up[p].pc = "install"
    /\ IF ok
       THEN file' = [file EXCEPT !["agent"] = up[p].target] /\ GoesTo(p, "mode")
       ELSE GoesTo(p, "undo") /\ UNCHANGED file
    /\ UNCHANGED <<host, offer, helper, hurt>>

(* The backup is renamed back; an error is ignored. *)
Undo(p, ok, saved) ==
    /\ up[p].pc = "undo"
    /\ Fails(p, saved)
    /\ IF ok /\ file["agent.prev"] # None THEN Move("agent.prev", "agent")
       ELSE UNCHANGED file
    /\ UNCHANGED <<host, offer, helper, hurt>>

(* Owner and mode: an error fails the upgrade, though the binary is there. *)
SetMode(p, ok, saved) ==
    /\ up[p].pc = "mode"
    /\ IF ~ok THEN Fails(p, saved)
       ELSE IF p = Daemon
       THEN Goto(p, "exec") /\ Save("succeeded", saved)
       ELSE up' = [up EXCEPT ![p] = Down] /\ UNCHANGED <<record, tried>>
    /\ UNCHANGED <<host, offer, file, helper, hurt>>

(* reexecAgent: the daemon becomes what is at its path. *)
Exec ==
    /\ up[Daemon].pc = "exec"
    /\ up' = [up EXCEPT ![Daemon] = IF file["agent"] = None THEN Down
                                    ELSE Running(file["agent"])]
    /\ UNCHANGED <<host, offer, file, record, helper, tried, hurt>>

-----------------------------------------------------------------------------
(* replaceAgentBinary on Windows, and the helper *)

(* The staged file cannot be removed while a helper executes it.  Its       *)
(* removal, the rename and the start of the helper are one step: before the *)
(* helper runs nothing but the staged file itself has changed.             *)
Stage(p, ok, saved) ==
    /\ up[p].pc = "stage"
    /\ IF ok /\ helper = NoHelper
       THEN /\ helper' = [NoHelper EXCEPT !.pc = "wait", !.parent = p,
                                          !.new = up[p].target, !.before = file]
            /\ GoesTo(p, "staged")
            /\ hurt' = (hurt \/ file["agent"] = None)
       ELSE Fails(p, saved) /\ UNCHANGED <<helper, hurt>>
    /\ UNCHANGED <<host, offer, file>>

(* Its parent says that the upgrade is staged, and exits. *)
ExitStaged(p, saved) ==
    /\ up[p].pc = "staged"
    /\ up' = [up EXCEPT ![p] = Down]
    /\ IF p = Daemon THEN Save("staged", saved)
       ELSE UNCHANGED <<record, tried>>
    /\ UNCHANGED <<host, offer, file, helper, hurt>>

(* The daemon's bundle has the launcher, the command's has not. *)
Bundle == IF helper.parent = Daemon THEN <<"agent", "launcher">> ELSE <<"agent">>
InBundle == {Bundle[i] : i \in DOMAIN Bundle}
LastFile == Bundle[Len(Bundle)]

HelperGoes(place) == helper' = [helper EXCEPT !.pc = place, !.at = "agent"]
HelperEnds == helper' = NoHelper

(* The moves were right so far; the next file of the bundle, or the next phase. *)
NextFile(backed, place) ==
    helper' = IF helper.at = LastFile
              THEN [helper EXCEPT !.backed = backed, !.at = "agent", !.pc = place]
              ELSE [helper EXCEPT !.backed = backed, !.at = "launcher"]

(* Faulty variant: the helper does not wait for its parent's last words. *)
ParentGoneAtOnce ==
    /\ helper.pc = "wait"
    /\ HelperGoes("copy")
    /\ UNCHANGED <<host, offer, file, record, up, tried, hurt>>

(* The helper waits for its parent to end.  Where two minutes are not       *)
(* enough it ends with an error, which is HelperDies.                      *)
ParentGone ==
    /\ helper.pc = "wait" /\ up[helper.parent].pc = "down"
    /\ HelperGoes("copy")
    /\ UNCHANGED <<host, offer, file, record, up, tried, hurt>>

(* The new files are copied beside the old ones. *)
CopyBundle(ok) ==
    /\ helper.pc = "copy"
    /\ HelperGoes(IF ok THEN "backup" ELSE "again")
    /\ UNCHANGED <<host, offer, file, record, up, tried, hurt>>

(* Faulty variant: a file that was not there is not one to restore. *)
BackUpNextOfFiles(ok) ==
    /\ helper.pc = "backup"
    /\ IF ok
       THEN /\ Move(helper.at, Backup(helper.at))
            /\ NextFile(helper.backed \cup ({helper.at} \ {f \in Artifacts : file[f] = None}),
                        "install")
       ELSE HelperGoes("restore") /\ UNCHANGED file
    /\ UNCHANGED <<host, offer, record, up, tried, hurt>>

(* A file that is there is moved to its backup, which it replaces; if it is  *)
(* not there, what is left as its backup is removed.                        *)
BackUpNext(ok) ==
    /\ helper.pc = "backup"
    /\ IF ok
       THEN /\ Move(helper.at, Backup(helper.at))
            /\ NextFile(helper.backed \cup {helper.at}, "install")
       ELSE HelperGoes("restore") /\ UNCHANGED file
    /\ UNCHANGED <<host, offer, record, up, tried, hurt>>

InstallNext(ok) ==
    /\ helper.pc = "install"
    /\ IF ok
       THEN /\ file' = [file EXCEPT ![helper.at] = helper.new]
            /\ NextFile(helper.backed, IF helper.parent = Daemon THEN "start" ELSE "done")
       ELSE HelperGoes("restore") /\ UNCHANGED file
    /\ UNCHANGED <<host, offer, record, up, tried, hurt>>

(* restoreWindowsUpgradeBackups: the backup is moved back, or without one    *)
(* the new file is removed.  An error leaves the file and is reported.      *)
RestoreNext(f, ok) ==
    /\ helper.pc = "restore" /\ f \in helper.backed
    /\ f = "launcher" => "agent" \notin helper.backed
    /\ helper' = [helper EXCEPT !.backed = @ \ {f},
                                !.then = IF ~ok /\ @ = "record" THEN "report" ELSE @]
    /\ IF ok THEN Move(Backup(f), f) /\ UNCHANGED hurt
       ELSE hurt' = TRUE /\ UNCHANGED file
    /\ UNCHANGED <<host, offer, record, up, tried>>

Restored ==
    /\ helper.pc = "restore" /\ helper.backed = {}
    /\ HelperGoes(helper.then)
    /\ UNCHANGED <<host, offer, file, record, up, tried, hurt>>

(* retryWindowsUpgradeBundle: again until the deadline. *)
Retry ==
    /\ helper.pc = "again"
    /\ HelperGoes("copy")
    /\ UNCHANGED <<host, offer, file, record, up, tried, hurt>>

GiveUp ==
    /\ helper.pc = "again"
    /\ HelperGoes("record")
    /\ UNCHANGED <<host, offer, file, record, up, tried, hurt>>

(* recordWindowsUpgradeResult keeps the time of the attempt that it loads. *)
RecordResult(state, saved) ==
    IF helper.parent # Daemon THEN UNCHANGED <<record, tried>>
    ELSE /\ Record([record EXCEPT !.state = state, !.target = helper.new], saved)
         /\ tried' = [tried EXCEPT !.failed = saved /\ state = "failed"]

RecordFailure(saved) ==
    /\ helper.pc \in {"record", "report"}
    /\ RecordResult("failed", saved)
    /\ IF helper.pc = "record" /\ helper.parent = Daemon THEN HelperGoes("restart")
       ELSE HelperEnds
    /\ UNCHANGED <<host, offer, file, up, hurt>>

(* startWindowsAgent with the new binary: the old one is restored if it does *)
(* not start.                                                               *)
CanStart(ok) == ok /\ file["agent"] # None

StartNew(ok) ==
    /\ helper.pc = "start"
    /\ IF CanStart(ok)
       THEN /\ up' = [up EXCEPT ![Daemon] = Running(file["agent"])]
            /\ HelperGoes("done")
       ELSE /\ helper' = [helper EXCEPT !.pc = "restore", !.then = "record"]
            /\ UNCHANGED up
    /\ UNCHANGED <<host, offer, file, record, tried, hurt>>

RecordSuccess(saved) ==
    /\ helper.pc = "done"
    /\ RecordResult("succeeded", saved)
    /\ HelperEnds
    /\ UNCHANGED <<host, offer, file, up, hurt>>

StartOld(ok, saved) ==
    /\ helper.pc = "restart"
    /\ IF CanStart(ok)
       THEN up' = [up EXCEPT ![Daemon] = Running(file["agent"])]
            /\ UNCHANGED <<record, tried>>
       ELSE RecordResult("failed", saved) /\ UNCHANGED up
    /\ HelperEnds
    /\ UNCHANGED <<host, offer, file, hurt>>

-----------------------------------------------------------------------------
(* A process dies, and the files stay as they are.  A service starts the     *)
(* daemon again; on Windows not before the helper is done with it.          *)
Die(p) ==
    /\ up[p].pc # "down"
    /\ up' = [up EXCEPT ![p] = Down]
    /\ UNCHANGED <<host, offer, file, record, helper, tried, hurt>>

HelperDies ==
    /\ helper # NoHelper
    /\ HelperEnds
    /\ UNCHANGED <<host, offer, file, record, up, tried, hurt>>

StartDaemon ==
    /\ up[Daemon].pc = "down" /\ helper = NoHelper /\ file["agent"] # None
    /\ up' = [up EXCEPT ![Daemon] = Running(file["agent"])]
    /\ UNCHANGED <<host, offer, file, record, helper, tried, hurt>>

(* A step of p: `ok` says whether what it does succeeds, `saved` whether the *)
(* record could be saved.                                                   *)
Step(p, ok, saved) ==
    \/ \E got \in Versions \cup {Broken} :
        (ok <=> got = up[p].target) /\ Fetch(p, got, saved)
    \/ Stat(p, saved)
    \/ ClearBackup(p)
    \/ BackUp(p, ok, saved)
    \/ Install(p, ok)
    \/ Undo(p, ok, saved)
    \/ SetMode(p, ok, saved)
    \/ Stage(p, ok, saved)
    \/ ExitStaged(p, saved)

HelperStep(ok, saved) ==
    \/ ParentGone
    \/ CopyBundle(ok)
    \/ BackUpNext(ok)
    \/ InstallNext(ok)
    \/ \E f \in Artifacts : RestoreNext(f, ok)
    \/ Restored
    \/ Retry \/ GiveUp
    \/ RecordFailure(saved)
    \/ StartNew(ok)
    \/ RecordSuccess(saved)
    \/ StartOld(ok, saved)

-----------------------------------------------------------------------------
Stages == {"down", "idle", "fetch", "stat", "clear", "backup", "install", "undo",
           "mode", "exec", "stage", "staged"}
HelperStages == {"none", "wait", "copy", "backup", "install", "restore", "again",
                 "record", "report", "restart", "start", "done"}
Aged == 0 .. RetryAfter

(* The variables have the types their uses need, and no file is a broken     *)
(* download.                                                               *)
UpgradeTypeOK ==
    /\ host \in {"unix", "windows"}
    /\ offer \in [mode : {"off", "notify", "auto", "required"}, target : Versions]
    /\ file \in [Files -> Versions \cup {None}]
    /\ record \in [state : {"none", "running", "failed", "staged", "succeeded"},
                   target : Versions \cup {None}, age : Aged]
    /\ up \in [Upgraders -> [pc : Stages, is : Versions \cup {None},
                             target : Versions \cup {None}]]
    /\ helper.pc \in HelperStages /\ helper.parent \in Upgraders
    /\ helper.new \in Versions \cup {None}
    /\ helper.before \in {<< >>} \cup [Files -> Versions \cup {None}]
    /\ helper.at \in Artifacts /\ helper.backed \subseteq Artifacts
    /\ helper.then \in {"again", "record", "report"}
    /\ tried \in [target : Versions \cup {None}, age : Aged, known : BOOLEAN,
                  failed : BOOLEAN]
    /\ hurt \in BOOLEAN

(* There is always an agent to start or to go back to: wherever an upgrade   *)
(* fails or its process dies, the binary is at its path or at its backup's.  *)
(* Only two replacements at once may lose both, or on Windows a second one   *)
(* after a helper died half way or failed to restore: it removes a backup   *)
(* whose binary is not there.                                               *)
BinaryKept == file["agent"] # None \/ file["agent.prev"] # None \/ hurt

(* The helper replaces all of its bundle or nothing of it: when it starts    *)
(* the new agent every file is new, and when it has given up every file is  *)
(* what it was before, however often and wherever it failed in between.     *)
BundleTogether ==
    ~hurt =>
        /\ helper.pc \in {"start", "done"} =>
            \A f \in InBundle : file[f] = helper.new
        /\ helper.pc \in {"record", "restart"} =>
            \A f \in InBundle : file[f] = helper.before[f]

(* A target whose upgrade failed, with the failure and the time of the       *)
(* attempt recorded by the daemon or the helper, is not tried again within  *)
(* the hour, across restarts of the daemon: neither of the two replaces what *)
(* the other recorded of it.  The one exception is a helper that records its *)
(* success after the daemon it started has tried a later release.           *)
NoRetry ==
    tried.failed /\ tried.known /\ tried.age < RetryAfter
        => ~(up[Daemon].pc = "idle" /\ up'[Daemon].pc = "fetch"
                /\ up'[Daemon].target = tried.target)

RetriesWait == [][NoRetry]_upgradeVars
=============================================================================
