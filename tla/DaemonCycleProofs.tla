--------------------------- MODULE DaemonCycleProofs ---------------------------
(***************************************************************************)
(* Safety of the daemon's cycle, for any worlds: of the upgrade of the agent  *)
(* with any processes and releases, and of the rules of commands and prompts *)
(* with any rules, hooks and guards.                                       *)
(***************************************************************************)
EXTENDS DaemonCycle, DataProofs

-----------------------------------------------------------------------------
(* The upgrade: a binary is always kept, the helper replaces a bundle whole,  *)
(* and what failed is not tried again at once.                             *)

(* What a step of the cycle does to the upgrade. *)
UpgradeStep ==
    \/ UNCHANGED upgradeVars
    \/ \E saved \in BOOLEAN : BeginUpgrade(saved)
    \/ \E p \in Upgraders, ok, saved \in BOOLEAN : Step(p, ok, saved)
    \/ Exec
    \/ \E ok, saved \in BOOLEAN : HelperStep(ok, saved)
    \/ \E c \in Upgraders, v \in Versions, force \in BOOLEAN : RunCommand(c, v, force)
    \/ \E p \in Upgraders : Die(p)
    \/ HelperDies
    \/ \E v \in Versions : Publish(v)
    \/ Tick \/ StartDaemon

(* Where a process replaces binaries, on each system. *)
UnixStages == {"stat", "clear", "backup", "install", "undo", "mode", "exec"}
WindowsStages == {"stage", "staged"}

HelperType ==
    [pc : HelperStages, parent : Upgraders, new : Versions \cup {None},
     before : {<< >>} \cup [Files -> Versions \cup {None}], at : Artifacts,
     backed : SUBSET Artifacts, then : {"again", "record", "report"}]

FileType == [Files -> Versions \cup {None}]
RecordType == [state : {"none", "running", "failed", "staged", "succeeded"},
               target : Versions \cup {None}, age : Aged]
UpType == [Upgraders -> [pc : Stages, is : Versions \cup {None}, target : Versions \cup {None}]]
TriedType == [target : Versions \cup {None}, age : Aged, known : BOOLEAN, failed : BOOLEAN]

(* The types, the whole record of the helper included. *)
TypeInv ==
    /\ host \in {"unix", "windows"}
    /\ offer \in [mode : {"off", "notify", "auto", "required"}, target : Versions]
    /\ file \in FileType /\ record \in RecordType
    /\ up \in UpType /\ helper \in HelperType
    /\ tried \in TriedType /\ hurt \in BOOLEAN

(* Each system has its own stages, and no process replaces anything before   *)
(* it knows by what.  Where there is no helper, nothing of one is left.      *)
StageInv ==
    /\ helper.pc = "none" => helper = NoHelper
    /\ host = "unix" => helper = NoHelper
    /\ \A p \in Upgraders :
        /\ up[p].pc \in UnixStages => host = "unix"
        /\ up[p].pc \in WindowsStages => host = "windows"
        /\ up[p].pc \in (UnixStages \cup WindowsStages) => up[p].target \in Versions

(* One process at a time replaces the binary, and it has the old one.        *)
ReplaceInv ==
    ~hurt =>
        /\ \A p, q \in Upgraders :
            up[p].pc \in Replacing /\ up[q].pc \in Replacing => p = q
        /\ \A p \in Upgraders :
            /\ up[p].pc \in {"clear", "backup"} => file["agent"] # None
            /\ up[p].pc \in {"install", "undo"} => file["agent.prev"] # None

(* Of each file of the bundle the helper has what was there before, at its   *)
(* place or as its backup, until it is done.                                *)
HelperInv ==
    /\ helper.pc = "report" \/ helper.then = "report" => hurt
    /\ helper.pc # "none" =>
        /\ helper.new \in Versions
        /\ helper.before \in [Files -> Versions \cup {None}]
        /\ helper.backed \subseteq InBundle
    /\ helper.pc \notin {"backup", "install", "restore", "start", "done"} => helper.backed = {}
    /\ helper.pc = "backup" =>
        \/ helper.at = "agent" /\ helper.backed = {}
        \/ helper.at = "launcher" /\ helper.backed = {"agent"} /\ helper.parent = Daemon
    /\ helper.pc \in {"install", "start"} => helper.backed = InBundle
    /\ helper.pc = "install" /\ helper.at = "launcher" =>
            helper.parent = Daemon /\ file["agent"] = helper.new
    /\ helper.pc \in {"start", "done"} => \A f \in InBundle : file[f] = helper.new

(* What was there before includes an agent, and the helper can put it back. *)
BundleInv ==
    ~hurt /\ helper.pc # "none" =>
        /\ helper.before["agent"] # None
        /\ helper.pc # "done" =>
            \A f \in InBundle :
                file[IF f \in helper.backed THEN Backup(f) ELSE f] = helper.before[f]

(* The attempt that the record is about.  A helper past its wait has no      *)
(* parent, and no daemon until it is done.                                  *)
AttemptInv ==
    /\ tried.known => record.age <= tried.age
    /\ tried.known /\ tried.failed => record.state = "failed" /\ record.target = tried.target
    /\ up[Daemon].pc \notin {"idle", "down"} =>
            up[Daemon].target = tried.target /\ ~tried.failed
    /\ helper.pc # "none" /\ helper.parent = Daemon /\ helper.pc # "done" =>
        /\ helper.new = tried.target
        /\ \/ up[Daemon].pc = "down"
           \/ helper.pc = "wait" /\ up[Daemon].pc = "staged"

-----------------------------------------------------------------------------
(* The cycle takes no other steps. *)
LEMMA CycleSteps ==
    ASSUME world \in DOMAIN Worlds, [DaemonNext]_vars
    PROVE  UpgradeStep /\ world' = world
<1>0. World.offers \subseteq Versions /\ World.upgraders \subseteq Upgraders
  BY WorldsAssumption DEF World
<1>1. ASSUME NEW ok \in BOOLEAN, NEW saved \in BOOLEAN, Cycle(ok, saved)
      PROVE  UpgradeStep /\ world' = world
  <2>1. CASE Heartbeat(ok, saved) /\ world' = world
    BY <2>1 DEF Heartbeat, UpgradeOffered, UpgradeStep
  <2>2. CASE UNCHANGED upgradeVars /\ world' = world
    BY <2>2 DEF UpgradeStep
  <2> QED
    BY <1>1, <2>1, <2>2 DEF Cycle, EnsureSettings, SyncRules, Collect, Report, Flush, Finish, Wake,
       Afterwards, upgradeVars
<1>2. ASSUME NEW ok \in BOOLEAN, NEW saved \in BOOLEAN, DaemonUpgrades(ok, saved)
      PROVE  UpgradeStep /\ world' = world
  BY <1>2, UpgradeAssumption DEF DaemonUpgrades, UpgradeStep
<1>3. ASSUME NEW ok \in BOOLEAN, NEW saved \in BOOLEAN, HelperUpgrades(ok, saved)
      PROVE  UpgradeStep /\ world' = world
  BY <1>3 DEF HelperUpgrades, UpgradeStep
<1>4. ASSUME NEW ok \in BOOLEAN, CommandUpgrades(ok)
      PROVE  UpgradeStep /\ world' = world
  BY <1>0, <1>4 DEF CommandUpgrades, UpgradeStep
<1>5. ASSUME Upset
      PROVE  UpgradeStep /\ world' = world
  BY <1>0, <1>5 DEF Upset, UpgradeStep
<1>6. ASSUME Environment
      PROVE  UpgradeStep /\ world' = world
  BY <1>0, <1>6 DEF Environment, UpgradeStep
<1>7. ASSUME Guarding \/ UNCHANGED vars
      PROVE  UpgradeStep /\ world' = world
  BY <1>7 DEF Guarding, vars, cycleVars, UpgradeStep
<1> QED
  BY <1>1, <1>2, <1>3, <1>4, <1>5, <1>6, <1>7 DEF DaemonNext

-----------------------------------------------------------------------------
(* Types *)
LEMMA TypesHold ==
    ASSUME TypeInv
    PROVE  UpgradeTypeOK
<1> QED
  BY DEF TypeInv, UpgradeTypeOK, FileType, RecordType, UpType, HelperType, TriedType

(* Fields change within their types. *)
LEMMA GotoType ==
    ASSUME up \in UpType, NEW p \in Upgraders, NEW place \in Stages, Goto(p, place)
    PROVE  up' \in UpType
<1> QED  BY DEF UpType, Goto

(* A process that becomes another is typed like one. *)
LEMMA BecomesType ==
    ASSUME up \in UpType, NEW p \in Upgraders,
           NEW v \in Versions \cup {None}, NEW w \in Versions \cup {None}, NEW place \in Stages,
           up' = [up EXCEPT ![p] = [pc |-> place, is |-> v, target |-> w]]
    PROVE  up' \in UpType
<1> QED  BY DEF UpType

(* The record of an attempt is typed, saved or not. *)
LEMMA SaveType ==
    ASSUME TypeInv, NEW saved \in BOOLEAN,
           NEW state \in {"none", "running", "failed", "staged", "succeeded"}, Save(state, saved)
    PROVE  record' \in RecordType /\ tried' \in TriedType
<1>1. up[Daemon].target \in Versions \cup {None} /\ 0 \in Aged
  BY UpgradeAssumption DEF TypeInv, UpType, Aged
<1>2. record' \in RecordType
  BY <1>1 DEF TypeInv, Save, Record, RecordType
<1>3. tried' \in TriedType
  BY <1>1 DEF TypeInv, Save, TriedType
<1> QED  BY <1>2, <1>3

(* So is what a failed attempt leaves. *)
LEMMA FailsType ==
    ASSUME TypeInv, NEW p \in Upgraders, NEW saved \in BOOLEAN, Fails(p, saved)
    PROVE  up' \in UpType /\ record' \in RecordType /\ tried' \in TriedType
<1>1. CASE p = Daemon
  <2>1. up[p].is \in Versions \cup {None}
    BY DEF TypeInv, UpType
  <2>2. record' \in RecordType /\ tried' \in TriedType
    BY <1>1, SaveType DEF Fails
  <2> QED  BY <1>1, <2>1, <2>2, BecomesType DEF Fails, TypeInv, Running, Stages
<1>2. CASE p # Daemon
  BY <1>2, BecomesType DEF Fails, TypeInv, Down, Stages
<1> QED  BY <1>1, <1>2

(* Moving a file moves versions. *)
LEMMA MoveType ==
    ASSUME file \in FileType, NEW f \in Files, NEW g \in Files, Move(f, g)
    PROVE  file' \in FileType
<1> QED  BY DEF FileType, Move

(* The files of the bundle and their backups, by name. *)
LEMMA FileNames ==
    /\ {"agent", "launcher", "agent.prev", "launcher.prev"} = Files
    /\ Artifacts = {"agent", "launcher"}
    /\ Backup("agent") = "agent.prev" /\ Backup("launcher") = "launcher.prev"
<1> QED  BY DEF Files, Artifacts, Backup

(* Ages stop at the hour. *)
LEMMA OlderAge ==
    ASSUME NEW a \in Aged
    PROVE  (IF a < RetryAfter THEN a + 1 ELSE a) \in Aged
<1> QED  BY UpgradeAssumption DEF Aged

(* A process of either system. *)
LEMMA ProcessTypes ==
    ASSUME TypeInv, NEW p \in Upgraders, NEW ok \in BOOLEAN, NEW saved \in BOOLEAN,
           Step(p, ok, saved)
    PROVE  TypeInv'
<1> USE DEF GoesTo
<1>1. ASSUME NEW got \in Versions \cup {Broken}, Fetch(p, got, saved)
      PROVE  TypeInv'
  <2>1. CASE Verified(got, up[p].target)
    <3>1. up' \in UpType
      BY <1>1, <2>1 DEF Fetch, Verified, TypeInv, UpType, Stages
    <3> QED  BY <1>1, <2>1, <3>1 DEF Fetch, TypeInv
  <2> QED  BY <1>1, <2>1, FailsType DEF Fetch, TypeInv
<1>2. CASE Stat(p, saved)
  BY <1>2, GotoType, FailsType DEF Stat, TypeInv, Stages
<1>3. CASE ClearBackup(p)
  <2>1. file' \in FileType
    BY <1>3 DEF ClearBackup, TypeInv, FileType
  <2> QED  BY <1>3, <2>1, GotoType DEF ClearBackup, TypeInv, Stages
<1>4. CASE BackUp(p, ok, saved)
  BY <1>4, GotoType, FailsType, MoveType, FileNames DEF BackUp, TypeInv, Stages
<1>5. CASE Install(p, ok)
  <2>1. up[p].target \in Versions \cup {None}
    BY DEF TypeInv, UpType
  <2>2. file' \in FileType
    BY <1>5, <2>1 DEF Install, TypeInv, FileType
  <2> QED  BY <1>5, <2>2, GotoType DEF Install, TypeInv, Stages
<1>6. CASE Undo(p, ok, saved)
  BY <1>6, FailsType, MoveType, FileNames DEF Undo, TypeInv
<1>7. CASE SetMode(p, ok, saved)
  BY <1>7, GotoType, FailsType, SaveType, BecomesType DEF SetMode, TypeInv, Down, Stages
<1>8. CASE Stage(p, ok, saved)
  <2>1. helper' \in HelperType
    <3>1. up[p].target \in Versions \cup {None} /\ file \in FileType
      BY DEF TypeInv, UpType
    <3>2. \/ helper' = [pc |-> "wait", parent |-> p, new |-> up[p].target, before |-> file,
                         at |-> "agent", backed |-> {}, then |-> "again"]
          \/ helper' = helper
      BY <1>8 DEF Stage, NoHelper
    <3> QED
      BY <3>1, <3>2, FileNames DEF TypeInv, HelperType, HelperStages, FileType
  <2> QED  BY <1>8, <2>1, GotoType, FailsType DEF Stage, TypeInv, Stages
<1>9. CASE ExitStaged(p, saved)
  BY <1>9, SaveType, BecomesType DEF ExitStaged, TypeInv, Down, Stages
<1> QED
  BY <1>1, <1>2, <1>3, <1>4, <1>5, <1>6, <1>7, <1>8, <1>9 DEF Step

(* What the helper records is typed. *)
LEMMA ResultType ==
    ASSUME TypeInv, NEW saved \in BOOLEAN, NEW state \in {"failed", "succeeded"},
           RecordResult(state, saved)
    PROVE  record' \in RecordType /\ tried' \in TriedType
<1>1. helper.new \in Versions \cup {None}
  BY DEF TypeInv, HelperType
<1>2. record' \in RecordType
  BY <1>1 DEF TypeInv, RecordResult, Record, RecordType
<1>3. tried' \in TriedType
  BY DEF TypeInv, RecordResult, TriedType
<1> QED  BY <1>2, <1>3

(* The helper goes to another of its stages. *)
LEMMA HelperGoesType ==
    ASSUME helper \in HelperType, NEW place \in HelperStages, HelperGoes(place)
    PROVE  helper' \in HelperType
<1> QED  BY FileNames DEF HelperType, HelperGoes

(* It goes to the next file, or the next stage. *)
LEMMA NextFileType ==
    ASSUME helper \in HelperType, NEW place \in HelperStages, NEW backed \in SUBSET Artifacts,
           NextFile(backed, place)
    PROVE  helper' \in HelperType
<1> QED  BY FileNames DEF HelperType, NextFile

(* No helper is typed like one. *)
LEMMA NoHelperType == NoHelper \in HelperType
<1> QED  BY UpgradeAssumption, FileNames DEF NoHelper, HelperType, HelperStages

(* The helper. *)
LEMMA HelperTypes ==
    ASSUME TypeInv, NEW ok \in BOOLEAN, NEW saved \in BOOLEAN, HelperStep(ok, saved)
    PROVE  TypeInv'
<1>1. /\ helper \in HelperType /\ helper.at \in Artifacts /\ helper.backed \subseteq Artifacts
      /\ helper.new \in Versions \cup {None} /\ helper.then \in HelperStages
  BY DEF TypeInv, HelperType, HelperStages
<1>2. \A f \in Artifacts : f \in Files /\ Backup(f) \in Files
  BY FileNames
<1>3. CASE ParentGone \/ CopyBundle(ok) \/ Restored \/ Retry \/ GiveUp
  BY <1>1, <1>3, HelperGoesType
     DEF ParentGone, CopyBundle, Restored, Retry, GiveUp, TypeInv, HelperStages
<1>4. CASE BackUpNext(ok)
  BY <1>1, <1>2, <1>4, HelperGoesType, NextFileType, MoveType DEF BackUpNext, TypeInv, HelperStages
<1>5. CASE InstallNext(ok)
  <2>1. file' \in FileType
    BY <1>1, <1>5 DEF InstallNext, TypeInv, FileType
  <2>2. helper' \in HelperType
    BY <1>1, <1>5, HelperGoesType, NextFileType DEF InstallNext, HelperStages
  <2> QED  BY <1>5, <2>1, <2>2 DEF InstallNext, TypeInv
<1>6. ASSUME NEW f \in Artifacts, RestoreNext(f, ok)
      PROVE  TypeInv'
  <2>1. helper' \in HelperType
    BY <1>1, <1>6 DEF RestoreNext, HelperType
  <2> QED  BY <1>2, <1>6, <2>1, MoveType DEF RestoreNext, TypeInv
<1>7. CASE RecordFailure(saved) \/ RecordSuccess(saved)
  BY <1>1, <1>7, ResultType, HelperGoesType, NoHelperType
     DEF RecordFailure, RecordSuccess, HelperEnds, TypeInv, HelperStages
<1>8. CASE StartNew(ok)
  <2>1. file["agent"] \in Versions \cup {None}
    BY FileNames DEF TypeInv, FileType
  <2>2. helper' \in HelperType
    BY <1>1, <1>8, HelperGoesType DEF StartNew, HelperType, HelperStages
  <2> QED
    BY <1>8, <2>1, <2>2, BecomesType, UpgradeAssumption DEF StartNew, TypeInv, Running, Stages
<1>9. CASE StartOld(ok, saved)
  <2>1. file["agent"] \in Versions \cup {None}
    BY FileNames DEF TypeInv, FileType
  <2> QED
    BY <1>9, <2>1, ResultType, NoHelperType, BecomesType, UpgradeAssumption
       DEF StartOld, HelperEnds, TypeInv, Running, Stages
<1> QED
  BY <1>3, <1>4, <1>5, <1>6, <1>7, <1>8, <1>9 DEF HelperStep

(* Every variable of the upgrade keeps its type. *)
LEMMA TypeStep ==
    ASSUME TypeInv, UpgradeStep
    PROVE  TypeInv'
<1>1. CASE UNCHANGED upgradeVars
  BY <1>1 DEF upgradeVars, TypeInv
<1>2. ASSUME NEW saved \in BOOLEAN, BeginUpgrade(saved)
      PROVE  TypeInv'
  <2>1. offer.target \in Versions /\ 0 \in Aged
    BY UpgradeAssumption DEF TypeInv, Aged
  <2>2. up' \in UpType
    <3>1. up' = [up EXCEPT ![Daemon].pc = "fetch", ![Daemon].target = offer.target]
      BY <1>2 DEF BeginUpgrade
    <3>2. up \in UpType /\ Daemon \in Upgraders /\ "fetch" \in Stages
      BY UpgradeAssumption DEF TypeInv, Stages
    <3> QED  BY <2>1, <3>1, <3>2 DEF UpType
  <2>3. record' \in RecordType
    BY <1>2, <2>1 DEF BeginUpgrade, Record, TypeInv, RecordType
  <2>4. tried' \in TriedType
    BY <1>2, <2>1 DEF BeginUpgrade, TriedType
  <2> QED  BY <1>2, <2>2, <2>3, <2>4 DEF BeginUpgrade, TypeInv
<1>3. CASE Exec \/ StartDaemon
  <2>1. file["agent"] \in Versions \cup {None}
    BY FileNames DEF TypeInv, FileType
  <2> QED
    BY <1>3, <2>1, BecomesType, UpgradeAssumption
       DEF Exec, StartDaemon, TypeInv, Running, Down, Stages
<1>4. ASSUME NEW c \in Upgraders, NEW v \in Versions, NEW force \in BOOLEAN, RunCommand(c, v, force)
      PROVE  TypeInv'
  <2>1. file["agent"] \in Versions \cup {None}
    BY FileNames DEF TypeInv, FileType
  <2> QED  BY <1>4, <2>1, BecomesType DEF RunCommand, TypeInv, Stages
<1>5. ASSUME NEW p \in Upgraders, Die(p)
      PROVE  TypeInv'
  BY <1>5, BecomesType DEF Die, TypeInv, Down, Stages
<1>6. CASE HelperDies
  BY <1>6, NoHelperType DEF HelperDies, HelperEnds, TypeInv
<1>7. CASE \E v \in Versions : Publish(v)
  BY <1>7 DEF Publish, TypeInv
<1>8. CASE Tick
  <2>1. record' \in RecordType
    BY <1>8, OlderAge DEF Tick, Older, TypeInv, RecordType
  <2>2. tried' \in TriedType
    BY <1>8, OlderAge DEF Tick, Older, TypeInv, TriedType
  <2> QED  BY <1>8, <2>1, <2>2 DEF Tick, TypeInv
<1> QED
  BY <1>1, <1>2, <1>3, <1>4, <1>5, <1>6, <1>7, <1>8, ProcessTypes, HelperTypes DEF UpgradeStep

-----------------------------------------------------------------------------
(* Stages: who moves in a step, and where. *)
Fixed(p) == \A q \in Upgraders \ {p} : up'[q] = up[q]
Moves(p, place) == up'[p].pc = place /\ up'[p].target = up[p].target /\ Fixed(p)

(* A process that goes on is the only one that moves. *)
LEMMA GotoMoves ==
    ASSUME up \in UpType, NEW p \in Upgraders, NEW place, Goto(p, place)
    PROVE  Moves(p, place)
<1> QED  BY DEF UpType, Goto, Moves, Fixed

(* So is one that becomes another. *)
LEMMA BecomesMoves ==
    ASSUME up \in UpType, NEW p \in Upgraders, NEW v, NEW w, NEW place,
           up' = [up EXCEPT ![p] = [pc |-> place, is |-> v, target |-> w]]
    PROVE  up'[p].pc = place /\ up'[p].target = w /\ Fixed(p)
<1> QED  BY DEF UpType, Fixed

(* One whose attempt fails is idle or gone. *)
LEMMA FailsMoves ==
    ASSUME TypeInv, NEW p \in Upgraders, NEW saved, Fails(p, saved)
    PROVE  up'[p].pc \in {"idle", "down"} /\ Fixed(p)
<1> QED  BY BecomesMoves DEF Fails, TypeInv, Running, Down

(* One that is started or ends is idle or gone. *)
LEMMA RunsOrEnds ==
    ASSUME up \in UpType, NEW p \in Upgraders, NEW v,
           up' = [up EXCEPT ![p] = Running(v)] \/ up' = [up EXCEPT ![p] = Down]
    PROVE  up'[p].pc \in {"idle", "down"} /\ Fixed(p)
<1> QED  BY BecomesMoves DEF Running, Down

(* Where a step takes a process from where it is. *)
UnixStep(p) ==
    \/ up[p].pc = "stat" /\ Moves(p, "clear")
    \/ up[p].pc = "clear" /\ Moves(p, "backup")
    \/ up[p].pc = "backup" /\ Moves(p, "install")
    \/ up[p].pc = "install" /\ (Moves(p, "mode") \/ Moves(p, "undo"))
    \/ up[p].pc = "mode" /\ Moves(p, "exec")

(* A step of a process takes it to the next stage of its system, or back to *)
(* its beginning.                                                           *)
LEMMA ProcessMoves ==
    ASSUME TypeInv, NEW p \in Upgraders, NEW ok \in BOOLEAN, NEW saved \in BOOLEAN,
           Step(p, ok, saved)
    PROVE  \/ up'[p].pc \in {"idle", "down"} /\ Fixed(p)
           \/ /\ up[p].pc = "fetch" /\ Moves(p, IF host = "unix" THEN "stat" ELSE "stage")
              /\ up'[p].target \in Versions
           \/ UnixStep(p)
           \/ up[p].pc = "stage" /\ Moves(p, "staged")
<1> USE GotoMoves, FailsMoves, BecomesMoves DEF GoesTo, TypeInv, UnixStep
<1>1. ASSUME NEW got \in Versions \cup {Broken}, Fetch(p, got, saved), Verified(got, up[p].target)
      PROVE  /\ up[p].pc = "fetch" /\ Moves(p, IF host = "unix" THEN "stat" ELSE "stage")
             /\ up'[p].target \in Versions
  BY <1>1 DEF Fetch, Verified, UpType, Moves, Fixed
<1>2. ASSUME NEW got \in Versions \cup {Broken}, Fetch(p, got, saved), ~Verified(got, up[p].target)
      PROVE  up'[p].pc \in {"idle", "down"} /\ Fixed(p)
  BY <1>2 DEF Fetch
<1>3. CASE Stat(p, saved)
  BY <1>3 DEF Stat
<1>4. CASE ClearBackup(p)
  BY <1>4 DEF ClearBackup
<1>5. CASE BackUp(p, ok, saved)
  BY <1>5 DEF BackUp
<1>6. CASE Install(p, ok)
  BY <1>6 DEF Install
<1>7. CASE Undo(p, ok, saved)
  BY <1>7 DEF Undo
<1>8. CASE SetMode(p, ok, saved)
  BY <1>8 DEF SetMode, Down
<1>9. CASE Stage(p, ok, saved)
  BY <1>9 DEF Stage
<1>10. CASE ExitStaged(p, saved)
  <2>1. up' = [up EXCEPT ![p] = Down]
    BY <1>10 DEF ExitStaged
  <2> QED  BY <2>1, RunsOrEnds
<1> QED
  BY <1>1, <1>2, <1>3, <1>4, <1>5, <1>6, <1>7, <1>8, <1>9, <1>10 DEF Step

(* Other steps leave every process before its replacement, or where it is.   *)
LEMMA OtherMoves ==
    ASSUME TypeInv, UpgradeStep,
           ~ \E p \in Upgraders, ok, saved \in BOOLEAN : Step(p, ok, saved)
    PROVE  \A p \in Upgraders : up'[p] = up[p] \/ up'[p].pc \in {"idle", "down", "fetch"}
<1> USE UpgradeAssumption, BecomesMoves DEF TypeInv, Fixed
<1>1. CASE UNCHANGED up
  BY <1>1
<1>2. CASE \E saved \in BOOLEAN : BeginUpgrade(saved)
  BY <1>2 DEF BeginUpgrade, UpType
<1>3. CASE Exec \/ StartDaemon
  <2>1. \/ up' = [up EXCEPT ![Daemon] = Running(file["agent"])]
        \/ up' = [up EXCEPT ![Daemon] = Down]
    BY <1>3 DEF Exec, StartDaemon
  <2>2. up'[Daemon].pc \in {"idle", "down"} /\ Fixed(Daemon)
    BY <2>1, RunsOrEnds
  <2> QED  BY <2>2
<1>4. ASSUME NEW ok \in BOOLEAN, NEW saved \in BOOLEAN, HelperStep(ok, saved)
      PROVE  UNCHANGED up \/ StartNew(ok) \/ StartOld(ok, saved)
  BY <1>4 DEF HelperStep, ParentGone, CopyBundle, BackUpNext, InstallNext, RestoreNext, Restored,
              Retry, GiveUp, RecordFailure, RecordSuccess
<1>5. ASSUME NEW ok \in BOOLEAN, NEW saved \in BOOLEAN, HelperStep(ok, saved)
      PROVE  \A p \in Upgraders : up'[p] = up[p] \/ up'[p].pc \in {"idle", "down", "fetch"}
  <2>1. UNCHANGED up \/ up' = [up EXCEPT ![Daemon] = Running(file["agent"])]
    BY <1>4, <1>5 DEF StartNew, StartOld
  <2>2. CASE UNCHANGED up
    BY <2>2
  <2>3. CASE up' = [up EXCEPT ![Daemon] = Running(file["agent"])]
    <3>1. up'[Daemon].pc \in {"idle", "down"} /\ Fixed(Daemon)
      BY <2>3, RunsOrEnds
    <3> QED  BY <3>1
  <2> QED  BY <2>1, <2>2, <2>3
<1>6. ASSUME NEW c \in Upgraders, NEW v \in Versions, NEW force \in BOOLEAN, RunCommand(c, v, force)
      PROVE  \A p \in Upgraders : up'[p] = up[p] \/ up'[p].pc \in {"idle", "down", "fetch"}
  BY <1>6 DEF RunCommand
<1>7. ASSUME NEW q \in Upgraders, Die(q)
      PROVE  \A p \in Upgraders : up'[p] = up[p] \/ up'[p].pc \in {"idle", "down", "fetch"}
  BY <1>7, RunsOrEnds DEF Die
<1> QED
  BY <1>1, <1>2, <1>3, <1>5, <1>6, <1>7 DEF UpgradeStep, upgradeVars, HelperDies, Publish, Tick

(* The system stays what it is. *)
LEMMA HostFixed ==
    ASSUME UpgradeStep
    PROVE  host' = host
<1>1. ASSUME NEW p \in Upgraders, NEW ok \in BOOLEAN, NEW saved \in BOOLEAN, Step(p, ok, saved)
      PROVE  host' = host
  BY <1>1 DEF Step, Fetch, Stat, ClearBackup, BackUp, Install, Undo, SetMode, Stage, ExitStaged
<1>2. ASSUME NEW ok \in BOOLEAN, NEW saved \in BOOLEAN, HelperStep(ok, saved)
      PROVE  host' = host
  BY <1>2 DEF HelperStep, ParentGone, CopyBundle, BackUpNext, InstallNext, RestoreNext, Restored,
              Retry, GiveUp, RecordFailure, RecordSuccess, StartNew, StartOld
<1> QED
  BY <1>1, <1>2 DEF UpgradeStep, upgradeVars, BeginUpgrade, Exec, RunCommand, Die, HelperDies,
                    Publish, Tick, StartDaemon

(* A helper comes only from a process that stages, and goes as a whole. *)
LEMMA HelperComes ==
    ASSUME TypeInv, StageInv, UpgradeStep
    PROVE  \/ helper' = helper
           \/ helper' = NoHelper
           \/ helper.pc # "none" /\ helper'.pc # "none"
           \/ host = "windows" /\ helper'.pc # "none"
<1>1. ASSUME NEW p \in Upgraders, NEW ok \in BOOLEAN, NEW saved \in BOOLEAN, Step(p, ok, saved)
      PROVE  helper' = helper \/ (host = "windows" /\ helper'.pc # "none")
  <2>1. CASE Stage(p, ok, saved)
    BY <2>1 DEF Stage, StageInv, WindowsStages, NoHelper
  <2> QED
    BY <1>1, <2>1 DEF Step, Fetch, Stat, ClearBackup, BackUp, Install, Undo, SetMode, ExitStaged
<1>2. ASSUME NEW ok \in BOOLEAN, NEW saved \in BOOLEAN, HelperStep(ok, saved)
      PROVE  helper.pc # "none" /\ (helper'.pc # "none" \/ helper' = NoHelper)
  <2> USE DEF TypeInv, HelperType, HelperGoes, HelperEnds
  <2>1. CASE ParentGone \/ CopyBundle(ok) \/ Restored \/ Retry \/ GiveUp \/ RecordFailure(saved)
             \/ RecordSuccess(saved) \/ StartNew(ok) \/ StartOld(ok, saved)
    BY <2>1 DEF ParentGone, CopyBundle, Restored, Retry, GiveUp, RecordFailure, RecordSuccess,
                StartNew, StartOld
  <2>2. CASE BackUpNext(ok) \/ InstallNext(ok)
    BY <2>2 DEF BackUpNext, InstallNext, NextFile
  <2>3. CASE \E f \in Artifacts : RestoreNext(f, ok)
    BY <2>3 DEF RestoreNext
  <2> QED  BY <1>2, <2>1, <2>2, <2>3 DEF HelperStep
<1> QED
  BY <1>1, <1>2 DEF UpgradeStep, upgradeVars, BeginUpgrade, Exec, RunCommand, Die, HelperDies,
                    HelperEnds, Publish, Tick, StartDaemon

(* Each step keeps the stages of the two systems apart. *)
LEMMA StageStep ==
    ASSUME TypeInv, StageInv, UpgradeStep
    PROVE  StageInv'
<1> USE DEF UnixStages, WindowsStages
<1>1. host' = host /\ host \in {"unix", "windows"}
  BY HostFixed DEF TypeInv
<1>2. /\ helper'.pc = "none" => helper' = NoHelper
      /\ host = "unix" => helper' = NoHelper
  BY HelperComes DEF StageInv, NoHelper
<1>3. ASSUME NEW p \in Upgraders
      PROVE  /\ up'[p].pc \in UnixStages => host = "unix"
             /\ up'[p].pc \in WindowsStages => host = "windows"
             /\ up'[p].pc \in (UnixStages \cup WindowsStages) => up'[p].target \in Versions
  <2>1. CASE up'[p] = up[p] \/ up'[p].pc \in {"idle", "down", "fetch"}
    BY <2>1 DEF StageInv
  <2>2. ASSUME NEW q \in Upgraders, NEW ok \in BOOLEAN, NEW saved \in BOOLEAN, Step(q, ok, saved),
               q = p
        PROVE  /\ up'[p].pc \in UnixStages => host = "unix"
               /\ up'[p].pc \in WindowsStages => host = "windows"
               /\ up'[p].pc \in (UnixStages \cup WindowsStages) => up'[p].target \in Versions
    BY <1>1, <2>2, ProcessMoves DEF UnixStep, Moves, StageInv
  <2>3. ASSUME NEW q \in Upgraders, NEW ok \in BOOLEAN, NEW saved \in BOOLEAN, Step(q, ok, saved),
               q # p
        PROVE  up'[p] = up[p]
    BY <2>3, ProcessMoves DEF UnixStep, Moves, Fixed
  <2> QED  BY <2>1, <2>2, <2>3, OtherMoves
<1> QED  BY <1>1, <1>2, <1>3 DEF StageInv

-----------------------------------------------------------------------------
(* The binary on Unix *)
LEMMA HurtStays ==
    ASSUME UpgradeStep, hurt
    PROVE  hurt'
<1>1. ASSUME NEW p \in Upgraders, NEW ok \in BOOLEAN, NEW saved \in BOOLEAN, Step(p, ok, saved)
      PROVE  hurt'
  BY <1>1 DEF Step, Fetch, Stat, ClearBackup, BackUp, Install, Undo, SetMode, Stage, ExitStaged
<1>2. ASSUME NEW ok \in BOOLEAN, NEW saved \in BOOLEAN, HelperStep(ok, saved)
      PROVE  hurt'
  BY <1>2 DEF HelperStep, ParentGone, CopyBundle, BackUpNext, InstallNext, RestoreNext, Restored,
              Retry, GiveUp, RecordFailure, RecordSuccess, StartNew, StartOld
<1> QED
  BY <1>1, <1>2 DEF UpgradeStep, upgradeVars, BeginUpgrade, Exec, RunCommand, Die, HelperDies,
                    Publish, Tick, StartDaemon

(* Only a process that replaces, or the helper, changes a file. *)
LEMMA FilesFixed ==
    ASSUME UpgradeStep,
           ~ \E p \in Upgraders, ok, saved \in BOOLEAN : Step(p, ok, saved),
           ~ \E ok, saved \in BOOLEAN : HelperStep(ok, saved)
    PROVE  file' = file
<1> QED
  BY DEF UpgradeStep, upgradeVars, BeginUpgrade, Exec, RunCommand, Die, HelperDies,
         Publish, Tick, StartDaemon

(* What a step on Unix does to the binary and its backup. *)
LEMMA ReplacementStep ==
    ASSUME TypeInv, StageInv, host = "unix",
           NEW p \in Upgraders, NEW ok \in BOOLEAN, NEW saved \in BOOLEAN, Step(p, ok, saved)
    PROVE  \/ file' = file /\ up'[p].pc \notin Replacing
           \/ /\ up[p].pc = "stat" /\ up'[p].pc = "clear" /\ file' = file /\ file["agent"] # None
              /\ hurt' \/ \A q \in Upgraders \ {p} : up[q].pc \notin Replacing
           \/ up[p].pc = "clear" /\ up'[p].pc = "backup" /\ file'["agent"] = file["agent"]
           \/ /\ up[p].pc = "backup" /\ up'[p].pc = "install"
              /\ file["agent"] # None /\ file'["agent.prev"] = file["agent"]
           \/ /\ up[p].pc = "install" /\ up'[p].pc = "undo" /\ file' = file
           \/ /\ up[p].pc = "install" /\ up'[p].pc = "mode" /\ file'["agent"] # None
           \/ /\ up[p].pc = "undo" /\ up'[p].pc \notin Replacing
              /\ file["agent.prev"] # None => file'["agent"] # None \/ file'["agent.prev"] # None
<1> USE GotoMoves, FailsMoves DEF GoesTo, TypeInv, Replacing, Moves
<1>1. file \in FileType /\ {"agent", "agent.prev"} \subseteq Files
  BY FileNames
<1>2. CASE \E got \in Versions \cup {Broken} : Fetch(p, got, saved)
  <2>1. file' = file
    BY <1>2 DEF Fetch
  <2>2. up[p].pc = "fetch"
    BY <1>2 DEF Fetch
  <2>3. up'[p].pc \notin Replacing
    BY <2>2, ProcessMoves DEF UnixStep
  <2> QED  BY <2>1, <2>3
<1>3. CASE Stat(p, saved)
  BY <1>3 DEF Stat
<1>4. CASE ClearBackup(p)
  BY <1>1, <1>4 DEF ClearBackup, FileType
<1>5. CASE BackUp(p, ok, saved)
  BY <1>1, <1>5 DEF BackUp, Move, FileType
<1>6. CASE Install(p, ok)
  <2>1. up[p].pc = "install" /\ up[p].target # None
    BY <1>6, UpgradeAssumption DEF Install, StageInv, UnixStages
  <2> QED  BY <1>1, <1>6, <2>1 DEF Install, FileType
<1>7. CASE Undo(p, ok, saved)
  BY <1>1, <1>7 DEF Undo, Move, FileType
<1>8. CASE SetMode(p, ok, saved)
  <2>1. up[p].pc = "mode" /\ file' = file
    BY <1>8 DEF SetMode
  <2>2. up'[p].pc \notin Replacing
    BY <2>1, ProcessMoves DEF UnixStep
  <2> QED  BY <2>1, <2>2
<1>9. CASE Stage(p, ok, saved) \/ ExitStaged(p, saved)
  BY <1>9 DEF Stage, ExitStaged, StageInv, WindowsStages
<1> QED
  BY <1>2, <1>3, <1>4, <1>5, <1>6, <1>7, <1>8, <1>9 DEF Step

(* On Unix each step keeps one replacement at a time, with the old binary *)
(* at hand.                                                               *)
LEMMA ReplaceStep ==
    ASSUME TypeInv, StageInv, ReplaceInv, BinaryKept, UpgradeStep, host = "unix"
    PROVE  ReplaceInv' /\ BinaryKept'
<1> SUFFICES ASSUME ~hurt' PROVE ReplaceInv' /\ BinaryKept'
  BY DEF ReplaceInv, BinaryKept
<1>1. ~hurt
  BY HurtStays
<1>2. ASSUME NEW p \in Upgraders, NEW ok \in BOOLEAN, NEW saved \in BOOLEAN, Step(p, ok, saved)
      PROVE  ReplaceInv' /\ BinaryKept'
  <2>1. \A q \in Upgraders \ {p} : up'[q] = up[q]
    BY <1>2, ProcessMoves DEF UnixStep, Moves, Fixed
  <2>2. /\ up[p].pc \in Replacing => \A q \in Upgraders \ {p} : up[q].pc \notin Replacing
        /\ up[p].pc \in {"clear", "backup"} => file["agent"] # None
        /\ up[p].pc \in {"install", "undo"} => file["agent.prev"] # None
        /\ file["agent"] # None \/ file["agent.prev"] # None
    BY <1>1 DEF ReplaceInv, BinaryKept
  <2>3. /\ up'[p].pc \in Replacing => \A q \in Upgraders \ {p} : up[q].pc \notin Replacing
        /\ up'[p].pc \in {"clear", "backup"} => file'["agent"] # None
        /\ up'[p].pc \in {"install", "undo"} => file'["agent.prev"] # None
        /\ file'["agent"] # None \/ file'["agent.prev"] # None
        /\ file' = file \/ up[p].pc \in Replacing
    BY <1>2, <2>2, ReplacementStep DEF Replacing
  <2> QED
    BY <1>1, <2>1, <2>2, <2>3 DEF ReplaceInv, BinaryKept, Replacing
<1>3. ASSUME ~ \E p \in Upgraders, ok, saved \in BOOLEAN : Step(p, ok, saved)
      PROVE  ReplaceInv' /\ BinaryKept'
  <2>1. ~ \E ok, saved \in BOOLEAN : HelperStep(ok, saved)
    <3>1. helper.pc = "none"
      BY DEF StageInv, NoHelper
    <3> QED
      BY <3>1 DEF HelperStep, ParentGone, CopyBundle, BackUpNext, InstallNext, RestoreNext, Restored,
                  Retry, GiveUp, RecordFailure, RecordSuccess, StartNew, StartOld
  <2>2. file' = file
    BY <1>3, <2>1, FilesFixed
  <2>3. \A p \in Upgraders : up'[p].pc = up[p].pc \/ up'[p].pc \notin Replacing
    BY <1>3, OtherMoves DEF Replacing
  <2> QED  BY <1>1, <2>2, <2>3 DEF ReplaceInv, BinaryKept, Replacing
<1> QED  BY <1>2, <1>3

-----------------------------------------------------------------------------
(* The bundle on Windows *)
LEMMA BundleFiles ==
    /\ InBundle = IF helper.parent = Daemon THEN {"agent", "launcher"} ELSE {"agent"}
    /\ LastFile = IF helper.parent = Daemon THEN "launcher" ELSE "agent"
    /\ InBundle' = IF helper'.parent = Daemon THEN {"agent", "launcher"} ELSE {"agent"}
<1> QED  BY DEF InBundle, LastFile, Bundle

(* Without a helper there is nothing to say. *)
LEMMA HelperGone ==
    ASSUME helper' = NoHelper
    PROVE  HelperInv' /\ BundleInv'
<1> QED  BY DEF HelperInv, BundleInv, NoHelper

(* What leaves the helper and the files alone keeps what is said of them. *)
LEMMA HelperSame ==
    ASSUME HelperInv, BundleInv, UpgradeStep, helper' = helper, file' = file
    PROVE  HelperInv' /\ BundleInv'
<1>1. InBundle' = InBundle
  BY BundleFiles
<1> QED  BY <1>1, HurtStays DEF HelperInv, BundleInv

(* The helper as it was, except where it is and at which file. *)
LEMMA HelperFields ==
    ASSUME helper \in HelperType, NEW place, HelperGoes(place)
    PROVE  /\ helper'.pc = place /\ helper'.at = "agent"
           /\ helper'.parent = helper.parent /\ helper'.new = helper.new
           /\ helper'.before = helper.before /\ helper'.backed = helper.backed
           /\ helper'.then = helper.then /\ InBundle' = InBundle
<1> QED  BY BundleFiles DEF HelperType, HelperGoes

(* The helper as it was, except for its file, its stage and what is backed *)
(* up.                                                                     *)
LEMMA NextFileFields ==
    ASSUME helper \in HelperType, NEW place, NEW backed, NextFile(backed, place)
    PROVE  /\ helper'.backed = backed
           /\ helper'.parent = helper.parent /\ helper'.new = helper.new
           /\ helper'.before = helper.before
           /\ helper'.then = helper.then /\ InBundle' = InBundle
           /\ IF helper.at = LastFile THEN helper'.pc = place /\ helper'.at = "agent"
              ELSE helper'.pc = helper.pc /\ helper'.at = "launcher"
<1> QED  BY BundleFiles DEF HelperType, NextFile

(* A helper begins with the files as they are. *)
LEMMA BundleStage ==
    ASSUME TypeInv, StageInv, NEW p \in Upgraders, NEW ok \in BOOLEAN, NEW saved \in BOOLEAN,
           Stage(p, ok, saved), helper' # helper
    PROVE  HelperInv' /\ BundleInv'
<1>1. helper' = [pc |-> "wait", parent |-> p, new |-> up[p].target, before |-> file,
                 at |-> "agent", backed |-> {}, then |-> "again"]
  BY DEF Stage, NoHelper
<1>2. up[p].target \in Versions /\ file \in [Files -> Versions \cup {None}]
  BY DEF Stage, StageInv, WindowsStages, TypeInv, FileType
<1>3. file' = file /\ hurt' = (hurt \/ file["agent"] = None)
  BY DEF Stage
<1> QED  BY <1>1, <1>2, <1>3 DEF HelperInv, BundleInv

(* The helper goes on with its files as they are. *)
LEMMA BundleGoes ==
    ASSUME TypeInv, StageInv, HelperInv, BundleInv, NEW ok \in BOOLEAN,
           ParentGone \/ CopyBundle(ok) \/ Restored \/ Retry \/ GiveUp
    PROVE  HelperInv' /\ BundleInv'
<1>1. /\ helper.pc \in {"wait", "copy", "restore", "again"} /\ helper.backed = {}
      /\ file' = file /\ hurt' = hurt
      /\ \E place \in {"copy", "backup", "again", "record", helper.then} : HelperGoes(place)
      /\ helper.pc # "restore" =>
            \E place \in {"copy", "backup", "again", "record"} : HelperGoes(place)
  BY DEF ParentGone, CopyBundle, Restored, Retry, GiveUp, HelperInv
<1>2. PICK place \in {"copy", "backup", "again", "record", "report"} :
          HelperGoes(place) /\ (place = "report" => helper.then = "report")
  BY <1>1 DEF TypeInv, HelperType
<1>3. helper \in HelperType
  BY DEF TypeInv
<1> QED  BY <1>1, <1>2, <1>3, HelperFields DEF HelperInv, BundleInv

(* Moving a file to its backup keeps what was there before. *)
LEMMA BundleBackUp ==
    ASSUME TypeInv, HelperInv, BundleInv, NEW ok \in BOOLEAN, BackUpNext(ok)
    PROVE  HelperInv' /\ BundleInv'
<1>1. helper \in HelperType /\ helper.pc = "backup" /\ hurt' = hurt
  BY DEF TypeInv, BackUpNext
<1>2. \/ helper.at = "agent" /\ helper.backed = {}
      \/ helper.at = "launcher" /\ helper.backed = {"agent"} /\ helper.parent = Daemon
  BY <1>1 DEF HelperInv
<1>3. CASE ~ok
  <2>1. HelperGoes("restore") /\ file' = file
    BY <1>3 DEF BackUpNext
  <2> QED  BY <1>1, <2>1, HelperFields DEF HelperInv, BundleInv
<1>4. CASE ok
  <2>1. Move(helper.at, Backup(helper.at)) /\ NextFile(helper.backed \cup {helper.at}, "install")
    BY <1>4 DEF BackUpNext
  <2>2. \/ helper'.pc = "install" /\ helper'.at = "agent" /\ helper'.backed = InBundle
        \/ /\ helper'.pc = "backup" /\ helper'.at = "launcher" /\ helper'.backed = {"agent"}
           /\ helper.parent = Daemon
    BY <1>1, <1>2, <2>1, NextFileFields, BundleFiles
  <2>3. HelperInv'
    BY <1>1, <2>1, <2>2, NextFileFields, BundleFiles DEF HelperInv
  <2>4. BundleInv'
    <3> SUFFICES ASSUME ~hurt, NEW f \in InBundle
                 PROVE  file'[IF f \in helper'.backed THEN Backup(f) ELSE f] = helper.before[f]
      BY <1>1, <2>1, <2>2, NextFileFields DEF BundleInv
    <3>1. file[IF f \in helper.backed THEN Backup(f) ELSE f] = helper.before[f]
      BY <1>1 DEF BundleInv
    <3>2. file \in FileType /\ f \in {"agent", "launcher"}
      BY BundleFiles DEF TypeInv
    <3>3. helper'.backed = helper.backed \cup {helper.at}
      BY <1>1, <2>1, NextFileFields
    <3> QED
      BY <1>2, <2>1, <3>1, <3>2, <3>3, FileNames DEF Move, FileType
  <2> QED  BY <2>3, <2>4
<1> QED  BY <1>3, <1>4

(* Putting a new file in place leaves the backup of the old one. *)
LEMMA BundleInstall ==
    ASSUME TypeInv, HelperInv, BundleInv, NEW ok \in BOOLEAN, InstallNext(ok)
    PROVE  HelperInv' /\ BundleInv'
<1>1. /\ helper \in HelperType /\ helper.pc = "install" /\ hurt' = hurt
      /\ helper.at \in {"agent", "launcher"} /\ file \in FileType
  BY FileNames DEF TypeInv, HelperType, InstallNext
<1>2. /\ helper.backed = InBundle /\ helper.new \in Versions
      /\ helper.at = "launcher" => helper.parent = Daemon /\ file["agent"] = helper.new
  BY <1>1 DEF HelperInv
<1>3. CASE ~ok
  <2>1. HelperGoes("restore") /\ file' = file
    BY <1>3 DEF InstallNext
  <2> QED  BY <1>1, <1>2, <2>1, HelperFields DEF HelperInv, BundleInv
<1>4. CASE ok
  <2>1. PICK place \in {"start", "done"} : NextFile(helper.backed, place)
    BY <1>4 DEF InstallNext
  <2>2. file' = [file EXCEPT ![helper.at] = helper.new]
    BY <1>4 DEF InstallNext
  <2>3. /\ file'[helper.at] = helper.new
        /\ \A f \in Files \ {helper.at} : file'[f] = file[f]
    BY <1>1, <2>2, FileNames DEF FileType
  <2>4. \/ /\ helper'.pc \in {"start", "done"} /\ \A f \in InBundle : file'[f] = helper.new
        \/ /\ helper'.pc = "install" /\ helper'.at = "launcher" /\ helper.parent = Daemon
           /\ file'["agent"] = helper.new
    BY <1>1, <1>2, <2>1, <2>3, NextFileFields, BundleFiles, FileNames
  <2>5. HelperInv'
    BY <1>1, <1>2, <2>1, <2>4, NextFileFields DEF HelperInv
  <2>6. BundleInv'
    <3>1. \A f \in InBundle : Backup(f) \in Files \ {helper.at}
      BY <1>1, BundleFiles, FileNames
    <3> QED  BY <1>1, <1>2, <2>1, <2>3, <2>4, <3>1, NextFileFields DEF BundleInv
  <2> QED  BY <2>5, <2>6
<1> QED  BY <1>3, <1>4

(* A file that is restored is what was there before. *)
LEMMA BundleRestore ==
    ASSUME TypeInv, HelperInv, BundleInv, NEW ok \in BOOLEAN, NEW f \in Artifacts,
           RestoreNext(f, ok)
    PROVE  HelperInv' /\ BundleInv'
<1>1. /\ helper \in HelperType /\ helper.pc = "restore" /\ f \in helper.backed
      /\ file \in FileType /\ f \in {"agent", "launcher"}
  BY FileNames DEF TypeInv, RestoreNext
<1>2. /\ helper'.pc = "restore" /\ helper'.backed = helper.backed \ {f}
      /\ helper'.parent = helper.parent /\ helper'.new = helper.new
      /\ helper'.before = helper.before /\ InBundle' = InBundle
  BY <1>1, BundleFiles DEF RestoreNext, HelperType
<1>3. helper'.then = "report" => helper.then = "report" \/ ~ok
  BY <1>1 DEF RestoreNext, HelperType
<1>4. IF ok THEN Move(Backup(f), f) /\ hurt' = hurt ELSE hurt'
  BY DEF RestoreNext
<1>5. HelperInv'
  BY <1>1, <1>2, <1>3, <1>4 DEF HelperInv
<1>6. BundleInv'
  <2> SUFFICES ASSUME ~hurt', NEW g \in InBundle
               PROVE  file'[IF g \in helper'.backed THEN Backup(g) ELSE g] = helper.before[g]
    BY <1>1, <1>2, <1>4 DEF BundleInv
  <2>1. file[IF g \in helper.backed THEN Backup(g) ELSE g] = helper.before[g]
    BY <1>1, <1>4 DEF BundleInv
  <2>2. g \in {"agent", "launcher"}
    BY BundleFiles
  <2> QED  BY <1>1, <1>2, <1>4, <2>1, <2>2, FileNames DEF Move, FileType
<1> QED  BY <1>5, <1>6

(* Starting an agent, and what the helper records. *)
LEMMA BundleEnds ==
    ASSUME TypeInv, HelperInv, BundleInv, NEW ok \in BOOLEAN, NEW saved \in BOOLEAN,
           StartNew(ok) \/ StartOld(ok, saved) \/ RecordFailure(saved) \/ RecordSuccess(saved)
    PROVE  HelperInv' /\ BundleInv'
<1>1. helper \in HelperType /\ file' = file /\ hurt' = hurt
  BY DEF TypeInv, StartNew, StartOld, RecordFailure, RecordSuccess
<1>2. CASE StartNew(ok)
  <2>1. CASE HelperGoes("done")
    BY <1>1, <1>2, <2>1, HelperFields DEF StartNew, HelperInv, BundleInv
  <2>2. CASE helper' = [helper EXCEPT !.pc = "restore", !.then = "record"]
    <3>1. /\ helper'.pc = "restore" /\ helper'.then = "record"
          /\ helper'.parent = helper.parent /\ helper'.new = helper.new
          /\ helper'.before = helper.before /\ helper'.backed = helper.backed
          /\ InBundle' = InBundle
      BY <1>1, <2>2, BundleFiles DEF HelperType
    <3> QED  BY <1>1, <1>2, <3>1 DEF StartNew, HelperInv, BundleInv
  <2> QED  BY <1>2, <2>1, <2>2 DEF StartNew
<1>3. CASE StartOld(ok, saved) \/ RecordFailure(saved) \/ RecordSuccess(saved)
  <2>1. CASE helper' = NoHelper
    BY <2>1, HelperGone
  <2>2. CASE helper.pc = "record" /\ HelperGoes("restart")
    BY <1>1, <2>2, HelperFields DEF HelperInv, BundleInv
  <2>3. RecordFailure(saved) => helper' = NoHelper \/ (helper.pc = "record" /\ HelperGoes("restart"))
    BY DEF RecordFailure, HelperEnds
  <2> QED  BY <1>3, <2>1, <2>2, <2>3 DEF StartOld, RecordSuccess, HelperEnds
<1> QED  BY <1>2, <1>3

(* Each step keeps the bundle whole, or its backups. *)
LEMMA BundleStep ==
    ASSUME TypeInv, StageInv, HelperInv, BundleInv, UpgradeStep
    PROVE  HelperInv' /\ BundleInv'
<1>1. ASSUME NEW ok \in BOOLEAN, NEW saved \in BOOLEAN, HelperStep(ok, saved)
      PROVE  HelperInv' /\ BundleInv'
  BY <1>1, BundleGoes, BundleBackUp, BundleInstall, BundleRestore, BundleEnds DEF HelperStep
<1>2. ASSUME NEW p \in Upgraders, NEW ok \in BOOLEAN, NEW saved \in BOOLEAN, Step(p, ok, saved)
      PROVE  HelperInv' /\ BundleInv'
  <2>1. CASE host = "unix"
    BY <2>1, StageStep, HostFixed, HelperGone DEF StageInv
  <2>2. CASE host = "windows" /\ helper' = helper
    <3>1. up[p].pc \notin UnixStages
      BY <2>2 DEF StageInv
    <3>2. file' = file
      BY <1>2, <3>1 DEF UnixStages, Step, Fetch, Stat, ClearBackup, BackUp, Install, Undo, SetMode,
                        Stage, ExitStaged
    <3> QED  BY <2>2, <3>2, HelperSame
  <2>3. CASE helper' # helper
    BY <1>2, <2>3, BundleStage DEF Step, Fetch, Stat, ClearBackup, BackUp, Install, Undo, SetMode,
                                  ExitStaged
  <2> QED  BY <2>1, <2>2, <2>3 DEF TypeInv
<1>3. CASE HelperDies
  BY <1>3, HelperGone DEF HelperDies, HelperEnds
<1>4. CASE /\ ~ \E p \in Upgraders, ok, saved \in BOOLEAN : Step(p, ok, saved)
           /\ ~ \E ok, saved \in BOOLEAN : HelperStep(ok, saved)
           /\ ~ HelperDies
  <2>1. file' = file
    BY <1>4, FilesFixed
  <2>2. helper' = helper
    BY <1>4 DEF UpgradeStep, upgradeVars, BeginUpgrade, Exec, RunCommand, Die, Publish, Tick,
                StartDaemon
  <2> QED  BY <2>1, <2>2, HelperSame
<1> QED  BY <1>1, <1>2, <1>3, <1>4

(* While the helper runs, before or after it, one of the two has a binary. *)
LEMMA KeptStep ==
    ASSUME TypeInv, StageInv, HelperInv, BundleInv, BinaryKept, UpgradeStep, host = "windows"
    PROVE  BinaryKept'
<1> SUFFICES ASSUME ~hurt'
             PROVE  file'["agent"] # None \/ file'["agent.prev"] # None
  BY DEF BinaryKept
<1>1. HelperInv' /\ BundleInv' /\ "agent" \in InBundle' /\ None \notin Versions
  BY BundleStep, BundleFiles, UpgradeAssumption
<1>2. CASE helper'.pc \notin {"none", "done"}
  BY <1>1, <1>2, FileNames DEF BundleInv
<1>3. CASE helper'.pc = "done"
  BY <1>1, <1>3 DEF HelperInv
<1>4. CASE helper'.pc = "none"
  <2>1. file' = file
    <3>1. ASSUME NEW p \in Upgraders, NEW ok \in BOOLEAN, NEW saved \in BOOLEAN, Step(p, ok, saved)
          PROVE  file' = file
      <4>1. up[p].pc \notin UnixStages
        BY DEF StageInv
      <4> QED
        BY <3>1, <4>1 DEF UnixStages, Step, Fetch, Stat, ClearBackup, BackUp, Install, Undo,
                          SetMode, Stage, ExitStaged
    <3>2. ASSUME NEW ok \in BOOLEAN, NEW saved \in BOOLEAN, HelperStep(ok, saved)
          PROVE  file' = file
      <4>1. helper \in HelperType
        BY DEF TypeInv
      <4>2. ~BackUpNext(ok) /\ ~InstallNext(ok) /\ \A f \in Artifacts : ~RestoreNext(f, ok)
        BY <1>4, <4>1 DEF BackUpNext, InstallNext, RestoreNext, HelperGoes, NextFile, HelperType
      <4> QED
        BY <3>2, <4>2 DEF HelperStep, ParentGone, CopyBundle, Restored, Retry, GiveUp,
                          RecordFailure, RecordSuccess, StartNew, StartOld
    <3> QED  BY <3>1, <3>2, FilesFixed
  <2> QED  BY <2>1, HurtStays DEF BinaryKept
<1> QED  BY <1>2, <1>3, <1>4

-----------------------------------------------------------------------------
(* Attempts *)

(* Only these steps touch the daemon, the record or its attempt. *)
LEMMA AttemptSame ==
    ASSUME AttemptInv, record' = record, tried' = tried, helper' = helper,
           up'[Daemon] = up[Daemon]
    PROVE  AttemptInv'
<1> QED  BY DEF AttemptInv

(* Saving a record of the attempt makes it the newest. *)
LEMMA SaveAttempt ==
    ASSUME TypeInv, AttemptInv, NEW state \in {"failed", "staged", "succeeded"},
           NEW saved \in BOOLEAN, Save(state, saved), up[Daemon].pc \notin {"idle", "down"}
    PROVE  /\ tried'.target = tried.target
           /\ tried'.known => record'.age <= tried'.age
           /\ tried'.failed => state = "failed"
           /\ tried'.known /\ tried'.failed =>
                record'.state = "failed" /\ record'.target = tried'.target
<1>1. /\ tried.age \in Nat /\ record.age \in Nat /\ tried \in TriedType /\ record \in RecordType
      /\ tried.known \in BOOLEAN /\ tried.failed \in BOOLEAN
  BY UpgradeAssumption DEF TypeInv, TriedType, RecordType, Aged
<1>2. /\ up[Daemon].target = tried.target /\ ~tried.failed
      /\ tried.known => record.age <= tried.age
  BY DEF AttemptInv
<1>3. /\ tried'.target = tried.target /\ tried'.age = tried.age
      /\ tried'.known = (tried.known \/ saved)
      /\ tried'.failed = (tried.failed \/ (saved /\ state = "failed"))
  BY <1>1 DEF Save, TriedType
<1>4. record' = IF saved THEN [state |-> state, target |-> tried.target, age |-> 0] ELSE record
  BY <1>2 DEF Save, Record
<1> QED  BY <1>1, <1>2, <1>3, <1>4

(* The steps of the processes keep the record true to the attempt. *)
LEMMA AttemptProcess ==
    ASSUME TypeInv, StageInv, AttemptInv, NEW p \in Upgraders, NEW ok \in BOOLEAN,
           NEW saved \in BOOLEAN, Step(p, ok, saved)
    PROVE  AttemptInv'
<1>1. Daemon \in Upgraders
  BY UpgradeAssumption
<1>2. CASE p # Daemon
  <2>1. up'[Daemon] = up[Daemon]
    BY <1>1, <1>2, ProcessMoves DEF UnixStep, Moves, Fixed
  <2>2. record' = record /\ tried' = tried
    BY <1>2 DEF Step, Fetch, Stat, ClearBackup, BackUp, Install, Undo, SetMode, Stage, ExitStaged,
                Fails, GoesTo
  <2>3. helper' = helper \/ helper'.parent = p
    BY DEF Step, Fetch, Stat, ClearBackup, BackUp, Install, Undo, SetMode, Stage, ExitStaged,
           NoHelper
  <2> QED  BY <1>2, <2>1, <2>2, <2>3 DEF AttemptInv
<1>3. CASE p = Daemon
  <2>1. /\ up[Daemon].pc \notin {"idle", "down"}
        /\ up[Daemon].target = tried.target /\ ~tried.failed
        /\ helper.pc # "none" /\ helper.parent = Daemon /\ helper.pc # "done" =>
              helper.new = tried.target /\ helper.pc = "wait" /\ up[Daemon].pc = "staged"
    BY <1>3 DEF AttemptInv, Step, Fetch, Stat, ClearBackup, BackUp, Install, Undo, SetMode, Stage,
                ExitStaged
  <2>2. CASE GoesTo(p, up'[p].pc) /\ helper' = helper /\ up[p].pc # "staged"
    BY <1>1, <1>3, <2>1, <2>2, GotoMoves DEF GoesTo, Moves, AttemptInv, TypeInv
  <2>3. CASE Fails(p, saved) /\ helper' = helper /\ up[p].pc # "staged"
    <3>1. Save("failed", saved) /\ up'[p].pc = "idle"
      BY <1>3, <2>3, BecomesMoves DEF Fails, Running, TypeInv
    <3> QED  BY <1>3, <2>1, <2>3, <3>1, SaveAttempt DEF AttemptInv
  <2>4. ASSUME NEW got \in Versions \cup {Broken}, Fetch(p, got, saved)
        PROVE  AttemptInv'
    <3>1. helper' = helper /\ up[p].pc = "fetch"
      BY <2>4 DEF Fetch
    <3>2. CASE Verified(got, up[p].target)
      <4>1. up'[p].pc \in {"stat", "stage"} /\ up'[p].target = up[p].target
        BY <2>4, <3>2, ProcessMoves DEF Fetch, Verified, TypeInv, UpType
      <4>2. record' = record /\ tried' = tried
        BY <2>4, <3>2 DEF Fetch
      <4> QED  BY <1>3, <2>1, <3>1, <4>1, <4>2 DEF AttemptInv
    <3>3. CASE ~Verified(got, up[p].target)
      BY <2>3, <2>4, <3>1, <3>3 DEF Fetch
    <3> QED  BY <3>2, <3>3
  <2>5. CASE Stat(p, saved) \/ ClearBackup(p) \/ BackUp(p, ok, saved) \/ Install(p, ok)
             \/ Undo(p, ok, saved)
    <3>1. ASSUME NEW place, GoesTo(p, place)
          PROVE  up'[p].pc = place
      BY <3>1, GotoMoves DEF GoesTo, Moves, TypeInv
    <3> QED
      BY <2>2, <2>3, <2>5, <3>1 DEF Stat, ClearBackup, BackUp, Install, Undo
  <2>6. CASE SetMode(p, ok, saved)
    <3>1. helper' = helper /\ up[p].pc = "mode"
      BY <2>6 DEF SetMode
    <3>2. CASE ok
      <4>1. Moves(p, "exec") /\ Save("succeeded", saved)
        BY <1>3, <2>6, <3>2, GotoMoves DEF SetMode, TypeInv
      <4> QED  BY <1>3, <2>1, <3>1, <4>1, SaveAttempt DEF Moves, AttemptInv
    <3>3. CASE ~ok
      BY <2>3, <2>6, <3>1, <3>3 DEF SetMode
    <3> QED  BY <3>2, <3>3
  <2>7. CASE Stage(p, ok, saved)
    <3>1. CASE ~(ok /\ helper = NoHelper)
      BY <2>3, <2>7, <3>1 DEF Stage
    <3>2. CASE ok /\ helper = NoHelper
      <4>1. /\ helper'.pc = "wait" /\ helper'.new = up[p].target /\ helper'.parent = p
            /\ GoesTo(p, "staged")
        BY <2>7, <3>2 DEF Stage, NoHelper
      <4>2. Moves(p, "staged") /\ record' = record /\ tried' = tried
        BY <4>1, GotoMoves DEF GoesTo, TypeInv
      <4> QED  BY <1>3, <2>1, <4>1, <4>2 DEF Moves, AttemptInv
    <3> QED  BY <3>1, <3>2
  <2>8. CASE ExitStaged(p, saved)
    <3>1. /\ helper' = helper /\ Save("staged", saved)
          /\ up' = [up EXCEPT ![p] = [pc |-> "down", is |-> None, target |-> None]]
      BY <1>3, <2>8 DEF ExitStaged, Down
    <3>2. up \in UpType /\ p \in Upgraders
      BY <1>3 DEF TypeInv
    <3>3. up'[p].pc = "down"
      BY <3>1, <3>2, BecomesMoves
    <3> QED  BY <1>3, <2>1, <3>1, <3>3, SaveAttempt DEF AttemptInv
  <2> QED  BY <2>4, <2>5, <2>6, <2>7, <2>8 DEF Step
<1> QED  BY <1>2, <1>3

(* So do those of the helper. *)
LEMMA AttemptHelper ==
    ASSUME TypeInv, StageInv, AttemptInv, NEW ok \in BOOLEAN, NEW saved \in BOOLEAN,
           HelperStep(ok, saved)
    PROVE  AttemptInv'
<1>1. /\ helper \in HelperType /\ helper.pc # "none"
      /\ tried.age \in Nat /\ record.age \in Nat /\ tried \in TriedType /\ record \in RecordType
      /\ tried.known \in BOOLEAN /\ tried.failed \in BOOLEAN
  <2>1. helper.pc # "none"
    BY DEF HelperStep, ParentGone, CopyBundle, BackUpNext, InstallNext, RestoreNext, Restored,
           Retry, GiveUp, RecordFailure, RecordSuccess, StartNew, StartOld
  <2> QED  BY <2>1, UpgradeAssumption DEF TypeInv, TriedType, RecordType, Aged
(* The result of the helper's parent. *)
<1>2. ASSUME NEW state \in {"failed", "succeeded"}, RecordResult(state, saved),
             helper.parent = Daemon
      PROVE  /\ tried'.known = tried.known /\ tried'.age = tried.age
             /\ tried'.target = tried.target /\ record'.age = record.age
             /\ tried'.failed = (saved /\ state = "failed")
             /\ tried'.failed => record'.state = "failed" /\ record'.target = helper.new
  BY <1>1, <1>2 DEF RecordResult, Record, TriedType, RecordType
<1>3. CASE UNCHANGED <<record, tried, up>>
  <2>1. /\ \/ helper' = NoHelper
           \/ helper'.parent = helper.parent /\ helper'.new = helper.new
        /\ helper'.pc = "wait" => helper.pc = "wait"
        /\ helper.pc = "wait" => up[helper.parent].pc = "down"
        /\ helper.pc = "done" => helper'.pc \in {"done", "none"}
    <3> USE <1>1 DEF HelperType
    <3>1. CASE ParentGone \/ CopyBundle(ok) \/ Restored \/ Retry \/ GiveUp
      BY <3>1 DEF ParentGone, CopyBundle, Restored, Retry, GiveUp, HelperGoes
    <3>2. CASE BackUpNext(ok) \/ InstallNext(ok)
      BY <3>2 DEF BackUpNext, InstallNext, HelperGoes, NextFile
    <3>3. CASE \E f \in Artifacts : RestoreNext(f, ok)
      BY <3>3 DEF RestoreNext
    <3>4. CASE RecordSuccess(saved) \/ StartOld(ok, saved)
      BY <3>4 DEF RecordSuccess, StartOld, HelperEnds, NoHelper
    <3>6. CASE RecordFailure(saved)
      <4>1. HelperGoes("restart") \/ HelperEnds
        BY <3>6 DEF RecordFailure
      <4>2. helper.pc \in {"record", "report"}
        BY <3>6 DEF RecordFailure
      <4>3. CASE HelperGoes("restart")
        BY <4>2, <4>3 DEF HelperGoes
      <4>4. CASE HelperEnds
        BY <4>2, <4>4 DEF HelperEnds, NoHelper
      <4> QED  BY <4>1, <4>3, <4>4
    <3>5. CASE StartNew(ok)
      BY <3>5 DEF StartNew, HelperGoes
    <3> QED  BY <3>1, <3>2, <3>3, <3>4, <3>5, <3>6 DEF HelperStep
  <2> QED  BY <1>1, <1>3, <2>1 DEF AttemptInv, NoHelper
<1>4. CASE RecordFailure(saved) \/ RecordSuccess(saved)
  <2>1. CASE helper.parent # Daemon
    BY <1>3, <1>4, <2>1 DEF RecordFailure, RecordSuccess, RecordResult
  <2>2. CASE helper.parent = Daemon /\ RecordFailure(saved)
    <3>1. /\ up' = up /\ RecordResult("failed", saved)
          /\ helper' = NoHelper \/ (helper.pc = "record" /\ HelperGoes("restart"))
      BY <2>2 DEF RecordFailure, HelperEnds
    <3>2. helper.new = tried.target /\ up[Daemon].pc = "down"
      BY <2>2 DEF AttemptInv, RecordFailure
    <3>3. helper' = NoHelper \/ helper'.new = helper.new
      BY <1>1, <3>1, HelperFields
    <3> QED  BY <1>1, <1>2, <2>2, <3>1, <3>2, <3>3 DEF AttemptInv, NoHelper
  <2>3. CASE helper.parent = Daemon /\ RecordSuccess(saved)
    <3>1. up' = up /\ RecordResult("succeeded", saved) /\ helper' = NoHelper
      BY <2>3 DEF RecordSuccess, HelperEnds
    <3> QED  BY <1>1, <1>2, <2>3, <3>1 DEF AttemptInv, NoHelper
  <2> QED  BY <1>4, <2>1, <2>2, <2>3
<1>5. CASE StartNew(ok)
  <2>1. CASE HelperGoes("done")
    <3>1. up' = [up EXCEPT ![Daemon] = Running(file["agent"])] /\ record' = record /\ tried' = tried
      BY <1>1, <1>5, <2>1 DEF StartNew, HelperGoes, HelperType
    <3>2. up'[Daemon].pc = "idle"
      BY <3>1, BecomesMoves, UpgradeAssumption DEF Running, TypeInv
    <3> QED  BY <1>1, <2>1, <3>1, <3>2, HelperFields DEF AttemptInv
  <2> QED  BY <1>3, <1>5, <2>1 DEF StartNew
<1>6. CASE StartOld(ok, saved)
  <2>1. helper' = NoHelper /\ helper.pc = "restart"
    BY <1>6 DEF StartOld, HelperEnds
  <2>2. CASE UNCHANGED <<record, tried>>
    <3>1. UNCHANGED up \/ up' = [up EXCEPT ![Daemon] = Running(file["agent"])]
      BY <1>6 DEF StartOld
    <3>2. UNCHANGED up \/ up'[Daemon].pc \in {"idle", "down"}
      BY <3>1, RunsOrEnds, UpgradeAssumption DEF TypeInv
    <3> QED  BY <2>1, <2>2, <3>2 DEF AttemptInv, NoHelper
  <2>3. CASE RecordResult("failed", saved) /\ up' = up /\ helper.parent = Daemon
    <3>1. helper.new = tried.target /\ up[Daemon].pc = "down"
      BY <2>1, <2>3 DEF AttemptInv
    <3> QED  BY <1>1, <1>2, <2>1, <2>3, <3>1 DEF AttemptInv, NoHelper
  <2> QED  BY <1>6, <2>2, <2>3 DEF StartOld, RecordResult
<1>7. CASE ~(RecordFailure(saved) \/ RecordSuccess(saved) \/ StartNew(ok) \/ StartOld(ok, saved))
  BY <1>3, <1>7 DEF HelperStep, ParentGone, CopyBundle, BackUpNext, InstallNext, RestoreNext,
     Restored, Retry, GiveUp
<1> QED  BY <1>4, <1>5, <1>6, <1>7

(* So do all others. *)
LEMMA AttemptStep ==
    ASSUME TypeInv, StageInv, AttemptInv, UpgradeStep
    PROVE  AttemptInv'
<1>1. Daemon \in Upgraders /\ up \in UpType
  BY UpgradeAssumption DEF TypeInv
<1>2. CASE UNCHANGED upgradeVars \/ \E v \in Versions : Publish(v)
  BY <1>2, AttemptSame DEF upgradeVars, Publish
<1>3. ASSUME NEW saved \in BOOLEAN, BeginUpgrade(saved)
      PROVE  AttemptInv'
  <2>1. /\ up[Daemon].pc = "idle" /\ helper' = helper
        /\ tried' = [target |-> offer.target, age |-> 0, known |-> saved, failed |-> FALSE]
        /\ record' = IF saved THEN [state |-> "running", target |-> offer.target, age |-> 0]
                     ELSE record
        /\ up'[Daemon].target = offer.target
    BY <1>1, <1>3 DEF BeginUpgrade, Record, UpType
  <2> QED  BY <2>1 DEF AttemptInv
<1>4. CASE Exec \/ StartDaemon
  <2>1. up'[Daemon].pc \in {"idle", "down"}
    BY <1>1, <1>4, RunsOrEnds DEF Exec, StartDaemon
  <2>2. record' = record /\ tried' = tried /\ helper' = helper
    BY <1>4 DEF Exec, StartDaemon
  <2>3. CASE Exec
    BY <2>1, <2>2, <2>3 DEF Exec, AttemptInv
  <2>4. CASE StartDaemon
    BY <2>1, <2>2, <2>4 DEF StartDaemon, NoHelper, AttemptInv
  <2> QED  BY <1>4, <2>3, <2>4
<1>5. ASSUME NEW c \in Upgraders, NEW v \in Versions, NEW force \in BOOLEAN, RunCommand(c, v, force)
      PROVE  AttemptInv'
  BY <1>1, <1>5, AttemptSame DEF RunCommand, UpType
<1>6. ASSUME NEW p \in Upgraders, Die(p)
      PROVE  AttemptInv'
  <2>1. up'[Daemon] = up[Daemon] \/ up'[Daemon].pc = "down"
    BY <1>1, <1>6 DEF Die, UpType, Down
  <2>2. record' = record /\ tried' = tried /\ helper' = helper
    BY <1>6 DEF Die
  <2> QED  BY <2>1, <2>2 DEF AttemptInv
<1>7. CASE HelperDies
  BY <1>7 DEF HelperDies, HelperEnds, NoHelper, AttemptInv
<1>8. CASE Tick
  <2>1. record \in RecordType /\ tried \in TriedType
    BY DEF TypeInv
  <2>2. record.age \in Aged /\ tried.age \in Aged
    BY <2>1 DEF RecordType, TriedType
  <2>3. /\ record'.age = IF record.age < RetryAfter THEN record.age + 1 ELSE record.age
        /\ tried'.age = IF tried.age < RetryAfter THEN tried.age + 1 ELSE tried.age
        /\ record'.state = record.state /\ record'.target = record.target
        /\ tried'.target = tried.target /\ tried'.known = tried.known
        /\ tried'.failed = tried.failed /\ up' = up /\ helper' = helper
    BY <1>8, <2>1 DEF Tick, Older, RecordType, TriedType
  <2>4. record.age <= tried.age => record'.age <= tried'.age
    BY <2>2, <2>3, UpgradeAssumption DEF Aged
  <2> QED  BY <2>3, <2>4 DEF AttemptInv
<1> QED
  BY <1>2, <1>3, <1>4, <1>5, <1>6, <1>7, <1>8, AttemptProcess, AttemptHelper DEF UpgradeStep

-----------------------------------------------------------------------------
(* All of it together is inductive. *)
UpgradeInv ==
    /\ world \in DOMAIN Worlds
    /\ TypeInv /\ StageInv /\ ReplaceInv /\ HelperInv /\ BundleInv /\ AttemptInv
    /\ BinaryKept

(* At first the agent runs and there is nothing else. *)
LEMMA UpgradeInitially ==
    ASSUME DaemonInit
    PROVE  UpgradeInv
<1>1. /\ world \in DOMAIN Worlds /\ Releases[1] \in Versions /\ Daemon \in Upgraders
      /\ None \notin Versions /\ RetryAfter \in Aged /\ RetryAfter \in Nat
  BY UpgradeAssumption DEF DaemonInit, Versions, Aged
<1>2. /\ helper = NoHelper /\ hurt = FALSE /\ record = NoRecord /\ tried = NotTried
      /\ up = [p \in Upgraders |-> IF p = Daemon THEN Running(Releases[1]) ELSE Down]
  BY DEF DaemonInit, UpgradeInit
<1>3. file["agent"] = Releases[1] /\ file \in FileType
  <2>1. PICK launcher \in {None, Releases[1]} :
            file = [f \in Files |-> IF f = "agent" THEN Releases[1]
                                    ELSE IF f = "launcher" THEN launcher ELSE None]
    BY DEF DaemonInit, UpgradeInit
  <2> QED  BY <1>1, <2>1, FileNames DEF FileType
<1>4. TypeInv
  <2>1. offer \in [mode : {"off", "notify", "auto", "required"}, target : Versions]
    BY <1>1, WorldsAssumption DEF DaemonInit, World
  <2>2. host \in {"unix", "windows"}
    BY DEF DaemonInit, UpgradeInit
  <2>3. up \in UpType
    BY <1>1, <1>2 DEF UpType, Running, Down, Stages
  <2>4. record \in RecordType /\ tried \in TriedType
    BY <1>1, <1>2 DEF RecordType, TriedType, NoRecord, NotTried
  <2> QED  BY <1>2, <1>3, <2>1, <2>2, <2>3, <2>4, NoHelperType DEF TypeInv
<1>5. \A p \in Upgraders : up[p].pc \in {"idle", "down"}
  BY <1>2 DEF Running, Down
<1>6. StageInv
  BY <1>2, <1>5 DEF StageInv, UnixStages, WindowsStages
<1>7. ReplaceInv
  BY <1>5 DEF ReplaceInv, Replacing
<1>8. HelperInv /\ BundleInv
  BY <1>2 DEF HelperInv, BundleInv, NoHelper
<1>9. AttemptInv
  BY <1>1, <1>2, <1>5 DEF AttemptInv, NoRecord, NotTried, NoHelper
<1>10. BinaryKept
  BY <1>1, <1>3 DEF BinaryKept
<1> QED  BY <1>1, <1>4, <1>6, <1>7, <1>8, <1>9, <1>10 DEF UpgradeInv

(* Each step keeps it: on Windows no process replaces a binary by itself. *)
LEMMA UpgradePreserved ==
    ASSUME UpgradeInv, [DaemonNext]_vars
    PROVE  UpgradeInv'
<1> USE DEF UpgradeInv
<1>1. UpgradeStep /\ world' = world
  BY CycleSteps
<1>2. TypeInv' /\ StageInv' /\ HelperInv' /\ BundleInv' /\ AttemptInv'
  BY <1>1, TypeStep, StageStep, BundleStep, AttemptStep
<1>3. CASE host = "unix"
  BY <1>1, <1>2, <1>3, ReplaceStep
<1>4. CASE host = "windows"
  <2>1. BinaryKept'
    BY <1>1, <1>4, KeptStep
  <2>2. \A p \in Upgraders : up'[p].pc \notin Replacing
    <3>1. host' = "windows"
      BY <1>1, <1>4, HostFixed
    <3> QED  BY <1>2, <3>1 DEF StageInv, UnixStages, Replacing
  <2>3. ReplaceInv'
    BY <2>2 DEF ReplaceInv, Replacing
  <2> QED  BY <1>1, <1>2, <2>1, <2>3
<1> QED  BY <1>3, <1>4 DEF TypeInv

(* The inductive invariant of the upgrade, in every world of the daemon.    *)
THEOREM UpgradeKept == DaemonSpec => []UpgradeInv
<1>1. DaemonInit => UpgradeInv
  BY UpgradeInitially
<1>2. UpgradeInv /\ [DaemonNext]_vars => UpgradeInv'
  BY UpgradePreserved
<1> QED  BY <1>1, <1>2, PTL DEF DaemonSpec

(* replaceAgentBinary and the Windows helper: wherever a rename fails or a   *)
(* process dies, there is a binary to start or to go back to.               *)
THEOREM BinaryIsKept == DaemonSpec => []BinaryKept
<1>1. UpgradeInv => BinaryKept
  BY DEF UpgradeInv
<1> QED  BY <1>1, UpgradeKept, PTL

(* replaceWindowsUpgradeBundle: the agent and its launcher are replaced      *)
(* together, or both are what they were.                                    *)
THEOREM BundleIsWhole == DaemonSpec => []BundleTogether
<1>1. UpgradeInv => BundleTogether
  BY DEF UpgradeInv, BundleTogether, HelperInv, BundleInv
<1> QED  BY <1>1, UpgradeKept, PTL

(* Only its own attempt takes the daemon from where it is, but to its start. *)
LEMMA DaemonMoves ==
    ASSUME TypeInv, UpgradeStep,
           ~ \E saved \in BOOLEAN : BeginUpgrade(saved),
           ~ \E p \in Upgraders, ok, saved \in BOOLEAN : Step(p, ok, saved)
    PROVE  up'[Daemon] = up[Daemon] \/ up'[Daemon].pc \in {"idle", "down"}
<1> USE UpgradeAssumption DEF TypeInv
<1>1. CASE Exec \/ StartDaemon
  <2>1. \/ up' = [up EXCEPT ![Daemon] = Running(file["agent"])]
        \/ up' = [up EXCEPT ![Daemon] = Down]
    BY <1>1 DEF Exec, StartDaemon
  <2> QED  BY <2>1, RunsOrEnds
<1>2. ASSUME NEW ok \in BOOLEAN, NEW saved \in BOOLEAN, HelperStep(ok, saved)
      PROVE  up'[Daemon] = up[Daemon] \/ up'[Daemon].pc \in {"idle", "down"}
  <2>1. UNCHANGED up \/ up' = [up EXCEPT ![Daemon] = Running(file["agent"])]
    BY <1>2 DEF HelperStep, ParentGone, CopyBundle, BackUpNext, InstallNext, RestoreNext, Restored,
                Retry, GiveUp, RecordFailure, RecordSuccess, StartNew, StartOld
  <2> QED  BY <2>1, RunsOrEnds
<1>3. ASSUME NEW c \in Upgraders, NEW v \in Versions, NEW force \in BOOLEAN, RunCommand(c, v, force)
      PROVE  up'[Daemon] = up[Daemon]
  BY <1>3 DEF RunCommand, UpType
<1>4. ASSUME NEW q \in Upgraders, Die(q)
      PROVE  up'[Daemon] = up[Daemon] \/ up'[Daemon].pc \in {"idle", "down"}
  BY <1>4, RunsOrEnds DEF Die, Fixed
<1> QED
  BY <1>1, <1>2, <1>3, <1>4 DEF UpgradeStep, upgradeVars, HelperDies, Publish, Tick

(* shouldSuppressUpgradeRetry: a recorded failure keeps its target from      *)
(* being tried again within the hour, whoever recorded it and whatever died. *)
THEOREM FailuresWait == DaemonSpec => RetriesWait
<1>1. UpgradeInv /\ [DaemonNext]_vars => NoRetry
  <2> SUFFICES ASSUME UpgradeInv, [DaemonNext]_vars,
                      tried.failed, tried.known, tried.age < RetryAfter,
                      up[Daemon].pc = "idle", up'[Daemon].pc = "fetch",
                      up'[Daemon].target = tried.target
               PROVE  FALSE
    BY DEF NoRetry
  <2>1. TypeInv /\ StageInv /\ AttemptInv /\ UpgradeStep /\ Daemon \in Upgraders
    BY CycleSteps, UpgradeAssumption DEF UpgradeInv
  <2>2. ~ \E saved \in BOOLEAN : BeginUpgrade(saved)
    <3> SUFFICES ASSUME NEW saved \in BOOLEAN, BeginUpgrade(saved) PROVE FALSE
      OBVIOUS
    <3>1. up'[Daemon].target = offer.target /\ ~Suppressed(offer.target)
      BY <2>1 DEF BeginUpgrade, TypeInv, UpType
    <3>2. /\ record.state = "failed" /\ record.target = tried.target
          /\ record.age <= tried.age /\ record.age \in Nat /\ tried.age \in Nat
      <4>1. record.age \in Nat /\ tried.age \in Nat
        BY <2>1, UpgradeAssumption DEF TypeInv, RecordType, TriedType, Aged
      <4> QED  BY <2>1, <4>1 DEF AttemptInv
    <3>3. offer.target = tried.target
      BY <3>1
    <3>4. record.age < RetryAfter
      <4>1. RetryAfter \in Nat /\ tried.age < RetryAfter
        BY UpgradeAssumption
      <4> QED  BY <3>2, <4>1
    <3> QED  BY <3>1, <3>2, <3>3, <3>4 DEF Suppressed
  <2>3. ASSUME NEW p \in Upgraders, NEW ok \in BOOLEAN, NEW saved \in BOOLEAN, Step(p, ok, saved)
        PROVE  FALSE
    BY <2>1, <2>3, ProcessMoves DEF UnixStep, Moves, Fixed
  <2>4. up'[Daemon] = up[Daemon] \/ up'[Daemon].pc \in {"idle", "down"}
    BY <2>1, <2>2, <2>3, DaemonMoves
  <2> QED  BY <2>4
<1> QED  BY <1>1, UpgradeKept, PTL DEF DaemonSpec, RetriesWait

-----------------------------------------------------------------------------
(* The rules of commands and prompts.  The invariant has, of each hook or     *)
(* guard, what was decided where it is and that what is added to its prompt  *)
(* fits; that a saved copy is never newer than what is saved next; and that  *)
(* an approval was consumed by one run at most.  A proof about the fold that *)
(* takes context rules needs no induction of its own: FoldTheory is          *)
(* instantiated with the operator that takes one.                           *)

(* Where a hook or guard is, by its kind. *)
Places(kind) ==
    CASE kind = "hook" -> {"none", "fetch", "decide", "consume", "request", "ran", "refused"}
      [] kind = "guard" -> {"none", "fetch", "cached", "decide", "running", "ran", "refused"}
      [] kind = "prompt" -> {"none", "context", "unchecked", "ran", "refused"}

Actions == {"allow", "warn", "approval", "block"}

Fields == {"pc", "rules", "since", "decision", "recorded", "grant", "context"}

(* The types, what a hook or guard knows included. *)
Typed(i) ==
    /\ DOMAIN inv[i] = Fields
    /\ inv[i].pc \in Places(i.kind)
    /\ inv[i].rules \in 0 .. published /\ inv[i].since \in 0 .. published
    /\ inv[i].decision \in Actions /\ inv[i].recorded \in Actions \cup {"none", "finding"}
    /\ inv[i].grant \in BOOLEAN

RuleType ==
    /\ published \in 1 .. Len(Bundles)
    /\ cache \in [Caches -> 0 .. published]
    /\ fetched \in [file : 1 .. Len(RuleFiles) + 1, rules : 0 .. published]
    /\ cache["context"] # 0 => ValidContext(cache["context"])

(* What was fetched to be saved is at least as new as what is saved. *)
FetchedInv == fetched.rules # 0 => \A f \in Caches : cache[f] <= fetched.rules

(* What the rules must say for a command to run without approval. *)
Saying(rules, i, action) ==
    {n \in DOMAIN Matches(rules, i) : Matches(rules, i)[n].action = action}
Unblocked(rules, i) == Saying(rules, i, "block") = {}
Warned(rules, i) ==
    \A n \in Saying(rules, i, "approval") : \E k \in Saying(rules, i, "warn") : k > n

(* What has been decided where a hook or guard is, and by which rules. *)
Decided(i) ==
    LET my == inv[i]
    IN  /\ my.pc # "ran" => ~my.grant
        /\ my.pc = "fetch" /\ i.kind = "hook" => my.rules = 0 /\ my.since = 0
        /\ my.pc \in {"fetch", "cached"} => cache["policy"] >= my.since
        /\ my.pc \notin {"none", "fetch", "cached", "unchecked"} => my.rules >= my.since
        /\ my.pc \in {"consume", "running", "ran"} /\ my.rules # 0 /\ i.kind # "prompt"
            => Unblocked(my.rules, i)
        /\ my.pc \in {"running", "ran"} /\ my.rules # 0 /\ i.kind # "prompt"
            => my.grant \/ Warned(my.rules, i)
        /\ my.pc \in {"context", "ran"} /\ my.rules # 0 /\ i.kind = "prompt"
            => ~PromptBlocked(my.rules, i)
        /\ my.pc = "unchecked" => i.agent = "codex"

(* The runs that a grant was consumed for *)
Granted(h) == {i \in Invocations : CommandHash(i) = h /\ inv[i].grant}

(* Every approval is there to be consumed, was consumed for one run, or is lost. *)
GrantInv ==
    /\ grants \in [Hashes -> Nat] /\ granted \in [Hashes -> 0 .. MaxGrants]
    /\ requested \subseteq Hashes
    /\ \A h \in Hashes : Cardinality(Granted(h)) + grants[h] <= granted[h]

(* The characters of rules of the organization, with the lines between them *)
Sizes(rules) == [n \in DOMAIN rules |-> rules[n].size]
Characters(rules) ==
    Sum(Sizes(rules), DOMAIN rules) + (IF rules = << >> THEN 0 ELSE 2 * (Len(rules) - 1))

ContextRule == [agent : STRING, on : SUBSET STRING, size : Nat]

(* What is taken fits, and its length is counted right. *)
Fitting ==
    {c \in [rules : Seq(ContextRule), length : Nat, truncated : BOOLEAN] :
        /\ Len(c.rules) <= MaxMatchedRules /\ c.length <= MaxContextContent
        /\ c.length = Characters(c.rules)}

Mine(i) == Typed(i) /\ Decided(i) /\ inv[i].context \in Fitting

GuardInv ==
    /\ RuleType /\ FetchedInv /\ GrantInv
    /\ DOMAIN inv = Invocations /\ \A i \in Invocations : Mine(i)

(* What a step of the cycle does to the rules and what is decided by them. *)
GuardStep ==
    \/ UNCHANGED <<published, cache, inv, grants, granted, requested>>
            /\ fetched' \in {fetched, Nothing}
    \/ \E ok \in BOOLEAN : FetchRules(ok) \/ SaveRules(ok)
    \/ \E last \in 1 .. Len(Bundles) : GuardNext(Invocations, last)

-----------------------------------------------------------------------------
(* A step of the cycle, and those of the processes beside it, as seen here. *)
LEMMA CycleGuards ==
    ASSUME world \in DOMAIN Worlds, [DaemonNext]_vars
    PROVE  GuardStep
<1>1. CASE UNCHANGED vars
  BY <1>1 DEF vars, guardVars, GuardStep
<1>2. ASSUME NEW ok \in BOOLEAN, NEW saved \in BOOLEAN, Cycle(ok, saved)
      PROVE  GuardStep
  BY <1>2 DEF Cycle, EnsureSettings, SyncRules, Collect, Report, Flush, Finish, Wake, guardVars,
              GuardStep
<1>3. ASSUME LoopFollows
      PROVE  GuardStep
  BY <1>3 DEF LoopFollows, GuardStep
<1>4. CASE Guarding
  <2>1. World.bundles \in 1 .. Len(Bundles) /\ World.invocations \subseteq Invocations
    BY WorldsAssumption DEF World
  <2>2. GuardNext(Invocations, World.bundles)
    BY <1>4, <2>1 DEF Guarding, GuardNext
  <2> QED  BY <2>1, <2>2 DEF GuardStep
<1> QED
  BY <1>1, <1>2, <1>3, <1>4 DEF DaemonNext, DaemonUpgrades, HelperUpgrades, CommandUpgrades, Upset,
                              Environment

-----------------------------------------------------------------------------
(* The rules *)
PolicyRule == [active : BOOLEAN, agent : STRING, on : SUBSET STRING, action : STRING]

RuleBundle ==
    [policy : Seq(PolicyRule), sensitive : SUBSET [on : SUBSET STRING, action : STRING],
     context : Seq(ContextRule)]

(* The rules that match a command are some of those published together. *)
LEMMA MatchesType ==
    ASSUME NEW rules \in 1 .. Len(Bundles), NEW i
    PROVE  Matches(rules, i) \in Seq(PolicyRule)
<1> DEFINE policy == Bundles[rules].policy
           T == {rule \in ToSet(policy) : AppliesToAgent(rule, i) /\ i.text \in rule.on}
<1>1. policy \in Seq(PolicyRule)
  <2>1. Bundles \in Seq(RuleBundle)
    BY GuardAssumption DEF RuleBundle, PolicyRule, ContextRule
  <2>2. Bundles[rules] \in RuleBundle
    BY <2>1
  <2> QED  BY <2>2 DEF RuleBundle
<1>2. Matches(rules, i) = Keeping(policy, T)
  BY DEF Matches
<1> HIDE DEF policy, T
<1>3. Keeping(policy, T) \in Seq(PolicyRule \cap T)
  BY <1>1, KeepSet
<1>4. \A s \in Seq(PolicyRule \cap T) : s \in Seq(PolicyRule)
  OBVIOUS
<1> QED  BY <1>2, <1>3, <1>4

(* A decision that is not a block has no rule that blocks, and one that does  *)
(* not ask for approval has no rule that asks for it but is followed by a    *)
(* warning.                                                                *)
LEMMA DecisionSays ==
    ASSUME NEW rules \in 0 .. Len(Bundles), NEW i
    PROVE  /\ Decision(rules, i) \in Actions
           /\ rules = 0 => Decision(rules, i) = "allow"
           /\ rules # 0 /\ Decision(rules, i) # "block" => Unblocked(rules, i)
           /\ rules # 0 /\ Decision(rules, i) \in {"allow", "warn"} => Warned(rules, i)
<1>1. CASE rules = 0
  <2>1. Decision(rules, i) = "allow"
    BY <1>1 DEF Decision
  <2> QED  BY <1>1, <2>1 DEF Actions
<1>2. CASE rules # 0
  <2>1. PICK found : found = Matches(rules, i)
    OBVIOUS
  <2>2. found \in Seq(PolicyRule)
    BY <1>2, <2>1, MatchesType
  <2>3. PICK weaker : weaker = {n \in DOMAIN found : found[n].action \in {"approval", "warn"}}
    OBVIOUS
  <2>4. PICK blocks : blocks = {n \in DOMAIN found : found[n].action \in {"block"}}
    OBVIOUS
  <2>5. Decision(rules, i)
            = IF blocks # {} THEN "block" ELSE IF weaker = {} THEN "allow"
              ELSE found[CHOOSE n \in weaker : \A k \in weaker : k <= n].action
    BY <1>2, <2>1, <2>3, <2>4 DEF Decision
  <2>6. blocks = Saying(rules, i, "block")
    BY <2>1, <2>4 DEF Saying
  <2>7. CASE blocks # {}
    BY <1>2, <2>5, <2>7 DEF Actions
  <2>8. CASE blocks = {} /\ weaker = {}
    <3>1. Saying(rules, i, "approval") = {}
      BY <2>1, <2>3, <2>8 DEF Saying
    <3> QED  BY <1>2, <2>5, <2>6, <2>8, <3>1 DEF Actions, Unblocked, Warned
  <2>9. CASE blocks = {} /\ weaker # {}
    <3>1. weaker \in SUBSET (1 .. Len(found)) /\ Len(found) \in Nat
      BY <2>2, <2>3
    <3>2. \E n \in weaker : \A k \in weaker : k <= n
      BY <2>9, <3>1, Greatest
    <3>3. PICK n : n = (CHOOSE m \in weaker : \A k \in weaker : k <= m)
      OBVIOUS
    <3>4. n \in weaker /\ \A k \in weaker : k <= n
      BY <3>2, <3>3
    <3>5. Decision(rules, i) = found[n].action /\ found[n].action \in {"approval", "warn"}
      BY <2>3, <2>5, <2>9, <3>3, <3>4
    <3>6. ASSUME found[n].action = "warn", NEW k \in Saying(rules, i, "approval")
          PROVE  n \in Saying(rules, i, "warn") /\ n > k
      <4>1. k \in weaker /\ k # n /\ n \in Saying(rules, i, "warn")
        BY <2>1, <2>3, <3>4, <3>6 DEF Saying
      <4>2. k \in Nat /\ n \in Nat /\ k <= n
        BY <3>1, <3>4, <4>1
      <4> QED  BY <4>1, <4>2
    <3>7. found[n].action = "warn" => Warned(rules, i)
      BY <3>6 DEF Warned
    <3> QED  BY <1>2, <2>6, <2>9, <3>5, <3>7 DEF Actions, Unblocked
  <2> QED  BY <2>7, <2>8, <2>9
<1> QED  BY <1>1, <1>2

-----------------------------------------------------------------------------
(* A hook or guard changes by itself, and in nothing but what is said. *)
LEMMA Becoming ==
    ASSUME DOMAIN inv = Invocations, NEW i \in Invocations, Typed(i),
           NEW c, DOMAIN c \subseteq Fields, Becomes(i, c)
    PROVE  /\ DOMAIN inv' = Invocations
           /\ \A j \in Invocations : j # i => inv'[j] = inv[j]
           /\ DOMAIN inv'[i] = Fields
           /\ \A f \in Fields : inv'[i][f] = IF f \in DOMAIN c THEN c[f] ELSE inv[i][f]
<1>1. inv' = [inv EXCEPT ![i] = Changed(inv[i], c)] 
  BY DEF Becomes
<1>2. DOMAIN inv[i] = Fields
  BY DEF Typed
<1>3. Changed(inv[i], c) = [f \in Fields |-> IF f \in DOMAIN c THEN c[f] ELSE inv[i][f]]
  BY <1>2 DEF Changed
<1> QED  BY <1>1, <1>3

(* What the others know stays right as rules are published and saved. *)
LEMMA MineStays ==
    ASSUME RuleType, RuleType', published <= published', cache["policy"] <= cache'["policy"],
           NEW i \in Invocations, Mine(i), inv'[i] = inv[i]
    PROVE  Mine(i)'
<1>1. /\ published \in Nat /\ published' \in Nat
      /\ cache["policy"] \in Nat /\ cache'["policy"] \in Nat
  <2>1. "policy" \in Caches
    BY DEF Caches, RuleFiles
  <2> QED  BY <2>1 DEF RuleType
<1>2. Typed(i)'
  BY <1>1 DEF Mine, Typed
<1>3. Decided(i)'
  BY <1>1 DEF Mine, Typed, Decided
<1> QED  BY <1>2, <1>3 DEF Mine

(* What is in the way of rules that match is within what Take takes. *)
TakeOf(p, taken, rule) == Take(taken, rule)
C == INSTANCE FoldTheory WITH Op <- TakeOf

(* One rule more has its characters and those of the empty line. *)
LEMMA CharactersAppend ==
    ASSUME NEW rules \in Seq(ContextRule), NEW rule \in ContextRule
    PROVE  /\ Characters(rules) \in Nat
           /\ Characters(Append(rules, rule))
                = Characters(rules) + (IF rules = << >> THEN 0 ELSE 2) + rule.size
<1>1. PICK n \in Nat : n = Len(rules)
  OBVIOUS
<1>2. PICK more : more = Append(rules, rule)
  OBVIOUS
<1>3. PICK v : v = Sizes(rules)
  OBVIOUS
<1>4. PICK w : w = Sizes(more)
  OBVIOUS
<1>5. PICK A : A = 1 .. n
  OBVIOUS
<1>6. PICK B : B = 1 .. n + 1
  OBVIOUS
<1>7. /\ DOMAIN rules = A /\ DOMAIN more = B /\ more[n + 1] = rule
      /\ \A k \in A : more[k] = rules[k] /\ rules[k] \in ContextRule
  BY <1>1, <1>2, <1>5, <1>6
<1>8. /\ IsFiniteSet(A) /\ IsFiniteSet(B)
      /\ n + 1 \in B /\ B \ {n + 1} = A
  <2>1. IsFiniteSet(A) /\ IsFiniteSet(B)
    BY <1>5, <1>6, FS_Interval
  <2> QED  BY <2>1, <1>5, <1>6
<1>9. /\ \A k \in A : v[k] = w[k] /\ v[k] \in Nat
      /\ w[n + 1] = rule.size /\ rule.size \in Nat
  <2>1. \A k \in A : v[k] = rules[k].size /\ w[k] = more[k].size
    BY <1>3, <1>4, <1>7, <1>8 DEF Sizes
  <2>2. w[n + 1] = more[n + 1].size
    BY <1>4, <1>7, <1>8 DEF Sizes
  <2> QED  BY <1>7, <2>1, <2>2 DEF ContextRule
<1>10. \A k \in B : w[k] \in Nat
  BY <1>8, <1>9
<1>11. Sum(w, B) = w[n + 1] + Sum(w, A)
  BY <1>8, <1>10, SumElement
<1>12. Sum(w, A) = Sum(v, A) /\ Sum(v, A) \in Nat
  <2>1. Sum(v, A) = Sum(w, A)
    BY <1>8, <1>9, SumSame
  <2>2. Sum(v, A) \in Nat
    BY <1>8, <1>9, SumNat
  <2> QED  BY <2>1, <2>2
<1>13. Characters(more) = Sum(w, B) + 2 * n
  <2>1. more # << >> /\ Len(more) = n + 1
    BY <1>1, <1>2
  <2> QED  BY <1>1, <1>4, <1>7, <2>1 DEF Characters
<1>14. Characters(rules) = Sum(v, A) + (IF rules = << >> THEN 0 ELSE 2 * (n - 1))
  BY <1>1, <1>3, <1>7 DEF Characters
<1>15. (n = 0 <=> rules = << >>) /\ n \in Nat
  BY <1>1
<1>16. Characters(rules) \in Nat
  BY <1>12, <1>14, <1>15
<1>17. Characters(more) = Characters(rules) + (IF rules = << >> THEN 0 ELSE 2) + rule.size
  BY <1>9, <1>11, <1>12, <1>13, <1>14, <1>15
<1> QED  BY <1>2, <1>16, <1>17

(* No context fits, and what fits still does when the next rule is taken. *)
LEMMA TakeFits ==
    /\ NoContext \in Fitting
    /\ \A taken \in Fitting, rule \in ContextRule : Take(taken, rule) \in Fitting
<1>1. NoContext \in Fitting
  <2>1. PICK e : e = << >>
    OBVIOUS
  <2>2. Characters(e) = 0
    <3>1. DOMAIN e = {} /\ Sizes(e) = Sizes(e)
      BY <2>1
    <3>2. Characters(e) = Sum(Sizes(e), {}) + 0
      BY <2>1, <3>1 DEF Characters
    <3> QED  BY <3>2, SumEmpty
  <2>3. e \in Seq(ContextRule) /\ Len(e) = 0
    BY <2>1
  <2>4. NoContext = [rules |-> e, length |-> 0, truncated |-> FALSE]
    BY <2>1 DEF NoContext
  <2> QED  BY <2>2, <2>3, <2>4, GuardAssumption DEF Fitting
<1>2. ASSUME NEW taken \in Fitting, NEW rule \in ContextRule
      PROVE  Take(taken, rule) \in Fitting
  <2>1. /\ taken \in [rules : Seq(ContextRule), length : Nat, truncated : BOOLEAN]
        /\ Len(taken.rules) <= MaxMatchedRules /\ taken.length <= MaxContextContent
        /\ taken.length = Characters(taken.rules)
    BY DEF Fitting
  <2>2. rule.size \in Nat /\ MaxMatchedRules \in Nat /\ MaxContextContent \in Nat
    BY GuardAssumption DEF ContextRule
  <2>3. CASE \/ Len(taken.rules) >= MaxMatchedRules
             \/ Separated(taken, rule) > MaxContextContent
    BY <2>1, <2>3 DEF Take, Fitting
  <2>4. CASE ~(\/ Len(taken.rules) >= MaxMatchedRules
               \/ Separated(taken, rule) > MaxContextContent)
    <3>1. PICK more : more = Append(taken.rules, rule)
      OBVIOUS
    <3>2. PICK n : n = Separated(taken, rule)
      OBVIOUS
    <3>3. Take(taken, rule) = [taken EXCEPT !.rules = more, !.length = n]
      BY <2>4, <3>1, <3>2 DEF Take
    <3>4. n = taken.length + (IF taken.rules = << >> THEN 0 ELSE 2) + rule.size
      BY <3>2 DEF Separated
    <3>5. more \in Seq(ContextRule) /\ Len(more) = Len(taken.rules) + 1
      BY <2>1, <3>1
    <3>6. n = Characters(more)
      BY <2>1, <3>1, <3>4, CharactersAppend
    <3>7. n \in Nat /\ n <= MaxContextContent /\ Len(more) <= MaxMatchedRules
      BY <2>1, <2>2, <2>4, <3>2, <3>4, <3>5
    <3> QED  BY <2>1, <3>3, <3>5, <3>6, <3>7 DEF Fitting
  <2> QED  BY <2>3, <2>4
<1> QED  BY <1>1, <1>2

(* Match keeps within the limits, whatever rules there are. *)
LEMMA ContextMatchFits ==
    ASSUME NEW rules \in 1 .. Len(Bundles), NEW i
    PROVE  ContextMatch(rules, i) \in Fitting
<1> DEFINE context == Bundles[rules].context
           T == {rule \in ToSet(context) :
                    rule.agent \in {"all", i.agent} /\ i.text \in rule.on}
<1>1. context \in Seq(ContextRule)
  <2>1. Bundles \in Seq(RuleBundle)
    BY GuardAssumption DEF RuleBundle, PolicyRule, ContextRule
  <2>2. Bundles[rules] \in RuleBundle
    BY <2>1
  <2> QED  BY <2>2 DEF RuleBundle
<1>2. PICK kept : kept = Keeping(context, T)
  OBVIOUS
<1>3. ContextMatch(rules, i) = C!Folded(0, NoContext, kept)
  BY <1>2 DEF ContextMatch, FoldLeft, MapThenFoldSet, Max, C!Folded, C!FoldLeft,
              C!MapThenFoldSet, C!Max, TakeOf
<1> HIDE DEF context, T
<1>4. kept \in Seq(ContextRule \cap T)
  BY <1>1, <1>2, KeepSet
<1>5. kept \in Seq(ContextRule)
  BY <1>4
<1>6. \A a \in Fitting, x \in ContextRule : TakeOf(0, a, x) \in Fitting
  BY TakeFits DEF TakeOf
<1>7. C!Folded(0, NoContext, kept) \in Fitting
  BY <1>5, <1>6, TakeFits, C!FoldIn
<1> QED  BY <1>3, <1>7

-----------------------------------------------------------------------------
(* One hook or guard *)

LEMMA PolicyCopy ==
    ASSUME RuleType
    PROVE  /\ published \in Nat /\ published <= Len(Bundles) /\ Len(Bundles) \in Nat
           /\ \A f \in {"policy", "sensitive", "context"} :
                f \in Caches /\ cache[f] \in Nat /\ cache[f] <= published
<1>1. \A f \in {"policy", "sensitive", "context"} : f \in Caches
  BY DEF Caches, RuleFiles
<1>2. Len(Bundles) \in Nat
  BY GuardAssumption
<1> QED  BY <1>1, <1>2 DEF RuleType

(* A hook or guard that starts or gets the rules knows no more than is right. *)
LEMMA StartsRight ==
    ASSUME GuardInv, NEW i \in Invocations,
           StartHook(i) \/ StartGuard(i) \/ LoadPolicyCache(i)
              \/ \E ok \in BOOLEAN : Fetched(i, ok)
    PROVE  Mine(i)' /\ inv'[i].grant = inv[i].grant
<1>0. /\ Mine(i) /\ Typed(i) /\ Decided(i) /\ RuleType /\ i.kind \in Kinds
      /\ DOMAIN inv = Invocations
  BY GuardAssumption DEF GuardInv, Mine
<1>1. PICK copy : copy = cache["policy"]
  OBVIOUS
<1>2. /\ copy \in Nat /\ copy <= published /\ published \in Nat
  BY <1>0, <1>1, PolicyCopy
<1>3. ASSUME StartHook(i)
      PROVE  Mine(i)' /\ inv'[i].grant = inv[i].grant
  <2> DEFINE c == [pc |-> IF copy = 0 THEN "fetch" ELSE "decide", rules |-> copy, since |-> copy]
  <2>1. Becomes(i, c) /\ UNCHANGED <<published, cache>> /\ i.kind = "hook" /\ inv[i].pc = "none"
    BY <1>1, <1>3 DEF StartHook, Only
  <2>2. DOMAIN c \subseteq Fields
    BY DEF Fields
  <2> HIDE DEF c
  <2>3. /\ DOMAIN inv'[i] = Fields
        /\ \A f \in Fields : inv'[i][f] = IF f \in DOMAIN c THEN c[f] ELSE inv[i][f]
    BY <1>0, <2>1, <2>2, Becoming
  <2>4. /\ inv'[i].pc = IF copy = 0 THEN "fetch" ELSE "decide"
        /\ inv'[i].rules = copy /\ inv'[i].since = copy
        /\ inv'[i].decision = inv[i].decision /\ inv'[i].recorded = inv[i].recorded
        /\ inv'[i].grant = inv[i].grant /\ inv'[i].context = inv[i].context
    BY <2>3 DEF c, Fields
  <2>5. Typed(i)'
    BY <1>0, <1>2, <2>1, <2>3, <2>4 DEF Typed, Places
  <2>6. Decided(i)'
    BY <1>0, <1>1, <1>2, <2>1, <2>4 DEF Decided
  <2> QED  BY <1>0, <2>4, <2>5, <2>6 DEF Mine
<1>4. ASSUME StartGuard(i)
      PROVE  Mine(i)' /\ inv'[i].grant = inv[i].grant
  <2> DEFINE c == [pc |-> "fetch", since |-> copy]
  <2>1. Becomes(i, c) /\ UNCHANGED <<published, cache>> /\ i.kind = "guard" /\ inv[i].pc = "none"
    BY <1>1, <1>4 DEF StartGuard, Only
  <2>2. DOMAIN c \subseteq Fields
    BY DEF Fields
  <2> HIDE DEF c
  <2>3. /\ DOMAIN inv'[i] = Fields
        /\ \A f \in Fields : inv'[i][f] = IF f \in DOMAIN c THEN c[f] ELSE inv[i][f]
    BY <1>0, <2>1, <2>2, Becoming
  <2>4. /\ inv'[i].pc = "fetch" /\ inv'[i].rules = inv[i].rules /\ inv'[i].since = copy
        /\ inv'[i].decision = inv[i].decision /\ inv'[i].recorded = inv[i].recorded
        /\ inv'[i].grant = inv[i].grant /\ inv'[i].context = inv[i].context
    BY <2>3 DEF c, Fields
  <2>5. Typed(i)'
    BY <1>0, <1>2, <2>1, <2>3, <2>4 DEF Typed, Places
  <2>6. Decided(i)'
    BY <1>0, <1>1, <1>2, <2>1, <2>4 DEF Decided
  <2> QED  BY <1>0, <2>4, <2>5, <2>6 DEF Mine
<1>5. ASSUME LoadPolicyCache(i)
      PROVE  Mine(i)' /\ inv'[i].grant = inv[i].grant
  <2> DEFINE c == [pc |-> "decide", rules |-> copy]
  <2>1. Becomes(i, c) /\ UNCHANGED <<published, cache>> /\ inv[i].pc = "cached"
    BY <1>1, <1>5 DEF LoadPolicyCache, Only
  <2>2. DOMAIN c \subseteq Fields
    BY DEF Fields
  <2> HIDE DEF c
  <2>3. /\ DOMAIN inv'[i] = Fields
        /\ \A f \in Fields : inv'[i][f] = IF f \in DOMAIN c THEN c[f] ELSE inv[i][f]
    BY <1>0, <2>1, <2>2, Becoming
  <2>4. /\ inv'[i].pc = "decide" /\ inv'[i].rules = copy /\ inv'[i].since = inv[i].since
        /\ inv'[i].decision = inv[i].decision /\ inv'[i].recorded = inv[i].recorded
        /\ inv'[i].grant = inv[i].grant /\ inv'[i].context = inv[i].context
    BY <2>3 DEF c, Fields
  <2>5. Typed(i)'
    BY <1>0, <1>2, <2>1, <2>3, <2>4 DEF Typed, Places, Kinds
  <2>6. Decided(i)'
    BY <1>0, <1>1, <1>2, <2>1, <2>4 DEF Decided
  <2> QED  BY <1>0, <2>4, <2>5, <2>6 DEF Mine
<1>6. ASSUME NEW ok \in BOOLEAN, Fetched(i, ok)
      PROVE  Mine(i)' /\ inv'[i].grant = inv[i].grant
  <2> DEFINE c == IF ok THEN [pc |-> "decide", rules |-> published]
                  ELSE [pc |-> IF i.kind = "hook" THEN "decide" ELSE "cached"]
  <2>1. Becomes(i, c) /\ UNCHANGED <<published, cache>> /\ inv[i].pc = "fetch"
    BY <1>6 DEF Fetched, Only
  <2>2. DOMAIN c \subseteq Fields
    BY DEF Fields
  <2>3. /\ DOMAIN inv'[i] = Fields
        /\ \A f \in Fields : inv'[i][f] = IF f \in DOMAIN c THEN c[f] ELSE inv[i][f]
    <3> HIDE DEF c
    <3> QED  BY <1>0, <2>1, <2>2, Becoming
  <2>4. /\ inv'[i].pc = IF ok \/ i.kind = "hook" THEN "decide" ELSE "cached"
        /\ inv'[i].rules = IF ok THEN published ELSE inv[i].rules
        /\ inv'[i].since = inv[i].since
        /\ inv'[i].decision = inv[i].decision /\ inv'[i].recorded = inv[i].recorded
        /\ inv'[i].grant = inv[i].grant /\ inv'[i].context = inv[i].context
    <3>1. CASE ok
      BY <2>3, <3>1 DEF Fields
    <3>2. CASE ~ok
      BY <2>3, <3>2 DEF Fields
    <3> QED  BY <3>1, <3>2
  <2> HIDE DEF c
  <2>5. Typed(i)'
    BY <1>0, <1>2, <2>1, <2>3, <2>4 DEF Typed, Places, Kinds
  <2>6. Decided(i)'
    BY <1>0, <1>1, <1>2, <2>1, <2>4 DEF Decided, Typed
  <2> QED  BY <1>0, <2>4, <2>5, <2>6 DEF Mine
<1> QED  BY <1>3, <1>4, <1>5, <1>6

(* A decision, and the end of a run, are by the rules that were taken. *)
LEMMA DecidesRight ==
    ASSUME GuardInv, NEW i \in Invocations, Decide(i) \/ EndRun(i)
    PROVE  Mine(i)' /\ inv'[i].grant = inv[i].grant
<1>0. /\ Mine(i) /\ Typed(i) /\ Decided(i) /\ RuleType /\ i.kind \in Kinds
      /\ DOMAIN inv = Invocations
  BY GuardAssumption DEF GuardInv, Mine
<1>1. PICK rules : rules = inv[i].rules
  OBVIOUS
<1>2. rules \in 0 .. Len(Bundles) /\ published \in Nat
  BY <1>0, <1>1, PolicyCopy DEF Typed
<1>3. PICK decision : decision = Decision(rules, i)
  OBVIOUS
<1>4. /\ decision \in Actions
      /\ rules = 0 => decision = "allow"
      /\ rules # 0 /\ decision # "block" => Unblocked(rules, i)
      /\ rules # 0 /\ decision \in {"allow", "warn"} => Warned(rules, i)
  BY <1>2, <1>3, DecisionSays
<1>5. ASSUME Decide(i)
      PROVE  Mine(i)' /\ inv'[i].grant = inv[i].grant
  <2>1. PICK seen : seen = Recorded(i, decision)
    OBVIOUS
  <2>2. seen \in Actions \cup {"none"}
    BY <1>4, <2>1 DEF Recorded
  <2>4. PICK place \in {"refused", "consume", "ran", "running"} :
            /\ inv[i].pc = "decide"
            /\ \/ Only(i, [pc |-> place, decision |-> decision, recorded |-> seen])
               \/ Only(i, [pc |-> place, decision |-> decision])
            /\ place = "consume" => i.kind = "hook" /\ decision = "approval"
            /\ place = "running" => i.kind = "guard"
            /\ place = "ran" => i.kind = "hook"
            /\ place \in {"ran", "running"} => decision \in {"allow", "warn"}
    BY <1>1, <1>3, <1>5, <2>1 DEF Decide
  <2>5. \E c : /\ \/ c = [pc |-> place, decision |-> decision, recorded |-> seen]
                  \/ c = [pc |-> place, decision |-> decision]
               /\ Only(i, c)
    BY <2>4
  <2>6. PICK c : /\ \/ c = [pc |-> place, decision |-> decision, recorded |-> seen]
                    \/ c = [pc |-> place, decision |-> decision]
                 /\ Only(i, c)
    BY <2>5
  <2>7. Becomes(i, c) /\ UNCHANGED <<published, cache>>
    BY <2>6 DEF Only
  <2>8. /\ DOMAIN c \subseteq Fields /\ c.pc = place /\ c.decision = decision
        /\ {"pc", "decision"} \subseteq DOMAIN c
        /\ "recorded" \in DOMAIN c => c.recorded = seen
        /\ {"rules", "since", "grant", "context"} \cap DOMAIN c = {}
    <3>1. CASE c = [pc |-> place, decision |-> decision]
      BY <3>1 DEF Fields
    <3>2. CASE c = [pc |-> place, decision |-> decision, recorded |-> seen]
      BY <3>2 DEF Fields
    <3> QED  BY <2>6, <3>1, <3>2
  <2>9. /\ DOMAIN inv'[i] = Fields
        /\ \A f \in Fields : inv'[i][f] = IF f \in DOMAIN c THEN c[f] ELSE inv[i][f]
    BY <1>0, <2>7, <2>8, Becoming
  <2>10. /\ inv'[i].pc = place /\ inv'[i].decision = decision
         /\ inv'[i].recorded \in {seen, inv[i].recorded}
         /\ inv'[i].rules = rules /\ inv'[i].since = inv[i].since
         /\ inv'[i].grant = inv[i].grant /\ inv'[i].context = inv[i].context
    BY <1>1, <2>8, <2>9 DEF Fields
  <2>11. i.kind # "prompt"
    BY <1>0, <2>4 DEF Typed, Places, Kinds
  <2>12. Typed(i)'
    BY <1>0, <1>1, <1>4, <2>2, <2>4, <2>7, <2>9, <2>10, <2>11 DEF Typed, Places, Kinds
  <2>13. decision \in {"allow", "warn"} \/ place \notin {"ran", "running"}
    BY <2>4
  <2>14. inv[i].grant \in BOOLEAN /\ rules >= inv[i].since
    BY <1>0, <1>1, <2>4 DEF Typed, Decided
  <2>15. Decided(i)'
    <3>1. rules # 0 /\ place \in {"consume", "running", "ran"} => Unblocked(rules, i)
      BY <1>4, <2>4, <2>13
    <3>2. rules # 0 /\ place \in {"running", "ran"} => Warned(rules, i)
      BY <1>4, <2>13
    <3>3. ~inv[i].grant
      BY <1>0, <2>4 DEF Decided
    <3> QED  BY <2>4, <2>10, <2>11, <2>14, <3>1, <3>2, <3>3 DEF Decided
  <2> QED  BY <1>0, <2>10, <2>12, <2>15 DEF Mine
<1>6. ASSUME EndRun(i)
      PROVE  Mine(i)' /\ inv'[i].grant = inv[i].grant
  <2>1. PICK seen : seen = Recorded(i, inv[i].decision)
    OBVIOUS
  <2>2. seen \in Actions \cup {"none"}
    BY <1>0, <2>1 DEF Recorded, Typed
  <2> DEFINE c == [pc |-> "ran", recorded |-> seen]
  <2>3. Becomes(i, c) /\ UNCHANGED <<published, cache>> /\ inv[i].pc = "running"
    BY <1>6, <2>1 DEF EndRun, Only
  <2>4. DOMAIN c \subseteq Fields
    BY DEF Fields
  <2> HIDE DEF c
  <2>5. /\ DOMAIN inv'[i] = Fields
        /\ \A f \in Fields : inv'[i][f] = IF f \in DOMAIN c THEN c[f] ELSE inv[i][f]
    BY <1>0, <2>3, <2>4, Becoming
  <2>6. /\ inv'[i].pc = "ran" /\ inv'[i].rules = rules /\ inv'[i].since = inv[i].since
        /\ inv'[i].decision = inv[i].decision /\ inv'[i].recorded = seen
        /\ inv'[i].grant = inv[i].grant /\ inv'[i].context = inv[i].context
    BY <1>1, <2>5 DEF c, Fields
  <2>7. Typed(i)'
    BY <1>0, <1>1, <2>2, <2>3, <2>5, <2>6 DEF Typed, Places, Kinds
  <2>8. i.kind = "guard"
    BY <1>0, <2>3 DEF Typed, Places, Kinds
  <2>9. Decided(i)'
    BY <1>0, <1>1, <2>3, <2>6, <2>8 DEF Decided
  <2> QED  BY <1>0, <2>6, <2>7, <2>9 DEF Mine
<1> QED  BY <1>5, <1>6

(* Only a run that a grant is consumed for has one. *)
LEMMA ConsumesRight ==
    ASSUME GuardInv, NEW i \in Invocations, NEW answered \in BOOLEAN, Consume(i, answered)
    PROVE  /\ Mine(i)'
           /\ ~inv[i].grant
           /\ inv'[i].grant <=> grants[CommandHash(i)] > 0 /\ answered
<1>0. /\ Mine(i) /\ Typed(i) /\ Decided(i) /\ RuleType /\ i.kind \in Kinds
      /\ DOMAIN inv = Invocations
  BY GuardAssumption DEF GuardInv, Mine
<1>1. PICK approved \in BOOLEAN : approved <=> grants[CommandHash(i)] > 0 /\ answered
  OBVIOUS
<1>2. PICK seen : seen = Recorded(i, IF approved THEN "allow" ELSE "approval")
  OBVIOUS
<1>3. seen \in Actions \cup {"none"}
  BY <1>2 DEF Recorded, Actions
<1>4. \E c : /\ c = IF approved THEN [pc |-> "ran", grant |-> TRUE, recorded |-> seen]
                    ELSE [pc |-> "request", recorded |-> seen]
             /\ Becomes(i, c)
  <2>1. CASE approved
    BY <1>1, <1>2, <2>1 DEF Consume
  <2>2. CASE ~approved
    BY <1>1, <1>2, <2>2 DEF Consume
  <2> QED  BY <2>1, <2>2
<1>5. PICK c : /\ c = IF approved THEN [pc |-> "ran", grant |-> TRUE, recorded |-> seen]
                      ELSE [pc |-> "request", recorded |-> seen]
               /\ Becomes(i, c)
  BY <1>4
<1>6. /\ DOMAIN c \subseteq Fields /\ {"pc", "recorded"} \subseteq DOMAIN c
      /\ c.pc = (IF approved THEN "ran" ELSE "request") /\ c.recorded = seen
      /\ {"rules", "since", "decision", "context"} \cap DOMAIN c = {}
      /\ "grant" \in DOMAIN c <=> approved
      /\ approved => c.grant = TRUE
  <2>1. CASE approved
    BY <1>5, <2>1 DEF Fields
  <2>2. CASE ~approved
    BY <1>5, <2>2 DEF Fields
  <2> QED  BY <2>1, <2>2
<1>7. /\ DOMAIN inv'[i] = Fields
      /\ \A f \in Fields : inv'[i][f] = IF f \in DOMAIN c THEN c[f] ELSE inv[i][f]
  BY <1>0, <1>5, <1>6, Becoming
<1>8. /\ inv'[i].pc = (IF approved THEN "ran" ELSE "request") /\ inv'[i].recorded = seen
      /\ inv'[i].rules = inv[i].rules /\ inv'[i].since = inv[i].since
      /\ inv'[i].decision = inv[i].decision /\ inv'[i].context = inv[i].context
      /\ inv'[i].grant = IF approved THEN TRUE ELSE inv[i].grant
  BY <1>6, <1>7 DEF Fields
<1>9. UNCHANGED <<published, cache>> /\ inv[i].pc = "consume" /\ i.kind = "hook"
  BY <1>0 DEF Consume, Typed, Places, Kinds
<1>10. ~inv[i].grant
  BY <1>0, <1>9 DEF Decided
<1>11. Typed(i)'
  BY <1>0, <1>3, <1>7, <1>8, <1>9 DEF Typed, Places
<1>12. Decided(i)'
  BY <1>0, <1>8, <1>9, <1>10 DEF Decided
<1> QED  BY <1>0, <1>1, <1>8, <1>10, <1>11, <1>12 DEF Mine

(* What is refused, and what a prompt is given. *)
LEMMA EndsRight ==
    ASSUME GuardInv, NEW i \in Invocations,
           \/ AddContext(i)
           \/ \E ok \in BOOLEAN : Request(i, ok) \/ StartPrompt(i, ok)
    PROVE  Mine(i)' /\ inv'[i].grant = inv[i].grant
<1>0. /\ Mine(i) /\ Typed(i) /\ Decided(i) /\ RuleType /\ i.kind \in Kinds
      /\ DOMAIN inv = Invocations
  BY GuardAssumption DEF GuardInv, Mine
<1>1. /\ published \in Nat /\ published <= Len(Bundles)
      /\ \A f \in {"sensitive", "context"} : cache[f] \in Nat /\ cache[f] <= published
  BY <1>0, PolicyCopy
<1>2. ASSUME NEW arrived \in BOOLEAN, Request(i, arrived)
      PROVE  Mine(i)' /\ inv'[i].grant = inv[i].grant
  <2> DEFINE c == [pc |-> "refused"]
  <2>1. Becomes(i, c) /\ UNCHANGED <<published, cache>> /\ inv[i].pc = "request"
    BY <1>2 DEF Request
  <2>2. DOMAIN c \subseteq Fields
    BY DEF Fields
  <2> HIDE DEF c
  <2>3. /\ DOMAIN inv'[i] = Fields
        /\ \A f \in Fields : inv'[i][f] = IF f \in DOMAIN c THEN c[f] ELSE inv[i][f]
    BY <1>0, <2>1, <2>2, Becoming
  <2>4. /\ inv'[i].pc = "refused" /\ inv'[i].rules = inv[i].rules
        /\ inv'[i].since = inv[i].since
        /\ inv'[i].decision = inv[i].decision /\ inv'[i].recorded = inv[i].recorded
        /\ inv'[i].grant = inv[i].grant /\ inv'[i].context = inv[i].context
    BY <2>3 DEF c, Fields
  <2>5. Typed(i)'
    BY <1>0, <1>1, <2>1, <2>3, <2>4 DEF Typed, Places, Kinds
  <2>6. Decided(i)'
    BY <1>0, <1>1, <2>1, <2>4 DEF Decided
  <2> QED  BY <1>0, <2>4, <2>5, <2>6 DEF Mine
<1>3. ASSUME AddContext(i)
      PROVE  Mine(i)' /\ inv'[i].grant = inv[i].grant
  <2>1. PICK added : added = IF cache["context"] = 0 THEN NoContext
                             ELSE ContextMatch(cache["context"], i)
    OBVIOUS
  <2>2. added \in Fitting
    BY <1>1, <2>1, TakeFits, ContextMatchFits
  <2> DEFINE c == [pc |-> "ran", context |-> added]
  <2>3. Becomes(i, c) /\ UNCHANGED <<published, cache>> /\ inv[i].pc = "context"
    BY <1>3, <2>1 DEF AddContext, Only
  <2>4. DOMAIN c \subseteq Fields
    BY DEF Fields
  <2> HIDE DEF c
  <2>5. /\ DOMAIN inv'[i] = Fields
        /\ \A f \in Fields : inv'[i][f] = IF f \in DOMAIN c THEN c[f] ELSE inv[i][f]
    BY <1>0, <2>3, <2>4, Becoming
  <2>6. /\ inv'[i].pc = "ran" /\ inv'[i].rules = inv[i].rules /\ inv'[i].since = inv[i].since
        /\ inv'[i].decision = inv[i].decision /\ inv'[i].recorded = inv[i].recorded
        /\ inv'[i].grant = inv[i].grant /\ inv'[i].context = added
    BY <2>5 DEF c, Fields
  <2>7. i.kind = "prompt"
    BY <1>0, <2>3 DEF Typed, Places, Kinds
  <2>8. Typed(i)'
    BY <1>0, <1>1, <2>3, <2>5, <2>6, <2>7 DEF Typed, Places
  <2>9. Decided(i)'
    BY <1>0, <1>1, <2>3, <2>6, <2>7 DEF Decided
  <2> QED  BY <2>2, <2>6, <2>8, <2>9 DEF Mine
<1>4. ASSUME NEW ok \in BOOLEAN, StartPrompt(i, ok), ok \/ i.agent # "codex"
      PROVE  Mine(i)' /\ inv'[i].grant = inv[i].grant
  <2>1. PICK rules : rules = cache["sensitive"]
    OBVIOUS
  <2>2. PICK found \in BOOLEAN :
            found <=> rules # 0 /\ \E rule \in Bundles[rules].sensitive : i.text \in rule.on
    OBVIOUS
  <2>3. PICK blocked \in BOOLEAN : blocked <=> rules # 0 /\ PromptBlocked(rules, i)
    OBVIOUS
  <2> DEFINE c == [pc |-> IF blocked THEN "refused" ELSE "context",
                   rules |-> rules, since |-> rules,
                   decision |-> IF blocked THEN "block" ELSE "allow",
                   recorded |-> IF found THEN "finding" ELSE "none"]
  <2>4. Becomes(i, c) /\ UNCHANGED <<published, cache>> /\ inv[i].pc = "none"
            /\ i.kind = "prompt"
    BY <1>4, <2>1, <2>2, <2>3 DEF StartPrompt, Only
  <2>5. DOMAIN c \subseteq Fields
    BY DEF Fields
  <2> HIDE DEF c
  <2>6. /\ DOMAIN inv'[i] = Fields
        /\ \A f \in Fields : inv'[i][f] = IF f \in DOMAIN c THEN c[f] ELSE inv[i][f]
    BY <1>0, <2>4, <2>5, Becoming
  <2>7. /\ inv'[i].pc = (IF blocked THEN "refused" ELSE "context")
        /\ inv'[i].rules = rules /\ inv'[i].since = rules
        /\ inv'[i].decision \in {"block", "allow"}
        /\ inv'[i].recorded \in {"finding", "none"}
        /\ inv'[i].grant = inv[i].grant /\ inv'[i].context = inv[i].context
    BY <2>6 DEF c, Fields
  <2>8. Typed(i)'
    BY <1>0, <1>1, <2>1, <2>4, <2>6, <2>7 DEF Typed, Places, Actions
  <2>9. Decided(i)'
    BY <1>0, <1>1, <2>1, <2>3, <2>4, <2>7 DEF Decided
  <2> QED  BY <1>0, <2>7, <2>8, <2>9 DEF Mine
<1>5. ASSUME NEW ok \in BOOLEAN, StartPrompt(i, ok), ~ok /\ i.agent = "codex"
      PROVE  Mine(i)' /\ inv'[i].grant = inv[i].grant
  <2> DEFINE c == [pc |-> "unchecked"]
  <2>1. /\ Becomes(i, c) /\ UNCHANGED <<published, cache>> /\ inv[i].pc = "none"
        /\ i.kind = "prompt"
    BY <1>5 DEF StartPrompt, Only
  <2>2. DOMAIN c \subseteq Fields
    BY DEF Fields
  <2> HIDE DEF c
  <2>3. /\ DOMAIN inv'[i] = Fields
        /\ \A f \in Fields : inv'[i][f] = IF f \in DOMAIN c THEN c[f] ELSE inv[i][f]
    BY <1>0, <2>1, <2>2, Becoming
  <2>4. /\ inv'[i].pc = "unchecked" /\ inv'[i].rules = inv[i].rules
        /\ inv'[i].since = inv[i].since
        /\ inv'[i].decision = inv[i].decision /\ inv'[i].recorded = inv[i].recorded
        /\ inv'[i].grant = inv[i].grant /\ inv'[i].context = inv[i].context
    BY <2>3 DEF c, Fields
  <2>5. Typed(i)'
    BY <1>0, <1>1, <2>1, <2>3, <2>4 DEF Typed, Places
  <2>6. Decided(i)'
    BY <1>0, <1>1, <1>5, <2>1, <2>4 DEF Decided
  <2> QED  BY <1>0, <2>4, <2>5, <2>6 DEF Mine
<1> QED  BY <1>2, <1>3, <1>4, <1>5

-----------------------------------------------------------------------------
(* The step of the whole *)

(* A step that gives no grant and takes none keeps the count of grants. *)
LEMMA GrantsSame ==
    ASSUME GuardInv, UNCHANGED <<grants, granted>>, requested' \subseteq Hashes,
           \A j \in Invocations : inv'[j].grant = inv[j].grant
    PROVE  GrantInv'
<1>1. \A h \in Hashes : Granted(h)' = Granted(h)
  BY DEF Granted
<1> QED  BY <1>1 DEF GuardInv, GrantInv

(* What one of them does is right for all, if it is for itself. *)
LEMMA OneMoves ==
    ASSUME GuardInv, NEW i \in Invocations, NEW known, inv' = [inv EXCEPT ![i] = known],
           UNCHANGED <<published, cache, fetched>>, Mine(i)', GrantInv'
    PROVE  GuardInv'
<1>1. RuleType /\ FetchedInv /\ DOMAIN inv = Invocations
  BY DEF GuardInv
<1>2. DOMAIN inv' = Invocations /\ \A j \in Invocations : j # i => inv'[j] = inv[j]
  BY <1>1
<1>3. RuleType' /\ FetchedInv'
  BY <1>1 DEF RuleType, FetchedInv
<1>4. published <= published' /\ cache["policy"] <= cache'["policy"]
  BY <1>1, PolicyCopy
<1>5. ASSUME NEW j \in Invocations, j # i
      PROVE  Mine(j)'
  BY <1>1, <1>2, <1>3, <1>4, <1>5, MineStays DEF GuardInv
<1> QED  BY <1>2, <1>3, <1>5 DEF GuardInv

(* Rules that are published, fetched and saved leave what is decided right. *)
LEMMA RulesStep ==
    ASSUME GuardInv,
           \/ UNCHANGED <<published, cache, inv, grants, granted, requested>>
                  /\ fetched' \in {fetched, Nothing}
           \/ \E ok \in BOOLEAN : FetchRules(ok) \/ SaveRules(ok)
           \/ \E last \in 1 .. Len(Bundles) : PublishRules(last)
    PROVE  GuardInv'
<1>0. RuleType /\ FetchedInv /\ GrantInv
  BY DEF GuardInv
<1>1. UNCHANGED <<inv, grants, granted, requested>>
  BY DEF FetchRules, SaveRules, PublishRules
<1>2. /\ published \in Nat /\ published <= Len(Bundles) /\ Len(Bundles) \in Nat
      /\ Caches = {"policy", "sensitive", "context"} /\ Len(RuleFiles) = 3
      /\ RuleFiles[1] = "policy" /\ RuleFiles[2] = "sensitive" /\ RuleFiles[3] = "context"
  <2>1. PICK three : three = RuleFiles
    OBVIOUS
  <2>2. /\ DOMAIN three = {1, 2, 3} /\ Len(three) = 3
        /\ three[1] = "policy" /\ three[2] = "sensitive" /\ three[3] = "context"
    BY <2>1 DEF RuleFiles
  <2> QED  BY <1>0, <2>1, <2>2, PolicyCopy DEF Caches
<1>3. /\ fetched.file \in 1 .. 4 /\ fetched.rules \in 0 .. published
      /\ fetched = [file |-> fetched.file, rules |-> fetched.rules]
      /\ cache \in [Caches -> 0 .. published]
  BY <1>0, <1>2 DEF RuleType
<1>4. /\ published <= published' /\ RuleType' /\ FetchedInv'
      /\ \A f \in Caches : cache[f] <= cache'[f]
  <2>1. CASE UNCHANGED <<published, cache>> /\ fetched' \in {fetched, Nothing}
    BY <1>0, <1>2, <1>3, <2>1 DEF RuleType, FetchedInv, Nothing
  <2>2. ASSUME NEW ok \in BOOLEAN, FetchRules(ok)
        PROVE  /\ published <= published' /\ RuleType' /\ FetchedInv'
               /\ \A f \in Caches : cache[f] <= cache'[f]
    <3>1. UNCHANGED <<published, cache>>
      BY <2>2 DEF FetchRules
    <3>2. \/ fetched' = [file |-> fetched.file + 1, rules |-> 0] /\ fetched.file <= 3
          \/ fetched' = [file |-> fetched.file, rules |-> published]
      BY <1>2, <1>3, <2>2 DEF FetchRules, NextCache, Synced
    <3> QED  BY <1>0, <1>2, <1>3, <3>1, <3>2 DEF RuleType, FetchedInv
  <2>3. ASSUME NEW ok \in BOOLEAN, SaveRules(ok)
        PROVE  /\ published <= published' /\ RuleType' /\ FetchedInv'
               /\ \A f \in Caches : cache[f] <= cache'[f]
    <3>1. PICK f : f = RuleFiles[fetched.file]
      OBVIOUS
    <3>2. /\ fetched.rules # 0 /\ fetched.file <= 3 /\ UNCHANGED published
          /\ fetched' = [file |-> fetched.file + 1, rules |-> 0]
          /\ \/ cache' = cache
             \/ /\ cache' = [cache EXCEPT ![f] = fetched.rules]
                /\ f = "context" => ValidContext(fetched.rules)
      BY <1>2, <1>3, <2>3, <3>1 DEF SaveRules, NextCache, Synced
    <3>3. f \in Caches
      BY <1>2, <1>3, <3>1, <3>2
    <3>4. ASSUME NEW g \in Caches
          PROVE  cache'[g] = IF cache' # cache /\ g = f THEN fetched.rules ELSE cache[g]
      <4>1. CASE cache' = cache
        BY <4>1
      <4>2. CASE cache' = [cache EXCEPT ![f] = fetched.rules]
        BY <1>3, <3>3, <4>2
      <4> QED  BY <3>2, <4>1, <4>2
    <3>5. cache' \in [Caches -> 0 .. published]
      BY <1>3, <3>2, <3>3
    <3>6. \A g \in Caches : cache[g] <= cache'[g]
      BY <1>0, <1>3, <3>2, <3>4 DEF FetchedInv
    <3>7. cache'["context"] # 0 => ValidContext(cache'["context"])
      BY <1>0, <1>2, <1>3, <3>2, <3>3 DEF RuleType
    <3> QED  BY <1>0, <1>2, <1>3, <3>2, <3>5, <3>6, <3>7 DEF RuleType, FetchedInv
  <2>4. ASSUME NEW last \in 1 .. Len(Bundles), PublishRules(last)
        PROVE  /\ published <= published' /\ RuleType' /\ FetchedInv'
               /\ \A f \in Caches : cache[f] <= cache'[f]
    <3>1. published' = published + 1 /\ published' <= Len(Bundles)
              /\ UNCHANGED <<cache, fetched>>
      BY <1>2, <2>4 DEF PublishRules
    <3> QED  BY <1>0, <1>2, <1>3, <3>1 DEF RuleType, FetchedInv
  <2> QED  BY <2>1, <2>2, <2>3, <2>4
<1>5. cache["policy"] <= cache'["policy"]
  BY <1>2, <1>4
<1>6. \A i \in Invocations : Mine(i)'
  BY <1>0, <1>1, <1>4, <1>5, MineStays DEF GuardInv
<1>7. GrantInv'
  BY <1>0, <1>1, GrantsSame DEF GrantInv
<1> QED  BY <1>1, <1>4, <1>6, <1>7 DEF GuardInv

(* A grant is consumed for one run at most. *)
LEMMA ConsumeCounts ==
    ASSUME GuardInv, NEW i \in Invocations, NEW answered \in BOOLEAN, Consume(i, answered)
    PROVE  GrantInv'
<1> DEFINE h == CommandHash(i)
<1>0. /\ GrantInv /\ h \in Hashes /\ DOMAIN inv = Invocations /\ Typed(i) /\ IsFiniteSet(Invocations)
  BY GuardAssumption DEF GuardInv, Mine, Hashes
<1>1. /\ ~inv[i].grant
      /\ inv'[i].grant <=> grants[h] > 0 /\ answered
      /\ \A j \in Invocations : j # i => inv'[j] = inv[j]
  BY <1>0, ConsumesRight DEF Consume, Becomes
<1>2. PICK arrived \in BOOLEAN :
        /\ answered => arrived
        /\ grants' = IF arrived /\ grants[h] > 0 THEN [grants EXCEPT ![h] = @ - 1] ELSE grants
        /\ UNCHANGED <<granted, requested>>
  BY DEF Consume
<1> HIDE DEF h
<1>3. grants \in [Hashes -> Nat] /\ granted \in [Hashes -> 0 .. MaxGrants] /\ MaxGrants \in Nat
  BY <1>0, GuardAssumption DEF GrantInv
<1>4. /\ grants' \in [Hashes -> Nat]
      /\ \A k \in Hashes : k # h => grants'[k] = grants[k]
      /\ grants'[h] = IF arrived /\ grants[h] > 0 THEN grants[h] - 1 ELSE grants[h]
  BY <1>0, <1>2, <1>3
<1>5. \A k \in Hashes : IsFiniteSet(Granted(k)) /\ Cardinality(Granted(k)) \in Nat
  <2>1. \A k \in Hashes : Granted(k) \subseteq Invocations
    BY DEF Granted
  <2> QED  BY <1>0, <2>1, FS_Subset, FS_CardinalityType
<1>6. ASSUME NEW k \in Hashes
      PROVE  Cardinality(Granted(k)') + grants'[k] <= granted'[k]
  <2>1. /\ Cardinality(Granted(k)) + grants[k] <= granted[k]
        /\ grants[k] \in Nat /\ granted[k] \in Nat
    BY <1>0, <1>3 DEF GrantInv
  <2>2. CASE k = h /\ grants[h] > 0 /\ answered
    <3>1. Granted(k)' = Granted(k) \cup {i} /\ i \notin Granted(k)
      BY <1>1, <2>2 DEF Granted, h
    <3>2. Cardinality(Granted(k)') = Cardinality(Granted(k)) + 1
      BY <1>5, <3>1, FS_AddElement
    <3> QED  BY <1>2, <1>4, <1>5, <2>1, <2>2, <3>2
  <2>3. CASE ~(k = h /\ grants[h] > 0 /\ answered)
    <3>1. Granted(k)' = Granted(k)
      BY <1>1, <2>3 DEF Granted, h
    <3>2. grants'[k] <= grants[k]
      BY <1>0, <1>3, <1>4
    <3>3. grants'[k] \in Nat /\ granted'[k] = granted[k]
      BY <1>2, <1>4
    <3> QED  BY <1>5, <2>1, <3>1, <3>2, <3>3
  <2> QED  BY <2>2, <2>3
<1> QED  BY <1>0, <1>2, <1>3, <1>4, <1>6 DEF GrantInv

(* An approval more is one that can be consumed. *)
LEMMA ApproveCounts ==
    ASSUME GuardInv, NEW h \in Hashes, Approve(h)
    PROVE  GuardInv'
<1>1. /\ RuleType /\ FetchedInv /\ GrantInv /\ DOMAIN inv = Invocations
      /\ IsFiniteSet(Invocations) /\ MaxGrants \in Nat
  BY GuardAssumption DEF GuardInv
<1>2. UNCHANGED <<published, cache, fetched, inv, requested>>
  BY DEF Approve
<1>3. \A k \in Hashes : Cardinality(Granted(k)) \in Nat /\ Granted(k)' = Granted(k)
  <2>1. \A k \in Hashes : Granted(k) \subseteq Invocations
    BY DEF Granted
  <2>2. \A k \in Hashes : Cardinality(Granted(k)) \in Nat
    BY <1>1, <2>1, FS_Subset, FS_CardinalityType
  <2> QED  BY <1>2, <2>2 DEF Granted
<1>4. /\ grants' = [grants EXCEPT ![h] = grants[h] + 1]
      /\ granted' = [granted EXCEPT ![h] = granted[h] + 1] /\ granted[h] < MaxGrants
  BY DEF Approve
<1>5. grants \in [Hashes -> Nat] /\ granted \in [Hashes -> 0 .. MaxGrants]
  BY <1>1 DEF GrantInv
<1>6. grants' \in [Hashes -> Nat] /\ granted' \in [Hashes -> 0 .. MaxGrants]
  BY <1>1, <1>4, <1>5
<1>7. ASSUME NEW k \in Hashes
      PROVE  Cardinality(Granted(k)') + grants'[k] <= granted'[k]
  <2>1. Cardinality(Granted(k)) + grants[k] <= granted[k]
    BY <1>1 DEF GrantInv
  <2>2. grants[k] \in Nat /\ granted[k] \in Nat
    BY <1>1, <1>5
  <2>3. \/ grants'[k] = grants[k] /\ granted'[k] = granted[k]
        \/ grants'[k] = grants[k] + 1 /\ granted'[k] = granted[k] + 1
    BY <1>4, <1>5
  <2> QED  BY <1>3, <2>1, <2>2, <2>3
<1>8. GrantInv'
  BY <1>1, <1>2, <1>6, <1>7 DEF GrantInv
<1>9. /\ RuleType' /\ FetchedInv'
      /\ published <= published' /\ cache["policy"] <= cache'["policy"]
  BY <1>1, <1>2, PolicyCopy DEF RuleType, FetchedInv
<1>10. \A i \in Invocations : Mine(i)'
  BY <1>1, <1>2, <1>9, MineStays DEF GuardInv
<1> QED  BY <1>1, <1>2, <1>8, <1>9, <1>10 DEF GuardInv

(* Whatever a hook or guard does, it leaves all that is decided right. *)
LEMMA OneStep ==
    ASSUME GuardInv, NEW i \in Invocations,
           \/ StartHook(i) \/ StartGuard(i) \/ LoadPolicyCache(i) \/ AddContext(i)
           \/ \E ok \in BOOLEAN : Fetched(i, ok) \/ Request(i, ok) \/ StartPrompt(i, ok)
           \/ Decide(i) \/ EndRun(i)
           \/ \E answered \in BOOLEAN : Consume(i, answered)
    PROVE  GuardInv'
<1>0. DOMAIN inv = Invocations /\ GrantInv
  BY DEF GuardInv
<1>1. UNCHANGED <<published, cache, fetched>>
  BY DEF StartHook, StartGuard, LoadPolicyCache, AddContext, Fetched, Request, Decide, EndRun,
         StartPrompt, Consume, Only
<1>2. PICK known : inv' = [inv EXCEPT ![i] = known]
  BY DEF StartHook, StartGuard, LoadPolicyCache, AddContext, Fetched, Request, Decide, EndRun,
         StartPrompt, Consume, Only, Becomes
<1>3. CASE \E answered \in BOOLEAN : Consume(i, answered)
  BY <1>1, <1>2, <1>3, ConsumesRight, ConsumeCounts, OneMoves
<1>4. CASE ~\E answered \in BOOLEAN : Consume(i, answered)
  <2>1. Mine(i)' /\ inv'[i].grant = inv[i].grant
    BY <1>4, StartsRight, DecidesRight, EndsRight
  <2>2. \A j \in Invocations : inv'[j].grant = inv[j].grant
    BY <1>0, <1>2, <2>1
  <2>3. UNCHANGED <<grants, granted>> /\ requested' \subseteq Hashes
    <3>1. CommandHash(i) \in Hashes /\ requested \subseteq Hashes
      BY <1>0 DEF Hashes, GrantInv
    <3> QED  BY <1>4, <3>1 DEF StartHook, StartGuard, LoadPolicyCache, AddContext, Fetched,
                               Request, Decide, EndRun, StartPrompt, Only
  <2>4. GrantInv'
    BY <2>2, <2>3, GrantsSame
  <2> QED  BY <1>1, <1>2, <2>1, <2>4, OneMoves
<1> QED  BY <1>3, <1>4

(* A step of the cycle keeps the invariant. *)
LEMMA GuardPreserved ==
    ASSUME GuardInv, GuardStep
    PROVE  GuardInv'
<1>1. CASE \/ UNCHANGED <<published, cache, inv, grants, granted, requested>>
                  /\ fetched' \in {fetched, Nothing}
           \/ \E ok \in BOOLEAN : FetchRules(ok) \/ SaveRules(ok)
  BY <1>1, RulesStep
<1>2. ASSUME NEW last \in 1 .. Len(Bundles), GuardNext(Invocations, last)
      PROVE  GuardInv'
  <2>1. CASE PublishRules(last)
    BY <2>1, RulesStep
  <2>2. ASSUME NEW h \in Hashes, Approve(h)
        PROVE  GuardInv'
    BY <2>2, ApproveCounts
  <2>3. ASSUME NEW i \in Invocations,
               \/ StartHook(i) \/ StartGuard(i) \/ LoadPolicyCache(i) \/ AddContext(i)
               \/ \E ok \in BOOLEAN : Fetched(i, ok) \/ Request(i, ok) \/ StartPrompt(i, ok)
               \/ Decide(i) \/ EndRun(i)
               \/ \E answered \in BOOLEAN : Consume(i, answered)
        PROVE  GuardInv'
    BY <2>3, OneStep
  <2> QED  BY <1>2, <2>1, <2>2, <2>3 DEF GuardNext
<1> QED  BY <1>1, <1>2 DEF GuardStep

(* The invariant holds as the daemon starts, with a copy of the rules or     *)
(* without.                                                                *)
LEMMA GuardInitially ==
    ASSUME GuardInit
    PROVE  GuardInv
<1>1. /\ published = 1 /\ cache \in [Caches -> {0, 1}]
      /\ (cache["context"] = 1 => ValidContext(1)) /\ fetched = Nothing
      /\ inv = [i \in Invocations |-> Waiting]
      /\ grants = [h \in Hashes |-> 0] /\ granted = grants /\ requested = {}
  BY DEF GuardInit
<1>2. /\ Len(Bundles) \in Nat /\ Len(Bundles) > 0 /\ MaxGrants \in Nat
      /\ Len(RuleFiles) = 3 /\ "context" \in Caches
  <2>1. PICK three : three = RuleFiles
    OBVIOUS
  <2>2. Len(three) = 3 /\ three[3] = "context" /\ 3 \in DOMAIN three
    BY <2>1 DEF RuleFiles
  <2> QED  BY <2>1, <2>2, GuardAssumption DEF Caches
<1>3. RuleType /\ FetchedInv
  <2>1. cache["context"] # 0 => ValidContext(cache["context"])
    BY <1>1, <1>2
  <2> QED  BY <1>1, <1>2, <2>1 DEF RuleType, FetchedInv, Nothing
<1>4. ASSUME NEW i \in Invocations
      PROVE  Mine(i)
  <2>1. inv[i] = Waiting /\ i.kind \in Kinds
    BY <1>1, GuardAssumption
  <2>2. /\ DOMAIN Waiting = Fields /\ Waiting.pc = "none" /\ Waiting.rules = 0
        /\ Waiting.since = 0 /\ Waiting.decision = "allow" /\ Waiting.recorded = "none"
        /\ Waiting.grant = FALSE /\ Waiting.context = NoContext
    BY DEF Waiting, Fields
  <2>3. Typed(i)
    <3>1. "none" \in Places(i.kind)
      BY <2>1 DEF Places, Kinds
    <3>2. 0 \in 0 .. published /\ "allow" \in Actions
      BY <1>1 DEF Actions
    <3> QED  BY <2>1, <2>2, <3>1, <3>2 DEF Typed
  <2>4. Decided(i)
    BY <2>1, <2>2 DEF Decided
  <2> QED  BY <2>1, <2>2, <2>3, <2>4, TakeFits DEF Mine
<1>5. GrantInv
  <2>1. ASSUME NEW h \in Hashes
        PROVE  Granted(h) = {}
    <3>1. \A i \in Invocations : ~inv[i].grant
      BY <1>1 DEF Waiting
    <3> QED  BY <3>1 DEF Granted
  <2>2. grants \in [Hashes -> Nat] /\ granted \in [Hashes -> 0 .. MaxGrants]
    BY <1>1, <1>2
  <2>3. \A h \in Hashes : grants[h] = 0 /\ granted[h] = 0
    BY <1>1
  <2>4. Cardinality({}) = 0
    BY FS_EmptySet
  <2>5. requested \subseteq Hashes
    BY <1>1
  <2> QED  BY <2>1, <2>2, <2>3, <2>4, <2>5 DEF GrantInv
<1> QED  BY <1>1, <1>3, <1>4, <1>5 DEF GuardInv

(* The world that was chosen stays. *)
LEMMA WorldStays ==
    ASSUME [DaemonNext]_vars
    PROVE  world' = world
BY DEF DaemonNext, vars, cycleVars, Cycle, EnsureSettings, SyncRules, Collect, Report, Flush,
       Finish, Wake, Afterwards, DaemonUpgrades, HelperUpgrades, CommandUpgrades, Upset,
       Environment, Guarding

(* What the hooks and guards know is right at any time. *)
THEOREM GuardKept == DaemonSpec => [](world \in DOMAIN Worlds /\ GuardInv)
<1> DEFINE I == world \in DOMAIN Worlds /\ GuardInv
<1>1. DaemonInit => I
  BY GuardInitially DEF DaemonInit
<1>2. I /\ [DaemonNext]_vars => I'
  BY CycleGuards, GuardPreserved, WorldStays
<1> QED  BY <1>1, <1>2, PTL DEF DaemonSpec

(* What is decided about commands and prompts, whatever interleaves: a        *)
(* command runs by rules at least as new as the copy there was, unblocked,    *)
(* and each approval serves one run; a prompt that was checked is let through *)
(* only if no rule of the copy blocks it, and only Codex prompts that could   *)
(* not be verified go unchecked (processUserPromptSubmit).                    *)
THEOREM PermissionsHold == DaemonSpec => []RunsPermitted
<1>1. ASSUME GuardInv
      PROVE  RunsPermitted
  <2>1. ASSUME NEW i \in Invocations, Ran(i)
        PROVE  LET rules == inv[i].rules
                   found == Matches(rules, i)
                   saying(action) == {n \in DOMAIN found : found[n].action = action}
               IN  /\ rules >= inv[i].since
                   /\ rules # 0 /\ i.kind # "prompt" =>
                       /\ saying("block") = {}
                       /\ \/ inv[i].grant
                          \/ \A n \in saying("approval") : \E k \in saying("warn") : k > n
                   /\ rules # 0 /\ i.kind = "prompt" => ~PromptBlocked(rules, i)
    <3>1. Decided(i) /\ inv[i].pc \in {"running", "ran"} /\ Typed(i) /\ i.kind \in Kinds
      BY <1>1, <2>1, GuardAssumption DEF GuardInv, Mine, Ran
    <3>2. i.kind = "prompt" => inv[i].pc = "ran"
      BY <3>1 DEF Typed, Places
    <3> QED  BY <3>1, <3>2 DEF Decided, Unblocked, Warned, Saying
  <2>2. ASSUME NEW i \in Invocations, inv[i].pc = "unchecked"
        PROVE  i.kind = "prompt" /\ i.agent = "codex"
    <3>1. Decided(i) /\ Typed(i) /\ i.kind \in Kinds
      BY <1>1, GuardAssumption DEF GuardInv, Mine
    <3> QED  BY <2>2, <3>1 DEF Decided, Typed, Places, Kinds
  <2> QED  BY <1>1, <2>1, <2>2 DEF RunsPermitted, GuardInv, GrantInv, Granted
<1> QED  BY <1>1, GuardKept, PTL

(* The fold of + over the sizes is their sum. *)
LEMMA CharactersCounted ==
    ASSUME NEW rules \in Seq(ContextRule)
    PROVE  LET sizes == [n \in DOMAIN rules |-> rules[n].size]
           IN  FoldSeq(LAMBDA a, b : a + b, 0, sizes) = Sum(Sizes(rules), DOMAIN rules)
BY DEF FoldSeq, FoldFunction, FoldFunctionOnSet, MapThenFoldSet, Sum, MapThenSumSet, Sizes

(* What is added to a prompt keeps the limits, and the copy of the context   *)
(* rules there is never exceeds them by itself.                            *)
THEOREM ContextAlwaysFits == DaemonSpec => []ContextFits
<1>1. ASSUME GuardInv
      PROVE  ContextFits
  <2>1. ASSUME NEW i \in Invocations
        PROVE  LET rules == inv[i].context.rules
                   sizes == [n \in DOMAIN rules |-> rules[n].size]
               IN  /\ Len(rules) <= MaxMatchedRules
                   /\ FoldSeq(LAMBDA a, b : a + b, 0, sizes)
                          + (IF rules = << >> THEN 0 ELSE 2 * (Len(rules) - 1))
                            <= MaxContextContent
    <3>1. PICK rules : rules = inv[i].context.rules
      OBVIOUS
    <3>2. inv[i].context \in Fitting
      BY <1>1 DEF GuardInv, Mine
    <3>3. /\ rules \in Seq(ContextRule) /\ Len(rules) <= MaxMatchedRules
          /\ Characters(rules) <= MaxContextContent
      BY <3>1, <3>2 DEF Fitting
    <3>4. FoldSeq(LAMBDA a, b : a + b, 0, [n \in DOMAIN rules |-> rules[n].size])
              = Sum(Sizes(rules), DOMAIN rules)
      BY <3>3, CharactersCounted
    <3> QED  BY <3>1, <3>3, <3>4 DEF Characters
  <2>2. cache["context"] # 0 => ValidContext(cache["context"])
    BY <1>1 DEF GuardInv, RuleType
  <2> QED  BY <2>1, <2>2 DEF ContextFits
<1> QED  BY <1>1, GuardKept, PTL

(* The types of what the hooks, the guards and the cache hold *)
LEMMA GuardTypes ==
    ASSUME GuardInv
    PROVE  GuardTypeOK
<1>1. RuleType /\ GrantInv
  BY DEF GuardInv
<1>2. ASSUME NEW i \in Invocations
      PROVE  /\ inv[i].pc \in {"none", "fetch", "cached", "decide", "consume", "request",
                               "context", "unchecked", "running", "ran", "refused"}
             /\ inv[i].rules \in 0 .. published /\ inv[i].since \in 0 .. published
             /\ inv[i].decision \in {"allow", "warn", "approval", "block"}
             /\ inv[i].recorded \in {"none", "finding", "allow", "warn", "approval", "block"}
  <2>1. Typed(i) /\ i.kind \in Kinds
    BY GuardAssumption DEF GuardInv, Mine
  <2> QED  BY <2>1 DEF Typed, Places, Actions, Kinds
<1>3. grants \in [Hashes -> 0 .. MaxGrants]
  <2>1. ASSUME NEW h \in Hashes
        PROVE  grants[h] \in 0 .. MaxGrants
    <3>1. /\ Cardinality(Granted(h)) + grants[h] <= granted[h]
          /\ grants[h] \in Nat /\ granted[h] \in 0 .. MaxGrants /\ MaxGrants \in Nat
      BY <1>1, GuardAssumption DEF GrantInv
    <3>2. Cardinality(Granted(h)) \in Nat
      <4>1. Granted(h) \subseteq Invocations
        BY DEF Granted
      <4> QED  BY <4>1, GuardAssumption, FS_Subset, FS_CardinalityType
    <3> QED  BY <3>1, <3>2
  <2> QED  BY <1>1, <2>1 DEF GrantInv
<1> QED  BY <1>1, <1>2, <1>3 DEF GuardTypeOK, RuleType, GrantInv

-----------------------------------------------------------------------------
(* The cycle itself *)
CyclePlaces == {"settings", "sync", "report", "flush", "degraded", "final", "sleep"}

CycleInv ==
    /\ world \in DOMAIN Worlds /\ step \in CyclePlaces /\ synced \in BOOLEAN
    /\ mishaps \in 0 .. World.mishaps

(* A cycle is at one of its places, and what goes wrong is counted. *)
LEMMA CyclePreserved ==
    ASSUME CycleInv, [DaemonNext]_vars
    PROVE  CycleInv'
<1>0. /\ world' = world /\ World' = World /\ World.mishaps \in Nat
      /\ world \in DOMAIN Worlds
  BY WorldStays, WorldsAssumption DEF CycleInv, World
<1>1. \/ UNCHANGED mishaps
      \/ \E mishap : Counted(mishap)
  BY DEF DaemonNext, Cycle, DaemonUpgrades, HelperUpgrades, CommandUpgrades, Upset,
         Environment, Guarding, vars, cycleVars
<1>2. mishaps' \in 0 .. World.mishaps
  BY <1>0, <1>1 DEF Counted, CycleInv
<1>3. step' \in CyclePlaces /\ synced' \in BOOLEAN
  <2>1. CASE UNCHANGED <<step, synced>>
    BY <2>1 DEF CycleInv
  <2>2. CASE LoopFollows
    BY <2>2 DEF CycleInv, LoopFollows, CyclePlaces
  <2>3. ASSUME NEW ok \in BOOLEAN, NEW saved \in BOOLEAN, Cycle(ok, saved)
        PROVE  step' \in CyclePlaces /\ synced' \in BOOLEAN
    BY <2>3 DEF CycleInv, CyclePlaces, Cycle, EnsureSettings, SyncRules, Collect, Report, Flush,
                Finish, Wake, Afterwards, Heartbeat
  <2> QED  BY <2>1, <2>2, <2>3 DEF DaemonNext, DaemonUpgrades, HelperUpgrades, CommandUpgrades,
                                   Upset, Environment, Guarding, vars, cycleVars
<1> QED  BY <1>0, <1>2, <1>3 DEF CycleInv

(* Everything in the daemon's cycle has its type: the files and the processes *)
(* of the upgrade, what the hooks and guards know, and the cycle itself.     *)
THEOREM CycleTyped == DaemonSpec => []TypeOK
<1>1. DaemonInit => CycleInv
  <2> SUFFICES ASSUME DaemonInit PROVE CycleInv
    OBVIOUS
  <2>1. world \in DOMAIN Worlds /\ World.mishaps \in Nat
    BY WorldsAssumption DEF DaemonInit, World
  <2>2. step = "settings" /\ synced = FALSE /\ mishaps = 0
    BY DEF DaemonInit
  <2>3. mishaps \in 0 .. World.mishaps
    BY <2>1, <2>2
  <2>4. synced \in BOOLEAN
    BY <2>2
  <2>5. step \in CyclePlaces
    BY <2>2 DEF CyclePlaces
  <2> QED  BY <2>1, <2>3, <2>4, <2>5 DEF CycleInv
<1>2. CycleInv /\ [DaemonNext]_vars => CycleInv'
  BY CyclePreserved
<1>3. GuardInv /\ UpgradeInv /\ CycleInv => TypeOK
  BY GuardTypes, TypesHold DEF UpgradeInv, CycleInv, CyclePlaces, TypeOK
<1> QED  BY <1>1, <1>2, <1>3, GuardKept, UpgradeKept, PTL DEF DaemonSpec
================================================================================
