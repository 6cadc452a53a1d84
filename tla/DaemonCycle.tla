----------------------------- MODULE DaemonCycle -----------------------------
(***************************************************************************)
(* The daemon's loop and what runs beside it.  A cycle gets the settings    *)
(* and the rules, collects, reports and sends what is queued; each of its   *)
(* heartbeats may bring an upgrade, which it then carries out before it     *)
(* goes on.  Whatever fails ends the cycle at most, never the loop: only a  *)
(* new binary and a death do, and a daemon that starts begins afresh.       *)
(*                                                                         *)
(* What is collected and queued is the subject of other modules.            *)
(***************************************************************************)
EXTENDS AgentUpgrade, CommandGuard

CONSTANTS
    Worlds      \* what may happen, a sequence of [host, mode, offers, upgraders, copies,
                \* bundles, invocations, mishaps]; it starts with one of `copies`
                \* of the rules, so many bundles come to be published, and there are
                \* so many deaths, failures of an upgrade and commands of the user

ASSUME WorldsAssumption ==
    \A w \in DOMAIN Worlds :
        /\ Worlds[w].host \in {"unix", "windows"}
        /\ Worlds[w].mode \in {"off", "notify", "auto", "required"}
        /\ Worlds[w].offers \subseteq Versions
        /\ Worlds[w].upgraders \subseteq Upgraders
        /\ Worlds[w].bundles \in 1 .. Len(Bundles) /\ Worlds[w].mishaps \in Nat
        /\ Worlds[w].invocations \subseteq Invocations

VARIABLES
    world,      \* which of Worlds this is
    step,       \* where the cycle is
    synced,     \* runtimeSettingsSynced
    mishaps     \* how many of them there were

cycleVars == <<world, step, synced, mishaps>>
vars == <<upgradeVars, guardVars, cycleVars>>

World == Worlds[world]

DaemonInit ==
    /\ world \in DOMAIN Worlds
    /\ UpgradeInit /\ GuardInit
    /\ host = World.host /\ cache \in [Caches -> World.copies]
    /\ offer \in [mode : {World.mode}, target : {Releases[1]}]
    /\ step = "settings" /\ synced = FALSE
    /\ mishaps = 0

-----------------------------------------------------------------------------
(* The cycle goes on where it is when no upgrade runs. *)
At(place) == step = place /\ up[Daemon].pc = "idle"
Afterwards(place) == step' = place /\ UNCHANGED world

(* A daemon that starts, or becomes another binary, is at its beginning and  *)
(* knows no settings.                                                       *)
Started == up[Daemon].pc \in {"down", "exec"} /\ up'[Daemon].pc = "idle"
LoopFollows ==
    /\ step' = IF Started THEN "settings" ELSE step
    /\ synced' = IF Started THEN FALSE ELSE synced
    /\ fetched' = IF Started THEN Nothing ELSE fetched
    /\ UNCHANGED <<published, cache, inv, grants, granted, requested>>

(* The answer to a heartbeat brings the settings and the offer: an upgrade   *)
(* that is to be applied begins, and the cycle waits for it.                *)
UpgradeOffered(saved) ==
    IF ShouldApply(up[Daemon].is) /\ ~Suppressed(offer.target)
    THEN BeginUpgrade(saved)
    ELSE UNCHANGED upgradeVars

Heartbeat(answered, saved) ==
    IF answered
    THEN UpgradeOffered(saved) /\ synced' \in {synced, TRUE}
    ELSE UNCHANGED <<upgradeVars, synced>>

(* Faulty variant: without the settings the cycle ends. *)
EnsureSettingsOrEnd(answered, saved) ==
    /\ At("settings")
    /\ IF synced THEN UNCHANGED <<upgradeVars, synced>> ELSE Heartbeat(answered, saved)
    /\ fetched' = Nothing
    /\ UNCHANGED <<published, cache, inv, grants, granted, requested>>
    /\ Afterwards(IF synced \/ answered THEN "sync" ELSE "sleep")

(* ensureRuntimeSettings: the first heartbeat of a daemon asks for them. *)
EnsureSettings(answered, saved) ==
    /\ At("settings")
    /\ IF synced THEN UNCHANGED <<upgradeVars, synced>> ELSE Heartbeat(answered, saved)
    /\ fetched' = Nothing
    /\ UNCHANGED <<published, cache, inv, grants, granted, requested>>
    /\ Afterwards("sync")

SyncRules(ok) ==
    /\ At("sync")
    /\ FetchRules(ok) \/ SaveRules(ok)
    /\ UNCHANGED <<upgradeVars, world, step, synced>>

(* collectAndQueue: an error ends the cycle. *)
Collect(ok) ==
    /\ At("sync") /\ Synced
    /\ Afterwards(IF ok THEN "report" ELSE "sleep")
    /\ UNCHANGED <<upgradeVars, guardVars, synced>>

(* flushWithHeartbeat: the heartbeat before the queue is sent may fail ... *)
Report(answered, saved) ==
    /\ At("report")
    /\ Heartbeat(answered, saved)
    /\ Afterwards("flush")
    /\ UNCHANGED guardVars

Flush(ok) ==
    /\ At("flush")
    /\ Afterwards(IF ok THEN "final" ELSE "degraded")
    /\ UNCHANGED <<upgradeVars, guardVars, synced>>

(* ... and so may the one after it, which says whether it was. *)
Finish(answered, saved) ==
    /\ At("final") \/ At("degraded")
    /\ Heartbeat(answered, saved)
    /\ Afterwards("sleep")
    /\ UNCHANGED guardVars

(* The ticker of RunLoop. *)
Wake ==
    /\ At("sleep")
    /\ Afterwards("settings")
    /\ UNCHANGED <<upgradeVars, guardVars, synced>>

-----------------------------------------------------------------------------
(* What goes wrong in an upgrade, and what the user does to it, ends. *)
Counted(mishap) ==
    /\ mishaps' = mishaps + (IF mishap THEN 1 ELSE 0)
    /\ mishaps' <= World.mishaps

DaemonUpgrades(ok, saved) ==
    /\ Step(Daemon, ok, saved) \/ Exec
    /\ Counted(~(ok /\ saved))
    /\ LoopFollows /\ UNCHANGED world

HelperUpgrades(ok, saved) ==
    /\ HelperStep(ok, saved)
    /\ Counted(~(ok /\ saved))
    /\ LoopFollows /\ UNCHANGED world

CommandUpgrades(ok) ==
    /\ \E c \in World.upgraders \ {Daemon} : Step(c, ok, TRUE)
    /\ Counted(~ok)
    /\ LoopFollows /\ UNCHANGED world

(* The commands of the user, deaths, and what the control plane offers. *)
Upset ==
    /\ \/ \E c \in World.upgraders, v \in World.offers, force \in BOOLEAN :
            RunCommand(c, v, force)
       \/ \E p \in World.upgraders : Die(p)
       \/ HelperDies
    /\ Counted(TRUE)
    /\ LoopFollows /\ UNCHANGED world

Environment ==
    /\ (\E v \in World.offers : Publish(v)) \/ Tick \/ StartDaemon
    /\ Counted(FALSE)
    /\ LoopFollows /\ UNCHANGED world

Cycle(ok, saved) ==
    /\ \/ EnsureSettings(ok, saved)
       \/ SyncRules(ok)
       \/ Collect(ok)
       \/ Report(ok, saved)
       \/ Flush(ok)
       \/ Finish(ok, saved)
       \/ Wake
    /\ Counted(~saved)

Guarding ==
    /\ GuardNext(World.invocations, World.bundles)
    /\ UNCHANGED <<upgradeVars, cycleVars>>

DaemonNext ==
    \/ \E ok, saved \in BOOLEAN :
        \/ Cycle(ok, saved)
        \/ DaemonUpgrades(ok, saved)
        \/ HelperUpgrades(ok, saved)
    \/ \E ok \in BOOLEAN : CommandUpgrades(ok)
    \/ Upset \/ Environment \/ Guarding

(* Each process, and the service that starts the daemon, goes on; a          *)
(* collection and a heartbeat succeed again and again.                      *)
Fairness ==
    /\ WF_vars(\E ok, saved \in BOOLEAN : Cycle(ok, saved))
    /\ WF_vars(\E ok, saved \in BOOLEAN : DaemonUpgrades(ok, saved))
    /\ WF_vars(\E ok, saved \in BOOLEAN : HelperUpgrades(ok, saved))
    /\ WF_vars(\E ok \in BOOLEAN : CommandUpgrades(ok))
    /\ WF_vars(StartDaemon /\ Environment)
    /\ WF_vars(Tick /\ Environment)
    /\ SF_vars(Collect(TRUE) /\ Counted(FALSE))
    /\ SF_vars(Report(TRUE, TRUE) /\ Counted(FALSE))

DaemonSpec == DaemonInit /\ [][DaemonNext]_vars /\ Fairness

-----------------------------------------------------------------------------
(* The parts have their types, and the cycle is at one of its places. *)
TypeOK ==
    /\ UpgradeTypeOK /\ GuardTypeOK
    /\ world \in DOMAIN Worlds
    /\ step \in {"settings", "sync", "report", "flush", "degraded", "final", "sleep"}
    /\ synced \in BOOLEAN
    /\ mishaps \in 0 .. World.mishaps

(* The binary is gone for good, and only an installation brings it back. *)
Lost == file["agent"] = None

(* The daemon collects again and again, whether or not the control plane     *)
(* answers and whatever becomes of an upgrade, once its failures end: no     *)
(* failed heartbeat, rule or flush, and no upgrade that is tried, failed and *)
(* recorded, keeps it from its next collection.                             *)
CollectsOn == []<>((At("sync") /\ Synced) \/ Lost)

(* When failures end, the daemon comes to be a version that is not older     *)
(* than the one offered, with the launcher of that version on Windows: no   *)
(* failure record, half-done replacement or restart keeps it back forever,  *)
(* unless the binary is gone.                                               *)
Current ==
    /\ up[Daemon].pc # "down" /\ ~Precedes(up[Daemon].is, offer.target)
    /\ host = "windows" /\ up[Daemon].is = offer.target
            => file["launcher"] = offer.target

Upgraded == World.mode = "auto" => <>[](Current \/ Lost)
=============================================================================
