---- MODULE MCDaemonCycle ----
(* Two prereleases and a release; an upgrade on either system, with and without a     *)
(* command of the user beside it, or rules that change while they are applied.        *)
EXTENDS DaemonCycle

CONSTANTS Command

Version(core, label, n) == [core |-> core, label |-> label, n |-> n]
MCReleases == <<Version(1, 1, 9), Version(1, 1, 10), Version(1, 0, 0)>>
MCUpgraders == {Daemon, Command}

Rule(active, on, action) == [active |-> active, agent |-> "codex", on |-> on, action |-> action]
Context(size) == [agent |-> "all", on |-> {"ask"}, size |-> size]
MCBundles == <<
    [policy |-> <<Rule(TRUE, {"push"}, "approval"), Rule(FALSE, {"push"}, "warn")>>,
     sensitive |-> {},
     context |-> <<Context(1), Context(2), Context(1)>>],
    [policy |-> <<Rule(TRUE, {"rm"}, "block"), Rule(TRUE, {"rm", "push"}, "warn")>>,
     sensitive |-> {[on |-> {"ask"}, action |-> "block"]},
     context |-> <<Context(5)>>] >>

Asked(id, kind, text) == [id |-> id, kind |-> kind, agent |-> "codex", text |-> text]
Hooks == {Asked(1, "hook", "push"), Asked(2, "hook", "push")}
Pushing == Asked(3, "guard", "push")
Removing == Asked(4, "hook", "rm")
Guarded == Asked(5, "guard", "rm")
Prompting == {Asked(6, "prompt", "ask"), [Asked(7, "prompt", "ask") EXCEPT !.agent = "claude_code"]}
MCInvocations == Hooks \cup {Pushing, Removing, Guarded} \cup Prompting

Unasked(system, upgraders, offers) ==
    [host |-> system, mode |-> "auto", offers |-> offers, upgraders |-> upgraders,
     copies |-> {1}, bundles |-> 1, invocations |-> {}, mishaps |-> 2]
Asking(invocations, copy, bundles) ==
    [host |-> "unix", mode |-> "off", offers |-> {}, upgraders |-> {Daemon},
     copies |-> {copy}, bundles |-> bundles, invocations |-> invocations, mishaps |-> 0]
MCWorlds == <<
    Unasked("unix", {Daemon}, {MCReleases[2], MCReleases[3]}),
    Unasked("unix", {Daemon, Command}, {MCReleases[2]}),
    Unasked("windows", {Daemon, Command}, {MCReleases[2]}),
    Asking(Hooks, 1, 1), Asking({Pushing}, 0, 1), Asking({Removing}, 0, 2),
    Asking({Guarded}, 0, 2), Asking(Prompting, 0, 2) >>
====
