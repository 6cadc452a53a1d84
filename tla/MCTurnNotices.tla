---------------------------- MODULE MCTurnNotices ----------------------------
(* Small worlds, each with one thing in which the hooks can get in each       *)
(* other's way: turns, interrupted ones included, deaths, and clean-ups.     *)
EXTENDS TurnNotices

Quiet(agent, turns, tools) ==
    [agent |-> agent, live |-> {1}, left |-> {}, turns |-> turns, tools |-> tools,
     rules |-> FALSE, interrupts |-> TRUE, kept |-> << >>, old |-> {}, crashes |-> 0,
     time |-> 0, cleanups |-> FALSE]

(* In the worlds with clean-ups no turn is interrupted. *)
Swept(agent, turns, tools, time) ==
    [Quiet(agent, turns, tools) EXCEPT !.cleanups = TRUE, !.interrupts = FALSE, !.time = time]

(* What was left behind: a notice, a receipt, and one being consumed *)
Notice(s) == PathOf(s, Pending)
Receipt(s) == [PathOf(s, Pending) EXCEPT !.key = 1]
Claimed(s) == [Receipt(s) EXCEPT !.claim = 1]

MCPrompts == Sessions \X (0 .. MaxTurns)

(* Younger pages of a session come first among the names. *)
MCName == [p \in MCPrompts |-> (p[1] * (MaxTurns + 1)) + MaxTurns - p[2] + 1]

MCWorlds == {
    Quiet("claude_code", 2, 3),
    Quiet("claude_code", 3, 1),
    Quiet("codex", 3, 0),
    [Quiet("claude_code", 2, 1) EXCEPT !.rules = TRUE, !.kept = <<<<2, 1>>, <<2, 2>>>>],
    [Quiet("claude_code", 2, 1) EXCEPT !.crashes = 1],
    [Quiet("claude_code", 3, 0) EXCEPT !.crashes = 1],
    [Quiet("codex", 2, 0) EXCEPT !.crashes = 1],
    [Swept("claude_code", 2, 1, 1) EXCEPT !.left = {Receipt(1)}],
    Swept("codex", 2, 0, 1),
    [Swept("claude_code", 1, 0, 1) EXCEPT !.crashes = 1,
        !.left = {Notice(2), Receipt(2), Claimed(2)}],
    [Swept("codex", 1, 0, 1) EXCEPT !.kept = <<<<2, 1>>, <<2, 3>>>>, !.old = {<<2, 0>>}],
    [Swept("codex", 1, 0, 0) EXCEPT !.rules = TRUE, !.crashes = 1,
        !.kept = <<<<2, 1>>, <<2, 3>>>>, !.old = {<<2, 0>>, <<2, 2>>}]}

(* Two sessions, a turn in each *)
MCTwoLive == {[Quiet("claude_code", 1, 0) EXCEPT !.live = {1, 2}]}
=============================================================================
