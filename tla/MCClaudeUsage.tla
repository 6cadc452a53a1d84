----------------------------- MODULE MCClaudeUsage -----------------------------
(* A session with two transcripts, or with a fork. *)
EXTENDS ClaudeUsage, TLC

CONSTANTS parent, child, file1, file2

MCSessions == {parent, child}
Forked == file1 :> parent @@ file2 :> child
Resumed == file1 :> parent @@ file2 :> parent
MCLayouts == {Forked, Resumed}

(* The hash of the fork comes first: it has the lower rank when both are new. *)
MCHashRank == parent :> 2 @@ child :> 1

Use(cache, internal, final) ==
    [rest |-> 1, cache |-> cache, internal |-> internal, final |-> final]

MCAnswers == {Use(0, FALSE, TRUE), Use(0, FALSE, FALSE), Use(0, TRUE, TRUE)}

(* Answers with and without use of the cache *)
CachedAnswers == {Use(0, FALSE, TRUE), Use(1, FALSE, TRUE)}

OneTurn == file1 :> <<Prompt(1), Answer(2, Use(0, FALSE, TRUE))>> @@ file2 :> << >>
NoTurns == file1 :> << >> @@ file2 :> << >>
MCOldAgents == {OneTurn}
MCRunningAgents == {NoTurns, OneTurn}
NoAgents == {}
================================================================================
