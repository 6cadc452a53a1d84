-------------------------- MODULE ClaudeTranscripts --------------------------
(***************************************************************************)
(* What src/pkg/daemon reads out of Claude Code's transcripts: the model     *)
(* invocations of a session and the turns they belong to.                    *)
(*                                                                         *)
(* A transcript is the sequence of its complete lines.  The identity of a    *)
(* record (the UUID of a prompt, the message ID of an answer) and its time   *)
(* are one number: no two records are written at the same time, and a record *)
(* copied to another transcript keeps both.  Of the four token tiers, input  *)
(* and output are one, and so are the two of the cache.  Every invocation is *)
(* of the same model and day: what the code keeps per model and day does not *)
(* mix them.  Synthetic answers and answers without usage are left out.      *)
(***************************************************************************)
EXTENDS Integers, Sequences, SequencesExt

(* No time, and no turn. *)
Never == 0
NoTurn == [id |-> Never, status |-> "none", started |-> Never, ended |-> Never, tokens |-> 0]

Prompt(time) ==
    [kind |-> "prompt", at |-> time, rest |-> 0, cache |-> 0, internal |-> FALSE, final |-> FALSE]

(* An answer of the model: isMeta or isSidechain, and whether nothing        *)
(* follows it in its turn (claudeAssistantContinues is false).               *)
Answer(time, use) ==
    [kind |-> "answer", at |-> time, rest |-> use.rest, cache |-> use.cache,
     internal |-> use.internal, final |-> use.final]

(* TotalTokens *)
Tokens(r) == r.rest + r.cache

-----------------------------------------------------------------------------
(* The accumulator: the turn in progress, the turns and the invocations. *)
Nothing == [active |-> NoTurn, turns |-> {}, invocations |-> {}]

(* Faulty variant: a turn in which nothing was used is kept. *)
FinishTurnAlways(acc, status) ==
    [acc EXCEPT !.active = NoTurn,
                !.turns = IF acc.active = NoTurn THEN @
                          ELSE @ \cup {[acc.active EXCEPT !.status = status]}]

(* finishClaudeTurn *)
FinishTurn(acc, status) ==
    [acc EXCEPT !.active = NoTurn,
                !.turns = IF acc.active.tokens = 0 THEN @
                          ELSE @ \cup {[acc.active EXCEPT !.status = status]}]

(* startClaudeTurn *)
StartTurn(acc, r) ==
    [FinishTurn(acc, "aborted") EXCEPT !.active = [NoTurn EXCEPT !.id = r.at, !.started = r.at]]

(* addClaudeAssistantTurnUsage *)
AddToTurn(acc, r) ==
    LET added == [acc EXCEPT !.active.ended = r.at, !.active.tokens = @ + Tokens(r)]
    IN  IF r.final THEN FinishTurn(added, "completed") ELSE added

(* addClaudeInternalTurnUsage *)
AddInternalTurn(acc, r) ==
    [acc EXCEPT !.turns = @ \cup {[id |-> r.at, status |-> "completed", started |-> r.at,
                                   ended |-> r.at, tokens |-> Tokens(r)]}]

(* add: an answer whose message was seen before does not count again. *)
AddRecord(acc, r) ==
    LET counted == [acc EXCEPT !.invocations = @ \cup {r}]
    IN  CASE r.kind = "prompt" -> StartTurn(acc, r)
          [] r.kind = "answer" /\ r.at \in {i.at : i \in acc.invocations} -> acc
          [] OTHER -> IF r.internal \/ acc.active = NoTurn
                      THEN AddInternalTurn(counted, r) ELSE AddToTurn(counted, r)

(* parseClaudeTranscript *)
Parse(transcript) == FoldLeft(AddRecord, Nothing, transcript)

(* mergeClaudeTurns keeps the longest version of a turn, and of two equally  *)
(* long ones a completed one.                                               *)
Supersedes(t, u) ==
    /\ t.id = u.id
    /\ \/ t.tokens > u.tokens
       \/ t.tokens = u.tokens /\ t.status = "completed" /\ u.status # "completed"

MergeTurns(turns) == {t \in turns : \A u \in turns : ~Supersedes(u, t)}

(* mergeClaudeSessionsByID: copies of an invocation are equal, so that their *)
(* union has each of them once.                                             *)
Merge(parsed) ==
    [turns |-> MergeTurns(UNION {p.turns : p \in parsed}),
     invocations |-> UNION {p.invocations : p \in parsed}]
=============================================================================
