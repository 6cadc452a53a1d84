---------------------------- MODULE CommandGuard ----------------------------
(***************************************************************************)
(* What the rules of the organization do to a command or a prompt.  The     *)
(* daemon keeps a copy of the policy, sensitive and context rules, each in  *)
(* a file of its own.  A hook that is asked about a command uses the copy,  *)
(* and asks the control plane only where there is none; `gesta-agent guard` *)
(* asks the control plane first.  A command that needs approval runs when a *)
(* grant is consumed for it, and asks for one otherwise.                    *)
(*                                                                         *)
(* Published rules have the number of their publication; 0 stands for none. *)
(***************************************************************************)
EXTENDS Integers, Sequences, FiniteSets, SequencesExt, Keep

CONSTANTS
    Bundles,        \* the rules, in the order of their publication
    Invocations,    \* the hooks and guards that run: [id, kind, agent, text]
    MaxMatchedRules, MaxContextContent,
    MaxGrants       \* bound: approvals given for one command

Kinds == {"hook", "guard", "prompt"}
Agents == {"codex", "claude_code"}

ASSUME GuardAssumption ==
    /\ Bundles \in Seq([policy : Seq([active : BOOLEAN, agent : STRING,
                                      on : SUBSET STRING, action : STRING]),
                        sensitive : SUBSET [on : SUBSET STRING, action : STRING],
                        context : Seq([agent : STRING, on : SUBSET STRING,
                                       size : Nat])])
    /\ Len(Bundles) > 0 /\ IsFiniteSet(Invocations)
    /\ \A i \in Invocations : i.kind \in Kinds /\ i.agent \in Agents
    /\ MaxMatchedRules \in Nat /\ MaxContextContent \in Nat /\ MaxGrants \in Nat

VARIABLES
    published,  \* the number of the rules that the control plane has now
    cache,      \* file -> the number of the rules in it
    fetched,    \* what the daemon got and has still to save: [file, rules]
    inv,        \* where each hook or guard is
    grants,     \* approvals that nobody has consumed, for each command
    granted,    \* all the approvals that were given
    requested   \* the commands approval was requested for

guardVars == <<published, cache, fetched, inv, grants, granted, requested>>

RuleFiles == <<"policy", "sensitive", "context">>
Caches == {RuleFiles[n] : n \in DOMAIN RuleFiles}

(* The hash of a command is of the agent's type and of its words. *)
CommandHash(i) == <<i.agent, i.text>>
Hashes == {CommandHash(i) : i \in Invocations}

-----------------------------------------------------------------------------
(* policyRuleAppliesToAgent: an old console wrote "codex" for every agent. *)
AppliesToAgent(rule, i) ==
    rule.active /\ rule.agent \in {"", "all", "all_agents", "codex", i.agent}

Matches(rules, i) ==
    LET policy == Bundles[rules].policy
    IN  Keeping(policy, {rule \in ToSet(policy) : AppliesToAgent(rule, i) /\ i.text \in rule.on})

(* Faulty variant: a later match overrides a block. *)
DecisionOfLast(rules, i) ==
    LET found == IF rules = 0 THEN << >> ELSE Matches(rules, i)
    IN  IF found = << >> THEN "allow" ELSE Last(found).action

(* applyRuleMatches: a block stays; of approvals and warnings the last one   *)
(* counts.  No rules at all allow everything.                               *)
Decision(rules, i) ==
    LET found == IF rules = 0 THEN << >> ELSE Matches(rules, i)
        saying(actions) == {n \in DOMAIN found : found[n].action \in actions}
        weaker == saying({"approval", "warn"})
    IN  IF saying({"block"}) # {} THEN "block"
        ELSE IF weaker = {} THEN "allow"
        ELSE found[CHOOSE n \in weaker : \A k \in weaker : k <= n].action

MatchedRule(rules, i) == rules # 0 /\ Matches(rules, i) # << >>

(* sensitiveFindingsShouldBlock *)
PromptBlocked(rules, i) ==
    \E rule \in Bundles[rules].sensitive : i.text \in rule.on /\ rule.action = "block"

(* ValidateRules refuses a bundle with empty or too long content. *)
ValidContext(rules) ==
    \A n \in DOMAIN Bundles[rules].context :
        Bundles[rules].context[n].size \in 1 .. MaxContextContent

(* Match takes the rules in the order of their priority, which is the order  *)
(* of `context`, and skips what does not fit; two of them are kept apart by *)
(* an empty line.                                                           *)
Separated(taken, rule) == taken.length + (IF taken.rules = << >> THEN 0 ELSE 2) + rule.size

(* Faulty variant: the empty line is not counted. *)
TakeUncounted(taken, rule) ==
    IF Len(taken.rules) >= MaxMatchedRules \/ taken.length + rule.size > MaxContextContent
    THEN [taken EXCEPT !.truncated = TRUE]
    ELSE [taken EXCEPT !.rules = Append(@, rule), !.length = Separated(taken, rule)]

Take(taken, rule) ==
    IF Len(taken.rules) >= MaxMatchedRules \/ Separated(taken, rule) > MaxContextContent
    THEN [taken EXCEPT !.truncated = TRUE]
    ELSE [taken EXCEPT !.rules = Append(@, rule), !.length = Separated(taken, rule)]

NoContext == [rules |-> << >>, length |-> 0, truncated |-> FALSE]

ContextMatch(rules, i) ==
    LET context == Bundles[rules].context
    IN  FoldLeft(Take, NoContext,
                 Keeping(context, {rule \in ToSet(context) :
                                    rule.agent \in {"all", i.agent} /\ i.text \in rule.on}))

-----------------------------------------------------------------------------
Waiting == [pc |-> "none", rules |-> 0, since |-> 0, decision |-> "allow",
            recorded |-> "none", grant |-> FALSE, context |-> NoContext]
Nothing == [file |-> 1, rules |-> 0]

GuardInit ==
    /\ published = 1
    /\ cache \in [Caches -> {0, 1}]
    /\ cache["context"] = 1 => ValidContext(1)
    /\ fetched = Nothing
    /\ inv = [i \in Invocations |-> Waiting]
    /\ grants = [h \in Hashes |-> 0] /\ granted = grants
    /\ requested = {}

PublishRules(last) ==
    /\ published < last
    /\ published' = published + 1
    /\ UNCHANGED <<cache, fetched, inv, grants, granted, requested>>

(* SyncRules: each file's rules are fetched and saved, one file after the    *)
(* other, and what goes wrong with one leaves the others alone.             *)
NextCache == fetched' = [file |-> fetched.file + 1, rules |-> 0]
Synced == fetched.file > Len(RuleFiles)

FetchRules(ok) ==
    /\ ~Synced /\ fetched.rules = 0
    /\ IF ok THEN fetched' = [fetched EXCEPT !.rules = published] ELSE NextCache
    /\ UNCHANGED <<published, cache, inv, grants, granted, requested>>

SaveRules(ok) ==
    LET file == RuleFiles[fetched.file]
    IN  /\ ~Synced /\ fetched.rules # 0
        /\ cache' = IF ok /\ (file = "context" => ValidContext(fetched.rules))
                    THEN [cache EXCEPT ![file] = fetched.rules] ELSE cache
        /\ NextCache
        /\ UNCHANGED <<published, inv, grants, granted, requested>>

-----------------------------------------------------------------------------
(* One hook or guard.  It takes the rules first. *)
Changed(known, changes) ==
    [f \in DOMAIN known |-> IF f \in DOMAIN changes THEN changes[f] ELSE known[f]]
Becomes(i, changes) == inv' = [inv EXCEPT ![i] = Changed(@, changes)]
Only(i, changes) ==
    /\ Becomes(i, changes)
    /\ UNCHANGED <<published, cache, fetched, grants, granted, requested>>

(* hookPolicyRules reads the cache, and fetches only if there is none;       *)
(* evaluateGuardCommandWithConfig fetches; a prompt needs the sensitive and *)
(* the context cache.                                                       *)
StartHook(i) ==
    /\ i.kind = "hook" /\ inv[i].pc = "none"
    /\ Only(i, [pc |-> IF cache["policy"] = 0 THEN "fetch" ELSE "decide",
                rules |-> cache["policy"], since |-> cache["policy"]])

StartGuard(i) ==
    /\ i.kind = "guard" /\ inv[i].pc = "none"
    /\ Only(i, [pc |-> "fetch", since |-> cache["policy"]])

(* The answer, or none within the time that the hook or the client waits. *)
Fetched(i, ok) ==
    /\ inv[i].pc = "fetch"
    /\ IF ok THEN Only(i, [pc |-> "decide", rules |-> published])
       ELSE Only(i, [pc |-> IF i.kind = "hook" THEN "decide" ELSE "cached"])

(* The guard goes back to the cache. *)
LoadPolicyCache(i) ==
    /\ inv[i].pc = "cached"
    /\ Only(i, [pc |-> "decide", rules |-> cache["policy"]])

(* What a decision hands to the queue, which may fail to keep it. *)
Recorded(i, decision) == IF MatchedRule(inv[i].rules, i) THEN decision ELSE "none"

(* processPreToolUse and runGuarded: a refusal is recorded at once, and so is *)
(* the hook's permission; the guard records its own once the command ended. *)
Decide(i) ==
    LET decision == Decision(inv[i].rules, i)
        now(place) == Only(i, [pc |-> place, decision |-> decision,
                               recorded |-> Recorded(i, decision)])
    IN  /\ inv[i].pc = "decide"
        /\ \/ /\ decision = "block" \/ (decision = "approval" /\ i.kind = "guard")
              /\ now("refused")
           \/ /\ decision = "approval" /\ i.kind = "hook"
              /\ Only(i, [pc |-> "consume", decision |-> decision])
           \/ /\ decision \in {"allow", "warn"} /\ i.kind = "hook"
              /\ now("ran")
           \/ /\ decision \in {"allow", "warn"} /\ i.kind = "guard"
              /\ Only(i, [pc |-> "running", decision |-> decision])

EndRun(i) ==
    /\ inv[i].pc = "running"
    /\ Only(i, [pc |-> "ran", recorded |-> Recorded(i, inv[i].decision)])

(* consumeApprovedPolicyGrant: the control plane takes the grant, but its    *)
(* answer may be lost or come after three seconds.                          *)
Consume(i, answered) ==
    LET h == CommandHash(i)
        approved == grants[h] > 0 /\ answered
    IN  /\ inv[i].pc = "consume"
        /\ \E arrived \in BOOLEAN :
            /\ answered => arrived
            /\ grants' = IF arrived /\ grants[h] > 0
                         THEN [grants EXCEPT ![h] = @ - 1] ELSE grants
        /\ Becomes(i, IF approved
                      THEN [pc |-> "ran", grant |-> TRUE,
                            recorded |-> Recorded(i, "allow")]
                      ELSE [pc |-> "request",
                            recorded |-> Recorded(i, "approval")])
        /\ UNCHANGED <<published, cache, fetched, granted, requested>>

(* createPolicyApprovalRequest: the hook denies whatever the answer is. *)
Request(i, arrived) ==
    /\ inv[i].pc = "request"
    /\ requested' = IF arrived THEN requested \cup {CommandHash(i)} ELSE requested
    /\ Becomes(i, [pc |-> "refused"])
    /\ UNCHANGED <<published, cache, fetched, grants, granted>>

Approve(h) ==
    /\ h \in requested /\ granted[h] < MaxGrants
    /\ grants' = [grants EXCEPT ![h] = @ + 1]
    /\ granted' = [granted EXCEPT ![h] = @ + 1]
    /\ UNCHANGED <<published, cache, fetched, inv, requested>>

(* processUserPromptSubmit: a prompt with a finding that blocks is refused;  *)
(* otherwise the context of the organization is added to it.  Without a      *)
(* cache there are no rules.  A Codex prompt of which the hook cannot tell   *)
(* that it belongs to the active turn (no transcript or turn, one that ended *)
(* or is not in the transcript's tail, another text), or whose request is    *)
(* not found in it, goes on as it is, with no check and nothing added.       *)
StartPrompt(i, verified) ==
    LET rules == cache["sensitive"]
        found == rules # 0 /\ \E rule \in Bundles[rules].sensitive : i.text \in rule.on
        blocked == rules # 0 /\ PromptBlocked(rules, i)
    IN  /\ i.kind = "prompt" /\ inv[i].pc = "none"
        /\ IF ~verified /\ i.agent = "codex" THEN Only(i, [pc |-> "unchecked"])
           ELSE Only(i, [pc |-> IF blocked THEN "refused" ELSE "context",
                         rules |-> rules, since |-> rules,
                         decision |-> IF blocked THEN "block" ELSE "allow",
                         recorded |-> IF found THEN "finding" ELSE "none"])

AddContext(i) ==
    /\ inv[i].pc = "context"
    /\ Only(i, [pc |-> "ran",
                context |-> IF cache["context"] = 0 THEN NoContext
                            ELSE ContextMatch(cache["context"], i)])

GuardNext(asked, last) ==
    \/ PublishRules(last)
    \/ \E i \in asked :
        \/ StartHook(i) \/ StartGuard(i) \/ LoadPolicyCache(i) \/ AddContext(i)
        \/ \E ok \in BOOLEAN : Fetched(i, ok) \/ Request(i, ok) \/ StartPrompt(i, ok)
        \/ Decide(i) \/ EndRun(i)
        \/ \E answered \in BOOLEAN : Consume(i, answered)
    \/ \E h \in Hashes : Approve(h)

-----------------------------------------------------------------------------
GuardTypeOK ==
    /\ published \in 1 .. Len(Bundles)
    /\ cache \in [Caches -> 0 .. published]
    /\ fetched \in [file : 1 .. Len(RuleFiles) + 1, rules : 0 .. published]
    /\ \A i \in Invocations :
        /\ inv[i].pc \in {"none", "fetch", "cached", "decide", "consume", "request",
                          "context", "unchecked", "running", "ran", "refused"}
        /\ inv[i].rules \in 0 .. published /\ inv[i].since \in 0 .. published
        /\ inv[i].decision \in {"allow", "warn", "approval", "block"}
        /\ inv[i].recorded \in {"none", "finding", "allow", "warn", "approval", "block"}
    /\ grants \in [Hashes -> 0 .. MaxGrants] /\ granted \in [Hashes -> 0 .. MaxGrants]
    /\ requested \subseteq Hashes

Ran(i) == inv[i].pc \in {"running", "ran"}

(* A command that runs was decided by rules at least as new as the copy that *)
(* the machine had when it was asked about, whatever was lost on the way to  *)
(* the control plane; none of them blocks it; if one asks for approval that  *)
(* no later warning replaces, a grant was consumed for this run alone.       *)
(* Hooks at once never run on one approval together.  A prompt that the hook *)
(* checked and let through is blocked by no rule of the copy there was; none *)
(* but a Codex prompt that could not be verified goes on unchecked.          *)
RunsPermitted ==
    /\ \A i \in Invocations : Ran(i) =>
        LET rules == inv[i].rules
            found == Matches(rules, i)
            saying(action) == {n \in DOMAIN found : found[n].action = action}
        IN  /\ rules >= inv[i].since
            /\ rules # 0 /\ i.kind # "prompt" =>
                /\ saying("block") = {}
                /\ \/ inv[i].grant
                   \/ \A n \in saying("approval") : \E k \in saying("warn") : k > n
            /\ rules # 0 /\ i.kind = "prompt" => ~PromptBlocked(rules, i)
    /\ \A i \in Invocations :
        inv[i].pc = "unchecked" => i.kind = "prompt" /\ i.agent = "codex"
    /\ \A h \in Hashes :
        Cardinality({i \in Invocations : CommandHash(i) = h /\ inv[i].grant})
            + grants[h] <= granted[h]

(* What is added to a prompt has at most MaxMatchedRules rules and, with the *)
(* empty lines between them, MaxContextContent characters, also when the     *)
(* rules that match are more; and a bundle that could exceed it by itself    *)
(* never replaces the copy there is.                                        *)
ContextFits ==
    \A i \in Invocations :
        LET rules == inv[i].context.rules
            sizes == [n \in DOMAIN rules |-> rules[n].size]
        IN  /\ Len(rules) <= MaxMatchedRules
            /\ FoldSeq(LAMBDA a, b : a + b, 0, sizes)
                   + (IF rules = << >> THEN 0 ELSE 2 * (Len(rules) - 1)) <= MaxContextContent
            /\ cache["context"] # 0 => ValidContext(cache["context"])
=============================================================================
