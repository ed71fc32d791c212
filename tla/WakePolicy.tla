------------------------------ MODULE WakePolicy ------------------------------
(***************************************************************************)
(* Which messages wake an agent: the agent's channel policy, a base rule   *)
(* and overrides for channel patterns (config/agents.ts), the decision     *)
(* about one message (agents/channel-policy.ts), and the commands that set *)
(* and clear parts of the policy (agents/channel-policy-edit.ts).          *)
(***************************************************************************)
EXTENDS Naturals, Sequences, FiniteSets, SequencesExt, FiniteSetsExt

CONSTANTS
  Me,          \* the agent
  Others,      \* other agents
  Places,      \* channels
  Patterns,
  Matches,     \* Matches[p]: the channels pattern p matches
  Values       \* what one set command gives: partial rules

VARIABLE policy      \* agents[].channelPolicy: [base, overrides]; overrides: <<[pattern, rule]>>

Nobody == "nobody"
Unset == "unset"
Fields == {"mode", "senders", "actorIds"}
EmptyRule == [mode |-> Unset, senders |-> {}, actorIds |-> {}]
Given(rule, f) == rule[f] # EmptyRule[f]

----------------------------------------------------------------------------
(* Resolving.                                                              *)

\* resolveChannelPolicyRule: a rule without a mode has mode "all".
Resolved(rule) == IF rule.mode = Unset THEN [rule EXCEPT !.mode = "all"] ELSE rule

Matching(p, c) == SelectSeq(p.overrides, LAMBDA o : c \in Matches[o.pattern])

OverAll(rule, override) == override          \* mutant: filters do not come through
\* Later overrides come over earlier ones, filter by filter.
Over(rule, override) ==
  [mode |-> override.mode,
   senders |-> IF override.senders # {} THEN override.senders ELSE rule.senders,
   actorIds |-> IF override.actorIds # {} THEN override.actorIds ELSE rule.actorIds]

Effective(p, c) ==
  FoldLeft(LAMBDA rule, o : Over(rule, Resolved(o.rule)), Resolved(p.base), Matching(p, c))

----------------------------------------------------------------------------
(* Deciding.                                                               *)

\* A message: its sender's kind and actor, whom it is addressed to, whom it
\* mentions; notice: it reports a change of addressing.
Addressed(m) == m.addressed = Me
Mentioned(m) == m.mentions = {Me}
SenderMatches(rule, m) ==
  /\ rule.senders # {} => m.kind \in rule.senders
  /\ rule.actorIds # {} => m.actor \in rule.actorIds
OptedAny(rule, m) == rule.mode = "all"       \* mutant: mode "all" opts in
OptedIn(rule, m) == "agent" \in rule.senders \/ m.actor \in rule.actorIds

ModeWakes(mode, m) ==
  CASE mode = "none" -> FALSE
    [] mode = "addressed" -> Addressed(m)
    [] mode = "mentions" -> Addressed(m) \/ Mentioned(m)
    [] mode = "all" -> TRUE

\* evaluateAgentChannelPolicy.
Wakes(p, c, m, visible) ==
  LET rule == Effective(p, c) IN
    /\ visible
    /\ ~(m.kind = "agent" /\ m.actor = Me)
    /\ ~m.notice
    /\ m.addressed \in {Nobody, Me}
    /\ SenderMatches(rule, m)
    /\ m.kind = "agent" => Addressed(m) \/ Mentioned(m) \/ OptedIn(rule, m)
    /\ ModeWakes(rule.mode, m)

----------------------------------------------------------------------------
(* Editing.                                                                *)

EditedRule(rule, values, clear) ==
  [f \in Fields |-> IF f \in clear THEN EmptyRule[f]
                    ELSE IF Given(values, f) THEN values[f] ELSE rule[f]]

RuleOf(p, pattern) ==
  LET found == SelectSeq(p.overrides, LAMBDA o : o.pattern = pattern)
  IN IF found = <<>> THEN EmptyRule ELSE found[1].rule

PutFirst(overrides, pattern, rule) ==        \* mutant: an edited pattern comes first
  LET others == SelectSeq(overrides, LAMBDA x : x.pattern # pattern)
  IN IF rule = EmptyRule THEN others ELSE <<[pattern |-> pattern, rule |-> rule]>> \o others
\* A pattern keeps its place; a new one comes last; an empty rule goes.
Put(overrides, pattern, rule) ==
  LET o == [pattern |-> pattern, rule |-> rule] IN
    IF rule = EmptyRule THEN SelectSeq(overrides, LAMBDA x : x.pattern # pattern)
    ELSE IF \E k \in DOMAIN overrides : overrides[k].pattern = pattern
         THEN [k \in DOMAIN overrides |-> IF overrides[k].pattern = pattern THEN o ELSE overrides[k]]
         ELSE Append(overrides, o)

Edited(p, pattern, values, clear) ==
  IF pattern = "base"
  THEN [p EXCEPT !.base = EditedRule(@, values, clear)]
  ELSE [p EXCEPT !.overrides = Put(@, pattern, EditedRule(RuleOf(p, pattern), values, clear))]

\* set gives one field or more; clear takes some, and a pattern without fields
\* removes the override.
Targets == Patterns \union {"base"}
Clears == {{f} : f \in Fields} \union {Fields}

SetPolicy ==
  \E pattern \in Targets, values \in Values : policy' = Edited(policy, pattern, values, {})
ClearPolicy ==
  \E pattern \in Targets, clear \in Clears : policy' = Edited(policy, pattern, EmptyRule, clear)

Init == policy = [base |-> EmptyRule, overrides |-> <<>>]
Next == SetPolicy \/ ClearPolicy
Spec == Init /\ [][Next]_policy

----------------------------------------------------------------------------
(* Properties.                                                             *)

Arrivals ==
  [kind : {"human", "agent"}, actor : Others \union {Me, "person"}, addressed : Others \union {Me, Nobody},
   mentions : SUBSET (Others \union {Me}), notice : {FALSE}]

\* Agents cannot keep waking one another by chance: a post of another agent
\* that names nobody, or more than one agent, wakes this agent only in a
\* channel whose last word on senders, or on actors, lets that agent in; and a
\* message addressed to another agent never wakes this one.
LastGiven(p, c, f) ==
  LET rules == <<p.base>> \o [k \in DOMAIN Matching(p, c) |-> Matching(p, c)[k].rule]
      given == SelectSeq(rules, LAMBDA r : Given(r, f))
  IN IF given = <<>> THEN {} ELSE Last(given)[f]

LoopGuarded ==
  \A c \in Places, m \in Arrivals :
    Wakes(policy, c, m, TRUE) =>
      /\ m.kind = "agent" /\ m.addressed # Me /\ m.mentions # {Me} =>
           "agent" \in LastGiven(policy, c, "senders") \/ m.actor \in LastGiven(policy, c, "actorIds")
      /\ m.addressed \in {Nobody, Me}
      /\ ~(m.kind = "agent" /\ m.actor = Me)

\* An edit reaches as far as its pattern: channels it does not match keep
\* their policy, and in a channel it matches the value it set is in force,
\* unless an override that stands later matches too; the other filters of the
\* channel stay as they were. (Its mode does not: an override without a mode means "all".)
LocalAt(c, at, set, clear) ==
  LET before == Effective(policy, c)
      edited == Edited(policy, at, set, clear)
      after == Effective(edited, c)
      last == at # "base" /\ Matching(edited, c) # <<>> /\ Last(Matching(edited, c)).pattern = at
  IN /\ at # "base" /\ c \notin Matches[at] => after = before
     /\ \A f \in Fields : last /\ Given(set, f) => after[f] = set[f]
     /\ \A f \in Fields \ {"mode"} : ~Given(set, f) /\ f \notin clear => after[f] = before[f]
EditsLocal ==
  \A c \in Places, at \in Targets :
    /\ \A values \in Values : LocalAt(c, at, values, {})
    /\ \A clear \in Clears : LocalAt(c, at, EmptyRule, clear)
=============================================================================
