-------------------------------- MODULE Fold --------------------------------
(***************************************************************************)
(* evaluate: the fold of engine.go that turns the rules of one snapshot and *)
(* one query into a Decision and its trace, under DenyOverrides or          *)
(* FirstMatch.  The loop over a query's grants (traceMatch) and the loop    *)
(* over the rules are state machines; one step tries one grant, or combines *)
(* one rule.  A condition is here the set of grants that satisfy it, as a   *)
(* predicate; how a condition tree computes it is module Condition.  The    *)
(* trace-off fold, evalVerdict, runs in lockstep in the variable off.       *)
(***************************************************************************)
EXTENDS Strategy, Naturals, Sequences

CONSTANTS Names,      \* rule names, which may collide
          Grants,
          Policies,   \* the rule sequences to evaluate
          Queries     \* the grant sequences a query may hold

VARIABLES rules, grants, strategy,   \* the arguments of evaluate
          next,       \* the rule the fold is at
          attempts,   \* traceMatch: the grants tried for it, with results
          acc,        \* the Decision being accumulated
          trace,      \* its RuleTraces
          off,        \* the accumulator of evalVerdict
          pc

args == <<rules, grants, strategy>>
vars == <<args, next, attempts, acc, trace, off, pc>>

Effects == {"allow", "deny"}
Rules == [name : Names, effect : Effects, cond : [Grants -> BOOLEAN]]

ASSUME FoldAssumption == /\ Policies \subseteq Seq(Rules)
                         /\ Queries \subseteq Seq(Grants)

Outcomes == {"no-match", "allow", "deny", "skipped"}
RuleRefs == [id : Nat, name : Names \cup {""}, effect : Effects]
Accs == [allow : BOOLEAN, locked : BOOLEAN, decided : BOOLEAN, decider : RuleRefs]

\* A rule's ID is its position, counted from 0 (parsePolicy).
refOf(j) == [id |-> j - 1, name |-> rules[j].name, effect |-> rules[j].effect]

\* matches: some grant of the query satisfies the rule's condition.
matches(j) == \E k \in DOMAIN grants : rules[j].cond[grants[k]]

combine(a, j, matched) == Combined(strategy, a, refOf(j), matched)

-----------------------------------------------------------------------------
Init == /\ rules \in Policies
        /\ grants \in Queries
        /\ strategy \in Strategies
        /\ next = 1
        /\ attempts = <<>>
        /\ acc = DefaultDeny
        /\ trace = <<>>
        /\ off = DefaultDeny
        /\ pc = "fold"

\* traceMatch stops at the first satisfying grant.
Satisfied == attempts # <<>> /\ attempts[Len(attempts)].result

\* One iteration of traceMatch.
TryGrant ==
    /\ pc = "fold"
    /\ next <= Len(rules)
    /\ ~Satisfied
    /\ Len(attempts) < Len(grants)
    /\ LET g == grants[Len(attempts) + 1]
       IN attempts' = Append(attempts, [grant |-> g, result |-> rules[next].cond[g]])
    /\ UNCHANGED <<args, next, acc, trace, off, pc>>

\* Mutant: a rule is done after its first attempt.
CombineEarly ==
    /\ pc = "fold"
    /\ next <= Len(rules)
    /\ attempts # <<>> \/ grants = <<>>
    /\ acc' = combine(acc, next, Satisfied)
    /\ off' = combine(off, next, matches(next))
    /\ trace' = Append(trace, [id |-> next - 1,
                               outcome |-> Outcome(acc, refOf(next), Satisfied),
                               decisive |-> acc'.locked /\ ~acc.locked,
                               attempts |-> attempts])
    /\ next' = next + 1
    /\ attempts' = <<>>
    /\ UNCHANGED <<args, pc>>

\* The rest of one iteration of evaluate, and one of evalVerdict.
Combine ==
    /\ pc = "fold"
    /\ next <= Len(rules)
    /\ Satisfied \/ Len(attempts) = Len(grants)
    /\ acc' = combine(acc, next, Satisfied)
    /\ off' = combine(off, next, matches(next))
    /\ trace' = Append(trace, [id |-> next - 1,
                               outcome |-> Outcome(acc, refOf(next), Satisfied),
                               decisive |-> acc'.locked /\ ~acc.locked,
                               attempts |-> attempts])
    /\ next' = next + 1
    /\ attempts' = <<>>
    /\ UNCHANGED <<args, pc>>

Finish == /\ pc = "fold"
          /\ next > Len(rules)
          /\ pc' = "done"
          /\ UNCHANGED <<args, next, attempts, acc, trace, off>>

Next == TryGrant \/ Combine \/ Finish

Spec == Init /\ [][Next]_vars

-----------------------------------------------------------------------------
(* What Explain reads off the trace. *)

\* RuleTrace.Matched
Matched(rt) == rt.attempts # <<>> /\ rt.attempts[Len(rt.attempts)].result

NameOf(rt) == rules[rt.id + 1].name

\* The names a story lists, in the order of the trace: each at its entry's place.
Entries(o) == {k \in DOMAIN trace : trace[k].outcome = o}
Decisive == {k \in DOMAIN trace : trace[k].decisive}
Named(S) == [k \in S |-> NameOf(trace[k])]
LastOf(S) == {k \in S : \A l \in S : l <= k}

\* Mutant: the story of an allow names the first rule that permitted.
storyOfFirst ==
    LET permitted == Entries("allow")
        denied == Entries("deny")
    IN CASE acc.allow ->
              [says |-> "permitted", over |-> Named({}),
               who |-> Named({k \in permitted : \A l \in permitted : k <= l})]
         [] ~acc.allow /\ denied # {} /\ permitted # {} ->
              [says |-> "denied, overriding", over |-> Named(permitted), who |-> Named(denied)]
         [] ~acc.allow /\ denied # {} /\ permitted = {} ->
              [says |-> "denied", over |-> Named({}), who |-> Named(denied)]
         [] OTHER -> [says |-> "default-deny", over |-> Named({}), who |-> Named({})]

\* strategyStory, as the clause it chooses and the names it fills in: who decided,
\* and whose permit that overrode.
strategyStory ==
    LET permitted == Entries("allow")
        denied == Entries("deny")
    IN CASE acc.allow ->
              [says |-> "permitted", over |-> Named({}),
               who |-> Named(LastOf(IF Decisive # {} THEN Decisive ELSE permitted))]
         [] ~acc.allow /\ denied # {} /\ permitted # {} ->
              [says |-> "denied, overriding", over |-> Named(permitted), who |-> Named(denied)]
         [] ~acc.allow /\ denied # {} /\ permitted = {} ->
              [says |-> "denied", over |-> Named({}), who |-> Named(denied)]
         [] OTHER -> [says |-> "default-deny", over |-> Named({}), who |-> Named({})]

\* RuleTrace.deciderCond; Explain takes the grant of what it returns.
Nil == [result |-> FALSE]
deciderCond(rt) == IF Matched(rt) THEN rt.attempts[Len(rt.attempts)] ELSE Nil

\* Mutant: a match is explained by the first grant tried.
explainRuleFirst(rt) ==
    CASE rt.outcome = "skipped" -> <<>>
      [] rt.outcome \in Effects -> <<IF Matched(rt) THEN rt.attempts[1] ELSE Nil>>
      [] OTHER -> rt.attempts

\* The attempts a rule's lines show.
explainRule(rt) ==
    CASE rt.outcome = "skipped" -> <<>>
      [] rt.outcome \in Effects -> <<deciderCond(rt)>>
      [] OTHER -> rt.attempts

outcomeMark(rt) == CASE rt.outcome = "allow" -> "yes"
                     [] rt.outcome = "deny" -> "no"
                     [] OTHER -> "dot"

decisiveTag(rt) == CASE rt.decisive -> "decisive"
                     [] ~rt.decisive /\ rt.outcome = "allow" -> "provisional"
                     [] OTHER -> ""

Line(rt) == [mark |-> outcomeMark(rt), outcome |-> rt.outcome, tag |-> decisiveTag(rt),
             name |-> NameOf(rt), shows |-> explainRule(rt)]
Explain == [verdict |-> IF acc.allow THEN "ALLOW" ELSE "DENY", reason |-> reasonFor(acc),
            lines |-> [k \in DOMAIN trace |-> Line(trace[k])],
            story |-> IF trace = <<>>
                      THEN [says |-> "no rules evaluated", over |-> Named({}), who |-> Named({})]
                      ELSE strategyStory]

-----------------------------------------------------------------------------
(* Properties. *)

\* Types of the fold's variables; the accumulators hold known rules only.
TypeOK ==
    /\ rules \in Seq(Rules)
    /\ grants \in Seq(Grants)
    /\ strategy \in Strategies
    /\ next \in 1 .. Len(rules) + 1
    /\ attempts \in Seq([grant : Grants, result : BOOLEAN])
    /\ acc \in Accs
    /\ trace \in Seq([id : Nat, outcome : Outcomes, decisive : BOOLEAN,
                      attempts : Seq([grant : Grants, result : BOOLEAN])])
    /\ off \in Accs
    /\ pc \in {"fold", "done"}

Hits(e) == {j \in DOMAIN rules : matches(j) /\ rules[j].effect = e}

\* engine.go, DenyOverrides: whatever the order of the rules, the query is allowed
\* iff some allow rule matches and no deny rule does; the decider is the first
\* matching deny, else the last matching allow.
DenyOverridesIsVeto ==
    pc = "done" /\ strategy = "DenyOverrides" =>
        /\ acc.allow <=> Hits("allow") # {} /\ Hits("deny") = {}
        /\ acc.decided <=> Hits("allow") \cup Hits("deny") # {}
        /\ \A j \in Hits("deny") :
              (\A k \in Hits("deny") : j <= k) => acc.decider = refOf(j)
        /\ \A j \in Hits("allow") :
              Hits("deny") = {} /\ (\A k \in Hits("allow") : k <= j) => acc.decider = refOf(j)

\* engine.go, FirstMatch: "the first matching rule decides, full stop".
FirstMatchDecides ==
    pc = "done" /\ strategy = "FirstMatch" =>
        /\ acc.decided <=> \E j \in DOMAIN rules : matches(j)
        /\ acc.allow => acc.decided
        /\ \A j \in DOMAIN rules :
              matches(j) /\ (\A k \in 1 .. j - 1 : ~matches(k)) =>
                  acc.decider = refOf(j) /\ (acc.allow <=> rules[j].effect = "allow")

\* engine.go, evalVerdict: tracing has no effect on the decision.
TraceOffAgrees == acc = off

\* Entry k agrees with its attempts and with the entries before it.
Explained(k) ==
    /\ trace[k].id = k - 1
    /\ trace[k].outcome \in Effects =>
          Matched(trace[k]) /\ trace[k].outcome = rules[k].effect
    /\ trace[k].outcome = "no-match" =>
          /\ Len(trace[k].attempts) = Len(grants)
          /\ \A a \in DOMAIN trace[k].attempts :
                /\ trace[k].attempts[a].grant = grants[a]
                /\ ~trace[k].attempts[a].result
    /\ trace[k].outcome = "skipped" <=> \E l \in 1 .. k - 1 : trace[l].decisive

\* trace.go, explainRule and outcomes: a rule reported as deciding has a satisfying
\* last attempt (which deciderCond dereferences), one reported as not matching has
\* a failed attempt for every grant, and one skipped follows a locked verdict.
TraceExplains == \A k \in DOMAIN trace : Explained(k)

\* The allow rules that matched before the decider: its id counts from 0.
Overridden == {j \in Hits("allow") : j <= acc.decider.id}

\* The verdict, the decider, the reason, the outcomes and the story told of them
\* are accounts of one event: they name the same rule and the same effect, and the
\* story of a denial names every permit it overrode and nothing else.
AccountsAgree ==
    pc = "done" =>
        /\ acc.allow <=> acc.decided /\ acc.decider.effect = "allow"
        /\ reasonFor(acc)[1] = (CASE ~acc.decided -> "default-deny"
                                  [] acc.decided /\ acc.allow -> "allowed"
                                  [] OTHER -> "denied")
        /\ strategyStory.says = (CASE ~acc.decided -> "default-deny"
                                    [] acc.decided /\ acc.allow -> "permitted"
                                    [] acc.decided /\ ~acc.allow /\ Overridden = {} -> "denied"
                                    [] OTHER -> "denied, overriding")
        /\ strategyStory.who = [k \in IF acc.decided THEN {acc.decider.id + 1} ELSE {}
                                   |-> acc.decider.name]
        /\ strategyStory.says = "denied, overriding" =>
              strategyStory.over = [j \in Overridden |-> rules[j].name]

\* trace.go, Disclosure, "the complete rationale": the lines of Explain suffice to
\* check the verdict by hand.  It is ALLOW iff a line marks a decisive permit, or a
\* provisional one that no marked denial overrides; each match shows a grant that
\* satisfies its rule, each non-match the failure of every grant of the query; and
\* the first rule skipped comes after one tagged as decisive.
RationaleSuffices ==
    pc = "done" =>
        LET line == Explain.lines
            Marked(m, t) == \E k \in DOMAIN line : line[k].mark = m /\ line[k].tag = t
            Skipped(k) == k > 0 /\ line[k].outcome = "skipped"
        IN /\ Explain.verdict = "ALLOW" <=>
                  \/ Marked("yes", "decisive")
                  \/ Marked("yes", "provisional") /\ ~Marked("no", "decisive")
           /\ \A k \in DOMAIN line :
                 Skipped(k) => Skipped(k - 1) \/ line[k - 1].tag = "decisive"
           /\ \A k \in DOMAIN line :
                 IF line[k].outcome = "no-match"
                 THEN /\ [a \in DOMAIN grants |-> line[k].shows[a].grant] = grants
                      /\ \A a \in DOMAIN grants : ~rules[k].cond[grants[a]]
                 ELSE \A a \in DOMAIN line[k].shows :
                         line[k].shows[a].result /\ rules[k].cond[line[k].shows[a].grant]
=============================================================================
