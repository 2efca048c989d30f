----------------------------- MODULE FoldProofs -----------------------------
(* Proofs about Fold for every policy and every query.                     *)
EXTENDS Fold, SequenceTheorems, TLAPS

\* traceMatch so far: it tried a prefix of the grants, and each but the last failed.
Tried ==
    /\ Len(attempts) <= Len(grants)
    /\ attempts # <<>> => next <= Len(rules)
    /\ \A a \in 1 .. Len(attempts) :
          /\ attempts[a].grant = grants[a]
          /\ attempts[a].result = rules[next].cond[grants[a]]
          /\ a < Len(attempts) => ~attempts[a].result

\* The fold so far is the verdict of the rules before next: decided by rule j.
DecidedBy(j) ==
    /\ matches(j)
    /\ acc.decider = refOf(j)
    /\ acc.allow <=> rules[j].effect = "allow"
    /\ strategy = "FirstMatch" => acc.locked /\ \A k \in 1 .. j - 1 : ~matches(k)
    /\ strategy = "DenyOverrides" =>
          /\ acc.locked <=> rules[j].effect = "deny"
          /\ rules[j].effect = "deny" =>
                \A k \in 1 .. j - 1 : matches(k) => rules[k].effect = "allow"
          /\ rules[j].effect = "allow" =>
                \A k \in 1 .. next - 1 : matches(k) => rules[k].effect = "allow" /\ k <= j
Verdict ==
    /\ acc.decided => \E j \in 1 .. next - 1 : DecidedBy(j)
    /\ ~acc.decided => acc = DefaultDeny /\ \A k \in 1 .. next - 1 : ~matches(k)

\* The trace so far has an entry per rule before next.
Traced ==
    /\ Len(trace) = next - 1
    /\ acc.locked <=> \E l \in 1 .. next - 1 : trace[l].decisive

\* Entry k of the trace: what the loop over the grants found of rule k, and what the
\* accumulator made of it.
Entry(k) ==
    /\ Len(trace[k].attempts) <= Len(grants)
    /\ \A a \in 1 .. Len(trace[k].attempts) :
          /\ trace[k].attempts[a].grant = grants[a]
          /\ trace[k].attempts[a].result = rules[k].cond[grants[a]]
    /\ trace[k].outcome # "skipped" => (trace[k].outcome \in Effects <=> matches(k))
    /\ trace[k].outcome \in Effects => acc.decided /\ k <= acc.decider.id + 1
    /\ trace[k].outcome = "deny" => trace[k].decisive
    /\ trace[k].decisive => trace[k].outcome \in Effects /\ k = acc.decider.id + 1

\* The trace so far is the record of how acc came about.
Recorded ==
    /\ \A k \in 1 .. next - 1 : Entry(k)
    /\ acc.decided => trace[acc.decider.id + 1].outcome = acc.decider.effect

Ended == pc = "done" => next = Len(rules) + 1

FInv == /\ TypeOK /\ Tried /\ Verdict /\ TraceOffAgrees
        /\ Traced /\ TraceExplains /\ Recorded /\ Ended

\* A fold starts undecided, with nothing tried and nothing traced.
LEMMA FInitInv == Init => FInv
<1> SUFFICES ASSUME Init PROVE FInv
  OBVIOUS
<1> USE DEF Init
<1>1. rules \in Seq(Rules) /\ grants \in Seq(Grants)
  BY FoldAssumption
<1>2. Len(rules) \in Nat /\ Len(grants) \in Nat
  BY <1>1
<1>3. DefaultDeny \in Accs
  BY DEF DefaultDeny, NoRule, Accs, RuleRefs, Effects
<1>4. TypeOK
  BY <1>1, <1>2, <1>3 DEF TypeOK
<1>5. Tried /\ Ended /\ TraceOffAgrees /\ TraceExplains
  BY <1>2 DEF Tried, Ended, TraceOffAgrees, TraceExplains
<1>6. Verdict /\ Traced /\ Recorded
  BY DEF Verdict, Traced, Recorded, DefaultDeny
<1> QED BY <1>4, <1>5, <1>6 DEF FInv

\* Satisfied looks at the last attempt, if there is one.
LEMMA SatisfiedIsLast ==
    ASSUME TypeOK
    PROVE  /\ Len(attempts) \in Nat
           /\ Satisfied <=> Len(attempts) > 0 /\ attempts[Len(attempts)].result
           /\ \A a \in 1 .. Len(attempts) : attempts[a].result \in BOOLEAN
<1>1. attempts \in Seq([grant : Grants, result : BOOLEAN])
  BY DEF TypeOK
<1>2. /\ Len(attempts) \in Nat
      /\ attempts # <<>> <=> Len(attempts) > 0
  BY <1>1, EmptySeq
<1>3. \A a \in 1 .. Len(attempts) : attempts[a] \in [grant : Grants, result : BOOLEAN]
  BY <1>1, ElementOfSeq
<1> QED BY <1>2, <1>3 DEF Satisfied

\* A step that only tries a grant.
LEMMA TryGrantInv == FInv /\ TryGrant => FInv'
<1> SUFFICES ASSUME FInv, TryGrant PROVE FInv'
  OBVIOUS
<1>1. /\ UNCHANGED <<rules, grants, strategy, next, acc, trace, off, pc>>
      /\ next \in 1 .. Len(rules)
      /\ ~Satisfied
      /\ Len(attempts) + 1 \in 1 .. Len(grants)
  BY DEF TryGrant, args, FInv, TypeOK
<1> DEFINE g == grants[Len(attempts) + 1]
           t == [grant |-> g, result |-> rules[next].cond[g]]
<1>2. g \in Grants /\ rules[next] \in Rules
  BY <1>1 DEF FInv, TypeOK
<1>3. t \in [grant : Grants, result : BOOLEAN]
  BY <1>2 DEF Rules
<1>4. attempts' = Append(attempts, t)
  BY DEF TryGrant
<1>5. TypeOK'
  BY <1>1, <1>3, <1>4 DEF FInv, TypeOK
<1>6. Tried'
  <2>1. /\ Len(attempts') = Len(attempts) + 1
        /\ attempts'[Len(attempts) + 1] = t
        /\ \A a \in 1 .. Len(attempts) : attempts'[a] = attempts[a]
        /\ Len(attempts) \in Nat
    BY <1>3, <1>4 DEF FInv, TypeOK
  <2>2. \A a \in 1 .. Len(attempts) : ~attempts[a].result
    BY <1>1, SatisfiedIsLast DEF FInv, Tried
  <2>3. t.grant = g /\ t.result = rules[next].cond[g]
    OBVIOUS
  <2> QED BY <1>1, <2>1, <2>2, <2>3 DEF FInv, Tried
<1>7. Verdict'
  BY <1>1 DEF FInv, Verdict, DecidedBy, matches, refOf
<1>8. TraceOffAgrees' /\ Traced' /\ Ended'
  BY <1>1 DEF FInv, TraceOffAgrees, Traced, Ended
<1>9. TraceExplains'
  BY <1>1 DEF FInv, TraceExplains, Explained, Matched
<1>10. Recorded'
  BY <1>1 DEF FInv, Recorded, Entry, matches
<1> QED BY <1>5, <1>6, <1>7, <1>8, <1>9, <1>10 DEF FInv

\* traceMatch returns what matches returns.
LEMMA TraceMatchIsMatches ==
    ASSUME FInv, next \in 1 .. Len(rules), Satisfied \/ Len(attempts) = Len(grants)
    PROVE  Satisfied <=> matches(next)
<1>1. /\ grants \in Seq(Grants) /\ Len(grants) \in Nat /\ DOMAIN grants = 1 .. Len(grants)
      /\ TypeOK
  BY LenProperties DEF FInv, TypeOK
<1>2. CASE Satisfied
  <2>1. Len(attempts) \in 1 .. Len(grants) /\ attempts[Len(attempts)].result
    BY <1>1, <1>2, SatisfiedIsLast DEF FInv, Tried
  <2>2. rules[next].cond[grants[Len(attempts)]]
    BY <2>1, <1>1, SatisfiedIsLast DEF FInv, Tried
  <2> QED BY <1>1, <1>2, <2>1, <2>2 DEF matches
<1>3. CASE ~Satisfied
  <2>1. Len(attempts) = Len(grants)
    BY <1>3
  <2>2. \A a \in 1 .. Len(grants) : ~attempts[a].result
    BY <1>1, <1>3, <2>1, SatisfiedIsLast DEF FInv, Tried
  <2>3. \A a \in 1 .. Len(grants) : ~rules[next].cond[grants[a]]
    BY <1>1, <2>1, <2>2 DEF FInv, Tried
  <2> QED BY <1>1, <1>3, <2>3 DEF matches
<1> QED BY <1>2, <1>3

\* Combining one rule keeps the accumulator the verdict of the rules folded.
LEMMA CombineVerdict == FInv /\ Combine => acc' \in Accs /\ Verdict' /\ TraceOffAgrees'
<1> SUFFICES ASSUME FInv, Combine PROVE acc' \in Accs /\ Verdict' /\ TraceOffAgrees'
  OBVIOUS
<1>1. /\ next \in 1 .. Len(rules)
      /\ next' = next + 1
      /\ UNCHANGED <<rules, grants, strategy>>
      /\ \A j \in 1 .. Len(rules) : rules[j].name \in Names /\ rules[j].effect \in Effects
      /\ strategy \in {"DenyOverrides", "FirstMatch"}
      /\ acc \in Accs
      /\ Len(rules) \in Nat
  <2>1. \A j \in 1 .. Len(rules) : rules[j] \in Rules
    BY ElementOfSeq DEF FInv, TypeOK
  <2>2. \A j \in 1 .. Len(rules) : rules[j].name \in Names /\ rules[j].effect \in Effects
    BY <2>1 DEF Rules
  <2> QED BY <2>2 DEF Combine, args, FInv, TypeOK, Strategies
<1>2. Satisfied <=> matches(next)
  BY <1>1, TraceMatchIsMatches DEF Combine
<1>3. acc' = combine(acc, next, matches(next)) /\ off' = acc'
  <2>1. matches(next) \in BOOLEAN /\ Satisfied \in BOOLEAN
    BY SatisfiedIsLast DEF matches, FInv, Satisfied
  <2> QED BY <1>2, <2>1 DEF Combine, FInv, TraceOffAgrees
<1>4. \A j : matches(j)' <=> matches(j)
  BY <1>1 DEF matches
<1>5. \A j : refOf(j)' = refOf(j)
  BY <1>1 DEF refOf
<1>6. refOf(next) \in RuleRefs
  <2>1. next - 1 \in Nat
    BY <1>1
  <2>2. rules[next].name \in Names \cup {""} /\ rules[next].effect \in Effects
    BY <1>1
  <2> QED BY <2>1, <2>2 DEF refOf, RuleRefs
<1>7. CASE acc.locked \/ ~matches(next)
  <2>1. acc' = acc
    BY <1>3, <1>7 DEF combine, Combined, DenyOverrides, FirstMatch, refOf
  <2>2. ASSUME acc.decided
        PROVE  \E j \in 1 .. next' - 1 : DecidedBy(j)'
    <3>1. PICK j \in 1 .. next - 1 : DecidedBy(j)
      BY <2>2 DEF FInv, Verdict
    <3>2. strategy = "DenyOverrides" /\ rules[j].effect = "allow" => ~matches(next)
      BY <1>7, <3>1 DEF DecidedBy
    <3>3. DecidedBy(j)'
      BY <1>1, <1>4, <1>5, <2>1, <3>1, <3>2 DEF DecidedBy
    <3> QED BY <1>1, <3>1, <3>3
  <2>3. ASSUME ~acc.decided
        PROVE  acc' = DefaultDeny /\ \A k \in 1 .. next' - 1 : ~matches(k)'
    <3>1. acc = DefaultDeny /\ \A k \in 1 .. next - 1 : ~matches(k)
      BY <2>3 DEF FInv, Verdict
    <3>2. ~matches(next)
      BY <1>7, <3>1 DEF DefaultDeny
    <3> QED BY <1>1, <1>4, <2>1, <3>1, <3>2
  <2> QED BY <1>1, <1>3, <2>1, <2>2, <2>3 DEF Verdict, TraceOffAgrees
<1>8. CASE ~acc.locked /\ matches(next)
  <2>1. acc' = [allow |-> rules[next].effect = "allow",
                locked |-> strategy = "FirstMatch" \/ rules[next].effect = "deny",
                decided |-> TRUE, decider |-> refOf(next)]
    BY <1>1, <1>3, <1>8 DEF combine, Combined, DenyOverrides, FirstMatch, refOf
  <2>2. acc' \in Accs
    BY <1>6, <2>1 DEF Accs
  <2>3. \A k \in 1 .. next - 1 : matches(k) =>
            strategy = "DenyOverrides" /\ rules[k].effect = "allow"
    <3>1. CASE ~acc.decided
      BY <3>1 DEF FInv, Verdict
    <3>2. CASE acc.decided
      <4>1. PICK j \in 1 .. next - 1 : DecidedBy(j)
        BY <3>2 DEF FInv, Verdict
      <4>2. strategy = "DenyOverrides" /\ rules[j].effect # "deny"
        BY <1>1, <1>8, <4>1 DEF DecidedBy
      <4>3. rules[j].effect = "allow"
        BY <1>1, <4>1, <4>2 DEF Effects
      <4> QED BY <4>1, <4>2, <4>3 DEF DecidedBy
    <3> QED BY <3>1, <3>2
  <2>4. rules[next].effect \in {"allow", "deny"}
    BY <1>1 DEF Effects
  <2>5. /\ acc'.allow <=> rules[next].effect = "allow"
        /\ acc'.locked <=> strategy = "FirstMatch" \/ rules[next].effect = "deny"
        /\ acc'.decided
        /\ acc'.decider = refOf(next)
    BY <2>1
  <2>6. ASSUME NEW j \in 1 .. next, j = next
        PROVE  DecidedBy(j)'
    BY <2>6, <1>1, <1>4, <1>5, <1>8, <2>3, <2>4, <2>5 DEF DecidedBy
  <2> QED BY <1>1, <1>3, <2>2, <2>5, <2>6 DEF Verdict, TraceOffAgrees
<1> QED BY <1>7, <1>8 DEF FInv, TypeOK, Accs

\* Combining one rule extends the trace with an entry that explains its outcome.
LEMMA CombineTrace ==
    ASSUME FInv, Combine, acc' \in Accs
    PROVE  /\ TypeOK' /\ Tried' /\ Traced' /\ TraceExplains' /\ Ended'
           /\ \A k \in 1 .. next - 1 : trace'[k] = trace[k]
           /\ trace'[next] = [id |-> next - 1,
                              outcome |-> Outcome(acc, refOf(next), Satisfied),
                              decisive |-> acc'.locked /\ ~acc.locked,
                              attempts |-> attempts]
<1> DEFINE rt == [id |-> next - 1,
                  outcome |-> Outcome(acc, refOf(next), Satisfied),
                  decisive |-> acc'.locked /\ ~acc.locked,
                  attempts |-> attempts]
<1>1. /\ next \in 1 .. Len(rules)
      /\ next' = next + 1
      /\ attempts' = <<>>
      /\ UNCHANGED <<rules, grants, strategy, pc>>
      /\ trace' = Append(trace, rt)
      /\ Len(rules) \in Nat /\ Len(grants) \in Nat
      /\ Satisfied \/ Len(attempts) = Len(grants)
  BY DEF Combine, args, FInv, TypeOK
<1>2. rules[next].effect \in Effects
  <2>1. rules[next] \in Rules
    BY <1>1, ElementOfSeq DEF FInv, TypeOK
  <2> QED BY <2>1 DEF Rules
<1>3. Satisfied \in BOOLEAN /\ acc.locked \in BOOLEAN /\ acc'.locked \in BOOLEAN
  <2>1. Satisfied \in BOOLEAN
    BY DEF Satisfied
  <2>2. acc \in Accs
    BY DEF FInv, TypeOK
  <2> QED BY <2>1, <2>2 DEF Accs
<1>4. /\ acc.locked => rt.outcome = "skipped"
      /\ ~acc.locked /\ ~Satisfied => rt.outcome = "no-match"
      /\ ~acc.locked /\ Satisfied => rt.outcome = rules[next].effect
  BY <1>2, <1>3 DEF Outcome, refOf
<1>5. rt \in [id : Nat, outcome : Outcomes, decisive : BOOLEAN,
              attempts : Seq([grant : Grants, result : BOOLEAN])]
  <2>1. rt.outcome \in Outcomes
    BY <1>2, <1>3, <1>4 DEF Outcomes, Effects
  <2>2. next - 1 \in Nat /\ (acc'.locked /\ ~acc.locked) \in BOOLEAN
    BY <1>1, <1>3
  <2> QED BY <2>1, <2>2 DEF FInv, TypeOK
<1>6. /\ Len(trace) = next - 1
      /\ Len(trace') = next
      /\ trace'[next] = rt
      /\ \A k \in 1 .. next - 1 : trace'[k] = trace[k]
      /\ trace' \in Seq([id : Nat, outcome : Outcomes, decisive : BOOLEAN,
                         attempts : Seq([grant : Grants, result : BOOLEAN])])
      /\ DOMAIN trace = 1 .. next - 1
      /\ DOMAIN trace' = 1 .. next
  BY <1>1, <1>5, AppendProperties, LenProperties DEF FInv, TypeOK, Traced
<1>7. off' \in Accs
  BY CombineVerdict DEF TraceOffAgrees, FInv
<1>8. TypeOK'
  BY <1>1, <1>6, <1>7 DEF FInv, TypeOK
<1>9. Tried' /\ Ended'
  BY <1>1 DEF Tried, Ended, FInv, Combine
<1>10. Traced'
  <2>1. acc.locked => acc' = acc
    BY DEF Combine, combine, Combined, DenyOverrides, FirstMatch, refOf
  <2>2. rt.decisive <=> acc'.locked /\ ~acc.locked
    OBVIOUS
  <2>3. acc.locked <=> \E l \in 1 .. next - 1 : trace'[l].decisive
    BY <1>6 DEF FInv, Traced
  <2>4. acc'.locked <=> \E l \in 1 .. next : trace'[l].decisive
    BY <1>1, <1>3, <1>6, <2>1, <2>2, <2>3
  <2> QED BY <1>1, <1>6, <2>4 DEF Traced
<1>11. TraceExplains'
  <2> SUFFICES ASSUME NEW k \in 1 .. next
               PROVE  Explained(k)'
    BY <1>6 DEF TraceExplains
  <2>1. CASE k \in 1 .. next - 1
    <3>1. trace'[k] = trace[k] /\ \A l \in 1 .. k - 1 : trace'[l] = trace[l]
      <4>1. next \in Nat /\ \A l \in 1 .. k - 1 : l \in 1 .. next - 1
        BY <2>1 DEF FInv, TypeOK
      <4> QED BY <1>6, <2>1, <4>1
    <3>2. Explained(k)
      BY <1>6, <2>1 DEF FInv, TraceExplains
    <3>3. rules' = rules /\ grants' = grants
      BY <1>1
    <3>4. Matched(trace[k])' <=> Matched(trace[k])
      BY <3>1 DEF Matched
    <3>5. (\E l \in 1 .. k - 1 : trace'[l].decisive) <=> \E l \in 1 .. k - 1 : trace[l].decisive
      BY <3>1
    <3> QED BY <3>1, <3>2, <3>3, <3>4, <3>5 DEF Explained
  <2>2. CASE k = next
    <3>1. trace'[k] = rt
      BY <1>6, <2>2
    <3>2. /\ rt.id = next - 1
          /\ rt.attempts = attempts
      OBVIOUS
    <3>3. rt.outcome \in Effects =>
              ~acc.locked /\ Satisfied /\ rt.outcome = rules[next].effect
      BY <1>3, <1>4 DEF Effects
    <3>4. Satisfied => Matched(rt)
      BY <3>2 DEF Satisfied, Matched
    <3>5. rt.outcome = "no-match" => ~Satisfied
      BY <1>2, <1>3, <1>4 DEF Effects
    <3>6. ~Satisfied =>
              /\ Len(attempts) = Len(grants)
              /\ DOMAIN attempts = 1 .. Len(attempts)
              /\ \A a \in 1 .. Len(attempts) :
                    attempts[a].grant = grants[a] /\ ~attempts[a].result
      BY <1>1, SatisfiedIsLast, LenProperties DEF FInv, Tried, TypeOK
    <3>7. rt.outcome = "skipped" <=> acc.locked
      BY <1>2, <1>3, <1>4 DEF Effects
    <3>8. acc.locked <=> \E l \in 1 .. next - 1 : trace'[l].decisive
      BY <1>6 DEF FInv, Traced
    <3>9. rules' = rules /\ grants' = grants
      BY <1>1
    <3>10. Matched(trace[k])' <=> Matched(rt)
      BY <3>1 DEF Matched
    <3>11. trace'[k].id = k - 1
      BY <2>2, <3>1, <3>2
    <3>12. trace'[k].outcome \in Effects =>
               Matched(trace[k])' /\ trace'[k].outcome = rules'[k].effect
      BY <2>2, <3>1, <3>3, <3>4, <3>9, <3>10
    <3>13. trace'[k].outcome = "no-match" =>
               /\ Len(trace'[k].attempts) = Len(grants')
               /\ \A a \in DOMAIN trace'[k].attempts :
                     /\ trace'[k].attempts[a].grant = grants'[a]
                     /\ ~trace'[k].attempts[a].result
      BY <3>1, <3>2, <3>5, <3>6, <3>9
    <3>14. trace'[k].outcome = "skipped" <=> \E l \in 1 .. k - 1 : trace'[l].decisive
      BY <2>2, <3>1, <3>7, <3>8
    <3> HIDE DEF rt
    <3> QED BY <3>11, <3>12, <3>13, <3>14 DEF Explained
  <2> QED BY <1>1, <2>1, <2>2
<1> QED BY <1>6, <1>8, <1>9, <1>10, <1>11

\* Combining one rule records what came of it, and leaves the older entries true.
LEMMA CombineRecorded == FInv /\ Combine => Recorded'
<1> SUFFICES ASSUME FInv, Combine PROVE Recorded'
  OBVIOUS
<1> DEFINE rt == [id |-> next - 1,
                  outcome |-> Outcome(acc, refOf(next), Satisfied),
                  decisive |-> acc'.locked /\ ~acc.locked,
                  attempts |-> attempts]
<1>1. /\ next \in 1 .. Len(rules) /\ next \in Nat
      /\ next' = next + 1
      /\ UNCHANGED <<rules, grants, strategy>>
      /\ Satisfied \/ Len(attempts) = Len(grants)
  BY DEF Combine, args, FInv, TypeOK
<1>2. /\ \A k \in 1 .. next - 1 : trace'[k] = trace[k]
      /\ trace'[next] = rt
  BY CombineVerdict, CombineTrace
<1>3. rules[next].effect \in Effects
  <2>1. rules[next] \in Rules
    BY <1>1, ElementOfSeq DEF FInv, TypeOK
  <2> QED BY <2>1 DEF Rules
<1>4. /\ Satisfied \in BOOLEAN /\ acc.locked \in BOOLEAN /\ acc.decided \in BOOLEAN
      /\ acc.decider.id \in Nat
      /\ Satisfied <=> matches(next)
  <2>1. Satisfied \in BOOLEAN
    BY DEF Satisfied
  <2>2. acc \in Accs
    BY DEF FInv, TypeOK
  <2> QED BY <1>1, <2>1, <2>2, TraceMatchIsMatches DEF Accs, RuleRefs
<1>5. /\ acc.locked => rt.outcome = "skipped"
      /\ ~acc.locked /\ ~Satisfied => rt.outcome = "no-match"
      /\ ~acc.locked /\ Satisfied => rt.outcome = rules[next].effect
      /\ rt.decisive <=> acc'.locked /\ ~acc.locked
      /\ rt.attempts = attempts
  BY <1>3, <1>4 DEF Outcome, refOf
<1>6. \A k : matches(k)' <=> matches(k)
  BY <1>1 DEF matches
<1>7. /\ Len(attempts) <= Len(grants)
      /\ \A a \in 1 .. Len(attempts) :
            attempts[a].grant = grants[a] /\ attempts[a].result = rules[next].cond[grants[a]]
  BY DEF FInv, Tried
<1> HIDE DEF rt
<1>8. CASE acc.locked \/ ~Satisfied
  <2>1. acc' = acc
    BY <1>8 DEF Combine, combine, Combined, DenyOverrides, FirstMatch, refOf
  <2>2. ASSUME NEW k \in 1 .. next - 1
        PROVE  Entry(k)'
    <3>1. Entry(k)
      BY DEF FInv, Recorded
    <3>2. trace'[k] = trace[k] /\ (matches(k)' <=> matches(k))
      BY <1>2, <1>6
    <3> QED BY <1>1, <2>1, <3>1, <3>2 DEF Entry
  <2>3. ASSUME NEW k \in {next}
        PROVE  Entry(k)'
    <3>1. /\ ~rt.decisive
          /\ rt.outcome = IF acc.locked THEN "skipped" ELSE "no-match"
      BY <1>4, <1>5, <1>8, <2>1
    <3>2. acc.locked \/ ~matches(next)
      BY <1>4, <1>8
    <3> QED BY <1>1, <1>2, <1>5, <1>6, <1>7, <2>1, <3>1, <3>2 DEF Entry, Effects
  <2>4. ASSUME acc.decided
        PROVE  trace'[acc.decider.id + 1].outcome = acc.decider.effect
    <3>1. PICK j \in 1 .. next - 1 : DecidedBy(j)
      BY <2>4 DEF FInv, Verdict
    <3>2. acc.decider.id + 1 = j
      BY <1>1, <3>1 DEF DecidedBy, refOf
    <3>3. trace[acc.decider.id + 1].outcome = acc.decider.effect
      BY <2>4 DEF FInv, Recorded
    <3>4. trace'[j] = trace[j]
      BY <1>2
    <3> QED BY <3>2, <3>3, <3>4
  <2> QED BY <1>1, <2>1, <2>2, <2>3, <2>4 DEF Recorded
<1>9. CASE ~acc.locked /\ Satisfied
  <2>1. /\ acc'.decided
        /\ acc'.decider = refOf(next)
        /\ acc'.locked <=> strategy = "FirstMatch" \/ rules[next].effect = "deny"
    <3>1. strategy \in {"DenyOverrides", "FirstMatch"}
      BY DEF FInv, TypeOK, Strategies
    <3> QED BY <1>9, <3>1 DEF Combine, combine, Combined, DenyOverrides, FirstMatch, refOf
  <2>2. acc'.decider.id + 1 = next /\ acc'.decider.effect = rules[next].effect
    BY <1>1, <2>1 DEF refOf
  <2>3. ASSUME NEW k \in 1 .. next - 1
        PROVE  Entry(k)'
    <3>1. ~trace[k].decisive
      BY <1>9 DEF FInv, Traced
    <3>2. Entry(k)
      BY DEF FInv, Recorded
    <3>3. trace'[k] = trace[k] /\ (matches(k)' <=> matches(k))
      BY <1>2, <1>6
    <3>4. k <= acc'.decider.id + 1
      BY <1>1, <2>2
    <3> QED BY <1>1, <2>1, <3>1, <3>2, <3>3, <3>4 DEF Entry
  <2>4. ASSUME NEW k \in {next}
        PROVE  Entry(k)'
    <3>1. rt.outcome = rules[next].effect /\ (rt.decisive <=> acc'.locked)
      BY <1>5, <1>9
    <3>2. trace'[k] = rt /\ k = next
      BY <1>2
    <3>3. matches(k)'
      BY <1>4, <1>6, <1>9, <3>2
    <3> QED BY <1>1, <1>3, <1>5, <1>7, <2>1, <2>2, <3>1, <3>2, <3>3 DEF Entry
  <2>5. \A k \in 1 .. next' - 1 : Entry(k)'
    BY <1>1, <2>3, <2>4
  <2>6. trace'[acc'.decider.id + 1].outcome = acc'.decider.effect
    BY <1>2, <1>5, <1>9, <2>2
  <2> QED BY <2>5, <2>6 DEF Recorded
<1> QED BY <1>4, <1>8, <1>9

\* The invariant is inductive.
LEMMA FNextInv == FInv /\ [Next]_vars => FInv'
<1> SUFFICES ASSUME FInv, [Next]_vars PROVE FInv'
  OBVIOUS
<1>1. CASE Combine
  BY <1>1, CombineVerdict, CombineTrace, CombineRecorded DEF FInv
<1>2. ASSUME Finish \/ UNCHANGED vars
      PROVE  FInv'
  <2>1. /\ UNCHANGED <<rules, grants, strategy, next, attempts, acc, trace, off>>
        /\ pc' = pc \/ (pc' = "done" /\ next > Len(rules))
    BY <1>2 DEF Finish, vars, args
  <2>2. TypeOK' /\ Ended'
    BY <2>1 DEF FInv, TypeOK, Ended
  <2>3. Tried' /\ TraceOffAgrees' /\ Traced'
    BY <2>1 DEF FInv, Tried, TraceOffAgrees, Traced
  <2>4. Verdict'
    BY <2>1 DEF FInv, Verdict, DecidedBy, matches, refOf
  <2>5. TraceExplains'
    BY <2>1 DEF FInv, TraceExplains, Explained, Matched
  <2>6. Recorded'
    BY <2>1 DEF FInv, Recorded, Entry, matches
  <2> QED BY <2>2, <2>3, <2>4, <2>5, <2>6 DEF FInv
<1> QED BY <1>1, <1>2, TryGrantInv DEF Next

-----------------------------------------------------------------------------
\* Under deny-overrides a query is allowed iff some allow rule matches it and no
\* deny rule does, in whatever order; the decider is the first matching deny,
\* else the last matching allow: for every policy and query.
THEOREM DenyOverridesCorrect == Spec => []DenyOverridesIsVeto
<1>1. FInv => DenyOverridesIsVeto
  <2> SUFFICES ASSUME FInv, pc = "done", strategy = "DenyOverrides"
               PROVE  /\ acc.allow <=> Hits("allow") # {} /\ Hits("deny") = {}
                      /\ acc.decided <=> Hits("allow") \cup Hits("deny") # {}
                      /\ \A j \in Hits("deny") :
                            (\A k \in Hits("deny") : j <= k) => acc.decider = refOf(j)
                      /\ \A j \in Hits("allow") :
                            Hits("deny") = {} /\ (\A k \in Hits("allow") : k <= j)
                                => acc.decider = refOf(j)
    BY DEF DenyOverridesIsVeto
  <2>1. /\ DOMAIN rules = 1 .. next - 1
        /\ next - 1 \in Nat
        /\ \A j \in 1 .. next - 1 : rules[j].effect \in Effects
    <3>1. rules \in Seq(Rules) /\ next = Len(rules) + 1
      BY DEF FInv, TypeOK, Ended
    <3>2. \A j \in 1 .. Len(rules) : rules[j] \in Rules
      BY <3>1, ElementOfSeq
    <3> QED BY <3>1, <3>2, LenProperties DEF Rules
  <2>2. CASE acc.decided
    <3>1. PICK j \in 1 .. next - 1 : DecidedBy(j)
      BY <2>2 DEF FInv, Verdict
    <3>2. CASE rules[j].effect = "deny"
      <4>1. j \in Hits("deny") /\ ~acc.allow /\ acc.decider = refOf(j)
        BY <2>1, <3>1, <3>2 DEF DecidedBy, Hits
      <4>2. \A k \in Hits("deny") : k >= j
        BY <2>1, <3>1, <3>2 DEF DecidedBy, Hits
      <4>3. \A i \in Hits("deny") : (\A k \in Hits("deny") : i <= k) => i = j
        BY <2>1, <4>1, <4>2 DEF Hits
      <4> QED BY <2>2, <4>1, <4>3
    <3>3. CASE rules[j].effect = "allow"
      <4>1. j \in Hits("allow") /\ acc.allow /\ acc.decider = refOf(j)
        BY <2>1, <3>1, <3>3 DEF DecidedBy, Hits
      <4>2. Hits("deny") = {} /\ \A k \in Hits("allow") : k <= j
        BY <2>1, <3>1, <3>3 DEF DecidedBy, Hits
      <4>3. \A i \in Hits("allow") : (\A k \in Hits("allow") : k <= i) => i = j
        BY <2>1, <4>1, <4>2 DEF Hits
      <4> QED BY <2>2, <4>1, <4>2, <4>3
    <3> QED BY <2>1, <3>1, <3>2, <3>3 DEF Effects
  <2>3. CASE ~acc.decided
    <3>1. acc = DefaultDeny /\ \A k \in 1 .. next - 1 : ~matches(k)
      BY <2>3 DEF FInv, Verdict
    <3>2. Hits("allow") = {} /\ Hits("deny") = {}
      BY <2>1, <3>1 DEF Hits
    <3> QED BY <2>3, <3>1, <3>2 DEF DefaultDeny
  <2> QED BY <2>2, <2>3
<1> QED BY <1>1, FInitInv, FNextInv, PTL DEF Spec

\* Under first-match the first matching rule decides, with its effect: for every
\* policy and query.
THEOREM FirstMatchCorrect == Spec => []FirstMatchDecides
<1>1. FInv => FirstMatchDecides
  <2> SUFFICES ASSUME FInv, pc = "done", strategy = "FirstMatch"
               PROVE  /\ acc.decided <=> \E j \in DOMAIN rules : matches(j)
                      /\ acc.allow => acc.decided
                      /\ \A j \in DOMAIN rules :
                            matches(j) /\ (\A k \in 1 .. j - 1 : ~matches(k)) =>
                                /\ acc.decider = refOf(j)
                                /\ acc.allow <=> rules[j].effect = "allow"
    BY DEF FirstMatchDecides
  <2>1. DOMAIN rules = 1 .. next - 1 /\ next - 1 \in Nat
    BY LenProperties DEF FInv, TypeOK, Ended
  <2>2. CASE acc.decided
    <3>1. PICK j \in 1 .. next - 1 : DecidedBy(j)
      BY <2>2 DEF FInv, Verdict
    <3>2. matches(j) /\ \A k \in 1 .. j - 1 : ~matches(k)
      BY <3>1 DEF DecidedBy
    <3>3. \A i \in 1 .. next - 1 : matches(i) /\ (\A k \in 1 .. i - 1 : ~matches(k)) => i = j
      BY <2>1, <3>2
    <3> QED BY <2>1, <2>2, <3>1, <3>2, <3>3 DEF DecidedBy
  <2>3. CASE ~acc.decided
    BY <2>1, <2>3 DEF FInv, Verdict, DefaultDeny
  <2> QED BY <2>2, <2>3
<1> QED BY <1>1, FInitInv, FNextInv, PTL DEF Spec

\* The fold's variables keep their types.
THEOREM FoldTypes == Spec => []TypeOK
BY FInitInv, FNextInv, PTL DEF Spec, FInv

\* Tracing never changes the decision: evalVerdict and evaluate agree at every
\* rule, for every policy and query.
THEOREM TracingChangesNothing == Spec => []TraceOffAgrees
BY FInitInv, FNextInv, PTL DEF Spec, FInv

\* Every traced outcome is justified by the attempts recorded with it: for every
\* policy and query.
THEOREM TraceFaithful == Spec => []TraceExplains
BY FInitInv, FNextInv, PTL DEF Spec, FInv

\* The trace has one entry per rule folded, at the rule's place and under its name.
LEMMA EntriesOfRules ==
    ASSUME FInv
    PROVE  /\ next - 1 \in Nat
           /\ DOMAIN trace = 1 .. next - 1
           /\ pc = "done" => DOMAIN rules = 1 .. next - 1
           /\ \A k \in 1 .. next - 1 :
                 /\ NameOf(trace[k]) = rules[k].name
                 /\ trace[k].outcome \in Outcomes
                 /\ trace[k].decisive \in BOOLEAN
                 /\ rules[k].effect \in Effects
<1> DEFINE Runs == Seq([grant : Grants, result : BOOLEAN])
           RTs == [id : Nat, outcome : Outcomes, decisive : BOOLEAN, attempts : Runs]
<1>1. /\ next - 1 \in Nat /\ next - 1 <= Len(rules)
      /\ DOMAIN trace = 1 .. next - 1 /\ Len(trace) = next - 1
      /\ rules \in Seq(Rules) /\ trace \in Seq(RTs)
      /\ pc = "done" => DOMAIN rules = 1 .. next - 1
  BY LenProperties DEF FInv, TypeOK, Traced, Ended
<1>2. ASSUME NEW k \in 1 .. next - 1
      PROVE  trace[k].outcome \in Outcomes /\ trace[k].decisive \in BOOLEAN
  <2> HIDE DEF Runs
  <2>1. trace[k] \in RTs
    <3> HIDE DEF RTs
    <3> QED BY <1>1, ElementOfSeq
  <2> QED BY <2>1
<1>3. ASSUME NEW k \in 1 .. next - 1
      PROVE  rules[k].effect \in Effects
  <2>1. k \in 1 .. Len(rules)
    BY <1>1
  <2>2. rules[k] \in Rules
    BY <1>1, <2>1, ElementOfSeq
  <2> QED BY <2>2 DEF Rules
<1>4. ASSUME NEW k \in 1 .. next - 1
      PROVE  NameOf(trace[k]) = rules[k].name
  <2>1. trace[k].id = k - 1
    BY <1>1 DEF FInv, TraceExplains, Explained
  <2>2. trace[k].id + 1 = k
    BY <2>1
  <2> QED BY <2>2 DEF NameOf
<1> QED BY <1>1, <1>2, <1>3, <1>4

\* Who decided, read off the trace: nobody, or the rule at d, whose entry has the
\* decider's effect, is the only one that may be decisive and the last that matched.
LEMMA DeciderInTrace ==
    ASSUME FInv, NEW d, d = acc.decider.id + 1
    PROVE  /\ ~acc.decided => /\ ~acc.allow
                              /\ \A k \in 1 .. next - 1 :
                                    trace[k].outcome \notin Effects /\ ~trace[k].decisive
           /\ acc.decided =>
                 /\ d \in 1 .. next - 1
                 /\ acc.decider = refOf(d)
                 /\ acc.allow <=> rules[d].effect = "allow"
                 /\ trace[d].outcome = rules[d].effect
                 /\ \A k \in 1 .. next - 1 :
                       /\ trace[k].outcome \in Effects => k <= d
                       /\ trace[k].outcome = "deny" => trace[k].decisive
                       /\ trace[k].decisive => k = d
<1>1. ASSUME ~acc.decided
      PROVE  /\ ~acc.allow
             /\ \A k \in 1 .. next - 1 : trace[k].outcome \notin Effects /\ ~trace[k].decisive
  BY <1>1 DEF FInv, Verdict, DefaultDeny, Recorded, Entry
<1>2. ASSUME acc.decided
      PROVE  /\ d \in 1 .. next - 1
             /\ acc.decider = refOf(d)
             /\ acc.allow <=> rules[d].effect = "allow"
             /\ trace[d].outcome = rules[d].effect
  <2>1. PICK j \in 1 .. next - 1 : DecidedBy(j)
    BY <1>2 DEF FInv, Verdict
  <2>2. d = j
    BY <2>1 DEF DecidedBy, refOf
  <2> QED BY <1>2, <2>1, <2>2 DEF DecidedBy, refOf, FInv, Recorded
<1>3. \A k \in 1 .. next - 1 :
         /\ trace[k].outcome \in Effects => k <= d
         /\ trace[k].outcome = "deny" => trace[k].decisive
         /\ trace[k].decisive => k = d
  BY DEF FInv, Recorded, Entry
<1> QED BY <1>1, <1>2, <1>3

\* The verdict, its reason, the decider and the story told of the trace name the same
\* rule and effect, and a denial names exactly the permits it overrode: for every
\* policy and query, however many rules share a name.
THEOREM AccountsOfOneEvent == Spec => []AccountsAgree
<1>1. FInv => AccountsAgree
  <2> SUFFICES ASSUME FInv, pc = "done" PROVE AccountsAgree
    BY DEF AccountsAgree
  <2> DEFINE d == acc.decider.id + 1
  <2>1. /\ next - 1 \in Nat
        /\ DOMAIN trace = 1 .. next - 1 /\ DOMAIN rules = 1 .. next - 1
        /\ \A k \in 1 .. next - 1 : /\ NameOf(trace[k]) = rules[k].name
                                     /\ rules[k].effect \in {"allow", "deny"}
    BY EntriesOfRules DEF Effects
  <2>2. acc.decided \in BOOLEAN /\ acc.allow \in BOOLEAN /\ acc.decider.id \in Nat
    <3>1. acc \in Accs
      BY DEF FInv, TypeOK
    <3> QED BY <3>1 DEF Accs, RuleRefs
  <2>3. CASE ~acc.decided
    <3>1. ~acc.allow /\ Entries("allow") = {} /\ Entries("deny") = {}
      BY <2>1, <2>3, DeciderInTrace DEF Entries, Effects
    <3>2. strategyStory = [says |-> "default-deny", over |-> Named({}), who |-> Named({})]
      BY <3>1 DEF strategyStory
    <3>3. /\ strategyStory.says = "default-deny"
          /\ strategyStory.who = [k \in {} |-> acc.decider.name]
      BY <3>2 DEF Named
    <3> QED BY <2>3, <3>1, <3>3 DEF AccountsAgree, reasonFor
  <2>4. CASE acc.decided
    <3>1. /\ d \in 1 .. next - 1
          /\ acc.decider = refOf(d)
          /\ acc.allow <=> rules[d].effect = "allow"
          /\ trace[d].outcome = rules[d].effect
          /\ \A k \in 1 .. next - 1 :
                /\ trace[k].outcome \in Effects => k <= d
                /\ trace[k].outcome = "deny" => trace[k].decisive
                /\ trace[k].decisive => k = d
      BY <2>4, DeciderInTrace
    <3>2. acc.decider.name = rules[d].name /\ acc.decider.effect = rules[d].effect
      BY <3>1 DEF refOf
    <3>3. Named({d}) = [k \in {d} |-> acc.decider.name]
      BY <2>1, <3>1, <3>2 DEF Named
    <3>4. CASE acc.allow
      <4>1. Decisive \in {{}, {d}}
        BY <2>1, <3>1 DEF Decisive
      <4>2. LastOf(Entries("allow")) = {d} /\ LastOf({d}) = {d}
        <5>1. d \in Entries("allow") /\ \A k \in Entries("allow") : k \in Nat /\ k <= d
          BY <2>1, <3>1, <3>4 DEF Entries, Effects
        <5>2. d \in Nat /\ d <= d
          BY <2>2
        <5>3. \A k \in Entries("allow") : d <= k => k = d
          BY <5>1, <5>2
        <5> HIDE DEF d
        <5> QED BY <5>1, <5>2, <5>3 DEF LastOf
      <4>3. LastOf(IF Decisive # {} THEN Decisive ELSE Entries("allow")) = {d}
        BY <4>1, <4>2
      <4>4. strategyStory = [says |-> "permitted", over |-> Named({}), who |-> Named({d})]
        BY <3>4, <4>3 DEF strategyStory
      <4>5. strategyStory.says = "permitted" /\ strategyStory.who = Named({d})
        BY <4>4
      <4> QED BY <2>4, <3>2, <3>3, <3>1, <3>4, <4>5 DEF AccountsAgree, reasonFor
    <3>5. CASE ~acc.allow
      <4>1. rules[d].effect = "deny"
        BY <2>1, <3>1, <3>5
      <4>2. Entries("deny") = {d}
        BY <2>1, <3>1, <4>1 DEF Entries
      <4>3. Entries("allow") = Overridden
        <5>1. ASSUME NEW k \in Entries("allow")
              PROVE  k \in Overridden
          <6>1. k \in 1 .. next - 1 /\ trace[k].outcome = "allow"
            BY <2>1 DEF Entries
          <6>2. k <= d /\ k # d
            BY <3>1, <4>1, <6>1 DEF Effects
          <6>3. matches(k) /\ rules[k].effect = "allow"
            BY <2>1, <6>1 DEF FInv, TraceExplains, Explained, Recorded, Entry, Effects
          <6> QED BY <2>1, <2>2, <6>1, <6>2, <6>3 DEF Overridden, Hits
        <5>2. ASSUME NEW k \in Overridden
              PROVE  k \in Entries("allow")
          <6>1. k \in 1 .. next - 1 /\ matches(k) /\ rules[k].effect = "allow" /\ k < d
            BY <2>1, <2>2 DEF Overridden, Hits
          <6>2. trace[k].outcome # "skipped"
            <7>1. \A l \in 1 .. k - 1 : l \in 1 .. next - 1 /\ l # d
              BY <2>1, <2>2, <6>1
            <7>2. \A l \in 1 .. k - 1 : ~trace[l].decisive
              BY <3>1, <7>1
            <7> QED BY <2>1, <6>1, <7>2 DEF FInv, TraceExplains, Explained
          <6>3. trace[k].outcome = rules[k].effect
            BY <2>1, <6>1, <6>2 DEF FInv, TraceExplains, Explained, Recorded, Entry
          <6> QED BY <2>1, <6>1, <6>3 DEF Entries
        <5> QED BY <5>1, <5>2
      <4>4. strategyStory = IF Overridden # {}
                            THEN [says |-> "denied, overriding",
                                  over |-> Named(Overridden), who |-> Named({d})]
                            ELSE [says |-> "denied", over |-> Named({}), who |-> Named({d})]
        BY <3>5, <4>2, <4>3 DEF strategyStory
      <4>5. /\ strategyStory.says = IF Overridden # {} THEN "denied, overriding" ELSE "denied"
            /\ strategyStory.who = Named({d})
            /\ Overridden # {} => strategyStory.over = Named(Overridden)
        BY <4>4
      <4>6. Named(Overridden) = [j \in Overridden |-> rules[j].name]
        BY <2>1 DEF Named, Overridden, Hits
      <4> QED BY <2>4, <3>2, <3>3, <3>5, <4>1, <4>5, <4>6 DEF AccountsAgree, reasonFor
    <3> QED BY <2>2, <3>4, <3>5
  <2> QED BY <2>2, <2>3, <2>4
<1> QED BY <1>1, FInitInv, FNextInv, PTL DEF Spec

\* The attempts a line shows for a match end it: the last one, which succeeded.
LEMMA ShownDecides ==
    ASSUME FInv, NEW k \in 1 .. next - 1, trace[k].outcome \in Effects
    PROVE  /\ DOMAIN explainRule(trace[k]) = {1}
           /\ explainRule(trace[k])[1].result
           /\ rules[k].cond[explainRule(trace[k])[1].grant]
<1> DEFINE n == Len(trace[k].attempts)
           Runs == Seq([grant : Grants, result : BOOLEAN])
           RTs == [id : Nat, outcome : Outcomes, decisive : BOOLEAN, attempts : Runs]
<1>1. trace \in Seq(RTs) /\ DOMAIN trace = 1 .. Len(trace) /\ DOMAIN trace = 1 .. next - 1
  BY EntriesOfRules, LenProperties DEF FInv, TypeOK
<1>2. trace[k].attempts \in Runs
  <2> HIDE DEF Runs
  <2>1. trace[k] \in RTs
    <3> HIDE DEF RTs
    <3> QED BY <1>1, ElementOfSeq
  <2> QED BY <2>1
<1>3. Explained(k) /\ Entry(k)
  BY <1>1 DEF FInv, TraceExplains, Recorded
<1>4. trace[k].attempts # <<>> /\ trace[k].attempts[n].result
  BY <1>3 DEF Explained, Matched
<1>5. n \in 1 .. n
  BY <1>2, <1>4, EmptySeq, LenProperties
<1>6. rules[k].cond[trace[k].attempts[n].grant]
  BY <1>3, <1>4, <1>5 DEF Entry
<1>7. explainRule(trace[k]) = <<trace[k].attempts[n]>>
  <2>1. trace[k].outcome # "skipped"
    BY DEF Effects
  <2> QED BY <1>4, <2>1 DEF explainRule, deciderCond, Matched
<1> QED BY <1>4, <1>6, <1>7

\* The lines of Explain are the complete rationale: what they mark and show suffices
\* to check the verdict by hand, for every policy and query.
THEOREM RationaleIsComplete == Spec => []RationaleSuffices
<1>1. FInv => RationaleSuffices
  <2> SUFFICES ASSUME FInv, pc = "done" PROVE RationaleSuffices
    BY DEF RationaleSuffices
  <2> DEFINE line == Explain.lines
             N == 1 .. next - 1
             d == acc.decider.id + 1
  <2>1. /\ next - 1 \in Nat /\ DOMAIN trace = N
        /\ \A k \in N : /\ trace[k].outcome \in Outcomes
                        /\ trace[k].decisive \in BOOLEAN
                        /\ rules[k].effect \in Effects
    BY EntriesOfRules
  <2>2. acc.decided \in BOOLEAN /\ acc.allow \in BOOLEAN
    <3>1. acc \in Accs
      BY DEF FInv, TypeOK
    <3> QED BY <3>1 DEF Accs
  <2>3. /\ line = [k \in N |-> Line(trace[k])]
        /\ Explain.verdict = IF acc.allow THEN "ALLOW" ELSE "DENY"
    BY <2>1 DEF Explain
  <2> HIDE DEF line
  <2>4. DOMAIN line = N /\ \A k \in N : line[k] = Line(trace[k])
    BY <2>3
  <2>5. ASSUME NEW k \in N
        PROVE  /\ line[k].mark = "yes" <=> trace[k].outcome = "allow"
               /\ line[k].mark = "no" <=> trace[k].outcome = "deny"
               /\ line[k].tag = "decisive" <=> trace[k].decisive
               /\ line[k].tag = "provisional" <=> ~trace[k].decisive /\ trace[k].outcome = "allow"
               /\ line[k].outcome = trace[k].outcome
               /\ line[k].shows = explainRule(trace[k])
    <3>1. /\ line[k].mark = outcomeMark(trace[k])
          /\ line[k].tag = decisiveTag(trace[k])
          /\ line[k].outcome = trace[k].outcome
          /\ line[k].shows = explainRule(trace[k])
      BY <2>4 DEF Line
    <3> QED BY <2>1, <3>1 DEF outcomeMark, decisiveTag
  <2> DEFINE Marked(m, t) == \E k \in DOMAIN line : line[k].mark = m /\ line[k].tag = t
             Skipped(k) == k > 0 /\ line[k].outcome = "skipped"
  <2>6. Explain.verdict = "ALLOW" <=>
            \/ Marked("yes", "decisive")
            \/ Marked("yes", "provisional") /\ ~Marked("no", "decisive")
    <3>1. /\ Marked("yes", "decisive") <=>
                \E k \in N : trace[k].outcome = "allow" /\ trace[k].decisive
          /\ Marked("no", "decisive") <=>
                \E k \in N : trace[k].outcome = "deny" /\ trace[k].decisive
          /\ Marked("yes", "provisional") <=>
                \E k \in N : trace[k].outcome = "allow" /\ ~trace[k].decisive
      BY <2>4, <2>5
    <3>2. Explain.verdict = "ALLOW" <=> acc.allow
      BY <2>2, <2>3
    <3>3. CASE ~acc.decided
      BY <3>1, <3>2, <3>3, DeciderInTrace DEF Effects
    <3>4. CASE acc.decided
      <4>1. /\ d \in N
            /\ acc.allow <=> trace[d].outcome = "allow"
            /\ trace[d].outcome \in {"allow", "deny"}
            /\ trace[d].outcome = "deny" => trace[d].decisive
            /\ \A k \in N : trace[k].decisive => k = d
        BY <2>1, <3>4, DeciderInTrace DEF Effects
      <4> HIDE DEF d, Marked
      <4>2. trace[d].decisive \in BOOLEAN
        BY <2>1, <4>1
      <4> QED BY <3>1, <3>2, <4>1, <4>2
    <3> QED BY <2>2, <3>3, <3>4
  <2>7. ASSUME NEW k \in N, Skipped(k)
        PROVE  Skipped(k - 1) \/ line[k - 1].tag = "decisive"
    <3>1. PICK l \in 1 .. k - 1 : trace[l].decisive
      BY <2>1, <2>5, <2>7 DEF FInv, TraceExplains, Explained
    <3>2. k - 1 \in N
      BY <2>1, <3>1
    <3>3. CASE l = k - 1
      BY <2>5, <3>1, <3>2, <3>3
    <3>4. CASE l # k - 1
      <4>1. l \in 1 .. (k - 1) - 1
        BY <2>1, <3>1, <3>4
      <4>2. trace[k - 1].outcome = "skipped"
        BY <2>1, <3>1, <3>2, <4>1 DEF FInv, TraceExplains, Explained
      <4> QED BY <2>1, <2>5, <3>2, <4>2
    <3> QED BY <3>3, <3>4
  <2>8. ASSUME NEW k \in N, line[k].outcome = "no-match"
        PROVE  /\ [a \in DOMAIN grants |-> line[k].shows[a].grant] = grants
               /\ \A a \in DOMAIN grants : ~rules[k].cond[grants[a]]
    <3>1. /\ grants \in Seq(Grants) /\ Len(grants) \in Nat
          /\ DOMAIN grants = 1 .. Len(grants)
          /\ grants = [a \in DOMAIN grants |-> grants[a]]
      BY LenProperties DEF FInv, TypeOK
    <3>2. trace[k].outcome = "no-match" /\ line[k].shows = trace[k].attempts
      BY <2>5, <2>8 DEF explainRule, Effects
    <3>3. Explained(k) /\ Entry(k)
      BY <2>1 DEF FInv, TraceExplains, Recorded
    <3>4. \A a \in DOMAIN grants : line[k].shows[a].grant = grants[a]
      BY <3>1, <3>2, <3>3 DEF Explained, Entry
    <3>5. ~matches(k)
      BY <3>2, <3>3 DEF Entry, Effects
    <3> QED BY <3>1, <3>4, <3>5 DEF matches
  <2>9. ASSUME NEW k \in N, line[k].outcome # "no-match"
        PROVE  \A a \in DOMAIN line[k].shows :
                  line[k].shows[a].result /\ rules[k].cond[line[k].shows[a].grant]
    <3>1. CASE trace[k].outcome = "skipped"
      <4>1. line[k].shows = <<>>
        BY <2>5, <3>1 DEF explainRule, Effects
      <4> QED BY <4>1
    <3>2. CASE trace[k].outcome \in Effects
      BY <2>5, <3>2, ShownDecides
    <3> QED BY <2>1, <2>5, <2>9, <3>1, <3>2 DEF Outcomes, Effects
  <2>10. \A k \in DOMAIN line :
            /\ Skipped(k) => Skipped(k - 1) \/ line[k - 1].tag = "decisive"
            /\ IF line[k].outcome = "no-match"
               THEN /\ [a \in DOMAIN grants |-> line[k].shows[a].grant] = grants
                    /\ \A a \in DOMAIN grants : ~rules[k].cond[grants[a]]
               ELSE \A a \in DOMAIN line[k].shows :
                       line[k].shows[a].result /\ rules[k].cond[line[k].shows[a].grant]
    <3> HIDE DEF Skipped
    <3> QED BY <2>4, <2>7, <2>8, <2>9
  <2> QED BY <2>6, <2>10 DEF RationaleSuffices, line
<1> QED BY <1>1, FInitInv, FNextInv, PTL DEF Spec
=============================================================================
