------------------------------- MODULE Engine -------------------------------
(***************************************************************************)
(* The whole path of a policy: Holder.Load parses a document step by step   *)
(* and installs the rules if it is accepted; Decide evaluates every rule of *)
(* the installed policy against a query, at any moment of a Load.  The      *)
(* parts are those of Parser, Evaluator and Strategy.  What several callers *)
(* may do at once is the subject of Holder and Loader: here there is one    *)
(* loading goroutine, and a Decide is one step.  A panic in Decide ends the *)
(* process.                                                                 *)
(***************************************************************************)
EXTENDS Grammar, Evaluator, Strategy

CONSTANTS Queries,
          NoPolicy      \* a nil snapshot

\* The Evaluator's nodes are what the parser can build, at least.
ASSUME EngineAssumption ==
    /\ \A j \in Values : IsNode[j] => TreeOf[j] \in Nodes
    /\ \A q \in Queries : Len(q.grants) \in Nat /\ DOMAIN q.grants = 1 .. Len(q.grants)

VARIABLES serving,      \* the current snapshot: its document and its rules
          decision      \* the Decide that has just returned
evars == <<vars, serving, decision>>

NoDecision == [verdict |-> "none"]

EInit == /\ Init
         /\ serving = NoPolicy
         /\ decision = NoDecision

Alive == decision.verdict # "panic"

-----------------------------------------------------------------------------
(* Holder.Load. *)

\* One step of parsePolicy that does not return its rules.
ParseStep == /\ Alive
             /\ Step
             /\ pc' # "ok"
             /\ UNCHANGED serving
             /\ decision' = NoDecision

\* Mutant: the rules parsed before an error are installed.
InstallPartial == /\ Alive
                  /\ Step
                  /\ pc' \in {"ok", "err"}
                  /\ serving' = [doc |-> doc, rules |-> out']
                  /\ decision' = NoDecision

\* The last one, NewSnapshot, and Set.
Install == /\ Alive
           /\ Step
           /\ pc' = "ok"
           /\ serving' = [doc |-> doc, rules |-> out']
           /\ decision' = NoDecision

\* The next call, with another document.
Load(d) == /\ Alive
           /\ Parsed
           /\ doc' = d
           /\ pc' = "open"
           /\ out' = <<>> /\ nodes' = 0 /\ raw' = Missing /\ stack' = <<>> /\ made' = <<>>
           /\ UNCHANGED serving
           /\ decision' = NoDecision

-----------------------------------------------------------------------------
(* Decide. *)

Ref(r) == [id |-> r.id, name |-> r.name, effect |-> r.effect]

\* evaluate: what traceMatch returns for each of the rules, folded.
Matches(rules, q) == [j \in DOMAIN rules |-> traceMatch(rules[j].cond, q)]
Folding(rules, q, strategy) ==
    LET acc[j \in Nat] ==
            IF j = 0 THEN DefaultDeny
            ELSE Combined(strategy, acc[j - 1], Ref(rules[j]), Matches(rules, q)[j] = "true")
    IN acc
Folded(rules, q, strategy) == Folding(rules, q, strategy)[Len(rules)]

\* A nil snapshot denies; a panic in any rule, the ones after the deciding rule
\* included, is a panic of Decide.
Verdict(q, strategy) ==
    IF serving = NoPolicy THEN "deny"
    ELSE IF \E j \in DOMAIN serving.rules : Matches(serving.rules, q)[j] = "panic" THEN "panic"
    ELSE IF Folded(serving.rules, q, strategy).allow THEN "allow" ELSE "deny"

Decide(q, strategy) ==
    /\ Alive
    /\ decision' = [query |-> q, strategy |-> strategy,
                    verdict |-> Verdict(q, strategy)]
    /\ UNCHANGED <<vars, serving>>

-----------------------------------------------------------------------------
ENext == \/ ParseStep
         \/ Install
         \/ \E d \in Documents : Load(d)
         \/ \E q \in Queries, s \in Strategies : Decide(q, s)

ESpec == EInit /\ [][ENext]_evars

-----------------------------------------------------------------------------
(* What doc.go says a policy means, over the document itself.              *)

WellWrittenPolicy(rs) == \A k \in DOMAIN rs : WellWritten[rs[k].when]

\* 3 for true, 2 for unknown, 1 for false.
ResolvedTo(v, e) == IF KeyOf(v) = "attr" THEN lookup(asString(ValueOf(v)), e)
                                         ELSE Present(asString(ValueOf(v)))
truthNode(j, truth, e) ==
    LET ops == OperandsOf(j)
        truths == {truth[ops[k]] : k \in DOMAIN ops}
    IN CASE KeyOf(j) \in {"eq", "ne"} ->
               LET l == ResolvedTo(ops[1], e)
                   r == ResolvedTo(ops[2], e)
               IN IF ~l.present \/ ~r.present THEN 2
                  ELSE IF (l.value = r.value) <=> KeyOf(j) = "eq" THEN 3 ELSE 1
         [] KeyOf(j) = "all" -> Min(truths)
         [] KeyOf(j) = "any" -> Max(truths)
         [] KeyOf(j) = "not" -> 4 - truth[ops[1]]
Conditions == {j \in Values : IsNode[j]}
TruthOf(e) == LET truth[j \in Conditions] == truthNode(j, truth, e) IN truth
Truth(j, e) == TruthOf(e)[j]

Applies(r, q) == \E k \in DOMAIN q.grants : Truth(r.when, Env(q, k)) = 3
Allows(rs, q, strategy) ==
    LET hits == {k \in DOMAIN rs : Applies(rs[k], q)}
    IN IF strategy = "DenyOverrides"
       THEN hits # {} /\ \A k \in hits : rs[k].effect = "allow"
       ELSE hits # {} /\ rs[Min(hits)].effect = "allow"

-----------------------------------------------------------------------------
(* Properties. *)

\* doc.go, "Authoring a policy bundle": a decision allows exactly when the text of
\* the policy that was serving says so, conditions read in three-valued logic and
\* rules combined as the strategy documents; with no policy it denies.
DecidesAsWritten ==
    decision.verdict \in {"allow", "deny"} =>
        IF serving = NoPolicy THEN decision.verdict = "deny"
        ELSE LET rs == asSlice(serving.doc.body) IN
             WellWrittenPolicy(rs) =>
                (decision.verdict = "allow" <=> Allows(rs, decision.query, decision.strategy))

\* snapshot.go, Load: the snapshot changes only when the document being loaded can be
\* read as a policy, whole and within every limit, and then to that document's rules;
\* whatever else is loaded, the last known-good rules keep deciding.  (That null can be
\* read as the policy of no rules is the subject of ClearedOnlyByArray.)
OnlyGoodInstalled == [][serving' # serving =>
    Readable /\ serving' = [doc |-> doc, rules |-> Meaning]]_evars

\* trace.go, traceCondTri and traceValue: Decide panics on no policy in which values
\* stand under comparisons, and only there.
WellWrittenNeverPanics ==
    decision.verdict = "panic" => ~WellWrittenPolicy(asSlice(serving.doc.body))

\* snapshot.go, Load: "a bad load can therefore never ... crash the engine"; doc.go: "a
\* malformed tree is rejected at parse time".
NeverCrashes == Alive

\* engine.go, parsePolicy: "policy must be a JSON array of rules"; snapshot.go, Load: "A
\* bad load therefore can never [...] clear the policy".  A policy with rules that is
\* serving gives way to nothing but another array of rules.
ClearedOnlyByArray ==
    [][LET serves == serving # NoPolicy /\ serving.rules # <<>>
       IN serves /\ serving' # serving => doc.body.json = "array"]_evars
=============================================================================
