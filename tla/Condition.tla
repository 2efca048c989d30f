------------------------------ MODULE Condition ------------------------------
(***************************************************************************)
(* One call of traceMatch of trace.go, compared with matches of engine.go:  *)
(* a step evaluates the condition tree against the next grant of the query. *)
(***************************************************************************)
EXTENDS Evaluator

CONSTANTS Trees,     \* the conditions to match
          Queries,   \* the queries to match them against
          Guesses    \* assignments of values to attributes the engine lacks

ASSUME ConditionAssumption == /\ Trees \subseteq Nodes
                              /\ \A q \in Queries : Len(q.grants) \in Nat
                                                    /\ DOMAIN q.grants = 1 .. Len(q.grants)

VARIABLES tree, query,   \* the arguments of traceMatch
          attempts,      \* the grants tried, with their condition traces
          outcome        \* what it returned: "true", "false" or "panic"
vars == <<tree, query, attempts, outcome>>

-----------------------------------------------------------------------------
(* traceMatch. *)

Init == /\ tree \in Trees
        /\ query \in Queries
        /\ attempts = <<>>
        /\ outcome = "running"

Tried == Len(attempts)

\* The next grant is tried; the loop ends if it satisfies the condition.
TryGrant ==
    /\ outcome = "running"
    /\ Tried < Len(query.grants)
    /\ LET out == traceCondTri(tree, Env(query, Tried + 1)) IN
          IF out.tri = "panic"
          THEN outcome' = "panic" /\ attempts' = attempts
          ELSE /\ attempts' = Append(attempts, out.trace)
               /\ outcome' = IF out.trace.result THEN "true" ELSE outcome
    /\ UNCHANGED <<tree, query>>

GiveUp == /\ outcome = "running"
          /\ Tried = Len(query.grants)
          /\ outcome' = "false"
          /\ UNCHANGED <<tree, query, attempts>>

Next == TryGrant \/ GiveUp
Spec == Init /\ [][Next]_vars

-----------------------------------------------------------------------------
(* Properties. *)

\* trace.go, traceMatch: it returns the same bool as matches, and every trace it
\* built, at every node, tells what the trace-off evaluator does there.
TraceMirrorsDecision ==
    /\ outcome # "running" => outcome = matches(tree, query)
    /\ \A k \in DOMAIN attempts : attempts[k] = Mirror(tree, Env(query, k))

\* engine.go, evalTri: the rule matches iff for some grant the condition is true in
\* strong Kleene logic; short-circuiting never changes the result.
MatchesIsKleene ==
    WellKinded[tree] /\ outcome # "running" =>
        (outcome = "true" <=> \E k \in DOMAIN query.grants : Rank(tree, Env(query, k)) = 3)

\* engine.go, "absence can never flip into a match": a condition that matches would
\* match whatever values the attributes it lacks had.
AbsenceNeverMatches ==
    WellKinded[tree] /\ outcome = "true" =>
        \A guess \in Guesses : Holds(tree, Env(query, Tried), guess)

\* trace.go, Explain, "calling out absent attributes distinctly": a condition that
\* failed for want of an attribute, and not on its values, shows in its lines which
\* one, whatever the short-circuit left out; and no comparison that lacks one is
\* shown as true.
UnknownShowsAbsent ==
    WellKinded[tree] =>
        \A k \in DOMAIN attempts :
            LET lines == renderCond(tree, Env(query, k))
            IN /\ evalTri(tree, Env(query, k)) = "unknown" =>
                     \E l \in lines : l.absent # {}
               /\ \A l \in lines : l.absent # {} => ~l.result
=============================================================================
