------------------------------ MODULE Evaluator ------------------------------
(***************************************************************************)
(* The two evaluators of condition trees: evalTri of engine.go on the       *)
(* trace-off path, traceCondTri of trace.go on the path every Decide takes. *)
(* A Go panic is the result "panic", which ends every evaluation around it. *)
(* Each recursive function is written as what it does at one node, and as   *)
(* the function on nodes that this defines.  The second evaluator is a copy *)
(* of the first in the code, which shares the lookup of attributes and the  *)
(* comparison of two strings only, and a copy of it here.                   *)
(***************************************************************************)
EXTENDS Tree, Naturals, SequencesExt

CONSTANTS Nodes,     \* condition nodes, those below each of them included
          height     \* how high a tree each of them is

\* What parseNode builds: "and" and "or" over one node or more, "not" over one; a kid
\* of a bool node may also be a value node, and an operand of a cmp node any node.
ASSUME NodeAssumption ==
    /\ height \in [Nodes -> Nat]
    /\ \A n \in Nodes :
          /\ n.kind \in {"attr", "lit", "cmp", "bool"}
          /\ n.kind = "cmp" => n.op \in {"==", "!="}
          /\ n.kind = "bool" =>
                /\ n.op \in {"and", "or", "not"}
                /\ n.kids \in Seq(Nodes) /\ n.kids # <<>>
                /\ n.op = "not" => Len(n.kids) = 1
                /\ \A k \in DOMAIN n.kids : height[n.kids[k]] < height[n]

\* An environment is the query's need and scope with one of its grants.
Env(q, k) == [need |-> q.need, scope |-> q.scope, grant |-> q.grants[k]]

Present(v) == [present |-> TRUE, value |-> v]
Absent == [present |-> FALSE, value |-> ""]

\* The five attributes the engine exposes; any other is absent.
lookup(name, e) ==
    CASE name = "need" -> Present(e.need)
      [] name = "scope" -> Present(e.scope)
      [] name = "grant.cap" -> Present(e.grant.cap)
      [] name = "grant.scope" -> Present(e.grant.scope)
      [] name = "grant.effect" -> Present(e.grant.effect)
      [] OTHER -> Absent

IsValue(n) == n.kind \in {"attr", "lit"}
evalValue(n, e) == IF n.kind = "attr" THEN lookup(n.name, e) ELSE Present(n.value)

triOf(b) == IF b THEN "true" ELSE "false"
applyCmp(op, l, r) == IF op = "==" THEN l = r ELSE l # r

\* A comparison: an operand that is not a value node panics, an absent one makes the
\* result unknown.
compare(n, e) ==
    IF ~IsValue(n.left) \/ ~IsValue(n.right) THEN "panic"
    ELSE LET l == evalValue(n.left, e)
             r == evalValue(n.right, e)
         IN IF ~l.present \/ ~r.present THEN "unknown"
            ELSE triOf(applyCmp(n.op, l.value, r.value))

negate(t) == CASE t = "true" -> "false" [] t = "false" -> "true" [] OTHER -> t

\* The loop over the kids of an "and" (stop = "false") or an "or" (stop = "true"):
\* how many results it looks at, and what it returns.
Looked(results, stop) ==
    LET ends == {k \in DOMAIN results : results[k] \in {stop, "panic"}}
    IN IF ends = {} THEN Len(results) ELSE Min(ends)
\* Mutant: an unknown kid ends the loop too.
LoopUnknownFirst(results, stop, otherwise) ==
    LET n == Looked(results, stop)
        before == {results[k] : k \in 1 .. n}
    IN CASE "unknown" \in before /\ "panic" \notin before -> "unknown"
         [] n > 0 /\ results[n] \in {stop, "panic"}
                  /\ ("unknown" \notin before \/ "panic" \in before) -> results[n]
         [] OTHER -> otherwise

Loop(results, stop, otherwise) ==
    LET n == Looked(results, stop)
    IN CASE n > 0 /\ results[n] \in {stop, "panic"} -> results[n]
         [] n > 0 /\ results[n] \notin {stop, "panic"} /\ "unknown" \in {results[k] : k \in 1 .. n}
              -> "unknown"
         [] OTHER -> otherwise
StopOf(op) == IF op = "and" THEN "false" ELSE "true"

-----------------------------------------------------------------------------
(* The trace-off path. *)

\* evalTri at one node, tri giving what it returns for the nodes below.
evalNode(n, tri, e) ==
    CASE n.kind = "cmp" -> compare(n, e)
      [] n.kind = "bool" /\ n.op = "not" -> negate(tri[n.kids[1]])
      [] n.kind = "bool" /\ n.op # "not" ->
            Loop([k \in DOMAIN n.kids |-> tri[n.kids[k]]], StopOf(n.op), negate(StopOf(n.op)))
      [] OTHER -> "panic"

Evaluated(e) == LET tri[n \in Nodes] == evalNode(n, tri, e) IN tri
evalTri(n, e) == Evaluated(e)[n]

\* The loop of matches over the grants: true at the first that satisfies.
matches(n, q) ==
    LET results == [k \in DOMAIN q.grants |-> evalTri(n, Env(q, k))]
        ends == {k \in DOMAIN results : results[k] \in {"true", "panic"}}
    IN IF ends = {} THEN "false" ELSE results[Min(ends)]

-----------------------------------------------------------------------------
(* The traced path.  A CondTrace has the node's operator, its Boolean Result *)
(* and, for a comparison, its operands, or the traces of the kids it looked  *)
(* at.  tri is what traceCondTri returns beside it.                          *)

valueTrace(n, e) ==
    [node |-> n, resolved |-> IF n.kind = "attr" THEN lookup(n.name, e) ELSE Present(n.value)]

\* Mutant: an absent operand is a fault of the policy.
traceCmpPresent(n, e) ==
    LET l == valueTrace(n.left, e)
        r == valueTrace(n.right, e)
        t == IF ~l.resolved.present \/ ~r.resolved.present THEN "panic"
             ELSE triOf(applyCmp(n.op, l.resolved.value, r.resolved.value))
    IN [tri |-> t, trace |-> [op |-> n.op, result |-> t = "true", kids |-> <<>>,
                              left |-> l, right |-> r]]

traceCmp(n, e) ==
    LET l == valueTrace(n.left, e)
        r == valueTrace(n.right, e)
        t == IF ~l.resolved.present \/ ~r.resolved.present THEN "unknown"
             ELSE triOf(applyCmp(n.op, l.resolved.value, r.resolved.value))
    IN [tri |-> t, trace |-> [op |-> n.op, result |-> t = "true", kids |-> <<>>,
                              left |-> l, right |-> r]]

\* The kids the loop of an "and" (stop = "false") or an "or" (stop = "true") comes to.
Reached(tris, stop) ==
    {k \in DOMAIN tris : \A l \in 1 .. k - 1 : tris[l] \notin {stop, "panic"}}

\* Mutant: an unknown kid is forgotten at the next one that is not.
traceLoopForgets(n, traced, start, stop) ==
    LET tris == [k \in DOMAIN n.kids |-> traced[n.kids[k]].tri]
        reached == Reached(tris, stop)
        found == {tris[k] : k \in reached}
        t == IF "panic" \in found THEN "panic"
             ELSE IF stop \in found THEN stop
             ELSE IF tris[Len(tris)] = "unknown" THEN "unknown" ELSE start
    IN [tri |-> t, trace |-> [op |-> n.op, result |-> t = "true",
                              kids |-> [k \in reached |-> traced[n.kids[k]].trace]]]

\* That loop: it starts from start, and an unknown kid is not forgotten.
traceLoop(n, traced, start, stop) ==
    LET tris == [k \in DOMAIN n.kids |-> traced[n.kids[k]].tri]
        reached == Reached(tris, stop)
        found == {tris[k] : k \in reached}
        t == IF "panic" \in found THEN "panic"
             ELSE IF stop \in found THEN stop
             ELSE IF "unknown" \in found THEN "unknown" ELSE start
    IN [tri |-> t, trace |-> [op |-> n.op, result |-> t = "true",
                              kids |-> [k \in reached |-> traced[n.kids[k]].trace]]]

\* Mutant: whatever is not true is false to "not".
traceNotTwoValued(n, traced) ==
    LET kid == traced[n.kids[1]]
        t == CASE kid.tri = "true" -> "false"
               [] kid.tri = "panic" -> "panic"
               [] OTHER -> "true"
    IN [tri |-> t, trace |-> [op |-> n.op, result |-> t = "true", kids |-> <<kid.trace>>]]

traceNot(n, traced) ==
    LET kid == traced[n.kids[1]]
        t == CASE kid.tri = "true" -> "false"
               [] kid.tri = "false" -> "true"
               [] kid.tri = "panic" -> "panic"
               [] OTHER -> "unknown"
    IN [tri |-> t, trace |-> [op |-> n.op, result |-> t = "true", kids |-> <<kid.trace>>]]

\* traceCondTri at one node, traced giving what it returns for the nodes below.
traceNode(n, traced, e) ==
    CASE n.kind = "cmp" /\ IsValue(n.left) /\ IsValue(n.right) -> traceCmp(n, e)
      [] n.kind = "bool" /\ n.op = "and" -> traceLoop(n, traced, "true", "false")
      [] n.kind = "bool" /\ n.op = "or" -> traceLoop(n, traced, "false", "true")
      [] n.kind = "bool" /\ n.op = "not" -> traceNot(n, traced)
      [] OTHER -> [tri |-> "panic", trace |-> [op |-> "", result |-> FALSE, kids |-> <<>>]]

Traced(e) == LET traced[n \in Nodes] == traceNode(n, traced, e) IN traced
traceCondTri(n, e) == Traced(e)[n]

\* What the loop of traceMatch over the grants returns.
traceMatch(n, q) ==
    LET outs == [k \in DOMAIN q.grants |-> traceCondTri(n, Env(q, k))]
        ends == {k \in DOMAIN outs : outs[k].tri = "panic" \/ outs[k].trace.result}
    IN IF ends = {} THEN "false"
       ELSE IF outs[Min(ends)].tri = "panic" THEN "panic" ELSE "true"

\* Mutant: the left operand is forgotten.
absentOperandsRight(t) == {v.node.name : v \in {u \in {t.right} : ~u.resolved.present}}

\* A literal is always present.
absentOperands(t) == {v.node.name : v \in {u \in {t.left, t.right} : ~u.resolved.present}}

\* The lines renderCond makes of the trace of a node: its own and those of the kids
\* in the trace.
renderNode(n, lines, e) ==
    LET t == traceCondTri(n, e).trace
    IN {[op |-> t.op, result |-> t.result,
         absent |-> IF n.kind = "cmp" THEN absentOperands(t) ELSE {}]}
         \cup UNION {lines[n.kids[k]] : k \in DOMAIN t.kids}

Rendered(e) == LET lines[n \in Nodes] == renderNode(n, lines, e) IN lines
renderCond(n, e) == Rendered(e)[n]

-----------------------------------------------------------------------------
(* References: what the documentation says of conditions. *)

\* Value nodes only under comparisons, and only there.
WellKinded[n \in Nodes] ==
    \/ n.kind = "cmp" /\ IsValue(n.left) /\ IsValue(n.right)
    \/ n.kind = "bool" /\ \A k \in DOMAIN n.kids : WellKinded[n.kids[k]]

\* Strong Kleene logic: conjunction is the least of its operands, disjunction
\* the greatest, in the order false < unknown < true.
rankNode(n, rank, e) ==
    CASE n.kind = "cmp" ->
            LET l == evalValue(n.left, e)
                r == evalValue(n.right, e)
            IN CASE ~(l.present /\ r.present) -> 2
                 [] l.present /\ r.present /\ ((l.value = r.value) <=> n.op = "==") -> 3
                 [] OTHER -> 1
      [] n.kind = "bool" /\ n.op = "not" -> 4 - rank[n.kids[1]]
      [] n.kind = "bool" /\ n.op = "and" -> Min({rank[n.kids[k]] : k \in DOMAIN n.kids})
      [] n.kind = "bool" /\ n.op = "or" -> Max({rank[n.kids[k]] : k \in DOMAIN n.kids})
Ranked(e) == LET rank[n \in Nodes] == rankNode(n, rank, e) IN rank
Rank(n, e) == Ranked(e)[n]

\* Two-valued logic, were the absent attributes to have the values guessed.
ValueOr(v, e, guess) == IF evalValue(v, e).present THEN evalValue(v, e).value ELSE guess[v.name]
holdsNode(n, holds, e, guess) ==
    CASE n.kind = "cmp" -> (ValueOr(n.left, e, guess) = ValueOr(n.right, e, guess)) <=> n.op = "=="
      [] n.kind = "bool" /\ n.op = "not" -> ~holds[n.kids[1]]
      [] n.kind = "bool" /\ n.op = "and" -> \A k \in DOMAIN n.kids : holds[n.kids[k]]
      [] n.kind = "bool" /\ n.op = "or" -> \E k \in DOMAIN n.kids : holds[n.kids[k]]
Holding(e, guess) == LET holds[n \in Nodes] == holdsNode(n, holds, e, guess) IN holds
Holds(n, e, guess) == Holding(e, guess)[n]

\* The trace that mirrors the evaluation of a node: same operator, the Result of
\* evalBool, the operands as they resolve, a trace for each kid up to the first that
\* settles the node, and none past it.
Settling(n, e) == {k \in DOMAIN n.kids : n.op # "not" /\ evalTri(n.kids[k], e) = StopOf(n.op)}
mirrorNode(n, mirror, e) ==
    CASE n.kind = "cmp" ->
            [op |-> n.op, result |-> evalTri(n, e) = "true", kids |-> <<>>,
             left |-> [node |-> n.left, resolved |-> evalValue(n.left, e)],
             right |-> [node |-> n.right, resolved |-> evalValue(n.right, e)]]
      [] n.kind = "bool" ->
            LET last == IF Settling(n, e) = {} THEN Len(n.kids) ELSE Min(Settling(n, e))
            IN [op |-> n.op, result |-> evalTri(n, e) = "true",
                kids |-> [k \in 1 .. last |-> mirror[n.kids[k]]]]
Mirrored(e) == LET mirror[n \in Nodes] == mirrorNode(n, mirror, e) IN mirror
Mirror(n, e) == Mirrored(e)[n]
=============================================================================
