--------------------------- MODULE EvaluatorProofs ---------------------------
(* Lemmas about the evaluators, for any condition trees, environments and   *)
(* values of the attributes.  The evaluators are recursive functions on the  *)
(* nodes: what they satisfy at each node is proved by induction on trees.    *)
EXTENDS Evaluator, SequenceTheorems, TLAPS

\* The nodes an evaluator goes on to from a node.
Operands(n) == IF n.kind = "bool" THEN {n.kids[k] : k \in DOMAIN n.kids} ELSE {}

\* The recursions of the Evaluator, in the form TreeRecursion has them.
kindedNode(n, kinded, e) ==
    \/ n.kind = "cmp" /\ IsValue(n.left) /\ IsValue(n.right)
    \/ n.kind = "bool" /\ \A k \in DOMAIN n.kids : kinded[n.kids[k]]
guessNode(n, holds, x) == holdsNode(n, holds, x[1], x[2])

Eval == INSTANCE TreeRecursion WITH Below <- Operands, Step <- evalNode
Trace == INSTANCE TreeRecursion WITH Below <- Operands, Step <- traceNode
Render == INSTANCE TreeRecursion WITH Below <- Operands, Step <- renderNode
Kind == INSTANCE TreeRecursion WITH Below <- Operands, Step <- kindedNode
Kleene == INSTANCE TreeRecursion WITH Below <- Operands, Step <- rankNode
Guess == INSTANCE TreeRecursion WITH Below <- Operands, Step <- guessNode
Shown == INSTANCE TreeRecursion WITH Below <- Operands, Step <- mirrorNode

-----------------------------------------------------------------------------
(* Trees, and the functions recursively defined on them. *)

\* The kids of a node that combines others.
LEMMA Kids ==
    ASSUME NEW n \in Nodes, n.kind = "bool"
    PROVE  /\ n.op \in {"and", "or", "not"}
           /\ Len(n.kids) \in Nat \ {0} /\ DOMAIN n.kids = 1 .. Len(n.kids)
           /\ n.op = "not" => DOMAIN n.kids = 1 .. 1
           /\ \A k \in DOMAIN n.kids : n.kids[k] \in Nodes /\ n.kids[k] \in Operands(n)
           /\ 1 \in DOMAIN n.kids
<1>1. n.kids \in Seq(Nodes) /\ n.kids # <<>>
  BY NodeAssumption
<1>2. Len(n.kids) \in Nat \ {0} /\ DOMAIN n.kids = 1 .. Len(n.kids)
  BY <1>1, LenProperties, EmptySeq
<1>3. \A k \in DOMAIN n.kids : n.kids[k] \in Nodes
  BY <1>1, <1>2, ElementOfSeq
<1> QED BY <1>2, <1>3, NodeAssumption DEF Operands

\* Each node is higher than those below it.
LEMMA Founded ==
    /\ Eval!Founded /\ Trace!Founded /\ Render!Founded /\ Kind!Founded
    /\ Kleene!Founded /\ Guess!Founded /\ Shown!Founded
<1>1. height \in [Nodes -> Nat]
  BY NodeAssumption
<1>2. ASSUME NEW n \in Nodes, NEW k \in Operands(n)
      PROVE  k \in Nodes /\ height[k] < height[n]
  <2>1. n.kind = "bool" /\ \E i \in DOMAIN n.kids : k = n.kids[i]
    BY <1>2 DEF Operands
  <2> QED BY <2>1, Kids, NodeAssumption
<1> QED BY <1>1, <1>2 DEF Eval!Founded, Trace!Founded, Render!Founded, Kind!Founded,
                       Kleene!Founded, Guess!Founded, Shown!Founded

\* What holds of a node when it holds of its operands holds of every node.
LEMMA TreeInduction ==
    ASSUME NEW S, \A n \in Nodes : (\A k \in Operands(n) : k \in S) => n \in S
    PROVE  Nodes \subseteq S
BY Founded, Eval!TreeInduction

\* A nonempty set of numbers has a least one, which Min chooses.
LEMMA MinSpec ==
    ASSUME NEW T \in SUBSET Nat, T # {}
    PROVE  Min(T) \in T /\ \A k \in T : Min(T) <= k
BY Eval!LeastOf DEF Min

\* The loop over the kids looks at one at least, and ends at the first that ends it.
LEMMA LookedSpec ==
    ASSUME NEW m \in Nat \ {0}, NEW R, NEW results \in [1 .. m -> R], NEW stop
    PROVE  /\ Len(results) = m
           /\ Looked(results, stop) \in 1 .. m
           /\ \A k \in 1 .. m :
                 k < Looked(results, stop) => results[k] \notin {stop, "panic"}
           /\ \/ results[Looked(results, stop)] \in {stop, "panic"}
              \/ \A k \in 1 .. m : results[k] \notin {stop, "panic"}
<1> DEFINE ends == {k \in DOMAIN results : results[k] \in {stop, "panic"}}
<1>1. Len(results) = m /\ DOMAIN results = 1 .. m
  <2>1. results \in Seq(R)
    BY SeqDef
  <2>2. Len(results) \in Nat /\ DOMAIN results = 1 .. Len(results)
    BY <2>1, LenProperties
  <2> QED BY <2>2
<1>2. ends \in SUBSET Nat
  BY <1>1
<1>3. CASE ends = {}
  BY <1>1, <1>3 DEF Looked
<1>4. CASE ends # {}
  <2>1. Min(ends) \in ends /\ \A k \in ends : Min(ends) <= k
    BY <1>2, <1>4, MinSpec
  <2>2. Looked(results, stop) = Min(ends)
    BY <1>4 DEF Looked
  <2>3. Min(ends) \in 1 .. m /\ results[Min(ends)] \in {stop, "panic"}
    BY <1>1, <2>1
  <2>4. \A k \in 1 .. m : k < Min(ends) => k \notin ends
    BY <2>1, <2>3
  <2> QED BY <1>1, <2>2, <2>3, <2>4
<1> QED BY <1>3, <1>4

LEMMA EvalUnfolds ==
    \A e : Evaluated(e) = [n \in Nodes |-> evalNode(n, Evaluated(e), e)]
<1>1. Eval!Local
  <2> SUFFICES ASSUME NEW n \in Nodes, NEW f, NEW g, NEW e,
                      \A k \in Operands(n) : f[k] = g[k]
               PROVE  evalNode(n, f, e) = evalNode(n, g, e)
    BY DEF Eval!Local
  <2>1. CASE n.kind = "bool"
    <3>1. \A k \in DOMAIN n.kids : f[n.kids[k]] = g[n.kids[k]]
      BY <2>1, Kids
    <3>2. [k \in DOMAIN n.kids |-> f[n.kids[k]]] = [k \in DOMAIN n.kids |-> g[n.kids[k]]]
      BY <3>1
    <3>3. f[n.kids[1]] = g[n.kids[1]]
      BY <2>1, <3>1, Kids
    <3> QED BY <2>1, <3>2, <3>3 DEF evalNode
  <2>2. CASE n.kind # "bool"
    BY <2>2 DEF evalNode
  <2> QED BY <2>1, <2>2
<1>2. \A e : \E f : f = [n \in Nodes |-> evalNode(n, f, e)]
  BY <1>1, Founded, Eval!TreeRecursive
<1> QED BY <1>2 DEF Evaluated

\* The traced loop comes to the kids the other one looks at, and returns the same.
LEMMA ReachedSpec ==
    ASSUME NEW m \in Nat \ {0}, NEW R, NEW results \in [1 .. m -> R], NEW stop
    PROVE  Reached(results, stop) = 1 .. Looked(results, stop)
<1> DEFINE n == Looked(results, stop)
<1>1. /\ n \in 1 .. m
      /\ \A k \in 1 .. m : k < n => results[k] \notin {stop, "panic"}
      /\ \/ results[n] \in {stop, "panic"}
         \/ \A k \in 1 .. m : results[k] \notin {stop, "panic"}
  BY LookedSpec
<1>2. DOMAIN results = 1 .. m
  OBVIOUS
<1>3. n < m => results[n] \in {stop, "panic"}
  <2> SUFFICES ASSUME n < m, \A k \in 1 .. m : results[k] \notin {stop, "panic"} PROVE FALSE
    BY <1>1
  <2>1. Len(results) = m /\ {k \in DOMAIN results : results[k] \in {stop, "panic"}} = {}
    BY <1>2, LookedSpec
  <2>2. n = m
    BY <2>1 DEF Looked
  <2> QED BY <1>1, <2>2
<1> HIDE DEF n
<1>4. ASSUME NEW k \in 1 .. n
      PROVE  k \in Reached(results, stop)
  <2>1. k \in 1 .. m /\ \A l \in 1 .. k - 1 : l \in 1 .. m /\ l < n
    BY <1>1
  <2> QED BY <1>1, <1>2, <2>1 DEF Reached
<1>5. ASSUME NEW k \in Reached(results, stop), k \notin 1 .. n
      PROVE  FALSE
  <2>1. k \in 1 .. m /\ \A l \in 1 .. k - 1 : results[l] \notin {stop, "panic"}
    BY <1>2 DEF Reached
  <2>2. n \in 1 .. k - 1 /\ n < m
    BY <1>1, <1>5, <2>1
  <2> QED BY <1>3, <2>1, <2>2
<1> QED BY <1>4, <1>5 DEF n

LEMMA TraceUnfolds ==
    \A e : Traced(e) = [n \in Nodes |-> traceNode(n, Traced(e), e)]
<1>1. Trace!Local
  <2> SUFFICES ASSUME NEW n \in Nodes, NEW f, NEW g, NEW e,
                      \A k \in Operands(n) : f[k] = g[k]
               PROVE  traceNode(n, f, e) = traceNode(n, g, e)
    BY DEF Trace!Local
  <2>1. CASE n.kind = "bool"
    <3>1. \A k \in DOMAIN n.kids : f[n.kids[k]] = g[n.kids[k]]
      BY <2>1, Kids
    <3>2. traceNot(n, f) = traceNot(n, g)
      BY <2>1, <3>1, Kids DEF traceNot
    <3>3. ASSUME NEW start, NEW stop
          PROVE  traceLoop(n, f, start, stop) = traceLoop(n, g, start, stop)
      <4> DEFINE tris(h) == [k \in DOMAIN n.kids |-> h[n.kids[k]].tri]
                 kids(h) == [k \in Reached(tris(h), stop) |-> h[n.kids[k]].trace]
                 found(h) == {tris(h)[k] : k \in Reached(tris(h), stop)}
                 t(h) == IF "panic" \in found(h) THEN "panic"
                         ELSE IF stop \in found(h) THEN stop
                         ELSE IF "unknown" \in found(h) THEN "unknown" ELSE start
      <4>1. tris(f) = tris(g)
        BY <3>1
      <4>2. Reached(tris(f), stop) \subseteq DOMAIN n.kids
        BY DEF Reached
      <4>3. kids(f) = kids(g)
        BY <3>1, <4>1, <4>2
      <4>4. t(f) = t(g)
        <5>1. found(f) = found(g)
          BY <4>1
        <5> HIDE DEF found
        <5> QED BY <5>1
      <4>5. \A h : traceLoop(n, h, start, stop) =
                      [tri |-> t(h), trace |-> [op |-> n.op, result |-> t(h) = "true",
                                                kids |-> kids(h)]]
        BY DEF traceLoop
      <4> HIDE DEF kids, t
      <4> QED BY <4>3, <4>4, <4>5
    <3> QED BY <2>1, <3>2, <3>3 DEF traceNode
  <2>2. CASE n.kind # "bool"
    BY <2>2 DEF traceNode
  <2> QED BY <2>1, <2>2
<1>2. \A e : \E f : f = [n \in Nodes |-> traceNode(n, f, e)]
  BY <1>1, Founded, Trace!TreeRecursive
<1> QED BY <1>2 DEF Traced

\* A trace has a kid for some of the kids of its node.
LEMMA TraceShape ==
    ASSUME NEW n \in Nodes, NEW e
    PROVE  LET t == traceCondTri(n, e).trace
           IN /\ n.kind = "bool" => DOMAIN t.kids \subseteq DOMAIN n.kids
              /\ n.kind # "bool" => t.kids = <<>>
<1> DEFINE out == traceNode(n, Traced(e), e)
<1>1. traceCondTri(n, e) = out
  BY TraceUnfolds DEF traceCondTri
<1>2. ASSUME n.kind = "bool"
      PROVE  DOMAIN out.trace.kids \subseteq DOMAIN n.kids
  <2>1. CASE n.op = "not"
    <3>1. out = traceNot(n, Traced(e))
      BY <1>2, <2>1 DEF traceNode
    <3>2. out.trace.kids = <<Traced(e)[n.kids[1]].trace>>
      BY <3>1 DEF traceNot
    <3>3. DOMAIN out.trace.kids = {1}
      BY <3>2
    <3> QED BY <1>2, <3>3, Kids
  <2>2. ASSUME NEW start, NEW stop, out = traceLoop(n, Traced(e), start, stop)
        PROVE  DOMAIN out.trace.kids \subseteq DOMAIN n.kids
    <3> DEFINE tris == [k \in DOMAIN n.kids |-> Traced(e)[n.kids[k]].tri]
               kids == [k \in Reached(tris, stop) |-> Traced(e)[n.kids[k]].trace]
               found == {tris[k] : k \in Reached(tris, stop)}
               t == IF "panic" \in found THEN "panic"
                    ELSE IF stop \in found THEN stop
                    ELSE IF "unknown" \in found THEN "unknown" ELSE start
    <3>1. out = [tri |-> t, trace |-> [op |-> n.op, result |-> t = "true", kids |-> kids]]
      BY <2>2 DEF traceLoop
    <3>2. DOMAIN out.trace.kids = Reached(tris, stop)
      <4>1. DOMAIN kids = Reached(tris, stop)
        OBVIOUS
      <4> HIDE DEF out, t, kids
      <4> QED BY <3>1, <4>1
    <3> QED BY <3>2 DEF Reached
  <2>3. n.op # "not" => \/ out = traceLoop(n, Traced(e), "true", "false")
                        \/ out = traceLoop(n, Traced(e), "false", "true")
    BY <1>2, Kids DEF traceNode
  <2> QED BY <2>1, <2>2, <2>3
<1>3. ASSUME n.kind # "bool"
      PROVE  out.trace.kids = <<>>
  BY <1>3 DEF traceNode, traceCmp
<1> HIDE DEF out
<1> QED BY <1>1, <1>2, <1>3

LEMMA RenderUnfolds ==
    \A e : Rendered(e) = [n \in Nodes |-> renderNode(n, Rendered(e), e)]
<1>1. Render!Local
  <2> SUFFICES ASSUME NEW n \in Nodes, NEW f, NEW g, NEW e,
                      \A k \in Operands(n) : f[k] = g[k]
               PROVE  renderNode(n, f, e) = renderNode(n, g, e)
    BY DEF Render!Local
  <2> DEFINE t == traceCondTri(n, e).trace
  <2>1. \A k \in DOMAIN t.kids : f[n.kids[k]] = g[n.kids[k]]
    BY TraceShape, Kids
  <2>2. {f[n.kids[k]] : k \in DOMAIN t.kids} = {g[n.kids[k]] : k \in DOMAIN t.kids}
    BY <2>1
  <2> QED BY <2>2 DEF renderNode
<1>2. \A e : \E f : f = [n \in Nodes |-> renderNode(n, f, e)]
  BY <1>1, Founded, Render!TreeRecursive
<1> QED BY <1>2 DEF Rendered

LEMMA KindedUnfolds ==
    ASSUME NEW n \in Nodes
    PROVE  WellKinded[n] <=>
              \/ n.kind = "cmp" /\ IsValue(n.left) /\ IsValue(n.right)
              \/ n.kind = "bool" /\ \A k \in DOMAIN n.kids : WellKinded[n.kids[k]]
<1>1. Kind!Local
  <2> SUFFICES ASSUME NEW m \in Nodes, NEW f, NEW g, NEW e,
                      \A k \in Operands(m) : f[k] = g[k]
               PROVE  kindedNode(m, f, e) = kindedNode(m, g, e)
    BY DEF Kind!Local
  <2> QED BY Kids DEF kindedNode
<1>2. \A e : \E f : f = [m \in Nodes |-> kindedNode(m, f, e)]
  BY <1>1, Founded, Kind!TreeRecursive
<1>3. WellKinded = [m \in Nodes |-> kindedNode(m, WellKinded, 0)]
  BY <1>2 DEF WellKinded, kindedNode
<1>4. WellKinded[n] = kindedNode(n, WellKinded, 0)
  BY <1>3
<1> QED BY <1>4 DEF kindedNode

LEMMA RankUnfolds ==
    \A e : Ranked(e) = [n \in Nodes |-> rankNode(n, Ranked(e), e)]
<1>1. Kleene!Local
  <2> SUFFICES ASSUME NEW n \in Nodes, NEW f, NEW g, NEW e,
                      \A k \in Operands(n) : f[k] = g[k]
               PROVE  rankNode(n, f, e) = rankNode(n, g, e)
    BY DEF Kleene!Local
  <2>1. CASE n.kind = "bool"
    <3>1. \A k \in DOMAIN n.kids : f[n.kids[k]] = g[n.kids[k]]
      BY <2>1, Kids
    <3>2. {f[n.kids[k]] : k \in DOMAIN n.kids} = {g[n.kids[k]] : k \in DOMAIN n.kids}
      BY <3>1
    <3>3. f[n.kids[1]] = g[n.kids[1]]
      BY <2>1, <3>1, Kids
    <3> QED BY <2>1, <3>2, <3>3, Kids DEF rankNode
  <2>2. CASE n.kind = "cmp"
    BY <2>2 DEF rankNode
  <2>3. CASE n.kind \notin {"bool", "cmp"}
    BY <2>3 DEF rankNode
  <2> QED BY <2>1, <2>2, <2>3
<1>2. \A e : \E f : f = [n \in Nodes |-> rankNode(n, f, e)]
  BY <1>1, Founded, Kleene!TreeRecursive
<1> QED BY <1>2 DEF Ranked

LEMMA HoldsUnfolds ==
    \A e, guess : Holding(e, guess) =
                    [n \in Nodes |-> holdsNode(n, Holding(e, guess), e, guess)]
<1>1. Guess!Local
  <2> SUFFICES ASSUME NEW n \in Nodes, NEW f, NEW g, NEW x,
                      \A k \in Operands(n) : f[k] = g[k]
               PROVE  guessNode(n, f, x) = guessNode(n, g, x)
    BY DEF Guess!Local
  <2>1. CASE n.kind = "bool"
    <3>1. \A k \in DOMAIN n.kids : f[n.kids[k]] = g[n.kids[k]]
      BY <2>1, Kids
    <3>2. f[n.kids[1]] = g[n.kids[1]]
      BY <2>1, <3>1, Kids
    <3> QED BY <2>1, <3>1, <3>2, Kids DEF guessNode, holdsNode
  <2>2. CASE n.kind = "cmp"
    BY <2>2 DEF guessNode, holdsNode
  <2>3. CASE n.kind \notin {"bool", "cmp"}
    BY <2>3 DEF guessNode, holdsNode
  <2> QED BY <2>1, <2>2, <2>3
<1>2. \A x : \E f : f = [n \in Nodes |-> guessNode(n, f, x)]
  BY <1>1, Founded, Guess!TreeRecursive
<1> TAKE e, guess
<1>3. PICK f : f = [n \in Nodes |-> guessNode(n, f, <<e, guess>>)]
  BY <1>2
<1>4. \A n : guessNode(n, f, <<e, guess>>) = holdsNode(n, f, e, guess)
  BY DEF guessNode
<1>5. \E g : g = [n \in Nodes |-> holdsNode(n, g, e, guess)]
  BY <1>3, <1>4
<1> QED BY <1>5 DEF Holding

LEMMA MirrorUnfolds ==
    \A e : Mirrored(e) = [n \in Nodes |-> mirrorNode(n, Mirrored(e), e)]
<1>1. Shown!Local
  <2> SUFFICES ASSUME NEW n \in Nodes, NEW f, NEW g, NEW e,
                      \A k \in Operands(n) : f[k] = g[k]
               PROVE  mirrorNode(n, f, e) = mirrorNode(n, g, e)
    BY DEF Shown!Local
  <2>1. CASE n.kind = "bool"
    <3> DEFINE last == IF Settling(n, e) = {} THEN Len(n.kids) ELSE Min(Settling(n, e))
    <3>1. last \in 1 .. Len(n.kids)
      <4>1. Settling(n, e) \subseteq 1 .. Len(n.kids)
        BY <2>1, Kids DEF Settling
      <4>2. CASE Settling(n, e) # {}
        <5>1. Min(Settling(n, e)) \in Settling(n, e)
          BY <4>1, <4>2, MinSpec
        <5> QED BY <4>1, <4>2, <5>1
      <4>3. CASE Settling(n, e) = {}
        BY <2>1, <4>3, Kids
      <4> QED BY <4>2, <4>3
    <3>2. \A k \in 1 .. last : f[n.kids[k]] = g[n.kids[k]]
      BY <2>1, <3>1, Kids
    <3>3. [k \in 1 .. last |-> f[n.kids[k]]] = [k \in 1 .. last |-> g[n.kids[k]]]
      BY <3>2
    <3> QED BY <2>1, <3>3 DEF mirrorNode
  <2>2. CASE n.kind = "cmp"
    BY <2>2 DEF mirrorNode
  <2>3. CASE n.kind \notin {"bool", "cmp"}
    BY <2>3 DEF mirrorNode
  <2> QED BY <2>1, <2>2, <2>3
<1>2. \A e : \E f : f = [n \in Nodes |-> mirrorNode(n, f, e)]
  BY <1>1, Founded, Shown!TreeRecursive
<1> QED BY <1>2 DEF Mirrored

-----------------------------------------------------------------------------
(* What the evaluators do at a node. *)

Tri == {"true", "false", "unknown", "panic"}

LEMMA EvalAt ==
    ASSUME NEW n \in Nodes, NEW e
    PROVE  /\ n.kind = "cmp" => evalTri(n, e) = compare(n, e)
           /\ n.kind = "bool" /\ n.op = "not" => evalTri(n, e) = negate(evalTri(n.kids[1], e))
           /\ n.kind = "bool" /\ n.op # "not" =>
                 evalTri(n, e) = Loop([k \in DOMAIN n.kids |-> evalTri(n.kids[k], e)],
                                      StopOf(n.op), negate(StopOf(n.op)))
           /\ n.kind \notin {"cmp", "bool"} => evalTri(n, e) = "panic"
<1>1. evalTri(n, e) = evalNode(n, Evaluated(e), e)
  BY EvalUnfolds DEF evalTri
<1>2. CASE n.kind = "cmp"
  BY <1>1, <1>2 DEF evalNode
<1>3. CASE n.kind = "bool" /\ n.op = "not"
  BY <1>1, <1>3 DEF evalNode, evalTri
<1>4. CASE n.kind = "bool" /\ n.op # "not"
  BY <1>1, <1>4 DEF evalNode, evalTri
<1>5. CASE n.kind \notin {"cmp", "bool"}
  BY <1>1, <1>5 DEF evalNode
<1> QED BY <1>2, <1>3, <1>4, <1>5

\* A loop that does not panic has looked at no kid that does.
LEMMA LoopSpec ==
    ASSUME NEW m \in Nat \ {0}, NEW results \in [1 .. m -> Tri], NEW stop \in {"true", "false"}
    PROVE  /\ Loop(results, stop, negate(stop)) \in Tri
           /\ Loop(results, stop, negate(stop)) # "panic" =>
                 \A k \in 1 .. Looked(results, stop) : results[k] # "panic"
           /\ Loop(results, stop, negate(stop)) = "unknown" =>
                 \E k \in 1 .. Looked(results, stop) : results[k] = "unknown"
<1> DEFINE n == Looked(results, stop)
<1>1. /\ n \in 1 .. m
      /\ \A k \in 1 .. m : k < n => results[k] \notin {stop, "panic"}
  BY LookedSpec
<1>2. n > 0 /\ negate(stop) \in {"true", "false"} /\ results[n] \in Tri
  BY <1>1 DEF negate
<1> HIDE DEF n
<1>3. CASE results[n] \in {stop, "panic"}
  <2>1. Loop(results, stop, negate(stop)) = results[n]
    BY <1>2, <1>3 DEF Loop, n
  <2> QED BY <1>1, <1>2, <1>3, <2>1 DEF n
<1>4. CASE results[n] \notin {stop, "panic"} /\ "unknown" \in {results[k] : k \in 1 .. n}
  <2>1. Loop(results, stop, negate(stop)) = "unknown"
    BY <1>2, <1>4 DEF Loop, n
  <2> QED BY <1>1, <1>4, <2>1 DEF n, Tri
<1>5. CASE results[n] \notin {stop, "panic"} /\ "unknown" \notin {results[k] : k \in 1 .. n}
  <2>1. Loop(results, stop, negate(stop)) = negate(stop)
    BY <1>2, <1>5 DEF Loop, n
  <2> QED BY <1>1, <1>2, <1>5, <2>1 DEF n, Tri
<1> QED BY <1>3, <1>4, <1>5

\* Without a panic, the loop stops at a kid that settles it, if there is one, and is
\* unknown if there is none but some kid is.
LEMMA LoopIsKleene ==
    ASSUME NEW m \in Nat \ {0}, NEW results \in [1 .. m -> {"true", "false", "unknown"}],
           NEW stop \in {"true", "false"}
    PROVE  /\ Loop(results, stop, negate(stop)) = stop <=> \E k \in 1 .. m : results[k] = stop
           /\ Loop(results, stop, negate(stop)) = "unknown" <=>
                 /\ \A k \in 1 .. m : results[k] # stop
                 /\ \E k \in 1 .. m : results[k] = "unknown"
           /\ Loop(results, stop, negate(stop)) \in {"true", "false", "unknown"}
<1> DEFINE n == Looked(results, stop)
<1>1. /\ n \in 1 .. m
      /\ \A k \in 1 .. m : k < n => results[k] \notin {stop, "panic"}
      /\ \/ results[n] \in {stop, "panic"}
         \/ \A k \in 1 .. m : results[k] \notin {stop, "panic"}
      /\ ~(\E k \in 1 .. m : results[k] \in {stop, "panic"}) => n = m
  <2>1. results \in Seq({"true", "false", "unknown"}) /\ Len(results) = m /\ DOMAIN results = 1 .. m
    BY LookedSpec, SeqDef
  <2>2. ~(\E k \in 1 .. m : results[k] \in {stop, "panic"}) => n = m
    BY <2>1 DEF Looked
  <2> QED BY <2>2, LookedSpec
<1>2. n > 0 /\ negate(stop) \in {"true", "false"} /\ negate(stop) # stop
      /\ \A k \in 1 .. m : results[k] # "panic"
  BY <1>1 DEF negate
<1> HIDE DEF n
<1>3. CASE results[n] \in {stop, "panic"}
  <2>1. Loop(results, stop, negate(stop)) = results[n]
    BY <1>2, <1>3 DEF Loop, n
  <2> QED BY <1>1, <1>2, <1>3, <2>1
<1>4. CASE results[n] \notin {stop, "panic"} /\ "unknown" \in {results[k] : k \in 1 .. n}
  <2>1. Loop(results, stop, negate(stop)) = "unknown"
    BY <1>2, <1>4 DEF Loop, n
  <2> QED BY <1>1, <1>2, <1>4, <2>1
<1>5. CASE results[n] \notin {stop, "panic"} /\ "unknown" \notin {results[k] : k \in 1 .. n}
  <2>1. Loop(results, stop, negate(stop)) = negate(stop)
    BY <1>2, <1>5 DEF Loop, n
  <2>2. n = m
    BY <1>1, <1>5
  <2> QED BY <1>1, <1>2, <1>5, <2>1, <2>2
<1> QED BY <1>3, <1>4, <1>5

\* evalTri returns one of the three values, or panics.
LEMMA EvalType == \A n \in Nodes : \A e : evalTri(n, e) \in Tri
<1> SUFFICES ASSUME NEW e PROVE \A n \in Nodes : evalTri(n, e) \in Tri
  OBVIOUS
<1> DEFINE S == {n \in Nodes : evalTri(n, e) \in Tri}
<1>1. ASSUME NEW n \in Nodes, \A k \in Operands(n) : k \in S
      PROVE  evalTri(n, e) \in Tri
  <2>1. CASE n.kind = "cmp"
    BY <2>1, EvalAt DEF compare, triOf, Tri
  <2>2. CASE n.kind = "bool" /\ n.op = "not"
    <3>1. evalTri(n.kids[1], e) \in Tri
      BY <1>1, <2>2, Kids
    <3> QED BY <2>2, <3>1, EvalAt DEF negate, Tri
  <2>3. CASE n.kind = "bool" /\ n.op # "not"
    <3> DEFINE results == [k \in DOMAIN n.kids |-> evalTri(n.kids[k], e)]
    <3>1. results \in [1 .. Len(n.kids) -> Tri]
      BY <1>1, <2>3, Kids
    <3> HIDE DEF results
    <3>2. StopOf(n.op) \in {"true", "false"} /\ Len(n.kids) \in Nat \ {0}
      BY <2>3, Kids DEF StopOf
    <3>3. Loop(results, StopOf(n.op), negate(StopOf(n.op))) \in Tri
      BY <3>1, <3>2, LoopSpec
    <3> QED BY <2>3, <3>3, EvalAt DEF results
  <2>4. CASE n.kind \notin {"cmp", "bool"}
    BY <2>4, EvalAt DEF Tri
  <2> QED BY <2>1, <2>2, <2>3, <2>4
<1>2. \A n \in Nodes : (\A k \in Operands(n) : k \in S) => n \in S
  BY <1>1
<1> HIDE DEF S
<1>3. Nodes \subseteq S
  BY <1>2, TreeInduction
<1> QED BY <1>3 DEF S

-----------------------------------------------------------------------------
(* Kleene's logic. *)

LEMMA RankAt ==
    ASSUME NEW n \in Nodes, NEW e
    PROVE  /\ n.kind = "cmp" =>
                 Rank(n, e) = LET l == evalValue(n.left, e)
                                  r == evalValue(n.right, e)
                              IN IF ~(l.present /\ r.present) THEN 2
                                 ELSE IF (l.value = r.value) <=> n.op = "==" THEN 3 ELSE 1
           /\ n.kind = "bool" /\ n.op = "not" => Rank(n, e) = 4 - Rank(n.kids[1], e)
           /\ n.kind = "bool" /\ n.op = "and" =>
                 Rank(n, e) = Min({Rank(n.kids[k], e) : k \in DOMAIN n.kids})
           /\ n.kind = "bool" /\ n.op = "or" =>
                 Rank(n, e) = Max({Rank(n.kids[k], e) : k \in DOMAIN n.kids})
<1>1. Rank(n, e) = rankNode(n, Ranked(e), e)
  BY RankUnfolds DEF Rank
<1>2. CASE n.kind = "cmp"
  <2> DEFINE l == evalValue(n.left, e)
             r == evalValue(n.right, e)
  <2>1. CASE ~(l.present /\ r.present)
    BY <1>1, <1>2, <2>1 DEF rankNode
  <2>2. CASE l.present /\ r.present /\ ((l.value = r.value) <=> n.op = "==")
    BY <1>1, <1>2, <2>2 DEF rankNode
  <2>3. CASE l.present /\ r.present /\ ~((l.value = r.value) <=> n.op = "==")
    BY <1>1, <1>2, <2>3 DEF rankNode
  <2> QED BY <1>2, <2>1, <2>2, <2>3
<1>3. CASE n.kind = "bool" /\ n.op = "not"
  BY <1>1, <1>3 DEF rankNode, Rank
<1>4. CASE n.kind = "bool" /\ n.op = "and"
  BY <1>1, <1>4 DEF rankNode, Rank
<1>5. CASE n.kind = "bool" /\ n.op = "or"
  BY <1>1, <1>5 DEF rankNode, Rank
<1> QED BY <1>2, <1>3, <1>4, <1>5

\* The least and the greatest of some ranks.
LEMMA RanksSpec ==
    ASSUME NEW T \in SUBSET (1 .. 3), T # {}
    PROVE  /\ Min(T) \in 1 .. 3 /\ Max(T) \in 1 .. 3
           /\ Min(T) = 1 <=> 1 \in T
           /\ Min(T) = 3 <=> T = {3}
           /\ Max(T) = 3 <=> 3 \in T
           /\ Max(T) = 1 <=> T = {1}
<1>1. /\ Min(T) \in T /\ \A k \in T : Min(T) <= k
      /\ Max(T) \in T /\ \A k \in T : Max(T) >= k
  <2>1. \E x \in T : \A y \in T : x >= y
    <3>1. PICK x \in T : TRUE
      OBVIOUS
    <3>2. CASE 3 \in T
      BY <3>2
    <3>3. CASE 3 \notin T /\ 2 \in T
      BY <3>3
    <3>4. CASE 3 \notin T /\ 2 \notin T
      <4>1. \A y \in T : y = 1
        BY <3>4
      <4> QED BY <3>1, <4>1
    <3> QED BY <3>2, <3>3, <3>4
  <2>2. Max(T) \in T /\ \A k \in T : Max(T) >= k
    BY <2>1 DEF Max
  <2>3. T \in SUBSET Nat
    OBVIOUS
  <2> QED BY <2>2, <2>3, MinSpec
<1> DEFINE low == Min(T)
           high == Max(T)
<1>2. low \in 1 .. 3 /\ high \in 1 .. 3 /\ \A k \in T : k \in 1 .. 3
  BY <1>1
<1>3. low \in T /\ high \in T /\ \A k \in T : low <= k /\ k <= high
  BY <1>1, <1>2
<1> HIDE DEF low, high
<1>4. /\ low = 1 <=> 1 \in T
      /\ high = 3 <=> 3 \in T
  BY <1>2, <1>3
<1>5. ASSUME low = 3 PROVE T = {3}
  <2>1. \A k \in T : k = 3
    BY <1>2, <1>3, <1>5
  <2> QED BY <1>3, <2>1
<1>6. ASSUME high = 1 PROVE T = {1}
  <2>1. \A k \in T : k = 1
    BY <1>2, <1>3, <1>6
  <2> QED BY <1>3, <2>1
<1>7. (T = {3} => low = 3) /\ (T = {1} => high = 1)
  BY <1>3
<1> QED BY <1>2, <1>4, <1>5, <1>6, <1>7 DEF low, high

\* Where values stand under comparisons and only there, the evaluator does not panic,
\* and what it returns is the rank of the condition in Kleene's order.
KleeneAt(n, e) == /\ evalTri(n, e) \in {"true", "false", "unknown"}
                  /\ Rank(n, e) \in 1 .. 3
                  /\ evalTri(n, e) = "true" <=> Rank(n, e) = 3
                  /\ evalTri(n, e) = "false" <=> Rank(n, e) = 1

LEMMA KleeneNot ==
    ASSUME NEW n \in Nodes, n.kind = "bool", n.op = "not", NEW e, KleeneAt(n.kids[1], e)
    PROVE  KleeneAt(n, e)
<1>1. evalTri(n, e) = negate(evalTri(n.kids[1], e)) /\ Rank(n, e) = 4 - Rank(n.kids[1], e)
  BY EvalAt, RankAt
<1> QED BY <1>1 DEF KleeneAt, negate

LEMMA KleeneLoop ==
    ASSUME NEW n \in Nodes, n.kind = "bool", n.op # "not", NEW e,
           \A k \in DOMAIN n.kids : KleeneAt(n.kids[k], e)
    PROVE  KleeneAt(n, e)
<1> DEFINE results == [k \in DOMAIN n.kids |-> evalTri(n.kids[k], e)]
           ranks == {Rank(n.kids[k], e) : k \in DOMAIN n.kids}
           m == Len(n.kids)
<1>1. m \in Nat \ {0} /\ DOMAIN n.kids = 1 .. m /\ n.op \in {"and", "or"}
  BY Kids
<1>2. results \in [1 .. m -> {"true", "false", "unknown"}]
  BY <1>1 DEF KleeneAt
<1>3. ranks \in SUBSET (1 .. 3) /\ ranks # {}
  <2>1. 1 \in DOMAIN n.kids
    BY <1>1
  <2>2. Rank(n.kids[1], e) \in ranks
    BY <2>1
  <2> QED BY <2>2 DEF KleeneAt
<1>4. evalTri(n, e) = Loop(results, StopOf(n.op), negate(StopOf(n.op)))
  BY EvalAt
<1>5. /\ 3 \in ranks <=> \E k \in 1 .. m : results[k] = "true"
      /\ 1 \in ranks <=> \E k \in 1 .. m : results[k] = "false"
      /\ ranks = {3} <=> \A k \in 1 .. m : results[k] = "true"
      /\ ranks = {1} <=> \A k \in 1 .. m : results[k] = "false"
  <2>1. \A k \in 1 .. m : /\ results[k] = "true" <=> Rank(n.kids[k], e) = 3
                          /\ results[k] = "false" <=> Rank(n.kids[k], e) = 1
    BY <1>1 DEF KleeneAt
  <2>2. \E k \in 1 .. m : TRUE
    BY <1>1
  <2>3. /\ 3 \in ranks <=> \E k \in 1 .. m : Rank(n.kids[k], e) = 3
        /\ 1 \in ranks <=> \E k \in 1 .. m : Rank(n.kids[k], e) = 1
    BY <1>1
  <2>4. /\ ranks = {3} <=> \A k \in 1 .. m : Rank(n.kids[k], e) = 3
        /\ ranks = {1} <=> \A k \in 1 .. m : Rank(n.kids[k], e) = 1
    BY <1>1, <2>2
  <2> HIDE DEF results, ranks, m
  <2> QED BY <2>1, <2>3, <2>4
<1> HIDE DEF results, ranks, m
<1>6. CASE n.op = "and"
  <2>1. StopOf(n.op) = "false" /\ negate(StopOf(n.op)) = "true"
    BY <1>6 DEF StopOf, negate
  <2>2. Rank(n, e) = Min(ranks)
    BY <1>6, RankAt DEF ranks
  <2>3. /\ evalTri(n, e) = "false" <=> \E k \in 1 .. m : results[k] = "false"
        /\ evalTri(n, e) = "unknown" <=> /\ \A k \in 1 .. m : results[k] # "false"
                                         /\ \E k \in 1 .. m : results[k] = "unknown"
        /\ evalTri(n, e) \in {"true", "false", "unknown"}
    BY <1>1, <1>2, <1>4, <2>1, LoopIsKleene
  <2>4. evalTri(n, e) = "true" <=> \A k \in 1 .. m : results[k] = "true"
    BY <1>1, <1>2, <2>3
  <2> QED BY <1>3, <1>5, <2>2, <2>3, <2>4, RanksSpec DEF KleeneAt
<1>7. CASE n.op = "or"
  <2>1. StopOf(n.op) = "true" /\ negate(StopOf(n.op)) = "false"
    BY <1>7 DEF StopOf, negate
  <2>2. Rank(n, e) = Max(ranks)
    BY <1>7, RankAt DEF ranks
  <2>3. /\ evalTri(n, e) = "true" <=> \E k \in 1 .. m : results[k] = "true"
        /\ evalTri(n, e) = "unknown" <=> /\ \A k \in 1 .. m : results[k] # "true"
                                         /\ \E k \in 1 .. m : results[k] = "unknown"
        /\ evalTri(n, e) \in {"true", "false", "unknown"}
    BY <1>1, <1>2, <1>4, <2>1, LoopIsKleene
  <2>4. evalTri(n, e) = "false" <=> \A k \in 1 .. m : results[k] = "false"
    BY <1>1, <1>2, <2>3
  <2> QED BY <1>3, <1>5, <2>2, <2>3, <2>4, RanksSpec DEF KleeneAt
<1> QED BY <1>1, <1>6, <1>7

LEMMA EvalIsKleene ==
    ASSUME NEW e
    PROVE  \A n \in Nodes : WellKinded[n] => KleeneAt(n, e)
<1> DEFINE S == {n \in Nodes : WellKinded[n] => KleeneAt(n, e)}
<1>1. ASSUME NEW n \in Nodes, \A k \in Operands(n) : k \in S, WellKinded[n]
      PROVE  KleeneAt(n, e)
  <2>1. CASE n.kind = "cmp"
    <3>1. IsValue(n.left) /\ IsValue(n.right)
      BY <1>1, <2>1, KindedUnfolds
    <3>2. /\ evalValue(n.left, e).present \in BOOLEAN
          /\ evalValue(n.right, e).present \in BOOLEAN
      BY DEF evalValue, lookup, Present, Absent
    <3>3. n.op \in {"==", "!="}
      BY <2>1, NodeAssumption
    <3> DEFINE l == evalValue(n.left, e)
               r == evalValue(n.right, e)
    <3>4. evalTri(n, e) = IF ~l.present \/ ~r.present THEN "unknown"
                          ELSE triOf(applyCmp(n.op, l.value, r.value))
      BY <2>1, <3>1, EvalAt DEF compare
    <3>5. Rank(n, e) = IF ~(l.present /\ r.present) THEN 2
                       ELSE IF (l.value = r.value) <=> n.op = "==" THEN 3 ELSE 1
      BY <2>1, RankAt
    <3> HIDE DEF l, r
    <3>6. CASE ~l.present \/ ~r.present
      BY <3>4, <3>5, <3>6 DEF KleeneAt
    <3>7. CASE l.present /\ r.present /\ ((l.value = r.value) <=> n.op = "==")
      <4>1. evalTri(n, e) = "true" /\ Rank(n, e) = 3
        BY <3>3, <3>4, <3>5, <3>7 DEF triOf, applyCmp
      <4> QED BY <4>1 DEF KleeneAt
    <3>8. CASE l.present /\ r.present /\ ~((l.value = r.value) <=> n.op = "==")
      <4>1. evalTri(n, e) = "false" /\ Rank(n, e) = 1
        BY <3>3, <3>4, <3>5, <3>8 DEF triOf, applyCmp
      <4> QED BY <4>1 DEF KleeneAt
    <3> QED BY <3>2, <3>6, <3>7, <3>8
  <2>2. CASE n.kind = "bool"
    <3>1. \A k \in DOMAIN n.kids : KleeneAt(n.kids[k], e)
      BY <1>1, <2>2, Kids, KindedUnfolds
    <3> QED BY <2>2, <3>1, Kids, KleeneNot, KleeneLoop
  <2> QED BY <1>1, <2>1, <2>2, KindedUnfolds
<1>2. \A n \in Nodes : (\A k \in Operands(n) : k \in S) => n \in S
  BY <1>1
<1> HIDE DEF S
<1>3. Nodes \subseteq S
  BY <1>2, TreeInduction
<1> QED BY <1>3 DEF S

\* The kids of a node whose operands are as Kleene's logic has them, in its terms.
LEMMA KidsSettle ==
    ASSUME NEW n \in Nodes, n.kind = "bool", NEW e,
           \A k \in DOMAIN n.kids : evalTri(n.kids[k], e) \in {"true", "false", "unknown"}
    PROVE  /\ n.op = "not" => evalTri(n, e) = negate(evalTri(n.kids[1], e))
           /\ n.op = "and" =>
                 /\ evalTri(n, e) = "true" => \A k \in DOMAIN n.kids : evalTri(n.kids[k], e) = "true"
                 /\ evalTri(n, e) = "false" => \E k \in DOMAIN n.kids : evalTri(n.kids[k], e) = "false"
           /\ n.op = "or" =>
                 /\ evalTri(n, e) = "true" => \E k \in DOMAIN n.kids : evalTri(n.kids[k], e) = "true"
                 /\ evalTri(n, e) = "false" => \A k \in DOMAIN n.kids : evalTri(n.kids[k], e) = "false"
<1>1. CASE n.op = "not"
  BY <1>1, EvalAt
<1>2. CASE n.op # "not"
  <2> DEFINE results == [k \in DOMAIN n.kids |-> evalTri(n.kids[k], e)]
             m == Len(n.kids)
             stop == StopOf(n.op)
  <2>1. m \in Nat \ {0} /\ DOMAIN n.kids = 1 .. m /\ n.op \in {"and", "or"}
    BY <1>2, Kids
  <2>2. results \in [1 .. m -> {"true", "false", "unknown"}] /\ stop \in {"true", "false"}
    BY <2>1 DEF StopOf
  <2>3. evalTri(n, e) = Loop(results, stop, negate(stop))
    BY <1>2, EvalAt
  <2>4. \A k \in 1 .. m : results[k] = evalTri(n.kids[k], e)
    BY <2>1
  <2> HIDE DEF results, m, stop
  <2>5. /\ evalTri(n, e) = stop <=> \E k \in 1 .. m : results[k] = stop
        /\ evalTri(n, e) = "unknown" <=> /\ \A k \in 1 .. m : results[k] # stop
                                         /\ \E k \in 1 .. m : results[k] = "unknown"
    BY <2>1, <2>2, <2>3, LoopIsKleene
  <2>6. evalTri(n, e) \notin {stop, "unknown"} =>
           \A k \in 1 .. m : results[k] \notin {stop, "unknown"}
    BY <2>5
  <2>7. CASE n.op = "and"
    <3>1. stop = "false"
      BY <2>7 DEF stop, StopOf
    <3> QED BY <2>1, <2>2, <2>4, <2>5, <2>6, <2>7, <3>1
  <2>8. CASE n.op = "or"
    <3>1. stop = "true"
      BY <2>8 DEF stop, StopOf
    <3> QED BY <2>1, <2>2, <2>4, <2>5, <2>6, <2>8, <3>1
  <2> QED BY <2>1, <2>7, <2>8
<1> QED BY <1>1, <1>2

LEMMA HoldsAt ==
    ASSUME NEW n \in Nodes, NEW e, NEW guess
    PROVE  /\ n.kind = "cmp" =>
                 (Holds(n, e, guess) <=>
                     ((ValueOr(n.left, e, guess) = ValueOr(n.right, e, guess)) <=> n.op = "=="))
           /\ n.kind = "bool" /\ n.op = "not" =>
                 (Holds(n, e, guess) <=> ~Holds(n.kids[1], e, guess))
           /\ n.kind = "bool" /\ n.op = "and" =>
                 (Holds(n, e, guess) <=> \A k \in DOMAIN n.kids : Holds(n.kids[k], e, guess))
           /\ n.kind = "bool" /\ n.op = "or" =>
                 (Holds(n, e, guess) <=> \E k \in DOMAIN n.kids : Holds(n.kids[k], e, guess))
<1>1. Holds(n, e, guess) = holdsNode(n, Holding(e, guess), e, guess)
  BY HoldsUnfolds DEF Holds
<1>2. CASE n.kind = "cmp"
  BY <1>1, <1>2 DEF holdsNode
<1>3. CASE n.kind = "bool" /\ n.op = "not"
  BY <1>1, <1>3 DEF holdsNode, Holds
<1>4. CASE n.kind = "bool" /\ n.op = "and"
  BY <1>1, <1>4 DEF holdsNode, Holds
<1>5. CASE n.kind = "bool" /\ n.op = "or"
  BY <1>1, <1>5 DEF holdsNode, Holds
<1> QED BY <1>2, <1>3, <1>4, <1>5

\* A condition that is true, or false, is so whatever the attributes it lacks would be.
Certain(n, e, guess) == /\ evalTri(n, e) = "true" => Holds(n, e, guess)
                        /\ evalTri(n, e) = "false" => ~Holds(n, e, guess)

LEMMA AbsenceDecidesNothing ==
    ASSUME NEW e, NEW guess
    PROVE  \A n \in Nodes : WellKinded[n] => Certain(n, e, guess)
<1> DEFINE S == {n \in Nodes : WellKinded[n] => Certain(n, e, guess)}
<1>1. ASSUME NEW n \in Nodes, \A k \in Operands(n) : k \in S, WellKinded[n]
      PROVE  Certain(n, e, guess)
  <2>1. CASE n.kind = "cmp"
    <3> DEFINE l == evalValue(n.left, e)
               r == evalValue(n.right, e)
    <3>1. IsValue(n.left) /\ IsValue(n.right)
      BY <1>1, <2>1, KindedUnfolds
    <3>2. l.present /\ r.present =>
             ValueOr(n.left, e, guess) = l.value /\ ValueOr(n.right, e, guess) = r.value
      BY DEF ValueOr
    <3>3. evalTri(n, e) = IF ~l.present \/ ~r.present THEN "unknown"
                          ELSE triOf(applyCmp(n.op, l.value, r.value))
      BY <2>1, <3>1, EvalAt DEF compare
    <3>4. Holds(n, e, guess) <=>
             ((ValueOr(n.left, e, guess) = ValueOr(n.right, e, guess)) <=> n.op = "==")
      BY <2>1, HoldsAt
    <3> HIDE DEF l, r
    <3>5. CASE ~l.present \/ ~r.present
      BY <3>3, <3>5 DEF Certain
    <3>6. CASE l.present /\ r.present /\ ((l.value = r.value) <=> n.op = "==")
      <4>1. evalTri(n, e) = "true" /\ Holds(n, e, guess)
        BY <3>2, <3>3, <3>4, <3>6 DEF triOf, applyCmp
      <4> QED BY <4>1 DEF Certain
    <3>7. CASE l.present /\ r.present /\ ~((l.value = r.value) <=> n.op = "==")
      <4>1. evalTri(n, e) = "false" /\ ~Holds(n, e, guess)
        BY <3>2, <3>3, <3>4, <3>7 DEF triOf, applyCmp
      <4> QED BY <4>1 DEF Certain
    <3> QED BY <3>5, <3>6, <3>7
  <2>2. CASE n.kind = "bool"
    <3>1. \A k \in DOMAIN n.kids : Certain(n.kids[k], e, guess) /\ WellKinded[n.kids[k]]
      BY <1>1, <2>2, Kids, KindedUnfolds
    <3>2. \A k \in DOMAIN n.kids : evalTri(n.kids[k], e) \in {"true", "false", "unknown"}
      BY <2>2, <3>1, Kids, EvalIsKleene DEF KleeneAt
    <3>3. CASE n.op = "not"
      BY <2>2, <3>1, <3>2, <3>3, Kids, KidsSettle, HoldsAt DEF Certain, negate
    <3>4. CASE n.op = "and"
      BY <2>2, <3>1, <3>2, <3>4, KidsSettle, HoldsAt DEF Certain
    <3>5. CASE n.op = "or"
      BY <2>2, <3>1, <3>2, <3>5, KidsSettle, HoldsAt DEF Certain
    <3> QED BY <2>2, <3>3, <3>4, <3>5, Kids
  <2> QED BY <1>1, <2>1, <2>2, KindedUnfolds
<1>2. \A n \in Nodes : (\A k \in Operands(n) : k \in S) => n \in S
  BY <1>1
<1> HIDE DEF S
<1>3. Nodes \subseteq S
  BY <1>2, TreeInduction
<1> QED BY <1>3 DEF S

-----------------------------------------------------------------------------
(* Traces. *)

\* A loop that does not panic looks at its kids up to the first that settles it.
LEMMA LookedSettles ==
    ASSUME NEW m \in Nat \ {0}, NEW results \in [1 .. m -> Tri], NEW stop \in {"true", "false"},
           Loop(results, stop, negate(stop)) # "panic"
    PROVE  LET settling == {k \in 1 .. m : results[k] = stop}
           IN Looked(results, stop) = IF settling = {} THEN m ELSE Min(settling)
<1> DEFINE settling == {k \in 1 .. m : results[k] = stop}
           ends == {k \in 1 .. m : results[k] \in {stop, "panic"}}
           n == Looked(results, stop)
<1>1. DOMAIN results = 1 .. m /\ Len(results) = m
  BY LookedSpec
<1>2. n = IF ends = {} THEN m ELSE Min(ends)
  BY <1>1 DEF Looked
<1>3. n \in 1 .. m /\ \A k \in 1 .. n : results[k] # "panic"
  BY LookedSpec, LoopSpec
<1>4. settling \subseteq ends /\ ends \in SUBSET Nat /\ settling \in SUBSET Nat
  OBVIOUS
<1>5. ends # {} => Min(ends) \in ends /\ \A k \in ends : Min(ends) <= k
  BY <1>4, MinSpec
<1>6. settling # {} => Min(settling) \in settling /\ \A k \in settling : Min(settling) <= k
  BY <1>4, MinSpec
<1>7. ends # {} => n \in settling
  <2> SUFFICES ASSUME ends # {} PROVE n \in settling
    OBVIOUS
  <2>1. n \in ends
    BY <1>2, <1>5
  <2> QED BY <1>3, <2>1
<1> HIDE DEF settling, ends, n
<1>8. ends # {} => n <= Min(settling) /\ Min(settling) <= n /\ Min(settling) \in Nat /\ n \in Nat
  BY <1>2, <1>4, <1>5, <1>6, <1>7
<1>9. n = IF settling = {} THEN m ELSE Min(settling)
  BY <1>2, <1>4, <1>7, <1>8
<1> QED BY <1>9 DEF settling, n

\* What the traced loop makes of the results of the kids, its own definition set beside
\* that of the other.
LEMMA TraceLoopSpec ==
    ASSUME NEW n, NEW m \in Nat \ {0}, DOMAIN n.kids = 1 .. m,
           NEW f, NEW stop \in {"true", "false"}
    PROVE  LET tris == [k \in DOMAIN n.kids |-> f[n.kids[k]].tri]
               out == traceLoop(n, f, negate(stop), stop)
           IN /\ out.tri = Loop(tris, stop, negate(stop))
              /\ out.trace = [op |-> n.op, result |-> out.tri = "true",
                              kids |-> [k \in 1 .. Looked(tris, stop) |-> f[n.kids[k]].trace]]
<1> DEFINE tris == [k \in DOMAIN n.kids |-> f[n.kids[k]].tri]
           out == traceLoop(n, f, negate(stop), stop)
           last == Looked(tris, stop)
           R == {tris[k] : k \in 1 .. m}
           found == {tris[k] : k \in Reached(tris, stop)}
           t == IF "panic" \in found THEN "panic"
                ELSE IF stop \in found THEN stop
                ELSE IF "unknown" \in found THEN "unknown" ELSE negate(stop)
           kids == [k \in Reached(tris, stop) |-> f[n.kids[k]].trace]
<1>1. tris \in [1 .. m -> R]
  OBVIOUS
<1>2. out = [tri |-> t, trace |-> [op |-> n.op, result |-> t = "true", kids |-> kids]]
  BY DEF traceLoop
<1> HIDE DEF tris, R
<1>3. /\ last \in 1 .. m
      /\ \A k \in 1 .. m : k < last => tris[k] \notin {stop, "panic"}
      /\ Reached(tris, stop) = 1 .. last
  <2>1. last \in 1 .. m /\ \A k \in 1 .. m : k < last => tris[k] \notin {stop, "panic"}
    BY <1>1, LookedSpec
  <2>2. Reached(tris, stop) = 1 .. last
    BY <1>1, ReachedSpec
  <2> QED BY <2>1, <2>2
<1>4. found = {tris[k] : k \in 1 .. last}
  BY <1>3
<1>5. kids = [k \in 1 .. last |-> f[n.kids[k]].trace]
  BY <1>3
<1>6. t = Loop(tris, stop, negate(stop))
  <2>1. last > 0 /\ last \in 1 .. last
    BY <1>3
  <2>2. \A k \in 1 .. last : k # last => tris[k] \notin {stop, "panic"}
    BY <1>3
  <2> HIDE DEF last, found
  <2>3. CASE tris[last] \in {stop, "panic"}
    <3>1. tris[last] \in found /\ \A x \in found : x = tris[last] \/ x \notin {stop, "panic"}
      BY <1>4, <2>1, <2>2
    <3>2. t = tris[last]
      BY <2>3, <3>1
    <3>3. Loop(tris, stop, negate(stop)) = tris[last]
      BY <2>1, <2>3 DEF Loop, last
    <3> QED BY <3>2, <3>3
  <2>4. CASE tris[last] \notin {stop, "panic"}
    <3>1. "panic" \notin found /\ stop \notin found
      BY <1>4, <2>2, <2>4
    <3>2. t = IF "unknown" \in {tris[k] : k \in 1 .. last} THEN "unknown" ELSE negate(stop)
      BY <1>4, <3>1
    <3>3. Loop(tris, stop, negate(stop)) =
             IF "unknown" \in {tris[k] : k \in 1 .. last} THEN "unknown" ELSE negate(stop)
      BY <2>1, <2>4 DEF Loop, last
    <3> QED BY <3>2, <3>3
  <2> QED BY <2>3, <2>4
<1> HIDE DEF t, kids
<1>7. out.tri = t /\ out.trace = [op |-> n.op, result |-> t = "true", kids |-> kids]
  BY <1>2
<1> HIDE DEF out
<1>8. out.tri = t /\ out.trace = [op |-> n.op, result |-> out.tri = "true", kids |-> kids]
  BY <1>7
<1> QED BY <1>5, <1>6, <1>8 DEF tris, out

\* The comparison of the traced evaluator is that of the other.
LEMMA TraceCmpSpec ==
    ASSUME NEW n, NEW e
    PROVE  /\ compare(n, e) # "panic" <=> IsValue(n.left) /\ IsValue(n.right)
           /\ compare(n, e) # "panic" =>
                 traceCmp(n, e) =
                    [tri |-> compare(n, e),
                     trace |-> [op |-> n.op, result |-> compare(n, e) = "true", kids |-> <<>>,
                                left |-> valueTrace(n.left, e),
                                right |-> valueTrace(n.right, e)]]
<1>1. compare(n, e) # "panic" <=> IsValue(n.left) /\ IsValue(n.right)
  BY DEF compare, triOf
<1>2. \A v : valueTrace(v, e).resolved = evalValue(v, e)
  BY DEF valueTrace, evalValue
<1>3. IsValue(n.left) /\ IsValue(n.right) =>
        compare(n, e) =
          IF ~valueTrace(n.left, e).resolved.present \/ ~valueTrace(n.right, e).resolved.present
          THEN "unknown"
          ELSE triOf(applyCmp(n.op, valueTrace(n.left, e).resolved.value,
                                    valueTrace(n.right, e).resolved.value))
  BY <1>2 DEF compare
<1> QED BY <1>1, <1>3 DEF traceCmp

LEMMA TraceAt ==
    ASSUME NEW n \in Nodes, NEW e
    PROVE  LET out == traceCondTri(n, e)
               tris == [k \in DOMAIN n.kids |-> traceCondTri(n.kids[k], e).tri]
           IN /\ n.kind = "cmp" /\ compare(n, e) # "panic" =>
                    /\ out.tri = compare(n, e)
                    /\ out.trace = [op |-> n.op, result |-> compare(n, e) = "true", kids |-> <<>>,
                                    left |-> valueTrace(n.left, e),
                                    right |-> valueTrace(n.right, e)]
              /\ n.kind = "cmp" /\ compare(n, e) = "panic" => out.tri = "panic"
              /\ n.kind = "bool" /\ n.op = "not" =>
                    /\ traceCondTri(n.kids[1], e).tri \in Tri =>
                          out.tri = negate(traceCondTri(n.kids[1], e).tri)
                    /\ out.trace = [op |-> n.op, result |-> out.tri = "true",
                                    kids |-> [k \in 1 .. 1 |-> traceCondTri(n.kids[k], e).trace]]
              /\ n.kind = "bool" /\ n.op # "not" =>
                    /\ out.tri = Loop(tris, StopOf(n.op), negate(StopOf(n.op)))
                    /\ out.trace = [op |-> n.op, result |-> out.tri = "true",
                                    kids |-> [k \in 1 .. Looked(tris, StopOf(n.op)) |->
                                                 traceCondTri(n.kids[k], e).trace]]
              /\ n.kind \notin {"cmp", "bool"} => out.tri = "panic"
<1>1. traceCondTri(n, e) = traceNode(n, Traced(e), e)
  BY TraceUnfolds DEF traceCondTri
<1>2. CASE n.kind = "cmp" /\ compare(n, e) # "panic"
  <2>1. traceCondTri(n, e) = traceCmp(n, e)
    BY <1>1, <1>2, TraceCmpSpec DEF traceNode
  <2> QED BY <1>2, <2>1, TraceCmpSpec
<1>3. CASE n.kind = "cmp" /\ compare(n, e) = "panic"
  <2>1. traceNode(n, Traced(e), e).tri = "panic"
    BY <1>3, TraceCmpSpec DEF traceNode
  <2>2. traceCondTri(n, e).tri = "panic"
    BY <1>1, <2>1
  <2> QED BY <1>3, <2>2
<1>4. CASE n.kind = "bool" /\ n.op = "not"
  <2> DEFINE kid == traceCondTri(n.kids[1], e)
             t == traceCondTri(n, e).tri
  <2>1. traceCondTri(n, e) = traceNot(n, Traced(e)) /\ Traced(e)[n.kids[1]] = kid
    BY <1>1, <1>4 DEF traceNode, traceCondTri
  <2>2. /\ kid.tri \in Tri => t = negate(kid.tri)
        /\ traceCondTri(n, e).trace = [op |-> n.op, result |-> t = "true", kids |-> <<kid.trace>>]
    <3> HIDE DEF kid
    <3> QED BY <2>1 DEF traceNot, negate, Tri
  <2>3. <<kid.trace>> = [k \in 1 .. 1 |-> traceCondTri(n.kids[k], e).trace]
    <3>1. \A k \in 1 .. 1 : k = 1
      OBVIOUS
    <3> QED BY <3>1
  <2> HIDE DEF t
  <2> QED BY <1>4, <2>2, <2>3 DEF t
<1>5. CASE n.kind = "bool" /\ n.op # "not"
  <2> DEFINE stop == StopOf(n.op)
             tris == [k \in DOMAIN n.kids |-> Traced(e)[n.kids[k]].tri]
             after == [k \in 1 .. Looked(tris, stop) |-> traceCondTri(n.kids[k], e).trace]
             before == [k \in 1 .. Looked(tris, stop) |-> Traced(e)[n.kids[k]].trace]
  <2>1. stop \in {"true", "false"} /\ traceCondTri(n, e) = traceLoop(n, Traced(e), negate(stop), stop)
    BY <1>1, <1>5, Kids DEF traceNode, StopOf, negate
  <2>2. Len(n.kids) \in Nat \ {0} /\ DOMAIN n.kids = 1 .. Len(n.kids)
    BY <1>5, Kids
  <2>3. /\ traceCondTri(n, e).tri = Loop(tris, stop, negate(stop))
        /\ traceCondTri(n, e).trace = [op |-> n.op, result |-> traceCondTri(n, e).tri = "true",
                                       kids |-> before]
    <3> DEFINE out == traceLoop(n, Traced(e), negate(stop), stop)
    <3> HIDE DEF stop
    <3>1. \A m \in Nat \ {0} : DOMAIN n.kids = 1 .. m =>
             /\ out.tri = Loop(tris, stop, negate(stop))
             /\ out.trace = [op |-> n.op, result |-> out.tri = "true", kids |-> before]
      BY <2>1, TraceLoopSpec
    <3> HIDE DEF tris, before
    <3> QED BY <2>1, <2>2, <3>1
  <2>4. tris = [k \in DOMAIN n.kids |-> traceCondTri(n.kids[k], e).tri]
    BY DEF traceCondTri
  <2>5. before = after
    BY DEF traceCondTri
  <2> HIDE DEF tris, before, after
  <2>6. /\ traceCondTri(n, e).tri = Loop(tris, stop, negate(stop))
        /\ traceCondTri(n, e).trace = [op |-> n.op, result |-> traceCondTri(n, e).tri = "true",
                                       kids |-> after]
    BY <2>3, <2>5
  <2> QED BY <1>5, <2>4, <2>6 DEF after
<1>6. CASE n.kind \notin {"cmp", "bool"}
  <2>1. traceNode(n, Traced(e), e).tri = "panic"
    BY <1>6 DEF traceNode
  <2>2. traceCondTri(n, e).tri = "panic"
    BY <1>1, <2>1
  <2> QED BY <1>6, <2>2
<1> QED BY <1>2, <1>3, <1>4, <1>5, <1>6

LEMMA MirrorAt ==
    ASSUME NEW n \in Nodes, NEW e
    PROVE  /\ n.kind = "cmp" =>
                 Mirror(n, e) = [op |-> n.op, result |-> evalTri(n, e) = "true", kids |-> <<>>,
                                 left |-> valueTrace(n.left, e), right |-> valueTrace(n.right, e)]
           /\ n.kind = "bool" =>
                 LET last == IF Settling(n, e) = {} THEN Len(n.kids) ELSE Min(Settling(n, e))
                 IN Mirror(n, e) = [op |-> n.op, result |-> evalTri(n, e) = "true",
                                    kids |-> [k \in 1 .. last |-> Mirror(n.kids[k], e)]]
<1>1. Mirror(n, e) = mirrorNode(n, Mirrored(e), e)
  BY MirrorUnfolds DEF Mirror
<1>2. CASE n.kind = "cmp"
  BY <1>1, <1>2 DEF mirrorNode, valueTrace, evalValue
<1>3. CASE n.kind = "bool"
  BY <1>1, <1>3 DEF mirrorNode, Mirror
<1> QED BY <1>2, <1>3

\* The traced evaluator decides as the other does, panics when it does, and otherwise
\* builds the trace that mirrors it.
Faithful(n, e) == /\ traceCondTri(n, e).tri = evalTri(n, e)
                  /\ evalTri(n, e) # "panic" => traceCondTri(n, e).trace = Mirror(n, e)

LEMMA TraceIsFaithful ==
    ASSUME NEW e
    PROVE  \A n \in Nodes : Faithful(n, e)
<1> DEFINE S == {n \in Nodes : Faithful(n, e)}
<1>1. ASSUME NEW n \in Nodes, \A k \in Operands(n) : k \in S
      PROVE  Faithful(n, e)
  <2>1. CASE n.kind = "cmp"
    <3>1. evalTri(n, e) = compare(n, e)
      BY <2>1, EvalAt
    <3>2. CASE compare(n, e) = "panic"
      <4>1. traceCondTri(n, e).tri = "panic"
        BY <2>1, <3>2, TraceAt
      <4> QED BY <3>1, <3>2, <4>1 DEF Faithful
    <3>3. CASE compare(n, e) # "panic"
      <4>1. /\ traceCondTri(n, e).tri = compare(n, e)
            /\ traceCondTri(n, e).trace =
                  [op |-> n.op, result |-> compare(n, e) = "true", kids |-> <<>>,
                   left |-> valueTrace(n.left, e), right |-> valueTrace(n.right, e)]
        BY <2>1, <3>3, TraceAt
      <4>2. Mirror(n, e) =
                  [op |-> n.op, result |-> evalTri(n, e) = "true", kids |-> <<>>,
                   left |-> valueTrace(n.left, e), right |-> valueTrace(n.right, e)]
        BY <2>1, MirrorAt
      <4> QED BY <3>1, <4>1, <4>2 DEF Faithful
    <3> QED BY <3>2, <3>3
  <2>2. CASE n.kind = "bool" /\ n.op = "not"
    <3>1. Faithful(n.kids[1], e) /\ Len(n.kids) = 1
      BY <1>1, <2>2, Kids, NodeAssumption
    <3>2. Settling(n, e) = {}
      BY <2>2 DEF Settling
    <3>3. evalTri(n, e) # "panic" => evalTri(n.kids[1], e) # "panic"
      BY <2>2, EvalAt DEF negate
    <3>4. traceCondTri(n, e).tri = evalTri(n, e)
      <4>1. traceCondTri(n, e).tri = negate(traceCondTri(n.kids[1], e).tri)
        <5>1. traceCondTri(n.kids[1], e).tri \in Tri
          BY <2>2, <3>1, Kids, EvalType DEF Faithful
        <5> QED BY <2>2, <5>1, TraceAt
      <4>2. evalTri(n, e) = negate(evalTri(n.kids[1], e))
        BY <2>2, EvalAt
      <4> QED BY <2>2, <3>1, <4>1, <4>2 DEF Faithful
    <3>5. ASSUME evalTri(n, e) # "panic"
          PROVE  traceCondTri(n, e).trace = Mirror(n, e)
      <4>1. \A k \in 1 .. 1 : traceCondTri(n.kids[k], e).trace = Mirror(n.kids[k], e)
        BY <3>1, <3>3, <3>5 DEF Faithful
      <4>2. [k \in 1 .. 1 |-> traceCondTri(n.kids[k], e).trace]
               = [k \in 1 .. 1 |-> Mirror(n.kids[k], e)]
        BY <4>1
      <4>3. Mirror(n, e) = [op |-> n.op, result |-> evalTri(n, e) = "true",
                            kids |-> [k \in 1 .. 1 |-> Mirror(n.kids[k], e)]]
        BY <2>2, <3>1, <3>2, MirrorAt
      <4>4. traceCondTri(n, e).trace =
              [op |-> n.op, result |-> traceCondTri(n, e).tri = "true",
               kids |-> [k \in 1 .. 1 |-> traceCondTri(n.kids[k], e).trace]]
        BY <2>2, TraceAt
      <4> QED BY <3>4, <4>2, <4>3, <4>4
    <3> QED BY <3>4, <3>5 DEF Faithful
  <2>3. CASE n.kind = "bool" /\ n.op # "not"
    <3> DEFINE results == [k \in DOMAIN n.kids |-> evalTri(n.kids[k], e)]
               m == Len(n.kids)
               stop == StopOf(n.op)
               last == IF Settling(n, e) = {} THEN m ELSE Min(Settling(n, e))
    <3>1. m \in Nat \ {0} /\ DOMAIN n.kids = 1 .. m /\ stop \in {"true", "false"}
      BY <2>3, Kids DEF StopOf
    <3>2. \A k \in 1 .. m : Faithful(n.kids[k], e) /\ n.kids[k] \in Nodes
      BY <1>1, <2>3, <3>1, Kids
    <3>3. results \in [1 .. m -> Tri]
      BY <3>1, <3>2, EvalType
    <3>4. [k \in DOMAIN n.kids |-> traceCondTri(n.kids[k], e).tri] = results
      BY <3>1, <3>2 DEF Faithful
    <3>5. Settling(n, e) = {k \in 1 .. m : results[k] = stop}
      BY <2>3, <3>1 DEF Settling
    <3> HIDE DEF results, stop
    <3>6. evalTri(n, e) = Loop(results, stop, negate(stop))
      BY <2>3, EvalAt DEF results, stop
    <3>7. traceCondTri(n, e).tri = evalTri(n, e)
      BY <2>3, <3>4, <3>6, TraceAt DEF stop
    <3>8. ASSUME evalTri(n, e) # "panic"
          PROVE  traceCondTri(n, e).trace = Mirror(n, e)
      <4> DEFINE settling == {k \in 1 .. m : results[k] = stop}
      <4>1. Looked(results, stop) = IF settling = {} THEN m ELSE Min(settling)
        <5> HIDE DEF m
        <5> QED BY <3>1, <3>3, <3>6, <3>8, LookedSettles
      <4>2. Looked(results, stop) = last
        BY <3>5, <4>1
      <4>3. last \in 1 .. m
        <5> HIDE DEF last, m
        <5> QED BY <3>1, <3>3, <4>2, LookedSpec
      <4>4. \A k \in 1 .. last : results[k] # "panic"
        BY <3>1, <3>3, <3>6, <3>8, <4>2, LoopSpec
      <4>5. \A k \in 1 .. last : traceCondTri(n.kids[k], e).trace = Mirror(n.kids[k], e)
        <5> HIDE DEF last, m
        <5>1. ASSUME NEW k \in 1 .. last
              PROVE  k \in 1 .. m /\ evalTri(n.kids[k], e) # "panic"
          <6>1. k \in 1 .. m /\ results[k] # "panic"
            BY <3>1, <4>3, <4>4
          <6> QED BY <3>1, <6>1 DEF results
        <5> QED BY <3>2, <5>1 DEF Faithful
      <4> HIDE DEF last
      <4>6. [k \in 1 .. last |-> traceCondTri(n.kids[k], e).trace]
               = [k \in 1 .. last |-> Mirror(n.kids[k], e)]
        BY <4>5
      <4>7. traceCondTri(n, e).trace = [op |-> n.op, result |-> evalTri(n, e) = "true",
                  kids |-> [k \in 1 .. last |-> traceCondTri(n.kids[k], e).trace]]
        <5> DEFINE tris == [k \in DOMAIN n.kids |-> traceCondTri(n.kids[k], e).tri]
        <5>1. traceCondTri(n, e).trace =
                 [op |-> n.op, result |-> traceCondTri(n, e).tri = "true",
                  kids |-> [k \in 1 .. Looked(tris, stop) |-> traceCondTri(n.kids[k], e).trace]]
          BY <2>3, TraceAt DEF stop
        <5>2. Looked(tris, stop) = last
          BY <3>4, <4>2
        <5> HIDE DEF tris
        <5> QED BY <3>7, <5>1, <5>2
      <4>8. Mirror(n, e) = [op |-> n.op, result |-> evalTri(n, e) = "true",
                            kids |-> [k \in 1 .. last |-> Mirror(n.kids[k], e)]]
        BY <2>3, MirrorAt DEF last
      <4> QED BY <4>6, <4>7, <4>8
    <3> QED BY <3>7, <3>8 DEF Faithful
  <2>4. CASE n.kind \notin {"cmp", "bool"}
    BY <2>4, EvalAt, TraceAt DEF Faithful
  <2> QED BY <2>1, <2>2, <2>3, <2>4
<1>2. \A n \in Nodes : (\A k \in Operands(n) : k \in S) => n \in S
  BY <1>1
<1> HIDE DEF S
<1>3. Nodes \subseteq S
  BY <1>2, TreeInduction
<1> QED BY <1>3 DEF S

\* The Result of the trace of a node that does not panic.
LEMMA MirrorResult ==
    ASSUME NEW n \in Nodes, NEW e, evalTri(n, e) # "panic"
    PROVE  Mirror(n, e).result = (evalTri(n, e) = "true")
<1>1. n.kind \in {"cmp", "bool"}
  BY EvalAt
<1>2. CASE n.kind = "cmp"
  <2>1. Mirror(n, e) = [op |-> n.op, result |-> evalTri(n, e) = "true", kids |-> <<>>,
                        left |-> valueTrace(n.left, e), right |-> valueTrace(n.right, e)]
    BY <1>2, MirrorAt
  <2> QED BY <2>1
<1>3. CASE n.kind = "bool"
  <2> DEFINE last == IF Settling(n, e) = {} THEN Len(n.kids) ELSE Min(Settling(n, e))
             kids == [k \in 1 .. last |-> Mirror(n.kids[k], e)]
  <2>1. Mirror(n, e) = [op |-> n.op, result |-> evalTri(n, e) = "true", kids |-> kids]
    BY <1>3, MirrorAt
  <2> HIDE DEF kids
  <2> QED BY <2>1
<1> QED BY <1>1, <1>2, <1>3

\* The loop over the grants returns what the trace-off one does.
LEMMA TraceMatchAgrees ==
    ASSUME NEW n \in Nodes, NEW q, DOMAIN q.grants \in SUBSET Nat
    PROVE  traceMatch(n, q) = matches(n, q)
<1> DEFINE outs == [k \in DOMAIN q.grants |-> traceCondTri(n, Env(q, k))]
           results == [k \in DOMAIN q.grants |-> evalTri(n, Env(q, k))]
           stops == {k \in DOMAIN outs : outs[k].tri = "panic" \/ outs[k].trace.result}
           ends == {k \in DOMAIN results : results[k] \in {"true", "panic"}}
<1>1. ASSUME NEW k \in DOMAIN q.grants
      PROVE  /\ outs[k].tri = results[k]
             /\ results[k] # "panic" => outs[k].trace.result = (results[k] = "true")
  <2>1. Faithful(n, Env(q, k))
    BY TraceIsFaithful
  <2> QED BY <2>1, MirrorResult DEF Faithful
<1>2. DOMAIN outs = DOMAIN q.grants /\ DOMAIN results = DOMAIN q.grants
  OBVIOUS
<1>3. /\ traceMatch(n, q) = IF stops = {} THEN "false"
                            ELSE IF outs[Min(stops)].tri = "panic" THEN "panic" ELSE "true"
      /\ matches(n, q) = IF ends = {} THEN "false" ELSE results[Min(ends)]
  BY DEF traceMatch, matches
<1> HIDE DEF outs, results
<1>4. stops = ends /\ ends \in SUBSET DOMAIN q.grants
  BY <1>1, <1>2
<1>5. \A k \in ends : results[k] \in {"true", "panic"} /\ outs[k].tri = results[k]
  BY <1>1, <1>2
<1> HIDE DEF stops, ends
<1>6. ends # {} => Min(ends) \in ends
  BY <1>4, MinSpec
<1> QED BY <1>3, <1>4, <1>5, <1>6

-----------------------------------------------------------------------------
(* The lines of an explanation. *)

\* A node's own line.
OwnLine(n, e) == LET t == traceCondTri(n, e).trace
                 IN [op |-> t.op, result |-> t.result,
                     absent |-> IF n.kind = "cmp" THEN absentOperands(t) ELSE {}]

\* The lines of a node are its own and those of the kids its trace has.
LEMMA RenderAt ==
    ASSUME NEW n \in Nodes, NEW e
    PROVE  /\ OwnLine(n, e) \in renderCond(n, e)
           /\ \A k \in DOMAIN traceCondTri(n, e).trace.kids :
                 renderCond(n.kids[k], e) \subseteq renderCond(n, e)
           /\ \A l \in renderCond(n, e) :
                 \/ l = OwnLine(n, e)
                 \/ \E k \in DOMAIN traceCondTri(n, e).trace.kids : l \in renderCond(n.kids[k], e)
<1> DEFINE t == traceCondTri(n, e).trace
<1>1. renderCond(n, e) = renderNode(n, Rendered(e), e)
  BY RenderUnfolds DEF renderCond
<1>2. renderCond(n, e) = {OwnLine(n, e)} \cup UNION {Rendered(e)[n.kids[k]] : k \in DOMAIN t.kids}
  BY <1>1 DEF renderNode, OwnLine
<1>3. \A k : Rendered(e)[n.kids[k]] = renderCond(n.kids[k], e)
  BY DEF renderCond
<1> HIDE DEF t
<1>4. ASSUME NEW k \in DOMAIN t.kids PROVE renderCond(n.kids[k], e) \subseteq renderCond(n, e)
  BY <1>2, <1>3
<1>5. ASSUME NEW l \in renderCond(n, e), l # OwnLine(n, e)
      PROVE  \E k \in DOMAIN t.kids : l \in renderCond(n.kids[k], e)
  BY <1>2, <1>3, <1>5
<1> QED BY <1>2, <1>4, <1>5 DEF t

\* The comparison of values is unknown exactly when the trace has an absent operand.
LEMMA ComparisonShowsAbsent ==
    ASSUME NEW n \in Nodes, n.kind = "cmp", IsValue(n.left), IsValue(n.right), NEW e
    PROVE  /\ evalTri(n, e) = "unknown" => OwnLine(n, e).absent # {}
           /\ OwnLine(n, e).absent # {} => ~OwnLine(n, e).result
<1> DEFINE l == valueTrace(n.left, e)
           r == valueTrace(n.right, e)
           t == traceCondTri(n, e).trace
           missing == {u \in {l, r} : ~u.resolved.present}
<1>1. l.resolved = evalValue(n.left, e) /\ r.resolved = evalValue(n.right, e)
  BY DEF valueTrace, evalValue
<1>2. compare(n, e) = IF ~l.resolved.present \/ ~r.resolved.present THEN "unknown"
                      ELSE triOf(applyCmp(n.op, l.resolved.value, r.resolved.value))
  BY <1>1 DEF compare
<1>3. compare(n, e) # "panic" /\ (compare(n, e) = "unknown" <=> missing # {})
  <2>1. missing # {} <=> ~l.resolved.present \/ ~r.resolved.present
    OBVIOUS
  <2> HIDE DEF missing, l, r
  <2> QED BY <1>2, <2>1 DEF triOf
<1>4. t.result = (compare(n, e) = "true") /\ t.left = l /\ t.right = r
  <2>1. t = [op |-> n.op, result |-> compare(n, e) = "true", kids |-> <<>>, left |-> l, right |-> r]
    BY <1>3, TraceAt
  <2> HIDE DEF l, r, t
  <2> QED BY <2>1
<1>5. evalTri(n, e) = compare(n, e)
  BY EvalAt
<1>6. OwnLine(n, e).result = t.result /\ OwnLine(n, e).absent = absentOperands(t)
  BY DEF OwnLine
<1>7. absentOperands(t) = {v.node.name : v \in missing}
  BY <1>4 DEF absentOperands
<1> HIDE DEF l, r, t, missing
<1>8. absentOperands(t) # {} <=> missing # {}
  <2>1. ASSUME NEW v \in missing PROVE v.node.name \in absentOperands(t)
    BY <1>7
  <2>2. ASSUME NEW x \in absentOperands(t) PROVE \E v \in missing : TRUE
    BY <1>7
  <2> QED BY <2>1, <2>2
<1> QED BY <1>3, <1>4, <1>5, <1>6, <1>8

\* What an explanation of a condition shows of absent attributes.
ShowsAbsent(n, e) ==
    /\ evalTri(n, e) = "unknown" => \E l \in renderCond(n, e) : l.absent # {}
    /\ \A l \in renderCond(n, e) : l.absent # {} => ~l.result

LEMMA ExplanationShowsAbsent ==
    ASSUME NEW e
    PROVE  \A n \in Nodes : WellKinded[n] => ShowsAbsent(n, e)
<1> DEFINE S == {n \in Nodes : WellKinded[n] => ShowsAbsent(n, e)}
<1>1. ASSUME NEW n \in Nodes, \A k \in Operands(n) : k \in S, WellKinded[n]
      PROVE  ShowsAbsent(n, e)
  <2> DEFINE t == traceCondTri(n, e).trace
  <2>1. CASE n.kind = "cmp"
    <3>1. DOMAIN t.kids = {}
      <4>1. t.kids = <<>>
        BY <2>1, TraceShape
      <4> QED BY <4>1
    <3>2. IsValue(n.left) /\ IsValue(n.right)
      BY <1>1, <2>1, KindedUnfolds
    <3>3. \A l \in renderCond(n, e) : l = OwnLine(n, e)
      BY <3>1, RenderAt
    <3>4. OwnLine(n, e) \in renderCond(n, e)
      BY RenderAt
    <3> QED BY <2>1, <3>2, <3>3, <3>4, ComparisonShowsAbsent DEF ShowsAbsent
  <2>2. CASE n.kind = "bool"
    <3>1. \A k \in DOMAIN n.kids : /\ n.kids[k] \in Nodes
                                   /\ ShowsAbsent(n.kids[k], e)
                                   /\ evalTri(n.kids[k], e) \in Tri
      BY <1>1, <2>2, Kids, KindedUnfolds, EvalType
    <3>2. DOMAIN t.kids \subseteq DOMAIN n.kids
      BY <2>2, TraceShape
    <3>3. OwnLine(n, e).absent = {}
      BY <2>2 DEF OwnLine
    <3>4. ASSUME NEW l \in renderCond(n, e), l.absent # {}
          PROVE  ~l.result
      <4>1. PICK k \in DOMAIN t.kids : l \in renderCond(n.kids[k], e)
        BY <3>3, <3>4, RenderAt
      <4> QED BY <3>1, <3>2, <3>4, <4>1 DEF ShowsAbsent
    <3>5. ASSUME evalTri(n, e) = "unknown"
          PROVE  \E k \in DOMAIN t.kids : evalTri(n.kids[k], e) = "unknown"
      <4>1. CASE n.op = "not"
        <5>1. evalTri(n.kids[1], e) = "unknown"
          <6>1. evalTri(n.kids[1], e) \in Tri
            BY <2>2, <3>1, Kids
          <6> QED BY <2>2, <3>5, <4>1, <6>1, EvalAt DEF negate, Tri
        <5>2. t.kids = [k \in 1 .. 1 |-> traceCondTri(n.kids[k], e).trace]
          <6>1. t = [op |-> n.op, result |-> traceCondTri(n, e).tri = "true",
                     kids |-> [k \in 1 .. 1 |-> traceCondTri(n.kids[k], e).trace]]
            BY <2>2, <4>1, TraceAt
          <6> QED BY <6>1
        <5> QED BY <5>1, <5>2
      <4>2. CASE n.op # "not"
        <5> DEFINE results == [k \in DOMAIN n.kids |-> evalTri(n.kids[k], e)]
                   tris == [k \in DOMAIN n.kids |-> traceCondTri(n.kids[k], e).tri]
                   stop == StopOf(n.op)
                   m == Len(n.kids)
        <5>1. m \in Nat \ {0} /\ DOMAIN n.kids = 1 .. m /\ stop \in {"true", "false"}
          BY <2>2, <4>2, Kids DEF StopOf
        <5>2. results \in [1 .. m -> Tri]
          BY <3>1, <5>1
        <5>3. tris = results
          BY <3>1, TraceIsFaithful DEF Faithful
        <5>4. Loop(results, stop, negate(stop)) = "unknown"
          BY <2>2, <3>5, <4>2, EvalAt
        <5>5. DOMAIN t.kids = 1 .. Looked(tris, stop)
          <6>1. t = [op |-> n.op, result |-> traceCondTri(n, e).tri = "true",
                     kids |-> [k \in 1 .. Looked(tris, stop) |-> traceCondTri(n.kids[k], e).trace]]
            BY <2>2, <4>2, TraceAt
          <6> HIDE DEF tris, stop, t
          <6>2. t.kids = [k \in 1 .. Looked(tris, stop) |-> traceCondTri(n.kids[k], e).trace]
            BY <6>1
          <6> QED BY <6>2
        <5> HIDE DEF results, tris, stop, m, t
        <5>6. Looked(results, stop) \in 1 .. m
          BY <5>1, <5>2, LookedSpec
        <5>7. PICK k \in 1 .. Looked(results, stop) : results[k] = "unknown"
          BY <5>1, <5>2, <5>4, LoopSpec
        <5>8. k \in 1 .. m /\ k \in DOMAIN t.kids
          BY <5>1, <5>3, <5>5, <5>6
        <5>9. results[k] = evalTri(n.kids[k], e)
          BY <5>1, <5>8 DEF results
        <5> QED BY <5>7, <5>8, <5>9
      <4> QED BY <4>1, <4>2
    <3>6. ASSUME evalTri(n, e) = "unknown"
          PROVE  \E l \in renderCond(n, e) : l.absent # {}
      <4>1. PICK k \in DOMAIN t.kids : evalTri(n.kids[k], e) = "unknown"
        BY <3>5, <3>6
      <4>2. PICK l \in renderCond(n.kids[k], e) : l.absent # {}
        BY <3>1, <3>2, <4>1 DEF ShowsAbsent
      <4> QED BY <4>2, RenderAt
    <3> QED BY <3>4, <3>6 DEF ShowsAbsent
  <2> QED BY <1>1, <2>1, <2>2, KindedUnfolds
<1>2. \A n \in Nodes : (\A k \in Operands(n) : k \in S) => n \in S
  BY <1>1
<1> HIDE DEF S
<1>3. Nodes \subseteq S
  BY <1>2, TreeInduction
<1> QED BY <1>3 DEF S
=============================================================================
