--------------------------- MODULE ConditionProofs ---------------------------
(* Proofs about Condition, for any conditions, any queries and any values   *)
(* of the attributes.                                                       *)
EXTENDS Condition, EvaluatorProofs

Kept == /\ tree \in Trees /\ query \in Queries
        /\ outcome \in {"running", "true", "false", "panic"}
        /\ attempts \in Seq({Mirror(tree, Env(query, k)) : k \in DOMAIN query.grants})
        /\ Tried <= Len(query.grants)

\* Each grant tried has its trace.
Shows == \A k \in 1 .. Tried : /\ evalTri(tree, Env(query, k)) # "panic"
                               /\ attempts[k] = Mirror(tree, Env(query, k))

\* The call ends at the first grant that satisfies or panics, and at no other.
Ends == /\ \A k \in 1 .. Tried :
              evalTri(tree, Env(query, k)) = "true" <=> outcome = "true" /\ k = Tried
        /\ outcome = "true" => Tried > 0
        /\ outcome = "panic" => /\ Tried < Len(query.grants)
                                /\ evalTri(tree, Env(query, Tried + 1)) = "panic"
        /\ outcome = "false" => Tried = Len(query.grants)

CInv == Kept /\ Shows /\ Ends

LEMMA KeptNumbers ==
    ASSUME Kept
    PROVE  /\ tree \in Nodes
           /\ Tried \in Nat /\ DOMAIN attempts = 1 .. Tried
           /\ Len(query.grants) \in Nat /\ DOMAIN query.grants = 1 .. Len(query.grants)
<1>1. Len(attempts) \in Nat /\ DOMAIN attempts = 1 .. Len(attempts)
  BY LenProperties DEF Kept
<1> QED BY <1>1, ConditionAssumption DEF Kept, Tried

LEMMA InitCInv == Init => CInv
<1> SUFFICES ASSUME Init PROVE CInv
  OBVIOUS
<1>1. attempts = <<>> /\ Tried = 0
  BY EmptySeq DEF Init, Tried
<1>2. Len(query.grants) \in Nat
  BY ConditionAssumption DEF Init
<1>3. attempts \in Seq({Mirror(tree, Env(query, k)) : k \in DOMAIN query.grants})
  BY <1>1, EmptySeq
<1> QED BY <1>1, <1>2, <1>3 DEF Init, CInv, Kept, Shows, Ends

LEMMA TryGrantCInv ==
    ASSUME CInv, TryGrant
    PROVE  CInv'
<1> DEFINE i == Tried + 1
           e == Env(query, i)
           S == {Mirror(tree, Env(query, k)) : k \in DOMAIN query.grants}
<1>1. /\ tree \in Nodes /\ Tried \in Nat /\ DOMAIN attempts = 1 .. Tried
      /\ Len(query.grants) \in Nat /\ DOMAIN query.grants = 1 .. Len(query.grants)
  BY KeptNumbers DEF CInv
<1>2. /\ outcome = "running" /\ Tried < Len(query.grants)
      /\ tree' = tree /\ query' = query
  BY DEF TryGrant
<1>3. traceCondTri(tree, e).tri = evalTri(tree, e)
      /\ (evalTri(tree, e) # "panic" => traceCondTri(tree, e).trace = Mirror(tree, e))
  BY <1>1, TraceIsFaithful DEF Faithful
<1>4. CASE evalTri(tree, e) = "panic"
  <2>1. outcome' = "panic" /\ attempts' = attempts
    BY <1>3, <1>4 DEF TryGrant
  <2>2. Tried' = Tried
    BY <2>1 DEF Tried
  <2> QED BY <1>1, <1>2, <1>4, <2>1, <2>2 DEF CInv, Kept, Shows, Ends
<1>5. CASE evalTri(tree, e) # "panic"
  <2>1. /\ attempts' = Append(attempts, Mirror(tree, e))
        /\ outcome' = IF Mirror(tree, e).result THEN "true" ELSE outcome
    BY <1>3, <1>5 DEF TryGrant
  <2>2. outcome' = IF evalTri(tree, e) = "true" THEN "true" ELSE "running"
    BY <1>1, <1>2, <1>5, <2>1, MirrorResult
  <2>3. attempts \in Seq(S) /\ Mirror(tree, e) \in S
    BY <1>1, <1>2 DEF CInv, Kept
  <2> HIDE DEF S
  <2>4. /\ attempts' \in Seq(S) /\ Tried' = i
        /\ attempts'[i] = Mirror(tree, e)
        /\ \A k \in 1 .. Tried : attempts'[k] = attempts[k]
    BY <2>1, <2>3, AppendProperties DEF Tried
  <2>5. Kept'
    BY <1>1, <1>2, <2>2, <2>4 DEF CInv, Kept, S
  <2>6. \A k \in 1 .. i : k \in 1 .. Tried \/ k = i
    BY <1>1
  <2>7. Shows'
    BY <1>2, <1>5, <2>4, <2>6 DEF CInv, Shows
  <2>8. \A k \in 1 .. Tried : evalTri(tree, Env(query, k)) # "true" /\ k # i
    BY <1>1, <1>2 DEF CInv, Ends
  <2>9. \A k \in 1 .. i :
           evalTri(tree, Env(query, k)) = "true" <=> outcome' = "true" /\ k = i
    BY <2>2, <2>6, <2>8
  <2>10. Ends'
    BY <1>1, <1>2, <2>2, <2>4, <2>9 DEF Ends
  <2> QED BY <2>5, <2>7, <2>10 DEF CInv
<1> QED BY <1>4, <1>5

LEMMA GiveUpCInv ==
    ASSUME CInv, GiveUp
    PROVE  CInv'
<1>1. Tried' = Tried
  BY DEF GiveUp, Tried
<1> QED BY <1>1 DEF GiveUp, CInv, Kept, Shows, Ends

THEOREM ConditionInvariant == Spec => []CInv
<1>1. CInv /\ UNCHANGED vars => CInv'
  BY DEF CInv, Kept, Shows, Ends, Tried, vars
<1>2. CInv /\ [Next]_vars => CInv'
  BY <1>1, TryGrantCInv, GiveUpCInv DEF Next
<1> QED BY InitCInv, <1>2, PTL DEF Spec

-----------------------------------------------------------------------------
\* matches ends where traceMatch does.
LEMMA MatchesAgrees ==
    ASSUME CInv, outcome # "running"
    PROVE  outcome = matches(tree, query)
<1> DEFINE results == [k \in DOMAIN query.grants |-> evalTri(tree, Env(query, k))]
           ends == {k \in DOMAIN results : results[k] \in {"true", "panic"}}
<1>1. /\ tree \in Nodes /\ Tried \in Nat
      /\ Len(query.grants) \in Nat /\ DOMAIN query.grants = 1 .. Len(query.grants)
      /\ Tried <= Len(query.grants)
  BY KeptNumbers DEF CInv, Kept
<1>2. ends \in SUBSET Nat
  BY <1>1
<1>3. ends # {} => Min(ends) \in ends /\ \A k \in ends : Min(ends) <= k
  BY <1>2, MinSpec
<1>4. matches(tree, query) = IF ends = {} THEN "false" ELSE results[Min(ends)]
  BY DEF matches
<1>5. \A k \in DOMAIN query.grants : results[k] = evalTri(tree, Env(query, k))
  OBVIOUS
<1>6. ends = {k \in 1 .. Len(query.grants) : results[k] \in {"true", "panic"}}
  BY <1>1
<1> HIDE DEF results, ends
<1>7. \A k \in 1 .. Tried : k \in ends => outcome = "true" /\ k = Tried
  BY <1>1, <1>5, <1>6 DEF CInv, Shows, Ends
<1>8. CASE outcome = "true"
  <2>1. Tried \in ends /\ results[Tried] = "true"
    BY <1>1, <1>5, <1>6, <1>8 DEF CInv, Ends
  <2>2. Min(ends) \in 1 .. Tried
    BY <1>1, <1>3, <1>6, <2>1
  <2>3. Min(ends) = Tried
    BY <1>3, <1>7, <2>1, <2>2
  <2> QED BY <1>4, <1>8, <2>1, <2>3
<1>9. CASE outcome = "panic"
  <2>1. Tried + 1 \in ends /\ results[Tried + 1] = "panic"
    BY <1>1, <1>5, <1>6, <1>9 DEF CInv, Ends
  <2>2. Min(ends) \in 1 .. Tried + 1 /\ Min(ends) \in ends
    BY <1>1, <1>3, <1>6, <2>1
  <2>3. Min(ends) \notin 1 .. Tried
    BY <1>7, <1>9, <2>2
  <2>4. Min(ends) = Tried + 1
    BY <1>1, <2>2, <2>3
  <2> QED BY <1>4, <1>9, <2>1, <2>4
<1>10. CASE outcome = "false"
  <2>1. ends = {}
    BY <1>1, <1>6, <1>7, <1>10 DEF CInv, Ends
  <2> QED BY <1>4, <1>10, <2>1
<1> QED BY <1>8, <1>9, <1>10 DEF CInv, Kept

\* The traced evaluator and the trace-off one decide alike: traceMatch returns what
\* matches returns, a panic included, and at every node of every trace it built the
\* Result, the operands and the kids shown are those of the trace-off evaluation.
THEOREM TraceMirrors == Spec => []TraceMirrorsDecision
<1>1. CInv => TraceMirrorsDecision
  <2> SUFFICES ASSUME CInv PROVE TraceMirrorsDecision
    OBVIOUS
  <2>1. DOMAIN attempts = 1 .. Tried
    BY KeptNumbers DEF CInv
  <2> QED BY <2>1, MatchesAgrees DEF CInv, Shows, TraceMirrorsDecision
<1> QED BY <1>1, ConditionInvariant, PTL

\* Short-circuiting never changes what a condition means: traceMatch returns true
\* exactly when the condition has, for some grant, the value true in strong Kleene
\* logic, for a condition of any shape over any attributes.
THEOREM ConditionsAreKleene == Spec => []MatchesIsKleene
<1>1. CInv => MatchesIsKleene
  <2> SUFFICES ASSUME CInv, WellKinded[tree], outcome # "running"
               PROVE  outcome = "true" <=> \E k \in DOMAIN query.grants : Rank(tree, Env(query, k)) = 3
    BY DEF MatchesIsKleene
  <2>1. /\ tree \in Nodes /\ Tried \in Nat
        /\ Len(query.grants) \in Nat /\ DOMAIN query.grants = 1 .. Len(query.grants)
        /\ Tried <= Len(query.grants)
    BY KeptNumbers DEF CInv, Kept
  <2>2. \A e : KleeneAt(tree, e)
    BY <2>1, EvalIsKleene
  <2>3. CASE outcome = "true"
    <3>1. Tried \in DOMAIN query.grants /\ evalTri(tree, Env(query, Tried)) = "true"
      BY <2>1, <2>3 DEF CInv, Ends
    <3> QED BY <2>2, <2>3, <3>1 DEF KleeneAt
  <2>4. CASE outcome = "false"
    <3>1. \A k \in DOMAIN query.grants : evalTri(tree, Env(query, k)) # "true"
      BY <2>1, <2>4 DEF CInv, Ends
    <3> QED BY <2>2, <2>4, <3>1 DEF KleeneAt
  <2>5. CASE outcome = "panic"
    <3>1. evalTri(tree, Env(query, Tried + 1)) = "panic"
      BY <2>5 DEF CInv, Ends
    <3> QED BY <2>2, <3>1 DEF KleeneAt
  <2> QED BY <2>3, <2>4, <2>5 DEF CInv, Kept
<1> QED BY <1>1, ConditionInvariant, PTL

\* Absence never flips into a match: a condition that matched matches, for that grant,
\* whatever values the attributes it lacks would have.
THEOREM AbsenceIsNoMatch == Spec => []AbsenceNeverMatches
<1>1. CInv => AbsenceNeverMatches
  <2> SUFFICES ASSUME CInv, WellKinded[tree], outcome = "true", NEW guess \in Guesses
               PROVE  Holds(tree, Env(query, Tried), guess)
    BY DEF AbsenceNeverMatches
  <2>1. tree \in Nodes /\ Tried \in Nat /\ Tried > 0
    BY KeptNumbers DEF CInv, Ends
  <2>2. evalTri(tree, Env(query, Tried)) = "true"
    BY <2>1 DEF CInv, Ends
  <2> QED BY <2>1, <2>2, AbsenceDecidesNothing DEF Certain
<1> QED BY <1>1, ConditionInvariant, PTL

\* The explanation of a condition that failed for want of an attribute names one, in
\* the lines that survive the short-circuit, and none of its lines shows a comparison
\* that lacks one as true.
THEOREM FailuresShowAbsence == Spec => []UnknownShowsAbsent
<1>1. CInv => UnknownShowsAbsent
  <2> SUFFICES ASSUME CInv, WellKinded[tree]
               PROVE  \A k \in DOMAIN attempts : ShowsAbsent(tree, Env(query, k))
    BY DEF UnknownShowsAbsent, ShowsAbsent
  <2>1. tree \in Nodes
    BY KeptNumbers DEF CInv
  <2> QED BY <2>1, ExplanationShowsAbsent
<1> QED BY <1>1, ConditionInvariant, PTL
=============================================================================
