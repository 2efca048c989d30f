---------------------------- MODULE TreeRecursion ----------------------------
(* Induction and recursion over trees, for the proofs about recursive       *)
(* functions of conditions.  A tree is a node with nodes Below it, each of   *)
(* less height.  Step(n, f, e) is the value of a function at n, with the     *)
(* argument e, when f gives its values below n.                              *)
EXTENDS Naturals, WellFoundedInduction, NaturalsInduction, TLAPS

CONSTANTS Nodes, height, Below(_), Step(_, _, _)

Founded == /\ height \in [Nodes -> Nat]
           /\ \A n \in Nodes : \A k \in Below(n) : k \in Nodes /\ height[k] < height[n]

\* The value at a node depends on the values below it only.
Local == \A n \in Nodes : \A f, g, e :
            (\A k \in Below(n) : f[k] = g[k]) => Step(n, f, e) = Step(n, g, e)

Less == {pair \in Nat \X Nat : pair[1] < pair[2]}

\* The natural numbers are well ordered.
LEMMA LessIsWellFounded == IsWellFoundedOn(Less, Nat)
BY NatLessThanWellFounded DEF OpToRel, Less

LEMMA LeastOf ==
    ASSUME NEW T \in SUBSET Nat, T # {}
    PROVE  \E x \in T : \A y \in T : x <= y
<1>1. PICK x \in T : \A y \in T : ~(<<y, x>> \in Less)
  BY LessIsWellFounded, WFMin
<1>2. \A y \in T : ~(y < x)
  BY <1>1 DEF Less
<1> QED BY <1>2

\* A set of numbers with 0 that is closed under successor has them all.
LEMMA SetInduction ==
    ASSUME NEW S \in SUBSET Nat, 0 \in S, \A n \in S : n + 1 \in S
    PROVE  S = Nat
<1> SUFFICES ASSUME S # Nat PROVE FALSE
  OBVIOUS
<1>1. PICK x \in Nat \ S : \A y \in Nat \ S : x <= y
  BY LeastOf
<1>2. x # 0 /\ x - 1 \in Nat /\ x - 1 < x
  BY <1>1
<1>3. x - 1 \in S
  BY <1>1, <1>2
<1>4. (x - 1) + 1 \in S
  BY <1>3
<1> QED BY <1>2, <1>4

\* A set that has every node all of whose operands it has, has every node.
LEMMA TreeInduction ==
    ASSUME Founded, NEW S,
           \A n \in Nodes : (\A k \in Below(n) : k \in S) => n \in S
    PROVE  Nodes \subseteq S
<1> SUFFICES ASSUME ~(Nodes \subseteq S) PROVE FALSE
  OBVIOUS
<1> DEFINE T == {height[n] : n \in Nodes \ S}
<1>1. T \in SUBSET Nat /\ T # {}
  BY DEF Founded
<1>2. PICK h \in T : \A i \in T : h <= i
  BY <1>1, LeastOf
<1>3. PICK n \in Nodes \ S : h = height[n]
  BY <1>2
<1>4. ASSUME NEW k \in Below(n), k \notin S
      PROVE  FALSE
  <2>1. k \in Nodes /\ height[k] < height[n] /\ height[k] \in Nat /\ height[n] \in Nat
    BY <1>3 DEF Founded
  <2>2. height[k] \in T
    BY <1>4, <2>1
  <2> HIDE DEF T
  <2>3. h <= height[k]
    BY <1>2, <2>2
  <2> QED BY <1>3, <2>1, <2>3
<1> QED BY <1>3, <1>4

-----------------------------------------------------------------------------
\* The nodes lower than h, and the solutions of the recursion for them.
Lower(h) == {n \in Nodes : height[n] < h}
Solves(f, h, e) == f = [n \in Lower(h) |-> Step(n, f, e)]

\* There is a solution up to each height: one more step of the one below it.
LEMMA SolutionsExist ==
    ASSUME Founded, Local, NEW e
    PROVE  \A h \in Nat : \E f : Solves(f, h, e)
<1> DEFINE S == {h \in Nat : \E f : Solves(f, h, e)}
<1>1. 0 \in S
  <2>1. Lower(0) = {}
    BY DEF Lower, Founded
  <2>2. Solves([n \in {} |-> 0], 0, e)
    BY <2>1 DEF Solves
  <2> QED BY <2>2
<1>2. ASSUME NEW h \in S
      PROVE  h + 1 \in S
  <2>1. PICK f : Solves(f, h, e)
    OBVIOUS
  <2> DEFINE g == [n \in Lower(h + 1) |-> Step(n, f, e)]
  <2>2. ASSUME NEW n \in Lower(h + 1)
        PROVE  Step(n, g, e) = Step(n, f, e)
    <3>1. ASSUME NEW k \in Below(n)
          PROVE  g[k] = f[k]
      <4>1. /\ k \in Nodes /\ height[k] < height[n] /\ height[n] < h + 1
            /\ height[k] \in Nat /\ height[n] \in Nat /\ h \in Nat
        BY DEF Founded, Lower
      <4>2. k \in Lower(h) /\ k \in Lower(h + 1)
        BY <4>1 DEF Lower
      <4>3. f[k] = Step(k, f, e)
        BY <2>1, <4>2 DEF Solves
      <4> QED BY <4>2, <4>3
    <3>2. n \in Nodes
      BY DEF Lower
    <3> HIDE DEF g
    <3> QED BY <3>1, <3>2 DEF Local
  <2>3. g = [n \in Lower(h + 1) |-> Step(n, g, e)]
    BY <2>2
  <2>4. Solves(g, h + 1, e)
    BY <2>3 DEF Solves
  <2> QED BY <2>4
<1>3. S \in SUBSET Nat
  OBVIOUS
<1> HIDE DEF S
<1>4. S = Nat
  BY <1>1, <1>2, <1>3, SetInduction
<1> QED BY <1>4 DEF S

\* Two solutions agree where both are defined.
LEMMA SolutionsAgree ==
    ASSUME Founded, Local, NEW e, NEW h \in Nat, NEW i \in Nat, NEW f, NEW g,
           Solves(f, h, e), Solves(g, i, e),
           NEW n \in Nodes, height[n] < h, height[n] < i
    PROVE  f[n] = g[n]
<1> DEFINE S == {m \in Nodes : height[m] < h /\ height[m] < i => f[m] = g[m]}
<1>1. ASSUME NEW m \in Nodes, \A k \in Below(m) : k \in S
      PROVE  m \in S
  <2> SUFFICES ASSUME height[m] < h, height[m] < i PROVE f[m] = g[m]
    OBVIOUS
  <2>1. ASSUME NEW k \in Below(m)
        PROVE  f[k] = g[k]
    <3>1. /\ k \in Nodes /\ height[k] < height[m]
          /\ height[k] \in Nat /\ height[m] \in Nat
      BY DEF Founded
    <3>2. height[k] < h /\ height[k] < i
      BY <3>1
    <3> QED BY <1>1, <3>2
  <2>2. Step(m, f, e) = Step(m, g, e)
    BY <2>1 DEF Local
  <2>3. m \in Lower(h) /\ m \in Lower(i)
    BY DEF Lower
  <2> QED BY <2>2, <2>3 DEF Solves
<1> HIDE DEF S
<1>2. Nodes \subseteq S
  BY <1>1, TreeInduction
<1> QED BY <1>2 DEF S

\* A recursive definition over trees defines a function: the solutions put together.
LEMMA TreeRecursive ==
    ASSUME Founded, Local
    PROVE  \A e : \E f : f = [n \in Nodes |-> Step(n, f, e)]
<1> TAKE e
<1> DEFINE At(n) == CHOOSE f : Solves(f, height[n] + 1, e)
           F == [n \in Nodes |-> At(n)[n]]
<1>1. ASSUME NEW n \in Nodes
      PROVE  height[n] \in Nat /\ Solves(At(n), height[n] + 1, e)
  <2>1. height[n] \in Nat /\ height[n] + 1 \in Nat
    BY DEF Founded
  <2> QED BY <2>1, SolutionsExist
<1> HIDE DEF At
<1>2. ASSUME NEW n \in Nodes
      PROVE  F[n] = Step(n, F, e)
  <2>1. ASSUME NEW k \in Below(n)
        PROVE  At(n)[k] = F[k]
    <3>1. /\ k \in Nodes /\ height[k] < height[n]
          /\ height[k] \in Nat /\ height[n] \in Nat
      BY DEF Founded
    <3>2. height[k] < height[n] + 1 /\ height[k] < height[k] + 1
      BY <3>1
    <3>3. At(n)[k] = At(k)[k]
      BY <1>1, <3>1, <3>2, SolutionsAgree
    <3> QED BY <3>1, <3>3
  <2>2. At(n)[n] = Step(n, At(n), e)
    <3>1. n \in Lower(height[n] + 1)
      BY <1>1 DEF Lower
    <3> QED BY <1>1, <3>1 DEF Solves
  <2> HIDE DEF F
  <2>3. Step(n, At(n), e) = Step(n, F, e)
    BY <2>1 DEF Local
  <2>4. F[n] = At(n)[n]
    BY DEF F
  <2> QED BY <2>2, <2>3, <2>4
<1>3. F = [n \in Nodes |-> Step(n, F, e)]
  BY <1>2
<1> QED BY <1>3
=============================================================================
