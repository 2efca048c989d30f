---------------------------- MODULE EngineProofs ----------------------------
(* Proofs about the path of a policy, for any documents, limits, queries and *)
(* condition trees: first about Parser, compared with the language of        *)
(* Grammar; then about Engine, which decides by the rules it has parsed.     *)
EXTENDS Engine, EvaluatorProofs

\* The values under a condition, and the number before another.
Under(j) == {OperandsOf(j)[k] : k \in DOMAIN OperandsOf(j)}
Before(n) == IF n = 0 THEN {} ELSE {n - 1}

\* The recursions of Grammar and Engine, in the form TreeRecursion has them.
sumNode(n, sum, s) == IF n = 0 THEN 0 ELSE sum[n - 1] + s[n]
isNode(j, f, e) == OneKey(j) /\ Fits(j) /\ \A k \in DOMAIN OperandsOf(j) : f[OperandsOf(j)[k]]
growNode(j, tree, e) == treeNode(j, tree)
sizeNode(j, size, e) == 1 + Plus([k \in DOMAIN OperandsOf(j) |-> size[OperandsOf(j)[k]]])
heightNode(j, high, e) == 1 + Max({0} \cup {high[OperandsOf(j)[k]] : k \in DOMAIN OperandsOf(j)})

Adding == INSTANCE TreeRecursion
          WITH Nodes <- Nat, height <- [n \in Nat |-> n], Below <- Before, Step <- sumNode
Lang == INSTANCE TreeRecursion
          WITH Nodes <- Values, height <- nesting, Below <- Under, Step <- isNode
Grow == INSTANCE TreeRecursion
          WITH Nodes <- Values, height <- nesting, Below <- Under, Step <- growNode
Count == INSTANCE TreeRecursion
          WITH Nodes <- Values, height <- nesting, Below <- Under, Step <- sizeNode
High == INSTANCE TreeRecursion
          WITH Nodes <- Values, height <- nesting, Below <- Under, Step <- heightNode

-----------------------------------------------------------------------------
(* Numbers. *)

\* A bounded set of numbers has a greatest one.
LEMMA GreatestOf ==
    ASSUME NEW T \in SUBSET Nat, T # {}, NEW n \in Nat, \A t \in T : t <= n
    PROVE  Max(T) \in T /\ \A t \in T : t <= Max(T)
<1> DEFINE U == {u \in Nat : \A t \in T : t <= u}
<1>1. PICK u \in U : \A v \in U : u <= v
  <2>1. n \in U /\ U \in SUBSET Nat
    OBVIOUS
  <2> HIDE DEF U
  <2> QED BY <2>1, Eval!LeastOf
<1>2. u \in T
  <2> SUFFICES ASSUME u \notin T PROVE FALSE
    OBVIOUS
  <2>1. PICK t \in T : TRUE
    OBVIOUS
  <2>2. \A v \in T : v < u /\ v <= u - 1
    OBVIOUS
  <2>3. u - 1 \in Nat
    BY <2>1, <2>2
  <2>4. u - 1 \in U
    BY <2>2, <2>3
  <2> QED BY <1>1, <2>4
<1>3. \A t \in T : u >= t
  OBVIOUS
<1> QED BY <1>2, <1>3 DEF Max

\* The sums of the numbers of a sequence.
LEMMA SumUnfolds ==
    \A s : /\ SumOf(s)[0] = 0
           /\ \A n \in Nat : SumOf(s)[n + 1] = SumOf(s)[n] + s[n + 1]
<1>1. Adding!Founded
  BY DEF Adding!Founded, Before
<1>2. Adding!Local
  BY DEF Adding!Local, Before, sumNode
<1>3. \A s : \E f : f = [n \in Nat |-> sumNode(n, f, s)]
  BY <1>1, <1>2, Adding!TreeRecursive
<1>4. \A s : SumOf(s) = [n \in Nat |-> sumNode(n, SumOf(s), s)]
  BY <1>3 DEF SumOf, sumNode
<1> TAKE s
<1>5. \A n \in Nat : SumOf(s)[n] = sumNode(n, SumOf(s), s)
  BY <1>4
<1>6. \A n \in Nat : n + 1 \in Nat /\ n + 1 # 0 /\ (n + 1) - 1 = n
  OBVIOUS
<1>7. \A n \in Nat : SumOf(s)[n + 1] = SumOf(s)[(n + 1) - 1] + s[n + 1]
  BY <1>5, <1>6 DEF sumNode
<1> QED BY <1>5, <1>6, <1>7 DEF sumNode

\* Sums of natural numbers are natural numbers, and only grow.
LEMMA SumGrows ==
    ASSUME NEW m \in Nat, NEW s, \A k \in 1 .. m : s[k] \in Nat
    PROVE  /\ \A n \in 0 .. m : SumOf(s)[n] \in Nat
           /\ \A k, n \in 0 .. m : k <= n => SumOf(s)[k] <= SumOf(s)[n]
           /\ \A k \in 1 .. m : SumOf(s)[k - 1] + s[k] <= SumOf(s)[m]
<1> DEFINE S == {n \in Nat : n <= m => /\ SumOf(s)[n] \in Nat
                                       /\ \A k \in 0 .. n : SumOf(s)[k] \in Nat /\ SumOf(s)[k] <= SumOf(s)[n]}
<1>1. 0 \in S
  BY SumUnfolds
<1>2. ASSUME NEW n \in S
      PROVE  n + 1 \in S
  <2> SUFFICES ASSUME n + 1 <= m
               PROVE  /\ SumOf(s)[n + 1] \in Nat
                      /\ \A k \in 0 .. n + 1 : SumOf(s)[k] \in Nat /\ SumOf(s)[k] <= SumOf(s)[n + 1]
    OBVIOUS
  <2>1. /\ n \in Nat /\ SumOf(s)[n] \in Nat
        /\ \A k \in 0 .. n : SumOf(s)[k] \in Nat /\ SumOf(s)[k] <= SumOf(s)[n]
    OBVIOUS
  <2>2. s[n + 1] \in Nat
    BY <2>1
  <2>3. SumOf(s)[n + 1] = SumOf(s)[n] + s[n + 1]
    BY <2>1, SumUnfolds
  <2>4. ASSUME NEW k \in 0 .. n + 1
        PROVE  SumOf(s)[k] \in Nat /\ SumOf(s)[k] <= SumOf(s)[n + 1]
    <3>1. CASE k = n + 1
      BY <2>1, <2>2, <2>3, <3>1
    <3>2. CASE k # n + 1
      <4>1. k \in 0 .. n
        BY <2>1, <3>2
      <4>2. SumOf(s)[k] \in Nat /\ SumOf(s)[k] <= SumOf(s)[n]
        BY <2>1, <4>1
      <4> QED BY <2>1, <2>2, <2>3, <4>2
    <3> QED BY <3>1, <3>2
  <2> QED BY <2>1, <2>2, <2>3, <2>4
<1>3. S \in SUBSET Nat
  OBVIOUS
<1> HIDE DEF S
<1>4. S = Nat
  BY <1>1, <1>2, <1>3, Eval!SetInduction
<1>5. \A n \in 0 .. m : SumOf(s)[n] \in Nat /\ \A k \in 0 .. n : SumOf(s)[k] <= SumOf(s)[n]
  BY <1>4 DEF S
<1>6. ASSUME NEW k \in 1 .. m
      PROVE  SumOf(s)[k - 1] + s[k] <= SumOf(s)[m]
  <2>1. k - 1 \in Nat /\ (k - 1) + 1 = k /\ k \in 0 .. m /\ m \in 0 .. m /\ k \in 0 .. m
    OBVIOUS
  <2>2. SumOf(s)[(k - 1) + 1] = SumOf(s)[k - 1] + s[(k - 1) + 1]
    BY <2>1, SumUnfolds
  <2>3. SumOf(s)[k] <= SumOf(s)[m]
    BY <1>5, <2>1
  <2> QED BY <2>1, <2>2, <2>3
<1> QED BY <1>5, <1>6

-----------------------------------------------------------------------------
(* JSON values. *)

\* The one member of a condition object.
LEMMA MemberSpec ==
    ASSUME NEW j \in Values, OneKey(j)
    PROVE  /\ KeysOf(j) = {KeyOf(j)} /\ KeyOf(j) \in STRING
           /\ ValueOf(j) \in Values /\ nesting[ValueOf(j)] < nesting[j]
<1>1. PICK key : KeysOf(j) = {key}
  BY DEF OneKey
<1>2. KeyOf(j) = key
  BY <1>1 DEF KeyOf
<1>3. j.json = "object"
  BY <1>1 DEF KeysOf
<1>4. /\ j.members \in Seq([key : STRING, val : Values])
      /\ \A k \in DOMAIN j.members : nesting[j.members[k].val] < nesting[j]
  BY <1>3, JsonAssumption
<1>5. Len(j.members) \in Nat /\ DOMAIN j.members = 1 .. Len(j.members)
  BY <1>4, LenProperties
<1>6. \A k \in DOMAIN j.members : j.members[k].key \in STRING /\ j.members[k].val \in Values
  <2> TAKE k \in DOMAIN j.members
  <2>1. j.members[k] \in [key : STRING, val : Values]
    BY <1>4, <1>5, ElementOfSeq
  <2> QED BY <2>1
<1> DEFINE At == {k \in DOMAIN j.members : j.members[k].key = key}
<1>7. KeysOf(j) = {j.members[k].key : k \in DOMAIN j.members}
  BY <1>3 DEF KeysOf
<1>8. At \in SUBSET Nat /\ At # {} /\ \A k \in At : k <= Len(j.members)
  <2>1. key \in KeysOf(j)
    BY <1>1
  <2>2. PICK here \in DOMAIN j.members : j.members[here].key = key
    BY <1>7, <2>1
  <2>3. At # {}
    BY <2>2
  <2>4. PICK n \in Nat : n = Len(j.members)
    BY <1>5
  <2>5. At \subseteq 1 .. n
    BY <1>5, <2>4
  <2> HIDE DEF At
  <2>6. \A k \in At : k \in Nat /\ k <= n
    BY <2>4, <2>5
  <2> QED BY <2>3, <2>4, <2>6
<1> DEFINE last == CHOOSE k \in At : \A l \in At : l <= k
<1>9. last \in At
  <2> HIDE DEF At
  <2>1. Max(At) \in At /\ \A l \in At : l <= Max(At)
    BY <1>5, <1>8, GreatestOf
  <2> QED BY <2>1
<1>10. ValueOf(j) = j.members[last].val
  BY <1>2 DEF ValueOf, Lookup
<1> HIDE DEF last
<1>11. last \in DOMAIN j.members /\ key \in STRING
  BY <1>6, <1>9
<1> QED BY <1>1, <1>2, <1>4, <1>6, <1>10, <1>11

\* The conditions under a value are values of less nesting.
LEMMA OperandsSpec ==
    ASSUME NEW j \in Values
    PROVE  /\ OperandsOf(j) \in Seq(Values)
           /\ Len(OperandsOf(j)) \in Nat /\ DOMAIN OperandsOf(j) = 1 .. Len(OperandsOf(j))
           /\ \A k \in DOMAIN OperandsOf(j) :
                 OperandsOf(j)[k] \in Values /\ nesting[OperandsOf(j)[k]] < nesting[j]
<1>1. CASE OperandsOf(j) = <<>>
  <2>1. <<>> \in Seq(Values) /\ Len(<<>>) = 0 /\ DOMAIN <<>> = {}
    BY EmptySeq
  <2> QED BY <1>1, <2>1
<1>2. CASE OneKey(j) /\ OperandsOf(j) = <<ValueOf(j)>>
  BY <1>2, MemberSpec
<1>3. CASE OneKey(j) /\ ValueOf(j).json = "array" /\ OperandsOf(j) = ValueOf(j).items
  <2>1. /\ ValueOf(j).items \in Seq(Values)
        /\ \A k \in DOMAIN ValueOf(j).items : nesting[ValueOf(j).items[k]] < nesting[ValueOf(j)]
    BY <1>3, MemberSpec, JsonAssumption
  <2>2. Len(OperandsOf(j)) \in Nat /\ DOMAIN OperandsOf(j) = 1 .. Len(OperandsOf(j))
    BY <1>3, <2>1, LenProperties
  <2>3. \A k \in DOMAIN OperandsOf(j) : OperandsOf(j)[k] \in Values
    BY <1>3, <2>1, <2>2, ElementOfSeq
  <2>4. ASSUME NEW k \in DOMAIN OperandsOf(j)
        PROVE  nesting[OperandsOf(j)[k]] < nesting[j]
    <3>1. nesting[OperandsOf(j)[k]] < nesting[ValueOf(j)]
      BY <1>3, <2>1
    <3>2. nesting[ValueOf(j)] < nesting[j]
      BY <1>3, MemberSpec
    <3>3. /\ nesting[OperandsOf(j)[k]] \in Nat /\ nesting[ValueOf(j)] \in Nat
          /\ nesting[j] \in Nat
      BY <1>3, <2>3, MemberSpec, JsonAssumption
    <3> QED BY <3>1, <3>2, <3>3
  <2> QED BY <1>3, <2>1, <2>2, <2>3, <2>4
<1> QED BY <1>1, <1>2, <1>3 DEF OperandsOf, asSlice

LEMMA ValuesFounded == Lang!Founded /\ Grow!Founded /\ Count!Founded /\ High!Founded
<1>1. nesting \in [Values -> Nat]
  BY JsonAssumption
<1>2. \A j \in Values : \A v \in Under(j) : v \in Values /\ nesting[v] < nesting[j]
  BY OperandsSpec DEF Under
<1> QED BY <1>1, <1>2 DEF Lang!Founded, Grow!Founded, Count!Founded, High!Founded

\* What holds of a value when it holds of those under it holds of every value.
LEMMA ValueInduction ==
    ASSUME NEW S, \A j \in Values :
                     (\A k \in DOMAIN OperandsOf(j) : OperandsOf(j)[k] \in S) => j \in S
    PROVE  Values \subseteq S
<1>1. \A j \in Values : (\A v \in Under(j) : v \in S) => j \in S
  BY DEF Under
<1> QED BY <1>1, ValuesFounded, Lang!TreeInduction

LEMMA IsNodeUnfolds ==
    ASSUME NEW j \in Values
    PROVE  IsNode[j] <=> /\ OneKey(j) /\ Fits(j)
                         /\ \A k \in DOMAIN OperandsOf(j) : IsNode[OperandsOf(j)[k]]
<1>1. Lang!Local
  BY DEF Lang!Local, Under, isNode
<1>2. \A e : \E f : f = [v \in Values |-> isNode(v, f, e)]
  BY <1>1, ValuesFounded, Lang!TreeRecursive
<1>3. IsNode = [v \in Values |-> isNode(v, IsNode, 0)]
  BY <1>2 DEF IsNode, isNode
<1>4. IsNode[j] = isNode(j, IsNode, 0)
  BY <1>3
<1> QED BY <1>4 DEF isNode

LEMMA TreeUnfolds ==
    ASSUME NEW j \in Values
    PROVE  TreeOf[j] = treeNode(j, TreeOf)
<1>1. Grow!Local
  <2> SUFFICES ASSUME NEW v \in Values, NEW f, NEW g, NEW e,
                      \A u \in Under(v) : f[u] = g[u]
               PROVE  treeNode(v, f) = treeNode(v, g)
    BY DEF Grow!Local, growNode
  <2>1. [k \in DOMAIN OperandsOf(v) |-> f[OperandsOf(v)[k]]]
          = [k \in DOMAIN OperandsOf(v) |-> g[OperandsOf(v)[k]]]
    BY DEF Under
  <2> QED BY <2>1 DEF treeNode
<1>2. \A e : \E f : f = [v \in Values |-> growNode(v, f, e)]
  BY <1>1, ValuesFounded, Grow!TreeRecursive
<1>3. \E f : f = [v \in Values |-> treeNode(v, f)]
  BY <1>2 DEF growNode
<1>4. TreeOf = [v \in Values |-> treeNode(v, TreeOf)]
  BY <1>3 DEF TreeOf
<1> QED BY <1>4

LEMMA SizeUnfolds ==
    ASSUME NEW j \in Values
    PROVE  Size[j] = 1 + Plus([k \in DOMAIN OperandsOf(j) |-> Size[OperandsOf(j)[k]]])
<1>1. Count!Local
  <2> SUFFICES ASSUME NEW v \in Values, NEW f, NEW g, NEW e,
                      \A u \in Under(v) : f[u] = g[u]
               PROVE  sizeNode(v, f, e) = sizeNode(v, g, e)
    BY DEF Count!Local
  <2>1. [k \in DOMAIN OperandsOf(v) |-> f[OperandsOf(v)[k]]]
          = [k \in DOMAIN OperandsOf(v) |-> g[OperandsOf(v)[k]]]
    BY DEF Under
  <2> QED BY <2>1 DEF sizeNode
<1>2. \A e : \E f : f = [v \in Values |-> sizeNode(v, f, e)]
  BY <1>1, ValuesFounded, Count!TreeRecursive
<1>3. Size = [v \in Values |-> sizeNode(v, Size, 0)]
  BY <1>2 DEF Size, sizeNode
<1>4. Size[j] = sizeNode(j, Size, 0)
  BY <1>3
<1> QED BY <1>4 DEF sizeNode

LEMMA HeightUnfolds ==
    ASSUME NEW j \in Values
    PROVE  Height[j] = 1 + Max({0} \cup {Height[OperandsOf(j)[k]] : k \in DOMAIN OperandsOf(j)})
<1>1. High!Local
  <2> SUFFICES ASSUME NEW v \in Values, NEW f, NEW g, NEW e,
                      \A u \in Under(v) : f[u] = g[u]
               PROVE  heightNode(v, f, e) = heightNode(v, g, e)
    BY DEF High!Local
  <2>1. {f[OperandsOf(v)[k]] : k \in DOMAIN OperandsOf(v)}
          = {g[OperandsOf(v)[k]] : k \in DOMAIN OperandsOf(v)}
    BY DEF Under
  <2> QED BY <2>1 DEF heightNode
<1>2. \A e : \E f : f = [v \in Values |-> heightNode(v, f, e)]
  BY <1>1, ValuesFounded, High!TreeRecursive
<1>3. Height = [v \in Values |-> heightNode(v, Height, 0)]
  BY <1>2 DEF Height, heightNode
<1>4. Height[j] = heightNode(j, Height, 0)
  BY <1>3
<1> QED BY <1>4 DEF heightNode

-----------------------------------------------------------------------------
(* The nodes, the depth and the tree of a condition. *)

Sizes(j) == [k \in DOMAIN OperandsOf(j) |-> Size[OperandsOf(j)[k]]]

\* The length of a function on the first numbers.
LEMMA LenOf ==
    ASSUME NEW m \in Nat, NEW s, DOMAIN s = 1 .. m
    PROVE  Len(s) = m
OBVIOUS

LEMMA SizeSums ==
    ASSUME NEW j \in Values
    PROVE  Size[j] = 1 + SumOf(Sizes(j))[Len(OperandsOf(j))]
<1>1. Size[j] = 1 + Plus(Sizes(j))
  BY SizeUnfolds DEF Sizes
<1>2. Len(OperandsOf(j)) \in Nat /\ DOMAIN Sizes(j) = 1 .. Len(OperandsOf(j))
  BY OperandsSpec DEF Sizes
<1>3. Len(Sizes(j)) = Len(OperandsOf(j))
  BY <1>2, LenOf
<1> QED BY <1>1, <1>3 DEF Plus

LEMMA SizeType == \A j \in Values : Size[j] \in Nat
<1> DEFINE S == {j \in Values : Size[j] \in Nat}
<1>1. ASSUME NEW j \in Values, \A k \in DOMAIN OperandsOf(j) : OperandsOf(j)[k] \in S
      PROVE  j \in S
  <2>1. Len(OperandsOf(j)) \in Nat /\ DOMAIN OperandsOf(j) = 1 .. Len(OperandsOf(j))
    BY OperandsSpec
  <2>2. \A k \in 1 .. Len(OperandsOf(j)) : Sizes(j)[k] \in Nat
    BY <1>1, <2>1 DEF Sizes
  <2>3. SumOf(Sizes(j))[Len(OperandsOf(j))] \in Nat
    BY <2>1, <2>2, SumGrows
  <2> QED BY <2>3, SizeSums
<1> HIDE DEF S
<1>2. Values \subseteq S
  BY <1>1, ValueInduction
<1> QED BY <1>2 DEF S

\* A condition is one node more than its operands together.
LEMMA SizeSpec ==
    ASSUME NEW j \in Values
    PROVE  /\ Size[j] \in Nat /\ Size[j] >= 1
           /\ \A k \in 0 .. Len(OperandsOf(j)) : SumOf(Sizes(j))[k] \in Nat
           /\ \A k \in 1 .. Len(OperandsOf(j)) :
                 /\ SumOf(Sizes(j))[k] = SumOf(Sizes(j))[k - 1] + Size[OperandsOf(j)[k]]
                 /\ 1 + SumOf(Sizes(j))[k - 1] + Size[OperandsOf(j)[k]] <= Size[j]
<1>1. Len(OperandsOf(j)) \in Nat /\ DOMAIN OperandsOf(j) = 1 .. Len(OperandsOf(j))
  BY OperandsSpec
<1>2. \A k \in 1 .. Len(OperandsOf(j)) :
         Sizes(j)[k] = Size[OperandsOf(j)[k]] /\ Sizes(j)[k] \in Nat
  BY <1>1, SizeType, OperandsSpec DEF Sizes
<1>3. /\ \A k \in 0 .. Len(OperandsOf(j)) : SumOf(Sizes(j))[k] \in Nat
      /\ \A k \in 1 .. Len(OperandsOf(j)) :
            SumOf(Sizes(j))[k - 1] + Sizes(j)[k] <= SumOf(Sizes(j))[Len(OperandsOf(j))]
  BY <1>1, <1>2, SumGrows
<1>4. Size[j] = 1 + SumOf(Sizes(j))[Len(OperandsOf(j))]
  BY SizeSums
<1>5. Size[j] \in Nat /\ Size[j] >= 1
  BY <1>1, <1>3, <1>4
<1>6. ASSUME NEW k \in 1 .. Len(OperandsOf(j))
      PROVE  /\ SumOf(Sizes(j))[k] = SumOf(Sizes(j))[k - 1] + Size[OperandsOf(j)[k]]
             /\ 1 + SumOf(Sizes(j))[k - 1] + Size[OperandsOf(j)[k]] <= Size[j]
  <2>1. k - 1 \in Nat /\ (k - 1) + 1 = k /\ k - 1 \in 0 .. Len(OperandsOf(j))
    BY <1>1
  <2>2. SumOf(Sizes(j))[(k - 1) + 1] = SumOf(Sizes(j))[k - 1] + Sizes(j)[(k - 1) + 1]
    BY <2>1, SumUnfolds
  <2>3. SumOf(Sizes(j))[k - 1] \in Nat /\ Sizes(j)[k] \in Nat
    BY <1>2, <1>3, <2>1
  <2>4. SumOf(Sizes(j))[k - 1] + Sizes(j)[k] <= SumOf(Sizes(j))[Len(OperandsOf(j))]
    BY <1>3
  <2>5. SumOf(Sizes(j))[Len(OperandsOf(j))] \in Nat
    BY <1>1, <1>3
  <2> QED BY <1>2, <1>4, <2>1, <2>2, <2>3, <2>4, <2>5
<1> QED BY <1>3, <1>5, <1>6

\* The heights of the operands have a greatest one, since their sum bounds them.
LEMMA HeightSpec ==
    \A j \in Values :
        /\ Height[j] \in Nat /\ Height[j] >= 1
        /\ \A k \in DOMAIN OperandsOf(j) : Height[OperandsOf(j)[k]] < Height[j]
        /\ \A d \in Nat : d >= 1 /\ (\A k \in DOMAIN OperandsOf(j) : Height[OperandsOf(j)[k]] < d)
                             => Height[j] <= d
<1> DEFINE Good(j) ==
        /\ Height[j] \in Nat /\ Height[j] >= 1
        /\ \A k \in DOMAIN OperandsOf(j) : Height[OperandsOf(j)[k]] < Height[j]
        /\ \A d \in Nat : d >= 1 /\ (\A k \in DOMAIN OperandsOf(j) : Height[OperandsOf(j)[k]] < d)
                             => Height[j] <= d
           S == {j \in Values : Good(j)}
<1>1. ASSUME NEW j \in Values, \A k \in DOMAIN OperandsOf(j) : OperandsOf(j)[k] \in S
      PROVE  j \in S
  <2> DEFINE H == [k \in DOMAIN OperandsOf(j) |-> Height[OperandsOf(j)[k]]]
             T == {0} \cup {Height[OperandsOf(j)[k]] : k \in DOMAIN OperandsOf(j)}
             n == Len(OperandsOf(j))
  <2>1. n \in Nat /\ DOMAIN OperandsOf(j) = 1 .. n
    BY OperandsSpec
  <2>2. \A k \in 1 .. n : H[k] = Height[OperandsOf(j)[k]] /\ H[k] \in Nat
    BY <1>1, <2>1
  <2> HIDE DEF H, n
  <2>3. /\ \A k \in 0 .. n : SumOf(H)[k] \in Nat
        /\ \A k \in 1 .. n : SumOf(H)[k - 1] + H[k] <= SumOf(H)[n]
    BY <2>1, <2>2, SumGrows
  <2>4. SumOf(H)[n] \in Nat
    BY <2>1, <2>3
  <2>5. ASSUME NEW k \in 1 .. n
        PROVE  H[k] <= SumOf(H)[n]
    <3>1. k - 1 \in 0 .. n
      BY <2>1
    <3>2. SumOf(H)[k - 1] \in Nat /\ H[k] \in Nat
      BY <2>2, <2>3, <3>1
    <3>3. SumOf(H)[k - 1] + H[k] <= SumOf(H)[n]
      BY <2>3
    <3> QED BY <2>4, <3>2, <3>3
  <2>6. T \in SUBSET Nat /\ T # {} /\ \A t \in T : t <= SumOf(H)[n]
    BY <2>1, <2>2, <2>4, <2>5
  <2>7. Height[j] = 1 + Max(T)
    BY HeightUnfolds
  <2>8. \A k \in DOMAIN OperandsOf(j) : Height[OperandsOf(j)[k]] \in T
    OBVIOUS
  <2>9. \A t \in T : t = 0 \/ \E k \in DOMAIN OperandsOf(j) : t = Height[OperandsOf(j)[k]]
    OBVIOUS
  <2> HIDE DEF T
  <2>10. Max(T) \in T /\ \A t \in T : t <= Max(T)
    BY <2>4, <2>6, GreatestOf
  <2> DEFINE m == Max(T)
  <2>11. m \in T /\ m \in Nat /\ Height[j] = 1 + m /\ \A t \in T : t \in Nat /\ t <= m
    BY <2>6, <2>7, <2>10
  <2> HIDE DEF m
  <2>12. Height[j] \in Nat /\ Height[j] >= 1
    BY <2>11
  <2>13. ASSUME NEW k \in DOMAIN OperandsOf(j)
         PROVE  Height[OperandsOf(j)[k]] < Height[j]
    <3>1. Height[OperandsOf(j)[k]] \in T
      BY <2>8
    <3>2. Height[OperandsOf(j)[k]] \in Nat /\ Height[OperandsOf(j)[k]] <= m
      BY <2>11, <3>1
    <3> QED BY <2>11, <3>2
  <2>14. ASSUME NEW d \in Nat, d >= 1, \A k \in DOMAIN OperandsOf(j) : Height[OperandsOf(j)[k]] < d
         PROVE  Height[j] <= d
    <3>1. m < d
      BY <2>9, <2>11, <2>14
    <3> QED BY <2>11, <3>1
  <2> QED BY <2>12, <2>13, <2>14
<1> HIDE DEF S
<1>2. Values \subseteq S
  BY <1>1, ValueInduction
<1> QED BY <1>2 DEF S

\* A leaf of the language.
LEMMA LeafSpec ==
    ASSUME NEW j \in Values, OneKey(j), KeyOf(j) \in {"attr", "lit"},
           IsString(ValueOf(j)), asString(ValueOf(j)) \notin TooLong
    PROVE  /\ IsNode[j] /\ Size[j] = 1 /\ Height[j] = 1
           /\ TreeOf[j] = IF KeyOf(j) = "attr" THEN attr(asString(ValueOf(j)))
                                               ELSE lit(asString(ValueOf(j)))
<1>1. OperandsOf(j) = <<>>
  BY DEF OperandsOf
<1>2. Len(OperandsOf(j)) = 0 /\ DOMAIN OperandsOf(j) = {}
  BY <1>1, EmptySeq
<1>3. IsNode[j]
  BY <1>2, IsNodeUnfolds DEF Fits
<1>4. Size[j] = 1
  BY <1>2, SizeSums, SumUnfolds
<1>5. Height[j] = 1
  <2>1. Height[j] <= 1
    BY <1>2, HeightSpec
  <2> QED BY <2>1, HeightSpec
<1>6. TreeOf[j] = treeNode(j, TreeOf)
  BY TreeUnfolds
<1> QED BY <1>3, <1>4, <1>5, <1>6 DEF treeNode

\* An operator of the language, from its operands.
LEMMA OperatorSpec ==
    ASSUME NEW j \in Values, OneKey(j),
           KeyOf(j) = "not" \/ (KeyOf(j) \in {"eq", "ne", "all", "any"} /\ IsSlice(ValueOf(j))),
           KeyOf(j) \in {"eq", "ne"} => Len(OperandsOf(j)) = 2,
           KeyOf(j) \in {"all", "any"} => Len(OperandsOf(j)) >= 1,
           \A k \in DOMAIN OperandsOf(j) : IsNode[OperandsOf(j)[k]],
           NEW done, done = [k \in DOMAIN OperandsOf(j) |-> TreeOf[OperandsOf(j)[k]]]
    PROVE  IsNode[j] /\ TreeOf[j] = build(KeyOf(j), done)
<1>1. Len(OperandsOf(j)) \in Nat /\ DOMAIN OperandsOf(j) = 1 .. Len(OperandsOf(j))
  BY OperandsSpec
<1>2. Fits(j)
  BY DEF Fits
<1>3. IsNode[j]
  BY <1>1, <1>2, IsNodeUnfolds
<1>4. TreeOf[j] = treeNode(j, TreeOf)
  BY TreeUnfolds
<1>5. KeyOf(j) # "attr" /\ KeyOf(j) # "lit"
  OBVIOUS
<1>6. TreeOf[j] = build(KeyOf(j), [k \in DOMAIN OperandsOf(j) |-> TreeOf[OperandsOf(j)[k]]])
  BY <1>4, <1>5 DEF treeNode
<1> QED BY <1>3, <1>6

-----------------------------------------------------------------------------
(* The work of a parse. *)

IsStack(s) == \E F : s \in Seq(F)

\* A call of parseNode is entered with all its callers within the depth limit,
\* and the node budget is overdrawn only by the call that fails the parse.
PInv == /\ IsStack(stack)
        /\ nodes \in Nat
        /\ WorkIsBounded

\* Pushing a frame makes a stack higher by one.
LEMMA PushStack ==
    ASSUME NEW s, IsStack(s), NEW f
    PROVE  IsStack(Append(s, f)) /\ Len(Append(s, f)) = Len(s) + 1 /\ Len(s) \in Nat
<1>1. PICK F : s \in Seq(F)
  BY DEF IsStack
<1>2. s \in Seq(F \cup {f}) /\ f \in F \cup {f}
  BY <1>1
<1>3. Append(s, f) \in Seq(F \cup {f}) /\ Len(Append(s, f)) = Len(s) + 1
  BY <1>2, AppendProperties
<1> QED BY <1>1, <1>3, LenProperties DEF IsStack

\* Popping a frame that is there leaves a stack shorter by one.
LEMMA PopStack ==
    ASSUME NEW s, IsStack(s), s # <<>>
    PROVE  IsStack(SubSeq(s, 1, Len(s) - 1)) /\ Len(SubSeq(s, 1, Len(s) - 1)) = Len(s) - 1
<1>1. PICK F : s \in Seq(F)
  BY DEF IsStack
<1>2. Len(s) \in Nat \ {0}
  BY <1>1, EmptySeq, LenProperties
<1>3. SubSeq(s, 1, Len(s) - 1) \in Seq(F)
  <2>1. \A i \in 1 .. Len(s) - 1 : s[i] \in F
    BY <1>1, <1>2, ElementOfSeq
  <2> QED BY <1>2, <2>1, SubSeqProperties
<1>4. Len(SubSeq(s, 1, Len(s) - 1)) = Len(s) - 1
  <2>1. \A i \in 1 .. Len(s) - 1 : s[i] \in F
    BY <1>1, <1>2, ElementOfSeq
  <2>2. 1 \in Int /\ Len(s) - 1 \in Int
    BY <1>2
  <2> DEFINE n == Len(s) - 1
             t == SubSeq(s, 1, n)
  <2> HIDE DEF n
  <2>3. Len(t) = IF 1 <= n THEN n - 1 + 1 ELSE 0
    BY <2>1, <2>2, SubSeqProperties DEF n
  <2>4. n \in Nat
    BY <1>2 DEF n
  <2>5. Len(t) = n
    BY <2>3, <2>4
  <2> QED BY <2>5 DEF n
<1> QED BY <1>3, <1>4 DEF IsStack

\* Replacing a frame keeps the height.
LEMMA UpdateStack ==
    ASSUME NEW s, IsStack(s), NEW i, NEW f
    PROVE  IsStack([s EXCEPT ![i] = f]) /\ Len([s EXCEPT ![i] = f]) = Len(s)
<1>1. PICK F : s \in Seq(F)
  BY DEF IsStack
<1>2. s \in Seq(F \cup {f})
  BY <1>1
<1>3. CASE i \in 1 .. Len(s)
  <2>1. f \in F \cup {f}
    OBVIOUS
  <2>2. [s EXCEPT ![i] = f] \in Seq(F \cup {f}) /\ Len([s EXCEPT ![i] = f]) = Len(s)
    BY <1>2, <1>3, <2>1, ExceptSeq
  <2> QED BY <2>2 DEF IsStack
<1>4. CASE i \notin 1 .. Len(s)
  <2>1. [s EXCEPT ![i] = f] = s
    BY <1>1, <1>4
  <2> QED BY <2>1
<1> QED BY <1>3, <1>4

\* A parse starts with no callers and nothing spent.
LEMMA PInitInv == Init => PInv
<1> SUFFICES ASSUME Init PROVE PInv
  OBVIOUS
<1>1. stack = <<>> /\ nodes = 0
  BY DEF Init
<1>2. stack \in Seq({}) /\ Len(stack) = 0
  BY <1>1
<1> QED BY <1>1, <1>2, ParserAssumption DEF PInv, IsStack, WorkIsBounded

\* Every step of the parser keeps the work within its limits.
LEMMA PStepInv == PInv /\ [Step]_vars => PInv'
<1> SUFFICES ASSUME PInv, [Step]_vars PROVE PInv'
  OBVIOUS
<1> USE ParserAssumption
<1>1. CASE UNCHANGED vars
  BY <1>1 DEF PInv, WorkIsBounded, vars, IsStack
<1>2. CASE UNCHANGED <<stack, nodes>> /\ pc # "err"
  BY <1>2 DEF PInv, WorkIsBounded, IsStack
<1>3. ASSUME Open \/ StartRule \/ Finish \/ EndRule PROVE PInv'
  BY <1>3, <1>2 DEF Open, StartRule, Finish, EndRule, Fail
<1>4. ASSUME ParseLeaf PROVE PInv'
  <2>1. nodes < MaxNodes /\ nodes' = nodes + 1 /\ stack' = stack
    BY <1>4 DEF ParseLeaf, Enters
  <2> QED BY <2>1 DEF PInv, WorkIsBounded, IsStack
<1>5. ASSUME ParseOperator PROVE PInv'
  <2>1. nodes < MaxNodes /\ nodes' = nodes + 1 /\ Len(stack) + 1 <= MaxDepth
    BY <1>5 DEF ParseOperator, Enters, Depth
  <2>2. IsStack(stack') /\ Len(stack') = Len(stack) + 1
    BY <1>5, PushStack DEF ParseOperator, PInv
  <2> QED BY <2>1, <2>2 DEF PInv, WorkIsBounded
<1>6. ASSUME RefuseNode PROVE PInv'
  <2>1. pc = "node" /\ pc' = "err" /\ stack' = stack
    BY <1>6 DEF RefuseNode, Fail
  <2>2. nodes' \in {nodes, nodes + 1}
    BY <1>6 DEF RefuseNode
  <2>3. nodes \in Nat /\ nodes <= MaxNodes
    BY <2>1 DEF PInv, WorkIsBounded
  <2> QED BY <2>1, <2>2, <2>3 DEF PInv, WorkIsBounded, IsStack
<1>7. ASSUME NextOperand \/ ReturnOperand PROVE PInv'
  <2>1. /\ pc \in {"operands", "made"}
        /\ nodes' = nodes
        /\ \E f : stack' = [stack EXCEPT ![Len(stack)] = f]
    BY <1>7 DEF NextOperand, ReturnOperand
  <2>2. PICK f : stack' = [stack EXCEPT ![Len(stack)] = f]
    BY <2>1
  <2>3. IsStack(stack') /\ Len(stack') = Len(stack)
    BY <2>2, UpdateStack DEF PInv
  <2> QED BY <2>1, <2>3 DEF PInv, WorkIsBounded
<1>8. ASSUME Build PROVE PInv'
  <2>1. pc = "operands" /\ nodes' = nodes
    BY <1>8 DEF Build
  <2>2. CASE stack' = stack
    BY <2>1, <2>2 DEF PInv, WorkIsBounded, IsStack
  <2>3. CASE stack' = pop /\ stack # <<>>
    <3>1. IsStack(stack') /\ Len(stack') = Len(stack) - 1 /\ Len(stack) \in Nat
      BY <2>3, PopStack, PushStack DEF PInv, pop
    <3> QED BY <2>1, <3>1 DEF PInv, WorkIsBounded
  <2>4. CASE stack' = pop /\ stack = <<>>
    <3>1. stack' = <<>>
      BY <2>4 DEF pop
    <3> QED BY <2>1, <2>4, <3>1 DEF PInv, WorkIsBounded
  <2> QED BY <1>8, <2>2, <2>3, <2>4 DEF Build, Fail
<1> QED BY <1>1, <1>3, <1>4, <1>5, <1>6, <1>7, <1>8 DEF Step

\* engine.go, parser bounds: for every document and every limit, a parse makes at
\* most MaxNodes nodes and one refused attempt, and never nests past MaxDepth.
THEOREM ParserWorkIsBounded == Spec => []WorkIsBounded
<1>1. PInv => WorkIsBounded
  BY DEF PInv
<1> QED BY PInitInv, PStepInv, <1>1, PTL DEF Spec

-----------------------------------------------------------------------------
(* A parse and the document it is at. *)

RuleSizes == [k \in DOMAIN raws |-> Size[raws[k].when]]

Trees == {TreeOf[j] : j \in Values}
Frames == [key : STRING, todo : Seq(Values), done : Seq(Trees)]
Entries == [name : STRING, effect : STRING, when : Values]
Rules == [id : Nat, name : STRING, effect : STRING, cond : Trees]

GTypeOK == /\ doc \in Documents
           /\ pc \in {"open", "rule", "node", "operands", "made", "ok", "err"}
           /\ out \in Seq(Rules)
           /\ nodes \in Nat
           /\ stack \in Seq(Frames)

\* The rules parsed so far are the first of the policy, and each may stand in it.
Named(k) == raws[k].name # "" /\ raws[k].effect \in {"allow", "deny"}
SoFar ==
    /\ ~doc.oversized /\ IsSlice(doc.body) /\ Len(raws) <= MaxRules
    /\ Len(out) <= Len(raws)
    /\ \A k \in 1 .. Len(out) : /\ Named(k)
                                /\ IsNode[raws[k].when] /\ Height[raws[k].when] <= MaxDepth
                                /\ out[k] = Meaning[k]

\* Frame f, the i-th from below, is parsing the operands of v: those that are done
\* are their trees, those to do are the last ones.
Parsing(f, v, i) ==
    /\ OneKey(v) /\ f.key = KeyOf(v)
    /\ KeyOf(v) = "not" \/ (KeyOf(v) \in {"eq", "ne", "all", "any"} /\ IsSlice(ValueOf(v)))
    /\ Len(f.done) + Len(f.todo) <= Len(OperandsOf(v))
    /\ \A k \in 1 .. Len(f.done) : /\ f.done[k] = TreeOf[OperandsOf(v)[k]]
                                   /\ IsNode[OperandsOf(v)[k]]
                                   /\ Height[OperandsOf(v)[k]] + i <= MaxDepth
    /\ \A k \in 1 .. Len(f.todo) :
          f.todo[k] = OperandsOf(v)[Len(OperandsOf(v)) - Len(f.todo) + k]

\* Frame f, whose v began when a nodes were made, waits for its operand w, which began
\* when c were.
Awaiting(f, v, a, w, c) ==
    /\ Len(f.done) + 1 + Len(f.todo) = Len(OperandsOf(v))
    /\ w = OperandsOf(v)[Len(f.done) + 1]
    /\ c = a + 1 + SumOf(Sizes(v))[Len(f.done)]

\* Frame f waits for no operand.
Between(f, v) == Len(f.done) + Len(f.todo) = Len(OperandsOf(v))

\* c nodes were made when frame f, whose v began when a were, has its operands so far.
Counted(f, v, a, c) == c = a + 1 + SumOf(Sizes(v))[Len(f.done)]

\* Frame f has operands enough for its key.
Filled(f) == /\ f.key \in {"eq", "ne"} => Len(f.done) = 2
             /\ f.key \in {"all", "any"} => f.done # <<>>

\* Value w is a condition whose tree fits under i others.
FitsUnder(w, i) == IsNode[w] /\ Height[w] + i <= MaxDepth

\* What is left of the limits is enough for v.
Allowed(v, a, i) == /\ IsNode[v]
                    /\ Height[v] + i <= MaxDepth + 1
                    /\ a + Size[v] <= MaxNodes

\* The conditions being parsed, from the rule's own down, and the number of nodes made
\* when each began.  In a policy that can be read the limits allow all of them.
Along(p, b) ==
    /\ p[1] = rule.when /\ b[1] = SumOf(RuleSizes)[Len(out)]
    /\ \A i \in 1 .. Len(stack) : /\ Parsing(stack[i], p[i], i)
                                  /\ Readable => Allowed(p[i], b[i], i)
    /\ \A i \in 1 .. Len(stack) : (pc = "operands" => i < Len(stack)) =>
          Awaiting(stack[i], p[i], b[i], p[i + 1], b[i + 1])

AtNode(v, a) == /\ raw = v /\ nodes = a
                /\ Readable => Allowed(v, a, Len(stack) + 1)
AtOperands(v, a) ==
    /\ Len(stack) > 0
    /\ Between(top, v)
    /\ nodes = a + 1 + SumOf(Sizes(v))[Len(top.done)]
AtMade(v, a) == /\ made = TreeOf[v] /\ IsNode[v]
                /\ Height[v] + Len(stack) <= MaxDepth
                /\ nodes = a + Size[v]

Descending(p, b) ==
    /\ Along(p, b)
    /\ pc = "node" => AtNode(p[Len(stack) + 1], b[Len(stack) + 1])
    /\ pc = "operands" => AtOperands(p[Len(stack)], b[Len(stack)])
    /\ pc = "made" => AtMade(p[Len(stack) + 1], b[Len(stack) + 1])

GInv ==
    /\ GTypeOK
    /\ pc \notin {"open", "err"} => SoFar
    /\ pc = "open" => out = <<>> /\ nodes = 0
    /\ pc \in {"open", "rule", "ok"} => stack = <<>>
    /\ pc \in {"rule", "ok"} => nodes = SumOf(RuleSizes)[Len(out)]
    /\ pc = "ok" => Len(out) = Len(raws)
    /\ pc = "err" => ~Readable
    /\ pc \in {"node", "operands", "made"} =>
          /\ Len(out) < Len(raws) /\ Named(Len(out) + 1)
          /\ \E p \in [Nat -> Values], b \in [Nat -> Nat] : Descending(p, b)

\* A document's rules.
LEMMA RawsSpec ==
    ASSUME doc \in Documents
    PROVE  /\ Len(raws) \in Nat /\ DOMAIN raws = 1 .. Len(raws)
           /\ \A k \in 1 .. Len(raws) : /\ raws[k].when \in Values
                                        /\ raws[k].name \in STRING /\ raws[k].effect \in STRING
<1>1. raws \in Seq(Entries)
  BY JsonAssumption, EmptySeq DEF raws, asSlice, Entries
<1>2. Len(raws) \in Nat /\ DOMAIN raws = 1 .. Len(raws)
  BY <1>1, LenProperties
<1>3. \A k \in 1 .. Len(raws) : raws[k] \in Entries
  BY <1>1, ElementOfSeq
<1> QED BY <1>2, <1>3 DEF Entries

\* The sizes of its rules add up; a policy that can be read has room for each of them.
LEMMA RuleSizesSpec ==
    ASSUME doc \in Documents
    PROVE  /\ Plus(RuleSizes) = SumOf(RuleSizes)[Len(raws)]
           /\ \A k \in 0 .. Len(raws) : SumOf(RuleSizes)[k] \in Nat
           /\ \A k \in 1 .. Len(raws) :
                 /\ SumOf(RuleSizes)[k] = SumOf(RuleSizes)[k - 1] + Size[raws[k].when]
                 /\ Readable => SumOf(RuleSizes)[k - 1] + Size[raws[k].when] <= MaxNodes
<1>1. Len(raws) \in Nat /\ DOMAIN raws = 1 .. Len(raws) /\ DOMAIN RuleSizes = 1 .. Len(raws)
  BY RawsSpec DEF RuleSizes
<1>2. \A k \in 1 .. Len(raws) : RuleSizes[k] = Size[raws[k].when] /\ RuleSizes[k] \in Nat
  BY <1>1, RawsSpec, SizeType DEF RuleSizes
<1>3. Plus(RuleSizes) = SumOf(RuleSizes)[Len(raws)]
  <2>1. Len(RuleSizes) = Len(raws)
    BY <1>1, LenOf
  <2> QED BY <2>1 DEF Plus
<1>4. /\ \A k \in 0 .. Len(raws) : SumOf(RuleSizes)[k] \in Nat
      /\ \A k \in 1 .. Len(raws) :
            SumOf(RuleSizes)[k - 1] + RuleSizes[k] <= SumOf(RuleSizes)[Len(raws)]
  BY <1>1, <1>2, SumGrows
<1>5. Readable => Plus(RuleSizes) <= MaxNodes
  BY DEF Readable, RuleSizes
<1>6. ASSUME NEW k \in 1 .. Len(raws)
      PROVE  /\ SumOf(RuleSizes)[k] = SumOf(RuleSizes)[k - 1] + Size[raws[k].when]
             /\ Readable => SumOf(RuleSizes)[k - 1] + Size[raws[k].when] <= MaxNodes
  <2>1. k - 1 \in Nat /\ (k - 1) + 1 = k /\ k - 1 \in 0 .. Len(raws)
    BY <1>1
  <2>2. SumOf(RuleSizes)[(k - 1) + 1] = SumOf(RuleSizes)[k - 1] + RuleSizes[(k - 1) + 1]
    BY <2>1, SumUnfolds
  <2>3. SumOf(RuleSizes)[k - 1] \in Nat /\ RuleSizes[k] \in Nat /\ RuleSizes[k] = Size[raws[k].when]
    BY <1>2, <1>4, <2>1
  <2>4. SumOf(RuleSizes)[k - 1] + RuleSizes[k] <= SumOf(RuleSizes)[Len(raws)]
    BY <1>4
  <2>5. SumOf(RuleSizes)[Len(raws)] \in Nat
    BY <1>1, <1>4
  <2> QED BY <1>3, <1>5, <2>1, <2>2, <2>3, <2>4, <2>5, ParserAssumption
<1> QED BY <1>3, <1>4, <1>6

\* What depends on the document alone stays with it.
LEMMA DocKept ==
    ASSUME doc' = doc
    PROVE  /\ raws' = raws /\ RuleSizes' = RuleSizes /\ Meaning' = Meaning
           /\ Readable' <=> Readable
           /\ \A k : Named(k)' <=> Named(k)
           /\ out' = out => rule' = rule /\ (SoFar' <=> SoFar)
<1>1. raws' = raws
  BY DEF raws
<1>2. RuleSizes' = RuleSizes
  BY <1>1 DEF RuleSizes
<1>3. Meaning' = Meaning
  BY <1>1 DEF Meaning
<1>4. Readable' <=> Readable
  BY <1>1 DEF Readable
<1>5. \A k : Named(k)' <=> Named(k)
  BY <1>1 DEF Named
<1>6. out' = out => rule' = rule /\ (SoFar' <=> SoFar)
  BY <1>1, <1>3, <1>5 DEF rule, SoFar
<1> QED BY <1>1, <1>2, <1>3, <1>4, <1>5, <1>6

-----------------------------------------------------------------------------
(* The steps of a parse. *)

\* The frames, and the numbers of rules and frames.
LEMMA GTypes ==
    ASSUME GTypeOK
    PROVE  /\ Len(out) \in Nat /\ Len(stack) \in Nat
           /\ \A i \in 1 .. Len(stack) :
                 /\ stack[i] \in Frames
                 /\ Len(stack[i].done) \in Nat /\ Len(stack[i].todo) \in Nat
           /\ (stack = <<>>) <=> (Len(stack) = 0)
<1>1. Len(out) \in Nat /\ Len(stack) \in Nat
  BY LenProperties DEF GTypeOK
<1>2. \A i \in 1 .. Len(stack) : stack[i] \in Frames
  BY ElementOfSeq DEF GTypeOK
<1>3. \A f \in Frames : Len(f.done) \in Nat /\ Len(f.todo) \in Nat
  BY LenProperties DEF Frames
<1>4. (stack = <<>>) <=> (Len(stack) = 0)
  BY EmptySeq DEF GTypeOK
<1> QED BY <1>1, <1>2, <1>3, <1>4

LEMMA GInit == Init => GInv
<1> SUFFICES ASSUME Init PROVE GInv
  OBVIOUS
<1>1. out \in Seq(Rules) /\ stack \in Seq(Frames)
  BY EmptySeq DEF Init
<1> QED BY <1>1 DEF Init, GInv, GTypeOK

\* A document that is refused cannot be read as a policy.
LEMMA Refused ==
    ASSUME GInv, doc' = doc, out' = out, stack' = stack, nodes' \in Nat, pc' = "err", ~Readable
    PROVE  GInv'
BY DocKept DEF GInv, GTypeOK

\* A parse goes on within a rule.
LEMMA GoesOn ==
    ASSUME GInv, pc \notin {"open", "err"}, doc' = doc, out' = out,
           pc' \in {"node", "operands", "made"}, nodes' \in Nat, stack' \in Seq(Frames),
           Len(out) < Len(raws), Named(Len(out) + 1),
           NEW p \in [Nat -> Values], NEW b \in [Nat -> Nat], Descending(p, b)'
    PROVE  GInv'
<1>1. SoFar' /\ raws' = raws
  <2>1. SoFar
    BY DEF GInv
  <2> QED BY <2>1, DocKept
<1>2. Len(out') < Len(raws') /\ Named(Len(out) + 1)'
  BY <1>1 DEF Named
<1>3. GTypeOK'
  BY DEF GInv, GTypeOK
<1>4. (\E f \in [Nat -> Values], g \in [Nat -> Nat] : Descending(f, g))'
  OBVIOUS
<1> QED BY <1>1, <1>2, <1>3, <1>4 DEF GInv

LEMMA OpenGInv ==
    ASSUME GInv, Open
    PROVE  GInv'
<1>1. pc = "open" /\ doc' = doc /\ out' = out /\ stack' = stack /\ nodes' = nodes
  BY DEF Open, Fail
<1>2. out = <<>> /\ nodes = 0 /\ stack = <<>> /\ Len(out) = 0
  BY <1>1, EmptySeq DEF GInv
<1>3. CASE doc.oversized \/ ~IsSlice(doc.body) \/ Len(asSlice(doc.body)) > MaxRules
  <2>1. pc' = "err"
    BY <1>3 DEF Open, Fail
  <2>2. ~Readable
    <3>1. Len(raws) > MaxRules => ~(Len(raws) <= MaxRules)
      BY RawsSpec, ParserAssumption DEF GInv, GTypeOK
    <3> QED BY <1>3, <3>1 DEF Readable, raws
  <2>3. nodes' \in Nat
    BY <1>1, <1>2
  <2> QED BY <1>1, <2>1, <2>2, <2>3, Refused
<1>4. CASE ~(doc.oversized \/ ~IsSlice(doc.body) \/ Len(asSlice(doc.body)) > MaxRules)
  <2>1. pc' = "rule"
    BY <1>4 DEF Open
  <2>2. Len(raws) \in Nat /\ Len(raws) <= MaxRules
    BY <1>4, RawsSpec, ParserAssumption DEF GInv, GTypeOK, raws
  <2>3. SoFar
    BY <1>2, <1>4, <2>2 DEF SoFar
  <2>4. SoFar' /\ RuleSizes' = RuleSizes
    BY <1>1, <2>3, DocKept
  <2>5. SumOf(RuleSizes)[0] = 0
    BY SumUnfolds
  <2>6. nodes' = SumOf(RuleSizes')[Len(out')]
    BY <1>1, <1>2, <2>4, <2>5
  <2>7. GTypeOK'
    BY <1>1, <1>2, <2>1 DEF GInv, GTypeOK
  <2> QED BY <1>1, <1>2, <2>1, <2>4, <2>6, <2>7 DEF GInv
<1> QED BY <1>3, <1>4

LEMMA StartRuleGInv ==
    ASSUME GInv, StartRule
    PROVE  GInv'
<1>1. /\ pc = "rule" /\ doc' = doc /\ out' = out /\ stack' = stack /\ nodes' = nodes
      /\ Len(out) < Len(raws)
  BY DEF StartRule, Fail
<1>2. /\ stack = <<>> /\ Len(stack) = 0 /\ nodes \in Nat
      /\ nodes = SumOf(RuleSizes)[Len(out)]
  BY <1>1, EmptySeq DEF GInv, GTypeOK
<1>3. Len(out) \in Nat /\ Len(raws) \in Nat /\ Len(out) + 1 \in 1 .. Len(raws)
      /\ DOMAIN raws = 1 .. Len(raws) /\ rule = raws[Len(out) + 1] /\ rule.when \in Values
  BY <1>1, GTypes, RawsSpec DEF GInv, GTypeOK, rule
<1>4. CASE rule.name = "" \/ rule.effect \notin {"allow", "deny"}
  <2>1. ~Readable
    BY <1>3, <1>4 DEF Readable
  <2>2. pc' = "err"
    BY <1>4 DEF StartRule, Fail
  <2> QED BY <1>1, <1>2, <2>1, <2>2, Refused
<1>5. CASE ~(rule.name = "" \/ rule.effect \notin {"allow", "deny"})
  <2>1. pc' = "node" /\ raw' = rule.when /\ Named(Len(out) + 1)
    BY <1>3, <1>5 DEF StartRule, Named
  <2>2. PICK p \in [Nat -> Values] : p[1] = rule.when
    <3>1. [i \in Nat |-> rule.when] \in [Nat -> Values]
      BY <1>3
    <3> QED BY <3>1
  <2>3. PICK b \in [Nat -> Nat] : b[1] = nodes
    <3>1. [i \in Nat |-> nodes] \in [Nat -> Nat]
      BY <1>2
    <3> QED BY <3>1
  <2>4. Readable => Allowed(p[1], b[1], 1)
    <3> SUFFICES ASSUME Readable PROVE Allowed(p[1], b[1], 1)
      OBVIOUS
    <3>1. IsNode[rule.when] /\ Height[rule.when] <= MaxDepth
      BY <1>3 DEF Readable
    <3>2. (Len(out) + 1) - 1 = Len(out)
      BY <1>3
    <3>3. SumOf(RuleSizes)[Len(out)] + Size[rule.when] <= MaxNodes
      BY <1>3, <3>2, RuleSizesSpec DEF GInv, GTypeOK
    <3>4. Height[rule.when] + 1 <= MaxDepth + 1
      <4>1. Height[rule.when] \in Nat
        BY <1>3, HeightSpec
      <4> QED BY <3>1, <4>1, ParserAssumption
    <3> QED BY <1>2, <2>2, <2>3, <3>1, <3>3, <3>4 DEF Allowed
  <2>5. rule' = rule /\ RuleSizes' = RuleSizes /\ (Readable' <=> Readable)
    BY <1>1, DocKept
  <2>6. Along(p, b)'
    BY <1>1, <1>2, <2>2, <2>3, <2>5 DEF Along
  <2>7. AtNode(p[1], b[1])'
    BY <1>1, <1>2, <2>1, <2>2, <2>3, <2>4, <2>5 DEF AtNode, Allowed
  <2>8. Len(stack') + 1 = 1
    BY <1>1, <1>2
  <2>9. Descending(p, b)'
    BY <2>1, <2>6, <2>7, <2>8 DEF Descending
  <2>10. stack' \in Seq(Frames) /\ nodes' \in Nat
    BY <1>1, <1>2 DEF GInv, GTypeOK
  <2> QED BY <1>1, <2>1, <2>9, <2>10, GoesOn
<1> QED BY <1>4, <1>5

LEMMA FinishGInv ==
    ASSUME GInv, Finish
    PROVE  GInv'
<1>1. /\ pc = "rule" /\ pc' = "ok" /\ UNCHANGED <<doc, out, stack, nodes>>
      /\ Len(out) = Len(raws)
  BY DEF Finish
<1>2. SoFar' /\ raws' = raws /\ RuleSizes' = RuleSizes
  <2>1. SoFar
    BY <1>1 DEF GInv
  <2> QED BY <1>1, <2>1, DocKept
<1>3. GTypeOK'
  BY <1>1 DEF GInv, GTypeOK
<1> QED BY <1>1, <1>2, <1>3 DEF GInv

\* The path of the conditions that are being parsed.
LEMMA PathOf ==
    ASSUME GInv, pc \in {"node", "operands", "made"}
    PROVE  /\ Len(out) \in Nat /\ Len(stack) \in Nat /\ nodes \in Nat
           /\ Len(out) < Len(raws) /\ Named(Len(out) + 1)
           /\ \E p \in [Nat -> Values], b \in [Nat -> Nat] : Descending(p, b)
BY GTypes DEF GInv, GTypeOK

LEMMA KeyAndVal == Key = KeyOf(raw) /\ Val = ValueOf(raw)
BY DEF Key, Val, KeyOf, ValueOf

\* A frame replaced on top.
LEMMA NewTop ==
    ASSUME GTypeOK, Len(stack) > 0, NEW f \in Frames, stack' = [stack EXCEPT ![Len(stack)] = f]
    PROVE  /\ stack' \in Seq(Frames) /\ Len(stack') = Len(stack)
           /\ stack'[Len(stack)] = f
           /\ \A i \in 1 .. Len(stack) : i < Len(stack) => stack'[i] = stack[i]
<1>1. Len(stack) \in Nat /\ Len(stack) \in 1 .. Len(stack)
  BY GTypes
<1>2. /\ [stack EXCEPT ![Len(stack)] = f] \in Seq(Frames)
      /\ Len([stack EXCEPT ![Len(stack)] = f]) = Len(stack)
      /\ \A i \in 1 .. Len(stack) :
            [stack EXCEPT ![Len(stack)] = f][i] = IF i = Len(stack) THEN f ELSE stack[i]
  BY <1>1, ExceptSeq DEF GTypeOK
<1>3. stack' \in Seq(Frames) /\ Len(stack') = Len(stack)
  BY <1>2
<1>4. \A i \in 1 .. Len(stack) : stack'[i] = IF i = Len(stack) THEN f ELSE stack[i]
  BY <1>2
<1>5. \A i \in 1 .. Len(stack) : i < Len(stack) => i # Len(stack)
  BY <1>1
<1> QED BY <1>1, <1>3, <1>4, <1>5

LEMMA ParseLeafGInv ==
    ASSUME GInv, ParseLeaf
    PROVE  GInv'
<1>1. /\ pc = "node" /\ pc' = "made" /\ nodes' = nodes + 1
      /\ UNCHANGED <<doc, out, raw, stack>> /\ Depth <= MaxDepth /\ OneKey(raw) /\ IsLeaf
      /\ made' = IF Key = "attr" THEN attr(asString(Val)) ELSE lit(asString(Val))
  BY DEF ParseLeaf, Enters
<1>2. PICK p \in [Nat -> Values], b \in [Nat -> Nat] : Descending(p, b)
  BY <1>1, PathOf
<1>3. /\ Len(stack) \in Nat /\ nodes \in Nat /\ Len(stack) + 1 \in Nat
      /\ Len(out) < Len(raws) /\ Named(Len(out) + 1)
  BY <1>1, PathOf
<1>4. raw = p[Len(stack) + 1] /\ nodes = b[Len(stack) + 1] /\ raw \in Values
  BY <1>1, <1>2, <1>3 DEF Descending, AtNode
<1>5. /\ IsNode[raw] /\ Size[raw] = 1 /\ Height[raw] = 1
      /\ made' = TreeOf[raw]
  BY <1>1, <1>4, KeyAndVal, LeafSpec DEF IsLeaf
<1>6. rule' = rule /\ RuleSizes' = RuleSizes /\ (Readable' <=> Readable)
  BY <1>1, DocKept
<1>7. Along(p, b)'
  <2>1. Along(p, b)
    BY <1>2 DEF Descending
  <2> QED BY <1>1, <1>6, <2>1 DEF Along, Allowed
<1>8. AtMade(p[Len(stack) + 1], b[Len(stack) + 1])'
  <2>1. Height[raw] + Len(stack) <= MaxDepth
    BY <1>1, <1>3, <1>5 DEF Depth
  <2> QED BY <1>1, <1>4, <1>5, <2>1 DEF AtMade
<1>9. Descending(p, b)'
  BY <1>1, <1>7, <1>8 DEF Descending
<1>10. stack' \in Seq(Frames) /\ nodes' \in Nat
  BY <1>1, <1>3 DEF GInv, GTypeOK
<1> QED BY <1>1, <1>3, <1>9, <1>10, GoesOn

LEMMA ParseOperatorGInv ==
    ASSUME GInv, ParseOperator
    PROVE  GInv'
<1> DEFINE f == [key |-> Key, todo |-> IF Key = "not" THEN <<Val>> ELSE asSlice(Val),
                 done |-> <<>>]
           L == Len(stack)
<1>1. /\ pc = "node" /\ pc' = "operands" /\ nodes' = nodes + 1
      /\ UNCHANGED <<doc, out, raw, made>> /\ OneKey(raw) /\ IsOperator
      /\ stack' = Append(stack, f)
  BY DEF ParseOperator, Enters
<1>2. PICK p \in [Nat -> Values], b \in [Nat -> Nat] : Descending(p, b)
  BY <1>1, PathOf
<1>3. /\ L \in Nat /\ nodes \in Nat /\ L + 1 \in Nat
      /\ Len(out) < Len(raws) /\ Named(Len(out) + 1)
  BY <1>1, PathOf
<1>4. /\ raw = p[L + 1] /\ nodes = b[L + 1] /\ raw \in Values
      /\ Readable => Allowed(raw, nodes, L + 1)
  BY <1>1, <1>2, <1>3 DEF Descending, AtNode
<1>5. /\ f.key = KeyOf(raw) /\ f.todo = OperandsOf(raw) /\ f.done = <<>>
      /\ KeyOf(raw) = "not" \/ (KeyOf(raw) \in {"eq", "ne", "all", "any"} /\ IsSlice(ValueOf(raw)))
  BY <1>1, KeyAndVal DEF IsOperator, OperandsOf
<1>6. f \in Frames /\ Len(f.done) = 0 /\ Len(f.todo) = Len(OperandsOf(raw))
      /\ Len(OperandsOf(raw)) \in Nat
  <2>1. f.key \in STRING
    BY <1>1, <1>4, <1>5, MemberSpec
  <2>2. f.todo \in Seq(Values) /\ Len(OperandsOf(raw)) \in Nat
    BY <1>4, <1>5, OperandsSpec
  <2>3. f.done \in Seq(Trees) /\ Len(f.done) = 0
    BY <1>5, EmptySeq
  <2>4. f = [key |-> f.key, todo |-> f.todo, done |-> f.done]
    OBVIOUS
  <2> HIDE DEF f
  <2>5. f \in Frames
    BY <2>1, <2>2, <2>3, <2>4 DEF Frames
  <2> QED BY <1>5, <2>2, <2>3, <2>5
<1> HIDE DEF f, L
<1>7. /\ stack' \in Seq(Frames) /\ Len(stack') = L + 1 /\ stack'[L + 1] = f
      /\ \A i \in 1 .. L : stack'[i] = stack[i]
  BY <1>1, <1>3, <1>6, AppendProperties DEF GInv, GTypeOK, L
<1>8. Parsing(f, raw, L + 1)
  BY <1>1, <1>5, <1>6 DEF Parsing
<1>9. rule' = rule /\ RuleSizes' = RuleSizes /\ (Readable' <=> Readable)
  BY <1>1, DocKept
<1>10. Along(p, b)'
  <2>1. Along(p, b)
    BY <1>2 DEF Descending
  <2>2. p[1] = rule' .when /\ b[1] = SumOf(RuleSizes')[Len(out')]
    BY <1>1, <1>9, <2>1 DEF Along
  <2>3. ASSUME NEW i \in 1 .. L + 1
        PROVE  Parsing(stack'[i], p[i], i) /\ (Readable => Allowed(p[i], b[i], i))
    <3>1. CASE i = L + 1
      BY <1>4, <1>7, <1>8, <3>1
    <3>2. CASE i # L + 1
      <4>1. i \in 1 .. L
        BY <1>3, <3>2
      <4>2. Parsing(stack[i], p[i], i) /\ (Readable => Allowed(p[i], b[i], i))
        BY <2>1, <4>1 DEF Along, L
      <4> QED BY <1>7, <4>1, <4>2
    <3> QED BY <3>1, <3>2
  <2>4. ASSUME NEW i \in 1 .. L + 1, i < L + 1
        PROVE  Awaiting(stack'[i], p[i], b[i], p[i + 1], b[i + 1])
    <3>1. i \in 1 .. L
      BY <1>3, <2>4
    <3>2. Awaiting(stack[i], p[i], b[i], p[i + 1], b[i + 1])
      BY <1>1, <2>1, <3>1 DEF Along, L
    <3> QED BY <1>7, <3>1, <3>2
  <2>5. /\ \A i \in 1 .. L + 1 : Parsing(stack'[i], p[i], i) /\ (Readable => Allowed(p[i], b[i], i))
        /\ \A i \in 1 .. L + 1 : i < L + 1 => Awaiting(stack'[i], p[i], b[i], p[i + 1], b[i + 1])
    BY <2>3, <2>4
  <2> QED BY <1>1, <1>7, <1>9, <2>2, <2>5 DEF Along
<1>11. AtOperands(p[Len(stack)], b[Len(stack)])'
  <2>1. SumOf(Sizes(raw))[0] = 0
    BY SumUnfolds
  <2>2. stack'[Len(stack')] = f /\ Len(stack') > 0
    BY <1>3, <1>7
  <2>3. nodes' = b[L + 1] + 1 + SumOf(Sizes(raw))[Len(f.done)]
    BY <1>1, <1>3, <1>4, <1>6, <2>1
  <2>4. Between(f, raw)
    BY <1>6 DEF Between
  <2>5. p[Len(stack')] = raw /\ b[Len(stack')] = b[L + 1] /\ top' = f
    BY <1>4, <1>7, <2>2 DEF top
  <2> QED BY <2>2, <2>3, <2>4, <2>5 DEF AtOperands
<1>12. Descending(p, b)'
  BY <1>1, <1>10, <1>11 DEF Descending
<1>13. nodes' \in Nat
  BY <1>1, <1>3
<1> QED BY <1>1, <1>3, <1>7, <1>12, <1>13, GoesOn

LEMMA RefuseNodeGInv ==
    ASSUME GInv, RefuseNode
    PROVE  GInv'
<1>1. /\ pc = "node" /\ pc' = "err" /\ UNCHANGED <<doc, out, stack>>
      /\ ~(Enters /\ (IsLeaf \/ IsOperator)) /\ nodes' \in {nodes, nodes + 1}
  BY DEF RefuseNode, Fail
<1>2. PICK p \in [Nat -> Values], b \in [Nat -> Nat] : Descending(p, b)
  BY <1>1, PathOf
<1>3. Len(stack) \in Nat /\ nodes \in Nat /\ Len(stack) + 1 \in Nat
  BY <1>1, PathOf
<1>4. /\ raw = p[Len(stack) + 1] /\ raw \in Values
      /\ Readable => Allowed(raw, nodes, Len(stack) + 1)
  BY <1>1, <1>2, <1>3 DEF Descending, AtNode
<1>5. ASSUME Readable
      PROVE  FALSE
  <2>1. IsNode[raw] /\ Height[raw] + (Len(stack) + 1) <= MaxDepth + 1 /\ nodes + Size[raw] <= MaxNodes
    BY <1>4, <1>5 DEF Allowed
  <2>2. OneKey(raw) /\ Fits(raw)
    BY <1>4, <2>1, IsNodeUnfolds
  <2>3. IsLeaf \/ IsOperator
    BY <2>2, KeyAndVal DEF Fits, IsLeaf, IsOperator
  <2>4. Depth <= MaxDepth
    <3>1. Height[raw] \in Nat /\ Height[raw] >= 1
      BY <1>4, HeightSpec
    <3>2. PICK h \in Nat : h = Height[raw] /\ h >= 1
      BY <3>1
    <3>3. h + (Len(stack) + 1) <= MaxDepth + 1
      BY <2>1, <3>2
    <3>4. h >= 1 /\ Len(stack) \in Nat /\ MaxDepth \in Nat
      BY <1>3, <3>2, ParserAssumption
    <3>5. Len(stack) + 1 <= MaxDepth
      BY <3>3, <3>4
    <3> QED BY <3>5 DEF Depth
  <2>5. nodes < MaxNodes
    <3>1. Size[raw] \in Nat /\ Size[raw] >= 1
      BY <1>4, SizeSpec
    <3>2. PICK s \in Nat : s = Size[raw] /\ s >= 1
      BY <3>1
    <3>3. nodes + s <= MaxNodes
      BY <2>1, <3>2
    <3>4. s >= 1 /\ nodes \in Nat /\ MaxNodes \in Nat
      BY <1>3, <3>2, ParserAssumption
    <3> QED BY <3>3, <3>4
  <2> QED BY <1>1, <2>2, <2>3, <2>4, <2>5 DEF Enters
<1>6. nodes' \in Nat
  <2>1. nodes' \in {nodes, nodes + 1}
    BY <1>1
  <2>2. PICK n \in Nat : n = nodes
    BY <1>3
  <2>3. nodes' \in {n, n + 1}
    BY <2>1, <2>2
  <2> QED BY <2>3
<1> QED BY <1>1, <1>5, <1>6, Refused

\* What Along needs after a step that keeps to the rule.
LEMMA StillAlong ==
    ASSUME NEW p, NEW b, NEW n, doc' = doc, out' = out, Len(stack') = n,
           p[1] = rule.when, b[1] = SumOf(RuleSizes)[Len(out)],
           \A i \in 1 .. n : Parsing(stack'[i], p[i], i) /\ (Readable => Allowed(p[i], b[i], i)),
           \A i \in 1 .. n : (pc' = "operands" => i < n) =>
               Awaiting(stack'[i], p[i], b[i], p[i + 1], b[i + 1])
    PROVE  Along(p, b)'
<1>1. rule' = rule /\ RuleSizes' = RuleSizes /\ (Readable' <=> Readable)
  BY DocKept
<1> QED BY <1>1 DEF Along

\* A frame takes up its next operand.
LEMMA NextFrame ==
    ASSUME NEW v \in Values, NEW f \in Frames, NEW i, Parsing(f, v, i),
           Between(f, v), f.todo # <<>>,
           NEW g, g = [key |-> f.key, todo |-> Tail(f.todo), done |-> f.done]
    PROVE  /\ g \in Frames /\ Parsing(g, v, i)
           /\ Len(g.done) = Len(f.done) /\ Len(g.done) + 1 + Len(g.todo) = Len(OperandsOf(v))
           /\ Len(f.done) + 1 \in 1 .. Len(OperandsOf(v))
           /\ Head(f.todo) = OperandsOf(v)[Len(f.done) + 1]
<1>1. f.key \in STRING /\ f.todo \in Seq(Values) /\ f.done \in Seq(Trees)
  BY DEF Frames
<1>2. g.key = f.key /\ g.todo = Tail(f.todo) /\ g.done = f.done
  OBVIOUS
<1>3. /\ Tail(f.todo) \in Seq(Values) /\ Len(Tail(f.todo)) = Len(f.todo) - 1
      /\ \A k \in 1 .. Len(Tail(f.todo)) : Tail(f.todo)[k] = f.todo[k + 1]
      /\ Head(f.todo) = f.todo[1]
  BY <1>1, HeadTailProperties
<1>4. PICK d \in Nat, t \in Nat, n \in Nat :
         /\ d = Len(f.done) /\ t = Len(f.todo) /\ n = Len(OperandsOf(v))
         /\ t >= 1 /\ d + t = n
  <2>1. /\ Len(f.done) \in Nat /\ Len(f.todo) \in Nat /\ Len(OperandsOf(v)) \in Nat
        /\ Len(f.todo) >= 1
    BY <1>1, LenProperties, EmptySeq, OperandsSpec
  <2> QED BY <2>1 DEF Between
<1>5. t >= 1 /\ d + t = n
  BY <1>4
<1>6. g \in Frames
  BY <1>1, <1>3 DEF Frames
<1>7. \A k \in 1 .. t : f.todo[k] = OperandsOf(v)[n - t + k]
  BY <1>4 DEF Parsing
<1>8. Len(g.todo) = t - 1 /\ Len(g.done) = d
  BY <1>2, <1>3, <1>4
<1>9. ASSUME NEW k \in 1 .. t - 1
      PROVE  g.todo[k] = OperandsOf(v)[n - (t - 1) + k]
  <2>1. k + 1 \in 1 .. t /\ n - t + (k + 1) = n - (t - 1) + k
    BY <1>5
  <2>2. g.todo[k] = f.todo[k + 1]
    BY <1>2, <1>3, <1>4
  <2> QED BY <1>7, <2>1, <2>2
<1>10. Parsing(g, v, i)
  <2>1. d + (t - 1) <= n
    BY <1>5
  <2>2. \A k \in 1 .. Len(g.todo) :
           g.todo[k] = OperandsOf(v)[Len(OperandsOf(v)) - Len(g.todo) + k]
    BY <1>4, <1>8, <1>9
  <2>3. Len(g.done) + Len(g.todo) <= Len(OperandsOf(v))
    BY <1>4, <1>8, <2>1
  <2> QED BY <1>2, <2>2, <2>3 DEF Parsing
<1>11. Len(g.done) + 1 + Len(g.todo) = Len(OperandsOf(v))
  <2>1. d + 1 + (t - 1) = n
    BY <1>5
  <2> QED BY <1>4, <1>8, <2>1
<1>12. Head(f.todo) = OperandsOf(v)[Len(f.done) + 1]
  <2>1. n - t + 1 = d + 1 /\ 1 \in 1 .. t
    BY <1>5
  <2> QED BY <1>3, <1>4, <1>7, <2>1
<1>13. Len(f.done) + 1 \in 1 .. Len(OperandsOf(v))
  <2>1. d + 1 \in 1 .. n
    BY <1>5
  <2> QED BY <1>4, <2>1
<1> QED BY <1>2, <1>6, <1>10, <1>11, <1>12, <1>13

\* What the limits allow, they allow for its operands, each in its turn.
LEMMA AllowedBelow ==
    ASSUME NEW v \in Values, NEW a \in Nat, NEW i \in Nat, Allowed(v, a, i),
           NEW k \in 1 .. Len(OperandsOf(v))
    PROVE  Allowed(OperandsOf(v)[k], a + 1 + SumOf(Sizes(v))[k - 1], i + 1)
<1> DEFINE w == OperandsOf(v)[k]
<1>1. /\ Len(OperandsOf(v)) \in Nat /\ k \in DOMAIN OperandsOf(v) /\ w \in Values
      /\ k - 1 \in 0 .. Len(OperandsOf(v))
  BY OperandsSpec
<1>2. IsNode[w]
  BY <1>1, IsNodeUnfolds DEF Allowed
<1>3. PICK h \in Nat : h = Height[v] /\ h + i <= MaxDepth + 1
  BY HeightSpec DEF Allowed
<1>4. PICK g \in Nat : g = Height[w] /\ g < h
  BY <1>1, <1>3, HeightSpec
<1>5. g + (i + 1) <= MaxDepth + 1
  BY <1>3, <1>4, ParserAssumption
<1>6. PICK s \in Nat : s = Size[v] /\ a + s <= MaxNodes
  BY SizeSpec DEF Allowed
<1>7. PICK r \in Nat : r = Size[w]
  BY <1>1, SizeType
<1>8. PICK t \in Nat : t = SumOf(Sizes(v))[k - 1]
  BY <1>1, SizeSpec
<1>9. 1 + t + r <= s
  BY <1>6, <1>7, <1>8, SizeSpec
<1>10. a + 1 + t + r <= MaxNodes
  BY <1>6, <1>9, ParserAssumption
<1> HIDE DEF w
<1>11. Allowed(w, a + 1 + SumOf(Sizes(v))[k - 1], i + 1)
  BY <1>2, <1>4, <1>5, <1>7, <1>8, <1>10 DEF Allowed
<1> QED BY <1>11 DEF w

\* A frame gets the node of the operand it waits for.
LEMMA ReturnFrame ==
    ASSUME NEW v \in Values, NEW f \in Frames, NEW i \in Nat, NEW a \in Nat, NEW w \in Values, NEW c,
           Parsing(f, v, i), Awaiting(f, v, a, w, c),
           FitsUnder(w, i),
           NEW g, g = [key |-> f.key, todo |-> f.todo, done |-> Append(f.done, TreeOf[w])]
    PROVE  /\ g \in Frames /\ Parsing(g, v, i)
           /\ Between(g, v)
           /\ Counted(g, v, a, c + Size[w])
<1>1. f.key \in STRING /\ f.todo \in Seq(Values) /\ f.done \in Seq(Trees) /\ TreeOf[w] \in Trees
  BY DEF Frames, Trees
<1>2. g.key = f.key /\ g.todo = f.todo /\ g.done = Append(f.done, TreeOf[w])
  OBVIOUS
<1>3. PICK d \in Nat, t \in Nat, n \in Nat :
         /\ d = Len(f.done) /\ t = Len(f.todo) /\ n = Len(OperandsOf(v))
         /\ d + 1 + t = n
  BY <1>1, LenProperties, OperandsSpec DEF Awaiting
<1>4. d + 1 + t = n
  BY <1>3
<1>5. /\ g.done \in Seq(Trees) /\ Len(g.done) = d + 1
      /\ \A k \in 1 .. d : g.done[k] = f.done[k]
      /\ g.done[d + 1] = TreeOf[w]
  BY <1>1, <1>2, <1>3, AppendProperties
<1>6. w = OperandsOf(v)[d + 1] /\ c = a + 1 + SumOf(Sizes(v))[d]
  BY <1>3 DEF Awaiting
<1>7. g \in Frames
  BY <1>1, <1>2, <1>5 DEF Frames
<1>8. Between(g, v)
  <2>1. (d + 1) + t = n
    BY <1>4
  <2> QED BY <1>2, <1>3, <1>5, <2>1 DEF Between
<1>9. ASSUME NEW k \in 1 .. d + 1
      PROVE  /\ g.done[k] = TreeOf[OperandsOf(v)[k]] /\ IsNode[OperandsOf(v)[k]]
             /\ Height[OperandsOf(v)[k]] + i <= MaxDepth
  <2>1. CASE k = d + 1
    BY <1>5, <1>6, <2>1 DEF FitsUnder
  <2>2. CASE k # d + 1
    <3>1. k \in 1 .. d
      BY <2>2
    <3> QED BY <1>3, <1>5, <3>1 DEF Parsing
  <2> QED BY <2>1, <2>2
<1>10. Parsing(g, v, i)
  <2>1. Len(g.done) + Len(g.todo) <= Len(OperandsOf(v))
    <3>1. (d + 1) + t <= n
      BY <1>4
    <3> QED BY <1>2, <1>3, <1>5, <3>1
  <2>2. \A k \in 1 .. Len(g.done) : /\ g.done[k] = TreeOf[OperandsOf(v)[k]]
                                    /\ IsNode[OperandsOf(v)[k]]
                                    /\ Height[OperandsOf(v)[k]] + i <= MaxDepth
    BY <1>5, <1>9
  <2> QED BY <1>2, <2>1, <2>2 DEF Parsing
<1>11. c + Size[w] = a + 1 + SumOf(Sizes(v))[Len(g.done)]
  <2>1. d + 1 \in 1 .. n /\ (d + 1) - 1 = d /\ d \in 0 .. n
    BY <1>4
  <2>2. SumOf(Sizes(v))[d + 1] = SumOf(Sizes(v))[d] + Size[w]
    <3>1. d + 1 \in 1 .. Len(OperandsOf(v)) /\ (d + 1) - 1 = d
      BY <1>3, <2>1
    <3>2. SumOf(Sizes(v))[d + 1] = SumOf(Sizes(v))[(d + 1) - 1] + Size[OperandsOf(v)[d + 1]]
      BY <3>1, SizeSpec
    <3> QED BY <1>6, <3>1, <3>2
  <2>3. PICK u \in Nat : u = SumOf(Sizes(v))[d]
    BY <1>3, <2>1, SizeSpec
  <2>4. PICK s \in Nat : s = Size[w]
    BY SizeType
  <2>5. (a + 1 + u) + s = a + 1 + (u + s)
    OBVIOUS
  <2> QED BY <1>5, <1>6, <2>2, <2>3, <2>4, <2>5
<1> QED BY <1>7, <1>8, <1>10, <1>11 DEF Counted

\* A frame that has all its operands gives its node.
LEMMA BuildFrame ==
    ASSUME NEW v \in Values, NEW f \in Frames, NEW i \in Nat, NEW a \in Nat, NEW c,
           i >= 1, i <= MaxDepth,
           Parsing(f, v, i), Between(f, v), f.todo = <<>>,
           Filled(f), Counted(f, v, a, c)
    PROVE  /\ IsNode[v] /\ TreeOf[v] = build(f.key, f.done)
           /\ Height[v] + (i - 1) <= MaxDepth
           /\ c = a + Size[v]
<1>1. f.done \in Seq(Trees) /\ Len(f.done) \in Nat /\ Len(f.todo) = 0
  BY EmptySeq, LenProperties DEF Frames
<1>2. Len(f.done) = Len(OperandsOf(v)) /\ DOMAIN OperandsOf(v) = 1 .. Len(f.done)
  BY <1>1, OperandsSpec DEF Between
<1>3. /\ OneKey(v) /\ f.key = KeyOf(v)
      /\ KeyOf(v) = "not" \/ (KeyOf(v) \in {"eq", "ne", "all", "any"} /\ IsSlice(ValueOf(v)))
      /\ \A k \in 1 .. Len(f.done) : f.done[k] = TreeOf[OperandsOf(v)[k]] /\ IsNode[OperandsOf(v)[k]]
      /\ \A k \in 1 .. Len(f.done) : Height[OperandsOf(v)[k]] + i <= MaxDepth
  BY DEF Parsing
<1>4. KeyOf(v) \in {"all", "any"} => Len(OperandsOf(v)) >= 1
  BY <1>1, <1>2, <1>3, EmptySeq DEF Filled
<1>5. KeyOf(v) \in {"eq", "ne"} => Len(OperandsOf(v)) = 2
  BY <1>2, <1>3 DEF Filled
<1>6. IsNode[v] /\ TreeOf[v] = build(f.key, f.done)
  <2>1. PICK done \in Seq(Trees) : done = f.done
    BY <1>1
  <2>2. done = [k \in DOMAIN OperandsOf(v) |-> TreeOf[OperandsOf(v)[k]]]
    <3>1. done \in [DOMAIN OperandsOf(v) -> Trees]
      BY <1>2, <2>1, LenProperties
    <3>2. \A k \in DOMAIN OperandsOf(v) : done[k] = TreeOf[OperandsOf(v)[k]]
      BY <1>2, <1>3, <2>1
    <3> QED BY <3>1, <3>2
  <2>3. \A k \in DOMAIN OperandsOf(v) : IsNode[OperandsOf(v)[k]]
    BY <1>2, <1>3
  <2>4. /\ OneKey(v)
        /\ KeyOf(v) = "not" \/ (KeyOf(v) \in {"eq", "ne", "all", "any"} /\ IsSlice(ValueOf(v)))
    BY <1>3
  <2>5. IsNode[v] /\ TreeOf[v] = build(KeyOf(v), done)
    BY <1>4, <1>5, <2>2, <2>3, <2>4, OperatorSpec
  <2> QED BY <1>3, <2>1, <2>5
<1>7. Height[v] + (i - 1) <= MaxDepth
  <2>1. PICK d \in Nat : d = MaxDepth + 1 - i /\ d >= 1
    BY ParserAssumption
  <2>2. ASSUME NEW k \in DOMAIN OperandsOf(v)
        PROVE  Height[OperandsOf(v)[k]] < d
    <3>1. PICK h \in Nat : h = Height[OperandsOf(v)[k]]
      BY OperandsSpec, HeightSpec
    <3>2. h + i <= MaxDepth
      BY <1>2, <1>3, <3>1
    <3> QED BY <2>1, <3>1, <3>2, ParserAssumption
  <2>3. PICK h \in Nat : h = Height[v]
    BY HeightSpec
  <2>4. h <= d
    BY <2>1, <2>2, <2>3, HeightSpec
  <2> QED BY <2>1, <2>3, <2>4, ParserAssumption
<1>8. c = a + Size[v]
  <2>1. PICK t \in Nat : t = SumOf(Sizes(v))[Len(OperandsOf(v))]
    BY <1>1, <1>2, SizeSpec
  <2>2. Size[v] = 1 + t
    BY <2>1, SizeSums
  <2> QED BY <1>2, <2>1, <2>2 DEF Counted
<1> QED BY <1>6, <1>7, <1>8

LEMMA WithField ==
    ASSUME NEW f \in Frames, NEW x
    PROVE  /\ [f EXCEPT !.todo = x] = [key |-> f.key, todo |-> x, done |-> f.done]
           /\ [f EXCEPT !.done = x] = [key |-> f.key, todo |-> f.todo, done |-> x]
BY DEF Frames

LEMMA NextOperandGInv ==
    ASSUME GInv, NextOperand
    PROVE  GInv'
<1> DEFINE g == [key |-> top.key, todo |-> Tail(top.todo), done |-> top.done]
<1>1. /\ pc = "operands" /\ pc' = "node" /\ UNCHANGED <<doc, out, nodes>>
      /\ top.todo # <<>> /\ raw' = Head(top.todo)
      /\ stack' = [stack EXCEPT ![Len(stack)].todo = Tail(top.todo)]
  BY DEF NextOperand, top
<1>2. PICK p \in [Nat -> Values], b \in [Nat -> Nat] : Descending(p, b)
  BY <1>1, PathOf
<1>3. Len(out) < Len(raws) /\ Named(Len(out) + 1) /\ nodes \in Nat /\ GTypeOK
  BY <1>1, PathOf DEF GInv
<1>4. PICK L \in Nat : L = Len(stack) /\ L >= 1
  <2>1. Len(stack) \in Nat /\ Len(stack) # 0
    BY <1>1, <1>2, <1>3, GTypes DEF Descending, AtOperands
  <2>2. PICK n \in Nat : n = Len(stack)
    BY <2>1
  <2>3. n # 0
    BY <2>1, <2>2
  <2>4. n >= 1
    BY <2>3
  <2> QED BY <2>2, <2>4
<1>4a. L \in Nat /\ L >= 1
  BY <1>4
<1>4b. L + 1 \in Nat /\ 1 \in 1 .. L /\ L > 0
  BY <1>4a
<1>5. Along(p, b) /\ AtOperands(p[L], b[L])
  BY <1>1, <1>2, <1>4 DEF Descending
<1>6. top \in Frames /\ top = stack[L] /\ L \in 1 .. L
  BY <1>3, <1>4, GTypes DEF top
<1>7. stack' = [stack EXCEPT ![L] = g]
  <2>2. [stack[L] EXCEPT !.todo = Tail(top.todo)] = g
    BY <1>6, WithField
  <2>3. stack' = [stack EXCEPT ![L] = [stack[L] EXCEPT !.todo = Tail(top.todo)]]
    BY <1>1, <1>4
  <2> QED BY <2>2, <2>3
<1>8. /\ Parsing(top, p[L], L) /\ (Readable => Allowed(p[L], b[L], L))
      /\ Between(top, p[L]) /\ nodes = b[L] + 1 + SumOf(Sizes(p[L]))[Len(top.done)]
  BY <1>4, <1>5, <1>6 DEF Along, AtOperands
<1>9. p[L] \in Values /\ b[L] \in Nat
  OBVIOUS
<1>10. /\ g \in Frames /\ Parsing(g, p[L], L)
       /\ Len(g.done) = Len(top.done) /\ Len(g.done) + 1 + Len(g.todo) = Len(OperandsOf(p[L]))
       /\ Len(top.done) + 1 \in 1 .. Len(OperandsOf(p[L]))
       /\ raw' = OperandsOf(p[L])[Len(top.done) + 1]
  BY <1>1, <1>6, <1>8, <1>9, NextFrame
<1> HIDE DEF g
<1>11. raw' \in Values
  BY <1>9, <1>10, OperandsSpec
<1>12. Readable => Allowed(raw', nodes, L + 1)
  <2>1. (Len(top.done) + 1) - 1 = Len(top.done)
    BY <1>6, LenProperties DEF Frames
  <2>2. Len(top.done) + 1 \in 1 .. Len(OperandsOf(p[L]))
    BY <1>10
  <2>3. Readable => Allowed(OperandsOf(p[L])[Len(top.done) + 1],
                              b[L] + 1 + SumOf(Sizes(p[L]))[(Len(top.done) + 1) - 1], L + 1)
    BY <1>8, <1>9, <2>2, AllowedBelow
  <2> QED BY <1>8, <1>10, <2>1, <2>3
<1> DEFINE p2 == [p EXCEPT ![L + 1] = raw']
           b2 == [b EXCEPT ![L + 1] = nodes]
<1>13. PICK q \in [Nat -> Values], c \in [Nat -> Nat] :
          /\ q[L + 1] = raw' /\ c[L + 1] = nodes
          /\ \A i \in 1 .. L : q[i] = p[i] /\ c[i] = b[i]
  <2>1. p2 \in [Nat -> Values] /\ b2 \in [Nat -> Nat]
    BY <1>3, <1>11
  <2>2. \A i \in 1 .. L : i # L + 1 /\ i \in Nat
    BY <1>4a
  <2>3. p2[L + 1] = raw' /\ b2[L + 1] = nodes
    BY <1>4b
  <2>4. \A i \in 1 .. L : p2[i] = p[i] /\ b2[i] = b[i]
    BY <2>2
  <2> HIDE DEF p2, b2
  <2> QED BY <2>1, <2>3, <2>4
<1> HIDE DEF p2, b2
<1>14. /\ stack' \in Seq(Frames) /\ Len(stack') = L /\ stack'[L] = g
       /\ \A i \in 1 .. L : i < L => stack'[i] = stack[i]
  <2>1. stack' = [stack EXCEPT ![Len(stack)] = g] /\ g \in Frames
    BY <1>4, <1>7, <1>10
  <2>2. Len(stack) > 0
    BY <1>4, <1>4b
  <2>3. /\ stack' \in Seq(Frames) /\ Len(stack') = Len(stack)
        /\ stack'[Len(stack)] = g
        /\ \A i \in 1 .. Len(stack) : i < Len(stack) => stack'[i] = stack[i]
    BY <1>3, <2>1, <2>2, NewTop
  <2> QED BY <1>4, <2>3
<1>15. Along(q, c)'
  <2>1. q[1] = rule.when /\ c[1] = SumOf(RuleSizes)[Len(out)]
    BY <1>4b, <1>5, <1>13 DEF Along
  <2>2. ASSUME NEW i \in 1 .. L
        PROVE  /\ Parsing(stack'[i], q[i], i) /\ (Readable => Allowed(q[i], c[i], i))
               /\ Awaiting(stack'[i], q[i], c[i], q[i + 1], c[i + 1])
    <3>1. CASE i = L
      BY <1>8, <1>10, <1>13, <1>14, <3>1 DEF Awaiting
    <3>2. CASE i # L
      <4>1. i < L /\ i + 1 \in 1 .. L
        BY <1>4a, <3>2
      <4>2. /\ Parsing(stack[i], p[i], i) /\ (Readable => Allowed(p[i], b[i], i))
            /\ Awaiting(stack[i], p[i], b[i], p[i + 1], b[i + 1])
        BY <1>4, <1>5, <4>1 DEF Along
      <4> QED BY <1>13, <1>14, <4>1, <4>2
    <3> QED BY <3>1, <3>2
  <2> QED BY <1>1, <1>14, <2>1, <2>2, StillAlong
<1>16. AtNode(q[Len(stack) + 1], c[Len(stack) + 1])'
  <2>1. Readable' <=> Readable
    BY <1>1, DocKept
  <2> QED BY <1>1, <1>12, <1>13, <1>14, <2>1 DEF AtNode
<1>17. Descending(q, c)'
  BY <1>1, <1>15, <1>16 DEF Descending
<1>18. nodes' \in Nat
  BY <1>1, <1>3
<1> QED BY <1>1, <1>3, <1>14, <1>17, <1>18, GoesOn

LEMMA ReturnOperandGInv ==
    ASSUME GInv, ReturnOperand
    PROVE  GInv'
<1> DEFINE g == [key |-> top.key, todo |-> top.todo, done |-> Append(top.done, made)]
<1>1. /\ pc = "made" /\ pc' = "operands" /\ UNCHANGED <<doc, out, nodes>>
      /\ stack # <<>>
      /\ stack' = [stack EXCEPT ![Len(stack)].done = Append(top.done, made)]
  BY DEF ReturnOperand, top
<1>2. PICK p \in [Nat -> Values], b \in [Nat -> Nat] : Descending(p, b)
  BY <1>1, PathOf
<1>3. Len(out) < Len(raws) /\ Named(Len(out) + 1) /\ nodes \in Nat /\ GTypeOK
  BY <1>1, PathOf DEF GInv
<1>4. PICK L \in Nat : L = Len(stack) /\ L >= 1
  <2>1. Len(stack) \in Nat /\ Len(stack) # 0
    BY <1>1, <1>3, GTypes
  <2>2. PICK n \in Nat : n = Len(stack)
    BY <2>1
  <2>3. n # 0
    BY <2>1, <2>2
  <2>4. n >= 1
    BY <2>3
  <2> QED BY <2>2, <2>4
<1>4a. L \in Nat /\ L >= 1
  BY <1>4
<1>4b. L + 1 \in Nat /\ 1 \in 1 .. L /\ L > 0
  BY <1>4a
<1>5. Along(p, b) /\ AtMade(p[L + 1], b[L + 1])
  BY <1>1, <1>2, <1>4 DEF Descending
<1>6. top \in Frames /\ top = stack[L] /\ L \in 1 .. L
  BY <1>3, <1>4, GTypes DEF top
<1>7. stack' = [stack EXCEPT ![L] = g]
  <2>2. [stack[L] EXCEPT !.done = Append(top.done, made)] = g
    BY <1>6, WithField
  <2>3. stack' = [stack EXCEPT ![L] = [stack[L] EXCEPT !.done = Append(top.done, made)]]
    BY <1>1, <1>4
  <2> QED BY <2>2, <2>3
<1>8. Parsing(top, p[L], L) /\ Awaiting(top, p[L], b[L], p[L + 1], b[L + 1])
  BY <1>1, <1>4, <1>5, <1>6 DEF Along
<1>9. p[L] \in Values /\ b[L] \in Nat /\ p[L + 1] \in Values
  OBVIOUS
<1>10. /\ made = TreeOf[p[L + 1]] /\ IsNode[p[L + 1]] /\ Height[p[L + 1]] + L <= MaxDepth
       /\ nodes = b[L + 1] + Size[p[L + 1]]
  BY <1>4, <1>5 DEF AtMade
<1>10a. g = [key |-> top.key, todo |-> top.todo, done |-> Append(top.done, TreeOf[p[L + 1]])]
  BY <1>10
<1>11. /\ g \in Frames /\ Parsing(g, p[L], L) /\ Between(g, p[L])
       /\ nodes = b[L] + 1 + SumOf(Sizes(p[L]))[Len(g.done)]
  <2> HIDE DEF g
  <2>1. /\ g \in Frames /\ Parsing(g, p[L], L) /\ Between(g, p[L])
        /\ b[L + 1] + Size[p[L + 1]] = b[L] + 1 + SumOf(Sizes(p[L]))[Len(g.done)]
    <3>1a. PICK v \in Values, w \in Values, a \in Nat : v = p[L] /\ w = p[L + 1] /\ a = b[L]
      BY <1>9
    <3>1b. PICK c : c = b[L + 1]
      OBVIOUS
    <3>1. v = p[L] /\ w = p[L + 1] /\ a = b[L] /\ c = b[L + 1]
      BY <3>1a, <3>1b
    <3>2. top \in Frames /\ FitsUnder(w, L)
      BY <1>6, <1>10, <3>1 DEF FitsUnder
    <3>3. Parsing(top, v, L) /\ Awaiting(top, v, a, w, c)
      BY <1>8, <3>1
    <3>4. g = [key |-> top.key, todo |-> top.todo, done |-> Append(top.done, TreeOf[w])]
      BY <1>10a, <3>1
    <3>5. /\ g \in Frames /\ Parsing(g, v, L) /\ Between(g, v)
          /\ Counted(g, v, a, c + Size[w])
      BY <3>2, <3>3, <3>4, ReturnFrame
    <3> QED BY <3>1, <3>5 DEF Counted
  <2> QED BY <1>10, <2>1
<1> HIDE DEF g
<1>12. /\ stack' \in Seq(Frames) /\ Len(stack') = L /\ stack'[L] = g
       /\ \A i \in 1 .. L : i < L => stack'[i] = stack[i]
  <2>1. stack' = [stack EXCEPT ![Len(stack)] = g] /\ g \in Frames
    BY <1>4, <1>7, <1>11
  <2>2. Len(stack) > 0
    BY <1>4, <1>4b
  <2>3. /\ stack' \in Seq(Frames) /\ Len(stack') = Len(stack)
        /\ stack'[Len(stack)] = g
        /\ \A i \in 1 .. Len(stack) : i < Len(stack) => stack'[i] = stack[i]
    BY <1>3, <2>1, <2>2, NewTop
  <2> QED BY <1>4, <2>3
<1>13. Along(p, b)'
  <2>1. p[1] = rule.when /\ b[1] = SumOf(RuleSizes)[Len(out)]
    BY <1>5 DEF Along
  <2>2. ASSUME NEW i \in 1 .. L
        PROVE  /\ Parsing(stack'[i], p[i], i) /\ (Readable => Allowed(p[i], b[i], i))
               /\ i < L => Awaiting(stack'[i], p[i], b[i], p[i + 1], b[i + 1])
    <3>1. /\ Parsing(stack[i], p[i], i) /\ (Readable => Allowed(p[i], b[i], i))
          /\ Awaiting(stack[i], p[i], b[i], p[i + 1], b[i + 1])
      BY <1>1, <1>4, <1>5 DEF Along
    <3>2. i = L \/ i < L
      BY <1>4
    <3> QED BY <1>11, <1>12, <3>1, <3>2
  <2> QED BY <1>1, <1>12, <2>1, <2>2, StillAlong
<1>14. AtOperands(p[Len(stack)], b[Len(stack)])'
  <2>1. top' = g
    BY <1>12 DEF top
  <2> QED BY <1>1, <1>4, <1>11, <1>12, <2>1 DEF AtOperands
<1>15. Descending(p, b)'
  BY <1>1, <1>13, <1>14 DEF Descending
<1>16. nodes' \in Nat
  BY <1>1, <1>3
<1> QED BY <1>1, <1>3, <1>12, <1>15, <1>16, GoesOn

LEMMA BuildGInv ==
    ASSUME GInv, PInv, Build
    PROVE  GInv'
<1>1. pc = "operands" /\ UNCHANGED <<doc, out, nodes>> /\ top.todo = <<>>
  BY DEF Build, Fail
<1>2. PICK p \in [Nat -> Values], b \in [Nat -> Nat] : Descending(p, b)
  BY <1>1, PathOf
<1>3. Len(out) < Len(raws) /\ Named(Len(out) + 1) /\ nodes \in Nat /\ GTypeOK
  BY <1>1, PathOf DEF GInv
<1>4. PICK L \in Nat : L = Len(stack) /\ L >= 1 /\ L <= MaxDepth
  <2>1. Len(stack) \in Nat /\ Len(stack) # 0 /\ Len(stack) <= MaxDepth
    BY <1>1, <1>2, <1>3, GTypes DEF Descending, AtOperands, PInv, WorkIsBounded
  <2>2. PICK n \in Nat : n = Len(stack)
    BY <2>1
  <2>3. n # 0 /\ n <= MaxDepth
    BY <2>1, <2>2
  <2>4. n >= 1
    BY <2>3
  <2> QED BY <2>2, <2>3, <2>4
<1>4a. L \in Nat /\ L >= 1 /\ L <= MaxDepth
  BY <1>4
<1>5. Along(p, b) /\ AtOperands(p[L], b[L])
  BY <1>1, <1>2, <1>4 DEF Descending
<1>6. top \in Frames /\ top = stack[L] /\ L \in 1 .. L
  BY <1>3, <1>4, GTypes DEF top
<1>7. /\ Parsing(top, p[L], L) /\ (Readable => Allowed(p[L], b[L], L))
      /\ Between(top, p[L]) /\ nodes = b[L] + 1 + SumOf(Sizes(p[L]))[Len(top.done)]
  BY <1>4, <1>5, <1>6 DEF Along, AtOperands
<1>8. p[L] \in Values /\ b[L] \in Nat
  OBVIOUS
<1>9. CASE Arity
  <2>1. pc' = "made" /\ made' = build(top.key, top.done) /\ stack' = SubSeq(stack, 1, L - 1)
    BY <1>4, <1>9 DEF Build, pop
  <2>2. Filled(top)
    BY <1>9 DEF Arity, Filled
  <2>3. /\ IsNode[p[L]] /\ made' = TreeOf[p[L]] /\ Height[p[L]] + (L - 1) <= MaxDepth
        /\ nodes = b[L] + Size[p[L]]
    <3>1. /\ IsNode[p[L]] /\ TreeOf[p[L]] = build(top.key, top.done)
          /\ Height[p[L]] + (L - 1) <= MaxDepth /\ nodes = b[L] + Size[p[L]]
      <4>1a. PICK v \in Values, a \in Nat : v = p[L] /\ a = b[L]
        BY <1>8
      <4>1b. PICK c : c = nodes
        OBVIOUS
      <4>1. v = p[L] /\ a = b[L] /\ c = nodes
        BY <4>1a, <4>1b
      <4>2. top \in Frames /\ top.todo = <<>> /\ Parsing(top, v, L) /\ Between(top, v)
        BY <1>1, <1>6, <1>7, <4>1
      <4>3. Counted(top, v, a, c)
        BY <1>7, <4>1 DEF Counted
      <4>4. /\ IsNode[v] /\ TreeOf[v] = build(top.key, top.done)
            /\ Height[v] + (L - 1) <= MaxDepth /\ c = a + Size[v]
        BY <1>4a, <2>2, <4>2, <4>3, BuildFrame
      <4> QED BY <4>1, <4>4
    <3> QED BY <2>1, <3>1
  <2>4. PICK n \in Nat : n = L - 1 /\ n + 1 = L
    <3>1. L - 1 \in Nat /\ (L - 1) + 1 = L
      BY <1>4a
    <3> QED BY <3>1
  <2>5. /\ stack' \in Seq(Frames) /\ Len(stack') = n
        /\ \A i \in 1 .. n : stack'[i] = stack[i]
    <3>1. stack' = SubSeq(stack, 1, n)
      BY <2>1, <2>4
    <3>2. \A i \in 1 .. n : i \in 1 .. L
      BY <2>4
    <3>3. \A i \in 1 .. n : stack[i] \in Frames
      BY <1>3, <1>4, <3>2, GTypes
    <3>4. /\ SubSeq(stack, 1, n) \in Seq(Frames)
          /\ Len(SubSeq(stack, 1, n)) = IF 1 <= n THEN n - 1 + 1 ELSE 0
          /\ \A i \in 1 .. n - 1 + 1 : SubSeq(stack, 1, n)[i] = stack[1 + i - 1]
      <4>1. 1 \in Int /\ n \in Int
        BY <2>4
      <4> QED BY <3>3, <4>1, SubSeqProperties
    <3>5. n - 1 + 1 = n /\ (IF 1 <= n THEN n ELSE 0) = n /\ \A i \in 1 .. n : 1 + i - 1 = i
      BY <2>4
    <3> QED BY <3>1, <3>4, <3>5
  <2>6. Along(p, b)'
    <3>1. p[1] = rule.when /\ b[1] = SumOf(RuleSizes)[Len(out)]
      BY <1>5 DEF Along
    <3>2. ASSUME NEW i \in 1 .. n
          PROVE  /\ Parsing(stack'[i], p[i], i) /\ (Readable => Allowed(p[i], b[i], i))
                 /\ Awaiting(stack'[i], p[i], b[i], p[i + 1], b[i + 1])
      <4>1. i \in 1 .. L /\ i < L
        BY <2>4
      <4>2. /\ Parsing(stack[i], p[i], i) /\ (Readable => Allowed(p[i], b[i], i))
            /\ Awaiting(stack[i], p[i], b[i], p[i + 1], b[i + 1])
        BY <1>4, <1>5, <4>1 DEF Along
      <4> QED BY <2>5, <4>2
    <3> QED BY <1>1, <2>5, <3>1, <3>2, StillAlong
  <2>7. AtMade(p[Len(stack) + 1], b[Len(stack) + 1])'
    BY <1>1, <2>3, <2>4, <2>5 DEF AtMade
  <2>8. Descending(p, b)'
    BY <2>1, <2>6, <2>7 DEF Descending
  <2>9. nodes' \in Nat
    BY <1>1, <1>3
  <2> QED BY <1>1, <1>3, <2>1, <2>5, <2>8, <2>9, GoesOn
<1>10. CASE ~Arity
  <2>1. pc' = "err" /\ stack' = stack
    BY <1>10 DEF Build, Fail
  <2>2. ASSUME Readable
        PROVE  FALSE
    <3>1. Fits(p[L])
      BY <1>7, <1>8, <2>2, IsNodeUnfolds DEF Allowed
    <3>2. Len(top.done) = Len(OperandsOf(p[L])) /\ top.key = KeyOf(p[L])
          /\ KeyOf(p[L]) \in {"not", "eq", "ne", "all", "any"}
      <4>1. Len(top.todo) = 0 /\ Len(top.done) \in Nat
        BY <1>1, <1>6, EmptySeq, LenProperties DEF Frames
      <4>2. Len(top.done) + Len(top.todo) = Len(OperandsOf(p[L]))
        BY <1>7 DEF Between
      <4> QED BY <1>7, <4>1, <4>2 DEF Parsing
    <3>3. top.key \in {"eq", "ne"} => Len(top.done) = 2
      BY <3>1, <3>2 DEF Fits
    <3>4. top.key \in {"all", "any"} => top.done # <<>>
      <4>1. top.key \in {"all", "any"} => Len(top.done) >= 1
        BY <3>1, <3>2 DEF Fits
      <4>2. top.done = <<>> => Len(top.done) = 0
        BY EmptySeq
      <4> QED BY <4>1, <4>2
    <3>5. Arity
      BY <3>3, <3>4 DEF Arity
    <3> QED BY <1>10, <3>5
  <2>3. nodes' \in Nat
    BY <1>1, <1>3
  <2> QED BY <1>1, <2>1, <2>2, <2>3, Refused
<1> QED BY <1>9, <1>10

LEMMA EndRuleGInv ==
    ASSUME GInv, EndRule
    PROVE  GInv'
<1> DEFINE r == [id |-> Len(out), name |-> rule.name, effect |-> rule.effect, cond |-> made]
<1>1. /\ pc = "made" /\ pc' = "rule" /\ UNCHANGED <<doc, nodes, stack>>
      /\ stack = <<>> /\ out' = Append(out, r)
  BY DEF EndRule
<1>2. PICK p \in [Nat -> Values], b \in [Nat -> Nat] : Descending(p, b)
  BY <1>1, PathOf
<1>3. Len(out) < Len(raws) /\ Named(Len(out) + 1) /\ nodes \in Nat /\ GTypeOK
  BY <1>1, PathOf DEF GInv
<1>4. PICK n \in Nat : n = Len(out) /\ n + 1 \in 1 .. Len(raws)
  BY <1>3, GTypes, RawsSpec DEF GTypeOK
<1>5. Len(stack) = 0 /\ Along(p, b) /\ AtMade(p[1], b[1])
  <2>1. Len(stack) = 0
    BY <1>1, EmptySeq
  <2>2. Len(stack) + 1 = 1
    BY <2>1
  <2> QED BY <1>1, <1>2, <2>1, <2>2 DEF Descending
<1>6. /\ rule = raws[n + 1] /\ p[1] = rule.when
      /\ rule.when \in Values /\ rule.name \in STRING /\ rule.effect \in STRING
  BY <1>3, <1>4, <1>5, RawsSpec DEF Along, rule, GTypeOK
<1>7. /\ made = TreeOf[rule.when] /\ IsNode[rule.when]
      /\ Height[rule.when] <= MaxDepth /\ nodes = SumOf(RuleSizes)[n] + Size[rule.when]
  <2>1. Height[rule.when] \in Nat
    BY <1>6, HeightSpec
  <2>2. Height[rule.when] + Len(stack) <= MaxDepth
    BY <1>5, <1>6 DEF AtMade
  <2>3. Height[rule.when] <= MaxDepth
    <3>1. Height[rule.when] + 0 <= MaxDepth
      BY <1>5, <2>2
    <3>2. PICK h \in Nat : h = Height[rule.when] /\ h + 0 <= MaxDepth
      BY <2>1, <3>1
    <3>3. h + 0 = h
      BY <3>2
    <3> QED BY <3>2, <3>3
  <2>4. /\ made = TreeOf[p[1]] /\ IsNode[p[1]] /\ nodes = b[1] + Size[p[1]]
        /\ b[1] = SumOf(RuleSizes)[Len(out)]
    BY <1>5 DEF AtMade, Along
  <2>5. made = TreeOf[rule.when] /\ IsNode[rule.when]
    BY <1>6, <2>4
  <2>6. nodes = SumOf(RuleSizes)[n] + Size[rule.when]
    BY <1>4, <1>6, <2>4
  <2> QED BY <2>3, <2>5, <2>6
<1>8. r = Meaning[n + 1] /\ r \in Rules
  <2>1. n + 1 \in DOMAIN raws /\ (n + 1) - 1 = n
    BY <1>3, <1>4, RawsSpec DEF GTypeOK
  <2>2. Meaning[n + 1] = [id |-> (n + 1) - 1, name |-> raws[n + 1].name,
                          effect |-> raws[n + 1].effect, cond |-> TreeOf[raws[n + 1].when]]
    BY <2>1 DEF Meaning
  <2>3. r = [id |-> n, name |-> rule.name, effect |-> rule.effect, cond |-> TreeOf[rule.when]]
    BY <1>4, <1>7
  <2>4. TreeOf[rule.when] \in Trees
    BY <1>6 DEF Trees
  <2> QED BY <1>4, <1>6, <2>1, <2>2, <2>3, <2>4 DEF Rules
<1> HIDE DEF r
<1>9. /\ out' \in Seq(Rules) /\ Len(out') = n + 1 /\ out'[n + 1] = r
      /\ \A k \in 1 .. n : out'[k] = out[k]
  BY <1>1, <1>3, <1>4, <1>8, AppendProperties DEF GTypeOK
<1>10. raws' = raws /\ RuleSizes' = RuleSizes /\ Meaning' = Meaning
  BY <1>1, DocKept
<1>11. SoFar'
  <2>1. SoFar
    BY <1>1 DEF GInv
  <2>2. n + 1 <= Len(raws)
    BY <1>3, <1>4, RawsSpec DEF GTypeOK
  <2>3. ASSUME NEW k \in 1 .. n + 1
        PROVE  /\ Named(k)
               /\ IsNode[raws[k].when] /\ Height[raws[k].when] <= MaxDepth
               /\ out'[k] = Meaning[k]
    <3>1. CASE k = n + 1
      BY <1>3, <1>4, <1>6, <1>7, <1>8, <1>9, <3>1
    <3>2. CASE k # n + 1
      <4>1. k \in 1 .. n
        BY <3>2
      <4> QED BY <1>4, <1>9, <2>1, <4>1 DEF SoFar
    <3> QED BY <3>1, <3>2
  <2> QED BY <1>1, <1>9, <1>10, <2>1, <2>2, <2>3 DEF SoFar, Named
<1>12. nodes' = SumOf(RuleSizes')[Len(out')]
  <2>1. (n + 1) - 1 = n
    OBVIOUS
  <2>2. SumOf(RuleSizes)[n + 1] = SumOf(RuleSizes)[(n + 1) - 1] + Size[raws[n + 1].when]
    BY <1>3, <1>4, RuleSizesSpec DEF GTypeOK
  <2> QED BY <1>1, <1>6, <1>7, <1>9, <1>10, <2>1, <2>2
<1>13. GTypeOK'
  BY <1>1, <1>3, <1>9 DEF GTypeOK
<1> QED BY <1>1, <1>11, <1>12, <1>13 DEF GInv

\* Every step of a parse keeps to the document.
LEMMA GStep == PInv /\ GInv /\ [Step]_vars => GInv'
<1>1. GInv /\ UNCHANGED vars => GInv'
  <2> SUFFICES ASSUME GInv, UNCHANGED vars PROVE GInv'
    OBVIOUS
  <2>1. raws' = raws /\ RuleSizes' = RuleSizes /\ (Readable' <=> Readable)
        /\ rule' = rule /\ (SoFar' <=> SoFar) /\ top' = top
    BY DocKept DEF vars, top
  <2>2. \A p, b : Descending(p, b)' <=> Descending(p, b)
    BY <2>1 DEF vars, Descending, Along, AtNode, AtOperands, AtMade
  <2> QED BY <2>1, <2>2 DEF GInv, GTypeOK, Named, vars
<1> QED BY <1>1, OpenGInv, StartRuleGInv, FinishGInv, ParseLeafGInv, ParseOperatorGInv,
           RefuseNodeGInv, NextOperandGInv, BuildGInv, ReturnOperandGInv, EndRuleGInv DEF Step

\* What has been parsed whole and within the limits can be read as a policy.
LEMMA AcceptedIsReadable ==
    ASSUME GInv, PInv, pc = "ok"
    PROVE  Readable /\ out = Meaning
<1>1. /\ SoFar /\ Len(out) = Len(raws) /\ nodes = SumOf(RuleSizes)[Len(out)]
      /\ doc \in Documents /\ out \in Seq(Rules)
  BY DEF GInv, GTypeOK
<1>2. Len(raws) \in Nat /\ DOMAIN raws = 1 .. Len(raws)
  BY <1>1, RawsSpec
<1>3. Plus(RuleSizes) <= MaxNodes
  <2>1. nodes \in Nat /\ nodes <= MaxNodes + 1 /\ nodes # MaxNodes + 1
    BY DEF PInv, WorkIsBounded
  <2>2. nodes <= MaxNodes
    BY <2>1, ParserAssumption
  <2> QED BY <1>1, <2>2, RuleSizesSpec
<1>4. Readable
  <2>1. \A k \in DOMAIN raws : /\ raws[k].name # ""
                               /\ raws[k].effect \in {"allow", "deny"}
                               /\ IsNode[raws[k].when]
                               /\ Height[raws[k].when] <= MaxDepth
    BY <1>1, <1>2 DEF SoFar, Named
  <2> QED BY <1>1, <1>3, <2>1 DEF SoFar, Readable, RuleSizes
<1>5. out = Meaning
  <2>1. out \in [1 .. Len(out) -> Rules]
    BY <1>1, LenProperties
  <2>2. DOMAIN Meaning = 1 .. Len(out) /\ Meaning = [k \in DOMAIN Meaning |-> Meaning[k]]
    BY <1>1, <1>2 DEF Meaning
  <2>3. \A k \in 1 .. Len(out) : out[k] = Meaning[k]
    BY <1>1 DEF SoFar
  <2> QED BY <2>1, <2>2, <2>3
<1> QED BY <1>4, <1>5

\* engine.go, parsePolicy: of all documents, however deep their nesting, and for all
\* limits, those of the documented language within the limits are accepted; what is
\* accepted can be read as a policy within the limits, and its rules are then the trees
\* its conditions spell.
THEOREM ParserAcceptsLanguage == Spec => []AcceptsLanguage
<1>1. InLanguage => Readable
  BY DEF InLanguage
<1>2. PInv /\ GInv => AcceptsLanguage
  BY <1>1, AcceptedIsReadable DEF AcceptsLanguage, GInv
<1> QED BY PInitInv, PStepInv, GInit, GStep, <1>2, PTL DEF Spec

-----------------------------------------------------------------------------
(* What the engine serves. *)

\* A policy that may be installed, and its rules.
Sound(rs) == \A k \in DOMAIN rs : /\ rs[k].effect \in {"allow", "deny"}
                                  /\ IsNode[rs[k].when]
RulesOf(rs) == [k \in DOMAIN rs |-> [id |-> k - 1, name |-> rs[k].name,
                                     effect |-> rs[k].effect, cond |-> TreeOf[rs[k].when]]]

\* The snapshot is a document's own rules, and the last decision is the snapshot's.
Served == serving # NoPolicy =>
    /\ serving.doc \in Documents /\ Sound(asSlice(serving.doc.body))
    /\ serving.rules = RulesOf(asSlice(serving.doc.body))
Decided == decision # NoDecision =>
    \E q \in Queries, s \in Strategies :
        decision = [query |-> q, strategy |-> s, verdict |-> Verdict(q, s)]

\* The last rule that is parsed makes the policy whole.
LEMMA AcceptedNext == (GInv /\ PInv /\ pc = "ok")' => (Readable /\ out = Meaning)'
<1>1. GInv /\ PInv /\ pc = "ok" => Readable /\ out = Meaning
  BY AcceptedIsReadable
<1> QED BY <1>1, PTL

\* A load starts like the first parse.
LEMMA StartsNext == Init' => PInv' /\ GInv'
<1>1. Init => PInv /\ GInv
  BY PInitInv, GInit
<1> QED BY <1>1, PTL

LEMMA LoadStarts ==
    ASSUME NEW d \in Documents, Load(d)
    PROVE  PInv' /\ GInv'
<1>1. Init'
  BY DEF Load, Init
<1> QED BY <1>1, StartsNext

\* A step of a parse is about one document.
LEMMA StepKeepsDoc == Step => doc' = doc
BY DEF Step, Open, StartRule, Finish, ParseLeaf, ParseOperator, RefuseNode, NextOperand, Build,
       ReturnOperand, EndRule, Fail

\* What a load installs.
LEMMA Installs ==
    ASSUME PInv, GInv, Install
    PROVE  /\ Readable /\ serving' = [doc |-> doc, rules |-> Meaning]
           /\ PInv' /\ GInv'
<1>1. Step /\ pc' = "ok" /\ serving' = [doc |-> doc, rules |-> out']
  BY DEF Install
<1>2. PInv' /\ GInv'
  BY <1>1, PStepInv, GStep
<1>3. Readable' /\ out' = Meaning'
  BY <1>1, <1>2, AcceptedNext
<1>4. (Readable' <=> Readable) /\ Meaning' = Meaning
  BY <1>1, StepKeepsDoc, DocKept
<1> QED BY <1>1, <1>2, <1>3, <1>4

LEMMA ServedNext ==
    ASSUME PInv, GInv, Served, [ENext]_evars
    PROVE  PInv' /\ GInv' /\ Served'
<1>1. CASE ParseStep
  <2>1. Step /\ serving' = serving
    BY <1>1 DEF ParseStep
  <2> QED BY <2>1, PStepInv, GStep DEF Served
<1>2. CASE Install
  <2>1. /\ Readable /\ serving' = [doc |-> doc, rules |-> Meaning]
        /\ PInv' /\ GInv'
    BY <1>2, Installs
  <2>2. doc \in Documents
    BY DEF GInv, GTypeOK
  <2>3. Sound(raws) /\ Meaning = RulesOf(raws)
    BY <2>1 DEF Readable, Sound, Meaning, RulesOf
  <2>4. serving'.doc = doc /\ serving'.rules = Meaning
    BY <2>1
  <2>5. raws = asSlice(serving'.doc.body)
    BY <2>4 DEF raws
  <2> QED BY <2>1, <2>2, <2>3, <2>4, <2>5 DEF Served
<1>3. ASSUME NEW d \in Documents, Load(d)
      PROVE  PInv' /\ GInv' /\ Served'
  <2>1. serving' = serving
    BY <1>3 DEF Load
  <2> QED BY <1>3, <2>1, LoadStarts DEF Served
<1>4. CASE UNCHANGED <<vars, serving>>
  <2>1. UNCHANGED vars /\ serving' = serving
    BY <1>4
  <2> QED BY <2>1, PStepInv, GStep DEF Served
<1> QED BY <1>1, <1>2, <1>3, <1>4 DEF ENext, Decide, evars

LEMMA DecidedNext ==
    ASSUME Decided, [ENext]_evars
    PROVE  Decided'
<1>1. CASE decision' = NoDecision
  BY <1>1 DEF Decided
<1>2. ASSUME NEW q \in Queries, NEW s \in Strategies, Decide(q, s)
      PROVE  Decided'
  <2>1. decision' = [query |-> q, strategy |-> s, verdict |-> Verdict(q, s)] /\ serving' = serving
    BY <1>2 DEF Decide
  <2>2. Verdict(q, s)' = Verdict(q, s)
    BY <2>1 DEF Verdict
  <2> QED BY <2>1, <2>2 DEF Decided
<1>3. CASE UNCHANGED evars
  <2>1. decision' = decision /\ serving' = serving
    BY <1>3 DEF evars
  <2>2. \A q, s : Verdict(q, s)' = Verdict(q, s)
    BY <2>1 DEF Verdict
  <2> QED BY <2>1, <2>2 DEF Decided
<1> QED BY <1>1, <1>2, <1>3 DEF ENext, ParseStep, Install, Load

EInv == PInv /\ GInv /\ Served /\ Decided

LEMMA EngineInv == ESpec => []EInv
<1>1. EInit => EInv
  BY PInitInv, GInit DEF EInit, EInv, Served, Decided
<1>2. EInv /\ [ENext]_evars => EInv'
  BY ServedNext, DecidedNext DEF EInv
<1> QED BY <1>1, <1>2, PTL DEF ESpec

\* snapshot.go, Load: whatever the documents and the limits, what a load installs is in
\* the policy language, whole and within every limit, and the rules are that document's.
THEOREM EngineInstallsOnlyGood == ESpec => OnlyGoodInstalled
<1>1. EInv /\ [ENext]_evars =>
        [serving' # serving => Readable /\ serving' = [doc |-> doc, rules |-> Meaning]]_evars
  BY Installs DEF EInv, ENext, ParseStep, Load, Decide, evars
<1> QED BY EngineInv, <1>1, PTL DEF ESpec, OnlyGoodInstalled

-----------------------------------------------------------------------------
(* What the text of a condition means. *)

wellNode(j, f, e) ==
    /\ ~IsValueKey(KeyOf(j))
    /\ \A k \in DOMAIN OperandsOf(j) :
          IF KeyOf(j) \in {"eq", "ne"} THEN IsValueKey(KeyOf(OperandsOf(j)[k]))
                                       ELSE f[OperandsOf(j)[k]]
Well == INSTANCE TreeRecursion
          WITH Nodes <- Values, height <- nesting, Below <- Under, Step <- wellNode
Mean == INSTANCE TreeRecursion
          WITH Nodes <- Conditions, height <- [v \in Conditions |-> nesting[v]],
               Below <- Under, Step <- truthNode

LEMMA WellWrittenUnfolds ==
    ASSUME NEW j \in Values
    PROVE  WellWritten[j] <=>
              /\ ~IsValueKey(KeyOf(j))
              /\ \A k \in DOMAIN OperandsOf(j) :
                    IF KeyOf(j) \in {"eq", "ne"} THEN IsValueKey(KeyOf(OperandsOf(j)[k]))
                                                 ELSE WellWritten[OperandsOf(j)[k]]
<1>1. Well!Founded
  BY ValuesFounded DEF Lang!Founded, Well!Founded
<1>2. Well!Local
  BY DEF Well!Local, Under, wellNode
<1>3. \A e : \E f : f = [v \in Values |-> wellNode(v, f, e)]
  BY <1>1, <1>2, Well!TreeRecursive
<1>4. WellWritten = [v \in Values |-> wellNode(v, WellWritten, 0)]
  BY <1>3 DEF WellWritten, wellNode
<1>5. WellWritten[j] = wellNode(j, WellWritten, 0)
  BY <1>4
<1> QED BY <1>5 DEF wellNode

\* The operands of a condition are conditions; a "not" has one.
LEMMA OperandsOfNode ==
    ASSUME NEW j \in Values, IsNode[j]
    PROVE  /\ KeyOf(j) \in {"attr", "lit", "eq", "ne", "all", "any", "not"}
           /\ \A k \in DOMAIN OperandsOf(j) : /\ OperandsOf(j)[k] \in Values
                                              /\ IsNode[OperandsOf(j)[k]]
                                              /\ OperandsOf(j)[k] \in Under(j)
           /\ KeyOf(j) = "not" => /\ OperandsOf(j) = <<ValueOf(j)>> /\ ValueOf(j) = OperandsOf(j)[1]
                                  /\ DOMAIN OperandsOf(j) = 1 .. 1 /\ Len(OperandsOf(j)) = 1
           /\ KeyOf(j) \in {"eq", "ne"} => 1 \in DOMAIN OperandsOf(j) /\ 2 \in DOMAIN OperandsOf(j)
                                           /\ DOMAIN OperandsOf(j) = 1 .. 2
           /\ KeyOf(j) \in {"all", "any"} => 1 \in DOMAIN OperandsOf(j)
<1>1. OneKey(j) /\ Fits(j) /\ \A k \in DOMAIN OperandsOf(j) : IsNode[OperandsOf(j)[k]]
  BY IsNodeUnfolds
<1>2. KeyOf(j) \in {"attr", "lit", "eq", "ne", "all", "any", "not"}
  BY <1>1 DEF Fits
<1>3. \A k \in DOMAIN OperandsOf(j) : OperandsOf(j)[k] \in Values /\ OperandsOf(j)[k] \in Under(j)
  BY OperandsSpec DEF Under
<1>4. ASSUME KeyOf(j) = "not"
      PROVE  /\ OperandsOf(j) = <<ValueOf(j)>> /\ ValueOf(j) = OperandsOf(j)[1]
             /\ DOMAIN OperandsOf(j) = 1 .. 1 /\ Len(OperandsOf(j)) = 1
  <2>1. OperandsOf(j) = <<ValueOf(j)>>
    BY <1>1, <1>4 DEF OperandsOf
  <2> QED BY <2>1
<1>5. Len(OperandsOf(j)) \in Nat /\ DOMAIN OperandsOf(j) = 1 .. Len(OperandsOf(j))
  BY OperandsSpec
<1>6. KeyOf(j) \in {"eq", "ne"} => Len(OperandsOf(j)) = 2
  BY <1>1 DEF Fits
<1>7. KeyOf(j) \in {"all", "any"} => Len(OperandsOf(j)) >= 1
  BY <1>1 DEF Fits
<1> QED BY <1>1, <1>2, <1>3, <1>4, <1>5, <1>6, <1>7

LEMMA TruthUnfolds ==
    ASSUME NEW j \in Values, IsNode[j], NEW e
    PROVE  Truth(j, e) = truthNode(j, TruthOf(e), e)
<1> DEFINE high == [v \in Conditions |-> nesting[v]]
<1>1. Mean!Founded
  <2>1. \A v \in Conditions : nesting[v] \in Nat /\ high[v] = nesting[v]
    BY JsonAssumption DEF Conditions
  <2>2. high \in [Conditions -> Nat]
    BY <2>1
  <2>3. ASSUME NEW v \in Conditions, NEW u \in Under(v)
        PROVE  u \in Conditions /\ high[u] < high[v]
    <3>1. PICK k \in DOMAIN OperandsOf(v) : u = OperandsOf(v)[k]
      BY DEF Under
    <3>2. v \in Values /\ IsNode[v]
      BY DEF Conditions
    <3>3. u \in Values /\ IsNode[u] /\ nesting[u] < nesting[v]
      BY <3>1, <3>2, OperandsOfNode, OperandsSpec
    <3> QED BY <2>1, <3>3 DEF Conditions
  <2> QED BY <2>2, <2>3 DEF Mean!Founded
<1>2. Mean!Local
  <2> SUFFICES ASSUME NEW v \in Conditions, NEW f, NEW g, NEW x,
                      \A u \in Under(v) : f[u] = g[u]
               PROVE  truthNode(v, f, x) = truthNode(v, g, x)
    BY DEF Mean!Local
  <2>1. {f[OperandsOf(v)[k]] : k \in DOMAIN OperandsOf(v)}
          = {g[OperandsOf(v)[k]] : k \in DOMAIN OperandsOf(v)}
    BY DEF Under
  <2>2. KeyOf(v) = "not" => f[OperandsOf(v)[1]] = g[OperandsOf(v)[1]]
    <3>1. v \in Values /\ IsNode[v]
      BY DEF Conditions
    <3>2. KeyOf(v) = "not" => 1 \in DOMAIN OperandsOf(v)
      BY <3>1, OperandsOfNode
    <3> QED BY <3>2 DEF Under
  <2> QED BY <2>1, <2>2 DEF truthNode
<1>3. \A x : \E f : f = [v \in Conditions |-> truthNode(v, f, x)]
  BY <1>1, <1>2, Mean!TreeRecursive
<1>4. TruthOf(e) = [v \in Conditions |-> truthNode(v, TruthOf(e), e)]
  BY <1>3 DEF TruthOf
<1> QED BY <1>4 DEF Truth, Conditions

-----------------------------------------------------------------------------
(* The tree of a condition means what its text does. *)

\* What parseNode makes of a condition.
LEMMA TreeShape ==
    ASSUME NEW j \in Values, IsNode[j]
    PROVE  /\ TreeOf[j] \in Nodes
           /\ KeyOf(j) = "attr" => TreeOf[j] = attr(asString(ValueOf(j)))
           /\ KeyOf(j) = "lit" => TreeOf[j] = lit(asString(ValueOf(j)))
           /\ KeyOf(j) \in {"eq", "ne"} =>
                 /\ TreeOf[j].kind = "cmp" /\ (TreeOf[j].op = "==" <=> KeyOf(j) = "eq")
                 /\ TreeOf[j].left = TreeOf[OperandsOf(j)[1]]
                 /\ TreeOf[j].right = TreeOf[OperandsOf(j)[2]]
           /\ KeyOf(j) \in {"all", "any", "not"} =>
                 /\ TreeOf[j].kind = "bool"
                 /\ KeyOf(j) = "all" => TreeOf[j].op = "and"
                 /\ KeyOf(j) = "any" => TreeOf[j].op = "or"
                 /\ KeyOf(j) = "not" => TreeOf[j].op = "not"
                 /\ DOMAIN TreeOf[j].kids = DOMAIN OperandsOf(j)
                 /\ \A k \in DOMAIN OperandsOf(j) : TreeOf[j].kids[k] = TreeOf[OperandsOf(j)[k]]
<1> DEFINE made1 == [k \in DOMAIN OperandsOf(j) |-> TreeOf[OperandsOf(j)[k]]]
<1>1. TreeOf[j] = treeNode(j, TreeOf)
  BY TreeUnfolds
<1>2. TreeOf[j] \in Nodes
  BY EngineAssumption
<1>3. KeyOf(j) \in {"attr", "lit"} =>
         TreeOf[j] = IF KeyOf(j) = "attr" THEN attr(asString(ValueOf(j))) ELSE lit(asString(ValueOf(j)))
  BY <1>1 DEF treeNode
<1>4. KeyOf(j) \notin {"attr", "lit"} => TreeOf[j] = build(KeyOf(j), made1)
  BY <1>1 DEF treeNode
<1>5. /\ DOMAIN made1 = DOMAIN OperandsOf(j)
      /\ \A k \in DOMAIN OperandsOf(j) : made1[k] = TreeOf[OperandsOf(j)[k]]
  OBVIOUS
<1> HIDE DEF made1
<1>6. ASSUME KeyOf(j) \in {"eq", "ne"}
      PROVE  /\ TreeOf[j].kind = "cmp" /\ (TreeOf[j].op = "==" <=> KeyOf(j) = "eq")
             /\ TreeOf[j].left = made1[1] /\ TreeOf[j].right = made1[2]
  <2>1. CASE KeyOf(j) = "eq"
    <3>1. TreeOf[j] = [kind |-> "cmp", op |-> "==", left |-> made1[1], right |-> made1[2]]
      BY <1>4, <2>1 DEF build, eq
    <3> QED BY <2>1, <3>1
  <2>2. CASE KeyOf(j) = "ne"
    <3>1. TreeOf[j] = [kind |-> "cmp", op |-> "!=", left |-> made1[1], right |-> made1[2]]
      BY <1>4, <2>2 DEF build, ne
    <3> QED BY <2>2, <3>1
  <2> QED BY <1>6, <2>1, <2>2
<1>7. ASSUME KeyOf(j) \in {"all", "any"}
      PROVE  /\ TreeOf[j].kind = "bool" /\ TreeOf[j].kids = made1
             /\ KeyOf(j) = "all" => TreeOf[j].op = "and"
             /\ KeyOf(j) = "any" => TreeOf[j].op = "or"
  <2>1. CASE KeyOf(j) = "all"
    <3>1. TreeOf[j] = [kind |-> "bool", op |-> "and", kids |-> made1]
      BY <1>4, <2>1 DEF build, and
    <3> QED BY <2>1, <3>1
  <2>2. CASE KeyOf(j) = "any"
    <3>1. TreeOf[j] = [kind |-> "bool", op |-> "or", kids |-> made1]
      BY <1>4, <2>2 DEF build, or
    <3> QED BY <2>2, <3>1
  <2> QED BY <1>7, <2>1, <2>2
<1>8. ASSUME KeyOf(j) = "not"
      PROVE  /\ TreeOf[j].kind = "bool" /\ TreeOf[j].op = "not"
             /\ TreeOf[j].kids = <<made1[1]>>
  <2>1. TreeOf[j] = [kind |-> "bool", op |-> "not", kids |-> <<made1[1]>>]
    BY <1>4, <1>8 DEF build, not
  <2> QED BY <2>1
<1>9. ASSUME KeyOf(j) = "not"
      PROVE  /\ DOMAIN TreeOf[j].kids = DOMAIN OperandsOf(j)
             /\ \A k \in DOMAIN OperandsOf(j) : TreeOf[j].kids[k] = made1[k]
  <2>1. DOMAIN OperandsOf(j) = 1 .. 1
    BY <1>9, OperandsOfNode
  <2> QED BY <1>8, <1>9, <2>1
<1>10. KeyOf(j) \in {"eq", "ne"} => 1 \in DOMAIN OperandsOf(j) /\ 2 \in DOMAIN OperandsOf(j)
  BY OperandsOfNode
<1> QED BY <1>2, <1>3, <1>5, <1>6, <1>7, <1>8, <1>9, <1>10

\* Value nodes are the trees of attributes and literals, and resolve to the same.
LEMMA ValueShape ==
    ASSUME NEW j \in Values, IsNode[j]
    PROVE  /\ IsValue(TreeOf[j]) <=> IsValueKey(KeyOf(j))
           /\ IsValueKey(KeyOf(j)) => \A e : evalValue(TreeOf[j], e) = ResolvedTo(j, e)
<1>1. CASE KeyOf(j) = "attr"
  <2>1. TreeOf[j] = [kind |-> "attr", name |-> asString(ValueOf(j))]
    BY <1>1, TreeShape DEF attr
  <2> QED BY <1>1, <2>1 DEF IsValue, IsValueKey, evalValue, ResolvedTo
<1>2. CASE KeyOf(j) = "lit"
  <2>1. TreeOf[j] = [kind |-> "lit", value |-> asString(ValueOf(j))]
    BY <1>2, TreeShape DEF lit
  <2> QED BY <1>2, <2>1 DEF IsValue, IsValueKey, evalValue, ResolvedTo
<1>3. CASE KeyOf(j) \notin {"attr", "lit"}
  <2>1. TreeOf[j].kind \in {"cmp", "bool"}
    BY <1>3, OperandsOfNode, TreeShape
  <2> QED BY <1>3, <2>1 DEF IsValue, IsValueKey
<1> QED BY <1>1, <1>2, <1>3

\* A comparison that is well written compares values.
LEMMA WellWrittenComparison ==
    ASSUME NEW j \in Values, IsNode[j], WellWritten[j], KeyOf(j) \in {"eq", "ne"}
    PROVE  /\ IsValue(TreeOf[j].left) /\ IsValue(TreeOf[j].right)
           /\ \A e : /\ evalValue(TreeOf[j].left, e) = ResolvedTo(OperandsOf(j)[1], e)
                     /\ evalValue(TreeOf[j].right, e) = ResolvedTo(OperandsOf(j)[2], e)
<1>1. 1 \in DOMAIN OperandsOf(j) /\ 2 \in DOMAIN OperandsOf(j)
  BY OperandsOfNode
<1>2. \A k \in DOMAIN OperandsOf(j) : IsValueKey(KeyOf(OperandsOf(j)[k]))
  BY WellWrittenUnfolds
<1>3. \A k \in DOMAIN OperandsOf(j) : OperandsOf(j)[k] \in Values /\ IsNode[OperandsOf(j)[k]]
  BY OperandsOfNode
<1>4. \A k \in DOMAIN OperandsOf(j) :
         /\ IsValue(TreeOf[OperandsOf(j)[k]])
         /\ \A e : evalValue(TreeOf[OperandsOf(j)[k]], e) = ResolvedTo(OperandsOf(j)[k], e)
  BY <1>2, <1>3, ValueShape
<1>5. TreeOf[j].left = TreeOf[OperandsOf(j)[1]] /\ TreeOf[j].right = TreeOf[OperandsOf(j)[2]]
  BY TreeShape
<1> QED BY <1>1, <1>4, <1>5

\* A connective that is well written combines well written conditions.
LEMMA WellWrittenConnective ==
    ASSUME NEW j \in Values, IsNode[j], WellWritten[j], KeyOf(j) \notin {"eq", "ne"}
    PROVE  /\ KeyOf(j) \in {"all", "any", "not"}
           /\ \A k \in DOMAIN OperandsOf(j) : /\ OperandsOf(j)[k] \in Values
                                              /\ IsNode[OperandsOf(j)[k]]
                                              /\ WellWritten[OperandsOf(j)[k]]
BY OperandsOfNode, WellWrittenUnfolds DEF IsValueKey

\* Where values stand under comparisons in the text, they do in the tree.
LEMMA WellWrittenIsWellKinded ==
    \A j \in Values : IsNode[j] /\ WellWritten[j] => WellKinded[TreeOf[j]]
<1> DEFINE S == {j \in Values : IsNode[j] /\ WellWritten[j] => WellKinded[TreeOf[j]]}
<1>1. ASSUME NEW j \in Values, \A k \in DOMAIN OperandsOf(j) : OperandsOf(j)[k] \in S
      PROVE  j \in S
  <2> SUFFICES ASSUME IsNode[j], WellWritten[j] PROVE WellKinded[TreeOf[j]]
    OBVIOUS
  <2>1. CASE KeyOf(j) \in {"eq", "ne"}
    <3>1. IsValue(TreeOf[j].left) /\ IsValue(TreeOf[j].right)
      BY <2>1, WellWrittenComparison
    <3>2. TreeOf[j] \in Nodes /\ TreeOf[j].kind = "cmp"
      BY <2>1, TreeShape
    <3> QED BY <3>1, <3>2, KindedUnfolds
  <2>2. CASE KeyOf(j) \notin {"eq", "ne"}
    <3>1. KeyOf(j) \in {"all", "any", "not"}
      BY <2>2, WellWrittenConnective
    <3>2. /\ TreeOf[j] \in Nodes /\ TreeOf[j].kind = "bool"
          /\ DOMAIN TreeOf[j].kids = DOMAIN OperandsOf(j)
          /\ \A k \in DOMAIN OperandsOf(j) : TreeOf[j].kids[k] = TreeOf[OperandsOf(j)[k]]
      BY <3>1, TreeShape
    <3>3. \A k \in DOMAIN OperandsOf(j) : WellKinded[TreeOf[OperandsOf(j)[k]]]
      BY <1>1, <2>2, WellWrittenConnective
    <3>4. \A k \in DOMAIN TreeOf[j].kids : WellKinded[TreeOf[j].kids[k]]
      BY <3>2, <3>3
    <3> QED BY <3>2, <3>4, KindedUnfolds
  <2> QED BY <2>1, <2>2
<1> HIDE DEF S
<1>2. Values \subseteq S
  BY <1>1, ValueInduction
<1> QED BY <1>2 DEF S

\* The truth value of the text is the one of the tree.
LEMMA TruthIsRank ==
    ASSUME NEW e
    PROVE  \A j \in Values : IsNode[j] /\ WellWritten[j] => Truth(j, e) = Rank(TreeOf[j], e)
<1> DEFINE S == {j \in Values : IsNode[j] /\ WellWritten[j] => Truth(j, e) = Rank(TreeOf[j], e)}
<1>1. ASSUME NEW j \in Values, \A k \in DOMAIN OperandsOf(j) : OperandsOf(j)[k] \in S
      PROVE  j \in S
  <2> SUFFICES ASSUME IsNode[j], WellWritten[j] PROVE Truth(j, e) = Rank(TreeOf[j], e)
    OBVIOUS
  <2>1. Truth(j, e) = truthNode(j, TruthOf(e), e)
    BY TruthUnfolds
  <2>2. TreeOf[j] \in Nodes
    BY TreeShape
  <2>3. CASE KeyOf(j) \in {"eq", "ne"}
    <3> DEFINE l == ResolvedTo(OperandsOf(j)[1], e)
               r == ResolvedTo(OperandsOf(j)[2], e)
    <3>1. evalValue(TreeOf[j].left, e) = l /\ evalValue(TreeOf[j].right, e) = r
      BY <2>3, WellWrittenComparison
    <3>2. TreeOf[j].kind = "cmp" /\ (TreeOf[j].op = "==" <=> KeyOf(j) = "eq")
      BY <2>3, TreeShape
    <3>3. Rank(TreeOf[j], e) =
             LET a == evalValue(TreeOf[j].left, e)
                 b == evalValue(TreeOf[j].right, e)
             IN IF ~(a.present /\ b.present) THEN 2
                ELSE IF (a.value = b.value) <=> TreeOf[j].op = "==" THEN 3 ELSE 1
      BY <2>2, <3>2, RankAt
    <3>4. Truth(j, e) = IF ~l.present \/ ~r.present THEN 2
                        ELSE IF (l.value = r.value) <=> KeyOf(j) = "eq" THEN 3 ELSE 1
      BY <2>1, <2>3 DEF truthNode
    <3> HIDE DEF l, r
    <3> QED BY <3>1, <3>2, <3>3, <3>4
  <2>4. CASE KeyOf(j) \notin {"eq", "ne"}
    <3>1. KeyOf(j) \in {"all", "any", "not"}
      BY <2>4, WellWrittenConnective
    <3>2. /\ TreeOf[j].kind = "bool"
          /\ KeyOf(j) = "all" => TreeOf[j].op = "and"
          /\ KeyOf(j) = "any" => TreeOf[j].op = "or"
          /\ KeyOf(j) = "not" => TreeOf[j].op = "not"
          /\ DOMAIN TreeOf[j].kids = DOMAIN OperandsOf(j)
          /\ \A k \in DOMAIN OperandsOf(j) : TreeOf[j].kids[k] = TreeOf[OperandsOf(j)[k]]
      BY <3>1, TreeShape
    <3>3. \A k \in DOMAIN OperandsOf(j) :
             TruthOf(e)[OperandsOf(j)[k]] = Rank(TreeOf[j].kids[k], e)
      <4>1. \A k \in DOMAIN OperandsOf(j) :
               Truth(OperandsOf(j)[k], e) = Rank(TreeOf[OperandsOf(j)[k]], e)
        BY <1>1, <2>4, WellWrittenConnective
      <4> QED BY <3>2, <4>1 DEF Truth
    <3>4. {TruthOf(e)[OperandsOf(j)[k]] : k \in DOMAIN OperandsOf(j)}
            = {Rank(TreeOf[j].kids[k], e) : k \in DOMAIN TreeOf[j].kids}
      BY <3>2, <3>3
    <3>5. KeyOf(j) = "not" => TruthOf(e)[OperandsOf(j)[1]] = Rank(TreeOf[j].kids[1], e)
      <4>1. KeyOf(j) = "not" => 1 \in DOMAIN OperandsOf(j)
        BY OperandsOfNode
      <4> QED BY <3>3, <4>1
    <3>6. CASE KeyOf(j) = "all"
      <4>1. Truth(j, e) = Min({TruthOf(e)[OperandsOf(j)[k]] : k \in DOMAIN OperandsOf(j)})
        BY <2>1, <3>6 DEF truthNode
      <4>2. Rank(TreeOf[j], e) = Min({Rank(TreeOf[j].kids[k], e) : k \in DOMAIN TreeOf[j].kids})
        BY <2>2, <3>2, <3>6, RankAt
      <4> QED BY <3>4, <4>1, <4>2
    <3>7. CASE KeyOf(j) = "any"
      <4>1. Truth(j, e) = Max({TruthOf(e)[OperandsOf(j)[k]] : k \in DOMAIN OperandsOf(j)})
        BY <2>1, <3>7 DEF truthNode
      <4>2. Rank(TreeOf[j], e) = Max({Rank(TreeOf[j].kids[k], e) : k \in DOMAIN TreeOf[j].kids})
        BY <2>2, <3>2, <3>7, RankAt
      <4> QED BY <3>4, <4>1, <4>2
    <3>8. CASE KeyOf(j) = "not"
      <4>1. Truth(j, e) = 4 - TruthOf(e)[OperandsOf(j)[1]]
        BY <2>1, <3>8 DEF truthNode
      <4>2. Rank(TreeOf[j], e) = 4 - Rank(TreeOf[j].kids[1], e)
        BY <2>2, <3>2, <3>8, RankAt
      <4> QED BY <3>5, <3>8, <4>1, <4>2
    <3> QED BY <3>1, <3>6, <3>7, <3>8
  <2> QED BY <2>3, <2>4
<1> HIDE DEF S
<1>2. Values \subseteq S
  BY <1>1, ValueInduction
<1> QED BY <1>2 DEF S

-----------------------------------------------------------------------------
(* A decision, from the matches of the rules. *)

\* matches finds the first grant that satisfies; no grant makes it panic.
LEMMA MatchesSpec ==
    ASSUME NEW n \in Nodes, WellKinded[n], NEW q \in Queries
    PROVE  /\ matches(n, q) # "panic"
           /\ matches(n, q) = "true" <=> \E k \in DOMAIN q.grants : Rank(n, Env(q, k)) = 3
<1> DEFINE results == [k \in DOMAIN q.grants |-> evalTri(n, Env(q, k))]
           ends == {k \in DOMAIN results : results[k] \in {"true", "panic"}}
<1>1. \A k \in DOMAIN q.grants : /\ evalTri(n, Env(q, k)) # "panic"
                                 /\ evalTri(n, Env(q, k)) = "true" <=> Rank(n, Env(q, k)) = 3
  BY EvalIsKleene DEF KleeneAt
<1>2. DOMAIN results = DOMAIN q.grants /\ \A k \in DOMAIN q.grants : results[k] = evalTri(n, Env(q, k))
  OBVIOUS
<1>3. matches(n, q) = IF ends = {} THEN "false" ELSE results[Min(ends)]
  BY DEF matches
<1>4. ends \in SUBSET Nat
  BY EngineAssumption
<1> HIDE DEF results
<1>5. ends = {k \in DOMAIN q.grants : Rank(n, Env(q, k)) = 3}
  BY <1>1, <1>2
<1>6. ends # {} => Min(ends) \in ends
  <2> HIDE DEF ends
  <2> QED BY <1>4, MinSpec
<1>7. CASE ends = {}
  BY <1>3, <1>5, <1>7
<1>8. CASE ends # {}
  <2>1. Min(ends) \in DOMAIN q.grants /\ results[Min(ends)] = "true"
    BY <1>1, <1>2, <1>6, <1>8
  <2> QED BY <1>3, <1>5, <1>8, <2>1
<1> QED BY <1>7, <1>8

foldNode(n, acc, x) ==
    IF n = 0 THEN DefaultDeny
    ELSE Combined(x[3], acc[n - 1], Ref(x[1][n]), Matches(x[1], x[2])[n] = "true")
Fold == INSTANCE TreeRecursion
          WITH Nodes <- Nat, height <- [n \in Nat |-> n], Below <- Before, Step <- foldNode

\* One rule more, folded.
FoldRule(rules, q, strategy, a, n) ==
    Combined(strategy, a, Ref(rules[n]), Matches(rules, q)[n] = "true")

LEMMA FoldingUnfolds ==
    ASSUME NEW rules, NEW q, NEW strategy
    PROVE  /\ Folding(rules, q, strategy)[0] = DefaultDeny
           /\ \A n \in Nat : Folding(rules, q, strategy)[n + 1] =
                 FoldRule(rules, q, strategy, Folding(rules, q, strategy)[n], n + 1)
<1> DEFINE x == <<rules, q, strategy>>
           F == Folding(rules, q, strategy)
<1>1. Fold!Founded
  BY DEF Fold!Founded, Before
<1>2. Fold!Local
  BY DEF Fold!Local, Before, foldNode
<1>3. \A e : \E f : f = [n \in Nat |-> foldNode(n, f, e)]
  BY <1>1, <1>2, Fold!TreeRecursive
<1>4. \E f : f = [n \in Nat |-> foldNode(n, f, x)]
  BY <1>3
<1>5. \A n, f : foldNode(n, f, x) =
        IF n = 0 THEN DefaultDeny
        ELSE Combined(strategy, f[n - 1], Ref(rules[n]), Matches(rules, q)[n] = "true")
  BY DEF foldNode
<1> HIDE DEF x
<1>6. \E f : f = [n \in Nat |->
                     IF n = 0 THEN DefaultDeny
                     ELSE Combined(strategy, f[n - 1], Ref(rules[n]), Matches(rules, q)[n] = "true")]
  BY <1>4, <1>5
<1>7. F = [n \in Nat |->
              IF n = 0 THEN DefaultDeny
              ELSE Combined(strategy, F[n - 1], Ref(rules[n]), Matches(rules, q)[n] = "true")]
  BY <1>6 DEF Folding
<1> HIDE DEF F
<1>8. F[0] = DefaultDeny
  BY <1>7
<1>9. ASSUME NEW n \in Nat
      PROVE  F[n + 1] = Combined(strategy, F[n], Ref(rules[n + 1]), Matches(rules, q)[n + 1] = "true")
  <2>1. n + 1 \in Nat /\ n + 1 # 0 /\ (n + 1) - 1 = n
    OBVIOUS
  <2>2. F[n + 1] = Combined(strategy, F[(n + 1) - 1], Ref(rules[n + 1]),
                            Matches(rules, q)[n + 1] = "true")
    BY <1>7, <2>1
  <2> QED BY <2>1, <2>2
<1> QED BY <1>8, <1>9 DEF F, FoldRule

\* One rule of the loop, whichever the strategy.
LEMMA CombinedSpec ==
    ASSUME NEW strategy \in Strategies, NEW a, NEW r, r.effect \in {"allow", "deny"},
           NEW matched \in BOOLEAN, NEW c, c = Combined(strategy, a, Ref(r), matched)
    PROVE  /\ a.locked \/ ~matched => c = a
           /\ ~a.locked /\ matched =>
                 /\ c.allow = (r.effect = "allow")
                 /\ c.locked = (strategy = "FirstMatch" \/ r.effect = "deny")
<1>1. Ref(r).effect = r.effect
  BY DEF Ref
<1> QED BY <1>1 DEF Combined, DenyOverrides, FirstMatch, Strategies

\* The first m rules, folded: hit are those that match.
FoldedTo(strategy, a, rules, hit, m) ==
    /\ a.locked <=> \E k \in 1 .. m : k \in hit
                        /\ (strategy = "FirstMatch" \/ rules[k].effect = "deny")
    /\ a.allow <=> \E k \in 1 .. m :
          /\ k \in hit /\ rules[k].effect = "allow"
          /\ strategy = "FirstMatch" => \A i \in 1 .. m : i \in hit => k <= i
          /\ strategy = "DenyOverrides" => \A i \in 1 .. m : i \in hit => rules[i].effect = "allow"
    /\ a.allow \in BOOLEAN /\ a.locked \in BOOLEAN

LEMMA FoldedNext ==
    ASSUME NEW strategy \in Strategies, NEW a, NEW c, NEW rules, NEW hit, NEW m \in Nat,
           FoldedTo(strategy, a, rules, hit, m),
           \A k \in 1 .. m + 1 : rules[k].effect \in {"allow", "deny"},
           c = Combined(strategy, a, Ref(rules[m + 1]), m + 1 \in hit)
    PROVE  FoldedTo(strategy, c, rules, hit, m + 1)
<1>1. /\ m + 1 \in 1 .. m + 1 /\ \A k \in 1 .. m : k \in 1 .. m + 1 /\ k <= m + 1 /\ k # m + 1
      /\ \A k \in 1 .. m + 1 : k \in 1 .. m \/ k = m + 1
      /\ \A k \in 1 .. m : ~(m + 1 <= k)
  OBVIOUS
<1>a. PICK r : r = rules[m + 1]
  OBVIOUS
<1>b. PICK matched \in BOOLEAN : matched <=> m + 1 \in hit
  <2>1. CASE m + 1 \in hit
    <3>1. TRUE \in BOOLEAN /\ (TRUE <=> m + 1 \in hit)
      BY <2>1
    <3> QED BY ONLY <3>1, Zenon
  <2>2. CASE ~(m + 1 \in hit)
    <3>1. FALSE \in BOOLEAN /\ (FALSE <=> m + 1 \in hit)
      BY <2>2
    <3> QED BY ONLY <3>1, Zenon
  <2> QED BY <2>1, <2>2
<1>2. r = rules[m + 1] /\ (matched <=> m + 1 \in hit)
  BY <1>a, <1>b
<1>3. strategy \in {"DenyOverrides", "FirstMatch"} /\ r.effect \in {"allow", "deny"}
  BY <1>1, <1>2 DEF Strategies
<1>4. c = Combined(strategy, a, Ref(r), matched)
  <2>1. (m + 1 \in hit) = matched
    BY <1>2
  <2> QED BY <1>2, <2>1
<1>5. /\ a.locked \/ ~matched => c = a
      /\ ~a.locked /\ matched =>
            /\ c.allow = (r.effect = "allow")
            /\ c.locked = (strategy = "FirstMatch" \/ r.effect = "deny")
  BY <1>3, <1>4, CombinedSpec
<1>6. \A k \in 1 .. m : k \in hit => rules[k].effect \in {"allow", "deny"}
  BY <1>1
<1>7. CASE ~matched
  BY <1>1, <1>2, <1>5, <1>7 DEF FoldedTo
<1>8. CASE matched /\ a.locked
  <2>1. CASE strategy = "FirstMatch"
    BY <1>1, <1>2, <1>5, <1>8, <2>1 DEF FoldedTo
  <2>2. CASE strategy = "DenyOverrides"
    BY <1>1, <1>2, <1>5, <1>8, <2>2 DEF FoldedTo
  <2> QED BY <1>3, <2>1, <2>2
<1>9. CASE matched /\ ~a.locked
  <2>1. \A k \in 1 .. m : k \in hit => strategy # "FirstMatch" /\ rules[k].effect = "allow"
    BY <1>6, <1>9 DEF FoldedTo
  <2>2. CASE strategy = "FirstMatch"
    <3>1. \A k \in 1 .. m + 1 : k \in hit <=> k = m + 1
      BY <1>1, <1>2, <1>9, <2>1, <2>2
    <3>2. c.locked = TRUE /\ c.allow = (r.effect = "allow")
      BY <1>5, <1>9, <2>2
    <3>3. c.locked <=> \E k \in 1 .. m + 1 : k \in hit
                         /\ (strategy = "FirstMatch" \/ rules[k].effect = "deny")
      BY <1>1, <2>2, <3>1, <3>2
    <3>4. m + 1 <= m + 1
      OBVIOUS
    <3>5. (\E k \in 1 .. m + 1 :
             /\ k \in hit /\ rules[k].effect = "allow"
             /\ \A i \in 1 .. m + 1 : i \in hit => k <= i) <=> r.effect = "allow"
      BY <1>1, <1>2, <3>1, <3>4
    <3> QED BY <2>2, <3>2, <3>3, <3>5 DEF FoldedTo
  <2>3. CASE strategy = "DenyOverrides"
    BY <1>1, <1>2, <1>3, <1>5, <1>9, <2>1, <2>3 DEF FoldedTo
  <2> QED BY <1>3, <2>2, <2>3
<1> QED BY <1>7, <1>8, <1>9

\* All the rules of a policy, folded.
LEMMA FoldedSpec ==
    ASSUME NEW rules, NEW m \in Nat, DOMAIN rules = 1 .. m,
           \A k \in 1 .. m : rules[k].effect \in {"allow", "deny"},
           NEW q, NEW strategy \in Strategies
    PROVE  FoldedTo(strategy, Folded(rules, q, strategy), rules,
                    {k \in 1 .. m : Matches(rules, q)[k] = "true"}, m)
<1> DEFINE F == Folding(rules, q, strategy)
           hit == {k \in 1 .. m : Matches(rules, q)[k] = "true"}
           S == {n \in Nat : n <= m => FoldedTo(strategy, F[n], rules, hit, n)}
<1>1. 0 \in S
  <2>1. F[0].allow = FALSE /\ F[0].locked = FALSE
    BY FoldingUnfolds DEF DefaultDeny
  <2>2. 1 .. 0 = {}
    OBVIOUS
  <2> HIDE DEF F, hit
  <2>3. FoldedTo(strategy, F[0], rules, hit, 0)
    BY <2>1, <2>2 DEF FoldedTo
  <2> QED BY <2>3
<1>2. ASSUME NEW n \in S
      PROVE  n + 1 \in S
  <2> SUFFICES ASSUME n + 1 <= m PROVE FoldedTo(strategy, F[n + 1], rules, hit, n + 1)
    OBVIOUS
  <2>1. n \in Nat /\ n <= m /\ n + 1 \in 1 .. m /\ \A k \in 1 .. n + 1 : k \in 1 .. m
    OBVIOUS
  <2>2. FoldedTo(strategy, F[n], rules, hit, n)
    BY <2>1
  <2>3. (n + 1 \in hit) <=> Matches(rules, q)[n + 1] = "true"
    BY <2>1
  <2>4. F[n + 1] = FoldRule(rules, q, strategy, F[n], n + 1)
    BY <2>1, FoldingUnfolds
  <2> HIDE DEF F, hit, S
  <2>5. (n + 1 \in hit) = (Matches(rules, q)[n + 1] = "true")
    BY <2>3
  <2>6. F[n + 1] = Combined(strategy, F[n], Ref(rules[n + 1]), n + 1 \in hit)
    BY <2>4, <2>5 DEF FoldRule
  <2>7. \A k \in 1 .. n + 1 : rules[k].effect \in {"allow", "deny"}
    BY <2>1
  <2> QED BY <2>1, <2>2, <2>6, <2>7, FoldedNext
<1>3. S \in SUBSET Nat
  OBVIOUS
<1>4. Len(rules) = m
  BY LenOf
<1> HIDE DEF S
<1>5. S = Nat
  BY <1>1, <1>2, <1>3, Eval!SetInduction
<1>6. FoldedTo(strategy, F[m], rules, hit, m)
  BY <1>5 DEF S
<1> QED BY <1>4, <1>6 DEF Folded

\* What a strategy is documented to allow is what its fold does.
LEMMA FoldedAllows ==
    ASSUME NEW strategy \in Strategies, NEW a, NEW rules, NEW m \in Nat, NEW hit \in SUBSET (1 .. m),
           FoldedTo(strategy, a, rules, hit, m)
    PROVE  a.allow <=> IF strategy = "DenyOverrides"
                       THEN hit # {} /\ \A k \in hit : rules[k].effect = "allow"
                       ELSE hit # {} /\ rules[Min(hit)].effect = "allow"
<1>1. hit # {} => Min(hit) \in hit /\ \A k \in hit : Min(hit) <= k
  <2>1. hit \in SUBSET Nat
    OBVIOUS
  <2> QED BY <2>1, MinSpec
<1>2. CASE strategy = "DenyOverrides"
  BY <1>2 DEF FoldedTo
<1>3. CASE strategy = "FirstMatch"
  <2>1. ASSUME NEW k \in hit, \A i \in 1 .. m : i \in hit => k <= i
        PROVE  k = Min(hit)
    <3>1. Min(hit) \in hit /\ Min(hit) <= k
      BY <1>1
    <3>2. Min(hit) \in 1 .. m /\ k \in 1 .. m
      BY <3>1
    <3>3. k <= Min(hit)
      BY <2>1, <3>1, <3>2
    <3>4. PICK x \in Nat, y \in Nat : x = k /\ y = Min(hit)
      BY <3>2
    <3>5. x <= y /\ y <= x
      BY <3>1, <3>3, <3>4
    <3>6. x = y
      BY <3>5
    <3> QED BY <3>4, <3>6
  <2>2. a.allow => hit # {} /\ rules[Min(hit)].effect = "allow"
    BY <1>3, <2>1 DEF FoldedTo
  <2>3. ASSUME hit # {}, rules[Min(hit)].effect = "allow"
        PROVE  a.allow
    <3>1. Min(hit) \in 1 .. m /\ Min(hit) \in hit /\ \A i \in 1 .. m : i \in hit => Min(hit) <= i
      BY <1>1, <2>3
    <3> QED BY <1>3, <2>3, <3>1 DEF FoldedTo
  <2> QED BY <1>3, <2>2, <2>3
<1> QED BY <1>2, <1>3 DEF Strategies

\* The rules of a policy whose values stand under comparisons: none panics, each matches
\* when its text applies, and together they allow what the text does.
LEMMA RulesMeanTheText ==
    ASSUME NEW rs, NEW m \in Nat, DOMAIN rs = 1 .. m, Sound(rs), WellWrittenPolicy(rs),
           \A k \in 1 .. m : rs[k].when \in Values,
           NEW q \in Queries, NEW strategy \in Strategies
    PROVE  /\ \A k \in 1 .. m : Matches(RulesOf(rs), q)[k] # "panic"
           /\ Folded(RulesOf(rs), q, strategy).allow <=> Allows(rs, q, strategy)
<1> DEFINE R == RulesOf(rs)
           hit == {k \in 1 .. m : Matches(R, q)[k] = "true"}
           hits == {k \in DOMAIN rs : Applies(rs[k], q)}
<1>1. /\ DOMAIN R = 1 .. m
      /\ \A k \in 1 .. m : R[k].effect = rs[k].effect /\ R[k].cond = TreeOf[rs[k].when]
  BY DEF RulesOf
<1>2. \A k \in 1 .. m : R[k].effect \in {"allow", "deny"}
  BY <1>1 DEF Sound
<1> HIDE DEF R
<1>3. ASSUME NEW k \in 1 .. m
      PROVE  /\ Matches(R, q)[k] # "panic"
             /\ Matches(R, q)[k] = "true" <=> Applies(rs[k], q)
  <2> DEFINE v == rs[k].when
  <2>1. v \in Values /\ IsNode[v] /\ WellWritten[v]
    BY DEF Sound, WellWrittenPolicy
  <2>2. Matches(R, q)[k] = traceMatch(TreeOf[v], q)
    BY <1>1 DEF Matches
  <2>3. Applies(rs[k], q) <=> \E g \in DOMAIN q.grants : Truth(v, Env(q, g)) = 3
    BY DEF Applies
  <2> HIDE DEF v
  <2>4. TreeOf[v] \in Nodes /\ WellKinded[TreeOf[v]]
    BY <2>1, TreeShape, WellWrittenIsWellKinded
  <2>5. \A e : Truth(v, e) = Rank(TreeOf[v], e)
    BY <2>1, TruthIsRank
  <2>6. traceMatch(TreeOf[v], q) = matches(TreeOf[v], q)
    <3>1. DOMAIN q.grants \in SUBSET Nat
      BY EngineAssumption
    <3> QED BY <2>4, <3>1, TraceMatchAgrees
  <2> QED BY <2>2, <2>3, <2>4, <2>5, <2>6, MatchesSpec
<1>4. hit = hits
  BY <1>3
<1>5. FoldedTo(strategy, Folded(R, q, strategy), R, hit, m)
  BY <1>1, <1>2, FoldedSpec
<1>6. hit \in SUBSET (1 .. m)
  OBVIOUS
<1> HIDE DEF hit
<1>7. Folded(R, q, strategy).allow <=>
         IF strategy = "DenyOverrides"
         THEN hit # {} /\ \A k \in hit : R[k].effect = "allow"
         ELSE hit # {} /\ R[Min(hit)].effect = "allow"
  BY <1>5, <1>6, FoldedAllows
<1>8. \A k \in hit : R[k].effect = rs[k].effect
  BY <1>1, <1>6
<1>9. hit # {} => Min(hit) \in hit
  <2>1. hit \in SUBSET Nat
    BY <1>6
  <2> QED BY <2>1, MinSpec
<1>10. Allows(rs, q, strategy) <=>
         IF strategy = "DenyOverrides"
         THEN hits # {} /\ \A k \in hits : rs[k].effect = "allow"
         ELSE hits # {} /\ rs[Min(hits)].effect = "allow"
  BY DEF Allows
<1> HIDE DEF hits
<1>11. Folded(R, q, strategy).allow <=> Allows(rs, q, strategy)
  BY <1>4, <1>7, <1>8, <1>9, <1>10
<1> QED BY <1>3, <1>11 DEF R

\* The policy of a document that is served.
LEMMA DecidedByTheText ==
    ASSUME Served, serving # NoPolicy, WellWrittenPolicy(asSlice(serving.doc.body)),
           NEW q \in Queries, NEW strategy \in Strategies
    PROVE  /\ Verdict(q, strategy) \in {"allow", "deny"}
           /\ Verdict(q, strategy) = "allow" <=> Allows(asSlice(serving.doc.body), q, strategy)
<1> DEFINE rs == asSlice(serving.doc.body)
<1>1. rs \in Seq(Entries)
  BY JsonAssumption, EmptySeq DEF Served, asSlice, Entries
<1>2. PICK m \in Nat : DOMAIN rs = 1 .. m
  BY <1>1, LenProperties
<1>3. \A k \in 1 .. m : rs[k] \in Entries
  BY <1>1, <1>2, LenProperties, ElementOfSeq
<1>4. /\ Sound(rs) /\ serving.rules = RulesOf(rs) /\ WellWrittenPolicy(rs)
      /\ DOMAIN RulesOf(rs) = 1 .. m
  BY <1>2 DEF Served, RulesOf
<1> HIDE DEF rs
<1>5. \A k \in 1 .. m : rs[k].when \in Values
  BY <1>3 DEF Entries
<1>6. /\ \A k \in 1 .. m : Matches(RulesOf(rs), q)[k] # "panic"
      /\ Folded(RulesOf(rs), q, strategy).allow <=> Allows(rs, q, strategy)
  BY <1>2, <1>4, <1>5, RulesMeanTheText
<1> QED BY <1>4, <1>6 DEF Verdict, rs

\* engine.go, evaluate: for every policy a load can install and every query, a decision
\* allows exactly when the text of the policy says so, in three-valued logic and by the
\* strategy; with no policy it denies.
THEOREM EngineDecidesAsWritten == ESpec => []DecidesAsWritten
<1>1. EInv => DecidesAsWritten
  <2> SUFFICES ASSUME EInv, decision.verdict \in {"allow", "deny"} PROVE DecidesAsWritten
    BY DEF DecidesAsWritten
  <2>1. decision # NoDecision
    BY DEF NoDecision
  <2>2. PICK q \in Queries, s \in Strategies :
           decision = [query |-> q, strategy |-> s, verdict |-> Verdict(q, s)]
    BY <2>1 DEF EInv, Decided
  <2>3. decision.query = q /\ decision.strategy = s /\ decision.verdict = Verdict(q, s)
    BY <2>2
  <2>4. CASE serving = NoPolicy
    BY <2>3, <2>4 DEF Verdict, DecidesAsWritten
  <2>5. CASE serving # NoPolicy
    <3>1. WellWrittenPolicy(asSlice(serving.doc.body)) =>
             (decision.verdict = "allow" <=>
                 Allows(asSlice(serving.doc.body), decision.query, decision.strategy))
      BY <2>3, <2>5, DecidedByTheText DEF EInv
    <3> QED BY <2>5, <3>1 DEF DecidesAsWritten
  <2> QED BY <2>4, <2>5
<1> QED BY EngineInv, <1>1, PTL

\* engine.go, evalTri and evalValue: no decision panics on a policy whose values stand
\* under comparisons, whatever the query.
THEOREM EngineNeverPanics == ESpec => []WellWrittenNeverPanics
<1>1. EInv => WellWrittenNeverPanics
  <2> SUFFICES ASSUME EInv, decision.verdict = "panic",
                      WellWrittenPolicy(asSlice(serving.doc.body))
               PROVE  FALSE
    BY DEF WellWrittenNeverPanics
  <2>1. decision # NoDecision
    BY DEF NoDecision
  <2>2. PICK q \in Queries, s \in Strategies :
           decision = [query |-> q, strategy |-> s, verdict |-> Verdict(q, s)]
    BY <2>1 DEF EInv, Decided
  <2>3. Verdict(q, s) = "panic"
    BY <2>2
  <2>4. serving # NoPolicy
    BY <2>3 DEF Verdict
  <2> QED BY <2>3, <2>4, DecidedByTheText DEF EInv
<1> QED BY EngineInv, <1>1, PTL
=============================================================================
