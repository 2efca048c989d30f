----------------------------- MODULE MCCondition -----------------------------
(* Trees over four comparisons - one on a grant attribute, one on the query, *)
(* two on an attribute the engine does not expose - under up to two levels   *)
(* of and, or and not, with two and three operands, and some trees that no   *)
(* well-kinded policy has; queries with up to two grants.                    *)
EXTENDS Condition

Comparisons == {eq(attr("grant.cap"), attr("need")), ne(attr("scope"), lit("x")),
                eq(attr("ghost"), lit("")), ne(attr("ghost"), attr("phantom"))}
Level1 == Comparisons \cup {not(c) : c \in Comparisons}
             \cup {and(ks) : ks \in [1 .. 2 -> Comparisons]}
             \cup {or(ks) : ks \in [1 .. 2 -> Comparisons]}
Level2 == {not(c) : c \in Level1}
             \cup {and(ks) : ks \in [1 .. 2 -> Level1]}
             \cup {or(ks) : ks \in [1 .. 2 -> Level1]}
Wide == {and(ks) : ks \in [1 .. 3 -> Comparisons]} \cup {or(ks) : ks \in [1 .. 3 -> Comparisons]}
IllKinded == {lit("x"), attr("need"), eq(eq(lit("x"), lit("x")), lit("x"))}
Mixed == IllKinded \cup {and(<<c, n>>) : c \in Comparisons, n \in IllKinded}
                   \cup {or(<<c, n>>) : c \in Comparisons, n \in IllKinded}
MCTrees == Comparisons \cup Level2 \cup Wide \cup Mixed

\* TLC evaluates a definition once, and one that stands for a constant each time.
AllNodes == MCTrees \cup Level1 \cup IllKinded
MCNodes == AllNodes
AllHeights == [n \in AllNodes |-> CASE n \in Comparisons \cup IllKinded -> 0
                                   [] n \in Level1 \ Comparisons -> 1
                                   [] OTHER -> 2]
MCHeight == AllHeights

Grants == [cap : {"x", "y"}, scope : {""}, effect : {"allow"}]
MCQueries == [need : {"x"}, scope : {"", "x"},
              grants : UNION {[1 .. n -> Grants] : n \in 0 .. 2}]
MCGuesses == [{"ghost", "phantom"} -> {"", "x"}]
=============================================================================
