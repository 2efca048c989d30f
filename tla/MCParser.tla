------------------------------ MODULE MCParser ------------------------------
(* Small limits, and documents at, within and past each of them: one rule   *)
(* with any condition of up to two levels over four leaves, or with one that *)
(* no policy may have; two and three rules over a few conditions.            *)
EXTENDS Grammar

MCTooLong == {"too long"}

Need == Single("attr", String("need"))
Lit == Single("lit", String("x"))
Leaves == {Need, Lit, Single("lit", String("too long")), Single("lit", Null)}

Seqs(S, n) == UNION {[1 .. m -> S] : m \in 0 .. n}
Operators(S, n) == {Single(k, Array(ops)) : k \in {"eq", "ne", "all", "any"}, ops \in Seqs(S, n)}
                       \cup {Single("not", v) : v \in S}
Odd == {Null, Missing, String("x"), Array(<<>>), Object(<<>>),
        Single("attr", Array(<<>>)), Single("eq", Null), Single("any", Null),
        Single("all", String("x")), Single("not", Null), Single("xor", Array(<<Need>>)),
        Object(<<Member("attr", String("need")), Member("lit", String("x"))>>),
        Object(<<Member("lit", Array(<<>>)), Member("lit", String("x"))>>),
        Object(<<Member("lit", String("x")), Member("lit", Array(<<>>))>>)}

Same == Single("eq", Array(<<Need, Lit>>))                    \* 3 nodes, 2 levels
Deeper == Single("not", Same)                                 \* 4 nodes, 3 levels
Deepest == Single("not", Deeper)                              \* 5 nodes, 4 levels
Wide == Single("all", Array(<<Same, Same>>))                  \* 7 nodes, 3 levels
Level1 == Operators(Leaves, 3)
Level2 == Operators({Need, Same, Deeper, Single("any", Array(<<Lit>>)), Single("eq", Array(<<Lit>>)),
                     Null}, 2)

Entry == [name : {"a", ""}, effect : {"allow", "deny", "maybe"},
          when : {Same, Deeper, Need, Null}]
Rule(when) == [name |-> "a", effect |-> "deny", when |-> when]

Bodies == {Null, Error, Object(<<>>)}
             \cup {Array(<<Rule(c)>>) : c \in Leaves \cup Odd \cup Level1 \cup Level2 \cup {Deepest, Wide}}
             \cup {Array(es) : es \in [1 .. 2 -> Entry]}
             \cup {Array([k \in 1 .. n |-> Rule(Need)]) : n \in {0, 3}}
MCDocuments == [oversized : {FALSE}, body : Bodies]
                  \cup [oversized : {TRUE}, body : {Error, Array(<<Rule(Same)>>)}]

\* All the values in these documents.  TLC evaluates a definition once, and one that
\* stands for a constant each time.
Under(j) == CASE j.json = "object" -> {j.members[k].val : k \in DOMAIN j.members}
              [] j.json = "array" -> {j.items[k] : k \in DOMAIN j.items}
              [] OTHER -> {}
RECURSIVE Closure(_), Nesting(_)
Closure(S) == LET more == S \cup UNION {Under(j) : j \in S}
              IN IF more = S THEN S ELSE Closure(more)
Nesting(j) == 1 + Max({0} \cup {Nesting(v) : v \in Under(j)})

Whens(d) == IF d.body.json = "array" THEN {d.body.items[k].when : k \in DOMAIN d.body.items} ELSE {}
AllValues == Closure(UNION {Whens(d) : d \in MCDocuments})
MCValues == AllValues
AllNesting == [j \in AllValues |-> Nesting(j)]
MCNesting == AllNesting
=============================================================================
