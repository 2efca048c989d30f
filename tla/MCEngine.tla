------------------------------ MODULE MCEngine ------------------------------
(* Policies of up to two rules over conditions with grant, query and absent *)
(* attributes, documents the parser refuses and ones it should; three       *)
(* queries.                                                                 *)
EXTENDS Engine

Attr(s) == Single("attr", String(s))
Text(s) == Single("lit", String(s))
Op(k, ops) == Single(k, Array(ops))

HasNeed == Op("eq", <<Attr("grant.cap"), Attr("need")>>)
Scoped == Op("ne", <<Attr("grant.scope"), Text("")>>)
Ghost == Op("ne", <<Attr("ghost"), Text("")>>)
Written == {HasNeed, Scoped, Ghost, Op("all", <<HasNeed, Scoped>>),
            Op("any", <<Ghost, Scoped>>), Single("not", Scoped), Single("not", Ghost)}
IllWritten == {Text("x"), Op("all", <<Scoped, Attr("need")>>), Op("eq", <<HasNeed, Text("x")>>)}
Refused == {Op("eq", <<HasNeed>>), Single("xor", Null)}

Rule(effect, when) == [name |-> "r", effect |-> effect, when |-> when]
MCDocuments == [oversized : {FALSE},
                body : {Null, Error, Array(<<>>)}
                          \cup {Array(<<Rule("allow", c), Rule("deny", d)>>) :
                                  c \in Written, d \in {Scoped, Single("not", Ghost)}}
                          \cup {Array(<<Rule("deny", c), Rule("allow", HasNeed)>>) :
                                  c \in Written}
                          \cup {Array(<<Rule("allow", HasNeed), Rule("deny", c)>>) :
                                  c \in IllWritten \cup Refused}]

\* All the values in these documents, and the trees of those that are conditions.  TLC
\* evaluates a definition once, and one that stands for a constant each time.
Under(j) == CASE j.json = "object" -> {j.members[k].val : k \in DOMAIN j.members}
              [] j.json = "array" -> {j.items[k] : k \in DOMAIN j.items}
              [] OTHER -> {}
RECURSIVE Closure(_), Nesting(_), HeightOf(_)
Closure(S) == LET more == S \cup UNION {Under(j) : j \in S}
              IN IF more = S THEN S ELSE Closure(more)
Nesting(j) == 1 + Max({0} \cup {Nesting(v) : v \in Under(j)})
HeightOf(n) == IF n.kind = "bool" THEN 1 + Max({HeightOf(n.kids[k]) : k \in DOMAIN n.kids}) ELSE 0

Whens(d) == IF d.body.json = "array" THEN {d.body.items[k].when : k \in DOMAIN d.body.items} ELSE {}
AllValues == Closure(UNION {Whens(d) : d \in MCDocuments})
MCValues == AllValues
AllNesting == [j \in AllValues |-> Nesting(j)]
MCNesting == AllNesting
AllNodes == {TreeOf[j] : j \in {v \in AllValues : IsNode[v]}}
MCNodes == AllNodes
AllHeights == [n \in AllNodes |-> HeightOf(n)]
MCHeight == AllHeights

Grant(cap, scope) == [cap |-> cap, scope |-> scope, effect |-> "allow"]
MCQueries == {[need |-> "read", scope |-> "", grants |-> gs] :
                 gs \in {<<>>, <<Grant("read", "")>>, <<Grant("write", ""), Grant("read", "eu")>>}}
=============================================================================
