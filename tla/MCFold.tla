------------------------------- MODULE MCFold -------------------------------
(* Every policy of up to MaxRules rules over two names and two grants, and *)
(* queries that hold none, one or both grants, in either order.            *)
EXTENDS Fold

CONSTANTS MaxRules, g1, g2

MCGrants == {g1, g2}
MCPolicies == UNION {[1 .. n -> [name : Names, effect : Effects, cond : [MCGrants -> BOOLEAN]]] :
                        n \in 0 .. MaxRules}
MCQueries == {<<>>, <<g1>>, <<g1, g2>>, <<g2, g1>>}
=============================================================================
