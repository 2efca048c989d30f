------------------------------- MODULE Grammar -------------------------------
(***************************************************************************)
(* The policy language, as recursive definitions over JSON values with no   *)
(* stack, no budget and no order of checks: the reference the Parser's runs *)
(* are compared with.  InLanguage is the language doc.go documents.         *)
(* Readable is the larger one of what can be read as a policy: null for an  *)
(* empty array or string, which encoding/json allows, and a value where a   *)
(* condition should be or the other way round.                              *)
(***************************************************************************)
EXTENDS Parser, FiniteSetsExt

CONSTANTS Values,    \* JSON values, those in them included
          nesting    \* how deeply nested each of them is

\* What encoding/json can find where a condition is expected.
ASSUME JsonAssumption ==
    /\ nesting \in [Values -> Nat]
    /\ \A j \in Values :
          /\ j.json = "object" =>
                /\ j.members \in Seq([key : STRING, val : Values])
                /\ \A k \in DOMAIN j.members : nesting[j.members[k].val] < nesting[j]
          /\ j.json = "array" =>
                /\ j.items \in Seq(Values)
                /\ \A k \in DOMAIN j.items : nesting[j.items[k]] < nesting[j]
    /\ \A d \in Documents : d.body.json = "array" =>
          d.body.items \in Seq([name : STRING, effect : STRING, when : Values])

\* A one-member object: its key, its value, and the conditions under it.
KeyOf(j) == CHOOSE k \in KeysOf(j) : TRUE
ValueOf(j) == Lookup(j, KeyOf(j))
OperandsOf(j) == IF ~OneKey(j) \/ KeyOf(j) \in {"attr", "lit"} THEN <<>>
                 ELSE IF KeyOf(j) = "not" THEN <<ValueOf(j)>>
                 ELSE asSlice(ValueOf(j))

\* The key of a condition goes with its value, and with the number of its operands.
Fits(j) ==
    CASE KeyOf(j) \in {"attr", "lit"} ->
              IsString(ValueOf(j)) /\ asString(ValueOf(j)) \notin TooLong
      [] KeyOf(j) \in {"eq", "ne"} -> IsSlice(ValueOf(j)) /\ Len(OperandsOf(j)) = 2
      [] KeyOf(j) \in {"all", "any"} -> IsSlice(ValueOf(j)) /\ Len(OperandsOf(j)) >= 1
      [] OTHER -> KeyOf(j) = "not"

\* What can be read as a condition or as a value: of repeated members, the last.
IsNode[j \in Values] ==
    OneKey(j) /\ Fits(j) /\ \A k \in DOMAIN OperandsOf(j) : IsNode[OperandsOf(j)[k]]

treeNode(j, tree) ==
    CASE KeyOf(j) = "attr" -> attr(asString(ValueOf(j)))
      [] KeyOf(j) = "lit" -> lit(asString(ValueOf(j)))
      [] OTHER -> build(KeyOf(j), [k \in DOMAIN OperandsOf(j) |-> tree[OperandsOf(j)[k]]])
TreeOf[j \in Values] == treeNode(j, TreeOf)

\* The sum of the first n numbers of a sequence, and of them all.
SumOf(s) == LET sum[n \in Nat] == IF n = 0 THEN 0 ELSE sum[n - 1] + s[n] IN sum
Plus(s) == SumOf(s)[Len(s)]

Size[j \in Values] == 1 + Plus([k \in DOMAIN OperandsOf(j) |-> Size[OperandsOf(j)[k]]])
Height[j \in Values] == 1 + Max({0} \cup {Height[OperandsOf(j)[k]] : k \in DOMAIN OperandsOf(j)})

\* The limits bound the policy as a whole, wherever in it the nodes are.
Readable ==
    /\ ~doc.oversized
    /\ IsSlice(doc.body)
    /\ Len(raws) <= MaxRules
    /\ \A k \in DOMAIN raws : /\ raws[k].name # ""
                              /\ raws[k].effect \in {"allow", "deny"}
                              /\ IsNode[raws[k].when]
                              /\ Height[raws[k].when] <= MaxDepth
    /\ Plus([k \in DOMAIN raws |-> Size[raws[k].when]]) <= MaxNodes

Meaning == [k \in DOMAIN raws |-> [id |-> k - 1, name |-> raws[k].name,
                                   effect |-> raws[k].effect, cond |-> TreeOf[raws[k].when]]]

\* Values under eq and ne, conditions everywhere else.
IsValueKey(key) == key \in {"attr", "lit"}
WellWritten[j \in Values] ==
    /\ ~IsValueKey(KeyOf(j))
    /\ \A k \in DOMAIN OperandsOf(j) :
          IF KeyOf(j) \in {"eq", "ne"} THEN IsValueKey(KeyOf(OperandsOf(j)[k]))
                                       ELSE WellWritten[OperandsOf(j)[k]]

\* Every attribute has a name, and every literal a value, that is a JSON string.
Quoted[j \in Values] ==
    IF IsValueKey(KeyOf(j)) THEN ValueOf(j).json = "string"
    ELSE \A k \in DOMAIN OperandsOf(j) : Quoted[OperandsOf(j)[k]]

\* The documented language: an array of rules, their conditions as documented.
InLanguage ==
    /\ Readable
    /\ doc.body # Null
    /\ \A k \in DOMAIN raws : WellWritten[raws[k].when] /\ Quoted[raws[k].when]

-----------------------------------------------------------------------------
(* Properties. *)

\* doc.go, "Authoring a policy bundle", and parsePolicy: every policy of the documented
\* language within every limit is accepted; whatever is accepted can be read as a
\* policy within every limit, and its rules are then the trees it spells, in order,
\* named and numbered.
AcceptsLanguage == /\ pc = "ok" => Readable /\ out = Meaning
                   /\ pc = "err" => ~InLanguage
=============================================================================
