------------------------------- MODULE Parser -------------------------------
(***************************************************************************)
(* parsePolicy and parseNode of engine.go: the one recursive descent that   *)
(* turns a policy document into rules, under the parser bounds.  The Go     *)
(* call stack of parseNode is the variable stack, one frame per condition   *)
(* object that is waiting for its operands; a step is one call of parseNode *)
(* up to its first recursive call, one operand taken up, or one node built. *)
(*                                                                          *)
(* A document is what encoding/json finds in the bytes.  A JSON value is a  *)
(* record tagged with its type; an object keeps its members in order, the   *)
(* repeated ones too.  encoding/json is external: asMap, asSlice, asString  *)
(* say what Unmarshal makes of a value, null included.                      *)
(***************************************************************************)
EXTENDS Tree, Naturals, Sequences

CONSTANTS Documents,                  \* the policies to parse
          MaxRules, MaxDepth, MaxNodes,
          TooLong                     \* the strings longer than maxLiteralLen

VARIABLES doc,       \* the argument of parsePolicy
          pc,
          out,       \* the rules parsed so far
          nodes,     \* parseBudget.nodes
          raw,       \* the JSON value parseNode is called with
          stack,     \* its callers
          made       \* the node the last call returned
vars == <<doc, pc, out, nodes, raw, stack, made>>

ASSUME ParserAssumption == /\ MaxRules \in Nat
                           /\ MaxDepth \in Nat
                           /\ MaxNodes \in Nat

-----------------------------------------------------------------------------
(* encoding/json. *)

Null == [json |-> "null"]
Missing == [json |-> "missing"]      \* a RawMessage that was never set
String(s) == [json |-> "string", text |-> s]
Array(items) == [json |-> "array", items |-> items]
Object(members) == [json |-> "object", members |-> members]
Member(k, v) == [key |-> k, val |-> v]
Single(k, v) == Object(<<Member(k, v)>>)

\* Bytes that are no JSON, or no array of {name, effect, when} entries.
Error == [json |-> "error"]

\* Into a map: null is the empty map, the last of repeated members wins.
KeysOf(j) == IF j.json = "object" THEN {j.members[k].key : k \in DOMAIN j.members} ELSE {}
IsMap(j) == j.json \in {"object", "null"}
Lookup(j, key) ==
    LET At == {k \in DOMAIN j.members : j.members[k].key = key}
    IN j.members[CHOOSE k \in At : \A l \in At : l <= k].val

\* Into a slice: null is the empty slice.
IsSlice(j) == j.json \in {"array", "null"}
asSlice(j) == IF j.json = "array" THEN j.items ELSE <<>>

\* Into a string: null leaves the empty string.
IsString(j) == j.json \in {"string", "null"}
asString(j) == IF j.json = "string" THEN j.text ELSE ""

-----------------------------------------------------------------------------
Init == /\ doc \in Documents
        /\ pc = "open"
        /\ out = <<>>
        /\ nodes = 0
        /\ raw = Missing
        /\ stack = <<>>
        /\ made = <<>>

Fail == pc' = "err" /\ UNCHANGED <<doc, out, raw, stack, made>>

\* The size gate, the array, and its length, before any rule.
Open ==
    /\ pc = "open"
    /\ IF doc.oversized \/ ~IsSlice(doc.body) \/ Len(asSlice(doc.body)) > MaxRules
       THEN Fail
       ELSE pc' = "rule" /\ UNCHANGED <<doc, out, raw, stack, made>>
    /\ UNCHANGED nodes

raws == asSlice(doc.body)
rule == raws[Len(out) + 1]

\* The next rule's name and effect; then its condition, at depth 1.
StartRule ==
    /\ pc = "rule"
    /\ Len(out) < Len(raws)
    /\ IF rule.name = "" \/ rule.effect \notin {"allow", "deny"}
       THEN Fail
       ELSE pc' = "node" /\ raw' = rule.when /\ UNCHANGED <<doc, out, stack, made>>
    /\ UNCHANGED nodes

Finish == /\ pc = "rule"
          /\ Len(out) = Len(raws)
          /\ pc' = "ok"
          /\ UNCHANGED <<doc, out, nodes, raw, stack, made>>

\* parseNode's depth: one for the node itself, one per caller.
Depth == Len(stack) + 1

\* The one key of a condition object, and its value.
OneKey(j) == IsMap(j) /\ \E k \in KeysOf(j) : KeysOf(j) = {k}
Key == CHOOSE k \in KeysOf(raw) : TRUE
Val == Lookup(raw, Key)

\* Mutant: the budget has one node too many.
EntersOneMore == Depth <= MaxDepth /\ nodes <= MaxNodes /\ OneKey(raw)

\* What is checked before any operand is parsed.
Enters == Depth <= MaxDepth /\ nodes < MaxNodes /\ OneKey(raw)
IsLeaf == Key \in {"attr", "lit"} /\ IsString(Val) /\ asString(Val) \notin TooLong
IsOperator == (Key \in {"eq", "ne", "all", "any"} /\ IsSlice(Val)) \/ Key = "not"

ParseLeaf ==
    /\ pc = "node"
    /\ Enters
    /\ IsLeaf
    /\ nodes' = nodes + 1
    /\ made' = IF Key = "attr" THEN attr(asString(Val)) ELSE lit(asString(Val))
    /\ pc' = "made"
    /\ UNCHANGED <<doc, out, raw, stack>>

\* parseNodeList, or the one recursive call of "not", begins.
ParseOperator ==
    /\ pc = "node"
    /\ Enters
    /\ IsOperator
    /\ nodes' = nodes + 1
    /\ stack' = Append(stack, [key |-> Key,
                               todo |-> IF Key = "not" THEN <<Val>> ELSE asSlice(Val),
                               done |-> <<>>])
    /\ pc' = "operands"
    /\ UNCHANGED <<doc, out, raw, made>>

\* Too deep, too many, not an object with one known key, or a bad leaf.
RefuseNode ==
    /\ pc = "node"
    /\ ~(Enters /\ (IsLeaf \/ IsOperator))
    /\ nodes' = IF Depth > MaxDepth THEN nodes ELSE nodes + 1
    /\ Fail

top == stack[Len(stack)]
pop == SubSeq(stack, 1, Len(stack) - 1)

NextOperand ==
    /\ pc = "operands"
    /\ top.todo # <<>>
    /\ raw' = Head(top.todo)
    /\ stack' = [stack EXCEPT ![Len(stack)].todo = Tail(@)]
    /\ pc' = "node"
    /\ UNCHANGED <<doc, out, nodes, made>>

\* Mutant: a comparison takes its first two operands.
ArityAtLeast == CASE top.key \in {"eq", "ne"} -> Len(top.done) >= 2
                  [] top.key \in {"all", "any"} -> top.done # <<>>
                  [] OTHER -> TRUE

\* The number of operands is checked when all of them have been parsed.
Arity == CASE top.key \in {"eq", "ne"} -> Len(top.done) = 2
           [] top.key \in {"all", "any"} -> top.done # <<>>
           [] OTHER -> TRUE

Build ==
    /\ pc = "operands"
    /\ top.todo = <<>>
    /\ IF Arity
       THEN /\ made' = build(top.key, top.done)
            /\ stack' = pop
            /\ pc' = "made"
            /\ UNCHANGED <<doc, out, raw>>
       ELSE Fail
    /\ UNCHANGED nodes

\* A call of parseNode returns its node to the caller on the stack...
ReturnOperand ==
    /\ pc = "made"
    /\ stack # <<>>
    /\ stack' = [stack EXCEPT ![Len(stack)].done = Append(@, made)]
    /\ pc' = "operands"
    /\ UNCHANGED <<doc, out, nodes, raw, made>>

\* ... or to parsePolicy, which has the next rule complete.
EndRule ==
    /\ pc = "made"
    /\ stack = <<>>
    /\ out' = Append(out, [id |-> Len(out), name |-> rule.name,
                           effect |-> rule.effect, cond |-> made])
    /\ pc' = "rule"
    /\ UNCHANGED <<doc, nodes, raw, stack, made>>

Step == \/ Open \/ StartRule \/ Finish
        \/ ParseLeaf \/ ParseOperator \/ RefuseNode
        \/ NextOperand \/ Build \/ ReturnOperand \/ EndRule

Parsed == pc \in {"ok", "err"}

Spec == Init /\ [][Step]_vars

-----------------------------------------------------------------------------
(* Properties; the reference grammar they are compared with is in Grammar. *)

\* engine.go, parser bounds: however the rules and the nesting of a document are
\* arranged, one parse makes at most MaxNodes nodes for all rules together and
\* never has more than MaxDepth calls of parseNode waiting for another.
WorkIsBounded == /\ nodes <= MaxNodes + 1
                 /\ Len(stack) <= MaxDepth
                 /\ nodes = MaxNodes + 1 => pc = "err"
=============================================================================
