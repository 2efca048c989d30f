-------------------------------- MODULE Tree --------------------------------
(* The condition trees of engine.go, as its constructors build them. *)
EXTENDS Sequences

attr(name) == [kind |-> "attr", name |-> name]
lit(value) == [kind |-> "lit", value |-> value]
eq(l, r) == [kind |-> "cmp", op |-> "==", left |-> l, right |-> r]
ne(l, r) == [kind |-> "cmp", op |-> "!=", left |-> l, right |-> r]
and(kids) == [kind |-> "bool", op |-> "and", kids |-> kids]
or(kids) == [kind |-> "bool", op |-> "or", kids |-> kids]
not(kid) == [kind |-> "bool", op |-> "not", kids |-> <<kid>>]

\* Mutant: "all" and "any" are mixed up.
buildMixed(key, ops) == CASE key = "eq" -> eq(ops[1], ops[2])
                          [] key = "ne" -> ne(ops[1], ops[2])
                          [] key = "all" -> or(ops)
                          [] key = "any" -> and(ops)
                          [] key = "not" -> not(ops[1])

\* The node parseNode builds for a key from its parsed operands.
build(key, ops) == CASE key = "eq" -> eq(ops[1], ops[2])
                     [] key = "ne" -> ne(ops[1], ops[2])
                     [] key = "all" -> and(ops)
                     [] key = "any" -> or(ops)
                     [] key = "not" -> not(ops[1])
=============================================================================
