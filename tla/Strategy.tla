------------------------------ MODULE Strategy ------------------------------
(* The combining strategies of engine.go, as functions from the accumulated *)
(* Decision and one rule's match to the next Decision.  A rule is here its  *)
(* RuleRef.  locked and decided are the locals of the loop over the rules.  *)

\* Go's zero RuleRef, and the Decision the fold starts from: default-deny.
NoRule == [id |-> 0, name |-> "", effect |-> "allow"]
DefaultDeny == [allow |-> FALSE, locked |-> FALSE, decided |-> FALSE, decider |-> NoRule]

\* Mutant: the match is looked at before the lock.
OutcomeSwapped(a, ref, matched) ==
    CASE ~matched -> "no-match"
      [] a.locked /\ matched -> "skipped"
      [] OTHER -> ref.effect

Outcome(a, ref, matched) ==
    CASE a.locked -> "skipped"
      [] ~a.locked /\ ~matched -> "no-match"
      [] OTHER -> ref.effect

\* Mutant: a matching deny does not lock.
DenyOverridesLastWins(a, ref, matched) ==
    IF a.locked \/ ~matched THEN a
    ELSE [allow |-> ref.effect = "allow", locked |-> FALSE,
          decided |-> TRUE, decider |-> ref]

\* A matching Deny is final; a matching Allow is provisional.
DenyOverrides(a, ref, matched) ==
    IF a.locked \/ ~matched THEN a
    ELSE [allow |-> ref.effect = "allow", locked |-> ref.effect = "deny",
          decided |-> TRUE, decider |-> ref]

\* Mutant: only a deny is final.
FirstMatchLocksDeny(a, ref, matched) ==
    IF a.locked \/ ~matched THEN a
    ELSE [allow |-> ref.effect = "allow", locked |-> ref.effect = "deny",
          decided |-> TRUE, decider |-> ref]

\* The first matching rule is final.
FirstMatch(a, ref, matched) ==
    IF a.locked \/ ~matched THEN a
    ELSE [allow |-> ref.effect = "allow", locked |-> TRUE,
          decided |-> TRUE, decider |-> ref]

Strategies == {"DenyOverrides", "FirstMatch"}
Combined(strategy, a, ref, matched) ==
    IF strategy = "DenyOverrides" THEN DenyOverrides(a, ref, matched)
                                  ELSE FirstMatch(a, ref, matched)

\* reasonFor: derived from the decider in one place.
reasonFor(a) == IF ~a.decided THEN <<"default-deny">>
                ELSE <<IF a.decider.effect = "deny" THEN "denied" ELSE "allowed",
                       a.decider.name>>
=============================================================================
