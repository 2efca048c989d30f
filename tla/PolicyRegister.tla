--------------------------- MODULE PolicyRegister ---------------------------
(***************************************************************************)
(* What a policy holder promises its readers, with no loading pipeline and *)
(* no steps inside a decision.  One value is being served; it changes only *)
(* to an admissible value; a reader that asks gets, in one indivisible     *)
(* step, the answer of the value served at some moment of its call, and    *)
(* keeps that answer whatever is installed afterwards.                     *)
(***************************************************************************)
CONSTANTS Readers,      \* callers of Decide
          Initially,    \* what is served before anything is installed
          Admissible,   \* what may ever be installed
          Answer(_),    \* the answer a served value gives
          NoAnswer      \* what a reader holds between its calls

VARIABLES serving,      \* the value being served
          phase,        \* where each reader's call is
          answer        \* the answer each reader holds

vars == <<serving, phase, answer>>

Init == /\ serving = Initially
        /\ phase = [d \in Readers |-> "idle"]
        /\ answer = [d \in Readers |-> NoAnswer]

Install(v) == /\ serving' = v
              /\ UNCHANGED <<phase, answer>>

Ask(d) == /\ phase[d] = "idle"
          /\ phase' = [phase EXCEPT ![d] = "asked"]
          /\ UNCHANGED <<serving, answer>>

Reply(d) == /\ phase[d] = "asked"
            /\ phase' = [phase EXCEPT ![d] = "answered"]
            /\ answer' = [answer EXCEPT ![d] = Answer(serving)]
            /\ UNCHANGED serving

Deliver(d) == /\ phase[d] = "answered"
              /\ phase' = [phase EXCEPT ![d] = "idle"]
              /\ answer' = [answer EXCEPT ![d] = NoAnswer]
              /\ UNCHANGED serving

Next == \/ \E v \in Admissible : Install(v)
        \/ \E d \in Readers : Ask(d) \/ Reply(d) \/ Deliver(d)

Spec == Init /\ [][Next]_vars
=============================================================================
