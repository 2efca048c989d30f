------------------------------- MODULE Holder -------------------------------
(***************************************************************************)
(* The policy Holder of snapshot.go and the verified load of integrity.go: *)
(* one atomically swapped pointer to an immutable Snapshot, goroutines     *)
(* ("writers") that replace it through Set, Load and LoadBundle, and       *)
(* goroutines ("readers") that Decide.  Nothing in the Holder serializes   *)
(* the writers.  A step of the model is what one goroutine does between    *)
(* two points at which another can be observed: the verifier call, the     *)
(* parse, the pointer store, the pointer load, the fold, the stamp.        *)
(*                                                                         *)
(* A byte string is a member of Bytes; what a Verifier makes of it and     *)
(* whether the parser takes it are given as constants.  The rules of a     *)
(* snapshot are named by the bytes they were parsed from.                  *)
(***************************************************************************)
CONSTANTS Writers, Readers,
          Ids,                \* snapshot ids (opaque version tokens)
          Bytes,              \* raw artifacts and policy documents
          WellFormed,         \* the documents parsePolicy accepts
          Verifiers,          \* functions from Bytes to Bytes or Rejected
          Rejected,           \* a verifier's error
          NoVerifier,         \* a nil Verifier
          NoSnapshot,         \* a nil *Snapshot
          NoTask,             \* a writer that is not in a call
          NoRules             \* a decision no rule had a part in

VARIABLES cur,      \* the pointer
          wpc,      \* where each writer's call is
          task,     \* the arguments of its call
          policy,   \* the policy bytes it has to parse
          rpc,      \* where each reader's call is
          snap,     \* the snapshot its Decide captured
          dec       \* the Decision it builds

writerVars == <<wpc, task, policy>>
readerVars == <<rpc, snap, dec>>
hvars == <<cur, writerVars, readerVars>>

Snapshots == [id : Ids, rules : WellFormed]
Tasks == [id : Ids, raw : Bytes, via : Verifiers]

\* Go's zero string: the Snapshot field of a decision nobody stamped.
NoId == ""
Decisions == [snapshot : Ids \cup {NoId}, rules : WellFormed \cup {NoRules}]
FailClosed == [snapshot |-> NoId, rules |-> NoRules]

PassthroughVerifier == [b \in Bytes |-> b]

ASSUME HolderAssumption ==
    /\ WellFormed \subseteq Bytes
    /\ Verifiers \subseteq [Bytes -> Bytes \cup {Rejected}]
    /\ PassthroughVerifier \in Verifiers
    /\ Rejected \notin Bytes
    /\ NoVerifier \notin Verifiers
    /\ NoSnapshot \notin Snapshots
    /\ NoTask \notin Tasks
    /\ NoRules \notin WellFormed

\* The decision that snapshot s gives, id and all: Decide on a captured s.
Decision(s) == IF s = NoSnapshot THEN FailClosed
               ELSE [snapshot |-> s.id, rules |-> s.rules]

\* The snapshot that a writer's Load has built once its parse succeeded.
Built(w) == [id |-> task[w].id, rules |-> policy[w]]

HInit ==
    /\ cur = NoSnapshot
    /\ wpc = [w \in Writers |-> "idle"]
    /\ task = [w \in Writers |-> NoTask]
    /\ policy = [w \in Writers |-> Rejected]
    /\ rpc = [d \in Readers |-> "idle"]
    /\ snap = [d \in Readers |-> NoSnapshot]
    /\ dec = [d \in Readers |-> FailClosed]

-----------------------------------------------------------------------------
(* Writers. *)

\* Set: a single store; the host may store any snapshot, or nil.
Set(s) == /\ cur' = s
          /\ UNCHANGED <<writerVars, readerVars>>

\* Load: no verifier, the bytes given are the bytes parsed.
Load(w, i, p) ==
    /\ wpc[w] = "idle"
    /\ wpc' = [wpc EXCEPT ![w] = "parse"]
    /\ task' = [task EXCEPT ![w] = [id |-> i, raw |-> p, via |-> PassthroughVerifier]]
    /\ policy' = [policy EXCEPT ![w] = p]
    /\ UNCHANGED <<cur, readerVars>>

\* LoadBundle with a verifier goes on to call it.
LoadBundle(w, i, b, v) ==
    /\ wpc[w] = "idle"
    /\ v # NoVerifier
    /\ wpc' = [wpc EXCEPT ![w] = "verify"]
    /\ task' = [task EXCEPT ![w] = [id |-> i, raw |-> b, via |-> v]]
    /\ UNCHANGED <<cur, policy, readerVars>>

\* LoadBundle without one is refused on the spot.
RefuseUnverified(w, v) ==
    /\ wpc[w] = "idle"
    /\ v = NoVerifier
    /\ wpc' = [wpc EXCEPT ![w] = "err"]
    /\ UNCHANGED <<cur, task, policy, readerVars>>

\* Mutant: the artifact is checked, but not replaced by what it holds.
VerifyInPlace(w) ==
    LET out == task[w].via[task[w].raw] IN
    /\ wpc[w] = "verify"
    /\ wpc' = [wpc EXCEPT ![w] = IF out = Rejected THEN "err" ELSE "parse"]
    /\ policy' = [policy EXCEPT ![w] = task[w].raw]
    /\ UNCHANGED <<cur, task, readerVars>>

\* policy, err := v(bundle)
Verify(w) ==
    LET out == task[w].via[task[w].raw] IN
    /\ wpc[w] = "verify"
    /\ wpc' = [wpc EXCEPT ![w] = IF out = Rejected THEN "err" ELSE "parse"]
    /\ policy' = [policy EXCEPT ![w] = out]
    /\ UNCHANGED <<cur, task, readerVars>>

\* Mutant: the parse error is not looked at.
ParseUnchecked(w) ==
    /\ wpc[w] = "parse"
    /\ wpc' = [wpc EXCEPT ![w] = "store"]
    /\ UNCHANGED <<cur, task, policy, readerVars>>

\* Mutant: a policy that does not parse leaves no policy.
ParseClears(w) ==
    /\ wpc[w] = "parse"
    /\ wpc' = [wpc EXCEPT ![w] = IF policy[w] \in WellFormed THEN "store" ELSE "err"]
    /\ cur' = IF policy[w] \in WellFormed THEN cur ELSE NoSnapshot
    /\ UNCHANGED <<task, policy, readerVars>>

\* NewSnapshot: parse, and build the snapshot or return the error.
Parse(w) ==
    /\ wpc[w] = "parse"
    /\ wpc' = [wpc EXCEPT ![w] = IF policy[w] \in WellFormed THEN "store" ELSE "err"]
    /\ UNCHANGED <<cur, task, policy, readerVars>>

\* h.Set(snap) inside Load.
Store(w) ==
    /\ wpc[w] = "store"
    /\ cur' = Built(w)
    /\ wpc' = [wpc EXCEPT ![w] = "ok"]
    /\ UNCHANGED <<task, policy, readerVars>>

\* The call returns to its caller, with nil ("ok") or an error ("err").
LoadReturn(w) ==
    /\ wpc[w] \in {"ok", "err"}
    /\ wpc' = [wpc EXCEPT ![w] = "idle"]
    /\ task' = [task EXCEPT ![w] = NoTask]
    /\ policy' = [policy EXCEPT ![w] = Rejected]
    /\ UNCHANGED <<cur, readerVars>>

LoadStep(w) == Verify(w) \/ Parse(w) \/ Store(w)

WriterStep(w) ==
    \/ \E i \in Ids, p \in Bytes : Load(w, i, p)
    \/ \E i \in Ids, b \in Bytes, v \in Verifiers : LoadBundle(w, i, b, v)
    \/ RefuseUnverified(w, NoVerifier)
    \/ LoadStep(w)
    \/ LoadReturn(w)

-----------------------------------------------------------------------------
(* Readers. *)

CallDecide(d) ==
    /\ rpc[d] = "idle"
    /\ rpc' = [rpc EXCEPT ![d] = "load"]
    /\ UNCHANGED <<cur, writerVars, snap, dec>>

\* h.Current(), the argument of Decide(h.Current(), q)
Capture(d) ==
    /\ rpc[d] = "load"
    /\ snap' = [snap EXCEPT ![d] = cur]
    /\ rpc' = [rpc EXCEPT ![d] = "evaluate"]
    /\ UNCHANGED <<cur, writerVars, dec>>

\* Mutant: the rules are those of the snapshot current by now.
EvaluateCurrent(d) ==
    /\ rpc[d] = "evaluate"
    /\ IF snap[d] = NoSnapshot \/ cur = NoSnapshot
       THEN /\ dec' = [dec EXCEPT ![d] = FailClosed]
            /\ rpc' = [rpc EXCEPT ![d] = "done"]
       ELSE /\ dec' = [dec EXCEPT ![d] = [snapshot |-> NoId, rules |-> cur.rules]]
            /\ rpc' = [rpc EXCEPT ![d] = "stamp"]
    /\ UNCHANGED <<cur, writerVars, snap>>

\* snap == nil fails closed; otherwise the fold runs over snap.rules.
Evaluate(d) ==
    /\ rpc[d] = "evaluate"
    /\ IF snap[d] = NoSnapshot
       THEN /\ dec' = [dec EXCEPT ![d] = FailClosed]
            /\ rpc' = [rpc EXCEPT ![d] = "done"]
       ELSE /\ dec' = [dec EXCEPT ![d] = [snapshot |-> NoId, rules |-> snap[d].rules]]
            /\ rpc' = [rpc EXCEPT ![d] = "stamp"]
    /\ UNCHANGED <<cur, writerVars, snap>>

\* Mutant: the id is that of the snapshot current by now.
StampCurrent(d) ==
    /\ rpc[d] = "stamp"
    /\ dec' = [dec EXCEPT ![d] = [@ EXCEPT !.snapshot = IF cur = NoSnapshot THEN NoId ELSE cur.id]]
    /\ rpc' = [rpc EXCEPT ![d] = "done"]
    /\ UNCHANGED <<cur, writerVars, snap>>

\* d.Snapshot = snap.id
Stamp(d) ==
    /\ rpc[d] = "stamp"
    /\ dec' = [dec EXCEPT ![d] = [@ EXCEPT !.snapshot = snap[d].id]]
    /\ rpc' = [rpc EXCEPT ![d] = "done"]
    /\ UNCHANGED <<cur, writerVars, snap>>

DecideReturn(d) ==
    /\ rpc[d] = "done"
    /\ rpc' = [rpc EXCEPT ![d] = "idle"]
    /\ snap' = [snap EXCEPT ![d] = NoSnapshot]
    /\ dec' = [dec EXCEPT ![d] = FailClosed]
    /\ UNCHANGED <<cur, writerVars>>

DecideStep(d) == Capture(d) \/ Evaluate(d) \/ Stamp(d) \/ DecideReturn(d)

ReaderStep(d) == CallDecide(d) \/ DecideStep(d)

-----------------------------------------------------------------------------
HNext ==
    \/ \E s \in Snapshots \cup {NoSnapshot} : Set(s)
    \/ \E w \in Writers : WriterStep(w)
    \/ \E d \in Readers : ReaderStep(d)

HSpec == HInit /\ [][HNext]_hvars

-----------------------------------------------------------------------------
(* Properties. *)

\* Every variable has its type: the pointer is nil or a parsed snapshot.
HTypeOK ==
    /\ cur \in Snapshots \cup {NoSnapshot}
    /\ wpc \in [Writers -> {"idle", "verify", "parse", "store", "ok", "err"}]
    /\ task \in [Writers -> Tasks \cup {NoTask}]
    /\ policy \in [Writers -> Bytes \cup {Rejected}]
    /\ rpc \in [Readers -> {"idle", "load", "evaluate", "stamp", "done"}]
    /\ snap \in [Readers -> Snapshots \cup {NoSnapshot}]
    /\ dec \in [Readers -> Decisions]

\* integrity.go, LoadBundle: verified first, parsed second, swapped last.  A
\* writer about to store holds a well-formed document which its verifier made
\* of the very artifact it was given; one about to parse holds a verified one.
VerifiedBeforeParsed ==
    \A w \in Writers :
        /\ wpc[w] \in {"parse", "store", "ok"} =>
              /\ task[w] \in Tasks
              /\ policy[w] = task[w].via[task[w].raw]
        /\ wpc[w] \in {"store", "ok"} => policy[w] \in WellFormed

LoadStores(w) ==
    /\ wpc[w] = "store"
    /\ task[w].via[task[w].raw] \in WellFormed
    /\ cur' = [id |-> task[w].id, rules |-> task[w].via[task[w].raw]]
    /\ UNCHANGED readerVars
HostSets == UNCHANGED <<writerVars, readerVars>>

\* snapshot.go, Load: a load that fails leaves the last known-good snapshot in
\* place.  Unless the host itself calls Set, the pointer moves only to the
\* snapshot of a load whose bytes were verified and parsed, under the id that
\* load was given, and never back to nil.
LastKnownGood == [][ cur' = cur \/ HostSets \/ \E w \in Writers : LoadStores(w) ]_hvars

\* snapshot.go, Holder.Decide: a decision is pinned to the snapshot it captured.
\* Whatever was swapped in since, the rules it evaluated and the id it is
\* stamped with are those of one and the same snapshot, the captured one.
Pinned ==
    \A d \in Readers : rpc[d] = "done" => dec[d] = Decision(snap[d])

\* A reader's call seen as the abstract register sees it: the answer is fixed
\* at the pointer load, what follows only computes it.
ReaderPhase == [d \in Readers |->
    CASE rpc[d] = "idle" -> "idle"
      [] rpc[d] = "load" -> "asked"
      [] OTHER -> "answered"]
ReaderAnswer == [d \in Readers |->
    IF rpc[d] \in {"evaluate", "stamp"} THEN Decision(snap[d]) ELSE dec[d]]

Register == INSTANCE PolicyRegister WITH
    Initially <- NoSnapshot,
    Admissible <- Snapshots \cup {NoSnapshot},
    Answer <- Decision, NoAnswer <- FailClosed,
    serving <- cur, phase <- ReaderPhase, answer <- ReaderAnswer

\* The Holder is a linearizable register: every Decide answers, id and rules
\* together, for one snapshot that was current at one moment of the call.
IsRegister == Register!Spec
=============================================================================
