------------------------------- MODULE Loader -------------------------------
(***************************************************************************)
(* The live-policy Loader of loader.go over the Source seam of source.go.  *)
(* Any number of goroutines call Refresh (the Holder's writers are exactly *)
(* the refreshers: Loader.holder is unexported, so LoadBundle is the only  *)
(* way in), others call Decide, and a publisher changes what the source    *)
(* serves at any time.  Refresh holds the Loader's mutex from before the   *)
(* fetch until it returns.                                                 *)
(*                                                                         *)
(* The history of the source, published, is a sequence of bundles.  A fetch *)
(* takes time: it returns a bundle that was the last one at some moment    *)
(* since its call, or fails, at any time.  servedAt and floor are history  *)
(* variables: they record which publication is being served, and which one *)
(* was when a Decide was called; no action reads them.                     *)
(***************************************************************************)
EXTENDS Holder, Naturals, Sequences

CONSTANTS Bundles,        \* what the source may hand out: raw bytes, a version
          Oversized,      \* the byte strings longer than maxBundleBytes
          Option,         \* the argument of WithVerifier; NoVerifier for nil
          MaxPublished,   \* bound on the publisher
          NoOne           \* the mutex is free

VARIABLES published,      \* history of the source
          mu,             \* who holds Loader.mu
          lpc,            \* where each Refresh is
          fetched,        \* the publication its Fetch returned; while it is in
                          \* Fetch, the last one at the call
          servedAt,       \* the publication last loaded or confirmed
          floor           \* servedAt when each reader's Decide was called

loaderVars == <<mu, lpc, fetched>>
vars == <<hvars, published, loaderVars, servedAt, floor>>

\* WithVerifier: a nil verifier leaves the default in place.
WithVerifier(v, default) == IF v = NoVerifier THEN default ELSE v

\* NewLoader: the pass-through unless an option replaced it.
verify == WithVerifier(Option, PassthroughVerifier)

ASSUME LoaderAssumption ==
    /\ Bundles \subseteq [raw : Bytes, version : Ids]
    /\ Option \in Verifiers \cup {NoVerifier}
    /\ MaxPublished \in Nat
    /\ NoOne \notin Writers

\* Bundles the pipeline takes, and the snapshot it makes of one.
Loadable == {b \in Bundles : b.raw \notin Oversized /\ verify[b.raw] \in WellFormed}
SnapshotOf(b) == [id |-> b.version, rules |-> verify[b.raw]]

Init == /\ HInit
        /\ published = <<>>
        /\ mu = NoOne
        /\ lpc = [r \in Writers |-> "idle"]
        /\ fetched = [r \in Writers |-> 0]
        /\ servedAt = 0
        /\ floor = [d \in Readers |-> 0]

-----------------------------------------------------------------------------
(* The source. *)

Publish(b) == /\ Len(published) < MaxPublished
              /\ published' = Append(published, b)
              /\ UNCHANGED <<hvars, loaderVars, servedAt, floor>>

-----------------------------------------------------------------------------
(* Refresh, one action per step. *)

CallRefresh(r) ==
    /\ lpc[r] = "idle"
    /\ lpc' = [lpc EXCEPT ![r] = "lock"]
    /\ UNCHANGED <<hvars, published, mu, fetched, servedAt, floor>>

\* Mutant: Refresh takes no lock.
LockNothing(r) ==
    /\ lpc[r] = "lock"
    /\ mu' = r
    /\ lpc' = [lpc EXCEPT ![r] = "fetch"]
    /\ fetched' = [fetched EXCEPT ![r] = Len(published)]
    /\ UNCHANGED <<hvars, published, servedAt, floor>>

Lock(r) ==
    /\ lpc[r] = "lock"
    /\ mu = NoOne
    /\ mu' = r
    /\ lpc' = [lpc EXCEPT ![r] = "fetch"]
    /\ fetched' = [fetched EXCEPT ![r] = Len(published)]
    /\ UNCHANGED <<hvars, published, servedAt, floor>>

\* Mutant: the lock is released once the bundle is there.
FetchOkUnlocks(r) ==
    /\ lpc[r] = "fetch"
    /\ \E g \in fetched[r] .. Len(published) :
          g > 0 /\ fetched' = [fetched EXCEPT ![r] = g]
    /\ lpc' = [lpc EXCEPT ![r] = "gate"]
    /\ mu' = NoOne
    /\ UNCHANGED <<hvars, published, servedAt, floor>>

\* The source answers with what it served at some moment of the call.
FetchOk(r) ==
    /\ lpc[r] = "fetch"
    /\ \E g \in fetched[r] .. Len(published) :
          g > 0 /\ fetched' = [fetched EXCEPT ![r] = g]
    /\ lpc' = [lpc EXCEPT ![r] = "gate"]
    /\ UNCHANGED <<hvars, published, mu, servedAt, floor>>

\* An error, or a panic that unwinds through the deferred Unlock.
FetchErr(r) ==
    /\ lpc[r] = "fetch"
    /\ lpc' = [lpc EXCEPT ![r] = "failed"]
    /\ UNCHANGED <<hvars, published, mu, fetched, servedAt, floor>>

\* Mutant: the size of a bundle is not looked at.
NoSizeGate(r) ==
    /\ lpc[r] = "gate"
    /\ lpc' = [lpc EXCEPT ![r] = "compare"]
    /\ UNCHANGED <<hvars, published, mu, fetched, servedAt, floor>>

\* len(b.Raw) > maxBundleBytes, before any other work.
SizeGate(r) ==
    /\ lpc[r] = "gate"
    /\ lpc' = [lpc EXCEPT ![r] =
                  IF published[fetched[r]].raw \in Oversized THEN "failed" ELSE "compare"]
    /\ UNCHANGED <<hvars, published, mu, fetched, servedAt, floor>>

\* Mutant: every version is loaded anew, or none once one is serving.
NeverUnchanged(r) == cur # NoSnapshot /\ fetched[r] = 0
AlwaysUnchanged(r) == cur # NoSnapshot /\ fetched[r] > 0

\* cur != nil && cur.ID() == b.Version
Unchanged(r) == /\ cur # NoSnapshot
                /\ cur.id = published[fetched[r]].version

SkipUnchanged(r) ==
    /\ lpc[r] = "compare"
    /\ Unchanged(r)
    /\ servedAt' = fetched[r]
    /\ lpc' = [lpc EXCEPT ![r] = "refreshed"]
    /\ UNCHANGED <<hvars, published, mu, fetched, floor>>

StartLoad(r) ==
    /\ lpc[r] = "compare"
    /\ ~Unchanged(r)
    /\ LET b == published[fetched[r]] IN LoadBundle(r, b.version, b.raw, verify)
    /\ lpc' = [lpc EXCEPT ![r] = "load"]
    /\ UNCHANGED <<published, mu, fetched, servedAt, floor>>

\* Mutant: the artifact goes to the parser unverified.
LoadBundleStepUnverified(r) ==
    /\ lpc[r] = "load"
    /\ IF wpc[r] = "verify"
       THEN /\ wpc' = [wpc EXCEPT ![r] = "parse"]
            /\ policy' = [policy EXCEPT ![r] = task[r].raw]
            /\ UNCHANGED <<cur, task, readerVars>>
       ELSE Parse(r) \/ Store(r)
    /\ servedAt' = IF wpc[r] = "store" THEN fetched[r] ELSE servedAt
    /\ UNCHANGED <<published, loaderVars, floor>>

\* Inside l.holder.LoadBundle.
LoadBundleStep(r) ==
    /\ lpc[r] = "load"
    /\ LoadStep(r)
    /\ servedAt' = IF wpc[r] = "store" THEN fetched[r] ELSE servedAt
    /\ UNCHANGED <<published, loaderVars, floor>>

\* Mutant: an error of LoadBundle is logged and swallowed.
FinishLoadSwallows(r) ==
    /\ lpc[r] = "load"
    /\ LoadReturn(r)
    /\ lpc' = [lpc EXCEPT ![r] = "refreshed"]
    /\ UNCHANGED <<published, mu, fetched, servedAt, floor>>

FinishLoad(r) ==
    /\ lpc[r] = "load"
    /\ LoadReturn(r)
    /\ lpc' = [lpc EXCEPT ![r] = IF wpc[r] = "ok" THEN "refreshed" ELSE "failed"]
    /\ UNCHANGED <<published, mu, fetched, servedAt, floor>>

\* Mutant: Unlock is called on the success path only.
UnlockOnSuccess(r) ==
    /\ lpc[r] \in {"refreshed", "failed"}
    /\ mu' = IF lpc[r] = "refreshed" THEN NoOne ELSE mu
    /\ lpc' = [lpc EXCEPT ![r] = "idle"]
    /\ fetched' = [fetched EXCEPT ![r] = 0]
    /\ UNCHANGED <<hvars, published, servedAt, floor>>

\* The deferred Unlock, and Refresh returns: nil ("refreshed") or an error.
Unlock(r) ==
    /\ lpc[r] \in {"refreshed", "failed"}
    /\ mu' = NoOne
    /\ lpc' = [lpc EXCEPT ![r] = "idle"]
    /\ fetched' = [fetched EXCEPT ![r] = 0]
    /\ UNCHANGED <<hvars, published, servedAt, floor>>

-----------------------------------------------------------------------------
(* Decide: the Holder's, which takes no lock. *)

CallLoaderDecide(d) ==
    /\ CallDecide(d)
    /\ floor' = [floor EXCEPT ![d] = servedAt]
    /\ UNCHANGED <<published, loaderVars, servedAt>>

\* Mutant: Decide takes the lock of Refresh.
LoaderDecideStepLocks(d) ==
    /\ mu = NoOne
    /\ DecideStep(d)
    /\ UNCHANGED <<published, loaderVars, servedAt, floor>>

LoaderDecideStep(d) ==
    /\ DecideStep(d)
    /\ UNCHANGED <<published, loaderVars, servedAt, floor>>

-----------------------------------------------------------------------------
FetchStep(r) == FetchOk(r) \/ FetchErr(r)
LocalStep(r) == \/ SizeGate(r) \/ SkipUnchanged(r) \/ StartLoad(r)
                \/ LoadBundleStep(r) \/ FinishLoad(r) \/ Unlock(r)

Next == \/ \E b \in Bundles : Publish(b)
        \/ \E r \in Writers : CallRefresh(r) \/ Lock(r) \/ FetchStep(r) \/ LocalStep(r)
        \/ \E d \in Readers : CallLoaderDecide(d) \/ LoaderDecideStep(d)

Spec == Init /\ [][Next]_vars

\* A goroutine in a call keeps running; a Fetch returns, with a bundle or an
\* error; sync.Mutex does not starve a waiter (its starvation mode).
Scheduling == \A r \in Writers : /\ SF_vars(Lock(r))
                                 /\ WF_vars(FetchStep(r))
                                 /\ WF_vars(LocalStep(r))

\* The consuming application refreshes again and again, and the source does
\* not fail every time.
Polling == \A r \in Writers : WF_vars(CallRefresh(r)) /\ SF_vars(FetchOk(r))

\* Only the readers run for sure: refreshers may hang anywhere, in Fetch too.
ReadersSpec == Spec /\ \A d \in Readers : WF_vars(LoaderDecideStep(d))

-----------------------------------------------------------------------------
(* Properties. *)

Inside(r) == lpc[r] \notin {"idle", "lock"}

\* Types of the Loader's own variables, and of the Holder's.
TypeOK ==
    /\ HTypeOK
    /\ published \in Seq(Bundles)
    /\ mu \in Writers \cup {NoOne}
    /\ lpc \in [Writers -> {"idle", "lock", "fetch", "gate", "compare", "load",
                            "refreshed", "failed"}]
    /\ fetched \in [Writers -> 0 .. Len(published)]
    /\ servedAt \in 0 .. Len(published)
    /\ floor \in [Readers -> 0 .. Len(published)]

\* source.go, Bundle.Version is compared only for equality: the loader trusts the
\* source to give different policies different tokens.  A premise of what
\* follows, and a property of the source, not of the loader.
VersionsAreFaithful ==
    \A b, c \in Bundles :
        b.raw \notin Oversized /\ c.raw \notin Oversized /\ b.version = c.version =>
            verify[b.raw] = verify[c.raw]

\* What is served is what the source published at servedAt, whole: no id of one
\* publication with the rules of another, nothing oversized, unverified or
\* malformed; and nil is served only until the first success.
ServesPublished ==
    /\ cur = NoSnapshot <=> servedAt = 0
    /\ servedAt > 0 => /\ published[servedAt] \in Loadable
                       /\ cur = SnapshotOf(published[servedAt])

\* loader.go, Refresh: when a call is about to return nil, the policy it fetched
\* is the one being served, whatever other Refresh calls did meanwhile.
Acknowledged ==
    \A r \in Writers : lpc[r] = "refreshed" => servedAt = fetched[r] /\ servedAt > 0

\* loader.go, "so version-skip is consistent": a version that is being loaded is
\* not the one already serving; two racing refreshes never parse it twice.
NoReparseOfServed ==
    \A r \in Writers :
        wpc[r] \in {"verify", "parse", "store"} /\ cur # NoSnapshot => cur.id # task[r].id

\* Racing refreshes never move the served policy back to an earlier publication
\* of the source, and once a policy serves, some policy always does.
NoRollback == [][ /\ servedAt' >= servedAt
                  /\ cur' # cur => servedAt' > servedAt /\ cur' # NoSnapshot ]_vars

\* A Decide called after a Refresh returned nil decides with the policy that
\* Refresh fetched or a later one, never an older one, and never fails closed.
DecisionIsRecent ==
    \A d \in Readers : (rpc[d] = "done" /\ floor[d] > 0) =>
        \E g \in floor[d] .. Len(published) : dec[d] = Decision(SnapshotOf(published[g]))

LoaderRegister == INSTANCE PolicyRegister WITH
    Initially <- NoSnapshot,
    Admissible <- {SnapshotOf(b) : b \in Loadable},
    Answer <- Decision, NoAnswer <- FailClosed,
    serving <- cur, phase <- ReaderPhase, answer <- ReaderAnswer

\* loader.go, "last-known-good on ANY failure": seen by its readers, a Loader is
\* a register that is only ever set to the snapshot of a loadable artifact.
IsGoodRegister == LoaderRegister!Spec

\* Every Refresh returns, with all refreshers queueing on one mutex, as long as
\* every Fetch does.
RefreshReturns == Scheduling => \A r \in Writers : lpc[r] = "lock" ~> lpc[r] = "idle"

\* loader.go, "Decide stays lock-free": every Decide returns even if a Refresh
\* hangs in its Fetch with the mutex held.
DecideReturns == \A d \in Readers : rpc[d] = "load" ~> rpc[d] = "idle"

Latest == published[Len(published)]

\* Once the source stays at a loadable policy, an application that keeps
\* refreshing ends up serving it, and keeps serving it.
Converges ==
    Scheduling /\ Polling =>
        <>[](published # <<>> /\ Latest \in Loadable => cur = SnapshotOf(Latest))
=============================================================================
