---------------------------- MODULE MemorySource ----------------------------
(***************************************************************************)
(* A Loader over the MemorySource of reference_sources.go.  NewMemorySource *)
(* keeps the caller's slice, not a copy of it, beside a version computed    *)
(* once; the caller may write to its slice, whole, while no Refresh runs    *)
(* (at another time it would race with the parser).                         *)
(***************************************************************************)
EXTENDS ContentVersion

CONSTANT NoDocument    \* before NewMemorySource

VARIABLES slice,       \* the bytes in the caller's slice
          document     \* history: those NewMemorySource was called with
mvars == <<vars, slice, document>>

\* What Fetch returns: the slice as it is now, the version as it was then.
Bundle(b, d) == [raw |-> b, version |-> contentVersion[d]]

ASSUME MemoryAssumption == /\ {Bundle(b, d) : b \in Documents, d \in Documents} \subseteq Bundles
                           /\ NoDocument \notin Documents

MInit == Init /\ slice = NoDocument /\ document = NoDocument

NewMemorySource(d) == /\ document = NoDocument
                      /\ document' = d
                      /\ slice' = d
                      /\ Publish(Bundle(d, d))

Write(b) == /\ document # NoDocument
            /\ Len(published) < MaxWrites
            /\ mu = NoOne
            /\ slice' = b
            /\ Publish(Bundle(b, document))
            /\ UNCHANGED document

\* Mutant: the version is computed anew by each Fetch.
FetchHashes(r) == /\ lpc[r] = "fetch"
                  /\ published' = Append(published, Bundle(slice, slice))
                  /\ fetched' = [fetched EXCEPT ![r] = Len(published) + 1]
                  /\ lpc' = [lpc EXCEPT ![r] = "gate"]
                  /\ UNCHANGED <<hvars, mu, servedAt, floor>>

\* Fetch never fails: the latest, at once.
Fetch(r) == FetchOk(r) /\ fetched'[r] = Len(published)

\* The host constructs the Loader over a source it has constructed.
LoaderStep == /\ document # NoDocument
              /\ \/ \E r \in Writers : CallRefresh(r) \/ Lock(r) \/ Fetch(r) \/ LocalStep(r)
                 \/ \E d \in Readers : CallLoaderDecide(d) \/ LoaderDecideStep(d)
              /\ UNCHANGED <<slice, document>>

MNext == (\E b \in Documents : NewMemorySource(b) \/ Write(b)) \/ LoaderStep
MSpec == MInit /\ [][MNext]_mvars

-----------------------------------------------------------------------------
(* Properties. *)

\* loader.go, parse-once-per-version: once a policy from the slice serves, whatever
\* the caller writes there does nothing to it: the version has not changed.
DeafToWrites == [][document # NoDocument /\ cur # NoSnapshot => cur' = cur]_mvars
=============================================================================
