---------------------------- MODULE LoaderProofs ----------------------------
(* Proofs about Holder for any writers, readers, byte strings, parser and   *)
(* verifiers; then about Loader, whose steps are Holder's or leave it alone, *)
(* for any refreshers, artifacts and versions, and any bound on the publisher. *)
EXTENDS Loader, TLAPS

-----------------------------------------------------------------------------
(* Holder. *)


\* A call in progress has its arguments, and a reader that waits to be stamped
\* holds the unstamped decision of the snapshot it captured.
InCall == \A w \in Writers : wpc[w] = "verify" => task[w] \in Tasks
Unstamped == \A d \in Readers : rpc[d] = "stamp" =>
                /\ snap[d] # NoSnapshot
                /\ dec[d] = [snapshot |-> NoId, rules |-> snap[d].rules]

HInv == HTypeOK /\ InCall /\ VerifiedBeforeParsed /\ Unstamped /\ Pinned

\* What a step of the readers and one of the writers each leave alone.
WriterInv == InCall /\ VerifiedBeforeParsed
ReaderInv == Unstamped /\ Pinned

\* A snapshot gives a decision, and its fields have their types.
LEMMA DecisionType ==
    ASSUME NEW s \in Snapshots \cup {NoSnapshot}
    PROVE  Decision(s) \in Decisions
BY DEF Decision, Decisions, FailClosed, Snapshots

\* The initial state satisfies the inductive invariant.
LEMMA HInitInv == HInit => HInv
BY HolderAssumption
   DEF HInit, HInv, HTypeOK, InCall, VerifiedBeforeParsed, Unstamped, Pinned,
       Decisions, FailClosed

\* A step of the writers, or a Set, keeps what concerns readers.
LEMMA ReaderVarsKept ==
    ASSUME HTypeOK, ReaderInv, UNCHANGED readerVars
    PROVE  ReaderInv'
BY DEF readerVars, ReaderInv, Unstamped, Pinned, Decision

\* A step of the readers, or a Set, keeps what concerns writers.
LEMMA WriterVarsKept ==
    ASSUME HTypeOK, WriterInv, UNCHANGED writerVars
    PROVE  WriterInv'
BY DEF writerVars, WriterInv, InCall, VerifiedBeforeParsed

\* Each step of a load keeps the types, and keeps verification before parsing
\* before storing.
LEMMA WriterStepInv ==
    ASSUME HTypeOK, WriterInv, NEW w \in Writers, WriterStep(w)
    PROVE  HTypeOK' /\ WriterInv'
<1> USE HolderAssumption DEF HTypeOK, WriterInv, InCall, VerifiedBeforeParsed, readerVars
<1>1. CASE \E i \in Ids, p \in Bytes : Load(w, i, p)
  <2>1. PICK i \in Ids, p \in Bytes : Load(w, i, p)
    BY <1>1
  <2>2. [id |-> i, raw |-> p, via |-> PassthroughVerifier] \in Tasks
    BY DEF Tasks
  <2>3. PassthroughVerifier[p] = p
    BY DEF PassthroughVerifier
  <2>4. HTypeOK'
    BY <2>1, <2>2 DEF Load
  <2>5. WriterInv'
    BY <2>1, <2>2, <2>3 DEF Load
  <2> QED BY <2>4, <2>5
<1>2. CASE \E i \in Ids, b \in Bytes, v \in Verifiers : LoadBundle(w, i, b, v)
  <2>1. PICK i \in Ids, b \in Bytes, v \in Verifiers : LoadBundle(w, i, b, v)
    BY <1>2
  <2>2. [id |-> i, raw |-> b, via |-> v] \in Tasks
    BY DEF Tasks
  <2> QED BY <2>1, <2>2 DEF LoadBundle
<1>3. CASE RefuseUnverified(w, NoVerifier)
  BY <1>3 DEF RefuseUnverified
<1>4. CASE Verify(w)
  <2>1. task[w].via[task[w].raw] \in Bytes \cup {Rejected}
    BY <1>4 DEF Verify, Tasks
  <2>2. HTypeOK'
    BY <1>4, <2>1 DEF Verify
  <2>3. WriterInv'
    BY <1>4, <2>1 DEF Verify
  <2> QED BY <2>2, <2>3
<1>5. CASE Parse(w)
  BY <1>5 DEF Parse
<1>6. CASE Store(w)
  <2>1. Built(w) \in Snapshots
    BY <1>6 DEF Store, Built, Snapshots, Tasks
  <2> QED BY <1>6, <2>1 DEF Store
<1>7. CASE LoadReturn(w)
  BY <1>7 DEF LoadReturn
<1> QED BY <1>1, <1>2, <1>3, <1>4, <1>5, <1>6, <1>7 DEF WriterStep, LoadStep

\* Each step of a Decide keeps the types, and keeps the decision that of the
\* captured snapshot.
LEMMA ReaderStepInv ==
    ASSUME HTypeOK, ReaderInv, NEW d \in Readers, ReaderStep(d)
    PROVE  HTypeOK' /\ ReaderInv'
<1> USE HolderAssumption DEF HTypeOK, ReaderInv, Unstamped, Pinned, writerVars
<1>1. CASE CallDecide(d)
  BY <1>1 DEF CallDecide, Decision
<1>2. CASE Capture(d)
  BY <1>2 DEF Capture, Decision
<1>3. CASE Evaluate(d)
  <2>1. CASE snap[d] = NoSnapshot
    <3>1. FailClosed \in Decisions
      BY DEF FailClosed, Decisions
    <3>2. HTypeOK'
      BY <1>3, <2>1, <3>1 DEF Evaluate
    <3>3. ReaderInv'
      BY <1>3, <2>1, <3>1 DEF Evaluate, Decision
    <3> QED BY <3>2, <3>3
  <2>2. CASE snap[d] # NoSnapshot
    <3>1. [snapshot |-> NoId, rules |-> snap[d].rules] \in Decisions
      BY <2>2 DEF Decisions, Snapshots
    <3>2. HTypeOK'
      BY <1>3, <2>2, <3>1 DEF Evaluate
    <3>3. ReaderInv'
      BY <1>3, <2>2, <3>1 DEF Evaluate, Decision
    <3> QED BY <3>2, <3>3
  <2> QED BY <2>1, <2>2
<1>4. CASE Stamp(d)
  <2>1. /\ snap[d] # NoSnapshot
        /\ dec[d] = [snapshot |-> NoId, rules |-> snap[d].rules]
    BY <1>4 DEF Stamp
  <2>2. [dec[d] EXCEPT !.snapshot = snap[d].id] = Decision(snap[d])
    BY <2>1 DEF Decision
  <2>3. Decision(snap[d]) \in Decisions
    BY DecisionType
  <2>4. dec' = [dec EXCEPT ![d] = Decision(snap[d])]
    BY <1>4, <2>2 DEF Stamp
  <2>5. HTypeOK'
    BY <1>4, <2>3, <2>4 DEF Stamp
  <2>6. ReaderInv'
    BY <1>4, <2>3, <2>4 DEF Stamp, Decision
  <2> QED BY <2>5, <2>6
<1>5. CASE DecideReturn(d)
  <2>1. FailClosed \in Decisions
    BY DEF FailClosed, Decisions
  <2> QED BY <1>5, <2>1 DEF DecideReturn, Decision
<1> QED BY <1>1, <1>2, <1>3, <1>4, <1>5 DEF ReaderStep, DecideStep

\* Readers leave the writers' variables and writers the readers'.
LEMMA ReadersOnlyRead ==
    ASSUME NEW d \in Readers, ReaderStep(d)
    PROVE  UNCHANGED cur /\ UNCHANGED writerVars
BY DEF ReaderStep, CallDecide, DecideStep, Capture, Evaluate, Stamp, DecideReturn

\* No step of a writer, or of the host, touches a call of Decide.
LEMMA WritersKeepReaders ==
    ASSUME NEW w \in Writers, WriterStep(w)
    PROVE  UNCHANGED readerVars
BY DEF WriterStep, Load, LoadBundle, RefuseUnverified, LoadStep, Verify, Parse, Store,
       LoadReturn

\* The invariant is inductive.
LEMMA HNextInv == HInv /\ [HNext]_hvars => HInv'
<1> SUFFICES ASSUME HInv, [HNext]_hvars PROVE HInv'
  OBVIOUS
<1>0. HTypeOK /\ WriterInv /\ ReaderInv
  BY DEF HInv, WriterInv, ReaderInv
<1>1. ASSUME NEW s \in Snapshots \cup {NoSnapshot}, Set(s)
      PROVE  HTypeOK' /\ WriterInv' /\ ReaderInv'
  BY <1>0, <1>1, ReaderVarsKept, WriterVarsKept DEF Set, HTypeOK, readerVars, writerVars
<1>2. ASSUME NEW w \in Writers, WriterStep(w)
      PROVE  HTypeOK' /\ WriterInv' /\ ReaderInv'
  BY <1>0, <1>2, WriterStepInv, WritersKeepReaders, ReaderVarsKept
<1>3. ASSUME NEW d \in Readers, ReaderStep(d)
      PROVE  HTypeOK' /\ WriterInv' /\ ReaderInv'
  BY <1>0, <1>3, ReaderStepInv, ReadersOnlyRead, WriterVarsKept
<1>4. ASSUME UNCHANGED hvars
      PROVE  HTypeOK' /\ WriterInv' /\ ReaderInv'
  BY <1>0, <1>4, ReaderVarsKept, WriterVarsKept
     DEF hvars, HTypeOK, writerVars, readerVars
<1>5. HTypeOK' /\ WriterInv' /\ ReaderInv'
  BY <1>1, <1>2, <1>3, <1>4 DEF HNext
<1> QED BY <1>5 DEF HInv, WriterInv, ReaderInv

\* The Holder's variables keep their types.
THEOREM HolderTypes == HSpec => []HTypeOK
BY HInitInv, HNextInv, PTL DEF HSpec, HInv

\* integrity.go, LoadBundle: nothing reaches the parser that the verifier of the call
\* did not return, in any interleaving of loads, sets and decisions.
THEOREM HolderVerifies == HSpec => []VerifiedBeforeParsed
BY HInitInv, HNextInv, PTL DEF HSpec, HInv

\* snapshot.go: a Decide answers by the one snapshot it captured, whatever is stored
\* while it runs.
THEOREM HolderDecisionsPinned == HSpec => []Pinned
BY HInitInv, HNextInv, PTL DEF HSpec, HInv

-----------------------------------------------------------------------------
\* A step of one load is a store of a verified and well-formed document, or it
\* leaves the pointer alone.
LEMMA WriterStores ==
    ASSUME HTypeOK, WriterInv, NEW w \in Writers, WriterStep(w)
    PROVE  cur' = cur \/ LoadStores(w)
<1>1. CASE Store(w)
  <2>1. /\ wpc[w] = "store"
        /\ policy[w] = task[w].via[task[w].raw]
        /\ policy[w] \in WellFormed
    BY <1>1 DEF Store, WriterInv, VerifiedBeforeParsed
  <2> QED BY <1>1, <2>1 DEF Store, Built, LoadStores
<1>2. CASE ~Store(w)
  BY <1>2 DEF WriterStep, LoadStep, Load, LoadBundle, RefuseUnverified, Verify, Parse,
              LoadReturn
<1> QED BY <1>1, <1>2

\* A failed load leaves the last known-good snapshot serving: unless the host
\* calls Set itself, the pointer moves only to a verified, well-formed document
\* under the id its load was given, for every parser, verifier and interleaving.
THEOREM HolderKeepsLastKnownGood == HSpec => LastKnownGood
<1>1. HInv /\ [HNext]_hvars =>
          [cur' = cur \/ HostSets \/ \E w \in Writers : LoadStores(w)]_hvars
  <2> SUFFICES ASSUME HInv, [HNext]_hvars
               PROVE  cur' = cur \/ HostSets \/ \E w \in Writers : LoadStores(w)
    BY DEF hvars
  <2>0. HTypeOK /\ WriterInv
    BY DEF HInv, WriterInv
  <2>1. ASSUME NEW s \in Snapshots \cup {NoSnapshot}, Set(s)
        PROVE  HostSets
    BY <2>1 DEF Set, HostSets
  <2>2. ASSUME NEW w \in Writers, WriterStep(w)
        PROVE  cur' = cur \/ LoadStores(w)
    BY <2>0, <2>2, WriterStores
  <2>3. ASSUME NEW d \in Readers, ReaderStep(d)
        PROVE  cur' = cur
    BY <2>3, ReadersOnlyRead
  <2>4. ASSUME UNCHANGED hvars
        PROVE  cur' = cur
    BY <2>4 DEF hvars
  <2> QED BY <2>1, <2>2, <2>3, <2>4 DEF HNext
<1> QED BY <1>1, HInitInv, HNextInv, PTL DEF HSpec, LastKnownGood

-----------------------------------------------------------------------------
\* Between its calls, and until its pointer load, a reader holds no answer.
Unanswered == \A d \in Readers : rpc[d] \in {"idle", "load"} => dec[d] = FailClosed

\* A reader that has not captured a snapshot holds no decision yet: at the start.
LEMMA UnansweredInv == HInit => Unanswered
BY DEF HInit, Unanswered

\* ... and after every step.
LEMMA UnansweredStep == HInv /\ Unanswered /\ [HNext]_hvars => Unanswered'
<1> SUFFICES ASSUME HInv, Unanswered, [HNext]_hvars PROVE Unanswered'
  OBVIOUS
<1>1. ASSUME UNCHANGED readerVars
      PROVE  Unanswered'
  BY <1>1 DEF readerVars, Unanswered
<1>2. ASSUME NEW d \in Readers, ReaderStep(d)
      PROVE  Unanswered'
  BY <1>2 DEF HInv, HTypeOK, Unanswered, ReaderStep, CallDecide, DecideStep, Capture,
              Evaluate, Stamp, DecideReturn
<1>3. [HNext]_hvars => UNCHANGED readerVars \/ \E d \in Readers : ReaderStep(d)
  BY WritersKeepReaders DEF HNext, Set, hvars
<1> QED BY <1>1, <1>2, <1>3

\* Each step of a reader is the step of the register that its phase calls for,
\* or computes an answer already fixed.
LEMMA ReaderRefines ==
    ASSUME HInv, Unanswered, NEW d \in Readers, ReaderStep(d)
    PROVE  \/ Register!Ask(d) \/ Register!Reply(d) \/ Register!Deliver(d)
           \/ UNCHANGED Register!vars
<1> USE DEF HInv, HTypeOK
<1>1. CASE CallDecide(d)
  <2>1. ReaderPhase' = [ReaderPhase EXCEPT ![d] = "asked"]
    BY <1>1 DEF CallDecide, ReaderPhase
  <2>2. ReaderAnswer' = ReaderAnswer
    BY <1>1 DEF CallDecide, ReaderAnswer, Decision
  <2> QED BY <1>1, <2>1, <2>2 DEF CallDecide, ReaderPhase, Register!Ask
<1>2. CASE Capture(d)
  <2>1. ReaderPhase' = [ReaderPhase EXCEPT ![d] = "answered"]
    BY <1>2 DEF Capture, ReaderPhase
  <2>2. ReaderAnswer' = [ReaderAnswer EXCEPT ![d] = Decision(cur)]
    BY <1>2 DEF Capture, ReaderAnswer, Decision
  <2> QED BY <1>2, <2>1, <2>2 DEF Capture, ReaderPhase, Register!Reply
<1>3. CASE Evaluate(d)
  <2>1. ReaderPhase' = ReaderPhase
    BY <1>3 DEF Evaluate, ReaderPhase
  <2>2. ReaderAnswer' = ReaderAnswer
    BY <1>3 DEF Evaluate, ReaderAnswer, Decision
  <2> QED BY <1>3, <2>1, <2>2 DEF Evaluate, Register!vars
<1>4. CASE Stamp(d)
  <2>1. ReaderPhase' = ReaderPhase
    BY <1>4 DEF Stamp, ReaderPhase
  <2>2. [dec[d] EXCEPT !.snapshot = snap[d].id] = Decision(snap[d])
    BY <1>4 DEF Stamp, Unstamped, Decision
  <2>3. dec' = [dec EXCEPT ![d] = Decision(snap[d])]
    BY <1>4, <2>2 DEF Stamp
  <2>4. ReaderAnswer' = ReaderAnswer
    BY <1>4, <2>3 DEF Stamp, ReaderAnswer, Decision
  <2> QED BY <1>4, <2>1, <2>4 DEF Stamp, Register!vars
<1>5. CASE DecideReturn(d)
  <2>1. ReaderPhase' = [ReaderPhase EXCEPT ![d] = "idle"]
    BY <1>5 DEF DecideReturn, ReaderPhase
  <2>2. ReaderAnswer' = [ReaderAnswer EXCEPT ![d] = FailClosed]
    BY <1>5 DEF DecideReturn, ReaderAnswer, Decision
  <2> QED BY <1>5, <2>1, <2>2 DEF DecideReturn, ReaderPhase, Register!Deliver
<1> QED BY <1>1, <1>2, <1>3, <1>4, <1>5 DEF ReaderStep, DecideStep

\* What readers see of a step of somebody else: at most the pointer moves.
LEMMA OthersRefine ==
    ASSUME UNCHANGED readerVars
    PROVE  UNCHANGED <<ReaderPhase, ReaderAnswer>>
BY DEF readerVars, ReaderPhase, ReaderAnswer, Decision

\* The Holder implements the register: every Decide returns the decision, id and
\* rules together, of one snapshot that was current at one moment of the call.
THEOREM HolderIsRegister == HSpec => IsRegister
<1>1. HInit => Register!Init
  BY DEF HInit, Register!Init, ReaderPhase, ReaderAnswer
<1>2. HInv /\ Unanswered /\ HInv' /\ [HNext]_hvars => [Register!Next]_(Register!vars)
  <2> SUFFICES ASSUME HInv, Unanswered, HInv', [HNext]_hvars
               PROVE  Register!Next \/ UNCHANGED Register!vars
    OBVIOUS
  <2>1. ASSUME UNCHANGED readerVars
        PROVE  Register!Next
    <3>1. cur' \in Snapshots \cup {NoSnapshot}
      BY DEF HInv, HTypeOK
    <3> QED BY <2>1, <3>1, OthersRefine DEF Register!Next, Register!Install
  <2>2. ASSUME NEW d \in Readers, ReaderStep(d)
        PROVE  Register!Next \/ UNCHANGED Register!vars
    BY <2>2, ReaderRefines DEF Register!Next
  <2>3. UNCHANGED readerVars \/ \E d \in Readers : ReaderStep(d)
    BY WritersKeepReaders DEF HNext, Set, hvars
  <2> QED BY <2>1, <2>2, <2>3
<1> QED BY <1>1, <1>2, HInitInv, HNextInv, UnansweredInv, UnansweredStep, PTL
        DEF HSpec, IsRegister, Register!Spec

-----------------------------------------------------------------------------
(* Loader. *)


\* The mutex is held exactly by the one Refresh that is past its Lock.
Mutex == \A r \in Writers : Inside(r) <=> mu = r

\* The Holder's pipeline runs for a refresher exactly while it is in LoadBundle.
Loading == \A r \in Writers : lpc[r] = "load" <=> wpc[r] # "idle"

\* The refresher inside has fetched a publication no older than the served one.
Fetched == \A r \in Writers :
    /\ lpc[r] \in {"fetch", "gate", "compare", "load", "refreshed"} => servedAt <= fetched[r]
    /\ lpc[r] \in {"gate", "compare", "load", "refreshed"} => fetched[r] > 0
    /\ lpc[r] \in {"compare", "load", "refreshed"} => published[fetched[r]].raw \notin Oversized

\* What it loads is what it fetched, and once stored, it is what serves.
LoadsFetched == \A r \in Writers :
    /\ wpc[r] \in {"verify", "parse", "store", "ok"} =>
          task[r] = [id |-> published[fetched[r]].version,
                     raw |-> published[fetched[r]].raw, via |-> verify]
    /\ wpc[r] = "ok" => servedAt = fetched[r]

\* The version being served is that of the publication recorded as served.
ServedVersion ==
    /\ cur = NoSnapshot <=> servedAt = 0
    /\ servedAt > 0 => cur.id = published[servedAt].version

Floors == \A d \in Readers : floor[d] <= servedAt

LTypeOK ==
    /\ published \in Seq(Bundles)
    /\ mu \in Writers \cup {NoOne}
    /\ lpc \in [Writers -> {"idle", "lock", "fetch", "gate", "compare", "load",
                            "refreshed", "failed"}]
    /\ fetched \in [Writers -> 0 .. Len(published)]
    /\ servedAt \in 0 .. Len(published)
    /\ floor \in [Readers -> 0 .. Len(published)]

LInv == /\ LTypeOK /\ Mutex /\ Loading /\ Fetched /\ LoadsFetched /\ ServedVersion
        /\ Floors /\ Acknowledged /\ NoReparseOfServed

\* The configured verifier is never nil.
LEMMA VerifyIsVerifier == verify \in Verifiers /\ verify # NoVerifier
BY HolderAssumption, LoaderAssumption DEF verify, WithVerifier

\* Publishing leaves every earlier publication in place.
LEMMA AppendKeeps ==
    ASSUME NEW s \in Seq(Bundles), NEW b \in Bundles
    PROVE  /\ Append(s, b) \in Seq(Bundles)
           /\ Len(s) \in Nat
           /\ Len(Append(s, b)) = Len(s) + 1
           /\ \A i \in 1 .. Len(s) : Append(s, b)[i] = s[i] /\ s[i] \in Bundles
OBVIOUS

\* Every step of a Loader is one its Holder allows, or does not touch the Holder.
LEMMA LoaderStepsHolder == LInv /\ [Next]_vars => [HNext]_hvars
<1> SUFFICES ASSUME LInv, [Next]_vars PROVE HNext \/ UNCHANGED hvars
  OBVIOUS
<1>1. ASSUME NEW b \in Bundles, Publish(b)
      PROVE  UNCHANGED hvars
  BY <1>1 DEF Publish
<1>2. ASSUME NEW r \in Writers,
             CallRefresh(r) \/ Lock(r) \/ FetchStep(r) \/ SizeGate(r)
                \/ SkipUnchanged(r) \/ Unlock(r)
      PROVE  UNCHANGED hvars
  BY <1>2 DEF CallRefresh, Lock, FetchStep, FetchOk, FetchErr, SizeGate, SkipUnchanged, Unlock
<1>3. ASSUME NEW r \in Writers, StartLoad(r)
      PROVE  WriterStep(r)
  <2>1. fetched[r] \in 1 .. Len(published)
    BY <1>3 DEF StartLoad, LInv, Fetched, LTypeOK
  <2>2. published[fetched[r]] \in Bundles
    BY <2>1 DEF LInv, LTypeOK
  <2>3. published[fetched[r]].raw \in Bytes /\ published[fetched[r]].version \in Ids
    BY <2>2, LoaderAssumption
  <2> QED BY <1>3, <2>3, VerifyIsVerifier DEF StartLoad, WriterStep
<1>4. ASSUME NEW r \in Writers, LoadBundleStep(r) \/ FinishLoad(r)
      PROVE  WriterStep(r)
  BY <1>4 DEF LoadBundleStep, FinishLoad, WriterStep
<1>5. ASSUME NEW d \in Readers, CallLoaderDecide(d) \/ LoaderDecideStep(d)
      PROVE  ReaderStep(d)
  BY <1>5 DEF CallLoaderDecide, LoaderDecideStep, ReaderStep
<1>6. ASSUME UNCHANGED vars
      PROVE  UNCHANGED hvars
  BY <1>6 DEF vars
<1> QED BY <1>1, <1>2, <1>3, <1>4, <1>5, <1>6 DEF Next, LocalStep, HNext

\* A new Loader has published, fetched and served nothing.
LEMMA LInitInv == Init => LInv
BY LoaderAssumption
   DEF Init, HInit, LInv, LTypeOK, Mutex, Inside, Loading, Fetched, LoadsFetched,
       ServedVersion, Floors, Acknowledged, NoReparseOfServed

\* The source may publish at any moment of a Refresh.
LEMMA PublishInv ==
    ASSUME HInv, LInv, NEW b \in Bundles, Publish(b)
    PROVE  LInv'
<1>1. /\ published' \in Seq(Bundles)
      /\ Len(published') = Len(published) + 1
      /\ \A i \in 1 .. Len(published) : published'[i] = published[i]
      /\ Len(published) \in Nat
  BY AppendKeeps DEF Publish, LInv, LTypeOK
<1>2. UNCHANGED <<cur, wpc, task, mu, lpc, fetched, servedAt, floor>>
  BY DEF Publish, hvars, writerVars, loaderVars
<1>3. LTypeOK'
  BY <1>1, <1>2 DEF LInv, LTypeOK
<1>4. Mutex' /\ Loading' /\ Floors' /\ Acknowledged' /\ NoReparseOfServed'
  BY <1>2 DEF LInv, Mutex, Inside, Loading, Floors, Acknowledged, NoReparseOfServed
<1>5. \A r \in Writers : fetched[r] > 0 => published'[fetched[r]] = published[fetched[r]]
  BY <1>1 DEF LInv, LTypeOK
<1>6. Fetched'
  BY <1>2, <1>5 DEF LInv, Fetched
<1>7. LoadsFetched'
  <2>1. \A r \in Writers : wpc[r] # "idle" => fetched[r] > 0
    BY DEF LInv, Loading, Fetched
  <2> QED BY <1>2, <1>5, <2>1 DEF LInv, LoadsFetched
<1>8. ServedVersion'
  BY <1>1, <1>2 DEF LInv, LTypeOK, ServedVersion
<1> QED BY <1>3, <1>4, <1>6, <1>7, <1>8 DEF LInv

\* While one refresher is inside, the others wait or have not called.
LEMMA Alone ==
    ASSUME LInv, NEW r \in Writers, Inside(r), NEW q \in Writers, q # r
    PROVE  lpc[q] \in {"idle", "lock"} /\ wpc[q] = "idle"
BY DEF LInv, Mutex, Inside, Loading

\* The bundle in the pipeline is the fetched one.
LEMMA TaskIsFetched ==
    ASSUME LInv, NEW r \in Writers, wpc[r] \in {"verify", "parse", "store", "ok"}
    PROVE  /\ task[r].id = published[fetched[r]].version
           /\ task[r].raw = published[fetched[r]].raw
           /\ task[r].via = verify
<1> DEFINE t == [id |-> published[fetched[r]].version,
                 raw |-> published[fetched[r]].raw, via |-> verify]
<1>1. task[r] = t
  BY DEF LInv, LoadsFetched
<1> QED BY <1>1

\* The steps of Refresh outside LoadBundle.
LEMMA RefreshInv ==
    ASSUME HInv, LInv, NEW r \in Writers,
           CallRefresh(r) \/ Lock(r) \/ FetchStep(r) \/ SizeGate(r)
              \/ SkipUnchanged(r) \/ Unlock(r)
    PROVE  LInv'
<1> USE LoaderAssumption
    DEF LInv, LTypeOK, Mutex, Inside, Loading, Fetched, LoadsFetched, ServedVersion,
        Floors, Acknowledged, NoReparseOfServed, Unchanged, hvars, writerVars, readerVars
<1>1. CASE CallRefresh(r)
  BY <1>1 DEF CallRefresh
<1>2. CASE Lock(r)
  <2>1. /\ lpc[r] = "lock" /\ mu = NoOne /\ mu' = r
        /\ lpc' = [lpc EXCEPT ![r] = "fetch"]
        /\ fetched' = [fetched EXCEPT ![r] = Len(published)]
        /\ UNCHANGED <<cur, wpc, task, published, servedAt, floor>>
    BY <1>2 DEF Lock
  <2>2. \A q \in Writers : lpc[q] \in {"idle", "lock"} /\ wpc[q] = "idle"
    BY <2>1
  <2>3. Len(published) \in Nat /\ servedAt <= Len(published)
    OBVIOUS
  <2>4. LTypeOK'
    BY <2>1, <2>3
  <2>5. Mutex' /\ Loading'
    BY <2>1, <2>2
  <2>6. Fetched'
    BY <2>1, <2>2, <2>3
  <2>7. LoadsFetched' /\ NoReparseOfServed'
    BY <2>1, <2>2
  <2>8. ServedVersion' /\ Floors' /\ Acknowledged'
    BY <2>1, <2>2
  <2> QED BY <2>4, <2>5, <2>6, <2>7, <2>8
<1>3. CASE FetchOk(r)
  <2>1. PICK g \in fetched[r] .. Len(published) :
               g > 0 /\ fetched' = [fetched EXCEPT ![r] = g]
    BY <1>3 DEF FetchOk
  <2>2. /\ lpc[r] = "fetch" /\ lpc' = [lpc EXCEPT ![r] = "gate"]
        /\ UNCHANGED <<cur, wpc, task, published, mu, servedAt, floor>>
    BY <1>3 DEF FetchOk
  <2>3. \A q \in Writers : q # r => lpc[q] \in {"idle", "lock"} /\ wpc[q] = "idle"
    BY <2>2, Alone
  <2>4. wpc[r] = "idle"
    BY <2>2
  <2>5. g \in 1 .. Len(published) /\ servedAt <= g
    BY <2>1, <2>2
  <2>6. LTypeOK'
    BY <2>1, <2>2, <2>5
  <2>7. Mutex' /\ Loading'
    BY <2>2, <2>3, <2>4
  <2>8. Fetched'
    BY <2>1, <2>2, <2>3, <2>5
  <2>9. LoadsFetched' /\ NoReparseOfServed'
    BY <2>2, <2>3, <2>4
  <2>10. ServedVersion' /\ Floors' /\ Acknowledged'
    BY <2>2, <2>3
  <2> QED BY <2>6, <2>7, <2>8, <2>9, <2>10
<1>4. CASE FetchErr(r)
  BY <1>4 DEF FetchErr
<1>5. CASE SizeGate(r)
  BY <1>5 DEF SizeGate
<1>6. CASE SkipUnchanged(r)
  <2>1. /\ fetched[r] \in 1 .. Len(published)
        /\ servedAt <= fetched[r]
        /\ servedAt' = fetched[r]
        /\ lpc' = [lpc EXCEPT ![r] = "refreshed"]
        /\ UNCHANGED <<cur, wpc, task, published, mu, fetched, floor>>
    BY <1>6 DEF SkipUnchanged, loaderVars
  <2>2. cur # NoSnapshot /\ cur.id = published[fetched[r]].version
    BY <1>6 DEF SkipUnchanged
  <2>3. \A q \in Writers : q # r => lpc[q] \in {"idle", "lock"} /\ wpc[q] = "idle"
    BY <1>6, Alone DEF SkipUnchanged
  <2>4. wpc[r] = "idle"
    BY <1>6 DEF SkipUnchanged
  <2>5. LTypeOK'
    BY <2>1
  <2>6. Mutex' /\ Loading'
    BY <1>6, <2>1, <2>3, <2>4 DEF SkipUnchanged
  <2>7. Fetched'
    BY <1>6, <2>1, <2>3 DEF SkipUnchanged
  <2>10. LoadsFetched'
    BY <2>1, <2>3, <2>4
  <2>11. Acknowledged'
    BY <1>6, <2>1, <2>3 DEF SkipUnchanged
  <2>8. ServedVersion'
    BY <2>1, <2>2
  <2>9. Floors' /\ NoReparseOfServed'
    BY <2>1, <2>3, <2>4
  <2> QED BY <2>5, <2>6, <2>7, <2>8, <2>9, <2>10, <2>11
<1>7. CASE Unlock(r)
  BY <1>7 DEF Unlock
<1> QED BY <1>1, <1>2, <1>3, <1>4, <1>5, <1>6, <1>7 DEF FetchStep

\* The atomic store: the fetched publication becomes the one that serves.
LEMMA StoreInv ==
    ASSUME HInv, LInv, NEW r \in Writers, LoadBundleStep(r), Store(r)
    PROVE  LInv'
<1>1. /\ UNCHANGED <<task, published, mu, lpc, fetched, floor>>
      /\ lpc[r] = "load"
      /\ wpc[r] = "store"
      /\ wpc' = [wpc EXCEPT ![r] = "ok"]
      /\ cur' = Built(r)
      /\ servedAt' = fetched[r]
  BY DEF LoadBundleStep, Store, loaderVars
<1>2. wpc \in [Writers -> {"idle", "verify", "parse", "store", "ok", "err"}]
  BY DEF HInv, HTypeOK
<1>3. /\ fetched[r] \in 1 .. Len(published)
      /\ Len(published) \in Nat
      /\ servedAt \in Nat
      /\ servedAt <= fetched[r]
      /\ published[fetched[r]].raw \notin Oversized
  BY <1>1 DEF LInv, LTypeOK, Fetched
<1>4. \A q \in Writers : q # r => lpc[q] \in {"idle", "lock"} /\ wpc[q] = "idle"
  BY <1>1, Alone DEF Inside
<1>5. cur' # NoSnapshot /\ cur'.id = published[fetched[r]].version
  <2>1. cur' \in Snapshots
    BY <1>1, HolderAssumption DEF HInv, HTypeOK, VerifiedBeforeParsed, Built, Snapshots, Tasks
  <2>2. task[r].id = published[fetched[r]].version
    BY <1>1, TaskIsFetched
  <2> QED BY <1>1, <2>1, <2>2, HolderAssumption DEF Built
<1>6. LTypeOK'
  BY <1>1, <1>3 DEF LInv, LTypeOK
<1>7. Mutex'
  BY <1>1 DEF LInv, Mutex, Inside
<1>8. Loading'
  BY <1>1, <1>2 DEF LInv, Loading
<1>9. Fetched'
  <2> SUFFICES ASSUME NEW q \in Writers,
                      lpc[q] \in {"fetch", "gate", "compare", "load", "refreshed"}
               PROVE  fetched[q] > 0 /\ fetched[r] <= fetched[q]
                      /\ published[fetched[q]].raw \notin Oversized
    BY <1>1 DEF Fetched
  <2>1. q = r
    BY <1>4
  <2> QED BY <1>3, <2>1
<1>10. LoadsFetched'
  <2> SUFFICES ASSUME NEW q \in Writers, wpc'[q] \in {"verify", "parse", "store", "ok"}
               PROVE  /\ task[q] = [id |-> published[fetched[q]].version,
                                    raw |-> published[fetched[q]].raw, via |-> verify]
                      /\ fetched[r] = fetched[q]
    BY <1>1 DEF LoadsFetched
  <2>1. q = r
    BY <1>1, <1>2, <1>4
  <2> QED BY <1>1, <2>1 DEF LInv, LoadsFetched
<1>11. ServedVersion'
  BY <1>1, <1>3, <1>5 DEF ServedVersion
<1>12. Floors'
  BY <1>1, <1>3 DEF LInv, LTypeOK, Floors
<1>13. Acknowledged'
  <2>1. \A q \in Writers : lpc[q] # "refreshed"
    BY <1>1, <1>4
  <2> QED BY <1>1, <2>1 DEF Acknowledged
<1>14. NoReparseOfServed'
  <2>1. \A q \in Writers : wpc'[q] \notin {"verify", "parse", "store"}
    BY <1>1, <1>2, <1>4
  <2> QED BY <2>1 DEF NoReparseOfServed
<1> QED BY <1>6, <1>7, <1>8, <1>9, <1>10, <1>11, <1>12, <1>13, <1>14 DEF LInv

\* LoadBundle returns to Refresh: after a store, what was fetched is what serves.
LEMMA FinishInv ==
    ASSUME HInv, LInv, NEW r \in Writers, FinishLoad(r)
    PROVE  LInv'
<1>1. /\ UNCHANGED <<cur, published, mu, fetched, servedAt, floor>>
      /\ lpc[r] = "load"
      /\ wpc[r] \in {"ok", "err"}
      /\ wpc' = [wpc EXCEPT ![r] = "idle"]
      /\ task' = [task EXCEPT ![r] = NoTask]
      /\ lpc' = [lpc EXCEPT ![r] = IF wpc[r] = "ok" THEN "refreshed" ELSE "failed"]
  BY DEF FinishLoad, LoadReturn
<1>2. /\ wpc \in [Writers -> {"idle", "verify", "parse", "store", "ok", "err"}]
      /\ task \in [Writers -> Tasks \cup {NoTask}]
      /\ lpc \in [Writers -> {"idle", "lock", "fetch", "gate", "compare", "load",
                              "refreshed", "failed"}]
  BY DEF HInv, HTypeOK, LInv, LTypeOK
<1>3. /\ lpc'[r] \in {"refreshed", "failed"}
      /\ lpc'[r] = "refreshed" => wpc[r] = "ok"
      /\ wpc'[r] = "idle"
      /\ \A q \in Writers : q # r => /\ lpc'[q] = lpc[q]
                                     /\ wpc'[q] = wpc[q]
                                     /\ task'[q] = task[q]
  BY <1>1, <1>2
<1>4. LTypeOK'
  BY <1>1, <1>2 DEF LInv, LTypeOK
<1>5. Mutex'
  BY <1>1, <1>3 DEF LInv, Mutex, Inside
<1>6. Loading'
  BY <1>3 DEF LInv, Loading
<1>7. Fetched'
  BY <1>1, <1>3 DEF LInv, Fetched
<1>8. LoadsFetched'
  BY <1>1, <1>3 DEF LInv, LoadsFetched
<1>9. ServedVersion' /\ Floors'
  BY <1>1 DEF LInv, ServedVersion, Floors
<1>10. Acknowledged'
  <2>1. fetched[r] > 0 /\ (wpc[r] = "ok" => servedAt = fetched[r])
    BY <1>1 DEF LInv, Fetched, LoadsFetched
  <2> QED BY <1>1, <1>3, <2>1 DEF LInv, Acknowledged
<1>11. NoReparseOfServed'
  BY <1>1, <1>3 DEF LInv, NoReparseOfServed
<1> QED BY <1>4, <1>5, <1>6, <1>7, <1>8, <1>9, <1>10, <1>11 DEF LInv

\* LoadBundle, step by step.
LEMMA LoadInv ==
    ASSUME HInv, HInv', LInv, NEW r \in Writers,
           StartLoad(r) \/ LoadBundleStep(r) \/ FinishLoad(r)
    PROVE  LInv'
<1> USE LoaderAssumption
    DEF LInv, LTypeOK, Mutex, Inside, Loading, Fetched, LoadsFetched, ServedVersion,
        Floors, Acknowledged, NoReparseOfServed
<1>0. \A q \in Writers : q # r => lpc[q] \in {"idle", "lock"} /\ wpc[q] = "idle"
  BY Alone DEF StartLoad, LoadBundleStep, FinishLoad
<1>1. CASE StartLoad(r)
  <2>1. /\ wpc' = [wpc EXCEPT ![r] = "verify"]
        /\ task' = [task EXCEPT ![r] = [id |-> published[fetched[r]].version,
                                        raw |-> published[fetched[r]].raw, via |-> verify]]
        /\ lpc' = [lpc EXCEPT ![r] = "load"]
        /\ UNCHANGED <<cur, published, mu, fetched, servedAt, floor>>
    BY <1>1 DEF StartLoad, LoadBundle
  <2>2. wpc \in [Writers -> {"idle", "verify", "parse", "store", "ok", "err"}]
    BY DEF HInv, HTypeOK
  <2>3. task \in [Writers -> Tasks \cup {NoTask}]
    BY DEF HInv, HTypeOK
  <2>4. lpc[r] = "compare" /\ ~Unchanged(r)
    BY <1>1 DEF StartLoad
  <2>5. NoReparseOfServed'
    BY <1>0, <2>1, <2>2, <2>3, <2>4 DEF Unchanged
  <2>6. LTypeOK' /\ Mutex' /\ Loading' /\ Fetched' /\ ServedVersion' /\ Floors' /\ Acknowledged'
    BY <2>1, <2>2, <2>4
  <2>7. LoadsFetched'
    BY <1>0, <2>1, <2>2, <2>3
  <2> QED BY <2>5, <2>6, <2>7
<1>2. CASE LoadBundleStep(r) /\ ~Store(r)
  <2>1. /\ UNCHANGED <<cur, task, published, mu, lpc, fetched, servedAt, floor>>
        /\ lpc[r] = "load"
        /\ wpc[r] \in {"verify", "parse"}
        /\ \/ wpc' = [wpc EXCEPT ![r] = "parse"]
           \/ wpc' = [wpc EXCEPT ![r] = "store"]
           \/ wpc' = [wpc EXCEPT ![r] = "err"]
    BY <1>2 DEF LoadBundleStep, LoadStep, Verify, Parse, loaderVars
  <2>2. wpc \in [Writers -> {"idle", "verify", "parse", "store", "ok", "err"}]
    BY DEF HInv, HTypeOK
  <2> QED BY <2>1, <2>2
<1>3. CASE LoadBundleStep(r) /\ Store(r)
  BY <1>3, StoreInv
<1>4. CASE FinishLoad(r)
  BY <1>4, FinishInv
<1> QED BY <1>1, <1>2, <1>3, <1>4

\* A Decide touches nothing of the Loader but its own floor.
LEMMA LoaderDecideInv ==
    ASSUME HInv, LInv, NEW d \in Readers, CallLoaderDecide(d) \/ LoaderDecideStep(d)
    PROVE  LInv'
<1>1. UNCHANGED <<cur, wpc, task, published, mu, lpc, fetched, servedAt>>
  BY ReadersOnlyRead
     DEF CallLoaderDecide, LoaderDecideStep, ReaderStep, writerVars, loaderVars
<1>2. UNCHANGED floor \/ floor' = [floor EXCEPT ![d] = servedAt]
  BY DEF CallLoaderDecide, LoaderDecideStep
<1>3. LTypeOK' /\ Floors'
  BY <1>1, <1>2 DEF LInv, LTypeOK, Floors
<1> QED BY <1>1, <1>3
        DEF LInv, Mutex, Inside, Loading, Fetched, LoadsFetched, ServedVersion,
            Acknowledged, NoReparseOfServed

\* Together with the Holder's invariant, the Loader's is inductive.
LEMMA LNextInv == HInv /\ HInv' /\ LInv /\ [Next]_vars => LInv'
<1> SUFFICES ASSUME HInv, HInv', LInv, [Next]_vars PROVE LInv'
  OBVIOUS
<1>1. ASSUME UNCHANGED vars
      PROVE  LInv'
  BY <1>1 DEF vars, hvars, writerVars, loaderVars, LInv, LTypeOK, Mutex, Inside, Loading,
              Fetched, LoadsFetched, ServedVersion, Floors, Acknowledged, NoReparseOfServed
<1> QED BY <1>1, PublishInv, RefreshInv, LoadInv, LoaderDecideInv DEF Next, LocalStep

-----------------------------------------------------------------------------
\* A Loader uses its Holder only as the Holder allows: all that is proved of a
\* Holder holds of the one inside a Loader.
THEOREM LoaderIsHolder == Spec => HSpec
<1>1. Init => HInit
  BY DEF Init
<1> QED BY <1>1, HInitInv, HNextInv, LInitInv, LNextInv, LoaderStepsHolder, PTL
        DEF Spec, HSpec

\* The two invariants hold in every state.
LEMMA LoaderInvariant == Spec => [](HInv /\ LInv)
BY LoaderStepsHolder, HInitInv, HNextInv, LInitInv, LNextInv, PTL DEF Init, Spec

\* The Loader's variables keep their types.
THEOREM LoaderTypes == Spec => []TypeOK
<1>1. HInv /\ LInv => TypeOK
  BY DEF HInv, LInv, LTypeOK, TypeOK
<1> QED BY <1>1, LoaderInvariant, PTL

\* A Refresh about to return nil serves what it fetched, however many race.
THEOREM LoaderAcknowledges == Spec => []Acknowledged
BY LoaderInvariant, PTL DEF LInv

\* A version that is being loaded is not the one served, however many race.
THEOREM LoaderSkipsServed == Spec => []NoReparseOfServed
BY LoaderInvariant, PTL DEF LInv

\* What each step does to the pointer and to the record of what it serves.
LEMMA ServedCases ==
    ASSUME LInv, [Next]_vars
    PROVE  \/ servedAt' = servedAt /\ cur' = cur
           \/ \E r \in Writers : SkipUnchanged(r)
           \/ \E r \in Writers : LoadBundleStep(r) /\ Store(r)
<1>1. ASSUME NEW r \in Writers, LoadBundleStep(r), ~Store(r)
      PROVE  servedAt' = servedAt /\ cur' = cur
  BY <1>1 DEF LoadBundleStep, LoadStep, Verify, Parse
<1>2. ASSUME NEW d \in Readers, CallLoaderDecide(d) \/ LoaderDecideStep(d)
      PROVE  servedAt' = servedAt /\ cur' = cur
  BY <1>2, ReadersOnlyRead DEF CallLoaderDecide, LoaderDecideStep, ReaderStep
<1>3. ASSUME NEW r \in Writers,
             CallRefresh(r) \/ Lock(r) \/ FetchStep(r) \/ SizeGate(r)
                \/ StartLoad(r) \/ FinishLoad(r) \/ Unlock(r)
      PROVE  servedAt' = servedAt /\ cur' = cur
  BY <1>3 DEF CallRefresh, Lock, FetchStep, FetchOk, FetchErr, SizeGate, StartLoad,
              LoadBundle, FinishLoad, LoadReturn, Unlock, hvars
<1>4. ASSUME NEW b \in Bundles, Publish(b)
      PROVE  servedAt' = servedAt /\ cur' = cur
  BY <1>4 DEF Publish, hvars
<1>5. ASSUME UNCHANGED vars
      PROVE  servedAt' = servedAt /\ cur' = cur
  BY <1>5 DEF vars, hvars
<1> QED BY <1>1, <1>2, <1>3, <1>4, <1>5 DEF Next, LocalStep

\* Racing refreshes never roll the served policy back, nor clear it.
THEOREM LoaderNeverRollsBack == Spec => NoRollback
<1> DEFINE Forward == /\ servedAt' >= servedAt
                      /\ cur' # cur => servedAt' > servedAt /\ cur' # NoSnapshot
<1>1. HInv /\ HInv' /\ LInv /\ LInv' /\ [Next]_vars => [Forward]_vars
  <2> SUFFICES ASSUME HInv, HInv', LInv, LInv', [Next]_vars
               PROVE  Forward
    OBVIOUS
  <2>1. CASE servedAt' = servedAt /\ cur' = cur
    BY <2>1 DEF LInv, LTypeOK
  <2>2. ASSUME NEW r \in Writers, SkipUnchanged(r)
        PROVE  Forward
    BY <2>2 DEF SkipUnchanged, LInv, LTypeOK, Fetched, hvars
  <2>3. ASSUME NEW r \in Writers, LoadBundleStep(r), Store(r)
        PROVE  Forward
    <3>1. /\ wpc[r] = "store"
          /\ servedAt' = fetched[r]
          /\ lpc[r] = "load"
      BY <2>3 DEF LoadBundleStep, Store
    <3>2. servedAt <= fetched[r] /\ fetched[r] \in 1 .. Len(published)
      BY <3>1 DEF LInv, LTypeOK, Fetched
    <3>3. servedAt # fetched[r]
      <4>1. task[r].id = published[fetched[r]].version
        BY <3>1, TaskIsFetched
      <4>2. cur # NoSnapshot => cur.id # task[r].id
        BY <3>1 DEF LInv, NoReparseOfServed
      <4> QED BY <3>2, <4>1, <4>2 DEF LInv, LTypeOK, ServedVersion
    <3>4. cur' # NoSnapshot
      BY <3>1, <3>2 DEF LInv, ServedVersion
    <3> QED BY <3>1, <3>2, <3>3, <3>4 DEF LInv, LTypeOK
  <2> QED BY <2>1, <2>2, <2>3, ServedCases
<1> QED BY <1>1, LoaderStepsHolder, HInitInv, HNextInv, LInitInv, LNextInv, PTL
        DEF Init, Spec, NoRollback

-----------------------------------------------------------------------------
\* With faithful versions the rules that serve are the rules of the publication
\* recorded as served, not only its version.
ServedRules == servedAt > 0 => /\ published[servedAt] \in Loadable
                               /\ cur = SnapshotOf(published[servedAt])

\* The publication about to be stored is loadable, and the store serves it.
LEMMA StoreServes ==
    ASSUME HInv, LInv, NEW r \in Writers, lpc[r] = "load", Store(r)
    PROVE  /\ published[fetched[r]] \in Loadable
           /\ cur' = SnapshotOf(published[fetched[r]])
<1>1. wpc[r] = "store" /\ cur' = Built(r)
  BY DEF Store
<1>2. /\ task[r].id = published[fetched[r]].version
      /\ task[r].raw = published[fetched[r]].raw
      /\ task[r].via = verify
  BY <1>1, TaskIsFetched
<1>3. policy[r] = task[r].via[task[r].raw] /\ policy[r] \in WellFormed
  BY <1>1 DEF HInv, VerifiedBeforeParsed
<1>4. fetched[r] \in 1 .. Len(published) /\ published[fetched[r]].raw \notin Oversized
  BY DEF LInv, LTypeOK, Fetched
<1>5. published[fetched[r]] \in Bundles
  BY <1>4 DEF LInv, LTypeOK
<1> QED BY <1>1, <1>2, <1>3, <1>4, <1>5 DEF Loadable, Built, SnapshotOf

\* A publication recorded stays where it is.
LEMMA PublishedKept ==
    ASSUME LInv, [Next]_vars
    PROVE  /\ Len(published) \in Nat /\ Len(published') \in Nat
           /\ Len(published) <= Len(published')
           /\ \A g \in 1 .. Len(published) : published'[g] = published[g]
<1>1. published' = published \/ \E b \in Bundles : published' = Append(published, b)
  BY DEF Next, vars, hvars, Publish, CallRefresh, Lock, FetchStep, FetchOk, FetchErr,
         LocalStep, SizeGate, SkipUnchanged, StartLoad, LoadBundleStep, FinishLoad,
         Unlock, CallLoaderDecide, LoaderDecideStep
<1>2. published \in Seq(Bundles) /\ Len(published) \in Nat
  BY DEF LInv, LTypeOK
<1>3. CASE published' = published
  BY <1>2, <1>3
<1>4. ASSUME NEW b \in Bundles, published' = Append(published, b)
      PROVE  /\ Len(published') = Len(published) + 1
             /\ \A g \in 1 .. Len(published) : published'[g] = published[g]
  BY <1>2, <1>4, AppendKeeps
<1> QED BY <1>1, <1>2, <1>3, <1>4

\* The publisher and the version skip leave rules and record in step; a store
\* brings in the fetched publication's.
LEMMA ServedRulesStep ==
    ASSUME VersionsAreFaithful, HInv, LInv, ServedRules, [Next]_vars
    PROVE  ServedRules'
<1>1. CASE servedAt' = servedAt /\ cur' = cur
  <2>2. servedAt > 0 => published'[servedAt] = published[servedAt]
    BY PublishedKept DEF LInv, LTypeOK
  <2> QED BY <1>1, <2>2 DEF ServedRules
<1>2. ASSUME NEW r \in Writers, SkipUnchanged(r)
      PROVE  ServedRules'
  <2>1. /\ servedAt' = fetched[r]
        /\ cur' = cur
        /\ published' = published
        /\ cur # NoSnapshot
        /\ cur.id = published[fetched[r]].version
        /\ lpc[r] = "compare"
    BY <1>2 DEF SkipUnchanged, Unchanged, hvars
  <2>2. servedAt > 0 /\ servedAt \in 1 .. Len(published)
    BY <2>1 DEF LInv, LTypeOK, ServedVersion
  <2>3. /\ fetched[r] \in 1 .. Len(published)
        /\ published[fetched[r]].raw \notin Oversized
    BY <2>1 DEF LInv, LTypeOK, Fetched
  <2>4. published[fetched[r]] \in Bundles /\ published[fetched[r]].raw \notin Oversized
    BY <2>3 DEF LInv, LTypeOK
  <2>5. published[servedAt] \in Loadable /\ cur = SnapshotOf(published[servedAt])
    BY <2>2 DEF ServedRules
  <2>6. published[servedAt].version = published[fetched[r]].version
    BY <2>1, <2>2 DEF LInv, ServedVersion
  <2>7. verify[published[servedAt].raw] = verify[published[fetched[r]].raw]
    BY <2>4, <2>5, <2>6 DEF VersionsAreFaithful, Loadable
  <2> QED BY <2>1, <2>4, <2>5, <2>6, <2>7 DEF ServedRules, Loadable, SnapshotOf
<1>3. ASSUME NEW r \in Writers, LoadBundleStep(r), Store(r)
      PROVE  ServedRules'
  <2>1. /\ servedAt' = fetched[r]
        /\ published' = published
        /\ lpc[r] = "load"
    BY <1>3 DEF LoadBundleStep, Store
  <2> QED BY <1>3, <2>1, StoreServes DEF ServedRules
<1> QED BY <1>1, <1>2, <1>3, ServedCases

\* If the source's versions are faithful, what serves is always, whole, what the
\* source published at the publication recorded: verified, parsed, within size.
THEOREM LoaderServesPublished ==
    ASSUME VersionsAreFaithful
    PROVE  Spec => []ServesPublished
<1>1. Init => ServedRules
  BY DEF Init, ServedRules
<1>2. HInv /\ LInv /\ ServedRules /\ [Next]_vars => ServedRules'
  BY ServedRulesStep
<1>3. LInv /\ ServedRules => ServesPublished
  BY DEF LInv, ServedVersion, ServedRules, ServesPublished
<1> QED BY <1>1, <1>2, <1>3, LoaderStepsHolder, HInitInv, HNextInv, LInitInv, LNextInv, PTL
        DEF Init, Spec

-----------------------------------------------------------------------------
\* A reader past its pointer load holds a publication no older than the one that
\* served when it called.
Recent == \A d \in Readers :
    rpc[d] \in {"evaluate", "stamp", "done"} /\ floor[d] > 0 =>
        \E g \in floor[d] .. Len(published) : snap[d] = SnapshotOf(published[g])

\* Every step keeps what a Decide has captured as recent as its call.
LEMMA RecentStep ==
    ASSUME HInv, LInv, LInv', ServedRules, Recent, [Next]_vars
    PROVE  Recent'
<1> SUFFICES ASSUME NEW d \in Readers,
                    rpc'[d] \in {"evaluate", "stamp", "done"}, floor'[d] > 0
             PROVE  \E g \in floor'[d] .. Len(published') : snap'[d] = SnapshotOf(published'[g])
  BY DEF Recent
<1>1. ASSUME rpc[d] \in {"evaluate", "stamp", "done"}, snap'[d] = snap[d], floor'[d] = floor[d]
      PROVE  \E g \in floor'[d] .. Len(published') : snap'[d] = SnapshotOf(published'[g])
  <2>1. PICK g \in floor[d] .. Len(published) : snap[d] = SnapshotOf(published[g])
    BY <1>1 DEF Recent
  <2>2. floor[d] \in Nat /\ floor[d] > 0
    BY <1>1 DEF LInv, LTypeOK
  <2>3. g \in 1 .. Len(published) /\ g \in floor'[d] .. Len(published')
    BY <1>1, <2>2, PublishedKept
  <2>4. published'[g] = published[g]
    BY <2>3, PublishedKept
  <2> QED BY <1>1, <2>1, <2>3, <2>4
<1>2. ASSUME NEW e \in Readers, ReaderStep(e),
             CallLoaderDecide(e) \/ LoaderDecideStep(e), e # d
      PROVE  rpc[d] = rpc'[d] /\ snap'[d] = snap[d] /\ floor'[d] = floor[d]
  BY <1>2 DEF HInv, HTypeOK, LInv, LTypeOK, CallLoaderDecide, LoaderDecideStep, CallDecide,
              DecideStep, Capture, Evaluate, Stamp, DecideReturn
<1>3. ASSUME LoaderDecideStep(d), ~Capture(d)
      PROVE  /\ rpc[d] \in {"evaluate", "stamp", "done"}
             /\ snap'[d] = snap[d] /\ floor'[d] = floor[d]
  BY <1>3 DEF HInv, HTypeOK, LoaderDecideStep, DecideStep, Evaluate, Stamp, DecideReturn
<1>4. ASSUME LoaderDecideStep(d), Capture(d)
      PROVE  \E g \in floor'[d] .. Len(published') : snap'[d] = SnapshotOf(published'[g])
  <2>1. snap'[d] = cur /\ floor'[d] = floor[d] /\ published' = published
    BY <1>4 DEF LoaderDecideStep, Capture, HInv, HTypeOK
  <2>2. /\ floor[d] \in Nat /\ floor[d] <= servedAt
        /\ servedAt \in 0 .. Len(published) /\ Len(published) \in Nat
    BY PublishedKept DEF LInv, LTypeOK, Floors
  <2>3. servedAt > 0 /\ servedAt \in floor[d] .. Len(published)
    BY <2>1, <2>2
  <2>4. cur = SnapshotOf(published[servedAt])
    BY <2>3 DEF ServedRules
  <2> QED BY <2>1, <2>3, <2>4
<1>5. ~CallLoaderDecide(d)
  BY DEF CallLoaderDecide, CallDecide, HInv, HTypeOK
<1>6. ASSUME NEW r \in Writers,
             CallRefresh(r) \/ Lock(r) \/ FetchStep(r) \/ LocalStep(r)
      PROVE  UNCHANGED <<rpc, snap, floor>>
  BY <1>6, WritersKeepReaders
     DEF CallRefresh, Lock, FetchStep, FetchOk, FetchErr, LocalStep, SizeGate,
         SkipUnchanged, StartLoad, LoadBundle, LoadBundleStep, LoadStep, Verify, Parse,
         Store, FinishLoad, LoadReturn, Unlock, hvars, readerVars
<1>7. ASSUME NEW b \in Bundles, Publish(b)
      PROVE  UNCHANGED <<rpc, snap, floor>>
  BY <1>7 DEF Publish, hvars, readerVars
<1>8. ASSUME UNCHANGED vars
      PROVE  UNCHANGED <<rpc, snap, floor>>
  BY <1>8 DEF vars, hvars, readerVars
<1>9. ASSUME NEW e \in Readers, CallLoaderDecide(e) \/ LoaderDecideStep(e)
      PROVE  ReaderStep(e)
  BY <1>9 DEF CallLoaderDecide, LoaderDecideStep, ReaderStep
<1> QED BY <1>1, <1>2, <1>3, <1>4, <1>5, <1>6, <1>7, <1>8, <1>9 DEF Next

\* If the source's versions are faithful, a Decide called after a Refresh returned
\* nil decides with the policy of that Refresh or of a later publication.
THEOREM LoaderDecisionIsRecent ==
    ASSUME VersionsAreFaithful
    PROVE  Spec => []DecisionIsRecent
<1>1. Init => ServedRules /\ Recent
  BY DEF Init, HInit, ServedRules, Recent
<1>2. HInv /\ LInv /\ ServedRules /\ [Next]_vars => ServedRules'
  BY ServedRulesStep
<1>3. HInv /\ LInv /\ LInv' /\ ServedRules /\ Recent /\ [Next]_vars => Recent'
  BY RecentStep
<1>4. HInv /\ Recent => DecisionIsRecent
  BY DEF HInv, Pinned, Recent, DecisionIsRecent
<1> QED BY <1>1, <1>2, <1>3, <1>4, LoaderStepsHolder, HInitInv, HNextInv, LInitInv,
           LNextInv, PTL
        DEF Init, Spec

-----------------------------------------------------------------------------
\* The reader's steps on the two registers are the same steps.
LEMMA SameReaderSteps ==
    ASSUME NEW d \in Readers
    PROVE  /\ Register!Ask(d) => LoaderRegister!Ask(d)
           /\ Register!Reply(d) => LoaderRegister!Reply(d)
           /\ Register!Deliver(d) => LoaderRegister!Deliver(d)
BY DEF Register!Ask, Register!Reply, Register!Deliver,
       LoaderRegister!Ask, LoaderRegister!Reply, LoaderRegister!Deliver

\* Seen by its readers, a Loader is a register that moves only to snapshots of
\* loadable artifacts, with each Decide answered by a value that was current
\* during its call: last known-good, without any assumption on versions.
THEOREM LoaderIsGoodRegister == Spec => IsGoodRegister
<1>1. Init => LoaderRegister!Init
  BY DEF Init, HInit, LoaderRegister!Init, ReaderPhase, ReaderAnswer
<1>2. HInv /\ LInv /\ Unanswered /\ [Next]_vars
          => [LoaderRegister!Next]_(LoaderRegister!vars)
  <2> SUFFICES ASSUME HInv, LInv, Unanswered, [Next]_vars
               PROVE  LoaderRegister!Next \/ UNCHANGED LoaderRegister!vars
    OBVIOUS
  <2>1. ASSUME NEW r \in Writers, LoadBundleStep(r), Store(r)
        PROVE  LoaderRegister!Next
    <3>1. UNCHANGED <<ReaderPhase, ReaderAnswer>>
      BY <2>1, OthersRefine DEF Store
    <3>2. cur' \in {SnapshotOf(b) : b \in Loadable}
      BY <2>1, StoreServes DEF LoadBundleStep
    <3> QED BY <3>1, <3>2 DEF LoaderRegister!Next, LoaderRegister!Install
  <2>2. ASSUME NEW d \in Readers, CallLoaderDecide(d) \/ LoaderDecideStep(d)
        PROVE  LoaderRegister!Next \/ UNCHANGED LoaderRegister!vars
    <3>1. ReaderStep(d)
      BY <2>2 DEF CallLoaderDecide, LoaderDecideStep, ReaderStep
    <3>2. \/ Register!Ask(d) \/ Register!Reply(d) \/ Register!Deliver(d)
          \/ UNCHANGED Register!vars
      BY <3>1, ReaderRefines
    <3>3. UNCHANGED Register!vars => UNCHANGED LoaderRegister!vars
      BY DEF Register!vars, LoaderRegister!vars
    <3>4. \/ LoaderRegister!Ask(d) \/ LoaderRegister!Reply(d) \/ LoaderRegister!Deliver(d)
          \/ UNCHANGED LoaderRegister!vars
      BY <3>2, <3>3, SameReaderSteps
    <3> QED BY <3>4 DEF LoaderRegister!Next
  <2>3. ASSUME cur' = cur, UNCHANGED readerVars
        PROVE  UNCHANGED LoaderRegister!vars
    BY <2>3, OthersRefine DEF LoaderRegister!vars
  <2>4. ASSUME ~ \E r \in Writers : LoadBundleStep(r) /\ Store(r)
        PROVE  cur' = cur
    BY <2>4, ServedCases DEF SkipUnchanged, hvars
  <2>5. \/ UNCHANGED readerVars
        \/ \E d \in Readers : CallLoaderDecide(d) \/ LoaderDecideStep(d)
    BY WritersKeepReaders
       DEF Next, vars, hvars, Publish, CallRefresh, Lock, FetchStep, FetchOk, FetchErr,
           LocalStep, SizeGate, SkipUnchanged, StartLoad, LoadBundle, LoadBundleStep,
           LoadStep, Verify, Parse, Store, FinishLoad, LoadReturn, Unlock
  <2> QED BY <2>1, <2>2, <2>3, <2>4, <2>5
<1> QED BY <1>1, <1>2, LoaderStepsHolder, HInitInv, HNextInv, LInitInv, LNextInv,
           UnansweredInv, UnansweredStep, PTL
        DEF Init, Spec, IsGoodRegister, LoaderRegister!Spec
=============================================================================
