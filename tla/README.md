# A verification project for `rbac`

TLA+ specifications of the policy engine in this repository, the TLC runs that check
them, and the theorems TLAPS proves of them. Paths such as `engine.go:343` are in the
repository's root (`src/`).

## The system

`rbac` is a Go library. A host gives it a policy document (JSON), asks it to decide
queries, and may let a Loader keep the policy up to date. No component starts a
goroutine; the host's goroutines call in, from anywhere, at any time.

| Component | State | Operations | Interacts with |
|---|---|---|---|
| Parser (`engine.go:255-454`) | the call stack of `parseNode`, a node budget | `parsePolicy` | called once per `NewSnapshot` |
| Condition evaluators (`engine.go:65-206`, `trace.go:120-222`) | none | `evalTri`/`matches` (trace off), `traceCondTri`/`traceMatch` (every Decide) | called by the fold per rule, per grant |
| Strategies and fold (`engine.go:455-565`) | the accumulated Decision | `evaluate`, `evalVerdict`, `DenyOverrides`, `FirstMatch` | called by `Decide` |
| Trace and explanation (`trace.go`) | none, reads a Decision | `Matched`, `deciderCond`, `strategyStory`, `Explain`, `Disclose` | the host's logs |
| Holder (`snapshot.go`, `integrity.go`) | one atomic pointer to an immutable Snapshot | `Set`, `Load`, `LoadBundle`, `Current`, `Decide` | host goroutines; the Loader |
| Loader (`loader.go`) | a mutex, its Holder, its options | `Refresh`, `Decide`, `Current`, `Version` | a `Source`, a `Verifier`, the Holder |
| Source seam and reference sources (`source.go`, `reference_sources.go`) | a file or a byte slice outside the library | `Fetch`, `readCapped`, `contentVersion` | the Loader; whoever writes the file or holds the slice |
| Release workflow (`.github/workflows/release.yml`) | the repository's tags and releases, the queue of runs | one run per closed pull request, dispatch or re-run | GitHub |

What is hard here: refreshes that race each other, the publisher and decisions in flight; a
file that changes between two reads of it; a version that is only a hash; a step of the load
pipeline failing after others succeeded; the same computation written twice (with and without
trace) that must agree; a trace that leaves out what was short-circuited and must still justify
the verdict; three-valued logic under negation and short-circuits; a document accepted now and
evaluated much later; limits counted along two axes; release runs that wait, are displaced,
fail halfway or are run again while `main` moves. `PROJECT.json` lists the hazards by line.

What makes each part correct: the parser accepts the documented language within its
limits and spells it faithfully; the evaluators compute strong Kleene logic and never
let absence match; the strategies decide as documented whatever the order; the trace is
an account of the decision; the Holder is a linearizable register; the Loader never
serves anything but a whole, verified, well-formed publication of the source, never
goes back, and gets to the latest; a source hands out whole documents under their own
version; releases come in order, on commits of their major that hold what was merged.

## The modules

    PolicyRegister   <--refines--  Holder  <--extends and refines--  Loader
    Loader     <-- ContentVersion <-- FileSource, MemorySource <-- ReferenceSources
    Strategy   <-- Fold
    Tree       <-- Evaluator <-- Condition
    Tree       <-- Parser    <-- Grammar
    Strategy, Evaluator, Grammar  <-- Engine
    Release

- **PolicyRegister** is what a policy holder promises a reader: one value served, an
  answer computed in one indivisible step for the value served at some moment of the call.
- **Holder** models `snapshot.go` and `integrity.go`. `cur` is the pointer; `wpc`, `task`,
  `policy` are the local state of a goroutine in `Load`/`LoadBundle`; `rpc`, `snap`, `dec`
  of one in `Decide`. A step is what a goroutine does between two moments at which another
  can be noticed. Verifiers are functions given as constants; a byte string is a value;
  the rules of a snapshot are named by the bytes they come from. `Set` is the host's.
- **Loader** extends Holder: the Holder's writers are the goroutines in `Refresh`
  (`Loader.holder` is unexported, so nothing else writes), `lpc` and `fetched` their local
  state, `mu` the mutex. `published` is the history of what the source handed out or could
  have, moved by `Publish` at any time (external); a Fetch takes time and returns something
  published since its call, or what was the latest then. `servedAt` and `floor` are history
  variables which no action reads.
- **ContentVersion** is what the two reference sources share: documents, and the version
  token as a function of the bytes, which may collide.
- **FileSource** refines the Loader's Fetch: `Open`, one `Read` per chunk up to one past the
  limit, `ReadEnd`, then a return, while the owner of the file replaces it (a new inode under
  the same path), unlinks it, or truncates and rewrites it in place. `inodes` and `path` are
  the file system, `written` and `writing` the owner, `fd`, `buf` and `whole` the call. The
  file system is external. What a read puts together of a file rewritten under it joins
  `published` as a history (`Recorded`, which is no code of the repository), so that the Loader
  above is unchanged: in that case `IsLoader` holds of the publication by construction, and
  says only that a failed or overlong read returns nothing. While the file is renamed over and
  unlinked, and at every read of it, `IsLoader` is what the reads themselves must provide.
- **MemorySource**: `NewMemorySource` keeps the caller's slice and a version computed once;
  the caller goes on writing to the slice. A write during a Refresh would be a data race of
  the caller with the parser and is left out.
- **ReferenceSources** puts a Loader over either of them, as the host chooses.
- **Release** models `release.yml`: events queue runs in the concurrency group, one in
  progress and one waiting; a run goes through checkout, validation, version, tag and
  release, and may fail before any of them. A commit is a merge, with its branch prefix
  and the major its module path ends in (1 without a suffix). The history `began` with a tag
  or, as v0.0.0, without one. Which run the group gets next is GitHub's (`Start`, external).
- **Strategy** has the two strategies as functions; **Fold** models `evaluate` with
  the loop of `traceMatch` inside, one step per grant and per rule, and runs the trace-off
  fold `evalVerdict` beside it in `off`. There a condition is the set of grants it holds for.
  `Explain` is an operator on the finished state: the verdict, and for each line of the
  rationale its outcome, tag, mark and the attempts it shows.
- **Tree**, **Evaluator**: condition trees, `evalTri`, `matches`, `traceCondTri`, `traceMatch`,
  `renderCond`, with a panic as a value. The two evaluators are separate copies here as they
  are in the code (`compare`, `Loop`, `negate` against `traceCmp`, `traceLoop`, `traceNot`),
  and share what they share there: the lookup of an attribute, `applyCmp` and `triOf`. Each
  recursive function of the code is written as what it does at one node (`evalNode`,
  `traceNode`, `renderNode`), and as the function on `Nodes` which that defines; `Nodes` is
  closed under kids and `height` says that no node is under itself, which is all that is
  assumed of a tree. The references - Kleene's logic, two-valued logic with the gaps guessed,
  the trace a node should have - are written the same way. **Condition** is the state machine
  of one `traceMatch`, with the lines `renderCond` makes of each attempt.
- **Parser** models `parsePolicy`/`parseNode`. The Go call stack is `stack`, one frame per
  condition object that waits for operands. `encoding/json` is external: a JSON value is a
  tagged record whose object members are in order, repetitions included, and `asSlice`,
  `asString`, `Lookup` say what `Unmarshal` makes of it (null is empty, the last member
  wins, absent is an error). A type error in an array element fails the whole document.
  **Grammar** is the reference: the language, its trees and their sizes, as recursive
  functions on `Values`, a set of JSON values closed under what is in them (`nesting` says
  that none is in itself), with no stack and no budget. `InLanguage` is the language `doc.go`
  documents: an array of rules, values under comparisons and conditions elsewhere, strings
  where strings belong. `Readable` is the larger one of what can be read as a policy, in which
  null may stand for an array or a string and a value for a condition; between the two lie the
  disagreements below.
- **Engine** composes Parser, Evaluator, Strategy and the Holder for one loading
  goroutine, with a Decide at any moment, and states what a policy's text means: `Truth` of a
  condition, computed over the JSON value and not over its tree, and `Allows` of a policy.
- The theorems are in **LoaderProofs** (Holder and Loader), **ReferenceSourcesProofs**,
  **FoldProofs**, **EvaluatorProofs** (lemmas about the evaluators), **ConditionProofs**,
  **EngineProofs** (Parser and Engine) and **ReleaseProofs**. **TreeRecursion** models nothing:
  it proves induction and recursion over trees, for any set of nodes, and EvaluatorProofs and
  EngineProofs instantiate it once for each recursive function, of nodes, of JSON values or of
  numbers. The **MC** modules are the small instances.

Definitions whose comment begins with *Mutant* are mutated forms of the definition below
them, kept to test the properties: each property of a passing run fails when its mutant
(`PROJECT.json`, "mutants") replaces the definition.

## What is checked

| Run | Instance | Shows |
|---|---|---|
| `Holder.cfg` | 2 writers, 1 reader, 2 ids, 4 byte strings (two policies, malformed, sealed), 2 verifiers | verified before parsed before stored (`VerifiedBeforeParsed`); a failed load changes nothing (`LastKnownGood`); id and rules of a decision are those of the captured snapshot (`Pinned`); the Holder implements `PolicyRegister` (`IsRegister`) |
| `Loader.cfg` | 2 refreshers, 1 reader, 3 publications of 5 artifacts (two good, forged, malformed inside, oversized), a signature verifier | what serves is one whole good publication (`ServesPublished`); nil from Refresh means it serves (`Acknowledged`); no version that serves is parsed again (`NoReparseOfServed`); no rollback (`NoRollback`); a decision is at least as recent as the last success before its call (`DecisionIsRecent`); refinement of Holder (`HSpec`) and of the good-policy register (`IsGoodRegister`) |
| `LoaderLive.cfg` | the same with the default verifier and 3 documents | a Decide returns even if a Refresh hangs anywhere (`DecideReturns`); every Refresh gets the mutex and returns if each Fetch does (`RefreshReturns`); polling ends at the latest loadable policy (`Converges`) |
| `Sources.cfg` | 1 refresher over a file or a slice; 3 documents of 2 chunks, one of them too long, 3 writes, rewriting in place allowed, one hash collision | a Fetch of a changing file is a Fetch of the Loader's source (`IsLoader`); what serves of a file bears the hash of its own bytes (`FileVersionNamesRules`); once the owner is done, its document, or one with its hash, comes to serve whatever was read in between (`Heals`); a slice is loaded once (`DeafToWrites`) |
| `Fold.cfg` | all policies of 0-3 rules, 2 names, 2 grants, 4 queries, 2 strategies | `DenyOverridesIsVeto`, `FirstMatchDecides`; `TraceOffAgrees`; every outcome is justified by its attempts (`TraceExplains`); verdict, reason and story say who decided and who was overridden, exactly (`AccountsAgree`); the lines of `Explain` suffice to check the verdict by hand (`RationaleSuffices`) |
| `Condition.cfg` | trees of two levels over 4 comparisons, 3-way operators, ill-kinded trees; queries of 0-2 grants | the two evaluators agree, and each trace is node by node the one its evaluation should leave (`Mirror`, in `TraceMirrorsDecision`); strong Kleene logic (`MatchesIsKleene`); absence never matches (`AbsenceNeverMatches`), and is shown when it is why a condition failed (`UnknownShowsAbsent`) |
| `Parser.cfg` | 1109 documents; at most 2 rules, depth 3, 7 nodes | all of the documented language is accepted, and nothing that cannot be read as a policy; the rules are the trees it spells (`AcceptsLanguage`); both limits hold of the work done (`WorkIsBounded`) |
| `Engine.cfg` | sequences of loads of 29 documents, 3 queries, 2 strategies | `DecidesAsWritten`, `OnlyGoodInstalled`, `WellWrittenNeverPanics` |
| `Release.cfg` | a module at v4, or one without a tag and a suffix (so that v0, v1 and v2 come in reach); 3 events: merges of any prefix and major, discards, dispatches, re-runs | tags come in order on commits in order (`TagsAreLinear`), each, from v2 on, on a commit of its own major (`TagMatchesModule`), with every earlier merge in it (`HoldsEarlierMerges`) |
| `EngineCrash.cfg`, `EngineNull.cfg`, `FileTorn.cfg` | as above | disagreements with the documentation, below |

The type invariants of Loader and Fold are theorems rather than runs.

Bounds. Two writers are enough for every race on one pointer or one mutex; the proofs
remove the bound. Three publications allow A, B, A and good, bad, good. Two grants and
three rules give a first, a middle and a last of everything a loop distinguishes; the
proofs remove these too. The parser's limits are as small as keeps documents at, below and
past each of them (`Deeper`/`Deepest`, `Wide` and two rules of 3 + 4 nodes), and its
documents include each refusal. Two chunks and a limit of two are what it takes for a file to
be torn, to be at the limit and past it; three writes leave room for a rewrite during a read,
one after it, and a last one; one refresher suffices there because the file's owner, not
another refresher, is its opponent (the proofs are for any number). Three release events are
one run in progress, one that waits, and one that displaces it or runs it again.
`CHECK_DEADLOCK FALSE` is stated where a call ends (Fold, Condition, Parser), the process does
(Engine) or the bounded events run out (Release).

Fairness. `ReadersSpec` assumes only that a goroutine in Decide runs, and that is all
`DecideReturns` needs. `RefreshReturns` has `Scheduling` as its premise: a goroutine inside
Refresh keeps running (weak fairness of its steps), a Fetch returns with a bundle or an
error, and `sync.Mutex` serves every waiter in the end (strong fairness of `Lock`, its
starvation mode). `Converges` adds `Polling`, what the host owes: it calls Refresh again and
again, and a source that is asked forever does not fail forever. `FPolling` says the same of a
file: the host polls, its goroutines run, and the file system fails finitely often; the owner
need not finish what it began to write, nor publish. The other runs assume no fairness.

### Disagreements with the documentation

- `EngineCrash`: the parser does not tell values from conditions. `"when": {"lit": "x"}` or
  `{"eq": [{"all": ...}, ...]}` is accepted and installed; the next Decide panics
  (`trace.go:207`, `trace.go:133`), though `snapshot.go:59` says a bad load can never crash
  the engine and `doc.go:175` that a malformed tree is rejected at parse time.
  `WellWrittenNeverPanics` shows this to be the only way to a panic.
- `EngineNull`: the document `null` is accepted as a policy of no rules and replaces a policy
  with rules that was serving, though "policy must be a JSON array of rules" (`engine.go:305`)
  and a bad load can never clear the policy (`snapshot.go:60`). Everything is then denied.
- `FileTorn`: a FileSource whose file is truncated and rewritten in place during a Fetch
  hands out the head of one document and the tail of another, and if that parses it serves,
  though `loader.go:21` says that no decision observes a mixed policy (of the pointer's swap,
  which keeps it so; taken literally, more) and `reference_sources.go:47` speaks of rewriting
  the file. The next Fetch heals it (`Heals`); an
  owner who renames a new file over the path is never torn (`FileSourceIsLoader`).

Two more have no run of their own:

- `{"lit": null}` is accepted as the literal `""`, and `{"attr": null}` as an attribute without
  a name (`Parser!asString`), though the value is documented as a string (`engine.go:295`,
  `doc.go:165`) and `parseString` says "expected a string" (`engine.go:451`). Such a document
  is `Readable` and not `InLanguage`.
- NewMemorySource keeps its caller's slice. What the caller writes there before the first
  Refresh is served under the hash of what it held before (`MemorySource!Bundle`), though "any
  change yields a different" version (`reference_sources.go:18`) and a MemorySource is
  "immutable once constructed" (`reference_sources.go:28`). After that Refresh, nothing written
  there is loaded (`DeafToWrites`). So `FileVersionNamesRules` speaks of files only.

Properties of the code a reader may not expect:

- Repeated members of a JSON object collapse to the last before the one-key check.
- Parse-once holds for the version that is serving only, so a source that goes A, B, A has A
  parsed twice, and a version that fails to load is tried anew by each Refresh.
- Two documents with one hash: the second is skipped while the first serves. `Heals` is as
  much as holds.
- A release run takes its bump from its event and its commit from the `main` of its own start
  (`release.yml:7`, `:41`), and the next event displaces a run that waits in the group. So not
  each merge gets a version, and a merged major change may be in a minor's tag if its author
  did not move the module path. `HoldsEarlierMerges` and `TagMatchesModule` are what the
  workflow does guarantee.
- Below v2 the workflow does not look at the module path (`release.yml:94`): a v1 tag may be
  put on a commit whose path already ends in `/v2`.

## What is proved

All for every value of the constants, from the assumptions named in the modules
(`HolderAssumption`, `LoaderAssumption`, `FoldAssumption`, `NodeAssumption`,
`ConditionAssumption`, `ParserAssumption`, `JsonAssumption`, `EngineAssumption`,
`ContentAssumption`, `FileAssumption`, `MemoryAssumption`, `ReleaseAssumption`), which the runs
evaluate. `JsonAssumption` is what `encoding/json` yields: values of finite nesting, and for a
document that is an array, rules of strings and values. `EngineAssumption` says that the
evaluator's `Nodes` include the trees of all conditions, and that a query's grants are a
sequence. A theorem that needs any other premise has it in its statement.

- **Holder.** `HolderTypes`, `HolderVerifies`, `HolderDecisionsPinned` by an invariant that
  ties a writer's `policy` to its verifier's output at each `wpc`, and a reader's `dec` to
  its `snap` at each `rpc`. `HolderKeepsLastKnownGood` follows step by step from it.
  `HolderIsRegister` maps a reader's call to the register's: the answer is fixed at the
  pointer load, so `Capture` maps to `Reply` and evaluation and stamp to stuttering. That a
  reader which has not captured holds no decision is the one extra conjunct.
- **Loader.** `LoaderIsHolder` (each step is a Holder step or leaves it alone).
  `LoaderTypes`, `LoaderAcknowledges`, `LoaderSkipsServed`, `LoaderNeverRollsBack`
  rest on the mutex invariant - only the holder of `mu` is past `lock` - and on
  `fetched[r] >= servedAt` for it: publications only grow, and nobody else moves `servedAt`
  while `r` is inside. `LoaderServesPublished` and
  `LoaderDecisionIsRecent` also assume `VersionsAreFaithful`: equal tokens mean equal
  policies, which is the source's duty; without it a skipped version would be served under
  the token of another. `LoaderIsGoodRegister` needs no such premise.
- **Fold.** `FoldTypes`, `DenyOverridesCorrect`, `FirstMatchCorrect`, `TracingChangesNothing`,
  `TraceFaithful`, `AccountsOfOneEvent`, `RationaleIsComplete`.
  The invariant says the accumulator is the verdict of the rules before `next` and names its
  decider (`Verdict`), that the attempts are failed ones up to the last (`Tried`), and that the
  trace has an entry per rule (`Traced`), whose outcome
  is what the strategy made of that rule in the state the rules before it had reached
  (`Recorded`). The last is what the accounts need: the story and the lines of Explain look
  for outcomes in the trace, and `Recorded` makes the first or last of them the decider.
- **Condition.** `TraceMirrors`, `ConditionsAreKleene`, `AbsenceIsNoMatch`,
  `FailuresShowAbsence`, for trees of any shape and height. The step of `traceMatch` is simple;
  the weight is in lemmas about the evaluators, by induction on trees: `TraceIsFaithful` (which
  rests on what each loop returns, `LoopSpec` and `TraceLoopSpec`), `EvalIsKleene`,
  `AbsenceDecidesNothing`, `ExplanationShowsAbsent`. The library's induction theorems take an
  operator, which the provers cannot instantiate, so TreeRecursion states induction with a set
  (`SetInduction`, `TreeInduction`), from the well-foundedness of `<` and the least elements it
  gives (`WFMin`). A recursive definition means nothing until a function satisfies it: the
  lemma `TreeRecursive` gives one, from solutions up to each height (`SolutionsExist`,
  `SolutionsAgree`), and each `...Unfolds` lemma uses it before the definition is expanded.
- **Parser.** `ParserWorkIsBounded`, from `PInv`: a frame is pushed only within the depth
  limit, and the budget is overdrawn only by the call that fails the parse.
  `ParserAcceptsLanguage` compares a machine with a stack and one budget with a definition that
  recurs. Its invariant `GInv` says where in the document the machine is. While a condition is
  parsed there is a path of JSON values from the rule's own down (`p`), one for each frame and
  one at hand, and for each the number of nodes made when it began (`b`). Each frame has parsed
  the first operands of its value into their trees and has the last ones to do (`Parsing`); the
  next value on the path is the operand it waits for, and began after as many nodes as the
  operands before it have together (`Awaiting`). So when a node is made, `nodes` has grown by
  its `Size` and its `Height` is what the stack allowed (`AtMade`); when a rule ends, the nodes
  are the sum of the rules' sizes, which at the end is the limit of the language. The other
  direction is in the same invariant: in a document that is `Readable` every value on the path
  has room in what is left of both limits (`Allowed`), so that each refusal contradicts it.
- **Engine.** `EngineInstallsOnlyGood` is `ParserAcceptsLanguage` at the last step of a load;
  a load starts in an initial state of the parser, so the parser's invariants hold through any
  number of loads. `EngineDecidesAsWritten` and `EngineNeverPanics` use that what is served is
  a document's own trees (`Served`) and that the last decision is the verdict of what is served
  (`Decided`). The rest is about functions: the tree of a condition has the shape of its text
  (`TreeShape`), values under comparisons in the one are so in the other
  (`WellWrittenIsWellKinded`), its rank in Kleene's logic is the truth of the text
  (`TruthIsRank`, by induction on the text), the evaluator computes that rank (`EvalIsKleene`),
  `matches` finds a grant of the highest (`MatchesSpec`), `traceMatch` returns what it does
  (`TraceMatchAgrees`), and each strategy's fold comes, rule
  by rule, to what the strategy is documented to allow (`FoldedTo`, `FoldedAllows`).
- **FileSource.** `FileSourceIsLoader` and `FetchIsWhole`, whatever the owner does to its file:
  with the first, every safety theorem of the Loader holds over a file, on its own premises.
  The invariant: every inode and every buffer is put together from chunks of documents, each in
  its place, so it is a byte string (`Owner`); while the file was only replaced, what the path
  names is the last publication (`LastPublished`), and an open file was published since the
  call began, the bytes read being a beginning of it (`Reading`); once it was rewritten in
  place, a mixture is published when its read ends. With the default verifier, `verify =
  PassthroughVerifier`, follow `FileVersionsAreHashes`, since all that was published bears its
  hash and some publication serves (`Hashed`), and, for an owner who only renames and unlinks
  (`~InPlace`), `FileServesItsDocuments` (`Authored`).
- **MemorySource.** `MemorySourceIsLoader`, and `MemorySourceIsDeaf`, because all that was
  ever published has one version (`OneVersion`) and the Loader skips the version that serves.
- **ReferenceSources.** `ReferenceSourcesAreLoaders`, `ReferenceSourcesAreDeaf`, and of a file
  `VersionNamesFile` and `FileReplacedNeverMixes`: the same of the specification that the runs
  check, whose source is for ever the one constructed first (`OneSource`). Without `~InPlace`
  the last is false: `FileTorn`.
- **Release.** `ReleasesAreLinear`, `ReleasesMatchModule`, `ReleasesHoldEarlierMerges`. The
  group gives one run at work (`OneAtWork`), hence a run that has checked out has seen every
  tag and holds all commits tagged and merged before (`CheckedOut`), and the version it is
  about to push is past every tag and matches its commit (`Computed`). `LatestIsLast` says that
  of tags in order `sort` picks the last.

Every safety property and every refinement of the runs is a theorem. Only model-checked:
liveness (`RefreshReturns`, `DecideReturns`, `Converges`, `Heals`), which the prover does not
do. The runs that expect a violation are counterexamples, not
theorems.

## Not modelled

Error texts and the layout of Explain; the Minimal disclosure, which is one constant per
verdict and so depends on nothing else; that a parse ends, since it recurs into a finite
document; that GitHub goes on starting runs; `Current` and `Version`, plain reads (an empty
version token cannot be told from no policy); a host's own Strategy or a nil one; FNV itself, a
function with a collision here; `ci.yml`, a fixed sequence of commands on one checkout which
keeps no state.

## Plan

Done, in order of importance: Holder and its register; Loader; Fold; Condition; Parser and
Grammar; Engine; the reference sources; Explain; Release; and the proofs of all of them.

What would come next is outside the code as it is: a parser that tells values from
conditions and null from a string, for which `NeverCrashes` could be proved from
`EngineNeverPanics` and acceptance of exactly `InLanguage` from `ParserAcceptsLanguage`; a
FileSource that detects a change during its read; a MemorySource that copies its slice.
