------------------------------- MODULE Release -------------------------------
(***************************************************************************)
(* The release workflow (.github/workflows/release.yml): events - a merged   *)
(* or a discarded pull request, a dispatch, a run that is run again - queue *)
(* runs in the concurrency group "release"; a run checks out main, computes *)
(* the next version from the tags it sees, and pushes it.                   *)
(*                                                                         *)
(* GitHub's part, external: a group has one run in progress and one that    *)
(* waits for it; an event that comes while one waits takes its place, and   *)
(* that one is cancelled.  A runner may be lost at any step.                *)
(*                                                                         *)
(* A commit of main is a merged pull request: its branch prefix, and the    *)
(* major version its module path ends in, 1 without a suffix.               *)
(***************************************************************************)
EXTENDS Naturals, Sequences

CONSTANTS Beginnings,   \* the latest tag, or NoTag, and the major of the module path
          MaxEvents     \* bound on the events

VARIABLES began,        \* the one of them with which the history begins
          main,         \* the merged pull requests
          tags,         \* the tags pushed, in order
          releases,     \* the versions that have a GitHub Release
          runs          \* every run of the workflow, in the order of its events
vars == <<began, main, tags, releases, runs>>

NoTag == <<>>

ASSUME ReleaseAssumption ==
    /\ Beginnings \subseteq [tag : (Nat \X Nat \X Nat) \cup {NoTag}, major : Nat \ {0}]
    /\ MaxEvents \in Nat

Prefixes == {"debug", "feature", "breaking", "other"}
Bumps == {"patch", "minor", "major"}
BumpOf == [debug |-> "patch", feature |-> "minor", breaking |-> "major", other |-> "none"]

\* The major version in the module path of go.mod at commit n.
modpath(n) == IF n = 0 THEN began.major ELSE main[n].major

\* sort=-v:refname
Before(v, w) == \/ v[1] < w[1]
                \/ v[1] = w[1] /\ v[2] < w[2]
                \/ v[1] = w[1] /\ v[2] = w[2] /\ v[3] < w[3]

\* Where the history begins: v0.0.0 when no tag is there.
First == IF began.tag = NoTag THEN <<0, 0, 0>> ELSE began.tag

\* The latest of the first n tags.
Latest(n) == CHOOSE v \in {First} \cup {tags[k].version : k \in 1 .. n} :
                \A w \in {tags[k].version : k \in 1 .. n} : ~Before(v, w)

Next3(v, bump) == CASE bump = "patch" -> <<v[1], v[2], v[3] + 1>>
                    [] bump = "minor" -> <<v[1], v[2] + 1, 0>>
                    [] bump = "major" -> <<v[1] + 1, 0, 0>>

Init == /\ began \in Beginnings
        /\ main = <<>> /\ tags = <<>> /\ releases = {} /\ runs = <<>>

-----------------------------------------------------------------------------
(* Events. *)

Working == {"checkout", "validate", "compute", "push", "publish"}
InGroup(k) == runs[k].at \in Working \cup {"pending"}
Busy == \E k \in DOMAIN runs : InGroup(k)

Run(bump, merge, at) == [bump |-> bump, merge |-> merge, at |-> at,
                         commit |-> 0, seen |-> 0, next |-> First]

\* Mutant: the workflow has no concurrency group.
EnqueueUngrouped(bump, merge) ==
    /\ Len(runs) < MaxEvents
    /\ runs' = Append(runs, Run(bump, merge, "checkout"))

Enqueue(bump, merge) ==
    /\ Len(runs) < MaxEvents
    /\ runs' = Append([k \in DOMAIN runs |->
                          IF runs[k].at = "pending" THEN [runs[k] EXCEPT !.at = "cancelled"]
                                                    ELSE runs[k]],
                      Run(bump, merge, IF Busy THEN "pending" ELSE "checkout"))

\* A pull request may bring the next major's module path: a breaking one should,
\* or one before it.
Merge(prefix, major) ==
    /\ major \in {modpath(Len(main)), modpath(Len(main)) + 1}
    /\ main' = Append(main, [prefix |-> prefix, major |-> major])
    /\ Enqueue(BumpOf[prefix], Len(main) + 1)
    /\ UNCHANGED <<tags, releases>>

\* Closed without a merge: the job is skipped, but the run was in the group.
Discard == Enqueue("skip", 0) /\ UNCHANGED <<main, tags, releases>>

Dispatch(bump) == Enqueue(bump, 0) /\ UNCHANGED <<main, tags, releases>>

\* "Re-run jobs": the same event again.
Rerun(k) == /\ runs[k].at \in {"failed", "cancelled"}
            /\ Enqueue(runs[k].bump, runs[k].merge)
            /\ UNCHANGED <<main, tags, releases>>

\* GitHub gives the group to the one that waits.
Start(k) == /\ runs[k].at = "pending"
            /\ \A j \in DOMAIN runs : runs[j].at \notin Working
            /\ runs' = [runs EXCEPT ![k].at = "checkout"]
            /\ UNCHANGED <<main, tags, releases>>

-----------------------------------------------------------------------------
(* The steps of the job. *)

Goes(k, from, to) == /\ runs[k].at = from
                     /\ runs' = [runs EXCEPT ![k].at = to]

Skip(k) == /\ runs[k].bump = "skip"
           /\ Goes(k, "checkout", "ended")
           /\ UNCHANGED <<main, tags, releases>>

\* Mutant: the commit of the event is checked out, not main.
CheckoutEvent(k) ==
    /\ runs[k].at = "checkout" /\ runs[k].bump # "skip"
    /\ runs' = [runs EXCEPT ![k].at = "validate", ![k].seen = Len(tags),
                   ![k].commit = IF runs[k].merge = 0 THEN Len(main) ELSE runs[k].merge]
    /\ UNCHANGED <<main, tags, releases>>

\* main as it is now, with all tags.
Checkout(k) ==
    /\ runs[k].at = "checkout" /\ runs[k].bump # "skip"
    /\ runs' = [runs EXCEPT ![k].at = "validate", ![k].commit = Len(main),
                            ![k].seen = Len(tags)]
    /\ UNCHANGED <<main, tags, releases>>

Validate(k) == Goes(k, "validate", "compute") /\ UNCHANGED <<main, tags, releases>>

\* Any other branch prefix cuts no release.
NoRelease(k) == /\ runs[k].bump = "none"
                /\ Goes(k, "compute", "ended")
                /\ UNCHANGED <<main, tags, releases>>

\* Mutant: a minor or a patch of a v2+ module is not checked.
MajorsMatch(v, n, bump) == bump = "major" => modpath(n) = v[1]

\* v2+ requires the module path to carry the matching suffix.
PathMatches(v, n, bump) == v[1] >= 2 => modpath(n) = v[1]

Compute(k) ==
    LET v == Next3(Latest(runs[k].seen), runs[k].bump) IN
    /\ runs[k].at = "compute" /\ runs[k].bump \in Bumps
    /\ PathMatches(v, runs[k].commit, runs[k].bump)
    /\ runs' = [runs EXCEPT ![k].at = "push", ![k].next = v]
    /\ UNCHANGED <<main, tags, releases>>

\* The push fails on a tag that exists.
PushTag(k) ==
    /\ \A j \in DOMAIN tags : tags[j].version # runs[k].next
    /\ Goes(k, "push", "publish")
    /\ tags' = Append(tags, [version |-> runs[k].next, commit |-> runs[k].commit, run |-> k])
    /\ UNCHANGED <<main, releases>>

Publish(k) == /\ Goes(k, "publish", "ended")
              /\ releases' = releases \cup {runs[k].next}
              /\ UNCHANGED <<main, tags>>

\* A step fails (set -e, exit 1), or the runner is lost.
Fail(k) == /\ runs[k].at \in Working
           /\ Goes(k, runs[k].at, "failed")
           /\ UNCHANGED <<main, tags, releases>>

-----------------------------------------------------------------------------
JobStep(k) == \/ Skip(k) \/ Checkout(k) \/ Validate(k) \/ NoRelease(k) \/ Compute(k)
              \/ PushTag(k) \/ Publish(k) \/ Fail(k)

Event == \/ \E p \in Prefixes, m \in 1 .. began.major + MaxEvents : Merge(p, m)
         \/ Discard
         \/ \E b \in Bumps : Dispatch(b)
         \/ \E k \in DOMAIN runs : Rerun(k)

Next == /\ Event \/ \E k \in DOMAIN runs : Start(k) \/ JobStep(k)
        /\ UNCHANGED began

Spec == Init /\ [][Next]_vars

-----------------------------------------------------------------------------
(* Properties. *)

\* release.yml, "two quick merges can't race on tag creation": whatever fails and is
\* run again, tags come in order of version, on no older a commit than the last.
TagsAreLinear ==
    /\ tags # <<>> => Before(First, tags[1].version)
    /\ \A i, j \in DOMAIN tags :
          i < j => Before(tags[i].version, tags[j].version) /\ tags[i].commit <= tags[j].commit

\* release.yml, "Go modules v2+ require the module path to carry a matching suffix":
\* no tag from v2 on is put on a commit of another major, though main moves while a run
\* waits; there, no change whose author moved the path is released as a minor or a patch.
TagMatchesModule ==
    \A k \in DOMAIN tags :
        tags[k].version[1] >= 2 => modpath(tags[k].commit) = tags[k].version[1]

\* The release of a merge holds that merge, and each merge before it: also those
\* whose own run was cancelled while it waited.
HoldsEarlierMerges ==
    \A k \in DOMAIN tags : \A j \in 1 .. tags[k].run : runs[j].merge <= tags[k].commit
=============================================================================
