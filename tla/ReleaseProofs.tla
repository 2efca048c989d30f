---------------------------- MODULE ReleaseProofs ----------------------------
(* Proofs about Release for any first tag and any number of events: what   *)
(* the queue, the failures and the runs that are run again can never do.   *)
EXTENDS Release, TLAPS

Versions == Nat \X Nat \X Nat
States == Working \cup {"pending", "ended", "failed", "cancelled"}
Commits == [prefix : Prefixes, major : Nat]
Runs == [bump : Bumps \cup {"none", "skip"}, merge : Nat, at : States,
         commit : Nat, seen : Nat, next : Versions]
Tags == [version : Versions, commit : Nat, run : Nat]

Types == began \in Beginnings /\ main \in Seq(Commits) /\ tags \in Seq(Tags) /\ runs \in Seq(Runs)

\* What runs and tags refer to is there.
References ==
    /\ \A k \in DOMAIN runs : runs[k].merge <= Len(main) /\ runs[k].commit <= Len(main)
    /\ \A t \in DOMAIN tags : tags[t].commit <= Len(main) /\ tags[t].run <= Len(runs)

\* The concurrency group: one run is in progress.
OneAtWork == \A j, k \in DOMAIN runs :
                runs[j].at \in Working /\ runs[k].at \in Working => j = k

\* From its checkout to its push, a run has seen every tag, and its commit holds
\* the commits of all tags and what was merged by its event and before.
CheckedOut(k) ==
    runs[k].at \in {"validate", "compute", "push"} =>
        /\ runs[k].seen = Len(tags)
        /\ \A j \in 1 .. k : runs[j].merge <= runs[k].commit
        /\ \A t \in DOMAIN tags : tags[t].commit <= runs[k].commit

\* The version a run is about to push is past every tag, and matches its commit.
Computed(k) ==
    runs[k].at = "push" =>
        /\ Before(First, runs[k].next)
        /\ \A t \in DOMAIN tags : Before(tags[t].version, runs[k].next)
        /\ runs[k].next[1] >= 2 => modpath(runs[k].commit) = runs[k].next[1]

RInv == /\ Types /\ References /\ OneAtWork
        /\ \A k \in DOMAIN runs : CheckedOut(k) /\ Computed(k)
        /\ TagsAreLinear /\ TagMatchesModule /\ HoldsEarlierMerges

-----------------------------------------------------------------------------
(* Versions are ordered. *)

LEMMA BeforeTransitive ==
    ASSUME NEW u \in Versions, NEW v \in Versions, NEW w \in Versions,
           Before(u, v), Before(v, w)
    PROVE  Before(u, w)
BY DEF Before, Versions

LEMMA BeforeIrreflexive == \A v \in Versions : ~Before(v, v)
BY DEF Before, Versions

\* A bump makes a later version.
LEMMA BumpIsLater ==
    ASSUME NEW v \in Versions, NEW b \in Bumps
    PROVE  Next3(v, b) \in Versions /\ Before(v, Next3(v, b))
BY DEF Before, Versions, Next3, Bumps

\* Also without a tag the history begins at a version.
LEMMA FirstIsVersion == ASSUME Types PROVE First \in Versions
<1>1. <<0, 0, 0>> \in Versions
  BY DEF Versions
<1>2. began.tag \in Versions \cup {NoTag}
  BY ReleaseAssumption DEF Types, Versions
<1> QED BY <1>1, <1>2 DEF First

LEMMA FirstStays == UNCHANGED began => First' = First
BY DEF First

\* Of tags in order, the latest is the last.
LEMMA LatestIsLast ==
    ASSUME RInv
    PROVE  Latest(Len(tags)) = IF tags = <<>> THEN First ELSE tags[Len(tags)].version
<1> DEFINE n == Len(tags)
           Seen == {tags[k].version : k \in 1 .. n}
           IsLatest(v) == \A w \in Seen : ~Before(v, w)
<1>1. /\ n \in Nat /\ DOMAIN tags = 1 .. n
      /\ \A k \in 1 .. n : tags[k].version \in Versions
  <2>1. n \in Nat /\ DOMAIN tags = 1 .. n /\ \A k \in 1 .. n : tags[k] \in Tags
    BY DEF RInv, Types
  <2> QED BY <2>1 DEF Tags
<1>2. Latest(n) = CHOOSE v \in {First} \cup Seen : IsLatest(v)
  BY DEF Latest
<1>3. CASE n = 0
  <2>1. Seen = {} /\ tags = <<>>
    BY <1>3 DEF RInv, Types
  <2>2. \E v \in {First} \cup Seen : IsLatest(v)
    BY <2>1
  <2>3. Latest(n) \in {First} \cup Seen
    BY <1>2, <2>2
  <2> QED BY <2>1, <2>3
<1>4. CASE n > 0
  <2>1. tags # <<>> /\ n \in 1 .. n /\ tags[n].version \in Seen
    BY <1>1, <1>4
  <2>2. \A k \in 1 .. n : k # n => Before(tags[k].version, tags[n].version)
    <3>1. \A m \in Nat : \A k \in 1 .. m : k # m => k < m
      OBVIOUS
    <3>2. \A k \in 1 .. n : k < n => Before(tags[k].version, tags[n].version)
      BY <1>1, <2>1 DEF RInv, TagsAreLinear
    <3> QED BY <1>1, <3>1, <3>2
  <2>3. Before(First, tags[n].version)
    <3>1. Before(First, tags[1].version) /\ 1 \in 1 .. n
      BY <1>1, <1>4, <2>1 DEF RInv, TagsAreLinear
    <3>2. First \in Versions
      BY FirstIsVersion DEF RInv
    <3> QED BY <1>1, <2>1, <2>2, <3>1, <3>2, BeforeTransitive
  <2>4. IsLatest(tags[n].version)
    <3> SUFFICES ASSUME NEW k \in 1 .. n PROVE ~Before(tags[n].version, tags[k].version)
      OBVIOUS
    <3> QED BY <1>1, <2>1, <2>2, BeforeTransitive, BeforeIrreflexive
  <2>5. \A v \in {First} \cup Seen : IsLatest(v) => v = tags[n].version
    BY <2>1, <2>2, <2>3
  <2> HIDE DEF IsLatest, Seen
  <2>6. Latest(n) = tags[n].version
    BY <1>2, <2>1, <2>4, <2>5
  <2> QED BY <2>1, <2>6
<1> QED BY <1>1, <1>3, <1>4

-----------------------------------------------------------------------------
(* The steps of a run. *)

\* A commit of main stays what it is.
LEMMA CommitsStay ==
    ASSUME Types, UNCHANGED began, NEW n \in 0 .. Len(main),
           main' = main \/ \E c \in Commits : main' = Append(main, c)
    PROVE  modpath(n)' = modpath(n) /\ Len(main') \in Nat /\ Len(main') >= Len(main)
<1>1. /\ Len(main) \in Nat /\ Len(main') \in Nat /\ Len(main') >= Len(main)
      /\ \A m \in 1 .. Len(main) : main'[m] = main[m]
  <2>1. main \in Seq(Commits)
    BY DEF Types
  <2> QED BY <2>1
<1>2. n # 0 => main'[n] = main[n]
  BY <1>1
<1> QED BY <1>1, <1>2 DEF modpath

\* A change of a run's place in the job, or in the queue, disturbs nothing, if it
\* skips no step and enters an empty group.
LEMMA MoveKeeps ==
    ASSUME RInv, UNCHANGED <<began, main, tags>>, NEW k \in DOMAIN runs, NEW to \in States,
           runs' = [runs EXCEPT ![k].at = to],
           to # "push",
           to \in {"validate", "compute"} => runs[k].at \in {"validate", "compute"},
           to \in Working => runs[k].at \in Working
                              \/ \A j \in DOMAIN runs : runs[j].at \notin Working
    PROVE  RInv'
<1>1. /\ Len(runs) \in Nat /\ Len(runs') = Len(runs)
      /\ DOMAIN runs = 1 .. Len(runs) /\ DOMAIN runs' = DOMAIN runs
      /\ runs' \in Seq(Runs)
      /\ \A j \in DOMAIN runs : j # k => runs'[j] = runs[j]
      /\ runs'[k] = [runs[k] EXCEPT !.at = to]
      /\ runs[k] \in Runs
  <2>1. Len(runs) \in Nat /\ DOMAIN runs = 1 .. Len(runs) /\ runs[k] \in Runs
    BY DEF RInv, Types
  <2>2. [runs[k] EXCEPT !.at = to] \in Runs
    BY <2>1 DEF Runs
  <2>3. runs' = [runs EXCEPT ![k] = [runs[k] EXCEPT !.at = to]]
    BY <2>1
  <2> QED BY <2>1, <2>2, <2>3 DEF RInv, Types
<1>2. \A j \in DOMAIN runs : /\ runs'[j].merge = runs[j].merge
                             /\ runs'[j].commit = runs[j].commit
                             /\ runs'[j].seen = runs[j].seen
                             /\ runs'[j].next = runs[j].next
                             /\ j # k => runs'[j].at = runs[j].at
  BY <1>1 DEF Runs
<1>3. runs'[k].at = to
  BY <1>1 DEF Runs
<1>4. Types' /\ References'
  BY <1>1, <1>2 DEF RInv, Types, References
<1>5. OneAtWork'
  BY <1>1, <1>2, <1>3 DEF RInv, OneAtWork
<1>6. ASSUME NEW j \in DOMAIN runs
      PROVE  CheckedOut(j)' /\ Computed(j)'
  <2>1. CheckedOut(j) /\ Computed(j)
    BY DEF RInv
  <2>2. /\ \A i \in 1 .. j : runs'[i].merge = runs[i].merge
        /\ \A n : modpath(n)' = modpath(n)
    BY <1>1, <1>2 DEF modpath
  <2>3. CASE j = k
    BY <1>2, <1>3, <2>1, <2>2, <2>3 DEF CheckedOut, Computed
  <2>4. CASE j # k
    BY FirstStays, <1>2, <2>1, <2>2, <2>4 DEF CheckedOut, Computed
  <2> QED BY <2>3, <2>4
<1>7. TagsAreLinear' /\ TagMatchesModule'
  BY FirstStays DEF RInv, TagsAreLinear, TagMatchesModule, modpath
<1>8. HoldsEarlierMerges'
  BY <1>1, <1>2 DEF RInv, Types, Tags, References, HoldsEarlierMerges
<1> QED BY <1>1, <1>4, <1>5, <1>6, <1>7, <1>8 DEF RInv

\* A new event: its run waits, or begins if the group is empty, and at most takes the
\* place of one that waited.
LEMMA EventKeeps ==
    ASSUME RInv, UNCHANGED <<began, tags>>,
           main' = main \/ \E c \in Commits : main' = Append(main, c),
           NEW bump \in Bumps \cup {"none", "skip"}, NEW merge \in 0 .. Len(main'),
           Enqueue(bump, merge)
    PROVE  RInv'
<1> DEFINE n == Len(runs)
           new == Run(bump, merge, IF Busy THEN "pending" ELSE "checkout")
           moved(j) == IF runs[j].at = "pending" THEN [runs[j] EXCEPT !.at = "cancelled"]
                                                 ELSE runs[j]
           old == [j \in DOMAIN runs |-> moved(j)]
<1>1. n \in Nat /\ DOMAIN runs = 1 .. n /\ runs \in Seq(Runs) /\ Types
  BY DEF RInv, Types
<1>2. /\ Len(main') \in Nat /\ Len(main') >= Len(main) /\ Len(main) \in Nat
      /\ \A m \in 0 .. Len(main) : modpath(m)' = modpath(m)
  BY <1>1, CommitsStay DEF Types
<1>3. new \in Runs
  BY <1>1, <1>2, FirstIsVersion DEF Run, Runs, States, Working
<1>4. old \in Seq(Runs) /\ Len(old) = n
  <2>1. ASSUME NEW j \in 1 .. n
        PROVE  moved(j) \in Runs
    <3>1. runs[j] \in Runs
      BY <1>1
    <3>2. [runs[j] EXCEPT !.at = "cancelled"] \in Runs
      BY <3>1 DEF Runs, States
    <3> QED BY <3>1, <3>2
  <2> QED BY <1>1, <2>1
<1>5. runs' = Append(old, new)
  BY DEF Enqueue
<1>6. /\ runs' \in Seq(Runs) /\ Len(runs') = n + 1
      /\ DOMAIN runs' = 1 .. n + 1
      /\ runs'[n + 1] = new
      /\ \A j \in 1 .. n : runs'[j] = moved(j)
  <2> HIDE DEF old, new
  <2>1. \A j \in 1 .. n : runs'[j] = old[j]
    BY <1>1, <1>3, <1>4, <1>5
  <2>2. \A j \in 1 .. n : old[j] = moved(j)
    BY <1>1 DEF old
  <2> QED BY <1>1, <1>3, <1>4, <1>5, <2>1, <2>2
<1>7. \A j \in 1 .. n : /\ runs'[j].merge = runs[j].merge
                        /\ runs'[j].commit = runs[j].commit
                        /\ runs'[j].seen = runs[j].seen
                        /\ runs'[j].next = runs[j].next
                        /\ runs'[j].at = runs[j].at \/ runs'[j].at = "cancelled"
  <2> SUFFICES ASSUME NEW j \in 1 .. n
               PROVE  /\ moved(j).merge = runs[j].merge
                      /\ moved(j).commit = runs[j].commit
                      /\ moved(j).seen = runs[j].seen
                      /\ moved(j).next = runs[j].next
                      /\ moved(j).at = runs[j].at \/ moved(j).at = "cancelled"
    BY <1>6
  <2>1. runs[j] \in Runs
    BY <1>1
  <2> QED BY <2>1 DEF Runs
<1>8. /\ runs'[n + 1].merge = merge /\ runs'[n + 1].commit = 0
      /\ runs'[n + 1].at = IF Busy THEN "pending" ELSE "checkout"
  BY <1>6 DEF Run
<1> HIDE DEF new, old, moved
<1>9. Types' /\ References'
  <2>1. Types'
    <3>1. main' \in Seq(Commits)
      BY DEF RInv, Types
    <3> QED BY <1>6, <3>1 DEF RInv, Types
  <2>2. ASSUME NEW k \in 1 .. n + 1
        PROVE  runs'[k].merge <= Len(main') /\ runs'[k].commit <= Len(main')
    <3>1. CASE k = n + 1
      BY <1>2, <1>8, <3>1
    <3>2. CASE k \in 1 .. n
      <4>1. runs[k].merge <= Len(main) /\ runs[k].commit <= Len(main) /\ runs[k] \in Runs
        BY <1>1, <3>2 DEF RInv, References
      <4>2. runs[k].merge \in Nat /\ runs[k].commit \in Nat
        BY <4>1 DEF Runs
      <4> QED BY <1>2, <1>7, <3>2, <4>1, <4>2
    <3> QED BY <1>1, <3>1, <3>2
  <2>3. ASSUME NEW t \in DOMAIN tags
        PROVE  tags[t].commit <= Len(main') /\ tags[t].run <= n + 1
    <3>1. tags[t].commit <= Len(main) /\ tags[t].run <= n /\ tags[t] \in Tags
      BY DEF RInv, Types, References
    <3>2. tags[t].commit \in Nat /\ tags[t].run \in Nat
      BY <3>1 DEF Tags
    <3> QED BY <1>1, <1>2, <3>1, <3>2
  <2> QED BY <1>6, <2>1, <2>2, <2>3 DEF References
<1>10. OneAtWork'
  <2>1. CASE Busy
    BY <1>1, <1>6, <1>7, <1>8, <2>1 DEF RInv, OneAtWork, Working
  <2>2. CASE ~Busy
    <3>1. \A j \in 1 .. n : runs'[j].at \notin Working
      BY <1>1, <1>7, <2>2 DEF Busy, InGroup, Working
    <3> QED BY <1>1, <1>6, <3>1 DEF OneAtWork
  <2> QED BY <2>1, <2>2
<1>11. ASSUME NEW k \in 1 .. n + 1
       PROVE  CheckedOut(k)' /\ Computed(k)'
  <2>1. CASE k = n + 1
    BY <1>8, <2>1 DEF CheckedOut, Computed
  <2>2. CASE k \in 1 .. n
    <3>1. CheckedOut(k) /\ Computed(k)
      BY <1>1, <2>2 DEF RInv
    <3>2. runs[k].commit \in 0 .. Len(main)
      <4>1. runs[k].commit <= Len(main) /\ runs[k] \in Runs
        BY <1>1, <2>2 DEF RInv, References
      <4> QED BY <1>2, <4>1 DEF Runs
    <3>3. \A j \in 1 .. k : j \in 1 .. n
      BY <1>1, <2>2
    <3>4. CheckedOut(k)'
      BY <1>1, <1>7, <2>2, <3>1, <3>3 DEF CheckedOut
    <3>5. modpath(runs[k].commit)' = modpath(runs[k].commit)
      BY <1>2, <1>7, <2>2, <3>2 DEF modpath
    <3>6. Computed(k)'
      BY FirstStays, <1>7, <2>2, <3>1, <3>5 DEF Computed
    <3> QED BY <3>4, <3>6
  <2> QED BY <1>1, <2>1, <2>2
<1>12. TagsAreLinear' /\ TagMatchesModule'
  <2>1. \A t \in DOMAIN tags : tags[t].commit \in 0 .. Len(main)
    <3>1. \A t \in DOMAIN tags : tags[t].commit <= Len(main) /\ tags[t] \in Tags
      BY DEF RInv, Types, References
    <3> QED BY <1>2, <3>1 DEF Tags
  <2>2. \A t \in DOMAIN tags : modpath(tags[t].commit)' = modpath(tags[t].commit)
    BY <1>2, <2>1 DEF modpath
  <2> QED BY <2>2, FirstStays DEF RInv, TagsAreLinear, TagMatchesModule
<1>13. HoldsEarlierMerges'
  <2> SUFFICES ASSUME NEW t \in DOMAIN tags, NEW j \in 1 .. tags[t].run
               PROVE  runs'[j].merge <= tags[t].commit
    BY DEF HoldsEarlierMerges
  <2>1. tags[t] \in Tags /\ tags[t].run <= n
    BY DEF RInv, Types, References
  <2>2. j \in 1 .. n
    BY <1>1, <2>1 DEF Tags
  <2>3. runs[j].merge <= tags[t].commit
    BY DEF RInv, HoldsEarlierMerges
  <2> QED BY <1>7, <2>2, <2>3
<1> QED BY <1>6, <1>9, <1>10, <1>11, <1>12, <1>13 DEF RInv

\* Checkout: the run holds main as it is, and has seen every tag.
LEMMA CheckoutKeeps ==
    ASSUME RInv, UNCHANGED began, NEW k \in DOMAIN runs, Checkout(k)
    PROVE  RInv'
<1> DEFINE n == Len(runs)
<1>1. /\ n \in Nat /\ DOMAIN runs = 1 .. n /\ runs[k] \in Runs
      /\ Len(main) \in Nat /\ Len(tags) \in Nat
  BY DEF RInv, Types
<1>2. /\ runs[k].at = "checkout" /\ UNCHANGED <<main, tags>>
      /\ runs' = [runs EXCEPT ![k] = [runs[k] EXCEPT !.at = "validate",
                                        !.commit = Len(main), !.seen = Len(tags)]]
  BY <1>1 DEF Checkout
<1> DEFINE new == [runs[k] EXCEPT !.at = "validate", !.commit = Len(main), !.seen = Len(tags)]
<1>3. /\ new \in Runs /\ new.at = "validate" /\ new.commit = Len(main)
      /\ new.seen = Len(tags) /\ new.merge = runs[k].merge
  BY <1>1 DEF Runs, States, Working
<1>4. runs' = [runs EXCEPT ![k] = new]
  BY <1>2
<1> HIDE DEF new
<1>5. /\ runs' \in Seq(Runs) /\ Len(runs') = n /\ DOMAIN runs' = 1 .. n
      /\ runs'[k] = new /\ \A j \in 1 .. n : j # k => runs'[j] = runs[j]
  BY <1>1, <1>3, <1>4 DEF RInv, Types
<1>6. \A j \in 1 .. n : runs'[j].merge = runs[j].merge /\ runs[j].merge <= Len(main)
  BY <1>1, <1>3, <1>5 DEF RInv, References
<1>7. Types' /\ References'
  BY <1>1, <1>2, <1>3, <1>5, <1>6 DEF RInv, Types, References
<1>8. OneAtWork'
  BY <1>1, <1>2, <1>3, <1>5 DEF RInv, OneAtWork, Working
<1>9. ASSUME NEW j \in 1 .. n
      PROVE  CheckedOut(j)' /\ Computed(j)'
  <2>1. CASE j = k
    <3>1. \A t \in DOMAIN tags : tags[t].commit <= Len(main)
      BY DEF RInv, References
    <3>2. \A i \in 1 .. k : i \in 1 .. n
      BY <1>1
    <3> QED BY <1>2, <1>3, <1>5, <1>6, <2>1, <3>1, <3>2 DEF CheckedOut, Computed
  <2>2. CASE j # k
    <3>1. runs[j].at \notin Working
      BY <1>1, <1>2, <2>2 DEF RInv, OneAtWork, Working
    <3> QED BY <1>5, <2>2, <3>1 DEF CheckedOut, Computed, Working
  <2> QED BY <2>1, <2>2
<1>10. TagsAreLinear' /\ TagMatchesModule'
  BY <1>2, FirstStays DEF RInv, TagsAreLinear, TagMatchesModule, modpath
<1>11. HoldsEarlierMerges'
  <2>1. \A t \in DOMAIN tags : tags[t].run <= n /\ tags[t] \in Tags
    BY DEF RInv, Types, References
  <2>2. \A t \in DOMAIN tags : \A j \in 1 .. tags[t].run : j \in 1 .. n
    BY <1>1, <2>1 DEF Tags
  <2> QED BY <1>2, <1>6, <2>2 DEF RInv, HoldsEarlierMerges
<1> QED BY <1>5, <1>7, <1>8, <1>9, <1>10, <1>11 DEF RInv

\* Compute: past every tag, and of the major of the commit.
LEMMA ComputeKeeps ==
    ASSUME RInv, UNCHANGED began, NEW k \in DOMAIN runs, Compute(k)
    PROVE  RInv'
<1> DEFINE n == Len(runs)
           v == Next3(Latest(runs[k].seen), runs[k].bump)
           new == [runs[k] EXCEPT !.at = "push", !.next = v]
<1>1. /\ n \in Nat /\ DOMAIN runs = 1 .. n /\ runs[k] \in Runs
      /\ Len(tags) \in Nat /\ DOMAIN tags = 1 .. Len(tags)
  BY DEF RInv, Types
<1>2. /\ runs[k].at = "compute" /\ runs[k].bump \in Bumps /\ UNCHANGED <<main, tags>>
      /\ PathMatches(v, runs[k].commit, runs[k].bump)
      /\ runs' = [runs EXCEPT ![k] = new]
  BY <1>1 DEF Compute
<1>3. /\ runs[k].seen = Len(tags)
      /\ \A j \in 1 .. k : runs[j].merge <= runs[k].commit
      /\ \A t \in DOMAIN tags : tags[t].commit <= runs[k].commit
  BY <1>2 DEF RInv, CheckedOut
<1>4. Latest(Len(tags)) = IF tags = <<>> THEN First ELSE tags[Len(tags)].version
  BY LatestIsLast
<1>5. First \in Versions /\ \A t \in DOMAIN tags : tags[t].version \in Versions
  <2>1. \A t \in DOMAIN tags : tags[t] \in Tags
    BY DEF RInv, Types
  <2> QED BY <2>1, FirstIsVersion DEF RInv, Tags
<1>6. /\ v \in Versions /\ Before(First, v)
      /\ \A t \in DOMAIN tags : Before(tags[t].version, v)
  <2>1. CASE tags = <<>>
    BY <1>2, <1>3, <1>4, <1>5, <2>1, BumpIsLater
  <2>2. CASE tags # <<>>
    <3> DEFINE last == tags[Len(tags)].version
    <3>1. Len(tags) > 0 /\ Len(tags) \in DOMAIN tags /\ 1 \in DOMAIN tags
      BY <1>1, <2>2 DEF RInv, Types
    <3>2. last \in Versions /\ v = Next3(last, runs[k].bump)
      BY <1>3, <1>4, <1>5, <2>2, <3>1
    <3>3. v \in Versions /\ Before(last, v)
      BY <1>2, <3>2, BumpIsLater
    <3>4. \A m \in Nat : \A t \in 1 .. m : t # m => t < m
      OBVIOUS
    <3>5. \A t \in DOMAIN tags : t # Len(tags) => t < Len(tags)
      BY <1>1, <3>4
    <3>6. \A t \in DOMAIN tags : t # Len(tags) => Before(tags[t].version, last)
      BY <3>1, <3>5 DEF RInv, TagsAreLinear
    <3>7. Before(First, tags[1].version)
      BY <2>2 DEF RInv, TagsAreLinear
    <3> HIDE DEF v
    <3>8. \A t \in DOMAIN tags : Before(tags[t].version, v)
      BY <1>5, <3>2, <3>3, <3>6, BeforeTransitive
    <3>9. Before(First, v)
      BY <1>5, <3>1, <3>3, <3>7, <3>8, BeforeTransitive
    <3> QED BY <3>3, <3>8, <3>9
  <2> QED BY <2>1, <2>2
<1> HIDE DEF v
<1>7. /\ new \in Runs /\ new.at = "push" /\ new.next = v
      /\ new.commit = runs[k].commit /\ new.seen = runs[k].seen /\ new.merge = runs[k].merge
  BY <1>1, <1>6 DEF Runs, States, Working
<1> HIDE DEF new
<1>8. /\ runs' \in Seq(Runs) /\ Len(runs') = n /\ DOMAIN runs' = 1 .. n
      /\ runs'[k] = new /\ \A j \in 1 .. n : j # k => runs'[j] = runs[j]
  BY <1>1, <1>2, <1>7 DEF RInv, Types
<1>9. \A j \in 1 .. n : /\ runs'[j].merge = runs[j].merge
                        /\ runs'[j].commit = runs[j].commit
  BY <1>7, <1>8
<1>10. Types' /\ References'
  BY <1>1, <1>2, <1>8, <1>9 DEF RInv, Types, References
<1>11. OneAtWork'
  BY <1>1, <1>2, <1>7, <1>8 DEF RInv, OneAtWork, Working
<1>12. ASSUME NEW j \in 1 .. n
       PROVE  CheckedOut(j)' /\ Computed(j)'
  <2>1. CASE j = k
    <3>1. \A i \in 1 .. k : i \in 1 .. n
      BY <1>1
    <3>2. CheckedOut(k)'
      BY <1>2, <1>3, <1>7, <1>8, <1>9, <3>1 DEF CheckedOut
    <3>3. Computed(k)'
      BY FirstStays, <1>2, <1>6, <1>7, <1>8 DEF Computed, PathMatches, modpath
    <3> QED BY <2>1, <3>2, <3>3
  <2>2. CASE j # k
    <3>1. runs[j].at \notin Working
      BY <1>1, <1>2, <2>2 DEF RInv, OneAtWork, Working
    <3> QED BY <1>8, <2>2, <3>1 DEF CheckedOut, Computed, Working
  <2> QED BY <2>1, <2>2
<1>13. TagsAreLinear' /\ TagMatchesModule'
  BY <1>2, FirstStays DEF RInv, TagsAreLinear, TagMatchesModule, modpath
<1>14. HoldsEarlierMerges'
  <2>1. \A t \in DOMAIN tags : tags[t].run <= n /\ tags[t] \in Tags
    BY DEF RInv, Types, References
  <2>2. \A t \in DOMAIN tags : \A j \in 1 .. tags[t].run : j \in 1 .. n
    BY <1>1, <2>1 DEF Tags
  <2> QED BY <1>2, <1>9, <2>2 DEF RInv, HoldsEarlierMerges
<1> QED BY <1>8, <1>10, <1>11, <1>12, <1>13, <1>14 DEF RInv

\* PushTag: what Computed and CheckedOut say of the run becomes true of its tag.
LEMMA PushTagKeeps ==
    ASSUME RInv, UNCHANGED began, NEW k \in DOMAIN runs, PushTag(k)
    PROVE  RInv'
<1> DEFINE n == Len(runs)
           m == Len(tags)
           tag == [version |-> runs[k].next, commit |-> runs[k].commit, run |-> k]
           new == [runs[k] EXCEPT !.at = "publish"]
<1>1. /\ n \in Nat /\ DOMAIN runs = 1 .. n /\ runs[k] \in Runs
      /\ m \in Nat /\ DOMAIN tags = 1 .. m /\ \A t \in 1 .. m : tags[t] \in Tags
  BY DEF RInv, Types
<1>2. /\ runs[k].at = "push" /\ main' = main /\ tags' = Append(tags, tag)
      /\ runs' = [runs EXCEPT ![k] = new]
  BY <1>1 DEF PushTag, Goes
<1>3. /\ \A j \in 1 .. k : runs[j].merge <= runs[k].commit
      /\ \A t \in 1 .. m : tags[t].commit <= runs[k].commit
      /\ Before(First, runs[k].next)
      /\ \A t \in 1 .. m : Before(tags[t].version, runs[k].next)
      /\ runs[k].next[1] >= 2 => modpath(runs[k].commit) = runs[k].next[1]
  BY <1>1, <1>2 DEF RInv, CheckedOut, Computed
<1>4. new \in Runs /\ new.at = "publish" /\ new.commit = runs[k].commit /\ new.merge = runs[k].merge
  BY <1>1 DEF Runs, States, Working
<1>5. tag \in Tags
  BY <1>1 DEF Runs, Tags
<1> HIDE DEF new
<1>6. /\ runs' \in Seq(Runs) /\ Len(runs') = n /\ DOMAIN runs' = 1 .. n
      /\ runs'[k] = new /\ \A j \in 1 .. n : j # k => runs'[j] = runs[j]
  BY <1>1, <1>2, <1>4 DEF RInv, Types
<1>7. \A j \in 1 .. n : /\ runs'[j].merge = runs[j].merge
                        /\ runs'[j].commit = runs[j].commit
  BY <1>4, <1>6
<1>8. /\ tags' \in Seq(Tags) /\ Len(tags') = m + 1 /\ DOMAIN tags' = 1 .. m + 1
      /\ tags'[m + 1] = tag /\ \A t \in 1 .. m : tags'[t] = tags[t]
  <2> HIDE DEF tag
  <2> QED BY <1>1, <1>2, <1>5 DEF RInv, Types
<1>9. Types'
  BY <1>2, <1>6, <1>8 DEF RInv, Types
<1>10. References'
  <2>1. \A j \in 1 .. n : runs'[j].merge <= Len(main') /\ runs'[j].commit <= Len(main')
    BY <1>1, <1>2, <1>7 DEF RInv, References
  <2>2. ASSUME NEW t \in 1 .. m + 1
        PROVE  tags'[t].commit <= Len(main') /\ tags'[t].run <= n
    <3>1. CASE t = m + 1
      BY <1>1, <1>2, <1>8, <3>1 DEF RInv, References
    <3>2. CASE t \in 1 .. m
      BY <1>1, <1>2, <1>8, <3>2 DEF RInv, References
    <3> QED BY <1>1, <3>1, <3>2
  <2> QED BY <1>6, <1>8, <2>1, <2>2 DEF References
<1>11. OneAtWork'
  BY <1>1, <1>2, <1>4, <1>6 DEF RInv, OneAtWork, Working
<1>12. ASSUME NEW j \in 1 .. n
       PROVE  CheckedOut(j)' /\ Computed(j)'
  <2>1. CASE j = k
    BY <1>4, <1>6, <2>1 DEF CheckedOut, Computed
  <2>2. CASE j # k
    <3>1. runs[j].at \notin Working
      BY <1>1, <1>2, <2>2 DEF RInv, OneAtWork, Working
    <3> QED BY <1>6, <2>2, <3>1 DEF CheckedOut, Computed, Working
  <2> QED BY <2>1, <2>2
<1>13. TagsAreLinear'
  <2>1. Before(First, tags'[1].version)
    <3>1. CASE m = 0
      BY <1>3, <1>8, <3>1
    <3>2. CASE m > 0
      <4>1. tags # <<>> /\ 1 \in 1 .. m
        BY <1>1, <3>2
      <4> QED BY <1>8, <4>1 DEF RInv, TagsAreLinear
    <3> QED BY <1>1, <3>1, <3>2
  <2>2. ASSUME NEW i \in 1 .. m + 1, NEW j \in 1 .. m + 1, i < j
        PROVE  Before(tags'[i].version, tags'[j].version) /\ tags'[i].commit <= tags'[j].commit
    <3>1. i \in 1 .. m
      BY <1>1, <2>2
    <3>2. CASE j = m + 1
      BY <1>3, <1>8, <3>1, <3>2
    <3>3. CASE j \in 1 .. m
      BY <1>1, <1>8, <2>2, <3>1, <3>3 DEF RInv, TagsAreLinear
    <3> QED BY <1>1, <3>2, <3>3
  <2> QED BY <1>8, <2>1, <2>2, FirstStays DEF TagsAreLinear
<1>14. TagMatchesModule'
  <2> SUFFICES ASSUME NEW t \in 1 .. m + 1
               PROVE  (tags[t].version[1] >= 2 =>
                          modpath(tags[t].commit) = tags[t].version[1])'
    BY <1>8 DEF TagMatchesModule
  <2>1. CASE t = m + 1
    BY <1>2, <1>3, <1>8, <2>1 DEF modpath
  <2>2. CASE t \in 1 .. m
    BY <1>1, <1>2, <1>8, <2>2 DEF RInv, TagMatchesModule, modpath
  <2> QED BY <1>1, <2>1, <2>2
<1>15. HoldsEarlierMerges'
  <2> SUFFICES ASSUME NEW t \in 1 .. m + 1, NEW j \in 1 .. tags'[t].run
               PROVE  runs'[j].merge <= tags'[t].commit
    BY <1>8 DEF HoldsEarlierMerges
  <2>1. CASE t = m + 1
    <3>1. j \in 1 .. k /\ j \in 1 .. n
      BY <1>1, <1>8, <2>1
    <3> QED BY <1>3, <1>7, <1>8, <2>1, <3>1
  <2>2. CASE t \in 1 .. m
    <3>1. tags[t] \in Tags /\ tags[t].run <= n /\ tags'[t] = tags[t]
      BY <1>1, <1>8, <2>2 DEF RInv, References
    <3>2. j \in 1 .. n
      BY <1>1, <3>1 DEF Tags
    <3>3. runs[j].merge <= tags[t].commit
      BY <1>1, <2>2, <3>1 DEF RInv, HoldsEarlierMerges
    <3> QED BY <1>7, <3>1, <3>2, <3>3
  <2> QED BY <1>1, <2>1, <2>2
<1> QED BY <1>6, <1>9, <1>10, <1>11, <1>12, <1>13, <1>14, <1>15 DEF RInv

-----------------------------------------------------------------------------
(* Theorems. *)

LEMMA RInitInv == Init => RInv
BY DEF Init, RInv, Types, References, OneAtWork, CheckedOut, Computed, TagsAreLinear,
       TagMatchesModule, HoldsEarlierMerges

LEMMA RNextInv == RInv /\ [Next]_vars => RInv'
<1> SUFFICES ASSUME RInv, [Next]_vars PROVE RInv'
  OBVIOUS
<1>0. UNCHANGED began
  BY DEF Next, vars
<1>1. Len(main) \in Nat /\ \A k \in DOMAIN runs : runs[k] \in Runs /\ runs[k].merge <= Len(main)
  BY DEF RInv, Types, References
<1>2. ASSUME NEW p \in Prefixes, NEW major \in 1 .. began.major + MaxEvents, Merge(p, major)
      PROVE  RInv'
  <2> DEFINE c == [prefix |-> p, major |-> major]
  <2>1. c \in Commits
    <3>1. began.major \in Nat
      BY ReleaseAssumption DEF RInv, Types
    <3> QED BY <3>1, ReleaseAssumption DEF Commits
  <2>2. /\ main' = Append(main, c) /\ UNCHANGED tags
        /\ Enqueue(BumpOf[p], Len(main) + 1)
    BY <1>2 DEF Merge
  <2>3. BumpOf[p] \in Bumps \cup {"none", "skip"}
    BY DEF Prefixes, BumpOf, Bumps
  <2> HIDE DEF c
  <2>4. Len(main') = Len(main) + 1
    BY <2>1, <2>2 DEF RInv, Types
  <2>5. Len(main) + 1 \in 0 .. Len(main')
    BY <1>1, <2>4
  <2> QED BY <2>1, <2>2, <2>3, <2>5, <1>0, EventKeeps
<1>3. ASSUME Discard PROVE RInv'
  BY <1>1, <1>3, <1>0, EventKeeps DEF Discard
<1>4. ASSUME NEW b \in Bumps, Dispatch(b) PROVE RInv'
  BY <1>1, <1>4, <1>0, EventKeeps DEF Dispatch
<1>5. ASSUME NEW k \in DOMAIN runs, Rerun(k) PROVE RInv'
  <2>1. runs[k].bump \in Bumps \cup {"none", "skip"} /\ runs[k].merge \in 0 .. Len(main)
    BY <1>1 DEF Runs
  <2> QED BY <1>5, <2>1, <1>0, EventKeeps DEF Rerun
<1>6. ASSUME NEW k \in DOMAIN runs, Start(k) PROVE RInv'
  BY <1>6, <1>0, MoveKeeps DEF Start, States, Working
<1>7. ASSUME NEW k \in DOMAIN runs,
             Skip(k) \/ Validate(k) \/ NoRelease(k) \/ Publish(k) \/ Fail(k)
      PROVE  RInv'
  BY <1>7, <1>0, MoveKeeps DEF Skip, Validate, NoRelease, Publish, Fail, Goes, States, Working
<1>8. CASE UNCHANGED vars
  BY <1>8, FirstStays DEF vars, RInv, Types, References, OneAtWork, CheckedOut, Computed, TagsAreLinear,
              TagMatchesModule, HoldsEarlierMerges, modpath
<1> QED BY <1>2, <1>3, <1>4, <1>5, <1>6, <1>7, <1>0, <1>8, CheckoutKeeps, ComputeKeeps, PushTagKeeps
        DEF Next, Event, JobStep

\* release.yml, the concurrency group: whatever fails or is run again, and however
\* many events come, each tag is past all others and on no older a commit.
THEOREM ReleasesAreLinear == Spec => []TagsAreLinear
BY RInitInv, RNextInv, PTL DEF Spec, RInv

\* release.yml, the module path check: it is made of the commit that gets the tag.
THEOREM ReleasesMatchModule == Spec => []TagMatchesModule
BY RInitInv, RNextInv, PTL DEF Spec, RInv

\* No release is of a main that lacks what was merged before its run.
THEOREM ReleasesHoldEarlierMerges == Spec => []HoldsEarlierMerges
BY RInitInv, RNextInv, PTL DEF Spec, RInv
=============================================================================
