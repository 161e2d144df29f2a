---------------------------- MODULE PublishProofs ----------------------------
(* That only canonical tarballs are staged and that a good verdict is true,  *)
(* for any number of packages, commits, jobs and failures.                   *)
EXTENDS PublishProperties, TLAPS

-----------------------------------------------------------------------------
(* Why everything staged is canonical: what each job has made sure of by    *)
(* the time it enters a phase, and that nothing takes it back.               *)

Underway(job) ==
    /\ job.phase # "idle" => job.sha \in Commits
    /\ job.phase = "refs" => job.mode \in {"stage", "publish-ready"}
    /\ job.phase \in {"idle", "refs", "runs", "artifact"} => job.next = 1
    /\ job.mode = "stage" /\ job.phase \in {"runs", "artifact", "staging"} =>
          job.sha \in Reviewed
    /\ job.mode = "publish-ready" /\ job.phase \in {"runs", "artifact", "reading"} =>
          job.sha \in Merged
    /\ job.phase = "artifact" /\ job.mode # "prepare" => job.sha \in FullyChecked
    /\ job.phase = "reading" => job.mode # "stage" /\ job.artifact \in Artifacts
    /\ job.phase = "reading" /\ job.mode # "verify" => AtBootstrap(job.artifact)
    /\ job.phase = "reading" /\ job.mode = "publish-ready" =>
          job.sha \in FullyChecked /\ job.artifact.tarballs = Tarballs(job.sha)

(* A stage has the tarballs and the order of the artifact, and has staged  *)
(* the packages it has come past.                                          *)
Staging(job) ==
    job.phase = "staging" =>
        /\ job.mode = "stage" /\ job.sha \in FullyChecked
        /\ PnpmAt[job.sha] = PinnedPnpm
        /\ job.artifact.tarballs = Tarballs(job.sha)
        /\ job.artifact.order = PublishOrder
        /\ \A i \in DOMAIN Roster : i < job.next =>
              \E p \in Packages :
                  p = PublishOrder[i] /\ Tarball(p, job.sha) \in staged[p][VersionOf(job.sha)]

(* A verification compares with the hashes of the commit, and as long as   *)
(* it has found nothing wrong, what it has come past is published.         *)
Comparing(job) ==
    job.mode = "verify" =>
        /\ job.phase = "reading" => job.artifact.packages = Records(job.sha, job.sha)
        /\ job.phase \in {"reading", "done"} /\ job.states \subseteq {"PUBLISHED_VERIFIED"} =>
              \A i \in DOMAIN Roster : i < job.next =>
                  live[Roster[i]][VersionOf(job.sha)] = Tarball(Roster[i], job.sha)
        /\ job.phase = "done" =>
              job.next > Len(Roster) /\ job.overall = Overall(job.states)

(* While nothing disturbs it, everything stays in place, and every answer  *)
(* so far was the good one.                                                *)
Undisturbed(job) ==
    job.mode = "verify" /\ job.phase \in {"runs", "artifact", "reading", "done"} /\ job.quiet =>
        /\ InPlace(job.sha)
        /\ job.states \subseteq {"PUBLISHED_VERIFIED"}
        /\ job.phase # "done" =>
              \A i \in DOMAIN Sources : i < job.source =>
                  /\ job.answers[Sources[i]] = "ok"
                  /\ i = 2 => job.named = VersionOf(job.sha)

Knows(job) == Underway(job) /\ Staging(job) /\ Comparing(job) /\ Undisturbed(job)

IInv ==
    /\ TypeOK
    /\ \A j \in Jobs : Knows(jobs[j])
    /\ StagedIsCanonical

-----------------------------------------------------------------------------
(* Packages, versions and artifacts.                                         *)

LEMMA RosterFacts ==
  /\ Len(Roster) \in Nat /\ Len(Roster) >= 1 /\ DOMAIN Roster = 1..Len(Roster)
  /\ Roster[1] \in Packages
  /\ \A i \in DOMAIN Roster : Roster[i] \in Packages /\ PublishOrder[i] \in Packages
  /\ \A p \in Packages : \E i \in DOMAIN Roster : Roster[i] = p
  /\ \A p \in Packages : \E i \in DOMAIN Roster : PublishOrder[i] = p
<1>1. Roster \in Seq(Packages) /\ Roster # <<>> /\ PublishOrder \in [DOMAIN Roster -> Packages]
  BY OrderIsTopological
<1>2. Len(Roster) \in Nat /\ Len(Roster) >= 1 /\ DOMAIN Roster = 1..Len(Roster)
  BY <1>1, SMT
<1>3. Roster[1] \in Packages
  BY <1>2 DEF Packages
<1> QED BY <1>1, <1>2, <1>3, OrderIsTopological DEF Packages

\* What a package depends on is staged before it.
LEMMA DependenciesFirst ==
  ASSUME NEW i \in DOMAIN Roster, NEW d \in DependsOn[PublishOrder[i]]
  PROVE  \E k \in DOMAIN Roster : k < i /\ PublishOrder[k] = d
<1>1. PICK k \in 1..(i - 1) : PublishOrder[k] = d
  BY OrderIsTopological
<1>2. DOMAIN Roster = 1..Len(Roster) /\ Len(Roster) \in Nat
  BY RosterFacts
<1>3. i \in 1..Len(Roster)
  BY <1>2, Zenon
<1>4. k \in 1..Len(Roster) /\ k < i
  BY <1>1, <1>2, <1>3
<1>5. k \in DOMAIN Roster
  BY <1>2, <1>4, Zenon
<1> QED BY <1>1, <1>4, <1>5

LEMMA DependenciesArePackages == \A d \in Packages : DependsOn[d] \subseteq Packages
<1> SUFFICES ASSUME NEW d \in Packages, NEW e \in DependsOn[d] PROVE e \in Packages
  OBVIOUS
<1>1. PICK i \in DOMAIN Roster : PublishOrder[i] = d
  BY RosterFacts
<1>2. PICK k \in DOMAIN Roster : PublishOrder[k] = e
  BY <1>1, DependenciesFirst
<1> QED BY <1>2, RosterFacts

LEMMA VersionFacts ==
  ASSUME NEW c \in Commits
  PROVE  VersionOf(c) \in Versions /\ \A p \in Packages : VersionAt[c][p] \in Versions
BY RosterFacts DEF Versions, VersionOf

LEMMA TarballFacts ==
  ASSUME NEW from \in Commits \cup {Working}
  PROVE  /\ \A p \in Packages : Tarball(p, from) \in Digests /\ Tarball(p, from) # None
         /\ Tarballs(from) \in [Packages -> Digests \cup {None}]
<1>1. \A p \in Packages : Tarball(p, from) \in Digests
  BY DEF Tarball, Digests
<1>2. None \notin Digests
  BY NoneIsNothing DEF Digests
<1> QED BY <1>1, <1>2 DEF Tarballs

LEMMA ArtifactFacts ==
  ASSUME NEW c \in Commits, NEW from \in Commits \cup {Working}
  PROVE  /\ Records(c, from) \in [Packages -> Record]
         /\ Artifact(c, from) \in Artifacts
         /\ Artifact(c, from).identity.pnpm = PnpmAt[c]
         /\ Artifact(c, from).order = PublishOrder
         /\ Artifact(c, from).packages = Records(c, from)
         /\ Artifact(c, from).tarballs = Tarballs(from)
<1>1. Records(c, from) \in [Packages -> Record]
  BY VersionFacts, TarballFacts DEF Records, Record
<1>2. PublishOrder \in [DOMAIN Roster -> Packages]
  BY OrderIsTopological
<1> DEFINE id == [sha |-> c, version |-> VersionOf(c), pnpm |-> PnpmAt[c],
                  order |-> PublishOrder, packages |-> Records(c, from)]
<1>3. id \in Identities
  BY <1>1, <1>2, VersionFacts DEF Identities
<1>4. id.pnpm = PnpmAt[c]
  OBVIOUS
<1>5. Tarballs(from) \in [Packages -> Digests \cup {None}]
  BY TarballFacts
<1>6. Artifact(c, from) = [identity |-> id, order |-> PublishOrder, packages |-> Records(c, from),
                           sums |-> Tarballs(from), tarballs |-> Tarballs(from)]
  BY DEF Artifact
<1> HIDE DEF id
<1>7. Artifact(c, from) \in Artifacts
  BY <1>1, <1>2, <1>3, <1>5, <1>6 DEF Artifacts
<1> QED BY <1>1, <1>4, <1>6, <1>7

\* Whatever arrives of an artifact has its order and its hashes.
LEMMA Arrives ==
  ASSUME NEW c \in Commits, NEW a \in {Artifact(c, c)} \cup Damaged(Artifact(c, c))
  PROVE  /\ a \in Artifacts
         /\ a.order = PublishOrder
         /\ a.packages = Records(c, c)
         /\ a.identity # None => a.identity.pnpm = PnpmAt[c]
<1> DEFINE whole == Artifact(c, c)
<1>1. /\ whole \in Artifacts /\ whole.order = PublishOrder /\ whole.packages = Records(c, c)
      /\ whole.identity.pnpm = PnpmAt[c]
  BY ArtifactFacts
<1>2. \/ a = whole \/ a = [whole EXCEPT !.identity = None]
      \/ \E p \in Packages : a = [whole EXCEPT !.tarballs = [@ EXCEPT ![p] = None]]
      \/ \E p \in Packages : a = [whole EXCEPT !.sums = [@ EXCEPT ![p] = None]]
  BY DEF Damaged
<1> HIDE DEF whole
<1>3. CASE a = whole
  BY <1>1, <1>3
<1>4. CASE a = [whole EXCEPT !.identity = None]
  BY <1>1, <1>4 DEF Artifacts
<1>5. ASSUME NEW p \in Packages, a = [whole EXCEPT !.tarballs = [@ EXCEPT ![p] = None]]
      PROVE  a \in Artifacts /\ a.order = whole.order /\ a.packages = whole.packages
             /\ a.identity = whole.identity
  <2>1. [whole.tarballs EXCEPT ![p] = None] \in [Packages -> Digests \cup {None}]
    BY <1>1 DEF Artifacts
  <2> QED BY <1>1, <1>5, <2>1 DEF Artifacts
<1>6. ASSUME NEW p \in Packages, a = [whole EXCEPT !.sums = [@ EXCEPT ![p] = None]]
      PROVE  a \in Artifacts /\ a.order = whole.order /\ a.packages = whole.packages
             /\ a.identity = whole.identity
  <2>1. [whole.sums EXCEPT ![p] = None] \in [Packages -> Digests \cup {None}]
    BY <1>1 DEF Artifacts
  <2> QED BY <1>1, <1>6, <2>1 DEF Artifacts
<1> QED BY <1>1, <1>2, <1>3, <1>4, <1>5, <1>6

\* A valid one has the tarballs of the commit, packed by the pinned pnpm.
LEMMA ValidHasAll ==
  ASSUME NEW c \in Commits, NEW a \in {Artifact(c, c)} \cup Damaged(Artifact(c, c)),
         NEW head, Valid(a, head)
  PROVE  a.tarballs = Tarballs(c) /\ PnpmAt[c] = PinnedPnpm
<1>1. PnpmAt[c] = PinnedPnpm
  BY Arrives DEF Valid
<1>2. a.tarballs \in [Packages -> Digests \cup {None}]
  BY Arrives DEF Artifacts
<1>3. \A p \in Packages : Records(c, c)[p].sha256 = Tarball(p, c)
  BY DEF Records
<1>4. \A p \in Packages : a.tarballs[p] = a.packages[p].sha256
  BY DEF Valid
<1>5. \A p \in Packages : a.tarballs[p] = Tarball(p, c)
  BY <1>3, <1>4, Arrives
<1> QED BY <1>1, <1>2, <1>5 DEF Tarballs

-----------------------------------------------------------------------------
(* What a job knows stays true while the repository grows, more is staged and *)
(* more is published.                                                        *)

RepoGrows ==
  /\ Merged \subseteq Merged' /\ Reviewed \subseteq Reviewed'
  /\ FullyChecked \subseteq FullyChecked'

LEMMA RepoStays == ASSUME UNCHANGED repo PROVE RepoGrows
<1>1. main' = main /\ tagged' = tagged /\ checks' = checks
  BY DEF repo
<1>2. Merged' = Merged
  BY <1>1 DEF Merged, OnMain
<1>3. Reviewed' = Reviewed
  BY <1>1, <1>2 DEF Reviewed
<1>4. FullyChecked' = FullyChecked
  BY <1>1 DEF FullyChecked, Successful
<1> QED BY <1>2, <1>3, <1>4 DEF RepoGrows

LEMMA KnowsGrows ==
  ASSUME NEW q \in Job, Knows(q), TypeOK, RepoGrows,
         \A p \in Packages, v \in Versions : staged[p][v] \subseteq staged'[p][v],
         \A p \in Packages, v \in Versions : live[p][v] # None => live'[p][v] = live[p][v],
         q.quiet /\ InPlace(q.sha) => live' = live /\ tags' = tags /\ shown' = shown,
         q.phase # "idle" => q.sha \in Commits
  PROVE  Knows(q)'
<1>1. Underway(q)'
  BY DEF Knows, Underway, RepoGrows
<1>2. Staging(q)'
  <2>1. CASE q.phase = "staging"
    <3>1. q.sha \in Commits /\ VersionOf(q.sha) \in Versions
      BY <2>1, VersionFacts
    <3>2. Staging(q)
      BY DEF Knows
    <3> QED BY <2>1, <3>1, <3>2 DEF Staging, RepoGrows
  <2> QED BY <2>1 DEF Staging
<1>3. Comparing(q)'
  <2>1. CASE q.mode = "verify" /\ q.phase \in {"reading", "done"}
    <3>1. q.sha \in Commits /\ VersionOf(q.sha) \in Versions
      BY <2>1, VersionFacts
    <3>2. Comparing(q)
      BY DEF Knows
    <3>3. \A i \in DOMAIN Roster : Roster[i] \in Packages /\ Tarball(Roster[i], q.sha) # None
      BY <3>1, RosterFacts, TarballFacts
    <3>4. \A i \in DOMAIN Roster :
            live[Roster[i]][VersionOf(q.sha)] = Tarball(Roster[i], q.sha)
            => live'[Roster[i]][VersionOf(q.sha)] = Tarball(Roster[i], q.sha)
      BY <3>1, <3>3
    <3> QED BY <2>1, <3>2, <3>4 DEF Comparing
  <2> QED BY <2>1 DEF Comparing
<1>4. Undisturbed(q)'
  <2>1. CASE q.quiet /\ InPlace(q.sha)
    <3>1. InPlace(q.sha)'
      BY <2>1 DEF InPlace, TruthOf
    <3> QED BY <3>1 DEF Knows, Undisturbed
  <2> QED BY <2>1 DEF Knows, Undisturbed
<1> QED BY <1>1, <1>2, <1>3, <1>4 DEF Knows

LEMMA CanonicalStays ==
  ASSUME StagedIsCanonical, RepoGrows, UNCHANGED <<staged, outputs>>
  PROVE  StagedIsCanonical'
<1>1. \A t, p, v : Canonical(t, p, v) => Canonical(t, p, v)'
  BY DEF Canonical, RepoGrows
<1> QED BY <1>1 DEF StagedIsCanonical, RepoGrows, outputs

\* A step of the repository.
LEMMA RepoStep ==
  ASSUME IInv, RepoGrows, UNCHANGED <<scene, jobs, registry, outputs>>,
         main' \in Seq(Commits) /\ main' # <<>>,
         tagged' \in [Versions -> Commits \cup {None}],
         checks' \in Seq(Checks)
  PROVE  IInv'
<1>1. TypeOK'
  BY DEF IInv, TypeOK, registry, outputs
<1>2. ASSUME NEW k \in Jobs PROVE Knows(jobs[k])'
  <2>1. jobs[k] \in Job /\ Knows(jobs[k]) /\ TypeOK
    BY DEF IInv, TypeOK
  <2>2. jobs[k].phase # "idle" => jobs[k].sha \in Commits
    BY <2>1 DEF Knows, Underway
  <2>3. \A q \in {jobs[k]} : Knows(q)'
    BY <2>1, <2>2, KnowsGrows DEF registry
  <2> QED BY <2>3 DEF outputs
<1>3. StagedIsCanonical'
  BY CanonicalStays DEF IInv, registry
<1> QED BY <1>1, <1>2, <1>3 DEF IInv

\* A step of one job.
LEMMA JobStep ==
  ASSUME IInv, NEW j \in Jobs, NEW q \in Job, Knows(q), jobs' = [jobs EXCEPT ![j] = q],
         UNCHANGED <<scene, repo, registry, outputs>>
  PROVE  IInv'
<1>1. RepoGrows
  BY RepoStays
<1>2. TypeOK'
  BY DEF IInv, TypeOK, repo, registry, outputs
<1>3. \A x \in Job : Knows(x) => Knows(x)'
  <2> SUFFICES ASSUME NEW x \in Job, Knows(x) PROVE Knows(x)'
    OBVIOUS
  <2>1. x.phase # "idle" => x.sha \in Commits
    BY DEF Knows, Underway
  <2> QED BY <1>1, <2>1, KnowsGrows DEF IInv, registry
<1>4. ASSUME NEW k \in Jobs PROVE jobs'[k] \in Job /\ Knows(jobs'[k])
  BY DEF IInv, TypeOK
<1>5. ASSUME NEW k \in Jobs PROVE Knows(jobs[k])'
  BY <1>3, <1>4
<1>6. StagedIsCanonical'
  BY <1>1, CanonicalStays DEF IInv, registry
<1> QED BY <1>2, <1>5, <1>6 DEF IInv

-----------------------------------------------------------------------------
(* The repository.                                                           *)

LEMMA AppendFacts ==
  ASSUME NEW S, NEW s \in Seq(S), NEW x \in S
  PROVE  /\ Append(s, x) \in Seq(S) /\ Append(s, x) # <<>>
         /\ \A i \in DOMAIN s : i \in DOMAIN Append(s, x) /\ Append(s, x)[i] = s[i]
<1>1. Append(s, x) \in Seq(S) /\ Len(s) \in Nat /\ Len(Append(s, x)) = Len(s) + 1
  BY SMT
<1>2. DOMAIN s = 1..Len(s) /\ DOMAIN Append(s, x) = 1..(Len(s) + 1)
  BY <1>1, SMT
<1>3. \A i \in 1..Len(s) : i \in 1..(Len(s) + 1) /\ Append(s, x)[i] = s[i]
  BY <1>1, SMT
<1>4. Append(s, x) # <<>>
  BY <1>1, SMT
<1> QED BY <1>1, <1>2, <1>3, <1>4

LEMMA MergeKeepsIInv == ASSUME IInv, NEW c \in Commits, Merge(c) PROVE IInv'
<1>1. main \in Seq(Commits)
  BY DEF IInv, TypeOK
<1>2. main' = Append(main, c) /\ UNCHANGED <<scene, tagged, checks, jobs, registry, outputs>>
  BY DEF Merge, Spend
<1>3. Merged \subseteq Merged'
  BY <1>1, <1>2, AppendFacts DEF Merged, OnMain
<1>4. RepoGrows
  BY <1>2, <1>3 DEF Reviewed, FullyChecked, Successful, RepoGrows
<1>5. main' \in Seq(Commits) /\ main' # <<>>
  BY <1>1, <1>2, AppendFacts
<1> QED BY <1>2, <1>4, <1>5, RepoStep DEF IInv, TypeOK

LEMMA PushTagKeepsIInv ==
  ASSUME IInv, NEW version \in Versions, NEW c \in Commits, PushTag(version, c) PROVE IInv'
<1>1. /\ tagged[version] = None /\ tagged' = [tagged EXCEPT ![version] = c]
      /\ UNCHANGED <<scene, main, checks, jobs, registry, outputs>>
  BY DEF PushTag, Spend
<1>2. tagged \in [Versions -> Commits \cup {None}]
  BY DEF IInv, TypeOK
<1>3. \A d \in Commits : tagged[VersionOf(d)] = d => tagged'[VersionOf(d)] = d
  BY <1>1, <1>2, VersionFacts, NoneIsNothing
<1>4. Merged' = Merged /\ FullyChecked' = FullyChecked
  BY <1>1 DEF Merged, OnMain, FullyChecked, Successful
<1>5. RepoGrows
  BY <1>3, <1>4 DEF RepoGrows, Reviewed, Merged
<1> QED BY <1>1, <1>2, <1>5, RepoStep DEF IInv, TypeOK

LEMMA CompletedRunKeepsIInv ==
  ASSUME IInv, NEW new \in Checks, checks' = Append(checks, new),
         UNCHANGED <<scene, main, tagged, jobs, registry, outputs>>
  PROVE  IInv'
<1>1. checks \in Seq(Checks)
  BY DEF IInv, TypeOK
<1>2. checks' \in Seq(Checks)
      /\ \A i \in DOMAIN checks : i \in DOMAIN checks' /\ checks'[i] = checks[i]
  BY <1>1, AppendFacts
<1>3. FullyChecked \subseteq FullyChecked'
  BY <1>2 DEF FullyChecked, Successful
<1>4. Merged' = Merged /\ Reviewed' = Reviewed
  BY DEF Merged, OnMain, Reviewed
<1>5. RepoGrows
  BY <1>3, <1>4 DEF RepoGrows
<1> QED BY <1>2, <1>5, RepoStep DEF IInv, TypeOK

LEMMA CheckKeepsIInv ==
  ASSUME IInv, NEW name \in {"CI", "Release Check"}, NEW c \in Commits,
         NEW event \in Events, NEW ok \in BOOLEAN, Check(name, c, event, ok)
  PROVE  IInv'
<1>1. UNCHANGED <<scene, main, tagged, jobs, registry, outputs>>
  BY DEF Check, Spend
<1>2. PICK kept \in BOOLEAN :
        checks' = Append(checks, [name |-> name, sha |-> c, event |-> event,
                                  ok |-> ok, artifact |-> kept])
  BY DEF Check
<1>3. [name |-> name, sha |-> c, event |-> event, ok |-> ok, artifact |-> kept] \in Checks
  BY <1>2 DEF Checks
<1> QED BY <1>1, <1>2, <1>3, CompletedRunKeepsIInv

-----------------------------------------------------------------------------
(* A job up to the choice of its artifact.                                   *)

LEMMA IdleFacts ==
  /\ Idle \in Job /\ Idle.phase = "idle" /\ Idle.next = 1 /\ Idle.source = 1
  /\ Idle.states = {}
BY DEF Idle, Job, Phases, Over, Modes, Workflows, NoAnswers

\* A job that is over has nothing to answer for, unless it is a verification.
LEMMA FailedKnows ==
  ASSUME NEW s \in Job, s.phase # "idle", Knows(s)
  PROVE  /\ [s EXCEPT !.phase = "failed"] \in Job
         /\ Knows([s EXCEPT !.phase = "failed"])
<1> DEFINE q == [s EXCEPT !.phase = "failed"]
<1>1. q \in Job /\ q.phase = "failed" /\ q.sha = s.sha /\ q.mode = s.mode
  BY DEF Job, Phases, Over
<1>2. s.sha \in Commits
  BY DEF Knows, Underway
<1> HIDE DEF q
<1>3. Knows(q)
  BY <1>1, <1>2 DEF Knows, Underway, Staging, Comparing, Undisturbed
<1> QED BY <1>1, <1>3 DEF q

LEMMA FailKeepsIInv ==
  ASSUME IInv, NEW j \in Jobs, jobs[j].phase # "idle", Fail(j),
         UNCHANGED <<scene, repo, registry, outputs>>
  PROVE  IInv'
<1>1. jobs[j] \in Job /\ Knows(jobs[j])
  BY DEF IInv, TypeOK
<1>2. jobs' = [jobs EXCEPT ![j] = [jobs[j] EXCEPT !.phase = "failed"]]
  BY DEF Fail, Enter, Become
<1>3. \A q \in {[jobs[j] EXCEPT !.phase = "failed"]} : q \in Job /\ Knows(q)
  BY <1>1, FailedKnows
<1> QED BY <1>2, <1>3, JobStep

LEMMA StopKeepsIInv == ASSUME IInv, NEW j \in Jobs, Stop(j) PROVE IInv'
<1>1. /\ jobs[j].phase # "idle" /\ Fail(j)
      /\ UNCHANGED <<scene, repo, registry, outputs>>
  BY DEF Stop, Spend, Over
<1> QED BY <1>1, FailKeepsIInv

LEMMA DispatchKeepsIInv ==
  ASSUME IInv, NEW j \in Jobs, NEW order \in scene.orders,
         Dispatch(j, order.mode, order.sha, order.tag, order.branch)
  PROVE  IInv'
<1>1. scene \in Scenarios
  BY DEF IInv, TypeOK
<1>2. order \in Orders
  BY <1>1, ScenariosAreStates
<1> DEFINE q == [Idle EXCEPT !.mode = order.mode, !.sha = order.sha, !.tag = order.tag,
                             !.branch = order.branch, !.phase = FirstPhase(order.mode),
                             !.quiet = InPlace(order.sha)]
<1>3. jobs' = [jobs EXCEPT ![j] = q] /\ UNCHANGED <<scene, repo, registry, outputs>>
  BY DEF Dispatch, Spend, Become
<1>4. /\ order.mode \in Modes /\ order.sha \in Commits
      /\ order.tag \in Versions \cup {None} /\ order.branch \in {"main", "other", None}
  BY <1>2 DEF Orders
<1>5. FirstPhase(order.mode) =
        IF order.mode = "verify" THEN "runs"
        ELSE IF order.mode = "prepare" THEN "artifact" ELSE "refs"
  BY <1>4 DEF FirstPhase, Modes, Workflows
<1>6. InPlace(order.sha) \in BOOLEAN
  BY DEF InPlace
<1>7. /\ q \in Job /\ q.mode = order.mode /\ q.sha = order.sha /\ q.next = 1 /\ q.source = 1
      /\ q.states = {} /\ q.quiet = InPlace(order.sha) /\ q.phase = FirstPhase(order.mode)
  BY <1>4, <1>5, <1>6, IdleFacts DEF Job, Phases
<1> HIDE DEF q
<1>8. Underway(q)
  BY <1>4, <1>5, <1>7 DEF Underway, Modes, Workflows
<1>9. Staging(q) /\ Comparing(q)
  BY <1>5, <1>7 DEF Staging, Comparing
<1>10. Undisturbed(q)
  <2>1. \A i \in DOMAIN Sources : ~(i < q.source)
    BY <1>7 DEF Sources
  <2> QED BY <1>4, <1>5, <1>7, <2>1 DEF Undisturbed
<1> QED BY <1>3, <1>7, <1>8, <1>9, <1>10, JobStep DEF Knows

\* The gates: a stage is for a reviewed commit, what is consumed is on main.
LEMMA CheckRefsKeepsIInv == ASSUME IInv, NEW j \in Jobs, CheckRefs(j) PROVE IInv'
<1>1. /\ jobs[j] \in Job /\ Knows(jobs[j]) /\ jobs[j].phase = "refs" /\ jobs[j].sha \in Commits
      /\ UNCHANGED <<scene, repo, registry, outputs>>
  BY DEF IInv, TypeOK, CheckRefs, Free, Knows, Underway
<1>2. CASE Fail(j)
  BY <1>1, <1>2, FailKeepsIInv
<1>3. CASE /\ Enter(j, "runs")
           /\ IF jobs[j].mode = "stage" THEN MayStage(jobs[j]) ELSE MayConsume(jobs[j])
  <2> DEFINE q == [jobs[j] EXCEPT !.phase = "runs"]
  <2>1. jobs' = [jobs EXCEPT ![j] = q]
    BY <1>3 DEF Enter, Become
  <2>2. /\ q \in Job /\ q.phase = "runs" /\ q.sha = jobs[j].sha /\ q.mode = jobs[j].mode
        /\ q.next = jobs[j].next
    BY <1>1 DEF Job, Phases
  <2> HIDE DEF q
  <2>3. q.mode = "stage" => q.sha \in Reviewed
    <3>1. CASE q.mode = "stage"
      <4>1. MayStage(jobs[j])
        BY <1>3, <2>2, <3>1
      <4>2. \A p \in Packages : VersionAt[q.sha][p] = jobs[j].tag
        BY <2>2, <4>1 DEF MayStage
      <4>3. VersionOf(q.sha) = jobs[j].tag /\ Lockstep(q.sha)
        BY <4>2, RosterFacts DEF VersionOf, Lockstep
      <4>4. tagged[VersionOf(q.sha)] = q.sha /\ OnMain(q.sha)
        BY <2>2, <4>1, <4>3 DEF MayStage
      <4> QED BY <1>1, <2>2, <4>3, <4>4 DEF Reviewed, Merged
    <3> QED BY <3>1
  <2>4. q.mode # "stage" => q.sha \in Merged
    <3>1. main \in Seq(Commits) /\ main # <<>>
      BY DEF IInv, TypeOK
    <3>2. Len(main) \in DOMAIN main
      BY <3>1, SMT
    <3> QED BY <1>1, <1>3, <2>2, <3>2 DEF MayConsume, Merged, OnMain
  <2>5. q.mode # "verify"
    BY <1>1, <2>2 DEF Knows, Underway
  <2>6. Knows(q)
    BY <1>1, <2>2, <2>3, <2>4, <2>5 DEF Knows, Underway, Staging, Comparing, Undisturbed
  <2> QED BY <1>1, <2>1, <2>2, <2>6, JobStep
<1> QED BY <1>2, <1>3 DEF CheckRefs

\* The run that is picked shows that a full Release Check succeeded.
LEMMA PickRunKeepsIInv == ASSUME IInv, NEW j \in Jobs, PickRun(j) PROVE IInv'
<1>1. /\ jobs[j] \in Job /\ Knows(jobs[j]) /\ jobs[j].phase = "runs" /\ jobs[j].sha \in Commits
      /\ UNCHANGED <<scene, repo, registry, outputs>>
  BY DEF IInv, TypeOK, PickRun, Free, Knows, Underway
<1>2. CASE Fail(j)
  BY <1>1, <1>2, FailKeepsIInv
<1>3. ASSUME NEW i \in DOMAIN checks, Newest(i, jobs[j].sha),
             Become(j, [jobs[j] EXCEPT !.phase = "artifact", !.run = i])
      PROVE  IInv'
  <2> DEFINE q == [jobs[j] EXCEPT !.phase = "artifact", !.run = i]
  <2>1. jobs' = [jobs EXCEPT ![j] = q]
    BY <1>3 DEF Become
  <2>2. i \in Nat
    <3>1. checks \in Seq(Checks)
      BY DEF IInv, TypeOK
    <3>2. DOMAIN checks = 1..Len(checks) /\ Len(checks) \in Nat
      BY <3>1, SMT
    <3>3. i \in 1..Len(checks)
      BY <3>2, Zenon
    <3> QED BY <3>2, <3>3
  <2>3. /\ q \in Job /\ q.phase = "artifact" /\ q.sha = jobs[j].sha /\ q.mode = jobs[j].mode
        /\ q.next = jobs[j].next /\ q.quiet = jobs[j].quiet /\ q.states = jobs[j].states
        /\ q.source = jobs[j].source /\ q.answers = jobs[j].answers /\ q.named = jobs[j].named
    BY <1>1, <2>2 DEF Job, Phases
  <2> HIDE DEF q
  <2>4. q.sha \in FullyChecked
    BY <1>1, <1>3, <2>3 DEF Newest, Full, FullyChecked
  <2>5. Underway(q)
    BY <1>1, <2>3, <2>4 DEF Knows, Underway
  <2>6. Staging(q) /\ Comparing(q) /\ Undisturbed(q)
    BY <1>1, <2>3 DEF Knows, Staging, Comparing, Undisturbed
  <2> QED BY <1>1, <2>1, <2>3, <2>5, <2>6, JobStep DEF Knows
<1> QED BY <1>2, <1>3 DEF PickRun

-----------------------------------------------------------------------------
(* The artifact.                                                             *)

\* What may be used of an artifact of the commit itself.
LEMMA UseKeepsIInv ==
  ASSUME IInv, NEW j \in Jobs, NEW a \in Artifacts,
         jobs[j].phase = "artifact", Use(j, a), UNCHANGED <<scene, repo, registry, outputs>>,
         jobs[j].mode # "prepare" =>
             a \in {Artifact(jobs[j].sha, jobs[j].sha)} \cup Damaged(Artifact(jobs[j].sha, jobs[j].sha))
  PROVE  IInv'
<1>1. jobs[j] \in Job /\ Knows(jobs[j]) /\ jobs[j].sha \in Commits /\ jobs[j].next = 1
  BY DEF IInv, TypeOK, Knows, Underway
<1>2. CASE Fail(j)
  BY <1>1, <1>2, FailKeepsIInv
<1>3. CASE /\ Accepts(jobs[j], a)
           /\ Become(j, [jobs[j] EXCEPT !.phase = Purpose(jobs[j].mode), !.artifact = a])
  <2> DEFINE q == [jobs[j] EXCEPT !.phase = Purpose(jobs[j].mode), !.artifact = a]
  <2>1. jobs' = [jobs EXCEPT ![j] = q]
    BY <1>3 DEF Become
  <2>2. Purpose(jobs[j].mode) = IF jobs[j].mode = "stage" THEN "staging" ELSE "reading"
    BY DEF Purpose
  <2>3. /\ q \in Job /\ q.phase = Purpose(jobs[j].mode) /\ q.sha = jobs[j].sha
        /\ q.mode = jobs[j].mode /\ q.next = 1 /\ q.artifact = a /\ q.quiet = jobs[j].quiet
        /\ q.states = jobs[j].states /\ q.source = jobs[j].source
        /\ q.answers = jobs[j].answers /\ q.named = jobs[j].named
    BY <1>1, <2>2 DEF Job, Phases
  <2>4. q.mode \in {"stage", "publish-ready"} => Valid(a, q.sha)
    BY <1>3, <2>3 DEF Accepts, LayoutHolds
  <2>5. q.mode \in {"prepare", "publish-ready"} => AtBootstrap(a)
    BY <1>3, <2>3 DEF Accepts
  <2>6. q.mode \in {"stage", "verify", "prepare", "publish-ready"}
    BY <2>3 DEF Job, Modes, Workflows
  <2> HIDE DEF q
  <2>7. q.mode # "prepare" =>
          /\ a.order = PublishOrder /\ a.packages = Records(q.sha, q.sha)
          /\ Valid(a, q.sha) => a.tarballs = Tarballs(q.sha) /\ PnpmAt[q.sha] = PinnedPnpm
    BY <1>1, <2>3, Arrives, ValidHasAll
  <2>8. Underway(q)
    BY <1>1, <2>2, <2>3, <2>4, <2>5, <2>6, <2>7 DEF Knows, Underway
  <2>9. \A i \in DOMAIN Roster : ~(i < 1)
    BY RosterFacts
  <2>10. Staging(q)
    BY <1>1, <2>2, <2>3, <2>4, <2>7, <2>9 DEF Knows, Underway, Staging
  <2>11. Comparing(q)
    BY <1>1, <2>2, <2>3, <2>7, <2>9 DEF Comparing
  <2>12. Undisturbed(q)
    BY <1>1, <2>2, <2>3 DEF Knows, Undisturbed
  <2> QED BY <2>1, <2>3, <2>8, <2>10, <2>11, <2>12, JobStep DEF Knows
<1> QED BY <1>2, <1>3 DEF Use

LEMMA DownloadKeepsIInv == ASSUME IInv, NEW j \in Jobs, Download(j) PROVE IInv'
<1>1. /\ jobs[j].phase = "artifact" /\ jobs[j].mode # "prepare" /\ jobs[j].sha \in Commits
      /\ UNCHANGED <<scene, repo, registry, outputs>>
  BY DEF IInv, Download, Free, Spend, Knows, Underway
<1>2. CASE Fail(j)
  BY <1>1, <1>2, FailKeepsIInv
<1>3. ASSUME NEW a \in {Artifact(jobs[j].sha, jobs[j].sha)}
                          \cup Damaged(Artifact(jobs[j].sha, jobs[j].sha)), Use(j, a)
      PROVE  IInv'
  <2>1. a \in Artifacts
    BY <1>1, Arrives
  <2> QED BY <1>1, <1>3, <2>1, UseKeepsIInv
<1> QED BY <1>2, <1>3 DEF Download

LEMMA PackLocallyKeepsIInv == ASSUME IInv, NEW j \in Jobs, PackLocally(j) PROVE IInv'
<1>1. /\ jobs[j].phase = "artifact" /\ jobs[j].mode = "prepare" /\ jobs[j].sha \in Commits
      /\ UNCHANGED <<scene, repo, registry, outputs>>
  BY DEF IInv, PackLocally, Free, Knows, Underway
<1>2. CASE Fail(j)
  BY <1>1, <1>2, FailKeepsIInv
<1>3. CASE Use(j, Artifact(jobs[j].sha, Working))
  <2>1. Artifact(jobs[j].sha, Working) \in Artifacts
    BY <1>1, ArtifactFacts
  <2> QED BY <1>1, <1>3, <2>1, UseKeepsIInv
<1> QED BY <1>2, <1>3 DEF PackLocally

-----------------------------------------------------------------------------
(* Staging.                                                                  *)

\* What is staged next is canonical, and what it needs is there.
LEMMA StagedMore ==
  ASSUME IInv, NEW j \in Jobs, jobs[j].phase = "staging", jobs[j].next <= Len(Roster),
         Staged(j, jobs[j].artifact.order[jobs[j].next]),
         UNCHANGED <<scene, repo, live, tags, shown, outputs>>
  PROVE  /\ staged' \in [Packages -> [Versions -> SUBSET (Digests \cup {None})]]
         /\ \A q \in Packages, w \in Versions : staged[q][w] \subseteq staged'[q][w]
         /\ StagedIsCanonical'
         /\ \E p \in Packages :
               /\ p = PublishOrder[jobs[j].next]
               /\ Tarball(p, jobs[j].sha) \in staged'[p][VersionOf(jobs[j].sha)]
<1> DEFINE job == jobs[j]
           p == PublishOrder[job.next]
           v == VersionOf(job.sha)
           t == Tarball(p, job.sha)
<1>1. /\ job \in Job /\ Underway(job) /\ Staging(job) /\ job.phase = "staging"
      /\ job.next <= Len(Roster) /\ job.sha \in Commits
  BY DEF IInv, TypeOK, Knows, Underway
<1>2. /\ job.mode = "stage" /\ job.sha \in FullyChecked /\ job.sha \in Reviewed
      /\ PnpmAt[job.sha] = PinnedPnpm /\ job.artifact.tarballs = Tarballs(job.sha)
      /\ job.artifact.order = PublishOrder /\ job.next \in Nat \ {0}
      /\ \A i \in DOMAIN Roster : i < job.next =>
            \E x \in Packages :
               x = PublishOrder[i] /\ Tarball(x, job.sha) \in staged[x][VersionOf(job.sha)]
  BY <1>1 DEF Staging, Underway, Job
<1>3. job.next \in DOMAIN Roster /\ p \in Packages /\ v \in Versions
  <2>1. job.next \in 1..Len(Roster)
    BY <1>1, <1>2, RosterFacts
  <2>2. job.next \in DOMAIN Roster
    BY <2>1, RosterFacts
  <2> QED BY <1>1, <2>2, RosterFacts, VersionFacts
<1>4. t \in Digests
  BY <1>1, <1>3, TarballFacts
<1>5. staged' = [staged EXCEPT ![p] = [staged[p] EXCEPT ![v] = staged[p][v] \cup {t}]]
  <2>1. job.artifact.tarballs[p] = t
    BY <1>2, <1>3 DEF Tarballs
  <2>2. Staged(j, p)
    BY <1>2
  <2>3. staged' = [staged EXCEPT ![p] = [staged[p] EXCEPT ![v] =
                       staged[p][v] \cup {job.artifact.tarballs[p]}]]
    BY <2>2 DEF Staged
  <2> QED BY <2>1, <2>3
<1>6. staged \in [Packages -> [Versions -> SUBSET (Digests \cup {None})]]
  BY DEF IInv, TypeOK
<1>7. \A i \in DOMAIN Roster : i < job.next => Tarball(PublishOrder[i], job.sha) \in staged[PublishOrder[i]][v]
  BY <1>2
<1>8. \A d \in DependsOn[p] : staged[d][v] # {}
  <2> SUFFICES ASSUME NEW d \in DependsOn[p] PROVE staged[d][v] # {}
    OBVIOUS
  <2>1. PICK k \in DOMAIN Roster : k < job.next /\ PublishOrder[k] = d
    BY <1>3, DependenciesFirst
  <2> QED BY <1>7, <2>1
<1>9. Canonical(t, p, v)
  BY <1>2 DEF Canonical, Reviewed, Merged
<1>10. evidence' = evidence /\ plan' = plan
  BY DEF outputs
<1>11. StagedIsCanonical
  BY DEF IInv
<1>12. RepoGrows
  BY RepoStays
<1>13. \A x, q, w : Canonical(x, q, w) => Canonical(x, q, w)'
  BY <1>12 DEF Canonical, RepoGrows
<1>14. \A d \in Packages : DependsOn[d] \subseteq Packages
  BY DependenciesArePackages
<1> HIDE DEF job, p, v, t
<1>15. staged' \in [Packages -> [Versions -> SUBSET (Digests \cup {None})]]
  <2>1. [staged[p] EXCEPT ![v] = staged[p][v] \cup {t}] \in [Versions -> SUBSET (Digests \cup {None})]
    BY <1>3, <1>4, <1>6
  <2> QED BY <1>3, <1>5, <1>6, <2>1
<1>16. \A q \in Packages, w \in Versions :
         staged'[q][w] = IF q = p /\ w = v THEN staged[q][w] \cup {t} ELSE staged[q][w]
  BY <1>3, <1>5, <1>6
<1>17. \A q \in Packages, w \in Versions : staged[q][w] \subseteq staged'[q][w]
  BY <1>16
<1>18. ASSUME NEW q \in Packages, NEW w \in Versions, NEW x \in staged'[q][w]
       PROVE  Canonical(x, q, w)' /\ \A d \in DependsOn[q] : staged'[d][w] # {}
  <2>1. CASE x \in staged[q][w]
    <3>1. Canonical(x, q, w) /\ \A d \in DependsOn[q] : staged[d][w] # {}
      BY <1>11, <2>1 DEF StagedIsCanonical
    <3> QED BY <1>13, <1>14, <1>17, <3>1
  <2>2. CASE x \notin staged[q][w]
    <3>1. q = p /\ w = v /\ x = t
      BY <1>16, <1>18, <2>2
    <3>2. Canonical(x, q, w)
      BY <1>9, <3>1
    <3>3. \A d \in DependsOn[q] : d \in Packages /\ staged[d][w] # {}
      BY <1>3, <1>8, <1>14, <3>1
    <3> QED BY <1>13, <1>17, <3>2, <3>3
  <2> QED BY <2>1, <2>2
<1>19. \A c \in evidence, q \in Packages :
         Tarball(q, c) \in staged'[q][VersionOf(c)]
  <2>1. evidence \subseteq Commits
    BY DEF IInv, TypeOK
  <2>2. \A c \in evidence, q \in Packages : Tarball(q, c) \in staged[q][VersionOf(c)]
    BY <1>11 DEF StagedIsCanonical
  <2> QED BY <1>17, <2>1, <2>2, VersionFacts
<1>20. StagedIsCanonical'
  BY <1>10, <1>11, <1>12, <1>18, <1>19 DEF StagedIsCanonical, RepoGrows
<1>21. t \in staged'[p][v]
  BY <1>3, <1>16
<1> QED BY <1>3, <1>15, <1>17, <1>20, <1>21 DEF job, p, v, t

LEMMA StageNextKeepsIInv == ASSUME IInv, NEW j \in Jobs, StageNext(j) PROVE IInv'
<1>1. /\ jobs[j] \in Job /\ Knows(jobs[j]) /\ jobs[j].phase = "staging" /\ jobs[j].sha \in Commits
      /\ jobs[j].next <= Len(Roster) /\ jobs \in [Jobs -> Job]
      /\ UNCHANGED <<scene, repo, live, tags, shown, outputs>>
  BY DEF IInv, TypeOK, StageNext, Free, Spend, Knows, Underway
<1>2. CASE Fail(j) /\ UNCHANGED staged
  BY <1>1, <1>2, FailKeepsIInv DEF registry
<1>3. CASE /\ Staged(j, jobs[j].artifact.order[jobs[j].next])
           /\ Fail(j) \/ Become(j, [jobs[j] EXCEPT !.next = @ + 1])
  <2>1. /\ staged' \in [Packages -> [Versions -> SUBSET (Digests \cup {None})]]
        /\ \A q \in Packages, w \in Versions : staged[q][w] \subseteq staged'[q][w]
        /\ StagedIsCanonical'
        /\ \E p \in Packages :
              /\ p = PublishOrder[jobs[j].next]
              /\ Tarball(p, jobs[j].sha) \in staged'[p][VersionOf(jobs[j].sha)]
    BY <1>1, <1>3, StagedMore
  <2>2. PICK s \in Job : s = jobs[j]
    BY <1>1
  <2> DEFINE failed == [s EXCEPT !.phase = "failed"]
             further == [s EXCEPT !.next = @ + 1]
  <2>3. RepoGrows
    BY <1>1, RepoStays
  <2>4. ASSUME NEW x \in Job, Knows(x) PROVE Knows(x)'
    <3>1. x.phase # "idle" => x.sha \in Commits
      BY <2>4 DEF Knows, Underway
    <3> QED BY <1>1, <2>1, <2>3, <2>4, <3>1, KnowsGrows DEF IInv
  <2>5. s.mode = "stage" /\ s.next \in Nat \ {0} /\ s.phase = "staging" /\ Knows(s)
    BY <1>1, <2>2 DEF Knows, Staging, Job
  <2>6. /\ further \in Job /\ further.mode = "stage" /\ further.phase = "staging"
        /\ further.sha = s.sha /\ further.artifact = s.artifact /\ further.next = s.next + 1
    BY <2>2, <2>5 DEF Job
  <2>7. failed \in Job /\ Knows(failed)
    BY <2>2, <2>5, FailedKnows
  <2>8. jobs' = [jobs EXCEPT ![j] = failed] \/ jobs' = [jobs EXCEPT ![j] = further]
    BY <1>3, <2>2 DEF Fail, Enter, Become
  <2> HIDE DEF failed, further
  <2>9. Knows(further)'
    <3>1. Knows(s)'
      BY <2>2, <2>4, <2>5
    <3>2. Underway(further)'
      BY <2>5, <2>6, <3>1 DEF Knows, Underway
    <3>3. Comparing(further)' /\ Undisturbed(further)'
      BY <2>6 DEF Comparing, Undisturbed
    <3>4. Staging(further)'
      <4>1. \A i \in DOMAIN Roster : i < further.next => i < s.next \/ i = s.next
        BY <2>5, <2>6, RosterFacts
      <4>2. \A i \in DOMAIN Roster : i < further.next =>
              \E p \in Packages :
                p = PublishOrder[i] /\ Tarball(p, s.sha) \in staged'[p][VersionOf(s.sha)]
        BY <2>1, <2>2, <2>5, <3>1, <4>1 DEF Knows, Staging
      <4>3. further.next \in Nat \ {0}
        BY <2>5, <2>6
      <4> QED BY <2>5, <2>6, <3>1, <4>2, <4>3 DEF Knows, Staging
    <3> QED BY <3>2, <3>3, <3>4 DEF Knows
  <2>10. ASSUME NEW k \in Jobs PROVE Knows(jobs[k])'
    <3>1. PICK x \in Job : x = jobs'[k] /\ (Knows(x) \/ x = further)
      BY <1>1, <2>6, <2>7, <2>8 DEF IInv
    <3> QED BY <2>4, <2>9, <3>1
  <2>11. TypeOK'
    <3>1. jobs' \in [Jobs -> Job]
      BY <1>1, <2>6, <2>7, <2>8
    <3> QED BY <1>1, <2>1, <3>1 DEF IInv, TypeOK, repo, outputs
  <2> QED BY <2>1, <2>10, <2>11 DEF IInv
<1> QED BY <1>2, <1>3 DEF StageNext

\* The evidence is left once every package has been staged.
LEMMA EvidenceKeepsIInv == ASSUME IInv, NEW j \in Jobs, Evidence(j) PROVE IInv'
<1>1. /\ jobs[j] \in Job /\ Knows(jobs[j]) /\ jobs[j].phase = "staging" /\ jobs[j].sha \in Commits
      /\ jobs[j].next > Len(Roster) /\ jobs \in [Jobs -> Job]
      /\ evidence' = evidence \cup {jobs[j].sha} /\ UNCHANGED <<scene, repo, registry, plan>>
  BY DEF IInv, TypeOK, Evidence, Free, Knows, Underway
<1> DEFINE q == [jobs[j] EXCEPT !.phase = "done"]
<1>2. jobs' = [jobs EXCEPT ![j] = q]
  BY DEF Evidence, Enter, Become
<1>3. /\ jobs[j].mode = "stage" /\ jobs[j].next \in Nat
      /\ \A i \in DOMAIN Roster : i < jobs[j].next =>
            \E p \in Packages :
              p = PublishOrder[i] /\ Tarball(p, jobs[j].sha) \in staged[p][VersionOf(jobs[j].sha)]
  BY <1>1 DEF Knows, Staging, Job
<1>4. \A i \in DOMAIN Roster : i < jobs[j].next
  BY <1>1, <1>3, RosterFacts
<1>5. \A p \in Packages : Tarball(p, jobs[j].sha) \in staged[p][VersionOf(jobs[j].sha)]
  <2> SUFFICES ASSUME NEW p \in Packages
               PROVE  Tarball(p, jobs[j].sha) \in staged[p][VersionOf(jobs[j].sha)]
    OBVIOUS
  <2>1. PICK i \in DOMAIN Roster : PublishOrder[i] = p
    BY RosterFacts
  <2> QED BY <1>3, <1>4, <2>1
<1>6. q \in Job /\ q.phase = "done" /\ q.mode = "stage" /\ q.sha = jobs[j].sha
  BY <1>1, <1>3 DEF Job, Phases, Over
<1> HIDE DEF q
<1>7. Knows(q)
  BY <1>1, <1>6 DEF Knows, Underway, Staging, Comparing, Undisturbed
<1>8. RepoGrows
  BY <1>1, RepoStays
<1>9. \A x \in Job : Knows(x) => Knows(x)'
  <2> SUFFICES ASSUME NEW x \in Job, Knows(x) PROVE Knows(x)'
    OBVIOUS
  <2>1. x.phase # "idle" => x.sha \in Commits
    BY DEF Knows, Underway
  <2> QED BY <1>1, <1>8, <2>1, KnowsGrows DEF IInv, registry
<1>10. ASSUME NEW k \in Jobs PROVE jobs'[k] \in Job /\ Knows(jobs[k])'
  BY <1>1, <1>2, <1>6, <1>7, <1>9 DEF IInv, TypeOK
<1>11. TypeOK'
  <2>1. jobs' \in [Jobs -> Job]
    BY <1>1, <1>2, <1>6
  <2> QED BY <1>1, <2>1 DEF IInv, TypeOK, repo, registry
<1>12. StagedIsCanonical'
  <2>1. \A t, p, v : Canonical(t, p, v) => Canonical(t, p, v)'
    BY <1>8 DEF Canonical, RepoGrows
  <2> QED BY <1>1, <1>5, <1>8, <2>1 DEF IInv, StagedIsCanonical, RepoGrows, registry
<1> QED BY <1>10, <1>11, <1>12 DEF IInv

-----------------------------------------------------------------------------
(* Reading the registry.                                                     *)

\* When everything is in place, every true answer is the good one.
LEMMA InPlaceAnswers ==
  ASSUME NEW c \in Commits, InPlace(c), NEW p \in Packages
  PROVE  /\ \A source \in {"exact", "tags", "root"} : TrueAnswer(source, p, VersionOf(c)) = "ok"
         /\ shown[p].tags[DistTag(VersionOf(c))] = VersionOf(c)
         /\ live[p][VersionOf(c)] = Tarball(p, c)
<1>1. /\ live[p][VersionOf(c)] = Tarball(p, c) /\ tags[p][DistTag(VersionOf(c))] = VersionOf(c)
      /\ shown[p] = TruthOf(p)
  BY DEF InPlace
<1>2. VersionOf(c) \in Versions /\ Tarball(p, c) # None
  BY VersionFacts, TarballFacts
<1>3. VersionOf(c) \in shown[p].exact /\ shown[p].root /\ shown[p].tags = tags[p]
  BY <1>1, <1>2 DEF TruthOf
<1>4. \A source \in {"exact", "tags", "root"} : TrueAnswer(source, p, VersionOf(c)) = "ok"
  BY <1>3 DEF TrueAnswer
<1> QED BY <1>1, <1>3, <1>4

LEMMA AskKeepsIInv == ASSUME IInv, NEW j \in Jobs, Ask(j) PROVE IInv'
<1> DEFINE job == jobs[j]
           p == Roster[job.next]
           source == Sources[job.source]
<1>1. /\ job \in Job /\ Knows(job) /\ job.phase = "reading" /\ job.sha \in Commits
      /\ job.next \in Nat \ {0} /\ job.source \in Nat \ {0}
      /\ job.next <= Len(Roster) /\ job.source <= Len(Sources)
      /\ UNCHANGED <<scene, repo, registry, outputs>>
  BY DEF IInv, TypeOK, Job, Ask, Free, Spend, Knows, Underway
<1>2. PICK answer \in Answers :
        /\ Answered(j, p, source, answer)
        /\ answer \notin Transient => answer = TrueAnswer(source, p, Asked(job))
  <2>1. TrueAnswer(source, p, Asked(job)) \in Answers
    BY DEF TrueAnswer, Answers
  <2> QED BY <2>1 DEF Ask, Answers
<1>3. p \in Packages
  <2>1. job.next \in 1..Len(Roster)
    BY <1>1, RosterFacts
  <2> QED BY <2>1, RosterFacts
<1>4. /\ job.source \in 1..3 /\ source \in {"exact", "tags", "root"}
      /\ source = "tags" <=> job.source = 2
  BY <1>1 DEF Sources
<1> DEFINE last == answer = "ok" \/ job.attempt = Retries
           named == IF source = "tags" /\ answer = "ok"
                    THEN shown[p].tags[DistTag(Asked(job))] ELSE job.named
           attempt == IF last THEN 1 ELSE job.attempt + 1
           next == IF last THEN job.source + 1 ELSE job.source
           quiet == job.quiet /\ answer \notin Transient
           answers == [job.answers EXCEPT ![source] = answer]
           q == [job EXCEPT !.answers = answers, !.named = named, !.attempt = attempt,
                            !.source = next, !.quiet = quiet]
<1>5. jobs' = [jobs EXCEPT ![j] = q]
  BY <1>2 DEF Answered, Become
<1>6. named \in Versions \cup {None}
  <2>1. shown[p].tags \in [{"next", "latest"} -> Versions \cup {None}]
    BY <1>3 DEF IInv, TypeOK, Tags
  <2>2. DistTag(Asked(job)) \in {"next", "latest"}
    BY DEF DistTag
  <2>3. job.named \in Versions \cup {None}
    BY <1>1 DEF Job
  <2> QED BY <2>1, <2>2, <2>3
<1>7. attempt \in Nat /\ next \in Nat \ {0} /\ quiet \in BOOLEAN
  BY <1>1 DEF Job
<1>8. /\ answers \in [{"exact", "tags", "root"} -> Answers \cup {None}]
      /\ answers[source] = answer
      /\ \A x \in {"exact", "tags", "root"} : x # source => answers[x] = job.answers[x]
  BY <1>1, <1>2, <1>4 DEF Job
<1>9. job.quiet /\ job.mode = "verify" /\ quiet =>
        /\ InPlace(job.sha) /\ job.states \subseteq {"PUBLISHED_VERIFIED"}
        /\ answer = "ok" /\ next = job.source + 1
        /\ job.source = 2 => named = VersionOf(job.sha)
        /\ job.source # 2 => named = job.named
        /\ \A i \in DOMAIN Sources : i < job.source =>
              job.answers[Sources[i]] = "ok" /\ (i = 2 => job.named = VersionOf(job.sha))
  <2> SUFFICES ASSUME job.quiet, job.mode = "verify", quiet
               PROVE  /\ InPlace(job.sha) /\ job.states \subseteq {"PUBLISHED_VERIFIED"}
                      /\ answer = "ok" /\ next = job.source + 1
                      /\ job.source = 2 => named = VersionOf(job.sha)
                      /\ job.source # 2 => named = job.named
                      /\ \A i \in DOMAIN Sources : i < job.source =>
                            /\ job.answers[Sources[i]] = "ok"
                            /\ i = 2 => job.named = VersionOf(job.sha)
    OBVIOUS
  <2>1. /\ InPlace(job.sha) /\ job.states \subseteq {"PUBLISHED_VERIFIED"}
        /\ \A i \in DOMAIN Sources : i < job.source =>
              job.answers[Sources[i]] = "ok" /\ (i = 2 => job.named = VersionOf(job.sha))
    BY <1>1 DEF Knows, Undisturbed
  <2>2. Asked(job) = VersionOf(job.sha)
    BY DEF Asked
  <2>3. answer = "ok"
    BY <1>1, <1>2, <1>3, <1>4, <2>1, <2>2, InPlaceAnswers
  <2>4. shown[p].tags[DistTag(Asked(job))] = VersionOf(job.sha)
    BY <1>1, <1>3, <2>1, <2>2, InPlaceAnswers
  <2> QED BY <1>4, <2>1, <2>3, <2>4
<1> HIDE DEF last, named, attempt, next, quiet, answers
<1>10. /\ q \in Job /\ q.phase = "reading" /\ q.sha = job.sha /\ q.mode = job.mode
       /\ q.next = job.next /\ q.artifact = job.artifact /\ q.states = job.states
       /\ q.answers = answers /\ q.named = named /\ q.source = next /\ q.quiet = quiet
  BY <1>1, <1>6, <1>7, <1>8 DEF Job
<1> HIDE DEF q
<1>11. quiet => job.quiet
  BY DEF quiet
<1>12. Underway(q) /\ Staging(q) /\ Comparing(q)
  BY <1>1, <1>10 DEF Knows, Underway, Staging, Comparing
<1>13. Undisturbed(q)
  <2>1. CASE q.quiet /\ q.mode = "verify"
    <3>1. \A i \in DOMAIN Sources : i < next =>
            /\ answers[Sources[i]] = "ok"
            /\ i = 2 => named = VersionOf(job.sha)
      <4>1. DOMAIN Sources = 1..3 /\ \A i \in 1..3 : Sources[i] \in {"exact", "tags", "root"}
        BY DEF Sources
      <4>2. \A i \in 1..3 : i < job.source + 1 => i < job.source \/ i = job.source
        BY <1>4
      <4> QED BY <1>4, <1>8, <1>9, <1>10, <1>11, <2>1, <4>1, <4>2
    <3> QED BY <1>9, <1>10, <1>11, <2>1, <3>1 DEF Undisturbed
  <2> QED BY <2>1 DEF Undisturbed
<1> QED BY <1>1, <1>5, <1>10, <1>12, <1>13, JobStep DEF Knows

\* What is said of a package is one of the states, and the good one is only
\* said of bytes that are the same.
LEMMA ClassifyFacts ==
  ASSUME NEW answers \in [{"exact", "tags", "root"} -> Answers \cup {None}],
         NEW named \in BOOLEAN, NEW same \in {"yes", "no", "unknown"}
  PROVE  /\ Classify(answers, named, same) \in States
         /\ Classify(answers, named, same) = "PUBLISHED_VERIFIED" => same = "yes"
         /\ /\ \A source \in {"exact", "tags", "root"} : answers[source] = "ok"
            /\ named /\ same = "yes"
            => Classify(answers, named, same) = "PUBLISHED_VERIFIED"
<1>1. Settled(same) = IF same = "no" THEN "INCONSISTENT"
                      ELSE IF same = "yes" THEN "PUBLISHED_VERIFIED" ELSE "UNKNOWN"
  BY DEF Settled
<1> QED BY <1>1 DEF Classify, Transient, States

\* One more package has been compared.
LEMMA ReportedKeepsIInv ==
  ASSUME IInv, NEW j \in Jobs, NEW same \in {"yes", "no", "unknown"}, NEW quiet \in BOOLEAN,
         Reported(j, same, quiet), jobs[j].phase = "reading", jobs[j].next <= Len(Roster),
         jobs[j].source > Len(Sources), UNCHANGED <<scene, repo, registry, outputs>>,
         same = "yes" => same = Same(jobs[j], Roster[jobs[j].next]),
         quiet => jobs[j].quiet /\ same = Same(jobs[j], Roster[jobs[j].next])
  PROVE  IInv'
<1>1. PICK s \in Job : s = jobs[j]
  BY DEF IInv, TypeOK
<1>2. /\ Knows(s) /\ s.phase = "reading" /\ s.next <= Len(Roster) /\ s.source > Len(Sources)
      /\ s.sha \in Commits /\ s.next \in Nat \ {0} /\ s.mode # "stage"
  BY <1>1 DEF IInv, Knows, Underway, Job
<1>3. s.next \in DOMAIN Roster /\ Roster[s.next] \in Packages
  <2>1. s.next \in 1..Len(Roster)
    BY <1>2, RosterFacts
  <2>2. s.next \in DOMAIN Roster
    BY <2>1, RosterFacts
  <2> QED BY <2>2, RosterFacts
<1> DEFINE p == Roster[s.next]
           v == VersionOf(s.sha)
           named == s.named = Asked(s)
           state == Classify(s.answers, named, same)
           q == [s EXCEPT !.states = @ \cup {state}, !.answers = NoAnswers, !.named = None,
                          !.source = 1, !.next = @ + 1, !.quiet = quiet]
<1>4. jobs' = [jobs EXCEPT ![j] = q]
  BY <1>1 DEF Reported, Become
<1>5. /\ state \in States
      /\ state = "PUBLISHED_VERIFIED" => same = "yes"
      /\ /\ \A source \in {"exact", "tags", "root"} : s.answers[source] = "ok"
         /\ named /\ same = "yes"
         => state = "PUBLISHED_VERIFIED"
  <2>1. s.answers \in [{"exact", "tags", "root"} -> Answers \cup {None}]
    BY DEF Job
  <2>2. named \in BOOLEAN
    OBVIOUS
  <2> HIDE DEF named
  <2> QED BY <2>1, <2>2, ClassifyFacts
<1> HIDE DEF state, named
<1>6. /\ q \in Job /\ q.phase = "reading" /\ q.sha = s.sha /\ q.mode = s.mode
      /\ q.artifact = s.artifact /\ q.next = s.next + 1 /\ q.source = 1 /\ q.quiet = quiet
      /\ q.states = s.states \cup {state}
  <2>1. NoAnswers \in [{"exact", "tags", "root"} -> Answers \cup {None}]
    BY DEF NoAnswers
  <2>2. s.next + 1 \in Nat \ {0} /\ 1 \in Nat \ {0}
    BY <1>2
  <2>3. s.states \cup {state} \in SUBSET States
    BY <1>1, <1>5 DEF Job
  <2> QED BY <1>1, <2>1, <2>2, <2>3 DEF Job
<1> HIDE DEF q
<1>7. Underway(q) /\ Staging(q)
  BY <1>2, <1>6 DEF Knows, Underway, Staging
<1>8. s.mode = "verify" /\ Same(s, p) = "yes" => live[p][v] = Tarball(p, s.sha)
  <2> SUFFICES ASSUME s.mode = "verify", Same(s, p) = "yes" PROVE live[p][v] = Tarball(p, s.sha)
    OBVIOUS
  <2>1. live[p][v] = s.artifact.packages[p].sha256
    BY DEF Same, Asked
  <2>2. s.artifact.packages = Records(s.sha, s.sha)
    BY <1>2 DEF Knows, Comparing
  <2> QED BY <1>3, <2>1, <2>2 DEF Records
<1>9. \A i \in DOMAIN Roster : i < q.next => i < s.next \/ i = s.next
  BY <1>2, <1>6, RosterFacts
<1>10. Comparing(q)
  <2>1. CASE q.mode = "verify" /\ q.states \subseteq {"PUBLISHED_VERIFIED"}
    <3>1. same = "yes" /\ s.states \subseteq {"PUBLISHED_VERIFIED"}
      BY <1>5, <1>6, <2>1
    <3>2. live[p][v] = Tarball(p, s.sha)
      BY <1>1, <1>6, <1>8, <2>1, <3>1
    <3>3. \A i \in DOMAIN Roster : i < s.next =>
            live[Roster[i]][v] = Tarball(Roster[i], s.sha)
      BY <1>2, <1>6, <2>1, <3>1 DEF Knows, Comparing
    <3> QED BY <1>2, <1>6, <1>9, <3>2, <3>3 DEF Knows, Comparing
  <2>2. CASE ~(q.mode = "verify" /\ q.states \subseteq {"PUBLISHED_VERIFIED"})
    BY <1>2, <1>6, <2>2 DEF Knows, Comparing
  <2> QED BY <2>1, <2>2
<1>11. Undisturbed(q)
  <2>1. CASE q.mode = "verify" /\ quiet
    <3>1. s.quiet /\ same = Same(s, p) /\ s.mode = "verify"
      BY <1>1, <1>6, <2>1
    <3>2. /\ InPlace(s.sha) /\ s.states \subseteq {"PUBLISHED_VERIFIED"}
          /\ \A i \in DOMAIN Sources : i < s.source =>
                s.answers[Sources[i]] = "ok" /\ (i = 2 => s.named = v)
      BY <1>2, <3>1 DEF Knows, Undisturbed
    <3>3. /\ \A source \in {"exact", "tags", "root"} : s.answers[source] = "ok"
          /\ s.named = v
      <4>1. s.source \in Nat
        BY DEF Job
      <4>2. \A i \in 1..3 : i < s.source
        BY <1>2, <4>1 DEF Sources
      <4>3. Sources[1] = "exact" /\ Sources[2] = "tags" /\ Sources[3] = "root"
            /\ DOMAIN Sources = 1..3
        BY DEF Sources
      <4> QED BY <3>2, <4>2, <4>3
    <3>4. named
      BY <3>1, <3>3 DEF named, Asked
    <3>5. live[p][v] = Tarball(p, s.sha)
      BY <1>2, <1>3, <3>2, InPlaceAnswers
    <3>6. s.artifact.packages[p].sha256 = Tarball(p, s.sha)
      BY <1>2, <1>3, <3>1 DEF Knows, Comparing, Records
    <3>7. same = "yes"
      BY <3>1, <3>3, <3>5, <3>6 DEF Same, Asked
    <3>8. state = "PUBLISHED_VERIFIED"
      BY <1>5, <3>3, <3>4, <3>7
    <3>9. \A i \in DOMAIN Sources : ~(i < 1)
      BY DEF Sources
    <3> QED BY <1>6, <3>2, <3>8, <3>9 DEF Undisturbed
  <2> QED BY <1>6, <2>1 DEF Undisturbed
<1> QED BY <1>4, <1>6, <1>7, <1>10, <1>11, JobStep DEF Knows

LEMMA CompareKeepsIInv == ASSUME IInv, NEW j \in Jobs, Compare(j) PROVE IInv'
<1>1. /\ jobs[j].phase = "reading" /\ jobs[j].next <= Len(Roster)
      /\ jobs[j].source > Len(Sources) /\ UNCHANGED <<scene, repo, registry, outputs>>
  BY DEF Compare, Free, Spend
<1>2. jobs[j].quiet \in BOOLEAN /\ Same(jobs[j], Roster[jobs[j].next]) \in {"yes", "no", "unknown"}
  BY DEF IInv, TypeOK, Job, Same
<1>3. CASE Reported(j, Same(jobs[j], Roster[jobs[j].next]), jobs[j].quiet)
  BY <1>1, <1>2, <1>3, ReportedKeepsIInv
<1>4. CASE Reported(j, "unknown", FALSE)
  BY <1>1, <1>4, ReportedKeepsIInv
<1> QED BY <1>3, <1>4 DEF Compare

\* A job ends, and leaves a plan perhaps.
LEMMA PlanKeepsIInv ==
  ASSUME IInv, NEW j \in Jobs, NEW q \in Job, Knows(q), jobs' = [jobs EXCEPT ![j] = q],
         plan' = plan \/ (plan' \in Plans /\ Bootstrap \in Versions),
         plan' = plan \/ (plan'.canonical => /\ plan'.tarballs = Tarballs(plan'.head)
                                             /\ plan'.head \in Merged \cap FullyChecked),
         UNCHANGED <<scene, repo, registry, evidence>>
  PROVE  IInv'
<1>1. RepoGrows
  BY RepoStays
<1>2. \A x \in Job : Knows(x) => Knows(x)'
  <2> SUFFICES ASSUME NEW x \in Job, Knows(x) PROVE Knows(x)'
    OBVIOUS
  <2>1. x.phase # "idle" => x.sha \in Commits
    BY DEF Knows, Underway
  <2> QED BY <1>1, <2>1, KnowsGrows DEF IInv, registry
<1>3. ASSUME NEW k \in Jobs PROVE Knows(jobs[k])'
  <2>1. jobs'[k] \in Job /\ Knows(jobs'[k])
    BY DEF IInv, TypeOK
  <2> QED BY <1>2, <2>1
<1>4. TypeOK'
  <2>1. jobs' \in [Jobs -> Job]
    BY DEF IInv, TypeOK
  <2> QED BY <2>1 DEF IInv, TypeOK, repo, registry
<1>5. StagedIsCanonical'
  <2>1. \A t, p, v : Canonical(t, p, v) => Canonical(t, p, v)'
    BY <1>1 DEF Canonical, RepoGrows
  <2>2. staged' = staged /\ evidence' = evidence
    BY DEF registry
  <2>3. plan' # None /\ plan'.canonical =>
          /\ plan'.tarballs = Tarballs(plan'.head)
          /\ plan'.head \in Merged' \cap FullyChecked'
    BY <1>1 DEF IInv, StagedIsCanonical, RepoGrows
  <2> QED BY <2>1, <2>2, <2>3 DEF IInv, StagedIsCanonical
<1> QED BY <1>3, <1>4, <1>5 DEF IInv

\* Only a readiness check of what is on main and fully checked leaves a
\* canonical plan.
LEMMA ConcludeKeepsIInv == ASSUME IInv, NEW j \in Jobs, Conclude(j) PROVE IInv'
<1>1. PICK s \in Job : s = jobs[j]
  BY DEF IInv, TypeOK
<1>2. /\ Knows(s) /\ s.phase = "reading" /\ s.next > Len(Roster) /\ s.next \in Nat
      /\ s.sha \in Commits /\ s.mode # "stage" /\ s.artifact \in Artifacts
      /\ UNCHANGED <<scene, repo, registry, evidence>>
  BY <1>1 DEF IInv, Knows, Underway, Conclude, Free, Job
<1>3. CASE Fail(j) /\ UNCHANGED plan
  BY <1>1, <1>2, <1>3, FailKeepsIInv DEF outputs
<1>4. CASE /\ Report(j, Overall(s.states))
           /\ IF s.mode = "verify" THEN UNCHANGED plan
              ELSE plan' = [canonical |-> s.mode = "publish-ready",
                            head |-> s.sha, tarballs |-> s.artifact.tarballs]
  <2> DEFINE q == [s EXCEPT !.phase = "done", !.overall = Overall(s.states)]
  <2>1. jobs' = [jobs EXCEPT ![j] = q]
    BY <1>1, <1>4 DEF Report, Become
  <2>2. Overall(s.states) \in States
    BY DEF Overall, States
  <2>3. /\ q \in Job /\ q.phase = "done" /\ q.overall = Overall(s.states) /\ q.sha = s.sha
        /\ q.mode = s.mode /\ q.next = s.next /\ q.states = s.states /\ q.quiet = s.quiet
    BY <2>2 DEF Job, Phases, Over
  <2> HIDE DEF q
  <2>4. Underway(q) /\ Staging(q)
    BY <1>2, <2>3 DEF Underway, Staging
  <2>5. Comparing(q) /\ Undisturbed(q)
    BY <1>2, <2>3 DEF Knows, Comparing, Undisturbed
  <2>6. CASE s.mode = "verify"
    BY <1>2, <1>4, <2>1, <2>3, <2>4, <2>5, <2>6, PlanKeepsIInv DEF Knows
  <2>7. CASE s.mode # "verify"
    <3> DEFINE new == [canonical |-> s.mode = "publish-ready", head |-> s.sha,
                       tarballs |-> s.artifact.tarballs]
    <3>1. new \in Plans
      BY <1>2 DEF Plans, Artifacts
    <3>2. Bootstrap \in Versions
      <4>1. s.artifact.packages \in [Packages -> Record]
        BY <1>2 DEF Artifacts
      <4>2. s.artifact.packages[Roster[1]].version = Bootstrap
        BY <1>2, <2>7, RosterFacts DEF Knows, Underway, AtBootstrap
      <4> QED BY <4>1, <4>2, RosterFacts DEF Record
    <3>3. new.canonical => /\ new.tarballs = Tarballs(new.head)
                           /\ new.head \in Merged \cap FullyChecked
      BY <1>2 DEF Knows, Underway
    <3>4. plan' = new
      BY <1>4, <2>7
    <3> HIDE DEF new
    <3> QED BY <1>2, <2>1, <2>3, <2>4, <2>5, <3>1, <3>2, <3>3, <3>4, PlanKeepsIInv DEF Knows
  <2> QED BY <2>6, <2>7
<1> QED BY <1>1, <1>2, <1>3, <1>4 DEF Conclude

-----------------------------------------------------------------------------
(* npm and the maintainers.                                                  *)

\* More is published, tags move: no verification is undisturbed any more.
LEMMA DisturbedKeepsIInv ==
  ASSUME IInv, Disturbed, UNCHANGED <<scene, repo, staged, shown, outputs>>,
         live' \in [Packages -> [Versions -> Digests \cup {None}]],
         tags' \in [Packages -> Tags],
         \A p \in Packages, v \in Versions : live[p][v] # None => live'[p][v] = live[p][v]
  PROVE  IInv'
<1>1. RepoGrows
  BY RepoStays
<1>2. ASSUME NEW k \in Jobs PROVE jobs'[k] \in Job /\ Knows(jobs[k])'
  <2>1. PICK s \in Job : s = jobs[k] /\ Knows(s)
    BY DEF IInv, TypeOK
  <2> DEFINE q == [s EXCEPT !.quiet = FALSE]
  <2>2. jobs'[k] = q
    BY <2>1 DEF Disturbed
  <2>3. /\ q \in Job /\ ~q.quiet /\ q.phase = s.phase /\ q.sha = s.sha /\ q.mode = s.mode
        /\ q.next = s.next /\ q.artifact = s.artifact /\ q.states = s.states
        /\ q.overall = s.overall
    BY DEF Job
  <2> HIDE DEF q
  <2>4. Underway(q)
    BY <2>1, <2>3 DEF Knows, Underway
  <2>5. Staging(q)
    BY <2>1, <2>3 DEF Knows, Staging
  <2>6. Comparing(q)
    BY <2>1, <2>3 DEF Knows, Comparing
  <2>7. Undisturbed(q)
    BY <2>3 DEF Undisturbed
  <2>8. q.phase # "idle" => q.sha \in Commits
    BY <2>4 DEF Underway
  <2>9. \A p \in Packages, v \in Versions : staged[p][v] \subseteq staged'[p][v]
    OBVIOUS
  <2>10. Knows(q)
    BY <2>4, <2>5, <2>6, <2>7 DEF Knows
  <2>11. TypeOK
    BY DEF IInv
  <2>12. Knows(q)'
    BY <1>1, <2>3, <2>8, <2>9, <2>10, <2>11, KnowsGrows
  <2> QED BY <2>2, <2>3, <2>12
<1>3. TypeOK'
  <2>1. jobs' \in [Jobs -> Job]
    BY <1>2 DEF Disturbed
  <2> QED BY <2>1 DEF IInv, TypeOK, repo, outputs
<1>4. StagedIsCanonical'
  BY <1>1, CanonicalStays DEF IInv
<1> QED BY <1>2, <1>3, <1>4 DEF IInv

LEMMA PublishedKeepsIInv ==
  ASSUME IInv, NEW p \in Packages, NEW version \in Versions, NEW tarball \in Digests \cup {None},
         live[p][version] = None, Published(p, version, tarball), UNCHANGED scene
  PROVE  IInv'
<1>1. /\ live \in [Packages -> [Versions -> Digests \cup {None}]] /\ tags \in [Packages -> Tags]
  BY DEF IInv, TypeOK
<1>2. /\ live' = [live EXCEPT ![p] = [live[p] EXCEPT ![version] = tarball]]
      /\ Disturbed /\ UNCHANGED <<repo, staged, shown, outputs>>
  BY DEF Published
<1>3. live' \in [Packages -> [Versions -> Digests \cup {None}]]
  <2>1. [live[p] EXCEPT ![version] = tarball] \in [Versions -> Digests \cup {None}]
    BY <1>1
  <2> QED BY <1>1, <1>2, <2>1
<1>4. \A x \in Packages, v \in Versions : live[x][v] # None => live'[x][v] = live[x][v]
  BY <1>1, <1>2
<1>5. tags' \in [Packages -> Tags]
  <2> DEFINE new == [t \in {"next", "latest"} |->
                       IF t = DistTag(version) \/ \A v \in Versions : live[p][v] = None
                       THEN version ELSE tags[p][t]]
  <2>1. tags' = [tags EXCEPT ![p] = new]
    BY DEF Published
  <2>2. new \in Tags
    BY <1>1 DEF Tags
  <2> HIDE DEF new
  <2> QED BY <1>1, <2>1, <2>2
<1> QED BY <1>2, <1>3, <1>4, <1>5, DisturbedKeepsIInv

LEMMA ApproveKeepsIInv ==
  ASSUME IInv, NEW p \in Packages, NEW version \in Versions,
         NEW tarball \in staged[p][version], Approve(p, version, tarball)
  PROVE  IInv'
<1>1. tarball \in Digests \cup {None}
  BY DEF IInv, TypeOK
<1> QED BY <1>1, PublishedKeepsIInv DEF Approve, Spend

LEMMA PublishByHandKeepsIInv == ASSUME IInv, NEW p \in Packages, PublishByHand(p) PROVE IInv'
<1>1. plan \in Plans /\ Bootstrap \in Versions
  BY DEF IInv, TypeOK, PublishByHand
<1>2. plan.tarballs[p] \in Digests \cup {None}
  BY <1>1 DEF Plans
<1> QED BY <1>1, <1>2, PublishedKeepsIInv DEF PublishByHand, Spend

LEMMA MoveTagKeepsIInv ==
  ASSUME IInv, NEW p \in Packages, NEW tag \in {"next", "latest"}, NEW version \in Versions,
         MoveTag(p, tag, version)
  PROVE  IInv'
<1>1. /\ live \in [Packages -> [Versions -> Digests \cup {None}]] /\ tags \in [Packages -> Tags]
  BY DEF IInv, TypeOK
<1>2. /\ tags' = [tags EXCEPT ![p] = [tags[p] EXCEPT ![tag] = version]]
      /\ Disturbed /\ UNCHANGED <<scene, repo, staged, live, shown, outputs>>
  BY DEF MoveTag, Spend
<1>3. tags' \in [Packages -> Tags]
  <2>1. [tags[p] EXCEPT ![tag] = version] \in Tags
    BY <1>1 DEF Tags
  <2> QED BY <1>1, <1>2, <2>1
<1> QED BY <1>1, <1>2, <1>3, DisturbedKeepsIInv

\* The answers catch up: not while everything is in place already.
LEMMA CatchUpKeepsIInv == ASSUME IInv, NEW p \in Packages, CatchUp(p) PROVE IInv'
<1>1. PICK view \in {[shown[p] EXCEPT !.exact = TruthOf(p).exact],
                     [shown[p] EXCEPT !.root = TruthOf(p).root],
                     [shown[p] EXCEPT !.tags = TruthOf(p).tags]} :
        view # shown[p] /\ shown' = [shown EXCEPT ![p] = view]
  BY DEF CatchUp
<1>2. UNCHANGED <<scene, repo, jobs, staged, live, tags, outputs>>
  BY DEF CatchUp, Free
<1> DEFINE Views == [exact : SUBSET Versions, root : BOOLEAN, tags : Tags]
<1>3. shown \in [Packages -> Views] /\ tags \in [Packages -> Tags]
  BY DEF IInv, TypeOK
<1>4. TruthOf(p) \in Views
  <2>1. {v \in Versions : live[p][v] # None} \in SUBSET Versions
    OBVIOUS
  <2>2. (\E v \in Versions : live[p][v] # None) \in BOOLEAN
    OBVIOUS
  <2> QED BY <1>3, <2>1, <2>2 DEF TruthOf
<1>5. view \in Views
  BY <1>1, <1>3, <1>4
<1>6. shown' \in [Packages -> Views]
  BY <1>1, <1>3, <1>5
<1>7. shown[p] # TruthOf(p)
  BY <1>1, <1>3
<1>8. \A c : ~InPlace(c)
  BY <1>7 DEF InPlace
<1>9. RepoGrows
  BY <1>2, RepoStays
<1>10. ASSUME NEW k \in Jobs PROVE Knows(jobs[k])'
  <2>1. PICK s \in Job : s = jobs[k] /\ Knows(s)
    BY DEF IInv, TypeOK
  <2>2. s.phase # "idle" => s.sha \in Commits
    BY <2>1 DEF Knows, Underway
  <2>3. Knows(s)'
    BY <1>2, <1>8, <1>9, <2>1, <2>2, KnowsGrows DEF IInv
  <2> QED BY <1>2, <2>1, <2>3
<1>11. TypeOK'
  BY <1>2, <1>6 DEF IInv, TypeOK, repo, outputs
<1>12. StagedIsCanonical'
  BY <1>2, <1>9, CanonicalStays DEF IInv
<1> QED BY <1>10, <1>11, <1>12 DEF IInv

-----------------------------------------------------------------------------
(* The start, and every step.                                                *)

\* Every commit published at the start has come there by the steps below.
LEMMA PublishedFacts ==
  ASSUME Init, NEW c \in scene.published
  PROVE  /\ c \in Commits /\ PnpmAt[c] = PinnedPnpm /\ c \in Reviewed \cap FullyChecked
         /\ VersionOf(c) \in Versions
<1>1. /\ scene \in Scenarios /\ main = scene.main /\ tagged = scene.tagged
      /\ checks = scene.checks
  BY DEF Init
<1>2. /\ c \in Commits /\ PnpmAt[c] = PinnedPnpm /\ Lockstep(c) /\ tagged[VersionOf(c)] = c
      /\ OnMain(c)
  BY <1>1, ScenariosAreStates DEF OnMain
<1>3. PICK i \in DOMAIN checks :
        /\ checks[i].name = "Release Check" /\ checks[i].sha = c
        /\ checks[i].ok /\ checks[i].event # "pull_request"
  <2>1. \E i \in DOMAIN scene.checks :
          /\ scene.checks[i].name = "Release Check" /\ scene.checks[i].sha = c
          /\ scene.checks[i].ok /\ scene.checks[i].event # "pull_request"
    BY <1>1, ScenariosAreStates, Zenon
  <2> QED BY <1>1, <2>1, Zenon
<1>4. c \in FullyChecked
  BY <1>2, <1>3 DEF FullyChecked, Successful
<1> QED BY <1>2, <1>4, VersionFacts DEF Reviewed, Merged

LEMMA InitTypes == ASSUME Init PROVE TypeOK
<1>1. /\ scene \in Scenarios /\ main = scene.main /\ tagged = scene.tagged
      /\ checks = scene.checks /\ evidence = scene.published /\ plan = None
  BY DEF Init
<1>2. /\ main \in Seq(Commits) /\ main # <<>> /\ tagged \in [Versions -> Commits \cup {None}]
      /\ checks \in Seq(Checks)
  BY <1>1, ScenariosAreStates
<1>3. jobs \in [Jobs -> Job]
  BY IdleFacts DEF Init
<1>4. /\ staged \in [Packages -> [Versions -> SUBSET (Digests \cup {None})]]
      /\ \A p \in Packages, v \in Versions :
            staged[p][v] = {Tarball(p, c) : c \in {d \in scene.published : VersionOf(d) = v}}
  BY PublishedFacts, TarballFacts DEF Init
<1>5. live \in [Packages -> [Versions -> Digests \cup {None}]]
  <2>1. \A p \in Packages, v \in Versions :
          (IF staged[p][v] = {} THEN None ELSE CHOOSE t \in staged[p][v] : TRUE)
             \in Digests \cup {None}
    BY <1>4
  <2> QED BY <2>1 DEF Init
<1>6. tags \in [Packages -> Tags]
  <2>1. \A t : (\E c \in scene.published : DistTag(VersionOf(c)) = t) =>
          (CHOOSE v \in Versions :
              DistTag(v) = t /\ \E c \in scene.published : VersionOf(c) = v) \in Versions
    <3> SUFFICES ASSUME NEW t, NEW c \in scene.published, DistTag(VersionOf(c)) = t
                 PROVE  (CHOOSE v \in Versions :
                           DistTag(v) = t /\ \E d \in scene.published : VersionOf(d) = v)
                          \in Versions
      OBVIOUS
    <3>1. VersionOf(c) \in Versions /\ DistTag(VersionOf(c)) = t
      BY PublishedFacts
    <3> QED BY <3>1
  <2>2. \A p \in Packages : tags[p] = [t \in {"next", "latest"} |->
                  IF \E c \in scene.published : DistTag(VersionOf(c)) = t
                  THEN CHOOSE v \in Versions :
                          DistTag(v) = t /\ \E c \in scene.published : VersionOf(c) = v
                  ELSE None]
    BY DEF Init
  <2>3. ASSUME NEW p \in Packages PROVE tags[p] \in Tags
    <3> DEFINE Of(t) == IF \E c \in scene.published : DistTag(VersionOf(c)) = t
                        THEN CHOOSE v \in Versions :
                               DistTag(v) = t /\ \E c \in scene.published : VersionOf(c) = v
                        ELSE None
    <3>1. \A t : Of(t) \in Versions \cup {None}
      BY <2>1
    <3>2. tags[p] = [t \in {"next", "latest"} |-> Of(t)]
      BY <2>2
    <3> HIDE DEF Of
    <3> QED BY <3>1, <3>2 DEF Tags
  <2>4. tags = [p \in Packages |-> tags[p]]
    BY DEF Init
  <2> QED BY <2>3, <2>4
<1>7. shown \in [Packages -> [exact : SUBSET Versions, root : BOOLEAN, tags : Tags]]
  <2>1. shown = [p \in Packages |-> TruthOf(p)]
    BY DEF Init
  <2>2. \A p \in Packages : TruthOf(p) \in [exact : SUBSET Versions, root : BOOLEAN, tags : Tags]
    BY <1>6 DEF TruthOf
  <2> QED BY <2>1, <2>2
<1>8. evidence \subseteq Commits
  BY <1>1, PublishedFacts
<1> QED BY <1>1, <1>2, <1>3, <1>4, <1>5, <1>6, <1>7, <1>8 DEF TypeOK

LEMMA InitIInv == ASSUME Init PROVE IInv
<1>1. TypeOK
  BY InitTypes
<1>2. ASSUME NEW j \in Jobs PROVE Knows(jobs[j])
  <2>1. PICK s \in Job : s = jobs[j] /\ s.phase = "idle" /\ s.next = 1
    BY IdleFacts DEF Init
  <2>2. Knows(s)
    BY <2>1 DEF Knows, Underway, Staging, Comparing, Undisturbed
  <2> QED BY <2>1, <2>2
<1>3. \A p \in Packages, v \in Versions :
        staged[p][v] = {Tarball(p, c) : c \in {d \in scene.published : VersionOf(d) = v}}
  BY DEF Init
<1>4. ASSUME NEW p \in Packages, NEW v \in Versions, NEW t \in staged[p][v]
      PROVE  Canonical(t, p, v) /\ \A d \in DependsOn[p] : staged[d][v] # {}
  <2>1. PICK c \in scene.published : VersionOf(c) = v /\ t = Tarball(p, c)
    BY <1>3
  <2>2. Canonical(t, p, v)
    BY <2>1, PublishedFacts DEF Canonical
  <2>3. ASSUME NEW d \in DependsOn[p] PROVE staged[d][v] # {}
    <3>1. d \in Packages
      BY DependenciesArePackages
    <3>2. Tarball(d, c) \in staged[d][v]
      BY <1>3, <2>1, <3>1
    <3> QED BY <3>2
  <2> QED BY <2>2, <2>3
<1>5. evidence = scene.published /\ plan = None
  BY DEF Init
<1>6. \A c \in evidence, p \in Packages : Tarball(p, c) \in staged[p][VersionOf(c)]
  BY <1>3, <1>5, PublishedFacts
<1> QED BY <1>1, <1>2, <1>4, <1>5, <1>6 DEF IInv, StagedIsCanonical

LEMMA StutterKeepsIInv == ASSUME IInv, UNCHANGED vars PROVE IInv'
<1>1. /\ UNCHANGED <<scene, main, tagged, checks, jobs, staged, live, tags, shown>>
      /\ UNCHANGED <<evidence, plan>>
  BY DEF vars, repo, registry, outputs
<1>2. RepoGrows
  BY <1>1, RepoStays DEF repo
<1>3. main \in Seq(Commits) /\ main # <<>> /\ tagged \in [Versions -> Commits \cup {None}]
      /\ checks \in Seq(Checks)
  BY DEF IInv, TypeOK
<1> QED BY <1>1, <1>2, <1>3, RepoStep DEF registry, outputs

LEMMA IInvInductive == IInv /\ [Next]_vars => IInv'
<1> SUFFICES ASSUME IInv, [Next]_vars PROVE IInv'
  OBVIOUS
<1>1. scene \in Scenarios /\ scene.about \subseteq Commits
  BY ScenariosAreStates DEF IInv, TypeOK
<1>2. CASE UNCHANGED vars
  BY <1>2, StutterKeepsIInv
<1>3. ASSUME NEW c \in scene.about,
             \/ Merge(c)
             \/ \E version \in Versions : PushTag(version, c)
             \/ \E name \in {"CI", "Release Check"}, ok \in BOOLEAN, event \in Events :
                   Check(name, c, event, ok)
      PROVE  IInv'
  <2>1. c \in Commits
    BY <1>1
  <2> QED BY <1>3, <2>1, MergeKeepsIInv, PushTagKeepsIInv, CheckKeepsIInv
<1>4. ASSUME NEW j \in Jobs,
             \/ \E order \in scene.orders :
                   Dispatch(j, order.mode, order.sha, order.tag, order.branch)
             \/ Stop(j) \/ CheckRefs(j) \/ PickRun(j) \/ Download(j) \/ PackLocally(j)
             \/ StageNext(j) \/ Evidence(j)
             \/ Ask(j) \/ Compare(j) \/ Conclude(j)
      PROVE  IInv'
  BY <1>4, DispatchKeepsIInv, StopKeepsIInv, CheckRefsKeepsIInv, PickRunKeepsIInv,
     DownloadKeepsIInv, PackLocallyKeepsIInv, StageNextKeepsIInv, EvidenceKeepsIInv,
     AskKeepsIInv, CompareKeepsIInv, ConcludeKeepsIInv
<1>5. ASSUME NEW p \in Packages,
             \/ \E version \in Versions :
                   \/ \E tarball \in staged[p][version] : Approve(p, version, tarball)
                   \/ \E tag \in {"next", "latest"} : MoveTag(p, tag, version)
             \/ PublishByHand(p)
             \/ CatchUp(p)
      PROVE  IInv'
  BY <1>5, ApproveKeepsIInv, MoveTagKeepsIInv, PublishByHandKeepsIInv, CatchUpKeepsIInv
<1> QED BY <1>2, <1>3, <1>4, <1>5 DEF Next

-----------------------------------------------------------------------------

(* Each job of a release knows in every phase what it must know by then,     *)
(* and everything staged is canonical (release.yml, stage-from-artifact.mjs, *)
(* verify-registry-release.ts, bootstrap-release.ts).                        *)
THEOREM Invariance == Spec => []IInv
<1>1. Init => IInv
  BY InitIInv
<1> QED BY <1>1, IInvInductive, PTL DEF Spec

(* For any number of packages, commits, overlapping and repeated jobs, lost  *)
(* answers and damaged artifacts: what waits for approval was packed of the  *)
(* one reviewed and fully checked commit that the tag names, after what it   *)
(* depends on (stage-from-artifact.mjs, canonical-validate.mjs).             *)
THEOREM OnlyCanonicalIsStaged == Spec => []StagedIsCanonical
<1>1. IInv => StagedIsCanonical
  BY DEF IInv
<1> QED BY <1>1, Invariance, PTL

LEMMA VerdictFollows == ASSUME IInv PROVE VerdictIsTrue
<1> SUFFICES ASSUME NEW j \in Jobs, jobs[j].mode = "verify", jobs[j].phase = "done"
             PROVE  /\ jobs[j].overall = "PUBLISHED_VERIFIED" => Verified(jobs[j])
                    /\ jobs[j].quiet => jobs[j].overall = "PUBLISHED_VERIFIED"
  BY DEF VerdictIsTrue
<1>1. PICK s \in Job : s = jobs[j]
  BY DEF IInv, TypeOK
<1>2. Knows(s) /\ s.mode = "verify" /\ s.phase = "done"
  BY <1>1 DEF IInv
<1>3. /\ s.next > Len(Roster) /\ s.next \in Nat /\ s.overall = Overall(s.states)
      /\ s.states \subseteq States
  BY <1>2 DEF Knows, Comparing, Job
<1>4. s.overall = "PUBLISHED_VERIFIED" <=> s.states \subseteq {"PUBLISHED_VERIFIED"}
  BY <1>3 DEF Overall, States
<1>5. s.quiet => s.overall = "PUBLISHED_VERIFIED"
  BY <1>2, <1>4 DEF Knows, Undisturbed
<1>6. s.overall = "PUBLISHED_VERIFIED" => Verified(s)
  <2> SUFFICES ASSUME s.overall = "PUBLISHED_VERIFIED", NEW p \in Packages
               PROVE  live[p][VersionOf(s.sha)] = Tarball(p, s.sha)
    BY DEF Verified
  <2>1. PICK i \in DOMAIN Roster : Roster[i] = p
    BY RosterFacts
  <2>2. i < s.next
    <3>1. Len(Roster) \in Nat /\ i \in 1..Len(Roster)
      BY <2>1, RosterFacts
    <3>2. s.next > Len(Roster) /\ s.next \in Nat
      BY <1>3
    <3> QED BY <3>1, <3>2
  <2> QED BY <1>2, <1>4, <2>1, <2>2 DEF Knows, Comparing
<1> QED BY <1>1, <1>5, <1>6

(* However the registry changes, lags or fails to answer while it is asked:  *)
(* PUBLISHED_VERIFIED means that every package is published with the bytes   *)
(* of the commit, and is said when all of it was there from the start and    *)
(* every question was answered (registry-truth.ts).                          *)
THEOREM VerdictsAreTrue == Spec => []VerdictIsTrue
<1>1. IInv => VerdictIsTrue
  BY VerdictFollows
<1> QED BY <1>1, Invariance, PTL
=============================================================================
