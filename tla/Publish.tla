------------------------------ MODULE Publish ------------------------------
(***************************************************************************)
(* From a commit to ten packages on the registry: Release Checks of CI,    *)
(* the stage and verify jobs of .github/workflows/release.yml, the         *)
(* operator's bootstrap:check (scripts/bootstrap-release.ts), and around   *)
(* them GitHub, npm and the maintainers.                                   *)
(*                                                                         *)
(* A job runs step by step while everything else goes on.  Tags are        *)
(* protected: none is moved or deleted, and main only grows.               *)
(***************************************************************************)
EXTENDS CanonicalArtifact, RegistryTruth

CONSTANTS
    Jobs,
    Bootstrap,  \* EXPECTED_BOOTSTRAP_VERSION
    Retries,    \* how often a source is asked
    Scenarios,  \* [main, tagged, checks, published, ready, about, orders,
                \* uses]: where a behaviour starts, the commits it is about, the
                \* jobs that may be asked for, and how often what may happen
    Kind        \* the kinds of steps that a scenario bounds

VARIABLES
    scene,      \* the scenario of this behaviour
    left,       \* the steps of each kind that are left
    main,       \* the commits of origin/main, the tip last
    tagged,     \* [version -> the commit that the tag v<version> names]
    checks,     \* the completed workflow runs, the newest last
    jobs,
    staged,     \* [package -> [version -> the tarballs waiting for approval]]
    live,       \* [package -> [version -> the published tarball]]
    tags,       \* [package -> [dist-tag -> version]]
    shown,      \* [package -> what the registry's answers show of it]
    evidence,   \* the commits whose stage job left stage-evidence.json
    plan        \* bootstrap-plan.json of the operator, or None

Workflows == {"stage", "verify"}
Modes == Workflows \cup {"prepare", "publish-ready"}

Orders == [mode : Modes, sha : Commits, tag : Versions \cup {None},
           branch : {"main", "other"}]

Events == {"push", "pull_request", "workflow_dispatch"}

Checks == [name : {"CI", "Release Check"}, sha : Commits, event : Events,
           ok : BOOLEAN, artifact : BOOLEAN]

(* A behaviour starts where the steps below can lead.                      *)
ASSUME ScenariosAreStates ==
    \A s \in Scenarios :
      /\ s.about \subseteq Commits /\ s.orders \subseteq Orders
      /\ s.main \in Seq(Commits) /\ s.main # <<>>
      /\ s.tagged \in [Versions -> Commits \cup {None}]
      /\ s.checks \in Seq(Checks)
      /\ \A c \in s.published :
            /\ c \in Commits /\ PnpmAt[c] = PinnedPnpm /\ Lockstep(c)
            /\ s.tagged[VersionOf(c)] = c
            /\ \E i \in DOMAIN s.main : s.main[i] = c
            /\ \E i \in DOMAIN s.checks :
                  /\ s.checks[i].name = "Release Check" /\ s.checks[i].sha = c
                  /\ s.checks[i].ok /\ s.checks[i].event # "pull_request"

repo == <<main, tagged, checks>>
registry == <<staged, live, tags, shown>>
outputs == <<evidence, plan>>
vars == <<scene, left, repo, jobs, registry, outputs>>

Spend(kind) ==
    /\ left[kind] > 0
    /\ left' = [left EXCEPT ![kind] = @ - 1]
    /\ UNCHANGED scene

Free == UNCHANGED <<scene, left>>

OnMain(c) == \E i \in DOMAIN main : main[i] = c

-----------------------------------------------------------------------------
(* The repository.  A workflow run appears when it completes.              *)
Merge(c) ==
    /\ Spend("Merge")
    /\ ~OnMain(c)
    /\ main' = Append(main, c)
    /\ UNCHANGED <<tagged, checks, jobs, registry, outputs>>

PushTag(version, c) ==
    /\ Spend("PushTag")
    /\ tagged[version] = None
    /\ tagged' = [tagged EXCEPT ![version] = c]
    /\ UNCHANGED <<main, checks, jobs, registry, outputs>>

(* CI runs for main and for pull requests; Release Check also for tags and *)
(* on demand.  A pull request's artifact is named after its merge commit,  *)
(* so that it is never the one of the head.  A check whose later jobs fail *)
(* has uploaded its artifact all the same.                                 *)
Triggered(name, c, event) ==
    CASE event = "pull_request" -> TRUE
      [] event = "workflow_dispatch" -> name = "Release Check"
      [] event = "push" ->
             \/ OnMain(c)
             \/ name = "Release Check" /\ \E v \in Versions : tagged[v] = c

Check(name, c, event, ok) ==
    /\ Spend("Check")
    /\ Triggered(name, c, event)
    /\ name = "Release Check" /\ ok => Lockstep(c)
    /\ \E kept \in BOOLEAN :
          /\ kept => name = "Release Check" /\ event # "pull_request" /\ Lockstep(c)
          /\ ok /\ name = "Release Check" /\ event # "pull_request" => kept
          /\ checks' = Append(checks, [name |-> name, sha |-> c, event |-> event,
                                       ok |-> ok, artifact |-> kept])
    /\ UNCHANGED <<main, tagged, jobs, registry, outputs>>

(* full-release-check.mjs                                                  *)
Successful(i, name, sha) ==
    checks[i].name = name /\ checks[i].sha = sha /\ checks[i].ok

(* A defect for the checks: a full Release Check need not have succeeded.  *)
FullAtAll(i, sha) ==
    /\ checks[i].name = "Release Check" /\ checks[i].sha = sha
    /\ checks[i].event \in {"push", "workflow_dispatch"}

Full(i, sha) ==
    /\ Successful(i, "Release Check", sha)
    /\ checks[i].event \in {"push", "workflow_dispatch"}

GatesGreen(sha) ==
    /\ \E i \in DOMAIN checks : Successful(i, "CI", sha)
    /\ \E i \in DOMAIN checks : Full(i, sha)

Newest(i, sha) ==
    Full(i, sha) /\ \A k \in DOMAIN checks : Full(k, sha) => k <= i

-----------------------------------------------------------------------------
(* The jobs.  A workflow is dispatched for a commit and from a branch; one *)
(* is on for a commit and a mode at a time.  bootstrap:check runs on the   *)
(* operator's checkout of a commit.                                        *)
Over == {"idle", "failed", "done"}
Phases == Over \cup {"refs", "runs", "artifact", "staging", "reading"}

NoAnswers == [source \in {"exact", "tags", "root"} |-> None]

Idle ==
    [mode |-> "stage", sha |-> None, tag |-> None, branch |-> None,
     phase |-> "idle", run |-> 0, artifact |-> None, next |-> 1, source |-> 1,
     attempt |-> 1, answers |-> NoAnswers, named |-> None, states |-> {},
     overall |-> None, quiet |-> FALSE]

Become(j, job) == jobs' = [jobs EXCEPT ![j] = job]

Enter(j, phase) == Become(j, [jobs[j] EXCEPT !.phase = phase])

Fail(j) == Enter(j, "failed")

FirstPhase(mode) ==
    CASE mode = "stage" -> "refs"
      [] mode = "verify" -> "runs"
      [] mode = "prepare" -> "artifact"
      [] mode = "publish-ready" -> "refs"

(* Everything of the commit is on the registry, and the registry shows it. *)
(* No program keeps this: it is for the properties.                        *)
TruthOf(p) ==
    [exact |-> {v \in Versions : live[p][v] # None},
     root  |-> \E v \in Versions : live[p][v] # None,
     tags  |-> tags[p]]

InPlace(c) ==
    \A p \in Packages :
        /\ live[p][VersionOf(c)] = Tarball(p, c)
        /\ tags[p][DistTag(VersionOf(c))] = VersionOf(c)
        /\ shown[p] = TruthOf(p)

Dispatch(j, mode, sha, tag, branch) ==
    /\ Spend("Dispatch")
    /\ jobs[j] = Idle
    /\ mode \in Workflows =>
          \A k \in Jobs : jobs[k].phase \notin Over =>
              jobs[k].mode # mode \/ jobs[k].sha # sha
    /\ Become(j, [Idle EXCEPT !.mode = mode, !.sha = sha, !.tag = tag,
                              !.branch = branch, !.phase = FirstPhase(mode),
                              !.quiet = InPlace(sha)])
    /\ UNCHANGED <<repo, registry, outputs>>

(* A step fails, or the job runs out of its time or is cancelled.          *)
Stop(j) ==
    /\ Spend("Fault")
    /\ jobs[j].phase \notin Over
    /\ Fail(j)
    /\ UNCHANGED <<repo, registry, outputs>>

(* The gates of a stage: dispatched from main, with a tag that has the     *)
(* version of every package, names the commit, and the commit is on main.  *)
MayStage(job) ==
    /\ scene.ready
    /\ job.branch = "main"
    /\ job.tag # None
    /\ \A p \in Packages : VersionAt[job.sha][p] = job.tag
    /\ tagged[job.tag] = job.sha
    /\ OnMain(job.sha)

(* publishReadinessIssues: a clean checkout of main at the tip of          *)
(* origin/main, freshly fetched.                                           *)
MayConsume(job) == job.branch = "main" /\ main[Len(main)] = job.sha

CheckRefs(j) ==
    /\ jobs[j].phase = "refs"
    /\ IF IF jobs[j].mode = "stage" THEN MayStage(jobs[j]) ELSE MayConsume(jobs[j])
       THEN Enter(j, "runs")
       ELSE Fail(j)
    /\ Free /\ UNCHANGED <<repo, registry, outputs>>

(* select-release-gates.mjs, checkExactHeadGates                           *)
PickRun(j) ==
    /\ jobs[j].phase = "runs"
    /\ IF GatesGreen(jobs[j].sha)
       THEN \E i \in DOMAIN checks :
               /\ Newest(i, jobs[j].sha)
               /\ Become(j, [jobs[j] EXCEPT !.phase = "artifact", !.run = i])
       ELSE Fail(j)
    /\ Free /\ UNCHANGED <<repo, registry, outputs>>

(* The version gate of bootstrap:check: all packages, and one version only.*)
AtBootstrap(a) == \A p \in Packages : a.packages[p].version = Bootstrap

Accepts(job, a) ==
    CASE job.mode = "stage" ->
             Valid(a, job.sha) /\ a.identity.version = VersionOf(job.sha)
      [] job.mode = "verify" -> TRUE
      [] job.mode = "prepare" -> AtBootstrap(a)
      [] job.mode = "publish-ready" -> LayoutHolds(a, job.sha) /\ AtBootstrap(a)

Purpose(mode) == IF mode = "stage" THEN "staging" ELSE "reading"

Use(j, a) ==
    IF Accepts(jobs[j], a)
    THEN Become(j, [jobs[j] EXCEPT !.phase = Purpose(jobs[j].mode), !.artifact = a])
    ELSE Fail(j)

(* gh run download and normalize-canonical-artifact.mjs: what the run has  *)
(* uploaded, or a damaged copy.                                            *)
Download(j) ==
    /\ jobs[j].phase = "artifact" /\ jobs[j].mode # "prepare"
    /\ IF checks[jobs[j].run].artifact
       THEN \E a \in {Artifact(jobs[j].sha, jobs[j].sha)} : 
               \/ Free /\ Use(j, a)
               \/ Spend("Damage") /\ \E b \in Damaged(a) : Use(j, b)
       ELSE Free /\ Fail(j)
    /\ UNCHANGED <<repo, registry, outputs>>

(* --prepare packs the operator's working tree.                            *)
PackLocally(j) ==
    /\ jobs[j].phase = "artifact" /\ jobs[j].mode = "prepare"
    /\ IF Lockstep(jobs[j].sha)
       THEN Use(j, Artifact(jobs[j].sha, Working))
       ELSE Fail(j)
    /\ Free /\ UNCHANGED <<repo, registry, outputs>>

-----------------------------------------------------------------------------
(* stage-from-artifact.mjs: one package after the other; the first that is *)
(* not taken ends the job, without evidence.  npm takes no version that is *)
(* published, and an answer may be lost.                                   *)
Stageable(j, p) == live[p][VersionOf(jobs[j].sha)] = None

Staged(j, p) ==
    staged' = [staged EXCEPT ![p][VersionOf(jobs[j].sha)] =
                  @ \cup {jobs[j].artifact.tarballs[p]}]

StageNext(j) ==
    /\ jobs[j].phase = "staging" /\ jobs[j].next <= Len(Roster)
    /\ \E p \in {jobs[j].artifact.order[jobs[j].next]} :
          IF Stageable(j, p)
          THEN \/ /\ Free /\ Staged(j, p)
                  /\ Become(j, [jobs[j] EXCEPT !.next = @ + 1])
               \/ Spend("Fault") /\ Staged(j, p) /\ Fail(j)
          ELSE Free /\ Fail(j) /\ UNCHANGED staged
    /\ UNCHANGED <<repo, live, tags, shown, outputs>>

Evidence(j) ==
    /\ jobs[j].phase = "staging" /\ jobs[j].next > Len(Roster)
    /\ evidence' = evidence \cup {jobs[j].sha}
    /\ Enter(j, "done")
    /\ Free /\ UNCHANGED <<repo, registry, plan>>

-----------------------------------------------------------------------------
(* verifyPackagesOnRegistry, one request at a time: the three sources of   *)
(* a package in order, each asked until it answers 200 or Retries times,   *)
(* then its tarball.  bootstrap:check asks for its own version and has no  *)
(* canonical hashes.                                                       *)
Asked(job) == IF job.mode = "verify" THEN VersionOf(job.sha) ELSE Bootstrap

TrueAnswer(source, p, version) ==
    IF CASE source = "exact" -> version \in shown[p].exact
         [] source = "tags"  -> shown[p].root
         [] source = "root"  -> shown[p].root
    THEN "ok" ELSE "notfound"

Answered(j, p, source, answer) ==
    LET job == jobs[j]
        last == answer = "ok" \/ job.attempt = Retries
        named == IF source = "tags" /\ answer = "ok"
                 THEN shown[p].tags[DistTag(Asked(job))] ELSE job.named
    IN Become(j, [job EXCEPT !.answers = [@ EXCEPT ![source] = answer],
                             !.named = named,
                             !.attempt = IF last THEN 1 ELSE @ + 1,
                             !.source = IF last THEN @ + 1 ELSE @,
                             !.quiet = @ /\ answer \notin Transient])

Ask(j) ==
    /\ jobs[j].phase = "reading" /\ jobs[j].next <= Len(Roster)
    /\ jobs[j].source <= Len(Sources)
    /\ LET p == Roster[jobs[j].next]
           source == Sources[jobs[j].source]
       IN \/ Free /\ Answered(j, p, source, TrueAnswer(source, p, Asked(jobs[j])))
          \/ Spend("Fault") /\ \E t \in Transient : Answered(j, p, source, t)
    /\ UNCHANGED <<repo, registry, outputs>>

(* The exact document has the address of the tarball; the published bytes  *)
(* are compared with the canonical hash, when there is one.                *)
Same(job, p) ==
    IF job.answers["exact"] # "ok" \/ job.mode # "verify" THEN "unknown"
    ELSE IF live[p][Asked(job)] = job.artifact.packages[p].sha256
    THEN "yes" ELSE "no"

Reported(j, same, quiet) ==
    LET state == Classify(jobs[j].answers, jobs[j].named = Asked(jobs[j]), same)
    IN Become(j, [jobs[j] EXCEPT !.states = @ \cup {state}, !.answers = NoAnswers,
                                 !.named = None, !.source = 1, !.next = @ + 1,
                                 !.quiet = quiet])

Compare(j) ==
    /\ jobs[j].phase = "reading" /\ jobs[j].next <= Len(Roster)
    /\ jobs[j].source > Len(Sources)
    /\ LET p == Roster[jobs[j].next]
       IN \/ Free /\ Reported(j, Same(jobs[j], p), jobs[j].quiet)
          \/ Spend("Fault") /\ Reported(j, "unknown", FALSE)
    /\ UNCHANGED <<repo, registry, outputs>>

Report(j, overall) ==
    Become(j, [jobs[j] EXCEPT !.phase = "done", !.overall = overall])

Conclude(j) ==
    /\ jobs[j].phase = "reading" /\ jobs[j].next > Len(Roster)
    /\ \E overall \in {Overall(jobs[j].states)} :
          IF jobs[j].mode = "verify"
          THEN Report(j, overall) /\ UNCHANGED plan
          ELSE IF overall = "UNKNOWN" THEN Fail(j) /\ UNCHANGED plan
          ELSE /\ Report(j, overall)
               /\ plan' = [canonical |-> jobs[j].mode = "publish-ready",
                           head |-> jobs[j].sha, tarballs |-> jobs[j].artifact.tarballs]
    /\ Free /\ UNCHANGED <<repo, registry, evidence>>

-----------------------------------------------------------------------------
(* npm and the maintainers.  The first version of a package is also its    *)
(* latest; the answers of the registry catch up one by one.                *)
Disturbed == jobs' = [j \in Jobs |-> [jobs[j] EXCEPT !.quiet = FALSE]]

Published(p, version, tarball) ==
    /\ live' = [live EXCEPT ![p] = [@ EXCEPT ![version] = tarball]]
    /\ tags' = [tags EXCEPT ![p] =
                   [t \in {"next", "latest"} |->
                       IF t = DistTag(version) \/ \A v \in Versions : live[p][v] = None
                       THEN version ELSE @[t]]]
    /\ Disturbed
    /\ UNCHANGED <<repo, staged, shown, outputs>>

Approve(p, version, tarball) ==
    /\ Spend("Approve")
    /\ live[p][version] = None
    /\ tarball \in staged[p][version]
    /\ Published(p, version, tarball)

(* npm publish by hand, as the plan of --prepare prints it.                *)
PublishByHand(p) ==
    /\ Spend("ByHand")
    /\ plan # None /\ ~plan.canonical
    /\ live[p][Bootstrap] = None
    /\ Published(p, Bootstrap, plan.tarballs[p])

MoveTag(p, tag, version) ==
    /\ Spend("MoveTag")
    /\ live[p][version] # None /\ tags[p][tag] # version
    /\ tags' = [tags EXCEPT ![p] = [@ EXCEPT ![tag] = version]]
    /\ Disturbed
    /\ UNCHANGED <<repo, staged, live, shown, outputs>>

CatchUp(p) ==
    /\ \E view \in {[shown[p] EXCEPT !.exact = TruthOf(p).exact],
                    [shown[p] EXCEPT !.root = TruthOf(p).root],
                    [shown[p] EXCEPT !.tags = TruthOf(p).tags]} :
          /\ view # shown[p]
          /\ shown' = [shown EXCEPT ![p] = view]
    /\ Free /\ UNCHANGED <<repo, jobs, staged, live, tags, outputs>>

-----------------------------------------------------------------------------
(* published: commits that have been staged and approved, of different     *)
(* versions.                                                               *)
Init ==
    /\ scene \in Scenarios
    /\ left = scene.uses
    /\ main = scene.main /\ tagged = scene.tagged /\ checks = scene.checks
    /\ jobs = [j \in Jobs |-> Idle]
    /\ staged = [p \in Packages |-> [v \in Versions |->
                    {Tarball(p, c) : c \in {d \in scene.published : VersionOf(d) = v}}]]
    /\ live = [p \in Packages |-> [v \in Versions |->
                  IF staged[p][v] = {} THEN None ELSE CHOOSE t \in staged[p][v] : TRUE]]
    /\ tags = [p \in Packages |-> [t \in {"next", "latest"} |->
                  IF \E c \in scene.published : DistTag(VersionOf(c)) = t
                  THEN CHOOSE v \in Versions :
                          DistTag(v) = t /\ \E c \in scene.published : VersionOf(c) = v
                  ELSE None]]
    /\ evidence = scene.published
    /\ shown = [p \in Packages |-> TruthOf(p)]
    /\ plan = None

Next ==
    \/ \E c \in scene.about :
          \/ Merge(c)
          \/ \E version \in Versions : PushTag(version, c)
          \/ \E name \in {"CI", "Release Check"}, ok \in BOOLEAN,
                event \in Events :
                Check(name, c, event, ok)
    \/ \E j \in Jobs :
          \/ \E order \in scene.orders :
                Dispatch(j, order.mode, order.sha, order.tag, order.branch)
          \/ Stop(j) \/ CheckRefs(j) \/ PickRun(j) \/ Download(j) \/ PackLocally(j)
          \/ StageNext(j) \/ Evidence(j)
          \/ Ask(j) \/ Compare(j) \/ Conclude(j)
    \/ \E p \in Packages :
          \/ \E version \in Versions :
                \/ \E tarball \in staged[p][version] : Approve(p, version, tarball)
                \/ \E tag \in {"next", "latest"} : MoveTag(p, tag, version)
          \/ PublishByHand(p)
          \/ CatchUp(p)

Spec == Init /\ [][Next]_vars
=============================================================================
