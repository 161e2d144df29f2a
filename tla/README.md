# ActionManifest: TLA+ verification

ActionManifest turns documents into manifests of actions and helps a person to carry
them out. Three parts of it have logic that is hard to test. *Assistance* has state,
actors and failure: a ledger of the facts a user confirms, a projection that says which
actions are ready, and a local workflow that plans, confirms and executes those actions
against a device-local database. The *pipeline* from a text to an action somebody may act
on is a chain of pure functions (extraction, verification, trust, export, bridges), but a
manifest is a file that people keep, edit, filter and pass on while its source changes.
*Releases* are made by overlapping jobs, maintainers and machines against two registries.
This directory holds TLA+ models of that logic, TLC configurations and TLAPS proofs.

## Inventory

| Component | State | Operations | Interacts with |
|---|---|---|---|
| Local workflow host (`workflow-host.ts`, `workflow-plan.ts`) | context (facts, permissions, destination rows), plans, journal, local records | `load`, `compareAndSwap`, `applyLocal`, `readLocal`, `readContext`, `replaceContext` | called by the coordinator and the application |
| Local workflow coordinator (`workflow-runtime.ts`, `workflow-receipt.ts`) | none of its own: each method's locals between two awaits | `create`, `requestConfirmation`, `confirm`, `cancel`, `execute`, `verify`, receipt | awaits the host |
| File store (`workflow-host.ts:91-149`) | a JSON file, a lock directory, a temporary file | read; locked read-modify-write; rename and fsync | persists the host for several processes |
| Assistance ledger (`assistance-ledger.ts`, `-persistence`, `-ingress`) | events, revision, manifests by source, facts | register, propose, confirm/apply, dismiss, undo (`reopen`) | read by the projection |
| Readiness projection (`assistance-project.ts`, `assistance-conditions.ts`) | none (pure) | three-valued conditions, applicability, review queue, validity horizon | supplies the plan's facts |
| Extraction (`extractor`, `temporal`, plain-text adapter) | none (pure); the loop over sentences carries the actions found so far | one sentence after the other adds, corrects, cancels, exempts; completion of a model's reply | gives the verifier a manifest |
| Verification and trust (`verifier`, `core/trust.ts`, `exporters/policy.ts`, `classify.ts`) | the receipt and the statuses in the file | issues, promotion, trust decision, export policy, consumer class | verifier, exporter and consumer must agree |
| Bridges (`matoe.ts`, `matoe-v02.ts`, `agent.ts`, `agent-batch.ts`, `action-guidance.ts`) | none (pure) | refuse or project a manifest for another program | read the receipt that verification left |
| Document query, family review, freshness (`core`) | an index of one snapshot, pinned quotes, a check in flight | search, citations, pages of a review, freshness check with yields and abort | the caller owns and changes document and sources |
| Release control plane (`scripts/release-setup*.ts`) | none of its own: an environment, rulesets and two variables at GitHub, trust lists at npm | discover, plan, apply, read back, approve, set READY | remote APIs, maintainers, other machines |
| Release artifacts and publishing (`release.yml`, `stage-from-artifact.mjs`, `canonical-validate.mjs`, `registry-truth.ts`, `bootstrap-release.ts`) | workflow runs with artifacts, staged and published versions, dist-tags, evidence, the operator's plan | Release Check, stage, verify, bootstrap check | GitHub, npm, the approving maintainers |
| Command line | a manifest file | extract, verify, export, agent, batch, guide, analysis, query | all of the pipeline |
| External adapters, workflow insights, package checks, schema | none | conversion, counts, batch checks, declarations | see *Not modelled* |

What is hard, and what must hold:

* *Coordinator and host.* Every host call is awaited, so any other caller, the clock and
  the application act between two lines of a method. Callers hold old copies of the
  journal; the clock is read before the context; a confirmation expires or is renewed
  while a step is in flight; a commit's answer is lost; a process dies between commit and
  journal write; two plans contain the same action. It must hold that nothing is created
  without a confirmation that showed it, nothing twice, nothing after a cancel, nothing
  over an edit the plan has not seen; and that what the journal reports is true.
* *File store.* Crashes at any line leave a lock, a temporary file or a visible but
  unsynced database. Each transaction must be atomic and serialised, and a reader must
  never see half of one.
* *Ledger.* Commands arrive late, repeated or against an old revision, and undo must
  respect what was built on the undone event. Replay of the events must give the state.
* *Projection.* Unknown facts must never make an action ready, and the validity horizon
  must not promise readiness past the next instant at which an answer changes.
* *Extraction.* Later sentences correct, cancel, exempt and negate earlier ones, several at
  a time; an old date must never stay the exact date of an action.
* *Trust.* Several packages decide on the same receipt, which lies in the same file as the
  actions and is not bound to them. An action that any of them calls ready must have passed
  a verification with exactly these contents, whatever was filtered, edited or passed on.
* *Evidence.* Documents and sources change under an index, a paged review and a slow check.
* *Publishing.* Jobs overlap, stop half-way and are repeated; artifacts of other runs carry
  the same names; the registry is read in several requests while it changes and lags. Only
  canonical tarballs of a reviewed and checked commit may be staged, and PUBLISHED_VERIFIED
  must be true.
* *Release.* Remote state drifts between plan and apply, a run may stop anywhere; READY
  must be written last and only when everything was read back.

The source line of every hazard is in `PROJECT.json` under `hazards`.

## Modules

| Module | What it is |
|---|---|
| `LocalWorkflowHost` | the host as one database: planning, plan currency, journal rows and their validation, the checks of `applyLocal`, `replaceContext` |
| `LocalWorkflow` | the coordinator: one action per awaited call of each method, over that host |
| `LocalWorkflowProperties` | the safety and liveness properties, the refuted claims, the refinement mapping |
| `ConfirmedCreation` | the abstract promise: records are made only for granted, not withdrawn steps, one per key |
| `LocalWorkflowInvariant` | the inductive strengthening of the safety properties |
| `MCLocalWorkflow` | instances and scenarios for TLC |
| `FileHost` | `FileLocalWorkflowHost`: one action per awaited file-system call of `transaction` and `readHost`, and what may go wrong around them |
| `AtomicStore` | the abstract promise of a durable store: atomic, serialised, at most once |
| `MCFileHost`, `FileHostProofs` | its instance for TLC; its proofs |
| `AssistanceLedger` | the functions of `assistance-ledger.ts` over a ledger value: for each operation what it requires and what it returns |
| `AssistanceCompanion` | `projectAssistance` and the validation of its result, as functions of a ledger and local facts |
| `Assistance` | both in use: clients with expected revisions on one persisted ledger, companions on their way to another device |
| `AssistanceProperties` | its properties; replay (`restoreAssistanceState`); the refinement mapping |
| `RevisionGraph` | the abstract promise: revisions in force are links that change one at a time and never under one another |
| `MCAssistance`, `AssistanceProofs` | instances and scenarios for TLC; its proofs |
| `ReleasePlan` | `release-setup-plan.ts`: the prerequisites, both planners, the write plan of the environment, as pure operators |
| `ReleaseSetup` | `runReleaseSetup` on several machines: one action per call of the clients that reads or writes |
| `ReleaseProperties`, `MCReleaseSetup`, `ReleaseProofs` | its properties, its scenarios for TLC, its proofs |
| `Documents` | canonical documents and what the language rules read in a sentence, from a table |
| `Verification`, `Trust` | `verifyManifest` with every check; the trust policy and what reads it (classes, export, calendar, report, guide) |
| `Extraction`, `Deterministic` | a provider's reply to a manifest; the rule extractor, sentence by sentence |
| `Bridges` | both Matoe contracts, the agent protocol and its batch, the analysis, the guide |
| `ManifestUse` | a user with a source and a manifest file: every command, edits in between |
| `DocumentIndex`, `Freshness` | index, search, citations and family review; pinned quotes and the slow check |
| `EvidenceUse` | a caller that uses both while documents and sources change |
| `Conditions` | three-valued predicates over facts that expire |
| `Consumption`, `ConsumptionProperties`, `MCConsumption`, `ConsumptionProofs` | their composition, its properties, its scenarios for TLC, its proofs |
| `CanonicalArtifact`, `RegistryTruth` | what a Release Check packs and how it is validated; how three answers of the registry are classified |
| `Publish` | Release Checks, the jobs of `release.yml`, `bootstrap:check`, and around them GitHub, npm and the maintainers |
| `PublishProperties`, `PublishProofs`, `MCPublish` | its properties, their inductive strengthening and the proofs, the scenarios for TLC |
| `LocalWorkflowTypeProofs`, `LocalWorkflowJournalProofs`, `LocalWorkflowProofs` | the TLAPS proofs, each extending the one before |

### How the local workflow is modelled

`call[p]` holds the locals of the method caller `p` is inside; `pc` names the await it
stands at (`c_` create, `r_` request, `k_` confirm, `x_` cancel, `e_` execute, `u_`
updateResult, `v_` verify). A step runs from one await to the next. `wf`, `snap`, `slot`,
`base`, `upd`, `now`, `tok`, `drev` are the locals the code keeps; a local the rest of the
method does not read is reset, which keeps the state space small without losing
behaviour. `level` says which exception handlers of `execute` surround an
`updateResult`, because the code nests three of them and a second failure inside the
first handler reaches the second.

Every write to the host (`Save`, `ExecuteApply`) may succeed, lose the compare-and-swap,
be refused by the row's validation, fail before its effect (a busy lock or any other
exception) or fail *after* it, which the file host does when the directory fsync or the
lock removal throws after the rename. `Crash` ends a call between any two steps.
Reads may fail too. `EditContext` is the application calling `replaceContext` with a
change of facts, permissions, a destination's revision, or removing and restoring a
destination; the host's own refusals apply. `LoseRecord` is the user deleting a record in
the destination.

Abstractions: the hash of facts is a value of `FactSets`; an action's idempotency key is
an element of `Keys` and fixes its destination; text, arguments and digests are not
represented; `STALE` stands for every code raised by the comparison of plan and context.
`ReadyUntil` is the projection's answer (the instant an action stops being ready) and
`ReviewOpen` its open review items: external inputs here, to be connected to a model of
the projection. Revisions and the clock are unbounded naturals; the scenarios bound them.
Tokens are counted instead of random: `confirm` accepts only the token of the row, and
the model only presents tokens that were shown to somebody.

### How the file store is modelled

The database is the sequence of the transactions applied to it; `db` is what the path
names, `durable` what it named at the last fsync of the directory, `window` everything it
may name after a power loss. `call[p]` holds the locals of `transaction` (`base` what
`readHost` returned, `out` the snapshot in the temporary file, `renamed` once `temp` is
unset) or of a reader, which takes no lock. A write may leave the database unchanged: a
refused compare-and-swap stores its snapshot too. Each file-system call may fail, with the
`finally` block that belongs to the point of failure: after a failed `rm` of the temporary
file the lock stays, after a failed fsync of the directory the lock goes and the write is
visible. `Crash` ends one call, `PowerLoss` all of them and takes the path back to any
member of `window`; a file that was renamed without an fsync might then be torn.
`Recover` is the operator who removes an orphan lock, as the text of `LOCAL_STORE_BUSY`
asks; the operator is trusted to have checked that no writer lives. External, and
assumptions of the model: `mkdir` and `rename` are atomic, an fsynced file keeps its
content, a directory entry that was not fsynced may be undone, and files appear at or
leave the path only through the host (a missing or corrupt database is found at the
start). A reader may see a write that a later power loss undoes; its writer had not been
answered, which is what `AtomicStore` promises and all the code claims.

### How the assistance ledger is modelled

The code's operations take a ledger and an expected revision and return the next ledger,
or throw. `AssistanceLedger` translates them as functions of a ledger value
`[documents, events]`; the revision is the number of events, as `assertState` demands.
Nothing else is stored: which change is applied, what state an action is in and what a
card says are computed from the events, in the model as in the code. `Assistance` adds the
callers. A client works with the ledger it has seen; its call is refused unless
`seen` is the present revision (`Fresh`), and it persists what the operation returned.
`Look` is a client that loads the ledger again. `Refresh` distributes a companion, and
`Receive` delivers any companion ever distributed, so companions come late, twice, out of
order or not at all.

A scenario gives the documents, the changes the application may compose besides the
suggested ones, the facts between which the world may switch at any refresh, and the
number of events of each type. The ledger's own limits, `DocumentLimit` and `EventLimit`,
are reached too.

Abstractions: a text and its hash are one value; quotes, titles and changed fields are
left out, and what the ingress gate makes of a manifest is the `trust` of each action. The
`change_id` of a suggestion is the record of what the code hashes into it, so two
suggestions collide exactly when the code's do. Kinds of actions are three: those planned
by date and shown in a calendar, those only planned by date, others. One profile; the
answer of its conditions is an input here, and `Conditions` models how it is computed. A fingerprint is the value it is computed from.

### How the release control plane is modelled

A run is `runReleaseSetup` in one of its four modes, with the configuration of its own
checkout. `seen` is the snapshot of the round it is in (plan, read-back, final), `todo`
what is left of the plan's mutating items, `wrote` the list `writes` of the code. A read
goes through the resources in the order of `discoverActual`; each may fail, which is
`Unread`. `PlanCheck`, `PlanAudit` and `PlanApply` are the planner and what follows it up
to the next remote call; `CreateEnvironment` to `AddPublisher` are the branches of
`applyMutations`, `ReadBack`, `Approve` and `Open` are `maybePersistApprovedAndSetReady`,
`Final` is the last read-back. The write of an environment is three calls, the fresh read
that decides (`UpdateEnvironment`), the PUT and the POST of the branch, and a run may stop
between them. `Maintainer` is anybody who changes settings by hand; `Die` is a call that
fails or a process that ends.

Three variables are history: `calm`, the runs whose round nobody else has disturbed;
`promise`, what a run must come to in the state it started in; `audited`, the
configurations a live read found in order or a maintainer approved.

Abstractions: a configuration stands for release.yml, the sections of the fingerprint and
the attestation file, and does not change during a run; the environment is five facts
about it, the rulesets with the managed name one of five kinds, a trust list the sequence
of its entries, ours or not. One resource is read, and one ruleset or variable written, in
one step, although the clients use two or three requests for it. The repository identity
is not read separately. npm never reports package security in a form the code accepts, so
only an attestation satisfies it.

### How the pipeline is modelled

Everything from `Documents` to `Bridges` is a function of its input, translated operator
by operator: `Checks` and `Codes` are `verifyAction`, `Judged` the second half of
`verifyManifest`, `TrustReason` is `evaluateActionTrust`, `CarriedByV01` and `CarriedByV02`
are the refusals of the two bridges in one conjunction each, `ReadSentence` is the body of
the loop of `extractDeterministically`. Its array of actions is a function whose keys are
the numbers of the sentences that made them: the code only appends, so the order is the
same, and an action is known by its sentence. What may go wrong comes from their use:
`ManifestUse` lets the user edit the source, decide about an action, alter or copy one by
hand, verify again, filter by an export, and hand the file to each command in any order. A
command is one step, because it reads its inputs once and writes its output at the end;
one that refuses its input changes nothing. `judged` and `sent` are history: what the last
verification of this file saw, and what the last command put out for which input.

The text of a document is a sequence of sentences, and the table `Cues` says what the
regular expressions of `temporal` and of the extractor find in each of them: the times it
mentions, whether it corrects, cancels, negates or exempts, its kind, object and actor.
How those findings are combined (the year of a document, the primary date, the target of a
correction, what survives of an older action) is modelled, the expressions themselves are
not. `Hints` is the same table for the keywords of the document query. A hash is the text
it is computed from. Pages count only where the code checks them. `EvidenceUse` gives the
freshness check one step for each source and each pin, because
`checkEvidenceFreshnessAsync` yields there; `held` remembers the shelf at each of them.

### How publishing is modelled

A job is a record with a phase: `refs` (the gates of `release.yml` or of
`publish-ready`), `runs` (`select-release-gates.mjs`), `artifact` (download and
validation), `staging` or `reading`. Each step of a job is one action, so that merges, tags,
other checks, another job, an approval or a moved dist-tag fall between any two of them.
Staging takes one package at a time, in the order the artifact carries; verification asks
one question at a time (`exact`, `tags`, `root`, each up to `Retries` times), then compares
the tarball. `Stop` is a step that fails, a timeout or a cancellation; in `StageNext` the
answer of npm may be lost after the package was taken. `Download` may deliver a damaged
artifact: without identity, with a missing tarball, with a wrong sum. `CatchUp` lets each
kind of answer of the registry lag behind on its own. `Published` makes the first version
of a package its `latest` too, as npm does. `quiet` is history: whether everything was in
place when the job began and nothing has disturbed it since.

External, and assumptions: a tarball is known by its package and its commit and its hash
is the tarball itself, because one pinned toolchain packs a commit to the same bytes
(`release-reproducibility.ts` checks this); tags are protected, so they are never moved;
main only grows; a pull request's artifact is named after the merge commit; npm accepts a
version once. `ScenariosAreStates` requires that what is published at the start of a
scenario came there by these steps.

## Runs

A scenario gives the number of calls of each kind and of faults, crashes, edits, losses
and ticks; a run explores the union of its scenarios with two callers, two actions on one
shared destination and a commit window of two ticks within a plan life of three. One
destination is the interesting case: both actions then move the same revision. Two callers
are enough for every race on one row, as each caller's copy only competes with the row
itself; three steps of interference come from the scenario's further calls. Two workflows
are needed for shared idempotency keys. Deadlock checking is off: when the scenario is
used up and every call has returned, the system rightly stops.

| Run | Shows |
|---|---|
| `workflow` | all safety properties and the refinement of `ConfirmedCreation`, over seven scenarios: `Race` (two executes, cancel, verify; journal retries run out after two), `Renewal` (two requests and confirms, cancel, two ticks), `Retry` (two executes, a failed call, a crash), `Reconcile` (renewal, verify, a failed call), `Change` and `ChangeTwice` (edits, a deleted record), `Replan` (two plans sharing an action) |
| `filestore` | three callers, four calls, two failures of any kind: writers are alone, no lock is left without a failure, the database is never torn, `AtomicStore` is implemented |
| `reports` | under fairness, with the code's eight retries: the final report names every record, and every call returns |
| `ledger` | `Chain` (corrections of corrections, and one in a circle), `Cancel` (a correction, a cancellation by a notice without actions, one by the corrected notice), `Suggest` (suggested, ambiguous and stale links among three notices, a notice whose text changed, one that is not trusted), `Sync` and `Flicker` (refreshes while facts change, acknowledgements, a device), `Race` (two clients) |
| `release` | `Converge` and `Rerun` (everything that can be missing; a run that dies anywhere, another after or during it), `Settled` (everything is in place), `Stops` (all that stops a plan, in every mode), `Drift` and `Failing` (a change by hand, two failing reads), `Agents` (agent checks of other checkouts during an audit or an apply) |
| `consumption` | `Reading` (every text of up to three of twelve sentences through the rule extractor, exported or verified), `Answering` (every text of up to two through agent and analysis), `Keeping` (a model's replies, a changed source, a decision, another verification, an export), `Altering` (contents changed or copied by hand), `Passing` (both Matoe contracts, with a file of 0.1.0), `Guiding` (guide and batch), `Looking` (six documents, with and without pages and chunks, under search, citations and paged review), `Checking` (pins and shelves that change during a slow check), `Judging` (rules over facts that change and expire) |
| `publish` | `Gated` (every kind of check before a stage), `Twice` (two commits of one version, staged twice with failures and approvals), `Refused` and `NotReady` (what a stage refuses), `Approved` (a verification during the approvals), `Settling` (everything published; tags move, requests fail, another check succeeds), `ByHand` (the bootstrap version published by hand), `Mixed` (published by hand and staged), `Consumed` (the readiness check while main grows) |
| `expired`, `abandoned`, `stuck`, `undo`, `leaky` | the five findings below |

In `ledger` three notices about one subject are the smallest number in which a correction
is itself corrected, a cycle of corrections can be attempted, and a suggestion is
ambiguous; four decisions let one change be applied, undone and applied again after
another one. Two facts are enough, because a refresh only compares a companion with the
one before it.

In `filestore` three callers are a writer, a writer it excludes and a reader; four calls
let a fresh call meet what the others left; two failures are the smallest number with
which a failure hits the cleanup after another one. Callers are interchangeable there, so
the run uses symmetry.

In `release` two packages are enough to stop between two items of one kind, two runs
for every race, and four configurations for one that is approved, another, one whose
release.yml names no environment and one whose fingerprint is outdated. One change by hand
falls between any two steps.

In `consumption` the twelve sentences are one of each kind the extractor tells apart, with
two subjects, so that a correction has none, one or several targets and every order of
three sentences occurs: statement, change, and what meets both. Two actions in a file are
enough for results that are missing, doubled or out of place. Three containers, one of them
blank, give every boundary of a page and of a review window of one or two. Two sources and
two pins let an abort and a change fall before, between and after both.

In `publish` two packages, one needing the other, are the smallest number with an order and
a half-finished stage; two jobs are enough for every overlap, as jobs meet only in what is
staged and in the concurrency group; two commits of one version, two versions (one of them
a prerelease, whose dist-tag differs), one commit packed by another toolchain and one out
of lockstep cover the gates. A question is asked twice, so that a failed answer may be
followed by a good one or be the last. `CHECK_DEADLOCK` is off in both: a scenario is used up.

The properties, with the code they are about, are commented in
`LocalWorkflowProperties`, `AssistanceProperties`, `FileHost`, `ReleaseProperties`,
`ConsumptionProperties` and `PublishProperties`.
`Converges` assumes weak fairness of a run's own steps once it is started, as its awaits
are answered; nobody has to start a run, and a run that fails promises nothing.
`KeepsWhatItFound` and `ReadyIsEarned` speak of undisturbed runs, because neither service
offers a compare-and-swap; what a race has left is reported by the next read-back. `CallsReturn` assumes weak fairness of each caller's own steps:
a promise that is awaited is resolved or rejected by the host, and JavaScript's event loop
runs its continuation. No fairness is assumed of the user, the clock or the application.
`QuietMeansReported` asks for at most one execute and neither crash nor failed call,
because the code does not hide a record only then: `stuck` is the case of two. It also
presupposes that no update of the journal uses up its eight attempts.

## Findings

* `expired`: `applyLocal` wraps every rejection as not retryable
  (`workflow-host.ts:55`), so a confirmation that expires between preflight and commit
  leaves a step no renewal can help, against the comment at `workflow-runtime.ts:115`.
* `abandoned`: a `verify` (every receipt runs one) that reads a running step before its
  commit stores `READBACK_MISMATCH`, not retryable, and turns the workflow partial; the
  commit is refused and later executes skip the step, against `LOCAL-WORKFLOW.md:165`.
* `stuck`: two racing executes can overwrite the verified first step with a stale
  failure, and the second step is then given up; the test `workflow.test.ts:253-257`
  expects a third execute to complete.
* `undo`: `decideAssistanceChange` refuses to undo a change while another applied change
  retires one of its two actions, the old one included (`assistance-ledger.ts:145-146`).
  A correction from A to B and a cancellation of B by a notice that refers to A block
  each other for ever, against `docs/assistance/README.md:26-27`, which promises that the
  descendant can be undone first.
* `leaky`: `audit-live` decides by the prerequisites alone
  (`release-setup.ts:485-491`). A secret named NPM_TOKEN in the environment blocks the
  verdict but is no prerequisite, so an audit that ends BLOCKED has still persisted the
  approved hash, against `docs/RELEASE_TRUSTED_PUBLISHING_SETUP.md:35-37`, which allows
  that write after a fully successful audit only.

Observed with the same model and not kept as runs: a second execute can replace
`verified` by its own stale failure (`workflow-runtime.ts:108` against
`LOCAL-WORKFLOW.md:39`), after which `cancel` reports the existing record as cancelled
(`workflow-runtime.ts:100` against the comment at line 95); a lock that is busy while a
step is marked running makes the step unretryable (`workflow-runtime.ts:164` against the
error text at `workflow-host.ts:121`); a `verify` that would complete a workflow whose
renewed challenge is not yet confirmed is refused (`workflow-runtime.ts:184` against
`LOCAL-WORKFLOW.md:166-168`), and one that finds it incomplete sets it partial, which
voids the challenge; a destination without records can be removed and added again in
another scope (`workflow-host.ts:68` against `LOCAL-WORKFLOW.md:97-98`). In the ledger,
the id of a suggestion with several candidates is computed without them
(`assistance-ledger.ts:165-166`), so after one more notice about the subject the new
suggestion is refused as `CHANGE_ID_COLLISION`; and a change proposed with several
candidates stays ambiguous when all but one have been retired (line 59). In the release
control plane, an environment without the branch main that lists a forbidden secret is
updated, approved and opened by one apply, since the planner looks at secrets only when
the branches match (`release-setup-plan.ts:857`); the final read-back then reports
BLOCKED.

A lock left behind by a failing `rm` of the temporary file (`workflow-host.ts:139`) is
in the model of the file store and outside `LockReleased`, which speaks of runs without
failures.

Met while the pipeline was modelled, and shown by no run:

* `verifyManifest` writes the fields of a 0.2.0 receipt into a 0.1.0 manifest
  (`verify.ts:312-351`), which `validateActionManifest` then refuses.
* Ids decide: `trust.ts:123` takes the first result with the id of an action, the report the
  last one (`summary.ts:16-20`), and promotion goes by position (`verify.ts:332`). A model
  may reply the same id twice, or the default id of another action, with status `verified`
  (`extractor.ts:92-93`); the failing twin is then ready. `ReadyWasChecked` asks that the
  manifest that was verified had unique ids, as the bridges and the agent check: that the
  filtered file has is not enough, because an export drops the rejected one of two twins
  and leaves the failing one with the result of the other. Its proof needed this; TLC
  shows it with the reply `Twins`.
* An action added by hand has no result and is judged by the aggregate
  (`trust.ts:123-139`); the receipt has no digest of the actions. `ensureSourceHash` keeps a
  hash that no longer fits the text (`hash.ts:26`), and a source need not have one.
* The calendar exports `end` when `date` is absent (`ics.ts:82-84`), although the verifier
  compares only `date` with the evidence (`semantics.ts:21-39`).
* A correction without verb and object and with more than one date is skipped as narrative
  (`deterministic.ts:383`) before the rule at lines 398-402, by which an ambiguous
  correction takes its targets away; the old exact date stays ready. A negation attaches to
  the last matching action only (339-340): "hand in the form", "the trip needs the form",
  "the form is not needed", "the trip is cancelled" leaves the first requirement ready,
  since the negation went to the trip, which is then removed. An attempt to prove
  `ReadyIsCurrent` for longer texts found this, and it now speaks of actions that no other
  sentence may be mistaken for (`Alone`). An exemption goes to the only submission whatever its
  object (301), and "until" ignores a year that precedes it (`parse.ts:162-183`).

Met while publishing was modelled, and shown by no run:

* `bootstrap:check` compares with no canonical hashes, so a package that is published is
  UNKNOWN and the check ends with 2 for good, blaming the network
  (`bootstrap-release.ts:157-175`); its version gate names 0.9.0-rc.0 while the packages are
  at 0.9.0-rc.1.
* An exact 404 next to a root document that answers is INCONSISTENT, never ABSENT
  (`registry-truth.ts`), so a second version of a package is never absent before it is staged.
* The verify job takes the newest full Release Check of the commit, which need not be the
  one that was staged, and does not validate the artifact, which the stage job does
  (`release.yml:160`).
* A stage that fails leaves packages staged without evidence, and the next one begins with
  the first again (`stage-from-artifact.mjs:65-68`).
* On a tag push and on demand the frozen-schema guard compares with origin/main, on main
  itself with nothing new (`governance.ts`).

## Proofs

Every safety property that a run checks is proved. One, `QuietMeansReported`, needs a
hypothesis, which is explained below. The theorems about the workflow hold for every value of the constants that
satisfies `HostConstants`, `DistinctSelections` and `CallConstants`. `DistinctSelections` is
what `planLocalWorkflow` checks (a selection repeats no action on a destination).

| Theorem | Says |
|---|---|
| `Types` | every variable keeps its type |
| `TypesHold` | together with `PlanOK` and `CallOK`: a call in a loop is on a step its plan has |
| `JournalHolds` | every stored row is restorable; every copy is the current row or has an older revision |
| `CancellationIsFinal` | `CancelIsFinal` for any number of callers |
| `TokensConfirmOnce` | `ConfirmedAtMostOnce` |
| `RecordsAreConfirmed` | `CreatedWasConfirmed` |
| `VerifiedIsBacked`, `CompletedIsDone` | `VerifiedHasRecord`, `CompletedMeansDone` |
| `NothingIsDoubled`, `ForeignEditsSurvive` | `NoDuplicate`, `NoWriteOverForeignEdit` |
| `DatabaseStaysRestorable` | `DatabaseRestorable` |
| `PromiseIsKept` | `ImplementsPromise`: the workflow implements `ConfirmedCreation` |
| `QuietJournalReports` | `QuietMeansReported`, as long as no update of the journal gives up (`GaveUp`) |
| `Invariance` | the inductive invariant of the file store |
| `FileHostTypes`, `WritersExclude`, `LocksAreReleased`, `NothingTears` | `TypeOK`, `WritersAreAlone`, `LockReleased`, `NeverTorn` |
| `FileHostIsAtomic` | `ImplementsStore`: the file store implements `AtomicStore` |
| `LedgerTypes`, `CompanionsNeverCollide`, `SubjectsAreHeld` | `TypeOK`, `NoCollision`, `SubjectIsHeld` of the assistance ledger |
| `ChainsEnd`, `EveryLedgerRefreshes` | `CorrectionsEnd`, `CanRefresh` |
| `ReadyIsNotRetired`, `ChangesAreAppliedAsShown` | `ReadyIsHeldFirst`, `AppliedAsShown` |
| `EveryLedgerRestores` | `Restorable`: the replay of any history is accepted and gives the ledger |
| `HistoryIsAGraph` | `ImplementsRevisions`: the ledger implements `RevisionGraph` |
| `Invariance`, `SteadyInvariance` (of `ReleaseProofs`) | the inductive invariants of the release control plane |
| `OnlyAuditedPasses`, `ReadyIsAlwaysEarned` | `PassIsAudited`, `ReadyIsEarned` |
| `RunsWriteOnce`, `SecondApplyChangesNothing`, `NothingIsTakenAway` | `TypeOK` (a run deals with no resource twice), `SecondApplyIsQuiet`, `KeepsWhatItFound` |
| `ReadyIsChecked` | `ReadyWasChecked`: what is ready was verified as it is |
| `ReadyStaysCurrent` | `ReadyIsCurrent`: what the rule extractor makes ready is up to date with its whole text |
| `AnswersStayBacked` | `AnswersAreBacked`, the part of `BridgesKeepTrust` about agent, analysis, guide and batch |
| `BridgesStayTrusted` | `BridgesKeepTrust`: all of it, for both Matoe contracts and the batch too |
| `CitationsStayTrue` | `CitationsHold`: kept citations, and the windows of a family review |
| `VerdictsStand` | `VerdictStands`: verdicts on conditions |
| `EvidenceStaysCurrent` | `EvidenceIsCurrent`: the freshness check |
| `Invariance` (of `PublishProofs`) | the inductive invariant of publishing |
| `OnlyCanonicalIsStaged`, `VerdictsAreTrue` | `StagedIsCanonical`, `VerdictIsTrue` |

The theorems about publishing hold for any number of packages, commits, versions, jobs,
failures and scenarios, under `NoneIsNothing`, `OrderIsTopological` and
`ScenariosAreStates`. `IInv` is the argument. `Underway` says what a job has
made sure of by the time it enters a phase (a stage that has passed its gates is for a
commit that is on main, in lockstep and named by its tag; one that holds an artifact is for
a commit whose full Release Check succeeded), and `Staging` that it stages that commit's own
tarballs in the publish order and has staged what it has come past; so the dependencies of
the next package are there. None of it is taken back, because main, the tags, the checks and
what is staged only grow (`RepoGrows`, `KnowsGrows`). For the verdict, `Comparing` says that
a verification compares with the hashes of its commit, and that what it has found good so
far is published with these bytes, which stays true because a published version is never
replaced; `Undisturbed`, that as long as nothing disturbs a complete publication every
answer so far was the good one. A publication or a moved tag ends what is undisturbed, and
the answers of a registry that shows everything cannot change by catching up. TLC checked
`IInv` on the instance of `publish` before it was proved.

The theorems about releases hold for any number of packages, machines, failures and
changes by hand, under `ReleaseConstants` and `ScenariosAreBounds`. Neither property is
inductive. `Faithful` says that what an undisturbed run has read so far is unread or still
so, for the resources before its place in the order; at the end of the order this covers
every resource (`OrderCovers`), and what passes was read, so prerequisites that hold of
the snapshot hold of the control plane (`FoundIsThere`). A write makes every other run
uncalm, so only its own claims have to be carried over. `Vouched` says that an approved
hash, wherever it has been read, was audited.

`SteadyInv` adds what a run still has to do. By `Tidy` nothing pending has been written
before, so no resource is dealt with twice and READY comes last. By `Grounded` what is
pending is, while nobody interferes, as the plan has found it; hence a write only fills
what is missing, and `KeepsWhatItFound` follows. `Orderly` is the second apply: a run that
starts with everything in place stays in the round it is in, reads only what is there and
is READY, so it has nothing to write. The constants need a roster that is not empty and
values that cannot be mistaken for one another (`ReleaseConstants`). TLC checked `SteadyInv`
on `release` before it was proved.

Those of the file store hold for any number of callers, calls, failures and power losses.
The invariant `Inv` says that one writer is past the lock, that every file in `window` is
a prefix of the database and no shorter than the durable one, and what a call knows at
each step: the database it read is the current one until its rename, because nobody else
is past the lock and readers change nothing. The refinement maps a call to `pending`
before its rename and to `applied` after it, and the longest prefix no power loss can
take back to `safe`; every step before the rename is then a stutter, the rename is
`Apply`, the fsync of the directory `Harden`, and an answer needs `safe` to have reached
the caller's own transaction.

None of the invariants of the workflow is inductive as it stands. The argument is `LocalWorkflowInvariant`, read
from top to bottom. `PlanOK` and `CallOK` make the types inductive: a step number is in
the plan's range because the loops only take the plan's steps. `CopiesOK` is the heart: a
copy with the row's revision *is* the row, since every write advances the revision. A
compare-and-swap that succeeds therefore writes a change of the current row, and what the
caller checked on its copy (`StatusOK`) is still true. Cancellation is final because every
method that stores anything else has checked, on that copy, that it is not cancelled, and
`applyLocal` checks the row itself. `FreshTokens` and `StoredTokens` say that a generated
token is nowhere else until its row is stored and then belongs to one workflow, whose
challenge, confirmation and authorization agree; hence one confirmation per token, and
records only under what was shown. TLC checked every part of `IInv` on the instances of
`workflow` before it was proved.

The remaining conjuncts are about what was committed. `ResultsOK`: a step result, in a row
or in a caller's locals, names no revision but that of a record its step committed; so a
verified step has one, and a completed workflow has one for each step. `CreatedOK` and
`RecordsOK`: each commit was of a planned step of a stored workflow under its own key, the
records are commits in live destinations with one record for a key, and nothing is lost
unless the user deleted it; since `applyLocal` refuses a key it has, nothing is doubled,
and the database passes its own validation when it is read again. `ExpectedOK`: the
revision a commit insists on is that of the plan or one this workflow has left, so nothing
is written over an edit the plan has not seen. For the refinement, the abstract `granted`
and `withdrawn` are read off the journal: the same commits, and no step of the workflow
creates a record that `ConfirmedCreation` would not.

The last section of the module is about what a quiet journal says. `QuietJournalReports` has
the hypothesis `[][~GaveUp]_vars`: no call loses as many races for a row as it has attempts.
The code needs it: `updateResult` throws after its last attempt
(`workflow-runtime.ts:103-113`), and a record whose report was lost that way stays hidden
until a reconciliation finds it: with two attempts and no hypothesis TLC finds the property
violated. `CasAttempts` is any number, so the theorem says what the run `reports` rests on,
where eight attempts are more than the other calls can use up. The invariant is `Reporting`.
With one execute and neither crash nor failed call, one call executes (`OneExecutes`) and
what it has committed lies behind the step its loop is on (`BehindLoop`). A record is then
in the journal, or carried to it by that call (`CarriesRecord`, `ReportedOrAwaited`). What
could still take a report back is `verify`, which reads the destinations before it writes
the journal: a "verified" that it withdraws with a successful compare-and-swap has no
record, since the row has not changed since it was read and whoever commits reports after
committing (`ReadStands`). TLC checked `Reporting` before it was proved.

Those of the ledger hold for any notices, changes, clients and lengths of history, under
`LedgerConstants`, `CompanionConstants` (the projection's answers are answers) and
`ScenarioConstants`. `LedgerOK` says three things. `Identities`: sources, actions of a
notice and proposals have unique ids. `Links`: a change links known actions of two
notices, and a decision is about a known change. `Order`: changes in force retire
different actions, and a correction that ends where another one begins was decided before
it. The last one is what a test would hardly find, and the whole argument about chains:
at the moment a correction is applied the action it ends in is active, so whatever retires
that action is decided later; following corrections goes forward in time, moments are
numbers, and in every set of superseded actions one is not replaced by another of the set
(`ChainsEnd`): no cycle can be built in any number of steps, undo included. A second
invariant, `SentOK`, is about the companions: the revision is the number of events, and a
refresh with another content adds one; so a companion of the present revision is the one
refreshed last, and two of one revision are equal (`NoCollision`). The third, `Traced`, is
about replay: `restoreAssistanceState` has a run over the history that ends in the ledger,
and each registered notice in it is one the ledger holds. The replay looks notices up in
the *final* ledger, so a step has to show that what a run has replayed so far comes out
the same when more notices are known (`SameReplay`), and that the event it adds is one the
replay accepts with the same effect (`Recorded`); runs are unique (`OneRun`), so the fold
of the code is that run. Each step of the ledger is a step or a stutter
of `RevisionGraph`. TLC checked `Inv` on `ledger` before it was
proved.

Those of the pipeline hold for any texts, replies, manifests, documents, rules, facts and
shelves that satisfy `TextsAreGiven`, `MentionsAreGiven`, `FactsAreGiven`, `RulesAreGiven`,
`ShelvesAreGiven`, `DocumentsAreGiven` and `LimitsAreGiven` (the sequences are finite and
made of sentences in the table, a rule's parts come after it, a limit is at least 1, as
`document-query.ts:189` and `216` demand). What the language rules read in a sentence stays
an arbitrary table. `BridgesStayTrusted` and `CitationsStayTrue` say in addition that
`None` is neither a number nor a record of a receipt (`NoneIsNothing`). This is a hypothesis
of theirs and not an `ASSUME`, since TLC cannot evaluate the domain of a model value.
*Trust.* `FileOK`: unless somebody altered the file since, it descends from the last
verification. That is, its receipt is the one the verifier wrote, or none; each of its
actions has the contents of one that was verified; and its source is that manifest's.
Verifying, exporting and reviewing keep this, since an export only selects and a review
changes a status alone. An action that is ready in such a file has the id of exactly one
verified action, is judged by that action's result (`ReadyHasPassed`), and what has passed
is backed by the text (`PassedIsBacked`). The same two lemmas give `AnswersStayBacked`,
because agent, analysis, guide and batch start from a fresh verification whatever receipt
came in.
*Extraction.* `Sound` follows the loop over the sentences with a witness: for each action,
the set of sentences it was made of. `Made` says what they have to do with it (its evidence
quotes them, what it names is said in them), `Stands` that no sentence read since
contradicts it, and the sets of different actions are disjoint. Each kind of sentence keeps
this (`RainStep`, `ExemptionStep`, `NegationStep`, `StatementStep`): the hard cases are a
correction, which takes over the sentences of its only target and drops all targets if
there are several, and a negation, which reaches only the last action of its name; for any
other action of that name, the sentences of the last one are what `Alone` excludes. At the
end nothing that was called off is left, and `PassedIsUpToDate` adds what the verifier
refuses: a negation that is quoted without an exemption.
*Bridges.* `BridgeOK` is one lemma for each contract. Deleting the additions of 0.2.0 keeps
every disposition because the old contract was unanimous before (`SameDispositions`);
what the agent's extraction yields meets every refusal of the contract of 0.2
(`ExtractedIsCarried`, over counts, unique ids and each flag of the receipt); and the batch
finds two texts of one source exactly if there are two (`ConflictsAreTold`).
*Citations.* `LookupOK`: whatever is in an index, an answer, its context or an annotation
was taken from one document at one place (`Taken`), and rebuilding that place from a
document with the same snapshot finds it again (`TakenIsConfirmed`). `Paged`: what a review
has shown is the first part of all it asks for, and its `next` is the length of that part,
or empty at the end; a window continues exactly there (`WindowIs`), whatever the limit.
*Conditions.* `VerdictOK` ties a verdict to the facts of its moment. No fact expires
before the end of its validity, so the evaluation is the same until then; and the
three-valued evaluation is monotone: `MoreIsKnown` goes down the tree of the rule by its
last wrong node and shows that what is decided with less known stays decided.
*Freshness.* `CheckOK` follows a check from yield to yield. `Found`: each source it knows
was on the shelf at a moment of this check. `Undisturbed`: if nobody changed the shelf,
it knows what reading it in order gives, which is one source for an id just if no other
source has it (`KnownIs`).

Recursive functions are part of many of these proofs (the rule tree, the sources read so
far, the kept elements of a sequence, flattened parts, the sentences read, the events
replayed). The prover cannot take a definition for granted there, so `RunExists`,
`KnownExists`, `KeptExists`, `FlatExists`, `ReadExists` and their like first prove by a least
counterexample that the recursion has a solution, and what holds of all of it is proved by
another one.

Only model-checked is liveness, `CallsReturn` and `Converges`: fairness and ENABLED are
outside the prover.

## Not modelled

The byte limits of the database and the shape checks of parsed JSON; hashing; the text of
results, folding and escaping of the exports, scores of a search. The regular expressions of
the temporal parser and the extractor are represented by what they find in a sentence
(`Cues`, `Hints`), because a text is not put together character by character; the sections
of a document are left out. Docling and xberg documents, workflow insights, the schema and
generated contracts keep no state and decide nothing. The package checks (`pack-check`,
`sbom-validate`, `governance`, `docs-check`, conformance, benchmark, fixtures) are batch
programs over a build; that one commit packs to one tarball is assumed where they check it.
The content of a tarball, the SBOM, logins and the OIDC exchange of publishing are outside.

Each has a row in `PROJECT.json` with its reason. Four hazards are known without a property
and are described under Findings: the busy store that makes a step unretryable, the `verify`
that voids a renewed challenge, ids that a model's reply repeats, and the correction that is
skipped as narrative.

## Plan

1. *Done*: local workflow, its properties, scenarios, type and journal and token proofs.
2. *Done*: `FileHost` refining `AtomicStore`, with its proofs.
3. *Done*: the remaining safety proofs of the workflow, and its refinement of
   `ConfirmedCreation`.
4. *Done*: the assistance ledger, its companion and their use, with the proofs and the
   refinement of `RevisionGraph`.
5. *Done*: `Conditions` against every completion of what is unknown, and their horizon.
6. *Done*: the release control plane, with its proofs.
7. *Done*: the pipeline from a text to what other programs are given, and the evidence,
   with proofs of trust, extraction, bridges, citations, conditions and freshness.
8. *Done*: publishing, with its proofs.
9. To connect: the companion of the ledger with `Trust` (the trust of each action is an
   input there) and with `Conditions`, and the workflow with the companion.
