-------------------------- MODULE LocalWorkflowHost --------------------------
(***************************************************************************)
(* The trusted host of the local workflow protocol: one database that      *)
(* holds the assistance context, the workflow journal and the local        *)
(* records, as MemoryLocalWorkflowHost keeps it (workflow-host.ts) and     *)
(* FileLocalWorkflowHost persists it.  Every host call is one atomic step. *)
(*                                                                         *)
(* Data is abstracted to what the protocol compares.  The facts a context  *)
(* fingerprint covers are one value of FactSets, and a selected action is  *)
(* its idempotency key: the hash of action, arguments, destination,        *)
(* profile and scope that localIdempotencyKey computes.                    *)
(***************************************************************************)
EXTENDS Integers, Sequences, FiniteSets

CONSTANTS
  Workflows,         \* identities of plans, hence of workflows
  Keys,              \* semantic idempotency keys
  Destinations,      \* device-local destinations
  DestOf,            \* [Keys -> Destinations]
  Selection,         \* [Workflows -> Seq(Keys)]: what the user selected, in order
  FactSets,          \* values of the context fingerprint
  ReadyUntil,        \* [FactSets -> [Keys -> Nat]]: first instant at which an
                     \* action is not ready_for_use (0 when it never is)
  ReviewOpen,        \* the fact sets that leave review items open
  PlanLife,          \* planLifetimeMs, in clock ticks
  ConfirmationLife,  \* confirmationLifetimeMs, in clock ticks
  WorkflowLimit,     \* 256 in the code
  RecordLimit        \* 16384 in the code

ASSUME HostConstants ==
  /\ Workflows # {} /\ IsFiniteSet(Workflows)
  /\ DestOf \in [Keys -> Destinations]
  /\ Selection \in [Workflows -> Seq(Keys)]
  /\ FactSets # {}
  /\ ReadyUntil \in [FactSets -> [Keys -> Nat]]
  /\ ReviewOpen \subseteq FactSets
  /\ {PlanLife, ConfirmationLife} \subseteq Nat \ {0}
  /\ {WorkflowLimit, RecordLimit} \subseteq Nat

\* planLocalWorkflow refuses a selection that repeats an action and destination.
ASSUME DistinctSelections ==
  \A w \in Workflows : \A s, t \in DOMAIN Selection[w] :
    Selection[w][s] = Selection[w][t] => s = t

VARIABLES
  context,   \* facts, permissions and destination rows
  plan,      \* the immutable plan of each workflow
  journal,   \* the workflow journal, one row per workflow
  records,   \* the local destination records
  clock      \* host.now()

hostVars == <<context, plan, journal, records, clock>>

-----------------------------------------------------------------------------
Slots(w) == DOMAIN Selection[w]
Slot == UNION {Slots(w) : w \in Workflows}
Key(w, s) == Selection[w][s]

NoAuthorization ==
  [token |-> 0, steps |-> {}, issued |-> 0, expires |-> 0, consumed |-> FALSE]

StepStatus == {"pending", "running", "verified", "failed", "uncertain", "cancelled"}
WorkflowStatus ==
  {"absent", "awaiting_confirmation", "ready", "running", "completed", "partial", "cancelled"}

\* Codes a step result may carry.  STALE stands for every code that a check
\* of the plan against the context raises.
ErrorCode ==
  {"none", "CONFIRMATION_EXPIRED", "STALE", "WORKFLOW_CANCELLED", "INPUT_LIMIT",
   "IDEMPOTENCY_CONFLICT", "ALREADY_EXISTS", "READBACK_FAILED", "READBACK_MISMATCH",
   "RECORD_MISSING", "COMMIT_OUTCOME_UNKNOWN", "LOCAL_STORE_BUSY",
   "PRECONDITION_FAILED"}

Pending == [status |-> "pending", rev |-> 0, error |-> "none", retryable |-> TRUE]

StepResult == [status : StepStatus, rev : Nat, error : ErrorCode, retryable : BOOLEAN]
Authorization ==
  [token : Nat, steps : SUBSET Slot, issued : Nat, expires : Nat, consumed : BOOLEAN]
JournalRow ==
  [rev : Nat, status : WorkflowStatus, steps : [Slot -> StepResult], auth : Authorization]
LocalRecord == [key : Keys, wf : Workflows, slot : Slot, rev : Nat]
Permissions == [rev : Nat, grants : SUBSET Destinations]
DestinationRow == [rev : Nat, scope : {"own", "other", "absent"}]
Context ==
  [facts : FactSets, perm : Permissions, dest : [Destinations -> DestinationRow]]
Plan ==
  [made : BOOLEAN, facts : FactSets, perm : Permissions, revs : [Destinations -> Nat],
   steps : SUBSET Slot, held : BOOLEAN, created : Nat, expires : Nat]

NoWorkflow ==
  [rev |-> 0, status |-> "absent", steps |-> [s \in Slot |-> Pending],
   auth |-> NoAuthorization]

HostTypeOK ==
  /\ context \in Context
  /\ plan \in [Workflows -> Plan]
  /\ journal \in [Workflows -> JournalRow]
  /\ records \in SUBSET LocalRecord
  /\ clock \in Nat

-----------------------------------------------------------------------------
(* Planning and the check that a plan is still current.                    *)

\* selectionReasons(...) is empty: the action is ready for use at this
\* instant, its destination exists in the plan's scope and is granted.
Selectable(k, ctx, now) ==
  /\ now < ReadyUntil[ctx.facts][k]
  /\ ctx.dest[DestOf[k]].scope = "own"
  /\ DestOf[k] \in ctx.perm.grants

PlanFor(w, ctx, now) ==
  LET ready == {s \in Slots(w) : Selectable(Key(w, s), ctx, now)}
  IN [made |-> TRUE, facts |-> ctx.facts, perm |-> ctx.perm,
      revs |-> [d \in Destinations |-> ctx.dest[d].rev],
      steps |-> ready,
      held |-> ready # Slots(w) \/ ctx.facts \in ReviewOpen,
      created |-> now, expires |-> now + PlanLife]

\* assertLocalPlanCurrent does not raise.  Destination revisions are not its
\* business: they are compared at commit.
PlanCurrent(w, ctx, now) ==
  /\ plan[w].created <= now /\ now < plan[w].expires
  /\ plan[w].facts = ctx.facts
  /\ plan[w].perm = ctx.perm
  /\ \A s \in plan[w].steps : Selectable(Key(w, s), ctx, now)

-----------------------------------------------------------------------------
(* The journal.                                                            *)

\* Mutant: held selections are forgotten.
StepsComplete(w, row) == \A s \in plan[w].steps : row.steps[s].status = "verified"

IntentComplete(w, row) ==
  /\ \A s \in plan[w].steps : row.steps[s].status = "verified"
  /\ ~plan[w].held

\* restoreLocalWorkflow accepts the row: run on every read and every write.
Restorable(w, row) ==
  /\ \A s \in plan[w].steps : row.steps[s].status = "verified" => row.steps[s].rev > 0
  /\ row.status \in {"ready", "running", "completed"} => row.auth.consumed
  /\ row.status = "completed" => IntentComplete(w, row)

Stored == {w \in Workflows : journal[w].status # "absent"}

\* compareAndSwap(id, null, next) succeeds.
CanInsert(w) == journal[w].status = "absent" /\ Cardinality(Stored) < WorkflowLimit

\* Mutant: last writer wins.
Exists(w, previous) == journal[w].status # "absent"

\* compareAndSwap(id, previous.revision, next) returns true.
Matches(w, previous) == journal[w].status # "absent" /\ journal[w].rev = previous.rev

\* The row compareAndSwap stores.
Advance(previous, next) == [next EXCEPT !.rev = previous.rev + 1]

-----------------------------------------------------------------------------
(* The local commit.                                                       *)

\* Mutant: the key depends on the workflow.
ExistingInWorkflow(w, s) == {r \in records : r.key = Key(w, s) /\ r.wf = w}

\* The record under the step's idempotency key: keys carry no workflow id.
Existing(w, s) == {r \in records : r.key = Key(w, s)}

\* Mutant: any record under the key will do.
SameKey(r, w, s) == r.key = Key(w, s)

\* verifyLocalRecord: the record is the one this step of this workflow made.
OwnRecord(r, w, s) == r.wf = w /\ r.slot = s /\ r.key = Key(w, s)

\* The journal still wants this step done; cancellation wins the race here.
Active(w, s) == journal[w].status = "running" /\ journal[w].steps[s].status = "running"

\* Mutant: expiry is left to the preflight check.
AuthorizedForever(w, s, token) ==
  LET auth == journal[w].auth IN auth.token = token /\ auth.consumed /\ s \in auth.steps

\* The authorization the command names is consumed, covers the step, is alive.
Authorized(w, s, token) ==
  LET auth == journal[w].auth
  IN auth.token = token /\ auth.consumed /\ s \in auth.steps /\ clock < auth.expires

\* Mutant: the destination revision is left to the preflight check.
UndisturbedByPreflight(w, s, expected) == TRUE

Undisturbed(w, s, expected) == context.dest[DestOf[Key(w, s)]].rev = expected

\* What applyLocal answers, in the order of its checks; "commit" is the one
\* answer that writes.
CommitAnswer(w, s, token, expected) ==
  LET old == Existing(w, s)
  IN CASE old # {} ->
            IF \A r \in old : OwnRecord(r, w, s) THEN "existing" ELSE "IDEMPOTENCY_CONFLICT"
       [] old = {} ->
            IF ~Active(w, s) THEN "WORKFLOW_CANCELLED"
            ELSE IF ~Authorized(w, s, token) THEN "CONFIRMATION_EXPIRED"
            ELSE IF ~(PlanCurrent(w, context, clock) /\ Undisturbed(w, s, expected)) THEN "STALE"
            ELSE IF Cardinality(records) >= RecordLimit THEN "INPUT_LIMIT"
            ELSE "commit"

NewRecord(w, s) ==
  [key |-> Key(w, s), wf |-> w, slot |-> s,
   rev |-> context.dest[DestOf[Key(w, s)]].rev + 1]

\* Record and destination revision change in the same transaction.
CommitRecord(w, s) ==
  /\ records' = records \cup {NewRecord(w, s)}
  /\ context' = [context EXCEPT !.dest[DestOf[Key(w, s)]].rev = @ + 1]
  /\ UNCHANGED <<plan, journal, clock>>

-----------------------------------------------------------------------------
(* replaceContext: the application changes facts, permissions or           *)
(* destinations; the host refuses some replacements.                       *)

\* Mutant: records do not hold their destination.
IgnoresRecords(next) == TRUE

\* No destination with records disappears or rolls back.
KeepsRecords(next) ==
  \A r \in records :
    /\ next.dest[DestOf[r.key]].scope # "absent"
    /\ next.dest[DestOf[r.key]].rev >= r.rev

AcceptsContext(next) ==
  /\ next.perm.rev >= context.perm.rev
  /\ next.perm = context.perm \/ next.perm.rev > context.perm.rev
  /\ \A d \in Destinations :
       (context.dest[d].scope # "absent" /\ next.dest[d].scope # "absent") =>
         /\ next.dest[d].rev >= context.dest[d].rev
         /\ next.dest[d].scope = context.dest[d].scope
  /\ KeepsRecords(next)

ReplaceContext(next) ==
  /\ next # context
  /\ AcceptsContext(next)
  /\ context' = next
  /\ UNCHANGED <<plan, journal, records, clock>>

\* MemoryLocalWorkflowHost.restore accepts the database: what every open of
\* the file host, and every later call, depends on.
DatabaseRestorable ==
  /\ \A w \in Stored : Restorable(w, journal[w])
  /\ \A r \in records :
       /\ r.wf \in Stored /\ r.slot \in plan[r.wf].steps
       /\ OwnRecord(r, r.wf, r.slot)
       /\ context.dest[DestOf[r.key]].scope # "absent"
       /\ context.dest[DestOf[r.key]].rev >= r.rev
  /\ \A r, q \in records : r.key = q.key => r = q
  /\ Cardinality(Stored) <= WorkflowLimit /\ Cardinality(records) <= RecordLimit

HostInit ==
  /\ context \in [facts : FactSets, perm : {[rev |-> 1, grants |-> Destinations]},
                  dest : {[d \in Destinations |-> [rev |-> 0, scope |-> "own"]]}]
  /\ plan = [w \in Workflows |->
               [made |-> FALSE, facts |-> context.facts, perm |-> context.perm,
                revs |-> [d \in Destinations |-> 0], steps |-> {}, held |-> FALSE,
                created |-> 0, expires |-> 0]]
  /\ journal = [w \in Workflows |-> NoWorkflow]
  /\ records = {}
  /\ clock = 0
=============================================================================
