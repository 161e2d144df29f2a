----------------------- MODULE LocalWorkflowInvariant -----------------------
(* The inductive strengthening of the safety properties of LocalWorkflow.    *)
EXTENDS LocalWorkflowProperties

\* Calls that hold a copy of the journal row they read.
Holding ==
  {"r_ctx", "r_cas", "k_ctx", "k_cas", "x_cas", "e_read", "e_ctx", "e_run", "u_cas",
   "e_close", "v_read", "v_cas"}
\* Calls inside a loop over the steps of a plan.
Looping ==
  {"e_load", "e_read", "e_ctx", "e_run", "e_apply", "e_back", "u_load", "u_cas",
   "v_read", "v_cas"}

\* The steps of a plan are selected ones; all of them, unless something is held.
PlanOK ==
  \A w \in Workflows :
    /\ plan[w].steps \subseteq Slots(w)
    /\ ~plan[w].made => plan[w].steps = {}
    /\ plan[w].made /\ ~plan[w].held => plan[w].steps = Slots(w)

\* A call works on a planned workflow, and a loop on one of the plan's steps.
InPlan(c) ==
  /\ c.pc # "idle" => plan[c.wf].made
  /\ c.pc \in Looping => c.slot \in plan[c.wf].steps

CallOK == \A p \in Callers : InPlan(call[p])

\* The journal only holds planned workflows in rows that can be restored.
JournalOK ==
  \A w \in Workflows :
    IF journal[w].status = "absent" THEN journal[w] = NoWorkflow
    ELSE plan[w].made /\ Restorable(w, journal[w])

\* What compare-and-swap relies on: a copy is the current row or an older one.
CopyOK(c) ==
  /\ c.pc \notin {"idle", "c_ctx", "c_cas"} => journal[c.wf].status # "absent"
  /\ c.pc \in Holding =>
       /\ c.snap.status # "absent"
       /\ c.snap.rev <= journal[c.wf].rev
       /\ c.snap.rev = journal[c.wf].rev => c.snap = journal[c.wf]

\* What a method knows of its copy when it stores.
StatusKnown(c) ==
  /\ c.pc \in {"r_ctx", "r_cas", "x_cas", "e_ctx", "e_run", "e_close"} =>
       c.snap.status # "cancelled"
  /\ c.pc \in {"k_ctx", "k_cas"} =>
       /\ c.snap.status = "awaiting_confirmation"
       /\ c.snap.auth.token # 0 /\ ~c.snap.auth.consumed
       /\ \E shown \in challenges : shown.tok = c.snap.auth.token

CopiesOK == \A p \in Callers : CopyOK(call[p])
StatusOK == \A p \in Callers : StatusKnown(call[p])

\* A token generated but not stored yet is nowhere else.
FreshTokens ==
  \A p \in Callers : call[p].pc = "r_cas" =>
    /\ 0 < call[p].tok /\ call[p].tok <= tokens
    /\ \A w \in Workflows : journal[w].auth.token # call[p].tok
    /\ \A q \in Callers \ {p} : call[q].pc = "r_cas" => call[q].tok # call[p].tok
    /\ \A k \in confirmations : k.tok # call[p].tok
    /\ \A shown \in challenges : shown.tok # call[p].tok

\* A token stored belongs to one workflow, and what was shown and confirmed
\* under it is what the journal says.
StoredTokens ==
  /\ \A w \in Workflows :
       /\ journal[w].auth.token <= tokens
       /\ \A v \in Workflows :
            journal[w].auth.token = journal[v].auth.token /\ journal[w].auth.token # 0 => w = v
       /\ \A k \in confirmations :
            journal[w].auth.token = k.tok => k.wf = w /\ journal[w].auth.consumed
       /\ \A shown \in challenges :
            journal[w].auth.token = shown.tok =>
              shown.wf = w /\ shown.steps = journal[w].auth.steps
       /\ journal[w].auth.consumed =>
            /\ \E k \in confirmations : k.tok = journal[w].auth.token /\ k.wf = w
            /\ \E shown \in challenges : shown.tok = journal[w].auth.token
  /\ \A k \in confirmations : 0 < k.tok /\ k.tok <= tokens
  /\ \A shown \in challenges : 0 < shown.tok /\ shown.tok <= tokens

\* A step result names no revision but that of a record its step committed.
Backed(w, s, result) ==
  result.status = "verified" \/ result.rev # 0 =>
    \E c \in CreatedFor(w, s) : c.rec.rev = result.rev

ResultsOK ==
  /\ \A w \in Workflows : \A s \in Slot : Backed(w, s, journal[w].steps[s])
  /\ \A p \in Callers :
       /\ \A s \in Slot : Backed(call[p].wf, s, call[p].snap.steps[s])
       /\ Backed(call[p].wf, call[p].slot, call[p].base)
       /\ Backed(call[p].wf, call[p].slot, call[p].upd)

\* The destination revision a commit will insist on.
ExpectedOK ==
  \A p \in Callers : call[p].pc \in {"e_run", "e_apply"} =>
    LET w == call[p].wf
        d == DestOf[Key(w, call[p].slot)]
    IN \/ call[p].drev = plan[w].revs[d]
       \/ \E c \in created :
            c.rec.wf = w /\ DestOf[c.rec.key] = d /\ c.rec.rev = call[p].drev

\* Whatever was committed was a planned step of a stored workflow, under its key.
CreatedOK ==
  \A c \in created :
    /\ journal[c.rec.wf].status # "absent" /\ c.rec.slot \in plan[c.rec.wf].steps
    /\ c.rec.key = Key(c.rec.wf, c.rec.slot) /\ c.rec.rev > 0

\* Records are committed ones, in live destinations.
RecordsOK ==
  /\ \A r \in records :
       /\ \E c \in created : c.rec = r
       /\ context.dest[DestOf[r.key]].scope # "absent"
       /\ context.dest[DestOf[r.key]].rev >= r.rev
  /\ \A r, q \in records : r.key = q.key => r = q
  /\ Unspent({"loss"}) => \A c \in created : c.rec \in records
  /\ IsFiniteSet(records) /\ Cardinality(records) <= RecordLimit
  /\ Cardinality(Stored) <= WorkflowLimit

IInv ==
  /\ TypeOK /\ PlanOK /\ CallOK /\ JournalOK /\ CopiesOK /\ StatusOK
  /\ FreshTokens /\ StoredTokens /\ ResultsOK /\ ExpectedOK
  /\ CreatedOK /\ RecordsOK
  /\ NoDuplicate /\ CreatedWasConfirmed /\ NoWriteOverForeignEdit /\ ConfirmedAtMostOnce

-----------------------------------------------------------------------------
(* Why a quiet journal reports every record, with one execute at a time.     *)

\* updateResult loses the last race that its retry bound allows.
GaveUp ==
  \E p \in Callers :
    /\ UpdateStore(p)
    /\ call[p].tries + 1 = CasAttempts /\ ~Matches(call[p].wf, call[p].snap)

\* What QuietMeansReported is about.
Calm == Unspent({"crash", "fault"}) /\ spent["Execute"] <= 1

\* Calls inside the loop of execute, and those that may have committed its step.
Executing ==
  {"e_load", "e_read", "e_ctx", "e_run", "e_apply", "e_back", "u_load", "u_cas"}
Recording == {"e_back", "u_load", "u_cas"}

\* The record belongs to the step that the call is on.
On(c, r) == r.wf = c.wf /\ r.slot = c.slot

\* One call executes, and nothing was committed before it began.
OneExecutes ==
  /\ \A p, q \in Callers :
       call[p].pc \in Executing =>
         spent["Execute"] = 1 /\ (call[q].pc \in Executing => q = p)
  /\ spent["Execute"] = 0 => created = {}

\* The steps that have committed are behind the one it is on.
BehindLoop(c) ==
  c.pc \in Executing => \A k \in created :
    /\ k.rec.wf = c.wf
    /\ k.rec.slot < c.slot \/ (c.pc \in Recording /\ k.rec.slot = c.slot)

\* A step with a record is about to be called verified, in a row that can be stored.
CarriesRecord(c) ==
  /\ c.pc \in {"u_load", "u_cas"} =>
       \A r \in records : On(c, r) => c.upd.status = "verified"
  /\ c.pc = "u_cas" => Restorable(c.wf, c.snap)

\* verify takes back "verified" only where there is no record.
ReadStands(c) ==
  c.pc = "v_cas" => \A r \in records :
    On(c, r) /\ c.snap.steps[c.slot].status = "verified" => c.upd.status = "verified"

Faithful(c) == BehindLoop(c) /\ CarriesRecord(c) /\ ReadStands(c)

\* Every record is reported, or the call that committed it is about to do so.
ReportedOrAwaited ==
  \A r \in records :
    \/ journal[r.wf].steps[r.slot].status = "verified"
    \/ \E p \in Callers : call[p].pc \in Recording /\ On(call[p], r)

Accounted == OneExecutes /\ ReportedOrAwaited /\ \A p \in Callers : Faithful(call[p])
Reporting == Calm => Accounted
=============================================================================
