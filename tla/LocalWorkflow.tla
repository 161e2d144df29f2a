---------------------------- MODULE LocalWorkflow ----------------------------
(***************************************************************************)
(* LocalWorkflowCoordinator (workflow-runtime.ts): several callers, in one *)
(* process or in many, drive workflows over one host.  A call runs up to   *)
(* its next await in one step, so between any two steps of a call the      *)
(* other callers, the clock and the application may move.                  *)
(*                                                                         *)
(* A call is the locals of one running method.  Locals that the rest of    *)
(* the method no longer reads are reset.  A call whose exception reaches   *)
(* its caller simply ends; so does one whose process crashes.              *)
(***************************************************************************)
EXTENDS LocalWorkflowHost

CONSTANTS
  Callers,      \* concurrent users of the coordinator
  CasAttempts,  \* journal retries in updateResult, 8 in the code
  Scenarios,    \* set of [Kind -> Nat]: bounds on how often events happen
  Edits         \* labels of the changes the application may make

VARIABLES
  call,          \* [Callers -> Call]: the method each caller is inside
  tokens,        \* number of confirmation tokens generated so far
  challenges,    \* history: challenges shown to the user
  confirmations, \* history: confirmations stored in the journal
  created,       \* history: every record ever committed, and under what
  spent          \* how often each kind of event has happened

callVars == <<call, tokens, challenges, confirmations, created, spent>>
vars == <<hostVars, callVars>>

Operation == {"Plan", "Create", "Request", "Confirm", "Cancel", "Execute", "Verify"}
Kind == Operation \cup {"fault", "crash", "edit", "loss", "tick"}
Edit == {"facts", "permission", "destination", "remove", "restore"}

ASSUME CallConstants ==
  /\ CasAttempts \in Nat \ {0}
  /\ Scenarios \subseteq [Kind -> Nat]
  /\ Edits \subseteq Edit

Step == {"idle", "c_ctx", "c_cas", "r_ctx", "r_cas", "k_ctx", "k_cas", "x_cas",
         "e_load", "e_read", "e_ctx", "e_run", "e_apply", "e_back", "u_load", "u_cas",
         "e_final", "e_close", "v_load", "v_read", "v_cas"}

\* Which handler of execute an exception in updateResult reaches: "plain" none,
\* "inner" the catch around applyLocal, "catch" and "outer" the one around
\* the whole attempt, from the first handler and from itself.
Level == {"plain", "inner", "catch", "outer"}

Call ==
  [pc : Step, wf : Workflows, snap : JournalRow, slot : Nat, base : StepResult,
   upd : StepResult, now : Nat, tok : Nat, drev : Nat, tries : Nat,
   level : Level, last : BOOLEAN]

NoCall ==
  [pc |-> "idle", wf |-> CHOOSE w \in Workflows : TRUE, snap |-> NoWorkflow, slot |-> 0,
   base |-> Pending, upd |-> Pending, now |-> 0, tok |-> 0, drev |-> 0, tries |-> 0,
   level |-> "plain", last |-> FALSE]

Challenge == [tok : Nat, wf : Workflows, steps : SUBSET Slot]
Confirmation == [tok : Nat, wf : Workflows, rev : Nat]
Creation == [rec : LocalRecord, tok : Nat]

TypeOK ==
  /\ HostTypeOK
  /\ call \in [Callers -> Call]
  /\ tokens \in Nat
  /\ challenges \in SUBSET Challenge
  /\ confirmations \in SUBSET Confirmation
  /\ created \in SUBSET Creation
  /\ spent \in [Kind -> Nat]

-----------------------------------------------------------------------------
\* One more event of kind k, as far as one of the scenarios allows.
Spend(k) ==
  /\ spent' = [spent EXCEPT ![k] = @ + 1]
  /\ \E allowed \in Scenarios : \A j \in Kind : spent'[j] <= allowed[j]

Begin(p, op, w) == call[p].pc = "idle" /\ plan[w].made /\ Spend(op)
At(p, pc) == call[p].pc = pc
Become(p, c) == call' = [call EXCEPT ![p] = c]
Return(p) == Become(p, NoCall)

\* The locals a call keeps across most awaits: its workflow and its step.
Fresh(p, pc, w) == [NoCall EXCEPT !.pc = pc, !.wf = w]

\* A step that moves only the call, and one that also writes the journal.
LocalStep == UNCHANGED <<hostVars, tokens, challenges, confirmations, created>>
JournalStep ==
  UNCHANGED <<context, plan, records, clock, tokens, challenges, confirmations, created>>

\* Mutant: the loop does not advance.
StepAgain(steps, s) == {t \in steps : t >= s /\ \A u \in steps : u >= s => t <= u}

\* The step a loop over steps takes after s; none when s was the last.
StepAfter(steps, s) == {t \in steps : t > s /\ \A u \in steps : u > s => t <= u}

\* save: restoreLocalWorkflow of the next row, then compareAndSwap.  A write
\* of the host may fail before its effect ("busy": LOCAL_STORE_BUSY; "error":
\* any other exception) or after it (directory fsync, lock removal).
Save(w, previous, next, outcome) ==
  \/ /\ outcome = "ok"
     /\ Restorable(w, next) /\ Matches(w, previous)
     /\ journal' = [journal EXCEPT ![w] = Advance(previous, next)]
     /\ UNCHANGED spent
  \/ /\ outcome = "conflict"
     /\ Restorable(w, next) /\ ~Matches(w, previous)
     /\ UNCHANGED <<journal, spent>>
  \/ /\ outcome = "error"
     /\ ~Restorable(w, next)
     /\ UNCHANGED <<journal, spent>>
  \/ /\ outcome \in {"busy", "error"}
     /\ Restorable(w, next) /\ Spend("fault")
     /\ UNCHANGED journal
  \/ /\ outcome = "error"
     /\ Restorable(w, next) /\ Matches(w, previous) /\ Spend("fault")
     /\ journal' = [journal EXCEPT ![w] = Advance(previous, next)]

Outcome == {"ok", "conflict", "busy", "error"}
CodeOf(outcome) == IF outcome = "busy" THEN "LOCAL_STORE_BUSY" ELSE "PRECONDITION_FAILED"

-----------------------------------------------------------------------------
(* planLocalWorkflow and create.                                           *)

PreparePlan(w) ==
  /\ ~plan[w].made
  /\ Spend("Plan")
  /\ plan' = [plan EXCEPT ![w] = PlanFor(w, context, clock)]
  /\ UNCHANGED <<context, journal, records, clock>>
  /\ UNCHANGED <<call, tokens, challenges, confirmations, created>>

CreateStart(p, w) ==
  /\ Begin(p, "Create", w)
  /\ plan[w].steps # {}
  /\ Become(p, Fresh(p, "c_ctx", w))
  /\ LocalStep

CreateCheck(p) ==
  LET w == call[p].wf
      used == {DestOf[Key(w, s)] : s \in plan[w].steps}
  IN /\ At(p, "c_ctx")
     /\ IF /\ PlanCurrent(w, context, clock)
           /\ \A d \in used : context.dest[d].rev = plan[w].revs[d]
        THEN Become(p, Fresh(p, "c_cas", w))
        ELSE Return(p)
     /\ LocalStep /\ UNCHANGED spent

CreateStore(p) ==
  LET w == call[p].wf
  IN /\ At(p, "c_cas")
     /\ journal' = IF CanInsert(w)
                   THEN [journal EXCEPT ![w].status = "awaiting_confirmation"]
                   ELSE journal
     /\ Return(p)
     /\ JournalStep /\ UNCHANGED spent

-----------------------------------------------------------------------------
(* requestConfirmation, confirm, cancel.                                   *)

Remaining(w, row) ==
  {s \in plan[w].steps : row.steps[s].status \notin {"verified", "cancelled"}}

RequestStart(p, w) ==
  /\ Begin(p, "Request", w)
  /\ journal[w].status \notin {"absent", "cancelled", "completed", "running"}
  /\ Become(p, [Fresh(p, "r_ctx", w) EXCEPT !.snap = journal[w]])
  /\ LocalStep

RequestCheck(p) ==
  LET c == call[p]
  IN /\ At(p, "r_ctx")
     /\ IF PlanCurrent(c.wf, context, clock) /\ Remaining(c.wf, c.snap) # {}
        THEN /\ tokens' = tokens + 1
             /\ Become(p, [c EXCEPT !.pc = "r_cas", !.now = clock, !.tok = tokens + 1])
        ELSE Return(p) /\ UNCHANGED tokens
     /\ UNCHANGED <<hostVars, challenges, confirmations, created, spent>>

\* Mutant: the new authorization inherits the old consumption.
RequestedConsumed(c) ==
  [c.snap EXCEPT
    !.status = "awaiting_confirmation",
    !.auth = [token |-> c.tok, steps |-> Remaining(c.wf, c.snap), issued |-> c.now,
              expires |-> plan[c.wf].expires, consumed |-> c.snap.auth.consumed]]

Requested(c) ==
  [c.snap EXCEPT
    !.status = "awaiting_confirmation",
    !.auth = [token |-> c.tok, steps |-> Remaining(c.wf, c.snap), issued |-> c.now,
              expires |-> IF c.now + ConfirmationLife < plan[c.wf].expires
                          THEN c.now + ConfirmationLife ELSE plan[c.wf].expires,
              consumed |-> FALSE]]

\* The challenge reaches the user only when save succeeded.
RequestStore(p) ==
  LET c == call[p]
      shown == [tok |-> c.tok, wf |-> c.wf, steps |-> Requested(c).auth.steps]
  IN /\ At(p, "r_cas")
     /\ \E out \in Outcome :
          /\ Save(c.wf, c.snap, Requested(c), out)
          /\ challenges' = IF out = "ok" THEN challenges \cup {shown} ELSE challenges
     /\ Return(p)
     /\ UNCHANGED <<context, plan, records, clock, tokens, confirmations, created>>

\* now is captured between the load and the context read.
ConfirmStart(p, w, tok) ==
  LET auth == journal[w].auth
  IN /\ Begin(p, "Confirm", w)
     /\ journal[w].status = "awaiting_confirmation" /\ auth.token # 0 /\ ~auth.consumed
     /\ tok = auth.token
     /\ auth.issued <= clock /\ clock < auth.expires
     /\ Become(p, [Fresh(p, "k_ctx", w) EXCEPT !.snap = journal[w], !.now = clock])
     /\ LocalStep

ConfirmCheck(p) ==
  LET c == call[p]
  IN /\ At(p, "k_ctx")
     /\ IF PlanCurrent(c.wf, context, c.now)
        THEN Become(p, [c EXCEPT !.pc = "k_cas", !.now = 0])
        ELSE Return(p)
     /\ LocalStep /\ UNCHANGED spent

Confirmed(row) == [row EXCEPT !.status = "ready", !.auth.consumed = TRUE]

ConfirmStore(p) ==
  LET c == call[p]
      stored == [tok |-> c.snap.auth.token, wf |-> c.wf, rev |-> c.snap.rev + 1]
  IN /\ At(p, "k_cas")
     /\ \E out \in Outcome : Save(c.wf, c.snap, Confirmed(c.snap), out)
     /\ confirmations' = IF journal' # journal THEN confirmations \cup {stored}
                                               ELSE confirmations
     /\ Return(p)
     /\ UNCHANGED <<context, plan, records, clock, tokens, challenges, created>>

CancelStart(p, w) ==
  /\ Begin(p, "Cancel", w)
  /\ journal[w].status \notin {"absent", "cancelled", "completed"}
  /\ Become(p, [Fresh(p, "x_cas", w) EXCEPT !.snap = journal[w]])
  /\ LocalStep

Cancelled(w, row) ==
  LET kept == {"verified", "running", "uncertain"}
  IN [row EXCEPT
       !.status = "cancelled",
       !.steps = [s \in Slot |->
         IF s \notin plan[w].steps \/ row.steps[s].status \in kept
         THEN row.steps[s] ELSE [row.steps[s] EXCEPT !.status = "cancelled"]]]

CancelStore(p) ==
  LET c == call[p]
  IN /\ At(p, "x_cas")
     /\ \E out \in Outcome : Save(c.wf, c.snap, Cancelled(c.wf, c.snap), out)
     /\ Return(p)
     /\ JournalStep

-----------------------------------------------------------------------------
(* updateResult: replace one step result under bounded CAS retries.        *)

\* The locals of execute between two steps of its loop.
InStep(p, pc, c) ==
  [Fresh(p, pc, c.wf) EXCEPT !.slot = c.slot, !.base = c.base]

\* Call updateResult and afterwards leave the loop (last) or go on.
Update(p, c, result, level, last) ==
  Become(p, [InStep(p, "u_load", c) EXCEPT !.upd = result, !.level = level, !.last = last])

Result(base, status, error, retryable) ==
  [base EXCEPT !.status = status, !.error = error, !.retryable = retryable]
NoRecord(result) == [result EXCEPT !.rev = 0]
Verified(base, rev) ==
  [status |-> "verified", rev |-> rev, error |-> "none", retryable |-> TRUE]
\* Mutant: a status that the journal does not know.
InProgress(base) == Result(base, "in_progress", "none", TRUE)
Running(base) == Result(base, "running", "none", TRUE)

\* The next step of the loop, or the final journal update.
Proceed(p, c, last) ==
  LET rest == StepAfter(plan[c.wf].steps, c.slot)
  IN IF last \/ rest = {}
     THEN Become(p, Fresh(p, "e_final", c.wf))
     ELSE \E s \in rest : Become(p, [Fresh(p, "e_load", c.wf) EXCEPT !.slot = s])

\* What an exception inside updateResult does, by the handlers around it.
UpdateThrows(p, c, outcome) ==
  \/ c.level = "plain" /\ Return(p)
  \/ /\ c.level = "inner"
     /\ Update(p, c, Result(Running(c.base), "uncertain", "COMMIT_OUTCOME_UNKNOWN", TRUE),
               "catch", TRUE)
  \/ c.level = "catch" /\ outcome = "conflict" /\ Return(p)
  \/ /\ c.level = "catch" /\ outcome # "conflict"
     /\ Update(p, c, Result(c.base, "failed", CodeOf(outcome), FALSE), "outer", TRUE)
  \/ c.level = "outer" /\ Return(p)

UpdateLoad(p) ==
  LET c == call[p]
  IN /\ At(p, "u_load")
     /\ \/ /\ Become(p, [c EXCEPT !.pc = "u_cas", !.snap = journal[c.wf]])
           /\ UNCHANGED spent
        \/ Spend("fault") /\ UpdateThrows(p, c, "error")
     /\ LocalStep

\* Mutant: cancellation hides a commit that won the race.
UpdatedHidden(c) ==
  IF c.snap.status = "cancelled"
  THEN [c.snap EXCEPT !.steps[c.slot] = [c.upd EXCEPT !.status = "cancelled"]]
  ELSE [c.snap EXCEPT !.steps[c.slot] = c.upd]

Updated(c) ==
  LET kept == \/ c.snap.status # "cancelled"
              \/ c.upd.status \in {"verified", "uncertain"}
      result == IF kept THEN c.upd ELSE [c.upd EXCEPT !.status = "cancelled"]
  IN [c.snap EXCEPT !.steps[c.slot] = result]

UpdateStore(p) ==
  LET c == call[p]
  IN /\ At(p, "u_cas")
     /\ \E out \in Outcome :
          /\ Save(c.wf, c.snap, Updated(c), out)
          /\ \/ out = "ok" /\ Proceed(p, c, c.last)
             \/ /\ out = "conflict" /\ c.tries + 1 < CasAttempts
                /\ Become(p, [c EXCEPT !.pc = "u_load", !.snap = NoWorkflow, !.tries = @ + 1])
             \/ /\ out = "conflict" => c.tries + 1 = CasAttempts
                /\ out # "ok" /\ UpdateThrows(p, c, out)
     /\ JournalStep

-----------------------------------------------------------------------------
(* execute.                                                                *)

ExecuteStart(p, w) ==
  /\ Begin(p, "Execute", w)
  /\ journal[w].status # "absent"
  /\ journal[w].auth.consumed \/ journal[w].status = "cancelled"
  /\ IF journal[w].status = "completed"
     THEN Become(p, Fresh(p, "v_load", w))
     ELSE Proceed(p, Fresh(p, "e_load", w), FALSE)
  /\ LocalStep

ExecuteLoad(p) ==
  LET c == call[p]
  IN /\ At(p, "e_load")
     /\ Become(p, [c EXCEPT !.pc = "e_read", !.snap = journal[c.wf],
                            !.base = journal[c.wf].steps[c.slot]])
     /\ LocalStep /\ UNCHANGED spent

\* Whether the confirmation loaded with the workflow still covers the step.
Covered(c) ==
  /\ c.snap.auth.consumed /\ c.slot \in c.snap.auth.steps
  /\ clock < c.snap.auth.expires

\* readLocal answered with a record under the step's key.
ReadFound(p, c) ==
  \E r \in Existing(c.wf, c.slot) :
    IF OwnRecord(r, c.wf, c.slot)
    THEN Update(p, c, Verified(c.base, r.rev), "plain", FALSE)
    ELSE Update(p, c, Result(c.base, "failed", "ALREADY_EXISTS", FALSE), "plain", FALSE)

\* readLocal answered that there is none.
ReadMissing(p, c) ==
  CASE c.base.status = "cancelled" -> Proceed(p, c, FALSE)
    [] c.base.status # "cancelled" /\ c.snap.status = "cancelled" ->
         Update(p, c, NoRecord([c.base EXCEPT !.status = "cancelled"]), "plain", FALSE)
    [] c.base.status = "verified" /\ c.snap.status # "cancelled" ->
         Update(p, c, NoRecord(Result(c.base, "uncertain", "RECORD_MISSING", FALSE)),
                "plain", TRUE)
    [] c.base.status \notin {"cancelled", "verified"} /\ c.snap.status # "cancelled" ->
         IF ~c.base.retryable THEN Proceed(p, c, FALSE)
         ELSE IF Covered(c) THEN Become(p, [c EXCEPT !.pc = "e_ctx", !.now = clock])
         ELSE Update(p, c, Result(c.base, "failed", "CONFIRMATION_EXPIRED", TRUE),
                     "outer", TRUE)

ExecuteRead(p) ==
  LET c == call[p]
  IN /\ At(p, "e_read")
     /\ \/ ReadFound(p, c) /\ UNCHANGED spent
        \/ Existing(c.wf, c.slot) = {} /\ ReadMissing(p, c) /\ UNCHANGED spent
        \/ /\ Spend("fault")
           /\ Update(p, c, Result(c.base, "uncertain", "READBACK_FAILED", TRUE),
                     "plain", TRUE)
     /\ LocalStep

\* n is the revision the journal's own writes left the destination at.
IsExpectedRevision(w, s, row, n) ==
  LET d == DestOf[Key(w, s)]
      mine == {t \in plan[w].steps : DestOf[Key(w, t)] = d}
      seen == {plan[w].revs[d]} \cup {row.steps[t].rev : t \in mine}
  IN n \in seen /\ \A m \in seen : m <= n

ExecuteCheck(p) ==
  LET c == call[p]
      found == context.dest[DestOf[Key(c.wf, c.slot)]].rev
      current == /\ PlanCurrent(c.wf, context, c.now)
                 /\ IsExpectedRevision(c.wf, c.slot, c.snap, found)
  IN /\ At(p, "e_ctx")
     /\ \/ /\ current
           /\ Become(p, [c EXCEPT !.pc = "e_run", !.now = 0, !.drev = found,
                                  !.tok = c.snap.auth.token])
           /\ UNCHANGED spent
        \/ /\ ~current
           /\ Update(p, c, Result(c.base, "failed", "STALE", FALSE), "outer", TRUE)
           /\ UNCHANGED spent
        \/ /\ Spend("fault")
           /\ Update(p, c, Result(c.base, "failed", "PRECONDITION_FAILED", FALSE),
                     "outer", TRUE)
     /\ LocalStep

Started(c) == [c.snap EXCEPT !.status = "running", !.steps[c.slot] = Running(c.base)]

ExecuteRun(p) ==
  LET c == call[p]
  IN /\ At(p, "e_run")
     /\ \E out \in Outcome :
          /\ Save(c.wf, c.snap, Started(c), out)
          /\ \/ out = "ok" /\ Become(p, [c EXCEPT !.pc = "e_apply", !.snap = NoWorkflow])
             \/ out = "conflict" /\ Return(p)
             \/ /\ out \in {"busy", "error"}
                /\ Update(p, c, Result(c.base, "failed", CodeOf(out), FALSE), "outer", TRUE)
     /\ JournalStep

OutcomeUnknown(p, c) ==
  Update(p, c, Result(Running(c.base), "uncertain", "COMMIT_OUTCOME_UNKNOWN", TRUE),
         "catch", TRUE)

\* applyLocal: the answer "commit" writes; the write may happen and its
\* answer be lost, or fail before it.
Commit(p, c) ==
  /\ CommitAnswer(c.wf, c.slot, c.tok, c.drev) = "commit"
  /\ CommitRecord(c.wf, c.slot)
  /\ created' = created \cup {[rec |-> NewRecord(c.wf, c.slot), tok |-> c.tok]}

ExecuteApply(p) ==
  LET c == call[p]
      answer == CommitAnswer(c.wf, c.slot, c.tok, c.drev)
      readBack == [InStep(p, "e_back", c) EXCEPT !.pc = "e_back"]
  IN /\ At(p, "e_apply")
     /\ \/ Commit(p, c) /\ Become(p, readBack) /\ UNCHANGED spent
        \/ Commit(p, c) /\ Spend("fault") /\ OutcomeUnknown(p, c)
        \/ /\ answer = "existing" /\ Become(p, readBack)
           /\ UNCHANGED <<hostVars, created, spent>>
        \/ /\ answer \notin {"existing", "commit"}
           /\ Update(p, c, Result(Running(c.base), "failed", answer, FALSE), "catch", TRUE)
           /\ UNCHANGED <<hostVars, created, spent>>
        \/ /\ Spend("fault") /\ OutcomeUnknown(p, c)
           /\ UNCHANGED <<hostVars, created>>
     /\ UNCHANGED <<tokens, challenges, confirmations>>

\* Success comes only from the re-read.
ExecuteReadBack(p) ==
  LET c == call[p]
      own == {r \in Existing(c.wf, c.slot) : OwnRecord(r, c.wf, c.slot)}
  IN /\ At(p, "e_back")
     /\ \/ /\ \E r \in own : Update(p, c, Verified(c.base, r.rev), "inner", FALSE)
           /\ UNCHANGED spent
        \/ /\ own = {}
           /\ Update(p, c, Result(Running(c.base), "uncertain", "READBACK_MISMATCH", TRUE),
                     "inner", TRUE)
           /\ UNCHANGED spent
        \/ Spend("fault") /\ OutcomeUnknown(p, c)
     /\ LocalStep

ExecuteFinal(p) ==
  LET c == call[p]
  IN /\ At(p, "e_final")
     /\ IF journal[c.wf].status = "cancelled"
        THEN Return(p)
        ELSE Become(p, [c EXCEPT !.pc = "e_close", !.snap = journal[c.wf]])
     /\ LocalStep /\ UNCHANGED spent

Closed(w, row) ==
  [row EXCEPT !.status = IF IntentComplete(w, row) THEN "completed" ELSE "partial"]

ExecuteClose(p) ==
  LET c == call[p]
  IN /\ At(p, "e_close")
     /\ \E out \in Outcome : Save(c.wf, c.snap, Closed(c.wf, c.snap), out)
     /\ Return(p)
     /\ JournalStep

-----------------------------------------------------------------------------
(* verify, which readLocalExecutionReceipt also calls.                     *)

VerifyStart(p, w) ==
  /\ Begin(p, "Verify", w)
  /\ journal[w].status # "absent"
  /\ Become(p, Fresh(p, "v_load", w))
  /\ LocalStep

\* The next step after s that verify re-reads, judged from its own row.
VerifyNext(p, w, row, s) ==
  LET due == {t \in plan[w].steps : row.steps[t].status \in {"verified", "running", "uncertain"}}
  IN IF StepAfter(due, s) = {} THEN Return(p)
     ELSE \E t \in StepAfter(due, s) :
            Become(p, [Fresh(p, "v_read", w) EXCEPT !.snap = row, !.slot = t,
                                                    !.base = row.steps[t]])

VerifyLoad(p) ==
  LET c == call[p]
  IN /\ At(p, "v_load")
     /\ VerifyNext(p, c.wf, journal[c.wf], 0)
     /\ LocalStep /\ UNCHANGED spent

\* A failed read and a missing record look the same to verify.
VerifyRead(p) ==
  LET c == call[p]
      own == {r \in Existing(c.wf, c.slot) : OwnRecord(r, c.wf, c.slot)}
      missing == NoRecord(Result(c.base, "uncertain", "READBACK_MISMATCH", FALSE))
      store(result) == Become(p, [c EXCEPT !.pc = "v_cas", !.upd = result])
  IN /\ At(p, "v_read")
     /\ \/ \E r \in own : store(Verified(c.base, r.rev)) /\ UNCHANGED spent
        \/ own = {} /\ store(missing) /\ UNCHANGED spent
        \/ own # {} /\ Spend("fault") /\ store(missing)
     /\ LocalStep

\* Mutant: reconciliation forgets that the workflow was cancelled.
ReconciledOpen(c) == Closed(c.wf, [c.snap EXCEPT !.steps[c.slot] = c.upd])

Reconciled(c) ==
  LET row == [c.snap EXCEPT !.steps[c.slot] = c.upd]
  IN IF row.status = "cancelled" THEN row ELSE Closed(c.wf, row)

VerifyStore(p) ==
  LET c == call[p]
  IN /\ At(p, "v_cas")
     /\ \E out \in Outcome :
          /\ Save(c.wf, c.snap, Reconciled(c), out)
          /\ IF out = "ok"
             THEN VerifyNext(p, c.wf, Advance(c.snap, Reconciled(c)), c.slot)
             ELSE Return(p)
     /\ JournalStep

-----------------------------------------------------------------------------
(* What happens around the calls.                                          *)

\* A crash of the caller's process, or an exception no handler catches.
Crash(p) ==
  /\ call[p].pc # "idle"
  /\ Spend("crash")
  /\ Return(p)
  /\ LocalStep

Tick ==
  /\ Spend("tick")
  /\ clock' = clock + 1
  /\ UNCHANGED <<context, plan, journal, records>>
  /\ UNCHANGED <<call, tokens, challenges, confirmations, created>>

Edited(label, d) ==
  CASE label = "facts" -> {[context EXCEPT !.facts = f] : f \in FactSets}
    [] label = "permission" ->
         {[context EXCEPT !.perm = [rev |-> @.rev + 1, grants |-> g]] :
            g \in {Destinations, Destinations \ {d}}}
    [] label = "destination" -> {[context EXCEPT !.dest[d].rev = @ + 1]}
    [] label = "remove" -> {[context EXCEPT !.dest[d] = [rev |-> 0, scope |-> "absent"]]}
    [] label = "restore" ->
         {[context EXCEPT !.dest[d] = [rev |-> 0, scope |-> s]] : s \in {"own", "other"}}

\* replaceContext, called by the application.
EditContext ==
  /\ Spend("edit")
  /\ \E label \in Edits, d \in Destinations :
       \E next \in Edited(label, d) : ReplaceContext(next)
  /\ UNCHANGED <<call, tokens, challenges, confirmations, created>>

\* The user deletes a record in the destination itself.
LoseRecord ==
  /\ Spend("loss")
  /\ \E r \in records : records' = records \ {r}
  /\ UNCHANGED <<context, plan, journal, clock>>
  /\ UNCHANGED <<call, tokens, challenges, confirmations, created>>

Handler(p) ==
  \/ CreateCheck(p) \/ CreateStore(p)
  \/ RequestCheck(p) \/ RequestStore(p)
  \/ ConfirmCheck(p) \/ ConfirmStore(p) \/ CancelStore(p)
  \/ UpdateLoad(p) \/ UpdateStore(p)
  \/ ExecuteLoad(p) \/ ExecuteRead(p) \/ ExecuteCheck(p) \/ ExecuteRun(p)
  \/ ExecuteApply(p) \/ ExecuteReadBack(p) \/ ExecuteFinal(p) \/ ExecuteClose(p)
  \/ VerifyLoad(p) \/ VerifyRead(p) \/ VerifyStore(p)

Start(p) ==
  \E w \in Workflows :
    \/ CreateStart(p, w) \/ RequestStart(p, w) \/ CancelStart(p, w)
    \/ ExecuteStart(p, w) \/ VerifyStart(p, w)
    \/ \E shown \in challenges : ConfirmStart(p, w, shown.tok)

Surroundings == Tick \/ EditContext \/ LoseRecord

Next ==
  \/ \E w \in Workflows : PreparePlan(w)
  \/ \E p \in Callers : Start(p) \/ Handler(p) \/ Crash(p)
  \/ Surroundings

Init ==
  /\ HostInit
  /\ call = [p \in Callers |-> NoCall]
  /\ tokens = 0
  /\ challenges = {} /\ confirmations = {} /\ created = {}
  /\ spent = [k \in Kind |-> 0]

Spec == Init /\ [][Next]_vars
FairSpec == Spec /\ \A p \in Callers : WF_vars(Handler(p))
=============================================================================
