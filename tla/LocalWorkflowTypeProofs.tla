------------------------ MODULE LocalWorkflowTypeProofs ------------------------
(* LocalWorkflow is type-correct, for every value of its constants.          *)
EXTENDS LocalWorkflowInvariant, TLAPS

-----------------------------------------------------------------------------
(* Types.                                                                    *)

LEMMA PendingType == Pending \in StepResult
  BY DEF Pending, StepResult, StepStatus, ErrorCode

LEMMA NoWorkflowType == NoWorkflow \in JournalRow
  BY PendingType
  DEF NoWorkflow, NoAuthorization, JournalRow, WorkflowStatus, Authorization

LEMMA NoCallType == NoCall \in Call
  BY HostConstants, NoWorkflowType, PendingType DEF NoCall, Call, Step, Level

LEMMA FreshType ==
  ASSUME NEW p, NEW pc \in Step, NEW w \in Workflows
  PROVE  Fresh(p, pc, w) \in Call
  BY NoCallType DEF Fresh, Call

LEMMA BecomeType ==
  ASSUME call \in [Callers -> Call], NEW p \in Callers, NEW c \in Call, Become(p, c)
  PROVE  call' \in [Callers -> Call]
  BY DEF Become

LEMMA ReturnType ==
  ASSUME call \in [Callers -> Call], NEW p \in Callers, Return(p)
  PROVE  call' \in [Callers -> Call]
  BY NoCallType, BecomeType DEF Return

LEMMA SpendType ==
  ASSUME spent \in [Kind -> Nat], NEW k \in Kind, Spend(k)
  PROVE  spent' \in [Kind -> Nat]
  BY DEF Spend

LEMMA KeyType ==
  ASSUME NEW w \in Workflows, NEW s \in Slots(w)
  PROVE  Key(w, s) \in Keys /\ s \in Nat /\ s \in Slot /\ DestOf[Key(w, s)] \in Destinations
  BY HostConstants DEF Slots, Slot, Key

LEMMA AdvanceType ==
  ASSUME NEW row \in JournalRow, NEW next \in JournalRow
  PROVE  Advance(row, next) \in JournalRow
  BY DEF Advance, JournalRow

LEMMA SaveType ==
  ASSUME journal \in [Workflows -> JournalRow], spent \in [Kind -> Nat],
         NEW w \in Workflows, NEW row \in JournalRow, NEW next \in JournalRow,
         NEW out, Save(w, row, next, out)
  PROVE  journal' \in [Workflows -> JournalRow] /\ spent' \in [Kind -> Nat]
  BY AdvanceType, SpendType DEF Save, Kind

-----------------------------------------------------------------------------
(* Every step of a call leads to a well-typed call on a step of its plan.    *)

Moves(p) == \E c \in Call : Become(p, c) /\ InPlan(c)

LEMMA PlanSteps ==
  ASSUME TypeOK, PlanOK, NEW w \in Workflows, NEW s \in plan[w].steps
  PROVE  /\ s \in Slots(w) /\ s \in Slot /\ s \in Nat /\ plan[w].made
         /\ DestOf[Key(w, s)] \in Destinations
  BY KeyType DEF PlanOK

LEMMA ReturnMoves == ASSUME NEW p, Return(p) PROVE Moves(p)
  BY NoCallType DEF Return, Moves, InPlan, NoCall, Looping

LEMMA FreshMoves ==
  ASSUME TypeOK, PlanOK, NEW p, NEW w \in Workflows, plan[w].made,
         NEW pc \in Step \ Looping, Become(p, Fresh(p, pc, w))
  PROVE  Moves(p)
  BY FreshType DEF Moves, InPlan, Fresh, Call

LEMMA CopyMoves ==
  ASSUME TypeOK, PlanOK, NEW p, NEW w \in Workflows, plan[w].made,
         NEW pc \in Step \ Looping, NEW row \in JournalRow, NEW now \in Nat,
         NEW c, Become(p, c),
         c = [Fresh(p, pc, w) EXCEPT !.snap = row, !.now = now]
  PROVE  Moves(p)
<1>1. c \in Call /\ c.pc = pc /\ c.wf = w
  BY NoWorkflowType, PendingType DEF Fresh, NoCall, Call, Level
<1> QED
  BY <1>1 DEF Moves, InPlan

LEMMA ProceedMoves ==
  ASSUME TypeOK, PlanOK, NEW p, NEW c \in Call, plan[c.wf].made, NEW last,
         Proceed(p, c, last)
  PROVE  Moves(p)
<1> DEFINE rest == StepAfter(plan[c.wf].steps, c.slot)
<1> c.wf \in Workflows
  BY DEF Call
<1>1. CASE last \/ rest = {}
  BY <1>1, FreshMoves DEF Proceed, Step, Looping
<1>2. CASE ~(last \/ rest = {})
  <2>1. PICK s \in rest : Become(p, [Fresh(p, "e_load", c.wf) EXCEPT !.slot = s])
    BY <1>2 DEF Proceed
  <2>2. s \in plan[c.wf].steps /\ s \in Nat
    BY PlanSteps DEF StepAfter
  <2> DEFINE n == [Fresh(p, "e_load", c.wf) EXCEPT !.slot = s]
  <2>3. n \in Call /\ n.slot = s /\ n.wf = c.wf
    BY <2>2, NoWorkflowType, PendingType DEF Fresh, NoCall, Call, Step, Level
  <2> HIDE DEF n
  <2> QED
    BY <2>1, <2>2, <2>3 DEF n, Moves, InPlan
<1> QED
  BY <1>1, <1>2

LEMMA UpdateMoves ==
  ASSUME TypeOK, PlanOK, NEW p, NEW c \in Call, plan[c.wf].made,
         c.slot \in plan[c.wf].steps, NEW result \in StepResult,
         NEW level \in Level, NEW last \in BOOLEAN, Update(p, c, result, level, last)
  PROVE  Moves(p)
<1> c.wf \in Workflows
  BY DEF Call
<1> DEFINE n == [InStep(p, "u_load", c) EXCEPT !.upd = result, !.level = level, !.last = last]
<1>1. n \in Call /\ n.slot = c.slot /\ n.wf = c.wf
  BY NoWorkflowType DEF InStep, Fresh, NoCall, Call, Step
<1>2. Become(p, n)
  BY DEF Update
<1> HIDE DEF n
<1> QED
  BY <1>1, <1>2 DEF Moves, InPlan

\* Calls inside updateResult, or at the end of a step of execute.
LEMMA UpdateThrowsMoves ==
  ASSUME TypeOK, PlanOK, NEW p, NEW c \in Call, InPlan(c), c.pc \in Looping,
         NEW out \in Outcome, UpdateThrows(p, c, out)
  PROVE  Moves(p)
<1> USE DEF UpdateThrows
<1>1. plan[c.wf].made /\ c.slot \in plan[c.wf].steps /\ c.base \in StepResult
  BY DEF InPlan, Call, Looping
<1>2. /\ Result(Running(c.base), "uncertain", "COMMIT_OUTCOME_UNKNOWN", TRUE) \in StepResult
      /\ Result(c.base, "failed", CodeOf(out), FALSE) \in StepResult
  BY <1>1 DEF Result, Running, CodeOf, StepResult, StepStatus, ErrorCode
<1>3. {"catch", "outer"} \subseteq Level
  BY DEF Level
<1> QED
  BY <1>1, <1>2, <1>3, ReturnMoves, UpdateMoves

LEMMA ResultType ==
  ASSUME NEW base \in StepResult, NEW status \in StepStatus, NEW error \in ErrorCode,
         NEW retryable \in BOOLEAN
  PROVE  /\ Result(base, status, error, retryable) \in StepResult
         /\ Running(base) \in StepResult
         /\ NoRecord(base) \in StepResult
         /\ [base EXCEPT !.status = status] \in StepResult
  BY DEF Result, Running, NoRecord, StepResult, StepStatus, ErrorCode

LEMMA VerifiedType ==
  ASSUME NEW base, NEW rev \in Nat
  PROVE  Verified(base, rev) \in StepResult
  BY DEF Verified, StepResult, StepStatus, ErrorCode

LEMMA RecordType ==
  ASSUME TypeOK, NEW r \in records PROVE r \in LocalRecord /\ r.rev \in Nat
  BY DEF TypeOK, HostTypeOK, LocalRecord

LEMMA OutcomeUnknownMoves ==
  ASSUME TypeOK, PlanOK, NEW p, NEW c \in Call, InPlan(c), c.pc \in Looping,
         OutcomeUnknown(p, c)
  PROVE  Moves(p)
<1>1. plan[c.wf].made /\ c.slot \in plan[c.wf].steps /\ c.base \in StepResult
  BY DEF InPlan, Call, Looping
<1>2. Result(Running(c.base), "uncertain", "COMMIT_OUTCOME_UNKNOWN", TRUE) \in StepResult
  BY <1>1 DEF Result, Running, StepResult, StepStatus, ErrorCode
<1> QED
  BY <1>1, <1>2, UpdateMoves DEF OutcomeUnknown, Level

LEMMA ReadFoundMoves ==
  ASSUME TypeOK, PlanOK, NEW p, NEW c \in Call, InPlan(c), c.pc \in Looping,
         ReadFound(p, c)
  PROVE  Moves(p)
<1>1. plan[c.wf].made /\ c.slot \in plan[c.wf].steps /\ c.base \in StepResult
  BY DEF InPlan, Call, Looping
<1>2. PICK r \in records :
        \/ Update(p, c, Verified(c.base, r.rev), "plain", FALSE)
        \/ Update(p, c, Result(c.base, "failed", "ALREADY_EXISTS", FALSE), "plain", FALSE)
  BY DEF ReadFound, Existing
<1>3. /\ Verified(c.base, r.rev) \in StepResult
      /\ Result(c.base, "failed", "ALREADY_EXISTS", FALSE) \in StepResult
  BY <1>1, RecordType, VerifiedType, ResultType DEF StepStatus, ErrorCode
<1> QED
  BY <1>1, <1>2, <1>3, UpdateMoves DEF Level

LEMMA ReadMissingMoves ==
  ASSUME TypeOK, PlanOK, NEW p, NEW c \in Call, InPlan(c), c.pc \in Looping,
         ReadMissing(p, c)
  PROVE  Moves(p)
<1>1. /\ plan[c.wf].made /\ c.slot \in plan[c.wf].steps /\ c.base \in StepResult
      /\ {"plain", "outer"} \subseteq Level
  BY DEF InPlan, Call, Looping, Level
<1>2. /\ NoRecord([c.base EXCEPT !.status = "cancelled"]) \in StepResult
      /\ NoRecord(Result(c.base, "uncertain", "RECORD_MISSING", FALSE)) \in StepResult
      /\ Result(c.base, "failed", "CONFIRMATION_EXPIRED", TRUE) \in StepResult
  BY <1>1 DEF Result, NoRecord, StepResult, StepStatus, ErrorCode
<1>3. ASSUME Become(p, [c EXCEPT !.pc = "e_ctx", !.now = clock]) PROVE Moves(p)
  <2> DEFINE n == [c EXCEPT !.pc = "e_ctx", !.now = clock]
  <2>1. n \in Call /\ n.slot = c.slot /\ n.wf = c.wf
    BY DEF Call, Step, TypeOK, HostTypeOK
  <2> HIDE DEF n
  <2> QED
    BY <1>1, <1>3, <2>1 DEF n, Moves, InPlan
<1> QED
  BY <1>1, <1>2, <1>3, ProceedMoves, UpdateMoves DEF ReadMissing

LEMMA VerifyNextMoves ==
  ASSUME TypeOK, PlanOK, NEW p, NEW w \in Workflows, plan[w].made,
         NEW row \in JournalRow, NEW s, VerifyNext(p, w, row, s)
  PROVE  Moves(p)
<1> DEFINE due == {t \in plan[w].steps : row.steps[t].status \in {"verified", "running", "uncertain"}}
<1>1. CASE Return(p)
  BY <1>1, ReturnMoves
<1>2. ASSUME NEW t \in StepAfter(due, s),
             Become(p, [Fresh(p, "v_read", w) EXCEPT !.snap = row, !.slot = t,
                                                     !.base = row.steps[t]])
      PROVE  Moves(p)
  <2>1. t \in plan[w].steps /\ t \in Nat /\ t \in Slot /\ row.steps[t] \in StepResult
    <3>1. t \in plan[w].steps
      BY DEF StepAfter
    <3> QED
      BY <3>1, PlanSteps DEF JournalRow
  <2> DEFINE n == [Fresh(p, "v_read", w) EXCEPT !.snap = row, !.slot = t, !.base = row.steps[t]]
  <2>2. n \in Call /\ n.slot = t /\ n.wf = w
    BY <2>1, PendingType DEF Fresh, NoCall, Call, Step, Level
  <2> HIDE DEF n
  <2> QED
    BY <1>2, <2>1, <2>2 DEF n, Moves, InPlan
<1> QED
  BY <1>1, <1>2 DEF VerifyNext

-----------------------------------------------------------------------------
(* The rows that the methods store are rows.                                 *)

LEMMA RowTypes ==
  ASSUME TypeOK, NEW c \in Call
  PROVE  /\ Remaining(c.wf, c.snap) \subseteq Slot \cap plan[c.wf].steps
         /\ Requested(c) \in JournalRow
         /\ Confirmed(c.snap) \in JournalRow
         /\ Cancelled(c.wf, c.snap) \in JournalRow
         /\ Updated(c) \in JournalRow
         /\ Started(c) \in JournalRow
         /\ Closed(c.wf, c.snap) \in JournalRow
         /\ Reconciled(c) \in JournalRow
<1>1. /\ c.wf \in Workflows /\ c.snap \in JournalRow /\ c.base \in StepResult
      /\ c.upd \in StepResult /\ c.now \in Nat /\ c.tok \in Nat
  BY DEF Call
<1>2. plan[c.wf] \in Plan
  BY <1>1 DEF TypeOK, HostTypeOK
<1>3. Remaining(c.wf, c.snap) \subseteq Slot \cap plan[c.wf].steps
  BY <1>2 DEF Plan, Remaining
<1>4. Requested(c) \in JournalRow
  <2>1. plan[c.wf].expires \in Nat
    BY <1>2 DEF Plan
  <2>2. c.now + ConfirmationLife \in Nat
    BY <1>1, HostConstants
  <2> QED
    BY <1>1, <1>3, <2>1, <2>2 DEF Requested, JournalRow, Authorization, WorkflowStatus
<1>5. Confirmed(c.snap) \in JournalRow
  BY <1>1 DEF Confirmed, JournalRow, Authorization, WorkflowStatus
<1>6. Cancelled(c.wf, c.snap) \in JournalRow
  <2>1. \A s \in Slot : c.snap.steps[s] \in StepResult
    BY <1>1 DEF JournalRow
  <2>2. \A s \in Slot : [c.snap.steps[s] EXCEPT !.status = "cancelled"] \in StepResult
    BY <2>1 DEF StepResult, StepStatus
  <2> QED
    BY <1>1, <2>1, <2>2 DEF Cancelled, JournalRow, WorkflowStatus
<1>7. Updated(c) \in JournalRow
  <2>1. [c.upd EXCEPT !.status = "cancelled"] \in StepResult
    BY <1>1 DEF StepResult, StepStatus
  <2> QED
    BY <1>1, <2>1 DEF Updated, JournalRow
<1>8. Started(c) \in JournalRow
  BY <1>1 DEF Started, Running, Result, JournalRow, StepResult, StepStatus, ErrorCode,
              WorkflowStatus
<1>9. ASSUME NEW row \in JournalRow PROVE Closed(c.wf, row) \in JournalRow
  BY DEF Closed, JournalRow, WorkflowStatus
<1>10. Reconciled(c) \in JournalRow
  <2>1. [c.snap EXCEPT !.steps[c.slot] = c.upd] \in JournalRow
    BY <1>1 DEF JournalRow
  <2> QED
    BY <1>9, <2>1 DEF Reconciled
<1> QED
  BY <1>1, <1>3, <1>4, <1>5, <1>6, <1>7, <1>8, <1>9, <1>10

-----------------------------------------------------------------------------
(* Type correctness.                                                         *)

Typing == TypeOK /\ PlanOK /\ CallOK

LEMMA MovesTyping ==
  ASSUME Typing, NEW p \in Callers, Moves(p), UNCHANGED plan
  PROVE  call' \in [Callers -> Call] /\ CallOK'
<1>1. PICK c \in Call : Become(p, c) /\ InPlan(c)
  BY DEF Moves
<1>2. call' = [call EXCEPT ![p] = c] /\ call \in [Callers -> Call]
  BY <1>1 DEF Become, Typing, TypeOK
<1> QED
  BY <1>1, <1>2 DEF Typing, CallOK, InPlan

\* A step that moves one call, and may count an event.
LEMMA LocalTyping ==
  ASSUME Typing, NEW p \in Callers, Moves(p), LocalStep, spent' \in [Kind -> Nat]
  PROVE  Typing'
<1>1. UNCHANGED <<context, plan, journal, records, clock, tokens, challenges, confirmations, created>>
  BY DEF LocalStep, hostVars
<1>2. call' \in [Callers -> Call] /\ CallOK'
  BY <1>1, MovesTyping
<1> QED
  BY <1>1, <1>2 DEF Typing, TypeOK, HostTypeOK, PlanOK

\* A step that also stores a row.
LEMMA StoreTyping ==
  ASSUME Typing, NEW p \in Callers, Moves(p), NEW w \in Workflows,
         NEW row \in JournalRow, NEW next \in JournalRow, NEW out, Save(w, row, next, out),
         UNCHANGED <<context, plan, records, clock, tokens, created>>,
         challenges' \in SUBSET Challenge, confirmations' \in SUBSET Confirmation
  PROVE  Typing'
<1>1. call' \in [Callers -> Call] /\ CallOK'
  BY MovesTyping
<1>2. journal' \in [Workflows -> JournalRow] /\ spent' \in [Kind -> Nat]
  BY SaveType DEF Typing, TypeOK, HostTypeOK
<1> QED
  BY <1>1, <1>2 DEF Typing, TypeOK, HostTypeOK, PlanOK

LEMMA CallFields ==
  ASSUME Typing, NEW p \in Callers
  PROVE  /\ call[p] \in Call /\ call[p].wf \in Workflows /\ call[p].snap \in JournalRow
         /\ call[p].slot \in Nat /\ call[p].now \in Nat /\ call[p].tok \in Nat
         /\ call[p].base \in StepResult /\ call[p].upd \in StepResult
         /\ call[p].level \in Level /\ call[p].last \in BOOLEAN /\ call[p].tries \in Nat
         /\ InPlan(call[p])
         /\ call[p].pc # "idle" => plan[call[p].wf].made
         /\ call[p].pc \in Looping => call[p].slot \in plan[call[p].wf].steps
         /\ journal[call[p].wf] \in JournalRow
  BY DEF Typing, TypeOK, HostTypeOK, CallOK, InPlan, Call

\* The first step of every method.
LEMMA StartTyping ==
  ASSUME Typing, NEW p \in Callers, Start(p)
  PROVE  Typing'
<1> USE DEF Typing
<1>1. PICK w \in Workflows :
        \/ CreateStart(p, w) \/ RequestStart(p, w) \/ CancelStart(p, w)
        \/ ExecuteStart(p, w) \/ VerifyStart(p, w)
        \/ \E shown \in challenges : ConfirmStart(p, w, shown.tok)
  BY DEF Start
<1>2. journal[w] \in JournalRow /\ clock \in Nat
  BY DEF TypeOK, HostTypeOK
<1>3. ASSUME NEW op \in Operation, Begin(p, op, w)
      PROVE  plan[w].made /\ spent' \in [Kind -> Nat]
  BY <1>3, SpendType DEF Begin, Kind, TypeOK
<1>4. CASE CreateStart(p, w)
  <2>1. Moves(p) /\ spent' \in [Kind -> Nat] /\ LocalStep
    BY <1>3, <1>4, FreshMoves DEF CreateStart, Operation, Step, Looping
  <2> QED
    BY <2>1, LocalTyping
<1>5. CASE RequestStart(p, w)
  <2> DEFINE n == [Fresh(p, "r_ctx", w) EXCEPT !.snap = journal[w]]
  <2>1. n \in Call /\ n.pc = "r_ctx" /\ n.wf = w
    BY <1>2, PendingType DEF Fresh, NoCall, Call, Step, Level
  <2>2. Become(p, n) /\ plan[w].made /\ spent' \in [Kind -> Nat] /\ LocalStep
    BY <1>3, <1>5 DEF RequestStart, Operation
  <2> HIDE DEF n
  <2>3. Moves(p)
    BY <2>1, <2>2 DEF Moves, InPlan, Looping
  <2> QED
    BY <2>2, <2>3, LocalTyping
<1>6. CASE CancelStart(p, w)
  <2> DEFINE n == [Fresh(p, "x_cas", w) EXCEPT !.snap = journal[w]]
  <2>1. n \in Call /\ n.pc = "x_cas" /\ n.wf = w
    BY <1>2, PendingType DEF Fresh, NoCall, Call, Step, Level
  <2>2. Become(p, n) /\ plan[w].made /\ spent' \in [Kind -> Nat] /\ LocalStep
    BY <1>3, <1>6 DEF CancelStart, Operation
  <2> HIDE DEF n
  <2>3. Moves(p)
    BY <2>1, <2>2 DEF Moves, InPlan, Looping
  <2> QED
    BY <2>2, <2>3, LocalTyping
<1>7. CASE ExecuteStart(p, w)
  <2> DEFINE n == Fresh(p, "e_load", w)
  <2>1. n \in Call /\ n.wf = w
    BY NoWorkflowType, PendingType DEF Fresh, NoCall, Call, Step, Level
  <2>2. plan[w].made /\ spent' \in [Kind -> Nat] /\ LocalStep
    BY <1>3, <1>7 DEF ExecuteStart, Operation
  <2>3. Become(p, Fresh(p, "v_load", w)) \/ Proceed(p, n, FALSE)
    BY <1>7 DEF ExecuteStart
  <2> HIDE DEF n
  <2>4. Moves(p)
    BY <2>1, <2>2, <2>3, FreshMoves, ProceedMoves DEF Step, Looping
  <2> QED
    BY <2>2, <2>4, LocalTyping
<1>8. CASE VerifyStart(p, w)
  <2>1. Moves(p) /\ spent' \in [Kind -> Nat] /\ LocalStep
    BY <1>3, <1>8, FreshMoves DEF VerifyStart, Operation, Step, Looping
  <2> QED
    BY <2>1, LocalTyping
<1>9. ASSUME NEW tok, ConfirmStart(p, w, tok) PROVE Typing'
  <2> DEFINE n == [Fresh(p, "k_ctx", w) EXCEPT !.snap = journal[w], !.now = clock]
  <2>1. n \in Call /\ n.pc = "k_ctx" /\ n.wf = w
    BY <1>2, PendingType DEF Fresh, NoCall, Call, Step, Level
  <2>2. Become(p, n) /\ plan[w].made /\ spent' \in [Kind -> Nat] /\ LocalStep
    BY <1>3, <1>9 DEF ConfirmStart, Operation
  <2> HIDE DEF n
  <2>3. Moves(p)
    BY <2>1, <2>2 DEF Moves, InPlan, Looping
  <2> QED
    BY <2>2, <2>3, LocalTyping
<1> QED
  BY <1>1, <1>4, <1>5, <1>6, <1>7, <1>8, <1>9

\* create, requestConfirmation, confirm, cancel.
LEMMA ConfirmationTyping ==
  ASSUME Typing, NEW p \in Callers,
         \/ CreateCheck(p) \/ CreateStore(p) \/ RequestCheck(p) \/ RequestStore(p)
         \/ ConfirmCheck(p) \/ ConfirmStore(p) \/ CancelStore(p) \/ Crash(p)
  PROVE  Typing'
<1> DEFINE c == call[p]
<1>1. /\ TypeOK /\ PlanOK /\ c \in Call /\ c.wf \in Workflows /\ c.snap \in JournalRow
      /\ c.tok \in Nat /\ (c.pc # "idle" => plan[c.wf].made)
      /\ spent \in [Kind -> Nat] /\ tokens \in Nat /\ clock \in Nat
  BY CallFields DEF Typing, TypeOK, HostTypeOK
<1>2. /\ Requested(c) \in JournalRow /\ Confirmed(c.snap) \in JournalRow
      /\ Cancelled(c.wf, c.snap) \in JournalRow
      /\ Remaining(c.wf, c.snap) \subseteq Slot
  BY <1>1, RowTypes
<1>3. challenges \in SUBSET Challenge /\ confirmations \in SUBSET Confirmation
  BY <1>1 DEF TypeOK
<1>4. CASE CreateCheck(p)
  <2>1. Moves(p)
    BY <1>1, <1>4, FreshMoves, ReturnMoves DEF CreateCheck, At, Step, Looping
  <2> QED
    BY <1>1, <1>4, <2>1, LocalTyping DEF CreateCheck
<1>5. CASE CreateStore(p)
  <2>1. Moves(p) /\ UNCHANGED <<context, plan, records, clock, tokens, challenges, confirmations, created, spent>>
    BY <1>5, ReturnMoves DEF CreateStore, JournalStep
  <2>2. journal' \in [Workflows -> JournalRow]
    BY <1>1, <1>5 DEF CreateStore, TypeOK, HostTypeOK, JournalRow, WorkflowStatus
  <2>3. call' \in [Callers -> Call] /\ CallOK'
    BY <2>1, MovesTyping
  <2> QED
    BY <2>1, <2>2, <2>3 DEF Typing, TypeOK, HostTypeOK, PlanOK
<1>6. CASE RequestCheck(p)
  <2> DEFINE n == [c EXCEPT !.pc = "r_cas", !.now = clock, !.tok = tokens + 1]
  <2>1. n \in Call /\ n.pc = "r_cas" /\ n.wf = c.wf
    <3>1. tokens + 1 \in Nat
      BY <1>1
    <3> HIDE DEF c
    <3> QED
      BY <1>1, <3>1 DEF Call, Step
  <2>2. /\ c.pc = "r_ctx" /\ (Return(p) \/ Become(p, n)) /\ tokens' \in Nat
        /\ UNCHANGED <<context, plan, journal, records, clock, challenges, confirmations, created, spent>>
    BY <1>1, <1>6 DEF RequestCheck, At, hostVars
  <2> HIDE DEF n
  <2>3. Moves(p)
    BY <1>1, <2>1, <2>2, ReturnMoves DEF Moves, InPlan, Looping
  <2>4. call' \in [Callers -> Call] /\ CallOK'
    BY <2>2, <2>3, MovesTyping
  <2> QED
    BY <2>2, <2>4 DEF Typing, TypeOK, HostTypeOK, PlanOK
<1>7. CASE RequestStore(p)
  <2>1. PICK out \in Outcome :
          /\ Save(c.wf, c.snap, Requested(c), out)
          /\ challenges' \in {challenges,
               challenges \cup {[tok |-> c.tok, wf |-> c.wf, steps |-> Requested(c).auth.steps]}}
    BY <1>7 DEF RequestStore
  <2>2. challenges' \in SUBSET Challenge
    BY <1>1, <1>2, <1>3, <2>1 DEF Challenge, JournalRow, Authorization
  <2> QED
    BY <1>1, <1>2, <1>3, <1>7, <2>1, <2>2, ReturnMoves, StoreTyping DEF RequestStore
<1>8. CASE ConfirmCheck(p)
  <2> DEFINE n == [c EXCEPT !.pc = "k_cas", !.now = 0]
  <2>1. n \in Call /\ n.pc = "k_cas" /\ n.wf = c.wf
    BY <1>1 DEF Call, Step
  <2>2. c.pc = "k_ctx" /\ (Return(p) \/ Become(p, n)) /\ LocalStep /\ UNCHANGED spent
    BY <1>8 DEF ConfirmCheck, At
  <2> HIDE DEF n
  <2>3. Moves(p)
    BY <1>1, <2>1, <2>2, ReturnMoves DEF Moves, InPlan, Looping
  <2> QED
    BY <1>1, <2>2, <2>3, LocalTyping
<1>9. CASE ConfirmStore(p)
  <2>1. PICK out \in Outcome : Save(c.wf, c.snap, Confirmed(c.snap), out)
    BY <1>9 DEF ConfirmStore
  <2>2. [tok |-> c.snap.auth.token, wf |-> c.wf, rev |-> c.snap.rev + 1] \in Confirmation
    BY <1>1 DEF Confirmation, JournalRow, Authorization
  <2>3. confirmations' \in SUBSET Confirmation
    BY <1>3, <1>9, <2>2 DEF ConfirmStore
  <2> QED
    BY <1>1, <1>2, <1>3, <1>9, <2>1, <2>3, ReturnMoves, StoreTyping DEF ConfirmStore
<1>10. CASE CancelStore(p)
  <2>1. PICK out \in Outcome : Save(c.wf, c.snap, Cancelled(c.wf, c.snap), out)
    BY <1>10 DEF CancelStore
  <2> QED
    BY <1>1, <1>2, <1>3, <1>10, <2>1, ReturnMoves, StoreTyping DEF CancelStore, JournalStep
<1>11. CASE Crash(p)
  BY <1>1, <1>11, ReturnMoves, SpendType, LocalTyping DEF Crash, Kind
<1> QED
  BY <1>4, <1>5, <1>6, <1>7, <1>8, <1>9, <1>10, <1>11

\* updateResult and verify.
LEMMA UpdateTyping ==
  ASSUME Typing, NEW p \in Callers,
         \/ UpdateLoad(p) \/ UpdateStore(p) \/ VerifyLoad(p) \/ VerifyRead(p)
         \/ VerifyStore(p)
  PROVE  Typing'
<1> DEFINE c == call[p]
<1>1. /\ TypeOK /\ PlanOK /\ InPlan(c)
      /\ c \in Call /\ c.wf \in Workflows /\ c.snap \in JournalRow /\ c.slot \in Nat
      /\ c.base \in StepResult /\ c.upd \in StepResult /\ c.level \in Level
      /\ c.last \in BOOLEAN /\ c.tries \in Nat
      /\ (c.pc # "idle" => plan[c.wf].made)
      /\ (c.pc \in Looping => c.slot \in plan[c.wf].steps)
      /\ spent \in [Kind -> Nat] /\ journal[c.wf] \in JournalRow
  BY CallFields DEF Typing, TypeOK
<1>2. Updated(c) \in JournalRow /\ Reconciled(c) \in JournalRow
  BY <1>1, RowTypes
<1>3. challenges \in SUBSET Challenge /\ confirmations \in SUBSET Confirmation
  BY <1>1 DEF TypeOK
<1>4. CASE UpdateLoad(p)
  <2> DEFINE n == [c EXCEPT !.pc = "u_cas", !.snap = journal[c.wf]]
  <2>1. n \in Call /\ n.slot = c.slot /\ n.wf = c.wf
    <3> HIDE DEF c
    <3> QED
      BY <1>1 DEF Call, Step
  <2>2. c.pc \in Looping /\ c.pc # "idle" /\ LocalStep
    BY <1>4 DEF UpdateLoad, At, Looping
  <2>3. \/ Become(p, n) /\ UNCHANGED spent
        \/ Spend("fault") /\ UpdateThrows(p, c, "error")
    BY <1>4 DEF UpdateLoad
  <2> HIDE DEF n
  <2>4. CASE Become(p, n) /\ UNCHANGED spent
    <3>1. Moves(p)
      BY <1>1, <2>1, <2>2, <2>4 DEF Moves, InPlan
    <3> QED
      BY <1>1, <2>2, <2>4, <3>1, LocalTyping
  <2>5. CASE Spend("fault") /\ UpdateThrows(p, c, "error")
    <3>1. Moves(p)
      BY <1>1, <2>2, <2>5, UpdateThrowsMoves DEF Outcome
    <3> QED
      BY <1>1, <2>2, <2>5, <3>1, LocalTyping, SpendType DEF Kind
  <2> QED
    BY <2>3, <2>4, <2>5
<1>5. CASE UpdateStore(p)
  <2> DEFINE n == [c EXCEPT !.pc = "u_load", !.snap = NoWorkflow, !.tries = @ + 1]
  <2>1. n \in Call /\ n.slot = c.slot /\ n.wf = c.wf
    <3>1. c.tries + 1 \in Nat
      BY <1>1
    <3> HIDE DEF c
    <3> QED
      BY <1>1, <3>1, NoWorkflowType DEF Call, Step
  <2>2. c.pc \in Looping /\ c.pc # "idle" /\ JournalStep
    BY <1>5 DEF UpdateStore, At, Looping
  <2>3. PICK out \in Outcome :
          /\ Save(c.wf, c.snap, Updated(c), out)
          /\ Proceed(p, c, c.last) \/ Become(p, n) \/ UpdateThrows(p, c, out)
    BY <1>5 DEF UpdateStore
  <2> HIDE DEF n
  <2>4. Moves(p)
    <3>1. Become(p, n) => Moves(p)
      BY <1>1, <2>1, <2>2 DEF Moves, InPlan
    <3> QED
      BY <1>1, <2>2, <2>3, <3>1, ProceedMoves, UpdateThrowsMoves
  <2> QED
    BY <1>1, <1>2, <1>3, <2>2, <2>3, <2>4, StoreTyping DEF JournalStep
<1>6. CASE VerifyLoad(p)
  BY <1>1, <1>6, VerifyNextMoves, LocalTyping DEF VerifyLoad, At
<1>7. CASE VerifyRead(p)
  <2>1. c.pc \in Looping /\ c.pc # "idle" /\ LocalStep
    BY <1>7 DEF VerifyRead, At, Looping
  <2>2. PICK result \in StepResult :
          Become(p, [c EXCEPT !.pc = "v_cas", !.upd = result])
    <3>1. NoRecord(Result(c.base, "uncertain", "READBACK_MISMATCH", FALSE)) \in StepResult
      BY <1>1 DEF NoRecord, Result, StepResult, StepStatus, ErrorCode
    <3>2. \A r \in records : Verified(c.base, r.rev) \in StepResult
      BY <1>1, RecordType, VerifiedType
    <3> QED
      BY <1>7, <3>1, <3>2 DEF VerifyRead, Existing
  <2>3. spent' \in [Kind -> Nat]
    BY <1>1, <1>7, SpendType DEF VerifyRead, Kind
  <2> DEFINE n == [c EXCEPT !.pc = "v_cas", !.upd = result]
  <2>4. n \in Call /\ n.slot = c.slot /\ n.wf = c.wf
    <3> HIDE DEF c
    <3> QED
      BY <1>1 DEF Call, Step
  <2> HIDE DEF n
  <2>5. Moves(p)
    BY <1>1, <2>1, <2>2, <2>4 DEF n, Moves, InPlan
  <2> QED
    BY <2>1, <2>3, <2>5, LocalTyping
<1>8. CASE VerifyStore(p)
  <2>1. c.pc \in Looping /\ c.pc # "idle" /\ JournalStep
    BY <1>8 DEF VerifyStore, At, Looping
  <2>2. PICK out \in Outcome :
          /\ Save(c.wf, c.snap, Reconciled(c), out)
          /\ \/ VerifyNext(p, c.wf, Advance(c.snap, Reconciled(c)), c.slot)
             \/ Return(p)
    BY <1>8 DEF VerifyStore
  <2>3. Moves(p)
    BY <1>1, <1>2, <2>1, <2>2, AdvanceType, VerifyNextMoves, ReturnMoves
  <2> QED
    BY <1>1, <1>2, <1>3, <2>1, <2>2, <2>3, StoreTyping DEF JournalStep
<1> QED
  BY <1>4, <1>5, <1>6, <1>7, <1>8

LEMMA NewRecordType ==
  ASSUME TypeOK, NEW w \in Workflows, NEW s \in Slots(w), s \in Slot, s \in Nat
  PROVE  /\ NewRecord(w, s) \in LocalRecord
         /\ NewRecord(w, s).rev = context.dest[DestOf[Key(w, s)]].rev + 1
         /\ context.dest[DestOf[Key(w, s)]].rev \in Nat
<1>1. DestOf[Key(w, s)] \in Destinations /\ Key(w, s) \in Keys
  BY KeyType
<1>2. context.dest[DestOf[Key(w, s)]].rev \in Nat
  BY <1>1 DEF TypeOK, HostTypeOK, Context, DestinationRow
<1> QED
  BY <1>1, <1>2 DEF NewRecord, LocalRecord

\* The preflight of a step of execute.
LEMMA PreflightTyping ==
  ASSUME Typing, NEW p \in Callers,
         ExecuteLoad(p) \/ ExecuteRead(p) \/ ExecuteCheck(p) \/ ExecuteRun(p)
  PROVE  Typing'
<1> DEFINE c == call[p]
<1>1. /\ TypeOK /\ PlanOK /\ InPlan(c)
      /\ c \in Call /\ c.wf \in Workflows /\ c.snap \in JournalRow
      /\ c.base \in StepResult /\ c.slot \in Nat
      /\ (c.pc # "idle" => plan[c.wf].made)
      /\ (c.pc \in Looping => c.slot \in plan[c.wf].steps)
      /\ spent \in [Kind -> Nat] /\ journal[c.wf] \in JournalRow
  BY CallFields DEF Typing, TypeOK
<1>2. /\ challenges \in SUBSET Challenge /\ confirmations \in SUBSET Confirmation
      /\ {"plain", "inner", "catch", "outer"} \subseteq Level
  BY <1>1 DEF TypeOK, Level
<1>3. ASSUME c.pc \in Looping
      PROVE  /\ c.slot \in Slot /\ c.slot \in Slots(c.wf) /\ plan[c.wf].made
             /\ context.dest[DestOf[Key(c.wf, c.slot)]].rev \in Nat
  BY <1>1, <1>3, PlanSteps, NewRecordType
<1>4. CASE ExecuteLoad(p)
  <2> DEFINE n == [c EXCEPT !.pc = "e_read", !.snap = journal[c.wf],
                            !.base = journal[c.wf].steps[c.slot]]
  <2>1. c.pc \in Looping /\ c.pc # "idle" /\ LocalStep /\ UNCHANGED spent /\ Become(p, n)
    BY <1>4 DEF ExecuteLoad, At, Looping
  <2>2. journal[c.wf].steps[c.slot] \in StepResult
    BY <1>1, <1>3, <2>1 DEF JournalRow
  <2>3. n \in Call /\ n.slot = c.slot /\ n.wf = c.wf
    <3> HIDE DEF c
    <3> QED
      BY <1>1, <2>2 DEF Call, Step
  <2> HIDE DEF n
  <2>4. Moves(p)
    BY <1>1, <2>1, <2>3 DEF Moves, InPlan
  <2> QED
    BY <1>1, <2>1, <2>4, LocalTyping
<1>5. CASE ExecuteRead(p)
  <2>1. c.pc \in Looping /\ c.pc # "idle" /\ LocalStep
    BY <1>5 DEF ExecuteRead, At, Looping
  <2>2. spent' \in [Kind -> Nat]
    BY <1>1, <1>5, SpendType DEF ExecuteRead, Kind
  <2>3. Result(c.base, "uncertain", "READBACK_FAILED", TRUE) \in StepResult
    BY <1>1 DEF Result, StepResult, StepStatus, ErrorCode
  <2>4. \/ ReadFound(p, c) \/ ReadMissing(p, c)
        \/ Update(p, c, Result(c.base, "uncertain", "READBACK_FAILED", TRUE), "plain", TRUE)
    BY <1>5 DEF ExecuteRead
  <2>5. Moves(p)
    BY <1>1, <1>2, <2>1, <2>3, <2>4, ReadFoundMoves, ReadMissingMoves, UpdateMoves
  <2> QED
    BY <2>1, <2>2, <2>5, LocalTyping
<1>6. CASE ExecuteCheck(p)
  <2> DEFINE found == context.dest[DestOf[Key(c.wf, c.slot)]].rev
             n == [c EXCEPT !.pc = "e_run", !.now = 0, !.drev = found, !.tok = c.snap.auth.token]
  <2>1. c.pc \in Looping /\ c.pc # "idle" /\ LocalStep
    BY <1>6 DEF ExecuteCheck, At, Looping
  <2>2. spent' \in [Kind -> Nat]
    BY <1>1, <1>6, SpendType DEF ExecuteCheck, Kind
  <2>3. /\ Result(c.base, "failed", "STALE", FALSE) \in StepResult
        /\ Result(c.base, "failed", "PRECONDITION_FAILED", FALSE) \in StepResult
    BY <1>1 DEF Result, StepResult, StepStatus, ErrorCode
  <2>4. \/ Become(p, n)
        \/ Update(p, c, Result(c.base, "failed", "STALE", FALSE), "outer", TRUE)
        \/ Update(p, c, Result(c.base, "failed", "PRECONDITION_FAILED", FALSE), "outer", TRUE)
    BY <1>6 DEF ExecuteCheck
  <2>5. n \in Call /\ n.slot = c.slot /\ n.wf = c.wf
    <3>1. found \in Nat /\ c.snap.auth.token \in Nat
      BY <1>1, <1>3, <2>1 DEF JournalRow, Authorization
    <3> HIDE DEF c, found
    <3> QED
      BY <1>1, <3>1 DEF Call, Step
  <2> HIDE DEF n
  <2>6. Become(p, n) => Moves(p)
    BY <1>1, <2>1, <2>5 DEF Moves, InPlan
  <2>7. Moves(p)
    BY <1>1, <1>2, <2>1, <2>3, <2>4, <2>6, UpdateMoves
  <2> QED
    BY <2>1, <2>2, <2>7, LocalTyping
<1>7. CASE ExecuteRun(p)
  <2> DEFINE n == [c EXCEPT !.pc = "e_apply", !.snap = NoWorkflow]
  <2>1. c.pc \in Looping /\ c.pc # "idle" /\ JournalStep
    BY <1>7 DEF ExecuteRun, At, Looping
  <2>2. PICK out \in Outcome :
          /\ Save(c.wf, c.snap, Started(c), out)
          /\ \/ Become(p, n) \/ Return(p)
             \/ Update(p, c, Result(c.base, "failed", CodeOf(out), FALSE), "outer", TRUE)
    BY <1>7 DEF ExecuteRun
  <2>3. Result(c.base, "failed", CodeOf(out), FALSE) \in StepResult
    BY <1>1 DEF Result, CodeOf, StepResult, StepStatus, ErrorCode
  <2>4. n \in Call /\ n.slot = c.slot /\ n.wf = c.wf
    <3> HIDE DEF c
    <3> QED
      BY <1>1, NoWorkflowType DEF Call, Step
  <2> HIDE DEF n
  <2>5. Become(p, n) => Moves(p)
    BY <1>1, <2>1, <2>4 DEF Moves, InPlan
  <2>6. Moves(p)
    BY <1>1, <1>2, <2>1, <2>2, <2>3, <2>5, UpdateMoves, ReturnMoves
  <2> QED
    BY <1>1, <1>2, <2>1, <2>2, <2>6, RowTypes, StoreTyping DEF JournalStep
<1> QED
  BY <1>4, <1>5, <1>6, <1>7

LEMMA CommitType ==
  ASSUME Typing, NEW p \in Callers, call[p].pc \in Looping, Commit(p, call[p])
  PROVE  /\ context' \in Context /\ records' \in SUBSET LocalRecord
         /\ created' \in SUBSET Creation /\ UNCHANGED <<plan, journal, clock>>
<1> DEFINE c == call[p]
<1>1. /\ TypeOK /\ PlanOK /\ c.wf \in Workflows /\ c.slot \in plan[c.wf].steps
      /\ c.tok \in Nat
  BY CallFields DEF Typing
<1>2. c.slot \in Slots(c.wf) /\ c.slot \in Slot /\ c.slot \in Nat
  BY <1>1, PlanSteps
<1>3. /\ NewRecord(c.wf, c.slot) \in LocalRecord
      /\ context.dest[DestOf[Key(c.wf, c.slot)]].rev \in Nat
      /\ DestOf[Key(c.wf, c.slot)] \in Destinations
  BY <1>1, <1>2, NewRecordType, KeyType
<1>4. context' \in Context
  BY <1>1, <1>3 DEF Commit, CommitRecord, TypeOK, HostTypeOK, Context, DestinationRow
<1>5. created' \in SUBSET Creation
  BY <1>1, <1>3 DEF Commit, TypeOK, Creation
<1> QED
  BY <1>1, <1>3, <1>4, <1>5 DEF Commit, CommitRecord, TypeOK, HostTypeOK

\* The commit of a step of execute, and the end of execute.
LEMMA CommitTyping ==
  ASSUME Typing, NEW p \in Callers,
         ExecuteApply(p) \/ ExecuteReadBack(p) \/ ExecuteFinal(p) \/ ExecuteClose(p)
  PROVE  Typing'
<1> DEFINE c == call[p]
<1>1. /\ TypeOK /\ PlanOK /\ InPlan(c)
      /\ c \in Call /\ c.wf \in Workflows /\ c.snap \in JournalRow
      /\ c.base \in StepResult /\ c.slot \in Nat
      /\ (c.pc # "idle" => plan[c.wf].made)
      /\ (c.pc \in Looping => c.slot \in plan[c.wf].steps)
      /\ spent \in [Kind -> Nat] /\ journal[c.wf] \in JournalRow
  BY CallFields DEF Typing, TypeOK
<1>2. /\ challenges \in SUBSET Challenge /\ confirmations \in SUBSET Confirmation
      /\ {"plain", "inner", "catch", "outer"} \subseteq Level
  BY <1>1 DEF TypeOK, Level
<1>3. CASE ExecuteApply(p)
  <2> DEFINE n == [InStep(p, "e_back", c) EXCEPT !.pc = "e_back"]
             answer == CommitAnswer(c.wf, c.slot, c.tok, c.drev)
             failed == Result(Running(c.base), "failed", answer, FALSE)
  <2>1. c.pc \in Looping /\ c.pc # "idle" /\ UNCHANGED <<tokens, challenges, confirmations>>
    BY <1>3 DEF ExecuteApply, At, Looping
  <2>2. n \in Call /\ n.slot = c.slot /\ n.wf = c.wf
    <3> HIDE DEF c
    <3> QED
      BY <1>1, NoWorkflowType, PendingType DEF InStep, Fresh, NoCall, Call, Step, Level
  <2>3. \/ Become(p, n)
        \/ OutcomeUnknown(p, c)
        \/ answer \notin {"existing", "commit"} /\ Update(p, c, failed, "catch", TRUE)
    BY <1>3 DEF ExecuteApply
  <2>4. \/ Commit(p, c)
        \/ UNCHANGED <<context, plan, journal, records, clock, created>>
    BY <1>3 DEF ExecuteApply, hostVars
  <2>5. spent' \in [Kind -> Nat]
    BY <1>1, <1>3, SpendType DEF ExecuteApply, Kind
  <2>6. answer \notin {"existing", "commit"} => failed \in StepResult
    <3>1. answer \in ErrorCode \cup {"existing", "commit"}
      BY DEF CommitAnswer, ErrorCode
    <3> HIDE DEF answer, c
    <3> QED
      BY <1>1, <3>1 DEF Result, Running, StepResult, StepStatus, ErrorCode
  <2> HIDE DEF n, failed
  <2>7. Become(p, n) => Moves(p)
    BY <1>1, <2>1, <2>2 DEF Moves, InPlan
  <2>8. Moves(p)
    BY <1>1, <1>2, <2>1, <2>3, <2>6, <2>7, OutcomeUnknownMoves, UpdateMoves
  <2>9. /\ context' \in Context /\ records' \in SUBSET LocalRecord
        /\ created' \in SUBSET Creation /\ UNCHANGED <<plan, journal, clock>>
    BY <1>1, <2>1, <2>4, CommitType DEF TypeOK, HostTypeOK
  <2>10. call' \in [Callers -> Call] /\ CallOK'
    BY <2>8, <2>9, MovesTyping
  <2> QED
    BY <2>1, <2>5, <2>9, <2>10 DEF Typing, TypeOK, HostTypeOK, PlanOK
<1>4. CASE ExecuteReadBack(p)
  <2>1. c.pc \in Looping /\ c.pc # "idle" /\ LocalStep
    BY <1>4 DEF ExecuteReadBack, At, Looping
  <2>2. spent' \in [Kind -> Nat]
    BY <1>1, <1>4, SpendType DEF ExecuteReadBack, Kind
  <2>3. PICK result \in StepResult :
          Update(p, c, result, "inner", FALSE) \/ Update(p, c, result, "inner", TRUE)
          \/ OutcomeUnknown(p, c)
    <3>1. Result(Running(c.base), "uncertain", "READBACK_MISMATCH", TRUE) \in StepResult
      BY <1>1 DEF Running, Result, StepResult, StepStatus, ErrorCode
    <3>2. \A r \in records : Verified(c.base, r.rev) \in StepResult
      BY <1>1, RecordType, VerifiedType
    <3> QED
      BY <1>4, <3>1, <3>2 DEF ExecuteReadBack, Existing
  <2>4. Moves(p)
    BY <1>1, <1>2, <2>1, <2>3, OutcomeUnknownMoves, UpdateMoves
  <2> QED
    BY <2>1, <2>2, <2>4, LocalTyping
<1>5. CASE ExecuteFinal(p)
  <2> DEFINE n == [c EXCEPT !.pc = "e_close", !.snap = journal[c.wf]]
  <2>1. /\ c.pc # "idle" /\ LocalStep /\ UNCHANGED spent
        /\ Return(p) \/ Become(p, n)
    BY <1>5 DEF ExecuteFinal, At
  <2>2. n \in Call /\ n.pc = "e_close" /\ n.wf = c.wf
    <3> HIDE DEF c
    <3> QED
      BY <1>1 DEF Call, Step
  <2> HIDE DEF n
  <2>3. Moves(p)
    BY <1>1, <2>1, <2>2, ReturnMoves DEF Moves, InPlan, Looping
  <2> QED
    BY <1>1, <2>1, <2>3, LocalTyping
<1>6. CASE ExecuteClose(p)
  <2>1. PICK out \in Outcome : Save(c.wf, c.snap, Closed(c.wf, c.snap), out)
    BY <1>6 DEF ExecuteClose
  <2>2. Moves(p) /\ JournalStep
    BY <1>6, ReturnMoves DEF ExecuteClose
  <2> QED
    BY <1>1, <1>2, <2>1, <2>2, RowTypes, StoreTyping DEF JournalStep
<1> QED
  BY <1>3, <1>4, <1>5, <1>6

LEMMA PlanForType ==
  ASSUME TypeOK, NEW w \in Workflows
  PROVE  /\ PlanFor(w, context, clock) \in Plan
         /\ PlanFor(w, context, clock).made
         /\ PlanFor(w, context, clock).steps \subseteq Slots(w)
         /\ ~PlanFor(w, context, clock).held => PlanFor(w, context, clock).steps = Slots(w)
<1>1. context \in Context /\ clock \in Nat /\ clock + PlanLife \in Nat
  BY HostConstants DEF TypeOK, HostTypeOK
<1>2. Slots(w) \subseteq Slot
  BY DEF Slot
<1>3. [d \in Destinations |-> context.dest[d].rev] \in [Destinations -> Nat]
  BY <1>1 DEF Context, DestinationRow
<1> QED
  BY <1>1, <1>2, <1>3 DEF PlanFor, Plan, Context

LEMMA PlanTyping ==
  ASSUME Typing, NEW w \in Workflows, PreparePlan(w)
  PROVE  Typing'
<1>1. /\ ~plan[w].made /\ plan' = [plan EXCEPT ![w] = PlanFor(w, context, clock)]
      /\ spent' \in [Kind -> Nat]
      /\ UNCHANGED <<context, journal, records, clock, call, tokens, challenges,
                     confirmations, created>>
  BY SpendType DEF PreparePlan, Typing, TypeOK, Kind, Operation
<1>2. plan \in [Workflows -> Plan] /\ PlanFor(w, context, clock) \in Plan
  BY PlanForType DEF Typing, TypeOK, HostTypeOK
<1>3. TypeOK'
  BY <1>1, <1>2 DEF Typing, TypeOK, HostTypeOK
<1>4. PlanOK'
  BY <1>1, <1>2, PlanForType DEF Typing, PlanOK
<1>5. CallOK'
  <2> SUFFICES ASSUME NEW p \in Callers PROVE InPlan(call[p])'
    BY DEF CallOK
  <2>1. InPlan(call[p]) /\ call[p].wf \in Workflows
    BY CallFields
  <2>2. CASE call[p].wf = w
    BY <1>1, <2>1, <2>2 DEF InPlan, Looping
  <2>3. CASE call[p].wf # w
    BY <1>1, <1>2, <2>1, <2>3 DEF InPlan
  <2> QED
    BY <2>2, <2>3
<1> QED
  BY <1>3, <1>4, <1>5 DEF Typing

LEMMA SurroundingsTyping ==
  ASSUME Typing, Surroundings
  PROVE  Typing'
<1>1. /\ context' \in Context /\ records' \in SUBSET LocalRecord /\ clock' \in Nat
      /\ UNCHANGED <<plan, journal, call, tokens, challenges, confirmations, created>>
  <2>1. CASE Tick
    BY <2>1 DEF Tick, Typing, TypeOK, HostTypeOK
  <2>2. CASE LoseRecord
    BY <2>2 DEF LoseRecord, Typing, TypeOK, HostTypeOK
  <2>3. CASE EditContext
    <3>1. PICK label \in Edits, d \in Destinations :
            \E next \in Edited(label, d) : ReplaceContext(next)
      BY <2>3 DEF EditContext
    <3>2. PICK next \in Edited(label, d) : ReplaceContext(next)
      BY <3>1
    <3>3. context \in Context
      BY DEF Typing, TypeOK, HostTypeOK
    <3>4. next \in Context
      <4>1. label \in Edit
        BY CallConstants
      <4>2. context.dest[d].rev + 1 \in Nat /\ context.perm.rev + 1 \in Nat
        BY <3>3 DEF Context, DestinationRow, Permissions
      <4>3. CASE label = "facts"
        BY <3>2, <3>3, <4>3 DEF Edited, Context
      <4>4. CASE label = "permission"
        BY <3>2, <3>3, <4>2, <4>4 DEF Edited, Context, Permissions
      <4>5. CASE label = "destination"
        BY <3>2, <3>3, <4>2, <4>5 DEF Edited, Context, DestinationRow
      <4>6. CASE label = "remove"
        BY <3>2, <3>3, <4>6 DEF Edited, Context, DestinationRow
      <4>7. CASE label = "restore"
        BY <3>2, <3>3, <4>7 DEF Edited, Context, DestinationRow
      <4> QED
        BY <4>1, <4>3, <4>4, <4>5, <4>6, <4>7 DEF Edit
    <3> QED
      BY <2>3, <3>2, <3>4 DEF EditContext, ReplaceContext, Typing, TypeOK, HostTypeOK
  <2> QED
    BY <2>1, <2>2, <2>3 DEF Surroundings
<1>2. spent' \in [Kind -> Nat]
  BY SpendType DEF Surroundings, Tick, EditContext, LoseRecord, Typing, TypeOK, Kind
<1> QED
  BY <1>1, <1>2 DEF Typing, TypeOK, HostTypeOK, PlanOK, CallOK, InPlan

LEMMA InitTyping == Init => Typing
<1> SUFFICES ASSUME Init PROVE Typing
  OBVIOUS
<1>1. context \in Context
  BY DEF Init, HostInit, Context, Permissions, DestinationRow
<1>2. plan \in [Workflows -> Plan]
  <2>1. context.facts \in FactSets /\ context.perm \in Permissions
    BY <1>1 DEF Context
  <2> QED
    BY <2>1 DEF Init, HostInit, Plan
<1>3. journal \in [Workflows -> JournalRow]
  BY NoWorkflowType DEF Init, HostInit
<1>4. call \in [Callers -> Call] /\ CallOK
  BY NoCallType DEF Init, CallOK, InPlan, NoCall, Looping
<1>5. PlanOK
  BY DEF Init, HostInit, PlanOK
<1> QED
  BY <1>1, <1>2, <1>3, <1>4, <1>5 DEF Init, HostInit, Typing, TypeOK, HostTypeOK

LEMMA StepTyping == Typing /\ [Next]_vars => Typing'
<1> SUFFICES ASSUME Typing, [Next]_vars PROVE Typing'
  OBVIOUS
<1>1. CASE UNCHANGED vars
  BY <1>1 DEF vars, hostVars, callVars, Typing, TypeOK, HostTypeOK, PlanOK, CallOK, InPlan
<1>2. ASSUME NEW w \in Workflows, PreparePlan(w) PROVE Typing'
  BY <1>2, PlanTyping
<1>3. ASSUME NEW p \in Callers, Start(p) \/ Handler(p) \/ Crash(p) PROVE Typing'
  BY <1>3, StartTyping, ConfirmationTyping, UpdateTyping, PreflightTyping, CommitTyping
  DEF Handler
<1> QED
  BY <1>1, <1>2, <1>3, SurroundingsTyping DEF Next

\* Every value the workflow protocol stores, journals, or keeps across an await
\* has its type, and a call in a loop is on a step of its plan: no result is
\* ever written under a step the plan does not have (restoreLocalWorkflow).
THEOREM TypesHold == Spec => [](TypeOK /\ PlanOK /\ CallOK)
<1>1. Init => Typing
  BY InitTyping
<1>2. Typing /\ [Next]_vars => Typing'
  BY StepTyping
<1> QED
  BY <1>1, <1>2, PTL DEF Spec, Typing

\* Every variable keeps its type, for any callers, workflows and limits.
THEOREM Types == Spec => []TypeOK
  BY TypesHold, PTL
=============================================================================
