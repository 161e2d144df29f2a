--------------------- MODULE LocalWorkflowJournalProofs ---------------------
(* The journal of LocalWorkflow: compare-and-swap loses no row, every row    *)
(* can be restored, and cancellation is final.                               *)
EXTENDS LocalWorkflowTypeProofs

-----------------------------------------------------------------------------
(* How a step may change the journal, and which copies stay good.            *)

Journaling == Typing /\ JournalOK /\ CopiesOK /\ StatusOK

Evolves(w) ==
  \/ journal'[w] = journal[w]
  \/ /\ plan[w].made /\ journal'[w].status # "absent" /\ Restorable(w, journal'[w])
     /\ journal[w].status = "absent" \/ journal'[w].rev = journal[w].rev + 1
     /\ journal[w].status = "cancelled" => journal'[w].status = "cancelled"

JournalEvolves == \A w \in Workflows : Evolves(w)

LEMMA SaveWrites ==
  ASSUME NEW w, NEW row, NEW next, NEW out, Save(w, row, next, out)
  PROVE  \/ UNCHANGED journal
         \/ /\ Matches(w, row) /\ Restorable(w, next)
            /\ journal' = [journal EXCEPT ![w] = Advance(row, next)]
  BY DEF Save

LEMMA AdvanceRestorable ==
  ASSUME NEW w \in Workflows, NEW row \in JournalRow, NEW next \in JournalRow,
         Restorable(w, next), NEW n \in Nat
  PROVE  Restorable(w, [next EXCEPT !.rev = n])
  BY DEF Restorable, IntentComplete, JournalRow

LEMMA SaveEvolves ==
  ASSUME Journaling, NEW p \in Callers, call[p].pc \in Holding,
         NEW next \in JournalRow, next.status # "absent",
         call[p].snap.status = "cancelled" => next.status = "cancelled",
         NEW out, Save(call[p].wf, call[p].snap, next, out)
  PROVE  /\ JournalEvolves
         /\ next.auth = call[p].snap.auth =>
              \A w \in Workflows : journal'[w].auth = journal[w].auth
         /\ journal'[call[p].wf] # journal[call[p].wf] =>
              /\ journal[call[p].wf] = call[p].snap
              /\ journal'[call[p].wf] = Advance(call[p].snap, next)
         /\ \A w \in Workflows \ {call[p].wf} : journal'[w] = journal[w]
<1> DEFINE c == call[p]
<1>1. /\ c.wf \in Workflows /\ c.snap \in JournalRow /\ journal[c.wf] \in JournalRow
      /\ journal \in [Workflows -> JournalRow]
      /\ CopyOK(c) /\ c.pc \notin {"idle", "c_ctx", "c_cas"} /\ plan[c.wf].made
  BY CallFields DEF Journaling, CopiesOK, Holding, Typing, TypeOK, HostTypeOK
<1>2. CASE UNCHANGED journal
  BY <1>2 DEF JournalEvolves, Evolves
<1>3. CASE /\ Matches(c.wf, c.snap) /\ Restorable(c.wf, next)
           /\ journal' = [journal EXCEPT ![c.wf] = Advance(c.snap, next)]
  <2>1. journal[c.wf] = c.snap /\ c.snap.rev \in Nat
    BY <1>1, <1>3 DEF Matches, CopyOK, JournalRow
  <2>2. journal'[c.wf] = [next EXCEPT !.rev = c.snap.rev + 1]
    BY <1>1, <1>3 DEF Advance
  <2>3. /\ journal'[c.wf].rev = journal[c.wf].rev + 1
        /\ journal'[c.wf].status = next.status
        /\ journal'[c.wf].auth = next.auth
    BY <2>1, <2>2 DEF JournalRow
  <2>4. Restorable(c.wf, journal'[c.wf])
    <3>1. c.snap.rev + 1 \in Nat
      BY <2>1
    <3>2. Restorable(c.wf, [next EXCEPT !.rev = c.snap.rev + 1])
      BY <1>1, <1>3, <3>1, AdvanceRestorable
    <3> QED
      BY <2>2, <3>2
  <2>5. \A w \in Workflows \ {c.wf} : journal'[w] = journal[w]
    BY <1>1, <1>3
  <2> QED
    BY <1>1, <1>3, <2>1, <2>3, <2>4, <2>5 DEF JournalEvolves, Evolves
<1> QED
  BY <1>2, <1>3, SaveWrites

LEMMA EvolvingCopies ==
  ASSUME Journaling, JournalEvolves, journal' \in [Workflows -> JournalRow],
         UNCHANGED plan, challenges \subseteq challenges', NEW q \in Callers
  PROVE  /\ call'[q] = call[q] => CopyOK(call[q])' /\ StatusKnown(call[q])'
         /\ JournalOK'
<1>1. /\ CopyOK(call[q]) /\ StatusKnown(call[q]) /\ call[q].wf \in Workflows
      /\ call[q].snap \in JournalRow /\ journal[call[q].wf] \in JournalRow
  BY CallFields DEF Journaling, CopiesOK, StatusOK
<1>2. Evolves(call[q].wf)
  BY <1>1 DEF JournalEvolves
<1>3. journal[call[q].wf].rev \in Nat /\ call[q].snap.rev \in Nat
  BY <1>1 DEF JournalRow
<1>4. call'[q] = call[q] => CopyOK(call[q])' /\ StatusKnown(call[q])'
  BY <1>1, <1>2, <1>3 DEF CopyOK, StatusKnown, Evolves, Holding
<1>5. JournalOK'
  <2> SUFFICES ASSUME NEW w \in Workflows
               PROVE  IF journal'[w].status = "absent" THEN journal'[w] = NoWorkflow
                      ELSE plan'[w].made /\ Restorable(w, journal[w])'
    BY DEF JournalOK
  <2>1. Evolves(w)
    BY DEF JournalEvolves
  <2>2. Restorable(w, journal'[w]) => Restorable(w, journal[w])'
    BY DEF Restorable, IntentComplete
  <2> QED
    BY <2>1, <2>2 DEF Evolves, Journaling, JournalOK, Restorable, IntentComplete
<1> QED
  BY <1>4, <1>5

\* No call enters the store of requestConfirmation.
NoRequest == \A q \in Callers : call'[q].pc = "r_cas" => call'[q] = call[q]

\* A call that goes on without a copy of the row.
Settles(p) ==
  \E n \in Call : /\ Become(p, n) /\ n.pc \notin Holding
                  /\ n.pc = "idle" \/ n.wf = call[p].wf

LEMMA ReturnSettles == ASSUME NEW p, Return(p) PROVE Settles(p)
  BY NoCallType DEF Return, Settles, NoCall, Holding

LEMMA FreshSettles ==
  ASSUME NEW p, NEW pc \in Step \ Holding, call[p].wf \in Workflows,
         Become(p, Fresh(p, pc, call[p].wf))
  PROVE  Settles(p)
<1>1. /\ Fresh(p, pc, call[p].wf) \in Call /\ Fresh(p, pc, call[p].wf).pc = pc
      /\ Fresh(p, pc, call[p].wf).wf = call[p].wf
  BY NoWorkflowType, PendingType DEF Fresh, NoCall, Call, Level
<1> QED
  BY <1>1 DEF Settles

LEMMA UpdateSettles ==
  ASSUME NEW p, call[p] \in Call, NEW result \in StepResult, NEW level \in Level,
         NEW last \in BOOLEAN, Update(p, call[p], result, level, last)
  PROVE  Settles(p)
<1> DEFINE c == call[p]
           n == [InStep(p, "u_load", c) EXCEPT !.upd = result, !.level = level, !.last = last]
<1>1. n \in Call /\ n.pc = "u_load" /\ n.wf = c.wf
  <2> HIDE DEF c
  <2> c \in Call
    BY DEF c
  <2> QED
    BY NoWorkflowType DEF InStep, Fresh, NoCall, Call, Step
<1>2. Become(p, n)
  BY DEF Update
<1> HIDE DEF n
<1> QED
  BY <1>1, <1>2 DEF Settles, Holding

LEMMA ProceedSettles ==
  ASSUME TypeOK, PlanOK, NEW p, NEW c \in Call, c.wf = call[p].wf, NEW last,
         Proceed(p, c, last)
  PROVE  Settles(p)
<1> DEFINE rest == StepAfter(plan[c.wf].steps, c.slot)
<1>1. c.wf \in Workflows
  BY DEF Call
<1>2. CASE Become(p, Fresh(p, "e_final", c.wf))
  BY <1>1, <1>2, FreshSettles DEF Step, Holding
<1>3. ASSUME NEW s \in rest, Become(p, [Fresh(p, "e_load", c.wf) EXCEPT !.slot = s])
      PROVE  Settles(p)
  <2>1. s \in Nat
    BY <1>1, PlanSteps DEF StepAfter
  <2> DEFINE n == [Fresh(p, "e_load", c.wf) EXCEPT !.slot = s]
  <2>2. n \in Call /\ n.pc = "e_load" /\ n.wf = c.wf
    BY <1>1, <2>1, NoWorkflowType, PendingType DEF Fresh, NoCall, Call, Step, Level
  <2> HIDE DEF n
  <2> QED
    BY <1>3, <2>2 DEF n, Settles, Holding
<1> QED
  BY <1>2, <1>3 DEF Proceed

LEMMA UpdateThrowsSettles ==
  ASSUME NEW p, call[p] \in Call, NEW out \in Outcome, UpdateThrows(p, call[p], out)
  PROVE  Settles(p)
<1> DEFINE c == call[p]
<1>1. /\ c.base \in StepResult
      /\ Result(Running(c.base), "uncertain", "COMMIT_OUTCOME_UNKNOWN", TRUE) \in StepResult
      /\ Result(c.base, "failed", CodeOf(out), FALSE) \in StepResult
  BY DEF Call, Result, Running, CodeOf, StepResult, StepStatus, ErrorCode
<1> QED
  BY <1>1, ReturnSettles, UpdateSettles DEF UpdateThrows, Level

LEMMA OutcomeUnknownSettles ==
  ASSUME NEW p, call[p] \in Call, OutcomeUnknown(p, call[p])
  PROVE  Settles(p)
<1>1. /\ call[p].base \in StepResult
      /\ Result(Running(call[p].base), "uncertain", "COMMIT_OUTCOME_UNKNOWN", TRUE) \in StepResult
  BY DEF Call, Result, Running, StepResult, StepStatus, ErrorCode
<1> QED
  BY <1>1, UpdateSettles DEF OutcomeUnknown, Level

\* A step of a call that keeps no copy, with whatever it stores.
LEMMA SettlingStep ==
  ASSUME Journaling, NEW p \in Callers, call[p].pc \notin {"idle", "c_ctx", "c_cas"},
         Settles(p), JournalEvolves, Typing', UNCHANGED plan, challenges \subseteq challenges'
  PROVE  Journaling' /\ NoRequest
<1>1. PICK n \in Call : /\ Become(p, n) /\ n.pc \notin Holding
                        /\ n.pc = "idle" \/ n.wf = call[p].wf
  BY DEF Settles
<1>2. /\ call \in [Callers -> Call] /\ journal' \in [Workflows -> JournalRow]
      /\ call[p].wf \in Workflows /\ CopyOK(call[p])
  BY CallFields DEF Journaling, Typing, TypeOK, HostTypeOK, CopiesOK
<1>3. journal'[call[p].wf].status # "absent"
  BY <1>2 DEF JournalEvolves, Evolves, CopyOK
<1>4. CopyOK(call[p])' /\ StatusKnown(call[p])'
  BY <1>1, <1>2, <1>3 DEF Become, CopyOK, StatusKnown, Holding
<1>5. \A q \in Callers \ {p} : call'[q] = call[q]
  BY <1>1, <1>2 DEF Become
<1>6. \A q \in Callers : CopyOK(call[q])' /\ StatusKnown(call[q])'
  BY <1>2, <1>4, <1>5, EvolvingCopies
<1>7. JournalOK'
  BY <1>2, EvolvingCopies
<1>8. NoRequest
  BY <1>1, <1>2, <1>5 DEF Become, NoRequest, Holding
<1> QED
  BY <1>6, <1>7, <1>8 DEF Journaling, CopiesOK, StatusOK

\* A step of a call that reads or keeps a copy.
LEMMA CopyingStep ==
  ASSUME Journaling, NEW p \in Callers, NEW n \in Call, Become(p, n),
         JournalEvolves, Typing', UNCHANGED plan, challenges \subseteq challenges',
         \/ n.pc \in {"idle", "c_ctx", "c_cas"}
         \/ n.snap = journal'[n.wf] /\ journal'[n.wf].status # "absent"
         \/ UNCHANGED journal /\ CopyOK(n),
         StatusKnown(n)
  PROVE  Journaling' /\ (n.pc # "r_cas" => NoRequest)
<1>1. /\ call \in [Callers -> Call] /\ journal' \in [Workflows -> JournalRow]
      /\ n.wf \in Workflows
  BY DEF Journaling, Typing, TypeOK, HostTypeOK, Call
<1>2. call'[p] = n /\ \A q \in Callers \ {p} : call'[q] = call[q]
  BY <1>1 DEF Become
<1>3. journal'[n.wf].rev \in Nat
  BY <1>1 DEF JournalRow
<1>4. CopyOK(call[p])' /\ StatusKnown(call[p])'
  BY <1>1, <1>2, <1>3 DEF CopyOK, StatusKnown, Holding
<1>5. \A q \in Callers : CopyOK(call[q])' /\ StatusKnown(call[q])'
  BY <1>1, <1>2, <1>4, EvolvingCopies
<1>6. JournalOK'
  BY <1>1, EvolvingCopies
<1> QED
  BY <1>2, <1>5, <1>6 DEF Journaling, CopiesOK, StatusOK, NoRequest

LEMMA SameJournalEvolves == ASSUME UNCHANGED journal PROVE JournalEvolves
  BY DEF JournalEvolves, Evolves

LEMMA StartJournaling ==
  ASSUME Journaling, NEW p \in Callers, Start(p)
  PROVE  Journaling' /\ NoRequest
<1>1. /\ Typing /\ TypeOK /\ PlanOK /\ Typing' /\ challenges \subseteq challenges'
      /\ UNCHANGED <<plan, journal>> /\ JournalEvolves
  <2>1. UNCHANGED <<plan, journal, challenges>>
    BY DEF Start, CreateStart, RequestStart, CancelStart, ExecuteStart, VerifyStart,
           ConfirmStart, LocalStep, hostVars
  <2> QED
    BY <2>1, StartTyping, SameJournalEvolves DEF Journaling, Typing
<1>2. PICK w \in Workflows :
        \/ CreateStart(p, w) \/ RequestStart(p, w) \/ CancelStart(p, w)
        \/ ExecuteStart(p, w) \/ VerifyStart(p, w)
        \/ \E shown \in challenges : ConfirmStart(p, w, shown.tok)
  BY DEF Start
<1>3. journal[w] \in JournalRow /\ clock \in Nat
  BY <1>1 DEF TypeOK, HostTypeOK
<1>4. CASE CreateStart(p, w)
  <2>1. /\ Fresh(p, "c_ctx", w) \in Call /\ Fresh(p, "c_ctx", w).pc = "c_ctx"
    BY NoWorkflowType, PendingType DEF Fresh, NoCall, Call, Step, Level
  <2> QED
    BY <1>1, <1>4, <2>1, CopyingStep DEF CreateStart, StatusKnown
<1>5. CASE RequestStart(p, w) \/ CancelStart(p, w)
  <2>1. PICK pc \in {"r_ctx", "x_cas"} : Become(p, [Fresh(p, pc, w) EXCEPT !.snap = journal[w]])
    BY <1>5 DEF RequestStart, CancelStart
  <2> DEFINE n == [Fresh(p, pc, w) EXCEPT !.snap = journal[w]]
  <2>2. n \in Call /\ n.pc = pc /\ n.wf = w /\ n.snap = journal[w]
    BY <1>3, PendingType DEF Fresh, NoCall, Call, Step, Level
  <2>3. journal[w].status \notin {"absent", "cancelled"}
    BY <1>5 DEF RequestStart, CancelStart
  <2> HIDE DEF n
  <2>4. StatusKnown(n)
    BY <2>2, <2>3 DEF StatusKnown
  <2> QED
    BY <1>1, <2>1, <2>2, <2>3, <2>4, CopyingStep DEF n
<1>6. CASE ExecuteStart(p, w)
  <2> DEFINE e == Fresh(p, "e_load", w)
             rest == StepAfter(plan[w].steps, e.slot)
  <2>1. \A pc \in Step : /\ Fresh(p, pc, w) \in Call /\ Fresh(p, pc, w).wf = w
                          /\ Fresh(p, pc, w).pc = pc
    BY NoWorkflowType, PendingType DEF Fresh, NoCall, Call, Level
  <2>2. PICK n \in Call : Become(p, n) /\ n.wf = w /\ n.pc \in {"v_load", "e_final", "e_load"}
    <3>1. \A s \in rest : /\ [Fresh(p, "e_load", w) EXCEPT !.slot = s] \in Call
                          /\ [Fresh(p, "e_load", w) EXCEPT !.slot = s].wf = w
                          /\ [Fresh(p, "e_load", w) EXCEPT !.slot = s].pc = "e_load"
      <4>1. rest \subseteq Nat
        BY <1>1, PlanSteps DEF StepAfter
      <4> QED
        BY <4>1, NoWorkflowType, PendingType DEF Fresh, NoCall, Call, Step, Level
    <3>2. e.wf = w
      BY <2>1 DEF Step
    <3> HIDE DEF e
    <3>3. \/ Become(p, Fresh(p, "v_load", w)) \/ Become(p, Fresh(p, "e_final", w))
          \/ \E s \in rest : Become(p, [Fresh(p, "e_load", w) EXCEPT !.slot = s])
      BY <1>6, <3>2 DEF e, ExecuteStart, Proceed
    <3> QED
      BY <2>1, <3>1, <3>3 DEF Step
  <2>3. CopyOK(n) /\ StatusKnown(n)
    BY <1>6, <2>2 DEF ExecuteStart, CopyOK, StatusKnown, Holding
  <2> QED
    BY <1>1, <2>2, <2>3, CopyingStep
<1>7. CASE VerifyStart(p, w)
  <2>1. /\ Fresh(p, "v_load", w) \in Call /\ Fresh(p, "v_load", w).pc = "v_load"
        /\ Fresh(p, "v_load", w).wf = w
    BY NoWorkflowType, PendingType DEF Fresh, NoCall, Call, Step, Level
  <2>2. CopyOK(Fresh(p, "v_load", w)) /\ StatusKnown(Fresh(p, "v_load", w))
    BY <1>7, <2>1 DEF VerifyStart, CopyOK, StatusKnown, Holding
  <2> QED
    BY <1>1, <1>7, <2>1, <2>2, CopyingStep DEF VerifyStart
<1>8. ASSUME NEW shown \in challenges, ConfirmStart(p, w, shown.tok) PROVE Journaling' /\ NoRequest
  <2> DEFINE n == [Fresh(p, "k_ctx", w) EXCEPT !.snap = journal[w], !.now = clock]
  <2>1. n \in Call /\ n.pc = "k_ctx" /\ n.wf = w /\ n.snap = journal[w]
    BY <1>3, PendingType DEF Fresh, NoCall, Call, Step, Level
  <2>2. /\ Become(p, n) /\ journal[w].status = "awaiting_confirmation"
        /\ journal[w].auth.token # 0 /\ ~journal[w].auth.consumed
        /\ shown.tok = journal[w].auth.token
    BY <1>8 DEF ConfirmStart
  <2> HIDE DEF n
  <2>3. StatusKnown(n)
    BY <2>1, <2>2 DEF StatusKnown
  <2> QED
    BY <1>1, <2>1, <2>2, <2>3, CopyingStep
<1> QED
  BY <1>2, <1>4, <1>5, <1>6, <1>7, <1>8

AuthKept == \A w \in Workflows : journal'[w].auth = journal[w].auth

LEMMA SameJournalKept == ASSUME UNCHANGED journal PROVE AuthKept
  BY DEF AuthKept

\* What is known of a call in the proofs below.
LEMMA CallKnown ==
  ASSUME Journaling, NEW p \in Callers
  PROVE  /\ Typing /\ TypeOK /\ PlanOK /\ call[p] \in Call /\ call[p].wf \in Workflows
         /\ call[p].snap \in JournalRow /\ journal[call[p].wf] \in JournalRow
         /\ call[p].base \in StepResult /\ call[p].upd \in StepResult
         /\ call[p].slot \in Nat /\ CopyOK(call[p]) /\ StatusKnown(call[p])
         /\ call[p].pc # "idle" => plan[call[p].wf].made
         /\ call[p].pc \in Looping => call[p].slot \in plan[call[p].wf].steps
  BY CallFields DEF Journaling, Typing, CopiesOK, StatusOK

LEMMA ConfirmationJournaling ==
  ASSUME Journaling, NEW p \in Callers,
         \/ CreateCheck(p) \/ CreateStore(p) \/ RequestCheck(p) \/ RequestStore(p)
         \/ ConfirmCheck(p) \/ ConfirmStore(p) \/ CancelStore(p) \/ Crash(p)
  PROVE  /\ Journaling' /\ JournalEvolves
         /\ RequestStore(p) \/ ConfirmStore(p) \/ AuthKept
         /\ RequestCheck(p) \/ NoRequest
<1> DEFINE c == call[p]
<1>1. /\ Typing /\ TypeOK /\ PlanOK /\ c \in Call /\ c.wf \in Workflows
      /\ c.snap \in JournalRow /\ journal[c.wf] \in JournalRow
      /\ CopyOK(c) /\ StatusKnown(c)
      /\ (c.pc # "idle" => plan[c.wf].made)
  BY CallKnown
<1>2. Typing'
  BY <1>1, ConfirmationTyping
<1>3. ASSUME NEW pc \in Step
      PROVE  Fresh(p, pc, c.wf) \in Call /\ Fresh(p, pc, c.wf).pc = pc
  BY <1>1, NoWorkflowType, PendingType DEF Fresh, NoCall, Call, Level
<1>4. NoCall \in Call /\ NoCall.pc = "idle" /\ StatusKnown(NoCall)
  BY NoCallType DEF NoCall, StatusKnown
<1>5. CASE CreateCheck(p)
  <2>1. UNCHANGED <<plan, journal, challenges>>
    BY <1>5 DEF CreateCheck, LocalStep, hostVars
  <2>2. PICK n \in Call : Become(p, n) /\ n.pc \in {"idle", "c_cas"}
    BY <1>3, <1>4, <1>5 DEF CreateCheck, Return, Step
  <2>3. StatusKnown(n)
    BY <2>2 DEF StatusKnown
  <2> QED
    BY <1>2, <2>1, <2>2, <2>3, CopyingStep, SameJournalEvolves, SameJournalKept
<1>6. CASE CreateStore(p)
  <2>1. UNCHANGED <<plan, challenges>> /\ Become(p, NoCall)
    BY <1>6 DEF CreateStore, JournalStep, Return
  <2>2. \/ UNCHANGED journal
        \/ /\ journal[c.wf].status = "absent"
           /\ journal' = [journal EXCEPT ![c.wf].status = "awaiting_confirmation"]
    <3>1. CASE CanInsert(c.wf)
      BY <1>6, <3>1 DEF CreateStore, CanInsert
    <3>2. CASE ~CanInsert(c.wf)
      BY <1>6, <3>2 DEF CreateStore
    <3> QED
      BY <3>1, <3>2
  <2>3. JournalEvolves /\ AuthKept
    <3>1. CASE UNCHANGED journal
      BY <3>1, SameJournalEvolves, SameJournalKept
    <3>2. CASE /\ journal[c.wf].status = "absent"
               /\ journal' = [journal EXCEPT ![c.wf].status = "awaiting_confirmation"]
      <4> DEFINE row == [NoWorkflow EXCEPT !.status = "awaiting_confirmation"]
      <4>1. journal[c.wf] = NoWorkflow /\ c.pc # "idle" /\ plan[c.wf].steps \subseteq Slot
        BY <1>1, <1>6, <3>2 DEF Journaling, JournalOK, CreateStore, At, TypeOK, HostTypeOK, Plan
      <4>2. /\ row.status = "awaiting_confirmation" /\ row.auth = NoWorkflow.auth
            /\ \A s \in Slot : row.steps[s].status # "verified"
        BY DEF NoWorkflow, Pending
      <4>3. Restorable(c.wf, row)
        BY <4>1, <4>2 DEF Restorable
      <4>4. /\ journal'[c.wf] = row
            /\ \A w \in Workflows \ {c.wf} : journal'[w] = journal[w]
        BY <1>1, <3>2, <4>1 DEF TypeOK, HostTypeOK
      <4> HIDE DEF row
      <4> QED
        BY <1>1, <3>2, <4>1, <4>2, <4>3, <4>4 DEF JournalEvolves, Evolves, AuthKept
    <3> QED
      BY <2>2, <3>1, <3>2
  <2> QED
    BY <1>2, <1>4, <2>1, <2>3, CopyingStep
<1>7. CASE RequestCheck(p)
  <2>1. UNCHANGED <<plan, journal, challenges>> /\ c.pc = "r_ctx"
    BY <1>7 DEF RequestCheck, hostVars, At
  <2>2. PICK n \in Call : /\ Become(p, n) /\ StatusKnown(n)
                          /\ n.pc \in {"idle", "c_ctx", "c_cas"} \/ CopyOK(n)
    <3> DEFINE n == [c EXCEPT !.pc = "r_cas", !.now = clock, !.tok = tokens + 1]
    <3>1. Become(p, n) \/ Become(p, NoCall)
      BY <1>7 DEF RequestCheck, Return
    <3>2. n \in Call /\ n.pc = "r_cas" /\ n.wf = c.wf /\ n.snap = c.snap
      <4>1. clock \in Nat /\ tokens + 1 \in Nat
        BY <1>1 DEF TypeOK, HostTypeOK
      <4> HIDE DEF c
      <4> QED
        BY <1>1, <4>1 DEF Call, Step
    <3> HIDE DEF n
    <3>3. CopyOK(n) /\ StatusKnown(n)
      BY <1>1, <2>1, <3>2 DEF CopyOK, StatusKnown, Holding
    <3> QED
      BY <1>4, <3>1, <3>2, <3>3
  <2>3. JournalEvolves /\ AuthKept /\ challenges \subseteq challenges'
    BY <2>1, SameJournalEvolves, SameJournalKept
  <2> QED
    BY <1>2, <1>7, <2>1, <2>2, <2>3, CopyingStep
<1>8. CASE ConfirmCheck(p)
  <2>1. UNCHANGED <<plan, journal, challenges>> /\ c.pc = "k_ctx"
    BY <1>8 DEF ConfirmCheck, LocalStep, hostVars, At
  <2>2. PICK n \in Call : /\ Become(p, n) /\ StatusKnown(n)
                          /\ n.pc \in {"idle", "c_ctx", "c_cas"} \/ CopyOK(n)
                          /\ n.pc # "r_cas"
    <3> DEFINE n == [c EXCEPT !.pc = "k_cas", !.now = 0]
    <3>1. Become(p, n) \/ Become(p, NoCall)
      BY <1>8 DEF ConfirmCheck, Return
    <3>2. n \in Call /\ n.pc = "k_cas" /\ n.wf = c.wf /\ n.snap = c.snap
      <4> HIDE DEF c
      <4> QED
        BY <1>1 DEF Call, Step
    <3> HIDE DEF n
    <3>3. CopyOK(n) /\ StatusKnown(n)
      BY <1>1, <2>1, <3>2 DEF CopyOK, StatusKnown, Holding
    <3> QED
      BY <1>4, <3>1, <3>2, <3>3
  <2>3. JournalEvolves /\ AuthKept /\ challenges \subseteq challenges'
    BY <2>1, SameJournalEvolves, SameJournalKept
  <2> QED
    BY <1>2, <2>1, <2>2, <2>3, CopyingStep
<1>9. CASE RequestStore(p)
  <2>1. c.pc = "r_cas" /\ UNCHANGED plan /\ challenges \subseteq challenges' /\ Return(p)
    BY <1>9 DEF RequestStore, At
  <2>2. PICK out : Save(c.wf, c.snap, Requested(c), out)
    BY <1>9 DEF RequestStore
  <2>3. Requested(c) \in JournalRow /\ Requested(c).status = "awaiting_confirmation"
        /\ c.snap.status # "cancelled"
    BY <1>1, <2>1, RowTypes DEF Requested, StatusKnown, JournalRow
  <2>4. JournalEvolves
    BY <2>1, <2>2, <2>3, SaveEvolves DEF Holding
  <2> QED
    BY <1>2, <1>9, <2>1, <2>4, ReturnSettles, SettlingStep
<1>10. CASE ConfirmStore(p)
  <2>1. c.pc = "k_cas" /\ UNCHANGED <<plan, challenges>> /\ Return(p)
    BY <1>10 DEF ConfirmStore, At
  <2>2. PICK out : Save(c.wf, c.snap, Confirmed(c.snap), out)
    BY <1>10 DEF ConfirmStore
  <2>3. Confirmed(c.snap) \in JournalRow /\ Confirmed(c.snap).status = "ready"
        /\ c.snap.status # "cancelled"
    BY <1>1, <2>1, RowTypes DEF Confirmed, StatusKnown, JournalRow
  <2>4. JournalEvolves
    BY <2>1, <2>2, <2>3, SaveEvolves DEF Holding
  <2> QED
    BY <1>2, <1>10, <2>1, <2>4, ReturnSettles, SettlingStep
<1>11. CASE CancelStore(p)
  <2>1. c.pc = "x_cas" /\ UNCHANGED <<plan, challenges>> /\ Return(p)
    BY <1>11 DEF CancelStore, JournalStep, At
  <2>2. PICK out : Save(c.wf, c.snap, Cancelled(c.wf, c.snap), out)
    BY <1>11 DEF CancelStore
  <2>3. /\ Cancelled(c.wf, c.snap) \in JournalRow
        /\ Cancelled(c.wf, c.snap).status = "cancelled"
        /\ Cancelled(c.wf, c.snap).auth = c.snap.auth
    BY <1>1, <2>1, RowTypes DEF Cancelled, JournalRow
  <2>4. JournalEvolves /\ AuthKept
    BY <2>1, <2>2, <2>3, SaveEvolves DEF Holding, AuthKept
  <2> QED
    BY <1>2, <2>1, <2>4, ReturnSettles, SettlingStep
<1>12. CASE Crash(p)
  <2>1. UNCHANGED <<plan, journal, challenges>> /\ Become(p, NoCall)
    BY <1>12 DEF Crash, LocalStep, hostVars, Return
  <2> QED
    BY <1>2, <1>4, <2>1, CopyingStep, SameJournalEvolves, SameJournalKept
<1> QED
  BY <1>5, <1>6, <1>7, <1>8, <1>9, <1>10, <1>11, <1>12

LEMMA VerifyNextJournaling ==
  ASSUME Journaling, NEW p \in Callers, call[p].pc \notin {"idle", "c_ctx", "c_cas"},
         JournalEvolves, Typing', UNCHANGED <<plan, challenges>>,
         NEW row \in JournalRow, row = journal'[call[p].wf],
         NEW s, VerifyNext(p, call[p].wf, row, s)
  PROVE  Journaling' /\ NoRequest
<1> DEFINE w == call[p].wf
           due == {t \in plan[w].steps : row.steps[t].status \in {"verified", "running", "uncertain"}}
<1>1. /\ TypeOK /\ PlanOK /\ w \in Workflows /\ journal[w].status # "absent"
  BY CallKnown DEF CopyOK
<1>2. row.status # "absent"
  BY <1>1 DEF JournalEvolves, Evolves
<1>3. CASE Return(p)
  BY <1>3, ReturnSettles, SettlingStep
<1>4. ASSUME NEW t \in StepAfter(due, s),
             Become(p, [Fresh(p, "v_read", w) EXCEPT !.snap = row, !.slot = t,
                                                     !.base = row.steps[t]])
      PROVE  Journaling' /\ NoRequest
  <2>1. t \in Nat /\ row.steps[t] \in StepResult
    <3>1. t \in plan[w].steps
      BY DEF StepAfter
    <3> QED
      BY <1>1, <3>1, PlanSteps DEF JournalRow
  <2> DEFINE n == [Fresh(p, "v_read", w) EXCEPT !.snap = row, !.slot = t, !.base = row.steps[t]]
  <2>2. n \in Call /\ n.pc = "v_read" /\ n.wf = w /\ n.snap = row
    BY <1>1, <2>1, PendingType DEF Fresh, NoCall, Call, Step, Level
  <2> HIDE DEF n
  <2>3. StatusKnown(n)
    BY <2>2 DEF StatusKnown
  <2> QED
    BY <1>2, <1>4, <2>2, <2>3, CopyingStep DEF n
<1> QED
  BY <1>3, <1>4 DEF VerifyNext

LEMMA UpdateJournaling ==
  ASSUME Journaling, NEW p \in Callers,
         \/ UpdateLoad(p) \/ UpdateStore(p) \/ VerifyLoad(p) \/ VerifyRead(p)
         \/ VerifyStore(p)
  PROVE  Journaling' /\ JournalEvolves /\ AuthKept /\ NoRequest
<1> DEFINE c == call[p]
<1>1. /\ Typing /\ TypeOK /\ PlanOK /\ c \in Call /\ c.wf \in Workflows
      /\ c.snap \in JournalRow /\ journal[c.wf] \in JournalRow /\ CopyOK(c)
  BY CallKnown
<1>2. Typing'
  BY <1>1, UpdateTyping
<1>3. /\ Updated(c) \in JournalRow /\ Updated(c).status = c.snap.status
      /\ Updated(c).auth = c.snap.auth
  BY <1>1, RowTypes DEF Updated, JournalRow
<1>4. CASE UpdateLoad(p)
  <2>1. c.pc = "u_load" /\ UNCHANGED <<plan, journal, challenges>>
    BY <1>4 DEF UpdateLoad, LocalStep, hostVars, At
  <2>2. JournalEvolves /\ AuthKept /\ challenges \subseteq challenges'
    BY <2>1, SameJournalEvolves, SameJournalKept
  <2> DEFINE n == [c EXCEPT !.pc = "u_cas", !.snap = journal[c.wf]]
  <2>3. Become(p, n) \/ UpdateThrows(p, c, "error")
    BY <1>4 DEF UpdateLoad
  <2>4. CASE Become(p, n)
    <3>1. n \in Call /\ n.pc = "u_cas" /\ n.wf = c.wf /\ n.snap = journal[c.wf]
      <4> HIDE DEF c
      <4> QED
        BY <1>1 DEF Call, Step
    <3>2. journal[c.wf].status # "absent"
      BY <1>1, <2>1 DEF CopyOK
    <3> HIDE DEF n
    <3>3. StatusKnown(n)
      BY <3>1 DEF StatusKnown
    <3> QED
      BY <1>2, <2>1, <2>2, <2>4, <3>1, <3>2, <3>3, CopyingStep
  <2>5. CASE UpdateThrows(p, c, "error")
    BY <1>1, <1>2, <2>1, <2>2, <2>5, UpdateThrowsSettles, SettlingStep DEF Outcome
  <2> QED
    BY <2>3, <2>4, <2>5
<1>5. CASE UpdateStore(p)
  <2>1. c.pc = "u_cas" /\ UNCHANGED <<plan, challenges>>
    BY <1>5 DEF UpdateStore, JournalStep, At
  <2> DEFINE n == [c EXCEPT !.pc = "u_load", !.snap = NoWorkflow, !.tries = @ + 1]
  <2>2. PICK out \in Outcome :
          /\ Save(c.wf, c.snap, Updated(c), out)
          /\ Proceed(p, c, c.last) \/ Become(p, n) \/ UpdateThrows(p, c, out)
    BY <1>5 DEF UpdateStore
  <2>3. c.snap.status # "absent"
    BY <1>1, <2>1 DEF CopyOK, Holding
  <2>4. JournalEvolves /\ AuthKept
    BY <1>3, <2>1, <2>2, <2>3, SaveEvolves DEF Holding, AuthKept
  <2>5. Become(p, n) => Settles(p)
    <3>1. n \in Call /\ n.pc = "u_load" /\ n.wf = c.wf
      <4>1. c.tries + 1 \in Nat
        BY <1>1 DEF Call
      <4> HIDE DEF c
      <4> QED
        BY <1>1, <4>1, NoWorkflowType DEF Call, Step
    <3> HIDE DEF n
    <3> QED
      BY <3>1 DEF Settles, Holding
  <2> HIDE DEF n
  <2>6. Settles(p)
    BY <1>1, <2>2, <2>5, ProceedSettles, UpdateThrowsSettles
  <2> QED
    BY <1>2, <2>1, <2>4, <2>6, SettlingStep
<1>6. CASE VerifyLoad(p)
  <2>1. c.pc = "v_load" /\ UNCHANGED <<plan, journal, challenges>>
    BY <1>6 DEF VerifyLoad, LocalStep, hostVars, At
  <2>2. VerifyNext(p, c.wf, journal[c.wf], 0)
    BY <1>6 DEF VerifyLoad
  <2> QED
    BY <1>1, <1>2, <2>1, <2>2, VerifyNextJournaling, SameJournalEvolves, SameJournalKept
<1>7. CASE VerifyRead(p)
  <2>1. c.pc = "v_read" /\ UNCHANGED <<plan, journal, challenges>>
    BY <1>7 DEF VerifyRead, LocalStep, hostVars, At
  <2>2. JournalEvolves /\ AuthKept /\ challenges \subseteq challenges'
    BY <2>1, SameJournalEvolves, SameJournalKept
  <2>3. PICK result \in StepResult : Become(p, [c EXCEPT !.pc = "v_cas", !.upd = result])
    <3>1. NoRecord(Result(c.base, "uncertain", "READBACK_MISMATCH", FALSE)) \in StepResult
      BY CallKnown DEF NoRecord, Result, StepResult, StepStatus, ErrorCode
    <3>2. \A r \in records : Verified(c.base, r.rev) \in StepResult
      BY <1>1, RecordType, VerifiedType
    <3> QED
      BY <1>7, <3>1, <3>2 DEF VerifyRead, Existing
  <2> DEFINE n == [c EXCEPT !.pc = "v_cas", !.upd = result]
  <2>4. n \in Call /\ n.pc = "v_cas" /\ n.wf = c.wf /\ n.snap = c.snap
    <3> HIDE DEF c
    <3> QED
      BY <1>1 DEF Call, Step
  <2> HIDE DEF n
  <2>5. CopyOK(n) /\ StatusKnown(n)
    BY <1>1, <2>1, <2>4 DEF CopyOK, StatusKnown, Holding
  <2> QED
    BY <1>2, <2>1, <2>2, <2>3, <2>4, <2>5, CopyingStep DEF n
<1>8. CASE VerifyStore(p)
  <2>1. c.pc = "v_cas" /\ UNCHANGED <<plan, challenges>>
    BY <1>8 DEF VerifyStore, JournalStep, At
  <2>2. PICK out \in Outcome :
          /\ Save(c.wf, c.snap, Reconciled(c), out)
          /\ IF out = "ok"
             THEN VerifyNext(p, c.wf, Advance(c.snap, Reconciled(c)), c.slot)
             ELSE Return(p)
    BY <1>8 DEF VerifyStore
  <2>3. c.snap.status # "absent"
    BY <1>1, <2>1 DEF CopyOK, Holding
  <2>4. /\ Reconciled(c) \in JournalRow /\ Reconciled(c).status # "absent"
        /\ c.snap.status = "cancelled" => Reconciled(c).status = "cancelled"
        /\ Reconciled(c).auth = c.snap.auth
    <3>1. Reconciled(c) \in JournalRow
      BY <1>1, RowTypes
    <3> DEFINE row == [c.snap EXCEPT !.steps[c.slot] = c.upd]
    <3>2. row \in JournalRow /\ row.status = c.snap.status /\ row.auth = c.snap.auth
      BY <1>1 DEF JournalRow, Call
    <3>3. Reconciled(c) = IF row.status = "cancelled" THEN row ELSE Closed(c.wf, row)
      BY DEF Reconciled
    <3> HIDE DEF row
    <3>4. /\ Closed(c.wf, row).status \in {"completed", "partial"}
          /\ Closed(c.wf, row).auth = row.auth
      BY <3>2 DEF Closed, JournalRow
    <3> QED
      BY <2>3, <3>1, <3>2, <3>3, <3>4
  <2>5. JournalEvolves /\ AuthKept
    BY <2>1, <2>2, <2>4, SaveEvolves DEF Holding, AuthKept
  <2>6. CASE out = "ok"
    <3>1. journal' = [journal EXCEPT ![c.wf] = Advance(c.snap, Reconciled(c))]
      BY <2>2, <2>6 DEF Save
    <3>2. journal'[c.wf] = Advance(c.snap, Reconciled(c))
      BY <1>1, <3>1 DEF TypeOK, HostTypeOK
    <3> QED
      BY <1>1, <1>2, <2>1, <2>2, <2>4, <2>5, <2>6, <3>2, AdvanceType, VerifyNextJournaling
  <2>7. CASE out # "ok"
    BY <1>2, <2>1, <2>2, <2>5, <2>7, ReturnSettles, SettlingStep
  <2> QED
    BY <2>6, <2>7
<1> QED
  BY <1>4, <1>5, <1>6, <1>7, <1>8

LEMMA PreflightJournaling ==
  ASSUME Journaling, NEW p \in Callers,
         ExecuteLoad(p) \/ ExecuteRead(p) \/ ExecuteCheck(p) \/ ExecuteRun(p)
  PROVE  Journaling' /\ JournalEvolves /\ AuthKept /\ NoRequest
<1> DEFINE c == call[p]
<1>1. /\ Typing /\ TypeOK /\ PlanOK /\ c \in Call /\ c.wf \in Workflows
      /\ c.snap \in JournalRow /\ journal[c.wf] \in JournalRow /\ CopyOK(c)
      /\ StatusKnown(c) /\ c.base \in StepResult
      /\ (c.pc \in Looping => c.slot \in plan[c.wf].steps)
      /\ {"plain", "inner", "catch", "outer"} \subseteq Level
  BY CallKnown DEF Level
<1>2. Typing'
  BY <1>1, PreflightTyping
<1>3. ASSUME UNCHANGED <<plan, journal, challenges>>
      PROVE  JournalEvolves /\ AuthKept /\ challenges \subseteq challenges'
  BY <1>3, SameJournalEvolves, SameJournalKept
<1>4. CASE ExecuteLoad(p)
  <2>1. c.pc = "e_load" /\ UNCHANGED <<plan, journal, challenges>>
    BY <1>4 DEF ExecuteLoad, LocalStep, hostVars, At
  <2> DEFINE n == [c EXCEPT !.pc = "e_read", !.snap = journal[c.wf],
                            !.base = journal[c.wf].steps[c.slot]]
  <2>2. Become(p, n)
    BY <1>4 DEF ExecuteLoad
  <2>3. n \in Call /\ n.pc = "e_read" /\ n.wf = c.wf /\ n.snap = journal[c.wf]
    <3>1. journal[c.wf].steps[c.slot] \in StepResult
      BY <1>1, <2>1, PlanSteps DEF JournalRow, Looping
    <3> HIDE DEF c
    <3> QED
      BY <1>1, <3>1 DEF Call, Step
  <2>4. journal[c.wf].status # "absent"
    BY <1>1, <2>1 DEF CopyOK
  <2> HIDE DEF n
  <2>5. StatusKnown(n)
    BY <2>3 DEF StatusKnown
  <2> QED
    BY <1>2, <1>3, <2>1, <2>2, <2>3, <2>4, <2>5, CopyingStep
<1>5. CASE ExecuteRead(p)
  <2>1. c.pc = "e_read" /\ UNCHANGED <<plan, journal, challenges>>
    BY <1>5 DEF ExecuteRead, LocalStep, hostVars, At
  <2> DEFINE n == [c EXCEPT !.pc = "e_ctx", !.now = clock]
  <2>2. \/ Become(p, n) /\ c.snap.status # "cancelled"
        \/ \E last \in BOOLEAN : Proceed(p, c, last)
        \/ \E result \in StepResult, level \in Level, last \in BOOLEAN :
             Update(p, c, result, level, last)
    <3>1. /\ NoRecord([c.base EXCEPT !.status = "cancelled"]) \in StepResult
          /\ NoRecord(Result(c.base, "uncertain", "RECORD_MISSING", FALSE)) \in StepResult
          /\ Result(c.base, "failed", "CONFIRMATION_EXPIRED", TRUE) \in StepResult
          /\ Result(c.base, "failed", "ALREADY_EXISTS", FALSE) \in StepResult
          /\ Result(c.base, "uncertain", "READBACK_FAILED", TRUE) \in StepResult
      BY <1>1 DEF Result, NoRecord, StepResult, StepStatus, ErrorCode
    <3>2. \A r \in records : Verified(c.base, r.rev) \in StepResult
      BY <1>1, RecordType, VerifiedType
    <3>3. CASE ReadFound(p, c)
      BY <1>1, <3>1, <3>2, <3>3 DEF ReadFound, Existing
    <3>4. CASE ReadMissing(p, c)
      BY <1>1, <3>1, <3>4 DEF ReadMissing
    <3>5. CASE Update(p, c, Result(c.base, "uncertain", "READBACK_FAILED", TRUE), "plain", TRUE)
      BY <1>1, <3>1, <3>5
    <3> QED
      BY <1>5, <3>3, <3>4, <3>5 DEF ExecuteRead
  <2>3. CASE Become(p, n) /\ c.snap.status # "cancelled"
    <3>1. n \in Call /\ n.pc = "e_ctx" /\ n.wf = c.wf /\ n.snap = c.snap
      <4>1. clock \in Nat
        BY <1>1 DEF TypeOK, HostTypeOK
      <4> HIDE DEF c
      <4> QED
        BY <1>1, <4>1 DEF Call, Step
    <3> HIDE DEF n
    <3>2. CopyOK(n) /\ StatusKnown(n)
      BY <1>1, <2>1, <2>3, <3>1 DEF CopyOK, StatusKnown, Holding
    <3> QED
      BY <1>2, <1>3, <2>1, <2>3, <3>1, <3>2, CopyingStep
  <2>4. CASE \E last \in BOOLEAN : Proceed(p, c, last)
    BY <1>1, <1>2, <1>3, <2>1, <2>4, ProceedSettles, SettlingStep
  <2>5. CASE \E result \in StepResult, level \in Level, last \in BOOLEAN :
               Update(p, c, result, level, last)
    BY <1>1, <1>2, <1>3, <2>1, <2>5, UpdateSettles, SettlingStep
  <2> QED
    BY <2>2, <2>3, <2>4, <2>5
<1>6. CASE ExecuteCheck(p)
  <2>1. c.pc = "e_ctx" /\ UNCHANGED <<plan, journal, challenges>>
    BY <1>6 DEF ExecuteCheck, LocalStep, hostVars, At
  <2> DEFINE found == context.dest[DestOf[Key(c.wf, c.slot)]].rev
             n == [c EXCEPT !.pc = "e_run", !.now = 0, !.drev = found, !.tok = c.snap.auth.token]
  <2>2. \/ Become(p, n)
        \/ \E result \in StepResult, level \in Level, last \in BOOLEAN :
             Update(p, c, result, level, last)
    <3>1. /\ Result(c.base, "failed", "STALE", FALSE) \in StepResult
          /\ Result(c.base, "failed", "PRECONDITION_FAILED", FALSE) \in StepResult
      BY <1>1 DEF Result, StepResult, StepStatus, ErrorCode
    <3> QED
      BY <1>1, <1>6, <3>1 DEF ExecuteCheck
  <2>3. CASE Become(p, n)
    <3>1. n \in Call /\ n.pc = "e_run" /\ n.wf = c.wf /\ n.snap = c.snap
      <4>1. found \in Nat /\ c.snap.auth.token \in Nat
        BY <1>1, <2>1, PlanSteps, NewRecordType DEF Looping, JournalRow, Authorization
      <4> HIDE DEF c, found
      <4> QED
        BY <1>1, <4>1 DEF Call, Step
    <3> HIDE DEF n
    <3>2. CopyOK(n) /\ StatusKnown(n)
      BY <1>1, <2>1, <3>1 DEF CopyOK, StatusKnown, Holding
    <3> QED
      BY <1>2, <1>3, <2>1, <2>3, <3>1, <3>2, CopyingStep
  <2> HIDE DEF n
  <2>4. CASE \E result \in StepResult, level \in Level, last \in BOOLEAN :
               Update(p, c, result, level, last)
    BY <1>1, <1>2, <1>3, <2>1, <2>4, UpdateSettles, SettlingStep
  <2> QED
    BY <2>2, <2>3, <2>4
<1>7. CASE ExecuteRun(p)
  <2>1. c.pc = "e_run" /\ UNCHANGED <<plan, challenges>>
    BY <1>7 DEF ExecuteRun, JournalStep, At
  <2> DEFINE n == [c EXCEPT !.pc = "e_apply", !.snap = NoWorkflow]
  <2>2. PICK out \in Outcome :
          /\ Save(c.wf, c.snap, Started(c), out)
          /\ \/ Become(p, n) \/ Return(p)
             \/ Update(p, c, Result(c.base, "failed", CodeOf(out), FALSE), "outer", TRUE)
    BY <1>7 DEF ExecuteRun
  <2>3. Result(c.base, "failed", CodeOf(out), FALSE) \in StepResult
    BY <1>1 DEF Result, CodeOf, StepResult, StepStatus, ErrorCode
  <2>4. Become(p, n) => Settles(p)
    <3>1. n \in Call /\ n.pc = "e_apply" /\ n.wf = c.wf
      <4> HIDE DEF c
      <4> QED
        BY <1>1, NoWorkflowType DEF Call, Step
    <3> HIDE DEF n
    <3> QED
      BY <3>1 DEF Settles, Holding
  <2> HIDE DEF n
  <2>5. Settles(p)
    BY <1>1, <2>2, <2>3, <2>4, UpdateSettles, ReturnSettles
  <2>6. /\ Started(c) \in JournalRow /\ Started(c).status = "running"
        /\ Started(c).auth = c.snap.auth /\ c.snap.status # "cancelled"
    BY <1>1, <2>1, RowTypes DEF Started, JournalRow, StatusKnown
  <2>7. JournalEvolves /\ AuthKept
    BY <2>1, <2>2, <2>6, SaveEvolves DEF Holding, AuthKept
  <2> QED
    BY <1>2, <2>1, <2>5, <2>7, SettlingStep
<1> QED
  BY <1>4, <1>5, <1>6, <1>7

LEMMA CommitJournaling ==
  ASSUME Journaling, NEW p \in Callers,
         ExecuteApply(p) \/ ExecuteReadBack(p) \/ ExecuteFinal(p) \/ ExecuteClose(p)
  PROVE  Journaling' /\ JournalEvolves /\ AuthKept /\ NoRequest
<1> DEFINE c == call[p]
<1>1. /\ Typing /\ TypeOK /\ PlanOK /\ c \in Call /\ c.wf \in Workflows
      /\ c.snap \in JournalRow /\ journal[c.wf] \in JournalRow /\ CopyOK(c)
      /\ StatusKnown(c) /\ c.base \in StepResult
      /\ {"plain", "inner", "catch", "outer"} \subseteq Level
  BY CallKnown DEF Level
<1>2. Typing'
  BY <1>1, CommitTyping
<1>3. ASSUME UNCHANGED <<plan, journal, challenges>>
      PROVE  JournalEvolves /\ AuthKept /\ challenges \subseteq challenges'
  BY <1>3, SameJournalEvolves, SameJournalKept
<1>4. CASE ExecuteApply(p)
  <2>1. c.pc = "e_apply" /\ UNCHANGED <<plan, journal, challenges>>
    BY <1>4 DEF ExecuteApply, Commit, CommitRecord, hostVars, At
  <2> DEFINE n == [InStep(p, "e_back", c) EXCEPT !.pc = "e_back"]
             answer == CommitAnswer(c.wf, c.slot, c.tok, c.drev)
             failed == Result(Running(c.base), "failed", answer, FALSE)
  <2>2. Become(p, n) => Settles(p)
    <3>1. n \in Call /\ n.pc = "e_back" /\ n.wf = c.wf
      <4> HIDE DEF c
      <4> QED
        BY <1>1, NoWorkflowType, PendingType DEF InStep, Fresh, NoCall, Call, Step, Level
    <3> HIDE DEF n
    <3> QED
      BY <3>1 DEF Settles, Holding
  <2>3. answer \notin {"existing", "commit"} => failed \in StepResult
    <3>1. answer \in ErrorCode \cup {"existing", "commit"}
      BY DEF CommitAnswer, ErrorCode
    <3> HIDE DEF answer, c
    <3> QED
      BY <1>1, <3>1 DEF Result, Running, StepResult, StepStatus, ErrorCode
  <2>4. \/ Become(p, n)
        \/ OutcomeUnknown(p, c)
        \/ answer \notin {"existing", "commit"} /\ Update(p, c, failed, "catch", TRUE)
    BY <1>4 DEF ExecuteApply
  <2> HIDE DEF n, failed, answer
  <2>5. Settles(p)
    BY <1>1, <2>2, <2>3, <2>4, OutcomeUnknownSettles, UpdateSettles
  <2> QED
    BY <1>2, <1>3, <2>1, <2>5, SettlingStep
<1>5. CASE ExecuteReadBack(p)
  <2>1. c.pc = "e_back" /\ UNCHANGED <<plan, journal, challenges>>
    BY <1>5 DEF ExecuteReadBack, LocalStep, hostVars, At
  <2>2. \/ OutcomeUnknown(p, c)
        \/ \E result \in StepResult, last \in BOOLEAN : Update(p, c, result, "inner", last)
    <3>1. Result(Running(c.base), "uncertain", "READBACK_MISMATCH", TRUE) \in StepResult
      BY <1>1 DEF Running, Result, StepResult, StepStatus, ErrorCode
    <3>2. \A r \in records : Verified(c.base, r.rev) \in StepResult
      BY <1>1, RecordType, VerifiedType
    <3> QED
      BY <1>5, <3>1, <3>2 DEF ExecuteReadBack, Existing
  <2>3. Settles(p)
    BY <1>1, <2>2, OutcomeUnknownSettles, UpdateSettles
  <2> QED
    BY <1>2, <1>3, <2>1, <2>3, SettlingStep
<1>6. CASE ExecuteFinal(p)
  <2>1. c.pc = "e_final" /\ UNCHANGED <<plan, journal, challenges>>
    BY <1>6 DEF ExecuteFinal, LocalStep, hostVars, At
  <2> DEFINE n == [c EXCEPT !.pc = "e_close", !.snap = journal[c.wf]]
  <2>2. Return(p) \/ (Become(p, n) /\ journal[c.wf].status # "cancelled")
    BY <1>6 DEF ExecuteFinal
  <2>3. CASE Become(p, n) /\ journal[c.wf].status # "cancelled"
    <3>1. n \in Call /\ n.pc = "e_close" /\ n.wf = c.wf /\ n.snap = journal[c.wf]
      <4> HIDE DEF c
      <4> QED
        BY <1>1 DEF Call, Step
    <3>2. journal[c.wf].status # "absent"
      BY <1>1, <2>1 DEF CopyOK
    <3> HIDE DEF n
    <3>3. StatusKnown(n)
      BY <2>3, <3>1 DEF StatusKnown
    <3> QED
      BY <1>2, <1>3, <2>1, <2>3, <3>1, <3>2, <3>3, CopyingStep
  <2> HIDE DEF n
  <2> QED
    BY <1>2, <1>3, <2>1, <2>2, <2>3, ReturnSettles, SettlingStep
<1>7. CASE ExecuteClose(p)
  <2>1. c.pc = "e_close" /\ UNCHANGED <<plan, challenges>> /\ Return(p)
    BY <1>7 DEF ExecuteClose, JournalStep, At
  <2>2. PICK out : Save(c.wf, c.snap, Closed(c.wf, c.snap), out)
    BY <1>7 DEF ExecuteClose
  <2>3. /\ Closed(c.wf, c.snap) \in JournalRow
        /\ Closed(c.wf, c.snap).status \in {"completed", "partial"}
        /\ Closed(c.wf, c.snap).auth = c.snap.auth /\ c.snap.status # "cancelled"
    BY <1>1, <2>1, RowTypes DEF Closed, JournalRow, StatusKnown
  <2>4. JournalEvolves /\ AuthKept
    BY <2>1, <2>2, <2>3, SaveEvolves DEF Holding, AuthKept
  <2> QED
    BY <1>2, <2>1, <2>4, ReturnSettles, SettlingStep
<1> QED
  BY <1>4, <1>5, <1>6, <1>7

LEMMA PlanJournaling ==
  ASSUME Journaling, NEW w \in Workflows, PreparePlan(w)
  PROVE  Journaling' /\ JournalEvolves /\ AuthKept /\ NoRequest
<1>1. /\ ~plan[w].made /\ plan' = [plan EXCEPT ![w] = PlanFor(w, context, clock)]
      /\ UNCHANGED <<journal, challenges, call>> /\ plan \in [Workflows -> Plan]
  BY DEF PreparePlan, Journaling, Typing, TypeOK, HostTypeOK
<1>2. Typing'
  BY PlanTyping DEF Journaling
<1>3. JournalOK'
  <2> SUFFICES ASSUME NEW v \in Workflows
               PROVE  IF journal[v].status = "absent" THEN journal[v] = NoWorkflow
                      ELSE plan'[v].made /\ Restorable(v, journal[v])'
    BY <1>1 DEF JournalOK
  <2>1. IF journal[v].status = "absent" THEN journal[v] = NoWorkflow
        ELSE plan[v].made /\ Restorable(v, journal[v])
    BY DEF Journaling, JournalOK
  <2>2. journal[v].status # "absent" => plan'[v] = plan[v]
    BY <1>1, <2>1
  <2> QED
    BY <1>1, <2>1, <2>2 DEF Restorable, IntentComplete
<1>4. CopiesOK' /\ StatusOK'
  BY <1>1 DEF Journaling, CopiesOK, StatusOK, CopyOK, StatusKnown
<1> QED
  BY <1>1, <1>2, <1>3, <1>4, SameJournalEvolves, SameJournalKept DEF Journaling, NoRequest

LEMMA QuietJournaling ==
  ASSUME Journaling, Surroundings \/ UNCHANGED vars
  PROVE  Journaling' /\ JournalEvolves /\ AuthKept /\ NoRequest
<1>1. UNCHANGED <<plan, journal, challenges, call>>
  BY DEF Surroundings, Tick, EditContext, ReplaceContext, LoseRecord, vars, hostVars, callVars
<1>2. Typing'
  BY StepTyping DEF Journaling, Next
<1> QED
  BY <1>1, <1>2, SameJournalEvolves, SameJournalKept
  DEF Journaling, JournalOK, CopiesOK, StatusOK, CopyOK, StatusKnown, Restorable, IntentComplete,
      NoRequest

LEMMA StepJournaling ==
  ASSUME Journaling, [Next]_vars
  PROVE  /\ Journaling' /\ JournalEvolves
         /\ (\E p \in Callers : RequestStore(p) \/ ConfirmStore(p)) \/ AuthKept
         /\ (\E p \in Callers : RequestCheck(p)) \/ NoRequest
<1>1. ASSUME NEW w \in Workflows, PreparePlan(w)
      PROVE  Journaling' /\ JournalEvolves /\ AuthKept /\ NoRequest
  BY <1>1, PlanJournaling
<1>2. ASSUME NEW p \in Callers, Start(p) PROVE Journaling' /\ JournalEvolves /\ AuthKept /\ NoRequest
  <2>1. UNCHANGED journal
    BY <1>2 DEF Start, CreateStart, RequestStart, CancelStart, ExecuteStart, VerifyStart,
                ConfirmStart, LocalStep, hostVars
  <2> QED
    BY <1>2, <2>1, StartJournaling, SameJournalEvolves, SameJournalKept
<1>3. ASSUME NEW p \in Callers, Handler(p) \/ Crash(p)
      PROVE  /\ Journaling' /\ JournalEvolves
             /\ RequestStore(p) \/ ConfirmStore(p) \/ AuthKept
             /\ RequestCheck(p) \/ NoRequest
  BY <1>3, ConfirmationJournaling, UpdateJournaling, PreflightJournaling, CommitJournaling
  DEF Handler
<1>4. CASE Surroundings \/ UNCHANGED vars
  BY <1>4, QuietJournaling
<1> QED
  BY <1>1, <1>2, <1>3, <1>4 DEF Next

LEMMA InitJournaling == Init => Journaling
<1> SUFFICES ASSUME Init PROVE Journaling
  OBVIOUS
<1>1. Typing
  BY InitTyping
<1>2. JournalOK
  BY DEF Init, HostInit, JournalOK, NoWorkflow
<1>3. CopiesOK /\ StatusOK
  BY DEF Init, CopiesOK, StatusOK, CopyOK, StatusKnown, NoCall, Holding
<1> QED
  BY <1>1, <1>2, <1>3 DEF Journaling

\* Every stored row passes restoreLocalWorkflow, and a caller that read one holds
\* the current row or an older revision of it: what compareAndSwap relies on.
THEOREM JournalHolds == Spec => []Journaling
<1>1. Journaling /\ [Next]_vars => Journaling'
  BY StepJournaling
<1> QED
  BY <1>1, InitJournaling, PTL DEF Spec

-----------------------------------------------------------------------------
(* Cancellation.                                                             *)

\* Records come from commits and from nowhere else.
LEMMA RecordChange ==
  ASSUME [Next]_vars
  PROVE  \/ records' \subseteq records /\ UNCHANGED created
         \/ \E p \in Callers : /\ call[p].pc = "e_apply" /\ Commit(p, call[p])
                               /\ UNCHANGED <<challenges, confirmations, tokens>>
<1>1. ASSUME NEW p \in Callers, Start(p) PROVE UNCHANGED <<records, created>>
  BY <1>1 DEF Start, CreateStart, RequestStart, CancelStart, ExecuteStart, VerifyStart,
              ConfirmStart, LocalStep, hostVars
<1>2. ASSUME NEW p \in Callers, Handler(p) \/ Crash(p), ~ExecuteApply(p)
      PROVE  UNCHANGED <<records, created>>
  BY <1>2 DEF Handler, Crash, CreateCheck, CreateStore, RequestCheck, RequestStore,
              ConfirmCheck, ConfirmStore, CancelStore, UpdateLoad, UpdateStore, ExecuteLoad,
              ExecuteRead, ExecuteCheck, ExecuteRun, ExecuteReadBack, ExecuteFinal,
              ExecuteClose, VerifyLoad, VerifyRead, VerifyStore, LocalStep, JournalStep,
              hostVars
<1>3. ASSUME NEW p \in Callers, ExecuteApply(p)
      PROVE  \/ UNCHANGED <<records, created>>
             \/ /\ call[p].pc = "e_apply" /\ Commit(p, call[p])
                /\ UNCHANGED <<challenges, confirmations, tokens>>
  BY <1>3 DEF ExecuteApply, At, hostVars
<1>4. ASSUME NEW w \in Workflows, PreparePlan(w) PROVE UNCHANGED <<records, created>>
  BY <1>4 DEF PreparePlan
<1>5. CASE Surroundings
  BY <1>5 DEF Surroundings, Tick, EditContext, ReplaceContext, LoseRecord
<1>6. CASE UNCHANGED vars
  BY <1>6 DEF vars, hostVars, callVars
<1> QED
  BY <1>1, <1>2, <1>3, <1>4, <1>5, <1>6 DEF Next

\* What a commit has checked.
LEMMA CommitChecked ==
  ASSUME NEW p, Commit(p, call[p])
  PROVE  LET w == call[p].wf
             s == call[p].slot
         IN /\ Existing(w, s) = {} /\ Active(w, s) /\ Authorized(w, s, call[p].tok)
            /\ PlanCurrent(w, context, clock) /\ Undisturbed(w, s, call[p].drev)
            /\ ~(Cardinality(records) >= RecordLimit)
            /\ records' = records \cup {NewRecord(w, s)}
            /\ context' = [context EXCEPT !.dest[DestOf[Key(w, s)]].rev = @ + 1]
            /\ created' = created \cup {[rec |-> NewRecord(w, s), tok |-> call[p].tok]}
            /\ UNCHANGED <<plan, journal, clock>>
<1> DEFINE answer == CommitAnswer(call[p].wf, call[p].slot, call[p].tok, call[p].drev)
<1>1. answer = "commit" /\ CommitRecord(call[p].wf, call[p].slot)
  BY DEF Commit
<1>2. Existing(call[p].wf, call[p].slot) = {}
  BY <1>1 DEF CommitAnswer
<1> QED
  BY <1>1, <1>2 DEF CommitAnswer, Commit, CommitRecord

\* A cancelled workflow stays cancelled and makes no further record: no store
\* based on an older row succeeds after the cancellation, and applyLocal
\* refuses a step whose workflow no longer runs.
THEOREM CancellationIsFinal == Spec => CancelIsFinal
<1>1. ASSUME Journaling, [Next]_vars, NEW w \in Workflows, journal[w].status = "cancelled"
      PROVE  /\ journal'[w].status = "cancelled"
             /\ \A r \in records' \ records : r.wf # w
  <2>1. journal'[w].status = "cancelled"
    BY <1>1, StepJournaling DEF JournalEvolves, Evolves
  <2>2. ASSUME NEW p \in Callers, Commit(p, call[p]), NEW r \in records' \ records
        PROVE  r.wf # w
    <3>1. records' = records \cup {NewRecord(call[p].wf, call[p].slot)}
      BY <2>2, CommitChecked
    <3>2. Active(call[p].wf, call[p].slot)
      BY <2>2, CommitChecked
    <3>3. r = NewRecord(call[p].wf, call[p].slot)
      BY <2>2, <3>1
    <3> QED
      BY <1>1, <3>2, <3>3 DEF Active, NewRecord
  <2> QED
    BY <1>1, <2>1, <2>2, RecordChange
<1>2. Journaling /\ [Next]_vars =>
        [\A w \in Workflows : journal[w].status = "cancelled" =>
           /\ journal'[w].status = "cancelled"
           /\ \A r \in records' \ records : r.wf # w]_vars
  BY <1>1
<1> QED
  BY <1>2, JournalHolds, PTL DEF Spec, CancelIsFinal
=============================================================================
