------------------------ MODULE LocalWorkflowProofs ------------------------
(* Confirmations and records of LocalWorkflow: what was confirmed, what was  *)
(* committed, and what the journal says of it.                               *)
EXTENDS LocalWorkflowJournalProofs, FiniteSetTheorems

-----------------------------------------------------------------------------
(* Confirmation tokens.                                                      *)

Tokens == FreshTokens /\ StoredTokens /\ ConfirmedAtMostOnce

LEMMA TokenFrame ==
  ASSUME [Next]_vars
  PROVE  \/ UNCHANGED <<tokens, challenges, confirmations>>
         \/ \E p \in Callers : RequestCheck(p) \/ RequestStore(p) \/ ConfirmStore(p)
<1>1. ASSUME NEW p \in Callers, Start(p)
      PROVE  UNCHANGED <<tokens, challenges, confirmations>>
  BY <1>1 DEF Start, CreateStart, RequestStart, CancelStart, ExecuteStart, VerifyStart,
              ConfirmStart, LocalStep
<1>2. ASSUME NEW p \in Callers, Handler(p) \/ Crash(p)
      PROVE  \/ UNCHANGED <<tokens, challenges, confirmations>>
             \/ RequestCheck(p) \/ RequestStore(p) \/ ConfirmStore(p)
  BY <1>2 DEF Handler, Crash, CreateCheck, CreateStore, ConfirmCheck, CancelStore, UpdateLoad,
              UpdateStore, ExecuteLoad, ExecuteRead, ExecuteCheck, ExecuteRun, ExecuteApply,
              ExecuteReadBack, ExecuteFinal, ExecuteClose, VerifyLoad, VerifyRead,
              VerifyStore, LocalStep, JournalStep
<1>3. ASSUME NEW w \in Workflows, PreparePlan(w)
      PROVE  UNCHANGED <<tokens, challenges, confirmations>>
  BY <1>3 DEF PreparePlan
<1>4. CASE Surroundings \/ UNCHANGED vars
  BY <1>4 DEF Surroundings, Tick, EditContext, LoseRecord, vars, callVars
<1> QED
  BY <1>1, <1>2, <1>3, <1>4 DEF Next

LEMMA StoredTypes ==
  ASSUME Typing
  PROVE  /\ tokens \in Nat
         /\ \A w \in Workflows : journal[w].auth.token \in Nat
         /\ \A p \in Callers : call[p].tok \in Nat
         /\ \A k \in confirmations : k.tok \in Nat
         /\ \A shown \in challenges : shown.tok \in Nat
  BY DEF Typing, TypeOK, HostTypeOK, JournalRow, Authorization, Call, Confirmation, Challenge

LEMMA QuietTokens ==
  ASSUME Tokens, UNCHANGED <<tokens, challenges, confirmations>>, AuthKept, NoRequest
  PROVE  Tokens'
<1>1. FreshTokens'
  BY DEF Tokens, FreshTokens, AuthKept, NoRequest
<1>2. StoredTokens'
  BY DEF Tokens, StoredTokens, AuthKept
<1>3. ConfirmedAtMostOnce'
  BY DEF Tokens, ConfirmedAtMostOnce
<1> QED
  BY <1>1, <1>2, <1>3 DEF Tokens

LEMMA RequestCheckTokens ==
  ASSUME Tokens, Journaling, NEW p \in Callers, RequestCheck(p)
  PROVE  Tokens'
<1>1. /\ Typing /\ call \in [Callers -> Call] /\ call[p] \in Call
      /\ UNCHANGED <<challenges, confirmations>> /\ AuthKept
  BY CallKnown DEF RequestCheck, Typing, TypeOK, AuthKept, hostVars
<1>2. CASE UNCHANGED tokens /\ Return(p)
  <2>1. NoRequest
    BY <1>1, <1>2 DEF Return, Become, NoCall, NoRequest
  <2> QED
    BY <1>1, <1>2, <2>1, QuietTokens
<1>3. CASE /\ tokens' = tokens + 1
           /\ Become(p, [call[p] EXCEPT !.pc = "r_cas", !.now = clock, !.tok = tokens + 1])
  <2>1. call'[p].tok = tokens + 1 /\ \A q \in Callers \ {p} : call'[q] = call[q]
    <3> DEFINE c == call[p]
               n == [c EXCEPT !.pc = "r_cas", !.now = clock, !.tok = tokens + 1]
    <3>1. n.tok = tokens + 1
      <4> HIDE DEF c
      <4>1. c \in Call
        BY <1>1 DEF c
      <4> QED
        BY <4>1 DEF Call
    <3>2. call' = [call EXCEPT ![p] = n]
      BY <1>3 DEF Become
    <3> HIDE DEF n
    <3> QED
      BY <1>1, <3>1, <3>2
  <2>2. FreshTokens'
    BY <1>1, <1>3, <2>1, StoredTypes DEF Tokens, FreshTokens, StoredTokens, AuthKept
  <2>3. StoredTokens'
    BY <1>1, <1>3, StoredTypes DEF Tokens, StoredTokens, AuthKept
  <2> QED
    BY <1>1, <2>2, <2>3 DEF Tokens, ConfirmedAtMostOnce
<1> QED
  BY <1>2, <1>3 DEF RequestCheck

LEMMA RequestStoreTokens ==
  ASSUME Tokens, Journaling, NEW p \in Callers, RequestStore(p)
  PROVE  Tokens'
<1> DEFINE c == call[p]
           shown == [tok |-> c.tok, wf |-> c.wf, steps |-> Requested(c).auth.steps]
<1>1. /\ Typing /\ TypeOK /\ call \in [Callers -> Call] /\ c \in Call /\ c.wf \in Workflows
      /\ c.snap \in JournalRow /\ c.pc = "r_cas" /\ UNCHANGED <<tokens, confirmations>>
      /\ CopyOK(c) /\ StatusKnown(c)
  BY CallKnown DEF RequestStore, At, Typing, TypeOK
<1>2. PICK out \in Outcome :
        /\ Save(c.wf, c.snap, Requested(c), out)
        /\ challenges' = IF out = "ok" THEN challenges \cup {shown} ELSE challenges
  BY DEF RequestStore
<1>3. /\ Requested(c) \in JournalRow /\ Requested(c).status = "awaiting_confirmation"
      /\ Requested(c).auth.token = c.tok /\ ~Requested(c).auth.consumed
      /\ c.snap.status # "cancelled"
  BY <1>1, RowTypes DEF Requested, StatusKnown, JournalRow, Authorization
<1>4. /\ call'[p].pc = "idle" /\ \A q \in Callers \ {p} : call'[q] = call[q]
  BY <1>1 DEF RequestStore, Return, Become, NoCall
<1>5. \A w \in Workflows \ {c.wf} : journal'[w] = journal[w]
  BY <1>1, <1>2, <1>3, SaveEvolves DEF Holding
<1>6. CASE journal'[c.wf] = journal[c.wf] /\ UNCHANGED challenges
  <2>1. AuthKept /\ NoRequest
    BY <1>4, <1>5, <1>6 DEF AuthKept, NoRequest
  <2> QED
    BY <1>1, <1>6, <2>1, QuietTokens
<1>7. CASE /\ journal'[c.wf].auth = Requested(c).auth
           /\ challenges' \in {challenges, challenges \cup {shown}}
  <2>1. /\ shown.tok = c.tok /\ shown.wf = c.wf /\ shown.steps = journal'[c.wf].auth.steps
        /\ journal'[c.wf].auth.token = c.tok /\ ~journal'[c.wf].auth.consumed
    BY <1>3, <1>7
  <2>2. /\ 0 < c.tok /\ c.tok <= tokens
        /\ \A w \in Workflows : journal[w].auth.token # c.tok
        /\ \A q \in Callers \ {p} : call[q].pc = "r_cas" => call[q].tok # c.tok
        /\ \A k \in confirmations : k.tok # c.tok
        /\ \A other \in challenges : other.tok # c.tok
    BY <1>1 DEF Tokens, FreshTokens
  <2> HIDE DEF c, shown
  <2>3. \A other \in challenges' : other \in challenges \/ other = shown
    BY <1>7
  <2>4. FreshTokens'
    <3> SUFFICES ASSUME NEW q \in Callers, call'[q].pc = "r_cas"
                 PROVE  /\ 0 < call'[q].tok /\ call'[q].tok <= tokens'
                        /\ \A w \in Workflows : journal'[w].auth.token # call'[q].tok
                        /\ \A r \in Callers \ {q} :
                             call'[r].pc = "r_cas" => call'[r].tok # call'[q].tok
                        /\ \A k \in confirmations' : k.tok # call'[q].tok
                        /\ \A other \in challenges' : other.tok # call'[q].tok
      BY DEF FreshTokens
    <3>1. q # p /\ call'[q] = call[q] /\ call[q].tok # c.tok
      BY <1>4, <2>2
    <3>2. /\ 0 < call[q].tok /\ call[q].tok <= tokens
          /\ \A w \in Workflows : journal[w].auth.token # call[q].tok
          /\ \A r \in Callers \ {q} : call[r].pc = "r_cas" => call[r].tok # call[q].tok
          /\ \A k \in confirmations : k.tok # call[q].tok
          /\ \A other \in challenges : other.tok # call[q].tok
      BY <3>1 DEF Tokens, FreshTokens
    <3>3. \A w \in Workflows : journal'[w].auth.token # call[q].tok
      BY <1>5, <2>1, <3>1, <3>2
    <3>4. \A other \in challenges' : other.tok # call[q].tok
      BY <2>1, <2>3, <3>1, <3>2
    <3>5. \A r \in Callers \ {q} : call'[r].pc = "r_cas" => call'[r].tok # call[q].tok
      BY <1>4, <3>2
    <3> QED
      BY <1>1, <3>1, <3>2, <3>3, <3>4, <3>5
  <2>5. StoredTokens'
    <3>1. \A w \in Workflows \ {c.wf} : journal'[w].auth.token # c.tok
      BY <1>5, <2>2
    <3>2. ASSUME NEW w \in Workflows
          PROVE  /\ journal'[w].auth.token <= tokens'
                 /\ \A v \in Workflows :
                      journal'[w].auth.token = journal'[v].auth.token
                        /\ journal'[w].auth.token # 0 => w = v
                 /\ \A k \in confirmations' :
                      journal'[w].auth.token = k.tok => k.wf = w /\ journal'[w].auth.consumed
                 /\ \A other \in challenges' :
                      journal'[w].auth.token = other.tok =>
                        other.wf = w /\ other.steps = journal'[w].auth.steps
                 /\ journal'[w].auth.consumed =>
                      /\ \E k \in confirmations' : k.tok = journal'[w].auth.token /\ k.wf = w
                      /\ \E other \in challenges' : other.tok = journal'[w].auth.token
      <4>1. CASE w = c.wf
        BY <1>1, <2>1, <2>2, <2>3, <3>1, <4>1
      <4>2. CASE w # c.wf
        <5>1. journal'[w] = journal[w]
          BY <1>5, <4>2
        <5>2. \A v \in Workflows :
                journal'[w].auth.token = journal'[v].auth.token
                  /\ journal'[w].auth.token # 0 => w = v
          BY <1>5, <2>1, <3>1, <4>2, <5>1 DEF Tokens, StoredTokens
        <5> QED
          BY <1>1, <1>7, <2>1, <2>2, <2>3, <5>1, <5>2 DEF Tokens, StoredTokens
      <4> QED
        BY <4>1, <4>2
    <3>3. \A k \in confirmations' : 0 < k.tok /\ k.tok <= tokens'
      BY <1>1 DEF Tokens, StoredTokens
    <3>4. \A other \in challenges' : 0 < other.tok /\ other.tok <= tokens'
      BY <1>1, <2>1, <2>2, <2>3 DEF Tokens, StoredTokens
    <3> QED
      BY <3>2, <3>3, <3>4 DEF StoredTokens
  <2> QED
    BY <1>1, <2>4, <2>5 DEF Tokens, ConfirmedAtMostOnce
<1>8. \/ journal'[c.wf] = journal[c.wf] /\ UNCHANGED challenges
      \/ /\ journal'[c.wf].auth = Requested(c).auth
         /\ challenges' \in {challenges, challenges \cup {shown}}
  <2>1. CASE UNCHANGED journal /\ out # "ok"
    BY <1>2, <2>1
  <2>2. CASE journal' = [journal EXCEPT ![c.wf] = Advance(c.snap, Requested(c))]
    <3>1. journal'[c.wf] = Advance(c.snap, Requested(c))
      BY <1>1, <2>2 DEF TypeOK, HostTypeOK
    <3>2. Advance(c.snap, Requested(c)).auth = Requested(c).auth
      <4> DEFINE next == Requested(c)
      <4> HIDE DEF next
      <4> QED
        BY <1>3 DEF next, Advance, JournalRow
    <3> QED
      BY <1>2, <3>1, <3>2
  <2> QED
    BY <1>2, <2>1, <2>2 DEF Save
<1> QED
  BY <1>6, <1>7, <1>8

LEMMA ConfirmStoreTokens ==
  ASSUME Tokens, Journaling, NEW p \in Callers, ConfirmStore(p)
  PROVE  Tokens'
<1> DEFINE c == call[p]
           stored == [tok |-> c.snap.auth.token, wf |-> c.wf, rev |-> c.snap.rev + 1]
<1>1. /\ Typing /\ TypeOK /\ call \in [Callers -> Call] /\ c \in Call /\ c.wf \in Workflows
      /\ c.snap \in JournalRow /\ c.pc = "k_cas" /\ UNCHANGED <<tokens, challenges>>
      /\ CopyOK(c) /\ StatusKnown(c) /\ journal \in [Workflows -> JournalRow]
  BY CallKnown DEF ConfirmStore, At, Typing, TypeOK, HostTypeOK
<1>2. PICK out \in Outcome : Save(c.wf, c.snap, Confirmed(c.snap), out)
  BY DEF ConfirmStore
<1>3. confirmations' = IF journal' # journal THEN confirmations \cup {stored} ELSE confirmations
  BY DEF ConfirmStore
<1>4. /\ call'[p].pc = "idle" /\ \A q \in Callers \ {p} : call'[q] = call[q]
  BY <1>1 DEF ConfirmStore, Return, Become, NoCall
<1>5. NoRequest
  BY <1>4 DEF NoRequest
<1>6. CASE UNCHANGED journal
  BY <1>1, <1>3, <1>5, <1>6, QuietTokens DEF AuthKept
<1>7. CASE /\ journal' # journal /\ Matches(c.wf, c.snap)
           /\ journal' = [journal EXCEPT ![c.wf] = Advance(c.snap, Confirmed(c.snap))]
  <2>1. /\ journal[c.wf] = c.snap /\ c.snap.auth.token # 0 /\ ~c.snap.auth.consumed
        /\ \E shown \in challenges : shown.tok = c.snap.auth.token
        /\ c.snap.auth.token \in Nat
    BY <1>1, <1>7 DEF CopyOK, Holding, Matches, StatusKnown, JournalRow, Authorization
  <2>2. /\ \A w \in Workflows \ {c.wf} : journal'[w] = journal[w]
        /\ journal'[c.wf] = Advance(c.snap, Confirmed(c.snap))
    BY <1>1, <1>7
  <2>3. /\ journal'[c.wf].auth.token = c.snap.auth.token
        /\ journal'[c.wf].auth.steps = c.snap.auth.steps
        /\ journal'[c.wf].auth.consumed
    <3> DEFINE row == c.snap
    <3>1. row \in JournalRow /\ row.auth \in Authorization
      BY <1>1 DEF JournalRow
    <3> HIDE DEF row
    <3>2. /\ Advance(row, Confirmed(row)).auth.token = row.auth.token
          /\ Advance(row, Confirmed(row)).auth.steps = row.auth.steps
          /\ Advance(row, Confirmed(row)).auth.consumed
      BY <3>1 DEF Advance, Confirmed, JournalRow, Authorization
    <3> QED
      BY <2>2, <3>2 DEF row
  <2>4. /\ confirmations' = confirmations \cup {stored}
        /\ stored.tok = journal[c.wf].auth.token /\ stored.wf = c.wf
    BY <1>3, <1>7, <2>1
  <2>5. \A w \in Workflows : journal'[w].auth.token = journal[w].auth.token
    BY <2>1, <2>2, <2>3
  <2>6. \A k \in confirmations : k.tok # stored.tok
    BY <1>1, <2>1, <2>4 DEF Tokens, StoredTokens
  <2> HIDE DEF c, stored
  <2>7. FreshTokens'
    BY <1>1, <1>4, <1>5, <2>4, <2>5 DEF Tokens, FreshTokens, NoRequest
  <2>8. StoredTokens'
    <3>1. ASSUME NEW w \in Workflows
          PROVE  /\ journal'[w].auth.token <= tokens'
                 /\ \A v \in Workflows :
                      journal'[w].auth.token = journal'[v].auth.token
                        /\ journal'[w].auth.token # 0 => w = v
                 /\ \A k \in confirmations' :
                      journal'[w].auth.token = k.tok => k.wf = w /\ journal'[w].auth.consumed
                 /\ \A other \in challenges' :
                      journal'[w].auth.token = other.tok =>
                        other.wf = w /\ other.steps = journal'[w].auth.steps
                 /\ journal'[w].auth.consumed =>
                      /\ \E k \in confirmations' : k.tok = journal'[w].auth.token /\ k.wf = w
                      /\ \E other \in challenges' : other.tok = journal'[w].auth.token
      <4>1. CASE w = c.wf
        BY <1>1, <2>1, <2>3, <2>4, <2>5, <2>6, <4>1 DEF Tokens, StoredTokens
      <4>2. CASE w # c.wf
        <5>1. journal'[w] = journal[w] /\ journal[w].auth.token # stored.tok
          BY <1>1, <2>1, <2>2, <2>4, <4>2 DEF Tokens, StoredTokens
        <5> QED
          BY <1>1, <2>4, <2>5, <5>1 DEF Tokens, StoredTokens
      <4> QED
        BY <4>1, <4>2
    <3>2. \A k \in confirmations' : 0 < k.tok /\ k.tok <= tokens'
      <4>1. 0 < stored.tok /\ stored.tok <= tokens
        BY <1>1, <2>1, <2>4 DEF Tokens, StoredTokens
      <4> QED
        BY <1>1, <2>4, <4>1 DEF Tokens, StoredTokens
    <3>3. \A other \in challenges' : 0 < other.tok /\ other.tok <= tokens'
      BY <1>1 DEF Tokens, StoredTokens
    <3> QED
      BY <3>1, <3>2, <3>3 DEF StoredTokens
  <2>9. ConfirmedAtMostOnce'
    BY <2>4, <2>6 DEF Tokens, ConfirmedAtMostOnce
  <2> QED
    BY <2>7, <2>8, <2>9 DEF Tokens
<1> QED
  BY <1>2, <1>6, <1>7, SaveWrites

LEMMA InitTokens == Init => Tokens
  BY DEF Init, HostInit, Tokens, FreshTokens, StoredTokens, ConfirmedAtMostOnce, NoCall,
         NoWorkflow, NoAuthorization

LEMMA StepTokens == Tokens /\ Journaling /\ [Next]_vars => Tokens'
<1> SUFFICES ASSUME Tokens, Journaling, [Next]_vars PROVE Tokens'
  OBVIOUS
<1>1. ASSUME NEW p \in Callers, RequestCheck(p) \/ RequestStore(p) \/ ConfirmStore(p)
      PROVE  Tokens'
  BY <1>1, RequestCheckTokens, RequestStoreTokens, ConfirmStoreTokens
<1> QED
  BY <1>1, StepJournaling, TokenFrame, QuietTokens

\* One token is one confirmation: the token of a stored challenge is nowhere
\* else, and a confirm that lost the race holds an older row and fails.
THEOREM TokensConfirmOnce == Spec => []ConfirmedAtMostOnce
<1>1. Spec => [](Tokens /\ Journaling)
  BY InitTokens, InitJournaling, StepTokens, StepJournaling, PTL DEF Spec
<1>2. Tokens => ConfirmedAtMostOnce
  BY DEF Tokens
<1> QED
  BY <1>1, <1>2, PTL

\* A record exists only for a step that was shown under a token and confirmed
\* with it: applyLocal compares the token with the journal, whose consumed
\* token is a confirmed one and covers what its challenge showed.
THEOREM RecordsAreConfirmed == Spec => []CreatedWasConfirmed
<1> DEFINE Inv == Tokens /\ Journaling /\ CreatedWasConfirmed
<1>1. Init => Inv
  BY InitTokens, InitJournaling DEF Init, CreatedWasConfirmed
<1>2. Inv /\ [Next]_vars => Inv'
  <2> SUFFICES ASSUME Inv, [Next]_vars PROVE Inv'
    OBVIOUS
  <2>1. Tokens' /\ Journaling'
    BY StepTokens, StepJournaling
  <2>2. challenges \subseteq challenges' /\ confirmations \subseteq confirmations'
    BY TokenFrame DEF RequestCheck, RequestStore, ConfirmStore
  <2>3. CASE UNCHANGED created
    BY <2>1, <2>2, <2>3 DEF CreatedWasConfirmed
  <2>4. ASSUME NEW p \in Callers, call[p].pc = "e_apply", Commit(p, call[p])
        PROVE  CreatedWasConfirmed'
    <3> DEFINE w == call[p].wf
               new == [rec |-> NewRecord(w, call[p].slot), tok |-> call[p].tok]
    <3>1. w \in Workflows
      BY CallKnown
    <3>2. created' = created \cup {new} /\ Authorized(w, call[p].slot, call[p].tok)
      BY <2>4, CommitChecked
    <3>3. new.rec.wf = w /\ new.rec.slot = call[p].slot /\ new.tok = call[p].tok
      BY DEF NewRecord
    <3>4. /\ journal[w].auth.token = call[p].tok /\ journal[w].auth.consumed
          /\ call[p].slot \in journal[w].auth.steps
      BY <3>2 DEF Authorized
    <3>5. /\ \E shown \in challenges :
               shown.tok = call[p].tok /\ shown.wf = w /\ call[p].slot \in shown.steps
          /\ \E k \in confirmations : k.tok = call[p].tok /\ k.wf = w
      BY <3>1, <3>4 DEF Tokens, StoredTokens
    <3> HIDE DEF new
    <3> QED
      BY <2>2, <3>2, <3>3, <3>5 DEF CreatedWasConfirmed
  <2> QED
    BY <2>1, <2>3, <2>4, RecordChange
<1>3. Inv => CreatedWasConfirmed
  OBVIOUS
<1> QED
  BY <1>1, <1>2, <1>3, PTL DEF Spec

-----------------------------------------------------------------------------
(* What the journal and the calls believe of a step is backed by a commit.   *)

\* Backed, for any set of commits.
BackedBy(made, w, s, result) ==
  result.status = "verified" \/ result.rev # 0 =>
    \E c \in made : c.rec.wf = w /\ c.rec.slot = s /\ c.rec.rev = result.rev

RowBacked(made, w, row) == \A s \in Slot : BackedBy(made, w, s, row.steps[s])

CallBacked(made, c) ==
  /\ RowBacked(made, c.wf, c.snap)
  /\ BackedBy(made, c.wf, c.slot, c.base)
  /\ BackedBy(made, c.wf, c.slot, c.upd)

\* ExpectedOK of one call whose plan is pl.
ExpectedBy(made, pl, c) ==
  c.pc \in {"e_run", "e_apply"} =>
    LET d == DestOf[Key(c.wf, c.slot)]
    IN \/ c.drev = pl.revs[d]
       \/ \E k \in made : k.rec.wf = c.wf /\ DestOf[k.rec.key] = d /\ k.rec.rev = c.drev

Results ==
  /\ \A w \in Workflows : RowBacked(created, w, journal[w])
  /\ \A p \in Callers : CallBacked(created, call[p]) /\ ExpectedBy(created, plan[call[p].wf], call[p])

LEMMA ResultsMean == Results => ResultsOK /\ ExpectedOK
  BY DEF Results, ResultsOK, ExpectedOK, RowBacked, CallBacked, ExpectedBy, BackedBy, Backed, CreatedFor

LEMMA BackedGrows ==
  ASSUME NEW made, NEW more, made \subseteq more
  PROVE  /\ \A w, s, result : BackedBy(made, w, s, result) => BackedBy(more, w, s, result)
         /\ \A w, row : RowBacked(made, w, row) => RowBacked(more, w, row)
         /\ \A c : CallBacked(made, c) => CallBacked(more, c)
         /\ \A pl, c : ExpectedBy(made, pl, c) => ExpectedBy(more, pl, c)
<1>1. \A w, s, result : BackedBy(made, w, s, result) => BackedBy(more, w, s, result)
  BY DEF BackedBy
<1>2. \A w, row : RowBacked(made, w, row) => RowBacked(more, w, row)
  BY <1>1 DEF RowBacked
<1>3. \A c : CallBacked(made, c) => CallBacked(more, c)
  BY <1>1, <1>2 DEF CallBacked
<1>4. \A pl, c : ExpectedBy(made, pl, c) => ExpectedBy(more, pl, c)
  BY DEF ExpectedBy
<1> QED
  BY <1>1, <1>2, <1>3, <1>4

LEMMA NothingBacked ==
  ASSUME NEW made, NEW w
  PROVE  /\ \A s : BackedBy(made, w, s, Pending)
         /\ RowBacked(made, w, NoWorkflow)
  BY DEF BackedBy, RowBacked, NoWorkflow, Pending

\* A result that keeps or drops the revision of a backed one, and is not verified.
LEMMA LowerBacked ==
  ASSUME NEW made, NEW w, NEW s, NEW base, BackedBy(made, w, s, base),
         NEW result, result.status # "verified", result.rev \in {base.rev, 0}
  PROVE  BackedBy(made, w, s, result)
  BY DEF BackedBy

LEMMA LowerResults ==
  ASSUME NEW made, NEW w, NEW s, NEW base \in StepResult, BackedBy(made, w, s, base)
  PROVE  /\ \A status \in StepStatus \ {"verified"}, error \in ErrorCode, retryable \in BOOLEAN :
              /\ BackedBy(made, w, s, Result(base, status, error, retryable))
              /\ BackedBy(made, w, s, NoRecord(Result(base, status, error, retryable)))
              /\ BackedBy(made, w, s, Result(Running(base), status, error, retryable))
         /\ BackedBy(made, w, s, Running(base))
         /\ BackedBy(made, w, s, [base EXCEPT !.status = "cancelled"])
         /\ BackedBy(made, w, s, NoRecord([base EXCEPT !.status = "cancelled"]))
<1>1. ASSUME NEW status \in StepStatus \ {"verified"}, NEW error \in ErrorCode,
             NEW retryable \in BOOLEAN
      PROVE  /\ BackedBy(made, w, s, Result(base, status, error, retryable))
             /\ BackedBy(made, w, s, NoRecord(Result(base, status, error, retryable)))
             /\ BackedBy(made, w, s, Result(Running(base), status, error, retryable))
  <2>1. /\ Result(base, status, error, retryable).status = status
        /\ Result(base, status, error, retryable).rev = base.rev
    BY DEF Result, StepResult
  <2>2. /\ NoRecord(Result(base, status, error, retryable)).status = status
        /\ NoRecord(Result(base, status, error, retryable)).rev = 0
    BY DEF Result, NoRecord, StepResult
  <2>3. /\ Result(Running(base), status, error, retryable).status = status
        /\ Result(Running(base), status, error, retryable).rev = base.rev
    BY DEF Result, Running, StepResult
  <2> QED
    BY <2>1, <2>2, <2>3, LowerBacked
<1>2. /\ Running(base).status = "running" /\ Running(base).rev = base.rev
      /\ [base EXCEPT !.status = "cancelled"].status = "cancelled"
      /\ [base EXCEPT !.status = "cancelled"].rev = base.rev
      /\ NoRecord([base EXCEPT !.status = "cancelled"]).status = "cancelled"
      /\ NoRecord([base EXCEPT !.status = "cancelled"]).rev = 0
  BY DEF Running, Result, NoRecord, StepResult
<1> QED
  BY <1>1, <1>2, LowerBacked

LEMMA RunningBacked ==
  ASSUME NEW made, NEW w, NEW s, NEW base \in StepResult, BackedBy(made, w, s, base)
  PROVE  BackedBy(made, w, s, Running(base))
  BY LowerResults

\* A record of the step was committed by it.
LEMMA RecordBacks ==
  ASSUME RecordsOK, NEW w, NEW s, NEW r \in records, OwnRecord(r, w, s), NEW base
  PROVE  BackedBy(created, w, s, Verified(base, r.rev))
  BY DEF RecordsOK, OwnRecord, BackedBy, Verified

\* The rows that a method stores believe nothing more than its copy and its result.
LEMMA RowsBacked ==
  ASSUME TypeOK, NEW c \in Call, NEW made, CallBacked(made, c)
  PROVE  /\ RowBacked(made, c.wf, Requested(c))
         /\ RowBacked(made, c.wf, Confirmed(c.snap))
         /\ RowBacked(made, c.wf, Cancelled(c.wf, c.snap))
         /\ RowBacked(made, c.wf, Updated(c))
         /\ RowBacked(made, c.wf, Started(c))
         /\ RowBacked(made, c.wf, Closed(c.wf, c.snap))
         /\ RowBacked(made, c.wf, Reconciled(c))
<1>1. /\ c.snap \in JournalRow /\ c.base \in StepResult /\ c.upd \in StepResult
      /\ RowBacked(made, c.wf, c.snap) /\ BackedBy(made, c.wf, c.slot, c.base)
      /\ BackedBy(made, c.wf, c.slot, c.upd)
      /\ \A s \in Slot : c.snap.steps[s] \in StepResult
  BY DEF Call, JournalRow, CallBacked
<1> DEFINE row == c.snap
<1>2. row \in JournalRow
  BY <1>1
<1>3. /\ Requested(c).steps = row.steps /\ Confirmed(row).steps = row.steps
      /\ Closed(c.wf, row).steps = row.steps
  <2>1. Requested(c).steps = row.steps
    BY <1>2 DEF Requested, JournalRow
  <2> HIDE DEF row
  <2> QED
    BY <1>2, <2>1 DEF Confirmed, Closed, JournalRow
<1>4. ASSUME NEW result, BackedBy(made, c.wf, c.slot, result)
      PROVE  RowBacked(made, c.wf, [row EXCEPT !.steps[c.slot] = result])
  <2>1. \A s \in Slot : [row EXCEPT !.steps[c.slot] = result].steps[s] =
                         IF s = c.slot THEN result ELSE row.steps[s]
    <3> HIDE DEF row
    <3> QED
      BY <1>2 DEF JournalRow
  <2> QED
    BY <1>1, <1>4, <2>1 DEF RowBacked
<1>5. RowBacked(made, c.wf, Cancelled(c.wf, row))
  <2>1. ASSUME NEW s \in Slot
        PROVE  Cancelled(c.wf, row).steps[s] \in {row.steps[s], [row.steps[s] EXCEPT !.status = "cancelled"]}
    <3> HIDE DEF row
    <3> QED
      BY <1>2 DEF Cancelled, JournalRow
  <2>2. \A s \in Slot : BackedBy(made, c.wf, s, [row.steps[s] EXCEPT !.status = "cancelled"])
    BY <1>1, LowerResults DEF RowBacked
  <2> QED
    BY <1>1, <2>1, <2>2 DEF RowBacked
<1>6. RowBacked(made, c.wf, Updated(c))
  <2>1. BackedBy(made, c.wf, c.slot, [c.upd EXCEPT !.status = "cancelled"])
    BY <1>1, LowerResults
  <2> QED
    BY <1>1, <1>4, <2>1 DEF Updated
<1>7. RowBacked(made, c.wf, Started(c))
  <2> DEFINE started == [row EXCEPT !.steps[c.slot] = Running(c.base)]
  <2>1. RowBacked(made, c.wf, started)
    BY <1>1, <1>4, RunningBacked
  <2>2. Started(c).steps = started.steps
    BY <1>2 DEF Started, JournalRow
  <2> QED
    BY <2>1, <2>2 DEF RowBacked
<1>8. RowBacked(made, c.wf, Reconciled(c))
  <2> DEFINE judged == [row EXCEPT !.steps[c.slot] = c.upd]
  <2>1. RowBacked(made, c.wf, judged)
    BY <1>1, <1>4
  <2>2. judged \in JournalRow
    BY <1>1, <1>2 DEF JournalRow
  <2>3. Reconciled(c) = IF judged.status = "cancelled" THEN judged ELSE Closed(c.wf, judged)
    BY DEF Reconciled
  <2> HIDE DEF judged
  <2>4. Closed(c.wf, judged).steps = judged.steps
    BY <2>2 DEF Closed, JournalRow
  <2> QED
    BY <2>1, <2>3, <2>4 DEF RowBacked
<1> QED
  BY <1>1, <1>3, <1>5, <1>6, <1>7, <1>8 DEF RowBacked

\* The move of a call that believes nothing but what was committed.
Honest(p) ==
  \E n \in Call : /\ Become(p, n) /\ CallBacked(created, n)
                  /\ ExpectedBy(created, plan[n.wf], n)

LEMMA HonestStep ==
  ASSUME Results, TypeOK, NEW p \in Callers, Honest(p), UNCHANGED plan, created \subseteq created',
         \A w \in Workflows : RowBacked(created', w, journal'[w])
  PROVE  Results'
<1>1. PICK n \in Call : /\ Become(p, n) /\ CallBacked(created, n)
                        /\ ExpectedBy(created, plan[n.wf], n)
  BY DEF Honest
<1>2. call'[p] = n /\ \A q \in Callers \ {p} : call'[q] = call[q]
  BY <1>1 DEF Become, TypeOK
<1>3. ASSUME NEW q \in Callers
      PROVE  CallBacked(created', call'[q]) /\ ExpectedBy(created', plan'[call'[q].wf], call'[q])
  <2>1. CASE q = p
    BY <1>1, <1>2, <2>1, BackedGrows
  <2>2. CASE q # p
    BY <1>2, <2>2, BackedGrows DEF Results
  <2> QED
    BY <2>1, <2>2
<1>4. ASSUME NEW q \in Callers
      PROVE  CallBacked(created, call[q])' /\ ExpectedBy(created, plan[call[q].wf], call[q])'
  BY <1>3 DEF CallBacked, ExpectedBy, RowBacked, BackedBy
<1>5. \A w \in Workflows : RowBacked(created, w, journal[w])'
  BY DEF RowBacked, BackedBy
<1> QED
  BY <1>4, <1>5 DEF Results

LEMMA PlainHonest ==
  ASSUME NEW p, NEW n \in Call, Become(p, n), n.pc \notin {"e_run", "e_apply"},
         n.snap = NoWorkflow \/ RowBacked(created, n.wf, n.snap),
         n.base = Pending \/ BackedBy(created, n.wf, n.slot, n.base),
         n.upd = Pending \/ BackedBy(created, n.wf, n.slot, n.upd)
  PROVE  Honest(p)
  BY NothingBacked DEF Honest, CallBacked, ExpectedBy

LEMMA FreshFields ==
  ASSUME NEW p, NEW pc \in Step, NEW w \in Workflows
  PROVE  /\ Fresh(p, pc, w) \in Call /\ Fresh(p, pc, w).pc = pc /\ Fresh(p, pc, w).wf = w
         /\ Fresh(p, pc, w).snap = NoWorkflow /\ Fresh(p, pc, w).base = Pending
         /\ Fresh(p, pc, w).upd = Pending /\ Fresh(p, pc, w).slot = 0
  BY NoWorkflowType, PendingType DEF Fresh, NoCall, Call, Level

LEMMA ReturnHonest == ASSUME NEW p, Return(p) PROVE Honest(p)
<1>1. NoCall \in Call /\ NoCall.pc = "idle" /\ NoCall.snap = NoWorkflow
      /\ NoCall.base = Pending /\ NoCall.upd = Pending
  BY NoCallType DEF NoCall
<1> QED
  BY <1>1, PlainHonest DEF Return

LEMMA FreshHonest ==
  ASSUME NEW p, NEW pc \in Step \ {"e_run", "e_apply"}, NEW w \in Workflows,
         Become(p, Fresh(p, pc, w))
  PROVE  Honest(p)
<1>1. pc \in Step
  OBVIOUS
<1> QED
  BY <1>1, FreshFields, PlainHonest

\* A call that begins with a copy of the stored row.
LEMMA CopyHonest ==
  ASSUME Results, TypeOK, NEW p, NEW pc \in Step \ {"e_run", "e_apply"}, NEW w \in Workflows,
         NEW now \in Nat,
         \/ Become(p, [Fresh(p, pc, w) EXCEPT !.snap = journal[w]])
         \/ Become(p, [Fresh(p, pc, w) EXCEPT !.snap = journal[w], !.now = now])
  PROVE  Honest(p)
<1> DEFINE f == Fresh(p, pc, w)
<1>1. /\ f \in Call /\ f.pc = pc /\ f.wf = w /\ f.base = Pending /\ f.upd = Pending
      /\ journal[w] \in JournalRow
  BY FreshFields DEF TypeOK, HostTypeOK
<1> HIDE DEF f
<1>2. PICK n \in {[f EXCEPT !.snap = journal[w]], [f EXCEPT !.snap = journal[w], !.now = now]} :
        Become(p, n)
  BY DEF f
<1>3. /\ n \in Call /\ n.pc = pc /\ n.wf = w /\ n.snap = journal[w] /\ n.base = Pending
      /\ n.upd = Pending
  BY <1>1, <1>2 DEF Call
<1> QED
  BY <1>2, <1>3, PlainHonest DEF Results

LEMMA UpdateHonest ==
  ASSUME NEW p, NEW c \in Call, BackedBy(created, c.wf, c.slot, c.base),
         NEW result \in StepResult, BackedBy(created, c.wf, c.slot, result),
         NEW level \in Level, NEW last \in BOOLEAN, Update(p, c, result, level, last)
  PROVE  Honest(p)
<1> DEFINE n == [InStep(p, "u_load", c) EXCEPT !.upd = result, !.level = level, !.last = last]
<1>1. /\ n \in Call /\ n.pc = "u_load" /\ n.wf = c.wf /\ n.slot = c.slot /\ n.base = c.base
      /\ n.upd = result /\ n.snap = NoWorkflow
  BY NoWorkflowType DEF InStep, Fresh, NoCall, Call, Step
<1>2. Become(p, n)
  BY DEF Update
<1> HIDE DEF n
<1> QED
  BY <1>1, <1>2, PlainHonest

LEMMA ProceedHonest ==
  ASSUME TypeOK, PlanOK, NEW p, NEW c, c.wf \in Workflows, NEW last, Proceed(p, c, last)
  PROVE  Honest(p)
<1> DEFINE rest == StepAfter(plan[c.wf].steps, c.slot)
<1>1. CASE Become(p, Fresh(p, "e_final", c.wf))
  BY <1>1, FreshHonest DEF Step
<1>2. ASSUME NEW s \in rest, Become(p, [Fresh(p, "e_load", c.wf) EXCEPT !.slot = s])
      PROVE  Honest(p)
  <2> DEFINE f == Fresh(p, "e_load", c.wf)
             n == [f EXCEPT !.slot = s]
  <2>1. /\ f \in Call /\ f.pc = "e_load" /\ f.snap = NoWorkflow /\ f.base = Pending
        /\ f.upd = Pending /\ s \in Nat
    BY FreshFields, PlanSteps DEF Step, StepAfter
  <2> HIDE DEF f
  <2>2. /\ n \in Call /\ n.pc = "e_load" /\ n.snap = NoWorkflow /\ n.base = Pending
        /\ n.upd = Pending
    BY <2>1 DEF Call
  <2>3. Become(p, n)
    BY <1>2 DEF f
  <2> HIDE DEF n
  <2> QED
    BY <2>2, <2>3, PlainHonest
<1> QED
  BY <1>1, <1>2 DEF Proceed

LEMMA OutcomeUnknownHonest ==
  ASSUME NEW p, NEW c \in Call, BackedBy(created, c.wf, c.slot, c.base), OutcomeUnknown(p, c)
  PROVE  Honest(p)
<1>1. c.base \in StepResult
  BY DEF Call
<1>2. /\ Running(c.base) \in StepResult
      /\ "uncertain" \in StepStatus \ {"verified"} /\ "COMMIT_OUTCOME_UNKNOWN" \in ErrorCode
      /\ "catch" \in Level
  BY <1>1, ResultType DEF StepStatus, ErrorCode, Level
<1>3. Result(Running(c.base), "uncertain", "COMMIT_OUTCOME_UNKNOWN", TRUE) \in StepResult
  BY <1>2, ResultType
<1>4. BackedBy(created, c.wf, c.slot,
               Result(Running(c.base), "uncertain", "COMMIT_OUTCOME_UNKNOWN", TRUE))
  BY <1>1, <1>2, LowerResults
<1> QED
  BY <1>2, <1>3, <1>4, UpdateHonest DEF OutcomeUnknown

LEMMA UpdateThrowsHonest ==
  ASSUME NEW p, NEW c \in Call, BackedBy(created, c.wf, c.slot, c.base), NEW out \in Outcome,
         UpdateThrows(p, c, out)
  PROVE  Honest(p)
<1>1. c.base \in StepResult
  BY DEF Call
<1>2. /\ CodeOf(out) \in ErrorCode /\ "failed" \in StepStatus \ {"verified"} /\ "outer" \in Level
  BY DEF CodeOf, ErrorCode, StepStatus, Level
<1>3. /\ Result(c.base, "failed", CodeOf(out), FALSE) \in StepResult
      /\ BackedBy(created, c.wf, c.slot, Result(c.base, "failed", CodeOf(out), FALSE))
  BY <1>1, <1>2, ResultType, LowerResults
<1>4. CASE Update(p, c, Result(c.base, "failed", CodeOf(out), FALSE), "outer", TRUE)
  BY <1>2, <1>3, <1>4, UpdateHonest
<1>5. CASE OutcomeUnknown(p, c)
  BY <1>5, OutcomeUnknownHonest
<1> QED
  BY <1>4, <1>5, ReturnHonest DEF UpdateThrows, OutcomeUnknown

LEMMA VerifyNextHonest ==
  ASSUME TypeOK, PlanOK, NEW p, NEW w \in Workflows, NEW row \in JournalRow,
         RowBacked(created, w, row), NEW s, VerifyNext(p, w, row, s)
  PROVE  Honest(p)
<1> DEFINE due == {t \in plan[w].steps : row.steps[t].status \in {"verified", "running", "uncertain"}}
<1>1. ASSUME NEW t \in StepAfter(due, s),
             Become(p, [Fresh(p, "v_read", w) EXCEPT !.snap = row, !.slot = t,
                                                     !.base = row.steps[t]])
      PROVE  Honest(p)
  <2> DEFINE f == Fresh(p, "v_read", w)
             n == [f EXCEPT !.snap = row, !.slot = t, !.base = row.steps[t]]
  <2>1. t \in plan[w].steps
    BY DEF StepAfter
  <2>2. t \in Slot /\ t \in Nat /\ row.steps[t] \in StepResult
    BY <2>1, PlanSteps DEF JournalRow
  <2>3. f \in Call /\ f.wf = w /\ f.upd = Pending
    BY FreshFields DEF Step
  <2> HIDE DEF f
  <2>4. /\ n \in Call /\ n.pc = "v_read" /\ n.wf = w /\ n.snap = row /\ n.slot = t
        /\ n.base = row.steps[t] /\ n.upd = Pending
    <3>1. f.pc = "v_read"
      BY FreshFields DEF f, Step
    <3> QED
      BY <2>2, <2>3, <3>1 DEF Call, Step
  <2>5. Become(p, n)
    BY <1>1 DEF f
  <2> HIDE DEF n
  <2> QED
    BY <2>2, <2>4, <2>5, PlainHonest DEF RowBacked
<1> QED
  BY <1>1, ReturnHonest DEF VerifyNext

LEMMA LocalResults ==
  ASSUME Results, TypeOK, NEW p \in Callers, Honest(p), LocalStep
  PROVE  Results'
<1>1. UNCHANGED <<plan, journal, created>>
  BY DEF LocalStep, hostVars
<1> QED
  BY <1>1, HonestStep DEF Results

LEMMA StoreResults ==
  ASSUME Results, TypeOK, NEW p \in Callers, Honest(p), UNCHANGED <<plan, created>>,
         NEW w \in Workflows, NEW row \in JournalRow, NEW next \in JournalRow,
         RowBacked(created, w, next), NEW out, Save(w, row, next, out)
  PROVE  Results'
<1>1. Advance(row, next).steps = next.steps
  BY DEF Advance, JournalRow
<1>2. \A v \in Workflows : RowBacked(created', v, journal'[v])
  <2>1. CASE UNCHANGED journal
    BY <2>1 DEF Results
  <2>2. CASE journal' = [journal EXCEPT ![w] = Advance(row, next)]
    <3>1. /\ journal'[w] = Advance(row, next)
          /\ \A v \in Workflows \ {w} : journal'[v] = journal[v]
      BY <2>2 DEF TypeOK, HostTypeOK
    <3> QED
      BY <1>1, <3>1 DEF Results, RowBacked
  <2> QED
    BY <2>1, <2>2, SaveWrites
<1> QED
  BY <1>2, HonestStep

LEMMA StartResults ==
  ASSUME Journaling, Results, NEW p \in Callers, Start(p)
  PROVE  Results'
<1>1. Typing /\ TypeOK /\ PlanOK /\ clock \in Nat
  BY DEF Journaling, Typing, TypeOK, HostTypeOK
<1>2. PICK w \in Workflows :
        \/ CreateStart(p, w) \/ RequestStart(p, w) \/ CancelStart(p, w)
        \/ ExecuteStart(p, w) \/ VerifyStart(p, w)
        \/ \E shown \in challenges : ConfirmStart(p, w, shown.tok)
  BY DEF Start
<1>3. LocalStep
  BY <1>2 DEF CreateStart, RequestStart, CancelStart, ExecuteStart, VerifyStart, ConfirmStart
<1>4. CASE CreateStart(p, w) \/ VerifyStart(p, w)
  <2>1. Honest(p)
    BY <1>4, FreshHonest DEF CreateStart, VerifyStart, Step
  <2> QED
    BY <1>1, <1>3, <2>1, LocalResults
<1>5. CASE RequestStart(p, w) \/ CancelStart(p, w) \/ \E shown \in challenges : ConfirmStart(p, w, shown.tok)
  <2>1. Honest(p)
    BY <1>1, <1>5, CopyHonest DEF RequestStart, CancelStart, ConfirmStart, Step
  <2> QED
    BY <1>1, <1>3, <2>1, LocalResults
<1>6. CASE ExecuteStart(p, w)
  <2>1. Fresh(p, "e_load", w).wf \in Workflows
    BY FreshFields DEF Step
  <2>2. Honest(p)
    BY <1>1, <1>6, <2>1, FreshHonest, ProceedHonest DEF ExecuteStart, Step
  <2> QED
    BY <1>1, <1>3, <2>2, LocalResults
<1> QED
  BY <1>2, <1>4, <1>5, <1>6

LEMMA ConfirmationResults ==
  ASSUME Journaling, Results, NEW p \in Callers,
         \/ CreateCheck(p) \/ CreateStore(p) \/ RequestCheck(p) \/ RequestStore(p)
         \/ ConfirmCheck(p) \/ ConfirmStore(p) \/ CancelStore(p) \/ Crash(p)
  PROVE  Results'
<1> DEFINE c == call[p]
<1>1. /\ TypeOK /\ c \in Call /\ c.wf \in Workflows /\ c.snap \in JournalRow
      /\ CallBacked(created, c) /\ clock \in Nat /\ tokens + 1 \in Nat
  BY CallKnown DEF Results, TypeOK, HostTypeOK
<1>2. CASE CreateCheck(p)
  <2>1. Honest(p)
    BY <1>1, <1>2, FreshHonest, ReturnHonest DEF CreateCheck, Step
  <2> QED
    BY <1>1, <1>2, <2>1, LocalResults DEF CreateCheck
<1>3. CASE CreateStore(p)
  <2>1. Honest(p) /\ UNCHANGED <<plan, created>>
    BY <1>3, ReturnHonest DEF CreateStore, JournalStep
  <2>2. \A w \in Workflows : journal'[w].steps = journal[w].steps
    <3>1. CASE UNCHANGED journal
      BY <3>1
    <3>2. CASE journal' = [journal EXCEPT ![c.wf].status = "awaiting_confirmation"]
      <4> SUFFICES ASSUME NEW w \in Workflows PROVE journal'[w].steps = journal[w].steps
        OBVIOUS
      <4> DEFINE row == journal[w]
      <4>1. journal'[w] \in {row, [row EXCEPT !.status = "awaiting_confirmation"]} /\ row \in JournalRow
        BY <1>1, <3>2 DEF TypeOK, HostTypeOK
      <4> HIDE DEF row
      <4>2. journal'[w].steps = row.steps
        BY <4>1 DEF JournalRow
      <4> QED
        BY <4>2 DEF row
    <3> QED
      BY <1>3, <3>1, <3>2 DEF CreateStore
  <2> QED
    BY <1>1, <2>1, <2>2, HonestStep DEF Results, RowBacked
<1>4. CASE RequestCheck(p)
  <2> DEFINE n == [c EXCEPT !.pc = "r_cas", !.now = clock, !.tok = tokens + 1]
  <2>1. /\ n \in Call /\ n.pc = "r_cas" /\ n.wf = c.wf /\ n.snap = c.snap /\ n.slot = c.slot
        /\ n.base = c.base /\ n.upd = c.upd
    <3> HIDE DEF c
    <3> QED
      BY <1>1 DEF Call, Step
  <2>2. Become(p, n) \/ Return(p)
    BY <1>4 DEF RequestCheck
  <2> HIDE DEF n
  <2>3. Honest(p)
    BY <1>1, <2>1, <2>2, PlainHonest, ReturnHonest DEF CallBacked
  <2>4. UNCHANGED <<plan, journal, created>>
    BY <1>4 DEF RequestCheck, hostVars
  <2> QED
    BY <1>1, <2>3, <2>4, HonestStep DEF Results
<1>5. CASE ConfirmCheck(p)
  <2> DEFINE n == [c EXCEPT !.pc = "k_cas", !.now = 0]
  <2>1. /\ n \in Call /\ n.pc = "k_cas" /\ n.wf = c.wf /\ n.snap = c.snap /\ n.slot = c.slot
        /\ n.base = c.base /\ n.upd = c.upd
    <3> HIDE DEF c
    <3> QED
      BY <1>1 DEF Call, Step
  <2>2. Become(p, n) \/ Return(p)
    BY <1>5 DEF ConfirmCheck
  <2> HIDE DEF n
  <2>3. Honest(p)
    BY <1>1, <2>1, <2>2, PlainHonest, ReturnHonest DEF CallBacked
  <2> QED
    BY <1>1, <1>5, <2>3, LocalResults DEF ConfirmCheck
<1>6. CASE RequestStore(p) \/ ConfirmStore(p) \/ CancelStore(p)
  <2>1. /\ Honest(p) /\ UNCHANGED <<plan, created>>
        /\ \E next \in {Requested(c), Confirmed(c.snap), Cancelled(c.wf, c.snap)}, out \in Outcome :
             Save(c.wf, c.snap, next, out)
    BY <1>6, ReturnHonest DEF RequestStore, ConfirmStore, CancelStore, JournalStep
  <2>2. ASSUME NEW next \in {Requested(c), Confirmed(c.snap), Cancelled(c.wf, c.snap)}
        PROVE  next \in JournalRow /\ RowBacked(created, c.wf, next)
    BY <1>1, <2>2, RowTypes, RowsBacked
  <2> HIDE DEF c
  <2> QED
    BY <1>1, <2>1, <2>2, StoreResults
<1>7. CASE Crash(p)
  BY <1>1, <1>7, ReturnHonest, LocalResults DEF Crash
<1> QED
  BY <1>2, <1>3, <1>4, <1>5, <1>6, <1>7

\* What the other invariants say of the step that a call is on.
LEMMA CallBelieves ==
  ASSUME Journaling, Results, NEW p \in Callers
  PROVE  /\ TypeOK /\ PlanOK /\ call[p] \in Call /\ call[p].wf \in Workflows
         /\ call[p].snap \in JournalRow /\ call[p].base \in StepResult
         /\ call[p].upd \in StepResult /\ CallBacked(created, call[p])
         /\ BackedBy(created, call[p].wf, call[p].slot, call[p].base)
         /\ clock \in Nat
         /\ call[p].pc \in Looping => call[p].slot \in plan[call[p].wf].steps \cap Slot
         /\ \A w \in Workflows : journal[w] \in JournalRow /\ RowBacked(created, w, journal[w])
<1>1. /\ CallBacked(created, call[p])
      /\ \A w \in Workflows : RowBacked(created, w, journal[w])
  BY DEF Results
<1>2. TypeOK /\ clock \in Nat /\ \A w \in Workflows : journal[w] \in JournalRow
  BY CallKnown DEF TypeOK, HostTypeOK
<1> QED
  BY <1>1, <1>2, CallKnown, PlanSteps DEF CallBacked

LEMMA UpdateResults ==
  ASSUME Journaling, Results, RecordsOK, NEW p \in Callers,
         \/ UpdateLoad(p) \/ UpdateStore(p) \/ VerifyLoad(p) \/ VerifyRead(p)
         \/ VerifyStore(p)
  PROVE  Results'
<1> DEFINE c == call[p]
<1>1. /\ TypeOK /\ PlanOK /\ c \in Call /\ c.wf \in Workflows /\ c.snap \in JournalRow
      /\ c.base \in StepResult /\ c.upd \in StepResult /\ CallBacked(created, c)
      /\ BackedBy(created, c.wf, c.slot, c.base) /\ BackedBy(created, c.wf, c.slot, c.upd)
      /\ journal[c.wf] \in JournalRow /\ RowBacked(created, c.wf, journal[c.wf])
  BY CallBelieves DEF CallBacked
<1>2. CASE UpdateLoad(p)
  <2> DEFINE n == [c EXCEPT !.pc = "u_cas", !.snap = journal[c.wf]]
  <2>1. Become(p, n) \/ UpdateThrows(p, c, "error")
    BY <1>2 DEF UpdateLoad
  <2>2. /\ n \in Call /\ n.pc = "u_cas" /\ n.wf = c.wf /\ n.snap = journal[c.wf]
        /\ n.slot = c.slot /\ n.base = c.base /\ n.upd = c.upd
    <3> HIDE DEF c
    <3> QED
      BY <1>1 DEF Call, Step
  <2> HIDE DEF n
  <2>3. Honest(p)
    BY <1>1, <2>1, <2>2, PlainHonest, UpdateThrowsHonest DEF Outcome
  <2> QED
    BY <1>1, <1>2, <2>3, LocalResults DEF UpdateLoad
<1>3. CASE UpdateStore(p)
  <2> DEFINE n == [c EXCEPT !.pc = "u_load", !.snap = NoWorkflow, !.tries = @ + 1]
  <2>1. PICK out \in Outcome :
          /\ Save(c.wf, c.snap, Updated(c), out)
          /\ Proceed(p, c, c.last) \/ Become(p, n) \/ UpdateThrows(p, c, out)
    BY <1>3 DEF UpdateStore
  <2>2. /\ n \in Call /\ n.pc = "u_load" /\ n.wf = c.wf /\ n.snap = NoWorkflow
        /\ n.slot = c.slot /\ n.base = c.base /\ n.upd = c.upd
    <3>1. c.tries + 1 \in Nat
      BY <1>1 DEF Call
    <3> HIDE DEF c
    <3> QED
      BY <1>1, <3>1, NoWorkflowType DEF Call, Step
  <2> HIDE DEF n
  <2>3. Honest(p)
    BY <1>1, <2>1, <2>2, PlainHonest, ProceedHonest, UpdateThrowsHonest
  <2> QED
    BY <1>1, <1>3, <2>1, <2>3, RowTypes, RowsBacked, StoreResults DEF UpdateStore, JournalStep
<1>4. CASE VerifyLoad(p)
  BY <1>1, <1>4, VerifyNextHonest, LocalResults DEF VerifyLoad
<1>5. CASE VerifyRead(p)
  <2> DEFINE missing == NoRecord(Result(c.base, "uncertain", "READBACK_MISMATCH", FALSE))
  <2>1. missing \in StepResult /\ BackedBy(created, c.wf, c.slot, missing)
    <3>1. "uncertain" \in StepStatus \ {"verified"} /\ "READBACK_MISMATCH" \in ErrorCode
      BY DEF StepStatus, ErrorCode
    <3>2. Result(c.base, "uncertain", "READBACK_MISMATCH", FALSE) \in StepResult
      BY <1>1, <3>1, ResultType
    <3>3. missing \in StepResult
      BY <3>2 DEF NoRecord, StepResult
    <3> QED
      BY <1>1, <3>1, <3>3, LowerResults
  <2>2. \A r \in records : OwnRecord(r, c.wf, c.slot) =>
          /\ Verified(c.base, r.rev) \in StepResult
          /\ BackedBy(created, c.wf, c.slot, Verified(c.base, r.rev))
    BY <1>1, RecordType, VerifiedType, RecordBacks
  <2>3. PICK result \in StepResult :
          /\ Become(p, [c EXCEPT !.pc = "v_cas", !.upd = result])
          /\ BackedBy(created, c.wf, c.slot, result)
    BY <1>5, <2>1, <2>2 DEF VerifyRead, Existing
  <2> DEFINE n == [c EXCEPT !.pc = "v_cas", !.upd = result]
  <2>4. /\ n \in Call /\ n.pc = "v_cas" /\ n.wf = c.wf /\ n.snap = c.snap /\ n.slot = c.slot
        /\ n.base = c.base /\ n.upd = result
    <3> HIDE DEF c
    <3> QED
      BY <1>1 DEF Call, Step
  <2>5. Become(p, n)
    BY <2>3
  <2> HIDE DEF n
  <2>6. Honest(p)
    BY <1>1, <2>3, <2>4, <2>5, PlainHonest DEF CallBacked
  <2> QED
    BY <1>1, <1>5, <2>6, LocalResults DEF VerifyRead
<1>6. CASE VerifyStore(p)
  <2>1. PICK out \in Outcome :
          /\ Save(c.wf, c.snap, Reconciled(c), out)
          /\ \/ VerifyNext(p, c.wf, Advance(c.snap, Reconciled(c)), c.slot)
             \/ Return(p)
    BY <1>6 DEF VerifyStore
  <2>2. Reconciled(c) \in JournalRow /\ RowBacked(created, c.wf, Reconciled(c))
    BY <1>1, RowTypes, RowsBacked
  <2> DEFINE next == Advance(c.snap, Reconciled(c))
  <2>3. next \in JournalRow /\ next.steps = Reconciled(c).steps
    BY <1>1, <2>2, AdvanceType DEF Advance, JournalRow
  <2>4. RowBacked(created, c.wf, next)
    BY <2>2, <2>3 DEF RowBacked
  <2> HIDE DEF next
  <2>5. Honest(p)
    BY <1>1, <2>1, <2>3, <2>4, VerifyNextHonest, ReturnHonest DEF next
  <2> QED
    BY <1>1, <1>6, <2>1, <2>2, <2>5, StoreResults DEF VerifyStore, JournalStep
<1> QED
  BY <1>2, <1>3, <1>4, <1>5, <1>6

\* A destination revision that preflight expects is the planned one, or one
\* that a record of this workflow left.
LEMMA ExpectedRevision ==
  ASSUME TypeOK, PlanOK, CreatedOK, NEW w \in Workflows, NEW s \in plan[w].steps, NEW row \in JournalRow,
         RowBacked(created, w, row), NEW n \in Nat, IsExpectedRevision(w, s, row, n)
  PROVE  LET d == DestOf[Key(w, s)]
         IN \/ n = plan[w].revs[d]
            \/ \E k \in created : k.rec.wf = w /\ DestOf[k.rec.key] = d /\ k.rec.rev = n
<1> DEFINE d == DestOf[Key(w, s)]
           mine == {t \in plan[w].steps : DestOf[Key(w, t)] = d}
           seen == {plan[w].revs[d]} \cup {row.steps[t].rev : t \in mine}
<1>1. n \in seen /\ \A m \in seen : m <= n
  BY DEF IsExpectedRevision
<1>2. CASE n = plan[w].revs[d]
  BY <1>2
<1>3. ASSUME NEW t \in mine, n = row.steps[t].rev, n # plan[w].revs[d]
      PROVE  \E k \in created : k.rec.wf = w /\ DestOf[k.rec.key] = d /\ k.rec.rev = n
  <2>1. t \in Slot /\ d \in Destinations
    BY PlanSteps
  <2>2. plan[w].revs[d] \in Nat /\ plan[w].revs[d] <= n
    BY <1>1, <2>1 DEF TypeOK, HostTypeOK, Plan
  <2>3. PICK k \in created : k.rec.wf = w /\ k.rec.slot = t /\ k.rec.rev = n
    BY <1>3, <2>1, <2>2 DEF RowBacked, BackedBy
  <2>4. DestOf[k.rec.key] = d
    BY <2>3 DEF CreatedOK
  <2> QED
    BY <2>3, <2>4
<1> QED
  BY <1>1, <1>2, <1>3

LEMMA PreflightResults ==
  ASSUME Journaling, Results, RecordsOK, CreatedOK, NEW p \in Callers,
         ExecuteLoad(p) \/ ExecuteRead(p) \/ ExecuteCheck(p) \/ ExecuteRun(p)
  PROVE  Results'
<1> DEFINE c == call[p]
<1>1. /\ TypeOK /\ PlanOK /\ c \in Call /\ c.wf \in Workflows /\ c.snap \in JournalRow
      /\ c.base \in StepResult /\ c.upd \in StepResult /\ CallBacked(created, c)
      /\ BackedBy(created, c.wf, c.slot, c.base) /\ BackedBy(created, c.wf, c.slot, c.upd)
      /\ journal[c.wf] \in JournalRow /\ RowBacked(created, c.wf, journal[c.wf])
      /\ clock \in Nat
  BY CallBelieves DEF CallBacked
<1>2. /\ c.slot \in plan[c.wf].steps /\ c.slot \in Slot
  BY CallBelieves DEF ExecuteLoad, ExecuteRead, ExecuteCheck, ExecuteRun, At, Looping
<1>3. \A status \in StepStatus \ {"verified"}, error \in ErrorCode, retryable \in BOOLEAN :
        /\ Result(c.base, status, error, retryable) \in StepResult
        /\ BackedBy(created, c.wf, c.slot, Result(c.base, status, error, retryable))
  BY <1>1, ResultType, LowerResults
<1>4. /\ {"failed", "uncertain"} \subseteq StepStatus \ {"verified"}
      /\ {"ALREADY_EXISTS", "CONFIRMATION_EXPIRED", "READBACK_FAILED", "RECORD_MISSING", "STALE",
          "PRECONDITION_FAILED", "LOCAL_STORE_BUSY"} \subseteq ErrorCode
      /\ {"plain", "outer"} \subseteq Level /\ {TRUE, FALSE} \subseteq BOOLEAN
  BY DEF StepStatus, ErrorCode, Level
<1>5. CASE ExecuteLoad(p)
  <2> DEFINE n == [c EXCEPT !.pc = "e_read", !.snap = journal[c.wf],
                            !.base = journal[c.wf].steps[c.slot]]
  <2>1. Become(p, n)
    BY <1>5 DEF ExecuteLoad
  <2>2. journal[c.wf].steps[c.slot] \in StepResult
    BY <1>1, <1>2 DEF JournalRow
  <2>3. /\ n \in Call /\ n.pc = "e_read" /\ n.wf = c.wf /\ n.snap = journal[c.wf]
        /\ n.slot = c.slot /\ n.base = journal[c.wf].steps[c.slot] /\ n.upd = c.upd
    <3> HIDE DEF c
    <3> QED
      BY <1>1, <2>2 DEF Call, Step
  <2> HIDE DEF n
  <2>4. Honest(p)
    BY <1>1, <1>2, <2>1, <2>3, PlainHonest DEF RowBacked
  <2> QED
    BY <1>1, <1>5, <2>4, LocalResults DEF ExecuteLoad
<1>6. CASE ExecuteRead(p)
  <2>1. ASSUME ReadFound(p, c) PROVE Honest(p)
    <3>1. \A r \in records : OwnRecord(r, c.wf, c.slot) =>
            /\ Verified(c.base, r.rev) \in StepResult
            /\ BackedBy(created, c.wf, c.slot, Verified(c.base, r.rev))
      BY <1>1, RecordType, VerifiedType, RecordBacks
    <3> QED
      BY <1>1, <1>3, <1>4, <2>1, <3>1, UpdateHonest DEF ReadFound, Existing
  <2>2. ASSUME ReadMissing(p, c) PROVE Honest(p)
    <3> DEFINE n == [c EXCEPT !.pc = "e_ctx", !.now = clock]
               dropped == NoRecord([c.base EXCEPT !.status = "cancelled"])
               gone == NoRecord(Result(c.base, "uncertain", "RECORD_MISSING", FALSE))
    <3>1. /\ dropped \in StepResult /\ BackedBy(created, c.wf, c.slot, dropped)
          /\ gone \in StepResult /\ BackedBy(created, c.wf, c.slot, gone)
      <4>1. dropped \in StepResult /\ gone \in StepResult
        BY <1>1 DEF NoRecord, Result, StepResult, StepStatus, ErrorCode
      <4> QED
        BY <1>1, <1>4, <4>1, LowerResults
    <3>2. /\ n \in Call /\ n.pc = "e_ctx" /\ n.wf = c.wf /\ n.snap = c.snap /\ n.slot = c.slot
          /\ n.base = c.base /\ n.upd = c.upd
      <4> HIDE DEF c
      <4> QED
        BY <1>1 DEF Call, Step
    <3>3. \/ Proceed(p, c, FALSE) \/ Become(p, n)
          \/ Update(p, c, dropped, "plain", FALSE) \/ Update(p, c, gone, "plain", TRUE)
          \/ Update(p, c, Result(c.base, "failed", "CONFIRMATION_EXPIRED", TRUE), "outer", TRUE)
      BY <2>2 DEF ReadMissing
    <3> HIDE DEF n, dropped, gone
    <3>4. Become(p, n) => Honest(p)
      BY <1>1, <3>2, PlainHonest DEF CallBacked
    <3>5. Update(p, c, dropped, "plain", FALSE) \/ Update(p, c, gone, "plain", TRUE) => Honest(p)
      BY <1>1, <1>4, <3>1, UpdateHonest
    <3>6. Update(p, c, Result(c.base, "failed", "CONFIRMATION_EXPIRED", TRUE), "outer", TRUE)
            => Honest(p)
      BY <1>1, <1>3, <1>4, UpdateHonest
    <3> QED
      BY <1>1, <3>3, <3>4, <3>5, <3>6, ProceedHonest
  <2>3. ASSUME Update(p, c, Result(c.base, "uncertain", "READBACK_FAILED", TRUE), "plain", TRUE)
        PROVE  Honest(p)
    BY <1>1, <1>3, <1>4, <2>3, UpdateHonest
  <2>4. Honest(p)
    BY <1>6, <2>1, <2>2, <2>3 DEF ExecuteRead
  <2> QED
    BY <1>1, <1>6, <2>4, LocalResults DEF ExecuteRead
<1>7. CASE ExecuteCheck(p)
  <2> DEFINE found == context.dest[DestOf[Key(c.wf, c.slot)]].rev
             n == [c EXCEPT !.pc = "e_run", !.now = 0, !.drev = found, !.tok = c.snap.auth.token]
  <2>1. \/ Become(p, n) /\ IsExpectedRevision(c.wf, c.slot, c.snap, found)
        \/ Update(p, c, Result(c.base, "failed", "STALE", FALSE), "outer", TRUE)
        \/ Update(p, c, Result(c.base, "failed", "PRECONDITION_FAILED", FALSE), "outer", TRUE)
    BY <1>7 DEF ExecuteCheck
  <2>2. found \in Nat /\ c.snap.auth.token \in Nat
    BY <1>1, <1>2, PlanSteps, NewRecordType DEF JournalRow, Authorization
  <2>3. /\ n \in Call /\ n.pc = "e_run" /\ n.wf = c.wf /\ n.snap = c.snap /\ n.slot = c.slot
        /\ n.base = c.base /\ n.upd = c.upd /\ n.drev = found
    <3> HIDE DEF c, found
    <3> QED
      BY <1>1, <2>2 DEF Call, Step
  <2>4. CallBacked(created, n)
    BY <1>1, <2>3 DEF CallBacked
  <2>5. ASSUME Become(p, n), IsExpectedRevision(c.wf, c.slot, c.snap, found)
        PROVE  Honest(p)
    <3> HIDE DEF n, found
    <3>1. ExpectedBy(created, plan[n.wf], n)
      BY <1>1, <1>2, <2>2, <2>3, <2>5, ExpectedRevision DEF ExpectedBy, CallBacked
    <3> QED
      BY <2>3, <2>4, <2>5, <3>1 DEF Honest
  <2>6. Update(p, c, Result(c.base, "failed", "STALE", FALSE), "outer", TRUE)
          \/ Update(p, c, Result(c.base, "failed", "PRECONDITION_FAILED", FALSE), "outer", TRUE)
        => Honest(p)
    BY <1>1, <1>3, <1>4, UpdateHonest
  <2>7. Honest(p)
    BY <2>1, <2>5, <2>6
  <2> QED
    BY <1>1, <1>7, <2>7, LocalResults DEF ExecuteCheck
<1>8. CASE ExecuteRun(p)
  <2> DEFINE n == [c EXCEPT !.pc = "e_apply", !.snap = NoWorkflow]
  <2>1. PICK out \in Outcome :
          /\ Save(c.wf, c.snap, Started(c), out)
          /\ \/ Become(p, n) \/ Return(p)
             \/ Update(p, c, Result(c.base, "failed", CodeOf(out), FALSE), "outer", TRUE)
    BY <1>8 DEF ExecuteRun
  <2>2. CodeOf(out) \in ErrorCode
    BY <1>4 DEF CodeOf
  <2>3. /\ n \in Call /\ n.pc = "e_apply" /\ n.wf = c.wf /\ n.snap = NoWorkflow /\ n.slot = c.slot
        /\ n.base = c.base /\ n.upd = c.upd /\ n.drev = c.drev
    <3> HIDE DEF c
    <3> QED
      BY <1>1, NoWorkflowType DEF Call, Step
  <2> HIDE DEF n
  <2>4. Become(p, n) => Honest(p)
    <3>1. c.pc = "e_run" /\ ExpectedBy(created, plan[c.wf], c)
      BY <1>8 DEF Results, ExecuteRun, At
    <3>2. ExpectedBy(created, plan[n.wf], n)
      BY <2>3, <3>1 DEF ExpectedBy
    <3> QED
      BY <1>1, <2>3, <3>2, NothingBacked DEF Honest, CallBacked
  <2>5. Honest(p)
    BY <1>1, <1>3, <1>4, <2>1, <2>2, <2>4, ReturnHonest, UpdateHonest
  <2> QED
    BY <1>1, <1>8, <2>1, <2>5, RowTypes, RowsBacked, StoreResults DEF ExecuteRun, JournalStep
<1> QED
  BY <1>5, <1>6, <1>7, <1>8

LEMMA CommitResults ==
  ASSUME Journaling, Results, RecordsOK, NEW p \in Callers,
         ExecuteApply(p) \/ ExecuteReadBack(p) \/ ExecuteFinal(p) \/ ExecuteClose(p)
  PROVE  Results'
<1> DEFINE c == call[p]
<1>1. /\ TypeOK /\ PlanOK /\ c \in Call /\ c.wf \in Workflows /\ c.snap \in JournalRow
      /\ c.base \in StepResult /\ c.upd \in StepResult /\ CallBacked(created, c)
      /\ BackedBy(created, c.wf, c.slot, c.base) /\ BackedBy(created, c.wf, c.slot, c.upd)
      /\ journal[c.wf] \in JournalRow /\ RowBacked(created, c.wf, journal[c.wf])
  BY CallBelieves DEF CallBacked
<1>2. \A status \in StepStatus \ {"verified"}, error \in ErrorCode, retryable \in BOOLEAN :
        /\ Result(Running(c.base), status, error, retryable) \in StepResult
        /\ BackedBy(created, c.wf, c.slot, Result(Running(c.base), status, error, retryable))
  <2>1. Running(c.base) \in StepResult
    BY <1>1, ResultType DEF StepStatus, ErrorCode
  <2>2. \A status \in StepStatus \ {"verified"}, error \in ErrorCode, retryable \in BOOLEAN :
          Result(Running(c.base), status, error, retryable) \in StepResult
    BY <2>1, ResultType
  <2>3. \A status \in StepStatus \ {"verified"}, error \in ErrorCode, retryable \in BOOLEAN :
          BackedBy(created, c.wf, c.slot, Result(Running(c.base), status, error, retryable))
    BY <1>1, LowerResults
  <2> QED
    BY <2>2, <2>3
<1>3. /\ {"failed", "uncertain"} \subseteq StepStatus \ {"verified"}
      /\ "READBACK_MISMATCH" \in ErrorCode /\ {"inner", "catch"} \subseteq Level
      /\ {TRUE, FALSE} \subseteq BOOLEAN
  BY DEF StepStatus, ErrorCode, Level
<1>4. CASE ExecuteApply(p)
  <2> DEFINE n == [InStep(p, "e_back", c) EXCEPT !.pc = "e_back"]
             answer == CommitAnswer(c.wf, c.slot, c.tok, c.drev)
  <2>1. /\ \/ Become(p, n) \/ OutcomeUnknown(p, c)
           \/ /\ answer \notin {"existing", "commit"}
              /\ Update(p, c, Result(Running(c.base), "failed", answer, FALSE), "catch", TRUE)
        /\ UNCHANGED <<plan, journal>> /\ created \subseteq created'
    BY <1>4 DEF ExecuteApply, Commit, CommitRecord, hostVars
  <2>2. answer \in ErrorCode \cup {"existing", "commit"}
    BY DEF CommitAnswer, ErrorCode
  <2>3. /\ n \in Call /\ n.pc = "e_back" /\ n.wf = c.wf /\ n.slot = c.slot /\ n.base = c.base
        /\ n.upd = Pending /\ n.snap = NoWorkflow
    <3> HIDE DEF c
    <3> QED
      BY <1>1, NoWorkflowType, PendingType DEF InStep, Fresh, NoCall, Call, Step, Level
  <2> HIDE DEF n, answer
  <2>4. Honest(p)
    BY <1>1, <1>2, <1>3, <2>1, <2>2, <2>3, PlainHonest, OutcomeUnknownHonest, UpdateHonest
  <2>5. \A w \in Workflows : RowBacked(created', w, journal'[w])
    BY <2>1, BackedGrows DEF Results
  <2> QED
    BY <1>1, <2>1, <2>4, <2>5, HonestStep
<1>5. CASE ExecuteReadBack(p)
  <2>1. \A r \in records : OwnRecord(r, c.wf, c.slot) =>
          /\ Verified(c.base, r.rev) \in StepResult
          /\ BackedBy(created, c.wf, c.slot, Verified(c.base, r.rev))
    BY <1>1, RecordType, VerifiedType, RecordBacks
  <2>2. \/ OutcomeUnknown(p, c)
        \/ Update(p, c, Result(Running(c.base), "uncertain", "READBACK_MISMATCH", TRUE),
                  "inner", TRUE)
        \/ \E r \in records : /\ OwnRecord(r, c.wf, c.slot)
                              /\ Update(p, c, Verified(c.base, r.rev), "inner", FALSE)
    BY <1>5 DEF ExecuteReadBack, Existing
  <2>3. Honest(p)
    BY <1>1, <1>2, <1>3, <2>1, <2>2, OutcomeUnknownHonest, UpdateHonest
  <2> QED
    BY <1>1, <1>5, <2>3, LocalResults DEF ExecuteReadBack
<1>6. CASE ExecuteFinal(p)
  <2> DEFINE n == [c EXCEPT !.pc = "e_close", !.snap = journal[c.wf]]
  <2>1. Become(p, n) \/ Return(p)
    BY <1>6 DEF ExecuteFinal
  <2>2. /\ n \in Call /\ n.pc = "e_close" /\ n.wf = c.wf /\ n.snap = journal[c.wf]
        /\ n.slot = c.slot /\ n.base = c.base /\ n.upd = c.upd
    <3> HIDE DEF c
    <3> QED
      BY <1>1 DEF Call, Step
  <2> HIDE DEF n
  <2>3. Honest(p)
    BY <1>1, <2>1, <2>2, PlainHonest, ReturnHonest
  <2> QED
    BY <1>1, <1>6, <2>3, LocalResults DEF ExecuteFinal
<1>7. CASE ExecuteClose(p)
  <2>1. Honest(p)
    BY <1>7, ReturnHonest DEF ExecuteClose
  <2> QED
    BY <1>1, <1>7, <2>1, RowTypes, RowsBacked, StoreResults DEF ExecuteClose, JournalStep
<1> QED
  BY <1>4, <1>5, <1>6, <1>7

LEMMA PlanResults ==
  ASSUME Journaling, Results, NEW w \in Workflows, PreparePlan(w)
  PROVE  Results'
<1>1. /\ ~plan[w].made /\ plan' = [plan EXCEPT ![w] = PlanFor(w, context, clock)]
      /\ UNCHANGED <<journal, call, created>> /\ plan \in [Workflows -> Plan]
  BY DEF PreparePlan, Journaling, Typing, TypeOK, HostTypeOK
<1>2. ASSUME NEW p \in Callers
      PROVE  ExpectedBy(created', plan'[call'[p].wf], call'[p])
  <2>1. call[p].pc # "idle" => call[p].wf # w
    BY <1>1, CallKnown
  <2>2. ExpectedBy(created, plan[call[p].wf], call[p])
    BY DEF Results
  <2> QED
    BY <1>1, <2>1, <2>2, CallKnown DEF ExpectedBy
<1>3. ASSUME NEW p \in Callers
      PROVE  CallBacked(created, call[p])' /\ ExpectedBy(created, plan[call[p].wf], call[p])'
  BY <1>1, <1>2 DEF Results, CallBacked, RowBacked, BackedBy, ExpectedBy
<1>4. \A v \in Workflows : RowBacked(created, v, journal[v])'
  BY <1>1 DEF Results, RowBacked, BackedBy
<1> QED
  BY <1>3, <1>4 DEF Results

LEMMA StepResults ==
  ASSUME Journaling, Results, RecordsOK, CreatedOK, [Next]_vars
  PROVE  Results'
<1>1. ASSUME NEW w \in Workflows, PreparePlan(w) PROVE Results'
  BY <1>1, PlanResults
<1>2. ASSUME NEW p \in Callers, Start(p) PROVE Results'
  BY <1>2, StartResults
<1>3. ASSUME NEW p \in Callers, Handler(p) \/ Crash(p) PROVE Results'
  BY <1>3, ConfirmationResults, UpdateResults, PreflightResults, CommitResults DEF Handler
<1>4. CASE Surroundings \/ UNCHANGED vars
  <2>1. UNCHANGED <<plan, journal, call, created>>
    BY <1>4 DEF Surroundings, Tick, EditContext, ReplaceContext, LoseRecord, vars, hostVars, callVars
  <2> QED
    BY <2>1 DEF Results, RowBacked, CallBacked, BackedBy, ExpectedBy
<1> QED
  BY <1>1, <1>2, <1>3, <1>4 DEF Next

-----------------------------------------------------------------------------
(* What was committed, and the records that are left of it.                  *)

\* Workflows are stored one at a time, as far as there is room.
LEMMA StoredGrows ==
  ASSUME Journaling, [Next]_vars
  PROVE  \/ Stored' = Stored
         \/ \E w \in Workflows : CanInsert(w) /\ Stored' = Stored \cup {w}
<1>0. Journaling' /\ JournalEvolves
  BY StepJournaling
<1>1. ASSUME NEW p \in Callers, CreateStore(p)
      PROVE  \/ Stored' = Stored
             \/ \E w \in Workflows : CanInsert(w) /\ Stored' = Stored \cup {w}
  <2> DEFINE w == call[p].wf
  <2>1. w \in Workflows /\ journal \in [Workflows -> JournalRow]
    BY CallKnown DEF TypeOK, HostTypeOK
  <2>2. CASE CanInsert(w)
    <3>1. journal' = [journal EXCEPT ![w].status = "awaiting_confirmation"]
      BY <1>1, <2>2 DEF CreateStore
    <3>2. journal'[w].status = "awaiting_confirmation"
          /\ \A v \in Workflows \ {w} : journal'[v] = journal[v]
      <4> DEFINE row == journal[w]
      <4>1. row \in JournalRow /\ journal'[w] = [row EXCEPT !.status = "awaiting_confirmation"]
            /\ \A v \in Workflows \ {w} : journal'[v] = journal[v]
        BY <2>1, <3>1
      <4> HIDE DEF row
      <4> QED
        BY <4>1 DEF JournalRow
    <3> QED
      BY <2>1, <2>2, <3>2 DEF Stored
  <2>3. CASE ~CanInsert(w)
    BY <1>1, <2>3 DEF CreateStore, Stored
  <2> QED
    BY <2>2, <2>3
<1>2. CASE \A w \in Workflows : journal'[w] = journal[w] \/ journal[w].status # "absent"
  BY <1>0, <1>2 DEF Stored, JournalEvolves, Evolves
<1>3. ASSUME NEW p \in Callers, Handler(p) \/ Crash(p), ~CreateStore(p)
      PROVE  \A w \in Workflows : journal'[w] = journal[w] \/ journal[w].status # "absent"
  <2>1. \/ UNCHANGED journal
        \/ \E next, out : Save(call[p].wf, call[p].snap, next, out)
    BY <1>3 DEF Handler, Crash, CreateCheck, RequestCheck, RequestStore, ConfirmCheck,
                ConfirmStore, CancelStore, UpdateLoad, UpdateStore, ExecuteLoad, ExecuteRead,
                ExecuteCheck, ExecuteRun, ExecuteApply, Commit, CommitRecord, ExecuteReadBack,
                ExecuteFinal, ExecuteClose, VerifyLoad, VerifyRead, VerifyStore, LocalStep,
                hostVars
  <2>2. call[p].wf \in Workflows /\ journal \in [Workflows -> JournalRow]
    BY CallKnown DEF TypeOK, HostTypeOK
  <2> QED
    BY <2>1, <2>2, SaveWrites DEF Matches
<1>4. CASE (\E p \in Callers : Start(p)) \/ (\E w \in Workflows : PreparePlan(w)) \/ Surroundings
           \/ UNCHANGED vars
  <2>1. UNCHANGED journal
    BY <1>4 DEF Start, CreateStart, RequestStart, CancelStart, ExecuteStart, VerifyStart,
                ConfirmStart, LocalStep, PreparePlan, Surroundings, Tick, EditContext,
                ReplaceContext, LoseRecord, vars, hostVars
  <2> QED
    BY <1>2, <2>1
<1> QED
  BY <1>1, <1>2, <1>3, <1>4 DEF Next

\* What may happen to records and context.
LEMMA RecordFrame ==
  ASSUME [Next]_vars
  PROVE  \/ UNCHANGED <<records, created, context>>
         \/ \E p \in Callers : call[p].pc = "e_apply" /\ Commit(p, call[p])
         \/ EditContext \/ LoseRecord
<1>1. ASSUME NEW p \in Callers, Start(p) PROVE UNCHANGED <<records, created, context>>
  BY <1>1 DEF Start, CreateStart, RequestStart, CancelStart, ExecuteStart, VerifyStart,
              ConfirmStart, LocalStep, hostVars
<1>2. ASSUME NEW p \in Callers, Handler(p) \/ Crash(p), ~ExecuteApply(p)
      PROVE  UNCHANGED <<records, created, context>>
  BY <1>2 DEF Handler, Crash, CreateCheck, CreateStore, RequestCheck, RequestStore,
              ConfirmCheck, ConfirmStore, CancelStore, UpdateLoad, UpdateStore, ExecuteLoad,
              ExecuteRead, ExecuteCheck, ExecuteRun, ExecuteReadBack, ExecuteFinal,
              ExecuteClose, VerifyLoad, VerifyRead, VerifyStore, LocalStep, JournalStep,
              hostVars
<1>3. ASSUME NEW p \in Callers, ExecuteApply(p)
      PROVE  \/ UNCHANGED <<records, created, context>>
             \/ call[p].pc = "e_apply" /\ Commit(p, call[p])
  BY <1>3 DEF ExecuteApply, At, hostVars
<1>4. ASSUME NEW w \in Workflows, PreparePlan(w) PROVE UNCHANGED <<records, created, context>>
  BY <1>4 DEF PreparePlan
<1>5. CASE Tick \/ UNCHANGED vars
  BY <1>5 DEF Tick, vars, hostVars, callVars
<1> QED
  BY <1>1, <1>2, <1>3, <1>4, <1>5 DEF Next, Surroundings

\* Events are only counted up.
LEMMA SpendCounts ==
  ASSUME spent \in [Kind -> Nat], NEW k \in Kind, Spend(k)
  PROVE  \A j \in Kind : spent[j] <= spent'[j] /\ (j = k => spent'[j] # 0)
  BY DEF Spend

LEMMA SpentGrows ==
  ASSUME TypeOK, [Next]_vars
  PROVE  \A k \in Kind : spent[k] <= spent'[k]
<1>0. spent \in [Kind -> Nat] /\ \A k \in Kind : spent[k] \in Nat
  BY DEF TypeOK
<1>1. ASSUME UNCHANGED spent \/ \E k \in Kind : Spend(k)
      PROVE  \A k \in Kind : spent[k] <= spent'[k]
  BY <1>0, <1>1, SpendCounts
<1>2. {"Plan", "Create", "Request", "Confirm", "Cancel", "Execute", "Verify", "fault", "crash",
       "edit", "loss", "tick"} \subseteq Kind
  BY DEF Kind, Operation
<1>3. ASSUME NEW p \in Callers, Start(p) PROVE \E k \in Kind : Spend(k)
  BY <1>2, <1>3 DEF Start, CreateStart, RequestStart, CancelStart, ExecuteStart, VerifyStart,
                    ConfirmStart, Begin
<1>4. ASSUME NEW w, NEW row, NEW next, NEW out, Save(w, row, next, out)
      PROVE  UNCHANGED spent \/ \E k \in Kind : Spend(k)
  BY <1>2, <1>4 DEF Save
<1>5. ASSUME NEW p \in Callers, Handler(p) \/ Crash(p)
      PROVE  \/ UNCHANGED spent
             \/ \E k \in Kind : Spend(k)
             \/ \E w, row, next, out : Save(w, row, next, out)
  BY <1>2, <1>5 DEF Handler, Crash, CreateCheck, CreateStore, RequestCheck, RequestStore,
              ConfirmCheck, ConfirmStore, CancelStore, UpdateLoad, UpdateStore, ExecuteLoad,
              ExecuteRead, ExecuteCheck, ExecuteRun, ExecuteApply, ExecuteReadBack,
              ExecuteFinal, ExecuteClose, VerifyLoad, VerifyRead, VerifyStore
<1>6. CASE (\E w \in Workflows : PreparePlan(w)) \/ Surroundings
  BY <1>1, <1>2, <1>6 DEF PreparePlan, Surroundings, Tick, EditContext, LoseRecord
<1>7. CASE UNCHANGED vars
  BY <1>1, <1>7 DEF vars, callVars
<1> QED
  BY <1>1, <1>3, <1>4, <1>5, <1>6, <1>7 DEF Next

LEMMA LossUnspent ==
  ASSUME TypeOK, [Next]_vars, Unspent({"loss"})'
  PROVE  Unspent({"loss"}) /\ ~LoseRecord
<1>1. "loss" \in Kind /\ spent \in [Kind -> Nat] /\ spent["loss"] \in Nat
  BY DEF Kind, TypeOK
<1>2. spent'["loss"] = 0
  BY DEF Unspent
<1> QED
  BY <1>1, <1>2, SpentGrows, SpendCounts DEF Unspent, LoseRecord

\* What a commit adds.
LEMMA CommitAdds ==
  ASSUME Journaling, NEW p \in Callers, call[p].pc = "e_apply", Commit(p, call[p])
  PROVE  LET w == call[p].wf
             s == call[p].slot
             d == DestOf[Key(w, s)]
         IN /\ w \in Workflows /\ s \in plan[w].steps /\ d \in Destinations
            /\ context.dest[d].rev \in Nat /\ context.dest[d].scope = "own"
            /\ context.dest[d].rev = call[p].drev
            /\ NewRecord(w, s).rev = context.dest[d].rev + 1
            /\ NewRecord(w, s).key = Key(w, s) /\ NewRecord(w, s).wf = w
            /\ NewRecord(w, s).slot = s
            /\ context'.dest[d].rev = context.dest[d].rev + 1
            /\ \A e \in Destinations :
                 /\ context'.dest[e].scope = context.dest[e].scope
                 /\ context'.dest[e].rev \in Nat /\ context.dest[e].rev \in Nat
                 /\ context'.dest[e].rev >= context.dest[e].rev
            /\ journal[w].status = "running"
<1> DEFINE w == call[p].wf
           s == call[p].slot
           d == DestOf[Key(w, s)]
<1>1. /\ w \in Workflows /\ s \in plan[w].steps /\ d \in Destinations /\ context \in Context
  BY CallKnown, PlanSteps DEF Looping, TypeOK, HostTypeOK
<1>2. /\ Active(w, s) /\ PlanCurrent(w, context, clock) /\ Undisturbed(w, s, call[p].drev)
      /\ context' = [context EXCEPT !.dest[d].rev = @ + 1]
  BY CommitChecked
<1>3. context.dest[d].scope = "own" /\ context.dest[d].rev = call[p].drev
      /\ journal[w].status = "running"
  BY <1>1, <1>2 DEF PlanCurrent, Selectable, Undisturbed, Active
<1> HIDE DEF d, w, s
<1>4. \A e \in Destinations : context.dest[e] \in DestinationRow /\ context.dest[e].rev \in Nat
  BY <1>1 DEF Context, DestinationRow
<1>5. /\ context'.dest[d] = [context.dest[d] EXCEPT !.rev = @ + 1]
      /\ \A e \in Destinations \ {d} : context'.dest[e] = context.dest[e]
  BY <1>1, <1>2 DEF Context
<1>6. context'.dest[d].rev = context.dest[d].rev + 1 /\ context'.dest[d].scope = context.dest[d].scope
  <2> DEFINE row == context.dest[d]
  <2>1. row \in DestinationRow /\ context'.dest[d] = [row EXCEPT !.rev = row.rev + 1]
    BY <1>1, <1>4, <1>5
  <2> HIDE DEF row
  <2>2. context'.dest[d].rev = row.rev + 1 /\ context'.dest[d].scope = row.scope
    BY <2>1 DEF DestinationRow
  <2> QED
    BY <2>2 DEF row
<1>7. \A e \in Destinations :
        /\ context'.dest[e].scope = context.dest[e].scope
        /\ context'.dest[e].rev \in Nat /\ context'.dest[e].rev >= context.dest[e].rev
  <2> TAKE e \in Destinations
  <2>1. CASE e = d
    BY <1>4, <1>6, <2>1
  <2>2. CASE e # d
    BY <1>4, <1>5, <2>2
  <2> QED
    BY <2>1, <2>2
<1>8. /\ NewRecord(w, s).rev = context.dest[d].rev + 1
      /\ NewRecord(w, s).key = Key(w, s) /\ NewRecord(w, s).wf = w /\ NewRecord(w, s).slot = s
  BY DEF NewRecord, d
<1> QED
  BY <1>1, <1>3, <1>4, <1>6, <1>7, <1>8 DEF w, s, d

LEMMA PlanChange ==
  ASSUME [Next]_vars
  PROVE  UNCHANGED plan \/ \E w \in Workflows : PreparePlan(w)
<1>1. ASSUME NEW p \in Callers, Start(p) PROVE UNCHANGED plan
  BY <1>1 DEF Start, CreateStart, RequestStart, CancelStart, ExecuteStart, VerifyStart,
              ConfirmStart, LocalStep, hostVars
<1>2. ASSUME NEW p \in Callers, Handler(p) \/ Crash(p) PROVE UNCHANGED plan
  BY <1>2 DEF Handler, Crash, CreateCheck, CreateStore, RequestCheck, RequestStore,
              ConfirmCheck, ConfirmStore, CancelStore, UpdateLoad, UpdateStore, ExecuteLoad,
              ExecuteRead, ExecuteCheck, ExecuteRun, ExecuteApply, Commit, CommitRecord,
              ExecuteReadBack, ExecuteFinal, ExecuteClose, VerifyLoad, VerifyRead,
              VerifyStore, LocalStep, JournalStep, hostVars
<1>3. CASE Surroundings \/ UNCHANGED vars
  BY <1>3 DEF Surroundings, Tick, EditContext, ReplaceContext, LoseRecord, vars, hostVars
<1> QED
  BY <1>1, <1>2, <1>3 DEF Next

LEMMA StepCreated ==
  ASSUME Journaling, CreatedOK, [Next]_vars
  PROVE  CreatedOK'
<1>1. JournalEvolves /\ Typing /\ TypeOK /\ PlanOK
  BY StepJournaling DEF Journaling, Typing
<1>2. \A w \in Workflows : plan[w].made => plan'[w] = plan[w]
  <2>1. ASSUME NEW v \in Workflows, PreparePlan(v)
        PROVE  \A w \in Workflows : plan[w].made => plan'[w] = plan[w]
    BY <1>1, <2>1 DEF PreparePlan, TypeOK, HostTypeOK
  <2>2. CASE ~\E v \in Workflows : PreparePlan(v)
    <3>1. UNCHANGED plan
      BY <2>2, PlanChange
    <3> QED
      BY <3>1
  <2> QED
    BY <2>1, <2>2
<1>3. ASSUME NEW c \in created
      PROVE  /\ journal'[c.rec.wf].status # "absent" /\ c.rec.slot \in plan'[c.rec.wf].steps
             /\ c.rec.key = Key(c.rec.wf, c.rec.slot) /\ c.rec.rev > 0
  <2>1. c.rec.wf \in Workflows
    BY <1>1 DEF TypeOK, Creation, LocalRecord
  <2>2. /\ journal[c.rec.wf].status # "absent" /\ c.rec.slot \in plan[c.rec.wf].steps
        /\ c.rec.key = Key(c.rec.wf, c.rec.slot) /\ c.rec.rev > 0
    BY DEF CreatedOK
  <2>3. plan[c.rec.wf].made
    BY <1>1, <2>1, <2>2 DEF PlanOK
  <2> QED
    BY <1>1, <1>2, <2>1, <2>2, <2>3 DEF JournalEvolves, Evolves
<1>4. CASE UNCHANGED created
  BY <1>3, <1>4 DEF CreatedOK
<1>5. ASSUME NEW p \in Callers, call[p].pc = "e_apply", Commit(p, call[p])
      PROVE  CreatedOK'
  <2> DEFINE new == [rec |-> NewRecord(call[p].wf, call[p].slot), tok |-> call[p].tok]
  <2>1. /\ created' = created \cup {new} /\ UNCHANGED <<plan, journal>>
    BY <1>5, CommitChecked
  <2>2. /\ journal[new.rec.wf].status # "absent" /\ new.rec.slot \in plan[new.rec.wf].steps
        /\ new.rec.key = Key(new.rec.wf, new.rec.slot) /\ new.rec.rev > 0
    BY <1>5, CommitAdds
  <2> HIDE DEF new
  <2> QED
    BY <1>3, <2>1, <2>2 DEF CreatedOK
<1> QED
  BY <1>4, <1>5, RecordChange

\* An application's change keeps the destinations that records are in.
LEMMA EditKeeps ==
  ASSUME EditContext
  PROVE  /\ UNCHANGED <<plan, journal, records, created>>
         /\ \A r \in records : /\ context'.dest[DestOf[r.key]].scope # "absent"
                               /\ context'.dest[DestOf[r.key]].rev >= r.rev
  BY DEF EditContext, ReplaceContext, AcceptsContext, KeepsRecords

\* The number of records and of stored workflows stays within its limit.
LEMMA StepCounts ==
  ASSUME Journaling, RecordsOK, [Next]_vars
  PROVE  /\ IsFiniteSet(records)' /\ (Cardinality(records) <= RecordLimit)'
         /\ (Cardinality(Stored) <= WorkflowLimit)'
<1>1. /\ WorkflowLimit \in Nat /\ RecordLimit \in Nat /\ IsFiniteSet(Workflows)
  BY HostConstants
<1>2. /\ IsFiniteSet(records) /\ Cardinality(records) <= RecordLimit
      /\ Cardinality(Stored) <= WorkflowLimit
  BY DEF RecordsOK
<1>3. Cardinality(records) \in Nat
  BY <1>2, FS_CardinalityType
<1>4. IsFiniteSet(Stored) /\ Cardinality(Stored) \in Nat
  BY <1>1, FS_Subset, FS_CardinalityType DEF Stored
<1>5. IsFiniteSet(records') /\ Cardinality(records') <= RecordLimit
  <2>1. CASE records' \subseteq records
    <3>1. IsFiniteSet(records') /\ Cardinality(records') <= Cardinality(records)
      BY <1>2, <2>1, FS_Subset
    <3>2. Cardinality(records') \in Nat
      BY <3>1, FS_CardinalityType
    <3> QED
      BY <1>1, <1>2, <1>3, <3>1, <3>2
  <2>2. ASSUME NEW p \in Callers, Commit(p, call[p])
        PROVE  IsFiniteSet(records') /\ Cardinality(records') <= RecordLimit
    <3> DEFINE new == NewRecord(call[p].wf, call[p].slot)
    <3>1. records' = records \cup {new} /\ ~(Cardinality(records) >= RecordLimit)
      BY <2>2, CommitChecked
    <3> HIDE DEF new
    <3>2. /\ IsFiniteSet(records')
          /\ Cardinality(records') = IF new \in records THEN Cardinality(records)
                                                         ELSE Cardinality(records) + 1
      BY <1>2, <3>1, FS_AddElement
    <3> QED
      BY <1>1, <1>3, <3>1, <3>2
  <2> QED
    BY <2>1, <2>2, RecordChange
<1>6. Cardinality(Stored') <= WorkflowLimit
  <2>1. ASSUME NEW w \in Workflows, CanInsert(w), Stored' = Stored \cup {w}
        PROVE  Cardinality(Stored') <= WorkflowLimit
    <3>1. Cardinality(Stored) < WorkflowLimit
      BY <2>1 DEF CanInsert
    <3>2. Cardinality(Stored') = IF w \in Stored THEN Cardinality(Stored)
                                                 ELSE Cardinality(Stored) + 1
      BY <1>4, <2>1, FS_AddElement
    <3> QED
      BY <1>1, <1>4, <3>1, <3>2
  <2> QED
    BY <1>2, <2>1, StoredGrows
<1> QED
  BY <1>5, <1>6

LEMMA StepRecords ==
  ASSUME Journaling, CreatedOK, RecordsOK, [Next]_vars
  PROVE  RecordsOK'
<1>1. TypeOK /\ context \in Context
  BY DEF Journaling, Typing, TypeOK, HostTypeOK
<1>2. \A r \in records : /\ \E c \in created : c.rec = r
                         /\ context.dest[DestOf[r.key]].scope # "absent"
                         /\ context.dest[DestOf[r.key]].rev >= r.rev
                         /\ DestOf[r.key] \in Destinations /\ r.rev \in Nat
  BY <1>1, HostConstants DEF RecordsOK, TypeOK, HostTypeOK, LocalRecord
<1>3. \A r, q \in records : r.key = q.key => r = q
  BY DEF RecordsOK
<1>4. Unspent({"loss"})' => \A c \in created : c.rec \in records
  BY <1>1, LossUnspent DEF RecordsOK
<1>5. ASSUME NEW p \in Callers, call[p].pc = "e_apply", Commit(p, call[p])
      PROVE  RecordsOK'
  <2> DEFINE w == call[p].wf
             s == call[p].slot
             d == DestOf[Key(w, s)]
             new == NewRecord(w, s)
             made == [rec |-> new, tok |-> call[p].tok]
  <2>1. /\ Existing(w, s) = {} /\ records' = records \cup {new} /\ created' = created \cup {made}
    BY <1>5, CommitChecked
  <2>2. /\ d \in Destinations /\ new.key = Key(w, s) /\ made.rec = new
        /\ context.dest[d].rev \in Nat /\ new.rev = context.dest[d].rev + 1
        /\ context.dest[d].scope = "own"
        /\ context'.dest[d].rev = context.dest[d].rev + 1
        /\ \A e \in Destinations :
             /\ context'.dest[e].scope = context.dest[e].scope
             /\ context'.dest[e].rev \in Nat /\ context.dest[e].rev \in Nat
             /\ context'.dest[e].rev >= context.dest[e].rev
    BY <1>5, CommitAdds
  <2>3. DestOf[new.key] = d
    BY <2>2
  <2>4. \A r \in records : r.key # new.key
    BY <2>1, <2>2 DEF Existing
  <2> HIDE DEF new, made, d, w, s
  <2>5. \A r \in records' : /\ \E c \in created' : c.rec = r
                            /\ context'.dest[DestOf[r.key]].scope # "absent"
                            /\ context'.dest[DestOf[r.key]].rev >= r.rev
    <3>1. \A r \in records : /\ \E c \in created' : c.rec = r
                             /\ context'.dest[DestOf[r.key]].scope # "absent"
                             /\ context'.dest[DestOf[r.key]].rev >= r.rev
      BY <1>2, <2>1, <2>2
    <3>2. /\ \E c \in created' : c.rec = new
          /\ context'.dest[DestOf[new.key]].scope # "absent"
          /\ context'.dest[DestOf[new.key]].rev >= new.rev
      BY <2>1, <2>2, <2>3
    <3> QED
      BY <2>1, <3>1, <3>2
  <2>6. \A r, q \in records' : r.key = q.key => r = q
    BY <1>3, <2>1, <2>4
  <2>7. Unspent({"loss"})' => \A c \in created' : c.rec \in records'
    BY <1>4, <2>1, <2>2
  <2> QED
    BY <2>5, <2>6, <2>7, StepCounts DEF RecordsOK
<1>6. CASE UNCHANGED <<records, created, context>>
  BY <1>2, <1>3, <1>4, <1>6, StepCounts DEF RecordsOK
<1>7. CASE EditContext
  BY <1>2, <1>3, <1>4, <1>7, EditKeeps, StepCounts DEF RecordsOK
<1>8. CASE LoseRecord
  <2>1. records' \subseteq records /\ UNCHANGED <<created, context>> /\ ~Unspent({"loss"})'
    BY <1>1, <1>8, LossUnspent DEF LoseRecord
  <2> QED
    BY <1>2, <1>3, <2>1, StepCounts DEF RecordsOK
<1> QED
  BY <1>5, <1>6, <1>7, <1>8, RecordFrame

LEMMA StepNoDuplicate ==
  ASSUME Journaling, RecordsOK, NoDuplicate, [Next]_vars
  PROVE  NoDuplicate'
<1>1. Unspent({"loss"})' => Unspent({"loss"})
  BY LossUnspent DEF Journaling, Typing
<1>2. CASE UNCHANGED created
  BY <1>1, <1>2 DEF NoDuplicate
<1>3. ASSUME NEW p \in Callers, call[p].pc = "e_apply", Commit(p, call[p]),
             Unspent({"loss"})'
      PROVE  \A a, b \in created' : a.rec.key = b.rec.key => a = b
  <2> DEFINE new == NewRecord(call[p].wf, call[p].slot)
             made == [rec |-> new, tok |-> call[p].tok]
  <2>1. /\ \A r \in records : r.key # new.key
        /\ created' = created \cup {made} /\ made.rec = new
    <3>1. /\ Existing(call[p].wf, call[p].slot) = {}
          /\ created' = created \cup {made}
      BY <1>3, CommitChecked
    <3>2. new.key = Key(call[p].wf, call[p].slot)
      BY <1>3, CommitAdds
    <3> HIDE DEF new
    <3> QED
      BY <3>1, <3>2 DEF Existing
  <2> HIDE DEF new, made
  <2>2. \A c \in created : c.rec.key # new.key
    BY <1>1, <1>3, <2>1 DEF RecordsOK
  <2> QED
    BY <1>1, <1>3, <2>1, <2>2 DEF NoDuplicate
<1> QED
  BY <1>2, <1>3, RecordChange DEF NoDuplicate

LEMMA StepNoWriteOver ==
  ASSUME Journaling, Results, CreatedOK, NoWriteOverForeignEdit, [Next]_vars
  PROVE  NoWriteOverForeignEdit'
<1>1. TypeOK /\ PlanOK
  BY DEF Journaling, Typing
<1>2. ASSUME NEW v \in Workflows, PreparePlan(v)
      PROVE  NoWriteOverForeignEdit'
  <2>1. /\ UNCHANGED created /\ ~plan[v].made
        /\ \A w \in Workflows \ {v} : plan'[w] = plan[w]
    BY <1>1, <1>2 DEF PreparePlan, TypeOK, HostTypeOK
  <2>2. \A c \in created : c.rec.wf \in Workflows \ {v}
    <3> TAKE c \in created
    <3>1. c.rec.wf \in Workflows
      BY <1>1 DEF TypeOK, Creation, LocalRecord
    <3>2. c.rec.slot \in plan[c.rec.wf].steps
      BY DEF CreatedOK
    <3> QED
      BY <1>1, <2>1, <3>1, <3>2 DEF PlanOK
  <2> QED
    BY <2>1, <2>2 DEF NoWriteOverForeignEdit
<1>3. CASE UNCHANGED <<plan, created>>
  BY <1>3 DEF NoWriteOverForeignEdit
<1>4. ASSUME NEW p \in Callers, call[p].pc = "e_apply", Commit(p, call[p])
      PROVE  NoWriteOverForeignEdit'
  <2> DEFINE w == call[p].wf
             d == DestOf[Key(w, call[p].slot)]
             new == NewRecord(w, call[p].slot)
             made == [rec |-> new, tok |-> call[p].tok]
  <2>1. created' = created \cup {made} /\ UNCHANGED plan
    BY <1>4, CommitChecked
  <2>2. /\ made.rec = new /\ new.key = Key(w, call[p].slot) /\ new.wf = w
        /\ new.rev = call[p].drev + 1
    BY <1>4, CommitAdds
  <2>3. \/ call[p].drev = plan[w].revs[d]
        \/ \E k \in created : k.rec.wf = w /\ DestOf[k.rec.key] = d /\ k.rec.rev = call[p].drev
    BY <1>4 DEF Results, ExpectedBy
  <2>4. DestOf[new.key] = d
    BY <2>2
  <2> HIDE DEF new, made, w, d
  <2> QED
    BY <2>1, <2>2, <2>3, <2>4 DEF NoWriteOverForeignEdit
<1> QED
  BY <1>2, <1>3, <1>4, PlanChange, RecordChange

-----------------------------------------------------------------------------
(* What always holds of the journal and of what was committed.               *)

Commits == Journaling /\ Results /\ CreatedOK /\ RecordsOK

LEMMA InitCommits == Init => Commits
<1> SUFFICES ASSUME Init PROVE Commits
  OBVIOUS
<1>1. Journaling
  BY InitJournaling
<1>2. /\ records = {} /\ created = {} /\ journal = [w \in Workflows |-> NoWorkflow]
      /\ call = [p \in Callers |-> NoCall]
  BY DEF Init, HostInit
<1>3. Results
  <2>1. \A w \in Workflows : RowBacked(created, w, journal[w])
    BY <1>2, NothingBacked
  <2>2. \A p \in Callers : /\ CallBacked(created, call[p])
                           /\ ExpectedBy(created, plan[call[p].wf], call[p])
    BY <1>2, NothingBacked DEF CallBacked, ExpectedBy, NoCall
  <2> QED
    BY <2>1, <2>2 DEF Results
<1>4. CreatedOK
  BY <1>2 DEF CreatedOK
<1>5. Stored = {}
  BY <1>2 DEF Stored, NoWorkflow
<1>6. RecordsOK
  BY <1>2, <1>5, FS_EmptySet, HostConstants DEF RecordsOK
<1> QED
  BY <1>1, <1>3, <1>4, <1>6 DEF Commits

LEMMA StepCommits == Commits /\ [Next]_vars => Commits'
  BY StepJournaling, StepResults, StepCreated, StepRecords DEF Commits

LEMMA CommitsHold == Spec => []Commits
  BY InitCommits, StepCommits, PTL DEF Spec

\* "verified" is never believed: behind every verified step there is a record
\* that this step of this workflow committed, at the recorded revision, because
\* every result a call carries and every row it copies is backed by a commit.
THEOREM VerifiedIsBacked == Spec => []VerifiedHasRecord
<1>1. Commits => VerifiedHasRecord
  <2> SUFFICES ASSUME Commits, NEW w \in Workflows, NEW s \in plan[w].steps,
                      journal[w].steps[s].status = "verified"
               PROVE  \E c \in CreatedFor(w, s) : c.rec.rev = journal[w].steps[s].rev
    BY DEF VerifiedHasRecord
  <2>1. s \in Slot
    BY PlanSteps DEF Commits, Journaling, Typing
  <2> QED
    BY <2>1 DEF Commits, Results, RowBacked, BackedBy, CreatedFor
<1> QED
  BY <1>1, CommitsHold, PTL

\* A completed workflow did everything the user selected: only a restorable row
\* is ever stored, a completed one has every planned step verified and nothing
\* held, and then every selected step is a planned one.
THEOREM CompletedIsDone == Spec => []CompletedMeansDone
<1>1. Commits => CompletedMeansDone
  <2> SUFFICES ASSUME Commits, NEW w \in Workflows, journal[w].status = "completed",
                      NEW s \in Slots(w)
               PROVE  CreatedFor(w, s) # {}
    BY DEF CompletedMeansDone
  <2>1. plan[w].made /\ Restorable(w, journal[w])
    BY DEF Commits, Journaling, JournalOK
  <2>2. IntentComplete(w, journal[w])
    BY <2>1 DEF Restorable
  <2>3. s \in plan[w].steps /\ s \in Slot
    BY <2>1, <2>2 DEF IntentComplete, Commits, Journaling, Typing, PlanOK, Slot
  <2>4. journal[w].steps[s].status = "verified"
    BY <2>2, <2>3 DEF IntentComplete
  <2> QED
    BY <2>3, <2>4 DEF Commits, Results, RowBacked, BackedBy, CreatedFor
<1> QED
  BY <1>1, CommitsHold, PTL

\* As long as nobody deletes records, nothing is committed twice: what was
\* committed is still among the records, and the host's commit finds it under
\* its key, whichever workflow, token or retry asks.
THEOREM NothingIsDoubled == Spec => []NoDuplicate
<1>1. Init => NoDuplicate
  BY DEF Init, NoDuplicate
<1>2. Commits /\ NoDuplicate /\ [Next]_vars => NoDuplicate'
  BY StepNoDuplicate DEF Commits
<1> QED
  BY <1>1, <1>2, CommitsHold, PTL DEF Spec

\* A workflow never writes over an edit it has not seen: the revision a commit
\* insists on is the planned one or that of a result the journal holds, which
\* one of the workflow's own records left.
THEOREM ForeignEditsSurvive == Spec => []NoWriteOverForeignEdit
<1>1. Init => NoWriteOverForeignEdit
  BY DEF Init, NoWriteOverForeignEdit
<1>2. Commits /\ NoWriteOverForeignEdit /\ [Next]_vars => NoWriteOverForeignEdit'
  BY StepNoWriteOver DEF Commits
<1> QED
  BY <1>1, <1>2, CommitsHold, PTL DEF Spec

\* The database can always be restored: rows are restorable, each record is the
\* own one of a planned step of a stored workflow in a live destination, and
\* both tables keep their limits.
THEOREM DatabaseStaysRestorable == Spec => []DatabaseRestorable
<1>1. Commits => DatabaseRestorable
  <2> SUFFICES ASSUME Commits PROVE DatabaseRestorable
    OBVIOUS
  <2>1. \A w \in Stored : Restorable(w, journal[w])
    BY DEF Commits, Journaling, JournalOK, Stored
  <2>2. ASSUME NEW r \in records
        PROVE  /\ r.wf \in Stored /\ r.slot \in plan[r.wf].steps /\ OwnRecord(r, r.wf, r.slot)
               /\ context.dest[DestOf[r.key]].scope # "absent"
               /\ context.dest[DestOf[r.key]].rev >= r.rev
    <3>1. r.wf \in Workflows
      BY DEF Commits, Journaling, Typing, TypeOK, HostTypeOK, LocalRecord
    <3>2. PICK c \in created : c.rec = r
      BY DEF Commits, RecordsOK
    <3>3. /\ journal[r.wf].status # "absent" /\ r.slot \in plan[r.wf].steps
          /\ r.key = Key(r.wf, r.slot)
      BY <3>2 DEF Commits, CreatedOK
    <3> QED
      BY <3>1, <3>3 DEF Commits, RecordsOK, Stored, OwnRecord
  <2> QED
    BY <2>1, <2>2 DEF DatabaseRestorable, Commits, RecordsOK
<1> QED
  BY <1>1, CommitsHold, PTL

-----------------------------------------------------------------------------
(* The protocol implements ConfirmedCreation.                                *)

LEMMA ClockFrame ==
  ASSUME [Next]_vars
  PROVE  Tick \/ UNCHANGED clock
<1>1. ASSUME NEW p \in Callers, Start(p) PROVE UNCHANGED clock
  BY <1>1 DEF Start, CreateStart, RequestStart, CancelStart, ExecuteStart, VerifyStart,
              ConfirmStart, LocalStep, hostVars
<1>2. ASSUME NEW p \in Callers, Handler(p) \/ Crash(p) PROVE UNCHANGED clock
  BY <1>2 DEF Handler, Crash, CreateCheck, CreateStore, RequestCheck, RequestStore,
              ConfirmCheck, ConfirmStore, CancelStore, UpdateLoad, UpdateStore, ExecuteLoad,
              ExecuteRead, ExecuteCheck, ExecuteRun, ExecuteApply, Commit, CommitRecord,
              ExecuteReadBack, ExecuteFinal, ExecuteClose, VerifyLoad, VerifyRead,
              VerifyStore, LocalStep, JournalStep, hostVars
<1>3. CASE (\E w \in Workflows : PreparePlan(w)) \/ Surroundings \/ UNCHANGED vars
  BY <1>3 DEF PreparePlan, Surroundings, EditContext, ReplaceContext, LoseRecord, vars,
              hostVars
<1> QED
  BY <1>1, <1>2, <1>3 DEF Next

\* A step writes one row of the journal at most.
LEMMA OneRow ==
  ASSUME Journaling, [Next]_vars
  PROVE  \E w \in Workflows : \A v \in Workflows \ {w} : journal'[v] = journal[v]
<1>0. Workflows # {} /\ journal \in [Workflows -> JournalRow]
  BY HostConstants DEF Journaling, Typing, TypeOK, HostTypeOK
<1>1. ASSUME NEW p \in Callers, Handler(p) \/ Crash(p)
      PROVE  \E w \in Workflows : \A v \in Workflows \ {w} : journal'[v] = journal[v]
  <2>1. \/ UNCHANGED journal
        \/ journal' = [journal EXCEPT ![call[p].wf].status = "awaiting_confirmation"]
        \/ \E next, out : Save(call[p].wf, call[p].snap, next, out)
    BY <1>1 DEF Handler, Crash, CreateCheck, CreateStore, RequestCheck, RequestStore,
                ConfirmCheck, ConfirmStore, CancelStore, UpdateLoad, UpdateStore, ExecuteLoad,
                ExecuteRead, ExecuteCheck, ExecuteRun, ExecuteApply, Commit, CommitRecord,
                ExecuteReadBack, ExecuteFinal, ExecuteClose, VerifyLoad, VerifyRead,
                VerifyStore, LocalStep, hostVars
  <2>2. call[p].wf \in Workflows
    BY <1>1, CallKnown
  <2>3. \A v \in Workflows \ {call[p].wf} : journal'[v] = journal[v]
    BY <1>0, <2>1, <2>2, SaveWrites
  <2> QED
    BY <2>2, <2>3
<1>2. CASE (\E p \in Callers : Start(p)) \/ (\E w \in Workflows : PreparePlan(w)) \/ Surroundings
           \/ UNCHANGED vars
  <2>1. UNCHANGED journal
    BY <1>2 DEF Start, CreateStart, RequestStart, CancelStart, ExecuteStart, VerifyStart,
                ConfirmStart, LocalStep, PreparePlan, Surroundings, Tick, EditContext,
                ReplaceContext, LoseRecord, vars, hostVars
  <2> QED
    BY <1>0, <2>1
<1> QED
  BY <1>1, <1>2 DEF Next

Grants == [w \in Workflows |-> Granted(w)]
Cancels == {w \in Workflows : journal[w].status = "cancelled"}
Made(r) == [key |-> r.key, wf |-> r.wf, slot |-> r.slot]
Makes == {Made(r) : r \in records}

\* The records may change with the clock and the journal left alone.
LEMMA MakeRefines ==
  ASSUME Journaling, NEW p \in Callers, call[p].pc = "e_apply", Commit(p, call[p])
  PROVE  \E w \in Workflows, s \in Slot, k \in Keys :
           /\ s \in Grants[w] /\ w \notin Cancels /\ \A m \in Makes : m.key # k
           /\ Makes' = Makes \cup {[key |-> k, wf |-> w, slot |-> s]}
           /\ UNCHANGED <<Grants, Cancels>>
<1> DEFINE w == call[p].wf
           s == call[p].slot
           new == NewRecord(w, s)
<1>1. /\ Existing(w, s) = {} /\ Active(w, s) /\ Authorized(w, s, call[p].tok)
      /\ records' = records \cup {new} /\ UNCHANGED <<journal, clock>>
  BY CommitChecked
<1>2. w \in Workflows /\ s \in plan[w].steps /\ new.key = Key(w, s) /\ new.wf = w /\ new.slot = s
  BY CommitAdds
<1>3. s \in Slot /\ Key(w, s) \in Keys
  <2>1. s \in Slots(w)
    BY <1>2, PlanSteps DEF Journaling, Typing
  <2> QED
    BY <1>2, <2>1, KeyType
<1> HIDE DEF new, w, s
<1>4. s \in Grants[w] /\ w \notin Cancels
  BY <1>1, <1>2 DEF Grants, Granted, Cancels, Active, Authorized
<1>5. \A m \in Makes : m.key # Key(w, s)
  BY <1>1 DEF Makes, Made, Existing
<1>6. Makes' = Makes \cup {[key |-> Key(w, s), wf |-> w, slot |-> s]}
  <2>1. Made(new) = [key |-> Key(w, s), wf |-> w, slot |-> s]
    BY <1>2 DEF Made
  <2>2. Makes' = {Made(r) : r \in records \cup {new}}
    BY <1>1 DEF Makes, Made
  <2> QED
    BY <2>1, <2>2 DEF Makes
<1>7. UNCHANGED <<Grants, Cancels>>
  BY <1>1 DEF Grants, Granted, Cancels
<1> QED
  BY <1>2, <1>3, <1>4, <1>5, <1>6, <1>7

LEMMA LoseRefines ==
  ASSUME RecordsOK, LoseRecord
  PROVE  /\ \E m \in Makes : Makes' = Makes \ {m}
         /\ UNCHANGED <<Grants, Cancels>>
<1>1. PICK r \in records : records' = records \ {r}
  BY DEF LoseRecord
<1>2. \A q \in records : Made(q) = Made(r) => q = r
  BY DEF RecordsOK, Made
<1>3. Makes' = {Made(q) : q \in records \ {r}}
  BY <1>1 DEF Makes, Made
<1>4. Makes' = Makes \ {Made(r)} /\ Made(r) \in Makes
  BY <1>2, <1>3 DEF Makes
<1>5. UNCHANGED <<Grants, Cancels>>
  BY DEF LoseRecord, Grants, Granted, Cancels
<1> QED
  BY <1>4, <1>5

LEMMA TickRefines ==
  ASSUME TypeOK, TypeOK', Tick
  PROVE  /\ Grants' \in [Workflows -> SUBSET Slot]
         /\ \A w \in Workflows : Grants'[w] \subseteq Grants[w]
         /\ UNCHANGED <<Cancels, Makes>>
<1>1. /\ clock' = clock + 1 /\ clock \in Nat /\ UNCHANGED <<journal, records>>
  BY DEF Tick, TypeOK, HostTypeOK
<1>2. \A w \in Workflows : journal[w].auth.expires \in Nat
  BY DEF TypeOK, HostTypeOK, JournalRow, Authorization
<1>3. \A w \in Workflows : clock' < journal[w].auth.expires => clock < journal[w].auth.expires
  BY <1>1, <1>2
<1>4. \A w \in Workflows : Granted(w)' \subseteq Granted(w)
  BY <1>1, <1>3 DEF Granted
<1>5. \A w \in Workflows : Grants'[w] = Granted(w)' /\ Grants[w] = Granted(w)
  BY DEF Grants
<1>6. Grants' \in [Workflows -> SUBSET Slot]
  BY DEF TypeOK, HostTypeOK, JournalRow, Authorization, Grants, Granted
<1>7. UNCHANGED <<Cancels, Makes>>
  BY <1>1 DEF Cancels, Makes, Made
<1> QED
  BY <1>4, <1>5, <1>6, <1>7

\* One row of the journal may change with the clock and the records left alone.
LEMMA JournalRefines ==
  ASSUME Journaling, Journaling', JournalEvolves, UNCHANGED <<clock, records>>,
         NEW w \in Workflows, \A v \in Workflows \ {w} : journal'[v] = journal[v]
  PROVE  /\ UNCHANGED Makes
         /\ \/ UNCHANGED <<Grants, Cancels>>
            \/ /\ w \notin Cancels /\ Grants' = [Grants EXCEPT ![w] = Grants'[w]]
               /\ UNCHANGED Cancels
            \/ Cancels' = Cancels \cup {w} /\ Grants' = [Grants EXCEPT ![w] = {}]
<1>1. UNCHANGED Makes
  BY DEF Makes, Made
<1>2. \A v \in Workflows \ {w} : Granted(v)' = Granted(v)
  BY DEF Granted
<1>3. Grants' = [Grants EXCEPT ![w] = Grants'[w]]
  BY <1>2 DEF Grants
<1>4. CASE w \in Cancels
  <2>1. journal[w].status = "cancelled" /\ journal'[w].status = "cancelled"
    BY <1>4 DEF Cancels, JournalEvolves, Evolves
  <2>2. UNCHANGED Cancels
    BY <2>1 DEF Cancels
  <2>3. Granted(w)' = Granted(w)
    BY <2>1 DEF Granted
  <2>4. UNCHANGED Grants
    BY <1>2, <2>3 DEF Grants
  <2> QED
    BY <1>1, <2>2, <2>4
<1>5. CASE w \notin Cancels /\ journal'[w].status = "cancelled"
  <2>1. Cancels' = Cancels \cup {w}
    BY <1>5 DEF Cancels
  <2>2. Grants'[w] = {}
    BY <1>5 DEF Grants, Granted
  <2> QED
    BY <1>1, <1>3, <2>1, <2>2
<1>6. CASE w \notin Cancels /\ journal'[w].status # "cancelled"
  <2>1. UNCHANGED Cancels
    BY <1>6 DEF Cancels
  <2> QED
    BY <1>1, <1>3, <1>6, <2>1
<1> QED
  BY <1>4, <1>5, <1>6

LEMMA InitPromise == Init => Promise!Init
<1> SUFFICES ASSUME Init PROVE Promise!Init
  OBVIOUS
<1>1. records = {} /\ journal = [w \in Workflows |-> NoWorkflow]
  BY DEF Init, HostInit
<1>2. \A w \in Workflows : Granted(w) = {} /\ journal[w].status = "absent"
  BY <1>1 DEF Granted, NoWorkflow, NoAuthorization
<1> QED
  BY <1>1, <1>2 DEF Promise!Init

LEMMA StepPromise ==
  ASSUME Commits, Commits', [Next]_vars
  PROVE  [Promise!Next]_(Promise!promise)
<1>1. Journaling /\ RecordsOK /\ JournalEvolves /\ TypeOK /\ TypeOK' /\ Journaling'
  BY StepJournaling DEF Commits, Journaling, Typing
<1>2. ASSUME NEW p \in Callers, call[p].pc = "e_apply", Commit(p, call[p])
      PROVE  Promise!Next
  BY <1>1, <1>2, MakeRefines DEF Promise!Next, Promise!Make, Grants, Cancels, Makes, Made
<1>3. CASE LoseRecord
  BY <1>1, <1>3, LoseRefines DEF Promise!Next, Promise!Lose, Grants, Cancels, Makes, Made
<1>4. CASE Tick
  BY <1>1, <1>4, TickRefines DEF Promise!Next, Promise!Lapse, Grants, Cancels, Makes, Made
<1>5. CASE UNCHANGED <<clock, records>>
  <2>1. PICK w \in Workflows : \A v \in Workflows \ {w} : journal'[v] = journal[v]
    BY <1>1, OneRow
  <2>2. Grants' \in [Workflows -> SUBSET Slot]
    BY <1>1 DEF TypeOK, HostTypeOK, JournalRow, Authorization, Grants, Granted
  <2>3. Grants'[w] \in SUBSET Slot
    BY <2>2
  <2>4. /\ UNCHANGED Makes
        /\ \/ UNCHANGED <<Grants, Cancels>>
           \/ /\ w \notin Cancels /\ Grants' = [Grants EXCEPT ![w] = Grants'[w]]
              /\ UNCHANGED Cancels
           \/ Cancels' = Cancels \cup {w} /\ Grants' = [Grants EXCEPT ![w] = {}]
    BY <1>1, <1>5, <2>1, JournalRefines
  <2> QED
    BY <2>3, <2>4 DEF Promise!Next, Promise!Grant, Promise!Withdraw, Promise!promise, Grants,
                      Cancels, Makes, Made
<1>6. EditContext => UNCHANGED records
  BY DEF EditContext, ReplaceContext
<1> QED
  BY <1>2, <1>3, <1>4, <1>5, <1>6, RecordFrame, ClockFrame

\* The protocol implements ConfirmedCreation: whatever calls, crashes and faults
\* do, a record is made only for a step the user has granted and not withdrawn,
\* and never a second one for the same key.
THEOREM PromiseIsKept == Spec => ImplementsPromise
  BY InitPromise, StepPromise, CommitsHold, PTL DEF Spec, ImplementsPromise, Promise!Spec

-----------------------------------------------------------------------------
(* A quiet journal reports every record, with one execute at a time.         *)

\* Nothing fails and nothing crashes in a step that ends calm.
LEMMA CalmBefore ==
  ASSUME Journaling, [Next]_vars, Calm'
  PROVE  /\ Calm /\ ~Spend("fault") /\ ~Spend("crash")
         /\ spent["Execute"] \in Nat /\ spent'["Execute"] \in 0..1
         /\ spent["Execute"] <= spent'["Execute"]
<1>1. /\ {"fault", "crash", "Execute"} \subseteq Kind /\ spent \in [Kind -> Nat]
      /\ spent' \in [Kind -> Nat] /\ TypeOK
  BY StepTyping DEF Journaling, Typing, Kind, Operation, TypeOK
<1>2. spent'["fault"] = 0 /\ spent'["crash"] = 0 /\ spent'["Execute"] <= 1
  BY DEF Calm, Unspent
<1>3. /\ \A k \in {"fault", "crash", "Execute"} : spent[k] \in Nat /\ spent'[k] \in Nat
      /\ spent["fault"] <= 0 /\ spent["crash"] <= 0 /\ spent["Execute"] <= spent'["Execute"]
  BY <1>1, <1>2, SpentGrows
<1>4. spent["fault"] = 0 /\ spent["crash"] = 0 /\ spent["Execute"] <= 1
  BY <1>2, <1>3
<1>5. ~Spend("fault") /\ ~Spend("crash")
  BY <1>1, <1>2, SpendCounts
<1> QED
  BY <1>2, <1>3, <1>4, <1>5 DEF Calm, Unspent

\* A save that nothing disturbs.
LEMMA SaveUndisturbed ==
  ASSUME NEW w, NEW row, NEW next, NEW out, Save(w, row, next, out), ~Spend("fault")
  PROVE  /\ UNCHANGED spent
         /\ \/ /\ out = "ok" /\ Matches(w, row)
               /\ journal' = [journal EXCEPT ![w] = Advance(row, next)]
            \/ out = "conflict" /\ ~Matches(w, row) /\ UNCHANGED journal
            \/ out = "error" /\ ~Restorable(w, next) /\ UNCHANGED journal
  BY DEF Save

\* What the journal reports of the records that exist it goes on reporting.
KeepsReports ==
  \A r \in records : journal[r.wf].steps[r.slot].status = "verified" =>
    journal'[r.wf].steps[r.slot].status = "verified"

LEMMA StoreKeeps ==
  ASSUME Journaling, NEW p \in Callers, call[p].pc \in Holding, NEW next \in JournalRow,
         NEW out, Save(call[p].wf, call[p].snap, next, out),
         \A r \in records :
           r.wf = call[p].wf /\ call[p].snap.steps[r.slot].status = "verified" =>
             next.steps[r.slot].status = "verified"
  PROVE  KeepsReports
<1> DEFINE c == call[p]
<1>1. /\ c.wf \in Workflows /\ c.snap \in JournalRow /\ journal[c.wf] \in JournalRow
      /\ journal \in [Workflows -> JournalRow] /\ CopyOK(c)
  BY CallKnown DEF TypeOK, HostTypeOK
<1>2. CASE UNCHANGED journal
  BY <1>2 DEF KeepsReports
<1>3. CASE /\ Matches(c.wf, c.snap)
           /\ journal' = [journal EXCEPT ![c.wf] = Advance(c.snap, next)]
  <2>1. journal[c.wf] = c.snap
    BY <1>1, <1>3 DEF Matches, CopyOK
  <2>2. /\ journal'[c.wf].steps = next.steps
        /\ \A w \in Workflows \ {c.wf} : journal'[w] = journal[w]
    BY <1>1, <1>3 DEF Advance, JournalRow
  <2>3. \A r \in records : r.wf \in Workflows
    BY CallKnown DEF TypeOK, HostTypeOK, LocalRecord
  <2> QED
    BY <2>1, <2>2, <2>3 DEF KeepsReports
<1> QED
  BY <1>2, <1>3, SaveWrites

\* The steps of the rows that a method stores.
LEMMA RowSteps ==
  ASSUME TypeOK, NEW c \in Call
  PROVE  /\ Requested(c).steps = c.snap.steps /\ Confirmed(c.snap).steps = c.snap.steps
         /\ Closed(c.wf, c.snap).steps = c.snap.steps
         /\ \A s \in Slot : c.snap.steps[s].status = "verified" =>
              Cancelled(c.wf, c.snap).steps[s].status = "verified"
         /\ \A s \in Slot \ {c.slot} : /\ Updated(c).steps[s] = c.snap.steps[s]
                                       /\ Started(c).steps[s] = c.snap.steps[s]
                                       /\ Reconciled(c).steps[s] = c.snap.steps[s]
         /\ c.slot \in Slot => Reconciled(c).steps[c.slot] = c.upd
         /\ c.slot \in Slot /\ c.upd.status = "verified" => Updated(c).steps[c.slot] = c.upd
<1> DEFINE row == c.snap
           judged == [row EXCEPT !.steps[c.slot] = c.upd]
<1>1. row \in JournalRow /\ c.upd \in StepResult /\ c.base \in StepResult
  BY DEF Call
<1>2. /\ judged \in JournalRow
      /\ \A s \in Slot \ {c.slot} : judged.steps[s] = row.steps[s]
      /\ c.slot \in Slot => judged.steps[c.slot] = c.upd
  <2> HIDE DEF row
  <2> QED
    BY <1>1 DEF JournalRow
<1>3. Reconciled(c) = IF judged.status = "cancelled" THEN judged ELSE Closed(c.wf, judged)
  BY DEF Reconciled
<1>4. Requested(c).steps = row.steps
  BY <1>1 DEF Requested, JournalRow
<1>5. c.upd.status = "verified" => Updated(c) = judged
  BY DEF Updated
<1>6. \A s \in Slot \ {c.slot} : Updated(c).steps[s] = row.steps[s]
  <2> DEFINE result == IF c.snap.status # "cancelled" \/ c.upd.status \in {"verified", "uncertain"}
                       THEN c.upd ELSE [c.upd EXCEPT !.status = "cancelled"]
  <2>1. Updated(c) = [row EXCEPT !.steps[c.slot] = result]
    BY DEF Updated
  <2> HIDE DEF row, result
  <2> QED
    BY <1>1, <2>1 DEF JournalRow
<1>7. \A s \in Slot \ {c.slot} : Started(c).steps[s] = row.steps[s]
  BY <1>1 DEF Started, JournalRow
<1>8. Cancelled(c.wf, row).steps = [s \in Slot |->
         IF s \notin plan[c.wf].steps \/ row.steps[s].status \in {"verified", "running", "uncertain"}
         THEN row.steps[s] ELSE [row.steps[s] EXCEPT !.status = "cancelled"]]
  <2> HIDE DEF row
  <2> QED
    BY <1>1 DEF Cancelled, JournalRow
<1> HIDE DEF judged
<1>9. Closed(c.wf, judged).steps = judged.steps
  BY <1>2 DEF Closed, JournalRow
<1>10. Confirmed(row).steps = row.steps /\ Closed(c.wf, row).steps = row.steps
  <2> HIDE DEF row
  <2> QED
    BY <1>1 DEF Confirmed, Closed, JournalRow
<1>11. \A s \in Slot : row.steps[s].status = "verified" =>
         Cancelled(c.wf, row).steps[s].status = "verified"
  BY <1>8
<1>12. /\ \A s \in Slot \ {c.slot} : Reconciled(c).steps[s] = row.steps[s]
       /\ c.slot \in Slot => Reconciled(c).steps[c.slot] = c.upd
  BY <1>2, <1>3, <1>9
<1>13. c.slot \in Slot /\ c.upd.status = "verified" => Updated(c).steps[c.slot] = c.upd
  BY <1>2, <1>5
<1> QED
  BY <1>4, <1>6, <1>7, <1>10, <1>11, <1>12, <1>13

\* How a call goes on without letting go of the record of its step.
Carries(p) ==
  \E n \in Call :
    /\ Become(p, n) /\ (n.pc \in Executing => call[p].pc \in Executing) /\ Faithful(n)
    /\ \A r \in records : call[p].pc \in Recording /\ On(call[p], r) =>
         \/ n.pc \in Recording /\ On(n, r)
         \/ journal'[r.wf].steps[r.slot].status = "verified"

LEMMA CarryingStep ==
  ASSUME Journaling, Accounted, NEW p \in Callers, Carries(p), KeepsReports,
         UNCHANGED <<plan, records, created>>, spent'["Execute"] = spent["Execute"]
  PROVE  Accounted'
<1>1. PICK n \in Call :
        /\ Become(p, n) /\ (n.pc \in Executing => call[p].pc \in Executing) /\ Faithful(n)
        /\ \A r \in records : call[p].pc \in Recording /\ On(call[p], r) =>
             \/ n.pc \in Recording /\ On(n, r)
             \/ journal'[r.wf].steps[r.slot].status = "verified"
  BY DEF Carries
<1>2. call'[p] = n /\ \A q \in Callers \ {p} : call'[q] = call[q]
  BY <1>1 DEF Become, Journaling, Typing, TypeOK
<1>3. OneExecutes'
  BY <1>1, <1>2 DEF Accounted, OneExecutes
<1>4. ASSUME NEW q \in Callers PROVE Faithful(call[q])'
  <2>1. Faithful(call'[q])
    BY <1>1, <1>2, <1>4 DEF Accounted
  <2> QED
    BY <2>1 DEF Faithful, BehindLoop, CarriesRecord, ReadStands, Restorable, IntentComplete
<1>5. ReportedOrAwaited'
  <2> SUFFICES ASSUME NEW r \in records
               PROVE  \/ journal'[r.wf].steps[r.slot].status = "verified"
                      \/ \E q \in Callers : call'[q].pc \in Recording /\ On(call'[q], r)
    BY DEF ReportedOrAwaited, On
  <2>1. CASE journal[r.wf].steps[r.slot].status = "verified"
    BY <2>1 DEF KeepsReports
  <2>2. ASSUME NEW q \in Callers, call[q].pc \in Recording, On(call[q], r)
        PROVE  \/ journal'[r.wf].steps[r.slot].status = "verified"
               \/ \E o \in Callers : call'[o].pc \in Recording /\ On(call'[o], r)
    BY <1>1, <1>2, <2>2
  <2> QED
    BY <2>1, <2>2 DEF Accounted, ReportedOrAwaited
<1> QED
  BY <1>3, <1>4, <1>5 DEF Accounted

\* The steps behind the one a call is on have no say in it.
LEMMA NothingHere ==
  ASSUME RecordsOK, Accounted, NEW p \in Callers, call[p].pc \in Executing \ Recording,
         call[p].slot \in Nat
  PROVE  \A r \in records : ~On(call[p], r)
  BY DEF RecordsOK, Accounted, Faithful, BehindLoop, On

LEMMA PlainCarries ==
  ASSUME NEW p, NEW n \in Call, Become(p, n), n.pc \notin Executing \cup {"v_cas"},
         call[p].pc \notin Recording \/ \A r \in records : ~On(call[p], r)
  PROVE  Carries(p)
  BY DEF Carries, Faithful, BehindLoop, CarriesRecord, ReadStands, Executing

LEMMA FreshCarries ==
  ASSUME NEW p, NEW pc \in Step \ (Executing \cup {"v_cas"}), NEW w \in Workflows,
         Become(p, Fresh(p, pc, w)), call[p].pc \notin Recording
  PROVE  Carries(p)
  BY FreshFields, PlainCarries

LEMMA ReturnCarries ==
  ASSUME NEW p, Return(p),
         call[p].pc \notin Recording \/ \A r \in records : ~On(call[p], r)
  PROVE  Carries(p)
<1>1. NoCall \in Call /\ NoCall.pc = "idle"
  BY NoCallType DEF NoCall
<1> QED
  BY <1>1, PlainCarries DEF Return, Executing

LEMMA UpdateCarries ==
  ASSUME Accounted, NEW p \in Callers, call[p] \in Call, call[p].pc \in Executing,
         NEW result \in StepResult, NEW level \in Level, NEW last \in BOOLEAN,
         \A r \in records : On(call[p], r) => result.status = "verified",
         Update(p, call[p], result, level, last)
  PROVE  Carries(p)
<1> DEFINE c == call[p]
           n == [InStep(p, "u_load", c) EXCEPT !.upd = result, !.level = level, !.last = last]
<1>1. n \in Call /\ n.pc = "u_load" /\ n.wf = c.wf /\ n.slot = c.slot /\ n.upd = result
  <2> HIDE DEF c
  <2> c \in Call
    BY DEF c
  <2> QED
    BY NoWorkflowType DEF InStep, Fresh, NoCall, Call, Step
<1>2. Become(p, n)
  BY DEF Update
<1>3. BehindLoop(c)
  BY DEF Accounted, Faithful
<1> HIDE DEF n
<1>4. BehindLoop(n)
  BY <1>1, <1>3 DEF BehindLoop, Recording
<1>5. CarriesRecord(n) /\ ReadStands(n)
  BY <1>1 DEF CarriesRecord, ReadStands, On
<1> QED
  BY <1>1, <1>2, <1>4, <1>5 DEF Carries, Faithful, Recording, On

\* The loop goes on once the record of the step, if there is one, is reported.
LEMMA ProceedCarries ==
  ASSUME Journaling, Accounted, NEW p \in Callers, call[p].pc \in Executing, NEW last,
         \A r \in records : call[p].pc \in Recording /\ On(call[p], r) =>
           journal'[r.wf].steps[r.slot].status = "verified",
         Proceed(p, call[p], last)
  PROVE  Carries(p)
<1> DEFINE c == call[p]
           rest == StepAfter(plan[c.wf].steps, c.slot)
<1>1. /\ TypeOK /\ PlanOK /\ c.wf \in Workflows /\ c.slot \in Nat
      /\ \A k \in created : k.rec.slot \in Nat
  <2>1. \A w \in Workflows : Slots(w) \subseteq Nat
    BY HostConstants DEF Slots
  <2> QED
    BY <2>1, CallKnown DEF TypeOK, Creation, LocalRecord, Slot
<1>2. BehindLoop(c)
  BY DEF Accounted, Faithful
<1>3. CASE Become(p, Fresh(p, "e_final", c.wf))
  <2> DEFINE n == Fresh(p, "e_final", c.wf)
  <2>1. n \in Call /\ n.pc = "e_final"
    BY <1>1, FreshFields DEF Step
  <2> HIDE DEF n
  <2>2. Faithful(n)
    BY <2>1 DEF Faithful, BehindLoop, CarriesRecord, ReadStands, Executing
  <2> QED
    BY <1>3, <2>1, <2>2 DEF Carries, n
<1>4. ASSUME NEW s \in rest, Become(p, [Fresh(p, "e_load", c.wf) EXCEPT !.slot = s])
      PROVE  Carries(p)
  <2> DEFINE f == Fresh(p, "e_load", c.wf)
             n == [f EXCEPT !.slot = s]
  <2>1. f \in Call /\ f.pc = "e_load" /\ f.wf = c.wf /\ s \in Nat /\ s > c.slot
    <3>1. s \in plan[c.wf].steps /\ s > c.slot
      BY DEF StepAfter
    <3>2. f \in Call /\ f.pc = "e_load" /\ f.wf = c.wf
      BY <1>1, FreshFields DEF Step
    <3> QED
      BY <1>1, <3>1, <3>2, PlanSteps
  <2>2. Become(p, n)
    BY <1>4
  <2> HIDE DEF f
  <2>3. n \in Call /\ n.pc = "e_load" /\ n.wf = c.wf /\ n.slot = s
    BY <2>1 DEF Call
  <2> HIDE DEF n
  <2>4. \A k \in created : k.rec.wf = c.wf /\ k.rec.slot < s
    BY <1>1, <1>2, <2>1 DEF BehindLoop
  <2>5. Faithful(n)
    BY <2>3, <2>4 DEF Faithful, BehindLoop, CarriesRecord, ReadStands
  <2> QED
    BY <2>2, <2>3, <2>5 DEF Carries
<1> QED
  BY <1>3, <1>4 DEF Proceed

LEMMA VerifyNextCarries ==
  ASSUME TypeOK, PlanOK, NEW p, NEW w \in Workflows, NEW row \in JournalRow, NEW s,
         call[p].pc \notin Recording, VerifyNext(p, w, row, s)
  PROVE  Carries(p)
<1> DEFINE due == {t \in plan[w].steps : row.steps[t].status \in {"verified", "running", "uncertain"}}
<1>1. ASSUME NEW t \in StepAfter(due, s),
             Become(p, [Fresh(p, "v_read", w) EXCEPT !.snap = row, !.slot = t,
                                                     !.base = row.steps[t]])
      PROVE  Carries(p)
  <2> DEFINE f == Fresh(p, "v_read", w)
             n == [f EXCEPT !.snap = row, !.slot = t, !.base = row.steps[t]]
  <2>1. t \in plan[w].steps
    BY DEF StepAfter
  <2>2. /\ t \in Slot /\ t \in Nat /\ row.steps[t] \in StepResult
        /\ f \in Call /\ f.pc = "v_read"
    BY <2>1, PlanSteps, FreshFields DEF JournalRow, Step
  <2>3. Become(p, n)
    BY <1>1
  <2> HIDE DEF f
  <2>4. n \in Call /\ n.pc = "v_read"
    BY <2>2 DEF Call
  <2> HIDE DEF n
  <2> QED
    BY <2>3, <2>4, PlainCarries DEF Executing
<1> QED
  BY <1>1, ReturnCarries DEF VerifyNext

LEMMA SameRowKeeps == ASSUME UNCHANGED journal PROVE KeepsReports
  BY DEF KeepsReports

\* What is known of a call in the proofs below.
LEMMA CallReports ==
  ASSUME Commits, Accounted, NEW p \in Callers
  PROVE  /\ Journaling /\ RecordsOK /\ CreatedOK /\ TypeOK /\ PlanOK
         /\ call[p] \in Call /\ call[p].wf \in Workflows /\ call[p].slot \in Nat
         /\ call[p].snap \in JournalRow /\ call[p].base \in StepResult
         /\ call[p].upd \in StepResult /\ journal[call[p].wf] \in JournalRow
         /\ call[p].pc \in Looping => call[p].slot \in plan[call[p].wf].steps \cap Slot
         /\ \A r \in records : /\ r.wf \in Workflows /\ r.slot \in Slot
                               /\ r.key = Key(r.wf, r.slot) /\ r.rev > 0
         /\ Faithful(call[p])
<1>1. \A r \in records : /\ r.wf \in Workflows /\ r.slot \in Slot
                         /\ r.key = Key(r.wf, r.slot) /\ r.rev > 0
  <2>1. \A r \in records : r \in LocalRecord /\ \E k \in created : k.rec = r
    BY DEF Commits, Journaling, Typing, TypeOK, HostTypeOK, RecordsOK
  <2> QED
    BY <2>1 DEF Commits, CreatedOK, LocalRecord
<1> QED
  BY <1>1, CallKnown, PlanSteps DEF Commits, Accounted

LEMMA ConfirmationReports ==
  ASSUME Commits, Accounted, NEW p \in Callers, ~Spend("fault"),
         \/ CreateCheck(p) \/ CreateStore(p) \/ RequestCheck(p) \/ RequestStore(p)
         \/ ConfirmCheck(p) \/ ConfirmStore(p) \/ CancelStore(p)
         \/ ExecuteFinal(p) \/ ExecuteClose(p)
  PROVE  Accounted'
<1> DEFINE c == call[p]
<1>1. /\ Journaling /\ TypeOK /\ c \in Call /\ c.wf \in Workflows /\ c.snap \in JournalRow
      /\ clock \in Nat /\ tokens + 1 \in Nat /\ journal[c.wf] \in JournalRow
      /\ \A r \in records : r.wf \in Workflows /\ r.slot \in Slot
  BY CallReports DEF TypeOK, HostTypeOK
<1>2. c.pc \notin Recording
  BY DEF CreateCheck, CreateStore, RequestCheck, RequestStore, ConfirmCheck, ConfirmStore,
         CancelStore, ExecuteFinal, ExecuteClose, At, Recording
<1>3. CASE CreateCheck(p)
  <2>1. Carries(p)
    BY <1>1, <1>2, <1>3, FreshCarries, ReturnCarries DEF CreateCheck, Step, Executing
  <2> QED
    BY <1>1, <1>3, <2>1, CarryingStep, SameRowKeeps DEF CreateCheck, LocalStep, hostVars
<1>4. CASE CreateStore(p)
  <2>1. KeepsReports
    <3>1. CASE UNCHANGED journal
      BY <3>1, SameRowKeeps
    <3>2. CASE journal' = [journal EXCEPT ![c.wf].status = "awaiting_confirmation"]
      <4>1. ASSUME NEW w \in Workflows PROVE journal'[w].steps = journal[w].steps
        <5> DEFINE row == journal[w]
        <5>1. /\ journal'[w] \in {row, [row EXCEPT !.status = "awaiting_confirmation"]}
              /\ row \in JournalRow
          BY <1>1, <3>2 DEF TypeOK, HostTypeOK
        <5> HIDE DEF row
        <5>2. journal'[w].steps = row.steps
          BY <5>1 DEF JournalRow
        <5> QED
          BY <5>2 DEF row
      <4> QED
        BY <1>1, <4>1 DEF KeepsReports
    <3> QED
      BY <1>4, <3>1, <3>2 DEF CreateStore
  <2> QED
    BY <1>1, <1>2, <1>4, <2>1, ReturnCarries, CarryingStep DEF CreateStore, JournalStep
<1>5. CASE RequestCheck(p)
  <2> DEFINE n == [c EXCEPT !.pc = "r_cas", !.now = clock, !.tok = tokens + 1]
  <2>1. n \in Call /\ n.pc = "r_cas"
    <3> HIDE DEF c
    <3> QED
      BY <1>1 DEF Call, Step
  <2>2. Become(p, n) \/ Return(p)
    BY <1>5 DEF RequestCheck
  <2> HIDE DEF n
  <2>3. Carries(p)
    BY <1>2, <2>1, <2>2, PlainCarries, ReturnCarries DEF Executing
  <2> QED
    BY <1>1, <1>5, <2>3, CarryingStep, SameRowKeeps DEF RequestCheck, hostVars
<1>6. CASE ConfirmCheck(p)
  <2> DEFINE n == [c EXCEPT !.pc = "k_cas", !.now = 0]
  <2>1. n \in Call /\ n.pc = "k_cas"
    <3> HIDE DEF c
    <3> QED
      BY <1>1 DEF Call, Step
  <2>2. Become(p, n) \/ Return(p)
    BY <1>6 DEF ConfirmCheck
  <2> HIDE DEF n
  <2>3. Carries(p)
    BY <1>2, <2>1, <2>2, PlainCarries, ReturnCarries DEF Executing
  <2> QED
    BY <1>1, <1>6, <2>3, CarryingStep, SameRowKeeps DEF ConfirmCheck, LocalStep, hostVars
<1>7. CASE ExecuteFinal(p)
  <2> DEFINE n == [c EXCEPT !.pc = "e_close", !.snap = journal[c.wf]]
  <2>1. n \in Call /\ n.pc = "e_close"
    <3> HIDE DEF c
    <3> QED
      BY <1>1 DEF Call, Step
  <2>2. Become(p, n) \/ Return(p)
    BY <1>7 DEF ExecuteFinal
  <2> HIDE DEF n
  <2>3. Carries(p)
    BY <1>2, <2>1, <2>2, PlainCarries, ReturnCarries DEF Executing
  <2> QED
    BY <1>1, <1>7, <2>3, CarryingStep, SameRowKeeps DEF ExecuteFinal, LocalStep, hostVars
<1>8. CASE RequestStore(p) \/ ConfirmStore(p) \/ CancelStore(p) \/ ExecuteClose(p)
  <2>1. /\ Return(p) /\ c.pc \in Holding /\ UNCHANGED <<plan, records, created>>
        /\ \E next \in {Requested(c), Confirmed(c.snap), Cancelled(c.wf, c.snap),
                        Closed(c.wf, c.snap)}, out \in Outcome :
             Save(c.wf, c.snap, next, out)
    BY <1>8 DEF RequestStore, ConfirmStore, CancelStore, ExecuteClose, JournalStep, At, Holding
  <2>2. PICK next \in {Requested(c), Confirmed(c.snap), Cancelled(c.wf, c.snap),
                       Closed(c.wf, c.snap)}, out \in Outcome : Save(c.wf, c.snap, next, out)
    BY <2>1
  <2>3. /\ next \in JournalRow
        /\ \A s \in Slot : c.snap.steps[s].status = "verified" =>
             next.steps[s].status = "verified"
    <3> HIDE DEF c
    <3> QED
      BY <1>1, <2>2, RowTypes, RowSteps
  <2>4. KeepsReports
    BY <1>1, <2>1, <2>2, <2>3, StoreKeeps
  <2>5. UNCHANGED spent
    BY <2>2, SaveUndisturbed
  <2> QED
    BY <1>1, <1>2, <2>1, <2>4, <2>5, ReturnCarries, CarryingStep
<1> QED
  BY <1>3, <1>4, <1>5, <1>6, <1>7, <1>8

\* verify reads and judges what it read; it takes back nothing that has a record.
LEMMA VerifyReports ==
  ASSUME Commits, Accounted, NEW p \in Callers, ~Spend("fault"),
         VerifyLoad(p) \/ VerifyRead(p) \/ VerifyStore(p)
  PROVE  Accounted'
<1> DEFINE c == call[p]
<1>1. /\ Journaling /\ TypeOK /\ PlanOK /\ c \in Call /\ c.wf \in Workflows
      /\ c.snap \in JournalRow /\ c.base \in StepResult /\ journal[c.wf] \in JournalRow
      /\ (c.pc \in Looping => c.slot \in Slot)
      /\ \A r \in records : /\ r.wf \in Workflows /\ r.slot \in Slot
                            /\ r.key = Key(r.wf, r.slot)
  BY CallReports
<1>2. c.pc \in {"v_load", "v_read", "v_cas"} /\ c.pc \notin Recording
  BY DEF VerifyLoad, VerifyRead, VerifyStore, At, Recording
<1>3. CASE VerifyLoad(p)
  <2>1. Carries(p)
    BY <1>1, <1>2, <1>3, VerifyNextCarries DEF VerifyLoad
  <2> QED
    BY <1>1, <1>3, <2>1, CarryingStep, SameRowKeeps DEF VerifyLoad, LocalStep, hostVars
<1>4. CASE VerifyRead(p)
  <2> DEFINE own == {r \in Existing(c.wf, c.slot) : OwnRecord(r, c.wf, c.slot)}
             missing == NoRecord(Result(c.base, "uncertain", "READBACK_MISMATCH", FALSE))
  <2>1. missing \in StepResult
    BY <1>1 DEF NoRecord, Result, StepResult, StepStatus, ErrorCode
  <2>2. \A r \in records : /\ Verified(c.base, r.rev) \in StepResult
                           /\ Verified(c.base, r.rev).status = "verified"
    BY <1>1, RecordType, VerifiedType DEF Verified
  <2>3. own = {} => \A r \in records : ~On(c, r)
    BY <1>1 DEF Existing, OwnRecord, On
  <2>4. PICK result \in StepResult :
          /\ Become(p, [c EXCEPT !.pc = "v_cas", !.upd = result])
          /\ \A r \in records : On(c, r) => result.status = "verified"
    <3>1. CASE \E r \in own : Become(p, [c EXCEPT !.pc = "v_cas", !.upd = Verified(c.base, r.rev)])
      BY <2>2, <3>1 DEF Existing
    <3>2. CASE own = {} /\ Become(p, [c EXCEPT !.pc = "v_cas", !.upd = missing])
      BY <2>1, <2>3, <3>2
    <3> QED
      BY <1>4, <3>1, <3>2 DEF VerifyRead
  <2> DEFINE n == [c EXCEPT !.pc = "v_cas", !.upd = result]
  <2>5. n \in Call /\ n.pc = "v_cas" /\ n.wf = c.wf /\ n.slot = c.slot /\ n.upd = result
    <3> HIDE DEF c
    <3> QED
      BY <1>1 DEF Call, Step
  <2>6. Become(p, n)
    BY <2>4
  <2> HIDE DEF n
  <2>7. Faithful(n)
    BY <2>4, <2>5 DEF Faithful, BehindLoop, CarriesRecord, ReadStands, On, Executing
  <2>8. Carries(p)
    BY <1>2, <2>5, <2>6, <2>7 DEF Carries, Executing
  <2>9. UNCHANGED spent
    BY <1>4 DEF VerifyRead
  <2> QED
    BY <1>1, <1>4, <2>8, <2>9, CarryingStep, SameRowKeeps DEF VerifyRead, LocalStep, hostVars
<1>5. CASE VerifyStore(p)
  <2>1. c.pc = "v_cas" /\ UNCHANGED <<plan, records, created>>
    BY <1>5 DEF VerifyStore, JournalStep, At
  <2>2. PICK out \in Outcome :
          /\ Save(c.wf, c.snap, Reconciled(c), out)
          /\ \/ VerifyNext(p, c.wf, Advance(c.snap, Reconciled(c)), c.slot)
             \/ Return(p)
    BY <1>5 DEF VerifyStore
  <2>3. Reconciled(c) \in JournalRow /\ Advance(c.snap, Reconciled(c)) \in JournalRow
    BY <1>1, RowTypes, AdvanceType
  <2>4. Carries(p)
    BY <1>1, <1>2, <2>2, <2>3, VerifyNextCarries, ReturnCarries
  <2>5. \A r \in records : r.wf = c.wf /\ c.snap.steps[r.slot].status = "verified" =>
                             Reconciled(c).steps[r.slot].status = "verified"
    <3>1. ReadStands(c) /\ c.slot \in Slot
      BY <1>1, <2>1, CallReports DEF Faithful, Looping
    <3>2. /\ \A s \in Slot \ {c.slot} : Reconciled(c).steps[s] = c.snap.steps[s]
          /\ Reconciled(c).steps[c.slot] = c.upd
      BY <1>1, <3>1, RowSteps
    <3> QED
      BY <1>1, <2>1, <3>1, <3>2 DEF ReadStands, On
  <2>6. KeepsReports
    BY <1>1, <2>1, <2>2, <2>3, <2>5, StoreKeeps DEF Holding
  <2>7. UNCHANGED spent
    BY <2>2, SaveUndisturbed
  <2> QED
    BY <1>1, <2>1, <2>4, <2>6, <2>7, CarryingStep
<1> QED
  BY <1>3, <1>4, <1>5

\* Before its commit a step has no record, so whatever is said of it is true.
LEMMA PreflightReports ==
  ASSUME Commits, Accounted, NEW p \in Callers, ~Spend("fault"),
         ExecuteLoad(p) \/ ExecuteRead(p) \/ ExecuteCheck(p) \/ ExecuteRun(p)
  PROVE  Accounted'
<1> DEFINE c == call[p]
<1>1. /\ Journaling /\ TypeOK /\ PlanOK /\ c \in Call /\ c.wf \in Workflows /\ c.slot \in Nat
      /\ c.snap \in JournalRow /\ c.base \in StepResult /\ journal[c.wf] \in JournalRow
      /\ (c.pc \in Looping => c.slot \in Slot) /\ clock \in Nat /\ context \in Context
      /\ \A r \in records : r.wf \in Workflows /\ r.slot \in Slot
      /\ {"plain", "inner", "catch", "outer"} \subseteq Level
      /\ BehindLoop(c) /\ RecordsOK
  BY CallReports DEF TypeOK, HostTypeOK, Level, Faithful
<1>2. c.pc \in {"e_load", "e_read", "e_ctx", "e_run"} /\ c.pc \in Executing \ Recording
      /\ c.slot \in Slot
  BY <1>1 DEF ExecuteLoad, ExecuteRead, ExecuteCheck, ExecuteRun, At, Recording, Executing,
              Looping
<1>3. \A r \in records : ~On(c, r)
  BY <1>1, <1>2, NothingHere
\* The next of the steps of execute, on the same step of the plan.
<1>4. ASSUME NEW n \in Call, Become(p, n), n.wf = c.wf, n.slot = c.slot,
             n.pc \in Executing \ Recording
      PROVE  Carries(p)
  <2>1. Faithful(n)
    BY <1>1, <1>2, <1>4 DEF Faithful, BehindLoop, CarriesRecord, ReadStands, Recording, Executing
  <2> QED
    BY <1>2, <1>4, <2>1 DEF Carries
<1>5. ASSUME NEW result \in StepResult, NEW level \in Level, NEW last \in BOOLEAN,
             Update(p, c, result, level, last)
      PROVE  Carries(p)
  BY <1>1, <1>2, <1>3, <1>5, UpdateCarries
<1>6. ASSUME NEW status \in StepStatus, NEW error \in ErrorCode, NEW retryable \in BOOLEAN
      PROVE  /\ Result(c.base, status, error, retryable) \in StepResult
             /\ NoRecord(Result(c.base, status, error, retryable)) \in StepResult
  <2> HIDE DEF c
  <2> QED
    BY <1>1, <1>6 DEF Result, NoRecord, StepResult
<1>7. CASE ExecuteLoad(p)
  <2> DEFINE n == [c EXCEPT !.pc = "e_read", !.snap = journal[c.wf],
                            !.base = journal[c.wf].steps[c.slot]]
  <2>1. n \in Call /\ n.pc = "e_read" /\ n.wf = c.wf /\ n.slot = c.slot
    <3>1. journal[c.wf].steps[c.slot] \in StepResult
      BY <1>1, <1>2 DEF JournalRow
    <3> HIDE DEF c
    <3> QED
      BY <1>1, <3>1 DEF Call, Step
  <2>2. Become(p, n)
    BY <1>7 DEF ExecuteLoad
  <2> HIDE DEF n
  <2>3. Carries(p)
    BY <1>4, <2>1, <2>2 DEF Executing, Recording
  <2> QED
    BY <1>1, <1>7, <2>3, CarryingStep, SameRowKeeps DEF ExecuteLoad, LocalStep, hostVars
<1>8. CASE ExecuteRead(p)
  <2> DEFINE n == [c EXCEPT !.pc = "e_ctx", !.now = clock]
  <2>1. n \in Call /\ n.pc = "e_ctx" /\ n.wf = c.wf /\ n.slot = c.slot
    <3> HIDE DEF c
    <3> QED
      BY <1>1 DEF Call, Step
  <2>2. /\ NoRecord([c.base EXCEPT !.status = "cancelled"]) \in StepResult
        /\ \A r \in records : Verified(c.base, r.rev) \in StepResult
    BY <1>1, RecordType, VerifiedType DEF NoRecord, StepResult, StepStatus
  <2>3. \/ Become(p, n) \/ Proceed(p, c, FALSE)
        \/ \E result \in StepResult, level \in Level, last \in BOOLEAN :
             Update(p, c, result, level, last)
    <3>1. CASE ReadFound(p, c)
      <4>1. Result(c.base, "failed", "ALREADY_EXISTS", FALSE) \in StepResult
        BY <1>6 DEF StepStatus, ErrorCode
      <4> QED
        BY <1>1, <2>2, <3>1, <4>1 DEF ReadFound, Existing
    <3>2. CASE ReadMissing(p, c)
      <4>1. /\ NoRecord(Result(c.base, "uncertain", "RECORD_MISSING", FALSE)) \in StepResult
            /\ Result(c.base, "failed", "CONFIRMATION_EXPIRED", TRUE) \in StepResult
        BY <1>6 DEF StepStatus, ErrorCode
      <4>2. \/ Become(p, n) \/ Proceed(p, c, FALSE)
            \/ Update(p, c, NoRecord([c.base EXCEPT !.status = "cancelled"]), "plain", FALSE)
            \/ Update(p, c, NoRecord(Result(c.base, "uncertain", "RECORD_MISSING", FALSE)),
                      "plain", TRUE)
            \/ Update(p, c, Result(c.base, "failed", "CONFIRMATION_EXPIRED", TRUE), "outer", TRUE)
        BY <3>2 DEF ReadMissing
      <4> QED
        BY <1>1, <2>2, <4>1, <4>2
    <3> QED
      BY <1>8, <3>1, <3>2 DEF ExecuteRead
  <2> HIDE DEF n
  <2>4. Proceed(p, c, FALSE) => Carries(p)
    BY <1>1, <1>2, ProceedCarries
  <2>5. Carries(p)
    BY <1>4, <1>5, <2>1, <2>3, <2>4 DEF Executing, Recording
  <2>6. UNCHANGED spent
    BY <1>8 DEF ExecuteRead
  <2> QED
    BY <1>1, <1>8, <2>5, <2>6, CarryingStep, SameRowKeeps DEF ExecuteRead, LocalStep, hostVars
<1>9. CASE ExecuteCheck(p)
  <2> DEFINE found == context.dest[DestOf[Key(c.wf, c.slot)]].rev
             n == [c EXCEPT !.pc = "e_run", !.now = 0, !.drev = found, !.tok = c.snap.auth.token]
  <2>1. Result(c.base, "failed", "STALE", FALSE) \in StepResult
    BY <1>6 DEF StepStatus, ErrorCode
  <2>2. \/ Become(p, n)
        \/ Update(p, c, Result(c.base, "failed", "STALE", FALSE), "outer", TRUE)
    BY <1>9 DEF ExecuteCheck
  <2>3. n \in Call /\ n.pc = "e_run" /\ n.wf = c.wf /\ n.slot = c.slot
    <3>1. c.slot \in plan[c.wf].steps
      BY <1>2, CallKnown, <1>1 DEF Looping
    <3>2. DestOf[Key(c.wf, c.slot)] \in Destinations
      BY <1>1, <3>1, PlanSteps
    <3>3. found \in Nat /\ c.snap.auth.token \in Nat
      BY <1>1, <3>2 DEF Context, DestinationRow, JournalRow, Authorization
    <3> HIDE DEF c, found
    <3> QED
      BY <1>1, <3>3 DEF Call, Step
  <2> HIDE DEF n
  <2>4. Carries(p)
    BY <1>1, <1>4, <1>5, <2>1, <2>2, <2>3 DEF Executing, Recording
  <2>5. UNCHANGED spent
    BY <1>9 DEF ExecuteCheck
  <2> QED
    BY <1>1, <1>9, <2>4, <2>5, CarryingStep, SameRowKeeps DEF ExecuteCheck, LocalStep, hostVars
<1>10. CASE ExecuteRun(p)
  <2> DEFINE n == [c EXCEPT !.pc = "e_apply", !.snap = NoWorkflow]
  <2>1. n \in Call /\ n.pc = "e_apply" /\ n.wf = c.wf /\ n.slot = c.slot
    <3> HIDE DEF c
    <3> QED
      BY <1>1, NoWorkflowType DEF Call, Step
  <2>2. PICK out \in Outcome :
          /\ Save(c.wf, c.snap, Started(c), out)
          /\ \/ Become(p, n)
             \/ out = "conflict" /\ Return(p)
             \/ Update(p, c, Result(c.base, "failed", CodeOf(out), FALSE), "outer", TRUE)
    BY <1>10 DEF ExecuteRun
  <2>3. c.pc = "e_run" /\ UNCHANGED <<plan, records, created>>
    BY <1>10 DEF ExecuteRun, JournalStep, At
  <2> HIDE DEF n
  <2>4. Result(c.base, "failed", CodeOf(out), FALSE) \in StepResult
    BY <1>6 DEF CodeOf, StepStatus, ErrorCode
  <2>5. Carries(p)
    BY <1>1, <1>2, <1>4, <1>5, <2>1, <2>2, <2>4, ReturnCarries DEF Executing, Recording
  <2>6. Started(c) \in JournalRow
    BY <1>1, RowTypes
  <2>7. \A r \in records : r.wf = c.wf /\ c.snap.steps[r.slot].status = "verified" =>
                             Started(c).steps[r.slot].status = "verified"
    <3>1. \A s \in Slot \ {c.slot} : Started(c).steps[s] = c.snap.steps[s]
      BY <1>1, RowSteps
    <3> QED
      BY <1>1, <1>3, <3>1 DEF On
  <2>8. KeepsReports
    BY <1>1, <2>2, <2>3, <2>6, <2>7, StoreKeeps DEF Holding
  <2>9. UNCHANGED spent
    BY <2>2, SaveUndisturbed
  <2> QED
    BY <1>1, <2>3, <2>5, <2>8, <2>9, CarryingStep
<1> QED
  BY <1>7, <1>8, <1>9, <1>10

\* The record that a commit makes is the business of the call that made it.
LEMMA CommitReports ==
  ASSUME Commits, Accounted, NEW p \in Callers, ~Spend("fault"),
         ExecuteApply(p), Commit(p, call[p])
  PROVE  Accounted'
<1> DEFINE c == call[p]
           n == [InStep(p, "e_back", c) EXCEPT !.pc = "e_back"]
           new == NewRecord(c.wf, c.slot)
<1>1. /\ Journaling /\ TypeOK /\ c \in Call /\ c.wf \in Workflows /\ c.slot \in Slot
      /\ c.slot \in Nat /\ c.pc = "e_apply" /\ BehindLoop(c)
  BY CallReports DEF ExecuteApply, At, Looping, Faithful
<1>2. /\ records' = records \cup {new}
      /\ created' = created \cup {[rec |-> new, tok |-> c.tok]}
      /\ UNCHANGED <<plan, journal>> /\ new.wf = c.wf /\ new.slot = c.slot
  BY <1>1, CommitChecked, CommitAdds
<1>3. CommitAnswer(c.wf, c.slot, c.tok, c.drev) = "commit"
  BY DEF Commit
<1>4. Become(p, n) /\ UNCHANGED spent
  BY <1>3 DEF ExecuteApply
<1>5. n \in Call /\ n.pc = "e_back" /\ n.wf = c.wf /\ n.slot = c.slot
  <2> HIDE DEF c
  <2> QED
    BY <1>1, NoWorkflowType, PendingType DEF InStep, Fresh, NoCall, Call, Step, Level
<1>6. call'[p] = n /\ \A q \in Callers \ {p} : call'[q] = call[q]
  BY <1>1, <1>4 DEF Become, TypeOK
<1> HIDE DEF n, new
<1>7. spent["Execute"] = 1 /\ \A q \in Callers : call[q].pc \in Executing => q = p
  BY <1>1 DEF Accounted, OneExecutes, Executing
<1>8. OneExecutes'
  BY <1>1, <1>4, <1>5, <1>6, <1>7 DEF OneExecutes, Executing
<1>9. Faithful(call[p])'
  <2>1. \A k \in created' : k.rec.wf = c.wf /\ (k.rec.slot < c.slot \/ k.rec.slot = c.slot)
    BY <1>1, <1>2 DEF BehindLoop, Recording, Executing
  <2> QED
    BY <1>5, <1>6, <2>1 DEF Faithful, BehindLoop, CarriesRecord, ReadStands, Recording
<1>10. ASSUME NEW q \in Callers \ {p} PROVE Faithful(call[q])'
  <2>1. Faithful(call[q]) /\ call[q].pc \notin Executing /\ call'[q] = call[q]
    BY <1>6, <1>7 DEF Accounted
  <2>2. CASE call[q].pc # "v_cas"
    BY <2>1, <2>2 DEF Faithful, BehindLoop, CarriesRecord, ReadStands, Executing
  <2>3. CASE call[q].pc = "v_cas"
    <3>1. On(call[q], new) => call[q].snap.steps[call[q].slot].status # "verified"
      <4> SUFFICES ASSUME On(call[q], new), call[q].snap.steps[call[q].slot].status = "verified"
                   PROVE  FALSE
        OBVIOUS
      <4>1. call[q].wf = c.wf /\ call[q].slot = c.slot
        BY <1>2 DEF On
      <4>2. RowBacked(created, call[q].wf, call[q].snap)
        BY DEF Commits, Results, CallBacked
      <4>3. \E k \in created : k.rec.wf = c.wf /\ k.rec.slot = c.slot
        BY <1>1, <4>1, <4>2 DEF RowBacked, BackedBy
      <4> QED
        BY <1>1, <4>3 DEF BehindLoop, Executing, Recording
    <3>2. ReadStands(call[q])'
      BY <1>2, <2>1, <3>1 DEF Faithful, ReadStands, On
    <3> QED
      BY <2>1, <2>3, <3>2 DEF Faithful, BehindLoop, CarriesRecord, Executing
  <2> QED
    BY <2>2, <2>3
<1>11. ReportedOrAwaited'
  <2>1. On(call'[p], new) /\ call'[p].pc \in Recording
    BY <1>2, <1>5, <1>6 DEF On, Recording
  <2>2. ASSUME NEW r \in records
        PROVE  \/ journal'[r.wf].steps[r.slot].status = "verified"
               \/ \E q \in Callers : call'[q].pc \in Recording /\ On(call'[q], r)
    <3>1. \A q \in Callers : call[q].pc \in Recording => q # p
      BY <1>1 DEF Recording
    <3> QED
      BY <1>2, <1>6, <3>1 DEF Accounted, ReportedOrAwaited
  <2>3. \A r \in records' :
          \/ journal'[r.wf].steps[r.slot].status = "verified"
          \/ \E q \in Callers : call'[q].pc \in Recording /\ On(call'[q], r)
    BY <1>2, <2>1, <2>2
  <2> QED
    BY <2>3 DEF ReportedOrAwaited, On
<1> QED
  BY <1>8, <1>9, <1>10, <1>11 DEF Accounted

\* An answer of applyLocal that wrote nothing, and the re-read.
LEMMA AnswerReports ==
  ASSUME Commits, Accounted, NEW p \in Callers, ~Spend("fault"),
         ExecuteApply(p) \/ ExecuteReadBack(p)
  PROVE  Accounted'
<1> DEFINE c == call[p]
<1>1. /\ Journaling /\ TypeOK /\ c \in Call /\ c.wf \in Workflows /\ c.slot \in Nat
      /\ c.base \in StepResult /\ BehindLoop(c) /\ RecordsOK
      /\ \A r \in records : r.key = Key(r.wf, r.slot)
      /\ {"plain", "inner", "catch", "outer"} \subseteq Level
  BY CallReports DEF Level, Faithful
<1>2. CASE ExecuteApply(p)
  <2> DEFINE n == [InStep(p, "e_back", c) EXCEPT !.pc = "e_back"]
             answer == CommitAnswer(c.wf, c.slot, c.tok, c.drev)
             failed == Result(Running(c.base), "failed", answer, FALSE)
  <2>1. c.pc = "e_apply"
    BY <1>2 DEF ExecuteApply, At
  <2>2. n \in Call /\ n.pc = "e_back" /\ n.wf = c.wf /\ n.slot = c.slot
    <3> HIDE DEF c
    <3> QED
      BY <1>1, NoWorkflowType, PendingType DEF InStep, Fresh, NoCall, Call, Step, Level
  <2>3. Become(p, n) => Carries(p)
    <3> HIDE DEF n
    <3>1. Faithful(n)
      BY <1>1, <2>1, <2>2 DEF Faithful, BehindLoop, CarriesRecord, ReadStands, Executing,
                              Recording
    <3> QED
      BY <2>1, <2>2, <3>1 DEF Carries, Executing, Recording
  <2>4. answer \notin {"existing", "commit"} => failed \in StepResult
    <3>1. answer \in ErrorCode \cup {"existing", "commit"}
      BY DEF CommitAnswer, ErrorCode
    <3> HIDE DEF answer, c
    <3> QED
      BY <1>1, <3>1 DEF Result, Running, StepResult, StepStatus, ErrorCode
  <2>5. CASE Commit(p, c)
    BY <1>2, <2>5, CommitReports
  <2>6. CASE ~Commit(p, c)
    <3>1. /\ UNCHANGED <<hostVars, created, spent>>
          /\ \/ Become(p, n)
             \/ answer \notin {"existing", "commit"} /\ Update(p, c, failed, "catch", TRUE)
      BY <1>2, <2>6 DEF ExecuteApply
    <3>2. \A r \in records : ~On(c, r)
      BY <1>1, <2>1, NothingHere DEF Executing, Recording
    <3> HIDE DEF n, failed, answer
    <3>3. Carries(p)
      BY <1>1, <2>1, <2>3, <2>4, <3>1, <3>2, UpdateCarries DEF Executing
    <3> QED
      BY <1>1, <3>1, <3>3, CarryingStep, SameRowKeeps DEF hostVars
  <2> QED
    BY <2>5, <2>6
<1>3. CASE ExecuteReadBack(p)
  <2> DEFINE own == {r \in Existing(c.wf, c.slot) : OwnRecord(r, c.wf, c.slot)}
             mismatch == Result(Running(c.base), "uncertain", "READBACK_MISMATCH", TRUE)
  <2>1. c.pc = "e_back" /\ UNCHANGED spent
    BY <1>3 DEF ExecuteReadBack, At, OutcomeUnknown
  <2>2. mismatch \in StepResult
    BY <1>1 DEF Running, Result, StepResult, StepStatus, ErrorCode
  <2>3. \A r \in records : /\ Verified(c.base, r.rev) \in StepResult
                           /\ Verified(c.base, r.rev).status = "verified"
    BY <1>1, RecordType, VerifiedType DEF Verified
  <2>4. own = {} => \A r \in records : ~On(c, r)
    BY <1>1 DEF Existing, OwnRecord, On
  <2>5. \/ \E r \in own : Update(p, c, Verified(c.base, r.rev), "inner", FALSE)
        \/ own = {} /\ Update(p, c, mismatch, "inner", TRUE)
    BY <1>3 DEF ExecuteReadBack
  <2> HIDE DEF mismatch
  <2>6. Carries(p)
    <3>1. ASSUME NEW r \in own, Update(p, c, Verified(c.base, r.rev), "inner", FALSE)
          PROVE  Carries(p)
      <4>1. r \in records
        BY DEF Existing
      <4> QED
        BY <1>1, <2>1, <2>3, <3>1, <4>1, UpdateCarries DEF Executing
    <3>2. CASE own = {} /\ Update(p, c, mismatch, "inner", TRUE)
      BY <1>1, <2>1, <2>2, <2>4, <3>2, UpdateCarries DEF Executing
    <3> QED
      BY <2>5, <3>1, <3>2
  <2> QED
    BY <1>1, <1>3, <2>1, <2>6, CarryingStep, SameRowKeeps
    DEF ExecuteReadBack, LocalStep, hostVars
<1> QED
  BY <1>2, <1>3

\* A result that a record stands behind can be stored wherever its row could.
LEMMA VerifiedRestorable ==
  ASSUME TypeOK, NEW c \in Call, c.slot \in Slot, plan[c.wf].steps \subseteq Slot,
         c.upd.status = "verified", c.upd.rev > 0, Restorable(c.wf, c.snap)
  PROVE  Restorable(c.wf, Updated(c))
<1>1. /\ Updated(c).steps[c.slot] = c.upd
      /\ \A s \in Slot \ {c.slot} : Updated(c).steps[s] = c.snap.steps[s]
  BY RowSteps
<1>2. Updated(c).status = c.snap.status /\ Updated(c).auth = c.snap.auth
  BY DEF Updated, Call, JournalRow
<1>3. \A s \in plan[c.wf].steps :
        Updated(c).steps[s] = IF s = c.slot THEN c.upd ELSE c.snap.steps[s]
  BY <1>1
<1> QED
  BY <1>2, <1>3 DEF Restorable, IntentComplete

\* updateResult stores what a record stands behind, unless it gives up.
LEMMA UpdateReports ==
  ASSUME Commits, Accounted, NEW p \in Callers, ~Spend("fault"), ~GaveUp,
         UpdateLoad(p) \/ UpdateStore(p)
  PROVE  Accounted'
<1> DEFINE c == call[p]
<1>1. /\ Journaling /\ TypeOK /\ PlanOK /\ c \in Call /\ c.wf \in Workflows /\ c.slot \in Slot
      /\ c.snap \in JournalRow /\ c.base \in StepResult /\ c.upd \in StepResult
      /\ c.pc \in {"u_load", "u_cas"} /\ Faithful(c) /\ CopyOK(c)
      /\ \A r \in records : r.wf \in Workflows /\ r.slot \in Slot
  BY CallReports, CallKnown DEF UpdateLoad, UpdateStore, At, Looping
<1>2. \A r \in records : On(c, r) => c.upd.status = "verified"
  BY <1>1 DEF Faithful, CarriesRecord
<1>3. CASE UpdateLoad(p)
  <2> DEFINE n == [c EXCEPT !.pc = "u_cas", !.snap = journal[c.wf]]
  <2>1. /\ Become(p, n) /\ UNCHANGED <<plan, journal, records, created, spent>>
    BY <1>3 DEF UpdateLoad, LocalStep, hostVars
  <2>2. /\ n \in Call /\ n.pc = "u_cas" /\ n.wf = c.wf /\ n.slot = c.slot /\ n.upd = c.upd
        /\ n.snap = journal[c.wf]
    <3>1. journal[c.wf] \in JournalRow
      BY <1>1 DEF TypeOK, HostTypeOK
    <3> HIDE DEF c
    <3> QED
      BY <1>1, <3>1 DEF Call, Step
  <2>3. Restorable(c.wf, journal[c.wf])
    BY <1>1 DEF CopyOK, Journaling, JournalOK
  <2> HIDE DEF n
  <2>4. Faithful(n)
    BY <1>1, <1>2, <2>2, <2>3 DEF Faithful, BehindLoop, CarriesRecord, ReadStands, On, Recording,
                                  Executing
  <2>5. Carries(p)
    BY <1>1, <2>1, <2>2, <2>4 DEF Carries, On, Recording, Executing
  <2> QED
    BY <1>1, <2>1, <2>5, CarryingStep, SameRowKeeps
<1>4. CASE UpdateStore(p)
  <2> DEFINE n == [c EXCEPT !.pc = "u_load", !.snap = NoWorkflow, !.tries = @ + 1]
  <2>1. PICK out \in Outcome :
          /\ Save(c.wf, c.snap, Updated(c), out)
          /\ \/ out = "ok" /\ Proceed(p, c, c.last)
             \/ out = "conflict" /\ c.tries + 1 < CasAttempts /\ Become(p, n)
             \/ /\ out = "conflict" => c.tries + 1 = CasAttempts
                /\ out # "ok" /\ UpdateThrows(p, c, out)
    BY <1>4 DEF UpdateStore
  <2>2. c.pc = "u_cas" /\ UNCHANGED <<plan, records, created>>
    BY <1>4 DEF UpdateStore, JournalStep, At
  <2>3. n \in Call /\ n.pc = "u_load" /\ n.wf = c.wf /\ n.slot = c.slot /\ n.upd = c.upd
    <3>1. c.tries + 1 \in Nat
      BY <1>1 DEF Call
    <3> HIDE DEF c
    <3> QED
      BY <1>1, <3>1, NoWorkflowType DEF Call, Step
  <2> HIDE DEF n
  <2>4. UNCHANGED spent
    BY <2>1, SaveUndisturbed
  <2>5. Updated(c) \in JournalRow
    BY <1>1, RowTypes
  <2>6. KeepsReports
    <3>1. \A s \in Slot \ {c.slot} : Updated(c).steps[s] = c.snap.steps[s]
      BY <1>1, RowSteps
    <3>2. c.upd.status = "verified" => Updated(c).steps[c.slot] = c.upd
      BY <1>1, RowSteps
    <3>3. \A r \in records : r.wf = c.wf /\ c.snap.steps[r.slot].status = "verified" =>
                               Updated(c).steps[r.slot].status = "verified"
      BY <1>1, <1>2, <3>1, <3>2 DEF On
    <3> QED
      BY <1>1, <2>1, <2>2, <2>5, <3>3, StoreKeeps DEF Holding
  <2>7. CASE out = "ok"
    <3>1. journal' = [journal EXCEPT ![c.wf] = Advance(c.snap, Updated(c))]
      BY <2>1, <2>7, SaveUndisturbed
    <3>2. journal'[c.wf].steps = Updated(c).steps
      BY <1>1, <2>5, <3>1 DEF TypeOK, HostTypeOK, Advance, JournalRow
    <3>3. \A r \in records : On(c, r) => journal'[r.wf].steps[r.slot].status = "verified"
      BY <1>1, <1>2, <3>2, RowSteps DEF On
    <3>4. Carries(p)
      BY <1>1, <2>1, <2>7, <3>3, ProceedCarries DEF Executing
    <3> QED
      BY <1>1, <2>2, <2>4, <2>6, <3>4, CarryingStep
  <2>8. CASE out = "conflict"
    <3>1. ~Matches(c.wf, c.snap)
      BY <2>1, <2>8, SaveUndisturbed
    <3>2. c.tries + 1 # CasAttempts
      BY <1>4, <3>1 DEF GaveUp
    <3>3. Become(p, n)
      BY <2>1, <2>8, <3>2
    <3>4. Faithful(n)
      BY <1>1, <1>2, <2>2, <2>3 DEF Faithful, BehindLoop, CarriesRecord, ReadStands, On,
                                    Recording, Executing
    <3>5. Carries(p)
      BY <1>1, <2>3, <3>3, <3>4 DEF Carries, On, Recording, Executing
    <3> QED
      BY <1>1, <2>2, <2>4, <2>6, <3>5, CarryingStep
  <2>9. CASE out \notin {"ok", "conflict"}
    <3>1. ~Restorable(c.wf, Updated(c)) /\ UpdateThrows(p, c, out)
      BY <2>1, <2>9, SaveUndisturbed
    <3>2. c.upd.status # "verified"
      <4> SUFFICES ASSUME c.upd.status = "verified" PROVE FALSE
        OBVIOUS
      <4>1. BackedBy(created, c.wf, c.slot, c.upd)
        BY DEF Commits, Results, CallBacked
      <4>2. c.upd.rev > 0
        BY <4>1 DEF BackedBy, Commits, CreatedOK
      <4>3. plan[c.wf].steps \subseteq Slot
        BY <1>1, PlanSteps
      <4>4. Restorable(c.wf, c.snap)
        BY <1>1, <2>2 DEF Faithful, CarriesRecord
      <4> QED
        BY <1>1, <3>1, <4>2, <4>3, <4>4, VerifiedRestorable
    <3>3. \A r \in records : ~On(c, r)
      BY <1>2, <3>2
    <3>4. /\ Result(Running(c.base), "uncertain", "COMMIT_OUTCOME_UNKNOWN", TRUE) \in StepResult
          /\ Result(c.base, "failed", CodeOf(out), FALSE) \in StepResult
      BY <1>1 DEF Result, Running, CodeOf, StepResult, StepStatus, ErrorCode
    <3>5. \/ Return(p)
          \/ Update(p, c, Result(Running(c.base), "uncertain", "COMMIT_OUTCOME_UNKNOWN", TRUE),
                    "catch", TRUE)
          \/ Update(p, c, Result(c.base, "failed", CodeOf(out), FALSE), "outer", TRUE)
      BY <3>1 DEF UpdateThrows
    <3>6. Carries(p)
      BY <1>1, <3>3, <3>4, <3>5, ReturnCarries, UpdateCarries DEF Level, Executing
    <3> QED
      BY <1>1, <2>2, <2>4, <2>6, <3>6, CarryingStep
  <2> QED
    BY <2>7, <2>8, <2>9
<1> QED
  BY <1>3, <1>4

\* A call begins; the one execute begins with no record anywhere.
LEMMA StartReports ==
  ASSUME Commits, Accounted, NEW p \in Callers, Start(p), spent'["Execute"] \in 0..1
  PROVE  Accounted'
<1> DEFINE c == call[p]
<1>1. /\ Journaling /\ TypeOK /\ PlanOK /\ call \in [Callers -> Call] /\ clock \in Nat
      /\ spent \in [Kind -> Nat] /\ Operation \subseteq Kind
      /\ \A w \in Workflows : journal[w] \in JournalRow
  BY CallReports DEF TypeOK, HostTypeOK, Kind
<1>2. PICK w \in Workflows :
        \/ CreateStart(p, w) \/ RequestStart(p, w) \/ CancelStart(p, w)
        \/ ExecuteStart(p, w) \/ VerifyStart(p, w)
        \/ \E shown \in challenges : ConfirmStart(p, w, shown.tok)
  BY DEF Start
<1>3. LocalStep /\ c.pc = "idle" /\ UNCHANGED <<plan, journal, records, created>>
  BY <1>2 DEF CreateStart, RequestStart, CancelStart, ExecuteStart, VerifyStart, ConfirmStart,
              Begin, LocalStep, hostVars
<1>4. \A pc \in Step : Fresh(p, pc, w) \in Call /\ Fresh(p, pc, w).pc = pc
  BY FreshFields
<1>5. CASE ~ExecuteStart(p, w)
  <2>1. spent'["Execute"] = spent["Execute"]
    <3>1. \E k \in Operation \ {"Execute"} : Spend(k)
      BY <1>2, <1>5 DEF CreateStart, RequestStart, CancelStart, VerifyStart, ConfirmStart, Begin,
                        Operation
    <3> QED
      BY <1>1, <3>1 DEF Spend, Operation
  <2>2. \E n \in Call : Become(p, n) /\ n.pc \in {"c_ctx", "r_ctx", "x_cas", "v_load", "k_ctx"}
    <3>1. \A pc \in {"r_ctx", "x_cas", "k_ctx"} :
            /\ [Fresh(p, pc, w) EXCEPT !.snap = journal[w]] \in Call
            /\ [Fresh(p, pc, w) EXCEPT !.snap = journal[w]].pc = pc
            /\ [Fresh(p, pc, w) EXCEPT !.snap = journal[w], !.now = clock] \in Call
            /\ [Fresh(p, pc, w) EXCEPT !.snap = journal[w], !.now = clock].pc = pc
      BY <1>1, PendingType DEF Fresh, NoCall, Call, Step, Level
    <3> QED
      BY <1>2, <1>4, <1>5, <3>1
      DEF CreateStart, RequestStart, CancelStart, VerifyStart, ConfirmStart, Step
  <2>3. Carries(p)
    BY <1>3, <2>2, PlainCarries DEF Executing, Recording
  <2> QED
    BY <1>1, <1>3, <2>1, <2>3, CarryingStep, SameRowKeeps
<1>6. CASE ExecuteStart(p, w)
  <2>1. spent["Execute"] = 0 /\ spent'["Execute"] = 1
    <3>1. Spend("Execute") /\ "Execute" \in Kind /\ spent["Execute"] \in Nat
      BY <1>1, <1>6 DEF ExecuteStart, Begin, Operation
    <3>2. spent'["Execute"] = spent["Execute"] + 1
      BY <1>1, <3>1 DEF Spend
    <3> QED
      BY <3>1, <3>2
  <2>2. created = {} /\ records = {}
    BY <2>1 DEF Accounted, OneExecutes, Commits, RecordsOK
  <2>3. \A q \in Callers : call[q].pc \notin Executing
    BY <2>1 DEF Accounted, OneExecutes
  <2>4. PICK n : Become(p, n) /\ n.pc \in {"v_load", "e_final", "e_load"}
    <3> DEFINE rest == StepAfter(plan[w].steps, Fresh(p, "e_load", w).slot)
    <3>1. Fresh(p, "e_load", w).wf = w
      BY FreshFields DEF Step
    <3>2. \A s \in rest : [Fresh(p, "e_load", w) EXCEPT !.slot = s].pc = "e_load"
      BY DEF Fresh, NoCall
    <3>3. \/ Become(p, Fresh(p, "v_load", w)) \/ Become(p, Fresh(p, "e_final", w))
          \/ \E s \in rest : Become(p, [Fresh(p, "e_load", w) EXCEPT !.slot = s])
      BY <1>6, <3>1 DEF ExecuteStart, Proceed
    <3> QED
      BY <1>4, <3>2, <3>3 DEF Step
  <2>5. call'[p] = n /\ \A q \in Callers \ {p} : call'[q] = call[q]
    BY <1>1, <2>4 DEF Become
  <2>6. OneExecutes'
    BY <2>1, <2>3, <2>5 DEF OneExecutes
  <2>7. ASSUME NEW q \in Callers PROVE Faithful(call[q])'
    <3>1. CASE q = p
      BY <1>3, <2>2, <2>4, <2>5, <3>1 DEF Faithful, BehindLoop, CarriesRecord, ReadStands
    <3>2. CASE q # p
      <4>1. call[q].pc # "u_cas"
        BY <2>3 DEF Executing
      <4> QED
        BY <1>3, <2>2, <2>5, <3>2, <4>1 DEF Faithful, BehindLoop, CarriesRecord, ReadStands
    <3> QED
      BY <3>1, <3>2
  <2>8. ReportedOrAwaited'
    BY <1>3, <2>2 DEF ReportedOrAwaited
  <2> QED
    BY <2>6, <2>7, <2>8 DEF Accounted
<1> QED
  BY <1>5, <1>6

\* Steps that are not a call's: records may go, plans are only added.
LEMMA SurroundingsReport ==
  ASSUME Commits, Accounted,
         (\E w \in Workflows : PreparePlan(w)) \/ Surroundings \/ UNCHANGED vars
  PROVE  Accounted'
<1>1. /\ UNCHANGED <<call, journal, created>> /\ records' \subseteq records
  BY DEF PreparePlan, Surroundings, Tick, EditContext, ReplaceContext, LoseRecord, vars, hostVars,
         callVars
<1>2. spent'["Execute"] = spent["Execute"]
  <2>1. {"Plan", "tick", "edit", "loss", "Execute"} \subseteq Kind /\ spent \in [Kind -> Nat]
    BY CallReports DEF Kind, Operation, Commits, Journaling, Typing, TypeOK
  <2>2. UNCHANGED spent \/ \E k \in {"Plan", "tick", "edit", "loss"} : Spend(k)
    BY DEF PreparePlan, Surroundings, Tick, EditContext, LoseRecord, vars, callVars
  <2> QED
    BY <2>1, <2>2 DEF Spend
<1>3. ASSUME NEW p \in Callers, call[p].pc = "u_cas" PROVE plan'[call[p].wf] = plan[call[p].wf]
  <2>1. plan[call[p].wf].made /\ call[p].wf \in Workflows /\ plan \in [Workflows -> Plan]
    BY <1>3, CallKnown DEF Commits, TypeOK, HostTypeOK
  <2>2. ASSUME NEW w \in Workflows, PreparePlan(w) PROVE plan'[call[p].wf] = plan[call[p].wf]
    BY <2>1, <2>2 DEF PreparePlan
  <2>3. CASE Surroundings \/ UNCHANGED vars
    BY <2>3 DEF Surroundings, Tick, EditContext, ReplaceContext, LoseRecord, vars, hostVars
  <2> QED
    BY <2>2, <2>3
<1>4. OneExecutes'
  BY <1>1, <1>2 DEF Accounted, OneExecutes
<1>5. ASSUME NEW p \in Callers PROVE Faithful(call[p])'
  <2>1. Faithful(call[p])
    BY DEF Accounted
  <2>2. BehindLoop(call[p])' /\ ReadStands(call[p])'
    BY <1>1, <2>1 DEF Faithful, BehindLoop, ReadStands
  <2>3. CarriesRecord(call[p])'
    BY <1>1, <1>3, <2>1 DEF Faithful, CarriesRecord, Restorable, IntentComplete
  <2> QED
    BY <2>2, <2>3 DEF Faithful
<1>6. ReportedOrAwaited'
  BY <1>1 DEF Accounted, ReportedOrAwaited, On
<1> QED
  BY <1>4, <1>5, <1>6 DEF Accounted

LEMMA InitReporting == Init => Reporting
  BY DEF Init, HostInit, NoCall, Reporting, Accounted, OneExecutes, ReportedOrAwaited, Faithful,
         BehindLoop, CarriesRecord, ReadStands, Executing

LEMMA StepReporting ==
  ASSUME Commits, Reporting, [Next]_vars, ~GaveUp
  PROVE  Reporting'
<1> SUFFICES ASSUME Calm' PROVE Accounted'
  BY DEF Reporting
<1>1. /\ Accounted /\ ~Spend("fault") /\ ~Spend("crash") /\ spent'["Execute"] \in 0..1
  BY CalmBefore DEF Commits, Reporting
<1>2. ASSUME NEW p \in Callers, Start(p) PROVE Accounted'
  BY <1>1, <1>2, StartReports
<1>3. ASSUME NEW p \in Callers, Handler(p) PROVE Accounted'
  BY <1>1, <1>3, ConfirmationReports, UpdateReports, VerifyReports, PreflightReports, AnswerReports
  DEF Handler
<1>4. ~\E p \in Callers : Crash(p)
  BY <1>1 DEF Crash
<1>5. CASE (\E w \in Workflows : PreparePlan(w)) \/ Surroundings \/ UNCHANGED vars
  BY <1>1, <1>5, SurroundingsReport
<1> QED
  BY <1>2, <1>3, <1>4, <1>5 DEF Next

\* With one execute at a time, once every call has returned and none crashed or
\* failed, the journal calls every record that exists verified, whatever cancels,
\* verifies and renewals raced with it, for as long as no updateResult loses
\* as many races as it has attempts: one call executes, what it commits it carries
\* to the journal, and a reconciliation takes back only what has no record.
THEOREM QuietJournalReports == Spec /\ [][~GaveUp]_vars => []QuietMeansReported
<1>1. Commits /\ Reporting /\ [Next]_vars /\ [~GaveUp]_vars => Reporting'
  <2> SUFFICES ASSUME Commits, Reporting, [Next]_vars, [~GaveUp]_vars PROVE Reporting'
    OBVIOUS
  <2>1. CASE ~GaveUp
    BY <2>1, StepReporting
  <2>2. CASE UNCHANGED vars
    BY <2>2, SurroundingsReport DEF Reporting, Calm, Unspent, vars, callVars
  <2> QED
    BY <2>1, <2>2
<1>2. Reporting => QuietMeansReported
  BY DEF Reporting, Calm, Accounted, ReportedOrAwaited, QuietMeansReported, Quiet, Recording,
         Unspent
<1> QED
  BY <1>1, <1>2, InitReporting, CommitsHold, PTL DEF Spec
=============================================================================
