----------------------- MODULE AssistanceProperties -----------------------
(* What the assistance ledger and its companion are meant to guarantee.     *)
EXTENDS Assistance

\* Every variable keeps its type, source identities and change ids are unique, and
\* the limits of the ledger hold (ASSISTANCE_LIMITS, assertState).
TypeOK ==
  /\ scenario \in Scenarios
  /\ Documents(ledger) \subseteq Document /\ Proposals(ledger) \subseteq Proposal
  /\ Len(ledger.documents) <= DocumentLimit /\ Revision(ledger) <= EventLimit
  /\ \A d, e \in Documents(ledger) : d.source = e.source => d = e
  /\ \A p, q \in Proposals(ledger) : p.id = q.id => p = q
  /\ \A c \in Clients : seen[c] \in 0 .. Revision(ledger)
  /\ accepted \in sent \cup {None}

-----------------------------------------------------------------------------
\* One step of restoreAssistanceState; an event that is refused is not added.
ReplayEvent(from, s, e) ==
  LET stored == {d \in Documents(from) : d.source = e.source /\ d.hash = e.hash}
      decided == {p \in Proposals(s) : p.id = e.change}
  IN CASE e.type = "document_registered" ->
            IF \E d \in stored : d \notin Documents(s) /\ CanRegister(s, d)
            THEN Register(s, CHOOSE d \in stored : TRUE) ELSE s
       [] e.type = "change_proposed" ->
            IF CanPropose(s, e.proposal) THEN Propose(s, e.proposal) ELSE s
       [] e.type = "change_decided" ->
            IF \E p \in decided : CanDecide(s, p, e.decision)
            THEN Decide(s, CHOOSE p \in decided : TRUE, e.decision) ELSE s
       [] OTHER -> IF CanAppend(s) THEN AppendEvent(s, e) ELSE s

Replay(s) ==
  LET state[i \in 0 .. Revision(s)] ==
        IF i = 0 THEN EmptyLedger ELSE ReplayEvent(s, state[i - 1], s.events[i])
  IN state[Revision(s)]

\* Whatever was persisted can be restored: replaying the history through the
\* ordinary operations gives the ledger back (restoreAssistanceState).
Restorable == Replay(ledger) = ledger

-----------------------------------------------------------------------------
\* Chains of applied corrections end: a superseded action has a replacement that
\* is not itself superseded, whatever was applied, undone and applied again
\* (decideAssistanceChange: the replacement must be active).
CorrectionsEnd ==
  \A refs \in (SUBSET {p.before : p \in Applied(ledger)}) \ {{}} :
    \E ref \in refs : \A p \in Applied(ledger) :
      p.kind = "corrects" /\ p.before = ref => p.after \notin refs

\* An action that was ready for use is not retired by the next decision: the
\* change was open, and held it, before (projectAssistance, decideAssistanceChange).
ReadyIsHeldFirst ==
  [][\A ref \in References(ledger) :
       (\E facts \in scenario.facts : Ready(ledger, facts, ref)) =>
         WorkflowState(ledger', ref) = "active"]_vars

\* While a change of a subject is open, no action about it is ready, those of
\* notices registered later included (changeTargetReferences).
SubjectIsHeld ==
  \A p \in OpenChanges(ledger), facts \in scenario.facts :
    \A d \in Documents(ledger) : \A a \in d.actions :
      p.subject # None /\ a.subject = p.subject /\ d.scope = p.scope =>
        ~Ready(ledger, facts, RefTo(d, a))

\* A change is applied only as its card was shown: at the revision the client
\* worked on, the card and the states of its actions were the present ones.
AppliedAsShown ==
  [][\A p \in Applied(ledger') \ Applied(ledger) :
       \E c \in Clients :
         LET shown == [ledger EXCEPT !.events = SubSeq(@, 1, seen[c])]
         IN /\ seen'[c] = Revision(ledger')
            /\ p \in Proposals(shown) /\ Card(shown, p) = Card(ledger, p)
            /\ Applied(shown) = Applied(ledger)]_vars

\* Every ledger that can be reached can be refreshed: its projection passes the
\* validation of the companion (refreshAssistance, validateAssistanceCompanion).
CanRefresh == \A facts \in scenario.facts : Valid(Project(ledger, facts))

\* Devices never see two companions of one revision (SNAPSHOT_COLLISION).
NoCollision == \A m, n \in sent : m.revision = n.revision => m = n

-----------------------------------------------------------------------------
Graph == INSTANCE RevisionGraph WITH
  known <- References(ledger), inForce <- Applied(ledger)

\* The history of events implements a graph of revisions in force.
ImplementsRevisions == Graph!Spec

-----------------------------------------------------------------------------
\* "reopen is Undo; accepted descendants must be undone first": so some applied
\* change can be undone as long as there is one.
SomethingCanBeUndone ==
  Applied(ledger) # {} => \E p \in Applied(ledger) : ~Dependent(ledger, p)
=============================================================================
