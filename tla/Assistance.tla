----------------------------- MODULE Assistance -----------------------------
(***************************************************************************)
(* The assistance ledger in use.  Clients work on one persisted ledger and *)
(* call its operations with the revision they have seen (expectedRevision);*)
(* a refresh distributes a companion, which another device receives late,  *)
(* twice or out of order (acceptAssistanceSnapshot).                       *)
(*                                                                         *)
(* A scenario bounds a behaviour: the clients, documents, proposals of the *)
(* application and facts that occur, and the number of events of each type.*)
(***************************************************************************)
EXTENDS AssistanceCompanion

CONSTANTS Clients, Scenarios

EventTypes ==
  {"document_registered", "change_proposed", "change_decided", "projection_refreshed",
   "review_decided"}
Scenario ==
  [clients : SUBSET Clients, documents : SUBSET Document, suggest : BOOLEAN,
   proposals : SUBSET Proposal, facts : SUBSET Facts, most : [EventTypes -> Nat]]

ASSUME ScenarioConstants == Scenarios \subseteq Scenario

VARIABLES
  scenario,  \* the bounds, chosen once
  ledger,    \* what is persisted
  seen,      \* [Clients -> Nat]: the revision each client works on
  sent,      \* the companions distributed so far
  accepted   \* the companion the other device holds, or None

vars == <<scenario, ledger, seen, sent, accepted>>

\* Mutant: the expected revision is not compared.
Stale(c) == TRUE
Fresh(c) == seen[c] = Revision(ledger)

\* The caller persists what the operation returned and goes on with it.
Persist(c, s) ==
  /\ \A type \in EventTypes : Cardinality(Events(s, type)) <= scenario.most[type]
  /\ ledger' = s
  /\ seen' = [seen EXCEPT ![c] = Revision(s)]
  /\ UNCHANGED scenario

Look(c) ==
  /\ seen' = [seen EXCEPT ![c] = Revision(ledger)]
  /\ UNCHANGED <<scenario, ledger, sent, accepted>>

RegisterDocument(c) ==
  /\ Fresh(c)
  /\ \E d \in scenario.documents :
       CanRegister(ledger, d) /\ Persist(c, Register(ledger, d))
  /\ UNCHANGED <<sent, accepted>>

\* A suggestion, or a change the application composed.
ProposeChange(c) ==
  /\ Fresh(c)
  /\ \E p \in scenario.proposals \cup
                (IF scenario.suggest THEN UNION {Suggestions(ledger, d) : d \in Documents(ledger)}
                 ELSE {}) :
       CanPropose(ledger, p) /\ Persist(c, Propose(ledger, p))
  /\ UNCHANGED <<sent, accepted>>

DecideChange(c) ==
  /\ Fresh(c)
  /\ \E p \in Proposals(ledger), decision \in Decisions :
       CanDecide(ledger, p, decision) /\ Persist(c, Decide(ledger, p, decision))
  /\ UNCHANGED <<sent, accepted>>

\* decideAssistanceReview: an item of any companion the client holds.
DecideReview(c) ==
  /\ Fresh(c) /\ CanAppend(ledger)
  /\ \E m \in sent : \E review \in m.content.reviews, status \in {"resolved", "dismissed"} :
       Persist(c, AppendEvent(ledger,
                    [type |-> "review_decided", item |-> review[1], status |-> status]))
  /\ UNCHANGED <<sent, accepted>>

Refreshed(s, content) ==
  LET is == Events(s, "projection_refreshed")
  IN is # {} /\ s.events[LatestOf(is)].fingerprint = content
\* Mutant: the companion keeps the revision of the preview.
PreviewRevision(s, next) == Revision(s)
CompanionRevision(s, next) == Revision(next)

Refresh(c) ==
  /\ Fresh(c)
  /\ \E facts \in scenario.facts :
       LET content == Project(ledger, facts)
           next == IF Refreshed(ledger, content) THEN ledger
                   ELSE AppendEvent(ledger, [type |-> "projection_refreshed",
                                             fingerprint |-> content])
       IN /\ Valid(content)
          /\ Refreshed(ledger, content) \/ CanAppend(ledger)
          /\ Persist(c, next)
          /\ sent' = sent \cup {[revision |-> CompanionRevision(ledger, next), content |-> content]}
  /\ UNCHANGED accepted

\* An older companion is refused, and another one of the same revision.
Receive ==
  /\ \E m \in sent :
       /\ accepted # None => \/ m.revision > accepted.revision
                             \/ m = accepted
       /\ accepted' = m
  /\ UNCHANGED <<scenario, ledger, seen, sent>>

Next ==
  \/ \E c \in scenario.clients :
       \/ Look(c) \/ RegisterDocument(c) \/ ProposeChange(c) \/ DecideChange(c)
       \/ DecideReview(c) \/ Refresh(c)
  \/ Receive

Init ==
  /\ scenario \in Scenarios
  /\ ledger = EmptyLedger
  /\ seen = [c \in Clients |-> 0]
  /\ sent = {} /\ accepted = None

Spec == Init /\ [][Next]_vars
=============================================================================
