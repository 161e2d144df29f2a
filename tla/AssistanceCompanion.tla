------------------------ MODULE AssistanceCompanion ------------------------
(***************************************************************************)
(* assistance-project.ts and assistance-wire.ts: the companion that is     *)
(* computed from a ledger and local facts and sent to other devices.  One  *)
(* local profile; its facts and rules at an instant are one value, and     *)
(* Applicability(facts, ref) is what the conditions say.  A review item's  *)
(* fingerprint is what it asks about.                                      *)
(***************************************************************************)
EXTENDS AssistanceLedger

CONSTANTS Facts, Applicability(_, _)

Answers == {"applies", "not_applicable", "unknown"}
ASSUME CompanionConstants ==
  \A facts \in Facts, ref \in Reference : Applicability(facts, ref) \in Answers

OpenChanges(s) == {p \in Proposals(s) : Status(s, p) = "open"}

\* Mutant: the candidates found when the change was proposed.
HintsOnly(s, p) == p.candidates
Targets(s, p) == p.candidates \cup TargetReferences(s, p)

\* Mutant: only the old action of an open change is held.
HeldBefore(s, p) == {p.before} \cup Targets(s, p)
HeldBy(s, p) == {p.before, p.after} \cup Targets(s, p)
\* pendingRefs
Held(s) == (UNION {HeldBy(s, p) : p \in OpenChanges(s)}) \cap Reference

Evaluation(s, facts, ref) ==
  LET a == ActionAt(s, ref)
      base == Applicability(facts, ref)
      state == IF ref \in Held(s) /\ base # "not_applicable" THEN "unknown" ELSE base
      ready == /\ WorkflowState(s, ref) = "active" /\ a.trust = "ready"
               /\ state = "applies" /\ ref \notin Held(s)
  IN [workflow |-> WorkflowState(s, ref), trust |-> a.trust, state |-> state,
      ready |-> ready, calendar |-> ready /\ a.dated /\ a.kind = "event"]

Ready(s, facts, ref) == ref \in References(s) /\ Evaluation(s, facts, ref).ready

-----------------------------------------------------------------------------
LinkItem(s, p) ==
  [field |-> "revision_link", change |-> p.id, resolution |-> Resolution(s, p)]
ActionItem(field, ref) == [field |-> field, action |-> ref]
FactItem(ref, facts) == [field |-> "applicability", action |-> ref, facts |-> facts]

ReviewItems(s, facts) ==
  LET active == {ref \in References(s) : WorkflowState(s, ref) = "active"}
  IN {LinkItem(s, p) : p \in OpenChanges(s)}
     \cup {ActionItem("verification", ref) :
             ref \in {r \in active : ActionAt(s, r).trust # "ready"}}
     \cup {ActionItem("temporal.date", ref) :
             ref \in {r \in active : ActionAt(s, r).kind # "other" /\ ~ActionAt(s, r).dated}}
     \cup {FactItem(ref, facts) :
             ref \in {r \in active : Applicability(facts, r) = "unknown"}}

ReviewsOf(s, item) == {i \in Events(s, "review_decided") : s.events[i].item = item}
ReviewStatus(s, item) ==
  IF ReviewsOf(s, item) = {} THEN "open" ELSE s.events[LatestOf(ReviewsOf(s, item))].status

\* projectAssistance, without the revision.
Project(s, facts) ==
  [changes |-> Cards(s),
   reviews |-> {<<item, ReviewStatus(s, item)>> : item \in ReviewItems(s, facts)},
   evaluations |-> [ref \in References(s) |-> Evaluation(s, facts, ref)]]

\* validateAssistanceCompanion: the cross-record checks.
ValidChanges(cards) ==
  /\ \A c, d \in cards : c.change = d.change => c = d
  /\ \A c \in cards :
       c.resolution = "exact" => /\ c.before # None /\ c.kind # "possible_change"
                                 /\ c.kind = "corrects" => c.after.action # None
  /\ \A c \in cards : c.status = "resolved" => c.before # None /\ c.kind # "possible_change"
  /\ \A c, d \in cards :
       c.status = "resolved" /\ d.status = "resolved" /\ c.before = d.before => c = d
ValidEvaluation(content, ref) ==
  LET e == content.evaluations[ref]
  IN /\ \A c \in content.changes :
          c.status = "open" /\ ref \in {c.before, c.after} =>
            ~e.ready /\ ~e.calendar /\ e.state # "applies"
     /\ \A c \in content.changes :
          c.status = "resolved" /\ ref = c.before =>
            /\ e.workflow = (IF c.kind = "cancels" THEN "cancelled" ELSE "superseded")
            /\ ~e.ready /\ ~e.calendar
     /\ e.ready => e.workflow = "active" /\ e.trust = "ready" /\ e.state = "applies"
     /\ e.calendar => e.ready
Valid(content) ==
  /\ ValidChanges(content.changes)
  /\ \A ref \in DOMAIN content.evaluations : ValidEvaluation(content, ref)
=============================================================================
