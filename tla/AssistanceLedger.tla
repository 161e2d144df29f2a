-------------------------- MODULE AssistanceLedger --------------------------
(***************************************************************************)
(* assistance-ledger.ts: an append-only history of registered notices,     *)
(* proposed revisions of their actions, and the user's decisions.  The     *)
(* code's functions take a ledger and return the next one; so do these     *)
(* operators.  Can<Op> is what <Op> requires, <Op> what it returns.         *)
(*                                                                         *)
(* A ledger s is [documents, events]; its revision is the number of events *)
(* (assertState).  Texts, quotes and hashes of texts are not represented:  *)
(* a document's hash is a value of its own.                                *)
(***************************************************************************)
EXTENDS Integers, Sequences, FiniteSets

CONSTANTS
  Sources, Hashes, ActionIds,  \* names of notices, of their texts, of actions in them
  Scopes, Subjects,            \* whom a notice is for; what an action is about
  ChangeNames,                 \* ids of changes that the application chose
  DocumentLimit, EventLimit,   \* ASSISTANCE_LIMITS
  None                         \* an optional field that is absent

ASSUME LedgerConstants ==
  /\ DocumentLimit \in Nat /\ EventLimit \in Nat
  /\ None \notin ActionIds \cup Subjects

\* dated: the projection's date_state is exact.
Action ==
  [id : ActionIds, subject : Subjects \cup {None}, trust : {"ready", "review_required", "blocked"},
   kind : {"event", "submit", "other"}, dated : BOOLEAN]
Document == [source : Sources, hash : Hashes, scope : Scopes, actions : SUBSET Action]

Reference == [source : Sources, hash : Hashes, action : ActionIds]
DocumentReference == [source : Sources, hash : Hashes, action : ActionIds \cup {None}]
RefTo(d, a) == [source |-> d.source, hash |-> d.hash, action |-> a.id]

ChangeId ==
  ChangeNames \cup [before : Reference \cup {None}, after : Reference, scope : Scopes, subject : Subjects]
Proposal ==
  [id : ChangeId, kind : {"corrects", "cancels", "possible_change"},
   before : Reference \cup {None}, after : DocumentReference,
   scope : Scopes, subject : Subjects \cup {None}, candidates : SUBSET Reference]

Decisions == {"apply", "dismiss", "reopen"}

EmptyLedger == [documents |-> <<>>, events |-> <<>>]
Revision(s) == Len(s.events)

-----------------------------------------------------------------------------
Documents(s) == {s.documents[i] : i \in DOMAIN s.documents}
Events(s, type) == {i \in DOMAIN s.events : s.events[i].type = type}

\* Sets of at most one element, as source identities and action ids are unique.
FindDocument(s, ref) == {d \in Documents(s) : d.source = ref.source /\ d.hash = ref.hash}
FindAction(s, ref) ==
  {a \in UNION {d.actions : d \in FindDocument(s, ref)} : a.id = ref.action}

References(s) == UNION {{RefTo(d, a) : a \in d.actions} : d \in Documents(s)}
ActionAt(s, ref) == CHOOSE a \in FindAction(s, ref) : TRUE

\* Mutant: one event more.
CanExceed(s) == Revision(s) <= EventLimit
CanAppend(s) == Revision(s) < EventLimit
AppendEvent(s, event) == [s EXCEPT !.events = Append(@, event)]

-----------------------------------------------------------------------------
Registration(d) == [type |-> "document_registered", source |-> d.source, hash |-> d.hash]

\* A source identity is immutable.
CanRegister(s, d) ==
  \/ d \in Documents(s)
  \/ /\ \A old \in Documents(s) : old.source # d.source
     /\ \A a, b \in d.actions : a.id = b.id => a = b
     /\ Len(s.documents) < DocumentLimit /\ CanAppend(s)

\* Mutant: a repeated registration is recorded too.
RecordAgain(s, d) == AppendEvent(s, Registration(d))
RegisterAgain(s, d) == s

Register(s, d) ==
  IF d \in Documents(s)
  THEN RegisterAgain(s, d)
  ELSE [AppendEvent(s, Registration(d)) EXCEPT !.documents = Append(@, d)]

-----------------------------------------------------------------------------
Proposals(s) == {s.events[i].proposal : i \in Events(s, "change_proposed")}

DecisionsOn(s, id) == {i \in Events(s, "change_decided") : s.events[i].change = id}
LatestOf(is) == CHOOSE i \in is : \A j \in is : j <= i
LastDecision(s, id) ==
  IF DecisionsOn(s, id) = {} THEN "none" ELSE s.events[LatestOf(DecisionsOn(s, id))].decision

Applied(s) == {p \in Proposals(s) : LastDecision(s, p.id) = "apply"}

\* The latest applied change of an action decides.
WorkflowState(s, ref) ==
  LET by == {p \in Applied(s) : p.before = ref}
      last == CHOOSE p \in by : \A q \in by :
                LatestOf(DecisionsOn(s, q.id)) <= LatestOf(DecisionsOn(s, p.id))
  IN IF by = {} THEN "active"
     ELSE IF last.kind = "cancels" THEN "cancelled" ELSE "superseded"

Active(s, ref) == ref \in References(s) /\ WorkflowState(s, ref) = "active"

\* changeTargetReferences: the active actions about the proposal's subject.
TargetReferences(s, p) ==
  {ref \in References(s) :
     /\ p.subject # None /\ ActionAt(s, ref).subject = p.subject
     /\ \E d \in FindDocument(s, ref) : d.scope = p.scope
     /\ ref # p.after /\ WorkflowState(s, ref) = "active"}

\* The two actions are about the proposal's subject, in its scope.
Bound(s, p) ==
  /\ p.kind # "possible_change" /\ p.before # None /\ p.subject # None
  /\ \E a \in FindAction(s, p.before) : a.subject = p.subject
  /\ \A ref \in {p.before, p.after} : \E d \in FindDocument(s, ref) : d.scope = p.scope
  /\ p.kind = "corrects" =>
       \E a \in FindAction(s, p.before), b \in FindAction(s, p.after) :
         b.subject = p.subject /\ b.kind = a.kind

Resolution(s, p) ==
  IF Cardinality(p.candidates) > 1 THEN "ambiguous"
  ELSE IF ~Bound(s, p) THEN "unresolved"
  ELSE IF Cardinality(TargetReferences(s, p)) > 1 THEN "ambiguous" ELSE "exact"

-----------------------------------------------------------------------------
CanPropose(s, p) ==
  /\ FindDocument(s, p.after) # {}
  /\ p.after.action # None => FindAction(s, p.after) # {}
  /\ p.before # None => FindAction(s, p.before) # {} /\ p.before.source # p.after.source
  /\ p.candidates \subseteq References(s)
  /\ \A old \in Proposals(s) : old.id = p.id => old = p
  /\ p \notin Proposals(s) => CanAppend(s)

Propose(s, p) ==
  IF p \in Proposals(s) THEN s ELSE AppendEvent(s, [type |-> "change_proposed", proposal |-> p])

Status(s, p) ==
  CASE LastDecision(s, p.id) = "apply" -> "resolved"
    [] LastDecision(s, p.id) = "dismiss" -> "dismissed"
    [] OTHER -> "open"

\* changeCards; an applied change keeps its confirmed target.
Card(s, p) ==
  [change |-> p.id, kind |-> p.kind, before |-> p.before, after |-> p.after,
   status |-> Status(s, p),
   resolution |-> IF Status(s, p) = "resolved" THEN "exact" ELSE Resolution(s, p)]
Cards(s) == {Card(s, p) : p \in Proposals(s)}

\* suggestDocumentChanges: a correction of what is active elsewhere about the same
\* subject; with several candidates, of none of them in particular.  A change_id
\* is the fingerprint of what it links.
Suggestions(s, d) ==
  LET after(a) == RefTo(d, a)
      about(a) == [before |-> None, after |-> after(a), scope |-> d.scope, subject |-> a.subject]
      targets(a) == {ref \in TargetReferences(s, about(a)) : ref.source # d.source}
      before(a) == IF Cardinality(targets(a)) = 1 THEN CHOOSE ref \in targets(a) : TRUE ELSE None
  IN {[id |-> [about(a) EXCEPT !.before = before(a)], kind |-> "corrects", before |-> before(a),
       after |-> after(a), scope |-> d.scope, subject |-> a.subject, candidates |-> targets(a)] :
      a \in {b \in d.actions : targets(b) # {}}}

-----------------------------------------------------------------------------
Settled(s, p, decision) ==
  \/ decision = "apply" /\ Status(s, p) = "resolved"
  \/ decision = "dismiss" /\ Status(s, p) = "dismissed"
  \/ decision = "reopen" /\ Status(s, p) = "open"

\* Mutant: the replacement may itself have been replaced.
ReplacementExists(s, p) == \E b \in FindAction(s, p.after) : b.trust = "ready"
ReplacementOK(s, p) ==
  (\E b \in FindAction(s, p.after) : b.trust = "ready") /\ Active(s, p.after)

\* Mutant: a dismissed change is applied without being reopened.
CanApplyDismissed(s, p) ==
  /\ Resolution(s, p) = "exact" /\ p.before # None /\ Active(s, p.before)
  /\ p.kind = "corrects" => ReplacementOK(s, p)
CanApply(s, p) ==
  /\ Status(s, p) = "open" /\ Resolution(s, p) = "exact" /\ p.kind # "possible_change"
  /\ p.before # None /\ Active(s, p.before)
  /\ p.kind = "corrects" => ReplacementOK(s, p)

\* Mutant: a change can always be undone.
Independent(s, p) == FALSE
\* A later applied change of either of its actions forbids to undo a change.
Dependent(s, p) == \E q \in Applied(s) \ {p} : q.before # None /\ q.before \in {p.before, p.after}

CanDecide(s, p, decision) ==
  \/ Settled(s, p, decision)
  \/ /\ CanAppend(s)
     /\ CASE decision = "apply" -> CanApply(s, p)
          [] decision = "reopen" /\ Status(s, p) = "resolved" -> ~Dependent(s, p)
          [] OTHER -> Status(s, p) # "resolved"

Decide(s, p, decision) ==
  IF Settled(s, p, decision) THEN s
  ELSE AppendEvent(s, [type |-> "change_decided", change |-> p.id, decision |-> decision])
=============================================================================
