-------------------------- MODULE AssistanceProofs --------------------------
(* The assistance ledger: what its history of events keeps, and why revisions *)
(* never collide, never loop and are only applied as they were shown.         *)
EXTENDS AssistanceProperties, TLAPS, WellFoundedInduction

-----------------------------------------------------------------------------
(* Sequences of events and their last positions.                             *)

Less == {pair \in Nat \X Nat : pair[1] < pair[2]}

LEMMA LessIsWellFounded == IsWellFoundedOn(Less, Nat)
<1>1. OpToRel(<, Nat) = Less
  BY DEF OpToRel, Less
<1> QED
  BY <1>1, NatLessThanWellFounded

LEMMA Maximum ==
  ASSUME NEW n \in Nat, NEW S \in SUBSET (1 .. n), S # {}
  PROVE  \E i \in S : \A j \in S : j <= i
<1> DEFINE T == {m \in Nat : n - m \in S}
<1>1. T \subseteq Nat /\ T # {}
  <2>1. PICK i \in S : TRUE
    OBVIOUS
  <2>2. n - i \in Nat /\ n - (n - i) = i
    BY <2>1
  <2> QED
    BY <2>1, <2>2
<1>2. PICK m \in T : \A k \in T : ~(<<k, m>> \in Less)
  BY <1>1, LessIsWellFounded, WFMin
<1> HIDE DEF T
<1>3. \A k \in T : m <= k
  <2> TAKE k \in T
  <2>1. k \in Nat /\ m \in Nat
    BY <1>1
  <2>2. k < m => <<k, m>> \in Less
    BY <2>1 DEF Less
  <2> QED
    BY <1>2, <2>1, <2>2
<1>4. n - m \in S /\ \A j \in S : n - j \in T
  BY <1>1 DEF T
<1> QED
  BY <1>1, <1>3, <1>4

LEMMA Appended ==
  ASSUME NEW S, NEW q \in Seq(S), NEW e
  PROVE  /\ Append(q, e) \in Seq(S \cup {e})
         /\ Len(q) \in Nat /\ DOMAIN q = 1 .. Len(q)
         /\ Len(Append(q, e)) = Len(q) + 1
         /\ DOMAIN Append(q, e) = 1 .. (Len(q) + 1)
         /\ \A i \in 1 .. Len(q) : Append(q, e)[i] = q[i]
         /\ Append(q, e)[Len(q) + 1] = e
<1>1. q \in Seq(S \cup {e})
  OBVIOUS
<1> QED
  BY <1>1

LEMMA LatestIs ==
  ASSUME NEW n \in Nat, NEW S \in SUBSET (1 .. n), S # {}
  PROVE  LatestOf(S) \in S /\ \A j \in S : j <= LatestOf(S)
  BY Maximum DEF LatestOf

LEMMA LatestNew ==
  ASSUME NEW n \in Nat, NEW S \in SUBSET (1 .. n)
  PROVE  LatestOf(S \cup {n + 1}) = n + 1
<1>1. \A i \in S \cup {n + 1} : (\A j \in S \cup {n + 1} : j <= i) <=> i = n + 1
  OBVIOUS
<1> QED
  BY <1>1 DEF LatestOf

-----------------------------------------------------------------------------
(* Ledgers, and what one more event changes.                                 *)

IsLedger(s) == \E S : s \in [documents : Seq(Document), events : Seq(S)]

LEMMA LedgerParts ==
  ASSUME NEW s, IsLedger(s)
  PROVE  /\ Documents(s) \subseteq Document /\ References(s) \subseteq Reference
         /\ s.documents \in Seq(Document) /\ Len(s.documents) \in Nat
         /\ DOMAIN s.documents = 1 .. Len(s.documents)
         /\ Revision(s) \in Nat /\ DOMAIN s.events = 1 .. Revision(s)
<1>1. PICK S : s \in [documents : Seq(Document), events : Seq(S)]
  BY DEF IsLedger
<1>2. /\ s.documents \in Seq(Document) /\ s.events \in Seq(S)
      /\ Len(s.documents) \in Nat /\ DOMAIN s.documents = 1 .. Len(s.documents)
      /\ Len(s.events) \in Nat /\ DOMAIN s.events = 1 .. Len(s.events)
  BY <1>1
<1>3. Documents(s) \subseteq Document
  BY <1>2 DEF Documents
<1>4. References(s) \subseteq Reference
  BY <1>3 DEF References, RefTo, Reference, Document, Action
<1> QED
  BY <1>2, <1>3, <1>4 DEF Revision

\* s with one more event e.
Appending(s, t, e) ==
  /\ IsLedger(s) /\ IsLedger(t) /\ t.documents = s.documents
  /\ Revision(t) = Revision(s) + 1 /\ Revision(s) \in Nat
  /\ DOMAIN s.events = 1 .. Revision(s) /\ DOMAIN t.events = 1 .. (Revision(s) + 1)
  /\ \A i \in 1 .. Revision(s) : t.events[i] = s.events[i]
  /\ t.events[Revision(s) + 1] = e

LEMMA AppendEventAppends ==
  ASSUME NEW s, IsLedger(s), NEW e
  PROVE  Appending(s, AppendEvent(s, e), e)
<1>1. PICK S : s \in [documents : Seq(Document), events : Seq(S)]
  BY DEF IsLedger
<1>2. s.events \in Seq(S) /\ s.documents \in Seq(Document)
  BY <1>1
<1> DEFINE q == s.events
           r == Append(q, e)
<1>3. AppendEvent(s, e) = [s EXCEPT !.events = r]
  BY DEF AppendEvent
<1>4. /\ r \in Seq(S \cup {e}) /\ Len(q) \in Nat /\ DOMAIN q = 1 .. Len(q)
      /\ Len(r) = Len(q) + 1 /\ DOMAIN r = 1 .. (Len(q) + 1)
      /\ \A i \in 1 .. Len(q) : r[i] = q[i]
      /\ r[Len(q) + 1] = e
  BY <1>2, Appended
<1> HIDE DEF r
<1>5. /\ AppendEvent(s, e) \in [documents : Seq(Document), events : Seq(S \cup {e})]
      /\ AppendEvent(s, e).documents = s.documents /\ AppendEvent(s, e).events = r
  BY <1>1, <1>3, <1>4
<1>6. IsLedger(AppendEvent(s, e))
  BY <1>5 DEF IsLedger
<1> QED
  BY <1>4, <1>5, <1>6 DEF Appending, Revision

LEMMA SameDocuments ==
  ASSUME NEW s, NEW t, t.documents = s.documents
  PROVE  /\ Documents(t) = Documents(s) /\ References(t) = References(s)
         /\ \A ref : FindDocument(t, ref) = FindDocument(s, ref)
         /\ \A ref : FindAction(t, ref) = FindAction(s, ref)
         /\ \A ref : ActionAt(t, ref) = ActionAt(s, ref)
<1>1. Documents(t) = Documents(s)
  BY DEF Documents
<1>2. \A ref : FindDocument(t, ref) = FindDocument(s, ref)
  BY <1>1 DEF FindDocument
<1>3. \A ref : FindAction(t, ref) = FindAction(s, ref)
  BY <1>2 DEF FindAction
<1> QED
  BY <1>1, <1>2, <1>3 DEF References, ActionAt

LEMMA EventsGrow ==
  ASSUME NEW s, NEW t, NEW e, Appending(s, t, e), NEW type
  PROVE  /\ Events(s, type) \subseteq 1 .. Revision(s)
         /\ Events(t, type) = IF e.type = type THEN Events(s, type) \cup {Revision(s) + 1}
                                               ELSE Events(s, type)
<1>1. Events(s, type) \subseteq 1 .. Revision(s)
  BY DEF Events, Appending
<1>2. \A i \in 1 .. (Revision(s) + 1) : i \in 1 .. Revision(s) \/ i = Revision(s) + 1
  BY DEF Appending
<1>3. \A i : i \in Events(t, type) <=>
              i \in Events(s, type) \/ (e.type = type /\ i = Revision(s) + 1)
  BY <1>2 DEF Events, Appending
<1> QED
  BY <1>1, <1>3

LEMMA ProposalsGrow ==
  ASSUME NEW s, NEW t, NEW e, Appending(s, t, e)
  PROVE  Proposals(t) = IF e.type = "change_proposed" THEN Proposals(s) \cup {e.proposal}
                                                      ELSE Proposals(s)
<1> DEFINE k == "change_proposed"
<1>1. \A i \in Events(s, k) : t.events[i] = s.events[i]
  BY EventsGrow DEF Appending
<1>2. t.events[Revision(s) + 1] = e
  BY DEF Appending
<1>3. CASE e.type = k
  <2>1. Events(t, k) = Events(s, k) \cup {Revision(s) + 1}
    BY <1>3, EventsGrow
  <2> HIDE DEF k
  <2>2. {t.events[i].proposal : i \in Events(t, k)} =
        {s.events[i].proposal : i \in Events(s, k)} \cup {e.proposal}
    BY <1>1, <1>2, <2>1
  <2> QED
    BY <1>3, <2>2 DEF Proposals, k
<1>4. CASE e.type # k
  <2>1. Events(t, k) = Events(s, k)
    BY <1>4, EventsGrow
  <2> HIDE DEF k
  <2>2. {t.events[i].proposal : i \in Events(t, k)} = {s.events[i].proposal : i \in Events(s, k)}
    BY <1>1, <2>1
  <2> QED
    BY <1>4, <2>2 DEF Proposals, k
<1> QED
  BY <1>3, <1>4

\* When the last decision on a change was made.
Moment(s, id) == LatestOf(DecisionsOn(s, id))

LEMMA DecidedBefore ==
  ASSUME NEW s, IsLedger(s), NEW id
  PROVE  /\ DecisionsOn(s, id) \subseteq 1 .. Revision(s)
         /\ DecisionsOn(s, id) # {} =>
              Moment(s, id) \in DecisionsOn(s, id) /\ Moment(s, id) \in 1 .. Revision(s)
<1>1. DecisionsOn(s, id) \subseteq 1 .. Revision(s) /\ Revision(s) \in Nat
  BY LedgerParts DEF DecisionsOn, Events
<1> QED
  BY <1>1, LatestIs DEF Moment

\* A decision counts for its change only.
LEMMA OtherDecision ==
  ASSUME NEW s, NEW t, NEW e, Appending(s, t, e), NEW id,
         e.type # "change_decided" \/ e.change # id
  PROVE  /\ DecisionsOn(t, id) = DecisionsOn(s, id) /\ Moment(t, id) = Moment(s, id)
         /\ LastDecision(t, id) = LastDecision(s, id)
<1> DEFINE k == "change_decided"
<1>1. \A i \in Events(s, k) : t.events[i] = s.events[i]
  BY EventsGrow DEF Appending
<1>2. Events(t, k) \subseteq Events(s, k) \cup {Revision(s) + 1}
      /\ Events(s, k) \subseteq Events(t, k) /\ (e.type # k => Events(t, k) = Events(s, k))
  BY EventsGrow
<1>3. t.events[Revision(s) + 1] = e
  BY DEF Appending
<1>4. DecisionsOn(t, id) = DecisionsOn(s, id)
  <2> HIDE DEF k
  <2>1. {i \in Events(t, k) : t.events[i].change = id}
          = {i \in Events(s, k) : s.events[i].change = id}
    BY <1>1, <1>2, <1>3 DEF k
  <2> QED
    BY <2>1 DEF DecisionsOn, k
<1>5. Moment(t, id) = Moment(s, id)
  BY <1>4 DEF Moment
<1>6. DecisionsOn(s, id) # {} => t.events[Moment(s, id)] = s.events[Moment(s, id)]
  BY DecidedBefore DEF Appending
<1> QED
  BY <1>4, <1>5, <1>6 DEF LastDecision, Moment

LEMMA NewDecision ==
  ASSUME NEW s, NEW t, NEW e, Appending(s, t, e), e.type = "change_decided"
  PROVE  /\ LastDecision(t, e.change) = e.decision
         /\ Moment(t, e.change) = Revision(s) + 1
<1>1. /\ DecisionsOn(s, e.change) \subseteq 1 .. Revision(s) /\ Revision(s) \in Nat
  BY DecidedBefore DEF Appending
<1>2. DecisionsOn(t, e.change) = DecisionsOn(s, e.change) \cup {Revision(s) + 1}
  <2> DEFINE k == "change_decided"
  <2>1. \A i \in Events(s, k) : t.events[i] = s.events[i]
    BY EventsGrow DEF Appending
  <2>2. Events(t, k) = Events(s, k) \cup {Revision(s) + 1} /\ t.events[Revision(s) + 1] = e
    <3>1. Events(t, k) = Events(s, k) \cup {Revision(s) + 1}
      BY EventsGrow
    <3> QED
      BY <3>1 DEF Appending
  <2> QED
    BY <2>1, <2>2 DEF DecisionsOn
<1>3. Moment(t, e.change) = Revision(s) + 1
  BY <1>1, <1>2, LatestNew DEF Moment
<1> QED
  BY <1>2, <1>3 DEF LastDecision, Moment, Appending

-----------------------------------------------------------------------------
(* What a ledger keeps: identities, links to known actions, and the order of *)
(* the revisions in force.                                                   *)

Identities(s) ==
  /\ IsLedger(s)
  /\ Len(s.documents) <= DocumentLimit /\ Revision(s) <= EventLimit
  /\ \A d, e \in Documents(s) : d.source = e.source => d = e
  /\ \A d \in Documents(s) : \A a, b \in d.actions : a.id = b.id => a = b
  /\ Proposals(s) \subseteq Proposal
  /\ \A p, q \in Proposals(s) : p.id = q.id => p = q

\* A change links known actions of two notices.
Linked(s, p) ==
  /\ p.before # None => p.before \in References(s) /\ p.before.source # p.after.source
  /\ p.after.action # None => p.after \in References(s)

Links(s) ==
  /\ \A p \in Proposals(s) : Linked(s, p)
  /\ \A i \in Events(s, "change_decided") : \E p \in Proposals(s) : p.id = s.events[i].change

\* Changes in force retire one action each, for good or for a later one.
Order(s) ==
  /\ \A p \in Applied(s) : /\ p.before # None /\ p.kind \in {"corrects", "cancels"}
                           /\ p.kind = "corrects" => p.after.action # None
  /\ \A p, q \in Applied(s) : p.before = q.before => p = q
  /\ \A p, q \in Applied(s) :
       p.kind = "corrects" /\ q.before = p.after => Moment(s, p.id) < Moment(s, q.id)

LedgerOK(s) == Identities(s) /\ Links(s) /\ Order(s)

\* A reference that is found is one of the ledger's, and names one action.
LEMMA FoundReference ==
  ASSUME NEW s, IsLedger(s), NEW ref \in Reference, FindAction(s, ref) # {}
  PROVE  ref \in References(s)
<1>1. PICK a \in FindAction(s, ref) : TRUE
  OBVIOUS
<1>2. PICK d \in Documents(s) : /\ a \in d.actions /\ a.id = ref.action
                               /\ d.source = ref.source /\ d.hash = ref.hash
  BY <1>1 DEF FindAction, FindDocument
<1>3. ref = RefTo(d, a)
  BY <1>2 DEF RefTo, Reference
<1> QED
  BY <1>2, <1>3 DEF References

LEMMA ActionOfReference ==
  ASSUME NEW s, Identities(s), NEW d \in Documents(s), NEW a \in d.actions
  PROVE  /\ RefTo(d, a) \in References(s) /\ RefTo(d, a) \in Reference
         /\ FindDocument(s, RefTo(d, a)) = {d}
         /\ FindAction(s, RefTo(d, a)) = {a}
         /\ ActionAt(s, RefTo(d, a)) = a
<1>1. RefTo(d, a) \in References(s)
  BY DEF References
<1>2. RefTo(d, a) \in Reference
  BY <1>1, LedgerParts DEF Identities
<1>3. FindDocument(s, RefTo(d, a)) = {d}
  BY DEF FindDocument, RefTo, Identities
<1>4. FindAction(s, RefTo(d, a)) = {a}
  <2>1. FindAction(s, RefTo(d, a)) = {b \in d.actions : b.id = RefTo(d, a).action}
    BY <1>3 DEF FindAction
  <2>2. RefTo(d, a).action = a.id
    BY DEF RefTo
  <2> QED
    BY <2>1, <2>2 DEF Identities
<1>5. ActionAt(s, RefTo(d, a)) = a
  BY <1>4 DEF ActionAt
<1> QED
  BY <1>1, <1>2, <1>3, <1>4, <1>5

LEMMA AppliedMoment ==
  ASSUME NEW s, IsLedger(s), NEW p \in Applied(s)
  PROVE  /\ Moment(s, p.id) \in 1 .. Revision(s) /\ Revision(s) \in Nat
         /\ p \in Proposals(s) /\ Status(s, p) = "resolved"
  BY DecidedBefore, LedgerParts DEF Applied, LastDecision, Status

\* At most one change in force retires an action, and it says how.
LEMMA StateOf ==
  ASSUME NEW s, IsLedger(s), Order(s), NEW ref
  PROVE  /\ WorkflowState(s, ref) = "active" <=> \A p \in Applied(s) : p.before # ref
         /\ \A p \in Applied(s) : p.before = ref =>
              WorkflowState(s, ref) = IF p.kind = "cancels" THEN "cancelled" ELSE "superseded"
<1> DEFINE by == {p \in Applied(s) : p.before = ref}
           last == CHOOSE p \in by : \A q \in by :
                     LatestOf(DecisionsOn(s, q.id)) <= LatestOf(DecisionsOn(s, p.id))
<1>1. WorkflowState(s, ref) = IF by = {} THEN "active"
                              ELSE IF last.kind = "cancels" THEN "cancelled" ELSE "superseded"
  BY DEF WorkflowState
<1>2. ASSUME NEW p \in by PROVE last = p
  <2>1. by = {p}
    BY <1>2 DEF Order
  <2>2. Moment(s, p.id) <= Moment(s, p.id)
    BY <1>2, AppliedMoment
  <2>3. \A q \in by : LatestOf(DecisionsOn(s, q.id)) <= LatestOf(DecisionsOn(s, p.id))
    BY <2>1, <2>2 DEF Moment
  <2> QED
    BY <2>1, <2>3
<1> HIDE DEF last
<1> QED
  BY <1>1, <1>2

-----------------------------------------------------------------------------
(* Each operation keeps it, and changes what is in force by one at most.     *)

LEMMA EmptyLedgerOK == LedgerOK(EmptyLedger) /\ Applied(EmptyLedger) = {}
<1>1. IsLedger(EmptyLedger)
  BY DEF IsLedger, EmptyLedger
<1>2. /\ Documents(EmptyLedger) = {} /\ \A type : Events(EmptyLedger, type) = {}
      /\ Len(EmptyLedger.documents) = 0 /\ Revision(EmptyLedger) = 0
  BY DEF EmptyLedger, Documents, Events, Revision
<1>3. Proposals(EmptyLedger) = {}
  BY <1>2 DEF Proposals
<1>4. Applied(EmptyLedger) = {}
  BY <1>3 DEF Applied
<1> QED
  BY <1>1, <1>2, <1>3, <1>4, LedgerConstants DEF LedgerOK, Identities, Links, Order

\* Limits after one more event.
LEMMA OneMore ==
  ASSUME NEW s, NEW t, NEW e, Identities(s), Appending(s, t, e), CanAppend(s)
  PROVE  /\ Revision(t) <= EventLimit /\ Len(t.documents) <= DocumentLimit
         /\ Documents(t) = Documents(s) /\ References(t) = References(s)
<1>1. t.documents = s.documents /\ Revision(t) = Revision(s) + 1 /\ Revision(s) \in Nat
  BY DEF Appending
<1>2. Revision(s) < EventLimit /\ EventLimit \in Nat
  BY LedgerConstants DEF CanAppend
<1> QED
  BY <1>1, <1>2, SameDocuments DEF Identities

LEMMA DecidedGrow ==
  ASSUME NEW s, NEW t, NEW e, Links(s), Appending(s, t, e),
         Proposals(s) \subseteq Proposals(t),
         e.type = "change_decided" => \E p \in Proposals(t) : p.id = e.change,
         NEW i \in Events(t, "change_decided")
  PROVE  \E p \in Proposals(t) : p.id = t.events[i].change
<1> DEFINE k == "change_decided"
<1>1. i \in Events(s, k) \/ (e.type = k /\ i = Revision(s) + 1)
  BY EventsGrow
<1>2. CASE i \in Events(s, k)
  <2>1. t.events[i] = s.events[i]
    BY <1>2, EventsGrow DEF Appending
  <2> QED
    BY <1>2, <2>1 DEF Links
<1>3. CASE e.type = k /\ i = Revision(s) + 1
  BY <1>3 DEF Appending
<1> QED
  BY <1>1, <1>2, <1>3

\* An event that is about no change.
LEMMA NoteKeeps ==
  ASSUME NEW s, NEW t, NEW e, LedgerOK(s), Appending(s, t, e), CanAppend(s),
         e.type \notin {"change_proposed", "change_decided"}
  PROVE  /\ LedgerOK(t) /\ Proposals(t) = Proposals(s) /\ Applied(t) = Applied(s)
<1>1. Proposals(t) = Proposals(s)
  BY ProposalsGrow
<1>2. \A id : LastDecision(t, id) = LastDecision(s, id) /\ Moment(t, id) = Moment(s, id)
  BY OtherDecision
<1>3. Applied(t) = Applied(s)
  BY <1>1, <1>2 DEF Applied
<1>4. Identities(t)
  BY <1>1, OneMore DEF LedgerOK, Identities, Appending
<1>5. Links(t)
  <2>1. \A p \in Proposals(t) : Linked(t, p)
    BY <1>1, OneMore DEF LedgerOK, Links, Linked
  <2>2. \A i \in Events(t, "change_decided") : \E p \in Proposals(t) : p.id = t.events[i].change
    BY <1>1, DecidedGrow DEF LedgerOK
  <2> QED
    BY <2>1, <2>2 DEF Links
<1>6. Order(t)
  BY <1>2, <1>3 DEF LedgerOK, Order
<1> QED
  BY <1>1, <1>3, <1>4, <1>5, <1>6 DEF LedgerOK

LEMMA SameEvents ==
  ASSUME NEW s, NEW t, t.events = s.events
  PROVE  /\ Revision(t) = Revision(s) /\ Proposals(t) = Proposals(s) /\ Applied(t) = Applied(s)
         /\ \A type : Events(t, type) = Events(s, type)
         /\ \A id : LastDecision(t, id) = LastDecision(s, id) /\ Moment(t, id) = Moment(s, id)
<1>1. \A type : Events(t, type) = Events(s, type)
  BY DEF Events
<1>2. \A id : DecisionsOn(t, id) = DecisionsOn(s, id)
  BY <1>1 DEF DecisionsOn
<1>3. \A id : LastDecision(t, id) = LastDecision(s, id) /\ Moment(t, id) = Moment(s, id)
  BY <1>2 DEF LastDecision, Moment
<1>4. Proposals(t) = Proposals(s)
  BY <1>1 DEF Proposals
<1> QED
  BY <1>1, <1>3, <1>4 DEF Revision, Applied

LEMMA RegisterKeeps ==
  ASSUME NEW s, LedgerOK(s), NEW d \in Document, CanRegister(s, d), d \notin Documents(s)
  PROVE  /\ LedgerOK(Register(s, d)) /\ Applied(Register(s, d)) = Applied(s)
         /\ Revision(Register(s, d)) = Revision(s) + 1
         /\ References(s) \subseteq References(Register(s, d))
<1> DEFINE m == AppendEvent(s, Registration(d))
           t == Register(s, d)
<1>1. /\ IsLedger(s) /\ CanAppend(s) /\ Len(s.documents) < DocumentLimit
      /\ \A old \in Documents(s) : old.source # d.source
      /\ \A a, b \in d.actions : a.id = b.id => a = b
  BY DEF LedgerOK, Identities, CanRegister
<1>2. Appending(s, m, Registration(d))
  BY <1>1, AppendEventAppends
<1>3. Registration(d).type \notin {"change_proposed", "change_decided"}
  BY DEF Registration
<1>4. t = [m EXCEPT !.documents = Append(m.documents, d)]
  BY DEF Register
<1> HIDE DEF m, t
<1>5. LedgerOK(m) /\ Applied(m) = Applied(s) /\ m.documents = s.documents /\ IsLedger(m)
      /\ Revision(m) = Revision(s) + 1
  BY <1>1, <1>2, <1>3, NoteKeeps DEF Appending
<1>6. PICK S : m \in [documents : Seq(Document), events : Seq(S)]
  BY <1>5 DEF IsLedger
<1> DEFINE q == s.documents
           r == Append(q, d)
<1>7. /\ q \in Seq(Document) /\ Len(q) \in Nat /\ DOMAIN q = 1 .. Len(q)
      /\ r \in Seq(Document) /\ Len(r) = Len(q) + 1 /\ DOMAIN r = 1 .. (Len(q) + 1)
      /\ \A i \in 1 .. Len(q) : r[i] = q[i]
      /\ r[Len(q) + 1] = d
  <2>1. q \in Seq(Document) /\ Document \cup {d} = Document
    BY <1>5, <1>6
  <2> HIDE DEF q
  <2> QED
    BY <2>1, Appended
<1> HIDE DEF q, r
<1>8. t.documents = r /\ t.events = m.events
      /\ t \in [documents : Seq(Document), events : Seq(S)]
  BY <1>4, <1>5, <1>6, <1>7 DEF q, r
<1>9. IsLedger(t)
  BY <1>8 DEF IsLedger
<1>10. Documents(t) = Documents(s) \cup {d}
  <2>1. Documents(s) = {q[i] : i \in 1 .. Len(q)}
    BY <1>7 DEF Documents, q
  <2>2. Documents(t) = {r[i] : i \in 1 .. (Len(q) + 1)}
    BY <1>7, <1>8 DEF Documents
  <2>3. \A i \in 1 .. (Len(q) + 1) : i \in 1 .. Len(q) \/ i = Len(q) + 1
    BY <1>7
  <2>4. 1 .. Len(q) \subseteq 1 .. (Len(q) + 1) /\ Len(q) + 1 \in 1 .. (Len(q) + 1)
    BY <1>7
  <2> QED
    BY <1>7, <2>1, <2>2, <2>3, <2>4
<1>11. References(m) = References(s) /\ References(s) \subseteq References(t)
  BY <1>5, <1>10, SameDocuments DEF References
<1>12. Identities(t)
  <2>1. Len(t.documents) <= DocumentLimit
    BY <1>1, <1>7, <1>8, LedgerConstants DEF q
  <2>2. Revision(t) <= EventLimit /\ Proposals(t) = Proposals(m)
    BY <1>5, <1>8, SameEvents DEF LedgerOK, Identities
  <2>3. \A a, b \in Documents(t) : a.source = b.source => a = b
    BY <1>1, <1>10 DEF LedgerOK, Identities
  <2>4. \A c \in Documents(t) : \A a, b \in c.actions : a.id = b.id => a = b
    BY <1>1, <1>10 DEF LedgerOK, Identities
  <2> QED
    BY <1>5, <1>9, <2>1, <2>2, <2>3, <2>4 DEF LedgerOK, Identities
<1>13. Links(t)
  BY <1>5, <1>8, <1>11, SameEvents DEF LedgerOK, Links, Linked
<1>14. Order(t)
  BY <1>5, <1>8, SameEvents DEF LedgerOK, Order
<1>15. Applied(t) = Applied(s) /\ Revision(t) = Revision(s) + 1
  BY <1>5, <1>8, SameEvents
<1> QED
  BY <1>11, <1>12, <1>13, <1>14, <1>15 DEF LedgerOK, t

LEMMA ProposeKeeps ==
  ASSUME NEW s, LedgerOK(s), NEW p \in Proposal, CanPropose(s, p), p \notin Proposals(s)
  PROVE  /\ LedgerOK(Propose(s, p)) /\ Applied(Propose(s, p)) = Applied(s)
         /\ Revision(Propose(s, p)) = Revision(s) + 1
         /\ References(Propose(s, p)) = References(s)
<1> DEFINE e == [type |-> "change_proposed", proposal |-> p]
           t == Propose(s, p)
<1>1. IsLedger(s) /\ CanAppend(s)
  BY DEF LedgerOK, Identities, CanPropose
<1>2. Appending(s, t, e)
  BY <1>1, AppendEventAppends DEF Propose
<1>3. e.type = "change_proposed" /\ e.proposal = p
  OBVIOUS
<1> HIDE DEF t, e
<1>4. Proposals(t) = Proposals(s) \cup {p}
  BY <1>2, <1>3, ProposalsGrow
<1>5. \A id : LastDecision(t, id) = LastDecision(s, id) /\ Moment(t, id) = Moment(s, id)
  BY <1>2, <1>3, OtherDecision
<1>6. \A old \in Proposals(s) : old.id # p.id
  BY DEF CanPropose
<1>7. LastDecision(s, p.id) = "none"
  <2>1. DecisionsOn(s, p.id) = {}
    BY <1>6 DEF LedgerOK, Links, DecisionsOn
  <2> QED
    BY <2>1 DEF LastDecision
<1>8. Applied(t) = Applied(s)
  BY <1>4, <1>5, <1>7 DEF Applied
<1>9. Documents(t) = Documents(s) /\ References(t) = References(s)
  BY <1>1, <1>2, OneMore DEF LedgerOK
<1>10. Identities(t)
  BY <1>1, <1>2, <1>4, <1>6, <1>9, OneMore DEF LedgerOK, Identities, Appending
<1>11. Linked(s, p)
  <2>1. p.after \in DocumentReference /\ p.before \in Reference \cup {None}
    BY DEF Proposal
  <2>2. p.after.action # None => p.after \in Reference
    BY <2>1 DEF DocumentReference, Reference
  <2> QED
    BY <1>1, <2>1, <2>2, FoundReference DEF Linked, CanPropose
<1>12. Links(t)
  <2>1. \A i \in Events(t, "change_decided") : \E old \in Proposals(t) : old.id = t.events[i].change
    BY <1>2, <1>3, <1>4, DecidedGrow DEF LedgerOK
  <2> QED
    BY <1>4, <1>9, <1>11, <2>1 DEF LedgerOK, Links, Linked
<1>13. Order(t)
  BY <1>5, <1>8 DEF LedgerOK, Order
<1> QED
  BY <1>2, <1>8, <1>9, <1>10, <1>12, <1>13 DEF LedgerOK, Appending, t

\* A decision that is recorded.
Deciding(s, p, decision) ==
  /\ p \in Proposals(s) /\ decision \in Decisions
  /\ CanDecide(s, p, decision) /\ ~Settled(s, p, decision)

LEMMA DecideRecords ==
  ASSUME NEW s, LedgerOK(s), NEW p, NEW decision, Deciding(s, p, decision)
  PROVE  LET t == Decide(s, p, decision)
         IN /\ IsLedger(t) /\ Revision(t) = Revision(s) + 1
            /\ Identities(t) /\ Links(t)
            /\ Documents(t) = Documents(s) /\ References(t) = References(s)
            /\ Proposals(t) = Proposals(s)
            /\ LastDecision(t, p.id) = decision /\ Moment(t, p.id) = Revision(s) + 1
            /\ \A q \in Proposals(s) \ {p} :
                 LastDecision(t, q.id) = LastDecision(s, q.id) /\ Moment(t, q.id) = Moment(s, q.id)
<1> DEFINE e == [type |-> "change_decided", change |-> p.id, decision |-> decision]
           t == Decide(s, p, decision)
<1>1. IsLedger(s) /\ CanAppend(s)
  BY DEF LedgerOK, Identities, Deciding, CanDecide
<1>2. Appending(s, t, e)
  BY <1>1, AppendEventAppends DEF Decide, Deciding
<1>3. e.type = "change_decided" /\ e.change = p.id /\ e.decision = decision
  OBVIOUS
<1> HIDE DEF t, e
<1>4. Proposals(t) = Proposals(s)
  BY <1>2, <1>3, ProposalsGrow
<1>5. LastDecision(t, p.id) = decision /\ Moment(t, p.id) = Revision(s) + 1
  BY <1>2, <1>3, NewDecision
<1>6. \A q \in Proposals(s) \ {p} :
        LastDecision(t, q.id) = LastDecision(s, q.id) /\ Moment(t, q.id) = Moment(s, q.id)
  <2> TAKE q \in Proposals(s) \ {p}
  <2>1. q.id # p.id
    BY DEF Deciding, LedgerOK, Identities
  <2> QED
    BY <1>2, <1>3, <2>1, OtherDecision
<1>7. Documents(t) = Documents(s) /\ References(t) = References(s)
  BY <1>1, <1>2, OneMore DEF LedgerOK
<1>8. Identities(t)
  BY <1>1, <1>2, <1>4, <1>7, OneMore DEF LedgerOK, Identities, Appending
<1>9. Links(t)
  <2>1. \E q \in Proposals(t) : q.id = e.change
    BY <1>3, <1>4 DEF Deciding
  <2>2. \A i \in Events(t, "change_decided") : \E q \in Proposals(t) : q.id = t.events[i].change
    BY <1>2, <1>4, <2>1, DecidedGrow DEF LedgerOK
  <2> QED
    BY <1>4, <1>7, <2>2 DEF LedgerOK, Links, Linked
<1> QED
  BY <1>2, <1>4, <1>5, <1>6, <1>7, <1>8, <1>9 DEF Appending, t

LEMMA AppliedIs ==
  ASSUME NEW s, NEW p
  PROVE  /\ p \in Applied(s) <=> p \in Proposals(s) /\ LastDecision(s, p.id) = "apply"
         /\ p \in Proposals(s) => (p \in Applied(s) <=> Status(s, p) = "resolved")
  BY DEF Applied, Status

\* Apply: the change and its actions are what the code requires.
LEMMA ApplyNeeds ==
  ASSUME NEW s, LedgerOK(s), NEW p, Deciding(s, p, "apply")
  PROVE  /\ p \notin Applied(s) /\ Status(s, p) = "open"
         /\ p.before \in References(s) /\ p.before # None
         /\ p.before # p.after /\ p.kind \in {"corrects", "cancels"}
         /\ \A q \in Applied(s) : q.before # p.before
         /\ p.kind = "corrects" =>
              /\ p.after \in References(s) /\ p.after.action # None
              /\ \A q \in Applied(s) : q.before # p.after
<1>1. CanApply(s, p) /\ p \in Proposals(s) /\ p \in Proposal /\ IsLedger(s)
  BY DEF Deciding, CanDecide, LedgerOK, Identities
<1>2. /\ Status(s, p) = "open" /\ p.kind # "possible_change" /\ p.before # None
      /\ Active(s, p.before) /\ (p.kind = "corrects" => Active(s, p.after))
  BY <1>1 DEF CanApply, ReplacementOK
<1>3. p \notin Applied(s)
  BY <1>1, <1>2, AppliedIs
<1>4. p.kind \in {"corrects", "cancels"}
  BY <1>1, <1>2 DEF Proposal
<1>5. p.before # p.after
  BY <1>1, <1>2 DEF LedgerOK, Links, Linked
<1>6. \A ref : Active(s, ref) => ref \in References(s) /\ \A q \in Applied(s) : q.before # ref
  BY <1>1, StateOf DEF Active, LedgerOK
<1>7. p.kind = "corrects" => p.after.action # None
  BY <1>1, <1>2, <1>6, LedgerParts, LedgerConstants DEF Reference
<1> QED
  BY <1>2, <1>3, <1>4, <1>5, <1>6, <1>7

LEMMA ApplyKeeps ==
  ASSUME NEW s, LedgerOK(s), NEW p, Deciding(s, p, "apply")
  PROVE  /\ LedgerOK(Decide(s, p, "apply"))
         /\ Applied(Decide(s, p, "apply")) = Applied(s) \cup {p}
<1> DEFINE t == Decide(s, p, "apply")
<1>1. /\ Identities(t) /\ Links(t) /\ Proposals(t) = Proposals(s) /\ p \in Proposals(s)
      /\ LastDecision(t, p.id) = "apply" /\ Moment(t, p.id) = Revision(s) + 1
      /\ \A q \in Proposals(s) \ {p} :
           LastDecision(t, q.id) = LastDecision(s, q.id) /\ Moment(t, q.id) = Moment(s, q.id)
  BY DecideRecords DEF Deciding
<1>2. /\ p \notin Applied(s) /\ p.before # None /\ p.before # p.after
      /\ p.kind \in {"corrects", "cancels"}
      /\ \A q \in Applied(s) : q.before # p.before
      /\ p.kind = "corrects" => /\ p.after.action # None
                                /\ \A q \in Applied(s) : q.before # p.after
  BY ApplyNeeds
<1> HIDE DEF t
<1>3. Applied(t) = Applied(s) \cup {p}
  BY <1>1 DEF Applied
<1>4. \A q \in Applied(s) : Moment(t, q.id) = Moment(s, q.id) /\ Moment(s, q.id) < Revision(s) + 1
                            /\ Moment(s, q.id) \in Nat
  <2> TAKE q \in Applied(s)
  <2>1. q \in Proposals(s) \ {p} /\ Moment(s, q.id) \in 1 .. Revision(s) /\ Revision(s) \in Nat
    BY <1>2, AppliedMoment DEF LedgerOK, Identities
  <2> QED
    BY <1>1, <2>1
<1>5. Order(t)
  <2>1. \A q \in Applied(t) : /\ q.before # None /\ q.kind \in {"corrects", "cancels"}
                              /\ q.kind = "corrects" => q.after.action # None
    BY <1>2, <1>3 DEF LedgerOK, Order
  <2>2. \A q, r \in Applied(t) : q.before = r.before => q = r
    BY <1>2, <1>3 DEF LedgerOK, Order
  <2>3. \A q, r \in Applied(t) :
          q.kind = "corrects" /\ r.before = q.after => Moment(t, q.id) < Moment(t, r.id)
    BY <1>1, <1>2, <1>3, <1>4 DEF LedgerOK, Order
  <2> QED
    BY <2>1, <2>2, <2>3 DEF Order
<1> QED
  BY <1>1, <1>3, <1>5 DEF LedgerOK, t

\* Undo, when no later change stands on it; anything else leaves in force what is.
LEMMA OtherDecisionKeeps ==
  ASSUME NEW s, LedgerOK(s), NEW p, NEW decision, Deciding(s, p, decision), decision # "apply"
  PROVE  /\ LedgerOK(Decide(s, p, decision))
         /\ Applied(Decide(s, p, decision)) = Applied(s) \ {p}
         /\ p \in Applied(s) => \A q \in Applied(s) : q.before # p.after
<1> DEFINE t == Decide(s, p, decision)
<1>1. /\ Identities(t) /\ Links(t) /\ Proposals(t) = Proposals(s) /\ p \in Proposals(s)
      /\ LastDecision(t, p.id) = decision
      /\ \A q \in Proposals(s) \ {p} :
           LastDecision(t, q.id) = LastDecision(s, q.id) /\ Moment(t, q.id) = Moment(s, q.id)
  BY DecideRecords DEF Deciding
<1> HIDE DEF t
<1>2. Applied(t) = Applied(s) \ {p}
  BY <1>1 DEF Applied
<1>3. Order(t)
  <2>1. \A q \in Applied(t) : q \in Applied(s) /\ Moment(t, q.id) = Moment(s, q.id)
    BY <1>1, <1>2 DEF Applied
  <2> QED
    BY <2>1 DEF LedgerOK, Order
<1>4. p \in Applied(s) => \A q \in Applied(s) : q.before # p.after
  <2> SUFFICES ASSUME p \in Applied(s), NEW q \in Applied(s) PROVE q.before # p.after
    OBVIOUS
  <2>1. Status(s, p) = "resolved"
    BY AppliedIs, <1>1
  <2>2. ~Dependent(s, p)
    BY <2>1 DEF Deciding, CanDecide, Decisions
  <2>3. p.before # p.after /\ q.before # None
    BY <1>1 DEF LedgerOK, Order, Links, Linked
  <2> QED
    BY <2>2, <2>3 DEF Dependent
<1> QED
  BY <1>1, <1>2, <1>3, <1>4 DEF LedgerOK, t

-----------------------------------------------------------------------------
(* The ledger in use.                                                        *)

\* Suggestions are proper proposals.
LEMMA SuggestionType ==
  ASSUME NEW s, LedgerOK(s), NEW d \in Documents(s)
  PROVE  Suggestions(s, d) \subseteq Proposal
<1> DEFINE after(a) == RefTo(d, a)
           about(a) == [before |-> None, after |-> after(a), scope |-> d.scope,
                        subject |-> a.subject]
           targets(a) == {ref \in TargetReferences(s, about(a)) : ref.source # d.source}
           before(a) == IF Cardinality(targets(a)) = 1 THEN CHOOSE ref \in targets(a) : TRUE
                                                       ELSE None
           link(a) == [id |-> [about(a) EXCEPT !.before = before(a)], kind |-> "corrects",
                       before |-> before(a), after |-> after(a), scope |-> d.scope,
                       subject |-> a.subject, candidates |-> targets(a)]
<1>1. d \in Document /\ References(s) \subseteq Reference
  BY LedgerParts DEF LedgerOK, Identities
<1>2. ASSUME NEW a \in d.actions, targets(a) # {}
      PROVE  link(a) \in Proposal
  <2>1. d.scope \in Scopes /\ a \in Action /\ after(a) \in Reference
    BY <1>1, <1>2, ActionOfReference DEF Document, LedgerOK
  <2>2. a.subject # None
    <3>1. about(a).subject = a.subject
      OBVIOUS
    <3> QED
      BY <1>2, <3>1 DEF TargetReferences
  <2>3. a.subject \in Subjects
    BY <2>1, <2>2 DEF Action
  <2>4. targets(a) \subseteq Reference
    BY <1>1 DEF TargetReferences
  <2> HIDE DEF targets, after
  <2>5. before(a) \in Reference \cup {None}
    BY <1>2, <2>4
  <2> HIDE DEF before
  <2>6. [about(a) EXCEPT !.before = before(a)] =
        [before |-> before(a), after |-> after(a), scope |-> d.scope, subject |-> a.subject]
    OBVIOUS
  <2>7. [about(a) EXCEPT !.before = before(a)] \in ChangeId
    BY <2>1, <2>3, <2>5, <2>6 DEF ChangeId
  <2>8. after(a) \in DocumentReference
    BY <2>1 DEF Reference, DocumentReference
  <2> HIDE DEF about
  <2> QED
    BY <2>1, <2>3, <2>4, <2>5, <2>7, <2>8 DEF Proposal
<1>3. Suggestions(s, d) = {link(a) : a \in {b \in d.actions : targets(b) # {}}}
  BY DEF Suggestions
<1> HIDE DEF link, targets
<1> QED
  BY <1>2, <1>3

Registering(d) ==
  /\ d \in Document /\ CanRegister(ledger, d) /\ d \notin Documents(ledger)
  /\ ledger' = Register(ledger, d)
Proposing(p) ==
  /\ p \in Proposal /\ CanPropose(ledger, p) /\ p \notin Proposals(ledger)
  /\ ledger' = Propose(ledger, p)
Noting(e) ==
  /\ e.type \notin {"document_registered", "change_proposed", "change_decided"}
  /\ CanAppend(ledger) /\ ledger' = AppendEvent(ledger, e)
DecidingNow(c, p, decision) ==
  /\ Deciding(ledger, p, decision) /\ ledger' = Decide(ledger, p, decision)
  /\ Fresh(c) /\ seen' = [seen EXCEPT ![c] = Revision(ledger')]

\* What a step may do to the ledger.
LEMMA LedgerStep ==
  ASSUME LedgerOK(ledger), scenario \in Scenarios, [Next]_vars
  PROVE  \/ UNCHANGED ledger
         \/ \E d : Registering(d)
         \/ \E p : Proposing(p)
         \/ \E c \in scenario.clients : \E p, decision : DecidingNow(c, p, decision)
         \/ \E e : Noting(e)
<1>1. scenario \in Scenario
  BY ScenarioConstants
<1>2. ASSUME NEW c \in scenario.clients, RegisterDocument(c)
      PROVE  UNCHANGED ledger \/ \E d : Registering(d)
  <2>1. PICK d \in scenario.documents : CanRegister(ledger, d) /\ ledger' = Register(ledger, d)
    BY <1>2 DEF RegisterDocument, Persist
  <2>2. d \in Document
    BY <1>1 DEF Scenario
  <2> QED
    BY <2>1, <2>2 DEF Registering, Register, RegisterAgain
<1>3. ASSUME NEW c \in scenario.clients, ProposeChange(c)
      PROVE  UNCHANGED ledger \/ \E p : Proposing(p)
  <2>1. PICK p \in scenario.proposals \cup UNION {Suggestions(ledger, d) : d \in Documents(ledger)} :
          CanPropose(ledger, p) /\ ledger' = Propose(ledger, p)
    BY <1>3 DEF ProposeChange, Persist
  <2>2. p \in Proposal
    BY <1>1, <2>1, SuggestionType DEF Scenario
  <2> QED
    BY <2>1, <2>2 DEF Proposing, Propose
<1>4. ASSUME NEW c \in scenario.clients, DecideChange(c)
      PROVE  UNCHANGED ledger \/ \E p, decision : DecidingNow(c, p, decision)
  <2>1. PICK p \in Proposals(ledger), decision \in Decisions :
          CanDecide(ledger, p, decision) /\ Persist(c, Decide(ledger, p, decision)) /\ Fresh(c)
    BY <1>4 DEF DecideChange
  <2> QED
    BY <2>1 DEF DecidingNow, Deciding, Persist, Decide
<1>5. ASSUME NEW c \in scenario.clients, DecideReview(c)
      PROVE  \E e : Noting(e)
  <2>1. PICK review, status :
          ledger' = AppendEvent(ledger,
                      [type |-> "review_decided", item |-> review[1], status |-> status])
    BY <1>5 DEF DecideReview, Persist
  <2> DEFINE e == [type |-> "review_decided", item |-> review[1], status |-> status]
  <2>2. e.type \notin {"document_registered", "change_proposed", "change_decided"}
    OBVIOUS
  <2>3. CanAppend(ledger) /\ ledger' = AppendEvent(ledger, e)
    BY <1>5, <2>1 DEF DecideReview
  <2> HIDE DEF e
  <2> QED
    BY <2>2, <2>3 DEF Noting
<1>6. ASSUME NEW c \in scenario.clients, Refresh(c)
      PROVE  UNCHANGED ledger \/ \E e : Noting(e)
  <2>1. PICK content :
          \/ UNCHANGED ledger
          \/ CanAppend(ledger) /\ ledger' =
               AppendEvent(ledger, [type |-> "projection_refreshed", fingerprint |-> content])
    BY <1>6 DEF Refresh, Persist
  <2> DEFINE e == [type |-> "projection_refreshed", fingerprint |-> content]
  <2>2. e.type \notin {"document_registered", "change_proposed", "change_decided"}
    OBVIOUS
  <2>3. UNCHANGED ledger \/ (CanAppend(ledger) /\ ledger' = AppendEvent(ledger, e))
    BY <2>1
  <2> HIDE DEF e
  <2> QED
    BY <2>2, <2>3 DEF Noting
<1>7. ASSUME NEW c \in scenario.clients, Look(c) PROVE UNCHANGED ledger
  BY <1>7 DEF Look
<1>8. CASE Receive \/ UNCHANGED vars
  BY <1>8 DEF Receive, vars
<1> QED
  BY <1>2, <1>3, <1>4, <1>5, <1>6, <1>7, <1>8 DEF Next

\* A step leaves the changes in force, or puts one in force, or takes one back.
LEMMA StepChanges ==
  ASSUME LedgerOK(ledger), scenario \in Scenarios, [Next]_vars
  PROVE  /\ LedgerOK(ledger')
         /\ References(ledger) \subseteq References(ledger')
         /\ UNCHANGED ledger \/ Revision(ledger') = Revision(ledger) + 1
         /\ \/ Applied(ledger') = Applied(ledger)
            \/ \E p \in Applied(ledger) :
                 /\ Applied(ledger') = Applied(ledger) \ {p}
                 /\ References(ledger') = References(ledger)
                 /\ \A q \in Applied(ledger) : q.before # p.after
            \/ \E c \in scenario.clients : \E p :
                 /\ DecidingNow(c, p, "apply")
                 /\ References(ledger') = References(ledger)
                 /\ Applied(ledger') = Applied(ledger) \cup {p}
<1>1. ASSUME NEW d, Registering(d)
      PROVE  /\ LedgerOK(ledger') /\ References(ledger) \subseteq References(ledger')
             /\ Revision(ledger') = Revision(ledger) + 1 /\ Applied(ledger') = Applied(ledger)
  BY <1>1, RegisterKeeps DEF Registering
<1>2. ASSUME NEW p, Proposing(p)
      PROVE  /\ LedgerOK(ledger') /\ References(ledger) \subseteq References(ledger')
             /\ Revision(ledger') = Revision(ledger) + 1 /\ Applied(ledger') = Applied(ledger)
  BY <1>2, ProposeKeeps DEF Proposing
<1>3. ASSUME NEW e, Noting(e)
      PROVE  /\ LedgerOK(ledger') /\ References(ledger) \subseteq References(ledger')
             /\ Revision(ledger') = Revision(ledger) + 1 /\ Applied(ledger') = Applied(ledger)
  <2>1. Appending(ledger, ledger', e)
    BY <1>3, AppendEventAppends DEF Noting, LedgerOK, Identities
  <2> QED
    BY <1>3, <2>1, NoteKeeps, SameDocuments DEF Noting, Appending
<1>4. ASSUME NEW c \in scenario.clients, NEW p, NEW decision, DecidingNow(c, p, decision)
      PROVE  /\ LedgerOK(ledger') /\ References(ledger') = References(ledger)
             /\ Revision(ledger') = Revision(ledger) + 1
             /\ \/ Applied(ledger') = Applied(ledger)
                \/ /\ p \in Applied(ledger) /\ Applied(ledger') = Applied(ledger) \ {p}
                   /\ \A q \in Applied(ledger) : q.before # p.after
                \/ decision = "apply" /\ Applied(ledger') = Applied(ledger) \cup {p}
  <2>1. Deciding(ledger, p, decision) /\ ledger' = Decide(ledger, p, decision)
    BY <1>4 DEF DecidingNow
  <2>2. /\ References(ledger') = References(ledger)
        /\ Revision(ledger') = Revision(ledger) + 1
    BY <2>1, DecideRecords
  <2>3. CASE decision = "apply"
    BY <2>1, <2>2, <2>3, ApplyKeeps
  <2>4. CASE decision # "apply"
    <3>1. /\ LedgerOK(ledger') /\ Applied(ledger') = Applied(ledger) \ {p}
          /\ p \in Applied(ledger) => \A q \in Applied(ledger) : q.before # p.after
      BY <2>1, <2>4, OtherDecisionKeeps
    <3> QED
      BY <2>2, <3>1
  <2> QED
    BY <2>3, <2>4
<1>5. CASE UNCHANGED ledger
  BY <1>5
<1> QED
  BY <1>1, <1>2, <1>3, <1>4, <1>5, LedgerStep

-----------------------------------------------------------------------------
(* What always holds.                                                        *)

\* A companion of the present revision is the one refreshed last.
SentOK ==
  \A m \in sent : /\ m = [revision |-> m.revision, content |-> m.content]
                  /\ m.revision \in 0 .. Revision(ledger)
                  /\ m.revision = Revision(ledger) => Refreshed(ledger, m.content)

Inv ==
  /\ scenario \in Scenarios /\ LedgerOK(ledger)
  /\ seen \in [Clients -> Nat] /\ \A c \in Clients : seen[c] <= Revision(ledger)
  /\ accepted \in sent \cup {None}
  /\ SentOK /\ NoCollision

LEMMA SeenStep ==
  ASSUME scenario \in Scenarios, [Next]_vars
  PROVE  /\ UNCHANGED scenario
         /\ \/ UNCHANGED seen
            \/ \E c \in Clients : seen' = [seen EXCEPT ![c] = Revision(ledger')]
         /\ UNCHANGED sent \/ \E c \in scenario.clients : Refresh(c)
         /\ UNCHANGED accepted \/ (accepted' \in sent /\ UNCHANGED sent)
<1>1. scenario.clients \subseteq Clients
  BY ScenarioConstants DEF Scenario
<1>2. ASSUME NEW c \in scenario.clients,
             \/ RegisterDocument(c) \/ ProposeChange(c) \/ DecideChange(c) \/ DecideReview(c)
      PROVE  /\ UNCHANGED <<scenario, sent, accepted>>
             /\ seen' = [seen EXCEPT ![c] = Revision(ledger')]
  BY <1>2 DEF RegisterDocument, ProposeChange, DecideChange, DecideReview, Persist
<1>3. ASSUME NEW c \in scenario.clients, Refresh(c)
      PROVE  /\ UNCHANGED <<scenario, accepted>>
             /\ seen' = [seen EXCEPT ![c] = Revision(ledger')]
  BY <1>3 DEF Refresh, Persist
<1>4. ASSUME NEW c \in scenario.clients, Look(c)
      PROVE  /\ UNCHANGED <<scenario, sent, accepted>>
             /\ seen' = [seen EXCEPT ![c] = Revision(ledger')]
  BY <1>4 DEF Look
<1>5. CASE Receive \/ UNCHANGED vars
  BY <1>5 DEF Receive, vars
<1> QED
  BY <1>1, <1>2, <1>3, <1>4, <1>5 DEF Next

\* What was refreshed now is what is refreshed.
LEMMA RefreshedNow ==
  ASSUME NEW s, IsLedger(s), NEW content,
         NEW t, t = AppendEvent(s, [type |-> "projection_refreshed", fingerprint |-> content])
  PROVE  Refreshed(t, content) /\ Revision(t) = Revision(s) + 1
<1> DEFINE e == [type |-> "projection_refreshed", fingerprint |-> content]
           k == "projection_refreshed"
<1>1. Appending(s, t, e)
  BY AppendEventAppends
<1>2. e.type = k /\ e.fingerprint = content
  OBVIOUS
<1> HIDE DEF e
<1>3. /\ Events(t, k) = Events(s, k) \cup {Revision(s) + 1}
      /\ Events(s, k) \subseteq 1 .. Revision(s) /\ Revision(s) \in Nat
  BY <1>1, <1>2, EventsGrow DEF Appending
<1>4. LatestOf(Events(t, k)) = Revision(s) + 1
  BY <1>3, LatestNew
<1>5. t.events[Revision(s) + 1] = e /\ Revision(t) = Revision(s) + 1
  BY <1>1 DEF Appending
<1> QED
  BY <1>2, <1>3, <1>4, <1>5 DEF Refreshed

LEMMA RefreshSends ==
  ASSUME Inv, LedgerOK(ledger'), NEW c \in scenario.clients, Refresh(c)
  PROVE  SentOK' /\ NoCollision'
<1>1. PICK facts \in scenario.facts :
        LET content == Project(ledger, facts)
            next == IF Refreshed(ledger, content) THEN ledger
                    ELSE AppendEvent(ledger, [type |-> "projection_refreshed",
                                              fingerprint |-> content])
        IN /\ ledger' = next
           /\ sent' = sent \cup {[revision |-> CompanionRevision(ledger, next), content |-> content]}
  BY DEF Refresh, Persist
<1> DEFINE content == Project(ledger, facts)
           new == [revision |-> Revision(ledger'), content |-> content]
<1>2. sent' = sent \cup {new}
  BY <1>1 DEF CompanionRevision
<1>3. /\ new.revision = Revision(ledger') /\ new.content = content
      /\ new = [revision |-> new.revision, content |-> new.content]
  OBVIOUS
<1>4. IsLedger(ledger) /\ IsLedger(ledger') /\ Revision(ledger) \in Nat /\ Revision(ledger') \in Nat
  BY LedgerParts DEF Inv, LedgerOK, Identities
<1>5. \/ UNCHANGED ledger /\ Refreshed(ledger, content)
      \/ ledger' = AppendEvent(ledger, [type |-> "projection_refreshed", fingerprint |-> content])
  BY <1>1
<1> HIDE DEF new, content
<1>6. CASE UNCHANGED ledger /\ Refreshed(ledger, content)
  <2>1. \A m \in sent : m.revision = Revision(ledger) => m.content = content
    BY <1>6 DEF Inv, SentOK, Refreshed
  <2>2. \A m \in sent : m.revision = new.revision => m = new
    <3> TAKE m \in sent
    <3>1. m = [revision |-> m.revision, content |-> m.content]
      BY DEF Inv, SentOK
    <3> QED
      BY <1>3, <1>6, <2>1, <3>1 DEF new
  <2> QED
    BY <1>2, <1>3, <1>4, <1>6, <2>2 DEF Inv, SentOK, NoCollision
<1>7. CASE ledger' = AppendEvent(ledger, [type |-> "projection_refreshed", fingerprint |-> content])
  <2>1. Refreshed(ledger', content) /\ Revision(ledger') = Revision(ledger) + 1
    BY <1>4, <1>7, RefreshedNow
  <2>2. \A m \in sent : m.revision \in 0 .. Revision(ledger') /\ m.revision < Revision(ledger')
    BY <1>4, <2>1 DEF Inv, SentOK
  <2>3. SentOK'
    <3>1. ASSUME NEW m \in sent
          PROVE  /\ m = [revision |-> m.revision, content |-> m.content]
                 /\ m.revision \in 0 .. Revision(ledger')
                 /\ m.revision # Revision(ledger')
      BY <1>4, <2>2 DEF Inv, SentOK
    <3>2. new.revision \in 0 .. Revision(ledger') /\ Refreshed(ledger', new.content)
      BY <1>3, <1>4, <2>1
    <3> QED
      BY <1>2, <1>3, <3>1, <3>2 DEF SentOK
  <2>4. NoCollision'
    BY <1>2, <1>3, <1>4, <2>2 DEF Inv, NoCollision
  <2> QED
    BY <2>3, <2>4
<1> QED
  BY <1>5, <1>6, <1>7

LEMMA InitInv == Init => Inv
<1> SUFFICES ASSUME Init PROVE Inv
  OBVIOUS
<1>1. LedgerOK(ledger) /\ Revision(ledger) = 0
  BY EmptyLedgerOK DEF Init, EmptyLedger, Revision
<1> QED
  BY <1>1 DEF Init, Inv, SentOK, NoCollision

LEMMA StepInv == Inv /\ [Next]_vars => Inv'
<1> SUFFICES ASSUME Inv, [Next]_vars PROVE Inv'
  OBVIOUS
<1>1. /\ LedgerOK(ledger') /\ IsLedger(ledger)
      /\ UNCHANGED ledger \/ Revision(ledger') = Revision(ledger) + 1
  BY StepChanges DEF Inv, LedgerOK, Identities
<1>2. Revision(ledger) \in Nat /\ Revision(ledger') \in Nat
  BY <1>1, LedgerParts DEF LedgerOK, Identities
<1>3. /\ UNCHANGED scenario
      /\ \/ UNCHANGED seen
         \/ \E c \in Clients : seen' = [seen EXCEPT ![c] = Revision(ledger')]
      /\ UNCHANGED sent \/ \E c \in scenario.clients : Refresh(c)
      /\ UNCHANGED accepted \/ (accepted' \in sent /\ UNCHANGED sent)
  BY SeenStep DEF Inv
<1>4. seen' \in [Clients -> Nat] /\ \A c \in Clients : seen'[c] <= Revision(ledger')
  BY <1>1, <1>2, <1>3 DEF Inv
<1>5. sent \subseteq sent'
  BY <1>3 DEF Refresh
<1>6. accepted' \in sent' \cup {None}
  BY <1>3, <1>5 DEF Inv
<1>7. CASE UNCHANGED sent
  <2>1. NoCollision'
    BY <1>7 DEF Inv, NoCollision
  <2>2. SentOK'
    BY <1>1, <1>2, <1>7 DEF Inv, SentOK
  <2> QED
    BY <1>1, <1>3, <1>4, <1>6, <2>1, <2>2 DEF Inv
<1>8. ASSUME NEW c \in scenario.clients, Refresh(c) PROVE SentOK' /\ NoCollision'
  BY <1>1, <1>8, RefreshSends
<1> QED
  BY <1>1, <1>3, <1>4, <1>6, <1>7, <1>8 DEF Inv

LEMMA Invariance == Spec => []Inv
  BY InitInv, StepInv, PTL DEF Spec

LEMMA HeldReference ==
  ASSUME NEW s, NEW p \in OpenChanges(s), NEW ref \in HeldBy(s, p), ref \in Reference
  PROVE  ref \in Held(s)
  BY DEF Held

\* Identities, limits and types hold, and no operation of any client breaks them.
THEOREM LedgerTypes == Spec => []TypeOK
<1>1. Inv => TypeOK
  <2> SUFFICES ASSUME Inv PROVE TypeOK
    OBVIOUS
  <2>1. Documents(ledger) \subseteq Document /\ Revision(ledger) \in Nat
    BY LedgerParts DEF Inv, LedgerOK, Identities
  <2>2. \A c \in Clients : seen[c] \in 0 .. Revision(ledger)
    BY <2>1 DEF Inv
  <2> QED
    BY <2>1, <2>2 DEF TypeOK, Inv, LedgerOK, Identities
<1> QED
  BY <1>1, Invariance, PTL

\* Devices never see two companions of one revision: the companion of the present
\* revision is the one refreshed last, and another content adds an event first.
THEOREM CompanionsNeverCollide == Spec => []NoCollision
<1>1. Inv => NoCollision
  BY DEF Inv
<1> QED
  BY <1>1, Invariance, PTL

\* While a change of a subject is open, no action about it is ready: such an
\* action is the replacement itself, or active and hence a target of the change.
THEOREM SubjectsAreHeld == Spec => []SubjectIsHeld
<1>1. Inv => SubjectIsHeld
  <2> SUFFICES ASSUME Inv, NEW p \in OpenChanges(ledger), NEW facts \in scenario.facts,
                      NEW d \in Documents(ledger), NEW a \in d.actions,
                      p.subject # None, a.subject = p.subject, d.scope = p.scope,
                      Ready(ledger, facts, RefTo(d, a))
               PROVE  FALSE
    BY DEF SubjectIsHeld
  <2> DEFINE ref == RefTo(d, a)
  <2>1. Identities(ledger)
    BY DEF Inv, LedgerOK
  <2>2. /\ ref \in References(ledger) /\ ref \in Reference
        /\ FindDocument(ledger, ref) = {d} /\ ActionAt(ledger, ref) = a
    BY <2>1, ActionOfReference
  <2> HIDE DEF ref
  <2>3. WorkflowState(ledger, ref) = "active" /\ ref \notin Held(ledger)
    BY DEF Ready, Evaluation, ref
  <2>4. ref \in HeldBy(ledger, p)
    BY <2>2, <2>3 DEF HeldBy, Targets, TargetReferences
  <2> QED
    BY <2>2, <2>3, <2>4, HeldReference
<1> QED
  BY <1>1, Invariance, PTL

\* Chains of applied corrections end: whatever replaces what a correction retired
\* was retired later, so among retired actions the one retired last stands.
THEOREM ChainsEnd == Spec => []CorrectionsEnd
<1>1. Inv => CorrectionsEnd
  <2> SUFFICES ASSUME Inv, NEW refs \in (SUBSET {p.before : p \in Applied(ledger)}) \ {{}}
               PROVE  \E ref \in refs : \A p \in Applied(ledger) :
                        p.kind = "corrects" /\ p.before = ref => p.after \notin refs
    BY DEF CorrectionsEnd
  <2> DEFINE by == {p \in Applied(ledger) : p.before \in refs}
             moments == {Moment(ledger, p.id) : p \in by}
  <2>1. IsLedger(ledger) /\ Order(ledger)
    BY DEF Inv, LedgerOK, Identities
  <2>2. moments \subseteq 1 .. Revision(ledger) /\ Revision(ledger) \in Nat /\ moments # {}
    <3>1. \E p \in by : TRUE
      <4>0. refs # {} /\ refs \subseteq {p.before : p \in Applied(ledger)}
        OBVIOUS
      <4> HIDE DEF by, moments
      <4>1. PICK ref \in refs : TRUE
        BY <4>0
      <4>2. PICK p \in Applied(ledger) : p.before = ref
        BY <4>0, <4>1
      <4> QED
        BY <4>1, <4>2 DEF by
    <3>2. \A p \in by : Moment(ledger, p.id) \in 1 .. Revision(ledger)
      BY <2>1, AppliedMoment
    <3> QED
      BY <2>1, <3>1, <3>2, LedgerParts
  <2>3. PICK last \in moments : \A j \in moments : j <= last
    BY <2>2, Maximum
  <2>4. PICK p \in by : Moment(ledger, p.id) = last
    OBVIOUS
  <2>5. ASSUME NEW q \in Applied(ledger), q.kind = "corrects", q.before = p.before,
               q.after \in refs
        PROVE  FALSE
    <3>1. q = p
      BY <2>1, <2>4, <2>5 DEF Order
    <3>2. PICK r \in by : r.before = q.after
      BY <2>5
    <3>3. Moment(ledger, p.id) < Moment(ledger, r.id)
      BY <2>1, <2>4, <2>5, <3>1, <3>2 DEF Order
    <3>4. Moment(ledger, r.id) <= last
      BY <2>3, <3>2
    <3>5. Moment(ledger, r.id) \in Nat /\ last \in Nat
      BY <2>2, <2>3, <3>2
    <3> QED
      BY <2>4, <3>3, <3>4, <3>5
  <2> QED
    BY <2>4, <2>5
<1> QED
  BY <1>1, Invariance, PTL

\* Every ledger can be refreshed: the projection never shows an open change's
\* actions ready, and a retired action has one change that says how.
THEOREM EveryLedgerRefreshes == Spec => []CanRefresh
<1>1. Inv => CanRefresh
  <2> SUFFICES ASSUME Inv, NEW facts \in scenario.facts
               PROVE  Valid(Project(ledger, facts))
    BY DEF CanRefresh
  <2> DEFINE s == ledger
             cards == Cards(s)
             content == Project(s, facts)
  <2>1. LedgerOK(s) /\ IsLedger(s) /\ Order(s) /\ References(s) \subseteq Reference
    BY LedgerParts DEF Inv, LedgerOK, Identities
  <2>2. /\ content.changes = cards
        /\ DOMAIN content.evaluations = References(s)
        /\ \A ref \in References(s) : content.evaluations[ref] = Evaluation(s, facts, ref)
    BY DEF Project
  <2> HIDE DEF content, cards, s
  <2>3. ASSUME NEW p \in Proposals(s)
        PROVE  LET c == Card(s, p)
               IN /\ c.change = p.id /\ c.kind = p.kind /\ c.before = p.before
                  /\ c.after = p.after /\ c.status = Status(s, p)
                  /\ c.resolution = IF Status(s, p) = "resolved" THEN "exact" ELSE Resolution(s, p)
    BY DEF Card
  <2>4. \A c \in cards : \E p \in Proposals(s) : c = Card(s, p)
    BY DEF cards, Cards
  <2>5. ASSUME NEW p \in Proposals(s), Resolution(s, p) = "exact"
        PROVE  /\ p.before # None /\ p.kind # "possible_change"
               /\ p.kind = "corrects" => p.after.action # None
    <3>1. Bound(s, p)
      BY <2>5 DEF Resolution
    <3>2. p.kind = "corrects" => p.after.action # None
      <4> SUFFICES ASSUME p.kind = "corrects" PROVE p.after.action # None
        OBVIOUS
      <4>1. PICK b \in FindAction(s, p.after) : TRUE
        BY <3>1 DEF Bound
      <4>2. b.id = p.after.action /\ b \in Action
        BY <2>1, <4>1, LedgerParts DEF FindAction, FindDocument, Document
      <4> QED
        BY <4>2, LedgerConstants DEF Action
    <3> QED
      BY <3>1, <3>2 DEF Bound
  <2>6. ASSUME NEW p \in Proposals(s), Status(s, p) = "resolved"
        PROVE  /\ p \in Applied(s) /\ p.before # None /\ p.kind # "possible_change"
               /\ p.kind = "corrects" => p.after.action # None
    <3>1. p \in Applied(s)
      BY <2>6, AppliedIs
    <3> QED
      BY <2>1, <3>1 DEF Order
  <2>7. ValidChanges(cards)
    <3>1. \A c, d \in cards : c.change = d.change => c = d
      BY <2>1, <2>3, <2>4 DEF LedgerOK, Identities
    <3>2. \A c \in cards :
            /\ c.resolution = "exact" => /\ c.before # None /\ c.kind # "possible_change"
                                         /\ c.kind = "corrects" => c.after.action # None
            /\ c.status = "resolved" => c.before # None /\ c.kind # "possible_change"
      BY <2>3, <2>4, <2>5, <2>6
    <3>3. \A c, d \in cards :
            c.status = "resolved" /\ d.status = "resolved" /\ c.before = d.before => c = d
      BY <2>1, <2>3, <2>4, <2>6 DEF Order
    <3> QED
      BY <3>1, <3>2, <3>3 DEF ValidChanges
  <2>8. ASSUME NEW ref \in References(s) PROVE ValidEvaluation(content, ref)
    <3> DEFINE e == Evaluation(s, facts, ref)
    <3>1. content.evaluations[ref] = e
      BY <2>2
    <3>2. /\ e.ready => /\ e.workflow = "active" /\ e.trust = "ready" /\ e.state = "applies"
                        /\ ref \notin Held(s)
          /\ e.calendar => e.ready
          /\ ref \in Held(s) => e.state # "applies" /\ ~e.ready /\ ~e.calendar
          /\ e.workflow = WorkflowState(s, ref)
      BY DEF Evaluation
    <3> HIDE DEF e
    <3>3. ASSUME NEW c \in cards, c.status = "open", ref \in {c.before, c.after}
          PROVE  ref \in Held(s)
      <4>1. PICK p \in Proposals(s) : c = Card(s, p)
        BY <2>4
      <4>2. p \in OpenChanges(s) /\ ref \in HeldBy(s, p)
        BY <2>3, <3>3, <4>1 DEF OpenChanges, HeldBy
      <4> QED
        BY <2>1, <4>2, HeldReference
    <3>4. ASSUME NEW c \in cards, c.status = "resolved", ref = c.before
          PROVE  e.workflow = (IF c.kind = "cancels" THEN "cancelled" ELSE "superseded")
      <4>1. PICK p \in Proposals(s) : c = Card(s, p)
        BY <2>4
      <4>2. p \in Applied(s) /\ p.before = ref /\ c.kind = p.kind
        BY <2>3, <2>6, <3>4, <4>1
      <4> QED
        BY <2>1, <3>2, <4>2, StateOf
    <3> QED
      BY <2>2, <3>1, <3>2, <3>3, <3>4 DEF ValidEvaluation
  <2> QED
    BY <2>2, <2>7, <2>8 DEF Valid, content, s
<1> QED
  BY <1>1, Invariance, PTL

-----------------------------------------------------------------------------
(* What a step may do.                                                       *)

\* The action of a change that is applied was held while the change was open.
LEMMA AppliedWasHeld ==
  ASSUME LedgerOK(ledger), NEW p, Deciding(ledger, p, "apply"), NEW facts
  PROVE  ~Ready(ledger, facts, p.before)
<1>1. /\ p \in Proposals(ledger) /\ Status(ledger, p) = "open"
      /\ p.before \in Reference
  BY ApplyNeeds, LedgerParts DEF Deciding, LedgerOK, Identities
<1>2. p \in OpenChanges(ledger) /\ p.before \in HeldBy(ledger, p)
  BY <1>1 DEF OpenChanges, HeldBy
<1> QED
  BY <1>1, <1>2, HeldReference DEF Ready, Evaluation

\* An action that was ready for use is not retired by the next decision: only
\* applying an open change retires one, and an open change holds its action.
THEOREM ReadyIsNotRetired == Spec => ReadyIsHeldFirst
<1>1. ASSUME Inv, [Next]_vars, NEW ref \in References(ledger), NEW facts \in scenario.facts,
             Ready(ledger, facts, ref)
      PROVE  WorkflowState(ledger', ref) = "active"
  <2>1. /\ LedgerOK(ledger) /\ LedgerOK(ledger') /\ Order(ledger) /\ Order(ledger')
        /\ IsLedger(ledger) /\ IsLedger(ledger')
    BY <1>1, StepChanges DEF Inv, LedgerOK, Identities
  <2>2. \A p \in Applied(ledger) : p.before # ref
    <3>1. WorkflowState(ledger, ref) = "active"
      BY <1>1 DEF Ready, Evaluation
    <3> QED
      BY <2>1, <3>1, StateOf
  <2>3. \A p \in Applied(ledger') : p.before # ref
    <3>1. ASSUME NEW c, NEW p, DecidingNow(c, p, "apply") PROVE p.before # ref
      BY <1>1, <2>1, <3>1, AppliedWasHeld DEF DecidingNow
    <3> QED
      BY <1>1, <2>2, <3>1, StepChanges DEF Inv
  <2> QED
    BY <2>1, <2>3, StateOf
<1>2. Inv /\ [Next]_vars =>
        [\A ref \in References(ledger) :
           (\E facts \in scenario.facts : Ready(ledger, facts, ref)) =>
             WorkflowState(ledger', ref) = "active"]_vars
  BY <1>1
<1> QED
  BY <1>2, Invariance, PTL DEF Spec, ReadyIsHeldFirst

\* A whole history is its own prefix.
LEMMA WholeHistory ==
  ASSUME NEW s, IsLedger(s)
  PROVE  [s EXCEPT !.events = SubSeq(@, 1, Revision(s))] = s
<1>1. PICK S : s \in [documents : Seq(Document), events : Seq(S)]
  BY DEF IsLedger
<1> DEFINE q == s.events
<1>2. q \in Seq(S)
  BY <1>1
<1> HIDE DEF q
<1>3. SubSeq(q, 1, Len(q)) = q
  BY <1>2
<1> QED
  BY <1>1, <1>3 DEF q, Revision

\* A change is applied only as its card was shown: the client that applies it has
\* seen the present revision, and a revision determines the whole history.
THEOREM ChangesAreAppliedAsShown == Spec => AppliedAsShown
<1>1. ASSUME Inv, [Next]_vars, NEW p \in Applied(ledger') \ Applied(ledger)
      PROVE  \E c \in Clients :
               LET shown == [ledger EXCEPT !.events = SubSeq(@, 1, seen[c])]
               IN /\ seen'[c] = Revision(ledger')
                  /\ p \in Proposals(shown) /\ Card(shown, p) = Card(ledger, p)
                  /\ Applied(shown) = Applied(ledger)
  <2>1. PICK c \in scenario.clients : DecidingNow(c, p, "apply")
    BY <1>1, StepChanges DEF Inv
  <2>2. c \in Clients
    BY <1>1, ScenarioConstants DEF Inv, Scenario
  <2>3. seen'[c] = Revision(ledger') /\ seen[c] = Revision(ledger)
    BY <1>1, <2>1, <2>2 DEF DecidingNow, Fresh, Inv
  <2>4. [ledger EXCEPT !.events = SubSeq(@, 1, seen[c])] = ledger
    BY <1>1, <2>3, WholeHistory DEF Inv, LedgerOK, Identities
  <2>5. p \in Proposals(ledger)
    BY <2>1 DEF DecidingNow, Deciding
  <2> QED
    BY <2>2, <2>3, <2>4, <2>5
<1>2. Inv /\ [Next]_vars =>
        [\A p \in Applied(ledger') \ Applied(ledger) :
           \E c \in Clients :
             LET shown == [ledger EXCEPT !.events = SubSeq(@, 1, seen[c])]
             IN /\ seen'[c] = Revision(ledger')
                /\ p \in Proposals(shown) /\ Card(shown, p) = Card(ledger, p)
                /\ Applied(shown) = Applied(ledger)]_vars
  BY <1>1
<1> QED
  BY <1>2, Invariance, PTL DEF Spec, AppliedAsShown

-----------------------------------------------------------------------------
(* The history implements a graph of revisions in force.                     *)

LEMMA InitGraph == Init => Graph!Init
<1> SUFFICES ASSUME Init PROVE Graph!Init
  OBVIOUS
<1>1. ledger = EmptyLedger
  BY DEF Init
<1>2. References(EmptyLedger) = {}
  BY DEF References, Documents, EmptyLedger
<1> QED
  BY <1>1, <1>2, EmptyLedgerOK DEF Graph!Init

LEMMA StepGraph ==
  Inv /\ [Next]_vars => [Graph!Next]_<<References(ledger), Applied(ledger)>>
<1> SUFFICES ASSUME Inv, [Next]_vars
             PROVE  [Graph!Next]_<<References(ledger), Applied(ledger)>>
  OBVIOUS
<1>1. References(ledger) \subseteq References(ledger')
  BY StepChanges DEF Inv
<1>2. CASE Applied(ledger') = Applied(ledger)
  BY <1>1, <1>2 DEF Graph!Next, Graph!Learn
<1>3. ASSUME NEW p \in Applied(ledger), Applied(ledger') = Applied(ledger) \ {p},
             References(ledger') = References(ledger),
             \A q \in Applied(ledger) : q.before # p.after
      PROVE  Graph!Next
  <2>1. Graph!Withdraw(p)
    BY <1>3 DEF Graph!Withdraw, Graph!Retired
  <2> QED
    BY <1>3, <2>1 DEF Graph!Next
<1>4. ASSUME NEW c, NEW p, DecidingNow(c, p, "apply"), References(ledger') = References(ledger),
             Applied(ledger') = Applied(ledger) \cup {p}
      PROVE  Graph!Next
  <2>1. /\ p \notin Applied(ledger)
        /\ p.before \in References(ledger) /\ p.before # p.after
        /\ p.kind \in {"corrects", "cancels"}
        /\ \A q \in Applied(ledger) : q.before # p.before
        /\ p.kind = "corrects" =>
             p.after \in References(ledger) /\ \A q \in Applied(ledger) : q.before # p.after
    BY <1>4, ApplyNeeds DEF Inv, DecidingNow
  <2>2. Graph!Accept(p)
    BY <1>4, <2>1 DEF Graph!Accept, Graph!Retired
  <2> QED
    BY <1>4, <2>1, <2>2 DEF Graph!Next
<1> QED
  BY <1>2, <1>3, <1>4, StepChanges DEF Inv

\* The history of events implements a graph of revisions in force: a link is put in
\* force between actions nothing has retired, and withdrawn only as the last one.
THEOREM HistoryIsAGraph == Spec => ImplementsRevisions
  BY InitGraph, StepGraph, Invariance, PTL DEF Spec, ImplementsRevisions, Graph!Spec

-----------------------------------------------------------------------------
(* The replay of a history.  Its states are a run of ReplayEvent from the     *)
(* empty ledger; the run of a longer history begins with that of a shorter.   *)

ReplayAt(s, run, i) == IF i = 0 THEN EmptyLedger ELSE ReplayEvent(s, run[i - 1], s.events[i])
IsRun(s, run) == run = [i \in 0 .. Revision(s) |-> ReplayAt(s, run, i)]

\* There is one run at most.
LEMMA OneRun ==
  ASSUME NEW s, Revision(s) \in Nat, NEW run, NEW other, IsRun(s, run), IsRun(s, other)
  PROVE  run = other
<1> DEFINE Bad == {i \in 0 .. Revision(s) : run[i] # other[i]}
<1>1. Bad = {}
  <2> SUFFICES ASSUME Bad # {} PROVE FALSE
    OBVIOUS
  <2>1. PICK i \in Bad : \A j \in Bad : ~(<<j, i>> \in Less)
    <3>1. Bad \subseteq Nat
      OBVIOUS
    <3> HIDE DEF Bad
    <3> QED
      BY <3>1, LessIsWellFounded, WFMin
  <2>2. i \in 0 .. Revision(s) /\ run[i] = ReplayAt(s, run, i) /\ other[i] = ReplayAt(s, other, i)
    BY DEF IsRun
  <2>3. i # 0
    BY <2>2 DEF ReplayAt
  <2>4. i - 1 \in 0 .. Revision(s) /\ i - 1 \notin Bad
    <3>1. i - 1 \in 0 .. Revision(s) /\ i - 1 \in Nat /\ i \in Nat /\ i - 1 < i
      BY <2>2, <2>3
    <3>2. <<i - 1, i>> \in Less
      BY <3>1 DEF Less
    <3> QED
      BY <2>1, <3>1, <3>2
  <2>5. run[i - 1] = other[i - 1]
    BY <2>4
  <2> QED
    BY <2>2, <2>3, <2>5 DEF ReplayAt
<1>2. /\ run = [i \in 0 .. Revision(s) |-> run[i]]
      /\ other = [i \in 0 .. Revision(s) |-> other[i]]
  BY DEF IsRun
<1>3. [i \in 0 .. Revision(s) |-> run[i]] = [i \in 0 .. Revision(s) |-> other[i]]
  BY <1>1
<1> QED
  BY <1>2, <1>3

LEMMA ReplayIsRun ==
  ASSUME NEW s, Revision(s) \in Nat, NEW run, IsRun(s, run)
  PROVE  Replay(s) = run[Revision(s)]
<1> DEFINE state == CHOOSE state : state = [i \in 0 .. Revision(s) |-> ReplayAt(s, state, i)]
<1>1. state = [i \in 0 .. Revision(s) |-> ReplayAt(s, state, i)]
  <2>1. \E r : r = [i \in 0 .. Revision(s) |-> ReplayAt(s, r, i)]
    BY DEF IsRun
  <2> QED
    BY <2>1
<1>2. Replay(s) = state[Revision(s)]
  BY DEF Replay, ReplayAt
<1> HIDE DEF state
<1>3. IsRun(s, state)
  BY <1>1 DEF IsRun
<1> QED
  BY <1>2, <1>3, OneRun

\* The history of a ledger leads to it, and names notices it holds.
Traced(s) ==
  /\ \E run : IsRun(s, run) /\ run[Revision(s)] = s
  /\ \A i \in Events(s, "document_registered") :
       \E d \in Documents(s) : d.source = s.events[i].source /\ d.hash = s.events[i].hash

\* t is s after the event e, which a replay accepts.
Recorded(s, t, e) ==
  /\ Revision(s) \in Nat /\ Revision(t) = Revision(s) + 1
  /\ \A i \in 1 .. Revision(s) : t.events[i] = s.events[i]
  /\ t.events[Revision(t)] = e
  /\ Documents(s) \subseteq Documents(t)
  /\ \A d, o \in Documents(t) : d.source = o.source => d = o
  /\ ReplayEvent(t, s, e) = t
  /\ e.type = "document_registered" =>
       \E d \in Documents(t) : d.source = e.source /\ d.hash = e.hash

\* What is replayed of an event does not depend on notices registered later.
LEMMA SameReplay ==
  ASSUME NEW s, NEW t, NEW e, NEW u,
         Documents(s) \subseteq Documents(t),
         \A d, o \in Documents(t) : d.source = o.source => d = o,
         e.type = "document_registered" =>
           \E d \in Documents(s) : d.source = e.source /\ d.hash = e.hash
  PROVE  ReplayEvent(t, u, e) = ReplayEvent(s, u, e)
<1>1. CASE e.type = "document_registered"
  <2>1. {d \in Documents(t) : d.source = e.source /\ d.hash = e.hash}
          = {d \in Documents(s) : d.source = e.source /\ d.hash = e.hash}
    BY <1>1
  <2> QED
    BY <1>1, <2>1 DEF ReplayEvent
<1>2. CASE e.type # "document_registered"
  BY <1>2 DEF ReplayEvent
<1> QED
  BY <1>1, <1>2

LEMMA TracedOn ==
  ASSUME NEW s, NEW t, NEW e, Traced(s), Recorded(s, t, e),
         DOMAIN s.events = 1 .. Revision(s), DOMAIN t.events = 1 .. Revision(t)
  PROVE  Traced(t)
<1>1. PICK run : IsRun(s, run) /\ run[Revision(s)] = s
  BY DEF Traced
<1> DEFINE n == Revision(s)
           more == [i \in 0 .. n + 1 |-> IF i = n + 1 THEN t ELSE run[i]]
<1>2. n \in Nat /\ Revision(t) = n + 1
  BY DEF Recorded
<1>3. \A i \in 1 .. n : s.events[i].type = "document_registered" =>
        \E d \in Documents(s) : d.source = s.events[i].source /\ d.hash = s.events[i].hash
  BY DEF Traced, Events
<1>4. \A i \in 0 .. n + 1 : more[i] = ReplayAt(t, more, i)
  <2> TAKE i \in 0 .. n + 1
  <2>1. CASE i = 0
    BY <1>1, <1>2, <2>1 DEF IsRun, ReplayAt
  <2>2. CASE i \in 1 .. n
    <3>1. more[i] = run[i] /\ more[i - 1] = run[i - 1]
      BY <1>2, <2>2
    <3>2. run[i] = ReplayEvent(s, run[i - 1], s.events[i])
      BY <1>1, <1>2, <2>2 DEF IsRun, ReplayAt
    <3>3. t.events[i] = s.events[i]
      BY <2>2 DEF Recorded
    <3>4. ReplayEvent(t, run[i - 1], s.events[i]) = ReplayEvent(s, run[i - 1], s.events[i])
      BY <1>3, <2>2, SameReplay DEF Recorded
    <3> QED
      BY <1>2, <2>2, <3>1, <3>2, <3>3, <3>4 DEF ReplayAt
  <2>3. CASE i = n + 1
    <3>1. more[i] = t /\ more[i - 1] = s /\ i # 0
      BY <1>1, <1>2, <2>3
    <3>2. ReplayEvent(t, s, t.events[n + 1]) = t
      BY <1>2 DEF Recorded
    <3> QED
      BY <2>3, <3>1, <3>2 DEF ReplayAt
  <2> QED
    BY <1>2, <2>1, <2>2, <2>3
<1>5. IsRun(t, more) /\ more[Revision(t)] = t
  <2>1. more = [i \in 0 .. Revision(t) |-> ReplayAt(t, more, i)]
    <3>1. DOMAIN more = 0 .. n + 1 /\ more = [i \in 0 .. n + 1 |-> more[i]]
      OBVIOUS
    <3> HIDE DEF more
    <3> QED
      BY <1>2, <1>4, <3>1
  <2>2. more[n + 1] = t
    BY <1>2
  <2> HIDE DEF more
  <2> QED
    BY <1>2, <2>1, <2>2 DEF IsRun
<1>6. \A i \in Events(t, "document_registered") :
        \E d \in Documents(t) : d.source = t.events[i].source /\ d.hash = t.events[i].hash
  <2> TAKE i \in Events(t, "document_registered")
  <2>1. i \in 1 .. n + 1 /\ t.events[i].type = "document_registered"
    BY <1>2 DEF Events
  <2>2. CASE i \in 1 .. n
    BY <1>3, <2>1, <2>2 DEF Recorded
  <2>3. CASE i = n + 1
    BY <1>2, <2>1, <2>3 DEF Recorded
  <2> QED
    BY <1>2, <2>1, <2>2, <2>3
<1> HIDE DEF more
<1> QED
  BY <1>5, <1>6 DEF Traced

LEMMA EmptyTraced == Traced(EmptyLedger)
<1> DEFINE run == [i \in 0 .. 0 |-> EmptyLedger]
<1>1. Revision(EmptyLedger) = 0 /\ Events(EmptyLedger, "document_registered") = {}
  BY DEF EmptyLedger, Revision, Events
<1>2. \A i \in 0 .. 0 : ReplayAt(EmptyLedger, run, i) = EmptyLedger
  BY DEF ReplayAt
<1>3. run = [i \in 0 .. 0 |-> ReplayAt(EmptyLedger, run, i)]
  BY <1>2
<1>4. run[0] = EmptyLedger
  OBVIOUS
<1> HIDE DEF run
<1>5. IsRun(EmptyLedger, run)
  BY <1>1, <1>3 DEF IsRun
<1> QED
  BY <1>1, <1>4, <1>5 DEF Traced

LEMMA TracedStep ==
  ASSUME LedgerOK(ledger), Traced(ledger), scenario \in Scenarios, [Next]_vars
  PROVE  Traced(ledger')
<1>1. LedgerOK(ledger') /\ IsLedger(ledger) /\ IsLedger(ledger')
  BY StepChanges DEF LedgerOK, Identities
<1>2. /\ Revision(ledger) \in Nat /\ DOMAIN ledger.events = 1 .. Revision(ledger)
      /\ DOMAIN ledger'.events = 1 .. Revision(ledger')
      /\ \A d, o \in Documents(ledger') : d.source = o.source => d = o
  BY <1>1, LedgerParts DEF LedgerOK, Identities
<1>3. SUFFICES ASSUME ledger' # ledger PROVE \E e : Recorded(ledger, ledger', e)
  <2>1. CASE ledger' = ledger
    BY <2>1
  <2>2. CASE ledger' # ledger
    BY <1>2, <1>3, <2>2, TracedOn
  <2> QED
    BY <2>1, <2>2
<1>4. ASSUME NEW d, Registering(d) PROVE Recorded(ledger, ledger', Registration(d))
  <2> DEFINE e == Registration(d)
             m == AppendEvent(ledger, e)
  <2>1. e.type = "document_registered" /\ e.source = d.source /\ e.hash = d.hash
    BY DEF Registration
  <2>2. Appending(ledger, m, e)
    BY <1>1, AppendEventAppends
  <2>3. ledger' = [m EXCEPT !.documents = Append(m.documents, d)]
    BY <1>4 DEF Registering, Register
  <2> HIDE DEF e, m
  <2>4. ledger'.events = m.events /\ ledger'.documents = Append(ledger.documents, d)
    <3>1. PICK S : m \in [documents : Seq(Document), events : Seq(S)]
      BY <2>2 DEF Appending, IsLedger
    <3> QED
      BY <2>2, <2>3, <3>1 DEF Appending
  <2>5. Documents(ledger') = Documents(ledger) \cup {d}
    <3>1. /\ ledger.documents \in Seq(Document)
          /\ DOMAIN ledger.documents = 1 .. Len(ledger.documents)
      BY <1>1, LedgerParts
    <3> DEFINE q == ledger.documents
               r == Append(q, d)
    <3>2. /\ Len(q) \in Nat /\ DOMAIN q = 1 .. Len(q)
          /\ DOMAIN r = 1 .. (Len(q) + 1)
          /\ \A i \in 1 .. Len(q) : r[i] = q[i]
          /\ r[Len(q) + 1] = d
      <4>1. q \in Seq(Document)
        BY <3>1
      <4> HIDE DEF q
      <4> QED
        BY <4>1, Appended
    <3>3. ledger'.documents = r
      BY <2>4
    <3> HIDE DEF q, r
    <3>4. Documents(ledger) = {q[i] : i \in 1 .. Len(q)}
      BY <3>2 DEF Documents, q
    <3>5. Documents(ledger') = {r[i] : i \in 1 .. (Len(q) + 1)}
      BY <3>2, <3>3 DEF Documents
    <3>6. /\ \A i \in 1 .. (Len(q) + 1) : i \in 1 .. Len(q) \/ i = Len(q) + 1
          /\ 1 .. Len(q) \subseteq 1 .. (Len(q) + 1) /\ Len(q) + 1 \in 1 .. (Len(q) + 1)
      BY <3>2
    <3> QED
      BY <3>2, <3>4, <3>5, <3>6
  <2>6. {o \in Documents(ledger') : o.source = e.source /\ o.hash = e.hash} = {d}
    BY <1>2, <2>1, <2>5
  <2>7. ReplayEvent(ledger', ledger, e) = ledger'
    <3>1. d \notin Documents(ledger) /\ CanRegister(ledger, d) /\ ledger' = Register(ledger, d)
      BY <1>4 DEF Registering
    <3>2. (CHOOSE o \in {d} : TRUE) = d
      OBVIOUS
    <3> QED
      BY <2>1, <2>6, <3>1, <3>2 DEF ReplayEvent
  <2>8. /\ Revision(ledger') = Revision(ledger) + 1
        /\ \A i \in 1 .. Revision(ledger) : ledger'.events[i] = ledger.events[i]
        /\ ledger'.events[Revision(ledger')] = e
    BY <2>2, <2>4 DEF Appending, Revision
  <2> QED
    BY <1>2, <2>1, <2>5, <2>7, <2>8 DEF Recorded, e
<1>5. ASSUME NEW e, ledger' = AppendEvent(ledger, e), e.type # "document_registered",
             ReplayEvent(ledger', ledger, e) = ledger'
      PROVE  Recorded(ledger, ledger', e)
  <2>1. Appending(ledger, ledger', e)
    BY <1>1, <1>5, AppendEventAppends
  <2>2. Documents(ledger') = Documents(ledger)
    BY <2>1, SameDocuments DEF Appending
  <2> QED
    BY <1>2, <1>5, <2>1, <2>2 DEF Recorded, Appending
<1>6. ASSUME NEW p, Proposing(p) PROVE \E e : Recorded(ledger, ledger', e)
  <2> DEFINE e == [type |-> "change_proposed", proposal |-> p]
  <2>1. CanPropose(ledger, p) /\ ledger' = Propose(ledger, p) /\ ledger' = AppendEvent(ledger, e)
    BY <1>6 DEF Proposing, Propose
  <2>2. e.type = "change_proposed" /\ e.proposal = p
    OBVIOUS
  <2> HIDE DEF e
  <2>3. ReplayEvent(ledger', ledger, e) = ledger'
    BY <2>1, <2>2 DEF ReplayEvent
  <2> QED
    BY <1>5, <2>1, <2>2, <2>3
<1>7. ASSUME NEW c, NEW p, NEW decision, DecidingNow(c, p, decision)
      PROVE  \E e : Recorded(ledger, ledger', e)
  <2> DEFINE e == [type |-> "change_decided", change |-> p.id, decision |-> decision]
  <2>1. /\ p \in Proposals(ledger) /\ CanDecide(ledger, p, decision)
        /\ ledger' = Decide(ledger, p, decision) /\ ledger' = AppendEvent(ledger, e)
    BY <1>7 DEF DecidingNow, Deciding, Decide
  <2>2. e.type = "change_decided" /\ e.change = p.id /\ e.decision = decision
    OBVIOUS
  <2> HIDE DEF e
  <2>3. {q \in Proposals(ledger) : q.id = e.change} = {p}
    BY <2>1, <2>2 DEF LedgerOK, Identities
  <2>4. (CHOOSE q \in {p} : TRUE) = p
    OBVIOUS
  <2>5. ReplayEvent(ledger', ledger, e) = ledger'
    BY <2>1, <2>2, <2>3, <2>4 DEF ReplayEvent
  <2> QED
    BY <1>5, <2>1, <2>2, <2>5
<1>8. ASSUME NEW e, Noting(e) PROVE Recorded(ledger, ledger', e)
  <2>1. ReplayEvent(ledger', ledger, e) = ledger'
    BY <1>8 DEF Noting, ReplayEvent
  <2> QED
    BY <1>5, <1>8, <2>1 DEF Noting
<1> QED
  BY <1>3, <1>4, <1>6, <1>7, <1>8, LedgerStep

\* Whatever was persisted can be restored (restoreAssistanceState): the history, which
\* other sessions have continued and in which decisions were taken back, is accepted
\* event by event, and gives the ledger.
THEOREM EveryLedgerRestores == Spec => []Restorable
<1>1. Init => Traced(ledger)
  BY EmptyTraced DEF Init
<1>2. Inv /\ Traced(ledger) /\ [Next]_vars => Traced(ledger)'
  BY TracedStep DEF Inv
<1>3. Inv /\ Traced(ledger) => Restorable
  <2> SUFFICES ASSUME Inv, Traced(ledger) PROVE Restorable
    OBVIOUS
  <2>1. Revision(ledger) \in Nat
    BY LedgerParts DEF Inv, LedgerOK, Identities
  <2> QED
    BY <2>1, ReplayIsRun DEF Traced, Restorable
<1> QED
  BY <1>1, <1>2, <1>3, Invariance, PTL DEF Spec
=============================================================================
