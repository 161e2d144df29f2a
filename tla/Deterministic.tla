--------------------------- MODULE Deterministic ---------------------------
(***************************************************************************)
(* The provider without a model: packages/extractor/src/deterministic.ts.  *)
(* It reads the sentences of a text in their order.  A later sentence may  *)
(* add to an earlier action, take its place or take it away, and it has to *)
(* find that action by what it names.  Sections of a document, by which    *)
(* headings are skipped, are left out: a plain text has none.              *)
(*                                                                         *)
(* The array of actions is a function: a new action is always pushed at    *)
(* the end, so its key is the number k of the sentence that made it.       *)
(***************************************************************************)
EXTENDS Extraction

UnknownActor == [certainty |-> "unknown", text |-> None]

(* locate: the page is that of the first chunk that holds the quote.       *)
Cite(p, doc) ==
    LET holding == SelectSeq(doc.chunks, LAMBDA c : Quotes(c.text, p))
    IN [passage |-> p, source |-> doc.id,
        page    |-> IF holding = <<>> THEN None ELSE Head(holding).page]

Evidenced(action, p, doc) ==
    IF p \in EvidencePassages(action) THEN action
    ELSE [action EXCEPT !.evidence = Append(@, Cite(p, doc))]

Conditioned(action, more) == [action EXCEPT !.conditions = @ \cup more]

(* make: the action that a sentence states by itself.                      *)
Stated(p, doc) ==
    [id       |-> None,
     status   |-> "proposed",
     kind     |-> Cues[p].kind,
     object   |-> Cues[p].object,
     about    |-> Cues[p].about,
     modality |-> Cues[p].modality,
     actor    |-> Cues[p].actor,
     temporal |-> PrimaryTemporal(p, YearOf(doc.text)),
     conditions |-> Cues[p].conditions,
     evidence |-> <<Cite(p, doc)>>]

(* A waiver whose target is not known prohibits; it requires nothing.      *)
Waiver(new) ==
    [new EXCEPT !.kind = "submit", !.modality = "prohibited",
                !.about = {new.object} \ {None}]

(* targetMatches *)
Names(action, object) == object # None /\ object \in action.about

(* The rain date, an alternative of the last event: the first exact day    *)
(* the sentence mentions, or else the first date.                          *)
FirstDate(parsed) == IF parsed = <<>> THEN None ELSE Head(parsed).date

RainDate(dated) ==
    [type |-> "conditional", end |-> None, alternatives |-> {},
     date |-> FirstDate(SelectSeq(dated, LAMBDA t : t.type = "exact") \o dated)]

DatedIn(p, year) ==
    SelectSeq([i \in DOMAIN Cues[p].mentions |->
                  Parsed(Cues[p].mentions[i], year)],
              LAMBDA t : t.date # None)

(* mergeTemporal *)
WithAlternative(action, rain) ==
    [action EXCEPT
        !.temporal = IF @ = None
                     THEN [type |-> "unknown", date |-> None, end |-> None,
                           alternatives |-> {rain}]
                     ELSE [@ EXCEPT !.alternatives = @ \cup {rain}]]

Rainy(new, rain) ==
    [new EXCEPT !.kind = "event", !.object = None, !.about = {},
                !.modality = "unknown", !.actor = UnknownActor,
                !.temporal = rain, !.conditions = {}]

With(actions, k, new) ==
    [i \in DOMAIN actions \cup {k} |-> IF i = k THEN new ELSE actions[i]]

Without(actions, gone) == [i \in DOMAIN actions \ gone |-> actions[i]]

LastOf(S) == IF S = {} THEN 0 ELSE Max(S)

OfKind(actions, kind) == {i \in DOMAIN actions : actions[i].kind = kind}

Naming(actions, object) == {i \in DOMAIN actions : Names(actions[i], object)}

AddRain(actions, event, new, rain, k, doc) ==
    IF event = 0 THEN With(actions, k, Rainy(new, rain))
    ELSE [actions EXCEPT
             ![event] = Evidenced(WithAlternative(@, rain), doc.text[k], doc)]

(* An exemption belongs to the only submission there is, whatever that is  *)
(* for, and among several to the last one it names.                        *)
ExemptionTarget(actions, p) ==
    LET submits == OfKind(actions, "submit")
    IN LastOf(IF Cardinality(submits) = 1 THEN submits
              ELSE submits \cap Naming(actions, Cues[p].object))

AddExemption(actions, target, new, k, doc) ==
    IF target = 0 THEN With(actions, k, Waiver(new))
    ELSE [actions EXCEPT
             ![target] = Evidenced(
                 Conditioned(@, {"already_submitted", doc.text[k]}),
                 doc.text[k], doc)]

(* A blanket negation belongs to the last action it names.                 *)
NegationTarget(actions, p) == LastOf(Naming(actions, Cues[p].object))

AddNegation(actions, target, new, k, doc) ==
    IF target # 0
    THEN [actions EXCEPT
             ![target] = Evidenced(Conditioned(@, {doc.text[k]}),
                                   doc.text[k], doc)]
    ELSE IF new.kind = "submit" THEN With(actions, k, Waiver(new))
    ELSE actions

(* sameCorrectionSubject compares with the subjects of all its quotes.     *)
SubjectsOf(action) ==
    UNION {Cues[p].subjects : p \in EvidencePassages(action)}

Generic(kind) == kind \in {"deadline", "other"}

(* The actions that a correction may be about, by their exact object.      *)
Corrects(p, action) ==
    /\ action.kind = Cues[p].kind \/ Generic(Cues[p].kind)
    /\ IF Cues[p].object # None THEN action.object = Cues[p].object
       ELSE SubjectsOf(action) \cap Cues[p].subjects # {}

CorrectionTargets(actions, p) ==
    IF Cues[p].corrects THEN {i \in DOMAIN actions : Corrects(p, actions[i])}
    ELSE {}

(* isDateOnlyCorrection *)
DateOnly(p) ==
    /\ Cues[p].corrects /\ Cues[p].modality = "unknown"
    /\ Cues[p].actor.certainty = "unknown" /\ Cues[p].conditions = {}

Asserted(action) ==
    IF action.modality # "unknown" THEN action
    ELSE [action EXCEPT !.modality = IF action.kind = "event" THEN "required"
                                     ELSE "unknown"]

(* What a correction keeps of the action whose place it takes.  All quotes *)
(* are located again, in order, without earlier corrections of the date.   *)
Lasting(action) == {q \in Range(action.evidence) : ~DateOnly(q.passage)}

Located(quotes, doc) ==
    [i \in DOMAIN quotes |-> Cite(quotes[i].passage, doc)]

Corrected(new, old, doc) ==
    [new EXCEPT
        !.kind   = IF Generic(@) THEN old.kind ELSE @,
        !.about  = IF Generic(new.kind) THEN old.about
                   ELSE @ \cup ({old.object} \ {None}),
        !.object = Provided(@, old.object),
        !.modality = IF @ = "unknown" THEN old.modality ELSE @,
        !.actor    = IF @.certainty = "unknown" THEN old.actor ELSE @,
        !.conditions = @ \cup old.conditions,
        !.evidence   = @ \o Located(Those(old.evidence, Lasting(old)), doc)]

(* Any other sentence.  A correction with several targets leaves none of   *)
(* them: none may keep a date that is perhaps the old one.                 *)
(* A defect for the checks: of several targets the last one is corrected.  *)
ReplacedLast(actions, targets, new, k, doc) ==
    IF targets = {} THEN With(actions, k, Asserted(new))
    ELSE With(Without(actions, {Max(targets)}), k,
              Corrected(new, actions[Max(targets)], doc))

Replaced(actions, targets, new, k, doc) ==
    IF targets = {} THEN With(actions, k, Asserted(new))
    ELSE IF Cardinality(targets) = 1
    THEN With(Without(actions, targets), k,
              Corrected(new, actions[Max(targets)], doc))
    ELSE Without(actions, targets)

AddStatement(actions, new, k, doc) ==
    IF new.kind = "other" /\ new.modality = "unknown" /\ new.temporal = None
    THEN actions
    ELSE Replaced(actions, CorrectionTargets(actions, doc.text[k]), new, k, doc)

(* One sentence.  A cancellation only takes its subjects down; quoted and  *)
(* past instructions are not instructions.                                 *)
AddSentence(actions, new, k, doc) ==
    LET p == doc.text[k]
    IN IF Cues[p].rain
       THEN AddRain(actions, LastOf(OfKind(actions, "event")), new,
                    RainDate(DatedIn(p, YearOf(doc.text))), k, doc)
       ELSE IF Cues[p].exempt
       THEN AddExemption(actions, ExemptionTarget(actions, p), new, k, doc)
       ELSE IF Cues[p].negated
       THEN AddNegation(actions, NegationTarget(actions, p), new, k, doc)
       ELSE AddStatement(actions, new, k, doc)

ReadSentence(read, k, doc) ==
    LET p == doc.text[k]
    IN IF Cues[p].filler THEN read
       ELSE IF Cues[p].cancels
       THEN [read EXCEPT !.cancelled = @ \cup Cues[p].subjects]
       ELSE IF Cues[p].reported THEN read
       ELSE [read EXCEPT !.actions = AddSentence(@, Stated(p, doc), k, doc)]

ReadText(doc) ==
    LET read[k \in 0..Len(doc.text)] ==
            IF k = 0 THEN [actions |-> <<>>, cancelled |-> {}]
            ELSE ReadSentence(read[k-1], k, doc)
    IN read[Len(doc.text)]

(* extractDeterministically: cancelled actions go at the end, wherever the *)
(* cancellation stands; what remains gets the default ids.                 *)
Remaining(read) ==
    {i \in DOMAIN read.actions :
        read.actions[i].about \cap read.cancelled = {}}

Numbered(actions, left) ==
    [n \in DOMAIN left |-> [actions[left[n]] EXCEPT !.id = n]]

Deterministically(read, doc) ==
    [wellFormed |-> TRUE,
     actions    |-> Numbered(read.actions,
                             Those([k \in DOMAIN doc.text |-> k],
                                   Remaining(read)))]

ExtractDeterministically(doc) == Deterministically(ReadText(doc), doc)
=============================================================================
