---------------------------- MODULE EvidenceUse ----------------------------
(***************************************************************************)
(* What a user does with the evidence of a document: ask it, page through  *)
(* a family review, keep citations, pin quotes and check later whether     *)
(* they still stand.  The document and the shelf of sources belong to the  *)
(* caller, who may change them between any two steps, a check in flight    *)
(* included (checkEvidenceFreshnessAsync gives way).                       *)
(***************************************************************************)
EXTENDS ManifestUse, DocumentIndex, Freshness

ASSUME ShelvesAreGiven ==
    \A scenario \in Scenarios : \A sources \in scenario.shelves :
        sources \in Seq(Range(sources))

\* A document is finite, and so is what is asked of it at once: the index
\* refuses a limit below 1.
ASSUME DocumentsAreGiven ==
    \A scenario \in Scenarios : \A doc \in scenario.documents :
        /\ doc.text \in Seq(Passages)
        /\ doc.pages \in Seq(Range(doc.pages))
        /\ doc.chunks \in Seq(Range(doc.chunks))
        /\ \A part \in Range(doc.pages) \cup Range(doc.chunks) :
              part.text \in Seq(Passages)

ASSUME LimitsAreGiven ==
    \A scenario \in Scenarios :
        /\ \A question \in scenario.questions : question.limit \in Nat \ {0}
        /\ \A options \in scenario.options :
              /\ DOMAIN options = {"domain", "topic", "offset", "limit"}
              /\ options.limit \in Nat \ {0}

VARIABLES
    document,   \* the canonical document as it is now
    index,      \* the index built from an earlier or the same document
    cited,      \* citations the user has kept
    review,     \* the family review: [options, seen, next], or None
    shelf,      \* the sources as they are now
    pins,       \* the pinned quotes
    check,      \* the freshness check, or None
    aborted,    \* its signal
    held        \* every state of the shelf since the check began

evidenceVars ==
    <<document, index, cited, review, shelf, pins, check, aborted, held>>

EvidenceInit ==
    /\ document \in scene.documents
    /\ index = None
    /\ cited = {}
    /\ review = None
    /\ shelf \in scene.shelves
    /\ pins = <<>>
    /\ check = None
    /\ aborted = FALSE
    /\ held = {}

shelfVars == <<shelf, pins, check, aborted, held>>

ChangeDocument(doc) ==
    /\ Spend("ChangeDocument")
    /\ doc # document
    /\ document' = doc
    /\ UNCHANGED <<index, cited, review, shelfVars>>

OpenIndex ==
    /\ Spend("Index")
    /\ BuildIndex(document) # None
    /\ index' = BuildIndex(document)
    /\ review' = None
    /\ UNCHANGED <<document, cited, shelfVars>>

(* ask-document: a new index for one answer; the user keeps its citations. *)
Ask(question) ==
    LET fresh == BuildIndex(document)
    IN /\ Spend("Ask")
       /\ fresh # None
       /\ cited' = AnswerDocumentQuestion(fresh, question, 1).context
       /\ UNCHANGED <<document, index, review, shelfVars>>

(* review-family: one window after the other over the same index.          *)
Window(options) ==
    LET page == FamilyReview(index, options)
    IN [options |-> options,
        seen    |-> (IF options.offset = 0 THEN <<>> ELSE review.seen)
                    \o [i \in DOMAIN page.items |-> page.items[i].citation],
        next    |-> page.next]

BeginReview(options) ==
    /\ Spend("Review family")
    /\ index # None
    /\ options.offset = 0
    /\ review' = Window(options)
    /\ UNCHANGED <<document, index, cited, shelfVars>>

NextWindow ==
    /\ review # None
    /\ review.next # None
    /\ review' = Window([review.options EXCEPT !.offset = review.next])
    /\ UNCHANGED <<left, scene, document, index, cited, shelfVars>>

(* annotateFamilyCitation, of a passage the review has shown.              *)
Annotate ==
    /\ Spend("Annotate")
    /\ index # None
    /\ review # None
    /\ \E i \in DOMAIN review.seen :
          /\ Annotated(index, review.seen[i])
          /\ cited' = {review.seen[i]}
    /\ UNCHANGED <<document, index, review, shelfVars>>

documentVars == <<document, index, cited, review>>

(* The caller changes, deletes or doubles a source.                        *)
ChangeShelf(sources) ==
    /\ Spend("ChangeShelf")
    /\ Len(sources) = Len(shelf)
    /\ shelf' = sources
    /\ held' = held \cup {sources}
    /\ UNCHANGED <<pins, check, aborted, documentVars>>

Pin(i, quote) ==
    LET pin == PinEvidence(shelf[i], quote)
    IN /\ Spend("Pin")
       /\ check = None
       /\ pin # None
       /\ pins' = Append(pins, pin)
       /\ UNCHANGED <<shelf, check, aborted, held, documentVars>>

BeginCheck ==
    /\ check = None
    /\ pins # <<>>
    /\ check' = NewCheck
    /\ held' = {shelf}
    /\ UNCHANGED <<left, scene, shelf, pins, aborted, documentVars>>

(* The sources first; an abort ends their reading.  Then the pins.         *)
StepCheck ==
    /\ check # None
    /\ ~check.ended
    /\ check' = IF check.read < Len(shelf) /\ check.results = <<>> /\ ~aborted
                THEN ReadSource(check, shelf[check.read + 1])
                ELSE IF Len(check.results) < Len(pins)
                THEN ReadPin(check, pins[Len(check.results) + 1], aborted)
                ELSE EndCheck(check, aborted)
    /\ UNCHANGED <<left, scene, shelf, pins, aborted, held, documentVars>>

Abort ==
    /\ Spend("Abort")
    /\ check # None
    /\ ~check.ended
    /\ aborted' = TRUE
    /\ UNCHANGED <<shelf, pins, check, held, documentVars>>

EvidenceNext ==
    \/ \E doc \in scene.documents : ChangeDocument(doc)
    \/ OpenIndex
    \/ \E question \in scene.questions : Ask(question)
    \/ \E options \in scene.options : BeginReview(options)
    \/ NextWindow
    \/ Annotate
    \/ \E sources \in scene.shelves : ChangeShelf(sources)
    \/ \E i \in DOMAIN shelf, quote \in scene.pinned : Pin(i, quote)
    \/ BeginCheck
    \/ StepCheck
    \/ Abort
=============================================================================
