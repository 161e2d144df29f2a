--------------------------- MODULE DocumentIndex ---------------------------
(***************************************************************************)
(* Looking things up in a document: packages/core/src/document-query.ts,   *)
(* family-review.ts and apps/cli/src/document-query.ts.                    *)
(*                                                                         *)
(* An index is [source, snapshot, passages].  Its passages are citations   *)
(* in the order of the document, each with the hash of the snapshot, its   *)
(* container, the container's index, page and paragraph, and its quote.  A *)
(* passage of a text is one line here; what the keyword patterns find in   *)
(* it is its record in Hints: the kinds of question it answers, its search *)
(* terms, and the domains, topics and flags of the family review.          *)
(***************************************************************************)
EXTENDS Documents

CONSTANT Hints

Snapshot(doc) == [id |-> doc.id, text |-> doc.text, pages |-> doc.pages,
                  chunks |-> doc.chunks]

(* Pages are used if they say what the text says, or if there is no text.  *)
UsesPages(doc) ==
    LET filled == SelectSeq(doc.pages, LAMBDA p : p.text # Blank)
    IN /\ filled # <<>>
       /\ doc.text = Blank \/ doc.text = Joined(ByNumber(filled))

Container(name, index, page, text) ==
    [name |-> name, index |-> index, page |-> page, text |-> text]

(* A defect for the checks: a page is counted among the filled ones.       *)
FilledContainers(doc) ==
    LET filled == SelectSeq(doc.pages, LAMBDA p : p.text # Blank)
    IN IF UsesPages(doc)
       THEN [i \in DOMAIN filled |->
                Container("page", i, filled[i].number, filled[i].text)]
       ELSE IF doc.text # Blank THEN <<Container("text", 1, None, doc.text)>>
       ELSE [i \in DOMAIN doc.chunks |->
                Container("chunk", i, doc.chunks[i].page, doc.chunks[i].text)]

(* A page keeps its place among all pages, the blank ones included.        *)
Containers(doc) ==
    IF UsesPages(doc)
    THEN [i \in DOMAIN doc.pages |->
             Container("page", i, doc.pages[i].number, doc.pages[i].text)]
    ELSE IF doc.text # Blank THEN <<Container("text", 1, None, doc.text)>>
    ELSE [i \in DOMAIN doc.chunks |->
             Container("chunk", i, doc.chunks[i].page, doc.chunks[i].text)]

Citation(doc, container, line) ==
    [source    |-> doc.id,
     snapshot  |-> Snapshot(doc),
     container |-> container.name,
     index     |-> container.index,
     page      |-> container.page,
     paragraph |-> line,
     quote     |-> container.text[line]]

(* The constructor of DocumentEvidenceIndex, which throws (None).          *)
BuildIndex(doc) ==
    LET containers == Containers(doc)
        cited == [i \in DOMAIN containers |->
                     [line \in DOMAIN containers[i].text |->
                         Citation(doc, containers[i], line)]]
    IN IF ~IsCanonical(doc) THEN None
       ELSE [source   |-> doc.id,
             snapshot |-> Snapshot(doc),
             passages |-> FlattenSeq(cited)]

(* query: of the category and with every term; literal matches come first. *)
(* A question is [kind, terms, literal, limit]: literal is the set of the  *)
(* lines that contain its words as they stand.                             *)
Answers(question, line) ==
    /\ question.kind \in Hints[line].kinds \cup {"search"}
    /\ question.terms \subseteq Hints[line].terms

Query(index, question) ==
    LET all     == Range(index.passages)
        literal == {c \in all : c.quote \in question.literal}
        found   == Those(index.passages,
                         {c \in all : Answers(question, c.quote)})
        matches == IF question.kind = "search" /\ question.terms = {} THEN <<>>
                   ELSE Those(found, literal) \o Those(found, all \ literal)
    IN [status   |-> IF matches = <<>> THEN "not_found" ELSE "evidence_found",
        evidence |-> SubSeq(matches, 1, Min({question.limit, Len(matches)})),
        matched  |-> Len(matches),
        hasMore  |-> Len(matches) > question.limit]

(* The lines around a passage, in its own container.                       *)
Around(index, i, radius) ==
    LET first == IF i > radius THEN i - radius ELSE 1
        last  == Min({i + radius, Len(index.passages)})
        same  == {c \in Range(index.passages) :
                     /\ c.container = index.passages[i].container
                     /\ c.index = index.passages[i].index}
    IN Those(SubSeq(index.passages, first, last), same)

(* explainCitation throws (None) on a citation of another snapshot.        *)
ExplainCitation(index, citation, radius) ==
    LET found == {i \in DOMAIN index.passages : index.passages[i] = citation}
    IN IF found = {} THEN None ELSE Around(index, Min(found), radius)

(* answerDocumentQuestion: the evidence, and what stands around it once.   *)
AnswerDocumentQuestion(index, question, radius) ==
    LET answer == Query(index, question)
    IN [answer  |-> answer,
        context |-> UNION {ToSet(ExplainCitation(index, c, radius)) :
                              c \in ToSet(answer.evidence)}]

(* classifyFamilyPassage: hints of the line, cautions of its surroundings. *)
Hinted(hints) == IF hints = {} THEN {"other"} ELSE hints

FamilyItem(index, i) ==
    LET line    == index.passages[i].quote
        context == Around(index, i, 1)
    IN [citation  |-> index.passages[i],
        context   |-> context,
        domains   |-> Hinted(Hints[line].domains),
        topics    |-> Hinted(Hints[line].topics),
        flags     |-> UNION {Hints[c.quote].flags : c \in Range(context)},
        candidate |-> Hints[line].domains \cup Hints[line].topics # {}]

(* familyReview: one window of the matching passages.  Options are         *)
(* [domain, topic, offset, limit].                                         *)
FamilyReview(index, options) ==
    LET items == [i \in DOMAIN index.passages |-> FamilyItem(index, i)]
        Wanted(item) == /\ options.domain \in item.domains \cup {None}
                        /\ options.topic \in item.topics \cup {None}
        matching == Those(items, {item \in Range(items) : Wanted(item)})
        last     == Min({options.offset + options.limit, Len(matching)})
        returned == SubSeq(matching, options.offset + 1, last)
        hasMore  == Len(matching) > options.offset + Len(returned)
    IN [items      |-> returned,
        matching   |-> Len(matching),
        candidates |-> Cardinality({i \in DOMAIN items : items[i].candidate}),
        hasMore    |-> hasMore,
        next       |-> IF hasMore THEN options.offset + Len(returned)
                       ELSE None]

(* annotateFamilyCitation accepts an annotation of its own snapshot only.  *)
Annotated(index, citation) == ExplainCitation(index, citation, 0) # None

(* verifyDocumentCitation rebuilds the container from the document alone:  *)
(* none, if the document has none of this kind with this index.            *)
Rebuilt(doc, citation) ==
    LET At(parts) == {i \in DOMAIN parts : i = citation.index}
    IN CASE citation.container = "text" ->
                IF citation.index = 1
                THEN {Container("text", 1, None, doc.text)} ELSE {}
         [] citation.container = "page" ->
                {Container("page", i, doc.pages[i].number, doc.pages[i].text) :
                    i \in At(doc.pages)}
         [] OTHER ->
                {Container("chunk", i, doc.chunks[i].page, doc.chunks[i].text) :
                    i \in At(doc.chunks)}

VerifyCitation(doc, citation) ==
    /\ IsCanonical(doc)
    /\ doc.id = citation.source
    /\ Snapshot(doc) = citation.snapshot
    /\ \E container \in Rebuilt(doc, citation) :
          /\ citation.paragraph \in DOMAIN container.text
          /\ container.text[citation.paragraph] = citation.quote
          /\ container.page = citation.page
=============================================================================
