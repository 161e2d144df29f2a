----------------------------- MODULE Documents -----------------------------
(***************************************************************************)
(* Canonical documents (packages/core/src/hash.ts, canonical.ts, the plain *)
(* text adapter) and what the language rules read in their text.           *)
(*                                                                         *)
(* A text is a sequence of passages, the sentences that a quote is taken   *)
(* from.  What the rules of packages/temporal and of the deterministic     *)
(* extractor find in a passage is its record in Cues:                      *)
(*   year, mentions      the year it states, or None, and the times it     *)
(*                       mentions, [type, year, day, until, superseded]    *)
(*   corrects, cancels, negated, exempt, optional, filler, reported, rain  *)
(*                       what kind of a sentence it is                     *)
(*   clauses, conditions the conditions it states; those read from it      *)
(*   names               who is named in it                                *)
(*   kind, modality, actor, object                                         *)
(*                       what is to be done, by whom and with what         *)
(*   subjects, about     the nouns a cancellation or a correction is       *)
(*                       matched by; the names its title would contain     *)
(* The regular expressions themselves are not modelled.  SHA-256 is taken  *)
(* to be injective: the hash of a text is the text.                        *)
(***************************************************************************)
EXTENDS Naturals, FiniteSets, SequencesExt

CONSTANTS
    None,   \* an absent field
    Cues    \* what each passage says

\* A passage mentions finitely many times, one after the other.
ASSUME MentionsAreGiven ==
    \A p \in DOMAIN Cues : Cues[p].mentions \in Seq(Range(Cues[p].mentions))

Passages == DOMAIN Cues

Blank == <<>>

Provided(value, default) == IF value = None THEN default ELSE value

(* The elements of seq that are in S, in their order: SelectSeq, whose      *)
(* definition the provers cannot expand.                                   *)
Those(seq, S) ==
    LET kept[i \in 0..Len(seq)] ==
            IF i = 0 THEN <<>>
            ELSE IF seq[i] \in S THEN Append(kept[i-1], seq[i])
            ELSE kept[i-1]
    IN kept[Len(seq)]

(* canonicalText: the text, else the pages by number, else the chunks.     *)
Joined(parts) == FlattenSeq([i \in DOMAIN parts |-> parts[i].text])

ByNumber(pages) ==
    LET Before(i) == {j \in DOMAIN pages :
                         \/ pages[j].number < pages[i].number
                         \/ pages[j].number = pages[i].number /\ j < i}
    IN [k \in DOMAIN pages |->
           pages[CHOOSE i \in DOMAIN pages : Cardinality(Before(i)) = k - 1]]

CanonicalText(doc) ==
    IF doc.text # Blank THEN doc.text
    ELSE IF doc.pages # <<>> THEN Joined(ByNumber(doc.pages))
    ELSE Joined(doc.chunks)

(* ensureSourceHash keeps a hash that is there, whatever the text now is.  *)
EnsureSourceHash(doc) ==
    [doc EXCEPT !.hash = IF @ = None THEN CanonicalText(doc) ELSE @,
                !.text = CanonicalText(doc)]

(* checkCanonicalDocument: the errors that make assertCanonicalDocument    *)
(* throw.  Text that differs from the pages is only a warning.             *)
PageNumbers(doc) == {doc.pages[i].number : i \in DOMAIN doc.pages}

IsCanonical(doc) ==
    /\ \/ doc.text # Blank
       \/ \E i \in DOMAIN doc.pages : doc.pages[i].text # Blank
       \/ \E i \in DOMAIN doc.chunks : doc.chunks[i].text # Blank
    /\ Cardinality(PageNumbers(doc)) = Len(doc.pages)
    /\ doc.pages # <<>> =>
          \A i \in DOMAIN doc.chunks :
              doc.chunks[i].page \in PageNumbers(doc) \cup {None}

(* PlainTextAdapter.toCanonical: one page, one chunk, a hash of the text.  *)
PlainDocument(id, text) ==
    EnsureSourceHash([id     |-> id,
                      text   |-> text,
                      pages  |-> <<[number |-> 1, text |-> text]>>,
                      chunks |-> <<[page |-> 1, text |-> text]>>,
                      hash   |-> None])

(* createSourceQuoteMatcher, for quotes that are one passage.              *)
Quotes(text, passage) == passage \in ToSet(text)

(* extractYearContext: the last year the text mentions, or None.           *)
YearOf(text) ==
    LET dated == SelectSeq(text, LAMBDA p : Cues[p].year # None)
    IN IF dated = <<>> THEN None ELSE Cues[Last(dated)].year

(* parseTemporals: what each mention of a time in the passage becomes.  A  *)
(* day without a year takes the year of the context; with none it is no    *)
(* date.  "Until" a day makes the day the end as well.  An approximate or  *)
(* a relative time has no day and never becomes a date.                    *)
DateOf(mention, year) ==
    IF mention.day = None \/ Provided(mention.year, year) = None THEN None
    ELSE <<Provided(mention.year, year), mention.day>>

Temporal(mention, date) ==
    [type |-> IF mention.type # "day" THEN mention.type
              ELSE IF date = None THEN "unknown" ELSE "exact",
     date |-> date,
     end  |-> IF mention.until THEN date ELSE None,
     alternatives |-> {}]

Parsed(mention, year) == Temporal(mention, DateOf(mention, year))

Dates(mentions, year) ==
    {DateOf(mentions[i], year) : i \in DOMAIN mentions} \ {None}

DatesIn(passage, year) == Dates(Cues[passage].mentions, year)

(* primaryTemporal of a correction: the one date it does not mark as       *)
(* superseded; with none or several left, no temporal.                     *)
Proposed(passage, year) ==
    Those(Cues[passage].mentions,
          {m \in Range(Cues[passage].mentions) :
              ~m.superseded /\ DateOf(m, year) # None})

OnlyOf(mentions, year) ==
    IF Cardinality(Dates(mentions, year)) = 1
    THEN Parsed(Last(mentions), year) ELSE None

Replacement(passage, year) == OnlyOf(Proposed(passage, year), year)

DateIn(temporal) == IF temporal = None THEN None ELSE temporal.date

ReplacementDate(passage, year) == DateIn(Replacement(passage, year))

(* primaryTemporal of anything else: the first mention with the best score. *)
Score(mention, year) ==
    (CASE mention.type = "approximate" -> 3
       [] mention.type = "conditional" -> 2
       [] mention.type = "relative" -> 1
       [] OTHER -> IF DateOf(mention, year) # None THEN 5 ELSE 0)
    + (IF mention.until THEN 2 ELSE 0)

FirstBest(scores) ==
    CHOOSE i \in DOMAIN scores :
        \A j \in DOMAIN scores :
            scores[i] > scores[j] \/ (scores[i] = scores[j] /\ i <= j)

Scores(mentions, year) ==
    [i \in DOMAIN mentions |-> Score(mentions[i], year)]

PrimaryTemporal(passage, year) ==
    IF Cues[passage].corrects /\ DatesIn(passage, year) # {}
    THEN Replacement(passage, year)
    ELSE IF Cues[passage].mentions = <<>> THEN None
    ELSE Parsed(Cues[passage].mentions[
                    FirstBest(Scores(Cues[passage].mentions, year))], year)
=============================================================================
