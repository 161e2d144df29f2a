----------------------- MODULE ConsumptionProperties -----------------------
(***************************************************************************)
(* What a user of manifests may rely on.                                   *)
(***************************************************************************)
EXTENDS Consumption

(* What the text itself says for an action, whatever any receipt says.     *)
Backed(action, text) ==
    LET quoted == EvidencePassages(action)
    IN /\ quoted # {}
       /\ quoted \subseteq ToSet(text)
       /\ \A date \in DeclaredDates(action) :
             \E p \in quoted : date \in DatesIn(p, YearOf(text))
       /\ action.modality = "prohibited" => \E p \in quoted : Cues[p].negated
       /\ action.kind = "event" /\ action.modality # "prohibited" =>
             \A p \in quoted : ~Cues[p].cancels

AllBacked(manifest, text) ==
    \A a \in Range(ReadyActions(manifest)) : Backed(a, text)

Contents(action) == [action EXCEPT !.status = None]

(* An action that consumers and exporters take as ready has passed the     *)
(* last verification of exactly these contents, and the text of that       *)
(* verification backs it, whatever was decided, filtered or edited in the  *)
(* source since (trust.ts, verify.ts).  Ids have to be unique, when it was *)
(* verified: results are found by id, and a twin may have been filtered.   *)
ReadyWasChecked ==
    file # None /\ judged # None /\ UniqueIds(judged) =>
        \A a \in Range(ReadyActions(file)) :
            /\ Contents(a) \in {Contents(b) : b \in Range(judged.actions)}
            /\ Backed(a, judged.text)
            /\ file.source.hash \in {None, judged.text}

(* An agent, an analysis, a guide and a batch call nothing ready that the  *)
(* text they were given does not back, whatever receipt came in with the   *)
(* manifest (agent.ts, agent-batch.ts, matoe-analysis.ts, explain.ts).     *)
AnswersAreBacked ==
    LET out == sent.out
    IN CASE sent.by \in {"agent verify", "agent extract", "analysis"} ->
                AllBacked(out, sent.text)
         [] sent.by = "guide" ->
                \A i \in DOMAIN out : out[i].next = "approve_separately" =>
                    Backed(sent.given.actions[i], sent.text)
         [] sent.by = "batch" ->
                \A i \in DOMAIN out.answers : out.answers[i] # None =>
                    AllBacked(out.answers[i], sent.given[i].text)
         [] OTHER -> TRUE

(* What leaves through a bridge is trusted exactly as far as it was before: *)
(* besides, the old contract gives every action the disposition it had,    *)
(* the contract of 0.2 takes what the extraction for it yields, and a      *)
(* batch tells when one source has two texts (matoe.ts, matoe-v02.ts).     *)
BridgesKeepTrust ==
    LET out == sent.out
    IN /\ AnswersAreBacked
       /\ CASE sent.by = "matoe 0.1" ->
                  Classify(out).actions = Classify(sent.given).actions
            [] sent.by = "matoe 0.2" ->
                  \A a \in Range(out.actions) :
                      EvidencePassages(a) \subseteq ToSet(sent.text)
            [] sent.by = "agent extract" -> CarriedByV02(out, DocId, sent.text)
            [] sent.by = "batch" ->
                  (\E r \in out.reviews : r.code = "SOURCE_ID_CONFLICT") <=>
                      \E i, j \in DOMAIN sent.given :
                          /\ sent.given[i].source = sent.given[j].source
                          /\ sent.given[i].text # sent.given[j].text
            [] OTHER -> TRUE

(* A sentence that states one new date for an action of this kind and      *)
(* object, or about the same subject if it names no object.                *)
Instruction(p) ==
    ~(Cues[p].filler \/ Cues[p].cancels \/ Cues[p].reported
      \/ Cues[p].rain \/ Cues[p].exempt \/ Cues[p].negated)

Redates(p, action, year) ==
    /\ Instruction(p)
    /\ Cues[p].corrects
    /\ ReplacementDate(p, year) # None
    /\ Cues[p].kind \in {action.kind, "deadline", "other"}
    /\ IF Cues[p].object # None THEN Cues[p].object = action.object
       ELSE Cues[p].subjects
                \cap Cues[Head(action.evidence).passage].subjects # {}

Retracts(p, action) ==
    /\ Cues[p].negated
    /\ ~(Cues[p].filler \/ Cues[p].cancels \/ Cues[p].reported
         \/ Cues[p].rain \/ Cues[p].exempt)
    /\ Names(action, Cues[p].object)

(* No other sentence up to the j-th may be meant: each one that says       *)
(* something of what the action names is quoted by it, and stands once.    *)
Counts(p) == ~(Cues[p].filler \/ Cues[p].cancels \/ Cues[p].reported)

Said(p) == Cues[p].about \cup {Cues[p].object}

Alone(action, j, text) ==
    \A h \in 1..j-1 :
        Counts(text[h]) /\ Said(text[h]) \cap action.about # {} =>
            /\ text[h] \in EvidencePassages(action)
            /\ \A g \in DOMAIN text \ {h} : text[g] # text[h]

UpToDate(action, i, text) ==
    /\ text[i] = Head(action.evidence).passage
    /\ \A j \in i+1..Len(text) :
          /\ ~Redates(text[j], action, YearOf(text))
          /\ action.modality = "required" /\ Alone(action, j, text) =>
                ~Retracts(text[j], action)

(* From the text alone, no ready action is out of date: nothing it names   *)
(* is called off anywhere, no later sentence gives it another date, and,   *)
(* if it is required and no other sentence may be meant, no later sentence *)
(* says that it is not necessary (deterministic.ts).                       *)
ReadyIsCurrent ==
    file # None /\ judged # None /\ judged.rules =>
        \A a \in Range(ReadyActions(file)) :
            /\ \A p \in Range(judged.text) :
                  Cues[p].cancels /\ ~Cues[p].filler =>
                      Cues[p].subjects \cap a.about = {}
            /\ \E i \in DOMAIN judged.text : UpToDate(a, i, judged.text)

(* A freshness check vouches for a quote only if the pinned text was on    *)
(* the shelf under its id while the check ran, and for nothing once it was *)
(* aborted.  If nobody touched the shelf, the text is there, alone under   *)
(* its id, and the slow check says what the check at once would have said  *)
(* (evidence-freshness.ts).                                                *)
EvidenceIsCurrent ==
    check # None /\ check.ended =>
        LET Holds(sources, pin) ==
                {k \in DOMAIN sources : /\ sources[k].id = pin.source
                                        /\ sources[k].text = pin.text
                                        /\ ~sources[k].deleted}
            Copies(pin) == {k \in DOMAIN shelf : shelf[k].id = pin.source}
        IN /\ \A i \in DOMAIN pins : check.results[i] = "fresh" =>
                 /\ ~aborted
                 /\ pins[i].quote \in ToSet(pins[i].text)
                 /\ \E sources \in held : Holds(sources, pins[i]) # {}
                 /\ held = {shelf} =>
                       /\ Holds(shelf, pins[i]) = Copies(pins[i])
                       /\ Cardinality(Copies(pins[i])) = 1
           /\ held = {shelf} /\ ~aborted =>
                 check.results = CheckAtOnce(pins, shelf)

(* What a review asks for: "other" is what no pattern hints at.            *)
Fits(hints, wanted) ==
    wanted = None \/ wanted \in hints \/ (wanted = "other" /\ hints = {})

AskedFor(line, options) ==
    /\ Fits(Hints[line].domains, options.domain)
    /\ Fits(Hints[line].topics, options.topic)

(* A citation the user keeps is confirmed exactly as long as the document  *)
(* is the one it was taken from; and following nextOffset shows every      *)
(* passage of the category once and in order (document-query.ts).          *)
CitationsHold ==
    /\ \A c \in cited :
          VerifyCitation(document, c) <=> Snapshot(document) = c.snapshot
    /\ review # None /\ review.next = None =>
          review.seen =
              Those(index.passages, {c \in Range(index.passages) :
                                        AskedFor(c.quote, review.options)})

(* Every way to fill in what is not known, one value for each fact.        *)
Completions(rule, known, at) ==
    LET keys == KeysOf(rule)
        Possible(k) == LET values == Values(known, k, at)
                       IN IF Cardinality(values) = 1 THEN values
                          ELSE (UNION {rule[n].values : n \in DOMAIN rule})
                               \cup {"something else"}
    IN {{[key |-> k, value |-> g[k], expires |-> Never] : k \in keys} :
           g \in {h \in [keys -> UNION {Possible(k) : k \in keys}] :
                     \A k \in keys : h[k] \in Possible(k)}}

(* A verdict stands until its time is over, as long as the facts stay, and *)
(* one that is not "unknown" would be the same whatever the missing and    *)
(* the contradicting facts turn out to be (assistance-conditions.ts).      *)
VerdictStands ==
    verdict # None =>
        LET result == verdict.result
        IN /\ /\ facts = verdict.facts
              /\ result.until = Never \/ now < result.until
              => Applicability(verdict.rule, facts, now) = result.state
           /\ result.state # "unknown" =>
                 \A all \in Completions(verdict.rule, verdict.facts,
                                        verdict.at) :
                     Applicability(verdict.rule, all, verdict.at)
                         = result.state
=============================================================================
