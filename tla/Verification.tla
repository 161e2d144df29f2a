---------------------------- MODULE Verification ----------------------------
(***************************************************************************)
(* The deterministic verifier: packages/verifier/src/verify.ts and         *)
(* semantics.ts.                                                           *)
(*                                                                         *)
(* An action is [id, kind, object, about, modality, status, actor,         *)
(* temporal, conditions, evidence]: about holds the names that its object  *)
(* and its title contain, actor is [certainty, text], temporal is None or  *)
(* [type, date, end, alternatives], and evidence is a sequence of quotes   *)
(* [passage, source, page].  A manifest is [version, source, actions,      *)
(* receipt] and a receipt [extraction, verification], where extraction is  *)
(* None or [known, version] and verification holds the flags of the last   *)
(* verification, or None.  A receipt of version 0.1.0 has these flags but  *)
(* no results of single actions: its field detailed is FALSE.              *)
(***************************************************************************)
EXTENDS Documents

CONSTANTS
    NegatedConditions,  \* condition texts that isNegation recognises
    ExemptConditions    \* condition texts that name a submission already made

Receipted(manifest) ==
    IF manifest.receipt = None THEN None ELSE manifest.receipt.verification

(* validateActionManifest: the schema of 0.1.0 has no field for the result *)
(* of an action, and no schema allows an action without evidence.          *)
ManifestFields == {"version", "source", "actions", "receipt"}
ActionFields ==
    {"id", "kind", "object", "about", "modality", "status", "actor",
     "temporal", "conditions", "evidence"}

VerificationFields ==
    {"evidence", "temporal", "actor", "modality", "negation", "pages",
     "hashMatched", "issues", "detailed", "passed", "total", "verified",
     "failed", "results"}

IsReceipt(flags) ==
    /\ DOMAIN flags = VerificationFields
    /\ flags.results \in Seq(Range(flags.results))

IsValid(manifest) ==
    /\ DOMAIN manifest = ManifestFields
    /\ manifest.version \in {"0.1.0", "0.2.0"}
    /\ manifest.actions \in Seq(Range(manifest.actions))
    /\ \A action \in Range(manifest.actions) :
          DOMAIN action = ActionFields /\ action.evidence # <<>>
    /\ Receipted(manifest) # None =>
          /\ IsReceipt(Receipted(manifest))
          /\ manifest.version = "0.1.0" => ~Receipted(manifest).detailed

EvidencePassages(action) ==
    {action.evidence[i].passage : i \in DOMAIN action.evidence}

(* flattenTemporals *)
Temporals(action) ==
    IF action.temporal = None THEN {}
    ELSE {action.temporal} \cup action.temporal.alternatives

DeclaredDates(action) == {t.date : t \in Temporals(action)} \ {None}

(* temporalEvidenceSupported, with the year of the document for an action  *)
(* that declares a date (dateSupportedByEvidence).                         *)
TemporalSupported(action, text) ==
    LET declared     == DeclaredDates(action)
        year         == YearOf(text)
        corrections  == {p \in EvidencePassages(action) : Cues[p].corrects}
        replacements == {ReplacementDate(p, year) : p \in corrections}
    IN /\ \A t \in Temporals(action) :
             ~(t.type = "approximate" /\ t.date # None)
       /\ declared # {} =>
             /\ declared \subseteq
                    UNION {DatesIn(p, year) : p \in EvidencePassages(action)}
             /\ corrections # {} =>
                    /\ Cardinality(replacements) = 1
                    /\ None \notin replacements
                    /\ declared \subseteq replacements

(* actorCheck: only an explicit actor has to be named by the evidence.     *)
ActorIssues(action) ==
    IF action.actor.certainty # "explicit" THEN {}
    ELSE IF action.actor.text = None THEN {"ACTOR_TEXT_MISSING"}
    ELSE IF \E p \in EvidencePassages(action) :
                action.actor.text \in Cues[p].names THEN {}
    ELSE {"ACTOR_UNSUPPORTED"}

(* modalitySupported *)
ModalityBacked(action) ==
    CASE action.modality = "prohibited" ->
             \E p \in EvidencePassages(action) : Cues[p].negated
      [] action.modality = "optional" ->
             \E p \in EvidencePassages(action) : Cues[p].optional
      [] OTHER -> TRUE

(* conditionsSupported: every stated condition survives in the action.     *)
ConditionsKept(action) ==
    \/ action.modality = "prohibited"
    \/ action.kind = "event"
    \/ UNION {Cues[p].clauses : p \in EvidencePassages(action)}
           \subseteq action.conditions

(* cancellationConflict *)
Cancelled(action) ==
    /\ action.modality # "prohibited"
    /\ action.kind \in {"event", "attend"}
    /\ \E p \in EvidencePassages(action) : Cues[p].cancels

(* negationConflict: an exemption needs the source and the extraction to   *)
(* agree, and only a submission can have one.                              *)
Negated(action) ==
    LET clauses == {p \in EvidencePassages(action) : Cues[p].negated}
    IN /\ action.modality = "required"
       /\ clauses # {} \/ action.conditions \cap NegatedConditions # {}
       /\ ~ /\ action.kind = "submit"
            /\ clauses # {}
            /\ \A p \in clauses : Cues[p].exempt
            /\ action.conditions \cap ExemptConditions # {}

(* pageValid: pages are checked only against a document that has pages.    *)
PagesValid(action, doc) ==
    \A i \in DOMAIN action.evidence :
        \/ action.evidence[i].page = None
        \/ doc.pages = <<>>
        \/ action.evidence[i].page \in PageNumbers(doc)

(* evidenceCheck: each quote is in the text and belongs to this source.    *)
EvidenceIssues(action, doc, source) ==
    LET quotes == Range(action.evidence)
    IN (IF quotes = {} THEN {"MISSING_EVIDENCE"} ELSE {})
       \cup (IF \E q \in quotes : ~Quotes(CanonicalText(doc), q.passage)
             THEN {"EVIDENCE_NOT_IN_SOURCE"} ELSE {})
       \cup (IF \E q \in quotes : q.source \notin {None, source.id, doc.id}
             THEN {"EVIDENCE_SOURCE_ID"} ELSE {})

Issue(code, id) == [code |-> code, action |-> id]

(* verifyAction: the result of one action, from nothing but the action.    *)
Checks(action, doc, source) ==
    [evidence |-> EvidenceIssues(action, doc, source),
     temporal |-> TemporalSupported(action, CanonicalText(doc)),
     actor    |-> ActorIssues(action),
     backed   |-> ModalityBacked(action),
     kept     |-> ConditionsKept(action),
     off      |-> Cancelled(action),
     negated  |-> Negated(action),
     pages    |-> PagesValid(action, doc)]

ModalitySupported(c) == c.backed /\ c.kept /\ ~c.off

Codes(c) ==
    c.evidence \cup c.actor
    \cup (IF c.temporal THEN {} ELSE {"TEMPORAL_UNSUPPORTED"})
    \cup (IF c.kept THEN {} ELSE {"CONDITION_LOST"})
    \cup (IF c.off THEN {"CANCELLATION_CONFLICT"} ELSE {})
    \cup (IF ModalitySupported(c) THEN {} ELSE {"MODALITY_UNSUPPORTED"})
    \cup (IF c.negated THEN {"NEGATION_CONFLICT"} ELSE {})
    \cup (IF c.pages THEN {} ELSE {"INVALID_PAGE_REF"})

ResultOf(id, c) ==
    [id       |-> id,
     passed   |-> /\ c.evidence = {} /\ c.temporal /\ c.actor = {}
                  /\ ModalitySupported(c) /\ ~c.negated /\ c.pages,
     evidence |-> c.evidence = {},
     temporal |-> c.temporal,
     actor    |-> c.actor = {},
     modality |-> ModalitySupported(c),
     negation |-> c.negated,
     pages    |-> c.pages,
     issues   |-> {Issue(code, id) : code \in Codes(c)}]

VerifyAction(action, doc, source) ==
    ResultOf(action.id, Checks(action, doc, source))

(* The checks both bridges and the trust policy read, of flags or results. *)
AllSupported(checks) ==
    /\ checks.evidence /\ checks.temporal /\ checks.actor
    /\ checks.modality /\ checks.pages /\ ~checks.negation

(* An issue is an error unless its severity says warning.                  *)
Errors(issues) == {i \in issues : i.code # "NO_ACTIONS"}

(* verifyManifest, first half: conditions that no action can make good.    *)
HashMatched(source, doc) ==
    source.hash = None \/ doc.hash = None \/ source.hash = doc.hash

ManifestIssues(manifest, doc) ==
    {Issue(c, None) : c \in
        (IF CanonicalText(doc) = Blank THEN {"EMPTY_SOURCE"} ELSE {})
        \cup (IF HashMatched(manifest.source, doc) THEN {}
              ELSE {"SOURCE_HASH_MISMATCH"})
        \cup (IF manifest.actions = <<>> THEN {"NO_ACTIONS"} ELSE {})}

Fatal(manifest, doc) ==
    CanonicalText(doc) = Blank \/ ~HashMatched(manifest.source, doc)

Results(manifest, doc) ==
    [i \in DOMAIN manifest.actions |->
        VerifyAction(manifest.actions[i], doc, manifest.source)]

(* The aggregate that v0.1 readers use is an AND over the actions.         *)
Flags(manifest, doc, results, verified) ==
    LET Every(P(_)) == \A i \in DOMAIN results : P(results[i])
    IN [evidence |-> /\ CanonicalText(doc) # Blank
                     /\ Every(LAMBDA r : r.evidence),
        temporal |-> Every(LAMBDA r : r.temporal),
        actor    |-> Every(LAMBDA r : r.actor),
        modality |-> Every(LAMBDA r : r.modality),
        negation |-> ~Every(LAMBDA r : ~r.negation),
        pages    |-> Every(LAMBDA r : r.pages),
        hashMatched |-> HashMatched(manifest.source, doc),
        issues   |-> ManifestIssues(manifest, doc)
                     \cup UNION {results[i].issues : i \in DOMAIN results},
        detailed |-> TRUE,
        passed   |-> ~Fatal(manifest, doc) /\ Every(LAMBDA r : r.passed),
        total    |-> Len(results),
        verified |-> verified,
        failed   |-> Len(results) - verified,
        results  |-> results]

PassedCount(results) ==
    Cardinality({i \in DOMAIN results : results[i].passed})

VerifiedCount(results, fatal) ==
    IF fatal THEN 0 ELSE PassedCount(results)

(* verifyManifest, second half: an action is promoted at its position, and *)
(* only from proposed; the receipt's verification is replaced as a whole,  *)
(* whatever the version of the manifest.  It throws unless IsValid.        *)
Promoted(actions, results, fatal) ==
    [i \in DOMAIN actions |->
        IF ~fatal /\ results[i].passed /\ actions[i].status = "proposed"
        THEN [actions[i] EXCEPT !.status = "verified"]
        ELSE actions[i]]

Unprovided(manifest) == [known |-> FALSE, version |-> manifest.version]

Receipt(manifest, flags) ==
    [extraction   |-> IF \/ manifest.receipt = None
                         \/ manifest.receipt.extraction = None
                      THEN Unprovided(manifest)
                      ELSE manifest.receipt.extraction,
     verification |-> flags]

Judged(manifest, doc, results, fatal) ==
    [manifest EXCEPT
        !.actions = Promoted(@, results, fatal),
        !.receipt = Receipt(manifest,
                            Flags(manifest, doc, results,
                                  VerifiedCount(results, fatal)))]

VerifyManifest(manifest, doc) ==
    Judged(manifest, doc, Results(manifest, doc), Fatal(manifest, doc))

(* verificationPassed: older receipts have no verdict of their own.        *)
VerificationPassed(flags) ==
    IF flags.detailed THEN flags.passed
    ELSE AllSupported(flags) /\ flags.hashMatched /\ Errors(flags.issues) = {}
=============================================================================
