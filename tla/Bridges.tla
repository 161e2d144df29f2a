------------------------------ MODULE Bridges ------------------------------
(***************************************************************************)
(* What leaves the process: the two bridges to the Matoe application       *)
(* (packages/consumer/src/matoe.ts and matoe-v02.ts), the agent protocol   *)
(* with its batches, the analysis for Matoe and the guide (apps/cli/src).  *)
(* Each of them refuses what it cannot carry faithfully: its operator is   *)
(* then None.                                                              *)
(***************************************************************************)
EXTENDS Extraction

(* The command line's documents for these routes have text and no pages.   *)
TextDocument(id, text) ==
    EnsureSourceHash([id |-> id, text |-> text, pages |-> <<>>,
                      chunks |-> <<>>, hash |-> None])

(* Provenance that names its extractor and the version of the manifest.    *)
Provenanced(manifest) ==
    /\ manifest.receipt # None
    /\ manifest.receipt.extraction # None
    /\ manifest.receipt.extraction.known
    /\ manifest.receipt.extraction.version = manifest.version

Unreviewed(action) == action.status \in {"proposed", "verified"}

Resolved(action, id, text) ==
    \A i \in DOMAIN action.evidence :
        /\ action.evidence[i].source = id
        /\ Quotes(text, action.evidence[i].passage)

(* prepareMatoeManifest shows one quote and one day, and no conditions.    *)
Displayable(action) ==
    LET shown == Head(action.evidence)
    IN /\ Unreviewed(action)
       /\ action.conditions = {}
       /\ \A i \in DOMAIN action.evidence : action.evidence[i] = shown
       /\ \/ action.actor.text = None
          \/ action.actor.text \in Cues[shown.passage].names
       /\ \/ action.temporal = None
          \/ /\ action.temporal.type = "exact"
             /\ action.temporal.date # None
             /\ action.temporal.end \in {None, action.temporal.date}
             /\ action.temporal.alternatives = {}

Ids(manifest) == {manifest.actions[i].id : i \in DOMAIN manifest.actions}

ResultIds(flags) == {flags.results[i].id : i \in DOMAIN flags.results}

(* Results are complete and unique: one for each id and for nothing else.  *)
Complete(flags, ids) ==
    Len(flags.results) = Cardinality(ids) /\ ResultIds(flags) = ids

(* The receipt that the old bridge can represent: unanimous and clean.     *)
Unanimous(manifest) ==
    LET flags == Receipted(manifest)
        ids   == Ids(manifest)
    IN /\ flags.hashMatched
       /\ AllSupported(flags)
       /\ flags.issues = {}
       /\ manifest.version = "0.2.0" =>
             /\ flags.detailed
             /\ Complete(flags, ids)
             /\ \A i \in DOMAIN flags.results :
                   /\ flags.results[i].passed
                   /\ AllSupported(flags.results[i])
                   /\ flags.results[i].issues = {}
             /\ flags.passed = TRUE
             /\ flags.total = Cardinality(ids)
             /\ flags.verified = Cardinality(ids)
             /\ flags.failed = 0

(* The aggregate that is left when the additions of 0.2.0 are deleted.     *)
Stripped(flags) ==
    [flags EXCEPT !.detailed = FALSE, !.passed = None, !.total = None,
                  !.verified = None, !.failed = None, !.results = <<>>]

Projected(manifest) ==
    [manifest EXCEPT
        !.version = "0.1.0",
        !.receipt = [extraction   |-> [@.extraction EXCEPT !.version = "0.1.0"],
                     verification |-> IF @.verification = None THEN None
                                      ELSE IF manifest.version = "0.1.0"
                                      THEN @.verification
                                      ELSE Stripped(@.verification)]]

(* prepareMatoeManifest *)
CarriedByV01(manifest, text) ==
    /\ IsValid(manifest)
    /\ text # Blank
    /\ manifest.source.hash = text
    /\ Provenanced(manifest)
    /\ UniqueIds(manifest)
    /\ \A i \in DOMAIN manifest.actions :
          /\ Displayable(manifest.actions[i])
          /\ Resolved(manifest.actions[i], manifest.source.id, text)
    /\ IF Receipted(manifest) = None
       THEN \A i \in DOMAIN manifest.actions :
               manifest.actions[i].status = "proposed"
       ELSE Unanimous(manifest)

PrepareV01(manifest, text) ==
    IF CarriedByV01(manifest, text) THEN Projected(manifest) ELSE None

(* prepareMatoeV02Manifest: what a result says of itself.                  *)
Intrinsic(result) ==
    /\ \A i \in result.issues : i.action = result.id
    /\ result.passed = (AllSupported(result) /\ Errors(result.issues) = {})
    /\ ~result.passed => Errors(result.issues) # {}

(* Results, issues and aggregate agree with each other.                    *)
Consistent(flags) ==
    LET Every(P(_)) == \A i \in DOMAIN flags.results : P(flags.results[i])
    IN /\ Every(LAMBDA r : r.issues \subseteq flags.issues)
       /\ \A i \in flags.issues :
             IF i.action = None THEN i \notin Errors(flags.issues)
             ELSE \E j \in DOMAIN flags.results :
                     /\ flags.results[j].id = i.action
                     /\ i \in flags.results[j].issues
       /\ flags.passed = Every(LAMBDA r : r.passed)
       /\ flags.verified = PassedCount(flags.results)
       /\ flags.failed = flags.total - flags.verified
       /\ flags.evidence = Every(LAMBDA r : r.evidence)
       /\ flags.temporal = Every(LAMBDA r : r.temporal)
       /\ flags.actor = Every(LAMBDA r : r.actor)
       /\ flags.modality = Every(LAMBDA r : r.modality)
       /\ flags.pages = Every(LAMBDA r : r.pages)
       /\ flags.negation = ~Every(LAMBDA r : ~r.negation)

Trustworthy(manifest, flags) ==
    /\ flags.hashMatched
    /\ flags.detailed
    /\ {i.code : i \in flags.issues}
           \cap {"EMPTY_SOURCE", "SOURCE_HASH_MISMATCH"} = {}
    /\ Complete(flags, Ids(manifest))
    /\ flags.total = Cardinality(Ids(manifest))
    /\ \A i \in DOMAIN flags.results : Intrinsic(flags.results[i])
    /\ \A i \in DOMAIN manifest.actions :
          manifest.actions[i].status = "verified" =>
              \A j \in DOMAIN flags.results :
                  flags.results[j].id = manifest.actions[i].id =>
                      flags.results[j].passed
    /\ Consistent(flags)

CarriedByV02(manifest, id, text) ==
    /\ IsValid(manifest)
    /\ text # Blank
    /\ manifest.version = "0.2.0"
    /\ manifest.source.id = id
    /\ manifest.source.hash = text
    /\ Provenanced(manifest)
    /\ UniqueIds(manifest)
    /\ \A i \in DOMAIN manifest.actions :
          /\ Unreviewed(manifest.actions[i])
          /\ Resolved(manifest.actions[i], id, text)
    /\ Receipted(manifest) # None
    /\ Trustworthy(manifest, Receipted(manifest))

PrepareV02(manifest, id, text) ==
    IF CarriedByV02(manifest, id, text) THEN manifest ELSE None

(* runAgentRequest, which never trusts a receipt that comes in: an extract *)
(* starts from the source, a verify from a candidate of the same source.   *)
AgentSource(id, text) == id # None /\ text # Blank

AgentCandidate(manifest, id, text) ==
    /\ IsValid(manifest)
    /\ manifest.version = "0.2.0"
    /\ manifest.source = [id |-> id, hash |-> text]
    /\ \A i \in DOMAIN manifest.actions :
          \A j \in DOMAIN manifest.actions[i].evidence :
              manifest.actions[i].evidence[j].source = id
    /\ Provenanced(manifest)
    /\ \A i \in DOMAIN manifest.actions : Unreviewed(manifest.actions[i])

(* A defect for the checks: a receipt that comes in is believed.           *)
AgentEcho(manifest, id, text) ==
    IF manifest = None THEN None
    ELSE IF Receipted(manifest) # None THEN manifest
    ELSE VerifyManifest(manifest, TextDocument(id, text))

AgentAnswer(manifest, id, text) ==
    IF manifest # None /\ UniqueIds(manifest)
    THEN VerifyManifest(manifest, TextDocument(id, text)) ELSE None

AgentVerify(manifest, id, text) ==
    IF AgentSource(id, text) /\ AgentCandidate(manifest, id, text)
    THEN AgentAnswer(manifest, id, text) ELSE None

AgentExtract(reply, id, text) ==
    IF AgentSource(id, text)
    THEN AgentAnswer(Extracted(reply, TextDocument(id, text)), id, text)
    ELSE None

(* explainCandidate: the guide for a candidate, from a fresh verification. *)
Guide(answer) ==
    IF answer = None THEN None
    ELSE [i \in DOMAIN answer.actions |->
             [id     |-> answer.actions[i].id,
              next   |-> NextStep(answer.actions[i],
                                  Classify(answer).actions[i]),
              review |-> ReviewPoints(answer.actions[i])]]

Explain(manifest, text) ==
    Guide(AgentVerify(manifest, manifest.source.id, text))

(* analyzeMatoeRequest: extract, verify, and the contract of the bridge.   *)
Analyzed(manifest, id, text) ==
    IF manifest = None THEN None
    ELSE PrepareV02(VerifyManifest(manifest, TextDocument(id, text)), id, text)

Analyze(reply, id, text) ==
    IF AgentSource(id, text)
    THEN Analyzed(Extracted(reply, TextDocument(id, text)), id, text)
    ELSE None

(* runAgentBatch: the answer of each item by itself, and the sources that  *)
(* several items name.  An item is [source, text, manifest].               *)
Batch(items) ==
    [i \in DOMAIN items |->
        AgentVerify(items[i].manifest, items[i].source, items[i].text)]

SourceReviews(items) ==
    LET Texts(id) == {items[i].text : i \in {i \in DOMAIN items :
                                                items[i].source = id}}
        Repeated  == {items[i].source : i \in {i \in DOMAIN items :
                         \E j \in DOMAIN items : /\ j # i
                                                 /\ items[j].source
                                                        = items[i].source}}
    IN {[source |-> id,
         code   |-> IF Cardinality(Texts(id)) > 1 THEN "SOURCE_ID_CONFLICT"
                    ELSE "REPEATED_SOURCE"] : id \in Repeated}
=============================================================================
