---------------------------- MODULE ManifestUse ----------------------------
(***************************************************************************)
(* The life of a manifest in the hands of a user: the command line of      *)
(* apps/cli/src/index.ts and the library calls of an application.          *)
(*                                                                         *)
(* The user has a source text that may change, keeps one manifest file and *)
(* may edit it.  Commands read both; each is one step, because it reads    *)
(* its inputs once and writes its output at the end.  judged is not kept   *)
(* by any program: it is what the last verification in this file's history *)
(* saw, [text, actions, rules], or None after an edit of its contents.     *)
(* A command that refuses its input changes nothing, and is no step.       *)
(***************************************************************************)
EXTENDS Bridges, Deterministic

CONSTANTS
    DocId,      \* the id of the source, its file name
    Scenarios,  \* [texts, later, quotes, files, replies, uses, ...]: the
                \* inputs a behaviour may see
    Kind        \* the kinds of steps that a scenario bounds

ASSUME TextsAreGiven ==
    \A scenario \in Scenarios :
        \A text \in scenario.texts \cup scenario.later :
            text # None /\ text \in Seq(Passages)

VARIABLES
    scene,      \* the scenario of this behaviour
    left,       \* the steps of each kind that are left
    source,     \* the source text as it is now
    file,       \* the manifest kept in a file, or None
    judged,
    sent        \* what the last command put out: [by, text, given, out]

manifestVars == <<source, file, judged, sent>>

Spend(kind) ==
    /\ left[kind] > 0
    /\ left' = [left EXCEPT ![kind] = @ - 1]
    /\ UNCHANGED scene

Nothing == [by |-> "nothing", text |-> Blank, given |-> None, out |-> None]

ManifestInit ==
    /\ source \in scene.texts
    /\ file \in scene.files
    /\ judged = None
    /\ sent = Nothing

Document == PlainDocument(DocId, source)

Judgement(actions, rules) ==
    [text |-> source, actions |-> actions, rules |-> rules]

EditSource(text) ==
    /\ Spend("EditSource")
    /\ text # source
    /\ source' = text
    /\ UNCHANGED <<file, judged, sent>>

(* extract, with the deterministic provider or with whatever a language    *)
(* model replies: the JSON and the calendar are written under one policy.  *)
Policies == {"all", "verified-only"}

Written(manifest) ==
    /\ Exportable(manifest)
    /\ \E include \in Policies :
          /\ file' = JsonExport(manifest, include)
          /\ sent' = [by |-> "calendar", text |-> source, given |-> manifest,
                      out |-> Calendar(manifest, include)]

Answered(found, rules) ==
    /\ found # None
    /\ \/ Written(found) /\ judged' = None
       \/ \E manifest \in {VerifyManifest(found, Document)} :
             /\ Written(manifest)
             /\ judged' = Judgement(manifest.actions, rules)

Extract ==
    /\ Spend("Extract")
    /\ IsCanonical(Document)
    /\ \/ \E found \in {Extracted(ExtractDeterministically(Document),
                                  Document)} : Answered(found, TRUE)
       \/ \E reply \in scene.replies :
             \E found \in {Extracted(reply, Document)} : Answered(found, FALSE)
    /\ UNCHANGED source

(* The exporters, called with the manifest of the file.                    *)
Export(include) ==
    /\ Spend("Export")
    /\ file # None
    /\ Exportable(file)
    /\ sent' = [by |-> "calendar", text |-> source, given |-> file,
                out |-> Calendar(file, include)]
    /\ UNCHANGED <<source, file, judged>>

(* A person decides about an action: its status, and nothing else.         *)
Review(i, status) ==
    /\ Spend("Review")
    /\ file' = [file EXCEPT !.actions[i].status = status]
    /\ UNCHANGED <<source, judged, sent>>

(* A person edits the contents by hand: another quote, or another action.  *)
Alter(i, passage) ==
    LET edited == [file.actions[i] EXCEPT !.evidence[1].passage = passage]
    IN /\ Spend("Alter")
       /\ \/ file' = [file EXCEPT !.actions[i] = edited]
          \/ file' = [file EXCEPT
                        !.actions = Append(@, [edited EXCEPT
                                                  !.id = Len(file.actions) + 1])]
       /\ judged' = None
       /\ UNCHANGED <<source, sent>>

(* An application verifies its file again and keeps the result.            *)
Reverify ==
    /\ Spend("Reverify")
    /\ IsValid(file)
    /\ file' = VerifyManifest(file, Document)
    /\ judged' = Judgement(file'.actions, FALSE)
    /\ UNCHANGED <<source, sent>>

(* agent: the answer replaces the file.                                    *)
Agent(by, answer, rules) ==
    /\ answer # None
    /\ sent' = [by |-> by, text |-> source, given |-> file, out |-> answer]
    /\ file' = answer
    /\ judged' = Judgement(answer.actions, rules)
    /\ UNCHANGED source

OwnReply == ExtractDeterministically(TextDocument(DocId, source))

AskAgent ==
    /\ Spend("Agent")
    /\ \/ /\ file # None
          /\ \E answer \in {AgentVerify(file, DocId, source)} :
                Agent("agent verify", answer, FALSE)
       \/ \E answer \in {AgentExtract(OwnReply, DocId, source)} :
             Agent("agent extract", answer, TRUE)

(* A command that only puts something out.                                 *)
PutOut(by, given, out) ==
    /\ out # None
    /\ sent' = [by |-> by, text |-> source, given |-> given, out |-> out]
    /\ UNCHANGED <<source, file, judged>>

(* prepare-matoe, and the same for the contract of version 0.2.            *)
Prepare ==
    /\ Spend("Prepare")
    /\ file # None
    /\ \/ PutOut("matoe 0.1", file, PrepareV01(file, source))
       \/ PutOut("matoe 0.2", file, PrepareV02(file, DocId, source))

(* analyze-matoe *)
AskAnalysis ==
    /\ Spend("Analyze")
    /\ PutOut("analysis", source, Analyze(OwnReply, DocId, source))

(* explain *)
AskGuide ==
    /\ Spend("Explain")
    /\ file # None
    /\ PutOut("guide", file, Explain(file, source))

(* agent-batch, with the file twice: for this text and for another one.    *)
AskBatch(id, text) ==
    LET items == <<[source |-> DocId, text |-> source, manifest |-> file],
                   [source |-> id, text |-> text, manifest |-> file]>>
    IN /\ Spend("Batch")
       /\ file # None
       /\ PutOut("batch", items, [answers |-> Batch(items),
                                  reviews |-> SourceReviews(items)])

ManifestNext ==
    \/ \E text \in scene.later : EditSource(text)
    \/ Extract
    \/ \E include \in Policies : Export(include)
    \/ /\ file # None
       /\ \E i \in DOMAIN file.actions :
             \/ \E status \in {"accepted", "rejected"} : Review(i, status)
             \/ \E passage \in scene.quotes : Alter(i, passage)
    \/ file # None /\ Reverify
    \/ AskAgent
    \/ Prepare
    \/ AskAnalysis
    \/ AskGuide
    \/ \E id \in {DocId, None}, text \in scene.later : AskBatch(id, text)
=============================================================================
