----------------------------- MODULE Extraction -----------------------------
(***************************************************************************)
(* ActionExtractor of packages/extractor/src/extractor.ts: from the reply  *)
(* of a provider to a manifest.  A reply is [wellFormed, actions]; its     *)
(* actions may lack an id or a status, and their quotes a source.  The     *)
(* number i stands for the default id "act_00i" of the i-th action.        *)
(***************************************************************************)
EXTENDS Trust

Quoted(quote, doc) == [quote EXCEPT !.source = Provided(@, doc.id)]

(* What the reply says of an action stands, its id and status included.    *)
Candidate(raw, i, doc) ==
    [raw EXCEPT !.id       = Provided(@, i),
                !.status   = Provided(@, "proposed"),
                !.evidence = [j \in DOMAIN @ |-> Quoted(@[j], doc)]]

(* ActionExtractor.extract, which throws (None) on a reply that is no JSON *)
(* object with actions, or that makes no valid manifest.                   *)
Candidates(reply, doc) ==
    [version |-> "0.2.0",
     source  |-> [id |-> doc.id, hash |-> EnsureSourceHash(doc).hash],
     actions |-> [i \in DOMAIN reply.actions |->
                     Candidate(reply.actions[i], i, doc)],
     receipt |-> [extraction   |-> [known |-> TRUE, version |-> "0.2.0"],
                  verification |-> None]]

ValidOrNone(manifest) == IF IsValid(manifest) THEN manifest ELSE None

Extracted(reply, doc) ==
    IF reply.wellFormed THEN ValidOrNone(Candidates(reply, doc)) ELSE None
=============================================================================
