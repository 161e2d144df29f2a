------------------------------- MODULE Trust -------------------------------
(***************************************************************************)
(* Who may use an action: the trust policy of packages/core (trust.ts,     *)
(* receipt.ts) and what reads it: the consumer (classify.ts), the export   *)
(* policy, the JSON and iCalendar exporters, the verification report and   *)
(* the action guide.                                                       *)
(***************************************************************************)
EXTENDS Verification

UniqueIds(manifest) ==
    \A i, j \in DOMAIN manifest.actions :
        manifest.actions[i].id = manifest.actions[j].id => i = j

(* manifestFatalReasons *)
FatalReasons(flags) ==
    (IF flags.hashMatched THEN {} ELSE {"SOURCE_HASH_MISMATCH"})
    \cup ({i.code : i \in flags.issues} \cap {"EMPTY_SOURCE"})

VerifiedTier == {"verified", "accepted", "exported"}

(* aggregateClean: an older receipt speaks for all actions or for none.    *)
AggregateClean(flags) ==
    AllSupported(flags) /\ flags.hashMatched /\ Errors(flags.issues) = {}

(* Where the results with the action's id are; find returns the first one. *)
ResultsFor(action, flags) ==
    {i \in DOMAIN flags.results : flags.results[i].id = action.id}

(* evaluateActionTrust: the first condition that holds is the reason.      *)
(* A defect for the checks: the verdict on the whole stands for each one.  *)
TrustOfFlags(found, status, flags) ==
    IF status \in VerifiedTier THEN "READY" ELSE "STATUS_NOT_VERIFIED_TIER"

TrustOf(found, status, flags) ==
    IF found = {} /\ ~AggregateClean(flags) THEN "PER_ACTION_RESULT_MISSING"
    ELSE IF found # {} /\ ~flags.results[Min(found)].passed
    THEN "VERIFICATION_FAILED"
    ELSE IF status \notin VerifiedTier THEN "STATUS_NOT_VERIFIED_TIER"
    ELSE "READY"

TrustReason(action, flags) ==
    IF flags # None /\ FatalReasons(flags) # {} THEN "MANIFEST_FATAL"
    ELSE IF action.status = "rejected" THEN "ACTION_REJECTED"
    ELSE IF flags = None THEN "VERIFICATION_MISSING"
    ELSE TrustOf(ResultsFor(action, flags), action.status, flags)

(* trustDispositionFor *)
Disposition(reason) ==
    CASE reason = "READY" -> "ready"
      [] reason \in {"MANIFEST_FATAL", "ACTION_REJECTED",
                     "VERIFICATION_FAILED"} -> "blocked"
      [] OTHER -> "review_required"

Ready(action, flags) == TrustReason(action, flags) = "READY"

(* classifyManifest: a disposition for each action, the fatal reasons, and *)
(* the counts that the command line's exit code depends on.                *)
Classify(manifest) ==
    LET flags == Receipted(manifest)
        dispositions ==
            [i \in DOMAIN manifest.actions |->
                Disposition(TrustReason(manifest.actions[i], flags))]
    IN [fatal   |-> IF flags = None THEN {} ELSE FatalReasons(flags),
        actions |-> dispositions,
        counts  |-> [d \in {"ready", "review_required", "blocked"} |->
                        Len(SelectSeq(dispositions, LAMBDA x : x = d))]]

(* readyActions *)
ReadyActions(manifest) ==
    Those(manifest.actions,
          {a \in Range(manifest.actions) : Ready(a, Receipted(manifest))})

(* assertExportable *)
Exportable(manifest) ==
    Receipted(manifest) # None => FatalReasons(Receipted(manifest)) = {}

(* selectExportableActions, for "verified-only" and for "all".             *)
Selected(manifest, include) ==
    IF include = "all" THEN manifest.actions
    ELSE ReadyActions(manifest)

(* exportJson: the actions are filtered, the receipt is not.               *)
JsonExport(manifest, include) ==
    [manifest EXCEPT !.actions = Selected(manifest, include)]

(* primaryDate: conditional, approximate and relative dates are never an   *)
(* appointment; the end of a period stands in for a missing date.          *)
ExecutableDate(temporal) ==
    IF temporal = None \/ temporal.type \notin {"exact", "range"} THEN None
    ELSE IF temporal.date # None THEN temporal.date
    ELSE temporal.end

(* conditionalAlternative: the date that a comment of an event mentions.   *)
AlternativeDate(temporal) ==
    LET dated       == {t \in temporal.alternatives : t.date # None}
        conditional == {t \in dated : t.type = "conditional"}
    IN IF dated = {} THEN None
       ELSE (CHOOSE t \in (IF conditional # {} THEN conditional ELSE dated) :
                TRUE).date

EventKinds == {"event", "attend"}

TodoKinds == {"submit", "prepare", "pay", "deadline", "sign", "reply"}

(* exportIcs: a VEVENT or a VTODO for each selected action with a date;    *)
(* the UID names source and action, never the revision of the source.      *)
CalendarEntry(manifest, action, include) ==
    [uid     |-> <<manifest.source.id, action.id>>,
     kind    |-> IF action.kind \in EventKinds THEN "VEVENT" ELSE "VTODO",
     date    |-> ExecutableDate(action.temporal),
     comment |-> IF action.kind \in EventKinds
                 THEN AlternativeDate(action.temporal) ELSE None,
     marks   |-> IF include = "all"
                 THEN <<action.status,
                        Disposition(TrustReason(action, Receipted(manifest)))>>
                 ELSE None]

Calendar(manifest, include) ==
    LET Entered(a) == /\ a.kind \in EventKinds \cup TodoKinds
                      /\ ExecutableDate(a.temporal) # None
        chosen == SelectSeq(Selected(manifest, include), Entered)
    IN [i \in DOMAIN chosen |-> CalendarEntry(manifest, chosen[i], include)]

(* verificationVerdict *)
Verdict(flags) ==
    IF flags.detailed /\ flags.passed THEN "PASS"
    ELSE IF flags.detailed /\ flags.verified \in 1..(flags.total - 1)
         THEN "PARTIAL"
    ELSE "FAIL"

(* formatVerification: the mark of each action.  Its results are kept in a *)
(* Map by id, so of two results with one id the last one counts.           *)
ReportMark(action, flags) ==
    LET found == ResultsFor(action, flags)
    IN IF /\ found # {}
          /\ flags.results[Max(found)].passed
          /\ flags.hashMatched
          /\ "EMPTY_SOURCE" \notin {i.code : i \in flags.issues}
       THEN "VERIFIED" ELSE "FAILED"

(* explainManifest: the next step the guide gives for an action.           *)
MappedKinds == {"event", "deadline", "submit", "prepare", "pay", "review",
                "reply", "sign", "attend", "contact", "read", "complete",
                "other"}

NextStep(action, disposition) ==
    CASE disposition = "blocked" -> "do_not_use"
      [] disposition = "review_required" -> "resolve_verification"
      [] OTHER -> IF \/ action.kind \notin MappedKinds
                     \/ action.modality \in {"prohibited", "unknown"}
                  THEN "human_decides" ELSE "approve_separately"

(* The review points of the guide that depend on what is not evaluated.    *)
ReviewPoints(action) ==
    (IF \/ action.conditions # {}
        \/ action.temporal # None /\ action.temporal.type = "conditional"
     THEN {"conditions"} ELSE {})
    \cup (IF action.temporal = None THEN {"no_date"}
          ELSE (IF action.temporal.type # "exact" \/ action.temporal.date = None
                THEN {"not_one_date"} ELSE {})
               \cup (IF action.temporal.alternatives # {}
                     THEN {"alternatives"} ELSE {}))
    \cup (IF action.actor.certainty # "explicit" THEN {"actor"} ELSE {})
    \cup (IF action.modality # "required" THEN {action.modality} ELSE {})
    \cup (IF action.kind \in MappedKinds THEN {} ELSE {"no_operation"})
    \cup (IF action.kind \in {"pay", "submit", "reply", "contact", "sign"}
          THEN {"done_elsewhere"} ELSE {})
    \cup (IF action.status \in {"accepted", "exported"}
          THEN {"status_proves_nothing"} ELSE {})
=============================================================================
