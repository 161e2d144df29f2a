----------------------------- MODULE Freshness -----------------------------
(***************************************************************************)
(* Whether pinned quotes still stand in their sources:                     *)
(* packages/core/src/evidence-freshness.ts.                                *)
(*                                                                         *)
(* A source is [id, text, deleted], a pin [source, text, quote], where the *)
(* text stands for its hash.  A check is [read, known, results, ended]: how *)
(* many sources it has read, what it knows of each id, and the reasons so  *)
(* far.  It reads one source or one pin at a step and gives way between    *)
(* steps, so that the caller may change the sources or abort.              *)
(***************************************************************************)
EXTENDS Documents

(* pinEvidence throws (None) unless the quote is in a source that is there. *)
PinEvidence(source, quote) ==
    IF source.deleted \/ ~Quotes(source.text, quote) THEN None
    ELSE [source |-> source.id, text |-> source.text, quote |-> quote]

NewCheck == [read |-> 0, known |-> <<>>, results |-> <<>>, ended |-> FALSE]

(* One source: a second one with its id makes the id ambiguous for good.   *)
Noted(known, source) ==
    [id \in DOMAIN known \cup {source.id} |->
        IF id # source.id THEN known[id]
        ELSE IF id \in DOMAIN known THEN None ELSE source]

ReadSource(check, source) ==
    [check EXCEPT !.read = @ + 1, !.known = Noted(@, source)]

FreshnessReason(known, pin, aborted) ==
    IF aborted THEN "cancelled"
    ELSE IF pin.source \notin DOMAIN known THEN "missing_source"
    ELSE IF known[pin.source] = None THEN "ambiguous_source"
    ELSE IF known[pin.source].deleted THEN "deleted_source"
    ELSE IF known[pin.source].text # pin.text THEN "changed_source"
    ELSE IF Quotes(known[pin.source].text, pin.quote) THEN "fresh"
    ELSE "quote_missing"

ReadPin(check, pin, aborted) ==
    [check EXCEPT
        !.results = Append(@, FreshnessReason(check.known, pin, aborted))]

(* A defect for the checks: the results before an abort count.             *)
KeepResults(check, aborted) == [check EXCEPT !.ended = TRUE]

(* The end: after an abort no result counts, the earlier ones neither.     *)
EndCheck(check, aborted) ==
    [check EXCEPT
        !.ended   = TRUE,
        !.results = IF aborted THEN [i \in DOMAIN @ |-> "cancelled"] ELSE @]

(* checkEvidenceFreshness, the variant that gives way to nobody.           *)
AllKnown(sources) ==
    LET known[k \in 0..Len(sources)] ==
            IF k = 0 THEN NewCheck.known ELSE Noted(known[k-1], sources[k])
    IN known

CheckAtOnce(pins, sources) ==
    [i \in DOMAIN pins |->
        FreshnessReason(AllKnown(sources)[Len(sources)], pins[i], FALSE)]
=============================================================================
