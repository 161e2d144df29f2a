--------------------------- MODULE RegistryTruth ---------------------------
(***************************************************************************)
(* What the answers of the registry say of one version of a package:       *)
(* scripts/registry-truth.ts.                                              *)
(*                                                                         *)
(* answers has the last answer to each of the three questions.             *)
(***************************************************************************)

Sources == <<"exact", "tags", "root">>
Transient == {"timeout", "network", "parse"}
Answers == {"ok", "notfound"} \cup Transient
States ==
    {"PUBLISHED_VERIFIED", "ABSENT", "PROPAGATING", "INCONSISTENT", "UNKNOWN"}

(* A defect for the checks: bytes that were not compared count as the same. *)
SettledUncompared(same) ==
    IF same = "no" THEN "INCONSISTENT" ELSE "PUBLISHED_VERIFIED"

Settled(same) ==
    CASE same = "no"      -> "INCONSISTENT"
      [] same = "yes"     -> "PUBLISHED_VERIFIED"
      [] same = "unknown" -> "UNKNOWN"

(* classifyThreeSourceTruth, evaluateDistTags.  named: whether the tag for  *)
(* the version names it.  same: whether the published bytes are the         *)
(* canonical ones, unknown when one of them is not there.  A 404 is always  *)
(* exhausted: probeRegistryWithRetries has asked as often as it may.        *)
Classify(answers, named, same) ==
    IF \E source \in DOMAIN answers : answers[source] \in Transient
    THEN "UNKNOWN"
    ELSE IF answers["root"] = "notfound"
    THEN IF answers["exact"] = "ok" THEN "PROPAGATING"
         ELSE IF answers["tags"] = "ok" THEN "INCONSISTENT"
         ELSE "ABSENT"
    ELSE IF answers["exact"] = "ok" /\ answers["tags"] = "ok" /\ named
    THEN Settled(same)
    ELSE "INCONSISTENT"

(* verifyPackagesOnRegistry: the worst of the states.                      *)
Overall(states) ==
    IF "UNKNOWN" \in states THEN "UNKNOWN"
    ELSE IF "INCONSISTENT" \in states THEN "INCONSISTENT"
    ELSE IF "PROPAGATING" \in states THEN "PROPAGATING"
    ELSE IF "ABSENT" \in states THEN "ABSENT"
    ELSE "PUBLISHED_VERIFIED"
=============================================================================
