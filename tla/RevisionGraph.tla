--------------------------- MODULE RevisionGraph ---------------------------
(***************************************************************************)
(* What the decisions on revisions promise: the revisions in force are     *)
(* links between actions, and change one at a time.  A link is put in      *)
(* force only between actions that no other link has retired, and taken    *)
(* back only while nothing stands on it.  A link is a record with at least *)
(* the fields kind, before and after.                                      *)
(***************************************************************************)
VARIABLES known, inForce

Retired(ref) == \E l \in inForce : l.before = ref

Learn == known \subseteq known' /\ UNCHANGED inForce

Accept(l) ==
  /\ l.kind \in {"corrects", "cancels"}
  /\ l.before \in known /\ ~Retired(l.before)
  /\ l.kind = "corrects" => l.after \in known /\ ~Retired(l.after) /\ l.after # l.before
  /\ inForce' = inForce \cup {l} /\ UNCHANGED known

Withdraw(l) ==
  /\ ~Retired(l.after)
  /\ inForce' = inForce \ {l} /\ UNCHANGED known

Init == known = {} /\ inForce = {}
Next ==
  \/ Learn
  \/ \E l \in inForce' \ inForce : Accept(l)
  \/ \E l \in inForce \ inForce' : Withdraw(l)
Spec == Init /\ [][Next]_<<known, inForce>>
=============================================================================
