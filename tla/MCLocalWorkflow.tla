--------------------------- MODULE MCLocalWorkflow ---------------------------
(* Small instances of LocalWorkflow.  A scenario bounds the calls of each    *)
(* kind and the faults, crashes, edits, losses and ticks.                    *)
EXTENDS LocalWorkflowProperties, TLC

CONSTANTS w1, w2, k1, k2, list, p1, p2, f1, f2

TwoActions == (w1 :> <<k1, k2>>)
SharedAction == (w1 :> <<k1, k2>> @@ w2 :> <<k1>>)
OneList == [k \in Keys |-> list]
\* Under f1 both actions stay ready; under f2 the second one never is.
Ready == [f \in FactSets |-> [k \in Keys |-> IF f = f2 /\ k = k2 THEN 0 ELSE 9]]

\* One plan created, confirmed and executed once, unless "some" says otherwise.
Times(some) ==
  [k \in Kind |->
    IF k \in DOMAIN some THEN some[k]
    ELSE IF k \in {"Plan", "Create", "Request", "Confirm", "Execute"} THEN 1 ELSE 0]

Race == Times([Execute |-> 2, Cancel |-> 1, Verify |-> 1])
Renewal == Times([Request |-> 2, Confirm |-> 2, Cancel |-> 1, tick |-> 2])
Retry == Times([Execute |-> 2, fault |-> 1, crash |-> 1])
Reconcile == Times([Request |-> 2, Verify |-> 1, fault |-> 1])
Change == Times([Execute |-> 2, edit |-> 1, loss |-> 1])
ChangeTwice == Times([Verify |-> 1, edit |-> 2, loss |-> 1])
Replan == Times([Plan |-> 2, Create |-> 2, Request |-> 2, Confirm |-> 2, Execute |-> 2])
Safety == {Race, Renewal, Retry, Reconcile, Change, ChangeTwice, Replan}

OneExecute == Times([Request |-> 2, Confirm |-> 2, Cancel |-> 1, Verify |-> 2])
Unreliable == Times([Execute |-> 2, Cancel |-> 1, fault |-> 1])
Reports == {OneExecute, Unreliable}

Twice == {Times([Execute |-> 2])}
Expiry == {Times([tick |-> 2])}
Receipt == {Times([Verify |-> 1])}

Symmetric == Permutations(Callers)
=============================================================================
