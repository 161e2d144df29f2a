-------------------------- MODULE ConfirmedCreation --------------------------
(***************************************************************************)
(* What the local workflow promises its user, without journal, calls or    *)
(* clock: a record is made only for a step the user has granted and not    *)
(* withdrawn, and never a second one for the same key.                     *)
(***************************************************************************)
CONSTANTS Workflows, Slot, Keys

VARIABLES
  granted,    \* [Workflows -> SUBSET Slot]: steps the user allows right now
  withdrawn,  \* workflows the user cancelled
  made        \* the local records that exist

promise == <<granted, withdrawn, made>>

Init ==
  /\ granted = [w \in Workflows |-> {}]
  /\ withdrawn = {}
  /\ made = {}

Grant(w, steps) ==
  /\ w \notin withdrawn
  /\ granted' = [granted EXCEPT ![w] = steps]
  /\ UNCHANGED <<withdrawn, made>>

\* Grants run out, or are taken back to be renewed.
Lapse ==
  /\ granted' \in [Workflows -> SUBSET Slot]
  /\ \A w \in Workflows : granted'[w] \subseteq granted[w]
  /\ UNCHANGED <<withdrawn, made>>

Withdraw(w) ==
  /\ withdrawn' = withdrawn \cup {w}
  /\ granted' = [granted EXCEPT ![w] = {}]
  /\ UNCHANGED made

Make(w, s, k) ==
  /\ s \in granted[w] /\ w \notin withdrawn
  /\ \A m \in made : m.key # k
  /\ made' = made \cup {[key |-> k, wf |-> w, slot |-> s]}
  /\ UNCHANGED <<granted, withdrawn>>

\* The user deletes a record.
Lose == (\E m \in made : made' = made \ {m}) /\ UNCHANGED <<granted, withdrawn>>

Next ==
  \/ \E w \in Workflows, steps \in SUBSET Slot : Grant(w, steps)
  \/ Lapse
  \/ \E w \in Workflows : Withdraw(w)
  \/ \E w \in Workflows, s \in Slot, k \in Keys : Make(w, s, k)
  \/ Lose

Spec == Init /\ [][Next]_promise
=============================================================================
