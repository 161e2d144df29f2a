---------------------------- MODULE Consumption ----------------------------
(***************************************************************************)
(* A user who has manifests made and verified, passes them on, looks up    *)
(* evidence, and asks which conditions apply: the parts of ManifestUse and *)
(* EvidenceUse, and the facts of the assistance rules over time.           *)
(***************************************************************************)
EXTENDS EvidenceUse, Conditions

\* The facts of the user are finitely many, a rule is a finite tree.
ASSUME FactsAreGiven ==
    \A scenario \in Scenarios : \A some \in scenario.facts :
        IsFiniteSet(some) /\ \A f \in some : f.expires \in Nat \cup {Never}

ASSUME RulesAreGiven ==
    \A scenario \in Scenarios : \A rule \in scenario.rules :
        /\ 1 \in DOMAIN rule /\ rule \in Seq(Range(rule))
        /\ \A n \in DOMAIN rule : rule[n].rules \subseteq n+1..Len(rule)

VARIABLES
    now,        \* the time
    facts,      \* the facts the user keeps
    verdict     \* the last evaluation: [rule, facts, at, result], or None

factVars == <<now, facts, verdict>>

vars == <<scene, left, manifestVars, evidenceVars, factVars>>

FactInit ==
    /\ now = 0
    /\ facts \in scene.facts
    /\ verdict = None

ChangeFacts(some) ==
    /\ Spend("ChangeFacts")
    /\ some # facts
    /\ facts' = some
    /\ UNCHANGED <<now, verdict>>

Evaluate(rule) ==
    /\ Spend("Evaluate")
    /\ ValidRule(rule)
    /\ verdict' = [rule |-> rule, facts |-> facts, at |-> now,
                   result |-> EvaluatePredicate(rule, facts, now)]
    /\ UNCHANGED <<now, facts>>

Tick ==
    /\ Spend("Tick")
    /\ now' = now + 1
    /\ UNCHANGED <<facts, verdict>>

FactNext ==
    \/ \E some \in scene.facts : ChangeFacts(some)
    \/ \E rule \in scene.rules : Evaluate(rule)
    \/ Tick

Init ==
    /\ scene \in Scenarios
    /\ left = scene.uses
    /\ ManifestInit
    /\ EvidenceInit
    /\ FactInit

Next ==
    \/ ManifestNext /\ UNCHANGED <<evidenceVars, factVars>>
    \/ EvidenceNext /\ UNCHANGED <<manifestVars, factVars>>
    \/ FactNext /\ UNCHANGED <<manifestVars, evidenceVars>>

Spec == Init /\ [][Next]_vars
=============================================================================
