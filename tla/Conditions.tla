----------------------------- MODULE Conditions -----------------------------
(***************************************************************************)
(* Whether a condition applies, from facts the user keeps:                 *)
(* packages/consumer/src/assistance-conditions.ts.                         *)
(*                                                                         *)
(* A rule is a function from the numbers of its nodes, the root being 1,   *)
(* to [op, fact, values, rules]: a leaf compares a fact with values, and   *)
(* the others combine the nodes in rules, each with a greater number.  A   *)
(* fact is [key, value, expires], where expires may be Never.              *)
(***************************************************************************)
EXTENDS Naturals, FiniteSetsExt

CONSTANTS Never, MaxDepth, MaxRules

Leaf(node) == node.op \in {"eq", "in"}

(* validatePredicate *)
Depth(rule) ==
    LET depth[n \in DOMAIN rule] ==
            IF Leaf(rule[n]) THEN 0
            ELSE 1 + Max({depth[m] : m \in rule[n].rules})
    IN depth[1]

ValidRule(rule) ==
    /\ \A n \in DOMAIN rule :
          /\ rule[n].op \in {"eq", "in", "not", "all", "any"}
          /\ rule[n].op = "eq" => Cardinality(rule[n].values) = 1
          /\ rule[n].op = "in" => rule[n].values # {}
          /\ rule[n].op = "not" => Cardinality(rule[n].rules) = 1
          /\ ~Leaf(rule[n]) => rule[n].rules # {}
    /\ Cardinality(DOMAIN rule) <= MaxRules
    /\ Depth(rule) <= MaxDepth

(* lookup: what is known of a fact now.  An expired fact is not known, and *)
(* two current values that differ contradict each other.                   *)
Current(facts, key, now) ==
    {f \in facts : /\ f.key = key
                   /\ f.expires = Never \/ f.expires > now}

Values(facts, key, now) == {f.value : f \in Current(facts, key, now)}

Reason(facts, key, now) ==
    LET values == Values(facts, key, now)
    IN CASE Cardinality(values) = 1 -> "FACT_KNOWN"
         [] Cardinality(values) > 1 -> "FACT_CONFLICT"
         [] values = {} -> IF \E f \in facts : f.key = key
                           THEN "FACT_EXPIRED" ELSE "FACT_MISSING"

(* run: true, false or unknown, node by node from the leaves.              *)
Compared(node, facts, now) ==
    IF Reason(facts, node.fact, now) # "FACT_KNOWN" THEN "unknown"
    ELSE IF Values(facts, node.fact, now) \subseteq node.values
    THEN "applies" ELSE "not_applicable"

First(states, preferred, second, third) ==
    IF preferred \in states THEN preferred
    ELSE IF second \in states THEN second ELSE third

Combined(op, states) ==
    CASE op = "not" -> IF "unknown" \in states THEN "unknown"
                       ELSE IF "applies" \in states THEN "not_applicable"
                       ELSE "applies"
      [] op = "all" -> First(states, "not_applicable", "unknown", "applies")
      [] op = "any" -> First(states, "applies", "unknown", "not_applicable")

Leaves(rule) == {n \in DOMAIN rule : Leaf(rule[n])}

States(rule, compared) ==
    LET run[n \in DOMAIN rule] ==
            IF n \in Leaves(rule) THEN compared[n]
            ELSE Combined(rule[n].op, {run[m] : m \in rule[n].rules})
    IN run

Applicability(rule, facts, now) ==
    States(rule, [n \in Leaves(rule) |-> Compared(rule[n], facts, now)])[1]

KeysOf(rule) == {rule[n].fact : n \in Leaves(rule)}

(* A defect for the checks: a verdict holds until the last one expires.    *)
UntilLast(rule, facts, now) ==
    LET current  == UNION {Current(facts, k, now) : k \in KeysOf(rule)}
        expiries == {f.expires : f \in current} \ {Never}
    IN IF expiries = {} THEN Never ELSE Max(expiries)

(* A verdict holds until the first of the facts it looked at expires, the  *)
(* ones that did not decide it included.                                   *)
ValidUntil(rule, facts, now) ==
    LET current  == UNION {Current(facts, k, now) : k \in KeysOf(rule)}
        expiries == {f.expires : f \in current} \ {Never}
    IN IF expiries = {} THEN Never ELSE Min(expiries)

(* evaluatePredicate, of a ValidRule: what is missing or in conflict is    *)
(* told only when it leaves the verdict unknown.                           *)
EvaluatePredicate(rule, facts, now) ==
    LET state   == Applicability(rule, facts, now)
        lacking == {k \in KeysOf(rule) : Reason(facts, k, now) # "FACT_KNOWN"}
        told    == IF state = "unknown" THEN lacking ELSE {}
    IN [state     |-> state,
        until     |-> ValidUntil(rule, facts, now),
        missing   |-> told,
        reasons   |-> {Reason(facts, k, now) : k \in told},
        conflicts |-> {k \in told : Reason(facts, k, now) = "FACT_CONFLICT"}]
=============================================================================
