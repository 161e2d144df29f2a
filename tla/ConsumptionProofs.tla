-------------------------- MODULE ConsumptionProofs --------------------------
(* That nothing ready leaves the pipeline unverified, that a verdict on a   *)
(* condition stands, and that fresh evidence is current: for any manifests, *)
(* texts, replies, rules, facts and shelves, and any order of the commands. *)
EXTENDS ConsumptionProperties, FiniteSetTheorems, WellFoundedInduction, TLAPS

-----------------------------------------------------------------------------
(* Least and greatest elements, and the tree of a condition.                 *)

\* The natural numbers have least elements, and bounded sets greatest ones.
Less == {pair \in Nat \X Nat : pair[1] < pair[2]}

LEMMA LessIsWellFounded == IsWellFoundedOn(Less, Nat)
<1>1. OpToRel(<, Nat) = Less
  BY DEF OpToRel, Less
<1> QED
  BY <1>1, NatLessThanWellFounded

LEMMA Minimum ==
  ASSUME NEW T \in SUBSET Nat, T # {}
  PROVE  \E m \in T : \A k \in T : m <= k
<1>1. PICK m \in T : \A k \in T : ~(<<k, m>> \in Less)
  BY LessIsWellFounded, WFMin
<1>2. \A k \in T : m <= k
  <2> TAKE k \in T
  <2>1. k \in Nat /\ m \in Nat
    OBVIOUS
  <2>2. k < m => <<k, m>> \in Less
    BY <2>1 DEF Less
  <2> QED
    BY <1>1, <2>1, <2>2
<1> QED
  BY <1>2

LEMMA Maximum ==
  ASSUME NEW n \in Nat, NEW S \in SUBSET (1 .. n), S # {}
  PROVE  \E i \in S : \A j \in S : j <= i
<1> DEFINE T == {m \in Nat : n - m \in S}
<1>1. T \subseteq Nat /\ T # {}
  <2>1. PICK i \in S : TRUE
    OBVIOUS
  <2>2. n - i \in Nat /\ n - (n - i) = i
    BY <2>1
  <2> QED
    BY <2>1, <2>2
<1>2. PICK m \in T : \A k \in T : m <= k
  BY <1>1, Minimum
<1>3. n - m \in S /\ \A j \in S : n - j \in T
  BY <1>1
<1> QED
  BY <1>1, <1>2, <1>3

-----------------------------------------------------------------------------
(* The evaluation of a condition.                                            *)

\* The shape that RulesAreGiven demands: rules come after the rule they are part of.
Tree(rule) ==
  /\ 1 \in DOMAIN rule /\ rule \in Seq(Range(rule))
  /\ \A n \in DOMAIN rule : rule[n].rules \subseteq n+1..Len(rule)

\* What the evaluation assigns to one node, from what it assigned to its parts.
StateOf(rule, compared, run, n) ==
  IF n \in Leaves(rule) THEN compared[n]
  ELSE Combined(rule[n].op, {run[m] : m \in rule[n].rules})

\* An evaluation of the nodes from the k-th on.
RunFrom(rule, compared, k, run) ==
  run = [n \in k .. Len(rule) |-> StateOf(rule, compared, run, n)]

\* An evaluation exists: it is built from the last node back to the first.
LEMMA RunExists ==
  ASSUME NEW rule, Tree(rule), NEW compared
  PROVE  \E run : RunFrom(rule, compared, 1, run)
<1> DEFINE N == Len(rule)
           Bad == {k \in 1 .. N+1 : ~ \E run : RunFrom(rule, compared, k, run)}
<1>0. N \in Nat /\ N >= 1 /\ DOMAIN rule = 1 .. N
  BY DEF Tree
<1> SUFFICES ASSUME Bad # {} PROVE FALSE
  BY <1>0
<1>1. PICK k \in Bad : \A j \in Bad : j <= k
  <2>1. N + 1 \in Nat /\ Bad \in SUBSET (1 .. N+1)
    BY <1>0
  <2> HIDE DEF Bad
  <2> QED BY <2>1, Maximum
<1>2. k \in 1 .. N+1
  OBVIOUS
<1>3. CASE k = N + 1
  <2> DEFINE run == [n \in k .. N |-> StateOf(rule, compared, <<>>, n)]
  <2>1. k .. N = {}
    BY <1>0, <1>3
  <2>2. run = [n \in k .. N |-> StateOf(rule, compared, run, n)]
    BY <2>1
  <2> QED BY <2>2 DEF RunFrom
<1>4. CASE k # N + 1
  <2>1. k + 1 \in 1 .. N+1 /\ k + 1 \notin Bad
    BY <1>0, <1>1, <1>2, <1>4
  <2>2. PICK run : RunFrom(rule, compared, k + 1, run)
    BY <2>1
  <2> DEFINE more == [n \in k .. N |-> IF n = k THEN StateOf(rule, compared, run, k)
                                      ELSE run[n]]
  <2>3. \A n \in k .. N : StateOf(rule, compared, more, n) = StateOf(rule, compared, run, n)
    <3> TAKE n \in k .. N
    <3>1. \A m \in rule[n].rules : m \in k+1 .. N
      BY <1>0, <1>2 DEF Tree
    <3>2. \A m \in rule[n].rules : more[m] = run[m]
      BY <3>1, <1>0, <1>2
    <3>3. {more[m] : m \in rule[n].rules} = {run[m] : m \in rule[n].rules}
      BY <3>2
    <3> QED BY <3>3 DEF StateOf
  <2>4. \A n \in k .. N : more[n] = StateOf(rule, compared, run, n)
    BY <2>2, <1>0, <1>2 DEF RunFrom
  <2>5. more = [n \in k .. N |-> StateOf(rule, compared, more, n)]
    BY <2>3, <2>4
  <2> HIDE DEF more
  <2> QED BY <2>5 DEF RunFrom
<1> QED BY <1>3, <1>4

\* So States is one.
LEMMA StatesAre ==
  ASSUME NEW rule, Tree(rule), NEW compared
  PROVE  LET run == States(rule, compared)
         IN \A n \in DOMAIN rule : run[n] = StateOf(rule, compared, run, n)
<1>1. DOMAIN rule = 1 .. Len(rule)
  BY DEF Tree
<1>2. \E run : run = [n \in DOMAIN rule |-> StateOf(rule, compared, run, n)]
  BY <1>1, RunExists DEF RunFrom
<1>3. States(rule, compared) = CHOOSE run : run = [n \in DOMAIN rule |-> StateOf(rule, compared, run, n)]
  BY DEF States, StateOf
<1>4. States(rule, compared) = [n \in DOMAIN rule |-> StateOf(rule, compared, States(rule, compared), n)]
  BY <1>2, <1>3
<1> QED BY <1>4

\* The operators that ValidRule lets through.
Operators(rule) == \A n \in DOMAIN rule : rule[n].op \in {"eq", "in", "not", "all", "any"}

\* Whoever knows more decides every leaf as whoever knows less has decided it.
Decided(rule, less, more) ==
  \A n \in Leaves(rule) : less[n] # "unknown" => more[n] = less[n]

\* What is decided with less known stays decided, whatever more is known.
LEMMA MoreIsKnown ==
  ASSUME NEW rule, Tree(rule), Operators(rule), NEW less, NEW more, Decided(rule, less, more)
  PROVE  \A n \in DOMAIN rule : States(rule, less)[n] # "unknown" =>
             States(rule, more)[n] = States(rule, less)[n]
<1> DEFINE few == States(rule, less)
           all == States(rule, more)
           Bad == {n \in DOMAIN rule : few[n] # "unknown" /\ all[n] # few[n]}
<1>0. Len(rule) \in Nat /\ DOMAIN rule = 1 .. Len(rule)
  BY DEF Tree
<1>1. \A n \in DOMAIN rule : /\ few[n] = StateOf(rule, less, few, n)
                            /\ all[n] = StateOf(rule, more, all, n)
  BY StatesAre
<1> HIDE DEF few, all
<1> SUFFICES ASSUME Bad # {} PROVE FALSE
  BY DEF few, all
<1>2. PICK n \in Bad : \A m \in Bad : m <= n
  <2>1. Bad \in SUBSET (1 .. Len(rule))
    BY <1>0
  <2> HIDE DEF Bad
  <2> QED BY <1>0, <2>1, Maximum
<1>3. n \in DOMAIN rule /\ few[n] # "unknown" /\ all[n] # few[n]
  OBVIOUS
<1>4. \A m \in rule[n].rules : few[m] # "unknown" => all[m] = few[m]
  <2> TAKE m \in rule[n].rules
  <2>1. m \in n+1 .. Len(rule)
    BY <1>3 DEF Tree
  <2>2. m \in DOMAIN rule /\ m > n
    BY <1>0, <1>3, <2>1
  <2>3. m \notin Bad
    BY <1>2, <1>3, <1>0, <2>2
  <2> QED BY <2>2, <2>3
<1>5. n \notin Leaves(rule)
  BY <1>1, <1>3 DEF StateOf, Decided
<1> DEFINE F == {few[m] : m \in rule[n].rules}
           A == {all[m] : m \in rule[n].rules}
           op == rule[n].op
<1>6. few[n] = Combined(op, F) /\ all[n] = Combined(op, A)
  BY <1>1, <1>3, <1>5 DEF StateOf
<1>7. /\ \A s \in F : s # "unknown" => s \in A
      /\ "unknown" \notin F => A = F
  BY <1>4
<1>8. op \in {"eq", "in", "not", "all", "any"} /\ op \notin {"eq", "in"}
  BY <1>3, <1>5 DEF Leaves, Leaf, Operators
<1> HIDE DEF F, A, op
<1>9. CASE op = "not"
  BY <1>3, <1>6, <1>7, <1>9 DEF Combined
<1>10. CASE op = "all"
  BY <1>3, <1>6, <1>7, <1>10 DEF Combined, First
<1>11. CASE op = "any"
  BY <1>3, <1>6, <1>7, <1>11 DEF Combined, First
<1> QED BY <1>8, <1>9, <1>10, <1>11

-----------------------------------------------------------------------------
(* Facts, known and missing.                                                  *)

\* What FactsAreGiven says of the facts of a scene.
Factual(some) ==
  IsFiniteSet(some) /\ \A f \in some : f.expires \in Nat \cup {Never}

LEMMA ValuesAreFinite ==
  ASSUME NEW some, Factual(some), NEW k, NEW at
  PROVE  IsFiniteSet(Values(some, k, at))
<1> DEFINE current == Current(some, k, at)
           f == [fact \in current |-> fact.value]
<1>1. IsFiniteSet(current)
  BY FS_Subset DEF Current, Factual
<1>2. f \in Surjection(current, Values(some, k, at))
  BY DEF Surjection, Values
<1> QED BY <1>1, <1>2, FS_Surjection

\* A fact is known exactly when its current values are one.
LEMMA KnownIsSingle ==
  ASSUME NEW some, Factual(some), NEW k, NEW at, Reason(some, k, at) = "FACT_KNOWN"
  PROVE  Cardinality(Values(some, k, at)) = 1
<1> DEFINE V == Values(some, k, at)
<1>2. IsFiniteSet(V)
  BY ValuesAreFinite
<1>3. Cardinality(V) \in Nat /\ (Cardinality(V) = 0 <=> V = {})
  BY <1>2, FS_CardinalityType, FS_EmptySet
<1>4. CASE Cardinality(V) > 1
  BY <1>3, <1>4 DEF Reason
<1>5. CASE V = {}
  BY <1>3, <1>5, Cardinality({}) = 0, FS_EmptySet DEF Reason
<1> QED BY <1>3, <1>4, <1>5

LEMMA SinglesAreKnown ==
  ASSUME NEW some, NEW k, NEW at, NEW v, Values(some, k, at) = {v}
  PROVE  Reason(some, k, at) = "FACT_KNOWN"
<1>1. Cardinality({v}) = 1
  BY FS_Singleton
<1> QED BY <1>1 DEF Reason

\* Between an evaluation and the end of its validity no fact in it expires.
LEMMA UntilThen ==
  ASSUME NEW some, Factual(some), NEW rule, NEW at \in Nat, NEW later \in Nat, at <= later,
         LET until == ValidUntil(rule, some, at) IN until = Never \/ later < until
  PROVE  Applicability(rule, some, later) = Applicability(rule, some, at)
<1> DEFINE current == UNION {Current(some, k, at) : k \in KeysOf(rule)}
           expiries == {f.expires : f \in current} \ {Never}
<1>1. ASSUME NEW f \in current, f.expires # Never
      PROVE  f.expires \in Nat /\ f.expires > later
  <2>1. f.expires \in expiries /\ expiries \subseteq Nat
    BY <1>1 DEF Current, Factual
  <2>2. PICK m \in expiries : \A e \in expiries : m <= e
    <3> HIDE DEF expiries
    <3> QED BY <2>1, Minimum
  <2>3. ValidUntil(rule, some, at) = Min(expiries)
    BY <2>1 DEF ValidUntil
  <2>4. Min(expiries) \in expiries /\ Min(expiries) <= f.expires
    <3> HIDE DEF expiries
    <3> QED BY <2>1, <2>2 DEF Min
  <2>5. Min(expiries) # Never
    BY <2>4
  <2> QED BY <2>1, <2>3, <2>4, <2>5
<1>2. \A k \in KeysOf(rule) : Current(some, k, later) = Current(some, k, at)
  <2> TAKE k \in KeysOf(rule)
  <2>1. ASSUME NEW f \in Current(some, k, later) PROVE f \in Current(some, k, at)
    BY DEF Current, Factual
  <2>2. ASSUME NEW f \in Current(some, k, at) PROVE f \in Current(some, k, later)
    <3>1. f \in current
      OBVIOUS
    <3>2. f.expires = Never \/ f.expires > later
      BY <1>1, <3>1
    <3> QED BY <3>2 DEF Current
  <2> QED BY <2>1, <2>2
<1>3. \A n \in Leaves(rule) : Compared(rule[n], some, later) = Compared(rule[n], some, at)
  <2> TAKE n \in Leaves(rule)
  <2>1. rule[n].fact \in KeysOf(rule)
    BY DEF KeysOf
  <2>2. Values(some, rule[n].fact, later) = Values(some, rule[n].fact, at)
    BY <1>2, <2>1 DEF Values
  <2> QED BY <2>2 DEF Compared, Reason
<1> QED BY <1>3 DEF Applicability

\* A decided rule is decided the same way under every completion of the facts.
LEMMA WhateverIsMissing ==
  ASSUME NEW some, Factual(some), NEW rule, Tree(rule), ValidRule(rule), NEW at,
         Applicability(rule, some, at) # "unknown",
         NEW all \in Completions(rule, some, at)
  PROVE  Applicability(rule, all, at) = Applicability(rule, some, at)
<1> DEFINE keys == KeysOf(rule)
           values(k) == Values(some, k, at)
           Possible(k) == IF Cardinality(values(k)) = 1 THEN values(k)
                          ELSE (UNION {rule[n].values : n \in DOMAIN rule}) \cup {"something else"}
<1>1. PICK g \in [keys -> UNION {Possible(k) : k \in keys}] :
         /\ \A k \in keys : g[k] \in Possible(k)
         /\ all = {[key |-> k, value |-> g[k], expires |-> Never] : k \in keys}
  BY DEF Completions
<1>2. \A k \in keys : Values(all, k, at) = {g[k]}
  <2> TAKE k \in keys
  <2> DEFINE fact == [key |-> k, value |-> g[k], expires |-> Never]
  <2>0. fact.key = k /\ fact.value = g[k] /\ fact.expires = Never
    OBVIOUS
  <2>1. fact \in all
    <3>1. all = {[key |-> j, value |-> g[j], expires |-> Never] : j \in keys}
      BY <1>1
    <3> QED BY <3>1
  <2>2. ASSUME NEW f \in all, f.key = k PROVE f = fact
    <3>1. PICK j \in keys : f = [key |-> j, value |-> g[j], expires |-> Never]
      BY <1>1
    <3> QED BY <2>2, <3>1
  <2> HIDE DEF fact
  <2>3. Current(all, k, at) = {fact}
    BY <2>0, <2>1, <2>2 DEF Current
  <2> QED BY <2>0, <2>3 DEF Values
<1>3. \A n \in Leaves(rule) : Compared(rule[n], some, at) # "unknown" =>
          Compared(rule[n], all, at) = Compared(rule[n], some, at)
  <2> SUFFICES ASSUME NEW n \in Leaves(rule), Compared(rule[n], some, at) # "unknown"
               PROVE  Compared(rule[n], all, at) = Compared(rule[n], some, at)
    OBVIOUS
  <2> DEFINE k == rule[n].fact
  <2>1. k \in keys
    BY DEF KeysOf
  <2>2. Reason(some, k, at) = "FACT_KNOWN"
    BY DEF Compared
  <2>3. Cardinality(values(k)) = 1
    BY <2>2, KnownIsSingle
  <2>4. g[k] \in values(k)
    BY <1>1, <2>1, <2>3
  <2>5. values(k) = {g[k]}
    <3>1. IsFiniteSet(values(k))
      BY ValuesAreFinite
    <3>2. PICK v : values(k) = {v}
      BY <2>3, <3>1, FS_Singleton
    <3> QED BY <2>4, <3>2
  <2>6. Reason(all, k, at) = "FACT_KNOWN"
    BY <1>2, <2>1, SinglesAreKnown
  <2> QED BY <1>2, <2>1, <2>2, <2>5, <2>6 DEF Compared
<1> DEFINE less == [n \in Leaves(rule) |-> Compared(rule[n], some, at)]
           more == [n \in Leaves(rule) |-> Compared(rule[n], all, at)]
<1>4. Decided(rule, less, more)
  BY <1>3 DEF Decided
<1>5. Operators(rule)
  BY DEF ValidRule, Operators
<1>6. 1 \in DOMAIN rule
  BY DEF Tree
<1>7. Applicability(rule, some, at) = States(rule, less)[1] /\ Applicability(rule, all, at) = States(rule, more)[1]
  BY DEF Applicability
<1> HIDE DEF less, more
<1>8. \A n \in DOMAIN rule : States(rule, less)[n] # "unknown" =>
          States(rule, more)[n] = States(rule, less)[n]
  BY <1>4, <1>5, MoreIsKnown
<1> QED BY <1>6, <1>7, <1>8

-----------------------------------------------------------------------------
(* Verdicts on conditions.                                                   *)

(* The inductive invariant of the conditions: a verdict is the evaluation  *)
(* of its rule over the facts of its moment.                                 *)
VerdictOK ==
  /\ scene \in Scenarios
  /\ facts \in scene.facts
  /\ now \in Nat
  /\ verdict # None =>
        /\ verdict.rule \in scene.rules /\ ValidRule(verdict.rule)
        /\ verdict.facts \in scene.facts
        /\ verdict.at \in Nat /\ verdict.at <= now
        /\ verdict.result = EvaluatePredicate(verdict.rule, verdict.facts, verdict.at)

LEMMA EvaluateStep ==
  ASSUME VerdictOK, NEW rule \in scene.rules, Evaluate(rule),
         UNCHANGED <<manifestVars, evidenceVars>>
  PROVE  VerdictOK'
<1> DEFINE new == [rule |-> rule, facts |-> facts, at |-> now,
                   result |-> EvaluatePredicate(rule, facts, now)]
<1>1. verdict' = new /\ UNCHANGED <<now, facts, scene>> /\ ValidRule(rule)
  BY DEF Evaluate, Spend
<1>2. new.rule = rule /\ new.facts = facts /\ new.at = now
      /\ new.result = EvaluatePredicate(rule, facts, now)
  OBVIOUS
<1> HIDE DEF new
<1> QED BY <1>1, <1>2 DEF VerdictOK

LEMMA VerdictStep ==
  ASSUME VerdictOK, [Next]_vars PROVE VerdictOK'
<1>1. CASE \E some \in scene.facts : ChangeFacts(some)
  BY <1>1 DEF ChangeFacts, Spend, VerdictOK
<1>2. CASE (\E rule \in scene.rules : Evaluate(rule)) /\ UNCHANGED <<manifestVars, evidenceVars>>
  BY <1>2, EvaluateStep
<1>3. CASE Tick
  BY <1>3 DEF Tick, Spend, VerdictOK
<1>4. ASSUME UNCHANGED <<scene, now, facts, verdict>> PROVE VerdictOK'
  BY <1>4 DEF VerdictOK
<1>5. CASE EvidenceNext /\ UNCHANGED <<manifestVars, factVars>>
  BY <1>4, <1>5 DEF EvidenceNext, ChangeDocument, OpenIndex, Ask, BeginReview, NextWindow, Annotate,
     ChangeShelf, Pin, BeginCheck, StepCheck, Abort, Spend, factVars
<1>6. CASE ManifestNext /\ UNCHANGED <<evidenceVars, factVars>>
  BY <1>4, <1>6 DEF ManifestNext, EditSource, Extract, Export, Review, Alter, Reverify, AskAgent,
     Prepare, AskAnalysis, AskGuide, AskBatch, PutOut, Spend, factVars
<1>7. CASE UNCHANGED vars
  BY <1>4, <1>7 DEF vars, factVars
<1> QED BY <1>1, <1>2, <1>3, <1>5, <1>6, <1>7 DEF Next, FactNext

\* The invariant gives the property.
LEMMA VerdictMeans ==
  ASSUME VerdictOK PROVE VerdictStands
<1> SUFFICES ASSUME verdict # None
             PROVE  LET result == verdict.result
                    IN /\ /\ facts = verdict.facts
                          /\ result.until = Never \/ now < result.until
                          => Applicability(verdict.rule, facts, now) = result.state
                       /\ result.state # "unknown" =>
                             \A all \in Completions(verdict.rule, verdict.facts, verdict.at) :
                                 Applicability(verdict.rule, all, verdict.at) = result.state
  BY DEF VerdictStands
<1> DEFINE rule == verdict.rule
           some == verdict.facts
           at == verdict.at
<1>1. /\ at \in Nat /\ now \in Nat /\ at <= now /\ ValidRule(rule)
      /\ Factual(some) /\ Tree(rule)
  BY FactsAreGiven, RulesAreGiven DEF VerdictOK, Factual, Tree
<1>2. /\ verdict.result.until = ValidUntil(rule, some, at)
      /\ verdict.result.state = Applicability(rule, some, at)
  BY DEF VerdictOK, EvaluatePredicate
<1>3. ValidUntil(rule, some, at) = Never \/ now < ValidUntil(rule, some, at) =>
          Applicability(rule, some, now) = Applicability(rule, some, at)
  BY <1>1, UntilThen
<1>4. Applicability(rule, some, at) # "unknown" =>
          \A all \in Completions(rule, some, at) :
              Applicability(rule, all, at) = Applicability(rule, some, at)
  BY <1>1, WhateverIsMissing
<1> HIDE DEF rule, some, at
<1>5. CASE facts = some
  BY <1>2, <1>3, <1>4, <1>5 DEF rule, some, at
<1>6. CASE facts # some
  BY <1>2, <1>4, <1>6 DEF rule, some, at
<1> QED BY <1>5, <1>6

(* A verdict holds until the moment it names, as long as the facts are      *)
(* those, and a decided one would be the same whatever the facts that are   *)
(* missing turned out to be (assistance-conditions.ts).                     *)
THEOREM VerdictsStand == Spec => []VerdictStands
<1>1. Init => VerdictOK
  BY DEF Init, FactInit, VerdictOK
<1>2. VerdictOK /\ [Next]_vars => VerdictOK'
  BY VerdictStep
<1>3. VerdictOK => VerdictStands
  BY VerdictMeans
<1> QED BY <1>1, <1>2, <1>3, PTL DEF Spec

-----------------------------------------------------------------------------
(* What is kept of a sequence.                                               *)

\* The sequence that Those builds, element by element.
KeptAt(seq, S, kept, i) ==
  IF i = 0 THEN <<>>
  ELSE IF seq[i] \in S THEN Append(kept[i-1], seq[i]) ELSE kept[i-1]

KeptTo(seq, S, k, kept) == kept = [i \in 0 .. k |-> KeptAt(seq, S, kept, i)]

LEMMA KeptExists ==
  ASSUME NEW seq, Len(seq) \in Nat, NEW S
  PROVE  \E kept : KeptTo(seq, S, Len(seq), kept)
<1> DEFINE Bad == {k \in 0 .. Len(seq) : ~ \E kept : KeptTo(seq, S, k, kept)}
<1> SUFFICES ASSUME Bad # {} PROVE FALSE
  OBVIOUS
<1>1. PICK k \in Bad : \A j \in Bad : k <= j
  <2>1. Bad \in SUBSET Nat
    OBVIOUS
  <2> HIDE DEF Bad
  <2> QED BY <2>1, Minimum
<1>2. k \in 0 .. Len(seq)
  OBVIOUS
<1>3. CASE k = 0
  <2> DEFINE kept == [i \in 0 .. 0 |-> <<>>]
  <2>1. kept = [i \in 0 .. k |-> KeptAt(seq, S, kept, i)]
    BY <1>3 DEF KeptAt
  <2> QED BY <2>1 DEF KeptTo
<1>4. CASE k # 0
  <2>1. k - 1 \in 0 .. Len(seq) /\ k - 1 \notin Bad
    BY <1>1, <1>2, <1>4
  <2>2. PICK kept : KeptTo(seq, S, k - 1, kept)
    BY <2>1
  <2> DEFINE more == [i \in 0 .. k |-> IF i = k THEN KeptAt(seq, S, kept, k) ELSE kept[i]]
  <2>3. \A i \in 0 .. k : KeptAt(seq, S, more, i) = KeptAt(seq, S, kept, i)
    <3> TAKE i \in 0 .. k
    <3>1. i # 0 => more[i-1] = kept[i-1]
      BY <1>2, <1>4
    <3> QED BY <3>1 DEF KeptAt
  <2>4. \A i \in 0 .. k : more[i] = KeptAt(seq, S, kept, i)
    BY <2>2, <1>2, <1>4 DEF KeptTo
  <2>5. more = [i \in 0 .. k |-> KeptAt(seq, S, more, i)]
    BY <2>3, <2>4
  <2> HIDE DEF more
  <2> QED BY <2>5 DEF KeptTo
<1> QED BY <1>3, <1>4

\* Those keeps elements of the sequence, and only elements of the set.
LEMMA ThoseAre ==
  ASSUME NEW T, NEW seq \in Seq(T), NEW S
  PROVE  /\ Those(seq, S) \in Seq(Range(Those(seq, S)))
         /\ Range(Those(seq, S)) \subseteq Range(seq) \cap S
<1> DEFINE kept == CHOOSE kept : kept = [i \in 0 .. Len(seq) |-> KeptAt(seq, S, kept, i)]
           R == Range(seq) \cap S
<1>1. Len(seq) \in Nat /\ DOMAIN seq = 1 .. Len(seq) /\ \A i \in 1 .. Len(seq) : seq[i] \in Range(seq)
  BY DEF Range
<1>2. kept = [i \in 0 .. Len(seq) |-> KeptAt(seq, S, kept, i)]
  BY <1>1, KeptExists DEF KeptTo
<1>3. Those(seq, S) = kept[Len(seq)]
  BY DEF Those, KeptAt
<1> HIDE DEF kept
<1> DEFINE Bad == {k \in 0 .. Len(seq) : kept[k] \notin Seq(R)}
<1>4. Bad = {}
  <2> SUFFICES ASSUME Bad # {} PROVE FALSE
    OBVIOUS
  <2>1. PICK k \in Bad : \A j \in Bad : k <= j
    <3>1. Bad \in SUBSET Nat
      BY <1>1
    <3> HIDE DEF Bad
    <3> QED BY <3>1, Minimum
  <2>2. k \in 0 .. Len(seq) /\ kept[k] \notin Seq(R)
    OBVIOUS
  <2>3. k # 0
    BY <1>1, <1>2, <2>2 DEF KeptAt
  <2>4. kept[k-1] \in Seq(R)
    BY <1>1, <2>1, <2>2, <2>3
  <2>5. seq[k] \in Range(seq)
    BY <1>1, <2>2, <2>3
  <2>6. kept[k] = KeptAt(seq, S, kept, k)
    BY <1>2, <2>2
  <2>7. CASE seq[k] \in S
    <3>1. seq[k] \in R
      BY <2>5, <2>7
    <3> HIDE DEF R
    <3> QED BY <2>2, <2>3, <2>4, <2>6, <2>7, <3>1 DEF KeptAt
  <2>8. CASE seq[k] \notin S
    BY <2>2, <2>3, <2>4, <2>6, <2>8 DEF KeptAt
  <2> QED BY <2>7, <2>8
<1>5. Those(seq, S) \in Seq(R)
  BY <1>1, <1>3, <1>4
<1> QED BY <1>5 DEF Range

-----------------------------------------------------------------------------
(* What the extractor without a model makes of a text.                       *)

Sayings(P, doc) == UNION {Said(doc.text[h]) : h \in P}

Citations(P, doc) == {Cite(doc.text[h], doc) : h \in P}

\* The i-th sentence made the action; what it is and quotes is from those of P.
Made(x, i, P, k, doc) ==
  /\ DOMAIN x = ActionFields
  /\ x.status = "proposed"
  /\ i \in P /\ P \subseteq 1 .. k
  /\ \A h \in P : Counts(doc.text[h])
  /\ x.about \subseteq Sayings(P, doc)
  /\ x.object \in Sayings(P, doc) \cup {None}
  /\ x.evidence \in Seq(Citations(P, doc)) /\ x.evidence # <<>>
  /\ x.evidence[1].passage = doc.text[i]

\* The j-th sentence gives it no other date, and if it takes the action back, it
\* is quoted by it, or a sentence before that is not of P might be meant.
Stands(x, P, j, doc) ==
  /\ ~Redates(doc.text[j], x, YearOf(doc.text))
  /\ Retracts(doc.text[j], x) =>
        \/ doc.text[j] \in EvidencePassages(x)
        \/ \E h \in 1 .. j-1 : /\ h \notin P /\ Counts(doc.text[h])
                               /\ Said(doc.text[h]) \cap x.about # {}

\* An action after k sentences.
Held(x, i, P, k, doc) ==
  /\ Made(x, i, P, k, doc)
  /\ \A j \in i+1 .. k : Stands(x, P, j, doc)

\* The actions after k sentences: no sentence is behind two of them.
Sound(acts, prov, k, doc) ==
  /\ DOMAIN acts \subseteq 1 .. k
  /\ \A i \in DOMAIN acts : Held(acts[i], i, prov[i], k, doc)
  /\ \A i, m \in DOMAIN acts : i # m => prov[i] \cap prov[m] = {}

LEMMA CiteIs ==
  ASSUME NEW p, NEW doc
  PROVE  Cite(p, doc).passage = p /\ Cite(p, doc).source = doc.id
  BY DEF Cite

LEMMA PassagesMade ==
  ASSUME NEW x, NEW i, NEW P, NEW k, NEW doc, Made(x, i, P, k, doc)
  PROVE  /\ Head(x.evidence).passage = doc.text[i]
         /\ doc.text[i] \in EvidencePassages(x)
         /\ EvidencePassages(x) \subseteq {doc.text[h] : h \in P}
<1>1. x.evidence \in Seq(Citations(P, doc)) /\ x.evidence # <<>> /\ x.evidence[1].passage = doc.text[i]
  BY DEF Made
<1> DEFINE C == Citations(P, doc)
<1>2. Head(x.evidence) = x.evidence[1] /\ 1 \in DOMAIN x.evidence
      /\ \A n \in DOMAIN x.evidence : x.evidence[n] \in C
  <2>1. x.evidence \in Seq(C)
    BY <1>1
  <2> HIDE DEF C
  <2> QED BY <1>1, <2>1
<1>3. \A c \in C : \E h \in P : c.passage = doc.text[h]
  BY CiteIs DEF Citations
<1> HIDE DEF C
<1> QED BY <1>1, <1>2, <1>3 DEF EvidencePassages

LEMMA MoreSayings ==
  ASSUME NEW P, NEW Q, P \subseteq Q, NEW doc
  PROVE  Sayings(P, doc) \subseteq Sayings(Q, doc) /\ Citations(P, doc) \subseteq Citations(Q, doc)
  BY DEF Sayings, Citations

LEMMA MoreCitations ==
  ASSUME NEW C, NEW D, C \subseteq D, NEW e \in Seq(C)
  PROVE  e \in Seq(D)
  OBVIOUS

\* An action that a sentence does not touch.
LEMMA Untouched ==
  ASSUME NEW k \in Nat, NEW x, NEW i \in 1 .. k, NEW P, NEW doc, Held(x, i, P, k, doc),
         Stands(x, P, k + 1, doc)
  PROVE  Held(x, i, P, k + 1, doc)
<1>1. Made(x, i, P, k + 1, doc)
  BY DEF Held, Made
<1>2. \A j \in i+1 .. k+1 : j \in i+1 .. k \/ j = k + 1
  OBVIOUS
<1> QED BY <1>1, <1>2 DEF Held

\* Two actions of one kind, object and first quote.
Alike(x, y) ==
  /\ DOMAIN y = DOMAIN x /\ y.status = x.status
  /\ y.kind = x.kind /\ y.object = x.object /\ y.about = x.about

\* An action that a sentence adds something to, and is quoted for it.
LEMMA Touched ==
  ASSUME NEW k \in Nat, NEW x, NEW i \in 1 .. k, NEW P, NEW doc, Held(x, i, P, k, doc),
         NEW y, Alike(x, y), Counts(doc.text[k+1]), ~Instruction(doc.text[k+1]),
         y.evidence = x.evidence
  PROVE  Held(Evidenced(y, doc.text[k+1], doc), i, P \cup {k+1}, k + 1, doc)
<1> DEFINE p == doc.text[k+1]
           z == Evidenced(y, p, doc)
           Q == P \cup {k+1}
           C == Citations(Q, doc)
<1>1. Made(x, i, P, k, doc)
  BY DEF Held
<1>2. "evidence" \in DOMAIN y
  BY <1>1 DEF Alike, Made, ActionFields
<1>3. /\ Alike(x, z)
      /\ \/ z.evidence = x.evidence /\ p \in EvidencePassages(x)
         \/ z.evidence = Append(x.evidence, Cite(p, doc))
  BY <1>2 DEF Alike, Evidenced, EvidencePassages
<1>4. Sayings(P, doc) \subseteq Sayings(Q, doc) /\ x.evidence \in Seq(C) /\ x.evidence # <<>>
  <2>1. /\ Sayings(P, doc) \subseteq Sayings(Q, doc) /\ Citations(P, doc) \subseteq C
        /\ x.evidence \in Seq(Citations(P, doc)) /\ x.evidence # <<>>
    BY <1>1, MoreSayings DEF Made
  <2> HIDE DEF C
  <2> QED BY <2>1, MoreCitations
<1>5. Cite(p, doc) \in C /\ Cite(p, doc).passage = p
  BY DEF Citations, Cite
<1> HIDE DEF C, z
<1>6. /\ z.evidence \in Seq(C) /\ z.evidence # <<>> /\ z.evidence[1] = x.evidence[1]
      /\ EvidencePassages(x) \subseteq EvidencePassages(z) /\ p \in EvidencePassages(z)
  <2>1. CASE z.evidence = x.evidence /\ p \in EvidencePassages(x)
    BY <1>4, <2>1 DEF EvidencePassages
  <2>2. CASE z.evidence = Append(x.evidence, Cite(p, doc))
    <3>1. /\ z.evidence \in Seq(C) /\ z.evidence # <<>> /\ z.evidence[1] = x.evidence[1]
          /\ DOMAIN x.evidence \subseteq DOMAIN z.evidence
          /\ \A n \in DOMAIN x.evidence : z.evidence[n] = x.evidence[n]
          /\ Len(x.evidence) + 1 \in DOMAIN z.evidence
          /\ z.evidence[Len(x.evidence) + 1] = Cite(p, doc)
      BY <1>4, <1>5, <2>2
    <3> QED BY <1>5, <3>1 DEF EvidencePassages
  <2> QED BY <1>3, <2>1, <2>2
<1>7. Made(z, i, Q, k + 1, doc)
  <2>1. /\ DOMAIN x = ActionFields /\ x.status = "proposed" /\ i \in P /\ P \subseteq 1 .. k
        /\ \A h \in P : Counts(doc.text[h])
        /\ x.about \subseteq Sayings(P, doc) /\ x.object \in Sayings(P, doc) \cup {None}
        /\ x.evidence[1].passage = doc.text[i]
    BY <1>1 DEF Made
  <2>2. i \in Q /\ Q \subseteq 1 .. k+1 /\ \A h \in Q : Counts(doc.text[h])
    BY <2>1
  <2> HIDE DEF Q
  <2> QED BY <2>1, <2>2, <1>3, <1>4, <1>6 DEF Made, Alike, C
<1>8. ASSUME NEW j \in i+1 .. k+1 PROVE Stands(z, Q, j, doc)
  <2>1. z.evidence # <<>> /\ Head(z.evidence) = Head(x.evidence)
    BY <1>4, <1>6
  <2>2. Redates(doc.text[j], z, YearOf(doc.text)) <=> Redates(doc.text[j], x, YearOf(doc.text))
    BY <1>3, <2>1 DEF Alike, Redates
  <2>3. Retracts(doc.text[j], z) <=> Retracts(doc.text[j], x)
    BY <1>3 DEF Alike, Retracts, Names
  <2>4. CASE j = k + 1
    BY <2>2, <2>4, <1>6 DEF Stands, Redates
  <2>5. CASE j # k + 1
    <3>1. Stands(x, P, j, doc)
      BY <2>5 DEF Held
    <3>2. \A h \in 1 .. j-1 : h \notin P => h \notin Q
      BY <2>5
    <3>3. z.about = x.about
      BY <1>3 DEF Alike
    <3> HIDE DEF Q
    <3> QED BY <2>2, <2>3, <3>1, <3>2, <3>3, <1>6 DEF Stands
  <2> QED BY <2>4, <2>5
<1> QED BY <1>7, <1>8 DEF Held, z


\* What a sentence says by itself, and what is made of that.
Fresh(x, p, doc) ==
  /\ DOMAIN x = ActionFields /\ x.status = "proposed"
  /\ x.about \subseteq Said(p) /\ x.object \in Said(p) \cup {None}
  /\ x.evidence = <<Cite(p, doc)>>

LEMMA StatedIsFresh ==
  ASSUME NEW p, NEW doc, NEW rain
  PROVE  LET new == Stated(p, doc)
         IN /\ Fresh(new, p, doc) /\ Fresh(Waiver(new), p, doc) /\ Fresh(Rainy(new, rain), p, doc)
            /\ Fresh(Asserted(new), p, doc)
<1> DEFINE new == Stated(p, doc)
<1>1. /\ DOMAIN new = ActionFields /\ new.status = "proposed"
      /\ new.about = Cues[p].about /\ new.object = Cues[p].object
      /\ new.evidence = <<Cite(p, doc)>>
  BY DEF Stated, ActionFields
<1> HIDE DEF new
<1>2. Fresh(new, p, doc)
  BY <1>1 DEF Fresh, Said
<1>3. Fresh(Waiver(new), p, doc)
  BY <1>1 DEF Fresh, Said, Waiver, ActionFields
<1>4. Fresh(Rainy(new, rain), p, doc)
  BY <1>1 DEF Fresh, Said, Rainy, ActionFields
<1>5. Fresh(Asserted(new), p, doc)
  BY <1>1 DEF Fresh, Said, Asserted, ActionFields
<1> QED BY <1>2, <1>3, <1>4, <1>5 DEF new

LEMMA FreshIsMade ==
  ASSUME NEW n \in Nat \ {0}, NEW doc, Counts(doc.text[n]), NEW x, Fresh(x, doc.text[n], doc)
  PROVE  Held(x, n, {n}, n, doc)
<1> DEFINE c == Cite(doc.text[n], doc)
           C == Citations({n}, doc)
<1>1. c \in C /\ c.passage = doc.text[n] /\ Sayings({n}, doc) = Said(doc.text[n])
  BY DEF Citations, Sayings, Cite
<1>2. x.evidence = <<c>>
  BY DEF Fresh
<1> HIDE DEF c
<1>3. x.evidence \in Seq(C) /\ x.evidence # <<>> /\ x.evidence[1].passage = doc.text[n]
  <2> HIDE DEF C
  <2> QED BY <1>1, <1>2
<1>4. Made(x, n, {n}, n, doc)
  BY <1>1, <1>3 DEF Made, Fresh
<1> QED BY <1>4 DEF Held

\* The action that takes the place of another one.
LEMMA CorrectedIsMade ==
  ASSUME NEW k \in Nat, NEW doc, Counts(doc.text[k+1]),
         NEW old, NEW i, NEW P, Made(old, i, P, k, doc)
  PROVE  LET x == Corrected(Stated(doc.text[k+1], doc), old, doc)
         IN Held(x, k + 1, P \cup {k+1}, k + 1, doc)
<1> DEFINE p == doc.text[k+1]
           new == Stated(p, doc)
           x == Corrected(new, old, doc)
           Q == P \cup {k+1}
           C == Citations(Q, doc)
           rest == Those(old.evidence, Lasting(old))
<1>1. Fresh(new, p, doc)
  BY StatedIsFresh
<1>2. /\ DOMAIN x = ActionFields /\ x.status = "proposed"
      /\ x.about \in {old.about, new.about \cup ({old.object} \ {None})}
      /\ x.object \in {new.object, old.object}
      /\ x.evidence = <<Cite(p, doc)>> \o Located(rest, doc)
  <2>1. DOMAIN new = ActionFields /\ new.status = "proposed" /\ new.evidence = <<Cite(p, doc)>>
    BY <1>1 DEF Fresh
  <2> HIDE DEF new, rest
  <2>2. DOMAIN x = ActionFields /\ x.status = "proposed"
    BY <2>1 DEF Corrected, ActionFields
  <2>3. x.evidence = <<Cite(p, doc)>> \o Located(rest, doc)
    BY <2>1 DEF Corrected, ActionFields, rest
  <2>4. /\ x.about \in {old.about, new.about \cup ({old.object} \ {None})}
        /\ x.object \in {new.object, old.object}
    BY <2>1 DEF Corrected, ActionFields, Provided
  <2> QED BY <2>2, <2>3, <2>4
<1>3. Sayings(P, doc) \subseteq Sayings(Q, doc) /\ Said(p) \subseteq Sayings(Q, doc)
      /\ Cite(p, doc) \in C /\ Citations(P, doc) \subseteq C
  BY DEF Sayings, Citations
<1>4. x.about \subseteq Sayings(Q, doc) /\ x.object \in Sayings(Q, doc) \cup {None}
  <2>1. /\ old.about \subseteq Sayings(P, doc) /\ old.object \in Sayings(P, doc) \cup {None}
        /\ new.about \subseteq Said(p) /\ new.object \in Said(p) \cup {None}
    BY <1>1 DEF Made, Fresh
  <2> HIDE DEF new, x, Q
  <2> QED BY <1>2, <1>3, <2>1
<1>5. Located(rest, doc) \in Seq(C)
  <2>1. old.evidence \in Seq(Citations(P, doc))
    BY DEF Made
  <2>2. /\ rest \in Seq(Range(rest)) /\ Range(rest) \subseteq Range(old.evidence)
        /\ Range(old.evidence) \subseteq Citations(P, doc)
    <3> DEFINE D == Citations(P, doc)
    <3>1. old.evidence \in Seq(D)
      BY <2>1
    <3> HIDE DEF D
    <3>2. Range(old.evidence) \subseteq D
      BY <3>1 DEF Range
    <3> QED BY <3>1, <3>2, ThoseAre DEF D
  <2>3. \A c \in Citations(P, doc) : Cite(c.passage, doc) \in C
    <3>1. \A h \in P : h \in Q /\ Cite(doc.text[h], doc).passage = doc.text[h]
      BY CiteIs
    <3> HIDE DEF Q
    <3> QED BY <3>1 DEF Citations
  <2> HIDE DEF rest, C
  <2>4. DOMAIN rest = 1 .. Len(rest) /\ Len(rest) \in Nat /\ \A n \in DOMAIN rest : rest[n] \in Range(rest)
    BY <2>2 DEF Range
  <2>5. \A n \in DOMAIN rest : Cite(rest[n].passage, doc) \in C
    BY <2>2, <2>3, <2>4
  <2>6. Located(rest, doc) = [n \in 1 .. Len(rest) |-> Cite(rest[n].passage, doc)]
    BY <2>4 DEF Located
  <2> QED BY <2>4, <2>5, <2>6
<1>6. x.evidence \in Seq(C) /\ x.evidence # <<>> /\ x.evidence[1].passage = p
  <2>1. Cite(p, doc).passage = p
    BY DEF Cite
  <2> DEFINE loc == Located(rest, doc)
             c == Cite(p, doc)
  <2>2. loc \in Seq(C) /\ c \in C /\ c.passage = p /\ x.evidence = <<c>> \o loc
    BY <1>2, <1>3, <1>5, <2>1
  <2> HIDE DEF loc, c, C, x
  <2> QED BY <2>2
<1>7. P \subseteq 1 .. k /\ \A h \in P : Counts(doc.text[h])
  BY DEF Made
<1>8. k + 1 \in Q /\ Q \subseteq 1 .. k+1 /\ \A h \in Q : Counts(doc.text[h])
  BY <1>7
<1>9. Made(x, k + 1, Q, k + 1, doc)
  <2> HIDE DEF x, Q
  <2> QED BY <1>2, <1>4, <1>6, <1>8 DEF Made, C
<1> QED BY <1>9 DEF Held

-----------------------------------------------------------------------------
\* What the steps of the extractor do with the actions it holds.
LEMMA Pushed ==
  ASSUME NEW k \in Nat, NEW doc, NEW acts, NEW prov, Sound(acts, prov, k, doc),
         NEW gone, NEW x, NEW Q, Held(x, k + 1, Q, k + 1, doc),
         Q = {k + 1} \/ \E t \in DOMAIN acts \cap gone : Q = prov[t] \cup {k + 1},
         \A i \in DOMAIN acts \ gone : Stands(acts[i], prov[i], k + 1, doc)
  PROVE  \E more : Sound(With(Without(acts, gone), k + 1, x), more, k + 1, doc)
<1> DEFINE n == k + 1
           D == DOMAIN acts \ gone
           result == With(Without(acts, gone), n, x)
           more == [i \in D \cup {n} |-> IF i = n THEN Q ELSE prov[i]]
<1>1. DOMAIN acts \subseteq 1 .. k /\ n \notin DOMAIN acts /\ n \in 1 .. k+1
  BY DEF Sound
<1>2. DOMAIN result = D \cup {n} /\ result[n] = x /\ \A i \in D : result[i] = acts[i]
  BY <1>1 DEF With, Without
<1>3. more[n] = Q /\ \A i \in D : more[i] = prov[i]
  BY <1>1
<1> HIDE DEF result, more
<1>4. \A i \in D : Held(acts[i], i, prov[i], k + 1, doc)
  <2> TAKE i \in D
  <2>1. Held(acts[i], i, prov[i], k, doc) /\ i \in 1 .. k
    BY <1>1 DEF Sound
  <2> QED BY <2>1, Untouched
<1>5. \A i \in D : prov[i] \subseteq 1 .. k
  BY DEF Sound, Held, Made
<1>6. \A i \in D : Q \cap prov[i] = {}
  <2> TAKE i \in D
  <2>1. n \notin prov[i]
    BY <1>5
  <2>2. \A t \in DOMAIN acts \cap gone : prov[t] \cap prov[i] = {}
    BY DEF Sound
  <2> QED BY <2>1, <2>2
<1>7. \A i \in DOMAIN result : Held(result[i], i, more[i], k + 1, doc)
  BY <1>2, <1>3, <1>4
<1>8. \A i, m \in DOMAIN result : i # m => more[i] \cap more[m] = {}
  <2>1. \A i, m \in D : i # m => prov[i] \cap prov[m] = {}
    BY DEF Sound
  <2> HIDE DEF D
  <2> QED BY <1>2, <1>3, <1>6, <2>1
<1>9. DOMAIN result \subseteq 1 .. k+1
  BY <1>1, <1>2
<1>10. Sound(result, more, k + 1, doc)
  BY <1>7, <1>8, <1>9 DEF Sound
<1> QED BY <1>10 DEF result

LEMMA Dropped ==
  ASSUME NEW k \in Nat, NEW doc, NEW acts, NEW prov, Sound(acts, prov, k, doc), NEW gone,
         \A i \in DOMAIN acts \ gone : Stands(acts[i], prov[i], k + 1, doc)
  PROVE  Sound(Without(acts, gone), prov, k + 1, doc)
<1> DEFINE D == DOMAIN acts \ gone
           result == Without(acts, gone)
<1>1. DOMAIN acts \subseteq 1 .. k
  BY DEF Sound
<1>2. DOMAIN result = D /\ \A i \in D : result[i] = acts[i]
  BY DEF Without
<1> HIDE DEF result
<1>4. \A i \in D : Held(acts[i], i, prov[i], k + 1, doc)
  <2> TAKE i \in D
  <2>1. Held(acts[i], i, prov[i], k, doc) /\ i \in 1 .. k
    BY <1>1 DEF Sound
  <2> QED BY <2>1, Untouched
<1>5. DOMAIN result \subseteq 1 .. k+1
  BY <1>1, <1>2
<1>6. \A i, m \in DOMAIN result : i # m => prov[i] \cap prov[m] = {}
  BY <1>2 DEF Sound
<1>7. Sound(result, prov, k + 1, doc)
  BY <1>2, <1>4, <1>5, <1>6 DEF Sound
<1> QED BY <1>7 DEF result

LEMMA Passed ==
  ASSUME NEW k \in Nat, NEW doc, NEW acts, NEW prov, Sound(acts, prov, k, doc),
         \A i \in DOMAIN acts : Stands(acts[i], prov[i], k + 1, doc)
  PROVE  Sound(acts, prov, k + 1, doc)
<1>1. \A i \in DOMAIN acts : Held(acts[i], i, prov[i], k + 1, doc)
  <2> TAKE i \in DOMAIN acts
  <2>1. Held(acts[i], i, prov[i], k, doc) /\ i \in 1 .. k
    BY DEF Sound
  <2> QED BY <2>1, Untouched
<1>2. DOMAIN acts \subseteq 1 .. k+1 /\ \A i, m \in DOMAIN acts : i # m => prov[i] \cap prov[m] = {}
  BY DEF Sound
<1> QED BY <1>1, <1>2 DEF Sound

LEMMA Added ==
  ASSUME NEW k \in Nat, NEW doc, NEW acts, NEW prov, Sound(acts, prov, k, doc),
         NEW t \in DOMAIN acts, NEW y, Alike(acts[t], y), y.evidence = acts[t].evidence,
         Counts(doc.text[k+1]), ~Instruction(doc.text[k+1]),
         \A i \in DOMAIN acts \ {t} : Stands(acts[i], prov[i], k + 1, doc)
  PROVE  \E more : Sound([acts EXCEPT ![t] = Evidenced(y, doc.text[k+1], doc)], more, k + 1, doc)
<1> DEFINE z == Evidenced(y, doc.text[k+1], doc)
           result == [acts EXCEPT ![t] = z]
           more == [i \in DOMAIN acts |-> IF i = t THEN prov[t] \cup {k+1} ELSE prov[i]]
<1>1. DOMAIN acts \subseteq 1 .. k
  BY DEF Sound
<1> HIDE DEF z
<1>2. DOMAIN result = DOMAIN acts /\ result[t] = z /\ \A i \in DOMAIN acts \ {t} : result[i] = acts[i]
  OBVIOUS
<1>3. more[t] = prov[t] \cup {k+1} /\ \A i \in DOMAIN acts \ {t} : more[i] = prov[i]
  OBVIOUS
<1>4. \A i \in DOMAIN acts \ {t} : Held(acts[i], i, prov[i], k + 1, doc)
  <2> TAKE i \in DOMAIN acts \ {t}
  <2>1. Held(acts[i], i, prov[i], k, doc) /\ i \in 1 .. k
    BY <1>1 DEF Sound
  <2> QED BY <2>1, Untouched
<1>5. Held(z, t, prov[t] \cup {k+1}, k + 1, doc)
  <2>1. Held(acts[t], t, prov[t], k, doc) /\ t \in 1 .. k
    BY <1>1 DEF Sound
  <2> QED BY <2>1, Touched DEF z
<1> HIDE DEF result, more
<1>6. \A i \in DOMAIN result : Held(result[i], i, more[i], k + 1, doc)
  BY <1>2, <1>3, <1>4, <1>5
<1>7. \A i, m \in DOMAIN result : i # m => more[i] \cap more[m] = {}
  <2>1. \A i, m \in DOMAIN acts : i # m => prov[i] \cap prov[m] = {}
    BY DEF Sound
  <2>2. \A i \in DOMAIN acts : k + 1 \notin prov[i]
    BY DEF Sound, Held, Made
  <2> QED BY <1>2, <1>3, <2>1, <2>2
<1>8. DOMAIN result \subseteq 1 .. k+1
  BY <1>1, <1>2
<1>9. Sound(result, more, k + 1, doc)
  BY <1>6, <1>7, <1>8 DEF Sound
<1> QED BY <1>9 DEF result, z

LEMMA WithFresh ==
  ASSUME NEW acts, NEW k, NEW x
  PROVE  With(acts, k, x) = With(Without(acts, {}), k, x)
<1> DEFINE a == With(acts, k, x)
           b == With(Without(acts, {}), k, x)
<1>1. DOMAIN Without(acts, {}) = DOMAIN acts /\ \A i \in DOMAIN acts : Without(acts, {})[i] = acts[i]
  BY DEF Without
<1> DEFINE D == DOMAIN acts \cup {k}
<1>2. /\ a = [i \in D |-> IF i = k THEN x ELSE acts[i]]
      /\ b = [i \in D |-> IF i = k THEN x ELSE Without(acts, {})[i]]
  BY <1>1 DEF With
<1> QED BY <1>1, <1>2

LEMMA LastOfIs ==
  ASSUME NEW k \in Nat, NEW S \in SUBSET (1 .. k)
  PROVE  /\ S # {} => LastOf(S) \in S /\ LastOf(S) # 0
         /\ S = {} => LastOf(S) = 0
<1>1. ASSUME S # {} PROVE Max(S) \in S
  <2>1. \E i \in S : \A j \in S : j <= i
    BY <1>1, Maximum
  <2>2. \E i \in S : \A j \in S : i >= j
    BY <2>1
  <2> QED BY <2>2 DEF Max
<1>2. 0 \notin S
  OBVIOUS
<1> QED BY <1>1, <1>2 DEF LastOf

-----------------------------------------------------------------------------
\* What one sentence does with them.
Continues(acts, k, doc) == \E prov : Sound(acts, prov, k, doc)

LEMMA PushedFresh ==
  ASSUME NEW k \in Nat, NEW doc, NEW acts, NEW prov, Sound(acts, prov, k, doc),
         Counts(doc.text[k+1]), NEW x, Fresh(x, doc.text[k+1], doc),
         \A i \in DOMAIN acts : Stands(acts[i], prov[i], k + 1, doc)
  PROVE  Continues(With(acts, k + 1, x), k + 1, doc)
<1>1. Held(x, k + 1, {k + 1}, k + 1, doc)
  BY FreshIsMade
<1>2. \E more : Sound(With(Without(acts, {}), k + 1, x), more, k + 1, doc)
  BY <1>1, Pushed
<1>3. With(acts, k + 1, x) = With(Without(acts, {}), k + 1, x)
  BY WithFresh
<1> QED BY <1>2, <1>3 DEF Continues

LEMMA RainStep ==
  ASSUME NEW k \in Nat, NEW doc, NEW acts, Continues(acts, k, doc),
         Counts(doc.text[k+1]), Cues[doc.text[k+1]].rain, NEW rain
  PROVE  Continues(AddRain(acts, LastOf(OfKind(acts, "event")), Stated(doc.text[k+1], doc), rain, k + 1, doc),
                   k + 1, doc)
<1> DEFINE p == doc.text[k+1]
           E == OfKind(acts, "event")
           t == LastOf(E)
<1>1. PICK prov : Sound(acts, prov, k, doc)
  BY DEF Continues
<1>2. \A i : Stands(acts[i], prov[i], k + 1, doc)
  BY DEF Stands, Redates, Instruction, Retracts
<1>3. ~Instruction(p)
  BY DEF Instruction
<1>4. E \in SUBSET (1 .. k) /\ E \subseteq DOMAIN acts
  BY <1>1 DEF OfKind, Sound
<1> HIDE DEF E
<1>5. CASE t = 0
  <2>1. Fresh(Rainy(Stated(p, doc), rain), p, doc)
    BY StatedIsFresh
  <2>2. Continues(With(acts, k + 1, Rainy(Stated(p, doc), rain)), k + 1, doc)
    BY <1>1, <1>2, <2>1, PushedFresh
  <2> QED BY <1>5, <2>2 DEF AddRain, E
<1>6. CASE t # 0
  <2>1. t \in DOMAIN acts
    BY <1>4, <1>6, LastOfIs
  <2>2. DOMAIN acts[t] = ActionFields
    BY <1>1, <2>1 DEF Sound, Held, Made
  <2>3. Alike(acts[t], WithAlternative(acts[t], rain))
        /\ WithAlternative(acts[t], rain).evidence = acts[t].evidence
    BY <2>2 DEF Alike, WithAlternative, ActionFields
  <2>4. Continues([acts EXCEPT ![t] = Evidenced(WithAlternative(acts[t], rain), p, doc)], k + 1, doc)
    BY <1>1, <1>2, <1>3, <2>1, <2>3, Added DEF Continues
  <2> QED BY <1>6, <2>4 DEF AddRain, E
<1> QED BY <1>5, <1>6

LEMMA ExemptionStep ==
  ASSUME NEW k \in Nat, NEW doc, NEW acts, Continues(acts, k, doc),
         Counts(doc.text[k+1]), Cues[doc.text[k+1]].exempt
  PROVE  Continues(AddExemption(acts, ExemptionTarget(acts, doc.text[k+1]), Stated(doc.text[k+1], doc), k + 1, doc),
                   k + 1, doc)
<1> DEFINE p == doc.text[k+1]
           t == ExemptionTarget(acts, p)
<1>1. PICK prov : Sound(acts, prov, k, doc)
  BY DEF Continues
<1>2. \A i : Stands(acts[i], prov[i], k + 1, doc)
  BY DEF Stands, Redates, Instruction, Retracts
<1>3. ~Instruction(p)
  BY DEF Instruction
<1>4. t = 0 \/ t \in DOMAIN acts
  <2>1. \A kind, object : OfKind(acts, kind) \subseteq DOMAIN acts
    BY DEF OfKind
  <2>2. \E S \in SUBSET DOMAIN acts : t = LastOf(S)
    BY <2>1 DEF ExemptionTarget
  <2>3. DOMAIN acts \subseteq 1 .. k
    BY <1>1 DEF Sound
  <2> QED BY <2>2, <2>3, LastOfIs
<1> HIDE DEF t
<1>5. CASE t = 0
  <2>1. Fresh(Waiver(Stated(p, doc)), p, doc)
    BY StatedIsFresh
  <2>2. Continues(With(acts, k + 1, Waiver(Stated(p, doc))), k + 1, doc)
    BY <1>1, <1>2, <2>1, PushedFresh
  <2> QED BY <1>5, <2>2 DEF AddExemption, t
<1>6. CASE t # 0
  <2> DEFINE y == Conditioned(acts[t], {"already_submitted", p})
  <2>1. t \in DOMAIN acts
    BY <1>4, <1>6
  <2>2. DOMAIN acts[t] = ActionFields
    BY <1>1, <2>1 DEF Sound, Held, Made
  <2>3. Alike(acts[t], y) /\ y.evidence = acts[t].evidence
    BY <2>2 DEF Alike, ActionFields, Conditioned
  <2>4. Continues([acts EXCEPT ![t] = Evidenced(y, p, doc)], k + 1, doc)
    <3> HIDE DEF y
    <3> QED BY <1>1, <1>2, <1>3, <2>1, <2>3, Added DEF Continues
  <2>5. AddExemption(acts, t, Stated(p, doc), k + 1, doc) = [acts EXCEPT ![t] = Evidenced(y, p, doc)]
    BY <1>6 DEF AddExemption
  <2> QED BY <2>4, <2>5 DEF t
<1> QED BY <1>5, <1>6

\* A negation is quoted by the last action of its name; for any other action of
\* that name, a sentence behind that last one might be meant.
LEMMA NegationStep ==
  ASSUME NEW k \in Nat, NEW doc, NEW acts, Continues(acts, k, doc),
         Counts(doc.text[k+1]), Cues[doc.text[k+1]].negated
  PROVE  Continues(AddNegation(acts, NegationTarget(acts, doc.text[k+1]), Stated(doc.text[k+1], doc), k + 1, doc),
                   k + 1, doc)
<1> DEFINE p == doc.text[k+1]
           o == Cues[p].object
           E == Naming(acts, o)
           t == NegationTarget(acts, p)
<1>1. PICK prov : Sound(acts, prov, k, doc)
  BY DEF Continues
<1>3. ~Instruction(p)
  BY DEF Instruction
<1>4. E \in SUBSET (1 .. k) /\ E \subseteq DOMAIN acts /\ t = LastOf(E)
  BY <1>1 DEF Naming, Sound, NegationTarget
<1>2. ASSUME NEW i \in DOMAIN acts, i # t PROVE Stands(acts[i], prov[i], k + 1, doc)
  <2>1. ~Redates(p, acts[i], YearOf(doc.text))
    BY <1>3 DEF Redates
  <2>2. ASSUME Retracts(p, acts[i])
        PROVE  \E h \in 1 .. (k+1)-1 : /\ h \notin prov[i] /\ Counts(doc.text[h])
                                      /\ Said(doc.text[h]) \cap acts[i].about # {}
    <3>1. i \in E /\ o \in acts[i].about
      BY <2>2 DEF Retracts, Naming, Names
    <3>2. t \in E
      BY <1>4, <3>1, LastOfIs
    <3>3. t \in DOMAIN acts /\ o \in acts[t].about
      BY <3>2 DEF Naming, Names
    <3>4. /\ acts[t].about \subseteq Sayings(prov[t], doc) /\ prov[t] \subseteq 1 .. k
          /\ \A h \in prov[t] : Counts(doc.text[h])
      BY <1>1, <3>3 DEF Sound, Held, Made
    <3>5. PICK h \in prov[t] : o \in Said(doc.text[h])
      BY <3>3, <3>4 DEF Sayings
    <3>6. prov[t] \cap prov[i] = {}
      BY <1>1, <1>2, <3>3 DEF Sound
    <3>7. h \in 1 .. (k+1)-1 /\ h \notin prov[i]
      BY <3>4, <3>6
    <3> QED BY <3>1, <3>4, <3>5, <3>7
  <2> QED BY <2>1, <2>2 DEF Stands
<1> HIDE DEF t
<1>5. CASE t = 0
  <2>0. \A i \in DOMAIN acts : Stands(acts[i], prov[i], k + 1, doc)
    <3>1. 0 \notin DOMAIN acts
      BY <1>1 DEF Sound
    <3> QED BY <3>1, <1>2, <1>5
  <2>1. Fresh(Waiver(Stated(p, doc)), p, doc)
    BY StatedIsFresh
  <2>2. Continues(With(acts, k + 1, Waiver(Stated(p, doc))), k + 1, doc)
    BY <1>1, <2>0, <2>1, PushedFresh
  <2>3. Continues(acts, k + 1, doc)
    BY <1>1, <2>0, Passed DEF Continues
  <2> QED BY <1>5, <2>2, <2>3 DEF AddNegation, t
<1>6. CASE t # 0
  <2> DEFINE y == Conditioned(acts[t], {p})
  <2>1. t \in DOMAIN acts
    BY <1>4, <1>6, LastOfIs
  <2>2. DOMAIN acts[t] = ActionFields
    BY <1>1, <2>1 DEF Sound, Held, Made
  <2>3. Alike(acts[t], y) /\ y.evidence = acts[t].evidence
    BY <2>2 DEF Alike, ActionFields, Conditioned
  <2>4. Continues([acts EXCEPT ![t] = Evidenced(y, p, doc)], k + 1, doc)
    <3> HIDE DEF y
    <3> QED BY <1>1, <1>2, <1>3, <2>1, <2>3, Added DEF Continues
  <2>5. AddNegation(acts, t, Stated(p, doc), k + 1, doc) = [acts EXCEPT ![t] = Evidenced(y, p, doc)]
    BY <1>6 DEF AddNegation
  <2> QED BY <2>4, <2>5 DEF t
<1> QED BY <1>5, <1>6

\* A correction that gives an action another date is read as one with a date.
LEMMA RedatingIsSeen ==
  ASSUME NEW p \in Passages, NEW x, NEW year, Redates(p, x, year)
  PROVE  Cues[p].corrects /\ PrimaryTemporal(p, year) # None
<1> DEFINE mentions == Cues[p].mentions
           proposed == Proposed(p, year)
<1>1. Cues[p].corrects /\ Replacement(p, year) # None
  BY DEF Redates, ReplacementDate, DateIn
<1>2. Cardinality(Dates(proposed, year)) = 1
  BY <1>1 DEF Replacement, OnlyOf
<1>3. Dates(proposed, year) # {}
  BY <1>2, FS_EmptySet
<1>4. mentions \in Seq(Range(mentions))
  BY MentionsAreGiven DEF Passages
<1>5. proposed \in Seq(Range(proposed)) /\ Range(proposed) \subseteq Range(mentions)
  BY <1>4, ThoseAre DEF Proposed
<1> HIDE DEF proposed
<1>6. PICK i \in DOMAIN proposed : DateOf(proposed[i], year) # None
  BY <1>3 DEF Dates
<1>7. proposed[i] \in Range(proposed)
  BY <1>6 DEF Range
<1>8. PICK m \in DOMAIN mentions : mentions[m] = proposed[i]
  BY <1>5, <1>7 DEF Range
<1>9. DatesIn(p, year) # {}
  BY <1>6, <1>8 DEF DatesIn, Dates
<1> QED BY <1>1, <1>9 DEF PrimaryTemporal

\* And it is about every action whose date it changes.
LEMMA RedatedIsTarget ==
  ASSUME NEW acts, NEW i \in DOMAIN acts, NEW p \in Passages, NEW year, Redates(p, acts[i], year),
         Head(acts[i].evidence).passage \in EvidencePassages(acts[i])
  PROVE  i \in CorrectionTargets(acts, p)
<1> DEFINE x == acts[i]
<1>1. Cues[p].corrects /\ Cues[p].kind \in {x.kind, "deadline", "other"}
  BY DEF Redates
<1>2. x.kind = Cues[p].kind \/ Generic(Cues[p].kind)
  BY <1>1 DEF Generic
<1>3. IF Cues[p].object # None THEN Cues[p].object = x.object
      ELSE Cues[p].subjects \cap Cues[Head(x.evidence).passage].subjects # {}
  BY DEF Redates
<1>4. Cues[Head(x.evidence).passage].subjects \subseteq SubjectsOf(x)
  BY DEF SubjectsOf
<1>5. Corrects(p, x)
  <2> HIDE DEF x
  <2> QED BY <1>2, <1>3, <1>4 DEF Corrects
<1> QED BY <1>1, <1>5 DEF CorrectionTargets

LEMMA StatementStep ==
  ASSUME NEW k \in Nat, NEW doc, NEW acts, Continues(acts, k, doc),
         doc.text[k+1] \in Passages, Counts(doc.text[k+1]), ~Cues[doc.text[k+1]].negated
  PROVE  Continues(AddStatement(acts, Stated(doc.text[k+1], doc), k + 1, doc), k + 1, doc)
<1> DEFINE p == doc.text[k+1]
           new == Stated(p, doc)
           year == YearOf(doc.text)
           T == CorrectionTargets(acts, p)
           t == Max(T)
<1>1. PICK prov : Sound(acts, prov, k, doc)
  BY DEF Continues
<1>2. DOMAIN acts \subseteq 1 .. k /\ T \subseteq DOMAIN acts
  BY <1>1 DEF Sound, CorrectionTargets
<1>3. \A i \in DOMAIN acts : Head(acts[i].evidence).passage \in EvidencePassages(acts[i])
  <2> TAKE i \in DOMAIN acts
  <2>1. Made(acts[i], i, prov[i], k, doc)
    BY <1>1 DEF Sound, Held
  <2> QED BY <2>1, PassagesMade
<1>4. \A i \in DOMAIN acts \ T : ~Redates(p, acts[i], year)
  BY <1>3, RedatedIsTarget
<1>5. new.temporal = None => \A i \in DOMAIN acts : ~Redates(p, acts[i], year)
  <2>1. new.temporal = PrimaryTemporal(p, year)
    BY DEF Stated
  <2> QED BY <2>1, RedatingIsSeen
<1>6. \A i : ~Redates(p, acts[i], year) => Stands(acts[i], prov[i], k + 1, doc)
  BY DEF Stands, Retracts
<1>7. Fresh(Asserted(new), p, doc)
  BY StatedIsFresh
<1> HIDE DEF T, new
<1>8. CASE new.kind = "other" /\ new.modality = "unknown" /\ new.temporal = None
  <2>1. Continues(acts, k + 1, doc)
    BY <1>1, <1>5, <1>6, <1>8, Passed DEF Continues
  <2> QED BY <1>8, <2>1 DEF AddStatement, new
<1>9. ASSUME ~(new.kind = "other" /\ new.modality = "unknown" /\ new.temporal = None)
      PROVE  Continues(AddStatement(acts, new, k + 1, doc), k + 1, doc)
  <2>0. AddStatement(acts, new, k + 1, doc) = Replaced(acts, T, new, k + 1, doc)
    BY <1>9 DEF AddStatement, T
  <2>1. CASE T = {}
    <3>1. Continues(With(acts, k + 1, Asserted(new)), k + 1, doc)
      BY <1>1, <1>4, <1>6, <1>7, <2>1, PushedFresh
    <3> QED BY <2>0, <2>1, <3>1 DEF Replaced
  <2>2. CASE T # {} /\ Cardinality(T) = 1
    <3> DEFINE x == Corrected(new, acts[t], doc)
    <3>1. t \in T
      BY <1>2, <2>2, LastOfIs DEF LastOf
    <3>2. Made(acts[t], t, prov[t], k, doc)
      BY <1>1, <1>2, <3>1 DEF Sound, Held
    <3>3. Held(x, k + 1, prov[t] \cup {k+1}, k + 1, doc)
      BY <3>2, CorrectedIsMade DEF new
    <3> HIDE DEF x, t
    <3>4. \E more : Sound(With(Without(acts, T), k + 1, x), more, k + 1, doc)
      BY <1>1, <1>2, <1>4, <1>6, <3>1, <3>3, Pushed
    <3> QED BY <2>0, <2>2, <3>4 DEF Replaced, Continues, x, t
  <2>3. CASE T # {} /\ Cardinality(T) # 1
    <3>1. Sound(Without(acts, T), prov, k + 1, doc)
      BY <1>1, <1>4, <1>6, Dropped
    <3> QED BY <2>0, <2>3, <3>1 DEF Replaced, Continues
  <2> QED BY <2>1, <2>2, <2>3
<1> QED BY <1>8, <1>9 DEF new

\* After k sentences: the actions, and what was called off.
ReadUpTo(read, k, doc) ==
  /\ Continues(read.actions, k, doc)
  /\ \A j \in 1 .. k : Cues[doc.text[j]].cancels /\ ~Cues[doc.text[j]].filler =>
                          Cues[doc.text[j]].subjects \subseteq read.cancelled
  /\ DOMAIN read = {"actions", "cancelled"}

LEMMA SentenceStep ==
  ASSUME NEW k \in Nat, NEW doc, doc.text[k+1] \in Passages, NEW read, ReadUpTo(read, k, doc)
  PROVE  ReadUpTo(ReadSentence(read, k + 1, doc), k + 1, doc)
<1> DEFINE p == doc.text[k+1]
           new == Stated(p, doc)
           acts == read.actions
           result == ReadSentence(read, k + 1, doc)
<1>1. Continues(acts, k, doc) /\ DOMAIN read = {"actions", "cancelled"}
  BY DEF ReadUpTo
<1>2. \A j \in 1 .. k+1 : j \in 1 .. k \/ j = k + 1
  OBVIOUS
<1>3. CASE ~Counts(p)
  <2>1. Continues(acts, k + 1, doc)
    <3>1. PICK prov : Sound(acts, prov, k, doc)
      BY <1>1 DEF Continues
    <3>2. \A i : Stands(acts[i], prov[i], k + 1, doc)
      BY <1>3 DEF Stands, Redates, Instruction, Retracts, Counts
    <3> QED BY <3>1, <3>2, Passed DEF Continues
  <2>2. /\ DOMAIN result = {"actions", "cancelled"} /\ result.actions = acts
        /\ read.cancelled \subseteq result.cancelled
        /\ Cues[p].cancels /\ ~Cues[p].filler => Cues[p].subjects \subseteq result.cancelled
    BY <1>1, <1>3 DEF ReadSentence, Counts
  <2> HIDE DEF result
  <2> QED BY <1>2, <2>1, <2>2 DEF ReadUpTo, result
<1>4. CASE Counts(p)
  <2>1. Continues(AddSentence(acts, new, k + 1, doc), k + 1, doc)
    <3>1. CASE Cues[p].rain
      BY <1>1, <1>4, <3>1, RainStep DEF AddSentence
    <3>2. CASE ~Cues[p].rain /\ Cues[p].exempt
      BY <1>1, <1>4, <3>2, ExemptionStep DEF AddSentence
    <3>3. CASE ~Cues[p].rain /\ ~Cues[p].exempt /\ Cues[p].negated
      BY <1>1, <1>4, <3>3, NegationStep DEF AddSentence
    <3>4. CASE ~Cues[p].rain /\ ~Cues[p].exempt /\ ~Cues[p].negated
      BY <1>1, <1>4, <3>4, StatementStep DEF AddSentence
    <3> QED BY <3>1, <3>2, <3>3, <3>4
  <2>2. /\ DOMAIN result = {"actions", "cancelled"}
        /\ result.actions = AddSentence(acts, new, k + 1, doc)
        /\ result.cancelled = read.cancelled /\ ~Cues[p].cancels
    <3>1. result = [read EXCEPT !.actions = AddSentence(acts, new, k + 1, doc)] /\ ~Cues[p].cancels
      BY <1>4 DEF ReadSentence, Counts
    <3> QED BY <1>1, <3>1
  <2> HIDE DEF result
  <2> QED BY <1>2, <2>1, <2>2 DEF ReadUpTo, result
<1> QED BY <1>3, <1>4

\* The run over the sentences, one by one.
ReadAt(doc, read, k) ==
  IF k = 0 THEN [actions |-> <<>>, cancelled |-> {}] ELSE ReadSentence(read[k-1], k, doc)

ReadTo(doc, k, read) == read = [i \in 0 .. k |-> ReadAt(doc, read, i)]

LEMMA ReadExists ==
  ASSUME NEW doc, Len(doc.text) \in Nat
  PROVE  \E read : ReadTo(doc, Len(doc.text), read)
<1> DEFINE N == Len(doc.text)
           Bad == {k \in 0 .. N : ~ \E read : ReadTo(doc, k, read)}
<1> SUFFICES ASSUME Bad # {} PROVE FALSE
  OBVIOUS
<1>1. PICK k \in Bad : \A j \in Bad : k <= j
  <2>1. Bad \in SUBSET Nat
    OBVIOUS
  <2> HIDE DEF Bad
  <2> QED BY <2>1, Minimum
<1>2. k \in 0 .. N
  OBVIOUS
<1>3. CASE k = 0
  <2> DEFINE read == [i \in 0 .. 0 |-> ReadAt(doc, <<>>, 0)]
  <2>1. read = [i \in 0 .. k |-> ReadAt(doc, read, i)]
    BY <1>3 DEF ReadAt
  <2> QED BY <2>1 DEF ReadTo
<1>4. CASE k # 0
  <2>1. k - 1 \in 0 .. N /\ k - 1 \notin Bad
    BY <1>1, <1>2, <1>4
  <2>2. PICK read : ReadTo(doc, k - 1, read)
    BY <2>1
  <2> DEFINE more == [i \in 0 .. k |-> IF i = k THEN ReadAt(doc, read, k) ELSE read[i]]
  <2>3. \A i \in 0 .. k : ReadAt(doc, more, i) = ReadAt(doc, read, i)
    <3> TAKE i \in 0 .. k
    <3>1. i # 0 => more[i-1] = read[i-1]
      BY <1>2, <1>4
    <3> QED BY <3>1 DEF ReadAt
  <2>4. \A i \in 0 .. k : more[i] = ReadAt(doc, read, i)
    BY <2>2, <1>2, <1>4 DEF ReadTo
  <2>5. more = [i \in 0 .. k |-> ReadAt(doc, more, i)]
    BY <2>3, <2>4
  <2> HIDE DEF more
  <2> QED BY <2>5 DEF ReadTo
<1> QED BY <1>3, <1>4

LEMMA TextIsRead ==
  ASSUME NEW doc, doc.text \in Seq(Passages)
  PROVE  ReadUpTo(ReadText(doc), Len(doc.text), doc)
<1> DEFINE read == CHOOSE read : read = [i \in 0 .. Len(doc.text) |-> ReadAt(doc, read, i)]
           N == Len(doc.text)
<1>1. N \in Nat /\ \A i \in 1 .. N : doc.text[i] \in Passages
  OBVIOUS
<1>2. read = [i \in 0 .. N |-> ReadAt(doc, read, i)]
  BY <1>1, ReadExists DEF ReadTo
<1>3. ReadText(doc) = read[N]
  BY DEF ReadText, ReadAt
<1> HIDE DEF read
<1> DEFINE Bad == {k \in 0 .. N : ~ReadUpTo(read[k], k, doc)}
<1>4. Bad = {}
  <2> SUFFICES ASSUME Bad # {} PROVE FALSE
    OBVIOUS
  <2>1. PICK k \in Bad : \A j \in Bad : k <= j
    <3>1. Bad \in SUBSET Nat
      BY <1>1
    <3> HIDE DEF Bad
    <3> QED BY <3>1, Minimum
  <2>2. k \in 0 .. N /\ ~ReadUpTo(read[k], k, doc)
    OBVIOUS
  <2>3. read[k] = ReadAt(doc, read, k)
    BY <1>2, <2>2
  <2>4. k # 0
    <3> SUFFICES ASSUME k = 0 PROVE FALSE
      OBVIOUS
    <3>1. read[k] = [actions |-> <<>>, cancelled |-> {}]
      BY <2>3 DEF ReadAt
    <3>2. Sound(<<>>, <<>>, 0, doc)
      BY DEF Sound
    <3>3. Continues(read[k].actions, k, doc)
      BY <3>1, <3>2 DEF Continues
    <3>4. DOMAIN read[k] = {"actions", "cancelled"} /\ 1 .. 0 = {}
      BY <3>1
    <3> QED BY <2>2, <3>3, <3>4 DEF ReadUpTo
  <2> DEFINE m == k - 1
  <2>5. m \in 0 .. N /\ m \in Nat /\ m + 1 = k /\ m \notin Bad
    BY <1>1, <2>1, <2>2, <2>4
  <2>6. ReadUpTo(read[m], m, doc)
    BY <2>5
  <2>7. read[k] = ReadSentence(read[m], m + 1, doc)
    BY <2>3, <2>4, <2>5 DEF ReadAt
  <2>8. doc.text[m+1] \in Passages
    BY <1>1, <2>2, <2>4
  <2> HIDE DEF m
  <2>9. ReadUpTo(read[k], k, doc)
    BY <2>5, <2>6, <2>7, <2>8, SentenceStep
  <2> QED BY <2>2, <2>9
<1> QED BY <1>1, <1>3, <1>4

\* What holds of an action does not depend on what it shares with others.
LEMMA AlikeHeld ==
  ASSUME NEW x, NEW i, NEW P, NEW k, NEW doc, Held(x, i, P, k, doc),
         NEW y, Alike(x, y), y.evidence = x.evidence
  PROVE  Held(y, i, P, k, doc)
<1>1. Made(y, i, P, k, doc)
  BY DEF Held, Made, Alike
<1>2. ASSUME NEW j, Stands(x, P, j, doc) PROVE Stands(y, P, j, doc)
  <2>1. Redates(doc.text[j], y, YearOf(doc.text)) <=> Redates(doc.text[j], x, YearOf(doc.text))
    BY DEF Alike, Redates
  <2>2. Retracts(doc.text[j], y) <=> Retracts(doc.text[j], x)
    BY DEF Alike, Retracts, Names
  <2>3. EvidencePassages(x) = EvidencePassages(y) /\ y.about = x.about
    BY DEF EvidencePassages, Alike
  <2> QED BY <1>2, <2>1, <2>2, <2>3 DEF Stands
<1> QED BY <1>1, <1>2 DEF Held

\* No sentence of the text calls off anything that the action names.
NotCalledOff(action, text) ==
  \A j \in DOMAIN text : Cues[text[j]].cancels /\ ~Cues[text[j]].filler =>
                            Cues[text[j]].subjects \cap action.about = {}

\* Every action of the candidate that is made of the reply.
LEMMA ExtractedIs ==
  ASSUME NEW doc, doc.text \in Seq(Passages),
         NEW n \in DOMAIN Candidates(ExtractDeterministically(doc), doc).actions
  PROVE  LET b == Candidates(ExtractDeterministically(doc), doc).actions[n]
         IN /\ b.id = n
            /\ \E i, P : Held(b, i, P, Len(doc.text), doc)
            /\ NotCalledOff(b, doc.text)
<1> DEFINE read == ReadText(doc)
           N == Len(doc.text)
           order == [k \in DOMAIN doc.text |-> k]
           remaining == Those(order, Remaining(read))
           reply == ExtractDeterministically(doc)
           x == read.actions[remaining[n]]
           b == Candidates(reply, doc).actions[n]
<1>1. ReadUpTo(read, N, doc)
  BY TextIsRead
<1>2. remaining \in Seq(Range(remaining)) /\ Range(remaining) \subseteq Remaining(read)
  <2>1. order \in Seq(Nat)
    OBVIOUS
  <2> HIDE DEF order, read
  <2> QED BY <2>1, ThoseAre
<1>3. reply.actions = [m \in DOMAIN remaining |-> [read.actions[remaining[m]] EXCEPT !.id = m]]
  BY DEF ExtractDeterministically, Deterministically, Numbered
<1> HIDE DEF remaining, read, reply
<1>4. n \in DOMAIN remaining /\ reply.actions[n] = [x EXCEPT !.id = n]
      /\ b = Candidate(reply.actions[n], n, doc)
  <2>1. n \in DOMAIN reply.actions
    BY DEF Candidates, reply
  <2>2. b = Candidate(reply.actions[n], n, doc)
    BY <2>1 DEF Candidates
  <2> QED BY <1>3, <2>1, <2>2
<1>5. remaining[n] \in DOMAIN read.actions /\ x.about \cap read.cancelled = {}
  <2>1. remaining[n] \in Remaining(read)
    BY <1>2, <1>4 DEF Range
  <2> QED BY <2>1 DEF Remaining
<1>6. PICK P : Held(x, remaining[n], P, N, doc)
  <2>1. PICK prov : Sound(read.actions, prov, N, doc)
    BY <1>1 DEF ReadUpTo, Continues
  <2> QED BY <2>1, <1>5 DEF Sound
<1>7. /\ DOMAIN x = ActionFields /\ x.status = "proposed"
      /\ x.evidence \in Seq(Citations(P, doc))
  BY <1>6 DEF Held, Made
<1> HIDE DEF x, b
<1>8. Alike(x, b) /\ b.id = n /\ b.evidence = [j \in DOMAIN x.evidence |-> Quoted(x.evidence[j], doc)]
  <2> DEFINE y == [x EXCEPT !.id = n]
  <2>1. /\ DOMAIN y = ActionFields /\ y.status = "proposed" /\ y.evidence = x.evidence
        /\ y.id = n /\ y.kind = x.kind /\ y.object = x.object /\ y.about = x.about
    BY <1>7 DEF ActionFields
  <2>2. b = Candidate(y, n, doc)
    BY <1>4
  <2> HIDE DEF y
  <2>3. /\ DOMAIN b = ActionFields /\ b.status = "proposed"
        /\ b.evidence = [j \in DOMAIN x.evidence |-> Quoted(x.evidence[j], doc)]
        /\ b.id = n /\ b.kind = x.kind /\ b.object = x.object /\ b.about = x.about
    BY <2>1, <2>2 DEF Candidate, ActionFields, Provided
  <2> QED BY <1>7, <2>3 DEF Alike
<1>9. b.evidence = x.evidence
  <2>1. \A p : Quoted(Cite(p, doc), doc) = Cite(p, doc)
    BY DEF Quoted, Cite, Provided
  <2>2. \A c \in Citations(P, doc) : Quoted(c, doc) = c
    BY <2>1 DEF Citations
  <2> DEFINE C == Citations(P, doc)
             e == x.evidence
  <2>3. e \in Seq(C) /\ \A c \in C : Quoted(c, doc) = c
    BY <1>7, <2>2
  <2> HIDE DEF C, e
  <2>4. [j \in DOMAIN e |-> Quoted(e[j], doc)] = e
    BY <2>3
  <2> QED BY <1>8, <2>4 DEF e
<1>10. Held(b, remaining[n], P, N, doc)
  BY <1>6, <1>8, <1>9, AlikeHeld
<1>11. NotCalledOff(b, doc.text)
  <2>1. b.about = x.about /\ DOMAIN doc.text = 1 .. N
    BY <1>8 DEF Alike
  <2> QED BY <1>1, <1>5, <2>1 DEF NotCalledOff, ReadUpTo
<1> QED BY <1>8, <1>10, <1>11 DEF b, reply

\* One that the verifier lets through is up to date.
LEMMA PassedIsUpToDate ==
  ASSUME NEW b, NEW i, NEW P, NEW doc, doc.text \in Seq(Passages), Held(b, i, P, Len(doc.text), doc),
         NEW any, NEW from, VerifyAction(b, any, from).passed
  PROVE  i \in DOMAIN doc.text /\ UpToDate(b, i, doc.text)
<1> DEFINE text == doc.text
           N == Len(text)
<1>1. Made(b, i, P, N, doc) /\ DOMAIN text = 1 .. N /\ N \in Nat
  BY DEF Held
<1>2. /\ Head(b.evidence).passage = text[i] /\ i \in 1 .. N /\ P \subseteq 1 .. N
      /\ EvidencePassages(b) \subseteq {text[h] : h \in P}
  <2>1. i \in P /\ P \subseteq 1 .. N
    BY <1>1 DEF Made
  <2>2. /\ Head(b.evidence).passage = text[i]
        /\ EvidencePassages(b) \subseteq {text[h] : h \in P}
    BY <1>1, PassagesMade
  <2> QED BY <2>1, <2>2
<1>3. ~Negated(b)
  BY DEF VerifyAction, ResultOf, Checks
<1>4. ASSUME NEW j \in i+1 .. N
      PROVE  /\ ~Redates(text[j], b, YearOf(text))
             /\ b.modality = "required" /\ Alone(b, j, text) => ~Retracts(text[j], b)
  <2>1. Stands(b, P, j, doc)
    BY DEF Held
  <2>2. ASSUME b.modality = "required", Alone(b, j, text), Retracts(text[j], b) PROVE FALSE
    <3>1. CASE text[j] \in EvidencePassages(b)
      <4>1. Cues[text[j]].negated /\ ~Cues[text[j]].exempt
        BY <2>2 DEF Retracts
      <4> QED BY <1>3, <2>2, <3>1, <4>1 DEF Negated
    <3>2. CASE text[j] \notin EvidencePassages(b)
      <4>1. PICK h \in 1 .. j-1 : /\ h \notin P /\ Counts(text[h])
                                  /\ Said(text[h]) \cap b.about # {}
        BY <2>1, <2>2, <3>2 DEF Stands
      <4>2. text[h] \in EvidencePassages(b) /\ \A g \in DOMAIN text \ {h} : text[g] # text[h]
        BY <2>2, <4>1 DEF Alone
      <4>3. PICK g \in P : text[g] = text[h]
        BY <1>2, <4>2
      <4>4. g \in DOMAIN text \ {h}
        BY <1>1, <1>2, <4>1, <4>3
      <4> QED BY <4>2, <4>3, <4>4
    <3> QED BY <3>1, <3>2
  <2> QED BY <2>1, <2>2 DEF Stands
<1> QED BY <1>1, <1>2, <1>4 DEF UpToDate

-----------------------------------------------------------------------------
(* The text of the documents that are verified.                              *)

LEMMA OnePart ==
  ASSUME NEW text
  PROVE  FlattenSeq(<<text>>) = text /\ FlattenSeq(<<>>) = <<>>
  BY DEF FlattenSeq

\* Joined parts: of no part, and of one page.
LEMMA NoParts == Joined(<<>>) = <<>>
<1>1. [i \in DOMAIN <<>> |-> <<>>[i].text] = <<>>
  OBVIOUS
<1> QED BY <1>1, OnePart DEF Joined

LEMMA OnePage ==
  ASSUME NEW text
  PROVE  Joined(ByNumber(<<[number |-> 1, text |-> text]>>)) = text
<1> DEFINE page == [number |-> 1, text |-> text]
           pages == <<page>>
           Before(i) == {j \in DOMAIN pages :
                            \/ pages[j].number < pages[i].number
                            \/ pages[j].number = pages[i].number /\ j < i}
           place(k) == CHOOSE i \in DOMAIN pages : Cardinality(Before(i)) = k - 1
<1>1. DOMAIN pages = {1} /\ pages[1] = page /\ page.number = 1 /\ page.text = text
  OBVIOUS
<1>2. ByNumber(pages) = [k \in DOMAIN pages |-> pages[place(k)]]
  BY DEF ByNumber
<1>3. pages[place(1)] = page
  <2>1. Before(1) = {}
    BY <1>1
  <2> HIDE DEF Before, pages, page
  <2>2. \E i \in DOMAIN pages : Cardinality(Before(i)) = 1 - 1
    BY <1>1, <2>1, FS_EmptySet
  <2>3. place(1) \in DOMAIN pages
    BY <2>2
  <2> HIDE DEF place
  <2> QED BY <1>1, <2>3
<1> HIDE DEF place, page
<1>4. DOMAIN ByNumber(pages) = {1} /\ ByNumber(pages)[1] = page
  BY <1>1, <1>2, <1>3
<1>5. [i \in DOMAIN ByNumber(pages) |-> ByNumber(pages)[i].text] = <<text>>
  <2> HIDE DEF pages
  <2> QED BY <1>1, <1>4
<1>6. Joined(ByNumber(pages)) = text
  BY <1>5, OnePart DEF Joined
<1> QED BY <1>6 DEF page

\* Documents from the extractor and from the command line have the text they were given.
LEMMA PlainText ==
  ASSUME NEW id, NEW text, text # None
  PROVE  LET doc == PlainDocument(id, text)
         IN doc.id = id /\ doc.hash = text /\ doc.text = text /\ CanonicalText(doc) = text
<1> DEFINE raw == [id |-> id, text |-> text, pages |-> <<[number |-> 1, text |-> text]>>,
                   chunks |-> <<[page |-> 1, text |-> text]>>, hash |-> None]
<1>1. raw.text = text /\ raw.pages # <<>> /\ Joined(ByNumber(raw.pages)) = text
  BY OnePage
<1>2. CanonicalText(raw) = text
  BY <1>1 DEF CanonicalText
<1>3. PlainDocument(id, text) = [raw EXCEPT !.hash = text, !.text = text]
  BY <1>2 DEF PlainDocument, EnsureSourceHash
<1>4. /\ PlainDocument(id, text).hash = text /\ PlainDocument(id, text).text = text
      /\ PlainDocument(id, text).pages = raw.pages /\ PlainDocument(id, text).id = id
  BY <1>3
<1> QED BY <1>1, <1>4 DEF CanonicalText

LEMMA GivenText ==
  ASSUME NEW id, NEW text, text # None
  PROVE  LET doc == TextDocument(id, text)
         IN doc.id = id /\ doc.hash = text /\ doc.text = text /\ CanonicalText(doc) = text
<1> DEFINE raw == [id |-> id, text |-> text, pages |-> <<>>, chunks |-> <<>>, hash |-> None]
<1>1. raw.text = text /\ raw.pages = <<>> /\ Joined(raw.chunks) = <<>>
  BY NoParts
<1>2. CanonicalText(raw) = text
  BY <1>1 DEF CanonicalText, Blank
<1>3. TextDocument(id, text) = [raw EXCEPT !.hash = text, !.text = text]
  BY <1>2 DEF TextDocument, EnsureSourceHash
<1>4. /\ TextDocument(id, text).hash = text /\ TextDocument(id, text).text = text
      /\ TextDocument(id, text).id = id
      /\ TextDocument(id, text).pages = <<>> /\ TextDocument(id, text).chunks = raw.chunks
  BY <1>3
<1> QED BY <1>1, <1>4 DEF CanonicalText, Blank

-----------------------------------------------------------------------------
(* The verifier and the trust policy.                                        *)

\* What passes the verifier is backed by the text it was verified against.
LEMMA PassedIsBacked ==
  ASSUME NEW action, NEW doc, NEW from, VerifyAction(action, doc, from).passed
  PROVE  Backed(action, CanonicalText(doc))
<1> DEFINE c == Checks(action, doc, from)
           quotes == Range(action.evidence)
           text == CanonicalText(doc)
<1>1. c.evidence = {} /\ c.temporal /\ c.backed /\ ~c.off
  BY DEF VerifyAction, ResultOf, ModalitySupported
<1>2. /\ EvidenceIssues(action, doc, from) = {} /\ TemporalSupported(action, text)
      /\ ModalityBacked(action) /\ ~Cancelled(action)
  BY <1>1 DEF Checks
<1>3. EvidencePassages(action) = {q.passage : q \in quotes}
  BY DEF EvidencePassages, Range
<1>4. quotes # {} /\ \A q \in quotes : Quotes(text, q.passage)
  BY <1>2 DEF EvidenceIssues
<1>5. EvidencePassages(action) # {} /\ EvidencePassages(action) \subseteq ToSet(text)
  BY <1>3, <1>4 DEF Quotes
<1>6. \A date \in DeclaredDates(action) :
         \E p \in EvidencePassages(action) : date \in DatesIn(p, YearOf(text))
  BY <1>2 DEF TemporalSupported
<1>7. action.modality = "prohibited" => \E p \in EvidencePassages(action) : Cues[p].negated
  BY <1>2 DEF ModalityBacked
<1>8. action.kind = "event" /\ action.modality # "prohibited" =>
         \A p \in EvidencePassages(action) : ~Cues[p].cancels
  BY <1>2 DEF Cancelled
<1> QED BY <1>5, <1>6, <1>7, <1>8 DEF Backed

\* What a verification leaves as it was.
LEMMA VerifiedIs ==
  ASSUME NEW m, NEW doc, IsValid(m)
  PROVE  LET n == VerifyManifest(m, doc)
             flags == n.receipt.verification
         IN /\ DOMAIN n = ManifestFields /\ n.source = m.source
            /\ n.actions \in Seq(Range(n.actions)) /\ DOMAIN n.actions = DOMAIN m.actions
            /\ \A i \in DOMAIN m.actions :
                  /\ DOMAIN n.actions[i] = ActionFields
                  /\ Contents(n.actions[i]) = Contents(m.actions[i])
                  /\ n.actions[i].id = m.actions[i].id
                  /\ n.actions[i].evidence = m.actions[i].evidence
            /\ Receipted(n) \in {None, flags}
            /\ flags.results = Results(m, doc)
            /\ flags.hashMatched = HashMatched(m.source, doc)
            /\ ManifestIssues(m, doc) \subseteq flags.issues
<1> DEFINE n == VerifyManifest(m, doc)
           results == Results(m, doc)
           acts == Promoted(m.actions, results, Fatal(m, doc))
           some == Flags(m, doc, results, VerifiedCount(results, Fatal(m, doc)))
<1>1. DOMAIN m = ManifestFields /\ m.actions \in Seq(Range(m.actions))
      /\ \A i \in DOMAIN m.actions : DOMAIN m.actions[i] = ActionFields
  BY DEF IsValid, Range
<1>2. n = [m EXCEPT !.actions = acts, !.receipt = Receipt(m, some)]
  BY DEF VerifyManifest, Judged
<1>3. /\ DOMAIN n = ManifestFields /\ n.source = m.source /\ n.actions = acts
      /\ n.receipt = Receipt(m, some)
  BY <1>1, <1>2 DEF ManifestFields
<1>4. n.receipt.verification = some /\ Receipted(n) \in {None, some}
  BY <1>3 DEF Receipt, Receipted
<1>5. /\ some.results = results /\ some.hashMatched = HashMatched(m.source, doc)
      /\ ManifestIssues(m, doc) \subseteq some.issues
  BY DEF Flags
<1>6. /\ DOMAIN acts = DOMAIN m.actions
      /\ \A i \in DOMAIN m.actions : \/ acts[i] = m.actions[i]
                                     \/ acts[i] = [m.actions[i] EXCEPT !.status = "verified"]
  BY DEF Promoted
<1>7. acts \in Seq(Range(acts))
  <2>1. DOMAIN acts = 1 .. Len(m.actions) /\ Len(m.actions) \in Nat
    BY <1>1, <1>6
  <2>2. acts = [i \in 1 .. Len(m.actions) |-> acts[i]]
    BY <2>1 DEF Promoted
  <2>3. \A i \in 1 .. Len(m.actions) : acts[i] \in Range(acts)
    BY <2>1 DEF Range
  <2> HIDE DEF acts
  <2> QED BY <2>1, <2>2, <2>3
<1>8. \A i \in DOMAIN m.actions :
         /\ DOMAIN acts[i] = ActionFields
         /\ Contents(acts[i]) = Contents(m.actions[i])
         /\ acts[i].id = m.actions[i].id
         /\ acts[i].evidence = m.actions[i].evidence
  <2> TAKE i \in DOMAIN m.actions
  <2>1. DOMAIN m.actions[i] = ActionFields
    BY <1>1
  <2> HIDE DEF acts
  <2> QED BY <1>6, <2>1 DEF ActionFields, Contents
<1> HIDE DEF acts, some
<1> QED BY <1>3, <1>4, <1>5, <1>6, <1>7, <1>8

\* The policy calls ready only what has passed: an action whose id is that of
\* exactly one verified action is judged by the result of that one.
LEMMA ReadyHasPassed ==
  ASSUME NEW m, NEW doc, IsValid(m), UniqueIds(VerifyManifest(m, doc)),
         NEW flags, flags \in {None, VerifyManifest(m, doc).receipt.verification},
         NEW a, NEW i \in DOMAIN m.actions, a.id = m.actions[i].id, Ready(a, flags)
  PROVE  /\ VerifyAction(m.actions[i], doc, m.source).passed
         /\ HashMatched(m.source, doc) /\ CanonicalText(doc) # Blank
<1> DEFINE some == VerifyManifest(m, doc).receipt.verification
           results == Results(m, doc)
<1>1. flags # None /\ flags = some /\ FatalReasons(flags) = {}
      /\ TrustOf(ResultsFor(a, flags), a.status, flags) = "READY"
  BY DEF Ready, TrustReason
<1>2. /\ some.results = results /\ some.hashMatched = HashMatched(m.source, doc)
      /\ ManifestIssues(m, doc) \subseteq some.issues
      /\ DOMAIN m.actions = 1 .. Len(m.actions) /\ Len(m.actions) \in Nat
      /\ \A j \in DOMAIN m.actions : VerifyManifest(m, doc).actions[j].id = m.actions[j].id
      /\ DOMAIN VerifyManifest(m, doc).actions = DOMAIN m.actions
  BY VerifiedIs DEF IsValid
<1>3. DOMAIN results = DOMAIN m.actions
      /\ \A j \in DOMAIN results : /\ results[j] = VerifyAction(m.actions[j], doc, m.source)
                                  /\ results[j].id = m.actions[j].id
  BY DEF Results, VerifyAction, ResultOf
<1> HIDE DEF some, results
<1>4. \A j \in DOMAIN results : results[j].id = a.id <=> j = i
  BY <1>2, <1>3 DEF UniqueIds
<1>5. ResultsFor(a, flags) = {i}
  BY <1>1, <1>2, <1>3, <1>4 DEF ResultsFor
<1>6. i \in Nat /\ Min({i}) = i
  <2>1. i \in Nat
    BY <1>2
  <2> QED BY <2>1 DEF Min
<1>7. results[i].passed
  BY <1>1, <1>2, <1>5, <1>6 DEF TrustOf
<1>8. HashMatched(m.source, doc)
  BY <1>1, <1>2 DEF FatalReasons
<1>9. CanonicalText(doc) # Blank
  <2> SUFFICES ASSUME CanonicalText(doc) = Blank PROVE FALSE
    OBVIOUS
  <2>1. Issue("EMPTY_SOURCE", None) \in ManifestIssues(m, doc)
    BY DEF ManifestIssues
  <2>2. "EMPTY_SOURCE" \in {issue.code : issue \in flags.issues}
    BY <1>1, <1>2, <2>1 DEF Issue
  <2> QED BY <1>1, <2>2 DEF FatalReasons
<1> QED BY <1>3, <1>7, <1>8, <1>9

-----------------------------------------------------------------------------
(* The file and the verification in its history.                             *)

\* The file goes back to a verification of m against doc: its receipt is that
\* one or none, and each of its actions has the contents of one of m's.
Descends(some, m, doc) ==
  /\ DOMAIN some = ManifestFields
  /\ some.source = m.source
  /\ some.actions \in Seq(Range(some.actions))
  /\ Receipted(some) \in {None, VerifyManifest(m, doc).receipt.verification}
  /\ \A a \in Range(some.actions) :
        /\ DOMAIN a = ActionFields
        /\ \E i \in DOMAIN m.actions : Contents(a) = Contents(m.actions[i])

ByRules(m, doc, text) ==
  /\ m # None /\ m = Extracted(ExtractDeterministically(doc), doc)
  /\ doc.text = text /\ text \in Seq(Passages)

\* The file descends from a verification of the text and the actions that were seen,
\* and from what the extractor without a model made of the text, if that was used.
Checked(some, seen) ==
  \E m, doc :
     /\ IsValid(m) /\ (seen.rules => ByRules(m, doc, seen.text))
     /\ doc.hash = seen.text /\ CanonicalText(doc) = seen.text /\ seen.text # None
     /\ seen.actions = VerifyManifest(m, doc).actions
     /\ Descends(some, m, doc)

(* The inductive invariant of the manifest on disk: unless somebody altered *)
(* it since, it descends from the last verification.                         *)
FileOK ==
  /\ scene \in Scenarios
  /\ source \in scene.texts \cup scene.later
  /\ judged # None => Checked(file, judged)

LEMMA SourceIsGiven ==
  ASSUME FileOK PROVE source # None /\ source \in Seq(Passages)
  BY TextsAreGiven DEF FileOK

\* Review changes a status: what backs an action does not depend on it.
LEMMA SameContents ==
  ASSUME NEW a, NEW b, DOMAIN a = ActionFields, DOMAIN b = ActionFields, Contents(a) = Contents(b)
  PROVE  /\ a.id = b.id
         /\ \A text : Backed(a, text) <=> Backed(b, text)
         /\ \A text, i : NotCalledOff(b, text) /\ UpToDate(b, i, text) =>
                          NotCalledOff(a, text) /\ UpToDate(a, i, text)
<1>1. \A f \in ActionFields \ {"status"} : a[f] = b[f]
  <2> TAKE f \in ActionFields \ {"status"}
  <2>1. Contents(a)[f] = a[f] /\ Contents(b)[f] = b[f]
    BY DEF Contents
  <2> QED BY <2>1
<1>2. /\ a.id = b.id /\ a.kind = b.kind /\ a.modality = b.modality /\ a.temporal = b.temporal
      /\ a.evidence = b.evidence /\ a.object = b.object /\ a.about = b.about
  BY <1>1 DEF ActionFields
<1>3. EvidencePassages(a) = EvidencePassages(b) /\ DeclaredDates(a) = DeclaredDates(b)
  BY <1>2 DEF EvidencePassages, DeclaredDates, Temporals
<1>4. \A text : Backed(a, text) <=> Backed(b, text)
  BY <1>2, <1>3 DEF Backed
<1>5. ASSUME NEW text, NEW i, NotCalledOff(b, text), UpToDate(b, i, text)
      PROVE  NotCalledOff(a, text) /\ UpToDate(a, i, text)
  <2>1. NotCalledOff(a, text)
    BY <1>2, <1>5 DEF NotCalledOff
  <2>2. \A j : /\ Redates(text[j], a, YearOf(text)) <=> Redates(text[j], b, YearOf(text))
               /\ Retracts(text[j], a) <=> Retracts(text[j], b)
               /\ Alone(a, j, text) <=> Alone(b, j, text)
    BY <1>2, <1>3 DEF Redates, Retracts, Names, Alone
  <2> QED BY <1>2, <1>5, <2>1, <2>2 DEF UpToDate
<1> QED BY <1>2, <1>4, <1>5

\* The exporters select among the actions of the file, and only ready ones.
LEMMA ReadyActionsAre ==
  ASSUME NEW some, some.actions \in Seq(Range(some.actions))
  PROVE  /\ ReadyActions(some) \in Seq(Range(ReadyActions(some)))
         /\ \A a \in Range(ReadyActions(some)) :
               a \in Range(some.actions) /\ Ready(a, Receipted(some))
<1> DEFINE ready == {a \in Range(some.actions) : Ready(a, Receipted(some))}
<1>1. /\ ReadyActions(some) \in Seq(Range(ReadyActions(some)))
      /\ Range(ReadyActions(some)) \subseteq Range(some.actions) \cap ready
  <2> HIDE DEF ready
  <2>1. ReadyActions(some) = Those(some.actions, ready)
    BY DEF ReadyActions, ready
  <2>2. some.actions \in Seq(Range(some.actions))
    OBVIOUS
  <2> QED BY <2>1, <2>2, ThoseAre
<1> QED BY <1>1

\* The invariant gives the property.
LEMMA CheckedMeans ==
  ASSUME FileOK PROVE ReadyWasChecked
<1> SUFFICES ASSUME file # None, judged # None, UniqueIds(judged),
                    NEW a \in Range(ReadyActions(file))
             PROVE  /\ Contents(a) \in {Contents(b) : b \in Range(judged.actions)}
                    /\ Backed(a, judged.text)
                    /\ file.source.hash \in {None, judged.text}
  BY DEF ReadyWasChecked
<1>1. PICK m, doc :
         /\ IsValid(m) /\ (judged.rules => ByRules(m, doc, judged.text))
         /\ doc.hash = judged.text /\ CanonicalText(doc) = judged.text /\ judged.text # None
         /\ judged.actions = VerifyManifest(m, doc).actions
         /\ Descends(file, m, doc)
  BY DEF FileOK, Checked
<1>2. a \in Range(file.actions) /\ Ready(a, Receipted(file))
  BY <1>1, ReadyActionsAre DEF Descends
<1>3. PICK i \in DOMAIN m.actions : Contents(a) = Contents(m.actions[i])
  BY <1>1, <1>2 DEF Descends
<1>4. DOMAIN a = ActionFields /\ DOMAIN m.actions[i] = ActionFields
  BY <1>1, <1>2, <1>3 DEF Descends, IsValid, Range
<1>5. a.id = m.actions[i].id /\ (Backed(m.actions[i], judged.text) => Backed(a, judged.text))
  BY <1>3, <1>4, SameContents
<1>6. UniqueIds(VerifyManifest(m, doc))
  BY <1>1 DEF UniqueIds
<1>7. Receipted(file) \in {None, VerifyManifest(m, doc).receipt.verification}
  BY <1>1 DEF Descends
<1>8. /\ VerifyAction(m.actions[i], doc, m.source).passed
      /\ HashMatched(m.source, doc) /\ CanonicalText(doc) # Blank
  BY <1>1, <1>2, <1>5, <1>6, <1>7, ReadyHasPassed
<1>9. Backed(a, judged.text)
  BY <1>1, <1>5, <1>8, PassedIsBacked
<1>10. Contents(a) \in {Contents(b) : b \in Range(judged.actions)}
  <2>1. i \in DOMAIN judged.actions /\ Contents(judged.actions[i]) = Contents(m.actions[i])
    BY <1>1, VerifiedIs
  <2>2. judged.actions[i] \in Range(judged.actions)
    BY <2>1 DEF Range
  <2> QED BY <1>3, <2>1, <2>2
<1>11. file.source.hash \in {None, judged.text}
  BY <1>1, <1>8 DEF Descends, HashMatched
<1> QED BY <1>9, <1>10, <1>11

\* The same of the text that the extractor has read.
LEMMA CurrentMeans ==
  ASSUME FileOK PROVE ReadyIsCurrent
<1> SUFFICES ASSUME file # None, judged # None, judged.rules,
                    NEW a \in Range(ReadyActions(file))
             PROVE  /\ \A p \in Range(judged.text) : Cues[p].cancels /\ ~Cues[p].filler =>
                          Cues[p].subjects \cap a.about = {}
                    /\ \E i \in DOMAIN judged.text : UpToDate(a, i, judged.text)
  BY DEF ReadyIsCurrent
<1> DEFINE text == judged.text
<1>1. PICK m, doc :
         /\ IsValid(m) /\ ByRules(m, doc, text)
         /\ doc.hash = text /\ CanonicalText(doc) = text /\ text # None
         /\ judged.actions = VerifyManifest(m, doc).actions
         /\ Descends(file, m, doc)
  BY DEF FileOK, Checked
<1>2. doc.text = text /\ text \in Seq(Passages) /\ m # None
      /\ m = Extracted(ExtractDeterministically(doc), doc)
  BY <1>1 DEF ByRules
<1>3. m = Candidates(ExtractDeterministically(doc), doc)
  BY <1>2 DEF Extracted, ValidOrNone
<1>4. \A n \in DOMAIN m.actions :
         /\ m.actions[n].id = n /\ NotCalledOff(m.actions[n], text)
         /\ \E i, P : Held(m.actions[n], i, P, Len(text), doc)
  BY <1>2, <1>3, ExtractedIs
<1>5. a \in Range(file.actions) /\ Ready(a, Receipted(file))
  BY <1>1, ReadyActionsAre DEF Descends
<1>6. PICK n \in DOMAIN m.actions : Contents(a) = Contents(m.actions[n])
  BY <1>1, <1>5 DEF Descends
<1>7. DOMAIN a = ActionFields /\ DOMAIN m.actions[n] = ActionFields
  BY <1>1, <1>5, <1>6 DEF Descends, IsValid, Range
<1>8. UniqueIds(VerifyManifest(m, doc))
  BY <1>1, <1>4, VerifiedIs DEF UniqueIds
<1>9. Receipted(file) \in {None, VerifyManifest(m, doc).receipt.verification}
  BY <1>1 DEF Descends
<1>10. a.id = m.actions[n].id
  BY <1>6, <1>7, SameContents
<1>11. VerifyAction(m.actions[n], doc, m.source).passed
  BY <1>1, <1>5, <1>8, <1>9, <1>10, ReadyHasPassed
<1>12. PICK i, P : Held(m.actions[n], i, P, Len(text), doc)
  BY <1>4
<1>13. i \in DOMAIN text /\ UpToDate(m.actions[n], i, text)
  BY <1>2, <1>11, <1>12, PassedIsUpToDate
<1>14. NotCalledOff(a, text) /\ UpToDate(a, i, text)
  BY <1>4, <1>6, <1>7, <1>13, SameContents
<1>15. \A p \in Range(text) : Cues[p].cancels /\ ~Cues[p].filler => Cues[p].subjects \cap a.about = {}
  BY <1>14 DEF NotCalledOff, Range
<1> QED BY <1>13, <1>14, <1>15

\* Verifying, exporting and reviewing keep the descent.
LEMMA FreshlyVerified ==
  ASSUME NEW m, IsValid(m), NEW doc
  PROVE  Descends(VerifyManifest(m, doc), m, doc)
<1> DEFINE n == VerifyManifest(m, doc)
<1>1. /\ DOMAIN n = ManifestFields /\ n.source = m.source
      /\ n.actions \in Seq(Range(n.actions)) /\ DOMAIN n.actions = DOMAIN m.actions
      /\ Receipted(n) \in {None, n.receipt.verification}
      /\ \A i \in DOMAIN m.actions : /\ DOMAIN n.actions[i] = ActionFields
                                     /\ Contents(n.actions[i]) = Contents(m.actions[i])
  BY VerifiedIs
<1> HIDE DEF n
<1>2. \A a \in Range(n.actions) : \E i \in DOMAIN m.actions : a = n.actions[i]
  BY <1>1 DEF Range
<1>3. \A a \in Range(n.actions) : /\ DOMAIN a = ActionFields
                                  /\ \E i \in DOMAIN m.actions : Contents(a) = Contents(m.actions[i])
  BY <1>1, <1>2
<1>4. Descends(n, m, doc)
  BY <1>1, <1>3 DEF Descends, n
<1> QED BY <1>4 DEF n

LEMMA ExportedDescends ==
  ASSUME NEW some, NEW m, NEW doc, Descends(some, m, doc), NEW include
  PROVE  Descends(JsonExport(some, include), m, doc)
<1> DEFINE out == JsonExport(some, include)
           chosen == Selected(some, include)
<1>1. /\ DOMAIN some = ManifestFields /\ some.source = m.source
      /\ some.actions \in Seq(Range(some.actions))
  BY DEF Descends
<1>2. /\ chosen \in Seq(Range(chosen))
      /\ \A a \in Range(chosen) : a \in Range(some.actions)
  BY <1>1, ReadyActionsAre DEF Selected
<1> HIDE DEF chosen
<1>3. /\ DOMAIN out = ManifestFields /\ out.source = some.source /\ out.receipt = some.receipt
      /\ out.actions = chosen
  BY <1>1 DEF JsonExport, ManifestFields, chosen
<1>4. Receipted(out) = Receipted(some)
  BY <1>3 DEF Receipted
<1> HIDE DEF out
<1>5. Descends(out, m, doc)
  BY <1>1, <1>2, <1>3, <1>4 DEF Descends
<1> QED BY <1>5 DEF out

LEMMA ReviewedDescends ==
  ASSUME NEW some, NEW m, NEW doc, Descends(some, m, doc),
         NEW i \in DOMAIN some.actions, NEW status
  PROVE  Descends([some EXCEPT !.actions[i].status = status], m, doc)
<1> DEFINE out == [some EXCEPT !.actions[i].status = status]
           new == [some.actions[i] EXCEPT !.status = status]
<1>1. /\ DOMAIN some = ManifestFields /\ some.source = m.source
      /\ some.actions \in Seq(Range(some.actions))
      /\ some.actions[i] \in Range(some.actions) /\ DOMAIN some.actions[i] = ActionFields
  BY DEF Descends, Range
<1>2. /\ DOMAIN out = ManifestFields /\ out.source = some.source /\ out.receipt = some.receipt
      /\ out.actions = [some.actions EXCEPT ![i] = new]
  BY <1>1 DEF ManifestFields
<1>3. DOMAIN new = ActionFields /\ Contents(new) = Contents(some.actions[i])
  BY <1>1 DEF Contents, ActionFields
<1>4. Receipted(out) = Receipted(some)
  BY <1>2 DEF Receipted
<1> HIDE DEF out, new
<1>5. \A k \in DOMAIN out.actions : out.actions[k] = some.actions[k] \/ out.actions[k] = new
  BY <1>2
<1>6. \A a \in Range(out.actions) : a \in Range(some.actions) \/ a = new
  BY <1>2, <1>5 DEF Range
<1>7. out.actions \in Seq(Range(out.actions))
  <2>1. DOMAIN out.actions = 1 .. Len(some.actions) /\ Len(some.actions) \in Nat
    BY <1>1, <1>2
  <2>2. out.actions = [k \in 1 .. Len(some.actions) |-> out.actions[k]]
    BY <1>1, <1>2, <2>1
  <2>3. \A k \in 1 .. Len(some.actions) : out.actions[k] \in Range(out.actions)
    BY <2>1 DEF Range
  <2> QED BY <2>1, <2>2, <2>3
<1>8. \A a \in Range(out.actions) : /\ DOMAIN a = ActionFields
                                    /\ \E k \in DOMAIN m.actions : Contents(a) = Contents(m.actions[k])
  BY <1>1, <1>3, <1>6 DEF Descends
<1>9. Descends(out, m, doc)
  BY <1>1, <1>2, <1>4, <1>7, <1>8 DEF Descends
<1> QED BY <1>9 DEF out

LEMMA CheckedNow ==
  ASSUME NEW m, IsValid(m), NEW doc, NEW some, NEW rules, source # None,
         doc.hash = source, CanonicalText(doc) = source, Descends(some, m, doc),
         rules => ByRules(m, doc, source)
  PROVE  Checked(some, Judgement(VerifyManifest(m, doc).actions, rules))
<1> DEFINE seen == Judgement(VerifyManifest(m, doc).actions, rules)
<1>1. seen.text = source /\ seen.actions = VerifyManifest(m, doc).actions /\ seen.rules = rules
  BY DEF Judgement
<1> HIDE DEF seen
<1>2. Checked(some, seen)
  BY <1>1 DEF Checked
<1> QED BY <1>2 DEF seen

LEMMA FileInit == Init => FileOK
  BY DEF Init, ManifestInit, FileOK

LEMMA ExtractStep ==
  ASSUME FileOK, Extract PROVE FileOK'
<1>1. source # None /\ source \in Seq(Passages) /\ scene' = scene /\ source' = source
  BY SourceIsGiven DEF Extract, Spend
<1>0. /\ Document.hash = source /\ Document.text = source /\ CanonicalText(Document) = source
  BY <1>1, PlainText DEF Document
<1>2. PICK found, rules : /\ Answered(found, rules) /\ (found # None => IsValid(found))
                          /\ rules /\ found # None => ByRules(found, Document, source)
  <2>1. \A reply : LET found == Extracted(reply, Document) IN found # None => IsValid(found)
    BY DEF Extracted, ValidOrNone
  <2>2. LET found == Extracted(ExtractDeterministically(Document), Document)
        IN found # None => ByRules(found, Document, source)
    BY <1>0, <1>1 DEF ByRules
  <2> QED BY <2>1, <2>2 DEF Extract
<1>3. IsValid(found) /\ (rules => ByRules(found, Document, source))
  BY <1>2 DEF Answered
<1>4. CASE judged' = None
  BY <1>1, <1>4 DEF FileOK
<1>5. CASE judged' # None
  <2> DEFINE n == VerifyManifest(found, Document)
  <2>1. Written(n) /\ judged' = Judgement(n.actions, rules)
    BY <1>2, <1>5 DEF Answered
  <2>2. PICK include \in Policies : file' = JsonExport(n, include)
    BY <2>1 DEF Written
  <2>3. Descends(file', found, Document)
    BY <1>3, <2>2, FreshlyVerified, ExportedDescends
  <2>5. Checked(file', judged')
    BY <1>0, <1>1, <1>3, <2>1, <2>3, CheckedNow
  <2> QED BY <1>1, <2>5 DEF FileOK
<1> QED BY <1>4, <1>5

LEMMA ReverifyStep ==
  ASSUME FileOK, Reverify PROVE FileOK'
<1>1. source # None /\ scene' = scene /\ source' = source
  BY SourceIsGiven DEF Reverify, Spend
<1>2. IsValid(file) /\ file' = VerifyManifest(file, Document) /\ judged' = Judgement(file'.actions, FALSE)
  BY DEF Reverify
<1>3. Document.hash = source /\ CanonicalText(Document) = source
  BY <1>1, PlainText DEF Document
<1>4. Checked(file', judged')
  BY <1>1, <1>2, <1>3, FreshlyVerified, CheckedNow
<1> QED BY <1>1, <1>4 DEF FileOK

LEMMA AgentStep ==
  ASSUME FileOK, AskAgent PROVE FileOK'
<1>1. source # None /\ source \in Seq(Passages) /\ scene' = scene /\ source' = source
  BY SourceIsGiven DEF AskAgent, Agent, Spend
<1> DEFINE doc == TextDocument(DocId, source)
<1>4. doc.hash = source /\ doc.text = source /\ CanonicalText(doc) = source
  BY <1>1, GivenText
<1>2. PICK m, rules : /\ m # None => IsValid(m)
                      /\ file' = AgentAnswer(m, DocId, source) /\ file' # None
                      /\ judged' = Judgement(file'.actions, rules)
                      /\ rules => ByRules(m, doc, source)
  <2>1. CASE \E answer \in {AgentVerify(file, DocId, source)} : Agent("agent verify", answer, FALSE)
    <3>1. AgentVerify(file, DocId, source) # None /\ file' = AgentVerify(file, DocId, source)
          /\ judged' = Judgement(file'.actions, FALSE)
      BY <2>1 DEF Agent
    <3>2. IsValid(file) /\ file' = AgentAnswer(file, DocId, source)
      BY <3>1 DEF AgentVerify, AgentCandidate
    <3> QED BY <3>1, <3>2
  <2>2. CASE \E answer \in {AgentExtract(OwnReply, DocId, source)} : Agent("agent extract", answer, TRUE)
    <3>1. AgentExtract(OwnReply, DocId, source) # None /\ file' = AgentExtract(OwnReply, DocId, source)
          /\ judged' = Judgement(file'.actions, TRUE)
      BY <2>2 DEF Agent
    <3>2. file' = AgentAnswer(Extracted(OwnReply, doc), DocId, source)
      BY <3>1 DEF AgentExtract
    <3>3. Extracted(OwnReply, doc) # None => IsValid(Extracted(OwnReply, doc))
      BY DEF Extracted, ValidOrNone
    <3>4. ByRules(Extracted(OwnReply, doc), doc, source)
      <4>1. Extracted(OwnReply, doc) # None
        BY <3>1, <3>2 DEF AgentAnswer
      <4> QED BY <4>1, <1>1, <1>4 DEF ByRules, OwnReply
    <3> QED BY <3>1, <3>2, <3>3, <3>4
  <2> QED BY <2>1, <2>2 DEF AskAgent
<1>3. IsValid(m) /\ file' = VerifyManifest(m, doc)
  BY <1>2 DEF AgentAnswer
<1> HIDE DEF doc
<1>5. Checked(file', judged')
  BY <1>1, <1>2, <1>3, <1>4, FreshlyVerified, CheckedNow
<1> QED BY <1>1, <1>5 DEF FileOK

LEMMA ReviewStep ==
  ASSUME FileOK, NEW i \in DOMAIN file.actions, NEW status, Review(i, status) PROVE FileOK'
<1>1. scene' = scene /\ source' = source /\ judged' = judged
      /\ file' = [file EXCEPT !.actions[i].status = status]
  BY DEF Review, Spend
<1>2. ASSUME judged # None PROVE Checked(file', judged)
  <2>1. PICK m, doc :
           /\ IsValid(m) /\ (judged.rules => ByRules(m, doc, judged.text))
           /\ doc.hash = judged.text /\ CanonicalText(doc) = judged.text /\ judged.text # None
           /\ judged.actions = VerifyManifest(m, doc).actions
           /\ Descends(file, m, doc)
    BY <1>2 DEF FileOK, Checked
  <2>2. Descends(file', m, doc)
    BY <1>1, <2>1, ReviewedDescends
  <2> QED BY <2>1, <2>2 DEF Checked
<1> QED BY <1>1, <1>2 DEF FileOK

LEMMA Stays ==
  ASSUME FileOK, scene' = scene, source' = source, file' = file, judged' = judged PROVE FileOK'
  BY DEF FileOK, Checked

LEMMA FileStep ==
  ASSUME FileOK, [Next]_vars PROVE FileOK'
<1>1. CASE \E text \in scene.later : EditSource(text)
  BY <1>1 DEF EditSource, Spend, FileOK, Checked
<1>2. CASE Extract
  BY <1>2, ExtractStep
<1>3. CASE \E include \in Policies : Export(include)
  BY <1>3, Stays DEF Export, Spend
<1>4. CASE \E i \in DOMAIN file.actions : \E status \in {"accepted", "rejected"} : Review(i, status)
  BY <1>4, ReviewStep
<1>5. CASE \E i \in DOMAIN file.actions : \E passage \in scene.quotes : Alter(i, passage)
  BY <1>5 DEF Alter, Spend, FileOK
<1>6. CASE Reverify
  BY <1>6, ReverifyStep
<1>7. CASE AskAgent
  BY <1>7, AgentStep
<1>8. CASE Prepare \/ AskAnalysis \/ AskGuide \/ \E id, text : AskBatch(id, text)
  BY <1>8, Stays DEF Prepare, AskAnalysis, AskGuide, AskBatch, PutOut, Spend
<1>9. CASE EvidenceNext /\ UNCHANGED <<manifestVars, factVars>>
  BY <1>9, Stays DEF EvidenceNext, ChangeDocument, OpenIndex, Ask, BeginReview, NextWindow, Annotate,
     ChangeShelf, Pin, BeginCheck, StepCheck, Abort, Spend, manifestVars
<1>10. CASE FactNext /\ UNCHANGED <<manifestVars, evidenceVars>>
  BY <1>10, Stays DEF FactNext, ChangeFacts, Evaluate, Tick, Spend, manifestVars
<1>11. CASE UNCHANGED vars
  BY <1>11, Stays DEF vars, manifestVars
<1> QED BY <1>1, <1>2, <1>3, <1>4, <1>5, <1>6, <1>7, <1>8, <1>9, <1>10, <1>11
        DEF Next, ManifestNext

(* Whatever the extractor, the agent, the exporters, the reviewer and the  *)
(* verifier did to the manifest, and in whatever order: if its ids are      *)
(* unique and nobody altered it since, each action that the trust policy    *)
(* calls ready is one of those last verified and is backed by that text     *)
(* (verify.ts, trust.ts, export.ts).                                        *)
THEOREM ReadyIsChecked == Spec => []ReadyWasChecked
<1>1. Init => FileOK
  BY FileInit
<1>2. FileOK /\ [Next]_vars => FileOK'
  BY FileStep
<1>3. FileOK => ReadyWasChecked
  BY CheckedMeans
<1> QED BY <1>1, <1>2, <1>3, PTL DEF Spec

(* In a manifest that the extractor without a model made of a text, what is *)
(* ready is up to date, whatever the text: it is not called off, no later   *)
(* sentence gives it another date, and none takes it back that is about     *)
(* nothing else (deterministic.ts, verify.ts).                              *)
THEOREM ReadyStaysCurrent == Spec => []ReadyIsCurrent
<1>1. Init => FileOK
  BY FileInit
<1>2. FileOK /\ [Next]_vars => FileOK'
  BY FileStep
<1>3. FileOK => ReadyIsCurrent
  BY CurrentMeans
<1> QED BY <1>1, <1>2, <1>3, PTL DEF Spec

-----------------------------------------------------------------------------
(* What an agent answers.                                                    *)

\* What a verification calls ready is backed, before it and after.
LEMMA VerifiedAnswers ==
  ASSUME NEW m, IsValid(m), NEW doc, UniqueIds(m)
  PROVE  LET n == VerifyManifest(m, doc)
         IN /\ DOMAIN n.actions = DOMAIN m.actions
            /\ AllBacked(n, CanonicalText(doc))
            /\ \A i \in DOMAIN n.actions : Ready(n.actions[i], Receipted(n)) =>
                  Backed(m.actions[i], CanonicalText(doc))
<1> DEFINE n == VerifyManifest(m, doc)
<1>0. \A i \in DOMAIN m.actions : DOMAIN m.actions[i] = ActionFields
  BY DEF IsValid, Range
<1>1. /\ n.actions \in Seq(Range(n.actions)) /\ DOMAIN n.actions = DOMAIN m.actions
      /\ Receipted(n) \in {None, n.receipt.verification}
      /\ \A i \in DOMAIN m.actions : /\ n.actions[i].id = m.actions[i].id
                                     /\ DOMAIN n.actions[i] = ActionFields
                                     /\ Contents(n.actions[i]) = Contents(m.actions[i])
  <2> HIDE DEF n
  <2>1. /\ n.actions \in Seq(Range(n.actions)) /\ DOMAIN n.actions = DOMAIN m.actions
        /\ Receipted(n) \in {None, n.receipt.verification}
    BY VerifiedIs DEF n
  <2>2. \A i \in DOMAIN m.actions : /\ n.actions[i].id = m.actions[i].id
                                     /\ DOMAIN n.actions[i] = ActionFields
                                     /\ Contents(n.actions[i]) = Contents(m.actions[i])
    BY VerifiedIs DEF n
  <2> QED BY <2>1, <2>2
<1>2. UniqueIds(n)
  BY <1>1 DEF UniqueIds
<1>3. ASSUME NEW i \in DOMAIN m.actions, Ready(n.actions[i], Receipted(n))
      PROVE  Backed(m.actions[i], CanonicalText(doc)) /\ Backed(n.actions[i], CanonicalText(doc))
  <2>1. VerifyAction(m.actions[i], doc, m.source).passed
    BY <1>1, <1>2, <1>3, ReadyHasPassed
  <2>2. Backed(m.actions[i], CanonicalText(doc))
    BY <2>1, PassedIsBacked
  <2> QED BY <1>0, <1>1, <2>2, SameContents
<1>4. ASSUME NEW a \in Range(ReadyActions(n)) PROVE Backed(a, CanonicalText(doc))
  <2>1. a \in Range(n.actions) /\ Ready(a, Receipted(n))
    BY <1>1, ReadyActionsAre
  <2>2. PICK i \in DOMAIN m.actions : a = n.actions[i]
    BY <1>1, <2>1 DEF Range
  <2> QED BY <1>3, <2>1, <2>2
<1> QED BY <1>1, <1>3, <1>4 DEF AllBacked

\* The same of the answers of an agent, whatever receipt came in.
LEMMA AgentAnswers ==
  ASSUME NEW m, m # None => IsValid(m), NEW id, NEW text, text # None,
         AgentAnswer(m, id, text) # None
  PROVE  LET n == AgentAnswer(m, id, text)
         IN /\ DOMAIN n.actions = DOMAIN m.actions
            /\ AllBacked(n, text)
            /\ \A i \in DOMAIN n.actions : Ready(n.actions[i], Receipted(n)) =>
                  Backed(m.actions[i], text)
<1>1. IsValid(m) /\ UniqueIds(m) /\ AgentAnswer(m, id, text) = VerifyManifest(m, TextDocument(id, text))
  BY DEF AgentAnswer
<1>2. CanonicalText(TextDocument(id, text)) = text
  BY GivenText
<1> QED BY <1>1, <1>2, VerifiedAnswers

LEMMA AgentVerifies ==
  ASSUME NEW m, NEW id, NEW text, text # None, AgentVerify(m, id, text) # None
  PROVE  LET n == AgentVerify(m, id, text)
         IN /\ DOMAIN n.actions = DOMAIN m.actions
            /\ AllBacked(n, text)
            /\ \A i \in DOMAIN n.actions : Ready(n.actions[i], Receipted(n)) =>
                  Backed(m.actions[i], text)
<1>1. IsValid(m) /\ AgentVerify(m, id, text) = AgentAnswer(m, id, text)
  BY DEF AgentVerify, AgentCandidate
<1> QED BY <1>1, AgentAnswers

LEMMA AgentExtracts ==
  ASSUME NEW reply, NEW id, NEW text, text # None, AgentExtract(reply, id, text) # None
  PROVE  AllBacked(AgentExtract(reply, id, text), text)
<1> DEFINE found == Extracted(reply, TextDocument(id, text))
<1>1. AgentExtract(reply, id, text) = AgentAnswer(found, id, text)
  BY DEF AgentExtract
<1>2. found # None => IsValid(found)
  BY DEF Extracted, ValidOrNone
<1> QED BY <1>1, <1>2, AgentAnswers

\* The same of the analysis for Matoe.
LEMMA AnalysisIsBacked ==
  ASSUME NEW reply, NEW id, NEW text, text # None, Analyze(reply, id, text) # None
  PROVE  AllBacked(Analyze(reply, id, text), text)
<1> DEFINE found == Extracted(reply, TextDocument(id, text))
           n == VerifyManifest(found, TextDocument(id, text))
<1>1. found # None /\ Analyze(reply, id, text) = PrepareV02(n, id, text)
  BY DEF Analyze, Analyzed
<1>2. IsValid(found)
  BY <1>1 DEF Extracted, ValidOrNone
<1>3. Analyze(reply, id, text) = n /\ UniqueIds(n)
  BY <1>1 DEF PrepareV02, CarriedByV02
<1>4. UniqueIds(found)
  BY <1>2, <1>3, VerifiedIs DEF UniqueIds
<1>5. CanonicalText(TextDocument(id, text)) = text
  BY GivenText
<1> QED BY <1>2, <1>3, <1>4, <1>5, VerifiedAnswers

\* The guide lets a person approve only what a fresh verification backs.
LEMMA GuideIsBacked ==
  ASSUME NEW m, NEW text, text # None, Explain(m, text) # None,
         NEW i \in DOMAIN Explain(m, text), Explain(m, text)[i].next = "approve_separately"
  PROVE  Backed(m.actions[i], text)
<1> DEFINE n == AgentVerify(m, m.source.id, text)
           reason == TrustReason(n.actions[i], Receipted(n))
<1>1. n # None /\ i \in DOMAIN n.actions
      /\ NextStep(n.actions[i], Classify(n).actions[i]) = "approve_separately"
  BY DEF Explain, Guide
<1>2. Classify(n).actions[i] = Disposition(reason)
  <2> HIDE DEF n
  <2> QED BY <1>1 DEF Classify
<1>3. Disposition(reason) \notin {"blocked", "review_required"}
  BY <1>1, <1>2 DEF NextStep
<1>4. reason = "READY"
  BY <1>3 DEF Disposition
<1>5. Ready(n.actions[i], Receipted(n))
  BY <1>4 DEF Ready
<1> QED BY <1>1, <1>5, AgentVerifies

\* The property is its own invariant, next to FileOK.
SentOK == AnswersAreBacked

LEMMA SentStays ==
  ASSUME SentOK, sent' = sent PROVE SentOK'
  BY DEF SentOK, AnswersAreBacked

LEMMA SentElse ==
  ASSUME sent'.by \in {"nothing", "calendar", "matoe 0.1", "matoe 0.2"} PROVE SentOK'
  BY DEF SentOK, AnswersAreBacked

LEMMA SentAnswer ==
  ASSUME sent'.by \in {"agent verify", "agent extract", "analysis"}, AllBacked(sent'.out, sent'.text)
  PROVE  SentOK'
  BY DEF SentOK, AnswersAreBacked

LEMMA SentStep ==
  ASSUME FileOK, SentOK, [Next]_vars PROVE SentOK'
<1>0. source # None /\ \A text \in scene.later : text # None
  BY SourceIsGiven, TextsAreGiven DEF FileOK
<1>1. CASE Extract \/ \E include \in Policies : Export(include)
  <2>1. \E given, out : sent' = [by |-> "calendar", text |-> source, given |-> given, out |-> out]
    <3>1. CASE Extract
      <4>1. \E found, rules : Answered(found, rules)
        BY <3>1 DEF Extract
      <4>2. \E manifest : Written(manifest)
        BY <4>1 DEF Answered
      <4> QED BY <4>2 DEF Written
    <3>2. CASE \E include \in Policies : Export(include)
      BY <3>2 DEF Export
    <3> QED BY <1>1, <3>1, <3>2
  <2> QED BY <2>1, SentElse
<1>2. CASE AskAgent
  <2>1. CASE \E answer \in {AgentVerify(file, DocId, source)} : Agent("agent verify", answer, FALSE)
    <3>1. /\ AgentVerify(file, DocId, source) # None /\ sent'.by = "agent verify"
          /\ sent'.out = AgentVerify(file, DocId, source) /\ sent'.text = source
      <4> DEFINE answer == AgentVerify(file, DocId, source)
      <4>1. answer # None /\ sent' = [by |-> "agent verify", text |-> source, given |-> file, out |-> answer]
        BY <2>1 DEF Agent
      <4> HIDE DEF answer
      <4>2. sent'.by = "agent verify" /\ sent'.out = answer /\ sent'.text = source
        BY <4>1
      <4> QED BY <4>1, <4>2 DEF answer
    <3>2. AllBacked(AgentVerify(file, DocId, source), source)
      BY <1>0, <3>1, AgentVerifies
    <3> QED BY <3>1, <3>2, SentAnswer
  <2>2. CASE \E answer \in {AgentExtract(OwnReply, DocId, source)} : Agent("agent extract", answer, TRUE)
    <3>1. /\ AgentExtract(OwnReply, DocId, source) # None /\ sent'.by = "agent extract"
          /\ sent'.out = AgentExtract(OwnReply, DocId, source) /\ sent'.text = source
      <4> DEFINE answer == AgentExtract(OwnReply, DocId, source)
      <4>1. answer # None /\ sent' = [by |-> "agent extract", text |-> source, given |-> file, out |-> answer]
        BY <2>2 DEF Agent
      <4> HIDE DEF answer
      <4>2. sent'.by = "agent extract" /\ sent'.out = answer /\ sent'.text = source
        BY <4>1
      <4> QED BY <4>1, <4>2 DEF answer
    <3>2. AllBacked(AgentExtract(OwnReply, DocId, source), source)
      BY <1>0, <3>1, AgentExtracts
    <3> QED BY <3>1, <3>2, SentAnswer
  <2> QED BY <1>2, <2>1, <2>2 DEF AskAgent
<1>3. CASE Prepare
  <2>1. sent'.by \in {"matoe 0.1", "matoe 0.2"}
    <3>1. CASE PutOut("matoe 0.1", file, PrepareV01(file, source))
      BY <3>1 DEF PutOut
    <3>2. CASE PutOut("matoe 0.2", file, PrepareV02(file, DocId, source))
      BY <3>2 DEF PutOut
    <3> QED BY <1>3, <3>1, <3>2 DEF Prepare
  <2> QED BY <2>1, SentElse
<1>4. CASE AskAnalysis
  <2>1. /\ Analyze(OwnReply, DocId, source) # None /\ sent'.by = "analysis"
        /\ sent'.out = Analyze(OwnReply, DocId, source) /\ sent'.text = source
    BY <1>4 DEF AskAnalysis, PutOut
  <2> QED BY <1>0, <2>1, AnalysisIsBacked, SentAnswer
<1>5. CASE AskGuide
  <2>1. /\ Explain(file, source) # None /\ sent'.by = "guide" /\ sent'.given = file
        /\ sent'.out = Explain(file, source) /\ sent'.text = source
    BY <1>5 DEF AskGuide, PutOut
  <2>2. \A i \in DOMAIN sent'.out : sent'.out[i].next = "approve_separately" =>
           Backed(sent'.given.actions[i], sent'.text)
    BY <1>0, <2>1, GuideIsBacked
  <2> QED BY <2>1, <2>2 DEF SentOK, AnswersAreBacked
<1>6. CASE \E id \in {DocId, None}, text \in scene.later : AskBatch(id, text)
  <2>1. PICK id, text : text # None /\ AskBatch(id, text)
    BY <1>0, <1>6
  <2> DEFINE items == <<[source |-> DocId, text |-> source, manifest |-> file],
                        [source |-> id, text |-> text, manifest |-> file]>>
  <2>2. sent'.by = "batch" /\ sent'.given = items /\ sent'.out.answers = Batch(items)
    BY <2>1 DEF AskBatch, PutOut
  <2>3. DOMAIN items = 1 .. 2 /\ items[1].text # None /\ items[2].text # None
    BY <1>0, <2>1
  <2> HIDE DEF items
  <2>4. \A i \in DOMAIN Batch(items) : Batch(items)[i] # None => AllBacked(Batch(items)[i], items[i].text)
    <3> SUFFICES ASSUME NEW i \in DOMAIN items, Batch(items)[i] # None
                 PROVE  AllBacked(Batch(items)[i], items[i].text)
      BY DEF Batch
    <3>1. Batch(items)[i] = AgentVerify(items[i].manifest, items[i].source, items[i].text)
      BY DEF Batch
    <3>2. items[i].text # None
      BY <2>3
    <3> QED BY <3>1, <3>2, AgentVerifies
  <2> QED BY <2>2, <2>4 DEF SentOK, AnswersAreBacked
<1>7. CASE \/ \E text \in scene.later : EditSource(text)
           \/ \E i \in DOMAIN file.actions :
                 \/ \E status \in {"accepted", "rejected"} : Review(i, status)
                 \/ \E passage \in scene.quotes : Alter(i, passage)
           \/ Reverify
           \/ EvidenceNext /\ UNCHANGED <<manifestVars, factVars>>
           \/ FactNext /\ UNCHANGED <<manifestVars, evidenceVars>>
           \/ UNCHANGED vars
  <2>1. sent' = sent
    BY <1>7 DEF EditSource, Review, Alter, Reverify, manifestVars, vars
  <2> QED BY <2>1, SentStays
<1> QED BY <1>1, <1>2, <1>3, <1>4, <1>5, <1>6, <1>7 DEF Next, ManifestNext

(* The agent, the analysis, the guide and each answer of a batch call       *)
(* nothing ready that their text does not back, whatever receipt came in    *)
(* (agent.ts, agent-batch.ts, matoe-analysis.ts, explain.ts).               *)
THEOREM AnswersStayBacked == Spec => []AnswersAreBacked
<1>1. Init => FileOK /\ SentOK
  <2>1. Init => SentOK
    BY DEF Init, ManifestInit, Nothing, SentOK, AnswersAreBacked
  <2> QED BY <2>1, FileInit
<1>2. FileOK /\ SentOK /\ [Next]_vars => (FileOK /\ SentOK)'
  BY FileStep, SentStep
<1>3. SentOK => AnswersAreBacked
  BY DEF SentOK
<1> QED BY <1>1, <1>2, <1>3, PTL DEF Spec

-----------------------------------------------------------------------------
(* What leaves through the bridges.                                          *)

\* An absent field is no number and no record of a receipt: TLA+ itself does not
\* say that, and None is a model value in every run.
NoneIsNothing ==
  None \notin Nat /\ DOMAIN None \cap {"extraction", "known", "results"} = {}

\* The old contract drops the results of single actions only where all of them
\* and the aggregate say the same.
LEMMA SameDispositions ==
  ASSUME NoneIsNothing, NEW m, NEW text, CarriedByV01(m, text)
  PROVE  Classify(Projected(m)).actions = Classify(m).actions
<1> DEFINE out == Projected(m)
           flags == m.receipt.verification
           bare == IF flags = None THEN None
                   ELSE IF m.version = "0.1.0" THEN flags ELSE Stripped(flags)
<1>1. /\ DOMAIN m = ManifestFields /\ m.receipt # None /\ Receipted(m) = flags
      /\ m.version \in {"0.1.0", "0.2.0"} /\ UniqueIds(m)
      /\ \A i \in DOMAIN m.actions : m.actions[i].status \in {"proposed", "verified"}
  BY DEF CarriedByV01, IsValid, Provenanced, Receipted, Displayable, Unreviewed
<1>2. out.actions = m.actions /\ Receipted(out) = bare
  <2> DEFINE receipt == [extraction |-> [m.receipt.extraction EXCEPT !.version = "0.1.0"],
                         verification |-> bare]
  <2>1. out.actions = m.actions /\ out.receipt = receipt
    BY <1>1 DEF Projected, ManifestFields
  <2>2. receipt # None
    <3>1. "extraction" \in DOMAIN receipt
      OBVIOUS
    <3> HIDE DEF receipt
    <3> QED BY <3>1 DEF NoneIsNothing
  <2>3. receipt.verification = bare
    OBVIOUS
  <2> HIDE DEF out, receipt
  <2> QED BY <2>1, <2>2, <2>3 DEF Receipted
<1> HIDE DEF out, bare
<1>3. ASSUME NEW i \in DOMAIN m.actions
      PROVE  TrustReason(m.actions[i], bare) = TrustReason(m.actions[i], flags)
  <2>1. CASE flags = None \/ m.version = "0.1.0"
    BY <2>1 DEF bare
  <2>2. CASE flags # None /\ m.version # "0.1.0"
    <3> DEFINE a == m.actions[i]
               found == ResultsFor(a, flags)
    <3>0. bare = Stripped(flags)
      BY <2>2 DEF bare
    <3>1. /\ flags.hashMatched /\ AllSupported(flags) /\ flags.issues = {}
          /\ ResultIds(flags) = Ids(m) /\ \A k \in DOMAIN flags.results : flags.results[k].passed
      BY <1>1, <2>2 DEF CarriedByV01, Unanimous, Complete
    <3>2. DOMAIN flags = VerificationFields /\ flags.results \in Seq(Range(flags.results))
      BY <1>1, <2>2 DEF CarriedByV01, IsValid, IsReceipt
    <3>3. /\ bare # None /\ bare.results = <<>> /\ bare.hashMatched = flags.hashMatched
          /\ bare.issues = flags.issues /\ (AllSupported(bare) <=> AllSupported(flags))
      <4>1. DOMAIN bare = VerificationFields /\ bare.results = <<>>
            /\ bare.hashMatched = flags.hashMatched /\ bare.issues = flags.issues
            /\ bare.evidence = flags.evidence /\ bare.temporal = flags.temporal
            /\ bare.actor = flags.actor /\ bare.modality = flags.modality
            /\ bare.pages = flags.pages /\ bare.negation = flags.negation
        BY <3>0, <3>2 DEF Stripped, VerificationFields
      <4>2. bare # None
        BY <4>1 DEF NoneIsNothing, VerificationFields
      <4> QED BY <4>1, <4>2 DEF AllSupported
    <3> HIDE DEF a
    <3>4. FatalReasons(flags) = {} /\ FatalReasons(bare) = {}
      BY <3>1, <3>3 DEF FatalReasons
    <3>5. ResultsFor(a, bare) = {} /\ AggregateClean(bare)
      BY <3>1, <3>3 DEF ResultsFor, AggregateClean, Errors
    <3>6. found # {} /\ flags.results[Min(found)].passed
      <4>1. a.id \in ResultIds(flags)
        BY <3>1 DEF Ids, a
      <4>2. found # {} /\ found \subseteq DOMAIN flags.results
        BY <4>1 DEF ResultIds, ResultsFor
      <4>3. found \in SUBSET Nat
        BY <3>2, <4>2
      <4> HIDE DEF found
      <4>4. Min(found) \in found
        BY <4>2, <4>3, Minimum DEF Min
      <4> QED BY <3>1, <4>2, <4>4
    <3> HIDE DEF found
    <3>7. /\ TrustOf(found, a.status, flags) = IF a.status \notin VerifiedTier THEN "STATUS_NOT_VERIFIED_TIER" ELSE "READY"
          /\ TrustOf({}, a.status, bare) = IF a.status \notin VerifiedTier THEN "STATUS_NOT_VERIFIED_TIER" ELSE "READY"
      BY <3>5, <3>6 DEF TrustOf
    <3>8. TrustReason(a, bare) = TrustReason(a, flags)
      BY <2>2, <3>3, <3>4, <3>5, <3>7 DEF TrustReason, found
    <3> QED BY <3>8 DEF a
  <2> QED BY <2>1, <2>2
<1>4. Classify(out).actions = [i \in DOMAIN m.actions |-> Disposition(TrustReason(m.actions[i], bare))]
  BY <1>2 DEF Classify
<1>5. Classify(m).actions = [i \in DOMAIN m.actions |-> Disposition(TrustReason(m.actions[i], flags))]
  BY <1>1 DEF Classify
<1> QED BY <1>3, <1>4, <1>5 DEF out

\* What the verifier says of one action agrees with itself.
LEMMA ResultIs ==
  ASSUME NEW action, NEW doc, NEW from
  PROVE  LET r == VerifyAction(action, doc, from)
         IN /\ r.id = action.id /\ Intrinsic(r)
            /\ \A i \in r.issues : /\ i.action = action.id
                                   /\ i.code \notin {"NO_ACTIONS", "EMPTY_SOURCE", "SOURCE_HASH_MISMATCH"}
<1> DEFINE c == Checks(action, doc, from)
           r == VerifyAction(action, doc, from)
           fine == /\ c.evidence = {} /\ c.temporal /\ c.actor = {}
                   /\ ModalitySupported(c) /\ ~c.negated /\ c.pages
<1>1. /\ c.evidence \subseteq {"MISSING_EVIDENCE", "EVIDENCE_NOT_IN_SOURCE", "EVIDENCE_SOURCE_ID"}
      /\ c.actor \subseteq {"ACTOR_TEXT_MISSING", "ACTOR_UNSUPPORTED"}
  BY DEF Checks, EvidenceIssues, ActorIssues
<1> HIDE DEF c
<1>2. Codes(c) \cap {"NO_ACTIONS", "EMPTY_SOURCE", "SOURCE_HASH_MISMATCH"} = {}
  BY <1>1 DEF Codes
<1>3. fine <=> Codes(c) = {}
  BY DEF Codes, ModalitySupported
<1>4. /\ r.id = action.id /\ r.passed = fine /\ (r.evidence <=> c.evidence = {})
      /\ (r.temporal <=> c.temporal) /\ (r.actor <=> c.actor = {})
      /\ (r.modality <=> ModalitySupported(c)) /\ (r.negation <=> c.negated) /\ (r.pages <=> c.pages)
      /\ r.issues = {Issue(code, action.id) : code \in Codes(c)}
  BY DEF VerifyAction, ResultOf, c
<1> HIDE DEF r
<1>5. \A i \in r.issues : i.action = action.id /\ i.code \in Codes(c)
  BY <1>4 DEF Issue
<1>6. Errors(r.issues) = {} <=> Codes(c) = {}
  <2>1. \A code \in Codes(c) : Issue(code, action.id) \in r.issues /\ Issue(code, action.id).code = code
    BY <1>4 DEF Issue
  <2> QED BY <1>2, <1>5, <2>1 DEF Errors
<1>7. AllSupported(r) /\ Errors(r.issues) = {} <=> fine
  BY <1>3, <1>4, <1>6 DEF AllSupported
<1>8. Intrinsic(r)
  <2>1. r.passed = (AllSupported(r) /\ Errors(r.issues) = {})
    BY <1>4, <1>7
  <2>2. ~r.passed => Errors(r.issues) # {}
    BY <1>3, <1>4, <1>6
  <2> QED BY <1>4, <1>5, <2>1, <2>2 DEF Intrinsic
<1> QED BY <1>2, <1>4, <1>5, <1>8 DEF r

\* The fields of the aggregate.
Aggregated(flags, issues, results, verified) ==
  LET I == DOMAIN results
  IN /\ DOMAIN flags = VerificationFields
     /\ flags.hashMatched /\ flags.detailed
     /\ flags.issues = issues \cup UNION {results[i].issues : i \in I}
     /\ flags.total = Len(results) /\ flags.verified = verified
     /\ flags.failed = flags.total - flags.verified
     /\ flags.results = results
     /\ flags.passed = \A i \in I : results[i].passed
     /\ flags.evidence = \A i \in I : results[i].evidence
     /\ flags.temporal = \A i \in I : results[i].temporal
     /\ flags.actor = \A i \in I : results[i].actor
     /\ flags.modality = \A i \in I : results[i].modality
     /\ flags.pages = \A i \in I : results[i].pages
     /\ flags.negation = ~ \A i \in I : ~results[i].negation

LEMMA FlagsAre ==
  ASSUME NEW m, NEW doc, ~Fatal(m, doc), NEW results, NEW verified
  PROVE  Aggregated(Flags(m, doc, results, verified), ManifestIssues(m, doc), results, verified)
<1> DEFINE flags == Flags(m, doc, results, verified)
           I == DOMAIN results
<1>1. DOMAIN flags = VerificationFields
  BY DEF Flags, VerificationFields
<1>2. /\ flags.total = Len(results) /\ flags.verified = verified /\ flags.results = results
      /\ flags.failed = Len(results) - verified
      /\ flags.issues = ManifestIssues(m, doc) \cup UNION {results[i].issues : i \in I}
  BY DEF Flags
<1>3. flags.hashMatched /\ flags.detailed
  BY DEF Flags, Fatal
<1>4. flags.passed = \A i \in I : results[i].passed
  BY DEF Flags
<1>5. flags.evidence = \A i \in I : results[i].evidence
  BY DEF Flags, Fatal
<1>6. flags.temporal = \A i \in I : results[i].temporal
  BY DEF Flags
<1>7. flags.actor = \A i \in I : results[i].actor
  BY DEF Flags
<1>8. flags.modality = \A i \in I : results[i].modality
  BY DEF Flags
<1>9. flags.pages = \A i \in I : results[i].pages
  BY DEF Flags
<1>10. flags.negation = ~ \A i \in I : ~results[i].negation
  BY DEF Flags
<1> HIDE DEF flags
<1> QED BY <1>1, <1>2, <1>3, <1>4, <1>5, <1>6, <1>7, <1>8, <1>9, <1>10 DEF Aggregated, flags

\* What the verifier writes of a manifest that an extractor has just made is what
\* the contract of 0.2 asks for.
LEMMA VerifiedIsTrustworthy ==
  ASSUME NoneIsNothing, NEW m, IsValid(m), NEW doc, ~Fatal(m, doc),
         \A n \in DOMAIN m.actions : m.actions[n].id = n /\ m.actions[n].status = "proposed"
  PROVE  LET n == VerifyManifest(m, doc)
             flags == n.receipt.verification
         IN /\ n.version = m.version /\ n.receipt = Receipt(m, flags)
            /\ \A i \in DOMAIN n.actions : Unreviewed(n.actions[i])
            /\ Receipted(n) = flags /\ flags # None /\ IsReceipt(flags)
            /\ Trustworthy(n, flags)
<1> DEFINE n == VerifyManifest(m, doc)
           flags == n.receipt.verification
           results == Results(m, doc)
           acts == Promoted(m.actions, results, FALSE)
           L == Len(m.actions)
<1>1. /\ DOMAIN m = ManifestFields /\ m.actions \in Seq(Range(m.actions))
      /\ L \in Nat /\ DOMAIN m.actions = 1 .. L
      /\ \A i \in 1 .. L : DOMAIN m.actions[i] = ActionFields
  BY DEF IsValid, Range
<1>2. /\ DOMAIN results = 1 .. L
      /\ \A j \in 1 .. L :
            /\ results[j].id = j /\ Intrinsic(results[j])
            /\ \A i \in results[j].issues :
                  /\ i.action = j
                  /\ i.code \notin {"NO_ACTIONS", "EMPTY_SOURCE", "SOURCE_HASH_MISMATCH"}
  <2>1. DOMAIN results = 1 .. L /\ \A j \in 1 .. L : results[j] = VerifyAction(m.actions[j], doc, m.source)
    BY <1>1 DEF Results
  <2> HIDE DEF results
  <2> QED BY <1>1, <2>1, ResultIs
<1>3. results \in Seq(Range(results)) /\ Len(results) = L
  <2>1. results = [i \in 1 .. L |-> results[i]]
    BY <1>1 DEF Results
  <2>2. \A i \in 1 .. L : results[i] \in Range(results)
    BY <1>2 DEF Range
  <2> HIDE DEF results
  <2> QED BY <1>1, <1>2, <2>1, <2>2
<1>4. flags = Flags(m, doc, results, PassedCount(results)) /\ n.actions = acts
      /\ n.receipt = Receipt(m, flags) /\ n.version = m.version
  <2> DEFINE some == Flags(m, doc, results, VerifiedCount(results, Fatal(m, doc)))
  <2>1. n = [m EXCEPT !.actions = Promoted(m.actions, results, Fatal(m, doc)), !.receipt = Receipt(m, some)]
    BY DEF VerifyManifest, Judged
  <2>2. /\ n.actions = Promoted(m.actions, results, Fatal(m, doc)) /\ n.receipt = Receipt(m, some)
        /\ n.version = m.version
    BY <1>1, <2>1 DEF ManifestFields
  <2>3. flags = some
    BY <2>2 DEF Receipt
  <2>4. VerifiedCount(results, Fatal(m, doc)) = PassedCount(results) /\ Fatal(m, doc) = FALSE
    BY DEF VerifiedCount
  <2> QED BY <2>2, <2>3, <2>4
<1>5. /\ DOMAIN acts = 1 .. L
      /\ \A i \in 1 .. L : /\ acts[i].id = i /\ Unreviewed(acts[i])
                           /\ acts[i].status = "verified" => results[i].passed
  <2>1. ASSUME NEW i \in 1 .. L
        PROVE  /\ acts[i].id = i /\ Unreviewed(acts[i])
               /\ acts[i].status = "verified" => results[i].passed
    <3>1. \/ results[i].passed /\ acts[i] = [m.actions[i] EXCEPT !.status = "verified"]
          \/ acts[i] = m.actions[i]
      BY <1>1 DEF Promoted
    <3>2. i \in DOMAIN m.actions
      BY <1>1
    <3>3. m.actions[i].id = i /\ m.actions[i].status = "proposed" /\ DOMAIN m.actions[i] = ActionFields
      BY <1>1, <3>2
    <3> HIDE DEF acts, results
    <3> QED BY <3>1, <3>3 DEF ActionFields, Unreviewed
  <2> QED BY <1>1, <2>1 DEF Promoted
<1> HIDE DEF results
<1>6. DOMAIN results = DOMAIN flags.results /\ flags.results = results /\ Len(results) = L
      /\ Aggregated(flags, ManifestIssues(m, doc), results, PassedCount(results))
  <2>1. Aggregated(flags, ManifestIssues(m, doc), results, PassedCount(results))
    <3> DEFINE some == Flags(m, doc, results, PassedCount(results))
    <3>1. Aggregated(some, ManifestIssues(m, doc), results, PassedCount(results))
      BY FlagsAre
    <3> HIDE DEF flags, some
    <3> QED BY <1>4, <3>1 DEF some
  <2> HIDE DEF flags
  <2> QED BY <1>3, <2>1 DEF Aggregated
<1>7. ManifestIssues(m, doc) \subseteq {Issue("NO_ACTIONS", None)}
  BY DEF ManifestIssues, Fatal
<1> HIDE DEF flags, acts
<1>8. flags # None /\ IsReceipt(flags)
  BY <1>3, <1>6 DEF Aggregated, NoneIsNothing, VerificationFields, IsReceipt
<1>9. Receipted(n) = flags
  <2>1. n.receipt.verification = flags /\ n.receipt # None
    BY <1>4 DEF Receipt, NoneIsNothing
  <2> HIDE DEF n
  <2> QED BY <2>1 DEF Receipted
<1>10. Ids(n) = 1 .. L /\ ResultIds(flags) = 1 .. L /\ Cardinality(1 .. L) = L
  <2>1. Ids(n) = 1 .. L
    BY <1>4, <1>5 DEF Ids
  <2>2. ResultIds(flags) = 1 .. L
    BY <1>2, <1>6 DEF ResultIds
  <2>3. Cardinality(1 .. L) = L
    <3>1. 1 \in Int /\ L \in Int
      BY <1>1
    <3> HIDE DEF L
    <3>2. Cardinality(1 .. L) = IF 1 > L THEN 0 ELSE L - 1 + 1
      BY <3>1, FS_Interval
    <3> QED BY <1>1, <3>1, <3>2
  <2> QED BY <2>1, <2>2, <2>3
<1>11. Complete(flags, Ids(n))
  BY <1>3, <1>6, <1>10 DEF Complete
<1>12. \A i \in flags.issues :
          \/ i = Issue("NO_ACTIONS", None)
          \/ \E j \in 1 .. L : i \in results[j].issues /\ i.action = j
                               /\ i.code \notin {"NO_ACTIONS", "EMPTY_SOURCE", "SOURCE_HASH_MISMATCH"}
  BY <1>2, <1>6, <1>7 DEF Aggregated
<1>13. {i.code : i \in flags.issues} \cap {"EMPTY_SOURCE", "SOURCE_HASH_MISMATCH"} = {}
  BY <1>12 DEF Issue
<1>14. Consistent(flags)
  <2>1. \A i \in DOMAIN flags.results : flags.results[i].issues \subseteq flags.issues
    BY <1>2, <1>6 DEF Aggregated
  <2>2. ASSUME NEW i \in flags.issues
        PROVE  IF i.action = None THEN i \notin Errors(flags.issues)
               ELSE \E j \in DOMAIN flags.results : flags.results[j].id = i.action
                                                   /\ i \in flags.results[j].issues
    <3>1. CASE i = Issue("NO_ACTIONS", None)
      BY <3>1 DEF Issue, Errors
    <3>2. ASSUME NEW j \in 1 .. L, i \in results[j].issues, i.action = j
          PROVE  /\ i.action # None
                 /\ \E k \in DOMAIN flags.results : flags.results[k].id = i.action
                                                   /\ i \in flags.results[k].issues
      BY <1>2, <1>6, <3>2 DEF NoneIsNothing
    <3> QED BY <1>12, <3>1, <3>2
  <2> QED BY <1>2, <1>6, <2>1, <2>2 DEF Aggregated, Consistent
<1>15. Trustworthy(n, flags)
  <2>1. flags.total = Cardinality(Ids(n)) /\ flags.hashMatched /\ flags.detailed
    BY <1>6, <1>10 DEF Aggregated
  <2>2. \A i \in DOMAIN flags.results : Intrinsic(flags.results[i])
    BY <1>2, <1>6
  <2>3. \A i \in DOMAIN n.actions : n.actions[i].status = "verified" =>
           \A j \in DOMAIN flags.results : flags.results[j].id = n.actions[i].id =>
               flags.results[j].passed
    BY <1>2, <1>4, <1>5, <1>6
  <2> HIDE DEF n
  <2> QED BY <1>11, <1>13, <1>14, <2>1, <2>2, <2>3 DEF Trustworthy
<1>16. \A i \in DOMAIN n.actions : Unreviewed(n.actions[i])
  BY <1>4, <1>5
<1> QED BY <1>4, <1>8, <1>9, <1>15, <1>16 DEF flags

\* So the contract of 0.2 takes what the extractor without a model makes of any text.
LEMMA ExtractedIsCarried ==
  ASSUME NoneIsNothing, NEW id, NEW text \in Seq(Passages), text # None,
         NEW doc, doc = TextDocument(id, text),
         AgentExtract(ExtractDeterministically(doc), id, text) # None
  PROVE  CarriedByV02(AgentExtract(ExtractDeterministically(doc), id, text), id, text)
<1> DEFINE m == Extracted(ExtractDeterministically(doc), doc)
           n == VerifyManifest(m, doc)
           flags == n.receipt.verification
<1>1. doc.id = id /\ doc.hash = text /\ doc.text = text /\ CanonicalText(doc) = text
  BY GivenText
<1>2. /\ AgentExtract(ExtractDeterministically(doc), id, text) = n
      /\ m # None /\ text # Blank /\ IsValid(m) /\ m = Candidates(ExtractDeterministically(doc), doc)
  BY DEF AgentExtract, AgentAnswer, AgentSource, Extracted, ValidOrNone
<1>3. EnsureSourceHash(doc).hash = text
  <2> DEFINE raw == [id |-> id, text |-> text, pages |-> <<>>, chunks |-> <<>>, hash |-> None]
  <2>1. DOMAIN doc = {"id", "text", "pages", "chunks", "hash"}
    BY DEF TextDocument, EnsureSourceHash
  <2> QED BY <1>1, <2>1 DEF EnsureSourceHash
<1>4. /\ m.version = "0.2.0" /\ m.source.id = id /\ m.source.hash = text
      /\ m.receipt.extraction = [known |-> TRUE, version |-> "0.2.0"] /\ m.receipt # None
  <2> DEFINE made == [known |-> TRUE, version |-> "0.2.0"]
             receipt == [extraction |-> made, verification |-> None]
             reply == ExtractDeterministically(doc)
  <2>1. Candidates(reply, doc).version = "0.2.0" /\ Candidates(reply, doc).source.id = doc.id
        /\ Candidates(reply, doc).source.hash = EnsureSourceHash(doc).hash
        /\ Candidates(reply, doc).receipt = receipt
    BY DEF Candidates
  <2>2. receipt.extraction = made /\ receipt # None
    <3>1. "extraction" \in DOMAIN receipt
      OBVIOUS
    <3> HIDE DEF receipt
    <3>2. receipt # None
      BY <3>1 DEF NoneIsNothing
    <3> QED BY <3>2 DEF receipt
  <2>3. m = Candidates(reply, doc)
    BY <1>2
  <2> HIDE DEF m, receipt, reply
  <2> QED BY <1>1, <1>3, <2>1, <2>2, <2>3
<1>5. \A i \in DOMAIN m.actions :
         /\ m.actions[i].id = i
         /\ \E k, P : Held(m.actions[i], k, P, Len(text), doc)
  BY <1>1, <1>2, ExtractedIs
<1> HIDE DEF m
<1>6. \A i \in DOMAIN m.actions : /\ m.actions[i].status = "proposed"
                                  /\ Resolved(m.actions[i], id, text)
  <2> TAKE i \in DOMAIN m.actions
  <2>1. PICK k, P : Made(m.actions[i], k, P, Len(text), doc)
    BY <1>5 DEF Held
  <2> DEFINE e == m.actions[i].evidence
             C == Citations(P, doc)
  <2>2. e \in Seq(C) /\ P \subseteq 1 .. Len(text) /\ m.actions[i].status = "proposed"
    BY <2>1 DEF Made
  <2>3. \A c \in C : c.source = id /\ c.passage \in ToSet(text)
    BY <1>1, <2>2, CiteIs DEF Citations, ToSet
  <2> HIDE DEF e, C
  <2>4. \A j \in DOMAIN e : e[j] \in C
    BY <2>2
  <2> QED BY <2>2, <2>3, <2>4 DEF e, Resolved, Quotes
<1>7. ~Fatal(m, doc)
  BY <1>1, <1>2, <1>4 DEF Fatal, HashMatched
<1>8. /\ n.version = m.version /\ n.receipt = Receipt(m, flags)
      /\ \A i \in DOMAIN n.actions : Unreviewed(n.actions[i])
      /\ Receipted(n) = flags /\ flags # None /\ IsReceipt(flags)
      /\ Trustworthy(n, flags)
  BY <1>2, <1>5, <1>6, <1>7, VerifiedIsTrustworthy
<1>9. /\ DOMAIN n = ManifestFields /\ n.source = m.source
      /\ n.actions \in Seq(Range(n.actions)) /\ DOMAIN n.actions = DOMAIN m.actions
      /\ \A i \in DOMAIN m.actions :
            /\ DOMAIN n.actions[i] = ActionFields
            /\ n.actions[i].id = m.actions[i].id
            /\ n.actions[i].evidence = m.actions[i].evidence
  BY <1>2, VerifiedIs
<1> HIDE DEF n, flags
<1>10. IsValid(n)
  <2>1. \A i \in DOMAIN m.actions : m.actions[i].evidence # <<>>
    BY <1>2 DEF IsValid, Range
  <2>2. \A a \in Range(n.actions) : DOMAIN a = ActionFields /\ a.evidence # <<>>
    BY <1>9, <2>1 DEF Range
  <2> QED BY <1>4, <1>8, <1>9, <2>2 DEF IsValid
<1>11. Provenanced(n)
  <2>1. n.receipt.extraction = [known |-> TRUE, version |-> "0.2.0"] /\ n.receipt # None
    <3>1. [known |-> TRUE, version |-> "0.2.0"] # None
      BY DEF NoneIsNothing
    <3> QED BY <1>4, <1>8, <3>1 DEF Receipt, NoneIsNothing
  <2>2. n.receipt.extraction # None
    BY <2>1 DEF NoneIsNothing
  <2> QED BY <1>4, <1>8, <2>1, <2>2 DEF Provenanced
<1>12. UniqueIds(n)
  BY <1>5, <1>9 DEF UniqueIds
<1>13. \A i \in DOMAIN n.actions : Resolved(n.actions[i], id, text)
  BY <1>6, <1>9 DEF Resolved
<1> QED BY <1>2, <1>4, <1>8, <1>9, <1>10, <1>11, <1>12, <1>13 DEF CarriedByV02

\* Several elements are two different ones.
LEMMA Several ==
  ASSUME NEW S, IsFiniteSet(S)
  PROVE  Cardinality(S) > 1 <=> \E x, y \in S : x # y
<1>1. Cardinality(S) \in Nat /\ (Cardinality(S) = 0 <=> S = {})
  BY FS_CardinalityType, FS_EmptySet
<1>2. ASSUME NEW x \in S, NEW y \in S, x # y PROVE Cardinality(S) > 1
  <2>1. IsFiniteSet({x}) /\ Cardinality({x}) = 1
    BY FS_Singleton
  <2>2. Cardinality({x} \cup {y}) = 2
    BY <1>2, <2>1, FS_AddElement
  <2>3. Cardinality({x} \cup {y}) <= Cardinality(S)
    <3>1. {x} \cup {y} \subseteq S
      OBVIOUS
    <3> QED BY <3>1, FS_Subset
  <2> QED BY <1>1, <2>2, <2>3
<1>3. ASSUME Cardinality(S) > 1 PROVE \E x, y \in S : x # y
  <2>1. PICK x \in S : TRUE
    BY <1>1, <1>3
  <2>2. S # {x}
    BY <1>3, FS_Singleton
  <2> QED BY <2>1, <2>2
<1> QED BY <1>2, <1>3

\* A batch tells of exactly the sources that come with two texts.
LEMMA ConflictsAreTold ==
  ASSUME NEW items, IsFiniteSet(DOMAIN items)
  PROVE  (\E r \in SourceReviews(items) : r.code = "SOURCE_ID_CONFLICT") <=>
             \E i, j \in DOMAIN items : /\ items[i].source = items[j].source
                                        /\ items[i].text # items[j].text
<1> DEFINE Of(id) == {i \in DOMAIN items : items[i].source = id}
           Texts(id) == {items[i].text : i \in Of(id)}
           Repeated == {items[i].source : i \in {i \in DOMAIN items :
                          \E j \in DOMAIN items : j # i /\ items[j].source = items[i].source}}
           Conflict(id) == [source |-> id,
                          code |-> IF Cardinality(Texts(id)) > 1 THEN "SOURCE_ID_CONFLICT"
                                   ELSE "REPEATED_SOURCE"]
<1>1. SourceReviews(items) = {Conflict(id) : id \in Repeated}
  BY DEF SourceReviews
<1>2. ASSUME NEW id
      PROVE  Cardinality(Texts(id)) > 1 <=>
                \E i, j \in DOMAIN items : /\ items[i].source = id /\ items[j].source = id
                                           /\ items[i].text # items[j].text
  <2> DEFINE T == Texts(id)
             I == Of(id)
             f == [i \in I |-> items[i].text]
  <2>1. IsFiniteSet(I)
    BY FS_Subset
  <2>2. f \in Surjection(I, T)
    BY DEF Surjection
  <2>3. IsFiniteSet(T)
    BY <2>1, <2>2, FS_Surjection
  <2>4. (\E x, y \in T : x # y) <=> \E i, j \in I : items[i].text # items[j].text
    OBVIOUS
  <2>5. Cardinality(T) > 1 <=> \E x, y \in T : x # y
    <3> HIDE DEF T
    <3> QED BY <2>3, Several
  <2> QED BY <2>4, <2>5
<1>3. \A id : Conflict(id).code = "SOURCE_ID_CONFLICT" <=> Cardinality(Texts(id)) > 1
  OBVIOUS
<1>4. \A i, j \in DOMAIN items :
         items[i].source = items[j].source /\ items[i].text # items[j].text =>
             items[i].source \in Repeated
  <2> SUFFICES ASSUME NEW i \in DOMAIN items, NEW j \in DOMAIN items,
                      items[i].source = items[j].source, items[i].text # items[j].text
               PROVE  items[i].source \in Repeated
    OBVIOUS
  <2>1. j # i /\ items[j].source = items[i].source
    OBVIOUS
  <2> QED BY <2>1
<1> HIDE DEF Conflict, Texts, Repeated
<1>5. (\E r \in SourceReviews(items) : r.code = "SOURCE_ID_CONFLICT") <=>
         \E id \in Repeated : Cardinality(Texts(id)) > 1
  BY <1>1, <1>3
<1> QED BY <1>2, <1>4, <1>5

\* The inductive invariant of what was put out last, next to FileOK.
BridgeOK == BridgesKeepTrust

LEMMA BridgeElse ==
  ASSUME AnswersAreBacked', sent'.by \in {"nothing", "calendar", "agent verify", "analysis", "guide"}
  PROVE  BridgeOK'
  BY DEF BridgeOK, BridgesKeepTrust

LEMMA BridgeStep ==
  ASSUME NoneIsNothing, FileOK, SentOK', BridgeOK, [Next]_vars PROVE BridgeOK'
<1>0. AnswersAreBacked' /\ source # None /\ source \in Seq(Passages)
  BY SourceIsGiven DEF SentOK
<1>1. CASE Extract \/ \E include \in Policies : Export(include)
  <2>1. \E given, out : sent' = [by |-> "calendar", text |-> source, given |-> given, out |-> out]
    <3>1. CASE Extract
      <4>1. \E found, rules : Answered(found, rules)
        BY <3>1 DEF Extract
      <4>2. \E manifest : Written(manifest)
        BY <4>1 DEF Answered
      <4> QED BY <4>2 DEF Written
    <3>2. CASE \E include \in Policies : Export(include)
      BY <3>2 DEF Export
    <3> QED BY <1>1, <3>1, <3>2
  <2> QED BY <1>0, <2>1, BridgeElse
<1>2. CASE AskAgent
  <2>1. CASE \E answer \in {AgentVerify(file, DocId, source)} : Agent("agent verify", answer, FALSE)
    <3> DEFINE answer == AgentVerify(file, DocId, source)
    <3>1. sent' = [by |-> "agent verify", text |-> source, given |-> file, out |-> answer]
      BY <2>1 DEF Agent
    <3> HIDE DEF answer
    <3>2. sent'.by = "agent verify"
      BY <3>1
    <3> QED BY <1>0, <3>2, BridgeElse
  <2>2. CASE \E answer \in {AgentExtract(OwnReply, DocId, source)} : Agent("agent extract", answer, TRUE)
    <3> DEFINE answer == AgentExtract(OwnReply, DocId, source)
    <3>1. answer # None /\ sent' = [by |-> "agent extract", text |-> source, given |-> file, out |-> answer]
      BY <2>2 DEF Agent
    <3>2. CarriedByV02(answer, DocId, source)
      BY <1>0, <3>1, ExtractedIsCarried DEF OwnReply
    <3> HIDE DEF answer
    <3>3. sent'.by = "agent extract" /\ sent'.out = answer /\ sent'.text = source
      BY <3>1
    <3> QED BY <1>0, <3>2, <3>3 DEF BridgeOK, BridgesKeepTrust
  <2> QED BY <1>2, <2>1, <2>2 DEF AskAgent
<1>3. CASE Prepare
  <2>1. CASE PutOut("matoe 0.1", file, PrepareV01(file, source))
    <3>1. /\ CarriedByV01(file, source) /\ sent'.by = "matoe 0.1"
          /\ sent'.given = file /\ sent'.out = Projected(file)
      BY <2>1 DEF PutOut, PrepareV01
    <3>2. Classify(Projected(file)).actions = Classify(file).actions
      BY <3>1, SameDispositions
    <3> QED BY <1>0, <3>1, <3>2 DEF BridgeOK, BridgesKeepTrust
  <2>2. CASE PutOut("matoe 0.2", file, PrepareV02(file, DocId, source))
    <3>1. /\ CarriedByV02(file, DocId, source) /\ sent'.by = "matoe 0.2"
          /\ sent'.text = source /\ sent'.out = file
      BY <2>2 DEF PutOut, PrepareV02
    <3>2. \A a \in Range(file.actions) : EvidencePassages(a) \subseteq ToSet(source)
      <4>1. \A i \in DOMAIN file.actions : Resolved(file.actions[i], DocId, source)
        BY <3>1 DEF CarriedByV02
      <4>2. \A i \in DOMAIN file.actions : EvidencePassages(file.actions[i]) \subseteq ToSet(source)
        BY <4>1 DEF Resolved, Quotes, EvidencePassages
      <4> QED BY <4>2 DEF Range
    <3> QED BY <1>0, <3>1, <3>2 DEF BridgeOK, BridgesKeepTrust
  <2> QED BY <1>3, <2>1, <2>2 DEF Prepare
<1>4. CASE AskAnalysis \/ AskGuide
  <2>1. sent'.by \in {"analysis", "guide"}
    BY <1>4 DEF AskAnalysis, AskGuide, PutOut
  <2> QED BY <1>0, <2>1, BridgeElse
<1>6. CASE \E id \in {DocId, None}, text \in scene.later : AskBatch(id, text)
  <2>1. PICK id, text : AskBatch(id, text)
    BY <1>6
  <2> DEFINE items == <<[source |-> DocId, text |-> source, manifest |-> file],
                        [source |-> id, text |-> text, manifest |-> file]>>
  <2>2. sent'.by = "batch" /\ sent'.given = items /\ sent'.out.reviews = SourceReviews(items)
    BY <2>1 DEF AskBatch, PutOut
  <2>3. IsFiniteSet(DOMAIN items)
    <3>1. DOMAIN items = 1 .. 2
      OBVIOUS
    <3>2. 1 \in Int /\ 2 \in Int
      OBVIOUS
    <3> HIDE DEF items
    <3> QED BY <3>1, <3>2, FS_Interval
  <2> HIDE DEF items
  <2>4. (\E r \in SourceReviews(items) : r.code = "SOURCE_ID_CONFLICT") <=>
           \E i, j \in DOMAIN items : /\ items[i].source = items[j].source
                                      /\ items[i].text # items[j].text
    BY <2>3, ConflictsAreTold
  <2> QED BY <1>0, <2>2, <2>4 DEF BridgeOK, BridgesKeepTrust
<1>7. CASE \/ \E text \in scene.later : EditSource(text)
           \/ \E i \in DOMAIN file.actions :
                 \/ \E status \in {"accepted", "rejected"} : Review(i, status)
                 \/ \E passage \in scene.quotes : Alter(i, passage)
           \/ Reverify
           \/ EvidenceNext /\ UNCHANGED <<manifestVars, factVars>>
           \/ FactNext /\ UNCHANGED <<manifestVars, evidenceVars>>
           \/ UNCHANGED vars
  <2>1. sent' = sent
    BY <1>7 DEF EditSource, Review, Alter, Reverify, manifestVars, vars
  <2> QED BY <1>0, <2>1 DEF BridgeOK, BridgesKeepTrust
<1> QED BY <1>1, <1>2, <1>3, <1>4, <1>6, <1>7 DEF Next, ManifestNext

(* What leaves through a bridge is trusted exactly as far as it was before: *)
(* the old contract gives every action the disposition it had, the contract *)
(* of 0.2 takes whatever an agent extracted from any text, and a batch tells *)
(* of a source with two texts (matoe.ts, matoe-v02.ts, agent-batch.ts).      *)
THEOREM BridgesStayTrusted ==
  ASSUME NoneIsNothing PROVE Spec => []BridgesKeepTrust
<1>1. Init => FileOK /\ SentOK /\ BridgeOK
  <2>1. Init => SentOK /\ BridgeOK
    BY DEF Init, ManifestInit, Nothing, SentOK, AnswersAreBacked, BridgeOK, BridgesKeepTrust
  <2> QED BY <2>1, FileInit
<1>2. FileOK /\ SentOK /\ BridgeOK /\ [Next]_vars => (FileOK /\ SentOK /\ BridgeOK)'
  <2> SUFFICES ASSUME FileOK, SentOK, BridgeOK, [Next]_vars PROVE (FileOK /\ SentOK /\ BridgeOK)'
    OBVIOUS
  <2>1. FileOK' /\ SentOK'
    BY FileStep, SentStep
  <2> QED BY <2>1, BridgeStep
<1>3. BridgeOK => BridgesKeepTrust
  BY DEF BridgeOK
<1> QED BY <1>1, <1>2, <1>3, PTL DEF Spec

-----------------------------------------------------------------------------
(* Looking things up in a document.                                          *)

\* The flat sequence that FlattenSeq builds, part by part.
FlatAt(seqs, flat, i) == IF i = 1 THEN seqs[i] ELSE flat[i-1] \o seqs[i]

FlatTo(seqs, k, flat) == flat = [i \in 1 .. k |-> FlatAt(seqs, flat, i)]

LEMMA FlatExists ==
  ASSUME NEW seqs, Len(seqs) \in Nat
  PROVE  \E flat : FlatTo(seqs, Len(seqs), flat)
<1> DEFINE Bad == {k \in 0 .. Len(seqs) : ~ \E flat : FlatTo(seqs, k, flat)}
<1> SUFFICES ASSUME Bad # {} PROVE FALSE
  OBVIOUS
<1>1. PICK k \in Bad : \A j \in Bad : k <= j
  <2>1. Bad \in SUBSET Nat
    OBVIOUS
  <2> HIDE DEF Bad
  <2> QED BY <2>1, Minimum
<1>2. k \in 0 .. Len(seqs)
  OBVIOUS
<1>3. CASE k = 0
  <2> DEFINE flat == [i \in 1 .. 0 |-> <<>>]
  <2>1. flat = [i \in 1 .. k |-> FlatAt(seqs, flat, i)]
    BY <1>3
  <2> QED BY <2>1 DEF FlatTo
<1>4. CASE k # 0
  <2>1. k - 1 \in 0 .. Len(seqs) /\ k - 1 \notin Bad
    BY <1>1, <1>2, <1>4
  <2>2. PICK flat : FlatTo(seqs, k - 1, flat)
    BY <2>1
  <2> DEFINE more == [i \in 1 .. k |-> IF i = k THEN FlatAt(seqs, flat, k) ELSE flat[i]]
  <2>3. \A i \in 1 .. k : FlatAt(seqs, more, i) = FlatAt(seqs, flat, i)
    <3> TAKE i \in 1 .. k
    <3>1. i # 1 => more[i-1] = flat[i-1]
      BY <1>2, <1>4
    <3> QED BY <3>1 DEF FlatAt
  <2>4. \A i \in 1 .. k : more[i] = FlatAt(seqs, flat, i)
    BY <2>2, <1>2, <1>4 DEF FlatTo
  <2>5. more = [i \in 1 .. k |-> FlatAt(seqs, more, i)]
    BY <2>3, <2>4
  <2> HIDE DEF more
  <2> QED BY <2>5 DEF FlatTo
<1> QED BY <1>3, <1>4

LEMMA Flattened ==
  ASSUME NEW T, NEW seqs \in Seq(Seq(T))
  PROVE  FlattenSeq(seqs) \in Seq(T)
<1>1. CASE Len(seqs) = 0
  <2>1. seqs = <<>>
    BY <1>1
  <2> QED BY <1>1, <2>1 DEF FlattenSeq
<1>2. CASE Len(seqs) # 0
  <2> DEFINE N == Len(seqs)
             flat == CHOOSE flat : flat = [i \in 1 .. N |-> FlatAt(seqs, flat, i)]
  <2>1. N \in Nat /\ N >= 1 /\ \A i \in 1 .. N : seqs[i] \in Seq(T)
    BY <1>2
  <2>2. flat = [i \in 1 .. N |-> FlatAt(seqs, flat, i)]
    BY <2>1, FlatExists DEF FlatTo
  <2>3. FlattenSeq(seqs) = flat[N]
    BY <1>2 DEF FlattenSeq, FlatAt
  <2> HIDE DEF flat
  <2> DEFINE Bad == {k \in 1 .. N : flat[k] \notin Seq(T)}
  <2>4. Bad = {}
    <3> SUFFICES ASSUME Bad # {} PROVE FALSE
      OBVIOUS
    <3>1. PICK k \in Bad : \A j \in Bad : k <= j
      <4>1. Bad \in SUBSET Nat
        OBVIOUS
      <4> HIDE DEF Bad
      <4> QED BY <4>1, Minimum
    <3>2. k \in 1 .. N /\ flat[k] \notin Seq(T) /\ seqs[k] \in Seq(T)
      BY <2>1
    <3>3. flat[k] = FlatAt(seqs, flat, k)
      BY <2>2, <3>2
    <3>4. CASE k = 1
      BY <3>2, <3>3, <3>4 DEF FlatAt
    <3>5. CASE k # 1
      <4>1. k - 1 \in 1 .. N /\ k - 1 \notin Bad
        BY <2>1, <3>1, <3>2, <3>5
      <4>2. flat[k-1] \in Seq(T)
        BY <4>1
      <4>3. flat[k-1] \o seqs[k] \in Seq(T)
        BY <3>2, <4>2
      <4> QED BY <3>2, <3>3, <3>5, <4>3 DEF FlatAt
    <3> QED BY <3>4, <3>5
  <2> QED BY <2>1, <2>3, <2>4
<1> QED BY <1>1, <1>2

\* What DocumentsAreGiven says of a document.
Given(doc) ==
  /\ doc.text \in Seq(Passages)
  /\ doc.pages \in Seq(Range(doc.pages))
  /\ doc.chunks \in Seq(Range(doc.chunks))
  /\ \A part \in Range(doc.pages) \cup Range(doc.chunks) : part.text \in Seq(Passages)

\* A container of the document.
PartOf(doc, c) ==
  \/ c = Container("text", 1, None, doc.text)
  \/ \E i \in DOMAIN doc.pages : c = Container("page", i, doc.pages[i].number, doc.pages[i].text)
  \/ \E i \in DOMAIN doc.chunks : c = Container("chunk", i, doc.chunks[i].page, doc.chunks[i].text)

\* A citation taken from the document.
Taken(doc, c) ==
  /\ IsCanonical(doc)
  /\ \E container : /\ PartOf(doc, container)
                    /\ \E line \in DOMAIN container.text : c = Citation(doc, container, line)

\* A citation is confirmed by every document with the snapshot it was taken from.
LEMMA TakenIsConfirmed ==
  ASSUME NEW doc, NEW c, Taken(doc, c), NEW d
  PROVE  VerifyCitation(d, c) <=> Snapshot(d) = c.snapshot
<1>1. PICK container : /\ PartOf(doc, container)
                       /\ \E line \in DOMAIN container.text : c = Citation(doc, container, line)
  BY DEF Taken
<1>2. PICK line \in DOMAIN container.text : c = Citation(doc, container, line)
  BY <1>1
<1>3. /\ c.source = doc.id /\ c.snapshot = Snapshot(doc) /\ c.container = container.name
      /\ c.index = container.index /\ c.page = container.page
      /\ c.paragraph = line /\ c.quote = container.text[line]
  BY <1>2 DEF Citation
<1>4. ASSUME Snapshot(d) = Snapshot(doc) PROVE VerifyCitation(d, c)
  <2>1. d.id = doc.id /\ d.text = doc.text /\ d.pages = doc.pages /\ d.chunks = doc.chunks
    <3> DEFINE x == Snapshot(d)
               y == Snapshot(doc)
    <3>1. x = y /\ x.id = d.id /\ x.text = d.text /\ x.pages = d.pages /\ x.chunks = d.chunks
          /\ y.id = doc.id /\ y.text = doc.text /\ y.pages = doc.pages /\ y.chunks = doc.chunks
      BY <1>4 DEF Snapshot
    <3> HIDE DEF x, y
    <3> QED BY <3>1
  <2>2. IsCanonical(d)
    BY <2>1 DEF Taken, IsCanonical, PageNumbers
  <2>3. container \in Rebuilt(d, c)
    <3>1. PartOf(d, container)
      BY <1>1, <2>1 DEF PartOf
    <3> QED BY <1>3, <3>1 DEF PartOf, Rebuilt, Container
  <2> QED BY <1>2, <1>3, <1>4, <2>1, <2>2, <2>3 DEF VerifyCitation
<1> QED BY <1>3, <1>4 DEF VerifyCitation

LEMMA ContainersAre ==
  ASSUME NEW doc, Given(doc)
  PROVE  LET all == Containers(doc)
         IN /\ Len(all) \in Nat /\ DOMAIN all = 1 .. Len(all)
            /\ \A i \in DOMAIN all : PartOf(doc, all[i]) /\ all[i].text \in Seq(Passages)
<1> DEFINE Pages == [i \in DOMAIN doc.pages |->
                        Container("page", i, doc.pages[i].number, doc.pages[i].text)]
           Chunks == [i \in DOMAIN doc.chunks |->
                        Container("chunk", i, doc.chunks[i].page, doc.chunks[i].text)]
           Text == <<Container("text", 1, None, doc.text)>>
<1>1. Containers(doc) \in {Pages, Text, Chunks}
  BY DEF Containers
<1>2. /\ DOMAIN doc.pages = 1 .. Len(doc.pages) /\ Len(doc.pages) \in Nat
      /\ DOMAIN doc.chunks = 1 .. Len(doc.chunks) /\ Len(doc.chunks) \in Nat
      /\ \A i \in DOMAIN doc.pages : doc.pages[i].text \in Seq(Passages)
      /\ \A i \in DOMAIN doc.chunks : doc.chunks[i].text \in Seq(Passages)
  BY DEF Given, Range
<1>3. Len(Pages) = Len(doc.pages) /\ DOMAIN Pages = DOMAIN doc.pages
      /\ \A i \in DOMAIN Pages : PartOf(doc, Pages[i]) /\ Pages[i].text \in Seq(Passages)
  <2>1. \A i \in DOMAIN doc.pages : PartOf(doc, Pages[i]) /\ Pages[i].text = doc.pages[i].text
    BY DEF PartOf, Container
  <2>2. Pages = [i \in 1 .. Len(doc.pages) |-> Pages[i]]
    BY <1>2
  <2> HIDE DEF Pages
  <2>3. DOMAIN Pages = DOMAIN doc.pages /\ Len(Pages) = Len(doc.pages)
    BY <1>2, <2>2
  <2>4. \A i \in DOMAIN doc.pages : doc.pages[i].text \in Seq(Passages)
    BY <1>2
  <2> QED BY <2>1, <2>3, <2>4
<1>4. Len(Chunks) = Len(doc.chunks) /\ DOMAIN Chunks = DOMAIN doc.chunks
      /\ \A i \in DOMAIN Chunks : PartOf(doc, Chunks[i]) /\ Chunks[i].text \in Seq(Passages)
  <2>1. \A i \in DOMAIN doc.chunks : PartOf(doc, Chunks[i]) /\ Chunks[i].text = doc.chunks[i].text
    BY DEF PartOf, Container
  <2>2. Chunks = [i \in 1 .. Len(doc.chunks) |-> Chunks[i]]
    BY <1>2
  <2> HIDE DEF Chunks
  <2>3. DOMAIN Chunks = DOMAIN doc.chunks /\ Len(Chunks) = Len(doc.chunks)
    BY <1>2, <2>2
  <2>4. \A i \in DOMAIN doc.chunks : doc.chunks[i].text \in Seq(Passages)
    BY <1>2
  <2> QED BY <2>1, <2>3, <2>4
<1>5. Len(Text) = 1 /\ DOMAIN Text = 1 .. 1
      /\ \A i \in DOMAIN Text : PartOf(doc, Text[i]) /\ Text[i].text \in Seq(Passages)
  <2>1. Text[1].text = doc.text /\ PartOf(doc, Text[1])
    BY DEF PartOf, Container
  <2> QED BY <2>1 DEF Given
<1> HIDE DEF Pages, Text, Chunks
<1> QED BY <1>1, <1>2, <1>3, <1>4, <1>5

\* An index holds citations of documents.
Indexed(ix) ==
  /\ ix.passages \in Seq(Range(ix.passages))
  /\ \A c \in Range(ix.passages) : \E doc : Taken(doc, c)

LEMMA BuiltIsIndexed ==
  ASSUME NEW doc, Given(doc), BuildIndex(doc) # None
  PROVE  Indexed(BuildIndex(doc))
<1> DEFINE all == Containers(doc)
           lines == [i \in DOMAIN all |->
                        [line \in DOMAIN all[i].text |-> Citation(doc, all[i], line)]]
           T == {c \in UNION {Range(lines[i]) : i \in DOMAIN all} : Taken(doc, c)}
<1>1. IsCanonical(doc) /\ BuildIndex(doc).passages = FlattenSeq(lines)
  BY DEF BuildIndex
<1>2. Len(all) \in Nat /\ DOMAIN all = 1 .. Len(all)
      /\ \A i \in DOMAIN all : PartOf(doc, all[i]) /\ all[i].text \in Seq(Passages)
  BY ContainersAre
<1> HIDE DEF all
<1>3. ASSUME NEW i \in DOMAIN all PROVE lines[i] \in Seq(T)
  <2> DEFINE text == all[i].text
  <2>1. lines[i] = [line \in DOMAIN text |-> Citation(doc, all[i], line)]
    OBVIOUS
  <2>2. DOMAIN text = 1 .. Len(text) /\ Len(text) \in Nat
    BY <1>2
  <2>3. \A line \in DOMAIN text : Taken(doc, Citation(doc, all[i], line))
    BY <1>1, <1>2 DEF Taken
  <2>4. \A line \in DOMAIN text : lines[i][line] = Citation(doc, all[i], line)
                                  /\ lines[i][line] \in Range(lines[i])
    BY <2>1 DEF Range
  <2>5. \A line \in DOMAIN text : lines[i][line] \in T
    BY <2>3, <2>4
  <2>6. lines[i] = [line \in 1 .. Len(text) |-> lines[i][line]]
    BY <2>1, <2>2
  <2> HIDE DEF lines, T, text
  <2> QED BY <2>2, <2>5, <2>6
<1>4. lines \in Seq(Seq(T))
  <2>1. lines = [i \in 1 .. Len(all) |-> lines[i]]
    BY <1>2
  <2> HIDE DEF lines, T
  <2> QED BY <1>2, <1>3, <2>1
<1>5. FlattenSeq(lines) \in Seq(T)
  <2> HIDE DEF lines, T
  <2> QED BY <1>4, Flattened
<1>6. \A c \in T : Taken(doc, c)
  OBVIOUS
<1> HIDE DEF lines, T
<1>7. FlattenSeq(lines) \in Seq(Range(FlattenSeq(lines))) /\ Range(FlattenSeq(lines)) \subseteq T
  BY <1>5 DEF Range
<1> QED BY <1>1, <1>6, <1>7 DEF Indexed

LEMMA Among ==
  ASSUME NEW T, NEW seq \in Seq(T), NEW S
  PROVE  Those(seq, S) \in Seq(T)
<1>1. /\ Those(seq, S) \in Seq(Range(Those(seq, S)))
      /\ Range(Those(seq, S)) \subseteq Range(seq)
  BY ThoseAre
<1>2. Range(seq) \subseteq T
  BY DEF Range
<1> QED BY <1>1, <1>2

\* The smaller of two numbers.
LEMMA Smaller ==
  ASSUME NEW a \in Nat, NEW b \in Nat
  PROVE  Min({a, b}) \in {a, b} /\ Min({a, b}) <= a /\ Min({a, b}) <= b
<1>1. \E m \in {a, b} : \A k \in {a, b} : m <= k
  BY Minimum
<1> QED BY <1>1 DEF Min

\* What stands around a passage of an index is in it.
LEMMA AroundIs ==
  ASSUME NEW ix, Indexed(ix), NEW i \in DOMAIN ix.passages, NEW radius \in Nat
  PROVE  Range(Around(ix, i, radius)) \subseteq Range(ix.passages)
<1> DEFINE T == Range(ix.passages)
           N == Len(ix.passages)
           first == IF i > radius THEN i - radius ELSE 1
           last == Min({i + radius, N})
           same == {c \in T : /\ c.container = ix.passages[i].container
                              /\ c.index = ix.passages[i].index}
           part == SubSeq(ix.passages, first, last)
<1>1. ix.passages \in Seq(T) /\ N \in Nat /\ DOMAIN ix.passages = 1 .. N
  BY DEF Indexed
<1>2. Around(ix, i, radius) = Those(part, same)
  BY DEF Around
<1>3. i \in 1 .. N
  BY <1>1
<1>4. last \in Nat /\ last <= N
  <2>1. i + radius \in Nat
    BY <1>3
  <2> HIDE DEF N
  <2> QED BY <1>1, <2>1, Smaller
<1>5. first \in Nat /\ first >= 1
  BY <1>3
<1> HIDE DEF T, N, first, last, same
<1>6. part \in Seq(T)
  <2>1. \A k \in first .. last : k \in 1 .. N
    BY <1>1, <1>4, <1>5
  <2> QED BY <1>1, <1>4, <1>5, <2>1
<1>7. Those(part, same) \in Seq(T)
  <2> HIDE DEF part
  <2> QED BY <1>6, Among
<1> QED BY <1>2, <1>7 DEF T, Range

LEMMA ExplainedIs ==
  ASSUME NEW ix, Indexed(ix), NEW c \in Range(ix.passages), NEW radius \in Nat
  PROVE  ToSet(ExplainCitation(ix, c, radius)) \subseteq Range(ix.passages)
<1> DEFINE found == {i \in DOMAIN ix.passages : ix.passages[i] = c}
<1>1. found # {} /\ found \subseteq DOMAIN ix.passages
  BY DEF Range
<1>2. found \in SUBSET Nat
  BY DEF Indexed
<1>3. ExplainCitation(ix, c, radius) = Around(ix, Min(found), radius)
  BY <1>1 DEF ExplainCitation
<1> HIDE DEF found
<1>4. Min(found) \in found
  BY <1>1, <1>2, Minimum DEF Min
<1>5. Range(Around(ix, Min(found), radius)) \subseteq Range(ix.passages)
  BY <1>1, <1>4, AroundIs
<1> QED BY <1>3, <1>5 DEF Range, ToSet

\* The evidence of an answer is in the index, and so is its context.
LEMMA AnswerIs ==
  ASSUME NEW ix, Indexed(ix), NEW question, question.limit \in Nat, NEW radius \in Nat
  PROVE  AnswerDocumentQuestion(ix, question, radius).context \subseteq Range(ix.passages)
<1> DEFINE T == Range(ix.passages)
           literal == {c \in T : c.quote \in question.literal}
           found == Those(ix.passages, {c \in T : Answers(question, c.quote)})
           matches == IF question.kind = "search" /\ question.terms = {} THEN <<>>
                      ELSE Those(found, literal) \o Those(found, T \ literal)
           last == Min({question.limit, Len(matches)})
           evidence == SubSeq(matches, 1, last)
<1>1. Query(ix, question).evidence = evidence
  BY DEF Query
<1>2. matches \in Seq(T)
  <2>1. ix.passages \in Seq(T)
    BY DEF Indexed
  <2>2. found \in Seq(T)
    <3> HIDE DEF T
    <3> QED BY <2>1, Among
  <2> HIDE DEF found, literal, T
  <2>3. Those(found, literal) \in Seq(T) /\ Those(found, T \ literal) \in Seq(T)
    BY <2>2, Among
  <2> QED BY <2>3
<1> HIDE DEF T, matches
<1>3. last \in Nat /\ last <= Len(matches)
  <2>1. Len(matches) \in Nat
    BY <1>2
  <2> QED BY <2>1, Smaller
<1> HIDE DEF last
<1>4. evidence \in Seq(T)
  BY <1>2, <1>3
<1> HIDE DEF evidence
<1>5. \A c \in ToSet(evidence) : c \in T
  BY <1>4 DEF ToSet
<1>6. AnswerDocumentQuestion(ix, question, radius).context
         = UNION {ToSet(ExplainCitation(ix, c, radius)) : c \in ToSet(evidence)}
  BY <1>1 DEF AnswerDocumentQuestion
<1> QED BY <1>5, <1>6, ExplainedIs DEF T

\* Selecting items and taking their citations is selecting the citations.
CitedBy(items) == [n \in DOMAIN items |-> items[n].citation]

LEMMA KeptIs ==
  ASSUME NEW seq, Len(seq) \in Nat, NEW S
  PROVE  \E kept : /\ KeptTo(seq, S, Len(seq), kept)
                   /\ Those(seq, S) = kept[Len(seq)]
<1> DEFINE kept == CHOOSE kept : kept = [i \in 0 .. Len(seq) |-> KeptAt(seq, S, kept, i)]
<1>1. kept = [i \in 0 .. Len(seq) |-> KeptAt(seq, S, kept, i)]
  BY KeptExists DEF KeptTo
<1>2. Those(seq, S) = kept[Len(seq)]
  BY DEF Those, KeptAt
<1> HIDE DEF kept
<1> QED BY <1>1, <1>2 DEF KeptTo

LEMMA ThoseAlike ==
  ASSUME NEW X, NEW items \in Seq(X), NEW S, NEW Y, NEW seq \in Seq(Y), NEW T, Len(items) = Len(seq),
         \A i \in 1 .. Len(seq) : /\ items[i].citation = seq[i]
                                  /\ items[i] \in S <=> seq[i] \in T
  PROVE  CitedBy(Those(items, S)) = Those(seq, T)
<1> DEFINE N == Len(seq)
<1>0. N \in Nat /\ \A i \in 1 .. N : items[i] \in X /\ seq[i] \in Y
  OBVIOUS
<1>1. PICK a : KeptTo(items, S, N, a) /\ Those(items, S) = a[N]
  BY <1>0, KeptIs
<1>2. PICK b : KeptTo(seq, T, N, b) /\ Those(seq, T) = b[N]
  BY <1>0, KeptIs
<1>3. \A i \in 0 .. N : a[i] = KeptAt(items, S, a, i) /\ b[i] = KeptAt(seq, T, b, i)
  BY <1>1, <1>2 DEF KeptTo
<1> DEFINE Bad == {k \in 0 .. N : ~(a[k] \in Seq(X) /\ CitedBy(a[k]) = b[k])}
<1>4. Bad = {}
  <2> SUFFICES ASSUME Bad # {} PROVE FALSE
    OBVIOUS
  <2>1. PICK k \in Bad : \A j \in Bad : k <= j
    <3>1. Bad \in SUBSET Nat
      BY <1>0
    <3> HIDE DEF Bad
    <3> QED BY <3>1, Minimum
  <2>2. k \in 0 .. N /\ ~(a[k] \in Seq(X) /\ CitedBy(a[k]) = b[k])
    OBVIOUS
  <2>3. CASE k = 0
    <3>1. a[k] = <<>> /\ b[k] = <<>>
      BY <1>3, <2>2, <2>3 DEF KeptAt
    <3>2. CitedBy(<<>>) = <<>>
      BY DEF CitedBy
    <3> QED BY <2>2, <3>1, <3>2
  <2>4. CASE k # 0
    <3>1. k - 1 \in 0 .. N /\ k - 1 \notin Bad /\ k \in 1 .. N
      BY <1>0, <2>1, <2>2, <2>4
    <3> DEFINE q == a[k-1]
               x == items[k]
    <3>2. q \in Seq(X) /\ CitedBy(q) = b[k-1]
      BY <3>1
    <3>3. x \in X /\ x.citation = seq[k] /\ (x \in S <=> seq[k] \in T)
      BY <1>0, <3>1
    <3>4. a[k] = (IF x \in S THEN Append(q, x) ELSE q)
          /\ b[k] = (IF seq[k] \in T THEN Append(b[k-1], seq[k]) ELSE b[k-1])
      BY <1>3, <2>2, <2>4 DEF KeptAt
    <3> HIDE DEF q, x, Bad
    <3>5. CitedBy(Append(q, x)) = Append(CitedBy(q), x.citation) /\ Append(q, x) \in Seq(X)
      BY <3>2, <3>3 DEF CitedBy
    <3> QED BY <2>2, <3>2, <3>3, <3>4, <3>5
  <2> QED BY <2>2, <2>3, <2>4
<1>5. N \in 0 .. N
  BY <1>0
<1> QED BY <1>1, <1>2, <1>4, <1>5

LEMMA Enumerated ==
  ASSUME NEW f, NEW n \in Nat, f = [i \in 1 .. n |-> f[i]]
  PROVE  f \in Seq(Range(f)) /\ Len(f) = n
<1> DEFINE R == Range(f)
<1>1. \A i \in 1 .. n : f[i] \in R
  BY DEF Range
<1> HIDE DEF R
<1>2. f \in Seq(R) /\ Len(f) = n
  BY <1>1
<1> QED BY <1>2 DEF R

\* What a review with these options has to show, in order.
Wanted(ix, options) ==
  Those(ix.passages, {c \in Range(ix.passages) : AskedFor(c.quote, options)})

\* A window shows the next passages that are asked for, and where the one after it begins.
LEMMA WindowIs ==
  ASSUME NEW ix, Indexed(ix), NEW options, options.limit \in Nat,
         options.offset \in 0 .. Len(Wanted(ix, options))
  PROVE  LET page == FamilyReview(ix, options)
             all  == Wanted(ix, options)
         IN \E m \in options.offset .. Len(all) :
               /\ CitedBy(page.items) = SubSeq(all, options.offset + 1, m)
               /\ page.next = IF Len(all) > m THEN m ELSE None
<1> DEFINE Y == Range(ix.passages)
           T == {c \in Y : AskedFor(c.quote, options)}
           all == Wanted(ix, options)
           N == Len(ix.passages)
           items == [i \in DOMAIN ix.passages |-> FamilyItem(ix, i)]
           Passes(item) == /\ options.domain \in item.domains \cup {None}
                           /\ options.topic \in item.topics \cup {None}
           S == {item \in Range(items) : Passes(item)}
           matching == Those(items, S)
           from == options.offset
           last == Min({from + options.limit, Len(matching)})
           page == FamilyReview(ix, options)
           returned == SubSeq(matching, from + 1, last)
<1>1. ix.passages \in Seq(Y) /\ N \in Nat /\ DOMAIN ix.passages = 1 .. N
      /\ ix.passages = [i \in 1 .. N |-> ix.passages[i]]
  BY DEF Indexed
<1>2. items \in Seq(Range(items)) /\ Len(items) = N
  <2>1. items = [i \in 1 .. N |-> items[i]]
    BY <1>1
  <2> HIDE DEF items, N
  <2> QED BY <1>1, <2>1, Enumerated
<1>3. ASSUME NEW i \in 1 .. N
      PROVE  /\ items[i].citation = ix.passages[i]
             /\ items[i] \in S <=> ix.passages[i] \in T
  <2> DEFINE hints == Hints[ix.passages[i].quote]
  <2>1. items[i] = FamilyItem(ix, i) /\ items[i] \in Range(items) /\ ix.passages[i] \in Y
    BY <1>1 DEF Range
  <2>2. /\ items[i].citation = ix.passages[i]
        /\ items[i].domains = Hinted(hints.domains) /\ items[i].topics = Hinted(hints.topics)
    <3> DEFINE item == FamilyItem(ix, i)
    <3>1. /\ item.citation = ix.passages[i]
          /\ item.domains = Hinted(hints.domains) /\ item.topics = Hinted(hints.topics)
      BY DEF FamilyItem
    <3> HIDE DEF item, items
    <3> QED BY <2>1, <3>1 DEF item
  <2>3. /\ options.domain \in Hinted(hints.domains) \cup {None}
              <=> Fits(hints.domains, options.domain)
        /\ options.topic \in Hinted(hints.topics) \cup {None}
              <=> Fits(hints.topics, options.topic)
    BY DEF Hinted, Fits
  <2> HIDE DEF items, Y
  <2> QED BY <2>1, <2>2, <2>3 DEF AskedFor
<1>4. all = Those(ix.passages, T)
  BY DEF Wanted
<1>5. page.items = returned
      /\ page.next = IF Len(matching) > from + Len(returned) THEN from + Len(returned) ELSE None
  BY DEF FamilyReview
<1> HIDE DEF items, S, T, Y, N, page, all
<1>6. CitedBy(matching) = all
  BY <1>1, <1>2, <1>3, <1>4, ThoseAlike DEF N
<1>7. \E Z : matching \in Seq(Z)
  BY <1>2, Among
<1> HIDE DEF matching
<1>8. Len(all) = Len(matching) /\ Len(all) \in Nat
      /\ \A n \in 1 .. Len(matching) : all[n] = matching[n].citation
  BY <1>6, <1>7 DEF CitedBy
<1>9. last \in from .. Len(all) /\ from \in Nat
  <2>1. from + options.limit \in Nat /\ from \in Nat /\ from <= Len(matching)
        /\ from + options.limit >= from
    BY <1>8 DEF all
  <2>2. last \in {from + options.limit, Len(matching)} /\ last <= Len(matching)
    BY <2>1, <1>8, Smaller
  <2> HIDE DEF last
  <2> QED BY <1>8, <2>1, <2>2
<1> HIDE DEF last
<1>10. Len(returned) = last - from /\ DOMAIN returned = 1 .. last - from
       /\ \A n \in 1 .. last - from : returned[n] = matching[from + n]
  <2>1. PICK Z : matching \in Seq(Z)
    BY <1>7
  <2>2. last \in Nat /\ last >= from /\ last <= Len(matching) /\ from + 1 >= 1
    BY <1>8, <1>9
  <2>3. \A k \in from + 1 .. last : k \in 1 .. Len(matching)
    BY <1>9, <2>2
  <2> HIDE DEF from
  <2>4. returned \in Seq(Z) /\ Len(returned) = last - from
    BY <1>9, <2>1, <2>2, <2>3
  <2>5. \A n \in 1 .. last - from : returned[n] = matching[from + n]
    BY <1>9, <2>1, <2>2, <2>3
  <2> HIDE DEF returned
  <2> QED BY <2>4, <2>5
<1>11. CitedBy(returned) = SubSeq(all, from + 1, last)
  <2>1. CitedBy(returned) = [n \in 1 .. last - from |-> all[from + n]]
    <3>1. \A n \in 1 .. last - from : returned[n].citation = all[from + n]
      <4> TAKE n \in 1 .. last - from
      <4>1. from + n \in 1 .. Len(matching)
        BY <1>8, <1>9
      <4> HIDE DEF returned
      <4> QED BY <1>8, <1>10, <4>1
    <3> HIDE DEF returned
    <3> QED BY <1>10, <3>1 DEF CitedBy
  <2>2. SubSeq(all, from + 1, last) = [n \in 1 .. last - from |-> all[from + n]]
    <3>1. \E Z : all \in Seq(Z)
      <4>1. all = [n \in 1 .. Len(all) |-> all[n]]
        <5>1. DOMAIN all = 1 .. Len(matching)
          BY <1>6, <1>7 DEF CitedBy
        <5> QED BY <1>6, <1>8, <5>1 DEF CitedBy
      <4>2. \A n \in 1 .. Len(all) : all[n] \in Range(all)
        BY <4>1 DEF Range
      <4>3. all \in Seq(Range(all))
        BY <1>8, <4>1, <4>2
      <4> QED BY <4>3
    <3>2. \A k \in from + 1 .. last : k \in 1 .. Len(all)
      BY <1>8, <1>9
    <3>3. last - from \in Nat /\ last - (from + 1) + 1 = last - from
      BY <1>8, <1>9
    <3> HIDE DEF from
    <3> QED BY <1>8, <1>9, <3>1, <3>2, <3>3
  <2> QED BY <2>1, <2>2
<1>12. from + Len(returned) = last
  BY <1>9, <1>10, <1>8
<1> HIDE DEF returned
<1>13. page.next = IF Len(all) > last THEN last ELSE None
  BY <1>5, <1>8, <1>12
<1>14. CitedBy(page.items) = SubSeq(all, from + 1, last)
  BY <1>5, <1>11
<1> QED BY <1>9, <1>13, <1>14 DEF page, all

\* A review has shown the first passages that are asked for, and knows how many.
Paged(r, ix) ==
  /\ DOMAIN r.options = {"domain", "topic", "offset", "limit"}
  /\ r.options.limit \in Nat \ {0}
  /\ \E n \in 0 .. Len(Wanted(ix, r.options)) :
        /\ r.seen = SubSeq(Wanted(ix, r.options), 1, n)
        /\ r.next = IF Len(Wanted(ix, r.options)) > n THEN n ELSE None

LookupOK ==
  /\ scene \in Scenarios
  /\ document \in scene.documents
  /\ index # None => Indexed(index)
  /\ \A c \in cited : \E doc : Taken(doc, c)
  /\ review # None => index # None /\ Paged(review, index)

LEMMA WantedIs ==
  ASSUME NEW ix, Indexed(ix), NEW options
  PROVE  /\ Wanted(ix, options) \in Seq(Range(ix.passages))
         /\ Len(Wanted(ix, options)) \in Nat
<1>1. ix.passages \in Seq(Range(ix.passages))
  BY DEF Indexed
<1>2. Wanted(ix, options) \in Seq(Range(ix.passages))
  BY <1>1, Among DEF Wanted
<1> QED BY <1>2

LEMMA LookupInit == Init => LookupOK
  BY DEF Init, EvidenceInit, LookupOK

\* The document of a scenario is finite.
LEMMA DocumentIs ==
  ASSUME LookupOK PROVE Given(document)
  BY DocumentsAreGiven DEF LookupOK, Given

LEMMA OpenIndexStep ==
  ASSUME LookupOK, OpenIndex PROVE LookupOK'
<1>1. Given(document)
  BY DocumentIs
<1>2. index' # None /\ Indexed(index')
  BY <1>1, BuiltIsIndexed DEF OpenIndex
<1> QED BY <1>2 DEF OpenIndex, LookupOK, Spend

LEMMA AskStep ==
  ASSUME LookupOK, NEW question \in scene.questions, Ask(question) PROVE LookupOK'
<1> DEFINE fresh == BuildIndex(document)
<1>1. Given(document) /\ question.limit \in Nat /\ 1 \in Nat
  BY DocumentIs, LimitsAreGiven DEF LookupOK
<1>2. fresh # None
  BY DEF Ask
<1>3. Indexed(fresh)
  BY <1>1, <1>2, BuiltIsIndexed
<1>4. cited' \subseteq Range(fresh.passages)
  <2>1. cited' = AnswerDocumentQuestion(fresh, question, 1).context
    BY DEF Ask
  <2> HIDE DEF fresh
  <2> QED BY <1>1, <1>3, <2>1, AnswerIs
<1>5. \A c \in cited' : \E doc : Taken(doc, c)
  <2> HIDE DEF fresh
  <2> QED BY <1>3, <1>4 DEF Indexed
<1>6. UNCHANGED <<scene, document, index, review>>
  BY DEF Ask, Spend
<1> QED BY <1>5, <1>6 DEF LookupOK

\* The first window of a review.
LEMMA BeginReviewStep ==
  ASSUME LookupOK, NEW options \in scene.options, BeginReview(options) PROVE LookupOK'
<1> DEFINE all == Wanted(index, options)
           page == FamilyReview(index, options)
<1>1. /\ DOMAIN options = {"domain", "topic", "offset", "limit"}
      /\ options.limit \in Nat \ {0}
  BY LimitsAreGiven DEF LookupOK
<1>2. /\ Indexed(index) /\ index # None /\ options.offset = 0
      /\ review' = Window(options)
      /\ UNCHANGED <<scene, document, index, cited>>
  BY DEF BeginReview, LookupOK, Spend
<1>3. all \in Seq(Range(index.passages)) /\ Len(all) \in Nat
  BY <1>2, WantedIs
<1> HIDE DEF all
<1>4. PICK m \in options.offset .. Len(all) :
         /\ CitedBy(page.items) = SubSeq(all, options.offset + 1, m)
         /\ page.next = IF Len(all) > m THEN m ELSE None
  <2>1. options.offset \in 0 .. Len(all)
    BY <1>2, <1>3
  <2> QED BY <1>1, <1>2, <2>1, WindowIs DEF all
<1>5. m \in 0 .. Len(all) /\ CitedBy(page.items) = SubSeq(all, 1, m)
  BY <1>2, <1>4
<1>6. <<>> \o CitedBy(page.items) = CitedBy(page.items)
  <2>1. CitedBy(page.items) \in Seq(Range(index.passages))
    BY <1>3, <1>5
  <2> HIDE DEF page
  <2> QED BY <2>1
<1>7. review' = [options |-> options, seen |-> <<>> \o CitedBy(page.items), next |-> page.next]
  BY <1>2 DEF Window, CitedBy
<1> HIDE DEF page
<1>8. /\ review'.options = options /\ review'.seen = SubSeq(all, 1, m)
      /\ review'.next = IF Len(all) > m THEN m ELSE None
  BY <1>4, <1>5, <1>6, <1>7
<1>9. Paged(review', index)
  BY <1>1, <1>5, <1>8 DEF Paged, all
<1> QED BY <1>2, <1>9 DEF LookupOK

\* And every other one.
LEMMA NextWindowStep ==
  ASSUME NoneIsNothing, LookupOK, NextWindow PROVE LookupOK'
<1> DEFINE options == [review.options EXCEPT !.offset = review.next]
           all == Wanted(index, review.options)
           page == FamilyReview(index, options)
<1>1. /\ Indexed(index) /\ index # None /\ review # None /\ review.next # None
      /\ Paged(review, index) /\ review' = Window(options)
      /\ UNCHANGED <<scene, document, index, cited>>
  BY DEF NextWindow, LookupOK
<1>2. PICK n \in 0 .. Len(all) :
         /\ review.seen = SubSeq(all, 1, n)
         /\ review.next = IF Len(all) > n THEN n ELSE None
  BY <1>1 DEF Paged
<1>3. all \in Seq(Range(index.passages)) /\ Len(all) \in Nat
  BY <1>1, WantedIs
<1>4. review.next = n /\ Len(all) > n /\ n \in Nat
  BY <1>1, <1>2, <1>3
<1>5. /\ DOMAIN options = {"domain", "topic", "offset", "limit"}
      /\ options.limit \in Nat \ {0} /\ options.offset = n
      /\ options.domain = review.options.domain /\ options.topic = review.options.topic
  <2>1. DOMAIN review.options = {"domain", "topic", "offset", "limit"}
        /\ review.options.limit \in Nat \ {0}
    BY <1>1 DEF Paged
  <2> QED BY <1>4, <2>1
<1>6. Wanted(index, options) = all
  <2> HIDE DEF options
  <2> QED BY <1>5 DEF Wanted, AskedFor
<1> HIDE DEF all, options
<1>7. PICK m \in n .. Len(all) :
         /\ CitedBy(page.items) = SubSeq(all, n + 1, m)
         /\ page.next = IF Len(all) > m THEN m ELSE None
  <2>1. options.offset \in 0 .. Len(Wanted(index, options))
    BY <1>3, <1>4, <1>5, <1>6
  <2> QED BY <1>1, <1>5, <1>6, <2>1, WindowIs
<1>8. Window(options) = [options |-> options,
                         seen |-> (IF options.offset = 0 THEN <<>> ELSE review.seen)
                                  \o CitedBy(page.items),
                         next |-> page.next]
  BY DEF Window, CitedBy
<1> HIDE DEF page
<1>9. (IF options.offset = 0 THEN <<>> ELSE review.seen) \o CitedBy(page.items)
         = SubSeq(all, 1, m)
  <2>1. (IF options.offset = 0 THEN <<>> ELSE review.seen) = SubSeq(all, 1, n)
    <3>1. n = 0 => SubSeq(all, 1, n) = <<>>
      BY <1>3
    <3> QED BY <1>2, <1>5, <3>1
  <2>2. SubSeq(all, 1, n) \o SubSeq(all, n + 1, m) = SubSeq(all, 1, m)
    BY <1>3, <1>4, <1>7
  <2> QED BY <1>7, <2>1, <2>2
<1>10. /\ review'.options = options /\ review'.seen = SubSeq(all, 1, m)
       /\ review'.next = IF Len(all) > m THEN m ELSE None
  <2> DEFINE seen == (IF options.offset = 0 THEN <<>> ELSE review.seen) \o CitedBy(page.items)
  <2>1. review' = [options |-> options, seen |-> seen, next |-> page.next]
    BY <1>1, <1>8
  <2>2. seen = SubSeq(all, 1, m)
    BY <1>9
  <2> HIDE DEF seen
  <2> QED BY <1>7, <2>1, <2>2
<1>11. m \in 0 .. Len(all)
  BY <1>3, <1>4, <1>7
<1>12. Paged(review', index)
  BY <1>5, <1>6, <1>10, <1>11 DEF Paged
<1> QED BY <1>1, <1>12 DEF LookupOK

LEMMA AnnotateStep ==
  ASSUME LookupOK, Annotate PROVE LookupOK'
<1>1. /\ Indexed(index) /\ index # None
      /\ UNCHANGED <<scene, document, index, review>>
  BY DEF Annotate, LookupOK, Spend
<1>2. PICK i \in DOMAIN review.seen :
         Annotated(index, review.seen[i]) /\ cited' = {review.seen[i]}
  BY DEF Annotate
<1>3. review.seen[i] \in Range(index.passages)
  BY <1>2 DEF Annotated, ExplainCitation, Range
<1>4. \E doc : Taken(doc, review.seen[i])
  BY <1>1, <1>3 DEF Indexed
<1>5. \A c \in cited' : \E doc : Taken(doc, c)
  BY <1>2, <1>4
<1> QED BY <1>1, <1>5 DEF LookupOK

LEMMA LookupStep ==
  ASSUME NoneIsNothing, LookupOK, [Next]_vars PROVE LookupOK'
<1>1. CASE UNCHANGED <<scene, documentVars>>
  BY <1>1 DEF LookupOK, documentVars
<1>2. CASE ManifestNext /\ UNCHANGED <<evidenceVars, factVars>>
  <2>1. scene' = scene
    BY <1>2 DEF ManifestNext, EditSource, Extract, Export, Review, Alter, Reverify, AskAgent,
       Prepare, AskAnalysis, AskGuide, AskBatch, Spend
  <2> QED BY <1>1, <1>2, <2>1 DEF evidenceVars, documentVars
<1>3. CASE FactNext /\ UNCHANGED <<manifestVars, evidenceVars>>
  <2>1. scene' = scene
    BY <1>3 DEF FactNext, ChangeFacts, Evaluate, Tick, Spend
  <2> QED BY <1>1, <1>3, <2>1 DEF evidenceVars, documentVars
<1>4. ASSUME NEW doc \in scene.documents, ChangeDocument(doc) PROVE LookupOK'
  BY <1>4 DEF ChangeDocument, LookupOK, Spend
<1>5. ASSUME NEW sources \in scene.shelves, ChangeShelf(sources) PROVE LookupOK'
  BY <1>1, <1>5 DEF ChangeShelf, Spend
<1>6. ASSUME NEW i \in DOMAIN shelf, NEW quote \in scene.pinned, Pin(i, quote) PROVE LookupOK'
  BY <1>1, <1>6 DEF Pin, Spend
<1>7. ASSUME BeginCheck \/ StepCheck \/ Abort PROVE LookupOK'
  BY <1>1, <1>7 DEF BeginCheck, StepCheck, Abort, Spend
<1>8. CASE EvidenceNext
  BY <1>4, <1>5, <1>6, <1>7, <1>8, OpenIndexStep, AskStep, BeginReviewStep, NextWindowStep,
     AnnotateStep DEF EvidenceNext
<1>9. CASE UNCHANGED vars
  BY <1>1, <1>9 DEF vars, evidenceVars, documentVars
<1> QED BY <1>2, <1>3, <1>8, <1>9 DEF Next

\* A kept citation is confirmed exactly by a document with the snapshot it was taken from, and a
\* review whose next offset is empty has shown every passage that it was asked for, once and in
\* the order of the document (document-query.ts, family-review.ts).
THEOREM CitationsStayTrue ==
  ASSUME NoneIsNothing PROVE Spec => []CitationsHold
<1>1. LookupOK => CitationsHold
  <2> SUFFICES ASSUME LookupOK PROVE CitationsHold
    OBVIOUS
  <2>1. \A c \in cited : VerifyCitation(document, c) <=> Snapshot(document) = c.snapshot
    BY TakenIsConfirmed DEF LookupOK
  <2>2. ASSUME review # None, review.next = None
        PROVE  review.seen = Wanted(index, review.options)
    <3> DEFINE all == Wanted(index, review.options)
    <3>1. Indexed(index) /\ Paged(review, index)
      BY <2>2 DEF LookupOK
    <3>2. PICK n \in 0 .. Len(all) :
             /\ review.seen = SubSeq(all, 1, n)
             /\ review.next = IF Len(all) > n THEN n ELSE None
      BY <3>1 DEF Paged
    <3>3. all \in Seq(Range(index.passages)) /\ Len(all) \in Nat
      BY <3>1, WantedIs
    <3> HIDE DEF all
    <3>4. n = Len(all)
      <4>1. n \in Nat
        BY <3>3
      <4> QED BY <2>2, <3>2, <3>3, <4>1 DEF NoneIsNothing
    <3>5. SubSeq(all, 1, Len(all)) = all
      BY <3>3
    <3> QED BY <3>2, <3>4, <3>5 DEF all
  <2> QED BY <2>1, <2>2 DEF CitationsHold, Wanted
<1>2. Spec => []LookupOK
  <2>1. LookupOK /\ [Next]_vars => LookupOK'
    BY LookupStep
  <2> QED BY <2>1, LookupInit, PTL DEF Spec
<1> QED BY <1>1, <1>2, PTL

-----------------------------------------------------------------------------
(* What a freshness check knows of the sources.                              *)

\* What is known after each of the sources has been read.
KnownAt(sources, known, k) ==
  IF k = 0 THEN NewCheck.known ELSE Noted(known[k-1], sources[k])

KnownTo(sources, n, known) == known = [k \in 0 .. n |-> KnownAt(sources, known, k)]

LEMMA KnownExists ==
  ASSUME NEW sources, Len(sources) \in Nat
  PROVE  \E known : KnownTo(sources, Len(sources), known)
<1> DEFINE Bad == {n \in 0 .. Len(sources) : ~ \E known : KnownTo(sources, n, known)}
<1> SUFFICES ASSUME Bad # {} PROVE FALSE
  OBVIOUS
<1>1. PICK n \in Bad : \A j \in Bad : n <= j
  <2>1. Bad \in SUBSET Nat
    OBVIOUS
  <2> HIDE DEF Bad
  <2> QED BY <2>1, Minimum
<1>2. n \in 0 .. Len(sources)
  OBVIOUS
<1>3. CASE n = 0
  <2> DEFINE known == [k \in 0 .. 0 |-> NewCheck.known]
  <2>1. known = [k \in 0 .. n |-> KnownAt(sources, known, k)]
    BY <1>3 DEF KnownAt
  <2> QED BY <2>1 DEF KnownTo
<1>4. CASE n # 0
  <2>1. n - 1 \in 0 .. Len(sources) /\ n - 1 \notin Bad
    BY <1>1, <1>2, <1>4
  <2>2. PICK known : KnownTo(sources, n - 1, known)
    BY <2>1
  <2> DEFINE more == [k \in 0 .. n |-> IF k = n THEN KnownAt(sources, known, n) ELSE known[k]]
  <2>3. \A k \in 0 .. n : KnownAt(sources, more, k) = KnownAt(sources, known, k)
    <3> TAKE k \in 0 .. n
    <3>1. k # 0 => more[k-1] = known[k-1]
      BY <1>2, <1>4
    <3> QED BY <3>1 DEF KnownAt
  <2>4. \A k \in 0 .. n : more[k] = KnownAt(sources, known, k)
    BY <2>2, <1>2, <1>4 DEF KnownTo
  <2>5. more = [k \in 0 .. n |-> KnownAt(sources, more, k)]
    BY <2>3, <2>4
  <2> HIDE DEF more
  <2> QED BY <2>5 DEF KnownTo
<1> QED BY <1>3, <1>4

LEMMA AllKnownIs ==
  ASSUME NEW sources, Len(sources) \in Nat
  PROVE  /\ AllKnown(sources)[0] = NewCheck.known
         /\ \A n \in 0 .. Len(sources) - 1 :
               AllKnown(sources)[n+1] = Noted(AllKnown(sources)[n], sources[n+1])
<1> DEFINE known == AllKnown(sources)
<1>1. known = CHOOSE some : some = [k \in 0 .. Len(sources) |-> KnownAt(sources, some, k)]
  BY DEF AllKnown, KnownAt
<1>2. known = [k \in 0 .. Len(sources) |-> KnownAt(sources, known, k)]
  BY <1>1, KnownExists DEF KnownTo
<1> HIDE DEF known
<1>3. known[0] = KnownAt(sources, known, 0)
  BY <1>2
<1>4. ASSUME NEW n \in 0 .. Len(sources) - 1
      PROVE  known[n+1] = Noted(known[n], sources[n+1])
  <2>1. n + 1 \in 0 .. Len(sources) /\ n + 1 # 0 /\ (n + 1) - 1 = n
    OBVIOUS
  <2>2. known[n+1] = KnownAt(sources, known, n+1)
    BY <1>2, <2>1
  <2> QED BY <2>1, <2>2 DEF KnownAt
<1> QED BY <1>3, <1>4 DEF KnownAt, known

\* Of each id, known is the only one of the first n sources that has it.
KnownIs(known, sources, n) ==
  /\ DOMAIN known = {sources[k].id : k \in 1 .. n}
  /\ \A id \in DOMAIN known : known[id] # None =>
        \E k \in 1 .. n : /\ sources[k].id = id /\ known[id] = sources[k]
                          /\ \A j \in 1 .. n : sources[j].id = id => j = k

\* Noting one more source keeps known to the sources that are alone with their id.
LEMMA NotedIs ==
  ASSUME NEW known, NEW sources, NEW n \in Nat, KnownIs(known, sources, n)
  PROVE  KnownIs(Noted(known, sources[n+1]), sources, n + 1)
<1> DEFINE new == Noted(known, sources[n+1])
           entry == sources[n+1]
<1>1. 1 .. n+1 = (1 .. n) \cup {n+1} /\ n + 1 \notin 1 .. n
  OBVIOUS
<1>2. DOMAIN new = DOMAIN known \cup {entry.id}
  BY DEF Noted
<1>3. DOMAIN new = {sources[k].id : k \in 1 .. n+1}
  BY <1>1, <1>2 DEF KnownIs
<1>4. ASSUME NEW id \in DOMAIN new, new[id] # None
      PROVE  \E k \in 1 .. n+1 : /\ sources[k].id = id /\ new[id] = sources[k]
                                /\ \A j \in 1 .. n+1 : sources[j].id = id => j = k
  <2>1. CASE id = entry.id
    <3>1. id \notin DOMAIN known /\ new[id] = entry
      BY <1>2, <1>4, <2>1 DEF Noted
    <3>2. \A j \in 1 .. n : sources[j].id # id
      BY <3>1 DEF KnownIs
    <3>3. \A j \in 1 .. n+1 : sources[j].id = id => j = n+1
      BY <1>1, <3>2
    <3> QED BY <1>1, <2>1, <3>1, <3>3
  <2>2. CASE id # entry.id
    <3>1. id \in DOMAIN known /\ new[id] = known[id]
      BY <1>2, <2>2 DEF Noted
    <3>2. PICK k \in 1 .. n : /\ sources[k].id = id /\ known[id] = sources[k]
                              /\ \A j \in 1 .. n : sources[j].id = id => j = k
      BY <1>4, <3>1 DEF KnownIs
    <3>3. \A j \in 1 .. n+1 : sources[j].id = id => j = k
      BY <1>1, <2>2, <3>2
    <3> QED BY <1>1, <3>1, <3>2, <3>3
  <2> QED BY <2>1, <2>2
<1> HIDE DEF new
<1>5. KnownIs(new, sources, n + 1)
  BY <1>3, <1>4 DEF KnownIs
<1> QED BY <1>5 DEF new

-----------------------------------------------------------------------------
\* The sources of a shelf that hold the text of a pin.
HeldBy(sources, pin) ==
  {k \in DOMAIN sources : /\ sources[k].id = pin.source
                          /\ sources[k].text = pin.text
                          /\ ~sources[k].deleted}

\* The quote is in the pinned text, and a shelf of this check had that text.
Vouched(pin) ==
  /\ pin.quote \in ToSet(pin.text)
  /\ \E sources \in held : HeldBy(sources, pin) # {}

Reasons == {"cancelled", "missing_source", "ambiguous_source", "deleted_source",
            "changed_source", "fresh", "quote_missing"}

\* What a check has read and found so far.
Reading ==
  /\ check = [read |-> check.read, known |-> check.known,
              results |-> check.results, ended |-> check.ended]
  /\ check.read \in 0 .. Len(shelf) /\ check.ended \in BOOLEAN
  /\ check.results \in Seq(Reasons)
  /\ Len(check.results) <= Len(pins)
  /\ check.ended => Len(check.results) = Len(pins)
  /\ ~aborted /\ Len(check.results) > 0 => check.read = Len(shelf)

Found ==
  /\ \A id \in DOMAIN check.known : check.known[id] # None =>
        \E sources \in held : \E k \in DOMAIN sources :
            sources[k].id = id /\ sources[k] = check.known[id]
  /\ \A i \in DOMAIN check.results : check.results[i] = "fresh" => Vouched(pins[i])
  /\ ~aborted => \A i \in DOMAIN check.results :
                    check.results[i] = FreshnessReason(check.known, pins[i], FALSE)
  /\ check.ended /\ aborted => \A i \in DOMAIN check.results : check.results[i] # "fresh"

\* As long as nobody changed the shelf, known is what reading it in order gives.
Undisturbed ==
  held = {shelf} => /\ check.known = AllKnown(shelf)[check.read]
                    /\ KnownIs(check.known, shelf, check.read)

(* The inductive invariant of a freshness check.                            *)
CheckOK ==
  /\ scene \in Scenarios /\ shelf \in scene.shelves
  /\ pins \in Seq(Range(pins)) /\ Len(pins) \in Nat
  /\ aborted \in BOOLEAN
  /\ check # None => /\ Len(pins) > 0 /\ shelf \in held
                     /\ Reading /\ Found /\ Undisturbed

LEMMA ReasonsAre ==
  ASSUME NEW known, NEW pin, NEW off
  PROVE  FreshnessReason(known, pin, off) \in Reasons
  BY DEF FreshnessReason, Reasons

LEMMA ShelfIs ==
  ASSUME NEW sources \in scene.shelves, CheckOK
  PROVE  Len(sources) \in Nat /\ DOMAIN sources = 1 .. Len(sources)
  BY ShelvesAreGiven DEF CheckOK

\* A pin is only called fresh from a source that some shelf of this check had.
LEMMA FreshIsVouched ==
  ASSUME CheckOK, check # None, NEW pin, FreshnessReason(check.known, pin, FALSE) = "fresh"
  PROVE  Vouched(pin)
<1>1. /\ pin.source \in DOMAIN check.known /\ check.known[pin.source] # None
      /\ ~check.known[pin.source].deleted /\ check.known[pin.source].text = pin.text
      /\ Quotes(check.known[pin.source].text, pin.quote)
  BY DEF FreshnessReason
<1>2. PICK sources \in held : \E k \in DOMAIN sources :
         sources[k].id = pin.source /\ sources[k] = check.known[pin.source]
  BY <1>1 DEF CheckOK, Found
<1> QED BY <1>1, <1>2 DEF Vouched, HeldBy, Quotes

\* The invariant gives the property.
LEMMA CheckMeans ==
  ASSUME CheckOK PROVE EvidenceIsCurrent
<1> SUFFICES ASSUME check # None, check.ended PROVE EvidenceIsCurrent
  BY DEF EvidenceIsCurrent
<1>1. /\ shelf \in held /\ Reading /\ Found /\ Undisturbed /\ Len(pins) \in Nat /\ Len(pins) > 0
      /\ DOMAIN pins = 1 .. Len(pins) /\ Len(shelf) \in Nat /\ DOMAIN shelf = 1 .. Len(shelf)
  BY ShelfIs DEF CheckOK
<1>2. DOMAIN check.results = DOMAIN pins /\ check.results = [i \in DOMAIN pins |-> check.results[i]]
  BY <1>1 DEF Reading
<1>3. ~aborted => check.read = Len(shelf)
  BY <1>1 DEF Reading
<1>4. ASSUME NEW i \in DOMAIN pins, check.results[i] = "fresh"
      PROVE  /\ ~aborted /\ Vouched(pins[i])
             /\ held = {shelf} => \E k \in DOMAIN shelf :
                   /\ {j \in DOMAIN shelf : shelf[j].id = pins[i].source} = {k}
                   /\ HeldBy(shelf, pins[i]) = {k}
  <2>1. ~aborted /\ Vouched(pins[i])
    BY <1>1, <1>2, <1>4 DEF Found
  <2>2. ASSUME held = {shelf}
        PROVE  \E k \in DOMAIN shelf : /\ {j \in DOMAIN shelf : shelf[j].id = pins[i].source} = {k}
                                      /\ HeldBy(shelf, pins[i]) = {k}
    <3>1. FreshnessReason(check.known, pins[i], FALSE) = "fresh"
      BY <1>1, <1>2, <1>4, <2>1 DEF Found
    <3>2. /\ pins[i].source \in DOMAIN check.known /\ check.known[pins[i].source] # None
          /\ ~check.known[pins[i].source].deleted /\ check.known[pins[i].source].text = pins[i].text
      BY <3>1 DEF FreshnessReason
    <3>3. KnownIs(check.known, shelf, Len(shelf))
      BY <1>1, <1>3, <2>1, <2>2 DEF Undisturbed
    <3>4. PICK k \in 1 .. Len(shelf) :
             /\ shelf[k].id = pins[i].source /\ check.known[pins[i].source] = shelf[k]
             /\ \A j \in 1 .. Len(shelf) : shelf[j].id = pins[i].source => j = k
      BY <3>2, <3>3 DEF KnownIs
    <3> QED BY <1>1, <3>2, <3>4 DEF HeldBy
  <2> QED BY <2>1, <2>2
<1>5. ASSUME held = {shelf}, ~aborted PROVE check.results = CheckAtOnce(pins, shelf)
  <2>1. check.known = AllKnown(shelf)[Len(shelf)]
    BY <1>1, <1>3, <1>5 DEF Undisturbed
  <2>2. \A i \in DOMAIN pins : check.results[i] = FreshnessReason(check.known, pins[i], FALSE)
    BY <1>1, <1>2, <1>5 DEF Found
  <2>3. \A i \in DOMAIN pins :
           check.results[i] = FreshnessReason(AllKnown(shelf)[Len(shelf)], pins[i], FALSE)
    BY <2>1, <2>2
  <2> QED BY <1>2, <2>3 DEF CheckAtOnce
<1>6. \A k : Cardinality({k}) = 1
  BY FS_Singleton
<1>7. ASSUME NEW i \in DOMAIN pins, check.results[i] = "fresh"
      PROVE  /\ ~aborted
             /\ pins[i].quote \in ToSet(pins[i].text)
             /\ \E sources \in held : HeldBy(sources, pins[i]) # {}
             /\ held = {shelf} =>
                   /\ HeldBy(shelf, pins[i]) = {k \in DOMAIN shelf : shelf[k].id = pins[i].source}
                   /\ Cardinality({k \in DOMAIN shelf : shelf[k].id = pins[i].source}) = 1
  BY <1>4, <1>6, <1>7 DEF Vouched
<1> QED BY <1>5, <1>7 DEF EvidenceIsCurrent, HeldBy

LEMMA PinStep ==
  ASSUME CheckOK, NEW i \in DOMAIN shelf, NEW quote, Pin(i, quote) PROVE CheckOK'
<1> DEFINE pin == PinEvidence(shelf[i], quote)
<1>1. /\ check = None /\ pins' = Append(pins, pin)
      /\ UNCHANGED <<scene, shelf, check, aborted, held>>
  BY DEF Pin, Spend
<1> HIDE DEF pin
<1>2. Len(pins') = Len(pins) + 1 /\ Len(pins) \in Nat /\ pins \in Seq(Range(pins) \cup {pin})
  BY <1>1 DEF CheckOK
<1>3. pins' \in Seq(Range(pins) \cup {pin})
  BY <1>1, <1>2
<1>4. \A k \in 1 .. Len(pins') : pins'[k] \in Range(pins')
  <2>1. DOMAIN pins' = 1 .. Len(pins')
    BY <1>3
  <2> QED BY <2>1 DEF Range
<1>5. pins' \in Seq(Range(pins')) /\ Len(pins') \in Nat
  <2>1. pins' = [k \in 1 .. Len(pins') |-> pins'[k]] /\ Len(pins') \in Nat
    BY <1>3
  <2> QED BY <1>4, <2>1
<1> QED BY <1>1, <1>5 DEF CheckOK

LEMMA BeginStep ==
  ASSUME CheckOK, BeginCheck PROVE CheckOK'
<1>1. /\ check = None /\ pins # <<>> /\ check' = NewCheck /\ held' = {shelf}
      /\ UNCHANGED <<scene, shelf, pins, aborted>>
  BY DEF BeginCheck
<1>2. /\ check'.read = 0 /\ check'.known = <<>> /\ check'.results = <<>> /\ check'.ended = FALSE
      /\ check' = [read |-> 0, known |-> <<>>, results |-> <<>>, ended |-> FALSE]
  BY <1>1 DEF NewCheck
<1>3. Len(shelf) \in Nat /\ Len(pins) \in Nat /\ Len(pins) > 0
  <2>1. Len(pins) # 0
    BY <1>1 DEF CheckOK
  <2> QED BY <2>1, ShelfIs DEF CheckOK
<1>4. Reading'
  BY <1>1, <1>2, <1>3 DEF Reading
<1>5. Found'
  BY <1>1, <1>2 DEF Found, CheckOK
<1>6. Undisturbed'
  <2>1. AllKnown(shelf)[0] = <<>>
    BY <1>3, AllKnownIs DEF NewCheck
  <2>2. KnownIs(<<>>, shelf, 0)
    BY DEF KnownIs
  <2> QED BY <1>1, <1>2, <2>1, <2>2 DEF Undisturbed
<1> QED BY <1>1, <1>3, <1>4, <1>5, <1>6 DEF CheckOK

LEMMA ChangeShelfStep ==
  ASSUME CheckOK, NEW sources \in scene.shelves, ChangeShelf(sources) PROVE CheckOK'
<1>1. /\ Len(sources) = Len(shelf) /\ shelf' = sources /\ held' = held \cup {sources}
      /\ UNCHANGED <<scene, pins, check, aborted>>
  BY DEF ChangeShelf, Spend
<1>2. ASSUME check # None PROVE shelf' \in held' /\ Reading' /\ Found' /\ Undisturbed'
  <2>1. shelf \in held /\ Reading /\ Found /\ Undisturbed
    BY <1>2 DEF CheckOK
  <2>2. Reading'
    BY <1>1, <2>1 DEF Reading
  <2>3. \A i \in DOMAIN check.results : Vouched(pins[i]) => Vouched(pins[i])'
    BY <1>1 DEF Vouched
  <2>4. /\ \A id \in DOMAIN check'.known : check'.known[id] # None =>
              \E some \in held' : \E k \in DOMAIN some :
                  some[k].id = id /\ some[k] = check'.known[id]
        /\ \A i \in DOMAIN check'.results : check'.results[i] = "fresh" => Vouched(pins[i])'
    BY <1>1, <2>1, <2>3 DEF Found
  <2>5. Found'
    BY <1>1, <2>1, <2>4 DEF Found
  <2>6. held' = {shelf'} => shelf' = shelf /\ held = {shelf}
    BY <1>1, <2>1
  <2>7. Undisturbed'
    BY <1>1, <2>1, <2>6 DEF Undisturbed
  <2> QED BY <1>1, <2>2, <2>5, <2>7
<1> QED BY <1>1, <1>2 DEF CheckOK

LEMMA AbortStep ==
  ASSUME CheckOK, Abort PROVE CheckOK'
<1>1. /\ check # None /\ ~check.ended /\ aborted' = TRUE
      /\ UNCHANGED <<scene, shelf, pins, check, held>>
  BY DEF Abort, Spend
<1>2. Reading' /\ Undisturbed'
  BY <1>1 DEF CheckOK, Reading, Undisturbed
<1>3. Found'
  BY <1>1 DEF CheckOK, Found, Vouched
<1> QED BY <1>1, <1>2, <1>3 DEF CheckOK

LEMMA ReadSourceStep ==
  ASSUME CheckOK, check # None, ~check.ended, UNCHANGED <<scene, shelf, pins, aborted, held>>,
         check.read < Len(shelf), check.results = <<>>, ~aborted,
         check' = ReadSource(check, shelf[check.read + 1])
  PROVE  CheckOK'
<1> DEFINE entry == shelf[check.read + 1]
<1>1. /\ shelf \in held /\ Reading /\ Found /\ Undisturbed /\ Len(shelf) \in Nat /\ Len(pins) > 0
      /\ DOMAIN shelf = 1 .. Len(shelf) /\ check.read \in Nat /\ check.read + 1 \in DOMAIN shelf
  BY ShelfIs DEF CheckOK, Reading
<1>2. /\ check'.read = check.read + 1 /\ check'.known = Noted(check.known, entry)
      /\ check'.results = check.results /\ check'.ended = check.ended
      /\ check' = [read |-> check'.read, known |-> check'.known,
                   results |-> check'.results, ended |-> check'.ended]
  BY <1>1 DEF ReadSource, Reading
<1>3. Reading'
  BY <1>1, <1>2 DEF Reading
<1>4. Found'
  <2>1. ASSUME NEW id \in DOMAIN check'.known, check'.known[id] # None
        PROVE  \E sources \in held : \E k \in DOMAIN sources :
                  sources[k].id = id /\ sources[k] = check'.known[id]
    <3>1. CASE id = entry.id
      <4>1. check'.known[id] = entry
        BY <1>2, <2>1, <3>1 DEF Noted
      <4> QED BY <1>1, <3>1, <4>1
    <3>2. CASE id # entry.id
      <4>1. id \in DOMAIN check.known /\ check'.known[id] = check.known[id]
        BY <1>2, <3>2 DEF Noted
      <4> QED BY <1>1, <2>1, <4>1 DEF Found
    <3> QED BY <3>1, <3>2
  <2>2. check'.results = <<>>
    BY <1>2
  <2> QED BY <2>1, <2>2 DEF Found
<1>5. Undisturbed'
  <2> SUFFICES ASSUME held = {shelf}
               PROVE  /\ check'.known = AllKnown(shelf)[check.read + 1]
                      /\ KnownIs(check'.known, shelf, check.read + 1)
    BY <1>2 DEF Undisturbed
  <2>1. check.known = AllKnown(shelf)[check.read] /\ KnownIs(check.known, shelf, check.read)
    BY <1>1 DEF Undisturbed
  <2>2. check.read \in 0 .. Len(shelf) - 1
    BY <1>1
  <2>3. AllKnown(shelf)[check.read + 1] = Noted(AllKnown(shelf)[check.read], shelf[check.read + 1])
    BY <1>1, <2>2, AllKnownIs
  <2> QED BY <1>1, <1>2, <2>1, <2>3, NotedIs
<1> QED BY <1>1, <1>3, <1>4, <1>5 DEF CheckOK

LEMMA ReadPinStep ==
  ASSUME CheckOK, check # None, ~check.ended, UNCHANGED <<scene, shelf, pins, aborted, held>>,
         check.read < Len(shelf) /\ check.results = <<>> => aborted,
         Len(check.results) < Len(pins),
         check' = ReadPin(check, pins[Len(check.results) + 1], aborted)
  PROVE  CheckOK'
<1> DEFINE next == Len(check.results) + 1
           reason == FreshnessReason(check.known, pins[next], aborted)
<1>1. /\ shelf \in held /\ Reading /\ Found /\ Undisturbed /\ Len(shelf) \in Nat
      /\ Len(pins) > 0 /\ Len(pins) \in Nat /\ DOMAIN pins = 1 .. Len(pins) /\ check.read \in Nat
      /\ check.results \in Seq(Reasons) /\ aborted \in BOOLEAN
  BY ShelfIs DEF CheckOK, Reading
<1>2. /\ check'.read = check.read /\ check'.known = check.known
      /\ check'.results = Append(check.results, reason) /\ check'.ended = check.ended
      /\ check' = [read |-> check'.read, known |-> check'.known,
                   results |-> check'.results, ended |-> check'.ended]
  BY <1>1 DEF ReadPin, Reading
<1>3. reason \in Reasons
  BY ReasonsAre
<1>4. /\ Len(check.results) \in Nat /\ next \in DOMAIN pins
      /\ check'.results \in Seq(Reasons) /\ Len(check'.results) = next
      /\ DOMAIN check'.results = 1 .. next /\ check'.results[next] = reason
      /\ \A i \in 1 .. Len(check.results) : check'.results[i] = check.results[i]
      /\ DOMAIN check.results = 1 .. Len(check.results)
      /\ 1 .. next = (1 .. Len(check.results)) \cup {next}
  <2> HIDE DEF reason
  <2> QED BY <1>1, <1>2, <1>3
<1>5. ~aborted => check.read = Len(shelf)
  <2>1. Len(check.results) = 0 => check.results = <<>>
    BY <1>1
  <2> QED BY <1>1, <1>4, <2>1 DEF Reading
<1>7. reason = "fresh" => ~aborted
  BY DEF FreshnessReason
<1>0. ~aborted => reason = FreshnessReason(check.known, pins[next], FALSE)
  BY DEF FreshnessReason
<1> HIDE DEF reason, next
<1>6. Reading'
  <2>1. next <= Len(pins)
    BY <1>1, <1>4 DEF next
  <2> QED BY <1>1, <1>2, <1>4, <1>5, <2>1 DEF Reading
<1>8. ASSUME NEW i \in DOMAIN check'.results, check'.results[i] = "fresh"
      PROVE  Vouched(pins[i])
  <2>1. CASE i = next
    BY <1>0, <1>1, <1>4, <1>7, <1>8, <2>1, FreshIsVouched
  <2>2. CASE i # next
    BY <1>1, <1>4, <1>8, <2>2 DEF Found
  <2> QED BY <2>1, <2>2
<1>9. ASSUME ~aborted, NEW i \in DOMAIN check'.results
      PROVE  check'.results[i] = FreshnessReason(check.known, pins[i], FALSE)
  <2>1. CASE i = next
    BY <1>0, <1>4, <1>9, <2>1
  <2>2. CASE i # next
    <3>1. i \in DOMAIN check.results /\ check'.results[i] = check.results[i]
      BY <1>4, <2>2
    <3> QED BY <1>1, <1>9, <3>1 DEF Found
  <2> QED BY <2>1, <2>2
<1>10. Found'
  <2> HIDE DEF reason, next
  <2>1. \A i : Vouched(pins[i]) => Vouched(pins[i])'
    BY DEF Vouched
  <2>2. \A i \in DOMAIN check'.results : check'.results[i] = "fresh" => Vouched(pins[i])'
    BY <1>8, <2>1
  <2>3. ~aborted' => \A i \in DOMAIN check'.results :
           check'.results[i] = FreshnessReason(check'.known, pins'[i], FALSE)
    BY <1>2, <1>9
  <2>4. ~check'.ended
    BY <1>2
  <2>5. \A id \in DOMAIN check'.known : check'.known[id] # None =>
           \E sources \in held' : \E k \in DOMAIN sources :
               sources[k].id = id /\ sources[k] = check'.known[id]
    BY <1>1, <1>2 DEF Found
  <2> QED BY <2>2, <2>3, <2>4, <2>5 DEF Found
<1>11. Undisturbed'
  BY <1>1, <1>2 DEF Undisturbed
<1> QED BY <1>1, <1>6, <1>10, <1>11 DEF CheckOK

LEMMA EndStep ==
  ASSUME CheckOK, check # None, ~check.ended, UNCHANGED <<scene, shelf, pins, aborted, held>>,
         ~(Len(check.results) < Len(pins)), check' = EndCheck(check, aborted)
  PROVE  CheckOK'
<1> DEFINE results == IF aborted THEN [i \in DOMAIN check.results |-> "cancelled"] ELSE check.results
<1>1. /\ shelf \in held /\ Reading /\ Found /\ Undisturbed /\ Len(shelf) \in Nat
      /\ Len(pins) > 0 /\ Len(pins) \in Nat /\ check.results \in Seq(Reasons) /\ aborted \in BOOLEAN
      /\ Len(check.results) = Len(pins) /\ DOMAIN check.results = 1 .. Len(pins)
  BY ShelfIs DEF CheckOK, Reading
<1>2. /\ check'.read = check.read /\ check'.known = check.known
      /\ check'.results = results /\ check'.ended = TRUE
      /\ check' = [read |-> check'.read, known |-> check'.known,
                   results |-> check'.results, ended |-> check'.ended]
  BY <1>1 DEF EndCheck, Reading
<1>3. /\ results \in Seq(Reasons) /\ Len(results) = Len(pins) /\ DOMAIN results = DOMAIN check.results
      /\ aborted => \A i \in DOMAIN results : results[i] = "cancelled"
      /\ ~aborted => results = check.results
  <2>1. CASE aborted
    <3>1. results = [i \in 1 .. Len(pins) |-> "cancelled"]
      BY <1>1, <2>1
    <3>2. "cancelled" \in Reasons
      BY DEF Reasons
    <3> QED BY <1>1, <2>1, <3>1, <3>2
  <2>2. CASE ~aborted
    BY <1>1, <2>2
  <2> QED BY <2>1, <2>2
<1> HIDE DEF results
<1>4. Reading'
  BY <1>1, <1>2, <1>3 DEF Reading
<1>5. Found'
  <2>1. \A i : Vouched(pins[i]) => Vouched(pins[i])'
    BY DEF Vouched
  <2>2. \A i \in DOMAIN check'.results : check'.results[i] = "fresh" => Vouched(pins[i])'
    BY <1>1, <1>2, <1>3, <2>1 DEF Found
  <2>3. ~aborted' => \A i \in DOMAIN check'.results :
           check'.results[i] = FreshnessReason(check'.known, pins'[i], FALSE)
    BY <1>1, <1>2, <1>3 DEF Found
  <2>4. aborted' => \A i \in DOMAIN check'.results : check'.results[i] # "fresh"
    BY <1>2, <1>3
  <2>5. \A id \in DOMAIN check'.known : check'.known[id] # None =>
           \E sources \in held' : \E k \in DOMAIN sources :
               sources[k].id = id /\ sources[k] = check'.known[id]
    BY <1>1, <1>2 DEF Found
  <2> QED BY <2>2, <2>3, <2>4, <2>5 DEF Found
<1>6. Undisturbed'
  BY <1>1, <1>2 DEF Undisturbed
<1> QED BY <1>1, <1>4, <1>5, <1>6 DEF CheckOK

LEMMA CheckStep ==
  ASSUME CheckOK, [Next]_vars PROVE CheckOK'
<1>1. CASE \E i \in DOMAIN shelf, quote \in scene.pinned : Pin(i, quote)
  BY <1>1, PinStep
<1>2. CASE BeginCheck
  BY <1>2, BeginStep
<1>3. CASE \E sources \in scene.shelves : ChangeShelf(sources)
  BY <1>3, ChangeShelfStep
<1>4. CASE Abort
  BY <1>4, AbortStep
<1>5. CASE StepCheck
  <2>1. check # None /\ ~check.ended /\ UNCHANGED <<scene, shelf, pins, aborted, held>>
    BY <1>5 DEF StepCheck
  <2>2. CASE check.read < Len(shelf) /\ check.results = <<>> /\ ~aborted
    BY <1>5, <2>1, <2>2, ReadSourceStep DEF StepCheck
  <2>3. CASE ~(check.read < Len(shelf) /\ check.results = <<>> /\ ~aborted) /\ Len(check.results) < Len(pins)
    BY <1>5, <2>1, <2>3, ReadPinStep DEF StepCheck
  <2>4. CASE ~(check.read < Len(shelf) /\ check.results = <<>> /\ ~aborted) /\ ~(Len(check.results) < Len(pins))
    BY <1>5, <2>1, <2>4, EndStep DEF StepCheck
  <2> QED BY <2>2, <2>3, <2>4
<1>6. ASSUME UNCHANGED <<scene, shelfVars>> PROVE CheckOK'
  <2>1. UNCHANGED <<scene, shelf, pins, check, aborted, held>>
    BY <1>6 DEF shelfVars
  <2>2. Reading = Reading' /\ Undisturbed = Undisturbed'
    BY <2>1 DEF Reading, Undisturbed
  <2>3. Found => Found'
    <3> SUFFICES ASSUME Found PROVE Found'
      OBVIOUS
    <3>1. \A i \in DOMAIN check'.results : check'.results[i] = "fresh" => Vouched(pins[i])'
      BY <2>1 DEF Found, Vouched
    <3>2. \A id \in DOMAIN check'.known : check'.known[id] # None =>
             \E sources \in held' : \E k \in DOMAIN sources :
                 sources[k].id = id /\ sources[k] = check'.known[id]
      BY <2>1 DEF Found
    <3>3. ~aborted' => \A i \in DOMAIN check'.results :
                          check'.results[i] = FreshnessReason(check'.known, pins'[i], FALSE)
      BY <2>1 DEF Found
    <3>4. check'.ended /\ aborted' => \A i \in DOMAIN check'.results : check'.results[i] # "fresh"
      BY <2>1 DEF Found
    <3> QED BY <3>1, <3>2, <3>3, <3>4 DEF Found
  <2> QED BY <2>1, <2>2, <2>3 DEF CheckOK
<1>7. CASE \/ \E doc \in scene.documents : ChangeDocument(doc)
           \/ OpenIndex \/ \E question \in scene.questions : Ask(question)
           \/ \E options \in scene.options : BeginReview(options)
           \/ NextWindow \/ Annotate
  BY <1>6, <1>7 DEF ChangeDocument, OpenIndex, Ask, BeginReview, NextWindow, Annotate, Spend
<1>8. CASE ManifestNext /\ UNCHANGED <<evidenceVars, factVars>>
  BY <1>6, <1>8 DEF ManifestNext, EditSource, Extract, Export, Review, Alter, Reverify, AskAgent,
     Prepare, AskAnalysis, AskGuide, AskBatch, PutOut, Spend, evidenceVars, shelfVars
<1>9. CASE FactNext /\ UNCHANGED <<manifestVars, evidenceVars>>
  BY <1>6, <1>9 DEF FactNext, ChangeFacts, Evaluate, Tick, Spend, evidenceVars, shelfVars
<1>10. CASE UNCHANGED vars
  BY <1>6, <1>10 DEF vars, evidenceVars, shelfVars
<1> QED BY <1>1, <1>2, <1>3, <1>4, <1>5, <1>7, <1>8, <1>9, <1>10 DEF Next, EvidenceNext

(* A finished check says fresh of a pin only if a source of this check has  *)
(* the pinned text; and if nobody changed the shelf meanwhile, it is alone  *)
(* with its id, and the results are those of one uninterrupted check        *)
(* (evidence-freshness.ts).                                                 *)
THEOREM EvidenceStaysCurrent == Spec => []EvidenceIsCurrent
<1>1. Init => CheckOK
  <2>1. Len(<<>>) = 0 /\ \A S : <<>> \in Seq(S)
    OBVIOUS
  <2> QED BY <2>1 DEF Init, EvidenceInit, CheckOK
<1>2. CheckOK /\ [Next]_vars => CheckOK'
  BY CheckStep
<1>3. CheckOK => EvidenceIsCurrent
  BY CheckMeans
<1> QED BY <1>1, <1>2, <1>3, PTL DEF Spec
=============================================================================
