---------------------------- MODULE ReleaseProofs ----------------------------
(* That READY is earned and that the agent check passes only what was audited, *)
(* for any number of packages, runs, failures and changes by hand.             *)
EXTENDS ReleaseProperties, SequenceTheorems, TLAPS

-----------------------------------------------------------------------------
(* The inductive invariant.                                                  *)

Values ==
  {None, Unread} \cup Environment \cup Ruleset \cup {"true", "other"} \cup Configs \cup Seq(Publisher)

RunState ==
  [step : Steps, mode : Modes, config : Configs \cup {None}, attested : Attestations,
   round : {"plan", "readback", "final"}, at : Nat, seen : [Resources -> Values],
   todo : SUBSET Resources, reviewed : BOOLEAN, wrote : Seq(Resources),
   verdict : {"BLOCKED", "READY", "NOT_READY", "PASS", "LIVE_AUDIT_REQUIRED", "none"}]

Shape ==
  /\ scenario \in Scenarios
  /\ environment \in Environment \cup {None} /\ ruleset \in Ruleset
  /\ publishers \in [Packages -> Seq(Publisher)]
  /\ ready \in {"true", "other"} /\ approved \in Configs \cup {None}
  /\ run \in [Runs -> RunState]
  /\ calm \subseteq Runs /\ audited \subseteq Configs

\* Whatever hash a run has seen, or is about to persist, was audited.
Vouched(r) ==
  /\ run[r].seen["approved"] \in audited \cup {None, Unread}
  /\ run[r].step = "approve" \/ run[r].verdict = "PASS" => run[r].config \in audited
  /\ run[r].step # "idle" => run[r].config \in Configs

\* How far a run has read.
Progressed(r) ==
  /\ run[r].step = "read" => run[r].at \in 1 .. LastRead(r)
  /\ run[r].step \in {"plan", "readback", "final"} /\ Live(run[r].mode) => run[r].at = Len(Order) + 1

\* Only a run that asks npm gets as far as to write.
Staged(s) == Live(s.mode) \/ (s.round = "plan" /\ s.step \in {"idle", "read", "plan", "ended", "failed"})

\* While nobody interferes, what a run has read is what is there.
Faithful(r) ==
  r \in calm =>
    /\ run[r].step \in {"read", "plan", "readback"} =>
         \A k \in 1 .. run[r].at - 1 : run[r].seen[Order[k]] \in {Unread, Remote[Order[k]]}
    /\ run[r].step \in {"approve", "open"} => Prerequisites(Remote, run[r].config, run[r].attested)
    /\ run[r].step = "open" => approved = run[r].config

Knows(r) == Vouched(r) /\ Progressed(r) /\ Staged(run[r]) /\ Faithful(r)
Inv == Shape /\ approved \in audited \cup {None} /\ \A r \in Runs : Knows(r)

-----------------------------------------------------------------------------
(* Resources and what is read of them.                                       *)

LEMMA OrderCovers ==
  /\ Order \in Seq(Resources) /\ Len(Order) \in Nat /\ Len(Order) >= 4
  /\ \A k \in 1 .. Len(Order) : Order[k] \in Resources
  /\ \A i \in Resources : \E k \in 1 .. Len(Order) : Order[k] = i
<1> DEFINE first == <<"environment", "ruleset", "ready", "approved">>
<1>1. first \in Seq(Resources) /\ Len(first) = 4
      /\ first[1] = "environment" /\ first[2] = "ruleset" /\ first[3] = "ready" /\ first[4] = "approved"
  BY DEF Resources
<1>2. Roster \in Seq(Resources) /\ Len(Roster) \in Nat /\ DOMAIN Roster = 1 .. Len(Roster)
  BY ReleaseConstants, LenProperties DEF Resources
<1>3. Order = first \o Roster
  BY DEF Order
<1> HIDE DEF first
<1>4. /\ Order \in Seq(Resources) /\ Len(Order) = 4 + Len(Roster)
      /\ \A k \in 1 .. 4 + Len(Roster) : Order[k] = IF k <= 4 THEN first[k] ELSE Roster[k - 4]
  <2>1. /\ Order \in Seq(Resources) /\ Len(Order) = Len(first) + Len(Roster)
        /\ \A k \in 1 .. Len(first) + Len(Roster) :
             Order[k] = IF k <= Len(first) THEN first[k] ELSE Roster[k - Len(first)]
    BY <1>1, <1>2, <1>3, ConcatProperties, Zenon
  <2>2. Len(first) = 4
    BY <1>1
  <2> QED BY <2>1, <2>2
<1>5. \A k \in 1 .. Len(Order) : Order[k] \in Resources
  BY <1>4, <1>2, ElementOfSeq
<1>6. ASSUME NEW i \in Resources PROVE \E k \in 1 .. Len(Order) : Order[k] = i
  <2>1. CASE i \in Packages
    <3>1. PICK j \in 1 .. Len(Roster) : Roster[j] = i
      BY <2>1, <1>2 DEF Packages
    <3>2. 4 + j \in 1 .. Len(Order) /\ Order[4 + j] = i
      BY <3>1, <1>2, <1>4
    <3> QED BY <3>2
  <2>2. CASE i \notin Packages
    <3>1. i \in {"environment", "ruleset", "ready", "approved"}
      BY <2>2 DEF Resources
    <3>2. 1 .. 4 \subseteq 1 .. Len(Order) /\ \A k \in 1 .. 4 : Order[k] = first[k]
      BY <1>2, <1>4
    <3> QED BY <3>1, <3>2, <1>1
  <2> QED BY <2>1, <2>2
<1> QED BY <1>2, <1>4, <1>5, <1>6

LEMMA ResourceNames ==
  /\ {"environment", "ruleset", "ready", "approved"} \subseteq Resources
  /\ Packages \subseteq Resources
  /\ \A p \in Packages : p \notin {"environment", "ruleset", "ready", "approved"}
  BY ReleaseConstants DEF Resources

LEMMA RemoteFields ==
  /\ Remote["environment"] = environment /\ Remote["ruleset"] = ruleset
  /\ Remote["ready"] = ready /\ Remote["approved"] = approved
  /\ \A p \in Packages : Remote[p] = publishers[p]
  BY ResourceNames DEF Remote

LEMMA RemoteValues == ASSUME Shape PROVE Remote \in [Resources -> Values]
<1>1. \A i \in Resources : Remote[i] \in Values
  BY RemoteFields DEF Shape, Values, Resources
<1> QED BY <1>1 DEF Remote

\* The prerequisites look at the environment, the ruleset and the packages only.
LEMMA SamePrerequisites ==
  ASSUME NEW f, NEW g, NEW config, NEW attested,
         \A i \in {"environment", "ruleset"} \cup Packages : f[i] = g[i]
  PROVE  Prerequisites(f, config, attested) = Prerequisites(g, config, attested)
  BY DEF Prerequisites

\* What passes was read.
LEMMA PassingIsRead ==
  ASSUME NEW seen, NEW config, NEW attested, Prerequisites(seen, config, attested)
  PROVE  \A i \in {"environment", "ruleset"} \cup Packages : seen[i] # Unread
  BY ReleaseConstants DEF Prerequisites, EnvironmentMatches, Ruleset

-----------------------------------------------------------------------------
(* States of a run.                                                          *)

LEMMA NothingSeenType ==
  NothingSeen \in [Resources -> Values] /\ NothingSeen["approved"] = Unread
  BY ResourceNames DEF NothingSeen, Values

LEMMA IdleState ==
  /\ Idle \in RunState /\ Idle.step = "idle" /\ Idle.at = 1 /\ Idle.verdict = "none"
  /\ Idle.seen = NothingSeen /\ Idle.wrote = <<>> /\ Idle.todo = {}
  BY NothingSeenType, EmptySeq DEF Idle, RunState, Steps, Modes, Attestations

LEMMA RoundState ==
  ASSUME NEW s \in RunState, NEW round \in {"readback", "final"}
  PROVE  /\ Round(s, round) \in RunState
         /\ Round(s, round).step = "read" /\ Round(s, round).at = 1
         /\ Round(s, round).seen = NothingSeen
         /\ Round(s, round).config = s.config /\ Round(s, round).verdict = s.verdict
         /\ Round(s, round).mode = s.mode
  BY NothingSeenType DEF Round, RunState, Steps

LEMMA EndState ==
  ASSUME NEW s \in RunState
  PROVE  /\ End(s) \in RunState
         /\ End(s).step = "ended" /\ End(s).seen = NothingSeen
         /\ End(s).config = s.config /\ End(s).verdict = s.verdict
         /\ End(s).mode = s.mode /\ End(s).round = s.round
  BY NothingSeenType DEF End, RunState, Steps

\* A run that is not reading, or only begins to, claims nothing of what is there.
LEMMA Rests ==
  ASSUME NEW r \in Runs,
         \/ run'[r].step \in {"idle", "write", "put", "branch", "ended", "failed"}
         \/ run'[r].step = "read" /\ run'[r].at = 1
  PROVE  Progressed(r)' /\ Faithful(r)'
<1>1. Len(Order) \in Nat /\ Len(Order) >= 4
  BY OrderCovers
<1>2. Progressed(r)'
  BY <1>1 DEF Progressed, LastRead
<1>3. Faithful(r)'
  BY DEF Faithful
<1> QED BY <1>2, <1>3

\* The other runs know as much as before: only this one acted, and if it changed
\* something that they may have read, they are not calm any more.
LEMMA Frame ==
  ASSUME Inv, NEW r \in Runs, NEW s \in RunState, run' = [run EXCEPT ![r] = s],
         audited \subseteq audited', audited' \subseteq Configs,
         Shape', approved' \in audited' \cup {None},
         calm' \subseteq calm \cup {r},
         \/ calm' \subseteq {r}
         \/ UNCHANGED <<environment, ruleset, publishers, ready, approved>>,
         run'[r] = s => Knows(r)'
  PROVE  Inv'
<1>1. run \in [Runs -> RunState]
  BY DEF Inv, Shape
<1>2. run'[r] = s /\ \A q \in Runs \ {r} : run'[q] = run[q]
  BY <1>1
<1>3. ASSUME NEW q \in Runs \ {r} PROVE Knows(q)'
  <2>1. Knows(q) /\ run'[q] = run[q]
    BY <1>2 DEF Inv
  <2>2. Vouched(q)'
    BY <2>1 DEF Knows, Vouched
  <2>3. Progressed(q)'
    BY <2>1 DEF Knows, Progressed, LastRead
  <2>4. Faithful(q)'
    <3>1. CASE calm' \subseteq {r}
      BY <3>1 DEF Faithful
    <3>2. CASE UNCHANGED <<environment, ruleset, publishers, ready, approved>>
      <4>1. Remote' = Remote /\ approved' = approved
        BY <3>2 DEF Remote
      <4>2. q \in calm' => q \in calm
        OBVIOUS
      <4> QED BY <2>1, <4>1, <4>2 DEF Knows, Faithful
    <3> QED BY <3>1, <3>2
  <2> QED BY <2>1, <2>2, <2>3, <2>4 DEF Knows
<1> QED BY <1>2, <1>3 DEF Inv

-----------------------------------------------------------------------------
(* Reading.                                                                  *)

LEMMA ReadKeepsInv ==
  ASSUME Inv, NEW r \in Runs, NEW i \in Resources, Read(r, i, Remote[i])
  PROVE  Inv'
<1>1. PICK v \in {Remote[i], Unread} : Observe(r, i, v)
  BY DEF Read, Succeed, Fail
<1>2. /\ UNCHANGED <<environment, ruleset, publishers, ready, approved, scenario, audited>>
      /\ calm' = IF run[r].at = 1 THEN calm \cup {r} ELSE calm
  BY DEF Read
<1> DEFINE s == run[r]
           u == [s.seen EXCEPT ![i] = v]
           t == [s EXCEPT !.seen = [@ EXCEPT ![i] = v], !.at = @ + 1,
                          !.step = IF s.at = LastRead(r) THEN s.round ELSE "read"]
<1>3. s \in RunState /\ v \in Values /\ Len(Order) \in Nat /\ Len(Order) >= 4
  BY RemoteValues, OrderCovers DEF Inv, Shape, Values
<1>4. s.step = "read" /\ Order[s.at] = i /\ run' = [run EXCEPT ![r] = t]
  BY <1>1 DEF Observe
<1>5. /\ t \in RunState
      /\ t.at = s.at + 1 /\ t.step = (IF s.at = LastRead(r) THEN s.round ELSE "read")
      /\ \A j \in Resources : t.seen[j] = IF j = i THEN v ELSE s.seen[j]
      /\ t.mode = s.mode /\ t.config = s.config /\ t.verdict = s.verdict /\ t.round = s.round
  <2>1. /\ u \in [Resources -> Values]
        /\ \A j \in Resources : u[j] = IF j = i THEN v ELSE s.seen[j]
    BY <1>3 DEF RunState
  <2>2. t = [s EXCEPT !.seen = u, !.at = s.at + 1,
                      !.step = IF s.at = LastRead(r) THEN s.round ELSE "read"]
    OBVIOUS
  <2> HIDE DEF u, s, t
  <2>3. s.round \in Steps /\ "read" \in Steps /\ s.at + 1 \in Nat
    BY <1>3 DEF RunState, Steps
  <2> QED BY <1>3, <2>1, <2>2, <2>3 DEF RunState
<1>6. t.step \in {"read", "plan", "readback", "final"} /\ s.at \in 1 .. LastRead(r) /\ LastRead(r) \in Nat
  BY <1>3, <1>4, <1>5 DEF Inv, Knows, Progressed, RunState, LastRead
<1> HIDE DEF t
<1>7. ASSUME run'[r] = t PROVE Knows(r)'
  <2>1. Vouched(r)'
    <3>1. Remote["approved"] = approved /\ "approved" \in Resources
      BY RemoteFields, ResourceNames
    <3> QED BY <1>2, <1>4, <1>5, <1>6, <1>7, <3>1 DEF Inv, Knows, Vouched
  <2>2. Progressed(r)'
    <3>1. LastRead(r)' = LastRead(r) /\ (Live(s.mode) => LastRead(r) = Len(Order))
      BY <1>5, <1>7 DEF LastRead
    <3>2. t.step = "read" => t.at \in 1 .. LastRead(r)
      BY <1>3, <1>5, <1>6 DEF RunState
    <3>3. t.step # "read" => s.at = LastRead(r)
      BY <1>5
    <3> QED BY <1>5, <1>7, <3>1, <3>2, <3>3 DEF Progressed
  <2>3. Faithful(r)'
    <3>1. Remote' = Remote
      BY <1>2 DEF Remote
    <3>2. ASSUME r \in calm', NEW k \in 1 .. t.at - 1
          PROVE  t.seen[Order[k]] \in {Unread, Remote[Order[k]]}
      <4>1. k \in 1 .. s.at /\ Order[k] \in Resources /\ s.at \in Nat
        <5>1. t.at - 1 = s.at /\ s.at \in 1 .. LastRead(r) /\ LastRead(r) <= Len(Order)
          BY <1>3, <1>5, <1>6 DEF RunState, LastRead
        <5>2. k \in 1 .. s.at /\ s.at \in Nat /\ k \in 1 .. Len(Order)
          BY <1>3, <1>6, <5>1
        <5> QED BY <5>2, OrderCovers
      <4>2. CASE Order[k] = i
        BY <1>5, <4>1, <4>2
      <4>3. CASE Order[k] # i
        <5>1. k \in 1 .. s.at - 1 /\ s.at # 1
          BY <1>4, <4>1, <4>3
        <5>2. r \in calm
          BY <1>2, <3>2, <5>1
        <5> QED BY <1>4, <1>5, <4>1, <4>3, <5>1, <5>2 DEF Inv, Knows, Faithful
      <4> QED BY <4>2, <4>3
    <3> QED BY <1>6, <1>7, <3>1, <3>2 DEF Faithful
  <2>4. Staged(t)
    BY <1>4, <1>5 DEF Inv, Knows, Staged
  <2> QED BY <1>7, <2>1, <2>2, <2>3, <2>4 DEF Knows
<1>8. Shape'
  BY <1>2, <1>4, <1>5 DEF Inv, Shape
<1> QED
  BY <1>2, <1>4, <1>5, <1>7, <1>8, Frame DEF Inv, Shape

LEMMA ReadingKeepsInv ==
  ASSUME Inv, NEW r \in Runs,
         \/ ReadEnvironment(r) \/ ReadRuleset(r) \/ ReadReady(r) \/ ReadApproved(r) \/ ReadPackage(r)
  PROVE  Inv'
<1>1. \E i \in Resources : Read(r, i, Remote[i])
  BY RemoteFields, ResourceNames
     DEF ReadEnvironment, ReadRuleset, ReadReady, ReadApproved, ReadPackage
<1> QED BY <1>1, ReadKeepsInv

-----------------------------------------------------------------------------
(* Planning.                                                                 *)

LEMMA LocalKeepsInv ==
  ASSUME Inv, NEW r \in Runs, NEW s \in RunState, run' = [run EXCEPT ![r] = s],
         LocalOnly, UNCHANGED calm, audited \subseteq audited', audited' \subseteq Configs,
         run'[r] = s => Knows(r)'
  PROVE  Inv'
<1>1. Shape'
  BY DEF Inv, Shape, LocalOnly
<1> QED BY <1>1, Frame DEF Inv, LocalOnly

\* A run that stops reading, with nothing left that anyone could doubt.
LEMMA RestingKeepsInv ==
  ASSUME Inv, NEW r \in Runs, NEW s \in RunState, run' = [run EXCEPT ![r] = s],
         LocalOnly, UNCHANGED calm, audited \subseteq audited', audited' \subseteq Configs,
         Staged(s),
         \/ s.step \in {"write", "put", "branch", "ended", "failed"}
         \/ s.step = "read" /\ s.at = 1,
         s.seen["approved"] \in {run[r].seen["approved"], Unread},
         s.config = run[r].config, s.config \in Configs,
         s.verdict = "PASS" => run[r].verdict = "PASS" \/ s.config \in audited
  PROVE  Inv'
<1>1. ASSUME run'[r] = s PROVE Knows(r)'
  <2>1. Vouched(r)'
    BY <1>1 DEF Inv, Knows, Vouched
  <2> QED BY <1>1, <2>1, Rests DEF Knows
<1> QED BY <1>1, LocalKeepsInv

LEMMA VerdictTypes ==
  ASSUME NEW seen, NEW config, NEW attested
  PROVE  /\ Verdict(seen, config, attested) \in {"BLOCKED", "READY", "NOT_READY"}
         /\ AgentVerdict(seen, config, attested) \in {"BLOCKED", "PASS", "LIVE_AUDIT_REQUIRED"}
         /\ AgentVerdict(seen, config, attested) = "PASS" => seen["approved"] = config
  BY DEF Verdict, AgentVerdict, Cached

\* What every step after the first may use of its own run.
LEMMA RunFacts ==
  ASSUME Inv, NEW r \in Runs
  PROVE  /\ run[r] \in RunState /\ Vouched(r) /\ Progressed(r) /\ Staged(run[r]) /\ Faithful(r)
         /\ run[r].step # "idle" => run[r].config \in Configs
  BY DEF Inv, Shape, Knows, Vouched

LEMMA PlanCheckKeepsInv == ASSUME Inv, NEW r \in Runs, PlanCheck(r) PROVE Inv'
<1> DEFINE s == run[r]
           v == IF s.mode = "check" THEN Verdict(s.seen, s.config, s.attested)
                ELSE AgentVerdict(s.seen, s.config, s.attested)
           p == [s EXCEPT !.verdict = v]
<1>1. /\ s.step = "plan" /\ run' = [run EXCEPT ![r] = End(p)]
      /\ LocalOnly /\ UNCHANGED calm /\ audited' = audited
  BY DEF PlanCheck, Undisturbed
<1>2. s \in RunState /\ s.config \in Configs /\ Vouched(r) /\ Staged(s)
  BY <1>1, RunFacts
<1>3. v \in {"BLOCKED", "READY", "NOT_READY", "PASS", "LIVE_AUDIT_REQUIRED"}
      /\ (v = "PASS" => s.seen["approved"] = s.config)
  BY VerdictTypes
<1>4. s.seen["approved"] = s.config => s.config \in audited
  BY <1>2, ReleaseConstants DEF Vouched
<1> HIDE DEF v
<1>5. p \in RunState /\ p.config = s.config /\ p.verdict = v /\ p.mode = s.mode /\ p.round = s.round
  <2> HIDE DEF s
  <2> QED BY <1>2, <1>3 DEF RunState
<1> HIDE DEF p
<1>6. /\ End(p) \in RunState /\ End(p).step = "ended" /\ End(p).seen["approved"] = Unread
      /\ End(p).config = s.config /\ End(p).verdict = v
      /\ Staged(End(p))
  BY <1>1, <1>2, <1>5, EndState, NothingSeenType DEF Staged
<1> QED BY <1>1, <1>2, <1>3, <1>4, <1>6, RestingKeepsInv DEF Inv, Shape

LEMMA PlanApplyKeepsInv == ASSUME Inv, NEW r \in Runs, PlanApply(r) PROVE Inv'
<1> DEFINE s == run[r]
           p == [s EXCEPT !.verdict = Verdict(s.seen, s.config, s.attested), !.todo = Pending(s.seen)]
<1>1. /\ s.step = "plan" /\ s.mode = "apply" /\ LocalOnly /\ UNCHANGED calm /\ audited' = audited
      /\ \/ run' = [run EXCEPT ![r] = End([p EXCEPT !.todo = {}])]
         \/ run' = [run EXCEPT ![r] = [p EXCEPT !.step = "write"]]
         \/ run' = [run EXCEPT ![r] = Round(p, "readback")]
  BY DEF PlanApply, Undisturbed
<1>2. s \in RunState /\ s.config \in Configs /\ audited \subseteq Configs
  BY <1>1, RunFacts DEF Inv, Shape
<1>3. Verdict(s.seen, s.config, s.attested) \in {"BLOCKED", "READY", "NOT_READY"}
      /\ Pending(s.seen) \subseteq Resources
  BY VerdictTypes DEF Pending, Resources
<1>4. p \in RunState /\ p.config = s.config /\ p.seen = s.seen /\ p.verdict # "PASS" /\ p.mode = s.mode
  <2> HIDE DEF s
  <2> QED BY <1>2, <1>3 DEF RunState
<1> HIDE DEF p
<1>5. CASE run' = [run EXCEPT ![r] = End([p EXCEPT !.todo = {}])]
  <2> DEFINE q == [p EXCEPT !.todo = {}]
  <2>1. q \in RunState /\ q.config = s.config /\ q.verdict # "PASS" /\ q.mode = s.mode
    BY <1>4 DEF RunState
  <2> HIDE DEF q
  <2>2. /\ End(q) \in RunState /\ End(q).step = "ended" /\ End(q).seen["approved"] = Unread
        /\ End(q).config = s.config /\ End(q).verdict # "PASS" /\ Staged(End(q))
    BY <1>1, <2>1, EndState, NothingSeenType DEF Staged, Live
  <2>3. run' = [run EXCEPT ![r] = End(q)]
    BY <1>5 DEF q
  <2> QED BY <1>1, <1>2, <2>2, <2>3, RestingKeepsInv
<1>6. CASE run' = [run EXCEPT ![r] = [p EXCEPT !.step = "write"]]
  <2> DEFINE q == [p EXCEPT !.step = "write"]
  <2>1. /\ q \in RunState /\ q.config = s.config /\ q.verdict # "PASS" /\ q.step = "write"
        /\ q.seen = s.seen /\ Staged(q)
    BY <1>1, <1>4 DEF RunState, Steps, Staged, Live
  <2>2. run' = [run EXCEPT ![r] = q]
    BY <1>6
  <2> HIDE DEF q
  <2> QED BY <1>1, <1>2, <2>1, <2>2, RestingKeepsInv
<1>7. CASE run' = [run EXCEPT ![r] = Round(p, "readback")]
  <2> DEFINE q == Round(p, "readback")
  <2>1. /\ q \in RunState /\ q.step = "read" /\ q.at = 1 /\ q.seen["approved"] = Unread
        /\ q.config = s.config /\ q.verdict # "PASS" /\ Staged(q)
    BY <1>1, <1>4, RoundState, NothingSeenType DEF Staged, Live
  <2> HIDE DEF q
  <2> QED BY <1>1, <1>2, <1>7, <2>1, RestingKeepsInv DEF q
<1> QED BY <1>1, <1>5, <1>6, <1>7

-----------------------------------------------------------------------------
(* Writing.                                                                  *)

\* What a calm run has found in order, and approved, is so.
LEMMA FoundIsThere ==
  ASSUME Inv, NEW r \in calm, run[r].step \in {"plan", "readback"}, Live(run[r].mode),
         Prerequisites(run[r].seen, run[r].config, run[r].attested)
  PROVE  /\ Prerequisites(Remote, run[r].config, run[r].attested)
         /\ run[r].seen["approved"] = run[r].config => approved = run[r].config
<1>1. /\ r \in Runs /\ Faithful(r) /\ Progressed(r) /\ run[r].config \in Configs
  BY RunFacts DEF Inv, Shape
<1>2. run[r].at - 1 = Len(Order)
  <2>1. run[r].at = Len(Order) + 1
    BY <1>1 DEF Progressed
  <2>2. Len(Order) \in Nat
    BY OrderCovers
  <2> QED BY <2>1, <2>2
<1>3. \A i \in Resources : run[r].seen[i] \in {Unread, Remote[i]}
  <2>1. \A k \in 1 .. Len(Order) : run[r].seen[Order[k]] \in {Unread, Remote[Order[k]]}
    BY <1>1, <1>2 DEF Faithful
  <2> QED BY <2>1, OrderCovers
<1>4. \A i \in {"environment", "ruleset"} \cup Packages : run[r].seen[i] = Remote[i]
  BY <1>3, PassingIsRead, ResourceNames
<1>5. Prerequisites(Remote, run[r].config, run[r].attested)
  BY <1>4, SamePrerequisites
<1>6. run[r].seen["approved"] = run[r].config => approved = run[r].config
  BY <1>1, <1>3, ResourceNames, RemoteFields, ReleaseConstants
<1> QED BY <1>5, <1>6

\* A run that writes and goes on to its next write, or to read everything again.
LEMMA WriteKeepsInv ==
  ASSUME Inv, NEW r \in Runs, NEW s \in RunState, run' = [run EXCEPT ![r] = s],
         Shape', UNCHANGED audited, approved' \in {approved, run[r].config},
         run[r].config \in audited \/ approved' = approved,
         calm' \subseteq {r}, Staged(s),
         \/ s.step \in {"put", "write", "branch", "ended", "failed"}
         \/ s.step = "read" /\ s.at = 1,
         s.seen["approved"] \in {run[r].seen["approved"], Unread},
         s.config = run[r].config, s.config \in Configs, s.verdict = run[r].verdict
  PROVE  Inv'
<1>1. ASSUME run'[r] = s PROVE Knows(r)'
  <2>1. Vouched(r)'
    BY <1>1 DEF Inv, Knows, Vouched
  <2> QED BY <1>1, <2>1, Rests DEF Knows
<1>2. audited' \subseteq Configs /\ approved' \in audited' \cup {None}
  BY DEF Inv, Shape
<1> QED BY <1>1, <1>2, Frame

LEMMA DoneState ==
  ASSUME NEW s \in RunState, NEW i \in Resources
  PROVE  /\ Done(s, i) \in RunState
         /\ Done(s, i).step = "write" \/ (Done(s, i).step = "read" /\ Done(s, i).at = 1)
         /\ Done(s, i).seen["approved"] \in {s.seen["approved"], Unread}
         /\ Done(s, i).config = s.config /\ Done(s, i).verdict = s.verdict
         /\ Done(s, i).mode = s.mode
<1> DEFINE w == Append(s.wrote, i)
           d == s.todo \ {i}
           n == [s EXCEPT !.wrote = w, !.todo = d, !.step = "write"]
<1>1. w \in Seq(Resources) /\ d \in SUBSET Resources
  BY DEF RunState
<1>2. Done(s, i) = IF n.todo = {} THEN Round(n, "readback") ELSE n
  BY DEF Done
<1> HIDE DEF w, d
<1>3. /\ n \in RunState /\ n.step = "write" /\ n.seen = s.seen
      /\ n.config = s.config /\ n.verdict = s.verdict /\ n.mode = s.mode
  BY <1>1 DEF RunState, Steps
<1> HIDE DEF n
<1>4. CASE n.todo = {}
  BY <1>2, <1>3, <1>4, RoundState, NothingSeenType
<1>5. CASE n.todo # {}
  BY <1>2, <1>3, <1>5
<1> QED BY <1>4, <1>5

\* A run that goes to another step and keeps everything else.
LEMMA StepState ==
  ASSUME NEW s \in RunState, NEW step \in Steps
  PROVE  /\ [s EXCEPT !.step = step] \in RunState
         /\ [s EXCEPT !.step = step].step = step /\ [s EXCEPT !.step = step].seen = s.seen
         /\ [s EXCEPT !.step = step].config = s.config /\ [s EXCEPT !.step = step].verdict = s.verdict
         /\ [s EXCEPT !.step = step].mode = s.mode /\ [s EXCEPT !.step = step].attested = s.attested
  BY DEF RunState

LEMMA PutType ==
  ASSUME NEW e \in Environment \cup {None}, NEW reviewed \in BOOLEAN
  PROVE  Put(e, reviewed) \in Environment
<1>1. CASE e = None
  BY <1>1 DEF Put, NewEnvironment, Environment
<1>2. CASE e # None
  BY <1>2 DEF Put, Environment
<1> QED BY <1>1, <1>2

LEMMA PlanAuditKeepsInv == ASSUME Inv, NEW r \in Runs, PlanAudit(r) PROVE Inv'
<1> DEFINE s == run[r]
           good == PrerequisitesOf(r, s.seen)
           p == [s EXCEPT !.verdict = Verdict(s.seen, s.config, s.attested)]
<1>1. /\ s.step = "plan" /\ s.mode = "audit-live" /\ LocalOnly /\ UNCHANGED calm
      /\ run' = [run EXCEPT ![r] = IF good /\ ~IsApproved(r) THEN [p EXCEPT !.step = "approve"] ELSE End(p)]
      /\ audited' = IF good THEN audited \cup {s.config} ELSE audited
  BY DEF PlanAudit, Undisturbed
<1>2. /\ s \in RunState /\ s.config \in Configs /\ audited \subseteq Configs /\ Vouched(r)
      /\ audited \subseteq audited' /\ audited' \subseteq Configs
  <2>1. /\ s \in RunState /\ s.config \in Configs /\ audited \subseteq Configs /\ Vouched(r)
    BY <1>1, RunFacts DEF Inv, Shape
  <2> QED BY <1>1, <2>1
<1>3. Verdict(s.seen, s.config, s.attested) \in {"BLOCKED", "READY", "NOT_READY"}
  BY VerdictTypes
<1>4. /\ p \in RunState /\ p.config = s.config /\ p.seen = s.seen /\ p.verdict # "PASS"
      /\ p.mode = s.mode /\ p.attested = s.attested
  <2> HIDE DEF s
  <2> QED BY <1>2, <1>3 DEF RunState
<1> HIDE DEF p
<1>5. CASE good /\ ~IsApproved(r)
  <2> DEFINE q == [p EXCEPT !.step = "approve"]
  <2>1. /\ q \in RunState /\ q.step = "approve" /\ q.config = s.config /\ q.seen = s.seen
        /\ q.verdict # "PASS" /\ q.attested = s.attested /\ Staged(q)
    BY <1>1, <1>4 DEF RunState, Steps, Staged, Live
  <2>2. run' = [run EXCEPT ![r] = q] /\ s.config \in audited'
    BY <1>1, <1>5
  <2> HIDE DEF q
  <2>3. ASSUME run'[r] = q PROVE Knows(r)'
    <3>1. Vouched(r)'
      BY <1>2, <2>1, <2>2, <2>3 DEF Vouched
    <3>2. Progressed(r)'
      BY <2>1, <2>3 DEF Progressed
    <3>3. r \in calm => Prerequisites(Remote, s.config, s.attested)
      BY <1>1, <1>5, FoundIsThere DEF PrerequisitesOf, Live
    <3>4. Remote' = Remote
      BY <1>1 DEF LocalOnly, Remote
    <3>5. Faithful(r)'
      BY <1>1, <2>1, <2>3, <3>3, <3>4 DEF Faithful
    <3> QED BY <2>1, <2>3, <3>1, <3>2, <3>5 DEF Knows
  <2> QED BY <1>1, <1>2, <2>1, <2>2, <2>3, LocalKeepsInv
<1>6. CASE ~(good /\ ~IsApproved(r))
  <2> DEFINE q == End(p)
  <2>1. /\ q \in RunState /\ q.step = "ended" /\ q.seen["approved"] = Unread
        /\ q.config = s.config /\ q.verdict # "PASS" /\ Staged(q)
    BY <1>1, <1>4, EndState, NothingSeenType DEF Staged, Live
  <2>2. run' = [run EXCEPT ![r] = q]
    BY <1>1, <1>6
  <2> HIDE DEF q
  <2> QED BY <1>1, <1>2, <2>1, <2>2, RestingKeepsInv
<1> QED BY <1>5, <1>6

LEMMA AfterWritesState ==
  ASSUME NEW s \in RunState
  PROVE  /\ AfterWrites(s) \in RunState
         /\ AfterWrites(s).step = "ended" \/ (AfterWrites(s).step = "read" /\ AfterWrites(s).at = 1)
         /\ AfterWrites(s).seen["approved"] = Unread
         /\ AfterWrites(s).config = s.config /\ AfterWrites(s).verdict = s.verdict
         /\ AfterWrites(s).mode = s.mode
<1>1. CASE s.wrote = <<>>
  BY <1>1, EndState, NothingSeenType DEF AfterWrites
<1>2. CASE s.wrote # <<>>
  BY <1>2, RoundState, NothingSeenType DEF AfterWrites
<1> QED BY <1>1, <1>2

LEMMA ReadBackKeepsInv == ASSUME Inv, NEW r \in Runs, ReadBack(r) PROVE Inv'
<1> DEFINE s == run[r]
<1>1. /\ s.step = "readback" /\ LocalOnly /\ UNCHANGED calm /\ Live(s.mode)
  BY RunFacts DEF ReadBack, Undisturbed, Staged
<1>2. /\ s \in RunState /\ s.config \in Configs /\ audited \subseteq Configs /\ Vouched(r)
      /\ audited' \in {audited, audited \cup {s.config}}
      /\ audited \subseteq audited' /\ audited' \subseteq Configs
  <2>1. /\ s \in RunState /\ s.config \in Configs /\ audited \subseteq Configs /\ Vouched(r)
    BY <1>1, RunFacts DEF Inv, Shape
  <2>2. audited' \in {audited, audited \cup {s.config}}
    BY DEF ReadBack
  <2> QED BY <2>1, <2>2
<1>3. CASE run' = [run EXCEPT ![r] = AfterWrites(s)]
  <2> DEFINE q == AfterWrites(s)
  <2>1. /\ q \in RunState
        /\ q.step = "ended" \/ (q.step = "read" /\ q.at = 1)
        /\ q.seen["approved"] = Unread /\ q.config = s.config /\ q.verdict = s.verdict
        /\ q.mode = s.mode
    BY <1>2, AfterWritesState
  <2>2. run' = [run EXCEPT ![r] = q]
    BY <1>3
  <2> HIDE DEF q
  <2>3. Staged(q)
    BY <1>1, <2>1 DEF Staged
  <2> QED BY <1>1, <1>2, <2>1, <2>2, <2>3, RestingKeepsInv
<1>4. ASSUME NEW step \in {"approve", "open"}, run' = [run EXCEPT ![r] = [s EXCEPT !.step = step]],
             MayOpen(r), audited' = audited \cup {s.config}, step = "open" => IsApproved(r)
      PROVE  Inv'
  <2> DEFINE q == [s EXCEPT !.step = step]
  <2>1. /\ q \in RunState /\ q.step = step /\ q.seen = s.seen
        /\ q.config = s.config /\ q.verdict = s.verdict /\ q.attested = s.attested /\ Staged(q)
    <3>1. step \in Steps
      BY DEF Steps
    <3> HIDE DEF s
    <3>2. /\ q \in RunState /\ q.step = step /\ q.seen = s.seen /\ q.mode = s.mode
          /\ q.config = s.config /\ q.verdict = s.verdict /\ q.attested = s.attested
      BY <1>2, <3>1, StepState
    <3> QED BY <1>1, <3>2 DEF Staged
  <2>2. run' = [run EXCEPT ![r] = q]
    BY <1>4
  <2> HIDE DEF q
  <2>3. ASSUME run'[r] = q PROVE Knows(r)'
    <3>1. Vouched(r)'
      BY <1>2, <1>4, <2>1, <2>3 DEF Vouched
    <3>2. Progressed(r)'
      BY <2>1, <2>3 DEF Progressed
    <3>3. r \in calm => /\ Prerequisites(Remote, s.config, s.attested)
                        /\ step = "open" => approved = s.config
      BY <1>1, <1>4, FoundIsThere DEF PrerequisitesOf, MayOpen, IsApproved
    <3>4. Remote' = Remote /\ approved' = approved
      BY <1>1 DEF LocalOnly, Remote
    <3>5. Faithful(r)'
      BY <1>1, <2>1, <2>3, <3>3, <3>4 DEF Faithful
    <3> QED BY <2>1, <2>3, <3>1, <3>2, <3>5 DEF Knows
  <2> QED BY <1>1, <1>2, <2>1, <2>2, <2>3, LocalKeepsInv
<1>5. CASE ~MayOpen(r)
  BY <1>3, <1>5 DEF ReadBack
<1>6. CASE MayOpen(r)
  <2>1. audited' = audited \cup {s.config}
    BY <1>6 DEF ReadBack
  <2>2. CASE ~IsApproved(r)
    BY <1>4, <1>6, <2>1, <2>2 DEF ReadBack
  <2>3. CASE IsApproved(r) /\ s.seen["ready"] # "true"
    BY <1>4, <1>6, <2>1, <2>3 DEF ReadBack
  <2>4. CASE IsApproved(r) /\ s.seen["ready"] = "true"
    BY <1>3, <1>6, <2>4 DEF ReadBack
  <2> QED BY <2>2, <2>3, <2>4
<1> QED BY <1>5, <1>6

\* The common part of the writes of applyMutations.
LEMMA ItemWritten ==
  ASSUME Inv, NEW r \in Runs, run[r].step \in {"write", "put", "branch"}, Shape',
         UNCHANGED <<audited, approved>>, calm' \subseteq {r},
         \/ GoTo(r, "branch")
         \/ \E i \in Resources : FinishItem(r, i)
  PROVE  Inv'
<1> DEFINE s == run[r]
<1>1. s \in RunState /\ s.config \in Configs /\ Live(s.mode)
  BY RunFacts DEF Staged
<1>2. CASE GoTo(r, "branch")
  <2> DEFINE q == [s EXCEPT !.step = "branch"]
  <2>1. /\ q \in RunState /\ q.step = "branch" /\ q.seen = s.seen /\ q.config = s.config
        /\ q.verdict = s.verdict /\ q.mode = s.mode
    <3> HIDE DEF s
    <3> QED BY <1>1, StepState DEF Steps
  <2>2. run' = [run EXCEPT ![r] = q]
    BY <1>2 DEF GoTo
  <2> HIDE DEF q
  <2>3. Staged(q)
    BY <1>1, <2>1 DEF Staged
  <2> QED BY <1>1, <2>1, <2>2, <2>3, WriteKeepsInv
<1>3. ASSUME NEW i \in Resources, FinishItem(r, i) PROVE Inv'
  <2> DEFINE q == Done(s, i)
  <2>1. /\ q \in RunState
        /\ q.step = "write" \/ (q.step = "read" /\ q.at = 1)
        /\ q.seen["approved"] \in {s.seen["approved"], Unread} /\ q.config = s.config
        /\ q.verdict = s.verdict /\ q.mode = s.mode
    BY <1>1, DoneState
  <2>2. run' = [run EXCEPT ![r] = q]
    BY <1>3 DEF FinishItem
  <2> HIDE DEF q
  <2>3. Staged(q)
    BY <1>1, <2>1 DEF Staged
  <2> QED BY <1>1, <2>1, <2>2, <2>3, WriteKeepsInv
<1> QED BY <1>2, <1>3

\* What an item's write leaves in shape.
LEMMA ItemShape ==
  ASSUME Inv, NEW r \in Runs, GoTo(r, "branch") \/ \E i \in Resources : FinishItem(r, i),
         UNCHANGED <<scenario, ready, approved, audited>>, DisturbAllBut({r}),
         environment' \in Environment \cup {None}, ruleset' \in Ruleset,
         publishers' \in [Packages -> Seq(Publisher)]
  PROVE  Shape' /\ calm' \subseteq {r}
<1>1. calm' \subseteq {r} /\ calm' \subseteq Runs
  BY DEF DisturbAllBut, Inv, Shape
<1>2. run[r] \in RunState /\ run \in [Runs -> RunState]
  BY RunFacts DEF Inv, Shape
<1>3. CASE GoTo(r, "branch")
  <2>1. [run[r] EXCEPT !.step = "branch"] \in RunState
    BY <1>2 DEF RunState, Steps
  <2>2. run' = [run EXCEPT ![r] = [run[r] EXCEPT !.step = "branch"]]
    BY <1>3 DEF GoTo
  <2>3. run' \in [Runs -> RunState]
    BY <1>2, <2>1, <2>2
  <2> QED BY <1>1, <2>3 DEF Inv, Shape
<1>4. ASSUME NEW i \in Resources, FinishItem(r, i) PROVE Shape'
  <2>1. Done(run[r], i) \in RunState /\ run' = [run EXCEPT ![r] = Done(run[r], i)]
    BY <1>2, <1>4, DoneState DEF FinishItem
  <2>2. run' \in [Runs -> RunState]
    BY <1>2, <2>1
  <2> QED BY <1>1, <2>2 DEF Inv, Shape
<1> QED BY <1>1, <1>3, <1>4

LEMMA EnvironmentKeepsInv ==
  ASSUME Inv, NEW r \in Runs, CreateEnvironment(r) \/ PutEnvironment(r) \/ PostBranch(r)
  PROVE  Inv'
<1>1. environment \in Environment \cup {None} /\ run[r].reviewed \in BOOLEAN
  BY RunFacts DEF Inv, Shape, RunState
<1>2. environment' \in Environment \cup {None}
  <2>1. CASE CreateEnvironment(r)
    BY <1>1, <2>1, PutType DEF CreateEnvironment
  <2>2. CASE PutEnvironment(r)
    BY <1>1, <2>2, PutType DEF PutEnvironment, PutBody
  <2>3. CASE PostBranch(r)
    BY <1>1, <2>3 DEF PostBranch, Environment
  <2> QED BY <2>1, <2>2, <2>3
<1>3. GoTo(r, "branch") \/ \E i \in Resources : FinishItem(r, i)
  BY ResourceNames DEF CreateEnvironment, PutEnvironment, PostBranch
<1>4. /\ run[r].step \in {"write", "put", "branch"} /\ DisturbAllBut({r})
      /\ UNCHANGED <<ruleset, publishers, ready, approved, scenario, audited>>
  BY DEF CreateEnvironment, PutEnvironment, PostBranch, Writing
<1>5. Shape' /\ calm' \subseteq {r}
  BY <1>2, <1>3, <1>4, ItemShape DEF Inv, Shape
<1> QED BY <1>3, <1>4, <1>5, ItemWritten

LEMMA RulesetKeepsInv ==
  ASSUME Inv, NEW r \in Runs, CreateRuleset(r) \/ UpdateRuleset(r) PROVE Inv'
<1>1. ruleset' \in Ruleset
  BY DEF CreateRuleset, UpdateRuleset, Ruleset
<1>2. \E i \in Resources : FinishItem(r, i)
  BY ResourceNames DEF CreateRuleset, UpdateRuleset
<1>3. /\ run[r].step \in {"write", "put", "branch"} /\ DisturbAllBut({r})
      /\ UNCHANGED <<environment, publishers, ready, approved, scenario, audited>>
  BY DEF CreateRuleset, UpdateRuleset, Writing
<1>4. Shape' /\ calm' \subseteq {r}
  BY <1>1, <1>2, <1>3, ItemShape DEF Inv, Shape
<1> QED BY <1>2, <1>3, <1>4, ItemWritten

LEMMA PublisherKeepsInv == ASSUME Inv, NEW r \in Runs, AddPublisher(r) PROVE Inv'
<1>1. PICK p \in Packages : /\ publishers' = [publishers EXCEPT ![p] = Append(@, "ours")]
                            /\ FinishItem(r, p) /\ Writing(r, p, "CREATE")
  BY DEF AddPublisher
<1>2. publishers \in [Packages -> Seq(Publisher)] /\ "ours" \in Publisher
  BY DEF Inv, Shape, Publisher
<1>3. Append(publishers[p], "ours") \in Seq(Publisher)
  BY <1>2
<1>4. publishers' \in [Packages -> Seq(Publisher)]
  BY <1>1, <1>2, <1>3
<1>5. \E i \in Resources : FinishItem(r, i)
  BY <1>1, ResourceNames
<1>6. /\ run[r].step \in {"write", "put", "branch"} /\ DisturbAllBut({r})
      /\ UNCHANGED <<environment, ruleset, ready, approved, scenario, audited>>
  BY <1>1 DEF AddPublisher, Writing
<1>7. Shape' /\ calm' \subseteq {r}
  BY <1>4, <1>5, <1>6, ItemShape DEF Inv, Shape
<1> QED BY <1>5, <1>6, <1>7, ItemWritten

\* A step of a writing run that writes nothing.
LEMMA GoToKeepsInv ==
  ASSUME Inv, NEW r \in Runs, run[r].step \in {"write", "put", "branch"},
         NEW step \in {"put", "branch", "failed"}, GoTo(r, step),
         LocalOnly, UNCHANGED <<calm, audited>>
  PROVE  Inv'
<1> DEFINE s == run[r]
           q == [s EXCEPT !.step = step]
<1>1. s \in RunState /\ s.config \in Configs /\ Live(s.mode) /\ audited \subseteq Configs
  BY RunFacts DEF Staged, Inv, Shape
<1>2. /\ q \in RunState /\ q.step = step /\ q.seen = s.seen /\ q.config = s.config
      /\ q.verdict = s.verdict /\ q.mode = s.mode
  <2>1. step \in Steps
    BY DEF Steps
  <2> HIDE DEF s
  <2> QED BY <1>1, <2>1, StepState
<1>3. run' = [run EXCEPT ![r] = q]
  BY DEF GoTo
<1> HIDE DEF q
<1>4. Staged(q)
  BY <1>1, <1>2 DEF Staged
<1> QED BY <1>1, <1>2, <1>3, <1>4, RestingKeepsInv

LEMMA UpdateEnvironmentKeepsInv == ASSUME Inv, NEW r \in Runs, UpdateEnvironment(r) PROVE Inv'
<1> DEFINE s == run[r]
<1>1. /\ s.step = "write" /\ LocalOnly /\ UNCHANGED <<calm, audited>>
  BY DEF UpdateEnvironment, Writing, Undisturbed
<1>2. s \in RunState /\ s.config \in Configs /\ Live(s.mode) /\ audited \subseteq Configs
  BY <1>1, RunFacts DEF Staged, Inv, Shape
<1>3. CASE FinishItem(r, "environment")
  <2> DEFINE q == Done(s, "environment")
  <2>1. /\ q \in RunState
        /\ q.step = "write" \/ (q.step = "read" /\ q.at = 1)
        /\ q.seen["approved"] \in {s.seen["approved"], Unread} /\ q.config = s.config
        /\ q.verdict = s.verdict /\ q.mode = s.mode
    BY <1>2, DoneState, ResourceNames
  <2>2. run' = [run EXCEPT ![r] = q]
    BY <1>3 DEF FinishItem
  <2> HIDE DEF q
  <2>3. Staged(q)
    BY <1>2, <2>1 DEF Staged
  <2> QED BY <1>1, <1>2, <2>1, <2>2, <2>3, RestingKeepsInv
<1>4. CASE EnvironmentWrite(environment) = "put"
            /\ run' = [run EXCEPT ![r] = [@ EXCEPT !.step = "put", !.reviewed = environment.reviewed]]
  <2> DEFINE q == [s EXCEPT !.step = "put", !.reviewed = environment.reviewed]
  <2>1. environment.reviewed \in BOOLEAN
    <3>1. environment # None
      BY <1>4 DEF EnvironmentWrite
    <3> QED BY <3>1 DEF Inv, Shape, Environment
  <2>2. /\ q \in RunState /\ q.step = "put" /\ q.seen = s.seen /\ q.config = s.config
        /\ q.verdict = s.verdict /\ q.mode = s.mode
    <3> HIDE DEF s
    <3> QED BY <1>2, <2>1 DEF RunState, Steps
  <2>3. run' = [run EXCEPT ![r] = q]
    BY <1>4
  <2> HIDE DEF q
  <2>4. Staged(q)
    BY <1>2, <2>2 DEF Staged
  <2> QED BY <1>1, <1>2, <2>2, <2>3, <2>4, RestingKeepsInv
<1>5. CASE \E step \in {"put", "branch", "failed"} : GoTo(r, step)
  BY <1>1, <1>5, GoToKeepsInv
<1>6. \/ FinishItem(r, "environment")
      \/ /\ EnvironmentWrite(environment) = "put"
         /\ run' = [run EXCEPT ![r] = [@ EXCEPT !.step = "put", !.reviewed = environment.reviewed]]
      \/ \E step \in {"put", "branch", "failed"} : GoTo(r, step)
  <2>1. EnvironmentWrite(environment) \in {"nothing", "branch", "create", "put", "refuse"}
    BY DEF EnvironmentWrite
  <2> QED BY <2>1 DEF UpdateEnvironment
<1> QED BY <1>3, <1>4, <1>5, <1>6

LEMMA GoneKeepsInv == ASSUME Inv, NEW r \in Runs, Gone(r) PROVE Inv'
<1>1. /\ run[r].step \in {"write", "put", "branch"} /\ GoTo(r, "failed")
      /\ LocalOnly /\ UNCHANGED <<calm, audited>>
  BY DEF Gone, Writing, Undisturbed
<1> QED BY <1>1, GoToKeepsInv

LEMMA FinalKeepsInv == ASSUME Inv, NEW r \in Runs, Final(r) PROVE Inv'
<1> DEFINE s == run[r]
           p == [s EXCEPT !.verdict = Verdict(s.seen, s.config, s.attested)]
           q == IF p.seen["ready"] = "true" /\ ~PrerequisitesOf(r, p.seen)
                THEN [End(p) EXCEPT !.step = "failed"] ELSE End(p)
<1>1. s.step = "final" /\ run' = [run EXCEPT ![r] = q] /\ LocalOnly /\ UNCHANGED <<calm, audited>>
  BY DEF Final, Undisturbed
<1>2. s \in RunState /\ s.config \in Configs /\ Live(s.mode) /\ audited \subseteq Configs
  BY <1>1, RunFacts DEF Staged, Inv, Shape
<1>3. Verdict(s.seen, s.config, s.attested) \in {"BLOCKED", "READY", "NOT_READY"}
  BY VerdictTypes
<1>4. p \in RunState /\ p.config = s.config /\ p.verdict # "PASS" /\ p.mode = s.mode
  <2> HIDE DEF s
  <2> QED BY <1>2, <1>3 DEF RunState
<1> HIDE DEF p
<1>5. /\ End(p) \in RunState /\ End(p).step = "ended" /\ End(p).seen["approved"] = Unread
      /\ End(p).config = s.config /\ End(p).verdict # "PASS" /\ End(p).mode = s.mode
  BY <1>4, EndState, NothingSeenType
<1>6. /\ q \in RunState /\ q.step \in {"ended", "failed"} /\ q.seen["approved"] = Unread
      /\ q.config = s.config /\ q.verdict # "PASS" /\ q.mode = s.mode
  <2> DEFINE e == End(p)
             f == [e EXCEPT !.step = "failed"]
  <2>1. /\ e \in RunState /\ e.step = "ended" /\ e.seen["approved"] = Unread
        /\ e.config = s.config /\ e.verdict # "PASS" /\ e.mode = s.mode
    BY <1>5
  <2>2. q = e \/ q = f
    OBVIOUS
  <2> HIDE DEF e, q
  <2>3. /\ f \in RunState /\ f.step = "failed" /\ f.seen["approved"] = Unread
        /\ f.config = s.config /\ f.verdict # "PASS" /\ f.mode = s.mode
    BY <2>1, StepState DEF Steps
  <2> QED BY <2>1, <2>2, <2>3
<1> HIDE DEF q
<1>7. Staged(q)
  BY <1>2, <1>6 DEF Staged
<1> QED BY <1>1, <1>2, <1>6, <1>7, RestingKeepsInv

LEMMA DieKeepsInv == ASSUME Inv, NEW r \in Runs, Die(r) PROVE Inv'
<1> DEFINE s == run[r]
           e == End(s)
           q == [e EXCEPT !.step = "failed", !.todo = {}]
<1>1. s.step # "idle" /\ run' = [run EXCEPT ![r] = q] /\ LocalOnly /\ UNCHANGED <<calm, audited>>
  BY DEF Die
<1>2. s \in RunState /\ s.config \in Configs /\ Staged(s) /\ audited \subseteq Configs
  BY <1>1, RunFacts DEF Inv, Shape
<1>3. /\ e \in RunState /\ e.seen["approved"] = Unread /\ e.config = s.config
      /\ e.verdict = s.verdict /\ e.mode = s.mode /\ e.round = s.round
  BY <1>2, EndState, NothingSeenType
<1> HIDE DEF e
<1>4. /\ q \in RunState /\ q.step = "failed" /\ q.seen = e.seen /\ q.config = e.config
      /\ q.verdict = e.verdict /\ q.mode = e.mode /\ q.round = e.round
  BY <1>3 DEF RunState, Steps
<1> HIDE DEF q
<1>5. s.round = "plan" \/ Live(s.mode)
  BY <1>2 DEF Staged
<1>6. Staged(q)
  BY <1>3, <1>4, <1>5 DEF Staged
<1> QED BY <1>1, <1>2, <1>3, <1>4, <1>6, RestingKeepsInv

LEMMA StartKeepsInv == ASSUME Inv, NEW r \in Runs, Start(r) PROVE Inv'
<1>1. PICK c \in scenario.starts[r] :
        run' = [run EXCEPT ![r] = [Idle EXCEPT !.step = "read", !.mode = c.mode,
                                               !.config = c.config, !.attested = c.attested]]
  BY DEF Start
<1>2. c.mode \in Modes /\ c.config \in Configs /\ c.attested \in Attestations
  BY ScenariosAreBounds DEF Inv, Shape, Command
<1>3. LocalOnly /\ UNCHANGED <<calm, audited>>
  BY DEF Start, LocalOnly
<1> DEFINE i == Idle
           q == [i EXCEPT !.step = "read", !.mode = c.mode, !.config = c.config, !.attested = c.attested]
<1>4. i \in RunState /\ i.at = 1 /\ i.verdict = "none" /\ i.seen = NothingSeen /\ i.round = "plan"
  BY IdleState DEF Idle
<1>5. run' = [run EXCEPT ![r] = q]
  BY <1>1
<1> HIDE DEF i
<1>6. /\ q \in RunState /\ q.step = "read" /\ q.at = 1 /\ q.verdict = "none" /\ q.config \in Configs
      /\ q.seen["approved"] = Unread /\ q.round = "plan"
  BY <1>2, <1>4, NothingSeenType DEF RunState, Steps
<1> HIDE DEF q
<1>7. ASSUME run'[r] = q PROVE Knows(r)'
  <2>1. Staged(q)
    BY <1>6 DEF Staged
  <2>2. Vouched(r)'
    BY <1>6, <1>7, <2>1 DEF Vouched
  <2> QED BY <1>6, <1>7, <2>1, <2>2, Rests DEF Knows
<1> QED BY <1>3, <1>5, <1>6, <1>7, LocalKeepsInv DEF Inv, Shape

LEMMA ApproveKeepsInv == ASSUME Inv, NEW r \in Runs, Approve(r) PROVE Inv'
<1> DEFINE o == run[r]
           w == Append(o.wrote, "approved")
           s == [o EXCEPT !.wrote = w]
           q == IF s.mode = "audit-live" THEN End(s)
                ELSE IF s.seen["ready"] # "true" THEN [s EXCEPT !.step = "open"]
                ELSE Round(s, "final")
<1>1. /\ o.step = "approve" /\ approved' = o.config /\ DisturbAllBut({r})
      /\ UNCHANGED <<environment, ruleset, publishers, ready, scenario, audited>>
  BY DEF Approve
<1>2. run' = [run EXCEPT ![r] = q]
  BY DEF Approve
<1>3. o \in RunState /\ o.config \in Configs /\ Live(o.mode) /\ o.config \in audited
  BY <1>1, RunFacts DEF Staged, Vouched
<1>4. w \in Seq(Resources)
  BY <1>3, ResourceNames DEF RunState
<1>5. /\ s \in RunState /\ s.step = "approve" /\ s.seen = o.seen /\ s.config = o.config
      /\ s.attested = o.attested /\ s.verdict = o.verdict /\ s.mode = o.mode
  <2> HIDE DEF o, w
  <2>1. o.step = "approve"
    BY <1>1 DEF o
  <2> QED BY <1>3, <1>4, <2>1 DEF RunState
<1> HIDE DEF s
<1>6. calm' \subseteq {r} /\ calm' \subseteq Runs
  BY <1>1 DEF DisturbAllBut, Inv, Shape
<1>7. ASSUME q \in RunState PROVE Shape'
  <2> HIDE DEF q
  <2>1. run' \in [Runs -> RunState]
    BY <1>2, <1>7 DEF Inv, Shape
  <2> QED BY <1>1, <1>3, <1>6, <2>1 DEF Inv, Shape
<1>8. CASE s.mode = "audit-live"
  <2>1. /\ q \in RunState /\ q.step = "ended" /\ q.seen["approved"] = Unread
        /\ q.config = o.config /\ q.verdict = o.verdict /\ q.mode = o.mode
    BY <1>5, <1>8, EndState, NothingSeenType
  <2> HIDE DEF q
  <2>2. Staged(q)
    BY <1>3, <2>1 DEF Staged
  <2>3. Shape'
    BY <1>7, <2>1
  <2> QED BY <1>1, <1>2, <1>3, <1>6, <2>1, <2>2, <2>3, WriteKeepsInv
<1>9. CASE s.mode # "audit-live" /\ s.seen["ready"] = "true"
  <2>1. /\ q \in RunState /\ q.step = "read" /\ q.at = 1 /\ q.seen["approved"] = Unread
        /\ q.config = o.config /\ q.verdict = o.verdict /\ q.mode = o.mode
    BY <1>5, <1>9, RoundState, NothingSeenType
  <2> HIDE DEF q
  <2>2. Staged(q)
    BY <1>3, <2>1 DEF Staged
  <2>3. Shape'
    BY <1>7, <2>1
  <2> QED BY <1>1, <1>2, <1>3, <1>6, <2>1, <2>2, <2>3, WriteKeepsInv
<1>10. CASE s.mode # "audit-live" /\ s.seen["ready"] # "true"
  <2>1. /\ q \in RunState /\ q.step = "open" /\ q.seen = o.seen /\ q.attested = o.attested
        /\ q.config = o.config /\ q.verdict = o.verdict /\ q.mode = o.mode
    <3> DEFINE f == [s EXCEPT !.step = "open"]
    <3>1. /\ f \in RunState /\ f.step = "open" /\ f.seen = s.seen /\ f.attested = s.attested
          /\ f.config = s.config /\ f.verdict = s.verdict /\ f.mode = s.mode
      BY <1>5, StepState DEF Steps
    <3>2. q = f
      BY <1>10
    <3> HIDE DEF f, q, o
    <3> QED BY <1>5, <3>1, <3>2
  <2> HIDE DEF q
  <2>2. Staged(q) /\ Shape'
    BY <1>3, <1>7, <2>1 DEF Staged
  <2>3. ASSUME run'[r] = q PROVE Knows(r)'
    <3>1. Vouched(r)'
      BY <1>1, <1>3, <2>1, <2>3, RunFacts DEF Vouched
    <3>2. Progressed(r)'
      BY <2>1, <2>3 DEF Progressed
    <3>3. r \in calm => Prerequisites(Remote, o.config, o.attested)
      BY <1>1, RunFacts DEF Faithful
    <3>4. \A i \in {"environment", "ruleset"} \cup Packages : Remote[i] = Remote[i]'
      BY <1>1, ResourceNames, RemoteFields DEF Remote
    <3>5. Prerequisites(Remote, o.config, o.attested) = Prerequisites(Remote', o.config, o.attested)
      BY <3>4, SamePrerequisites
    <3>6. r \in calm' => r \in calm
      BY <1>1 DEF DisturbAllBut
    <3>7. Faithful(r)'
      BY <1>1, <2>1, <2>3, <3>3, <3>5, <3>6 DEF Faithful
    <3> QED BY <2>2, <2>3, <3>1, <3>2, <3>7 DEF Knows
  <2>4. audited' = audited /\ audited \subseteq Configs /\ approved' \in audited'
    BY <1>1, <1>3 DEF Inv, Shape
  <2> QED BY <1>2, <1>6, <2>1, <2>2, <2>3, <2>4, Frame
<1> QED BY <1>8, <1>9, <1>10

LEMMA OpenKeepsInv == ASSUME Inv, NEW r \in Runs, Open(r) PROVE Inv'
<1> DEFINE o == run[r]
           w == Append(o.wrote, "ready")
           s == [o EXCEPT !.wrote = w]
           q == Round(s, "final")
<1>1. /\ o.step = "open" /\ ready' = "true" /\ DisturbAllBut({r})
      /\ UNCHANGED <<environment, ruleset, publishers, approved, scenario, audited>>
      /\ run' = [run EXCEPT ![r] = q]
  BY DEF Open
<1>2. o \in RunState /\ o.config \in Configs /\ Live(o.mode)
  BY <1>1, RunFacts DEF Staged
<1>3. w \in Seq(Resources)
  BY <1>2, ResourceNames DEF RunState
<1>4. s \in RunState /\ s.config = o.config /\ s.verdict = o.verdict /\ s.mode = o.mode
  <2> HIDE DEF o, w
  <2> QED BY <1>2, <1>3 DEF RunState
<1> HIDE DEF s
<1>5. /\ q \in RunState /\ q.step = "read" /\ q.at = 1 /\ q.seen["approved"] = Unread
      /\ q.config = o.config /\ q.verdict = o.verdict /\ q.mode = o.mode
  BY <1>4, RoundState, NothingSeenType
<1> HIDE DEF q
<1>6. Staged(q)
  BY <1>2, <1>5 DEF Staged
<1>7. calm' \subseteq {r} /\ calm' \subseteq Runs
  BY <1>1 DEF DisturbAllBut, Inv, Shape
<1>8. Shape'
  <2>1. run' \in [Runs -> RunState]
    BY <1>1, <1>5 DEF Inv, Shape
  <2> QED BY <1>1, <1>7, <2>1 DEF Inv, Shape
<1> QED BY <1>1, <1>2, <1>5, <1>6, <1>7, <1>8, WriteKeepsInv

-----------------------------------------------------------------------------
(* What maintainers do, and the whole.                                       *)

LEMMA MaintainerKeepsInv == ASSUME Inv, Maintainer PROVE Inv'
<1>1. calm' = {} /\ UNCHANGED <<run, scenario>>
  BY DEF Maintainer, ChangeEnvironment, ChangeRuleset, ChangePublishers, ChangeReady, ChangeApproved,
         ByHand, DisturbAllBut
<1>2. /\ environment' \in Environment \cup {None} /\ ruleset' \in Ruleset
      /\ publishers' \in [Packages -> Seq(Publisher)] /\ ready' \in {"true", "other"}
  <2>1. /\ environment \in Environment \cup {None} /\ ruleset \in Ruleset
        /\ publishers \in [Packages -> Seq(Publisher)] /\ ready \in {"true", "other"}
    BY DEF Inv, Shape
  <2>2. CASE ChangeEnvironment
    BY <2>1, <2>2, ScenariosAreBounds DEF ChangeEnvironment, Inv, Shape
  <2>3. CASE ChangePublishers
    <3>1. <<>> \in Seq(Publisher) /\ <<"ours">> \in Seq(Publisher) /\ <<"foreign">> \in Seq(Publisher)
          /\ <<"ours", "foreign">> \in Seq(Publisher)
      BY EmptySeq DEF Publisher
    <3>2. PICK p \in Packages, list \in Seq(Publisher) : publishers' = [publishers EXCEPT ![p] = list]
      BY <2>3, <3>1 DEF ChangePublishers
    <3> QED BY <2>1, <2>3, <3>2 DEF ChangePublishers
  <2>4. CASE ChangeRuleset \/ ChangeReady \/ ChangeApproved
    BY <2>1, <2>4 DEF ChangeRuleset, ChangeReady, ChangeApproved
  <2> QED BY <2>2, <2>3, <2>4 DEF Maintainer
<1>3. /\ approved' \in Configs \cup {None} /\ approved' \in audited' \cup {None}
      /\ audited \subseteq audited' /\ audited' \subseteq Configs
  <2>1. approved \in audited \cup {None} /\ audited \subseteq Configs
    BY DEF Inv, Shape
  <2>2. CASE ChangeApproved
    BY <2>1, <2>2 DEF ChangeApproved
  <2>3. CASE ChangeEnvironment \/ ChangePublishers \/ ChangeRuleset \/ ChangeReady
    BY <2>1, <2>3 DEF ChangeEnvironment, ChangePublishers, ChangeRuleset, ChangeReady
  <2> QED BY <2>2, <2>3 DEF Maintainer
<1>4. Shape'
  BY <1>1, <1>2, <1>3 DEF Inv, Shape
<1>5. ASSUME NEW r \in Runs PROVE Knows(r)'
  BY <1>1, <1>3 DEF Inv, Knows, Vouched, Progressed, LastRead, Faithful
<1> QED BY <1>3, <1>4, <1>5 DEF Inv

LEMMA InitInv == Init => Inv
<1> SUFFICES ASSUME Init PROVE Inv
  OBVIOUS
<1>1. Idle \in RunState /\ run = [r \in Runs |-> Idle]
  BY IdleState DEF Init
<1>2. /\ scenario.environments \subseteq Environment \cup {None} /\ scenario.rulesets \subseteq Ruleset
      /\ scenario.publishers \subseteq Seq(Publisher) /\ scenario.ready \subseteq {"true", "other"}
      /\ scenario.approved \subseteq Configs \cup {None} /\ scenario \in Scenarios
  BY ScenariosAreBounds DEF Init
<1>3. publishers \in [Packages -> Seq(Publisher)]
  BY <1>2 DEF Init
<1>4. Shape
  BY <1>1, <1>2, <1>3 DEF Init, Shape
<1>5. approved \in audited \cup {None}
  BY <1>2 DEF Init
<1>6. ASSUME NEW r \in Runs PROVE Knows(r)
  <2>1. run[r] = Idle /\ calm = {} /\ Idle.round = "plan"
    BY <1>1 DEF Init, Idle
  <2>2. Vouched(r)
    BY <2>1, IdleState, NothingSeenType DEF Vouched
  <2> QED BY <2>1, <2>2, IdleState DEF Knows, Progressed, Staged, Faithful
<1> QED BY <1>4, <1>5, <1>6 DEF Inv

LEMMA InvInductive == Inv /\ [Next]_vars => Inv'
<1> SUFFICES ASSUME Inv, [Next]_vars PROVE Inv'
  OBVIOUS
<1>1. ASSUME NEW r \in Runs, Start(r) \/ Progress(r) \/ Die(r) PROVE Inv'
  <2>1. CASE Start(r) \/ Die(r)
    BY <2>1, StartKeepsInv, DieKeepsInv
  <2>2. CASE \/ ReadEnvironment(r) \/ ReadRuleset(r) \/ ReadReady(r) \/ ReadApproved(r) \/ ReadPackage(r)
    BY <2>2, ReadingKeepsInv
  <2>3. CASE PlanCheck(r) \/ PlanAudit(r) \/ PlanApply(r)
    BY <2>3, PlanCheckKeepsInv, PlanAuditKeepsInv, PlanApplyKeepsInv
  <2>4. CASE CreateEnvironment(r) \/ PutEnvironment(r) \/ PostBranch(r) \/ UpdateEnvironment(r)
    BY <2>4, EnvironmentKeepsInv, UpdateEnvironmentKeepsInv
  <2>5. CASE CreateRuleset(r) \/ UpdateRuleset(r) \/ AddPublisher(r) \/ Gone(r)
    BY <2>5, RulesetKeepsInv, PublisherKeepsInv, GoneKeepsInv
  <2>6. CASE ReadBack(r) \/ Approve(r) \/ Open(r) \/ Final(r)
    BY <2>6, ReadBackKeepsInv, ApproveKeepsInv, OpenKeepsInv, FinalKeepsInv
  <2> QED BY <1>1, <2>1, <2>2, <2>3, <2>4, <2>5, <2>6 DEF Progress
<1>2. CASE Maintainer
  BY <1>2, MaintainerKeepsInv
<1>3. CASE UNCHANGED vars
  <2>1. Remote' = Remote
    BY <1>3 DEF vars, Remote
  <2>2. Shape'
    BY <1>3 DEF Inv, Shape, vars
  <2>3. ASSUME NEW r \in Runs PROVE Knows(r)'
    BY <1>3, <2>1 DEF Inv, Knows, Vouched, Progressed, LastRead, Faithful, vars
  <2> QED BY <1>3, <2>2, <2>3 DEF Inv, vars
<1> QED BY <1>1, <1>2, <1>3 DEF Next

-----------------------------------------------------------------------------
(* What a run has written, and what it still owes.                           *)

Writable == {"environment", "ruleset"} \cup Packages
Written(s) == {s.wrote[i] : i \in DOMAIN s.wrote}

\* A run deals with no resource twice, and READY comes last.
Once(w) ==
  \A i, j \in DOMAIN w :
    /\ w[i] = w[j] => i = j
    /\ w[j] = "ready" => i <= j

\* What is pending is not written yet, and the variables come after all else.
Tidy(s) ==
  /\ s.at \in 1 .. Len(Order) + 1 /\ Once(s.wrote)
  /\ s.step \in {"plan", "readback", "final"} => s.round = s.step
  /\ s.round = "plan" /\ s.step \in {"read", "plan"} => s.wrote = <<>>
  /\ s.step \in {"write", "put", "branch"} => s.todo \subseteq Writable \ Written(s)
  /\ s.step \in {"put", "branch"} => "environment" \in s.todo
  /\ \/ s.step \in {"write", "put", "branch", "readback", "approve"}
     \/ s.step = "read" /\ s.round = "readback"
     => Written(s) \subseteq Writable
  /\ s.step = "open" => "ready" \notin Written(s)

\* While nobody interferes, what is pending is as the plan has found it.
Grounded(r) ==
  r \in calm =>
    /\ run[r].step \in {"write", "put", "branch"} =>
         \A i \in run[r].todo :
           i # "environment" \/ run[r].step = "write" => run[r].seen[i] = Remote[i]
    /\ run[r].step = "put" /\ environment # None => (environment.reviewed => run[r].reviewed)

\* Everything is in place for a run, and stays so until somebody interferes.
InPlace(s) ==
  /\ Prerequisites(Remote, s.config, s.attested) /\ ~environment.token
  /\ ready = "true" /\ approved = s.config

\* A run that finds everything in place goes through it from end to end.
Orderly(r) ==
  promise[r] = "quiet" =>
    /\ InPlace(run[r]) /\ run[r].wrote = <<>> /\ run[r].mode \in {"apply", "audit-live"}
    /\ run[r].step \in {"read", "plan", "readback", "ended"}
    /\ run[r].round \in {"plan", "readback"}
    /\ run[r].step # "ended" =>
         \A k \in 1 .. run[r].at - 1 : run[r].seen[Order[k]] = Remote[Order[k]]
    /\ run[r].step = "ended" \/ run[r].round = "readback" => run[r].verdict = "READY"

Pledges == promise \in [Runs -> {"nothing", "quiet", "ready"}]

Steady(r) == Tidy(run[r]) /\ Grounded(r) /\ Orderly(r)
SteadyInv == Inv /\ Pledges /\ \A r \in Runs : Steady(r)

-----------------------------------------------------------------------------
(* What a run has written.                                                   *)

LEMMA WrittenEmpty == ASSUME NEW s, s.wrote = <<>> PROVE Written(s) = {} /\ Once(s.wrote)
  BY EmptySeq DEF Written, Once

\* One more resource that was not written yet, READY not being among them.
LEMMA WrittenOnce ==
  ASSUME NEW s \in RunState, NEW t, NEW i \in Resources, t.wrote = Append(s.wrote, i),
         Once(s.wrote), i \notin Written(s), "ready" \notin Written(s)
  PROVE  Written(t) = Written(s) \cup {i} /\ Once(t.wrote)
<1> DEFINE w == s.wrote
           n == Len(w)
           v == Append(w, i)
<1>1. w \in Seq(Resources) /\ n \in Nat /\ DOMAIN w = 1 .. n
  BY LenProperties DEF RunState
<1>2. /\ DOMAIN v = 1 .. n + 1 /\ v[n + 1] = i
      /\ \A k \in 1 .. n : v[k] = w[k]
  BY <1>1, AppendProperties, LenProperties
<1>3. t.wrote = v
  OBVIOUS
<1>4. \A k \in 1 .. n : w[k] # i /\ w[k] # "ready"
  BY <1>1 DEF Written
<1>5. \A j, k \in 1 .. n : (w[j] = w[k] => j = k) /\ (w[k] = "ready" => j <= k)
  BY <1>1 DEF Once
<1> HIDE DEF w, n, v
<1>6. {v[k] : k \in 1 .. n + 1} = {w[k] : k \in 1 .. n} \cup {i}
  <2>1. 1 .. n + 1 = (1 .. n) \cup {n + 1}
    BY <1>1
  <2> QED
    BY <1>2, <2>1
<1>7. Once(v)
  <2> SUFFICES ASSUME NEW j \in 1 .. n + 1, NEW k \in 1 .. n + 1
               PROVE  (v[j] = v[k] => j = k) /\ (v[k] = "ready" => j <= k)
    BY <1>2 DEF Once
  <2>1. CASE k = n + 1
    BY <1>1, <1>2, <1>4, <2>1
  <2>2. CASE k \in 1 .. n
    BY <1>1, <1>2, <1>4, <1>5, <2>2
  <2> QED
    BY <1>1, <2>1, <2>2
<1> QED
  BY <1>1, <1>2, <1>3, <1>6, <1>7 DEF Written, w

LEMMA WritableNames ==
  /\ Writable \subseteq Resources
  /\ "environment" \in Writable /\ "ruleset" \in Writable /\ Packages \subseteq Writable
  /\ "ready" \notin Writable /\ "approved" \notin Writable
  BY ResourceNames DEF Writable

LEMMA TidyEnd ==
  ASSUME NEW s \in RunState, s.at \in 1 .. Len(Order) + 1, Once(s.wrote)
  PROVE  Tidy(End(s)) /\ End(s).wrote = s.wrote
<1>1. /\ End(s).step = "ended" /\ End(s).at = s.at /\ End(s).wrote = s.wrote
  BY DEF End, RunState
<1> HIDE DEF End
<1> QED
  BY <1>1 DEF Tidy

LEMMA TidyRound ==
  ASSUME NEW s \in RunState, NEW round \in {"readback", "final"}, Once(s.wrote),
         round = "readback" => Written(s) \subseteq Writable
  PROVE  Tidy(Round(s, round)) /\ Round(s, round).wrote = s.wrote
<1> DEFINE q == Round(s, round)
<1>1. q.step = "read" /\ q.at = 1 /\ q.round = round /\ q.wrote = s.wrote
  BY DEF Round, RunState
<1>2. Len(Order) \in Nat
  BY OrderCovers
<1>3. Written(q) = Written(s)
  BY <1>1 DEF Written
<1> HIDE DEF q
<1>4. Tidy(q)
  BY <1>1, <1>2, <1>3 DEF Tidy
<1> QED
  BY <1>1, <1>4 DEF q

\* A step further, with what was written as it was.
LEMMA TidyGoes ==
  ASSUME NEW s \in RunState, Tidy(s), NEW t,
         t.step \in {"write", "put", "branch", "approve", "open", "failed"}, t.at = s.at, t.wrote = s.wrote,
         t.step \in {"write", "put", "branch"} => t.todo \subseteq Writable \ Written(s),
         t.step \in {"put", "branch"} => "environment" \in t.todo,
         t.step \in {"write", "put", "branch", "approve"} => Written(s) \subseteq Writable,
         t.step = "open" => "ready" \notin Written(s)
  PROVE  Tidy(t)
<1>1. Written(t) = Written(s)
  BY DEF Written
<1> QED
  BY <1>1 DEF Tidy

\* The first of the pending items is one of them.
LEMMA FirstPends == ASSUME NEW i, NEW items, IsFirst(i, items) PROVE i \in items
  BY DEF IsFirst

LEMMA TidyDone ==
  ASSUME NEW s \in RunState, Tidy(s), s.step \in {"write", "put", "branch"}, NEW i \in s.todo
  PROVE  /\ Tidy(Done(s, i))
         /\ \/ Done(s, i).step = "write" /\ Done(s, i).todo = s.todo \ {i} /\ Done(s, i).seen = s.seen
            \/ Done(s, i).step = "read"
<1> DEFINE w == Append(s.wrote, i)
           d == s.todo \ {i}
           n == [s EXCEPT !.wrote = w, !.todo = d, !.step = "write"]
<1>1. /\ i \in Writable /\ i \in Resources /\ i \notin Written(s)
      /\ Written(s) \subseteq Writable /\ "ready" \notin Written(s)
  BY WritableNames DEF Tidy
<1>2. w \in Seq(Resources) /\ d \in SUBSET Resources
  BY <1>1 DEF RunState
<1>3. Done(s, i) = IF n.todo = {} THEN Round(n, "readback") ELSE n
  BY DEF Done
<1>4. w = Append(s.wrote, i) /\ d = s.todo \ {i}
  OBVIOUS
<1> HIDE DEF w, d
<1>5. /\ n \in RunState /\ n.step = "write" /\ n.seen = s.seen /\ n.wrote = w /\ n.todo = d
      /\ n.at = s.at
  BY <1>2 DEF RunState, Steps
<1> HIDE DEF n
<1>6. Written(n) = Written(s) \cup {i} /\ Once(n.wrote)
  BY <1>1, <1>4, <1>5, WrittenOnce DEF Tidy
<1>7. CASE n.todo = {}
  <2>1. Tidy(Round(n, "readback"))
    BY <1>1, <1>5, <1>6, TidyRound
  <2>2. Round(n, "readback").step = "read"
    BY <1>5, RoundState
  <2> QED
    BY <1>3, <1>7, <2>1, <2>2
<1>8. CASE n.todo # {}
  <2>1. Tidy(n)
    BY <1>1, <1>4, <1>5, <1>6 DEF Tidy
  <2> QED
    BY <1>3, <1>4, <1>5, <1>8, <2>1
<1> QED
  BY <1>7, <1>8

-----------------------------------------------------------------------------
(* Every step of a run keeps it tidy.                                        *)

LEMMA NewRecord ==
  ASSUME Inv, NEW r \in Runs, NEW s, run' = [run EXCEPT ![r] = s]
  PROVE  run'[r] = s
  BY DEF Inv, Shape

LEMMA ReadTidies ==
  ASSUME Inv, NEW r \in Runs, Tidy(run[r]), NEW i, NEW value, Observe(r, i, value)
  PROVE  Tidy(run'[r])
<1> DEFINE s == run[r]
           u == [s.seen EXCEPT ![i] = value]
           step == IF s.at = LastRead(r) THEN s.round ELSE "read"
           t == [s EXCEPT !.seen = u, !.at = s.at + 1, !.step = step]
<1>1. /\ s \in RunState /\ s.step = "read" /\ run' = [run EXCEPT ![r] = t]
      /\ s.at \in 1 .. LastRead(r) /\ LastRead(r) \in 1 .. Len(Order) /\ Len(Order) \in Nat
  BY RunFacts, OrderCovers DEF Observe, Progressed, LastRead
<1>2. step \in {"read", s.round} /\ s.round \in {"plan", "readback", "final"}
  BY <1>1 DEF RunState
<1> HIDE DEF step
<1>3. /\ t.step = step /\ t.at = s.at + 1 /\ t.round = s.round /\ t.wrote = s.wrote
  <2> HIDE DEF s, u
  <2> QED
    BY <1>1 DEF RunState
<1>4. run'[r] = t
  BY <1>1, NewRecord
<1> HIDE DEF t
<1>5. Tidy(t)
  BY <1>1, <1>2, <1>3 DEF Tidy, Written
<1> QED
  BY <1>4, <1>5

LEMMA StartTidies == ASSUME Inv, NEW r \in Runs, Start(r) PROVE Tidy(run'[r])
<1>1. PICK c : run' = [run EXCEPT ![r] = [Idle EXCEPT !.step = "read", !.mode = c.mode,
                                                      !.config = c.config, !.attested = c.attested]]
  BY DEF Start
<1> DEFINE i == Idle
           q == [i EXCEPT !.step = "read", !.mode = c.mode, !.config = c.config, !.attested = c.attested]
<1>2. i \in RunState /\ i.at = 1 /\ i.wrote = <<>> /\ i.round = "plan"
  BY IdleState DEF Idle
<1>3. run'[r] = q
  BY <1>1, NewRecord
<1> HIDE DEF i
<1>4. q.step = "read" /\ q.at = 1 /\ q.wrote = <<>> /\ q.round = "plan"
  BY <1>2 DEF RunState
<1> HIDE DEF q
<1>5. Tidy(q)
  BY <1>4, WrittenEmpty, OrderCovers DEF Tidy
<1> QED
  BY <1>3, <1>5

LEMMA PlanTidies ==
  ASSUME Inv, NEW r \in Runs, Tidy(run[r]), PlanCheck(r) \/ PlanAudit(r) \/ PlanApply(r)
  PROVE  Tidy(run'[r])
<1> DEFINE s == run[r]
           v == IF s.mode = "check-agent" THEN AgentVerdict(s.seen, s.config, s.attested)
                ELSE Verdict(s.seen, s.config, s.attested)
           p == [s EXCEPT !.verdict = v]
           d == [s EXCEPT !.verdict = v, !.todo = Pending(s.seen)]
<1>1. /\ s \in RunState /\ s.step = "plan" /\ s.at \in 1 .. Len(Order) + 1
      /\ s.wrote = <<>> /\ Written(s) = {} /\ Once(s.wrote)
  BY RunFacts, WrittenEmpty DEF PlanCheck, PlanAudit, PlanApply, Tidy
<1>2. v \in {"BLOCKED", "READY", "NOT_READY", "PASS", "LIVE_AUDIT_REQUIRED"}
      /\ Pending(s.seen) \subseteq Writable
  BY VerdictTypes DEF Pending, Writable
<1>3. \/ run' = [run EXCEPT ![r] = End(p)]
      \/ run' = [run EXCEPT ![r] = [p EXCEPT !.step = "approve"]]
      \/ run' = [run EXCEPT ![r] = End([d EXCEPT !.todo = {}])]
      \/ run' = [run EXCEPT ![r] = [d EXCEPT !.step = "write"]]
      \/ run' = [run EXCEPT ![r] = Round(d, "readback")]
  <2>1. CASE PlanCheck(r)
    BY <2>1 DEF PlanCheck
  <2>2. CASE PlanAudit(r)
    BY <2>2 DEF PlanAudit
  <2>3. CASE PlanApply(r)
    BY <2>3 DEF PlanApply
  <2> QED
    BY <2>1, <2>2, <2>3
<1> HIDE DEF v
<1>4. /\ p \in RunState /\ p.at = s.at /\ p.wrote = s.wrote
      /\ d \in RunState /\ d.at = s.at /\ d.wrote = s.wrote /\ d.todo = Pending(s.seen)
  <2>1. Pending(s.seen) \subseteq Resources
    BY <1>2, WritableNames
  <2> HIDE DEF s
  <2> QED
    BY <1>1, <1>2, <2>1 DEF RunState
<1> HIDE DEF p, d
<1>5. CASE run' = [run EXCEPT ![r] = End(p)]
  BY <1>1, <1>4, <1>5, TidyEnd, NewRecord
<1>6. CASE run' = [run EXCEPT ![r] = [p EXCEPT !.step = "approve"]]
  <2> DEFINE q == [p EXCEPT !.step = "approve"]
  <2>1. q.step = "approve" /\ q.at = s.at /\ q.wrote = s.wrote
    BY <1>4 DEF RunState
  <2>2. run'[r] = q
    BY <1>6, NewRecord
  <2> HIDE DEF q
  <2> QED
    BY <1>1, <2>1, <2>2, TidyGoes
<1>7. CASE run' = [run EXCEPT ![r] = End([d EXCEPT !.todo = {}])]
  <2> DEFINE q == [d EXCEPT !.todo = {}]
  <2>1. q \in RunState /\ q.at = s.at /\ q.wrote = s.wrote
    BY <1>4 DEF RunState
  <2>2. run'[r] = End(q)
    BY <1>7, NewRecord
  <2> HIDE DEF q
  <2> QED
    BY <1>1, <2>1, <2>2, TidyEnd
<1>8. CASE run' = [run EXCEPT ![r] = [d EXCEPT !.step = "write"]]
  <2> DEFINE q == [d EXCEPT !.step = "write"]
  <2>1. q.step = "write" /\ q.at = s.at /\ q.wrote = s.wrote /\ q.todo = Pending(s.seen)
    BY <1>4 DEF RunState
  <2>2. run'[r] = q
    BY <1>8, NewRecord
  <2> HIDE DEF q
  <2> QED
    BY <1>1, <1>2, <2>1, <2>2, TidyGoes
<1>9. CASE run' = [run EXCEPT ![r] = Round(d, "readback")]
  <2>1. Written(d) = {}
    BY <1>1, <1>4, WrittenEmpty
  <2> QED
    BY <1>1, <1>4, <1>9, <2>1, TidyRound, NewRecord
<1> QED
  BY <1>3, <1>5, <1>6, <1>7, <1>8, <1>9

\* A run that only goes to another step.
LEMMA GoesTidily ==
  ASSUME Inv, NEW r \in Runs, Tidy(run[r]), run[r].step \in {"write", "put", "branch"},
         NEW step \in {"put", "branch", "failed"}, GoTo(r, step),
         step # "failed" => "environment" \in run[r].todo
  PROVE  Tidy(run'[r]) /\ run'[r].step = step /\ run'[r].todo = run[r].todo /\ run'[r].seen = run[r].seen
<1> DEFINE s == run[r]
           q == [s EXCEPT !.step = step]
<1>1. run' = [run EXCEPT ![r] = q]
  BY DEF GoTo
<1>2. run'[r] = q /\ s \in RunState
  BY <1>1, NewRecord, RunFacts
<1>3. q.step = step /\ q.at = s.at /\ q.wrote = s.wrote /\ q.todo = s.todo /\ q.seen = s.seen
  BY <1>2 DEF RunState
<1>4. s.todo \subseteq Writable \ Written(s) /\ Written(s) \subseteq Writable
  BY DEF Tidy
<1> HIDE DEF q
<1>5. Tidy(q)
  BY <1>2, <1>3, <1>4, TidyGoes
<1> QED
  BY <1>2, <1>3, <1>5

LEMMA FinishesTidily ==
  ASSUME Inv, NEW r \in Runs, Tidy(run[r]), run[r].step \in {"write", "put", "branch"},
         NEW i \in run[r].todo, FinishItem(r, i)
  PROVE  /\ Tidy(run'[r])
         /\ \/ run'[r].step = "write" /\ run'[r].todo = run[r].todo \ {i} /\ run'[r].seen = run[r].seen
            \/ run'[r].step = "read"
<1>1. run'[r] = Done(run[r], i)
  BY NewRecord DEF FinishItem
<1> QED
  BY <1>1, RunFacts, TidyDone

\* What each of the writes does to the record of the run.
LEMMA WriteTidies ==
  ASSUME Inv, NEW r \in Runs, Tidy(run[r]),
         \/ CreateEnvironment(r) \/ UpdateEnvironment(r) \/ PutEnvironment(r) \/ PostBranch(r)
         \/ CreateRuleset(r) \/ UpdateRuleset(r) \/ AddPublisher(r) \/ Gone(r)
  PROVE  Tidy(run'[r])
<1> DEFINE s == run[r]
<1>1. s.step \in {"write", "put", "branch"}
  BY DEF CreateEnvironment, UpdateEnvironment, PutEnvironment, PostBranch, CreateRuleset,
         UpdateRuleset, AddPublisher, Gone, Writing
<1>2. CASE Gone(r)
  BY <1>1, <1>2, GoesTidily DEF Gone
<1>3. CASE CreateEnvironment(r) \/ UpdateEnvironment(r) \/ PutEnvironment(r) \/ PostBranch(r)
  <2>1. "environment" \in s.todo
    BY <1>1, <1>3, FirstPends
       DEF CreateEnvironment, UpdateEnvironment, PutEnvironment, PostBranch, Writing, Tidy
  <2>2. CASE (\E step \in {"put", "branch", "failed"} : GoTo(r, step)) \/ FinishItem(r, "environment")
    BY <1>1, <2>1, <2>2, GoesTidily, FinishesTidily
  <2>3. CASE /\ EnvironmentWrite(environment) = "put"
             /\ run' = [run EXCEPT ![r] = [@ EXCEPT !.step = "put", !.reviewed = environment.reviewed]]
    <3> DEFINE q == [s EXCEPT !.step = "put", !.reviewed = environment.reviewed]
    <3>1. run' = [run EXCEPT ![r] = q]
      BY <2>3
    <3>2. run'[r] = q /\ s \in RunState
      BY <3>1, NewRecord, RunFacts
    <3>3. q.step = "put" /\ q.at = s.at /\ q.wrote = s.wrote /\ q.todo = s.todo
      BY <3>2 DEF RunState
    <3>4. s.todo \subseteq Writable \ Written(s) /\ Written(s) \subseteq Writable
      BY <1>1 DEF Tidy
    <3> HIDE DEF q
    <3>5. Tidy(q)
      BY <2>1, <3>2, <3>3, <3>4, TidyGoes
    <3> QED
      BY <3>2, <3>5
  <2>4. CASE UpdateEnvironment(r)
    <3>1. EnvironmentWrite(environment) \in {"nothing", "branch", "create", "put", "refuse"}
      BY DEF EnvironmentWrite
    <3> QED
      BY <2>2, <2>3, <2>4, <3>1 DEF UpdateEnvironment
  <2> QED
    BY <1>3, <2>2, <2>4 DEF CreateEnvironment, PutEnvironment, PostBranch
<1>4. CASE CreateRuleset(r) \/ UpdateRuleset(r)
  BY <1>1, <1>4, FirstPends, FinishesTidily DEF CreateRuleset, UpdateRuleset, Writing
<1>5. CASE AddPublisher(r)
  <2>1. PICK p \in Packages : Writing(r, p, "CREATE") /\ FinishItem(r, p)
    BY <1>5 DEF AddPublisher
  <2> QED
    BY <1>1, <2>1, FirstPends, FinishesTidily DEF Writing
<1> QED
  BY <1>2, <1>3, <1>4, <1>5

LEMMA ReadBackTidies == ASSUME Inv, NEW r \in Runs, Tidy(run[r]), ReadBack(r) PROVE Tidy(run'[r])
<1> DEFINE s == run[r]
<1>1. /\ s \in RunState /\ s.at \in 1 .. Len(Order) + 1 /\ Once(s.wrote)
      /\ Written(s) \subseteq Writable /\ "ready" \notin Written(s)
  BY RunFacts, WritableNames DEF ReadBack, Tidy
<1>2. CASE run' = [run EXCEPT ![r] = AfterWrites(s)]
  BY <1>1, <1>2, TidyEnd, TidyRound, NewRecord DEF AfterWrites
<1>3. ASSUME NEW step \in {"approve", "open"}, run' = [run EXCEPT ![r] = [s EXCEPT !.step = step]]
      PROVE  Tidy(run'[r])
  <2> DEFINE q == [s EXCEPT !.step = step]
  <2>1. q.step = step /\ q.at = s.at /\ q.wrote = s.wrote
    BY <1>1 DEF RunState
  <2>2. run'[r] = q
    BY <1>3, NewRecord
  <2> HIDE DEF q
  <2> QED
    BY <1>1, <2>1, <2>2, TidyGoes
<1> QED
  BY <1>2, <1>3 DEF ReadBack

LEMMA ApproveTidies == ASSUME Inv, NEW r \in Runs, Tidy(run[r]), Approve(r) PROVE Tidy(run'[r])
<1> DEFINE o == run[r]
           w == Append(o.wrote, "approved")
           s == [o EXCEPT !.wrote = w]
<1>1. /\ o \in RunState /\ o.at \in 1 .. Len(Order) + 1 /\ Once(o.wrote) /\ o.step = "approve"
      /\ Written(o) \subseteq Writable /\ "approved" \in Resources
  BY RunFacts, ResourceNames DEF Approve, Tidy
<1>2. w \in Seq(Resources) /\ w = Append(o.wrote, "approved")
  BY <1>1 DEF RunState
<1>3. \/ run' = [run EXCEPT ![r] = End(s)]
      \/ run' = [run EXCEPT ![r] = [s EXCEPT !.step = "open"]]
      \/ run' = [run EXCEPT ![r] = Round(s, "final")]
  BY DEF Approve
<1> HIDE DEF w
<1>4. s \in RunState /\ s.at = o.at /\ s.wrote = w
  <2> HIDE DEF o
  <2> QED
    BY <1>1, <1>2 DEF RunState
<1> HIDE DEF s
<1>5. Once(s.wrote) /\ "ready" \notin Written(s)
  <2>1. "ready" \notin Written(o) /\ "approved" \notin Written(o)
    BY <1>1, WritableNames
  <2>2. Written(s) = Written(o) \cup {"approved"} /\ Once(s.wrote)
    BY <1>1, <1>2, <1>4, <2>1, WrittenOnce
  <2> QED
    BY <2>1, <2>2
<1>6. CASE run' = [run EXCEPT ![r] = [s EXCEPT !.step = "open"]]
  <2> DEFINE q == [s EXCEPT !.step = "open"]
  <2>1. q.step = "open" /\ q.at = s.at /\ q.wrote = s.wrote
    BY <1>4 DEF RunState
  <2>2. run'[r] = q
    BY <1>6, NewRecord
  <2> HIDE DEF q
  <2>3. Tidy(q)
    BY <1>1, <1>4, <1>5, <2>1 DEF Tidy, Written
  <2> QED
    BY <2>2, <2>3
<1> QED
  BY <1>1, <1>3, <1>4, <1>5, <1>6, TidyEnd, TidyRound, NewRecord

LEMMA OpenTidies == ASSUME Inv, NEW r \in Runs, Tidy(run[r]), Open(r) PROVE Tidy(run'[r])
<1> DEFINE o == run[r]
           w == Append(o.wrote, "ready")
           s == [o EXCEPT !.wrote = w]
<1>1. /\ o \in RunState /\ Once(o.wrote) /\ "ready" \notin Written(o) /\ "ready" \in Resources
      /\ run' = [run EXCEPT ![r] = Round(s, "final")]
  BY RunFacts, ResourceNames DEF Open, Tidy
<1>2. w \in Seq(Resources) /\ w = Append(o.wrote, "ready")
  BY <1>1 DEF RunState
<1> HIDE DEF w
<1>3. s \in RunState /\ s.wrote = w
  <2> HIDE DEF o
  <2> QED
    BY <1>1, <1>2 DEF RunState
<1> HIDE DEF s
<1>4. Once(s.wrote)
  BY <1>1, <1>2, <1>3, WrittenOnce
<1> QED
  BY <1>1, <1>3, <1>4, TidyRound, NewRecord

LEMMA EndTidies == ASSUME Inv, NEW r \in Runs, Tidy(run[r]), Final(r) \/ Die(r) PROVE Tidy(run'[r])
<1> DEFINE s == run[r]
           p == [s EXCEPT !.verdict = Verdict(s.seen, s.config, s.attested)]
<1>1. s \in RunState /\ s.at \in 1 .. Len(Order) + 1 /\ Once(s.wrote)
  BY RunFacts DEF Tidy
<1>2. Verdict(s.seen, s.config, s.attested) \in {"BLOCKED", "READY", "NOT_READY"}
  BY VerdictTypes
<1>3. p \in RunState /\ p.at = s.at /\ p.wrote = s.wrote
  <2> HIDE DEF s
  <2> QED
    BY <1>1, <1>2 DEF RunState
<1>4. ASSUME NEW e, e.step \in {"ended", "failed"}, e.at = s.at, e.wrote = s.wrote PROVE Tidy(e)
  BY <1>1, <1>4 DEF Tidy
<1>5. CASE Final(r)
  <2> DEFINE e == End(p)
             f == [e EXCEPT !.step = "failed"]
  <2>1. run' = [run EXCEPT ![r] = e] \/ run' = [run EXCEPT ![r] = f]
    BY <1>5 DEF Final
  <2>2. run'[r] = e \/ run'[r] = f
    BY <2>1, NewRecord
  <2> HIDE DEF p
  <2>3. e \in RunState /\ e.step = "ended" /\ e.at = s.at /\ e.wrote = s.wrote
    BY <1>3, EndState DEF End, RunState
  <2> HIDE DEF e
  <2>4. f.step = "failed" /\ f.at = s.at /\ f.wrote = s.wrote
    BY <2>3 DEF RunState
  <2> HIDE DEF f
  <2> QED
    BY <1>4, <2>2, <2>3, <2>4
<1>6. CASE Die(r)
  <2> DEFINE e == End(s)
             q == [e EXCEPT !.step = "failed", !.todo = {}]
  <2>1. run'[r] = q
    BY <1>6, NewRecord DEF Die
  <2>2. e \in RunState /\ e.at = s.at /\ e.wrote = s.wrote
    BY <1>1, EndState DEF End, RunState
  <2> HIDE DEF e
  <2>3. q.step = "failed" /\ q.at = s.at /\ q.wrote = s.wrote
    BY <2>2 DEF RunState
  <2> HIDE DEF q
  <2> QED
    BY <1>4, <2>1, <2>3
<1> QED
  BY <1>5, <1>6

LEMMA RunTidies ==
  ASSUME Inv, NEW r \in Runs, Tidy(run[r]), Start(r) \/ Progress(r) \/ Die(r)
  PROVE  Tidy(run'[r])
<1>1. CASE \/ ReadEnvironment(r) \/ ReadRuleset(r) \/ ReadReady(r) \/ ReadApproved(r) \/ ReadPackage(r)
  <2>1. \E i, value : Observe(r, i, value)
    BY <1>1 DEF ReadEnvironment, ReadRuleset, ReadReady, ReadApproved, ReadPackage, Read, Succeed, Fail
  <2> QED
    BY <2>1, ReadTidies
<1> QED
  BY <1>1, StartTidies, PlanTidies, WriteTidies, ReadBackTidies, ApproveTidies, OpenTidies, EndTidies
     DEF Progress

-----------------------------------------------------------------------------
(* One run acts at a time, and what it has read is there.                    *)

LEMMA ActsAlone ==
  ASSUME Inv, Pledges, NEW r \in Runs, Start(r) \/ Progress(r) \/ Die(r)
  PROVE  /\ \A q \in Runs \ {r} : run'[q] = run[q]
         /\ \/ DisturbAllBut({r})
            \/ /\ UNCHANGED <<environment, ruleset, publishers, ready, approved>>
               /\ calm' \subseteq calm \cup {r}
               /\ \A q \in Runs \ {r} : promise'[q] = promise[q]
<1>1. run \in [Runs -> RunState] /\ promise \in [Runs -> {"nothing", "quiet", "ready"}]
  BY DEF Inv, Shape, Pledges
<1>2. CASE Start(r) \/ Die(r)
  BY <1>1, <1>2 DEF Start, Die, LocalOnly
<1>3. CASE \/ ReadEnvironment(r) \/ ReadRuleset(r) \/ ReadReady(r) \/ ReadApproved(r) \/ ReadPackage(r)
  <2>1. PICK i, v : Read(r, i, v)
    BY <1>3 DEF ReadEnvironment, ReadRuleset, ReadReady, ReadApproved, ReadPackage
  <2>2. \E w : Observe(r, i, w)
    BY <2>1 DEF Read, Succeed, Fail
  <2>3. \A q \in Runs \ {r} : run'[q] = run[q]
    BY <1>1, <2>2 DEF Observe
  <2>4. \A q \in Runs \ {r} : promise'[q] = promise[q]
    BY <1>1, <2>1 DEF Read, Succeed, Fail
  <2> QED
    BY <2>1, <2>3, <2>4 DEF Read
<1>4. CASE PlanCheck(r) \/ PlanAudit(r) \/ PlanApply(r) \/ ReadBack(r) \/ Final(r)
  BY <1>1, <1>4 DEF PlanCheck, PlanAudit, PlanApply, ReadBack, Final, LocalOnly, Undisturbed
<1>5. CASE UpdateEnvironment(r) \/ Gone(r)
  <2>1. LocalOnly /\ Undisturbed
    BY <1>5 DEF UpdateEnvironment, Gone
  <2>2. \A q \in Runs \ {r} : run'[q] = run[q]
    BY <1>1, <1>5 DEF UpdateEnvironment, Gone, GoTo, FinishItem
  <2> QED
    BY <2>1, <2>2 DEF LocalOnly, Undisturbed
<1>6. CASE \/ CreateEnvironment(r) \/ PutEnvironment(r) \/ PostBranch(r)
           \/ CreateRuleset(r) \/ UpdateRuleset(r) \/ AddPublisher(r) \/ Approve(r) \/ Open(r)
  <2>1. DisturbAllBut({r})
    BY <1>6 DEF CreateEnvironment, PutEnvironment, PostBranch, CreateRuleset, UpdateRuleset,
                AddPublisher, Approve, Open
  <2>2. CASE CreateEnvironment(r) \/ PutEnvironment(r) \/ PostBranch(r)
    BY <1>1, <2>1, <2>2 DEF CreateEnvironment, PutEnvironment, PostBranch, GoTo, FinishItem
  <2>3. CASE CreateRuleset(r) \/ UpdateRuleset(r) \/ AddPublisher(r)
    BY <1>1, <2>1, <2>3 DEF CreateRuleset, UpdateRuleset, AddPublisher, FinishItem
  <2>4. CASE Approve(r) \/ Open(r)
    BY <1>1, <2>1, <2>4 DEF Approve, Open
  <2> QED
    BY <1>6, <2>2, <2>3, <2>4
<1> QED
  BY <1>2, <1>3, <1>4, <1>5, <1>6 DEF Progress

LEMMA RemoteElsewhere ==
  /\ UNCHANGED <<ruleset, publishers, ready, approved>> =>
       \A j \in Resources \ {"environment"} : Remote'[j] = Remote[j]
  /\ UNCHANGED <<environment, publishers, ready, approved>> =>
       \A j \in Resources \ {"ruleset"} : Remote'[j] = Remote[j]
  /\ \A p \in Packages :
       /\ UNCHANGED <<environment, ruleset, ready, approved>>
       /\ \A q \in Packages \ {p} : publishers'[q] = publishers[q]
       => \A j \in Resources \ {p} : Remote'[j] = Remote[j]
<1>1. \A j \in Resources : j \in {"environment", "ruleset", "ready", "approved"} \/ j \in Packages
  BY DEF Resources
<1> QED
  BY <1>1, ResourceNames DEF Remote

\* What a calm run has read in full is there, unless it could not read it.
LEMMA SeenIsThere ==
  ASSUME Inv, NEW r \in calm, run[r].step \in {"plan", "readback"}, Live(run[r].mode)
  PROVE  \A i \in Resources : run[r].seen[i] \in {Unread, Remote[i]}
<1>1. r \in Runs /\ Faithful(r) /\ Progressed(r)
  BY RunFacts DEF Inv, Shape
<1>2. run[r].at = Len(Order) + 1 /\ Len(Order) \in Nat
  BY <1>1, OrderCovers DEF Progressed
<1>3. \A k \in 1 .. Len(Order) : run[r].seen[Order[k]] \in {Unread, Remote[Order[k]]}
  BY <1>1, <1>2 DEF Faithful
<1> QED
  BY <1>3, OrderCovers

\* What could not be read stops a plan.
LEMMA PendingIsRead ==
  ASSUME NEW seen, NEW i \in Pending(seen)
  PROVE  /\ seen[i] # Unread /\ i \in Writable
         /\ i = "environment" => Item(seen, i) = EnvironmentItem(seen[i])
         /\ i = "ruleset" => Item(seen, i) = RulesetItem(seen[i])
         /\ i \in Packages => Item(seen, i) = PublisherItem(seen[i])
<1>1. i \in Writable /\ Item(seen, i) \in {"CREATE", "UPDATE"}
  BY DEF Pending, Writable
<1>2. /\ i = "environment" => Item(seen, i) = EnvironmentItem(seen[i])
      /\ i = "ruleset" => Item(seen, i) = RulesetItem(seen[i])
      /\ i \in Packages => Item(seen, i) = PublisherItem(seen[i])
  BY ResourceNames DEF Item
<1>3. EnvironmentItem(Unread) = "STOP" /\ RulesetItem(Unread) = "STOP" /\ PublisherItem(Unread) = "STOP"
  <2>1. EnvironmentItem(Unread) = "STOP"
    BY ReleaseConstants DEF EnvironmentItem, EnvironmentMatches
  <2>2. PublisherItem(Unread) = "STOP"
    BY ReleaseConstants DEF PublisherItem
  <2>3. Unread \notin {"missing", "weak", "match"}
    BY ReleaseConstants DEF Ruleset
  <2>4. RulesetItem(Unread) = "STOP"
    BY <2>3 DEF RulesetItem
  <2> QED
    BY <2>1, <2>2, <2>4
<1> QED
  BY <1>1, <1>2, <1>3 DEF Writable

-----------------------------------------------------------------------------
(* What is pending is as it was found.                                       *)

LEMMA NothingPends ==
  ASSUME NEW r \in Runs, run'[r].step \notin {"write", "put", "branch"}
  PROVE  Grounded(r)'
  BY DEF Grounded

\* A write that changes item i only, and is done with it.
LEMMA WriteIsGrounded ==
  ASSUME Inv, NEW r \in Runs, Grounded(r), r \in calm' => r \in calm, NEW i \in Resources,
         run[r].step \in {"write", "put", "branch"}, run[r].step = "write" \/ i = "environment",
         run'[r].seen = run[r].seen, run'[r].todo \subseteq run[r].todo,
         \/ run'[r].step = "write" /\ i \notin run'[r].todo
         \/ run'[r].step = "branch" /\ i = "environment",
         \A j \in Resources \ {i} : Remote'[j] = Remote[j]
  PROVE  Grounded(r)'
<1>1. run[r].todo \subseteq Resources
  BY RunFacts DEF RunState
<1>2. ASSUME r \in calm', NEW j \in run'[r].todo, j # "environment" \/ run'[r].step = "write"
      PROVE  run'[r].seen[j] = Remote'[j]
  <2>1. j # i /\ j \in run[r].todo /\ j \in Resources
    BY <1>1, <1>2
  <2>2. run[r].seen[j] = Remote[j]
    BY <1>2, <2>1 DEF Grounded
  <2> QED
    BY <2>1, <2>2
<1> QED
  BY <1>2 DEF Grounded

LEMMA PlanIsGrounded ==
  ASSUME Inv, NEW r \in Runs, PlanApply(r) PROVE Grounded(r)'
<1> DEFINE s == run[r]
           d == [s EXCEPT !.verdict = Verdict(s.seen, s.config, s.attested), !.todo = Pending(s.seen)]
<1>1. /\ s \in RunState /\ s.step = "plan" /\ Live(s.mode) /\ UNCHANGED calm /\ Remote' = Remote
  BY RunFacts DEF PlanApply, Undisturbed, LocalOnly, Remote, Live
<1>2. d \in RunState /\ d.todo = Pending(s.seen) /\ d.seen = s.seen
  <2>1. Verdict(s.seen, s.config, s.attested) \in {"BLOCKED", "READY", "NOT_READY"}
        /\ Pending(s.seen) \subseteq Resources
    BY VerdictTypes, PendingIsRead, WritableNames
  <2> HIDE DEF s
  <2> QED
    BY <1>1, <2>1 DEF RunState
<1>3. \/ run' = [run EXCEPT ![r] = End([d EXCEPT !.todo = {}])]
      \/ run' = [run EXCEPT ![r] = [d EXCEPT !.step = "write"]]
      \/ run' = [run EXCEPT ![r] = Round(d, "readback")]
  BY DEF PlanApply
<1> HIDE DEF d
<1>4. CASE run' = [run EXCEPT ![r] = End([d EXCEPT !.todo = {}])]
  <2>1. [d EXCEPT !.todo = {}] \in RunState
    BY <1>2 DEF RunState
  <2>2. run'[r].step = "ended"
    BY <1>4, <2>1, NewRecord, EndState
  <2> QED
    BY <2>2, NothingPends
<1>5. CASE run' = [run EXCEPT ![r] = Round(d, "readback")]
  <2>1. Round(d, "readback").step = "read"
    BY <1>2, RoundState
  <2>2. run'[r].step = "read"
    BY <1>5, <2>1, NewRecord
  <2> QED
    BY <2>2, NothingPends
<1>6. CASE run' = [run EXCEPT ![r] = [d EXCEPT !.step = "write"]]
  <2> DEFINE q == [d EXCEPT !.step = "write"]
  <2>1. q.step = "write" /\ q.todo = Pending(s.seen) /\ q.seen = s.seen
    <3> HIDE DEF s
    <3> QED
      BY <1>2 DEF RunState
  <2>2. run'[r] = q
    BY <1>6, NewRecord
  <2> HIDE DEF q
  <2>3. ASSUME r \in calm, NEW i \in Pending(s.seen) PROVE s.seen[i] = Remote[i]
    <3>1. \A j \in Resources : s.seen[j] \in {Unread, Remote[j]}
      BY <1>1, <2>3, SeenIsThere
    <3>2. s.seen[i] # Unread /\ i \in Resources
      BY PendingIsRead, WritableNames
    <3> QED
      BY <3>1, <3>2
  <2> QED
    BY <1>1, <2>1, <2>2, <2>3 DEF Grounded
<1> QED
  BY <1>3, <1>4, <1>5, <1>6

LEMMA EnvironmentIsGrounded ==
  ASSUME Inv, NEW r \in Runs, Tidy(run[r]), Grounded(r),
         CreateEnvironment(r) \/ UpdateEnvironment(r) \/ PutEnvironment(r) \/ PostBranch(r)
  PROVE  Grounded(r)'
<1> DEFINE s == run[r]
<1>1. /\ s \in RunState /\ s.step \in {"write", "put", "branch"} /\ "environment" \in s.todo
      /\ r \in calm' => r \in calm
      /\ \A j \in Resources \ {"environment"} : Remote'[j] = Remote[j]
      /\ "environment" \in Resources
  <2>1. s.step \in {"write", "put", "branch"} /\ "environment" \in s.todo
    BY FirstPends DEF CreateEnvironment, UpdateEnvironment, PutEnvironment, PostBranch, Writing, Tidy
  <2>2. UNCHANGED <<ruleset, publishers, ready, approved>> /\ (r \in calm' => r \in calm)
    BY DEF CreateEnvironment, UpdateEnvironment, PutEnvironment, PostBranch, DisturbAllBut,
           LocalOnly, Undisturbed
  <2> QED
    BY <2>1, <2>2, RunFacts, RemoteElsewhere, ResourceNames
<1>2. CASE GoTo(r, "branch") \/ FinishItem(r, "environment")
  <2>1. \/ /\ run'[r].step = "branch" /\ run'[r].todo = s.todo /\ run'[r].seen = s.seen
        \/ /\ run'[r].step = "write" /\ run'[r].todo = s.todo \ {"environment"} /\ run'[r].seen = s.seen
        \/ run'[r].step = "read"
    BY <1>1, <1>2, GoesTidily, FinishesTidily
  <2> QED
    BY <1>1, <2>1, WriteIsGrounded, NothingPends
<1>3. CASE UpdateEnvironment(r)
  <2>1. Remote' = Remote /\ UNCHANGED <<environment, calm>> /\ s.step = "write"
    BY <1>3 DEF UpdateEnvironment, LocalOnly, Undisturbed, Remote, Writing
  <2>2. EnvironmentWrite(environment) \in {"nothing", "branch", "create", "put", "refuse"}
    BY DEF EnvironmentWrite
  <2>3. CASE EnvironmentWrite(environment) = "create"
    <3>1. environment = None
      BY <2>3 DEF EnvironmentWrite
    <3>2. run'[r].todo = s.todo /\ run'[r].seen = s.seen /\ run'[r].step = "put"
      BY <1>1, <1>3, <2>3, GoesTidily DEF UpdateEnvironment
    <3> QED
      BY <2>1, <3>1, <3>2 DEF Grounded
  <2>4. CASE EnvironmentWrite(environment) = "put"
    <3> DEFINE q == [s EXCEPT !.step = "put", !.reviewed = environment.reviewed]
    <3>1. run' = [run EXCEPT ![r] = q]
      BY <1>3, <2>4 DEF UpdateEnvironment
    <3>2. run'[r] = q
      BY <3>1, NewRecord
    <3>3. q.step = "put" /\ q.todo = s.todo /\ q.seen = s.seen /\ q.reviewed = environment.reviewed
      BY <1>1 DEF RunState
    <3> HIDE DEF q
    <3> QED
      BY <2>1, <3>2, <3>3 DEF Grounded
  <2>5. CASE EnvironmentWrite(environment) = "refuse"
    <3>1. run'[r].step = "failed"
      BY <1>1, <1>3, <2>5, GoesTidily DEF UpdateEnvironment
    <3> QED
      BY <3>1, NothingPends
  <2> QED
    BY <1>2, <1>3, <2>2, <2>3, <2>4, <2>5 DEF UpdateEnvironment
<1> QED
  BY <1>2, <1>3 DEF CreateEnvironment, PutEnvironment, PostBranch

LEMMA ItemIsGrounded ==
  ASSUME Inv, NEW r \in Runs, Tidy(run[r]), Grounded(r),
         CreateRuleset(r) \/ UpdateRuleset(r) \/ AddPublisher(r)
  PROVE  Grounded(r)'
<1>1. PICK i \in Resources :
        /\ run[r].step = "write" /\ IsFirst(i, run[r].todo) /\ FinishItem(r, i)
        /\ \A j \in Resources \ {i} : Remote'[j] = Remote[j]
        /\ DisturbAllBut({r})
  <2>1. CASE CreateRuleset(r) \/ UpdateRuleset(r)
    <3>1. UNCHANGED <<environment, publishers, ready, approved>>
      BY <2>1 DEF CreateRuleset, UpdateRuleset
    <3> QED
      BY <2>1, <3>1, RemoteElsewhere, ResourceNames DEF CreateRuleset, UpdateRuleset, Writing
  <2>2. CASE AddPublisher(r)
    <3>1. PICK p \in Packages : /\ Writing(r, p, "CREATE") /\ FinishItem(r, p)
                                /\ publishers' = [publishers EXCEPT ![p] = Append(@, "ours")]
      BY <2>2 DEF AddPublisher
    <3>2. UNCHANGED <<environment, ruleset, ready, approved>> /\ DisturbAllBut({r})
          /\ \A q \in Packages \ {p} : publishers'[q] = publishers[q]
      BY <2>2, <3>1 DEF AddPublisher, Inv, Shape
    <3> QED
      BY <3>1, <3>2, RemoteElsewhere, ResourceNames DEF Writing
  <2> QED
    BY <2>1, <2>2
<1>2. \/ run'[r].step = "write" /\ run'[r].todo = run[r].todo \ {i} /\ run'[r].seen = run[r].seen
      \/ run'[r].step = "read"
  BY <1>1, FirstPends, FinishesTidily
<1> QED
  BY <1>1, <1>2, WriteIsGrounded, NothingPends DEF DisturbAllBut

-----------------------------------------------------------------------------
(* Where everything is in place there is nothing to do.                      *)

LEMMA NothingToDo ==
  ASSUME NEW s, InPlace(s), NEW seen, \A i \in Resources : seen[i] = Remote[i]
  PROVE  /\ Prerequisites(seen, s.config, s.attested) /\ ~Blocked(seen, s.config, s.attested)
         /\ Verdict(seen, s.config, s.attested) = "READY" /\ Pending(seen) = {}
         /\ seen["approved"] = s.config /\ seen["ready"] = "true"
<1>1. /\ seen["environment"] = environment /\ seen["ready"] = "true" /\ seen["approved"] = s.config
      /\ \A i \in {"environment", "ruleset"} \cup Packages : seen[i] = Remote[i]
  BY RemoteFields, ResourceNames DEF InPlace
<1>2. Prerequisites(seen, s.config, s.attested)
  BY <1>1, SamePrerequisites DEF InPlace
<1>3. /\ EnvironmentMatches(seen["environment"]) /\ ~seen["environment"].token
      /\ seen["ruleset"] = "match" /\ s.config \notin Detached
      /\ \A p \in Packages : seen[p] = <<"ours">> /\ Covers(s.attested, p)
  BY <1>1, <1>2 DEF Prerequisites, InPlace
<1>4. s.attested # {}
  <2>1. Roster \in Seq(Packages) /\ Roster # <<>>
    BY ReleaseConstants
  <2>2. 1 \in DOMAIN Roster
    BY <2>1, LenProperties, EmptySeq
  <2> QED
    BY <1>3, <2>2 DEF Covers, Packages
<1>5. /\ EnvironmentItem(seen["environment"]) = "NOOP"
      /\ RulesetItem(seen["ruleset"]) = "NOOP"
      /\ \A p \in Packages : PublisherItem(seen[p]) = "NOOP"
  <2>1. EnvironmentItem(seen["environment"]) = "NOOP"
    BY <1>3 DEF EnvironmentItem, EnvironmentMatches
  <2>2. RulesetItem(seen["ruleset"]) = "NOOP"
    BY <1>3 DEF RulesetItem
  <2>3. ASSUME NEW p \in Packages PROVE PublisherItem(seen[p]) = "NOOP"
    <3>1. <<"ours">> # <<>> /\ Head(<<"ours">>) = "ours"
      OBVIOUS
    <3>2. seen[p] = <<"ours">> /\ <<"ours">> # Unread
      BY <1>3, ReleaseConstants
    <3> QED
      BY <3>1, <3>2 DEF PublisherItem
  <2> QED
    BY <2>1, <2>2, <2>3
<1>6. \A i \in {"environment", "ruleset"} \cup Packages : Item(seen, i) = "NOOP"
  BY <1>5, ResourceNames DEF Item
<1>7. ~Blocked(seen, s.config, s.attested)
  BY <1>2, <1>3, <1>4, <1>6 DEF Blocked, Critical
<1>8. Verdict(seen, s.config, s.attested) = "READY"
  BY <1>1, <1>7 DEF Verdict
<1> QED
  BY <1>1, <1>2, <1>6, <1>7, <1>8 DEF Pending

\* What such a run has read in full is all there is.
LEMMA AllIsSeen ==
  ASSUME Inv, NEW r \in Runs, Orderly(r), promise[r] = "quiet",
         run[r].step \in {"plan", "readback"}
  PROVE  \A i \in Resources : run[r].seen[i] = Remote[i]
<1>1. Live(run[r].mode) /\ run[r].at = Len(Order) + 1 /\ Len(Order) \in Nat
  BY RunFacts, OrderCovers DEF Orderly, Live, Progressed
<1>2. \A k \in 1 .. Len(Order) : run[r].seen[Order[k]] = Remote[Order[k]]
  <2>1. \A k \in 1 .. run[r].at - 1 : run[r].seen[Order[k]] = Remote[Order[k]]
    BY DEF Orderly
  <2>2. run[r].at - 1 = Len(Order)
    <3>1. run[r].at = Len(Order) + 1
      BY <1>1
    <3>2. \A n \in Nat : n + 1 - 1 = n
      OBVIOUS
    <3> QED
      BY <1>1, <3>1, <3>2
  <2> QED
    BY <2>1, <2>2
<1> QED
  BY <1>2, OrderCovers

\* A step that leaves the control plane alone leaves everything in place.
LEMMA StaysInPlace ==
  ASSUME NEW s, NEW t, InPlace(s), UNCHANGED <<environment, ruleset, publishers, ready, approved>>,
         t.config = s.config, t.attested = s.attested
  PROVE  /\ Prerequisites(Remote', t.config, t.attested) /\ ~environment'.token
         /\ ready' = "true" /\ approved' = t.config /\ Remote' = Remote
<1>1. Remote' = Remote
  BY DEF Remote
<1> QED
  BY <1>1 DEF InPlace

\* What has to be shown of the next record of a run.
LEMMA OrderlyNext ==
  ASSUME NEW r \in Runs, NEW t, run'[r] = t,
         promise'[r] = "quiet" =>
           /\ Prerequisites(Remote', t.config, t.attested) /\ ~environment'.token
           /\ ready' = "true" /\ approved' = t.config
           /\ t.wrote = <<>> /\ t.mode \in {"apply", "audit-live"}
           /\ t.step \in {"read", "plan", "readback", "ended"} /\ t.round \in {"plan", "readback"}
           /\ t.step = "ended" \/ \A k \in 1 .. t.at - 1 : t.seen[Order[k]] = Remote'[Order[k]]
           /\ t.step = "ended" \/ t.round = "readback" => t.verdict = "READY"
  PROVE  Orderly(r)'
<1>1. Orderly(r)' <=>
        (promise'[r] = "quiet" =>
           /\ Prerequisites(Remote', t.config, t.attested) /\ ~environment'.token
           /\ ready' = "true" /\ approved' = t.config
           /\ t.wrote = <<>> /\ t.mode \in {"apply", "audit-live"}
           /\ t.step \in {"read", "plan", "readback", "ended"} /\ t.round \in {"plan", "readback"}
           /\ t.step # "ended" => \A k \in 1 .. t.at - 1 : t.seen[Order[k]] = Remote'[Order[k]]
           /\ t.step = "ended" \/ t.round = "readback" => t.verdict = "READY")
  BY DEF Orderly, InPlace
<1> QED
  BY <1>1

LEMMA StartIsOrderly == ASSUME Inv, Pledges, NEW r \in Runs, Start(r) PROVE Orderly(r)'
<1>1. PICK c \in scenario.starts[r] :
        /\ run' = [run EXCEPT ![r] = [Idle EXCEPT !.step = "read", !.mode = c.mode,
                                                  !.config = c.config, !.attested = c.attested]]
        /\ promise' = [promise EXCEPT ![r] = Owes(c)]
  BY DEF Start
<1> DEFINE i == Idle
           q == [i EXCEPT !.step = "read", !.mode = c.mode, !.config = c.config, !.attested = c.attested]
<1>2. i \in RunState /\ i.at = 1 /\ i.wrote = <<>> /\ i.round = "plan"
  BY IdleState DEF Idle
<1>3. run'[r] = q /\ promise'[r] = Owes(c)
  BY <1>1, NewRecord DEF Pledges
<1> HIDE DEF i
<1>4. /\ q.step = "read" /\ q.at = 1 /\ q.wrote = <<>> /\ q.round = "plan"
      /\ q.mode = c.mode /\ q.config = c.config /\ q.attested = c.attested
  BY <1>2 DEF RunState
<1> HIDE DEF q
<1>5. Owes(c) = "quiet" => InPlace(c) /\ c.mode \in {"apply", "audit-live"}
  BY DEF Owes, InPlace
<1>6. UNCHANGED <<environment, ruleset, publishers, ready, approved>>
  BY DEF Start
<1>7. ASSUME Owes(c) = "quiet"
      PROVE  /\ Prerequisites(Remote', q.config, q.attested) /\ ~environment'.token
             /\ ready' = "true" /\ approved' = q.config
  BY <1>4, <1>5, <1>6, <1>7, StaysInPlace
<1>8. 1 .. q.at - 1 = {}
  BY <1>4
<1> QED
  BY <1>3, <1>4, <1>5, <1>7, <1>8, OrderlyNext

LEMMA ReadIsOrderly ==
  ASSUME Inv, Pledges, NEW r \in Runs, Orderly(r), NEW i \in Resources, Read(r, i, Remote[i])
  PROVE  Orderly(r)'
<1>1. CASE Fail(r, i)
  BY <1>1 DEF Fail, Pledges, Orderly
<1>2. CASE Succeed(r, i, Remote[i])
  <2> DEFINE s == run[r]
             u == [s.seen EXCEPT ![i] = Remote[i]]
             step == IF s.at = LastRead(r) THEN s.round ELSE "read"
             t == [s EXCEPT !.seen = u, !.at = s.at + 1, !.step = step]
  <2>1. /\ s \in RunState /\ s.step = "read" /\ Order[s.at] = i /\ run' = [run EXCEPT ![r] = t]
        /\ UNCHANGED promise /\ UNCHANGED <<environment, ruleset, publishers, ready, approved>>
        /\ s.at \in 1 .. Len(Order) /\ Len(Order) \in Nat
    <3>1. Observe(r, i, Remote[i]) /\ UNCHANGED promise
      BY <1>2 DEF Succeed
    <3>2. UNCHANGED <<environment, ruleset, publishers, ready, approved>>
      BY DEF Read
    <3>3. s \in RunState /\ s.step = "read" /\ Order[s.at] = i /\ run' = [run EXCEPT ![r] = t]
      BY <3>1, RunFacts DEF Observe
    <3>4. s.at \in 1 .. Len(Order) /\ Len(Order) \in Nat
      <4>1. s.at \in 1 .. LastRead(r)
        BY <3>3, RunFacts DEF Progressed
      <4>2. LastRead(r) \in 1 .. Len(Order) /\ Len(Order) \in Nat
        BY OrderCovers DEF LastRead
      <4> HIDE DEF s
      <4> QED
        BY <4>1, <4>2
    <3> QED
      BY <3>1, <3>2, <3>3, <3>4
  <2>2. step \in {"read", s.round}
    OBVIOUS
  <2>3. \A j \in Resources : u[j] = IF j = i THEN Remote[i] ELSE s.seen[j]
    BY <2>1 DEF RunState
  <2> HIDE DEF step, u
  <2>4. /\ t.step = step /\ t.at = s.at + 1 /\ t.round = s.round /\ t.wrote = s.wrote /\ t.seen = u
        /\ t.mode = s.mode /\ t.config = s.config /\ t.attested = s.attested /\ t.verdict = s.verdict
    <3> HIDE DEF s
    <3> QED
      BY <2>1 DEF RunState
  <2>5. run'[r] = t
    BY <2>1, NewRecord
  <2> HIDE DEF t
  <2>6. CASE promise[r] = "quiet"
    <3>1. /\ InPlace(s) /\ s.wrote = <<>> /\ s.mode \in {"apply", "audit-live"}
          /\ s.round \in {"plan", "readback"} /\ (s.round = "readback" => s.verdict = "READY")
          /\ \A k \in 1 .. s.at - 1 : s.seen[Order[k]] = Remote[Order[k]]
      BY <2>1, <2>6 DEF Orderly
    <3>2. /\ Prerequisites(Remote', t.config, t.attested) /\ ~environment'.token
          /\ ready' = "true" /\ approved' = t.config /\ Remote' = Remote
      <4> HIDE DEF s
      <4> QED
        BY <2>1, <2>4, <3>1, StaysInPlace
    <3>3. ASSUME NEW k \in 1 .. t.at - 1 PROVE t.seen[Order[k]] = Remote[Order[k]]
      <4>1. k \in 1 .. Len(Order) /\ (k = s.at \/ k \in 1 .. s.at - 1)
        BY <2>1, <2>4
      <4>2. Order[k] \in Resources
        BY <4>1, OrderCovers
      <4> QED
        BY <2>1, <2>3, <2>4, <3>1, <4>1, <4>2
    <3> QED
      BY <2>1, <2>2, <2>4, <2>5, <3>1, <3>2, <3>3, OrderlyNext
  <2> QED
    BY <2>1, <2>6 DEF Orderly
<1> QED
  BY <1>1, <1>2 DEF Read

LEMMA PlanIsOrderly ==
  ASSUME Inv, NEW r \in Runs, Orderly(r), promise[r] = "quiet",
         Tidy(run[r]), PlanCheck(r) \/ PlanAudit(r) \/ PlanApply(r)
  PROVE  Orderly(r)'
<1> DEFINE s == run[r]
           v == Verdict(s.seen, s.config, s.attested)
           p == [s EXCEPT !.verdict = v]
           d == [s EXCEPT !.verdict = v, !.todo = Pending(s.seen)]
<1>1. /\ s \in RunState /\ InPlace(s) /\ s.step = "plan" /\ s.mode \in {"apply", "audit-live"}
      /\ s.wrote = <<>> /\ s.round = "plan"
      /\ UNCHANGED <<environment, ruleset, publishers, ready, approved, promise>>
      /\ PlanAudit(r) \/ PlanApply(r)
  BY RunFacts DEF Orderly, PlanCheck, PlanAudit, PlanApply, LocalOnly, Undisturbed, Tidy
<1>2. /\ v = "READY" /\ Pending(s.seen) = {} /\ PrerequisitesOf(r, s.seen)
      /\ IsApproved(r) /\ ~Blocked(s.seen, s.config, s.attested)
  BY <1>1, AllIsSeen, NothingToDo DEF PrerequisitesOf, IsApproved
<1>3. run' = [run EXCEPT ![r] = End(p)] \/ run' = [run EXCEPT ![r] = Round(d, "readback")]
  <2>1. CASE PlanAudit(r)
    BY <1>2, <2>1 DEF PlanAudit
  <2>2. CASE PlanApply(r)
    <3>1. d.todo = {}
      <4> HIDE DEF s, v
      <4> QED
        BY <1>1, <1>2 DEF RunState
    <3>2. \/ Blocked(s.seen, s.config, s.attested)
          \/ d.todo # {}
          \/ run' = [run EXCEPT ![r] = Round(d, "readback")]
      BY <2>2 DEF PlanApply
    <3> QED
      BY <1>2, <3>1, <3>2
  <2> QED
    BY <1>1, <2>1, <2>2
<1> HIDE DEF v
<1>4. /\ p \in RunState /\ p.wrote = <<>> /\ p.config = s.config /\ p.attested = s.attested
      /\ p.mode = s.mode /\ p.round = "plan" /\ p.verdict = "READY"
      /\ d \in RunState /\ d.wrote = <<>> /\ d.config = s.config /\ d.attested = s.attested
      /\ d.mode = s.mode /\ d.verdict = "READY"
  <2> HIDE DEF s
  <2> QED
    BY <1>1, <1>2 DEF RunState
<1> HIDE DEF p, d
<1>5. ASSUME NEW t, run'[r] = t, t.config = s.config, t.attested = s.attested, t.mode = s.mode,
             t.wrote = <<>>, t.verdict = "READY", t.round \in {"plan", "readback"},
             t.step = "ended" \/ (t.step = "read" /\ t.at = 1)
      PROVE  Orderly(r)'
  <2>1. /\ Prerequisites(Remote', t.config, t.attested) /\ ~environment'.token
        /\ ready' = "true" /\ approved' = t.config
    <3>1. t.config = s.config /\ t.attested = s.attested
      BY <1>5
    <3> HIDE DEF s
    <3> QED
      BY <1>1, <3>1, StaysInPlace
  <2>2. t.step = "ended" \/ 1 .. t.at - 1 = {}
    BY <1>5
  <2> QED
    BY <1>1, <1>5, <2>1, <2>2, OrderlyNext
<1>6. CASE run' = [run EXCEPT ![r] = End(p)]
  <2> DEFINE t == End(p)
  <2>1. /\ t.step = "ended" /\ t.config = s.config /\ t.attested = s.attested /\ t.mode = s.mode
        /\ t.wrote = <<>> /\ t.verdict = "READY" /\ t.round = "plan"
    BY <1>4 DEF End, RunState
  <2>2. run'[r] = t
    BY <1>6, NewRecord
  <2> HIDE DEF t
  <2> QED
    BY <1>5, <2>1, <2>2
<1>7. CASE run' = [run EXCEPT ![r] = Round(d, "readback")]
  <2> DEFINE t == Round(d, "readback")
  <2>1. /\ t.step = "read" /\ t.at = 1 /\ t.config = s.config /\ t.attested = s.attested
        /\ t.mode = s.mode /\ t.wrote = <<>> /\ t.verdict = "READY" /\ t.round = "readback"
    BY <1>4 DEF Round, RunState
  <2>2. run'[r] = t
    BY <1>7, NewRecord
  <2> HIDE DEF t
  <2> QED
    BY <1>5, <2>1, <2>2
<1> QED
  BY <1>3, <1>6, <1>7

LEMMA ReadBackIsOrderly ==
  ASSUME Inv, NEW r \in Runs, Orderly(r), promise[r] = "quiet", Tidy(run[r]), ReadBack(r)
  PROVE  Orderly(r)'
<1> DEFINE s == run[r]
           t == End(s)
<1>1. /\ s \in RunState /\ InPlace(s) /\ s.step = "readback" /\ s.mode \in {"apply", "audit-live"}
      /\ s.wrote = <<>> /\ s.round = "readback" /\ s.verdict = "READY"
      /\ UNCHANGED <<environment, ruleset, publishers, ready, approved, promise>>
  BY RunFacts DEF Orderly, ReadBack, LocalOnly, Undisturbed, Tidy
<1>2. MayOpen(r) /\ IsApproved(r) /\ s.seen["ready"] = "true"
  BY <1>1, AllIsSeen, NothingToDo DEF PrerequisitesOf, IsApproved, MayOpen
<1>3. run' = [run EXCEPT ![r] = t]
  BY <1>1, <1>2 DEF ReadBack, AfterWrites
<1>4. run'[r] = t
  BY <1>3, NewRecord
<1>5. /\ t.step = "ended" /\ t.config = s.config /\ t.attested = s.attested /\ t.mode = s.mode
      /\ t.wrote = <<>> /\ t.verdict = "READY" /\ t.round = "readback"
  BY <1>1 DEF End, RunState
<1> HIDE DEF t
<1>6. /\ Prerequisites(Remote', t.config, t.attested) /\ ~environment'.token
      /\ ready' = "true" /\ approved' = t.config
  <2> HIDE DEF s
  <2> QED
    BY <1>1, <1>5, StaysInPlace
<1> QED
  BY <1>1, <1>4, <1>5, <1>6, OrderlyNext

LEMMA RunIsOrderly ==
  ASSUME Inv, Pledges, NEW r \in Runs, Tidy(run[r]), Orderly(r), Start(r) \/ Progress(r) \/ Die(r)
  PROVE  Orderly(r)'
<1>1. CASE Start(r)
  BY <1>1, StartIsOrderly
<1>2. CASE \/ ReadEnvironment(r) \/ ReadRuleset(r) \/ ReadReady(r) \/ ReadApproved(r) \/ ReadPackage(r)
  <2>1. \E i \in Resources : Read(r, i, Remote[i])
    BY <1>2, RemoteFields, ResourceNames
       DEF ReadEnvironment, ReadRuleset, ReadReady, ReadApproved, ReadPackage
  <2> QED
    BY <2>1, ReadIsOrderly
<1>3. CASE Die(r)
  BY <1>3 DEF Die, Pledges, Orderly
<1>4. CASE promise[r] # "quiet" /\ Progress(r) /\ ~Start(r)
  <2>1. promise'[r] \in {promise[r], "nothing"}
    <3>1. CASE \/ ReadEnvironment(r) \/ ReadRuleset(r) \/ ReadReady(r) \/ ReadApproved(r) \/ ReadPackage(r)
      BY <3>1 DEF ReadEnvironment, ReadRuleset, ReadReady, ReadApproved, ReadPackage, Read, Succeed,
                  Fail, Pledges
    <3>2. CASE \/ PlanCheck(r) \/ PlanAudit(r) \/ PlanApply(r) \/ UpdateEnvironment(r) \/ Gone(r)
               \/ ReadBack(r) \/ Final(r)
      BY <3>2 DEF PlanCheck, PlanAudit, PlanApply, UpdateEnvironment, Gone, ReadBack, Final, Undisturbed
    <3>3. CASE \/ CreateEnvironment(r) \/ PutEnvironment(r) \/ PostBranch(r) \/ CreateRuleset(r)
               \/ UpdateRuleset(r) \/ AddPublisher(r) \/ Approve(r) \/ Open(r)
      <4>1. DisturbAllBut({r})
        BY <3>3 DEF CreateEnvironment, PutEnvironment, PostBranch, CreateRuleset, UpdateRuleset,
                    AddPublisher, Approve, Open
      <4> QED
        BY <4>1 DEF DisturbAllBut
    <3> QED
      BY <1>4, <3>1, <3>2, <3>3 DEF Progress
  <2> QED
    BY <1>4, <2>1 DEF Orderly
<1>5. CASE promise[r] = "quiet" /\ Progress(r)
  <2>1. run[r].step \in {"read", "plan", "readback", "ended"}
    BY <1>5 DEF Orderly
  <2>2. CASE PlanCheck(r) \/ PlanAudit(r) \/ PlanApply(r)
    BY <1>5, <2>2, PlanIsOrderly
  <2>3. CASE ReadBack(r)
    BY <1>5, <2>3, ReadBackIsOrderly
  <2>4. /\ ~CreateEnvironment(r) /\ ~UpdateEnvironment(r) /\ ~PutEnvironment(r) /\ ~PostBranch(r)
        /\ ~CreateRuleset(r) /\ ~UpdateRuleset(r) /\ ~AddPublisher(r) /\ ~Gone(r)
        /\ ~Approve(r) /\ ~Open(r) /\ ~Final(r)
    BY <2>1 DEF CreateEnvironment, UpdateEnvironment, PutEnvironment, PostBranch, CreateRuleset,
                UpdateRuleset, AddPublisher, Gone, Approve, Open, Final, Writing
  <2> QED
    BY <1>2, <1>5, <2>2, <2>3, <2>4 DEF Progress
<1> QED
  BY <1>1, <1>3, <1>4, <1>5

-----------------------------------------------------------------------------
(* The second invariant.                                                     *)

LEMMA RunIsGrounded ==
  ASSUME Inv, NEW r \in Runs, Tidy(run[r]), Grounded(r), Start(r) \/ Progress(r) \/ Die(r)
  PROVE  Grounded(r)'
<1> DEFINE s == run[r]
<1>1. s \in RunState
  BY RunFacts
<1>2. ASSUME NEW t, run' = [run EXCEPT ![r] = t], t.step \notin {"write", "put", "branch"}
      PROVE  Grounded(r)'
  BY <1>2, NewRecord, NothingPends
<1>3. CASE Start(r)
  <2>1. PICK c : run' = [run EXCEPT ![r] = [Idle EXCEPT !.step = "read", !.mode = c.mode,
                                                        !.config = c.config, !.attested = c.attested]]
    BY <1>3 DEF Start
  <2> DEFINE i == Idle
             q == [i EXCEPT !.step = "read", !.mode = c.mode, !.config = c.config, !.attested = c.attested]
  <2>2. i \in RunState
    BY IdleState
  <2>3. run' = [run EXCEPT ![r] = q]
    BY <2>1
  <2> HIDE DEF i
  <2>4. q.step = "read"
    BY <2>2 DEF RunState
  <2> HIDE DEF q
  <2> QED
    BY <1>2, <2>3, <2>4
<1>4. CASE \/ ReadEnvironment(r) \/ ReadRuleset(r) \/ ReadReady(r) \/ ReadApproved(r) \/ ReadPackage(r)
  <2>1. PICK i, v : Observe(r, i, v)
    BY <1>4 DEF ReadEnvironment, ReadRuleset, ReadReady, ReadApproved, ReadPackage, Read, Succeed, Fail
  <2> DEFINE u == [s.seen EXCEPT ![i] = v]
             step == IF s.at = LastRead(r) THEN s.round ELSE "read"
             t == [s EXCEPT !.seen = u, !.at = s.at + 1, !.step = step]
  <2>2. run' = [run EXCEPT ![r] = t]
    BY <2>1 DEF Observe
  <2>3. step \in {"read", "plan", "readback", "final"}
    BY <1>1 DEF RunState
  <2> HIDE DEF u, step
  <2>4. t.step = step
    <3> HIDE DEF s
    <3> QED
      BY <1>1 DEF RunState
  <2> HIDE DEF t
  <2> QED
    BY <1>2, <2>2, <2>3, <2>4
<1>5. ASSUME NEW p \in RunState, run' = [run EXCEPT ![r] = End(p)] PROVE Grounded(r)'
  BY <1>2, <1>5, EndState
<1>6. ASSUME NEW p \in RunState, NEW step \in Steps \ {"write", "put", "branch"},
             run' = [run EXCEPT ![r] = [p EXCEPT !.step = step]]
      PROVE  Grounded(r)'
  <2> DEFINE q == [p EXCEPT !.step = step]
  <2>1. q.step = step /\ run' = [run EXCEPT ![r] = q]
    BY <1>6 DEF RunState
  <2> HIDE DEF q
  <2> QED
    BY <1>2, <2>1
<1>7. ASSUME NEW p \in RunState, NEW round \in {"readback", "final"},
             run' = [run EXCEPT ![r] = Round(p, round)]
      PROVE  Grounded(r)'
  BY <1>2, <1>7, RoundState
<1>8. ASSUME NEW v \in {"BLOCKED", "READY", "NOT_READY", "PASS", "LIVE_AUDIT_REQUIRED"}
      PROVE  [s EXCEPT !.verdict = v] \in RunState
  <2> HIDE DEF s
  <2> QED
    BY <1>1, <1>8 DEF RunState
<1>9. /\ Verdict(s.seen, s.config, s.attested) \in {"BLOCKED", "READY", "NOT_READY"}
      /\ AgentVerdict(s.seen, s.config, s.attested) \in {"BLOCKED", "PASS", "LIVE_AUDIT_REQUIRED"}
  BY VerdictTypes
<1>10. CASE PlanCheck(r)
  <2> DEFINE v == IF s.mode = "check" THEN Verdict(s.seen, s.config, s.attested)
                  ELSE AgentVerdict(s.seen, s.config, s.attested)
  <2>1. run' = [run EXCEPT ![r] = End([s EXCEPT !.verdict = v])]
    BY <1>10 DEF PlanCheck
  <2>2. v \in {"BLOCKED", "READY", "NOT_READY", "PASS", "LIVE_AUDIT_REQUIRED"}
    BY <1>9
  <2> HIDE DEF v
  <2> QED
    BY <1>5, <1>8, <2>1, <2>2
<1>11. CASE PlanAudit(r)
  <2> DEFINE p == [s EXCEPT !.verdict = Verdict(s.seen, s.config, s.attested)]
  <2>1. run' = [run EXCEPT ![r] = [p EXCEPT !.step = "approve"]] \/ run' = [run EXCEPT ![r] = End(p)]
    BY <1>11 DEF PlanAudit
  <2>2. p \in RunState
    BY <1>8, <1>9
  <2> HIDE DEF p
  <2> QED
    BY <1>5, <1>6, <2>1, <2>2 DEF Steps
<1>12. CASE ReadBack(r)
  <2>1. \/ run' = [run EXCEPT ![r] = [s EXCEPT !.step = "approve"]]
        \/ run' = [run EXCEPT ![r] = [s EXCEPT !.step = "open"]]
        \/ run' = [run EXCEPT ![r] = End(s)]
        \/ run' = [run EXCEPT ![r] = Round(s, "final")]
    BY <1>12 DEF ReadBack, AfterWrites
  <2> HIDE DEF s
  <2> QED
    BY <1>1, <1>5, <1>6, <1>7, <2>1 DEF Steps
<1>13. CASE Approve(r) \/ Open(r)
  <2>1. PICK i \in Resources :
          \/ run' = [run EXCEPT ![r] = End([s EXCEPT !.wrote = Append(s.wrote, i)])]
          \/ run' = [run EXCEPT ![r] = [[s EXCEPT !.wrote = Append(s.wrote, i)] EXCEPT !.step = "open"]]
          \/ run' = [run EXCEPT ![r] = Round([s EXCEPT !.wrote = Append(s.wrote, i)], "final")]
    BY <1>13, ResourceNames DEF Approve, Open
  <2> DEFINE w == Append(s.wrote, i)
             p == [s EXCEPT !.wrote = w]
  <2>2. w \in Seq(Resources)
    BY <1>1 DEF RunState
  <2> HIDE DEF w
  <2>3. p \in RunState
    <3> HIDE DEF s
    <3> QED
      BY <1>1, <2>2 DEF RunState
  <2>4. \/ run' = [run EXCEPT ![r] = End(p)]
        \/ run' = [run EXCEPT ![r] = [p EXCEPT !.step = "open"]]
        \/ run' = [run EXCEPT ![r] = Round(p, "final")]
    BY <2>1 DEF w
  <2> HIDE DEF p
  <2> QED
    BY <1>5, <1>6, <1>7, <2>3, <2>4 DEF Steps
<1>14. CASE Final(r)
  <2> DEFINE p == [s EXCEPT !.verdict = Verdict(s.seen, s.config, s.attested)]
             e == End(p)
  <2>1. run' = [run EXCEPT ![r] = [e EXCEPT !.step = "failed"]] \/ run' = [run EXCEPT ![r] = e]
    BY <1>14 DEF Final
  <2>2. p \in RunState
    BY <1>8, <1>9
  <2> HIDE DEF p
  <2>3. e \in RunState /\ e.step = "ended"
    BY <2>2, EndState
  <2> HIDE DEF e
  <2> QED
    BY <1>2, <1>6, <2>1, <2>3 DEF Steps
<1>15. CASE Die(r)
  <2> DEFINE e == End(s)
             q == [e EXCEPT !.step = "failed", !.todo = {}]
  <2>1. run' = [run EXCEPT ![r] = q]
    BY <1>15 DEF Die
  <2>2. e \in RunState
    BY <1>1, EndState
  <2> HIDE DEF e
  <2>3. q.step = "failed"
    BY <2>2 DEF RunState
  <2> HIDE DEF q
  <2> QED
    BY <1>2, <2>1, <2>3
<1>16. CASE Gone(r)
  <2>1. run' = [run EXCEPT ![r] = [s EXCEPT !.step = "failed"]]
    BY <1>16 DEF Gone, GoTo
  <2> HIDE DEF s
  <2> QED
    BY <1>1, <1>6, <2>1 DEF Steps
<1> QED
  BY <1>3, <1>4, <1>10, <1>11, <1>12, <1>13, <1>14, <1>15, <1>16, PlanIsGrounded,
     EnvironmentIsGrounded, ItemIsGrounded DEF Progress

\* The run that acts, the others, and what a maintainer leaves of them.
LEMMA SteadyStep ==
  ASSUME SteadyInv, NEW r \in Runs, Start(r) \/ Progress(r) \/ Die(r), NEW q \in Runs
  PROVE  Steady(q)'
<1>1. Inv /\ Pledges /\ Steady(r) /\ Steady(q)
  BY DEF SteadyInv
<1>2. CASE q = r
  BY <1>1, <1>2, RunTidies, RunIsGrounded, RunIsOrderly DEF Steady
<1>3. CASE q # r
  <2>1. run'[q] = run[q]
    BY <1>1, <1>3, ActsAlone
  <2>2. Tidy(run[q])'
    BY <1>1, <2>1 DEF Steady
  <2>3. CASE DisturbAllBut({r})
    <3>1. q \notin calm' /\ promise'[q] = "nothing"
      BY <1>3, <2>3 DEF DisturbAllBut
    <3> QED
      BY <2>2, <3>1 DEF Steady, Grounded, Orderly
  <2>4. CASE /\ UNCHANGED <<environment, ruleset, publishers, ready, approved>>
             /\ calm' \subseteq calm \cup {r} /\ promise'[q] = promise[q]
    <3>1. Remote' = Remote
      BY <2>4 DEF Remote
    <3>2. Grounded(q)'
      BY <1>1, <1>3, <2>1, <2>4, <3>1 DEF Steady, Grounded
    <3>3. Orderly(q)'
      BY <1>1, <2>1, <2>4, <3>1 DEF Steady, Orderly, InPlace
    <3> QED
      BY <2>2, <3>2, <3>3 DEF Steady
  <2> QED
    BY <1>1, <1>3, <2>3, <2>4, ActsAlone
<1> QED
  BY <1>2, <1>3

LEMMA PledgesKept == ASSUME Inv, Pledges, [Next]_vars PROVE Pledges'
<1>1. ASSUME NEW r \in Runs, Start(r) \/ Progress(r) \/ Die(r) PROVE Pledges'
  <2>1. CASE Start(r)
    <3>1. \A c : Owes(c) \in {"nothing", "quiet", "ready"}
      BY DEF Owes
    <3> QED
      BY <2>1, <3>1 DEF Start, Pledges
  <2>2. CASE Die(r)
    BY <2>2 DEF Die, Pledges
  <2>3. CASE \/ ReadEnvironment(r) \/ ReadRuleset(r) \/ ReadReady(r) \/ ReadApproved(r) \/ ReadPackage(r)
    BY <2>3 DEF ReadEnvironment, ReadRuleset, ReadReady, ReadApproved, ReadPackage, Read, Succeed,
                Fail, Pledges
  <2>4. CASE \/ PlanCheck(r) \/ PlanAudit(r) \/ PlanApply(r) \/ UpdateEnvironment(r) \/ Gone(r)
             \/ ReadBack(r) \/ Final(r)
    BY <2>4 DEF PlanCheck, PlanAudit, PlanApply, UpdateEnvironment, Gone, ReadBack, Final,
                Undisturbed, Pledges
  <2>5. CASE \/ CreateEnvironment(r) \/ PutEnvironment(r) \/ PostBranch(r) \/ CreateRuleset(r)
             \/ UpdateRuleset(r) \/ AddPublisher(r) \/ Approve(r) \/ Open(r)
    <3>1. DisturbAllBut({r})
      BY <2>5 DEF CreateEnvironment, PutEnvironment, PostBranch, CreateRuleset, UpdateRuleset,
                  AddPublisher, Approve, Open
    <3> QED
      BY <3>1 DEF DisturbAllBut, Pledges
  <2> QED
    BY <1>1, <2>1, <2>2, <2>3, <2>4, <2>5 DEF Progress
<1>2. CASE Maintainer
  BY <1>2 DEF Maintainer, ChangeEnvironment, ChangeRuleset, ChangePublishers, ChangeReady,
              ChangeApproved, ByHand, DisturbAllBut, Pledges
<1>3. CASE UNCHANGED vars
  BY <1>3 DEF vars, Pledges
<1> QED
  BY <1>1, <1>2, <1>3 DEF Next

LEMMA SteadyInductive == SteadyInv /\ [Next]_vars => SteadyInv'
<1> SUFFICES ASSUME SteadyInv, [Next]_vars PROVE SteadyInv'
  OBVIOUS
<1>1. Inv /\ Pledges /\ Inv' /\ Pledges'
  BY InvInductive, PledgesKept DEF SteadyInv
<1>2. ASSUME NEW q \in Runs PROVE Steady(q)'
  <2>1. CASE \E r \in Runs : Start(r) \/ Progress(r) \/ Die(r)
    BY <2>1, SteadyStep
  <2>2. CASE Maintainer
    <3>1. calm' = {} /\ promise' = [p \in Runs |-> "nothing"] /\ UNCHANGED run
      BY <2>2 DEF Maintainer, ChangeEnvironment, ChangeRuleset, ChangePublishers, ChangeReady,
                  ChangeApproved, ByHand, DisturbAllBut
    <3> QED
      BY <3>1 DEF SteadyInv, Steady, Grounded, Orderly
  <2>3. CASE UNCHANGED vars
    <3>1. Remote' = Remote
      BY <2>3 DEF vars, Remote
    <3> QED
      BY <2>3, <3>1 DEF vars, SteadyInv, Steady, Grounded, Orderly, InPlace
  <2> QED
    BY <2>1, <2>2, <2>3 DEF Next
<1> QED
  BY <1>1, <1>2 DEF SteadyInv

LEMMA SteadyInit == Init => SteadyInv
<1> SUFFICES ASSUME Init PROVE SteadyInv
  OBVIOUS
<1>1. Pledges /\ calm = {} /\ \A r \in Runs : promise[r] = "nothing" /\ run[r] = Idle
  BY DEF Init, Pledges
<1>2. Tidy(Idle)
  BY IdleState, WrittenEmpty, OrderCovers DEF Tidy
<1> QED
  BY <1>1, <1>2, InitInv DEF SteadyInv, Steady, Grounded, Orderly

-----------------------------------------------------------------------------
(* What a run may do to what it finds.                                       *)

Spared ==
  /\ environment # None => environment' # None /\ (environment.reviewed => environment'.reviewed)
  /\ ruleset # "many" => ruleset' # "many"
  /\ \A p \in Packages : publishers'[p] # publishers[p] => publishers[p] = <<>>

LEMMA PutKeeps ==
  ASSUME NEW e \in Environment \cup {None}, NEW reviewed \in BOOLEAN
  PROVE  Put(e, reviewed) \in Environment /\ Put(e, reviewed).reviewed = reviewed
<1>1. CASE e = None
  <2>1. Put(e, reviewed) = [main |-> FALSE, custom |-> TRUE, known |-> TRUE, reviewed |-> reviewed, token |-> FALSE]
    BY <1>1 DEF Put, NewEnvironment
  <2> QED
    BY <2>1 DEF Environment
<1>2. CASE e # None
  <2>1. e \in Environment /\ Put(e, reviewed) = [e EXCEPT !.custom = TRUE, !.reviewed = reviewed]
    BY <1>2 DEF Put
  <2> QED
    BY <2>1 DEF Environment
<1> QED
  BY <1>1, <1>2

LEMMA CalmSpares ==
  ASSUME SteadyInv, NEW r \in calm, Start(r) \/ Progress(r) \/ Die(r)
  PROVE  Spared
<1>1. /\ r \in Runs /\ Inv /\ Tidy(run[r]) /\ Grounded(r) /\ environment \in Environment \cup {None}
      /\ publishers \in [Packages -> Seq(Publisher)] /\ run[r] \in RunState
  BY RunFacts DEF SteadyInv, Steady, Inv, Shape
<1>2. ASSUME NEW i, NEW action, Writing(r, i, action)
      PROVE  /\ i \in run[r].todo /\ i \in Resources /\ run[r].seen[i] = Remote[i]
             /\ Item(run[r].seen, i) = action
  <2>1. i \in run[r].todo /\ run[r].step = "write" /\ Item(run[r].seen, i) = action
    BY <1>2, FirstPends DEF Writing
  <2> QED
    BY <1>1, <2>1 DEF Grounded, RunState
<1>3. CASE UNCHANGED <<environment, ruleset, publishers>>
  BY <1>3 DEF Spared
<1>4. CASE CreateEnvironment(r)
  <2>1. run[r].seen["environment"] = environment /\ EnvironmentItem(run[r].seen["environment"]) = "CREATE"
    BY <1>2, <1>4, RemoteFields DEF CreateEnvironment, Item
  <2>2. environment = None
    BY <2>1 DEF EnvironmentItem
  <2> QED
    BY <1>4, <2>2 DEF CreateEnvironment, Spared
<1>5. CASE PutEnvironment(r)
  <2>1. environment' = Put(environment, run[r].reviewed) /\ UNCHANGED <<ruleset, publishers>>
    BY <1>5 DEF PutEnvironment, PutBody
  <2>2. environment # None => (environment.reviewed => run[r].reviewed)
    BY <1>1, <1>5 DEF Grounded, PutEnvironment
  <2>3. environment' \in Environment /\ environment'.reviewed = run[r].reviewed
    BY <1>1, <2>1, PutKeeps DEF RunState
  <2> QED
    BY <2>1, <2>2, <2>3, ReleaseConstants DEF Spared
<1>6. CASE PostBranch(r)
  <2>1. environment \in Environment /\ environment' = [environment EXCEPT !.main = TRUE]
    BY <1>1, <1>6 DEF PostBranch
  <2>2. environment'.reviewed = environment.reviewed /\ environment' \in Environment
    BY <2>1 DEF Environment
  <2> QED
    BY <1>6, <2>2, ReleaseConstants DEF PostBranch, Spared
<1>7. CASE CreateRuleset(r)
  <2>1. run[r].seen["ruleset"] = ruleset /\ RulesetItem(run[r].seen["ruleset"]) = "CREATE"
    BY <1>2, <1>7, RemoteFields DEF CreateRuleset, Item
  <2>2. ruleset = "missing"
    BY <2>1 DEF RulesetItem
  <2> QED
    BY <1>7, <2>2 DEF CreateRuleset, Spared
<1>8. CASE UpdateRuleset(r)
  BY <1>8 DEF UpdateRuleset, Spared
<1>9. CASE AddPublisher(r)
  <2>1. PICK p \in Packages : /\ Writing(r, p, "CREATE")
                              /\ publishers' = [publishers EXCEPT ![p] = Append(@, "ours")]
    BY <1>9 DEF AddPublisher
  <2>2. run[r].seen[p] = publishers[p] /\ PublisherItem(run[r].seen[p]) = "CREATE"
    BY <1>2, <2>1, RemoteFields, ResourceNames DEF Item
  <2>3. publishers[p] = <<>>
    BY <2>2 DEF PublisherItem
  <2>4. \A q \in Packages \ {p} : publishers'[q] = publishers[q]
    BY <1>1, <2>1
  <2> QED
    BY <1>9, <2>3, <2>4 DEF AddPublisher, Spared
<1>10. CASE \/ Start(r) \/ Die(r) \/ PlanCheck(r) \/ PlanAudit(r) \/ PlanApply(r) \/ UpdateEnvironment(r)
            \/ Gone(r) \/ ReadBack(r) \/ Approve(r) \/ Open(r) \/ Final(r)
  BY <1>3, <1>10 DEF Start, Die, PlanCheck, PlanAudit, PlanApply, UpdateEnvironment, Gone, ReadBack,
                     Approve, Open, Final, LocalOnly
<1>11. CASE \/ ReadEnvironment(r) \/ ReadRuleset(r) \/ ReadReady(r) \/ ReadApproved(r) \/ ReadPackage(r)
  BY <1>3, <1>11 DEF ReadEnvironment, ReadRuleset, ReadReady, ReadApproved, ReadPackage, Read
<1> QED
  BY <1>4, <1>5, <1>6, <1>7, <1>8, <1>9, <1>10, <1>11 DEF Progress

\* What a run has written, what is pending and what it owes hold of every reachable
\* state (applyMutations, maybePersistApprovedAndSetReady).
THEOREM SteadyInvariance == Spec => []SteadyInv
  BY SteadyInit, SteadyInductive, PTL DEF Spec

\* Every variable keeps its type; a run deals with no resource twice, and READY is
\* the last thing it writes (applyMutations).
THEOREM RunsWriteOnce == Spec => []TypeOK
<1>1. SteadyInv => TypeOK
  <2> SUFFICES ASSUME SteadyInv PROVE TypeOK
    OBVIOUS
  <2>1. Shape
    BY DEF SteadyInv, Inv
  <2>2. ASSUME NEW r \in Runs
        PROVE  /\ run[r].step \in Steps /\ run[r].mode \in Modes /\ run[r].attested \in Attestations
               /\ run[r].at \in 1 .. Len(Order) + 1
               /\ \A i, j \in DOMAIN run[r].wrote :
                    /\ run[r].wrote[i] = run[r].wrote[j] => i = j
                    /\ run[r].wrote[j] = "ready" => i <= j
    <3>1. run[r] \in RunState
      BY <2>1 DEF Shape
    <3>2. Tidy(run[r])
      BY DEF SteadyInv, Steady
    <3> QED
      BY <3>1, <3>2 DEF Tidy, Once, RunState
  <2> QED
    BY <2>1, <2>2 DEF TypeOK, Shape
<1> QED
  BY <1>1, SteadyInvariance, PTL

\* A run that finds everything in place, and is left alone, writes nothing and says
\* READY: applying twice is applying once (runReleaseSetup).
THEOREM SecondApplyChangesNothing == Spec => []SecondApplyIsQuiet
<1>1. SteadyInv => SecondApplyIsQuiet
  BY DEF SteadyInv, Steady, Orderly, SecondApplyIsQuiet
<1> QED
  BY <1>1, SteadyInvariance, PTL

\* An undisturbed run takes away no reviewers and no publisher, and makes no second
\* ruleset or publisher (planEnvironmentWrite, applyMutations).
THEOREM NothingIsTakenAway == Spec => KeepsWhatItFound
<1>1. SteadyInv /\ [Next]_vars => [\A r \in calm : run'[r] # run[r] => Spared]_vars
  <2> SUFFICES ASSUME SteadyInv, Next, NEW r \in calm, run'[r] # run[r] PROVE Spared
    OBVIOUS
  <2>1. Inv /\ Pledges /\ r \in Runs
    BY DEF SteadyInv, Inv, Shape
  <2>2. ~Maintainer
    BY DEF Maintainer, ChangeEnvironment, ChangeRuleset, ChangePublishers, ChangeReady,
           ChangeApproved, ByHand
  <2>3. PICK q \in Runs : Start(q) \/ Progress(q) \/ Die(q)
    BY <2>2 DEF Next
  <2>4. q = r
    BY <2>1, <2>3, ActsAlone
  <2> QED
    BY <2>3, <2>4, CalmSpares
<1>2. (\A r \in calm : run'[r] # run[r] => Spared) =>
        (\A r \in calm :
           run'[r] # run[r] =>
             /\ environment # None => environment' # None /\ (environment.reviewed => environment'.reviewed)
             /\ ruleset # "many" => ruleset' # "many"
             /\ \A p \in Packages : publishers'[p] # publishers[p] => publishers[p] = <<>>)
  BY DEF Spared
<1> QED
  BY <1>1, <1>2, SteadyInvariance, PTL DEF Spec, KeepsWhatItFound

-----------------------------------------------------------------------------
(* The theorems.                                                             *)

\* What a run knows of the control plane, and who vouches for an approved hash,
\* hold of every reachable state (discoverActual, maybePersistApprovedAndSetReady).
THEOREM Invariance == Spec => []Inv
<1>1. Init => Inv
  BY InitInv
<1>2. Inv /\ [Next]_vars => Inv'
  BY InvInductive
<1> QED BY <1>1, <1>2, PTL DEF Spec

\* The agent check passes only a configuration that was audited, whatever the
\* runs, the failures and the changes by hand (planAgentControlPlaneCheck).
THEOREM OnlyAuditedPasses == Spec => []PassIsAudited
<1>1. Inv => PassIsAudited
  BY DEF Inv, Knows, Vouched, PassIsAudited
<1> QED BY <1>1, Invariance, PTL

\* READY is set by an undisturbed run only on a control plane that is in order,
\* and approved (maybePersistApprovedAndSetReady).
THEOREM ReadyIsAlwaysEarned == Spec => ReadyIsEarned
<1>1. Inv => \A r \in Runs : Open(r) /\ r \in calm =>
        Prerequisites(Remote, run[r].config, run[r].attested) /\ approved = run[r].config
  BY DEF Inv, Knows, Faithful, Open
<1> QED BY <1>1, Invariance, PTL DEF Spec, ReadyIsEarned
=============================================================================
