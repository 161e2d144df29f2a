---------------------------- MODULE ReleaseSetup ----------------------------
(***************************************************************************)
(* runReleaseSetup: runs of release:setup on one or more machines, each    *)
(* from its own checkout, against one GitHub repository and the npm        *)
(* registry, where maintainers also change things by hand.  Every call of  *)
(* the two clients that reads or writes is a step of its own; a run may    *)
(* end at any step, because a call failed or the process did.              *)
(***************************************************************************)
EXTENDS ReleasePlan

CONSTANTS
  Runs,
  Scenarios  \* the bounds: what is out there, which runs are started, how much goes wrong

VARIABLES
  environment, ruleset, publishers,  \* GitHub environment and rulesets; per package, npm trust list
  ready, approved,                   \* NPM_TRUSTED_PUBLISHING_READY ("true" or "other"), ..._CONFIG_SHA256
  run,
  scenario, faults, changes,         \* reads that fail and changes by hand, still to come
  calm,      \* history: runs whose round nobody else has disturbed
  promise,   \* history: what a run must come to if nothing goes wrong
  audited    \* history: configurations found good by a live read, or approved by hand

Modes == {"check", "check-agent", "audit-live", "apply"}

\* What a maintainer types in, and where.
Command == [mode : Modes, config : Configs, attested : Attestations]

ASSUME ScenariosAreBounds ==
  \A s \in Scenarios :
    /\ s.environments \subseteq Environment \cup {None} /\ s.rulesets \subseteq Ruleset
    /\ s.publishers \subseteq Seq(Publisher) /\ s.ready \subseteq {"true", "other"}
    /\ s.approved \subseteq Configs \cup {None} /\ s.faults \in Nat /\ s.changes \in Nat
    /\ s.deaths \in BOOLEAN /\ \A r \in Runs : s.starts[r] \subseteq Command

vars == <<environment, ruleset, publishers, ready, approved, run,
          scenario, faults, changes, calm, promise, audited>>

Live(mode) == mode # "check-agent"

Steps == {"idle", "read", "plan", "write", "put", "branch", "readback", "approve", "open", "final",
          "ended", "failed"}

Idle ==
  [step |-> "idle", mode |-> "check", config |-> None, attested |-> None, round |-> "plan",
   at |-> 1, seen |-> NothingSeen, todo |-> {}, reviewed |-> FALSE, wrote |-> <<>>, verdict |-> "none"]

Remote ==
  [i \in Resources |->
     CASE i = "environment" -> environment
       [] i = "ruleset" -> ruleset
       [] i = "ready" -> ready
       [] i = "approved" -> approved
       [] OTHER -> publishers[i]]

PrerequisitesOf(r, seen) == Prerequisites(seen, run[r].config, run[r].attested)

-----------------------------------------------------------------------------
\* What a run that starts now owes: no write at all when everything is in place;
\* READY, when an apply can bring about whatever is missing.
Owes(s) ==
  LET good == Prerequisites(Remote, s.config, s.attested) /\ ~environment.token
      fixable ==
        /\ s.config \notin Detached /\ \A p \in Packages : Covers(s.attested, p)
        /\ environment = None \/ (~environment.token /\ (environment.main \/ environment.custom \/ environment.known))
        /\ ruleset \in {"missing", "match", "weak"}
        /\ \A p \in Packages : publishers[p] \in {<<>>, <<"ours">>}
        /\ ready = "true" => good
  IN IF s.mode \in {"apply", "audit-live"} /\ good /\ ready = "true" /\ approved = s.config
     THEN "quiet"
     ELSE IF s.mode = "apply" /\ fixable THEN "ready" ELSE "nothing"

\* A change of the remote state that the others did not make.
DisturbAllBut(who) ==
  /\ calm' = calm \cap who
  /\ promise' = [r \in Runs |-> IF r \in who THEN promise[r] ELSE "nothing"]
Undisturbed == UNCHANGED <<calm, promise>>

Start(r) ==
  /\ run[r].step = "idle"
  /\ \E s \in scenario.starts[r] :
       /\ run' = [run EXCEPT ![r] = [Idle EXCEPT !.step = "read", !.mode = s.mode,
                                                 !.config = s.config, !.attested = s.attested]]
       /\ promise' = [promise EXCEPT ![r] = Owes(s)]
  /\ UNCHANGED <<environment, ruleset, publishers, ready, approved, scenario, faults, changes, calm, audited>>

-----------------------------------------------------------------------------
\* discoverActual: one resource after the other; npm only in the live modes.
LastRead(r) == IF Live(run[r].mode) THEN Len(Order) ELSE 4

Observe(r, i, value) ==
  /\ run[r].step = "read" /\ Order[run[r].at] = i
  /\ LET s == run[r]
     IN run' = [run EXCEPT ![r] = [s EXCEPT !.seen = [@ EXCEPT ![i] = value], !.at = @ + 1,
                                            !.step = IF s.at = LastRead(r) THEN s.round ELSE "read"]]

Succeed(r, i, value) == Observe(r, i, value) /\ UNCHANGED <<faults, promise>>
Fail(r, i) ==
  /\ faults > 0 /\ faults' = faults - 1
  /\ Observe(r, i, Unread)
  /\ promise' = [promise EXCEPT ![r] = "nothing"]

Read(r, i, value) ==
  /\ Succeed(r, i, value) \/ Fail(r, i)
  /\ calm' = IF run[r].at = 1 THEN calm \cup {r} ELSE calm
  /\ UNCHANGED <<environment, ruleset, publishers, ready, approved, scenario, changes, audited>>

ReadEnvironment(r) == Read(r, "environment", environment)
ReadRuleset(r) == Read(r, "ruleset", ruleset)
ReadReady(r) == Read(r, "ready", ready)
ReadApproved(r) == Read(r, "approved", approved)
ReadPackage(r) == \E p \in Packages : Read(r, p, publishers[p])

\* Everything is read again.
Round(s, round) == [s EXCEPT !.step = "read", !.round = round, !.at = 1, !.seen = NothingSeen]

End(s) == [s EXCEPT !.step = "ended", !.seen = NothingSeen]

-----------------------------------------------------------------------------
LocalOnly == UNCHANGED <<environment, ruleset, publishers, ready, approved, scenario, faults, changes>>

\* Mutant: a hash is persisted again.
NeverApproved(r) == FALSE
IsApproved(r) == run[r].seen["approved"] = run[r].config

PlanCheck(r) ==
  /\ run[r].step = "plan" /\ run[r].mode \in {"check", "check-agent"}
  /\ LET s == run[r]
         verdict == IF s.mode = "check" THEN Verdict(s.seen, s.config, s.attested)
                    ELSE AgentVerdict(s.seen, s.config, s.attested)
     IN run' = [run EXCEPT ![r] = End([s EXCEPT !.verdict = verdict])]
  /\ LocalOnly /\ Undisturbed /\ UNCHANGED audited

\* The approved hash is decided by the prerequisites, not by the verdict.
PlanAudit(r) ==
  /\ run[r].step = "plan" /\ run[r].mode = "audit-live"
  /\ LET s == run[r]
         good == PrerequisitesOf(r, s.seen)
         planned == [s EXCEPT !.verdict = Verdict(s.seen, s.config, s.attested)]
     IN /\ run' = [run EXCEPT ![r] = IF good /\ ~IsApproved(r) THEN [planned EXCEPT !.step = "approve"]
                                     ELSE End(planned)]
        /\ audited' = IF good THEN audited \cup {s.config} ELSE audited
  /\ LocalOnly /\ Undisturbed

PlanApply(r) ==
  /\ run[r].step = "plan" /\ run[r].mode = "apply"
  /\ LET s == run[r]
         planned == [s EXCEPT !.verdict = Verdict(s.seen, s.config, s.attested), !.todo = Pending(s.seen)]
     IN \/ /\ Blocked(s.seen, s.config, s.attested)
           /\ run' = [run EXCEPT ![r] = End([planned EXCEPT !.todo = {}])]
        \/ /\ ~Blocked(s.seen, s.config, s.attested) /\ planned.todo # {}
           /\ run' = [run EXCEPT ![r] = [planned EXCEPT !.step = "write"]]
        \/ /\ ~Blocked(s.seen, s.config, s.attested) /\ planned.todo = {}
           /\ run' = [run EXCEPT ![r] = Round(planned, "readback")]
  /\ LocalOnly /\ Undisturbed /\ UNCHANGED audited

-----------------------------------------------------------------------------
\* applyMutations: the pending items in order.
Writing(r, i, action) ==
  /\ run[r].step = "write" /\ IsFirst(i, run[r].todo)
  /\ Item(run[r].seen, i) = action

\* Mutant: an item that is done stays pending.
StaysPending(s, i) == [s EXCEPT !.wrote = Append(@, i), !.step = "write"]

\* One item less; after the last one everything is read back.
Done(s, i) ==
  LET next == [s EXCEPT !.wrote = Append(@, i), !.todo = @ \ {i}, !.step = "write"]
  IN IF next.todo = {} THEN Round(next, "readback") ELSE next

FinishItem(r, i) == run' = [run EXCEPT ![r] = Done(@, i)]
GoTo(r, step) == run' = [run EXCEPT ![r].step = step]

\* createEnvironment's PUT, whatever is there by now.
CreateEnvironment(r) ==
  /\ Writing(r, "environment", "CREATE")
  /\ environment' = Put(environment, FALSE)
  /\ GoTo(r, "branch") /\ DisturbAllBut({r})
  /\ UNCHANGED <<ruleset, publishers, ready, approved, scenario, faults, changes, audited>>

\* updateEnvironment: a fresh read decides what to write.
UpdateEnvironment(r) ==
  /\ Writing(r, "environment", "UPDATE")
  /\ CASE EnvironmentWrite(environment) = "nothing" -> FinishItem(r, "environment")
       [] EnvironmentWrite(environment) = "branch" -> GoTo(r, "branch")
       [] EnvironmentWrite(environment) = "create" -> GoTo(r, "put")
       [] EnvironmentWrite(environment) = "put" ->
            run' = [run EXCEPT ![r] = [@ EXCEPT !.step = "put", !.reviewed = environment.reviewed]]
       [] OTHER -> GoTo(r, "failed")
  /\ LocalOnly /\ Undisturbed /\ UNCHANGED audited

\* Mutant: the body has no reviewers.
PutBare(r) == Put(environment, FALSE)
PutBody(r) == Put(environment, run[r].reviewed)

PutEnvironment(r) ==
  /\ run[r].step = "put"
  /\ environment' = PutBody(r)
  /\ GoTo(r, "branch") /\ DisturbAllBut({r})
  /\ UNCHANGED <<ruleset, publishers, ready, approved, scenario, faults, changes, audited>>

\* ensureMainBranchPolicy
PostBranch(r) ==
  /\ run[r].step = "branch" /\ environment # None
  /\ environment' = [environment EXCEPT !.main = TRUE]
  /\ FinishItem(r, "environment") /\ DisturbAllBut({r})
  /\ UNCHANGED <<ruleset, publishers, ready, approved, scenario, faults, changes, audited>>

\* A ruleset that someone else has created meanwhile makes two.
CreateRuleset(r) ==
  /\ Writing(r, "ruleset", "CREATE")
  /\ ruleset' = IF ruleset = "missing" THEN "match" ELSE "many"
  /\ FinishItem(r, "ruleset") /\ DisturbAllBut({r})
  /\ UNCHANGED <<environment, publishers, ready, approved, scenario, faults, changes, audited>>

\* The payload is the desired rules and whatever else is there.
UpdateRuleset(r) ==
  /\ Writing(r, "ruleset", "UPDATE") /\ ruleset # "missing"
  /\ ruleset' = IF ruleset = "many" THEN "many" ELSE "match"
  /\ FinishItem(r, "ruleset") /\ DisturbAllBut({r})
  /\ UNCHANGED <<environment, publishers, ready, approved, scenario, faults, changes, audited>>

AddPublisher(r) ==
  /\ \E p \in Packages :
       /\ Writing(r, p, "CREATE")
       /\ publishers' = [publishers EXCEPT ![p] = Append(@, "ours")]
       /\ FinishItem(r, p)
  /\ DisturbAllBut({r})
  /\ UNCHANGED <<environment, ruleset, ready, approved, scenario, faults, changes, audited>>

\* What was to be changed is gone, or its rules cannot be merged any more.
Gone(r) ==
  /\ \/ run[r].step = "branch" /\ environment = None
     \/ Writing(r, "ruleset", "UPDATE") /\ ruleset \in {"missing", "foreign"}
  /\ GoTo(r, "failed") /\ LocalOnly /\ Undisturbed /\ UNCHANGED audited

-----------------------------------------------------------------------------
\* What is left once the approved hash and READY have been dealt with.
AfterWrites(s) == IF s.wrote = <<>> THEN End(s) ELSE Round(s, "final")

\* Mutant: a plan without a stop is taken for prerequisites that hold.
NothingStops(r) == ~Blocked(run[r].seen, run[r].config, run[r].attested)
MayOpen(r) == PrerequisitesOf(r, run[r].seen)

\* maybePersistApprovedAndSetReady, up to its writes.
ReadBack(r) ==
  /\ run[r].step = "readback"
  /\ LET s == run[r] IN
       \/ /\ ~MayOpen(r)
          /\ run' = [run EXCEPT ![r] = AfterWrites(s)]
          /\ audited' = audited
       \/ /\ MayOpen(r)
          /\ run' = [run EXCEPT ![r] = IF ~IsApproved(r) THEN [s EXCEPT !.step = "approve"]
                                       ELSE IF s.seen["ready"] # "true" THEN [s EXCEPT !.step = "open"]
                                       ELSE AfterWrites(s)]
          /\ audited' = audited \cup {s.config}
  /\ LocalOnly /\ Undisturbed

\* setApprovedConfigSha256; an audit ends here.
Approve(r) ==
  /\ run[r].step = "approve"
  /\ approved' = run[r].config
  /\ LET s == [run[r] EXCEPT !.wrote = Append(@, "approved")]
     IN run' = [run EXCEPT ![r] = IF s.mode = "audit-live" THEN End(s)
                                  ELSE IF s.seen["ready"] # "true" THEN [s EXCEPT !.step = "open"]
                                  ELSE Round(s, "final")]
  /\ DisturbAllBut({r})
  /\ UNCHANGED <<environment, ruleset, publishers, ready, scenario, faults, changes, audited>>

\* setReadyVariable, the last write.
Open(r) ==
  /\ run[r].step = "open"
  /\ ready' = "true"
  /\ run' = [run EXCEPT ![r] = Round([run[r] EXCEPT !.wrote = Append(@, "ready")], "final")]
  /\ DisturbAllBut({r})
  /\ UNCHANGED <<environment, ruleset, publishers, approved, scenario, faults, changes, audited>>

\* The final read-back fails loudly when READY is set on prerequisites that fail.
Final(r) ==
  /\ run[r].step = "final"
  /\ LET s == [run[r] EXCEPT !.verdict = Verdict(run[r].seen, run[r].config, run[r].attested)]
     IN run' = [run EXCEPT ![r] =
                  IF s.seen["ready"] = "true" /\ ~PrerequisitesOf(r, s.seen)
                  THEN [End(s) EXCEPT !.step = "failed"] ELSE End(s)]
  /\ LocalOnly /\ Undisturbed /\ UNCHANGED audited

\* A call fails, or the process is killed, between any two steps.
Die(r) ==
  /\ scenario.deaths /\ run[r].step \notin {"idle", "ended", "failed"}
  /\ run' = [run EXCEPT ![r] = [End(run[r]) EXCEPT !.step = "failed", !.todo = {}]]
  /\ promise' = [promise EXCEPT ![r] = "nothing"]
  /\ LocalOnly /\ UNCHANGED <<calm, audited>>

-----------------------------------------------------------------------------
\* A maintainer changes something in the settings of GitHub or npm.
ByHand == changes > 0 /\ changes' = changes - 1 /\ UNCHANGED <<run, scenario, faults>> /\ DisturbAllBut({})

ChangeEnvironment ==
  /\ environment' \in scenario.environments /\ environment' # environment /\ ByHand
  /\ UNCHANGED <<ruleset, publishers, ready, approved, audited>>
ChangeRuleset ==
  /\ ruleset' \in Ruleset \ {ruleset} /\ ByHand
  /\ UNCHANGED <<environment, publishers, ready, approved, audited>>
ChangePublishers ==
  /\ \E p \in Packages, list \in {<<>>, <<"ours">>, <<"foreign">>, <<"ours", "foreign">>} :
       list # publishers[p] /\ publishers' = [publishers EXCEPT ![p] = list]
  /\ ByHand
  /\ UNCHANGED <<environment, ruleset, ready, approved, audited>>
ChangeReady ==
  /\ ready' \in {"true", "other"} \ {ready} /\ ByHand
  /\ UNCHANGED <<environment, ruleset, publishers, approved, audited>>
ChangeApproved ==
  /\ approved' \in (Configs \cup {None}) \ {approved} /\ ByHand
  /\ audited' = audited \cup ({approved'} \ {None})
  /\ UNCHANGED <<environment, ruleset, publishers, ready>>

Maintainer ==
  ChangeEnvironment \/ ChangeRuleset \/ ChangePublishers \/ ChangeReady \/ ChangeApproved

-----------------------------------------------------------------------------
Init ==
  /\ scenario \in Scenarios
  /\ environment \in scenario.environments /\ ruleset \in scenario.rulesets
  /\ publishers \in [Packages -> scenario.publishers]
  /\ ready \in scenario.ready /\ approved \in scenario.approved
  /\ run = [r \in Runs |-> Idle]
  /\ faults = scenario.faults /\ changes = scenario.changes
  /\ calm = {} /\ promise = [r \in Runs |-> "nothing"]
  /\ audited = {approved} \ {None}

Progress(r) ==
  \/ ReadEnvironment(r) \/ ReadRuleset(r) \/ ReadReady(r) \/ ReadApproved(r) \/ ReadPackage(r)
  \/ PlanCheck(r) \/ PlanAudit(r) \/ PlanApply(r)
  \/ CreateEnvironment(r) \/ UpdateEnvironment(r) \/ PutEnvironment(r) \/ PostBranch(r)
  \/ CreateRuleset(r) \/ UpdateRuleset(r) \/ AddPublisher(r) \/ Gone(r)
  \/ ReadBack(r) \/ Approve(r) \/ Open(r) \/ Final(r)

Next == (\E r \in Runs : Start(r) \/ Progress(r) \/ Die(r)) \/ Maintainer

\* Once started, a run goes on to its end; nobody has to start one.
Fairness == \A r \in Runs : WF_vars(Progress(r))
Spec == Init /\ [][Next]_vars /\ Fairness
=============================================================================
