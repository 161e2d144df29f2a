----------------------------- MODULE ReleasePlan -----------------------------
(***************************************************************************)
(* release-setup-plan.ts: what the release control plane must look like,   *)
(* and what a run of release:setup plans from what it has seen.  Pure.      *)
(*                                                                         *)
(* A snapshot `seen' is a function on Resources.  A resource that could    *)
(* not be read (401, 403, 500, unparsable) is Unread, whatever the status  *)
(* the code gives it: of the environment, the ruleset and the packages     *)
(* each stops the plan, of the two variables none does.                    *)
(***************************************************************************)
EXTENDS Naturals, Sequences

CONSTANTS
  Roster,    \* PUBLIC_PACKAGE_NAMES, in order
  Configs,   \* control-plane configurations: release.yml, the fingerprint's sections, the attestation file
  Detached,  \* those whose release.yml does not reference environment: npm-release
  Outdated,  \* those whose committed fingerprint is missing or another one's
  None, Unread

Packages == {Roster[i] : i \in DOMAIN Roster}

\* main: a deployment-branch policy for main; custom: custom_branch_policies;
\* known: its protection metadata can be represented; reviewed: it has required
\* reviewers; token: it lists a secret named NPM_TOKEN or NODE_AUTH_TOKEN.
Environment == [main : BOOLEAN, custom : BOOLEAN, known : BOOLEAN, reviewed : BOOLEAN, token : BOOLEAN]

\* The rulesets with the managed name: none, one that matches, one that can be
\* strengthened, one that must not be touched, several.
Ruleset == {"missing", "match", "weak", "foreign", "many"}

\* A package's trusted publishers.  Ours: this repository, stage-only.
Publisher == {"ours", "foreign"}

Resources == {"environment", "ruleset", "ready", "approved"} \cup Packages
Order == <<"environment", "ruleset", "ready", "approved">> \o Roster
NothingSeen == [i \in Resources |-> Unread]

\* There are packages, none named like another resource; nothing that can be read
\* is Unread.
ASSUME ReleaseConstants ==
  /\ Detached \subseteq Configs /\ Outdated \subseteq Configs /\ None \notin Configs \cup Environment
  /\ Roster \in Seq(Packages) /\ Roster # <<>>
  /\ \A i, j \in DOMAIN Roster : Roster[i] = Roster[j] => i = j
  /\ Packages \cap {"environment", "ruleset", "ready", "approved"} = {}
  /\ Unread \notin Configs \cup {None} /\ Unread \notin Ruleset /\ Unread \notin {<<>>, <<"ours">>}

\* --attest-manual-security: not given, given without a valid record ({}), or
\* the packages that the record covers.
Attestations == {None} \cup (SUBSET Packages)
Covers(attested, p) == attested # None /\ p \in attested

-----------------------------------------------------------------------------
EnvironmentMatches(e) == e \notin {None, Unread} /\ e.main

\* evaluatePrerequisites, prerequisitesPass.  Package security is never readable
\* through the official client: MANUAL_REQUIRED, unless an attestation covers it.
Prerequisites(seen, config, attested) ==
  /\ config \notin Detached
  /\ EnvironmentMatches(seen["environment"])
  /\ seen["ruleset"] = "match"
  /\ \A p \in Packages : seen[p] = <<"ours">> /\ Covers(attested, p)

EnvironmentItem(e) ==
  CASE e = Unread -> "STOP"
    [] e = None -> "CREATE"
    [] EnvironmentMatches(e) -> IF e.token THEN "STOP" ELSE "NOOP"
    [] OTHER -> IF e.known \/ e.custom THEN "UPDATE" ELSE "STOP"

RulesetItem(s) ==
  CASE s = "missing" -> "CREATE"
    [] s = "weak" -> "UPDATE"
    [] s = "match" -> "NOOP"
    [] OTHER -> "STOP"

\* Of several records the plan looks at the first (the prerequisites at all).
PublisherItem(list) ==
  CASE list = Unread -> "STOP"
    [] list = <<>> -> "CREATE"
    [] OTHER -> IF Head(list) = "ours" THEN "NOOP" ELSE "STOP"

Item(seen, i) ==
  CASE i = "environment" -> EnvironmentItem(seen[i])
    [] i = "ruleset" -> RulesetItem(seen[i])
    [] OTHER -> PublisherItem(seen[i])

\* What an apply can write, in this order, and what of it is pending.
Managed == <<"environment", "ruleset">> \o Roster
Pending(seen) ==
  {i \in {"environment", "ruleset"} \cup Packages : Item(seen, i) \in {"CREATE", "UPDATE"}}
IsFirst(i, items) ==
  \E k \in DOMAIN Managed : Managed[k] = i /\ i \in items /\ \A l \in 1 .. k - 1 : Managed[l] \notin items

Critical(seen, config, attested) ==
  \/ attested = {}
  \/ config \in Detached
  \/ EnvironmentMatches(seen["environment"]) /\ seen["environment"].token
  \/ seen["ready"] = "true" /\ ~Prerequisites(seen, config, attested)

\* applyBlocked
Blocked(seen, config, attested) ==
  \/ Critical(seen, config, attested)
  \/ \E i \in {"environment", "ruleset"} \cup Packages : Item(seen, i) = "STOP"

Verdict(seen, config, attested) ==
  IF Blocked(seen, config, attested) THEN "BLOCKED"
  ELSE IF seen["ready"] = "true" THEN "READY" ELSE "NOT_READY"

-----------------------------------------------------------------------------
\* planAgentControlPlaneCheck: npm is not asked, anything to write is a stop.
AgentBlocked(seen, config, attested) ==
  \/ attested = {} \/ config \in Detached
  \/ ~EnvironmentMatches(seen["environment"]) \/ seen["environment"].token
  \/ seen["ruleset"] # "match"

\* Mutant: a committed fingerprint and READY are approval enough.
CommittedIsEnough(seen, config) == seen["ready"] = "true" /\ config \notin Outdated

Cached(seen, config) ==
  seen["ready"] = "true" /\ config \notin Outdated /\ seen["approved"] = config

AgentVerdict(seen, config, attested) ==
  IF AgentBlocked(seen, config, attested) THEN "BLOCKED"
  ELSE IF Cached(seen, config) THEN "PASS" ELSE "LIVE_AUDIT_REQUIRED"

-----------------------------------------------------------------------------
\* Mutant: custom branch policies are taken for the branch policy itself.
BranchForgotten(e) ==
  CASE e = None -> "create"
    [] e.custom -> "nothing"
    [] OTHER -> IF e.known THEN "put" ELSE "refuse"

\* planEnvironmentWrite, on a fresh read of the environment.
EnvironmentWrite(e) ==
  CASE e = None -> "create"
    [] e.custom -> IF e.main THEN "nothing" ELSE "branch"
    [] OTHER -> IF e.known THEN "put" ELSE "refuse"

NewEnvironment ==
  [main |-> FALSE, custom |-> TRUE, known |-> TRUE, reviewed |-> FALSE, token |-> FALSE]

\* PUT of an environment: custom policies on, and the reviewers of the body,
\* whoever had set others; its branches and secrets stay.
Put(e, reviewed) ==
  IF e = None THEN [NewEnvironment EXCEPT !.reviewed = reviewed]
  ELSE [e EXCEPT !.custom = TRUE, !.reviewed = reviewed]
=============================================================================
