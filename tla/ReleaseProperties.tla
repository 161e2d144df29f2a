-------------------------- MODULE ReleaseProperties --------------------------
(* What release:setup is meant to guarantee.                                *)
EXTENDS ReleaseSetup, FiniteSets

\* Every variable keeps its type; a run deals with no resource twice, and READY is
\* the last thing it writes (applyMutations, maybePersistApprovedAndSetReady).
TypeOK ==
  /\ scenario \in Scenarios
  /\ environment \in Environment \cup {None} /\ ruleset \in Ruleset
  /\ \A p \in Packages : publishers[p] \in Seq(Publisher)
  /\ ready \in {"true", "other"} /\ approved \in Configs \cup {None}
  /\ calm \subseteq Runs /\ audited \subseteq Configs
  /\ \A r \in Runs :
       /\ run[r].step \in Steps /\ run[r].mode \in Modes /\ run[r].attested \in Attestations
       /\ run[r].at \in 1 .. Len(Order) + 1
       /\ \A i, j \in DOMAIN run[r].wrote :
            /\ run[r].wrote[i] = run[r].wrote[j] => i = j
            /\ run[r].wrote[j] = "ready" => i <= j

-----------------------------------------------------------------------------
\* READY is set only on a control plane that is in order at that moment, by a run
\* whose read-back nobody disturbed, and after the approved hash of its own
\* configuration (maybePersistApprovedAndSetReady).
ReadyIsEarned ==
  [][\A r \in Runs :
       Open(r) /\ r \in calm =>
         Prerequisites(Remote, run[r].config, run[r].attested) /\ approved = run[r].config]_vars

\* The agent check says PASS only of a configuration that a live read of npm found
\* in order, or that a maintainer approved by hand (planAgentControlPlaneCheck).
PassIsAudited ==
  \A r \in Runs : run[r].verdict = "PASS" => run[r].config \in audited

\* A run that finds everything in place writes nothing and says READY, unless
\* somebody interferes: a second apply needs no changes (runReleaseSetup).
SecondApplyIsQuiet ==
  \A r \in Runs :
    promise[r] = "quiet" =>
      run[r].wrote = <<>> /\ (run[r].step = "ended" => run[r].verdict = "READY")

\* A run that nobody disturbed since it last began to read takes away neither the
\* reviewers of the environment nor a publisher, and never makes a second ruleset
\* or a second publisher (planEnvironmentWrite, upserts, STOP on drift).
KeepsWhatItFound ==
  [][\A r \in calm :
       run'[r] # run[r] =>
         /\ environment # None => environment' # None /\ (environment.reviewed => environment'.reviewed)
         /\ ruleset # "many" => ruleset' # "many"
         /\ \A p \in Packages : publishers'[p] # publishers[p] => publishers[p] = <<>>]_vars

\* An apply that can bring about what is missing ends with READY set and its
\* configuration approved, unless a call fails or somebody interferes, and
\* whatever an earlier run left half done (updateEnvironment, ReadBack).
Converges ==
  \A r \in Runs :
    promise[r] = "ready" ~> promise[r] # "ready" \/ (ready = "true" /\ approved = run[r].config)

\* Of the documentation: an audit approves a configuration only when it was
\* successful (docs/RELEASE_TRUSTED_PUBLISHING_SETUP.md, section 0).
BlockedAuditApprovesNothing ==
  [][\A r \in Runs : run[r].verdict = "BLOCKED" => ~Approve(r)]_vars
=============================================================================
