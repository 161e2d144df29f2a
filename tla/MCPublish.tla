----------------------------- MODULE MCPublish -----------------------------
(* Instances of publishing: two packages, core needing schema.              *)
EXTENDS PublishProperties, TLC

CONSTANTS c1, c2, c3, c4, c5, rc0, v1, j1, j2

MCRoster == <<"schema", "core">>
MCAlphabet == <<"core", "schema">>
MCDependsOn == "schema" :> {} @@ "core" :> {"schema"}

\* c1, c2: two commits of a stable version; c3, c5: of the bootstrap version, c3
\* packed by another pnpm; c4: not in lockstep.
All(version) == [p \in {"schema", "core"} |-> version]
MCVersionAt ==
  c1 :> All(v1) @@ c2 :> All(v1) @@ c3 :> All(rc0)
    @@ c5 :> All(rc0) @@ c4 :> ("schema" :> v1 @@ "core" :> rc0)
MCPnpmAt == c1 :> "11.23.0" @@ c2 :> "11.23.0" @@ c3 :> "11.24.0" @@ c4 :> "11.23.0"
              @@ c5 :> "11.23.0"

MCKind == {"Merge", "PushTag", "Check", "Dispatch", "Fault", "Damage", "Approve",
           "ByHand", "MoveTag"}
Times(some) == [k \in MCKind |-> IF k \in DOMAIN some THEN some[k] ELSE 0]

Order(mode, sha, tag, branch) ==
  [mode |-> mode, sha |-> sha, tag |-> tag, branch |-> branch]
Run(name, sha, event) ==
  [name |-> name, sha |-> sha, event |-> event, ok |-> TRUE,
   artifact |-> name = "Release Check" /\ event # "pull_request"]
NoTags == rc0 :> None @@ v1 :> None
Green(c) == <<Run("CI", c, "push"), Run("Release Check", c, "push")>>

Base ==
  [main |-> <<c1, c2>>, tagged |-> rc0 :> None @@ v1 :> c1, checks |-> Green(c1),
   published |-> {}, ready |-> TRUE, about |-> {c1, c2}, orders |-> {},
   uses |-> Times(<<>>)]

\* From pull requests to stages: every kind of check, one at a time.
Gated ==
  [Base EXCEPT !.main = <<c2>>, !.tagged = NoTags, !.checks = <<>>,
               !.orders = {Order("stage", c1, v1, "main")},
               !.about = {c1},
               !.uses = Times("Merge" :> 1 @@ "PushTag" :> 1 @@ "Check" :> 3
                              @@ "Dispatch" :> 1)]
\* Two commits of one version, both checked; stages fail and are repeated.
Twice ==
  [Base EXCEPT !.checks = Green(c1) \o Green(c2), !.tagged = NoTags,
               !.orders = {Order("stage", c, v1, "main") : c \in {c1, c2}},
               !.uses = Times("PushTag" :> 1 @@ "Dispatch" :> 2 @@ "Fault" :> 1
                              @@ "Damage" :> 1 @@ "Approve" :> 2)]
\* What a stage refuses.
Refused ==
  [Base EXCEPT !.main = <<c1, c3, c4>>, !.checks = Green(c1) \o Green(c3),
               !.tagged = rc0 :> c3 @@ v1 :> c4, !.about = {c3, c4},
               !.orders = {Order("stage", c1, v1, "main"),
                           Order("stage", c3, rc0, "main"),
                           Order("stage", c3, rc0, "other"),
                           Order("stage", c3, None, "main"),
                           Order("stage", c4, v1, "main"),
                           Order("prepare", c4, None, "other")},
               !.uses = Times("Dispatch" :> 2 @@ "Check" :> 1)]
NotReady ==
  [Base EXCEPT !.ready = FALSE, !.orders = {Order("stage", c1, v1, "main")},
               !.uses = Times("Dispatch" :> 1)]
\* A stage is verified while it is approved, package by package.
Approved ==
  [Base EXCEPT !.orders = {Order("stage", c1, v1, "main"), Order("verify", c1, None, "main")},
               !.uses = Times("Dispatch" :> 2 @@ "Approve" :> 2 @@ "Fault" :> 1)]
\* Everything is published; tags are moved, another check succeeds.
Settling ==
  [Base EXCEPT !.published = {c1, c5}, !.tagged = rc0 :> c5 @@ v1 :> c1, !.orders = {Order("verify", c1, None, "other"),
                                              Order("verify", c2, None, "main")},
               !.checks = Green(c5) \o Green(c1) \o Green(c2), !.main = <<c5, c1, c2>>,
               !.about = {c1}, !.uses = Times("Dispatch" :> 1 @@ "MoveTag" :> 1 @@ "Fault" :> 2
                              @@ "Damage" :> 1 @@ "Check" :> 1)]
\* The bootstrap version, published by hand, and what the checks say of it.
ByHand ==
  [Base EXCEPT !.main = <<c2, c5>>, !.checks = Green(c5), !.tagged = NoTags, !.about = {c5},
               !.orders = {Order("prepare", c5, None, "other"), Order("verify", c5, None, "main")},
               !.uses = Times("Dispatch" :> 2 @@ "ByHand" :> 2 @@ "Fault" :> 1)]
\* After it another stage of that version, and the other way round.
Mixed ==
  [ByHand EXCEPT !.tagged = rc0 :> c5 @@ v1 :> None,
                 !.orders = {Order("prepare", c5, None, "other"),
                             Order("stage", c5, rc0, "main")},
                 !.uses = Times("Dispatch" :> 2 @@ "ByHand" :> 1 @@ "Approve" :> 1)]
\* The canonical artifact of the tip of main is consumed.
Consumed ==
  [Base EXCEPT !.orders = {Order("publish-ready", c5, None, "main"),
                           Order("publish-ready", c5, None, "other"),
                           Order("publish-ready", c1, None, "main")},
               !.checks = Green(c1), !.main = <<c1, c5>>, !.about = {c2, c5},
               !.uses = Times("Dispatch" :> 1 @@ "Merge" :> 1 @@ "Damage" :> 1 @@ "Check" :> 2)]

MCScenarios ==
  {Gated, Twice, Refused, NotReady, Approved, Settling, ByHand, Mixed, Consumed}
=============================================================================
