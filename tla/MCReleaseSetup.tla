--------------------------- MODULE MCReleaseSetup ---------------------------
(* Instances of release:setup: two packages, two runs.                      *)
EXTENDS ReleaseProperties, TLC

CONSTANTS r1, r2, c1, c2, c3, c4

Good == [main |-> TRUE, custom |-> TRUE, known |-> TRUE, reviewed |-> TRUE, token |-> FALSE]
Bare == [Good EXCEPT !.main = FALSE]
Plain == [Bare EXCEPT !.custom = FALSE]
Opaque == [Plain EXCEPT !.known = FALSE]
Leaky == [Good EXCEPT !.token = TRUE]

All == Packages
Go(mode, config, attested) == [mode |-> mode, config |-> config, attested |-> attested]
Apply == {Go("apply", c1, All)}
Ours == {<<"ours">>}

MCRoster == <<"schema", "core">>

Both(first, second) == r1 :> first @@ r2 :> second

Base ==
  [environments |-> {Good}, rulesets |-> {"match"}, publishers |-> Ours,
   ready |-> {"other"}, approved |-> {None}, faults |-> 0, changes |-> 0, deaths |-> FALSE,
   starts |-> Both(Apply, {})]

\* Everything that can be missing, and a run that dies at any point, followed or
\* overlapped by another.
Converge ==
  [Base EXCEPT !.environments = {None, Bare, Plain, Opaque, Good}, !.rulesets = {"missing", "weak"},
               !.publishers = {<<>>, <<"ours">>}, !.deaths = TRUE]
Rerun ==
  [Base EXCEPT !.environments = {None, Plain}, !.rulesets = {"missing"}, !.publishers = {<<>>},
               !.deaths = TRUE, !.starts = Both(Apply, Apply)]
\* Everything is in place, or only the approval is missing.
Settled ==
  [Base EXCEPT !.ready = {"true", "other"}, !.approved = {None, c1, c2},
               !.starts = Both(Apply, {Go(m, c1, All) : m \in Modes})]
\* What stops a plan.
Stops ==
  [Base EXCEPT !.environments = {Good, Leaky, Opaque}, !.rulesets = {"match", "foreign", "many"},
               !.publishers = {<<"ours">>, <<"foreign">>, <<"ours", "foreign">>},
               !.ready = {"true", "other"},
               !.starts = Both({Go(m, c, a) : m \in Modes, c \in {c1, c3},
                                              a \in {None, {}, {"core"}, All}}, {})]
\* Maintainers change anything while a run is on.
Drift ==
  [Base EXCEPT !.environments = {None, Bare, Plain, Opaque, Good, Leaky}, !.rulesets = {"weak"},
               !.publishers = {<<>>},
               !.changes = 1]
Failing == [Drift EXCEPT !.environments = {Bare}, !.changes = 0, !.faults = 2]
\* Agent checks of other checkouts while an audit or an apply is on.
Agents ==
  [Base EXCEPT !.ready = {"true", "other"}, !.approved = {None, c1}, !.changes = 1,
               !.starts = Both({Go("apply", c2, All)} \cup {Go("audit-live", c, All) : c \in {c1, c2}},
                               {Go("check-agent", c, None) : c \in {c1, c2, c4}})]

MCScenarios == {Converge, Rerun, Settled, Stops, Drift, Failing, Agents}
=============================================================================
