---------------------------- MODULE MCAssistance ----------------------------
(* Instances of the assistance ledger: notices old, new and third about one  *)
(* form, a notice without actions, and what a second text of old would be.   *)
EXTENDS AssistanceProperties

CONSTANTS c1, c2, x1, x2, x3, x4

Item(id, subject, trust, dated) ==
  [id |-> id, subject |-> subject, trust |-> trust, kind |-> "event", dated |-> dated]
Notice(source, hash, items) ==
  [source |-> source, hash |-> hash, scope |-> "school", actions |-> items]

Form == {Item("a", "form", "ready", TRUE)}
Old == Notice("old", "h1", Form)
Rewritten == Notice("old", "h2", Form)
New == Notice("new", "h1", Form)
Third == Notice("third", "h1", Form)
Untrusted == Notice("third", "h2", {Item("a", "form", "blocked", FALSE)})
Plain == Notice("note", "h1", {})

To(d) == [source |-> d.source, hash |-> d.hash, action |-> "a"]
Whole(d) == [source |-> d.source, hash |-> d.hash, action |-> None]
Change(id, kind, before, after) ==
  [id |-> id, kind |-> kind, before |-> before, after |-> after, scope |-> "school",
   subject |-> "form", candidates |-> {}]

MCSources == {"old", "new", "third", "note"}
MCHashes == {"h1", "h2"}
MCScopes == {"school"}
MCSubjects == {"form"}
MCFacts == {"f1", "f2"}
MCApplicability(facts, ref) ==
  IF facts = "f1" THEN "applies" ELSE IF ref.source = "old" THEN "unknown" ELSE "not_applicable"

Most(documents, changes, decisions, refreshes, reviews) ==
  [document_registered |-> documents, change_proposed |-> changes, change_decided |-> decisions,
   projection_refreshed |-> refreshes, review_decided |-> reviews]

\* Corrections and cancellations in chains and in both directions.
Chain ==
  [clients |-> {c1}, documents |-> {Old, New, Third}, suggest |-> FALSE,
   proposals |-> {Change(x1, "corrects", To(Old), To(New)), Change(x2, "corrects", To(New), To(Third)),
                  Change(x3, "corrects", To(New), To(Old))},
   facts |-> {"f1"}, most |-> Most(3, 3, 4, 0, 0)]
Cancel ==
  [clients |-> {c1}, documents |-> {Old, New, Plain}, suggest |-> FALSE,
   proposals |-> {Change(x1, "corrects", To(Old), To(New)), Change(x2, "cancels", To(New), Whole(Plain)),
                  Change(x3, "cancels", To(New), To(Old))},
   facts |-> {"f1"}, most |-> Most(3, 2, 4, 0, 0)]
\* Suggested links, ambiguous and stale ones, a text that may not be replaced.
Suggest ==
  [clients |-> {c1}, documents |-> {Old, Rewritten, New, Third, Untrusted}, suggest |-> TRUE,
   proposals |-> {[Change(x4, "possible_change", None, To(New)) EXCEPT !.candidates = {To(Old)}]},
   facts |-> {"f1"}, most |-> Most(3, 2, 2, 0, 0)]
\* Refreshes with changing facts, acknowledgements, and a device.
Sync ==
  [clients |-> {c1}, documents |-> {Old, New}, suggest |-> TRUE, proposals |-> {},
   facts |-> MCFacts, most |-> Most(2, 1, 1, 2, 1)]
Flicker ==
  [clients |-> {c1}, documents |-> {Old, Untrusted}, suggest |-> FALSE, proposals |-> {},
   facts |-> MCFacts, most |-> Most(2, 0, 0, 4, 1)]
\* Two clients that decide on what they have seen.
Race ==
  [clients |-> {c1, c2}, documents |-> {Old, New}, suggest |-> TRUE, proposals |-> {},
   facts |-> {"f1"}, most |-> Most(2, 1, 4, 0, 0)]

MCScenarios == {Chain, Cancel, Suggest, Sync, Flicker, Race}
=============================================================================
