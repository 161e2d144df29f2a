--------------------------- MODULE MCConsumption ---------------------------
(* Small instances of Consumption.  A scenario names the texts, files and    *)
(* replies a behaviour may contain and bounds its steps of each kind.        *)
EXTENDS ConsumptionProperties

CONSTANTS notice, other

Somebody(certainty, text) == [certainty |-> certainty, text |-> text]

Day(year, day) == [type |-> "day", year |-> year, day |-> day,
                   until |-> FALSE, superseded |-> FALSE]

Cue(some) ==
  some @@
  [year |-> None, mentions |-> <<>>, corrects |-> FALSE, cancels |-> FALSE,
   negated |-> FALSE, exempt |-> FALSE, optional |-> FALSE, filler |-> FALSE,
   reported |-> FALSE, rain |-> FALSE, clauses |-> {}, conditions |-> {},
   names |-> {}, kind |-> "other", modality |-> "unknown",
   actor |-> Somebody("unknown", None), object |-> None, subjects |-> {},
   about |-> {}]

\* A school notice: a form to hand in, a trip, and what is said of them later.
MCCues ==
  ("form" :> Cue([kind |-> "submit", object |-> "form", about |-> {"form"},
                  subjects |-> {"form"}, modality |-> "required",
                  mentions |-> <<[Day(None, 10) EXCEPT !.until = TRUE]>>]))
  @@ ("trip" :> Cue([kind |-> "event", about |-> {"trip"}, year |-> 2026,
                     subjects |-> {"trip"}, mentions |-> <<Day(2026, 20)>>]))
  @@ ("fee" :> Cue([kind |-> "pay", object |-> "fee", about |-> {"fee"},
                    subjects |-> {"fee"}, modality |-> "required",
                    actor |-> Somebody("explicit", "parents"),
                    names |-> {"parents"}, clauses |-> {"if you come"},
                    conditions |-> {"if you come"},
                    mentions |-> <<[Day(None, 0) EXCEPT !.type = "approximate",
                                                        !.day = None]>>]))
  @@ ("form later" :> Cue([kind |-> "deadline", corrects |-> TRUE,
                           object |-> "form", about |-> {"form"},
                           subjects |-> {"form"},
                           mentions |->
                               <<[Day(None, 10) EXCEPT !.superseded = TRUE],
                                 Day(None, 12)>>]))
  @@ ("trip moved" :> Cue([kind |-> "event", corrects |-> TRUE,
                           about |-> {"trip"}, subjects |-> {"trip"},
                           mentions |-> <<Day(2026, 22)>>]))
  @@ ("trip or" :> Cue([kind |-> "event", corrects |-> TRUE,
                        about |-> {"trip"}, subjects |-> {"trip"},
                        mentions |-> <<Day(2026, 23), Day(2026, 24)>>]))
  @@ ("trip off" :> Cue([kind |-> "event", cancels |-> TRUE,
                         about |-> {"trip"}, subjects |-> {"trip"}]))
  @@ ("no form" :> Cue([kind |-> "submit", negated |-> TRUE, object |-> "form",
                        about |-> {"form"}, subjects |-> {"form"},
                        modality |-> "prohibited"]))
  @@ ("sent form" :> Cue([kind |-> "submit", negated |-> TRUE, exempt |-> TRUE,
                          object |-> "form", about |-> {"form"},
                          subjects |-> {"form"}, modality |-> "prohibited",
                          conditions |-> {"already_submitted"}]))
  @@ ("rain" :> Cue([kind |-> "event", rain |-> TRUE,
                     mentions |-> <<Day(2026, 27)>>]))
  @@ ("hello" :> Cue([filler |-> TRUE]))
  @@ ("last year" :> Cue([kind |-> "event", reported |-> TRUE, year |-> 2025,
                          about |-> {"trip"}, subjects |-> {"trip"},
                          mentions |-> <<Day(2025, 9)>>]))

Hint(kinds, terms, domains, flags) ==
  [kinds |-> kinds, terms |-> terms, domains |-> domains, topics |-> {},
   flags |-> flags]

MCHints ==
  [p \in DOMAIN MCCues |->
    CASE p = "form" -> [Hint({"deadline"}, {"form"}, {"school"}, {})
                           EXCEPT !.topics = {"submission"}]
      [] p = "trip" -> Hint({}, {"trip"}, {"travel", "school"}, {})
      [] p = "fee" -> Hint({"cost"}, {"fee"}, {}, {"conditional"})
      [] OTHER -> Hint({}, {p}, {}, {"revision"})]

MCNegated == {"already_submitted", "no form", "sent form"}
MCExempt == {"already_submitted", "sent form"}

MCKind == {"EditSource", "Extract", "Export", "Review", "Alter", "Reverify",
           "Agent", "Prepare", "Analyze", "Explain", "Batch",
           "ChangeDocument", "Index", "Ask", "Review family", "Annotate",
           "ChangeShelf", "Pin", "Abort", "ChangeFacts", "Evaluate", "Tick"}

Times(some) == [k \in Kind |-> IF k \in DOMAIN some THEN some[k] ELSE 0]

Page(number, text) == [number |-> number, text |-> text]
Chunk(page, text) == [page |-> page, text |-> text]
Canonical(text, pages, chunks) ==
  [id |-> notice, text |-> text, pages |-> pages, chunks |-> chunks,
   hash |-> None]

Scenario(some) ==
  some @@
  [texts |-> {<<"trip">>}, later |-> {}, quotes |-> {}, files |-> {None},
   replies |-> {},
   documents |-> {Canonical(<<"trip">>, <<>>, <<>>)}, questions |-> {},
   options |-> {}, pinned |-> {}, shelves |-> {<<>>}, facts |-> {{}},
   rules |-> {}]

\* Every text of up to three sentences, read by the rules.
Texts(lengths) == UNION {[1..n -> DOMAIN MCCues] : n \in lengths}
Reading == Scenario([texts |-> Texts(1..3), uses |-> Times([Extract |-> 1])])
Answering ==
  Scenario([texts |-> Texts(0..2), uses |-> Times([Analyze |-> 1, Agent |-> 1])])

\* What a language model may answer for the text <<"trip", "form">>.
Quote(p) == [passage |-> p, source |-> None, page |-> None]
Dated(date) == [type |-> "exact", date |-> date, end |-> None,
                alternatives |-> {}]
Proposal(some) ==
  some @@
  [id |-> None, status |-> None, kind |-> "event", object |-> None,
   about |-> {"trip"}, modality |-> "required",
   actor |-> Somebody("unknown", None), temporal |-> Dated(<<2026, 20>>),
   conditions |-> {}, evidence |-> <<Quote("trip")>>]
Reply(actions) == [wellFormed |-> TRUE, actions |-> actions]
Trip == Proposal([status |-> "verified"])
WrongDay == Proposal([temporal |-> Dated(<<2026, 21>>), status |-> "verified"])
WrongQuote == Proposal([evidence |-> <<Quote("trip moved")>>])
WrongPage == Proposal([evidence |-> <<[Quote("trip") EXCEPT !.page = 2]>>])
Invented == Proposal([actor |-> Somebody("explicit", "parents")])
Form == Proposal([kind |-> "submit", object |-> "form", about |-> {"form"},
                  temporal |-> Dated(<<2026, 10>>),
                  evidence |-> <<Quote("form")>>])
Twins == Reply(<<[Trip EXCEPT !.id = 1, !.status = "rejected"],
                 [WrongDay EXCEPT !.id = 1]>>)
Replies == {Reply(<<Trip, Form>>), Reply(<<WrongDay, Form>>),
            Reply(<<Form, WrongQuote>>), Reply(<<Trip, WrongPage>>),
            Reply(<<Invented>>), Reply(<<>>), Twins,
            [Reply(<<Trip>>) EXCEPT !.wellFormed = FALSE]}

TwoTexts == {<<"trip", "form">>, <<"trip moved", "form">>}

Keeping ==
  Scenario([texts |-> TwoTexts, later |-> TwoTexts, replies |-> Replies,
            uses |-> Times([Extract |-> 1, EditSource |-> 1, Review |-> 1,
                            Reverify |-> 1, Export |-> 1])])
Altering ==
  Scenario([texts |-> TwoTexts, later |-> TwoTexts, replies |-> Replies,
            quotes |-> {"trip", "trip moved", "form"},
            uses |-> Times([Extract |-> 1, Alter |-> 1, Reverify |-> 1,
                            Agent |-> 1])])
\* A manifest of 0.1.0, as an earlier release of the package left it.
OldFile ==
  [version |-> "0.1.0",
   source  |-> [id |-> notice, hash |-> <<"trip", "form">>],
   actions |-> <<Proposal([id |-> 1, status |-> "verified",
                           evidence |-> <<[Quote("trip") EXCEPT
                                              !.source = notice]>>])>>,
   receipt |-> [extraction   |-> [known |-> TRUE, version |-> "0.1.0"],
                verification |->
                  [evidence |-> TRUE, temporal |-> TRUE, actor |-> TRUE,
                   modality |-> TRUE, negation |-> FALSE, pages |-> TRUE,
                   hashMatched |-> TRUE, issues |-> {}, detailed |-> FALSE,
                   passed |-> None, total |-> None, verified |-> None,
                   failed |-> None, results |-> <<>>]]]
Passing ==
  Scenario([texts |-> TwoTexts, later |-> TwoTexts, replies |-> Replies,
            files |-> {None, OldFile},
            uses |-> Times([Extract |-> 1, Review |-> 1, EditSource |-> 1,
                            Prepare |-> 1])])
Guiding ==
  Scenario([texts |-> TwoTexts, later |-> TwoTexts, replies |-> Replies,
            quotes |-> {"trip", "trip moved", "form"},
            uses |-> Times([Extract |-> 1, Alter |-> 1, Explain |-> 1,
                            Batch |-> 1])])

\* The same notice with and without pages, one of them blank, or in chunks.
Documents3 ==
  {Canonical(<<"trip", "fee", "form">>, <<>>, <<>>),
   Canonical(<<"trip", "fee", "form">>,
             <<Page(2, <<"fee", "form">>), Page(3, Blank), Page(1, <<"trip">>)>>,
             <<>>),
   Canonical(Blank, <<Page(1, <<"trip">>), Page(2, Blank),
                      Page(3, <<"fee", "form">>)>>, <<>>),
   Canonical(<<"trip", "form">>, <<Page(1, <<"trip", "fee">>)>>, <<>>),
   Canonical(Blank, <<>>, <<Chunk(None, <<"trip", "fee">>), Chunk(2, <<"form">>)>>),
   Canonical(Blank, <<>>, <<>>)}
Question(kind, terms, limit) ==
  [kind |-> kind, terms |-> terms, literal |-> {"form"}, limit |-> limit]
Option(domain, limit) ==
  [domain |-> domain, topic |-> None, offset |-> 0, limit |-> limit]
Looking ==
  Scenario([documents |-> Documents3,
            questions |-> {Question("search", {"form"}, 1),
                           Question("search", {}, 1),
                           Question("deadline", {}, 2),
                           Question("cost", {"form"}, 2)},
            options |-> {Option(None, 1), Option("school", 1),
                         Option("other", 2), Option(None, 2),
                         [Option("school", 1) EXCEPT !.topic = "other"]},
            uses |-> Times([ChangeDocument |-> 2, Index |-> 1, Ask |-> 1,
                            Annotate |-> 1] @@ ("Review family" :> 1))])

Source(id, text, deleted) == [id |-> id, text |-> text, deleted |-> deleted]
Old == Source(notice, <<"trip">>, FALSE)
New == Source(notice, <<"trip moved", "trip">>, FALSE)
Another == Source(other, <<"form">>, FALSE)
Shelves == {<<Old, Another>>, <<New, Another>>, <<Another, Old>>, <<Old, New>>,
            <<Old, Old>>, <<Source(notice, <<"trip">>, TRUE), Another>>}
Checking ==
  Scenario([shelves |-> Shelves, pinned |-> {"trip", "form"},
            uses |-> Times([Pin |-> 2, ChangeShelf |-> 2, Abort |-> 1])])

Fact(key, value, expires) == [key |-> key, value |-> value, expires |-> expires]
Child(expires) == Fact("child", "yes", expires)
FactSets == {{}, {Child(1)}, {Child(3)}, {Child(Never), Fact("child", "no", 2)},
             {Child(2), Fact("grade", "one", 1)},
             {Fact("child", "no", 1), Fact("grade", "one", 3)}}
Is(key, values) == [op |-> "in", fact |-> key, values |-> values, rules |-> {}]
Only(key, value) == [Is(key, {value}) EXCEPT !.op = "eq"]
Group(op, rules) == [op |-> op, fact |-> None, values |-> {}, rules |-> rules]
Rules ==
  {<<Only("child", "yes")>>,
   <<Group("all", {2, 3}), Only("child", "yes"), Is("grade", {"one", "two"})>>,
   <<Group("any", {2, 3}), Group("not", {4}), Is("grade", {"one", "two"}),
     Only("child", "yes")>>,
   <<Group("any", {})>>}
Judging ==
  Scenario([facts |-> FactSets, rules |-> Rules,
            uses |-> Times([ChangeFacts |-> 1, Evaluate |-> 2, Tick |-> 3])])

MCScenarios ==
  {Reading, Answering, Keeping, Altering, Passing, Guiding, Looking, Checking,
   Judging}
=============================================================================
