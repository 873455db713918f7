------------------------------- MODULE MCScanRun -------------------------------
(* A small deployment for TLC: one football and one tennis competition, one     *)
(* followed bookmaker, and a file and a demo world that meet every check once.  *)
EXTENDS ScanRun

MCSportOf == ("epl" :> "football") @@ ("atp" :> "tennis") @@ ("nba" :> NoSport)
MCAllowlist == <<"nba", "epl", "atp">>
MCCatalogues == {Unlisted, {"epl", "atp"}, {}}

Quote(name, price) == [name |-> name, price |-> price, point |-> NoLine]
Result == <<Quote("home", 210), Quote("draw", 330), Quote("away", 360)>>
H2H(outcomes) == [key |-> "h2h", stamp |-> Unreadable, outcomes |-> outcomes]
Book(key, stamp, markets) == [key |-> key, stamp |-> stamp, markets |-> markets]
Raw(id, start, books) == [id |-> id, complete |-> TRUE, start |-> start, books |-> books]

Quoted == Raw("s1", 15, <<Book("win", 9, <<H2H(Result)>>)>>)
Uncovered == Raw("s1", 15, <<Book("uni", 9, <<H2H(Result)>>)>>)
Unstamped == Raw("s1", 15, <<Book("win", Unreadable, <<H2H(Result)>>)>>)
Started == Raw("s0", 10, <<Book("win", 9, <<H2H(Result)>>)>>)
Broken == [Quoted EXCEPT !.complete = FALSE]
Doubtful == Raw("s2", 15, <<Book("win", 9,
    <<H2H(<<Quote("home", 150), Quote("away", 250)>>), H2H(<<Quote("other", 150)>>)>>)>>)
Extras == Raw("s1", 15, <<Book("win", Unreadable,
    <<[key |-> "draw_no_bet", stamp |-> 9,
       outcomes |-> <<Quote("home", 150), Quote("away", 240)>>],
      [key |-> "totals_h1", stamp |-> Unreadable, outcomes |-> <<Quote("over", 190)>>]>>)>>)

MCAnswers ==
    ("epl" :> {<<>>, <<Quoted>>, <<Uncovered>>, <<Unstamped>>, <<Started, Broken>>})
    @@ ("atp" :> {<<>>, <<Doubtful>>})
MCExtraAnswers == {<<>>, <<Extras>>}

MCInternalId ==
    ("s1" :> "i1") @@ ("s2" :> Unattributable) @@ ("d1" :> "i3") @@ ("d2" :> "i4")
    @@ ("d3" :> "i3")
    @@ ("m1" :> "i5") @@ ("m2" :> Unattributable)

Listed(id, start) ==
    [id |-> id, source |-> id, sport |-> "football", start |-> start,
     status |-> "scheduled", ambiguous |-> FALSE]

Price(source, event, book, market, line, code, odds, observed) ==
    [provider |-> source, book |-> book, event |-> event, market |-> market,
     period |-> "full_time", line |-> line, code |-> code, odds |-> odds,
     observed |-> observed, received |-> 10]

MCDemoWorld ==
    [events |-> {Listed("d1", 5), Listed("d2", 30), Listed("d3", 40)},
     prices |-> <<Price("demo", "d1", "win", "draw_no_bet", NoLine, "home", 210, 1),
                  Price("demo", "d1", "win", "draw_no_bet", NoLine, "away", 180, 1),
                  Price("demo", "d1", "uni", "draw_no_bet", NoLine, "home", 190, 1),
                  Price("demo", "d1", "win", "total_goals", 10, "over", 230, 3),
                  Price("demo", "d1", "win", "total_goals", 10, "under", 170, 1),
                  Price("demo", "d2", "win", "draw_no_bet", NoLine, "home", 210, 1)>>]

Row(fault, event, price) == [fault |-> fault, event |-> event, price |-> price]
Manual(event, line, code, odds, observed) ==
    Price("manual", event, "win", "total_goals", line, code, odds, observed)

MCFile ==
    <<Row("", Listed("m1", 15), Manual("m1", 10, "over", 230, 9)),
      Row("", Listed("m1", 15), Manual("m1", 10, "over", 150, 10)),
      Row("", Listed("m1", 15), Manual("m1", 10, "under", 170, 10)),
      Row("", Listed("m1", 15), Manual("m1", 10, "under", 170, 10)),
      Row("", Listed("m1", 15), Manual("m1", 10, "under", 300, 12)),
      Row("", Listed("m1", 15), Manual("m1", 12, "over", 200, 9)),
      Row("", Listed("m1", 15),
          Price("manual", "m1", "win", "draw_no_bet", NoLine, "home", 210, 9)),
      Row("", Listed("m1", 15),
          Price("manual", "m1", "win", "draw_no_bet", NoLine, "away", 180, 9)),
      Row("", Listed("m2", 15), Manual("m2", 10, "over", 200, 9)),
      Row("line", Listed("d1", 15), Manual("d1", NoLine, "over", 200, 9)),
      Row("odds", Listed("d2", 15), Manual("d2", 10, "over", 90, 9))>>
MCTorn == <<Row("not_a_number", Listed("m1", 15), Manual("m1", 10, "over", 230, 9))>>
MCFiles == {MCFile, MCTorn}

MCPredictions ==
    (<<"football", "draw_no_bet", "full_time", NoLine>> :>
        [win |-> [home |-> 45, away |-> 30], push |-> [home |-> 25, away |-> 25],
         spread |-> 4, features |-> 100])
    @@ (<<"football", "total_goals", "full_time", 10>> :>
        [win |-> [over |-> 50, under |-> 50], push |-> [over |-> 0],
         spread |-> 4, features |-> 100])

MCModelStatus == ("football" :> "BACKTEST_ONLY") @@ ("tennis" :> "BACKTEST_ONLY")

MCDeployments == {<<"demo", "the_odds_api">>, <<"paper", "the_odds_api">>, <<"paper", "">>}

MCSettings ==
    [max_odds_age |-> 2, min_data_quality |-> 6000, min_odds |-> 120, max_odds |-> 800,
     min_ev |-> 200, min_conservative_ev |-> 0, max_half_width |-> 6,
     staking_enabled |-> TRUE,
     bankroll |-> 1060, kelly_fraction |-> 25, max_stake |-> 100, max_daily_exposure |-> 500]
===============================================================================
