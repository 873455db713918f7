------------------------------ MODULE ScanAnalysis ------------------------------
(* From the prices of a batch to candidates and coded rejections: assembly into  *)
(* books (ingestion/normalize.py), the settlement of a bet (engine/payoff.py),   *)
(* what may be claimed about precision (uncertainty.py), the gate                *)
(* (eligibility.py), the stake (staking.py) and the analysis over them           *)
(* (scan.py).  All of it is a function of one batch.                             *)
(*                                                                               *)
(* Probabilities are percents, expected values and quality scores                *)
(* ten-thousandths, prices hundredths.  What a model predicts is a constant.     *)
EXTENDS OddsMapping, SequencesExt, FiniteSetsExt

CONSTANTS
    Settings,    \* thresholds, staking limits (config.py)
    Predictions  \* <<sport, market, period, line>> -> prediction, where there is one

ASSUME AnalysisAssumption ==
    /\ Settings.max_odds_age \in Nat \ {0}
    /\ Settings.staking_enabled \in BOOLEAN
    /\ Settings.bankroll \in Nat /\ Settings.max_stake \in Nat
    /\ Settings.kelly_fraction \in Nat /\ Settings.max_daily_exposure \in Nat
    /\ \A k \in DOMAIN Predictions :
          /\ Predictions[k].spread \in Nat
          /\ \A c \in DOMAIN Predictions[k].win : Predictions[k].win[c] \in Nat
          /\ \A c \in DOMAIN Predictions[k].push : Predictions[k].push[c] \in Nat

-------------------------------------------------------------------------------
(* Books                                                                      *)

(* Keep the first of each fingerprint. *)
Deduplicate(prices) ==
    Keep(prices, {i \in DOMAIN prices :
                    \A j \in 1..i - 1 : Fingerprint(prices[j]) # Fingerprint(prices[i])})

(* What _validate quarantines: a bad price, incoherent instants, a line that could *)
(* refund the stake.                                                               *)
Valid(p, now) ==
    /\ p.odds > 100
    /\ p.observed <= now
    /\ p.received >= p.observed
    /\ p.market \in LINE_REQUIRED_MARKETS => p.line # NoLine /\ p.line % 4 # 0

QuoteKey(p) == <<p.book, p.event, SelectionKey(p)>>

(* Mutated Current: the first observation of a selection wins. *)
FirstSeen(prices, now) ==
    {prices[i] : i \in {i \in DOMAIN prices :
        /\ Valid(prices[i], now)
        /\ \A j \in 1..i - 1 :
              Valid(prices[j], now) => QuoteKey(prices[j]) # QuoteKey(prices[i])}}

(* The latest valid observation of each selection of each bookmaker; of two of one *)
(* instant the first.                                                              *)
Current(prices, now) ==
    LET usable == Filtered(Deduplicate(prices), LAMBDA p : Valid(p, now))
        same(i, j) == QuoteKey(usable[i]) = QuoteKey(usable[j])
        beats(j, i) == \/ usable[j].observed > usable[i].observed
                       \/ usable[j].observed = usable[i].observed /\ j < i
    IN  {usable[i] : i \in {i \in DOMAIN usable :
                              \A j \in DOMAIN usable : same(i, j) => ~beats(j, i)}}

BookKey(p) == <<p.event, p.book, p.market, p.period, p.line>>

(* Prices of two bookmakers, lines or periods never share a book. *)
AssembleBooks(prices, now) ==
    LET current == Current(prices, now)
    IN  {{q \in current : BookKey(q) = BookKey(p)} : p \in current}

MarketOfBook(book) == (CHOOSE p \in book : TRUE).market
EventOfBook(book) == (CHOOSE p \in book : TRUE).event

IsBookComplete(book) ==
    LET expected == ExpectedSelections(MarketOfBook(book))
    IN  /\ Cardinality({p.code : p \in book}) = expected
        /\ Cardinality(book) = expected

(* A book outside the plausible margins cannot be de-vigged. *)
Overround(book) == MapThenSumSet(LAMBDA p : 10000 \div p.odds, book)
Devigs(book) == 95 <= Overround(book) /\ Overround(book) <= 160

-------------------------------------------------------------------------------
(* Settlement and uncertainty                                                 *)

NoPayoff == [win |-> 0]

(* A bet wins, loses or, where the model says so, refunds the stake. *)
Payoff(prediction, code) ==
    IF code \notin DOMAIN prediction.win THEN NoPayoff
    ELSE LET win == prediction.win[code]
             push == IF code \in DOMAIN prediction.push THEN prediction.push[code] ELSE 0
         IN  IF win \notin 1..99 \/ win + push > 100 THEN NoPayoff
             ELSE [win |-> win, push |-> push, loss |-> 100 - win - push]

(* The sum over the outcomes of probability times net return. *)
ExpectedValue(payoff, odds) == payoff.win * (odds - 100) - payoff.loss * 100

(* The same bet at a pessimistic conditional probability, the push held fixed. *)
ConservativeValue(payoff, lower, odds) ==
    LET decisive == 100 - payoff.push
        win == lower * decisive
    IN  (win * (odds - 100)) \div 100 - (decisive * 100 - win)

ConditionalWin(payoff) == (100 * payoff.win) \div (payoff.win + payoff.loss)

Unavailable == [status |-> "UNAVAILABLE", lower |-> 0, upper |-> 0]

(* A labelled placeholder in demo mode, and nothing in any other. *)
UncertaintyForMode(mode, p, spread) ==
    IF mode = "demo" /\ spread > 0
    THEN [status |-> "SYNTHETIC", lower |-> Max({1, p - spread}),
          upper |-> Min({99, p + spread})]
    ELSE Unavailable

WidthOf(uncertainty) == uncertainty.upper - uncertainty.lower

-------------------------------------------------------------------------------
(* The gate                                                                   *)

AgeOf(p, now) == Max({0, now - p.observed})

(* A weighted sum of freshness, completeness, mapping, features and agreement. *)
QualityOf(p, book, event, prediction, now) ==
    LET expected == ExpectedSelections(MarketOfBook(book))
        freshness == Max({0, 100 - (100 * AgeOf(p, now)) \div Settings.max_odds_age})
        completeness == Min({100, (100 * Cardinality(book)) \div expected})
    IN  30 * freshness + 25 * completeness
          + (IF event.ambiguous THEN 0 ELSE 2000) + 15 * prediction.features + 1000

StatusRank(status) ==
    CASE status = "BACKTEST_ONLY" -> 0
      [] status = "PAPER_VALIDATED" -> 1
      [] status = "LIVE_ANALYSIS" -> 2

IsPublishable(status, mode) ==
    CASE mode \in {"demo", "backtest"} -> TRUE
      [] mode = "paper" -> StatusRank(status) >= StatusRank("BACKTEST_ONLY")
      [] mode = "live_analysis" -> StatusRank(status) >= StatusRank("LIVE_ANALYSIS")

(* Every check of the gate, and whether a price fails it; none buys another off. *)
Checks(g) ==
    LET bounded == /\ g.uncertainty.status # "UNAVAILABLE"
                   /\ g.uncertainty.status = "SYNTHETIC" => g.mode = "demo"
    IN  {[code |-> "OUT_OF_SCOPE", fails |-> ~g.in_scope],
         [code |-> "EVENT_NOT_SCHEDULED", fails |-> ~g.scheduled],
         [code |-> "EVENT_MAPPING_AMBIGUOUS", fails |-> g.ambiguous],
         [code |-> "MARKET_INCOMPLETE", fails |-> ~g.complete],
         [code |-> "ODDS_STALE", fails |-> g.age > Settings.max_odds_age],
         [code |-> "LOW_DATA_QUALITY", fails |-> g.quality < Settings.min_data_quality],
         [code |-> "ODDS_OUT_OF_RANGE",
          fails |-> g.odds < Settings.min_odds \/ g.odds > Settings.max_odds],
         [code |-> "EV_TOO_LOW", fails |-> g.ev < Settings.min_ev],
         [code |-> "UNCERTAINTY_UNAVAILABLE", fails |-> ~bounded],
         [code |-> "CONSERVATIVE_EV_NEGATIVE",
          fails |-> bounded /\ g.conservative < Settings.min_conservative_ev],
         [code |-> "UNCERTAINTY_TOO_HIGH",
          fails |-> bounded /\ WidthOf(g.uncertainty) > 2 * Settings.max_half_width],
         [code |-> "MODEL_NOT_VALIDATED", fails |-> ~IsPublishable(g.validation, g.mode)]}

GateFailures(g) == {x.code : x \in {y \in Checks(g) : y.fails}}

-------------------------------------------------------------------------------
(* Stake                                                                      *)

(* Full Kelly is this edge over 100 times the net odds. *)
KellyEdge(lower, odds) == lower * odds - 10000

(* An amount n / d in cents, to the nearest one: round(amount, 2). *)
Cents(n, d) == (2 * n + d) \div (2 * d)

(* A fraction of Kelly on the pessimistic probability, under a cap per bet and the  *)
(* room left under the daily exposure; zero as soon as one input is missing.  The   *)
(* least of the three is rounded last, which is the least of the three rounded.     *)
Stake(uncertainty, odds, exposed) ==
    LET edge == KellyEdge(uncertainty.lower, odds)
        room == Settings.bankroll * Settings.max_daily_exposure - 10000 * exposed
    IN  IF /\ Settings.staking_enabled
           /\ Settings.bankroll > 0
           /\ uncertainty.status # "UNAVAILABLE"
           /\ WidthOf(uncertainty) <= 2 * Settings.max_half_width
           /\ edge > 0
           /\ room > 0
        THEN Min({Cents(Settings.bankroll * Settings.kelly_fraction * edge,
                        10000 * (odds - 100)),
                  Cents(Settings.bankroll * Settings.max_stake, 10000),
                  Cents(room, 10000)})
        ELSE 0

-------------------------------------------------------------------------------
(* Analysis                                                                   *)

Prediction(event, p) == <<event.sport, p.market, p.period, p.line>>

(* Why a whole book is refused before any price of it is scored. *)
BookFailure(book, event, models) ==
    LET p == CHOOSE q \in book : TRUE
        margin == IsBookComplete(book) /\ p.market \in PARTITION_MARKETS /\ ~Devigs(book)
        unpriced == \/ event.sport \notin DOMAIN models
                    \/ Prediction(event, p) \notin DOMAIN Predictions
    IN  IF margin THEN {"MARKET_INCOMPLETE"}
        ELSE IF unpriced THEN {"NO_MODEL_AVAILABLE"} ELSE {}

Assess(p, book, event, mode, models, now) ==
    LET prediction == Predictions[Prediction(event, p)]
        payoff == Payoff(prediction, p.code)
        uncertainty == UncertaintyForMode(mode, ConditionalWin(payoff), prediction.spread)
    IN  [ev |-> ExpectedValue(payoff, p.odds),
         conservative |-> ConservativeValue(payoff, uncertainty.lower, p.odds),
         uncertainty |-> uncertainty, odds |-> p.odds, age |-> AgeOf(p, now),
         quality |-> QualityOf(p, book, event, prediction, now),
         complete |-> IsBookComplete(book), ambiguous |-> event.ambiguous,
         in_scope |-> p.market \in MarketsOf(event.sport),
         scheduled |-> event.status = "scheduled",
         validation |-> models[event.sport], mode |-> mode]

(* The codes that refuse one price of a book; none for a candidate. *)
Refusals(p, book, event, mode, models, now) ==
    IF BookFailure(book, event, models) # {} THEN BookFailure(book, event, models)
    ELSE IF Payoff(Predictions[Prediction(event, p)], p.code) = NoPayoff
    THEN {"NO_MODEL_AVAILABLE"}
    ELSE GateFailures(Assess(p, book, event, mode, models, now))

(* The stakes of one scan do not see each other: nothing passes already_exposed. *)
Candidate(p, book, event, mode, models, now) ==
    LET assessed == Assess(p, book, event, mode, models, now)
    IN  [price |-> p, event |-> event, conservative |-> assessed.conservative,
         stake |-> Stake(assessed.uncertainty, p.odds, 0)]

Rejection(eventId, selection, code) ==
    [event |-> eventId, selection |-> selection, code |-> code]

(* Mutated OutsideWindow: only the events that are analysed are looked at. *)
OutsideAmongAnalysed(events, allEvents, now, hours) ==
    {Rejection(e.id, "-", "OUTSIDE_WINDOW") :
       e \in {e \in events : ~InScanWindow(e.start, now, hours)}}

OutsideWindow(events, allEvents, now, hours) ==
    {Rejection(e.id, "-", "OUTSIDE_WINDOW") :
       e \in {e \in allEvents : /\ \A f \in events : f.id # e.id
                                /\ ~InScanWindow(e.start, now, hours)}}

Analyse(events, allEvents, prices, mode, models, now, hours) ==
    LET books == AssembleBooks(prices, now)
        scored == {b \in books : \E e \in events : e.id = EventOfBook(b)}
        eventOf(b) == CHOOSE e \in events : e.id = EventOfBook(b)
        verdicts == UNION {{[price |-> p, book |-> b] : p \in b} : b \in scored}
        refusals(v) == Refusals(v.price, v.book, eventOf(v.book), mode, models, now)
    IN  [candidates |->
            {Candidate(v.price, v.book, eventOf(v.book), mode, models, now) :
                v \in {v \in verdicts : refusals(v) = {}}},
         rejections |->
            OutsideWindow(events, allEvents, now, hours)
              \cup UNION {{Rejection(v.price.event, SelectionKey(v.price), code) :
                             code \in refusals(v)} : v \in verdicts}]
===============================================================================
