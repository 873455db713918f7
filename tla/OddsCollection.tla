----------------------------- MODULE OddsCollection -----------------------------
(* One collection of the paid provider (the_odds_api/provider.py): discover      *)
(* the competitions that are active, ask each of them for its grouped prices,    *)
(* and each event that a followed bookmaker quotes for its additional markets.   *)
(* A step ends at the next request: another process may spend the day's credits  *)
(* between any two of them, so between remaining_today and the call it allows.   *)
(*                                                                               *)
(* What a call costs, retries and lost answers included, is the module           *)
(* ApiClient; here it takes nothing or its estimate from the budgets.            *)
EXTENDS OddsMapping, SequencesExt

CONSTANTS
    Allowlist,     \* the_odds_api_sport_keys, in order
    Bookmakers,    \* the followed bookmakers
    Catalogues,    \* what GET /sports may answer: a set of active keys, or Unlisted
    Answers,       \* key -> the payloads its grouped odds may answer
    ExtraAnswers,  \* the payloads a per-event call may answer: at most one event
    DayBudget,     \* provider_budget_per_day; 0 is no ceiling
    ScanBudget,    \* provider_budget_per_scan
    WindowHours,   \* the scan window
    Charges,       \* what another process of the deployment may be charged at once
    MaxOthers      \* bound on the number of these charges

Unlisted == {"unlisted"}  \* no catalogue: unreachable, or not recognised as one
None == "none"

(* What the provider says of one event.  What cannot be read is Unreadable. *)
Payloads ==
    LET outcomes == [name : STRING, price : Int, point : Int]
        markets == [key : STRING, stamp : Int, outcomes : Seq(outcomes)]
        books == [key : STRING, stamp : Int, markets : Seq(markets)]
    IN  [id : STRING, complete : BOOLEAN, start : Int, books : Seq(books)]

ASSUME CollectionAssumption ==
    /\ Allowlist \in Seq(SportKeys)
    /\ DayBudget \in Nat /\ ScanBudget \in Nat /\ MaxOthers \in Nat
    /\ WindowHours \in Nat /\ Charges \subseteq Nat
    /\ \A key \in SportKeys : SportOf[key] # NoSport => Answers[key] \subseteq Seq(Payloads)
    /\ ExtraAnswers \subseteq Seq(Payloads)

VARIABLES
    stage,     \* where the collection is
    moment,    \* the instant pinned when its provider was built
    queue,     \* the competitions still to ask
    pending,   \* the events of the current answer still to ingest
    tally,     \* attempted, failed, any_event_seen, any_bookmaker_seen
    batch,     \* the CollectionBatch: events, prices, coverage
    dayLeft,   \* what remaining_today would answer
    scanLeft,  \* what is left of the client's scan budget
    answered,  \* history: the competitions that answered, with their payloads
    others     \* charges of other processes so far

budgets == <<dayLeft, scanLeft>>
collectionVars ==
    <<stage, moment, queue, pending, tally, batch, dayLeft, scanLeft, answered, others>>

NothingTallied == [attempted |-> 0, failed |-> 0, event |-> FALSE, book |-> FALSE]
EmptyBatch == [provider |-> "the_odds_api", events |-> {}, prices |-> <<>>,
               coverage |-> "OK"]

CollectionInit ==
    /\ stage = "idle"
    /\ moment = 0
    /\ queue = <<>> /\ pending = <<>>
    /\ tally = NothingTallied
    /\ batch = EmptyBatch
    /\ dayLeft = DayBudget
    /\ scanLeft = ScanBudget
    /\ answered = {}
    /\ others = 0

(* Grouped and per-event markets are requested per sport, never globally. *)
CoreMarkets(sport) == IF sport = "football" THEN {"h2h", "totals"} ELSE {"h2h"}

AdditionalMarkets(sport) ==
    IF sport = "football"
    THEN {"draw_no_bet", "double_chance", "h2h_3_way_h1", "totals_h1", "double_chance_h1"}
    ELSE {}

ADDITIONAL_MARKET_MIN_HEADROOM == 4

(* Ten bookmakers are billed as one region. *)
RegionUnits == IF Bookmakers = {} THEN 1 ELSE (Cardinality(Bookmakers) + 9) \div 10

EstimateCost(markets) == Cardinality(markets) * RegionUnits

Affordable(cost) == cost <= scanLeft /\ (DayBudget > 0 => cost <= dayLeft)

(* A call that was sent is billed its estimate, or nothing. *)
Bill(cost) ==
    \E bill \in {0, cost} :
        /\ scanLeft' = scanLeft - bill
        /\ dayLeft' = IF DayBudget > 0 THEN dayLeft - bill ELSE dayLeft

(* A provider, its client and its instant are built for one collection. *)
StartCollection(now) ==
    /\ stage = "idle"
    /\ stage' = "listing"
    /\ moment' = now
    /\ UNCHANGED <<queue, pending, tally, batch, budgets, answered, others>>

(* The provider and its client are dropped with the collection, its result taken. *)
Released ==
    /\ stage' = "idle"
    /\ moment' = 0
    /\ queue' = <<>> /\ pending' = <<>>
    /\ tally' = NothingTallied
    /\ batch' = EmptyBatch
    /\ scanLeft' = ScanBudget
    /\ answered' = {}
    /\ UNCHANGED <<dayLeft, others>>

-------------------------------------------------------------------------------
(* Discovery                                                                  *)

HasSport(key) == ClassifySport(key) # NoSport
Wanted == Filtered(Allowlist, HasSport)

(* A catalogue that cannot be had is not fatal: the allowlist is asked as it is. *)
Selected(active) ==
    IF active = Unlisted THEN Wanted ELSE Filtered(Wanted, LAMBDA key : key \in active)

SportKeysToPoll ==
    /\ stage = "listing"
    /\ IF Wanted = <<>>
       THEN queue' = <<>>
       ELSE \E active \in Catalogues : queue' = Selected(active)
    /\ stage' = "polling"
    /\ UNCHANGED <<moment, pending, tally, batch, budgets, answered, others>>

(* An authentication error leaves collect(), whichever call meets it. *)
RaiseAuthError ==
    /\ \/ stage = "listing" /\ Wanted # <<>>
       \/ stage = "polling" /\ queue # <<>>
       \/ stage = "extras"
    /\ stage' = "raised"
    /\ UNCHANGED <<moment, queue, pending, tally, batch, budgets, answered, others>>

-------------------------------------------------------------------------------
(* The grouped request of one competition                                     *)

Key == Head(queue)
Sport == ClassifySport(Key)
CoreCost == EstimateCost(CoreMarkets(Sport))

NextCompetition == queue' = Tail(queue) /\ UNCHANGED <<stage, pending, batch, answered>>

(* Mutated CompetitionRefused: a refused competition is skipped, not counted as failed. *)
RefusedUncounted ==
    /\ stage = "polling" /\ queue # <<>>
    /\ ~Affordable(CoreCost)
    /\ tally' = [tally EXCEPT !.attempted = @ + 1]
    /\ NextCompetition
    /\ UNCHANGED <<moment, budgets, others>>

(* The budget refuses the call before it is sent. *)
CompetitionRefused ==
    /\ stage = "polling" /\ queue # <<>>
    /\ ~Affordable(CoreCost)
    /\ tally' = [tally EXCEPT !.attempted = @ + 1, !.failed = @ + 1]
    /\ NextCompetition
    /\ UNCHANGED <<moment, budgets, others>>

(* A call fails, or a retry of it is refused: the others are still asked. *)
CompetitionFails ==
    /\ stage = "polling" /\ queue # <<>>
    /\ Affordable(CoreCost)
    /\ tally' = [tally EXCEPT !.attempted = @ + 1, !.failed = @ + 1]
    /\ Bill(CoreCost)
    /\ NextCompetition
    /\ UNCHANGED <<moment, others>>

CompetitionAnswers ==
    /\ stage = "polling" /\ queue # <<>>
    /\ Affordable(CoreCost)
    /\ tally' = [tally EXCEPT !.attempted = @ + 1]
    /\ Bill(CoreCost)
    /\ \E payload \in Answers[Key] :
          /\ answered' = answered \cup {[key |-> Key, payload |-> payload]}
          /\ pending' = payload
          /\ IF payload = <<>>
             THEN queue' = Tail(queue) /\ stage' = stage
             ELSE queue' = queue /\ stage' = "ingesting"
    /\ UNCHANGED <<moment, batch, others>>

-------------------------------------------------------------------------------
(* One event of an answer, under the contract of its endpoint                 *)

(* Nothing under way, and nothing outside the window, is priced. *)
Ingestible(raw) == raw.complete /\ InScanWindow(raw.start, moment, WindowHours)

Followed(book) == Bookmakers = {} \/ book.key \in Bookmakers

FollowedBooks(raw) == Filtered(raw.books, Followed)

(* The stamp is the bookmaker's in a grouped answer, the market's in the other; *)
(* what has none is refused, and no other instant replaces it.                  *)
StampOf(book, market, shape) == IF shape = "grouped" THEN book.stamp ELSE market.stamp

MarketPrices(raw, sport, book, market, shape) ==
    IF StampOf(book, market, shape) # Unreadable /\ Mappable(market.key, sport, market.outcomes)
    THEN LET mapped == MapMarket(market.key, sport, market.outcomes)
         IN  [i \in DOMAIN mapped |->
                [provider |-> "the_odds_api", book |-> book.key, event |-> raw.id,
                 market |-> mapped[i].market, period |-> mapped[i].period,
                 line |-> mapped[i].line, code |-> mapped[i].code, odds |-> mapped[i].odds,
                 observed |-> StampOf(book, market, shape), received |-> moment]]
    ELSE <<>>

EventPrices(raw, sport, shape) ==
    LET books == FollowedBooks(raw)
    IN  FlattenSeq([b \in DOMAIN books |->
            FlattenSeq([k \in DOMAIN books[b].markets |->
                MarketPrices(raw, sport, books[b], books[b].markets[k], shape)])])

CanonicalEvent(raw, sport) ==
    [id |-> raw.id, source |-> raw.id, sport |-> sport, start |-> raw.start,
     status |-> "scheduled", ambiguous |-> FALSE]

(* Prices of an event already in the batch, and prices it already has, are not added *)
(* twice.                                                                            *)
WithPrices(raw, sport, shape) ==
    LET new == EventPrices(raw, sport, shape)
        known == {Fingerprint(batch.prices[i]) : i \in DOMAIN batch.prices}
    IN  IF new = <<>> THEN batch
        ELSE [batch EXCEPT
                !.events = IF \E e \in @ : e.id = raw.id THEN @
                           ELSE @ \cup {CanonicalEvent(raw, sport)},
                !.prices = @ \o Filtered(new, LAMBDA p : Fingerprint(p) \notin known)]

Ingested(raw, sport, shape) ==
    IF Ingestible(raw) THEN WithPrices(raw, sport, shape) ELSE batch

SeesBook(raw) == Ingestible(raw) /\ FollowedBooks(raw) # <<>>

(* The answer goes on with its next event, or the collection with its next competition. *)
NextEvent ==
    /\ pending' = Tail(pending)
    /\ IF Len(pending) = 1
       THEN stage' = "polling" /\ queue' = Tail(queue)
       ELSE stage' = "ingesting" /\ queue' = queue

IngestEvent ==
    /\ stage = "ingesting"
    /\ LET raw == Head(pending)
       IN  /\ batch' = Ingested(raw, Sport, "grouped")
           /\ tally' = [tally EXCEPT !.event = TRUE, !.book = @ \/ SeesBook(raw)]
           /\ IF SeesBook(raw) /\ AdditionalMarkets(Sport) # {}
              THEN stage' = "extras" /\ UNCHANGED <<pending, queue>>
              ELSE NextEvent
    /\ UNCHANGED <<moment, budgets, answered, others>>

-------------------------------------------------------------------------------
(* The additional markets of one event: optional, whatever happens            *)

ExtraCost == EstimateCost(AdditionalMarkets(Sport))
Headroom == DayBudget > 0 => dayLeft >= ADDITIONAL_MARKET_MIN_HEADROOM

ExtrasSkipped ==
    /\ stage = "extras"
    /\ ~Headroom \/ ~Affordable(ExtraCost)
    /\ NextEvent
    /\ UNCHANGED <<moment, tally, batch, budgets, answered, others>>

ExtrasFail ==
    /\ stage = "extras"
    /\ Headroom /\ Affordable(ExtraCost)
    /\ Bill(ExtraCost)
    /\ NextEvent
    /\ UNCHANGED <<moment, tally, batch, answered, others>>

ExtrasAnswer ==
    /\ stage = "extras"
    /\ Headroom /\ Affordable(ExtraCost)
    /\ Bill(ExtraCost)
    /\ \E payload \in ExtraAnswers :
          batch' = IF payload = <<>> THEN batch ELSE Ingested(payload[1], Sport, "event")
    /\ NextEvent
    /\ UNCHANGED <<moment, tally, answered, others>>

-------------------------------------------------------------------------------
(* _classify_coverage *)
Coverage ==
    CASE tally.attempted > 0 /\ tally.failed = tally.attempted -> "PROVIDER_ERROR"
      [] ~(tally.attempted > 0 /\ tally.failed = tally.attempted) /\ batch.prices # <<>> -> "OK"
      [] OTHER -> IF tally.event /\ ~tally.book THEN "COVERAGE_MISSING" ELSE "NO_CANDIDATE"

EndCollection ==
    /\ stage = "polling" /\ queue = <<>>
    /\ stage' = "ended"
    /\ batch' = [batch EXCEPT !.coverage = Coverage]
    /\ UNCHANGED <<moment, queue, pending, tally, budgets, answered, others>>

(* Another process of the deployment spends on the same day. *)
OthersSpend ==
    /\ others < MaxOthers
    /\ \E charge \in Charges : charge <= dayLeft /\ dayLeft' = dayLeft - charge
    /\ others' = others + 1
    /\ UNCHANGED <<stage, moment, queue, pending, tally, batch, scanLeft, answered>>

CollectionStep ==
    \/ SportKeysToPoll
    \/ RaiseAuthError
    \/ CompetitionRefused
    \/ CompetitionFails
    \/ CompetitionAnswers
    \/ IngestEvent
    \/ ExtrasSkipped
    \/ ExtrasFail
    \/ ExtrasAnswer
    \/ EndCollection

-------------------------------------------------------------------------------
(* The events a collection was told of, in its window and complete, with the  *)
(* bookmakers that quote them.                                                *)
Told == UNION {{[raw |-> a.payload[i], key |-> a.key] : i \in DOMAIN a.payload} : a \in answered}

(* A collection says what happened to it (D-036): PROVIDER_ERROR when every      *)
(* competition it asked failed and only then, COVERAGE_MISSING only when events  *)
(* came and no followed bookmaker quoted one in the window, and OK or            *)
(* NO_CANDIDATE never hide an answer that had a price nor invent one.            *)
CoverageIsHonest ==
    stage = "ended" =>
        /\ batch.coverage = "PROVIDER_ERROR" <=> tally.attempted > 0 /\ answered = {}
        /\ batch.coverage = "COVERAGE_MISSING" =>
              /\ Told # {}
              /\ \A t \in Told : ~SeesBook(t.raw)
        /\ batch.coverage = "OK" =>
              \E t \in Told : EventPrices(t.raw, ClassifySport(t.key), "grouped") # <<>>
                                \/ SeesBook(t.raw)
        /\ batch.coverage = "NO_CANDIDATE" =>
              \A t \in Told : Ingestible(t.raw) =>
                  EventPrices(t.raw, ClassifySport(t.key), "grouped") = <<>>
===============================================================================
