------------------------------ MODULE OddsMapping ------------------------------
(* What a quote is: the closed vocabularies of domain/enums.py, the mapping   *)
(* of one payload of the provider onto them (the_odds_api/mapping.py), and    *)
(* the rows of a manual file (manual/csv_odds.py).                            *)
(*                                                                            *)
(* Prices are in hundredths, lines in quarters, instants in seconds.  The     *)
(* name of an outcome stands for what it is compared with: "home" is the      *)
(* home team of the same payload, and any other text is Unrecognised.         *)
EXTENDS Integers, Sequences, FiniteSets, TLC

CONSTANTS
    SportKeys,  \* competition keys of the provider
    SportOf     \* competition key -> "football", "tennis" or NoSport

NoSport == "none"
NoLine == -1
Unreadable == -1
Unrecognised == "unrecognised"

Sports == {"football", "tennis"}
Periods == {"full_time", "first_half"}
MarketTypes ==
    {"1x2", "draw_no_bet", "double_chance", "total_goals", "match_winner",
     "player_wins_a_set", "total_games"}
EventStatuses ==
    {"scheduled", "in_play", "finished", "postponed", "cancelled", "walkover", "retired",
     "unknown"}
Providers == {"the_odds_api", "manual", "demo"}

ASSUME MappingAssumption == SportOf \in [SportKeys -> Sports \cup {NoSport}]

-------------------------------------------------------------------------------
(* The elements of s at the indices of is, and those that pass a test: in order. *)
Keep(s, is) ==
    [n \in 1..Cardinality(is) |-> s[CHOOSE i \in is : Cardinality({j \in is : j <= i}) = n]]

Filtered(s, Test(_)) == Keep(s, {i \in DOMAIN s : Test(s[i])})

-------------------------------------------------------------------------------
(* SPORT_PREFIXES, seen through the keys of an instance. *)
ClassifySport(key) == SportOf[key]

-------------------------------------------------------------------------------
(* What the key of a market means in a sport: a market and a period. *)
MappedMarkets ==
    {<<"h2h", "football", "1x2", "full_time">>,
     <<"totals", "football", "total_goals", "full_time">>,
     <<"draw_no_bet", "football", "draw_no_bet", "full_time">>,
     <<"double_chance", "football", "double_chance", "full_time">>,
     <<"h2h_3_way_h1", "football", "1x2", "first_half">>,
     <<"totals_h1", "football", "total_goals", "first_half">>,
     <<"double_chance_h1", "football", "double_chance", "first_half">>,
     <<"h2h", "tennis", "match_winner", "full_time">>,
     <<"totals", "tennis", "total_games", "full_time">>}

MARKET_MAP ==
    [k \in {<<m[1], m[2]>> : m \in MappedMarkets} |->
        LET target == CHOOSE m \in MappedMarkets : <<m[1], m[2]>> = k
        IN  <<target[3], target[4]>>]

UNSUPPORTED_BY_PROVIDER == {"h2h_s1", "player_wins_a_set"}

LINE_REQUIRED_MARKETS == {"total_goals", "total_games"}

PARTITION_MARKETS ==
    {"1x2", "draw_no_bet", "total_goals", "match_winner", "total_games"}

ExpectedSelections(market) == IF market \in {"1x2", "double_chance"} THEN 3 ELSE 2

MarketsOf(sport) ==
    IF sport = "football"
    THEN {"1x2", "draw_no_bet", "double_chance", "total_goals"}
    ELSE {"match_winner", "player_wins_a_set", "total_games"}

(* The names outcome_code resolves; a draw is resolved in every h2h market.   *)
OutcomeCodes(market) ==
    CASE market \in {"1x2", "match_winner", "draw_no_bet"} -> {"home", "away", "draw"}
      [] market \in LINE_REQUIRED_MARKETS -> {"over", "under"}
      [] market = "double_chance" -> {"home_or_draw", "draw_or_away", "home_or_away"}
      [] OTHER -> {}

(* A price is finite and above 1; a line is read where the market has one. *)
ReadableOutcome(market, outcome) ==
    /\ outcome.name \in OutcomeCodes(market)
    /\ outcome.price > 100
    /\ market \in LINE_REQUIRED_MARKETS => outcome.point # NoLine

(* One outcome that cannot be mapped rejects its whole market.  Totals in tennis   *)
(* stay refused: no caller passes allow_tennis_totals.                             *)
Mappable(key, sport, outcomes) ==
    /\ key \notin UNSUPPORTED_BY_PROVIDER
    /\ <<key, sport>> \in DOMAIN MARKET_MAP
    /\ LET market == MARKET_MAP[key, sport][1]
       IN  /\ market # "total_games"
           /\ \A i \in DOMAIN outcomes : ReadableOutcome(market, outcomes[i])

MapMarket(key, sport, outcomes) ==
    LET target == MARKET_MAP[key, sport]
    IN  [i \in DOMAIN outcomes |->
           [market |-> target[1], period |-> target[2], code |-> outcomes[i].name,
            odds |-> outcomes[i].price,
            line |-> IF target[1] \in LINE_REQUIRED_MARKETS THEN outcomes[i].point
                                                            ELSE NoLine]]

-------------------------------------------------------------------------------
(* An event and an observation of one price, under ids of the source or of the *)
(* deployment.  Two observations of one fingerprint are one fact.              *)
Events(ids) ==
    [id : ids, source : STRING, sport : Sports, start : Int, status : EventStatuses,
     ambiguous : BOOLEAN]

Quotes(ids) ==
    [provider : Providers, book : STRING, event : ids, market : MarketTypes,
     period : Periods, line : Int, code : STRING, odds : Int, observed : Int,
     received : Int]

SelectionKey(p) == <<p.market, p.period, p.line, p.code>>

Fingerprint(p) ==
    <<p.provider, p.book, p.event, SelectionKey(p), p.odds, p.observed>>

(* ]now, now + hours], as a scan pins it. *)
InScanWindow(start, now, hours) == now < start /\ start <= now + hours

-------------------------------------------------------------------------------
(* Rows of a manual file, each with the first check it fails.  A row refused  *)
(* before its event is known leaves nothing; one refused after it still       *)
(* leaves the event; a line that is no number is not a refusal but the end of *)
(* the import (decimal.InvalidOperation is no ValueError).                    *)
EarlyFaults == {"missing", "vocabulary", "naive_time", "odds"}
FatalFaults == {"not_a_number"}
LateFaults == {"line"}

Rows ==
    [fault : EarlyFaults \cup FatalFaults \cup LateFaults \cup {""},
     event : Events(STRING), price : Quotes(STRING)]

Parses(rows) == \A i \in DOMAIN rows : rows[i].fault \notin FatalFaults

ReadsEvent(row) == row.fault \notin EarlyFaults
ReadsPrice(row) == ReadsEvent(row) /\ row.fault \notin LateFaults

(* What parse_rows returns, of a file it comes to the end of. *)
ParseRows(rows, received) ==
    LET eventRows == Filtered(rows, ReadsEvent)
        firsts == {i \in DOMAIN eventRows :
                     \A j \in 1..i - 1 : eventRows[j].event.id # eventRows[i].event.id}
        priced == Filtered(rows, ReadsPrice)
    IN  [events |-> {eventRows[i].event : i \in firsts},
         prices |-> [i \in DOMAIN priced |->
                       [priced[i].price EXCEPT !.received = received]]]
===============================================================================
