----------------------------- MODULE Qualification -----------------------------
(***************************************************************************)
(* What a corpus of signed receipts says (qualification.py and the reading *)
(* half of activation.py): whether each receipt keeps the contract of its  *)
(* phase, what it costs and observes, how far the pre-registered campaign  *)
(* went, and whether the review gate is open.  Everything here is a pure   *)
(* reading of a set of receipts and of the number of unresolved intents.   *)
(*                                                                         *)
(* A receipt is a record of the fields these readings tell apart.  Types   *)
(* are right by construction (build_receipt writes them), identifiers are  *)
(* distinct (eight random bytes, exclusive publication), and the one       *)
(* bookmaker of the manifest is not written down.                          *)
(***************************************************************************)
EXTENDS Integers, FiniteSetsExt

CONSTANTS
    Soccer,             \* the football competitions of the manifest
    Tennis,             \* its tennis competitions
    Event,              \* the events competitions may list
    AdditionalMarkets,  \* the markets of one "additional" call
    CorePerFamily,      \* CAMPAIGN_CORE_PER_FAMILY
    MinCore,            \* thresholds of a core criterion: events, competitions, days
    MinAdditional,      \* thresholds of an additional criterion
    MinConforming,      \* conforming paid calls COST_CONFORMITY asks for
    MaxAge,             \* PROTOCOL_MAX_ODDS_AGE_SECONDS
    DayLength           \* clock units of one UTC day

Thresholds == [events : Nat, competitions : Nat, days : Nat]

ASSUME QualificationAssumption ==
    /\ Soccer \cap Tennis = {} /\ Soccer \cup Tennis # {}
    /\ IsFiniteSet(Soccer \cup Tennis)
    /\ IsFiniteSet(AdditionalMarkets) /\ AdditionalMarkets # {}
    /\ "h2h" \notin AdditionalMarkets
    /\ CorePerFamily \in Nat
    /\ MinCore \in Thresholds /\ MinAdditional \in Thresholds
    /\ MinConforming \in Nat
    /\ MaxAge \in Nat
    /\ DayLength \in Nat \ {0}

Unread == -1      \* no usable cost header
NoReceipt == 0    \* no parent

Sport == Soccer \cup Tennis
Family == {Soccer, Tennis} \ {{}}
FamilyOf(s) == CHOOSE f \in Family : s \in f

Command == {"discover", "core", "additional"}
PaidCommand == {"core", "additional"}

Requested(c) ==
    CASE c = "discover" -> {}
      [] c = "core" -> {"h2h"}
      [] c = "additional" -> AdditionalMarkets

(* One region unit per market asked, and a discovery is free.              *)
Ceiling(c) == Cardinality(Requested(c))

Scopes(c) == IF c = "additional" THEN Soccer ELSE Sport

Limit(c) ==
    CASE c = "discover" -> Cardinality(Sport)
      [] c = "core" -> CorePerFamily * Cardinality(Family)
      [] c = "additional" -> Cardinality(Soccer)

Budget == CorePerFamily * Cardinality(Family) + Cardinality(AdditionalMarkets) * Cardinality(Soccer)

MarketState == {"MAPPED", "REJECTED", "NOT_RETURNED", "NOT_EVALUATED"}
Bookmaker == {"OBSERVED", "NOT_RETURNED", "NOT_ASKED"}
Status == {"DISCOVERY_VERIFIED", "CORE_LIVE_VERIFIED", "ADDITIONAL_LIVE_VERIFIED",
           "ADDITIONAL_PARTIAL_COVERAGE", "COVERAGE_MISSING", "SCHEMA_MISMATCH",
           "COST_MISMATCH", "COST_UNVERIFIED", "AUTH_FAILED", "PROVIDER_UNAVAILABLE"}

Mapping(c) ==
    CASE c = "discover" -> {}
      [] c = "core" -> {"CORE_LIVE_VERIFIED"}
      [] c = "additional" -> {"ADDITIONAL_LIVE_VERIFIED", "ADDITIONAL_PARTIAL_COVERAGE"}
Live == {"DISCOVERY_VERIFIED"} \cup Mapping("core") \cup Mapping("additional")
CostEstablishing == Mapping("core") \cup Mapping("additional") \cup {"COVERAGE_MISSING"}
ResponseAsserting == Status \ {"PROVIDER_UNAVAILABLE"}
Success(c) == IF c = "discover" THEN {"DISCOVERY_VERIFIED"} ELSE Mapping(c)

(* How far an attempt had got when it wrote this (command, status).        *)
Phases(c, s) ==
    CASE c = "discover" ->
             IF s \in {"DISCOVERY_VERIFIED", "COVERAGE_MISSING", "COST_UNVERIFIED",
                       "COST_MISMATCH", "AUTH_FAILED", "PROVIDER_UNAVAILABLE"}
             THEN {"DISCOVERED"} ELSE {}
      [] s \in {"COVERAGE_MISSING", "SCHEMA_MISMATCH"} -> {"UNCLASSIFIED", "CLASSIFIED"}
      [] s \in {"COST_MISMATCH", "COST_UNVERIFIED", "AUTH_FAILED", "PROVIDER_UNAVAILABLE"} ->
             {"UNCLASSIFIED"}
      [] OTHER -> IF s \in Mapping(c) THEN {"CLASSIFIED"} ELSE {}

-------------------------------------------------------------------------------
(* The structural contract.                                                *)

In(r, state) == {m \in DOMAIN r.states : r.states[m] = state}
Mapped(r) == In(r, "MAPPED")
Counted(n) == n >= 0
Aged(r, m) == m \in DOMAIN r.ages /\ Counted(r.ages[m])

CommonContract(r) ==
    /\ r.command \in Command
    /\ Counted(r.estimated) /\ Counted(r.accounted)
    /\ r.observed # Unread => Counted(r.observed)

NoMarketClassified(r) ==
    /\ DOMAIN r.states = {}
    /\ DOMAIN r.ages = {}
    /\ r.selections = 0

TotalMap(r) ==
    /\ DOMAIN r.states = Requested(r.command)
    /\ DOMAIN r.ages \subseteq Requested(r.command)
    /\ \A m \in DOMAIN r.ages : Counted(r.ages[m])

(* What each classified status must positively contain.                    *)
StatusContract(r) ==
    LET mapped == Mapped(r)
        all == Requested(r.command)
    IN  /\ r.status \in Live =>
               /\ mapped # {}
               /\ r.selections >= 1
               /\ r.book = "OBSERVED"
               /\ \A m \in mapped : Aged(r, m)
        /\ r.status = "ADDITIONAL_LIVE_VERIFIED" => mapped = all
        /\ r.status = "ADDITIONAL_PARTIAL_COVERAGE" => mapped # all
        /\ r.status = "COVERAGE_MISSING" =>
               /\ mapped = {} /\ r.selections = 0
               /\ In(r, "NOT_EVALUATED") = all \/ In(r, "NOT_RETURNED") = all
        /\ r.status = "SCHEMA_MISMATCH" =>
               /\ mapped = {} /\ r.selections = 0
               /\ In(r, "REJECTED") # {}

PhaseContract(r, phase) ==
    CASE phase = "DISCOVERED" -> TRUE
      [] phase = "UNCLASSIFIED" ->
             r.attempts >= 1 /\ r.tags # {} /\ NoMarketClassified(r)
      [] phase = "CLASSIFIED" ->
             r.attempts >= 1 /\ r.tags # {} /\ TotalMap(r) /\ StatusContract(r)

(* The best of the honest shapes wins.                                     *)
WellFormed(r) ==
    /\ CommonContract(r)
    /\ \E phase \in Phases(r.command, r.status) : PhaseContract(r, phase)

AttemptState(r) == IF r.attempts = 0 THEN "NOT_ATTEMPTED" ELSE "CONFIRMED_ATTEMPT"
ProviderWasReached(r) == AttemptState(r) = "CONFIRMED_ATTEMPT" /\ r.reached

Contradictory(r) ==
    \/ Mapped(r) # {} /\ r.selections <= 0
    \/ r.selections > 0 /\ Mapped(r) = {}
    \/ r.book = "NOT_RETURNED" /\ Mapped(r) # {}
    \/ \E m \in Mapped(r) : ~Aged(r, m)
    \/ r.status \in Live /\ AttemptState(r) = "NOT_ATTEMPTED"
    \/ r.status \in ResponseAsserting /\ ~ProviderWasReached(r)
    \/ r.observed # Unread /\ r.accounted < r.observed

(* A receipt no semantic counter may read, whatever its protocol.          *)
Rejected(r) ==
    \/ Phases(r.command, r.status) = {}
    \/ ~WellFormed(r)
    \/ Contradictory(r)
Semantic(rs) == {r \in rs : ~Rejected(r)}

(* One receipt, one reason, in order of severity.                          *)
Classify(r) ==
    IF ~r.current THEN "historical"
    ELSE IF Phases(r.command, r.status) = {} THEN "unknown_command_status_pair"
    ELSE IF ~WellFormed(r) THEN "malformed_current_schema"
    ELSE IF Contradictory(r) THEN "self_contradictory"
    ELSE "usable"

-------------------------------------------------------------------------------
(* What a receipt establishes.                                             *)

Observes(r, m) ==
    /\ m \in Mapped(r)
    /\ Aged(r, m) /\ r.ages[m] <= MaxAge

MappingIsSound(r) ==
    /\ r.command \in PaidCommand
    /\ r.status \in Mapping(r.command)
    /\ ~Rejected(r)
    /\ ProviderWasReached(r)
    /\ r.book = "OBSERVED"
    /\ r.selections >= 1
    /\ \E m \in Mapped(r) : Observes(r, m)

AnsweredTheBookmaker(r) ==
    /\ ProviderWasReached(r)
    /\ "CLASSIFIED" \in Phases(r.command, r.status)
    /\ ~Rejected(r)
    /\ DOMAIN r.states # {}

CostConforming(r) ==
    /\ r.command \in PaidCommand
    /\ ~Rejected(r)
    /\ r.status \in CostEstablishing
    /\ ProviderWasReached(r)
    /\ r.observed # Unread
    /\ r.estimated <= Ceiling(r.command) /\ r.observed <= Ceiling(r.command)
    /\ r.accounted = r.observed

(* Exhaustive and disjoint over paid steps.                                *)
CostCategory(r) ==
    IF r.command \notin PaidCommand \/ AttemptState(r) = "NOT_ATTEMPTED" THEN "none"
    ELSE IF ~r.reached THEN "not_sent"
    ELSE IF r.status = "COST_MISMATCH" THEN "nonconforming"
    ELSE IF CostConforming(r) THEN "conforming"
    ELSE "unestablished"

AdmissibleFor(r, criterion) ==
    /\ Classify(r) = "usable"
    /\ r.command = criterion.command
    /\ r.status \in Mapping(criterion.command)
    /\ r.sport \in criterion.family
    /\ ProviderWasReached(r)
    /\ r.book = "OBSERVED"
    /\ criterion.command = "core" => r.selections >= 1 /\ ~r.rejections
    /\ Observes(r, criterion.market)

Criteria ==
    {[command |-> "core", family |-> f, market |-> "h2h", min |-> MinCore] : f \in Family}
        \cup {[command |-> "additional", family |-> Soccer, market |-> m, min |-> MinAdditional] :
                 m \in AdditionalMarkets}

(* Distinct events, competitions and UTC days.                             *)
Passed(rs, criterion) ==
    LET evidence == {r \in rs : AdmissibleFor(r, criterion)}
    IN  /\ Cardinality(UNION {r.tags : r \in evidence}) >= criterion.min.events
        /\ Cardinality({r.sport : r \in evidence}) >= criterion.min.competitions
        /\ Cardinality({r.at \div DayLength : r \in evidence}) >= criterion.min.days

CostPassed(rs) ==
    LET paid(category) == {r \in Semantic(rs) : r.current /\ CostCategory(r) = category}
    IN  /\ Cardinality(paid("conforming")) >= MinConforming
        /\ paid("nonconforming") = {}
        /\ paid("unestablished") = {}

-------------------------------------------------------------------------------
(* The campaign, counted from the receipts of this protocol.               *)

Mine(rs) == {r \in rs : r.current}
Of(rs, c) == {r \in Mine(rs) : r.command = c}
Failed(rs) == {r \in Mine(rs) : r.status \notin Success(r.command)}

CoreOf(rs, s) == {r \in Of(rs, "core") : FamilyOf(r.sport) = FamilyOf(s)}
AdditionalOf(rs, s) == {r \in Of(rs, "additional") : r.sport = s}
Used(rs, c) == UNION {r.tags : r \in Of(rs, c)}

(* Ways the corpus disagrees with the manifest.                            *)
CampaignConflict(rs) ==
    \/ \E r \in Mine(rs) : r.sport \notin Scopes(r.command)
    \/ \E r, q \in Of(rs, "discover") : r # q /\ r.sport = q.sport
    \/ \E r \in Of(rs, "core") : Cardinality(CoreOf(rs, r.sport)) > CorePerFamily
    \/ \E r \in Of(rs, "additional") : Cardinality(AdditionalOf(rs, r.sport)) > 1
    \/ \E r, q \in Mine(rs) :
           /\ r # q /\ r.command = q.command /\ r.command \in PaidCommand
           /\ r.tags \cap q.tags # {}
    \/ \E f \in Failed(rs), r \in Mine(rs) : r.at > f.at
    \/ \E c \in Command : Cardinality(Of(rs, c)) > Limit(c)

CampaignState(rs, intents) ==
    IF intents > 0 \/ \E r \in Mine(rs) : Classify(r) # "usable" THEN "UNESTABLISHED"
    ELSE IF CampaignConflict(rs) THEN "CONFLICT"
    ELSE IF Failed(rs) # {} THEN "ABORTED"
    ELSE IF \A c \in Command : Cardinality(Of(rs, c)) = Limit(c) THEN "COMPLETE"
    ELSE IF Mine(rs) # {} THEN "IN_PROGRESS"
    ELSE "NOT_STARTED"

Stopped(state) == state \in {"ABORTED", "CONFLICT", "UNESTABLISHED"}

(* The review gate: any conflict closes it, and only all criteria open it. *)
GateWithoutIntents(rs, intents) ==
    /\ \A r \in rs : Classify(r) \in {"historical", "usable"}
    /\ CampaignState(rs, intents) # "CONFLICT"
    /\ \A criterion \in Criteria : Passed(rs, criterion)
    /\ CostPassed(rs)
GateIsOpen(rs, intents) ==
    /\ intents = 0
    /\ \A r \in rs : Classify(r) \in {"historical", "usable"}
    /\ CampaignState(rs, intents) # "CONFLICT"
    /\ \A criterion \in Criteria : Passed(rs, criterion)
    /\ CostPassed(rs)

-------------------------------------------------------------------------------
(* The dimensions "activation status" reports.                             *)

Confirmed(rs) == {r \in rs : AttemptState(r) = "CONFIRMED_ATTEMPT"}
Paid(rs) == {r \in Semantic(rs) : r.command \in PaidCommand}
SomeOf(rs, c) == \E r \in rs : r.command = c

ExecutionState(rs) ==
    LET confirmed == Confirmed(Semantic(rs))
    IN
    IF SomeOf(confirmed, "additional") THEN "ADDITIONAL_ATTEMPTED"
    ELSE IF SomeOf(confirmed, "core") THEN "CORE_ATTEMPTED"
    ELSE IF SomeOf(confirmed, "discover") THEN "DISCOVERY_ATTEMPTED"
    ELSE IF \E r \in Confirmed(rs) : Rejected(r)
         THEN "NETWORK_ATTEMPT_STATE_UNESTABLISHED"
    ELSE "NO_NETWORK_ATTEMPTED"

CostProof(rs) ==
    LET some(category) == \E r \in Paid(rs) : CostCategory(r) = category
    IN  IF some("nonconforming") THEN "EXERCISED_NONCONFORMING"
        ELSE IF some("unestablished") THEN "EXERCISED_UNESTABLISHED"
        ELSE IF some("conforming") THEN "EXERCISED_CONFORMING"
        ELSE "NOT_EXERCISED"

PaidState(rs) ==
    LET paid == Paid(rs)
        established == {r \in paid : MappingIsSound(r) \/ AnsweredTheBookmaker(r)}
    IN  IF Confirmed(paid) = {}
        THEN IF \E r \in Confirmed(rs) : Rejected(r) /\ r.command \in PaidCommand
             THEN "PAID_ATTEMPT_STATE_UNESTABLISHED" ELSE "PREPARED_NOT_EXECUTED"
        ELSE IF established = {} THEN "PAID_ATTEMPT_INCONCLUSIVE"
        ELSE IF SomeOf(established, "additional") THEN "ADDITIONAL_EXECUTED"
        ELSE IF \E r \in paid : MappingIsSound(r) THEN "CORE_EXECUTED_COVERAGE_OBSERVED"
        ELSE "CORE_EXECUTED_NO_COVERAGE"

Credits(rs) == SumFunction([r \in rs |-> r.accounted])
CreditsTotal(rs) == Credits(Semantic(rs))
RejectedCredits(rs) == Credits({r \in rs : Rejected(r)})
===============================================================================
