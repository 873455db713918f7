-------------------------------- MODULE ScanRun --------------------------------
(* What a process does with a collection: the discovery of a scheduler's tick    *)
(* (runner.discover_events), and a scan, of a job or of an operator              *)
(* (AcquisitionService.run and runner.execute).  A scan builds its providers,    *)
(* collects, stores what it collected, analyses it, saves the scan document and  *)
(* reports; each of these is a step, and the process may die between any two.    *)
(*                                                                               *)
(* How a source id is resolved onto an internal id is the module Acquisition;    *)
(* here it is a function, which is what a run sees of it.                        *)
EXTENDS OddsCollection, ScanAnalysis

CONSTANTS
    Deployments,  \* <<mode, odds_provider>>; "" when the provider or its key is missing
    InternalId,   \* source id -> internal id, or Unattributable
    ManualFiles,  \* rows of the files an operator may import
    DemoWorld,    \* the synthetic events and prices of demo mode, on the clock of a scan
    ModelStatus,  \* sport -> validation status of its model, in demo mode
    FirstInstant, LastInstant,  \* bounds of the clock
    MaxRuns       \* bound on the collections of a behaviour

Unattributable == "unattributable"

(* A file without a row is not told from none. *)
NoFile == <<>>

ASSUME RunAssumption ==
    /\ FirstInstant \in Nat /\ LastInstant \in Nat /\ MaxRuns \in Nat
    /\ Deployments \subseteq {"demo", "backtest", "paper", "live_analysis"}
                              \X {"the_odds_api", ""}
    /\ ManualFiles \subseteq Seq(Rows)
    /\ DemoWorld \in [events : SUBSET Events(STRING), prices : Seq(Quotes(STRING))]
    /\ \A e, f \in DemoWorld.events : e.id = f.id => e = f

VARIABLES
    mode, provider, \* the settings of this deployment
    now,            \* the wall clock
    run,            \* what the process is doing, or Idle
    milestones,     \* scopes of the jobs in the ledger: source id, internal id
    stored,         \* the tables: events, and prices by fingerprint
    scan,           \* the last scan document, or NoScan
    verdict,        \* what the runner made of it
    runs            \* collections so far

runVars == <<mode, provider, now, run, milestones, stored, scan, verdict, runs>>
vars == <<collectionVars, runVars>>

Idle == [purpose |-> "none"]
NoScan == [status |-> "none"]
NoScope == [source |-> "", id |-> ""]

Init ==
    /\ CollectionInit
    /\ \E d \in Deployments : mode = d[1] /\ provider = d[2]
    /\ now = FirstInstant
    /\ run = Idle
    /\ milestones = {}
    /\ stored = [events |-> {}, prices |-> {}]
    /\ scan = NoScan
    /\ verdict = "none"
    /\ runs = 0

Tick ==
    /\ now < LastInstant
    /\ run = Idle
    /\ now' = now + 1
    /\ UNCHANGED <<collectionVars, mode, provider, run, milestones, stored, scan, verdict, runs>>

-------------------------------------------------------------------------------
(* Which source a run collects from (providers/factory.py).  Synthetic data never *)
(* stands in for a provider that is missing.                                      *)

SourceOf(file) ==
    CASE file # NoFile -> "manual"
      [] file = NoFile /\ mode = "demo" -> "demo"
      [] OTHER -> IF provider = "the_odds_api" THEN "the_odds_api" ELSE "unavailable"

(* No fitted ratings exist outside demo mode: no model does either. *)
ModelsFor == IF mode = "demo" THEN ModelStatus ELSE [s \in {} |-> s]

(* A source that only lists: the events it lists, then the prices of these. *)
CollectViaListing(source, events, prices) ==
    LET listed == Filtered(prices, LAMBDA p : \E e \in events : e.id = p.event)
    IN  [provider |-> source, events |-> events, prices |-> listed,
         coverage |-> IF listed = <<>> THEN "COVERAGE_MISSING" ELSE "OK"]

(* The demo world is built on the instant of the scan: an event starts so long after, *)
(* and a price was seen so long before.                                               *)
DemoEvents == {[e EXCEPT !.start = now + @] : e \in DemoWorld.events}
DemoPrices ==
    [i \in DOMAIN DemoWorld.prices |->
        [DemoWorld.prices[i] EXCEPT !.observed = now - @, !.received = now]]

(* A manual file lists what is in the window; the demo world lists everything, and *)
(* leaves the refusal of the rest to the scan.                                     *)
Listing(source, file) ==
    IF source = "demo"
    THEN CollectViaListing(source, DemoEvents, DemoPrices)
    ELSE LET report == ParseRows(file, now)
         IN  CollectViaListing(source,
               {e \in report.events : InScanWindow(e.start, now, WindowHours)}, report.prices)

-------------------------------------------------------------------------------
(* Identity, as a run sees it                                                  *)

Usable(e) == InternalId[e.source] # Unattributable

(* Mutated Milestones: the scope is the provider's own id. *)
SourceMilestones(events) == {[source |-> e.source, id |-> e.source] : e \in {x \in events : Usable(x)}}

(* Discovery plans against internal ids, so that a milestone finds its event; the *)
(* jobs it plans stay in the ledger, whatever the next discovery finds.           *)
Milestones(events) ==
    {[source |-> e.source, id |-> InternalId[e.source]] : e \in {x \in events : Usable(x)}}

(* Mutated ResolveIdentity: an event that cannot be attributed takes no price with it. *)
ResolveEventsOnly(b) ==
    LET sourceOf(p) == (CHOOSE e \in b.events : e.id = p.event).source
        known(p) == \E e \in b.events : e.id = p.event
    IN  [b EXCEPT !.events = {[e EXCEPT !.id = InternalId[e.source]] :
                                e \in {x \in b.events : Usable(x)}},
                  !.prices = [i \in DOMAIN b.prices |->
                                [b.prices[i] EXCEPT !.event = InternalId[sourceOf(b.prices[i])]]]]

(* An event whose identity is undetermined leaves the batch, with its prices. *)
ResolveIdentity(b) ==
    LET attributed(p) == \E e \in b.events : e.id = p.event /\ Usable(e)
        sourceOf(p) == (CHOOSE e \in b.events : e.id = p.event).source
        kept == Filtered(b.prices, attributed)
    IN  [b EXCEPT !.events = {[e EXCEPT !.id = InternalId[e.source]] :
                                e \in {x \in b.events : Usable(x)}},
                  !.prices = [i \in DOMAIN kept |->
                                [kept[i] EXCEPT !.event = InternalId[sourceOf(kept[i])]]]]

AmbiguityRejections(events) ==
    {Rejection(e.id, "", "EVENT_MAPPING_AMBIGUOUS") : e \in events}

-------------------------------------------------------------------------------
(* Discovery                                                                   *)

BeginDiscovery ==
    /\ run = Idle /\ runs < MaxRuns
    /\ runs' = runs + 1
    /\ CASE SourceOf(NoFile) = "the_odds_api" ->
              /\ StartCollection(now)
              /\ run' = [purpose |-> "discovery"]
              /\ UNCHANGED milestones
         [] SourceOf(NoFile) = "unavailable" ->
              UNCHANGED <<collectionVars, run, milestones>>
         [] OTHER ->
              /\ milestones' = milestones \cup Milestones(Listing("demo", NoFile).events)
              /\ UNCHANGED <<collectionVars, run>>
    /\ UNCHANGED <<mode, provider, now, stored, scan, verdict>>

(* list_events keeps the events of the collection and none of its failures. *)
EndDiscovery ==
    /\ run.purpose = "discovery"
    /\ stage \in {"ended", "raised"}
    /\ milestones' = IF stage = "ended" THEN milestones \cup Milestones(batch.events)
                     ELSE milestones
    /\ Released
    /\ run' = Idle
    /\ UNCHANGED <<mode, provider, now, stored, scan, verdict, runs>>

-------------------------------------------------------------------------------
(* A scan                                                                      *)

NewRun(scope, file, persist, by) ==
    [purpose |-> "scan", phase |-> "collecting", scope |-> scope, file |-> file,
     persist |-> persist, by |-> by, moment |-> now, batch |-> EmptyBatch,
     unattributable |-> {}]

Document(status, collection, failure, r, analysis) ==
    [status |-> status, collection |-> collection, failure |-> failure, scope |-> r.scope,
     moment |-> r.moment, batch |-> r.batch, by |-> r.by,
     unattributable |-> r.unattributable, candidates |-> analysis.candidates, rejections |-> analysis.rejections]

NothingAnalysed == [candidates |-> {}, rejections |-> {}]

(* The scan of a failed collection is a document too. *)
Unavailability(r) ==
    Document("DATA_UNAVAILABLE", "PROVIDER_ERROR", "CONFIGURATION", r, NothingAnalysed)

(* What the runner does with a job's document (execute); an operator only reads it. *)
Execute(s) ==
    CASE s.collection \in {"OK", "NO_CANDIDATE", "COLLECTED_NO_MODEL", "COVERAGE_MISSING",
                           "DATA_STALE"} -> "SUCCESS"
      [] OTHER -> CASE s.failure = "BUDGET" -> "BUDGET_EXHAUSTED"
                    [] s.failure = "CONFIGURATION" -> "FINAL_FAILURE"
                    [] OTHER -> "RETRYABLE_FAILURE"

Report(s) ==
    /\ scan' = s
    /\ verdict' = IF s.by = "job" THEN Execute(s) ELSE "none"
    /\ run' = Idle

(* A source that only lists is collected at once; the service takes requests.  A *)
(* file whose import breaks off leaves the command with an exception and no      *)
(* document.                                                                     *)
Launch(r) ==
    CASE SourceOf(r.file) = "the_odds_api" ->
           /\ StartCollection(now)
           /\ run' = r
           /\ UNCHANGED <<scan, verdict>>
      [] SourceOf(r.file) = "unavailable" ->
           /\ Report(Unavailability(r))
           /\ UNCHANGED collectionVars
      [] SourceOf(r.file) = "manual" /\ ~Parses(r.file) ->
           UNCHANGED <<collectionVars, run, scan, verdict>>
      [] OTHER ->
           /\ run' = [r EXCEPT !.phase = "collected",
                               !.batch = Listing(SourceOf(r.file), r.file)]
           /\ UNCHANGED <<collectionVars, scan, verdict>>

BeginScan ==
    /\ run = Idle /\ runs < MaxRuns
    /\ runs' = runs + 1
    /\ \/ \E scope \in milestones \cup {NoScope} :
             Launch(NewRun(scope, NoFile, TRUE, "job"))
       \/ \E file \in ManualFiles \cup {NoFile}, persist \in BOOLEAN :
             Launch(NewRun(NoScope, file, persist, "operator"))
    /\ UNCHANGED <<mode, provider, now, milestones, stored>>

ScanPhase(phase) == run.purpose = "scan" /\ run.phase = phase

(* collect() raised a ProviderError, which only an authentication error does. *)
CollectionRaised ==
    /\ ScanPhase("collecting") /\ stage = "raised"
    /\ Report(Unavailability(run))
    /\ Released
    /\ UNCHANGED <<mode, provider, now, milestones, stored, runs>>

Collected ==
    /\ ScanPhase("collecting") /\ stage = "ended"
    /\ run' = [run EXCEPT !.phase = "collected", !.batch = batch]
    /\ Released
    /\ UNCHANGED <<mode, provider, now, milestones, stored, scan, verdict, runs>>

(* Events, prices and batch are stored in one transaction, before any analysis; a *)
(* price already stored stays as it is.                                           *)
StoreBatch ==
    /\ ScanPhase("collected") /\ run.persist
    /\ LET resolved == ResolveIdentity(run.batch)
       IN  /\ run' = [run EXCEPT !.phase = "stored", !.batch = resolved,
                         !.unattributable = {e \in run.batch.events : ~Usable(e)}]
           /\ stored' = [events |-> stored.events \cup {e.id : e \in resolved.events},
                         prices |-> stored.prices \cup {Fingerprint(resolved.prices[i]) :
                                                          i \in DOMAIN resolved.prices}]
    /\ UNCHANGED <<collectionVars, mode, provider, now, milestones, scan, verdict, runs>>

(* _classify; its DATA_STALE needs a stale price and no priced one, and a price is *)
(* only found stale after it is priced.                                            *)
Classify(b, candidates) ==
    CASE b.coverage = "COVERAGE_MISSING" /\ b.prices = <<>> -> "COVERAGE_MISSING"
      [] OTHER -> IF DOMAIN ModelsFor = {} THEN "COLLECTED_NO_MODEL"
                  ELSE IF candidates # {} THEN "OK" ELSE "NO_CANDIDATE"

InScope(b, scope, instant) ==
    {e \in b.events : /\ InScanWindow(e.start, instant, WindowHours)
                      /\ scope # NoScope => e.id = scope.id}

(* The analysis and the scan document, saved unless the run does not persist. *)
AnalyseAndSave ==
    /\ \/ ScanPhase("stored")
       \/ ScanPhase("collected") /\ ~run.persist
    /\ LET b == run.batch
           analysis == Analyse(InScope(b, run.scope, run.moment), b.events, b.prices, mode,
                               ModelsFor, run.moment, WindowHours)
           all == [analysis EXCEPT !.rejections =
                     @ \cup AmbiguityRejections(run.unattributable)]
           collection == Classify(b, all.candidates)
           status == IF collection = "PROVIDER_ERROR" THEN "DATA_UNAVAILABLE"
                     ELSE IF all.candidates # {} THEN "CANDIDATES_FOUND" ELSE "NO_BET"
       IN  Report(Document(status, collection, "none", run, all))
    /\ UNCHANGED <<collectionVars, mode, provider, now, milestones, stored, runs>>

(* Any other exception (a payload of another shape, a database that fails) goes past *)
(* the service: the job is to be retried, without a document, and a discovery is the *)
(* end of its tick.                                                                  *)
RunRaises ==
    /\ run # Idle
    /\ run' = Idle
    /\ Released
    /\ verdict' = IF run.purpose = "discovery" THEN verdict
                  ELSE IF run.by = "job" THEN "RETRYABLE_FAILURE" ELSE "none"
    /\ UNCHANGED <<mode, provider, now, milestones, stored, scan, runs>>

(* The process dies, whatever it was doing. *)
Crash ==
    /\ run # Idle
    /\ run' = Idle
    /\ Released
    /\ verdict' = "none"
    /\ UNCHANGED <<mode, provider, now, milestones, stored, scan, runs>>

Next ==
    \/ Tick
    \/ BeginDiscovery
    \/ EndDiscovery
    \/ BeginScan
    \/ CollectionStep /\ UNCHANGED runVars
    \/ OthersSpend /\ UNCHANGED runVars
    \/ CollectionRaised
    \/ Collected
    \/ StoreBatch
    \/ AnalyseAndSave
    \/ RunRaises
    \/ Crash

Spec == Init /\ [][Next]_vars

-------------------------------------------------------------------------------
(* Properties                                                                  *)

(* A stored price always belongs to a stored event, whatever the identity of its  *)
(* event turned out to be and wherever the process died (_resolve_identity: "a    *)
(* snapshot can never reference an event that was not resolved and stored").      *)
StoreIsAttributed == \A f \in stored.prices : f[3] \in stored.events

(* A selection that was offered at all, on an event of the scan. *)
Offered(s, e) ==
    {s.batch.prices[i] : i \in {i \in DOMAIN s.batch.prices :
        s.batch.prices[i].event = e.id /\ Valid(s.batch.prices[i], s.moment)}}

Rejected(s, eventId, selection) ==
    \E r \in s.rejections : r.event = eventId /\ r.selection = selection

(* "Every priced selection ends up either in candidates or in rejections with a code" *)
(* (scan.py): each bookmaker's valid price on an event the scan analyses is one or    *)
(* the other; an event outside the window gets its code, unless the operator merged   *)
(* it with one that is analysed, and so does an event whose identity is undetermined. *)
(* The code gives none to a price that is quarantined, which is only counted, nor to  *)
(* an event of the window without a price or outside the scope of a milestone.        *)
NothingDropped ==
    scan # NoScan =>
        /\ \A e \in InScope(scan.batch, scan.scope, scan.moment) :
              \A p \in Offered(scan, e) :
                 \/ \E c \in scan.candidates : QuoteKey(c.price) = QuoteKey(p)
                 \/ Rejected(scan, e.id, SelectionKey(p))
        /\ \A e \in scan.batch.events :
              /\ ~InScanWindow(e.start, scan.moment, WindowHours)
              /\ \A f \in InScope(scan.batch, scan.scope, scan.moment) : f.id # e.id
              => Rejected(scan, e.id, "-")
        /\ \A e \in scan.unattributable : Rejected(scan, e.id, "")

(* What is published can be acted on: outside demo mode nothing is (D-019); the price *)
(* is the latest its bookmaker showed, fresh, for an event still to start; and the    *)
(* stake, whatever Kelly says, passes the cap by the rounding of a cent at most.      *)
PublishedIsSafe ==
    scan # NoScan => \A c \in scan.candidates :
        /\ mode = "demo"
        /\ scan.moment < c.event.start
        /\ c.price.observed <= scan.moment
        /\ scan.moment - c.price.observed <= Settings.max_odds_age
        /\ \A p \in Offered(scan, c.event) :
              QuoteKey(p) = QuoteKey(c.price) => p.observed <= c.price.observed
        /\ 10000 * c.stake <= Settings.bankroll * Settings.max_stake + 5000

(* A milestone analyses the event it was planned for (discover_events): when the    *)
(* provider still offers that event, the scan of the job has a verdict on it, and   *)
(* it publishes no other event.                                                     *)
MilestoneFindsItsEvent ==
    scan # NoScan /\ scan.scope # NoScope =>
        /\ \A e \in scan.batch.events :
              /\ e.source = scan.scope.source
              /\ InScanWindow(e.start, scan.moment, WindowHours)
              /\ Offered(scan, e) # {}
              => \/ \E c \in scan.candidates : InternalId[c.event.source] = InternalId[e.source]
                 \/ \E r \in scan.rejections : r.event = e.id
        /\ \A c \in scan.candidates :
              InternalId[c.event.source] = InternalId[scan.scope.source]

(* "Every league failing -> PROVIDER_ERROR" (docs/decisions.md, D-036): the document of *)
(* a scan whose every request failed says so, and its job is not a success.             *)
TotalFailureIsReported ==
    scan # NoScan /\ scan.batch.coverage = "PROVIDER_ERROR" =>
        scan.collection = "PROVIDER_ERROR" /\ verdict # "SUCCESS"
===============================================================================
