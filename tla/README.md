# Betmaxxing: formal models

This directory holds TLA+ models of Betmaxxing, the TLC configurations that
check them on small instances, and TLAPS proofs about them. Paths below are
relative to the repository; the Python package is `src/betmaxxing`, and a path
without a leading directory is a path of that package.

## 1. The system

Betmaxxing collects bookmaker odds from a paid provider (The Odds API) or from
files, stores them, prices the selections with statistical models and proposes
the ones that pass a set of thresholds. A scheduler repeats this at fixed local
times and at milestones before each event. A user may run a *challenge* (a
sequence of compounding stakes) fed by these proposals. Several processes
(workers, the API, the command line) share one SQLite or PostgreSQL database.
They share nothing else in memory: every interaction is a transaction, a file
of the receipt store, or a request to the provider.

### 1.1 Components

| Component (source) | State | Operations | Interacts with |
|---|---|---|---|
| Occurrence ledger (`scheduler/ledger.py`) | one row per occurrence: state, attempts, claim token, lease, backoff | enqueue, materialise, claim_due, mark_succeeded / failed / deferred / skipped, renew_lease | every worker, by transactions |
| Workers (`scheduler/runner.py`, `planner.py`) | the claimed batch, a lease guard and its heartbeat thread | tick, discover_events, execute, outcome reports, budget deferral | ledger, acquisition, provider |
| Credit ledger (`providers/budget.py`) | a counter per UTC day, a row per attempted request | reserve, reconcile, release, verify_invariant | paid client |
| Paid client (`providers/the_odds_api/client.py`) | credits spent by the scan, the pinned day | get with its retries, settlement of failures | credit ledger, provider |
| Adapter (`providers/the_odds_api/provider.py`, `mapping.py`, `historical.py`) | none between collections | collect over the configured sports, classify coverage | paid client, acquisition |
| Event identity (`ingestion/identity.py`) | events, event_source_map, mapping reviews, schedule history, aliases | resolve, resolve_review, import_aliases | acquisition, operator |
| Acquisition (`engine/acquisition.py`) | the batch of a run and its remapping | collect, resolve, persist, classify the outcome | adapter, identity, storage, engine |
| Storage (`storage/`) | the tables | session_scope, upsert, insert | all |
| Challenge (`challenge/`, `api/routes/challenges.py`) | one versioned aggregate: state, bank, rungs | activate, propose, confirm, settle, stop; load and conditional save | API requests, acquisition |
| Activation harness (`activation.py`, `receipt_store.py`, `qualification.py` of the adapter) | directories of intents and receipts, a signing secret | plan, discover, core, additional, reconcile, quarantine, provision; campaign ledger | provider, file system |
| Scan and value engine (`engine/`), normalisation (`ingestion/normalize.py`) | none | pure functions of a batch | acquisition |
| Models and evaluation (`models_ml/`, `evaluation/`) | a registry table | numerical fitting and scoring | engine |
| Notifications (`providers/notifications/`) | an outbox table | claim, mark_sent | no caller yet |
| API, CLI, configuration, secret hygiene, migrations | none of their own | entry points | all |

### 1.2 What is hard, and what makes each component correct

*Scheduler.* Workers claim from the same rows; a lease may run out while its
holder works; a holder may die, pause, or answer late; heartbeats fail without
telling the worker; a refused budget must give an attempt back, exactly once; on
SQLite a claim selects without a lock and compares and swaps later. Correct
means: only the latest claim settles an occurrence, terminal rows are final,
attempts are bounded and accounted for, backoffs and live leases are honoured,
and an occurrence that was created is settled.

*Credits.* A reservation precedes each attempt, an answer may be lost after the
provider billed it, a process may die at any point, a scan may cross midnight,
and two workers compete for the last credits. Correct means: nothing billed is
missing from the ledger, the counters add up, and neither the daily ceiling nor
the scan's budget is passed.

*Identity.* Each event is resolved in its own transaction, reading before it
writes, so two runs may resolve one fixture at once; kick-offs move, aliases are
imported and an operator decides queued cases meanwhile; a run may end anywhere.
Correct means: a listing keeps its event for ever, stored prices and the JSON
copy agree with the map, no event is orphaned, two listings of one provider are
never one event, decisions stand, and every listing ends mapped or queued.

*Challenge.* Requests load a row and its steps by two SELECTs, compute, and save
on condition of a version. Correct means: each save is one atomic transition of
the progression, no rung is settled twice, the rungs chain from bank to bank,
floor and target bind, no loss raises a stake, and rounding loses nothing.

*Activation.* A paid step publishes an intent, sends a request, publishes a
receipt and removes the intent; each publication is a link, two fsyncs and an
unlink, and the process or the machine may die between any two. Reconciliations
and quarantines run beside it, and two operators may run the campaign at once. Correct
means: no request was made that neither an intent nor a receipt witnesses, every receipt
is signed with the key that survives, the gate and the status hide no bill of a settled
request, and the limits of the pre-registered campaign bind.

*Collection and scan.* One collection asks several competitions in turn under two
budgets that other processes draw on as well; answers may be lost, unreadable,
refused, empty, without the followed bookmaker, or partly malformed. Each scan stores,
then analyses, then reports, and the process may die in between. Correct means: an
absence of data is never mistaken for a fault nor a fault for an absence, no price that is
analysed vanishes without a code, every stored price has its event, and what is
published is fresh, allowed by its mode and within a rounding of the staking cap.

## 2. Modules

| Module | Models | Kind |
|---|---|---|
| `JobOutcomes` | what the scheduler promises of one occurrence | abstract specification |
| `JobLedger` | the rows of `scheduler/ledger.py`, one operator per statement | operations |
| `SchedulerRunner` | workers, heartbeats, crashes and the clock over `JobLedger` | composition |
| `SchedulerProofs` | the inductive invariant and the theorems | proofs |
| `BudgetLedger` | `providers/budget.py`, one operator per transaction | operations |
| `ApiClient` | clients, the provider that bills and midnight, over `BudgetLedger` | composition |
| `BudgetProofs` | invariant and theorems | proofs |
| `EventIdentity` | the five tables and their writes | operations |
| `Acquisition` | runs, the operator and moving kick-offs, over `EventIdentity` | composition |
| `IdentityProofs` | invariant and theorems | proofs |
| `Montante` | the progression, every transition atomic | abstract specification |
| `ChallengeStore` | concurrent requests on one stored progression | refinement of `Montante` |
| `ChallengeProofs` | invariant, refinement and theorems | proofs |
| `DurableRecord` | what the receipt directory promises of a document | abstract specification |
| `ReceiptStore` | the steps of `receipt_store.py` on a directory and a disk | operations |
| `AttemptTrail` | the activation commands around one request, over `ReceiptStore` | composition |
| `TrailProofs` | invariant, refinement of `DurableRecord` and theorems | proofs |
| `Qualification` | what a corpus of receipts says (`qualification.py`) | pure operators |
| `Campaign` | operators running discover, core, additional and reconcile, over `Qualification` | composition |
| `ActivationReport` | what `activation status` prints while `Campaign` goes on | composition |
| `CampaignProofs` | the inductive invariants: the chain, the manifest, the status, the spend | proofs |
| `OddsMapping` | vocabularies, the mapping of payloads, the rows of a file | pure operators |
| `OddsCollection` | one collection of the paid provider, under both budgets | operations |
| `ScanAnalysis` | books, settlement, the gate, quality, stakes | pure operators |
| `ScanRun` | discoveries, jobs and operators from source to scan document | composition |
| `ScanProofs` | the inductive invariants of a collection and of a run, and the theorems | proofs |
| `DataTheorems` | lemmas on finite sets and their sums, which the others cite | proofs |
| `MC...` | the instances TLC checks | instances |

The definitions marked "Mutated" or "As if" are plausible bugs. Nothing uses them: each can
take the place of the definition that follows it, to see that a property fails.

### 2.1 Scheduler

`JobLedger` has the columns of a row as functions of the occurrence
(`jobState`, `attempts`, `claimToken`, `leaseExpires`, `nextAttempt`). Three
history variables help to state properties: `claims` numbers the claims of a
row and doubles as its fresh token (the code draws an unguessable one; only
equality matters), `reportedBy` is the claim that reported last, `refunds`
counts the attempts given back. `Due` is the WHERE clause of `claim_due`,
`StillMatches` that of its compare-and-swap, `Owns` that of `_complete`.

`SchedulerRunner` gives each worker a program counter through `tick()`. Each
transaction is one action. On PostgreSQL (`RowLocks`), `SELECT ... FOR UPDATE
SKIP LOCKED` keeps the selected rows until the commit, so `ClaimLocked` selects
and updates in one step, and `ClaimPastLocked` skips rows another worker has
locked. On SQLite, `ClaimSelect` reads and `ClaimSwap` writes, with anything in
between. `EnterGuard`, `Heartbeat` and `FinishWork` are the life of a
`LeaseGuard`; the answer of the first renewal only sets `lost`, as in the code.
A clock that only moves forward is shared: the model assumes that the machines
agree on the time to within what lease and backoff tolerate.

### 2.2 Credits

`Charge`, `Reconcile` and `Release` are the transactions of
`ProviderBudgetLedger`, with the clamps at zero of `_adjust`. A row carries a
history field, `billed`: what the provider took for the attempt. In `ApiClient`,
`Reserve`, `Serve`, `LoseAnswer`, `NeverLeaves`, `NeverLeavesUncaught` and `Answer`
are the ways one attempt of `get()` can go; a client pins the day at
construction (`pinned`), whatever `today` has become. The provider bills any
amount up to the estimate, which is the published price of the request.

### 2.3 Identity

A listing is a pair (provider, provider_event_id). A resolution is two steps:
`BeginResolve` keeps what the SELECTs of the transaction saw (`reading`), and one
of the `Commit...` actions writes from it; others may commit in between, as under
READ COMMITTED, and under SQLite where a SELECT takes no transaction.
`CommitFails` is a unique constraint refusing the commit, which ends the run.
`PersistBatch` is `upsert` of every event of the batch and the insertion of its
prices. Competition, stage and season are compared alike, and one attribute
stands for the three.

### 2.4 Challenge

Money is in integer cents and odds in hundredths, so that `ToCents` rounds as
`to_cents` does. `Montante` has the five transitions a request can make; in
`ChallengeStore` a request is `LoadRow`, `LoadSteps`, then `Save` or `Abandon`, and
the refinement `Spec => LadderSpec` is the identity on `challenge`: a save that
passes the version test is one atomic transition, although the aggregate it
started from may have been read torn.

### 2.5 Receipt directory and attempts

`ReceiptStore` keeps what processes see (`visible`) and the set of directories a
power failure may leave (`disk`): the one of the last synchronisation and each one shown
since. `publish_bytes` is `Publish`, `LinkName`, `SyncDirectory`, `Published`, and may fail
at each of them (`PublicationFails`); a removal is `Remove`, `Unlink`, `Removed`; a
quarantine links the second name before it unlinks the first (`MoveAside`). `owed` is
what some caller was told is durable. File contents are synchronised before the link,
so a name holds a complete document or nothing. `AttemptTrail` conjoins these steps with
what each command does next: `LoadSecret` or `MintSecret`, `OpenIntent`, `Send`,
`WriteReceipt`, `ResolveOwn`, and the recovery commands. A kill keeps the directory, `Crash`
chooses among the directories of `disk`. Identifiers and keys are random in the code;
`FreshAttempt` and `FreshKey` say that they never collide.

### 2.6 Campaign

A receipt is a record of the fields the readings tell apart. `Qualification` translates
the structural contract of each phase (`Classify`), the criteria, the cost
categories, the campaign count (`CampaignState`, `CampaignConflict`) and the review gate
(`GateIsOpen`), as functions of a set of receipts and a number of intents. `Campaign` adds
the operators: `Audit` reads the receipts, `Preflight` the intents (two reads, with
anything in between), `Announce` checks the parent and publishes the intent, `Request` meets
one of the answers of `Replies`, `BudgetRefuses` is the shared ledger saying no, `File` and
`Resolve` end the step; `Stop` is a refusal or a death anywhere; `Reconcile` and `Tick`
interleave. Publications are atomic here: `AttemptTrail` shows what they are made of.

`ActivationReport` adds a report to that. `status` audits the receipts before anything else
(`AuditReceipts`, `activation.py:3610`) and counts the intents last (`BuildActivationState`, `:3368`), and
`receipts reconcile` judges its gate from the same two readings in the same order; commands
go on in between. Since a report may count the intents at any moment until it is printed, the properties
ask at every moment what it would say. The requests it answers for are those that had left when it
began and whose command was not then on its way to file a receipt (`Settled`): what
becomes of the others is section 5.

### 2.7 Collection and scan

`OddsMapping` translates the closed vocabularies and one payload, under both response
shapes, with the fields a refusal depends on; names and labels are left out.
`OddsCollection` is `collect()`, cut at each request: discovery of the competitions, the
grouped request of each, the additional markets of each event a followed bookmaker
quotes. A batch is selected from what came by `Filtered`, which keeps the indices a test
accepts, as a comprehension does. Between two requests another process may spend the day's credits (`OthersSpend`), in
particular between the read of `remaining_today` and the call it allows. `ScanAnalysis` is a
function of a batch. `ScanRun` is the process: a discovery or a scan begins, collects,
stores in one transaction, analyses and reports, each a step, and may die between
them; `Launch` is what every scan begins with, whichever source its settings and its file
give it. A scan ends in a document, in an exception that only the runner catches (`RunRaises`),
or with the process; a file with a line that is no number ends its import (`Parses`).
Amounts are in cents, and a stake is rounded to the nearest one, as `round(..., 2)` does
(a tie goes up here, and to a side that depends on binary fractions in the code).
The synthetic world of demo mode is a constant on the clock of the scan: an event
starts so long after it, a price was seen so long before. How a listing gets its internal id is `Acquisition`, which this module sees as a
function; what a call costs is `ApiClient`, which it sees as a charge against the budgets.

## 3. Runs

Where a run allows deadlock, behaviours stop when a bound is reached; `attempt_trail`
does not need to.

| Run | Instance | Shows |
|---|---|---|
| `runner_postgres` | RowLocks, prompt heartbeats | `LiveLeaseKept`, `BackoffRespected`, `AttemptsAccounted`, `UnlostMeansOwned` |
| `runner_sqlite` | compare-and-swap, heartbeats that fail | `OpenJobsMayRetry`, `OutcomeOfLatestClaim`, `TerminalIsFinal`, and `KeepsPromise`: the workers implement `JobOutcomes` |
| `runner_liveness` | fair workers, two crashes | `SettlesUnlessStranded` |
| `client_budget` | two workers, two days, one retry, one crash | `LedgerAddsUp`, `BilledIsCounted`, `WithinCeiling`, `WithinScanBudget`, `CallsEnd` |
| `acquisition` | two workers on both providers, a moved kick-off, an alias, an operator | `MappingNeverMoves`, `SnapshotsFollowMap`, `EveryEventIsListed`, `SourceIdsAreMapped`, `DecisionStands` |
| `acquisition_settles` | one fair worker per provider, a crash, contradictory aliases, an operator | `ProviderIsAuthoritative` (two listings of a provider share an event only if that was decided), `EveryListingIsSettled` |
| `challenge_ladder` | two requests, three rungs | `LadderSpec` (refinement), `LadderHolds`, `SettledOnce`, `WithinLimits`, `LossNeverRaisesStake` |
| `attempt_trail` | two commands, two attempts, two keys, a power failure | `Witnessed`, `OneKey`, `ResolvedOnce`, `KeepsRecord` (refinement of `DurableRecord`) |
| `campaign` | two operators and a report, three attempts, two events | `GateIsHonest`, `StatusIsHonest`, `ChainHolds`, `OneByOneNeverConflicts`, `SpendIsBounded` |
| `scan` | three deployments, two runs, one foreign charge | `CoverageIsHonest`, `StoreIsAttributed`, `NothingDropped`, `PublishedIsSafe`, `MilestoneFindsItsEvent` |
| `stranded` (violation) | three attempts, each may crash | `EveryJobSettles` fails |
| `total_failure` (violation) | one scan | `TotalFailureIsReported` fails |

No run checks a type invariant: those that are needed by a proof are proved
(`TypeCorrect`, `BudgetTypes`, `IdentityTypes`, `ChallengeTypes`, `TrailTypes`,
`CampaignTypes`, and the types in `ScansAreSound`), for every instance.

### 3.1 Bounds, and why they are enough

*Scheduler.* Two workers, two occurrences (a daily scan due at 0, a milestone
due at 1 whose event may move from 3 to 5), lease 2, backoff 1, two attempts, a
batch of two, a day of 3 ticks and a clock up to 3: within these a batch can
outlive its lease, a reclaimed job can be reported late, a row can fail and be
claimed again, and a deferral can cross midnight or meet its deadline. The
liveness run lets the clock reach 7, past every lease, backoff and reset of the
instance, and moves it only when no worker has anything to do; `stranded` has
one occurrence, three attempts and a clock up to 9.

*Credits.* Calls cost 2, a scan may spend 3 and a day 5: a second full-price
attempt passes the scan's budget and a third one of a day passes the ceiling. Bills
take every value from 0 to the estimate. Two calls, each with one retry, are enough for a retry to
meet a competitor, a lost answer, a crash and midnight.

*Identity.* Provider `p` lists one match; provider `q` lists two legs, on either
side of it and spelled otherwise, so that only an alias brings them together and
the match, half-way between the legs, is then ambiguous: every branch of
`resolve` is taken. There are as many internal ids as listings; since an id is
only drawn with a first mapping, no more are needed (they are symmetric). One
kick-off moves, over three instants with a tolerance of one.

*Challenge.* A bank of ten cents, a floor of 2 and a target of 16, half of the bank on
each rung, prices of 1.50 and 3.10, the second outside the accepted range [1.20, 3.00], and
no stop on the first loss: floor, target and the limit of rungs each end a progression,
stakes are odd and even, and roundings fall on both sides. A progression of three rungs
takes ten saves (activate, then propose, confirm and settle for each), which is what a
version bound of eleven allows; requests that lost a race or came after an earlier end
take none.

*Attempts.* Two processes are enough for two minted keys, a reconciliation beside a
step, and two reconciliations of one intent; two attempts for a second step under the
key of the first; one power failure at any point, since what it leaves is a directory that
the next one could also have left.

*Campaign.* One competition, which lists one of two events, so that a step on the other
must be refused; two additional markets, so that a call may be mapped in part; one core
observation opens the gate (the thresholds are constants), so that within three attempts
the step after the gate can be lost, reconciled or refused; a receipt that lives one
unit and a clock that moves once, so that a parent can be too old; ages 0 and -1, a
market updated after the command took its clock. A receipt of an earlier protocol is on
disk from the beginning. A report may begin in every state, and what it would say there is
checked in every one; commands go on beside it only if one was filing its receipt when it
began, before the clock moves, and until another command begins or a second receipt is
filed (`MCReports`): what the two readings can disagree about is a command that files its receipt
and removes its intent between them.

*Scan.* A competition of each sport and one that is not classified; payloads that are
empty, quoted, without the followed bookmaker, without a stamp, started, malformed, and
of doubtful orientation; a per-event answer with a period that is not collected. The
day's budget of 9 and the scan's of 7 lie around the cost of the calls, and another process
takes 3 or 8: a call is refused by either budget, before or after the read that
allowed it. One file ends its import on its first line. The other and the demo world contain each rejection the gate can give. Two
runs, so that a discovery can precede the scan of its milestone, and a crashed scan
another one. An instant passes between them.

### 3.2 Fairness

Only two kinds of assumption are made. A worker, client or run that is alive
takes its next step (weak fairness on its steps): the scheduler loop catches what
`tick` catches, every HTTP request has a timeout, sleeps are bounded, and a
crashed process is restarted, which is the same as a fresh start in these
models. And `SKIP LOCKED` does not pass over the same row at every claim (strong
fairness on `ClaimLocked`): a claiming transaction is short. The clock advances. Crashes,
losses, heartbeats, operators and kick-offs are never fair. Each liveness run also
bounds the crashes.

## 4. What is proved

The proofs hold for any number of workers, jobs, clients, listings, requests and
rungs, and for any bounds; TLC checks each property first on an instance. The
assumptions are the `ASSUME`s of the modules, which every instance satisfies.

*Scheduler* (`SchedulerProofs`). `IInv` strengthens the two
state properties with what the tokens mean: a row is running exactly when it has a
token, and the token is its latest claim (`TokensAreLatest`); tokens in a worker's
hands were issued (`HeldTokensIssued`); a selected row was claimable when it was read
(`SelectedMayRetry`); the attempts `mark_failed` read are still the row's while the
token is (`ReadIsCurrent`), which is what makes its two transactions safe. From it
follow `TypeCorrect`, `NoStaleOutcome`, `OpenIsClaimable`, `TerminalRowsAreFinal` and
`Implements` (the refinement of `JobOutcomes`) without any assumption on locks or
heartbeats. `LiveLeasesAreKept`, `BackoffsAreRespected` and `AttemptsAreAccounted`
assume `RowLocks`; `UnlostOwns` assumes `PromptHeartbeat` as well.

*Credits* (`BudgetProofs`). A reservation in flight is open, belongs to one client
and covers what was billed (`TicketIsOpen`, `TicketsDiffer`), and what a scan was
billed is what it counted but for that attempt (`ScanAccount`). Hence
`NothingIsUndercounted`, `CeilingBinds` and `ScanBudgetBinds`. `TheLedgerAddsUp` is the
audit of the code, `verify_invariant`, as a theorem: a day's sum is a fold over its rows, and
`DataTheorems` proves what a fold over a finite set does when one element is added, removed
or changed, from the fold's own definition. What the adjustment needs beyond that is that a
clamp at zero never bites: a counter is at least what the row being settled still owes,
since it is the sum of naturals, that one among them.

*Identity* (`IdentityProofs`). Besides the properties themselves: what a transaction
read is still true enough to be written (a mapped listing stays mapped, a row that
existed exists), and a target of a run is the mapping of its listing. The map only
grows, which gives `IdentityIsStable`; `NoPriceOnAGuess`, `CopyIsSound`,
`NoOrphanEvent` and `TheOperatorIsObeyed` follow from the invariant.
`ProvidersAreAuthoritative` assumes that each provider is collected by one worker at a time
(`OneCollector`), because the code guarantees nothing otherwise (section 5); its invariant
adds that the event a transaction matched still has no listing of that provider
(`FreshInv`), and the property excepts a listing the operator decided.

*Challenge* (`ChallengeProofs`). A request whose version is the stored one has loaded
the stored aggregate, even when it loaded it in two parts: versions never go back and
each change of the aggregate changes the version. `RequestsAreAtomic` is then the
refinement of `Montante`, and `TheLadderHolds`, `LimitsBind`, `RungsSettleOnce` and
`ChallengeTypes` are facts about the atomic progression, with lemmas on the rounding
(a rounded part of an amount is at most the amount). `LossesNeverRaiseTheStake` needs that
rounding keeps the order (`RoundingKeepsOrder`) and that a lost or half-lost rung takes from
the bank (`LossTakesFromTheBank`), the half that is rounded down twice included.

*Attempts* (`TrailProofs`). What a power failure may leave is part of the invariant:
the directory that is visible is one of those the disk may show (`VisibleOnDisk`), and
what was promised durable is in every one of them (`OwedKept`). The rest says what each
command is in the middle of and that it alone owns its attempt (`Shape`, `Ownership`):
nothing was said about the receipt of an attempt until it is published (`Unfiled`), an
intent is in every directory that may survive before the request leaves (`Opened`), and
what a removal is about to take away is accounted for by a receipt, or by the name it was
set aside under (`Covered`). `NoRequestIsForgotten`, `OneKeySigns` and
`IntentsResolveOnce` follow, and `TheDirectoryKeepsItsWord` is the refinement of
`DurableRecord`.

*Campaign* (`CampaignProofs`). An identifier is drawn once and belongs to one command
until its receipt is there (`Owned`, `Drawn`); a request that left has its intent or its
receipt (`Traced`); and what an attempt says of its request is what was billed, as soon
as its status establishes a cost (`Accounts`). An open gate has no intent and no paid
receipt of an unestablished cost, hence `TheGateIsHonest`; that a report reads the receipts earlier
is made good by what it remembers of that moment: a settled request had its receipt in that
reading, or still has an intent to be counted, since only a receipt takes an intent away. `FiveCreditsAreChained`
assumes that the receipts already on disk are chained (`HistoryIsChained`): `load_parent`
does not ask which protocol a parent is of, so an older receipt may be one.
The manifest has an invariant of its own, `ManifestInv`: what the guard read is carried to
the moment the receipt is filed. Nothing failed, the campaign still authorises this attempt
(`Fits`), and no receipt is later than it (`Latest`). The lemma `FilingFits` is the heart of
it: a receipt the guard allowed causes none of the seven conflicts of the count.
`CommandsOneByOneNeverConflict` follows. `TheStatusIsHonest` adds what an attempt tells of the
request of its identifier, whatever the answer was (`Tells`, `Told`): a status report sums
costs over receipts, and that sum is compared with one over requests through the injection
from a request to its receipt. `TheSpendIsBounded` rests on the same pairing (`SpendInv`):
commands run one by one have a receipt for every earlier request when the next one is
allowed, so the limits on receipts are limits on requests, and a bill past its ceiling, which
fails the campaign, is the last.

*Collection and scan* (`ScanProofs`). `CollectionInv` says of every event a collection was
told of that it has left its mark on the tally and on the batch, or is still in the answer in
hand (`NothingForgotten`, `AnswerInHand`), and of every mark that some event left it
(`NothingInvented`); failures are exactly the requests that were not answered
(`AnswersCounted`). `CoverageSaysWhatHappened` reads the classification off that tally: each
verdict then states something about all the answers, although the code keeps two booleans
and two counters. The lemmas below it say what an ingestion adds: the prices of an event that
is already in the batch are dropped only if the batch has their like, so an event with a
price never leaves it without any (`IngestedAdds`).

`RunInv` carries types and ids from the collection to the document: a batch in hand holds one
event per source id and prices of one instant (`ScanFits`), until `ResolveIdentity` puts each
event under its internal id and takes away the prices of those it cannot attribute
(`ResolvedIsAttributed`), hence `StoredPricesHaveTheirEvent`. That a batch holds one event per
id is what makes this true: the prices of an event are moved by looking its id up. For the
analysis, `NothingVanishes` follows a valid offer through deduplication, the choice of the
latest, the book and the gate, and finds it a candidate or coded; `CandidatesAreSafe` goes
back from a candidate to what the gate must have seen. Both hold for any prices that were
received together; the run's invariant says that a scan's prices were. `ScansDropNothing`,
`PublishedCandidatesAreSafe` and `MilestonesFindTheirEvent` follow for every document, those
of failed collections included (`EmptyIsSound`). That a milestone finds its event rests on
two facts of different actors: its scope was planned under an internal id (`Scopes`), and a
scan with a scope persists, so its batch is under internal ids too.

Every safety invariant and action property of a passing run is thus a theorem.

*Only model-checked.* Liveness (`SettlesUnlessStranded`, `CallsEnd`,
`EveryListingIsSettled`), which is out of the reach of the prover, and the two violations.

*What the proofs assume.* The models that a recursive definition would have made unprovable
are written without one: a selection from a sequence is a function on ranks, and `DataTheorems`
derives the sum of a finite set from the fixpoint that defines the fold. The vocabularies of
`OddsMapping` (`Sports`, `Periods`, `MarketTypes`, `EventStatuses`, `Providers`) are the
enumerations of the code. The world of a collection is any function to sequences of payloads; the
manual files are any sequences of rows; the demo world has one event per id, as it is
built; identities are any function at all.

## 5. Findings

Each of the first two is a run that ends in a counterexample against a sentence of the
repository.

- `stranded`: `claim_due` reclaims an expired row only under the attempt ceiling. A
  worker that dies during the last attempt leaves the row `RUNNING` for ever
  (`scheduler/ledger.py:315`, against `:17`). `SettlesUnlessStranded` shows
  it is the only exception.
- `total_failure`: a collection all of whose requests failed is classified like an
  empty one, since `_classify` never answers `PROVIDER_ERROR` (`engine/acquisition.py:372`,
  against `docs/decisions.md:407`), and its job succeeds. For the same reason
  `BudgetExceeded` never leaves `collect()`, and the deferral of a job whose budget is
  exhausted (`docs/decisions.md:516`) cannot happen with this provider.

Other departures were seen while modelling. No run states them, but the models
contain the behaviour, except where noted:

- `LeaseGuard.__enter__` ignores the answer of its renewal, so a job whose
  lease ran out while it waited in the batch is started although another worker
  runs it (`scheduler/runner.py:183`, against `tests/test_lease_heartbeat.py:1`). The
  late outcome is refused (`OutcomeOfLatestClaim`), the work is paid twice.
- A scan reserves on the day its client was built (`client.py:250`), so calls after
  midnight are charged to the day before and the provider's day may exceed the ceiling.
- Two workers of one provider that resolve two of its listings at once do not see each
  other's mapping, and no constraint on (provider, internal_id) keeps both from linking one
  event (`ingestion/identity.py:427`, against `:424`). `ProviderIsAuthoritative` is
  therefore checked, and proved, with one worker per provider.
- The decision of an operator is not asked that question at all: `resolve_review` links a
  listing to any event that exists (`identity.py:609`, against `:424`), one that another
  listing of the same provider already has included. `ProviderIsAuthoritative` excepts
  decided listings; and since both then have one internal id, `NothingDropped` and
  `MilestoneFindsItsEvent` count two merged listings as one event.
- Half of an odd stake is rounded down twice, and a half-won bet loses a cent
  (`challenge/montante.py:328`, against `:21`).
- `run_core` files `SCHEMA_MISMATCH` with a market it calls `NOT_RETURNED`
  (`activation.py:2770`), which the contract of its own receipts rejects
  (`qualification.py:1063`): an honest receipt is then counted as malformed.
- `BudgetExceeded` keeps `reached_provider` true (`providers/base.py:42`), so a call the
  ledger refused leaves a receipt of a consumption (`BudgetRefuses`).
- The clock of an attempt is taken before its request: a market updated in between has a
  negative age, and its receipt is malformed (`activation.py:2087`).
- A report reads the receipts, then the intents (`activation.py:3610`, then `:3368`). A command that
  files its receipt and removes its intent in between is in neither reading: `status` can
  publish `NO_NETWORK_ATTEMPTED`, which "asserts that nothing was attempted" (`:3297`), and the
  gate can open, beside no unresolved intent, although a paid request had left before the report
  began. TLC finds this in eight states when `StatusIsHonest` is asked of every request of
  `report.left`; it and `GateIsHonest` are therefore stated, and proved, of the requests that
  were settled at that moment. Counting the intents first would close the window.
- The staking cap is applied to a fraction and the amount rounded afterwards: 1 % of a bankroll of 10.60
  is a suggestion of 0.11 (`engine/staking.py:123`), although the cap "always wins" (`:7`).
  `PublishedIsSafe` allows the half cent.
- The preflight reads the receipts, then the intents, then publishes: two operators can
  both pass it. `OneByOneNeverConflicts` and `SpendIsBounded` are stated for commands that
  run one by one.
- A command that dies between its intent and its request blocks the campaign until
  the intent is removed by hand, since no receipt will ever match it; a receipt of a
  `COST_MISMATCH` does not match its intent either (`_matches_intent`).
- `quarantine --force` of the failing receipt un-aborts an aborted campaign (outside
  `Campaign`), and a discovery whose second request cannot connect records that the
  provider was not reached, although the first one was served.
- `COVERAGE_MISSING` is also reported when the only events received had started, lay
  outside the window or were malformed, although a followed bookmaker quoted
  them (`provider.py:308`).
- A quarantined price is counted and its reason is not kept with the scan
  (`ingestion/normalize.py:105`, against `:12`); an event of the window without a price, or outside the
  scope of a milestone, gets no code either. `NothingDropped` does not ask for one.
- A line of a manual file that is no number aborts the import: `decimal.InvalidOperation`
  is not the `ValueError` that quarantines a row (`csv_odds.py:103`, against `:67`).
- A payload of another shape (an event that is no object) raises past `ProviderError`: the job is
  retried without a document, and a discovery ends its tick (`provider.py:258`, `RunRaises`).
- A challenge compares its amounts before rounding them to cents (`montante.py:103-112`): one of 10.00 with
  a target of 10.004 starts at its target, and goes on until a first result.
- The verdict `DATA_STALE` of a collection cannot be reached: a price is found stale only after it was
  priced. The daily exposure ceiling sees one candidate at a time: `already_exposed` is
  never passed. Each tick's discovery is a full paid collection (`runner.py:261`).
- On SQLite the compare-and-swap tests state and token only (`ledger.py:349-353`). A
  lease renewed between the SELECT and the UPDATE is taken over although it is
  alive, and a row that failed again in between is claimed before its new backoff,
  from an outdated count of attempts. `LiveLeaseKept`, `BackoffRespected` and
  `AttemptsAccounted` are therefore stated with row locks only.
- `upsert` replaces `source_ids` and the kick-off by what the batch knows
  (`storage/repositories.py:58-61`), so the JSON copy may miss a link that the map
  holds ("so they cannot diverge", `docs/decisions.md:564`), and a kick-off may change
  without a history row. `SourceIdsAreMapped` states the direction that holds.
- A review whose listing is later mapped automatically stays open, although
  `resolve_review` then refuses every decision on it (`identity.py:603`).
- A void on the last allowed rung ends the progression (`montante.py:375`), although
  neutral outcomes "do not consume a step" (`montante.py:43`).
- `httpx.InvalidURL` passes both except clauses of `get()` and leaves its reservation
  charged (`client.py:287`), although `docs/source-matrix.md:299` lists it as released.

## 6. Not modelled

`PROJECT.json` lists every component with its reason. In short: the de-vig methods, the
models, their intervals and metrics compute on floating point, and what a model predicts is a
constant here; the CLI, the API formatting and the secret scanner keep no state; the
notification outbox has no caller; migrations run once, alone. Left out of the
modelled parts: the validation of alias lines, `cancel` and `delete` of a challenge (no
caller), the documents that scans insert and nothing reads back to decide, free calls of the
client, the length of sleeps, file descriptors, permissions and symbolic links of the
receipt directory, and all wording. `Campaign` leaves quarantine to `AttemptTrail`, which
leaves to it which step is authorised.

## 7. Plan

What would add most next:

1. A composition of `ScanRun` with the transactions of `Acquisition`, in which the internal
   id of a listing may change from undetermined to mapped between two runs.
2. A composition of `Campaign` with the directory of `ReceiptStore`, so that a quarantine
   may un-abort a campaign while another command is under way.
3. A theorem that `Acquisition` gives `ScanRun` what it takes for granted, a listing's
   internal id as a function: `IdentityIsStable` says that it never changes once known, and the
   composition of point 1 would use it.
4. Type invariants of `OddsMapping` and `ScanAnalysis` for the documents themselves: the
   candidates and the rejections are proved sound, their other fields are not typed.
