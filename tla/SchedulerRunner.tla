--------------------------- MODULE SchedulerRunner ---------------------------
(***************************************************************************)
(* The scheduler processes (scheduler/runner.py) over the shared ledger.   *)
(* Each worker repeats tick(): discover and materialise, claim a batch,    *)
(* then for each claimed job hold a LeaseGuard around the work and report  *)
(* the outcome.  Every transaction is one step, so workers, heartbeats,    *)
(* crashes and the clock interleave between any two of them.               *)
(***************************************************************************)
EXTENDS JobLedger

CONSTANTS
  Worker,
  NoJob,          \* "no job being run", not a member of Job
  Milestone,      \* the occurrences discovered from provider events
  Deadline,       \* the instants at which each job may lose its value
  DayLength,      \* the budget window, a UTC day
  Jitter,         \* next_budget_reset's per-job delay after midnight
  BatchLimit,     \* claim_due's limit
  RowLocks,       \* FOR UPDATE SKIP LOCKED: TRUE on PostgreSQL, FALSE on SQLite
  PromptHeartbeat,\* assume every heartbeat reaches the ledger in time
  SlowClock,      \* assume the clock moves only when no worker can
  MaxCrashes,     \* bound on the crashes of a behaviour
  MaxTime         \* bound on the clock

ASSUME RunnerAssumption ==
  /\ NoJob \notin Job
  /\ Milestone \subseteq Job
  /\ Deadline \in [Job -> SUBSET Nat]
  /\ DayLength \in Nat \ {0}
  /\ Jitter \in [Job -> Nat]
  /\ BatchLimit \in Nat \ {0}
  /\ RowLocks \in BOOLEAN
  /\ PromptHeartbeat \in BOOLEAN
  /\ SlowClock \in BOOLEAN
  /\ MaxCrashes \in Nat
  /\ MaxTime \in Nat

VARIABLES
  pc,       \* where each worker is in tick()
  moment,   \* the clock reading its current function works with, 0 if none
  picked,   \* rows claim_due selected and has not written yet (SQLite)
  seen,     \* their snapshots
  held,     \* the token of each claimed job not yet dealt with, else NoToken
  current,  \* the job being run
  lost,     \* LeaseGuard._lost
  beating,  \* the heartbeat thread is alive
  outcome,  \* what the work returned
  tries,    \* the attempts mark_failed read
  crashes   \* crashes so far

workerVars == <<pc, moment, picked, seen, held, current, lost, beating,
                outcome, tries, crashes>>
vars       == <<clock, ledgerVars, workerVars>>

Stages   == {"idle", "planning", "claiming", "batch", "executing", "reporting",
             "failing"}
Outcomes == {"SUCCESS", "RETRYABLE_FAILURE", "FINAL_FAILURE",
             "BUDGET_EXHAUSTED"}
NoOutcome == "NONE"
Blank  == [state |-> "ABSENT", token |-> NoToken, attempts |-> 0]
AllBlank == [j \in Job |-> Blank]
NoClaims == [j \in Job |-> NoToken]

Init ==
  /\ clock = 0
  /\ LedgerInit
  /\ pc      = [w \in Worker |-> "idle"]
  /\ moment  = [w \in Worker |-> 0]
  /\ picked  = [w \in Worker |-> {}]
  /\ seen    = [w \in Worker |-> AllBlank]
  /\ held    = [w \in Worker |-> NoClaims]
  /\ current = [w \in Worker |-> NoJob]
  /\ lost    = [w \in Worker |-> FALSE]
  /\ beating = [w \in Worker |-> FALSE]
  /\ outcome = [w \in Worker |-> NoOutcome]
  /\ tries   = [w \in Worker |-> 0]
  /\ crashes = 0

Goto(w, stage) == pc' = [pc EXCEPT ![w] = stage]

---------------------------------------------------------------------------
(***************************************************************************)
(* Planning and claiming                                                   *)
(***************************************************************************)

DueRows(now) == { j \in Job : Due(j, now) }

\* A tick would create a daily occurrence or claim a row.
WorkToDo ==
  \/ DueRows(clock) # {}
  \/ \E j \in Job \ Milestone : InWindow(j, clock) /\ jobState[j] = "ABSENT"

\* tick() begins; `moment` is the planning instant, fixed until the claim.
StartTick(w) ==
  /\ pc[w] = "idle"
  /\ SlowClock => WorkToDo
  /\ Goto(w, "planning")
  /\ moment' = [moment EXCEPT ![w] = clock]
  /\ UNCHANGED <<clock, ledgerVars, picked, seen, held, current, lost, beating,
                 outcome, tries, crashes>>

\* One INSERT of materialise().
Materialise(w, j) ==
  /\ pc[w] = "planning"
  /\ InWindow(j, moment[w])
  /\ Enqueue(j)
  /\ UNCHANGED <<clock, workerVars>>

\* materialise() has tried every daily occurrence of its window.  Milestones
\* come from event discovery, which may be unavailable or see fewer events.
Planned(w) ==
  /\ pc[w] = "planning"
  /\ \A j \in Job \ Milestone :
       InWindow(j, moment[w]) => jobState[j] # "ABSENT"

\* The batch this worker now owns, one fresh token per row it won.
TakeBatch(w, won) ==
  /\ held' = [held EXCEPT ![w] =
                [j \in Job |-> IF j \in won THEN claims[j] + 1 ELSE NoToken]]
  /\ moment' = [moment EXCEPT ![w] = 0]
  /\ Goto(w, "batch")

\* claim_due on PostgreSQL: the selected rows stay locked until the commit, so
\* selection and update are one step.
ClaimFrom(w, rows) ==
  /\ RowLocks
  /\ Planned(w)
  /\ \E won \in Window(rows, BatchLimit) :
       /\ ClaimRows(won, [j \in Job |-> Snapshot(j)], moment[w])
       /\ TakeBatch(w, won)
  /\ UNCHANGED <<clock, picked, seen, current, lost, beating, outcome, tries,
                 crashes>>

ClaimLocked(w) == ClaimFrom(w, DueRows(moment[w]))

\* SKIP LOCKED passes over the rows another claiming worker has locked, even if
\* that worker's transaction then aborts.
ClaimPastLocked(w) ==
  /\ \E v \in Worker \ {w} : pc[v] = "planning"
  /\ \E skipped \in SUBSET DueRows(moment[w]) \ {{}} :
       ClaimFrom(w, DueRows(moment[w]) \ skipped)

\* claim_due on SQLite: the SELECT takes no lock ...
ClaimSelect(w) ==
  /\ ~RowLocks
  /\ Planned(w)
  /\ \E rows \in Window(DueRows(moment[w]), BatchLimit) :
       /\ picked' = [picked EXCEPT ![w] = rows]
       /\ seen' = [seen EXCEPT ![w] =
                     [j \in Job |-> IF j \in rows THEN Snapshot(j) ELSE Blank]]
  /\ Goto(w, "claiming")
  /\ UNCHANGED <<clock, ledgerVars, moment, held, current, lost, beating,
                 outcome, tries, crashes>>

\* ... and the first UPDATE takes the database's write lock until the commit.
ClaimSwap(w) ==
  /\ pc[w] = "claiming"
  /\ LET won == { j \in picked[w] : StillMatches(j, seen[w][j]) }
     IN  /\ ClaimRows(won, seen[w], moment[w])
         /\ TakeBatch(w, won)
  /\ picked' = [picked EXCEPT ![w] = {}]
  /\ seen'   = [seen EXCEPT ![w] = AllBlank]
  /\ UNCHANGED <<clock, current, lost, beating, outcome, tries, crashes>>

---------------------------------------------------------------------------
(***************************************************************************)
(* Running one job under its LeaseGuard                                    *)
(***************************************************************************)

Pending(w) == { j \in Job : held[w][j] # NoToken }

\* Mutated EnterGuard: no renewal before the work starts.
EnterWithoutRenewal(w, j) ==
  /\ pc[w] = "batch"
  /\ j \in Pending(w)
  /\ \A k \in Pending(w) : ScheduledFor[j] <= ScheduledFor[k]
  /\ lost'    = [lost EXCEPT ![w] = FALSE]
  /\ current' = [current EXCEPT ![w] = j]
  /\ beating' = [beating EXCEPT ![w] = TRUE]
  /\ Goto(w, "executing")
  /\ UNCHANGED <<clock, ledgerVars, moment, picked, seen, held, outcome, tries,
                 crashes>>

\* LeaseGuard.__enter__: one synchronous renewal, whose answer decides only the
\* `lost` flag; the heartbeat thread and the work start in every case.
EnterGuard(w, j) ==
  /\ pc[w] = "batch"
  /\ j \in Pending(w)
  /\ \A k \in Pending(w) : ScheduledFor[j] <= ScheduledFor[k]
  /\ \/ /\ RenewLease(j, held[w][j], clock)
        /\ lost' = [lost EXCEPT ![w] = FALSE]
     \/ /\ ~Owns(j, held[w][j])
        /\ lost' = [lost EXCEPT ![w] = TRUE]
        /\ UNCHANGED ledgerVars
     \/ /\ ~PromptHeartbeat             \* the ledger could not be reached
        /\ lost' = [lost EXCEPT ![w] = FALSE]
        /\ UNCHANGED ledgerVars
  /\ current' = [current EXCEPT ![w] = j]
  /\ beating' = [beating EXCEPT ![w] = TRUE]
  /\ Goto(w, "executing")
  /\ UNCHANGED <<clock, moment, picked, seen, held, outcome, tries, crashes>>

Running(w) == pc[w] = "executing"
MyToken(w) == held[w][current[w]]
OwnsCurrent(w) == Owns(current[w], MyToken(w))

\* One turn of the heartbeat thread.  It ends at the first refusal, and also at
\* the first error, which it does not report to the worker.
Heartbeat(w) ==
  /\ Running(w)
  /\ beating[w]
  /\ \/ /\ RenewLease(current[w], MyToken(w), clock)
        /\ UNCHANGED <<lost, beating>>
     \/ /\ ~OwnsCurrent(w)
        /\ lost'    = [lost EXCEPT ![w] = TRUE]
        /\ beating' = [beating EXCEPT ![w] = FALSE]
        /\ UNCHANGED ledgerVars
     \/ /\ ~PromptHeartbeat
        /\ beating' = [beating EXCEPT ![w] = FALSE]
        /\ UNCHANGED <<ledgerVars, lost>>
  /\ UNCHANGED <<clock, pc, moment, picked, seen, held, current, outcome, tries,
                 crashes>>

\* The worker is done with its current job, whatever became of it.
NextJob(w) ==
  /\ moment'  = [moment EXCEPT ![w] = 0]
  /\ held'    = [held EXCEPT ![w][current[w]] = NoToken]
  /\ current' = [current EXCEPT ![w] = NoJob]
  /\ lost'    = [lost EXCEPT ![w] = FALSE]
  /\ outcome' = [outcome EXCEPT ![w] = NoOutcome]
  /\ tries'   = [tries EXCEPT ![w] = 0]
  /\ Goto(w, "batch")

\* execute() returned or raised, and __exit__ stopped and joined the thread.
\* A raise is reported as a retryable failure even when the lease is lost; a
\* result obtained without the lease is dropped.
FinishWork(w) ==
  /\ Running(w)
  /\ beating' = [beating EXCEPT ![w] = FALSE]
  /\ \/ \E result \in Outcomes :
          /\ ~lost[w] \/ result = "RETRYABLE_FAILURE"
          /\ outcome' = [outcome EXCEPT ![w] = result]
          /\ moment'  = [moment EXCEPT ![w] = clock]
          /\ Goto(w, "reporting")
          /\ UNCHANGED <<held, current, lost, tries>>
     \/ /\ lost[w]
        /\ NextJob(w)
  /\ UNCHANGED <<clock, ledgerVars, picked, seen, crashes>>

---------------------------------------------------------------------------
(***************************************************************************)
(* Reporting.  Each report tolerates StaleLeaseError: the worker then goes *)
(* on to its next job without having changed the row.                      *)
(***************************************************************************)

Report(w, update) ==
  /\ \/ update
     \/ ~OwnsCurrent(w) /\ UNCHANGED ledgerVars
  /\ NextJob(w)
  /\ UNCHANGED <<clock, picked, seen, beating, crashes>>

AckSuccess(w) ==
  /\ pc[w] = "reporting"
  /\ outcome[w] = "SUCCESS"
  /\ Report(w, MarkSucceeded(current[w], MyToken(w)))

\* mark_failed's first transaction reads the attempts of the row.
ReadAttempts(w) ==
  /\ pc[w] = "reporting"
  /\ outcome[w] \in {"RETRYABLE_FAILURE", "FINAL_FAILURE"}
  /\ tries' = [tries EXCEPT ![w] = attempts[current[w]]]
  /\ Goto(w, "failing")
  /\ UNCHANGED <<clock, ledgerVars, moment, picked, seen, held, current, lost,
                 beating, outcome, crashes>>

RecordFailure(w) ==
  /\ pc[w] = "failing"
  /\ Report(w, MarkFailed(current[w], MyToken(w), tries[w],
                          outcome[w] = "RETRYABLE_FAILURE", moment[w]))

\* next_budget_reset: the next midnight strictly after `now`, plus the jitter.
NextBudgetReset(j, now) == ((now \div DayLength) + 1) * DayLength + Jitter[j]

\* _defer_for_budget: wait for the reset unless the job's value ends first.  The
\* deadline of a milestone is its event's start, which a refresh can move.
DeferForBudget(w) ==
  /\ pc[w] = "reporting"
  /\ outcome[w] = "BUDGET_EXHAUSTED"
  /\ LET j == current[w]
         reset == NextBudgetReset(j, moment[w])
     IN  \E deadline \in Deadline[j] :
           Report(w, IF deadline <= reset
                       THEN MarkSkipped(j, MyToken(w))
                       ELSE MarkDeferred(j, MyToken(w), reset))

\* The batch is exhausted; the worker sleeps until its next tick.
EndTick(w) ==
  /\ pc[w] = "batch"
  /\ Pending(w) = {}
  /\ Goto(w, "idle")
  /\ UNCHANGED <<clock, ledgerVars, moment, picked, seen, held, current, lost,
                 beating, outcome, tries, crashes>>

---------------------------------------------------------------------------
(***************************************************************************)
(* The environment                                                         *)
(***************************************************************************)

\* The process dies, or an exception no handler of tick() catches ends the
\* pass: nothing in memory survives and no lease is released.
Crash(w) ==
  /\ pc[w] # "idle"
  /\ crashes < MaxCrashes
  /\ crashes' = crashes + 1
  /\ Goto(w, "idle")
  /\ moment'  = [moment EXCEPT ![w] = 0]
  /\ picked'  = [picked EXCEPT ![w] = {}]
  /\ seen'    = [seen EXCEPT ![w] = AllBlank]
  /\ held'    = [held EXCEPT ![w] = NoClaims]
  /\ current' = [current EXCEPT ![w] = NoJob]
  /\ lost'    = [lost EXCEPT ![w] = FALSE]
  /\ beating' = [beating EXCEPT ![w] = FALSE]
  /\ outcome' = [outcome EXCEPT ![w] = NoOutcome]
  /\ tries'   = [tries EXCEPT ![w] = 0]
  /\ UNCHANGED <<clock, ledgerVars>>

\* A live heartbeat renews before its lease runs out.
BeatsInTime ==
  \A w \in Worker :
    Running(w) /\ beating[w] /\ OwnsCurrent(w) => clock + 1 < leaseExpires[current[w]]

Tick ==
  /\ clock < MaxTime
  /\ PromptHeartbeat => BeatsInTime
  /\ SlowClock => ~WorkToDo /\ \A w \in Worker : pc[w] = "idle"
  /\ clock' = clock + 1
  /\ UNCHANGED <<ledgerVars, workerVars>>

WorkerStep(w) ==
  \/ StartTick(w)
  \/ \E j \in Job : Materialise(w, j)
  \/ ClaimLocked(w)
  \/ ClaimPastLocked(w)
  \/ ClaimSelect(w)
  \/ ClaimSwap(w)
  \/ \E j \in Job : EnterGuard(w, j)
  \/ Heartbeat(w)
  \/ FinishWork(w)
  \/ AckSuccess(w)
  \/ ReadAttempts(w)
  \/ RecordFailure(w)
  \/ DeferForBudget(w)
  \/ EndTick(w)

Next == Tick \/ \E w \in Worker : WorkerStep(w) \/ Crash(w)

Spec == Init /\ [][Next]_vars

\* Workers never stop inside a tick, work ends (the provider client bounds every
\* request with a timeout), and time passes.  A crashed worker is restarted.  Rows
\* are not locked by other workers at every single claim.
Fairness ==
  /\ WF_vars(Tick)
  /\ \A w \in Worker :
       /\ WF_vars(StartTick(w))
       /\ WF_vars(\E j \in Job : Materialise(w, j))
       /\ SF_vars(ClaimLocked(w))
       /\ WF_vars(ClaimSelect(w))
       /\ WF_vars(ClaimSwap(w))
       /\ WF_vars(\E j \in Job : EnterGuard(w, j))
       /\ WF_vars(FinishWork(w))
       /\ WF_vars(AckSuccess(w))
       /\ WF_vars(ReadAttempts(w))
       /\ WF_vars(RecordFailure(w))
       /\ WF_vars(DeferForBudget(w))
       /\ WF_vars(EndTick(w))

FairSpec == Spec /\ Fairness

---------------------------------------------------------------------------
(***************************************************************************)
(* Properties                                                              *)
(***************************************************************************)

TypeOK ==
  /\ clock \in Nat
  /\ jobState \in [Job -> JobStates]
  /\ attempts \in [Job -> 0..MaxAttempts]
  /\ claimToken \in [Job -> Nat]
  /\ leaseExpires \in [Job -> Int]
  /\ nextAttempt \in [Job -> Int]
  /\ reportedBy \in [Job -> Nat]
  /\ claims \in [Job -> Nat]
  /\ refunds \in [Job -> Nat]
  /\ pc \in [Worker -> Stages]
  /\ moment \in [Worker -> Nat]
  /\ picked \in [Worker -> SUBSET Job]
  /\ seen \in [Worker -> [Job -> Snapshots]]
  /\ held \in [Worker -> [Job -> Nat]]
  /\ current \in [Worker -> Job \cup {NoJob}]
  /\ lost \in [Worker -> BOOLEAN]
  /\ beating \in [Worker -> BOOLEAN]
  /\ outcome \in [Worker -> Outcomes \cup {NoOutcome}]
  /\ tries \in [Worker -> Nat]
  /\ crashes \in Nat

\* The outcome a row shows (state, error, scan_id) is the one its latest claim
\* reported: a worker that lost its lease speaks for nobody (_complete).
OutcomeOfLatestClaim ==
  \A j \in Job :
    jobState[j] # "RUNNING" => reportedBy[j] = claims[j]

\* No row waits for an attempt it may not have: a job still open is under the
\* attempt ceiling, although mark_failed decides "final" from a value it read in
\* an earlier transaction (mark_failed, mark_deferred).
OpenJobsMayRetry ==
  \A j \in Job :
    jobState[j] \notin Terminal \cup {"RUNNING"} => attempts[j] < MaxAttempts

\* Every claim is either charged as an attempt or was given back by a budget
\* refusal: deferring a job any number of times costs it no attempt.
AttemptsAccounted ==
  \A j \in Job : attempts[j] + refunds[j] = claims[j]

\* SUCCEEDED, FAILED_FINAL and SKIPPED_BUDGET rows are never touched again, not
\* by a late report, nor by a renewal, nor by a claim working from an old read.
TerminalIsFinal ==
  [][\A j \in Job :
       jobState[j] \in Terminal =>
         /\ jobState'[j] = jobState[j]
         /\ attempts'[j] = attempts[j]
         /\ reportedBy'[j] = reportedBy[j]
         /\ claims'[j] = claims[j]]_vars

\* A running job changes hands only once its lease has expired
\* (claim_due: "RUNNING with a genuinely expired lease").
LiveLeaseKept ==
  [][\A j \in Job :
       jobState[j] = "RUNNING" /\ claims'[j] # claims[j] =>
         leaseExpires[j] <= clock]_vars

\* A failed job is not claimed before its backoff has elapsed, nor a deferred one
\* before the budget reset it waits for (claim_due: "whose backoff has elapsed").
BackoffRespected ==
  [][\A j \in Job :
       jobState[j] \in {"FAILED_RETRYABLE", "DEFERRED"} /\ claims'[j] # claims[j] =>
         nextAttempt[j] <= clock]_vars

\* If heartbeats reach the ledger in time, a worker whose guard reports no loss
\* does own the job it is executing: `lost` is a sound answer (LeaseGuard.lost).
UnlostMeansOwned ==
  \A w \in Worker : Running(w) /\ ~lost[w] => OwnsCurrent(w)

\* The last attempt of the job ended in a crash: no report came, none will.
Stranded(j) ==
  /\ jobState[j] = "RUNNING"
  /\ attempts[j] = MaxAttempts
  /\ \A w \in Worker : held[w][j] # claimToken[j]

\* Every occurrence that was created ends in a terminal state, or is stranded.
SettlesUnlessStranded ==
  \A j \in Job :
    jobState[j] = "PENDING" ~> jobState[j] \in Terminal \/ Stranded(j)

\* Every occurrence that was created ends in a terminal state: "a crashed worker
\* does not strand a job" (ledger.py).
EveryJobSettles ==
  \A j \in Job : jobState[j] = "PENDING" ~> jobState[j] \in Terminal

---------------------------------------------------------------------------
(***************************************************************************)
(* The inductive invariant behind the safety properties                    *)
(***************************************************************************)

TokensAreLatest ==
  \A j \in Job :
    /\ jobState[j] = "RUNNING" => claimToken[j] = claims[j]
    /\ jobState[j] = "RUNNING" <=> claimToken[j] # NoToken

\* A token a worker holds was handed out before any token still to come.
HeldTokensIssued ==
  \A w \in Worker, j \in Job : held[w][j] <= claims[j]

\* A row read before its compare-and-swap was open to a claim when it was read.
SelectedMayRetry ==
  \A w \in Worker : \A j \in picked[w] :
    seen[w][j].state \in Claimable /\ seen[w][j].attempts < MaxAttempts

WorksOnClaim ==
  \A w \in Worker :
    pc[w] \in {"executing", "reporting", "failing"} =>
      current[w] \in Job /\ MyToken(w) # NoToken

\* The attempts mark_failed read are still those of the row while its token is.
ReadIsCurrent ==
  \A w \in Worker :
    pc[w] = "failing" /\ OwnsCurrent(w) => tries[w] = attempts[current[w]]

PlansInThePast ==
  \A w \in Worker : moment[w] <= clock

\* No token is held twice.
OneHolderPerToken ==
  \A v, w \in Worker, j \in Job :
    held[v][j] # NoToken /\ held[v][j] = held[w][j] => v = w

\* While heartbeats arrive in time, work not known to be lost has a live lease.
UnlostIsAlive ==
  \A w \in Worker :
    Running(w) /\ ~lost[w] =>
      beating[w] /\ OwnsCurrent(w) /\ leaseExpires[current[w]] > clock

IInv ==
  /\ TypeOK
  /\ TokensAreLatest
  /\ HeldTokensIssued
  /\ SelectedMayRetry
  /\ WorksOnClaim
  /\ ReadIsCurrent
  /\ PlansInThePast
  /\ OutcomeOfLatestClaim
  /\ OpenJobsMayRetry

---------------------------------------------------------------------------
\* The ledger keeps the promise of JobOutcomes: tokens are its epochs.
PhaseOf(s) ==
  CASE s = "ABSENT" -> "absent"
    [] s \in {"PENDING", "FAILED_RETRYABLE", "DEFERRED"} -> "open"
    [] s = "RUNNING" -> "held"
    [] OTHER -> s

Promise == INSTANCE JobOutcomes WITH
  Occurrence <- Job,
  phase      <- [j \in Job |-> PhaseOf(jobState[j])],
  epoch      <- claims,
  verdictBy  <- reportedBy

\* Every behaviour of the workers is one the promise allows.
KeepsPromise == Promise!OutcomesSpec
=============================================================================
