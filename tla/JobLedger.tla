----------------------------- MODULE JobLedger -----------------------------
(***************************************************************************)
(* The durable occurrence table of the scheduler (scheduler/ledger.py):    *)
(* one row per (job_type, scheduled_for, scope_id).  This module holds the *)
(* table and the ledger's transactions, one operator per method; the       *)
(* workers that call them are in module SchedulerRunner.                   *)
(*                                                                         *)
(* A fencing token is a random uuid in the code, never reused.  Here the   *)
(* n-th claim of a row hands out the token n, and claims[j] counts the     *)
(* claims a row has known: a history variable no transition reads except   *)
(* to issue a fresh token.                                                 *)
(***************************************************************************)
EXTENDS Integers, FiniteSets

CONSTANTS
  Job,           \* the occurrences that may exist
  ScheduledFor,  \* the instant each occurrence is due
  Lease,         \* DEFAULT_LEASE
  Backoff,       \* DEFAULT_RETRY_BACKOFF
  MaxAttempts,   \* MAX_ATTEMPTS
  CatchupGrace,  \* DEFAULT_CATCHUP_GRACE
  Horizon        \* how far ahead occurrences are created

ASSUME LedgerAssumption ==
  /\ ScheduledFor \in [Job -> Nat]
  /\ Lease \in Nat \ {0}
  /\ Backoff \in Nat
  /\ MaxAttempts \in Nat \ {0}
  /\ CatchupGrace \in Nat
  /\ Horizon \in Nat

VARIABLES
  clock,         \* the wall clock every worker reads
  jobState,      \* row.state, "ABSENT" while the occurrence is not inserted
  attempts,      \* row.attempts
  claimToken,    \* row.claim_token, NoToken for NULL
  leaseExpires,  \* row.lease_expires_at, NoTime for NULL
  nextAttempt,   \* row.next_attempt_at, NoTime for NULL
  reportedBy,    \* the token whose report wrote finished_at, error and scan_id
  claims,        \* history: how many tokens were handed out for the row
  refunds        \* history: how many of those claims the budget refused

rowVars    == <<jobState, attempts, claimToken, leaseExpires, nextAttempt,
                reportedBy>>
ledgerVars == <<rowVars, claims, refunds>>

NoToken == 0
\* A NULL instant.  The clock starts at 0, so a NULL next_attempt_at always
\* reads as reached; a NULL lease is excluded by a conjunct of its own.
NoTime == -1

Claimable == {"PENDING", "RUNNING", "FAILED_RETRYABLE", "DEFERRED"}
Terminal  == {"SUCCEEDED", "FAILED_FINAL", "SKIPPED_BUDGET"}
JobStates == {"ABSENT"} \cup Claimable \cup Terminal

LedgerInit ==
  /\ jobState     = [j \in Job |-> "ABSENT"]
  /\ attempts     = [j \in Job |-> 0]
  /\ claimToken   = [j \in Job |-> NoToken]
  /\ leaseExpires = [j \in Job |-> NoTime]
  /\ nextAttempt  = [j \in Job |-> NoTime]
  /\ reportedBy   = [j \in Job |-> NoToken]
  /\ claims       = [j \in Job |-> 0]
  /\ refunds      = [j \in Job |-> 0]

---------------------------------------------------------------------------
(***************************************************************************)
(* Materialising occurrences                                               *)
(***************************************************************************)

\* The occurrences materialise() may create at the planning instant `now`.
InWindow(j, now) ==
  /\ ScheduledFor[j] >= now - CatchupGrace
  /\ ScheduledFor[j] <= now + Horizon

\* Mutated Enqueue: the insert overwrites an existing row.
EnqueueAgain(j) ==
  /\ jobState' = [jobState EXCEPT ![j] = "PENDING"]
  /\ UNCHANGED <<attempts, claimToken, leaseExpires, nextAttempt, reportedBy,
                 claims, refunds>>

\* enqueue: one INSERT of its own.  A row that exists, or that another worker
\* inserts first (IntegrityError on the unique key), is left untouched.
Enqueue(j) ==
  /\ jobState[j] = "ABSENT"
  /\ jobState' = [jobState EXCEPT ![j] = "PENDING"]
  /\ UNCHANGED <<attempts, claimToken, leaseExpires, nextAttempt, reportedBy,
                 claims, refunds>>

---------------------------------------------------------------------------
(***************************************************************************)
(* Claiming                                                                *)
(***************************************************************************)

\* Mutated parts of the WHERE clause.
AlwaysReady(j, now)  == TRUE
LeaseIgnored(j, now) == TRUE
NeverExpired(j, now) == FALSE

Ready(j, now)        == nextAttempt[j] <= now
LeaseExpired(j, now) == leaseExpires[j] # NoTime /\ leaseExpires[j] <= now
UnderCeiling(j)      == attempts[j] < MaxAttempts

\* The WHERE clause of claim_due at the planning instant `now`.
Due(j, now) ==
  /\ ScheduledFor[j] <= now
  /\ \/ jobState[j] \in {"PENDING", "DEFERRED"} /\ Ready(j, now)
     \/ jobState[j] = "FAILED_RETRYABLE" /\ UnderCeiling(j) /\ Ready(j, now)
     \/ jobState[j] = "RUNNING" /\ UnderCeiling(j) /\ LeaseExpired(j, now)

\* ORDER BY scheduled_for LIMIT n over the candidate rows: the possible
\* windows differ only in the order of rows due at the same instant.
Window(candidates, n) ==
  { S \in SUBSET candidates :
      /\ Cardinality(S) <= n
      /\ Cardinality(S) < n => S = candidates
      /\ \A j \in S, k \in candidates \ S : ScheduledFor[j] <= ScheduledFor[k] }

\* What claim_due remembers of a selected row before it writes.
Snapshots == [state: JobStates, token: Nat, attempts: Nat]
Snapshot(j) ==
  [state |-> jobState[j], token |-> claimToken[j], attempts |-> attempts[j]]

\* Mutated StillMatches: the swap compares the token only.
TokenStillMatches(j, seenRow) == claimToken[j] = seenRow.token

\* The WHERE clause of the compare-and-swap: state and token, nothing else.
StillMatches(j, seenRow) ==
  jobState[j] = seenRow.state /\ claimToken[j] = seenRow.token

\* The UPDATE of every row in `won`, each from its own snapshot in `rows`.
ClaimRows(won, rows, now) ==
  /\ jobState'     = [j \in Job |-> IF j \in won THEN "RUNNING" ELSE jobState[j]]
  /\ attempts'     = [j \in Job |-> IF j \in won THEN rows[j].attempts + 1
                                    ELSE attempts[j]]
  /\ claimToken'   = [j \in Job |-> IF j \in won THEN claims[j] + 1
                                    ELSE claimToken[j]]
  /\ leaseExpires' = [j \in Job |-> IF j \in won THEN now + Lease
                                    ELSE leaseExpires[j]]
  /\ nextAttempt'  = [j \in Job |-> IF j \in won THEN NoTime ELSE nextAttempt[j]]
  /\ claims'       = [j \in Job |-> IF j \in won THEN claims[j] + 1 ELSE claims[j]]
  /\ UNCHANGED <<reportedBy, refunds>>

---------------------------------------------------------------------------
(***************************************************************************)
(* Completion: _complete is a conditional UPDATE, and a caller that is not *)
(* the current holder changes no row and gets StaleLeaseError.             *)
(***************************************************************************)

\* Mutated Owns: the holder is checked by the state alone.
OwnsByState(j, token) == jobState[j] = "RUNNING"

Owns(j, token) == jobState[j] = "RUNNING" /\ claimToken[j] = token

\* The columns every final report writes, whatever its verdict.
Complete(j, token, verdict, retryAt) ==
  /\ Owns(j, token)
  /\ jobState'     = [jobState EXCEPT ![j] = verdict]
  /\ claimToken'   = [claimToken EXCEPT ![j] = NoToken]
  /\ leaseExpires' = [leaseExpires EXCEPT ![j] = NoTime]
  /\ nextAttempt'  = [nextAttempt EXCEPT ![j] = retryAt]
  /\ reportedBy'   = [reportedBy EXCEPT ![j] = token]
  /\ UNCHANGED claims

MarkSucceeded(j, token) ==
  /\ Complete(j, token, "SUCCEEDED", NoTime)
  /\ UNCHANGED <<attempts, refunds>>

\* _backoff_for: doubles with every attempt after the first.
BackoffFor(n) == Backoff * 2^(IF n > 1 THEN n - 1 ELSE 0)

\* Mutated MarkFailed: the ceiling is off by one.
MarkFailedLate(j, token, seenAttempts, retryable, now) ==
  /\ IF ~retryable \/ seenAttempts > MaxAttempts
       THEN Complete(j, token, "FAILED_FINAL", NoTime)
       ELSE Complete(j, token, "FAILED_RETRYABLE", now + BackoffFor(seenAttempts))
  /\ UNCHANGED <<attempts, refunds>>

\* mark_failed, once it has read the row's attempts in an earlier transaction.
MarkFailed(j, token, seenAttempts, retryable, now) ==
  LET final == ~retryable \/ seenAttempts >= MaxAttempts
  IN  /\ IF final
         THEN Complete(j, token, "FAILED_FINAL", NoTime)
         ELSE Complete(j, token, "FAILED_RETRYABLE", now + BackoffFor(seenAttempts))
      /\ UNCHANGED <<attempts, refunds>>

\* Mutated GiveBack: a budget refusal keeps the attempt it consumed.
KeepAttempt(j) == UNCHANGED attempts

\* _decremented_attempts: give back the attempt this claim consumed.
GiveBack(j) ==
  attempts' = [attempts EXCEPT ![j] = IF @ > 0 THEN @ - 1 ELSE 0]

MarkDeferred(j, token, reset) ==
  /\ Complete(j, token, "DEFERRED", reset)
  /\ GiveBack(j)
  /\ refunds' = [refunds EXCEPT ![j] = @ + 1]

MarkSkipped(j, token) ==
  /\ Complete(j, token, "SKIPPED_BUDGET", NoTime)
  /\ GiveBack(j)
  /\ refunds' = [refunds EXCEPT ![j] = @ + 1]

RenewLease(j, token, now) ==
  /\ Owns(j, token)
  /\ leaseExpires' = [leaseExpires EXCEPT ![j] = now + Lease]
  /\ UNCHANGED <<jobState, attempts, claimToken, nextAttempt, reportedBy,
                 claims, refunds>>
=============================================================================
