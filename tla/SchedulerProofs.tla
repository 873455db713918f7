--------------------------- MODULE SchedulerProofs ---------------------------
(***************************************************************************)
(* Proofs about SchedulerRunner, for any set of jobs and workers, any      *)
(* clock bound, either database and any number of crashes.                 *)
(***************************************************************************)
EXTENDS SchedulerRunner, TLAPS

\* The initial table satisfies the invariant.
LEMMA InitInvariant == Init => IInv
<1> SUFFICES ASSUME Init PROVE IInv
  OBVIOUS
<1> USE LedgerAssumption, RunnerAssumption DEF Init, LedgerInit, NoToken, NoTime,
        NoClaims, AllBlank, Blank, NoOutcome
<1>1. TypeOK
  BY DEF TypeOK, Snapshots, JobStates, Claimable, Terminal, Stages, Outcomes
<1>2. TokensAreLatest /\ HeldTokensIssued /\ PlansInThePast
  BY DEF TokensAreLatest, HeldTokensIssued, PlansInThePast
<1>3. SelectedMayRetry /\ WorksOnClaim /\ ReadIsCurrent
  BY DEF SelectedMayRetry, WorksOnClaim, ReadIsCurrent
<1>4. OutcomeOfLatestClaim /\ OpenJobsMayRetry
  BY DEF OutcomeOfLatestClaim, OpenJobsMayRetry, Terminal
<1>5. QED
  BY <1>1, <1>2, <1>3, <1>4 DEF IInv

---------------------------------------------------------------------------
(***************************************************************************)
(* The ledger's operations                                                 *)
(***************************************************************************)

\* Creating an occurrence preserves the invariant.
LEMMA EnqueueInvariant ==
  ASSUME IInv, NEW j \in Job, Enqueue(j), UNCHANGED <<clock, workerVars>>
  PROVE  IInv'
<1> USE DEF IInv, Enqueue, workerVars
<1>1. TypeOK'
  BY DEF TypeOK, JobStates, Claimable
<1>2. TokensAreLatest' /\ HeldTokensIssued' /\ PlansInThePast'
  BY DEF TypeOK, TokensAreLatest, HeldTokensIssued, PlansInThePast
<1>3. SelectedMayRetry' /\ WorksOnClaim'
  BY DEF TypeOK, SelectedMayRetry, WorksOnClaim, MyToken
<1>4. ReadIsCurrent'
  BY DEF TypeOK, ReadIsCurrent, OwnsCurrent, Owns, MyToken, WorksOnClaim
<1>5. OutcomeOfLatestClaim'
  BY DEF TypeOK, OutcomeOfLatestClaim
<1>6. OpenJobsMayRetry'
  BY DEF TypeOK, OpenJobsMayRetry, Terminal
<1>7. QED
  BY <1>1, <1>2, <1>3, <1>4, <1>5, <1>6


\* A worker that selected nothing holds well-typed snapshots.
LEMMA AllBlankType == AllBlank \in [Job -> Snapshots]
BY DEF AllBlank, Blank, Snapshots, JobStates, NoToken

\* Forgetting one worker's snapshots keeps every snapshot well typed.
LEMMA ForgetSnapshots ==
  ASSUME NEW f \in [Worker -> [Job -> Snapshots]], NEW w \in Worker
  PROVE  [f EXCEPT ![w] = AllBlank] \in [Worker -> [Job -> Snapshots]]
BY AllBlankType

\* Claiming rows that are open and under the attempt ceiling preserves the
\* invariant, whichever snapshot each row is written from.
LEMMA ClaimInvariant ==
  ASSUME IInv, NEW w \in Worker, NEW won \in SUBSET Job,
         NEW rows \in [Job -> Snapshots],
         \A j \in won : rows[j].attempts < MaxAttempts,
         ClaimRows(won, rows, moment[w]), TakeBatch(w, won),
         \/ UNCHANGED <<picked, seen>>
         \/ /\ picked' = [picked EXCEPT ![w] = {}]
            /\ seen' = [seen EXCEPT ![w] = AllBlank],
         UNCHANGED <<clock, current, lost, beating, outcome, tries, crashes>>
  PROVE  IInv'
<1> USE LedgerAssumption DEF IInv, ClaimRows, TakeBatch, Goto, NoToken, NoTime
<1>1. TypeOK'
  <2>1. attempts' \in [Job -> 0..MaxAttempts]
    BY DEF TypeOK, Snapshots
  <2>2. /\ jobState' \in [Job -> JobStates]
        /\ claimToken' \in [Job -> Nat]
        /\ claims' \in [Job -> Nat]
    BY DEF TypeOK, JobStates, Claimable
  <2>3. leaseExpires' \in [Job -> Int] /\ nextAttempt' \in [Job -> Int]
    BY DEF TypeOK
  <2>4. /\ picked' \in [Worker -> SUBSET Job]
        /\ seen' \in [Worker -> [Job -> Snapshots]]
    <3>1. picked \in [Worker -> SUBSET Job] /\ seen \in [Worker -> [Job -> Snapshots]]
      BY DEF TypeOK
    <3>2. [seen EXCEPT ![w] = AllBlank] \in [Worker -> [Job -> Snapshots]]
      BY <3>1, ForgetSnapshots
    <3>3. QED
      BY <3>1, <3>2
  <2>5. /\ held' \in [Worker -> [Job -> Nat]]
        /\ pc' \in [Worker -> Stages]
        /\ moment' \in [Worker -> Nat]
    BY DEF TypeOK, Stages
  <2>6. QED
    BY <2>1, <2>2, <2>3, <2>4, <2>5 DEF TypeOK
<1>2. TokensAreLatest'
  BY DEF TypeOK, TokensAreLatest
<1>3. HeldTokensIssued'
  BY DEF TypeOK, HeldTokensIssued
<1>4. SelectedMayRetry'
  BY DEF TypeOK, SelectedMayRetry
<1>5. WorksOnClaim'
  BY DEF TypeOK, WorksOnClaim, MyToken
<1>6. ReadIsCurrent'
  <2> SUFFICES ASSUME NEW v \in Worker, pc'[v] = "failing", OwnsCurrent(v)'
               PROVE  tries'[v] = attempts'[current'[v]]
    BY DEF ReadIsCurrent
  <2>1. v # w /\ pc[v] = "failing" /\ held'[v] = held[v] /\ current'[v] = current[v]
    BY DEF TypeOK
  <2>2. current[v] \in Job /\ MyToken(v) \in Nat /\ MyToken(v)' = MyToken(v)
    BY <2>1 DEF TypeOK, WorksOnClaim, MyToken
  <2>3. claimToken'[current[v]] = MyToken(v) /\ MyToken(v) <= claims[current[v]]
    BY <2>1, <2>2 DEF OwnsCurrent, Owns, HeldTokensIssued, MyToken
  <2>4. current[v] \notin won
    BY <2>2, <2>3 DEF TypeOK
  <2>5. OwnsCurrent(v) /\ attempts'[current[v]] = attempts[current[v]]
    BY <2>1, <2>2, <2>4 DEF OwnsCurrent, Owns, TypeOK
  <2>6. QED
    BY <2>1, <2>5 DEF ReadIsCurrent
<1>7. PlansInThePast'
  BY DEF TypeOK, PlansInThePast
<1>8. OutcomeOfLatestClaim'
  BY DEF TypeOK, OutcomeOfLatestClaim
<1>9. OpenJobsMayRetry'
  BY DEF TypeOK, OpenJobsMayRetry
<1>10. QED
  BY <1>1, <1>2, <1>3, <1>4, <1>5, <1>6, <1>7, <1>8, <1>9


\* Dropping the current job keeps the worker's variables well typed.
LEMMA NextJobTypes ==
  ASSUME TypeOK, NEW w \in Worker, NextJob(w)
  PROVE  /\ held' \in [Worker -> [Job -> Nat]]
         /\ pc' \in [Worker -> Stages]
         /\ moment' \in [Worker -> Nat]
         /\ current' \in [Worker -> Job \cup {NoJob}]
         /\ lost' \in [Worker -> BOOLEAN]
         /\ outcome' \in [Worker -> Outcomes \cup {NoOutcome}]
         /\ tries' \in [Worker -> Nat]
<1> USE DEF NextJob, Goto
<1>1. held' \in [Worker -> [Job -> Nat]] /\ pc' \in [Worker -> Stages]
  BY DEF TypeOK, Stages, NoToken
<1>2. /\ moment' \in [Worker -> Nat]
      /\ current' \in [Worker -> Job \cup {NoJob}]
      /\ tries' \in [Worker -> Nat]
  BY DEF TypeOK
<1>3. /\ lost' \in [Worker -> BOOLEAN]
      /\ outcome' \in [Worker -> Outcomes \cup {NoOutcome}]
  BY DEF TypeOK
<1>4. QED
  BY <1>1, <1>2, <1>3

\* A report by the row's holder preserves the invariant, provided a row it leaves
\* open is under the attempt ceiling.
LEMMA CompleteInvariant ==
  ASSUME IInv, NEW w \in Worker, pc[w] \in {"reporting", "failing"},
         NEW verdict \in JobStates \ {"RUNNING"}, NEW retryAt \in Int,
         Complete(current[w], MyToken(w), verdict, retryAt),
         \/ UNCHANGED attempts
         \/ GiveBack(current[w]),
         verdict \notin Terminal => attempts'[current[w]] < MaxAttempts,
         refunds' \in [Job -> Nat],
         NextJob(w), UNCHANGED <<clock, picked, seen, beating, crashes>>
  PROVE  IInv'
<1> DEFINE j == current[w]
<1>0. j \in Job /\ MyToken(w) # NoToken
  BY DEF IInv, WorksOnClaim
<1> USE LedgerAssumption, <1>0 DEF IInv, Complete, Owns, NextJob, Goto, GiveBack
<1>1. TypeOK'
  <2>1. attempts' \in [Job -> 0..MaxAttempts]
    <3>1. attempts \in [Job -> 0..MaxAttempts]
      BY DEF TypeOK
    <3>2. CASE UNCHANGED attempts
      BY <3>1, <3>2
    <3>3. CASE attempts' = [attempts EXCEPT ![j] = IF @ > 0 THEN @ - 1 ELSE 0]
      BY <3>1, <3>3
    <3>4. QED
      BY <3>2, <3>3
  <2>2. /\ jobState' \in [Job -> JobStates]
        /\ claimToken' \in [Job -> Nat]
        /\ reportedBy' \in [Job -> Nat]
    BY DEF TypeOK, NoToken, MyToken
  <2>3. leaseExpires' \in [Job -> Int] /\ nextAttempt' \in [Job -> Int]
    BY DEF TypeOK, NoTime
  <2>4. QED
    BY <2>1, <2>2, <2>3, NextJobTypes DEF TypeOK
<1>2. TokensAreLatest'
  BY DEF TypeOK, TokensAreLatest, NoToken
<1>3. HeldTokensIssued'
  BY DEF TypeOK, HeldTokensIssued, NoToken
<1>4. SelectedMayRetry' /\ PlansInThePast'
  BY DEF TypeOK, SelectedMayRetry, PlansInThePast
<1>5. WorksOnClaim'
  BY DEF TypeOK, WorksOnClaim, MyToken
<1>6. ReadIsCurrent'
  <2> SUFFICES ASSUME NEW v \in Worker, pc'[v] = "failing", OwnsCurrent(v)'
               PROVE  tries'[v] = attempts'[current'[v]]
    BY DEF ReadIsCurrent
  <2>1. v # w /\ pc[v] = "failing" /\ held'[v] = held[v] /\ current'[v] = current[v]
    BY DEF TypeOK
  <2>2. current[v] \in Job /\ current[v] # j
    BY <2>1 DEF TypeOK, WorksOnClaim, OwnsCurrent
  <2>3. OwnsCurrent(v) /\ attempts'[current[v]] = attempts[current[v]]
    BY <2>1, <2>2 DEF OwnsCurrent, TypeOK, MyToken
  <2>4. QED
    BY <2>1, <2>3 DEF ReadIsCurrent, TypeOK
<1>7. OutcomeOfLatestClaim'
  BY DEF TypeOK, OutcomeOfLatestClaim, TokensAreLatest, MyToken
<1>8. OpenJobsMayRetry'
  BY DEF TypeOK, OpenJobsMayRetry
<1>9. QED
  BY <1>1, <1>2, <1>3, <1>4, <1>5, <1>6, <1>7, <1>8

\* Extending a lease, or leaving the table alone, disturbs no part of the
\* invariant that speaks of rows.
LEMMA RowsKept ==
  ASSUME IInv, NEW w \in Worker,
         UNCHANGED ledgerVars \/ \E j \in Job : RenewLease(j, held[w][j], clock)
  PROVE  /\ TokensAreLatest' /\ OutcomeOfLatestClaim' /\ OpenJobsMayRetry'
         /\ leaseExpires' \in [Job -> Int]
         /\ UNCHANGED <<jobState, attempts, claimToken, nextAttempt, reportedBy,
                        claims, refunds>>
<1> USE LedgerAssumption DEF ledgerVars, rowVars, RenewLease
<1>1. leaseExpires' \in [Job -> Int]
  BY DEF IInv, TypeOK
<1>2. UNCHANGED <<jobState, attempts, claimToken, nextAttempt, reportedBy,
                  claims, refunds>>
  OBVIOUS
<1>3. QED
  BY <1>1, <1>2 DEF IInv, TokensAreLatest, OutcomeOfLatestClaim, OpenJobsMayRetry

---------------------------------------------------------------------------
(***************************************************************************)
(* The workers' steps that write no row, or only extend a lease            *)
(***************************************************************************)

\* A tick that begins preserves the invariant.
LEMMA StartTickInvariant ==
  ASSUME IInv, NEW w \in Worker, StartTick(w)
  PROVE  IInv'
<1> USE DEF StartTick, Goto
<1>1. /\ TokensAreLatest' /\ OutcomeOfLatestClaim' /\ OpenJobsMayRetry'
      /\ leaseExpires' \in [Job -> Int]
      /\ UNCHANGED <<jobState, attempts, claimToken, nextAttempt, reportedBy,
                     claims, refunds>>
  BY RowsKept
<1>2. TypeOK'
  BY <1>1 DEF IInv, TypeOK, Stages
<1>3. HeldTokensIssued' /\ PlansInThePast'
  BY <1>1 DEF IInv, TypeOK, HeldTokensIssued, PlansInThePast
<1>4. SelectedMayRetry'
  BY <1>1 DEF IInv, TypeOK, SelectedMayRetry
<1>5. WorksOnClaim'
  BY <1>1 DEF IInv, TypeOK, WorksOnClaim, MyToken
<1>6. ReadIsCurrent'
  BY <1>1 DEF IInv, TypeOK, ReadIsCurrent, OwnsCurrent, Owns, MyToken, WorksOnClaim
<1>7. QED
  BY <1>1, <1>2, <1>3, <1>4, <1>5, <1>6 DEF IInv

\* A tick that ends preserves the invariant.
LEMMA EndTickInvariant ==
  ASSUME IInv, NEW w \in Worker, EndTick(w)
  PROVE  IInv'
<1> USE DEF EndTick, Goto
<1>1. /\ TokensAreLatest' /\ OutcomeOfLatestClaim' /\ OpenJobsMayRetry'
      /\ leaseExpires' \in [Job -> Int]
      /\ UNCHANGED <<jobState, attempts, claimToken, nextAttempt, reportedBy,
                     claims, refunds>>
  BY RowsKept
<1>2. TypeOK'
  BY <1>1 DEF IInv, TypeOK, Stages
<1>3. HeldTokensIssued' /\ PlansInThePast'
  BY <1>1 DEF IInv, TypeOK, HeldTokensIssued, PlansInThePast
<1>4. SelectedMayRetry'
  BY <1>1 DEF IInv, TypeOK, SelectedMayRetry
<1>5. WorksOnClaim'
  BY <1>1 DEF IInv, TypeOK, WorksOnClaim, MyToken
<1>6. ReadIsCurrent'
  BY <1>1 DEF IInv, TypeOK, ReadIsCurrent, OwnsCurrent, Owns, MyToken, WorksOnClaim
<1>7. QED
  BY <1>1, <1>2, <1>3, <1>4, <1>5, <1>6 DEF IInv

\* Starting a job under its guard preserves the invariant.
LEMMA EnterGuardInvariant ==
  ASSUME IInv, NEW w \in Worker, NEW j \in Job, EnterGuard(w, j)
  PROVE  IInv'
<1> USE DEF EnterGuard, Goto, Pending, NoToken
<1>1. /\ TokensAreLatest' /\ OutcomeOfLatestClaim' /\ OpenJobsMayRetry'
      /\ leaseExpires' \in [Job -> Int]
      /\ UNCHANGED <<jobState, attempts, claimToken, nextAttempt, reportedBy,
                     claims, refunds>>
  BY RowsKept
<1>2. TypeOK'
  BY <1>1 DEF IInv, TypeOK, Stages
<1>3. HeldTokensIssued' /\ PlansInThePast'
  BY <1>1 DEF IInv, TypeOK, HeldTokensIssued, PlansInThePast
<1>4. SelectedMayRetry'
  BY <1>1 DEF IInv, TypeOK, SelectedMayRetry
<1>5. WorksOnClaim'
  BY <1>1 DEF IInv, TypeOK, WorksOnClaim, MyToken
<1>6. ReadIsCurrent'
  BY <1>1 DEF IInv, TypeOK, ReadIsCurrent, OwnsCurrent, Owns, MyToken, WorksOnClaim
<1>7. QED
  BY <1>1, <1>2, <1>3, <1>4, <1>5, <1>6 DEF IInv

\* A heartbeat preserves the invariant.
LEMMA HeartbeatInvariant ==
  ASSUME IInv, NEW w \in Worker, Heartbeat(w)
  PROVE  IInv'
<1> USE DEF Heartbeat, Running, MyToken
<1>0. current[w] \in Job
  BY DEF IInv, WorksOnClaim
<1>1. /\ TokensAreLatest' /\ OutcomeOfLatestClaim' /\ OpenJobsMayRetry'
      /\ leaseExpires' \in [Job -> Int]
      /\ UNCHANGED <<jobState, attempts, claimToken, nextAttempt, reportedBy,
                     claims, refunds>>
  BY <1>0, RowsKept
<1>2. TypeOK'
  BY <1>1 DEF IInv, TypeOK, Stages
<1>3. HeldTokensIssued' /\ PlansInThePast'
  BY <1>1 DEF IInv, TypeOK, HeldTokensIssued, PlansInThePast
<1>4. SelectedMayRetry'
  BY <1>1 DEF IInv, TypeOK, SelectedMayRetry
<1>5. WorksOnClaim'
  BY <1>1 DEF IInv, TypeOK, WorksOnClaim, MyToken
<1>6. ReadIsCurrent'
  BY <1>1 DEF IInv, TypeOK, ReadIsCurrent, OwnsCurrent, Owns, MyToken, WorksOnClaim
<1>7. QED
  BY <1>1, <1>2, <1>3, <1>4, <1>5, <1>6 DEF IInv

\* The end of the work preserves the invariant.
LEMMA FinishWorkInvariant ==
  ASSUME IInv, NEW w \in Worker, FinishWork(w)
  PROVE  IInv'
<1> USE DEF FinishWork, Running, Goto
<1>1. /\ TokensAreLatest' /\ OutcomeOfLatestClaim' /\ OpenJobsMayRetry'
      /\ leaseExpires' \in [Job -> Int]
      /\ UNCHANGED <<jobState, attempts, claimToken, nextAttempt, reportedBy,
                     claims, refunds>>
  BY RowsKept
<1>2. CASE \E result \in Outcomes :
             /\ outcome' = [outcome EXCEPT ![w] = result]
             /\ moment'  = [moment EXCEPT ![w] = clock]
             /\ pc' = [pc EXCEPT ![w] = "reporting"]
             /\ UNCHANGED <<held, current, lost, tries>>
  <2>1. TypeOK'
    BY <1>1, <1>2 DEF IInv, TypeOK, Stages
  <2>2. HeldTokensIssued' /\ PlansInThePast' /\ SelectedMayRetry'
    BY <1>1, <1>2 DEF IInv, TypeOK, HeldTokensIssued, PlansInThePast, SelectedMayRetry
  <2>3. WorksOnClaim'
    BY <1>1, <1>2 DEF IInv, TypeOK, WorksOnClaim, MyToken
  <2>4. ReadIsCurrent'
    BY <1>1, <1>2 DEF IInv, TypeOK, ReadIsCurrent, OwnsCurrent, Owns, MyToken
  <2>5. QED
    BY <1>1, <2>1, <2>2, <2>3, <2>4 DEF IInv
<1>3. CASE NextJob(w)
  <2>1. TypeOK'
    BY <1>1, <1>3, NextJobTypes DEF IInv, TypeOK
  <2>2. HeldTokensIssued' /\ PlansInThePast' /\ SelectedMayRetry'
    BY <1>1, <1>3 DEF IInv, TypeOK, HeldTokensIssued, PlansInThePast, SelectedMayRetry,
                      NextJob, NoToken
  <2>3. WorksOnClaim'
    BY <1>1, <1>3 DEF IInv, TypeOK, WorksOnClaim, MyToken, NextJob
  <2>4. ReadIsCurrent'
    BY <1>1, <1>3 DEF IInv, TypeOK, ReadIsCurrent, OwnsCurrent, Owns, MyToken, NextJob
  <2>5. QED
    BY <1>1, <2>1, <2>2, <2>3, <2>4 DEF IInv
<1>4. QED
  BY <1>2, <1>3

\* mark_failed's read preserves the invariant.
LEMMA ReadAttemptsInvariant ==
  ASSUME IInv, NEW w \in Worker, ReadAttempts(w)
  PROVE  IInv'
<1> USE DEF ReadAttempts, Goto
<1>0. current[w] \in Job
  BY DEF IInv, WorksOnClaim
<1>1. /\ TokensAreLatest' /\ OutcomeOfLatestClaim' /\ OpenJobsMayRetry'
      /\ leaseExpires' \in [Job -> Int]
      /\ UNCHANGED <<jobState, attempts, claimToken, nextAttempt, reportedBy,
                     claims, refunds>>
  BY RowsKept
<1>2. TypeOK'
  BY <1>0, <1>1 DEF IInv, TypeOK, Stages
<1>3. HeldTokensIssued' /\ PlansInThePast'
  BY <1>1 DEF IInv, TypeOK, HeldTokensIssued, PlansInThePast
<1>4. SelectedMayRetry'
  BY <1>1 DEF IInv, TypeOK, SelectedMayRetry
<1>5. WorksOnClaim'
  BY <1>1 DEF IInv, TypeOK, WorksOnClaim, MyToken
<1>6. ReadIsCurrent'
  BY <1>1 DEF IInv, TypeOK, ReadIsCurrent, OwnsCurrent, Owns, MyToken, WorksOnClaim
<1>7. QED
  BY <1>1, <1>2, <1>3, <1>4, <1>5, <1>6 DEF IInv

\* A crash preserves the invariant.
LEMMA CrashInvariant ==
  ASSUME IInv, NEW w \in Worker, Crash(w)
  PROVE  IInv'
<1> USE DEF Crash, Goto, NoClaims, NoToken
<1>1. /\ TokensAreLatest' /\ OutcomeOfLatestClaim' /\ OpenJobsMayRetry'
      /\ leaseExpires' \in [Job -> Int]
      /\ UNCHANGED <<jobState, attempts, claimToken, nextAttempt, reportedBy,
                     claims, refunds>>
  BY RowsKept
<1>2. TypeOK'
  <2>1. seen' \in [Worker -> [Job -> Snapshots]]
    BY ForgetSnapshots DEF IInv, TypeOK
  <2>2. held' \in [Worker -> [Job -> Nat]]
    BY DEF IInv, TypeOK
  <2>3. QED
    BY <1>1, <2>1, <2>2 DEF IInv, TypeOK, Stages
<1>3. HeldTokensIssued' /\ PlansInThePast'
  BY <1>1 DEF IInv, TypeOK, HeldTokensIssued, PlansInThePast
<1>4. SelectedMayRetry'
  BY <1>1 DEF IInv, TypeOK, SelectedMayRetry
<1>5. WorksOnClaim'
  BY <1>1 DEF IInv, TypeOK, WorksOnClaim, MyToken
<1>6. ReadIsCurrent'
  BY <1>1 DEF IInv, TypeOK, ReadIsCurrent, OwnsCurrent, Owns, MyToken, WorksOnClaim
<1>7. QED
  BY <1>1, <1>2, <1>3, <1>4, <1>5, <1>6 DEF IInv
---------------------------------------------------------------------------
(***************************************************************************)
(* The steps that write rows                                               *)
(***************************************************************************)

\* A stale report only moves the worker on.
LEMMA StaleReportInvariant ==
  ASSUME IInv, NEW w \in Worker, UNCHANGED ledgerVars, NextJob(w),
         UNCHANGED <<clock, picked, seen, beating, crashes>>
  PROVE  IInv'
<1>1. /\ TokensAreLatest' /\ OutcomeOfLatestClaim' /\ OpenJobsMayRetry'
      /\ leaseExpires' \in [Job -> Int]
      /\ UNCHANGED <<jobState, attempts, claimToken, nextAttempt, reportedBy,
                     claims, refunds>>
  BY RowsKept
<1>2. TypeOK'
  BY <1>1, NextJobTypes DEF IInv, TypeOK
<1>3. HeldTokensIssued' /\ PlansInThePast' /\ SelectedMayRetry'
  BY <1>1 DEF IInv, TypeOK, HeldTokensIssued, PlansInThePast, SelectedMayRetry,
              NextJob, NoToken, Goto
<1>4. WorksOnClaim'
  BY <1>1 DEF IInv, TypeOK, WorksOnClaim, MyToken, NextJob, Goto
<1>5. ReadIsCurrent'
  BY <1>1 DEF IInv, TypeOK, ReadIsCurrent, OwnsCurrent, Owns, MyToken, NextJob, Goto
<1>6. QED
  BY <1>1, <1>2, <1>3, <1>4, <1>5 DEF IInv

\* A success report preserves the invariant.
LEMMA AckSuccessInvariant ==
  ASSUME IInv, NEW w \in Worker, AckSuccess(w)
  PROVE  IInv'
<1>1. CASE MarkSucceeded(current[w], MyToken(w))
  <2>1. Complete(current[w], MyToken(w), "SUCCEEDED", NoTime)
    BY <1>1 DEF MarkSucceeded
  <2>2. "SUCCEEDED" \in JobStates \ {"RUNNING"} /\ "SUCCEEDED" \in Terminal /\ NoTime \in Int
    BY DEF JobStates, Terminal, NoTime
  <2>3. refunds' \in [Job -> Nat] /\ UNCHANGED attempts
    BY <1>1 DEF MarkSucceeded, IInv, TypeOK
  <2>4. QED
    BY <2>1, <2>2, <2>3, CompleteInvariant DEF AckSuccess, Report
<1>2. CASE UNCHANGED ledgerVars
  BY <1>2, StaleReportInvariant DEF AckSuccess, Report
<1>3. QED
  BY <1>1, <1>2 DEF AckSuccess, Report

\* A failure report preserves the invariant: while its token is current, the
\* attempts it read are those of the row, so a job it leaves retryable may retry.
LEMMA RecordFailureInvariant ==
  ASSUME IInv, NEW w \in Worker, RecordFailure(w)
  PROVE  IInv'
<1> DEFINE j == current[w]
           retryable == outcome[w] = "RETRYABLE_FAILURE"
           final == ~retryable \/ tries[w] >= MaxAttempts
<1>0. j \in Job /\ tries[w] \in Nat /\ moment[w] \in Nat /\ attempts[j] \in 0..MaxAttempts
  BY DEF IInv, TypeOK, WorksOnClaim, RecordFailure
<1>1. CASE MarkFailed(j, MyToken(w), tries[w], retryable, moment[w])
  <2>1. OwnsCurrent(w) /\ UNCHANGED <<attempts, refunds>>
    BY <1>1 DEF MarkFailed, Complete, OwnsCurrent
  <2>2. tries[w] = attempts[j]
    BY <2>1 DEF IInv, ReadIsCurrent, RecordFailure
  <2>3. refunds' \in [Job -> Nat]
    BY <2>1 DEF IInv, TypeOK
  <2>4. CASE final
    <3>1. Complete(j, MyToken(w), "FAILED_FINAL", NoTime)
      BY <1>1, <2>4 DEF MarkFailed
    <3>2. "FAILED_FINAL" \in JobStates \ {"RUNNING"} /\ "FAILED_FINAL" \in Terminal /\ NoTime \in Int
      BY DEF JobStates, Terminal, NoTime
    <3>3. QED
      BY <2>1, <2>3, <3>1, <3>2, CompleteInvariant DEF RecordFailure, Report
  <2>5. CASE ~final
    <3>1. Complete(j, MyToken(w), "FAILED_RETRYABLE", moment[w] + BackoffFor(tries[w]))
      BY <1>1, <2>5 DEF MarkFailed
    <3>2. moment[w] + BackoffFor(tries[w]) \in Int
      BY <1>0, LedgerAssumption DEF BackoffFor
    <3>3. "FAILED_RETRYABLE" \in JobStates \ {"RUNNING"}
      BY DEF JobStates, Claimable
    <3>4. attempts'[j] < MaxAttempts
      BY <1>0, <2>1, <2>2, <2>5, LedgerAssumption
    <3>5. QED
      BY <2>1, <2>3, <3>1, <3>2, <3>3, <3>4, CompleteInvariant DEF RecordFailure, Report
  <2>6. QED
    BY <2>4, <2>5
<1>2. CASE UNCHANGED ledgerVars
  BY <1>2, StaleReportInvariant DEF RecordFailure, Report
<1>3. QED
  BY <1>1, <1>2 DEF RecordFailure, Report

\* A budget refusal preserves the invariant: giving the attempt back leaves a
\* deferred job under the ceiling.
LEMMA DeferForBudgetInvariant ==
  ASSUME IInv, NEW w \in Worker, DeferForBudget(w)
  PROVE  IInv'
<1> DEFINE j == current[w]
           reset == NextBudgetReset(j, moment[w])
<1>0. j \in Job /\ moment[w] \in Nat /\ refunds \in [Job -> Nat]
      /\ attempts \in [Job -> 0..MaxAttempts]
  BY DEF IInv, TypeOK, WorksOnClaim, DeferForBudget
<1>1. reset \in Int
  BY <1>0, RunnerAssumption DEF NextBudgetReset
<1>2. CASE MarkSkipped(j, MyToken(w))
  <2>1. "SKIPPED_BUDGET" \in JobStates \ {"RUNNING"} /\ "SKIPPED_BUDGET" \in Terminal /\ NoTime \in Int
    BY DEF JobStates, Terminal, NoTime
  <2>2. Complete(j, MyToken(w), "SKIPPED_BUDGET", NoTime) /\ GiveBack(j)
    BY <1>2 DEF MarkSkipped
  <2>3. refunds' \in [Job -> Nat]
    BY <1>0, <1>2 DEF MarkSkipped
  <2>4. QED
    BY <2>1, <2>2, <2>3, CompleteInvariant DEF DeferForBudget, Report
<1>3. CASE MarkDeferred(j, MyToken(w), reset)
  <2>1. "DEFERRED" \in JobStates \ {"RUNNING"}
    BY DEF JobStates, Claimable
  <2>2. Complete(j, MyToken(w), "DEFERRED", reset) /\ GiveBack(j)
    BY <1>3 DEF MarkDeferred
  <2>3. refunds' \in [Job -> Nat]
    BY <1>0, <1>3 DEF MarkDeferred
  <2>4. attempts'[j] < MaxAttempts
    BY <1>0, <2>2, LedgerAssumption DEF GiveBack
  <2>5. QED
    BY <1>1, <2>1, <2>2, <2>3, <2>4, CompleteInvariant DEF DeferForBudget, Report
<1>4. CASE UNCHANGED ledgerVars
  BY <1>4, StaleReportInvariant DEF DeferForBudget, Report
<1>5. QED
  BY <1>2, <1>3, <1>4 DEF DeferForBudget, Report

\* The rows claim_due selects are open and under the attempt ceiling.
LEMMA DueMayRetry ==
  ASSUME IInv, NEW now, NEW j \in DueRows(now)
  PROVE  j \in Job /\ jobState[j] \in Claimable /\ attempts[j] < MaxAttempts
BY DEF IInv, DueRows, Due, UnderCeiling, OpenJobsMayRetry, Claimable, Terminal

\* LIMIT only drops candidate rows.
LEMMA WindowIsSubset ==
  ASSUME NEW candidates, NEW n, NEW S \in Window(candidates, n)
  PROVE  S \subseteq candidates
BY DEF Window

\* What a row really holds is a well-typed snapshot.
LEMMA SnapshotType ==
  ASSUME TypeOK, NEW j \in Job
  PROVE  Snapshot(j) \in Snapshots /\ Snapshot(j).attempts = attempts[j]
BY LedgerAssumption DEF TypeOK, Snapshot, Snapshots

\* PostgreSQL's claim preserves the invariant.
LEMMA ClaimFromInvariant ==
  ASSUME IInv, NEW w \in Worker, NEW rows \in SUBSET DueRows(moment[w]),
         ClaimFrom(w, rows)
  PROVE  IInv'
<1> DEFINE now == [j \in Job |-> Snapshot(j)]
<1>1. PICK won \in Window(rows, BatchLimit) :
        ClaimRows(won, now, moment[w]) /\ TakeBatch(w, won)
  BY DEF ClaimFrom
<1>2. won \subseteq DueRows(moment[w])
  BY WindowIsSubset
<1>3. won \in SUBSET Job /\ \A j \in won : attempts[j] < MaxAttempts
  BY <1>2, DueMayRetry
<1>4. now \in [Job -> Snapshots] /\ \A j \in won : now[j].attempts < MaxAttempts
  BY <1>3, SnapshotType DEF IInv
<1>5. QED
  BY <1>1, <1>3, <1>4, ClaimInvariant DEF ClaimFrom

\* SQLite's selection preserves the invariant.
LEMMA ClaimSelectInvariant ==
  ASSUME IInv, NEW w \in Worker, ClaimSelect(w)
  PROVE  IInv'
<1>0. PICK rows \in Window(DueRows(moment[w]), BatchLimit) :
        /\ picked' = [picked EXCEPT ![w] = rows]
        /\ seen' = [seen EXCEPT ![w] =
                      [j \in Job |-> IF j \in rows THEN Snapshot(j) ELSE Blank]]
  BY DEF ClaimSelect
<1>1. /\ TokensAreLatest' /\ OutcomeOfLatestClaim' /\ OpenJobsMayRetry'
      /\ leaseExpires' \in [Job -> Int]
      /\ UNCHANGED <<jobState, attempts, claimToken, nextAttempt, reportedBy,
                     claims, refunds>>
  BY RowsKept DEF ClaimSelect
<1>2. /\ rows \subseteq Job
      /\ \A j \in rows : jobState[j] \in Claimable /\ attempts[j] < MaxAttempts
  BY WindowIsSubset, DueMayRetry
<1>3. [j \in Job |-> IF j \in rows THEN Snapshot(j) ELSE Blank] \in [Job -> Snapshots]
  BY SnapshotType, AllBlankType DEF IInv, AllBlank
<1>4. TypeOK'
  <2>1. picked' \in [Worker -> SUBSET Job] /\ seen' \in [Worker -> [Job -> Snapshots]]
    BY <1>0, <1>2, <1>3 DEF IInv, TypeOK
  <2>2. QED
    BY <1>1, <2>1 DEF ClaimSelect, Goto, IInv, TypeOK, Stages
<1>5. SelectedMayRetry'
  <2> SUFFICES ASSUME NEW v \in Worker, NEW j \in picked'[v]
               PROVE  seen'[v][j].state \in Claimable /\ seen'[v][j].attempts < MaxAttempts
    BY DEF SelectedMayRetry
  <2>1. CASE v # w
    BY <1>0, <2>1 DEF IInv, TypeOK, SelectedMayRetry
  <2>2. CASE v = w
    <3>1. j \in rows /\ j \in Job /\ seen'[w][j] = Snapshot(j)
      BY <1>0, <1>2, <2>2 DEF IInv, TypeOK
    <3>2. QED
      BY <1>2, <2>2, <3>1 DEF Snapshot
  <2>3. QED
    BY <2>1, <2>2
<1>6. HeldTokensIssued' /\ PlansInThePast'
  BY <1>1 DEF IInv, TypeOK, HeldTokensIssued, PlansInThePast, ClaimSelect
<1>7. WorksOnClaim'
  BY <1>1 DEF IInv, TypeOK, WorksOnClaim, MyToken, ClaimSelect, Goto
<1>8. ReadIsCurrent'
  BY <1>1 DEF IInv, TypeOK, ReadIsCurrent, OwnsCurrent, Owns, MyToken, ClaimSelect, Goto
<1>9. QED
  BY <1>1, <1>4, <1>5, <1>6, <1>7, <1>8 DEF IInv

\* SQLite's compare-and-swap preserves the invariant.
LEMMA ClaimSwapInvariant ==
  ASSUME IInv, NEW w \in Worker, ClaimSwap(w)
  PROVE  IInv'
<1> DEFINE won == { j \in picked[w] : StillMatches(j, seen[w][j]) }
<1>1. ClaimRows(won, seen[w], moment[w]) /\ TakeBatch(w, won)
  BY DEF ClaimSwap
<1>2. won \in SUBSET Job /\ seen[w] \in [Job -> Snapshots]
  BY DEF IInv, TypeOK
<1>3. \A j \in won : seen[w][j].attempts < MaxAttempts
  BY DEF IInv, SelectedMayRetry
<1> HIDE DEF won
<1>4. QED
  BY <1>1, <1>2, <1>3, ClaimInvariant DEF ClaimSwap

\* The clock only moves forward.
LEMMA TickInvariant ==
  ASSUME IInv, Tick
  PROVE  IInv'
<1> USE DEF Tick, ledgerVars, rowVars, workerVars
<1>1. TypeOK' /\ PlansInThePast'
  BY DEF IInv, TypeOK, PlansInThePast
<1>2. TokensAreLatest' /\ HeldTokensIssued' /\ SelectedMayRetry' /\ WorksOnClaim'
  BY DEF IInv, TokensAreLatest, HeldTokensIssued, SelectedMayRetry, WorksOnClaim, MyToken
<1>3. ReadIsCurrent' /\ OutcomeOfLatestClaim' /\ OpenJobsMayRetry'
  BY DEF IInv, ReadIsCurrent, OutcomeOfLatestClaim, OpenJobsMayRetry, OwnsCurrent, Owns, MyToken
<1>4. QED
  BY <1>1, <1>2, <1>3 DEF IInv

\* Every step preserves the invariant.
LEMMA StepInvariant == IInv /\ [Next]_vars => IInv'
<1> SUFFICES ASSUME IInv, [Next]_vars PROVE IInv'
  OBVIOUS
<1>1. CASE Tick
  BY <1>1, TickInvariant
<1>2. ASSUME NEW w \in Worker, WorkerStep(w) PROVE IInv'
  <2>1. CASE StartTick(w) \/ EndTick(w)
    BY <2>1, StartTickInvariant, EndTickInvariant
  <2>2. CASE \E j \in Job : Materialise(w, j)
    BY <2>2, EnqueueInvariant DEF Materialise
  <2>3. CASE ClaimLocked(w)
    BY <2>3, ClaimFromInvariant DEF ClaimLocked
  <2>4. CASE ClaimPastLocked(w)
    BY <2>4, ClaimFromInvariant DEF ClaimPastLocked
  <2>5. CASE ClaimSelect(w) \/ ClaimSwap(w)
    BY <2>5, ClaimSelectInvariant, ClaimSwapInvariant
  <2>6. CASE \E j \in Job : EnterGuard(w, j)
    BY <2>6, EnterGuardInvariant
  <2>7. CASE Heartbeat(w) \/ FinishWork(w)
    BY <2>7, HeartbeatInvariant, FinishWorkInvariant
  <2>8. CASE AckSuccess(w) \/ ReadAttempts(w)
    BY <2>8, AckSuccessInvariant, ReadAttemptsInvariant
  <2>9. CASE RecordFailure(w) \/ DeferForBudget(w)
    BY <2>9, RecordFailureInvariant, DeferForBudgetInvariant
  <2>10. QED
    BY <1>2, <2>1, <2>2, <2>3, <2>4, <2>5, <2>6, <2>7, <2>8, <2>9 DEF WorkerStep
<1>3. ASSUME NEW w \in Worker, Crash(w) PROVE IInv'
  BY <1>3, CrashInvariant
<1>4. CASE UNCHANGED vars
  <2> USE <1>4 DEF vars, ledgerVars, rowVars, workerVars
  <2>1. TypeOK' /\ PlansInThePast'
    BY DEF IInv, TypeOK, PlansInThePast
  <2>2. TokensAreLatest' /\ HeldTokensIssued' /\ SelectedMayRetry' /\ WorksOnClaim'
    BY DEF IInv, TokensAreLatest, HeldTokensIssued, SelectedMayRetry, WorksOnClaim, MyToken
  <2>3. ReadIsCurrent' /\ OutcomeOfLatestClaim' /\ OpenJobsMayRetry'
    BY DEF IInv, ReadIsCurrent, OutcomeOfLatestClaim, OpenJobsMayRetry, OwnsCurrent, Owns, MyToken
  <2>4. QED
    BY <2>1, <2>2, <2>3 DEF IInv
<1>5. QED
  BY <1>1, <1>2, <1>3, <1>4 DEF Next

\* The invariant holds throughout: IInv is inductive.
THEOREM Invariance == Spec => []IInv
BY InitInvariant, StepInvariant, PTL DEF Spec

---------------------------------------------------------------------------
(***************************************************************************)
(* What follows from the inductive invariant: the safety invariants, the   *)
(* finality of terminal rows, and that the ledger implements the promise   *)
(* of JobOutcomes.                                                         *)
(***************************************************************************)


\* Every variable keeps its type, and no row is ever charged more attempts than
\* MAX_ATTEMPTS, whichever database the workers share.
THEOREM TypeCorrect == Spec => []TypeOK
<1>1. IInv => TypeOK
  BY DEF IInv
<1>2. QED
  BY <1>1, Invariance, PTL

\* A row only ever shows what its latest claim reported.
THEOREM NoStaleOutcome == Spec => []OutcomeOfLatestClaim
<1>1. IInv => OutcomeOfLatestClaim
  BY DEF IInv
<1>2. QED
  BY <1>1, Invariance, PTL

\* A row left open by a failure or a deferral is under the attempt ceiling.
THEOREM OpenIsClaimable == Spec => []OpenJobsMayRetry
<1>1. IInv => OpenJobsMayRetry
  BY DEF IInv
<1>2. QED
  BY <1>1, Invariance, PTL

---------------------------------------------------------------------------
(***************************************************************************)
(* Everything a step can do to the table                                   *)
(***************************************************************************)

\* The columns a lease renewal leaves alone.
RowsSame ==
  UNCHANGED <<jobState, attempts, claimToken, nextAttempt, reportedBy, claims,
              refunds>>

\* No worker is between a selection and its compare-and-swap.
NoSwapPending == \A w \in Worker : pc[w] # "claiming"

\* A claim of rows that are all open to one; a claim that locks the rows it
\* selects takes only due ones, and writes them from what they really hold.
ClaimsOpenRows ==
  \E w \in Worker, won \in SUBSET Job, rows \in [Job -> Snapshots] :
    /\ ClaimRows(won, rows, moment[w])
    /\ \A j \in won : jobState[j] \in Claimable
    /\ NoSwapPending => \A j \in won : Due(j, moment[w]) /\ rows[j] = Snapshot(j)

\* A report by the latest claim of a row.
HolderReports ==
  \E w \in Worker, j \in Job, verdict \in Terminal \cup {"FAILED_RETRYABLE", "DEFERRED"},
     retryAt \in Int :
    /\ Complete(j, claims[j], verdict, retryAt)
    /\ \/ UNCHANGED <<attempts, refunds>>
       \/ GiveBack(j) /\ refunds' = [refunds EXCEPT ![j] = @ + 1]

\* A token a worker still owns a row with is the row's latest.
LEMMA OwnedTokenIsLatest ==
  ASSUME IInv, NEW j \in Job, NEW token, Owns(j, token)
  PROVE  token = claims[j]
BY DEF IInv, TokensAreLatest, Owns

\* Every step leaves the rows alone, inserts one, claims open ones, or is a
\* report by the latest claim.
LEMMA StepKinds ==
  ASSUME IInv, [Next]_vars
  PROVE  RowsSame \/ (\E j \in Job : Enqueue(j)) \/ ClaimsOpenRows \/ HolderReports
<1>1. CASE Tick \/ UNCHANGED vars
  BY <1>1 DEF Tick, vars, RowsSame, ledgerVars, rowVars
<1>2. ASSUME NEW w \in Worker, Crash(w) PROVE RowsSame
  BY <1>2 DEF Crash, RowsSame, ledgerVars, rowVars
<1>3. ASSUME NEW w \in Worker, WorkerStep(w)
      PROVE  RowsSame \/ (\E j \in Job : Enqueue(j)) \/ ClaimsOpenRows \/ HolderReports
  <2>1. CASE StartTick(w) \/ EndTick(w) \/ ClaimSelect(w) \/ ReadAttempts(w) \/ FinishWork(w)
    BY <2>1 DEF StartTick, EndTick, ClaimSelect, ReadAttempts, FinishWork, RowsSame,
                ledgerVars, rowVars
  <2>2. CASE \E j \in Job : Materialise(w, j)
    BY <2>2 DEF Materialise
  <2>3. CASE (\E j \in Job : EnterGuard(w, j)) \/ Heartbeat(w)
    BY <2>3 DEF EnterGuard, Heartbeat, RenewLease, RowsSame, ledgerVars, rowVars
  <2>4. ASSUME NEW rows \in SUBSET DueRows(moment[w]), ClaimFrom(w, rows)
        PROVE  ClaimsOpenRows
    <3> DEFINE now == [j \in Job |-> Snapshot(j)]
    <3>1. PICK won \in Window(rows, BatchLimit) : ClaimRows(won, now, moment[w])
      BY <2>4 DEF ClaimFrom
    <3>2. \A j \in won : j \in Job /\ jobState[j] \in Claimable /\ Due(j, moment[w])
      BY WindowIsSubset, DueMayRetry DEF DueRows
    <3>3. now \in [Job -> Snapshots] /\ \A j \in won : now[j] = Snapshot(j)
      BY <3>2, SnapshotType DEF IInv
    <3> HIDE DEF now
    <3>4. QED
      BY <3>1, <3>2, <3>3 DEF ClaimsOpenRows
  <2>5. CASE ClaimLocked(w) \/ ClaimPastLocked(w)
    BY <2>4, <2>5 DEF ClaimLocked, ClaimPastLocked
  <2>6. CASE ClaimSwap(w)
    <3> DEFINE won == { j \in picked[w] : StillMatches(j, seen[w][j]) }
    <3>1. ClaimRows(won, seen[w], moment[w])
      BY <2>6 DEF ClaimSwap
    <3>2. won \in SUBSET Job /\ seen[w] \in [Job -> Snapshots]
      BY DEF IInv, TypeOK
    <3>3. \A j \in won : jobState[j] \in Claimable
      BY DEF IInv, SelectedMayRetry, StillMatches
    <3> HIDE DEF won
    <3>4. QED
      BY <2>6, <3>1, <3>2, <3>3 DEF ClaimsOpenRows, NoSwapPending, ClaimSwap
  <2>7. CASE AckSuccess(w) \/ RecordFailure(w) \/ DeferForBudget(w)
    <3> DEFINE j == current[w]
    <3>1. j \in Job /\ moment[w] \in Nat /\ tries[w] \in Nat
      BY <2>7 DEF IInv, TypeOK, WorksOnClaim, AckSuccess, RecordFailure, DeferForBudget
    <3>2. ASSUME NEW verdict \in Terminal \cup {"FAILED_RETRYABLE", "DEFERRED"},
                 NEW retryAt \in Int, Complete(j, MyToken(w), verdict, retryAt),
                 \/ UNCHANGED <<attempts, refunds>>
                 \/ GiveBack(j) /\ refunds' = [refunds EXCEPT ![j] = @ + 1]
          PROVE  HolderReports
      BY <3>1, <3>2, OwnedTokenIsLatest DEF HolderReports, Complete
    <3>3. NoTime \in Int /\ moment[w] + BackoffFor(tries[w]) \in Int
          /\ NextBudgetReset(j, moment[w]) \in Int
      BY <3>1, LedgerAssumption, RunnerAssumption DEF NoTime, BackoffFor, NextBudgetReset
    <3>4. CASE AckSuccess(w)
      BY <3>2, <3>3, <3>4
         DEF AckSuccess, Report, MarkSucceeded, Terminal, RowsSame, ledgerVars, rowVars
    <3>5. CASE RecordFailure(w)
      BY <3>2, <3>3, <3>5
         DEF RecordFailure, Report, MarkFailed, Terminal, RowsSame, ledgerVars, rowVars
    <3>6. CASE DeferForBudget(w)
      BY <3>2, <3>3, <3>6
         DEF DeferForBudget, Report, MarkDeferred, MarkSkipped, Terminal, RowsSame,
             ledgerVars, rowVars
    <3>7. QED
      BY <2>7, <3>4, <3>5, <3>6
  <2>8. QED
    BY <1>3, <2>1, <2>2, <2>3, <2>5, <2>6, <2>7 DEF WorkerStep
<1>4. QED
  BY <1>1, <1>2, <1>3 DEF Next

---------------------------------------------------------------------------
(***************************************************************************)
(* Terminal rows                                                           *)
(***************************************************************************)

\* One step never touches a terminal row.
LEMMA TerminalStep ==
  ASSUME IInv, [Next]_vars, NEW j \in Job, jobState[j] \in Terminal
  PROVE  /\ jobState'[j] = jobState[j]
         /\ attempts'[j] = attempts[j]
         /\ reportedBy'[j] = reportedBy[j]
         /\ claims'[j] = claims[j]
<1> USE DEF IInv, TypeOK, Terminal, Claimable
<1>1. CASE RowsSame
  BY <1>1 DEF RowsSame
<1>2. CASE \E k \in Job : Enqueue(k)
  BY <1>2 DEF Enqueue
<1>3. CASE ClaimsOpenRows
  BY <1>3 DEF ClaimsOpenRows, ClaimRows
<1>4. CASE HolderReports
  BY <1>4 DEF HolderReports, Complete, Owns, GiveBack
<1>5. QED
  BY <1>1, <1>2, <1>3, <1>4, StepKinds

\* Terminal rows are final, on either database: no late report, renewal or claim
\* from an old read touches one.
THEOREM TerminalRowsAreFinal == Spec => TerminalIsFinal
<1> DEFINE Kept ==
      \A j \in Job :
        jobState[j] \in Terminal =>
          /\ jobState'[j] = jobState[j]
          /\ attempts'[j] = attempts[j]
          /\ reportedBy'[j] = reportedBy[j]
          /\ claims'[j] = claims[j]
<1>1. IInv /\ [Next]_vars => [Kept]_vars
  BY TerminalStep
<1> HIDE DEF Kept
<1>2. Spec => [][Kept]_vars
  BY <1>1, Invariance, PTL DEF Spec
<1>3. QED
  BY <1>2 DEF Kept, TerminalIsFinal

---------------------------------------------------------------------------
(***************************************************************************)
(* The ledger implements JobOutcomes                                       *)
(***************************************************************************)

\* Every step keeps the promise or is invisible to it.
LEMMA PromiseStep ==
  ASSUME IInv, [Next]_vars
  PROVE  [Promise!OutcomesNext]_(Promise!outcomeVars)
<1> USE DEF IInv, TypeOK
<1>1. CASE RowsSame
  BY <1>1 DEF RowsSame, Promise!outcomeVars
<1>2. ASSUME NEW j \in Job, Enqueue(j) PROVE Promise!Offer(j)
  BY <1>2 DEF Enqueue, Promise!Offer, PhaseOf
<1>3. CASE ClaimsOpenRows
  <2>1. PICK won \in SUBSET Job :
          /\ \A j \in won : jobState[j] \in Claimable
          /\ \E w \in Worker, rows \in [Job -> Snapshots] : ClaimRows(won, rows, moment[w])
    BY <1>3 DEF ClaimsOpenRows
  <2>2. Promise!Assign(won)
    BY <2>1 DEF ClaimRows, Promise!Assign, PhaseOf, Claimable
  <2>3. QED
    BY <2>2 DEF Promise!OutcomesNext
<1>4. CASE HolderReports
  <2>1. PICK j \in Job, verdict \in Terminal \cup {"FAILED_RETRYABLE", "DEFERRED"} :
          \E retryAt \in Int : Complete(j, claims[j], verdict, retryAt)
    BY <1>4 DEF HolderReports
  <2>2. PhaseOf(verdict) \in Promise!Verdict \cup {"open"}
    BY DEF PhaseOf, Promise!Verdict, Terminal
  <2>3. Promise!Conclude(j, PhaseOf(verdict))
    <3>1. PhaseOf(jobState[j]) = "held"
      BY <2>1 DEF Complete, Owns, PhaseOf
    <3>2. jobState' = [jobState EXCEPT ![j] = verdict]
      BY <2>1 DEF Complete
    <3>3. [k \in Job |-> PhaseOf(jobState'[k])]
            = [[k \in Job |-> PhaseOf(jobState[k])] EXCEPT ![j] = PhaseOf(verdict)]
      BY <3>2
    <3>4. reportedBy' = [reportedBy EXCEPT ![j] = claims[j]] /\ claims' = claims
      BY <2>1 DEF Complete
    <3>5. QED
      BY <3>1, <3>3, <3>4 DEF Promise!Conclude
  <2>4. QED
    BY <2>2, <2>3 DEF Promise!OutcomesNext
<1>5. QED
  BY <1>1, <1>2, <1>3, <1>4, StepKinds DEF Promise!OutcomesNext

\* The workers implement the promise: one holder per epoch, and only the latest
\* claim gives an occurrence back or settles it.
THEOREM Implements == Spec => KeepsPromise
<1>1. Init => Promise!OutcomesInit
  BY DEF Init, LedgerInit, Promise!OutcomesInit, PhaseOf, NoToken
<1>2. IInv /\ [Next]_vars => [Promise!OutcomesNext]_(Promise!outcomeVars)
  BY PromiseStep
<1>3. QED
  BY <1>1, <1>2, Invariance, PTL DEF Spec, Promise!OutcomesSpec, KeepsPromise

---------------------------------------------------------------------------
(***************************************************************************)
(* With row locks (PostgreSQL), no worker writes from an old read          *)
(***************************************************************************)

\* Row locks leave no step between selecting a row and writing it.
LEMMA LocksLeaveNoSwap ==
  ASSUME RowLocks
  PROVE  Spec => []NoSwapPending
<1>1. Init => NoSwapPending
  BY DEF Init, NoSwapPending
<1>2. ASSUME IInv, NoSwapPending, [Next]_vars PROVE NoSwapPending'
  <2>0. pc \in [Worker -> Stages] /\ \A w \in Worker : pc[w] # "claiming"
    BY <1>2 DEF IInv, TypeOK, NoSwapPending
  <2> USE <2>0 DEF NoSwapPending
  <2>1. CASE Tick \/ UNCHANGED vars
    BY <2>1 DEF Tick, vars, workerVars
  <2>2. ASSUME NEW w \in Worker, Crash(w) PROVE NoSwapPending'
    BY <2>2 DEF Crash, Goto
  <2>3. ASSUME NEW w \in Worker, WorkerStep(w) PROVE NoSwapPending'
    <3>1. CASE \/ StartTick(w) \/ EndTick(w) \/ ReadAttempts(w) \/ Heartbeat(w)
               \/ \E j \in Job : Materialise(w, j) \/ EnterGuard(w, j)
      BY <3>1 DEF StartTick, EndTick, ReadAttempts, Heartbeat, Materialise, EnterGuard,
                  Goto, workerVars
    <3>2. CASE ClaimLocked(w) \/ ClaimPastLocked(w)
      BY <3>2 DEF ClaimLocked, ClaimPastLocked, ClaimFrom, TakeBatch, Goto
    <3>3. CASE ClaimSelect(w) \/ ClaimSwap(w)
      BY <3>3, RowLocks DEF ClaimSelect, ClaimSwap
    <3>4. CASE \/ FinishWork(w) \/ AckSuccess(w) \/ RecordFailure(w)
               \/ DeferForBudget(w)
      BY <3>4 DEF FinishWork, AckSuccess, RecordFailure, DeferForBudget, Report, NextJob,
                  Goto
    <3>5. QED
      BY <2>3, <3>1, <3>2, <3>3, <3>4 DEF WorkerStep
  <2>4. QED
    BY <1>2, <2>1, <2>2, <2>3 DEF Next
<1>3. QED
  BY <1>1, <1>2, Invariance, PTL DEF Spec

\* A row that a step claims was due at the claimant's planning instant.
LEMMA ClaimedWasDue ==
  ASSUME IInv, NoSwapPending, [Next]_vars, NEW j \in Job, claims'[j] # claims[j]
  PROVE  \E w \in Worker : Due(j, moment[w]) /\ moment[w] \in Nat /\ moment[w] <= clock
<1>1. CASE RowsSame
  BY <1>1 DEF RowsSame
<1>2. CASE \E k \in Job : Enqueue(k)
  BY <1>2 DEF Enqueue
<1>3. CASE HolderReports
  BY <1>3 DEF HolderReports, Complete
<1>4. CASE ClaimsOpenRows
  <2>1. PICK w \in Worker, won \in SUBSET Job, rows \in [Job -> Snapshots] :
          ClaimRows(won, rows, moment[w]) /\ \A k \in won : Due(k, moment[w])
    BY <1>4 DEF ClaimsOpenRows
  <2>2. j \in won
    BY <2>1 DEF ClaimRows, IInv, TypeOK
  <2>3. QED
    BY <2>1, <2>2 DEF IInv, TypeOK, PlansInThePast
<1>5. QED
  BY <1>1, <1>2, <1>3, <1>4, StepKinds

\* On PostgreSQL a running job changes hands only after its lease has expired.
THEOREM LiveLeasesAreKept ==
  ASSUME RowLocks
  PROVE  Spec => LiveLeaseKept
<1> DEFINE Kept ==
      \A j \in Job :
        jobState[j] = "RUNNING" /\ claims'[j] # claims[j] => leaseExpires[j] <= clock
<1>1. ASSUME IInv, NoSwapPending, [Next]_vars PROVE Kept
  <2> SUFFICES ASSUME NEW j \in Job, jobState[j] = "RUNNING", claims'[j] # claims[j]
               PROVE  leaseExpires[j] <= clock
    OBVIOUS
  <2>1. PICK w \in Worker : Due(j, moment[w]) /\ moment[w] \in Nat /\ moment[w] <= clock
    BY <1>1, ClaimedWasDue
  <2>2. leaseExpires[j] \in Int /\ clock \in Nat
    BY <1>1 DEF IInv, TypeOK
  <2>3. QED
    BY <2>1, <2>2 DEF Due, LeaseExpired
<1> HIDE DEF Kept
<1>2. Spec => [][Kept]_vars
  BY <1>1, Invariance, LocksLeaveNoSwap, PTL DEF Spec
<1>3. QED
  BY <1>2 DEF Kept, LiveLeaseKept

\* On PostgreSQL no claim cuts a backoff or a budget deferral short.
THEOREM BackoffsAreRespected ==
  ASSUME RowLocks
  PROVE  Spec => BackoffRespected
<1> DEFINE Kept ==
      \A j \in Job :
        jobState[j] \in {"FAILED_RETRYABLE", "DEFERRED"} /\ claims'[j] # claims[j] =>
          nextAttempt[j] <= clock
<1>1. ASSUME IInv, NoSwapPending, [Next]_vars PROVE Kept
  <2> SUFFICES ASSUME NEW j \in Job, jobState[j] \in {"FAILED_RETRYABLE", "DEFERRED"},
                      claims'[j] # claims[j]
               PROVE  nextAttempt[j] <= clock
    OBVIOUS
  <2>1. PICK w \in Worker : Due(j, moment[w]) /\ moment[w] \in Nat /\ moment[w] <= clock
    BY <1>1, ClaimedWasDue
  <2>2. nextAttempt[j] \in Int /\ clock \in Nat
    BY <1>1 DEF IInv, TypeOK
  <2>3. QED
    BY <2>1, <2>2 DEF Due, Ready
<1> HIDE DEF Kept
<1>2. Spec => [][Kept]_vars
  BY <1>1, Invariance, LocksLeaveNoSwap, PTL DEF Spec
<1>3. QED
  BY <1>2 DEF Kept, BackoffRespected

\* A running job has been charged at least the attempt it is running.
RunningIsCharged == \A j \in Job : jobState[j] = "RUNNING" => attempts[j] >= 1

\* On PostgreSQL every claim is either charged or was refunded by the budget.
THEOREM AttemptsAreAccounted ==
  ASSUME RowLocks
  PROVE  Spec => []AttemptsAccounted
<1>1. Init => AttemptsAccounted /\ RunningIsCharged
  BY DEF Init, LedgerInit, AttemptsAccounted, RunningIsCharged
<1>2. ASSUME IInv, NoSwapPending, AttemptsAccounted, RunningIsCharged, [Next]_vars
      PROVE  AttemptsAccounted' /\ RunningIsCharged'
  <2>0. /\ jobState \in [Job -> JobStates] /\ attempts \in [Job -> 0..MaxAttempts]
        /\ claims \in [Job -> Nat] /\ refunds \in [Job -> Nat]
    BY <1>2 DEF IInv, TypeOK
  <2> USE <2>0, LedgerAssumption DEF AttemptsAccounted, RunningIsCharged
  <2>1. CASE RowsSame
    BY <1>2, <2>1 DEF RowsSame
  <2>2. CASE \E j \in Job : Enqueue(j)
    BY <1>2, <2>2 DEF Enqueue
  <2>3. CASE ClaimsOpenRows
    <3>1. PICK w \in Worker, won \in SUBSET Job, rows \in [Job -> Snapshots] :
            ClaimRows(won, rows, moment[w]) /\ \A j \in won : rows[j] = Snapshot(j)
      BY <1>2, <2>3 DEF ClaimsOpenRows
    <3>2. \A j \in won : rows[j].attempts = attempts[j]
      BY <1>2, <3>1, SnapshotType DEF IInv
    <3>3. QED
      BY <1>2, <3>1, <3>2 DEF ClaimRows
  <2>4. CASE HolderReports
    BY <1>2, <2>4 DEF HolderReports, Complete, Owns, GiveBack, Terminal
  <2>5. QED
    BY <1>2, <2>1, <2>2, <2>3, <2>4, StepKinds
<1>3. QED
  BY <1>1, <1>2, Invariance, LocksLeaveNoSwap, PTL DEF Spec

---------------------------------------------------------------------------
(***************************************************************************)
(* With row locks and heartbeats in time, `lost` is a sound answer         *)
(***************************************************************************)

\* Tokens stay unique: a claim hands out one that was never issued.
LEMMA OneHolderStep ==
  ASSUME IInv, OneHolderPerToken, [Next]_vars
  PROVE  OneHolderPerToken'
<1>0. /\ held \in [Worker -> [Job -> Nat]] /\ claims \in [Job -> Nat]
      /\ \A u \in Worker, k \in Job : held[u][k] <= claims[k]
  BY DEF IInv, TypeOK, HeldTokensIssued
<1> USE <1>0 DEF OneHolderPerToken, NoToken
<1>1. CASE UNCHANGED held
  BY <1>1
<1>2. ASSUME NEW w \in Worker, NEW won, TakeBatch(w, won) PROVE OneHolderPerToken'
  BY <1>2 DEF TakeBatch
<1>3. ASSUME NEW w \in Worker, NextJob(w) PROVE OneHolderPerToken'
  BY <1>3 DEF NextJob
<1>4. ASSUME NEW w \in Worker, Crash(w) PROVE OneHolderPerToken'
  BY <1>4 DEF Crash, NoClaims
<1>5. ASSUME NEW w \in Worker, WorkerStep(w) PROVE OneHolderPerToken'
  <2>1. CASE \/ StartTick(w) \/ EndTick(w) \/ ReadAttempts(w) \/ Heartbeat(w) \/ ClaimSelect(w)
             \/ \E j \in Job : Materialise(w, j) \/ EnterGuard(w, j)
    BY <1>1, <2>1 DEF StartTick, EndTick, ReadAttempts, Heartbeat, ClaimSelect, Materialise,
                      EnterGuard, workerVars
  <2>2. CASE ClaimLocked(w) \/ ClaimPastLocked(w) \/ ClaimSwap(w)
    BY <1>2, <2>2 DEF ClaimLocked, ClaimPastLocked, ClaimFrom, ClaimSwap
  <2>3. CASE FinishWork(w) \/ AckSuccess(w) \/ RecordFailure(w) \/ DeferForBudget(w)
    BY <1>1, <1>3, <2>3 DEF FinishWork, AckSuccess, RecordFailure, DeferForBudget, Report
  <2>4. QED
    BY <1>5, <2>1, <2>2, <2>3 DEF WorkerStep
<1>6. CASE Tick \/ UNCHANGED vars
  BY <1>1, <1>6 DEF Tick, vars, workerVars
<1>7. QED
  BY <1>4, <1>5, <1>6 DEF Next

\* What UnlostIsAlive says of one worker.
Alive(w) ==
  Running(w) /\ ~lost[w] =>
    beating[w] /\ OwnsCurrent(w) /\ leaseExpires[current[w]] > clock

\* A worker's own step leaves it alive, or not running.
LEMMA OwnStepAlive ==
  ASSUME IInv, PromptHeartbeat, NEW w \in Worker, Alive(w), WorkerStep(w) \/ Crash(w)
  PROVE  Alive(w)'
<1>0. /\ pc \in [Worker -> Stages] /\ lost \in [Worker -> BOOLEAN]
      /\ beating \in [Worker -> BOOLEAN] /\ current \in [Worker -> Job \cup {NoJob}]
      /\ held \in [Worker -> [Job -> Nat]] /\ leaseExpires \in [Job -> Int] /\ clock \in Nat
  BY DEF IInv, TypeOK
<1> USE <1>0 DEF Alive, Running
<1>1. CASE \E j \in Job : EnterGuard(w, j)
  BY <1>1, LedgerAssumption DEF EnterGuard, RenewLease, Goto, OwnsCurrent, Owns, MyToken
<1>2. CASE Heartbeat(w)
  <2>1. current[w] \in Job
    BY <1>2 DEF IInv, WorksOnClaim, Heartbeat
  <2>2. QED
    BY <1>2, <2>1, LedgerAssumption DEF Heartbeat, RenewLease, OwnsCurrent, Owns, MyToken
<1>3. CASE pc'[w] # "executing"
  BY <1>3
<1>4. CASE StartTick(w) \/ EndTick(w) \/ ReadAttempts(w) \/ ClaimSelect(w) \/ Crash(w)
  BY <1>3, <1>4 DEF StartTick, EndTick, ReadAttempts, ClaimSelect, Crash, Goto
<1>5. CASE ClaimLocked(w) \/ ClaimPastLocked(w) \/ ClaimSwap(w)
  BY <1>3, <1>5 DEF ClaimLocked, ClaimPastLocked, ClaimFrom, ClaimSwap, TakeBatch, Goto
<1>6. CASE FinishWork(w) \/ AckSuccess(w) \/ RecordFailure(w) \/ DeferForBudget(w)
  BY <1>3, <1>6 DEF FinishWork, AckSuccess, RecordFailure, DeferForBudget, Report, NextJob,
                    Goto
<1>7. CASE \E j \in Job : Materialise(w, j)
  BY <1>3, <1>7 DEF Materialise, workerVars
<1>8. QED
  BY <1>1, <1>2, <1>4, <1>5, <1>6, <1>7 DEF WorkerStep

\* A worker's step leaves the others' variables alone.
LEMMA OthersKeepTheirs ==
  ASSUME IInv, NEW v \in Worker, NEW w \in Worker \ {v}, WorkerStep(v) \/ Crash(v)
  PROVE  /\ pc'[w] = pc[w] /\ lost'[w] = lost[w] /\ beating'[w] = beating[w]
         /\ held'[w] = held[w] /\ current'[w] = current[w] /\ clock' = clock
<1>0. /\ pc \in [Worker -> Stages] /\ lost \in [Worker -> BOOLEAN]
      /\ beating \in [Worker -> BOOLEAN] /\ current \in [Worker -> Job \cup {NoJob}]
      /\ held \in [Worker -> [Job -> Nat]]
  BY DEF IInv, TypeOK
<1> USE <1>0 DEF Goto
<1>1. CASE \/ StartTick(v) \/ EndTick(v) \/ ReadAttempts(v) \/ Heartbeat(v) \/ ClaimSelect(v)
           \/ Crash(v) \/ \E j \in Job : Materialise(v, j) \/ EnterGuard(v, j)
  BY <1>1 DEF StartTick, EndTick, ReadAttempts, Heartbeat, ClaimSelect, Crash, Materialise,
              EnterGuard, workerVars
<1>2. CASE ClaimLocked(v) \/ ClaimPastLocked(v) \/ ClaimSwap(v)
  BY <1>2 DEF ClaimLocked, ClaimPastLocked, ClaimFrom, ClaimSwap, TakeBatch
<1>3. CASE FinishWork(v) \/ AckSuccess(v) \/ RecordFailure(v) \/ DeferForBudget(v)
  BY <1>3 DEF FinishWork, AckSuccess, RecordFailure, DeferForBudget, Report, NextJob
<1>4. QED
  BY <1>1, <1>2, <1>3 DEF WorkerStep

\* What a worker can do to a row whose lease is live: nothing, extend the lease,
\* or report with the row's own token.
LEMMA LiveRowStep ==
  ASSUME IInv, NoSwapPending, NEW v \in Worker, WorkerStep(v) \/ Crash(v),
         NEW j \in Job, jobState[j] = "RUNNING", leaseExpires[j] > clock,
         held[v][j] # claimToken[j]
  PROVE  /\ jobState'[j] = jobState[j] /\ claimToken'[j] = claimToken[j]
         /\ leaseExpires'[j] = leaseExpires[j]
<1>0. /\ jobState \in [Job -> JobStates] /\ claimToken \in [Job -> Nat]
      /\ leaseExpires \in [Job -> Int] /\ clock \in Nat /\ moment[v] \in Nat
      /\ moment[v] <= clock
  BY DEF IInv, TypeOK, PlansInThePast
<1> USE <1>0
<1>1. CASE StartTick(v) \/ EndTick(v) \/ ReadAttempts(v) \/ ClaimSelect(v) \/ FinishWork(v) \/ Crash(v)
  BY <1>1 DEF StartTick, EndTick, ReadAttempts, ClaimSelect, FinishWork, Crash, ledgerVars, rowVars
<1>2. CASE \E k \in Job : Materialise(v, k)
  BY <1>2 DEF Materialise, Enqueue
<1>3. CASE (\E k \in Job : EnterGuard(v, k)) \/ Heartbeat(v)
  BY <1>3 DEF EnterGuard, Heartbeat, RenewLease, Owns, MyToken, ledgerVars, rowVars
<1>4. ASSUME NEW rows \in SUBSET DueRows(moment[v]), ClaimFrom(v, rows)
      PROVE  /\ jobState'[j] = jobState[j] /\ claimToken'[j] = claimToken[j]
             /\ leaseExpires'[j] = leaseExpires[j]
  <2>1. PICK won \in Window(rows, BatchLimit) :
          ClaimRows(won, [k \in Job |-> Snapshot(k)], moment[v])
    BY <1>4 DEF ClaimFrom
  <2>2. j \notin won
    BY WindowIsSubset DEF DueRows, Due, LeaseExpired
  <2>3. QED
    BY <2>1, <2>2 DEF ClaimRows
<1>5. CASE ClaimLocked(v) \/ ClaimPastLocked(v) \/ ClaimSwap(v)
  BY <1>4, <1>5 DEF ClaimLocked, ClaimPastLocked, ClaimSwap, NoSwapPending
<1>6. CASE AckSuccess(v) \/ RecordFailure(v) \/ DeferForBudget(v)
  <2>1. ASSUME NEW verdict, NEW retryAt, Complete(current[v], MyToken(v), verdict, retryAt)
        PROVE  /\ jobState'[j] = jobState[j] /\ claimToken'[j] = claimToken[j]
               /\ leaseExpires'[j] = leaseExpires[j]
    BY <2>1 DEF Complete, Owns, MyToken
  <2>2. CASE UNCHANGED ledgerVars
    BY <2>2 DEF ledgerVars, rowVars
  <2>3. QED
    BY <1>6, <2>1, <2>2 DEF AckSuccess, RecordFailure, DeferForBudget, Report, MarkSucceeded,
                            MarkFailed, MarkDeferred, MarkSkipped
<1>7. QED
  BY <1>1, <1>2, <1>3, <1>5, <1>6 DEF WorkerStep

\* While heartbeats arrive in time, a step leaves every unlost worker alive.
LEMMA AliveStep ==
  ASSUME IInv, NoSwapPending, OneHolderPerToken, UnlostIsAlive, PromptHeartbeat,
         [Next]_vars
  PROVE  UnlostIsAlive'
<1>1. SUFFICES ASSUME NEW w \in Worker PROVE Alive(w)'
  BY DEF UnlostIsAlive, Alive
<1>2. Alive(w)
  BY DEF UnlostIsAlive, Alive
<1>3. CASE UNCHANGED vars
  BY <1>2, <1>3 DEF Alive, Running, OwnsCurrent, Owns, MyToken, vars, ledgerVars, rowVars,
                    workerVars
<1>4. CASE Tick
  <2>1. clock \in Nat /\ leaseExpires \in [Job -> Int]
    BY DEF IInv, TypeOK
  <2>2. Running(w) => current[w] \in Job
    BY DEF IInv, WorksOnClaim, Running
  <2>3. QED
    BY <1>2, <1>4, <2>1, <2>2 DEF Tick, BeatsInTime, Alive, Running, OwnsCurrent, Owns, MyToken,
                                  ledgerVars, rowVars, workerVars
<1>5. CASE WorkerStep(w) \/ Crash(w)
  BY <1>2, <1>5, OwnStepAlive
<1>6. ASSUME NEW v \in Worker \ {w}, WorkerStep(v) \/ Crash(v) PROVE Alive(w)'
  <2>1. /\ pc'[w] = pc[w] /\ lost'[w] = lost[w] /\ beating'[w] = beating[w]
        /\ held'[w] = held[w] /\ current'[w] = current[w] /\ clock' = clock
    BY <1>6, OthersKeepTheirs
  <2> SUFFICES ASSUME Running(w), ~lost[w]
               PROVE  beating[w] /\ OwnsCurrent(w)' /\ leaseExpires'[current[w]] > clock
    BY <2>1 DEF Alive, Running
  <2>2. /\ current[w] \in Job /\ held[w][current[w]] # NoToken
        /\ jobState[current[w]] = "RUNNING" /\ claimToken[current[w]] = held[w][current[w]]
        /\ beating[w] /\ leaseExpires[current[w]] > clock
    BY <1>2 DEF Alive, OwnsCurrent, Owns, MyToken, IInv, WorksOnClaim, Running
  <2>3. held[v][current[w]] # claimToken[current[w]]
    BY <1>6, <2>2 DEF OneHolderPerToken
  <2>4. /\ jobState'[current[w]] = "RUNNING" /\ leaseExpires'[current[w]] > clock
        /\ claimToken'[current[w]] = held[w][current[w]]
    BY <1>6, <2>2, <2>3, LiveRowStep
  <2>5. QED
    BY <2>1, <2>2, <2>4 DEF OwnsCurrent, Owns, MyToken
<1>7. QED
  BY <1>3, <1>4, <1>5, <1>6 DEF Next

\* On PostgreSQL, while heartbeats arrive in time, a worker whose guard reports no
\* loss owns the job it is executing.
THEOREM UnlostOwns ==
  ASSUME RowLocks, PromptHeartbeat
  PROVE  Spec => []UnlostMeansOwned
<1>1. Init => OneHolderPerToken /\ UnlostIsAlive
  BY DEF Init, OneHolderPerToken, UnlostIsAlive, Running, NoClaims
<1>2. IInv /\ NoSwapPending /\ OneHolderPerToken /\ UnlostIsAlive /\ [Next]_vars
        => (OneHolderPerToken /\ UnlostIsAlive)'
  BY OneHolderStep, AliveStep
<1>3. UnlostIsAlive => UnlostMeansOwned
  BY DEF UnlostIsAlive, UnlostMeansOwned
<1>4. QED
  BY <1>1, <1>2, <1>3, Invariance, LocksLeaveNoSwap, PTL DEF Spec
===============================================================================
