---------------------------- MODULE BudgetLedger ----------------------------
(***************************************************************************)
(* The durable credit ledger of a paid provider (providers/budget.py): one *)
(* counter per UTC day, and one detail row per attempted request.  Every   *)
(* operator below is one database transaction.  The callers, and the       *)
(* provider that bills them, are in module ApiClient.                      *)
(***************************************************************************)
EXTENDS Integers, Sequences, SequencesExt

CONSTANTS
  Day,      \* the UTC calendar days
  Ceiling   \* provider_budget_per_day; 0 means that there is no ceiling

ASSUME BudgetAssumption == Ceiling \in Nat

VARIABLES
  counter,    \* provider_budget_days.reserved_total, per day
  observed,   \* provider_budget_days.observed_total, per day
  rows        \* provider_budget_ledger, in the order of its ids

budgetVars == <<counter, observed, rows>>

NoCost == -1   \* a NULL observed_cost, or an absent x-requests-last header

\* A detail row.  `billed` is history: what the provider charged for the attempt.
Row == [day : Day, reserved : Nat, observed : Nat \cup {NoCost},
        released : BOOLEAN, billed : Nat]

BudgetInit ==
  /\ counter  = [d \in Day |-> 0]
  /\ observed = [d \in Day |-> 0]
  /\ rows     = <<>>

\* effective_cost: what an attempt counts for; unknown means "as reserved".
Effective(r) ==
  IF r.released THEN 0 ELSE IF r.observed = NoCost THEN r.reserved ELSE r.observed

\* Mutated Fits: the ceiling is compared before the cost is added.
FitsBefore(d, cost) == Ceiling = 0 \/ counter[d] < Ceiling

\* The WHERE clause of _charge.
Fits(d, cost) == Ceiling = 0 \/ counter[d] + cost <= Ceiling

AtLeast(low, n) == IF n > low THEN n ELSE low

\* reserve(), once both ceilings agreed: count the estimate, insert the row.
Charge(d, cost) ==
  /\ Fits(d, cost)
  /\ counter' = [counter EXCEPT ![d] = @ + cost]
  /\ rows' = Append(rows, [day |-> d, reserved |-> cost, observed |-> NoCost,
                           released |-> FALSE, billed |-> 0])
  /\ UNCHANGED observed

\* _adjust: both totals are clamped at zero.
Adjust(d, delta, observedDelta) ==
  /\ counter'  = [counter EXCEPT ![d] = AtLeast(0, @ + delta)]
  /\ observed' = [observed EXCEPT ![d] = AtLeast(0, @ + observedDelta)]

\* Mutated Reconcile: the reported cost is added to the estimate it replaces.
ReconcileTwice(i, cost) ==
  IF cost = NoCost \/ rows[i].observed # NoCost \/ rows[i].released
    THEN UNCHANGED budgetVars
    ELSE /\ rows' = [rows EXCEPT ![i].observed = cost]
         /\ Adjust(rows[i].day, cost, cost)

\* reconcile(): the reported cost replaces the estimate, once.  An absent header
\* leaves the estimate in place.
Reconcile(i, cost) ==
  IF cost = NoCost \/ rows[i].observed # NoCost \/ rows[i].released
    THEN UNCHANGED budgetVars
    ELSE /\ rows' = [rows EXCEPT ![i].observed = cost]
         /\ Adjust(rows[i].day, cost - rows[i].reserved, cost)

\* release(): take back exactly what the row counted for.
Release(i) ==
  IF rows[i].released
    THEN UNCHANGED budgetVars
    ELSE /\ rows' = [rows EXCEPT ![i].observed = 0, ![i].released = TRUE]
         /\ Adjust(rows[i].day, -Effective(rows[i]), -AtLeast(0, rows[i].observed))

---------------------------------------------------------------------------
\* The sum of f(r) over the detail rows of a day.
DetailSum(d, f(_)) ==
  SumFunctionOnSet([i \in 1..Len(rows) |-> f(rows[i])],
                   {i \in 1..Len(rows) : rows[i].day = d})

\* verify_invariant: the day's counter is what its detail rows still owe, and
\* the observed total is the sum of the costs the provider reported.
LedgerAddsUp ==
  \A d \in Day :
    /\ counter[d] = DetailSum(d, Effective)
    /\ observed[d] = DetailSum(d, LAMBDA r : AtLeast(0, r.observed))
=============================================================================
