------------------------------ MODULE ApiClient ------------------------------
(***************************************************************************)
(* The HTTP client of the paid provider (providers/the_odds_api/client.py) *)
(* over the shared BudgetLedger.  Each worker owns one client per scan;    *)
(* get() reserves before every attempt, retries included, sends, and       *)
(* settles the reservation by what the outcome proves.  A step ends at the *)
(* next transaction or at the next event on the wire, so clients, the      *)
(* provider's billing, crashes and midnight interleave between any two.    *)
(*                                                                         *)
(* The free /sports listing (billable=False) takes no reservation and      *)
(* moves no counter: it is left out.                                       *)
(***************************************************************************)
EXTENDS BudgetLedger

CONSTANTS
  Client,      \* the workers' clients
  Cost,        \* what one call may be estimated at (estimate_cost)
  ScanBudget,  \* provider_budget_per_scan
  MaxRetries,  \* provider_max_retries
  LastDay,     \* bound on the days of a behaviour
  MaxCalls,    \* bound on the calls of a behaviour
  MaxCrashes   \* bound on the crashes of a behaviour

ASSUME ClientAssumption ==
  /\ Day = 0..LastDay
  /\ Cost \subseteq Nat \ {0}
  /\ ScanBudget \in Nat
  /\ MaxRetries \in Nat
  /\ LastDay \in Nat
  /\ MaxCalls \in Nat
  /\ MaxCrashes \in Nat

VARIABLES
  today,     \* the UTC day of the wall clock
  pc,        \* where each client is
  pinned,    \* self._now: the day fixed when the provider was built
  spent,     \* self._spent
  cost,      \* the estimate of the current call
  attempt,   \* its attempts so far
  ticket,    \* the reservation of its current attempt, 0 if none
  paid,      \* history: what the provider billed to this scan
  calls,     \* calls so far
  crashes    \* crashes so far

clientVars == <<pc, pinned, spent, cost, attempt, ticket>>
tallyVars  == <<today, paid, calls, crashes>>
vars       == <<budgetVars, clientVars, tallyVars>>

Stages  == {"none", "idle", "ready", "sending", "served"}

Init ==
  /\ BudgetInit
  /\ today    = 0
  /\ pc       = [c \in Client |-> "none"]
  /\ pinned   = [c \in Client |-> 0]
  /\ spent    = [c \in Client |-> 0]
  /\ cost     = [c \in Client |-> 0]
  /\ attempt  = [c \in Client |-> 0]
  /\ ticket   = [c \in Client |-> 0]
  /\ paid     = [c \in Client |-> 0]
  /\ calls    = 0
  /\ crashes  = 0

\* A scan builds its provider, and with it a client of its own.
NewClient(c) ==
  /\ pc[c] = "none"
  /\ pc'     = [pc EXCEPT ![c] = "idle"]
  /\ pinned' = [pinned EXCEPT ![c] = today]
  /\ UNCHANGED <<budgetVars, spent, cost, attempt, ticket, tallyVars>>

\* The scan is over, one way or the other: its client is gone.
Discard(c) ==
  /\ pc'      = [pc EXCEPT ![c] = "none"]
  /\ pinned'  = [pinned EXCEPT ![c] = 0]
  /\ spent'   = [spent EXCEPT ![c] = 0]
  /\ cost'    = [cost EXCEPT ![c] = 0]
  /\ attempt' = [attempt EXCEPT ![c] = 0]
  /\ ticket'  = [ticket EXCEPT ![c] = 0]
  /\ paid'    = [paid EXCEPT ![c] = 0]
  /\ UNCHANGED <<budgetVars, today, calls>>

EndScan(c) ==
  /\ pc[c] = "idle"
  /\ Discard(c)
  /\ UNCHANGED crashes

---------------------------------------------------------------------------
(***************************************************************************)
(* One call of get()                                                       *)
(***************************************************************************)

BeginCall(c, estimate) ==
  /\ pc[c] = "idle"
  /\ calls < MaxCalls
  /\ calls'   = calls + 1
  /\ cost'    = [cost EXCEPT ![c] = estimate]
  /\ attempt' = [attempt EXCEPT ![c] = 0]
  /\ ticket'  = [ticket EXCEPT ![c] = 0]
  /\ pc'      = [pc EXCEPT ![c] = "ready"]
  /\ UNCHANGED <<budgetVars, pinned, spent, today, paid, crashes>>

\* Mutated InScanBudget: the scan's budget is checked on the first attempt only.
CheckedOnEntry(c) == attempt[c] > 0 \/ spent[c] + cost[c] <= ScanBudget

InScanBudget(c) == spent[c] + cost[c] <= ScanBudget

\* Mutated Refuse: the call waits for a budget that nothing gives back.
WaitForBudget(c) ==
  /\ pc[c] = "ready"
  /\ ~(InScanBudget(c) /\ Fits(pinned[c], cost[c]))
  /\ ticket' = [ticket EXCEPT ![c] = 0]
  /\ UNCHANGED <<budgetVars, pc, pinned, spent, cost, attempt, tallyVars>>

\* reserve() refuses: BudgetExceeded leaves get(), whatever the attempt.
Refuse(c) ==
  /\ pc[c] = "ready"
  /\ ~(InScanBudget(c) /\ Fits(pinned[c], cost[c]))
  /\ pc' = [pc EXCEPT ![c] = "idle"]
  /\ ticket' = [ticket EXCEPT ![c] = 0]
  /\ UNCHANGED <<budgetVars, pinned, spent, cost, attempt, tallyVars>>

\* reserve() grants the attempt, on the day pinned at construction.
Reserve(c) ==
  /\ pc[c] = "ready"
  /\ InScanBudget(c)
  /\ Charge(pinned[c], cost[c])
  /\ attempt' = [attempt EXCEPT ![c] = @ + 1]
  /\ ticket'  = [ticket EXCEPT ![c] = Len(rows) + 1]
  /\ pc'      = [pc EXCEPT ![c] = "sending"]
  /\ UNCHANGED <<pinned, spent, cost, tallyVars>>

\* The request leaves; the provider may serve and bill it before we know.  The
\* estimate is the published upper bound of a bill (markets x regions).
Serve(c) ==
  /\ pc[c] = "sending"
  /\ pc'   = [pc EXCEPT ![c] = "served"]
  /\ \E bill \in 0..cost[c] :
       /\ rows' = [rows EXCEPT ![ticket[c]].billed = bill]
       /\ paid' = [paid EXCEPT ![c] = @ + bill]
  /\ UNCHANGED <<counter, observed, pinned, spent, cost, attempt, ticket, today,
                 calls, crashes>>

MayRetry(c) == attempt[c] <= MaxRetries

\* A retryable outcome: the next attempt, or the error once they are used up.
RetryOrEnd(c) == pc' = [pc EXCEPT ![c] = IF MayRetry(c) THEN "ready" ELSE "idle"]

\* A failure of NEVER_SENT that an except clause catches: nothing was sent, so the
\* reservation is released.
NeverLeaves(c) ==
  /\ pc[c] = "sending"
  /\ Release(ticket[c])
  /\ RetryOrEnd(c)
  /\ UNCHANGED <<pinned, spent, cost, attempt, ticket, tallyVars>>

\* httpx.InvalidURL is listed in NEVER_SENT, but it is neither a TimeoutException
\* nor a TransportError: it leaves get() past both except clauses.
NeverLeavesUncaught(c) ==
  /\ pc[c] = "sending"
  /\ pc' = [pc EXCEPT ![c] = "idle"]
  /\ UNCHANGED <<budgetVars, pinned, spent, cost, attempt, ticket, tallyVars>>

\* Mutated LoseAnswer: every transport failure is taken for free.
LoseAnswerForFree(c) ==
  /\ pc[c] \in {"sending", "served"}
  /\ Release(ticket[c])
  /\ RetryOrEnd(c)
  /\ UNCHANGED <<pinned, spent, cost, attempt, ticket, tallyVars>>

\* A read or write failure: the provider may have served the request, so the
\* reservation stays charged and the scan pays the estimate.
LoseAnswer(c) ==
  /\ pc[c] \in {"sending", "served"}
  /\ spent' = [spent EXCEPT ![c] = @ + cost[c]]
  /\ RetryOrEnd(c)
  /\ UNCHANGED <<budgetVars, pinned, cost, attempt, ticket, tallyVars>>

\* A response arrives.  Its cost header, when present, replaces the estimate, also
\* on an error status; 429 and 5xx are retried, everything else ends the call.
Answer(c) ==
  /\ pc[c] = "served"
  /\ \E header \in {rows[ticket[c]].billed, NoCost} :
       /\ spent' = [spent EXCEPT ![c] =
                      @ + (IF header = NoCost THEN cost[c] ELSE header)]
       /\ Reconcile(ticket[c], header)
  /\ RetryOrEnd(c) \/ pc' = [pc EXCEPT ![c] = "idle"]
  /\ UNCHANGED <<pinned, cost, attempt, ticket, tallyVars>>

---------------------------------------------------------------------------
\* The process dies, or a database error ends the scan: the client is gone, its
\* reservation stays as it is.
Crash(c) ==
  /\ pc[c] # "none"
  /\ crashes < MaxCrashes
  /\ crashes' = crashes + 1
  /\ Discard(c)

Midnight ==
  /\ today < LastDay
  /\ today' = today + 1
  /\ UNCHANGED <<budgetVars, clientVars, paid, calls, crashes>>

CallStep(c) ==
  Refuse(c) \/ Reserve(c) \/ NeverLeaves(c) \/ NeverLeavesUncaught(c)
    \/ LoseAnswer(c) \/ Answer(c)

Next ==
  \/ Midnight
  \/ \E c \in Client :
       \/ NewClient(c)
       \/ EndScan(c)
       \/ \E estimate \in Cost : BeginCall(c, estimate)
       \/ Serve(c)
       \/ CallStep(c)
       \/ Crash(c)

Spec == Init /\ [][Next]_vars

\* Every request ends: the HTTP timeout bounds it, the sleeps between attempts are
\* bounded, and a running client is scheduled again.
FairSpec == Spec /\ \A c \in Client : WF_vars(CallStep(c))

---------------------------------------------------------------------------
(***************************************************************************)
(* Properties                                                              *)
(***************************************************************************)

TypeOK ==
  /\ counter \in [Day -> Nat]
  /\ observed \in [Day -> Nat]
  /\ rows \in Seq(Row)
  /\ today \in Day
  /\ pc \in [Client -> Stages]
  /\ pinned \in [Client -> Day]
  /\ spent \in [Client -> Nat]
  /\ cost \in [Client -> Nat]
  /\ attempt \in [Client -> 0..MaxRetries + 1]
  /\ ticket \in [Client -> Nat]
  /\ paid \in [Client -> Nat]
  /\ calls \in Nat
  /\ crashes \in Nat

\* Nothing the provider billed is missing from the ledger, whatever was lost, and
\* wherever a process died (may_have_been_billed: "under-counting spend is the one
\* direction a budget must never err in").
BilledIsCounted ==
  \A i \in 1..Len(rows) : rows[i].billed <= Effective(rows[i])

\* Two workers on one database never pass the daily ceiling between them (_charge).
WithinCeiling ==
  Ceiling > 0 => \A d \in Day : counter[d] <= Ceiling

\* One scan is never billed more than its own budget, retries and lost answers
\* included (get: "the budget is checked per attempt").
WithinScanBudget == \A c \in Client : paid[c] <= ScanBudget

\* A call that was started ends, in an answer or in an error.
CallsEnd == \A c \in Client : pc[c] = "ready" ~> pc[c] \in {"idle", "none"}

---------------------------------------------------------------------------
(***************************************************************************)
(* The inductive invariant behind the safety properties                    *)
(***************************************************************************)

InFlight(c) == pc[c] \in {"sending", "served"}

\* The reservation of an attempt in flight is there, unsettled and its own.
TicketIsOpen ==
  \A c \in Client : InFlight(c) =>
    /\ ticket[c] \in 1..Len(rows)
    /\ rows[ticket[c]].observed = NoCost
    /\ ~rows[ticket[c]].released
    /\ rows[ticket[c]].reserved = cost[c]
    /\ rows[ticket[c]].billed <= cost[c]
    /\ pc[c] = "sending" => rows[ticket[c]].billed = 0

TicketsDiffer ==
  \A b, c \in Client :
    InFlight(b) /\ InFlight(c) /\ ticket[b] = ticket[c] => b = c

\* What a scan was billed is what it counts, but for the attempt in flight.
ScanAccount ==
  \A c \in Client :
    /\ spent[c] <= ScanBudget
    /\ InFlight(c) => spent[c] + cost[c] <= ScanBudget
    /\ pc[c] # "served" => paid[c] <= spent[c]
    /\ pc[c] = "served" => paid[c] <= spent[c] + rows[ticket[c]].billed

\* A client about to reserve has an attempt left.
AttemptsLeft ==
  \A c \in Client : pc[c] = "ready" => attempt[c] <= MaxRetries

IInv ==
  /\ TypeOK
  /\ AttemptsLeft
  /\ BilledIsCounted
  /\ WithinCeiling
  /\ TicketIsOpen
  /\ TicketsDiffer
  /\ ScanAccount
=============================================================================
