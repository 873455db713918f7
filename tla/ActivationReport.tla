---------------------------- MODULE ActivationReport ---------------------------
(***************************************************************************)
(* What "activation status" prints while the commands of Campaign go on.   *)
(* A report is made of two readings: it audits the receipts first and      *)
(* counts the intents last, and a command may file its receipt and forget  *)
(* its intent in between.  "receipts reconcile" judges the review gate     *)
(* from the same two readings in the same order.                           *)
(***************************************************************************)
EXTENDS Campaign

VARIABLE
    report   \* the receipts a report under way has read; history: the requests
             \* that had left by then, and those whose receipt was still to be filed

reportVars == <<vars, report>>

NoReport == [begun |-> FALSE, receipts |-> {}, left |-> {}, filing |-> {}]

ReportInit == Init /\ report = NoReport

(* The requests of the commands that have their answer and no receipt yet. *)
Filing == {q \in sent : \E o \in Operator : place[o] = "answered" /\ cmd[o].id = q.id}

(* status: the receipts are audited before anything else.                  *)
AuditReceipts ==
    /\ ~report.begun
    /\ report' = [begun |-> TRUE, receipts |-> receipts, left |-> sent, filing |-> Filing]
    /\ UNCHANGED vars

(* build_activation_state: the intents are counted and the document is     *)
(* built.  Until then they may still change, so the properties ask what  *)
(* it would say if it counted them now.                                    *)
BuildActivationState ==
    /\ report.begun
    /\ report' = NoReport
    /\ UNCHANGED vars

ReportNext ==
    \/ Next /\ UNCHANGED report
    \/ AuditReceipts
    \/ BuildActivationState

ReportSpec == ReportInit /\ [][ReportNext]_reportVars
-------------------------------------------------------------------------------
(* Properties.                                                             *)

ReportTypeOK ==
    report \in [begun : BOOLEAN, receipts : SUBSET Receipt,
                filing : SUBSET [id : Id, command : Command, charge : Nat],
                left : SUBSET [id : Id, command : Command, charge : Nat]]

(* The requests a report answers for: they had left when it began, and     *)
(* their command had filed its receipt by then or never will.              *)
Settled == report.left \ report.filing
PaidOf(requests) == {q \in requests : q.command \in PaidCommand}

(* The review gate never opens on a corpus that hides a paid request that  *)
(* was settled when the report began: each has a receipt in the report     *)
(* that accounts for exactly what the provider billed, whatever died or    *)
(* raced on the way (evaluate, unresolved_intents).                        *)
GateIsHonest ==
    report.begun /\ GateIsOpen(report.receipts, Outstanding) =>
        \A q \in PaidOf(Settled) :
            \E r \in report.receipts : r.id = q.id /\ r.accounted = q.charge

(* Of the requests settled when it began, "activation status" never says   *)
(* that nothing was attempted, nor leaves a bill within its ceiling out of *)
(* its credit totals, unless it shows an unresolved intent beside it       *)
(* (build_activation_state).                                               *)
StatusIsHonest ==
    report.begun /\ intents = {} =>
        /\ ExecutionState(report.receipts) = "NO_NETWORK_ATTEMPTED" => Settled = {}
        /\ PaidState(report.receipts) = "PREPARED_NOT_EXECUTED" => PaidOf(Settled) = {}
        /\ CostProof(report.receipts) = "EXERCISED_CONFORMING" =>
               \A q \in PaidOf(Settled) : q.charge <= Ceiling(q.command)
        /\ CreditsTotal(report.receipts) + RejectedCredits(report.receipts)
               >= WithinCeilings(Settled)
===============================================================================
