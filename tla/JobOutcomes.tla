----------------------------- MODULE JobOutcomes -----------------------------
(***************************************************************************)
(* What the scheduler's ledger promises of every occurrence, with workers, *)
(* leases, clocks, retries and budgets left out: an occurrence is held by  *)
(* one claim at a time, every claim has a higher epoch than those before   *)
(* it, only the latest claim may give the occurrence back or settle it,    *)
(* and a settled occurrence stays as it is.                                *)
(***************************************************************************)
EXTENDS Naturals

CONSTANT Occurrence

VARIABLES
  phase,      \* "absent", "open", "held", or the verdict that settled it
  epoch,      \* the number of claims so far
  verdictBy   \* the epoch of the claim that reported last

outcomeVars == <<phase, epoch, verdictBy>>

Verdict == {"SUCCEEDED", "FAILED_FINAL", "SKIPPED_BUDGET"}

OutcomesInit ==
  /\ phase     = [o \in Occurrence |-> "absent"]
  /\ epoch     = [o \in Occurrence |-> 0]
  /\ verdictBy = [o \in Occurrence |-> 0]

Offer(o) ==
  /\ phase[o] = "absent"
  /\ phase' = [phase EXCEPT ![o] = "open"]
  /\ UNCHANGED <<epoch, verdictBy>>

\* One claiming pass takes several occurrences, free ones or held ones.
Assign(S) ==
  /\ \A o \in S : phase[o] \in {"open", "held"}
  /\ phase' = [o \in Occurrence |-> IF o \in S THEN "held" ELSE phase[o]]
  /\ epoch' = [o \in Occurrence |-> IF o \in S THEN epoch[o] + 1 ELSE epoch[o]]
  /\ UNCHANGED verdictBy

\* The latest claim gives the occurrence back, or settles it for good.
Conclude(o, result) ==
  /\ phase[o] = "held"
  /\ phase'     = [phase EXCEPT ![o] = result]
  /\ verdictBy' = [verdictBy EXCEPT ![o] = epoch[o]]
  /\ UNCHANGED epoch

OutcomesNext ==
  \/ \E o \in Occurrence : Offer(o)
  \/ \E S \in SUBSET Occurrence : Assign(S)
  \/ \E o \in Occurrence, result \in Verdict \cup {"open"} : Conclude(o, result)

OutcomesSpec == OutcomesInit /\ [][OutcomesNext]_outcomeVars
=============================================================================
