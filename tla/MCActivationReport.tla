--------------------------- MODULE MCActivationReport --------------------------
(* The deployment of MCCampaign with a report beside it.                   *)
EXTENDS MCCampaign, ActivationReport

(* Bound: commands go on beside a report only if one was filing its        *)
(* receipt when it began, and then without the clock, and until another    *)
(* command begins or a second receipt is filed.                            *)
MCReports ==
    report.begun =>
        /\ report.filing # {}
        /\ now = 0
        /\ \A o \in Operator : place[o] \in {"idle", "answered", "filed"}
        /\ Cardinality(receipts \ report.receipts) <= 1
===============================================================================
