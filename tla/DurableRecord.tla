----------------------------- MODULE DurableRecord -----------------------------
(***************************************************************************)
(* What the receipt directory promises to the code that writes into it: a  *)
(* document whose publication was acknowledged stays exactly as it was,    *)
(* through any interruption, until somebody removes it on purpose, and a   *)
(* removal that was acknowledged stays done.  A document nobody was told   *)
(* about may come and go.                                                  *)
(***************************************************************************)
CONSTANTS Name, Body, Absent

VARIABLES
    shown,  \* what a reader of the directory finds under each name
    owed    \* the <<name, body>> pairs that were acknowledged

Init ==
    /\ shown = [n \in Name |-> Absent]
    /\ owed = {}

(* A name nothing is owed about changes freely: a publication under way, a *)
(* removal, or what a power failure leaves of either.                      *)
Drift ==
    /\ owed' = owed
    /\ \A e \in owed : shown'[e[1]] = e[2]

Acknowledge(n, b) ==
    /\ shown[n] = b
    /\ owed' = owed \cup {<<n, b>>}
    /\ UNCHANGED shown

(* The owner of a document withdraws the promise about its name, and may   *)
(* remove it in the same step.                                             *)
Withdraw(n) ==
    /\ owed' = {e \in owed : e[1] # n}
    /\ \A m \in Name \ {n} : shown'[m] = shown[m]

Next ==
    \/ Drift
    \/ \E n \in Name, b \in Body \cup {Absent} : Acknowledge(n, b)
    \/ \E n \in Name : Withdraw(n)

Spec == Init /\ [][Next]_<<shown, owed>>

===============================================================================
