--------------------------- MODULE ChallengeStore ----------------------------
(* Concurrent requests on one stored challenge (challenge/repository.py and    *)
(* api/routes/challenges.py).  A request loads the row, then its steps, then   *)
(* computes a transition - a proposal scans the market in between - and saves  *)
(* it on condition that the row's version has not moved.  The two SELECTs of a *)
(* load may see different commits, so an aggregate may be loaded torn.         *)
EXTENDS Montante

CONSTANTS
    Requests,       \* slots of concurrent requests
    MaxVersion      \* bound: the version after which no request starts

ASSUME StoreAssumption == MaxVersion \in Nat

VARIABLES
    version,        \* the row's optimistic concurrency token
    pc,             \* request -> "idle", "row" or "loaded"
    seen,           \* request -> the aggregate it loaded
    seenVersion     \* request -> the version it was read at

requestVars == <<pc, seen, seenVersion>>
vars == <<challenge, version, pc, seen, seenVersion>>

\* create stores the aggregate at version 1.
Init ==
    /\ LadderInit
    /\ version = 1
    /\ pc = [r \in Requests |-> "idle"]
    /\ seen = [r \in Requests |-> Created]
    /\ seenVersion = [r \in Requests |-> 0]

End(r) ==
    /\ pc' = [pc EXCEPT ![r] = "idle"]
    /\ seen' = [seen EXCEPT ![r] = Created]
    /\ seenVersion' = [seenVersion EXCEPT ![r] = 0]

\* load reads the row: state, bank and version ...
LoadRow(r) ==
    /\ pc[r] = "idle"
    /\ version < MaxVersion
    /\ seen' = [seen EXCEPT ![r].state = challenge.state, ![r].bank = challenge.bank]
    /\ seenVersion' = [seenVersion EXCEPT ![r] = version]
    /\ pc' = [pc EXCEPT ![r] = "row"]
    /\ UNCHANGED <<challenge, version>>

\* ... and then the steps, which another request may have saved since.
LoadSteps(r) ==
    /\ pc[r] = "row"
    /\ seen' = [seen EXCEPT ![r].steps = challenge.steps]
    /\ pc' = [pc EXCEPT ![r] = "loaded"]
    /\ UNCHANGED <<challenge, version, seenVersion>>

\* Mutated Unmoved: the row is written whatever its version is by then.
UnmovedOrNot(r) == seenVersion[r] <= version

Unmoved(r) == seenVersion[r] = version

\* save: the row, if its version is the one that was read, and every step.
Save(r) ==
    /\ pc[r] = "loaded"
    /\ Unmoved(r)
    /\ Transition(seen[r], challenge')
    /\ version' = seenVersion[r] + 1
    /\ End(r)

\* The request is refused (409), or it is lost with its process: no write.
Abandon(r) ==
    /\ pc[r] # "idle"
    /\ End(r)
    /\ UNCHANGED <<challenge, version>>

Next == \E r \in Requests : LoadRow(r) \/ LoadSteps(r) \/ Save(r) \/ Abandon(r)

Spec == Init /\ [][Next]_vars

-----------------------------------------------------------------------------
(* Properties.                                                                 *)

Cents == Nat
StepRecords ==
    [before : Cents, stake : Cents, detected : Odds, accepted : Odds \cup {None},
     outcome : Outcomes \cup {"pending"}, after : Cents \cup {None}]

Challenges == [state : States, bank : Cents, steps : Seq(StepRecords)]

\* The stored aggregate is one the code can read back, with a bank and stakes
\* that are amounts of money: none is ever negative.
TypeOK == challenge \in Challenges /\ version \in Nat

Settled(i) == challenge.steps[i].outcome # "pending"

\* Each rung starts from the bank the rung below left, the first from the
\* initial bank, and the bank is what the last settled rung left: no result is
\* applied twice and none is lost, however many requests settle at once.
LadderHolds ==
    LET n == Len(challenge.steps)
        left == [i \in 0..n |-> IF i = 0 THEN InitialBank
                                ELSE IF Settled(i) THEN challenge.steps[i].after
                                ELSE challenge.steps[i].before]
    IN  /\ \A i \in 1..n : challenge.steps[i].before = left[i - 1]
        /\ challenge.bank = left[n]

\* A rung that is settled is never settled again or rewritten.
SettledOnce ==
    [][\A i \in DOMAIN challenge.steps :
          Settled(i) => /\ i \in DOMAIN challenge'.steps
                        /\ challenge'.steps[i] = challenge.steps[i]]_vars

\* From the first result on, a progression that goes on is strictly between its
\* floor and its target; before it, it has its initial bank.  One that waits for
\* a candidate has a rung left.
WithinLimits ==
    /\ challenge.state \notin Terminal =>
          \/ MaxLoss < challenge.bank /\ challenge.bank < TargetBank
          \/ /\ challenge.bank = InitialBank
             /\ \A i \in DOMAIN challenge.steps : ~Settled(i)
    /\ challenge.state = "WAITING_FOR_CANDIDATE" => Len(challenge.steps) < MaxSteps

\* "A loss cannot increase the next stake."
LossNeverRaisesStake ==
    [][\A i \in DOMAIN challenge.steps :
          /\ ~Settled(i)
          /\ challenge'.steps[i].outcome \in LosingOutcomes
          => NextStake(challenge') <= NextStake(challenge)]_vars
=============================================================================
