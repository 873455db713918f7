----------------------------- MODULE BudgetProofs -----------------------------
(***************************************************************************)
(* Proofs about ApiClient, for any number of clients, costs, budgets,      *)
(* retries, days, calls and crashes.                                       *)
(***************************************************************************)
EXTENDS ApiClient, SequenceTheorems, DataTheorems, TLAPS

USE DEF Stages, NoCost

\* A day's counters stay natural numbers, and a negative correction lowers them.
LEMMA AdjustEffect ==
  ASSUME TypeOK, NEW d \in Day, NEW delta \in Int, NEW obs \in Int, delta <= 0,
         Adjust(d, delta, obs)
  PROVE  /\ counter' \in [Day -> Nat]
         /\ observed' \in [Day -> Nat]
         /\ \A e \in Day : counter'[e] <= counter[e]
BY DEF TypeOK, Adjust, AtLeast

\* Releasing an unsettled reservation changes its row only.
LEMMA ReleaseEffect ==
  ASSUME TypeOK, NEW i \in 1..Len(rows), rows[i].observed = NoCost,
         ~rows[i].released, Release(i)
  PROVE  /\ rows' \in Seq(Row) /\ Len(rows') = Len(rows)
         /\ \A j \in 1..Len(rows) : j # i => rows'[j] = rows[j]
         /\ rows'[i].billed = rows[i].billed
         /\ counter' \in [Day -> Nat] /\ observed' \in [Day -> Nat]
         /\ \A e \in Day : counter'[e] <= counter[e]
<1> DEFINE r == [rows[i] EXCEPT !.observed = 0, !.released = TRUE]
<1>1. rows \in Seq(Row) /\ rows[i] \in Row
  BY ElementOfSeq DEF TypeOK
<1>2. r \in Row /\ r.billed = rows[i].billed
  BY <1>1 DEF Row
<1>3. rows' = [rows EXCEPT ![i] = r]
  BY <1>1 DEF Release, Row
<1>4. /\ rows' \in Seq(Row) /\ Len(rows') = Len(rows)
      /\ \A j \in 1..Len(rows) : rows'[j] = IF j = i THEN r ELSE rows[j]
  <2> HIDE DEF r
  <2>1. QED
    BY <1>1, <1>2, <1>3, ExceptSeq
<1>5. /\ rows[i].day \in Day /\ -Effective(rows[i]) \in Int
      /\ -Effective(rows[i]) <= 0 /\ -AtLeast(0, rows[i].observed) \in Int
  BY <1>1 DEF Row, Effective, AtLeast
<1>6. Adjust(rows[i].day, -Effective(rows[i]), -AtLeast(0, rows[i].observed))
  BY DEF Release
<1>7. QED
  BY <1>2, <1>4, <1>5, <1>6, AdjustEffect

\* Reconciling an unsettled reservation with its bill changes its row only, and
\* the row then counts for at least the bill.
LEMMA ReconcileEffect ==
  ASSUME TypeOK, BilledIsCounted, NEW i \in 1..Len(rows),
         rows[i].observed = NoCost, ~rows[i].released,
         rows[i].billed <= rows[i].reserved,
         NEW header \in {rows[i].billed, NoCost}, Reconcile(i, header)
  PROVE  /\ rows' \in Seq(Row) /\ Len(rows') = Len(rows)
         /\ \A j \in 1..Len(rows) : j # i => rows'[j] = rows[j]
         /\ rows'[i].billed <= Effective(rows'[i])
         /\ counter' \in [Day -> Nat] /\ observed' \in [Day -> Nat]
         /\ \A e \in Day : counter'[e] <= counter[e]
<1>1. rows \in Seq(Row) /\ rows[i] \in Row
  BY ElementOfSeq DEF TypeOK
<1>2. CASE header = NoCost
  BY <1>1, <1>2 DEF Reconcile, budgetVars, TypeOK, BilledIsCounted
<1>3. CASE header # NoCost
  <2> DEFINE r == [rows[i] EXCEPT !.observed = header]
  <2>1. header = rows[i].billed /\ header \in Nat
    BY <1>1, <1>3 DEF Row
  <2>2. r \in Row /\ r.billed <= Effective(r)
    <3>1. /\ r \in Row /\ ~r.released
          /\ r.observed = header /\ r.billed = header
      BY <1>1, <2>1 DEF Row
    <3>2. Effective(r) = header
      BY <3>1, <1>3 DEF Effective
    <3>3. QED
      BY <3>1, <3>2, <2>1
  <2>3. /\ rows' = [rows EXCEPT ![i] = r]
        /\ Adjust(rows[i].day, header - rows[i].reserved, header)
    BY <1>1, <1>3, <2>1 DEF Reconcile, Row
  <2>4. /\ rows' \in Seq(Row) /\ Len(rows') = Len(rows)
        /\ \A j \in 1..Len(rows) : rows'[j] = IF j = i THEN r ELSE rows[j]
    <3> HIDE DEF r
    <3>1. QED
      BY <1>1, <2>2, <2>3, ExceptSeq
  <2>5. /\ rows[i].day \in Day /\ header - rows[i].reserved \in Int
        /\ header - rows[i].reserved <= 0
    BY <1>1, <2>1 DEF Row
  <2>6. /\ counter' \in [Day -> Nat] /\ observed' \in [Day -> Nat]
        /\ \A e \in Day : counter'[e] <= counter[e]
    BY <2>1, <2>3, <2>5, AdjustEffect
  <2>7. rows'[i].billed <= Effective(rows'[i])
    BY <2>2, <2>4
  <2>8. QED
    BY <2>4, <2>6, <2>7
<1>4. QED
  BY <1>2, <1>3

\* The initial state satisfies the invariant.
LEMMA InitBudget == Init => IInv
<1> SUFFICES ASSUME Init PROVE IInv
  OBVIOUS
<1>1. rows \in Seq(Row) /\ Len(rows) = 0
  BY DEF Init, BudgetInit
<1>2. TypeOK
  BY <1>1, BudgetAssumption, ClientAssumption DEF Init, BudgetInit, TypeOK
<1>3. BilledIsCounted /\ WithinCeiling
  BY <1>1, BudgetAssumption DEF Init, BudgetInit, BilledIsCounted, WithinCeiling
<1>4. TicketIsOpen /\ TicketsDiffer /\ ScanAccount /\ AttemptsLeft
  BY ClientAssumption DEF Init, TicketIsOpen, TicketsDiffer, ScanAccount,
     InFlight, AttemptsLeft
<1>5. QED
  BY <1>2, <1>3, <1>4 DEF IInv

---------------------------------------------------------------------------
(***************************************************************************)
(* The steps                                                               *)
(***************************************************************************)

\* The values a client is reset to have their types.
LEMMA Resets == 0 \in Day /\ 0 \in 0..MaxRetries + 1 /\ Cost \subseteq Nat
BY ClientAssumption

\* A step that leaves the ledger alone and ends no attempt badly: what remains is
\* the account of the client that took it.
LEMMA LocalStep ==
  ASSUME IInv, UNCHANGED budgetVars,
         NEW c \in Client, NEW p \in Stages \ {"sending", "served"},
         pc' = [pc EXCEPT ![c] = p],
         TypeOK',
         \A b \in Client \ {c} :
           /\ spent'[b] = spent[b] /\ cost'[b] = cost[b]
           /\ ticket'[b] = ticket[b] /\ paid'[b] = paid[b]
           /\ attempt'[b] = attempt[b],
         spent'[c] <= ScanBudget, paid'[c] <= spent'[c],
         p = "ready" => attempt'[c] <= MaxRetries
  PROVE  IInv'
<1> USE DEF IInv, budgetVars
<1>1. BilledIsCounted' /\ WithinCeiling'
  BY DEF BilledIsCounted, WithinCeiling, Effective
<1>2. pc \in [Client -> Stages] /\ pc' \in [Client -> Stages]
  BY DEF TypeOK
<1>3. /\ ~InFlight(c)' /\ pc'[c] # "served"
      /\ \A b \in Client \ {c} : pc'[b] = pc[b] /\ (InFlight(b)' <=> InFlight(b))
  BY <1>2 DEF InFlight
<1>4. TicketIsOpen'
  BY <1>3 DEF TicketIsOpen
<1>5. TicketsDiffer'
  BY <1>3 DEF TicketsDiffer
<1>6. ScanAccount'
  BY <1>3 DEF ScanAccount, InFlight
<1>7. AttemptsLeft'
  BY <1>2, <1>3 DEF AttemptsLeft
<1>8. QED
  BY <1>1, <1>4, <1>5, <1>6, <1>7

\* A client that is no longer there has nothing in flight and owes nothing.
LEMMA DiscardStep == ASSUME IInv, NEW c \in Client, Discard(c), crashes' \in Nat
                     PROVE  IInv'
<1>1. TypeOK'
  BY Resets DEF IInv, TypeOK, Discard, budgetVars
<1>2. spent'[c] <= ScanBudget /\ paid'[c] <= spent'[c]
  BY ClientAssumption DEF IInv, TypeOK, Discard
<1>3. \A b \in Client \ {c} : /\ spent'[b] = spent[b] /\ cost'[b] = cost[b]
                              /\ ticket'[b] = ticket[b] /\ paid'[b] = paid[b]
                              /\ attempt'[b] = attempt[b]
  BY DEF IInv, TypeOK, Discard
<1>4. QED
  BY <1>1, <1>2, <1>3, LocalStep DEF Discard

\* Building a client changes its day only.
LEMMA NewClientStep == ASSUME IInv, NEW c \in Client, NewClient(c) PROVE IInv'
<1>1. TypeOK'
  BY DEF IInv, TypeOK, NewClient, budgetVars, tallyVars
<1>2. spent'[c] <= ScanBudget /\ paid'[c] <= spent'[c]
  BY DEF IInv, ScanAccount, NewClient, tallyVars
<1>3. QED
  BY <1>1, <1>2, LocalStep DEF NewClient, tallyVars

\* Starting a call records its estimate.
LEMMA BeginCallStep ==
  ASSUME IInv, NEW c \in Client, NEW estimate \in Cost, BeginCall(c, estimate)
  PROVE  IInv'
<1>1. TypeOK'
  <2>1. estimate \in Nat
    BY Resets
  <2>2. attempt' \in [Client -> 0..MaxRetries + 1] /\ cost' \in [Client -> Nat]
    BY <2>1, Resets DEF IInv, TypeOK, BeginCall
  <2>3. calls' \in Nat /\ ticket' \in [Client -> Nat]
    BY DEF IInv, TypeOK, BeginCall
  <2>4. QED
    BY <2>2, <2>3 DEF IInv, TypeOK, BeginCall, budgetVars
<1>2. spent'[c] <= ScanBudget /\ paid'[c] <= spent'[c]
  BY DEF IInv, ScanAccount, BeginCall
<1>3. \A b \in Client \ {c} : /\ spent'[b] = spent[b] /\ cost'[b] = cost[b]
                              /\ ticket'[b] = ticket[b] /\ paid'[b] = paid[b]
                              /\ attempt'[b] = attempt[b]
  BY DEF IInv, TypeOK, BeginCall
<1>4. attempt'[c] <= MaxRetries
  BY ClientAssumption DEF IInv, TypeOK, BeginCall
<1>5. QED
  BY <1>1, <1>2, <1>3, <1>4, LocalStep DEF BeginCall

\* A refused attempt spends nothing.
LEMMA RefuseStep == ASSUME IInv, NEW c \in Client, Refuse(c) PROVE IInv'
<1>1. TypeOK'
  BY DEF IInv, TypeOK, Refuse, budgetVars, tallyVars
<1>2. spent'[c] <= ScanBudget /\ paid'[c] <= spent'[c]
  BY DEF IInv, ScanAccount, Refuse, tallyVars
<1>3. \A b \in Client \ {c} : /\ spent'[b] = spent[b] /\ cost'[b] = cost[b]
                              /\ ticket'[b] = ticket[b] /\ paid'[b] = paid[b]
                              /\ attempt'[b] = attempt[b]
  BY DEF IInv, TypeOK, Refuse, tallyVars
<1>4. QED
  BY <1>1, <1>2, <1>3, LocalStep DEF Refuse

\* An error that escapes leaves the reservation charged.
LEMMA EscapeStep == ASSUME IInv, NEW c \in Client, NeverLeavesUncaught(c) PROVE IInv'
<1>1. TypeOK'
  BY DEF IInv, TypeOK, NeverLeavesUncaught, budgetVars, tallyVars
<1>2. spent'[c] <= ScanBudget /\ paid'[c] <= spent'[c]
  BY DEF IInv, ScanAccount, NeverLeavesUncaught, tallyVars
<1>3. QED
  BY <1>1, <1>2, LocalStep DEF NeverLeavesUncaught, tallyVars

\* A lost answer: the bill of the attempt is at most the estimate now counted.
LEMMA LoseAnswerStep == ASSUME IInv, NEW c \in Client, LoseAnswer(c) PROVE IInv'
<1> USE DEF LoseAnswer, tallyVars
<1>0. PICK p \in {"ready", "idle"} :
        pc' = [pc EXCEPT ![c] = p] /\ (p = "ready" => attempt[c] <= MaxRetries)
  BY DEF RetryOrEnd, MayRetry
<1>1. TypeOK'
  <2>1. spent[c] + cost[c] \in Nat /\ spent \in [Client -> Nat]
    BY DEF IInv, TypeOK
  <2>2. spent' \in [Client -> Nat] /\ pc' \in [Client -> Stages]
    BY <1>0, <2>1 DEF IInv, TypeOK
  <2>3. QED
    BY <2>2 DEF IInv, TypeOK, budgetVars
<1>2. /\ spent'[c] = spent[c] + cost[c] /\ paid'[c] = paid[c]
      /\ \A b \in Client \ {c} : spent'[b] = spent[b]
      /\ spent[c] \in Nat /\ cost[c] \in Nat /\ paid[c] \in Nat
  BY DEF IInv, TypeOK
<1>3. InFlight(c) /\ rows[ticket[c]] \in Row
  BY ElementOfSeq DEF IInv, TypeOK, InFlight, TicketIsOpen
<1>4. rows[ticket[c]].billed \in Nat /\ rows[ticket[c]].billed <= cost[c]
  BY <1>3 DEF IInv, TicketIsOpen, Row
<1>5. spent'[c] <= ScanBudget /\ paid'[c] <= spent'[c]
  BY <1>2, <1>3, <1>4, ClientAssumption DEF IInv, ScanAccount
<1>6. QED
  BY <1>0, <1>1, <1>2, <1>5, LocalStep

\* Granting an attempt: the estimate fits both budgets, so the account does too.
LEMMA ReserveStep == ASSUME IInv, NEW c \in Client, Reserve(c) PROVE IInv'
<1> DEFINE new == [day |-> pinned[c], reserved |-> cost[c], observed |-> NoCost,
                   released |-> FALSE, billed |-> 0]
<1> USE DEF Reserve, Charge, tallyVars
<1>1. rows \in Seq(Row) /\ new \in Row /\ Len(rows) \in Nat
  BY DEF IInv, TypeOK, Row
<1>2. /\ rows' \in Seq(Row) /\ Len(rows') = Len(rows) + 1
      /\ \A i \in 1..Len(rows) : rows'[i] = rows[i]
      /\ rows'[Len(rows) + 1] = new
  <2>1. rows' = Append(rows, new)
    OBVIOUS
  <2> HIDE DEF new
  <2>2. QED
    BY <1>1, <2>1, AppendProperties
<1>3. attempt' \in [Client -> 0..MaxRetries + 1]
  <2>1. attempt[c] \in 0..MaxRetries + 1 /\ attempt[c] <= MaxRetries
    BY DEF IInv, TypeOK, AttemptsLeft
  <2>2. attempt[c] + 1 \in 0..MaxRetries + 1
    BY <2>1, ClientAssumption
  <2>3. QED
    BY <2>2 DEF IInv, TypeOK
<1>4. TypeOK'
  <2>1. pinned[c] \in Day /\ counter[pinned[c]] + cost[c] \in Nat
    BY DEF IInv, TypeOK
  <2>2. counter' \in [Day -> Nat]
    BY <2>1 DEF IInv, TypeOK
  <2>3. ticket' \in [Client -> Nat]
    BY <1>1 DEF IInv, TypeOK
  <2>4. QED
    BY <1>2, <1>3, <2>2, <2>3 DEF IInv, TypeOK
<1>5. BilledIsCounted'
  BY <1>1, <1>2 DEF IInv, TypeOK, BilledIsCounted, Effective
<1>6. WithinCeiling'
  BY DEF IInv, TypeOK, WithinCeiling, Fits
<1>7. /\ InFlight(c)' /\ pc'[c] = "sending" /\ ticket'[c] = Len(rows) + 1
      /\ \A b \in Client \ {c} : /\ pc'[b] = pc[b] /\ ticket'[b] = ticket[b]
                                 /\ InFlight(b)' <=> InFlight(b)
  BY DEF IInv, TypeOK, InFlight
<1>8. TicketIsOpen'
  <2>1. /\ new.observed = NoCost /\ ~new.released /\ new.reserved = cost[c]
        /\ new.billed = 0 /\ cost[c] \in Nat /\ cost'[c] = cost[c]
    BY DEF IInv, TypeOK
  <2> HIDE DEF new
  <2>2. SUFFICES ASSUME NEW b \in Client, InFlight(b)'
                 PROVE  /\ ticket'[b] \in 1..Len(rows')
                        /\ rows'[ticket'[b]].observed = NoCost
                        /\ ~rows'[ticket'[b]].released
                        /\ rows'[ticket'[b]].reserved = cost'[b]
                        /\ rows'[ticket'[b]].billed <= cost'[b]
                        /\ pc'[b] = "sending" => rows'[ticket'[b]].billed = 0
    BY DEF TicketIsOpen
  <2>3. CASE b = c
    BY <1>1, <1>2, <1>7, <2>1, <2>3
  <2>4. CASE b # c
    <3>1. /\ InFlight(b) /\ pc'[b] = pc[b] /\ ticket'[b] = ticket[b]
          /\ cost'[b] = cost[b]
      BY <1>7, <2>2, <2>4 DEF IInv, TypeOK
    <3>2. ticket[b] \in 1..Len(rows) /\ rows'[ticket[b]] = rows[ticket[b]]
      BY <1>2, <3>1 DEF IInv, TicketIsOpen
    <3>3. QED
      BY <1>1, <1>2, <3>1, <3>2 DEF IInv, TicketIsOpen
  <2>5. QED
    BY <2>3, <2>4
<1>9. TicketsDiffer'
  BY <1>1, <1>7 DEF IInv, TicketIsOpen, TicketsDiffer
<1>10. ScanAccount'
  BY <1>1, <1>2, <1>7 DEF IInv, ScanAccount, InScanBudget, TicketIsOpen, InFlight
<1>11. AttemptsLeft'
  BY <1>7 DEF IInv, AttemptsLeft, TypeOK
<1>12. QED
  BY <1>4, <1>5, <1>6, <1>8, <1>9, <1>10, <1>11 DEF IInv

\* A step that changes only the row of the client's own ticket keeps every other
\* reservation, and the whole ledger counted and under the ceiling.
LEMMA OwnRowStep ==
  ASSUME IInv, NEW c \in Client, InFlight(c),
         rows' \in Seq(Row), Len(rows') = Len(rows),
         \A j \in 1..Len(rows) : j # ticket[c] => rows'[j] = rows[j],
         rows'[ticket[c]].billed <= Effective(rows'[ticket[c]]),
         counter' \in [Day -> Nat], \A e \in Day : counter'[e] <= counter[e],
         \A b \in Client \ {c} :
           /\ pc'[b] = pc[b] /\ spent'[b] = spent[b] /\ cost'[b] = cost[b]
           /\ ticket'[b] = ticket[b] /\ paid'[b] = paid[b]
           /\ attempt'[b] = attempt[b]
  PROVE  /\ BilledIsCounted' /\ WithinCeiling'
         /\ \A b \in Client \ {c} :
              /\ InFlight(b)' <=> InFlight(b)
              /\ InFlight(b) => /\ ticket[b] # ticket[c]
                                /\ ticket[b] \in 1..Len(rows)
                                /\ rows'[ticket[b]] = rows[ticket[b]]
<1>1. BilledIsCounted'
  BY DEF IInv, BilledIsCounted, Effective
<1>2. WithinCeiling'
  BY BudgetAssumption DEF IInv, TypeOK, WithinCeiling
<1>3. ASSUME NEW b \in Client \ {c}
      PROVE  /\ InFlight(b)' <=> InFlight(b)
             /\ InFlight(b) => /\ ticket[b] # ticket[c]
                               /\ ticket[b] \in 1..Len(rows)
                               /\ rows'[ticket[b]] = rows[ticket[b]]
  BY <1>3 DEF IInv, InFlight, TicketsDiffer, TicketIsOpen
<1>4. QED
  BY <1>1, <1>2, <1>3

\* Settling an attempt: its reservation is accounted for, the client is free.
LEMMA SettleStep ==
  ASSUME IInv, NEW c \in Client, InFlight(c),
         NEW p \in {"ready", "idle"}, pc' = [pc EXCEPT ![c] = p],
         p = "ready" => attempt[c] <= MaxRetries,
         rows' \in Seq(Row), Len(rows') = Len(rows),
         \A j \in 1..Len(rows) : j # ticket[c] => rows'[j] = rows[j],
         rows'[ticket[c]].billed <= Effective(rows'[ticket[c]]),
         counter' \in [Day -> Nat], observed' \in [Day -> Nat],
         \A e \in Day : counter'[e] <= counter[e],
         spent' \in [Client -> Nat],
         \A b \in Client \ {c} : spent'[b] = spent[b],
         spent'[c] <= ScanBudget, paid[c] <= spent'[c],
         UNCHANGED <<pinned, cost, attempt, ticket, tallyVars>>
  PROVE  IInv'
<1> USE DEF tallyVars
<1>1. pc' \in [Client -> Stages]
  BY DEF IInv, TypeOK
<1>2. TypeOK'
  BY <1>1 DEF IInv, TypeOK
<1>3. \A b \in Client \ {c} :
        /\ pc'[b] = pc[b] /\ spent'[b] = spent[b] /\ cost'[b] = cost[b]
        /\ ticket'[b] = ticket[b] /\ paid'[b] = paid[b]
        /\ attempt'[b] = attempt[b]
  BY DEF IInv, TypeOK
<1>4. /\ BilledIsCounted' /\ WithinCeiling'
      /\ \A b \in Client \ {c} :
           /\ InFlight(b)' <=> InFlight(b)
           /\ InFlight(b) => /\ ticket[b] # ticket[c]
                             /\ ticket[b] \in 1..Len(rows)
                             /\ rows'[ticket[b]] = rows[ticket[b]]
  BY <1>3, OwnRowStep
<1>5. ~InFlight(c)' /\ pc'[c] = p
  BY DEF IInv, TypeOK, InFlight
<1>6. TicketIsOpen'
  BY <1>3, <1>4, <1>5 DEF IInv, TicketIsOpen
<1>7. TicketsDiffer'
  BY <1>3, <1>4, <1>5 DEF IInv, TicketsDiffer
<1>8. ScanAccount'
  BY <1>3, <1>4, <1>5 DEF IInv, ScanAccount, InFlight
<1>9. AttemptsLeft'
  BY <1>3, <1>5 DEF IInv, AttemptsLeft
<1>10. QED
  BY <1>2, <1>4, <1>6, <1>7, <1>8, <1>9 DEF IInv

\* A request that never left was not billed: releasing it loses nothing.
LEMMA NeverLeavesStep == ASSUME IInv, NEW c \in Client, NeverLeaves(c) PROVE IInv'
<1> USE DEF NeverLeaves
<1>1. PICK p \in {"ready", "idle"} :
        pc' = [pc EXCEPT ![c] = p] /\ (p = "ready" => attempt[c] <= MaxRetries)
  BY DEF RetryOrEnd, MayRetry
<1>2. /\ InFlight(c) /\ ticket[c] \in 1..Len(rows)
      /\ rows[ticket[c]].observed = NoCost /\ ~rows[ticket[c]].released
      /\ rows[ticket[c]].billed = 0
  BY DEF IInv, InFlight, TicketIsOpen
<1>3. /\ rows' \in Seq(Row) /\ Len(rows') = Len(rows)
      /\ \A j \in 1..Len(rows) : j # ticket[c] => rows'[j] = rows[j]
      /\ rows'[ticket[c]].billed = rows[ticket[c]].billed
      /\ counter' \in [Day -> Nat] /\ observed' \in [Day -> Nat]
      /\ \A e \in Day : counter'[e] <= counter[e]
  BY <1>2, ReleaseEffect DEF IInv
<1> DEFINE r == rows'[ticket[c]]
<1>4. r \in Row
  BY <1>2, <1>3, ElementOfSeq
<1>5. r.billed <= Effective(r)
  <2>1. r.billed = 0
    BY <1>2, <1>3
  <2> HIDE DEF r
  <2>2. Effective(r) \in Nat
    BY <1>4 DEF Row, Effective
  <2>3. QED
    BY <2>1, <2>2
<1>6. /\ spent' = spent /\ spent \in [Client -> Nat]
      /\ spent[c] <= ScanBudget /\ paid[c] <= spent[c]
  BY DEF IInv, TypeOK, ScanAccount
<1>7. QED
  BY <1>1, <1>2, <1>3, <1>5, <1>6, SettleStep

\* A response settles the attempt at its bill, or at the estimate.
LEMMA AnswerStep == ASSUME IInv, NEW c \in Client, Answer(c) PROVE IInv'
<1>1. PICK p \in {"ready", "idle"} :
        pc' = [pc EXCEPT ![c] = p] /\ (p = "ready" => attempt[c] <= MaxRetries)
  BY DEF Answer, RetryOrEnd, MayRetry
<1>2. /\ InFlight(c) /\ pc[c] = "served" /\ ticket[c] \in 1..Len(rows)
      /\ rows[ticket[c]].observed = NoCost /\ ~rows[ticket[c]].released
      /\ rows[ticket[c]].reserved = cost[c]
      /\ rows[ticket[c]].billed <= cost[c]
  BY DEF IInv, InFlight, TicketIsOpen, Answer
<1>3. PICK header \in {rows[ticket[c]].billed, NoCost} :
        /\ spent' = [spent EXCEPT ![c] =
                       @ + (IF header = NoCost THEN cost[c] ELSE header)]
        /\ Reconcile(ticket[c], header)
  BY DEF Answer
<1>4. /\ rows' \in Seq(Row) /\ Len(rows') = Len(rows)
      /\ \A j \in 1..Len(rows) : j # ticket[c] => rows'[j] = rows[j]
      /\ rows'[ticket[c]].billed <= Effective(rows'[ticket[c]])
      /\ counter' \in [Day -> Nat] /\ observed' \in [Day -> Nat]
      /\ \A e \in Day : counter'[e] <= counter[e]
  BY <1>2, <1>3, ReconcileEffect DEF IInv
<1>5. rows[ticket[c]].billed \in Nat
  <2>1. rows[ticket[c]] \in Row
    BY <1>2, ElementOfSeq DEF IInv, TypeOK
  <2>2. QED
    BY <2>1 DEF Row
<1>6. /\ spent[c] \in Nat /\ cost[c] \in Nat /\ paid[c] \in Nat
      /\ spent \in [Client -> Nat] /\ ScanBudget \in Nat
      /\ spent[c] + cost[c] <= ScanBudget
      /\ paid[c] <= spent[c] + rows[ticket[c]].billed
  BY <1>2, ClientAssumption DEF IInv, TypeOK, ScanAccount
<1>7. /\ spent' \in [Client -> Nat] /\ spent'[c] <= ScanBudget
      /\ paid[c] <= spent'[c] /\ \A b \in Client \ {c} : spent'[b] = spent[b]
  <2> DEFINE more == IF header = NoCost THEN cost[c] ELSE header
  <2>1. more \in Nat /\ more <= cost[c] /\ rows[ticket[c]].billed <= more
    BY <1>2, <1>5, <1>6
  <2>2. spent' = [spent EXCEPT ![c] = spent[c] + more]
    BY <1>3
  <2> HIDE DEF more
  <2>3. QED
    BY <1>5, <1>6, <2>1, <2>2
<1>8. UNCHANGED <<pinned, cost, attempt, ticket, tallyVars>>
  BY DEF Answer
<1>9. QED
  BY <1>1, <1>2, <1>4, <1>7, <1>8, SettleStep

\* The provider bills an attempt at most its estimate.
LEMMA ServeStep == ASSUME IInv, NEW c \in Client, Serve(c) PROVE IInv'
<1>1. PICK bill \in 0..cost[c] :
        /\ rows' = [rows EXCEPT ![ticket[c]].billed = bill]
        /\ paid' = [paid EXCEPT ![c] = @ + bill]
  BY DEF Serve
<1>2. /\ InFlight(c) /\ ticket[c] \in 1..Len(rows)
      /\ rows[ticket[c]].observed = NoCost /\ ~rows[ticket[c]].released
      /\ rows[ticket[c]].reserved = cost[c]
      /\ cost[c] \in Nat /\ bill \in Nat /\ bill <= cost[c]
  <2>1. InFlight(c) /\ cost[c] \in Nat
    BY DEF IInv, TypeOK, InFlight, Serve
  <2>2. bill \in Nat /\ bill <= cost[c]
    BY <2>1
  <2>3. QED
    BY <2>1, <2>2 DEF IInv, TicketIsOpen
<1> DEFINE r == [rows[ticket[c]] EXCEPT !.billed = bill]
<1>3. rows \in Seq(Row) /\ rows[ticket[c]] \in Row
  BY <1>2, ElementOfSeq DEF IInv, TypeOK
<1>4. /\ r \in Row /\ r.observed = NoCost /\ ~r.released
      /\ r.reserved = cost[c] /\ r.billed = bill
  BY <1>2, <1>3 DEF Row
<1>5. rows' = [rows EXCEPT ![ticket[c]] = r]
  BY <1>1
<1> HIDE DEF r
<1>6. /\ rows' \in Seq(Row) /\ Len(rows') = Len(rows)
      /\ \A j \in 1..Len(rows) : rows'[j] = IF j = ticket[c] THEN r ELSE rows[j]
  BY <1>2, <1>3, <1>4, <1>5, ExceptSeq
<1>7. r.billed <= Effective(r)
  BY <1>2, <1>4 DEF Effective
<1> USE DEF Serve
<1>8. TypeOK'
  <2>1. paid[c] + bill \in Nat
    <3>1. paid[c] \in Nat
      BY DEF IInv, TypeOK
    <3>2. QED
      BY <1>2, <3>1
  <2>2. paid' \in [Client -> Nat]
    BY <1>1, <2>1 DEF IInv, TypeOK
  <2>3. QED
    BY <1>6, <2>2 DEF IInv, TypeOK
<1>9. \A b \in Client \ {c} :
        /\ pc'[b] = pc[b] /\ spent'[b] = spent[b] /\ cost'[b] = cost[b]
        /\ ticket'[b] = ticket[b] /\ paid'[b] = paid[b]
        /\ attempt'[b] = attempt[b]
  BY <1>1 DEF IInv, TypeOK
<1>10. counter' \in [Day -> Nat] /\ \A e \in Day : counter'[e] <= counter[e]
  BY DEF IInv, TypeOK
<1>11. rows'[ticket[c]] = r /\ \A j \in 1..Len(rows) : j # ticket[c] => rows'[j] = rows[j]
  BY <1>2, <1>6
<1>12. /\ BilledIsCounted' /\ WithinCeiling'
       /\ \A b \in Client \ {c} :
            /\ InFlight(b)' <=> InFlight(b)
            /\ InFlight(b) => /\ ticket[b] # ticket[c]
                              /\ ticket[b] \in 1..Len(rows)
                              /\ rows'[ticket[b]] = rows[ticket[b]]
  BY <1>2, <1>6, <1>7, <1>9, <1>10, <1>11, OwnRowStep
<1>13. /\ InFlight(c)' /\ pc'[c] = "served" /\ ticket'[c] = ticket[c]
       /\ cost'[c] = cost[c] /\ spent'[c] = spent[c] /\ paid'[c] = paid[c] + bill
  BY <1>1 DEF IInv, TypeOK, InFlight
<1>14. TicketIsOpen'
  BY <1>2, <1>4, <1>6, <1>9, <1>11, <1>12, <1>13 DEF IInv, TicketIsOpen
<1>15. TicketsDiffer'
  BY <1>2, <1>9, <1>12, <1>13 DEF IInv, TicketsDiffer
<1>16. paid[c] <= spent[c] /\ spent[c] \in Nat /\ paid[c] \in Nat
  BY DEF IInv, TypeOK, ScanAccount
<1>17. ScanAccount'
  <2>1. /\ spent'[c] <= ScanBudget /\ spent'[c] + cost'[c] <= ScanBudget
        /\ pc'[c] # "served" => paid'[c] <= spent'[c]
        /\ pc'[c] = "served" => paid'[c] <= spent'[c] + rows'[ticket'[c]].billed
    <3>1. spent[c] <= ScanBudget /\ spent[c] + cost[c] <= ScanBudget
      BY <1>2 DEF IInv, ScanAccount
    <3>2. rows'[ticket'[c]].billed = bill
      BY <1>4, <1>11, <1>13
    <3>3. QED
      BY <1>2, <1>13, <1>16, <3>1, <3>2
  <2>2. ASSUME NEW b \in Client \ {c}
        PROVE  /\ spent'[b] <= ScanBudget
               /\ InFlight(b)' => spent'[b] + cost'[b] <= ScanBudget
               /\ pc'[b] # "served" => paid'[b] <= spent'[b]
               /\ pc'[b] = "served" => paid'[b] <= spent'[b] + rows'[ticket'[b]].billed
    <3>1. pc[b] = "served" => InFlight(b)
      BY DEF InFlight
    <3>2. QED
      BY <1>9, <1>12, <3>1 DEF IInv, ScanAccount
  <2>3. QED
    BY <2>1, <2>2 DEF ScanAccount
<1>18. AttemptsLeft'
  BY <1>9, <1>13 DEF IInv, AttemptsLeft
<1>19. QED
  BY <1>8, <1>12, <1>14, <1>15, <1>17, <1>18 DEF IInv

\* Midnight changes no reservation and no account.
LEMMA MidnightStep == ASSUME IInv, Midnight PROVE IInv'
<1> USE DEF Midnight, budgetVars, clientVars
<1>1. today' \in Day
  BY ClientAssumption DEF IInv, TypeOK
<1>2. TypeOK'
  BY <1>1 DEF IInv, TypeOK
<1>3. BilledIsCounted' /\ WithinCeiling'
  BY DEF IInv, BilledIsCounted, WithinCeiling, Effective
<1>4. TicketIsOpen' /\ TicketsDiffer' /\ ScanAccount' /\ AttemptsLeft'
  BY DEF IInv, TicketIsOpen, TicketsDiffer, ScanAccount, AttemptsLeft, InFlight
<1>5. QED
  BY <1>2, <1>3, <1>4 DEF IInv

\* A step that changes nothing preserves the invariant.
LEMMA StutterStep == ASSUME IInv, UNCHANGED vars PROVE IInv'
BY DEF IInv, vars, budgetVars, clientVars, tallyVars, TypeOK, BilledIsCounted,
   WithinCeiling, TicketIsOpen, TicketsDiffer, ScanAccount, AttemptsLeft, InFlight,
   Effective

---------------------------------------------------------------------------
\* The inductive invariant of the client: reservations in flight are open, their
\* own, and cover whatever the provider bills for them.
THEOREM BudgetInvariance == Spec => []IInv
<1>1. IInv /\ [Next]_vars => IInv'
  <2> SUFFICES ASSUME IInv, [Next]_vars PROVE IInv'
    OBVIOUS
  <2>1. CASE Midnight
    BY <2>1, MidnightStep
  <2>2. ASSUME NEW c \in Client, NewClient(c) PROVE IInv'
    BY <2>2, NewClientStep
  <2>3. ASSUME NEW c \in Client, EndScan(c) \/ Crash(c) PROVE IInv'
    <3>1. crashes \in Nat
      BY DEF IInv, TypeOK
    <3>2. Discard(c) /\ crashes' \in Nat
      BY <2>3, <3>1 DEF EndScan, Crash
    <3>3. QED
      BY <3>2, DiscardStep
  <2>4. ASSUME NEW c \in Client, NEW e \in Cost, BeginCall(c, e) PROVE IInv'
    BY <2>4, BeginCallStep
  <2>5. ASSUME NEW c \in Client, Serve(c) PROVE IInv'
    BY <2>5, ServeStep
  <2>6. ASSUME NEW c \in Client, CallStep(c) PROVE IInv'
    BY <2>6, RefuseStep, ReserveStep, NeverLeavesStep, EscapeStep, LoseAnswerStep,
       AnswerStep DEF CallStep
  <2>7. CASE UNCHANGED vars
    BY <2>7, StutterStep
  <2>8. QED
    BY <2>1, <2>2, <2>3, <2>4, <2>5, <2>6, <2>7 DEF Next
<1>2. QED
  BY InitBudget, <1>1, PTL DEF Spec

\* Every variable of the client and of its ledger keeps its type; in particular no
\* call makes more than MaxRetries + 1 attempts.
THEOREM BudgetTypes == Spec => []TypeOK
<1>1. IInv => TypeOK
  BY DEF IInv
<1>2. QED
  BY <1>1, BudgetInvariance, PTL

\* No credit the provider billed is ever missing from the ledger, whatever crashes
\* and whatever answer is lost.
THEOREM NothingIsUndercounted == Spec => []BilledIsCounted
<1>1. IInv => BilledIsCounted
  BY DEF IInv
<1>2. QED
  BY <1>1, BudgetInvariance, PTL

\* The daily ceiling binds all workers of one database together.
THEOREM CeilingBinds == Spec => []WithinCeiling
<1>1. IInv => WithinCeiling
  BY DEF IInv
<1>2. QED
  BY <1>1, BudgetInvariance, PTL

\* The budget of a scan bounds what the provider bills to it.
THEOREM ScanBudgetBinds == Spec => []WithinScanBudget
<1>1. IInv => WithinScanBudget
  <2> SUFFICES ASSUME IInv, NEW c \in Client PROVE paid[c] <= ScanBudget
    BY DEF WithinScanBudget
  <2>1. /\ paid[c] \in Nat /\ spent[c] \in Nat /\ cost[c] \in Nat
        /\ ScanBudget \in Nat
    BY ClientAssumption DEF IInv, TypeOK
  <2>2. CASE pc[c] # "served"
    BY <2>1, <2>2 DEF IInv, ScanAccount
  <2>3. CASE pc[c] = "served"
    <3>1. InFlight(c)
      BY <2>3 DEF InFlight
    <3>2. rows[ticket[c]] \in Row /\ rows[ticket[c]].billed <= cost[c]
      BY <3>1, ElementOfSeq DEF IInv, TypeOK, TicketIsOpen
    <3>3. rows[ticket[c]].billed \in Nat
      BY <3>2 DEF Row
    <3>4. QED
      BY <2>1, <2>3, <3>1, <3>2, <3>3 DEF IInv, ScanAccount
  <2>4. QED
    BY <2>2, <2>3
<1>2. QED
  BY <1>1, BudgetInvariance, PTL

---------------------------------------------------------------------------
(***************************************************************************)
(* The counters of a day add up its detail rows.  A row changes by as much *)
(* as its counters do, so a sum changes by the same amount, and clamping   *)
(* at zero never loses anything: a sum over rows is never negative.        *)
(***************************************************************************)

Owed(rs) == [i \in 1..Len(rs) |-> Effective(rs[i])]
Seen(rs) == [i \in 1..Len(rs) |-> AtLeast(0, rs[i].observed)]
DayRows(rs, d) == {i \in 1..Len(rs) : rs[i].day = d}
AddsUp(rs, owed, seen, d) ==
  /\ owed = Total(Owed(rs), DayRows(rs, d))
  /\ seen = Total(Seen(rs), DayRows(rs, d))

\* The two sums of the ledger, over the indices of a day's rows.
LEMMA SumsAreTotals ==
  /\ LedgerAddsUp <=> \A d \in Day : AddsUp(rows, counter[d], observed[d], d)
  /\ LedgerAddsUp' <=> \A d \in Day : AddsUp(rows', counter'[d], observed'[d], d)
BY DEF LedgerAddsUp, DetailSum, Total, Owed, Seen, DayRows, AddsUp, Effective

\* What a row counts for is a natural number.
LEMMA RowWeights ==
  ASSUME NEW rs \in Seq(Row)
  PROVE  /\ \A i \in 1..Len(rs) : /\ Owed(rs)[i] = Effective(rs[i])
                                  /\ Seen(rs)[i] = AtLeast(0, rs[i].observed)
                                  /\ Owed(rs)[i] \in Nat /\ Seen(rs)[i] \in Nat
         /\ \A d : IsFiniteSet(DayRows(rs, d)) /\ DayRows(rs, d) \subseteq 1..Len(rs)
<1>1. ASSUME NEW i \in 1..Len(rs)
      PROVE  Effective(rs[i]) \in Nat /\ AtLeast(0, rs[i].observed) \in Nat
  <2>1. rs[i] \in Row
    BY ElementOfSeq
  <2>2. QED
    BY <2>1 DEF Row, Effective, AtLeast
<1>2. Len(rs) \in Nat /\ IsFiniteSet(1..Len(rs))
  BY LenProperties, FS_Interval
<1>3. \A d : IsFiniteSet(DayRows(rs, d)) /\ DayRows(rs, d) \subseteq 1..Len(rs)
  BY <1>2, FS_Subset DEF DayRows
<1>4. QED
  BY <1>1, <1>3 DEF Owed, Seen

\* One row is settled, and its day's counters move by what the row moved.
LEMMA SettledRowAddsUp ==
  ASSUME TypeOK, LedgerAddsUp, NEW i \in 1..Len(rows),
         rows' \in Seq(Row), Len(rows') = Len(rows),
         \A j \in 1..Len(rows) : j # i => rows'[j] = rows[j],
         rows'[i].day = rows[i].day,
         NEW delta \in Int, delta = Owed(rows')[i] - Owed(rows)[i],
         NEW more \in Int,
         more = Seen(rows')[i] - Seen(rows)[i],
         Adjust(rows[i].day, delta, more)
  PROVE  LedgerAddsUp'
<1>1. rows \in Seq(Row)
  BY DEF TypeOK
<1>2. /\ \A j \in 1..Len(rows) :
           /\ Owed(rows)[j] \in Nat /\ Seen(rows)[j] \in Nat
           /\ Owed(rows')[j] \in Nat /\ Seen(rows')[j] \in Nat
      /\ \A d : IsFiniteSet(DayRows(rows, d)) /\ DayRows(rows, d) \subseteq 1..Len(rows)
  BY <1>1, RowWeights
<1>3. \A j \in 1..Len(rows) :
        j # i => Owed(rows')[j] = Owed(rows)[j] /\ Seen(rows')[j] = Seen(rows)[j]
  BY <1>1, RowWeights
<1>4. \A d : DayRows(rows', d) = DayRows(rows, d)
  BY DEF DayRows
<1>5. SUFFICES ASSUME NEW d \in Day
               PROVE  /\ counter'[d] = Total(Owed(rows'), DayRows(rows, d))
                      /\ observed'[d] = Total(Seen(rows'), DayRows(rows, d))
  BY <1>4, SumsAreTotals DEF AddsUp
<1>6. /\ counter[d] = Total(Owed(rows), DayRows(rows, d))
      /\ observed[d] = Total(Seen(rows), DayRows(rows, d))
  BY SumsAreTotals DEF AddsUp
<1>7. counter[d] \in Nat /\ observed[d] \in Nat
  BY DEF TypeOK
<1>8. /\ Total(Owed(rows'), DayRows(rows, d)) \in Nat
      /\ Total(Seen(rows'), DayRows(rows, d)) \in Nat
  <2>1. \A j \in DayRows(rows, d) : Owed(rows')[j] \in Nat /\ Seen(rows')[j] \in Nat
    BY <1>2
  <2>2. QED
    BY <1>2, <2>1, SumNatural
<1> DEFINE S == DayRows(rows, d)
           f == Owed(rows)
           g == Owed(rows')
           h == Seen(rows)
           k == Seen(rows')
<1>9. /\ IsFiniteSet(S)
       /\ \A j \in S : /\ f[j] \in Int /\ g[j] \in Int /\ h[j] \in Int /\ k[j] \in Int
                       /\ j # i => f[j] = g[j] /\ h[j] = k[j]
  <2>1. IsFiniteSet(S) /\ S \subseteq 1..Len(rows)
    BY <1>2
  <2>2. \A j \in 1..Len(rows) : f[j] \in Nat /\ g[j] \in Nat /\ h[j] \in Nat /\ k[j] \in Nat
    BY <1>2
  <2>3. \A j \in 1..Len(rows) : j # i => g[j] = f[j] /\ k[j] = h[j]
    BY <1>3
  <2> HIDE DEF S, f, g, h, k
  <2>4. QED
    BY <2>1, <2>2, <2>3
<1>10. CASE d = rows[i].day
  <2>1. i \in S
    BY <1>10 DEF DayRows
  <2>2. Total(g, S) = Total(f, S) - f[i] + g[i] /\ Total(k, S) = Total(h, S) - h[i] + k[i]
    <3> HIDE DEF S, f, g, h, k
    <3>1. PICK x : x = i
      OBVIOUS
    <3>2. x \in S /\ IsFiniteSet(S)
      BY <1>9, <2>1, <3>1
    <3>3. \A y \in S : f[y] \in Int /\ g[y] \in Int /\ (y # x => f[y] = g[y])
      BY <1>9, <3>1
    <3>4. \A y \in S : h[y] \in Int /\ k[y] \in Int /\ (y # x => h[y] = k[y])
      BY <1>9, <3>1
    <3>5. Total(g, S) = Total(f, S) - f[x] + g[x]
      BY ONLY <3>2, <3>3, SumChange
    <3>6. Total(k, S) = Total(h, S) - h[x] + k[x]
      BY ONLY <3>2, <3>4, SumChange
    <3>7. QED
      BY <3>1, <3>5, <3>6
  <2>3. f[i] \in Nat /\ g[i] \in Nat /\ h[i] \in Nat /\ k[i] \in Nat
    BY <1>2
  <2>4. Total(g, S) = counter[d] + delta
    BY <1>6, <1>7, <2>2, <2>3
  <2>5. Total(k, S) = observed[d] + more
    BY <1>6, <1>7, <2>2, <2>3
  <2>6. /\ counter'[d] = AtLeast(0, counter[d] + delta)
        /\ observed'[d] = AtLeast(0, observed[d] + more)
    BY <1>10 DEF Adjust, TypeOK
  <2>7. QED
    BY <1>7, <1>8, <2>4, <2>5, <2>6 DEF AtLeast
<1>11. CASE d # rows[i].day
  <2>1. i \notin DayRows(rows, d)
    BY <1>11 DEF DayRows
  <2>2. \A j \in S : f[j] = g[j] /\ h[j] = k[j]
    BY <1>9, <2>1
  <2>3. Total(f, S) = Total(g, S) /\ Total(h, S) = Total(k, S)
    <3> HIDE DEF S, f, g, h, k
    <3>1. QED
      BY <1>9, <2>2, SumSame
  <2>4. counter'[d] = counter[d] /\ observed'[d] = observed[d]
    BY <1>11 DEF Adjust, TypeOK
  <2>5. QED
    BY <1>6, <2>3, <2>4
<1>12. QED
  BY <1>10, <1>11

\* A step on the wire changes no day, no weight and no counter.
LEMMA SameRowsAddUp ==
  ASSUME TypeOK, LedgerAddsUp, rows' \in Seq(Row), Len(rows') = Len(rows),
         \A j \in 1..Len(rows) : /\ rows'[j].day = rows[j].day
                                 /\ Effective(rows'[j]) = Effective(rows[j])
                                 /\ rows'[j].observed = rows[j].observed,
         UNCHANGED <<counter, observed>>
  PROVE  LedgerAddsUp'
<1>1. /\ \A d : DayRows(rows', d) = DayRows(rows, d)
      /\ Owed(rows') = Owed(rows) /\ Seen(rows') = Seen(rows)
  BY DEF DayRows, Owed, Seen
<1>2. QED
  BY <1>1, SumsAreTotals DEF AddsUp

\* A granted reservation adds one row, and as much to its day.
LEMMA ChargeAddsUp ==
  ASSUME TypeOK, LedgerAddsUp, NEW d \in Day, NEW estimate \in Nat, Charge(d, estimate)
  PROVE  LedgerAddsUp'
<1> DEFINE new == [day |-> d, reserved |-> estimate, observed |-> NoCost,
                   released |-> FALSE, billed |-> 0]
           n == Len(rows) + 1
<1>1. rows \in Seq(Row) /\ Len(rows) \in Nat
  BY LenProperties DEF TypeOK
<1>2. /\ new \in Row /\ new.day = d /\ Effective(new) = estimate
      /\ AtLeast(0, new.observed) = 0
  BY DEF Row, Effective, AtLeast
<1>3. /\ rows' \in Seq(Row) /\ Len(rows') = n
      /\ \A i \in 1..Len(rows) : rows'[i] = rows[i]
      /\ rows'[n] = new
  <2>1. rows' = Append(rows, new)
    BY DEF Charge
  <2> HIDE DEF new
  <2>2. QED
    BY <1>1, <1>2, <2>1, AppendProperties
<1>4. /\ counter' = [counter EXCEPT ![d] = @ + estimate] /\ observed' = observed
  BY DEF Charge
<1> HIDE DEF new
<1>5. /\ \A i \in 1..Len(rows) : /\ Owed(rows)[i] \in Nat /\ Seen(rows)[i] \in Nat
                                  /\ Owed(rows')[i] = Owed(rows)[i]
                                  /\ Seen(rows')[i] = Seen(rows)[i]
      /\ Owed(rows')[n] = estimate /\ Seen(rows')[n] = 0
  <2>1. n \in 1..Len(rows') /\ \A i \in 1..Len(rows) : i \in 1..Len(rows')
    BY <1>1, <1>3
  <2>2. Owed(rows')[n] = Effective(new) /\ Seen(rows')[n] = AtLeast(0, new.observed)
    BY <1>3, <2>1, RowWeights
  <2>3. \A i \in 1..Len(rows) : /\ Owed(rows')[i] = Effective(rows[i])
                                /\ Seen(rows')[i] = AtLeast(0, rows[i].observed)
    BY <1>3, <2>1, RowWeights
  <2>4. \A i \in 1..Len(rows) : /\ Owed(rows)[i] \in Nat /\ Seen(rows)[i] \in Nat
                                /\ Owed(rows)[i] = Effective(rows[i])
                                /\ Seen(rows)[i] = AtLeast(0, rows[i].observed)
    BY <1>1, RowWeights
  <2>5. QED
    BY <1>2, <2>2, <2>3, <2>4
<1>6. SUFFICES ASSUME NEW e \in Day PROVE AddsUp(rows', counter'[e], observed'[e], e)
  BY SumsAreTotals
<1> DEFINE S == DayRows(rows, e)
           f == Owed(rows)
           g == Owed(rows')
           h == Seen(rows)
           k == Seen(rows')
<1>7. /\ IsFiniteSet(S) /\ S \subseteq 1..Len(rows) /\ n \notin S
  BY <1>1, RowWeights
<1>8. /\ \A i \in S : f[i] \in Int /\ g[i] = f[i]
      /\ \A i \in S : h[i] \in Int /\ k[i] = h[i]
  BY <1>5, <1>7
<1>9. Total(g, S) = Total(f, S) /\ Total(k, S) = Total(h, S)
  <2> HIDE DEF S, f, g, h, k, n
  <2>1. QED
    BY <1>7, <1>8, SumSame
<1>10. counter[e] = Total(f, S) /\ observed[e] = Total(h, S)
  BY SumsAreTotals DEF AddsUp
<1>11. CASE e = d
  <2>1. DayRows(rows', e) = S \cup {n}
    BY <1>1, <1>2, <1>3, <1>11 DEF DayRows
  <2>2. Total(g, S \cup {n}) = estimate + Total(g, S) /\ Total(k, S \cup {n}) = 0 + Total(k, S)
    <3>1. PICK x : x = n
      OBVIOUS
    <3>2. /\ x \notin S /\ \A y \in S \cup {x} : g[y] \in Int
          /\ \A y \in S \cup {x} : k[y] \in Int
          /\ g[x] = estimate /\ k[x] = 0
      BY <1>5, <1>7, <1>8, <3>1
    <3> HIDE DEF S, f, g, h, k, n
    <3>3. Total(g, S \cup {x}) = g[x] + Total(g, S)
      BY ONLY <1>7, <3>2, SumAdd
    <3>4. Total(k, S \cup {x}) = k[x] + Total(k, S)
      BY ONLY <1>7, <3>2, SumAdd
    <3>5. QED
      BY <3>1, <3>2, <3>3, <3>4
  <2>3. counter'[e] = counter[e] + estimate /\ observed'[e] = observed[e]
    BY <1>4, <1>11 DEF TypeOK
  <2>4. counter[e] \in Nat /\ observed[e] \in Nat
    BY DEF TypeOK
  <2>5. QED
    BY <1>9, <1>10, <2>1, <2>2, <2>3, <2>4 DEF AddsUp
<1>12. CASE e # d
  <2>1. DayRows(rows', e) = S
    BY <1>1, <1>2, <1>3, <1>12 DEF DayRows
  <2>2. counter'[e] = counter[e] /\ observed'[e] = observed[e]
    BY <1>4, <1>12 DEF TypeOK
  <2>3. QED
    BY <1>9, <1>10, <2>1, <2>2 DEF AddsUp
<1>13. QED
  BY <1>11, <1>12

\* Releasing takes back what the row counted for; reconciling puts the reported
\* cost in the place of the estimate.
LEMMA ReleaseAddsUp ==
  ASSUME TypeOK, LedgerAddsUp, NEW i \in 1..Len(rows), rows[i].observed = NoCost,
         ~rows[i].released, Release(i)
  PROVE  LedgerAddsUp'
<1>1. /\ rows' \in Seq(Row) /\ Len(rows') = Len(rows)
      /\ \A j \in 1..Len(rows) : j # i => rows'[j] = rows[j]
  BY ReleaseEffect
<1>2. rows \in Seq(Row) /\ rows[i] \in Row
  BY ElementOfSeq DEF TypeOK
<1>3. /\ rows'[i].day = rows[i].day /\ rows'[i].observed = 0 /\ rows'[i].released
  BY <1>2 DEF Release, Row
<1>4. Effective(rows'[i]) = 0 /\ AtLeast(0, rows'[i].observed) = 0
  BY <1>3 DEF Effective, AtLeast
<1>5. /\ Owed(rows')[i] = 0 /\ Seen(rows')[i] = 0
      /\ Owed(rows)[i] = Effective(rows[i]) /\ Seen(rows)[i] = AtLeast(0, rows[i].observed)
      /\ Owed(rows)[i] \in Nat /\ Seen(rows)[i] \in Nat
  BY <1>1, <1>2, <1>4, RowWeights
<1>6. Adjust(rows[i].day, -Effective(rows[i]), -AtLeast(0, rows[i].observed))
  BY DEF Release
<1>7. /\ -Effective(rows[i]) \in Int /\ -AtLeast(0, rows[i].observed) \in Int
      /\ -Effective(rows[i]) = Owed(rows')[i] - Owed(rows)[i]
      /\ -AtLeast(0, rows[i].observed) = Seen(rows')[i] - Seen(rows)[i]
  BY <1>5
<1>8. QED
  BY <1>1, <1>3, <1>6, <1>7, SettledRowAddsUp

LEMMA ReconcileAddsUp ==
  ASSUME TypeOK, LedgerAddsUp, BilledIsCounted, NEW i \in 1..Len(rows),
         rows[i].observed = NoCost, ~rows[i].released,
         rows[i].billed <= rows[i].reserved,
         NEW header \in {rows[i].billed, NoCost}, Reconcile(i, header)
  PROVE  LedgerAddsUp'
<1>1. rows \in Seq(Row) /\ rows[i] \in Row
  BY ElementOfSeq DEF TypeOK
<1>2. CASE header = NoCost
  BY <1>1, <1>2, SameRowsAddUp DEF Reconcile, budgetVars, Effective
<1>3. CASE header # NoCost
  <2>1. header \in Nat
    BY <1>1, <1>3 DEF Row
  <2>2. /\ rows' \in Seq(Row) /\ Len(rows') = Len(rows)
        /\ \A j \in 1..Len(rows) : j # i => rows'[j] = rows[j]
    BY ReconcileEffect
  <2>3. /\ rows'[i].day = rows[i].day /\ rows'[i].observed = header
        /\ rows'[i].released = rows[i].released
        /\ Adjust(rows[i].day, header - rows[i].reserved, header)
    <3>1. /\ rows' = [rows EXCEPT ![i].observed = header]
          /\ Adjust(rows[i].day, header - rows[i].reserved, header)
      BY <1>3 DEF Reconcile
    <3>2. rows'[i] = [rows[i] EXCEPT !.observed = header]
      BY <1>1, <3>1
    <3>3. QED
      BY <1>1, <3>1, <3>2 DEF Row
  <2>4. Effective(rows'[i]) = header /\ AtLeast(0, rows'[i].observed) = header
    BY <1>3, <2>1, <2>3 DEF Effective, AtLeast
  <2>5. Effective(rows[i]) = rows[i].reserved /\ AtLeast(0, rows[i].observed) = 0
    BY DEF Effective, AtLeast
  <2>6. /\ Owed(rows')[i] = header /\ Seen(rows')[i] = header
        /\ Owed(rows)[i] = rows[i].reserved /\ Seen(rows)[i] = 0
        /\ rows[i].reserved \in Nat
    BY <1>1, <2>2, <2>4, <2>5, RowWeights
  <2>7. /\ header - rows[i].reserved \in Int /\ header \in Int
        /\ header - rows[i].reserved = Owed(rows')[i] - Owed(rows)[i]
        /\ header = Seen(rows')[i] - Seen(rows)[i]
    BY <2>1, <2>6
  <2>8. QED
    BY <2>2, <2>3, <2>7, SettledRowAddsUp
<1>4. QED
  BY <1>2, <1>3

\* Whatever interleaves, crashes or arrives late, the counters of a day are what
\* its detail rows still owe, and clamping never hides a difference
\* (verify_invariant never fails).
THEOREM TheLedgerAddsUp == Spec => []LedgerAddsUp
<1>1. Init => LedgerAddsUp
  <2> SUFFICES ASSUME Init, NEW d \in Day PROVE AddsUp(rows, counter[d], observed[d], d)
    BY SumsAreTotals
  <2>1. DayRows(rows, d) = {}
    BY DEF Init, BudgetInit, DayRows
  <2>2. QED
    BY <2>1, SumEmpty DEF Init, BudgetInit, AddsUp
<1>2. IInv /\ LedgerAddsUp /\ [Next]_vars => LedgerAddsUp'
  <2> SUFFICES ASSUME IInv, LedgerAddsUp, [Next]_vars PROVE LedgerAddsUp'
    OBVIOUS
  <2> USE DEF IInv
  <2>1. ASSUME UNCHANGED budgetVars PROVE LedgerAddsUp'
    BY <2>1, SameRowsAddUp DEF budgetVars, TypeOK, Effective
  <2>2. ASSUME NEW c \in Client, Reserve(c) PROVE LedgerAddsUp'
    <3>1. pinned[c] \in Day /\ cost[c] \in Nat
      BY DEF TypeOK
    <3>2. QED
      BY <2>2, <3>1, ChargeAddsUp DEF Reserve
  <2>3. ASSUME NEW c \in Client, InFlight(c)
        PROVE  /\ ticket[c] \in 1..Len(rows) /\ rows[ticket[c]].observed = NoCost
               /\ ~rows[ticket[c]].released
               /\ rows[ticket[c]].billed <= rows[ticket[c]].reserved
    BY <2>3 DEF TicketIsOpen
  <2>4. ASSUME NEW c \in Client, NeverLeaves(c) PROVE LedgerAddsUp'
    BY <2>3, <2>4, ReleaseAddsUp DEF NeverLeaves, InFlight
  <2>5. ASSUME NEW c \in Client, Answer(c) PROVE LedgerAddsUp'
    <3>1. PICK header \in {rows[ticket[c]].billed, NoCost} : Reconcile(ticket[c], header)
      BY <2>5 DEF Answer
    <3>2. QED
      BY <2>3, <2>5, <3>1, ReconcileAddsUp DEF Answer, InFlight
  <2>6. ASSUME NEW c \in Client, Serve(c) PROVE LedgerAddsUp'
    <3>1. PICK bill \in 0..cost[c] : rows' = [rows EXCEPT ![ticket[c]].billed = bill]
      BY <2>6 DEF Serve
    <3>2. ticket[c] \in 1..Len(rows) /\ rows \in Seq(Row)
      BY <2>3, <2>6 DEF Serve, InFlight, TypeOK
    <3> DEFINE r == [rows[ticket[c]] EXCEPT !.billed = bill]
    <3>3. rows[ticket[c]] \in Row /\ cost[c] \in Nat
      BY <3>2, ElementOfSeq DEF TypeOK
    <3>4. /\ r \in Row /\ r.day = rows[ticket[c]].day
          /\ r.observed = rows[ticket[c]].observed
          /\ Effective(r) = Effective(rows[ticket[c]])
      BY <3>3 DEF Row, Effective
    <3>5. rows' = [rows EXCEPT ![ticket[c]] = r]
      BY <3>1
    <3> HIDE DEF r
    <3>6. /\ rows' \in Seq(Row) /\ Len(rows') = Len(rows)
          /\ \A j \in 1..Len(rows) : rows'[j] = IF j = ticket[c] THEN r ELSE rows[j]
      BY <3>2, <3>4, <3>5, ExceptSeq
    <3>7. \A j \in 1..Len(rows) : /\ rows'[j].day = rows[j].day
                                  /\ Effective(rows'[j]) = Effective(rows[j])
                                  /\ rows'[j].observed = rows[j].observed
      BY <3>4, <3>6
    <3>8. QED
      BY <2>6, <3>6, <3>7, SameRowsAddUp DEF Serve
  <2>7. QED
    BY <2>1, <2>2, <2>4, <2>5, <2>6
       DEF Next, CallStep, Midnight, NewClient, EndScan, Discard, BeginCall, Refuse,
           NeverLeavesUncaught, LoseAnswer, Crash, vars
<1>3. QED
  BY <1>1, <1>2, BudgetInvariance, PTL DEF Spec
=============================================================================
