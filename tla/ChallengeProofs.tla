--------------------------- MODULE ChallengeProofs ---------------------------
(* Proofs about ChallengeStore.  Requests that load and save implement the     *)
(* atomic ladder of Montante, because what a request saves was computed from   *)
(* the aggregate that is stored when it saves.  The ladder's own invariants    *)
(* are proved on Montante and carried over.                                    *)
EXTENDS ChallengeStore, SequenceTheorems, TLAPS

-----------------------------------------------------------------------------
(* Amounts.                                                                    *)

\* Rounding half up never takes more than the whole.
LEMMA RoundedPart ==
    ASSUME NEW b \in Nat, NEW n \in Nat, NEW d \in Nat \ {0}, n <= d
    PROVE  ToCents(b * n, d) \in Nat /\ ToCents(b * n, d) <= b
<1> DEFINE X == 2 * (b * n) + d
           q == X \div (2 * d)
<1>1. b * n \in Nat /\ b * d \in Nat /\ b * n <= b * d
  OBVIOUS
<1>2. X \in Nat /\ X <= 2 * (b * d) + d
  BY <1>1
<1>3. q \in Nat /\ q * (2 * d) <= X
  BY <1>2
<1>4. q <= b
  <2>1. SUFFICES ASSUME q >= b + 1 PROVE FALSE
    BY <1>3
  <2>2. q * (2 * d) >= (b + 1) * (2 * d)
    BY <2>1, <1>3
  <2>3. (b + 1) * (2 * d) = 2 * (b * d) + 2 * d
    OBVIOUS
  <2> QED
    BY <2>2, <2>3, <1>1, <1>2, <1>3
<1> QED
  BY <1>3, <1>4 DEF ToCents

\* What a bookmaker returns is an amount.
LEMMA ReturnedIsAmount ==
    ASSUME NEW s \in Nat, NEW o \in Nat
    PROVE  Returned(s, o) \in Nat
<1>1. s * o \in Nat
  OBVIOUS
<1> QED
  BY <1>1 DEF Returned, ToCents

\* A half of a stake.
LEMMA HalfStake ==
    ASSUME NEW s \in Nat
    PROVE  s \div 2 \in Nat /\ s \div 2 <= s
OBVIOUS

\* A settled bank is an amount: no outcome takes more than the stake.
LEMMA BankAfterIsAmount ==
    ASSUME NEW step \in StepRecords, step.stake <= step.before,
           step.accepted \in Nat, NEW outcome \in Outcomes
    PROVE  BankAfter(step, outcome) \in Nat
<1>1. step.before \in Nat /\ step.stake \in Nat
  BY DEF StepRecords, Cents
<1>2. step.before - step.stake \in Nat
  BY <1>1
<1>3. step.stake \div 2 \in Nat /\ step.stake \div 2 <= step.stake
  BY <1>1, HalfStake
<1>4. /\ Returned(step.stake, step.accepted) \in Nat
      /\ Returned(step.stake \div 2, step.accepted) \in Nat
  BY <1>1, <1>3, ReturnedIsAmount
<1>5. step.stake - step.stake \div 2 \in Nat
  BY <1>1, <1>3
<1> DEFINE w == Returned(step.stake, step.accepted)
           h == Returned(step.stake \div 2, step.accepted)
<1>6. CASE outcome = "won"
  BY <1>2, <1>4, <1>6 DEF BankAfter
<1>7. CASE outcome = "half_won"
  BY <1>2, <1>3, <1>4, <1>7 DEF BankAfter
<1>8. CASE outcome = "lost"
  BY <1>2, <1>8 DEF BankAfter
<1>9. CASE outcome = "half_lost"
  BY <1>2, <1>5, <1>9 DEF BankAfter
<1>10. CASE outcome \in NeutralOutcomes
  BY <1>1, <1>10 DEF BankAfter, NeutralOutcomes
<1> QED
  BY <1>6, <1>7, <1>8, <1>9, <1>10 DEF Outcomes, LosingOutcomes

\* Rounding half up keeps the order of what is rounded.
LEMMA RoundingKeepsOrder ==
    ASSUME NEW a \in Nat, NEW b \in Nat, a <= b, NEW n \in Nat, NEW d \in Nat \ {0}
    PROVE  ToCents(a * n, d) <= ToCents(b * n, d)
<1>1. /\ a * n \in Nat /\ b * n \in Nat
      /\ a * n <= b * n
  <2> DEFINE k == b - a
  <2>1. k \in Nat /\ b = a + k
    OBVIOUS
  <2> HIDE DEF k
  <2>2. b * n = a * n + k * n /\ k * n \in Nat
    BY <2>1
  <2> QED
    BY <2>2
<1>2. ASSUME NEW x \in Nat, NEW y \in Nat, x <= y
      PROVE  ToCents(x, d) <= ToCents(y, d)
  <2> DEFINE p == (2 * x + d) \div (2 * d)
             q == (2 * y + d) \div (2 * d)
  <2>1. p \in Nat /\ p * (2 * d) <= 2 * x + d
    OBVIOUS
  <2>2. q \in Nat /\ 2 * y + d < (q + 1) * (2 * d)
    OBVIOUS
  <2>3. p <= q
    <3>1. SUFFICES ASSUME p >= q + 1 PROVE FALSE
      BY <2>1, <2>2
    <3>2. p * (2 * d) >= (q + 1) * (2 * d)
      <4> HIDE DEF p, q
      <4> DEFINE k == p - (q + 1)
      <4>1. k \in Nat /\ p = q + 1 + k
        BY <2>1, <2>2, <3>1
      <4> HIDE DEF k
      <4>2. p * (2 * d) = (q + 1) * (2 * d) + k * (2 * d) /\ k * (2 * d) \in Nat
        BY <4>1, <2>1, <2>2
      <4> QED
        BY <4>2, <2>1, <2>2
    <3> HIDE DEF p, q
    <3> QED
      BY <2>1, <2>2, <3>2, <1>2
  <2> QED
    BY <2>3 DEF ToCents
<1> QED
  BY <1>1, <1>2

\* A losing result leaves no more than the rung found.
LEMMA LossTakesFromTheBank ==
    ASSUME NEW step \in StepRecords, step.stake <= step.before,
           NEW outcome \in LosingOutcomes
    PROVE  BankAfter(step, outcome) \in Nat /\ BankAfter(step, outcome) <= step.before
<1>1. step.before \in Nat /\ step.stake \in Nat
  BY DEF StepRecords, Cents
<1>2. step.stake \div 2 \in Nat /\ step.stake \div 2 <= step.stake
  BY <1>1, HalfStake
<1>3. CASE outcome = "lost"
  BY <1>1, <1>3 DEF BankAfter
<1>4. CASE outcome = "half_lost"
  BY <1>1, <1>2, <1>4 DEF BankAfter
<1> QED
  BY <1>3, <1>4 DEF LosingOutcomes

-----------------------------------------------------------------------------
(* The ladder.                                                                 *)

Rungs == Len(challenge.steps)

\* What rung i of c left in the bank, or found there while it is pending.
Left(c, i) == IF i = 0 THEN InitialBank
              ELSE IF c.steps[i].outcome # "pending" THEN c.steps[i].after
              ELSE c.steps[i].before

Chain ==
    /\ \A i \in 1..Rungs : challenge.steps[i].before = Left(challenge, i - 1)
    /\ challenge.bank = Left(challenge, Rungs)

\* Only the last rung is ever open, and only while the user or a result is
\* awaited, or when the progression was stopped meanwhile.
OnlyLastIsOpen ==
    /\ \A i \in 1..Rungs : i < Rungs => Settled(i)
    /\ challenge.state = "DRAFT" => Rungs = 0
    /\ challenge.state = "WAITING_FOR_CANDIDATE" => \A i \in 1..Rungs : Settled(i)
    /\ challenge.state \in {"AWAITING_USER_CONFIRMATION", "AWAITING_RESULT"} =>
          Rungs > 0 /\ ~Settled(Rungs)
    /\ challenge.state = "AWAITING_RESULT" =>
          challenge.steps[Rungs].accepted \in Odds

StakesAreCovered ==
    \A i \in 1..Rungs : challenge.steps[i].stake <= challenge.steps[i].before

LInv ==
    /\ challenge \in Challenges
    /\ StakesAreCovered
    /\ OnlyLastIsOpen
    /\ Chain
    /\ WithinLimits

SettledStay ==
    \A i \in DOMAIN challenge.steps :
        Settled(i) => /\ i \in DOMAIN challenge'.steps
                      /\ challenge'.steps[i] = challenge.steps[i]

LEMMA ChallengeTyped ==
    ASSUME challenge \in Challenges
    PROVE  /\ challenge.state \in States
           /\ challenge.bank \in Nat
           /\ challenge.steps \in Seq(StepRecords)
           /\ Rungs \in Nat
           /\ DOMAIN challenge.steps = 1..Rungs
           /\ \A i \in 1..Rungs : challenge.steps[i] \in StepRecords
<1>1. /\ challenge.state \in States
      /\ challenge.bank \in Nat
      /\ challenge.steps \in Seq(StepRecords)
  BY DEF Challenges, Cents
<1> HIDE DEF StepRecords
<1> QED
  BY <1>1, ElementOfSeq DEF Rungs

\* A transition that leaves the bank and the steps alone.
LEMMA StateOnly ==
    ASSUME LInv, NEW s \in States, challenge' = [challenge EXCEPT !.state = s],
           s \in Terminal \/ (challenge.state = "DRAFT" /\ s = "WAITING_FOR_CANDIDATE")
    PROVE  LInv' /\ SettledStay
<1>1. /\ challenge'.state = s
      /\ challenge'.bank = challenge.bank
      /\ challenge'.steps = challenge.steps
      /\ challenge' \in Challenges
  BY DEF LInv, Challenges
<1>2. Rungs' = Rungs /\ \A i : Left(challenge', i) = Left(challenge, i)
  BY <1>1 DEF Rungs, Left, Settled
<1>3. Chain' /\ StakesAreCovered'
  BY <1>1, <1>2 DEF LInv, Chain, StakesAreCovered
<1>4. OnlyLastIsOpen'
  BY <1>1, <1>2, ChallengeTyped DEF LInv, OnlyLastIsOpen, Settled, Terminal
<1>5. WithinLimits'
  BY <1>1, <1>2, MontanteAssumption, ChallengeTyped
  DEF LInv, OnlyLastIsOpen, WithinLimits, Terminal, Rungs, Settled
<1> QED
  BY <1>1, <1>3, <1>4, <1>5 DEF LInv, SettledStay

\* A proposal opens a rung above rungs that are all settled.
LEMMA ProposeKeeps ==
    ASSUME LInv, NEW odds \in Odds, Propose(challenge, odds, challenge')
    PROVE  LInv' /\ SettledStay
<1> DEFINE n == Rungs
           step == [before |-> challenge.bank, stake |-> NextStake(challenge),
                    detected |-> odds, accepted |-> None,
                    outcome |-> "pending", after |-> None]
<1>1. /\ challenge.state = "WAITING_FOR_CANDIDATE"
      /\ challenge.bank \in Nat
      /\ challenge.steps \in Seq(StepRecords)
      /\ n \in Nat /\ DOMAIN challenge.steps = 1..n
  BY ChallengeTyped DEF LInv, Propose
<1>2. NextStake(challenge) \in Nat /\ NextStake(challenge) <= challenge.bank
  BY <1>1, RoundedPart, MontanteAssumption DEF NextStake
<1>3. step \in StepRecords
  BY <1>1, <1>2 DEF StepRecords, Cents
<1>4. /\ step.before = challenge.bank /\ step.stake = NextStake(challenge)
      /\ step.outcome = "pending"
  OBVIOUS
<1>5. /\ challenge'.state = "AWAITING_USER_CONFIRMATION"
      /\ challenge'.bank = challenge.bank
      /\ challenge'.steps = Append(challenge.steps, step)
      /\ challenge' = [challenge EXCEPT !.state = "AWAITING_USER_CONFIRMATION",
                                        !.steps = Append(challenge.steps, step)]
  BY DEF Propose, LInv, Challenges
<1> HIDE DEF step
<1>6. /\ Append(challenge.steps, step) \in Seq(StepRecords)
      /\ Rungs' = n + 1
      /\ \A i \in 1..n : challenge'.steps[i] = challenge.steps[i]
      /\ challenge'.steps[n + 1] = step
      /\ DOMAIN challenge'.steps = 1..(n + 1)
  <2> HIDE DEF StepRecords
  <2> QED
    BY <1>1, <1>3, <1>5, AppendProperties DEF Rungs
<1>7. challenge' \in Challenges
  BY <1>5, <1>6 DEF LInv, Challenges, States
<1>8. StakesAreCovered'
  BY <1>1, <1>2, <1>4, <1>6 DEF LInv, StakesAreCovered
<1>9. \A i \in 1..n : Settled(i) /\ Settled(i)'
  BY <1>1, <1>6 DEF LInv, OnlyLastIsOpen, Settled
<1>10. OnlyLastIsOpen'
  BY <1>1, <1>4, <1>5, <1>6, <1>9 DEF OnlyLastIsOpen, Settled
<1>11. \A i \in 0..n : Left(challenge', i) = Left(challenge, i)
  BY <1>1, <1>6, <1>9 DEF Left
<1>12. Chain'
  <2>1. \A i \in 1..n : challenge'.steps[i].before = Left(challenge', i - 1)
    <3>1. \A i \in 1..n : i - 1 \in 0..n
      BY <1>1
    <3>2. \A i \in 1..n : challenge.steps[i].before = Left(challenge, i - 1)
      BY DEF LInv, Chain
    <3> QED
      BY <3>1, <3>2, <1>6, <1>11
  <2>2. challenge'.steps[n + 1].before = Left(challenge', n)
    BY <1>1, <1>4, <1>6, <1>11 DEF LInv, Chain
  <2>3. challenge'.bank = Left(challenge', n + 1)
    BY <1>1, <1>4, <1>5, <1>6 DEF Left, Settled
  <2> QED
    BY <1>1, <1>6, <2>1, <2>2, <2>3 DEF Chain
<1>13. WithinLimits'
  BY <1>1, <1>4, <1>5, <1>6 DEF LInv, WithinLimits, Terminal, Settled
<1>14. SettledStay
  BY <1>1, <1>6 DEF SettledStay
<1> QED
  BY <1>7, <1>8, <1>10, <1>12, <1>13, <1>14 DEF LInv

\* A step that rewrites the open rung, and only its price or its result.
LEMMA OpenRungRewritten ==
    ASSUME LInv, NEW step \in StepRecords,
           Rungs > 0, ~Settled(Rungs),
           step.before = challenge.steps[Rungs].before,
           step.stake = challenge.steps[Rungs].stake,
           challenge' \in [state : States, bank : Nat, steps : {
               [challenge.steps EXCEPT ![Rungs] = step]}]
    PROVE  /\ challenge' \in Challenges
           /\ Rungs' = Rungs
           /\ challenge'.steps[Rungs] = step
           /\ \A i \in 1..Rungs : i # Rungs => challenge'.steps[i] = challenge.steps[i]
           /\ StakesAreCovered'
           /\ \A i \in 1..Rungs : i < Rungs => Settled(i)'
           /\ \A i \in 1..Rungs : challenge'.steps[i].before = Left(challenge', i - 1)
           /\ SettledStay
<1> DEFINE n == Rungs
<1>1. /\ challenge.steps \in Seq(StepRecords)
      /\ n \in Nat /\ n > 0 /\ DOMAIN challenge.steps = 1..n
  BY ChallengeTyped DEF LInv
<1>2. challenge'.steps = [challenge.steps EXCEPT ![n] = step]
  OBVIOUS
<1>3. /\ challenge'.steps \in Seq(StepRecords)
      /\ Len(challenge'.steps) = n
      /\ \A i \in 1..n : challenge'.steps[i] = IF i = n THEN step ELSE challenge.steps[i]
  <2> HIDE DEF StepRecords
  <2> QED
    BY <1>1, <1>2, ExceptSeq DEF Rungs
<1>4. challenge' \in Challenges
  BY <1>3 DEF Challenges, Cents
<1>5. Rungs' = n /\ DOMAIN challenge'.steps = 1..n
  BY <1>3 DEF Rungs
<1>6. challenge'.steps[n] = step
  BY <1>1, <1>3
<1>7. \A i \in 1..n : i # n => challenge'.steps[i] = challenge.steps[i]
  BY <1>3
<1>8. StakesAreCovered'
  BY <1>1, <1>5, <1>6, <1>7 DEF LInv, StakesAreCovered
<1>9. \A i \in 1..n : i < n => Settled(i)'
  BY <1>1, <1>7 DEF LInv, OnlyLastIsOpen, Settled
<1>10. \A i \in 0..(n - 1) : Left(challenge', i) = Left(challenge, i)
  BY <1>1, <1>7 DEF Left
<1>11. \A i \in 1..n : challenge'.steps[i].before = Left(challenge', i - 1)
  <2>1. \A i \in 1..n : i - 1 \in 0..(n - 1)
    BY <1>1
  <2>2. \A i \in 1..n : challenge.steps[i].before = Left(challenge, i - 1)
    BY DEF LInv, Chain
  <2>3. \A i \in 1..n : challenge'.steps[i].before = challenge.steps[i].before
    BY <1>6, <1>7
  <2> QED
    BY <2>1, <2>2, <2>3, <1>10
<1>12. SettledStay
  BY <1>1, <1>5, <1>7 DEF SettledStay
<1> QED
  BY <1>4, <1>5, <1>6, <1>7, <1>8, <1>9, <1>11, <1>12

\* The price the user got is written on the rung that awaits it.
LEMMA ConfirmKeeps ==
    ASSUME LInv, NEW odds \in Odds, Confirm(challenge, odds, challenge')
    PROVE  LInv' /\ SettledStay
<1> DEFINE n == Rungs
           step == [challenge.steps[n] EXCEPT !.accepted = odds]
<1>1. /\ challenge.state = "AWAITING_USER_CONFIRMATION"
      /\ challenge.bank \in Nat
      /\ n \in Nat /\ n > 0 /\ ~Settled(n)
      /\ challenge.steps[n] \in StepRecords
  BY ChallengeTyped DEF LInv, Confirm, OnlyLastIsOpen
<1>2. /\ step \in StepRecords
      /\ step.before = challenge.steps[n].before
      /\ step.stake = challenge.steps[n].stake
      /\ step.outcome = challenge.steps[n].outcome
      /\ step.accepted = odds
  BY <1>1 DEF StepRecords
<1>3. challenge.steps \in Seq(StepRecords) /\ DOMAIN challenge.steps = 1..n
  BY ChallengeTyped DEF LInv
<1>4. challenge' = [challenge EXCEPT !.state = "AWAITING_RESULT",
                                     !.steps = [challenge.steps EXCEPT ![n] = step]]
  BY DEF Confirm, Rungs, LInv, Challenges
<1> HIDE DEF step
<1>5. /\ challenge'.state = "AWAITING_RESULT"
      /\ challenge'.bank = challenge.bank
      /\ challenge' \in [state : States, bank : Nat,
                         steps : {[challenge.steps EXCEPT ![n] = step]}]
  BY <1>1, <1>4 DEF LInv, Challenges, States
<1>6. /\ challenge' \in Challenges
      /\ Rungs' = n
      /\ challenge'.steps[n] = step
      /\ \A i \in 1..n : i # n => challenge'.steps[i] = challenge.steps[i]
      /\ StakesAreCovered'
      /\ \A i \in 1..n : i < n => Settled(i)'
      /\ \A i \in 1..n : challenge'.steps[i].before = Left(challenge', i - 1)
      /\ SettledStay
  BY <1>1, <1>2, <1>5, OpenRungRewritten
<1>7. challenge'.bank = Left(challenge', n)
  BY <1>1, <1>2, <1>5, <1>6 DEF LInv, Chain, Left, Settled
<1>8. Chain'
  BY <1>6, <1>7 DEF Chain
<1>9. OnlyLastIsOpen'
  BY <1>1, <1>2, <1>5, <1>6 DEF OnlyLastIsOpen, Settled
<1>10. WithinLimits'
  <2>1. DOMAIN challenge'.steps = 1..n
    BY <1>6, ChallengeTyped DEF Challenges, Rungs
  <2>2. (\A i \in 1..n : ~Settled(i)) => \A i \in 1..n : ~Settled(i)'
    BY <1>1, <1>2, <1>6 DEF Settled
  <2> QED
    BY <1>1, <1>3, <1>5, <2>1, <2>2 DEF LInv, WithinLimits, Terminal
<1> QED
  BY <1>6, <1>8, <1>9, <1>10 DEF LInv

\* The stop rules leave a progression that goes on within its limits.
LEMMA StopRules ==
    ASSUME NEW b \in Nat, NEW outcome \in Outcomes, NEW rungs \in Nat
    PROVE  /\ StateAfter(b, outcome, rungs) \in Terminal \cup {"WAITING_FOR_CANDIDATE"}
           /\ StateAfter(b, outcome, rungs) \notin Terminal =>
                 MaxLoss < b /\ b < TargetBank /\ rungs < MaxSteps
BY MontanteAssumption DEF StateAfter, Terminal

\* A result settles the rung that awaits it, and the bank is what it leaves.
LEMMA SettleKeeps ==
    ASSUME LInv, NEW outcome \in Outcomes, Settle(challenge, outcome, challenge')
    PROVE  LInv' /\ SettledStay
<1> DEFINE n == Rungs
           bank == BankAfter(challenge.steps[n], outcome)
           step == [challenge.steps[n] EXCEPT !.outcome = outcome, !.after = bank]
           state == StateAfter(bank, outcome, n)
<1>1. /\ challenge.state = "AWAITING_RESULT"
      /\ n \in Nat /\ n > 0 /\ ~Settled(n)
      /\ challenge.steps[n] \in StepRecords
      /\ challenge.steps[n].accepted \in Nat
      /\ challenge.steps[n].stake <= challenge.steps[n].before
  BY ChallengeTyped, MontanteAssumption DEF LInv, Settle, OnlyLastIsOpen, StakesAreCovered
<1>2. bank \in Nat
  BY <1>1, BankAfterIsAmount
<1>3. /\ state \in Terminal \cup {"WAITING_FOR_CANDIDATE"}
      /\ state \notin Terminal => MaxLoss < bank /\ bank < TargetBank /\ n < MaxSteps
  BY <1>1, <1>2, StopRules
<1>4. challenge' = [state |-> state, bank |-> bank,
                    steps |-> [challenge.steps EXCEPT ![n] = step]]
  BY DEF Settle, Rungs, LastOf
<1> HIDE DEF bank, state
<1>5. /\ step \in StepRecords
      /\ step.before = challenge.steps[n].before
      /\ step.stake = challenge.steps[n].stake
      /\ step.outcome = outcome
      /\ step.after = bank
  BY <1>1, <1>2 DEF StepRecords, Cents
<1> HIDE DEF step
<1>6. /\ challenge'.state = state
      /\ challenge'.bank = bank
      /\ challenge' \in [state : States, bank : Nat,
                         steps : {[challenge.steps EXCEPT ![n] = step]}]
  BY <1>2, <1>3, <1>4 DEF States
<1>7. /\ challenge' \in Challenges
      /\ Rungs' = n
      /\ challenge'.steps[n] = step
      /\ \A i \in 1..n : i # n => challenge'.steps[i] = challenge.steps[i]
      /\ StakesAreCovered'
      /\ \A i \in 1..n : i < n => Settled(i)'
      /\ \A i \in 1..n : challenge'.steps[i].before = Left(challenge', i - 1)
      /\ SettledStay
  BY <1>1, <1>5, <1>6, OpenRungRewritten
<1>8. outcome # "pending"
  BY DEF Outcomes, LosingOutcomes, NeutralOutcomes
<1>9. challenge'.bank = Left(challenge', n)
  BY <1>1, <1>5, <1>6, <1>7, <1>8 DEF Left
<1>10. Chain'
  BY <1>7, <1>9 DEF Chain
<1>11. \A i \in 1..n : Settled(i)'
  BY <1>1, <1>5, <1>7, <1>8 DEF Settled
<1>12. OnlyLastIsOpen'
  BY <1>1, <1>3, <1>6, <1>7, <1>11 DEF OnlyLastIsOpen, Terminal
<1>13. WithinLimits'
  BY <1>3, <1>6, <1>7 DEF WithinLimits, Rungs, Terminal
<1> QED
  BY <1>7, <1>10, <1>12, <1>13 DEF LInv

\* Every atomic transition keeps the ladder, and what is settled.
LEMMA LadderStep ==
    ASSUME LInv, LadderNext
    PROVE  LInv' /\ SettledStay
<1>1. CASE Activate(challenge, challenge')
  BY <1>1, StateOnly DEF Activate, States
<1>2. CASE \E odds \in Odds : \/ Propose(challenge, odds, challenge')
                              \/ Confirm(challenge, odds, challenge')
  BY <1>2, ProposeKeeps, ConfirmKeeps
<1>3. CASE \E outcome \in Outcomes : Settle(challenge, outcome, challenge')
  BY <1>3, SettleKeeps
<1>4. CASE Stop(challenge, challenge')
  BY <1>4, StateOnly DEF Stop, States, Terminal
<1> QED
  BY <1>1, <1>2, <1>3, <1>4 DEF LadderNext, Transition

LEMMA LadderStart == LadderInit => LInv
<1> SUFFICES ASSUME LadderInit PROVE LInv
  OBVIOUS
<1>1. /\ challenge.state = "DRAFT" /\ challenge.bank = InitialBank
      /\ challenge.steps = <<>>
      /\ challenge \in Challenges
  BY MontanteAssumption DEF LadderInit, Created, Challenges, States, Cents
<1>2. Rungs = 0
  BY <1>1 DEF Rungs
<1> QED
  BY <1>1, <1>2, MontanteAssumption
  DEF LInv, StakesAreCovered, OnlyLastIsOpen, Chain, Left, WithinLimits, Rungs, Settled

\* The open rung was opened on the bank, so a loss lowers what is staked next.
LEMMA LossLowersStake ==
    ASSUME LInv, NEW outcome \in Outcomes, Settle(challenge, outcome, challenge'),
           NEW i \in DOMAIN challenge.steps, ~Settled(i),
           challenge'.steps[i].outcome \in LosingOutcomes
    PROVE  NextStake(challenge') <= NextStake(challenge)
<1> DEFINE n == Rungs
           bank == BankAfter(challenge.steps[n], outcome)
<1>1. /\ n \in Nat /\ i \in 1..n
      /\ challenge.steps \in Seq(StepRecords)
      /\ challenge.bank \in Nat
  BY ChallengeTyped DEF LInv
<1>2. i = n
  BY <1>1 DEF LInv, OnlyLastIsOpen
<1>3. /\ challenge.steps[n] \in StepRecords
      /\ challenge.steps[n].stake <= challenge.steps[n].before
      /\ challenge.steps[n].before = challenge.bank
  BY <1>1, <1>2, ChallengeTyped DEF LInv, StakesAreCovered, Chain, Left, Settled
<1>4. /\ challenge'.bank = bank
      /\ challenge'.steps = [challenge.steps EXCEPT ![n] =
                                [@ EXCEPT !.outcome = outcome, !.after = bank]]
  BY DEF Settle, Rungs, LastOf
<1>5. challenge'.steps[n].outcome = outcome
  <2> HIDE DEF bank
  <2>1. challenge'.steps[n] = [challenge.steps[n] EXCEPT !.outcome = outcome, !.after = bank]
    BY <1>1, <1>2, <1>4
  <2> QED
    BY <1>3, <2>1 DEF StepRecords
<1>6. bank \in Nat /\ bank <= challenge.bank
  BY <1>2, <1>3, <1>5, LossTakesFromTheBank
<1> HIDE DEF bank
<1> QED
  BY <1>1, <1>4, <1>6, RoundingKeepsOrder, MontanteAssumption DEF NextStake

\* No other transition writes a losing result.
LEMMA OnlyResultsLose ==
    ASSUME LInv, LadderNext, NEW i \in DOMAIN challenge.steps, ~Settled(i),
           challenge'.steps[i].outcome \in LosingOutcomes
    PROVE  \E outcome \in Outcomes : Settle(challenge, outcome, challenge')
<1>1. /\ Rungs \in Nat /\ i \in 1..Rungs
      /\ challenge.steps \in Seq(StepRecords)
      /\ challenge.steps[i] \in StepRecords
      /\ challenge.steps[i].outcome \notin LosingOutcomes
  BY ChallengeTyped DEF LInv, Settled, LosingOutcomes
<1>2. ~Activate(challenge, challenge') /\ ~Stop(challenge, challenge')
  BY <1>1 DEF Activate, Stop, LInv, Challenges
<1>3. ASSUME NEW odds \in Odds, Propose(challenge, odds, challenge') PROVE FALSE
  <2>1. \A j \in 1..Rungs : Settled(j)
    BY <1>3 DEF Propose, LInv, OnlyLastIsOpen
  <2> QED
    BY <1>1, <2>1
<1>4. ASSUME NEW odds \in Odds, Confirm(challenge, odds, challenge') PROVE FALSE
  <2>1. i = Rungs
    BY <1>1 DEF LInv, OnlyLastIsOpen
  <2>2. challenge'.steps = [challenge.steps EXCEPT ![Rungs].accepted = odds]
    BY <1>4 DEF Confirm, Rungs, LInv, Challenges
  <2>3. challenge'.steps[i] = [challenge.steps[i] EXCEPT !.accepted = odds]
    BY <1>1, <2>1, <2>2
  <2>4. challenge'.steps[i].outcome = challenge.steps[i].outcome
    BY <1>1, <2>3 DEF StepRecords
  <2> QED
    BY <1>1, <2>4
<1> QED
  BY <1>2, <1>3, <1>4 DEF LadderNext, Transition

-----------------------------------------------------------------------------
(* Requests implement the ladder.                                              *)

\* While the version has not moved, what a request loaded is what is stored.
SeenIsStored(r) ==
    seenVersion[r] = version =>
        /\ pc[r] \in {"row", "loaded"} =>
              seen[r].state = challenge.state /\ seen[r].bank = challenge.bank
        /\ pc[r] = "loaded" => seen[r].steps = challenge.steps

SInv ==
    /\ version \in Nat
    /\ pc \in [Requests -> {"idle", "row", "loaded"}]
    /\ seen \in [Requests -> Challenges]
    /\ seenVersion \in [Requests -> Nat]
    /\ \A r \in Requests : seenVersion[r] <= version /\ SeenIsStored(r)

IInv == LInv /\ SInv

\* A request that may save computes from the stored aggregate.
LEMMA SavesWhatIsStored ==
    ASSUME IInv, NEW r \in Requests, Save(r)
    PROVE  LadderNext
<1>1. /\ seen[r].state = challenge.state
      /\ seen[r].bank = challenge.bank
      /\ seen[r].steps = challenge.steps
  BY DEF IInv, SInv, SeenIsStored, Save, Unmoved
<1>2. seen[r] \in Challenges /\ challenge \in Challenges
  BY DEF IInv, SInv, LInv
<1>3. seen[r] = challenge
  BY <1>1, <1>2 DEF Challenges
<1> QED
  BY <1>3 DEF Save, LadderNext

LEMMA LoadRowKeeps ==
    ASSUME IInv, NEW r \in Requests, LoadRow(r)
    PROVE  SInv' /\ UNCHANGED challenge
<1>1. seen[r] \in Challenges /\ challenge \in Challenges
  BY DEF IInv, SInv, LInv
<1>2. seen'[r] = [seen[r] EXCEPT !.state = challenge.state, !.bank = challenge.bank]
  BY DEF LoadRow, IInv, SInv
<1>3. /\ seen'[r] \in Challenges
      /\ seen'[r].state = challenge.state
      /\ seen'[r].bank = challenge.bank
  BY <1>1, <1>2 DEF Challenges
<1>4. \A q \in Requests \ {r} : /\ seen'[q] = seen[q] /\ pc'[q] = pc[q]
                                /\ seenVersion'[q] = seenVersion[q]
  BY DEF LoadRow, IInv, SInv
<1>5. /\ pc' \in [Requests -> {"idle", "row", "loaded"}]
      /\ seenVersion' \in [Requests -> Nat]
      /\ pc'[r] = "row" /\ seenVersion'[r] = version
      /\ UNCHANGED <<challenge, version>>
  BY DEF LoadRow, IInv, SInv
<1>6. seen' \in [Requests -> Challenges]
  <2>1. /\ DOMAIN seen' = Requests
        /\ seen' = [q \in Requests |-> seen'[q]]
    BY DEF LoadRow, IInv, SInv
  <2>2. \A q \in Requests : seen'[q] \in Challenges
    BY <1>3, <1>4 DEF IInv, SInv
  <2> QED
    BY <2>1, <2>2
<1>7. \A q \in Requests : seenVersion'[q] <= version' /\ SeenIsStored(q)'
  BY <1>3, <1>4, <1>5 DEF IInv, SInv, SeenIsStored
<1> QED
  BY <1>5, <1>6, <1>7 DEF IInv, SInv

LEMMA LoadStepsKeeps ==
    ASSUME IInv, NEW r \in Requests, LoadSteps(r)
    PROVE  SInv' /\ UNCHANGED challenge
<1>1. seen[r] \in Challenges /\ challenge \in Challenges
  BY DEF IInv, SInv, LInv
<1>2. seen'[r] = [seen[r] EXCEPT !.steps = challenge.steps]
  BY DEF LoadSteps, IInv, SInv
<1>3. /\ seen'[r] \in Challenges
      /\ seen'[r].state = seen[r].state
      /\ seen'[r].bank = seen[r].bank
      /\ seen'[r].steps = challenge.steps
  BY <1>1, <1>2 DEF Challenges
<1>4. \A q \in Requests \ {r} : seen'[q] = seen[q] /\ pc'[q] = pc[q]
  BY DEF LoadSteps, IInv, SInv
<1>5. /\ pc' \in [Requests -> {"idle", "row", "loaded"}]
      /\ pc[r] = "row" /\ pc'[r] = "loaded"
      /\ UNCHANGED <<challenge, version, seenVersion>>
  BY DEF LoadSteps, IInv, SInv
<1>6. seen' \in [Requests -> Challenges]
  <2>1. /\ DOMAIN seen' = Requests
        /\ seen' = [q \in Requests |-> seen'[q]]
    BY DEF LoadSteps, IInv, SInv
  <2>2. \A q \in Requests : seen'[q] \in Challenges
    BY <1>3, <1>4 DEF IInv, SInv
  <2> QED
    BY <2>1, <2>2
<1>7. \A q \in Requests : seenVersion'[q] <= version' /\ SeenIsStored(q)'
  BY <1>3, <1>4, <1>5 DEF IInv, SInv, SeenIsStored
<1> QED
  BY <1>5, <1>6, <1>7 DEF IInv, SInv

\* What End leaves of the requests.
LEMMA EndTypes ==
    ASSUME SInv, NEW r \in Requests, End(r)
    PROVE  /\ pc' \in [Requests -> {"idle", "row", "loaded"}]
           /\ seen' \in [Requests -> Challenges]
           /\ seenVersion' \in [Requests -> Nat]
           /\ pc'[r] = "idle" /\ seenVersion'[r] = 0
           /\ \A q \in Requests \ {r} : /\ seen'[q] = seen[q] /\ pc'[q] = pc[q]
                                        /\ seenVersion'[q] = seenVersion[q]
<1>1. Created \in Challenges
  BY MontanteAssumption DEF Created, Challenges, States, Cents
<1> QED
  BY <1>1 DEF End, SInv

\* A save moves the version past what every other request read.
LEMMA SaveKeeps ==
    ASSUME IInv, NEW r \in Requests, Save(r)
    PROVE  SInv'
<1>1. version' = version + 1 /\ End(r)
  BY DEF Save, Unmoved
<1>2. /\ pc' \in [Requests -> {"idle", "row", "loaded"}]
      /\ seen' \in [Requests -> Challenges]
      /\ seenVersion' \in [Requests -> Nat]
      /\ pc'[r] = "idle" /\ seenVersion'[r] = 0
      /\ \A q \in Requests \ {r} : seenVersion'[q] = seenVersion[q]
  BY <1>1, EndTypes DEF IInv
<1>3. \A q \in Requests : seenVersion'[q] < version'
  BY <1>1, <1>2 DEF IInv, SInv
<1>4. version' \in Nat
  BY <1>1 DEF IInv, SInv
<1>5. \A q \in Requests : seenVersion'[q] <= version' /\ SeenIsStored(q)'
  BY <1>2, <1>3, <1>4 DEF SeenIsStored
<1> QED
  BY <1>2, <1>4, <1>5 DEF SInv

LEMMA AbandonKeeps ==
    ASSUME IInv, NEW r \in Requests, Abandon(r)
    PROVE  SInv' /\ UNCHANGED challenge
<1>1. UNCHANGED <<challenge, version>> /\ End(r)
  BY DEF Abandon
<1>2. /\ pc' \in [Requests -> {"idle", "row", "loaded"}]
      /\ seen' \in [Requests -> Challenges]
      /\ seenVersion' \in [Requests -> Nat]
      /\ pc'[r] = "idle" /\ seenVersion'[r] = 0
      /\ \A q \in Requests \ {r} : /\ seen'[q] = seen[q] /\ pc'[q] = pc[q]
                                   /\ seenVersion'[q] = seenVersion[q]
  BY <1>1, EndTypes DEF IInv
<1>3. \A q \in Requests : seenVersion'[q] <= version' /\ SeenIsStored(q)'
  BY <1>1, <1>2 DEF IInv, SInv, SeenIsStored
<1> QED
  BY <1>1, <1>2, <1>3 DEF IInv, SInv

\* Every step of the store is a step of the ladder or leaves it alone.
LEMMA StoreStep == IInv /\ [Next]_vars => IInv' /\ SettledStay /\ [LadderNext]_challenge
<1> SUFFICES ASSUME IInv, [Next]_vars
             PROVE  IInv' /\ SettledStay /\ [LadderNext]_challenge
  OBVIOUS
<1>1. ASSUME UNCHANGED challenge
      PROVE  LInv' /\ SettledStay
  <2>1. SettledStay
    BY <1>1 DEF SettledStay
  <2>2. LInv'
    BY <1>1 DEF IInv, LInv, StakesAreCovered, OnlyLastIsOpen, Chain, WithinLimits,
             Rungs, Settled
  <2> QED
    BY <2>1, <2>2
<1>2. CASE UNCHANGED vars
  <2>1. SInv'
    BY <1>2 DEF vars, IInv, SInv, SeenIsStored
  <2> QED
    BY <1>1, <1>2, <2>1 DEF vars, IInv
<1>3. ASSUME NEW r \in Requests, LoadRow(r) \/ LoadSteps(r) \/ Abandon(r)
      PROVE  IInv' /\ SettledStay /\ [LadderNext]_challenge
  <2>1. SInv' /\ UNCHANGED challenge
    BY <1>3, LoadRowKeeps, LoadStepsKeeps, AbandonKeeps
  <2> QED
    BY <2>1, <1>1 DEF IInv
<1>4. ASSUME NEW r \in Requests, Save(r)
      PROVE  IInv' /\ SettledStay /\ [LadderNext]_challenge
  <2>1. LadderNext
    BY <1>4, SavesWhatIsStored
  <2>2. LInv' /\ SettledStay
    BY <2>1, LadderStep DEF IInv
  <2>3. SInv'
    BY <1>4, SaveKeeps
  <2> QED
    BY <2>1, <2>2, <2>3 DEF IInv
<1> QED
  BY <1>2, <1>3, <1>4 DEF Next

LEMMA StoreStart == Init => IInv
<1> SUFFICES ASSUME Init PROVE IInv
  OBVIOUS
<1>1. LInv
  BY LadderStart DEF Init
<1>2. Created \in Challenges
  BY MontanteAssumption DEF Created, Challenges, States, Cents
<1>3. SInv
  BY <1>2 DEF Init, SInv, SeenIsStored
<1> QED
  BY <1>1, <1>3 DEF IInv

-----------------------------------------------------------------------------
(* The theorems.                                                               *)

\* The inductive invariant holds of every behaviour.
THEOREM StoreInvariance == Spec => []IInv
<1>1. IInv /\ [Next]_vars => IInv'
  BY StoreStep
<1> QED
  BY StoreStart, <1>1, PTL DEF Spec

\* Concurrent requests that load, compute and save behave as if each had been
\* one atomic transition of the progression.
THEOREM RequestsAreAtomic == Spec => LadderSpec
<1>1. Init => LadderInit
  BY DEF Init
<1>2. IInv /\ [Next]_vars => [LadderNext]_challenge
  BY StoreStep
<1> QED
  BY <1>1, <1>2, StoreInvariance, PTL DEF Spec, LadderSpec

\* Banks and stakes are amounts of money: no progression owes anything.
THEOREM ChallengeTypes == Spec => []TypeOK
<1>1. IInv => TypeOK
  BY DEF IInv, LInv, SInv, TypeOK
<1> QED
  BY StoreInvariance, <1>1, PTL

\* The rungs chain from the initial bank to the bank, whatever is concurrent.
THEOREM TheLadderHolds == Spec => []LadderHolds
<1>1. IInv => LadderHolds
  <2> SUFFICES ASSUME IInv PROVE LadderHolds
    OBVIOUS
  <2>1. Chain /\ Rungs \in Nat
    BY ChallengeTyped DEF IInv, LInv
  <2> DEFINE left == [i \in 0..Rungs |-> IF i = 0 THEN InitialBank
                                 ELSE IF Settled(i) THEN challenge.steps[i].after
                                 ELSE challenge.steps[i].before]
  <2>2. \A i \in 0..Rungs : left[i] = Left(challenge, i)
    BY DEF Left, Settled
  <2>3. \A i \in 1..Rungs : challenge.steps[i].before = left[i - 1]
    <3>1. \A i \in 1..Rungs : i - 1 \in 0..Rungs
      BY <2>1
    <3>2. \A i \in 1..Rungs : challenge.steps[i].before = Left(challenge, i - 1)
      BY <2>1 DEF Chain
    <3> HIDE DEF left
    <3> QED
      BY <3>1, <3>2, <2>2
  <2>4. challenge.bank = left[Rungs]
    <3>1. Rungs \in 0..Rungs
      BY <2>1
    <3> HIDE DEF left
    <3> QED
      BY <3>1, <2>1, <2>2 DEF Chain
  <2> QED
    BY <2>3, <2>4 DEF LadderHolds, Rungs
<1> QED
  BY StoreInvariance, <1>1, PTL

\* From the first result on, a progression that goes on is strictly between its
\* floor and its target (_apply_stop_rules), also when rounding to cents made
\* its initial bank meet one of them.
THEOREM LimitsBind == Spec => []WithinLimits
<1>1. IInv => WithinLimits
  BY DEF IInv, LInv
<1> QED
  BY StoreInvariance, <1>1, PTL

\* No two requests settle the same rung.
THEOREM RungsSettleOnce == Spec => SettledOnce
<1>1. IInv /\ [Next]_vars =>
        [\A i \in DOMAIN challenge.steps :
            Settled(i) => /\ i \in DOMAIN challenge'.steps
                          /\ challenge'.steps[i] = challenge.steps[i]]_vars
  BY StoreStep DEF SettledStay
<1> QED
  BY <1>1, StoreInvariance, PTL DEF Spec, SettledOnce

\* "A loss cannot increase the next stake", whichever requests are concurrent.
THEOREM LossesNeverRaiseTheStake == Spec => LossNeverRaisesStake
<1>1. ASSUME IInv, [Next]_vars, NEW i \in DOMAIN challenge.steps, ~Settled(i),
             challenge'.steps[i].outcome \in LosingOutcomes
      PROVE  NextStake(challenge') <= NextStake(challenge)
  <2>1. LInv
    BY <1>1 DEF IInv
  <2>2. CASE LadderNext
    BY <1>1, <2>1, <2>2, OnlyResultsLose, LossLowersStake
  <2>3. CASE UNCHANGED challenge
    <3>1. challenge.steps[i].outcome \in LosingOutcomes /\ i \in 1..Rungs
      BY <1>1, <2>1, <2>3, ChallengeTyped DEF LInv
    <3> QED
      BY <1>1, <3>1 DEF Settled, LosingOutcomes
  <2> QED
    BY <1>1, <2>2, <2>3, StoreStep
<1>2. IInv /\ [Next]_vars =>
        [\A i \in DOMAIN challenge.steps :
            /\ ~Settled(i)
            /\ challenge'.steps[i].outcome \in LosingOutcomes
            => NextStake(challenge') <= NextStake(challenge)]_vars
  BY <1>1
<1> QED
  BY <1>2, StoreInvariance, PTL DEF Spec, LossNeverRaisesStake

=============================================================================
