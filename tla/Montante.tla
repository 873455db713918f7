------------------------------ MODULE Montante -------------------------------
(* The progression itself (challenge/montante.py): one aggregate whose every   *)
(* transition is atomic.  This is what a client is promised; ChallengeStore    *)
(* shows that requests which load, compute and save keep the promise.          *)
(*                                                                             *)
(* Money is in cents and odds in hundredths, so that the two roundings of the  *)
(* code are those of the model.  Labels, reasons, proofs and dates are left    *)
(* out.                                                                        *)
EXTENDS Integers, Sequences

CONSTANTS
    InitialBank, TargetBank, MaxLoss,       \* in cents
    FractionNum, FractionDen,               \* fraction_per_step
    MinOdds, MaxOdds,                       \* the range of the configuration
    Odds,                                   \* the odds that are offered
    MaxSteps,
    StopOnFirstLoss,
    None

\* A configuration orders its amounts and its odds strictly before they are
\* rounded (ChallengeConfig.__post_init__): rounded, they may meet.
ASSUME MontanteAssumption ==
    /\ InitialBank \in Nat /\ TargetBank \in Nat /\ MaxLoss \in Nat
    /\ MaxLoss <= InitialBank /\ InitialBank <= TargetBank
    /\ FractionNum \in Nat \ {0} /\ FractionDen \in Nat \ {0}
    /\ FractionNum <= FractionDen
    /\ MinOdds \in Nat /\ MaxOdds \in Nat /\ 100 <= MinOdds /\ MinOdds <= MaxOdds
    /\ Odds \subseteq Nat
    /\ MaxSteps \in Nat \ {0}
    /\ StopOnFirstLoss \in BOOLEAN
    /\ None \notin Int

VARIABLE challenge      \* [state, bank, steps]

Terminal == {"TARGET_REACHED", "STOPPED", "LOST", "CANCELLED"}
States == Terminal \cup {"DRAFT", "WAITING_FOR_CANDIDATE",
                         "AWAITING_USER_CONFIRMATION", "AWAITING_RESULT"}

LosingOutcomes == {"lost", "half_lost"}
NeutralOutcomes == {"void", "cancelled", "postponed"}
Outcomes == {"won", "half_won"} \cup LosingOutcomes \cup NeutralOutcomes

-----------------------------------------------------------------------------
\* to_cents of the fraction amount/unit: half a cent rounds up.
ToCents(amount, unit) == (2 * amount + unit) \div (2 * unit)

\* next_stake_cents reads the bank and never the steps.
NextStake(c) == ToCents(c.bank * FractionNum, FractionDen)

Returned(stake, odds) == ToCents(stake * odds, 100)

\* Mutated BankAfter: a half-lost bet gives half of it back on top.
BankAfterRefund(step, outcome) ==
    LET staked == step.before - step.stake
    IN  CASE outcome = "won" -> staked + Returned(step.stake, step.accepted)
          [] outcome = "half_won" -> step.before
          [] outcome = "half_lost" -> step.before + step.stake \div 2
          [] outcome = "lost" -> staked
          [] OTHER -> step.before

\* The bank that settles a rung.
BankAfter(step, outcome) ==
    LET staked == step.before - step.stake
        half == step.stake \div 2
    IN  CASE outcome = "won" -> staked + Returned(step.stake, step.accepted)
          [] outcome = "half_won" -> staked + half + Returned(half, step.accepted)
          [] outcome = "lost" -> staked
          [] outcome = "half_lost" -> staked + (step.stake - half)
          [] OTHER -> step.before

\* Mutated StateAfter: the floor is only crossed below it.
StateAboveFloor(bank, outcome, rungs) ==
    CASE bank >= TargetBank -> "TARGET_REACHED"
      [] bank < TargetBank /\ bank < MaxLoss -> "LOST"
      [] bank < TargetBank /\ bank >= MaxLoss ->
            IF outcome \in LosingOutcomes /\ StopOnFirstLoss THEN "LOST"
            ELSE IF rungs >= MaxSteps THEN "STOPPED" ELSE "WAITING_FOR_CANDIDATE"

\* _apply_stop_rules, in the order of the code.
StateAfter(bank, outcome, rungs) ==
    IF bank >= TargetBank THEN "TARGET_REACHED"
    ELSE IF bank <= MaxLoss THEN "LOST"
    ELSE IF outcome \in LosingOutcomes /\ StopOnFirstLoss THEN "LOST"
    ELSE IF rungs >= MaxSteps THEN "STOPPED"
    ELSE "WAITING_FOR_CANDIDATE"

LastOf(c) == c.steps[Len(c.steps)]

-----------------------------------------------------------------------------
(* The transitions, from an aggregate c to an aggregate d.                     *)

Activate(c, d) ==
    /\ c.state = "DRAFT"
    /\ d = [c EXCEPT !.state = "WAITING_FOR_CANDIDATE"]

\* At the last rung propose() raises, and what it changed is never saved.
Propose(c, odds, d) ==
    /\ c.state = "WAITING_FOR_CANDIDATE"
    /\ Len(c.steps) < MaxSteps
    /\ MinOdds <= odds /\ odds <= MaxOdds
    /\ d = [c EXCEPT !.state = "AWAITING_USER_CONFIRMATION",
                     !.steps = Append(@, [before |-> c.bank, stake |-> NextStake(c),
                                          detected |-> odds, accepted |-> None,
                                          outcome |-> "pending", after |-> None])]

\* The price the user got, which nothing relates to the range.
Confirm(c, odds, d) ==
    /\ c.state = "AWAITING_USER_CONFIRMATION"
    /\ odds > 100
    /\ d = [c EXCEPT !.state = "AWAITING_RESULT",
                     !.steps = [c.steps EXCEPT ![Len(c.steps)].accepted = odds]]

\* Mutated Settle: a result is also taken once the rung is settled.
SettleAgain(c, outcome, d) ==
    /\ c.state \in {"AWAITING_RESULT", "WAITING_FOR_CANDIDATE"}
    /\ c.steps # <<>>
    /\ LET bank == BankAfter(LastOf(c), outcome)
       IN  d = [state |-> StateAfter(bank, outcome, Len(c.steps)),
                bank |-> bank,
                steps |-> [c.steps EXCEPT ![Len(c.steps)] =
                             [@ EXCEPT !.outcome = outcome, !.after = bank]]]

\* A result settles the last rung, moves the bank and applies the stop rules.
Settle(c, outcome, d) ==
    /\ c.state = "AWAITING_RESULT"
    /\ LET bank == BankAfter(LastOf(c), outcome)
       IN  d = [state |-> StateAfter(bank, outcome, Len(c.steps)),
                bank |-> bank,
                steps |-> [c.steps EXCEPT ![Len(c.steps)] =
                             [@ EXCEPT !.outcome = outcome, !.after = bank]]]

\* Always available, and from every state.
Stop(c, d) == d = [c EXCEPT !.state = "STOPPED"]

Transition(c, d) ==
    \/ Activate(c, d)
    \/ \E odds \in Odds : Propose(c, odds, d) \/ Confirm(c, odds, d)
    \/ \E outcome \in Outcomes : Settle(c, outcome, d)
    \/ Stop(c, d)

Created == [state |-> "DRAFT", bank |-> InitialBank, steps |-> <<>>]

LadderInit == challenge = Created
LadderNext == Transition(challenge, challenge')
LadderSpec == LadderInit /\ [][LadderNext]_challenge
=============================================================================
