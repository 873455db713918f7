------------------------------- MODULE MCCampaign ------------------------------
(* Small instances of Campaign for TLC.                                    *)
EXTENDS Campaign, TLC

CONSTANTS epl, e1, e2

(* One core observation opens the gate here, so that the step after it can *)
(* be lost within the bound on attempts.                                   *)
MCOneCore == [events |-> 1, competitions |-> 1, days |-> 1]
MCNoAdditional == [events |-> 0, competitions |-> 0, days |-> 0]
(* The other event is never listed: nothing may be spent on it.            *)
MCListing == [s \in {epl} |-> {e1}]

(* An empty discovery of an earlier protocol, like the one on record.      *)
MCHistory ==
    {[id |-> 100, command |-> "discover", sport |-> epl, tags |-> {},
      status |-> "COVERAGE_MISSING", attempts |-> 2, reached |-> TRUE, estimated |-> 0,
      observed |-> 0, accounted |-> 0, states |-> [m \in {} |-> m], book |-> "NOT_ASKED",
      ages |-> [m \in {} |-> m], selections |-> 0, rejections |-> FALSE, at |-> 0,
      parent |-> 0, current |-> FALSE]}

(* Fresh, or updated after the command took its clock.                     *)
MCAge == {0, -1}

MCSymmetry == Permutations(Operator)
===============================================================================
