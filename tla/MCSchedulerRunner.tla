-------------------------- MODULE MCSchedulerRunner --------------------------
(***************************************************************************)
(* Small instances of SchedulerRunner: two workers; a daily scan due at 0  *)
(* and a milestone due at 1 whose event may be moved from 3 to 5, across   *)
(* the first budget reset; a lease of two ticks and a backoff of one.      *)
(***************************************************************************)
EXTENDS SchedulerRunner, TLC

CONSTANTS w1, w2, scan, milestone

MCWorker == {w1, w2}
MCJob == {scan, milestone}
OneJob == {scan}
MCScheduledFor == (scan :> 0) @@ (milestone :> 1)
MCDeadline == (scan :> {2}) @@ (milestone :> {3, 5})
MCJitter == (scan :> 0) @@ (milestone :> 1)
OneScheduledFor == scan :> 0
OneDeadline == scan :> {2, 5}
OneJitter == scan :> 0

WorkerSymmetry == Permutations(MCWorker)
=============================================================================
