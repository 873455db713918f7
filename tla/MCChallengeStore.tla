-------------------------- MODULE MCChallengeStore ---------------------------
(***************************************************************************)
(* Two concurrent requests on a small ladder: a bank of a few cents, half  *)
(* of it staked on each rung.                                              *)
(***************************************************************************)
EXTENDS ChallengeStore, TLC

CONSTANTS r1, r2

MCRequests == {r1, r2}
RequestSymmetry == Permutations(MCRequests)
=============================================================================
