---------------------------- MODULE MCAttemptTrail -----------------------------
(* Two commands at a time, two attempts, two keys, one power failure.      *)
EXTENDS AttemptTrail, TLC

MCSymmetry == Permutations(Process) \cup Permutations(Key) \cup Permutations(Attempt)

===============================================================================
