----------------------------- MODULE MCApiClient -----------------------------
(***************************************************************************)
(* Small instances of ApiClient: two workers sharing a ledger, one retry.  *)
(***************************************************************************)
EXTENDS ApiClient

CONSTANTS c1, c2

MCClient == {c1, c2}
ClientSymmetry == Permutations(MCClient)
=============================================================================
