----------------------------- MODULE MCAccounts ------------------------------
(* Any five requests. *)
EXTENDS Accounts, TLC

CONSTANTS r1, r2, r3, r4, r5

Symmetry == Permutations(Request)
=============================================================================
