---------------------------- MODULE MCStoredFiles -----------------------------
(***************************************************************************)
(* StoredFiles on a small instance: two requests and a third that           *)
(* interferes, one row of each kind and two logos that want one title.     *)
(***************************************************************************)
EXTENDS StoredFiles, TLC

Symmetry == Permutations(Request) \cup Permutations(Logo)
=============================================================================
