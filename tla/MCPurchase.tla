----------------------------- MODULE MCPurchase -----------------------------
(***************************************************************************)
(* Purchase on small instances.  Two requests are enough for one user to   *)
(* order a course twice, or for a checkout to race a free enrolment; two   *)
(* webhook calls for a callback to overlap its own redelivery.             *)
(***************************************************************************)
EXTENDS Purchase, TLC

Symmetry == Permutations(User) \cup Permutations(Request) \cup Permutations(Handler)
=============================================================================
