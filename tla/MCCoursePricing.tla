--------------------------- MODULE MCCoursePricing ---------------------------
(***************************************************************************)
(* CoursePricing with three prices and none: the least for a discount to   *)
(* lie below one price and above another, one of them 0.                   *)
(***************************************************************************)
EXTENDS CoursePricing, TLC

ThreePrices == 0 .. 2
Symmetry == Permutations(Admin)
=============================================================================
