-------------------------- MODULE MCPayPalCheckout --------------------------
(***************************************************************************)
(* Small instances of PayPalCheckout.                                       *)
(***************************************************************************)
EXTENDS PayPalCheckout, TLC

\* Items, requests and PayPal orders are interchangeable.
Symmetry == Permutations(Procs) \cup Permutations(Sessions) \cup Permutations(Items)
=============================================================================
