------------------------ MODULE MCSubscriptionRenewal ------------------------
(***************************************************************************)
(* A small instance of SubscriptionRenewal.                                 *)
(***************************************************************************)
EXTENDS SubscriptionRenewal, TLC

\* Not a date.
MCNoEnd == -1

\* Runs of the sweep are interchangeable.
Symmetry == Permutations(Runs)
=============================================================================
