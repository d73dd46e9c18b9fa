--------------------------- MODULE MCOrderPayment ---------------------------
(***************************************************************************)
(* Small instances of OrderPayment.                                         *)
(***************************************************************************)
EXTENDS OrderPayment, TLC

\* Requests and sessions are interchangeable.
Symmetry == Permutations(Procs) \cup Permutations(Sessions)
=============================================================================
