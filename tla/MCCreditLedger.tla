--------------------------- MODULE MCCreditLedger ---------------------------
(***************************************************************************)
(* A small instance of CreditLedger: one user, two requests, a pool of two  *)
(* clients and amounts of one unit.                                         *)
(***************************************************************************)
EXTENDS CreditLedger, TLC

MCAmounts == {1}
=============================================================================
