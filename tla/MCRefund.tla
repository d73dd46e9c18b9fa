------------------------------ MODULE MCRefund ------------------------------
(***************************************************************************)
(* A small instance of Refund: one payment of a user with enough credits   *)
(* for two debits, and two approvals.                                      *)
(***************************************************************************)
EXTENDS Refund

BudgetApprovals == [initiate |-> 1, approve |-> 2, reject |-> 0, manual |-> 0, fault |-> 0]
=============================================================================
