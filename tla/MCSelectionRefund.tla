-------------------------- MODULE MCSelectionRefund --------------------------
(***************************************************************************)
(* The selections of UpgradeSelection and the refunds of Refund in one     *)
(* run.  They share no state, so nothing is gained by interleaving them: a *)
(* behaviour is about one of the two, and leaves the other as it started.  *)
(*                                                                         *)
(* One subscription; one refunded payment of a user with enough credits    *)
(* for two debits, three requests at a time.                               *)
(***************************************************************************)
EXTENDS UpgradeSelection, Refund, TLC

VARIABLE part  \* the one of the two that this behaviour is about

MCBudget == [initiate |-> 1, approve |-> 2, reject |-> 2, manual |-> 1, fault |-> 2]

ASSUME UpgradeSelectionAssumption

SlotSymmetry == Permutations(Slots)

RunInit ==
  /\ Init /\ RefundInit
  /\ part \in {"selections", "refunds"}
  /\ part = "refunds" => /\ opts = [new |-> TRUE, own |-> TRUE, mmu |-> TRUE]
                         /\ item = [type |-> "none", ack |-> FALSE]

RunNext ==
  \/ part = "selections" /\ Next /\ UNCHANGED <<refundVars, part>>
  \/ part = "refunds" /\ RefundNext /\ UNCHANGED <<vars, part>>

RunSpec == RunInit /\ [][RunNext]_<<vars, refundVars, part>>
=============================================================================
