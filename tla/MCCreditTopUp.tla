--------------------------- MODULE MCCreditTopUp ---------------------------
(***************************************************************************)
(* Small instances of CreditTopUp: one payment of one user, two handlers   *)
(* at a time; the budgets decide what may go wrong.                        *)
(***************************************************************************)
EXTENDS CreditTopUp, TLC

CONSTANTS User

MCOwner == [p \in Payments |-> User]

MCBudget(extras) == [x \in Extras |-> IF x \in extras THEN 1 ELSE 0]
AllTogether == {MCBudget({"refresh", "manual", "fault"}), MCBudget({"sync", "manual"})}
OneRefresh == {MCBudget({"refresh"})}

SlotSymmetry == Permutations(Slots)
=============================================================================
