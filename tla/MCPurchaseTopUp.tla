--------------------------- MODULE MCPurchaseTopUp ---------------------------
(***************************************************************************)
(* The purchases of CreditPurchase and the top-ups of CreditTopUp in one   *)
(* run.  They share no state, so nothing is gained by interleaving them: a *)
(* behaviour is about one of the two, and leaves the other as it started.  *)
(*                                                                         *)
(* Two purchases of one user; one top-up and two handlers at a time.       *)
(***************************************************************************)
EXTENDS CreditPurchase

CONSTANTS Payments, Payers, Payer, Slots

VARIABLES row, credit, guard, queue, status, child, mail, events, h, used, erased, twice

VARIABLE part  \* the one of the two that this behaviour is about

\* One sync or one manual allocation.
MCBudget(extra) == [x \in {"refresh", "manual", "sync", "fault"} |-> IF x = extra THEN 1 ELSE 0]
MCBudgets == {MCBudget("sync"), MCBudget("manual")}

Paying == INSTANCE CreditTopUp WITH
            Owner <- [p \in Payments |-> Payer], Budgets <- MCBudgets, prov <- status

ASSUME CreditPurchaseAssumption

topUpVars == <<row, credit, guard, queue, status, child, mail, events, h, used, erased, twice>>

RunInit == Init /\ Paying!TopUpInit /\ part \in {"purchases", "topups"}

RunNext ==
  \/ part = "purchases" /\ Next /\ UNCHANGED <<topUpVars, part>>
  \/ part = "topups" /\ Paying!TopUpNext /\ UNCHANGED <<vars, part>>

\* The fairness of CreditTopUp, in the behaviours that are about top-ups.
Fairness ==
  /\ \A s \in Slots : WF_topUpVars(part = "topups" /\ Paying!Step(s))
  /\ SF_topUpVars(\E s \in Slots, n \in Paying!Note : part = "topups" /\ Paying!Deliver(s, n))

RunSpec == RunInit /\ [][RunNext]_<<vars, topUpVars, part>> /\ Fairness

\* Whatever the provider has finished is credited (CreditTopUp).
PaidIsCredited == Paying!PaidIsCredited
=============================================================================
