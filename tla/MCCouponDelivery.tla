--------------------------- MODULE MCCouponDelivery --------------------------
(***************************************************************************)
(* The coupons of MCCouponQuote and the deliveries of SubscriptionDelivery *)
(* in one run.  They share no state, so nothing is gained by interleaving  *)
(* them: a behaviour is about one of the two, and leaves the other as it   *)
(* started.                                                                *)
(***************************************************************************)
EXTENDS MCCouponQuote, SubscriptionDelivery

VARIABLE about  \* the one of the two that this behaviour is about

MCDelivery(deliveries, replays, statuses, reopens, renewals, credentials, sweeps, refusals,
           faults, ticks) ==
  [deliver |-> deliveries, replay |-> replays, status |-> statuses, reopen |-> reopens,
   renew |-> renewals, credentials |-> credentials, sweep |-> sweeps, refusal |-> refusals,
   fault |-> faults, tick |-> ticks]
\* Two deliveries and a replay: with renewals and time, with the staff's own statuses, and
\* with mails that fail.
MCBudgets == {MCDelivery(2, 1, 0, 1, 1, 1, 0, 0, 0, 2),
              MCDelivery(2, 1, 2, 0, 1, 1, 0, 0, 0, 1),
              MCDelivery(2, 1, 0, 1, 0, 0, 2, 2, 1, 0)}

RunInit ==
  /\ Init /\ DeliveryInit
  /\ about \in {"coupons", "deliveries"}
  /\ about = "deliveries" => coupon.limit = CHOOSE l \in Limits : TRUE
  /\ about = "coupons" => budget = CHOOSE b \in Budgets : TRUE

RunNext ==
  \/ about = "coupons" /\ Next /\ UNCHANGED <<deliveryVars, about>>
  \/ about = "deliveries" /\ DeliveryNext /\ UNCHANGED <<vars, about>>

RunSpec == RunInit /\ [][RunNext]_<<vars, deliveryVars, about>>
=============================================================================
