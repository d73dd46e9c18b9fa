---------------------------- MODULE CreditPurchase ----------------------------
(***************************************************************************)
(* Subscriptions of one product that one user buys with credits: POST      *)
(* /purchase.  A purchase counts the user's active subscriptions, places   *)
(* an order, debits the ledger, counts again and creates the subscription; *)
(* what has been taken is given back when a later step fails.  No two of   *)
(* the steps are one transaction, and every answer may be lost.  The       *)
(* ledger is taken at its promise: AtomicLedger.                           *)
(***************************************************************************)
EXTENDS Integers, FiniteSets

CONSTANTS
  Orders,            \* purchases, by their order
  MaxSubscriptions,  \* the product's max_subscriptions
  Coupons,           \* the purchases that come with a coupon
  Users, Amounts, MinBalance, MaxBalance, MaxTransactionAmount,
  User,              \* the user
  Price,             \* what each subscription costs
  Start,             \* her balance
  TopUps, Faults     \* bounds: top-ups she makes meanwhile, and what goes wrong

CreditPurchaseAssumption ==
  /\ IsFiniteSet(Orders) /\ Coupons \subseteq Orders
  /\ MaxSubscriptions \in Nat \ {0}
  /\ User \in Users /\ Price \in Nat \ {0} /\ Start \in Nat
  /\ MinBalance \in Int /\ MaxBalance \in Int /\ Amounts \subseteq Nat
  /\ TopUps \in Nat /\ Faults \in Nat

VARIABLES
  order,     \* order[o]: the status of its row
  voucher,   \* voucher[o]: its coupon_redemptions row
  sub,       \* sub[o]: the status of its subscription
  entitled,  \* the orders with an order_entitlements row
  balance,   \* the ledger, see AtomicLedger
  lastKind,
  debited, refunded,  \* the orders whose debit, whose refund is in the ledger
  count,     \* the count of active subscriptions in Redis
  uncleared, \* the orders whose subscription has changed while the count has yet to be deleted
  req,       \* req[o]: the await the purchase is at, and the count it has read
  left,      \* what is left of TopUps and Faults
  outrun,    \* the count was written after a change it does not reckon in (history)
  hidden,    \* purchases that took an effect for a failure: its acknowledgement was lost (history)
  broken,    \* purchases with a failure other than a refusal (history)
  capped     \* purchases whose refund the ledger refused (history)

ledgerVars == <<balance, lastKind, debited, refunded>>
rowVars    == <<order, voucher, sub, entitled>>
countVars  == <<count, uncleared, outrun>>
histVars   == <<hidden, broken, capped>>
vars       == <<rowVars, ledgerVars, countVars, req, left, histVars>>

\* No top-up is credited twice here.
Ledger == INSTANCE AtomicLedger WITH TopUps <- {}, credited <- [u \in Users |-> <<>>]

NoCount == -1
Steps == {"count", "query", "fill", "order", "spend", "recount", "requery", "refill", "insert",
          "clear", "refund", "cancel", "void", "settle", "redeem", "entitle"}
Ended == {"none", "done"}

Init ==
  /\ order = [o \in Orders |-> "none"]
  /\ voucher = [o \in Orders |-> "none"]
  /\ sub = [o \in Orders |-> "none"]
  /\ entitled = {}
  /\ balance = [u \in Users |-> IF u = User THEN Start ELSE 0]
  /\ lastKind = [u \in Users |-> "none"]
  /\ debited = {} /\ refunded = {}
  /\ count = NoCount /\ uncleared = {} /\ outrun = FALSE
  /\ req = [o \in Orders |-> [pc |-> "none", seen |-> 0]]
  /\ left = [topup |-> TopUps, fault |-> Faults]
  /\ hidden = {} /\ broken = {} /\ capped = {}

Active == Cardinality({o \in Orders : sub[o] = "active"})

At(o, pc)   == req[o].pc = pc
Goto(o, pc) == req' = [req EXCEPT ![o].pc = pc]

\* A step of o fails: the database, Redis or a connection.
Breaks(o) ==
  /\ left.fault > 0 /\ left' = [left EXCEPT !.fault = @ - 1]
  /\ broken' = broken \cup {o}

-----------------------------------------------------------------------------
(* canPurchaseSubscription, which a purchase asks before its order and once  *)
(* more before its subscription                                              *)

\* What follows a count of n.
Decide(o, n) ==
  IF req[o].pc \in {"count", "query", "fill"}
  THEN IF n >= MaxSubscriptions THEN "done" ELSE "order"
  ELSE IF n >= MaxSubscriptions THEN "refund" ELSE "insert"

Begin(o) ==
  /\ At(o, "none") /\ Goto(o, "count")
  /\ UNCHANGED <<rowVars, ledgerVars, countVars, left, histVars>>

\* An error while counting counts as no subscription, an error before it as a refusal.
CountFails(o) ==
  /\ Breaks(o)
  /\ \/ /\ req[o].pc \in {"count", "query", "fill", "recount", "requery", "refill"}
        /\ Goto(o, Decide(o, 0))
     \/ /\ req[o].pc \in {"count", "recount"}
        /\ Goto(o, Decide(o, MaxSubscriptions))
  /\ UNCHANGED <<rowVars, ledgerVars, countVars, hidden, capped>>

ReadCount(o) ==
  /\ req[o].pc \in {"count", "recount"}
  /\ Goto(o, IF count # NoCount THEN Decide(o, count)
             ELSE IF At(o, "count") THEN "query" ELSE "requery")
  /\ UNCHANGED <<rowVars, ledgerVars, countVars, left, histVars>>

\* Only active subscriptions count, not those that wait for their delivery.
QueryCount(o) ==
  /\ req[o].pc \in {"query", "requery"}
  /\ req' = [req EXCEPT ![o] = [pc |-> IF At(o, "query") THEN "fill" ELSE "refill", seen |-> Active]]
  /\ UNCHANGED <<rowVars, ledgerVars, countVars, left, histVars>>

FillCount(o) ==
  /\ req[o].pc \in {"fill", "refill"}
  /\ count' = req[o].seen /\ outrun' = (req[o].seen # Active)
  /\ Goto(o, Decide(o, req[o].seen))
  /\ UNCHANGED <<rowVars, ledgerVars, uncleared, left, histVars>>

-----------------------------------------------------------------------------
(* The purchase                                                             *)

\* The order and the reservation of its coupon are one transaction, which may be refused.
PlaceOrder(o) ==
  /\ At(o, "order")
  /\ \/ /\ order' = [order EXCEPT ![o] = "pending_payment"]
        /\ voucher' = [voucher EXCEPT ![o] = IF o \in Coupons THEN "reserved" ELSE @]
        /\ Goto(o, "spend")
     \/ Goto(o, "done") /\ UNCHANGED <<order, voucher>>
  /\ UNCHANGED <<sub, entitled, ledgerVars, countVars, left, histVars>>

\* The subscription is created whatever the ledger answers.
Spend_Unchecked(o) ==
  /\ At(o, "spend")
  /\ \/ Ledger!Debit(User, Price) /\ debited' = debited \cup {o}
     \/ balance[User] - Price < MinBalance /\ UNCHANGED <<balance, lastKind, debited>>
  /\ Goto(o, "recount")
  /\ UNCHANGED <<rowVars, refunded, countVars, left, histVars>>

\* spendCredits: debited, refused, or an error, before the debit or after it.
Spend(o) ==
  /\ At(o, "spend")
  /\ \/ /\ Ledger!Debit(User, Price) /\ debited' = debited \cup {o}
        /\ \/ Goto(o, "recount") /\ UNCHANGED <<left, histVars>>
           \/ Breaks(o) /\ hidden' = hidden \cup {o} /\ Goto(o, "cancel") /\ UNCHANGED capped
     \/ /\ \/ balance[User] - Price < MinBalance /\ UNCHANGED <<left, broken>>
           \/ Breaks(o)
        /\ Goto(o, "cancel")
        /\ UNCHANGED <<balance, lastKind, debited, hidden, capped>>
  /\ UNCHANGED <<rowVars, refunded, countVars>>

\* createSubscription: the row waits for its delivery.  An error is taken for a failure,
\* also when the row is there.
InsertSubscription(o) ==
  /\ At(o, "insert")
  /\ \/ /\ sub' = [sub EXCEPT ![o] = "pending"]
        /\ Goto(o, "clear") /\ UNCHANGED <<left, histVars>>
     \/ /\ sub' = [sub EXCEPT ![o] = "pending"]
        /\ Breaks(o) /\ hidden' = hidden \cup {o} /\ Goto(o, "refund") /\ UNCHANGED capped
     \/ Breaks(o) /\ Goto(o, "refund") /\ UNCHANGED <<sub, hidden, capped>>
  /\ UNCHANGED <<order, voucher, entitled, ledgerVars, countVars>>

\* The count is deleted; an error is swallowed.
ClearCount(o) ==
  /\ At(o, "clear")
  /\ \/ count' = NoCount /\ outrun' = FALSE /\ UNCHANGED <<left, broken>>
     \/ Breaks(o) /\ UNCHANGED <<count, outrun>>
  /\ Goto(o, "settle")
  /\ UNCHANGED <<rowVars, ledgerVars, uncleared, hidden, capped>>

\* A subscription that was not created ends the purchase without a refund.
Refund_Forgotten(o) ==
  /\ At(o, "refund")
  /\ Goto(o, "cancel")
  /\ UNCHANGED <<rowVars, ledgerVars, countVars, left, histVars>>

\* refundCredits; its answer is not looked at.
Refund(o) ==
  /\ At(o, "refund")
  /\ \/ /\ Ledger!Deposit(User, "refund", Price) /\ refunded' = refunded \cup {o}
        /\ UNCHANGED <<left, broken, capped>>
     \/ /\ \/ /\ balance[User] + Price > MaxBalance
              /\ capped' = capped \cup {o} /\ UNCHANGED <<left, broken>>
           \/ Breaks(o) /\ UNCHANGED capped
        /\ UNCHANGED <<balance, lastKind, refunded>>
  /\ Goto(o, "cancel")
  /\ UNCHANGED <<rowVars, debited, countVars, hidden>>

\* The statements that follow are made without a look at what they find, and their
\* errors are passed over.
Write(o, pc, next) ==
  /\ At(o, pc)
  /\ Goto(o, next)
  /\ UNCHANGED <<ledgerVars, countVars, sub, hidden, capped>>

CancelOrder(o) ==
  /\ Write(o, "cancel", "void")
  /\ \/ order' = [order EXCEPT ![o] = "cancelled"] /\ UNCHANGED <<left, broken>>
     \/ Breaks(o) /\ UNCHANGED order
  /\ UNCHANGED <<voucher, entitled>>

\* voidRedemptionForOrder, finalizeRedemptionForOrder: of a reserved row only.
Settled(o, status) ==
  \/ /\ voucher' = [voucher EXCEPT ![o] = IF @ = "reserved" THEN status ELSE @]
     /\ UNCHANGED <<left, broken>>
  \/ Breaks(o) /\ UNCHANGED voucher

VoidCoupon(o) ==
  /\ Write(o, "void", "done")
  /\ Settled(o, "voided")
  /\ UNCHANGED <<order, entitled>>

\* updateOrderPayment.
SettleOrder(o) ==
  /\ Write(o, "settle", "redeem")
  /\ \/ order' = [order EXCEPT ![o] = "in_process"] /\ UNCHANGED <<left, broken>>
     \/ Breaks(o) /\ UNCHANGED order
  /\ UNCHANGED <<voucher, entitled>>

RedeemCoupon(o) ==
  /\ Write(o, "redeem", "entitle")
  /\ Settled(o, "redeemed")
  /\ UNCHANGED <<order, entitled>>

Entitle(o) ==
  /\ Write(o, "entitle", "done")
  /\ \/ entitled' = entitled \cup {o} /\ UNCHANGED <<left, broken>>
     \/ Breaks(o) /\ UNCHANGED entitled
  /\ UNCHANGED <<order, voucher>>

\* The backend dies.
Crash(o) ==
  /\ req[o].pc \notin Ended
  /\ Breaks(o)
  /\ Goto(o, "done")
  /\ UNCHANGED <<rowVars, ledgerVars, countVars, hidden, capped>>

-----------------------------------------------------------------------------
(* Around it                                                                *)

\* A subscription is activated or ends (SubscriptionDelivery), and the count is forgotten.
ChangeSubscription_Silent(o) ==
  /\ \/ sub[o] = "pending" /\ sub' = [sub EXCEPT ![o] = "active"]
     \/ sub[o] = "active" /\ sub' = [sub EXCEPT ![o] = "expired"]
  /\ UNCHANGED <<order, voucher, entitled, ledgerVars, countVars, req, left, histVars>>

\* A subscription is activated or ends (SubscriptionDelivery); the count is deleted next.
ChangeSubscription(o) ==
  /\ \/ sub[o] = "pending" /\ sub' = [sub EXCEPT ![o] = "active"]
     \/ sub[o] = "active" /\ sub' = [sub EXCEPT ![o] = "expired"]
  /\ uncleared' = uncleared \cup {o}
  /\ UNCHANGED <<order, voucher, entitled, ledgerVars, count, outrun, req, left, histVars>>

\* clearUserSubscriptionsCache; its errors are swallowed.
ClearAfterChange(o) ==
  /\ o \in uncleared
  /\ uncleared' = uncleared \ {o}
  /\ \/ count' = NoCount /\ outrun' = FALSE /\ UNCHANGED left
     \/ /\ left.fault > 0 /\ left' = [left EXCEPT !.fault = @ - 1]
        /\ outrun' = TRUE /\ UNCHANGED count
  /\ UNCHANGED <<rowVars, ledgerVars, req, histVars>>

CountExpires ==
  /\ count # NoCount
  /\ count' = NoCount /\ outrun' = FALSE
  /\ UNCHANGED <<rowVars, ledgerVars, uncleared, req, left, histVars>>

\* A reservation runs out (CouponRedemption).
ReservationExpires(o) ==
  /\ voucher[o] = "reserved"
  /\ voucher' = [voucher EXCEPT ![o] = "expired"]
  /\ UNCHANGED <<order, sub, entitled, ledgerVars, countVars, req, left, histVars>>

TopUp ==
  /\ left.topup > 0 /\ left' = [left EXCEPT !.topup = @ - 1]
  /\ \E a \in Amounts : Ledger!Change(User, "topup", balance[User] + a)
  /\ UNCHANGED <<rowVars, debited, refunded, countVars, req, histVars>>

Next ==
  \/ \E o \in Orders :
       \/ Begin(o) \/ CountFails(o) \/ ReadCount(o) \/ QueryCount(o) \/ FillCount(o)
       \/ PlaceOrder(o) \/ Spend(o) \/ InsertSubscription(o) \/ ClearCount(o)
       \/ Refund(o) \/ CancelOrder(o) \/ VoidCoupon(o)
       \/ SettleOrder(o) \/ RedeemCoupon(o) \/ Entitle(o) \/ Crash(o)
       \/ ChangeSubscription(o) \/ ClearAfterChange(o) \/ ReservationExpires(o)
  \/ CountExpires \/ TopUp

Spec == Init /\ [][Next]_vars

-----------------------------------------------------------------------------

TypeOK ==
  /\ order \in [Orders -> {"none", "pending_payment", "in_process", "cancelled"}]
  /\ voucher \in [Orders -> {"none", "reserved", "redeemed", "voided", "expired"}]
  /\ sub \in [Orders -> {"none", "pending", "active", "expired"}]
  /\ entitled \subseteq Orders /\ debited \subseteq Orders /\ refunded \subseteq Orders
  /\ balance \in [Users -> Int]
  /\ count \in Nat \cup {NoCount} /\ uncleared \subseteq Orders /\ outrun \in BOOLEAN
  /\ req \in [Orders -> [pc : Steps \cup Ended, seen : Nat]]
  /\ left \in [topup : Nat, fault : Nat]
  /\ hidden \subseteq Orders /\ broken \subseteq Orders /\ capped \subseteq Orders

\* A subscription takes a debit, a refund follows a debit, and who is refunded keeps no
\* subscription, unless the database created it and its acknowledgement was lost.
NothingGivenUnpaid ==
  /\ \A o \in Orders : sub[o] # "none" => o \in debited
  /\ refunded \subseteq debited
  /\ \A o \in refunded : sub[o] # "none" => o \in hidden

\* A purchase that ended without an error of the database or a crash has either taken the
\* credits and given the subscription with its entitlement, or taken nothing, or refunded
\* what it took, unless a top-up had filled the balance to its maximum; and neither the
\* order nor the coupon is left open.
PurchaseIsSettled ==
  \A o \in Orders : (At(o, "done") /\ o \notin broken) =>
    /\ order[o] # "pending_payment" /\ voucher[o] # "reserved"
    /\ IF sub[o] # "none" THEN order[o] = "in_process" /\ o \in entitled \ refunded
       ELSE order[o] # "in_process" /\ (o \in debited => o \in refunded \cup capped)

\* The count a purchase is judged by is the number of active subscriptions, unless the
\* change of one has yet to reach Redis, or a purchase wrote down what it had counted
\* before the change.
CountIsCurrent ==
  (count # NoCount /\ uncleared = {} /\ ~outrun) => count = Active
=============================================================================
