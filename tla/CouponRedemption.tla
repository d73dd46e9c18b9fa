--------------------------- MODULE CouponRedemption ---------------------------
(***************************************************************************)
(* One coupon and the orders that ask for it: couponService.ts, the        *)
(* checkout that reserves a redemption (routes/payments.ts) and the        *)
(* payment and cancellation that settle it (paymentService.ts).            *)
(*                                                                         *)
(* A checkout inserts its order and its reservation in one READ COMMITTED  *)
(* transaction that locks the coupon's row; every statement of it sees     *)
(* what others committed before.  Payment, cancellation and validation of  *)
(* other orders do not take that lock.  A reservation runs out after       *)
(* COUPON_RESERVATION_MINUTES; the first checkout to notice marks it so.   *)
(***************************************************************************)
EXTENDS Integers, FiniteSets

CONSTANTS
  Orders, Users,
  BuyerOf,     \* BuyerOf[o]: the user who places order o
  Plain,       \* the orders without the coupon
  Bound,       \* the users the coupon is for: one of them, or all of them
  FirstOnly,   \* the coupon's first_order_only
  Limits,      \* values an admin gives max_redemptions (a large one stands for null)
  Edits,       \* bound: admin changes
  Faults       \* bound: crashes and database errors

ASSUME CouponAssumption ==
  /\ BuyerOf \in [Orders -> Users] /\ Plain \subseteq Orders
  /\ Bound \subseteq Users /\ FirstOnly \in BOOLEAN
  /\ Limits \subseteq Nat /\ Edits \in Nat /\ Faults \in Nat
  /\ IsFiniteSet(Orders)

VARIABLES
  coupon,      \* the coupon's row
  order,       \* order[o]: status of the order's row
  row,         \* row[o]: status of the redemption of order o
  due,         \* redemptions past their expires_at
  tx,          \* tx[o]: the checkout of order o
  pay, cancel, \* pay[o], cancel[o]: what its payment, its cancellation does next
  paid,        \* orders that were paid (history)
  spent        \* how much of Edits and Faults is spent

couponVars == <<coupon, order, row, due>>
vars       == <<couponVars, tx, pay, cancel, paid, spent>>

-----------------------------------------------------------------------------
OrderStatuses == {"none", "pending_payment", "in_process", "cancelled"}
RowStatuses   == {"none", "reserved", "redeemed", "voided", "expired"}
CouponStates  == {"active", "inactive", "deleted"}
TxSteps       == {"none", "clock", "lock", "expire", "user", "limit", "commit", "done"}

Public == Bound = Users

\* The checkouts that hold the coupon's row lock.
Holding  == {"expire", "user", "limit", "commit"}
Unlocked == \A x \in Orders : tx[x].pc \notin Holding

\* Reservations a checkout has marked expired and not committed: their rows are locked.
Locked(o) == \E x \in Orders : o \in tx[x].marked

\* What hasUserRedemption and countActiveRedemptions count at the time when now is overdue.
Active(now) ==
  {o \in Orders : row[o] = "redeemed" \/ (row[o] = "reserved" /\ o \notin now)}

HasPaidOrder(u) == \E o \in Orders : BuyerOf[o] = u /\ order[o] = "in_process"
UserUsed(u, now) == Public /\ \E o \in Active(now) : BuyerOf[o] = u

\* The checks of the coupon's own row and of the user's orders.
Allowed(o) ==
  /\ coupon.state = "active"
  /\ BuyerOf[o] \in Bound
  /\ FirstOnly => ~HasPaidOrder(BuyerOf[o])

TxIs(o, pc) == tx[o].pc = pc
NoTx        == [pc |-> "none", now |-> {}, marked |-> {}]
Over        == [pc |-> "done", now |-> {}, marked |-> {}]
Go(o, pc)   == tx' = [tx EXCEPT ![o].pc = pc]
Rollback(o) == tx' = [tx EXCEPT ![o] = Over]
Fault       == spent.faults < Faults /\ spent' = [spent EXCEPT !.faults = @ + 1]
Edit        == spent.edits < Edits /\ spent' = [spent EXCEPT !.edits = @ + 1]

Init ==
  /\ coupon \in [state : {"active"}, limit : Limits]
  /\ order = [o \in Orders |-> "none"]
  /\ row = [o \in Orders |-> "none"]
  /\ due = {}
  /\ tx = [o \in Orders |-> NoTx]
  /\ pay = [o \in Orders |-> "none"]
  /\ cancel = [o \in Orders |-> "none"]
  /\ paid = {}
  /\ spent = [edits |-> 0, faults |-> 0]

-----------------------------------------------------------------------------
\* A checkout without the coupon; it is of interest when it is paid.
PlainOrder(o) ==
  /\ o \in Plain /\ TxIs(o, "none")
  /\ order' = [order EXCEPT ![o] = "in_process"]
  /\ Rollback(o)
  /\ UNCHANGED <<coupon, row, due, pay, cancel, paid, spent>>

\* validateCouponForOrder and validateCouponForCart, outside any transaction:
\* what they see is looked at again under the lock.
Validate(o) ==
  /\ o \notin Plain /\ TxIs(o, "none")
  /\ Allowed(o)
  /\ LET stale == {r \in due : row[r] = "reserved" /\ ~Locked(r)} IN
       row' = [r \in Orders |-> IF r \in stale THEN "expired" ELSE row[r]]
  /\ IF UserUsed(BuyerOf[o], due) \/ Cardinality(Active(due)) >= coupon.limit
       THEN UNCHANGED tx ELSE Go(o, "clock")
  /\ UNCHANGED <<coupon, order, due, pay, cancel, paid, spent>>

\* reserveCouponRedemption reads the clock, then waits for SELECT ... FOR UPDATE:
\* the time may be old when it gets the row.
ReadClock(o) ==
  /\ TxIs(o, "clock")
  /\ tx' = [tx EXCEPT ![o].pc = "lock", ![o].now = due]
  /\ UNCHANGED <<couponVars, pay, cancel, paid, spent>>

\* Mutant of LockCoupon: a SELECT without FOR UPDATE.
LockCoupon_Unlocked(o) ==
  /\ TxIs(o, "lock")
  /\ IF Allowed(o) THEN Go(o, "expire") ELSE Rollback(o)
  /\ UNCHANGED <<couponVars, pay, cancel, paid, spent>>

LockCoupon(o) ==
  /\ TxIs(o, "lock") /\ Unlocked
  /\ IF Allowed(o) THEN Go(o, "expire") ELSE Rollback(o)
  /\ UNCHANGED <<couponVars, pay, cancel, paid, spent>>

\* Mutant of ExpireStale: it is left out.
ExpireStale_Skipped(o) ==
  /\ TxIs(o, "expire")
  /\ Go(o, "user")
  /\ UNCHANGED <<couponVars, pay, cancel, paid, spent>>

\* expireStaleReservations in the transaction: the rows stay locked to its end.
ExpireStale(o) ==
  /\ TxIs(o, "expire")
  /\ tx' = [tx EXCEPT ![o].pc = "user",
                      ![o].marked = {r \in tx[o].now : row[r] = "reserved"}]
  /\ UNCHANGED <<couponVars, pay, cancel, paid, spent>>

CheckUser(o) ==
  /\ TxIs(o, "user")
  /\ IF UserUsed(BuyerOf[o], tx[o].now) THEN Rollback(o) ELSE Go(o, "limit")
  /\ UNCHANGED <<couponVars, pay, cancel, paid, spent>>

CheckLimit(o) ==
  /\ TxIs(o, "limit")
  /\ IF Cardinality(Active(tx[o].now)) >= coupon.limit THEN Rollback(o) ELSE Go(o, "commit")
  /\ UNCHANGED <<couponVars, pay, cancel, paid, spent>>

\* The order, its reservation and the expired rows become visible.
Commit(o) ==
  /\ TxIs(o, "commit")
  /\ order' = [order EXCEPT ![o] = "pending_payment"]
  /\ row' = [[r \in Orders |-> IF r \in tx[o].marked THEN "expired" ELSE row[r]]
               EXCEPT ![o] = "reserved"]
  /\ Rollback(o)
  /\ UNCHANGED <<coupon, due, pay, cancel, paid, spent>>

\* A statement fails, or the backend dies: the transaction is rolled back.
Abort(o) ==
  /\ tx[o].pc \in Holding \cup {"clock", "lock"}
  /\ Fault
  /\ Rollback(o)
  /\ UNCHANGED <<couponVars, pay, cancel, paid>>

-----------------------------------------------------------------------------
\* The provider's payment of a pending order; a second one finds it processed.
Pay(o) ==
  /\ order[o] = "pending_payment"
  /\ order' = [order EXCEPT ![o] = "in_process"]
  /\ pay' = [pay EXCEPT ![o] = "finalize"]
  /\ paid' = paid \cup {o}
  /\ UNCHANGED <<coupon, row, due, tx, cancel, spent>>

\* finalizeRedemptionForOrder and voidRedemptionForOrder touch a reserved row only,
\* after any transaction that has it locked.
Settle(o, status) ==
  /\ ~Locked(o)
  /\ row' = [row EXCEPT ![o] = IF @ = "reserved" THEN status ELSE @]

\* Its answer is not looked at, and an error reads as "nothing done".
Finalize(o) ==
  /\ pay[o] = "finalize"
  /\ \/ Settle(o, "redeemed") /\ UNCHANGED spent
     \/ Fault /\ UNCHANGED row
  /\ pay' = [pay EXCEPT ![o] = "none"]
  /\ UNCHANGED <<coupon, order, due, tx, cancel, paid>>

\* A cancellation reads the order's status ...
Cancel(o) ==
  /\ cancel[o] = "none" /\ order[o] = "pending_payment"
  /\ cancel' = [cancel EXCEPT ![o] = "write"]
  /\ UNCHANGED <<couponVars, tx, pay, paid, spent>>

\* Mutant of CancelWrite: the reservation is kept.
CancelWrite_Kept(o) ==
  /\ cancel[o] = "write"
  /\ order' = [order EXCEPT ![o] = "cancelled"]
  /\ cancel' = [cancel EXCEPT ![o] = "none"]
  /\ UNCHANGED <<coupon, row, due, tx, pay, paid, spent>>

\* ... and updateOrderStatus writes the new one whatever it has become.
CancelWrite(o) ==
  /\ cancel[o] = "write"
  /\ order' = [order EXCEPT ![o] = "cancelled"]
  /\ cancel' = [cancel EXCEPT ![o] = "void"]
  /\ UNCHANGED <<coupon, row, due, tx, pay, paid, spent>>

Void(o) ==
  /\ cancel[o] = "void"
  /\ \/ Settle(o, "voided") /\ UNCHANGED spent
     \/ Fault /\ UNCHANGED row
  /\ cancel' = [cancel EXCEPT ![o] = "none"]
  /\ UNCHANGED <<coupon, order, due, tx, pay, paid>>

\* Time passes over a reservation.
RunOut(o) ==
  /\ row[o] = "reserved" /\ o \notin due
  /\ due' = due \cup {o}
  /\ UNCHANGED <<coupon, order, row, tx, pay, cancel, paid, spent>>

\* updateCoupon waits for the row's lock.
UpdateCoupon(limit, state) ==
  /\ coupon.state # "deleted" /\ state # "deleted" /\ Unlocked
  /\ Edit
  /\ coupon' = [state |-> state, limit |-> limit]
  /\ UNCHANGED <<order, row, due, tx, pay, cancel, paid>>

\* deleteCoupon takes the redemptions with it.
DeleteCoupon ==
  /\ coupon.state # "deleted" /\ Unlocked
  /\ Edit
  /\ coupon' = [coupon EXCEPT !.state = "deleted"]
  /\ row' = [o \in Orders |-> "none"]
  /\ due' = {}
  /\ UNCHANGED <<order, tx, pay, cancel, paid>>

-----------------------------------------------------------------------------
Checkout(o) ==
  \/ ReadClock(o) \/ LockCoupon(o) \/ ExpireStale(o) \/ CheckUser(o) \/ CheckLimit(o) \/ Commit(o)

Settlement(o) == Finalize(o) \/ CancelWrite(o) \/ Void(o)

Next ==
  \/ \E o \in Orders :
       \/ PlainOrder(o) \/ Validate(o) \/ Checkout(o) \/ Abort(o)
       \/ Pay(o) \/ Cancel(o) \/ Settlement(o) \/ RunOut(o)
  \/ \E limit \in Limits, state \in CouponStates : UpdateCoupon(limit, state)
  \/ DeleteCoupon

Spec == Init /\ [][Next]_vars

-----------------------------------------------------------------------------
TypeOK ==
  /\ coupon \in [state : CouponStates, limit : Limits]
  /\ order \in [Orders -> OrderStatuses]
  /\ row \in [Orders -> RowStatuses]
  /\ due \subseteq Orders
  /\ tx \in [Orders -> [pc : TxSteps, now : SUBSET Orders, marked : SUBSET Orders]]
  /\ pay \in [Orders -> {"none", "finalize"}]
  /\ cancel \in [Orders -> {"none", "write", "void"}]
  /\ paid \subseteq Orders
  /\ spent \in [edits : Nat, faults : Nat]

\* Redemptions that may still come to count: a reservation nobody has marked
\* expired is among them, for a late payment redeems it.
Live == {o \in Orders : row[o] \in {"reserved", "redeemed"}}

\* A public coupon serves each user once, whichever of her checkouts run at the
\* same time and however late a payment settles a reservation that has run out.
OnePerUser ==
  Public => \A o, p \in Live : o # p => BuyerOf[o] # BuyerOf[p]

\* A reservation is only ever added within the limit of that moment, counting the
\* overdue ones that a payment may still redeem.
LimitHeld ==
  [][Cardinality(Live') > Cardinality(Live) => Cardinality(Live') <= coupon'.limit]_vars

\* A cancelled order has let go of its reservation, in whatever order the
\* cancellation, a payment and the checkouts of others reached the row, unless a
\* database error was swallowed on the way.
CancelledReleases ==
  \A o \in Orders :
    order[o] = "cancelled" /\ cancel[o] = "none" /\ spent.faults = 0 => row[o] # "reserved"

\* "blocks public coupons for users who already redeemed" (couponService.test.ts):
\* refuted, a payment after the reservation ran out leaves no trace of the redemption.
OnePaidOrderPerUser ==
  Public => \A o, p \in paid \ Plain : o # p => BuyerOf[o] # BuyerOf[p]
=============================================================================
