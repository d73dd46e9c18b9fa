-------------------------- MODULE CouponDelivery_proofs ------------------------
(***************************************************************************)
(* What holds of a coupon for every set of orders and users and every      *)
(* limit; of an order's quoted prices for every history of up to           *)
(* MaxChanges changes and of its cents for every basket; and of an order's *)
(* delivery and its subscription for every number of requests of the       *)
(* staff, every length of a term and every bound on what may happen.  The  *)
(* parts share no state: COUPONS, PRICES, CENTS, DELIVERIES.               *)
(***************************************************************************)
EXTENDS MCCouponQuote, SubscriptionDelivery, NaturalsInduction, WellFoundedInduction,
  FiniteSetTheorems, TLAPS

-----------------------------------------------------------------------------
(* COUPONS                                                                  *)

\* FOR UPDATE: one checkout at a time is past the coupon's row.
OneHolder == \A x, y \in Orders : tx[x].pc \in Holding /\ tx[y].pc \in Holding => x = y

\* A checkout past its expiry step has marked every reservation that is overdue for
\* it, and keeps those rows locked.
StaleAreMarked ==
  \A x \in Orders :
    /\ tx[x].marked # {} => tx[x].pc \in {"user", "limit", "commit"}
    /\ \A r \in tx[x].marked : row[r] = "reserved" /\ r \in tx[x].now
    /\ tx[x].pc \in {"user", "limit", "commit"} =>
         \A r \in tx[x].now : row[r] = "reserved" => r \in tx[x].marked

\* What the user check found still holds at the commit.
UserIsNew ==
  \A x \in Orders : Public /\ tx[x].pc \in {"limit", "commit"} =>
    \A o \in Live \ tx[x].marked : BuyerOf[o] # BuyerOf[x]

\* And so does what the limit check found.
RoomLeft ==
  \A x \in Orders : tx[x].pc = "commit" => Cardinality(Live \ tx[x].marked) < coupon.limit

CouponInv ==
  /\ TypeOK
  /\ OneHolder
  /\ StaleAreMarked
  /\ UserIsNew
  /\ RoomLeft
  /\ OnePerUser

-----------------------------------------------------------------------------
Txs == [pc : TxSteps, now : SUBSET Orders, marked : SUBSET Orders]

\* A checkout that moves on or gives up is still one.
LEMMA GoType ==
  ASSUME TypeOK, NEW o \in Orders, NEW pc \in TxSteps, Go(o, pc) \/ Rollback(o)
  PROVE  tx' \in [Orders -> Txs]
<1>1. tx \in [Orders -> Txs] /\ Over \in Txs
  BY DEF TypeOK, Txs, Over, TxSteps
<1>2. CASE Rollback(o)
  BY <1>1, <1>2 DEF Rollback
<1>3. CASE Go(o, pc)
  <2>1. [tx[o] EXCEPT !.pc = pc] \in Txs
    BY <1>1 DEF Txs
  <2>2. tx' = [tx EXCEPT ![o] = [tx[o] EXCEPT !.pc = pc]]
    BY <1>3 DEF Go
  <2>3. QED
    BY <1>1, <2>1, <2>2
<1>4. QED
  BY <1>2, <1>3

\* Type correctness: every step keeps each variable's type.
LEMMA TypeStep == TypeOK /\ [Next]_vars => TypeOK'
<1> SUFFICES ASSUME TypeOK, [Next]_vars PROVE TypeOK'
  OBVIOUS
<1> USE CouponAssumption
<1> USE DEF TypeOK, vars, couponVars, OrderStatuses, RowStatuses, CouponStates, TxSteps,
        Rollback, Over, NoTx, TxIs, Fault, Edit
<1>1. ASSUME NEW o \in Orders, PlainOrder(o) PROVE TypeOK'
  BY <1>1 DEF PlainOrder
<1>2. ASSUME NEW o \in Orders, Validate(o) PROVE TypeOK'
  <2>1. row' \in [Orders -> RowStatuses]
    BY <1>2 DEF Validate
  <2>2. UNCHANGED tx \/ Go(o, "clock")
    BY <1>2 DEF Validate
  <2>3. tx' \in [Orders -> Txs]
    BY <2>2, GoType DEF Txs
  <2>4. UNCHANGED <<coupon, order, due, pay, cancel, paid, spent>>
    BY <1>2 DEF Validate
  <2>5. QED
    BY <2>1, <2>3, <2>4 DEF Txs
<1>3. ASSUME NEW o \in Orders, ReadClock(o) \/ ExpireStale(o) PROVE TypeOK'
  <2> DEFINE marked == {r \in tx[o].now : row[r] = "reserved"}
  <2>1. tx[o] \in Txs
    BY DEF Txs
  <2>2. /\ [tx[o] EXCEPT !.pc = "lock", !.now = due] \in Txs
        /\ [tx[o] EXCEPT !.pc = "user", !.marked = marked] \in Txs
    BY <2>1 DEF Txs
  <2>3. \/ tx' = [tx EXCEPT ![o] = [tx[o] EXCEPT !.pc = "lock", !.now = due]]
        \/ tx' = [tx EXCEPT ![o] = [tx[o] EXCEPT !.pc = "user", !.marked = marked]]
    BY <1>3 DEF ReadClock, ExpireStale
  <2>4. tx' \in [Orders -> Txs]
    BY <2>2, <2>3, ZenonT(30) DEF Txs
  <2>5. UNCHANGED <<couponVars, pay, cancel, paid, spent>>
    BY <1>3 DEF ReadClock, ExpireStale
  <2>6. QED
    BY <2>4, <2>5 DEF Txs
<1>4. ASSUME NEW o \in Orders, LockCoupon(o) \/ CheckUser(o) \/ CheckLimit(o) PROVE TypeOK'
  <2>1. \E pc \in TxSteps : Go(o, pc) \/ Rollback(o)
    BY <1>4 DEF LockCoupon, CheckUser, CheckLimit
  <2>2. tx' \in [Orders -> Txs]
    BY <2>1, GoType
  <2>3. UNCHANGED <<couponVars, pay, cancel, paid, spent>>
    BY <1>4 DEF LockCoupon, CheckUser, CheckLimit
  <2>4. QED
    BY <2>2, <2>3 DEF Txs
<1>5. ASSUME NEW o \in Orders, Commit(o) PROVE TypeOK'
  BY <1>5 DEF Commit
<1>6. ASSUME NEW o \in Orders, Abort(o) PROVE TypeOK'
  BY <1>6 DEF Abort
<1>7. ASSUME NEW o \in Orders, Pay(o) \/ Cancel(o) \/ CancelWrite(o) \/ RunOut(o) PROVE TypeOK'
  BY <1>7, ZenonT(30) DEF Pay, Cancel, CancelWrite, RunOut
<1>8. ASSUME NEW o \in Orders, Finalize(o) \/ Void(o) PROVE TypeOK'
  <2>1. row' \in [Orders -> RowStatuses]
    BY <1>8 DEF Finalize, Void, Settle
  <2>2. spent' \in [edits : Nat, faults : Nat]
    BY <1>8, SMTT(30) DEF Finalize, Void
  <2>3. pay' \in [Orders -> {"none", "finalize"}] /\ cancel' \in [Orders -> {"none", "write", "void"}]
    BY <1>8, SMTT(30) DEF Finalize, Void
  <2>4. UNCHANGED <<coupon, order, due, tx, paid>>
    BY <1>8 DEF Finalize, Void
  <2>5. QED
    BY <2>1, <2>2, <2>3, <2>4
<1>9. ASSUME NEW limit \in Limits, NEW state \in CouponStates, UpdateCoupon(limit, state)
      PROVE TypeOK'
  BY <1>9 DEF UpdateCoupon
<1>10. CASE DeleteCoupon
  BY <1>10 DEF DeleteCoupon
<1>11. CASE UNCHANGED vars
  BY <1>11
<1>12. QED
  BY <1>1, <1>2, <1>3, <1>4, <1>5, <1>6, <1>7, <1>8, <1>9, <1>10, <1>11
     DEF Next, Checkout, Settlement

-----------------------------------------------------------------------------
\* What every step but a commit does: it only takes reservations away, and leaves
\* alone the rows that a checkout has locked.
Shrinks ==
  /\ \A r \in Orders : row'[r] = "reserved" => row[r] = "reserved"
  /\ Live' \subseteq Live
  /\ \A r \in Orders : Locked(r) => row'[r] = row[r]

\* They all do.
LEMMA ShrinkStep ==
  ASSUME TypeOK, StaleAreMarked, [Next]_vars, \A o \in Orders : ~Commit(o)
  PROVE  Shrinks
<1> USE DEF TypeOK, Live, RowStatuses
<1>1. ASSUME UNCHANGED row PROVE Shrinks
  BY <1>1 DEF Shrinks
<1>2. ASSUME NEW o \in Orders, Validate(o) PROVE Shrinks
  BY <1>2 DEF Validate, Shrinks
<1>3. ASSUME NEW o \in Orders, NEW status \in {"redeemed", "voided"}, Settle(o, status)
      PROVE  Shrinks
  BY <1>3 DEF Settle, Shrinks
<1>4. CASE DeleteCoupon
  <2>1. \A r \in Orders : ~Locked(r)
    BY <1>4 DEF DeleteCoupon, Unlocked, Holding, StaleAreMarked, Locked
  <2>2. QED
    BY <1>4, <2>1 DEF DeleteCoupon, Shrinks
<1>5. ASSUME NEW o \in Orders,
             \/ PlainOrder(o) \/ ReadClock(o) \/ LockCoupon(o) \/ ExpireStale(o) \/ CheckUser(o)
             \/ CheckLimit(o) \/ Abort(o) \/ Pay(o) \/ Cancel(o) \/ CancelWrite(o) \/ RunOut(o)
      PROVE  UNCHANGED row
  BY <1>5 DEF PlainOrder, ReadClock, LockCoupon, ExpireStale, CheckUser, CheckLimit, Abort, Pay,
              Cancel, CancelWrite, RunOut, couponVars
<1>6. ASSUME NEW o \in Orders, Finalize(o) \/ Void(o) PROVE Shrinks
  BY <1>1, <1>3, <1>6 DEF Finalize, Void
<1>7. ASSUME (\E limit \in Limits, state \in CouponStates : UpdateCoupon(limit, state)) \/ UNCHANGED vars
      PROVE  UNCHANGED row
  BY <1>7 DEF UpdateCoupon, vars, couponVars
<1>8. QED
  BY <1>1, <1>2, <1>4, <1>5, <1>6, <1>7 DEF Next, Checkout, Settlement

\* The steps that leave every checkout alone.
Elsewhere ==
  \/ \E o \in Orders : Pay(o) \/ Cancel(o) \/ CancelWrite(o) \/ RunOut(o) \/ Finalize(o) \/ Void(o)
  \/ \E limit \in Limits, state \in CouponStates : UpdateCoupon(limit, state)
  \/ DeleteCoupon
  \/ UNCHANGED vars

\* The steps of a checkout that end outside the lock.
Leaves(o) == PlainOrder(o) \/ Validate(o) \/ ReadClock(o) \/ Abort(o)

\* They do.
LEMMA ElsewhereTx == Elsewhere => UNCHANGED tx
  BY DEF Elsewhere, Pay, Cancel, CancelWrite, RunOut, Finalize, Void, UpdateCoupon, DeleteCoupon,
         vars, couponVars

\* After such a step the checkout holds nothing, and the others are where they were.
LEMMA LeavesTx ==
  ASSUME TypeOK, StaleAreMarked, NEW o \in Orders, Leaves(o)
  PROVE  /\ tx'[o].pc \notin Holding /\ tx'[o].marked = {}
         /\ \A x \in Orders \ {o} : tx'[x] = tx[x]
         /\ coupon' = coupon
<1> USE DEF TypeOK, Holding, Go, Rollback, Over, TxIs, couponVars
<1>1. CASE PlainOrder(o)
  BY <1>1 DEF PlainOrder
<1>2. CASE Validate(o)
  <2>1. tx[o].pc = "none" /\ tx[o].marked = {}
    BY <1>2 DEF Validate, StaleAreMarked
  <2>2. UNCHANGED tx \/ tx' = [tx EXCEPT ![o].pc = "clock"]
    BY <1>2 DEF Validate
  <2>3. coupon' = coupon
    BY <1>2 DEF Validate
  <2>4. QED
    BY <2>1, <2>2, <2>3
<1>3. CASE ReadClock(o)
  BY <1>3, SMTT(30) DEF ReadClock, StaleAreMarked
<1>4. CASE Abort(o)
  BY <1>4 DEF Abort
<1>5. QED
  BY <1>1, <1>2, <1>3, <1>4 DEF Leaves

\* Every step is of one of these kinds.
LEMMA KindsOfStep ==
  ASSUME [Next]_vars
  PROVE  \/ Elsewhere
         \/ \E o \in Orders : \/ Leaves(o) \/ LockCoupon(o) \/ ExpireStale(o) \/ CheckUser(o)
                              \/ CheckLimit(o) \/ Commit(o)
  BY DEF Next, Checkout, Settlement, Elsewhere, Leaves

-----------------------------------------------------------------------------
\* The coupon's row is locked by one.
LEMMA HolderStep == TypeOK /\ StaleAreMarked /\ OneHolder /\ [Next]_vars => OneHolder'
<1> SUFFICES ASSUME TypeOK, StaleAreMarked, OneHolder, [Next]_vars PROVE OneHolder'
  OBVIOUS
<1> USE DEF TypeOK, OneHolder
<1>1. CASE Elsewhere
  BY <1>1, ElsewhereTx
<1>2. ASSUME NEW o \in Orders, Leaves(o) PROVE OneHolder'
  BY <1>2, LeavesTx
<1>3. ASSUME NEW o \in Orders, LockCoupon(o) PROVE OneHolder'
  BY <1>3 DEF LockCoupon, Unlocked, Go, Rollback, Over, TxIs, Holding
<1>4. ASSUME NEW o \in Orders, ExpireStale(o) \/ CheckUser(o) \/ CheckLimit(o) \/ Commit(o)
      PROVE  OneHolder'
  BY <1>4 DEF ExpireStale, CheckUser, CheckLimit, Commit, Go, Rollback, Over, TxIs, Holding
<1>5. QED
  BY <1>1, <1>2, <1>3, <1>4, KindsOfStep

\* A commit leaves no other checkout with marked rows, for it held the lock alone.
LEMMA CommitAlone ==
  ASSUME TypeOK, OneHolder, StaleAreMarked, NEW o \in Orders, Commit(o)
  PROVE  /\ \A x \in Orders : tx'[x].pc \notin Holding /\ tx'[x].marked = {}
         /\ \A r \in Orders : row'[r] = IF r = o THEN "reserved"
                                        ELSE IF r \in tx[o].marked THEN "expired" ELSE row[r]
         /\ coupon' = coupon
<1>1. tx[o].pc = "commit" /\ tx' = [tx EXCEPT ![o] = Over] /\ coupon' = coupon
  BY DEF Commit, TxIs, Rollback
<1>2. \A x \in Orders \ {o} : tx[x].pc \notin Holding /\ tx[x].marked = {}
  BY <1>1 DEF OneHolder, StaleAreMarked, Holding
<1>3. \A x \in Orders : tx'[x].pc \notin Holding /\ tx'[x].marked = {}
  BY <1>1, <1>2 DEF TypeOK, Over, Holding
<1>4. \A r \in Orders : row'[r] = IF r = o THEN "reserved"
                                 ELSE IF r \in tx[o].marked THEN "expired" ELSE row[r]
  BY DEF Commit
<1>5. QED
  BY <1>1, <1>3, <1>4

\* What a checkout has marked as overdue stays reserved while it holds the row.
LEMMA MarkedStep == TypeOK /\ OneHolder /\ StaleAreMarked /\ [Next]_vars => StaleAreMarked'
<1> SUFFICES ASSUME TypeOK, OneHolder, StaleAreMarked, [Next]_vars PROVE StaleAreMarked'
  OBVIOUS
<1>1. ASSUME NEW o \in Orders, Commit(o) PROVE StaleAreMarked'
  BY <1>1, CommitAlone DEF StaleAreMarked, Holding
<1>2. ASSUME \A o \in Orders : ~Commit(o) PROVE StaleAreMarked'
  <2>1. Shrinks
    BY <1>2, ShrinkStep
  <2>2. ASSUME NEW x \in Orders, tx'[x] = tx[x]
        PROVE  /\ tx'[x].marked # {} => tx'[x].pc \in {"user", "limit", "commit"}
               /\ \A r \in tx'[x].marked : row'[r] = "reserved" /\ r \in tx'[x].now
               /\ tx'[x].pc \in {"user", "limit", "commit"} =>
                    \A r \in tx'[x].now : row'[r] = "reserved" => r \in tx'[x].marked
    BY <2>1, <2>2 DEF StaleAreMarked, Shrinks, Locked, TypeOK
  <2>3. CASE Elsewhere
    BY <2>2, <2>3, ElsewhereTx DEF StaleAreMarked
  <2>4. ASSUME NEW o \in Orders, Leaves(o) PROVE StaleAreMarked'
    <3>1. tx'[o].pc \notin {"user", "limit", "commit"} /\ tx'[o].marked = {}
      BY <2>4, LeavesTx DEF Holding
    <3>2. \A x \in Orders \ {o} : tx'[x] = tx[x]
      BY <2>4, LeavesTx
    <3>3. QED
      BY <2>2, <3>1, <3>2 DEF StaleAreMarked
  <2>5. ASSUME NEW o \in Orders, LockCoupon(o) PROVE StaleAreMarked'
    <3>1. tx'[o].pc \notin {"user", "limit", "commit"} /\ tx'[o].marked = {}
      BY <2>5 DEF LockCoupon, TypeOK, TxIs, Go, Rollback, Over, StaleAreMarked
    <3>2. \A x \in Orders \ {o} : tx'[x] = tx[x]
      BY <2>5 DEF LockCoupon, TypeOK, Go, Rollback
    <3>3. QED
      BY <2>2, <3>1, <3>2 DEF StaleAreMarked
  <2>6. ASSUME NEW o \in Orders, ExpireStale(o) PROVE StaleAreMarked'
    <3>1. /\ tx'[o].pc = "user" /\ tx'[o].now = tx[o].now /\ UNCHANGED row
          /\ tx'[o].marked = {r \in tx[o].now : row[r] = "reserved"}
          /\ \A x \in Orders \ {o} : tx'[x] = tx[x]
      BY <2>6 DEF ExpireStale, TypeOK, couponVars
    <3>2. QED
      BY <2>2, <3>1 DEF StaleAreMarked
  <2>7. ASSUME NEW o \in Orders, CheckUser(o) \/ CheckLimit(o) PROVE StaleAreMarked'
    <3>1. /\ tx[o].pc \in {"user", "limit"} /\ UNCHANGED row
          /\ \A x \in Orders \ {o} : tx'[x] = tx[x]
          /\ \/ tx'[o] = Over
             \/ /\ tx'[o].pc \in {"limit", "commit"}
                /\ tx'[o].now = tx[o].now /\ tx'[o].marked = tx[o].marked
      BY <2>7 DEF CheckUser, CheckLimit, TypeOK, Go, Rollback, TxIs, couponVars
    <3>2. QED
      BY <2>2, <3>1 DEF StaleAreMarked, Over
  <2>8. QED
    BY <1>2, <2>3, <2>4, <2>5, <2>6, <2>7, KindsOfStep
<1>3. QED
  BY <1>1, <1>2

-----------------------------------------------------------------------------
\* The checkout of o is the only one that a step moves, and it keeps its clock and
\* its marked rows when it stays inside the transaction.
LEMMA InsideTx ==
  ASSUME TypeOK, NEW o \in Orders, LockCoupon(o) \/ ExpireStale(o) \/ CheckUser(o) \/ CheckLimit(o)
  PROVE  /\ \A x \in Orders \ {o} : tx'[x] = tx[x]
         /\ UNCHANGED <<coupon, row>>
  BY DEF LockCoupon, ExpireStale, CheckUser, CheckLimit, TypeOK, Go, Rollback, couponVars

\* The user found new stays new: nobody else can reserve before the commit.
LEMMA UserStep ==
  TypeOK /\ OneHolder /\ StaleAreMarked /\ UserIsNew /\ [Next]_vars => UserIsNew'
<1> SUFFICES ASSUME TypeOK, OneHolder, StaleAreMarked, UserIsNew, [Next]_vars PROVE UserIsNew'
  OBVIOUS
<1>1. ASSUME NEW o \in Orders, Commit(o) PROVE UserIsNew'
  BY <1>1, CommitAlone DEF UserIsNew, Holding
<1>2. ASSUME \A o \in Orders : ~Commit(o) PROVE UserIsNew'
  <2>1. Live' \subseteq Live
    BY <1>2, ShrinkStep DEF Shrinks
  <2>2. ASSUME NEW x \in Orders, tx'[x] = tx[x], Public, tx'[x].pc \in {"limit", "commit"}
        PROVE  \A o \in Live' \ tx'[x].marked : BuyerOf[o] # BuyerOf[x]
    BY <2>1, <2>2 DEF UserIsNew
  <2>3. CASE Elsewhere
    BY <2>2, <2>3, ElsewhereTx DEF UserIsNew
  <2>4. ASSUME NEW o \in Orders, Leaves(o) PROVE UserIsNew'
    BY <2>2, <2>4, LeavesTx DEF UserIsNew, Holding
  <2>5. ASSUME NEW o \in Orders, LockCoupon(o) \/ ExpireStale(o) PROVE UserIsNew'
    <3>1. tx'[o].pc \notin {"limit", "commit"}
      BY <2>5 DEF LockCoupon, ExpireStale, TypeOK, Go, Rollback, Over
    <3>2. QED
      BY <2>2, <2>5, <3>1, InsideTx DEF UserIsNew
  <2>6. ASSUME NEW o \in Orders, CheckUser(o) PROVE UserIsNew'
    <3>1. SUFFICES ASSUME Public, tx'[o].pc \in {"limit", "commit"}
                   PROVE  \A p \in Live' \ tx'[o].marked : BuyerOf[p] # BuyerOf[o]
      BY <2>2, <2>6, InsideTx DEF UserIsNew
    <3>2. /\ tx[o].pc = "user" /\ tx'[o].marked = tx[o].marked /\ UNCHANGED row
          /\ ~UserUsed(BuyerOf[o], tx[o].now)
      BY <2>6, <3>1 DEF CheckUser, TypeOK, TxIs, Go, Rollback, Over, couponVars
    <3>3. Live \ tx[o].marked \subseteq Active(tx[o].now)
      BY <3>2 DEF Live, Active, StaleAreMarked
    <3>4. QED
      BY <2>1, <3>1, <3>2, <3>3 DEF UserUsed
  <2>7. ASSUME NEW o \in Orders, CheckLimit(o) PROVE UserIsNew'
    <3>1. /\ tx[o].pc = "limit"
          /\ tx'[o] = Over \/ tx'[o].marked = tx[o].marked
      BY <2>7 DEF CheckLimit, TypeOK, TxIs, Go, Rollback
    <3>2. QED
      BY <2>1, <2>2, <2>7, <3>1, InsideTx DEF UserIsNew, Over
  <2>8. QED
    BY <1>2, <2>3, <2>4, <2>5, <2>6, <2>7, KindsOfStep
<1>3. QED
  BY <1>1, <1>2

\* The room found stays: until the commit reservations only go away, and the admin
\* cannot change a locked coupon.
LEMMA RoomStep ==
  TypeOK /\ OneHolder /\ StaleAreMarked /\ RoomLeft /\ [Next]_vars => RoomLeft'
<1> SUFFICES ASSUME TypeOK, OneHolder, StaleAreMarked, RoomLeft, [Next]_vars PROVE RoomLeft'
  OBVIOUS
<1>1. ASSUME NEW o \in Orders, Commit(o) PROVE RoomLeft'
  BY <1>1, CommitAlone DEF RoomLeft, Holding
<1>2. ASSUME \A o \in Orders : ~Commit(o) PROVE RoomLeft'
  <2>1. Live' \subseteq Live
    BY <1>2, ShrinkStep DEF Shrinks
  <2>2. ASSUME NEW S \in SUBSET Orders, NEW T \in SUBSET S
        PROVE  Cardinality(T) \in Nat /\ Cardinality(S) \in Nat /\ Cardinality(T) <= Cardinality(S)
    BY FS_Subset, FS_CardinalityType, CouponAssumption
  <2>3. ASSUME NEW x \in Orders, tx'[x] = tx[x], coupon' = coupon, tx'[x].pc = "commit"
        PROVE  Cardinality(Live' \ tx'[x].marked) < coupon'.limit
    <3>1. Cardinality(Live \ tx[x].marked) < coupon.limit
      BY <2>3 DEF RoomLeft
    <3>2. Live' \ tx'[x].marked \subseteq Live \ tx[x].marked /\ Live \subseteq Orders
      BY <2>1, <2>3 DEF Live
    <3>3. /\ Cardinality(Live \ tx[x].marked) \in Nat /\ Cardinality(Live' \ tx'[x].marked) \in Nat
          /\ Cardinality(Live' \ tx'[x].marked) <= Cardinality(Live \ tx[x].marked)
      BY <2>2, <3>2
    <3>4. coupon.limit \in Nat
      BY CouponAssumption DEF TypeOK
    <3>5. QED
      BY <2>3, <3>1, <3>3, <3>4
  <2>4. CASE Elsewhere
    <3>1. coupon' = coupon \/ Unlocked
      BY <2>4 DEF Elsewhere, Pay, Cancel, CancelWrite, RunOut, Finalize, Void, UpdateCoupon,
                  DeleteCoupon, vars, couponVars
    <3>2. CASE Unlocked
      BY <2>4, <3>2, ElsewhereTx DEF Unlocked, Holding, RoomLeft
    <3>3. QED
      BY <2>3, <2>4, <3>1, <3>2, ElsewhereTx DEF RoomLeft
  <2>5. ASSUME NEW o \in Orders, Leaves(o) PROVE RoomLeft'
    BY <2>3, <2>5, LeavesTx DEF RoomLeft, Holding
  <2>6. ASSUME NEW o \in Orders, LockCoupon(o) \/ ExpireStale(o) \/ CheckUser(o) PROVE RoomLeft'
    <3>1. tx'[o].pc # "commit"
      BY <2>6 DEF LockCoupon, ExpireStale, CheckUser, TypeOK, Go, Rollback, Over
    <3>2. QED
      BY <2>3, <2>6, <3>1, InsideTx DEF RoomLeft
  <2>7. ASSUME NEW o \in Orders, CheckLimit(o) PROVE RoomLeft'
    <3>1. SUFFICES ASSUME tx'[o].pc = "commit"
                   PROVE  Cardinality(Live' \ tx'[o].marked) < coupon'.limit
      BY <2>3, <2>7, InsideTx DEF RoomLeft
    <3>2. /\ tx[o].pc = "limit" /\ tx'[o].marked = tx[o].marked /\ UNCHANGED <<row, coupon>>
          /\ ~(Cardinality(Active(tx[o].now)) >= coupon.limit)
      BY <2>7, <3>1 DEF CheckLimit, TypeOK, TxIs, Go, Rollback, Over, couponVars
    <3>3. Live' \ tx'[o].marked \subseteq Active(tx[o].now) /\ Active(tx[o].now) \subseteq Orders
      BY <3>2 DEF Live, Active, StaleAreMarked
    <3>4. /\ Cardinality(Live' \ tx'[o].marked) \in Nat /\ Cardinality(Active(tx[o].now)) \in Nat
          /\ Cardinality(Live' \ tx'[o].marked) <= Cardinality(Active(tx[o].now))
      BY <2>2, <3>3
    <3>5. coupon.limit \in Nat
      BY CouponAssumption DEF TypeOK
    <3>6. QED
      BY <3>2, <3>4, <3>5
  <2>8. QED
    BY <1>2, <2>4, <2>5, <2>6, <2>7, KindsOfStep
<1>3. QED
  BY <1>1, <1>2

\* What a commit adds: one reservation, to those it has not marked.
LEMMA CommitAdds ==
  ASSUME TypeOK, OneHolder, StaleAreMarked, NEW o \in Orders, Commit(o)
  PROVE  Live' \subseteq (Live \ tx[o].marked) \cup {o}
  BY CommitAlone DEF Live

\* No step gives a user a second live reservation of a public coupon.
LEMMA PerUserStep ==
  ASSUME CouponInv, [Next]_vars
  PROVE  OnePerUser'
<1> USE DEF CouponInv
<1>1. ASSUME NEW o \in Orders, Commit(o) PROVE OnePerUser'
  <2>1. Public => \A p \in Live \ tx[o].marked : BuyerOf[p] # BuyerOf[o]
    BY <1>1 DEF UserIsNew, Commit, TxIs
  <2>2. Live' \subseteq (Live \ tx[o].marked) \cup {o}
    BY <1>1, CommitAdds
  <2>3. QED
    BY <2>1, <2>2 DEF OnePerUser
<1>2. ASSUME \A o \in Orders : ~Commit(o) PROVE OnePerUser'
  BY <1>2, ShrinkStep DEF Shrinks, OnePerUser
<1>3. QED
  BY <1>1, <1>2

\* Nothing is reserved at first.
LEMMA InitInv == Init => CouponInv
<1> SUFFICES ASSUME Init PROVE CouponInv
  OBVIOUS
<1> USE DEF Init, NoTx
<1>1. TypeOK
  BY CouponAssumption DEF TypeOK, OrderStatuses, RowStatuses, CouponStates, TxSteps
<1>2. \A x \in Orders : tx[x].pc = "none" /\ tx[x].marked = {}
  OBVIOUS
<1>3. Live = {}
  BY DEF Live
<1>4. QED
  BY <1>1, <1>2, <1>3 DEF CouponInv, OneHolder, StaleAreMarked, UserIsNew, RoomLeft, OnePerUser, Holding

\* The inductive invariant of the coupon: who holds its row, what a checkout has marked and found.
THEOREM CouponInvariant == Spec => []CouponInv
<1>1. CouponInv /\ [Next]_vars => CouponInv'
  BY TypeStep, HolderStep, MarkedStep, UserStep, RoomStep, PerUserStep DEF CouponInv
<1>2. QED
  BY <1>1, InitInv, PTL DEF Spec

\* Every variable keeps its type in every behaviour.
THEOREM TypeCorrect == Spec => []TypeOK
  BY CouponInvariant, PTL DEF CouponInv

\* A public coupon is never reserved or redeemed twice for one user, for any
\* number of orders and any interleaving of their checkouts and settlements.
THEOREM ServesEachUserOnce == Spec => []OnePerUser
  BY CouponInvariant, PTL DEF CouponInv

\* The coupon's limit holds at every reservation, for every limit and every change
\* of it.
THEOREM LimitIsHeld == Spec => LimitHeld
<1>1. ASSUME CouponInv, [Next]_vars, Cardinality(Live') > Cardinality(Live)
      PROVE  Cardinality(Live') <= coupon'.limit
  <2>1. Live \subseteq Orders /\ Live' \subseteq Orders /\ IsFiniteSet(Live) /\ IsFiniteSet(Live')
    BY FS_Subset, CouponAssumption DEF Live
  <2>2. ~(Live' \subseteq Live)
    BY <1>1, <2>1, FS_Subset, FS_CardinalityType
  <2>3. PICK o \in Orders : Commit(o)
    BY <1>1, <2>2, ShrinkStep DEF CouponInv, Shrinks
  <2> DEFINE Rest == Live \ tx[o].marked
  <2>4. IsFiniteSet(Rest) /\ Cardinality(Rest) \in Nat
    BY <2>1, FS_Subset, FS_CardinalityType
  <2>5. Live' \subseteq Rest \cup {o}
    BY <1>1, <2>3, CommitAdds DEF CouponInv
  <2>6. IsFiniteSet(Rest \cup {o}) /\ Cardinality(Rest \cup {o}) <= Cardinality(Rest) + 1
    <3> HIDE DEF Rest
    <3>1. /\ IsFiniteSet(Rest \cup {o})
          /\ Cardinality(Rest \cup {o}) =
               IF o \in Rest THEN Cardinality(Rest) ELSE Cardinality(Rest) + 1
      BY <2>4, FS_AddElement, Zenon
    <3>2. QED
      BY <2>4, <3>1
  <2>7. Cardinality(Live') <= Cardinality(Rest) + 1
    <3> HIDE DEF Rest
    <3>1. Cardinality(Live') <= Cardinality(Rest \cup {o}) /\ Cardinality(Live') \in Nat
      BY <2>1, <2>5, <2>6, FS_Subset, FS_CardinalityType
    <3>2. Cardinality(Rest \cup {o}) \in Nat
      BY <2>6, FS_CardinalityType
    <3>3. QED
      BY <2>4, <2>6, <3>1, <3>2
  <2>8. Cardinality(Rest) < coupon.limit /\ coupon' = coupon /\ coupon.limit \in Nat
    BY <1>1, <2>3, CommitAlone, CouponAssumption DEF CouponInv, RoomLeft, Commit, TxIs, TypeOK
  <2>9. Cardinality(Live') \in Nat
    BY <2>1, FS_CardinalityType
  <2>10. QED
    BY <2>4, <2>7, <2>8, <2>9
<1>2. QED
  BY <1>1, CouponInvariant, PTL DEF Spec, LimitHeld
\* No cancelled order keeps a reservation, whatever reaches its row in which order.
THEOREM CancellationReleases == Spec => []CancelledReleases
<1>1. Init => CancelledReleases
  BY DEF Init, CancelledReleases
<1>2. CouponInv /\ CancelledReleases /\ [Next]_vars => CancelledReleases'
  <2> SUFFICES ASSUME CouponInv, CancelledReleases, [Next]_vars PROVE CancelledReleases'
    OBVIOUS
  <2> USE DEF CancelledReleases, CouponInv, TypeOK
  <2>1. ASSUME NEW o \in Orders, Commit(o) PROVE CancelledReleases'
    <3>1. /\ order' = [order EXCEPT ![o] = "pending_payment"] /\ UNCHANGED <<cancel, spent>>
          /\ \A r \in Orders \ {o} : row'[r] = "reserved" => row[r] = "reserved"
      BY <2>1, CommitAlone DEF Commit
    <3>2. QED
      BY <3>1
  <2>2. ASSUME NEW o \in Orders, CancelWrite(o) \/ Pay(o) \/ PlainOrder(o) PROVE CancelledReleases'
    BY <2>2 DEF CancelWrite, Pay, PlainOrder
  <2>3. ASSUME NEW o \in Orders, Void(o) PROVE CancelledReleases'
    <3>1. CASE Settle(o, "voided") /\ UNCHANGED spent
      BY <2>3, <3>1 DEF Void, Settle
    <3>2. CASE Fault
      BY <3>2 DEF Fault
    <3>3. QED
      BY <2>3, <3>1, <3>2 DEF Void
  <2>4. ASSUME NEW o \in Orders, Cancel(o) PROVE CancelledReleases'
    BY <2>4 DEF Cancel, couponVars
  <2>5. ASSUME NEW o \in Orders,
               \/ Validate(o) \/ ReadClock(o) \/ LockCoupon(o) \/ ExpireStale(o) \/ CheckUser(o)
               \/ CheckLimit(o) \/ Abort(o) \/ Finalize(o) \/ RunOut(o)
        PROVE  UNCHANGED <<order, cancel>> /\ (spent' = spent \/ spent'.faults > 0)
    BY <2>5 DEF Validate, ReadClock, LockCoupon, ExpireStale, CheckUser, CheckLimit, Abort, Finalize,
                RunOut, Fault, couponVars
  <2>6. ASSUME \/ \E limit \in Limits, state \in CouponStates : UpdateCoupon(limit, state)
               \/ DeleteCoupon \/ UNCHANGED vars
        PROVE  UNCHANGED <<order, cancel>> /\ spent'.faults = spent.faults
    BY <2>6 DEF UpdateCoupon, DeleteCoupon, Edit, vars, couponVars
  <2>7. ASSUME \A o \in Orders : ~Commit(o), UNCHANGED <<order, cancel>>,
               spent'.faults = spent.faults \/ spent'.faults > 0
        PROVE  CancelledReleases'
    <3>1. \A r \in Orders : row'[r] = "reserved" => row[r] = "reserved"
      BY <2>7, ShrinkStep DEF Shrinks
    <3>2. QED
      BY <2>7, <3>1
  <2>8. QED
    BY <2>1, <2>2, <2>3, <2>4, <2>5, <2>6, <2>7 DEF Next, Checkout, Settlement
<1>3. QED
  BY <1>1, <1>2, CouponInvariant, PTL DEF Spec

-----------------------------------------------------------------------------
(* PRICES                                                                   *)

\* Induction over the natural numbers, with the set for which a fact holds.
LEMMA SetInduction ==
  ASSUME NEW S, 0 \in S, \A n \in Nat : n \in S => n + 1 \in S
  PROVE  Nat \subseteq S
<1> DEFINE T == Nat \ S
<1>1. SUFFICES ASSUME T # {} PROVE FALSE
  OBVIOUS
<1>2. IsWellFoundedOn(OpToRel(<, Nat), Nat)
  BY NatLessThanWellFounded
<1>3. PICK n \in T : \A m \in T : <<m, n>> \notin OpToRel(<, Nat)
  BY <1>1, <1>2, WFMin
<1>4. n \in Nat /\ n # 0 /\ n - 1 \in Nat /\ n - 1 < n
  OBVIOUS
<1>5. <<n - 1, n>> \in OpToRel(<, Nat)
  BY <1>4 DEF OpToRel
<1>6. n - 1 \in S
  BY <1>3, <1>4, <1>5
<1>7. n \in S
  BY <1>4, <1>6
<1>8. QED
  BY <1>7

\* A set of numbers that has a bound has a largest.
LEMMA Largest ==
  ASSUME NEW T, T \subseteq Nat, T # {}, NEW b \in Nat, \A x \in T : x <= b
  PROVE  \E m \in T : \A x \in T : x <= m
<1> DEFINE D == {b - x : x \in T}
<1>1. D \subseteq Nat /\ D # {}
  <2>1. \A x \in T : x \in Nat /\ x <= b /\ b - x \in Nat
    OBVIOUS
  <2>2. D \subseteq Nat
    BY <2>1
  <2>3. PICK x \in T : TRUE
    OBVIOUS
  <2>4. b - x \in D
    BY <2>3
  <2>5. QED
    BY <2>2, <2>4
<1>2. IsWellFoundedOn(OpToRel(<, Nat), Nat)
  BY NatLessThanWellFounded
<1>3. PICK d \in D : \A e \in D : <<e, d>> \notin OpToRel(<, Nat)
  BY <1>1, <1>2, WFMin
<1>4. \A e \in D : d <= e
  <2>1. SUFFICES ASSUME NEW e \in D, e < d PROVE FALSE
    BY <1>1
  <2>2. <<e, d>> \in OpToRel(<, Nat)
    BY <1>1, <2>1 DEF OpToRel
  <2>3. QED
    BY <1>3, <2>2
<1>5. PICK m \in T : d = b - m
  OBVIOUS
<1>6. \A x \in T : x <= m
  BY <1>4, <1>5
<1>7. QED
  BY <1>6

\* The ends of time.
LEMMA TimesAreFinite ==
  Late \in Nat /\ Open \in Nat /\ Late < Open /\ NoSnap = 0
  BY QuoteAssumption DEF Late, Open, NoSnap

\* The rows that a price history is made of.
PriceRows == [cur : Currencies, usd : Nat, starts : Nat, ends : Nat, snap : Nat]

\* Two rows that say the same price, whenever they end.
SamePrice(r, q) == r.cur = q.cur /\ r.usd = q.usd /\ r.starts = q.starts /\ r.snap = q.snap

\* What changes at the times `times' leave: a currency has one row that starts at a time;
\* a row ends when another one starts, or not at all; and a publication has a row of the
\* same price in every currency.  Currencies outside curs have published rows only.
WellKept(rows, times, curs) ==
  /\ rows \subseteq PriceRows
  /\ \A r \in rows : r.starts \in times \cup {0} /\ r.starts < r.ends
  /\ \A r, q \in rows : r.cur = q.cur /\ r.starts = q.starts => r = q
  /\ \A r \in rows : r.ends = Open \/ \E q \in rows : q.cur = r.cur /\ q.starts = r.ends
  /\ \A r \in rows : r.snap = NoSnap => r.cur \in curs
  /\ \A r \in rows : r.snap # NoSnap =>
       /\ r.snap = r.starts
       /\ \A c \in Currencies : \E q \in rows : q.cur = c /\ q.snap = r.snap /\ q.usd = r.usd

\* The rows that one change puts into the history.
Change(new, at, curs) ==
  /\ new \subseteq PriceRows
  /\ \A n \in new : n.starts = at /\ n.ends = Open
  /\ \A m, n \in new : m.cur = n.cur => m = n
  /\ \A n \in new : n.snap = NoSnap => n.cur \in curs
  /\ \A n \in new : n.snap # NoSnap =>
       /\ n.snap = at
       /\ \A c \in Currencies : \E m \in new : m.cur = c /\ m.snap = n.snap /\ m.usd = n.usd

\* What a change does to a row of the history.
Ended(r, new) ==
  [r EXCEPT !.ends = IF \E n \in new : n.cur = r.cur /\ r.starts < n.starts /\ @ > n.starts
                       THEN (CHOOSE n \in new : TRUE).starts ELSE @]

\* It moves the row's end and nothing else.
LEMMA EndedRow ==
  ASSUME NEW r \in PriceRows, NEW new, NEW at \in Nat, NEW curs, Change(new, at, curs)
  PROVE  /\ Ended(r, new) \in PriceRows /\ SamePrice(r, Ended(r, new))
         /\ \/ Ended(r, new).ends = r.ends
            \/ /\ Ended(r, new).ends = at /\ r.starts < at
               /\ \E n \in new : n.cur = r.cur
<1> DEFINE E == IF \E n \in new : n.cur = r.cur /\ r.starts < n.starts /\ r.ends > n.starts
                  THEN (CHOOSE n \in new : TRUE).starts ELSE r.ends
<1>1. Ended(r, new) = [r EXCEPT !.ends = E]
  BY DEF Ended, PriceRows
<1>2. \/ E = r.ends
      \/ E = at /\ r.starts < at /\ \E n \in new : n.cur = r.cur
  BY DEF Change
<1>3. E \in Nat
  BY <1>2 DEF PriceRows
<1>4. QED
  <2> HIDE DEF E
  <2> QED
    BY <1>1, <1>2, <1>3 DEF PriceRows, SamePrice

\* replaceCurrentPrice leaves the rows, ended where they are, and the new ones.
LEMMA Replaced ==
  ASSUME NEW rows, NEW new
  PROVE  replaceCurrentPrice(rows, new) = {Ended(r, new) : r \in rows} \cup new
  BY DEF replaceCurrentPrice, Ended

\* A change leaves every price that is in the history as it was, but for its end.
LEMMA ChangeKeeps ==
  ASSUME NEW rows, NEW times, NEW curs, WellKept(rows, times, curs), NEW new, NEW at \in Nat,
         Change(new, at, curs), at # 0, at \notin times, at < Open
  PROVE  /\ WellKept(replaceCurrentPrice(rows, new), times \cup {at}, curs)
         /\ \A r \in rows : \E q \in replaceCurrentPrice(rows, new) : SamePrice(r, q)
         /\ \A q \in replaceCurrentPrice(rows, new) : q \in new \/ \E r \in rows : SamePrice(r, q)
<1> DEFINE after == replaceCurrentPrice(rows, new)
<1>0. rows \subseteq PriceRows /\ new \subseteq PriceRows
  BY DEF WellKept, Change
<1>1. \A r \in rows :
        /\ Ended(r, new) \in after /\ Ended(r, new) \in PriceRows /\ SamePrice(r, Ended(r, new))
        /\ \/ Ended(r, new).ends = r.ends
           \/ Ended(r, new).ends = at /\ r.starts < at /\ \E n \in new : n.cur = r.cur
  BY <1>0, EndedRow, Replaced
<1>2. new \subseteq after
  BY Replaced
<1>3. ASSUME NEW q \in after PROVE q \in new \/ \E r \in rows : q = Ended(r, new)
  BY Replaced
<1>a. after \subseteq PriceRows
  BY <1>0, <1>1, <1>3
<1>b. \A q \in after : q.starts \in times \cup {at} \cup {0} /\ q.starts < q.ends
  <2>1. SUFFICES ASSUME NEW q \in after
                 PROVE  q.starts \in times \cup {at} \cup {0} /\ q.starts < q.ends
    OBVIOUS
  <2>2. CASE q \in new
    BY <2>2 DEF Change
  <2>3. ASSUME NEW r \in rows, q = Ended(r, new)
        PROVE  q.starts \in times \cup {at} \cup {0} /\ q.starts < q.ends
    BY <1>1, <2>3 DEF WellKept, SamePrice
  <2>4. QED
    BY <1>3, <2>2, <2>3
<1>c. \A p, q \in after : p.cur = q.cur /\ p.starts = q.starts => p = q
  <2>1. SUFFICES ASSUME NEW p \in after, NEW q \in after, p.cur = q.cur, p.starts = q.starts PROVE p = q
    OBVIOUS
  <2>2. \A x \in new : x.starts = at
    BY DEF Change
  <2>3. \A r \in rows : r.starts # at
    BY DEF WellKept
  <2>4. ASSUME NEW r \in rows, NEW r2 \in rows, p = Ended(r, new), q = Ended(r2, new) PROVE p = q
    <3>1. r.cur = r2.cur /\ r.starts = r2.starts
      BY <1>1, <2>1, <2>4 DEF SamePrice
    <3>2. r = r2
      BY <3>1 DEF WellKept
    <3>3. QED
      BY <2>4, <3>2
  <2>5. ASSUME NEW r \in rows, NEW n \in new PROVE Ended(r, new).starts # n.starts
    BY <1>1, <2>2, <2>3 DEF SamePrice
  <2>6. p \in new /\ q \in new => p = q
    BY <2>1 DEF Change
  <2>7. QED
    BY <1>3, <2>1, <2>4, <2>5, <2>6
<1>d. \A q \in after : q.ends = Open \/ \E p \in after : p.cur = q.cur /\ p.starts = q.ends
  <2>1. SUFFICES ASSUME NEW q \in after, q.ends # Open
                 PROVE  \E p \in after : p.cur = q.cur /\ p.starts = q.ends
    OBVIOUS
  <2>2. q \notin new
    BY <2>1 DEF Change
  <2>3. PICK r \in rows : q = Ended(r, new)
    BY <1>3, <2>2
  <2>4. CASE q.ends = r.ends
    <3>1. PICK p \in rows : p.cur = r.cur /\ p.starts = r.ends
      BY <2>1, <2>4 DEF WellKept
    <3>2. QED
      BY <1>1, <2>3, <2>4, <3>1 DEF SamePrice
  <2>5. CASE q.ends = at /\ \E n \in new : n.cur = r.cur
    BY <1>1, <1>2, <2>3, <2>5 DEF SamePrice, Change
  <2>6. QED
    BY <1>1, <2>3, <2>4, <2>5
<1>e. \A q \in after : q.snap = NoSnap => q.cur \in curs
  BY <1>1, <1>3 DEF SamePrice, WellKept, Change
<1>f. ASSUME NEW q \in after, q.snap # NoSnap
      PROVE  /\ q.snap = q.starts
             /\ \A c \in Currencies : \E p \in after : p.cur = c /\ p.snap = q.snap /\ p.usd = q.usd
  <2>1. CASE q \in new
    BY <1>2, <1>f, <2>1 DEF Change
  <2>2. ASSUME NEW r \in rows, q = Ended(r, new)
        PROVE  /\ q.snap = q.starts
               /\ \A c \in Currencies : \E p \in after : p.cur = c /\ p.snap = q.snap /\ p.usd = q.usd
    <3>1. r.snap = q.snap /\ r.starts = q.starts /\ r.usd = q.usd
      BY <1>1, <2>2 DEF SamePrice
    <3>2. /\ r.snap = r.starts
          /\ \A c \in Currencies : \E p \in rows : p.cur = c /\ p.snap = r.snap /\ p.usd = r.usd
      BY <1>f, <3>1 DEF WellKept
    <3>3. ASSUME NEW c \in Currencies
          PROVE  \E p \in after : p.cur = c /\ p.snap = q.snap /\ p.usd = q.usd
      <4>1. PICK p \in rows : p.cur = c /\ p.snap = r.snap /\ p.usd = r.usd
        BY <3>2
      <4>2. QED
        BY <1>1, <3>1, <4>1 DEF SamePrice
    <3>4. QED
      BY <3>1, <3>2, <3>3
  <2>3. QED
    BY <1>3, <2>1, <2>2
<1>g. WellKept(after, times \cup {at}, curs)
  <2> HIDE DEF after
  <2> QED
    BY <1>a, <1>b, <1>c, <1>d, <1>e, <1>f DEF WellKept
<1>h. QED
  BY <1>1, <1>3, <1>g

-----------------------------------------------------------------------------
\* The row in force is the one that started last.
LEMMA StartedLast ==
  ASSUME NEW rows, NEW times, NEW curs, WellKept(rows, times, curs), NEW c, NEW t \in Nat, t < Open,
         NEW r \in getCurrentPriceForCurrency(rows, c, t), NEW q \in rows, q.cur = c, q.starts <= t
  PROVE  q.starts <= r.starts
<1> DEFINE begun == {x \in rows : x.cur = c /\ x.starts <= t}
           T == {x.starts : x \in begun}
<1>1. rows \subseteq PriceRows
  BY DEF WellKept
<1>2. T \subseteq Nat /\ T # {} /\ \A x \in T : x <= t
  BY <1>1 DEF PriceRows
<1>3. PICK m \in T : \A x \in T : x <= m
  <2> HIDE DEF T
  <2> QED
    BY <1>2, Largest
<1>4. PICK p \in begun : p.starts = m
  OBVIOUS
<1>5. p.ends > t
  <2>1. SUFFICES ASSUME p.ends <= t PROVE FALSE
    BY <1>1 DEF PriceRows
  <2>2. p.ends # Open /\ p.starts < p.ends
    BY <1>1, <2>1, TimesAreFinite DEF PriceRows, WellKept
  <2>3. PICK x \in rows : x.cur = p.cur /\ x.starts = p.ends
    BY <2>2 DEF WellKept
  <2>4. x.starts \in T
    BY <2>1, <2>3
  <2>5. QED
    BY <1>1, <1>3, <1>4, <2>2, <2>3, <2>4 DEF PriceRows
<1>6. p \in InForce(rows, c, t)
  BY <1>5 DEF InForce
<1>7. p.starts <= r.starts
  BY <1>6 DEF getCurrentPriceForCurrency, Latest
<1>8. q.starts \in T
  OBVIOUS
<1>9. r \in rows /\ q.starts <= m
  BY <1>3, <1>8 DEF getCurrentPriceForCurrency, Latest, InForce
<1>10. QED
  BY <1>1, <1>2, <1>4, <1>7, <1>9 DEF PriceRows

\* A row in force is one of the history.
LEMMA CurrentRow ==
  ASSUME NEW rows, NEW c, NEW t, NEW r \in getCurrentPriceForCurrency(rows, c, t)
  PROVE  r \in rows /\ r.cur = c /\ r.starts <= t
  BY DEF getCurrentPriceForCurrency, Latest, InForce

\* One price of a currency is in force at a time.
LEMMA OneCurrent ==
  ASSUME NEW rows, NEW times, NEW curs, WellKept(rows, times, curs), NEW c, NEW t,
         NEW r \in getCurrentPriceForCurrency(rows, c, t), NEW q \in getCurrentPriceForCurrency(rows, c, t)
  PROVE  r = q
<1>1. r \in rows /\ q \in rows /\ r.cur = c /\ q.cur = c /\ r.starts \in Nat /\ q.starts \in Nat
  BY CurrentRow DEF WellKept, PriceRows
<1>2. r.starts <= q.starts /\ q.starts <= r.starts
  BY DEF getCurrentPriceForCurrency, Latest
<1>3. QED
  BY <1>1, <1>2 DEF WellKept

\* Two rows of one publication have one price.
LEMMA OnePublication ==
  ASSUME NEW rows, NEW times, NEW curs, WellKept(rows, times, curs),
         NEW r \in rows, NEW q \in rows, r.snap # NoSnap, q.snap = r.snap
  PROVE  q.usd = r.usd /\ q.starts = r.starts
<1>1. q.cur \in Currencies /\ r.snap = r.starts /\ q.snap = q.starts
  BY DEF WellKept, PriceRows
<1>2. PICK p \in rows : p.cur = q.cur /\ p.snap = r.snap /\ p.usd = r.usd
  BY <1>1 DEF WellKept
<1>3. p.starts = p.snap
  BY <1>2 DEF WellKept
<1>4. p = q
  BY <1>1, <1>2, <1>3 DEF WellKept
<1>5. QED
  BY <1>1, <1>2, <1>4

-----------------------------------------------------------------------------
\* What a history is; only a product without variants has rewrites.
IsHistory(h, curs, fixed) ==
  /\ Len(h) \in Nat
  /\ \A i \in 1..Len(h) :
       /\ h[i].at \in Nat /\ 0 < h[i].at /\ h[i].at < Late
       /\ \/ h[i].kind = "set" /\ h[i].cur \in curs
          \/ h[i].kind = "publish" /\ h[i].read \in Nat /\ h[i].read < i
          \/ fixed /\ h[i].kind = "rewrite" /\ h[i].read \in Nat /\ h[i].read < i
  /\ \A i, j \in 1..Len(h) : h[i].at = h[j].at => i = j

\* The histories that are quoted from are histories.
LEMMA HistoryFacts ==
  ASSUME NEW curs, NEW fixed \in BOOLEAN, NEW h \in Histories(curs, fixed)
  PROVE  IsHistory(h, curs, fixed)
<1>1. PICK n \in 0..MaxChanges : \E c \in Plans(curs, fixed, n) :
        h = [i \in 1..n |-> Committed(c[2][i], 2 * c[1][i])]
  BY DEF Histories
<1>2. PICK t \in Injection(1..n, 1..n), k \in [1..n -> Kinds(curs, fixed, n)] :
        /\ \A i \in 1..n : k[i][1] # "set" => k[i][2] < i
        /\ h = [i \in 1..n |-> Committed(k[i], 2 * t[i])]
  BY <1>1 DEF Plans
<1>3. n \in Nat /\ n <= MaxChanges
  BY QuoteAssumption
<1>4. Len(h) = n
  BY <1>2, <1>3
<1>5. t \in [1..n -> 1..n] /\ \A i, j \in 1..n : t[i] = t[j] => i = j
  BY DEF Injection, IsInjective
<1>6. ASSUME NEW i \in 1..n
      PROVE  /\ h[i].at = 2 * t[i] /\ t[i] \in 1..n
             /\ \/ h[i].kind = "set" /\ h[i].cur \in curs
                \/ h[i].kind = "publish" /\ h[i].read \in Nat /\ h[i].read < i
                \/ fixed /\ h[i].kind = "rewrite" /\ h[i].read \in Nat /\ h[i].read < i
  <2>1. k[i] \in Kinds(curs, fixed, n) /\ t[i] \in 1..n /\ h[i] = Committed(k[i], 2 * t[i])
    BY <1>2, <1>5
  <2>2. CASE \E c \in curs : k[i] = <<"set", c>>
    <3>1. PICK c \in curs : k[i] = <<"set", c>>
      BY <2>2
    <3>2. h[i] = SetPrice(2 * t[i], c)
      BY <2>1, <3>1 DEF Committed
    <3>3. QED
      BY <2>1, <3>2 DEF SetPrice
  <2>3. CASE \E r \in 0..n - 1 : k[i] = <<"publish", r>>
    <3>1. PICK r \in 0..n - 1 : k[i] = <<"publish", r>>
      BY <2>3
    <3>2. h[i] = Publish(2 * t[i], r) /\ r < i /\ r \in Nat
      BY <1>2, <1>3, <2>1, <3>1 DEF Committed
    <3>3. QED
      BY <2>1, <3>2 DEF Publish
  <2>4. CASE fixed /\ \E r \in 0..n - 1 : k[i] = <<"rewrite", r>>
    <3>1. PICK r \in 0..n - 1 : k[i] = <<"rewrite", r>>
      BY <2>4
    <3>2. h[i] = Rewrite(2 * t[i], r) /\ r < i /\ r \in Nat
      BY <1>2, <1>3, <2>1, <3>1 DEF Committed
    <3>3. QED
      BY <2>1, <2>4, <3>2 DEF Rewrite
  <2>5. QED
    BY <2>1, <2>2, <2>3, <2>4 DEF Kinds, Readers
<1>7. ASSUME NEW i \in 1..n PROVE h[i].at \in Nat /\ 0 < h[i].at /\ h[i].at < Late
  BY <1>3, <1>6, <1>7, QuoteAssumption DEF Late
<1>8. ASSUME NEW i \in 1..n, NEW j \in 1..n, h[i].at = h[j].at PROVE i = j
  <2>1. t[i] = t[j]
    BY <1>3, <1>6, <1>8
  <2>2. QED
    BY <1>5, <2>1
<1>9. QED
  BY <1>3, <1>4, <1>6, <1>7, <1>8 DEF IsHistory

\* The times of the first i changes.
Times(h, i) == {h[k].at : k \in 1..i}

-----------------------------------------------------------------------------
(* The rows.  The two kinds of a product differ in what a publication starts *)
(* from, and both are one step of the rows over and over.                    *)

\* The prices in USD that the publication at i converts.
Bases(h, rows, i, fixed) ==
  IF fixed THEN {FixedPrice(h, h[i].read)}
  ELSE loadCurrentUsdVariantBasePrices(rows[h[i].read], h[i].at)

\* The rows that commit i puts into the history.
Brought(h, rows, i, fixed) ==
  IF h[i].kind = "publish"
    THEN {Row(c, usd, h[i].at, h[i].at) : c \in Currencies, usd \in Bases(h, rows, i, fixed)}
  ELSE IF fixed /\ h[i].kind = "rewrite"
    THEN {Row(Base, FixedPrice(h, h[i].read), h[i].at, NoSnap)}
    ELSE {Row(h[i].cur, h[i].at, h[i].at, NoSnap)}

\* The history after commit i, from the histories before it.
Step(h, rows, i, fixed) ==
  IF i = 0 THEN {Row(Base, 0, 0, NoSnap)}
  ELSE replaceCurrentPrice(rows[i - 1], Brought(h, rows, i, fixed))

\* `rows' is the function that the recursion defines, up to commit n.
Unfolds(h, rows, n, fixed) == rows = [i \in 0..n |-> Step(h, rows, i, fixed)]

\* The body of the recursive definition of VariantRows: Step, as it is written there.
VariantStep(h, rows, i) ==
  IF i = 0 THEN {Row(Base, 0, 0, NoSnap)}
  ELSE IF h[i].kind = "publish"
    THEN Published(rows[i - 1], loadCurrentUsdVariantBasePrices(rows[h[i].read], h[i].at), h[i].at)
    ELSE replaceCurrentPrice(rows[i - 1], {Row(h[i].cur, h[i].at, h[i].at, NoSnap)})

\* VariantRows is what that recursion chooses,
LEMMA VariantChoice ==
  ASSUME NEW h
  PROVE  VariantRows(h) = CHOOSE rows : rows = [i \in 0..Len(h) |-> VariantStep(h, rows, i)]
  BY Zenon DEF VariantRows, VariantStep

\* and if there is such a function, VariantRows is one.
LEMMA VariantUnfolds ==
  ASSUME NEW curs, NEW h, IsHistory(h, curs, FALSE), \E rows : Unfolds(h, rows, Len(h), FALSE)
  PROVE  Unfolds(h, VariantRows(h), Len(h), FALSE)
<1>1. ASSUME NEW rows, NEW i PROVE Step(h, rows, i, FALSE) = VariantStep(h, rows, i)
  <2>1. CASE i = 0
    BY <2>1 DEF Step, VariantStep
  <2>2. CASE i # 0 /\ h[i].kind = "publish"
    BY <2>2 DEF Step, VariantStep, Brought, Bases, Published
  <2>3. CASE i # 0 /\ h[i].kind # "publish"
    BY <2>3 DEF Step, VariantStep, Brought
  <2>4. QED
    BY <2>1, <2>2, <2>3
<1>2. ASSUME NEW rows
      PROVE  Unfolds(h, rows, Len(h), FALSE) <=> rows = [i \in 0..Len(h) |-> VariantStep(h, rows, i)]
  <2>1. [i \in 0..Len(h) |-> VariantStep(h, rows, i)] = [i \in 0..Len(h) |-> Step(h, rows, i, FALSE)]
    BY <1>1
  <2>2. QED
    BY <2>1, Zenon DEF Unfolds
<1>3. \E rows : rows = [i \in 0..Len(h) |-> VariantStep(h, rows, i)]
  BY <1>2, Zenon
<1>4. VariantRows(h) = [i \in 0..Len(h) |-> VariantStep(h, VariantRows(h), i)]
  BY <1>3, VariantChoice, Zenon
<1>5. QED
  BY <1>2, <1>4, Zenon

\* The same for FixedRows.
FixedStep(h, rows, i) ==
  IF i = 0 THEN {Row(Base, 0, 0, NoSnap)}
  ELSE IF h[i].kind = "publish"
    THEN Published(rows[i - 1], {FixedPrice(h, h[i].read)}, h[i].at)
  ELSE IF h[i].kind = "rewrite"
    THEN replaceCurrentPrice(rows[i - 1], {Row(Base, FixedPrice(h, h[i].read), h[i].at, NoSnap)})
    ELSE replaceCurrentPrice(rows[i - 1], {Row(h[i].cur, h[i].at, h[i].at, NoSnap)})

\* FixedRows is what that recursion chooses,
LEMMA FixedChoice ==
  ASSUME NEW h
  PROVE  FixedRows(h) = CHOOSE rows : rows = [i \in 0..Len(h) |-> FixedStep(h, rows, i)]
  BY Zenon DEF FixedRows, FixedStep

\* and if there is such a function, FixedRows is one.
LEMMA FixedUnfolds ==
  ASSUME NEW curs, NEW h, IsHistory(h, curs, TRUE), \E rows : Unfolds(h, rows, Len(h), TRUE)
  PROVE  Unfolds(h, FixedRows(h), Len(h), TRUE)
<1>1. ASSUME NEW rows, NEW i PROVE Step(h, rows, i, TRUE) = FixedStep(h, rows, i)
  <2>1. CASE i = 0
    BY <2>1 DEF Step, FixedStep
  <2>2. CASE i # 0 /\ h[i].kind = "publish"
    BY <2>2 DEF Step, FixedStep, Brought, Bases, Published
  <2>3. CASE i # 0 /\ h[i].kind = "rewrite"
    BY <2>3 DEF Step, FixedStep, Brought
  <2>4. CASE i # 0 /\ h[i].kind \notin {"publish", "rewrite"}
    BY <2>4 DEF Step, FixedStep, Brought
  <2>5. QED
    BY <2>1, <2>2, <2>3, <2>4
<1>2. ASSUME NEW rows
      PROVE  Unfolds(h, rows, Len(h), TRUE) <=> rows = [i \in 0..Len(h) |-> FixedStep(h, rows, i)]
  <2>1. [i \in 0..Len(h) |-> FixedStep(h, rows, i)] = [i \in 0..Len(h) |-> Step(h, rows, i, TRUE)]
    BY <1>1
  <2>2. QED
    BY <2>1, Zenon DEF Unfolds
<1>3. \E rows : rows = [i \in 0..Len(h) |-> FixedStep(h, rows, i)]
  BY <1>2, Zenon
<1>4. FixedRows(h) = [i \in 0..Len(h) |-> FixedStep(h, FixedRows(h), i)]
  BY <1>3, FixedChoice, Zenon
<1>5. QED
  BY <1>2, <1>4, Zenon

\* A step looks at what came before it only.
LEMMA StepLooksBack ==
  ASSUME NEW curs, NEW fixed, NEW h, IsHistory(h, curs, fixed), NEW i \in 0..Len(h),
         NEW f, NEW g, \A k \in 0..i - 1 : f[k] = g[k]
  PROVE  Step(h, f, i, fixed) = Step(h, g, i, fixed)
<1>1. CASE i = 0
  BY <1>1 DEF Step
<1>2. CASE i # 0
  <2>1. i - 1 \in 0..i - 1 /\ (h[i].kind = "publish" => h[i].read \in 0..i - 1)
    BY <1>2 DEF IsHistory
  <2>2. f[i - 1] = g[i - 1] /\ (h[i].kind = "publish" => f[h[i].read] = g[h[i].read])
    BY <2>1
  <2>3. Brought(h, f, i, fixed) = Brought(h, g, i, fixed)
    <3>1. CASE h[i].kind = "publish"
      <4>1. f[h[i].read] = g[h[i].read]
        BY <2>2, <3>1
      <4>2. Bases(h, f, i, fixed) = Bases(h, g, i, fixed)
        BY <4>1, Zenon DEF Bases
      <4>3. QED
        BY <3>1, <4>2 DEF Brought
    <3>2. CASE h[i].kind # "publish"
      BY <3>2 DEF Brought
    <3>3. QED
      BY <3>1, <3>2
  <2>4. QED
    BY <2>2, <2>3, Zenon DEF Step
<1>3. QED
  BY <1>1, <1>2

\* The recursive definition of the rows is one: a function like it exists.
LEMMA RowsExist ==
  ASSUME NEW curs, NEW fixed, NEW h, IsHistory(h, curs, fixed)
  PROVE  \E rows : Unfolds(h, rows, Len(h), fixed)
<1> DEFINE S == {n \in Nat : n <= Len(h) => \E rows : Unfolds(h, rows, n, fixed)}
<1>1. 0 \in S
  <2> DEFINE rows == [i \in 0..0 |-> {Row(Base, 0, 0, NoSnap)}]
  <2>1. \A i \in 0..0 : Step(h, rows, i, fixed) = {Row(Base, 0, 0, NoSnap)}
    BY DEF Step
  <2>2. rows = [i \in 0..0 |-> Step(h, rows, i, fixed)]
    <3> HIDE DEF rows
    <3>1. rows = [i \in 0..0 |-> {Row(Base, 0, 0, NoSnap)}]
      BY DEF rows
    <3>2. QED
      BY <2>1, <3>1
  <2>3. Unfolds(h, rows, 0, fixed)
    BY <2>2 DEF Unfolds
  <2>4. QED
    BY <2>3
<1>2. ASSUME NEW n \in Nat, n \in S PROVE n + 1 \in S
  <2>1. SUFFICES ASSUME n + 1 <= Len(h) PROVE \E rows : Unfolds(h, rows, n + 1, fixed)
    OBVIOUS
  <2>2. Len(h) \in Nat /\ n <= Len(h)
    BY <2>1 DEF IsHistory
  <2>3. PICK g : Unfolds(h, g, n, fixed)
    BY <1>2, <2>2
  <2> DEFINE G == [i \in 0..n + 1 |-> Step(h, g, i, fixed)]
  <2>4. ASSUME NEW k \in 0..n PROVE G[k] = g[k]
    <3>1. g = [i \in 0..n |-> Step(h, g, i, fixed)]
      BY <2>3, Zenon DEF Unfolds
    <3>2. g[k] = Step(h, g, k, fixed)
      BY <3>1, Zenon
    <3>3. k \in 0..n + 1
      OBVIOUS
    <3>4. G[k] = Step(h, g, k, fixed)
      BY <3>3, Zenon
    <3>5. QED
      BY <3>2, <3>4
  <2>5. ASSUME NEW i \in 0..n + 1 PROVE Step(h, G, i, fixed) = Step(h, g, i, fixed)
    <3> HIDE DEF G
    <3>1. i \in 0..Len(h) /\ \A k \in 0..i - 1 : G[k] = g[k]
      BY <2>1, <2>2, <2>4
    <3>2. QED
      BY <3>1, StepLooksBack
  <2>6. G = [i \in 0..n + 1 |-> Step(h, G, i, fixed)]
    <3> HIDE DEF G
    <3>1. G = [i \in 0..n + 1 |-> Step(h, g, i, fixed)]
      BY DEF G
    <3>2. QED
      BY <2>5, <3>1
  <2>7. Unfolds(h, G, n + 1, fixed)
    BY <2>6, Zenon DEF Unfolds
  <2>8. QED
    BY <2>7
<1>3. Nat \subseteq S
  <2> HIDE DEF S
  <2> QED
    BY <1>1, <1>2, SetInduction
<1>4. Len(h) \in Nat
  BY DEF IsHistory
<1>5. QED
  BY <1>3, <1>4

\* The rows after each commit follow from those before it.
Evolves(h, rows, fixed) == \A i \in 0..Len(h) : rows[i] = Step(h, rows, i, fixed)

\* And so the two definitions can be unfolded at every commit.
LEMMA RowsEvolve ==
  ASSUME NEW curs, NEW h
  PROVE  /\ IsHistory(h, curs, FALSE) => Evolves(h, VariantRows(h), FALSE)
         /\ IsHistory(h, curs, TRUE) => Evolves(h, FixedRows(h), TRUE)
<1>1. IsHistory(h, curs, FALSE) => Unfolds(h, VariantRows(h), Len(h), FALSE)
  BY RowsExist, VariantUnfolds
<1>2. IsHistory(h, curs, TRUE) => Unfolds(h, FixedRows(h), Len(h), TRUE)
  BY RowsExist, FixedUnfolds
<1>3. ASSUME NEW rows, NEW fixed, Unfolds(h, rows, Len(h), fixed) PROVE Evolves(h, rows, fixed)
  <2>1. rows = [i \in 0..Len(h) |-> Step(h, rows, i, fixed)]
    BY <1>3 DEF Unfolds
  <2>2. QED
    BY <2>1, Zenon DEF Evolves
<1>4. QED
  BY <1>1, <1>2, <1>3

\* The price of a product without variants is the one some change set, or the first.
LEMMA FixedPriceIs ==
  ASSUME NEW curs, NEW fixed, NEW h, IsHistory(h, curs, fixed), NEW i \in 0..Len(h)
  PROVE  LET sets == {j \in 1..i : h[j].kind = "set"} IN
         \/ sets = {} /\ FixedPrice(h, i) = 0
         \/ \E m \in sets : (\A j \in sets : j <= m) /\ FixedPrice(h, i) = h[m].at
<1> DEFINE sets == {j \in 1..i : h[j].kind = "set"}
<1>1. CASE sets = {}
  BY <1>1 DEF FixedPrice
<1>2. CASE sets # {}
  <2>1. i \in Nat /\ sets \subseteq Nat /\ \A x \in sets : x <= i
    BY DEF IsHistory
  <2>2. PICK m \in sets : \A x \in sets : x <= m
    <3> HIDE DEF sets
    <3> QED
      BY <1>2, <2>1, Largest
  <2>3. Max(sets) \in sets /\ \A x \in sets : x <= Max(sets)
    <3> HIDE DEF sets
    <3> QED
      BY <2>1, <2>2 DEF Max
  <2>4. FixedPrice(h, i) = h[Max(sets)].at
    BY <1>2, Zenon DEF FixedPrice
  <2>5. QED
    BY <2>3, <2>4
<1>3. QED
  BY <1>1, <1>2

\* A new row.
LEMMA RowIsRow ==
  ASSUME NEW cur \in Currencies, NEW usd \in Nat, NEW at \in Nat, NEW snap \in Nat
  PROVE  /\ Row(cur, usd, at, snap) \in PriceRows
         /\ Row(cur, usd, at, snap).cur = cur /\ Row(cur, usd, at, snap).usd = usd
         /\ Row(cur, usd, at, snap).starts = at /\ Row(cur, usd, at, snap).ends = Open
         /\ Row(cur, usd, at, snap).snap = snap
  BY TimesAreFinite DEF Row, PriceRows

\* And so it is a price.
LEMMA FixedPriceNat ==
  ASSUME NEW curs, NEW fixed, NEW h, IsHistory(h, curs, fixed), NEW i \in 0..Len(h)
  PROVE  FixedPrice(h, i) \in Nat
<1>1. FixedPrice(h, i) = 0 \/ \E m \in 1..i : FixedPrice(h, i) = h[m].at
  BY FixedPriceIs
<1>2. \A m \in 1..i : m \in 1..Len(h)
  BY DEF IsHistory
<1>3. QED
  BY <1>1, <1>2 DEF IsHistory

\* A publication that has a price has one.
LEMMA BasesAreOne ==
  ASSUME NEW curs, NEW fixed \in BOOLEAN, NEW h, IsHistory(h, curs, fixed), NEW rows,
         NEW i \in 1..Len(h), h[i].kind = "publish",
         \A k \in 0..i - 1 : WellKept(rows[k], Times(h, k), curs)
  PROVE  /\ Bases(h, rows, i, fixed) \subseteq Nat
         /\ \A a, b \in Bases(h, rows, i, fixed) : a = b
<1>1. h[i].read \in 0..i - 1 /\ h[i].read \in 0..Len(h)
  BY DEF IsHistory
<1>2. CASE fixed
  <2>1. Bases(h, rows, i, fixed) = {FixedPrice(h, h[i].read)}
    BY <1>2 DEF Bases
  <2>2. FixedPrice(h, h[i].read) \in Nat
    BY <1>1, FixedPriceNat
  <2>3. QED
    BY <2>1, <2>2
<1>3. CASE ~fixed
  <2> DEFINE cur == getCurrentPriceForCurrency(rows[h[i].read], Base, h[i].at)
  <2>1. Bases(h, rows, i, fixed) = {r.usd : r \in cur}
    BY <1>3 DEF Bases, loadCurrentUsdVariantBasePrices
  <2>2. WellKept(rows[h[i].read], Times(h, h[i].read), curs)
    BY <1>1
  <2>3. \A r, q \in cur : r = q
    BY <2>2, OneCurrent
  <2>4. \A r \in cur : r.usd \in Nat
    BY <2>2, CurrentRow DEF WellKept, PriceRows
  <2>5. QED
    <3> HIDE DEF cur
    <3> QED
      BY <2>1, <2>3, <2>4
<1>4. QED
  BY <1>2, <1>3

\* A commit brings the rows of one change.
LEMMA BroughtIsChange ==
  ASSUME NEW curs, Base \in curs, curs \subseteq Currencies, NEW fixed \in BOOLEAN,
         NEW h, IsHistory(h, curs, fixed), NEW rows, NEW i \in 1..Len(h),
         \A k \in 0..i - 1 : WellKept(rows[k], Times(h, k), curs)
  PROVE  Change(Brought(h, rows, i, fixed), h[i].at, curs)
<1> DEFINE new == Brought(h, rows, i, fixed)
           at == h[i].at
<1>1. at \in Nat /\ 0 < at
  BY DEF IsHistory
<1>2. CASE h[i].kind = "publish"
  <2> DEFINE bases == Bases(h, rows, i, fixed)
  <2>1. bases \subseteq Nat /\ \A a, b \in bases : a = b
    BY <1>2, BasesAreOne
  <2>2. new = {Row(c, usd, at, at) : c \in Currencies, usd \in bases}
    BY <1>2 DEF Brought
  <2>3. ASSUME NEW c \in Currencies, NEW usd \in bases
        PROVE  /\ Row(c, usd, at, at) \in new /\ Row(c, usd, at, at) \in PriceRows
               /\ Row(c, usd, at, at).cur = c /\ Row(c, usd, at, at).usd = usd
               /\ Row(c, usd, at, at).starts = at /\ Row(c, usd, at, at).ends = Open
               /\ Row(c, usd, at, at).snap = at
    <3> HIDE DEF bases, new, at
    <3>1. usd \in Nat
      BY <2>1
    <3>2. QED
      BY <1>1, <2>2, <3>1, RowIsRow
  <2>4. ASSUME NEW n \in new PROVE \E c \in Currencies, usd \in bases : n = Row(c, usd, at, at)
    BY <2>2
  <2>5. QED
    <3> HIDE DEF bases, new, at
    <3>1. new \subseteq PriceRows /\ \A n \in new : n.starts = at /\ n.ends = Open /\ n.snap = at
      BY <2>3, <2>4
    <3>2. \A m, n \in new : m.cur = n.cur => m = n
      BY <2>1, <2>3, <2>4
    <3>3. ASSUME NEW n \in new, NEW c \in Currencies
          PROVE  \E m \in new : m.cur = c /\ m.snap = n.snap /\ m.usd = n.usd
      <4>1. PICK d \in Currencies, usd \in bases : n = Row(d, usd, at, at)
        BY <2>4
      <4>2. n.snap = at /\ n.usd = usd
        BY <2>3, <4>1
      <4>3. QED
        BY <2>3, <4>2
    <3>4. \A n \in new : n.snap # NoSnap
      BY <1>1, <3>1, TimesAreFinite
    <3>5. Change(new, at, curs)
      BY <3>1, <3>2, <3>3, <3>4 DEF Change
    <3>6. QED
      BY <3>5 DEF new, at
<1>3. ASSUME NEW cur \in curs, NEW usd \in Nat, new = {Row(cur, usd, at, NoSnap)}
      PROVE  Change(new, at, curs)
  <2>1. cur \in Currencies /\ NoSnap \in Nat
    BY TimesAreFinite
  <2>2. /\ Row(cur, usd, at, NoSnap) \in PriceRows
        /\ Row(cur, usd, at, NoSnap).cur = cur
        /\ Row(cur, usd, at, NoSnap).starts = at /\ Row(cur, usd, at, NoSnap).ends = Open
        /\ Row(cur, usd, at, NoSnap).snap = NoSnap
    <3> HIDE DEF new, at
    <3> QED
      BY <1>1, <2>1, RowIsRow
  <2>3. QED
    <3> HIDE DEF new, at
    <3> QED
      BY <1>3, <2>1, <2>2 DEF Change
<1>4. CASE fixed /\ h[i].kind = "rewrite"
  <2>1. h[i].read \in 0..Len(h)
    BY <1>4 DEF IsHistory
  <2>2. FixedPrice(h, h[i].read) \in Nat
    BY <2>1, FixedPriceNat
  <2>3. new = {Row(Base, FixedPrice(h, h[i].read), at, NoSnap)}
    BY <1>4 DEF Brought
  <2>4. QED
    BY <1>3, <2>2, <2>3
<1>5. CASE h[i].kind = "set"
  <2>1. h[i].cur \in curs
    BY <1>5 DEF IsHistory
  <2>2. new = {Row(h[i].cur, at, at, NoSnap)}
    BY <1>5 DEF Brought
  <2>3. QED
    BY <1>1, <1>3, <2>1, <2>2
<1>6. QED
  BY <1>2, <1>4, <1>5 DEF IsHistory

\* They are so at the beginning,
LEMMA FirstRows ==
  ASSUME NEW curs, Base \in curs, curs \subseteq Currencies
  PROVE  WellKept({Row(Base, 0, 0, NoSnap)}, {}, curs)
<1>1. /\ Row(Base, 0, 0, NoSnap) \in PriceRows
      /\ Row(Base, 0, 0, NoSnap).cur = Base
      /\ Row(Base, 0, 0, NoSnap).starts = 0 /\ Row(Base, 0, 0, NoSnap).ends = Open
      /\ Row(Base, 0, 0, NoSnap).snap = NoSnap
  BY RowIsRow, TimesAreFinite
<1>2. QED
  BY <1>1, TimesAreFinite DEF WellKept

\* The rows of a product are well kept at every time.
LEMMA RowsWellKept ==
  ASSUME NEW curs, Base \in curs, curs \subseteq Currencies, NEW fixed \in BOOLEAN,
         NEW h, IsHistory(h, curs, fixed), NEW rows, Evolves(h, rows, fixed)
  PROVE  \A i \in 0..Len(h) : WellKept(rows[i], Times(h, i), curs)
<1> DEFINE S == {n \in Nat : \A i \in 0..n : i <= Len(h) => WellKept(rows[i], Times(h, i), curs)}
<1>0. Len(h) \in Nat
  BY DEF IsHistory
<1>1. 0 \in S
  <2>1. rows[0] = {Row(Base, 0, 0, NoSnap)}
    BY <1>0 DEF Evolves, Step
  <2>2. Times(h, 0) = {}
    BY DEF Times
  <2>3. WellKept(rows[0], Times(h, 0), curs)
    BY <2>1, <2>2, FirstRows
  <2>4. \A i \in 0..0 : i = 0
    OBVIOUS
  <2>5. QED
    BY <2>3, <2>4
<1>2. ASSUME NEW n \in Nat, n \in S PROVE n + 1 \in S
  <2>1. SUFFICES ASSUME n + 1 <= Len(h) PROVE WellKept(rows[n + 1], Times(h, n + 1), curs)
    BY <1>2
  <2> DEFINE i == n + 1
             new == Brought(h, rows, i, fixed)
  <2>2. i \in 1..Len(h) /\ i - 1 = n /\ i # 0
    BY <1>0, <2>1
  <2>3. \A k \in 0..i - 1 : WellKept(rows[k], Times(h, k), curs)
    BY <1>0, <1>2, <2>1
  <2>4. Change(new, h[i].at, curs)
    BY <2>2, <2>3, BroughtIsChange
  <2>5. rows[i] = replaceCurrentPrice(rows[n], new)
    BY <2>2 DEF Evolves, Step
  <2>6. /\ h[i].at \in Nat /\ h[i].at # 0 /\ h[i].at < Open
        /\ h[i].at \notin Times(h, n)
        /\ Times(h, i) = Times(h, n) \cup {h[i].at}
    <3>1. h[i].at \in Nat /\ 0 < h[i].at /\ h[i].at < Late
      BY <2>2 DEF IsHistory
    <3>2. \A k \in 1..n : h[k].at # h[i].at
      BY <2>2 DEF IsHistory
    <3>3. 1..i = 1..n \cup {i}
      OBVIOUS
    <3>4. QED
      BY <3>1, <3>2, <3>3, TimesAreFinite DEF Times
  <2>7. WellKept(rows[n], Times(h, n), curs)
    BY <2>2, <2>3
  <2>8. QED
    <3> HIDE DEF new, i
    <3>1. WellKept(replaceCurrentPrice(rows[n], new), Times(h, n) \cup {h[i].at}, curs)
      BY <2>4, <2>6, <2>7, ChangeKeeps
    <3>2. WellKept(rows[i], Times(h, i), curs)
      BY <2>5, <2>6, <3>1
    <3>3. QED
      BY <3>2 DEF i
<1>3. Nat \subseteq S
  <2> HIDE DEF S
  <2> QED
    BY <1>1, <1>2, SetInduction
<1>4. QED
  BY <1>0, <1>3

\* The rows of a product over a history.
Grown(curs, h, rows, fixed) ==
  /\ Base \in curs /\ curs \subseteq Currencies
  /\ fixed \in BOOLEAN
  /\ IsHistory(h, curs, fixed)
  /\ Evolves(h, rows, fixed)

\* What a commit does to the rows before it.
LEMMA RowsStep ==
  ASSUME NEW curs, NEW h, NEW rows, NEW fixed, Grown(curs, h, rows, fixed), NEW i \in 1..Len(h)
  PROVE  LET new == Brought(h, rows, i, fixed) IN
         /\ new \subseteq rows[i] /\ Change(new, h[i].at, curs)
         /\ \A r \in rows[i - 1] : \E q \in rows[i] : SamePrice(r, q)
         /\ \A q \in rows[i] : q \in new \/ \E r \in rows[i - 1] : SamePrice(r, q)
<1> DEFINE new == Brought(h, rows, i, fixed)
<1>1. Len(h) \in Nat /\ i # 0 /\ i \in 0..Len(h) /\ i - 1 \in 0..Len(h)
  BY DEF Grown, IsHistory
<1>2. \A k \in 0..Len(h) : WellKept(rows[k], Times(h, k), curs)
  BY RowsWellKept DEF Grown
<1>3. Change(new, h[i].at, curs)
  <2>1. \A k \in 0..i - 1 : WellKept(rows[k], Times(h, k), curs)
    BY <1>1, <1>2
  <2>2. QED
    BY <2>1, BroughtIsChange DEF Grown
<1>4. rows[i] = replaceCurrentPrice(rows[i - 1], new)
  BY <1>1 DEF Grown, Evolves, Step
<1>5. h[i].at \in Nat /\ h[i].at # 0 /\ h[i].at < Open /\ h[i].at \notin Times(h, i - 1)
  <2>1. h[i].at \in Nat /\ 0 < h[i].at /\ h[i].at < Late
    BY DEF Grown, IsHistory
  <2>2. \A k \in 1..i - 1 : h[k].at # h[i].at
    BY <1>1 DEF Grown, IsHistory
  <2>3. QED
    BY <2>1, <2>2, TimesAreFinite DEF Times
<1>6. WellKept(rows[i - 1], Times(h, i - 1), curs)
  BY <1>1, <1>2
<1>7. /\ \A r \in rows[i - 1] : \E q \in rows[i] : SamePrice(r, q)
      /\ \A q \in rows[i] : q \in new \/ \E r \in rows[i - 1] : SamePrice(r, q)
  <2> DEFINE before == rows[i - 1]
             times == Times(h, i - 1)
             at == h[i].at
  <2>1. /\ Change(new, at, curs) /\ rows[i] = replaceCurrentPrice(before, new)
        /\ at \in Nat /\ at # 0 /\ at < Open /\ at \notin times
        /\ WellKept(before, times, curs)
    BY <1>3, <1>4, <1>5, <1>6
  <2> HIDE DEF new, before, times, at
  <2>2. /\ \A r \in before : \E q \in replaceCurrentPrice(before, new) : SamePrice(r, q)
        /\ \A q \in replaceCurrentPrice(before, new) : q \in new \/ \E r \in before : SamePrice(r, q)
    BY <2>1, ChangeKeeps
  <2>3. QED
    BY <2>1, <2>2 DEF before
<1>8. new \subseteq rows[i]
  BY <1>4, Replaced
<1>9. QED
  BY <1>3, <1>7, <1>8

\* A price once committed stays in the history.
LEMMA RowsPersist ==
  ASSUME NEW curs, NEW h, NEW rows, NEW fixed, Grown(curs, h, rows, fixed),
         NEW i \in 0..Len(h), NEW j \in 0..Len(h), i <= j
  PROVE  \A r \in rows[i] : \E q \in rows[j] : SamePrice(r, q)
<1> DEFINE S == {n \in Nat : i + n <= Len(h) => \A r \in rows[i] : \E q \in rows[i + n] : SamePrice(r, q)}
<1>0. Len(h) \in Nat /\ i \in Nat /\ j \in Nat
  BY DEF Grown, IsHistory
<1>1. 0 \in S
  <2>1. i + 0 = i
    BY <1>0
  <2>2. \A r \in rows[i] : SamePrice(r, r)
    BY DEF SamePrice
  <2>3. QED
    BY <2>1, <2>2
<1>2. ASSUME NEW n \in Nat, n \in S PROVE n + 1 \in S
  <2>1. SUFFICES ASSUME i + (n + 1) <= Len(h), NEW r \in rows[i]
                 PROVE  \E q \in rows[i + (n + 1)] : SamePrice(r, q)
    OBVIOUS
  <2> DEFINE m == i + (n + 1)
  <2>2. m \in 1..Len(h) /\ m - 1 = i + n /\ i + n <= Len(h)
    BY <1>0, <2>1
  <2>3. PICK p \in rows[m - 1] : SamePrice(r, p)
    BY <1>2, <2>2
  <2>4. PICK q \in rows[m] : SamePrice(p, q)
    <3> HIDE DEF m
    <3> QED
      BY <2>2, RowsStep
  <2>5. QED
    BY <2>3, <2>4 DEF SamePrice
<1>3. Nat \subseteq S
  <2> HIDE DEF S
  <2> QED
    BY <1>1, <1>2, SetInduction
<1>4. j - i \in Nat /\ i + (j - i) = j
  BY <1>0
<1>5. QED
  BY <1>0, <1>3, <1>4

-----------------------------------------------------------------------------
(* Quotes                                                                    *)

\* What a quote is.
LEMMA QuoteIs ==
  ASSUME NEW early, NEW late, NEW cur, NEW now, NEW at, NEW q \in Quotes(early, late, cur, now, at)
  PROVE  LET settle == resolveSettlementCurrency(cur)
             d == q[1]
             s == q[2]
         IN  /\ d \in getCurrentPriceForCurrency(early, cur, now)
             /\ Locks(d, s)
             /\ \/ settle = cur /\ s = d
                \/ settle # cur /\ s \in getCurrentPriceForCurrency(late, settle,
                                            IF at = StartOfDisplay THEN d.starts ELSE at)
  BY DEF Quotes

\* A settlement price that was in force when a publication's price started, or
\* later but of the same publication, is that publication's.
LEMMA PublishedTogether ==
  ASSUME NEW curs, NEW h, NEW rows, NEW fixed, Grown(curs, h, rows, fixed),
         NEW i \in 0..Len(h), NEW j \in 0..Len(h), i <= j,
         NEW d \in rows[i], d.snap # NoSnap, NEW c \in Currencies
  PROVE  /\ d.snap = d.starts /\ d.starts \in Nat /\ d.starts < Open /\ d.starts # 0
         /\ \E p \in rows[j] : p.cur = c /\ p.snap = d.snap /\ p.starts = d.starts /\ p.usd = d.usd
<1>1. WellKept(rows[i], Times(h, i), curs) /\ WellKept(rows[j], Times(h, j), curs)
  BY RowsWellKept DEF Grown
<1>2. d \in PriceRows /\ d.snap = d.starts /\ d.starts < d.ends
  BY <1>1 DEF WellKept
<1>3. PICK x \in rows[i] : x.cur = c /\ x.snap = d.snap /\ x.usd = d.usd
  BY <1>1 DEF WellKept
<1>4. x.starts = d.starts
  BY <1>1, <1>2, <1>3 DEF WellKept
<1>5. PICK p \in rows[j] : SamePrice(x, p)
  BY RowsPersist
<1>6. d.starts \in Times(h, i) \cup {0} /\ d.starts \in Nat /\ d.starts # 0
  BY <1>1, <1>2, TimesAreFinite DEF WellKept, PriceRows
<1>7. d.starts < Open
  <2>1. \A k \in 1..i : h[k].at \in Nat /\ h[k].at < Late
    BY DEF Grown, IsHistory
  <2>2. QED
    BY <1>6, <2>1, TimesAreFinite DEF Times
<1>8. QED
  BY <1>2, <1>3, <1>4, <1>5, <1>6, <1>7 DEF SamePrice

\* The rows of a variant over a history grow,
LEMMA VariantsGrow ==
  ASSUME NEW h \in VariantHistories
  PROVE  Grown(Currencies, h, VariantRows(h), FALSE)
<1>1. IsHistory(h, Currencies, FALSE)
  BY HistoryFacts DEF VariantHistories
<1>2. QED
  BY <1>1, RowsEvolve, QuoteAssumption DEF Grown

\* and so do those of a product without variants.
LEMMA FixedGrow ==
  ASSUME NEW h \in FixedHistories
  PROVE  Grown({Base}, h, FixedRows(h), TRUE)
<1>1. IsHistory(h, {Base}, TRUE)
  BY HistoryFacts DEF FixedHistories
<1>2. QED
  BY <1>1, RowsEvolve, QuoteAssumption DEF Grown

\* A quote of a published price settles at the price of the same publication.
THEOREM NoQuoteIsSplit == SplitHistories = 0
<1> DEFINE Split(h) ==
      LET rows == VariantRows(h) IN
      \E j \in 0..Len(h) : \E i \in 0..j : \E c \in Currencies :
        \E q \in VariantQuotes(rows[i], rows[j], c, Late) :
          q[1].snap # NoSnap /\ (q[2].snap # q[1].snap \/ q[2].usd # q[1].usd)
<1>1. ASSUME NEW h \in VariantHistories, NEW j \in 0..Len(h), NEW i \in 0..j, NEW c \in Currencies,
             NEW q \in VariantQuotes(VariantRows(h)[i], VariantRows(h)[j], c, Late),
             q[1].snap # NoSnap
      PROVE  q[2].snap = q[1].snap /\ q[2].usd = q[1].usd
  <2> DEFINE rows == VariantRows(h)
             d == q[1]
             s == q[2]
             settle == resolveSettlementCurrency(c)
  <2>1. PICK fixed \in BOOLEAN : Grown(Currencies, h, rows, fixed)
    BY VariantsGrow
  <2>2. Len(h) \in Nat /\ i \in 0..Len(h) /\ i <= j
    BY <2>1 DEF Grown, IsHistory
  <2>3. /\ d \in getCurrentPriceForCurrency(rows[i], c, Late)
        /\ \/ settle = c /\ s = d
           \/ settle # c /\ s \in getCurrentPriceForCurrency(rows[j], settle, d.starts)
    BY QuoteIs DEF VariantQuotes
  <2>4. CASE s = d
    BY <2>4
  <2>5. CASE s \in getCurrentPriceForCurrency(rows[j], settle, d.starts)
    <3> HIDE DEF rows, d, s, settle
    <3>1. WellKept(rows[j], Times(h, j), Currencies)
      BY <2>1, RowsWellKept DEF Grown
    <3>2. s \in rows[j] /\ s.cur = settle /\ s.starts <= d.starts /\ d \in rows[i]
      BY <2>3, <2>5, CurrentRow
    <3>3. settle \in Currencies /\ s.starts \in Nat
      BY <3>1, <3>2 DEF WellKept, PriceRows
    <3>4. d.snap # NoSnap
      BY <1>1 DEF d
    <3>5. /\ d.snap = d.starts /\ d.starts \in Nat /\ d.starts < Open
          /\ \E p \in rows[j] : p.cur = settle /\ p.snap = d.snap /\ p.starts = d.starts /\ p.usd = d.usd
      BY <2>1, <2>2, <3>2, <3>3, <3>4, PublishedTogether
    <3>6. PICK p \in rows[j] : p.cur = settle /\ p.snap = d.snap /\ p.starts = d.starts /\ p.usd = d.usd
      BY <3>5
    <3>7. p.starts <= s.starts
      BY <2>5, <3>1, <3>5, <3>6, StartedLast
    <3>8. p = s
      BY <3>1, <3>2, <3>3, <3>5, <3>6, <3>7 DEF WellKept
    <3>9. s.snap = d.snap /\ s.usd = d.usd
      BY <3>6, <3>8
    <3>10. QED
      BY <3>9 DEF d, s
  <2>6. QED
    BY <2>3, <2>4, <2>5
<1>2. {h \in VariantHistories : Split(h)} = {}
  BY <1>1
<1>3. SplitHistories = Cardinality({h \in VariantHistories : Split(h)})
  BY DEF SplitHistories
<1>4. QED
  BY <1>2, <1>3, FS_EmptySet

\* USD is settled in USD.
LEMMA BaseSettlesItself == resolveSettlementCurrency(Base) = Base
  BY QuoteAssumption
  DEF resolveSettlementCurrency, Base, FX_EUR_SETTLEMENT_BUCKET, FX_USD_SETTLEMENT_BUCKET

\* A product without variants is quoted at two prices only between an update and the
\* next publication, or if a change takes its time while the request runs.
THEOREM NoQuoteIsMixed == MixedHistories = 0
<1> DEFINE Mixed(h) ==
      LET rows == FixedRows(h) IN
      \E i \in 0..Len(h) : \E t \in Moments(h, i) : \E began \in {m \in 1..t : m % 2 = 1} :
        /\ \A k \in 1..Len(h) : h[k].at < began \/ h[k].at > t
        /\ \E j \in i..Len(h), c \in Currencies : \E q \in FixedQuotes(rows[i], rows[j], c, t, began) :
             /\ q[1].usd # q[2].usd
             /\ q[2].snap # NoSnap \/ q[2].starts <= q[1].starts
<1>1. ASSUME NEW h \in FixedHistories, NEW i \in 0..Len(h), NEW j \in i..Len(h), NEW c \in Currencies,
             NEW t \in Moments(h, i), NEW began \in {m \in 1..t : m % 2 = 1},
             NEW q \in FixedQuotes(FixedRows(h)[i], FixedRows(h)[j], c, t, began),
             \A k \in 1..Len(h) : h[k].at < began \/ h[k].at > t,
             q[2].snap # NoSnap \/ q[2].starts <= q[1].starts
      PROVE  q[1].usd = q[2].usd
  <2> DEFINE rows == FixedRows(h)
             d == q[1]
             s == q[2]
             settle == resolveSettlementCurrency(c)
  <2>1. PICK fixed \in BOOLEAN : Grown({Base}, h, rows, fixed)
    BY FixedGrow
  <2>2. Len(h) \in Nat /\ i \in 0..Len(h) /\ j \in 0..Len(h) /\ i <= j
    BY <2>1 DEF Grown, IsHistory
  <2>3. t \in Nat /\ began \in Nat /\ began <= t /\ t < Open
    BY TimesAreFinite DEF Moments
  <2>4. began # StartOfDisplay
    BY <2>3 DEF StartOfDisplay
  <2>5. /\ d \in getCurrentPriceForCurrency(rows[i], c, t)
        /\ Locks(d, s)
        /\ \/ settle = c /\ s = d
           \/ settle # c /\ s \in getCurrentPriceForCurrency(rows[j], settle, began)
    BY <2>4, QuoteIs DEF FixedQuotes
  <2>6. CASE s = d
    BY <2>6
  <2>7. CASE settle # c /\ s \in getCurrentPriceForCurrency(rows[j], settle, began)
    <3>0. d.starts <= t /\ (s.snap # NoSnap \/ s.starts <= d.starts)
      BY <1>1, <2>5, CurrentRow
    <3>00. \A k \in 1..Len(h) : h[k].at < began \/ h[k].at > t
      BY <1>1
    <3> HIDE DEF rows, d, s, settle
    <3>1. WellKept(rows[j], Times(h, j), {Base}) /\ WellKept(rows[i], Times(h, i), {Base})
      BY <2>1, <2>2, RowsWellKept DEF Grown
    <3>2. s \in rows[j] /\ s.cur = settle /\ s.starts <= began /\ d \in rows[i] /\ d.cur = c
      BY <2>5, <2>7, CurrentRow
    <3>3. settle \in Currencies /\ s.starts \in Nat
      BY <3>1, <3>2 DEF WellKept, PriceRows
    <3>4. d.snap # NoSnap
      <4>1. SUFFICES ASSUME d.snap = NoSnap PROVE FALSE
        OBVIOUS
      <4>2. c = Base
        BY <3>1, <3>2, <4>1 DEF WellKept
      <4>3. QED
        BY <2>7, <4>2, BaseSettlesItself DEF settle
    <3>5. /\ d.snap = d.starts /\ d.starts \in Nat /\ d.starts < Open /\ d.starts # 0
          /\ \E p \in rows[j] : p.cur = settle /\ p.snap = d.snap /\ p.starts = d.starts /\ p.usd = d.usd
      BY <2>1, <2>2, <3>2, <3>3, <3>4, PublishedTogether
    <3>6. PICK p \in rows[j] : p.cur = settle /\ p.snap = d.snap /\ p.starts = d.starts /\ p.usd = d.usd
      BY <3>5
    <3>7. d.starts < began
      <4>1. PICK k \in 1..i : d.starts = h[k].at
        BY <3>1, <3>2, <3>5 DEF WellKept, Times
      <4>2. k \in 1..Len(h)
        BY <2>2
      <4>3. h[k].at \in Nat
        BY <2>1, <4>2 DEF Grown, IsHistory
      <4>4. QED
        BY <2>3, <3>0, <3>00, <4>1, <4>2, <4>3
    <3>8. p.starts <= s.starts
      <4>1. began < Open /\ p.starts <= began
        BY <2>3, <3>5, <3>6, <3>7, TimesAreFinite
      <4>2. QED
        BY <2>3, <2>7, <3>1, <3>6, <4>1, StartedLast
    <3>9. CASE s.snap # NoSnap
      <4>1. s.snap = d.snap
        BY <2>5, <3>4, <3>9 DEF Locks
      <4>2. s.usd = p.usd
        BY <3>1, <3>2, <3>6, <3>9, <4>1, OnePublication
      <4>3. QED
        BY <3>6, <4>2 DEF d, s
    <3>10. CASE s.snap = NoSnap
      <4>1. s.starts = p.starts
        BY <3>0, <3>3, <3>5, <3>6, <3>8, <3>10
      <4>2. p = s
        BY <3>1, <3>2, <3>6, <4>1 DEF WellKept
      <4>3. QED
        BY <3>4, <3>6, <3>10, <4>2
    <3>11. QED
      BY <3>9, <3>10
  <2>8. QED
    BY <2>5, <2>6, <2>7
<1>2. {h \in FixedHistories : Mixed(h)} = {}
  BY <1>1
<1>3. MixedHistories = Cardinality({h \in FixedHistories : Mixed(h)})
  BY DEF MixedHistories
<1>4. QED
  BY <1>2, <1>3, FS_EmptySet

\* The time and the price of the administrator's latest change, or of the first price.
LastSet(h, i, A) ==
  \/ Sets(h) = {} /\ i = 0 /\ A = 0
  \/ i \in Sets(h) /\ A = h[i].at /\ \A j \in Sets(h) : h[j].at <= A

\* Every history has one.
LEMMA LastSetExists ==
  ASSUME NEW curs, NEW fixed, NEW h, IsHistory(h, curs, fixed)
  PROVE  \E i \in 0..Len(h), A \in Nat : LastSet(h, i, A)
<1>1. CASE Sets(h) = {}
  <2>1. 0 \in 0..Len(h)
    BY DEF IsHistory
  <2>2. QED
    BY <1>1, <2>1 DEF LastSet
<1>2. CASE Sets(h) # {}
  <2> DEFINE T == {h[i].at : i \in Sets(h)}
  <2>1. Sets(h) \subseteq 1..Len(h) /\ Len(h) \in Nat
    BY DEF Sets, IsHistory
  <2>2. T \subseteq Nat /\ T # {} /\ \A x \in T : x <= Late
    BY <1>2, <2>1, TimesAreFinite DEF IsHistory
  <2>3. PICK A \in T : \A x \in T : x <= A
    <3> HIDE DEF T
    <3> QED
      BY <2>2, TimesAreFinite, Largest
  <2>4. PICK i \in Sets(h) : A = h[i].at
    OBVIOUS
  <2>5. LastSet(h, i, A) /\ i \in 0..Len(h) /\ A \in Nat
    BY <2>1, <2>2, <2>3, <2>4 DEF LastSet
  <2>6. QED
    BY <2>5
<1>3. QED
  BY <1>1, <1>2

\* The latest change is the one the theorem's statement chooses.
LEMMA LastSetChosen ==
  ASSUME NEW curs, NEW fixed, NEW h, IsHistory(h, curs, fixed), NEW i, NEW A, LastSet(h, i, A), Sets(h) # {}
  PROVE  {k \in Sets(h) : \A j \in Sets(h) : h[j].at <= h[k].at} = {i}
<1>1. i \in Sets(h) /\ A = h[i].at /\ \A j \in Sets(h) : h[j].at <= A
  BY DEF LastSet
<1>2. Sets(h) \subseteq 1..Len(h)
  BY DEF Sets
<1>3. \A j \in Sets(h) : h[j].at \in Nat
  BY <1>2 DEF IsHistory
<1>4. ASSUME NEW k \in Sets(h), h[i].at <= h[k].at PROVE k = i
  <2>1. h[k].at = h[i].at
    BY <1>1, <1>3, <1>4
  <2>2. QED
    BY <1>1, <1>2, <2>1 DEF IsHistory
<1>5. QED
  BY <1>1, <1>4

\* From its own commit on, the latest change is among the rows.
LEMMA LastSetIsKept ==
  ASSUME NEW curs, NEW h, NEW rows, NEW fixed, Grown(curs, h, rows, fixed),
         NEW i \in 0..Len(h), NEW A \in Nat, LastSet(h, i, A), NEW k \in 0..Len(h), i <= k
  PROVE  \E q \in rows[k] : q.cur = Base /\ q.starts = A
<1>1. \E r \in rows[i] : r.cur = Base /\ r.starts = A
  <2>1. CASE i = 0 /\ A = 0
    <3>1. rows[0] = {Row(Base, 0, 0, NoSnap)}
      BY <2>1 DEF Grown, Evolves, Step
    <3>2. QED
      BY <2>1, <3>1 DEF Row
  <2>2. CASE i \in Sets(h) /\ A = h[i].at
    <3>1. i \in 1..Len(h) /\ h[i].kind = "set" /\ h[i].cur = Base
      BY <2>2 DEF Sets
    <3>2. Brought(h, rows, i, fixed) = {Row(Base, A, A, NoSnap)}
      BY <2>2, <3>1 DEF Brought
    <3>3. Brought(h, rows, i, fixed) \subseteq rows[i]
      BY <3>1, RowsStep
    <3>4. QED
      BY <3>2, <3>3 DEF Row
  <2>3. QED
    BY <2>1, <2>2 DEF LastSet
<1>2. PICK r \in rows[i] : r.cur = Base /\ r.starts = A
  BY <1>1
<1>3. PICK q \in rows[k] : SamePrice(r, q)
  BY RowsPersist
<1>4. QED
  BY <1>2, <1>3 DEF SamePrice

\* No publication or rewrite that is later than the latest change had read the price
\* before it.
NotOvertaken(h, i, A) ==
  \A p \in 1..Len(h) : h[p].kind # "set" /\ h[p].at > A => h[p].read >= i

\* The changes of a product without variants take their times in their order.
Ordered(h, fixed) ==
  fixed => \A i, j \in 1..Len(h) :
             h[i].kind = "set" /\ h[j].kind = "set" /\ i < j => h[i].at < h[j].at

\* No price in USD that is as late as the latest change, or later, is another one.
LEMMA LaterPricesAgree ==
  ASSUME NEW curs, NEW h, NEW rows, NEW fixed, Grown(curs, h, rows, fixed),
         fixed => curs = {Base}, Ordered(h, fixed),
         NEW l \in 0..Len(h), NEW A \in Nat, LastSet(h, l, A), NotOvertaken(h, l, A)
  PROVE  \A k \in 0..Len(h) : \A x \in rows[k] : x.cur = Base /\ x.starts >= A => x.usd = A
<1> DEFINE Agree(k) == \A x \in rows[k] : x.cur = Base /\ x.starts >= A => x.usd = A
           S == {n \in Nat : \A k \in 0..n : k <= Len(h) => Agree(k)}
<1>0. Len(h) \in Nat /\ l \in Nat
  BY DEF Grown, IsHistory
<1>1. 0 \in S
  <2>1. rows[0] = {Row(Base, 0, 0, NoSnap)}
    BY <1>0 DEF Grown, Evolves, Step
  <2>2. Agree(0)
    BY <2>1 DEF Row
  <2>3. \A k \in 0..0 : k = 0
    OBVIOUS
  <2>4. QED
    BY <2>2, <2>3
<1>2. ASSUME NEW n \in Nat, n \in S PROVE n + 1 \in S
  <2>1. SUFFICES ASSUME n + 1 <= Len(h), NEW x \in rows[n + 1], x.cur = Base, x.starts >= A
                 PROVE  x.usd = A
    <3>1. \A k \in 0..n + 1 : k \in 0..n \/ k = n + 1
      OBVIOUS
    <3>2. QED
      BY <1>2, <3>1
  <2> DEFINE i == n + 1
             new == Brought(h, rows, i, fixed)
  <2>2. i \in 1..Len(h) /\ i - 1 = n /\ i \in Nat
    BY <1>0, <2>1
  <2>3. /\ Change(new, h[i].at, curs)
        /\ \A q \in rows[i] : q \in new \/ \E r \in rows[i - 1] : SamePrice(r, q)
    BY <2>2, RowsStep
  <2>4. \A k \in 0..n : Agree(k)
    BY <1>0, <1>2, <2>1
  <2>5. ASSUME NEW r \in rows[n], SamePrice(r, x) PROVE x.usd = A
    BY <2>1, <2>4, <2>5 DEF SamePrice
  <2>6. ASSUME x \in new PROVE x.usd = A
    <3>1. x.starts = h[i].at /\ h[i].at \in Nat /\ h[i].at >= A /\ h[i].at < Late
      BY <2>1, <2>2, <2>3, <2>6 DEF Change, Grown, IsHistory
    <3>2. CASE h[i].kind = "set"
      <4>1. new = {Row(h[i].cur, h[i].at, h[i].at, NoSnap)}
        BY <3>2 DEF Brought
      <4>2. h[i].cur = Base /\ x.usd = h[i].at
        BY <2>1, <2>6, <4>1 DEF Row
      <4>3. i \in Sets(h)
        BY <2>2, <3>2, <4>2 DEF Sets
      <4>4. h[i].at <= A
        BY <4>3 DEF LastSet
      <4>5. QED
        BY <3>1, <4>2, <4>4
    <3>3. CASE h[i].kind # "set"
      <4> DEFINE read == h[i].read
      <4>1. read \in Nat /\ read < i /\ read \in 0..n /\ read \in 0..Len(h)
        <5>1. read \in Nat /\ read < i
          BY <2>2, <3>3 DEF Grown, IsHistory
        <5>2. QED
          BY <1>0, <2>1, <5>1
      <4>2. h[i].at > A
        <5>1. SUFFICES ASSUME h[i].at = A PROVE FALSE
          BY <3>1
        <5>2. CASE l = 0 /\ A = 0
          BY <2>2, <5>1, <5>2 DEF Grown, IsHistory
        <5>3. CASE l \in Sets(h) /\ A = h[l].at
          <6>1. l \in 1..Len(h) /\ h[l].kind = "set"
            BY <5>3 DEF Sets
          <6>2. l = i
            BY <2>2, <5>1, <5>3, <6>1 DEF Grown, IsHistory
          <6>3. QED
            BY <3>3, <6>1, <6>2
        <5>4. QED
          BY <5>2, <5>3 DEF LastSet
      <4>3. l <= read
        BY <2>2, <3>3, <4>2 DEF NotOvertaken
      <4> DEFINE bases == Bases(h, rows, i, fixed)
      <4>4. h[i].kind = "publish" => x.usd \in bases
        <5>1. SUFFICES ASSUME h[i].kind = "publish" PROVE x.usd \in bases
          OBVIOUS
        <5>2. new = {Row(c, usd, h[i].at, h[i].at) : c \in Currencies, usd \in bases}
          BY <5>1 DEF Brought
        <5>3. PICK c \in Currencies, usd \in bases : x = Row(c, usd, h[i].at, h[i].at)
          <6> HIDE DEF new, bases
          <6> QED
            BY <2>6, <5>2
        <5>4. x.usd = usd
          BY <5>3 DEF Row
        <5>5. QED
          BY <5>3, <5>4
      <4>5. CASE ~fixed
        <5> DEFINE cur == getCurrentPriceForCurrency(rows[read], Base, h[i].at)
        <5>1. bases = {r.usd : r \in cur}
          BY <4>5 DEF Bases, loadCurrentUsdVariantBasePrices
        <5>2. PICK r \in cur : x.usd = r.usd
          <6>1. h[i].kind = "publish"
            BY <2>2, <3>3, <4>5 DEF Grown, IsHistory
          <6>2. QED
            BY <4>4, <5>1, <6>1
        <5>3. PICK q \in rows[read] : q.cur = Base /\ q.starts = A
          BY <4>1, <4>3, LastSetIsKept
        <5>4. WellKept(rows[read], Times(h, read), curs)
          BY <4>1, RowsWellKept DEF Grown
        <5>5. h[i].at < Open /\ q.starts <= h[i].at
          BY <3>1, <4>2, <5>3, TimesAreFinite
        <5>6. q.starts <= r.starts
          <6> HIDE DEF read
          <6> QED
            BY <3>1, <5>3, <5>4, <5>5, StartedLast
        <5>7. r \in rows[read] /\ r.cur = Base
          BY CurrentRow
        <5>8. r.starts \in Nat
          BY <5>4, <5>7 DEF WellKept, PriceRows
        <5>9. QED
          BY <2>4, <4>1, <5>2, <5>3, <5>6, <5>7, <5>8
      <4>6. CASE fixed
        <5>1. x.usd = FixedPrice(h, read)
          <6>1. CASE h[i].kind = "publish"
            BY <4>4, <4>6, <6>1 DEF Bases
          <6>2. CASE h[i].kind = "rewrite"
            <7>1. new = {Row(Base, FixedPrice(h, read), h[i].at, NoSnap)}
              BY <4>6, <6>2 DEF Brought
            <7>2. QED
              BY <2>6, <7>1 DEF Row
          <6>3. QED
            BY <2>2, <3>3, <6>1, <6>2 DEF Grown, IsHistory
        <5> DEFINE sets == {j \in 1..read : h[j].kind = "set"}
        <5>2. \A j \in sets : j \in 1..Len(h) /\ j \in Sets(h)
          <6>1. \A j \in 1..Len(h) : h[j].kind = "set" => h[j].cur = Base
            BY <4>6 DEF Grown, IsHistory
          <6>2. \A j \in 1..read : j \in 1..Len(h)
            BY <1>0, <4>1
          <6>3. QED
            BY <6>1, <6>2 DEF Sets
        <5>3. CASE Sets(h) = {}
          <6>1. sets = {} /\ A = 0
            BY <5>2, <5>3 DEF LastSet
          <6>2. IsHistory(h, curs, fixed)
            BY DEF Grown
          <6>3. FixedPrice(h, read) = 0
            <7> HIDE DEF read
            <7>1. {j \in 1..read : h[j].kind = "set"} = {}
              BY <6>1 DEF read
            <7>2. QED
              BY <4>1, <6>2, <7>1, FixedPriceIs
          <6>4. QED
            BY <5>1, <6>1, <6>3
        <5>4. CASE l \in Sets(h) /\ A = h[l].at
          <6>1. l \in sets
            BY <1>0, <4>1, <4>3, <5>4 DEF Sets
          <6>2. PICK m \in sets : (\A j \in sets : j <= m) /\ FixedPrice(h, read) = h[m].at
            BY <4>1, <6>1, FixedPriceIs DEF Grown
          <6>3. l <= m /\ h[m].at <= A
            BY <5>2, <6>1, <6>2 DEF LastSet
          <6>4. m \in 1..Len(h) /\ l \in 1..Len(h) /\ h[m].kind = "set" /\ h[l].kind = "set"
            BY <5>2, <6>1
          <6>5. ~(l < m)
            <7>1. SUFFICES ASSUME l < m PROVE FALSE
              OBVIOUS
            <7>2. h[l].at < h[m].at
              BY <4>6, <6>4, <7>1 DEF Ordered
            <7>3. h[m].at \in Nat /\ h[l].at \in Nat
              BY <6>4 DEF Grown, IsHistory
            <7>4. QED
              BY <5>4, <6>3, <7>2, <7>3
          <6>6. m = l
            BY <1>0, <6>3, <6>4, <6>5
          <6>7. QED
            BY <5>1, <5>4, <6>2, <6>6
        <5>5. QED
          BY <5>3, <5>4 DEF LastSet
      <4>7. QED
        BY <4>5, <4>6
    <3>4. QED
      BY <2>2, <3>2, <3>3 DEF Grown, IsHistory
  <2>7. QED
    BY <2>2, <2>3, <2>5, <2>6
<1>3. Nat \subseteq S
  <2> HIDE DEF S
  <2> QED
    BY <1>1, <1>2, SetInduction
<1>4. QED
  BY <1>0, <1>3

\* The latest price is kept, in every history of its kind.
LEMMA LatestIsKept ==
  ASSUME NEW curs, NEW h, NEW rows, NEW fixed, Grown(curs, h, rows, fixed),
         fixed => curs = {Base}, Ordered(h, fixed)
  PROVE  KeepsPrice(h, rows)
<1> DEFINE sets == Sets(h)
           last == {i \in sets : \A j \in sets : h[j].at <= h[i].at}
           overtaken == \E p \in 1..Len(h), i \in last :
                          h[p].kind # "set" /\ h[p].at > h[i].at /\ h[p].read < i
<1>0. IsHistory(h, curs, fixed) /\ Len(h) \in Nat
  BY DEF Grown, IsHistory
<1>1. PICK l \in 0..Len(h), A \in Nat : LastSet(h, l, A)
  BY <1>0, LastSetExists
<1>2. A = IF sets = {} THEN 0 ELSE h[CHOOSE i \in last : TRUE].at
  <2>1. CASE sets = {}
    BY <1>1, <2>1 DEF LastSet
  <2>2. CASE sets # {}
    <3>1. last = {l} /\ A = h[l].at
      BY <1>0, <1>1, <2>2, LastSetChosen DEF LastSet
    <3>2. (CHOOSE i \in last : TRUE) = l
      <4> HIDE DEF last
      <4> QED
        BY <3>1
    <3>3. QED
      <4> HIDE DEF last, sets
      <4> QED
        BY <2>2, <3>1, <3>2
  <2>3. QED
    BY <2>1, <2>2
<1>3. ASSUME ~overtaken, NEW r \in getCurrentPriceForCurrency(rows[Len(h)], Base, Late)
      PROVE  r.usd = A
  <2>1. NotOvertaken(h, l, A)
    <3>1. CASE sets = {}
      <4>1. l = 0
        BY <1>1, <3>1 DEF LastSet
      <4>2. QED
        BY <1>0, <4>1 DEF NotOvertaken, IsHistory
    <3>2. CASE sets # {}
      <4>1. l \in last /\ A = h[l].at
        BY <1>0, <1>1, <3>2, LastSetChosen DEF LastSet
      <4>2. \A p \in 1..Len(h) : h[p].kind # "set" => h[p].read \in Nat
        BY <1>0 DEF IsHistory
      <4>3. \A p \in 1..Len(h) : ~(h[p].kind # "set" /\ h[p].at > h[l].at /\ h[p].read < l)
        BY <1>3, <4>1
      <4>4. QED
        BY <1>0, <4>1, <4>2, <4>3 DEF NotOvertaken
    <3>3. QED
      BY <3>1, <3>2
  <2>2. PICK q \in rows[Len(h)] : q.cur = Base /\ q.starts = A
    BY <1>0, <1>1, LastSetIsKept
  <2>3. WellKept(rows[Len(h)], Times(h, Len(h)), curs)
    BY <1>0, RowsWellKept DEF Grown
  <2>4. A < Open /\ A <= Late
    <3>1. A = 0 \/ \E i \in 1..Len(h) : A = h[i].at
      BY <1>1 DEF LastSet, Sets
    <3>2. QED
      BY <1>0, <3>1, TimesAreFinite DEF IsHistory
  <2>5. q.starts <= r.starts
    BY <1>3, <2>2, <2>3, <2>4, TimesAreFinite, StartedLast
  <2>6. r \in rows[Len(h)] /\ r.cur = Base /\ r.starts \in Nat
    BY <1>3, <2>3, CurrentRow DEF WellKept, PriceRows
  <2>7. r.starts >= A
    BY <2>2, <2>5, <2>6
  <2>8. QED
    BY <1>0, <1>1, <2>1, <2>6, <2>7, LaterPricesAgree
<1>4. overtaken \/ \A r \in getCurrentPriceForCurrency(rows[Len(h)], Base, Late) : r.usd = A
  BY <1>3
<1>5. QED
  BY <1>2, <1>4, Zenon DEF KeepsPrice

\* Updates of a product without variants are committed in the order of their times.
LEMMA FixedOrder ==
  ASSUME NEW h \in FixedHistories, NEW i \in 1..Len(h), NEW j \in 1..Len(h),
         h[i].kind = "set", h[j].kind = "set", i < j
  PROVE  h[i].at < h[j].at
<1>1. PICK n \in 0..MaxChanges : \E c \in Plans({Base}, TRUE, n) :
        h = [m \in 1..n |-> Committed(c[2][m], 2 * c[1][m])]
  BY DEF FixedHistories, Histories
<1>0. PICK c \in Plans({Base}, TRUE, n) : h = [m \in 1..n |-> Committed(c[2][m], 2 * c[1][m])]
  BY <1>1
<1>2. n \in Nat /\ Len(h) = n
  BY <1>0, QuoteAssumption
<1>3. /\ \A m \in 1..n : c[1][m] \in Nat
      /\ \A l, m \in 1..n : l < m /\ c[2][l][1] # "publish" /\ c[2][m][1] # "publish"
                               => c[1][l] < c[1][m]
  BY <1>2 DEF Plans, Injection
<1>4. ASSUME NEW m \in 1..n
      PROVE  /\ h[m].at = 2 * c[1][m]
             /\ c[2][m][1] = "publish" => h[m].kind = "publish"
  <2>1. h[m] = Committed(c[2][m], 2 * c[1][m])
    BY <1>0
  <2>2. QED
    BY <2>1 DEF Committed, SetPrice, Publish, Rewrite
<1>5. i \in 1..n /\ j \in 1..n /\ c[2][i][1] # "publish" /\ c[2][j][1] # "publish"
  BY <1>2, <1>4
<1>6. c[1][i] < c[1][j] /\ c[1][i] \in Nat /\ c[1][j] \in Nat
  BY <1>3, <1>5
<1>7. h[i].at = 2 * c[1][i] /\ h[j].at = 2 * c[1][j]
  BY <1>4, <1>5
<1>8. QED
  BY <1>6, <1>7

\* An administrator's latest price is lost to an overlapping publication or rewrite
\* only.
THEOREM NoPriceIsLost == LosingHistories = 0
<1>1. ASSUME NEW h \in VariantHistories PROVE KeepsPrice(h, VariantRows(h))
  <2>1. PICK fixed \in BOOLEAN : ~fixed /\ Grown(Currencies, h, VariantRows(h), fixed)
    BY VariantsGrow
  <2>2. Ordered(h, fixed)
    BY <2>1 DEF Ordered
  <2>3. QED
    BY <2>1, <2>2, LatestIsKept
<1>2. ASSUME NEW h \in FixedHistories PROVE KeepsPrice(h, FixedRows(h))
  <2>1. PICK fixed \in BOOLEAN : Grown({Base}, h, FixedRows(h), fixed)
    BY FixedGrow
  <2>2. Ordered(h, fixed)
    BY FixedOrder DEF Ordered
  <2>3. QED
    BY <2>1, <2>2, LatestIsKept
<1>3. {h \in VariantHistories : ~KeepsPrice(h, VariantRows(h))}
        \cup {h \in FixedHistories : ~KeepsPrice(h, FixedRows(h))} = {}
  BY <1>1, <1>2
<1>4. QED
  BY <1>3, FS_EmptySet DEF LosingHistories

\* The order's quotes, whatever is checked out.
THEOREM OrdersQuoteOnePublication == Spec => []QuoteIsOnePublication
<1>1. QuoteIsOnePublication
  BY NoQuoteIsSplit, NoQuoteIsMixed DEF QuoteIsOnePublication
<1>2. QED
  BY <1>1, PTL

\* And the administrator's prices.
THEOREM OrdersKeepSetPrices == Spec => []SetPriceLostOnlyToOverlap
<1>1. SetPriceLostOnlyToOverlap
  BY NoPriceIsLost DEF SetPriceLostOnlyToOverlap
<1>2. QED
  BY <1>1, PTL

-----------------------------------------------------------------------------
(* CENTS                                                                    *)
(* Sums: MapThenSumSet is a recursive function in a CHOOSE; it exists and    *)
(* is unique, and then it can be unfolded.                                   *)

\* Induction over the subsets of a finite set, by their size.
LEMMA SubsetInduction ==
  ASSUME NEW S, IsFiniteSet(S), NEW P,
         \A T \in SUBSET S : (\A U \in SUBSET S : IsFiniteSet(U) /\ Cardinality(U) < Cardinality(T) => U \in P)
                               => T \in P
  PROVE  SUBSET S \subseteq P
<1> DEFINE N == {n \in Nat : \A T \in SUBSET S : Cardinality(T) < n => T \in P}
<1>1. \A T \in SUBSET S : IsFiniteSet(T) /\ Cardinality(T) \in Nat
  BY FS_Subset, FS_CardinalityType
<1>2. 0 \in N
  BY <1>1
<1>3. ASSUME NEW n \in Nat, n \in N PROVE n + 1 \in N
  <2>1. SUFFICES ASSUME NEW T \in SUBSET S, Cardinality(T) < n + 1 PROVE T \in P
    OBVIOUS
  <2>2. \A U \in SUBSET S : Cardinality(U) < Cardinality(T) => Cardinality(U) < n
    BY <1>1, <2>1
  <2>3. QED
    BY <1>3, <2>2
<1>4. Nat \subseteq N
  <2> HIDE DEF N
  <2> QED
    BY <1>2, <1>3, SetInduction
<1>5. \A T \in SUBSET S : Cardinality(T) + 1 \in N /\ Cardinality(T) < Cardinality(T) + 1
  BY <1>1, <1>4
<1>6. QED
  BY <1>5

\* What the community module's fold takes from a set first.
Picked(s) == CHOOSE x \in s : TRUE

\* One step of a sum.
SumStep(f, g, s) == IF s = {} THEN 0 ELSE f[Picked(s)] + g[s \ {Picked(s)}]

\* The function that the fold chooses: the sum of every subset.
Sums(f, g, S) == g = [s \in SUBSET S |-> SumStep(f, g, s)]

\* A sum is the value of that function.
LEMMA SumChoice ==
  ASSUME NEW S, NEW f
  PROVE  SumOver(S, f) = (CHOOSE g : Sums(f, g, S))[S]
  BY Zenon DEF SumOver, MapThenSumSet, MapThenFoldSet, Sums, SumStep, Picked

\* What is picked is a member, and leaves a smaller set.
LEMMA PickedIs ==
  ASSUME NEW s, IsFiniteSet(s), s # {}
  PROVE  /\ Picked(s) \in s
         /\ IsFiniteSet(s \ {Picked(s)})
         /\ Cardinality(s) \in Nat /\ Cardinality(s \ {Picked(s)}) \in Nat
         /\ Cardinality(s \ {Picked(s)}) < Cardinality(s)
<1>1. Picked(s) \in s
  BY DEF Picked
<1>2. QED
  BY <1>1, FS_RemoveElement, FS_CardinalityType

\* There is such a function, built by the size of the sets,
LEMMA SumExists ==
  ASSUME NEW S, IsFiniteSet(S), NEW f
  PROVE  \E g : Sums(f, g, S)
<1> DEFINE Upto(g, n) == \A s \in SUBSET S : Cardinality(s) <= n => g[s] = SumStep(f, g, s)
           N == {n \in Nat : \E g : Upto(g, n)}
<1>0. \A s \in SUBSET S : IsFiniteSet(s) /\ Cardinality(s) \in Nat
  BY FS_Subset, FS_CardinalityType
<1>1. 0 \in N
  <2> DEFINE g == [s \in SUBSET S |-> 0]
  <2>1. \A s \in SUBSET S : Cardinality(s) <= 0 => s = {}
    BY <1>0, FS_EmptySet
  <2>2. Upto(g, 0)
    BY <2>1 DEF SumStep
  <2>3. QED
    BY <2>2
<1>2. ASSUME NEW n \in Nat, n \in N PROVE n + 1 \in N
  <2>1. PICK g : Upto(g, n)
    BY <1>2
  <2> DEFINE G == [s \in SUBSET S |-> IF Cardinality(s) <= n THEN g[s] ELSE SumStep(f, g, s)]
  <2>2. ASSUME NEW s \in SUBSET S, Cardinality(s) <= n + 1 PROVE G[s] = SumStep(f, G, s)
    <3>1. G[s] = SumStep(f, g, s)
      BY <2>1
    <3>2. CASE s = {}
      BY <3>1, <3>2 DEF SumStep
    <3>3. CASE s # {}
      <4> DEFINE u == s \ {Picked(s)}
      <4>1. u \in SUBSET S /\ Cardinality(u) <= n
        <5>1. Cardinality(u) \in Nat /\ Cardinality(s) \in Nat /\ Cardinality(u) < Cardinality(s)
          BY <1>0, <3>3, PickedIs
        <5>2. QED
          BY <2>2, <5>1
      <4>2. G[u] = g[u]
        BY <4>1
      <4>3. QED
        <5> HIDE DEF G
        <5> QED
          BY <3>1, <3>3, <4>2 DEF SumStep
    <3>4. QED
      BY <3>2, <3>3
  <2>3. Upto(G, n + 1)
    <3> HIDE DEF G
    <3> QED
      BY <2>2
  <2>4. QED
    <3> HIDE DEF G, Upto
    <3> QED
      BY <2>3
<1>3. Nat \subseteq N
  <2> HIDE DEF N
  <2> QED
    BY <1>1, <1>2, SetInduction
<1>4. PICK g : Upto(g, Cardinality(S))
  BY <1>0, <1>3
<1> DEFINE G == [s \in SUBSET S |-> g[s]]
<1>5. ASSUME NEW s \in SUBSET S PROVE G[s] = SumStep(f, G, s)
  <2>1. Cardinality(s) <= Cardinality(S)
    BY FS_Subset
  <2>2. G[s] = SumStep(f, g, s)
    BY <1>4, <2>1
  <2>3. G[s \ {Picked(s)}] = g[s \ {Picked(s)}]
    OBVIOUS
  <2>4. QED
    <3> HIDE DEF G
    <3> QED
      BY <2>2, <2>3 DEF SumStep
<1>6. G = [s \in SUBSET S |-> SumStep(f, G, s)]
  <2>1. G = [s \in SUBSET S |-> G[s]]
    OBVIOUS
  <2> HIDE DEF G
  <2>2. QED
    BY <1>5, <2>1
<1>7. QED
  BY <1>6 DEF Sums

\* and no two of them differ.
LEMMA SumUnique ==
  ASSUME NEW S, IsFiniteSet(S), NEW f, NEW g, NEW h,
         \A s \in SUBSET S : g[s] = SumStep(f, g, s) /\ h[s] = SumStep(f, h, s)
  PROVE  \A s \in SUBSET S : g[s] = h[s]
<1> DEFINE P == {s \in SUBSET S : g[s] = h[s]}
<1>1. ASSUME NEW T \in SUBSET S,
             \A U \in SUBSET S : IsFiniteSet(U) /\ Cardinality(U) < Cardinality(T) => U \in P
      PROVE  T \in P
  <2>1. CASE T = {}
    BY <2>1 DEF SumStep
  <2>2. CASE T # {}
    <3>1. IsFiniteSet(T)
      BY FS_Subset
    <3>2. T \ {Picked(T)} \in P
      BY <1>1, <2>2, <3>1, PickedIs
    <3>3. g[T \ {Picked(T)}] = h[T \ {Picked(T)}]
      BY <3>2
    <3>4. QED
      BY <2>2, <3>3 DEF SumStep
  <2>3. QED
    BY <2>1, <2>2
<1>2. SUBSET S \subseteq P
  <2> HIDE DEF P
  <2> QED
    BY <1>1, SubsetInduction
<1>3. QED
  BY <1>2

\* A sum is what is picked and the sum of the rest.
LEMMA SumUnfolds ==
  ASSUME NEW S, IsFiniteSet(S), NEW f
  PROVE  /\ SumOver({}, f) = 0
         /\ S # {} => SumOver(S, f) = f[Picked(S)] + SumOver(S \ {Picked(S)}, f)
<1>1. ASSUME NEW T, IsFiniteSet(T)
      PROVE  \E g : SumOver(T, f) = g[T] /\ \A s \in SUBSET T : g[s] = SumStep(f, g, s)
  <2> DEFINE g == CHOOSE x : Sums(f, x, T)
  <2>1. Sums(f, g, T) /\ SumOver(T, f) = g[T]
    BY <1>1, SumExists, SumChoice, Zenon
  <2>2. \A s \in SUBSET T : g[s] = SumStep(f, g, s)
    <3> HIDE DEF g
    <3>1. g = [s \in SUBSET T |-> SumStep(f, g, s)]
      BY <2>1 DEF Sums
    <3>2. QED
      BY <3>1, Zenon
  <2>3. QED
    BY <2>1, <2>2
<1>2. SumOver({}, f) = 0
  <2>1. PICK g : SumOver({}, f) = g[{}] /\ \A s \in SUBSET {} : g[s] = SumStep(f, g, s)
    BY <1>1, FS_EmptySet
  <2>2. QED
    BY <2>1 DEF SumStep
<1>3. ASSUME S # {} PROVE SumOver(S, f) = f[Picked(S)] + SumOver(S \ {Picked(S)}, f)
  <2> DEFINE T == S \ {Picked(S)}
  <2>1. IsFiniteSet(T)
    BY <1>3, PickedIs
  <2>2. PICK g : SumOver(S, f) = g[S] /\ \A s \in SUBSET S : g[s] = SumStep(f, g, s)
    BY <1>1
  <2>3. PICK h : SumOver(T, f) = h[T] /\ \A s \in SUBSET T : h[s] = SumStep(f, h, s)
    BY <1>1, <2>1
  <2>4. \A s \in SUBSET T : g[s] = h[s]
    <3>1. \A s \in SUBSET T : g[s] = SumStep(f, g, s) /\ h[s] = SumStep(f, h, s)
      BY <2>2, <2>3
    <3>2. QED
      BY <2>1, <3>1, SumUnique
  <2>5. QED
    BY <1>3, <2>2, <2>3, <2>4 DEF SumStep
<1>4. QED
  BY <1>2, <1>3

\* Of nothing.
LEMMA SumEmpty ==
  ASSUME NEW f PROVE SumOver({}, f) = 0
<1>1. IsFiniteSet({})
  BY FS_EmptySet
<1>2. QED
  BY <1>1, SumUnfolds

\* A sum of numbers, with any of its members taken out.
LEMMA SumTakeOut ==
  ASSUME NEW S, IsFiniteSet(S), NEW f, \A x \in S : f[x] \in Nat
  PROVE  /\ SumOver(S, f) \in Nat
         /\ \A x \in S : SumOver(S, f) = f[x] + SumOver(S \ {x}, f)
<1> DEFINE Fine(T) == /\ SumOver(T, f) \in Nat
                      /\ \A x \in T : SumOver(T, f) = f[x] + SumOver(T \ {x}, f)
           P == {T \in SUBSET S : Fine(T)}
<1>1. ASSUME NEW T \in SUBSET S,
             \A U \in SUBSET S : IsFiniteSet(U) /\ Cardinality(U) < Cardinality(T) => U \in P
      PROVE  T \in P
  <2>0. IsFiniteSet(T)
    BY FS_Subset
  <2>1. CASE T = {}
    BY <2>1, SumEmpty
  <2>2. CASE T # {}
    <3> DEFINE c == Picked(T)
    <3>1. c \in T /\ SumOver(T, f) = f[c] + SumOver(T \ {c}, f)
      BY <2>0, <2>2, PickedIs, SumUnfolds
    <3>2. \A x \in T : /\ IsFiniteSet(T \ {x}) /\ Cardinality(T \ {x}) < Cardinality(T)
                       /\ Cardinality(T) \in Nat
      <4>1. SUFFICES ASSUME NEW x \in T
                     PROVE  /\ IsFiniteSet(T \ {x}) /\ Cardinality(T \ {x}) < Cardinality(T)
                            /\ Cardinality(T) \in Nat
        OBVIOUS
      <4>2. IsFiniteSet(T \ {x}) /\ Cardinality(T \ {x}) = Cardinality(T) - 1
        BY <2>0, FS_RemoveElement
      <4>3. Cardinality(T) \in Nat
        BY <2>0, FS_CardinalityType
      <4>4. QED
        BY <4>2, <4>3
    <3>3. \A x \in T : SumOver(T \ {x}, f) \in Nat /\ Fine(T \ {x})
      BY <1>1, <3>2
    <3>4. SumOver(T, f) \in Nat
      BY <3>1, <3>3
    <3>5. ASSUME NEW x \in T PROVE SumOver(T, f) = f[x] + SumOver(T \ {x}, f)
      <4>1. CASE x = c
        BY <3>1, <4>1
      <4>2. CASE x # c
        <5>1. SumOver(T \ {c}, f) = f[x] + SumOver((T \ {c}) \ {x}, f)
          <6>1. x \in T \ {c}
            BY <4>2
          <6>2. QED
            BY <3>1, <3>3, <6>1
        <5>2. SumOver(T \ {x}, f) = f[c] + SumOver((T \ {x}) \ {c}, f)
          <6>1. c \in T \ {x}
            BY <3>1, <4>2
          <6>2. QED
            BY <3>3, <6>1
        <5>3. (T \ {c}) \ {x} = (T \ {x}) \ {c}
          OBVIOUS
        <5>4. SumOver((T \ {c}) \ {x}, f) \in Nat
          <6>1. (T \ {c}) \ {x} \in SUBSET S
            OBVIOUS
          <6>2. IsFiniteSet((T \ {c}) \ {x})
            BY <2>0, FS_Subset
          <6>3. Cardinality((T \ {c}) \ {x}) <= Cardinality(T \ {c})
            BY <3>1, <3>2, FS_Subset
          <6>4. Cardinality((T \ {c}) \ {x}) \in Nat /\ Cardinality(T \ {c}) \in Nat
            BY <3>1, <3>2, <6>2, FS_CardinalityType
          <6>5. Cardinality((T \ {c}) \ {x}) < Cardinality(T)
            <7>1. Cardinality(T \ {c}) < Cardinality(T) /\ Cardinality(T) \in Nat
              BY <3>1, <3>2
            <7> HIDE DEF c
            <7>2. QED
              BY <6>3, <6>4, <7>1
          <6>6. QED
            BY <1>1, <6>1, <6>2, <6>5
        <5>5. f[x] \in Nat /\ f[c] \in Nat
          BY <3>1
        <5>6. QED
          BY <3>1, <5>1, <5>2, <5>3, <5>4, <5>5
      <4>3. QED
        BY <4>1, <4>2
    <3>6. QED
      BY <3>4, <3>5
  <2>3. QED
    BY <2>1, <2>2
<1>2. SUBSET S \subseteq P
  <2> HIDE DEF P
  <2> QED
    BY <1>1, SubsetInduction
<1>3. S \in P
  BY <1>2
<1>4. QED
  BY <1>3

\* Finite sets are built one element at a time.
LEMMA ElementInduction ==
  ASSUME NEW S, IsFiniteSet(S), NEW P, {} \in P,
         \A T \in SUBSET S : \A x \in T : IsFiniteSet(T) /\ T \ {x} \in P => T \in P
  PROVE  S \in P
<1>1. ASSUME NEW T \in SUBSET S,
             \A U \in SUBSET S : IsFiniteSet(U) /\ Cardinality(U) < Cardinality(T) => U \in P
      PROVE  T \in P
  <2>1. CASE T = {}
    BY <2>1
  <2>2. CASE T # {}
    <3>1. IsFiniteSet(T)
      BY FS_Subset
    <3>2. T \ {Picked(T)} \in P /\ Picked(T) \in T
      BY <1>1, <2>2, <3>1, PickedIs
    <3>3. QED
      BY <3>1, <3>2
  <2>3. QED
    BY <2>1, <2>2
<1>2. SUBSET S \subseteq P
  BY <1>1, SubsetInduction
<1>3. QED
  BY <1>2

\* A sum of sums is the sum of the sums.
LEMMA SumAdds ==
  ASSUME NEW S, IsFiniteSet(S), NEW f, NEW g, NEW h,
         \A x \in S : f[x] \in Nat /\ g[x] \in Nat /\ h[x] = f[x] + g[x]
  PROVE  SumOver(S, h) = SumOver(S, f) + SumOver(S, g)
<1> DEFINE P == {T \in SUBSET S : SumOver(T, h) = SumOver(T, f) + SumOver(T, g)}
<1>1. {} \in P
  BY SumEmpty, FS_EmptySet
<1>2. ASSUME NEW T \in SUBSET S, NEW x \in T, IsFiniteSet(T), T \ {x} \in P PROVE T \in P
  <2>1. IsFiniteSet(T \ {x})
    BY <1>2, FS_Subset
  <2>2. /\ SumOver(T, h) = h[x] + SumOver(T \ {x}, h)
        /\ SumOver(T, f) = f[x] + SumOver(T \ {x}, f) /\ SumOver(T \ {x}, f) \in Nat
        /\ SumOver(T, g) = g[x] + SumOver(T \ {x}, g) /\ SumOver(T \ {x}, g) \in Nat
    BY <1>2, <2>1, SumTakeOut
  <2>3. SumOver(T \ {x}, h) = SumOver(T \ {x}, f) + SumOver(T \ {x}, g)
    BY <1>2
  <2>4. f[x] \in Nat /\ g[x] \in Nat /\ h[x] = f[x] + g[x]
    OBVIOUS
  <2>5. SumOver(T, h) = SumOver(T, f) + SumOver(T, g)
    BY <2>2, <2>3, <2>4
  <2>6. QED
    BY <2>5
<1>3. S \in P
  <2> HIDE DEF P
  <2> QED
    BY <1>1, <1>2, ElementInduction
<1>4. QED
  BY <1>3

\* A factor comes out of a sum.
LEMMA SumScales ==
  ASSUME NEW S, IsFiniteSet(S), NEW f, NEW g, NEW k \in Nat,
         \A x \in S : f[x] \in Nat /\ g[x] = k * f[x]
  PROVE  SumOver(S, g) = k * SumOver(S, f)
<1> DEFINE P == {T \in SUBSET S : SumOver(T, g) = k * SumOver(T, f)}
<1>1. {} \in P
  <2>1. k * 0 = 0
    OBVIOUS
  <2>2. QED
    BY <2>1, SumEmpty
<1>2. ASSUME NEW T \in SUBSET S, NEW x \in T, IsFiniteSet(T), T \ {x} \in P PROVE T \in P
  <2>1. IsFiniteSet(T \ {x})
    BY <1>2, FS_Subset
  <2>a. \A y \in S : g[y] \in Nat
    OBVIOUS
  <2>2. /\ SumOver(T, g) = g[x] + SumOver(T \ {x}, g)
        /\ SumOver(T, f) = f[x] + SumOver(T \ {x}, f) /\ SumOver(T \ {x}, f) \in Nat
    BY <1>2, <2>1, <2>a, SumTakeOut
  <2>3. SumOver(T \ {x}, g) = k * SumOver(T \ {x}, f)
    BY <1>2
  <2>4. f[x] \in Nat /\ g[x] = k * f[x]
    OBVIOUS
  <2>5. \A a, b \in Nat : k * (a + b) = k * a + k * b
    OBVIOUS
  <2>6. SumOver(T, g) = k * SumOver(T, f)
    BY <2>2, <2>3, <2>4, <2>5
  <2>7. QED
    BY <2>6
<1>3. S \in P
  <2> HIDE DEF P
  <2> QED
    BY <1>1, <1>2, ElementInduction
<1>4. QED
  BY <1>3

\* Smaller members make a smaller sum.
LEMMA SumOrders ==
  ASSUME NEW S, IsFiniteSet(S), NEW f, NEW g, \A x \in S : f[x] \in Nat /\ g[x] \in Nat /\ f[x] <= g[x]
  PROVE  /\ SumOver(S, f) <= SumOver(S, g)
         /\ (\A x \in S : f[x] = g[x]) => SumOver(S, f) = SumOver(S, g)
         /\ (\E x \in S : f[x] < g[x]) => SumOver(S, f) < SumOver(S, g)
<1> DEFINE d == [x \in S |-> g[x] - f[x]]
<1>1. \A x \in S : d[x] \in Nat /\ g[x] = f[x] + d[x]
  OBVIOUS
<1>2. SumOver(S, g) = SumOver(S, f) + SumOver(S, d)
  <2> HIDE DEF d
  <2> QED
    BY <1>1, SumAdds
<1>3. SumOver(S, d) \in Nat /\ SumOver(S, f) \in Nat /\ \A x \in S : SumOver(S \ {x}, d) \in Nat
  <2> HIDE DEF d
  <2>1. \A x \in S : IsFiniteSet(S \ {x})
    BY FS_Subset
  <2> QED
    BY <1>1, <2>1, SumTakeOut
<1>4. ASSUME NEW x \in S, f[x] < g[x] PROVE SumOver(S, d) > 0
  <2>1. d[x] > 0 /\ d[x] \in Nat
    BY <1>4
  <2>2. SumOver(S, d) = d[x] + SumOver(S \ {x}, d)
    <3> HIDE DEF d
    <3> QED
      BY <1>1, SumTakeOut
  <2>3. QED
    BY <1>3, <2>1, <2>2
<1>5. ASSUME \A x \in S : f[x] = g[x] PROVE SumOver(S, d) = 0
  <2>1. \A x \in S : d[x] = 0
    BY <1>5
  <2>2. \A x \in S : d[x] \in Nat /\ d[x] = 0 * d[x]
    <3> HIDE DEF d
    <3>1. 0 * 0 = 0
      OBVIOUS
    <3>2. QED
      BY <2>1, <3>1
  <2>3. SumOver(S, d) = 0 * SumOver(S, d)
    <3> HIDE DEF d
    <3> QED
      BY <2>2, SumScales
  <2>4. QED
    BY <1>3, <2>3
<1>6. QED
  BY <1>2, <1>3, <1>4, <1>5

\* Members that are zero can be left out.
LEMMA SumSkips ==
  ASSUME NEW S, IsFiniteSet(S), NEW E \in SUBSET S, NEW f,
         \A x \in S : f[x] \in Nat /\ (x \notin E => f[x] = 0)
  PROVE  SumOver(S, f) = SumOver(E, f)
<1> DEFINE P == {T \in SUBSET S : SumOver(T, f) = SumOver(T \cap E, f)}
<1>1. {} \in P
  <2>1. {} \cap E = {}
    OBVIOUS
  <2>2. SumOver({}, f) = SumOver({} \cap E, f)
    BY <2>1, Zenon
  <2>3. QED
    BY <2>2
<1>2. ASSUME NEW T \in SUBSET S, NEW x \in T, IsFiniteSet(T), T \ {x} \in P PROVE T \in P
  <2>1. SumOver(T, f) = f[x] + SumOver(T \ {x}, f)
    BY <1>2, SumTakeOut
  <2>2. SumOver(T \ {x}, f) = SumOver((T \ {x}) \cap E, f)
    BY <1>2
  <2>3. IsFiniteSet(T \cap E) /\ IsFiniteSet((T \ {x}) \cap E)
    BY <1>2, FS_Subset
  <2>4. CASE x \in E
    <3>1. (T \ {x}) \cap E = (T \cap E) \ {x}
      OBVIOUS
    <3>2. x \in T \cap E
      BY <2>4
    <3>3. SumOver(T \cap E, f) = f[x] + SumOver((T \cap E) \ {x}, f)
      BY <2>3, <3>2, SumTakeOut
    <3>4. QED
      BY <2>1, <2>2, <3>1, <3>3
  <2>5. CASE x \notin E
    <3>1. (T \ {x}) \cap E = T \cap E
      BY <2>5
    <3>2. f[x] = 0 /\ SumOver(T \cap E, f) \in Nat
      BY <2>3, <2>5, SumTakeOut
    <3>3. QED
      BY <2>1, <2>2, <3>1, <3>2
  <2>6. QED
    BY <2>4, <2>5
<1>3. S \in P
  <2> HIDE DEF P
  <2> QED
    BY <1>1, <1>2, ElementInduction
<1>4. S \cap E = E
  OBVIOUS
<1>5. QED
  BY <1>3, <1>4

\* A sum of ones counts.
LEMMA SumCounts ==
  ASSUME NEW S, IsFiniteSet(S), NEW f, \A x \in S : f[x] = 1
  PROVE  SumOver(S, f) = Cardinality(S)
<1> DEFINE P == {T \in SUBSET S : SumOver(T, f) = Cardinality(T)}
<1>1. {} \in P
  BY SumEmpty, FS_EmptySet
<1>2. ASSUME NEW T \in SUBSET S, NEW x \in T, IsFiniteSet(T), T \ {x} \in P PROVE T \in P
  <2>1. SumOver(T, f) = 1 + SumOver(T \ {x}, f)
    BY <1>2, SumTakeOut
  <2>2. SumOver(T \ {x}, f) = Cardinality(T \ {x})
    BY <1>2
  <2>3. Cardinality(T \ {x}) = Cardinality(T) - 1 /\ Cardinality(T) \in Nat
    BY <1>2, FS_RemoveElement, FS_CardinalityType
  <2>4. QED
    BY <2>1, <2>2, <2>3
<1>3. S \in P
  <2> HIDE DEF P
  <2> QED
    BY <1>1, <1>2, ElementInduction
<1>4. QED
  BY <1>3

-----------------------------------------------------------------------------
(* Largest remainders                                                        *)

\* Those that stand before i: more was lost on them, or as much on an earlier one.
Before(lost, E, i) == {j \in E : lost[j] > lost[i] \/ (lost[j] = lost[i] /\ j < i)}

\* Of the first r of a finite set there are r.
LEMMA FirstOnes ==
  ASSUME NEW E, IsFiniteSet(E), E \subseteq Nat, NEW lost, \A i \in E : lost[i] \in Nat,
         NEW r \in Nat, r <= Cardinality(E)
  PROVE  Cardinality({i \in E : Cardinality(Before(lost, E, i)) < r}) = r
<1> DEFINE n == Cardinality(E)
           rank == [i \in E |-> Cardinality(Before(lost, E, i))]
<1>1. n \in Nat
  BY FS_CardinalityType
<1>2. \A i \in E : /\ Before(lost, E, i) \subseteq E /\ IsFiniteSet(Before(lost, E, i))
                   /\ Cardinality(Before(lost, E, i)) \in Nat
  <2>1. \A i \in E : Before(lost, E, i) \subseteq E
    BY DEF Before
  <2>2. QED
    BY <2>1, FS_Subset, FS_CardinalityType
<1>3. ASSUME NEW i \in E PROVE rank[i] \in 0..n - 1
  <2>1. i \notin Before(lost, E, i)
    BY DEF Before
  <2>2. Cardinality(Before(lost, E, i)) <= n /\ Cardinality(Before(lost, E, i)) # n
    BY <1>2, <2>1, FS_Subset
  <2>3. QED
    BY <1>1, <1>2, <2>2
<1>4. ASSUME NEW i \in E, NEW k \in E, i \in Before(lost, E, k) PROVE rank[i] < rank[k]
  <2>1. Before(lost, E, i) \subseteq Before(lost, E, k)
    <3>1. SUFFICES ASSUME NEW j \in Before(lost, E, i) PROVE j \in Before(lost, E, k)
      OBVIOUS
    <3>2. /\ j \in E
          /\ lost[j] > lost[i] \/ (lost[j] = lost[i] /\ j < i)
          /\ lost[i] > lost[k] \/ (lost[i] = lost[k] /\ i < k)
      BY <1>4 DEF Before
    <3>3. lost[i] \in Nat /\ lost[j] \in Nat /\ lost[k] \in Nat /\ i \in Nat /\ j \in Nat /\ k \in Nat
      BY <3>2
    <3>4. lost[j] > lost[k] \/ (lost[j] = lost[k] /\ j < k)
      BY <3>2, <3>3
    <3>5. QED
      BY <3>2, <3>4 DEF Before
  <2>2. i \notin Before(lost, E, i)
    BY DEF Before
  <2>3. /\ Cardinality(Before(lost, E, i)) <= Cardinality(Before(lost, E, k))
        /\ Cardinality(Before(lost, E, i)) # Cardinality(Before(lost, E, k))
    BY <1>2, <1>4, <2>1, <2>2, FS_Subset
  <2>4. QED
    BY <1>2, <2>3
<1>5. ASSUME NEW i \in E, NEW k \in E, rank[i] = rank[k] PROVE i = k
  <2>1. i = k \/ i \in Before(lost, E, k) \/ k \in Before(lost, E, i)
    BY DEF Before
  <2>2. rank[i] \in Nat /\ rank[k] \in Nat
    BY <1>2
  <2>3. ~(rank[i] < rank[k]) /\ ~(rank[k] < rank[i])
    <3> HIDE DEF rank
    <3> QED
      BY <1>5, <2>2
  <2>4. QED
    <3> HIDE DEF rank
    <3> QED
      BY <1>4, <2>1, <2>3
<1>6. /\ IsFiniteSet(0..n - 1) /\ Cardinality(0..n - 1) = n
      /\ IsFiniteSet(0..r - 1) /\ Cardinality(0..r - 1) = r
  <2>1. 0 \in Int /\ n - 1 \in Int /\ r - 1 \in Int
    BY <1>1
  <2>2. (IF 0 > n - 1 THEN 0 ELSE n - 1 - 0 + 1) = n /\ (IF 0 > r - 1 THEN 0 ELSE r - 1 - 0 + 1) = r
    BY <1>1
  <2> HIDE DEF n
  <2>3. QED
    BY <2>1, <2>2, FS_Interval
<1>7. rank \in Injection(E, 0..n - 1)
  <2> HIDE DEF n
  <2>1. rank \in [E -> 0..n - 1]
    BY <1>3
  <2> HIDE DEF rank
  <2>2. QED
    BY <1>5, <2>1 DEF Injection, IsInjective
<1>8. rank \in Surjection(E, 0..n - 1)
  <2> HIDE DEF rank
  <2> QED
    BY <1>6, <1>7, FS_Injection
<1>9. \A k \in 0..n - 1 : \E i \in E : rank[i] = k
  <2> HIDE DEF rank, n
  <2> QED
    BY <1>8 DEF Surjection
<1> DEFINE G == {i \in E : Cardinality(Before(lost, E, i)) < r}
           first == [i \in G |-> rank[i]]
<1>10. first \in Injection(G, 0..r - 1)
  <2>1. \A i \in G : rank[i] \in 0..r - 1
    BY <1>2
  <2>2. \A i, k \in G : rank[i] = rank[k] => i = k
    <3> HIDE DEF rank
    <3> QED
      BY <1>5
  <2>3. QED
    <3> HIDE DEF G, rank
    <3> QED
      BY <2>1, <2>2 DEF Injection, IsInjective
<1>11. first \in Surjection(G, 0..r - 1)
  <2>1. ASSUME NEW k \in 0..r - 1 PROVE \E i \in G : rank[i] = k
    <3>1. k \in 0..n - 1 /\ k < r
      BY <1>1
    <3>2. PICK i \in E : rank[i] = k
      BY <1>9, <3>1
    <3>3. QED
      BY <3>1, <3>2
  <2>2. \A i \in G : rank[i] \in 0..r - 1
    BY <1>2
  <2>3. QED
    <3> HIDE DEF G, rank
    <3> QED
      BY <2>1, <2>2 DEF Surjection
<1>12. Cardinality(G) = Cardinality(0..r - 1)
  <2> HIDE DEF first, G
  <2> QED
    BY <1>6, <1>10, <1>11, FS_Injection
<1>13. QED
  BY <1>6, <1>12

\* What a quotient and its remainder are.
LEMMA Division ==
  ASSUME NEW a \in Nat, NEW b \in Nat, b > 0
  PROVE  /\ a \div b \in Nat /\ a % b \in Nat /\ a % b < b
         /\ a = b * (a \div b) + (a % b)
  OBVIOUS

\* What the solver needs to be told of products.
LEMMA Products ==
  ASSUME NEW a \in Nat, NEW b \in Nat, NEW c \in Nat
  PROVE  /\ a * b \in Nat /\ a * b = b * a
         /\ a <= b => c * a <= c * b
         /\ a < b /\ c > 0 => c * a < c * b
         /\ c > 0 /\ c * a <= c * b => a <= b
         /\ c > 0 /\ c * a < c * b => a < b
         /\ c * (a + b) = c * a + c * b
<1>1. a * b \in Nat /\ a * b = b * a
  OBVIOUS
<1>2. c * (a + b) = c * a + c * b
  OBVIOUS
<1>3. a <= b => c * a <= c * b
  <2>1. SUFFICES ASSUME a <= b PROVE c * a <= c * b
    OBVIOUS
  <2>2. c * b = c * a + c * (b - a)
    OBVIOUS
  <2>3. b - a \in Nat /\ c * (b - a) \in Nat /\ c * a \in Nat
    BY <2>1
  <2>4. QED
    BY <2>2, <2>3
<1>4. a < b /\ c > 0 => c * a < c * b
  <2>1. SUFFICES ASSUME a < b, c > 0 PROVE c * a < c * b
    OBVIOUS
  <2>2. c * b = c * a + c * (b - a)
    OBVIOUS
  <2>3. b - a > 0 /\ c * (b - a) > 0
    BY <2>1
  <2>4. c * a \in Nat
    OBVIOUS
  <2>5. QED
    BY <2>2, <2>3, <2>4
<1>5. c > 0 /\ c * a <= c * b => a <= b
  <2>1. SUFFICES ASSUME c > 0, a > b PROVE ~(c * a <= c * b)
    OBVIOUS
  <2>2. c * a = c * b + c * (a - b)
    OBVIOUS
  <2>3. a - b > 0 /\ c * (a - b) > 0
    BY <2>1
  <2>4. c * b \in Nat
    OBVIOUS
  <2>5. QED
    BY <2>2, <2>3, <2>4
<1>6. c > 0 /\ c * a < c * b => a < b
  <2>1. SUFFICES ASSUME c > 0, a >= b PROVE ~(c * a < c * b)
    OBVIOUS
  <2>2. c * b <= c * a
    BY <2>1
  <2>3. c * b \in Nat /\ c * a \in Nat
    OBVIOUS
  <2>4. QED
    BY <2>2, <2>3
<1>7. QED
  BY <1>1, <1>2, <1>3, <1>4, <1>5, <1>6

-----------------------------------------------------------------------------
(* The coupon's cents                                                        *)

\* What a spread of a discount owes the items of E, which cost something.
SpreadExactly(cents, totals, E, discount) ==
  /\ \A i \in DOMAIN totals : cents[i] \in Nat /\ (i \notin E => cents[i] = 0)
  /\ \A i \in E : cents[i] <= totals[i]
  /\ SumOver(DOMAIN totals, cents) = discount
  /\ \A i \in E : /\ cents[i] * SumOver(E, totals) < discount * totals[i] + SumOver(E, totals)
                  /\ discount * totals[i] < cents[i] * SumOver(E, totals) + SumOver(E, totals)

\* An item's share in whole cents, and the part of a cent that rounding down takes from it.
Floor(totals, E, discount) == [i \in DOMAIN totals |-> (discount * totals[i]) \div SumOver(E, totals)]
Lost(totals, E, discount)  == [i \in DOMAIN totals |-> (discount * totals[i]) % SumOver(E, totals)]

\* Spread in these terms: one cent more for the first of those that lost most.
LEMMA SpreadIs ==
  ASSUME NEW totals, NEW E, E \subseteq DOMAIN totals, NEW discount
  PROVE  LET floor == Floor(totals, E, discount)
             lost  == Lost(totals, E, discount)
             rem   == discount - SumOver(E, floor)
         IN  \A i \in DOMAIN totals :
               Spread(totals, E, discount)[i] =
                 IF i \notin E THEN 0
                 ELSE IF Cardinality(Before(lost, E, i)) < rem THEN floor[i] + 1 ELSE floor[i]
<1> DEFINE sum == SumOver(E, totals)
           floor == Floor(totals, E, discount)
           lost == Lost(totals, E, discount)
           rem == discount - SumOver(E, floor)
           rank(i) == Cardinality({j \in E : \/ (discount * totals[j]) % sum > (discount * totals[i]) % sum
                                             \/ /\ (discount * totals[j]) % sum = (discount * totals[i]) % sum
                                                /\ j < i})
<1>1. ASSUME NEW i \in E PROVE rank(i) = Cardinality(Before(lost, E, i))
  <2>1. \A j \in E : lost[j] = (discount * totals[j]) % sum
    BY DEF Lost
  <2> HIDE DEF sum, lost
  <2>2. Before(lost, E, i) =
          {j \in E : \/ (discount * totals[j]) % sum > (discount * totals[i]) % sum
                     \/ /\ (discount * totals[j]) % sum = (discount * totals[i]) % sum
                        /\ j < i}
    BY <2>1 DEF Before
  <2>3. QED
    BY <2>2
<1>2. Spread(totals, E, discount) =
        [i \in DOMAIN totals |->
           IF i \notin E THEN 0 ELSE IF rank(i) < rem THEN floor[i] + 1 ELSE floor[i]]
  BY DEF Spread, Floor
<1>3. QED
  <2> HIDE DEF rank, rem, floor, lost
  <2>1. ASSUME NEW i \in DOMAIN totals
        PROVE  Spread(totals, E, discount)[i] =
                 IF i \notin E THEN 0
                 ELSE IF Cardinality(Before(lost, E, i)) < rem THEN floor[i] + 1 ELSE floor[i]
    BY <1>1, <1>2
  <2>2. QED
    BY <2>1 DEF rem, floor, lost

\* What rounding down leaves, in parts of a cent.
LEMMA Remainders ==
  ASSUME NEW totals, IsFiniteSet(DOMAIN totals), NEW E, E \subseteq DOMAIN totals, E # {},
         \A i \in E : totals[i] \in Nat \ {0},
         NEW discount \in Nat, discount <= SumOver(E, totals)
  PROVE  LET sum   == SumOver(E, totals)
             floor == Floor(totals, E, discount)
             lost  == Lost(totals, E, discount)
             rem   == discount - SumOver(E, floor)
         IN  /\ IsFiniteSet(E) /\ sum \in Nat /\ sum > 0
             /\ \A i \in E : /\ floor[i] \in Nat /\ lost[i] \in Nat /\ lost[i] < sum
                             /\ discount * totals[i] = sum * floor[i] + lost[i]
             /\ SumOver(E, floor) \in Nat /\ SumOver(E, lost) \in Nat
             /\ rem \in Nat /\ SumOver(E, lost) = sum * rem
<1> DEFINE sum == SumOver(E, totals)
           floor == Floor(totals, E, discount)
           lost == Lost(totals, E, discount)
           rem == discount - SumOver(E, floor)
<1>1. IsFiniteSet(E)
  BY FS_Subset
<1>2. sum \in Nat /\ sum > 0
  <2>1. PICK x \in E : TRUE
    OBVIOUS
  <2>2. sum = totals[x] + SumOver(E \ {x}, totals)
    BY <1>1, SumTakeOut
  <2>3. IsFiniteSet(E \ {x})
    BY <1>1, FS_Subset
  <2>4. SumOver(E \ {x}, totals) \in Nat
    BY <2>3, SumTakeOut
  <2>5. QED
    BY <2>2, <2>4
<1>3. ASSUME NEW i \in E
      PROVE  /\ floor[i] \in Nat /\ lost[i] \in Nat /\ lost[i] < sum
             /\ discount * totals[i] = sum * floor[i] + lost[i]
  <2> DEFINE p == discount * totals[i]
  <2>1. p \in Nat
    BY Products
  <2>2. floor[i] = p \div sum /\ lost[i] = p % sum
    BY DEF Floor, Lost
  <2> HIDE DEF p, sum, floor, lost
  <2>3. p \div sum \in Nat /\ p % sum \in Nat /\ p % sum < sum /\ p = sum * (p \div sum) + (p % sum)
    BY <1>2, <2>1, Division
  <2>4. p = discount * totals[i]
    BY DEF p
  <2>5. QED
    BY <2>2, <2>3, <2>4
<1>4. SumOver(E, floor) \in Nat /\ SumOver(E, lost) \in Nat
  <2> HIDE DEF floor, lost, sum
  <2> QED
    BY <1>1, <1>3, SumTakeOut
<1> DEFINE whole == [i \in E |-> sum * floor[i]]
           exact == [i \in E |-> discount * totals[i]]
<1>5. SumOver(E, exact) = discount * sum
  <2>1. \A i \in E : totals[i] \in Nat /\ exact[i] = discount * totals[i]
    OBVIOUS
  <2> HIDE DEF exact
  <2>2. QED
    BY <1>1, <2>1, SumScales
<1>6. SumOver(E, whole) = sum * SumOver(E, floor)
  <2>1. \A i \in E : floor[i] \in Nat /\ whole[i] = sum * floor[i]
    BY <1>3
  <2> HIDE DEF whole, floor, sum
  <2>2. QED
    BY <1>1, <1>2, <2>1, SumScales
<1>7. SumOver(E, exact) = SumOver(E, whole) + SumOver(E, lost)
  <2>1. \A i \in E : whole[i] = sum * floor[i] /\ exact[i] = discount * totals[i]
    OBVIOUS
  <2> HIDE DEF whole, floor, sum, exact, lost
  <2>2. \A i \in E : whole[i] \in Nat /\ lost[i] \in Nat /\ exact[i] = whole[i] + lost[i]
    BY <1>2, <1>3, <2>1, Products
  <2>3. QED
    BY <1>1, <2>2, SumAdds
<1>8. rem \in Nat /\ SumOver(E, lost) = sum * rem
  <2> DEFINE F == SumOver(E, floor)
             L == SumOver(E, lost)
  <2>1. discount * sum = sum * F + L /\ F \in Nat /\ L \in Nat
    BY <1>4, <1>5, <1>6, <1>7
  <2>2. rem = discount - F
    OBVIOUS
  <2> HIDE DEF F, L, rem, sum, whole, exact, floor, lost
  <2>3. sum * F <= sum * discount /\ discount * sum = sum * discount
    BY <1>2, <2>1, Products
  <2>4. F <= discount
    BY <1>2, <2>1, <2>3, Products
  <2>5. rem \in Nat /\ discount = F + rem
    BY <2>1, <2>2, <2>4
  <2>6. sum * discount = sum * F + sum * rem
    BY <1>2, <2>1, <2>5, Products
  <2>7. sum * F \in Nat /\ sum * rem \in Nat
    BY <1>2, <2>1, <2>5, Products
  <2>8. L = sum * rem
    BY <2>1, <2>3, <2>6, <2>7
  <2>9. QED
    BY <2>5, <2>8 DEF L
<1>9. QED
  BY <1>1, <1>2, <1>3, <1>4, <1>8

\* The cents that rounding down leaves are fewer than the items that lost by it, and
\* they go to some of these.
LEMMA RemainderGoesToLosers ==
  ASSUME NEW E, IsFiniteSet(E), E # {}, E \subseteq Nat, NEW lost, NEW sum \in Nat, sum > 0,
         \A i \in E : lost[i] \in Nat /\ lost[i] < sum,
         NEW rem \in Nat, SumOver(E, lost) = sum * rem
  PROVE  /\ rem < Cardinality(E)
         /\ \A i \in E : Cardinality(Before(lost, E, i)) < rem => lost[i] > 0
<1> DEFINE P == {i \in E : lost[i] > 0}
           cap == [i \in E |-> IF i \in P THEN sum ELSE 0]
           one == [i \in E |-> 1]
<1>0. IsFiniteSet(P) /\ Cardinality(P) \in Nat /\ Cardinality(P) <= Cardinality(E) /\ Cardinality(E) \in Nat
  BY FS_Subset, FS_CardinalityType
<1>1. SumOver(P, lost) = sum * rem /\ SumOver(P, lost) \in Nat
  <2>1. \A i \in E : lost[i] \in Nat /\ (i \notin P => lost[i] = 0)
    OBVIOUS
  <2>2. P \in SUBSET E
    OBVIOUS
  <2> HIDE DEF P
  <2>3. QED
    BY <1>0, <2>1, <2>2, SumSkips, SumTakeOut
<1>2. SumOver(P, cap) = sum * Cardinality(P)
  <2>1. \A i \in P : one[i] = 1 /\ cap[i] = sum * 1
    OBVIOUS
  <2> HIDE DEF P, cap, one
  <2>2. SumOver(P, one) = Cardinality(P)
    BY <1>0, <2>1, SumCounts
  <2>3. \A i \in P : one[i] \in Nat /\ cap[i] = sum * one[i]
    BY <2>1
  <2>4. SumOver(P, cap) = sum * SumOver(P, one)
    BY <1>0, <2>3, SumScales
  <2>5. QED
    BY <2>2, <2>4
<1>3. SumOver(P, lost) <= SumOver(P, cap) /\ (P # {} => SumOver(P, lost) < SumOver(P, cap))
  <2>1. \A i \in P : lost[i] \in Nat /\ cap[i] \in Nat /\ lost[i] <= cap[i] /\ lost[i] < cap[i]
    OBVIOUS
  <2> HIDE DEF P, cap
  <2>2. QED
    BY <1>0, <2>1, SumOrders
<1> HIDE DEF cap, one
<1>4. rem <= Cardinality(P)
  <2>1. sum * rem <= sum * Cardinality(P)
    BY <1>1, <1>2, <1>3
  <2> HIDE DEF P
  <2>2. QED
    BY <1>0, <2>1, Products
<1>5. rem < Cardinality(E)
  <2>1. CASE P = {}
    <3>1. Cardinality(P) = 0 /\ Cardinality(E) # 0
      BY <2>1, FS_EmptySet
    <3>2. QED
      BY <1>0, <1>4, <3>1
  <2>2. CASE P # {}
    <3>1. sum * rem < sum * Cardinality(P)
      BY <1>1, <1>2, <1>3, <2>2
    <3> HIDE DEF P
    <3>2. rem < Cardinality(P)
      BY <1>0, <3>1, Products
    <3>3. QED
      BY <1>0, <3>2
  <2>3. QED
    BY <2>1, <2>2
<1>6. ASSUME NEW i \in E, Cardinality(Before(lost, E, i)) < rem, lost[i] = 0 PROVE FALSE
  <2>1. P \subseteq Before(lost, E, i) /\ Before(lost, E, i) \subseteq E
    BY <1>6 DEF Before
  <2>2. IsFiniteSet(Before(lost, E, i)) /\ Cardinality(Before(lost, E, i)) \in Nat
    BY <2>1, FS_Subset, FS_CardinalityType
  <2>3. Cardinality(P) <= Cardinality(Before(lost, E, i))
    BY <2>1, <2>2, FS_Subset
  <2>4. QED
    BY <1>0, <1>4, <1>6, <2>2, <2>3
<1>7. QED
  BY <1>5, <1>6

\* Largest remainder is fair: nothing is gained or lost, and no item is off by a cent.
LEMMA SpreadIsExact ==
  ASSUME NEW totals, IsFiniteSet(DOMAIN totals), NEW E, E \subseteq DOMAIN totals, E # {},
         E \subseteq Nat, \A i \in E : totals[i] \in Nat \ {0},
         NEW discount \in Nat, discount <= SumOver(E, totals)
  PROVE  SpreadExactly(Spread(totals, E, discount), totals, E, discount)
<1> DEFINE sum == SumOver(E, totals)
           floor == Floor(totals, E, discount)
           lost == Lost(totals, E, discount)
           rem == discount - SumOver(E, floor)
           cents == Spread(totals, E, discount)
           G == {i \in E : Cardinality(Before(lost, E, i)) < rem}
           mark == [i \in E |-> IF i \in G THEN 1 ELSE 0]
<1>1. /\ IsFiniteSet(E) /\ sum \in Nat /\ sum > 0
      /\ \A i \in E : /\ floor[i] \in Nat /\ lost[i] \in Nat /\ lost[i] < sum
                      /\ discount * totals[i] = sum * floor[i] + lost[i]
      /\ SumOver(E, floor) \in Nat /\ rem \in Nat /\ SumOver(E, lost) = sum * rem
  BY Remainders
<1>2. /\ rem < Cardinality(E)
      /\ \A i \in G : lost[i] > 0
  <2> HIDE DEF sum, floor, lost, rem
  <2> QED
    BY <1>1, RemainderGoesToLosers
<1>3. Cardinality(G) = rem
  <2>1. Cardinality(E) \in Nat
    BY <1>1, FS_CardinalityType
  <2> HIDE DEF sum, floor, lost, rem
  <2>2. QED
    BY <1>1, <1>2, <2>1, FirstOnes
<1>4. \A i \in DOMAIN totals :
        cents[i] = IF i \notin E THEN 0 ELSE IF i \in G THEN floor[i] + 1 ELSE floor[i]
  <2>1. \A i \in DOMAIN totals :
          cents[i] = IF i \notin E THEN 0
                     ELSE IF Cardinality(Before(lost, E, i)) < rem THEN floor[i] + 1 ELSE floor[i]
    BY SpreadIs
  <2> HIDE DEF sum, floor, lost, rem, cents
  <2>2. QED
    BY <2>1
<1> HIDE DEF sum, floor, lost, rem, cents, G
<1>5. \A i \in DOMAIN totals : cents[i] \in Nat /\ (i \notin E => cents[i] = 0)
  BY <1>1, <1>4
<1>6. SumOver(DOMAIN totals, cents) = discount
  <2>1. SumOver(DOMAIN totals, cents) = SumOver(E, cents)
    BY <1>5, SumSkips
  <2>2. \A i \in E : floor[i] \in Nat /\ mark[i] \in Nat /\ cents[i] = floor[i] + mark[i]
    BY <1>1, <1>4
  <2>3. SumOver(E, cents) = SumOver(E, floor) + SumOver(E, mark)
    <3> HIDE DEF mark
    <3> QED
      BY <1>1, <2>2, SumAdds
  <2>4. SumOver(E, mark) = rem
    <3>1. G \in SUBSET E /\ IsFiniteSet(G)
      BY <1>1, FS_Subset DEF G
    <3>2. \A i \in E : mark[i] \in Nat /\ (i \notin G => mark[i] = 0)
      OBVIOUS
    <3>3. \A i \in G : mark[i] = 1
      BY <3>1
    <3> HIDE DEF mark
    <3>4. SumOver(E, mark) = SumOver(G, mark)
      BY <1>1, <3>1, <3>2, SumSkips
    <3>5. SumOver(G, mark) = Cardinality(G)
      BY <3>1, <3>3, SumCounts
    <3>6. QED
      BY <1>3, <3>4, <3>5
  <2>5. QED
    BY <1>1, <2>1, <2>3, <2>4 DEF rem
<1>7. ASSUME NEW i \in E
      PROVE  /\ cents[i] <= totals[i]
             /\ cents[i] * sum < discount * totals[i] + sum
             /\ discount * totals[i] < cents[i] * sum + sum
  <2> DEFINE t == totals[i]
             f == floor[i]
             l == lost[i]
             p == discount * t
             q == sum * f
  <2>1. /\ f \in Nat /\ l \in Nat /\ l < sum /\ p = q + l /\ t \in Nat /\ i \in DOMAIN totals
    BY <1>1
  <2>2. q \in Nat /\ p \in Nat
    BY <1>1, <2>1, Products
  <2>3. p <= sum * t
    <3>1. discount <= sum
      BY DEF sum
    <3> HIDE DEF t
    <3>2. t * discount <= t * sum /\ t * discount = discount * t /\ t * sum = sum * t
      BY <1>1, <2>1, <3>1, Products
    <3>3. QED
      BY <3>2
  <2>4. sum * (f + 1) = q + sum /\ (f + 1) * sum = sum * (f + 1) /\ f * sum = q
    <3> HIDE DEF f
    <3>1. f + 1 \in Nat /\ 1 \in Nat /\ sum * 1 = sum
      BY <1>1, <2>1
    <3>2. QED
      BY <1>1, <2>1, <3>1, Products
  <2>5. CASE i \in G
    <3>1. cents[i] = f + 1 /\ l > 0
      BY <1>2, <1>4, <2>1, <2>5
    <3>2. f < t
      <4>1. q < sum * t
        <5>1. sum * t \in Nat
          BY <1>1, <2>1, Products
        <5> HIDE DEF q, p, f, l, t
        <5>2. QED
          BY <2>1, <2>2, <2>3, <3>1, <5>1
      <4> HIDE DEF f, t
      <4>2. QED
        BY <1>1, <2>1, <4>1, Products
    <3>3. cents[i] * sum = q + sum
      BY <2>4, <3>1
    <3> HIDE DEF q, p, f, l, t
    <3>4. cents[i] <= t /\ cents[i] * sum < p + sum /\ p < cents[i] * sum + sum
      BY <1>1, <2>1, <2>2, <3>1, <3>2, <3>3
    <3>5. QED
      BY <3>4 DEF p, t
  <2>6. CASE i \notin G
    <3>1. cents[i] = f
      BY <1>4, <2>1, <2>6
    <3>2. f <= t
      <4>1. q <= sum * t
        <5>1. sum * t \in Nat
          BY <1>1, <2>1, Products
        <5> HIDE DEF q, p, f, l, t
        <5>2. QED
          BY <2>1, <2>2, <2>3, <5>1
      <4> HIDE DEF f, t
      <4>2. QED
        BY <1>1, <2>1, <4>1, Products
    <3>3. cents[i] * sum = q
      BY <2>4, <3>1
    <3> HIDE DEF q, p, f, l, t
    <3>4. cents[i] <= t /\ cents[i] * sum < p + sum /\ p < cents[i] * sum + sum
      BY <1>1, <2>1, <2>2, <3>1, <3>2, <3>3
    <3>5. QED
      BY <3>4 DEF p, t
  <2>7. QED
    BY <2>5, <2>6
<1>8. QED
  BY <1>5, <1>6, <1>7 DEF SpreadExactly, cents, sum

\* A set of numbers has a smallest.
LEMMA Smallest ==
  ASSUME NEW T, T \subseteq Nat, T # {}
  PROVE  Min(T) \in T /\ \A x \in T : Min(T) <= x
<1>1. IsWellFoundedOn(OpToRel(<, Nat), Nat)
  BY NatLessThanWellFounded
<1>2. PICK m \in T : \A e \in T : <<e, m>> \notin OpToRel(<, Nat)
  BY <1>1, WFMin
<1>3. ASSUME NEW e \in T PROVE m <= e
  <2>1. SUFFICES ASSUME e < m PROVE FALSE
    OBVIOUS
  <2>2. <<e, m>> \in OpToRel(<, Nat)
    BY <2>1 DEF OpToRel
  <2>3. QED
    BY <1>2, <2>2
<1>4. QED
  BY <1>3 DEF Min

\* The first of the dearest items is one of them.
LEMMA DearestIs ==
  ASSUME NEW totals, NEW E, IsFiniteSet(E), E \subseteq Nat, E # {}, \A i \in E : totals[i] \in Nat
  PROVE  Dearest(totals, E) \in E /\ \A j \in E : totals[j] <= totals[Dearest(totals, E)]
<1> DEFINE T == {totals[i] : i \in E}
           D == {i \in E : \A j \in E : totals[j] <= totals[i]}
<1>1. \A x \in T : x <= SumOver(E, totals)
  <2>1. SUFFICES ASSUME NEW i \in E PROVE totals[i] <= SumOver(E, totals)
    OBVIOUS
  <2>2. SumOver(E, totals) = totals[i] + SumOver(E \ {i}, totals)
    BY SumTakeOut
  <2>3. IsFiniteSet(E \ {i})
    BY FS_Subset
  <2>4. SumOver(E \ {i}, totals) \in Nat
    BY <2>3, SumTakeOut
  <2>5. QED
    BY <2>2, <2>4
<1>2. SumOver(E, totals) \in Nat
  BY SumTakeOut
<1>3. PICK m \in T : \A x \in T : x <= m
  <2>1. T \subseteq Nat /\ T # {}
    OBVIOUS
  <2> HIDE DEF T
  <2>2. QED
    BY <1>1, <1>2, <2>1, Largest
<1>4. D # {} /\ D \subseteq Nat
  BY <1>3
<1>5. Min(D) \in D
  <2> HIDE DEF D
  <2> QED
    BY <1>4, Smallest
<1>6. Dearest(totals, E) = Min(D)
  BY DEF Dearest
<1>7. QED
  BY <1>5, <1>6

\* A percentage of a price, rounded, is no more than the price.
LEMMA RoundPercent ==
  ASSUME NEW a \in Nat, NEW p \in 0..100
  PROVE  /\ Round(a * p, 100) \in Nat /\ Round(a * p, 100) <= a
         /\ (a = 0 \/ p = 0 => Round(a * p, 100) = 0)
<1> DEFINE q == a * p
<1>1. q \in Nat /\ q <= 100 * a /\ (a = 0 \/ p = 0 => q = 0)
  <2>1. p \in Nat /\ p <= 100 /\ 100 \in Nat
    OBVIOUS
  <2>2. a * p <= a * 100 /\ a * 100 = 100 * a /\ a * p \in Nat
    BY <2>1, Products
  <2>3. a = 0 \/ p = 0 => a * p = 0
    OBVIOUS
  <2>4. QED
    BY <2>2, <2>3
<1>2. Round(q, 100) = (2 * q + 100) \div 200
  BY DEF Round
<1> DEFINE r == (2 * q + 100) \div 200
           l == (2 * q + 100) % 200
<1>3. r \in Nat /\ l \in Nat /\ l < 200 /\ 2 * q + 100 = 200 * r + l
  <2> HIDE DEF q
  <2>1. 2 * q + 100 \in Nat /\ 200 \in Nat /\ 200 > 0
    BY <1>1
  <2>2. QED
    BY <2>1, Division
<1> HIDE DEF q, r, l
<1>4. r <= a /\ (q = 0 => r = 0)
  BY <1>1, <1>3
<1>5. Round(q, 100) = r
  BY <1>2 DEF r
<1>6. QED
  BY <1>1, <1>3, <1>4, <1>5 DEF q

\* What an allocation owes its items, whatever they cost.
AllocationFits(cents, totals, marked, offer) ==
  LET eligible == {i \in marked : totals[i] > 0}
      sum == SumOver(eligible, totals)
  IN  /\ DOMAIN cents = DOMAIN totals
      /\ \A i \in DOMAIN totals : /\ cents[i] \in Nat /\ cents[i] <= totals[i]
                                  /\ i \notin marked => cents[i] = 0
      /\ offer.scope = "order_total" =>
           SpreadExactly(cents, totals, eligible, Round(sum * offer.percent, 100))
      /\ offer.scope = "highest_eligible_item" =>
           \A i, j \in eligible :
             cents[i] > 0 => totals[j] <= totals[i] /\ (j # i => cents[j] = 0)

\* Either scope's allocation fits.
LEMMA AllocationIs ==
  ASSUME NEW totals, IsFiniteSet(DOMAIN totals), DOMAIN totals \subseteq Nat,
         \A i \in DOMAIN totals : totals[i] \in Nat,
         NEW marked, marked \subseteq DOMAIN totals,
         NEW offer, offer.percent \in 0..100, offer.scope \in Scopes
  PROVE  AllocationFits(computeCouponAllocation(offer, totals, marked), totals, marked, offer)
<1> DEFINE cents == computeCouponAllocation(offer, totals, marked)
           eligible == {i \in marked : totals[i] > 0}
           sum == SumOver(eligible, totals)
           percent == offer.percent
           discount == Round(sum * percent, 100)
<1>1. /\ eligible \subseteq DOMAIN totals /\ IsFiniteSet(eligible) /\ eligible \subseteq Nat
      /\ \A i \in eligible : totals[i] \in Nat \ {0}
  <2>1. eligible \subseteq DOMAIN totals /\ \A i \in eligible : totals[i] \in Nat \ {0}
    OBVIOUS
  <2> HIDE DEF eligible
  <2>2. QED
    BY <2>1, FS_Subset
<1>2. sum \in Nat
  <2> HIDE DEF eligible
  <2> QED
    BY <1>1, SumTakeOut
<1>3. discount \in Nat /\ discount <= sum /\ (sum = 0 \/ percent = 0 => discount = 0)
  <2>1. percent \in 0..100
    OBVIOUS
  <2> HIDE DEF sum, percent
  <2>2. QED
    BY <1>2, <2>1, RoundPercent
<1>4. CASE eligible = {} \/ percent = 0
  <2>1. cents = [i \in DOMAIN totals |-> 0]
    BY <1>4 DEF computeCouponAllocation
  <2>2. SpreadExactly(cents, totals, eligible, discount)
    <3>1. discount = 0
      <4>1. eligible = {} => sum = 0
        BY SumEmpty
      <4>2. QED
        BY <1>3, <1>4, <4>1
    <3>2. SumOver(DOMAIN totals, cents) = 0
      <4>1. \A i \in DOMAIN totals : cents[i] \in Nat /\ (i \notin {} => cents[i] = 0)
        BY <2>1
      <4>2. SumOver(DOMAIN totals, cents) = SumOver({}, cents)
        <5> HIDE DEF cents
        <5> QED
          BY <4>1, SumSkips
      <4>3. QED
        BY <4>2, SumEmpty
    <3>3. ASSUME NEW i \in eligible
          PROVE  /\ cents[i] = 0 /\ cents[i] <= totals[i]
                 /\ cents[i] * sum = 0 /\ discount * totals[i] = 0 /\ sum > 0
      <4>1. cents[i] = 0 /\ totals[i] \in Nat \ {0}
        BY <1>1, <2>1
      <4>2. sum = totals[i] + SumOver(eligible \ {i}, totals)
        <5> HIDE DEF eligible
        <5> QED
          BY <1>1, SumTakeOut
      <4>3. SumOver(eligible \ {i}, totals) \in Nat
        <5> HIDE DEF eligible
        <5>1. IsFiniteSet(eligible \ {i})
          BY <1>1, FS_Subset
        <5>2. QED
          BY <1>1, <5>1, SumTakeOut
      <4>4. 0 * sum = 0 /\ 0 * totals[i] = 0
        BY <1>2, <4>1
      <4> HIDE DEF sum, eligible, cents, discount
      <4>5. QED
        BY <3>1, <4>1, <4>2, <4>3, <4>4
    <3>4. \A i \in DOMAIN totals : cents[i] = 0
      BY <2>1
    <3>5. ASSUME NEW i \in eligible
          PROVE  /\ cents[i] * sum < discount * totals[i] + sum
                 /\ discount * totals[i] < cents[i] * sum + sum
      <4>1. cents[i] * sum = 0 /\ discount * totals[i] = 0 /\ sum > 0
        BY <3>3
      <4> HIDE DEF sum, eligible, cents, discount
      <4>2. QED
        BY <1>2, <4>1
    <3> HIDE DEF sum, eligible, cents, discount
    <3>6. QED
      BY <3>1, <3>2, <3>3, <3>4, <3>5 DEF SpreadExactly, sum
  <2>3. QED
    <3>1. \A i \in DOMAIN totals : cents[i] = 0 /\ DOMAIN cents = DOMAIN totals
      BY <2>1
    <3>2. DOMAIN cents = DOMAIN totals
      BY <2>1
    <3>3. \A i \in eligible : cents[i] = 0
      BY <1>1, <3>1
    <3>4. \A i \in DOMAIN totals : cents[i] \in Nat /\ cents[i] <= totals[i]
      <4> HIDE DEF cents
      <4> QED
        BY <3>1
    <3>5. \A i, j \in eligible :
            cents[i] > 0 => totals[j] <= totals[i] /\ (j # i => cents[j] = 0)
      <4> HIDE DEF cents, eligible
      <4> QED
        BY <3>3
    <3>6. QED
      BY <2>2, <3>1, <3>2, <3>4, <3>5 DEF AllocationFits
<1>5. CASE ~(eligible = {} \/ percent = 0) /\ offer.scope = "order_total"
  <2>1. cents = Spread(totals, eligible, discount)
    BY <1>5 DEF computeCouponAllocation
  <2>2. DOMAIN cents = DOMAIN totals
    BY <2>1 DEF Spread
  <2>3. eligible # {}
    BY <1>5
  <2>4. SpreadExactly(cents, totals, eligible, discount)
    <3> HIDE DEF eligible, cents
    <3>1. discount <= SumOver(eligible, totals)
      BY <1>3 DEF sum
    <3> HIDE DEF discount, sum
    <3>2. SpreadExactly(Spread(totals, eligible, discount), totals, eligible, discount)
      BY <1>1, <1>3, <2>3, <3>1, SpreadIsExact
    <3>3. QED
      BY <2>1, <3>2
  <2>5. ASSUME NEW i \in DOMAIN totals
        PROVE  cents[i] \in Nat /\ cents[i] <= totals[i] /\ (i \notin marked => cents[i] = 0)
    <3>1. i \notin marked => i \notin eligible
      OBVIOUS
    <3> HIDE DEF eligible, cents, discount
    <3>2. /\ cents[i] \in Nat /\ (i \notin eligible => cents[i] = 0)
          /\ i \in eligible => cents[i] <= totals[i]
      BY <2>4 DEF SpreadExactly
    <3>3. QED
      BY <3>1, <3>2
  <2>6. QED
    <3>1. offer.scope # "highest_eligible_item"
      BY <1>5
    <3>2. QED
      BY <2>2, <2>4, <2>5, <3>1 DEF AllocationFits
<1>6. CASE ~(eligible = {} \/ percent = 0) /\ offer.scope = "highest_eligible_item"
  <2> DEFINE top == Dearest(totals, eligible)
             off == Round(totals[top] * percent, 100)
  <2>1. cents = [i \in DOMAIN totals |-> IF i = top THEN off ELSE 0]
    BY <1>6 DEF computeCouponAllocation
  <2>2. top \in eligible /\ \A j \in eligible : totals[j] <= totals[top]
    <3> HIDE DEF eligible
    <3> QED
      BY <1>1, <1>6, DearestIs
  <2>3. off \in Nat /\ off <= totals[top]
    <3>1. percent \in 0..100 /\ totals[top] \in Nat
      BY <1>1, <2>2
    <3> HIDE DEF top, percent
    <3>2. QED
      BY <3>1, RoundPercent
  <2> HIDE DEF off, top
  <2>4. \A i \in DOMAIN totals : cents[i] = IF i = top THEN off ELSE 0
    BY <2>1
  <2>5. DOMAIN cents = DOMAIN totals
    BY <2>1
  <2>6. top \in marked
    BY <2>2
  <2> HIDE DEF cents, eligible, sum
  <2>7. \A i \in DOMAIN totals : cents[i] \in Nat /\ cents[i] <= totals[i] /\ (i \notin marked => cents[i] = 0)
    BY <2>3, <2>4, <2>6
  <2>8. ASSUME NEW i \in eligible, NEW j \in eligible, cents[i] > 0
        PROVE  totals[j] <= totals[i] /\ (j # i => cents[j] = 0)
    <3>1. i = top
      BY <1>1, <2>4, <2>8
    <3>2. QED
      BY <1>1, <2>2, <2>4, <3>1
  <2>9. QED
    <3>1. offer.scope # "order_total"
      BY <1>6
    <3>2. QED
      BY <2>5, <2>7, <2>8, <3>1 DEF cents, eligible, AllocationFits
<1>7. QED
  BY <1>4, <1>5, <1>6 DEF Scopes

-----------------------------------------------------------------------------
(* Baskets                                                                   *)

\* The baskets and the coupons priceDraft is called with.
IsBasket(items) ==
  IsFiniteSet(DOMAIN items) /\ DOMAIN items \subseteq Nat /\ \A i \in DOMAIN items : items[i] \in Item

IsCoupon(offer) == offer.percent \in 0..100 /\ offer.scope \in Scopes

\* The sum of a function is the sum over its domain.
LEMMA SumIs ==
  ASSUME NEW f, NEW D, DOMAIN f = D
  PROVE  Sum(f) = SumOver(D, f)
  BY DEF Sum

\* A coupon's cents are spread without gain or loss, for every percentage.
THEOREM CentsAreExact ==
  \A items, offer : IsBasket(items) /\ IsCoupon(offer) => Exact(items, offer)
<1> SUFFICES ASSUME NEW items, NEW offer, IsBasket(items), IsCoupon(offer) PROVE Exact(items, offer)
  OBVIOUS
<1> DEFINE totals == [i \in DOMAIN items |-> items[i].base]
           marked == {i \in DOMAIN items : items[i].eligible}
           cents == computeCouponAllocation(offer, totals, marked)
           sum == SumOver(marked, totals)
           discount == Round(sum * offer.percent, 100)
           eligible == {i \in marked : totals[i] > 0}
<1>1. /\ DOMAIN totals = DOMAIN items /\ IsFiniteSet(DOMAIN totals) /\ DOMAIN totals \subseteq Nat
      /\ \A i \in DOMAIN totals : totals[i] \in Nat \ {0}
      /\ marked \subseteq DOMAIN totals
  BY DEF IsBasket, Item
<1>2. eligible = marked
  <2> HIDE DEF totals, marked
  <2> QED
    BY <1>1
<1>3. /\ DOMAIN cents = DOMAIN totals
      /\ \A i \in DOMAIN totals : /\ cents[i] \in Nat /\ cents[i] <= totals[i]
                                  /\ i \notin marked => cents[i] = 0
      /\ offer.scope = "order_total" => SpreadExactly(cents, totals, marked, discount)
      /\ offer.scope = "highest_eligible_item" =>
           \A i, j \in marked : cents[i] > 0 => totals[j] <= totals[i] /\ (j # i => cents[j] = 0)
  <2> HIDE DEF totals, marked
  <2>1. AllocationFits(cents, totals, marked, offer)
    BY <1>1, AllocationIs DEF IsCoupon
  <2>2. SumOver(eligible, totals) = sum
    BY <1>2
  <2> HIDE DEF cents
  <2>3. QED
    BY <1>2, <2>1, <2>2 DEF AllocationFits
<1>4. offer.scope = "order_total" =>
        /\ Sum(cents) = discount
        /\ \A i \in marked : /\ cents[i] * sum < discount * totals[i] + sum
                             /\ discount * totals[i] < cents[i] * sum + sum
  <2>1. Sum(cents) = SumOver(DOMAIN totals, cents)
    BY <1>3, SumIs
  <2> HIDE DEF totals, marked, cents, discount
  <2>2. QED
    BY <1>3, <2>1 DEF SpreadExactly
<1>5. \A i \in DOMAIN items : cents[i] <= totals[i] /\ (i \notin marked => cents[i] = 0)
  <2> HIDE DEF totals, marked, cents
  <2> QED
    BY <1>1, <1>3
<1>6. QED
  <2>1. offer.scope = "highest_eligible_item" =>
          \A i, j \in marked : cents[i] > 0 => totals[j] <= totals[i] /\ (j # i => cents[j] = 0)
    BY <1>3
  <2>2. QED
    BY <1>4, <1>5, <2>1, Zenon DEF Exact

\* What a term costs is what its discount leaves.
LEMMA TermIs ==
  ASSUME NEW item \in Item, NEW price \in Nat
  PROVE  LET t == Term(item, price) IN
         /\ t.subtotal \in Nat /\ t.discount \in Nat /\ t.total \in Nat
         /\ t.subtotal = t.discount + t.total
<1>1. CASE item.fixed
  BY <1>1 DEF Term, computeFixedTermPricing
<1>2. CASE ~item.fixed
  <2> DEFINE subtotal == price * item.months
             discount == Round(subtotal * item.percent, 100)
  <2>1. item.months \in Nat /\ item.percent \in 0..100
    BY DEF Item
  <2>2. subtotal \in Nat
    BY <2>1, Products
  <2>3. discount \in Nat /\ discount <= subtotal
    <3> HIDE DEF subtotal
    <3> QED
      BY <2>1, <2>2, RoundPercent
  <2>4. Term(item, price) = [subtotal |-> subtotal, discount |-> discount, total |-> subtotal - discount]
    BY <1>2 DEF Term, computeTermPricing
  <2> HIDE DEF subtotal, discount
  <2>5. QED
    BY <2>2, <2>3, <2>4
<1>3. QED
  BY <1>1, <1>2

\* No coupon is larger than its item.
LEMMA PricedIs ==
  ASSUME NEW items, NEW prices, NEW offer, IsBasket(items), IsCoupon(offer),
         \A i \in DOMAIN items : prices[i] \in Nat
  PROVE  LET half == Priced(items, prices, offer) IN
         /\ DOMAIN half.coupons = DOMAIN items /\ DOMAIN half.final = DOMAIN items
         /\ \A i \in DOMAIN items :
              /\ half.terms[i].subtotal \in Nat /\ half.terms[i].discount \in Nat
              /\ half.terms[i].total \in Nat /\ half.coupons[i] \in Nat /\ half.final[i] \in Nat
              /\ half.terms[i].subtotal = half.terms[i].discount + half.terms[i].total
              /\ half.terms[i].total = half.final[i] + half.coupons[i]
<1> DEFINE terms == [i \in DOMAIN items |-> Term(items[i], prices[i])]
           totals == [i \in DOMAIN items |-> terms[i].total]
           marked == {i \in DOMAIN items : items[i].eligible}
           coupons == computeCouponAllocation(offer, totals, marked)
           final == [i \in DOMAIN items |-> AtLeastZero(terms[i].total, coupons[i])]
           half == Priced(items, prices, offer)
<1>1. half.terms = terms /\ half.coupons = coupons /\ half.final = final
  BY DEF Priced, Allocated
<1>2. \A i \in DOMAIN items : /\ terms[i].subtotal \in Nat /\ terms[i].discount \in Nat
                              /\ terms[i].total \in Nat
                              /\ terms[i].subtotal = terms[i].discount + terms[i].total
  <2>1. SUFFICES ASSUME NEW i \in DOMAIN items
                 PROVE  /\ terms[i].subtotal \in Nat /\ terms[i].discount \in Nat
                        /\ terms[i].total \in Nat
                        /\ terms[i].subtotal = terms[i].discount + terms[i].total
    BY Zenon
  <2>2. terms[i] = Term(items[i], prices[i]) /\ items[i] \in Item /\ prices[i] \in Nat
    BY DEF IsBasket
  <2> HIDE DEF terms
  <2>3. QED
    BY <2>2, TermIs
<1> HIDE DEF terms
<1>3. /\ DOMAIN coupons = DOMAIN items
      /\ \A i \in DOMAIN items : coupons[i] \in Nat /\ coupons[i] <= terms[i].total
  <2>1. /\ DOMAIN totals = DOMAIN items /\ IsFiniteSet(DOMAIN totals) /\ DOMAIN totals \subseteq Nat
        /\ \A i \in DOMAIN totals : totals[i] \in Nat /\ totals[i] = terms[i].total
        /\ marked \subseteq DOMAIN totals
    BY <1>2 DEF IsBasket
  <2> HIDE DEF totals, marked
  <2>2. AllocationFits(coupons, totals, marked, offer)
    BY <2>1, AllocationIs DEF IsCoupon
  <2> HIDE DEF coupons
  <2>3. QED
    BY <2>1, <2>2 DEF AllocationFits
<1> HIDE DEF coupons, half
<1>4. DOMAIN final = DOMAIN items /\ \A i \in DOMAIN items :
        final[i] \in Nat /\ terms[i].total = final[i] + coupons[i]
  <2>1. \A i \in DOMAIN items : final[i] = IF terms[i].total > coupons[i] THEN terms[i].total - coupons[i] ELSE 0
    BY DEF AtLeastZero
  <2>2. DOMAIN final = DOMAIN items
    OBVIOUS
  <2> HIDE DEF final
  <2>3. QED
    BY <1>2, <1>3, <2>1, <2>2
<1> HIDE DEF final
<1>5. QED
  BY <1>1, <1>2, <1>3, <1>4 DEF half

\* The sums of a half of a draft.
HalfSums(half, items) ==
  LET subtotal == Sum([i \in DOMAIN items |-> half.terms[i].subtotal])
      discount == Sum([i \in DOMAIN items |-> half.terms[i].discount])
      total    == Sum([i \in DOMAIN items |-> half.terms[i].total])
  IN  /\ subtotal \in Nat /\ discount \in Nat /\ total \in Nat
      /\ Sum(half.coupons) \in Nat /\ Sum(half.final) \in Nat
      /\ subtotal = discount + total
      /\ total = Sum(half.final) + Sum(half.coupons)
      /\ DOMAIN half.final = DOMAIN items

\* The sums of a half are in proportion: what is taken off and what is left make the whole.
LEMMA HalfAddsUp ==
  ASSUME NEW items, NEW prices, NEW offer, IsBasket(items), IsCoupon(offer),
         \A i \in DOMAIN items : prices[i] \in Nat
  PROVE  HalfSums(Priced(items, prices, offer), items)
<1> DEFINE D == DOMAIN items
           half == Priced(items, prices, offer)
           subs == [i \in D |-> half.terms[i].subtotal]
           discs == [i \in D |-> half.terms[i].discount]
           tots == [i \in D |-> half.terms[i].total]
<1>1. /\ DOMAIN half.coupons = D /\ DOMAIN half.final = D
      /\ \A i \in D :
           /\ half.terms[i].subtotal \in Nat /\ half.terms[i].discount \in Nat
           /\ half.terms[i].total \in Nat /\ half.coupons[i] \in Nat /\ half.final[i] \in Nat
           /\ half.terms[i].subtotal = half.terms[i].discount + half.terms[i].total
           /\ half.terms[i].total = half.final[i] + half.coupons[i]
  BY PricedIs
<1>2. IsFiniteSet(D)
  BY DEF IsBasket
<1> HIDE DEF half
<1>3. /\ DOMAIN subs = D /\ DOMAIN discs = D /\ DOMAIN tots = D
      /\ \A i \in D : /\ subs[i] \in Nat /\ discs[i] \in Nat /\ tots[i] \in Nat
                      /\ subs[i] = discs[i] + tots[i] /\ tots[i] = half.final[i] + half.coupons[i]
  BY <1>1
<1>4. /\ Sum(subs) = SumOver(D, subs) /\ Sum(discs) = SumOver(D, discs) /\ Sum(tots) = SumOver(D, tots)
      /\ Sum(half.final) = SumOver(D, half.final) /\ Sum(half.coupons) = SumOver(D, half.coupons)
  <2> HIDE DEF D, subs, discs, tots
  <2> QED
    BY <1>1, <1>3, SumIs
<1>5. /\ Sum(subs) \in Nat /\ Sum(discs) \in Nat /\ Sum(tots) \in Nat
      /\ Sum(half.final) \in Nat /\ Sum(half.coupons) \in Nat
      /\ Sum(subs) = Sum(discs) + Sum(tots) /\ Sum(tots) = Sum(half.final) + Sum(half.coupons)
  <2> HIDE DEF D, subs, discs, tots
  <2>1. /\ SumOver(D, subs) \in Nat /\ SumOver(D, discs) \in Nat /\ SumOver(D, tots) \in Nat
        /\ SumOver(D, half.final) \in Nat /\ SumOver(D, half.coupons) \in Nat
    BY <1>1, <1>2, <1>3, SumTakeOut
  <2>2. SumOver(D, subs) = SumOver(D, discs) + SumOver(D, tots)
    BY <1>2, <1>3, SumAdds
  <2>3. SumOver(D, tots) = SumOver(D, half.final) + SumOver(D, half.coupons)
    BY <1>1, <1>2, <1>3, SumAdds
  <2>4. QED
    BY <1>4, <2>1, <2>2, <2>3
<1>6. HalfSums(half, items)
  BY <1>1, <1>5 DEF HalfSums
<1>7. QED
  BY <1>6 DEF half

\* What a buyer is shown is the sum of what the items are sold for, and so is what is due.
THEOREM DraftsAddUp ==
  \A items, offer : IsBasket(items) /\ IsCoupon(offer) /\ priceDraft(items, offer).ok
                      => AddsUp(priceDraft(items, offer))
<1> SUFFICES ASSUME NEW items, NEW offer, IsBasket(items), IsCoupon(offer),
                    priceDraft(items, offer).ok
             PROVE  AddsUp(priceDraft(items, offer))
  OBVIOUS
<1> DEFINE shown == [i \in DOMAIN items |-> items[i].base]
           payable == [i \in DOMAIN items |-> items[i].settle]
           display == Priced(items, shown, offer)
           settled == Priced(items, payable, offer)
           subtotal == Sum([i \in DOMAIN items |-> display.terms[i].subtotal])
           discount == Sum([i \in DOMAIN items |-> display.terms[i].discount])
           couponed == Sum(display.coupons)
           total == AtLeastZero(subtotal, discount + couponed)
           owed == Sum(settled.final)
           draft == priceDraft(items, offer)
<1>1. \A i \in DOMAIN items : shown[i] \in Nat /\ payable[i] \in Nat
  BY DEF IsBasket, Item
<1>2. draft = [ok |-> TRUE, total |-> total, owed |-> owed, display |-> display, settled |-> settled]
  <2>1. \/ draft = Refused
        \/ draft = [ok |-> TRUE, total |-> total, owed |-> owed, display |-> display, settled |-> settled]
    BY DEF priceDraft
  <2>2. draft # Refused
    BY DEF Refused
  <2>3. QED
    BY <2>1, <2>2
<1>3. LET sold == Sum([i \in DOMAIN items |-> display.terms[i].total]) IN
      /\ subtotal \in Nat /\ discount \in Nat /\ sold \in Nat /\ couponed \in Nat
      /\ Sum(display.final) \in Nat
      /\ subtotal = discount + sold /\ sold = Sum(display.final) + couponed
  <2>1. HalfSums(display, items)
    <3> HIDE DEF shown
    <3> QED
      BY <1>1, HalfAddsUp
  <2> HIDE DEF display
  <2>2. QED
    BY <2>1 DEF HalfSums
<1>4. LET sold == Sum([i \in DOMAIN items |-> settled.terms[i].total]) IN
      /\ sold \in Nat /\ Sum(settled.coupons) \in Nat /\ owed \in Nat
      /\ sold = owed + Sum(settled.coupons)
      /\ DOMAIN settled.final = DOMAIN items
  <2>1. HalfSums(settled, items)
    <3> HIDE DEF payable
    <3> QED
      BY <1>1, HalfAddsUp
  <2> HIDE DEF settled
  <2>2. QED
    BY <2>1 DEF HalfSums
<1>5. total = Sum(display.final)
  <2> DEFINE sold == Sum([i \in DOMAIN items |-> display.terms[i].total])
             F == Sum(display.final)
  <2>1. /\ subtotal \in Nat /\ discount \in Nat /\ sold \in Nat /\ couponed \in Nat /\ F \in Nat
        /\ subtotal = discount + sold /\ sold = F + couponed
    BY <1>3
  <2>2. total = IF subtotal > discount + couponed THEN subtotal - (discount + couponed) ELSE 0
    BY DEF AtLeastZero
  <2> HIDE DEF subtotal, discount, sold, couponed, F, total
  <2>3. total = F
    BY <2>1, <2>2
  <2>4. QED
    BY <2>3 DEF F
<1>6. owed = Sum([i \in DOMAIN settled.final |-> settled.terms[i].total]) - Sum(settled.coupons)
  <2>1. [i \in DOMAIN settled.final |-> settled.terms[i].total]
          = [i \in DOMAIN items |-> settled.terms[i].total]
    BY <1>4
  <2> DEFINE sold == Sum([i \in DOMAIN items |-> settled.terms[i].total])
             C == Sum(settled.coupons)
  <2>2. sold \in Nat /\ C \in Nat /\ owed \in Nat /\ sold = owed + C
    BY <1>4
  <2>3. sold = Sum([i \in DOMAIN settled.final |-> settled.terms[i].total])
    BY <2>1
  <2> HIDE DEF sold, C, owed
  <2>4. owed = sold - C
    BY <2>2
  <2>5. QED
    BY <2>3, <2>4 DEF C
<1> HIDE DEF display, settled, total, owed
<1>7. /\ draft.total = total /\ draft.owed = owed /\ draft.display = display /\ draft.settled = settled
  BY <1>2
<1>8. QED
  BY <1>5, <1>6, <1>7 DEF AddsUp

\* Every basket is one, and every coupon.
LEMMA InputsAreSound ==
  ASSUME NEW b \in Baskets \X Coupons
  PROVE  IsBasket(b[1]) /\ IsCoupon(b[2])
<1>1. b[1] \in Baskets /\ b[2] \in Coupons
  OBVIOUS
<1>2. b[2].percent \in {0, 1, 33, 50, 85, 100} /\ b[2].scope \in Scopes
  BY <1>1 DEF Coupons
<1>3. {0, 1, 33, 50, 85, 100} \subseteq 0..100
  OBVIOUS
<1>4. QED
  BY <1>1, <1>2, <1>3, BasketAssumption DEF IsBasket, IsCoupon

\* No basket is allocated or added up wrongly.
THEOREM NoBasketIsOff == Inexact = 0 /\ Disagreeing = 0
<1>1. {b \in Baskets \X Coupons : ~Exact(b[1], b[2])} = {}
  BY CentsAreExact, InputsAreSound
<1>2. {b \in Baskets \X Coupons : LET d == priceDraft(b[1], b[2]) IN d.ok /\ ~AddsUp(d)} = {}
  BY DraftsAddUp, InputsAreSound
<1>3. QED
  BY <1>1, <1>2, FS_EmptySet DEF Inexact, Disagreeing

\* No basket's coupon gains or loses a cent, and no draft's totals differ from what
\* its items are sold for, whatever baskets are priced.
THEOREM AllocationsAreExact == Spec => []AllocationIsExact
<1>1. AllocationIsExact
  BY NoBasketIsOff DEF AllocationIsExact
<1>2. QED
  BY <1>1, PTL

-----------------------------------------------------------------------------
(* DELIVERIES                                                               *)

Sweeps ==
  [pc : {"idle", "resend", "record", "settle", "escalate"}, sent : BOOLEAN, asked : Nat]
Tasks == [renewal : BOOLEAN, mail : BOOLEAN]

\* The types of the rows, the requests and the histories.
DeliveriesTyped ==
  /\ DeliveryTypeOK
  /\ mails \in Nat /\ delivered \in Nat
  /\ unsent \in BOOLEAN /\ extra \in BOOLEAN /\ dropped \in BOOLEAN
  /\ since \in [first : Nat, date : Nat, paid : Nat, reset : BOOLEAN]

\* The dates that a request may write are those of a delivery, the first or a later one.
DateKnown(a) ==
  /\ req[a].pc \in {"mail", "outcome", "schedule", "order", "row", "dates"} => delivered > 0
  /\ req[a].pc \in {"check", "set"} /\ req[a].kind # "status" => delivered > 0
  /\ req[a].pc \in {"row", "dates"} => req[a].at >= since.first
  /\ req[a].pc \in {"check", "set"} /\ req[a].kind # "status" => req[a].at >= since.first
  /\ req[a].pc \in {"mark", "mail", "outcome", "schedule", "order", "row"} => req[a].kind # "status"
  /\ req[a].pc = "dates" => req[a].kind = "replay"

DatesFromDelivery ==
  /\ orderRow.status = "delivered" => delivered > 0
  /\ delivered > 0 => clock >= since.first /\ orderRow.updated >= since.first
  /\ \A a \in Staff : DateKnown(a)

\* An activated subscription has the term it was given.
TermKept ==
  since.paid > 0 =>
    /\ delivered > 0
    /\ sub.start >= since.first
    /\ sub.end >= IF since.reset THEN since.first + TermLength
                   ELSE since.date + TermLength * since.paid

\* Nobody is about to write over a status it has read as cancelled.
NoneFromCancelled == \A a \in Staff : req[a].pc = "set" => req[a].previous # "cancelled"

\* A delivery that has yet to be mailed about by the request that made it.
Waiting(a) == req[a].pc \in {"mail", "schedule"} \/ (req[a].pc = "outcome" /\ ~req[a].sent)

WaitingSet == {a \in Staff : Waiting(a)}

\* The mail that the watchdog may still send.
OnWatch == IF watchdog = "pending" /\ ~sweep.sent THEN 1 ELSE 0

\* What the sweep is doing is known to the watchdog's status, and what that says is so.
WatchdogTells ==
  /\ sweep.pc # "idle" => watchdog = "pending"
  /\ sweep.pc \in {"idle", "resend", "escalate"} => ~sweep.sent
  /\ sweep.sent \/ watchdog = "done" => mails > 0
  /\ \A a \in Staff : req[a].dog # "none" => watchdog # "none"

\* Every mail sent, and every one that may be, is of a delivery of its own.
MailsOwed ==
  /\ IsFiniteSet(WaitingSet)
  /\ ~extra => mails + Cardinality(WaitingSet) + OnWatch <= delivered

\* A task that the sweep knows of is open, or the staff has seen to the mail.
StaffAsked ==
  /\ unsent => delivered > 0
  /\ sweep.asked <= delivered
  /\ sweep.asked = delivered /\ delivered > 0 => task.mail \/ ~unsent

\* A request that will put the mail it has not sent on the watchdog's list.
Pursuing(a) == Waiting(a) /\ req[a].dog # "done"

\* A delivery whose mail has not gone out is in somebody's hands.
Pursued ==
  unsent /\ ~dropped =>
    \/ \E a \in Staff : Pursuing(a)
    \/ watchdog = "pending"
    \/ watchdog = "escalated" /\ task.mail
    \/ watchdog = "done" /\ mails > 0

DeliveryInv ==
  /\ DeliveriesTyped /\ DatesFromDelivery /\ TermKept /\ NoneFromCancelled
  /\ WatchdogTells /\ MailsOwed /\ StaffAsked /\ Pursued

-----------------------------------------------------------------------------
(* One request's move, and the others' rest                                 *)

Pcs == {"idle", "mark", "mail", "outcome", "schedule", "order", "row", "check", "set", "dates",
        "resend", "record", "fulfil"}

\* A bound that is used up by one stays a bound.
LEMMA UseTypes ==
  ASSUME budget \in [Events -> Nat], NEW e \in Events, Use(e)
  PROVE  budget' \in [Events -> Nat]
  BY DEF Use

\* A request that is another's await further on is a request.
LEMMA GotoTypes ==
  ASSUME NEW r \in Requests, NEW pc \in Pcs
  PROVE  [r EXCEPT !.pc = pc] \in Requests
  BY DEF Requests, Pcs

\* A request at rest is one.
LEMMA IdleType == Idle \in Requests
  BY DEF Idle, Requests, Statuses

\* Two states of a request that differ in what request a has read: a moved.
Moves(a) == \E r \in Requests : req' = [req EXCEPT ![a] = r]

\* Going on is a move, ...
LEMMA GotoMoves ==
  ASSUME DeliveriesTyped, NEW a \in Staff, NEW pc \in Pcs, Goto(a, pc)
  PROVE  Moves(a)
  BY GotoTypes DEF Goto, DeliveriesTyped, DeliveryTypeOK, Moves

\* ... and so is ending.
LEMMA AfterMoves ==
  ASSUME DeliveriesTyped, NEW a \in Staff, After(a) \/ Finish(a)
  PROVE  Moves(a)
  BY GotoMoves, IdleType DEF After, Finish, Moves, Pcs

Request(a) ==
  \/ BeginDelivery(a) \/ MarkDelivered(a) \/ SendMail(a) \/ RecordOutcome(a) \/ Schedule(a)
  \/ BeginReplay(a) \/ ReadOrder(a) \/ ReadRow(a) \/ WriteDates(a) \/ Resend(a) \/ RecordResend(a)
  \/ BeginStatus(a) \/ CheckTransition(a) \/ SetStatus(a)
  \/ CompleteRenewal(a) \/ FulfilRenewal(a)

\* Every action of a request moves that one and no other.
LEMMA RequestMoves ==
  ASSUME DeliveriesTyped, NEW a \in Staff, Request(a)
  PROVE  Moves(a)
<1> USE DEF Pcs
<1>1. req[a] \in Requests /\ req \in [Staff -> Requests]
  BY DEF DeliveriesTyped, DeliveryTypeOK
<1>2. CASE BeginDelivery(a)
  <2>1. [Idle EXCEPT !.pc = "mark", !.kind = "deliver", !.previous = orderRow.status] \in Requests
    BY DEF Idle, Requests, Statuses, DeliveriesTyped, DeliveryTypeOK
  <2>2. QED
    BY <1>2, <2>1 DEF BeginDelivery, Begin, Moves
<1>3. CASE MarkDelivered(a)
  <2> DEFINE pc == IF Mails(a) THEN "mail" ELSE "order"
             r == [req[a] EXCEPT !.pc = pc, !.dog = watchdog]
  <2>1. r \in Requests
    BY <1>1 DEF Requests, DeliveriesTyped, DeliveryTypeOK
  <2>2. req' = [req EXCEPT ![a].pc = pc, ![a].dog = watchdog]
    BY <1>3 DEF MarkDelivered
  <2>3. req' = [req EXCEPT ![a] = r]
    <3> HIDE DEF pc
    <3> QED
      BY <2>2, <1>1
  <2>4. QED
    BY <2>1, <2>3 DEF Moves
<1>4. CASE SendMail(a)
  <2>1. PICK sent \in BOOLEAN : req' = [req EXCEPT ![a].pc = "outcome", ![a].sent = sent]
    BY <1>4 DEF SendMail
  <2>2. [req[a] EXCEPT !.pc = "outcome", !.sent = sent] \in Requests
    BY <1>1 DEF Requests
  <2>3. req' = [req EXCEPT ![a] = [req[a] EXCEPT !.pc = "outcome", !.sent = sent]]
    BY <2>1, <1>1
  <2>4. QED
    BY <2>2, <2>3 DEF Moves
<1>5. CASE RecordOutcome(a)
  BY <1>5, GotoMoves DEF RecordOutcome
<1>6. CASE Schedule(a)
  BY <1>6, GotoMoves DEF Schedule
<1>7. CASE BeginReplay(a)
  <2>1. PICK dates \in BOOLEAN, resend \in BOOLEAN, strict \in BOOLEAN :
          Begin(a, "replay", [Idle EXCEPT !.pc = IF dates THEN "order" ELSE "resend",
                                          !.kind = "replay", !.resend = resend, !.strict = strict])
    BY <1>7 DEF BeginReplay
  <2>2. [Idle EXCEPT !.pc = IF dates THEN "order" ELSE "resend",
                     !.kind = "replay", !.resend = resend, !.strict = strict] \in Requests
    BY DEF Idle, Requests, Statuses
  <2>3. QED
    BY <2>1, <2>2 DEF Begin, Moves
<1>8. CASE ReadOrder(a)
  <2>1. \A at \in Nat : [req[a] EXCEPT !.pc = "row", !.at = at] \in Requests
    BY <1>1 DEF Requests
  <2>2. \A at \in Nat : req' = [req EXCEPT ![a].pc = "row", ![a].at = at] =>
          req' = [req EXCEPT ![a] = [req[a] EXCEPT !.pc = "row", !.at = at]]
    BY <1>1
  <2>3. clock \in Nat /\ orderRow.updated \in Nat
    BY DEF DeliveriesTyped, DeliveryTypeOK
  <2>4. \/ After(a) \/ req' = [req EXCEPT ![a].pc = "row", ![a].at = orderRow.updated]
        \/ req' = [req EXCEPT ![a].pc = "row", ![a].at = clock]
    BY <1>8 DEF ReadOrder
  <2>5. QED
    BY <2>1, <2>2, <2>3, <2>4, AfterMoves DEF Moves
<1>9. CASE ReadRow(a)
  BY <1>9, GotoMoves, AfterMoves DEF ReadRow
<1>10. CASE WriteDates(a) \/ RecordResend(a) \/ SetStatus(a) \/ FulfilRenewal(a)
  BY <1>10, AfterMoves DEF WriteDates, RecordResend, SetStatus, FulfilRenewal
<1>11. CASE Resend(a)
  BY <1>11, GotoMoves, AfterMoves DEF Resend
<1>12. CASE BeginStatus(a)
  <2>1. PICK target \in Statuses :
          Begin(a, "status", [Idle EXCEPT !.pc = "check", !.kind = "status", !.target = target])
    BY <1>12 DEF BeginStatus
  <2>2. [Idle EXCEPT !.pc = "check", !.kind = "status", !.target = target] \in Requests
    BY DEF Idle, Requests, Statuses
  <2>3. QED
    BY <2>1, <2>2 DEF Begin, Moves
<1>13. CASE CheckTransition(a)
  <2>1. [req[a] EXCEPT !.pc = "set", !.previous = sub.status] \in Requests
    BY <1>1 DEF Requests, DeliveriesTyped, DeliveryTypeOK
  <2>2. req' = [req EXCEPT ![a].pc = "set", ![a].previous = sub.status] =>
          req' = [req EXCEPT ![a] = [req[a] EXCEPT !.pc = "set", !.previous = sub.status]]
    BY <1>1
  <2>3. QED
    BY <1>13, <2>1, <2>2, AfterMoves DEF CheckTransition, Moves
<1>14. CASE CompleteRenewal(a)
  <2>1. [Idle EXCEPT !.pc = "fulfil", !.kind = "renewal", !.at = clock] \in Requests
    BY DEF Idle, Requests, Statuses, DeliveriesTyped, DeliveryTypeOK
  <2>2. QED
    BY <1>14, <2>1 DEF CompleteRenewal, Moves
<1>15. QED
  BY <1>2, <1>3, <1>4, <1>5, <1>6, <1>7, <1>8, <1>9, <1>10, <1>11, <1>12, <1>13, <1>14 DEF Request

\* What a request that moves on, ends or marks the order has kept of what it read.
LEMMA GotoDoes ==
  ASSUME DeliveriesTyped, NEW a \in Staff, NEW pc, Goto(a, pc)
  PROVE  /\ req'[a].pc = pc /\ req'[a].kind = req[a].kind /\ req'[a].at = req[a].at
         /\ req'[a].previous = req[a].previous /\ req'[a].dog = req[a].dog
            /\ req'[a].sent = req[a].sent
  BY DEF Goto, DeliveriesTyped, DeliveryTypeOK, Requests

\* A request that ends forgets it.
LEMMA FinishDoes ==
  ASSUME DeliveriesTyped, NEW a \in Staff, Finish(a)
  PROVE  req'[a].pc = "idle" /\ req'[a].dog = "none"
  BY DEF Finish, DeliveriesTyped, DeliveryTypeOK, Idle

\* What follows the subscription's part is the mail or the end.
LEMMA AfterDoes ==
  ASSUME DeliveriesTyped, NEW a \in Staff, After(a)
  PROVE  req'[a].pc \in {"idle", "resend"} /\ req'[a].dog \in {"none", req[a].dog}
  BY GotoDoes, FinishDoes DEF After

\* Marking the order reads the watchdog.
LEMMA MarkDoes ==
  ASSUME DeliveriesTyped, NEW a \in Staff, MarkDelivered(a)
  PROVE  /\ req'[a].pc = IF Mails(a) THEN "mail" ELSE "order"
         /\ req'[a].kind = req[a].kind /\ req'[a].at = req[a].at /\ req'[a].dog = watchdog
<1> DEFINE pc == IF Mails(a) THEN "mail" ELSE "order"
<1>1. req[a] \in Requests /\ req \in [Staff -> Requests]
  BY DEF DeliveriesTyped, DeliveryTypeOK
<1>2. req' = [req EXCEPT ![a].pc = pc, ![a].dog = watchdog]
  BY DEF MarkDelivered
<1>3. QED
  <2> HIDE DEF pc
  <2>1. req'[a] = [req[a] EXCEPT !.pc = pc, !.dog = watchdog]
    BY <1>1, <1>2
  <2>2. QED
    BY <1>1, <2>1 DEF Requests, pc

\* The later of two dates.
LEMMA LaterOfTwo ==
  ASSUME NEW x \in Nat, NEW y \in Nat
  PROVE  Max({x, y}) \in Nat /\ Max({x, y}) >= x /\ Max({x, y}) >= y
<1>1. \E m \in {x, y} : \A n \in {x, y} : m >= n
  BY x >= y \/ y >= x
<1>2. QED
  BY <1>1 DEF Max

\* A mail, sent or refused, is counted.
LEMMA MailTypes ==
  ASSUME budget \in [Events -> Nat], mails \in Nat, unsent \in BOOLEAN,
         NEW sent \in BOOLEAN, Mail(sent)
  PROVE  budget' \in [Events -> Nat] /\ mails' \in Nat /\ unsent' \in BOOLEAN
<1>1. "refusal" \in Events
  BY DEF Events
<1>2. budget' \in [Events -> Nat]
  BY <1>1, UseTypes DEF Mail
<1>3. mails' \in Nat
  BY DEF Mail
<1>4. unsent' \in BOOLEAN
  BY DEF Mail
<1>5. QED
  BY <1>2, <1>3, <1>4

\* A mail is sent or refused.
LEMMA MailDoes ==
  ASSUME unsent \in BOOLEAN, NEW sent \in BOOLEAN, Mail(sent)
  PROVE  \/ ~sent /\ UNCHANGED <<mails, unsent>>
         \/ sent /\ mails' = mails + 1 /\ ~unsent'
<1>1. CASE sent
  BY <1>1 DEF Mail
<1>2. CASE ~sent
  BY <1>2 DEF Mail
<1>3. QED
  BY <1>1, <1>2

\* Type correctness of the rest.
LEMMA RowsTyped ==
  ASSUME DeliveriesTyped, [DeliveryNext]_deliveryVars, req' \in [Staff -> Requests]
  PROVE  DeliveriesTyped'
<1> USE SubscriptionDeliveryAssumption
<1> DEFINE Sub == [status : Statuses, credentials : BOOLEAN, start : Nat, end : Nat]
           Since == [first : Nat, date : Nat, paid : Nat, reset : BOOLEAN]
<1>a. /\ clock \in Nat /\ sub \in Sub /\ since \in Since /\ req \in [Staff -> Requests]
      /\ TermLength \in Nat /\ delivered \in Nat /\ mails \in Nat
      /\ watchdog \in {"none", "pending", "done", "escalated"}
      /\ orderRow \in [status : {"in_process", "delivered"}, updated : Nat]
      /\ task \in Tasks /\ unsent \in BOOLEAN /\ extra \in BOOLEAN /\ dropped \in BOOLEAN
      /\ budget \in [Events -> Nat]
      /\ sweep \in Sweeps
  BY DEF DeliveriesTyped, DeliveryTypeOK, Sweeps, Tasks
<1> DEFINE RowsAreTyped ==
        /\ clock' \in Nat /\ sub' \in Sub /\ since' \in Since
        /\ delivered' \in Nat /\ mails' \in Nat
        /\ watchdog' \in {"none", "pending", "done", "escalated"}
        /\ orderRow' \in [status : {"in_process", "delivered"}, updated : Nat]
        /\ task' \in Tasks /\ unsent' \in BOOLEAN /\ extra' \in BOOLEAN /\ dropped' \in BOOLEAN
        /\ budget' \in [Events -> Nat]
        /\ sweep' \in Sweeps
<1>b. SUFFICES RowsAreTyped
  BY DEF DeliveriesTyped, DeliveryTypeOK, Sweeps, Tasks
<1>e. Asleep \in Sweeps /\ [Asleep EXCEPT !.pc = "resend"] \in Sweeps
  BY DEF Asleep, Sweeps
<1>f. \A open \in BOOLEAN : /\ [task EXCEPT !.mail = open] \in Tasks
                            /\ [task EXCEPT !.renewal = open] \in Tasks
  BY <1>a DEF Tasks
<1>c. \A e \in Events : Use(e) => budget' \in [Events -> Nat]
  BY <1>a, UseTypes
<1>d. \A a \in Staff : req[a] \in Requests
  BY <1>a
<1>1. ASSUME NEW a \in Staff, BeginDelivery(a) PROVE RowsAreTyped
  BY <1>1, <1>a, <1>c, <1>d DEF BeginDelivery, Begin, mailVars, termVars, Events, Requests
<1>2. ASSUME NEW a \in Staff, MarkDelivered(a) PROVE RowsAreTyped
  <2>1. [since EXCEPT !.first = IF delivered = 0 THEN clock ELSE @] \in Since
    BY <1>a
  <2>2. [status |-> "delivered", updated |-> clock] \in [status : {"in_process", "delivered"},
        updated : Nat]
    BY <1>a
  <2>3. extra' \in BOOLEAN /\ dropped' \in BOOLEAN /\ unsent' \in BOOLEAN /\ delivered' \in Nat
    <3>1. CASE orderRow.status = "delivered"
      BY <1>2, <1>a, <3>1, Zenon DEF MarkDelivered
    <3>2. CASE orderRow.status # "delivered"
      <4>1. delivered' = delivered + 1 /\ unsent' = TRUE /\ extra' = extra
        BY <1>2, <3>2 DEF MarkDelivered
      <4>2. dropped' \in BOOLEAN
        BY <1>2, <3>2 DEF MarkDelivered
      <4>3. QED
        BY <1>a, <4>1, <4>2
    <3>3. QED
      BY <3>1, <3>2, Zenon
  <2>4. QED
    BY <1>2, <1>a, <2>1, <2>2, <2>3 DEF MarkDelivered
<1>3. ASSUME NEW a \in Staff, SendMail(a) PROVE RowsAreTyped
  BY <1>3, <1>a, <1>c, <1>d DEF SendMail, Mail, mailVars, termVars, Events, Requests
<1>4. ASSUME NEW a \in Staff, RecordOutcome(a) PROVE RowsAreTyped
  BY <1>4, <1>a, <1>c, <1>d DEF RecordOutcome, Touch, mailVars, termVars, Events, Requests
<1>5. ASSUME NEW a \in Staff, Schedule(a) PROVE RowsAreTyped
  <2>1. Touch => orderRow' \in [status : {"in_process", "delivered"}, updated : Nat]
    BY <1>a DEF Touch
  <2>2. budget' \in [Events -> Nat]
    BY <1>5, <1>a, <1>c DEF Schedule, Events
  <2>3. /\ orderRow' \in [status : {"in_process", "delivered"}, updated : Nat]
        /\ watchdog' \in {"none", "pending", "done", "escalated"} /\ dropped' \in BOOLEAN
    BY <1>5, <1>a, <2>1 DEF Schedule
  <2>4. QED
    BY <1>5, <1>a, <2>2, <2>3 DEF Schedule, termVars
<1>6. ASSUME NEW a \in Staff, BeginReplay(a) PROVE RowsAreTyped
  BY <1>6, <1>a, <1>c, <1>d DEF BeginReplay, Begin, mailVars, termVars, Events, Requests
<1>7. ASSUME NEW a \in Staff, ReadOrder(a) PROVE RowsAreTyped
  BY <1>7, <1>a, <1>c, <1>d DEF ReadOrder, mailVars, termVars, Events, Requests
<1>8. ASSUME NEW a \in Staff, ReadRow(a) PROVE RowsAreTyped
  BY <1>8, <1>a, <1>c, <1>d DEF ReadRow, mailVars, termVars, Events, Requests
<1>9. ASSUME NEW a \in Staff, WriteDates(a) PROVE RowsAreTyped
  <2>1. req[a].at \in Nat /\ req[a].at + TermLength \in Nat
    BY <1>a, <1>d DEF Requests
  <2>2. [sub EXCEPT !.start = req[a].at, !.end = req[a].at + TermLength] \in Sub
    BY <1>a, <2>1
  <2>3. [since EXCEPT !.reset = @ \/ req[a].kind = "replay"] \in Since
    BY <1>a
  <2>4. QED
    BY <1>9, <1>a, <2>2, <2>3 DEF WriteDates, mailVars
<1>10. ASSUME NEW a \in Staff, Resend(a) PROVE RowsAreTyped
  <2>1. /\ budget' \in [Events -> Nat] /\ mails' \in Nat /\ unsent' \in BOOLEAN
           /\ extra' \in BOOLEAN
    BY <1>10, <1>a, MailTypes DEF Resend
  <2>2. QED
    BY <1>10, <1>a, <2>1 DEF Resend, termVars
<1>11. ASSUME NEW a \in Staff, RecordResend(a) PROVE RowsAreTyped
  BY <1>11, <1>a, <1>c, <1>d DEF RecordResend, Touch, mailVars, termVars, Events, Requests
<1>12. ASSUME NEW a \in Staff, BeginStatus(a) PROVE RowsAreTyped
  BY <1>12, <1>a, <1>c, <1>d DEF BeginStatus, Begin, mailVars, termVars, Events, Requests
<1>13. ASSUME NEW a \in Staff, CheckTransition(a) PROVE RowsAreTyped
  BY <1>13, <1>a, <1>c, <1>d DEF CheckTransition, mailVars, termVars, Events, Requests
<1>14. ASSUME NEW a \in Staff, SetStatus(a) PROVE RowsAreTyped
  <2>1. req[a].at \in Nat /\ req[a].at + TermLength \in Nat /\ req[a].target \in Statuses
    BY <1>a, <1>d DEF Requests
  <2>2. \A s, e \in Nat : [sub EXCEPT !.status = req[a].target, !.start = s, !.end = e] \in Sub
    BY <1>a, <2>1
  <2>3. sub' \in Sub
    BY <1>14, <1>a, <2>1, <2>2 DEF SetStatus
  <2>4. /\ [since EXCEPT !.date = req[a].at, !.paid = 1, !.reset = FALSE] \in Since
        /\ [since EXCEPT !.reset = TRUE] \in Since
    BY <1>a, <2>1
  <2>5. since' \in Since
    BY <1>14, <1>a, <2>4 DEF SetStatus
  <2>6. QED
    BY <1>14, <1>a, <2>3, <2>5 DEF SetStatus, mailVars
<1>15. ASSUME NEW a \in Staff, CompleteRenewal(a) PROVE RowsAreTyped
  BY <1>15, <1>a, <1>c, <1>d, <1>f DEF CompleteRenewal, mailVars, termVars, Events, Requests
<1>16. ASSUME NEW a \in Staff, FulfilRenewal(a) PROVE RowsAreTyped
  <2>1. req[a].at \in Nat /\ req[a].at + TermLength \in Nat
    BY <1>a, <1>d DEF Requests
  <2>2. [sub EXCEPT !.start = req[a].at, !.end = req[a].at + TermLength] \in Sub
    BY <1>a, <2>1
  <2>3. [since EXCEPT !.reset = TRUE] \in Since
    BY <1>a
  <2>4. QED
    BY <1>16, <1>a, <2>2, <2>3 DEF FulfilRenewal, mailVars, termVars
<1>17. ASSUME BeginSweep PROVE RowsAreTyped
  BY <1>17, <1>a, <1>c, <1>d, <1>e DEF BeginSweep, mailVars, termVars, Events, Requests
<1>18. ASSUME SweepMail PROVE RowsAreTyped
  <2>1. /\ budget' \in [Events -> Nat] /\ mails' \in Nat /\ unsent' \in BOOLEAN
    BY <1>18, <1>a, MailTypes DEF SweepMail
  <2>2. sweep' \in Sweeps
    <3>1. /\ [sweep EXCEPT !.pc = "settle"] \in Sweeps
          /\ \A sent \in BOOLEAN : [sweep EXCEPT !.pc = "record", !.sent = sent] \in Sweeps
      BY <1>a DEF Sweeps
    <3>2. \/ sweep' = [sweep EXCEPT !.pc = "settle"]
          \/ \E sent \in BOOLEAN : sweep' = [sweep EXCEPT !.pc = "record", !.sent = sent]
      BY <1>18 DEF SweepMail
    <3>3. QED
      BY <3>1, <3>2, Zenon
  <2>3. QED
    BY <1>18, <1>a, <2>1, <2>2 DEF SweepMail, termVars
<1>19. ASSUME SweepRecord PROVE RowsAreTyped
  <2>1. [sweep EXCEPT !.pc = "settle"] \in Sweeps
    BY <1>a DEF Sweeps
  <2>2. QED
    BY <1>19, <1>a, <1>c, <1>d, <2>1 DEF SweepRecord, Touch, mailVars, termVars, Events, Requests
<1>20. ASSUME SweepSettle PROVE RowsAreTyped
  <2>1. watchdog' \in {"done", "escalated", "pending"} /\ dropped' \in BOOLEAN
    BY <1>20, <1>a DEF SweepSettle, Verdict
  <2>2. QED
    BY <1>20, <1>a, <1>e, <2>1 DEF SweepSettle, Touch, termVars
<1>21. ASSUME SweepFails PROVE RowsAreTyped
  BY <1>21, <1>a, <1>c, <1>d, <1>e DEF SweepFails, mailVars, termVars, Events, Requests
<1>22. ASSUME Reopen PROVE RowsAreTyped
  BY <1>22, <1>a, <1>c, <1>d DEF Reopen, mailVars, termVars, Events, Requests
<1>23. ASSUME ChangeCredentials PROVE RowsAreTyped
  BY <1>23, <1>a, <1>c, <1>d DEF ChangeCredentials, mailVars, termVars, Events, Requests
<1>24. ASSUME Renew PROVE RowsAreTyped
  <2>1. Max({sub.end, clock}) + TermLength \in Nat
    BY <1>a, LaterOfTwo
  <2>2. [sub EXCEPT !.end = Max({@, clock}) + TermLength] \in Sub
    BY <1>a, <2>1
  <2>3. [since EXCEPT !.paid = IF @ = 0 THEN 0 ELSE @ + 1] \in Since
    BY <1>a
  <2>4. QED
    BY <1>24, <1>a, <1>c, <1>f, <2>2, <2>3 DEF Renew, mailVars, Events
<1>25. ASSUME Expire PROVE RowsAreTyped
  <2>1. [sub EXCEPT !.status = "expired"] \in Sub
    BY <1>a DEF Statuses
  <2>2. QED
    BY <1>25, <1>a, <2>1 DEF Expire, mailVars
<1>26. ASSUME Tick PROVE RowsAreTyped
  BY <1>26, <1>a, <1>c, <1>d DEF Tick, mailVars, termVars, Events, Requests
<1>27. CASE UNCHANGED deliveryVars
  BY <1>27, <1>a DEF deliveryVars
<1>28. ASSUME SweepAsk PROVE RowsAreTyped
  <2>1. /\ [sweep EXCEPT !.pc = "escalate"] \in Sweeps
        /\ [sweep EXCEPT !.pc = "escalate", !.asked = delivered] \in Sweeps
    BY <1>a DEF Sweeps
  <2>2. \A open \in BOOLEAN : [task EXCEPT !.mail = @ \/ open] \in Tasks
    BY <1>a DEF Tasks
  <2>3. sweep' \in Sweeps /\ task' \in Tasks
    BY <1>28, <1>f, <2>1, <2>2 DEF SweepAsk
  <2>4. budget' \in [Events -> Nat]
    BY <1>28, <1>a, <1>c DEF SweepAsk, Events
  <2>5. QED
    BY <1>28, <1>a, <2>3, <2>4 DEF SweepAsk, mailVars, termVars
<1>29. ASSUME CompleteMailTask PROVE RowsAreTyped
  BY <1>29, <1>a, <1>f DEF CompleteMailTask, termVars
<1>30. QED
  BY <1>1, <1>2, <1>3, <1>4, <1>5, <1>6, <1>7, <1>8, <1>9, <1>10, <1>11, <1>12, <1>13, <1>14,
     <1>15, <1>16, <1>17, <1>18, <1>19, <1>20, <1>21, <1>22, <1>23, <1>24, <1>25, <1>26, <1>27,
     <1>28, <1>29
     DEF DeliveryNext

\* Type correctness: every step keeps each variable's type.
LEMMA DeliveryTypes ==
  ASSUME DeliveriesTyped, [DeliveryNext]_deliveryVars
  PROVE  DeliveriesTyped'
<1>1. req \in [Staff -> Requests]
  BY DEF DeliveriesTyped, DeliveryTypeOK
<1>2. ASSUME NEW a \in Staff, Request(a) PROVE req' \in [Staff -> Requests]
  BY <1>1, <1>2, RequestMoves DEF Moves
<1>3. req' = req => req' \in [Staff -> Requests]
  BY <1>1
<1>4. (\E a \in Staff : Request(a)) \/ req' = req
  BY DEF DeliveryNext, Request, deliveryVars, BeginSweep, SweepMail, SweepRecord,
    SweepAsk, SweepSettle, SweepFails, Reopen, ChangeCredentials, Renew, CompleteMailTask,
    Expire, Tick
<1>5. QED
  BY <1>2, <1>3, <1>4, RowsTyped

\* The types of what a request sees.
LEMMA RowsSeen ==
  ASSUME DeliveriesTyped, NEW a \in Staff
  PROVE  /\ req \in [Staff -> Requests] /\ req[a] \in Requests
         /\ orderRow \in [status : {"in_process", "delivered"}, updated : Nat]
         /\ unsent \in BOOLEAN /\ extra \in BOOLEAN /\ dropped \in BOOLEAN
         /\ sub \in [status : Statuses, credentials : BOOLEAN, start : Nat, end : Nat]
         /\ since \in [first : Nat, date : Nat, paid : Nat, reset : BOOLEAN]
  BY DEF DeliveriesTyped, DeliveryTypeOK

\* The effects of each request's actions, as the invariants see them: a delivery begins, ...
LEMMA BeginDeliveryDoes ==
  ASSUME DeliveriesTyped, NEW a \in Staff, BeginDelivery(a)
  PROVE  /\ req'[a].pc = "mark" /\ req'[a].kind = "deliver" /\ req'[a].dog = "none"
         /\ req[a].pc = "idle"
         /\ UNCHANGED <<clock, orderRow, sub, since, watchdog, sweep, mails, delivered, unsent,
                        extra, dropped>>
<1>1. req'[a].pc = "mark" /\ req'[a].kind = "deliver" /\ req'[a].dog = "none"
  BY RowsSeen DEF BeginDelivery, Begin, Idle, mailVars, termVars,
     Requests
<1>2. req[a].pc = "idle"
  BY RowsSeen DEF BeginDelivery, Begin, Idle, mailVars, termVars,
     Requests
<1>3. UNCHANGED <<clock, orderRow, sub, since, watchdog, sweep, mails, delivered, unsent, extra,
                  dropped>>
  BY RowsSeen DEF BeginDelivery, Begin, Idle, mailVars, termVars,
     Requests
<1>4. QED
  BY <1>1, <1>2, <1>3

\* ... marks the order, and its first delivery sets the first date, ...
LEMMA MarkDeliveredDoes ==
  ASSUME DeliveriesTyped, NEW a \in Staff, MarkDelivered(a)
  PROVE  /\ req[a].pc = "mark"
            /\ req'[a].pc = (IF req[a].previous # "delivered" THEN "mail" ELSE "order")
         /\ req'[a].dog = watchdog /\ req'[a].kind = req[a].kind /\ req'[a].at = req[a].at
         /\ orderRow'.status = "delivered" /\ orderRow'.updated = clock
         /\ orderRow.status = "delivered" => /\ extra' = (extra \/ req[a].previous # "delivered")
                                          /\ UNCHANGED <<delivered, unsent, dropped>>
         /\ orderRow.status # "delivered" => /\ delivered' = delivered + 1 /\ unsent' = TRUE
            /\ UNCHANGED extra
                                          /\ dropped' = (req[a].previous = "delivered")
         /\ since'.first = (IF delivered = 0 THEN clock ELSE since.first)
            /\ since'.date = since.date
         /\ since'.paid = since.paid /\ since'.reset = since.reset
         /\ UNCHANGED <<clock, sub, watchdog, sweep, mails>>
<1>1. req[a].pc = "mark" /\ req'[a].pc = (IF req[a].previous # "delivered" THEN "mail" ELSE "order")
  BY RowsSeen, MarkDoes DEF MarkDelivered, Mails, mailVars, termVars,
     Requests
<1>2. req'[a].dog = watchdog /\ req'[a].kind = req[a].kind /\ req'[a].at = req[a].at
  BY RowsSeen, MarkDoes DEF MarkDelivered, Mails, mailVars, termVars,
     Requests
<1>3. orderRow'.status = "delivered" /\ orderRow'.updated = clock
  BY RowsSeen, MarkDoes DEF MarkDelivered, Mails, mailVars, termVars,
     Requests
<1>4. orderRow.status = "delivered" => /\ extra' = (extra \/ req[a].previous # "delivered")
                                    /\ UNCHANGED <<delivered, unsent, dropped>>
  BY RowsSeen, MarkDoes DEF MarkDelivered, Mails, mailVars, termVars,
     Requests
<1>5. orderRow.status # "delivered" => /\ delivered' = delivered + 1 /\ unsent' = TRUE
      /\ UNCHANGED extra
                                    /\ dropped' = (req[a].previous = "delivered")
  BY RowsSeen, MarkDoes DEF MarkDelivered, Mails, mailVars, termVars,
     Requests
<1>6. since'.first = (IF delivered = 0 THEN clock ELSE since.first) /\ since'.date = since.date
  BY RowsSeen, MarkDoes DEF MarkDelivered, Mails, mailVars, termVars,
     Requests
<1>7. since'.paid = since.paid /\ since'.reset = since.reset
  BY RowsSeen, MarkDoes DEF MarkDelivered, Mails, mailVars, termVars,
     Requests
<1>8. UNCHANGED <<clock, sub, watchdog, sweep, mails>>
  BY RowsSeen, MarkDoes DEF MarkDelivered, Mails, mailVars, termVars,
     Requests
<1>9. QED
  BY <1>1, <1>2, <1>3, <1>4, <1>5, <1>6, <1>7, <1>8

\* ... mails the buyer or fails to, ...
LEMMA SendMailDoes ==
  ASSUME DeliveriesTyped, NEW a \in Staff, SendMail(a)
  PROVE  /\ req[a].pc = "mail" /\ req'[a].pc = "outcome" /\ req'[a].kind = req[a].kind
            /\ req'[a].at = req[a].at /\ req'[a].dog = req[a].dog
         /\ \/ ~req'[a].sent /\ UNCHANGED mails /\ (unsent' <=> unsent)
            \/ req'[a].sent /\ mails' = mails + 1 /\ ~unsent'
         /\ UNCHANGED <<clock, orderRow, sub, since, watchdog, sweep, delivered, extra, dropped>>
<1>1. req[a].pc = "mail" /\ req'[a].pc = "outcome" /\ req'[a].kind = req[a].kind
      /\ req'[a].at = req[a].at /\ req'[a].dog = req[a].dog
  BY RowsSeen DEF SendMail, Mail, mailVars, termVars, Requests
<1>2. \/ ~req'[a].sent /\ UNCHANGED mails /\ (unsent' <=> unsent)
      \/ req'[a].sent /\ mails' = mails + 1 /\ ~unsent'
  <2>1. PICK sent \in BOOLEAN : /\ Mail(sent)
                               /\ req' = [req EXCEPT ![a].pc = "outcome", ![a].sent = sent]
    BY DEF SendMail
  <2>2. req'[a].sent = sent
    BY RowsSeen, <2>1 DEF Requests
  <2>3. QED
    BY RowsSeen, <2>1, <2>2, MailDoes
<1>3. UNCHANGED <<clock, orderRow, sub, since, watchdog, sweep, delivered, extra, dropped>>
  BY RowsSeen DEF SendMail, Mail, mailVars, termVars, Requests
<1>4. QED
  BY <1>1, <1>2, <1>3

\* ... records that, an error counting as a failure, ...
LEMMA RecordOutcomeDoes ==
  ASSUME DeliveriesTyped, NEW a \in Staff, RecordOutcome(a)
  PROVE  /\ req[a].pc = "outcome" /\ req'[a].kind = req[a].kind /\ req'[a].at = req[a].at
            /\ req'[a].dog = req[a].dog
         /\ orderRow'.status = orderRow.status /\ orderRow'.updated \in {orderRow.updated, clock}
         /\ \/ req'[a].pc = "order" /\ req[a].sent /\ (extra' <=> extra)
            \/ req'[a].pc = "schedule" /\ ~req[a].sent /\ (extra' <=> extra)
            \/ req'[a].pc = "schedule" /\ req[a].sent /\ extra'
         /\ UNCHANGED <<clock, sub, since, watchdog, sweep, mails, delivered, unsent, dropped>>
<1>1. req[a].pc = "outcome" /\ req'[a].kind = req[a].kind /\ req'[a].at = req[a].at
      /\ req'[a].dog = req[a].dog
  BY RowsSeen, GotoDoes DEF RecordOutcome, Touch, mailVars, termVars, Requests
<1>2. orderRow'.status = orderRow.status /\ orderRow'.updated \in {orderRow.updated, clock}
  BY RowsSeen, GotoDoes DEF RecordOutcome, Touch, mailVars, termVars, Requests
<1>3. \/ req'[a].pc = "order" /\ req[a].sent /\ (extra' <=> extra)
      \/ req'[a].pc = "schedule" /\ ~req[a].sent /\ (extra' <=> extra)
      \/ req'[a].pc = "schedule" /\ req[a].sent /\ extra'
  BY RowsSeen, GotoDoes DEF RecordOutcome, Touch, mailVars, termVars, Requests
<1>4. UNCHANGED <<clock, sub, since, watchdog, sweep, mails, delivered, unsent, dropped>>
  BY RowsSeen, GotoDoes DEF RecordOutcome, Touch, mailVars, termVars, Requests
<1>5. QED
  BY <1>1, <1>2, <1>3, <1>4

\* ... and leaves a failed mail to the watchdog unless its work was done or an error hides it.
LEMMA ScheduleDoes ==
  ASSUME DeliveriesTyped, NEW a \in Staff, Schedule(a)
  PROVE  /\ req[a].pc = "schedule" /\ req'[a].pc = "order" /\ req'[a].kind = req[a].kind
            /\ req'[a].at = req[a].at /\ req'[a].dog = req[a].dog
         /\ orderRow'.status = orderRow.status /\ orderRow'.updated \in {orderRow.updated, clock}
         /\ \/ req[a].dog = "done" /\ watchdog' = watchdog /\ (dropped' <=> dropped)
            \/ watchdog' = "pending" /\ (dropped' <=> dropped)
            \/ watchdog' = watchdog /\ dropped'
         /\ UNCHANGED <<clock, sub, since, sweep, mails, delivered, unsent, extra>>
<1>1. req[a].pc = "schedule" /\ req'[a].pc = "order" /\ req'[a].kind = req[a].kind
      /\ req'[a].at = req[a].at /\ req'[a].dog = req[a].dog
  BY RowsSeen, GotoDoes DEF Schedule, Touch, mailVars, termVars, Requests
<1>2. orderRow'.status = orderRow.status /\ orderRow'.updated \in {orderRow.updated, clock}
  BY RowsSeen, GotoDoes DEF Schedule, Touch, mailVars, termVars, Requests
<1>3. \/ req[a].dog = "done" /\ watchdog' = watchdog /\ (dropped' <=> dropped)
      \/ watchdog' = "pending" /\ (dropped' <=> dropped)
      \/ watchdog' = watchdog /\ dropped'
  BY RowsSeen, GotoDoes DEF Schedule, Touch, mailVars, termVars, Requests
<1>4. UNCHANGED <<clock, sub, since, sweep, mails, delivered, unsent, extra>>
  BY RowsSeen, GotoDoes DEF Schedule, Touch, mailVars, termVars, Requests
<1>5. QED
  BY <1>1, <1>2, <1>3, <1>4

\* A replay begins with the dates or with the mail.
LEMMA BeginReplayDoes ==
  ASSUME DeliveriesTyped, NEW a \in Staff, BeginReplay(a)
  PROVE  /\ orderRow.status = "delivered" /\ req[a].pc = "idle"
         /\ req'[a].pc \in {"order", "resend"} /\ req'[a].kind = "replay" /\ req'[a].dog = "none"
         /\ UNCHANGED <<clock, orderRow, sub, since, watchdog, sweep, mails, delivered, unsent,
                        extra, dropped>>
<1>1. orderRow.status = "delivered" /\ req[a].pc = "idle"
  BY RowsSeen DEF BeginReplay, Begin, Idle, mailVars, termVars,
     Requests
<1>2. req'[a].pc \in {"order", "resend"} /\ req'[a].kind = "replay" /\ req'[a].dog = "none"
  BY RowsSeen DEF BeginReplay, Begin, Idle, mailVars, termVars,
     Requests
<1>3. UNCHANGED <<clock, orderRow, sub, since, watchdog, sweep, mails, delivered, unsent, extra,
                  dropped>>
  BY RowsSeen DEF BeginReplay, Begin, Idle, mailVars, termVars,
     Requests
<1>4. QED
  BY <1>1, <1>2, <1>3

\* The date comes from the order or the clock.
LEMMA ReadOrderDoes ==
  ASSUME DeliveriesTyped, NEW a \in Staff, ReadOrder(a)
  PROVE  /\ req[a].pc = "order"
         /\ \/ req'[a].pc \in {"idle", "resend"} /\ req'[a].dog \in {"none", req[a].dog}
            \/ /\ req'[a].pc = "row" /\ req'[a].kind = req[a].kind /\ req'[a].dog = req[a].dog
               /\ req'[a].at \in {orderRow.updated, clock}
         /\ UNCHANGED <<clock, orderRow, sub, since, watchdog, sweep, mails, delivered, unsent,
                        extra, dropped>>
<1>1. req[a].pc = "order"
  BY RowsSeen, AfterDoes DEF ReadOrder, mailVars, termVars, Requests
<1>2. \/ req'[a].pc \in {"idle", "resend"} /\ req'[a].dog \in {"none", req[a].dog}
      \/ /\ req'[a].pc = "row" /\ req'[a].kind = req[a].kind /\ req'[a].dog = req[a].dog
         /\ req'[a].at \in {orderRow.updated, clock}
  BY RowsSeen, AfterDoes DEF ReadOrder, mailVars, termVars, Requests
<1>3. UNCHANGED <<clock, orderRow, sub, since, watchdog, sweep, mails, delivered, unsent, extra,
                  dropped>>
  BY RowsSeen, AfterDoes DEF ReadOrder, mailVars, termVars, Requests
<1>4. QED
  BY <1>1, <1>2, <1>3

\* Only a replay goes on to write dates over an activated subscription.
LEMMA ReadRowDoes ==
  ASSUME DeliveriesTyped, NEW a \in Staff, ReadRow(a)
  PROVE  /\ req[a].pc = "row"
         /\ \/ req'[a].pc \in {"idle", "resend"} /\ req'[a].dog \in {"none", req[a].dog}
            \/ req'[a].pc = "check" /\ req'[a].kind = req[a].kind /\ req'[a].at = req[a].at
               /\ req'[a].dog = req[a].dog
            \/ req'[a].pc = "dates" /\ req[a].kind = "replay" /\ req'[a].kind = req[a].kind
               /\ req'[a].at = req[a].at /\ req'[a].dog = req[a].dog
         /\ UNCHANGED <<clock, orderRow, sub, since, watchdog, sweep, mails, delivered, unsent,
                        extra, dropped>>
<1>1. req[a].pc = "row"
  BY RowsSeen, GotoDoes, AfterDoes DEF ReadRow, mailVars, termVars, Requests
<1>2. \/ req'[a].pc \in {"idle", "resend"} /\ req'[a].dog \in {"none", req[a].dog}
      \/ req'[a].pc = "check" /\ req'[a].kind = req[a].kind /\ req'[a].at = req[a].at
         /\ req'[a].dog = req[a].dog
      \/ req'[a].pc = "dates" /\ req[a].kind = "replay" /\ req'[a].kind = req[a].kind
         /\ req'[a].at = req[a].at /\ req'[a].dog = req[a].dog
  <2>1. After(a) \/ Goto(a, "check") \/ (Goto(a, "dates") /\ req[a].kind = "replay")
    BY DEF ReadRow
  <2>2. QED
    BY <2>1, GotoDoes, AfterDoes
<1>3. UNCHANGED <<clock, orderRow, sub, since, watchdog, sweep, mails, delivered, unsent, extra,
                  dropped>>
  BY RowsSeen, GotoDoes, AfterDoes DEF ReadRow, mailVars, termVars, Requests
<1>4. QED
  BY <1>1, <1>2, <1>3

\* It writes a full term from its date.
LEMMA WriteDatesDoes ==
  ASSUME DeliveriesTyped, NEW a \in Staff, WriteDates(a)
  PROVE  /\ req[a].pc = "dates" /\ req'[a].pc \in {"idle", "resend"} /\ req'[a].dog \in {"none",
            req[a].dog}
         /\ sub'.start = req[a].at /\ sub'.end = req[a].at + TermLength
         /\ since'.first = since.first /\ since'.date = since.date /\ since'.paid = since.paid
         /\ req[a].kind = "replay" => since'.reset
         /\ UNCHANGED <<clock, orderRow, watchdog, sweep, mails, delivered, unsent, extra, dropped>>
<1>1. req[a].pc = "dates" /\ req'[a].pc \in {"idle", "resend"} /\ req'[a].dog \in {"none",
      req[a].dog}
  BY RowsSeen, AfterDoes DEF WriteDates, mailVars, termVars, Requests
<1>2. sub'.start = req[a].at /\ sub'.end = req[a].at + TermLength
  BY RowsSeen, AfterDoes DEF WriteDates, mailVars, termVars, Requests
<1>3. since'.first = since.first /\ since'.date = since.date /\ since'.paid = since.paid
  BY RowsSeen, AfterDoes DEF WriteDates, mailVars, termVars, Requests
<1>4. req[a].kind = "replay" => since'.reset
  BY RowsSeen, AfterDoes DEF WriteDates, mailVars, termVars, Requests
<1>5. UNCHANGED <<clock, orderRow, watchdog, sweep, mails, delivered, unsent, extra, dropped>>
  BY RowsSeen, AfterDoes DEF WriteDates, mailVars, termVars, Requests
<1>6. QED
  BY <1>1, <1>2, <1>3, <1>4, <1>5

\* A mail that is asked for is an extra one.
LEMMA ResendDoes ==
  ASSUME DeliveriesTyped, NEW a \in Staff, Resend(a)
  PROVE  /\ req[a].pc = "resend"
         /\ \/ req'[a].pc = "idle" /\ req'[a].dog = "none" /\ UNCHANGED <<mails, unsent, extra>>
            \/ /\ req'[a].pc = "record" /\ req'[a].dog = req[a].dog /\ extra'
               /\ UNCHANGED <<mails, unsent>> \/ (mails' = mails + 1 /\ ~unsent')
         /\ UNCHANGED <<clock, orderRow, sub, since, watchdog, sweep, delivered, dropped>>
<1>1. req[a].pc = "resend"
  BY RowsSeen, FinishDoes, GotoDoes DEF Resend, Mail, mailVars, termVars, Requests
<1>2. \/ req'[a].pc = "idle" /\ req'[a].dog = "none" /\ UNCHANGED <<mails, unsent, extra>>
      \/ /\ req'[a].pc = "record" /\ req'[a].dog = req[a].dog /\ extra'
         /\ UNCHANGED <<mails, unsent>> \/ (mails' = mails + 1 /\ ~unsent')
  <2>1. CASE orderRow.status = "delivered"
    <3>1. PICK sent \in BOOLEAN : Mail(sent)
      BY <2>1 DEF Resend
    <3>2. extra' /\ Goto(a, "record")
      BY <2>1 DEF Resend
    <3>3. QED
      BY RowsSeen, <3>1, <3>2, MailDoes, GotoDoes
  <2>2. CASE orderRow.status # "delivered"
    BY <2>2, FinishDoes DEF Resend
  <2>3. QED
    BY <2>1, <2>2
<1>3. UNCHANGED <<clock, orderRow, sub, since, watchdog, sweep, delivered, dropped>>
  BY RowsSeen, FinishDoes, GotoDoes DEF Resend, Mail, mailVars, termVars, Requests
<1>4. QED
  BY <1>1, <1>2, <1>3

\* Its record touches the order.
LEMMA RecordResendDoes ==
  ASSUME DeliveriesTyped, NEW a \in Staff, RecordResend(a)
  PROVE  /\ req[a].pc = "record" /\ req'[a].pc = "idle" /\ req'[a].dog = "none"
         /\ orderRow'.status = orderRow.status /\ orderRow'.updated = clock
         /\ UNCHANGED <<clock, sub, since, watchdog, sweep, mails, delivered, unsent, extra,
                        dropped>>
<1>1. req[a].pc = "record" /\ req'[a].pc = "idle" /\ req'[a].dog = "none"
  BY RowsSeen, FinishDoes DEF RecordResend, Touch, mailVars, termVars, Requests
<1>2. orderRow'.status = orderRow.status /\ orderRow'.updated = clock
  BY RowsSeen, FinishDoes DEF RecordResend, Touch, mailVars, termVars, Requests
<1>3. UNCHANGED <<clock, sub, since, watchdog, sweep, mails, delivered, unsent, extra, dropped>>
  BY RowsSeen, FinishDoes DEF RecordResend, Touch, mailVars, termVars, Requests
<1>4. QED
  BY <1>1, <1>2, <1>3

\* A change by hand begins, ...
LEMMA BeginStatusDoes ==
  ASSUME DeliveriesTyped, NEW a \in Staff, BeginStatus(a)
  PROVE  /\ req[a].pc = "idle" /\ req'[a].pc = "check" /\ req'[a].kind = "status"
            /\ req'[a].dog = "none"
         /\ UNCHANGED <<clock, orderRow, sub, since, watchdog, sweep, mails, delivered, unsent,
                        extra, dropped>>
<1>1. req[a].pc = "idle" /\ req'[a].pc = "check" /\ req'[a].kind = "status" /\ req'[a].dog = "none"
  BY RowsSeen DEF BeginStatus, Begin, Idle, mailVars, termVars,
     Requests
<1>2. UNCHANGED <<clock, orderRow, sub, since, watchdog, sweep, mails, delivered, unsent, extra,
                  dropped>>
  BY RowsSeen DEF BeginStatus, Begin, Idle, mailVars, termVars,
     Requests
<1>3. QED
  BY <1>1, <1>2

\* ... goes on only from a status that is not cancelled, ...
LEMMA CheckTransitionDoes ==
  ASSUME DeliveriesTyped, NEW a \in Staff, CheckTransition(a)
  PROVE  /\ req[a].pc = "check"
         /\ \/ req'[a].pc \in {"idle", "resend"} /\ req'[a].dog \in {"none", req[a].dog}
            \/ /\ req'[a].pc = "set" /\ req'[a].previous = sub.status /\ sub.status # "cancelled"
               /\ req'[a].kind = req[a].kind /\ req'[a].at = req[a].at /\ req'[a].dog = req[a].dog
         /\ UNCHANGED <<clock, orderRow, sub, since, watchdog, sweep, mails, delivered, unsent,
                        extra, dropped>>
<1>1. req[a].pc = "check"
  BY RowsSeen, AfterDoes DEF CheckTransition, Transitions, mailVars, termVars,
     Requests
<1>2. \/ req'[a].pc \in {"idle", "resend"} /\ req'[a].dog \in {"none", req[a].dog}
      \/ /\ req'[a].pc = "set" /\ req'[a].previous = sub.status /\ sub.status # "cancelled"
         /\ req'[a].kind = req[a].kind /\ req'[a].at = req[a].at /\ req'[a].dog = req[a].dog
  BY RowsSeen, AfterDoes DEF CheckTransition, Transitions, mailVars, termVars,
     Requests
<1>3. UNCHANGED <<clock, orderRow, sub, since, watchdog, sweep, mails, delivered, unsent, extra,
                  dropped>>
  BY RowsSeen, AfterDoes DEF CheckTransition, Transitions, mailVars, termVars,
     Requests
<1>4. QED
  BY <1>1, <1>2, <1>3

\* ... and writes the target; a delivery's writes a full term too.
LEMMA SetStatusDoes ==
  ASSUME DeliveriesTyped, NEW a \in Staff, SetStatus(a)
  PROVE  /\ req[a].pc = "set" /\ req'[a].pc \in {"idle", "resend"} /\ req'[a].dog \in {"none",
            req[a].dog}
         /\ \/ /\ req[a].kind = "status" /\ UNCHANGED since
               /\ sub'.start = sub.start /\ sub'.end = sub.end
            \/ /\ req[a].kind # "status"
               /\ sub'.start = req[a].at /\ sub'.end = req[a].at + TermLength
               /\ \/ since'.date = req[a].at /\ since'.paid = 1 /\ ~since'.reset
                  \/ since'.date = since.date /\ since'.paid = since.paid /\ since'.reset
         /\ since'.first = since.first
         /\ UNCHANGED <<clock, orderRow, watchdog, sweep, mails, delivered, unsent, extra, dropped>>
<1>1. req[a].pc = "set" /\ req'[a].pc \in {"idle", "resend"} /\ req'[a].dog \in {"none", req[a].dog}
  BY RowsSeen, AfterDoes DEF SetStatus, mailVars, termVars, Requests
<1>2. \/ /\ req[a].kind = "status" /\ UNCHANGED since
         /\ sub'.start = sub.start /\ sub'.end = sub.end
      \/ /\ req[a].kind # "status"
         /\ sub'.start = req[a].at /\ sub'.end = req[a].at + TermLength
         /\ \/ since'.date = req[a].at /\ since'.paid = 1 /\ ~since'.reset
            \/ since'.date = since.date /\ since'.paid = since.paid /\ since'.reset
  BY RowsSeen, AfterDoes DEF SetStatus, mailVars, termVars, Requests
<1>3. since'.first = since.first
  BY RowsSeen, AfterDoes DEF SetStatus, mailVars, termVars, Requests
<1>4. UNCHANGED <<clock, orderRow, watchdog, sweep, mails, delivered, unsent, extra, dropped>>
  BY RowsSeen, AfterDoes DEF SetStatus, mailVars, termVars, Requests
<1>5. QED
  BY <1>1, <1>2, <1>3, <1>4

\* A renewal's task is completed ...
LEMMA CompleteRenewalDoes ==
  ASSUME DeliveriesTyped, NEW a \in Staff, CompleteRenewal(a)
  PROVE  /\ req[a].pc = "idle" /\ req'[a].pc = "fulfil" /\ req'[a].dog = "none"
         /\ UNCHANGED <<clock, orderRow, sub, since, watchdog, sweep, mails, delivered, unsent,
                        extra, dropped>>
<1>1. req[a].pc = "idle" /\ req'[a].pc = "fulfil" /\ req'[a].dog = "none"
  BY RowsSeen DEF CompleteRenewal, Idle, mailVars, termVars, Requests
<1>2. UNCHANGED <<clock, orderRow, sub, since, watchdog, sweep, mails, delivered, unsent, extra,
                  dropped>>
  BY RowsSeen DEF CompleteRenewal, Idle, mailVars, termVars, Requests
<1>3. QED
  BY <1>1, <1>2

\* ... and counts a full term from then.
LEMMA FulfilRenewalDoes ==
  ASSUME DeliveriesTyped, NEW a \in Staff, FulfilRenewal(a)
  PROVE  /\ req[a].pc = "fulfil" /\ req'[a].pc = "idle" /\ req'[a].dog = "none"
         /\ \/ UNCHANGED <<sub, since>>
            \/ /\ req[a].at > sub.start /\ since'.reset
               /\ since'.date = since.date /\ since'.paid = since.paid
               /\ sub'.start = req[a].at /\ sub'.end = req[a].at + TermLength
         /\ since'.first = since.first
         /\ UNCHANGED <<clock, orderRow, watchdog, sweep, mails, delivered, unsent, extra, dropped>>
<1>1. req[a].pc = "fulfil" /\ req'[a].pc = "idle" /\ req'[a].dog = "none"
  BY RowsSeen, FinishDoes DEF FulfilRenewal, mailVars, termVars, Requests
<1>2. \/ UNCHANGED <<sub, since>>
      \/ /\ req[a].at > sub.start /\ since'.reset
         /\ since'.date = since.date /\ since'.paid = since.paid
         /\ sub'.start = req[a].at /\ sub'.end = req[a].at + TermLength
  BY RowsSeen, FinishDoes DEF FulfilRenewal, mailVars, termVars, Requests
<1>3. since'.first = since.first
  BY RowsSeen, FinishDoes DEF FulfilRenewal, mailVars, termVars, Requests
<1>4. UNCHANGED <<clock, orderRow, watchdog, sweep, mails, delivered, unsent, extra, dropped>>
  BY RowsSeen, FinishDoes DEF FulfilRenewal, mailVars, termVars, Requests
<1>5. QED
  BY <1>1, <1>2, <1>3, <1>4

-----------------------------------------------------------------------------
(* The dates                                                                *)

\* The date of the first delivery stands.
FirstStands == delivered' >= delivered /\ (delivered > 0 => since'.first = since.first)

\* A request that has not moved still knows its date: the first one never changes.
LEMMA OthersDates ==
  ASSUME DeliveriesTyped, DeliveriesTyped', NEW b \in Staff, DateKnown(b),
         req'[b] = req[b], delivered' >= delivered,
         delivered > 0 => since'.first = since.first
  PROVE  DateKnown(b)'
  BY DEF DateKnown, DeliveriesTyped, DeliveryTypeOK, Requests

\* Every step keeps the dates known, and the first one.
LEMMA DatesStep ==
  ASSUME DeliveriesTyped, DeliveriesTyped', DatesFromDelivery, [DeliveryNext]_deliveryVars
  PROVE  DatesFromDelivery' /\ FirstStands
<1> DEFINE OrderDated ==
      /\ orderRow.status = "delivered" => delivered > 0
      /\ delivered > 0 => clock >= since.first /\ orderRow.updated >= since.first
<1> USE DEF FirstStands
<1>a. /\ clock \in Nat /\ orderRow.updated \in Nat /\ since.first \in Nat /\ delivered \in Nat
      /\ orderRow \in [status : {"in_process", "delivered"}, updated : Nat]
      /\ since \in [first : Nat, date : Nat, paid : Nat, reset : BOOLEAN]
      /\ req \in [Staff -> Requests] /\ OrderDated /\ \A a \in Staff : DateKnown(a)
  BY DEF DeliveriesTyped, DeliveryTypeOK, DatesFromDelivery
<1>1. ASSUME NEW a \in Staff, BeginDelivery(a) PROVE OrderDated' /\ FirstStands /\ DateKnown(a)'
  BY <1>1, <1>a, BeginDeliveryDoes DEF DateKnown
<1>2. ASSUME NEW a \in Staff, MarkDelivered(a) PROVE OrderDated' /\ FirstStands /\ DateKnown(a)'
  <2>1. OrderDated' /\ FirstStands
    <3>1. /\ orderRow'.updated = clock /\ clock' = clock
          /\ since'.first = IF delivered = 0 THEN clock ELSE since.first
      BY <1>2, MarkDeliveredDoes
    <3>2. /\ orderRow.status = "delivered" => delivered' = delivered /\ delivered > 0
          /\ orderRow.status # "delivered" => delivered' = delivered + 1
      BY <1>2, <1>a, MarkDeliveredDoes
    <3>3. QED
      BY <1>a, <3>1, <3>2
  <2>2. DateKnown(a)'
    BY <1>2, <1>a, MarkDeliveredDoes, <2>1 DEF DateKnown
  <2>3. QED
    BY <2>1, <2>2
<1>3. ASSUME NEW a \in Staff, SendMail(a) PROVE OrderDated' /\ FirstStands /\ DateKnown(a)'
  BY <1>3, <1>a, SendMailDoes DEF DateKnown
<1>4. ASSUME NEW a \in Staff, RecordOutcome(a) PROVE OrderDated' /\ FirstStands /\ DateKnown(a)'
  <2>1. OrderDated' /\ FirstStands
    BY <1>4, <1>a, RecordOutcomeDoes
  <2>2. DateKnown(a)'
    BY <1>4, <1>a, RecordOutcomeDoes, <2>1 DEF DateKnown
  <2>3. QED
    BY <2>1, <2>2
<1>5. ASSUME NEW a \in Staff, Schedule(a) PROVE OrderDated' /\ FirstStands /\ DateKnown(a)'
  <2>1. OrderDated' /\ FirstStands
    BY <1>5, <1>a, ScheduleDoes
  <2>2. DateKnown(a)'
    BY <1>5, <1>a, ScheduleDoes, <2>1 DEF DateKnown
  <2>3. QED
    BY <2>1, <2>2
<1>6. ASSUME NEW a \in Staff, BeginReplay(a) PROVE OrderDated' /\ FirstStands /\ DateKnown(a)'
  BY <1>6, <1>a, BeginReplayDoes DEF DateKnown
<1>7. ASSUME NEW a \in Staff, ReadOrder(a) PROVE OrderDated' /\ FirstStands /\ DateKnown(a)'
  BY <1>7, <1>a, ReadOrderDoes DEF DateKnown
<1>8. ASSUME NEW a \in Staff, ReadRow(a) PROVE OrderDated' /\ FirstStands /\ DateKnown(a)'
  BY <1>8, <1>a, ReadRowDoes DEF DateKnown
<1>9. ASSUME NEW a \in Staff, WriteDates(a) PROVE OrderDated' /\ FirstStands /\ DateKnown(a)'
  <2>1. OrderDated' /\ FirstStands
    BY <1>9, <1>a, WriteDatesDoes
  <2>2. DateKnown(a)'
    BY <1>9, <1>a, WriteDatesDoes, <2>1 DEF DateKnown
  <2>3. QED
    BY <2>1, <2>2
<1>10. ASSUME NEW a \in Staff, Resend(a) PROVE OrderDated' /\ FirstStands /\ DateKnown(a)'
  BY <1>10, <1>a, ResendDoes DEF DateKnown
<1>11. ASSUME NEW a \in Staff, RecordResend(a) PROVE OrderDated' /\ FirstStands /\ DateKnown(a)'
  BY <1>11, <1>a, RecordResendDoes DEF DateKnown
<1>12. ASSUME NEW a \in Staff, BeginStatus(a) PROVE OrderDated' /\ FirstStands /\ DateKnown(a)'
  BY <1>12, <1>a, BeginStatusDoes DEF DateKnown
<1>13. ASSUME NEW a \in Staff, CheckTransition(a) PROVE OrderDated' /\ FirstStands /\ DateKnown(a)'
  BY <1>13, <1>a, CheckTransitionDoes DEF DateKnown
<1>14. ASSUME NEW a \in Staff, SetStatus(a) PROVE OrderDated' /\ FirstStands /\ DateKnown(a)'
  <2>1. OrderDated' /\ FirstStands
    BY <1>14, <1>a, SetStatusDoes
  <2>2. DateKnown(a)'
    BY <1>14, <1>a, SetStatusDoes, <2>1 DEF DateKnown
  <2>3. QED
    BY <2>1, <2>2
<1>15. ASSUME NEW a \in Staff, CompleteRenewal(a) PROVE OrderDated' /\ FirstStands /\ DateKnown(a)'
  BY <1>15, <1>a, CompleteRenewalDoes DEF DateKnown
<1>16. ASSUME NEW a \in Staff, FulfilRenewal(a) PROVE OrderDated' /\ FirstStands /\ DateKnown(a)'
  <2>1. OrderDated' /\ FirstStands
    BY <1>16, <1>a, FulfilRenewalDoes
  <2>2. DateKnown(a)'
    BY <1>16, <1>a, FulfilRenewalDoes, <2>1 DEF DateKnown
  <2>3. QED
    BY <2>1, <2>2
<1>17. ASSUME BeginSweep PROVE OrderDated' /\ FirstStands /\ UNCHANGED req
  BY <1>17, <1>a DEF BeginSweep, mailVars, termVars
<1>18. ASSUME SweepMail PROVE OrderDated' /\ FirstStands /\ UNCHANGED req
  <2>1. UNCHANGED <<clock, orderRow, sub, since, req, delivered>>
    BY <1>18, Zenon DEF SweepMail, termVars
  <2>2. QED
    BY <2>1, <1>a
<1>19. ASSUME SweepRecord PROVE OrderDated' /\ FirstStands /\ UNCHANGED req
  BY <1>19, <1>a DEF SweepRecord, Touch, mailVars, termVars
<1>20. ASSUME SweepSettle PROVE OrderDated' /\ FirstStands /\ UNCHANGED req
  BY <1>20, <1>a DEF SweepSettle, Touch, termVars
<1>21. ASSUME SweepFails PROVE OrderDated' /\ FirstStands /\ UNCHANGED req
  BY <1>21, <1>a DEF SweepFails, mailVars, termVars
<1>22. ASSUME Reopen PROVE OrderDated' /\ FirstStands /\ UNCHANGED req
  BY <1>22, <1>a DEF Reopen, mailVars, termVars
<1>23. ASSUME ChangeCredentials PROVE OrderDated' /\ FirstStands /\ UNCHANGED req
  BY <1>23, <1>a DEF ChangeCredentials, mailVars, termVars
<1>24. ASSUME Renew PROVE OrderDated' /\ FirstStands /\ UNCHANGED req
  BY <1>24, <1>a DEF Renew, mailVars, termVars
<1>25. ASSUME Expire PROVE OrderDated' /\ FirstStands /\ UNCHANGED req
  BY <1>25, <1>a DEF Expire, mailVars, termVars
<1>26. ASSUME Tick PROVE OrderDated' /\ FirstStands /\ UNCHANGED req
  BY <1>26, <1>a DEF Tick, mailVars, termVars
<1>27. CASE UNCHANGED deliveryVars
  BY <1>27, <1>a DEF deliveryVars, DatesFromDelivery, DateKnown
<1>33. ASSUME SweepAsk PROVE OrderDated' /\ FirstStands /\ UNCHANGED req
  BY <1>33, <1>a DEF SweepAsk, mailVars, termVars
<1>34. ASSUME CompleteMailTask PROVE OrderDated' /\ FirstStands /\ UNCHANGED req
  BY <1>34, <1>a DEF CompleteMailTask, termVars
<1>28. ASSUME NEW a \in Staff, OrderDated', FirstStands, DateKnown(a)', Moves(a)
      PROVE  DatesFromDelivery'
  <2>1. \A b \in Staff \ {a} : req'[b] = req[b]
    BY <1>28, <1>a DEF Moves
  <2>2. \A b \in Staff : DateKnown(b)'
    BY <1>28, <1>a, <2>1, OthersDates
  <2>3. QED
    BY <1>28, <2>2 DEF DatesFromDelivery
<1>29. ASSUME OrderDated', FirstStands, UNCHANGED req
      PROVE  DatesFromDelivery'
  <2>1. \A b \in Staff : DateKnown(b)'
    BY <1>29, <1>a, OthersDates
  <2>2. QED
    BY <1>29, <2>1 DEF DatesFromDelivery
<1>30. ASSUME NEW a \in Staff, Request(a) PROVE DatesFromDelivery' /\ FirstStands
  BY <1>30, <1>28, RequestMoves, <1>1, <1>2, <1>3, <1>4, <1>5, <1>6, <1>7, <1>8, <1>9, <1>10,
     <1>11, <1>12, <1>13, <1>14, <1>15, <1>16 DEF Request
<1>31. CASE UNCHANGED deliveryVars
  BY <1>27, <1>31, <1>a DEF deliveryVars
<1>32. QED
  BY <1>31, <1>29, <1>30, <1>17, <1>18, <1>19, <1>20, <1>21, <1>22, <1>23, <1>24, <1>25, <1>26,
     <1>33, <1>34
     DEF DeliveryNext, Request

-----------------------------------------------------------------------------
(* The terms and the statuses                                               *)

\* One more term is one length more.
LEMMA OneTermMore ==
  ASSUME NEW n \in Nat
  PROVE  TermLength * (n + 1) = TermLength * n + TermLength
  BY SubscriptionDeliveryAssumption

\* Every step keeps the term that was given.
LEMMA TermStep ==
  ASSUME DeliveriesTyped, DeliveriesTyped', DatesFromDelivery, TermKept, FirstStands,
  [DeliveryNext]_deliveryVars
  PROVE  TermKept'
<1> DEFINE Owed == IF since.reset THEN since.first + TermLength
                   ELSE since.date + TermLength * since.paid
<1>a. /\ TermLength \in Nat /\ delivered \in Nat /\ clock \in Nat
      /\ sub \in [status : Statuses, credentials : BOOLEAN, start : Nat, end : Nat]
      /\ since \in [first : Nat, date : Nat, paid : Nat, reset : BOOLEAN]
      /\ req \in [Staff -> Requests] /\ delivered' \in Nat
      /\ since' \in [first : Nat, date : Nat, paid : Nat, reset : BOOLEAN]
  BY SubscriptionDeliveryAssumption DEF DeliveriesTyped, DeliveryTypeOK
<1>b. ASSUME UNCHANGED <<sub.start, sub.end, since.date, since.paid, since.reset>> PROVE TermKept'
  BY <1>a, <1>b DEF TermKept, FirstStands
<1>1. ASSUME NEW a \in Staff, SetStatus(a) PROVE TermKept'
  <2>1. CASE req[a].kind = "status"
    BY <1>1, <1>b, <2>1, SetStatusDoes
  <2>2. CASE req[a].kind # "status"
    <3>1. delivered > 0 /\ req[a].at >= since.first /\ req[a].at \in Nat
      BY <1>1, <1>a, <2>2 DEF SetStatus, DatesFromDelivery, DateKnown, Requests
    <3>2. sub'.start = req[a].at /\ sub'.end = req[a].at + TermLength /\ since'.first = since.first
      BY <1>1, <2>2, SetStatusDoes
    <3>3. \/ since'.date = req[a].at /\ since'.paid = 1 /\ ~since'.reset
          \/ since'.reset
      BY <1>1, <2>2, SetStatusDoes
    <3>4. TermLength * 1 = TermLength
      BY <1>a
    <3>5. delivered' = delivered
      BY <1>1, SetStatusDoes
    <3>6. QED
      BY <1>a, <3>1, <3>2, <3>3, <3>4, <3>5 DEF TermKept
  <2>3. QED
    BY <2>1, <2>2
<1>2. ASSUME NEW a \in Staff, WriteDates(a) PROVE TermKept'
  <2>1. delivered > 0 /\ req[a].at >= since.first /\ req[a].at \in Nat /\ req[a].kind = "replay"
    BY <1>2, <1>a DEF WriteDates, DatesFromDelivery, DateKnown, Requests
  <2>2. QED
    BY <1>2, <1>a, <2>1, WriteDatesDoes DEF TermKept
<1>3. ASSUME NEW a \in Staff, FulfilRenewal(a) PROVE TermKept'
  <2>1. req[a].at \in Nat
    BY <1>a DEF Requests
  <2>2. CASE UNCHANGED <<sub, since>>
    BY <1>b, <2>2
  <2>3. CASE ~UNCHANGED <<sub, since>>
    BY <1>3, <1>a, <2>1, <2>3, FulfilRenewalDoes DEF TermKept
  <2>4. QED
    BY <2>2, <2>3
<1>4. CASE Renew
  <2>1. sub'.end = Max({sub.end, clock}) + TermLength /\ sub'.start = sub.start
    BY <1>4, <1>a DEF Renew
  <2>2. sub'.end >= sub.end + TermLength
    BY <2>1, <1>a, LaterOfTwo
  <2>8. sub'.end \in Nat /\ sub.end \in Nat /\ since.first \in Nat
    BY <1>a, <2>1, LaterOfTwo
  <2>3. /\ since'.first = since.first /\ since'.date = since.date /\ since'.reset = since.reset
        /\ since'.paid = IF since.paid = 0 THEN 0 ELSE since.paid + 1
    BY <1>4, <1>a DEF Renew
  <2>4. TermLength * (since.paid + 1) = TermLength * since.paid + TermLength
    BY <1>a, OneTermMore
  <2>5. delivered' = delivered
    BY <1>4 DEF Renew, mailVars
  <2>6. ASSUME since'.paid > 0
        PROVE  /\ sub'.end >= IF since.reset THEN since.first + TermLength
                               ELSE since.date + TermLength * since'.paid
               /\ delivered > 0 /\ sub.start >= since.first
    <3>1. since.paid > 0 /\ since'.paid = since.paid + 1
      BY <2>3, <2>6, <1>a
    <3>2. delivered > 0 /\ sub.start >= since.first /\ sub.end >= Owed
      BY <3>1 DEF TermKept
    <3>3. CASE since.reset
      BY <1>a, <2>2, <2>8, <3>2, <3>3
    <3>4. CASE ~since.reset
      <4> DEFINE p == TermLength * since.paid
      <4>1. p \in Nat
        BY <1>a
      <4>2. TermLength * since'.paid = p + TermLength
        BY <2>4, <3>1
      <4>3. sub.end >= since.date + p
        BY <3>2, <3>4
      <4>4. sub'.end \in Nat /\ sub.end \in Nat /\ since.date \in Nat
        BY <1>a, <2>1, LaterOfTwo
      <4>5. sub'.end >= since.date + (p + TermLength)
        <5> HIDE DEF p
        <5> QED
          BY <1>a, <2>2, <4>1, <4>3, <4>4
      <4>6. QED
        BY <3>2, <3>4, <4>2, <4>5
    <3>5. QED
      BY <3>3, <3>4
  <2>7. QED
    BY <2>1, <2>3, <2>5, <2>6 DEF TermKept
<1>5. CASE ChangeCredentials
  BY <1>5, <1>a, <1>b DEF ChangeCredentials
<1>6. CASE Expire
  BY <1>6, <1>a, <1>b DEF Expire
<1>7. ASSUME NEW a \in Staff, BeginDelivery(a) PROVE TermKept'
  BY <1>7, <1>b, BeginDeliveryDoes
<1>8. ASSUME NEW a \in Staff, MarkDelivered(a) PROVE TermKept'
  BY <1>8, <1>b, MarkDeliveredDoes
<1>9. ASSUME NEW a \in Staff, SendMail(a) PROVE TermKept'
  BY <1>9, <1>b, SendMailDoes
<1>10. ASSUME NEW a \in Staff, RecordOutcome(a) PROVE TermKept'
  BY <1>10, <1>b, RecordOutcomeDoes
<1>11. ASSUME NEW a \in Staff, Schedule(a) PROVE TermKept'
  BY <1>11, <1>b, ScheduleDoes
<1>12. ASSUME NEW a \in Staff, BeginReplay(a) PROVE TermKept'
  BY <1>12, <1>b, BeginReplayDoes
<1>13. ASSUME NEW a \in Staff, ReadOrder(a) PROVE TermKept'
  BY <1>13, <1>b, ReadOrderDoes
<1>14. ASSUME NEW a \in Staff, ReadRow(a) PROVE TermKept'
  BY <1>14, <1>b, ReadRowDoes
<1>15. ASSUME NEW a \in Staff, Resend(a) PROVE TermKept'
  BY <1>15, <1>b, ResendDoes
<1>16. ASSUME NEW a \in Staff, RecordResend(a) PROVE TermKept'
  BY <1>16, <1>b, RecordResendDoes
<1>17. ASSUME NEW a \in Staff, BeginStatus(a) PROVE TermKept'
  BY <1>17, <1>b, BeginStatusDoes
<1>18. ASSUME NEW a \in Staff, CheckTransition(a) PROVE TermKept'
  BY <1>18, <1>b, CheckTransitionDoes
<1>19. ASSUME NEW a \in Staff, CompleteRenewal(a) PROVE TermKept'
  BY <1>19, <1>b, CompleteRenewalDoes
<1>20. CASE BeginSweep
  BY <1>20, <1>b DEF BeginSweep, termVars
<1>21. CASE SweepMail
  BY <1>21, <1>b DEF SweepMail, termVars
<1>22. CASE SweepRecord
  BY <1>22, <1>b DEF SweepRecord, termVars
<1>23. CASE SweepSettle
  BY <1>23, <1>b DEF SweepSettle, termVars
<1>24. CASE SweepFails
  BY <1>24, <1>b DEF SweepFails, termVars
<1>25. CASE Reopen
  BY <1>25, <1>b DEF Reopen, termVars
<1>26. CASE Tick
  BY <1>26, <1>b DEF Tick, termVars
<1>27. CASE UNCHANGED deliveryVars
  BY <1>27, <1>b DEF deliveryVars
<1>28. CASE SweepAsk
  BY <1>28, <1>b DEF SweepAsk, mailVars, termVars
<1>29. CASE CompleteMailTask
  BY <1>29, <1>b DEF CompleteMailTask, termVars
<1>30. QED
  BY <1>1, <1>2, <1>3, <1>4, <1>5, <1>6, <1>7, <1>8, <1>9, <1>10, <1>11, <1>12, <1>13, <1>14,
     <1>15, <1>16, <1>17, <1>18, <1>19, <1>20, <1>21, <1>22, <1>23, <1>24, <1>25, <1>26, <1>27,
     <1>28, <1>29
     DEF DeliveryNext

\* Every step keeps the writers of statuses honest.
LEMMA CancelledStep ==
  ASSUME DeliveriesTyped, NoneFromCancelled, [DeliveryNext]_deliveryVars
  PROVE  NoneFromCancelled'
<1>1. ASSUME NEW a \in Staff, Request(a) PROVE req'[a].pc = "set" => req'[a].previous # "cancelled"
  <2>1. CASE BeginDelivery(a)
    BY <2>1, BeginDeliveryDoes
  <2>2. CASE MarkDelivered(a)
    BY <2>2, MarkDeliveredDoes
  <2>3. CASE SendMail(a)
    BY <2>3, SendMailDoes
  <2>4. CASE RecordOutcome(a)
    BY <2>4, RecordOutcomeDoes
  <2>5. CASE Schedule(a)
    BY <2>5, ScheduleDoes
  <2>6. CASE BeginReplay(a)
    BY <2>6, BeginReplayDoes
  <2>7. CASE ReadOrder(a)
    BY <2>7, ReadOrderDoes
  <2>8. CASE ReadRow(a)
    BY <2>8, ReadRowDoes
  <2>9. CASE WriteDates(a)
    BY <2>9, WriteDatesDoes
  <2>10. CASE Resend(a)
    BY <2>10, ResendDoes
  <2>11. CASE RecordResend(a)
    BY <2>11, RecordResendDoes
  <2>12. CASE BeginStatus(a)
    BY <2>12, BeginStatusDoes
  <2>13. CASE CheckTransition(a)
    BY <2>13, CheckTransitionDoes
  <2>14. CASE SetStatus(a)
    BY <2>14, SetStatusDoes
  <2>15. CASE CompleteRenewal(a)
    BY <2>15, CompleteRenewalDoes
  <2>16. CASE FulfilRenewal(a)
    BY <2>16, FulfilRenewalDoes
  <2>17. QED
    BY <1>1, <2>1, <2>2, <2>3, <2>4, <2>5, <2>6, <2>7, <2>8, <2>9, <2>10, <2>11, <2>12, <2>13,
       <2>14, <2>15, <2>16 DEF Request
<1>2. ASSUME NEW a \in Staff, Request(a) PROVE NoneFromCancelled'
  <2>1. \A b \in Staff \ {a} : req'[b] = req[b]
    BY <1>2, RequestMoves DEF Moves, DeliveriesTyped, DeliveryTypeOK
  <2>2. QED
    BY <1>1, <1>2, <2>1 DEF NoneFromCancelled
<1>3. CASE UNCHANGED req
  BY <1>3 DEF NoneFromCancelled
<1>4. QED
  BY <1>2, <1>3 DEF DeliveryNext, Request, deliveryVars, BeginSweep, SweepMail, SweepRecord,
     SweepAsk, SweepSettle, SweepFails, Reopen, ChangeCredentials, Renew, CompleteMailTask,
     Expire, Tick

-----------------------------------------------------------------------------
(* The mails                                                                *)

\* What the sweep does.
LEMMA BeginSweepDoes ==
  ASSUME DeliveriesTyped, BeginSweep
  PROVE  /\ sweep.pc = "idle" /\ watchdog = "pending"
         /\ sweep'.pc = "resend" /\ ~sweep'.sent /\ sweep'.asked = 0
         /\ UNCHANGED <<orderRow, sub, since, clock, watchdog, req, mails, delivered, unsent,
                        extra, dropped>>
  BY DEF BeginSweep, Asleep, mailVars, termVars

\* It mails, or not, ...
LEMMA SweepMailDoes ==
  ASSUME DeliveriesTyped, WatchdogTells, SweepMail
  PROVE  /\ sweep.pc = "resend" /\ sweep'.pc \in {"record", "settle"}
         /\ sweep'.asked = sweep.asked
         /\ \/ ~sweep'.sent /\ UNCHANGED <<mails, unsent>>
            \/ sweep'.sent /\ sweep'.pc = "record" /\ mails' = mails + 1 /\ ~unsent'
         /\ UNCHANGED <<sub, since, watchdog, req, delivered, extra, dropped>>
<1>1. /\ sweep \in Sweeps
      /\ unsent \in BOOLEAN /\ extra \in BOOLEAN
  BY DEF DeliveriesTyped, DeliveryTypeOK, Sweeps
<1> USE DEF Sweeps
<1>2. sweep.pc = "resend" /\ sweep'.pc \in {"record", "settle"}
  <2>1. CASE orderRow.status = "delivered"
    <3>1. PICK sent \in BOOLEAN : Mail(sent) /\ sweep' = [sweep EXCEPT !.pc = "record", !.sent = sent]
      BY <2>1 DEF SweepMail
    <3>2. sweep'.pc = "record" /\ sweep'.sent = sent
      BY <1>1, <3>1
    <3>3. QED
      BY <1>1, <3>1, <3>2, MailDoes DEF SweepMail
  <2>2. CASE orderRow.status # "delivered"
    <3>1. sweep' = [sweep EXCEPT !.pc = "settle"]
      BY <2>2 DEF SweepMail
    <3>2. sweep'.pc = "settle" /\ sweep'.sent = sweep.sent
      BY <1>1, <3>1
    <3>3. QED
      BY <2>2, <3>2 DEF SweepMail
  <2>3. QED
    BY <2>1, <2>2
<1>3. \/ ~sweep'.sent /\ UNCHANGED <<mails, unsent>>
      \/ sweep'.sent /\ sweep'.pc = "record" /\ mails' = mails + 1 /\ ~unsent'
  <2>1. CASE orderRow.status = "delivered"
    <3>1. PICK sent \in BOOLEAN : Mail(sent) /\ sweep' = [sweep EXCEPT !.pc = "record", !.sent = sent]
      BY <2>1 DEF SweepMail
    <3>2. sweep'.pc = "record" /\ sweep'.sent = sent
      BY <1>1, <3>1
    <3>3. QED
      BY <1>1, <3>1, <3>2, MailDoes DEF SweepMail
  <2>2. CASE orderRow.status # "delivered"
    <3>1. sweep' = [sweep EXCEPT !.pc = "settle"]
      BY <2>2 DEF SweepMail
    <3>2. sweep'.pc = "settle" /\ sweep'.sent = sweep.sent
      BY <1>1, <3>1
    <3>3. QED
      BY <2>2, <3>2 DEF SweepMail, WatchdogTells
  <2>3. QED
    BY <2>1, <2>2
<1>4. UNCHANGED <<sub, since, watchdog, req, delivered, extra, dropped>>
  BY <1>1 DEF SweepMail, Mail, mailVars, termVars
<1>5. sweep'.asked = sweep.asked
  BY <1>1 DEF SweepMail
<1>6. QED
  BY <1>2, <1>3, <1>4, <1>5

\* ... records a mail, ...
LEMMA SweepRecordDoes ==
  ASSUME DeliveriesTyped, SweepRecord
  PROVE  /\ sweep.pc = "record" /\ sweep'.pc = "settle" /\ sweep'.sent = sweep.sent
         /\ sweep'.asked = sweep.asked
         /\ UNCHANGED <<sub, since, watchdog, req, mails, delivered, unsent, extra, dropped>>
<1>1. /\ sweep \in Sweeps
      /\ unsent \in BOOLEAN /\ extra \in BOOLEAN
  BY DEF DeliveriesTyped, DeliveryTypeOK, Sweeps
<1> USE DEF Sweeps
<1>2. sweep.pc = "record" /\ sweep'.pc = "settle" /\ sweep'.sent = sweep.sent
      /\ sweep'.asked = sweep.asked
  BY <1>1 DEF SweepRecord, Touch, mailVars, termVars
<1>3. UNCHANGED <<sub, since, watchdog, req, mails, delivered, unsent, extra, dropped>>
  BY <1>1 DEF SweepRecord, Touch, mailVars, termVars
<1>4. QED
  BY <1>2, <1>3

\* ... asks the staff, or fails to, ...
LEMMA SweepAskDoes ==
  ASSUME DeliveriesTyped, SweepAsk
  PROVE  /\ sweep.pc = "settle" /\ sweep'.pc = "escalate" /\ ~sweep.sent /\ ~sweep'.sent
         /\ \/ sweep'.asked = delivered /\ task'.mail
            \/ sweep'.asked = sweep.asked /\ (task.mail => task'.mail)
         /\ UNCHANGED <<sub, since, watchdog, req, mails, delivered, unsent, extra, dropped>>
<1>1. sweep \in Sweeps /\ task \in Tasks
  BY DEF DeliveriesTyped, DeliveryTypeOK, Sweeps, Tasks
<1> USE DEF Sweeps, Tasks
<1>2. /\ sweep.pc = "settle" /\ ~sweep.sent
      /\ UNCHANGED <<sub, since, watchdog, req, mails, delivered, unsent, extra, dropped>>
  BY DEF SweepAsk, mailVars, termVars
<1>3. CASE /\ task' = [task EXCEPT !.mail = TRUE]
           /\ sweep' = [sweep EXCEPT !.pc = "escalate", !.asked = delivered]
  BY <1>1, <1>2, <1>3
<1>4. CASE /\ \E inserted \in BOOLEAN : task' = [task EXCEPT !.mail = @ \/ inserted]
           /\ sweep' = [sweep EXCEPT !.pc = "escalate"]
  BY <1>1, <1>2, <1>4
<1>5. QED
  BY <1>3, <1>4 DEF SweepAsk

\* ... settles the matter by the answer and by what has been asked, ...
LEMMA SweepSettleDoes ==
  ASSUME DeliveriesTyped, WatchdogTells, SweepSettle
  PROVE  /\ sweep.pc \in {"settle", "escalate"}
         /\ sweep'.pc = "idle" /\ ~sweep'.sent /\ sweep'.asked = 0
         /\ \/ sweep.sent /\ watchdog' = "done" /\ (dropped' <=> dropped)
            \/ ~sweep.sent /\ watchdog' = "pending" /\ (dropped' <=> dropped)
            \/ ~sweep.sent /\ watchdog' = "escalated"
               /\ (dropped' <=> (dropped \/ sweep.asked # delivered))
         /\ UNCHANGED <<sub, since, task, req, mails, delivered, unsent, extra>>
<1>1. sweep \in Sweeps /\ dropped \in BOOLEAN
  BY DEF DeliveriesTyped, DeliveryTypeOK, Sweeps
<1>2. /\ sweep.pc \in {"settle", "escalate"} /\ sweep' = Asleep /\ watchdog' = Verdict
      /\ dropped' = (dropped \/ (sweep.pc = "escalate" /\ sweep.asked # delivered))
      /\ UNCHANGED <<sub, since, task, req, mails, delivered, unsent, extra>>
  BY DEF SweepSettle, termVars
<1>3. sweep'.pc = "idle" /\ ~sweep'.sent /\ sweep'.asked = 0
  BY <1>2 DEF Asleep
<1>4. CASE sweep.pc = "escalate"
  <2>1. ~sweep.sent /\ watchdog' = "escalated"
    BY <1>2, <1>4 DEF Verdict, WatchdogTells
  <2>2. QED
    BY <1>2, <1>3, <1>4, <2>1
<1>5. CASE sweep.pc = "settle"
  <2>1. watchdog' = IF sweep.sent THEN "done" ELSE "pending"
    BY <1>2, <1>5 DEF Verdict
  <2>2. dropped' <=> dropped
    BY <1>2, <1>5
  <2>3. QED
    BY <1>1, <1>2, <1>3, <2>1, <2>2
<1>6. QED
  BY <1>2, <1>4, <1>5

\* ... or fails.
LEMMA SweepFailsDoes ==
  ASSUME DeliveriesTyped, SweepFails
  PROVE  /\ sweep.pc # "idle" /\ sweep'.pc = "idle" /\ ~sweep'.sent /\ sweep'.asked = 0
         /\ extra' <=> (extra \/ sweep.sent)
         /\ UNCHANGED <<sub, since, watchdog, req, mails, delivered, unsent, dropped>>
<1>1. /\ sweep \in Sweeps
      /\ unsent \in BOOLEAN /\ extra \in BOOLEAN
  BY DEF DeliveriesTyped, DeliveryTypeOK, Sweeps
<1> USE DEF Sweeps
<1>2. sweep.pc # "idle" /\ sweep'.pc = "idle" /\ ~sweep'.sent /\ sweep'.asked = 0
  BY <1>1 DEF SweepFails, Asleep
<1>3. extra' <=> (extra \/ sweep.sent)
  BY <1>1 DEF SweepFails, mailVars, termVars
<1>4. UNCHANGED <<sub, since, watchdog, req, mails, delivered, unsent, dropped>>
  BY <1>1 DEF SweepFails, mailVars, termVars
<1>5. QED
  BY <1>2, <1>3, <1>4

\* The rest leaves the mails, the sweep and the requests alone.
MailsRest == UNCHANGED <<watchdog, req, sweep, mails, delivered, unsent, extra, dropped>>

\* That is what every other action does.
LEMMA RestDoes ==
  ASSUME Reopen \/ ChangeCredentials \/ Renew \/ Expire \/ Tick \/ UNCHANGED deliveryVars
  PROVE  MailsRest
  BY DEF Reopen, ChangeCredentials, Renew, Expire, Tick, deliveryVars, MailsRest, mailVars

\* The cases of a step.
LEMMA StepCases ==
  ASSUME [DeliveryNext]_deliveryVars
  PROVE  \/ \E a \in Staff : Request(a)
         \/ BeginSweep \/ SweepMail \/ SweepRecord \/ SweepAsk \/ SweepSettle \/ SweepFails
         \/ CompleteMailTask \/ MailsRest
  BY RestDoes DEF DeliveryNext, Request

\* The staff has seen to the mails of an order.
LEMMA CompleteMailTaskDoes ==
  ASSUME CompleteMailTask
  PROVE  /\ unsent' = FALSE
         /\ UNCHANGED <<sub, since, watchdog, req, sweep, mails, delivered, extra, dropped>>
  BY DEF CompleteMailTask, termVars

\* Nobody else closes the task of a mail, ...
LEMMA MailTaskStands ==
  ASSUME DeliveriesTyped, [DeliveryNext]_deliveryVars, ~SweepAsk, ~CompleteMailTask
  PROVE  task'.mail = task.mail
<1>1. task \in Tasks
  BY DEF DeliveriesTyped, DeliveryTypeOK, Tasks
<1>2. \/ task' = task \/ \E open \in BOOLEAN : task' = [task EXCEPT !.renewal = open]
  BY DEF DeliveryNext, deliveryVars, BeginDelivery, MarkDelivered, SendMail, RecordOutcome, Schedule,
     BeginReplay, ReadOrder, ReadRow, WriteDates, Resend, RecordResend, BeginStatus,
     CheckTransition, SetStatus, CompleteRenewal, FulfilRenewal, BeginSweep, SweepMail, SweepRecord,
     SweepSettle, SweepFails, Reopen, ChangeCredentials, Renew, Expire, Tick
<1>3. QED
  BY <1>1, <1>2 DEF Tasks

\* ... and only another delivery gives it a new mail to see to.
LEMMA RequestDelivers ==
  ASSUME DeliveriesTyped, NEW a \in Staff, Request(a)
  PROVE  /\ UNCHANGED sweep
         /\ delivered' = delivered + 1 \/ (delivered' = delivered /\ (unsent' => unsent))
<1>1. CASE MarkDelivered(a)
  BY <1>1, MarkDeliveredDoes
<1>2. CASE Resend(a) \/ SendMail(a)
  <2>1. unsent' => unsent
    BY <1>2 DEF Resend, SendMail, Mail
  <2>2. QED
    BY <1>2, <2>1 DEF Resend, SendMail
<1>3. CASE \/ BeginDelivery(a) \/ RecordOutcome(a) \/ Schedule(a)
           \/ ReadOrder(a) \/ ReadRow(a) \/ WriteDates(a) \/ RecordResend(a)
           \/ CheckTransition(a) \/ SetStatus(a) \/ CompleteRenewal(a) \/ FulfilRenewal(a)
  BY <1>3 DEF BeginDelivery, RecordOutcome, Schedule, ReadOrder, ReadRow, WriteDates,
     RecordResend, CheckTransition, SetStatus, CompleteRenewal, FulfilRenewal, mailVars
<1>4. CASE BeginReplay(a) \/ BeginStatus(a)
  <2>1. sweep' = sweep /\ mailVars' = mailVars
    BY <1>4, Zenon DEF BeginReplay, BeginStatus
  <2>2. QED
    BY <2>1 DEF mailVars
<1>5. QED
  BY <1>1, <1>2, <1>3, <1>4 DEF Request

\* A request moves alone.
LEMMA OthersRest ==
  ASSUME DeliveriesTyped, NEW a \in Staff, Request(a)
  PROVE  \A b \in Staff \ {a} : req'[b] = req[b]
  BY RequestMoves DEF Moves, DeliveriesTyped, DeliveryTypeOK

\* The watchdog's status stays true to its sweep.
LEMMA TellsStep ==
  ASSUME DeliveriesTyped, DeliveriesTyped', WatchdogTells, [DeliveryNext]_deliveryVars
  PROVE  WatchdogTells'
<1> DEFINE Rest == /\ sweep.pc # "idle" => watchdog = "pending"
                   /\ sweep.pc \in {"idle", "resend", "escalate"} => ~sweep.sent
                   /\ sweep.sent \/ watchdog = "done" => mails > 0
           Dogs == \A a \in Staff : req[a].dog # "none" => watchdog # "none"
<1>a. Rest /\ Dogs /\ mails \in Nat
      /\ sweep \in Sweeps
  BY DEF WatchdogTells, DeliveriesTyped, DeliveryTypeOK, Sweeps
<1>b. SUFFICES Rest' /\ Dogs'
  BY DEF WatchdogTells
<1> HIDE DEF Dogs
<1>1. ASSUME NEW a \in Staff, Request(a)
      PROVE  Rest' /\ req'[a].dog \in {"none", req[a].dog, watchdog} /\ watchdog' \in {watchdog,
             "pending"}
  <2>1. CASE BeginDelivery(a)
    BY <2>1, <1>a, BeginDeliveryDoes
  <2>2. CASE MarkDelivered(a)
    BY <2>2, <1>a, MarkDeliveredDoes
  <2>3. CASE SendMail(a)
    BY <2>3, <1>a, SendMailDoes
  <2>4. CASE RecordOutcome(a)
    BY <2>4, <1>a, RecordOutcomeDoes
  <2>5. CASE Schedule(a)
    BY <2>5, <1>a, ScheduleDoes
  <2>6. CASE BeginReplay(a)
    BY <2>6, <1>a, BeginReplayDoes
  <2>7. CASE ReadOrder(a)
    BY <2>7, <1>a, ReadOrderDoes
  <2>8. CASE ReadRow(a)
    BY <2>8, <1>a, ReadRowDoes
  <2>9. CASE WriteDates(a)
    BY <2>9, <1>a, WriteDatesDoes
  <2>10. CASE Resend(a)
    BY <2>10, <1>a, ResendDoes
  <2>11. CASE RecordResend(a)
    BY <2>11, <1>a, RecordResendDoes
  <2>12. CASE BeginStatus(a)
    BY <2>12, <1>a, BeginStatusDoes
  <2>13. CASE CheckTransition(a)
    BY <2>13, <1>a, CheckTransitionDoes
  <2>14. CASE SetStatus(a)
    BY <2>14, <1>a, SetStatusDoes
  <2>15. CASE CompleteRenewal(a)
    BY <2>15, <1>a, CompleteRenewalDoes
  <2>16. CASE FulfilRenewal(a)
    BY <2>16, <1>a, FulfilRenewalDoes
  <2>17. QED
    BY <1>1, <2>1, <2>2, <2>3, <2>4, <2>5, <2>6, <2>7, <2>8, <2>9, <2>10, <2>11, <2>12, <2>13,
       <2>14, <2>15, <2>16 DEF Request
<1>2. ASSUME NEW a \in Staff, Request(a) PROVE Dogs'
  BY <1>1, <1>2, <1>a, OthersRest DEF Dogs
<1>3. CASE BeginSweep
  <2>1. Rest' /\ UNCHANGED req /\ (watchdog' = watchdog \/ watchdog' # "none")
    BY <1>3, <1>a, BeginSweepDoes
  <2>2. QED
    BY <2>1, <1>a DEF Dogs
<1>4. CASE SweepMail
  <2>1. Rest' /\ UNCHANGED req /\ (watchdog' = watchdog \/ watchdog' # "none")
    BY <1>4, <1>a, SweepMailDoes
  <2>2. QED
    BY <2>1, <1>a DEF Dogs
<1>5. CASE SweepRecord
  <2>1. Rest' /\ UNCHANGED req /\ (watchdog' = watchdog \/ watchdog' # "none")
    BY <1>5, <1>a, SweepRecordDoes
  <2>2. QED
    BY <2>1, <1>a DEF Dogs
<1>6. CASE SweepSettle
  <2>1. Rest' /\ UNCHANGED req /\ (watchdog' = watchdog \/ watchdog' # "none")
    BY <1>6, <1>a, SweepSettleDoes
  <2>2. QED
    BY <2>1, <1>a DEF Dogs
<1>7. CASE SweepFails
  <2>1. Rest' /\ UNCHANGED req /\ (watchdog' = watchdog \/ watchdog' # "none")
    BY <1>7, <1>a, SweepFailsDoes
  <2>2. QED
    BY <2>1, <1>a DEF Dogs
<1>8. CASE MailsRest
  BY <1>8, <1>a DEF MailsRest, Dogs
<1>9. CASE SweepAsk
  <2>1. Rest' /\ UNCHANGED req /\ (watchdog' = watchdog \/ watchdog' # "none")
    BY <1>9, <1>a, SweepAskDoes
  <2>2. QED
    BY <2>1, <1>a DEF Dogs
<1>10. CASE CompleteMailTask
  <2>1. Rest' /\ UNCHANGED req /\ (watchdog' = watchdog \/ watchdog' # "none")
    BY <1>10, <1>a, CompleteMailTaskDoes
  <2>2. QED
    BY <2>1, <1>a DEF Dogs
<1>11. QED
  BY <1>1, <1>2, <1>3, <1>4, <1>5, <1>6, <1>7, <1>8, <1>9, <1>10, StepCases

\* What the sweep has asked for stays asked for.
LEMMA AskedStep ==
  ASSUME DeliveriesTyped, DeliveriesTyped', StaffAsked, WatchdogTells, [DeliveryNext]_deliveryVars
  PROVE  StaffAsked'
<1>a. /\ sweep \in Sweeps /\ delivered \in Nat /\ delivered' \in Nat /\ task \in Tasks
      /\ unsent \in BOOLEAN /\ unsent' \in BOOLEAN
  BY DEF DeliveriesTyped, DeliveryTypeOK, Sweeps, Tasks
<1>b. sweep.asked \in Nat
  BY <1>a DEF Sweeps
<1>1. ASSUME task'.mail = task.mail, UNCHANGED delivered, unsent' => unsent,
             sweep'.asked \in {0, sweep.asked}
      PROVE  StaffAsked'
  BY <1>1, <1>a, <1>b DEF StaffAsked
<1>2. ASSUME NEW a \in Staff, Request(a) PROVE StaffAsked'
  <2>1. task'.mail = task.mail
    <3>1. task' = task \/ \E open \in BOOLEAN : task' = [task EXCEPT !.renewal = open]
      BY <1>2 DEF Request, BeginDelivery, MarkDelivered, SendMail, RecordOutcome, Schedule,
         BeginReplay, ReadOrder, ReadRow, WriteDates, Resend, RecordResend, BeginStatus,
         CheckTransition, SetStatus, CompleteRenewal, FulfilRenewal
    <3>2. QED
      BY <1>a, <3>1 DEF Tasks
  <2>2. CASE delivered' = delivered + 1
    BY <1>2, <1>a, <1>b, <2>2, RequestDelivers DEF StaffAsked
  <2>3. CASE delivered' = delivered /\ (unsent' => unsent)
    BY <1>1, <1>2, <2>1, <2>3, RequestDelivers
  <2>4. QED
    BY <1>2, <2>2, <2>3, RequestDelivers
<1>3. CASE SweepAsk
  BY <1>3, <1>a, <1>b, SweepAskDoes DEF StaffAsked
<1>4. CASE CompleteMailTask
  BY <1>4, <1>a, <1>b, CompleteMailTaskDoes DEF StaffAsked
<1>5. ASSUME ~SweepAsk, ~CompleteMailTask, ~\E a \in Staff : Request(a) PROVE StaffAsked'
  <2>1. task'.mail = task.mail
    BY <1>5, MailTaskStands
  <2>2. UNCHANGED delivered /\ (unsent' => unsent) /\ sweep'.asked \in {0, sweep.asked}
    BY <1>5, <1>a, BeginSweepDoes, SweepMailDoes, SweepRecordDoes, SweepSettleDoes, SweepFailsDoes,
       StepCases DEF MailsRest
  <2>3. QED
    BY <1>1, <2>1, <2>2
<1>6. QED
  BY <1>2, <1>3, <1>4, <1>5

\* Every unsent mail stays in somebody's hands.
LEMMA PursuedStep ==
  ASSUME DeliveriesTyped, DeliveriesTyped', WatchdogTells, StaffAsked, Pursued,
         [DeliveryNext]_deliveryVars
  PROVE  Pursued'
<1> DEFINE Known == \/ watchdog = "pending"
                    \/ watchdog = "escalated" /\ task.mail
                    \/ watchdog = "done" /\ mails > 0
<1>a. /\ mails \in Nat /\ watchdog \in {"none", "pending", "done", "escalated"}
      /\ unsent \in BOOLEAN /\ dropped \in BOOLEAN /\ unsent' \in BOOLEAN /\ dropped' \in BOOLEAN
      /\ sweep \in Sweeps /\ task \in Tasks /\ delivered \in Nat
  BY DEF DeliveriesTyped, DeliveryTypeOK, Sweeps, Tasks
<1>b. unsent /\ ~dropped => Known \/ \E a \in Staff : Pursuing(a)
  BY DEF Pursued
<1>c. SUFFICES ASSUME unsent', ~dropped' PROVE Known' \/ \E a \in Staff : Pursuing(a)'
  BY DEF Pursued
<1>1. ASSUME NEW a \in Staff, Request(a) PROVE Known' \/ \E b \in Staff : Pursuing(b)'
  <2>t. task'.mail = task.mail
    <3>1. task' = task \/ \E open \in BOOLEAN : task' = [task EXCEPT !.renewal = open]
      BY <1>1 DEF Request, BeginDelivery, MarkDelivered, SendMail, RecordOutcome, Schedule,
         BeginReplay, ReadOrder, ReadRow, WriteDates, Resend, RecordResend, BeginStatus,
         CheckTransition, SetStatus, CompleteRenewal, FulfilRenewal
    <3>2. QED
      BY <1>a, <3>1 DEF Tasks
  <2>a. ASSUME NEW b \in Staff, b # a, Pursuing(b) PROVE Pursuing(b)'
    BY <1>1, <2>a, OthersRest DEF Waiting, Pursuing
  <2>b. ASSUME Known => Known', Pursuing(a) => Pursuing(a)' \/ Known', unsent, ~dropped
        PROVE  Known' \/ \E b \in Staff : Pursuing(b)'
    BY <1>b, <2>a, <2>b
  <2>c. ASSUME Known => Known', Pursuing(a) => Pursuing(a)' \/ Known', unsent' => unsent,
        dropped => dropped'
        PROVE  Known' \/ \E b \in Staff : Pursuing(b)'
    BY <1>c, <2>b, <2>c
  <2>1. CASE BeginDelivery(a)
    BY <2>1, <2>c, <2>t, <1>a, <1>c, BeginDeliveryDoes DEF Waiting, Pursuing
  <2>2. CASE MarkDelivered(a)
    <3>1. CASE orderRow.status = "delivered"
      BY <2>2, <3>1, <2>c, <2>t, <1>a, MarkDeliveredDoes DEF Waiting, Pursuing
    <3>2. CASE orderRow.status # "delivered"
      BY <2>2, <3>2, <1>c, <1>a, MarkDeliveredDoes DEF Waiting, Pursuing, WatchdogTells
    <3>3. QED
      BY <3>1, <3>2
  <2>3. CASE SendMail(a)
    BY <2>3, <2>c, <2>t, <1>a, <1>c, SendMailDoes DEF Waiting, Pursuing
  <2>4. CASE RecordOutcome(a)
    BY <2>4, <2>c, <2>t, <1>a, <1>c, RecordOutcomeDoes DEF Waiting, Pursuing
  <2>5. CASE Schedule(a)
    <3>1. \/ watchdog' = "pending"
          \/ /\ req[a].dog = "done" /\ watchdog' = watchdog /\ mails' = mails
             /\ unsent' = unsent /\ (dropped' <=> dropped)
      BY <2>5, <1>c, ScheduleDoes
    <3>2. req[a].dog = "done" => ~Pursuing(a)
      BY DEF Pursuing
    <3>3. QED
      BY <2>c, <2>t, <3>1, <3>2
  <2>6. CASE BeginReplay(a)
    BY <2>6, <2>c, <2>t, <1>a, <1>c, BeginReplayDoes DEF Waiting, Pursuing
  <2>7. CASE ReadOrder(a)
    BY <2>7, <2>c, <2>t, <1>a, <1>c, ReadOrderDoes DEF Waiting, Pursuing
  <2>8. CASE ReadRow(a)
    BY <2>8, <2>c, <2>t, <1>a, <1>c, ReadRowDoes DEF Waiting, Pursuing
  <2>9. CASE WriteDates(a)
    BY <2>9, <2>c, <2>t, <1>a, <1>c, WriteDatesDoes DEF Waiting, Pursuing
  <2>10. CASE Resend(a)
    BY <2>10, <2>c, <2>t, <1>a, <1>c, ResendDoes DEF Waiting, Pursuing
  <2>11. CASE RecordResend(a)
    BY <2>11, <2>c, <2>t, <1>a, <1>c, RecordResendDoes DEF Waiting, Pursuing
  <2>12. CASE BeginStatus(a)
    BY <2>12, <2>c, <2>t, <1>a, <1>c, BeginStatusDoes DEF Waiting, Pursuing
  <2>13. CASE CheckTransition(a)
    BY <2>13, <2>c, <2>t, <1>a, <1>c, CheckTransitionDoes DEF Waiting, Pursuing
  <2>14. CASE SetStatus(a)
    BY <2>14, <2>c, <2>t, <1>a, <1>c, SetStatusDoes DEF Waiting, Pursuing
  <2>15. CASE CompleteRenewal(a)
    BY <2>15, <2>c, <2>t, <1>a, <1>c, CompleteRenewalDoes DEF Waiting, Pursuing
  <2>16. CASE FulfilRenewal(a)
    BY <2>16, <2>c, <2>t, <1>a, <1>c, FulfilRenewalDoes DEF Waiting, Pursuing
  <2>17. QED
    BY <1>1, <2>1, <2>2, <2>3, <2>4, <2>5, <2>6, <2>7, <2>8, <2>9, <2>10, <2>11, <2>12, <2>13,
       <2>14, <2>15, <2>16 DEF Request
<1>2. ASSUME UNCHANGED req, Known => Known', unsent' => unsent, dropped => dropped'
      PROVE  Known' \/ \E b \in Staff : Pursuing(b)'
  BY <1>2, <1>b, <1>c DEF Waiting, Pursuing
<1>3. CASE BeginSweep
  <2>1. UNCHANGED task
    BY <1>3 DEF BeginSweep
  <2>2. QED
    BY <1>3, <2>1, <1>2, <1>a, <1>c, BeginSweepDoes
<1>4. CASE SweepMail
  <2>1. UNCHANGED task
    BY <1>4 DEF SweepMail
  <2>2. QED
    BY <1>4, <2>1, <1>2, <1>a, <1>c, SweepMailDoes
<1>5. CASE SweepRecord
  <2>1. UNCHANGED task
    BY <1>5 DEF SweepRecord
  <2>2. QED
    BY <1>5, <2>1, <1>2, <1>a, <1>c, SweepRecordDoes
<1>6. CASE SweepSettle
  <2>1. sweep.sent => mails > 0
    BY DEF WatchdogTells
  <2>2. sweep.asked = delivered => task.mail
    BY <1>6, <1>c, SweepSettleDoes DEF StaffAsked
  <2>3. Known'
    BY <1>6, <1>c, <2>1, <2>2, SweepSettleDoes
  <2>4. QED
    BY <2>3
<1>7. CASE SweepFails
  <2>1. UNCHANGED task
    BY <1>7 DEF SweepFails
  <2>2. QED
    BY <1>7, <2>1, <1>2, <1>a, <1>c, SweepFailsDoes
<1>8. CASE MailsRest /\ ~SweepAsk /\ ~CompleteMailTask
  BY <1>8, <1>2, MailTaskStands DEF MailsRest
<1>9. CASE SweepAsk
  BY <1>9, <1>2, <1>a, <1>c, SweepAskDoes DEF WatchdogTells
<1>10. CASE CompleteMailTask
  BY <1>10, <1>c, CompleteMailTaskDoes
<1>11. QED
  BY <1>1, <1>3, <1>4, <1>5, <1>6, <1>7, <1>8, <1>9, <1>10, StepCases

\* How many deliveries wait for their mail, before and after one request's step.
One(a) == IF Waiting(a) THEN 1 ELSE 0

\* A request's step changes their number by its own part.
LEMMA WaitingStep ==
  ASSUME DeliveriesTyped, IsFiniteSet(WaitingSet), NEW a \in Staff, Request(a)
  PROVE  /\ IsFiniteSet(WaitingSet')
         /\ Cardinality(WaitingSet) \in Nat /\ Cardinality(WaitingSet') \in Nat
         /\ Cardinality(WaitingSet') + One(a) = Cardinality(WaitingSet) + One(a)'
<1>1. \A b \in Staff \ {a} : Waiting(b)' <=> Waiting(b)
  BY OthersRest DEF Waiting
<1>2. /\ a \in WaitingSet <=> Waiting(a)
      /\ a \in WaitingSet' <=> Waiting(a)'
  BY DEF WaitingSet
<1>3. WaitingSet' \ {a} = WaitingSet \ {a}
  BY <1>1 DEF WaitingSet
<1>4. Cardinality(WaitingSet) \in Nat
  BY FS_CardinalityType
<1>5. CASE Waiting(a)
  <2>1. CASE Waiting(a)'
    <3>1. WaitingSet' = WaitingSet
      BY <1>2, <1>3, <1>5, <2>1
    <3>2. QED
      BY <1>4, <1>5, <2>1, <3>1 DEF One
  <2>2. CASE ~Waiting(a)'
    <3>1. WaitingSet' = WaitingSet \ {a}
      BY <1>2, <1>3, <2>2
    <3>2. /\ IsFiniteSet(WaitingSet') /\ Cardinality(WaitingSet') = Cardinality(WaitingSet) - 1
      BY <1>2, <1>5, <3>1, FS_RemoveElement
    <3>3. Cardinality(WaitingSet') \in Nat
      BY <3>2, FS_CardinalityType
    <3>4. QED
      BY <1>4, <1>5, <2>2, <3>2, <3>3 DEF One
  <2>3. QED
    BY <2>1, <2>2
<1>6. CASE ~Waiting(a)
  <2>1. CASE Waiting(a)'
    <3>1. WaitingSet' = WaitingSet \cup {a} /\ a \notin WaitingSet
      BY <1>2, <1>3, <1>6, <2>1
    <3>2. /\ IsFiniteSet(WaitingSet') /\ Cardinality(WaitingSet') = Cardinality(WaitingSet) + 1
      BY <3>1, FS_AddElement
    <3>3. QED
      BY <1>4, <1>6, <2>1, <3>2 DEF One
  <2>2. CASE ~Waiting(a)'
    <3>1. WaitingSet' = WaitingSet
      BY <1>2, <1>3, <1>6, <2>2
    <3>2. QED
      BY <1>4, <1>6, <2>2, <3>1 DEF One
  <2>3. QED
    BY <2>1, <2>2
<1>7. QED
  BY <1>5, <1>6

\* No step owes more mails than it delivers.
LEMMA OwedStep ==
  ASSUME DeliveriesTyped, DeliveriesTyped', WatchdogTells, MailsOwed, [DeliveryNext]_deliveryVars
  PROVE  MailsOwed'
<1>a. /\ mails \in Nat /\ delivered \in Nat /\ mails' \in Nat /\ delivered' \in Nat
      /\ OnWatch \in {0, 1} /\ OnWatch' \in {0, 1}
      /\ extra \in BOOLEAN /\ extra' \in BOOLEAN
      /\ Cardinality(WaitingSet) \in Nat /\ IsFiniteSet(WaitingSet)
      /\ sweep \in Sweeps
  BY FS_CardinalityType DEF DeliveriesTyped, DeliveryTypeOK, OnWatch, MailsOwed, Sweeps
<1>c. mails \in Nat /\ delivered \in Nat /\ mails' \in Nat
  BY <1>a
<1>b. ~extra => mails + Cardinality(WaitingSet) + OnWatch <= delivered
  BY DEF MailsOwed
\* A request may raise what is owed by no more than what has been delivered.
<1>1. ASSUME NEW a \in Staff, Request(a),
             extra' \/ (~extra
             /\ mails' + One(a)' + OnWatch' - delivered' <= mails + One(a) + OnWatch - delivered)
      PROVE  MailsOwed'
  <2>1. One(a) \in {0, 1} /\ One(a)' \in {0, 1}
    BY DEF One
  <2>2. /\ IsFiniteSet(WaitingSet') /\ Cardinality(WaitingSet') \in Nat
        /\ Cardinality(WaitingSet') + One(a) = Cardinality(WaitingSet) + One(a)'
    BY <1>1, <1>a, WaitingStep
  <2>3. ~extra' => mails' + Cardinality(WaitingSet') + OnWatch' <= delivered'
    BY <1>1, <1>a, <1>b, <2>1, <2>2
  <2>4. QED
    BY <2>2, <2>3 DEF MailsOwed
<1>2. ASSUME NEW a \in Staff, Request(a) PROVE MailsOwed'
  <2> DEFINE Kept == mails' + One(a)' + OnWatch' - delivered'
                       <= mails + One(a) + OnWatch - delivered
  <2>a. SUFFICES extra' \/ (~extra /\ Kept)
    BY <1>1, <1>2
  <2>b. One(a) \in {0, 1} /\ One(a)' \in {0, 1}
    BY DEF One
  <2>c. ASSUME UNCHANGED <<mails, delivered, extra, watchdog, sweep>>, Waiting(a)' => Waiting(a)
        PROVE  extra' \/ (~extra /\ Kept)
    <3>1. OnWatch' = OnWatch /\ One(a)' <= One(a) /\ (extra' <=> extra)
      BY <2>c DEF OnWatch, One
    <3>2. Kept
      BY <3>1, <2>c, <1>a, <2>b
    <3>3. QED
      BY <3>1, <3>2
  <2>1. CASE BeginDelivery(a)
    BY <2>1, <1>a, <2>c, BeginDeliveryDoes DEF Waiting
  <2>2. CASE MarkDelivered(a)
    <3>1. CASE orderRow.status = "delivered"
      BY <2>2, <3>1, <1>a, <2>c, MarkDeliveredDoes DEF Waiting
    <3>2. CASE orderRow.status # "delivered"
      <4>1. delivered' = delivered + 1 /\ mails' = mails /\ OnWatch' = OnWatch /\ extra' = extra
        BY <2>2, <3>2, MarkDeliveredDoes DEF OnWatch
      <4>2. One(a) = 0 /\ One(a)' \in {0, 1}
        BY <2>2, MarkDeliveredDoes DEF One, Waiting
      <4>3. QED
        BY <4>1, <4>2, <1>a
    <3>3. QED
      BY <3>1, <3>2
  <2>3. CASE SendMail(a)
    <3>1. OnWatch' = OnWatch /\ One(a) = 1 /\ delivered' = delivered /\ (extra' <=> extra)
      BY <2>3, SendMailDoes DEF OnWatch, One, Waiting
    <3>2. \/ mails' = mails
          \/ mails' = mails + 1 /\ One(a)' = 0
      BY <2>3, SendMailDoes DEF One, Waiting
    <3>3. Kept
      BY <3>1, <3>2, <1>a, <2>b
    <3>4. QED
      BY <3>1, <3>3
  <2>4. CASE RecordOutcome(a)
    <3>1. OnWatch' = OnWatch /\ delivered' = delivered /\ mails' = mails
      BY <2>4, RecordOutcomeDoes DEF OnWatch
    <3>2. extra' \/ (~extra /\ One(a)' <= One(a))
      BY <2>4, RecordOutcomeDoes DEF One, Waiting
    <3>3. One(a)' <= One(a) => Kept
      BY <3>1, <1>a, <2>b
    <3>4. QED
      BY <3>2, <3>3
  <2>5. CASE Schedule(a)
    <3>1. One(a) = 1 /\ One(a)' = 0 /\ delivered' = delivered /\ mails' = mails
          /\ (extra' <=> extra)
      BY <2>5, ScheduleDoes DEF One, Waiting
    <3>2. PICK w \in Nat, v \in Nat : v <= 1 /\ w <= 1 /\ w = OnWatch /\ v = OnWatch'
      BY <1>a
    <3>3. PICK m \in Nat, d \in Nat : m = mails /\ d = delivered
      BY <1>c
    <3>4. v <= 1
      BY <3>2
    <3>5. m + 0 + v - d <= m + 1 + w - d
      BY <3>4
    <3>6. Kept
      BY <3>1, <3>2, <3>3, <3>5
    <3>7. QED
      BY <3>1, <3>6
  <2>6. CASE BeginReplay(a)
    BY <2>6, <1>a, <2>c, BeginReplayDoes DEF Waiting
  <2>7. CASE ReadOrder(a)
    BY <2>7, <1>a, <2>c, ReadOrderDoes DEF Waiting
  <2>8. CASE ReadRow(a)
    BY <2>8, <1>a, <2>c, ReadRowDoes DEF Waiting
  <2>9. CASE WriteDates(a)
    BY <2>9, <1>a, <2>c, WriteDatesDoes DEF Waiting
  <2>10. CASE Resend(a)
    <3>1. \/ extra'
          \/ UNCHANGED <<mails, delivered, extra, watchdog, sweep>> /\ (Waiting(a)' => Waiting(a))
      BY <2>10, ResendDoes DEF Waiting
    <3>2. QED
      BY <3>1, <2>c
  <2>11. CASE RecordResend(a)
    BY <2>11, <1>a, <2>c, RecordResendDoes DEF Waiting
  <2>12. CASE BeginStatus(a)
    BY <2>12, <1>a, <2>c, BeginStatusDoes DEF Waiting
  <2>13. CASE CheckTransition(a)
    BY <2>13, <1>a, <2>c, CheckTransitionDoes DEF Waiting
  <2>14. CASE SetStatus(a)
    BY <2>14, <1>a, <2>c, SetStatusDoes DEF Waiting
  <2>15. CASE CompleteRenewal(a)
    BY <2>15, <1>a, <2>c, CompleteRenewalDoes DEF Waiting
  <2>16. CASE FulfilRenewal(a)
    BY <2>16, <1>a, <2>c, FulfilRenewalDoes DEF Waiting
  <2>17. QED
    BY <1>2, <2>1, <2>2, <2>3, <2>4, <2>5, <2>6, <2>7, <2>8, <2>9, <2>10, <2>11, <2>12, <2>13,
       <2>14, <2>15, <2>16 DEF Request
<1>3. ASSUME UNCHANGED <<req, delivered>>,
             extra' \/ (~extra /\ mails' + OnWatch' <= mails + OnWatch)
      PROVE  MailsOwed'
  <2>1. WaitingSet' = WaitingSet
    BY <1>3 DEF WaitingSet, Waiting
  <2>2. ASSUME ~extra' PROVE mails' + Cardinality(WaitingSet') + OnWatch' <= delivered'
    <3>1. mails + Cardinality(WaitingSet) + OnWatch <= delivered
          /\ mails' + OnWatch' <= mails + OnWatch
      BY <1>3, <1>b, <2>2
    <3>2. delivered' = delivered
      BY <1>3
    <3>3. QED
      <4>1. PICK w \in Nat, v \in Nat, n \in Nat, m \in Nat, k \in Nat, d \in Nat :
              m = mails /\ k = mails' /\ d = delivered /\ w = OnWatch /\ v = OnWatch'
              /\ n = Cardinality(WaitingSet)
        BY <1>a
      <4>2. m + n + w <= d /\ k + v <= m + w
        BY <3>1, <4>1
      <4>3. k + n + v <= d
        BY <4>2
      <4>4. QED
        BY <3>2, <4>1, <4>3, <2>1
  <2>3. QED
    BY <1>a, <2>1, <2>2 DEF MailsOwed
<1>4. CASE BeginSweep
  BY <1>4, <1>3, <1>a, BeginSweepDoes DEF OnWatch, WatchdogTells
<1>5. CASE SweepMail
  <2>1. sweep.pc = "resend" => watchdog = "pending" /\ ~sweep.sent
    BY DEF WatchdogTells
  <2>2. UNCHANGED <<req, delivered, extra>> /\ OnWatch = 1
    BY <1>5, <2>1, SweepMailDoes DEF OnWatch
  <2>4. \/ mails' = mails
        \/ mails' = mails + 1 /\ OnWatch' = 0
    BY <1>5, SweepMailDoes DEF OnWatch
  <2>5. mails' + OnWatch' <= mails + OnWatch
    <3>1. PICK v \in Nat, m \in Nat, k \in Nat :
            v <= 1 /\ v = OnWatch' /\ m = mails /\ k = mails'
      BY <1>a
    <3>4. v <= 1 /\ (k = m \/ (k = m + 1 /\ v = 0))
      BY <2>4, <3>1
    <3>2. k + v <= m + 1
      BY <3>4
    <3>3. QED
      BY <2>2, <3>1, <3>2
  <2>3. QED
    BY <2>2, <2>5, <1>3, <1>a
<1>6. CASE SweepRecord
  BY <1>6, <1>3, <1>a, SweepRecordDoes DEF OnWatch, WatchdogTells
<1>7. CASE SweepSettle
  <2>1. UNCHANGED <<req, delivered, mails, extra>>
    BY <1>7, SweepSettleDoes
  <2>2. OnWatch' <= OnWatch
    BY <1>7, SweepSettleDoes DEF OnWatch, WatchdogTells
  <2>3. mails' + OnWatch' <= mails + OnWatch
    <3>1. PICK v \in Nat, w \in Nat, m \in Nat : v = OnWatch' /\ w = OnWatch /\ m = mails
      BY <1>a
    <3>2. v <= w
      BY <2>2, <3>1
    <3>3. m + v <= m + w
      BY <3>2
    <3>4. mails' = m
      BY <2>1, <3>1
    <3>5. QED
      BY <3>1, <3>3, <3>4
  <2>4. QED
    BY <2>1, <2>3, <1>3, <1>a
<1>8. CASE SweepFails
  BY <1>8, <1>3, <1>a, SweepFailsDoes DEF OnWatch, WatchdogTells
<1>9. CASE MailsRest
  <2>1. UNCHANGED <<req, delivered, mails, extra>> /\ OnWatch' = OnWatch
    BY <1>9 DEF MailsRest, OnWatch
  <2>2. QED
    BY <2>1, <1>3, <1>a
<1>10. CASE SweepAsk
  BY <1>10, <1>3, <1>a, SweepAskDoes DEF OnWatch, WatchdogTells
<1>11. CASE CompleteMailTask
  <2>1. UNCHANGED <<req, delivered, mails, extra>> /\ OnWatch' = OnWatch
    BY <1>11, CompleteMailTaskDoes DEF OnWatch
  <2>2. QED
    BY <2>1, <1>3, <1>a
<1>12. QED
  BY <1>2, <1>4, <1>5, <1>6, <1>7, <1>8, <1>9, <1>10, <1>11, StepCases

-----------------------------------------------------------------------------
(* The theorems                                                             *)

\* The invariant holds at first, ...
LEMMA DeliveryStart == SubscriptionDeliveryAssumption /\ DeliveryInit => DeliveryInv
<1> SUFFICES ASSUME DeliveryInit PROVE DeliveryInv
  OBVIOUS
<1>1. DeliveriesTyped
  BY IdleType, SubscriptionDeliveryAssumption DEF DeliveryInit, DeliveriesTyped, DeliveryTypeOK,
     Statuses, Asleep
<1>2. DatesFromDelivery /\ TermKept /\ NoneFromCancelled /\ WatchdogTells /\ StaffAsked /\ Pursued
  BY DEF DeliveryInit, DatesFromDelivery, DateKnown, TermKept, NoneFromCancelled, WatchdogTells,
     StaffAsked, Pursued, Idle, Asleep
<1>3. WaitingSet = {}
  BY DEF DeliveryInit, WaitingSet, Waiting, Idle
<1>4. MailsOwed
  BY <1>3, FS_EmptySet DEF DeliveryInit, MailsOwed, OnWatch, Asleep
<1>5. QED
  BY <1>1, <1>2, <1>4 DEF DeliveryInv

\* ... is kept by every step, ...
LEMMA DeliveryStep == DeliveryInv /\ [DeliveryNext]_deliveryVars => DeliveryInv'
<1> SUFFICES ASSUME DeliveryInv, [DeliveryNext]_deliveryVars PROVE DeliveryInv'
  OBVIOUS
<1>1. DeliveriesTyped /\ DatesFromDelivery /\ TermKept /\ NoneFromCancelled /\ WatchdogTells
      /\ MailsOwed /\ StaffAsked /\ Pursued
  BY DEF DeliveryInv
<1>2. DeliveriesTyped'
  BY <1>1, DeliveryTypes
<1>3. DatesFromDelivery' /\ FirstStands
  BY <1>1, <1>2, DatesStep
<1>4. TermKept'
  BY <1>1, <1>2, <1>3, TermStep
<1>5. QED
  BY <1>1, <1>2, <1>3, <1>4, CancelledStep, TellsStep, AskedStep, PursuedStep, OwedStep
     DEF DeliveryInv

\* ... and holds.
LEMMA DeliveryHolds == DeliverySpec => []DeliveryInv
  BY DeliveryStart, DeliveryStep, SubscriptionDeliveryAssumption, PTL DEF DeliverySpec

\* The rows and the requests stay what they are: type correctness of the deliveries.
THEOREM DeliveriesKeepTypes == DeliverySpec => []DeliveryTypeOK
<1>1. DeliveryInv => DeliveryTypeOK
  BY DEF DeliveryInv, DeliveriesTyped
<1>2. QED
  BY <1>1, DeliveryHolds, PTL

\* An activated subscription has the full term of its activation and of every renewal
\* paid since, however deliveries, replays, statuses set by hand and renewals overlap.
THEOREM GivenInFull == DeliverySpec => []TermIsGiven
<1>1. DeliveryInv => TermIsGiven
  BY DEF DeliveryInv, TermKept, TermIsGiven
<1>2. QED
  BY <1>1, DeliveryHolds, PTL

\* However many requests change statuses, a cancelled subscription is revived by none
\* that has read that it is cancelled.
THEOREM RevivedByOverlap == DeliverySpec => RevivalTakesOverlap
<1>1. ASSUME DeliveryInv, [DeliveryNext]_deliveryVars,
             sub.status = "cancelled", sub'.status # "cancelled"
      PROVE  \E a \in Staff : req[a].pc = "set" /\ req[a].previous # "cancelled"
  <2>1. PICK a \in Staff : SetStatus(a)
    <3>1. ASSUME sub'.status = sub.status PROVE FALSE
      BY <1>1, <3>1
    <3>2. ASSUME NEW a \in Staff, Request(a), ~SetStatus(a) PROVE sub'.status = sub.status
      <4>1. sub \in [status : Statuses, credentials : BOOLEAN, start : Nat, end : Nat]
        BY <1>1 DEF DeliveryInv, DeliveriesTyped, DeliveryTypeOK
      <4>2. QED
        BY <3>2, <4>1 DEF Request, BeginDelivery, MarkDelivered, SendMail, RecordOutcome, Schedule,
          BeginReplay, ReadOrder, ReadRow, WriteDates, Resend, RecordResend, BeginStatus,
          CheckTransition, CompleteRenewal, FulfilRenewal, termVars
    <3>3. ASSUME ~\E a \in Staff : Request(a) PROVE sub'.status = sub.status
      <4>1. sub \in [status : Statuses, credentials : BOOLEAN, start : Nat, end : Nat]
        BY <1>1 DEF DeliveryInv, DeliveriesTyped, DeliveryTypeOK
      <4>2. sub.status # "active"
        BY <1>1
      <4>3. QED
        BY <1>1, <3>3, <4>1, <4>2 DEF DeliveryNext, Request, BeginSweep, SweepMail, SweepRecord,
          SweepAsk, SweepSettle, SweepFails, Reopen, ChangeCredentials, Renew, CompleteMailTask,
          Expire, Tick, termVars, mailVars, deliveryVars
    <3>4. QED
      BY <3>1, <3>2, <3>3
  <2>2. req[a].pc = "set"
    BY <2>1 DEF SetStatus
  <2>3. req[a].previous # "cancelled"
    BY <1>1, <2>2 DEF DeliveryInv, NoneFromCancelled
  <2>4. QED
    BY <2>2, <2>3
<1>2. DeliveryInv /\ [DeliveryNext]_deliveryVars
        => [(sub.status = "cancelled" /\ sub'.status # "cancelled")
              => \E a \in Staff : req[a].pc = "set" /\ req[a].previous # "cancelled"]_deliveryVars
  BY <1>1
<1>3. QED
  BY <1>2, DeliveryHolds, PTL DEF DeliverySpec, RevivalTakesOverlap

\* Without overlaps, errors and requests for more, no delivery is mailed about twice.
THEOREM MailedOnce == DeliverySpec => []OneMailPerDelivery
<1>1. DeliveryInv => OneMailPerDelivery
  <2> SUFFICES ASSUME DeliveryInv, ~extra PROVE mails <= delivered
    BY DEF OneMailPerDelivery
  <2>1. /\ mails \in Nat /\ delivered \in Nat /\ OnWatch \in {0, 1}
        /\ Cardinality(WaitingSet) \in Nat
        /\ mails + Cardinality(WaitingSet) + OnWatch <= delivered
    BY FS_CardinalityType DEF DeliveryInv, DeliveriesTyped, MailsOwed, OnWatch
  <2>2. QED
    BY <2>1
<1>2. QED
  BY <1>1, DeliveryHolds, PTL

\* A mail that has not gone out is on the watchdog's list, or the staff has an open task
\* about it, but for the mails that a failed insert or an overlap hid.
THEOREM PursuedToTheEnd == DeliverySpec => []FailedMailIsPursued
<1>1. DeliveryInv => FailedMailIsPursued
  BY DEF DeliveryInv, Pursued, Pursuing, Waiting, Idle, FailedMailIsPursued
<1>2. QED
  BY <1>1, DeliveryHolds, PTL
=============================================================================
