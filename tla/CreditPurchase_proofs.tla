------------------------ MODULE CreditPurchase_proofs ------------------------
(***************************************************************************)
(* What holds of purchases with credits for every number of purchases and  *)
(* of failures: nothing is given unpaid.                                   *)
(***************************************************************************)
EXTENDS CreditPurchase, FiniteSetTheorems, TLAPS

\* A purchase comes to its subscription by its debit, ...
AfterDebit  == {"recount", "requery", "refill", "insert", "clear", "refund", "settle", "redeem", "entitle"}

\* ... has none before, ...
BeforeInsert == {"none", "count", "query", "fill", "order", "spend", "recount", "requery", "refill", "insert"}

\* ... and has ended but for its order and coupon when it is refunded.
AfterRefund == {"cancel", "void", "done"}

StepsInOrder ==
  \A o \in Orders :
    /\ req[o].pc \in AfterDebit => o \in debited
    /\ req[o].pc \in BeforeInsert => sub[o] = "none"
    /\ req[o].pc = "refund" => (sub[o] = "none" \/ o \in hidden)
    /\ o \in refunded => req[o].pc \in AfterRefund

\* What a purchase without failures has behind it at each step.
Way(o) ==
  /\ req[o].pc \in {"none", "count", "query", "fill", "order"} =>
       order[o] = "none" /\ voucher[o] = "none" /\ o \notin debited
  /\ req[o].pc = "spend" => o \notin debited
  /\ req[o].pc \in {"cancel", "void"} => sub[o] = "none" /\ (o \in debited => o \in refunded \cup capped)
  /\ req[o].pc = "void" => order[o] = "cancelled"
  /\ req[o].pc = "refund" => sub[o] = "none"
  /\ req[o].pc \in {"clear", "settle", "redeem", "entitle"} => sub[o] # "none"
  /\ req[o].pc \in {"redeem", "entitle"} => order[o] = "in_process"
  /\ req[o].pc = "entitle" => voucher[o] # "reserved"

OnItsWay == \A o \in Orders : o \notin broken => Way(o)

PurchaseInv == TypeOK /\ StepsInOrder /\ NothingGivenUnpaid /\ CountIsCurrent /\ OnItsWay /\ PurchaseIsSettled

-----------------------------------------------------------------------------
Requests == [pc : Steps \cup Ended, seen : Nat]

\* The initial state satisfies the invariant.
LEMMA InitPurchase ==
  ASSUME CreditPurchaseAssumption
  PROVE  Init => PurchaseInv
<1> SUFFICES ASSUME Init PROVE PurchaseInv
  OBVIOUS
<1>1. TypeOK
  <2>1. req \in [Orders -> Requests]
    BY DEF Init, Requests, Ended
  <2>2. balance \in [Users -> Int]
    BY DEF Init, CreditPurchaseAssumption
  <2>3. left \in [topup : Nat, fault : Nat]
    BY DEF Init, CreditPurchaseAssumption
  <2>4. outrun \in BOOLEAN
    BY Zenon DEF Init
  <2>5. QED
    BY <2>1, <2>2, <2>3, <2>4 DEF Init, TypeOK, Requests
<1>2. StepsInOrder
  BY DEF Init, StepsInOrder, AfterDebit, BeforeInsert
<1>3. NothingGivenUnpaid
  BY DEF Init, NothingGivenUnpaid
<1>4. CountIsCurrent
  BY DEF Init, CountIsCurrent
<1>5. OnItsWay /\ PurchaseIsSettled
  BY DEF Init, OnItsWay, Way, PurchaseIsSettled, At
<1>6. QED
  BY <1>1, <1>2, <1>3, <1>4, <1>5 DEF PurchaseInv

\* The purchase goes on to one of the steps.
LEMMA GotoType ==
  ASSUME TypeOK, NEW o \in Orders, NEW pc \in Steps \cup Ended, Goto(o, pc)
  PROVE  /\ req' \in [Orders -> Requests]
         /\ req'[o].pc = pc
         /\ \A x \in Orders : x # o => req'[x] = req[x]
BY DEF TypeOK, Goto, Requests

\* A decision leads to one of the steps.
LEMMA DecideType ==
  ASSUME NEW o \in Orders, NEW n
  PROVE  Decide(o, n) \in Steps \cup Ended
BY DEF Decide, Steps, Ended

\* There is a number of active subscriptions.
LEMMA ActiveType ==
  ASSUME CreditPurchaseAssumption
  PROVE  Active \in Nat
<1>1. IsFiniteSet({o \in Orders : sub[o] = "active"})
  BY FS_Subset DEF CreditPurchaseAssumption
<1>2. QED
  BY <1>1, FS_CardinalityType DEF Active

\* The bounds and the failures.
LEMMA BreaksType ==
  ASSUME TypeOK, NEW o \in Orders, Breaks(o)
  PROVE  left' \in [topup : Nat, fault : Nat] /\ broken' \subseteq Orders
BY DEF TypeOK, Breaks

\* A change of the user's balance, whichever operation makes it.
LEMMA LedgerType ==
  ASSUME CreditPurchaseAssumption, TypeOK, NEW a \in Int, NEW kind,
         Ledger!Change(User, kind, balance[User] + a)
  PROVE  balance' \in [Users -> Int]
BY DEF CreditPurchaseAssumption, TypeOK, Ledger!Change

\* The statements after the debit keep the types.
LEMMA WriteType ==
  ASSUME CreditPurchaseAssumption, TypeOK, NEW o \in Orders, NEW pc, NEW next \in Steps \cup Ended,
         Write(o, pc, next)
  PROVE  /\ req' \in [Orders -> Requests]
         /\ UNCHANGED <<balance, lastKind, debited, refunded, count, uncleared, outrun, sub, hidden, capped>>
BY GotoType DEF Write, ledgerVars, countVars

\* Type correctness: every step keeps each variable's type.
LEMMA TypeStep ==
  ASSUME CreditPurchaseAssumption, TypeOK, [Next]_vars
  PROVE  TypeOK'
<1> USE DEF TypeOK, Requests, rowVars, ledgerVars, countVars, histVars
<1>1. ASSUME NEW o \in Orders, Begin(o) \/ ReadCount(o) \/ CountFails(o) PROVE TypeOK'
  <2>1. \E pc \in Steps \cup Ended : Goto(o, pc)
    <3>1. CASE Begin(o)
      BY <3>1 DEF Begin, Steps
    <3>2. CASE ReadCount(o)
      <4>1. Decide(o, count) \in Steps \cup Ended /\ {"query", "requery"} \subseteq Steps
        BY DecideType DEF Steps
      <4>2. QED
        BY <3>2, <4>1 DEF ReadCount
    <3>3. CASE CountFails(o)
      BY <3>3, DecideType DEF CountFails
    <3>4. QED
      BY <1>1, <3>1, <3>2, <3>3
  <2>2. req' \in [Orders -> Requests]
    BY <2>1, GotoType
  <2>3. /\ UNCHANGED <<rowVars, ledgerVars, countVars, hidden, capped>>
        /\ UNCHANGED <<left, broken>> \/ Breaks(o)
    BY <1>1 DEF Begin, ReadCount, CountFails
  <2>4. QED
    BY <2>2, <2>3, BreaksType
<1>2. ASSUME NEW o \in Orders, QueryCount(o) PROVE TypeOK'
  BY <1>2, ActiveType DEF QueryCount, Steps
<1>3. ASSUME NEW o \in Orders, FillCount(o) PROVE TypeOK'
  <2>1. req' \in [Orders -> Requests]
    BY <1>3, DecideType, GotoType DEF FillCount
  <2>2. outrun' \in BOOLEAN
    BY <1>3, Zenon DEF FillCount
  <2>3. count' \in Nat
    BY <1>3 DEF FillCount
  <2>4. UNCHANGED <<rowVars, ledgerVars, uncleared, left, histVars>>
    BY <1>3 DEF FillCount
  <2>5. QED
    BY <2>1, <2>2, <2>3, <2>4
<1>4. ASSUME NEW o \in Orders, PlaceOrder(o) PROVE TypeOK'
  <2>1. Goto(o, "spend") \/ Goto(o, "done")
    BY <1>4 DEF PlaceOrder
  <2>2. req' \in [Orders -> Requests]
    BY <2>1, GotoType DEF Steps, Ended
  <2>3. QED
    BY <1>4, <2>2 DEF PlaceOrder
<1>5. ASSUME NEW o \in Orders, Spend(o) PROVE TypeOK'
  <2>1. Goto(o, "recount") \/ Goto(o, "cancel")
    BY <1>5 DEF Spend
  <2>2. req' \in [Orders -> Requests]
    BY <2>1, GotoType DEF Steps
  <2>3. balance' \in [Users -> Int]
    BY <1>5 DEF Spend, Ledger!Debit, Ledger!Change, CreditPurchaseAssumption
  <2>4. UNCHANGED <<left, broken>> \/ Breaks(o)
    BY <1>5 DEF Spend
  <2>5. QED
    BY <1>5, <2>2, <2>3, <2>4, BreaksType DEF Spend
<1>6. ASSUME NEW o \in Orders, InsertSubscription(o) PROVE TypeOK'
  <2>1. Goto(o, "clear") \/ Goto(o, "refund")
    BY <1>6 DEF InsertSubscription
  <2>2. req' \in [Orders -> Requests]
    BY <2>1, GotoType DEF Steps
  <2>3. UNCHANGED <<left, broken>> \/ Breaks(o)
    BY <1>6 DEF InsertSubscription
  <2>4. QED
    BY <1>6, <2>2, <2>3, BreaksType DEF InsertSubscription
<1>7. ASSUME NEW o \in Orders, ClearCount(o) PROVE TypeOK'
  <2>1. req' \in [Orders -> Requests]
    BY <1>7, GotoType DEF ClearCount, Steps
  <2>2. UNCHANGED <<left, broken>> \/ Breaks(o)
    BY <1>7 DEF ClearCount
  <2>3. outrun' \in BOOLEAN
    BY <1>7, Zenon DEF ClearCount
  <2>4. QED
    BY <1>7, <2>1, <2>2, <2>3, BreaksType DEF ClearCount, NoCount
<1>8. ASSUME NEW o \in Orders, Refund(o) PROVE TypeOK'
  <2>1. req' \in [Orders -> Requests]
    BY <1>8, GotoType DEF Refund, Steps
  <2>2. balance' \in [Users -> Int]
    BY <1>8 DEF Refund, Ledger!Deposit, Ledger!Change, CreditPurchaseAssumption
  <2>3. UNCHANGED <<left, broken>> \/ Breaks(o)
    BY <1>8 DEF Refund
  <2>4. QED
    BY <1>8, <2>1, <2>2, <2>3, BreaksType DEF Refund
<1>9. ASSUME NEW o \in Orders, CancelOrder(o) \/ SettleOrder(o) PROVE TypeOK'
  <2>1. /\ req' \in [Orders -> Requests]
        /\ UNCHANGED <<balance, lastKind, debited, refunded, count, uncleared, outrun, sub, hidden, capped>>
    BY <1>9, WriteType DEF CancelOrder, SettleOrder, Steps
  <2>2. UNCHANGED <<left, broken>> \/ Breaks(o)
    BY <1>9 DEF CancelOrder, SettleOrder
  <2>3. UNCHANGED <<voucher, entitled>>
        /\ order' \in [Orders -> {"none", "pending_payment", "in_process", "cancelled"}]
    BY <1>9 DEF CancelOrder, SettleOrder
  <2>4. QED
    BY <2>1, <2>2, <2>3, BreaksType
<1>10. ASSUME NEW o \in Orders, VoidCoupon(o) \/ RedeemCoupon(o) PROVE TypeOK'
  <2>1. /\ req' \in [Orders -> Requests]
        /\ UNCHANGED <<balance, lastKind, debited, refunded, count, uncleared, outrun, sub, hidden, capped>>
    BY <1>10, WriteType DEF VoidCoupon, RedeemCoupon, Steps, Ended
  <2>2. UNCHANGED <<left, broken>> \/ Breaks(o)
    BY <1>10 DEF VoidCoupon, RedeemCoupon, Settled
  <2>3. UNCHANGED <<order, entitled>>
        /\ voucher' \in [Orders -> {"none", "reserved", "redeemed", "voided", "expired"}]
    BY <1>10 DEF VoidCoupon, RedeemCoupon, Settled
  <2>4. QED
    BY <2>1, <2>2, <2>3, BreaksType
<1>11. ASSUME NEW o \in Orders, Entitle(o) PROVE TypeOK'
  <2>1. /\ req' \in [Orders -> Requests]
        /\ UNCHANGED <<balance, lastKind, debited, refunded, count, uncleared, outrun, sub, hidden, capped>>
    BY <1>11, WriteType DEF Entitle, Ended
  <2>2. UNCHANGED <<left, broken>> \/ Breaks(o)
    BY <1>11 DEF Entitle
  <2>3. QED
    BY <1>11, <2>1, <2>2, BreaksType DEF Entitle
<1>12. ASSUME NEW o \in Orders, Crash(o) PROVE TypeOK'
  <2>1. req' \in [Orders -> Requests]
    BY <1>12, GotoType DEF Crash, Ended
  <2>2. QED
    BY <1>12, <2>1, BreaksType DEF Crash
<1>13. ASSUME NEW o \in Orders, ChangeSubscription(o) \/ ReservationExpires(o) PROVE TypeOK'
  BY <1>13 DEF ChangeSubscription, ReservationExpires
<1>14. ASSUME NEW o \in Orders, ClearAfterChange(o) PROVE TypeOK'
  <2>1. outrun' \in BOOLEAN
    BY <1>14, Zenon DEF ClearAfterChange
  <2>2. left' \in [topup : Nat, fault : Nat]
    BY <1>14 DEF ClearAfterChange
  <2>3. QED
    BY <1>14, <2>1, <2>2 DEF ClearAfterChange, NoCount
<1>15. CASE CountExpires
  <2>1. outrun' \in BOOLEAN
    BY <1>15, Zenon DEF CountExpires
  <2>2. QED
    BY <1>15, <2>1 DEF CountExpires, NoCount
<1>16. CASE TopUp
  <2>1. PICK a \in Amounts : Ledger!Change(User, "topup", balance[User] + a)
    BY <1>16 DEF TopUp
  <2>2. balance' \in [Users -> Int]
    BY <2>1, LedgerType DEF CreditPurchaseAssumption
  <2>3. left' \in [topup : Nat, fault : Nat]
    BY <1>16 DEF TopUp
  <2>4. QED
    BY <1>16, <2>2, <2>3 DEF TopUp
<1>17. CASE UNCHANGED vars
  BY <1>17 DEF vars
<1>18. QED
  BY <1>1, <1>2, <1>3, <1>4, <1>5, <1>6, <1>7, <1>8, <1>9, <1>10, <1>11, <1>12, <1>13, <1>14,
     <1>15, <1>16, <1>17 DEF Next

-----------------------------------------------------------------------------
\* A decision of the second look leads to the subscription or to the refund, one of the
\* first before the debit or nowhere.
LEMMA DecideStep ==
  ASSUME NEW o \in Orders, NEW n
  PROVE  /\ req[o].pc \in {"count", "query", "fill"} => Decide(o, n) \in {"order", "done"}
         /\ req[o].pc \in {"recount", "requery", "refill"} => Decide(o, n) \in {"insert", "refund"}
BY DEF Decide

\* What the purchases that do not move keep.
LEMMA OthersKeep ==
  ASSUME StepsInOrder, NEW o \in Orders,
         \A x \in Orders : x # o => req'[x] = req[x] /\ sub'[x] = sub[x],
         debited \subseteq debited', hidden \subseteq hidden', refunded' \subseteq refunded \cup {o},
         req'[o].pc \in AfterDebit => o \in debited',
         req'[o].pc \in BeforeInsert => sub'[o] = "none",
         req'[o].pc = "refund" => (sub'[o] = "none" \/ o \in hidden'),
         o \in refunded' => req'[o].pc \in AfterRefund
  PROVE  StepsInOrder'
BY DEF StepsInOrder

\* The order of the steps: what each one leaves behind is what the next one finds.
LEMMA OrderStep ==
  ASSUME CreditPurchaseAssumption, TypeOK, StepsInOrder, [Next]_vars
  PROVE  StepsInOrder'
<1> USE DEF rowVars, ledgerVars, countVars, histVars, AfterDebit, BeforeInsert, AfterRefund
<1>1. ASSUME NEW o \in Orders, NEW pc \in Steps \cup Ended, Goto(o, pc),
             UNCHANGED <<sub, debited, refunded, hidden>>,
             \/ req[o].pc \in {"none", "count", "query", "fill"} /\ pc \in {"count", "query", "fill", "order", "done"}
             \/ req[o].pc = "order" /\ pc \in {"spend", "done"}
             \/ req[o].pc \in {"recount", "requery", "refill"} /\ pc \in {"requery", "refill", "insert", "refund"}
             \/ req[o].pc = "clear" /\ pc = "settle"
             \/ req[o].pc = "settle" /\ pc = "redeem"
             \/ req[o].pc = "redeem" /\ pc = "entitle"
             \/ pc \in {"cancel", "void", "done"}
      PROVE  StepsInOrder'
  <2>1. /\ req'[o].pc = pc
        /\ \A x \in Orders : x # o => req'[x] = req[x]
    BY <1>1, GotoType
  <2>2. /\ pc \in AfterDebit => o \in debited
        /\ pc \in BeforeInsert => sub[o] = "none"
        /\ pc = "refund" => sub[o] = "none"
        /\ o \in refunded => pc \in AfterRefund
    BY <1>1 DEF StepsInOrder
  <2>3. QED
    BY <1>1, <2>1, <2>2, OthersKeep
<1>2. ASSUME NEW o \in Orders, Begin(o) \/ PlaceOrder(o) \/ ClearCount(o) \/ Crash(o)
      PROVE  StepsInOrder'
  BY <1>1, <1>2 DEF Begin, PlaceOrder, ClearCount, Crash, At, Steps, Ended
<1>3. ASSUME NEW o \in Orders, CountFails(o) \/ ReadCount(o) \/ FillCount(o) PROVE StepsInOrder'
  <2>1. PICK pc : /\ Goto(o, pc)
                  /\ UNCHANGED <<sub, debited, refunded, hidden>>
                  /\ \/ /\ req[o].pc \in {"count", "query", "fill"}
                        /\ pc \in {"query", "order", "done"}
                     \/ /\ req[o].pc \in {"recount", "requery", "refill"}
                        /\ pc \in {"requery", "insert", "refund"}
    BY <1>3, DecideStep DEF CountFails, ReadCount, FillCount, At
  <2>2. QED
    BY <1>1, <2>1 DEF Steps, Ended
<1>4. ASSUME NEW o \in Orders, QueryCount(o) PROVE StepsInOrder'
  <2>1. req \in [Orders -> Requests]
    BY DEF TypeOK, Requests
  <2>2. \A x \in Orders : x # o => req'[x] = req[x]
    BY <1>4, <2>1 DEF QueryCount
  <2>3. req'[o].pc = IF req[o].pc = "query" THEN "fill" ELSE "refill"
    BY <1>4, <2>1 DEF QueryCount, At
  <2>4. QED
    BY <1>4, <2>2, <2>3 DEF QueryCount, StepsInOrder
<1>5. ASSUME NEW o \in Orders, Spend(o) PROVE StepsInOrder'
  <2>1. At(o, "spend") /\ UNCHANGED <<sub, refunded>>
    BY <1>5 DEF Spend
  <2>2. \/ Goto(o, "recount") /\ debited' = debited \cup {o}
        \/ Goto(o, "cancel") /\ debited \subseteq debited'
    BY <1>5 DEF Spend
  <2>3. hidden \subseteq hidden'
    BY <1>5 DEF Spend
  <2>4. /\ \A x \in Orders : x # o => req'[x] = req[x]
        /\ (req'[o].pc = "recount" /\ o \in debited') \/ req'[o].pc = "cancel"
    BY <2>2, GotoType DEF Steps
  <2>5. sub[o] = "none" /\ o \notin refunded
    BY <2>1 DEF StepsInOrder, At
  <2>6. QED
    BY <2>1, <2>2, <2>3, <2>4, <2>5, OthersKeep
<1>6. ASSUME NEW o \in Orders, InsertSubscription(o) PROVE StepsInOrder'
  <2>1. At(o, "insert") /\ UNCHANGED <<debited, refunded>>
    BY <1>6 DEF InsertSubscription
  <2>2. \/ Goto(o, "clear")
        \/ Goto(o, "refund") /\ (sub' = sub \/ o \in hidden')
    BY <1>6 DEF InsertSubscription
  <2>3. hidden \subseteq hidden' /\ \A x \in Orders : x # o => sub'[x] = sub[x]
    BY <1>6 DEF InsertSubscription, TypeOK
  <2>4. /\ \A x \in Orders : x # o => req'[x] = req[x]
        /\ req'[o].pc = "clear" \/ (req'[o].pc = "refund" /\ (sub' = sub \/ o \in hidden'))
    BY <2>2, GotoType DEF Steps
  <2>5. sub[o] = "none" /\ o \notin refunded /\ o \in debited
    BY <2>1 DEF StepsInOrder, At
  <2>6. QED
    BY <2>1, <2>3, <2>4, <2>5, OthersKeep
<1>7. ASSUME NEW o \in Orders, Refund(o) PROVE StepsInOrder'
  <2>1. Goto(o, "cancel") /\ UNCHANGED <<sub, debited, hidden>> /\ refunded' \subseteq refunded \cup {o}
    BY <1>7 DEF Refund
  <2>2. req'[o].pc = "cancel" /\ \A x \in Orders : x # o => req'[x] = req[x]
    BY <2>1, GotoType DEF Steps
  <2>3. QED
    BY <2>1, <2>2, OthersKeep
<1>8. ASSUME NEW o \in Orders, CancelOrder(o) \/ VoidCoupon(o) \/ SettleOrder(o) \/ RedeemCoupon(o) \/ Entitle(o)
      PROVE  StepsInOrder'
  BY <1>1, <1>8 DEF CancelOrder, VoidCoupon, SettleOrder, RedeemCoupon, Entitle, Write, At, Steps, Ended
<1>9. ASSUME NEW o \in Orders, ChangeSubscription(o) PROVE StepsInOrder'
  <2>1. sub[o] \in {"pending", "active"} /\ UNCHANGED <<req, debited, refunded, hidden>>
    BY <1>9 DEF ChangeSubscription
  <2>2. \A x \in Orders : x # o => sub'[x] = sub[x]
    BY <1>9 DEF ChangeSubscription, TypeOK
  <2>3. QED
    BY <2>1, <2>2 DEF StepsInOrder
<1>10. ASSUME UNCHANGED <<sub, req, debited, refunded, hidden>> PROVE StepsInOrder'
  BY <1>10 DEF StepsInOrder
<1>11. QED
  BY <1>2, <1>3, <1>4, <1>5, <1>6, <1>7, <1>8, <1>9, <1>10 DEF Next, vars, ClearAfterChange,
     ReservationExpires, CountExpires, TopUp

\* What is given, and what is refunded, follows from the order of the steps.
LEMMA GivenStep ==
  ASSUME CreditPurchaseAssumption, TypeOK, StepsInOrder, NothingGivenUnpaid, [Next]_vars
  PROVE  NothingGivenUnpaid'
<1> USE DEF rowVars, ledgerVars, countVars, histVars
<1>1. ASSUME UNCHANGED <<sub, refunded>>, debited \subseteq debited', hidden \subseteq hidden'
      PROVE  NothingGivenUnpaid'
  BY <1>1 DEF NothingGivenUnpaid
<1>2. ASSUME NEW o \in Orders, Spend(o) PROVE NothingGivenUnpaid'
  BY <1>1, <1>2 DEF Spend
<1>3. ASSUME NEW o \in Orders, InsertSubscription(o) PROVE NothingGivenUnpaid'
  <2>1. /\ UNCHANGED <<debited, refunded>> /\ hidden \subseteq hidden'
        /\ \A x \in Orders : x # o => sub'[x] = sub[x]
    BY <1>3 DEF InsertSubscription, TypeOK
  <2>2. o \in debited /\ o \notin refunded
    BY <1>3 DEF InsertSubscription, At, StepsInOrder, AfterDebit, AfterRefund
  <2>3. QED
    BY <2>1, <2>2 DEF NothingGivenUnpaid, TypeOK
<1>4. ASSUME NEW o \in Orders, Refund(o) PROVE NothingGivenUnpaid'
  <2>1. UNCHANGED <<sub, debited, hidden>> /\ refunded' \subseteq refunded \cup {o}
    BY <1>4 DEF Refund
  <2>2. o \in debited /\ (sub[o] = "none" \/ o \in hidden)
    BY <1>4 DEF Refund, At, StepsInOrder, AfterDebit
  <2>3. QED
    BY <2>1, <2>2 DEF NothingGivenUnpaid
<1>5. ASSUME NEW o \in Orders, ChangeSubscription(o) PROVE NothingGivenUnpaid'
  <2>1. sub[o] \in {"pending", "active"} /\ UNCHANGED <<debited, refunded, hidden>>
    BY <1>5 DEF ChangeSubscription
  <2>2. \A x \in Orders : x # o => sub'[x] = sub[x]
    BY <1>5 DEF ChangeSubscription, TypeOK
  <2>3. QED
    BY <2>1, <2>2 DEF NothingGivenUnpaid, TypeOK
<1>6. QED
  BY <1>1, <1>2, <1>3, <1>4, <1>5 DEF Next, vars, Begin, CountFails, ReadCount, QueryCount,
     FillCount, PlaceOrder, ClearCount, CancelOrder, VoidCoupon, SettleOrder, RedeemCoupon,
     Entitle, Write, Crash, ClearAfterChange, ReservationExpires, CountExpires, TopUp

\* The cached count: whoever changes what it counts is bound to delete it.
LEMMA CountStep ==
  ASSUME CreditPurchaseAssumption, TypeOK, StepsInOrder, CountIsCurrent, [Next]_vars
  PROVE  CountIsCurrent'
<1> USE DEF rowVars, ledgerVars, countVars, histVars
<1>1. ASSUME UNCHANGED <<sub, countVars>> PROVE CountIsCurrent'
  BY <1>1 DEF CountIsCurrent, Active
<1>2. ASSUME UNCHANGED sub, count' = NoCount PROVE CountIsCurrent'
  BY <1>2 DEF CountIsCurrent
<1>3. ASSUME NEW o \in Orders, FillCount(o) PROVE CountIsCurrent'
  <2>1. outrun' = (req[o].seen # Active) /\ count' = req[o].seen /\ Active' = Active
    BY <1>3 DEF FillCount, Active
  <2>2. CASE req[o].seen = Active
    BY <2>1, <2>2 DEF CountIsCurrent
  <2>3. CASE req[o].seen # Active
    <3>1. outrun' = TRUE
      BY <2>1, <2>3, Zenon
    <3>2. QED
      BY <3>1 DEF CountIsCurrent
  <2>4. QED
    BY <2>2, <2>3
<1>4. ASSUME NEW o \in Orders, InsertSubscription(o) PROVE CountIsCurrent'
  <2>1. sub[o] = "none" /\ UNCHANGED countVars
    BY <1>4 DEF InsertSubscription, At, StepsInOrder, BeforeInsert
  <2>2. \A x \in Orders : sub'[x] = "active" <=> sub[x] = "active"
    BY <1>4, <2>1 DEF InsertSubscription, TypeOK
  <2>3. {x \in Orders : sub'[x] = "active"} = {x \in Orders : sub[x] = "active"}
    BY <2>2
  <2>4. QED
    BY <2>1, <2>3 DEF CountIsCurrent, Active
<1>5. ASSUME NEW o \in Orders, ClearCount(o) PROVE CountIsCurrent'
  BY <1>1, <1>2, <1>5 DEF ClearCount
<1>6. ASSUME NEW o \in Orders, ChangeSubscription(o) PROVE CountIsCurrent'
  <2>1. uncleared' # {}
    BY <1>6 DEF ChangeSubscription
  <2>2. QED
    BY <2>1 DEF CountIsCurrent
<1>7. ASSUME NEW o \in Orders, ClearAfterChange(o) PROVE CountIsCurrent'
  <2>1. count' = NoCount \/ outrun' = TRUE
    BY <1>7 DEF ClearAfterChange
  <2>2. QED
    BY <2>1 DEF CountIsCurrent
<1>8. CASE CountExpires
  BY <1>2, <1>8 DEF CountExpires
<1>9. QED
  BY <1>1, <1>3, <1>4, <1>5, <1>6, <1>7, <1>8 DEF Next, vars, Begin, CountFails, ReadCount, QueryCount,
     PlaceOrder, Spend, Refund, CancelOrder, VoidCoupon, SettleOrder, RedeemCoupon,
     Entitle, Write, Crash, ReservationExpires, TopUp

-----------------------------------------------------------------------------
\* One purchase moves, the others keep what they have behind them.
LEMMA OthersStay ==
  ASSUME OnItsWay, PurchaseIsSettled, NEW o \in Orders, broken \subseteq broken',
         \A x \in Orders : x # o =>
           /\ req'[x] = req[x] /\ sub'[x] = sub[x] /\ order'[x] = order[x] /\ voucher'[x] = voucher[x]
           /\ x \in debited' <=> x \in debited
           /\ x \in refunded' <=> x \in refunded
           /\ x \in capped' <=> x \in capped
           /\ x \in entitled' <=> x \in entitled,
         o \notin broken' =>
           /\ Way(o)'
           /\ req'[o].pc = "done" =>
                /\ order'[o] # "pending_payment" /\ voucher'[o] # "reserved"
                /\ IF sub'[o] # "none" THEN order'[o] = "in_process" /\ o \in entitled' \ refunded'
                   ELSE order'[o] # "in_process" /\ (o \in debited' => o \in refunded' \cup capped')
  PROVE  OnItsWay' /\ PurchaseIsSettled'
<1>1. OnItsWay'
  BY DEF OnItsWay, Way
<1>2. PurchaseIsSettled'
  BY DEF PurchaseIsSettled, At
<1>3. QED
  BY <1>1, <1>2

\* A purchase that fails is out of both.
LEMMA BrokenStep ==
  ASSUME OnItsWay, PurchaseIsSettled, NEW o \in Orders, Breaks(o),
         \A x \in Orders : x # o =>
           /\ req'[x] = req[x] /\ sub'[x] = sub[x] /\ order'[x] = order[x] /\ voucher'[x] = voucher[x]
           /\ x \in debited' <=> x \in debited
           /\ x \in refunded' <=> x \in refunded
           /\ x \in capped' <=> x \in capped
           /\ x \in entitled' <=> x \in entitled
  PROVE  OnItsWay' /\ PurchaseIsSettled'
BY OthersStay DEF Breaks

\* The way of a purchase: what each step without a failure adds to what lies behind it.
LEMMA WayStep ==
  ASSUME CreditPurchaseAssumption, TypeOK, StepsInOrder, NothingGivenUnpaid, OnItsWay, PurchaseIsSettled,
         [Next]_vars
  PROVE  OnItsWay' /\ PurchaseIsSettled'
<1> DEFINE EndsWell == OnItsWay' /\ PurchaseIsSettled'
<1> USE DEF rowVars, ledgerVars, countVars, histVars
<1>1. ASSUME NEW o \in Orders, NEW pc \in Steps \cup Ended, Goto(o, pc), UNCHANGED <<rowVars, debited, refunded, histVars>>,
             \/ req[o].pc \in {"none", "count", "query", "fill"} /\ pc \in {"count", "query", "fill", "order", "done"}
             \/ req[o].pc = "order" /\ pc = "done"
             \/ req[o].pc \in {"recount", "requery", "refill"} /\ pc \in {"requery", "refill", "insert", "refund"}
             \/ req[o].pc = "clear" /\ pc = "settle"
      PROVE  EndsWell
  <2>1. req'[o].pc = pc /\ \A x \in Orders : x # o => req'[x] = req[x]
    BY <1>1, GotoType
  <2>2. o \notin broken => Way(o)
    BY DEF OnItsWay
  <2>3. pc = "done" \/ pc \in {"count", "query", "fill", "order", "requery", "refill", "insert", "refund", "settle"}
    BY <1>1
  <2>4. req[o].pc \in {"none", "count", "query", "fill", "order", "recount", "requery", "refill"} => sub[o] = "none"
    BY DEF StepsInOrder, BeforeInsert
  <2>5. o \notin broken => Way(o)'
    BY <1>1, <2>1, <2>2, <2>4 DEF Way
  <2>6. o \notin broken /\ pc = "done" =>
          sub[o] = "none" /\ order[o] = "none" /\ voucher[o] = "none" /\ o \notin debited
    BY <1>1, <2>2, <2>4 DEF Way
  <2>7. QED
    BY <1>1, <2>1, <2>5, <2>6, OthersStay
<1>2. ASSUME NEW o \in Orders, NEW pc \in Steps \cup Ended, Goto(o, pc), Breaks(o),
             UNCHANGED <<sub, order, voucher, entitled, refunded, capped>>,
             debited' \in {debited, debited \cup {o}}
      PROVE  EndsWell
  BY <1>2, GotoType, BrokenStep
<1>3. ASSUME NEW o \in Orders, Begin(o) PROVE EndsWell
  BY <1>1, <1>3 DEF Begin, At, Steps
<1>4. ASSUME NEW o \in Orders, CountFails(o) \/ ReadCount(o) \/ FillCount(o) PROVE EndsWell
  <2>1. PICK pc : /\ Goto(o, pc)
                  /\ UNCHANGED <<rowVars, debited, refunded, hidden, capped>>
                  /\ \/ /\ req[o].pc \in {"count", "query", "fill"}
                        /\ pc \in {"query", "order", "done"}
                     \/ /\ req[o].pc \in {"recount", "requery", "refill"}
                        /\ pc \in {"requery", "insert", "refund"}
                  /\ Breaks(o) \/ UNCHANGED broken
    BY <1>4, DecideStep DEF CountFails, ReadCount, FillCount, At
  <2>2. pc \in Steps \cup Ended
    BY <2>1 DEF Steps, Ended
  <2>3. CASE Breaks(o)
    BY <1>2, <2>1, <2>2, <2>3
  <2>4. CASE UNCHANGED broken
    BY <1>1, <2>1, <2>2, <2>4
  <2>5. QED
    BY <2>1, <2>3, <2>4
<1>5. ASSUME NEW o \in Orders, QueryCount(o) PROVE EndsWell
  <2>1. req \in [Orders -> Requests]
    BY DEF TypeOK, Requests
  <2>2. \A x \in Orders : x # o => req'[x] = req[x]
    BY <1>5, <2>1 DEF QueryCount
  <2>3. req'[o].pc = IF req[o].pc = "query" THEN "fill" ELSE "refill"
    BY <1>5, <2>1 DEF QueryCount, At
  <2>4. o \notin broken => Way(o)
    BY DEF OnItsWay
  <2>5. o \notin broken => Way(o)'
    BY <1>5, <2>3, <2>4 DEF QueryCount, Way, At
  <2>6. QED
    BY <1>5, <2>2, <2>3, <2>5, OthersStay DEF QueryCount
<1>6. ASSUME NEW o \in Orders, PlaceOrder(o) PROVE EndsWell
  <2>1. CASE Goto(o, "done") /\ UNCHANGED <<order, voucher>>
    BY <1>1, <1>6, <2>1 DEF PlaceOrder, At, Ended
  <2>2. CASE Goto(o, "spend")
    <3>1. req'[o].pc = "spend" /\ \A x \in Orders : x # o => req'[x] = req[x]
      BY <2>2, GotoType DEF Steps
    <3>2. \A x \in Orders : x # o => order'[x] = order[x] /\ voucher'[x] = voucher[x]
      BY <1>6 DEF PlaceOrder, TypeOK
    <3>3. o \notin broken => o \notin debited
      BY <1>6 DEF PlaceOrder, At, OnItsWay, Way
    <3>4. o \notin broken => Way(o)'
      BY <1>6, <3>1, <3>3 DEF PlaceOrder, Way
    <3>5. QED
      BY <1>6, <3>1, <3>2, <3>4, OthersStay DEF PlaceOrder
  <2>3. QED
    BY <1>6, <2>1, <2>2 DEF PlaceOrder
<1>7. ASSUME NEW o \in Orders, Spend(o) PROVE EndsWell
  <2>1. CASE Breaks(o) /\ Goto(o, "cancel")
    BY <1>2, <1>7, <2>1 DEF Spend, Steps
  <2>2. CASE Goto(o, "recount") /\ UNCHANGED histVars
    <3>1. req'[o].pc = "recount" /\ \A x \in Orders : x # o => req'[x] = req[x]
      BY <2>2, GotoType DEF Steps
    <3>2. \A x \in Orders : x # o => (x \in debited' <=> x \in debited)
      BY <1>7 DEF Spend
    <3>3. o \notin broken => Way(o)'
      BY <3>1 DEF Way
    <3>4. QED
      BY <1>7, <2>2, <3>1, <3>2, <3>3, OthersStay DEF Spend
  <2>3. CASE Goto(o, "cancel") /\ UNCHANGED <<histVars, debited>>
    <3>1. req'[o].pc = "cancel" /\ \A x \in Orders : x # o => req'[x] = req[x]
      BY <2>3, GotoType DEF Steps
    <3>2. sub[o] = "none" /\ (o \notin broken => o \notin debited)
      BY <1>7 DEF Spend, At, OnItsWay, Way, StepsInOrder, BeforeInsert
    <3>3. o \notin broken => Way(o)'
      BY <1>7, <2>3, <3>1, <3>2 DEF Way, Spend
    <3>4. QED
      BY <1>7, <2>3, <3>1, <3>3, OthersStay DEF Spend
  <2>4. QED
    BY <1>7, <2>1, <2>2, <2>3 DEF Spend
<1>8. ASSUME NEW o \in Orders, InsertSubscription(o) PROVE EndsWell
  <2>1. \A x \in Orders : x # o => sub'[x] = sub[x]
    BY <1>8 DEF InsertSubscription, TypeOK
  <2>2. CASE Breaks(o) /\ Goto(o, "refund")
    <3>1. \A x \in Orders : x # o => req'[x] = req[x]
      BY <2>2, GotoType DEF Steps
    <3>2. QED
      BY <1>8, <2>1, <2>2, <3>1, BrokenStep DEF InsertSubscription
  <2>3. CASE Goto(o, "clear") /\ UNCHANGED histVars /\ sub' = [sub EXCEPT ![o] = "pending"]
    <3>1. req'[o].pc = "clear" /\ \A x \in Orders : x # o => req'[x] = req[x]
      BY <2>3, GotoType DEF Steps
    <3>2. sub'[o] # "none"
      BY <2>3 DEF TypeOK
    <3>3. Way(o)'
      BY <3>1, <3>2 DEF Way
    <3>4. QED
      BY <1>8, <2>1, <2>3, <3>1, <3>3, OthersStay DEF InsertSubscription
  <2>4. QED
    BY <1>8, <2>2, <2>3 DEF InsertSubscription
<1>9. ASSUME NEW o \in Orders, ClearCount(o) PROVE EndsWell
  <2>1. CASE Breaks(o)
    BY <1>2, <1>9, <2>1 DEF ClearCount, Steps
  <2>2. CASE UNCHANGED broken
    BY <1>1, <1>9, <2>2 DEF ClearCount, At, Steps
  <2>3. QED
    BY <1>9, <2>1, <2>2 DEF ClearCount
<1>10. ASSUME NEW o \in Orders, Refund(o) PROVE EndsWell
  <2>1. At(o, "refund") /\ Goto(o, "cancel") /\ UNCHANGED <<rowVars, debited, hidden>>
    BY <1>10 DEF Refund
  <2>2. req'[o].pc = "cancel" /\ \A x \in Orders : x # o => req'[x] = req[x]
    BY <2>1, GotoType DEF Steps
  <2>3. \/ refunded' = refunded \cup {o} /\ UNCHANGED <<broken, capped>>
        \/ refunded' = refunded /\ capped' = capped \cup {o} /\ UNCHANGED broken
        \/ UNCHANGED <<refunded, capped>> /\ Breaks(o)
    BY <1>10 DEF Refund
  <2>4. \A x \in Orders : x # o => /\ x \in refunded' <=> x \in refunded
                                   /\ x \in capped' <=> x \in capped
    BY <2>3
  <2>5. CASE Breaks(o)
    BY <2>1, <2>2, <2>4, <2>5, BrokenStep
  <2>6. CASE UNCHANGED broken /\ o \in refunded' \cup capped'
    <3>1. o \notin broken => sub[o] = "none"
      BY <2>1 DEF OnItsWay, Way, At
    <3>2. o \notin broken => Way(o)'
      BY <2>1, <2>2, <2>6, <3>1 DEF Way
    <3>3. QED
      BY <2>1, <2>2, <2>4, <2>6, <3>2, OthersStay
  <2>7. QED
    BY <2>3, <2>5, <2>6
<1>11. ASSUME NEW o \in Orders, NEW pc, NEW next \in Steps \cup Ended, Write(o, pc, next),
              \A x \in Orders : x # o => /\ order'[x] = order[x] /\ voucher'[x] = voucher[x]
                                         /\ x \in entitled' <=> x \in entitled,
              \/ Breaks(o)
              \/ /\ UNCHANGED broken
                 /\ o \notin broken /\ Way(o) =>
                      /\ next = "void" => order'[o] = "cancelled" /\ pc = "cancel"
                      /\ next \in {"redeem", "entitle"} =>
                            order'[o] = "in_process" /\ pc \in {"settle", "redeem"}
                      /\ next = "entitle" => voucher'[o] # "reserved"
                      /\ next = "done" =>
                           /\ order'[o] # "pending_payment" /\ voucher'[o] # "reserved"
                           /\ IF sub[o] # "none" THEN order'[o] = "in_process" /\ o \in entitled' \ refunded
                              ELSE order'[o] # "in_process" /\ (o \in debited => o \in refunded \cup capped),
              next \in {"void", "redeem", "entitle", "done"}
       PROVE  EndsWell
  <2>1. /\ req[o].pc = pc /\ req'[o].pc = next
        /\ \A x \in Orders : x # o => req'[x] = req[x]
        /\ UNCHANGED <<sub, debited, refunded, capped>>
    BY <1>11, GotoType DEF Write, At
  <2>2. CASE Breaks(o)
    BY <1>11, <2>1, <2>2, BrokenStep
  <2>3. CASE ~Breaks(o)
    <3>1. o \notin broken => Way(o)
      BY DEF OnItsWay
    <3>2. o \notin broken => Way(o)'
      BY <1>11, <2>1, <2>3, <3>1 DEF Way
    <3>3. QED
      BY <1>11, <2>1, <2>3, <3>1, <3>2, OthersStay
  <2>4. QED
    BY <2>2, <2>3
<1>12. ASSUME NEW o \in Orders, CancelOrder(o) PROVE EndsWell
  <2>1. Write(o, "cancel", "void") /\ UNCHANGED <<voucher, entitled>>
    BY <1>12 DEF CancelOrder
  <2>2. \A x \in Orders : x # o => order'[x] = order[x]
    BY <1>12 DEF CancelOrder, TypeOK
  <2>3. Breaks(o) \/ (UNCHANGED broken /\ order'[o] = "cancelled")
    BY <1>12 DEF CancelOrder, TypeOK
  <2>4. QED
    BY <1>11, <2>1, <2>2, <2>3 DEF Steps
<1>13. ASSUME NEW o \in Orders, VoidCoupon(o) PROVE EndsWell
  <2>1. Write(o, "void", "done") /\ UNCHANGED <<order, entitled>>
    BY <1>13 DEF VoidCoupon
  <2>2. \A x \in Orders : x # o => voucher'[x] = voucher[x]
    BY <1>13 DEF VoidCoupon, Settled, TypeOK
  <2>3. Breaks(o) \/ (UNCHANGED broken /\ voucher'[o] # "reserved")
    BY <1>13 DEF VoidCoupon, Settled, TypeOK
  <2>4. Way(o) => sub[o] = "none" /\ order[o] = "cancelled" /\ (o \in debited => o \in refunded \cup capped)
    BY <2>1 DEF Way, Write, At
  <2>5. QED
    BY <1>11, <2>1, <2>2, <2>3, <2>4 DEF Ended
<1>14. ASSUME NEW o \in Orders, SettleOrder(o) PROVE EndsWell
  <2>1. Write(o, "settle", "redeem") /\ UNCHANGED <<voucher, entitled>>
    BY <1>14 DEF SettleOrder
  <2>2. \A x \in Orders : x # o => order'[x] = order[x]
    BY <1>14 DEF SettleOrder, TypeOK
  <2>3. Breaks(o) \/ (UNCHANGED broken /\ order'[o] = "in_process")
    BY <1>14 DEF SettleOrder, TypeOK
  <2>4. QED
    BY <1>11, <2>1, <2>2, <2>3 DEF Steps
<1>15. ASSUME NEW o \in Orders, RedeemCoupon(o) PROVE EndsWell
  <2>1. Write(o, "redeem", "entitle") /\ UNCHANGED <<order, entitled>>
    BY <1>15 DEF RedeemCoupon
  <2>2. \A x \in Orders : x # o => voucher'[x] = voucher[x]
    BY <1>15 DEF RedeemCoupon, Settled, TypeOK
  <2>3. Breaks(o) \/ (UNCHANGED broken /\ voucher'[o] # "reserved")
    BY <1>15 DEF RedeemCoupon, Settled, TypeOK
  <2>4. Way(o) => order[o] = "in_process"
    BY <2>1 DEF Way, Write, At
  <2>5. QED
    BY <1>11, <2>1, <2>2, <2>3, <2>4 DEF Steps
<1>16. ASSUME NEW o \in Orders, Entitle(o) PROVE EndsWell
  <2>1. Write(o, "entitle", "done") /\ UNCHANGED <<order, voucher>>
    BY <1>16 DEF Entitle
  <2>2. \A x \in Orders : x # o => (x \in entitled' <=> x \in entitled)
    BY <1>16 DEF Entitle
  <2>3. Breaks(o) \/ (UNCHANGED broken /\ o \in entitled')
    BY <1>16 DEF Entitle
  <2>4. /\ o \notin refunded
        /\ Way(o) => order[o] = "in_process" /\ voucher[o] # "reserved" /\ sub[o] # "none"
    BY <2>1 DEF Way, Write, At, StepsInOrder, AfterRefund
  <2>5. QED
    BY <1>11, <2>1, <2>2, <2>3, <2>4 DEF Ended
<1>17. ASSUME NEW o \in Orders, Crash(o) PROVE EndsWell
  BY <1>2, <1>17 DEF Crash, Ended
<1>18. ASSUME NEW o \in Orders, ChangeSubscription(o) PROVE EndsWell
  <2>1. /\ sub[o] # "none" /\ sub'[o] # "none"
        /\ \A x \in Orders : x # o => sub'[x] = sub[x]
    BY <1>18 DEF ChangeSubscription, TypeOK
  <2>2. UNCHANGED <<order, voucher, entitled, debited, refunded, req, histVars>>
    BY <1>18 DEF ChangeSubscription
  <2>3. o \notin broken => Way(o)'
    BY <2>1, <2>2 DEF OnItsWay, Way
  <2>4. QED
    BY <2>1, <2>2, <2>3, OthersStay DEF PurchaseIsSettled, At
<1>19. ASSUME NEW o \in Orders, ReservationExpires(o) PROVE EndsWell
  <2>1. /\ voucher[o] = "reserved" /\ voucher'[o] = "expired"
        /\ \A x \in Orders : x # o => voucher'[x] = voucher[x]
    BY <1>19 DEF ReservationExpires, TypeOK
  <2>2. UNCHANGED <<order, sub, entitled, debited, refunded, capped, req, broken>>
    BY <1>19 DEF ReservationExpires
  <2>3. o \notin broken => Way(o)'
    BY <2>1, <2>2 DEF OnItsWay, Way
  <2>4. QED
    BY <2>1, <2>2, <2>3, OthersStay DEF PurchaseIsSettled, At
<1>20. ASSUME UNCHANGED <<rowVars, debited, refunded, req, histVars>> PROVE EndsWell
  BY <1>20 DEF OnItsWay, Way, PurchaseIsSettled, At
<1>21. QED
  BY <1>3, <1>4, <1>5, <1>6, <1>7, <1>8, <1>9, <1>10, <1>12, <1>13, <1>14, <1>15, <1>16, <1>17,
     <1>18, <1>19, <1>20 DEF Next, vars, ClearAfterChange, CountExpires, TopUp

-----------------------------------------------------------------------------
\* The invariant is one.
LEMMA PurchaseInvariant ==
  ASSUME CreditPurchaseAssumption
  PROVE  Spec => []PurchaseInv
<1>1. Init => PurchaseInv
  BY InitPurchase
<1>2. PurchaseInv /\ [Next]_vars => PurchaseInv'
  BY TypeStep, OrderStep, GivenStep, CountStep, WayStep DEF PurchaseInv
<1>3. QED
  BY <1>1, <1>2, PTL DEF Spec

\* Orders, coupons, subscriptions, the balance and the purchases keep their types.
THEOREM TypeCorrect ==
  ASSUME CreditPurchaseAssumption
  PROVE  Spec => []TypeOK
<1>1. PurchaseInv => TypeOK
  BY DEF PurchaseInv
<1>2. QED
  BY <1>1, PurchaseInvariant, PTL

\* A subscription takes a debit, a refund follows a debit, and who is refunded keeps no
\* subscription but one whose creation was taken for a failure.
THEOREM PaidFirst ==
  ASSUME CreditPurchaseAssumption
  PROVE  Spec => []NothingGivenUnpaid
<1>1. PurchaseInv => NothingGivenUnpaid
  BY DEF PurchaseInv
<1>2. QED
  BY <1>1, PurchaseInvariant, PTL

\* A purchase that ended without a failure has been paid and given, or nothing of it stays.
THEOREM SettledAtTheEnd ==
  ASSUME CreditPurchaseAssumption
  PROVE  Spec => []PurchaseIsSettled
<1>1. PurchaseInv => PurchaseIsSettled
  BY DEF PurchaseInv
<1>2. QED
  BY <1>1, PurchaseInvariant, PTL

\* The cached count is the number of active subscriptions, unless a change has yet to reach
\* it or was overtaken by it.
THEOREM CountedRight ==
  ASSUME CreditPurchaseAssumption
  PROVE  Spec => []CountIsCurrent
<1>1. PurchaseInv => CountIsCurrent
  BY DEF PurchaseInv
<1>2. QED
  BY <1>1, PurchaseInvariant, PTL
=============================================================================
