---------------------------- MODULE OrderPayment ----------------------------
(***************************************************************************)
(* One order that can be paid through Stripe, NOWPayments, PayOp, Antom,    *)
(* Pay4bit or with credits.  (PayPal, which has a confirmation of its own,  *)
(* is in PayPalCheckout.)  Every way ends in the same fulfilment under the  *)
(* advisory lock on the order id; they differ in what their notification    *)
(* checks, in what they write before the lock, and in who comes back when a *)
(* handler died: the provider, the buyer's poll, the sweep, or nobody.      *)
(*                                                                         *)
(* Items, and the failures of a single one, are in PayPalCheckout; here a   *)
(* fulfilment is one step.  The providers' own records are external.  A     *)
(* Stripe session can be complete while its payment is still processing:    *)
(* the backend offers whatever methods the account has, delayed ones too.   *)
(***************************************************************************)
EXTENDS Integers, FiniteSets

CONSTANTS
  Sessions,     \* invoices, sessions and intents that can be opened
  Procs,        \* concurrent requests of the backend
  Totals,       \* totals the cart is priced at
  Providers,    \* the providers in use
  MaxFailures,  \* bound: failed queries and crashes of one behaviour
  NoSession,    \* payment_reference is null
  NoProc        \* the order's advisory lock is free

AllProviders == {"stripe", "nowpayments", "payop", "antom", "pay4bit"}

ASSUME OrderPaymentAssumption ==
  /\ Providers \subseteq AllProviders
  /\ NoSession \notin Sessions /\ NoProc \notin Procs
  /\ Totals # {}
  /\ MaxFailures \in Nat

VARIABLES
  order,      \* the row of orders: status, prov, ref (payment_reference), total (total_cents)
              \* and settled (settlement_total_cents)
  session,    \* session[s]: provider, state there and price (external)
  payments,   \* payments[s]: status of the payments row of s
  events,     \* payment_events; for Pay4bit the stored callback responses
  served,     \* the order's items have their subscriptions
  redemption, \* the order's coupon redemption
  ledger,     \* the user's credit_transactions of this order
  lock,       \* who holds the advisory lock on the order id
  pc, job,    \* pc[p]: the await request p is at; job[p]: what it has read
  taken,      \* sessions whose payment has put the order in process (history)
  reopened,   \* a write-back put a settled order back to pending (history)
  lost,       \* sessions whose handler died after it had recorded the event (history)
  strayed,    \* a credits checkout died between its debit and its order (history)
  failures    \* failures so far, for the bound MaxFailures

rowVars  == <<order, payments, events, served, redemption, ledger>>
histVars == <<taken, reopened, lost, strayed, failures>>
vars == <<order, session, payments, events, served, redemption, ledger, lock, pc, job,
          taken, reopened, lost, strayed, failures>>

-----------------------------------------------------------------------------
Payable       == {"cart", "pending_payment"}
Statuses      == Payable \cup {"in_process", "cancelled"}   \* in_process: paid, delivered too
Results       == {"pending", "succeeded", "failed", "expired"}
PaymentStates == {"absent"} \cup Results   \* pending: processing too; expired: canceled too
Ways          == Providers \cup {"none", "credits"}
Kinds         == {"none", "open", "notify", "poll", "check", "error", "pay", "cancel", "credits"}
Locked        == {"locked", "marking", "debiting", "paying", "refunding", "serving", "finalizing"}
States        == Locked \cup
  {"idle", "creating", "attaching", "writing", "locking", "releasing",
   "attaching_call", "answering", "expiring", "inquiring", "closing",
   "cancelling", "voiding"}

Jobs == [kind : Kinds, prov : Ways, sess : Sessions \cup {NoSession},
         status : Statuses, total : Totals, seen : PaymentStates, result : Results,
         fresh : BOOLEAN]

AnyTotal == CHOOSE t \in Totals : TRUE

NoJob == [kind |-> "none", prov |-> "none", sess |-> NoSession, status |-> "cart",
          total |-> AnyTotal, seen |-> "absent", result |-> "pending", fresh |-> TRUE]

Init ==
  /\ order = [status |-> "cart", prov |-> "none", ref |-> NoSession,
              total |-> AnyTotal, settled |-> AnyTotal]
  /\ session = [s \in Sessions |-> [prov |-> "none", state |-> "absent", price |-> AnyTotal]]
  /\ payments = [s \in Sessions |-> "absent"]
  /\ events = {} /\ served = FALSE /\ redemption = "reserved"
  /\ ledger = [debits |-> 0, refunds |-> 0]
  /\ lock = NoProc
  /\ pc = [p \in Procs |-> "idle"]
  /\ job = [p \in Procs |-> NoJob]
  /\ taken = {} /\ reopened = FALSE /\ lost = {} /\ strayed = FALSE /\ failures = 0

Goto(p, l) == pc' = [pc EXCEPT ![p] = l] /\ UNCHANGED job
Finish(p)  == pc' = [pc EXCEPT ![p] = "idle"] /\ job' = [job EXCEPT ![p] = NoJob]

\* What a handler keeps of the order it has read: its status and what is to be paid,
\* the settlement through Pay4bit, the total through the others.
Sum(prov) == IF prov = "pay4bit" THEN order.settled ELSE order.total

Begin(p, l, j) == pc' = [pc EXCEPT ![p] = l] /\ job' = [job EXCEPT ![p] = j]

At(s) == session[s].state

\* The buyer has completed the session at Stripe: it is paid, still processing, or its
\* payment has bounced.
Completed(s) == At(s) \in {"complete", "paid", "bounced"}

\* upsertDraftOrder: the cart is priced anew.
Redraft ==
  /\ order.status = "cart"
  /\ \E t \in Totals \ {order.total} : order' = [order EXCEPT !.total = t, !.settled = t]
  /\ UNCHANGED <<session, payments, events, served, redemption, ledger, lock, pc, job, histVars>>

-----------------------------------------------------------------------------
(* Opening a session.  A reused session changes nothing and is left out.     *)

\* The guards every provider shares; the order's own provider may try again.
CanOpen(prov) == order.status \in Payable /\ order.prov \in {"none", prov}

Open(p, prov) ==
  /\ pc[p] = "idle" /\ prov \in Providers
  /\ CanOpen(prov)
  /\ Begin(p, "creating", [NoJob EXCEPT !.kind = "open", !.prov = prov, !.total = Sum(prov)])
  /\ UNCHANGED <<rowVars, session, lock, histVars>>

\* A Stripe session that can still be paid is always reused.
OpenStripe(p) ==
  /\ ~\E s \in Sessions : order.ref = s /\ At(s) = "open"
  /\ Open(p, "stripe")

\* A NOWPayments invoice is opened anew when its payment failed or expired, for
\* another coin, or when the buyer asks for it.
OpenNowPayments(p) == Open(p, "nowpayments")
OpenPayop(p)       == Open(p, "payop")
OpenAntom(p)       == Open(p, "antom")
OpenPay4bit(p)     == Open(p, "pay4bit")

\* The provider creates the session (Pay4bit's is only a URL), and its payments row is
\* inserted; nobody knows of the two yet.  Stripe may not have made the payment intent:
\* then there is no row.
CreateSession(p) ==
  /\ pc[p] = "creating"
  /\ \E s \in Sessions :
       /\ At(s) = "absent"
       /\ session' = [session EXCEPT ![s] =
                        [prov |-> job[p].prov, state |-> "created", price |-> job[p].total]]
       /\ \/ payments' = [payments EXCEPT ![s] = "pending"]
          \/ job[p].prov = "stripe" /\ UNCHANGED payments
       /\ job' = [job EXCEPT ![p].sess = s]
  /\ pc' = [pc EXCEPT ![p] = "attaching"]
  /\ UNCHANGED <<order, events, served, redemption, ledger, lock, histVars>>

\* The provider refuses: in the model, when the bound Sessions is reached.
CreateRefused(p) ==
  /\ pc[p] = "creating" /\ \A s \in Sessions : At(s) # "absent"
  /\ Finish(p)
  /\ UNCHANGED <<rowVars, session, lock, histVars>>

\* An order that was in process or cancelled is pending again.
Reopens(status) == order.status \notin Payable /\ status \in Payable

\* updateOrderPayment writes back the status as it was read, a cart as pending;
\* Pay4bit the settlement too.  The answer gives the buyer the session's URL.
AttachSession(p) ==
  /\ pc[p] = "attaching"
  /\ order' = [order EXCEPT !.status = "pending_payment", !.prov = job[p].prov, !.ref = job[p].sess,
                  !.settled = IF job[p].prov = "pay4bit" THEN job[p].total ELSE @]
  /\ session' = [session EXCEPT ![job[p].sess].state = "open"]
  /\ reopened' = (reopened \/ Reopens("pending_payment"))
  /\ Finish(p)
  /\ UNCHANGED <<payments, events, served, redemption, ledger, lock, taken, lost, strayed, failures>>

-----------------------------------------------------------------------------
(* External: the buyer pays, or the provider gives the session up.           *)

Settle(s, from, state) ==
  /\ At(s) = from
  /\ session' = [session EXCEPT ![s].state = state]
  /\ UNCHANGED <<rowVars, lock, pc, job, histVars>>

Pay(s)    == Settle(s, "open", "paid")
GiveUp(s) == Settle(s, "open", "failed")

\* With a delayed method, a Stripe session is complete before its payment clears or bounces.
Complete(s) == session[s].prov = "stripe" /\ Settle(s, "open", "complete")
Clear(s)    == \E state \in {"paid", "bounced"} : Settle(s, "complete", state)

-----------------------------------------------------------------------------
(* Notifications.  All but Pay4bit's are recorded before they are processed. *)

Record(p, kind, s, result, l) ==
  /\ pc[p] = "idle"
  /\ <<kind, s>> \notin events
  /\ events' = events \cup {<<kind, s>>}
  /\ Begin(p, l, [NoJob EXCEPT !.kind = "notify", !.prov = session[s].prov, !.sess = s,
                    !.seen = IF l = "writing" THEN payments[s] ELSE @,
                    !.result = IF l = "writing" THEN result ELSE @])
  /\ UNCHANGED <<order, payments, served, redemption, ledger, session, lock, histVars>>

\* Mutant of NotifyStripe: the type of the session's event is not looked at.
NotifyStripe_AnyEvent(p, s) ==
  /\ session[s].prov = "stripe" /\ (Completed(s) \/ At(s) = "failed")
  /\ Record(p, "final", s, "succeeded", "locking")

\* checkout.session.completed, whatever has become of the payment; any other session event
\* has no effect.
NotifyStripe(p, s) ==
  /\ session[s].prov = "stripe" /\ Completed(s)
  /\ Record(p, "final", s, "succeeded", "locking")

\* payment_intent.*: for a session's intent, only the row follows the status in the event.
\* A lesser status is ignored, but the row was read before the lock: an event that a later
\* one overtook can still be written.
NotifyIntent(s) ==
  /\ session[s].prov = "stripe" /\ payments[s] # "absent" /\ At(s) # "created"
  /\ \E written \in {"pending"} \cup (CASE At(s) = "paid"   -> {"succeeded"}
                                       [] At(s) = "failed" -> {"expired"}
                                       [] OTHER            -> {}) :
       payments' = [payments EXCEPT ![s] = written]
  /\ UNCHANGED <<order, events, served, redemption, ledger, session, lock, pc, job, histVars>>

\* An invoice can be paid in several attempts: one that expires is notified whatever
\* becomes of the invoice.
NotifyNowPayments(p, s) ==
  /\ session[s].prov = "nowpayments" /\ At(s) \notin {"absent", "created"}
  /\ \/ At(s) = "paid" /\ Record(p, "final", s, "succeeded", "writing")
     \/ \E r \in {"failed", "expired"} : Record(p, "attempt", s, r, "writing")

Polled(s) == CASE At(s) = "paid" -> "succeeded" [] At(s) = "failed" -> "failed" [] OTHER -> "pending"

\* PayOp's invoice and its transaction are read back from PayOp.
NotifyPayop(p, s) ==
  /\ session[s].prov = "payop" /\ At(s) \in {"paid", "failed"}
  /\ Record(p, "final", s, Polled(s), "writing")

NotifyAntom(p, s) ==
  /\ session[s].prov = "antom" /\ At(s) \in {"paid", "failed"}
  /\ Record(p, "final", s, Polled(s), "writing")

\* A handler that has read the payments row of s, and the provider, goes on to write it.
Reconcile(p, kind, s, result, fresh) ==
  /\ pc[p] = "idle"
  /\ Begin(p, "writing", [NoJob EXCEPT !.kind = kind, !.prov = session[s].prov, !.sess = s,
                            !.seen = payments[s], !.result = result, !.fresh = fresh])

\* PayOp's duplicate is told by its event, but its status is written all the same.
RepeatPayop(p) ==
  /\ \E s \in Sessions :
       /\ session[s].prov = "payop" /\ <<"final", s>> \in events
       /\ Reconcile(p, "notify", s, Polled(s), FALSE)
  /\ UNCHANGED <<rowVars, session, lock, histVars>>

\* getPayopCheckoutStatus, getAntomCheckoutStatus: the buyer's page asks, and an order
\* that is still payable is reconciled with what the provider says.
Poll(p) ==
  /\ order.status \in Payable
  /\ \E s \in Sessions :
       /\ session[s].prov \in {"payop", "antom"} /\ payments[s] # "absent"
       /\ Reconcile(p, "poll", s, Polled(s), TRUE)
  /\ UNCHANGED <<rowVars, session, lock, histVars>>

\* After a success, PayOp and Antom take no other status.  NOWPayments only ignores a
\* status that is not final: a later expired one counts.
Ignored(j) == j.prov \in {"payop", "antom"} /\ j.seen = "succeeded" /\ j.result # "succeeded"

\* Where a handler goes once the status of its payment is written.
AfterWrite(j) ==
  CASE ~j.fresh                                                  -> "idle"
    [] j.result = "succeeded"                                    -> "locking"
    [] j.result \in {"failed", "expired"} /\ j.prov = "antom"    -> "releasing"
    [] j.result \in {"failed", "expired"} /\ j.prov = "nowpayments" /\ j.seen # "failed"
                                                                 -> "cancelling"
    [] OTHER                                                     -> "idle"

\* updateStatusByProviderPaymentId, whatever the row has become since.
WriteStatus(p) ==
  /\ pc[p] = "writing"
  /\ LET j == job[p]
         l == IF Ignored(j) THEN "idle" ELSE AfterWrite(j) IN
       /\ payments' = IF Ignored(j) THEN payments ELSE [payments EXCEPT ![j.sess] = j.result]
       /\ IF l = "idle" THEN Finish(p)
            ELSE Begin(p, l, [j EXCEPT !.result = "pending", !.seen = "absent"])
  /\ UNCHANGED <<order, events, served, redemption, ledger, session, lock, histVars>>

\* releaseAntomOrderForRetry: the order may choose its provider again.
ReleaseAntom(p) ==
  /\ pc[p] = "releasing"
  /\ order' = IF order.prov = "antom" /\ order.ref = job[p].sess /\ order.status \in Payable
                THEN [order EXCEPT !.prov = "none", !.ref = NoSession] ELSE order
  /\ Finish(p)
  /\ UNCHANGED <<payments, events, served, redemption, ledger, session, lock, histVars>>

\* cancelAntomPayment, by an administrator: S closes the payment at Antom, U may not.
CancelAntom(p) ==
  /\ \E s \in Sessions :
       /\ session[s].prov = "antom" /\ payments[s] # "absent"
       /\ session' \in {session} \cup
            (IF At(s) = "open" THEN {[session EXCEPT ![s].state = "failed"]} ELSE {})
       /\ Reconcile(p, "cancel", s, "expired", FALSE)
  /\ UNCHANGED <<rowVars, lock, histVars>>

-----------------------------------------------------------------------------
(* Pay4bit's callback: a lock per payment and method, a stored response.     *)

Method(m, s) == CASE m = "check" -> At(s) \in {"open", "paid"}
                  [] m = "error" -> At(s) = "failed"
                  [] m = "pay"   -> At(s) = "paid"

\* The callback's sum is compared with the settlement: a difference cancels the order.
Callback(p, s) ==
  /\ pc[p] = "idle"
  /\ session[s].prov = "pay4bit"
  /\ \E m \in {"check", "error", "pay"} :
       /\ Method(m, s) /\ <<m, s>> \notin events
       /\ \A q \in Procs : ~(job[q].kind = m /\ job[q].sess = s)
       /\ Begin(p, IF session[s].price = Sum("pay4bit") THEN "attaching_call" ELSE "cancelling",
                [NoJob EXCEPT !.kind = m, !.prov = "pay4bit", !.sess = s,
                   !.status = order.status, !.total = Sum("pay4bit")])
  /\ UNCHANGED <<rowVars, session, lock, histVars>>

\* updateOrderPayment with the order as it was read, then the method's own write: a
\* check does not accept an order that is paid, delivered or cancelled.
AttachCallback(p) ==
  /\ pc[p] = "attaching_call"
  /\ LET j == job[p]
         status == IF j.status = "cart" THEN "pending_payment" ELSE j.status IN
       /\ order' = [order EXCEPT !.status = status, !.prov = "pay4bit", !.ref = j.sess,
                       !.settled = j.total]
       /\ reopened' = (reopened \/ Reopens(status))
       /\ \E written \in
            CASE j.kind = "check" /\ j.status \in Payable     -> {"pending"}
              [] j.kind = "check" /\ j.status = "in_process"  -> {"pending", payments[j.sess]}
              [] j.kind = "check" /\ j.status = "cancelled"   -> {payments[j.sess]}
              [] j.kind = "error"                             -> {"failed"}
              [] j.kind = "pay"                               -> {"succeeded"} :
            payments' = [payments EXCEPT ![j.sess] = written]
       /\ Goto(p, IF j.kind = "pay" THEN "locking" ELSE "answering")
  /\ UNCHANGED <<events, served, redemption, ledger, session, lock, taken, lost, strayed, failures>>

\* persistPay4bitCallbackResponse, of a failure too: every repetition gets it.
StoreAnswer(p) ==
  /\ pc[p] = "answering"
  /\ events' = events \cup {<<job[p].kind, job[p].sess>>}
  /\ Finish(p)
  /\ UNCHANGED <<order, payments, served, redemption, ledger, session, lock, histVars>>

\* A handler has nothing left but its answer, which Pay4bit's stores.
Answer(p, j) == IF j.prov = "pay4bit" /\ j.kind # "cancel" THEN Goto(p, "answering") ELSE Finish(p)

-----------------------------------------------------------------------------
(* Fulfilment, under pg_advisory_lock(hashtext(order)).                      *)

Lock(p) ==
  /\ lock' = p
  /\ Goto(p, "locked")
  /\ UNCHANGED <<rowVars, session, histVars>>

\* Mutant of LockOrder: the lock on the order is left out.
LockOrder_Unlocked(p) == pc[p] = "locking" /\ Lock(p)

LockOrder(p) == pc[p] = "locking" /\ lock = NoProc /\ Lock(p)

Unlock(p) == lock' = IF lock = p THEN NoProc ELSE lock

\* Mutant of AmountDiffers: the session's amount is not looked at.
AmountDiffers_Never(j) == FALSE

\* Stripe's amount is compared with the order as it is now.
AmountDiffers(j) == j.prov = "stripe" /\ session[j.sess].price # order.total

\* The order is read again: it goes on, is refused, or is cancelled.
ReadLocked(p) ==
  /\ pc[p] = "locked" /\ job[p].kind # "credits"
  /\ \/ order.status \notin Payable /\ Unlock(p) /\ Answer(p, job[p])
     \/ /\ order.status \in Payable
        /\ Goto(p, IF AmountDiffers(job[p]) THEN "cancelling" ELSE "marking")
        /\ UNCHANGED lock
  /\ UNCHANGED <<rowVars, session, histVars>>

\* UPDATE orders ... WHERE status IN ('pending_payment', 'cart'); Antom also settles
\* the order at the amount of its payment.
MarkInProcess(p) ==
  /\ pc[p] = "marking"
  /\ LET j == job[p] IN
       IF order.status \in Payable
         THEN /\ order' = [order EXCEPT !.status = "in_process", !.prov = j.prov, !.ref = j.sess,
                              !.settled = IF j.prov = "antom" THEN session[j.sess].price ELSE @]
              /\ taken' = taken \cup {j.sess}
              /\ Goto(p, "serving") /\ UNCHANGED lock
         ELSE Unlock(p) /\ Answer(p, j) /\ UNCHANGED <<order, taken>>
  /\ UNCHANGED <<payments, events, served, redemption, ledger, session, reopened, lost, strayed, failures>>

\* createPaymentItemAllocations and createSubscriptionsForOrder; Stripe makes the
\* payments row it lacks.
Serve(p) ==
  /\ pc[p] = "serving"
  /\ served' = TRUE
  /\ payments' = IF job[p].prov = "stripe" /\ payments[job[p].sess] = "absent"
                   THEN [payments EXCEPT ![job[p].sess] = "succeeded"] ELSE payments
  /\ Goto(p, "finalizing")
  /\ UNCHANGED <<order, events, redemption, ledger, session, lock, histVars>>

\* finalizeRedemptionForOrder, the mail, pg_advisory_unlock.
Finalize(p) ==
  /\ pc[p] = "finalizing"
  /\ redemption' = IF redemption = "reserved" THEN "redeemed" ELSE redemption
  /\ Unlock(p)
  /\ Answer(p, job[p])
  /\ UNCHANGED <<order, payments, events, served, ledger, session, histVars>>

-----------------------------------------------------------------------------
(* completeCheckoutOrderWithCredits: all of it under the order's lock.        *)

PayWithCredits(p) ==
  /\ pc[p] = "idle"
  /\ Begin(p, "locking", [NoJob EXCEPT !.kind = "credits", !.prov = "credits"])
  /\ UNCHANGED <<rowVars, session, lock, histVars>>

CreditsAllowed == order.status \in Payable /\ order.prov \in {"none", "credits"}

ReadForCredits(p) ==
  /\ pc[p] = "locked" /\ job[p].kind = "credits"
  /\ IF CreditsAllowed
       THEN Goto(p, "debiting") /\ UNCHANGED lock
       ELSE Unlock(p) /\ Finish(p)
  /\ UNCHANGED <<rowVars, session, histVars>>

\* spendCredits, which may also refuse: see CreditLedger.
Debit(p) ==
  /\ pc[p] = "debiting"
  /\ \/ ledger' = [ledger EXCEPT !.debits = @ + 1] /\ Goto(p, "paying") /\ UNCHANGED lock
     \/ Unlock(p) /\ Finish(p) /\ UNCHANGED ledger
  /\ UNCHANGED <<order, payments, events, served, redemption, session, histVars>>

\* updateOrderPayment, without a condition on the status.
PayOrder(p) ==
  /\ pc[p] = "paying"
  /\ order' = [order EXCEPT !.status = "in_process", !.prov = "credits", !.ref = NoSession]
  /\ Goto(p, "serving")
  /\ UNCHANGED <<payments, events, served, redemption, ledger, session, lock, histVars>>

\* It answers an error: the debit is given back.
PayOrderFails(p) ==
  /\ pc[p] = "paying" /\ failures < MaxFailures
  /\ failures' = failures + 1
  /\ Goto(p, "refunding")
  /\ UNCHANGED <<rowVars, session, lock, taken, reopened, lost, strayed>>

\* refundCredits.
RefundCredits(p) ==
  /\ pc[p] = "refunding"
  /\ ledger' = [ledger EXCEPT !.refunds = @ + 1]
  /\ Unlock(p) /\ Finish(p)
  /\ UNCHANGED <<order, payments, events, served, redemption, session, histVars>>

-----------------------------------------------------------------------------
(* Cancellation by the buyer, by the sweep, or after a mismatch.             *)

\* cancelStripeCheckout, cancelNowPaymentsCheckout and the route's own cancellation
\* of a Pay4bit order read the order.
Cancel(p) ==
  /\ pc[p] = "idle"
  /\ order.status = "pending_payment" /\ order.prov \in {"stripe", "nowpayments", "pay4bit"}
  /\ Begin(p, CASE order.prov = "stripe"      -> "expiring"
                [] order.prov = "nowpayments" -> "closing"
                [] order.prov = "pay4bit"     -> "cancelling",
           [NoJob EXCEPT !.kind = "cancel", !.prov = order.prov, !.sess = order.ref])
  /\ UNCHANGED <<rowVars, session, lock, histVars>>

\* expireCheckoutSession: an open session cannot be completed any more, unless the call
\* fails, which is swallowed.
ExpireStripe(p) ==
  /\ pc[p] = "expiring"
  /\ \/ UNCHANGED session
     \/ At(job[p].sess) = "open" /\ session' = [session EXCEPT ![job[p].sess].state = "failed"]
  /\ Goto(p, "inquiring")
  /\ UNCHANGED <<rowVars, lock, histVars>>

\* No intent is known, because the session has none or cannot be retrieved: the order is
\* cancelled.
CancelBlindly(p, s) ==
  /\ payments[s] = "absent"
  /\ Goto(p, "cancelling")
  /\ UNCHANGED <<payments, session>>

\* The intent is cancelled, at the latest now, and the order after it; or Stripe refuses.
CancelIntent(p, s) ==
  /\ At(s) \in {"open", "failed", "bounced"}
  /\ \/ /\ session' = [session EXCEPT ![s].state = IF @ = "open" THEN "failed" ELSE @]
        /\ payments' = [payments EXCEPT ![s] = IF @ = "absent" THEN @ ELSE "expired"]
        /\ Goto(p, "cancelling")
     \/ At(s) # "failed" /\ Finish(p) /\ UNCHANGED <<payments, session>>

\* Mutant of InquireStripe: a paid session is left to its notification.
InquireStripe_LeavesPaid(p) ==
  /\ pc[p] = "inquiring"
  /\ LET s == job[p].sess IN
       \/ CancelBlindly(p, s) \/ CancelIntent(p, s)
       \/ At(s) \in {"complete", "paid"} /\ Finish(p) /\ UNCHANGED <<payments, session>>
  /\ UNCHANGED <<order, events, served, redemption, ledger, lock, histVars>>

\* A paid or processing intent is reconciled, which writes its payments row and no more;
\* without the row the session, being complete, is processed.
InquireStripe(p) ==
  /\ pc[p] = "inquiring"
  /\ LET s == job[p].sess IN
       \/ CancelBlindly(p, s) \/ CancelIntent(p, s)
       \/ /\ At(s) \in {"complete", "paid"} /\ UNCHANGED session
          /\ IF payments[s] = "absent"
               THEN Goto(p, "locking") /\ UNCHANGED payments
               ELSE /\ payments' = [payments EXCEPT ![s] = IF At(s) = "paid" THEN "succeeded" ELSE @]
                    /\ Finish(p)
  /\ UNCHANGED <<order, events, served, redemption, ledger, lock, histVars>>

\* NOWPayments is not asked: its payments row decides.
CloseNowPayments(p) ==
  /\ pc[p] = "closing"
  /\ LET s == job[p].sess IN
       IF payments[s] = "succeeded"
         THEN Finish(p) /\ UNCHANGED payments
         ELSE payments' = [payments EXCEPT ![s] = "expired"] /\ Goto(p, "cancelling")
  /\ UNCHANGED <<order, events, served, redemption, ledger, session, lock, histVars>>

\* updateOrderStatus(cancelled), whatever the order has become.
CancelOrder(p) ==
  /\ pc[p] = "cancelling"
  /\ order' = [order EXCEPT !.status = "cancelled"]
  /\ Goto(p, "voiding")
  /\ UNCHANGED <<payments, events, served, redemption, ledger, session, lock, histVars>>

\* voidRedemptionForOrder.
VoidCoupon(p) ==
  /\ pc[p] = "voiding"
  /\ redemption' = IF redemption = "reserved" THEN "voided" ELSE redemption
  /\ Unlock(p)
  /\ Answer(p, job[p])
  /\ UNCHANGED <<order, payments, events, served, ledger, session, histVars>>

-----------------------------------------------------------------------------
\* A query or a provider's call throws, or the process dies; a debit may have been
\* committed all the same.
Fail(p) ==
  /\ pc[p] # "idle" /\ failures < MaxFailures
  /\ failures' = failures + 1
  /\ lost' = IF job[p].kind = "notify" THEN lost \cup {job[p].sess} ELSE lost
  /\ \/ UNCHANGED ledger /\ strayed' = (strayed \/ pc[p] \in {"paying", "refunding"})
     \/ /\ pc[p] = "debiting"
        /\ ledger' = [ledger EXCEPT !.debits = @ + 1] /\ strayed' = TRUE
  /\ Unlock(p)
  /\ Finish(p)
  /\ UNCHANGED <<order, payments, events, served, redemption, session, taken, reopened>>

Notified(p, s) ==
  \/ NotifyStripe(p, s) \/ NotifyNowPayments(p, s) \/ NotifyPayop(p, s)
  \/ NotifyAntom(p, s) \/ Callback(p, s)

External(s) == Pay(s) \/ GiveUp(s) \/ Complete(s) \/ Clear(s)

Advance(p) ==
  \/ CreateSession(p) \/ CreateRefused(p) \/ AttachSession(p)
  \/ WriteStatus(p) \/ ReleaseAntom(p)
  \/ AttachCallback(p) \/ StoreAnswer(p)
  \/ ReadLocked(p) \/ MarkInProcess(p) \/ Serve(p) \/ Finalize(p)
  \/ ReadForCredits(p) \/ Debit(p) \/ PayOrder(p) \/ RefundCredits(p)
  \/ ExpireStripe(p) \/ InquireStripe(p) \/ CloseNowPayments(p) \/ CancelOrder(p) \/ VoidCoupon(p)

Next ==
  \/ \E p \in Procs :
       \/ OpenStripe(p) \/ OpenNowPayments(p) \/ OpenPayop(p) \/ OpenAntom(p) \/ OpenPay4bit(p)
       \/ Poll(p) \/ RepeatPayop(p) \/ CancelAntom(p) \/ PayWithCredits(p) \/ Cancel(p)
       \/ Advance(p) \/ LockOrder(p) \/ PayOrderFails(p) \/ Fail(p)
       \/ \E s \in Sessions : Notified(p, s)
  \/ \E s \in Sessions : External(s) \/ NotifyIntent(s)
  \/ Redraft

Spec == Init /\ [][Next]_vars

\* Handlers run on, the server hands the lock to its waiters, a provider repeats a
\* notification until it is answered, and the sweep comes round again and again.
Fairness ==
  /\ \A p \in Procs : WF_vars(Advance(p)) /\ SF_vars(LockOrder(p))
  /\ \A s \in Sessions : SF_vars(\E p \in Procs : Notified(p, s))
  /\ SF_vars(\E p \in Procs : order.prov # "pay4bit" /\ Cancel(p))

FairSpec == Spec /\ Fairness

-----------------------------------------------------------------------------
TypeOK ==
  /\ order \in [status : Statuses, prov : Ways, ref : Sessions \cup {NoSession},
                total : Totals, settled : Totals]
  /\ session \in [Sessions -> [prov : Ways, price : Totals,
                               state : {"absent", "created", "open", "complete", "paid",
                                        "bounced", "failed"}]]
  /\ payments \in [Sessions -> PaymentStates]
  /\ events \subseteq ({"final", "attempt"} \cup Kinds) \X (Sessions \cup {NoSession})
  /\ served \in BOOLEAN
  /\ redemption \in {"reserved", "redeemed", "voided"}
  /\ ledger \in [debits : Nat, refunds : Nat]
  /\ lock \in Procs \cup {NoProc}
  /\ pc \in [Procs -> States]
  /\ job \in [Procs -> Jobs]
  /\ taken \cup lost \subseteq Sessions \cup {NoSession}
  /\ reopened \in BOOLEAN /\ strayed \in BOOLEAN
  /\ failures \in 0..MaxFailures

Net == ledger.debits - ledger.refunds

\* The buyer has done what its provider has the backend wait for.
CheckedOut(s) == At(s) = "paid" \/ (session[s].prov = "stripe" /\ Completed(s))

\* Nothing is given before the buyer has checked out: a payments row that says succeeded,
\* an order put in process by a session, its subscriptions and its coupon all follow the
\* payment at that provider or a debit that was not given back.  Stripe is the exception:
\* there a completed session is enough, whether or not its payment clears later.
NothingGivenBeforeCheckout ==
  /\ \A s \in Sessions : payments[s] = "succeeded" \/ s \in taken => CheckedOut(s)
  /\ served \/ redemption = "redeemed" => taken # {} \/ Net > 0

\* One order takes one payment, through whichever of the ways: a second session, or the
\* user's credits as well, are taken only after a session opened meanwhile has written
\* the order back to pending, or a credits checkout died between debit and order.
TakenOnce == Cardinality(taken) + Net <= 1 \/ reopened \/ strayed

\* An order in process through Stripe was paid what it costs, though it may have been
\* re-priced while the session was opened, or had another session attached meanwhile.
FulfilledAtItsPrice ==
  order.status = "in_process" /\ order.prov = "stripe" => session[order.ref].price = order.total

\* Whoever gets the order's lock and reads in_process answers that the order is
\* fulfilled, and it is, unless something failed.
LockedAnswerIsTrue ==
  \A p \in Procs :
    pc[p] = "locked" /\ order.status = "in_process" /\ failures = 0 => served

\* An order whose session is paid does not stay pending.  Pay4bit repeats what died, the
\* sweep finds a Stripe session whose intent has no payments row; what else died after
\* its event was recorded waits for the buyer's next poll, as does an order that was
\* written back to pending.
PaidLeavesPending ==
  \A s \in Sessions :
    LET stuck == At(s) = "paid" /\ order.ref = s /\ order.status = "pending_payment"
        swept == session[s].prov = "stripe" /\ payments[s] = "absent"
    IN stuck ~> ~stuck \/ reopened \/ (s \in lost /\ ~swept)

=============================================================================
