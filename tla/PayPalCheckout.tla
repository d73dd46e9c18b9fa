--------------------------- MODULE PayPalCheckout ---------------------------
(***************************************************************************)
(* The checkout of one order through PayPal: the session a buyer opens, its *)
(* confirmation by the returning buyer or by PayPal's webhook, the capture  *)
(* of the money, the fulfilment of the order, and its cancellation by the   *)
(* buyer, by PayPal or by the sweep of abandoned checkouts.                 *)
(*                                                                         *)
(* Each handler is a request of a process p that reads the order, awaits    *)
(* PayPal, and goes on with what it read.  Fulfilment alone is serialised,  *)
(* by a session-level advisory lock on the order id.  PayPal's own record   *)
(* of a session is external.                                               *)
(***************************************************************************)
EXTENDS Integers, FiniteSets

CONSTANTS
  Sessions,     \* PayPal orders that can be opened for the order
  Items,        \* the order's items
  Procs,        \* concurrent requests of the backend
  Totals,       \* settlement_total_cents the cart is priced at
  MaxFailures,  \* bound: failed queries and crashes of one behaviour
  NoSession,    \* payment_reference is null
  NoItem,       \* a handler is at no item
  NoProc        \* the order's advisory lock is free

ASSUME CheckoutAssumption ==
  /\ NoSession \notin Sessions /\ NoItem \notin Items /\ NoProc \notin Procs
  /\ Totals # {}
  /\ MaxFailures \in Nat

VARIABLES
  order,       \* the row of orders: status, ref (payment_reference), total
  session,     \* session[s]: status of the PayPal order s (external)
  price,       \* price[s]: the amount s was opened with
  payments,    \* payments[s]: status of the payments row of s
  allocated,   \* sessions whose payment has its payment_items
  subs,        \* items with a subscription
  entitled,    \* items with an order_entitlements row
  redemption,  \* the order's coupon redemption
  events,      \* payment_events
  lock,        \* who holds the advisory lock on the order id
  pc,          \* pc[p]: the await request p is at
  job,         \* job[p]: its parameters and what it has read
  todo,        \* todo[p]: items createSubscriptionsForOrder has left
  broken,      \* a failure hit a fulfilment (history)
  failures     \* failures so far, for the bound MaxFailures

rowVars  == <<order, payments, allocated, subs, entitled, redemption, events>>
extVars  == <<session, price>>
procVars == <<pc, job, todo>>
histVars == <<broken, failures>>
vars == <<order, session, price, payments, allocated, subs, entitled, redemption,
          events, lock, pc, job, todo, broken, failures>>

-----------------------------------------------------------------------------
Payable       == {"cart", "pending_payment"}
Statuses      == Payable \cup {"in_process", "cancelled"}
SessionStates == {"absent", "CREATED", "APPROVED", "COMPLETED", "VOIDED"}
PaymentStates == {"absent", "pending", "succeeded", "closed"}  \* closed: canceled, expired
Orders        == [status : Statuses, ref : Sessions \cup {NoSession}, total : Totals]

\* Awaits between pg_advisory_lock and pg_advisory_unlock.
Fulfilling == {"allocating", "creating", "entitling"}
Locked     == {"locked", "marking"} \cup Fulfilling
States     == {"idle", "reusing", "ordering", "inserting", "attaching",
               "recorded", "capturing", "paid", "locking", "answering",
               "checking", "closing", "cancelling", "voiding"} \cup Locked

Jobs == [kind : {"none", "open", "confirm", "cancel"},
         sess : Sessions \cup {NoSession}, ref : Sessions \cup {NoSession},
         total : Totals, item : Items \cup {NoItem}]

AnyTotal == CHOOSE t \in Totals : TRUE

NoJob == [kind |-> "none", sess |-> NoSession, ref |-> NoSession,
          total |-> AnyTotal, item |-> NoItem]

Init ==
  /\ order \in [status : {"cart"}, ref : {NoSession}, total : Totals]
  /\ session = [s \in Sessions |-> "absent"]
  /\ price = [s \in Sessions |-> AnyTotal]
  /\ payments = [s \in Sessions |-> "absent"]
  /\ allocated = {} /\ subs = {} /\ entitled = {} /\ events = {}
  /\ redemption = "reserved"
  /\ lock = NoProc
  /\ pc = [p \in Procs |-> "idle"]
  /\ job = [p \in Procs |-> NoJob]
  /\ todo = [p \in Procs |-> {}]
  /\ broken = FALSE
  /\ failures = 0

Goto(p, l) == pc' = [pc EXCEPT ![p] = l] /\ UNCHANGED <<job, todo>>

\* The handler returns.
Finish(p) ==
  /\ pc' = [pc EXCEPT ![p] = "idle"]
  /\ job' = [job EXCEPT ![p] = NoJob]
  /\ todo' = [todo EXCEPT ![p] = {}]

\* A handler of the given kind goes to l with session s; what it goes on to use
\* of the row it read is its reference (to open) and its total.
Begin(p, kind, s, l) ==
  /\ pc' = [pc EXCEPT ![p] = l]
  /\ job' = [job EXCEPT ![p] = [NoJob EXCEPT !.kind = kind, !.sess = s,
                !.ref = IF kind = "open" THEN order.ref ELSE NoSession,
                !.total = IF kind = "cancel" THEN AnyTotal ELSE order.total]]
  /\ UNCHANGED todo

-----------------------------------------------------------------------------
\* upsertDraftOrder: the cart is priced anew, under a row lock.
Redraft ==
  /\ order.status = "cart"
  /\ \E t \in Totals \ {order.total} : order' = [order EXCEPT !.total = t]
  /\ UNCHANGED <<extVars, payments, allocated, subs, entitled, redemption, events,
                 lock, procVars, histVars>>

\* createPayPalCheckoutSession reads the order.
OpenCheckout(p) ==
  /\ pc[p] = "idle"
  /\ order.status \in Payable
  /\ Begin(p, "open", NoSession, IF order.ref = NoSession THEN "ordering" ELSE "reusing")
  /\ UNCHANGED <<rowVars, extVars, lock, histVars>>

\* The session the order already has can still be paid.
Reusable(s) == payments[s] \in {"pending", "succeeded"} /\ session[s] \in {"CREATED", "APPROVED"}

ReuseSession(p) ==
  /\ pc[p] = "reusing"
  /\ IF Reusable(job[p].ref) THEN Finish(p) ELSE Goto(p, "ordering")
  /\ UNCHANGED <<rowVars, extVars, lock, histVars>>

Unused == {s \in Sessions : session[s] = "absent"}

\* paypalProvider.createOrder, under a fresh request id.
CreateSession(p) ==
  /\ pc[p] = "ordering"
  /\ \E s \in Unused :
       /\ session' = [session EXCEPT ![s] = "CREATED"]
       /\ price' = [price EXCEPT ![s] = job[p].total]
       /\ job' = [job EXCEPT ![p].sess = s]
  /\ pc' = [pc EXCEPT ![p] = "inserting"]
  /\ UNCHANGED <<rowVars, lock, todo, histVars>>

\* createOrder is refused: in the model, when the bound Sessions is reached.
CreateRefused(p) ==
  /\ pc[p] = "ordering" /\ Unused = {}
  /\ Finish(p)
  /\ UNCHANGED <<rowVars, extVars, lock, histVars>>

InsertPayment(p) ==
  /\ pc[p] = "inserting"
  /\ payments' = [payments EXCEPT ![job[p].sess] = "pending"]
  /\ Goto(p, "attaching")
  /\ UNCHANGED <<order, allocated, subs, entitled, redemption, events, extVars, lock, histVars>>

\* updateOrderPayment writes back the status and the total read at the start.
AttachSession(p) ==
  /\ pc[p] = "attaching"
  /\ order' = [status |-> "pending_payment", ref |-> job[p].sess, total |-> job[p].total]
  /\ Finish(p)
  /\ UNCHANGED <<payments, allocated, subs, entitled, redemption, events, extVars, lock, histVars>>

-----------------------------------------------------------------------------
\* External: the buyer approves; PayPal voids what is not captured.
Approve(s) ==
  /\ session[s] = "CREATED"
  /\ session' = [session EXCEPT ![s] = "APPROVED"]
  /\ UNCHANGED <<rowVars, price, lock, procVars, histVars>>

Void(s) ==
  /\ session[s] \in {"CREATED", "APPROVED"}
  /\ session' = [session EXCEPT ![s] = "VOIDED"]
  /\ UNCHANGED <<rowVars, price, lock, procVars, histVars>>

\* handlePayPalWebhook records the event before anything else; a second
\* delivery finds it and is acknowledged with no effect.
Receive(p, s, kind) ==
  /\ pc[p] = "idle"
  /\ <<kind, s>> \notin events
  /\ events' = events \cup {<<kind, s>>}
  /\ pc' = [pc EXCEPT ![p] = "recorded"]
  /\ job' = [job EXCEPT ![p] = [@ EXCEPT !.kind = kind, !.sess = s]]
  /\ UNCHANGED <<order, payments, allocated, subs, entitled, redemption, extVars, lock, todo, histVars>>

WebhookCompleted(p) == \E s \in Sessions : session[s] = "COMPLETED" /\ Receive(p, s, "confirm")
WebhookVoided(p)    == \E s \in Sessions : session[s] = "VOIDED" /\ Receive(p, s, "cancel")

-----------------------------------------------------------------------------
\* An order that waits for another session is not confirmed through this one.
Mismatch(s) == order.status \in Payable /\ order.ref \notin {NoSession, s}

\* confirmPayPalCheckoutSession: the buyer returns with session s.
Confirm(p) ==
  /\ pc[p] = "idle"
  /\ \E s \in Sessions : session[s] # "absent" /\ ~Mismatch(s) /\ Begin(p, "confirm", s, "capturing")
  /\ UNCHANGED <<rowVars, extVars, lock, histVars>>

\* The same, called by the webhook.
ConfirmRecorded(p) ==
  /\ pc[p] = "recorded" /\ job[p].kind = "confirm"
  /\ IF Mismatch(job[p].sess) THEN Finish(p) ELSE Begin(p, "confirm", job[p].sess, "capturing")
  /\ UNCHANGED <<rowVars, extVars, lock, histVars>>

\* captureOrder takes the money of an approved session; of a captured one it
\* fails, and recoverPayPalOrderAfterCaptureFailure reads the session instead.
AfterCapture(s) == IF session[s] = "APPROVED" THEN "COMPLETED" ELSE session[s]

\* Mutant of CaptureCompleted: an approved or merely opened session will do.
CaptureCompleted_Unchecked(s) == TRUE

CaptureCompleted(s) == AfterCapture(s) = "COMPLETED"

\* The amount is compared first: a difference cancels the order, captured or not.
Capture(p) ==
  /\ pc[p] = "capturing"
  /\ LET s == job[p].sess IN
       /\ session' = [session EXCEPT ![s] = AfterCapture(s)]
       /\ \/ price[s] # job[p].total /\ Goto(p, "cancelling")
          \/ price[s] = job[p].total /\ CaptureCompleted(s) /\ Goto(p, "paid")
          \/ price[s] = job[p].total /\ ~CaptureCompleted(s) /\ Finish(p)
  /\ UNCHANGED <<rowVars, price, lock, histVars>>

\* The payments row of a captured session.
SavePayment(p) ==
  /\ pc[p] = "paid"
  /\ payments' = [payments EXCEPT ![job[p].sess] = "succeeded"]
  /\ Goto(p, "locking")
  /\ UNCHANGED <<order, allocated, subs, entitled, redemption, events, extVars, lock, histVars>>

-----------------------------------------------------------------------------
\* Mutant of LockOrder: fulfilment without the advisory lock.
LockOrder_Unlocked(p) ==
  /\ pc[p] = "locking"
  /\ lock' = p
  /\ Goto(p, "locked")
  /\ UNCHANGED <<rowVars, extVars, histVars>>

\* processPayPalOrderPayment: pg_advisory_lock(hashtext(order)).
LockOrder(p) ==
  /\ pc[p] = "locking"
  /\ lock = NoProc
  /\ lock' = p
  /\ Goto(p, "locked")
  /\ UNCHANGED <<rowVars, extVars, histVars>>

\* The finally block, or the end of the connection that held the lock.
Unlock(p) == lock' = IF lock = p THEN NoProc ELSE lock

\* The order is read again: it is fulfilled, or cannot be paid, or goes on.
ReadLocked(p) ==
  /\ pc[p] = "locked"
  /\ \/ order.status = "in_process" /\ Unlock(p) /\ Goto(p, "answering")
     \/ order.status = "cancelled" /\ Unlock(p) /\ Finish(p)
     \/ order.status \in Payable /\ Goto(p, "marking") /\ UNCHANGED lock
  /\ UNCHANGED <<rowVars, extVars, histVars>>

\* UPDATE orders ... WHERE status IN ('pending_payment', 'cart').
MarkInProcess(p) ==
  /\ pc[p] = "marking"
  /\ IF order.status \in Payable
       THEN /\ order' = [order EXCEPT !.status = "in_process", !.ref = job[p].sess]
            /\ Goto(p, "allocating") /\ UNCHANGED lock
       ELSE Unlock(p) /\ Goto(p, "answering") /\ UNCHANGED order
  /\ UNCHANGED <<payments, allocated, subs, entitled, redemption, events, extVars, histVars>>

\* createPaymentItemAllocations, once per payment; then the items that have no
\* subscription yet.
Allocate(p) ==
  /\ pc[p] = "allocating"
  /\ allocated' = allocated \cup {job[p].sess}
  /\ pc' = [pc EXCEPT ![p] = "creating"]
  /\ todo' = [todo EXCEPT ![p] = Items \ subs]
  /\ UNCHANGED <<order, payments, subs, entitled, redemption, events, extVars, lock, job, histVars>>

CreateSubscription(p) ==
  /\ pc[p] = "creating"
  /\ \E i \in todo[p] :
       /\ subs' = subs \cup {i}
       /\ todo' = [todo EXCEPT ![p] = @ \ {i}]
       /\ job' = [job EXCEPT ![p].item = i]
  /\ pc' = [pc EXCEPT ![p] = "entitling"]
  /\ UNCHANGED <<order, payments, allocated, entitled, redemption, events, extVars, lock, histVars>>

\* createSubscription answers an error: the item is logged and passed over.
SkipItem(p) ==
  /\ pc[p] = "creating" /\ failures < MaxFailures
  /\ \E i \in todo[p] : todo' = [todo EXCEPT ![p] = @ \ {i}]
  /\ broken' = TRUE
  /\ failures' = failures + 1
  /\ UNCHANGED <<rowVars, extVars, lock, pc, job>>

\* upsertEntitlement and the buyer's upgrade selection.
Entitle(p) ==
  /\ pc[p] = "entitling"
  /\ entitled' = entitled \cup {job[p].item}
  /\ pc' = [pc EXCEPT ![p] = "creating"]
  /\ job' = [job EXCEPT ![p].item = NoItem]
  /\ UNCHANGED <<order, payments, allocated, subs, redemption, events, extVars, lock, todo, histVars>>

\* upsertEntitlement swallows its error: the item stays without its entitlement.
EntitleFails(p) ==
  /\ pc[p] = "entitling" /\ failures < MaxFailures
  /\ failures' = failures + 1
  /\ pc' = [pc EXCEPT ![p] = "creating"]
  /\ job' = [job EXCEPT ![p].item = NoItem]
  /\ UNCHANGED <<rowVars, extVars, lock, todo, broken>>

\* finalizeRedemptionForOrder, the confirmation mail, pg_advisory_unlock.
Finalize(p) ==
  /\ pc[p] = "creating" /\ todo[p] = {}
  /\ redemption' = IF redemption = "reserved" THEN "redeemed" ELSE redemption
  /\ Unlock(p)
  /\ Goto(p, "answering")
  /\ UNCHANGED <<order, payments, allocated, subs, entitled, events, extVars, histVars>>

\* finalizeRedemptionForOrder swallows its error: the coupon stays reserved.
FinalizeFails(p) ==
  /\ pc[p] = "creating" /\ todo[p] = {} /\ failures < MaxFailures
  /\ failures' = failures + 1
  /\ Unlock(p)
  /\ Goto(p, "answering")
  /\ UNCHANGED <<rowVars, extVars, broken>>

\* The caller answers from the order's status, read once more.
Answer(p) ==
  /\ pc[p] = "answering"
  /\ Finish(p)
  /\ UNCHANGED <<rowVars, extVars, lock, histVars>>

-----------------------------------------------------------------------------
\* cancelPayPalCheckout reads the order: called by the buyer, and by the sweep of
\* checkouts older than CHECKOUT_ABANDON_TTL_MINUTES.
Cancel(p) ==
  /\ pc[p] = "idle"
  /\ order.status = "pending_payment" /\ order.ref # NoSession
  /\ Begin(p, "cancel", order.ref, "checking")
  /\ UNCHANGED <<rowVars, extVars, lock, histVars>>

\* The same, called by the webhook for its session.
CancelRecorded(p) ==
  /\ pc[p] = "recorded" /\ job[p].kind = "cancel"
  /\ IF order.status = "pending_payment" /\ order.ref = job[p].sess
       THEN Begin(p, "cancel", order.ref, "checking") ELSE Finish(p)
  /\ UNCHANGED <<rowVars, extVars, lock, histVars>>

\* Mutant of CheckProvider: the sweep trusts its own payments row.
CheckProvider_OwnRow(p) ==
  /\ pc[p] = "checking"
  /\ IF payments[job[p].sess] = "succeeded" THEN Goto(p, "locking") ELSE Finish(p)
  /\ UNCHANGED <<rowVars, extVars, lock, histVars>>

\* getOrder: a captured session is reconciled, any other is given up.
CheckProvider(p) ==
  /\ pc[p] = "checking"
  /\ Goto(p, IF session[job[p].sess] = "COMPLETED" THEN "paid" ELSE "closing")
  /\ UNCHANGED <<rowVars, extVars, lock, histVars>>

ClosePayment(p) ==
  /\ pc[p] = "closing"
  /\ payments' = [payments EXCEPT ![job[p].sess] = "closed"]
  /\ Goto(p, "cancelling")
  /\ UNCHANGED <<order, allocated, subs, entitled, redemption, events, extVars, lock, histVars>>

\* updateOrderStatus(cancelled), whatever the status has become.
CancelOrder(p) ==
  /\ pc[p] = "cancelling"
  /\ order' = [order EXCEPT !.status = "cancelled"]
  /\ Goto(p, "voiding")
  /\ UNCHANGED <<payments, allocated, subs, entitled, redemption, events, extVars, lock, histVars>>

\* updateOrderStatus swallows its error and the handler goes on.
CancelOrderFails(p) ==
  /\ pc[p] = "cancelling" /\ failures < MaxFailures
  /\ failures' = failures + 1
  /\ Goto(p, "voiding")
  /\ UNCHANGED <<rowVars, extVars, lock, broken>>

\* voidRedemptionForOrder.
VoidCoupon(p) ==
  /\ pc[p] = "voiding"
  /\ redemption' = IF redemption = "reserved" THEN "voided" ELSE redemption
  /\ Finish(p)
  /\ UNCHANGED <<order, payments, allocated, subs, entitled, events, extVars, lock, histVars>>

-----------------------------------------------------------------------------
\* A query or a call of the provider throws, or the process dies: the finally
\* block or the server ends the lock.  A capture may have happened all the same.
Fail(p) ==
  /\ pc[p] # "idle" /\ failures < MaxFailures
  /\ failures' = failures + 1
  /\ session' \in {session} \cup
       IF pc[p] = "capturing"
         THEN {[session EXCEPT ![job[p].sess] = AfterCapture(job[p].sess)]} ELSE {}
  /\ broken' = (broken \/ pc[p] \in Fulfilling)
  /\ Unlock(p)
  /\ Finish(p)
  /\ UNCHANGED <<rowVars, price>>

Advance(p) ==
  \/ ReuseSession(p) \/ CreateSession(p) \/ CreateRefused(p)
  \/ InsertPayment(p) \/ AttachSession(p)
  \/ ConfirmRecorded(p) \/ Capture(p) \/ SavePayment(p)
  \/ ReadLocked(p) \/ MarkInProcess(p) \/ Allocate(p) \/ CreateSubscription(p)
  \/ Entitle(p) \/ Finalize(p) \/ Answer(p)
  \/ CancelRecorded(p) \/ CheckProvider(p) \/ ClosePayment(p) \/ CancelOrder(p)
  \/ VoidCoupon(p)

Next ==
  \/ \E p \in Procs :
       \/ OpenCheckout(p) \/ Confirm(p) \/ WebhookCompleted(p) \/ WebhookVoided(p) \/ Cancel(p)
       \/ Advance(p) \/ LockOrder(p)
       \/ SkipItem(p) \/ EntitleFails(p) \/ FinalizeFails(p) \/ CancelOrderFails(p) \/ Fail(p)
  \/ \E s \in Sessions : Approve(s) \/ Void(s)
  \/ Redraft

Spec == Init /\ [][Next]_vars

\* Handlers run on, the server hands the lock to its waiters in turn, and the
\* sweep's job comes round again and again.
Fairness ==
  /\ \A p \in Procs : WF_vars(Advance(p)) /\ SF_vars(LockOrder(p))
  /\ SF_vars(\E p \in Procs : Cancel(p))

FairSpec == Spec /\ Fairness

-----------------------------------------------------------------------------
TypeOK ==
  /\ order \in Orders
  /\ session \in [Sessions -> SessionStates]
  /\ price \in [Sessions -> Totals]
  /\ payments \in [Sessions -> PaymentStates]
  /\ allocated \subseteq Sessions
  /\ subs \subseteq Items /\ entitled \subseteq Items
  /\ redemption \in {"reserved", "redeemed", "voided"}
  /\ events \subseteq {"confirm", "cancel"} \X Sessions
  /\ lock \in Procs \cup {NoProc}
  /\ pc \in [Procs -> States]
  /\ job \in [Procs -> Jobs]
  /\ todo \in [Procs -> SUBSET Items]
  /\ broken \in BOOLEAN
  /\ failures \in 0..MaxFailures

Captured == {s \in Sessions : session[s] = "COMPLETED"}

\* Nothing is given for money that was not taken: a payments row that says
\* succeeded, a subscription, an entitlement and a redeemed coupon all follow a
\* capture at PayPal, whatever the webhooks, retries and cancellations did.
NothingWithoutCapture ==
  /\ \A s \in Sessions : payments[s] = "succeeded" => s \in Captured
  /\ subs # {} \/ entitled # {} \/ redemption = "redeemed" => Captured # {}

\* What the lock on the order is for: a handler that gets it and reads in_process
\* answers that the order is fulfilled, so it must be, with every subscription
\* there, unless a failure hit the fulfilment of it.
WaiterFindsItDone ==
  \A p \in Procs :
    pc[p] = "locked" /\ order.status = "in_process" => subs = Items \/ broken

\* The money of an order that was captured does not lie idle: when the handler
\* that captured it dies, and its event, recorded before it was processed, is
\* lost with it, the sweep finds the capture and the order leaves pending_payment.
CapturedLeavesPending ==
  \A s \in Sessions :
    LET stuck == session[s] = "COMPLETED" /\ order.ref = s /\ order.status = "pending_payment"
    IN stuck ~> ~stuck

=============================================================================
