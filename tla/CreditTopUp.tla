----------------------------- MODULE CreditTopUp -----------------------------
(***************************************************************************)
(* A crypto top-up from the provider's first status to the user's credit:  *)
(* the NOWPayments part of paymentService.ts, paymentMonitoringService.ts  *)
(* and creditAllocationService.ts.                                         *)
(*                                                                         *)
(* One row of credit_transactions stands for the top-up.  Five handlers    *)
(* write it: the webhook, the monitor that polls a list kept in Redis, the *)
(* user's refresh, the sync of an unknown payment, and the admin's manual  *)
(* allocation.  Each reads the row, awaits, and writes payment_status and  *)
(* the WHOLE metadata column back; only the allocation takes the user's    *)
(* advisory lock.  Of the metadata the model keeps paymentCompleted.       *)
(***************************************************************************)
EXTENDS Naturals

CONSTANTS
  Payments,   \* NOWPayments payment ids
  Payers,     \* user ids
  Owner,      \* Owner[p]: the user who pays p
  Slots,      \* handlers that may run at the same time
  Budgets     \* bounds: refreshes, manual allocations, syncs and faults of one behaviour

Extras == {"refresh", "manual", "sync", "fault"}

ASSUME TopUpAssumption ==
  /\ Owner \in [Payments -> Payers]
  /\ Budgets \subseteq [Extras -> Nat]

VARIABLES
  row,      \* row[p]: payment_status and metadata.paymentCompleted
  credit,   \* credit[p]: what the amount column holds: nothing, price, manual
  guard,    \* guard[p]: Redis credit_allocation:completed:p
  queue,    \* Redis pending payments list
  prov,     \* prov[p]: the status of p at the provider
  child,    \* child[p]: the status of a redeposit under p's order id
  mail,     \* notifications the provider has not been answered 200 for
  events,   \* payment_events rows
  h,        \* h[s]: the handler running in slot s
  used,     \* the refreshes, manual allocations, syncs and faults so far
  erased,   \* erased[p]: a stale write removed paymentCompleted (history)
  twice     \* twice[p]: an allocation ran on a credited row (history)

topUpVars == <<row, credit, guard, queue, prov, child, mail, events, h, used, erased, twice>>

-----------------------------------------------------------------------------
NonTerminal == {"waiting", "confirming"}
Terminal    == {"finished", "failed", "expired", "refunded"}
Statuses    == NonTerminal \cup Terminal
HandlerKinds == {"create", "webhook", "monitor", "refresh", "sync", "manual"}
Steps       == {"read", "poll", "write", "check", "lock", "credit", "mark", "list", "save"}
Note        == [pay : Payments, status : Statuses, redeposit : BOOLEAN]
Row         == [status : Statuses \cup {"none"}, done : BOOLEAN]
NoRow       == [status |-> "none", done |-> FALSE]

Handler == [kind : HandlerKinds, pay : Payments, said : Statuses, redeposit : BOOLEAN,
            seen : Row, list : SUBSET Payments, pc : Steps]
Idle    == [pc |-> "idle"]

\* shouldIgnoreNowPaymentsStatusRegression.
Regresses(old, new) == old \in Terminal /\ new \in NonTerminal

\* The money is there: the payment, or a redeposit of it, was finished once.
Paid(p) == prov[p] \in {"finished", "refunded"} \/ child[p] = "finished"

\* initializePendingPayments: what a missing list is rebuilt from.
Unfinished == {p \in Payments : row[p].status \in NonTerminal}
NoList     == [there |-> FALSE, list |-> {}]
List(l)    == [there |-> TRUE, list |-> l]
Pending    == IF queue = NoList THEN Unfinished ELSE queue.list
Rebuilt    == IF queue = NoList /\ Unfinished # {} THEN List(Unfinished) ELSE queue

\* No other allocation holds the advisory lock of p's owner.
LockFree(p) ==
  \A s \in Slots : h[s].pc = "credit" => Owner[h[s].pay] # Owner[p]

Begin(s, kind, p, said, redeposit, at) ==
  /\ h[s] = Idle
  /\ h' = [h EXCEPT ![s] = [kind |-> kind, pay |-> p, said |-> said, redeposit |-> redeposit,
                            seen |-> NoRow, list |-> {}, pc |-> at]]

Spend(k) ==
  /\ used' = [used EXCEPT ![k] = @ + 1]
  /\ \E b \in Budgets : \A x \in Extras : used'[x] <= b[x]

\* The handler goes on at `to'; at "end" it returns, and a webhook is answered
\* 200, so that the provider stops sending the notification.  The row it read is
\* needed up to its write.
Proceed(s, g, to) ==
  /\ h' = [h EXCEPT ![s] =
             IF to = "end" THEN Idle
             ELSE [g EXCEPT !.pc = to, !.seen = IF to \in {"poll", "write"} THEN @ ELSE NoRow]]
  /\ mail' = IF to = "end" /\ g.kind = "webhook"
               THEN mail \ {[pay |-> g.pay, status |-> g.said, redeposit |-> g.redeposit]}
               ELSE mail

-----------------------------------------------------------------------------
TopUpInit ==
  /\ row = [p \in Payments |-> NoRow]
  /\ credit = [p \in Payments |-> "none"]
  /\ guard = [p \in Payments |-> FALSE]
  /\ queue = NoList
  /\ prov = [p \in Payments |-> "none"]
  /\ child = [p \in Payments |-> "none"]
  /\ mail = {} /\ events = {}
  /\ h = [s \in Slots |-> Idle]
  /\ used = [x \in Extras |-> 0]
  /\ erased = [p \in Payments |-> FALSE]
  /\ twice = [p \in Payments |-> FALSE]

\* The provider: a status changes and a notification is sent.
Moves == {<<"waiting", "confirming">>, <<"waiting", "expired">>, <<"confirming", "finished">>,
          <<"confirming", "failed">>, <<"finished", "refunded">>}

ProviderMoves(p) ==
  /\ \E st \in Statuses :
       /\ <<prov[p], st>> \in Moves
       /\ prov' = [prov EXCEPT ![p] = st]
       /\ mail' = mail \cup {[pay |-> p, status |-> st, redeposit |-> FALSE]}
  /\ UNCHANGED <<row, credit, guard, queue, child, events, h, used, erased, twice>>

\* The user pays an expired invoice after all; the new payment id is known to
\* the code by its order id only.
Redeposit(p) ==
  /\ prov[p] = "expired" /\ child[p] = "none"
  /\ child' = [child EXCEPT ![p] = "finished"]
  /\ mail' = mail \cup {[pay |-> p, status |-> "finished", redeposit |-> TRUE]}
  /\ UNCHANGED <<row, credit, guard, queue, prov, events, h, used, erased, twice>>

-----------------------------------------------------------------------------
\* createPayment: the provider payment and its row exist before the pending
\* list is told, in the background.
Create(s, p) ==
  /\ prov[p] = "none"
  /\ prov' = [prov EXCEPT ![p] = "waiting"]
  /\ row' = [row EXCEPT ![p] = [status |-> "waiting", done |-> FALSE]]
  /\ Begin(s, "create", p, "waiting", FALSE, "list")
  /\ UNCHANGED <<credit, guard, queue, child, mail, events, used, erased, twice>>

\* processWebhook: the event is recorded in a statement of its own, before
\* anything is done about it.  A notification recorded before is answered at once.
Deliver(s, n) ==
  /\ n \in mail
  /\ IF n \in events
       THEN h[s] = Idle /\ mail' = mail \ {n} /\ UNCHANGED <<events, h>>
       ELSE /\ events' = events \cup {n}
            /\ Begin(s, "webhook", n.pay, n.status, n.redeposit, "read")
            /\ UNCHANGED mail
  /\ UNCHANGED <<row, credit, guard, queue, prov, child, used, erased, twice>>

\* recordEvent answers false on a database error, which processWebhook takes
\* for a duplicate.
RecordFails(n) ==
  /\ n \in mail
  /\ Spend("fault")
  /\ mail' = mail \ {n}
  /\ UNCHANGED <<row, credit, guard, queue, prov, child, events, h, erased, twice>>

\* The monitoring loop asks the provider about a payment of its list.
Monitor(s, p) ==
  /\ p \in Pending
  /\ prov[p] # "none"
  /\ queue' = Rebuilt
  /\ Begin(s, "monitor", p, prov[p], FALSE, "read")
  /\ UNCHANGED <<row, credit, guard, prov, child, mail, events, used, erased, twice>>

\* POST /refresh/:paymentId; what the provider says is learnt later, in Poll.
Refresh(s, p) ==
  /\ row[p] # NoRow
  /\ Spend("refresh")
  /\ Begin(s, "refresh", p, "waiting", FALSE, "read")
  /\ UNCHANGED <<row, credit, guard, queue, prov, child, mail, events, erased, twice>>

\* getPaymentStatus of an id without a row that the provider calls finished.
Sync(s, p) ==
  /\ child[p] = "finished"
  /\ Spend("sync")
  /\ Begin(s, "sync", p, "finished", TRUE, "read")
  /\ UNCHANGED <<row, credit, guard, queue, prov, child, mail, events, erased, twice>>

\* manualCreditAllocation by an admin.
Manual(s, p) ==
  /\ row[p] # NoRow
  /\ Spend("manual")
  /\ Begin(s, "manual", p, "finished", FALSE, "check")
  /\ UNCHANGED <<row, credit, guard, queue, prov, child, mail, events, erased, twice>>

-----------------------------------------------------------------------------
\* SELECT of the row, without FOR UPDATE, and the early returns behind it.
AfterRead(g, status) ==
  CASE g.kind = "refresh"                         -> "poll"
    [] Regresses(status, g.said)                  -> IF g.kind = "monitor" THEN "list" ELSE "end"
    [] g.kind = "monitor" /\ status = g.said      -> "end"
    [] OTHER                                      -> "write"

ReadRow(s) ==
  /\ h[s].pc = "read"
  /\ LET g == h[s] IN
       Proceed(s, [g EXCEPT !.seen = row[g.pay]], AfterRead(g, row[g.pay].status))
  /\ UNCHANGED <<row, credit, guard, queue, prov, child, events, used, erased, twice>>

\* refreshPaymentStatus asks the provider between its SELECT and its UPDATE.
Poll(s) ==
  /\ h[s].pc = "poll"
  /\ LET g == h[s] IN
       Proceed(s, [g EXCEPT !.said = prov[g.pay]],
               IF Regresses(g.seen.status, prov[g.pay]) THEN "end" ELSE "write")
  /\ UNCHANGED <<row, credit, guard, queue, prov, child, events, used, erased, twice>>

\* Where the allocation returns to, whether it succeeded or not.
AfterAllocation(g) == IF g.kind = "monitor" THEN "list" ELSE "end"

\* Mutant of AfterWrite: the previous status is compared after the update.
AfterWrite_Reread(g) == IF g.kind = "monitor" /\ g.said \in Terminal THEN "list" ELSE "end"

\* A first finished leads to the allocation, except in a refresh.
AfterWrite(g) ==
  IF g.kind # "refresh" /\ g.said = "finished" /\ g.seen.status # "finished" THEN "check"
  ELSE IF g.kind = "monitor" /\ g.said \in Terminal THEN "list"
  ELSE "end"

\* UPDATE payment_status, metadata and COMMIT: the metadata column becomes what
\* was read, whatever was written since.
WriteStatus(s) ==
  /\ h[s].pc = "write"
  /\ LET g == h[s] IN
       /\ row' = [row EXCEPT ![g.pay] = [status |-> g.said, done |-> g.seen.done]]
       /\ erased' = [erased EXCEPT ![g.pay] = @ \/ (row[g.pay].done /\ ~g.seen.done)]
       /\ Proceed(s, g, AfterWrite(g))
  /\ UNCHANGED <<credit, guard, queue, prov, child, events, used, twice>>

-----------------------------------------------------------------------------
\* checkForDuplicate: the Redis key, then the completed row, which it caches.
CheckDuplicate(s) ==
  /\ h[s].pc = "check"
  /\ LET g == h[s]
         p == g.pay
         inRow == row[p].done /\ credit[p] # "none"
     IN  /\ Proceed(s, g, IF guard[p] \/ inRow THEN AfterAllocation(g) ELSE "lock")
         /\ guard' = [guard EXCEPT ![p] = @ \/ inRow]
  /\ UNCHANGED <<row, credit, queue, prov, child, events, used, erased, twice>>

\* Mutant of TakeLock: no advisory lock around the allocation.
TakeLock_Unlocked(s) ==
  /\ h[s].pc = "lock" /\ h[s].kind # "manual"
  /\ LET g == h[s] IN
       Proceed(s, g, IF row[g.pay].done THEN AfterAllocation(g) ELSE "credit")
  /\ UNCHANGED <<row, credit, guard, queue, prov, child, events, used, erased, twice>>

\* performAtomicAllocation: the advisory lock, the sum, the row.
TakeLock(s) ==
  /\ h[s].pc = "lock" /\ h[s].kind # "manual"
  /\ LockFree(h[s].pay)
  /\ LET g == h[s] IN
       Proceed(s, g, IF row[g.pay].done THEN AfterAllocation(g) ELSE "credit")
  /\ UNCHANGED <<row, credit, guard, queue, prov, child, events, used, erased, twice>>

Allocated(p, what) ==
  /\ credit' = [credit EXCEPT ![p] = what]
  /\ twice' = [twice EXCEPT ![p] = @ \/ credit[p] # "none"]

\* UPDATE amount, balances and metadata, and COMMIT; the status is left alone.
Credit(s) ==
  /\ h[s].pc = "credit"
  /\ LET g == h[s] IN
       /\ Allocated(g.pay, "price")
       /\ row' = [row EXCEPT ![g.pay].done = TRUE]
       /\ Proceed(s, g, "mark")
  /\ UNCHANGED <<guard, queue, prov, child, events, used, erased>>

\* The manual allocation locks the row as well (FOR UPDATE), so that reading
\* and writing it is one step; it sets the status too.
CreditByHand(s) ==
  /\ h[s].pc = "lock" /\ h[s].kind = "manual"
  /\ LockFree(h[s].pay)
  /\ LET g == h[s]
         p == g.pay
     IN  IF row[p].done
           THEN Proceed(s, g, "end") /\ UNCHANGED <<row, credit, twice>>
           ELSE /\ Allocated(p, "manual")
                /\ row' = [row EXCEPT ![p] = [status |-> "finished", done |-> TRUE]]
                /\ Proceed(s, g, "mark")
  /\ UNCHANGED <<guard, queue, prov, child, events, used, erased>>

\* markAllocationCompleted; its errors are swallowed.
MarkCompleted(s) ==
  /\ h[s].pc = "mark"
  /\ Proceed(s, h[s], AfterAllocation(h[s]))
  /\ \/ guard' = [guard EXCEPT ![h[s].pay] = TRUE] /\ UNCHANGED used
     \/ Spend("fault") /\ UNCHANGED guard
  /\ UNCHANGED <<row, credit, queue, prov, child, events, erased, twice>>

-----------------------------------------------------------------------------
\* addPendingPayment and removePendingPayment: GET the list (rebuilt when it is
\* missing, taken for empty when Redis fails), change it, SETEX it.
ReadList(s) ==
  /\ h[s].pc = "list"
  /\ \/ /\ Proceed(s, [h[s] EXCEPT !.list = Pending], "save")
        /\ queue' = Rebuilt
        /\ UNCHANGED used
     \/ /\ Spend("fault")
        /\ Proceed(s, [h[s] EXCEPT !.list = {}], "save")
        /\ UNCHANGED queue
  /\ UNCHANGED <<row, credit, guard, prov, child, events, erased, twice>>

SaveList(s) ==
  /\ h[s].pc = "save"
  /\ LET g == h[s] IN
       /\ queue' = CASE g.kind = "monitor"                       -> List(g.list \ {g.pay})
                     [] g.kind = "create" /\ g.pay \notin g.list -> List(g.list \cup {g.pay})
                     [] OTHER                                    -> queue
       /\ Proceed(s, g, "end")
  /\ UNCHANGED <<row, credit, guard, prov, child, events, used, erased, twice>>

\* The process dies, or a query outside the allocation fails: the transaction
\* is rolled back and a webhook is not answered 200.
Dies(s) ==
  /\ h[s] # Idle
  /\ Spend("fault")
  /\ h' = [h EXCEPT ![s] = Idle]
  /\ UNCHANGED <<row, credit, guard, queue, prov, child, mail, events, erased, twice>>

\* The allocation answers an error (Redis or the database out of reach, an
\* amount below the invoice): the handler notes the failure and goes on.
AllocationFails(s) ==
  /\ h[s].pc \in {"check", "lock", "credit"}
  /\ Spend("fault")
  /\ Proceed(s, h[s], AfterAllocation(h[s]))
  /\ UNCHANGED <<row, credit, guard, queue, prov, child, events, erased, twice>>

\* DUPLICATE_CHECK_TTL and the TTL of the pending list.
GuardExpires(p) ==
  /\ guard[p]
  /\ guard' = [guard EXCEPT ![p] = FALSE]
  /\ UNCHANGED <<row, credit, queue, prov, child, mail, events, h, used, erased, twice>>

ListExpires ==
  /\ queue # NoList
  /\ queue' = NoList
  /\ UNCHANGED <<row, credit, guard, prov, child, mail, events, h, used, erased, twice>>

-----------------------------------------------------------------------------
Step(s) ==
  \/ ReadRow(s) \/ Poll(s) \/ WriteStatus(s)
  \/ CheckDuplicate(s) \/ TakeLock(s) \/ Credit(s) \/ CreditByHand(s) \/ MarkCompleted(s)
  \/ ReadList(s) \/ SaveList(s)

TopUpNext ==
  \/ \E p \in Payments : ProviderMoves(p) \/ Redeposit(p) \/ GuardExpires(p)
  \/ \E s \in Slots, p \in Payments :
       Create(s, p) \/ Monitor(s, p) \/ Refresh(s, p) \/ Sync(s, p) \/ Manual(s, p)
  \/ \E s \in Slots, n \in Note : Deliver(s, n)
  \/ \E n \in Note : RecordFails(n)
  \/ \E s \in Slots : Step(s) \/ Dies(s) \/ AllocationFails(s)
  \/ ListExpires

TopUpSpec == TopUpInit /\ [][TopUpNext]_topUpVars

\* Handlers run on; the provider repeats its notifications until they are
\* answered.  Slots are no resource of the code, so deliveries that find them all
\* taken now and then are not kept out for ever.
FairTopUpSpec ==
  /\ TopUpSpec
  /\ \A s \in Slots : WF_topUpVars(Step(s))
  /\ SF_topUpVars(\E s \in Slots, n \in Note : Deliver(s, n))

-----------------------------------------------------------------------------
TopUpTypeOK ==
  /\ row \in [Payments -> Row]
  /\ credit \in [Payments -> {"none", "price", "manual"}]
  /\ guard \in [Payments -> BOOLEAN]
  /\ queue \in [there : BOOLEAN, list : SUBSET Payments]
  /\ prov \in [Payments -> Statuses \cup {"none"}]
  /\ child \in [Payments -> {"none", "finished"}]
  /\ mail \subseteq Note /\ events \subseteq Note
  /\ h \in [Slots -> Handler \cup {Idle}]
  /\ used \in [Extras -> Nat]
  /\ erased \in [Payments -> BOOLEAN] /\ twice \in [Payments -> BOOLEAN]

\* No order of notifications, polls and stale answers credits the price of a
\* payment the provider has never called finished (allocateCreditsForPayment is
\* reached from a finished status only).
CreditedMeansPaid == \A p \in Payments : credit[p] = "price" => Paid(p)

\* Handlers that race for one payment credit it once: a second allocation takes
\* a status writer that erased paymentCompleted with metadata it had read before.
SecondCreditTakesErasure == \A p \in Payments : twice[p] => erased[p]

\* Whichever of webhook, monitor, refresh, sync and administrator handle a top-up, in
\* whatever order: it is credited only for money that came, and only once, unless a
\* status writer erased what says so.
CreditIsOwed == CreditedMeansPaid /\ SecondCreditTakesErasure

\* But for refreshes and faults every finished payment is credited, whichever of
\* webhook, monitor, sync and administrator comes first and whatever the others write
\* meanwhile.
PaidIsCredited ==
  \A p \in Payments : Paid(p) ~> credit[p] # "none" \/ used["refresh"] + used["fault"] > 0

\* "Credits are allocated when a payment is marked finished"
\* (PHASE_5_JOBS_MONITORS.md): refuted.
FinishedIsCredited ==
  \A p \in Payments : row[p].status = "finished" ~> credit[p] # "none"
=============================================================================
