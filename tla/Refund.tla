------------------------------- MODULE Refund -------------------------------
(***************************************************************************)
(* The refund workflow: refundService.ts over the credit ledger.           *)
(*                                                                         *)
(* A refund is a row of payment_refunds with a copy in Redis, which the    *)
(* admin's approval and rejection read first.  An approval walks through   *)
(* statuses, a debit of the user's credits, the provider, and, when the    *)
(* provider refuses, a compensating credit.  No step of it is a            *)
(* transaction with any other.  Several requests of users and admins run   *)
(* at once.  The ledger is taken at its promise: AtomicLedger.             *)
(***************************************************************************)
EXTENDS Integers, FiniteSets

CONSTANTS
  Payments,    \* top-ups that may be refunded, all of one user
  Refunds,     \* refund ids
  Manual,      \* stands for the ids manualRefund makes up
  Slots,       \* requests that may run at the same time
  Budget,      \* bounds: requests of each kind, and faults
  Users, Amounts, MinBalance, MaxBalance, MaxTransactionAmount,
  User,        \* the user
  Price,       \* the amount of each refund
  Start        \* her balance

Kinds == {"initiate", "approve", "reject", "manual"}

ASSUME RefundAssumption ==
  /\ Payments # {} /\ Manual \notin Refunds
  /\ Budget \in [Kinds \cup {"fault"} -> Nat]
  /\ User \in Users /\ Price \in Nat \ {0} /\ Start \in Nat
  /\ MinBalance \in Int /\ MaxBalance \in Int

VARIABLES
  refund,      \* refund[r]: its row
  copy,        \* copy[r]: the status in its Redis copy
  balance,     \* the ledger, see AtomicLedger
  lastKind,
  reversals,   \* reversals[i]: refund_reversal rows of refund i
  rollbacks,   \* rollbacks[i]: compensating credits of refund i
  paidOut,     \* paidOut[i]: the provider paid, or an admin task asks for it
  overlapped,  \* overlapped[r]: two approvals looked for a reversal side by side (history)
  rejected,    \* rejected[r]: a rejection was written (history)
  crossed,     \* crossed[r]: an approval and a rejection were let in side by side, or one of
               \* them by a copy that the row had left behind (history)
  h,           \* h[s]: the request in slot s
  used         \* how much of Budget is spent

ledgerVars == <<balance, lastKind>>
moneyVars  == <<reversals, rollbacks, paidOut>>
pastVars   == <<overlapped, rejected, crossed>>
refundVars == <<refund, copy, ledgerVars, moneyVars, pastVars, h, used>>

\* No top-up is credited twice here.
Ledger == INSTANCE AtomicLedger WITH TopUps <- {}, credited <- [u \in Users |-> <<>>]

-----------------------------------------------------------------------------
Ids       == Refunds \cup {Manual}
Decided   == {"approved", "processing", "completed", "failed", "rejected"}
Statuses  == {"pending"} \cup Decided
Final     == {"completed", "failed", "rejected"}
NoStatus  == "none"
Gone      == "deleted"
RefundSteps == {"exists", "insert", "get", "approve", "reject", "find", "replay", "process",
                "reverse", "provider", "rollback", "complete", "fail", "cache"}
Request   == [kind : Kinds, pay : Payments, id : Ids, pc : RefundSteps,
              st : Statuses \cup {NoStatus, Gone}, next : RefundSteps \cup {"end"}]
Vacant    == [pc |-> "idle"]

Spend(k) == used[k] < Budget[k] /\ used' = [used EXCEPT ![k] = @ + 1]

Begin(s, kind, p, i, pc) ==
  /\ h[s] = Vacant
  /\ Spend(kind)
  /\ h' = [h EXCEPT ![s] = [kind |-> kind, pay |-> p, id |-> i, pc |-> pc,
                            st |-> NoStatus, next |-> "end"]]

Go(s, pc) == h' = [h EXCEPT ![s] = IF pc = "end" THEN Vacant ELSE [@ EXCEPT !.pc = pc]]

\* The row as it was written or read is put into Redis next.
GoCache(s, st, next) == h' = [h EXCEPT ![s].pc = "cache", ![s].st = st, ![s].next = next]

\* updateRefundStatus: an unconditional UPDATE of the status, whatever it was;
\* an error makes it answer null.
UpdateStatus(s, status, next, onNull) ==
  /\ \/ /\ refund' = [refund EXCEPT ![h[s].id].status = status]
        /\ rejected' = [rejected EXCEPT ![h[s].id] = @ \/ status = "rejected"]
        /\ GoCache(s, status, next)
        /\ UNCHANGED used
     \/ /\ Spend("fault")
        /\ Go(s, onNull)
        /\ UNCHANGED <<refund, rejected>>
  /\ UNCHANGED <<copy, ledgerVars, moneyVars, overlapped, crossed>>

-----------------------------------------------------------------------------
RefundInit ==
  /\ refund = [r \in Refunds |-> [status |-> NoStatus, pay |-> CHOOSE p \in Payments : TRUE]]
  /\ copy = [r \in Refunds |-> NoStatus]
  /\ balance = [u \in Users |-> IF u = User THEN Start ELSE 0]
  /\ lastKind = [u \in Users |-> "none"]
  /\ reversals = [i \in Ids |-> 0]
  /\ rollbacks = [i \in Ids |-> 0]
  /\ paidOut = [i \in Ids |-> FALSE]
  /\ overlapped = [r \in Refunds |-> FALSE]
  /\ rejected = [r \in Refunds |-> FALSE] /\ crossed = [r \in Refunds |-> FALSE]
  /\ h = [s \in Slots |-> Vacant]
  /\ used = [k \in DOMAIN Budget |-> 0]

\* initiateRefund has validated the request against the payment row and the
\* cached balance, which may be stale.
Initiate(s, p, r) ==
  /\ refund[r].status = NoStatus
  /\ \A t \in Slots : h[t] # Vacant => h[t].id # r
  /\ Begin(s, "initiate", p, r, "exists")
  /\ UNCHANGED <<refund, copy, ledgerVars, moneyVars, pastVars>>

\* getRefundByPaymentId: any earlier refund of the payment turns the request
\* down; an error counts as none.
CheckExisting(s) ==
  /\ h[s].pc = "exists"
  /\ \/ /\ Go(s, IF \E r \in Refunds : refund[r].status \in Statuses /\ refund[r].pay = h[s].pay
                   THEN "end" ELSE "insert")
        /\ UNCHANGED used
     \/ Spend("fault") /\ Go(s, "insert")
  /\ UNCHANGED <<refund, copy, ledgerVars, moneyVars, pastVars>>

\* createRefundRequest.
Insert(s) ==
  /\ h[s].pc = "insert"
  /\ refund' = [refund EXCEPT ![h[s].id] = [status |-> "pending", pay |-> h[s].pay]]
  /\ GoCache(s, "pending", "end")
  /\ UNCHANGED <<copy, ledgerVars, moneyVars, pastVars, used>>

\* approveRefund and rejectRefund.
Decide(s, r, kind) ==
  /\ kind \in {"approve", "reject"}
  /\ refund[r].status \in Statuses
  /\ Begin(s, kind, refund[r].pay, r, "get")
  /\ UNCHANGED <<refund, copy, ledgerVars, moneyVars, pastVars>>

\* Mutant of AfterGet: the status is not looked at.
AfterGet_Any(kind, status) == kind

\* Both go on with a pending refund only.
AfterGet(kind, status) == IF status = "pending" THEN kind ELSE "end"

\* A request of this kind is about to write its decision on r.
LetIn(t, kind, r) ==
  /\ h[t] # Vacant /\ h[t].id = r
  /\ h[t].pc = kind \/ (h[t].pc = "cache" /\ h[t].next = kind)

\* A decision that is let in now is not the only one.
Crosses(s, read) ==
  LET r == h[s].id IN
    \/ read # refund[r].status
    \/ \E t \in Slots, kind \in {"approve", "reject"} \ {h[s].kind} : LetIn(t, kind, r)

\* getRefundById: the Redis copy, or the row, which is then copied; an error
\* reads as "not found".
GetRefund(s) ==
  /\ h[s].pc = "get"
  /\ LET r    == h[s].id
         read == IF copy[r] # NoStatus THEN copy[r] ELSE refund[r].status
         next == AfterGet(h[s].kind, read) IN
       \/ /\ IF copy[r] # NoStatus THEN Go(s, next) ELSE GoCache(s, read, next)
          /\ crossed' = [crossed EXCEPT ![r] = @ \/ (next # "end" /\ Crosses(s, read))]
          /\ UNCHANGED used
       \/ Spend("fault") /\ Go(s, "end") /\ UNCHANGED crossed
  /\ UNCHANGED <<refund, copy, ledgerVars, moneyVars, overlapped, rejected>>

Approve(s) == h[s].pc = "approve" /\ UpdateStatus(s, "approved", "find", "end")
Reject(s)  == h[s].pc = "reject" /\ UpdateStatus(s, "rejected", "end", "end")

\* Mutant of FindReversal: no look at what an earlier approval did.
FindReversal_Blind(s) ==
  /\ h[s].pc = "find"
  /\ Go(s, "process")
  /\ UNCHANGED <<refund, copy, ledgerVars, moneyVars, pastVars, used>>

\* processApprovedRefund looks for a reversal row of this refund and replays the
\* completion when there is one, rolled back or not.
FindReversal(s) ==
  /\ h[s].pc = "find"
  /\ \/ /\ IF reversals[h[s].id] > 0
             THEN Go(s, "replay") /\ UNCHANGED overlapped
             ELSE /\ Go(s, "process")
                  /\ overlapped' = [overlapped EXCEPT ![h[s].id] = @ \/
                       \E t \in Slots \ {s} :
                         /\ h[t] # Vacant /\ h[t].id = h[s].id
                         /\ \/ h[t].pc \in {"process", "reverse"}
                            \/ h[t].pc = "cache" /\ h[t].next = "reverse"]
        /\ UNCHANGED used
     \/ Spend("fault") /\ Go(s, "fail") /\ UNCHANGED overlapped
  /\ UNCHANGED <<refund, copy, ledgerVars, moneyVars, rejected, crossed>>

Replay(s) == h[s].pc = "replay" /\ UpdateStatus(s, "completed", "end", "end")

\* The answer of this update is not looked at.
Process(s) == h[s].pc = "process" /\ UpdateStatus(s, "processing", "reverse", "reverse")

\* manualRefund starts with the debit.
ManualRefund(s, p) ==
  /\ Begin(s, "manual", p, Manual, "reverse")
  /\ UNCHANGED <<refund, copy, ledgerVars, moneyVars, pastVars>>

\* A manual refund has no row to mark.
Failed(s) == IF h[s].kind = "manual" THEN "end" ELSE "fail"

\* creditService.reverseCredits: debited; refused; or an error, the debit
\* committed or not.
Reverse(s) ==
  /\ h[s].pc = "reverse"
  /\ \/ /\ Ledger!Debit(User, Price)
        /\ reversals' = [reversals EXCEPT ![h[s].id] = @ + 1]
        /\ \/ Go(s, "provider") /\ UNCHANGED used
           \/ Spend("fault") /\ Go(s, Failed(s))
     \/ /\ \/ balance[User] - Price < MinBalance /\ UNCHANGED used
           \/ Spend("fault")
        /\ Go(s, Failed(s))
        /\ UNCHANGED <<ledgerVars, reversals>>
  /\ UNCHANGED <<refund, copy, rollbacks, paidOut, pastVars>>

\* triggerProviderRefund pays or files an admin task, refuses, or throws; a
\* fault may also lose the answer of a provider that did pay.
TriggerProvider(s) ==
  /\ h[s].pc = "provider"
  /\ \/ /\ paidOut' = [paidOut EXCEPT ![h[s].id] = TRUE]
        /\ Go(s, IF h[s].kind = "manual" THEN "end" ELSE "complete")
        /\ UNCHANGED used
     \/ Go(s, "rollback") /\ UNCHANGED <<paidOut, used>>
     \/ /\ Spend("fault")
        /\ \/ paidOut' = [paidOut EXCEPT ![h[s].id] = TRUE]
           \/ UNCHANGED paidOut
        /\ Go(s, "rollback") \/ Go(s, Failed(s))
  /\ UNCHANGED <<refund, copy, ledgerVars, reversals, rollbacks, pastVars>>

\* creditService.refundCredits; its answer is not looked at.
Rollback(s) ==
  /\ h[s].pc = "rollback"
  /\ \/ /\ Ledger!Deposit(User, "refund", Price)
        /\ rollbacks' = [rollbacks EXCEPT ![h[s].id] = @ + 1]
        /\ UNCHANGED used
     \/ /\ \/ balance[User] + Price > MaxBalance /\ UNCHANGED used
           \/ Spend("fault")
        /\ UNCHANGED <<ledgerVars, rollbacks>>
  /\ Go(s, Failed(s))
  /\ UNCHANGED <<refund, copy, reversals, paidOut, pastVars>>

MarkFailed(s) == h[s].pc = "fail" /\ UpdateStatus(s, "failed", "end", "end")

\* When the last update answers null the notification of the user throws, and
\* the catch block marks the refund failed.
Complete(s) == h[s].pc = "complete" /\ UpdateStatus(s, "completed", "end", "fail")

\* cacheRefund; its errors are swallowed.
CacheRefund(s) ==
  /\ h[s].pc = "cache"
  /\ \/ copy' = [copy EXCEPT ![h[s].id] = h[s].st] /\ UNCHANGED used
     \/ Spend("fault") /\ UNCHANGED copy
  /\ LET g == h[s] IN
       h' = [h EXCEPT ![s] = IF g.next = "end" THEN Vacant
                             ELSE [g EXCEPT !.pc = g.next, !.st = NoStatus, !.next = "end"]]
  /\ UNCHANGED <<refund, ledgerVars, moneyVars, pastVars>>

CopyExpires(r) ==
  /\ copy[r] # NoStatus
  /\ copy' = [copy EXCEPT ![r] = NoStatus]
  /\ UNCHANGED <<refund, ledgerVars, moneyVars, pastVars, h, used>>

\* The backend dies in the middle of a request.
Crash(s) ==
  /\ h[s] # Vacant
  /\ Spend("fault")
  /\ h' = [h EXCEPT ![s] = Vacant]
  /\ UNCHANGED <<refund, copy, ledgerVars, moneyVars, pastVars>>

\* cleanupOldRefunds, long after the copy has expired.
Cleanup(r) ==
  /\ refund[r].status \in Final
  /\ copy[r] = NoStatus
  /\ \A s \in Slots : h[s] # Vacant => h[s].id # r
  /\ refund' = [refund EXCEPT ![r].status = Gone]
  /\ UNCHANGED <<copy, ledgerVars, moneyVars, pastVars, h, used>>

-----------------------------------------------------------------------------
Step(s) ==
  \/ CheckExisting(s) \/ Insert(s) \/ GetRefund(s) \/ Approve(s) \/ Reject(s)
  \/ FindReversal(s) \/ Replay(s) \/ Process(s) \/ Reverse(s) \/ TriggerProvider(s)
  \/ Rollback(s) \/ MarkFailed(s) \/ Complete(s) \/ CacheRefund(s)

RefundNext ==
  \/ \E s \in Slots, p \in Payments : ManualRefund(s, p) \/ \E r \in Refunds : Initiate(s, p, r)
  \/ \E s \in Slots, r \in Refunds, kind \in Kinds : Decide(s, r, kind)
  \/ \E s \in Slots : Step(s) \/ Crash(s)
  \/ \E r \in Refunds : CopyExpires(r) \/ Cleanup(r)

RefundSpec == RefundInit /\ [][RefundNext]_refundVars

-----------------------------------------------------------------------------
RefundTypeOK ==
  /\ refund \in [Refunds -> [status : Statuses \cup {NoStatus, Gone}, pay : Payments]]
  /\ copy \in [Refunds -> Statuses \cup {NoStatus}]
  /\ balance \in [Users -> Int]
  /\ reversals \in [Ids -> Nat] /\ rollbacks \in [Ids -> Nat]
  /\ paidOut \in [Ids -> BOOLEAN] /\ overlapped \in [Refunds -> BOOLEAN]
  /\ rejected \in [Refunds -> BOOLEAN] /\ crossed \in [Refunds -> BOOLEAN]
  /\ h \in [Slots -> Request \cup {Vacant}]
  /\ used \in [DOMAIN Budget -> Nat]

\* A refund takes credits before it gives anything: the provider pays, and a
\* compensating credit is booked, only for a debit that is there, whichever of
\* the ledger, the provider and Redis fails in between.
NothingGivenBeforeTaken ==
  \A i \in Ids :
    /\ rollbacks[i] <= reversals[i]
    /\ paidOut[i] => reversals[i] > 0

\* Approvals of one refund that follow one another debit it once, however stale
\* the copy is that let them in: a second debit takes two of them that looked for
\* the reversal side by side.
SecondDebitTakesOverlap ==
  \A r \in Refunds : reversals[r] > 1 => overlapped[r]

\* A refund never gives what it has not taken, and takes it once, unless two approvals ran
\* side by side: whatever fails between the debit, the provider and the compensation.
RefundIsTakenOnce == NothingGivenBeforeTaken /\ SecondDebitTakesOverlap

\* The updates of an approval and of a rejection have no condition, so either overwrites
\* the other.  Still a rejected refund stays rejected, takes no credits and pays nothing,
\* unless the two were let in side by side or by a stale copy: whichever comes first, the
\* other, coming after it, is turned down.
RejectionStands ==
  \A r \in Refunds : rejected[r] /\ ~crossed[r] =>
    refund[r].status \in {"rejected", Gone} /\ reversals[r] = 0 /\ ~paidOut[r]

\* "Cannot approve refund with status" (refundService.ts): refuted, a refund that
\* is no longer pending is approved and its credits are debited again.
DebitedOnce == \A r \in Refunds : reversals[r] <= 1
=============================================================================
