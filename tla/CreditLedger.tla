---------------------------- MODULE CreditLedger ----------------------------
(***************************************************************************)
(* The credit ledger: creditService.ts, the balance mutation of            *)
(* creditAllocationService.ts, the Redis balance cache in front of both,   *)
(* and the PostgreSQL connection pool all of them share.                   *)
(*                                                                         *)
(* A user's balance is SUM(amount) over her committed credit_transactions  *)
(* rows; `total' is that sum and `tail' the balance_after column of the    *)
(* row whose writing moved the balance last.  Every writer is a request of *)
(* a process p.  One that moves a balance takes a pool connection, opens a *)
(* transaction, takes the user's advisory lock, reads the sum, checks a    *)
(* limit, writes its row, commits, and only then touches the cache.        *)
(* createPayment takes no lock: it inserts the pending row of a top-up,    *)
(* whose amount, balance_before and balance_after are all 0, which moves   *)
(* no balance and is no part of the trail; the top-up's allocation later   *)
(* sets the amount of that same row.  Each await of the code is a step     *)
(* boundary.                                                               *)
(*                                                                         *)
(* Not in this module: the UPDATE of user_id by which a guest checkout's   *)
(* claim moves a guest's rows to an account without a lock                 *)
(* (guestCheckoutService.ts:496).  A guest has neither a balance nor       *)
(* top-ups to move unless an administrator credited her.                   *)
(***************************************************************************)
EXTENDS Integers, FiniteSets

CONSTANTS
  Users,                 \* user ids
  Procs,                 \* concurrent requests of the backend
  Amounts,               \* amounts callers pass
  MinBalance,            \* defaultSettings.minBalance
  MaxBalance,            \* defaultSettings.maxBalance
  MaxTransactionAmount,  \* defaultSettings.maxTransactionAmount
  PoolSize,              \* poolConfig.max
  TopUps,                \* top-up payments (payment_id)
  NoTopUp,               \* a request that is about no top-up
  NoUser,                \* a top-up without a row
  NoProc,                \* the advisory lock is free
  NoEntry                \* no balance key in Redis

ASSUME ConstantsAssumption ==
  /\ Amounts \subseteq Nat
  /\ MinBalance \in Int /\ MinBalance <= 0
  /\ MaxBalance \in Nat /\ MaxTransactionAmount \in Nat
  /\ PoolSize \in Nat \ {0}
  /\ NoProc \notin Procs /\ NoTopUp \notin TopUps /\ NoUser \notin Users
  /\ NoEntry \notin Int

VARIABLES
  total,     \* total[u]: SUM(amount) of u's committed rows
  tail,      \* tail[u]: balance_after of the row that moved u's balance last
  tailKind,  \* tailKind[u]: what kind of operation wrote that row
  deposit,   \* deposit[t]: the credit_transactions row of top-up t
  lock,      \* lock[u]: the transaction holding u's advisory lock
  cache,     \* cache[u]: the Redis key credit:balance:u
  pc,        \* pc[p]: the await request p is at
  op,        \* op[p]: what request p was called with
  before,    \* before[p]: p's balanceBefore
  fill,      \* fill[p]: the balance p read to refill the cache
  applied,   \* applied[p]: p's row is committed (history)
  outcome    \* outcome[p]: what p's last request answered

tableVars == <<total, tail, tailKind, deposit>>
dbVars    == <<total, tail, tailKind, deposit, lock>>
procVars  == <<pc, op, before, fill, applied, outcome>>
vars      == <<total, tail, tailKind, deposit, lock, cache, pc, op, before,
               fill, applied, outcome>>

-----------------------------------------------------------------------------
\* addCredits, refundCredits, applyDebitTransaction, performAtomicAllocation or
\* manualCreditAllocation, createPayment and getUserBalance.
MoverKinds  == {"add", "refund", "debit", "topup"}
WriterKinds == MoverKinds \cup {"create"}
Kinds       == WriterKinds \cup {"query"}

\* What moved a balance: "recredit" is a top-up whose row was credited before.
MoveKinds == MoverKinds \cup {"recredit"}

\* known: the original transaction a refund names exists (a caller that names
\* none passes that check as well).
Ops == [kind : Kinds, user : Users, amount : Amounts, known : BOOLEAN,
        pay : TopUps \cup {NoTopUp}]

\* The row of a top-up: whose it is, its amount and metadata.paymentCompleted.
Deposits  == [user : Users \cup {NoUser}, amount : Int, done : BOOLEAN]
NoDeposit == [user |-> NoUser, amount |-> 0, done |-> FALSE]

TxStates       == {"begun", "locked", "read"}
HoldingLock    == {"locked", "read"}
RefreshStates  == {"lookup", "querying", "filling"}
States         == {"idle", "connecting", "clearing"} \cup TxStates \cup RefreshStates
\* ackLost is a failure to the caller; the model remembers what caused it.
Outcomes       == {"none", "success", "failed", "ackLost"}

\* Requests holding a pool client: writers keep theirs from pool.connect() to
\* the finally block, the refresh of the balance after COMMIT included.
HoldsClient(p) == op[p].kind # "query" /\ pc[p] \notin {"idle", "connecting"}
InUse          == Cardinality({p \in Procs : HoldsClient(p)})

\* The signed amount of the row request p inserts.
Delta(p) == IF op[p].kind = "debit" THEN 0 - op[p].amount ELSE op[p].amount

ValidAmount(p) == 0 < op[p].amount /\ op[p].amount <= MaxTransactionAmount

\* What a request looks up besides the balance: the original transaction of a
\* refund, and the row of a top-up, its user's and not completed.
Found(p) ==
  /\ op[p].kind = "refund" => op[p].known
  /\ op[p].kind = "topup" => deposit[op[p].pay].user = op[p].user /\ ~deposit[op[p].pay].done

\* The limit each writer tests against the balance it read under the lock.
\* performAtomicAllocation tests none.
WithinLimit(p) ==
  CASE op[p].kind = "debit"             -> before[p] + Delta(p) >= MinBalance
    [] op[p].kind \in {"add", "refund"} -> before[p] + Delta(p) <= MaxBalance
    [] OTHER                            -> TRUE

-----------------------------------------------------------------------------
Init ==
  /\ total = [u \in Users |-> 0]
  /\ tail = [u \in Users |-> 0]
  /\ tailKind = [u \in Users |-> "none"]
  /\ deposit = [t \in TopUps |-> NoDeposit]
  /\ lock = [u \in Users |-> NoProc]
  /\ cache = [u \in Users |-> NoEntry]
  /\ pc = [p \in Procs |-> "idle"]
  /\ op \in [Procs -> {[kind |-> "query", user |-> u, amount |-> a, known |-> FALSE,
                         pay |-> NoTopUp] : u \in Users, a \in Amounts}]
  /\ before = [p \in Procs |-> 0]
  /\ fill = [p \in Procs |-> 0]
  /\ applied = [p \in Procs |-> FALSE]
  /\ outcome = [p \in Procs |-> "none"]

Goto(p, s) == pc' = [pc EXCEPT ![p] = s]

\* A request's local variables live as long as it does.
ForgetLocals(p) ==
  /\ before' = [before EXCEPT ![p] = 0]
  /\ fill' = [fill EXCEPT ![p] = 0]

\* The request returns (or throws) r to its caller.
Reply(p, r) ==
  /\ Goto(p, "idle")
  /\ outcome' = [outcome EXCEPT ![p] = r]
  /\ ForgetLocals(p)

\* Mutant of ReleaseLock: pg_advisory_lock, which outlives the transaction.
ReleaseLock_SessionLevel(p) == UNCHANGED lock

\* COMMIT, ROLLBACK or a dropped connection ends p's transaction.
ReleaseLock(p) == lock' = [u \in Users |-> IF lock[u] = p THEN NoProc ELSE lock[u]]

\* A caller starts a request; a writer goes for a pool client first, a balance
\* query goes straight to the cache.  The provider gives every createPayment a
\* payment id of its own, and a top-up's amount was validated by its handler.
Start(p) ==
  /\ pc[p] = "idle"
  /\ \E o \in Ops :
       /\ o.kind # "refund" => ~o.known
       /\ o.kind = "query" => \A a \in Amounts : o.amount <= a
       /\ o.pay # NoTopUp <=> o.kind \in {"topup", "create"}
       /\ o.kind \in {"topup", "create"} => 0 < o.amount /\ o.amount <= MaxTransactionAmount
       /\ o.kind = "create" =>
            /\ deposit[o.pay] = NoDeposit
            /\ \A q \in Procs : pc[q] # "idle" /\ op[q].kind = "create" => op[q].pay # o.pay
       /\ op' = [op EXCEPT ![p] = o]
       /\ Goto(p, IF o.kind = "query" THEN "lookup" ELSE "connecting")
  /\ applied' = [applied EXCEPT ![p] = FALSE]
  /\ outcome' = [outcome EXCEPT ![p] = "none"]
  /\ UNCHANGED <<dbVars, cache, before, fill>>

\* pool.connect() and BEGIN.
Connect(p) ==
  /\ pc[p] = "connecting"
  /\ InUse < PoolSize
  /\ Goto(p, "begun")
  /\ UNCHANGED <<dbVars, cache, op, before, fill, applied, outcome>>

\* pool.connect() rejects after connectionTimeoutMillis without a free client: the rest
\* of the backend draws on the same pool and may hold those the ledger does not.
ConnectTimeout(p) ==
  /\ pc[p] = "connecting"
  /\ Reply(p, "failed")
  /\ UNCHANGED <<dbVars, cache, op, applied>>

\* Mutant of AcquireLock: no advisory lock, transactions overlap.
AcquireLock_Unlocked(p) ==
  /\ pc[p] = "begun"
  /\ op[p].kind # "create"
  /\ lock' = [lock EXCEPT ![op[p].user] = p]
  /\ Goto(p, "locked")
  /\ UNCHANGED <<tableVars, cache, op, before, fill, applied, outcome>>

\* SELECT pg_advisory_xact_lock(hashtext(user)).
AcquireLock(p) ==
  /\ pc[p] = "begun"
  /\ op[p].kind # "create"
  /\ lock[op[p].user] = NoProc
  /\ lock' = [lock EXCEPT ![op[p].user] = p]
  /\ Goto(p, "locked")
  /\ UNCHANGED <<tableVars, cache, op, before, fill, applied, outcome>>

\* SELECT SUM(amount) under the lock, for a valid amount and what the request
\* looks up with it.
ReadBalance(p) ==
  /\ pc[p] = "locked"
  /\ ValidAmount(p)
  /\ Found(p)
  /\ before' = [before EXCEPT ![p] = total[op[p].user]]
  /\ Goto(p, "read")
  /\ UNCHANGED <<dbVars, cache, op, fill, applied, outcome>>

\* The early returns: invalid amount, unknown original transaction, top-up
\* without a row or completed already, limit hit.
Reject(p) ==
  /\ \/ pc[p] = "locked" /\ ~(ValidAmount(p) /\ Found(p))
     \/ pc[p] = "read" /\ ~WithinLimit(p)
  /\ ReleaseLock(p)
  /\ Reply(p, "failed")
  /\ UNCHANGED <<tableVars, cache, op, applied>>

\* What the request has done to its rows becomes visible at COMMIT.  INSERT of a
\* row that moves the balance; a top-up's UPDATE sets the amount of its row, and
\* so takes back what an earlier allocation had set there.
MoveBalance(p) ==
  LET u   == op[p].user
      t   == op[p].pay
      old == IF op[p].kind = "topup" THEN deposit[t].amount ELSE 0
  IN  /\ pc[p] = "read"
      /\ WithinLimit(p)
      /\ total' = [total EXCEPT ![u] = @ + Delta(p) - old]
      /\ tail' = [tail EXCEPT ![u] = before[p] + Delta(p)]
      /\ tailKind' = [tailKind EXCEPT ![u] = IF old = 0 THEN op[p].kind ELSE "recredit"]
      /\ deposit' = IF op[p].kind = "topup"
                      THEN [deposit EXCEPT ![t] = [user |-> u, amount |-> op[p].amount, done |-> TRUE]]
                      ELSE deposit

\* createPayment inserts the pending row, with zeroes for its amount and for the
\* balances before and after it.
CreateRow(p) ==
  /\ pc[p] = "begun" /\ op[p].kind = "create"
  /\ deposit' = [deposit EXCEPT ![op[p].pay] = [user |-> op[p].user, amount |-> 0, done |-> FALSE]]
  /\ UNCHANGED <<total, tail, tailKind>>

WriteRow(p) ==
  /\ MoveBalance(p) \/ CreateRow(p)
  /\ applied' = [applied EXCEPT ![p] = TRUE]
  /\ ReleaseLock(p)

Commit(p) ==
  /\ WriteRow(p)
  /\ Goto(p, "clearing")
  /\ ForgetLocals(p)
  /\ UNCHANGED <<cache, op, outcome>>

\* COMMIT takes effect but its acknowledgement is lost: the catch block rolls
\* back nothing and answers failure, with the cache left as it was.
CommitAckLost(p) ==
  /\ WriteRow(p)
  /\ Reply(p, "ackLost")
  /\ UNCHANGED <<cache, op>>

\* A query of the transaction throws: ROLLBACK in the catch block.
DatabaseError(p) ==
  /\ pc[p] \in TxStates
  /\ ReleaseLock(p)
  /\ Reply(p, "failed")
  /\ UNCHANGED <<tableVars, cache, op, applied>>

\* clearBalanceCache: DEL, unless Redis cannot be reached, errors swallowed.  A
\* top-up returns here, and so does createPayment, which caches its payment and
\* leaves the balance's key alone; the other writers go on to getUserBalance with
\* their client still checked out.
ClearCache(p) ==
  /\ pc[p] = "clearing"
  /\ \/ op[p].kind # "create" /\ cache' = [cache EXCEPT ![op[p].user] = NoEntry]
     \/ UNCHANGED cache
  /\ IF op[p].kind \in {"topup", "create"}
       THEN Reply(p, "success")
       ELSE Goto(p, "lookup") /\ UNCHANGED <<outcome, before, fill>>
  /\ UNCHANGED <<dbVars, op, applied>>

\* getUserBalance: a cached entry is the answer.
CacheHit(p) ==
  /\ pc[p] = "lookup"
  /\ cache[op[p].user] # NoEntry
  /\ Reply(p, "success")
  /\ UNCHANGED <<dbVars, cache, op, applied>>

\* No entry, or Redis cannot be reached.
CacheMiss(p) ==
  /\ pc[p] = "lookup"
  /\ Goto(p, "querying")
  /\ UNCHANGED <<dbVars, cache, op, before, fill, applied, outcome>>

\* pool.query(SUM) runs on a client of its own.
QueryTotal(p) ==
  /\ pc[p] = "querying"
  /\ InUse < PoolSize
  /\ fill' = [fill EXCEPT ![p] = total[op[p].user]]
  /\ Goto(p, "filling")
  /\ UNCHANGED <<dbVars, cache, op, before, applied, outcome>>

\* Mutant of RefreshFails: every writer lets the error of the refresh escape.
RefreshFails_NotSwallowed(p) ==
  /\ pc[p] = "querying"
  /\ Reply(p, "failed")
  /\ UNCHANGED <<dbVars, cache, op, applied>>

\* The query throws.  A debit swallows the error and answers with the balance it
\* computed itself; the other writers answer failure although their row is
\* committed.
RefreshFails(p) ==
  /\ pc[p] = "querying"
  /\ Reply(p, IF op[p].kind = "debit" THEN "success" ELSE "failed")
  /\ UNCHANGED <<dbVars, cache, op, applied>>

\* No client becomes free within connectionTimeoutMillis.
QueryTimeout(p) == InUse >= PoolSize /\ RefreshFails(p)

\* SETEX, errors swallowed, and the answer.
FillCache(p) ==
  /\ pc[p] = "filling"
  /\ cache' \in {cache, [cache EXCEPT ![op[p].user] = fill[p]]}
  /\ Reply(p, "success")
  /\ UNCHANGED <<dbVars, op, applied>>

\* The backend process serving p dies: the server drops its transaction.
Crash(p) ==
  /\ pc[p] # "idle"
  /\ ReleaseLock(p)
  /\ Goto(p, "idle")
  /\ ForgetLocals(p)
  /\ UNCHANGED <<tableVars, cache, op, applied, outcome>>

\* refreshPaymentStatus writes the metadata it read before the allocation back over
\* the row's, and paymentCompleted is gone (module CreditTopUp has the handler).
CompletionErased(t) ==
  /\ deposit[t].done
  /\ deposit' = [deposit EXCEPT ![t].done = FALSE]
  /\ UNCHANGED <<total, tail, tailKind, lock, cache, procVars>>

\* BALANCE_CACHE_TTL elapses, whether or not the backend can reach Redis.
CacheExpires(u) ==
  /\ cache[u] # NoEntry
  /\ cache' = [cache EXCEPT ![u] = NoEntry]
  /\ UNCHANGED <<dbVars, procVars>>

-----------------------------------------------------------------------------
\* The steps of a request that need nobody's luck.
Advance(p) ==
  \/ Connect(p) \/ ConnectTimeout(p)
  \/ ReadBalance(p) \/ Reject(p) \/ Commit(p)
  \/ ClearCache(p) \/ CacheHit(p) \/ CacheMiss(p)
  \/ QueryTotal(p) \/ QueryTimeout(p) \/ FillCache(p)

Next ==
  \/ \E p \in Procs :
       \/ Start(p) \/ AcquireLock(p) \/ Advance(p)
       \/ CommitAckLost(p) \/ DatabaseError(p) \/ RefreshFails(p) \/ Crash(p)
  \/ \E t \in TopUps : CompletionErased(t)
  \/ \E u \in Users : CacheExpires(u)

Spec == Init /\ [][Next]_vars

\* Requests that can move do move, and the server hands a free advisory lock to
\* its waiters in turn.  Redis expires its keys.
Fairness == \A p \in Procs : WF_vars(Advance(p)) /\ SF_vars(AcquireLock(p))

FairSpec == Spec /\ Fairness

-----------------------------------------------------------------------------
TypeOK ==
  /\ total \in [Users -> Int]
  /\ tail \in [Users -> Int]
  /\ tailKind \in [Users -> MoveKinds \cup {"none"}]
  /\ deposit \in [TopUps -> Deposits]
  /\ lock \in [Users -> Procs \cup {NoProc}]
  /\ cache \in [Users -> Int \cup {NoEntry}]
  /\ pc \in [Procs -> States]
  /\ op \in [Procs -> Ops]
  /\ before \in [Procs -> Int]
  /\ fill \in [Procs -> Int]
  /\ applied \in [Procs -> BOOLEAN]
  /\ outcome \in [Procs -> Outcomes]

\* No interleaving of debits, reversals, refunds, top-ups, cache traffic and
\* failures takes a balance below minBalance (applyDebitTransaction checks the
\* sum it read under the advisory lock, never the cached balance), but for an
\* allocation that sets a smaller amount on a top-up's row credited before.
DebitsStayAboveMinimum ==
  [][\A u \in Users :
       total'[u] < total[u] /\ total'[u] < MinBalance => tailKind'[u] = "recredit"]_<<total, tailKind>>

\* The audit trail is gapless: balance_after of the row that moved a user's balance
\* last is her balance, so no writer ever worked from a sum another one had moved.
\* The pending rows of createPayment, with zeroes in all three columns, are no part
\* of the trail.  The exception is a second allocation of one top-up, which
\* overwrites the amount its own balance_before counts: the trail is off by that
\* amount until the next row.
TrailMatchesBalance == \A u \in Users : tailKind[u] # "recredit" => tail[u] = total[u]

\* What the advisory lock is for: a transaction past the lock statement owns the
\* lock of its user, and from its SUM to its COMMIT the sum it read is the
\* user's balance.  (The inductive core of the two properties above.)
LockedReadIsCurrent ==
  \A p \in Procs :
    /\ pc[p] \in HoldingLock => lock[op[p].user] = p
    /\ pc[p] = "read" => ValidAmount(p) /\ before[p] = total[op[p].user]

\* A success answer of a writer means that its row is committed, and a debit, a
\* top-up or a creation that answers failure has written nothing (but for a lost
\* COMMIT acknowledgement), whatever fails after the commit: callers of
\* spendCredits give up the order on a failure and never look for the row.
AnswersAreHonest ==
  \A p \in Procs :
    /\ outcome[p] = "success" /\ op[p].kind \in WriterKinds => applied[p]
    /\ outcome[p] = "failed" /\ op[p].kind \in {"debit", "topup", "create"} => ~applied[p]

\* Only a top-up raises a balance past maxBalance: addCredits and refundCredits
\* cannot race one another, or a top-up, over the limit.
LimitHeldByCreditsAndRefunds ==
  [][\A u \in Users :
       total'[u] > total[u] /\ total'[u] > MaxBalance
         => tailKind'[u] \in {"topup", "recredit"}]_<<total, tailKind>>

\* Every request is answered: neither the advisory lock nor the pool, whose
\* clients writers hold while asking for a second one, blocks a request for ever.
EveryRequestAnswered == \A p \in Procs : pc[p] # "idle" ~> pc[p] = "idle"

\* What the rows of u's top-ups credit.
Credited == [u \in Users |-> [t \in TopUps |-> IF deposit[t].user = u THEN deposit[t].amount ELSE 0]]

\* The ledger implements atomic balance changes, one commit at a time.
Atomic == INSTANCE AtomicLedger WITH balance <- total, lastKind <- tailKind, credited <- Credited

ImplementsAtomicLedger == Atomic!Spec
=============================================================================
