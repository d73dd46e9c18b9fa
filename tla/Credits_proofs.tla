--------------------------- MODULE Credits_proofs ---------------------------
(***************************************************************************)
(* What holds of the credit ledger for every set of users, requests and    *)
(* amounts, every limit and every pool size; and of crypto top-ups for     *)
(* every set of payments, payers and handlers at work and every bound on   *)
(* the refreshes, manual allocations, syncs and faults.                    *)
(***************************************************************************)
EXTENDS CreditLedger, CreditTopUp, TLAPS

-----------------------------------------------------------------------------
(* The ledger                                                               *)

\* Balance queries hold no transaction, and only the requests about a top-up name one.
TransactionsAreWriters ==
  \A p \in Procs :
    /\ pc[p] \in {"connecting"} \cup TxStates => op[p].kind \in WriterKinds
    /\ pc[p] \in HoldingLock => op[p].kind # "create"
    /\ op[p].kind \in {"topup", "create"} => op[p].pay \in TopUps

\* A payment that is being created has no row yet and nobody else who creates it;
\* an allocation past its lookups credits a row of its own user.
RowsAreTheirUsers ==
  /\ \A p \in Procs :
       /\ op[p].kind = "create" /\ pc[p] \in {"connecting", "begun"} => deposit[op[p].pay] = NoDeposit
       /\ op[p].kind = "topup" /\ pc[p] = "read" => deposit[op[p].pay].user = op[p].user
  /\ \A p, q \in Procs :
       /\ p # q /\ pc[p] # "idle" /\ pc[q] # "idle"
       /\ op[p].kind = "create" /\ op[q].kind = "create"
       => op[p].pay # op[q].pay

\* The inductive invariant: the typed variables, the top-ups' rows, the lock
\* discipline, and what it protects.
LedgerInv ==
  /\ TypeOK
  /\ TransactionsAreWriters
  /\ RowsAreTheirUsers
  /\ LockedReadIsCurrent
  /\ TrailMatchesBalance

-----------------------------------------------------------------------------
\* A row is a signed integer amount.
LEMMA DeltaType ==
  ASSUME TypeOK, NEW p \in Procs
  PROVE  /\ Delta(p) \in Int
         /\ op[p].kind # "debit" => Delta(p) >= 0
<1>1. op[p] \in Ops
  BY DEF TypeOK
<1>2. op[p].amount \in Nat
  BY <1>1, ConstantsAssumption DEF Ops
<1>3. QED
  BY <1>2 DEF Delta

\* An amount is an integer.
LEMMA AmountType ==
  ASSUME TypeOK, NEW p \in Procs
  PROVE  op[p].amount \in Int
<1>1. op[p].amount \in Amounts
  BY DEF TypeOK, Ops
<1>2. op[p].amount \in Nat
  BY <1>1, ConstantsAssumption
<1>3. QED
  BY <1>2

\* Type correctness: every variable keeps its type through every step of a
\* request, a crash, a cache expiry and a Redis outage.
LEMMA TypeStep == TypeOK /\ TransactionsAreWriters /\ [Next]_vars => TypeOK'
<1> SUFFICES ASSUME TypeOK, TransactionsAreWriters, [Next]_vars PROVE TypeOK'
  OBVIOUS
<1> USE ConstantsAssumption
<1> USE DEF TypeOK, tableVars, dbVars, procVars, vars, Goto, Reply, ForgetLocals, ReleaseLock,
        States, TxStates, RefreshStates, Outcomes
<1>1. ASSUME NEW p \in Procs, Start(p) PROVE TypeOK'
  BY <1>1 DEF Start, Ops
<1>2. ASSUME NEW p \in Procs, AcquireLock(p) PROVE TypeOK'
  BY <1>2 DEF AcquireLock, Ops
<1>3. ASSUME NEW p \in Procs, Connect(p) \/ ConnectTimeout(p) PROVE TypeOK'
  BY <1>3 DEF Connect, ConnectTimeout
<1>4. ASSUME NEW p \in Procs, ReadBalance(p) PROVE TypeOK'
  BY <1>4 DEF ReadBalance, Ops
<1>5. ASSUME NEW p \in Procs, Reject(p) \/ DatabaseError(p) \/ Crash(p) PROVE TypeOK'
  BY <1>5 DEF Reject, DatabaseError, Crash
<1>6. ASSUME NEW p \in Procs, WriteRow(p)
      PROVE /\ total' \in [Users -> Int]
            /\ tail' \in [Users -> Int]
            /\ tailKind' \in [Users -> MoveKinds \cup {"none"}]
            /\ deposit' \in [TopUps -> Deposits]
            /\ applied' \in [Procs -> BOOLEAN]
            /\ lock' \in [Users -> Procs \cup {NoProc}]
  <2>1. Delta(p) \in Int /\ before[p] \in Int
    BY DeltaType
  <2>2. op[p] \in Ops /\ op[p].user \in Users /\ op[p].kind \in Kinds
    BY DEF Ops
  <2>7. op[p].amount \in Int
    BY AmountType
  <2>3. applied' \in [Procs -> BOOLEAN] /\ lock' \in [Users -> Procs \cup {NoProc}]
    BY <1>6 DEF WriteRow
  <2>4. CASE MoveBalance(p)
    <3> DEFINE u   == op[p].user
               t   == op[p].pay
               old == IF op[p].kind = "topup" THEN deposit[t].amount ELSE 0
    <3>1. op[p].kind = "topup" => t \in TopUps /\ deposit[t] \in Deposits
      BY DEF TransactionsAreWriters
    <3>2. old \in Int
      BY <3>1 DEF Deposits
    <3>3. op[p].kind \in MoveKinds
      BY <2>4, <2>2 DEF MoveBalance, TransactionsAreWriters, MoveKinds, WriterKinds, HoldingLock
    <3>4. /\ total' = [total EXCEPT ![u] = @ + Delta(p) - old]
          /\ tail' = [tail EXCEPT ![u] = before[p] + Delta(p)]
          /\ tailKind' = [tailKind EXCEPT ![u] = IF old = 0 THEN op[p].kind ELSE "recredit"]
          /\ deposit' = IF op[p].kind = "topup"
                      THEN [deposit EXCEPT ![t] = [user |-> u, amount |-> op[p].amount, done |-> TRUE]]
                      ELSE deposit
      BY <2>4 DEF MoveBalance
    <3>5. [user |-> u, amount |-> op[p].amount, done |-> TRUE] \in Deposits
      BY <2>2, <2>7 DEF Deposits
    <3>6. deposit' \in [TopUps -> Deposits]
      BY <3>1, <3>4, <3>5
    <3>7. (IF old = 0 THEN op[p].kind ELSE "recredit") \in MoveKinds
      BY <3>3 DEF MoveKinds
    <3>8. total' \in [Users -> Int] /\ tail' \in [Users -> Int]
      <4> HIDE DEF old
      <4> QED
        BY <2>1, <2>2, <3>2, <3>4
    <3>9. tailKind' \in [Users -> MoveKinds \cup {"none"}]
      <4> HIDE DEF old
      <4> QED
        BY <2>2, <3>4, <3>7
    <3>10. QED
      BY <2>3, <3>6, <3>8, <3>9
  <2>5. CASE CreateRow(p)
    <3>1. [user |-> op[p].user, amount |-> 0, done |-> FALSE] \in Deposits
      BY <2>2 DEF Deposits
    <3>2. QED
      BY <2>3, <2>5, <3>1 DEF CreateRow
  <2>6. QED
    BY <1>6, <2>4, <2>5 DEF WriteRow
<1>7. ASSUME NEW p \in Procs, Commit(p) PROVE TypeOK'
  <2>1. WriteRow(p)
    BY <1>7 DEF Commit
  <2>2. QED
    BY <1>6, <1>7, <2>1 DEF Commit
<1>8. ASSUME NEW p \in Procs, CommitAckLost(p) PROVE TypeOK'
  <2>1. WriteRow(p)
    BY <1>8 DEF CommitAckLost
  <2>2. QED
    BY <1>6, <1>8, <2>1 DEF CommitAckLost
<1>9. ASSUME NEW p \in Procs, ClearCache(p) PROVE TypeOK'
  <2>1. cache' \in [Users -> Int \cup {NoEntry}]
    BY <1>9 DEF ClearCache
  <2>2. CASE op[p].kind \in {"topup", "create"}
    BY <1>9, <2>1, <2>2 DEF ClearCache
  <2>3. CASE op[p].kind \notin {"topup", "create"}
    BY <1>9, <2>1, <2>3 DEF ClearCache
  <2>4. QED
    BY <2>2, <2>3
<1>10. ASSUME NEW p \in Procs, CacheHit(p) \/ CacheMiss(p) PROVE TypeOK'
  BY <1>10 DEF CacheHit, CacheMiss
<1>11. ASSUME NEW p \in Procs, QueryTotal(p) PROVE TypeOK'
  BY <1>11 DEF QueryTotal, Ops
<1>12. ASSUME NEW p \in Procs, RefreshFails(p) PROVE TypeOK'
  BY <1>12 DEF RefreshFails
<1>13. ASSUME NEW p \in Procs, FillCache(p) PROVE TypeOK'
  <2>1. cache' \in [Users -> Int \cup {NoEntry}]
    BY <1>13 DEF FillCache
  <2>2. QED
    BY <1>13, <2>1 DEF FillCache
<1>14. ASSUME NEW u \in Users, CacheExpires(u) PROVE TypeOK'
  BY <1>14 DEF CacheExpires
<1>15. ASSUME NEW t \in TopUps, CompletionErased(t) PROVE TypeOK'
  BY <1>15 DEF CompletionErased, Deposits
<1>16. CASE UNCHANGED vars
  BY <1>16
<1>17. QED
  BY <1>1, <1>2, <1>3, <1>4, <1>5, <1>7, <1>8, <1>9, <1>10, <1>11, <1>12,
     <1>13, <1>14, <1>15, <1>16 DEF Next, Advance, QueryTimeout

LEMMA WriterStep == TypeOK /\ TransactionsAreWriters /\ [Next]_vars => TransactionsAreWriters'
<1> SUFFICES ASSUME TypeOK, TransactionsAreWriters, [Next]_vars PROVE TransactionsAreWriters'
  OBVIOUS
<1> USE DEF TransactionsAreWriters, TypeOK, Goto, Reply, procVars, vars, TxStates, HoldingLock
<1>1. ASSUME NEW p \in Procs, Start(p) PROVE TransactionsAreWriters'
  <2>1. PICK o \in Ops : /\ o.pay # NoTopUp <=> o.kind \in {"topup", "create"}
                         /\ op' = [op EXCEPT ![p] = o]
                         /\ pc' = [pc EXCEPT ![p] = IF o.kind = "query" THEN "lookup" ELSE "connecting"]
    BY <1>1 DEF Start
  <2>2. o.kind \in Kinds /\ o.pay \in TopUps \cup {NoTopUp}
    BY DEF Ops
  <2>3. op'[p] = o /\ pc'[p] = IF o.kind = "query" THEN "lookup" ELSE "connecting"
    BY <2>1
  <2>4. \A q \in Procs \ {p} : op'[q] = op[q] /\ pc'[q] = pc[q]
    BY <2>1
  <2>5. QED
    BY <2>1, <2>2, <2>3, <2>4 DEF Kinds
<1>2. ASSUME NEW p \in Procs, Connect(p) \/ AcquireLock(p) \/ ReadBalance(p)
      PROVE  TransactionsAreWriters'
  BY <1>2 DEF Connect, AcquireLock, ReadBalance
<1>3. ASSUME NEW p \in Procs,
             \/ ConnectTimeout(p) \/ Reject(p) \/ DatabaseError(p) \/ Crash(p)
             \/ CacheHit(p) \/ CacheMiss(p) \/ QueryTotal(p) \/ RefreshFails(p) \/ FillCache(p)
             \/ Commit(p) \/ CommitAckLost(p)
      PROVE  TransactionsAreWriters'
  BY <1>3 DEF ConnectTimeout, Reject, DatabaseError, Crash, CacheHit, CacheMiss, QueryTotal,
              RefreshFails, FillCache, Commit, CommitAckLost
<1>4. ASSUME NEW p \in Procs, ClearCache(p) PROVE TransactionsAreWriters'
  BY <1>4 DEF ClearCache
<1>5. ASSUME \/ \E u \in Users : CacheExpires(u)
             \/ \E t \in TopUps : CompletionErased(t)
             \/ UNCHANGED vars
      PROVE  TransactionsAreWriters'
  BY <1>5 DEF CacheExpires, CompletionErased
<1>6. QED
  BY <1>1, <1>2, <1>3, <1>4, <1>5 DEF Next, Advance, QueryTimeout

\* Init satisfies the invariant: no rows, no locks, nobody reading.
LEMMA InitInv == Init => LedgerInv
<1> SUFFICES ASSUME Init PROVE LedgerInv
  OBVIOUS
<1> USE ConstantsAssumption
<1>1. op \in [Procs -> Ops] /\ \A p \in Procs : op[p].kind = "query"
  <2> DEFINE Queries == {[kind |-> "query", user |-> u, amount |-> a, known |-> FALSE,
                          pay |-> NoTopUp] : u \in Users, a \in Amounts}
  <2>1. ASSUME NEW u \in Users, NEW a \in Amounts
        PROVE [kind |-> "query", user |-> u, amount |-> a, known |-> FALSE, pay |-> NoTopUp] \in Ops
    BY DEF Ops, Kinds
  <2>2. op \in [Procs -> Queries]
    BY DEF Init
  <2>3. QED
    BY <2>1, <2>2
<1>2. TypeOK
  <2>1. NoDeposit \in Deposits
    BY DEF NoDeposit, Deposits
  <2>2. QED
    BY <1>1, <2>1 DEF Init, TypeOK, States, Outcomes
<1>3. LockedReadIsCurrent
  BY DEF Init, LockedReadIsCurrent, HoldingLock
<1>4. TrailMatchesBalance
  BY DEF Init, TrailMatchesBalance
<1>5. TransactionsAreWriters
  BY <1>1 DEF Init, TransactionsAreWriters, TxStates, HoldingLock
<1>6. RowsAreTheirUsers
  BY <1>1 DEF Init, RowsAreTheirUsers
<1>7. QED
  BY <1>2, <1>3, <1>4, <1>5, <1>6 DEF LedgerInv

\* The steps that neither take a lock, nor read a balance, nor write a row: they
\* leave the tables alone, release locks of p only, and move p out of the
\* transaction if they move it at all.
Outside(p) ==
  /\ UNCHANGED tableVars
  /\ \/ UNCHANGED lock
     \/ ReleaseLock(p)
  /\ \A q \in Procs \ {p} : pc'[q] = pc[q] /\ op'[q] = op[q] /\ before'[q] = before[q]
  /\ pc'[p] \notin HoldingLock

LEMMA OutsideSteps ==
  ASSUME TypeOK, NEW p \in Procs,
         \/ Start(p) \/ Connect(p) \/ ConnectTimeout(p) \/ Reject(p) \/ DatabaseError(p)
         \/ Crash(p) \/ ClearCache(p) \/ CacheHit(p) \/ CacheMiss(p) \/ QueryTotal(p)
         \/ RefreshFails(p) \/ FillCache(p)
  PROVE  Outside(p)
<1> USE DEF TypeOK, Outside, Goto, Reply, ForgetLocals, HoldingLock, dbVars, tableVars
<1>1. CASE Start(p)
  BY <1>1 DEF Start
<1>2. CASE Connect(p) \/ ConnectTimeout(p)
  BY <1>2 DEF Connect, ConnectTimeout
<1>3. CASE Reject(p) \/ DatabaseError(p) \/ Crash(p)
  BY <1>3 DEF Reject, DatabaseError, Crash
<1>4. CASE ClearCache(p)
  BY <1>4 DEF ClearCache
<1>5. CASE CacheHit(p) \/ CacheMiss(p) \/ QueryTotal(p)
  BY <1>5 DEF CacheHit, CacheMiss, QueryTotal
<1>6. CASE RefreshFails(p) \/ FillCache(p)
  BY <1>6 DEF RefreshFails, FillCache
<1>7. QED
  BY <1>1, <1>2, <1>3, <1>4, <1>5, <1>6

-----------------------------------------------------------------------------
\* A creation begins with a payment id of its own.
LEMMA StartKeepsRows ==
  ASSUME TypeOK, RowsAreTheirUsers, NEW p \in Procs, Start(p)
  PROVE  RowsAreTheirUsers'
<1>1. PICK o \in Ops :
        /\ o.kind = "create" =>
             /\ deposit[o.pay] = NoDeposit
             /\ \A q \in Procs : pc[q] # "idle" /\ op[q].kind = "create" => op[q].pay # o.pay
        /\ op' = [op EXCEPT ![p] = o]
        /\ pc' = [pc EXCEPT ![p] = IF o.kind = "query" THEN "lookup" ELSE "connecting"]
  BY DEF Start, Goto
<1>2. UNCHANGED deposit
  BY DEF Start, dbVars
<1>3. op'[p] = o /\ pc'[p] \in {"lookup", "connecting"}
  BY <1>1 DEF TypeOK
<1>4. \A q \in Procs \ {p} : op'[q] = op[q] /\ pc'[q] = pc[q]
  BY <1>1 DEF TypeOK
<1>5. QED
  BY <1>1, <1>2, <1>3, <1>4 DEF RowsAreTheirUsers

\* A step that writes no row and starts nothing.
LEMMA QuietKeepsRows ==
  ASSUME TypeOK, RowsAreTheirUsers, NEW p \in Procs,
         \/ Connect(p) \/ ConnectTimeout(p) \/ AcquireLock(p) \/ ReadBalance(p)
         \/ Reject(p) \/ DatabaseError(p) \/ Crash(p) \/ ClearCache(p) \/ CacheHit(p)
         \/ CacheMiss(p) \/ QueryTotal(p) \/ RefreshFails(p) \/ FillCache(p)
  PROVE  RowsAreTheirUsers'
<1>1. /\ UNCHANGED <<deposit, op>>
      /\ pc[p] # "idle" \/ pc'[p] = "idle"
      /\ pc'[p] \in {"connecting", "begun"} => pc[p] \in {"connecting", "begun"}
      /\ pc'[p] = "read" => Found(p)
      /\ \A q \in Procs \ {p} : pc'[q] = pc[q]
  <2> USE DEF TypeOK, Goto, Reply, dbVars, tableVars
  <2>1. CASE Connect(p) \/ ConnectTimeout(p) \/ AcquireLock(p)
    BY <2>1 DEF Connect, ConnectTimeout, AcquireLock
  <2>2. CASE ReadBalance(p)
    BY <2>2 DEF ReadBalance
  <2>3. CASE Reject(p) \/ DatabaseError(p) \/ Crash(p)
    BY <2>3 DEF Reject, DatabaseError, Crash, TxStates
  <2>4. CASE ClearCache(p)
    BY <2>4 DEF ClearCache
  <2>5. CASE CacheHit(p) \/ CacheMiss(p) \/ QueryTotal(p)
    BY <2>5 DEF CacheHit, CacheMiss, QueryTotal
  <2>6. CASE RefreshFails(p) \/ FillCache(p)
    BY <2>6 DEF RefreshFails, FillCache
  <2>7. QED
    BY <2>1, <2>2, <2>3, <2>4, <2>5, <2>6
<1>2. ASSUME NEW q \in Procs
      PROVE  /\ op[q].kind = "create" /\ pc'[q] \in {"connecting", "begun"}
                 => deposit[op[q].pay] = NoDeposit
             /\ op[q].kind = "topup" /\ pc'[q] = "read" => deposit[op[q].pay].user = op[q].user
             /\ pc'[q] # "idle" => pc[q] # "idle"
  <2>1. CASE q = p
    BY <1>1, <2>1 DEF RowsAreTheirUsers, Found
  <2>2. CASE q # p
    BY <1>1, <2>2 DEF RowsAreTheirUsers
  <2>3. QED
    BY <2>1, <2>2
<1>3. QED
  BY <1>1, <1>2 DEF RowsAreTheirUsers

\* A row is created once, and an allocation leaves it its user's.
LEMMA WriteRowKeepsRows ==
  ASSUME TypeOK, TransactionsAreWriters, RowsAreTheirUsers, NEW p \in Procs, WriteRow(p),
         UNCHANGED op, pc'[p] \notin {"connecting", "begun", "read"}, pc[p] # "idle",
         \A q \in Procs \ {p} : pc'[q] = pc[q]
  PROVE  RowsAreTheirUsers'
<1> DEFINE t == op[p].pay
<1>1. op[p].kind \in {"topup", "create"} => t \in TopUps
  BY DEF TransactionsAreWriters
<1>2. \A q \in Procs : op[q].user \in Users /\ op[q].user # NoUser
  BY ConstantsAssumption DEF TypeOK, Ops
<1>3. ASSUME NEW q \in Procs, q # p
      PROVE  /\ op[q].kind = "create" /\ pc[q] \in {"connecting", "begun"}
                 => deposit'[op[q].pay] = NoDeposit
             /\ op[q].kind = "topup" /\ pc[q] = "read" => deposit'[op[q].pay].user = op[q].user
  <2>1. op[q].kind \in {"topup", "create"} => op[q].pay \in TopUps
    BY DEF TransactionsAreWriters
  <2>2. CASE MoveBalance(p) /\ op[p].kind # "topup"
    BY <2>2 DEF MoveBalance, RowsAreTheirUsers
  <2>3. CASE MoveBalance(p) /\ op[p].kind = "topup"
    <3>1. /\ deposit' = [deposit EXCEPT ![t] = [user |-> op[p].user, amount |-> op[p].amount, done |-> TRUE]]
          /\ deposit[t].user = op[p].user
      BY <2>3 DEF MoveBalance, RowsAreTheirUsers
    <3>2. deposit[t] # NoDeposit /\ deposit'[t].user = deposit[t].user
      BY <1>1, <1>2, <2>3, <3>1 DEF NoDeposit, TypeOK
    <3>3. \A x \in TopUps \ {t} : deposit'[x] = deposit[x]
      BY <3>1 DEF TypeOK
    <3>4. QED
      BY <2>1, <3>2, <3>3 DEF RowsAreTheirUsers
  <2>4. CASE CreateRow(p)
    <3>1. op[p].kind = "create" /\ pc[p] = "begun" /\ deposit[t] = NoDeposit
      BY <2>4 DEF CreateRow, RowsAreTheirUsers
    <3>2. \A x \in TopUps \ {t} : deposit'[x] = deposit[x]
      BY <2>4 DEF CreateRow, TypeOK
    <3>3. op[q].kind = "create" /\ pc[q] \in {"connecting", "begun"} => op[q].pay # t
      BY <1>3, <3>1 DEF RowsAreTheirUsers
    <3>4. op[q].kind = "topup" /\ pc[q] = "read" => op[q].pay # t
      BY <1>2, <3>1 DEF RowsAreTheirUsers, NoDeposit
    <3>5. QED
      BY <2>1, <3>2, <3>3, <3>4 DEF RowsAreTheirUsers
  <2>5. QED
    BY <2>2, <2>3, <2>4 DEF WriteRow
<1>4. QED
  BY <1>3 DEF RowsAreTheirUsers

-----------------------------------------------------------------------------
\* Such a step keeps every lock holder's lock and every reader's sum.
LEMMA OutsideKeepsInv ==
  ASSUME LedgerInv, TypeOK', TransactionsAreWriters', RowsAreTheirUsers',
         NEW p \in Procs, Outside(p)
  PROVE  LedgerInv'
<1>1. LockedReadIsCurrent'
  <2> SUFFICES ASSUME NEW q \in Procs
               PROVE /\ pc'[q] \in HoldingLock => lock'[op'[q].user] = q
                     /\ pc'[q] = "read" => ValidAmount(q)' /\ before'[q] = total'[op'[q].user]
    BY DEF LockedReadIsCurrent
  <2>1. CASE q = p
    BY <2>1 DEF Outside, HoldingLock
  <2>2. CASE q # p
    <3>1. pc'[q] = pc[q] /\ op'[q] = op[q] /\ before'[q] = before[q] /\ total' = total
      BY <2>2 DEF Outside, tableVars
    <3>2. op[q] \in Ops /\ op[q].user \in Users
      BY DEF LedgerInv, TypeOK, Ops
    <3>3. lock[op[q].user] = q => lock'[op[q].user] = q
      BY <2>2, <3>2 DEF Outside, ReleaseLock, LedgerInv, TypeOK
    <3>4. QED
      BY <3>1, <3>3 DEF LedgerInv, LockedReadIsCurrent, ValidAmount
  <2>3. QED
    BY <2>1, <2>2
<1>2. TrailMatchesBalance'
  BY DEF LedgerInv, Outside, tableVars, TrailMatchesBalance
<1>3. QED
  BY <1>1, <1>2 DEF LedgerInv

\* What the lock owner's commit does to the balance it is about to change.
LEMMA MoveBalanceDoes ==
  ASSUME LedgerInv, NEW p \in Procs, MoveBalance(p)
  PROVE  LET u   == op[p].user
             old == IF op[p].kind = "topup" THEN deposit[op[p].pay].amount ELSE 0
             new == before[p] + Delta(p) - old
         IN  /\ u \in Users /\ lock[u] = p /\ old \in Int /\ new \in Int
             /\ before[p] = total[u] /\ total[u] \in Int /\ Delta(p) \in Int
             /\ total' = [total EXCEPT ![u] = new]
             /\ tail' = [tail EXCEPT ![u] = before[p] + Delta(p)]
             /\ tailKind' = [tailKind EXCEPT ![u] = IF old = 0 THEN op[p].kind ELSE "recredit"]
<1> DEFINE u   == op[p].user
           old == IF op[p].kind = "topup" THEN deposit[op[p].pay].amount ELSE 0
<1>1. /\ op[p] \in Ops /\ u \in Users
      /\ before[p] = total[u] /\ lock[u] = p
      /\ total[u] \in Int /\ Delta(p) \in Int
  BY DeltaType DEF LedgerInv, TypeOK, Ops, MoveBalance, LockedReadIsCurrent, HoldingLock
<1>2. old \in Int
  BY DEF LedgerInv, TypeOK, TransactionsAreWriters, Deposits
<1>3. total' = [total EXCEPT ![u] = before[p] + Delta(p) - old]
  BY <1>1 DEF MoveBalance
<1>4. QED
  BY <1>1, <1>2, <1>3 DEF MoveBalance

LEMMA WriteRowKeepsInv ==
  ASSUME LedgerInv, TypeOK', TransactionsAreWriters', RowsAreTheirUsers', NEW p \in Procs,
         WriteRow(p), UNCHANGED op, pc'[p] \notin HoldingLock,
         \A q \in Procs \ {p} : pc'[q] = pc[q] /\ before'[q] = before[q]
  PROVE  LedgerInv'
<1> DEFINE u == op[p].user
<1>1. op[p].user \in Users
  BY DEF LedgerInv, TypeOK, Ops
<1>2. TrailMatchesBalance'
  <2>1. CASE MoveBalance(p)
    <3> DEFINE old == IF op[p].kind = "topup" THEN deposit[op[p].pay].amount ELSE 0
    <3>1. /\ total' = [total EXCEPT ![u] = before[p] + Delta(p) - old]
          /\ tail' = [tail EXCEPT ![u] = before[p] + Delta(p)]
          /\ tailKind' = [tailKind EXCEPT ![u] = IF old = 0 THEN op[p].kind ELSE "recredit"]
          /\ before[p] \in Int /\ Delta(p) \in Int
      BY <2>1, MoveBalanceDoes
    <3> HIDE DEF old
    <3>2. QED
      BY <1>1, <3>1 DEF LedgerInv, TypeOK, TrailMatchesBalance
  <2>2. CASE CreateRow(p)
    BY <2>2 DEF CreateRow, LedgerInv, TrailMatchesBalance
  <2>3. QED
    BY <2>1, <2>2 DEF WriteRow
<1>3. LockedReadIsCurrent'
  <2> SUFFICES ASSUME NEW q \in Procs
               PROVE /\ pc'[q] \in HoldingLock => lock'[op'[q].user] = q
                     /\ pc'[q] = "read" => ValidAmount(q)' /\ before'[q] = total'[op'[q].user]
    BY DEF LockedReadIsCurrent
  <2>1. CASE q = p
    BY <2>1 DEF HoldingLock
  <2>2. CASE q # p
    <3>1. op[q] \in Ops /\ op[q].user \in Users
      BY DEF LedgerInv, TypeOK, Ops
    <3>2. lock[op[q].user] = q => lock'[op[q].user] = q
      BY <2>2, <3>1 DEF WriteRow, ReleaseLock, LedgerInv, TypeOK
    <3>3. pc[q] \in HoldingLock => total'[op[q].user] = total[op[q].user]
      <4>1. CASE MoveBalance(p)
        <5>1. pc[q] \in HoldingLock => op[q].user # u
          BY <2>2, <4>1, MoveBalanceDoes DEF LedgerInv, LockedReadIsCurrent
        <5>2. op[q].user # u => total'[op[q].user] = total[op[q].user]
          BY <3>1, <4>1, MoveBalanceDoes DEF LedgerInv, TypeOK
        <5>3. QED
          BY <5>1, <5>2
      <4>2. CASE CreateRow(p)
        BY <4>2 DEF CreateRow
      <4>3. QED
        BY <4>1, <4>2 DEF WriteRow
    <3>4. pc'[q] = pc[q] /\ before'[q] = before[q] /\ op'[q] = op[q]
      BY <2>2
    <3>5. QED
      BY <3>2, <3>3, <3>4 DEF LedgerInv, LockedReadIsCurrent, ValidAmount, HoldingLock
  <2>3. QED
    BY <2>1, <2>2
<1>4. QED
  BY <1>2, <1>3 DEF LedgerInv

LEMMA StepInv == LedgerInv /\ [Next]_vars => LedgerInv'
<1> SUFFICES ASSUME LedgerInv, [Next]_vars PROVE LedgerInv'
  OBVIOUS
<1>1. /\ TypeOK /\ TransactionsAreWriters /\ RowsAreTheirUsers
      /\ TypeOK' /\ TransactionsAreWriters'
  BY TypeStep, WriterStep DEF LedgerInv
<1>2. ASSUME NEW p \in Procs,
             \/ Start(p) \/ Connect(p) \/ ConnectTimeout(p) \/ Reject(p) \/ DatabaseError(p)
             \/ Crash(p) \/ ClearCache(p) \/ CacheHit(p) \/ CacheMiss(p) \/ QueryTotal(p)
             \/ RefreshFails(p) \/ FillCache(p)
      PROVE  LedgerInv'
  <2>1. RowsAreTheirUsers'
    BY <1>1, <1>2, StartKeepsRows, QuietKeepsRows
  <2>2. Outside(p)
    BY <1>1, <1>2, OutsideSteps
  <2>3. QED
    BY <1>1, <2>1, <2>2, OutsideKeepsInv
<1>3. ASSUME NEW p \in Procs, Commit(p) \/ CommitAckLost(p) PROVE LedgerInv'
  <2>1. WriteRow(p) /\ UNCHANGED op
    BY <1>3 DEF Commit, CommitAckLost
  <2>2. /\ pc'[p] \in {"clearing", "idle"}
        /\ \A q \in Procs \ {p} : pc'[q] = pc[q] /\ before'[q] = before[q]
    BY <1>1, <1>3 DEF Commit, CommitAckLost, Goto, Reply, ForgetLocals, TypeOK
  <2>3. pc[p] # "idle"
    BY <2>1 DEF WriteRow, MoveBalance, CreateRow
  <2>4. RowsAreTheirUsers'
    BY <1>1, <2>1, <2>2, <2>3, WriteRowKeepsRows
  <2>5. QED
    BY <1>1, <2>1, <2>2, <2>4, WriteRowKeepsInv DEF HoldingLock
<1>4. ASSUME NEW p \in Procs, AcquireLock(p) PROVE LedgerInv'
  <2>1. /\ UNCHANGED <<total, tail, tailKind, op, before>>
        /\ lock' = [lock EXCEPT ![op[p].user] = p]
        /\ lock[op[p].user] = NoProc
        /\ pc' = [pc EXCEPT ![p] = "locked"]
    BY <1>4 DEF AcquireLock, Goto, tableVars
  <2>2. LockedReadIsCurrent'
    <3> SUFFICES ASSUME NEW q \in Procs
                 PROVE /\ pc'[q] \in HoldingLock => lock'[op[q].user] = q
                       /\ pc'[q] = "read" => ValidAmount(q)' /\ before[q] = total[op[q].user]
      BY <2>1 DEF LockedReadIsCurrent
    <3>1. op[q].user \in Users /\ op[p].user \in Users
      BY <1>1 DEF TypeOK, Ops
    <3>2. CASE q = p
      BY <1>1, <2>1, <3>1, <3>2 DEF TypeOK
    <3>3. CASE q # p
      <4>1. pc'[q] = pc[q]
        BY <1>1, <2>1, <3>3 DEF TypeOK
      <4>2. pc[q] \in HoldingLock => op[q].user # op[p].user
        BY <2>1, ConstantsAssumption DEF LedgerInv, LockedReadIsCurrent
      <4>3. QED
        BY <1>1, <2>1, <3>1, <4>1, <4>2
           DEF LedgerInv, LockedReadIsCurrent, TypeOK, ValidAmount, HoldingLock
    <3>4. QED
      BY <3>2, <3>3
  <2>3. RowsAreTheirUsers'
    BY <1>1, <1>4, QuietKeepsRows
  <2>4. QED
    BY <1>1, <2>1, <2>2, <2>3 DEF LedgerInv, TrailMatchesBalance
<1>5. ASSUME NEW p \in Procs, ReadBalance(p) PROVE LedgerInv'
  <2>1. /\ UNCHANGED <<total, tail, tailKind, lock, op>>
        /\ before' = [before EXCEPT ![p] = total[op[p].user]]
        /\ pc' = [pc EXCEPT ![p] = "read"] /\ pc[p] = "locked"
        /\ ValidAmount(p)
    BY <1>5 DEF ReadBalance, Goto, dbVars
  <2>2. LockedReadIsCurrent'
    BY <1>1, <2>1 DEF LedgerInv, LockedReadIsCurrent, TypeOK, ValidAmount, HoldingLock
  <2>3. RowsAreTheirUsers'
    BY <1>1, <1>5, QuietKeepsRows
  <2>4. QED
    BY <1>1, <2>1, <2>2, <2>3 DEF LedgerInv, TrailMatchesBalance
<1>6. ASSUME \/ \E u \in Users : CacheExpires(u)
             \/ \E t \in TopUps : CompletionErased(t)
             \/ UNCHANGED vars
      PROVE LedgerInv'
  <2>1. UNCHANGED <<total, tail, tailKind, lock, pc, op, before>>
    BY <1>6 DEF CacheExpires, CompletionErased, vars, dbVars, procVars
  <2>2. RowsAreTheirUsers'
    <3>1. CASE UNCHANGED deposit
      BY <1>1, <2>1, <3>1 DEF RowsAreTheirUsers
    <3>2. ASSUME NEW t \in TopUps, CompletionErased(t) PROVE RowsAreTheirUsers'
      <4>1. /\ deposit[t] # NoDeposit
            /\ deposit'[t].user = deposit[t].user
            /\ \A x \in TopUps \ {t} : deposit'[x] = deposit[x]
        BY <1>1, <3>2 DEF CompletionErased, TypeOK, Deposits, NoDeposit
      <4>2. \A p \in Procs : op[p].kind \in {"topup", "create"} => op[p].pay \in TopUps
        BY <1>1 DEF TransactionsAreWriters
      <4>3. QED
        BY <1>1, <2>1, <4>1, <4>2 DEF RowsAreTheirUsers
    <3>3. QED
      BY <1>6, <3>1, <3>2 DEF CacheExpires, vars, dbVars
  <2>3. QED
    BY <1>1, <2>1, <2>2 DEF LedgerInv, LockedReadIsCurrent, TrailMatchesBalance, ValidAmount
<1>7. QED
  BY <1>2, <1>3, <1>4, <1>5, <1>6 DEF Next, Advance, QueryTimeout

-----------------------------------------------------------------------------
\* The inductive invariant holds in every reachable state.
THEOREM LedgerInvariant == Spec => []LedgerInv
<1>1. QED
  BY InitInv, StepInv, PTL DEF Spec

\* Type correctness of the ledger and the cache.
THEOREM TypeCorrect == Spec => []TypeOK
<1>1. LedgerInv => TypeOK
  BY DEF LedgerInv
<1>2. QED
  BY <1>1, LedgerInvariant, PTL

\* The row that moved a balance last carries it, unless it was a top-up credited
\* before; the rows createPayment writes without the lock move none.
THEOREM AuditTrail == Spec => []TrailMatchesBalance
<1>1. LedgerInv => TrailMatchesBalance
  BY DEF LedgerInv
<1>2. QED
  BY <1>1, LedgerInvariant, PTL

\* Between its SUM and its COMMIT a transaction owns its user's balance.
THEOREM LockedReads == Spec => []LockedReadIsCurrent
<1>1. LedgerInv => LockedReadIsCurrent
  BY DEF LedgerInv
<1>2. QED
  BY <1>1, LedgerInvariant, PTL

-----------------------------------------------------------------------------
\* A commit that moves a balance is one atomic operation on it.
LEMMA MoveIsAtomic ==
  ASSUME LedgerInv, NEW p \in Procs, MoveBalance(p)
  PROVE  Atomic!Next
<1> DEFINE u == op[p].user
           a == op[p].amount
           t == op[p].pay
<1>1. /\ op[p] \in Ops /\ u \in Users /\ a \in Amounts /\ a \in Nat
      /\ 0 < a /\ a <= MaxTransactionAmount
      /\ before[p] = total[u] /\ total[u] \in Int
      /\ op[p].kind \in MoverKinds
  BY ConstantsAssumption
     DEF LedgerInv, TypeOK, Ops, MoveBalance, LockedReadIsCurrent, ValidAmount,
         TransactionsAreWriters, TxStates, HoldingLock, WriterKinds
<1>2. WithinLimit(p)
  BY DEF MoveBalance
<1>3. ASSUME op[p].kind # "topup"
      PROVE  /\ total' = [total EXCEPT ![u] = total[u] + Delta(p)]
             /\ tailKind' = [tailKind EXCEPT ![u] = op[p].kind]
             /\ Credited' = Credited
  <2>1. Delta(p) \in Int /\ total[u] + Delta(p) - 0 = total[u] + Delta(p)
    BY <1>1 DEF Delta
  <2>2. /\ total' = [total EXCEPT ![u] = total[u] + Delta(p) - 0]
        /\ tailKind' = [tailKind EXCEPT ![u] = op[p].kind]
        /\ deposit' = deposit
    BY <1>3 DEF MoveBalance
  <2>3. QED
    BY <2>1, <2>2 DEF Credited
<1>4. CASE op[p].kind = "debit"
  <2>1. Delta(p) = 0 - a
    BY <1>4 DEF Delta
  <2>2. total[u] - a >= MinBalance /\ total[u] + Delta(p) = total[u] - a
    BY <1>1, <1>2, <1>4, <2>1, ConstantsAssumption DEF WithinLimit
  <2>3. Atomic!Debit(u, a)
    BY <1>3, <1>4, <2>2 DEF Atomic!Debit, Atomic!Change
  <2>4. QED
    BY <1>1, <2>3 DEF Atomic!Next
<1>5. CASE op[p].kind \in {"add", "refund"}
  <2>1. Delta(p) = a /\ total[u] + a <= MaxBalance
    BY <1>1, <1>2, <1>5 DEF WithinLimit, Delta
  <2>2. Atomic!Deposit(u, op[p].kind, a)
    BY <1>3, <1>5, <2>1 DEF Atomic!Deposit, Atomic!Change
  <2>3. QED
    BY <1>1, <1>5, <2>2 DEF Atomic!Next
<1>6. CASE op[p].kind = "topup"
  <2> DEFINE old == deposit[t].amount
  <2>1. /\ t \in TopUps /\ deposit[t] \in Deposits /\ deposit[t].user = u /\ old \in Int
    BY <1>6 DEF LedgerInv, TypeOK, TransactionsAreWriters, RowsAreTheirUsers, MoveBalance, Deposits
  <2>2. Delta(p) = a /\ total[u] + Delta(p) - old = total[u] + a - old
    BY <1>6 DEF Delta
  <2>3. /\ total' = [total EXCEPT ![u] = total[u] + Delta(p) - old]
        /\ tailKind' = [tailKind EXCEPT ![u] = IF old = 0 THEN "topup" ELSE "recredit"]
        /\ deposit' = [deposit EXCEPT ![t] = [user |-> u, amount |-> a, done |-> TRUE]]
    BY <1>6 DEF MoveBalance
  <2>4. Credited[u][t] = old
    BY <1>1, <2>1 DEF Credited
  <2>5. Credited' = [Credited EXCEPT ![u][t] = a]
    <3>1. \A v \in Users, x \in TopUps :
            (IF deposit'[x].user = v THEN deposit'[x].amount ELSE 0)
              = IF v = u /\ x = t THEN a ELSE IF deposit[x].user = v THEN deposit[x].amount ELSE 0
      <4> SUFFICES ASSUME NEW v \in Users, NEW x \in TopUps
                   PROVE  (IF deposit'[x].user = v THEN deposit'[x].amount ELSE 0)
                            = IF v = u /\ x = t THEN a
                              ELSE IF deposit[x].user = v THEN deposit[x].amount ELSE 0
        OBVIOUS
      <4>1. CASE x = t
        <5>1. deposit'[t].user = u /\ deposit'[t].amount = a
          BY <2>1, <2>3 DEF LedgerInv, TypeOK
        <5>2. QED
          BY <2>1, <4>1, <5>1
      <4>2. CASE x # t
        BY <2>1, <2>3, <4>2 DEF LedgerInv, TypeOK
      <4>3. QED
        BY <4>1, <4>2
    <3>2. Credited' = [v \in Users |-> [x \in TopUps |->
                         IF v = u /\ x = t THEN a
                         ELSE IF deposit[x].user = v THEN deposit[x].amount ELSE 0]]
      BY <3>1 DEF Credited
    <3>3. [Credited EXCEPT ![u][t] = a]
            = [v \in Users |-> [x \in TopUps |->
                 IF v = u /\ x = t THEN a
                 ELSE IF deposit[x].user = v THEN deposit[x].amount ELSE 0]]
      BY <1>1, <2>1 DEF Credited
    <3>4. QED
      BY <3>2, <3>3
  <2>6. total' = [total EXCEPT ![u] = total[u] + a - old]
    BY <2>2, <2>3
  <2>7. Atomic!TopUp(u, t, a)
    <3> HIDE DEF old
    <3> QED
      BY <2>3, <2>4, <2>5, <2>6 DEF Atomic!TopUp, Atomic!Change
  <2>8. QED
    BY <1>1, <2>1, <2>7 DEF Atomic!Next
<1>7. QED
  BY <1>1, <1>4, <1>5, <1>6 DEF MoverKinds

\* createPayment's row moves no balance and credits nothing.
LEMMA CreationIsSilent ==
  ASSUME LedgerInv, NEW p \in Procs, CreateRow(p)
  PROVE  UNCHANGED <<total, tailKind, Credited>>
<1> DEFINE t == op[p].pay
<1>1. /\ op[p].kind = "create" /\ t \in TopUps /\ deposit[t] = NoDeposit
      /\ deposit' = [deposit EXCEPT ![t] = [user |-> op[p].user, amount |-> 0, done |-> FALSE]]
  BY DEF CreateRow, LedgerInv, TransactionsAreWriters, RowsAreTheirUsers
<1>2. \A v \in Users, x \in TopUps :
        (IF deposit'[x].user = v THEN deposit'[x].amount ELSE 0)
          = IF deposit[x].user = v THEN deposit[x].amount ELSE 0
  <2> SUFFICES ASSUME NEW v \in Users, NEW x \in TopUps
               PROVE  (IF deposit'[x].user = v THEN deposit'[x].amount ELSE 0)
                        = IF deposit[x].user = v THEN deposit[x].amount ELSE 0
    OBVIOUS
  <2>1. CASE x = t
    <3>1. deposit'[t].amount = 0 /\ deposit[t].amount = 0
      BY <1>1 DEF LedgerInv, TypeOK, NoDeposit
    <3>2. QED
      BY <2>1, <3>1
  <2>2. CASE x # t
    BY <1>1, <2>2 DEF LedgerInv, TypeOK
  <2>3. QED
    BY <2>1, <2>2
<1>3. Credited' = Credited
  BY <1>2 DEF Credited
<1>4. QED
  BY <1>3 DEF CreateRow

\* The credit service, with its locks, its connection pool, its cache and its
\* crashes, implements balances that change one checked operation at a time.
THEOREM Implements == Spec => ImplementsAtomicLedger
<1>1. Init => Atomic!Init
  <2> SUFFICES ASSUME Init PROVE Atomic!Init
    OBVIOUS
  <2>1. Credited = [u \in Users |-> [t \in TopUps |-> 0]]
    BY DEF Init, Credited, NoDeposit
  <2>2. QED
    BY <2>1 DEF Init, Atomic!Init
<1>2. LedgerInv /\ [Next]_vars => [Atomic!Next]_<<total, tailKind, Credited>>
  <2> SUFFICES ASSUME LedgerInv, [Next]_vars
               PROVE  Atomic!Next \/ UNCHANGED <<total, tailKind, Credited>>
    OBVIOUS
  <2>1. ASSUME NEW p \in Procs, Commit(p) \/ CommitAckLost(p)
        PROVE  Atomic!Next \/ UNCHANGED <<total, tailKind, Credited>>
    BY <2>1, MoveIsAtomic, CreationIsSilent DEF Commit, CommitAckLost, WriteRow
  <2>2. ASSUME NEW p \in Procs,
               \/ Start(p) \/ Connect(p) \/ ConnectTimeout(p) \/ Reject(p) \/ DatabaseError(p)
               \/ Crash(p) \/ ClearCache(p) \/ CacheHit(p) \/ CacheMiss(p) \/ QueryTotal(p)
               \/ RefreshFails(p) \/ FillCache(p)
        PROVE  UNCHANGED <<total, tailKind, Credited>>
    <3>1. UNCHANGED tableVars
      BY <2>2, OutsideSteps DEF LedgerInv, Outside
    <3>2. QED
      BY <3>1 DEF tableVars, Credited
  <2>3. ASSUME NEW p \in Procs, AcquireLock(p) \/ ReadBalance(p)
        PROVE  UNCHANGED <<total, tailKind, Credited>>
    BY <2>3 DEF AcquireLock, ReadBalance, dbVars, tableVars, Credited
  <2>4. ASSUME NEW t \in TopUps, CompletionErased(t)
        PROVE  UNCHANGED <<total, tailKind, Credited>>
    <3>1. \A x \in TopUps : deposit'[x].user = deposit[x].user /\ deposit'[x].amount = deposit[x].amount
      BY <2>4 DEF CompletionErased, LedgerInv, TypeOK, Deposits
    <3>2. QED
      BY <2>4, <3>1 DEF CompletionErased, Credited
  <2>5. ASSUME (\E u \in Users : CacheExpires(u)) \/ UNCHANGED vars
        PROVE  UNCHANGED <<total, tailKind, Credited>>
    BY <2>5 DEF CacheExpires, vars, dbVars, Credited
  <2>6. QED
    BY <2>1, <2>2, <2>3, <2>4, <2>5 DEF Next, Advance, QueryTimeout
<1>3. QED
  BY <1>1, <1>2, LedgerInvariant, PTL DEF Spec, ImplementsAtomicLedger, Atomic!Spec, Atomic!vars

\* What an atomic operation may do to a balance beyond its limits.
AtomicLimits ==
  \A u \in Users :
    /\ total'[u] > total[u] /\ total'[u] > MaxBalance => tailKind'[u] \in {"topup", "recredit"}
    /\ total'[u] < total[u] /\ total'[u] < MinBalance => tailKind'[u] = "recredit"

LEMMA AtomicHolds ==
  ASSUME LedgerInv, [Atomic!Next]_<<total, tailKind, Credited>>
  PROVE  AtomicLimits
<1>1. /\ total \in [Users -> Int] /\ tailKind \in [Users -> MoveKinds \cup {"none"}]
      /\ MaxBalance \in Nat /\ MinBalance \in Int /\ Amounts \subseteq Nat
  BY ConstantsAssumption DEF LedgerInv, TypeOK
<1>2. CASE UNCHANGED <<total, tailKind, Credited>>
  BY <1>1, <1>2 DEF AtomicLimits
<1>3. ASSUME NEW u \in Users, NEW a \in Amounts, 0 < a,
             \/ Atomic!Deposit(u, "add", a) \/ Atomic!Deposit(u, "refund", a) \/ Atomic!Debit(u, a)
             \/ \E t \in TopUps : Atomic!TopUp(u, t, a)
      PROVE  AtomicLimits
  <2> SUFFICES ASSUME NEW v \in Users
               PROVE  /\ total'[v] > total[v] /\ total'[v] > MaxBalance
                            => tailKind'[v] \in {"topup", "recredit"}
                      /\ total'[v] < total[v] /\ total'[v] < MinBalance
                            => tailKind'[v] = "recredit"
    BY DEF AtomicLimits
  <2>1. CASE v # u
    BY <1>1, <1>3, <2>1 DEF Atomic!Deposit, Atomic!TopUp, Atomic!Debit, Atomic!Change
  <2>2. CASE v = u /\ \E t \in TopUps : Atomic!TopUp(u, t, a)
    <3>1. PICK t \in TopUps : Atomic!TopUp(u, t, a)
      BY <2>2
    <3> DEFINE old == Credited[u][t]
    <3>2. /\ total' = [total EXCEPT ![u] = total[u] + a - old]
          /\ tailKind' = [tailKind EXCEPT ![u] = IF old = 0 THEN "topup" ELSE "recredit"]
      BY <3>1 DEF Atomic!TopUp, Atomic!Change
    <3>3. old \in Int
      BY DEF Credited, LedgerInv, TypeOK, Deposits
    <3>4. QED
      <4> HIDE DEF old
      <4> QED
        BY <1>1, <1>3, <2>2, <3>2, <3>3
  <2>3. CASE v = u /\ ~\E t \in TopUps : Atomic!TopUp(u, t, a)
    BY <1>1, <1>3, <2>3 DEF Atomic!Deposit, Atomic!Debit, Atomic!Change
  <2>4. QED
    BY <2>1, <2>2, <2>3
<1>4. QED
  BY <1>2, <1>3 DEF Atomic!Next

\* Only a paid top-up can raise a balance past maxBalance.
THEOREM LimitHeld == Spec => LimitHeldByCreditsAndRefunds
<1>1. LedgerInv /\ [Atomic!Next]_<<total, tailKind, Credited>>
        => [\A u \in Users :
              total'[u] > total[u] /\ total'[u] > MaxBalance
                => tailKind'[u] \in {"topup", "recredit"}]_<<total, tailKind>>
  BY AtomicHolds DEF AtomicLimits
<1>2. QED
  BY <1>1, LedgerInvariant, Implements, PTL
     DEF LimitHeldByCreditsAndRefunds, ImplementsAtomicLedger, Atomic!Spec, Atomic!vars

\* spendCredits and reverseCredits never overdraw a balance, however many of
\* them race (creditService.ts, the check under the advisory lock).
THEOREM NoOverdraft == Spec => DebitsStayAboveMinimum
<1>1. LedgerInv /\ [Atomic!Next]_<<total, tailKind, Credited>>
        => [\A u \in Users :
              total'[u] < total[u] /\ total'[u] < MinBalance
                => tailKind'[u] = "recredit"]_<<total, tailKind>>
  BY AtomicHolds DEF AtomicLimits
<1>2. QED
  BY <1>1, LedgerInvariant, Implements, PTL
     DEF DebitsStayAboveMinimum, ImplementsAtomicLedger, Atomic!Spec, Atomic!vars

-----------------------------------------------------------------------------
\* How far a request has come says whether its row is there: not before its
\* COMMIT, always afterwards; and it has no answer before its last step.  A top-up
\* and a creation end at the cache: no failed refresh makes them answer failure.
AnswerInv ==
  \A p \in Procs :
    /\ pc[p] \in {"connecting"} \cup TxStates => ~applied[p]
    /\ pc[p] \in {"clearing"} \cup RefreshStates /\ op[p].kind \in WriterKinds => applied[p]
    /\ pc[p] \in RefreshStates => op[p].kind \notin {"topup", "create"}
    /\ pc[p] # "idle" => outcome[p] = "none"

\* A step of p leaves the answers of the other requests alone.
LEMMA OthersAnswers ==
  ASSUME TypeOK, NEW p \in Procs, NEW q \in Procs, q # p,
         \/ Start(p) \/ AcquireLock(p) \/ Advance(p)
         \/ CommitAckLost(p) \/ DatabaseError(p) \/ RefreshFails(p) \/ Crash(p)
  PROVE  pc'[q] = pc[q] /\ op'[q] = op[q] /\ applied'[q] = applied[q] /\ outcome'[q] = outcome[q]
<1> USE DEF TypeOK, Goto, Reply
<1>1. CASE Start(p) \/ AcquireLock(p) \/ Connect(p) \/ ConnectTimeout(p)
  BY <1>1 DEF Start, AcquireLock, Connect, ConnectTimeout
<1>2. CASE ReadBalance(p) \/ Reject(p) \/ DatabaseError(p) \/ Crash(p)
  BY <1>2 DEF ReadBalance, Reject, DatabaseError, Crash
<1>3. CASE Commit(p) \/ CommitAckLost(p)
  BY <1>3 DEF Commit, CommitAckLost, WriteRow
<1>4. CASE ClearCache(p)
  BY <1>4 DEF ClearCache
<1>5. CASE CacheHit(p) \/ CacheMiss(p) \/ QueryTotal(p) \/ RefreshFails(p) \/ FillCache(p)
  BY <1>5 DEF CacheHit, CacheMiss, QueryTotal, RefreshFails, FillCache
<1>6. QED
  BY <1>1, <1>2, <1>3, <1>4, <1>5 DEF Advance, QueryTimeout

\* Every step of p keeps what AnswerInv and AnswersAreHonest say of p.
LEMMA OwnAnswer ==
  ASSUME TypeOK, TypeOK', AnswerInv, AnswersAreHonest, NEW p \in Procs,
         \/ Start(p) \/ AcquireLock(p) \/ Advance(p)
         \/ CommitAckLost(p) \/ DatabaseError(p) \/ RefreshFails(p) \/ Crash(p)
  PROVE  /\ pc'[p] \in {"connecting"} \cup TxStates => ~applied'[p]
         /\ pc'[p] \in {"clearing"} \cup RefreshStates /\ op'[p].kind \in WriterKinds => applied'[p]
         /\ pc'[p] \in RefreshStates => op'[p].kind \notin {"topup", "create"}
         /\ pc'[p] # "idle" => outcome'[p] = "none"
         /\ outcome'[p] = "success" /\ op'[p].kind \in WriterKinds => applied'[p]
         /\ outcome'[p] = "failed" /\ op'[p].kind \in {"debit", "topup", "create"} => ~applied'[p]
<1> USE DEF TypeOK, AnswerInv, AnswersAreHonest, Goto, Reply, TxStates, RefreshStates
<1>1. CASE Start(p)
  <2>1. PICK o \in Ops : /\ op' = [op EXCEPT ![p] = o]
                         /\ pc' = [pc EXCEPT ![p] = IF o.kind = "query" THEN "lookup" ELSE "connecting"]
    BY <1>1 DEF Start
  <2>2. /\ applied' = [applied EXCEPT ![p] = FALSE]
        /\ outcome' = [outcome EXCEPT ![p] = "none"]
    BY <1>1 DEF Start
  <2>3. op'[p] = o /\ pc'[p] = (IF o.kind = "query" THEN "lookup" ELSE "connecting")
    BY <2>1
  <2>4. applied'[p] = FALSE /\ outcome'[p] = "none"
    BY <2>2
  <2>5. QED
    BY <2>3, <2>4 DEF WriterKinds, MoverKinds
<1>2. CASE AcquireLock(p) \/ Connect(p) \/ ReadBalance(p)
  BY <1>2 DEF AcquireLock, Connect, ReadBalance
<1>3. CASE ConnectTimeout(p) \/ Reject(p) \/ DatabaseError(p)
  BY <1>3 DEF ConnectTimeout, Reject, DatabaseError
<1>4. CASE Crash(p)
  BY <1>4 DEF Crash
<1>5. CASE Commit(p)
  BY <1>5 DEF Commit, WriteRow, MoveBalance, CreateRow
<1>6. CASE CommitAckLost(p)
  BY <1>6 DEF CommitAckLost, WriteRow
<1>7. CASE ClearCache(p)
  BY <1>7 DEF ClearCache
<1>8. CASE CacheHit(p) \/ CacheMiss(p) \/ QueryTotal(p) \/ FillCache(p)
  BY <1>8 DEF CacheHit, CacheMiss, QueryTotal, FillCache
<1>9. CASE RefreshFails(p)
  BY <1>9 DEF RefreshFails
<1>10. QED
  BY <1>1, <1>2, <1>3, <1>4, <1>5, <1>6, <1>7, <1>8, <1>9 DEF Advance, QueryTimeout

LEMMA AnswerStep ==
  ASSUME TypeOK, TypeOK', AnswerInv, AnswersAreHonest, [Next]_vars
  PROVE  AnswerInv' /\ AnswersAreHonest'
<1>1. ASSUME NEW p \in Procs,
             \/ Start(p) \/ AcquireLock(p) \/ Advance(p)
             \/ CommitAckLost(p) \/ DatabaseError(p) \/ RefreshFails(p) \/ Crash(p)
      PROVE  AnswerInv' /\ AnswersAreHonest'
  <2>1. \A q \in Procs \ {p} :
          pc'[q] = pc[q] /\ op'[q] = op[q] /\ applied'[q] = applied[q] /\ outcome'[q] = outcome[q]
    BY <1>1, OthersAnswers
  <2>2. /\ pc'[p] \in {"connecting"} \cup TxStates => ~applied'[p]
        /\ pc'[p] \in {"clearing"} \cup RefreshStates /\ op'[p].kind \in WriterKinds => applied'[p]
        /\ pc'[p] \in RefreshStates => op'[p].kind \notin {"topup", "create"}
        /\ pc'[p] # "idle" => outcome'[p] = "none"
        /\ outcome'[p] = "success" /\ op'[p].kind \in WriterKinds => applied'[p]
        /\ outcome'[p] = "failed" /\ op'[p].kind \in {"debit", "topup", "create"} => ~applied'[p]
    BY <1>1, OwnAnswer
  <2>3. AnswerInv'
    BY <2>1, <2>2 DEF AnswerInv
  <2>4. AnswersAreHonest'
    BY <2>1, <2>2 DEF AnswersAreHonest
  <2>5. QED
    BY <2>3, <2>4
<1>2. ASSUME \/ \E u \in Users : CacheExpires(u)
             \/ \E t \in TopUps : CompletionErased(t)
             \/ UNCHANGED vars
      PROVE  AnswerInv' /\ AnswersAreHonest'
  <2>1. UNCHANGED <<pc, op, applied, outcome>>
    BY <1>2 DEF CacheExpires, CompletionErased, procVars, vars
  <2>2. QED
    BY <2>1 DEF AnswerInv, AnswersAreHonest
<1>3. QED
  BY <1>1, <1>2 DEF Next

\* A success of a writer has its deposit, and a debit or a top-up that answers failure
\* has moved nothing unless the acknowledgement of its COMMIT was lost.
THEOREM HonestAnswers == Spec => []AnswersAreHonest
<1>1. Init => AnswerInv /\ AnswersAreHonest
  BY DEF Init, AnswerInv, AnswersAreHonest, TxStates, RefreshStates
<1>2. LedgerInv /\ LedgerInv' /\ AnswerInv /\ AnswersAreHonest /\ [Next]_vars
        => AnswerInv' /\ AnswersAreHonest'
  BY AnswerStep DEF LedgerInv
<1>3. QED
  BY <1>1, <1>2, LedgerInvariant, PTL DEF Spec

-----------------------------------------------------------------------------
(* Crypto top-ups: the inductive invariant                                  *)

\* A handler at work knows its payment, and one that goes on to the allocation knows that
\* the money came; what it is going to credit once more has been erased.
HandlerKnows(s) ==
  h[s].pc # "idle" =>
    /\ prov[h[s].pay] # "none"
    /\ h[s].kind \in {"webhook", "monitor", "sync"} /\ h[s].said = "finished" => Paid(h[s].pay)
    /\ h[s].kind = "create" => h[s].pc \in {"list", "save"}
    /\ h[s].kind = "refresh" => h[s].pc \in {"read", "poll", "write"}
    /\ h[s].kind = "manual" => h[s].pc \in {"check", "lock", "mark"}
    /\ h[s].pc \in {"check", "lock", "credit"} /\ h[s].kind # "manual" => h[s].said = "finished"
    /\ h[s].pc = "credit" /\ credit[h[s].pay] # "none" => erased[h[s].pay]

HandlersKnow == \A s \in Slots : HandlerKnows(s)

\* The advisory lock: two allocations under way are for two users.
OneAllocation ==
  \A s, t \in Slots :
    s # t /\ h[s].pc = "credit" /\ h[t].pc = "credit" => Owner[h[s].pay] # Owner[h[t].pay]

\* A notification is about a payment there is, and tells the truth about its money.
NotesTell ==
  \A n \in mail \cup events :
    prov[n.pay] # "none" /\ (n.status = "finished" => Paid(n.pay))

\* A credited row says that it is, unless that was erased, and has its money.
RowTells(p) ==
  /\ row[p] # NoRow \/ child[p] # "none" => prov[p] # "none"
  /\ credit[p] # "none" => prov[p] # "none" /\ (row[p].done \/ erased[p])
  /\ credit[p] = "price" => Paid(p)
  /\ twice[p] => erased[p]

RowsTell == \A p \in Payments : RowTells(p)

TopUpInv == TopUpTypeOK /\ HandlersKnow /\ OneAllocation /\ NotesTell /\ RowsTell

-----------------------------------------------------------------------------
(* What a handler's step does                                               *)

LEMMA IdleIsNone == Idle.pc = "idle" /\ Idle \notin Handler
  BY DEF Idle, Handler, Steps

\* A handler that is not at rest is one.
LEMMA AtWork ==
  ASSUME TopUpTypeOK, NEW s \in Slots, h[s].pc # "idle"
  PROVE  h[s] \in Handler
  BY IdleIsNone DEF TopUpTypeOK

LEMMA NoRowType == NoRow \in Row
  BY DEF NoRow, Row

\* A handler begins: the others rest.
LEMMA BeginDoes ==
  ASSUME TopUpTypeOK, NEW s \in Slots, NEW kind \in HandlerKinds, NEW p \in Payments,
         NEW said \in Statuses, NEW redeposit \in BOOLEAN, NEW at \in Steps,
         Begin(s, kind, p, said, redeposit, at)
  PROVE  /\ h[s].pc = "idle"
         /\ h' \in [Slots -> Handler \cup {Idle}]
         /\ h'[s].pc = at /\ h'[s].kind = kind /\ h'[s].pay = p /\ h'[s].said = said
         /\ \A t \in Slots \ {s} : h'[t] = h[t]
<1> DEFINE r == [kind |-> kind, pay |-> p, said |-> said, redeposit |-> redeposit,
                 seen |-> NoRow, list |-> {}, pc |-> at]
<1>1. r \in Handler
  BY NoRowType DEF Handler
<1>2. h \in [Slots -> Handler \cup {Idle}]
  BY DEF TopUpTypeOK
<1>3. h[s] = Idle /\ h' = [h EXCEPT ![s] = r]
  BY DEF Begin
<1>4. h'[s] = r /\ \A t \in Slots \ {s} : h'[t] = h[t]
  BY <1>2, <1>3
<1>5. h' \in [Slots -> Handler \cup {Idle}]
  <2> HIDE DEF r
  <2> QED
    BY <1>1, <1>2, <1>3
<1>6. QED
  BY <1>3, <1>4, <1>5, IdleIsNone

\* A handler goes on or returns, and a webhook that returns is answered.
LEMMA ProceedDoes ==
  ASSUME TopUpTypeOK, NEW s \in Slots, NEW g \in Handler, NEW to \in Steps \cup {"end"},
         Proceed(s, g, to)
  PROVE  /\ h' \in [Slots -> Handler \cup {Idle}]
         /\ \/ to = "end" /\ h'[s].pc = "idle"
            \/ /\ to # "end" /\ h'[s].pc = to
               /\ h'[s].kind = g.kind /\ h'[s].pay = g.pay /\ h'[s].said = g.said
         /\ mail' \subseteq mail
         /\ \A t \in Slots \ {s} : h'[t] = h[t]
<1>1. h \in [Slots -> Handler \cup {Idle}]
  BY DEF TopUpTypeOK
<1>2. mail' \subseteq mail
  BY DEF Proceed
<1>3. CASE to = "end"
  <2>1. h' = [h EXCEPT ![s] = Idle]
    BY <1>3 DEF Proceed
  <2>2. QED
    BY <1>1, <1>2, <1>3, <2>1, IdleIsNone
<1>4. CASE to # "end"
  <2> DEFINE seen == IF to \in {"poll", "write"} THEN g.seen ELSE NoRow
             r == [g EXCEPT !.pc = to, !.seen = seen]
  <2>1. h' = [h EXCEPT ![s] = r]
    BY <1>4 DEF Proceed
  <2>2. seen \in Row
    BY NoRowType DEF Handler
  <2>3. r \in Handler /\ r.pc = to /\ r.kind = g.kind /\ r.pay = g.pay /\ r.said = g.said
    <3> HIDE DEF seen
    <3> QED
      BY <1>4, <2>2 DEF Handler
  <2>4. QED
    <3> HIDE DEF r
    <3> QED
      BY <1>1, <1>2, <1>4, <2>1, <2>3
<1>5. QED
  BY <1>3, <1>4

LEMMA SpendType ==
  ASSUME used \in [Extras -> Nat], NEW k \in Extras, Spend(k)
  PROVE  used' \in [Extras -> Nat]
  BY DEF Spend

\* The handlers' names, payments and answers are of their kinds.
LEMMA Fields ==
  ASSUME TopUpTypeOK, NEW s \in Slots, h[s].pc # "idle"
  PROVE  /\ h[s] \in Handler /\ h[s].pay \in Payments /\ h[s].kind \in HandlerKinds
         /\ h[s].said \in Statuses /\ h[s].seen \in Row /\ h[s].list \in SUBSET Payments
         /\ h[s].redeposit \in BOOLEAN
  BY AtWork DEF Handler

-----------------------------------------------------------------------------
(* The handlers' steps, as the invariant sees them                          *)

\* A handler goes on about its payment, or returns; the others rest.
GoesOn(s) ==
  /\ h' \in [Slots -> Handler \cup {Idle}]
  /\ mail' \subseteq mail
  /\ \A t \in Slots \ {s} : h'[t] = h[t]
  /\ h'[s].pc # "idle" => h'[s].kind = h[s].kind /\ h'[s].pay = h[s].pay

\* Only the monitor goes on to the list of pending payments.
LEMMA AllocationReturns ==
  ASSUME TopUpTypeOK, NEW s \in Slots, h[s].pc # "idle",
         Proceed(s, h[s], AfterAllocation(h[s]))
  PROVE  /\ GoesOn(s)
         /\ h'[s].pc = "idle" \/ (h'[s].pc = "list" /\ h[s].kind = "monitor" /\ h'[s].said = h[s].said)
<1>1. h[s] \in Handler
  BY AtWork
<1>2. /\ AfterAllocation(h[s]) \in Steps \cup {"end"}
      /\ AfterAllocation(h[s]) = "end" \/ (AfterAllocation(h[s]) = "list" /\ h[s].kind = "monitor")
  BY DEF AfterAllocation, Steps
<1>3. QED
  BY <1>1, <1>2, ProceedDoes DEF GoesOn

LEMMA ReadRowDoes ==
  ASSUME TopUpTypeOK, NEW s \in Slots, ReadRow(s)
  PROVE  /\ GoesOn(s) /\ h[s].pc = "read"
         /\ \/ h'[s].pc = "idle"
            \/ /\ h'[s].said = h[s].said
               /\ \/ h'[s].pc = "poll" /\ h[s].kind = "refresh"
                  \/ h'[s].pc = "list" /\ h[s].kind = "monitor"
                  \/ h'[s].pc = "write"
         /\ UNCHANGED <<row, credit, guard, queue, prov, child, events, used, erased, twice>>
<1> DEFINE p == h[s].pay
           g == [h[s] EXCEPT !.seen = row[p]]
           to == AfterRead(h[s], row[p].status)
<1>1. h[s].pc = "read" /\ Proceed(s, g, to)
  BY DEF ReadRow
<1>2. /\ g \in Handler
      /\ g.kind = h[s].kind /\ g.pay = h[s].pay /\ g.said = h[s].said
  <2>1. h[s] \in Handler /\ row[p] \in Row
    BY <1>1, Fields DEF TopUpTypeOK
  <2>2. QED
    BY <2>1 DEF Handler
<1>3. /\ to \in Steps \cup {"end"}
      /\ to = "end" \/ (to = "poll" /\ h[s].kind = "refresh") \/ (to = "list" /\ h[s].kind = "monitor")
         \/ to = "write"
  BY DEF AfterRead, Steps
<1>4. GoesOn(s)
  <2> HIDE DEF g, to
  <2> QED
    BY <1>1, <1>2, <1>3, ProceedDoes DEF GoesOn
<1>5. h'[s].pc = "idle" \/ (to # "end" /\ h'[s].pc = to /\ h'[s].said = h[s].said)
  <2> HIDE DEF g, to
  <2> QED
    BY <1>1, <1>2, <1>3, ProceedDoes
<1>6. UNCHANGED <<row, credit, guard, queue, prov, child, events, used, erased, twice>>
  BY DEF ReadRow
<1>7. QED
  <2> HIDE DEF to
  <2> QED
    BY <1>1, <1>3, <1>4, <1>5, <1>6

LEMMA PollDoes ==
  ASSUME TopUpTypeOK, NEW s \in Slots, Poll(s), prov[h[s].pay] # "none"
  PROVE  /\ GoesOn(s) /\ h[s].pc = "poll"
         /\ h'[s].pc = "idle" \/ (h'[s].pc = "write" /\ h'[s].said = prov[h[s].pay])
         /\ UNCHANGED <<row, credit, guard, queue, prov, child, events, used, erased, twice>>
<1> DEFINE p == h[s].pay
           g == [h[s] EXCEPT !.said = prov[p]]
           to == IF Regresses(h[s].seen.status, prov[p]) THEN "end" ELSE "write"
<1>1. h[s].pc = "poll" /\ Proceed(s, g, to)
  BY DEF Poll
<1>2. /\ g \in Handler
      /\ g.kind = h[s].kind /\ g.pay = h[s].pay /\ g.said = prov[p]
  <2>1. h[s] \in Handler /\ prov[p] \in Statuses
    BY <1>1, Fields DEF TopUpTypeOK
  <2>2. QED
    BY <2>1 DEF Handler
<1>3. to \in Steps \cup {"end"} /\ to \in {"end", "write"}
  BY DEF Steps
<1>4. GoesOn(s) /\ (h'[s].pc = "idle" \/ (h'[s].pc = to /\ to = "write" /\ h'[s].said = prov[p]))
  <2> HIDE DEF g, to
  <2> QED
    BY <1>1, <1>2, <1>3, ProceedDoes DEF GoesOn
<1>5. QED
  BY <1>1, <1>4 DEF Poll

LEMMA WriteStatusDoes ==
  ASSUME TopUpTypeOK, NEW s \in Slots, WriteStatus(s)
  PROVE  /\ GoesOn(s) /\ h[s].pc = "write"
         /\ \/ h'[s].pc = "idle"
            \/ /\ h'[s].said = h[s].said
               /\ \/ h'[s].pc = "check" /\ h[s].kind # "refresh" /\ h[s].said = "finished"
                  \/ h'[s].pc = "list" /\ h[s].kind = "monitor"
         /\ row' \in [Payments -> Row] /\ erased' \in [Payments -> BOOLEAN]
         /\ \A p \in Payments : /\ p # h[s].pay => row'[p] = row[p]
                                /\ erased[p] => erased'[p]
                                /\ row[p].done => row'[p].done \/ erased'[p]
         /\ UNCHANGED <<credit, guard, queue, prov, child, events, used, twice>>
<1> DEFINE q == h[s].pay
<1>1. h[s].pc = "write" /\ Proceed(s, h[s], AfterWrite(h[s]))
  BY DEF WriteStatus
<1>2. h[s] \in Handler /\ q \in Payments /\ h[s].said \in Statuses /\ h[s].seen \in Row
  BY <1>1, Fields
<1>3. /\ AfterWrite(h[s]) \in Steps \cup {"end"}
      /\ \/ AfterWrite(h[s]) = "end"
         \/ AfterWrite(h[s]) = "check" /\ h[s].kind # "refresh" /\ h[s].said = "finished"
         \/ AfterWrite(h[s]) = "list" /\ h[s].kind = "monitor"
  BY DEF AfterWrite, Steps
<1>4. /\ GoesOn(s)
      /\ \/ h'[s].pc = "idle"
         \/ /\ AfterWrite(h[s]) # "end" /\ h'[s].pc = AfterWrite(h[s])
            /\ h'[s].said = h[s].said
  BY <1>1, <1>2, <1>3, ProceedDoes DEF GoesOn
<1>5. /\ row' = [row EXCEPT ![q] = [status |-> h[s].said, done |-> h[s].seen.done]]
      /\ erased' = [erased EXCEPT ![q] = @ \/ (row[q].done /\ ~h[s].seen.done)]
  BY DEF WriteStatus
<1>6. row' \in [Payments -> Row] /\ erased' \in [Payments -> BOOLEAN]
  <2>1. [status |-> h[s].said, done |-> h[s].seen.done] \in Row
    BY <1>2 DEF Row
  <2>2. QED
    BY <1>2, <1>5, <2>1 DEF TopUpTypeOK
<1>7. ASSUME NEW p \in Payments
      PROVE  /\ p # h[s].pay => row'[p] = row[p]
             /\ erased[p] => erased'[p]
             /\ row[p].done => row'[p].done \/ erased'[p]
  BY <1>2, <1>5 DEF TopUpTypeOK
<1>8. UNCHANGED <<credit, guard, queue, prov, child, events, used, twice>>
  BY DEF WriteStatus
<1>9. QED
  BY <1>1, <1>3, <1>4, <1>6, <1>7, <1>8

LEMMA CheckDuplicateDoes ==
  ASSUME TopUpTypeOK, NEW s \in Slots, CheckDuplicate(s)
  PROVE  /\ GoesOn(s) /\ h[s].pc = "check"
         /\ \/ h'[s].pc = "idle"
            \/ /\ h'[s].said = h[s].said
               /\ h'[s].pc = "lock" \/ (h'[s].pc = "list" /\ h[s].kind = "monitor")
         /\ guard' \in [Payments -> BOOLEAN]
         /\ UNCHANGED <<row, credit, queue, prov, child, events, used, erased, twice>>
<1> DEFINE p == h[s].pay
           inRow == row[p].done /\ credit[p] # "none"
           to == IF guard[p] \/ inRow THEN AfterAllocation(h[s]) ELSE "lock"
<1>1. h[s].pc = "check" /\ Proceed(s, h[s], to)
  BY DEF CheckDuplicate
<1>2. h[s] \in Handler
  BY <1>1, Fields
<1>3. /\ to \in Steps \cup {"end"}
      /\ to = "end" \/ to = "lock" \/ (to = "list" /\ h[s].kind = "monitor")
  BY DEF AfterAllocation, Steps
<1>4. GoesOn(s) /\ (h'[s].pc = "idle" \/ (to # "end" /\ h'[s].pc = to /\ h'[s].said = h[s].said))
  <2> HIDE DEF to
  <2> QED
    BY <1>1, <1>2, <1>3, ProceedDoes DEF GoesOn
<1>5. guard' \in [Payments -> BOOLEAN]
  <2>1. guard' = [guard EXCEPT ![p] = @ \/ inRow]
    BY DEF CheckDuplicate
  <2> HIDE DEF inRow
  <2>2. QED
    BY <2>1 DEF TopUpTypeOK
<1>6. UNCHANGED <<row, credit, queue, prov, child, events, used, erased, twice>>
  BY DEF CheckDuplicate
<1>7. QED
  <2> HIDE DEF to
  <2> QED
    BY <1>1, <1>3, <1>4, <1>5, <1>6

LEMMA TakeLockDoes ==
  ASSUME TopUpTypeOK, NEW s \in Slots, TakeLock(s)
  PROVE  /\ GoesOn(s) /\ h[s].pc = "lock" /\ h[s].kind # "manual" /\ LockFree(h[s].pay)
         /\ \/ h'[s].pc = "idle"
            \/ /\ h'[s].said = h[s].said
               /\ \/ h'[s].pc = "credit" /\ ~row[h[s].pay].done
                  \/ h'[s].pc = "list" /\ h[s].kind = "monitor"
         /\ UNCHANGED <<row, credit, guard, queue, prov, child, events, used, erased, twice>>
<1> DEFINE to == IF row[h[s].pay].done THEN AfterAllocation(h[s]) ELSE "credit"
<1>1. h[s].pc = "lock" /\ Proceed(s, h[s], to)
  BY DEF TakeLock
<1>2. h[s] \in Handler
  BY <1>1, Fields
<1>3. /\ to \in Steps \cup {"end"}
      /\ to = "end" \/ (to = "credit" /\ ~row[h[s].pay].done) \/ (to = "list" /\ h[s].kind = "monitor")
  BY DEF AfterAllocation, Steps
<1>4. GoesOn(s) /\ (h'[s].pc = "idle" \/ (to # "end" /\ h'[s].pc = to /\ h'[s].said = h[s].said))
  <2> HIDE DEF to
  <2> QED
    BY <1>1, <1>2, <1>3, ProceedDoes DEF GoesOn
<1>5. /\ h[s].kind # "manual" /\ LockFree(h[s].pay)
      /\ UNCHANGED <<row, credit, guard, queue, prov, child, events, used, erased, twice>>
  BY DEF TakeLock
<1>6. QED
  <2> HIDE DEF to
  <2> QED
    BY <1>1, <1>3, <1>4, <1>5

\* What an allocation writes.
LEMMA AllocatedDoes ==
  ASSUME TopUpTypeOK, NEW p \in Payments, NEW what \in {"price", "manual"}, Allocated(p, what)
  PROVE  /\ credit' \in [Payments -> {"none", "price", "manual"}]
         /\ twice' \in [Payments -> BOOLEAN]
         /\ credit'[p] = what /\ (twice'[p] => twice[p] \/ credit[p] # "none")
         /\ \A q \in Payments \ {p} : credit'[q] = credit[q] /\ twice'[q] = twice[q]
  BY DEF Allocated, TopUpTypeOK

LEMMA CreditDoes ==
  ASSUME TopUpTypeOK, NEW s \in Slots, Credit(s)
  PROVE  /\ GoesOn(s) /\ h[s].pc = "credit"
         /\ h'[s].pc = "mark" /\ h'[s].said = h[s].said
         /\ Allocated(h[s].pay, "price")
         /\ row' \in [Payments -> Row] /\ row'[h[s].pay].done
         /\ \A p \in Payments \ {h[s].pay} : row'[p] = row[p]
         /\ UNCHANGED <<guard, queue, prov, child, events, used, erased>>
<1> DEFINE q == h[s].pay
<1>1. h[s].pc = "credit" /\ Proceed(s, h[s], "mark")
  BY DEF Credit
<1>2. h[s] \in Handler /\ q \in Payments
  BY <1>1, Fields
<1>3. GoesOn(s) /\ h'[s].pc = "mark" /\ h'[s].said = h[s].said
  BY <1>1, <1>2, ProceedDoes DEF GoesOn, Steps
<1>4. row' = [row EXCEPT ![q].done = TRUE]
  BY DEF Credit
<1>5. row' \in [Payments -> Row] /\ row'[q].done /\ \A p \in Payments \ {q} : row'[p] = row[p]
  <2>0. row[q] \in Row /\ row \in [Payments -> Row]
    BY <1>2 DEF TopUpTypeOK
  <2>1. [row[q] EXCEPT !.done = TRUE] \in Row
    BY <2>0 DEF Row
  <2>2. QED
    BY <1>2, <1>4, <2>0, <2>1 DEF Row
<1>6. QED
  BY <1>1, <1>3, <1>5 DEF Credit

LEMMA CreditByHandDoes ==
  ASSUME TopUpTypeOK, NEW s \in Slots, CreditByHand(s)
  PROVE  /\ GoesOn(s) /\ h[s].pc = "lock" /\ h[s].kind = "manual" /\ LockFree(h[s].pay)
         /\ \/ h'[s].pc = "idle" /\ UNCHANGED <<row, credit, twice>>
            \/ /\ h'[s].pc = "mark" /\ h'[s].said = h[s].said
               /\ ~row[h[s].pay].done
               /\ Allocated(h[s].pay, "manual")
               /\ row' \in [Payments -> Row] /\ row'[h[s].pay].done
               /\ \A p \in Payments \ {h[s].pay} : row'[p] = row[p]
         /\ UNCHANGED <<guard, queue, prov, child, events, used, erased>>
<1> DEFINE q == h[s].pay
<1>1. h[s].pc = "lock" /\ h[s].kind = "manual" /\ LockFree(q)
  BY DEF CreditByHand
<1>2. h[s] \in Handler /\ q \in Payments
  BY <1>1, Fields
<1>3. CASE row[q].done
  <2>1. Proceed(s, h[s], "end") /\ UNCHANGED <<row, credit, twice>>
    BY <1>3 DEF CreditByHand
  <2>2. GoesOn(s) /\ h'[s].pc = "idle"
    BY <1>2, <2>1, ProceedDoes DEF GoesOn
  <2>3. QED
    BY <1>1, <2>1, <2>2 DEF CreditByHand
<1>4. CASE ~row[q].done
  <2>1. /\ Proceed(s, h[s], "mark") /\ Allocated(q, "manual")
        /\ row' = [row EXCEPT ![q] = [status |-> "finished", done |-> TRUE]]
    BY <1>4 DEF CreditByHand
  <2>2. GoesOn(s) /\ h'[s].pc = "mark" /\ h'[s].said = h[s].said
    BY <1>2, <2>1, ProceedDoes DEF GoesOn, Steps
  <2>3. row' \in [Payments -> Row] /\ row'[q].done /\ \A p \in Payments \ {q} : row'[p] = row[p]
    <3>1. [status |-> "finished", done |-> TRUE] \in Row
      BY DEF Row, Statuses, Terminal
    <3>2. QED
      BY <1>2, <2>1, <3>1 DEF TopUpTypeOK
  <2>4. QED
    BY <1>1, <1>4, <2>1, <2>2, <2>3 DEF CreditByHand
<1>5. QED
  BY <1>3, <1>4

LEMMA MarkCompletedDoes ==
  ASSUME TopUpTypeOK, NEW s \in Slots, MarkCompleted(s)
  PROVE  /\ GoesOn(s) /\ h[s].pc = "mark"
         /\ h'[s].pc = "idle" \/ (h'[s].pc = "list" /\ h[s].kind = "monitor" /\ h'[s].said = h[s].said)
         /\ guard' \in [Payments -> BOOLEAN] /\ used' \in [Extras -> Nat]
         /\ UNCHANGED <<row, credit, queue, prov, child, events, erased, twice>>
<1>1. h[s].pc = "mark" /\ Proceed(s, h[s], AfterAllocation(h[s]))
  BY DEF MarkCompleted
<1>2. guard' \in [Payments -> BOOLEAN]
  BY DEF MarkCompleted, TopUpTypeOK
<1>3. used' \in [Extras -> Nat]
  BY SpendType DEF MarkCompleted, TopUpTypeOK, Extras
<1>4. QED
  BY <1>1, <1>2, <1>3, AllocationReturns DEF MarkCompleted

LEMMA ListTypes ==
  ASSUME TopUpTypeOK
  PROVE  Pending \in SUBSET Payments /\ Rebuilt \in [there : BOOLEAN, list : SUBSET Payments]
  BY DEF TopUpTypeOK, Pending, Rebuilt, Unfinished, NoList, List

LEMMA ReadListDoes ==
  ASSUME TopUpTypeOK, NEW s \in Slots, ReadList(s)
  PROVE  /\ GoesOn(s) /\ h[s].pc = "list" /\ h'[s].pc = "save" /\ h'[s].said = h[s].said
         /\ queue' \in [there : BOOLEAN, list : SUBSET Payments] /\ used' \in [Extras -> Nat]
         /\ UNCHANGED <<row, credit, guard, prov, child, events, erased, twice>>
<1>1. h[s].pc = "list"
  BY DEF ReadList
<1>2. h[s] \in Handler
  BY <1>1, Fields
<1>3. PICK l \in SUBSET Payments : Proceed(s, [h[s] EXCEPT !.list = l], "save")
  BY ListTypes DEF ReadList
<1>4. /\ [h[s] EXCEPT !.list = l] \in Handler
      /\ [h[s] EXCEPT !.list = l].kind = h[s].kind /\ [h[s] EXCEPT !.list = l].pay = h[s].pay
      /\ [h[s] EXCEPT !.list = l].said = h[s].said
  BY <1>2 DEF Handler
<1>5. GoesOn(s) /\ h'[s].pc = "save" /\ h'[s].said = h[s].said
  <2> DEFINE g == [h[s] EXCEPT !.list = l]
  <2> HIDE DEF g
  <2>1. g \in Handler /\ g.kind = h[s].kind /\ g.pay = h[s].pay /\ g.said = h[s].said
    BY <1>4 DEF g
  <2>2. Proceed(s, g, "save") /\ "save" \in Steps \cup {"end"}
    BY <1>3 DEF g, Steps
  <2>3. QED
    BY <2>1, <2>2, ProceedDoes DEF GoesOn
<1>6. queue' \in [there : BOOLEAN, list : SUBSET Payments]
  BY ListTypes DEF ReadList, TopUpTypeOK
<1>7. used' \in [Extras -> Nat]
  BY SpendType DEF ReadList, TopUpTypeOK, Extras
<1>8. QED
  BY <1>1, <1>5, <1>6, <1>7 DEF ReadList

LEMMA SaveListDoes ==
  ASSUME TopUpTypeOK, NEW s \in Slots, SaveList(s)
  PROVE  /\ GoesOn(s) /\ h'[s].pc = "idle"
         /\ queue' \in [there : BOOLEAN, list : SUBSET Payments]
         /\ UNCHANGED <<row, credit, guard, prov, child, events, used, erased, twice>>
<1>1. h[s].pc = "save" /\ Proceed(s, h[s], "end")
  BY DEF SaveList
<1>2. h[s] \in Handler /\ h[s].list \in SUBSET Payments /\ h[s].pay \in Payments
  BY <1>1, Fields
<1>3. GoesOn(s) /\ h'[s].pc = "idle"
  BY <1>1, <1>2, ProceedDoes DEF GoesOn
<1>4. queue' \in [there : BOOLEAN, list : SUBSET Payments]
  <2>1. \/ queue' = List(h[s].list \ {h[s].pay})
        \/ queue' = List(h[s].list \cup {h[s].pay})
        \/ queue' = queue
    BY DEF SaveList
  <2>2. \A l \in SUBSET Payments : List(l) \in [there : BOOLEAN, list : SUBSET Payments]
    BY DEF List
  <2>3. QED
    BY <1>2, <2>1, <2>2 DEF TopUpTypeOK
<1>5. QED
  BY <1>3, <1>4 DEF SaveList

\* A handler that dies or whose allocation fails writes nothing.
LEMMA FailureDoes ==
  ASSUME TopUpTypeOK, NEW s \in Slots, Dies(s) \/ AllocationFails(s)
  PROVE  /\ GoesOn(s)
         /\ \/ h'[s].pc = "idle"
            \/ h'[s].pc = "list" /\ h[s].kind = "monitor" /\ h'[s].said = h[s].said
         /\ used' \in [Extras -> Nat]
         /\ UNCHANGED <<row, credit, guard, queue, prov, child, events, erased, twice>>
<1>1. used' \in [Extras -> Nat]
  BY SpendType DEF Dies, AllocationFails, TopUpTypeOK, Extras
<1>2. CASE Dies(s)
  <2>1. h' = [h EXCEPT ![s] = Idle] /\ mail' = mail
    BY <1>2 DEF Dies
  <2>2. GoesOn(s) /\ h'[s].pc = "idle"
    BY <2>1, IdleIsNone DEF GoesOn, TopUpTypeOK
  <2>3. QED
    BY <1>1, <1>2, <2>2 DEF Dies
<1>3. CASE AllocationFails(s)
  BY <1>1, <1>3, AllocationReturns DEF AllocationFails
<1>4. QED
  BY <1>2, <1>3

\* A handler of a kind starts about a payment, with what it was told.
Starts(s, kind, p, said, at) ==
  /\ h[s].pc = "idle"
  /\ h' \in [Slots -> Handler \cup {Idle}]
  /\ h'[s].pc = at /\ h'[s].kind = kind /\ h'[s].pay = p /\ h'[s].said = said
  /\ \A t \in Slots \ {s} : h'[t] = h[t]

LEMMA StartDoes ==
  ASSUME TopUpTypeOK, NEW s \in Slots, NEW p \in Payments
  PROVE  /\ Create(s, p) => Starts(s, "create", p, "waiting", "list")
         /\ Monitor(s, p) => Starts(s, "monitor", p, prov[p], "read")
         /\ Refresh(s, p) => Starts(s, "refresh", p, "waiting", "read")
         /\ Sync(s, p) => Starts(s, "sync", p, "finished", "read")
         /\ Manual(s, p) => Starts(s, "manual", p, "finished", "check")
<1>1. /\ "list" \in Steps /\ "read" \in Steps /\ "check" \in Steps
      /\ "waiting" \in Statuses /\ "finished" \in Statuses
      /\ "create" \in HandlerKinds /\ "monitor" \in HandlerKinds /\ "refresh" \in HandlerKinds
      /\ "sync" \in HandlerKinds /\ "manual" \in HandlerKinds
      /\ prov[p] # "none" => prov[p] \in Statuses
  BY DEF Steps, Statuses, Terminal, NonTerminal, HandlerKinds, TopUpTypeOK
<1>2. ASSUME Create(s, p) PROVE Starts(s, "create", p, "waiting", "list")
  <2>1. PICK r \in BOOLEAN : Begin(s, "create", p, "waiting", r, "list")
    BY <1>2 DEF Create, Begin
  <2>2. QED
    BY <1>1, <2>1, BeginDoes DEF Starts
<1>3. ASSUME Monitor(s, p) PROVE Starts(s, "monitor", p, prov[p], "read")
  <2>1. PICK r \in BOOLEAN : Begin(s, "monitor", p, prov[p], r, "read")
    BY <1>3 DEF Monitor, Begin
  <2>2. prov[p] \in Statuses
    BY <1>1, <1>3 DEF Monitor
  <2>3. QED
    BY <1>1, <2>1, <2>2, BeginDoes DEF Starts
<1>4. ASSUME Refresh(s, p) PROVE Starts(s, "refresh", p, "waiting", "read")
  <2>1. PICK r \in BOOLEAN : Begin(s, "refresh", p, "waiting", r, "read")
    BY <1>4 DEF Refresh, Begin
  <2>2. QED
    BY <1>1, <2>1, BeginDoes DEF Starts
<1>5. ASSUME Sync(s, p) PROVE Starts(s, "sync", p, "finished", "read")
  <2>1. PICK r \in BOOLEAN : Begin(s, "sync", p, "finished", r, "read")
    BY <1>5 DEF Sync, Begin
  <2>2. QED
    BY <1>1, <2>1, BeginDoes DEF Starts
<1>6. ASSUME Manual(s, p) PROVE Starts(s, "manual", p, "finished", "check")
  <2>1. PICK r \in BOOLEAN : Begin(s, "manual", p, "finished", r, "check")
    BY <1>6 DEF Manual, Begin
  <2>2. QED
    BY <1>1, <2>1, BeginDoes DEF Starts
<1>7. QED
  BY <1>2, <1>3, <1>4, <1>5, <1>6

\* A notification starts a webhook, or has been recorded before.
LEMMA DeliverDoes ==
  ASSUME TopUpTypeOK, NEW s \in Slots, NEW n \in Note, Deliver(s, n)
  PROVE  /\ n \in mail /\ mail' \subseteq mail /\ events' \subseteq events \cup {n}
         /\ \/ UNCHANGED h
            \/ Starts(s, "webhook", n.pay, n.status, "read")
         /\ UNCHANGED <<row, credit, guard, queue, prov, child, used, erased, twice>>
<1>1. n.pay \in Payments /\ n.status \in Statuses /\ n.redeposit \in BOOLEAN
  BY DEF Note
<1>2. CASE n \in events
  BY <1>2 DEF Deliver
<1>3. CASE n \notin events
  <2>1. Begin(s, "webhook", n.pay, n.status, n.redeposit, "read") /\ events' = events \cup {n}
        /\ mail' = mail
    BY <1>3 DEF Deliver
  <2>2. "webhook" \in HandlerKinds /\ "read" \in Steps
    BY DEF HandlerKinds, Steps
  <2>3. Starts(s, "webhook", n.pay, n.status, "read")
    BY <1>1, <2>1, <2>2, BeginDoes DEF Starts
  <2>4. QED
    BY <2>1, <2>3 DEF Deliver
<1>4. QED
  BY <1>2, <1>3

-----------------------------------------------------------------------------
\* Type correctness: every step keeps each variable's type.
LEMMA TopUpTypeStep ==
  ASSUME TopUpTypeOK, HandlersKnow, [TopUpNext]_topUpVars
  PROVE  TopUpTypeOK'
<1>a. /\ row \in [Payments -> Row] /\ credit \in [Payments -> {"none", "price", "manual"}]
      /\ guard \in [Payments -> BOOLEAN] /\ queue \in [there : BOOLEAN, list : SUBSET Payments]
      /\ prov \in [Payments -> Statuses \cup {"none"}] /\ child \in [Payments -> {"none", "finished"}]
      /\ mail \subseteq Note /\ events \subseteq Note
      /\ h \in [Slots -> Handler \cup {Idle}] /\ used \in [Extras -> Nat]
      /\ erased \in [Payments -> BOOLEAN] /\ twice \in [Payments -> BOOLEAN]
  BY DEF TopUpTypeOK
<1>b. \A k \in Extras : Spend(k) => used' \in [Extras -> Nat]
  BY <1>a, SpendType
<1>1. ASSUME NEW p \in Payments, ProviderMoves(p) PROVE TopUpTypeOK'
  <2>1. PICK st \in Statuses : /\ prov' = [prov EXCEPT ![p] = st]
                               /\ mail' = mail \cup {[pay |-> p, status |-> st, redeposit |-> FALSE]}
    BY <1>1 DEF ProviderMoves
  <2>2. [pay |-> p, status |-> st, redeposit |-> FALSE] \in Note
    BY DEF Note
  <2>3. mail' \subseteq Note
    BY <1>a, <2>1, <2>2
  <2>4. prov' \in [Payments -> Statuses \cup {"none"}]
    BY <1>a, <2>1
  <2>5. QED
    BY <1>1, <1>a, <2>3, <2>4 DEF ProviderMoves, TopUpTypeOK
<1>2. ASSUME NEW p \in Payments, Redeposit(p) PROVE TopUpTypeOK'
  <2>1. "finished" \in Statuses
    BY DEF Statuses, Terminal
  <2>2. [pay |-> p, status |-> "finished", redeposit |-> TRUE] \in Note
    BY <2>1 DEF Note
  <2>3. mail' \subseteq Note
    BY <1>2, <1>a, <2>2 DEF Redeposit
  <2>4. child' \in [Payments -> {"none", "finished"}]
    BY <1>2, <1>a DEF Redeposit
  <2>5. QED
    BY <1>2, <1>a, <2>3, <2>4 DEF Redeposit, TopUpTypeOK
<1>3. ASSUME NEW p \in Payments, GuardExpires(p) PROVE TopUpTypeOK'
  BY <1>3, <1>a DEF GuardExpires, TopUpTypeOK
<1>4. ASSUME NEW s \in Slots, NEW p \in Payments, Create(s, p) PROVE TopUpTypeOK'
  <2>1. "waiting" \in Statuses /\ [status |-> "waiting", done |-> FALSE] \in Row
    BY DEF Statuses, NonTerminal, Row
  <2>2. h' \in [Slots -> Handler \cup {Idle}]
    BY <1>4, StartDoes DEF Starts
  <2>3. prov' \in [Payments -> Statuses \cup {"none"}] /\ row' \in [Payments -> Row]
    BY <1>4, <1>a, <2>1 DEF Create
  <2>4. QED
    BY <1>4, <1>a, <2>2, <2>3 DEF Create, TopUpTypeOK
<1>5. ASSUME NEW s \in Slots, NEW p \in Payments,
             Monitor(s, p) \/ Refresh(s, p) \/ Sync(s, p) \/ Manual(s, p)
      PROVE  TopUpTypeOK'
  <2>1. h' \in [Slots -> Handler \cup {Idle}]
    BY <1>5, StartDoes DEF Starts
  <2>2. used' \in [Extras -> Nat] /\ queue' \in [there : BOOLEAN, list : SUBSET Payments]
    BY <1>5, <1>a, <1>b, ListTypes DEF Monitor, Refresh, Sync, Manual, Extras
  <2>3. UNCHANGED <<row, credit, guard, prov, child, mail, events, erased, twice>>
    BY <1>5 DEF Monitor, Refresh, Sync, Manual
  <2>4. QED
    BY <1>a, <2>1, <2>2, <2>3 DEF TopUpTypeOK
<1>6. ASSUME NEW s \in Slots, NEW n \in Note, Deliver(s, n) PROVE TopUpTypeOK'
  <2>1. h' \in [Slots -> Handler \cup {Idle}]
    BY <1>6, <1>a, DeliverDoes DEF Starts
  <2>2. mail' \subseteq Note /\ events' \subseteq Note
    BY <1>6, <1>a, DeliverDoes
  <2>3. UNCHANGED <<row, credit, guard, queue, prov, child, used, erased, twice>>
    BY <1>6, DeliverDoes
  <2>4. QED
    BY <1>a, <2>1, <2>2, <2>3 DEF TopUpTypeOK
<1>7. ASSUME NEW n \in Note, RecordFails(n) PROVE TopUpTypeOK'
  <2>1. used' \in [Extras -> Nat]
    BY <1>7, <1>b DEF RecordFails, Extras
  <2>2. QED
    BY <1>7, <1>a, <2>1 DEF RecordFails, TopUpTypeOK
<1>8. CASE ListExpires
  BY <1>8, <1>a DEF ListExpires, NoList, TopUpTypeOK
<1>9. CASE UNCHANGED topUpVars
  BY <1>9, <1>a DEF topUpVars, TopUpTypeOK
<1>10. ASSUME NEW s \in Slots, Step(s) \/ Dies(s) \/ AllocationFails(s) PROVE TopUpTypeOK'
  <2> DEFINE HandlersMove == h' \in [Slots -> Handler \cup {Idle}] /\ mail' \subseteq Note
  <2>a. ASSUME GoesOn(s) PROVE HandlersMove
    BY <1>a, <2>a DEF GoesOn
  <2>1. CASE ReadRow(s)
    BY <2>1, <2>a, <1>a, ReadRowDoes DEF TopUpTypeOK
  <2>2. CASE Poll(s)
    <3>1. prov[h[s].pay] # "none"
      BY <2>2 DEF Poll, HandlersKnow, HandlerKnows
    <3>2. QED
      BY <2>2, <2>a, <1>a, <3>1, PollDoes DEF TopUpTypeOK
  <2>3. CASE WriteStatus(s)
    BY <2>3, <2>a, <1>a, WriteStatusDoes DEF TopUpTypeOK
  <2>4. CASE CheckDuplicate(s)
    BY <2>4, <2>a, <1>a, CheckDuplicateDoes DEF TopUpTypeOK
  <2>5. CASE TakeLock(s)
    BY <2>5, <2>a, <1>a, TakeLockDoes DEF TopUpTypeOK
  <2>6. CASE Credit(s)
    <3>1. h[s].pay \in Payments
      BY <2>6, Fields DEF Credit
    <3>2. QED
      BY <2>6, <2>a, <1>a, <3>1, CreditDoes, AllocatedDoes DEF TopUpTypeOK
  <2>7. CASE CreditByHand(s)
    <3>1. h[s].pay \in Payments
      BY <2>7, Fields DEF CreditByHand
    <3>2. /\ credit' \in [Payments -> {"none", "price", "manual"}] /\ twice' \in [Payments -> BOOLEAN]
          /\ row' \in [Payments -> Row]
      BY <2>7, <1>a, <3>1, CreditByHandDoes, AllocatedDoes
    <3>3. HandlersMove /\ UNCHANGED <<guard, queue, prov, child, events, used, erased>>
      BY <2>7, <2>a, CreditByHandDoes
    <3>4. QED
      BY <1>a, <3>2, <3>3 DEF TopUpTypeOK
  <2>8. CASE MarkCompleted(s)
    BY <2>8, <2>a, <1>a, MarkCompletedDoes DEF TopUpTypeOK
  <2>9. CASE ReadList(s)
    BY <2>9, <2>a, <1>a, ReadListDoes DEF TopUpTypeOK
  <2>10. CASE SaveList(s)
    BY <2>10, <2>a, <1>a, SaveListDoes DEF TopUpTypeOK
  <2>11. CASE Dies(s) \/ AllocationFails(s)
    BY <2>11, <2>a, <1>a, FailureDoes DEF TopUpTypeOK
  <2>12. QED
    BY <1>10, <2>1, <2>2, <2>3, <2>4, <2>5, <2>6, <2>7, <2>8, <2>9, <2>10, <2>11 DEF Step
<1>11. QED
  BY <1>1, <1>2, <1>3, <1>4, <1>5, <1>6, <1>7, <1>8, <1>9, <1>10 DEF TopUpNext

-----------------------------------------------------------------------------
(* The invariant                                                            *)

\* What has come stays: the payment, its money, and the mark of a stale write.
MoneyKept ==
  \A p \in Payments : /\ Paid(p) => Paid(p)'
                      /\ prov[p] # "none" => prov'[p] # "none"
                      /\ erased[p] => erased'[p]

LEMMA PollKnows ==
  ASSUME TopUpTypeOK, HandlersKnow, NEW s \in Slots, Poll(s)
  PROVE  prov[h[s].pay] # "none"
  BY DEF Poll, HandlersKnow, HandlerKnows

\* No handler moves the provider or records a notification once it runs.
LEMMA StepFrame ==
  ASSUME TopUpInv, NEW s \in Slots, Step(s) \/ Dies(s) \/ AllocationFails(s)
  PROVE  /\ GoesOn(s) /\ h[s].pc # "idle" /\ UNCHANGED <<prov, child, events>>
         /\ MoneyKept
<1>a. TopUpTypeOK /\ HandlersKnow
  BY DEF TopUpInv
<1>b. (\A p \in Payments : erased[p] => erased'[p]) /\ UNCHANGED <<prov, child>> => MoneyKept
  BY DEF MoneyKept, Paid
<1>1. CASE ReadRow(s)
  BY <1>1, <1>a, <1>b, ReadRowDoes
<1>2. CASE Poll(s)
  BY <1>2, <1>a, <1>b, PollDoes, PollKnows
<1>3. CASE WriteStatus(s)
  BY <1>3, <1>a, <1>b, WriteStatusDoes
<1>4. CASE CheckDuplicate(s)
  BY <1>4, <1>a, <1>b, CheckDuplicateDoes
<1>5. CASE TakeLock(s)
  BY <1>5, <1>a, <1>b, TakeLockDoes
<1>6. CASE Credit(s)
  BY <1>6, <1>a, <1>b, CreditDoes
<1>7. CASE CreditByHand(s)
  BY <1>7, <1>a, <1>b, CreditByHandDoes
<1>8. CASE MarkCompleted(s)
  BY <1>8, <1>a, <1>b, MarkCompletedDoes
<1>9. CASE ReadList(s)
  BY <1>9, <1>a, <1>b, ReadListDoes
<1>10. CASE SaveList(s)
  <2>1. h[s].pc # "idle"
    BY <1>10 DEF SaveList
  <2>2. QED
    BY <1>10, <1>a, <1>b, <2>1, SaveListDoes
<1>11. CASE Dies(s) \/ AllocationFails(s)
  <2>1. h[s].pc # "idle"
    BY <1>11, <1>a, IdleIsNone DEF Dies, AllocationFails, TopUpTypeOK, Handler, Steps
  <2>2. QED
    BY <1>11, <1>a, <1>b, <2>1, FailureDoes
<1>12. QED
  BY <1>1, <1>2, <1>3, <1>4, <1>5, <1>6, <1>7, <1>8, <1>9, <1>10, <1>11 DEF Step

\* Neither does one that starts, but for the new payment of createPayment.
LEMMA StartFrame ==
  ASSUME TopUpInv, NEW s \in Slots, NEW p \in Payments,
         Create(s, p) \/ Monitor(s, p) \/ Refresh(s, p) \/ Sync(s, p) \/ Manual(s, p)
  PROVE  /\ MoneyKept
         /\ UNCHANGED <<credit, child, mail, events, erased, twice>>
<1>a. TopUpTypeOK
  BY DEF TopUpInv
<1>1. UNCHANGED <<credit, child, mail, events, erased, twice>>
  BY DEF Create, Monitor, Refresh, Sync, Manual
<1>2. CASE Create(s, p)
  <2>1. prov[p] = "none" /\ prov' = [prov EXCEPT ![p] = "waiting"] /\ prov \in [Payments -> Statuses \cup {"none"}]
    BY <1>a, <1>2 DEF Create, TopUpTypeOK
  <2>2. \A q \in Payments : /\ prov[q] # "none" => prov'[q] = prov[q]
                            /\ prov[q] \in {"finished", "refunded"} => prov'[q] = prov[q]
    BY <2>1
  <2>3. QED
    BY <1>1, <2>2 DEF MoneyKept, Paid
<1>3. CASE Monitor(s, p) \/ Refresh(s, p) \/ Sync(s, p) \/ Manual(s, p)
  <2>1. UNCHANGED prov
    BY <1>3 DEF Monitor, Refresh, Sync, Manual
  <2>2. QED
    BY <1>1, <2>1 DEF MoneyKept, Paid
<1>4. QED
  BY <1>2, <1>3

LEMMA ProviderFrame ==
  ASSUME TopUpTypeOK, NEW p \in Payments, ProviderMoves(p)
  PROVE  /\ MoneyKept /\ prov[p] # "none"
         /\ \E st \in Statuses :
              /\ prov'[p] = st
              /\ mail' = mail \cup {[pay |-> p, status |-> st, redeposit |-> FALSE]}
<1>1. PICK st \in Statuses : /\ <<prov[p], st>> \in Moves
                             /\ prov' = [prov EXCEPT ![p] = st]
                             /\ mail' = mail \cup {[pay |-> p, status |-> st, redeposit |-> FALSE]}
  BY DEF ProviderMoves
<1>2. child' = child /\ erased' = erased /\ prov \in [Payments -> Statuses \cup {"none"}]
  BY DEF ProviderMoves, TopUpTypeOK
<1>3. /\ prov[p] # "none" /\ st # "none" /\ (prov[p] \in {"finished", "refunded"} => st = "refunded")
  BY <1>1 DEF Moves
<1>4. prov'[p] = st /\ \A q \in Payments \ {p} : prov'[q] = prov[q]
  BY <1>1, <1>2
<1>5. \A q \in Payments : /\ prov[q] # "none" => prov'[q] # "none"
                          /\ prov[q] \in {"finished", "refunded"} => prov'[q] \in {"finished", "refunded"}
  BY <1>3, <1>4
<1>6. MoneyKept
  BY <1>2, <1>5 DEF MoneyKept, Paid
<1>7. QED
  BY <1>1, <1>3, <1>4, <1>6

LEMMA RedepositFrame ==
  ASSUME TopUpTypeOK, NEW p \in Payments, Redeposit(p)
  PROVE  /\ MoneyKept /\ prov[p] = "expired" /\ child'[p] = "finished"
         /\ \A q \in Payments \ {p} : child'[q] = child[q]
         /\ mail' = mail \cup {[pay |-> p, status |-> "finished", redeposit |-> TRUE]}
<1>1. /\ prov[p] = "expired" /\ child[p] = "none" /\ child' = [child EXCEPT ![p] = "finished"]
      /\ mail' = mail \cup {[pay |-> p, status |-> "finished", redeposit |-> TRUE]}
      /\ prov' = prov /\ erased' = erased /\ child \in [Payments -> {"none", "finished"}]
  BY DEF Redeposit, TopUpTypeOK
<1>2. child'[p] = "finished" /\ \A q \in Payments \ {p} : child'[q] = child[q]
  BY <1>1
<1>3. MoneyKept
  BY <1>1, <1>2 DEF MoneyKept, Paid
<1>4. QED
  BY <1>1, <1>2, <1>3

LEMMA MoneyStays ==
  ASSUME TopUpInv, [TopUpNext]_topUpVars
  PROVE  MoneyKept
<1>a. TopUpTypeOK
  BY DEF TopUpInv
<1>1. UNCHANGED <<prov, child, erased>> => MoneyKept
  BY DEF MoneyKept, Paid
<1>2. ASSUME NEW p \in Payments, ProviderMoves(p) \/ Redeposit(p) PROVE MoneyKept
  BY <1>a, <1>2, ProviderFrame, RedepositFrame
<1>3. ASSUME NEW p \in Payments, GuardExpires(p) PROVE MoneyKept
  BY <1>1, <1>3 DEF GuardExpires
<1>4. ASSUME NEW s \in Slots, NEW p \in Payments,
             Create(s, p) \/ Monitor(s, p) \/ Refresh(s, p) \/ Sync(s, p) \/ Manual(s, p)
      PROVE  MoneyKept
  BY <1>4, StartFrame
<1>5. ASSUME NEW s \in Slots, NEW n \in Note, Deliver(s, n) PROVE MoneyKept
  BY <1>1, <1>5 DEF Deliver
<1>6. ASSUME NEW n \in Note, RecordFails(n) PROVE MoneyKept
  BY <1>1, <1>6 DEF RecordFails
<1>7. ASSUME NEW s \in Slots, Step(s) \/ Dies(s) \/ AllocationFails(s) PROVE MoneyKept
  BY <1>7, StepFrame
<1>8. CASE ListExpires
  BY <1>1, <1>8 DEF ListExpires
<1>9. CASE UNCHANGED topUpVars
  BY <1>1, <1>9 DEF topUpVars
<1>10. QED
  BY <1>2, <1>3, <1>4, <1>5, <1>6, <1>7, <1>8, <1>9 DEF TopUpNext

-----------------------------------------------------------------------------
\* Only an allocation under its owner's lock changes what a payment was credited.
LEMMA OthersAreNotCredited ==
  ASSUME TopUpInv, NEW s \in Slots, Step(s) \/ Dies(s) \/ AllocationFails(s),
         NEW t \in Slots \ {s}, h[t].pc = "credit"
  PROVE  credit'[h[t].pay] = credit[h[t].pay]
<1>a. TopUpTypeOK /\ OneAllocation /\ HandlersKnow
  BY DEF TopUpInv
<1>b. h[t].pay \in Payments
  BY <1>a, Fields
<1>c. credit' = credit => credit'[h[t].pay] = credit[h[t].pay]
  OBVIOUS
<1>1. CASE Credit(s)
  <2>1. h[s].pc = "credit" /\ Allocated(h[s].pay, "price")
    BY <1>a, <1>1, CreditDoes
  <2>2. Owner[h[s].pay] # Owner[h[t].pay] /\ h[s].pay \in Payments
    BY <1>a, <2>1, Fields DEF OneAllocation
  <2>3. QED
    BY <1>a, <1>b, <2>1, <2>2, AllocatedDoes
<1>2. CASE CreditByHand(s)
  <2>1. h[s].pc = "lock" /\ LockFree(h[s].pay) /\ (credit' = credit \/ Allocated(h[s].pay, "manual"))
    BY <1>a, <1>2, CreditByHandDoes
  <2>2. Owner[h[s].pay] # Owner[h[t].pay] /\ h[s].pay \in Payments
    BY <1>a, <2>1, Fields DEF LockFree
  <2>3. QED
    BY <1>a, <1>b, <2>1, <2>2, AllocatedDoes
<1>3. CASE ReadRow(s) \/ Poll(s) \/ WriteStatus(s) \/ CheckDuplicate(s) \/ TakeLock(s) \/ MarkCompleted(s)
  BY <1>3, <1>c DEF ReadRow, Poll, WriteStatus, CheckDuplicate, TakeLock, MarkCompleted
<1>4. CASE ReadList(s) \/ SaveList(s) \/ Dies(s) \/ AllocationFails(s)
  BY <1>4, <1>c DEF ReadList, SaveList, Dies, AllocationFails
<1>5. QED
  BY <1>1, <1>2, <1>3, <1>4 DEF Step

\* What the other handlers know stays true.
LEMMA OthersKnow ==
  ASSUME TopUpInv, [TopUpNext]_topUpVars, NEW t \in Slots, h'[t] = h[t],
         h[t].pc = "credit" => credit'[h[t].pay] = credit[h[t].pay]
  PROVE  HandlerKnows(t)'
<1>1. CASE h[t].pc = "idle"
  BY <1>1 DEF HandlerKnows
<1>2. CASE h[t].pc # "idle"
  <2>0. PICK q \in Payments : q = h[t].pay
    BY <1>2, Fields DEF TopUpInv
  <2>1. HandlerKnows(t)
    BY DEF TopUpInv, HandlersKnow
  <2>2. /\ prov'[q] # "none"
        /\ Paid(q) => Paid(q)'
        /\ erased[q] => erased'[q]
    BY <1>2, <2>0, <2>1, MoneyStays DEF MoneyKept, HandlerKnows
  <2>3. h[t].kind \in {"webhook", "monitor", "sync"} /\ h[t].said = "finished" => Paid(q)'
    BY <1>2, <2>0, <2>1, <2>2 DEF HandlerKnows
  <2>4. h[t].kind \in {"webhook", "monitor", "sync"} /\ h[t].said = "finished" => Paid(h[t].pay)'
    BY <2>0, <2>3 DEF Paid
  <2>5. QED
    BY <1>2, <2>0, <2>1, <2>2, <2>4 DEF HandlerKnows
<1>3. QED
  BY <1>1, <1>2

\* A handler that starts knows what it was started for.
LEMMA StarterKnows ==
  ASSUME NEW s \in Slots, NEW kind \in HandlerKinds, NEW p \in Payments, NEW said, NEW at,
         Starts(s, kind, p, said, at), prov'[p] # "none", at # "idle",
         kind \in {"webhook", "monitor", "sync"} /\ said = "finished" => Paid(p)',
         \/ kind = "create" /\ at = "list"
         \/ kind \in {"webhook", "monitor", "sync", "refresh"} /\ at = "read"
         \/ kind = "manual" /\ at = "check"
  PROVE  HandlerKnows(s)'
<1>1. h'[s].pc = at /\ h'[s].kind = kind /\ h'[s].pay = p /\ h'[s].said = said
  BY DEF Starts
<1>2. h'[s].kind \in {"webhook", "monitor", "sync"} /\ h'[s].said = "finished" => Paid(h[s].pay)'
  BY <1>1 DEF Paid
<1>3. QED
  BY <1>1, <1>2 DEF HandlerKnows

\* A handler at work goes on with what it knows.
LEMMA WorkerKnows ==
  ASSUME TopUpInv, NEW s \in Slots, Step(s) \/ Dies(s) \/ AllocationFails(s)
  PROVE  HandlerKnows(s)'
<1>a. /\ TopUpTypeOK /\ HandlersKnow /\ HandlerKnows(s) /\ RowsTell
      /\ h[s].pc # "idle" /\ h[s].pay \in Payments /\ h[s].kind \in HandlerKinds
  BY StepFrame, Fields DEF TopUpInv, HandlersKnow
<1>b. /\ UNCHANGED <<prov, child>> /\ GoesOn(s) /\ prov[h[s].pay] # "none"
  BY <1>a, StepFrame DEF HandlerKnows
<1>c. h'[s].pc # "idle" => h'[s].kind = h[s].kind /\ h'[s].pay = h[s].pay
  BY <1>b DEF GoesOn
<1>d. ASSUME h'[s].pc # "idle",
             h'[s].said = h[s].said \/ h'[s].said = prov[h[s].pay]
      PROVE  h'[s].kind \in {"webhook", "monitor", "sync"} /\ h'[s].said = "finished" => Paid(h[s].pay)'
  <2>1. h[s].kind \in {"webhook", "monitor", "sync"} /\ h'[s].said = "finished" => Paid(h[s].pay)
    BY <1>a, <1>d DEF HandlerKnows, Paid
  <2>2. QED
    BY <1>b, <1>c, <1>d, <2>1 DEF Paid
<1>e. ASSUME h'[s].pc # "idle",
             h'[s].said = h[s].said \/ h'[s].said = prov[h[s].pay],
             h[s].kind = "create" => h'[s].pc \in {"list", "save"},
             h[s].kind = "refresh" => h'[s].pc \in {"read", "poll", "write"},
             h[s].kind = "manual" => h'[s].pc \in {"check", "lock", "mark"},
             h'[s].pc \in {"check", "lock", "credit"} /\ h[s].kind # "manual" => h'[s].said = "finished",
             h'[s].pc = "credit" /\ credit'[h[s].pay] # "none" => erased'[h[s].pay]
      PROVE  HandlerKnows(s)'
  BY <1>b, <1>c, <1>d, <1>e DEF HandlerKnows
<1>f. h'[s].pc = "idle" => HandlerKnows(s)'
  BY DEF HandlerKnows
<1>1. CASE ReadRow(s)
  BY <1>1, <1>a, <1>e, <1>f, ReadRowDoes DEF HandlerKnows
<1>2. CASE Poll(s)
  BY <1>2, <1>a, <1>e, <1>f, PollDoes, PollKnows DEF HandlerKnows
<1>3. CASE WriteStatus(s)
  BY <1>3, <1>a, <1>e, <1>f, WriteStatusDoes DEF HandlerKnows
<1>4. CASE CheckDuplicate(s)
  BY <1>4, <1>a, <1>e, <1>f, CheckDuplicateDoes DEF HandlerKnows
<1>5. CASE TakeLock(s)
  <2>1. ~row[h[s].pay].done /\ credit[h[s].pay] # "none" => erased[h[s].pay]
    BY <1>a DEF RowsTell, RowTells
  <2>2. QED
    BY <1>5, <1>a, <1>e, <1>f, <2>1, TakeLockDoes DEF HandlerKnows
<1>6. CASE Credit(s)
  BY <1>6, <1>a, <1>e, <1>f, CreditDoes DEF HandlerKnows
<1>7. CASE CreditByHand(s)
  BY <1>7, <1>a, <1>e, <1>f, CreditByHandDoes DEF HandlerKnows
<1>8. CASE MarkCompleted(s)
  BY <1>8, <1>a, <1>e, <1>f, MarkCompletedDoes DEF HandlerKnows
<1>9. CASE ReadList(s)
  BY <1>9, <1>a, <1>e, <1>f, ReadListDoes DEF HandlerKnows
<1>10. CASE SaveList(s)
  BY <1>10, <1>a, <1>f, SaveListDoes
<1>11. CASE Dies(s) \/ AllocationFails(s)
  BY <1>11, <1>a, <1>e, <1>f, FailureDoes DEF HandlerKnows
<1>12. QED
  BY <1>1, <1>2, <1>3, <1>4, <1>5, <1>6, <1>7, <1>8, <1>9, <1>10, <1>11 DEF Step

LEMMA HandlersStep ==
  ASSUME TopUpInv, [TopUpNext]_topUpVars
  PROVE  HandlersKnow'
<1>a. TopUpTypeOK /\ HandlersKnow /\ NotesTell /\ RowsTell
  BY DEF TopUpInv
<1>1. ASSUME UNCHANGED <<h, credit>> PROVE HandlersKnow'
  BY <1>1, OthersKnow DEF HandlersKnow
<1>2. ASSUME NEW p \in Payments, ProviderMoves(p) \/ Redeposit(p) \/ GuardExpires(p) PROVE HandlersKnow'
  BY <1>1, <1>2 DEF ProviderMoves, Redeposit, GuardExpires
<1>3. ASSUME NEW s \in Slots, NEW p \in Payments,
             Create(s, p) \/ Monitor(s, p) \/ Refresh(s, p) \/ Sync(s, p) \/ Manual(s, p)
      PROVE  HandlersKnow'
  <2>1. credit' = credit /\ child' = child /\ MoneyKept
    BY <1>3, StartFrame
  <2>2. \A t \in Slots \ {s} : h'[t] = h[t]
    BY <1>a, <1>3, StartDoes DEF Starts
  <2>3. HandlerKnows(s)'
    <3>0. RowTells(p)
      BY <1>a DEF RowsTell
    <3>k. /\ "create" \in HandlerKinds /\ "monitor" \in HandlerKinds /\ "refresh" \in HandlerKinds
          /\ "sync" \in HandlerKinds /\ "manual" \in HandlerKinds
      BY DEF HandlerKinds
    <3>1. ASSUME Create(s, p) PROVE HandlerKnows(s)'
      <4>1. prov'[p] = "waiting"
        BY <1>a, <3>1 DEF Create, TopUpTypeOK
      <4>2. QED
        BY <1>a, <3>1, <3>k, <4>1, StartDoes, StarterKnows
    <3>2. ASSUME Monitor(s, p) PROVE HandlerKnows(s)'
      <4>1. prov' = prov /\ prov[p] # "none" /\ (prov[p] = "finished" => Paid(p)')
        BY <3>2, <2>1 DEF Monitor, Paid
      <4>2. QED
        BY <1>a, <3>2, <3>k, <4>1, StartDoes, StarterKnows
    <3>3. ASSUME Refresh(s, p) PROVE HandlerKnows(s)'
      <4>1. prov' = prov /\ prov[p] # "none"
        BY <3>0, <3>3 DEF Refresh, RowTells
      <4>2. QED
        BY <1>a, <3>3, <3>k, <4>1, StartDoes, StarterKnows
    <3>4. ASSUME Sync(s, p) PROVE HandlerKnows(s)'
      <4>1. prov' = prov /\ prov[p] # "none" /\ Paid(p)'
        BY <3>0, <3>4, <2>1 DEF Sync, RowTells, Paid
      <4>2. QED
        BY <1>a, <3>4, <3>k, <4>1, StartDoes, StarterKnows
    <3>5. ASSUME Manual(s, p) PROVE HandlerKnows(s)'
      <4>1. prov' = prov /\ prov[p] # "none"
        BY <3>0, <3>5 DEF Manual, RowTells
      <4>2. QED
        BY <1>a, <3>5, <3>k, <4>1, StartDoes, StarterKnows
    <3>6. QED
      BY <1>3, <3>1, <3>2, <3>3, <3>4, <3>5
  <2>4. QED
    BY <2>1, <2>2, <2>3, OthersKnow DEF HandlersKnow
<1>4. ASSUME NEW s \in Slots, NEW n \in Note, Deliver(s, n) PROVE HandlersKnow'
  <2>1. /\ n \in mail /\ UNCHANGED <<credit, prov, child>>
        /\ UNCHANGED h \/ Starts(s, "webhook", n.pay, n.status, "read")
    BY <1>a, <1>4, DeliverDoes
  <2>2. CASE UNCHANGED h
    BY <1>1, <2>1, <2>2
  <2>3. CASE Starts(s, "webhook", n.pay, n.status, "read")
    <3>1. prov[n.pay] # "none" /\ (n.status = "finished" => Paid(n.pay)) /\ n.pay \in Payments
      BY <1>a, <2>1 DEF NotesTell, Note
    <3>2. prov'[n.pay] # "none" /\ (n.status = "finished" => Paid(n.pay)')
      BY <2>1, <3>1 DEF Paid
    <3>3. HandlerKnows(s)'
      BY <2>3, <3>1, <3>2, StarterKnows DEF HandlerKinds
    <3>4. \A t \in Slots \ {s} : h'[t] = h[t]
      BY <2>3 DEF Starts
    <3>5. QED
      BY <2>1, <3>3, <3>4, OthersKnow DEF HandlersKnow
  <2>4. QED
    BY <2>1, <2>2, <2>3
<1>5. ASSUME NEW n \in Note, RecordFails(n) PROVE HandlersKnow'
  BY <1>1, <1>5 DEF RecordFails
<1>6. ASSUME NEW s \in Slots, Step(s) \/ Dies(s) \/ AllocationFails(s) PROVE HandlersKnow'
  <2>1. \A t \in Slots \ {s} : h'[t] = h[t]
    BY <1>6, StepFrame DEF GoesOn
  <2>2. \A t \in Slots \ {s} : HandlerKnows(t)'
    BY <1>6, <2>1, OthersKnow, OthersAreNotCredited
  <2>3. QED
    BY <1>6, <2>2, WorkerKnows DEF HandlersKnow
<1>7. CASE ListExpires
  BY <1>1, <1>7 DEF ListExpires
<1>8. CASE UNCHANGED topUpVars
  BY <1>1, <1>8 DEF topUpVars
<1>9. QED
  BY <1>2, <1>3, <1>4, <1>5, <1>6, <1>7, <1>8 DEF TopUpNext

-----------------------------------------------------------------------------
\* A handler comes to the allocation under the lock of its payment's owner.
LEMMA LockIsTaken ==
  ASSUME TopUpInv, NEW s \in Slots, Step(s) \/ Dies(s) \/ AllocationFails(s), h'[s].pc = "credit"
  PROVE  LockFree(h[s].pay) /\ h'[s].pay = h[s].pay
<1>a. TopUpTypeOK /\ HandlersKnow
  BY DEF TopUpInv
<1>1. CASE TakeLock(s)
  BY <1>1, <1>a, TakeLockDoes DEF GoesOn
<1>2. CASE ReadRow(s)
  BY <1>2, <1>a, ReadRowDoes
<1>3. CASE Poll(s)
  BY <1>3, <1>a, PollDoes, PollKnows
<1>4. CASE WriteStatus(s)
  BY <1>4, <1>a, WriteStatusDoes
<1>5. CASE CheckDuplicate(s)
  BY <1>5, <1>a, CheckDuplicateDoes
<1>6. CASE Credit(s)
  BY <1>6, <1>a, CreditDoes
<1>7. CASE CreditByHand(s)
  BY <1>7, <1>a, CreditByHandDoes
<1>8. CASE MarkCompleted(s)
  BY <1>8, <1>a, MarkCompletedDoes
<1>9. CASE ReadList(s)
  BY <1>9, <1>a, ReadListDoes
<1>10. CASE SaveList(s)
  BY <1>10, <1>a, SaveListDoes
<1>11. CASE Dies(s) \/ AllocationFails(s)
  BY <1>11, <1>a, FailureDoes
<1>12. QED
  BY <1>1, <1>2, <1>3, <1>4, <1>5, <1>6, <1>7, <1>8, <1>9, <1>10, <1>11 DEF Step

LEMMA AllocationStep ==
  ASSUME TopUpInv, [TopUpNext]_topUpVars
  PROVE  OneAllocation'
<1>a. TopUpTypeOK /\ OneAllocation
  BY DEF TopUpInv
<1>1. ASSUME UNCHANGED h PROVE OneAllocation'
  BY <1>a, <1>1 DEF OneAllocation
<1>2. ASSUME NEW s \in Slots, \A t \in Slots \ {s} : h'[t] = h[t], h'[s].pc # "credit"
      PROVE  OneAllocation'
  BY <1>a, <1>2 DEF OneAllocation
<1>3. ASSUME NEW p \in Payments, ProviderMoves(p) \/ Redeposit(p) \/ GuardExpires(p) PROVE OneAllocation'
  BY <1>1, <1>3 DEF ProviderMoves, Redeposit, GuardExpires
<1>4. ASSUME NEW s \in Slots, NEW p \in Payments,
             Create(s, p) \/ Monitor(s, p) \/ Refresh(s, p) \/ Sync(s, p) \/ Manual(s, p)
      PROVE  OneAllocation'
  BY <1>a, <1>2, <1>4, StartDoes DEF Starts
<1>5. ASSUME NEW s \in Slots, NEW n \in Note, Deliver(s, n) PROVE OneAllocation'
  <2>1. UNCHANGED h \/ Starts(s, "webhook", n.pay, n.status, "read")
    BY <1>a, <1>5, DeliverDoes
  <2>2. QED
    BY <1>1, <1>2, <2>1 DEF Starts
<1>6. ASSUME NEW n \in Note, RecordFails(n) PROVE OneAllocation'
  BY <1>1, <1>6 DEF RecordFails
<1>7. ASSUME NEW s \in Slots, Step(s) \/ Dies(s) \/ AllocationFails(s) PROVE OneAllocation'
  <2>1. \A t \in Slots \ {s} : h'[t] = h[t]
    BY <1>7, StepFrame DEF GoesOn
  <2>2. CASE h'[s].pc = "credit"
    <3>1. /\ h'[s].pay = h[s].pay
          /\ \A t \in Slots : h[t].pc = "credit" => Owner[h[t].pay] # Owner[h[s].pay]
      BY <1>7, <2>2, LockIsTaken DEF LockFree
    <3>2. QED
      BY <1>a, <2>1, <3>1 DEF OneAllocation
  <2>3. QED
    BY <1>2, <2>1, <2>2
<1>8. CASE ListExpires
  BY <1>1, <1>8 DEF ListExpires
<1>9. CASE UNCHANGED topUpVars
  BY <1>1, <1>9 DEF topUpVars
<1>10. QED
  BY <1>3, <1>4, <1>5, <1>6, <1>7, <1>8, <1>9 DEF TopUpNext

-----------------------------------------------------------------------------
\* A note told truly stays true.
LEMMA NotesStay ==
  ASSUME TopUpInv, [TopUpNext]_topUpVars, NEW n \in mail \cup events
  PROVE  prov'[n.pay] # "none" /\ (n.status = "finished" => Paid(n.pay)')
<1>1. n.pay \in Payments /\ prov[n.pay] # "none" /\ (n.status = "finished" => Paid(n.pay))
  BY DEF TopUpInv, TopUpTypeOK, NotesTell, Note
<1>2. QED
  BY <1>1, MoneyStays DEF MoneyKept

LEMMA NotesStep ==
  ASSUME TopUpInv, [TopUpNext]_topUpVars
  PROVE  NotesTell'
<1>a. TopUpTypeOK /\ NotesTell
  BY DEF TopUpInv
<1>1. ASSUME mail' \cup events' \subseteq mail \cup events PROVE NotesTell'
  <2>1. ASSUME NEW n \in mail' \cup events'
        PROVE  prov'[n.pay] # "none" /\ (n.status = "finished" => Paid(n.pay)')
    BY <1>1, NotesStay
  <2>2. QED
    BY <2>1 DEF NotesTell
<1>2. ASSUME NEW new \in Note, mail' = mail \cup {new}, events' = events,
             prov'[new.pay] # "none" /\ (new.status = "finished" => Paid(new.pay)')
      PROVE  NotesTell'
  <2>1. ASSUME NEW n \in mail' \cup events'
        PROVE  prov'[n.pay] # "none" /\ (n.status = "finished" => Paid(n.pay)')
    BY <1>2, NotesStay
  <2>2. QED
    BY <2>1 DEF NotesTell
<1>3. ASSUME NEW p \in Payments, ProviderMoves(p) PROVE NotesTell'
  <2>1. PICK st \in Statuses :
          /\ prov'[p] = st
          /\ mail' = mail \cup {[pay |-> p, status |-> st, redeposit |-> FALSE]}
    BY <1>a, <1>3, ProviderFrame
  <2>2. events' = events
    BY <1>3 DEF ProviderMoves
  <2>3. prov'[p] # "none" /\ (st = "finished" => Paid(p)')
    BY <2>1 DEF Paid, Statuses, Terminal, NonTerminal
  <2>n. [pay |-> p, status |-> st, redeposit |-> FALSE] \in Note
    BY DEF Note
  <2>4. PICK new \in Note : mail' = mail \cup {new} /\ new.pay = p /\ new.status = st
    BY <2>1, <2>n
  <2>5. QED
    BY <1>2, <2>2, <2>3, <2>4
<1>4. ASSUME NEW p \in Payments, Redeposit(p) PROVE NotesTell'
  <2>1. /\ prov[p] = "expired" /\ child'[p] = "finished" /\ MoneyKept
        /\ mail' = mail \cup {[pay |-> p, status |-> "finished", redeposit |-> TRUE]}
    BY <1>a, <1>4, RedepositFrame
  <2>2. events' = events
    BY <1>4 DEF Redeposit
  <2>3. prov'[p] # "none" /\ Paid(p)'
    BY <2>1 DEF Paid, MoneyKept
  <2>n. [pay |-> p, status |-> "finished", redeposit |-> TRUE] \in Note
    BY DEF Note, Statuses, Terminal
  <2>4. PICK new \in Note : mail' = mail \cup {new} /\ new.pay = p /\ new.status = "finished"
    BY <2>1, <2>n
  <2>5. QED
    BY <1>2, <2>2, <2>3, <2>4
<1>5. ASSUME NEW p \in Payments, GuardExpires(p) PROVE NotesTell'
  BY <1>1, <1>5 DEF GuardExpires
<1>6. ASSUME NEW s \in Slots, NEW p \in Payments,
             Create(s, p) \/ Monitor(s, p) \/ Refresh(s, p) \/ Sync(s, p) \/ Manual(s, p)
      PROVE  NotesTell'
  <2>1. mail' = mail /\ events' = events
    BY <1>6, StartFrame
  <2>2. QED
    BY <1>1, <2>1
<1>7. ASSUME NEW s \in Slots, NEW n \in Note, Deliver(s, n) PROVE NotesTell'
  <2>1. n \in mail /\ mail' \subseteq mail /\ events' \subseteq events \cup {n}
    BY <1>a, <1>7, DeliverDoes
  <2>2. QED
    BY <1>1, <2>1
<1>8. ASSUME NEW n \in Note, RecordFails(n) PROVE NotesTell'
  <2>1. mail' \subseteq mail /\ events' = events
    BY <1>8 DEF RecordFails
  <2>2. QED
    BY <1>1, <2>1
<1>9. ASSUME NEW s \in Slots, Step(s) \/ Dies(s) \/ AllocationFails(s) PROVE NotesTell'
  <2>1. mail' \subseteq mail /\ events' = events
    BY <1>9, StepFrame DEF GoesOn
  <2>2. QED
    BY <1>1, <2>1
<1>10. CASE ListExpires
  BY <1>1, <1>10 DEF ListExpires
<1>11. CASE UNCHANGED topUpVars
  BY <1>1, <1>11 DEF topUpVars
<1>12. QED
  BY <1>3, <1>4, <1>5, <1>6, <1>7, <1>8, <1>9, <1>10, <1>11 DEF TopUpNext

-----------------------------------------------------------------------------
\* A row that is not written keeps telling, and so does one whose mark was erased.
LEMMA RowStays ==
  ASSUME TopUpInv, [TopUpNext]_topUpVars, NEW p \in Payments,
         credit'[p] = credit[p], twice'[p] = twice[p],
         row[p].done => row'[p].done \/ erased'[p],
         row'[p] # NoRow \/ child'[p] # "none" => prov'[p] # "none"
  PROVE  RowTells(p)'
<1>1. RowTells(p)
  BY DEF TopUpInv, RowsTell
<1>2. /\ Paid(p) => Paid(p)'
      /\ prov[p] # "none" => prov'[p] # "none"
      /\ erased[p] => erased'[p]
  BY MoneyStays DEF MoneyKept
<1>3. QED
  BY <1>1, <1>2 DEF RowTells

\* An allocation that comes to a row under its lock leaves it telling.
LEMMA RowIsCredited ==
  ASSUME TopUpInv, [TopUpNext]_topUpVars, NEW p \in Payments, NEW what \in {"price", "manual"},
         Allocated(p, what), row'[p].done, prov[p] # "none",
         credit[p] # "none" => erased[p],
         what = "price" => Paid(p)
  PROVE  RowTells(p)'
<1>1. RowTells(p)
  BY DEF TopUpInv, RowsTell
<1>2. /\ Paid(p) => Paid(p)'
      /\ prov[p] # "none" => prov'[p] # "none"
      /\ erased[p] => erased'[p]
  BY MoneyStays DEF MoneyKept
<1>3. credit'[p] = what /\ (twice'[p] => twice[p] \/ credit[p] # "none")
  BY AllocatedDoes DEF TopUpInv
<1>4. QED
  BY <1>1, <1>2, <1>3 DEF RowTells

LEMMA RowsStep ==
  ASSUME TopUpInv, [TopUpNext]_topUpVars
  PROVE  RowsTell'
<1>a. /\ TopUpTypeOK /\ HandlersKnow /\ RowsTell /\ MoneyKept
      /\ \A p \in Payments : RowTells(p)
  BY MoneyStays DEF TopUpInv, RowsTell
<1>1. ASSUME UNCHANGED <<row, child, credit, twice>> PROVE RowsTell'
  <2>1. ASSUME NEW p \in Payments PROVE RowTells(p)'
    <3>1. row'[p] # NoRow \/ child'[p] # "none" => prov'[p] # "none"
      BY <1>a, <1>1 DEF RowTells, MoneyKept
    <3>2. QED
      BY <1>1, <3>1, RowStays
  <2>2. QED
    BY <2>1 DEF RowsTell
\* One row is written, the others stay.
<1>2. ASSUME NEW p \in Payments, RowTells(p)', UNCHANGED child,
             \A q \in Payments \ {p} : row'[q] = row[q] /\ credit'[q] = credit[q] /\ twice'[q] = twice[q]
      PROVE  RowsTell'
  <2>1. ASSUME NEW q \in Payments \ {p} PROVE RowTells(q)'
    <3>1. row'[q] # NoRow \/ child'[q] # "none" => prov'[q] # "none"
      BY <1>a, <1>2 DEF RowTells, MoneyKept
    <3>2. QED
      BY <1>2, <3>1, RowStays
  <2>2. QED
    BY <1>2, <2>1 DEF RowsTell
<1>3. ASSUME NEW p \in Payments, ProviderMoves(p) \/ GuardExpires(p) PROVE RowsTell'
  BY <1>1, <1>3 DEF ProviderMoves, GuardExpires
<1>4. ASSUME NEW p \in Payments, Redeposit(p) PROVE RowsTell'
  <2>1. UNCHANGED <<row, prov, credit, twice>>
    BY <1>4 DEF Redeposit
  <2>2. prov[p] = "expired" /\ \A q \in Payments \ {p} : child'[q] = child[q]
    BY <1>a, <1>4, RedepositFrame
  <2>3. ASSUME NEW q \in Payments PROVE RowTells(q)'
    <3>1. row'[q] # NoRow \/ child'[q] # "none" => prov'[q] # "none"
      BY <1>a, <2>1, <2>2 DEF RowTells
    <3>2. QED
      BY <2>1, <3>1, RowStays
  <2>4. QED
    BY <2>3 DEF RowsTell
<1>5. ASSUME NEW s \in Slots, NEW p \in Payments, Create(s, p) PROVE RowsTell'
  <2>1. /\ prov[p] = "none" /\ prov'[p] = "waiting" /\ UNCHANGED <<child, credit, twice>>
        /\ \A q \in Payments \ {p} : row'[q] = row[q]
    BY <1>a, <1>5 DEF Create, TopUpTypeOK
  <2>2. credit[p] = "none"
    BY <1>a, <2>1 DEF RowTells
  <2>3. RowTells(p)'
    <3>1. RowTells(p) /\ (erased[p] => erased'[p])
      BY <1>a DEF MoneyKept
    <3>2. QED
      BY <2>1, <2>2, <3>1 DEF RowTells
  <2>4. QED
    BY <1>2, <2>1, <2>3
<1>6. ASSUME NEW s \in Slots, NEW p \in Payments,
             Monitor(s, p) \/ Refresh(s, p) \/ Sync(s, p) \/ Manual(s, p)
      PROVE  RowsTell'
  BY <1>1, <1>6 DEF Monitor, Refresh, Sync, Manual
<1>7. ASSUME NEW s \in Slots, NEW n \in Note, Deliver(s, n) PROVE RowsTell'
  BY <1>1, <1>7 DEF Deliver
<1>8. ASSUME NEW n \in Note, RecordFails(n) PROVE RowsTell'
  BY <1>1, <1>8 DEF RecordFails
<1>9. ASSUME NEW s \in Slots, Step(s) \/ Dies(s) \/ AllocationFails(s) PROVE RowsTell'
  <2>a. /\ h[s].pc # "idle" /\ UNCHANGED <<prov, child>>
        /\ h[s].pay \in Payments /\ h[s].kind \in HandlerKinds /\ HandlerKnows(s)
    BY <1>a, <1>9, StepFrame, Fields DEF HandlersKnow
  <2>b. prov[h[s].pay] # "none"
    BY <2>a DEF HandlerKnows
  <2>1. CASE WriteStatus(s)
    <3>1. /\ UNCHANGED <<credit, twice>>
          /\ \A p \in Payments : /\ p # h[s].pay => row'[p] = row[p]
                                 /\ row[p].done => row'[p].done \/ erased'[p]
      BY <1>a, <2>1, WriteStatusDoes
    <3>2. ASSUME NEW p \in Payments PROVE RowTells(p)'
      <4>1. row'[p] # NoRow \/ child'[p] # "none" => prov'[p] # "none"
        BY <1>a, <2>a, <2>b, <3>1 DEF RowTells
      <4>2. QED
        BY <3>1, <4>1, RowStays
    <3>3. QED
      BY <3>2 DEF RowsTell
  <2>2. CASE Credit(s)
    <3>1. /\ h[s].pc = "credit" /\ Allocated(h[s].pay, "price") /\ row'[h[s].pay].done
          /\ \A p \in Payments \ {h[s].pay} : row'[p] = row[p]
      BY <1>a, <2>2, CreditDoes
    <3>2. /\ credit[h[s].pay] # "none" => erased[h[s].pay]
          /\ h[s].kind \in {"webhook", "monitor", "sync"} /\ h[s].said = "finished"
      BY <2>a, <3>1 DEF HandlerKnows, HandlerKinds
    <3>3. Paid(h[s].pay)
      BY <2>a, <3>2 DEF HandlerKnows
    <3>4. PICK p \in Payments : p = h[s].pay
      BY <2>a
    <3>5. RowTells(p)'
      BY <2>b, <3>1, <3>2, <3>3, <3>4, RowIsCredited
    <3>6. \A q \in Payments \ {p} : row'[q] = row[q] /\ credit'[q] = credit[q] /\ twice'[q] = twice[q]
      BY <1>a, <3>1, <3>4, AllocatedDoes
    <3>7. QED
      BY <1>2, <2>a, <3>5, <3>6
  <2>3. CASE CreditByHand(s)
    <3>1. CASE UNCHANGED <<row, credit, twice>>
      BY <1>1, <2>a, <3>1
    <3>2. CASE ~UNCHANGED <<row, credit, twice>>
      <4>1. /\ ~row[h[s].pay].done /\ Allocated(h[s].pay, "manual") /\ row'[h[s].pay].done
            /\ \A p \in Payments \ {h[s].pay} : row'[p] = row[p]
        BY <1>a, <2>3, <3>2, CreditByHandDoes
      <4>2. PICK p \in Payments : p = h[s].pay
        BY <2>a
      <4>3. credit[p] # "none" => erased[p]
        BY <1>a, <4>1, <4>2 DEF RowTells
      <4>4. RowTells(p)'
        BY <2>b, <4>1, <4>2, <4>3, RowIsCredited
      <4>5. \A q \in Payments \ {p} : row'[q] = row[q] /\ credit'[q] = credit[q] /\ twice'[q] = twice[q]
        BY <1>a, <4>1, <4>2, AllocatedDoes
      <4>6. QED
        BY <1>2, <2>a, <4>4, <4>5
    <3>3. QED
      BY <3>1, <3>2
  <2>4. CASE ReadRow(s) \/ Poll(s) \/ CheckDuplicate(s) \/ TakeLock(s) \/ MarkCompleted(s)
    BY <1>1, <2>4 DEF ReadRow, Poll, CheckDuplicate, TakeLock, MarkCompleted
  <2>5. CASE ReadList(s) \/ SaveList(s) \/ Dies(s) \/ AllocationFails(s)
    BY <1>1, <2>5 DEF ReadList, SaveList, Dies, AllocationFails
  <2>6. QED
    BY <1>9, <2>1, <2>2, <2>3, <2>4, <2>5 DEF Step
<1>10. CASE ListExpires
  BY <1>1, <1>10 DEF ListExpires
<1>11. CASE UNCHANGED topUpVars
  BY <1>1, <1>11 DEF topUpVars
<1>12. QED
  BY <1>3, <1>4, <1>5, <1>6, <1>7, <1>8, <1>9, <1>10, <1>11 DEF TopUpNext

-----------------------------------------------------------------------------
LEMMA TopUpInitInv == TopUpInit => TopUpInv
<1> SUFFICES ASSUME TopUpInit PROVE TopUpInv
  OBVIOUS
<1>1. TopUpTypeOK
  BY NoRowType DEF TopUpInit, TopUpTypeOK, NoList
<1>2. HandlersKnow /\ OneAllocation
  BY IdleIsNone DEF TopUpInit, HandlersKnow, HandlerKnows, OneAllocation
<1>3. NotesTell /\ RowsTell
  BY DEF TopUpInit, NotesTell, RowsTell, RowTells
<1>4. QED
  BY <1>1, <1>2, <1>3 DEF TopUpInv

LEMMA TopUpStep == TopUpInv /\ [TopUpNext]_topUpVars => TopUpInv'
<1> SUFFICES ASSUME TopUpInv, [TopUpNext]_topUpVars PROVE TopUpInv'
  OBVIOUS
<1>1. TopUpTypeOK'
  BY TopUpTypeStep DEF TopUpInv
<1>2. QED
  BY <1>1, HandlersStep, AllocationStep, NotesStep, RowsStep DEF TopUpInv

LEMMA TopUpInvariant == TopUpSpec => []TopUpInv
  BY TopUpInitInv, TopUpStep, PTL DEF TopUpSpec

\* The variables of a top-up, the handlers at work and the notifications keep their
\* types, whichever handlers write the row.
THEOREM TopUpsKeepTypes == TopUpSpec => []TopUpTypeOK
<1>1. TopUpInv => TopUpTypeOK
  BY DEF TopUpInv
<1>2. QED
  BY <1>1, TopUpInvariant, PTL

\* A top-up is credited only for money that came, and once unless a status writer
\* erased paymentCompleted: whatever the number of handlers, of payments and of faults.
THEOREM CreditedAsOwed == TopUpSpec => []CreditIsOwed
<1>1. TopUpInv => CreditIsOwed
  BY DEF TopUpInv, RowsTell, RowTells, CreditIsOwed, CreditedMeansPaid, SecondCreditTakesErasure
<1>2. QED
  BY <1>1, TopUpInvariant, PTL
=============================================================================
