---------------------------- MODULE AtomicLedger ----------------------------
(***************************************************************************)
(* What the credit service promises its callers: a balance per user that   *)
(* changes one operation at a time, each checked against the balance it    *)
(* changes.  Locks, connections, the cache and failures are not visible.   *)
(***************************************************************************)
EXTENDS Integers

CONSTANTS Users, TopUps, Amounts, MinBalance, MaxBalance, MaxTransactionAmount

VARIABLES
  balance,   \* balance[u]
  lastKind,  \* lastKind[u]: the operation that changed it last
  credited   \* credited[u][t]: what top-up t has credited to u

vars == <<balance, lastKind, credited>>

Init ==
  /\ balance = [u \in Users |-> 0]
  /\ lastKind = [u \in Users |-> "none"]
  /\ credited = [u \in Users |-> [t \in TopUps |-> 0]]

Change(u, kind, new) ==
  /\ balance' = [balance EXCEPT ![u] = new]
  /\ lastKind' = [lastKind EXCEPT ![u] = kind]

\* addCredits and refundCredits: up to maxBalance.
Deposit(u, kind, a) ==
  /\ balance[u] + a <= MaxBalance
  /\ Change(u, kind, balance[u] + a)
  /\ UNCHANGED credited

\* A paid top-up is credited whatever the balance.  One that is credited again
\* replaces what it credited before: it never counts twice.
TopUp(u, t, a) ==
  /\ Change(u, IF credited[u][t] = 0 THEN "topup" ELSE "recredit",
            balance[u] + a - credited[u][t])
  /\ credited' = [credited EXCEPT ![u][t] = a]

\* spendCredits and reverseCredits: down to minBalance.
Debit(u, a) ==
  /\ balance[u] - a >= MinBalance
  /\ Change(u, "debit", balance[u] - a)
  /\ UNCHANGED credited

Next ==
  \E u \in Users, a \in Amounts :
    /\ 0 < a /\ a <= MaxTransactionAmount
    /\ \/ Deposit(u, "add", a) \/ Deposit(u, "refund", a) \/ Debit(u, a)
       \/ \E t \in TopUps : TopUp(u, t, a)

Spec == Init /\ [][Next]_vars
=============================================================================
