------------------------- MODULE SubscriptionRenewal -------------------------
(***************************************************************************)
(* One subscription and everybody who may lengthen or stop it: the renewal  *)
(* sweep that charges credits, the notifications of Stripe and Pay4bit      *)
(* renewal payments, a reward an administrator redeems, the user's          *)
(* cancellation and the expiry sweep.  A row of subscription_renewals, one  *)
(* for each cycle, is the claim that decides who may charge the cycle; a    *)
(* Redis key with a time to live keeps the sweep to one run at a time.      *)
(*                                                                         *)
(* The end date is counted in terms: end = k says that k terms have been    *)
(* added, and cycle k is the one that ends at that date.                    *)
(***************************************************************************)
EXTENDS Integers, FiniteSets

CONSTANTS
  Runs,         \* runs of the renewal sweep, of any backend
  Payments,     \* renewal payments through Stripe and Pay4bit
  MaxEnd,       \* bound: the last end at which somebody starts a renewal
  MaxRewards,   \* bound: rewards redeemed
  MaxFailures,  \* bound: errors and crashes of one behaviour
  NoRun,        \* the job's key is not set
  NoEnd         \* the payment's metadata name no end date

ASSUME SubscriptionRenewalAssumption ==
  /\ IsFiniteSet(Runs) /\ IsFiniteSet(Payments)
  /\ Runs \cap Payments = {} /\ NoRun \notin Runs
  /\ MaxEnd \in Nat /\ MaxRewards \in Nat /\ MaxFailures \in Nat
  /\ NoEnd \notin Nat

VARIABLES
  sub,        \* the row of subscriptions: active, auto (auto_renew), cancelled, end,
              \* due (next_billing_at has come), method (renewal_method)
  renewal,    \* renewal[k]: status of the row of cycle k
  jobLock,    \* the run that holds lock:jobs:subscription_renewal
  pay,        \* pay[x]: kind and expected end of payment x
  seen,       \* seen[x]: the outcomes whose notification has been recorded
  pc, job,    \* pc[a]: the await run or notification a is at; job[a]: what it has read
  debits,     \* debits[k]: subscription debits in credit_transactions for cycle k
  rewards,    \* rewards redeemed
  lapsed,     \* runs at work that lost the job's key to its time to live (history)
  overlap,    \* there has been such a run (history)
  overruled,  \* cycles whose claim by a sweep a notification took over (history)
  behind,     \* payments whose notification read an end before the one they are for (history)
  failures    \* failures so far, for the bound MaxFailures

histVars == <<lapsed, overlap, overruled, behind, failures>>
vars == <<sub, renewal, jobLock, pay, seen, pc, job, debits, rewards,
          lapsed, overlap, overruled, behind, failures>>

Actors == Runs \cup Payments
Cycles == 0 .. (MaxEnd + 1 + MaxRewards + Cardinality(Payments))

RenewalStates == {"none", "pending", "processing", "succeeded", "failed"}
SweepStates   == {"disabling", "claiming", "checking", "retaking", "spending",
                  "failing", "rescheduling", "succeeding", "extending", "releasing"}
NoticeStates  == {"retrying", "taking", "inserting", "extending", "succeeding", "failing"}

Init ==
  /\ sub = [active |-> TRUE, auto |-> TRUE, cancelled |-> FALSE, end |-> 0,
            due |-> FALSE, method |-> "credits"]
  /\ renewal = [k \in Cycles |-> "none"]
  /\ jobLock = NoRun
  /\ pay = [x \in Payments |-> [kind |-> "none", expected |-> NoEnd]]
  /\ seen = [x \in Payments |-> {}]
  /\ pc = [a \in Actors |-> "idle"]
  /\ job = [a \in Actors |-> [cycle |-> 0, end |-> 0, paid |-> FALSE]]
  /\ debits = [k \in Cycles |-> 0]
  /\ rewards = 0
  /\ lapsed = {} /\ overlap = FALSE /\ overruled = {} /\ behind = {}
  /\ failures = 0

Goto(a, l)    == pc' = [pc EXCEPT ![a] = l] /\ UNCHANGED job
Begin(a, l, j) == pc' = [pc EXCEPT ![a] = l] /\ job' = [job EXCEPT ![a] = j]
NoJob         == [cycle |-> 0, end |-> 0, paid |-> FALSE]
Finish(a)     == Begin(a, "idle", NoJob)

SetRenewal(k, s) == renewal' = [renewal EXCEPT ![k] = s]

\* One term is added to the end date that was read, or to now when it has passed; the
\* next billing is a week before the new end.
Lengthened(end) == [sub EXCEPT !.end = end + 1, !.due = FALSE]

-----------------------------------------------------------------------------
(* The sweep.  Each run has a value of its own for the job's key.            *)

Selectable == sub.active /\ sub.auto /\ ~sub.cancelled /\ sub.due

\* A run takes the key and selects the subscription; one that selects nothing is left
\* out.  Without credits as its method, a subscription loses its automatic renewal.
StartSweep(r) ==
  /\ pc[r] = "idle" /\ jobLock = NoRun
  /\ Selectable /\ sub.end <= MaxEnd
  /\ jobLock' = r
  /\ Begin(r, IF sub.method = "credits" THEN "claiming" ELSE "disabling",
           [NoJob EXCEPT !.cycle = sub.end, !.end = sub.end])
  /\ UNCHANGED <<sub, renewal, pay, seen, debits, rewards, histVars>>

Disable(r) ==
  /\ pc[r] = "disabling"
  /\ sub' = [sub EXCEPT !.auto = FALSE, !.due = FALSE, !.method = "none"]
  /\ Goto(r, "releasing")
  /\ UNCHANGED <<renewal, jobLock, pay, seen, debits, rewards, histVars>>

\* acquireRenewalLock: insert the cycle's row, or look at the one that is there, and
\* take it over when it has failed.  The take-over does not look again.
ClaimCycle(r) ==
  /\ pc[r] = "claiming"
  /\ LET k == job[r].cycle IN
       IF renewal[k] = "none" THEN SetRenewal(k, "pending") /\ Goto(r, "spending")
       ELSE UNCHANGED renewal /\ Goto(r, "checking")
  /\ UNCHANGED <<sub, jobLock, pay, seen, debits, rewards, histVars>>

CheckCycle_IgnoresPending(r) ==
  /\ pc[r] = "checking"
  /\ Goto(r, IF renewal[job[r].cycle] \in {"failed", "pending"} THEN "retaking" ELSE "releasing")
  /\ UNCHANGED <<sub, renewal, jobLock, pay, seen, debits, rewards, histVars>>

CheckCycle(r) ==
  /\ pc[r] = "checking"
  /\ Goto(r, IF renewal[job[r].cycle] = "failed" THEN "retaking" ELSE "releasing")
  /\ UNCHANGED <<sub, renewal, jobLock, pay, seen, debits, rewards, histVars>>

RetakeCycle(r) ==
  /\ pc[r] = "retaking"
  /\ SetRenewal(job[r].cycle, "pending")
  /\ Goto(r, "spending")
  /\ UNCHANGED <<sub, jobLock, pay, seen, debits, rewards, histVars>>

\* spendCredits, one transaction: the balance suffices or it does not.  Two debits of a
\* cycle are enough to see one too many.
Spend(r) ==
  /\ pc[r] = "spending"
  /\ \/ /\ debits[job[r].cycle] < 2
        /\ debits' = [debits EXCEPT ![job[r].cycle] = @ + 1]
        /\ Goto(r, "succeeding")
     \/ UNCHANGED debits /\ Goto(r, "failing")
  /\ UNCHANGED <<sub, renewal, jobLock, pay, seen, rewards, histVars>>

FailCycle(r) ==
  /\ pc[r] = "failing" /\ r \in Runs
  /\ SetRenewal(job[r].cycle, "failed")
  /\ Goto(r, "rescheduling")
  /\ UNCHANGED <<sub, jobLock, pay, seen, debits, rewards, histVars>>

\* The next attempt is SUBSCRIPTION_RENEWAL_RETRY_MINUTES away.
Reschedule(r) ==
  /\ pc[r] = "rescheduling"
  /\ sub' = [sub EXCEPT !.due = FALSE]
  /\ Goto(r, "releasing")
  /\ UNCHANGED <<renewal, jobLock, pay, seen, debits, rewards, histVars>>

SucceedCycle(r) ==
  /\ pc[r] = "succeeding" /\ r \in Runs
  /\ SetRenewal(job[r].cycle, "succeeded")
  /\ Goto(r, "extending")
  /\ UNCHANGED <<sub, jobLock, pay, seen, debits, rewards, histVars>>

Extend_Forgotten(r) ==
  /\ pc[r] = "extending" /\ r \in Runs
  /\ Goto(r, "releasing")
  /\ UNCHANGED <<sub, renewal, jobLock, pay, seen, debits, rewards, histVars>>

\* The end is computed from the row as it was selected, and written whatever the row
\* is now.  ensureRenewalTask, which leaves the staff at most one open task, follows.
Extend(r) ==
  /\ pc[r] = "extending" /\ r \in Runs
  /\ sub' = [Lengthened(job[r].end) EXCEPT !.method = "credits"]
  /\ Goto(r, "releasing")
  /\ UNCHANGED <<renewal, jobLock, pay, seen, debits, rewards, histVars>>

\* The key is deleted only when it still holds the run's own value.
ReleaseJob(r) ==
  /\ pc[r] = "releasing"
  /\ jobLock' = IF jobLock = r THEN NoRun ELSE jobLock
  /\ Finish(r)
  /\ lapsed' = lapsed \ {r}
  /\ UNCHANGED <<sub, renewal, pay, seen, debits, rewards, overlap, overruled, behind, failures>>

-----------------------------------------------------------------------------
(* A renewal payment and its notifications.  A Stripe intent can be declined  *)
(* and paid afterwards, and the two notifications come in any order; each is  *)
(* recorded, so that it is processed once, and they exclude one another by an *)
(* advisory lock on the intent.  A Pay4bit callback has an answer kept for it.*)

OpenPayment(x) ==
  /\ pay[x].kind = "none" /\ sub.active /\ sub.end <= MaxEnd
  /\ \E kind \in {"stripe", "pay4bit"}, expected \in {NoEnd, sub.end} :
       pay' = [pay EXCEPT ![x] = [kind |-> kind, expected |-> expected]]
  /\ UNCHANGED <<sub, renewal, jobLock, seen, pc, job, debits, rewards, histVars>>

\* resolveCycleEndDate: the expected end date, or the one the row has now.
CycleOf(x) == IF pay[x].expected = NoEnd THEN sub.end ELSE pay[x].expected

Notice(x, outcome) ==
  /\ pc[x] = "idle" /\ pay[x].kind # "none" /\ outcome \notin seen[x]
  /\ seen' = [seen EXCEPT ![x] = @ \cup {outcome}]

\* The subscription is read before anything is written.
PaidNotice(x) ==
  /\ Notice(x, "paid")
  /\ Begin(x, "taking", [cycle |-> CycleOf(x), end |-> sub.end, paid |-> TRUE])
  /\ behind' = IF sub.end < CycleOf(x) THEN behind \cup {x} ELSE behind
  /\ UNCHANGED <<sub, renewal, jobLock, pay, debits, rewards, lapsed, overlap, overruled, failures>>

\* Failed, cancelled, or the customer has to act: all three come here.
DeclinedNotice(x) ==
  /\ pay[x].kind = "stripe"
  /\ Notice(x, "declined")
  /\ IF sub.active
     THEN Begin(x, "retrying", [cycle |-> CycleOf(x), end |-> sub.end, paid |-> FALSE])
     ELSE UNCHANGED <<pc, job>>
  /\ UNCHANGED <<sub, renewal, jobLock, pay, debits, rewards, histVars>>

\* A hard decline, or no attempt left before the end, turns the automatic renewal off.
RetryOrDisable(x) ==
  /\ pc[x] = "retrying"
  /\ \E on \in {sub.auto, FALSE} : sub' = [sub EXCEPT !.due = FALSE, !.auto = on]
  /\ Goto(x, "taking")
  /\ UNCHANGED <<renewal, jobLock, pay, seen, debits, rewards, histVars>>

\* beginRenewalProcessing: any row but a succeeded one becomes processing.
TakeCycle(x) ==
  /\ pc[x] = "taking"
  /\ LET k == job[x].cycle IN
       /\ IF renewal[k] \in {"none", "succeeded"}
          THEN UNCHANGED renewal /\ Goto(x, "inserting")
          ELSE SetRenewal(k, "processing") /\ Goto(x, IF job[x].paid THEN "extending" ELSE "failing")
       /\ overruled' = IF renewal[k] = "pending" THEN overruled \cup {k} ELSE overruled
  /\ UNCHANGED <<sub, jobLock, pay, seen, debits, rewards, lapsed, overlap, behind, failures>>

\* The insert conflicts when a row is there; a succeeded one ends the call.  One that
\* appeared since counts as acquired, and keeps its status.
InsertCycle(x) ==
  /\ pc[x] = "inserting"
  /\ LET k == job[x].cycle IN
       IF renewal[k] = "succeeded" THEN UNCHANGED renewal /\ Finish(x)
       ELSE /\ renewal' = [renewal EXCEPT ![k] = IF @ = "none" THEN "processing" ELSE @]
            /\ Goto(x, IF job[x].paid THEN "extending" ELSE "failing")
  /\ UNCHANGED <<sub, jobLock, pay, seen, debits, rewards, histVars>>

\* updateSubscriptionForRenewalWithGuard, under the row's lock.
Renewable(x) ==
  /\ sub.active /\ ~sub.cancelled
  /\ pay[x].expected = NoEnd \/ sub.end <= pay[x].expected

Renew(x) ==
  sub' = IF pay[x].kind = "stripe"
         THEN [Lengthened(job[x].end) EXCEPT !.method = "stripe"]
         ELSE [Lengthened(job[x].end) EXCEPT !.auto = FALSE, !.method = "none"]

ExtendGuarded_AnyTerm(x) ==
  /\ pc[x] = "extending" /\ x \in Payments
  /\ \/ sub.active /\ ~sub.cancelled /\ Renew(x)
     \/ ~(sub.active /\ ~sub.cancelled) /\ UNCHANGED sub
  /\ Goto(x, "succeeding")
  /\ UNCHANGED <<renewal, jobLock, pay, seen, debits, rewards, histVars>>

ExtendGuarded_AnyStatus(x) ==
  /\ pc[x] = "extending" /\ x \in Payments
  /\ Renew(x)
  /\ Goto(x, "succeeding")
  /\ UNCHANGED <<renewal, jobLock, pay, seen, debits, rewards, histVars>>

\* A refused renewal leaves the row as it is and its cycle counts as renewed.
ExtendGuarded(x) ==
  /\ pc[x] = "extending" /\ x \in Payments
  /\ \/ Renewable(x) /\ Renew(x)
     \/ ~Renewable(x) /\ UNCHANGED sub
  /\ Goto(x, "succeeding")
  /\ UNCHANGED <<renewal, jobLock, pay, seen, debits, rewards, histVars>>

\* The update's error is an answer: the handler goes on without the term.
ExtendFails(x) ==
  /\ pc[x] = "extending" /\ x \in Payments /\ failures < MaxFailures
  /\ failures' = failures + 1
  /\ Goto(x, IF pay[x].kind = "stripe" THEN "succeeding" ELSE "failing")
  /\ UNCHANGED <<sub, renewal, jobLock, pay, seen, debits, rewards, lapsed, overlap, overruled, behind>>

MarkSucceeded(x) ==
  /\ pc[x] = "succeeding" /\ x \in Payments
  /\ SetRenewal(job[x].cycle, "succeeded")
  /\ Finish(x)
  /\ UNCHANGED <<sub, jobLock, pay, seen, debits, rewards, histVars>>

\* markRenewalFailed does not look at the status it overwrites.
MarkFailed(x) ==
  /\ pc[x] = "failing" /\ x \in Payments
  /\ SetRenewal(job[x].cycle, "failed")
  /\ overruled' = IF renewal[job[x].cycle] = "processing" THEN overruled
                  ELSE overruled \cup {job[x].cycle}
  /\ Finish(x)
  /\ UNCHANGED <<sub, jobLock, pay, seen, debits, rewards, lapsed, overlap, behind, failures>>

-----------------------------------------------------------------------------
(* The others, and time.                                                     *)

\* cancelSubscription reads the row and then writes; nothing it writes depends on what
\* it read, and the two are one step here.
Cancel ==
  /\ sub.active /\ ~sub.cancelled
  /\ sub' = [sub EXCEPT !.auto = FALSE, !.due = FALSE, !.cancelled = TRUE]
  /\ UNCHANGED <<renewal, jobLock, pay, seen, pc, job, debits, rewards, histVars>>

\* An administrator redeems a reward: a transaction that adds to whatever end the row has.
RedeemReward ==
  /\ rewards < MaxRewards
  /\ rewards' = rewards + 1
  /\ sub' = Lengthened(sub.end)
  /\ UNCHANGED <<renewal, jobLock, pay, seen, pc, job, debits, histVars>>

\* The end date passes at a moment nobody chooses, and a sweep of the same name notices.
Expire ==
  /\ sub.active
  /\ sub' = [sub EXCEPT !.active = FALSE, !.auto = FALSE, !.due = FALSE]
  /\ UNCHANGED <<renewal, jobLock, pay, seen, pc, job, debits, rewards, histVars>>

BillingComes ==
  /\ sub.auto /\ ~sub.due
  /\ sub' = [sub EXCEPT !.due = TRUE]
  /\ UNCHANGED <<renewal, jobLock, pay, seen, pc, job, debits, rewards, histVars>>

\* The job's key lives 300 seconds and is never prolonged.
LockLapses ==
  /\ jobLock # NoRun
  /\ jobLock' = NoRun
  /\ IF pc[jobLock] = "idle" THEN UNCHANGED <<lapsed, overlap>>
     ELSE lapsed' = lapsed \cup {jobLock} /\ overlap' = TRUE
  /\ UNCHANGED <<sub, renewal, pay, seen, pc, job, debits, rewards, overruled, behind, failures>>

\* The sweep's handler throws: the scheduler catches it and gives the key back.  An
\* update that fails at the extension is an answer and ends the same way.
SweepThrows(r) ==
  /\ pc[r] \in SweepStates \ {"releasing"} /\ failures < MaxFailures
  /\ failures' = failures + 1
  /\ Goto(r, "releasing")
  /\ UNCHANGED <<sub, renewal, jobLock, pay, seen, debits, rewards, lapsed, overlap, overruled, behind>>

\* The process dies: the key stays until it lapses, a notification is not delivered again
\* to any effect.
Crash(a) ==
  /\ pc[a] # "idle" /\ failures < MaxFailures
  /\ failures' = failures + 1
  /\ Finish(a)
  /\ lapsed' = lapsed \ {a}
  /\ UNCHANGED <<sub, renewal, jobLock, pay, seen, debits, rewards, overlap, overruled, behind>>

-----------------------------------------------------------------------------
SweepStep(r) ==
  \/ Disable(r) \/ ClaimCycle(r) \/ CheckCycle(r) \/ RetakeCycle(r) \/ Spend(r)
  \/ FailCycle(r) \/ Reschedule(r) \/ SucceedCycle(r) \/ Extend(r) \/ ReleaseJob(r)

NoticeStep(x) ==
  \/ RetryOrDisable(x) \/ TakeCycle(x) \/ InsertCycle(x)
  \/ ExtendGuarded(x) \/ MarkSucceeded(x) \/ MarkFailed(x)

Next ==
  \/ \E r \in Runs : StartSweep(r) \/ SweepStep(r) \/ SweepThrows(r)
  \/ \E x \in Payments : \/ OpenPayment(x) \/ PaidNotice(x) \/ DeclinedNotice(x)
                         \/ NoticeStep(x) \/ ExtendFails(x)
  \/ \E a \in Actors : Crash(a)
  \/ Cancel \/ RedeemReward \/ Expire \/ BillingComes \/ LockLapses

Spec == Init /\ [][Next]_vars

-----------------------------------------------------------------------------
(* Properties                                                                *)

\* Every variable stays in its domain.
TypeOK ==
  /\ sub \in [active : BOOLEAN, auto : BOOLEAN, cancelled : BOOLEAN, end : Cycles,
              due : BOOLEAN, method : {"credits", "stripe", "none"}]
  /\ renewal \in [Cycles -> RenewalStates]
  /\ jobLock \in Runs \cup {NoRun}
  /\ pay \in [Payments -> [kind : {"none", "stripe", "pay4bit"}, expected : Cycles \cup {NoEnd}]]
  /\ seen \in [Payments -> SUBSET {"paid", "declined"}]
  /\ pc \in [Actors -> SweepStates \cup NoticeStates \cup {"idle"}]
  /\ job \in [Actors -> [cycle : Cycles, end : Cycles, paid : BOOLEAN]]
  /\ debits \in [Cycles -> 0 .. 2]
  /\ rewards \in 0 .. MaxRewards
  /\ lapsed \subseteq Runs /\ overlap \in BOOLEAN /\ overruled \subseteq Cycles
  /\ behind \subseteq Payments
  /\ failures \in 0 .. MaxFailures

\* A cycle is charged to the credits once, unless two runs overlapped because the job's
\* key lapsed, or a notification took the cycle's claim from a sweep.
SecondDebitTakesInterference ==
  \A k \in Cycles : debits[k] > 1 => overlap \/ k \in overruled

Paid(x) == "paid" \in seen[x]

\* A cancelled or expired subscription is lengthened by a reward, or by a sweep that had
\* charged the user before it could know; no payment's notification does it.
NoRenewalAfterCancel ==
  [][(sub.cancelled \/ ~sub.active) /\ sub'.end > sub.end =>
       rewards' # rewards \/ \E r \in Runs : pc[r] = "extending" /\ pc'[r] # pc[r]]_vars

\* A payment for a known end date never takes back a term another renewal has added since
\* its notification read the row: the row is looked at again under its lock.  (A row that
\* had fallen behind that date by then, by a stale write, is lengthened from where it was.)
PaymentNeverShortens ==
  [][\A x \in Payments :
       /\ pay[x].expected # NoEnd /\ job[x].end >= pay[x].expected
       /\ pc[x] = "extending" /\ pc'[x] = "succeeding"
       => sub'.end >= sub.end]_vars

AtRest == failures = 0 /\ \A a \in Actors : pc[a] = "idle"

Unguarded(x) == x \in behind \/ (pay[x].kind # "none" /\ pay[x].expected = NoEnd)

\* The debits in the ledger, each with its cycle and its number there.
Charges == {c \in Cycles \X (1 .. 2) : c[2] <= debits[c[1]]}

\* The term is never longer than what was charged, paid or given.  And but for failures,
\* a cycle charged to the credits stays behind the term's end: it is lost only to a sweep
\* that overlapped another, or to a payment that names no end date, or one later than the
\* row has when its notification comes.
TermIsWhatWasPaid ==
  /\ sub.end <= Cardinality(Charges) + Cardinality({x \in Payments : Paid(x)}) + rewards
  /\ AtRest => \A k \in Cycles : debits[k] > 0 =>
       sub.end > k \/ overlap \/ \E x \in Payments : Unguarded(x)

=============================================================================
