---------------------- MODULE SubscriptionRenewal_proofs ----------------------
(***************************************************************************)
(* What holds of the renewals of a subscription for any number of sweeps,  *)
(* payments, rewards and failures.                                         *)
(***************************************************************************)
EXTENDS SubscriptionRenewal, FiniteSetTheorems, TLAPS

\* The types, without the bound on the end date.
Shape ==
  /\ sub \in [active : BOOLEAN, auto : BOOLEAN, cancelled : BOOLEAN, end : Nat,
              due : BOOLEAN, method : {"credits", "stripe", "none"}]
  /\ renewal \in [Cycles -> RenewalStates]
  /\ jobLock \in Runs \cup {NoRun}
  /\ pay \in [Payments -> [kind : {"none", "stripe", "pay4bit"}, expected : Nat \cup {NoEnd}]]
  /\ pc \in [Actors -> SweepStates \cup NoticeStates \cup {"idle"}]
  /\ job \in [Actors -> [cycle : Nat, end : Nat, paid : BOOLEAN]]
  /\ debits \in [Cycles -> 0 .. 2]
  /\ seen \in [Payments -> SUBSET {"paid", "declined"}]
  /\ rewards \in Nat /\ failures \in Nat

\* Whoever runs holds the job's key, and is a sweep's or a notification's step away.
OneRun ==
  ~overlap => \A r \in Runs : pc[r] # "idle" => jobLock = r

\* A cycle whose claim nobody disturbed: a debit leaves the row pending or succeeded, and
\* the run that may still charge it has a row of its own that was not charged.
Undisturbed(k) ==
  /\ debits[k] \in {0, 1}
  /\ debits[k] = 1 => renewal[k] \in {"pending", "succeeded"}
  /\ \A r \in Runs : job[r].cycle = k =>
       /\ pc[r] \in {"retaking", "spending", "failing"} => debits[k] = 0
       /\ pc[r] = "spending" => renewal[k] \in {"pending", "succeeded"}

ChargedOnce == ~overlap => \A k \in Cycles \ overruled : Undisturbed(k)

\* A run charges the cycle that ends at the date it selected.
RunJobs == \A r \in Runs : job[r].cycle = job[r].end /\ job[r].end \in Cycles

\* The terms there may be: what was charged, paid or given.
PaidFor == {x \in Payments : Paid(x)}
Terms   == Cardinality(Charges) + Cardinality(PaidFor) + rewards

\* A run that has charged, and a payment that was paid, count for one term that the row
\* had not when they read it.
TermsCovered ==
  /\ sub.end <= Terms
  /\ \A r \in Runs :
       job[r].end <= Terms /\ (pc[r] \in {"succeeding", "extending"} => job[r].end < Terms)
  /\ \A x \in Payments :
       /\ pc[x] = "extending" => job[x].paid
       /\ job[x].paid => job[x].end < Terms

\* A paid notification knows a payment, and an end that is not before the payment's date.
NoticeKnows ==
  \A x \in Payments : job[x].paid =>
    pay[x].kind # "none" /\ (x \in behind \/ pay[x].expected = NoEnd \/ job[x].end >= pay[x].expected)

\* Without a failure, an overlap or an unguarded payment, a cycle that was charged is
\* behind the end, or its run is about to write one; and no run that may still write an
\* end has read one before it.
Charging == {"claiming", "checking", "retaking", "spending", "succeeding", "extending"}
Kept(k) ==
  /\ sub.end > k \/ \E r \in Runs : pc[r] \in {"succeeding", "extending"} /\ job[r].cycle = k
  /\ \A r \in Runs : pc[r] \in Charging => k <= job[r].end
Regular == failures = 0 /\ ~overlap /\ \A x \in Payments : ~Unguarded(x)
ChargedIsKept == Regular => \A k \in Cycles : debits[k] > 0 => Kept(k)

RenewalInv == Shape /\ OneRun /\ ChargedOnce
TermInv    == RunJobs /\ TermsCovered /\ NoticeKnows /\ ChargedIsKept

-----------------------------------------------------------------------------
LEMMA Distinct ==
  /\ Runs \subseteq Actors /\ Payments \subseteq Actors
  /\ \A r \in Runs : r \notin Payments /\ r # NoRun
BY SubscriptionRenewalAssumption DEF Actors

\* The initial state satisfies the invariant.
LEMMA InitRenewal == Init => RenewalInv
<1> SUFFICES ASSUME Init PROVE RenewalInv
  OBVIOUS
<1>1. Shape
  BY DEF Init, Shape, RenewalStates
<1>2. OneRun /\ ChargedOnce
  BY Distinct DEF Init, OneRun, ChargedOnce, Undisturbed
<1>3. QED
  BY <1>1, <1>2 DEF RenewalInv

\* What a step of one actor does to the control.
LEMMA GotoShape ==
  ASSUME Shape, NEW a \in Actors, NEW l \in SweepStates \cup NoticeStates \cup {"idle"}, Goto(a, l)
  PROVE  /\ pc' \in [Actors -> SweepStates \cup NoticeStates \cup {"idle"}] /\ job' = job
         /\ job' \in [Actors -> [cycle : Nat, end : Nat, paid : BOOLEAN]]
         /\ pc'[a] = l /\ \A b \in Actors : b # a => pc'[b] = pc[b]
BY DEF Goto, Shape

LEMMA BeginShape ==
  ASSUME Shape, NEW a \in Actors, NEW l \in SweepStates \cup NoticeStates \cup {"idle"},
         NEW j \in [cycle : Nat, end : Nat, paid : BOOLEAN], Begin(a, l, j)
  PROVE  /\ pc' \in [Actors -> SweepStates \cup NoticeStates \cup {"idle"}]
         /\ job' \in [Actors -> [cycle : Nat, end : Nat, paid : BOOLEAN]]
         /\ pc'[a] = l /\ job'[a] = j
         /\ \A b \in Actors : b # a => pc'[b] = pc[b] /\ job'[b] = job[b]
BY DEF Begin, Shape

LEMMA NoJobShape == NoJob \in [cycle : Nat, end : Nat, paid : BOOLEAN] /\ NoJob.cycle = 0
BY DEF NoJob

\* A term added to a date leaves a row of the same shape.
LEMMA LengthenedShape ==
  ASSUME Shape, NEW n \in Nat
  PROVE  /\ Lengthened(n) \in [active : BOOLEAN, auto : BOOLEAN, cancelled : BOOLEAN, end : Nat,
                               due : BOOLEAN, method : {"credits", "stripe", "none"}]
         /\ Lengthened(n).end = n + 1
<1>1. sub \in [active : BOOLEAN, auto : BOOLEAN, cancelled : BOOLEAN, end : Nat,
              due : BOOLEAN, method : {"credits", "stripe", "none"}]
  BY DEF Shape
<1>2. n + 1 \in Nat
  OBVIOUS
<1>3. QED
  BY <1>1, <1>2 DEF Lengthened

\* A row of subscription_renewals takes a status it knows.
LEMMA SetRenewalShape ==
  ASSUME Shape, NEW k, NEW s \in RenewalStates, SetRenewal(k, s)
  PROVE  /\ renewal' \in [Cycles -> RenewalStates]
         /\ \A c \in Cycles : renewal'[c] = IF c = k THEN s ELSE renewal[c]
BY DEF Shape, SetRenewal

-----------------------------------------------------------------------------
(* The shape of the state is kept.                                           *)

LEMMA SweepShape ==
  ASSUME Shape, NEW r \in Runs, StartSweep(r) \/ SweepStep(r) \/ SweepThrows(r)
  PROVE  Shape'
<1>1. r \in Actors /\ job[r].end \in Nat /\ job[r].cycle \in Nat
  BY Distinct DEF Shape
<1>2. CASE StartSweep(r)
  <2>1. [NoJob EXCEPT !.cycle = sub.end, !.end = sub.end] \in [cycle : Nat, end : Nat, paid : BOOLEAN]
    BY NoJobShape DEF Shape
  <2>2. (IF sub.method = "credits" THEN "claiming" ELSE "disabling") \in SweepStates
    BY DEF SweepStates
  <2>3. QED
    BY <1>1, <1>2, <2>1, <2>2, BeginShape DEF StartSweep, Shape, histVars
<1>3. CASE Disable(r)
  BY <1>1, <1>3, GotoShape DEF Disable, Shape, histVars, SweepStates
<1>4. CASE ClaimCycle(r)
  BY <1>1, <1>4, GotoShape, SetRenewalShape DEF ClaimCycle, Shape, histVars, SweepStates, RenewalStates
<1>5. CASE CheckCycle(r)
  BY <1>1, <1>5, GotoShape DEF CheckCycle, Shape, histVars, SweepStates
<1>6. CASE RetakeCycle(r)
  BY <1>1, <1>6, GotoShape, SetRenewalShape DEF RetakeCycle, Shape, histVars, SweepStates, RenewalStates
<1>7. CASE Spend(r)
  <2>1. debits' \in [Cycles -> 0 .. 2]
    BY <1>7 DEF Spend, Shape
  <2>2. \E l \in SweepStates : Goto(r, l)
    BY <1>7 DEF Spend, SweepStates
  <2>3. QED
    BY <1>1, <1>7, <2>1, <2>2, GotoShape DEF Spend, Shape, histVars
<1>8. CASE FailCycle(r)
  BY <1>1, <1>8, GotoShape, SetRenewalShape DEF FailCycle, Shape, histVars, SweepStates, RenewalStates
<1>9. CASE Reschedule(r)
  BY <1>1, <1>9, GotoShape DEF Reschedule, Shape, histVars, SweepStates
<1>10. CASE SucceedCycle(r)
  BY <1>1, <1>10, GotoShape, SetRenewalShape DEF SucceedCycle, Shape, histVars, SweepStates, RenewalStates
<1>11. CASE Extend(r)
  <2>1. sub' \in [active : BOOLEAN, auto : BOOLEAN, cancelled : BOOLEAN, end : Nat,
                  due : BOOLEAN, method : {"credits", "stripe", "none"}]
    BY <1>1, <1>11, LengthenedShape DEF Extend
  <2>2. QED
    BY <1>1, <1>11, <2>1, GotoShape DEF Extend, Shape, histVars, SweepStates
<1>12. CASE ReleaseJob(r)
  BY <1>1, <1>12, BeginShape, NoJobShape DEF ReleaseJob, Finish, Shape
<1>13. CASE SweepThrows(r)
  BY <1>1, <1>13, GotoShape DEF SweepThrows, Shape, SweepStates
<1>14. QED
  BY <1>2, <1>3, <1>4, <1>5, <1>6, <1>7, <1>8, <1>9, <1>10, <1>11, <1>12, <1>13 DEF SweepStep

\* A notification is recorded among the outcomes of its payment.
LEMMA SeenShape ==
  ASSUME Shape, NEW x \in Payments, NEW outcome \in {"paid", "declined"}, Notice(x, outcome)
  PROVE  /\ seen' \in [Payments -> SUBSET {"paid", "declined"}]
         /\ \A y \in Payments : seen'[y] = IF y = x THEN seen[y] \cup {outcome} ELSE seen[y]
<1>1. seen[x] \cup {outcome} \in SUBSET {"paid", "declined"}
  BY DEF Shape
<1>2. QED
  BY <1>1 DEF Notice, Shape

LEMMA NoticeShape ==
  ASSUME Shape, NEW x \in Payments,
         \/ OpenPayment(x) \/ PaidNotice(x) \/ DeclinedNotice(x) \/ NoticeStep(x) \/ ExtendFails(x)
  PROVE  Shape'
<1>1. x \in Actors /\ job[x].end \in Nat /\ job[x].cycle \in Nat /\ sub.end \in Nat /\ CycleOf(x) \in Nat
  BY Distinct DEF Shape, CycleOf
<1>2. CASE OpenPayment(x)
  <2>1. PICK kind \in {"stripe", "pay4bit"}, expected \in {NoEnd, sub.end} :
           pay' = [pay EXCEPT ![x] = [kind |-> kind, expected |-> expected]]
    BY <1>2 DEF OpenPayment
  <2>2. pay' \in [Payments -> [kind : {"none", "stripe", "pay4bit"}, expected : Nat \cup {NoEnd}]]
    BY <1>1, <2>1 DEF Shape
  <2>3. QED
    BY <1>2, <2>2 DEF OpenPayment, Shape, histVars
<1>3. CASE PaidNotice(x)
  <2>1. [cycle |-> CycleOf(x), end |-> sub.end, paid |-> TRUE] \in [cycle : Nat, end : Nat, paid : BOOLEAN]
    BY <1>1
  <2>2. seen' \in [Payments -> SUBSET {"paid", "declined"}]
    BY <1>3, SeenShape DEF PaidNotice
  <2>3. QED
    BY <1>1, <1>3, <2>1, <2>2, BeginShape DEF PaidNotice, Shape, NoticeStates
<1>4. CASE DeclinedNotice(x)
  <2>1. [cycle |-> CycleOf(x), end |-> sub.end, paid |-> FALSE] \in [cycle : Nat, end : Nat, paid : BOOLEAN]
    BY <1>1
  <2>2. seen' \in [Payments -> SUBSET {"paid", "declined"}]
    BY <1>4, SeenShape DEF DeclinedNotice
  <2>3. /\ pc' \in [Actors -> SweepStates \cup NoticeStates \cup {"idle"}]
        /\ job' \in [Actors -> [cycle : Nat, end : Nat, paid : BOOLEAN]]
    BY <1>1, <1>4, <2>1, BeginShape DEF DeclinedNotice, Shape, NoticeStates
  <2>4. QED
    BY <1>4, <2>2, <2>3 DEF DeclinedNotice, Shape, histVars
<1>5. CASE RetryOrDisable(x)
  <2>1. PICK on \in {sub.auto, FALSE} : sub' = [sub EXCEPT !.due = FALSE, !.auto = on]
    BY <1>5 DEF RetryOrDisable
  <2>2. QED
    BY <1>1, <1>5, <2>1, GotoShape DEF RetryOrDisable, Shape, histVars, NoticeStates
<1>6. CASE TakeCycle(x)
  <2>1. \E l \in NoticeStates : Goto(x, l)
    BY <1>6 DEF TakeCycle, NoticeStates
  <2>2. renewal' \in [Cycles -> RenewalStates]
    BY <1>6, SetRenewalShape DEF TakeCycle, Shape, RenewalStates
  <2>3. QED
    BY <1>1, <1>6, <2>1, <2>2, GotoShape DEF TakeCycle, Shape
<1>7. CASE InsertCycle(x)
  <2>1. (\E l \in NoticeStates : Goto(x, l)) \/ Finish(x)
    BY <1>7 DEF InsertCycle, NoticeStates
  <2>2. /\ pc' \in [Actors -> SweepStates \cup NoticeStates \cup {"idle"}]
        /\ job' \in [Actors -> [cycle : Nat, end : Nat, paid : BOOLEAN]]
    BY <1>1, <2>1, GotoShape, BeginShape, NoJobShape DEF Finish
  <2>3. renewal' \in [Cycles -> RenewalStates]
    BY <1>7 DEF InsertCycle, Shape, RenewalStates
  <2>4. QED
    BY <1>7, <2>2, <2>3 DEF InsertCycle, Shape, histVars
<1>8. CASE ExtendGuarded(x)
  <2>1. CASE UNCHANGED sub
    BY <1>1, <1>8, <2>1, GotoShape DEF ExtendGuarded, Shape, histVars, NoticeStates
  <2>2. CASE Renew(x)
    <3>1. sub' \in [active : BOOLEAN, auto : BOOLEAN, cancelled : BOOLEAN, end : Nat,
                    due : BOOLEAN, method : {"credits", "stripe", "none"}]
      BY <1>1, <2>2, LengthenedShape DEF Renew
    <3>2. QED
      BY <1>1, <1>8, <3>1, GotoShape DEF ExtendGuarded, Shape, histVars, NoticeStates
  <2>3. QED
    BY <1>8, <2>1, <2>2 DEF ExtendGuarded
<1>9. CASE MarkSucceeded(x)
  BY <1>1, <1>9, BeginShape, NoJobShape, SetRenewalShape DEF MarkSucceeded, Finish, Shape, histVars, RenewalStates
<1>10. CASE MarkFailed(x)
  BY <1>1, <1>10, BeginShape, NoJobShape, SetRenewalShape DEF MarkFailed, Finish, Shape, RenewalStates
<1>11. CASE ExtendFails(x)
  <2>1. \E l \in NoticeStates : Goto(x, l)
    BY <1>11 DEF ExtendFails, NoticeStates
  <2>2. QED
    BY <1>1, <1>11, <2>1, GotoShape DEF ExtendFails, Shape
<1>12. QED
  BY <1>2, <1>3, <1>4, <1>5, <1>6, <1>7, <1>8, <1>9, <1>10, <1>11 DEF NoticeStep

LEMMA ShapeStep ==
  ASSUME Shape, [Next]_vars
  PROVE  Shape'
<1>1. CASE \E r \in Runs : StartSweep(r) \/ SweepStep(r) \/ SweepThrows(r)
  BY <1>1, SweepShape
<1>2. CASE \E x \in Payments : \/ OpenPayment(x) \/ PaidNotice(x) \/ DeclinedNotice(x)
                              \/ NoticeStep(x) \/ ExtendFails(x)
  BY <1>2, NoticeShape
<1>3. ASSUME NEW a \in Actors, Crash(a) PROVE Shape'
  <2>1. /\ pc' \in [Actors -> SweepStates \cup NoticeStates \cup {"idle"}]
        /\ job' \in [Actors -> [cycle : Nat, end : Nat, paid : BOOLEAN]]
    BY <1>3, BeginShape, NoJobShape DEF Crash, Finish
  <2>2. QED
    BY <1>3, <2>1 DEF Crash, Shape
<1>4. CASE Cancel \/ Expire \/ BillingComes
  BY <1>4 DEF Cancel, Expire, BillingComes, Shape, histVars
<1>5. CASE RedeemReward
  <2>1. sub.end \in Nat
    BY DEF Shape
  <2>2. sub' \in [active : BOOLEAN, auto : BOOLEAN, cancelled : BOOLEAN, end : Nat,
                  due : BOOLEAN, method : {"credits", "stripe", "none"}]
    BY <1>5, <2>1, LengthenedShape DEF RedeemReward
  <2>3. QED
    BY <1>5, <2>2 DEF RedeemReward, Shape, histVars
<1>6. CASE LockLapses
  BY <1>6 DEF LockLapses, Shape
<1>7. CASE UNCHANGED vars
  BY <1>7 DEF vars, Shape
<1>8. QED
  BY <1>1, <1>2, <1>3, <1>4, <1>5, <1>6, <1>7 DEF Next

-----------------------------------------------------------------------------
(* One run, one charge.                                                      *)

\* A step of a run's keeps the key with it, and the others away.
LEMMA OneRunStep ==
  ASSUME Shape, OneRun, [Next]_vars
  PROVE  OneRun'
<1>1. ASSUME NEW r \in Runs, jobLock' = jobLock, overlap' = overlap, pc[r] # "idle",
             \A b \in Actors : b # r => pc'[b] = pc[b]
      PROVE  OneRun'
  BY <1>1, Distinct DEF OneRun
<1>2. ASSUME jobLock' = jobLock, overlap' = overlap, \A r \in Runs : pc'[r] \in {pc[r], "idle"}
      PROVE  OneRun'
  BY <1>2 DEF OneRun
<1>3. ASSUME NEW r \in Runs, StartSweep(r) PROVE OneRun'
  <2>1. \A b \in Actors : b # r => pc'[b] = pc[b]
    BY <1>3 DEF StartSweep, Begin, Shape
  <2>2. QED
    BY <1>3, <2>1, Distinct DEF StartSweep, OneRun, histVars
<1>4. ASSUME NEW r \in Runs, NEW l, Goto(r, l), jobLock' = jobLock, overlap' = overlap, pc[r] # "idle"
      PROVE  OneRun'
  BY <1>1, <1>4 DEF Goto, Shape
<1>5. ASSUME NEW r \in Runs, Disable(r) \/ ClaimCycle(r) \/ CheckCycle(r) \/ RetakeCycle(r) \/ Spend(r)
                            \/ FailCycle(r) \/ Reschedule(r) \/ SucceedCycle(r) \/ Extend(r) \/ SweepThrows(r)
      PROVE  OneRun'
  <2>1. \E l : Goto(r, l)
    BY <1>5 DEF Disable, ClaimCycle, CheckCycle, RetakeCycle, Spend, FailCycle, Reschedule,
       SucceedCycle, Extend, SweepThrows
  <2>2. jobLock' = jobLock /\ overlap' = overlap /\ pc[r] # "idle"
    BY <1>5 DEF Disable, ClaimCycle, CheckCycle, RetakeCycle, Spend, FailCycle, Reschedule,
       SucceedCycle, Extend, SweepThrows, histVars, SweepStates
  <2>3. QED
    BY <1>4, <2>1, <2>2
<1>6. ASSUME NEW r \in Runs, ReleaseJob(r) PROVE OneRun'
  <2>1. pc'[r] = "idle" /\ \A b \in Actors : b # r => pc'[b] = pc[b]
    BY <1>6, Distinct DEF ReleaseJob, Finish, Begin, Shape
  <2>2. QED
    BY <1>6, <2>1, Distinct DEF ReleaseJob, OneRun
<1>7. ASSUME NEW x \in Payments, \/ OpenPayment(x) \/ PaidNotice(x) \/ DeclinedNotice(x)
                                \/ NoticeStep(x) \/ ExtendFails(x)
      PROVE  OneRun'
  <2>1. UNCHANGED pc \/ \E l : pc' = [pc EXCEPT ![x] = l]
    BY <1>7 DEF OpenPayment, PaidNotice, DeclinedNotice, NoticeStep, RetryOrDisable, TakeCycle, InsertCycle,
       ExtendGuarded, MarkSucceeded, MarkFailed, ExtendFails, Goto, Begin, Finish
  <2>2. jobLock' = jobLock /\ overlap' = overlap
    BY <1>7 DEF OpenPayment, PaidNotice, DeclinedNotice, NoticeStep, RetryOrDisable, TakeCycle, InsertCycle,
       ExtendGuarded, MarkSucceeded, MarkFailed, ExtendFails, histVars
  <2>3. \A r \in Runs : pc'[r] = pc[r]
    BY <2>1, Distinct DEF Shape
  <2>4. QED
    BY <1>2, <2>2, <2>3
<1>8. ASSUME NEW a \in Actors, Crash(a) PROVE OneRun'
  BY <1>2, <1>8, Distinct DEF Crash, Finish, Begin, Shape
<1>9. CASE Cancel \/ RedeemReward \/ Expire \/ BillingComes
  BY <1>2, <1>9 DEF Cancel, RedeemReward, Expire, BillingComes, histVars
<1>10. CASE LockLapses
  <2>1. CASE pc[jobLock] = "idle"
    BY <1>10, <2>1 DEF LockLapses, OneRun
  <2>2. CASE pc[jobLock] # "idle"
    BY <1>10, <2>2 DEF LockLapses, OneRun
  <2>3. QED
    BY <2>1, <2>2
<1>11. CASE UNCHANGED vars
  BY <1>11 DEF vars, OneRun
<1>12. QED
  BY <1>3, <1>5, <1>6, <1>7, <1>8, <1>9, <1>10, <1>11 DEF Next, SweepStep

\* What the steps of a run do to a cycle nobody disturbed.
LEMMA SweepCharges ==
  ASSUME Shape, OneRun, ~overlap, NEW k \in Cycles, Undisturbed(k),
         NEW r \in Runs, StartSweep(r) \/ SweepStep(r) \/ SweepThrows(r)
  PROVE  Undisturbed(k)'
<1>1. r \in Actors /\ Runs \subseteq Actors
  BY Distinct
<1>2. ASSUME UNCHANGED <<debits, renewal>>, pc'[r] \notin {"retaking", "spending", "failing"},
             \A b \in Actors : b # r => pc'[b] = pc[b] /\ job'[b] = job[b]
      PROVE  Undisturbed(k)'
  BY <1>1, <1>2 DEF Undisturbed
<1>3. ASSUME NEW l \in SweepStates \ {"retaking", "spending", "failing"}, Goto(r, l), UNCHANGED <<debits, renewal>>
      PROVE  Undisturbed(k)'
  BY <1>1, <1>2, <1>3, GotoShape
<1>4. pc[r] # "idle" => \A q \in Runs : q # r => pc[q] = "idle"
  BY DEF OneRun
<1>5. CASE StartSweep(r)
  BY <1>1, <1>2, <1>5 DEF StartSweep, Begin, Shape
<1>6. CASE Disable(r) \/ Reschedule(r) \/ Extend(r) \/ SweepThrows(r)
  BY <1>3, <1>6 DEF Disable, Reschedule, Extend, SweepThrows, SweepStates
<1>7. CASE ClaimCycle(r)
  <2>1. CASE renewal[job[r].cycle] = "none"
    <3>1. /\ pc'[r] = "spending" /\ job' = job
          /\ \A b \in Actors : b # r => pc'[b] = pc[b]
      BY <1>1, <1>7, <2>1, GotoShape DEF ClaimCycle, SweepStates
    <3>2. \A c \in Cycles : renewal'[c] = IF c = job[r].cycle THEN "pending" ELSE renewal[c]
      BY <1>7, <2>1, SetRenewalShape DEF ClaimCycle, RenewalStates
    <3>3. debits' = debits
      BY <1>7 DEF ClaimCycle
    <3>4. QED
      BY <1>1, <2>1, <3>1, <3>2, <3>3 DEF Undisturbed
  <2>2. CASE renewal[job[r].cycle] # "none"
    BY <1>3, <1>7, <2>2 DEF ClaimCycle, SweepStates
  <2>3. QED
    BY <2>1, <2>2
<1>8. CASE CheckCycle(r)
  <2>1. CASE renewal[job[r].cycle] = "failed"
    <3>1. /\ pc'[r] = "retaking" /\ job' = job
          /\ \A b \in Actors : b # r => pc'[b] = pc[b]
      BY <1>1, <1>8, <2>1, GotoShape DEF CheckCycle, SweepStates
    <3>2. UNCHANGED <<renewal, debits>>
      BY <1>8 DEF CheckCycle
    <3>3. QED
      BY <1>1, <2>1, <3>1, <3>2 DEF Undisturbed
  <2>2. CASE renewal[job[r].cycle] # "failed"
    BY <1>3, <1>8, <2>2 DEF CheckCycle, SweepStates
  <2>3. QED
    BY <2>1, <2>2
<1>9. CASE RetakeCycle(r)
  <2>1. /\ pc[r] = "retaking" /\ pc'[r] = "spending" /\ job' = job
        /\ \A b \in Actors : b # r => pc'[b] = pc[b]
    BY <1>1, <1>9, GotoShape DEF RetakeCycle, SweepStates
  <2>2. \A c \in Cycles : renewal'[c] = IF c = job[r].cycle THEN "pending" ELSE renewal[c]
    BY <1>9, SetRenewalShape DEF RetakeCycle, RenewalStates
  <2>3. debits' = debits
    BY <1>9 DEF RetakeCycle
  <2>4. QED
    BY <1>1, <2>1, <2>2, <2>3 DEF Undisturbed
<1>10. CASE Spend(r)
  <2>1. /\ pc[r] = "spending" /\ pc'[r] \in {"succeeding", "failing"} /\ job' = job
        /\ \A q \in Runs : q # r => pc'[q] = "idle"
    BY <1>1, <1>4, <1>10, GotoShape DEF Spend, SweepStates
  <2>2. renewal' = renewal
    BY <1>10 DEF Spend
  <2>3. CASE debits' = debits
    BY <1>1, <2>1, <2>2, <2>3 DEF Undisturbed
  <2>4. CASE debits' = [debits EXCEPT ![job[r].cycle] = @ + 1] /\ Goto(r, "succeeding")
    <3>1. pc'[r] = "succeeding"
      BY <1>1, <2>4, GotoShape DEF SweepStates
    <3>2. debits'[k] = IF k = job[r].cycle THEN debits[k] + 1 ELSE debits[k]
      BY <2>4 DEF Shape
    <3>3. QED
      BY <1>1, <2>1, <2>2, <3>1, <3>2 DEF Undisturbed
  <2>5. QED
    BY <1>10, <2>3, <2>4 DEF Spend
<1>11. CASE FailCycle(r)
  <2>1. /\ pc[r] = "failing" /\ pc'[r] = "rescheduling" /\ job' = job
        /\ \A q \in Runs : q # r => pc'[q] = "idle"
    BY <1>1, <1>4, <1>11, GotoShape DEF FailCycle, SweepStates
  <2>2. \A c \in Cycles : renewal'[c] = IF c = job[r].cycle THEN "failed" ELSE renewal[c]
    BY <1>11, SetRenewalShape DEF FailCycle, RenewalStates
  <2>3. debits' = debits
    BY <1>11 DEF FailCycle
  <2>4. QED
    BY <1>1, <2>1, <2>2, <2>3 DEF Undisturbed
<1>12. CASE SucceedCycle(r)
  <2>1. /\ pc'[r] = "extending" /\ job' = job
        /\ \A b \in Actors : b # r => pc'[b] = pc[b]
    BY <1>1, <1>12, GotoShape DEF SucceedCycle, SweepStates
  <2>2. \A c \in Cycles : renewal'[c] = IF c = job[r].cycle THEN "succeeded" ELSE renewal[c]
    BY <1>12, SetRenewalShape DEF SucceedCycle, RenewalStates
  <2>3. debits' = debits
    BY <1>12 DEF SucceedCycle
  <2>4. QED
    BY <1>1, <2>1, <2>2, <2>3 DEF Undisturbed
<1>13. CASE ReleaseJob(r)
  BY <1>1, <1>2, <1>13, BeginShape, NoJobShape DEF ReleaseJob, Finish
<1>14. QED
  BY <1>5, <1>6, <1>7, <1>8, <1>9, <1>10, <1>11, <1>12, <1>13 DEF SweepStep

\* What the steps of a notification do to a cycle it has not overruled.
LEMMA NoticeCharges ==
  ASSUME Shape, NEW k \in Cycles, Undisturbed(k), k \notin overruled',
         NEW x \in Payments, \/ OpenPayment(x) \/ PaidNotice(x) \/ DeclinedNotice(x)
                            \/ NoticeStep(x) \/ ExtendFails(x)
  PROVE  Undisturbed(k)'
<1>1. x \in Actors /\ Runs \subseteq Actors /\ x \notin Runs
  BY Distinct
<1>2. debits' = debits
  BY DEF OpenPayment, PaidNotice, DeclinedNotice, NoticeStep, RetryOrDisable, TakeCycle, InsertCycle,
     ExtendGuarded, MarkSucceeded, MarkFailed, ExtendFails
<1>3. \A r \in Runs : pc'[r] = pc[r] /\ job'[r] = job[r]
  <2>1. UNCHANGED pc \/ \E l : pc' = [pc EXCEPT ![x] = l]
    BY DEF OpenPayment, PaidNotice, DeclinedNotice, NoticeStep, RetryOrDisable, TakeCycle, InsertCycle,
       ExtendGuarded, MarkSucceeded, MarkFailed, ExtendFails, Goto, Begin, Finish
  <2>2. UNCHANGED job \/ \E j : job' = [job EXCEPT ![x] = j]
    BY DEF OpenPayment, PaidNotice, DeclinedNotice, NoticeStep, RetryOrDisable, TakeCycle, InsertCycle,
       ExtendGuarded, MarkSucceeded, MarkFailed, ExtendFails, Goto, Begin, Finish
  <2>3. QED
    BY <1>1, <2>1, <2>2 DEF Shape
<1>4. ASSUME \/ renewal'[k] = renewal[k]
             \/ renewal'[k] = "succeeded"
             \/ renewal[k] \notin {"pending", "succeeded"}
      PROVE  Undisturbed(k)'
  BY <1>1, <1>2, <1>3, <1>4 DEF Undisturbed
<1>5. CASE OpenPayment(x) \/ PaidNotice(x) \/ DeclinedNotice(x) \/ RetryOrDisable(x) \/ ExtendGuarded(x) \/ ExtendFails(x)
  BY <1>4, <1>5 DEF OpenPayment, PaidNotice, DeclinedNotice, RetryOrDisable, ExtendGuarded, ExtendFails
<1>6. CASE TakeCycle(x)
  <2>1. CASE renewal[job[x].cycle] \in {"none", "succeeded"}
    BY <1>4, <1>6, <2>1 DEF TakeCycle
  <2>2. CASE renewal[job[x].cycle] \notin {"none", "succeeded"}
    <3>1. renewal'[k] = IF k = job[x].cycle THEN "processing" ELSE renewal[k]
      BY <1>6, <2>2, SetRenewalShape DEF TakeCycle, RenewalStates
    <3>2. k = job[x].cycle => renewal[k] # "pending"
      BY <1>6 DEF TakeCycle
    <3>3. QED
      BY <1>4, <2>2, <3>1, <3>2
  <2>3. QED
    BY <2>1, <2>2
<1>7. CASE InsertCycle(x)
  <2>1. \/ renewal' = renewal
        \/ renewal' = [renewal EXCEPT ![job[x].cycle] = IF @ = "none" THEN "processing" ELSE @]
    BY <1>7 DEF InsertCycle
  <2>2. renewal'[k] = renewal[k] \/ renewal[k] = "none"
    BY <2>1 DEF Shape
  <2>3. QED
    BY <1>4, <2>2
<1>8. CASE MarkSucceeded(x)
  BY <1>4, <1>8, SetRenewalShape DEF MarkSucceeded, RenewalStates
<1>9. CASE MarkFailed(x)
  <2>1. renewal'[k] = IF k = job[x].cycle THEN "failed" ELSE renewal[k]
    BY <1>9, SetRenewalShape DEF MarkFailed, RenewalStates
  <2>2. k = job[x].cycle => renewal[k] = "processing"
    BY <1>9 DEF MarkFailed
  <2>3. QED
    BY <1>4, <2>1, <2>2
<1>10. QED
  BY <1>5, <1>6, <1>7, <1>8, <1>9 DEF NoticeStep

LEMMA ChargeStep ==
  ASSUME Shape, OneRun, ChargedOnce, [Next]_vars
  PROVE  ChargedOnce'
<1> SUFFICES ASSUME ~overlap', NEW k \in Cycles, k \notin overruled'
             PROVE  Undisturbed(k)'
  BY DEF ChargedOnce, Cycles
<1>1. ~overlap /\ k \notin overruled
  <2>1. CASE \E r \in Runs : StartSweep(r) \/ SweepStep(r) \/ SweepThrows(r)
    <3>1. UNCHANGED <<overlap, overruled>>
      BY <2>1 DEF StartSweep, SweepStep, Disable, ClaimCycle, CheckCycle, RetakeCycle, Spend, FailCycle,
         Reschedule, SucceedCycle, Extend, ReleaseJob, SweepThrows, histVars
    <3>2. QED
      BY <3>1
  <2>2. CASE \E x \in Payments : \/ OpenPayment(x) \/ PaidNotice(x) \/ DeclinedNotice(x)
                                \/ NoticeStep(x) \/ ExtendFails(x)
    <3>1. overlap' = overlap /\ overruled \subseteq overruled'
      BY <2>2 DEF OpenPayment, PaidNotice, DeclinedNotice, NoticeStep, RetryOrDisable, TakeCycle,
         InsertCycle, ExtendGuarded, MarkSucceeded, MarkFailed, ExtendFails, histVars
    <3>2. QED
      BY <3>1
  <2>3. CASE Cancel \/ RedeemReward \/ Expire \/ BillingComes \/ (\E a \in Actors : Crash(a)) \/ UNCHANGED vars
    <3>1. UNCHANGED <<overlap, overruled>>
      BY <2>3 DEF Crash, Cancel, RedeemReward, Expire, BillingComes, histVars, vars
    <3>2. QED
      BY <3>1
  <2>4. CASE LockLapses
    BY <2>4 DEF LockLapses
  <2>5. QED
    BY <2>1, <2>2, <2>3, <2>4 DEF Next
<1>2. Undisturbed(k)
  BY <1>1 DEF ChargedOnce
<1>3. CASE \E r \in Runs : StartSweep(r) \/ SweepStep(r) \/ SweepThrows(r)
  BY <1>1, <1>2, <1>3, SweepCharges
<1>4. CASE \E x \in Payments : \/ OpenPayment(x) \/ PaidNotice(x) \/ DeclinedNotice(x)
                              \/ NoticeStep(x) \/ ExtendFails(x)
  BY <1>2, <1>4, NoticeCharges
<1>5. ASSUME NEW a \in Actors, Crash(a) PROVE Undisturbed(k)'
  <2>1. pc'[a] = "idle" /\ \A b \in Actors : b # a => pc'[b] = pc[b] /\ job'[b] = job[b]
    BY <1>5 DEF Crash, Finish, Begin, Shape
  <2>2. UNCHANGED <<debits, renewal>>
    BY <1>5 DEF Crash
  <2>3. QED
    BY <1>2, <2>1, <2>2, Distinct DEF Undisturbed
<1>6. CASE Cancel \/ RedeemReward \/ Expire \/ BillingComes \/ LockLapses
  <2>1. UNCHANGED <<pc, job, debits, renewal>>
    BY <1>6 DEF Cancel, RedeemReward, Expire, BillingComes, LockLapses
  <2>2. QED
    BY <1>2, <2>1 DEF Undisturbed
<1>7. CASE UNCHANGED vars
  BY <1>2, <1>7 DEF vars, Undisturbed
<1>8. QED
  BY <1>3, <1>4, <1>5, <1>6, <1>7 DEF Next

-----------------------------------------------------------------------------
(* Who may lengthen the term, and by how much.                               *)

LEMMA LengthStep ==
  ASSUME Shape, [Next]_vars
  PROVE  /\ (sub.cancelled \/ ~sub.active) /\ sub'.end > sub.end =>
              rewards' # rewards \/ \E r \in Runs : pc[r] = "extending" /\ pc'[r] # pc[r]
         /\ \A x \in Payments :
              /\ pay[x].expected # NoEnd /\ job[x].end >= pay[x].expected
              /\ pc[x] = "extending" /\ pc'[x] = "succeeding"
              => sub'.end >= sub.end
<1> DEFINE Longer == sub'.end > sub.end
           Allow == rewards' # rewards \/ \E r \in Runs : pc[r] = "extending" /\ pc'[r] # pc[r]
           Passing(x) == pc[x] = "extending" /\ pc'[x] = "succeeding"
<1> SUFFICES /\ (sub.cancelled \/ ~sub.active) /\ Longer => Allow
             /\ \A x \in Payments : pay[x].expected # NoEnd /\ job[x].end >= pay[x].expected /\ Passing(x)
                                   => sub'.end >= sub.end
  OBVIOUS
<1>1. sub.end \in Nat
  BY DEF Shape
<1>2. ASSUME sub'.end = sub.end PROVE ~Longer /\ sub'.end >= sub.end
  BY <1>1, <1>2
<1>3. ASSUME NEW r \in Runs, Extend(r) PROVE Allow /\ \A x \in Payments : ~Passing(x)
  <2>1. pc[r] = "extending" /\ pc'[r] = "releasing" /\ \A b \in Actors : b # r => pc'[b] = pc[b]
    BY <1>3, Distinct, GotoShape DEF Extend, SweepStates
  <2>2. QED
    BY <2>1, Distinct
<1>4. CASE RedeemReward
  BY <1>4 DEF RedeemReward, Shape
<1>5. ASSUME NEW x \in Payments, ExtendGuarded(x)
      PROVE  /\ (sub.cancelled \/ ~sub.active) => ~Longer
             /\ \A y \in Payments : pay[y].expected # NoEnd /\ job[y].end >= pay[y].expected /\ Passing(y)
                                   => sub'.end >= sub.end
  <2>1. CASE UNCHANGED sub
    BY <1>2, <2>1
  <2>2. CASE Renewable(x) /\ Renew(x)
    <3>1. job[x].end \in Nat /\ sub'.end = job[x].end + 1
      BY <2>2, LengthenedShape, Distinct DEF Renew, Shape
    <3>2. \A y \in Payments : y # x => ~Passing(y)
      BY <1>5, Distinct, GotoShape DEF ExtendGuarded, NoticeStates
    <3>3. pay[x].expected # NoEnd => pay[x].expected \in Nat /\ sub.end <= pay[x].expected
      BY <2>2, Distinct DEF Renewable, Shape
    <3>4. QED
      BY <1>1, <2>2, <3>1, <3>2, <3>3 DEF Renewable
  <2>3. QED
    BY <1>5, <2>1, <2>2 DEF ExtendGuarded
<1>6. ASSUME \/ \E r \in Runs : \/ StartSweep(r) \/ Disable(r) \/ ClaimCycle(r) \/ CheckCycle(r) \/ RetakeCycle(r)
                                \/ Spend(r) \/ FailCycle(r) \/ Reschedule(r) \/ SucceedCycle(r) \/ ReleaseJob(r)
                                \/ SweepThrows(r)
             \/ \E x \in Payments : \/ OpenPayment(x) \/ PaidNotice(x) \/ DeclinedNotice(x) \/ RetryOrDisable(x)
                                    \/ TakeCycle(x) \/ InsertCycle(x) \/ MarkSucceeded(x) \/ MarkFailed(x)
                                    \/ ExtendFails(x)
             \/ \E a \in Actors : Crash(a)
             \/ Cancel \/ Expire \/ BillingComes \/ LockLapses \/ UNCHANGED vars
      PROVE  sub'.end = sub.end
  BY <1>6 DEF StartSweep, Disable, ClaimCycle, CheckCycle, RetakeCycle, Spend, FailCycle,
     Reschedule, SucceedCycle, ReleaseJob, SweepThrows, OpenPayment, PaidNotice, DeclinedNotice,
     RetryOrDisable, TakeCycle, InsertCycle, MarkSucceeded, MarkFailed,
     ExtendFails, Crash, Cancel, Expire, BillingComes, LockLapses, vars, Shape
<1>7. QED
  <2>1. CASE \E r \in Runs : Extend(r)
    BY <1>3, <2>1
  <2>2. CASE RedeemReward
    <3>1. Allow /\ \A x \in Payments : ~Passing(x)
      BY <2>2, <1>4 DEF RedeemReward, Shape
    <3>2. QED
      BY <3>1
  <2>3. CASE \E x \in Payments : ExtendGuarded(x)
    BY <1>5, <2>3
  <2>4. CASE sub'.end = sub.end
    BY <1>2, <2>4
  <2>5. QED
    BY <1>6, <2>1, <2>2, <2>3, <2>4 DEF Next, SweepStep, NoticeStep

-----------------------------------------------------------------------------
(* The terms there may be.                                                   *)

LEMMA SetsAreFinite ==
  ASSUME Shape
  PROVE  /\ IsFiniteSet(Cycles \X (1 .. 2)) /\ IsFiniteSet(Charges) /\ IsFiniteSet(PaidFor)
         /\ Cardinality(Charges) \in Nat /\ Cardinality(PaidFor) \in Nat
         /\ 0 .. MaxEnd \subseteq Cycles
<1>1. Cardinality(Payments) \in Nat
  BY FS_CardinalityType, SubscriptionRenewalAssumption
<1>2. IsFiniteSet(Cycles) /\ 0 .. MaxEnd \subseteq Cycles
  <2>1. MaxEnd + 1 + MaxRewards + Cardinality(Payments) \in Nat
    BY <1>1, SubscriptionRenewalAssumption
  <2>2. MaxEnd <= MaxEnd + 1 + MaxRewards + Cardinality(Payments)
    BY <1>1, SubscriptionRenewalAssumption
  <2>3. IsFiniteSet(0 .. (MaxEnd + 1 + MaxRewards + Cardinality(Payments)))
    BY <2>1, FS_Interval
  <2>4. QED
    BY <2>1, <2>2, <2>3, SubscriptionRenewalAssumption DEF Cycles
<1>3. IsFiniteSet(Cycles \X (1 .. 2))
  <2>1. IsFiniteSet(1 .. 2)
    <3>1. 1 \in Int /\ 2 \in Int
      OBVIOUS
    <3>2. QED
      BY ONLY <3>1, FS_Interval
  <2>2. QED
    BY <1>2, <2>1, FS_Product
<1>4. IsFiniteSet(Charges)
  BY <1>3, FS_Subset DEF Charges
<1>5. IsFiniteSet(PaidFor)
  BY FS_Subset, SubscriptionRenewalAssumption DEF PaidFor
<1>6. QED
  BY <1>2, <1>3, <1>4, <1>5, FS_CardinalityType

\* A debit of a cycle is one charge more.
LEMMA OneCharge ==
  ASSUME Shape, NEW k \in Cycles, debits[k] < 2, debits' = [debits EXCEPT ![k] = @ + 1]
  PROVE  Cardinality(Charges') = Cardinality(Charges) + 1
<1> DEFINE c == <<k, debits[k] + 1>>
<1>1. debits[k] \in 0 .. 2 /\ \A n \in Cycles : debits'[n] = IF n = k THEN debits[k] + 1 ELSE debits[n]
  BY DEF Shape
<1>2. c \in Cycles \X (1 .. 2) /\ c \notin Charges
  BY <1>1 DEF Charges
<1>3. Charges' = Charges \cup {c}
  <2>1. \A n \in Cycles, i \in 1 .. 2 : i <= debits'[n] <=> (i <= debits[n] \/ (n = k /\ i = debits[k] + 1))
    BY <1>1 DEF Shape
  <2>2. QED
    BY <1>2, <2>1 DEF Charges
<1>4. QED
  BY <1>2, <1>3, SetsAreFinite, FS_AddElement

\* A payment whose notification comes is paid from then on.
LEMMA OnePayment ==
  ASSUME Shape, NEW x \in Payments, PaidNotice(x)
  PROVE  Cardinality(PaidFor') = Cardinality(PaidFor) + 1
<1>1. \A y \in Payments : seen'[y] = IF y = x THEN seen[y] \cup {"paid"} ELSE seen[y]
  BY SeenShape DEF PaidNotice
<1>2. x \notin PaidFor
  BY DEF PaidNotice, Notice, PaidFor, Paid
<1>3. PaidFor' = PaidFor \cup {x}
  BY <1>1 DEF PaidFor, Paid
<1>4. QED
  BY <1>2, <1>3, SetsAreFinite, FS_AddElement

\* What a step does to the terms: three kinds of them add one, none takes one away.
LEMMA TermsStep ==
  ASSUME Shape, RunJobs, [Next]_vars
  PROVE  /\ Terms \in Nat /\ Terms' \in Nat /\ Terms' >= Terms
         /\ \A r \in Runs : Spend(r) /\ pc'[r] = "succeeding" => Terms' = Terms + 1
         /\ \A x \in Payments : PaidNotice(x) => Terms' = Terms + 1
         /\ RedeemReward => Terms' = Terms + 1
<1>1. Shape'
  BY ShapeStep
<1>2. Terms \in Nat /\ Terms' \in Nat
  <2>1. Terms \in Nat
    BY SetsAreFinite DEF Terms, Shape
  <2>2. IsFiniteSet(Charges') /\ IsFiniteSet(PaidFor') /\ rewards' \in Nat
    <3>1. Charges' \subseteq Cycles \X (1 .. 2) /\ PaidFor' \subseteq Payments
      BY DEF Charges, PaidFor
    <3>2. IsFiniteSet(Cycles \X (1 .. 2))
      BY SetsAreFinite
    <3>3. QED
      BY <1>1, <3>1, <3>2, FS_Subset, SubscriptionRenewalAssumption DEF Shape
  <2>3. QED
    BY <2>1, <2>2, FS_CardinalityType DEF Terms
<1>3. ASSUME UNCHANGED <<debits, rewards>>, PaidFor' = PaidFor PROVE Terms' = Terms
  BY <1>3 DEF Terms, Charges
<1>4. ASSUME NEW r \in Runs, Spend(r)
      PROVE  (pc'[r] = "succeeding" => Terms' = Terms + 1) /\ Terms' >= Terms
  <2>1. PaidFor' = PaidFor /\ rewards' = rewards
    BY <1>4 DEF Spend, PaidFor, Paid
  <2>2. CASE debits' = debits /\ Goto(r, "failing")
    <3>1. pc'[r] = "failing"
      BY <2>2, Distinct, GotoShape DEF SweepStates
    <3>2. QED
      BY <1>2, <1>3, <2>1, <2>2, <3>1
  <2>3. CASE debits[job[r].cycle] < 2 /\ debits' = [debits EXCEPT ![job[r].cycle] = @ + 1]
    <3>1. Cardinality(Charges') = Cardinality(Charges) + 1
      BY <2>3, OneCharge DEF RunJobs
    <3>2. QED
      BY <1>2, <2>1, <3>1, SetsAreFinite DEF Terms, Shape
  <2>4. QED
    BY <1>4, <2>2, <2>3 DEF Spend
<1>5. ASSUME NEW x \in Payments, PaidNotice(x) PROVE Terms' = Terms + 1
  <2>1. Charges' = Charges /\ rewards' = rewards
    BY <1>5 DEF PaidNotice, Charges
  <2>2. QED
    BY <1>5, <2>1, OnePayment, SetsAreFinite DEF Terms, Shape
<1>6. ASSUME RedeemReward PROVE Terms' = Terms + 1
  <2>1. Charges' = Charges /\ PaidFor' = PaidFor /\ rewards' = rewards + 1
    BY <1>6 DEF RedeemReward, Charges, PaidFor, Paid
  <2>2. Cardinality(Charges) \in Nat /\ Cardinality(PaidFor) \in Nat /\ rewards \in Nat
    BY SetsAreFinite DEF Shape
  <2>3. QED
    BY <2>1, <2>2 DEF Terms
<1>7. ASSUME NEW x \in Payments, DeclinedNotice(x) PROVE Terms' = Terms
  <2>1. \A y \in Payments : "paid" \in seen'[y] <=> "paid" \in seen[y]
    BY <1>7, SeenShape DEF DeclinedNotice
  <2>2. PaidFor' = PaidFor
    BY <2>1 DEF PaidFor, Paid
  <2>3. QED
    BY <1>3, <1>7, <2>2 DEF DeclinedNotice
<1>8. ASSUME \/ \E r \in Runs : \/ StartSweep(r) \/ Disable(r) \/ ClaimCycle(r) \/ CheckCycle(r) \/ RetakeCycle(r)
                                \/ FailCycle(r) \/ Reschedule(r) \/ SucceedCycle(r) \/ Extend(r) \/ ReleaseJob(r)
                                \/ SweepThrows(r)
             \/ \E x \in Payments : \/ OpenPayment(x) \/ NoticeStep(x) \/ ExtendFails(x)
             \/ \E a \in Actors : Crash(a)
             \/ Cancel \/ Expire \/ BillingComes \/ LockLapses \/ UNCHANGED vars
      PROVE  UNCHANGED <<debits, rewards, seen>>
  BY <1>8 DEF StartSweep, Disable, ClaimCycle, CheckCycle, RetakeCycle, FailCycle, Reschedule,
     SucceedCycle, Extend, ReleaseJob, SweepThrows, OpenPayment, NoticeStep, RetryOrDisable, TakeCycle,
     InsertCycle, ExtendGuarded, MarkSucceeded, MarkFailed, ExtendFails, Crash, Cancel, Expire,
     BillingComes, LockLapses, vars
<1>9. ASSUME UNCHANGED <<debits, rewards, seen>> PROVE Terms' = Terms
  BY <1>3, <1>9 DEF PaidFor, Paid
<1>10. Terms' >= Terms
  BY <1>2, <1>4, <1>5, <1>6, <1>7, <1>8, <1>9 DEF Next, SweepStep
<1>11. QED
  BY <1>2, <1>4, <1>5, <1>6, <1>10

-----------------------------------------------------------------------------
(* What an actor has read.                                                   *)

\* A job begins with a selection or a notification, and ends; nothing else changes it.
LEMMA JobsStep ==
  ASSUME Shape, [Next]_vars
  PROVE  /\ \A r \in Runs : job'[r] \in {job[r], NoJob} \/ StartSweep(r)
         /\ \A x \in Payments : job'[x] \in {job[x], NoJob} \/ PaidNotice(x) \/ DeclinedNotice(x)
<1>1. ASSUME NEW a \in Actors, \/ job' = job
                              \/ job' = [job EXCEPT ![a] = NoJob]
      PROVE  \A b \in Actors : job'[b] \in {job[b], NoJob}
  BY <1>1 DEF Shape
<1>2. ASSUME NEW r \in Runs, StartSweep(r) PROVE \A b \in Actors : b # r => job'[b] = job[b]
  BY <1>2 DEF StartSweep, Begin, Shape
<1>3. ASSUME NEW x \in Payments, PaidNotice(x) \/ DeclinedNotice(x)
      PROVE  \A b \in Actors : b # x => job'[b] = job[b]
  BY <1>3 DEF PaidNotice, DeclinedNotice, Begin, Shape
<1>4. ASSUME NEW r \in Runs, \/ Disable(r) \/ ClaimCycle(r) \/ CheckCycle(r) \/ RetakeCycle(r) \/ Spend(r)
                            \/ FailCycle(r) \/ Reschedule(r) \/ SucceedCycle(r) \/ Extend(r) \/ ReleaseJob(r)
                            \/ SweepThrows(r)
      PROVE  \A b \in Actors : job'[b] \in {job[b], NoJob}
  BY <1>1, <1>4, Distinct DEF Disable, ClaimCycle, CheckCycle, RetakeCycle, Spend, FailCycle, Reschedule,
     SucceedCycle, Extend, ReleaseJob, SweepThrows, Goto, Finish, Begin
<1>5. ASSUME NEW x \in Payments, OpenPayment(x) \/ NoticeStep(x) \/ ExtendFails(x)
      PROVE  \A b \in Actors : job'[b] \in {job[b], NoJob}
  BY <1>1, <1>5, Distinct DEF OpenPayment, NoticeStep, RetryOrDisable, TakeCycle, InsertCycle, ExtendGuarded,
     MarkSucceeded, MarkFailed, ExtendFails, Goto, Finish, Begin
<1>6. ASSUME NEW a \in Actors, Crash(a) PROVE \A b \in Actors : job'[b] \in {job[b], NoJob}
  BY <1>1, <1>6 DEF Crash, Finish, Begin
<1>7. CASE Cancel \/ RedeemReward \/ Expire \/ BillingComes \/ LockLapses \/ UNCHANGED vars
  BY <1>7 DEF Cancel, RedeemReward, Expire, BillingComes, LockLapses, vars
<1>8. QED
  BY <1>2, <1>3, <1>4, <1>5, <1>6, <1>7, Distinct DEF Next, SweepStep

LEMMA RunJobsStep ==
  ASSUME Shape, RunJobs, [Next]_vars
  PROVE  RunJobs'
<1> SUFFICES ASSUME NEW r \in Runs
             PROVE  job'[r].cycle = job'[r].end /\ job'[r].end \in Cycles
  BY DEF RunJobs, Cycles
<1>1. CASE job'[r] = job[r]
  BY <1>1 DEF RunJobs
<1>2. CASE job'[r] = NoJob
  <2>1. 0 \in Cycles
    BY SetsAreFinite, SubscriptionRenewalAssumption
  <2>2. QED
    BY <1>2, <2>1 DEF NoJob
<1>3. CASE StartSweep(r)
  <2>1. job'[r] = [NoJob EXCEPT !.cycle = sub.end, !.end = sub.end]
    BY <1>3, Distinct DEF StartSweep, Begin, Shape
  <2>2. sub.end \in Cycles
    BY <1>3, SetsAreFinite, SubscriptionRenewalAssumption DEF StartSweep, Shape
  <2>3. QED
    BY <2>1, <2>2 DEF NoJob
<1>4. QED
  BY <1>1, <1>2, <1>3, JobsStep

LEMMA KnowsStep ==
  ASSUME Shape, NoticeKnows, [Next]_vars
  PROVE  NoticeKnows'
<1> SUFFICES ASSUME NEW x \in Payments, job'[x].paid
             PROVE  /\ pay'[x].kind # "none"
                    /\ x \in behind' \/ pay'[x].expected = NoEnd \/ job'[x].end >= pay'[x].expected
  BY DEF NoticeKnows
<1>1. pay[x].kind # "none" => pay'[x] = pay[x]
  BY DEF Next, vars, StartSweep, SweepStep, Disable, ClaimCycle, CheckCycle, RetakeCycle, Spend, FailCycle,
     Reschedule, SucceedCycle, Extend, ReleaseJob, SweepThrows, OpenPayment, PaidNotice, DeclinedNotice,
     NoticeStep, RetryOrDisable, TakeCycle, InsertCycle, ExtendGuarded, MarkSucceeded, MarkFailed,
     ExtendFails, Crash, Cancel, RedeemReward, Expire, BillingComes, LockLapses, Shape
<1>2. behind \subseteq behind'
  BY DEF Next, vars, StartSweep, SweepStep, Disable, ClaimCycle, CheckCycle, RetakeCycle, Spend, FailCycle,
     Reschedule, SucceedCycle, Extend, ReleaseJob, SweepThrows, OpenPayment, PaidNotice, DeclinedNotice,
     NoticeStep, RetryOrDisable, TakeCycle, InsertCycle, ExtendGuarded, MarkSucceeded, MarkFailed,
     ExtendFails, Crash, Cancel, RedeemReward, Expire, BillingComes, LockLapses, histVars
<1>3. CASE job'[x] = job[x]
  BY <1>1, <1>2, <1>3 DEF NoticeKnows
<1>4. CASE job'[x] = NoJob
  BY <1>4 DEF NoJob
<1>5. CASE PaidNotice(x)
  <2>1. job'[x].end = sub.end /\ pay' = pay /\ pay[x].kind # "none"
    BY <1>5, Distinct DEF PaidNotice, Notice, Begin, Shape
  <2>2. CASE pay[x].expected = NoEnd
    BY <2>1, <2>2
  <2>3. CASE pay[x].expected # NoEnd
    BY <1>5, <2>1, <2>3 DEF PaidNotice, CycleOf, Shape
  <2>4. QED
    BY <2>1, <2>2, <2>3
<1>6. CASE DeclinedNotice(x)
  <2>1. job' = job \/ job'[x].paid = FALSE
    BY <1>6, Distinct DEF DeclinedNotice, Begin, Shape
  <2>2. QED
    BY <1>3, <2>1
<1>7. QED
  BY <1>3, <1>4, <1>5, <1>6, JobsStep

\* Where the steps take a run: on with its job, to the end of it, or nowhere.
LEMMA RunMoves ==
  ASSUME Shape, [Next]_vars, NEW r \in Runs
  PROVE  \/ pc'[r] = pc[r] /\ job'[r] = job[r]
         \/ StartSweep(r)
         \/ Spend(r) /\ job'[r] = job[r] /\ pc'[r] \in {"succeeding", "failing"}
         \/ Extend(r) /\ pc'[r] = "releasing"
         \/ pc[r] = "succeeding" /\ pc'[r] = "extending" /\ job'[r] = job[r]
         \/ /\ pc[r] \in {"claiming", "checking", "retaking"} /\ job'[r] = job[r]
            /\ pc'[r] \in {"checking", "retaking", "spending", "releasing"}
         \/ /\ pc'[r] \in {"idle", "releasing", "rescheduling"}
            /\ failures' > failures \/ pc[r] \notin {"succeeding", "extending"}
<1>1. r \in Actors /\ r \notin Payments
  BY Distinct
<1>2. ASSUME NEW a \in Actors, a # r, \/ UNCHANGED <<pc, job>>
                                     \/ \E l, j : pc' = [pc EXCEPT ![a] = l]
                                                  /\ (job' = job \/ job' = [job EXCEPT ![a] = j])
      PROVE  pc'[r] = pc[r] /\ job'[r] = job[r]
  BY <1>1, <1>2 DEF Shape
<1>3. ASSUME NEW q \in Runs, q # r, StartSweep(q) \/ SweepStep(q) \/ SweepThrows(q)
      PROVE  pc'[r] = pc[r] /\ job'[r] = job[r]
  BY <1>2, <1>3, Distinct DEF StartSweep, SweepStep, Disable, ClaimCycle, CheckCycle, RetakeCycle, Spend,
     FailCycle, Reschedule, SucceedCycle, Extend, ReleaseJob, SweepThrows, Goto, Begin, Finish
<1>4. ASSUME NEW x \in Payments, \/ OpenPayment(x) \/ PaidNotice(x) \/ DeclinedNotice(x)
                                \/ NoticeStep(x) \/ ExtendFails(x)
      PROVE  pc'[r] = pc[r] /\ job'[r] = job[r]
  BY <1>1, <1>2, <1>4, Distinct DEF OpenPayment, PaidNotice, DeclinedNotice, NoticeStep, RetryOrDisable,
     TakeCycle, InsertCycle, ExtendGuarded, MarkSucceeded, MarkFailed, ExtendFails, Goto, Begin, Finish
<1>5. ASSUME Cancel \/ RedeemReward \/ Expire \/ BillingComes \/ LockLapses \/ UNCHANGED vars
      PROVE  pc'[r] = pc[r] /\ job'[r] = job[r]
  BY <1>5 DEF Cancel, RedeemReward, Expire, BillingComes, LockLapses, vars
<1>6. ASSUME NEW a \in Actors, a # r, Crash(a) PROVE pc'[r] = pc[r] /\ job'[r] = job[r]
  BY <1>2, <1>6 DEF Crash, Begin, Finish
<1>7. CASE Crash(r)
  <2>1. pc'[r] = "idle"
    BY <1>1, <1>7, BeginShape, NoJobShape DEF Crash, Finish
  <2>2. failures' > failures
    BY <1>7 DEF Crash, Shape
  <2>3. QED
    BY <2>1, <2>2
<1>8. CASE SweepThrows(r)
  <2>1. pc'[r] = "releasing"
    BY <1>1, <1>8, GotoShape DEF SweepThrows, SweepStates
  <2>2. failures' > failures
    BY <1>8 DEF SweepThrows, Shape
  <2>3. QED
    BY <2>1, <2>2
<1>9. CASE Disable(r) \/ Reschedule(r) \/ FailCycle(r)
  BY <1>1, <1>9, GotoShape DEF Disable, Reschedule, FailCycle, SweepStates
<1>10. CASE ReleaseJob(r)
  BY <1>1, <1>10, BeginShape, NoJobShape DEF ReleaseJob, Finish
<1>11. CASE ClaimCycle(r) \/ CheckCycle(r) \/ RetakeCycle(r)
  BY <1>1, <1>11, GotoShape DEF ClaimCycle, CheckCycle, RetakeCycle, SweepStates
<1>12. CASE SucceedCycle(r) \/ Extend(r)
  BY <1>1, <1>12, GotoShape DEF SucceedCycle, Extend, SweepStates
<1>13. CASE Spend(r)
  BY <1>1, <1>13, GotoShape DEF Spend, SweepStates
<1>14. QED
  BY <1>3, <1>4, <1>5, <1>6, <1>7, <1>8, <1>9, <1>10, <1>11, <1>12, <1>13 DEF Next, SweepStep

\* A notification that is about to lengthen the term has been paid.
LEMMA NoticeMoves ==
  ASSUME Shape, [Next]_vars, NEW x \in Payments, pc'[x] = "extending"
  PROVE  job'[x] = job[x] /\ (pc[x] = "extending" \/ job[x].paid)
<1>1. x \in Actors /\ x \notin Runs
  BY Distinct
<1>2. ASSUME NEW a \in Actors, a # x, \/ UNCHANGED <<pc, job>>
                                     \/ \E l, j : pc' = [pc EXCEPT ![a] = l]
                                                  /\ (job' = job \/ job' = [job EXCEPT ![a] = j])
      PROVE  pc'[x] = pc[x] /\ job'[x] = job[x]
  BY <1>1, <1>2 DEF Shape
<1>3. ASSUME NEW r \in Runs, StartSweep(r) \/ SweepStep(r) \/ SweepThrows(r)
      PROVE  pc'[x] = pc[x] /\ job'[x] = job[x]
  BY <1>1, <1>2, <1>3, Distinct DEF StartSweep, SweepStep, Disable, ClaimCycle, CheckCycle, RetakeCycle,
     Spend, FailCycle, Reschedule, SucceedCycle, Extend, ReleaseJob, SweepThrows, Goto, Begin, Finish
<1>4. ASSUME NEW y \in Payments, y # x, \/ OpenPayment(y) \/ PaidNotice(y) \/ DeclinedNotice(y)
                                       \/ NoticeStep(y) \/ ExtendFails(y)
      PROVE  pc'[x] = pc[x] /\ job'[x] = job[x]
  BY <1>2, <1>4, Distinct DEF OpenPayment, PaidNotice, DeclinedNotice, NoticeStep, RetryOrDisable,
     TakeCycle, InsertCycle, ExtendGuarded, MarkSucceeded, MarkFailed, ExtendFails, Goto, Begin, Finish
<1>5. ASSUME Cancel \/ RedeemReward \/ Expire \/ BillingComes \/ LockLapses \/ OpenPayment(x) \/ UNCHANGED vars
      PROVE  pc'[x] = pc[x] /\ job'[x] = job[x]
  BY <1>5 DEF Cancel, RedeemReward, Expire, BillingComes, LockLapses, OpenPayment, vars
<1>6. ASSUME NEW a \in Actors, a # x, Crash(a) PROVE pc'[x] = pc[x] /\ job'[x] = job[x]
  BY <1>2, <1>6 DEF Crash, Begin, Finish
<1>7. ~Crash(x) /\ ~MarkSucceeded(x) /\ ~MarkFailed(x) /\ ~PaidNotice(x)
  BY <1>1 DEF Crash, MarkSucceeded, MarkFailed, PaidNotice, Finish, Begin, Shape
<1>8. ~RetryOrDisable(x) /\ ~ExtendGuarded(x) /\ ~ExtendFails(x)
  BY <1>1 DEF RetryOrDisable, ExtendGuarded, ExtendFails, Goto, Shape
<1>9. CASE DeclinedNotice(x)
  BY <1>1, <1>9 DEF DeclinedNotice, Begin, Shape
<1>10. CASE TakeCycle(x)
  BY <1>1, <1>10 DEF TakeCycle, Goto, Shape
<1>11. CASE InsertCycle(x)
  BY <1>1, <1>11 DEF InsertCycle, Goto, Finish, Begin, Shape
<1>12. QED
  BY <1>3, <1>4, <1>5, <1>6, <1>7, <1>8, <1>9, <1>10, <1>11 DEF Next, NoticeStep

\* The end changes by the extension of a run or a payment, and by a reward.
LEMMA EndStep ==
  ASSUME Shape, [Next]_vars
  PROVE  \/ sub'.end = sub.end
         \/ \E r \in Runs : Extend(r) /\ pc[r] = "extending" /\ sub'.end = job[r].end + 1
         \/ RedeemReward /\ sub'.end = sub.end + 1
         \/ \E x \in Payments : pc[x] = "extending" /\ Renewable(x) /\ sub'.end = job[x].end + 1
<1>1. ASSUME \/ \E r \in Runs : \/ StartSweep(r) \/ Disable(r) \/ ClaimCycle(r) \/ CheckCycle(r) \/ RetakeCycle(r)
                                \/ Spend(r) \/ FailCycle(r) \/ Reschedule(r) \/ SucceedCycle(r) \/ ReleaseJob(r)
                                \/ SweepThrows(r)
             \/ \E x \in Payments : \/ OpenPayment(x) \/ PaidNotice(x) \/ DeclinedNotice(x) \/ RetryOrDisable(x)
                                    \/ TakeCycle(x) \/ InsertCycle(x) \/ MarkSucceeded(x) \/ MarkFailed(x)
                                    \/ ExtendFails(x)
             \/ \E a \in Actors : Crash(a)
             \/ Cancel \/ Expire \/ BillingComes \/ LockLapses \/ UNCHANGED vars
      PROVE  sub'.end = sub.end
  BY <1>1 DEF StartSweep, Disable, ClaimCycle, CheckCycle, RetakeCycle, Spend, FailCycle,
     Reschedule, SucceedCycle, ReleaseJob, SweepThrows, OpenPayment, PaidNotice, DeclinedNotice,
     RetryOrDisable, TakeCycle, InsertCycle, MarkSucceeded, MarkFailed,
     ExtendFails, Crash, Cancel, Expire, BillingComes, LockLapses, vars, Shape
<1>2. ASSUME NEW r \in Runs, Extend(r) PROVE pc[r] = "extending" /\ sub'.end = job[r].end + 1
  <2>1. job[r].end \in Nat
    BY Distinct DEF Shape
  <2>2. Lengthened(job[r].end).end = job[r].end + 1
    BY <2>1, LengthenedShape
  <2>3. QED
    BY <1>2, <2>1, <2>2, LengthenedShape DEF Extend
<1>3. ASSUME RedeemReward PROVE sub'.end = sub.end + 1
  <2>1. sub.end \in Nat
    BY DEF Shape
  <2>2. QED
    BY <1>3, <2>1, LengthenedShape DEF RedeemReward
<1>4. ASSUME NEW x \in Payments, ExtendGuarded(x)
      PROVE  sub'.end = sub.end \/ (pc[x] = "extending" /\ Renewable(x) /\ sub'.end = job[x].end + 1)
  <2>1. job[x].end \in Nat
    BY Distinct DEF Shape
  <2>2. QED
    BY <1>4, <2>1, LengthenedShape DEF ExtendGuarded, Renew
<1>5. QED
  BY <1>1, <1>2, <1>3, <1>4 DEF Next, SweepStep, NoticeStep

-----------------------------------------------------------------------------
(* The term is paid for, and what was paid is in the term.                   *)

LEMMA CoveredStep ==
  ASSUME Shape, RunJobs, TermsCovered, [Next]_vars
  PROVE  TermsCovered'
<1>1. Terms \in Nat /\ Terms' \in Nat /\ Terms' >= Terms
  BY TermsStep
<1>2. sub.end \in Nat /\ \A a \in Actors : job[a].end \in Nat
  BY DEF Shape
<1>3. sub'.end <= Terms'
  <2>1. CASE sub'.end = sub.end
    BY <1>1, <1>2, <2>1 DEF TermsCovered
  <2>2. ASSUME NEW r \in Runs, pc[r] = "extending", sub'.end = job[r].end + 1 PROVE sub'.end <= Terms'
    BY <1>1, <1>2, <2>2, Distinct DEF TermsCovered
  <2>3. CASE RedeemReward /\ sub'.end = sub.end + 1
    BY <1>1, <1>2, <2>3, TermsStep DEF TermsCovered
  <2>4. ASSUME NEW x \in Payments, pc[x] = "extending", sub'.end = job[x].end + 1 PROVE sub'.end <= Terms'
    BY <1>1, <1>2, <2>4, Distinct DEF TermsCovered
  <2>5. QED
    BY <2>1, <2>2, <2>3, <2>4, EndStep
<1>4. ASSUME NEW r \in Runs
      PROVE  job'[r].end <= Terms' /\ (pc'[r] \in {"succeeding", "extending"} => job'[r].end < Terms')
  <2>1. r \in Actors /\ job[r].end \in Nat /\ job[r].end <= Terms
    BY <1>2, Distinct DEF TermsCovered
  <2>2. job'[r].end <= Terms'
    <3>1. CASE job'[r] = job[r]
      BY <1>1, <2>1, <3>1
    <3>2. CASE job'[r] = NoJob
      BY <1>1, <3>2 DEF NoJob
    <3>3. CASE StartSweep(r)
      BY <1>1, <1>2, <2>1, <3>3 DEF StartSweep, Begin, NoJob, TermsCovered, Shape
    <3>4. QED
      BY <3>1, <3>2, <3>3, JobsStep
  <2>3. ASSUME pc'[r] \in {"succeeding", "extending"} PROVE job'[r].end < Terms'
    <3>1. CASE pc[r] \in {"succeeding", "extending"} /\ job'[r] = job[r]
      BY <1>1, <2>1, <3>1 DEF TermsCovered
    <3>2. CASE Spend(r) /\ job'[r] = job[r] /\ pc'[r] = "succeeding"
      BY <1>1, <2>1, <3>2, TermsStep
    <3>3. ~StartSweep(r)
      BY <2>1, <2>3 DEF StartSweep, Begin, Shape
    <3>4. QED
      BY <2>3, <3>1, <3>2, <3>3, RunMoves
  <2>4. QED
    BY <2>2, <2>3
<1>5. ASSUME NEW x \in Payments
      PROVE  /\ pc'[x] = "extending" => job'[x].paid
             /\ job'[x].paid => job'[x].end < Terms'
  <2>1. x \in Actors /\ job[x].end \in Nat
    BY <1>2, Distinct
  <2>2. pc'[x] = "extending" => job'[x].paid
    BY NoticeMoves DEF TermsCovered
  <2>3. ASSUME job'[x].paid PROVE job'[x].end < Terms'
    <3>1. CASE job'[x] = job[x]
      BY <1>1, <2>1, <2>3, <3>1 DEF TermsCovered
    <3>2. job'[x] # NoJob
      BY <2>3 DEF NoJob
    <3>3. CASE PaidNotice(x)
      <4>1. job'[x].end = sub.end
        BY <2>1, <3>3 DEF PaidNotice, Begin, Shape
      <4>2. Terms' = Terms + 1
        BY <3>3, TermsStep
      <4>3. QED
        BY <1>1, <1>2, <4>1, <4>2 DEF TermsCovered
    <3>4. CASE DeclinedNotice(x)
      BY <2>1, <2>3, <3>1, <3>4 DEF DeclinedNotice, Begin, Shape
    <3>5. QED
      BY <3>1, <3>2, <3>3, <3>4, JobsStep
  <2>4. QED
    BY <2>2, <2>3
<1>6. QED
  BY <1>3, <1>4, <1>5 DEF TermsCovered

\* Failures, overlaps and unguarded payments stay what they are.
LEMMA RegularBefore ==
  ASSUME Shape, NoticeKnows, [Next]_vars, Regular'
  PROVE  Regular /\ failures' = failures
<1>1. failures' \in {failures, failures + 1} /\ overlap' \in {overlap, TRUE} /\ behind \subseteq behind'
  BY DEF Next, vars, StartSweep, SweepStep, Disable, ClaimCycle, CheckCycle, RetakeCycle, Spend, FailCycle,
     Reschedule, SucceedCycle, Extend, ReleaseJob, SweepThrows, OpenPayment, PaidNotice, DeclinedNotice,
     NoticeStep, RetryOrDisable, TakeCycle, InsertCycle, ExtendGuarded, MarkSucceeded, MarkFailed,
     ExtendFails, Crash, Cancel, RedeemReward, Expire, BillingComes, LockLapses, histVars
<1>2. \A x \in Payments : pay[x].kind # "none" => pay'[x] = pay[x]
  BY DEF Next, vars, StartSweep, SweepStep, Disable, ClaimCycle, CheckCycle, RetakeCycle, Spend, FailCycle,
     Reschedule, SucceedCycle, Extend, ReleaseJob, SweepThrows, OpenPayment, PaidNotice, DeclinedNotice,
     NoticeStep, RetryOrDisable, TakeCycle, InsertCycle, ExtendGuarded, MarkSucceeded, MarkFailed,
     ExtendFails, Crash, Cancel, RedeemReward, Expire, BillingComes, LockLapses, Shape
<1>3. failures = 0 /\ failures' = failures
  BY <1>1 DEF Regular, Shape
<1>4. \A x \in Payments : ~Unguarded(x)
  BY <1>1, <1>2 DEF Regular, Unguarded
<1>5. ~overlap
  BY <1>1 DEF Regular
<1>6. QED
  BY <1>3, <1>4, <1>5 DEF Regular

LEMMA KeptStep ==
  ASSUME Shape, OneRun, RunJobs, TermsCovered, NoticeKnows, ChargedIsKept, [Next]_vars
  PROVE  ChargedIsKept'
<1> SUFFICES ASSUME Regular', NEW k \in Cycles, debits'[k] > 0
             PROVE  Kept(k)'
  BY DEF ChargedIsKept, Cycles
<1>1. Regular /\ failures' = failures
  BY RegularBefore
<1>2. \A n \in Cycles : debits[n] > 0 => Kept(n)
  BY <1>1 DEF ChargedIsKept
<1>3. /\ k \in Nat /\ sub.end \in Nat /\ failures \in Nat
      /\ \A r \in Runs : job[r].end \in Nat /\ job[r].cycle = job[r].end
  <2>1. k \in Nat
    BY DEF Cycles
  <2>2. QED
    BY <2>1, Distinct DEF Shape, RunJobs
<1>4. \A r, q \in Runs : pc[r] # "idle" /\ pc[q] # "idle" => r = q
  BY <1>1 DEF OneRun, Regular
<1>5. debits[k] > 0 \/ \E r \in Runs : Spend(r) /\ job[r].cycle = k /\ debits'[k] # debits[k]
  <2>1. ASSUME debits' # debits PROVE \E r \in Runs : Spend(r) /\ debits' = [debits EXCEPT ![job[r].cycle] = @ + 1]
    BY <2>1 DEF Next, vars, StartSweep, SweepStep, Disable, ClaimCycle, CheckCycle, RetakeCycle, Spend, FailCycle,
       Reschedule, SucceedCycle, Extend, ReleaseJob, SweepThrows, OpenPayment, PaidNotice, DeclinedNotice,
       NoticeStep, RetryOrDisable, TakeCycle, InsertCycle, ExtendGuarded, MarkSucceeded, MarkFailed,
       ExtendFails, Crash, Cancel, RedeemReward, Expire, BillingComes, LockLapses
  <2>2. QED
    BY <2>1 DEF Shape
<1>6. ASSUME NEW r \in Runs, Spend(r), job[r].cycle = k, debits'[k] # debits[k] PROVE Kept(k)'
  <2>1. pc'[r] = "succeeding" /\ job' = job /\ pc[r] # "idle"
    BY <1>6, Distinct, GotoShape DEF Spend, SweepStates
  <2>2. \A q \in Runs : q # r => pc'[q] = "idle"
    <3>1. \A b \in Actors : b # r => pc'[b] = pc[b]
      BY <1>6, Distinct DEF Spend, Goto, Shape
    <3>2. QED
      BY <1>4, <2>1, <3>1, Distinct
  <2>3. QED
    BY <1>3, <1>6, <2>1, <2>2 DEF Kept, Charging
<1>7. ASSUME debits[k] > 0 PROVE Kept(k)'
  <2>1. Kept(k)
    BY <1>2, <1>7
  <2>2. ASSUME NEW r \in Runs, pc'[r] \in Charging PROVE k <= job'[r].end
    <3>1. CASE StartSweep(r)
      <4>1. job'[r].end = sub.end
        BY <3>1, Distinct DEF StartSweep, Begin, NoJob, Shape
      <4>2. \A q \in Runs : pc[q] = "idle"
        BY <1>1, <3>1, Distinct DEF StartSweep, OneRun, Regular
      <4>3. sub.end > k
        BY <2>1, <4>2 DEF Kept
      <4>4. QED
        BY <1>3, <4>1, <4>3
    <3>2. CASE job'[r] = job[r] /\ pc[r] \in Charging
      BY <2>1, <3>2 DEF Kept
    <3>3. CASE Spend(r) /\ job'[r] = job[r]
      BY <2>1, <3>3 DEF Kept, Charging, Spend
    <3>4. QED
      BY <1>3, <1>1, <2>2, <3>1, <3>2, <3>3, RunMoves DEF Charging
  <2>3. sub'.end > k \/ \E r \in Runs : pc'[r] \in {"succeeding", "extending"} /\ job'[r].cycle = k
    <3>1. ASSUME NEW r \in Runs, Extend(r) PROVE sub'.end > k
      <4>1. sub'.end = job[r].end + 1
        BY <1>3, <3>1, LengthenedShape DEF Extend
      <4>2. k <= job[r].end
        BY <2>1, <3>1 DEF Kept, Charging, Extend
      <4>3. QED
        BY <1>3, <4>1, <4>2
    <3>2. CASE sub.end > k /\ \A r \in Runs : ~Extend(r)
      <4>1. ASSUME NEW x \in Payments, pc[x] = "extending", Renewable(x), sub'.end = job[x].end + 1
            PROVE  sub'.end > k
        <5>1. pay[x].kind # "none" /\ pay[x].expected # NoEnd /\ x \notin behind /\ job[x].end >= pay[x].expected
          BY <1>1, <4>1 DEF TermsCovered, NoticeKnows, Regular, Unguarded
        <5>2. pay[x].expected \in Nat /\ job[x].end \in Nat /\ sub.end <= pay[x].expected
          BY <4>1, <5>1, Distinct DEF Renewable, Shape
        <5>3. QED
          BY <1>3, <3>2, <4>1, <5>1, <5>2
      <4>2. QED
        BY <1>3, <3>2, <4>1, EndStep
    <3>3. ASSUME NEW r \in Runs, pc[r] \in {"succeeding", "extending"}, job[r].cycle = k,
                 \A q \in Runs : ~Extend(q)
          PROVE  pc'[r] \in {"succeeding", "extending"} /\ job'[r].cycle = k
      <4>1. ~StartSweep(r) /\ ~Spend(r) /\ ~(failures' > failures)
        BY <1>1, <1>3, <3>3 DEF StartSweep, Spend
      <4>2. QED
        BY <3>3, <4>1, RunMoves
    <3>4. QED
      BY <2>1, <3>1, <3>2, <3>3 DEF Kept
  <2>4. QED
    BY <2>2, <2>3 DEF Kept
<1>8. QED
  BY <1>5, <1>6, <1>7

-----------------------------------------------------------------------------
\* The invariant holds in every reachable state.
LEMMA Invariance == Spec => []RenewalInv
<1>1. Init => RenewalInv
  BY InitRenewal
<1>2. RenewalInv /\ [Next]_vars => RenewalInv'
  BY ShapeStep, OneRunStep, ChargeStep DEF RenewalInv
<1>3. QED
  BY <1>1, <1>2, PTL DEF Spec

\* So do what the actors have read, the terms they cover and the cycles that are kept.
LEMMA TermInvariance == Spec => []TermInv
<1>1. Init => TermInv
  <2> SUFFICES ASSUME Init PROVE TermInv
    OBVIOUS
  <2>1. Shape /\ 0 \in Cycles
    BY InitRenewal, SetsAreFinite, SubscriptionRenewalAssumption DEF RenewalInv
  <2>2. Terms \in Nat
    BY <2>1, SetsAreFinite DEF Terms, Shape
  <2>3. RunJobs /\ TermsCovered /\ NoticeKnows
    BY <2>1, <2>2, Distinct DEF Init, RunJobs, TermsCovered, NoticeKnows
  <2>4. ChargedIsKept
    BY DEF Init, ChargedIsKept
  <2>5. QED
    BY <2>3, <2>4 DEF TermInv
<1>2. RenewalInv /\ TermInv /\ [Next]_vars => TermInv'
  BY RunJobsStep, CoveredStep, KnowsStep, KeptStep DEF RenewalInv, TermInv
<1>3. QED
  BY <1>1, <1>2, Invariance, PTL DEF Spec

\* A cycle is charged to the credits once, for any number of runs, payments, failures and
\* rewards, unless the job's key lapsed under a run or a notification took the cycle's claim.
THEOREM ChargedForOneRun == Spec => []SecondDebitTakesInterference
<1>1. RenewalInv => SecondDebitTakesInterference
  <2> SUFFICES ASSUME RenewalInv, NEW k \in Cycles, ~overlap, k \notin overruled PROVE ~(debits[k] > 1)
    BY DEF SecondDebitTakesInterference
  <2>1. debits[k] \in {0, 1}
    BY DEF RenewalInv, ChargedOnce, Undisturbed
  <2>2. QED
    BY <2>1
<1>2. QED
  BY <1>1, Invariance, PTL

\* Whatever runs, payments and failures there are, a cancelled or expired subscription is
\* lengthened only by a reward and by a sweep that had charged before it could know.
THEOREM CancelledIsNotRenewed == Spec => NoRenewalAfterCancel
<1>1. RenewalInv /\ [Next]_vars =>
        [(sub.cancelled \/ ~sub.active) /\ sub'.end > sub.end =>
            rewards' # rewards \/ \E r \in Runs : pc[r] = "extending" /\ pc'[r] # pc[r]]_vars
  BY LengthStep DEF RenewalInv
<1>2. QED
  BY <1>1, Invariance, PTL DEF Spec, NoRenewalAfterCancel

\* A payment for a known end date never takes back a term that was added after its
\* notification had read the row, whoever added it.
THEOREM TermIsNotTakenBack == Spec => PaymentNeverShortens
<1>1. RenewalInv /\ [Next]_vars =>
        [\A x \in Payments :
            /\ pay[x].expected # NoEnd /\ job[x].end >= pay[x].expected
            /\ pc[x] = "extending" /\ pc'[x] = "succeeding"
            => sub'.end >= sub.end]_vars
  BY LengthStep DEF RenewalInv
<1>2. QED
  BY <1>1, Invariance, PTL DEF Spec, PaymentNeverShortens

\* The term is never longer than what was charged, paid and given; and what was charged is
\* in it, but for failures, overlapping runs and payments for a date the row has not.
THEOREM TermIsPaidAndKept == Spec => []TermIsWhatWasPaid
<1>1. RenewalInv /\ TermInv => TermIsWhatWasPaid
  <2> SUFFICES ASSUME RenewalInv, TermInv PROVE TermIsWhatWasPaid
    OBVIOUS
  <2>1. sub.end <= Cardinality(Charges) + Cardinality({x \in Payments : Paid(x)}) + rewards
    BY DEF TermInv, TermsCovered, Terms, PaidFor
  <2>2. ASSUME AtRest, NEW k \in Cycles, debits[k] > 0, ~overlap, \A x \in Payments : ~Unguarded(x)
        PROVE  sub.end > k
    <3>1. Kept(k)
      BY <2>2 DEF AtRest, TermInv, ChargedIsKept, Regular
    <3>2. QED
      BY <2>2, <3>1, Distinct DEF AtRest, Kept
  <2>3. QED
    BY <2>1, <2>2 DEF TermIsWhatWasPaid
<1>2. QED
  BY <1>1, Invariance, TermInvariance, PTL
=============================================================================
