------------------------ MODULE PayPalCheckout_proofs ------------------------
(***************************************************************************)
(* What holds of the PayPal checkout for every number of sessions, items,  *)
(* requests and failures.                                                  *)
(***************************************************************************)
EXTENDS PayPalCheckout, TLAPS

\* The advisory lock: whoever is between lock and unlock is its holder.
Mutex == \A p \in Procs : pc[p] \in Locked => lock = p

\* A handler past its first reads works on a session of PayPal's, and the
\* entitlement it writes is for an item.
SessionOf(p) ==
  /\ pc[p] \notin {"idle", "reusing", "ordering"} => job[p].sess \in Sessions
  /\ pc[p] = "entitling" => job[p].item \in Items

OnSession == \A p \in Procs : SessionOf(p)

\* A handler reaches the order's lock only with a captured session.
Paying == {"paid", "locking", "locked", "marking"} \cup Fulfilling

Earned == \A p \in Procs : pc[p] \in Paying => job[p].sess \in Captured

\* What the fulfilling handler has not yet created is what it has left to do.
Progress ==
  \A p \in Procs :
    pc[p] \in {"creating", "entitling"} => Items \ subs \subseteq todo[p] \/ broken

\* An order in process is complete, or in the hands of a fulfilling handler.
Done ==
  order.status = "in_process" =>
    (\E p \in Procs : pc[p] \in Fulfilling) \/ subs = Items \/ broken

CheckoutInv ==
  /\ TypeOK
  /\ Mutex
  /\ OnSession
  /\ Earned
  /\ Progress
  /\ Done
  /\ NothingWithoutCapture

-----------------------------------------------------------------------------
\* The processes a step of p leaves alone.
Others(p) ==
  \A q \in Procs \ {p} : pc'[q] = pc[q] /\ job'[q] = job[q] /\ todo'[q] = todo[q]

Step(p) ==
  \/ OpenCheckout(p) \/ Confirm(p) \/ WebhookCompleted(p) \/ WebhookVoided(p) \/ Cancel(p)
  \/ Advance(p) \/ LockOrder(p)
  \/ SkipItem(p) \/ EntitleFails(p) \/ FinalizeFails(p) \/ CancelOrderFails(p) \/ Fail(p)

\* The steps outside the backend's handlers.
Environment == (\E s \in Sessions : Approve(s) \/ Void(s)) \/ Redraft \/ UNCHANGED vars

LEMMA Kinds == [Next]_vars => Environment \/ \E p \in Procs : Step(p)
  BY DEF Next, Environment, Step

LEMMA FinishType ==
  ASSUME TypeOK, NEW p \in Procs, Finish(p)
  PROVE  pc' \in [Procs -> States] /\ job' \in [Procs -> Jobs] /\ todo' \in [Procs -> SUBSET Items]
<1>1. NoJob \in Jobs
  BY CheckoutAssumption DEF NoJob, Jobs, AnyTotal
<1>2. "idle" \in States
  BY DEF States
<1>3. QED
  BY <1>1, <1>2 DEF TypeOK, Finish

LEMMA GotoType ==
  ASSUME TypeOK, NEW p \in Procs, NEW l \in States, Goto(p, l)
  PROVE  pc' \in [Procs -> States] /\ job' \in [Procs -> Jobs] /\ todo' \in [Procs -> SUBSET Items]
  BY DEF TypeOK, Goto

LEMMA BeginType ==
  ASSUME TypeOK, NEW p \in Procs, NEW l \in States, NEW s \in Sessions \cup {NoSession},
         NEW kind \in {"open", "confirm", "cancel"}, Begin(p, kind, s, l)
  PROVE  pc' \in [Procs -> States] /\ job' \in [Procs -> Jobs] /\ todo' \in [Procs -> SUBSET Items]
<1>1. [NoJob EXCEPT !.kind = kind, !.sess = s,
         !.ref = IF kind = "open" THEN order.ref ELSE NoSession,
         !.total = IF kind = "cancel" THEN AnyTotal ELSE order.total] \in Jobs
  BY CheckoutAssumption DEF TypeOK, Orders, NoJob, Jobs, AnyTotal
<1>2. QED
  BY <1>1 DEF TypeOK, Begin

ProcType == pc' \in [Procs -> States] /\ job' \in [Procs -> Jobs] /\ todo' \in [Procs -> SUBSET Items]

\* What a step makes of the handlers' variables.
LEMMA ProcTypes ==
  ASSUME TypeOK, NEW p \in Procs, Step(p)
  PROVE  ProcType
<1> USE DEF ProcType
<1>1. CASE Finish(p)
  BY <1>1, FinishType
<1>2. ASSUME NEW l \in States, Goto(p, l) PROVE ProcType
  BY <1>2, GotoType
<1>3. ASSUME NEW l \in States, NEW s \in Sessions \cup {NoSession},
             NEW kind \in {"open", "confirm", "cancel"}, Begin(p, kind, s, l)
      PROVE  ProcType
  BY <1>3, BeginType
<1>4. job[p].sess \in Sessions \cup {NoSession} /\ order.ref \in Sessions \cup {NoSession}
  BY DEF TypeOK, Jobs, Orders
<1>5. CASE OpenCheckout(p)
  BY <1>3, <1>5 DEF OpenCheckout, States
<1>6. CASE Confirm(p) \/ ConfirmRecorded(p)
  BY <1>1, <1>3, <1>4, <1>6 DEF Confirm, ConfirmRecorded, States
<1>7. CASE Cancel(p) \/ CancelRecorded(p)
  BY <1>1, <1>3, <1>4, <1>7 DEF Cancel, CancelRecorded, States
<1>8. CASE \/ CreateRefused(p) \/ AttachSession(p) \/ Answer(p) \/ VoidCoupon(p) \/ Fail(p)
  BY <1>1, <1>8 DEF CreateRefused, AttachSession, Answer, VoidCoupon, Fail
<1>9. CASE \/ ReuseSession(p) \/ InsertPayment(p) \/ Capture(p) \/ SavePayment(p) \/ LockOrder(p)
           \/ ReadLocked(p) \/ MarkInProcess(p) \/ Finalize(p) \/ FinalizeFails(p)
           \/ CheckProvider(p) \/ ClosePayment(p) \/ CancelOrder(p) \/ CancelOrderFails(p)
  BY <1>1, <1>2, <1>9
     DEF ReuseSession, InsertPayment, Capture, SavePayment, LockOrder, ReadLocked, MarkInProcess,
         Finalize, FinalizeFails, CheckProvider, ClosePayment, CancelOrder, CancelOrderFails,
         States, Locked, Fulfilling
<1>10. CASE CreateSession(p)
  <2>1. PICK s \in Unused : job' = [job EXCEPT ![p].sess = s]
    BY <1>10 DEF CreateSession
  <2>2. [job[p] EXCEPT !.sess = s] \in Jobs
    BY DEF Unused, TypeOK, Jobs
  <2>3. job' = [job EXCEPT ![p] = [job[p] EXCEPT !.sess = s]]
    BY <2>1
  <2>4. QED
    BY <1>10, <2>2, <2>3 DEF CreateSession, TypeOK, States
<1>11. CASE WebhookCompleted(p) \/ WebhookVoided(p)
  <2>1. PICK s \in Sessions, kind \in {"confirm", "cancel"} : Receive(p, s, kind)
    BY <1>11 DEF WebhookCompleted, WebhookVoided
  <2>2. [job[p] EXCEPT !.kind = kind, !.sess = s] \in Jobs
    BY DEF TypeOK, Jobs
  <2>3. job' = [job EXCEPT ![p] = [job[p] EXCEPT !.kind = kind, !.sess = s]]
    BY <2>1 DEF Receive
  <2>4. QED
    BY <2>1, <2>2, <2>3 DEF Receive, TypeOK, States
<1>12. CASE Allocate(p) \/ SkipItem(p)
  BY <1>12 DEF Allocate, SkipItem, TypeOK, States, Locked, Fulfilling
<1>13. CASE CreateSubscription(p) \/ Entitle(p) \/ EntitleFails(p)
  <2>1. PICK i \in Items \cup {NoItem} : job' = [job EXCEPT ![p].item = i]
    BY <1>13 DEF CreateSubscription, Entitle, EntitleFails, TypeOK
  <2>2. [job[p] EXCEPT !.item = i] \in Jobs
    BY DEF TypeOK, Jobs
  <2>3. job' = [job EXCEPT ![p] = [job[p] EXCEPT !.item = i]]
    BY <2>1
  <2>4. QED
    BY <1>13, <2>2, <2>3
       DEF CreateSubscription, Entitle, EntitleFails, TypeOK, States, Locked, Fulfilling
<1>14. QED
  BY <1>5, <1>6, <1>7, <1>8, <1>9, <1>10, <1>11, <1>12, <1>13 DEF Step, Advance

\* What it makes of the rows and of PayPal's sessions.
LEMMA RowTypes ==
  ASSUME TypeOK, OnSession, NEW p \in Procs, Step(p)
  PROVE  TypeOK'
<1> USE CheckoutAssumption
<1> USE DEF Orders, Statuses, Payable, PaymentStates, SessionStates, Unlock
<1>1. ProcType
  BY ProcTypes
<1>2. pc[p] \notin {"idle", "reusing", "ordering"} => job[p].sess \in Sessions
  BY DEF OnSession, SessionOf
<1>3. SUFFICES /\ order' \in Orders
               /\ session' \in [Sessions -> SessionStates]
               /\ price' \in [Sessions -> Totals]
               /\ payments' \in [Sessions -> PaymentStates]
               /\ allocated' \subseteq Sessions
               /\ subs' \subseteq Items /\ entitled' \subseteq Items
               /\ redemption' \in {"reserved", "redeemed", "voided"}
               /\ events' \subseteq {"confirm", "cancel"} \X Sessions
               /\ lock' \in Procs \cup {NoProc}
               /\ broken' \in BOOLEAN
               /\ failures' \in 0..MaxFailures
  BY <1>1 DEF TypeOK, ProcType
<1> USE DEF TypeOK, rowVars, extVars, histVars
<1>4. CASE \/ OpenCheckout(p) \/ Confirm(p) \/ ConfirmRecorded(p) \/ Cancel(p) \/ CancelRecorded(p)
           \/ ReuseSession(p) \/ CreateRefused(p) \/ Answer(p) \/ CheckProvider(p)
  BY <1>4 DEF OpenCheckout, Confirm, ConfirmRecorded, Cancel, CancelRecorded, ReuseSession,
              CreateRefused, Answer, CheckProvider
<1>5. CASE CreateSession(p)
  BY <1>5, ZenonT(30) DEF CreateSession, Jobs
<1>6. CASE InsertPayment(p) \/ SavePayment(p) \/ ClosePayment(p)
  BY <1>6 DEF InsertPayment, SavePayment, ClosePayment
<1>7. CASE AttachSession(p) \/ CancelOrder(p)
  BY <1>7 DEF AttachSession, CancelOrder, Jobs
<1>8. CASE WebhookCompleted(p) \/ WebhookVoided(p)
  <2>1. PICK s \in Sessions, kind \in {"confirm", "cancel"} : Receive(p, s, kind)
    BY <1>8 DEF WebhookCompleted, WebhookVoided
  <2>2. events' \subseteq {"confirm", "cancel"} \X Sessions
    BY <2>1 DEF Receive
  <2>3. UNCHANGED <<order, payments, allocated, subs, entitled, redemption, session, price, lock, broken, failures>>
    BY <2>1 DEF Receive
  <2>4. QED
    BY <2>2, <2>3
<1>9. CASE Capture(p)
  BY <1>9 DEF Capture, AfterCapture
<1>10. CASE LockOrder(p) \/ ReadLocked(p)
  BY <1>10 DEF LockOrder, ReadLocked
<1>11. CASE MarkInProcess(p)
  BY <1>11, <1>2 DEF MarkInProcess
<1>12. CASE Allocate(p)
  BY <1>12, <1>2 DEF Allocate
<1>13. CASE CreateSubscription(p) \/ Entitle(p)
  BY <1>13 DEF CreateSubscription, Entitle, OnSession, SessionOf
<1>14. CASE Finalize(p) \/ VoidCoupon(p)
  BY <1>14 DEF Finalize, VoidCoupon
<1>15. CASE SkipItem(p) \/ EntitleFails(p) \/ FinalizeFails(p) \/ CancelOrderFails(p)
  <2>1. UNCHANGED <<rowVars, extVars>> /\ lock' \in Procs \cup {NoProc}
    BY <1>15 DEF SkipItem, EntitleFails, FinalizeFails, CancelOrderFails
  <2>2. broken' = TRUE \/ broken' = broken
    BY <1>15, Zenon DEF SkipItem, EntitleFails, FinalizeFails, CancelOrderFails
  <2>3. failures' \in 0..MaxFailures
    BY <1>15 DEF SkipItem, EntitleFails, FinalizeFails, CancelOrderFails
  <2>4. QED
    BY <2>1, <2>2, <2>3
<1>16. CASE Fail(p)
  BY <1>16 DEF Fail, AfterCapture
<1>17. QED
  BY <1>4, <1>5, <1>6, <1>7, <1>8, <1>9, <1>10, <1>11, <1>12, <1>13, <1>14, <1>15, <1>16
     DEF Step, Advance

LEMMA TypeStep == TypeOK /\ OnSession /\ [Next]_vars => TypeOK'
<1>1. ASSUME TypeOK, Environment PROVE TypeOK'
  <2>1. CASE Redraft
    BY <1>1, <2>1 DEF Redraft, TypeOK, Orders, Statuses, extVars, procVars, histVars
  <2>2. ASSUME NEW s \in Sessions, Approve(s) \/ Void(s) PROVE TypeOK'
    BY <1>1, <2>2 DEF Approve, Void, TypeOK, SessionStates, rowVars, procVars, histVars
  <2>3. CASE UNCHANGED vars
    BY <1>1, <2>3 DEF vars, TypeOK
  <2>4. QED
    BY <1>1, <2>1, <2>2, <2>3 DEF Environment
<1>2. QED
  BY <1>1, RowTypes, Kinds

-----------------------------------------------------------------------------
\* A handler moves itself alone.
LEMMA OthersStay ==
  ASSUME TypeOK, NEW p \in Procs, Step(p)
  PROVE  Others(p)
<1> USE DEF TypeOK, Others, Finish, Goto, Begin
<1>1. CASE \/ OpenCheckout(p) \/ Confirm(p) \/ ConfirmRecorded(p) \/ Cancel(p) \/ CancelRecorded(p)
           \/ WebhookCompleted(p) \/ WebhookVoided(p) \/ CreateSession(p) \/ CreateRefused(p)
  BY <1>1 DEF OpenCheckout, Confirm, ConfirmRecorded, Cancel, CancelRecorded, WebhookCompleted,
              WebhookVoided, Receive, CreateSession, CreateRefused
<1>2. CASE \/ ReuseSession(p) \/ InsertPayment(p) \/ AttachSession(p) \/ Capture(p)
           \/ SavePayment(p) \/ LockOrder(p) \/ ReadLocked(p) \/ MarkInProcess(p) \/ Answer(p)
  BY <1>2 DEF ReuseSession, InsertPayment, AttachSession, Capture, SavePayment, LockOrder,
              ReadLocked, MarkInProcess, Answer
<1>3. CASE \/ Allocate(p) \/ CreateSubscription(p) \/ SkipItem(p) \/ Entitle(p) \/ EntitleFails(p)
           \/ Finalize(p) \/ FinalizeFails(p)
  BY <1>3 DEF Allocate, CreateSubscription, SkipItem, Entitle, EntitleFails, Finalize, FinalizeFails
<1>4. CASE \/ CheckProvider(p) \/ ClosePayment(p) \/ CancelOrder(p) \/ CancelOrderFails(p)
           \/ VoidCoupon(p) \/ Fail(p)
  BY <1>4 DEF CheckProvider, ClosePayment, CancelOrder, CancelOrderFails, VoidCoupon, Fail
<1>5. QED
  BY <1>1, <1>2, <1>3, <1>4 DEF Step, Advance

LEMMA EnvironmentStays == Environment => UNCHANGED <<pc, job, todo, lock, subs, broken>>
  BY DEF Environment, Approve, Void, Redraft, vars, rowVars, extVars, procVars, histVars

-----------------------------------------------------------------------------
\* Only LockOrder enters the lock, and only its holder leaves it.
LEMMA LockStep ==
  ASSUME TypeOK, Mutex, NEW p \in Procs, Step(p)
  PROVE  /\ pc'[p] \in Locked => lock' = p
         /\ lock' # lock => lock \in {p, NoProc}
<1> USE DEF TypeOK, Mutex, Finish, Goto, Begin, Unlock, Locked, Fulfilling
<1>1. CASE \/ OpenCheckout(p) \/ Confirm(p) \/ ConfirmRecorded(p) \/ Cancel(p) \/ CancelRecorded(p)
           \/ WebhookCompleted(p) \/ WebhookVoided(p) \/ CreateSession(p) \/ CreateRefused(p)
  BY <1>1 DEF OpenCheckout, Confirm, ConfirmRecorded, Cancel, CancelRecorded, WebhookCompleted,
              WebhookVoided, Receive, CreateSession, CreateRefused
<1>2. CASE \/ ReuseSession(p) \/ InsertPayment(p) \/ AttachSession(p) \/ Capture(p)
           \/ SavePayment(p) \/ LockOrder(p) \/ Answer(p)
  BY <1>2 DEF ReuseSession, InsertPayment, AttachSession, Capture, SavePayment, LockOrder, Answer
<1>3. CASE ReadLocked(p) \/ MarkInProcess(p)
  BY <1>3 DEF ReadLocked, MarkInProcess
<1>4. CASE \/ Allocate(p) \/ CreateSubscription(p) \/ SkipItem(p) \/ Entitle(p) \/ EntitleFails(p)
           \/ Finalize(p) \/ FinalizeFails(p)
  BY <1>4 DEF Allocate, CreateSubscription, SkipItem, Entitle, EntitleFails, Finalize, FinalizeFails
<1>5. CASE \/ CheckProvider(p) \/ ClosePayment(p) \/ CancelOrder(p) \/ CancelOrderFails(p)
           \/ VoidCoupon(p) \/ Fail(p)
  BY <1>5 DEF CheckProvider, ClosePayment, CancelOrder, CancelOrderFails, VoidCoupon, Fail
<1>6. QED
  BY <1>1, <1>2, <1>3, <1>4, <1>5 DEF Step, Advance

LEMMA MutexStep == TypeOK /\ Mutex /\ [Next]_vars => Mutex'
<1>1. ASSUME TypeOK, Mutex, NEW p \in Procs, Step(p) PROVE Mutex'
  <2>1. ASSUME NEW q \in Procs \ {p}, pc'[q] \in Locked PROVE lock' = q
    <3>1. pc[q] \in Locked
      BY <1>1, <2>1, OthersStay DEF Others
    <3>2. lock = q
      BY <1>1, <3>1 DEF Mutex
    <3>3. QED
      BY <1>1, <3>2, LockStep, CheckoutAssumption
  <2>2. QED
    BY <1>1, <2>1, LockStep DEF Mutex
<1>2. QED
  BY <1>1, Kinds, EnvironmentStays DEF Mutex

-----------------------------------------------------------------------------
LEMMA BeginSets ==
  ASSUME TypeOK, NEW p \in Procs, NEW kind, NEW s, NEW l, Begin(p, kind, s, l)
  PROVE  pc'[p] = l /\ job'[p].sess = s
  BY DEF TypeOK, Begin, NoJob

LEMMA SessionStep == TypeOK /\ OnSession /\ [Next]_vars => OnSession'
<1>1. ASSUME TypeOK, NEW p \in Procs, SessionOf(p), Step(p) PROVE SessionOf(p)'
  <2> USE <1>1
  <2> USE DEF TypeOK, Jobs, Orders, SessionOf, Finish, Goto, Begin, NoJob
  <2>1. CASE OpenCheckout(p)
    BY <2>1, BeginSets DEF OpenCheckout
  <2>2. CASE Confirm(p) \/ ConfirmRecorded(p) \/ Cancel(p) \/ CancelRecorded(p)
    <3> HIDE DEF Begin
    <3>1. ASSUME NEW kind, NEW s \in Sessions, NEW l \in {"capturing", "checking"}, Begin(p, kind, s, l)
          PROVE  SessionOf(p)'
      BY <3>1, BeginSets
    <3>2. job[p].sess \in Sessions \/ pc[p] = "idle"
      BY <2>2 DEF Confirm, ConfirmRecorded, Cancel, CancelRecorded
    <3>3. CASE Confirm(p) \/ ConfirmRecorded(p)
      BY <3>1, <3>2, <3>3 DEF Confirm, ConfirmRecorded
    <3>4. CASE Cancel(p) \/ CancelRecorded(p)
      BY <3>1, <3>2, <3>4 DEF Cancel, CancelRecorded
    <3>5. QED
      BY <2>2, <3>3, <3>4
  <2>3. CASE WebhookCompleted(p) \/ WebhookVoided(p) \/ CreateSession(p)
    <3>1. ASSUME NEW s \in Sessions, NEW kind, Receive(p, s, kind) PROVE SessionOf(p)'
      BY <3>1 DEF Receive
    <3>2. CASE CreateSession(p)
      BY <3>2 DEF CreateSession, Unused
    <3>3. QED
      BY <2>3, <3>1, <3>2 DEF WebhookCompleted, WebhookVoided
  <2>4. CASE \/ ReuseSession(p) \/ CreateRefused(p) \/ InsertPayment(p) \/ AttachSession(p)
             \/ Capture(p) \/ SavePayment(p) \/ LockOrder(p) \/ ReadLocked(p) \/ MarkInProcess(p)
    BY <2>4 DEF ReuseSession, CreateRefused, InsertPayment, AttachSession, Capture, SavePayment,
                LockOrder, ReadLocked, MarkInProcess
  <2>5. CASE \/ Allocate(p) \/ CreateSubscription(p) \/ SkipItem(p) \/ Entitle(p) \/ EntitleFails(p)
             \/ Finalize(p) \/ FinalizeFails(p)
    BY <2>5 DEF Allocate, CreateSubscription, SkipItem, Entitle, EntitleFails, Finalize, FinalizeFails
  <2>6. CASE \/ Answer(p) \/ CheckProvider(p) \/ ClosePayment(p) \/ CancelOrder(p)
             \/ CancelOrderFails(p) \/ VoidCoupon(p) \/ Fail(p)
    BY <2>6 DEF Answer, CheckProvider, ClosePayment, CancelOrder, CancelOrderFails, VoidCoupon, Fail
  <2>7. QED
    BY <2>1, <2>2, <2>3, <2>4, <2>5, <2>6 DEF Step, Advance
<1>2. ASSUME TypeOK, OnSession, NEW p \in Procs, Step(p) PROVE OnSession'
  BY <1>1, <1>2, OthersStay DEF OnSession, SessionOf, Others
<1>3. QED
  BY <1>2, Kinds, EnvironmentStays DEF OnSession, SessionOf

-----------------------------------------------------------------------------
\* A captured session stays captured.
LEMMA CaptureStays ==
  ASSUME TypeOK, [Next]_vars
  PROVE  Captured \subseteq Captured'
<1> USE DEF TypeOK, Captured, AfterCapture, rowVars, extVars, procVars, vars
<1>1. CASE Environment
  BY <1>1 DEF Environment, Approve, Void, Redraft
<1>2. ASSUME NEW p \in Procs, CreateSession(p) \/ Capture(p) \/ Fail(p)
      PROVE  Captured \subseteq Captured'
  BY <1>2 DEF CreateSession, Unused, Capture, Fail
<1>3. ASSUME NEW p \in Procs, Step(p), ~CreateSession(p), ~Capture(p), ~Fail(p)
      PROVE  UNCHANGED session
  <2>1. CASE \/ OpenCheckout(p) \/ Confirm(p) \/ ConfirmRecorded(p) \/ Cancel(p) \/ CancelRecorded(p)
             \/ WebhookCompleted(p) \/ WebhookVoided(p) \/ CreateRefused(p) \/ ReuseSession(p)
             \/ InsertPayment(p) \/ AttachSession(p) \/ SavePayment(p) \/ LockOrder(p)
    BY <2>1 DEF OpenCheckout, Confirm, ConfirmRecorded, Cancel, CancelRecorded, WebhookCompleted,
                WebhookVoided, Receive, CreateRefused, ReuseSession, InsertPayment, AttachSession,
                SavePayment, LockOrder
  <2>2. CASE \/ ReadLocked(p) \/ MarkInProcess(p) \/ Allocate(p) \/ CreateSubscription(p)
             \/ SkipItem(p) \/ Entitle(p) \/ EntitleFails(p) \/ Finalize(p) \/ FinalizeFails(p)
             \/ Answer(p) \/ CheckProvider(p) \/ ClosePayment(p) \/ CancelOrder(p)
             \/ CancelOrderFails(p) \/ VoidCoupon(p)
    BY <2>2 DEF ReadLocked, MarkInProcess, Allocate, CreateSubscription, SkipItem, Entitle,
                EntitleFails, Finalize, FinalizeFails, Answer, CheckProvider, ClosePayment,
                CancelOrder, CancelOrderFails, VoidCoupon
  <2>3. QED
    BY <1>3, <2>1, <2>2 DEF Step, Advance
<1>4. QED
  BY <1>1, <1>2, <1>3, Kinds

\* A handler comes to the lock by a capture or by finding one.
LEMMA PayingStep ==
  ASSUME TypeOK, OnSession, NEW p \in Procs, Step(p), pc'[p] \in Paying
  PROVE  /\ job'[p].sess = job[p].sess
         /\ pc[p] \in Paying \/ job[p].sess \in Captured'
<1> USE DEF TypeOK, Jobs, Paying, Captured, OnSession, SessionOf, Finish, Goto, Begin, Fulfilling
<1>1. CASE \/ OpenCheckout(p) \/ Confirm(p) \/ ConfirmRecorded(p) \/ Cancel(p) \/ CancelRecorded(p)
           \/ WebhookCompleted(p) \/ WebhookVoided(p) \/ CreateSession(p) \/ CreateRefused(p)
  BY <1>1 DEF OpenCheckout, Confirm, ConfirmRecorded, Cancel, CancelRecorded, WebhookCompleted,
              WebhookVoided, Receive, CreateSession, CreateRefused
<1>2. CASE \/ ReuseSession(p) \/ InsertPayment(p) \/ AttachSession(p)
           \/ SavePayment(p) \/ LockOrder(p) \/ ReadLocked(p) \/ MarkInProcess(p) \/ Answer(p)
  BY <1>2 DEF ReuseSession, InsertPayment, AttachSession, SavePayment, LockOrder,
              ReadLocked, MarkInProcess, Answer
<1>3. CASE \/ Allocate(p) \/ CreateSubscription(p) \/ SkipItem(p) \/ Entitle(p) \/ EntitleFails(p)
           \/ Finalize(p) \/ FinalizeFails(p)
  BY <1>3 DEF Allocate, CreateSubscription, SkipItem, Entitle, EntitleFails, Finalize, FinalizeFails
<1>4. CASE Capture(p)
  BY <1>4 DEF Capture, CaptureCompleted
<1>5. CASE CheckProvider(p)
  BY <1>5 DEF CheckProvider, extVars
<1>6. CASE \/ ClosePayment(p) \/ CancelOrder(p) \/ CancelOrderFails(p) \/ VoidCoupon(p) \/ Fail(p)
  BY <1>6 DEF ClosePayment, CancelOrder, CancelOrderFails, VoidCoupon, Fail
<1>7. QED
  BY <1>1, <1>2, <1>3, <1>4, <1>5, <1>6 DEF Step, Advance

LEMMA EarnedStep == TypeOK /\ OnSession /\ Earned /\ [Next]_vars => Earned'
<1> SUFFICES ASSUME TypeOK, OnSession, Earned, [Next]_vars, NEW q \in Procs, pc'[q] \in Paying
             PROVE  job'[q].sess \in Captured'
  BY DEF Earned, Paying, Fulfilling
<1>1. ASSUME pc[q] \in Paying, job'[q].sess = job[q].sess PROVE job'[q].sess \in Captured'
  BY <1>1, CaptureStays DEF Earned
<1>2. ASSUME NEW p \in Procs, Step(p) PROVE job'[q].sess \in Captured'
  BY <1>1, <1>2, OthersStay, PayingStep DEF Others
<1>3. QED
  BY <1>1, <1>2, Kinds, EnvironmentStays

-----------------------------------------------------------------------------
\* The steps of a handler that fulfils the order, and those of any other.
Fulfils(p) ==
  \/ Allocate(p) \/ CreateSubscription(p) \/ SkipItem(p) \/ Entitle(p) \/ EntitleFails(p)
  \/ Finalize(p) \/ FinalizeFails(p)

\* Only they and a failure touch what the fulfilment builds, and only MarkInProcess
\* begins it and puts the order in process.
LEMMA OtherSteps ==
  ASSUME TypeOK, NEW p \in Procs, Step(p), ~Fulfils(p), ~Fail(p)
  PROVE  /\ UNCHANGED <<subs, entitled, broken>>
         /\ pc[p] \notin Fulfilling
         /\ pc'[p] \in Fulfilling => MarkInProcess(p) /\ pc'[p] = "allocating"
         /\ order'.status = "in_process" => order.status = "in_process" \/ pc'[p] \in Fulfilling
<1> USE DEF TypeOK, Fulfilling, Payable, Finish, Goto, Begin, rowVars, extVars, histVars
<1>1. CASE \/ OpenCheckout(p) \/ Confirm(p) \/ ConfirmRecorded(p) \/ Cancel(p) \/ CancelRecorded(p)
           \/ WebhookCompleted(p) \/ WebhookVoided(p) \/ CreateSession(p) \/ CreateRefused(p)
  BY <1>1 DEF OpenCheckout, Confirm, ConfirmRecorded, Cancel, CancelRecorded, WebhookCompleted,
              WebhookVoided, Receive, CreateSession, CreateRefused
<1>2. CASE \/ ReuseSession(p) \/ InsertPayment(p) \/ AttachSession(p) \/ Capture(p)
           \/ SavePayment(p) \/ LockOrder(p) \/ ReadLocked(p) \/ Answer(p)
  BY <1>2 DEF ReuseSession, InsertPayment, AttachSession, Capture, SavePayment, LockOrder,
              ReadLocked, Answer
<1>3. CASE MarkInProcess(p)
  BY <1>3 DEF MarkInProcess
<1>4. CASE \/ CheckProvider(p) \/ ClosePayment(p) \/ CancelOrder(p) \/ CancelOrderFails(p)
           \/ VoidCoupon(p)
  BY <1>4 DEF CheckProvider, ClosePayment, CancelOrder, CancelOrderFails, VoidCoupon, Orders
<1>5. QED
  BY <1>1, <1>2, <1>3, <1>4 DEF Step, Advance, Fulfils

\* What is delivered stays, what is broken stays so, and the order's row is left alone.
LEMMA FulfilStep ==
  ASSUME TypeOK, NEW p \in Procs, Fulfils(p) \/ Fail(p)
  PROVE  /\ subs \subseteq subs'
         /\ broken => broken'
         /\ UNCHANGED <<order, payments>>
         /\ pc[p] \in Fulfilling \/ (Fail(p) /\ pc'[p] \notin Fulfilling)
<1> USE DEF TypeOK, Fulfilling, Finish, Goto, rowVars, extVars, histVars
<1>1. CASE Allocate(p) \/ CreateSubscription(p) \/ Entitle(p) \/ Finalize(p)
  BY <1>1 DEF Allocate, CreateSubscription, Entitle, Finalize
<1>2. CASE EntitleFails(p) \/ FinalizeFails(p)
  BY <1>2 DEF EntitleFails, FinalizeFails
<1>3. CASE SkipItem(p)
  BY <1>3 DEF SkipItem
<1>4. CASE Fail(p)
  BY <1>4 DEF Fail
<1>5. QED
  BY <1>1, <1>2, <1>3, <1>4 DEF Fulfils

LEMMA ProgressStep == TypeOK /\ Progress /\ [Next]_vars => Progress'
<1>1. ASSUME TypeOK, Progress, NEW p \in Procs, Step(p) PROVE Progress'
  <2> USE DEF Progress
  <2>1. subs \subseteq subs' /\ (broken => broken')
    BY <1>1, OtherSteps, FulfilStep
  <2>2. ASSUME NEW q \in Procs \ {p}, pc'[q] \in {"creating", "entitling"}
        PROVE  Items \ subs' \subseteq todo'[q] \/ broken'
    BY <1>1, <2>1, <2>2, OthersStay DEF Others
  <2>3. ASSUME pc'[p] \in {"creating", "entitling"}
        PROVE  Items \ subs' \subseteq todo'[p] \/ broken'
    <3> USE DEF TypeOK, Finish, Goto, rowVars, histVars
    <3>1. CASE Allocate(p)
      BY <1>1, <3>1 DEF Allocate
    <3>2. CASE CreateSubscription(p)
      BY <1>1, <3>2 DEF CreateSubscription
    <3>3. CASE Entitle(p) \/ EntitleFails(p)
      BY <1>1, <3>3 DEF Entitle, EntitleFails, rowVars
    <3>4. CASE SkipItem(p)
      BY <3>4 DEF SkipItem
    <3>5. CASE Finalize(p) \/ FinalizeFails(p) \/ Fail(p)
      BY <1>1, <2>3, <3>5 DEF Finalize, FinalizeFails, Fail
    <3>6. CASE ~Fulfils(p) /\ ~Fail(p)
      BY <1>1, <2>3, <3>6, OtherSteps DEF Fulfilling
    <3>7. QED
      BY <3>1, <3>2, <3>3, <3>4, <3>5, <3>6 DEF Fulfils
  <2>4. QED
    BY <2>2, <2>3
<1>2. QED
  BY <1>1, Kinds, EnvironmentStays DEF Progress

LEMMA DoneStep == TypeOK /\ TypeOK' /\ Progress /\ Done /\ [Next]_vars => Done'
<1>1. ASSUME TypeOK, TypeOK', Progress, Done, NEW p \in Procs, Step(p), order'.status = "in_process"
      PROVE  (\E q \in Procs : pc'[q] \in Fulfilling) \/ subs' = Items \/ broken'
  <2>1. CASE ~Fulfils(p) /\ ~Fail(p)
    <3>1. ASSUME NEW q \in Procs, pc[q] \in Fulfilling PROVE pc'[q] \in Fulfilling
      BY <1>1, <2>1, <3>1, OtherSteps, OthersStay DEF Others
    <3>2. QED
      BY <1>1, <2>1, <3>1, OtherSteps DEF Done
  <2>2. CASE Fulfils(p)
    <3>1. CASE Finalize(p) \/ FinalizeFails(p)
      <4>1. pc[p] = "creating" /\ todo[p] = {} /\ subs' = subs /\ broken' = broken
        BY <3>1 DEF Finalize, FinalizeFails, rowVars, histVars
      <4>2. QED
        BY <1>1, <4>1 DEF Progress, TypeOK
    <3>2. CASE \/ Allocate(p) \/ CreateSubscription(p) \/ SkipItem(p)
               \/ Entitle(p) \/ EntitleFails(p)
      <4>1. pc \in [Procs -> States]
        BY <1>1 DEF TypeOK
      <4>2. pc'[p] \in Fulfilling
        BY <3>2, <4>1 DEF Allocate, CreateSubscription, SkipItem, Entitle, EntitleFails, Fulfilling
      <4>3. QED
        BY <4>2
    <3>3. QED
      BY <2>2, <3>1, <3>2 DEF Fulfils
  <2>3. CASE Fail(p)
    <3>1. pc[p] \in Fulfilling => broken'
      BY <2>3 DEF Fail
    <3>2. ASSUME NEW q \in Procs \ {p}, pc[q] \in Fulfilling PROVE pc'[q] \in Fulfilling
      BY <1>1, <3>2, OthersStay DEF Others
    <3>3. order' = order /\ subs \subseteq subs' /\ (broken => broken')
      BY <1>1, <2>3, FulfilStep
    <3>4. subs = Items => subs' = Items
      BY <1>1, <3>3 DEF TypeOK
    <3>5. QED
      BY <1>1, <3>1, <3>2, <3>3, <3>4, Zenon DEF Done
  <2>4. QED
    BY <2>1, <2>2, <2>3
<1>2. ASSUME TypeOK, Environment, Done PROVE Done'
  <2>1. order'.status = "in_process" => order.status = "in_process"
    BY <1>2 DEF Environment, Approve, Void, Redraft, TypeOK, Orders, rowVars, vars
  <2>2. QED
    BY <1>2, <2>1, EnvironmentStays DEF Done
<1>3. QED
  BY <1>1, <1>2, Kinds DEF Done

-----------------------------------------------------------------------------
LEMMA CaptureFirst ==
  TypeOK /\ OnSession /\ Earned /\ NothingWithoutCapture /\ [Next]_vars => NothingWithoutCapture'
<1> SUFFICES ASSUME TypeOK, OnSession, Earned, NothingWithoutCapture, [Next]_vars
             PROVE  NothingWithoutCapture'
  OBVIOUS
<1>1. Captured \subseteq Captured'
  BY CaptureStays
<1>2. ASSUME \A s \in Sessions : payments'[s] = "succeeded" => payments[s] = "succeeded" \/ s \in Captured,
             \/ UNCHANGED <<subs, entitled>> /\ (redemption' = "redeemed" => redemption = "redeemed")
             \/ Captured # {}
      PROVE  NothingWithoutCapture'
  BY <1>1, <1>2 DEF NothingWithoutCapture
<1>3. CASE Environment
  BY <1>2, <1>3 DEF Environment, Approve, Void, Redraft, vars, rowVars
<1>4. ASSUME NEW p \in Procs, Fulfils(p) \/ Fail(p) PROVE NothingWithoutCapture'
  <2>1. pc[p] \in Fulfilling => Captured # {}
    BY DEF Earned, Paying
  <2>2. CASE Fail(p)
    BY <1>2, <2>2 DEF Fail, rowVars
  <2>3. QED
    BY <1>2, <1>4, <2>1, <2>2, FulfilStep
<1>5. ASSUME NEW p \in Procs, SavePayment(p) PROVE NothingWithoutCapture'
  <2>1. job[p].sess \in Captured
    BY <1>5 DEF SavePayment, Earned, Paying
  <2>2. QED
    BY <1>2, <1>5, <2>1 DEF SavePayment, TypeOK
<1>6. ASSUME NEW p \in Procs, Step(p), ~Fulfils(p), ~Fail(p), ~SavePayment(p)
      PROVE  /\ redemption' = "redeemed" => redemption = "redeemed"
             /\ \A s \in Sessions : payments'[s] = "succeeded" => payments[s] = "succeeded"
  <2> USE DEF TypeOK, rowVars
  <2>1. CASE \/ OpenCheckout(p) \/ Confirm(p) \/ ConfirmRecorded(p) \/ Cancel(p) \/ CancelRecorded(p)
             \/ WebhookCompleted(p) \/ WebhookVoided(p) \/ CreateSession(p) \/ CreateRefused(p)
             \/ ReuseSession(p) \/ InsertPayment(p) \/ AttachSession(p)
    BY <2>1 DEF OpenCheckout, Confirm, ConfirmRecorded, Cancel, CancelRecorded, WebhookCompleted,
                WebhookVoided, Receive, CreateSession, CreateRefused, ReuseSession, InsertPayment,
                AttachSession
  <2>2. CASE \/ Capture(p) \/ LockOrder(p) \/ ReadLocked(p) \/ MarkInProcess(p) \/ Answer(p)
             \/ CheckProvider(p) \/ ClosePayment(p) \/ CancelOrder(p) \/ CancelOrderFails(p)
             \/ VoidCoupon(p)
    BY <2>2 DEF Capture, LockOrder, ReadLocked, MarkInProcess, Answer, CheckProvider, ClosePayment,
                CancelOrder, CancelOrderFails, VoidCoupon
  <2>3. QED
    BY <1>6, <2>1, <2>2 DEF Step, Advance, Fulfils
<1>7. ASSUME NEW p \in Procs, Step(p), ~Fulfils(p), ~Fail(p), ~SavePayment(p)
      PROVE  NothingWithoutCapture'
  BY <1>2, <1>6, <1>7, OtherSteps
<1>8. QED
  BY <1>3, <1>4, <1>5, <1>7, Kinds

-----------------------------------------------------------------------------
LEMMA CheckoutInit == Init => CheckoutInv
<1> SUFFICES ASSUME Init PROVE CheckoutInv
  OBVIOUS
<1> USE CheckoutAssumption
<1>1. AnyTotal \in Totals
  BY DEF AnyTotal
<1>2. NoJob \in Jobs
  BY <1>1 DEF NoJob, Jobs
<1>3. TypeOK
  <2>1. order \in Orders
    BY DEF Init, Orders, Statuses, Payable
  <2>2. /\ session \in [Sessions -> SessionStates] /\ price \in [Sessions -> Totals]
        /\ payments \in [Sessions -> PaymentStates]
    BY <1>1 DEF Init, SessionStates, PaymentStates
  <2>3. pc \in [Procs -> States] /\ job \in [Procs -> Jobs] /\ todo \in [Procs -> SUBSET Items]
    BY <1>2 DEF Init, States
  <2>4. failures \in 0..MaxFailures
    BY DEF Init
  <2>5. broken \in BOOLEAN
    BY Zenon DEF Init
  <2>6. QED
    BY <2>1, <2>2, <2>3, <2>4, <2>5 DEF Init, TypeOK
<1>4. \A p \in Procs : pc[p] = "idle"
  BY DEF Init
<1>5. Mutex /\ OnSession /\ Earned /\ Progress
  BY <1>4 DEF Mutex, OnSession, SessionOf, Earned, Paying, Progress, Locked, Fulfilling
<1>6. Done /\ NothingWithoutCapture
  BY DEF Init, Done, NothingWithoutCapture
<1>7. QED
  BY <1>3, <1>5, <1>6 DEF CheckoutInv

\* The inductive invariant.
THEOREM CheckoutInvariant == Spec => []CheckoutInv
<1>1. CheckoutInv /\ [Next]_vars => CheckoutInv'
  BY TypeStep, MutexStep, SessionStep, EarnedStep, ProgressStep, DoneStep, CaptureFirst
     DEF CheckoutInv
<1>2. QED
  BY <1>1, CheckoutInit, PTL DEF Spec

\* The order, its sessions and its handlers keep their types.
THEOREM TypeCorrect == Spec => []TypeOK
  BY CheckoutInvariant, PTL DEF CheckoutInv

\* Nothing is given for money that was not taken, whatever the number of requests,
\* sessions, items and failures.
THEOREM PaidFirst == Spec => []NothingWithoutCapture
  BY CheckoutInvariant, PTL DEF CheckoutInv

\* A handler that holds the order's lock and reads in_process finds the fulfilment
\* done or broken: nobody else can be in the middle of it.
THEOREM LockedAnswerIsTrue == Spec => []WaiterFindsItDone
<1>1. CheckoutInv => WaiterFindsItDone
  <2> SUFFICES ASSUME CheckoutInv, NEW p \in Procs, pc[p] = "locked", order.status = "in_process"
               PROVE  subs = Items \/ broken
    BY DEF WaiterFindsItDone
  <2>1. \A q \in Procs : pc[q] \notin Fulfilling
    BY DEF CheckoutInv, Mutex, Locked, Fulfilling
  <2>2. QED
    BY <2>1 DEF CheckoutInv, Done
<1>2. QED
  BY <1>1, CheckoutInvariant, PTL
=============================================================================
