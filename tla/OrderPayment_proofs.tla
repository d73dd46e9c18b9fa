-------------------------- MODULE OrderPayment_proofs --------------------------
(***************************************************************************)
(* What holds of an order and its payments for any set of providers,       *)
(* sessions, requests, totals and failures.                                *)
(***************************************************************************)
EXTENDS OrderPayment, FiniteSetTheorems, TLAPS

Rows == [status : Statuses, prov : Ways, ref : Sessions \cup {NoSession},
         total : Totals, settled : Totals]

SessionRows == [prov : Ways, price : Totals,
                state : {"absent", "created", "open", "complete", "paid", "bounced", "failed"}]

\* The steps of one request of the backend.
ProcStep(p) ==
  \/ OpenStripe(p) \/ OpenNowPayments(p) \/ OpenPayop(p) \/ OpenAntom(p) \/ OpenPay4bit(p)
  \/ Poll(p) \/ RepeatPayop(p) \/ CancelAntom(p) \/ PayWithCredits(p) \/ Cancel(p)
  \/ Advance(p) \/ LockOrder(p) \/ PayOrderFails(p) \/ Fail(p)
  \/ \E s \in Sessions : Notified(p, s)

\* The request was told of a payment that the provider has, at Stripe of a completed session.
PaidJob(p) == job[p].sess \in Sessions /\ Completed(job[p].sess)

\* What a request knows by the step it is at.
Informed(p) ==
  /\ pc[p] = "attaching" => job[p].sess \in Sessions /\ At(job[p].sess) = "created"
  /\ pc[p] = "attaching_call" => /\ job[p].kind \in {"check", "error", "pay"} /\ job[p].prov = "pay4bit"
                                 /\ job[p].sess \in Sessions
                                 /\ job[p].kind = "pay" => PaidJob(p)
  /\ pc[p] = "writing" /\ job[p].result = "succeeded" => PaidJob(p)
  /\ pc[p] \in {"locking", "locked", "marking", "serving"} /\ job[p].kind # "credits" => PaidJob(p)
  /\ pc[p] = "marking" => job[p].kind # "credits"
  /\ pc[p] \in {"debiting", "paying"} => job[p].kind = "credits"
  /\ job[p].kind = "credits" => job[p].prov = "credits"
  /\ pc[p] \in {"expiring", "inquiring"} => job[p].sess \in Sessions

\* Two requests never attach the same session.
Apart == \A p, q \in Procs :
  p # q /\ pc[p] = "attaching" /\ pc[q] = "attaching" => job[p].sess # job[q].sess

\* What is written follows what was paid.
Recorded ==
  /\ \A s \in Sessions : payments[s] = "succeeded" => Completed(s)
  /\ \A s \in taken : s \in Sessions /\ Completed(s)
  /\ \A s \in Sessions : At(s) \in {"complete", "bounced"} => session[s].prov = "stripe"
  /\ order.prov \in Providers => order.ref \in Sessions

KnownInv == TypeOK /\ (\A p \in Procs : Informed(p)) /\ Apart /\ Recorded

-----------------------------------------------------------------------------
(* Types.                                                                    *)

LEMMA NoJobType == AnyTotal \in Totals /\ NoJob \in Jobs
<1>1. AnyTotal \in Totals
  BY OrderPaymentAssumption DEF AnyTotal
<1>2. QED
  BY <1>1 DEF NoJob, Jobs, Kinds, Ways, Statuses, Payable, PaymentStates, Results

\* A handler at p moves on, with what it has read; nobody else does.
LEMMA BeginType ==
  ASSUME TypeOK, NEW p \in Procs, NEW l \in States, NEW j \in Jobs, Begin(p, l, j)
  PROVE  /\ pc' \in [Procs -> States] /\ job' \in [Procs -> Jobs]
         /\ pc'[p] = l /\ job'[p] = j
         /\ \A q \in Procs : q # p => pc'[q] = pc[q] /\ job'[q] = job[q]
BY DEF TypeOK, Begin

LEMMA GotoType ==
  ASSUME TypeOK, NEW p \in Procs, NEW l \in States, Goto(p, l)
  PROVE  /\ pc' \in [Procs -> States] /\ job' \in [Procs -> Jobs]
         /\ pc'[p] = l /\ job' = job
         /\ \A q \in Procs : q # p => pc'[q] = pc[q] /\ job'[q] = job[q]
BY DEF TypeOK, Goto

LEMMA FinishType ==
  ASSUME TypeOK, NEW p \in Procs, Finish(p)
  PROVE  /\ pc' \in [Procs -> States] /\ job' \in [Procs -> Jobs]
         /\ pc'[p] = "idle" /\ job'[p] = NoJob
         /\ \A q \in Procs : q # p => pc'[q] = pc[q] /\ job'[q] = job[q]
BY NoJobType DEF TypeOK, Finish, States

LEMMA AnswerType ==
  ASSUME TypeOK, NEW p \in Procs, Answer(p, job[p])
  PROVE  /\ pc' \in [Procs -> States] /\ job' \in [Procs -> Jobs]
         /\ pc'[p] \in {"idle", "answering"} /\ job'[p] \in {job[p], NoJob}
         /\ \A q \in Procs : q # p => pc'[q] = pc[q] /\ job'[q] = job[q]
<1>1. CASE Goto(p, "answering")
  BY <1>1, GotoType DEF States
<1>2. CASE Finish(p)
  BY <1>2, FinishType
<1>3. QED
  BY <1>1, <1>2 DEF Answer

\* The initial state is well typed.
LEMMA InitType == Init => TypeOK
<1> SUFFICES ASSUME Init PROVE TypeOK
  OBVIOUS
<1>1. AnyTotal \in Totals
  BY NoJobType
<1>2. order \in Rows /\ session \in [Sessions -> SessionRows]
  BY <1>1 DEF Init, Rows, SessionRows, Statuses, Payable, Ways
<1>3. payments \in [Sessions -> PaymentStates] /\ pc \in [Procs -> States] /\ job \in [Procs -> Jobs]
  BY NoJobType DEF Init, PaymentStates, States
<1>4. served \in BOOLEAN /\ reopened \in BOOLEAN /\ strayed \in BOOLEAN
  BY Zenon DEF Init
<1>5. failures \in 0..MaxFailures
  BY OrderPaymentAssumption DEF Init
<1>6. QED
  BY <1>2, <1>3, <1>4, <1>5 DEF Init, TypeOK, Rows, SessionRows

\* The records of new jobs.
LEMMA NewJobType ==
  ASSUME TypeOK, NEW k \in Kinds, NEW prov \in Ways, NEW s \in Sessions \cup {NoSession}, NEW r \in Results,
         NEW seen \in PaymentStates, NEW fresh \in BOOLEAN, NEW st \in Statuses, NEW t \in Totals
  PROVE  /\ [NoJob EXCEPT !.kind = k, !.prov = prov, !.total = t] \in Jobs
         /\ [NoJob EXCEPT !.kind = k, !.prov = prov, !.sess = s] \in Jobs
         /\ [NoJob EXCEPT !.kind = k, !.prov = prov, !.sess = s, !.seen = seen, !.result = r] \in Jobs
         /\ [NoJob EXCEPT !.kind = k, !.prov = prov, !.sess = s, !.seen = seen, !.result = r, !.fresh = fresh] \in Jobs
         /\ [NoJob EXCEPT !.kind = k, !.prov = prov, !.sess = s, !.status = st, !.total = t] \in Jobs
<1>1. NoJob \in Jobs
  BY NoJobType
<1>2. \A j \in Jobs : /\ [j EXCEPT !.kind = k] \in Jobs
                     /\ [j EXCEPT !.prov = prov] \in Jobs
                     /\ [j EXCEPT !.sess = s] \in Jobs
                     /\ [j EXCEPT !.seen = seen] \in Jobs
                     /\ [j EXCEPT !.result = r] \in Jobs
                     /\ [j EXCEPT !.fresh = fresh] \in Jobs
                     /\ [j EXCEPT !.status = st] \in Jobs
                     /\ [j EXCEPT !.total = t] \in Jobs
  BY DEF Jobs
<1>3. QED
  BY <1>1, <1>2, Zenon

\* Whatever a handler does next, the control stays well typed.
LEMMA MoveType ==
  ASSUME TypeOK, NEW p \in Procs,
         \/ \E l \in States : Goto(p, l)
         \/ Finish(p)
         \/ Answer(p, job[p])
         \/ \E l \in States, j \in Jobs : Begin(p, l, j)
  PROVE  pc' \in [Procs -> States] /\ job' \in [Procs -> Jobs]
BY BeginType, GotoType, FinishType, AnswerType

LEMMA UnlockType ==
  ASSUME TypeOK, NEW p \in Procs, Unlock(p)
  PROVE  lock' \in Procs \cup {NoProc}
BY DEF TypeOK, Unlock

\* Handlers that begin.
LEMMA OpenTypes ==
  ASSUME TypeOK, NEW p \in Procs,
         \/ OpenStripe(p) \/ OpenNowPayments(p) \/ OpenPayop(p) \/ OpenAntom(p) \/ OpenPay4bit(p)
         \/ Poll(p) \/ RepeatPayop(p) \/ CancelAntom(p) \/ PayWithCredits(p) \/ Cancel(p)
  PROVE  TypeOK'
<1> USE DEF rowVars, histVars
<1>1. ASSUME NEW prov \in Ways, Open(p, prov) PROVE TypeOK'
  <2>1. Sum(prov) \in Totals
    BY DEF Sum, TypeOK
  <2>2. [NoJob EXCEPT !.kind = "open", !.prov = prov, !.total = Sum(prov)] \in Jobs
    BY <2>1, NoJobType DEF Jobs, Kinds
  <2>3. pc' \in [Procs -> States] /\ job' \in [Procs -> Jobs]
    BY <1>1, <2>2, MoveType DEF Open, States
  <2>4. QED
    BY <1>1, <2>3 DEF Open, TypeOK
<1>2. CASE OpenStripe(p) \/ OpenNowPayments(p) \/ OpenPayop(p) \/ OpenAntom(p) \/ OpenPay4bit(p)
  BY <1>1, <1>2 DEF OpenStripe, OpenNowPayments, OpenPayop, OpenAntom, OpenPay4bit, Open, Ways
<1>3. ASSUME NEW kind \in Kinds, NEW s \in Sessions, NEW r \in Results, NEW fresh \in BOOLEAN,
             Reconcile(p, kind, s, r, fresh)
      PROVE  pc' \in [Procs -> States] /\ job' \in [Procs -> Jobs]
  <2>1. session[s].prov \in Ways /\ payments[s] \in PaymentStates
    BY DEF TypeOK
  <2>2. [NoJob EXCEPT !.kind = kind, !.prov = session[s].prov, !.sess = s, !.seen = payments[s],
                      !.result = r, !.fresh = fresh] \in Jobs
    BY <2>1, NewJobType, NoJobType DEF Statuses, Payable
  <2>3. QED
    BY <1>3, <2>2, MoveType DEF Reconcile, States
<1>4. \A s \in Sessions : Polled(s) \in Results
  BY DEF Polled, Results
<1>5. CASE Poll(p) \/ RepeatPayop(p)
  <2>1. pc' \in [Procs -> States] /\ job' \in [Procs -> Jobs]
    BY <1>3, <1>4, <1>5 DEF Poll, RepeatPayop, Kinds
  <2>2. QED
    BY <1>5, <2>1 DEF Poll, RepeatPayop, TypeOK
<1>6. CASE CancelAntom(p)
  <2>1. pc' \in [Procs -> States] /\ job' \in [Procs -> Jobs]
    BY <1>3, <1>6 DEF CancelAntom, Kinds, Results
  <2>2. session' \in [Sessions -> SessionRows]
    <3>1. PICK s \in Sessions : session' \in {session} \cup
            (IF At(s) = "open" THEN {[session EXCEPT ![s].state = "failed"]} ELSE {})
      BY <1>6 DEF CancelAntom
    <3>2. session' = session \/ session' = [session EXCEPT ![s].state = "failed"]
      BY <3>1
    <3>3. QED
      BY <3>2 DEF TypeOK, SessionRows
  <2>3. QED
    BY <1>6, <2>1, <2>2 DEF CancelAntom, TypeOK, SessionRows
<1>7. CASE PayWithCredits(p)
  <2>1. [NoJob EXCEPT !.kind = "credits", !.prov = "credits"] \in Jobs
    BY NoJobType DEF Jobs, Kinds, Ways
  <2>2. pc' \in [Procs -> States] /\ job' \in [Procs -> Jobs]
    BY <1>7, <2>1, MoveType DEF PayWithCredits, States
  <2>3. QED
    BY <1>7, <2>2 DEF PayWithCredits, TypeOK
<1>8. CASE Cancel(p)
  <2>1. order.prov \in Ways /\ order.ref \in Sessions \cup {NoSession}
    BY DEF TypeOK
  <2>2. [NoJob EXCEPT !.kind = "cancel", !.prov = order.prov, !.sess = order.ref] \in Jobs
    BY <2>1, NoJobType DEF Jobs, Kinds
  <2>3. \E l \in States : Begin(p, l, [NoJob EXCEPT !.kind = "cancel", !.prov = order.prov, !.sess = order.ref])
    BY <1>8 DEF Cancel, States
  <2>4. pc' \in [Procs -> States] /\ job' \in [Procs -> Jobs]
    BY <2>2, <2>3, MoveType
  <2>5. QED
    BY <1>8, <2>4 DEF Cancel, TypeOK
<1>9. QED
  BY <1>2, <1>5, <1>6, <1>7, <1>8

LEMMA NotifyTypes ==
  ASSUME TypeOK, NEW p \in Procs, NEW s \in Sessions, Notified(p, s)
  PROVE  TypeOK'
<1> USE DEF rowVars, histVars
<1>1. ASSUME NEW kind \in {"final", "attempt"}, NEW r \in Results, NEW l \in {"locking", "writing"},
             Record(p, kind, s, r, l)
      PROVE  TypeOK'
  <2> DEFINE seen == IF l = "writing" THEN payments[s] ELSE NoJob.seen
             result == IF l = "writing" THEN r ELSE NoJob.result
  <2>1. session[s].prov \in Ways /\ seen \in PaymentStates /\ result \in Results
    BY DEF TypeOK, NoJob, PaymentStates, Results
  <2>2. [NoJob EXCEPT !.kind = "notify", !.prov = session[s].prov, !.sess = s, !.seen = seen, !.result = result]
          \in Jobs
    <3> HIDE DEF seen, result
    <3>1. QED
      BY <2>1, NewJobType, NoJobType DEF Kinds, Statuses, Payable
  <2>3. [NoJob EXCEPT !.kind = "notify", !.prov = session[s].prov, !.sess = s,
                      !.seen = IF l = "writing" THEN payments[s] ELSE @,
                      !.result = IF l = "writing" THEN r ELSE @]
          = [NoJob EXCEPT !.kind = "notify", !.prov = session[s].prov, !.sess = s, !.seen = seen, !.result = result]
    BY DEF NoJob
  <2>4. pc' \in [Procs -> States] /\ job' \in [Procs -> Jobs]
    BY <1>1, <2>2, <2>3, MoveType DEF Record, States
  <2>5. events' \subseteq ({"final", "attempt"} \cup Kinds) \X (Sessions \cup {NoSession})
    BY <1>1 DEF Record, TypeOK
  <2>6. QED
    BY <1>1, <2>4, <2>5 DEF Record, TypeOK
<1>2. Polled(s) \in Results
  BY DEF Polled, Results
<1>3. CASE NotifyStripe(p, s) \/ NotifyNowPayments(p, s)
  BY <1>1, <1>3 DEF NotifyStripe, NotifyNowPayments, Results
<1>4. CASE NotifyPayop(p, s) \/ NotifyAntom(p, s)
  BY <1>1, <1>2, <1>4 DEF NotifyPayop, NotifyAntom
<1>5. CASE Callback(p, s)
  <2>1. PICK m \in {"check", "error", "pay"} :
           Begin(p, IF session[s].price = Sum("pay4bit") THEN "attaching_call" ELSE "cancelling",
                [NoJob EXCEPT !.kind = m, !.prov = "pay4bit", !.sess = s,
                   !.status = order.status, !.total = Sum("pay4bit")])
    BY <1>5 DEF Callback
  <2>2. Sum("pay4bit") \in Totals /\ order.status \in Statuses
    BY DEF Sum, TypeOK
  <2>3. "pay4bit" \in Ways
    <3>1. session[s].prov = "pay4bit" /\ session[s].prov \in Ways
      BY <1>5 DEF Callback, TypeOK
    <3>2. QED
      BY <3>1
  <2>4. [NoJob EXCEPT !.kind = m, !.prov = "pay4bit", !.sess = s,
                      !.status = order.status, !.total = Sum("pay4bit")] \in Jobs
    BY <2>2, <2>3, NoJobType DEF Jobs, Kinds
  <2>5. pc' \in [Procs -> States] /\ job' \in [Procs -> Jobs]
    BY <2>1, <2>4, MoveType DEF States
  <2>6. QED
    BY <1>5, <2>5 DEF Callback, TypeOK
<1>6. QED
  BY <1>3, <1>4, <1>5 DEF Notified

\* Handlers that go on.
LEMMA AdvanceTypes ==
  ASSUME TypeOK, NEW p \in Procs, Advance(p),
         pc[p] = "attaching_call" => job[p].kind \in {"check", "error", "pay"} /\ job[p].prov = "pay4bit",
         pc[p] = "marking" => job[p].sess \in Sessions
  PROVE  TypeOK'
<1> USE DEF rowVars, histVars
<1>1. job[p] \in Jobs /\ pc[p] \in States
  BY DEF TypeOK
<1>2. CASE CreateSession(p)
  <2>1. PICK s \in Sessions :
          /\ session' = [session EXCEPT ![s] = [prov |-> job[p].prov, state |-> "created", price |-> job[p].total]]
          /\ payments' = [payments EXCEPT ![s] = "pending"] \/ UNCHANGED payments
          /\ job' = [job EXCEPT ![p].sess = s]
    BY <1>2 DEF CreateSession
  <2>2. session' \in [Sessions -> SessionRows]
    BY <1>1, <2>1 DEF TypeOK, SessionRows, Jobs
  <2>3. payments' \in [Sessions -> PaymentStates]
    BY <2>1 DEF TypeOK, PaymentStates, Results
  <2>4. job' \in [Procs -> Jobs]
    <3>1. [job[p] EXCEPT !.sess = s] \in Jobs
      BY <1>1 DEF Jobs
    <3>2. job' = [job EXCEPT ![p] = [job[p] EXCEPT !.sess = s]]
      BY <2>1
    <3>3. QED
      BY <3>1, <3>2 DEF TypeOK
  <2>5. pc' \in [Procs -> States]
    BY <1>2 DEF CreateSession, TypeOK, States
  <2>6. QED
    BY <1>2, <2>2, <2>3, <2>4, <2>5 DEF CreateSession, TypeOK, SessionRows
<1>3. CASE CreateRefused(p)
  BY <1>3, MoveType DEF CreateRefused, TypeOK
<1>4. CASE AttachSession(p)
  <2>1. order' \in Rows
    BY <1>1, <1>4 DEF AttachSession, TypeOK, Rows, Statuses, Payable, Jobs
  <2>2. session' \in [Sessions -> SessionRows]
    BY <1>4, ZenonT(30) DEF AttachSession, TypeOK, SessionRows
  <2>3. reopened' \in BOOLEAN
    BY <1>4, Zenon DEF AttachSession
  <2>4. QED
    BY <1>4, <2>1, <2>2, <2>3, MoveType DEF AttachSession, TypeOK, Rows, SessionRows
<1>5. CASE WriteStatus(p)
  <2>1. payments' \in [Sessions -> PaymentStates]
    BY <1>1, <1>5 DEF WriteStatus, TypeOK, PaymentStates, Jobs
  <2>2. [job[p] EXCEPT !.result = "pending", !.seen = "absent"] \in Jobs
    BY <1>1 DEF Jobs, Results, PaymentStates
  <2>3. AfterWrite(job[p]) \in States
    BY DEF AfterWrite, States
  <2>4. Finish(p) \/ Begin(p, AfterWrite(job[p]), [job[p] EXCEPT !.result = "pending", !.seen = "absent"])
    BY <1>5 DEF WriteStatus
  <2>5. pc' \in [Procs -> States] /\ job' \in [Procs -> Jobs]
    BY <2>2, <2>3, <2>4, MoveType
  <2>6. QED
    BY <1>5, <2>1, <2>5 DEF WriteStatus, TypeOK
<1>6. CASE ReleaseAntom(p)
  <2>1. order' \in Rows
    BY <1>6 DEF ReleaseAntom, TypeOK, Rows, Ways
  <2>2. QED
    BY <1>6, <2>1, MoveType DEF ReleaseAntom, TypeOK, Rows
<1>7. CASE StoreAnswer(p)
  <2>1. events' \subseteq ({"final", "attempt"} \cup Kinds) \X (Sessions \cup {NoSession})
    BY <1>1, <1>7 DEF StoreAnswer, TypeOK, Jobs
  <2>2. QED
    BY <1>7, <2>1, MoveType DEF StoreAnswer, TypeOK
<1>8. CASE ReadLocked(p)
  <2>1. lock' \in Procs \cup {NoProc}
    BY <1>8, UnlockType DEF ReadLocked, TypeOK
  <2>2. Answer(p, job[p]) \/ \E l \in States : Goto(p, l)
    BY <1>8 DEF ReadLocked, States, Locked
  <2>3. QED
    BY <1>8, <2>1, <2>2, MoveType DEF ReadLocked, TypeOK
<1>9. CASE MarkInProcess(p)
  <2>1. CASE order.status \in Payable
    <3>1. job[p].sess \in Sessions /\ session[job[p].sess].price \in Totals
      BY <1>1, <1>9 DEF MarkInProcess, TypeOK, Jobs
    <3>2. order' \in Rows
      BY <1>1, <1>9, <2>1, <3>1, ZenonT(30) DEF MarkInProcess, TypeOK, Rows, Statuses, Jobs
    <3>3. taken' \cup lost \subseteq Sessions \cup {NoSession}
      BY <1>9, <2>1, <3>1 DEF MarkInProcess, TypeOK
    <3>4. QED
      BY <1>9, <2>1, <3>2, <3>3, MoveType DEF MarkInProcess, TypeOK, Rows, States, Locked
  <2>2. CASE order.status \notin Payable
    BY <1>9, <2>2, MoveType, UnlockType DEF MarkInProcess, TypeOK
  <2>3. QED
    BY <2>1, <2>2
<1>10. CASE Serve(p)
  <2>1. payments' \in [Sessions -> PaymentStates] /\ served' \in BOOLEAN
    BY <1>10 DEF Serve, TypeOK, PaymentStates, Results
  <2>2. QED
    BY <1>10, <2>1, MoveType DEF Serve, TypeOK, States, Locked
<1>11. CASE Finalize(p) \/ VoidCoupon(p)
  <2>1. redemption' \in {"reserved", "redeemed", "voided"}
    BY <1>11 DEF Finalize, VoidCoupon, TypeOK
  <2>2. lock' \in Procs \cup {NoProc} /\ pc' \in [Procs -> States] /\ job' \in [Procs -> Jobs]
    BY <1>11, MoveType, UnlockType DEF Finalize, VoidCoupon
  <2>3. QED
    BY <1>11, <2>1, <2>2 DEF Finalize, VoidCoupon, TypeOK
<1>12. CASE ReadForCredits(p)
  <2>1. lock' \in Procs \cup {NoProc}
    BY <1>12, UnlockType DEF ReadForCredits, TypeOK
  <2>2. Finish(p) \/ \E l \in States : Goto(p, l)
    BY <1>12 DEF ReadForCredits, States, Locked
  <2>3. QED
    BY <1>12, <2>1, <2>2, MoveType DEF ReadForCredits, TypeOK
<1>13. CASE Debit(p)
  <2>1. lock' \in Procs \cup {NoProc}
    BY <1>13, UnlockType DEF Debit, TypeOK
  <2>2. Finish(p) \/ \E l \in States : Goto(p, l)
    BY <1>13 DEF Debit, States, Locked
  <2>3. ledger' \in [debits : Nat, refunds : Nat]
    BY <1>13 DEF Debit, TypeOK
  <2>4. QED
    BY <1>13, <2>1, <2>2, <2>3, MoveType DEF Debit, TypeOK
<1>14. CASE PayOrder(p)
  <2>1. order' \in Rows
    BY <1>14 DEF PayOrder, TypeOK, Rows, Ways, Statuses
  <2>2. QED
    BY <1>14, <2>1, MoveType DEF PayOrder, TypeOK, Rows, States, Locked
<1>15. CASE RefundCredits(p)
  <2>1. ledger' \in [debits : Nat, refunds : Nat]
    BY <1>15 DEF RefundCredits, TypeOK
  <2>2. QED
    BY <1>15, <2>1, MoveType, UnlockType DEF RefundCredits, TypeOK
<1>16. CASE ExpireStripe(p)
  <2>1. session' \in [Sessions -> SessionRows]
    <3>1. \/ session' = session
          \/ session' = [session EXCEPT ![job[p].sess].state = "failed"]
      BY <1>16 DEF ExpireStripe
    <3>2. QED
      BY <3>1 DEF TypeOK, SessionRows
  <2>2. QED
    BY <1>16, <2>1, MoveType DEF ExpireStripe, TypeOK, SessionRows, States
<1>17. CASE InquireStripe(p) \/ CloseNowPayments(p)
  <2>1. payments' \in [Sessions -> PaymentStates] /\ session' \in [Sessions -> SessionRows]
    <3>1. CASE InquireStripe(p)
      <4>1. PICK st \in PaymentStates : payments' \in {payments, [payments EXCEPT ![job[p].sess] = st]}
        BY <3>1 DEF InquireStripe, CancelBlindly, CancelIntent, TypeOK, PaymentStates, Results
      <4>2. \/ session' = session
            \/ session' = [session EXCEPT ![job[p].sess].state = IF @ = "open" THEN "failed" ELSE @]
        BY <3>1 DEF InquireStripe, CancelBlindly, CancelIntent
      <4>3. QED
        BY <4>1, <4>2 DEF TypeOK, SessionRows
    <3>2. CASE CloseNowPayments(p)
      BY <3>2 DEF CloseNowPayments, TypeOK, PaymentStates, Results, SessionRows
    <3>3. QED
      BY <1>17, <3>1, <3>2
  <2>2. Finish(p) \/ \E l \in States : Goto(p, l)
    BY <1>17 DEF InquireStripe, CancelBlindly, CancelIntent, CloseNowPayments, States
  <2>3. QED
    BY <1>17, <2>1, <2>2, MoveType DEF InquireStripe, CancelBlindly, CancelIntent, CloseNowPayments, TypeOK, SessionRows
<1>18. CASE CancelOrder(p)
  <2>1. order' \in Rows
    BY <1>18 DEF CancelOrder, TypeOK, Rows, Statuses
  <2>2. QED
    BY <1>18, <2>1, MoveType DEF CancelOrder, TypeOK, Rows, States
<1>19. CASE AttachCallback(p)
  <2>1. order' \in Rows
    <3>1. "pay4bit" \in Ways
      BY <1>1, <1>19 DEF AttachCallback, Jobs
    <3>2. QED
      BY <1>1, <1>19, <3>1 DEF AttachCallback, TypeOK, Rows, Statuses, Payable, Jobs
  <2>2. reopened' \in BOOLEAN
    BY <1>19, Zenon DEF AttachCallback
  <2>3. job[p].kind \in {"check", "error", "pay"}
    BY <1>19 DEF AttachCallback
  <2>4. PICK written \in
            CASE job[p].kind = "check" /\ job[p].status \in Payable     -> {"pending"}
              [] job[p].kind = "check" /\ job[p].status = "in_process"  -> {"pending", payments[job[p].sess]}
              [] job[p].kind = "check" /\ job[p].status = "cancelled"   -> {payments[job[p].sess]}
              [] job[p].kind = "error"                             -> {"failed"}
              [] job[p].kind = "pay"                               -> {"succeeded"} :
           payments' = [payments EXCEPT ![job[p].sess] = written]
    BY <1>19 DEF AttachCallback
  <2>5. written \in {"pending", "failed", "succeeded", payments[job[p].sess]}
    BY <1>1, <2>3, <2>4 DEF Jobs, Statuses
  <2>6. payments' \in [Sessions -> PaymentStates]
    BY <2>4, <2>5 DEF TypeOK, PaymentStates, Results
  <2>7. QED
    BY <1>19, <2>1, <2>2, <2>6, MoveType DEF AttachCallback, TypeOK, Rows, States
<1>20. QED
  BY <1>2, <1>3, <1>4, <1>5, <1>6, <1>7, <1>8, <1>9, <1>10, <1>11, <1>12, <1>13, <1>14, <1>15,
     <1>16, <1>17, <1>18, <1>19 DEF Advance

LEMMA FailTypes ==
  ASSUME TypeOK, NEW p \in Procs, LockOrder(p) \/ PayOrderFails(p) \/ Fail(p)
  PROVE  TypeOK'
<1> USE DEF rowVars, histVars
<1>1. CASE LockOrder(p)
  BY <1>1, MoveType DEF LockOrder, Lock, TypeOK, States, Locked
<1>2. CASE PayOrderFails(p)
  <2>1. failures' \in 0..MaxFailures
    BY <1>2, OrderPaymentAssumption DEF PayOrderFails, TypeOK
  <2>2. pc' \in [Procs -> States] /\ job' \in [Procs -> Jobs]
    BY <1>2, MoveType DEF PayOrderFails, States, Locked
  <2>3. QED
    BY <1>2, <2>1, <2>2 DEF PayOrderFails, TypeOK
<1>3. CASE Fail(p)
  <2>1. ledger' \in [debits : Nat, refunds : Nat]
    BY <1>3 DEF Fail, TypeOK
  <2>2. strayed' \in BOOLEAN
    BY <1>3, Zenon DEF Fail
  <2>3. taken' \cup lost' \subseteq Sessions \cup {NoSession}
    BY <1>3 DEF Fail, TypeOK, Jobs
  <2>4. lock' \in Procs \cup {NoProc} /\ pc' \in [Procs -> States] /\ job' \in [Procs -> Jobs]
    <3>1. Unlock(p) /\ Finish(p)
      BY <1>3 DEF Fail
    <3>2. QED
      BY <3>1, MoveType, UnlockType
  <2>5. failures' \in 0..MaxFailures
    BY <1>3, OrderPaymentAssumption DEF Fail, TypeOK
  <2>6. QED
    BY <1>3, <2>1, <2>2, <2>3, <2>4, <2>5 DEF Fail, TypeOK
<1>4. QED
  BY <1>1, <1>2, <1>3

\* What the buyer and a provider do moves one session on, and nothing else.
LEMMA ExternalStep ==
  ASSUME NEW s \in Sessions, External(s)
  PROVE  /\ UNCHANGED <<rowVars, lock, pc, job, histVars>>
         /\ At(s) \in {"open", "complete"}
         /\ \E st \in {"complete", "paid", "bounced", "failed"} :
              /\ session' = [session EXCEPT ![s].state = st]
              /\ At(s) = "complete" => st \in {"paid", "bounced"}
              /\ At(s) = "open" => st # "bounced" /\ (st = "complete" => session[s].prov = "stripe")
BY DEF External, Pay, GiveUp, Complete, Clear, Settle

\* What the providers and the buyer do.
LEMMA OutsideTypes ==
  ASSUME TypeOK, Redraft \/ \E s \in Sessions : External(s) \/ NotifyIntent(s)
  PROVE  TypeOK'
<1> USE DEF rowVars, histVars
<1>1. CASE Redraft
  <2>1. order' \in Rows
    BY <1>1 DEF Redraft, TypeOK, Rows
  <2>2. QED
    BY <1>1, <2>1 DEF Redraft, TypeOK, Rows
<1>2. ASSUME NEW s \in Sessions, External(s) PROVE TypeOK'
  <2>1. PICK st \in {"complete", "paid", "bounced", "failed"} : session' = [session EXCEPT ![s].state = st]
    BY <1>2, ExternalStep
  <2>2. session' \in [Sessions -> SessionRows]
    BY <2>1 DEF TypeOK, SessionRows
  <2>3. QED
    BY <1>2, <2>2, ExternalStep DEF TypeOK, SessionRows
<1>3. ASSUME NEW s \in Sessions, NotifyIntent(s) PROVE TypeOK'
  <2>1. payments' \in [Sessions -> PaymentStates]
    BY <1>3 DEF NotifyIntent, TypeOK, PaymentStates, Results
  <2>2. QED
    BY <1>3, <2>1 DEF NotifyIntent, TypeOK
<1>4. QED
  BY <1>1, <1>2, <1>3

-----------------------------------------------------------------------------
(* What the requests know.                                                   *)

\* A request's step leaves a completed session as it is and keeps every price; only the request that
\* attaches a session opens it.
LEMMA SessionStep ==
  ASSUME KnownInv, NEW p \in Procs, ProcStep(p), NEW s \in Sessions
  PROVE  /\ Completed(s) => session'[s].state = session[s].state
         /\ session'[s].state \in {"complete", "bounced"} => session'[s].state = session[s].state
         /\ At(s) # "absent" => session'[s].prov = session[s].prov
         /\ At(s) # "absent" => session'[s].price = session[s].price
         /\ ~(pc[p] = "attaching" /\ job[p].sess = s) =>
              /\ At(s) = "created" => session'[s].state = "created"
              /\ At(s) = "absent" => session'[s].state \in {"absent", "created"}
<1> USE DEF rowVars, histVars
<1>1. session \in [Sessions -> SessionRows]
  BY DEF KnownInv, TypeOK, SessionRows
<1>2. CASE UNCHANGED session
  BY <1>1, <1>2 DEF At, SessionRows, Completed
<1>3. CASE CancelAntom(p)
  <2>1. PICK t \in Sessions : session' \in {session} \cup
          (IF At(t) = "open" THEN {[session EXCEPT ![t].state = "failed"]} ELSE {})
    BY <1>3 DEF CancelAntom
  <2>2. session' = session \/ (At(t) = "open" /\ session' = [session EXCEPT ![t].state = "failed"])
    BY <2>1
  <2>3. QED
    BY <1>1, <2>2 DEF At, SessionRows, Completed
<1>4. CASE CreateSession(p)
  <2>1. PICK t \in Sessions : /\ At(t) = "absent"
                             /\ session' = [session EXCEPT ![t] = [prov |-> job[p].prov, state |-> "created",
                                                                  price |-> job[p].total]]
    BY <1>4 DEF CreateSession
  <2>2. QED
    BY <1>1, <2>1 DEF At, SessionRows, Completed
<1>5. CASE AttachSession(p)
  BY <1>1, <1>5 DEF AttachSession, KnownInv, Informed, At, Completed, SessionRows
<1>6. CASE ExpireStripe(p)
  BY <1>1, <1>6 DEF ExpireStripe, At, Completed, SessionRows, KnownInv, Informed
<1>7. CASE InquireStripe(p)
  <2>1. PICK t \in Sessions : \/ UNCHANGED session
                             \/ /\ At(t) \in {"open", "failed", "bounced"}
                                /\ session' = [session EXCEPT ![t].state = IF @ = "open" THEN "failed" ELSE @]
    BY <1>7 DEF InquireStripe, CancelBlindly, CancelIntent, KnownInv, Informed
  <2>2. QED
    BY <1>1, <1>2, <2>1 DEF At, SessionRows, Completed
<1>8. QED
  <2>1. CASE OpenStripe(p) \/ OpenNowPayments(p) \/ OpenPayop(p) \/ OpenAntom(p) \/ OpenPay4bit(p)
             \/ Poll(p) \/ RepeatPayop(p) \/ PayWithCredits(p) \/ Cancel(p)
    BY <1>2, <2>1 DEF OpenStripe, OpenNowPayments, OpenPayop, OpenAntom, OpenPay4bit, Open, Poll, RepeatPayop,
       PayWithCredits, Cancel
  <2>2. CASE LockOrder(p) \/ PayOrderFails(p) \/ Fail(p)
    BY <1>2, <2>2 DEF LockOrder, Lock, PayOrderFails, Fail
  <2>3. CASE \E t \in Sessions : Notified(p, t)
    BY <1>2, <2>3 DEF Notified, NotifyStripe, NotifyNowPayments, NotifyPayop, NotifyAntom, Callback, Record
  <2>4. CASE Advance(p)
    <3>1. CASE CreateRefused(p) \/ WriteStatus(p) \/ ReleaseAntom(p) \/ AttachCallback(p) \/ StoreAnswer(p)
               \/ ReadLocked(p) \/ MarkInProcess(p) \/ Serve(p) \/ Finalize(p)
      BY <1>2, <3>1 DEF CreateRefused, WriteStatus, ReleaseAntom, AttachCallback, StoreAnswer, ReadLocked,
         MarkInProcess, Serve, Finalize
    <3>2. CASE ReadForCredits(p) \/ Debit(p) \/ PayOrder(p) \/ RefundCredits(p)
               \/ CloseNowPayments(p) \/ CancelOrder(p) \/ VoidCoupon(p)
      BY <1>2, <3>2 DEF ReadForCredits, Debit, PayOrder, RefundCredits, CloseNowPayments,
         CancelOrder, VoidCoupon
    <3>3. QED
      BY <1>4, <1>5, <1>6, <1>7, <2>4, <3>1, <3>2 DEF Advance
  <2>5. QED
    BY <1>3, <2>1, <2>2, <2>3, <2>4 DEF ProcStep

\* What a request knows stays true while another is at work.
LEMMA OthersInformed ==
  ASSUME KnownInv, NEW p \in Procs, ProcStep(p), NEW q \in Procs, q # p,
         pc'[q] = pc[q], job'[q] = job[q]
  PROVE  Informed(q)'
<1>1. \A s \in Sessions : Completed(s) => Completed(s)'
  BY SessionStep DEF At, Completed
<1>2. pc[q] = "attaching" => At(job[q].sess)' = "created"
  BY SessionStep DEF At, KnownInv, Informed, Apart
<1>3. Informed(q)
  BY DEF KnownInv
<1>4. PaidJob(q) => PaidJob(q)'
  BY <1>1 DEF PaidJob, At, Completed
<1>5. QED
  BY <1>2, <1>3, <1>4 DEF Informed, At

Quiet == {"idle", "creating", "releasing", "answering", "closing", "cancelling", "voiding",
          "refunding", "finalizing"}

LEMMA QuietInformed ==
  ASSUME NEW p \in Procs, pc'[p] \in Quiet, job'[p].kind = "credits" => job'[p].prov = "credits"
  PROVE  Informed(p)'
BY DEF Quiet, Informed

\* A request moves itself only, and comes to attach a session when it has created it.
LEMMA Alone ==
  ASSUME TypeOK, NEW p \in Procs, ProcStep(p)
  PROVE  /\ \A q \in Procs : q # p => pc'[q] = pc[q] /\ job'[q] = job[q]
         /\ pc'[p] = "attaching" => CreateSession(p)
<1> DEFINE Moved == \E l, j : /\ pc' = [pc EXCEPT ![p] = l] /\ (job' = [job EXCEPT ![p] = j] \/ UNCHANGED job)
                              /\ l = "attaching" => CreateSession(p)
<1>1. Moved
  <2>1. ASSUME Answer(p, job[p]) PROVE Moved
    BY <2>1 DEF Answer, Goto, Finish
  <2>2. ASSUME NEW l, NEW j, Begin(p, l, j), l # "attaching" PROVE Moved
    BY <2>2 DEF Begin
  <2>3. CASE OpenStripe(p) \/ OpenNowPayments(p) \/ OpenPayop(p) \/ OpenAntom(p) \/ OpenPay4bit(p)
             \/ Poll(p) \/ RepeatPayop(p) \/ CancelAntom(p) \/ PayWithCredits(p) \/ Cancel(p)
    BY <2>2, <2>3 DEF OpenStripe, OpenNowPayments, OpenPayop, OpenAntom, OpenPay4bit, Open, Poll, RepeatPayop,
       CancelAntom, PayWithCredits, Cancel, Reconcile
  <2>4. CASE LockOrder(p) \/ PayOrderFails(p) \/ Fail(p) \/ (\E t \in Sessions : Notified(p, t))
    <3>1. CASE LockOrder(p) \/ PayOrderFails(p) \/ Fail(p)
      BY <3>1 DEF LockOrder, Lock, PayOrderFails, Fail, Goto, Finish
    <3>2. CASE \E t \in Sessions : Notified(p, t)
      <4>1. ASSUME NEW kind, NEW t, NEW r, NEW l, Record(p, kind, t, r, l), l # "attaching" PROVE Moved
        BY <2>2, <4>1 DEF Record
      <4>2. ASSUME NEW t, Callback(p, t) PROVE Moved
        BY <2>2, <4>2 DEF Callback
      <4>3. PICK t \in Sessions : Notified(p, t)
        BY <3>2
      <4>4. CASE Callback(p, t)
        BY <4>2, <4>4
      <4>5. CASE NotifyStripe(p, t) \/ NotifyNowPayments(p, t) \/ NotifyPayop(p, t) \/ NotifyAntom(p, t)
        BY <4>1, <4>5 DEF NotifyStripe, NotifyNowPayments, NotifyPayop, NotifyAntom
      <4>6. QED
        BY <4>3, <4>4, <4>5 DEF Notified
    <3>3. QED
      BY <2>4, <3>1, <3>2
  <2>5. CASE Advance(p)
    <3>1. CASE CreateSession(p)
      <4>1. PICK s \in Sessions : job' = [job EXCEPT ![p].sess = s]
        BY <3>1 DEF CreateSession
      <4>2. job' = [job EXCEPT ![p] = [job[p] EXCEPT !.sess = s]]
        BY <4>1
      <4>3. QED
        BY <3>1, <4>2 DEF CreateSession
    <3>2. CASE CreateRefused(p) \/ AttachSession(p) \/ WriteStatus(p) \/ ReleaseAntom(p) \/ AttachCallback(p)
               \/ StoreAnswer(p) \/ Serve(p)
      BY <3>2 DEF CreateRefused, AttachSession, WriteStatus, ReleaseAntom, AttachCallback, StoreAnswer,
         Serve, Goto, Finish, Begin, AfterWrite
    <3>3. CASE ReadLocked(p) \/ MarkInProcess(p) \/ Finalize(p) \/ VoidCoupon(p)
      BY <2>1, <3>3 DEF ReadLocked, MarkInProcess, Finalize, VoidCoupon, Goto
    <3>4. CASE ReadForCredits(p) \/ Debit(p) \/ PayOrder(p) \/ RefundCredits(p) \/ ExpireStripe(p)
               \/ InquireStripe(p) \/ CloseNowPayments(p) \/ CancelOrder(p)
      BY <3>4 DEF ReadForCredits, Debit, PayOrder, RefundCredits, ExpireStripe, InquireStripe, CancelBlindly, CancelIntent, CloseNowPayments,
         CancelOrder, Goto, Finish
    <3>5. QED
      BY <2>5, <3>1, <3>2, <3>3, <3>4 DEF Advance
  <2>6. QED
    BY <2>3, <2>4, <2>5 DEF ProcStep
<1>2. PICK l, j : /\ pc' = [pc EXCEPT ![p] = l] /\ (job' = [job EXCEPT ![p] = j] \/ UNCHANGED job)
                  /\ l = "attaching" => CreateSession(p)
  BY <1>1
<1>3. pc \in [Procs -> States] /\ job \in [Procs -> Jobs]
  BY DEF TypeOK
<1>4. pc'[p] = l /\ \A q \in Procs : q # p => pc'[q] = pc[q] /\ job'[q] = job[q]
  BY <1>2, <1>3
<1>5. QED
  BY <1>2, <1>4

\* What the callback of Pay4bit knows before it attaches its session.
LEMMA CallbackKnows ==
  ASSUME NEW p \in Procs, Informed(p), pc[p] = "attaching_call"
  PROVE  /\ job[p].kind \in {"check", "error", "pay"} /\ job[p].sess \in Sessions
         /\ job[p].kind = "pay" => PaidJob(p)
BY Zenon DEF Informed

\* A request that begins or goes on knows what it has to.
LEMMA SelfInformed ==
  ASSUME KnownInv, NEW p \in Procs, ProcStep(p)
  PROVE  Informed(p)'
<1> USE DEF rowVars, histVars
<1>1. TypeOK /\ Informed(p)
  BY DEF KnownInv
<1>2. \A s \in Sessions : Completed(s) => Completed(s)'
  BY SessionStep DEF At, Completed
<1>3. ASSUME NEW l \in States, l \in Quiet, Goto(p, l) PROVE Informed(p)'
  BY <1>1, <1>3, GotoType, QuietInformed DEF Informed
<1>4. ASSUME Finish(p) PROVE Informed(p)'
  BY <1>1, <1>4, FinishType, QuietInformed DEF NoJob, Quiet
<1>5. ASSUME Answer(p, job[p]) PROVE Informed(p)'
  BY <1>3, <1>4, <1>5 DEF Answer, Quiet, States
<1>6. ASSUME NEW l \in {"locking", "locked", "marking", "serving"}, Goto(p, l), job[p].kind # "credits" => PaidJob(p),
             l = "marking" => job[p].kind # "credits"
      PROVE  Informed(p)'
  <2>1. pc'[p] = l /\ job' = job
    BY <1>1, <1>6, GotoType DEF States, Locked
  <2>2. PaidJob(p) => PaidJob(p)'
    BY <1>2, <2>1 DEF PaidJob, At, Completed
  <2>3. QED
    BY <1>1, <1>6, <2>1, <2>2 DEF Informed
<1>7. ASSUME NEW l \in States, NEW j \in Jobs, Begin(p, l, j), j.kind # "credits",
             l \in Quiet
             \/ (l = "writing" /\ (j.result = "succeeded" => j.sess \in Sessions /\ Completed(j.sess)))
             \/ (l = "locking" /\ j.sess \in Sessions /\ Completed(j.sess))
             \/ (l \in {"expiring", "inquiring"} /\ j.sess \in Sessions)
      PROVE  Informed(p)'
  <2>1. pc'[p] = l /\ job'[p] = j
    BY <1>1, <1>7, BeginType
  <2>2. (j.sess \in Sessions /\ Completed(j.sess)) => PaidJob(p)'
    BY <1>2, <2>1 DEF PaidJob, At, Completed
  <2>3. QED
    BY <1>7, <2>1, <2>2 DEF Informed, Quiet
<1>8. ASSUME NEW prov \in Ways, Open(p, prov) PROVE Informed(p)'
  <2> DEFINE j == [NoJob EXCEPT !.kind = "open", !.prov = prov, !.total = Sum(prov)]
  <2>1. Sum(prov) \in Totals
    BY <1>1 DEF Sum, TypeOK
  <2>2. j \in Jobs
    BY <2>1, NoJobType DEF Jobs, Kinds
  <2>3. j.kind = "open"
    BY DEF NoJob
  <2>4. Begin(p, "creating", j)
    BY <1>8 DEF Open
  <2> HIDE DEF j
  <2>5. QED
    BY <1>7, <2>2, <2>3, <2>4 DEF States, Quiet
<1>9. CASE OpenStripe(p) \/ OpenNowPayments(p) \/ OpenPayop(p) \/ OpenAntom(p) \/ OpenPay4bit(p)
  BY <1>8, <1>9 DEF OpenStripe, OpenNowPayments, OpenPayop, OpenAntom, OpenPay4bit, Open, Ways
<1>10. ASSUME NEW kind \in Kinds \ {"credits"}, NEW s \in Sessions, NEW r \in Results, NEW fresh \in BOOLEAN,
              Reconcile(p, kind, s, r, fresh), r = "succeeded" => Completed(s)
       PROVE  Informed(p)'
  <2> DEFINE j == [NoJob EXCEPT !.kind = kind, !.prov = session[s].prov, !.sess = s, !.seen = payments[s],
                                !.result = r, !.fresh = fresh]
  <2>1. session[s].prov \in Ways /\ payments[s] \in PaymentStates
    BY <1>1 DEF TypeOK
  <2>2. j \in Jobs
    BY <1>1, <2>1, NewJobType, NoJobType DEF Statuses, Payable
  <2>3. j.kind = kind /\ j.sess = s /\ j.result = r
    BY DEF NoJob
  <2>4. Begin(p, "writing", j)
    BY <1>10 DEF Reconcile
  <2> HIDE DEF j
  <2>5. QED
    BY <1>7, <1>10, <2>2, <2>3, <2>4 DEF States
<1>11. \A s \in Sessions : Polled(s) \in Results /\ (Polled(s) = "succeeded" => Completed(s))
  BY DEF Polled, Results, Completed
<1>12. CASE Poll(p) \/ RepeatPayop(p) \/ CancelAntom(p)
  BY <1>10, <1>11, <1>12 DEF Poll, RepeatPayop, CancelAntom, Kinds, Results
<1>13. CASE PayWithCredits(p)
  <2> DEFINE j == [NoJob EXCEPT !.kind = "credits", !.prov = "credits"]
  <2>1. j \in Jobs /\ j.kind = "credits" /\ j.prov = "credits"
    BY NoJobType DEF Jobs, Kinds, Ways, NoJob
  <2>2. pc'[p] = "locking" /\ job'[p] = j
    BY <1>1, <1>13, <2>1, BeginType DEF PayWithCredits, States
  <2> HIDE DEF j
  <2>3. QED
    BY <2>1, <2>2 DEF Informed
<1>14. CASE Cancel(p)
  <2> DEFINE j == [NoJob EXCEPT !.kind = "cancel", !.prov = order.prov, !.sess = order.ref]
  <2>1. order.prov \in Ways /\ order.ref \in Sessions \cup {NoSession}
    BY <1>1 DEF TypeOK
  <2>2. j \in Jobs
    BY <2>1, NoJobType DEF Jobs, Kinds
  <2>3. j.kind = "cancel" /\ j.sess = order.ref
    BY DEF NoJob
  <2>4. \/ order.prov = "stripe" /\ Begin(p, "expiring", j)
        \/ \E l \in {"closing", "cancelling"} : Begin(p, l, j)
    BY <1>14 DEF Cancel
  <2>5. order.prov = "stripe" => order.ref \in Sessions
    BY <2>1 DEF KnownInv, Recorded, Ways
  <2> HIDE DEF j
  <2>6. QED
    BY <1>7, <2>2, <2>3, <2>4, <2>5 DEF States, Quiet
<1>15. ASSUME NEW kind \in {"final", "attempt"}, NEW s \in Sessions, NEW r \in Results,
              NEW l \in {"locking", "writing"}, Record(p, kind, s, r, l),
              l = "locking" \/ r = "succeeded" => Completed(s)
       PROVE  Informed(p)'
  <2> DEFINE seen == IF l = "writing" THEN payments[s] ELSE NoJob.seen
             result == IF l = "writing" THEN r ELSE NoJob.result
             j == [NoJob EXCEPT !.kind = "notify", !.prov = session[s].prov, !.sess = s, !.seen = seen,
                                !.result = result]
  <2>1. session[s].prov \in Ways /\ seen \in PaymentStates /\ result \in Results
    BY <1>1 DEF TypeOK, NoJob, PaymentStates, Results
  <2>2. Begin(p, l, j)
    BY <1>15 DEF Record, NoJob
  <2>3. l = "writing" => result = r
    OBVIOUS
  <2>4. j.kind = "notify" /\ j.sess = s /\ j.result = result
    BY DEF NoJob
  <2>5. j \in Jobs
    <3> HIDE DEF seen, result
    <3>1. QED
      BY <1>1, <2>1, NewJobType, NoJobType DEF Kinds, Statuses, Payable
  <2> HIDE DEF j, seen, result
  <2>6. QED
    BY <1>7, <1>15, <2>2, <2>3, <2>4, <2>5 DEF States
<1>16. ASSUME NEW s \in Sessions, Callback(p, s) PROVE Informed(p)'
  <2>1. PICK m \in {"check", "error", "pay"} :
           /\ Method(m, s)
           /\ Begin(p, IF session[s].price = Sum("pay4bit") THEN "attaching_call" ELSE "cancelling",
                [NoJob EXCEPT !.kind = m, !.prov = "pay4bit", !.sess = s,
                   !.status = order.status, !.total = Sum("pay4bit")])
    BY <1>16 DEF Callback
  <2> DEFINE j == [NoJob EXCEPT !.kind = m, !.prov = "pay4bit", !.sess = s,
                                !.status = order.status, !.total = Sum("pay4bit")]
  <2>2. Sum("pay4bit") \in Totals /\ order.status \in Statuses
    BY <1>1 DEF Sum, TypeOK
  <2>3. "pay4bit" \in Ways
    <3>1. session[s].prov = "pay4bit" /\ session[s].prov \in Ways
      BY <1>1, <1>16 DEF Callback, TypeOK
    <3>2. QED
      BY <3>1
  <2>4. j \in Jobs
    BY <2>2, <2>3, NoJobType DEF Jobs, Kinds
  <2>5. j.kind = m /\ j.prov = "pay4bit" /\ j.sess = s
    BY DEF NoJob
  <2>6. m = "pay" => Completed(s)
    BY <2>1 DEF Method, Completed
  <2>7. pc'[p] \in {"attaching_call", "cancelling"} /\ job'[p] = j
    <3>1. (IF session[s].price = Sum("pay4bit") THEN "attaching_call" ELSE "cancelling") \in States
      BY DEF States
    <3> HIDE DEF j
    <3>2. QED
      BY <1>1, <2>1, <2>4, <3>1, BeginType DEF j
  <2> HIDE DEF j
  <2>8. j.kind = "pay" => PaidJob(p)'
    BY <1>2, <2>5, <2>6, <2>7 DEF PaidJob, At, Completed
  <2>9. QED
    BY <2>5, <2>7, <2>8 DEF Informed
<1>17. CASE \E s \in Sessions : Notified(p, s)
  <2>1. PICK s \in Sessions : Notified(p, s)
    BY <1>17
  <2>2. CASE NotifyStripe(p, s) \/ NotifyNowPayments(p, s)
    BY <1>15, <2>2 DEF NotifyStripe, NotifyNowPayments, Results, Completed
  <2>3. CASE NotifyPayop(p, s) \/ NotifyAntom(p, s)
    BY <1>11, <1>15, <2>3 DEF NotifyPayop, NotifyAntom
  <2>4. QED
    BY <1>16, <2>1, <2>2, <2>3 DEF Notified
<1>18. CASE LockOrder(p)
  <2>1. job[p].kind # "credits" => PaidJob(p)
    BY <1>1, <1>18 DEF LockOrder, Informed
  <2>2. QED
    BY <1>6, <1>18, <2>1 DEF LockOrder, Lock
<1>19. CASE PayOrderFails(p) \/ Fail(p)
  BY <1>3, <1>4, <1>19 DEF PayOrderFails, Fail, Quiet, States, Locked
<1>20. CASE CreateSession(p)
  <2>1. PICK s \in Sessions :
          /\ session' = [session EXCEPT ![s] = [prov |-> job[p].prov, state |-> "created", price |-> job[p].total]]
          /\ job' = [job EXCEPT ![p].sess = s]
    BY <1>20 DEF CreateSession
  <2>2. pc'[p] = "attaching"
    BY <1>1, <1>20 DEF CreateSession, TypeOK
  <2>3. job'[p].sess = s /\ job'[p].kind = job[p].kind /\ job'[p].prov = job[p].prov
    <3>1. job' = [job EXCEPT ![p] = [job[p] EXCEPT !.sess = s]]
      BY <2>1
    <3>2. job'[p] = [job[p] EXCEPT !.sess = s]
      BY <1>1, <3>1 DEF TypeOK
    <3>3. job[p] \in Jobs
      BY <1>1 DEF TypeOK
    <3>4. QED
      BY <3>2, <3>3 DEF Jobs
  <2>4. session'[s].state = "created"
    BY <1>1, <2>1 DEF TypeOK
  <2>5. QED
    BY <1>1, <2>2, <2>3, <2>4 DEF Informed, At
<1>21. CASE CreateRefused(p) \/ AttachSession(p) \/ ReleaseAntom(p) \/ StoreAnswer(p) \/ RefundCredits(p)
  BY <1>4, <1>21 DEF CreateRefused, AttachSession, ReleaseAntom, StoreAnswer, RefundCredits
<1>22. CASE WriteStatus(p)
  <2> DEFINE j == job[p]
             k == [j EXCEPT !.result = "pending", !.seen = "absent"]
  <2>1. j \in Jobs
    BY <1>1 DEF TypeOK
  <2>2. k \in Jobs /\ k.kind = j.kind /\ k.prov = j.prov /\ k.sess = j.sess
    BY <2>1 DEF Jobs, Results, PaymentStates
  <2>3. pc[p] = "writing" /\ (Finish(p) \/ Begin(p, AfterWrite(j), k))
    BY <1>22 DEF WriteStatus
  <2>4. CASE Begin(p, AfterWrite(j), k)
    <3>1. AfterWrite(j) \in {"idle", "releasing", "cancelling"} \/ (AfterWrite(j) = "locking" /\ j.result = "succeeded")
      BY DEF AfterWrite
    <3>2. AfterWrite(j) = "locking" => PaidJob(p)
      BY <1>1, <2>3, <3>1 DEF Informed
    <3> HIDE DEF k
    <3>3. pc'[p] = AfterWrite(j) /\ job'[p] = k
      BY <1>1, <2>2, <2>4, <3>1, BeginType DEF States
    <3>4. PaidJob(p) => PaidJob(p)'
      BY <1>2, <2>2, <3>3 DEF PaidJob, At, Completed
    <3>5. QED
      BY <1>1, <2>2, <3>1, <3>2, <3>3, <3>4 DEF Informed
  <2>5. QED
    BY <1>4, <2>3, <2>4
<1>23. CASE AttachCallback(p)
  <2>1. CASE job[p].kind = "pay"
    <3>1. pc[p] = "attaching_call" /\ Goto(p, "locking")
      BY <1>23, <2>1 DEF AttachCallback
    <3>2. PaidJob(p)
      BY <1>1, <2>1, <3>1, CallbackKnows
    <3>3. QED
      BY <1>6, <3>1, <3>2
  <2>2. CASE job[p].kind # "pay"
    BY <1>3, <1>23, <2>2 DEF AttachCallback, States, Quiet
  <2>3. QED
    BY <2>1, <2>2
<1>24. CASE ReadLocked(p)
  <2>1. job[p].kind # "credits" /\ PaidJob(p)
    BY <1>1, <1>24 DEF ReadLocked, Informed
  <2>2. Answer(p, job[p]) \/ Goto(p, "cancelling") \/ Goto(p, "marking")
    BY <1>24 DEF ReadLocked
  <2>3. QED
    BY <1>3, <1>5, <1>6, <2>1, <2>2 DEF States, Quiet
<1>25. CASE MarkInProcess(p)
  <2>1. PaidJob(p)
    BY <1>1, <1>25 DEF MarkInProcess, Informed
  <2>2. Answer(p, job[p]) \/ Goto(p, "serving")
    BY <1>25 DEF MarkInProcess
  <2>3. QED
    BY <1>1, <1>5, <1>6, <2>1, <2>2 DEF Informed
<1>26. CASE Serve(p) \/ Finalize(p) \/ VoidCoupon(p) \/ CancelOrder(p) \/ CloseNowPayments(p)
  <2>1. Answer(p, job[p]) \/ Finish(p) \/ Goto(p, "finalizing") \/ Goto(p, "voiding") \/ Goto(p, "cancelling")
    BY <1>26 DEF Serve, Finalize, VoidCoupon, CancelOrder, CloseNowPayments
  <2>2. QED
    BY <1>3, <1>4, <1>5, <2>1 DEF States, Quiet, Locked
<1>27. CASE ReadForCredits(p) \/ Debit(p)
  <2>1. job[p].kind = "credits" /\ (Finish(p) \/ \E l \in {"debiting", "paying"} : Goto(p, l))
    BY <1>1, <1>27 DEF ReadForCredits, Debit, Informed
  <2>2. ASSUME NEW l \in {"debiting", "paying"}, Goto(p, l) PROVE Informed(p)'
    <3>1. pc'[p] = l /\ job' = job
      BY <1>1, <2>2, GotoType DEF States, Locked
    <3>2. QED
      BY <1>1, <2>1, <3>1 DEF Informed
  <2>3. QED
    BY <1>4, <2>1, <2>2
<1>28. CASE PayOrder(p)
  <2>1. pc[p] = "paying" /\ pc'[p] = "serving" /\ job' = job
    BY <1>1, <1>28, GotoType DEF PayOrder, States, Locked
  <2>2. QED
    BY <1>1, <2>1 DEF Informed
<1>29. CASE ExpireStripe(p)
  <2>1. pc'[p] = "inquiring" /\ job' = job /\ job[p].sess \in Sessions
    BY <1>1, <1>29, GotoType DEF ExpireStripe, States, Informed
  <2>2. QED
    BY <1>1, <2>1 DEF Informed
<1>30. CASE InquireStripe(p)
  <2>1. job[p].sess \in Sessions
    BY <1>1, <1>30 DEF InquireStripe, CancelBlindly, CancelIntent, Informed
  <2>2. Finish(p) \/ Goto(p, "cancelling") \/ (Goto(p, "locking") /\ PaidJob(p))
    BY <1>30, <2>1 DEF InquireStripe, CancelBlindly, CancelIntent, PaidJob, Completed
  <2>3. QED
    BY <1>3, <1>4, <1>6, <2>2 DEF States, Quiet
<1>31. QED
  BY <1>9, <1>12, <1>13, <1>14, <1>17, <1>18, <1>19, <1>20, <1>21, <1>22, <1>23, <1>24, <1>25, <1>26,
     <1>27, <1>28, <1>29, <1>30 DEF ProcStep, Advance

\* The session a request has just created is nobody else's.
LEMMA ApartStep ==
  ASSUME KnownInv, NEW p \in Procs, ProcStep(p)
  PROVE  Apart'
<1>1. TypeOK /\ Apart /\ \A q \in Procs : Informed(q)
  BY DEF KnownInv
<1>2. \A q \in Procs : q # p => pc'[q] = pc[q] /\ job'[q] = job[q]
  BY <1>1, Alone
<1>3. CASE pc'[p] # "attaching"
  BY <1>1, <1>2, <1>3 DEF Apart
<1>4. CASE pc'[p] = "attaching"
  <2>1. PICK s \in Sessions : At(s) = "absent" /\ job' = [job EXCEPT ![p].sess = s]
    BY <1>1, <1>4, Alone DEF CreateSession
  <2>2. job'[p].sess = s
    <3>1. job' = [job EXCEPT ![p] = [job[p] EXCEPT !.sess = s]] /\ job[p] \in Jobs
      BY <1>1, <2>1 DEF TypeOK
    <3>2. job'[p] = [job[p] EXCEPT !.sess = s]
      BY <1>1, <3>1 DEF TypeOK
    <3>3. QED
      BY <3>1, <3>2 DEF Jobs
  <2>3. \A q \in Procs : q # p /\ pc[q] = "attaching" => job[q].sess # s
    BY <1>1, <2>1 DEF Informed
  <2>4. QED
    BY <1>1, <1>2, <2>2, <2>3 DEF Apart
<1>5. QED
  BY <1>3, <1>4

\* Nothing is recorded as paid that is not.
LEMMA RecordedStep ==
  ASSUME KnownInv, NEW p \in Procs, ProcStep(p)
  PROVE  Recorded'
<1> USE DEF rowVars, histVars
<1>1. TypeOK /\ Recorded /\ Informed(p) /\ job[p] \in Jobs
  BY DEF KnownInv, TypeOK
<1>2. \A s \in Sessions : Completed(s) => Completed(s)'
  BY SessionStep DEF At, Completed
<1>3. ASSUME \A s \in Sessions : payments'[s] = "succeeded" => payments[s] = "succeeded" \/ Completed(s),
             \A s \in taken' : s \in taken \/ (s \in Sessions /\ Completed(s)),
             order'.prov \in Providers => order'.ref \in Sessions \/ (order'.prov = order.prov /\ order'.ref = order.ref)
      PROVE  Recorded'
  BY <1>1, <1>2, <1>3, SessionStep DEF Recorded, At, Completed
<1>4. CASE UNCHANGED <<payments, taken, order>>
  BY <1>3, <1>4
<1>5. CASE OpenStripe(p) \/ OpenNowPayments(p) \/ OpenPayop(p) \/ OpenAntom(p) \/ OpenPay4bit(p)
           \/ Poll(p) \/ RepeatPayop(p) \/ CancelAntom(p) \/ PayWithCredits(p) \/ Cancel(p)
  BY <1>4, <1>5 DEF OpenStripe, OpenNowPayments, OpenPayop, OpenAntom, OpenPay4bit, Open, Poll, RepeatPayop,
     CancelAntom, PayWithCredits, Cancel
<1>6. CASE LockOrder(p) \/ PayOrderFails(p) \/ Fail(p)
  BY <1>4, <1>6 DEF LockOrder, Lock, PayOrderFails, Fail
<1>7. CASE \E t \in Sessions : Notified(p, t)
  BY <1>4, <1>7 DEF Notified, NotifyStripe, NotifyNowPayments, NotifyPayop, NotifyAntom, Callback, Record
<1>8. CASE CreateRefused(p) \/ StoreAnswer(p) \/ ReadLocked(p) \/ Finalize(p) \/ ReadForCredits(p)
           \/ Debit(p) \/ RefundCredits(p) \/ ExpireStripe(p) \/ VoidCoupon(p)
  BY <1>4, <1>8 DEF CreateRefused, StoreAnswer, ReadLocked, Finalize, ReadForCredits, Debit, RefundCredits,
     ExpireStripe, VoidCoupon
<1>9. CASE CreateSession(p)
  <2>1. \/ UNCHANGED payments
        \/ \E s \in Sessions : payments' = [payments EXCEPT ![s] = "pending"]
    BY <1>9 DEF CreateSession
  <2>2. \A s \in Sessions : payments'[s] = "succeeded" => payments[s] = "succeeded"
    BY <1>1, <2>1 DEF TypeOK
  <2>3. UNCHANGED <<order, taken>>
    BY <1>9 DEF CreateSession
  <2>4. QED
    BY <1>3, <2>2, <2>3
<1>10. CASE AttachSession(p)
  <2>1. order'.ref \in Sessions
    BY <1>1, <1>10 DEF AttachSession, Informed, TypeOK
  <2>2. QED
    BY <1>3, <1>10, <2>1 DEF AttachSession
<1>11. CASE WriteStatus(p)
  <2>1. \A s \in Sessions : payments'[s] = "succeeded" => payments[s] = "succeeded" \/ Completed(s)
    BY <1>1, <1>11 DEF WriteStatus, Informed, PaidJob, TypeOK
  <2>2. QED
    BY <1>3, <1>11, <2>1 DEF WriteStatus
<1>12. CASE ReleaseAntom(p)
  <2>1. order'.prov \in Providers => order' = order
    BY <1>1, <1>12, OrderPaymentAssumption DEF ReleaseAntom, TypeOK, AllProviders
  <2>2. QED
    BY <1>3, <1>12, <2>1 DEF ReleaseAntom
<1>13. CASE AttachCallback(p)
  <2>1. pc[p] = "attaching_call"
    BY <1>13 DEF AttachCallback
  <2>2. /\ job[p].kind \in {"check", "error", "pay"} /\ job[p].sess \in Sessions
        /\ job[p].kind = "pay" => PaidJob(p)
    BY <1>1, <2>1, CallbackKnows
  <2>3. order'.ref = job[p].sess
    BY <1>1, <1>13 DEF AttachCallback, TypeOK
  <2>4. PICK written \in
            CASE job[p].kind = "check" /\ job[p].status \in Payable     -> {"pending"}
              [] job[p].kind = "check" /\ job[p].status = "in_process"  -> {"pending", payments[job[p].sess]}
              [] job[p].kind = "check" /\ job[p].status = "cancelled"   -> {payments[job[p].sess]}
              [] job[p].kind = "error"                             -> {"failed"}
              [] job[p].kind = "pay"                               -> {"succeeded"} :
           payments' = [payments EXCEPT ![job[p].sess] = written]
    BY <1>13 DEF AttachCallback
  <2>5. job[p].status \in Payable \cup {"in_process", "cancelled"}
    BY <1>1 DEF Jobs, Statuses
  <2>6. written = "succeeded" => payments[job[p].sess] = "succeeded" \/ job[p].kind = "pay"
    BY <2>2, <2>4, <2>5 DEF Payable
  <2>7. \A s \in Sessions : payments'[s] = "succeeded" => payments[s] = "succeeded" \/ Completed(s)
    <3>1. payments \in [Sessions -> PaymentStates]
      BY <1>1 DEF TypeOK
    <3>2. QED
      BY <2>2, <2>4, <2>6, <3>1 DEF PaidJob
  <2>8. taken' = taken
    BY <1>13 DEF AttachCallback
  <2>9. QED
    BY <1>3, <1>1, <2>2, <2>3, <2>7, <2>8 DEF Recorded
<1>14. CASE MarkInProcess(p)
  <2>1. PaidJob(p)
    BY <1>1, <1>14 DEF MarkInProcess, Informed
  <2>2. CASE order.status \in Payable
    <3>1. order'.ref \in Sessions
      BY <1>1, <1>14, <2>1, <2>2 DEF MarkInProcess, PaidJob, TypeOK
    <3>2. QED
      BY <1>3, <1>14, <2>1, <2>2, <3>1 DEF MarkInProcess, PaidJob
  <2>3. CASE order.status \notin Payable
    BY <1>4, <1>14, <2>3 DEF MarkInProcess
  <2>4. QED
    BY <2>2, <2>3
<1>15. CASE Serve(p)
  <2>1. payments' # payments => PaidJob(p) /\ payments' = [payments EXCEPT ![job[p].sess] = "succeeded"]
    BY <1>1, <1>15 DEF Serve, Informed
  <2>2. \A s \in Sessions : payments'[s] = "succeeded" => payments[s] = "succeeded" \/ Completed(s)
    BY <1>1, <2>1 DEF PaidJob, TypeOK
  <2>3. QED
    BY <1>3, <1>15, <2>2 DEF Serve
<1>16. CASE PayOrder(p)
  <2>1. order'.prov \notin Providers
    BY <1>1, <1>16, OrderPaymentAssumption DEF PayOrder, TypeOK, AllProviders
  <2>2. QED
    BY <1>3, <1>16, <2>1 DEF PayOrder
<1>17. CASE InquireStripe(p) \/ CloseNowPayments(p)
  <2>1. \A s \in Sessions : payments'[s] = "succeeded" => payments[s] = "succeeded" \/ Completed(s)
    BY <1>1, <1>17 DEF InquireStripe, CancelBlindly, CancelIntent, CloseNowPayments, TypeOK, Completed
  <2>2. QED
    BY <1>3, <1>17, <2>1 DEF InquireStripe, CancelBlindly, CancelIntent, CloseNowPayments
<1>18. CASE CancelOrder(p)
  <2>1. order'.prov = order.prov /\ order'.ref = order.ref
    BY <1>1, <1>18 DEF CancelOrder, TypeOK
  <2>2. QED
    BY <1>3, <1>18, <2>1 DEF CancelOrder
<1>19. QED
  BY <1>5, <1>6, <1>7, <1>8, <1>9, <1>10, <1>11, <1>12, <1>13, <1>14, <1>15, <1>16, <1>17, <1>18
     DEF ProcStep, Advance

\* Steps that are no request's.
LEMMA OutsideKnown ==
  ASSUME KnownInv, Redraft \/ \E s \in Sessions : External(s) \/ NotifyIntent(s)
  PROVE  KnownInv'
<1> USE DEF rowVars, histVars
<1>1. TypeOK /\ Apart /\ Recorded /\ \A p \in Procs : Informed(p)
  BY DEF KnownInv
<1>2. UNCHANGED <<pc, job, taken>>
  BY ExternalStep DEF Redraft, NotifyIntent
<1>3. \A s \in Sessions :
        /\ Completed(s) => Completed(s)'
        /\ At(s) = "created" => At(s)' = "created"
        /\ At(s)' \in {"complete", "bounced"} => session'[s].prov = "stripe"
  <2>1. ASSUME NEW t \in Sessions, External(t), NEW s \in Sessions
        PROVE  /\ Completed(s) => Completed(s)'
               /\ At(s) = "created" => At(s)' = "created"
               /\ At(s)' \in {"complete", "bounced"} => session'[s].prov = "stripe"
    <3>1. PICK st \in {"complete", "paid", "bounced", "failed"} :
            /\ session' = [session EXCEPT ![t].state = st]
            /\ At(t) \in {"open", "complete"}
            /\ At(t) = "complete" => st \in {"paid", "bounced"}
            /\ At(t) = "open" => st # "bounced" /\ (st = "complete" => session[t].prov = "stripe")
      BY <2>1, ExternalStep
    <3>2. session \in [Sessions -> SessionRows]
      BY <1>1 DEF TypeOK, SessionRows
    <3>3. At(s)' = (IF s = t THEN st ELSE At(s)) /\ session'[s].prov = session[s].prov
      BY <3>1, <3>2 DEF At, SessionRows
    <3>4. QED
      BY <1>1, <3>1, <3>3 DEF Completed, Recorded
  <2>2. (Redraft \/ \E t \in Sessions : NotifyIntent(t)) => session' = session
    BY DEF Redraft, NotifyIntent
  <2>3. QED
    BY <1>1, <2>1, <2>2 DEF At, Completed, Recorded
<1>4. \A p \in Procs : PaidJob(p) => PaidJob(p)'
  BY <1>2, <1>3 DEF PaidJob, At, Completed
<1>5. \A p \in Procs : Informed(p)'
  BY <1>1, <1>2, <1>3, <1>4 DEF Informed, At
<1>6. Recorded'
  <2>1. \A s \in Sessions : payments'[s] = "succeeded" => payments[s] = "succeeded" \/ Completed(s)
    <3>1. ASSUME NEW t \in Sessions, NotifyIntent(t), NEW s \in Sessions, payments'[s] = "succeeded"
          PROVE  payments[s] = "succeeded" \/ Completed(s)
      BY <1>1, <3>1 DEF NotifyIntent, Completed, TypeOK
    <3>2. (Redraft \/ \E t \in Sessions : External(t)) => payments' = payments
      BY ExternalStep DEF Redraft
    <3>3. QED
      BY <3>1, <3>2
  <2>2. order'.prov = order.prov /\ order'.ref = order.ref
    <3>1. Redraft => order'.prov = order.prov /\ order'.ref = order.ref
      BY <1>1 DEF Redraft, TypeOK
    <3>2. (\E t \in Sessions : External(t) \/ NotifyIntent(t)) => order' = order
      BY ExternalStep DEF NotifyIntent
    <3>3. QED
      BY <3>1, <3>2
  <2>3. QED
    BY <1>1, <1>2, <1>3, <2>1, <2>2 DEF Recorded, At, Completed
<1>7. QED
  BY <1>1, <1>2, <1>5, <1>6, OutsideTypes DEF KnownInv, Apart

LEMMA KnownInvariant == Spec => []KnownInv
<1>1. Init => KnownInv
  <2> SUFFICES ASSUME Init PROVE KnownInv
    OBVIOUS
  <2>1. TypeOK
    BY InitType
  <2>2. \A p \in Procs : pc[p] = "idle" /\ job[p].kind = "none"
    BY DEF Init, NoJob
  <2>3. \A s \in Sessions : payments[s] # "succeeded"
    BY DEF Init
  <2>4. order.prov \notin Providers
    BY OrderPaymentAssumption DEF Init, AllProviders
  <2>5. taken = {} /\ \A s \in Sessions : At(s) = "absent"
    BY DEF Init, At
  <2>6. QED
    BY <2>1, <2>2, <2>3, <2>4, <2>5 DEF KnownInv, Informed, Apart, Recorded
<1>2. KnownInv /\ [Next]_vars => KnownInv'
  <2> SUFFICES ASSUME KnownInv, [Next]_vars PROVE KnownInv'
    OBVIOUS
  <2>1. ASSUME NEW p \in Procs, ProcStep(p) PROVE KnownInv'
    <3>1. TypeOK /\ Informed(p)
      BY DEF KnownInv
    <3>2. TypeOK'
      <4>1. pc[p] = "attaching_call" => job[p].kind \in {"check", "error", "pay"} /\ job[p].prov = "pay4bit"
        BY <3>1 DEF Informed
      <4>2. pc[p] = "marking" => job[p].sess \in Sessions
        BY <3>1 DEF Informed, PaidJob
      <4>3. QED
        BY <2>1, <3>1, <4>1, <4>2, OpenTypes, NotifyTypes, AdvanceTypes, FailTypes DEF ProcStep
    <3>3. \A q \in Procs : Informed(q)'
      BY <2>1, <3>1, Alone, OthersInformed, SelfInformed
    <3>4. QED
      BY <2>1, <3>2, <3>3, ApartStep, RecordedStep DEF KnownInv
  <2>2. CASE Redraft \/ \E s \in Sessions : External(s) \/ NotifyIntent(s)
    BY <2>2, OutsideKnown
  <2>3. CASE UNCHANGED vars
    BY <2>3 DEF KnownInv, TypeOK, Informed, PaidJob, Apart, Recorded, At, Completed, vars
  <2>4. QED
    BY <2>1, <2>2, <2>3 DEF Next, ProcStep
<1>3. QED
  BY <1>1, <1>2, PTL DEF Spec

\* Every variable keeps its type: the order's row, the sessions, the payments rows and the
\* requests never hold a value the code does not write.
THEOREM TypeCorrect == Spec => []TypeOK
<1>1. KnownInv => TypeOK
  BY DEF KnownInv
<1>2. QED
  BY <1>1, KnownInvariant, PTL

-----------------------------------------------------------------------------
(* The order's lock.                                                         *)

\* What the steps outside the lock leave alone.
Plain(p) ==
  /\ UNCHANGED <<order, served, redemption, ledger, lock, taken, reopened, strayed>>
  /\ pc'[p] \notin Locked /\ pc[p] \notin Locked

\* The steps that matter to the order, its lock and what is given for it.
Critical(p) ==
  \/ AttachSession(p) \/ ReleaseAntom(p) \/ AttachCallback(p) \/ LockOrder(p) \/ ReadLocked(p)
  \/ MarkInProcess(p) \/ Serve(p) \/ Finalize(p) \/ ReadForCredits(p) \/ Debit(p) \/ PayOrder(p)
  \/ PayOrderFails(p) \/ RefundCredits(p) \/ CancelOrder(p) \/ VoidCoupon(p) \/ Fail(p)

LEMMA PlainOrCritical ==
  ASSUME TypeOK, NEW p \in Procs, ProcStep(p)
  PROVE  Plain(p) \/ Critical(p)
<1> USE DEF rowVars, histVars
<1>1. pc \in [Procs -> States]
  BY DEF TypeOK
<1>2. ASSUME NEW l, NEW j, Begin(p, l, j), l \notin Locked PROVE pc'[p] \notin Locked
  BY <1>1, <1>2 DEF Begin
<1>3. ASSUME Finish(p) PROVE pc'[p] \notin Locked
  BY <1>1, <1>3 DEF Finish, Locked
<1>4. ASSUME NEW l, Goto(p, l), l \notin Locked PROVE pc'[p] \notin Locked
  BY <1>1, <1>4 DEF Goto
<1>5. CASE \/ OpenStripe(p) \/ OpenNowPayments(p) \/ OpenPayop(p) \/ OpenAntom(p) \/ OpenPay4bit(p)
           \/ Poll(p) \/ RepeatPayop(p) \/ CancelAntom(p) \/ PayWithCredits(p) \/ Cancel(p)
  <2>1. pc[p] = "idle" /\ pc'[p] \notin Locked
    <3>1. ASSUME NEW l, NEW j, Begin(p, l, j), l \notin Locked, pc[p] = "idle"
          PROVE  pc[p] = "idle" /\ pc'[p] \notin Locked
      BY <1>2, <3>1
    <3>2. CASE Cancel(p)
      <4>1. PICK l \in {"expiring", "closing", "cancelling"} : \E j : Begin(p, l, j)
        BY <3>2 DEF Cancel
      <4>2. QED
        BY <3>1, <3>2, <4>1 DEF Cancel, Locked
    <3>3. CASE OpenStripe(p) \/ OpenNowPayments(p) \/ OpenPayop(p) \/ OpenAntom(p) \/ OpenPay4bit(p)
      <4>1. \E prov : Open(p, prov)
        BY <3>3 DEF OpenStripe, OpenNowPayments, OpenPayop, OpenAntom, OpenPay4bit
      <4>2. \A prov : Open(p, prov) => pc[p] = "idle" /\ \E j : Begin(p, "creating", j)
        BY DEF Open
      <4>3. QED
        BY <3>1, <4>1, <4>2 DEF Locked
    <3>4. CASE Poll(p) \/ RepeatPayop(p) \/ CancelAntom(p)
      <4>1. \E kind, s, r, fresh : Reconcile(p, kind, s, r, fresh)
        BY <3>4, Zenon DEF Poll, RepeatPayop, CancelAntom
      <4>2. \A kind, s, r, fresh : Reconcile(p, kind, s, r, fresh) =>
              pc[p] = "idle" /\ \E j : Begin(p, "writing", j)
        BY Zenon DEF Reconcile
      <4>3. QED
        BY <3>1, <4>1, <4>2 DEF Locked
    <3>5. CASE PayWithCredits(p)
      BY <3>1, <3>5 DEF PayWithCredits, Locked
    <3>6. QED
      BY <1>5, <3>2, <3>3, <3>4, <3>5
  <2>2. UNCHANGED <<order, served, redemption, ledger, lock, taken, reopened, strayed>>
    BY <1>5 DEF OpenStripe, OpenNowPayments, OpenPayop, OpenAntom, OpenPay4bit, Open, Poll, RepeatPayop,
       CancelAntom, PayWithCredits, Cancel
  <2>3. QED
    BY <2>1, <2>2 DEF Plain, Locked
<1>6. CASE \E s \in Sessions : Notified(p, s)
  <2>1. PICK s \in Sessions : Notified(p, s)
    BY <1>6
  <2>2. ASSUME NEW kind, NEW r, NEW l, Record(p, kind, s, r, l), l \notin Locked PROVE Plain(p)
    BY <1>2, <2>2 DEF Record, Plain, Locked
  <2>3. CASE Callback(p, s)
    <3>1. \E l, j : Begin(p, l, j) /\ l \notin Locked /\ pc[p] = "idle"
      BY <2>3 DEF Callback, Locked
    <3>2. QED
      BY <1>2, <2>3, <3>1 DEF Callback, Plain, Locked
  <2>4. CASE NotifyStripe(p, s) \/ NotifyNowPayments(p, s) \/ NotifyPayop(p, s) \/ NotifyAntom(p, s)
    BY <2>2, <2>4 DEF NotifyStripe, NotifyNowPayments, NotifyPayop, NotifyAntom, Locked
  <2>5. QED
    BY <2>1, <2>3, <2>4 DEF Notified
<1>7. CASE CreateSession(p)
  BY <1>1, <1>7 DEF CreateSession, Plain, Locked
<1>8. CASE CreateRefused(p) \/ StoreAnswer(p) \/ ExpireStripe(p) \/ InquireStripe(p) \/ CloseNowPayments(p)
  <2>1. Finish(p) \/ \E l : Goto(p, l) /\ l \notin Locked
    BY <1>8 DEF CreateRefused, StoreAnswer, ExpireStripe, InquireStripe, CancelBlindly, CancelIntent, CloseNowPayments, Locked
  <2>2. pc'[p] \notin Locked
    BY <1>3, <1>4, <2>1
  <2>3. QED
    BY <1>8, <2>2 DEF CreateRefused, StoreAnswer, ExpireStripe, InquireStripe, CancelBlindly, CancelIntent, CloseNowPayments, Plain, Locked
<1>9. CASE WriteStatus(p)
  <2>1. AfterWrite(job[p]) \notin Locked
    BY DEF AfterWrite, Locked
  <2>2. Finish(p) \/ \E j : Begin(p, AfterWrite(job[p]), j)
    BY <1>9 DEF WriteStatus
  <2>3. QED
    BY <1>2, <1>3, <1>9, <2>1, <2>2 DEF WriteStatus, Plain, Locked
<1>10. QED
  BY <1>5, <1>6, <1>7, <1>8, <1>9 DEF ProcStep, Advance, Critical

\* Only the holder of the order's lock is where the lock has to be held.
Mutex == \A p \in Procs : pc[p] \in Locked => lock = p

LEMMA MutexStep ==
  ASSUME KnownInv, Mutex, NEW p \in Procs, ProcStep(p)
  PROVE  Mutex'
<1> USE DEF rowVars, histVars
<1>1. TypeOK /\ pc \in [Procs -> States]
  BY DEF KnownInv, TypeOK
<1>2. \A q \in Procs : q # p => pc'[q] = pc[q]
  BY <1>1, Alone
<1>3. CASE Plain(p)
  BY <1>2, <1>3 DEF Plain, Mutex
<1>4. ASSUME lock' = lock, pc'[p] \in Locked => pc[p] \in Locked PROVE Mutex'
  BY <1>2, <1>4 DEF Mutex
<1>5. ASSUME Unlock(p), pc'[p] \notin Locked PROVE Mutex'
  BY <1>2, <1>5 DEF Mutex, Unlock
<1>6. ASSUME Finish(p) \/ Answer(p, job[p]) PROVE pc'[p] \notin Locked
  BY <1>1, <1>6, FinishType, AnswerType DEF Locked
<1>7. CASE AttachSession(p) \/ ReleaseAntom(p)
  BY <1>4, <1>6, <1>7 DEF AttachSession, ReleaseAntom
<1>8. CASE AttachCallback(p) \/ CancelOrder(p)
  BY <1>1, <1>4, <1>8, GotoType DEF AttachCallback, CancelOrder, States, Locked
<1>9. CASE LockOrder(p)
  BY <1>1, <1>2, <1>9, OrderPaymentAssumption DEF LockOrder, Lock, Mutex
<1>10. CASE ReadLocked(p) \/ MarkInProcess(p) \/ ReadForCredits(p) \/ Debit(p)
  <2>1. (Unlock(p) /\ (Finish(p) \/ Answer(p, job[p]))) \/ (lock' = lock /\ pc[p] \in Locked)
    BY <1>10 DEF ReadLocked, MarkInProcess, ReadForCredits, Debit, Locked
  <2>2. QED
    BY <1>4, <1>5, <1>6, <2>1
<1>11. CASE Serve(p) \/ PayOrder(p) \/ PayOrderFails(p)
  BY <1>4, <1>11 DEF Serve, PayOrder, PayOrderFails, Locked
<1>12. CASE Finalize(p) \/ RefundCredits(p) \/ VoidCoupon(p) \/ Fail(p)
  BY <1>5, <1>6, <1>12 DEF Finalize, RefundCredits, VoidCoupon, Fail
<1>13. QED
  BY <1>1, <1>3, <1>7, <1>8, <1>9, <1>10, <1>11, <1>12, PlainOrCritical DEF Critical

LEMMA MutexInvariant == Spec => [](KnownInv /\ Mutex)
<1>1. Init => Mutex
  BY DEF Init, Mutex, Locked
<1>2. KnownInv /\ Mutex /\ [Next]_vars => Mutex'
  <2> SUFFICES ASSUME KnownInv, Mutex, [Next]_vars PROVE Mutex'
    OBVIOUS
  <2>1. CASE \E p \in Procs : ProcStep(p)
    BY <2>1, MutexStep
  <2>2. CASE Redraft \/ \E s \in Sessions : External(s) \/ NotifyIntent(s)
    BY <2>2 DEF Redraft, External, Pay, GiveUp, Complete, Clear, Settle, NotifyIntent, Mutex
  <2>3. CASE UNCHANGED vars
    BY <2>3 DEF vars, Mutex
  <2>4. QED
    BY <2>1, <2>2, <2>3 DEF Next, ProcStep
<1>3. QED
  BY <1>1, <1>2, KnownInvariant, PTL DEF Spec

-----------------------------------------------------------------------------
(* Nothing is given before it is paid.                                       *)

Gave   == served \/ redemption = "redeemed"
Paying == {"paying", "refunding"}
Giving == {"serving", "finalizing"}

\* Whoever has debited the user has not been given back yet, and whoever gives, or has
\* given, was paid; a debit for an order that is already given is the second one.
GivenFor ==
  /\ Net >= 0
  /\ \A p \in Procs : pc[p] \in Paying => Net >= 1
  /\ \A p \in Procs : pc[p] \in Giving => taken # {} \/ Net >= 1
  /\ Gave => taken # {} \/ Net >= 1
  /\ \A p \in Procs : Gave /\ pc[p] \in Paying => taken # {} \/ Net >= 2

\* Where the requests are, after a step of p.
LEMMA Others ==
  ASSUME TypeOK, NEW p \in Procs, ProcStep(p)
  PROVE  \A q \in Procs : q # p => pc'[q] = pc[q]
BY Alone

LEMMA NetType == ASSUME TypeOK PROVE ledger.debits \in Nat /\ ledger.refunds \in Nat /\ Net \in Int
BY DEF TypeOK, Net

LEMMA GivenStep ==
  ASSUME KnownInv, Mutex, GivenFor, NEW p \in Procs, ProcStep(p)
  PROVE  GivenFor'
<1> USE DEF rowVars, histVars
<1>1. TypeOK /\ pc \in [Procs -> States]
  BY DEF KnownInv, TypeOK
<1>2. \A q \in Procs : q # p => pc'[q] = pc[q]
  BY <1>1, Others
<1>3. Net \in Int
  BY <1>1, NetType
<1>4. \A q \in Procs : q # p /\ pc[p] \in Locked => pc[q] \notin Paying \cup Giving
  BY DEF Mutex, Locked, Paying, Giving
<1>5. ASSUME ledger' = ledger, taken \subseteq taken', Gave' => Gave,
             pc'[p] \in Paying => pc[p] \in Paying,
             pc'[p] \in Giving => pc[p] \in Giving \/ taken' # {} \/ Net >= 1
      PROVE  GivenFor'
  <2>1. Net' = Net
    BY <1>5 DEF Net
  <2>2. \A q \in Procs : /\ pc'[q] \in Paying => pc[q] \in Paying
                         /\ pc'[q] \in Giving => pc[q] \in Giving \/ taken' # {} \/ Net >= 1
    BY <1>2, <1>5
  <2>3. taken # {} => taken' # {}
    BY <1>5
  <2>4. QED
    BY <1>3, <1>5, <2>1, <2>2, <2>3 DEF GivenFor
<1>6. ASSUME Finish(p) \/ Answer(p, job[p]) PROVE pc'[p] \notin Paying \cup Giving
  BY <1>1, <1>6, FinishType, AnswerType DEF Paying, Giving
<1>7. ASSUME NEW l \in States, Goto(p, l) PROVE pc'[p] = l
  BY <1>1, <1>7, GotoType
<1>8. ASSUME UNCHANGED <<served, redemption>> PROVE Gave' => Gave
  BY <1>8, Zenon DEF Gave
<1>9. CASE Plain(p)
  <2>1. pc'[p] \notin Paying \cup Giving
    BY <1>9 DEF Plain, Locked, Paying, Giving
  <2>2. QED
    BY <1>5, <1>8, <1>9, <2>1 DEF Plain
<1>10. CASE AttachSession(p) \/ ReleaseAntom(p)
  <2>1. UNCHANGED <<ledger, taken, served, redemption>> /\ Finish(p)
    BY <1>10 DEF AttachSession, ReleaseAntom
  <2>2. QED
    BY <1>5, <1>6, <1>8, <2>1
<1>11. CASE AttachCallback(p) \/ LockOrder(p) \/ CancelOrder(p)
  <2>1. UNCHANGED <<ledger, taken, served, redemption>>
    BY <1>11 DEF AttachCallback, LockOrder, Lock, CancelOrder
  <2>2. \E l \in {"locking", "answering", "locked", "voiding"} : Goto(p, l)
    BY <1>11 DEF AttachCallback, LockOrder, Lock, CancelOrder
  <2>3. pc'[p] \notin Paying \cup Giving
    BY <1>7, <2>2 DEF States, Locked, Paying, Giving
  <2>4. QED
    BY <1>5, <1>8, <2>1, <2>3
<1>12. CASE ReadLocked(p) \/ ReadForCredits(p)
  <2>1. UNCHANGED <<ledger, taken, served, redemption>>
    BY <1>12 DEF ReadLocked, ReadForCredits
  <2>2. Finish(p) \/ Answer(p, job[p]) \/ \E l \in {"cancelling", "marking", "debiting"} : Goto(p, l)
    BY <1>12 DEF ReadLocked, ReadForCredits
  <2>3. pc'[p] \notin Paying \cup Giving
    BY <1>6, <1>7, <2>2 DEF States, Locked, Paying, Giving
  <2>4. QED
    BY <1>5, <1>8, <2>1, <2>3
<1>13. CASE MarkInProcess(p)
  <2>1. UNCHANGED <<ledger, served, redemption>>
    BY <1>13 DEF MarkInProcess
  <2>2. CASE order.status \in Payable
    <3>1. taken' = taken \cup {job[p].sess} /\ Goto(p, "serving")
      BY <1>13, <2>2 DEF MarkInProcess
    <3>2. pc'[p] \notin Paying
      BY <1>7, <3>1 DEF States, Locked, Paying
    <3>3. QED
      BY <1>5, <1>8, <2>1, <3>1, <3>2
  <2>3. CASE order.status \notin Payable
    <3>1. taken' = taken /\ Answer(p, job[p])
      BY <1>13, <2>3 DEF MarkInProcess
    <3>2. QED
      BY <1>5, <1>6, <1>8, <2>1, <3>1
  <2>4. QED
    BY <2>2, <2>3
<1>14. CASE Serve(p)
  <2>1. pc[p] = "serving" /\ pc'[p] = "finalizing" /\ UNCHANGED <<ledger, taken>>
    BY <1>7, <1>14 DEF Serve, States, Locked
  <2>2. Net' = Net
    BY <2>1 DEF Net
  <2>3. \A q \in Procs : pc'[q] \notin Paying
    BY <1>2, <1>4, <2>1 DEF Locked, Paying
  <2>4. taken # {} \/ Net >= 1
    BY <2>1 DEF GivenFor, Giving
  <2>5. QED
    BY <2>1, <2>2, <2>3, <2>4 DEF GivenFor
<1>15. CASE Finalize(p)
  <2>1. pc[p] = "finalizing" /\ UNCHANGED <<ledger, taken>>
    BY <1>15 DEF Finalize
  <2>2. pc'[p] \notin Paying \cup Giving
    BY <1>6, <1>15 DEF Finalize
  <2>3. Net' = Net
    BY <2>1 DEF Net
  <2>4. \A q \in Procs : pc'[q] \notin Paying
    BY <1>2, <1>4, <2>1, <2>2 DEF Locked
  <2>5. taken # {} \/ Net >= 1
    BY <2>1 DEF GivenFor, Giving
  <2>6. QED
    BY <2>1, <2>3, <2>4, <2>5 DEF GivenFor
<1>16. CASE Debit(p)
  <2>1. pc[p] = "debiting" /\ UNCHANGED <<taken, served, redemption>>
    BY <1>16 DEF Debit
  <2>2. CASE ledger' = ledger /\ Finish(p)
    BY <1>5, <1>6, <1>8, <2>1, <2>2
  <2>3. CASE ledger' = [ledger EXCEPT !.debits = @ + 1] /\ Goto(p, "paying")
    <3>1. Net' = Net + 1
      BY <1>1, <2>3 DEF Net, TypeOK
    <3>2. \A q \in Procs : pc'[q] \notin Giving
      <4>1. pc'[p] = "paying"
        BY <1>7, <2>3 DEF States, Locked
      <4>2. QED
        BY <1>2, <1>4, <2>1, <4>1 DEF Locked, Giving
    <3>3. Gave' => Gave
      BY <1>8, <2>1
    <3>4. QED
      BY <1>3, <2>1, <3>1, <3>2, <3>3 DEF GivenFor
  <2>4. QED
    BY <1>16, <2>2, <2>3 DEF Debit
<1>17. CASE PayOrder(p)
  <2>1. pc[p] = "paying" /\ pc'[p] = "serving" /\ UNCHANGED <<ledger, taken, served, redemption>>
    BY <1>7, <1>17 DEF PayOrder, States, Locked
  <2>2. Net >= 1
    BY <2>1 DEF GivenFor, Paying
  <2>3. QED
    BY <1>5, <1>8, <2>1, <2>2 DEF Paying
<1>18. CASE PayOrderFails(p)
  <2>1. pc[p] = "paying" /\ pc'[p] = "refunding" /\ UNCHANGED <<ledger, taken, served, redemption>>
    BY <1>7, <1>18 DEF PayOrderFails, States, Locked
  <2>2. QED
    BY <1>5, <1>8, <2>1 DEF Paying, Giving
<1>19. CASE RefundCredits(p)
  <2>1. pc[p] = "refunding" /\ UNCHANGED <<taken, served, redemption>>
    BY <1>19 DEF RefundCredits
  <2>2. pc'[p] \notin Paying \cup Giving
    BY <1>6, <1>19 DEF RefundCredits
  <2>3. Net' = Net - 1
    BY <1>1, <1>19 DEF RefundCredits, Net, TypeOK
  <2>4. \A q \in Procs : pc'[q] \notin Paying \cup Giving
    BY <1>2, <1>4, <2>1, <2>2 DEF Locked
  <2>5. Net >= 1 /\ (Gave => taken # {} \/ Net >= 2)
    BY <2>1 DEF GivenFor, Paying
  <2>6. Gave' => Gave
    BY <1>8, <2>1
  <2>7. QED
    BY <1>3, <2>1, <2>3, <2>4, <2>5, <2>6 DEF GivenFor
<1>20. CASE VoidCoupon(p)
  <2>1. UNCHANGED <<ledger, taken, served>> /\ (redemption' = "redeemed" => redemption = "redeemed")
    BY <1>20 DEF VoidCoupon
  <2>2. Gave' => Gave
    BY <2>1, Zenon DEF Gave
  <2>3. pc'[p] \notin Paying \cup Giving
    BY <1>6, <1>20 DEF VoidCoupon
  <2>4. QED
    BY <1>5, <2>1, <2>2, <2>3
<1>21. CASE Fail(p)
  <2>1. UNCHANGED <<taken, served, redemption>> /\ pc'[p] \notin Paying \cup Giving
    BY <1>6, <1>21 DEF Fail
  <2>2. CASE ledger' = ledger
    BY <1>5, <1>8, <2>1, <2>2
  <2>3. CASE pc[p] = "debiting" /\ ledger' = [ledger EXCEPT !.debits = @ + 1]
    <3>1. Net' = Net + 1
      BY <1>1, <2>3 DEF Net, TypeOK
    <3>2. \A q \in Procs : pc'[q] \notin Paying \cup Giving
      BY <1>2, <1>4, <2>1, <2>3 DEF Locked
    <3>3. Gave' => Gave
      BY <1>8, <2>1
    <3>4. QED
      BY <1>3, <2>1, <3>1, <3>2, <3>3 DEF GivenFor
  <2>4. QED
    BY <1>21, <2>2, <2>3 DEF Fail
<1>22. QED
  BY <1>1, <1>9, <1>10, <1>11, <1>12, <1>13, <1>14, <1>15, <1>16, <1>17, <1>18, <1>19, <1>20, <1>21,
     PlainOrCritical DEF Critical

LEMMA GivenInvariant == Spec => [](KnownInv /\ Mutex /\ GivenFor)
<1>1. Init => GivenFor
  BY DEF Init, GivenFor, Net, Gave, Paying, Giving
<1>2. KnownInv /\ Mutex /\ GivenFor /\ [Next]_vars => GivenFor'
  <2> SUFFICES ASSUME KnownInv, Mutex, GivenFor, [Next]_vars PROVE GivenFor'
    OBVIOUS
  <2>1. CASE \E p \in Procs : ProcStep(p)
    BY <2>1, GivenStep
  <2>2. ASSUME UNCHANGED <<pc, served, redemption, ledger, taken>> PROVE GivenFor'
    <3>1. Gave' <=> Gave
      BY <2>2, Zenon DEF Gave
    <3>2. Net' = Net
      BY <2>2 DEF Net
    <3>3. QED
      BY <2>2, <3>1, <3>2 DEF GivenFor
  <2>3. CASE Redraft \/ \E s \in Sessions : External(s) \/ NotifyIntent(s)
    BY <2>2, <2>3 DEF Redraft, External, Pay, GiveUp, Complete, Clear, Settle, NotifyIntent, rowVars, histVars
  <2>4. CASE UNCHANGED vars
    BY <2>2, <2>4 DEF vars
  <2>5. QED
    BY <2>1, <2>3, <2>4 DEF Next, ProcStep
<1>3. QED
  BY <1>1, <1>2, MutexInvariant, PTL DEF Spec

\* Nothing is given before the buyer has checked out: the payments rows, the order in
\* process, its subscriptions and its coupon follow a payment at the provider, a completed
\* session at Stripe or a debit that was not given back, however the notifications, polls,
\* sweeps and failures interleave.
THEOREM PaidFirst == Spec => []NothingGivenBeforeCheckout
<1>1. KnownInv /\ GivenFor => NothingGivenBeforeCheckout
  <2> SUFFICES ASSUME KnownInv, GivenFor PROVE NothingGivenBeforeCheckout
    OBVIOUS
  <2>1. \A s \in Sessions : payments[s] = "succeeded" \/ s \in taken => CheckedOut(s)
    BY DEF KnownInv, Recorded, CheckedOut, Completed
  <2>2. Gave => taken # {} \/ Net > 0
    BY NetType DEF KnownInv, GivenFor
  <2>3. served \/ redemption = "redeemed" => taken # {} \/ Net > 0
    BY <2>2 DEF Gave
  <2>4. QED
    BY <2>1, <2>3, Zenon DEF NothingGivenBeforeCheckout
<1>2. QED
  BY <1>1, GivenInvariant, PTL

-----------------------------------------------------------------------------
(* An order takes one payment.                                               *)

Undisturbed == ~reopened /\ ~strayed

\* A payable order has taken nothing, save a debit whose holder is still at work.
TakenInv ==
  Undisturbed =>
    /\ order.status \in Payable => /\ taken = {}
                                   /\ Net = 0 \/ (Net = 1 /\ \E p \in Procs : pc[p] \in Paying)
    /\ \A p \in Procs : pc[p] = "debiting" => taken = {} /\ Net = 0
    /\ \A p \in Procs : pc[p] \in Paying => taken = {} /\ Net = 1
    /\ (taken = {} /\ Net <= 1) \/ (Net = 0 /\ \E s : taken = {s})

LEMMA TakenStep ==
  ASSUME KnownInv, Mutex, TakenInv, NEW p \in Procs, ProcStep(p)
  PROVE  TakenInv'
<1> USE DEF rowVars, histVars
<1>1. TypeOK /\ pc \in [Procs -> States]
  BY DEF KnownInv, TypeOK
<1>2. \A q \in Procs : q # p => pc'[q] = pc[q]
  BY <1>1, Others
<1>3. Net \in Int
  BY <1>1, NetType
<1>4. \A q \in Procs : q # p /\ pc[p] \in Locked => pc[q] \notin Paying /\ pc[q] # "debiting"
  BY DEF Mutex, Locked, Paying
<1>5. ASSUME ledger' = ledger, taken' = taken, Undisturbed' => Undisturbed,
             Undisturbed' /\ order'.status \in Payable => order.status \in Payable,
             pc'[p] \in Paying <=> pc[p] \in Paying,
             pc'[p] = "debiting" => pc[p] = "debiting"
      PROVE  TakenInv'
  <2> SUFFICES ASSUME Undisturbed' PROVE TakenInv'
    BY DEF TakenInv
  <2>1. Net' = Net /\ Undisturbed
    BY <1>5 DEF Net
  <2>2. \A q \in Procs : /\ pc'[q] \in Paying <=> pc[q] \in Paying
                         /\ pc'[q] = "debiting" => pc[q] = "debiting"
    BY <1>2, <1>5
  <2>3. QED
    BY <1>5, <2>1, <2>2 DEF TakenInv
<1>6. ASSUME Finish(p) \/ Answer(p, job[p]) PROVE pc'[p] \notin Paying /\ pc'[p] # "debiting"
  BY <1>1, <1>6, FinishType, AnswerType DEF Paying
<1>7. ASSUME NEW l \in States, Goto(p, l) PROVE pc'[p] = l
  BY <1>1, <1>7, GotoType
<1>8. ASSUME UNCHANGED <<reopened, strayed>> PROVE Undisturbed' <=> Undisturbed
  BY <1>8, Zenon DEF Undisturbed
<1>9. ASSUME UNCHANGED <<ledger, taken, reopened, strayed>>, order'.status \in Payable => order.status \in Payable,
             pc[p] \notin Paying, pc'[p] \notin Paying, pc'[p] # "debiting"
      PROVE  TakenInv'
  <2>1. Undisturbed' => Undisturbed
    BY <1>8, <1>9
  <2>2. QED
    BY <1>5, <1>9, <2>1
<1>10. CASE Plain(p)
  <2>1. pc[p] \notin Paying /\ pc'[p] \notin Paying /\ pc'[p] # "debiting"
    BY <1>10 DEF Plain, Locked, Paying
  <2>2. QED
    BY <1>9, <1>10, <2>1 DEF Plain
<1>11. ASSUME ledger' = ledger, taken' = taken, strayed' = strayed, NEW st,
              reopened' = (reopened \/ Reopens(st)), order'.status = st,
              pc[p] \notin Paying, pc'[p] \notin Paying, pc'[p] # "debiting"
       PROVE  TakenInv'
  <2>1. Undisturbed' => Undisturbed /\ ~Reopens(st)
    BY <1>11, Zenon DEF Undisturbed
  <2>2. Undisturbed' /\ order'.status \in Payable => order.status \in Payable
    BY <1>11, <2>1 DEF Reopens
  <2>3. QED
    BY <1>5, <1>11, <2>1, <2>2
<1>12. CASE AttachSession(p)
  <2>1. order'.status = "pending_payment"
    BY <1>1, <1>12 DEF AttachSession, TypeOK
  <2>2. pc[p] = "attaching" /\ ledger' = ledger /\ taken' = taken /\ strayed' = strayed
    BY <1>12 DEF AttachSession
  <2>3. reopened' = (reopened \/ Reopens("pending_payment")) /\ Finish(p)
    BY <1>12 DEF AttachSession
  <2>4. QED
    BY <1>6, <1>11, <2>1, <2>2, <2>3 DEF Paying
<1>13. CASE AttachCallback(p)
  <2> DEFINE st == IF job[p].status = "cart" THEN "pending_payment" ELSE job[p].status
  <2>1. order'.status = st
    BY <1>1, <1>13 DEF AttachCallback, TypeOK
  <2>2. pc[p] = "attaching_call" /\ ledger' = ledger /\ taken' = taken /\ strayed' = strayed
    BY <1>13 DEF AttachCallback
  <2>3. reopened' = (reopened \/ Reopens(st)) /\ \E l \in {"locking", "answering"} : Goto(p, l)
    BY <1>13 DEF AttachCallback
  <2>4. pc'[p] \notin Paying /\ pc'[p] # "debiting"
    BY <1>7, <2>3 DEF States, Paying
  <2> HIDE DEF st
  <2>5. QED
    BY <1>11, <2>1, <2>2, <2>3, <2>4 DEF Paying
<1>14. CASE ReleaseAntom(p) \/ VoidCoupon(p) \/ Finalize(p)
  <2>1. UNCHANGED <<ledger, taken, reopened, strayed>> /\ order'.status = order.status
    BY <1>1, <1>14 DEF ReleaseAntom, VoidCoupon, Finalize, TypeOK
  <2>2. pc[p] \notin Paying /\ (Finish(p) \/ Answer(p, job[p]))
    BY <1>14 DEF ReleaseAntom, VoidCoupon, Finalize, Paying
  <2>3. QED
    BY <1>6, <1>9, <2>1, <2>2
<1>15. CASE LockOrder(p) \/ CancelOrder(p) \/ Serve(p)
  <2>1. UNCHANGED <<ledger, taken, reopened, strayed>>
    BY <1>15 DEF LockOrder, Lock, CancelOrder, Serve
  <2>2. order'.status \in Payable => order.status \in Payable
    BY <1>1, <1>15 DEF LockOrder, Lock, CancelOrder, Serve, TypeOK, Payable
  <2>3. pc[p] \notin Paying /\ \E l \in {"locked", "voiding", "finalizing"} : Goto(p, l)
    BY <1>15 DEF LockOrder, Lock, CancelOrder, Serve, Paying
  <2>4. pc'[p] \notin Paying /\ pc'[p] # "debiting"
    BY <1>7, <2>3 DEF States, Locked, Paying
  <2>5. QED
    BY <1>9, <2>1, <2>2, <2>3, <2>4
<1>16. CASE ReadLocked(p)
  <2>1. UNCHANGED <<ledger, taken, reopened, strayed, order>> /\ pc[p] \notin Paying
    BY <1>16 DEF ReadLocked, Paying
  <2>2. Answer(p, job[p]) \/ \E l \in {"cancelling", "marking"} : Goto(p, l)
    BY <1>16 DEF ReadLocked
  <2>3. pc'[p] \notin Paying /\ pc'[p] # "debiting"
    BY <1>6, <1>7, <2>2 DEF States, Locked, Paying
  <2>4. QED
    BY <1>9, <2>1, <2>3
<1>17. CASE MarkInProcess(p)
  <2>1. UNCHANGED <<ledger, reopened, strayed>> /\ pc[p] = "marking"
    BY <1>17 DEF MarkInProcess
  <2>2. CASE order.status \in Payable
    <3>1. taken' = taken \cup {job[p].sess} /\ Goto(p, "serving")
      BY <1>17, <2>2 DEF MarkInProcess
    <3>2. order'.status = "in_process"
      BY <1>1, <1>17, <2>2 DEF MarkInProcess, TypeOK
    <3>3. \A q \in Procs : pc'[q] \notin Paying /\ pc'[q] # "debiting"
      <4>1. pc'[p] = "serving"
        BY <1>7, <3>1 DEF States, Locked
      <4>2. QED
        BY <1>2, <1>4, <2>1, <4>1 DEF Locked, Paying
    <3>4. \A q \in Procs : pc[q] \notin Paying
      BY <1>4, <2>1 DEF Locked, Paying
    <3>5. Undisturbed => taken = {} /\ Net = 0
      BY <2>2, <3>4 DEF TakenInv
    <3>6. Net' = Net /\ (Undisturbed' => Undisturbed)
      BY <1>8, <2>1 DEF Net
    <3>7. Undisturbed' => taken' = {job[p].sess}
      BY <3>1, <3>5, <3>6
    <3>8. order'.status \notin Payable
      BY <3>2 DEF Payable
    <3>9. QED
      BY <3>3, <3>5, <3>6, <3>7, <3>8 DEF TakenInv
  <2>3. CASE order.status \notin Payable
    <3>1. taken' = taken /\ order' = order /\ Answer(p, job[p])
      BY <1>17, <2>3 DEF MarkInProcess
    <3>2. QED
      BY <1>6, <1>9, <2>1, <3>1 DEF Paying
  <2>4. QED
    BY <2>2, <2>3
<1>18. CASE ReadForCredits(p)
  <2>1. UNCHANGED <<ledger, taken, reopened, strayed, order>> /\ pc[p] = "locked"
    BY <1>18 DEF ReadForCredits
  <2>2. CASE Finish(p)
    BY <1>6, <1>9, <2>1, <2>2 DEF Paying
  <2>3. CASE order.status \in Payable /\ Goto(p, "debiting")
    <3>1. pc'[p] = "debiting"
      BY <1>7, <2>3 DEF States, Locked
    <3>2. \A q \in Procs : pc[q] \notin Paying /\ pc'[q] \notin Paying
      BY <1>2, <1>4, <2>1, <3>1 DEF Locked, Paying
    <3>3. Net' = Net /\ (Undisturbed' <=> Undisturbed)
      BY <1>8, <2>1 DEF Net
    <3>4. Undisturbed => taken = {} /\ Net = 0
      BY <2>3, <3>2 DEF TakenInv
    <3>5. QED
      BY <2>1, <3>2, <3>3, <3>4 DEF TakenInv
  <2>4. QED
    BY <1>18, <2>2, <2>3 DEF ReadForCredits, CreditsAllowed
<1>19. CASE Debit(p)
  <2>1. UNCHANGED <<taken, reopened, strayed, order>> /\ pc[p] = "debiting"
    BY <1>19 DEF Debit
  <2>2. CASE ledger' = ledger /\ Finish(p)
    BY <1>6, <1>9, <2>1, <2>2 DEF Paying
  <2>3. CASE ledger' = [ledger EXCEPT !.debits = @ + 1] /\ Goto(p, "paying")
    <3>1. Net' = Net + 1
      BY <1>1, <2>3 DEF Net, TypeOK
    <3>2. pc'[p] = "paying"
      BY <1>7, <2>3 DEF States, Locked
    <3>3. \A q \in Procs : pc'[q] # "debiting"
      BY <1>2, <1>4, <2>1, <3>2 DEF Locked
    <3>4. Undisturbed' => Undisturbed
      BY <1>8, <2>1
    <3>5. Undisturbed => taken = {} /\ Net = 0
      BY <2>1 DEF TakenInv
    <3>6. Undisturbed' => taken' = {} /\ Net' = 1
      BY <2>1, <3>1, <3>4, <3>5
    <3>7. \E q \in Procs : pc'[q] \in Paying
      BY <3>2 DEF Paying
    <3>8. QED
      BY <3>3, <3>6, <3>7 DEF TakenInv
  <2>4. QED
    BY <1>19, <2>2, <2>3 DEF Debit
<1>20. CASE PayOrder(p)
  <2>1. pc[p] = "paying" /\ pc'[p] = "serving" /\ UNCHANGED <<ledger, taken, reopened, strayed>>
    BY <1>7, <1>20 DEF PayOrder, States, Locked
  <2>2. order'.status = "in_process"
    BY <1>1, <1>20 DEF PayOrder, TypeOK
  <2>3. Net' = Net /\ (Undisturbed' => Undisturbed)
    BY <1>8, <2>1 DEF Net
  <2>4. \A q \in Procs : pc'[q] \notin Paying /\ pc'[q] # "debiting"
    BY <1>2, <1>4, <2>1 DEF Locked, Paying
  <2>5. Undisturbed => taken = {} /\ Net = 1
    BY <2>1 DEF TakenInv, Paying
  <2>6. order'.status \notin Payable
    BY <2>2 DEF Payable
  <2>7. QED
    BY <2>1, <2>3, <2>4, <2>5, <2>6 DEF TakenInv
<1>21. CASE PayOrderFails(p)
  <2>1. /\ pc[p] = "paying" /\ pc'[p] = "refunding"
        /\ UNCHANGED <<ledger, taken, order, reopened, strayed>>
    BY <1>7, <1>21 DEF PayOrderFails, States, Locked
  <2>2. pc[p] \in Paying /\ pc'[p] \in Paying /\ pc'[p] # "debiting"
    BY <2>1 DEF Paying
  <2>3. Undisturbed' => Undisturbed
    BY <1>8, <2>1
  <2>4. QED
    BY <1>5, <2>1, <2>2, <2>3
<1>22. CASE RefundCredits(p)
  <2>1. pc[p] = "refunding" /\ UNCHANGED <<taken, order, reopened, strayed>>
    BY <1>22 DEF RefundCredits
  <2>2. pc'[p] \notin Paying /\ pc'[p] # "debiting"
    BY <1>6, <1>22 DEF RefundCredits
  <2>3. Net' = Net - 1
    BY <1>1, <1>22 DEF RefundCredits, Net, TypeOK
  <2>4. \A q \in Procs : pc'[q] \notin Paying /\ pc'[q] # "debiting"
    BY <1>2, <1>4, <2>1, <2>2 DEF Locked
  <2>5. Undisturbed' => Undisturbed
    BY <1>8, <2>1
  <2>6. Undisturbed => taken = {} /\ Net = 1
    BY <2>1 DEF TakenInv, Paying
  <2>7. Undisturbed' => taken' = {} /\ Net' = 0
    BY <2>1, <2>3, <2>5, <2>6
  <2>8. QED
    BY <2>4, <2>7 DEF TakenInv
<1>23. CASE Fail(p)
  <2>1. UNCHANGED <<taken, order, reopened>> /\ pc'[p] \notin Paying /\ pc'[p] # "debiting"
    BY <1>6, <1>23 DEF Fail
  <2>2. CASE ledger' = ledger /\ strayed' = (strayed \/ pc[p] \in {"paying", "refunding"})
    <3>1. Undisturbed' => Undisturbed /\ pc[p] \notin Paying
      BY <2>1, <2>2, Zenon DEF Undisturbed, Paying
    <3>2. CASE pc[p] \in Paying
      BY <3>1, <3>2 DEF TakenInv
    <3>3. CASE pc[p] \notin Paying
      BY <1>5, <2>1, <2>2, <3>1, <3>3
    <3>4. QED
      BY <3>2, <3>3
  <2>3. CASE strayed' = TRUE
    <3>1. ~Undisturbed'
      BY <2>3 DEF Undisturbed
    <3>2. QED
      BY <3>1 DEF TakenInv
  <2>4. QED
    BY <1>23, <2>2, <2>3 DEF Fail
<1>24. QED
  BY <1>1, <1>10, <1>12, <1>13, <1>14, <1>15, <1>16, <1>17, <1>18, <1>19, <1>20, <1>21, <1>22, <1>23,
     PlainOrCritical DEF Critical

LEMMA TakenInvariant == Spec => [](KnownInv /\ Mutex /\ TakenInv)
<1>1. Init => TakenInv
  BY DEF Init, TakenInv, Net, Paying
<1>2. KnownInv /\ Mutex /\ TakenInv /\ [Next]_vars => TakenInv'
  <2> SUFFICES ASSUME KnownInv, Mutex, TakenInv, [Next]_vars PROVE TakenInv'
    OBVIOUS
  <2>1. CASE \E p \in Procs : ProcStep(p)
    BY <2>1, TakenStep
  <2>2. ASSUME UNCHANGED <<pc, ledger, taken, reopened, strayed>>, order'.status = order.status PROVE TakenInv'
    <3>1. Undisturbed' <=> Undisturbed
      BY <2>2, Zenon DEF Undisturbed
    <3>2. Net' = Net
      BY <2>2 DEF Net
    <3>3. QED
      BY <2>2, <3>1, <3>2 DEF TakenInv
  <2>3. CASE Redraft \/ \E s \in Sessions : External(s) \/ NotifyIntent(s)
    <3>1. UNCHANGED <<pc, ledger, taken, reopened, strayed>>
      BY <2>3 DEF Redraft, External, Pay, GiveUp, Complete, Clear, Settle, NotifyIntent, rowVars, histVars
    <3>2. order'.status = order.status
      BY <2>3 DEF Redraft, External, Pay, GiveUp, Complete, Clear, Settle, NotifyIntent, rowVars, histVars, KnownInv, TypeOK
    <3>3. QED
      BY <2>2, <3>1, <3>2
  <2>4. CASE UNCHANGED vars
    BY <2>2, <2>4 DEF vars
  <2>5. QED
    BY <2>1, <2>3, <2>4 DEF Next, ProcStep
<1>3. QED
  BY <1>1, <1>2, MutexInvariant, PTL DEF Spec

\* One order takes one payment, through any number of providers, sessions and requests: a
\* second one needs a write-back of a settled order or a credits checkout that died.
THEOREM PaidOnce == Spec => []TakenOnce
<1>1. KnownInv /\ TakenInv => TakenOnce
  <2> SUFFICES ASSUME KnownInv, TakenInv PROVE TakenOnce
    OBVIOUS
  <2>1. CASE ~Undisturbed
    <3>1. reopened \/ strayed
      BY <2>1, Zenon DEF Undisturbed
    <3>2. QED
      BY <3>1, Zenon DEF TakenOnce
  <2>2. CASE Undisturbed
    <3>1. CASE taken = {} /\ Net <= 1
      BY <3>1, FS_EmptySet, NetType DEF KnownInv, TakenOnce
    <3>2. CASE Net = 0 /\ \E s : taken = {s}
      BY <3>2, FS_Singleton DEF TakenOnce
    <3>3. QED
      BY <2>2, <3>1, <3>2 DEF TakenInv
  <2>3. QED
    BY <2>1, <2>2
<1>2. QED
  BY <1>1, TakenInvariant, PTL

-----------------------------------------------------------------------------
(* A Stripe order is fulfilled at its price.                                 *)

\* A cart has no session that could be paid; what the lock's holder has compared still
\* costs the same; and an order in process keeps the session that paid it.
PriceInv ==
  /\ order.status = "cart" => \A s \in Sessions : At(s) \in {"absent", "created"}
  /\ \A p \in Procs : pc[p] = "marking" /\ job[p].prov = "stripe" =>
       session[job[p].sess].price = order.total
  /\ order.status = "in_process" /\ order.prov = "stripe" =>
       order.ref \in Sessions /\ Completed(order.ref) /\ session[order.ref].price = order.total

\* What a step of p does to the sessions and the order's row.
LEMMA RowStep ==
  ASSUME KnownInv, NEW p \in Procs, ProcStep(p)
  PROVE  /\ order'.total = order.total
         /\ order'.status = "cart" => order.status = "cart" /\ ~AttachSession(p)
         /\ \/ order'.status # "in_process" \/ order'.prov # "stripe"
            \/ order' = order
            \/ MarkInProcess(p) /\ order.status \in Payable
<1> USE DEF rowVars, histVars
<1>1. TypeOK /\ order \in Rows
  BY DEF KnownInv, TypeOK, Rows
<1>2. ASSUME order' = order, ~AttachSession(p) \/ order.status # "cart" PROVE
         /\ order'.total = order.total
         /\ order'.status = "cart" => order.status = "cart" /\ ~AttachSession(p)
         /\ \/ order'.status # "in_process" \/ order'.prov # "stripe"
            \/ order' = order
            \/ MarkInProcess(p) /\ order.status \in Payable
  BY <1>2
<1>3. AttachSession(p) => order'.status = "pending_payment" /\ order'.total = order.total
  BY <1>1 DEF AttachSession, Rows
<1>4. CASE AttachSession(p)
  BY <1>3, <1>4
<1>5. CASE Plain(p) /\ ~AttachSession(p)
  BY <1>2, <1>5 DEF Plain
<1>6. CASE ~AttachSession(p) /\ (\/ LockOrder(p) \/ ReadLocked(p) \/ Serve(p) \/ Finalize(p) \/ ReadForCredits(p)
           \/ Debit(p) \/ PayOrderFails(p) \/ RefundCredits(p) \/ VoidCoupon(p) \/ Fail(p))
  <2>1. order' = order
    BY <1>6 DEF LockOrder, Lock, ReadLocked, Serve, Finalize, ReadForCredits, Debit, PayOrderFails,
       RefundCredits, VoidCoupon, Fail
  <2>2. QED
    BY <1>2, <1>6, <2>1
<1>7. CASE ~AttachSession(p) /\ ReleaseAntom(p)
  <2>1. order' = order \/ (order'.status = order.status /\ order'.total = order.total /\ order'.prov = "none")
    BY <1>1, <1>7 DEF ReleaseAntom, Rows
  <2>2. QED
    BY <1>2, <1>7, <2>1
<1>8. CASE ~AttachSession(p) /\ AttachCallback(p)
  <2>1. order'.prov = "pay4bit" /\ order'.total = order.total
    BY <1>1, <1>8 DEF AttachCallback, Rows
  <2>2. order'.status # "cart"
    BY <1>1, <1>8 DEF AttachCallback, Rows
  <2>3. QED
    BY <2>1, <2>2
<1>9. CASE ~AttachSession(p) /\ MarkInProcess(p)
  <2>1. CASE order.status \in Payable
    <3>1. order'.status = "in_process" /\ order'.total = order.total
      BY <1>1, <1>9, <2>1 DEF MarkInProcess, Rows
    <3>2. QED
      BY <1>9, <2>1, <3>1
  <2>2. CASE order.status \notin Payable
    <3>1. order' = order
      BY <1>9, <2>2 DEF MarkInProcess
    <3>2. QED
      BY <1>2, <1>9, <3>1
  <2>3. QED
    BY <2>1, <2>2
<1>10. CASE ~AttachSession(p) /\ (PayOrder(p) \/ CancelOrder(p))
  <2>1. /\ order'.total = order.total /\ order'.status # "cart"
        /\ order'.status = "in_process" => order'.prov = "credits"
    BY <1>1, <1>10 DEF PayOrder, CancelOrder, Rows
  <2>2. QED
    BY <2>1
<1>11. QED
  BY <1>1, <1>4, <1>5, <1>6, <1>7, <1>8, <1>9, <1>10, PlainOrCritical DEF Critical

LEMMA PriceStep ==
  ASSUME KnownInv, PriceInv, NEW p \in Procs, ProcStep(p)
  PROVE  PriceInv'
<1> USE DEF rowVars, histVars
<1>1. TypeOK /\ Informed(p) /\ pc \in [Procs -> States]
  BY DEF KnownInv, TypeOK
<1>2. \A q \in Procs : q # p => pc'[q] = pc[q] /\ job'[q] = job[q]
  BY <1>1, Alone
<1>3. order'.total = order.total
  BY RowStep
<1>4. \A s \in Sessions : Completed(s) => Completed(s)' /\ session'[s].price = session[s].price
  BY SessionStep DEF At, Completed
<1>5. order'.status = "cart" => \A s \in Sessions : At(s)' \in {"absent", "created"}
  <2> SUFFICES ASSUME order'.status = "cart", NEW s \in Sessions PROVE At(s)' \in {"absent", "created"}
    OBVIOUS
  <2>1. At(s) \in {"absent", "created"} /\ ~AttachSession(p)
    BY RowStep DEF PriceInv
  <2>2. CASE ~(pc[p] = "attaching" /\ job[p].sess = s)
    BY <2>1, <2>2, SessionStep DEF At
  <2>3. CASE pc[p] = "attaching" /\ job[p].sess = s
    <3>1. session' = session
      BY <2>1, <2>3, <1>1 DEF ProcStep, Advance, OpenStripe, OpenNowPayments, OpenPayop, OpenAntom, OpenPay4bit, Open, Poll,
         RepeatPayop, CancelAntom, PayWithCredits, Cancel, Reconcile, Notified, NotifyStripe, NotifyNowPayments,
         NotifyPayop, NotifyAntom, Callback, Record, CreateSession, CreateRefused, WriteStatus, ReleaseAntom,
         AttachCallback, StoreAnswer, ReadLocked, MarkInProcess, Serve, Finalize, ReadForCredits, Debit, PayOrder,
         RefundCredits, ExpireStripe, InquireStripe, CancelBlindly, CancelIntent, CloseNowPayments, CancelOrder, VoidCoupon, LockOrder,
         PayOrderFails, Fail
    <3>2. QED
      BY <2>1, <3>1 DEF At
  <2>4. QED
    BY <2>2, <2>3
<1>6. \A q \in Procs : pc'[q] = "marking" /\ job'[q].prov = "stripe" =>
        session'[job'[q].sess].price = order'.total
  <2>1. ASSUME NEW q \in Procs, q # p, pc'[q] = "marking", job'[q].prov = "stripe"
        PROVE  session'[job'[q].sess].price = order'.total
    <3>1. PaidJob(q) /\ session[job[q].sess].price = order.total
      BY <1>2, <2>1 DEF KnownInv, Informed, PriceInv
    <3>2. QED
      BY <1>2, <1>3, <1>4, <2>1, <3>1 DEF PaidJob
  <2>2. ASSUME pc'[p] = "marking", job'[p].prov = "stripe"
        PROVE  session'[job'[p].sess].price = order'.total
    <3>1. ReadLocked(p) /\ Goto(p, "marking") /\ ~AmountDiffers(job[p])
      <4>1. ReadLocked(p)
        <5>1. ~Plain(p)
          BY <2>2 DEF Plain, Locked
        <5>2. ASSUME Finish(p) \/ Answer(p, job[p]) PROVE FALSE
          BY <1>1, <2>2, <5>2, FinishType, AnswerType
        <5>3. ASSUME NEW l \in States \ {"marking"}, Goto(p, l) PROVE FALSE
          BY <1>1, <2>2, <5>3, GotoType
        <5>4. CASE AttachSession(p) \/ ReleaseAntom(p) \/ Finalize(p) \/ RefundCredits(p) \/ VoidCoupon(p) \/ Fail(p)
          BY <5>2, <5>4 DEF AttachSession, ReleaseAntom, Finalize, RefundCredits, VoidCoupon, Fail
        <5>5. CASE AttachCallback(p) \/ LockOrder(p) \/ Serve(p) \/ PayOrder(p) \/ PayOrderFails(p) \/ CancelOrder(p)
          BY <5>3, <5>5 DEF AttachCallback, LockOrder, Lock, Serve, PayOrder, PayOrderFails, CancelOrder, States, Locked
        <5>6. CASE MarkInProcess(p) \/ ReadForCredits(p) \/ Debit(p)
          <6>1. \/ Finish(p) \/ Answer(p, job[p])
                \/ \E l \in {"serving", "debiting", "paying"} : Goto(p, l)
            BY <5>6 DEF MarkInProcess, ReadForCredits, Debit
          <6>2. QED
            BY <5>2, <5>3, <6>1 DEF States, Locked
        <5>7. QED
          BY <1>1, <5>1, <5>4, <5>5, <5>6, PlainOrCritical DEF Critical
      <4>2. ~Answer(p, job[p])
        BY <1>1, <2>2, AnswerType
      <4>3. ~Goto(p, "cancelling")
        BY <1>1, <2>2, GotoType DEF States
      <4>4. QED
        BY <4>1, <4>2, <4>3 DEF ReadLocked
    <3>2. job' = job
      BY <3>1 DEF Goto
    <3>3. session[job[p].sess].price = order.total
      BY <2>2, <3>1, <3>2 DEF AmountDiffers
    <3>4. session' = session
      BY <3>1 DEF ReadLocked
    <3>5. QED
      BY <1>3, <3>2, <3>3, <3>4
  <2>3. QED
    BY <2>1, <2>2
<1>7. order'.status = "in_process" /\ order'.prov = "stripe" =>
        order'.ref \in Sessions /\ Completed(order.ref)' /\ session'[order'.ref].price = order'.total
  <2> SUFFICES ASSUME order'.status = "in_process", order'.prov = "stripe"
               PROVE  order'.ref \in Sessions /\ Completed(order.ref)' /\ session'[order'.ref].price = order'.total
    OBVIOUS
  <2>1. CASE order' = order
    BY <1>3, <1>4, <2>1 DEF PriceInv, At, Completed
  <2>2. CASE MarkInProcess(p) /\ order.status \in Payable
    <3>1. PaidJob(p) /\ pc[p] = "marking"
      BY <1>1, <2>2 DEF MarkInProcess, Informed
    <3>2. order'.prov = job[p].prov /\ order'.ref = job[p].sess /\ session' = session
      BY <1>1, <2>2 DEF MarkInProcess, TypeOK
    <3>3. session[job[p].sess].price = order.total
      BY <3>1, <3>2 DEF PriceInv
    <3>4. QED
      BY <1>3, <3>1, <3>2, <3>3 DEF PaidJob, At, Completed
  <2>3. QED
    BY <2>1, <2>2, RowStep
<1>8. QED
  BY <1>5, <1>6, <1>7 DEF PriceInv, At, Completed

LEMMA PriceInvariant == Spec => [](KnownInv /\ PriceInv)
<1>1. Init => PriceInv
  BY DEF Init, PriceInv, At
<1>2. KnownInv /\ PriceInv /\ [Next]_vars => PriceInv'
  <2> SUFFICES ASSUME KnownInv, PriceInv, [Next]_vars PROVE PriceInv'
    OBVIOUS
  <2>1. CASE \E p \in Procs : ProcStep(p)
    BY <2>1, PriceStep
  <2>2. CASE Redraft
    <3>1. TypeOK /\ \A p \in Procs : Informed(p)
      BY DEF KnownInv
    <3>2. order.status = "cart" /\ order'.status = "cart" /\ UNCHANGED <<session, pc, job>>
      BY <2>2, <3>1 DEF Redraft, TypeOK
    <3>3. \A p \in Procs : pc[p] # "marking"
      BY <3>1, <3>2 DEF Informed, PaidJob, PriceInv, Completed
    <3>4. QED
      BY <3>2, <3>3 DEF PriceInv, At
  <2>3. ASSUME NEW s \in Sessions, External(s) PROVE PriceInv'
    <3>1. PICK st : /\ At(s) \in {"open", "complete"} /\ session' = [session EXCEPT ![s].state = st]
                    /\ At(s) = "complete" => st \in {"paid", "bounced"}
                    /\ UNCHANGED <<order, pc, job>>
      BY <2>3, ExternalStep DEF rowVars
    <3>2. order.status # "cart"
      BY <3>1 DEF PriceInv
    <3>3. \A t \in Sessions : session'[t].price = session[t].price /\ (Completed(t) => Completed(t)')
      BY <3>1 DEF KnownInv, TypeOK, At, Completed
    <3>4. \A p \in Procs : pc[p] = "marking" => PaidJob(p)
      BY DEF KnownInv, Informed
    <3>5. QED
      BY <3>1, <3>2, <3>3, <3>4 DEF PriceInv, PaidJob, At
  <2>4. CASE (\E s \in Sessions : NotifyIntent(s)) \/ UNCHANGED vars
    BY <2>4 DEF NotifyIntent, vars, PriceInv, At, Completed
  <2>5. QED
    BY <2>1, <2>2, <2>3, <2>4 DEF Next, ProcStep
<1>3. QED
  BY <1>1, <1>2, KnownInvariant, PTL DEF Spec

\* An order in process through Stripe was paid what it costs, whatever it was re-priced at
\* and whichever sessions were attached meanwhile.
THEOREM PricedRight == Spec => []FulfilledAtItsPrice
<1>1. PriceInv => FulfilledAtItsPrice
  BY DEF PriceInv, FulfilledAtItsPrice
<1>2. QED
  BY <1>1, PriceInvariant, PTL

-----------------------------------------------------------------------------
(* Whoever finds the order in process finds it served.                       *)

\* While nothing has failed, an order that is in process, or was when a callback read it,
\* has its subscriptions, or the holder of the lock is about to create them.
DoneInv ==
  failures = 0 /\ (order.status = "in_process" \/ \E p \in Procs : job[p].status = "in_process")
    => served = TRUE \/ \E q \in Procs : pc[q] = "serving"

LEMMA DoneStep ==
  ASSUME KnownInv, DoneInv, NEW p \in Procs, ProcStep(p)
  PROVE  DoneInv'
<1> USE DEF rowVars, histVars
<1> SUFFICES ASSUME failures' = 0 PROVE DoneInv'
  BY DEF DoneInv
<1>1. TypeOK /\ pc \in [Procs -> States] /\ job \in [Procs -> Jobs] /\ order \in Rows /\ failures \in Nat
  BY OrderPaymentAssumption DEF KnownInv, TypeOK, Rows
<1>2. \A q \in Procs : q # p => pc'[q] = pc[q] /\ job'[q] = job[q]
  BY <1>1, Alone
<1>3. ASSUME Serve(p) PROVE DoneInv'
  <2>1. served' = TRUE
    BY <1>3 DEF Serve
  <2>2. QED
    BY <2>1 DEF DoneInv
<1>4. ~Fail(p) /\ ~PayOrderFails(p)
  BY <1>1 DEF Fail, PayOrderFails
<1>5. ASSUME failures' = failures, served' = served,
             pc[p] # "serving" \/ pc'[p] = "serving",
             \/ order'.status # "in_process" \/ order.status = "in_process"
             \/ job[p].status = "in_process" \/ pc'[p] = "serving",
             \/ job'[p].status # "in_process" \/ order.status = "in_process"
             \/ job[p].status = "in_process"
      PROVE  DoneInv'
  <2>1. CASE pc'[p] = "serving"
    BY <2>1 DEF DoneInv
  <2>2. CASE pc'[p] # "serving"
    <3>1. order'.status = "in_process" \/ (\E q \in Procs : job'[q].status = "in_process") =>
            order.status = "in_process" \/ \E q \in Procs : job[q].status = "in_process"
      BY <1>2, <1>5, <2>2
    <3>2. (\E q \in Procs : pc[q] = "serving") => \E q \in Procs : pc'[q] = "serving"
      BY <1>2, <1>5
    <3>3. QED
      BY <1>5, <3>1, <3>2 DEF DoneInv
  <2>3. QED
    BY <2>1, <2>2
<1>6. ASSUME Finish(p) PROVE job'[p].status # "in_process" /\ pc'[p] = "idle"
  BY <1>1, <1>6, FinishType DEF NoJob
<1>7. ASSUME Answer(p, job[p]) PROVE job'[p].status # "in_process" \/ job'[p].status = job[p].status
  BY <1>1, <1>6, <1>7, AnswerType DEF NoJob
<1>8. ASSUME NEW l \in States, Goto(p, l) PROVE job' = job /\ pc'[p] = l
  BY <1>1, <1>8, GotoType
<1>9. CASE Plain(p)
  <2>1. pc[p] # "serving" /\ served' = served /\ order' = order
    BY <1>9 DEF Plain, Locked
  <2>2. /\ failures' = failures
        /\ \/ job'[p].status # "in_process" \/ order.status = "in_process"
           \/ job[p].status = "in_process"
    <3>2. ASSUME NEW l, NEW j, Begin(p, l, j) PROVE job'[p] = j
      BY <1>1, <3>2 DEF Begin
    <3>4. CASE OpenStripe(p) \/ OpenNowPayments(p) \/ OpenPayop(p) \/ OpenAntom(p) \/ OpenPay4bit(p)
      <4>1. PICK prov : Open(p, prov)
        BY <3>4 DEF OpenStripe, OpenNowPayments, OpenPayop, OpenAntom, OpenPay4bit
      <4>2. job'[p] = [NoJob EXCEPT !.kind = "open", !.prov = prov, !.total = Sum(prov)]
        BY <3>2, <4>1, Zenon DEF Open
      <4>3. QED
        BY <4>1, <4>2 DEF Open, NoJob
    <3>5. ASSUME NEW kind, NEW s, NEW r, NEW fresh, Reconcile(p, kind, s, r, fresh)
          PROVE  job'[p].status = "cart"
      <4>1. job'[p] = [NoJob EXCEPT !.kind = kind, !.prov = session[s].prov, !.sess = s, !.seen = payments[s],
                                    !.result = r, !.fresh = fresh]
        BY <3>2, <3>5, Zenon DEF Reconcile
      <4>2. QED
        BY <4>1 DEF NoJob
    <3>6. CASE Poll(p) \/ RepeatPayop(p) \/ CancelAntom(p)
      BY <3>5, <3>6 DEF Poll, RepeatPayop, CancelAntom
    <3>7. CASE PayWithCredits(p)
      <4>1. job'[p] = [NoJob EXCEPT !.kind = "credits", !.prov = "credits"]
        BY <3>2, <3>7, Zenon DEF PayWithCredits
      <4>2. QED
        BY <3>7, <4>1 DEF PayWithCredits, NoJob
    <3>8. CASE Cancel(p)
      <4>1. job'[p] = [NoJob EXCEPT !.kind = "cancel", !.prov = order.prov, !.sess = order.ref]
        BY <3>2, <3>8, Zenon DEF Cancel
      <4>2. QED
        BY <3>8, <4>1 DEF Cancel, NoJob
    <3>9. CASE \E s \in Sessions : Notified(p, s)
      <4>1. PICK s \in Sessions : Notified(p, s)
        BY <3>9
      <4>2. ASSUME NEW kind, NEW r, NEW l, Record(p, kind, s, r, l)
            PROVE  job'[p].status = "cart" /\ failures' = failures
        <5>1. PICK seen, result : job'[p] = [NoJob EXCEPT !.kind = "notify", !.prov = session[s].prov, !.sess = s,
                                                          !.seen = seen, !.result = result]
          BY <3>2, <4>2 DEF Record
        <5>2. QED
          BY <4>2, <5>1 DEF Record, NoJob
      <4>3. CASE Callback(p, s)
        <5>1. PICK m : job'[p] = [NoJob EXCEPT !.kind = m, !.prov = "pay4bit", !.sess = s,
                                               !.status = order.status, !.total = Sum("pay4bit")]
          BY <3>2, <4>3, Zenon DEF Callback
        <5>2. job'[p].status = order.status
          BY <5>1 DEF NoJob
        <5>3. QED
          BY <4>3, <5>2 DEF Callback
      <4>4. CASE NotifyStripe(p, s) \/ NotifyNowPayments(p, s) \/ NotifyPayop(p, s) \/ NotifyAntom(p, s)
        BY <4>2, <4>4 DEF NotifyStripe, NotifyNowPayments, NotifyPayop, NotifyAntom
      <4>5. QED
        BY <4>1, <4>3, <4>4 DEF Notified
    <3>10. CASE CreateSession(p)
      <4>1. PICK s \in Sessions : job' = [job EXCEPT ![p].sess = s]
        BY <3>10 DEF CreateSession
      <4>2. job' = [job EXCEPT ![p] = [job[p] EXCEPT !.sess = s]]
        BY <4>1
      <4>3. job'[p] = [job[p] EXCEPT !.sess = s] /\ job[p] \in Jobs
        BY <1>1, <4>2
      <4>4. job'[p].status = job[p].status
        BY <4>3 DEF Jobs
      <4>5. QED
        BY <3>10, <4>4 DEF CreateSession
    <3>11. CASE WriteStatus(p)
      <4>1. Finish(p) \/ \E l : Begin(p, l, [job[p] EXCEPT !.result = "pending", !.seen = "absent"])
        BY <3>11 DEF WriteStatus
      <4>2. job[p] \in Jobs
        BY <1>1
      <4>3. [job[p] EXCEPT !.result = "pending", !.seen = "absent"].status = job[p].status
        BY <4>2 DEF Jobs
      <4>4. QED
        BY <1>6, <3>2, <3>11, <4>1, <4>3 DEF WriteStatus
    <3>12. CASE CreateRefused(p) \/ StoreAnswer(p) \/ ExpireStripe(p) \/ InquireStripe(p) \/ CloseNowPayments(p)
      <4>1. Finish(p) \/ job' = job
        BY <3>12 DEF CreateRefused, StoreAnswer, ExpireStripe, InquireStripe, CancelBlindly, CancelIntent, CloseNowPayments, Goto
      <4>2. QED
        BY <1>6, <3>12, <4>1 DEF CreateRefused, StoreAnswer, ExpireStripe, InquireStripe, CancelBlindly, CancelIntent, CloseNowPayments
    <3>13. CASE Critical(p)
      <4>1. CASE AttachSession(p) \/ ReleaseAntom(p)
        BY <1>6, <4>1 DEF AttachSession, ReleaseAntom
      <4>2. CASE AttachCallback(p) \/ CancelOrder(p)
        BY <4>2 DEF AttachCallback, CancelOrder, Goto
      <4>3. CASE VoidCoupon(p)
        BY <1>7, <4>3 DEF VoidCoupon
      <4>4. CASE LockOrder(p)
        BY <4>4 DEF LockOrder, Lock, Goto
      <4>5. QED
        BY <1>4, <1>9, <3>13, <4>1, <4>2, <4>3, <4>4 DEF Critical, Plain, Locked, ReadLocked, MarkInProcess, Serve,
           Finalize, ReadForCredits, Debit, PayOrder, RefundCredits
    <3>14. QED
      BY <1>4, <3>4, <3>6, <3>7, <3>8, <3>9, <3>10, <3>11, <3>12, <3>13 DEF ProcStep, Advance, Critical
  <2>3. QED
    BY <1>5, <2>1, <2>2
<1>10. CASE AttachSession(p) \/ ReleaseAntom(p)
  <2>1. /\ failures' = failures /\ served' = served /\ pc[p] # "serving" /\ Finish(p)
        /\ order'.status = "in_process" => order.status = "in_process"
    BY <1>1, <1>10 DEF AttachSession, ReleaseAntom, Rows
  <2>2. QED
    BY <1>5, <1>6, <2>1
<1>11. CASE AttachCallback(p) \/ CancelOrder(p)
  <2>1. /\ failures' = failures /\ served' = served /\ pc[p] # "serving" /\ job' = job
        /\ order'.status = "in_process" => job[p].status = "in_process"
    BY <1>1, <1>11 DEF AttachCallback, CancelOrder, Goto, Rows
  <2>2. QED
    BY <1>5, <2>1
<1>12. CASE LockOrder(p) \/ ReadLocked(p) \/ Finalize(p) \/ ReadForCredits(p) \/ Debit(p)
            \/ RefundCredits(p) \/ VoidCoupon(p)
  <2>1. failures' = failures /\ served' = served /\ pc[p] # "serving" /\ order' = order
    BY <1>12 DEF LockOrder, Lock, ReadLocked, Finalize, ReadForCredits, Debit, RefundCredits, VoidCoupon
  <2>2. Finish(p) \/ Answer(p, job[p]) \/ job' = job
    BY <1>12 DEF LockOrder, Lock, ReadLocked, Finalize, ReadForCredits, Debit, RefundCredits, VoidCoupon, Goto
  <2>3. QED
    BY <1>5, <1>6, <1>7, <2>1, <2>2
<1>13. CASE MarkInProcess(p)
  <2>1. failures' = failures /\ served' = served /\ pc[p] # "serving"
    BY <1>13 DEF MarkInProcess
  <2>2. (order' = order /\ Answer(p, job[p])) \/ Goto(p, "serving")
    BY <1>13 DEF MarkInProcess
  <2>3. QED
    BY <1>5, <1>7, <1>8, <2>1, <2>2 DEF States, Locked
<1>14. CASE PayOrder(p)
  <2>1. failures' = failures /\ served' = served /\ Goto(p, "serving")
    BY <1>14 DEF PayOrder
  <2>2. QED
    BY <1>5, <1>8, <2>1 DEF States, Locked
<1>15. QED
  BY <1>1, <1>3, <1>4, <1>9, <1>10, <1>11, <1>12, <1>13, <1>14, PlainOrCritical DEF Critical

\* Whoever gets the order's lock and reads in_process answers that the order is fulfilled,
\* and its subscriptions exist, for any number of requests, unless something failed.
THEOREM LockedAnswerHolds == Spec => []LockedAnswerIsTrue
<1>1. Init => DoneInv
  BY DEF Init, DoneInv, NoJob
<1>2. KnownInv /\ DoneInv /\ [Next]_vars => DoneInv'
  <2> SUFFICES ASSUME KnownInv, DoneInv, [Next]_vars PROVE DoneInv'
    OBVIOUS
  <2>1. CASE \E p \in Procs : ProcStep(p)
    BY <2>1, DoneStep
  <2>2. ASSUME UNCHANGED <<pc, job, served, failures>>, order'.status = order.status PROVE DoneInv'
    BY <2>2 DEF DoneInv
  <2>3. CASE Redraft \/ \E s \in Sessions : External(s) \/ NotifyIntent(s)
    <3>1. UNCHANGED <<pc, job, served, failures>>
      BY <2>3 DEF Redraft, External, Pay, GiveUp, Complete, Clear, Settle, NotifyIntent, rowVars, histVars
    <3>2. order'.status = order.status
      BY <2>3 DEF Redraft, External, Pay, GiveUp, Complete, Clear, Settle, NotifyIntent, rowVars, histVars, KnownInv, TypeOK
    <3>3. QED
      BY <2>2, <3>1, <3>2
  <2>4. CASE UNCHANGED vars
    BY <2>2, <2>4 DEF vars
  <2>5. QED
    BY <2>1, <2>3, <2>4 DEF Next, ProcStep
<1>3. Mutex /\ DoneInv => LockedAnswerIsTrue
  BY DEF Mutex, Locked, DoneInv, LockedAnswerIsTrue
<1>4. QED
  BY <1>1, <1>2, <1>3, MutexInvariant, PTL DEF Spec
=============================================================================
