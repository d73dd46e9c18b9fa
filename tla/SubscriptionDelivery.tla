------------------------ MODULE SubscriptionDelivery ------------------------
(***************************************************************************)
(* One paid order and its subscription in the hands of the staff: the      *)
(* order is marked delivered, which activates the subscription from the    *)
(* order's updated_at and mails the buyer; a delivery is replayed; a mail  *)
(* that fails is pursued by the watchdog sweep, and by a task when its     *)
(* deadline has passed; statuses are set by hand; renewals lengthen the    *)
(* term and are fulfilled by a task.                                       *)
(*                                                                         *)
(* No request holds a lock or a transaction: each is a chain of reads and  *)
(* unconditional updates, and several of them are at work at once.         *)
(***************************************************************************)
EXTENDS Naturals, FiniteSetsExt

CONSTANTS
  Staff,    \* requests of administrators that may be at work at the same time
  TermLength,     \* length of a term
  Budgets   \* bounds: how often each event may happen in a behaviour

Events == {"deliver", "replay", "status", "reopen", "renew", "credentials", "sweep",
           "refusal", "fault", "tick"}

ASSUME SubscriptionDeliveryAssumption ==
  /\ TermLength \in Nat \ {0}
  /\ Budgets \subseteq [Events -> Nat]

VARIABLES
  clock,
  orderRow,     \* status, and updated (updated_at)
  sub,       \* the subscription: status, credentials (there are any), start, end
  watchdog,  \* metadata.delivery_email_watchdog.status
  task,      \* open admin_tasks: renewal: of a renewal whose payment is confirmed; mail: of an
             \* order whose mail has failed until the deadline
  req,       \* req[a]: the await request a is at and what it has read
  sweep,     \* the watchdog sweep: pc; sent: the answer of its resend; asked: the delivery for
             \* which it knows a task to be open, 0 if none
  budget,      \* what is left of the budget
  mails,     \* delivery mails sent
  delivered, \* times the order became delivered (history)
  unsent,    \* since it last did, no mail was sent and no task about one completed (history)
  extra,     \* a mail was asked for beyond that, by the staff, an overlap or an error (history)
  dropped,   \* an error or an overlap hid a delivery from watchdog or staff (history)
  since      \* history: first: the date of the first delivery; date: of the activation; paid:
             \* terms paid for, 0 before it; reset: the dates have been written anew since

mailVars == <<mails, delivered, unsent, extra, dropped>>
termVars == <<sub, since>>
deliveryVars == <<clock, orderRow, sub, watchdog, task, req, sweep, budget, mails, delivered, unsent,
          extra, dropped, since>>

Statuses == {"pending", "active", "expired", "cancelled"}
Idle == [pc |-> "idle", kind |-> "none", previous |-> "none", dog |-> "none", sent |-> FALSE,
         at |-> 0, target |-> "active", resend |-> FALSE, strict |-> TRUE]

Asleep == [pc |-> "idle", sent |-> FALSE, asked |-> 0]

Requests ==
  [pc : {"idle", "mark", "mail", "outcome", "schedule", "order", "row", "check", "set", "dates",
         "resend", "record", "fulfil"},
   kind : {"none", "deliver", "replay", "status", "renewal"},
   previous : Statuses \cup {"none", "in_process", "delivered"},
   dog : {"none", "pending", "done", "escalated"}, sent : BOOLEAN, at : Nat, target : Statuses,
   resend : BOOLEAN, strict : BOOLEAN]

\* VALID_STATUS_TRANSITIONS.
Transitions_All == Statuses \X Statuses

Transitions == {<<"pending", "active">>, <<"pending", "cancelled">>,
                <<"active", "expired">>, <<"active", "cancelled">>,
                <<"expired", "active">>, <<"expired", "cancelled">>}

DeliveryInit ==
  /\ clock = 0
  /\ orderRow = [status |-> "in_process", updated |-> 0]
  /\ sub = [status |-> "pending", credentials |-> FALSE, start |-> 0, end |-> TermLength]
  /\ watchdog = "none" /\ task = [renewal |-> FALSE, mail |-> FALSE]
  /\ req = [a \in Staff |-> Idle]
  /\ sweep = Asleep
  /\ budget \in Budgets
  /\ mails = 0 /\ delivered = 0 /\ unsent = FALSE /\ extra = FALSE /\ dropped = FALSE
  /\ since = [first |-> 0, date |-> 0, paid |-> 0, reset |-> FALSE]

Goto(a, pc) == req' = [req EXCEPT ![a].pc = pc]
Finish(a)   == req' = [req EXCEPT ![a] = Idle]
Use(e)      == budget[e] > 0 /\ budget' = [budget EXCEPT ![e] = @ - 1]
Touch       == orderRow' = [orderRow EXCEPT !.updated = clock]

\* A mail leaves, or the mail service refuses it.
Mail(sent) ==
  /\ IF sent THEN UNCHANGED budget ELSE Use("refusal")
  /\ mails' = IF sent THEN mails + 1 ELSE mails
  /\ unsent' = (unsent /\ ~sent)

-----------------------------------------------------------------------------
(* The order is marked delivered: updateOrderStatus                         *)

\* A request of kind e starts with fields r.
Begin(a, e, r) ==
  /\ req[a] = Idle
  /\ Use(e)
  /\ req' = [req EXCEPT ![a] = r]

\* The order's status is read, ...
BeginDelivery(a) ==
  /\ Begin(a, "deliver", [Idle EXCEPT !.pc = "mark", !.kind = "deliver", !.previous = orderRow.status])
  /\ UNCHANGED <<clock, orderRow, termVars, watchdog, task, sweep, mailVars>>

\* A mail goes out whenever the order is marked.
Mails_Always(a) == TRUE

\* Only a change of the status that was read is mailed about.
Mails(a) == req[a].previous # "delivered"

\* ... and delivered is written whatever it is by now.
MarkDelivered(a) ==
  /\ req[a].pc = "mark"
  /\ orderRow' = [status |-> "delivered", updated |-> clock]
  /\ IF orderRow.status = "delivered"
     THEN /\ extra' = (extra \/ req[a].previous # "delivered")
          /\ UNCHANGED <<delivered, unsent, dropped>>
     ELSE /\ delivered' = delivered + 1 /\ unsent' = TRUE
          /\ dropped' = (req[a].previous = "delivered")
          /\ UNCHANGED extra
  /\ req' = [req EXCEPT ![a].pc = IF Mails(a) THEN "mail" ELSE "order",
                        ![a].dog = watchdog]
  /\ since' = [since EXCEPT !.first = IF delivered = 0 THEN clock ELSE @]
  /\ UNCHANGED <<clock, sub, watchdog, task, sweep, budget, mails>>

SendMail(a) ==
  /\ req[a].pc = "mail"
  /\ \E sent \in BOOLEAN : Mail(sent) /\ req' = [req EXCEPT ![a].pc = "outcome", ![a].sent = sent]
  /\ UNCHANGED <<clock, orderRow, termVars, watchdog, task, sweep, delivered, extra, dropped>>

\* The outcome goes into the metadata, which touches updated_at; an error here counts as
\* a failed mail.
RecordOutcome(a) ==
  /\ req[a].pc = "outcome"
  /\ \/ /\ Touch /\ Goto(a, IF req[a].sent THEN "order" ELSE "schedule")
        /\ UNCHANGED <<budget, extra>>
     \/ /\ Use("fault") /\ Goto(a, "schedule") /\ UNCHANGED orderRow
        /\ extra' = (extra \/ req[a].sent)
  /\ UNCHANGED <<clock, termVars, watchdog, task, sweep, mails, delivered, unsent, dropped>>

\* The watchdog is set, unless the row that was marked says that it has done its work.
Schedule(a) ==
  /\ req[a].pc = "schedule"
  /\ Goto(a, "order")
  /\ \/ req[a].dog = "done" /\ UNCHANGED <<orderRow, watchdog, budget, dropped>>
     \/ req[a].dog # "done" /\ Touch /\ watchdog' = "pending" /\ UNCHANGED <<budget, dropped>>
     \/ Use("fault") /\ dropped' = TRUE /\ UNCHANGED <<orderRow, watchdog>>
  /\ UNCHANGED <<clock, termVars, task, sweep, mails, delivered, unsent, extra>>

-----------------------------------------------------------------------------
(* The subscription follows: activateSubscriptionsForOrder,                 *)
(* replayDeliveryForOrder, updateSubscriptionStatus                         *)

\* A replay of a delivered order: with new dates, a mail, or both, and with or without
\* asking for credentials.
BeginReplay(a) ==
  /\ orderRow.status = "delivered"
  /\ \E dates, resend, strict \in BOOLEAN :
       /\ dates \/ resend
       /\ Begin(a, "replay", [Idle EXCEPT !.pc = IF dates THEN "order" ELSE "resend",
                                          !.kind = "replay", !.resend = resend, !.strict = strict])
  /\ UNCHANGED <<clock, orderRow, termVars, watchdog, task, sweep, mailVars>>

\* What follows the subscription's part of a request.
After(a) == IF req[a].resend THEN Goto(a, "resend") ELSE Finish(a)

\* The delivery date is the order's updated_at.  An order that is not delivered any more
\* is not replayed, and activated as of now.
ReadOrder(a) ==
  /\ req[a].pc = "order"
  /\ IF orderRow.status = "delivered"
     THEN req' = [req EXCEPT ![a].pc = "row", ![a].at = orderRow.updated]
     ELSE IF req[a].kind = "replay" THEN After(a)
          ELSE req' = [req EXCEPT ![a].pc = "row", ![a].at = clock]
  /\ UNCHANGED <<clock, orderRow, termVars, watchdog, task, sweep, budget, mailVars>>

\* A delivery gives dates to whatever subscription it finds.
ReadRow_AnyStatus(a) ==
  /\ req[a].pc = "row"
  /\ IF req[a].strict /\ ~sub.credentials THEN After(a)
     ELSE Goto(a, IF sub.status = "pending" THEN "check" ELSE "dates")
  /\ UNCHANGED <<clock, orderRow, termVars, watchdog, task, sweep, budget, mailVars>>

\* Only a pending subscription is activated; a replay gives any other new dates.
ReadRow(a) ==
  /\ req[a].pc = "row"
  /\ IF req[a].strict /\ ~sub.credentials THEN After(a)
     ELSE IF sub.status = "pending" THEN Goto(a, "check")
     ELSE IF req[a].kind = "replay" THEN Goto(a, "dates") ELSE After(a)
  /\ UNCHANGED <<clock, orderRow, termVars, watchdog, task, sweep, budget, mailVars>>

\* The status is changed by hand.
BeginStatus(a) ==
  /\ \E target \in Statuses :
       Begin(a, "status", [Idle EXCEPT !.pc = "check", !.kind = "status", !.target = target])
  /\ UNCHANGED <<clock, orderRow, termVars, watchdog, task, sweep, mailVars>>

\* updateSubscriptionStatus reads the status and looks the transition up, ...
CheckTransition(a) ==
  /\ req[a].pc = "check"
  /\ IF <<sub.status, req[a].target>> \in Transitions
     THEN req' = [req EXCEPT ![a].pc = "set", ![a].previous = sub.status]
     ELSE After(a)
  /\ UNCHANGED <<clock, orderRow, termVars, watchdog, task, sweep, budget, mailVars>>

\* ... and then writes, whatever the row has become.
SetStatus(a) ==
  /\ req[a].pc = "set"
  /\ LET dated == req[a].kind # "status" IN
     /\ sub' = [sub EXCEPT !.status = req[a].target,
                           !.start = IF dated THEN req[a].at ELSE @,
                           !.end = IF dated THEN req[a].at + TermLength ELSE @]
     /\ since' = IF ~dated THEN since
                 ELSE IF sub.status = "pending"
                 THEN [since EXCEPT !.date = req[a].at, !.paid = 1, !.reset = FALSE]
                 ELSE [since EXCEPT !.reset = TRUE]
  /\ After(a)
  /\ UNCHANGED <<clock, orderRow, watchdog, task, sweep, budget, mailVars>>

\* The dates of a replay replace those of the row.
WriteDates(a) ==
  /\ req[a].pc = "dates"
  /\ sub' = [sub EXCEPT !.start = req[a].at, !.end = req[a].at + TermLength]
  /\ since' = [since EXCEPT !.reset = @ \/ req[a].kind = "replay"]
  /\ After(a)
  /\ UNCHANGED <<clock, orderRow, watchdog, task, sweep, budget, mailVars>>

\* A replay mails once more, and leaves the watchdog as it is.
Resend(a) ==
  /\ req[a].pc = "resend"
  /\ IF orderRow.status = "delivered"
     THEN /\ \E sent \in BOOLEAN : Mail(sent)
          /\ extra' = TRUE /\ Goto(a, "record")
     ELSE Finish(a) /\ UNCHANGED <<budget, mails, unsent, extra>>
  /\ UNCHANGED <<clock, orderRow, termVars, watchdog, task, sweep, delivered, dropped>>

RecordResend(a) ==
  /\ req[a].pc = "record"
  /\ Touch
  /\ Finish(a)
  /\ UNCHANGED <<clock, termVars, watchdog, task, sweep, budget, mailVars>>

-----------------------------------------------------------------------------
(* The watchdog sweep                                                       *)

\* The sweep finds an attempt due.
BeginSweep ==
  /\ sweep.pc = "idle"
  /\ orderRow.status = "delivered" /\ watchdog = "pending"
  /\ Use("sweep")
  /\ sweep' = [Asleep EXCEPT !.pc = "resend"]
  /\ UNCHANGED <<clock, orderRow, termVars, watchdog, task, req, mailVars>>

SweepMail ==
  /\ sweep.pc = "resend"
  /\ IF orderRow.status = "delivered"
     THEN \E sent \in BOOLEAN : Mail(sent) /\ sweep' = [sweep EXCEPT !.pc = "record", !.sent = sent]
     ELSE sweep' = [sweep EXCEPT !.pc = "settle"] /\ UNCHANGED <<budget, mails, unsent>>
  /\ UNCHANGED <<clock, orderRow, termVars, watchdog, task, req, delivered, extra, dropped>>

SweepRecord ==
  /\ sweep.pc = "record"
  /\ Touch
  /\ sweep' = [sweep EXCEPT !.pc = "settle"]
  /\ UNCHANGED <<clock, termVars, watchdog, task, req, budget, mailVars>>

\* The deadline has passed: a task is made, unless there is an open one.  An error is
\* taken for no task, also if it came after the insert.
SweepAsk ==
  /\ sweep.pc = "settle" /\ ~sweep.sent
  /\ \/ /\ task' = [task EXCEPT !.mail = TRUE]
        /\ sweep' = [sweep EXCEPT !.pc = "escalate", !.asked = delivered]
        /\ UNCHANGED budget
     \/ /\ Use("fault")
        /\ \E inserted \in BOOLEAN : task' = [task EXCEPT !.mail = @ \/ inserted]
        /\ sweep' = [sweep EXCEPT !.pc = "escalate"]
  /\ UNCHANGED <<clock, orderRow, termVars, watchdog, req, mailVars>>

\* The sweep gives up when the first resend fails.
Verdict_Done == "done"

\* A mail that was sent ends the matter; after the deadline it is the staff's, with a
\* task or without; until then there will be another attempt.
Verdict == IF sweep.sent THEN "done" ELSE IF sweep.pc = "escalate" THEN "escalated" ELSE "pending"

SweepSettle ==
  /\ sweep.pc \in {"settle", "escalate"}
  /\ watchdog' = Verdict
  /\ dropped' = (dropped \/ (sweep.pc = "escalate" /\ sweep.asked # delivered))
  /\ Touch
  /\ sweep' = Asleep
  /\ UNCHANGED <<clock, termVars, task, req, budget, mails, delivered, unsent, extra>>

\* An error ends the sweep, or the process dies.
SweepFails ==
  /\ sweep.pc # "idle"
  /\ Use("fault")
  /\ sweep' = Asleep
  /\ extra' = (extra \/ sweep.sent)
  /\ UNCHANGED <<clock, orderRow, termVars, watchdog, task, req, mails, delivered, unsent, dropped>>

-----------------------------------------------------------------------------
(* Around it                                                                *)

\* The order is given another status, after a delivery too.
Reopen ==
  /\ orderRow.status = "delivered"
  /\ Use("reopen")
  /\ orderRow' = [status |-> "in_process", updated |-> clock]
  /\ UNCHANGED <<clock, termVars, watchdog, task, req, sweep, mailVars>>

ChangeCredentials ==
  /\ Use("credentials")
  /\ sub' = [sub EXCEPT !.credentials = ~@]
  /\ UNCHANGED <<clock, orderRow, since, watchdog, task, req, sweep, mailVars>>

\* A renewal is paid (SubscriptionRenewal), and the staff is asked to fulfil it.
Renew ==
  /\ sub.status = "active"
  /\ Use("renew")
  /\ sub' = [sub EXCEPT !.end = Max({@, clock}) + TermLength]
  /\ since' = [since EXCEPT !.paid = IF @ = 0 THEN 0 ELSE @ + 1]
  /\ task' = [task EXCEPT !.renewal = TRUE]
  /\ UNCHANGED <<clock, orderRow, watchdog, req, sweep, mailVars>>

\* The renewal's task is completed, once, ...
CompleteRenewal(a) ==
  /\ req[a] = Idle
  /\ task.renewal /\ task' = [task EXCEPT !.renewal = FALSE]
  /\ req' = [req EXCEPT ![a] = [Idle EXCEPT !.pc = "fulfil", !.kind = "renewal", !.at = clock]]
  /\ UNCHANGED <<clock, orderRow, termVars, watchdog, sweep, budget, mailVars>>

\* ... and the term is counted from its completion.
FulfilRenewal(a) ==
  /\ req[a].pc = "fulfil"
  /\ IF req[a].at > sub.start
     THEN /\ sub' = [sub EXCEPT !.start = req[a].at, !.end = req[a].at + TermLength]
          /\ since' = [since EXCEPT !.reset = TRUE]
     ELSE UNCHANGED termVars
  /\ Finish(a)
  /\ UNCHANGED <<clock, orderRow, watchdog, task, sweep, budget, mailVars>>

\* The staff has seen to a mail that failed.
CompleteMailTask ==
  /\ task.mail /\ task' = [task EXCEPT !.mail = FALSE]
  /\ unsent' = FALSE
  /\ UNCHANGED <<clock, orderRow, termVars, watchdog, req, sweep, budget, mails, delivered,
                 extra, dropped>>

Expire ==
  /\ sub.status = "active" /\ sub.end < clock
  /\ sub' = [sub EXCEPT !.status = "expired"]
  /\ UNCHANGED <<clock, orderRow, since, watchdog, task, req, sweep, budget, mailVars>>

Tick ==
  /\ Use("tick")
  /\ clock' = clock + 1
  /\ UNCHANGED <<orderRow, termVars, watchdog, task, req, sweep, mailVars>>

DeliveryNext ==
  \/ \E a \in Staff :
       \/ BeginDelivery(a) \/ MarkDelivered(a) \/ SendMail(a) \/ RecordOutcome(a) \/ Schedule(a)
       \/ BeginReplay(a) \/ ReadOrder(a) \/ ReadRow(a) \/ WriteDates(a) \/ Resend(a) \/ RecordResend(a)
       \/ BeginStatus(a) \/ CheckTransition(a) \/ SetStatus(a)
       \/ CompleteRenewal(a) \/ FulfilRenewal(a)
  \/ BeginSweep \/ SweepMail \/ SweepRecord \/ SweepAsk \/ SweepSettle \/ SweepFails
  \/ Reopen \/ ChangeCredentials \/ Renew \/ CompleteMailTask \/ Expire \/ Tick

DeliverySpec == DeliveryInit /\ [][DeliveryNext]_deliveryVars

-----------------------------------------------------------------------------

DeliveryTypeOK ==
  /\ clock \in Nat
  /\ orderRow \in [status : {"in_process", "delivered"}, updated : Nat]
  /\ sub \in [status : Statuses, credentials : BOOLEAN, start : Nat, end : Nat]
  /\ watchdog \in {"none", "pending", "done", "escalated"}
  /\ task \in [renewal : BOOLEAN, mail : BOOLEAN]
  /\ req \in [Staff -> Requests]
  /\ sweep \in [pc : {"idle", "resend", "record", "settle", "escalate"}, sent : BOOLEAN, asked : Nat]
  /\ budget \in [Events -> Nat]

\* A subscription that a delivery has activated lasts a full term from its activation,
\* and one more for each renewal paid, whatever is delivered again, reopened or set by
\* hand meanwhile.  Only a replay, the completion of a renewal's task, or an activation
\* that another one overtook takes terms back, and none of them the first one.
TermIsGiven ==
  since.paid > 0 =>
    sub.end >= IF since.reset THEN since.first + TermLength ELSE since.date + TermLength * since.paid

\* A cancelled subscription comes to life again only by a request that had read it
\* before it was cancelled.
RevivalTakesOverlap ==
  [][(sub.status = "cancelled" /\ sub'.status # "cancelled")
       => \E a \in Staff : req[a].pc = "set" /\ req[a].previous # "cancelled"]_deliveryVars

\* The buyer is mailed at most once for each time the order became delivered, watchdog
\* included, unless the staff asked for more, two deliveries overlapped, or an error hid a
\* mail that was sent.
OneMailPerDelivery == ~extra => mails <= delivered

\* When no request is at work, a delivered order whose mail has not been sent is on the
\* watchdog's list, or the staff has an open task about it, unless the watchdog had done
\* its work for an earlier delivery, or an error or an overlap hid this one: the insert of
\* the task failed, or the sweep that wrote the status had made it for an earlier delivery.
FailedMailIsPursued ==
  (orderRow.status = "delivered" /\ unsent /\ ~dropped /\ \A a \in Staff : req[a] = Idle)
  => \/ watchdog = "pending"
     \/ watchdog = "escalated" /\ task.mail
     \/ watchdog = "done" /\ mails > 0
=============================================================================
