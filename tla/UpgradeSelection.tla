--------------------------- MODULE UpgradeSelection ---------------------------
(***************************************************************************)
(* How one subscription is to be provided: on a new account, or on the     *)
(* buyer's own.  The choice comes from the checkout, from the buyer        *)
(* afterwards, or after 72 hours from a sweep; whoever locks the selection *)
(* hands the subscription over to the staff by a task.  A plan that is     *)
(* upgraded by hand each month is acknowledged instead.                    *)
(*                                                                         *)
(* Each handler is a chain of single statements whose errors are           *)
(* swallowed.                                                              *)
(***************************************************************************)
EXTENDS Naturals

CONSTANTS
  Requests,            \* requests of the buyer that may be at work at the same time
  Faults,              \* bound: statements that fail, and crashes
  Submissions          \* bound: requests of the buyer

UpgradeSelectionAssumption ==
  /\ {"fulfilment", "sweep", "staff"} \cap Requests = {}
  /\ Faults \in Nat /\ Submissions \in Nat

VARIABLES
  opts,      \* the plan's upgrade options: new, own, mmu
  item,      \* order_item_upgrade_selections: type, and ack (acknowledged at the checkout)
  sub,       \* the subscription's status
  sel,       \* subscription_upgrade_selections: exists, type, ack, locked
  prov,      \* open credential_provision tasks
  pend,      \* open selection_pending tasks
  aged,      \* 72 hours have passed
  req,       \* req[p]: what process p is at, and what it has read
  left,      \* what is left of the bounds
  promised,  \* the choice the buyer made at the checkout or was answered 200 for (history)
  delivered, \* the staff has completed the provision tasks (history)
  late,      \* a selection_pending task was made for a locked selection (history)
  broken,    \* a statement failed, or a process died (history)
  omitted    \* a task was left out: its statement failed, or the fulfilment died before it
             \* (history)

rowVars  == <<opts, item, sub, sel>>
taskVars == <<prov, pend>>
histVars == <<promised, delivered, late, broken, omitted>>
vars     == <<rowVars, taskVars, aged, req, left, histVars>>

Processes == Requests \cup {"fulfilment", "sweep", "staff"}
Types     == {"none", "new", "own"}
Idle      == [pc |-> "idle", type |-> "none", saw |-> 0, pending |-> FALSE]
Steps     == {"idle", "ensure", "pend", "pended", "provision", "provisioned", "copy", "write",
              "item", "complete", "ack", "issue", "raise", "finish"}

Choice == opts.new \/ opts.own  \* hasUpgradeOptions
Allowed == {t \in {"new", "own"} : IF t = "new" THEN opts.new ELSE opts.own}

\* normalizeUpgradeOptions knows no plan without any option; the checkout takes whatever
\* it is sent for the item.
Init ==
  /\ opts \in [new : BOOLEAN, own : BOOLEAN, mmu : BOOLEAN] /\ (Choice \/ opts.mmu)
  /\ item \in [type : Types, ack : BOOLEAN]
  /\ sub = "none"
  /\ sel = [exists |-> FALSE, type |-> "none", ack |-> FALSE, locked |-> FALSE]
  /\ prov = 0 /\ pend = 0
  /\ aged = FALSE
  /\ req = [p \in Processes |-> Idle]
  /\ left = [fault |-> Faults, submission |-> Submissions]
  /\ promised = IF item.type \in Allowed THEN item.type ELSE "none"
  /\ delivered = FALSE /\ late = FALSE /\ broken = FALSE /\ omitted = FALSE

At(p, pc)   == req[p].pc = pc
Goto(p, pc) == req' = [req EXCEPT ![p] = IF pc = "idle" THEN Idle ELSE [@ EXCEPT !.pc = pc]]

-----------------------------------------------------------------------------
(* What the handlers share                                                  *)

\* submitSelection, without its condition.
Writable_Any == sel.exists

\* submitSelection writes an unlocked selection only.
Writable == sel.exists /\ ~sel.locked

Submitted(type, ack) ==
  sel' = IF Writable THEN [sel EXCEPT !.type = type, !.ack = ack, !.locked = TRUE] ELSE sel

\* acknowledgeManualMonthly locks the selection as well.
Acknowledged == sel' = IF sel.exists THEN [sel EXCEPT !.ack = TRUE, !.locked = TRUE] ELSE sel

\* createCredentialProvisionTask: one statement, which looks for an open task as of its
\* start, ...
LookForProvision(p) ==
  /\ At(p, "provision")
  /\ req' = [req EXCEPT ![p].pc = "provisioned", ![p].saw = prov]
  /\ UNCHANGED <<rowVars, taskVars, aged, left, histVars>>

AfterProvision(p) ==
  IF p = "fulfilment" THEN "copy" ELSE IF req[p].pending THEN "idle" ELSE "complete"

\* ... and inserts one unless it saw one.
Provision(p) ==
  /\ At(p, "provisioned")
  /\ prov' = IF req[p].saw = 0 THEN prov + 1 ELSE prov
  /\ Goto(p, AfterProvision(p))
  /\ UNCHANGED <<rowVars, pend, aged, left, histVars>>

\* completeSelectionPendingTasks.
CompletePending(p) ==
  /\ At(p, "complete")
  /\ pend' = 0
  /\ Goto(p, "idle")
  /\ UNCHANGED <<rowVars, prov, aged, left, histVars>>

-----------------------------------------------------------------------------
(* The fulfilment of the order: createSubscription, and what                *)
(* createSubscriptionsForOrder does after it                                *)

CreateSubscription ==
  /\ sub = "none"
  /\ sub' = "pending"
  /\ Goto("fulfilment", "ensure")
  /\ UNCHANGED <<opts, item, sel, taskVars, aged, left, histVars>>

\* A choice, or an acknowledgement, counts as a selection that was provided.
AfterEnsure ==
  IF ~Choice THEN "copy"
  ELSE IF item.type = "none" /\ ~item.ack THEN "pend" ELSE "provision"

EnsureSelection ==
  /\ At("fulfilment", "ensure")
  /\ sel' = [sel EXCEPT !.exists = TRUE]
  /\ Goto("fulfilment", AfterEnsure)
  /\ UNCHANGED <<opts, item, sub, taskVars, aged, left, histVars>>

\* createSelectionPendingTask, one statement as well.
LookForPending ==
  /\ At("fulfilment", "pend")
  /\ req' = [req EXCEPT !["fulfilment"].pc = "pended", !["fulfilment"].saw = pend]
  /\ UNCHANGED <<rowVars, taskVars, aged, left, histVars>>

PendSelection ==
  /\ At("fulfilment", "pended")
  /\ pend' = IF req["fulfilment"].saw = 0 THEN pend + 1 ELSE pend
  /\ late' = (late \/ sel.locked)
  /\ Goto("fulfilment", "copy")
  /\ UNCHANGED <<rowVars, prov, aged, left, promised, delivered, broken, omitted>>

\* The choice stays with the order's item.
CopySelection_Acknowledgement ==
  /\ At("fulfilment", "copy")
  /\ IF item.ack THEN Acknowledged ELSE UNCHANGED sel
  /\ Goto("fulfilment", "idle")
  /\ UNCHANGED <<opts, item, sub, taskVars, aged, left, histVars>>

\* The item's choice becomes the subscription's; without one its acknowledgement does.
CopySelection ==
  /\ At("fulfilment", "copy")
  /\ IF item.type # "none" THEN Submitted(item.type, item.ack)
     ELSE IF item.ack THEN Acknowledged ELSE UNCHANGED sel
  /\ Goto("fulfilment", "idle")
  /\ UNCHANGED <<opts, item, sub, taskVars, aged, left, histVars>>

-----------------------------------------------------------------------------
(* The buyer                                                                *)

BeginRequest(p) ==
  /\ req[p] = Idle
  /\ left.submission > 0 /\ left' = [left EXCEPT !.submission = @ - 1]

\* POST upgrade-selection looks whether the selection is locked, ...
BeginSubmit(p) ==
  /\ BeginRequest(p)
  /\ Writable
  /\ \E type \in Allowed : req' = [req EXCEPT ![p] = [Idle EXCEPT !.pc = "write", !.type = type]]
  /\ UNCHANGED <<rowVars, taskVars, aged, histVars>>

\* The staff is not told of what the sweep has chosen.
AfterSubmit_Quiet(p) == IF p = "sweep" THEN "complete" ELSE "item"

\* The order's item is the buyer's.
AfterSubmit(p) == IF p = "sweep" THEN "provision" ELSE "item"

\* ... and submitSelection looks again; who comes too late is answered 409.  The sweep
\* submits in the same way.
Submit(p) ==
  /\ At(p, "write")
  /\ Submitted(req[p].type, opts.mmu)
  /\ promised' = IF Writable /\ p # "sweep" THEN req[p].type ELSE promised
  /\ Goto(p, IF Writable THEN AfterSubmit(p) ELSE "idle")
  /\ UNCHANGED <<opts, item, sub, taskVars, aged, left, delivered, late, broken, omitted>>

\* upsertSelection: the order's item is told.
TellItem(p) ==
  /\ At(p, "item")
  /\ item' = [item EXCEPT !.type = req[p].type, !.ack = @ \/ opts.mmu]
  /\ Goto(p, "provision")
  /\ UNCHANGED <<opts, sub, sel, taskVars, aged, left, histVars>>

\* POST manual-monthly-acknowledge, for a plan without a choice.
BeginAcknowledge(p) ==
  /\ BeginRequest(p)
  /\ sel.exists /\ ~Choice
  /\ LET pending == sub = "pending"
         next == IF sel.ack /\ sel.locked THEN IF pending THEN "provision" ELSE "idle" ELSE "ack"
     IN req' = [req EXCEPT ![p] = IF next = "idle" THEN Idle
                                  ELSE [Idle EXCEPT !.pc = next, !.pending = pending]]
  /\ UNCHANGED <<rowVars, taskVars, aged, histVars>>

Acknowledge(p) ==
  /\ At(p, "ack")
  /\ Acknowledged
  /\ Goto(p, IF req[p].pending THEN "provision" ELSE "idle")
  /\ UNCHANGED <<opts, item, sub, taskVars, aged, left, histVars>>

-----------------------------------------------------------------------------
(* runUpgradeSelectionReminderSweep                                         *)

\* The time comes long after the order was fulfilled.
Age ==
  /\ ~aged /\ sub # "none" /\ At("fulfilment", "idle")
  /\ aged' = TRUE
  /\ UNCHANGED <<rowVars, taskVars, req, left, histVars>>

BeginSweep ==
  /\ req["sweep"] = Idle
  /\ aged /\ sub = "pending" /\ Writable /\ Choice
  /\ req' = [req EXCEPT !["sweep"] = IF opts.new THEN [Idle EXCEPT !.pc = "write", !.type = "new"]
                                     ELSE [Idle EXCEPT !.pc = "issue"]]
  /\ UNCHANGED <<rowVars, taskVars, aged, left, histVars>>

\* ensureSelectionIssueTask marks the open tasks; only if there is none ...
MarkIssue ==
  /\ At("sweep", "issue")
  /\ Goto("sweep", IF pend > 0 THEN "idle" ELSE "raise")
  /\ UNCHANGED <<rowVars, taskVars, aged, left, histVars>>

\* ... it makes one.
RaiseIssue ==
  /\ At("sweep", "raise")
  /\ pend' = pend + 1
  /\ late' = (late \/ sel.locked)
  /\ Goto("sweep", "idle")
  /\ UNCHANGED <<rowVars, prov, aged, left, promised, delivered, broken, omitted>>

-----------------------------------------------------------------------------
(* Around it                                                                *)

\* The order is marked delivered: the subscription is activated if it has credentials,
\* and the provision tasks are completed next, whether it was or not.
Deliver ==
  /\ req["staff"] = Idle
  /\ sub = "pending"
  /\ sub' \in {"pending", "active"}
  /\ Goto("staff", "finish")
  /\ UNCHANGED <<opts, item, sel, taskVars, aged, left, histVars>>

CompleteProvision ==
  /\ At("staff", "finish")
  /\ prov' = 0 /\ delivered' = TRUE
  /\ Goto("staff", "idle")
  /\ UNCHANGED <<rowVars, pend, aged, left, promised, late, broken, omitted>>

CancelSubscription ==
  /\ sub \in {"pending", "active"}
  /\ sub' = "cancelled"
  /\ UNCHANGED <<opts, item, sel, taskVars, aged, req, left, histVars>>

\* A statement fails: its error is swallowed, and what follows is done without it; or it
\* reads as a locked selection; or the process dies.
Fail(p) ==
  /\ req[p] # Idle
  /\ left.fault > 0 /\ left' = [left EXCEPT !.fault = @ - 1]
  /\ LET making == req[p].pc \in {"pend", "pended", "provision", "provisioned"} IN
       \/ Goto(p, "idle") /\ omitted' = (omitted \/ (p = "fulfilment" /\ making))
       \/ /\ \/ At(p, "ensure") /\ Goto(p, AfterEnsure)
             \/ At(p, "item") /\ Goto(p, "provision")
          /\ UNCHANGED omitted
       \/ /\ making /\ omitted' = TRUE
          /\ Goto(p, IF req[p].pc \in {"pend", "pended"} THEN "copy" ELSE AfterProvision(p))
  /\ broken' = TRUE
  /\ UNCHANGED <<rowVars, taskVars, aged, promised, delivered, late>>

Next ==
  \/ CreateSubscription \/ EnsureSelection \/ LookForPending \/ PendSelection \/ CopySelection
  \/ \E p \in Requests :
       BeginSubmit(p) \/ TellItem(p) \/ BeginAcknowledge(p) \/ Acknowledge(p)
  \/ \E p \in Requests \cup {"sweep"} : Submit(p) \/ CompletePending(p)
  \/ \E p \in Processes \ {"staff"} : LookForProvision(p) \/ Provision(p)
  \/ Age \/ BeginSweep \/ MarkIssue \/ RaiseIssue
  \/ Deliver \/ CompleteProvision \/ CancelSubscription
  \/ \E p \in Processes : Fail(p)

Spec == Init /\ [][Next]_vars

-----------------------------------------------------------------------------

TypeOK ==
  /\ opts \in [new : BOOLEAN, own : BOOLEAN, mmu : BOOLEAN]
  /\ item \in [type : Types, ack : BOOLEAN]
  /\ sub \in {"none", "pending", "active", "cancelled"}
  /\ sel \in [exists : BOOLEAN, type : Types, ack : BOOLEAN, locked : BOOLEAN]
  /\ prov \in Nat /\ pend \in Nat /\ aged \in BOOLEAN
  /\ req \in [Processes -> [pc : Steps, type : Types, saw : Nat, pending : BOOLEAN]]
  /\ left \in [fault : Nat, submission : Nat]
  /\ promised \in Types
  /\ delivered \in BOOLEAN /\ late \in BOOLEAN /\ broken \in BOOLEAN /\ omitted \in BOOLEAN

\* A selection that is locked stays locked, and what was chosen stays chosen, whether it
\* came from the checkout, the buyer or the sweep, and however they overlap.
ChoiceIsFinal == [][sel.locked => (sel'.locked /\ sel'.type = sel.type)]_vars

\* What the buyer chose at the checkout, or was told to have chosen afterwards, is what
\* the subscription is provided by, and nothing the sweep decides replaces it, unless a
\* statement failed or a process died.
AcceptedChoiceIsKept == (sel.locked /\ promised # "none" /\ ~broken) => sel.type = promised

\* When no handler is at work, a pending subscription whose selection is locked has been
\* handed over to the staff: there is a provision task, or there was one and the staff
\* completed it.  A handler that died between its lock and its task leaves the task that
\* asks for the selection open instead, so the subscription is still on the staff's list;
\* it is off it only when the error of a task's statement was swallowed.  Without a
\* failure no task asks for a locked selection, unless it was made after the lock.  A plan
\* without a choice has no task that asks: acknowledged at the checkout it has none at all.
LockedIsHandedOver ==
  (sel.locked /\ sub = "pending" /\ \A p \in Processes : req[p] = Idle) =>
    /\ \/ prov > 0 \/ delivered
       \/ Choice /\ broken /\ (pend > 0 \/ omitted)
       \/ ~Choice /\ (broken \/ item.ack \/ item.type # "none")
    /\ pend > 0 => late \/ broken
=============================================================================
