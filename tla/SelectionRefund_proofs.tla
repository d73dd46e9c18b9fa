----------------------- MODULE SelectionRefund_proofs -----------------------
(***************************************************************************)
(* What holds of a subscription's selection and of the refund workflow for *)
(* every number of requests, submissions, refunds and failures.            *)
(*                                                                         *)
(* A selection: InTheirTime, OnlyChoices and PromiseIsTheItems say who is  *)
(* where and what is promised; HandoverInv that somebody still hands a     *)
(* locked selection over; TaskIsMade what a failure leaves of that.        *)
(*                                                                         *)
(* A refund: RefundInv.  Each debit covers what was given for it and what  *)
(* a request may still give (TakenFirst), one request at most is about to  *)
(* debit unless an overlap is on record (DebitsAlone), and of a decision   *)
(* of either kind that is let in alone the other kind sees nothing         *)
(* (DecidedOnce).                                                          *)
(***************************************************************************)
EXTENDS UpgradeSelection, Refund, FiniteSetTheorems, TLAPS

\* The steps of the fulfilment up to the copy of the item's choice.
Fulfilling == {"ensure", "pend", "pended", "provision", "provisioned", "copy"}

\* Who is where: the fulfilment comes with the subscription, the sweep long after it, and a
\* request finds a selection.
InTheirTime ==
  /\ req["fulfilment"].pc \in Fulfilling \cup {"idle"}
  /\ sub = "none" => (req["fulfilment"].pc = "idle" /\ ~sel.exists)
  /\ aged => (sub # "none" /\ req["fulfilment"].pc = "idle")
  /\ req["sweep"].pc # "idle" => aged
  /\ sel.locked => sel.exists
  /\ \A p \in Requests : req[p].pc = "item" => sel.locked
  /\ (~broken /\ req["fulfilment"].pc \in Fulfilling \ {"ensure"}) => sel.exists

\* What is promised is a choice, and what is about to be written as well.
OnlyChoices ==
  /\ promised \in Allowed \cup {"none"}
  /\ \A p \in Requests : /\ req[p].pc = "write" => req[p].type \in Allowed
                         /\ req[p].pc = "ack" => ~Choice

\* Until the selection is locked, the promise is the item's choice and the fulfilment has
\* yet to copy it.
PromiseIsTheItems ==
  (~broken /\ promised # "none" /\ ~sel.locked) =>
    /\ promised = item.type
    /\ sub = "none" \/ req["fulfilment"].pc \in Fulfilling

SelectionInv == TypeOK /\ InTheirTime /\ OnlyChoices /\ PromiseIsTheItems /\ AcceptedChoiceIsKept

\* A provision task is open, or was and the staff has completed it.
HandedOver == prov > 0 \/ delivered

\* No task is made for a plan without a choice that was acknowledged at the checkout.
NeedsNoTask == ~Choice /\ (item.ack \/ item.type # "none")

\* The item has neither a choice nor an acknowledgement.
NothingChosen == item.type = "none" /\ ~item.ack

\* Those that complete the tasks which ask for the selection.
Deciders == Requests \cup {"sweep"}

\* What a process has read is so, or has been since.
WhatTheyRead ==
  /\ \A p \in Processes : (req[p].pc = "provisioned" /\ req[p].saw > 0) => HandedOver
  /\ \A p \in Deciders : /\ req[p].pc = "write" => ~req[p].pending
                         /\ req[p].pc \in {"write", "item"} => req[p].type \in Allowed
  /\ \A p \in Requests : (req[p].pc = "ack" /\ ~req[p].pending) => sub \notin {"none", "pending"}
  /\ req["fulfilment"].pc \in {"pend", "pended"} => Choice
  /\ req["sweep"].pc \in {"issue", "raise"} => Choice

\* No task asks for the selection of a plan without a choice, nor before the fulfilment has
\* come to it.
AskedInTime ==
  /\ ~Choice => pend = 0
  /\ (sub = "none" \/ req["fulfilment"].pc \in Fulfilling \ {"copy"}) => pend = 0

\* The fulfilment comes to the copy of a choice with a task for the staff, and with none that
\* asks for the selection.
CopyIsPrepared ==
  (~broken /\ ~sel.locked /\ ~NothingChosen) =>
    /\ req["fulfilment"].pc \notin {"pend", "pended"}
    /\ req["fulfilment"].pc = "copy" => (pend = 0 /\ (Choice => HandedOver))

\* Whoever locks the selection is on the way to hand the subscription over ...
SomeoneHandsOver ==
  (~broken /\ sel.locked /\ sub = "pending") =>
    \/ HandedOver \/ NeedsNoTask
    \/ \E p \in Processes : req[p].pc \in {"item", "provision", "provisioned"}

\* ... and to complete the tasks that still ask for it.
SomeoneCompletes ==
  (~broken /\ sel.locked /\ pend > 0) =>
    \/ late
    \/ \E p \in Deciders : /\ req[p].pc \in {"item", "provision", "provisioned", "complete"}
                           /\ ~req[p].pending

HandoverInv == WhatTheyRead /\ AskedInTime /\ CopyIsPrepared /\ SomeoneHandsOver /\ SomeoneCompletes

\* Whatever failed but for a task that was left out: a choice has its provision task, or one
\* that asks for it, or the fulfilment is about to make one.
TaskIsMade ==
  /\ req["fulfilment"].pc = "ensure" => ~sel.exists
  /\ req["fulfilment"].pc = "pended" => req["fulfilment"].saw = 0
  /\ (Choice /\ ~omitted /\ sel.exists) =>
       \/ HandedOver \/ pend > 0
       \/ req["fulfilment"].pc \in {"pend", "pended", "provision", "provisioned"}
  /\ \A p \in Deciders : (req[p].pc = "complete" /\ ~omitted) => HandedOver

-----------------------------------------------------------------------------
States == [pc : Steps, type : Types, saw : Nat, pending : BOOLEAN]

\* The idle process, and one that moves on.
LEMMA IdleType == Idle \in States
BY DEF Idle, States, Steps, Types

LEMMA GotoType ==
  ASSUME TypeOK, NEW p \in Processes, NEW pc \in Steps, Goto(p, pc)
  PROVE  /\ req' \in [Processes -> States]
         /\ req'[p].pc = pc
         /\ \A q \in Processes : q # p => req'[q] = req[q]
<1>1. req \in [Processes -> States]
  BY DEF TypeOK, States
<1>2. CASE pc = "idle"
  BY <1>1, <1>2, IdleType DEF Goto, Idle
<1>3. CASE pc # "idle"
  <2>1. [req[p] EXCEPT !.pc = pc] \in States /\ [req[p] EXCEPT !.pc = pc].pc = pc
    BY <1>1 DEF States
  <2>2. req' = [req EXCEPT ![p] = [req[p] EXCEPT !.pc = pc]]
    BY <1>3 DEF Goto
  <2>3. QED
    BY <1>1, <2>1, <2>2
<1>4. QED
  BY <1>2, <1>3

\* The initial state satisfies the invariant.
LEMMA InitSelection ==
  ASSUME UpgradeSelectionAssumption
  PROVE  Init => SelectionInv
<1> SUFFICES ASSUME Init PROVE SelectionInv
  OBVIOUS
<1>1. TypeOK
  <2>1. req \in [Processes -> States]
    BY IdleType DEF Init
  <2>2. left \in [fault : Nat, submission : Nat]
    BY DEF Init, UpgradeSelectionAssumption
  <2>3. sel \in [exists : BOOLEAN, type : Types, ack : BOOLEAN, locked : BOOLEAN]
    BY DEF Init, Types
  <2>4. aged \in BOOLEAN /\ delivered \in BOOLEAN /\ late \in BOOLEAN /\ broken \in BOOLEAN
    BY Zenon DEF Init
  <2>5. promised \in Types /\ prov \in Nat /\ pend \in Nat
    BY DEF Init, Types
  <2>6. QED
    BY <2>1, <2>2, <2>3, <2>4, <2>5 DEF Init, TypeOK, States
<1>2. \A p \in Processes : req[p] = Idle /\ req[p].pc = "idle"
  BY DEF Init, Idle
<1>3. InTheirTime
  BY <1>2 DEF Init, InTheirTime, Processes, Fulfilling
<1>4. OnlyChoices
  BY <1>2 DEF Init, OnlyChoices, Processes, Allowed
<1>5. PromiseIsTheItems /\ AcceptedChoiceIsKept
  BY DEF Init, PromiseIsTheItems, AcceptedChoiceIsKept
<1>6. QED
  BY <1>1, <1>3, <1>4, <1>5 DEF SelectionInv

\* submitSelection and acknowledgeManualMonthly keep the selection's type.
LEMMA SelType ==
  ASSUME TypeOK, NEW type \in Types, NEW ack \in BOOLEAN, Submitted(type, ack) \/ Acknowledged
  PROVE  sel' \in [exists : BOOLEAN, type : Types, ack : BOOLEAN, locked : BOOLEAN]
BY DEF TypeOK, Submitted, Acknowledged, Writable

\* What follows the steps that several handlers share is a step.
LEMMA AfterType ==
  ASSUME NEW p \in Processes
  PROVE  AfterProvision(p) \in Steps /\ AfterEnsure \in Steps /\ AfterSubmit(p) \in Steps
<1>1. AfterProvision(p) \in Steps
  BY DEF AfterProvision, Steps
<1>2. AfterEnsure \in Steps
  BY DEF AfterEnsure, Steps
<1>3. AfterSubmit(p) \in Steps
  BY DEF AfterSubmit, Steps
<1>4. QED
  BY <1>1, <1>2, <1>3

\* A process that looks for an open task remembers how many it saw.
LEMMA LooksType ==
  ASSUME TypeOK, NEW p \in Processes, NEW pc \in Steps, NEW n \in Nat,
         req' = [req EXCEPT ![p].pc = pc, ![p].saw = n]
  PROVE  /\ req' \in [Processes -> States]
         /\ req'[p].pc = pc
         /\ \A q \in Processes : q # p => req'[q] = req[q]
<1> DEFINE r == [req[p] EXCEPT !.pc = pc, !.saw = n]
<1>1. r \in States /\ r.pc = pc
  BY DEF TypeOK, States
<1>2. req' = [req EXCEPT ![p] = r]
  BY DEF TypeOK
<1> HIDE DEF r
<1>3. QED
  BY <1>1, <1>2 DEF TypeOK, States

\* Type correctness: every step keeps each variable's type.
LEMMA TypeStep ==
  ASSUME UpgradeSelectionAssumption, TypeOK, [Next]_vars
  PROVE  TypeOK'
<1> USE DEF TypeOK, States, rowVars, taskVars, histVars
<1>1. ASSUME NEW p \in Processes, LookForProvision(p) PROVE TypeOK'
  <2>1. req' \in [Processes -> States]
    BY <1>1, LooksType DEF LookForProvision, Steps
  <2>2. QED
    BY <1>1, <2>1 DEF LookForProvision
<1>2. ASSUME NEW p \in Processes, Provision(p) PROVE TypeOK'
  <2>1. AfterProvision(p) \in Steps
    BY AfterType
  <2>2. req' \in [Processes -> States]
    BY <1>2, <2>1, GotoType DEF Provision
  <2>3. prov' \in Nat
    BY <1>2 DEF Provision
  <2>4. QED
    BY <1>2, <2>2, <2>3 DEF Provision
<1>3. ASSUME NEW p \in Processes, CompletePending(p) PROVE TypeOK'
  BY <1>3, GotoType DEF CompletePending, Steps
<1>4. CASE CreateSubscription
  BY <1>4, GotoType DEF CreateSubscription, Steps, Processes
<1>5. CASE EnsureSelection
  BY <1>5, AfterType, GotoType, ZenonT(30) DEF EnsureSelection, Processes
<1>6. CASE LookForPending
  <2>1. "fulfilment" \in Processes
    BY DEF Processes
  <2>2. req' \in [Processes -> States]
    BY <1>6, <2>1, LooksType DEF LookForPending, Steps
  <2>3. QED
    BY <1>6, <2>2 DEF LookForPending
<1>7. CASE PendSelection
  <2>1. late' \in BOOLEAN
    BY <1>7, Zenon DEF PendSelection
  <2>2. req' \in [Processes -> States]
    BY <1>7, GotoType DEF PendSelection, Steps, Processes
  <2>3. QED
    BY <1>7, <2>1, <2>2 DEF PendSelection
<1>8. CASE CopySelection
  <2>1. req' \in [Processes -> States]
    BY <1>8, GotoType DEF CopySelection, Steps, Processes
  <2>2. sel' \in [exists : BOOLEAN, type : Types, ack : BOOLEAN, locked : BOOLEAN]
    BY <1>8, SelType DEF CopySelection
  <2>3. QED
    BY <1>8, <2>1, <2>2 DEF CopySelection
<1>9. ASSUME NEW p \in Requests, BeginSubmit(p) \/ BeginAcknowledge(p) PROVE TypeOK'
  <2>1. left' \in [fault : Nat, submission : Nat]
    <3>1. BeginRequest(p)
      BY <1>9 DEF BeginSubmit, BeginAcknowledge
    <3>2. QED
      BY <3>1 DEF BeginRequest
  <2>2. CASE BeginSubmit(p)
    <3>1. PICK type \in Allowed : req' = [req EXCEPT ![p] = [Idle EXCEPT !.pc = "write", !.type = type]]
      BY <2>2 DEF BeginSubmit
    <3>2. [Idle EXCEPT !.pc = "write", !.type = type] \in States
      BY DEF Idle, Allowed, Types, Steps
    <3>3. QED
      BY <2>1, <2>2, <3>1, <3>2 DEF BeginSubmit, Processes
  <2>3. CASE BeginAcknowledge(p)
    <3>1. PICK next \in {"provision", "ack", "idle"} :
             req' = [req EXCEPT ![p] = IF next = "idle" THEN Idle
                                       ELSE [Idle EXCEPT !.pc = next, !.pending = (sub = "pending")]]
      BY <2>3 DEF BeginAcknowledge
    <3>2. (sub = "pending") \in BOOLEAN
      BY Zenon
    <3>3. [Idle EXCEPT !.pc = next, !.pending = (sub = "pending")] \in States
      BY <3>2 DEF Idle, Types, Steps
    <3>4. req' \in [Processes -> States]
      BY <3>1, <3>3, IdleType DEF Processes
    <3>5. QED
      BY <2>1, <2>3, <3>4 DEF BeginAcknowledge
  <2>4. QED
    BY <1>9, <2>2, <2>3
<1>10. ASSUME NEW p \in Processes, Submit(p) PROVE TypeOK'
  <2>1. req' \in [Processes -> States]
    BY <1>10, AfterType, GotoType DEF Submit, Steps
  <2>2. req[p].type \in Types
    OBVIOUS
  <2>3. sel' \in [exists : BOOLEAN, type : Types, ack : BOOLEAN, locked : BOOLEAN]
    BY <1>10, <2>2, SelType DEF Submit
  <2>4. QED
    BY <1>10, <2>1, <2>2, <2>3 DEF Submit
<1>11. ASSUME NEW p \in Requests, TellItem(p) PROVE TypeOK'
  <2>1. p \in Processes
    BY DEF Processes
  <2>2. req' \in [Processes -> States] /\ req[p].type \in Types
    BY <1>11, <2>1, GotoType DEF TellItem, Steps
  <2>3. item' \in [type : Types, ack : BOOLEAN]
    BY <1>11, <2>2 DEF TellItem
  <2>4. QED
    BY <1>11, <2>2, <2>3 DEF TellItem
<1>12. ASSUME NEW p \in Requests, Acknowledge(p) PROVE TypeOK'
  <2>1. p \in Processes /\ (IF req[p].pending THEN "provision" ELSE "idle") \in Steps
    BY DEF Processes, Steps
  <2>2. req' \in [Processes -> States]
    BY <1>12, <2>1, GotoType DEF Acknowledge
  <2>3. sel' \in [exists : BOOLEAN, type : Types, ack : BOOLEAN, locked : BOOLEAN]
    BY <1>12, SelType DEF Acknowledge, Types
  <2>4. QED
    BY <1>12, <2>2, <2>3 DEF Acknowledge
<1>13. CASE Age
  BY <1>13 DEF Age
<1>14. CASE BeginSweep
  <2>1. [Idle EXCEPT !.pc = "write", !.type = "new"] \in States /\ [Idle EXCEPT !.pc = "issue"] \in States
    BY DEF Idle, Types, Steps, States
  <2>2. PICK r \in States : req' = [req EXCEPT !["sweep"] = r]
    BY <1>14, <2>1 DEF BeginSweep
  <2>3. req' \in [Processes -> States]
    BY <2>2
  <2>4. QED
    BY <1>14, <2>3 DEF BeginSweep
<1>15. CASE MarkIssue
  BY <1>15, GotoType DEF MarkIssue, Steps, Processes
<1>16. CASE RaiseIssue
  <2>1. late' \in BOOLEAN
    BY <1>16, Zenon DEF RaiseIssue
  <2>2. req' \in [Processes -> States]
    BY <1>16, GotoType DEF RaiseIssue, Steps, Processes
  <2>3. QED
    BY <1>16, <2>1, <2>2 DEF RaiseIssue
<1>17. CASE Deliver \/ CompleteProvision
  <2>1. "staff" \in Processes /\ {"idle", "finish"} \subseteq Steps
    BY DEF Processes, Steps
  <2>2. req' \in [Processes -> States]
    BY <1>17, <2>1, GotoType DEF Deliver, CompleteProvision
  <2>3. CASE Deliver
    BY <2>2, <2>3 DEF Deliver
  <2>4. CASE CompleteProvision
    BY <2>2, <2>4 DEF CompleteProvision
  <2>5. QED
    BY <1>17, <2>3, <2>4
<1>18. CASE CancelSubscription
  BY <1>18 DEF CancelSubscription
<1>19. ASSUME NEW p \in Processes, Fail(p) PROVE TypeOK'
  <2>1. \E pc \in Steps : Goto(p, pc)
    BY <1>19, AfterType DEF Fail, Steps
  <2>2. req' \in [Processes -> States]
    BY <2>1, GotoType
  <2>3. left' \in [fault : Nat, submission : Nat]
    BY <1>19 DEF Fail
  <2>4. omitted' \in BOOLEAN /\ broken' \in BOOLEAN
    BY <1>19, Zenon DEF Fail
  <2>5. UNCHANGED <<rowVars, taskVars, aged, promised, delivered, late>>
    BY <1>19 DEF Fail
  <2>6. QED
    BY <2>2, <2>3, <2>4, <2>5
<1>20. CASE UNCHANGED vars
  BY <1>20 DEF vars
<1>21. QED
  BY <1>1, <1>2, <1>3, <1>4, <1>5, <1>6, <1>7, <1>8, <1>9, <1>10, <1>11, <1>12, <1>13, <1>14,
     <1>15, <1>16, <1>17, <1>18, <1>19, <1>20 DEF Next, Processes

-----------------------------------------------------------------------------
\* A locked selection keeps its lock and its type, in every step.
LEMMA LockStep ==
  ASSUME TypeOK, [Next]_vars
  PROVE  /\ sel.locked => (sel'.locked /\ sel'.type = sel.type)
         /\ sel.exists => sel'.exists
<1> USE DEF TypeOK, rowVars, taskVars, histVars
<1>1. ASSUME NEW type, NEW ack, Submitted(type, ack) \/ Acknowledged
      PROVE  /\ sel.locked => (sel'.locked /\ sel'.type = sel.type)
             /\ sel.exists => sel'.exists
  BY <1>1 DEF Submitted, Acknowledged, Writable
<1>2. CASE CopySelection
  BY <1>1, <1>2 DEF CopySelection
<1>3. ASSUME NEW p \in Processes, Submit(p) \/ Acknowledge(p)
      PROVE  /\ sel.locked => (sel'.locked /\ sel'.type = sel.type)
             /\ sel.exists => sel'.exists
  BY <1>1, <1>3 DEF Submit, Acknowledge
<1>4. CASE EnsureSelection
  BY <1>4 DEF EnsureSelection
<1>5. CASE UNCHANGED sel
  BY <1>5
<1>6. QED
  <2>1. CASE UNCHANGED vars
    BY <1>5, <2>1 DEF vars
  <2>2. CASE \E p \in Requests : BeginSubmit(p) \/ TellItem(p) \/ BeginAcknowledge(p)
    BY <1>5, <2>2 DEF BeginSubmit, TellItem, BeginAcknowledge
  <2>3. CASE \E p \in Processes : CompletePending(p) \/ LookForProvision(p) \/ Provision(p) \/ Fail(p)
    BY <1>5, <2>3 DEF CompletePending, LookForProvision, Provision, Fail
  <2>4. CASE CreateSubscription \/ LookForPending \/ PendSelection \/ Age \/ BeginSweep \/ MarkIssue
             \/ RaiseIssue \/ Deliver \/ CompleteProvision \/ CancelSubscription
    BY <1>5, <2>4 DEF CreateSubscription, LookForPending, PendSelection, Age, BeginSweep, MarkIssue,
       RaiseIssue, Deliver, CompleteProvision, CancelSubscription
  <2>5. QED
    BY <1>2, <1>3, <1>4, <2>1, <2>2, <2>3, <2>4 DEF Next, Processes

\* Everyone stays in its time.
LEMMA TimeStep ==
  ASSUME UpgradeSelectionAssumption, TypeOK, InTheirTime, [Next]_vars
  PROVE  InTheirTime'
<1> USE DEF rowVars, taskVars, histVars
<1>1. /\ Requests \subseteq Processes /\ {"fulfilment", "sweep", "staff"} \subseteq Processes
      /\ \A p \in Requests : p \notin {"fulfilment", "sweep", "staff"}
  BY DEF Processes, UpgradeSelectionAssumption
<1>2. /\ sel.locked => sel'.locked
      /\ sel.exists => sel'.exists
  BY LockStep
<1>3. ASSUME NEW p \in Requests, NEW pc \in Steps, req'[p].pc = pc, pc = "item" => sel'.locked,
             \A q \in Processes : q # p => req'[q] = req[q],
             sub' = sub, aged' = aged, broken => broken',
             sel'.exists => sel.exists, sel'.locked => sel'.exists
      PROVE  InTheirTime'
  BY <1>1, <1>2, <1>3 DEF InTheirTime
<1>4. ASSUME NEW p \in Requests, LookForProvision(p) \/ Provision(p) \/ CompletePending(p)
      PROVE  InTheirTime'
  <2>1. CASE LookForProvision(p)
    BY <1>1, <1>3, <2>1, LooksType, ZenonT(30) DEF LookForProvision, Steps, TypeOK, InTheirTime
  <2>2. CASE Provision(p)
    <3>1. AfterProvision(p) \in Steps /\ AfterProvision(p) # "item"
      BY AfterType, <1>1 DEF AfterProvision
    <3>2. QED
      BY <1>1, <1>3, <2>2, <3>1, GotoType DEF Provision, InTheirTime
  <2>3. CASE CompletePending(p)
    BY <1>1, <1>3, <2>3, GotoType DEF CompletePending, Steps, InTheirTime
  <2>4. QED
    BY <1>4, <2>1, <2>2, <2>3
<1>5. ASSUME NEW p \in Requests, BeginSubmit(p) \/ BeginAcknowledge(p) PROVE InTheirTime'
  <2>1. PICK r : req' = [req EXCEPT ![p] = r] /\ r.pc \in Steps \ {"item"}
    <3>1. CASE BeginSubmit(p)
      <4>1. PICK type \in Allowed : req' = [req EXCEPT ![p] = [Idle EXCEPT !.pc = "write", !.type = type]]
        BY <3>1 DEF BeginSubmit
      <4>2. [Idle EXCEPT !.pc = "write", !.type = type].pc = "write"
        BY DEF Idle
      <4>3. QED
        BY <4>1, <4>2 DEF Steps
    <3>2. CASE BeginAcknowledge(p)
      <4>1. PICK next \in {"provision", "ack", "idle"} :
               req' = [req EXCEPT ![p] = IF next = "idle" THEN Idle
                                         ELSE [Idle EXCEPT !.pc = next, !.pending = (sub = "pending")]]
        BY <3>2 DEF BeginAcknowledge
      <4>2. (IF next = "idle" THEN Idle ELSE [Idle EXCEPT !.pc = next, !.pending = (sub = "pending")]).pc = next
        BY DEF Idle
      <4>3. QED
        BY <4>1, <4>2 DEF Steps
    <3>3. QED
      BY <1>5, <3>1, <3>2
  <2>2. req'[p].pc \in Steps \ {"item"} /\ \A q \in Processes : q # p => req'[q] = req[q]
    BY <1>1, <2>1 DEF TypeOK
  <2>3. QED
    BY <1>3, <1>5, <2>1, <2>2 DEF BeginSubmit, BeginAcknowledge, InTheirTime
<1>6. ASSUME NEW p \in Requests, Submit(p) PROVE InTheirTime'
  <2>1. PICK pc \in Steps : pc = (IF Writable THEN AfterSubmit(p) ELSE "idle")
    BY AfterType, <1>1 DEF Steps
  <2>2. req'[p].pc = pc /\ \A q \in Processes : q # p => req'[q] = req[q]
    BY <1>1, <1>6, <2>1, GotoType DEF Submit
  <2>3. /\ pc = "item" => sel'.locked
        /\ sel'.exists => sel.exists
        /\ sel'.locked => sel'.exists
    BY <1>6, <2>1 DEF Submit, Submitted, Writable, TypeOK, InTheirTime
  <2>4. QED
    BY <1>3, <1>6, <2>2, <2>3 DEF Submit
<1>7. ASSUME NEW p \in Requests, TellItem(p) PROVE InTheirTime'
  BY <1>1, <1>3, <1>7, GotoType DEF TellItem, Steps, InTheirTime
<1>8. ASSUME NEW p \in Requests, Acknowledge(p) PROVE InTheirTime'
  <2>1. PICK pc \in Steps \ {"item"} : pc = (IF req[p].pending THEN "provision" ELSE "idle")
    BY DEF Steps
  <2>2. req'[p].pc = pc /\ \A q \in Processes : q # p => req'[q] = req[q]
    BY <1>1, <1>8, <2>1, GotoType DEF Acknowledge
  <2>3. (sel'.exists => sel.exists) /\ (sel'.locked => sel'.exists)
    BY <1>8 DEF Acknowledge, Acknowledged, TypeOK, InTheirTime
  <2>4. QED
    BY <1>3, <1>8, <2>1, <2>2, <2>3 DEF Acknowledge
<1>9. ASSUME req["sweep"].pc # "idle" \/ aged, \A q \in Processes : q # "sweep" => req'[q] = req[q],
             sub' = sub, aged' = aged, broken => broken', sel'.exists => sel.exists, sel'.locked => sel'.exists
      PROVE  InTheirTime'
  BY <1>1, <1>2, <1>9 DEF InTheirTime
<1>10. CASE Submit("sweep") \/ CompletePending("sweep") \/ LookForProvision("sweep") \/ Provision("sweep")
  <2>1. req["sweep"].pc # "idle"
    BY <1>10 DEF Submit, CompletePending, LookForProvision, Provision, At
  <2>2. CASE Submit("sweep")
    <3>1. PICK pc \in Steps : pc = (IF Writable THEN AfterSubmit("sweep") ELSE "idle")
      BY AfterType, <1>1 DEF Steps
    <3>2. \A q \in Processes : q # "sweep" => req'[q] = req[q]
      BY <1>1, <2>2, <3>1, GotoType DEF Submit
    <3>3. (sel'.exists => sel.exists) /\ (sel'.locked => sel'.exists)
      BY <2>2 DEF Submit, Submitted, Writable, TypeOK, InTheirTime
    <3>4. QED
      BY <1>9, <2>1, <2>2, <3>2, <3>3 DEF Submit
  <2>3. CASE CompletePending("sweep")
    BY <1>1, <1>9, <2>1, <2>3, GotoType DEF CompletePending, Steps, InTheirTime
  <2>4. CASE LookForProvision("sweep")
    BY <1>1, <1>9, <2>1, <2>4, LooksType DEF LookForProvision, Steps, TypeOK, InTheirTime
  <2>5. CASE Provision("sweep")
    BY <1>1, <1>9, <2>1, <2>5, AfterType, GotoType DEF Provision, InTheirTime
  <2>6. QED
    BY <1>10, <2>2, <2>3, <2>4, <2>5
<1>11. CASE BeginSweep \/ MarkIssue \/ RaiseIssue
  <2>1. req["sweep"].pc # "idle" \/ aged
    BY <1>11 DEF BeginSweep, MarkIssue, RaiseIssue, At
  <2>2. CASE BeginSweep
    BY <1>1, <1>9, <2>1, <2>2 DEF BeginSweep, TypeOK, InTheirTime
  <2>3. CASE MarkIssue
    <3>1. PICK pc \in Steps : pc = (IF pend > 0 THEN "idle" ELSE "raise")
      BY DEF Steps
    <3>2. QED
      BY <1>1, <1>9, <2>1, <2>3, <3>1, GotoType DEF MarkIssue, InTheirTime
  <2>4. CASE RaiseIssue
    BY <1>1, <1>9, <2>1, <2>4, GotoType DEF RaiseIssue, Steps, InTheirTime
  <2>5. QED
    BY <1>11, <2>2, <2>3, <2>4
<1>12. CASE CreateSubscription
  BY <1>1, <1>12, GotoType DEF CreateSubscription, Steps, Fulfilling, InTheirTime
<1>13. CASE EnsureSelection
  <2>1. AfterEnsure \in Steps \cap Fulfilling
    BY AfterType, <1>1 DEF AfterEnsure, Fulfilling
  <2>2. req'["fulfilment"].pc = AfterEnsure /\ \A q \in Processes : q # "fulfilment" => req'[q] = req[q]
    BY <1>1, <1>13, <2>1, GotoType DEF EnsureSelection
  <2>3. req["fulfilment"].pc = "ensure"
    BY <1>13 DEF EnsureSelection, At
  <2>4. sel'.exists
    BY <1>13 DEF EnsureSelection, TypeOK
  <2>5. sel'.locked = sel.locked
    BY <1>13 DEF EnsureSelection, TypeOK
  <2>6. QED
    BY <1>1, <1>13, <2>1, <2>2, <2>3, <2>4, <2>5 DEF EnsureSelection, InTheirTime, Fulfilling
<1>14. ASSUME NEW pc \in Fulfilling \cup {"idle"}, req["fulfilment"].pc \in Fulfilling \ {"ensure"},
              req'["fulfilment"].pc = pc, \A q \in Processes : q # "fulfilment" => req'[q] = req[q],
              sub' = sub, aged' = aged, broken => broken', sel'.exists => sel.exists, sel'.locked => sel'.exists
       PROVE  InTheirTime'
  BY <1>1, <1>2, <1>14 DEF InTheirTime, Fulfilling
<1>15. CASE LookForPending \/ PendSelection \/ LookForProvision("fulfilment") \/ Provision("fulfilment")
  <2>1. CASE LookForPending
    BY <1>1, <1>14, <2>1, LooksType DEF LookForPending, At, Steps, Fulfilling, TypeOK, InTheirTime
  <2>2. CASE PendSelection
    BY <1>1, <1>14, <2>2, GotoType DEF PendSelection, At, Steps, Fulfilling, InTheirTime
  <2>3. CASE LookForProvision("fulfilment")
    BY <1>1, <1>14, <2>3, LooksType DEF LookForProvision, At, Steps, Fulfilling, TypeOK, InTheirTime
  <2>4. CASE Provision("fulfilment")
    BY <1>1, <1>14, <2>4, GotoType DEF Provision, AfterProvision, At, Steps, Fulfilling, InTheirTime
  <2>5. QED
    BY <1>15, <2>1, <2>2, <2>3, <2>4
<1>16. CASE CopySelection
  <2>1. (sel'.exists => sel.exists) /\ (sel'.locked => sel'.exists)
    BY <1>16 DEF CopySelection, Submitted, Acknowledged, Writable, TypeOK, InTheirTime
  <2>2. QED
    BY <1>1, <1>14, <1>16, <2>1, GotoType DEF CopySelection, At, Steps, Fulfilling
<1>17. CASE Age
  BY <1>17 DEF Age, At, InTheirTime
<1>18. CASE Deliver \/ CompleteProvision \/ CancelSubscription
  <2>1. CASE Deliver
    BY <1>1, <2>1, GotoType DEF Deliver, Steps, InTheirTime
  <2>2. CASE CompleteProvision
    BY <1>1, <2>2, GotoType DEF CompleteProvision, Steps, InTheirTime
  <2>3. CASE CancelSubscription
    BY <2>3 DEF CancelSubscription, InTheirTime
  <2>4. QED
    BY <1>18, <2>1, <2>2, <2>3
<1>19. ASSUME NEW p \in Processes, Fail(p) PROVE InTheirTime'
  <2>1. PICK pc \in {"idle", "pend", "provision", "copy", "complete"} :
           /\ Goto(p, pc)
           /\ pc # "idle" => req[p].pc \in {"ensure", "pend", "pended", "item", "provision", "provisioned"}
           /\ p = "fulfilment" => pc # "complete"
    BY <1>19 DEF Fail, At, AfterEnsure, AfterProvision
  <2>2. req'[p].pc = pc /\ \A q \in Processes : q # p => req'[q] = req[q]
    BY <2>1, GotoType DEF Steps
  <2>3. broken' /\ UNCHANGED <<sub, aged, sel>>
    BY <1>19 DEF Fail
  <2>4. CASE p = "fulfilment"
    BY <1>1, <2>1, <2>2, <2>3, <2>4 DEF InTheirTime, Fulfilling
  <2>5. CASE p # "fulfilment"
    BY <1>1, <2>1, <2>2, <2>3, <2>5 DEF InTheirTime, Fulfilling
  <2>6. QED
    BY <2>4, <2>5
<1>20. CASE UNCHANGED vars
  BY <1>20 DEF vars, InTheirTime
<1>21. QED
  BY <1>4, <1>5, <1>6, <1>7, <1>8, <1>10, <1>11, <1>12, <1>13, <1>15, <1>16, <1>17, <1>18, <1>19,
     <1>20 DEF Next, Processes

\* Nothing but a choice is promised, or about to be written.
LEMMA ChoicesStep ==
  ASSUME UpgradeSelectionAssumption, TypeOK, OnlyChoices, [Next]_vars
  PROVE  OnlyChoices'
<1> USE DEF rowVars, taskVars, histVars
<1>1. /\ Requests \subseteq Processes /\ {"fulfilment", "sweep", "staff"} \subseteq Processes
      /\ \A p \in Requests : p \notin {"fulfilment", "sweep", "staff"}
  BY DEF Processes, UpgradeSelectionAssumption
<1>2. opts' = opts => Allowed' = Allowed /\ Choice' = Choice
  BY DEF Allowed, Choice
<1>3. ASSUME NEW p \in Processes, NEW pc \in Steps, req'[p].pc = pc, pc \notin {"write", "ack"},
             \A q \in Processes : q # p => req'[q] = req[q], opts' = opts, promised' = promised
      PROVE  OnlyChoices'
  BY <1>1, <1>2, <1>3 DEF OnlyChoices
<1>4. ASSUME NEW p \in Processes, NEW pc \in Steps, Goto(p, pc), pc \notin {"write", "ack"},
             opts' = opts, promised' = promised
      PROVE  OnlyChoices'
  BY <1>3, <1>4, GotoType
<1>5. ASSUME NEW p \in Processes, LookForProvision(p) PROVE OnlyChoices'
  BY <1>3, <1>5, LooksType DEF LookForProvision, Steps, TypeOK
<1>6. ASSUME NEW p \in Processes, Provision(p) PROVE OnlyChoices'
  <2>1. AfterProvision(p) \in Steps \ {"write", "ack"}
    BY AfterType DEF AfterProvision
  <2>2. QED
    BY <1>4, <1>6, <2>1 DEF Provision
<1>7. ASSUME NEW p \in Processes, CompletePending(p) PROVE OnlyChoices'
  BY <1>4, <1>7 DEF CompletePending, Steps
<1>8. CASE LookForPending
  BY <1>1, <1>3, <1>8, LooksType, ZenonT(30) DEF LookForPending, Steps, TypeOK
<1>9. CASE CreateSubscription \/ EnsureSelection \/ PendSelection \/ CopySelection
  <2>1. AfterEnsure \in Steps \ {"write", "ack"}
    BY AfterType, <1>1 DEF AfterEnsure
  <2>2. \E pc \in Steps \ {"write", "ack"} : Goto("fulfilment", pc)
    BY <1>9, <2>1 DEF CreateSubscription, EnsureSelection, PendSelection, CopySelection, Steps
  <2>3. opts' = opts /\ promised' = promised
    BY <1>9 DEF CreateSubscription, EnsureSelection, PendSelection, CopySelection
  <2>4. QED
    BY <1>1, <1>4, <2>2, <2>3
<1>10. ASSUME NEW p \in Requests, BeginSubmit(p) PROVE OnlyChoices'
  <2>1. PICK type \in Allowed : req' = [req EXCEPT ![p] = [Idle EXCEPT !.pc = "write", !.type = type]]
    BY <1>10 DEF BeginSubmit
  <2>2. [Idle EXCEPT !.pc = "write", !.type = type].pc = "write"
        /\ [Idle EXCEPT !.pc = "write", !.type = type].type = type
    BY DEF Idle
  <2>3. /\ req'[p].pc = "write" /\ req'[p].type = type
        /\ \A q \in Requests : q # p => req'[q] = req[q]
    BY <1>1, <2>1, <2>2 DEF TypeOK
  <2>4. QED
    BY <1>2, <1>10, <2>3 DEF BeginSubmit, OnlyChoices
<1>11. ASSUME NEW p \in Requests, BeginAcknowledge(p) PROVE OnlyChoices'
  <2>1. PICK next \in {"provision", "ack", "idle"} :
           req' = [req EXCEPT ![p] = IF next = "idle" THEN Idle
                                     ELSE [Idle EXCEPT !.pc = next, !.pending = (sub = "pending")]]
    BY <1>11 DEF BeginAcknowledge
  <2>2. (IF next = "idle" THEN Idle ELSE [Idle EXCEPT !.pc = next, !.pending = (sub = "pending")]).pc = next
    BY DEF Idle
  <2>3. /\ req'[p].pc = next
        /\ \A q \in Requests : q # p => req'[q] = req[q]
    BY <1>1, <2>1, <2>2 DEF TypeOK
  <2>4. QED
    BY <1>2, <1>11, <2>3 DEF BeginAcknowledge, OnlyChoices
<1>12. ASSUME NEW p \in Requests, Submit(p) PROVE OnlyChoices'
  <2>1. PICK pc \in Steps \ {"write", "ack"} : pc = (IF Writable THEN AfterSubmit(p) ELSE "idle")
    BY <1>1, AfterType DEF Steps, AfterSubmit
  <2>2. req'[p].pc = pc /\ \A q \in Processes : q # p => req'[q] = req[q]
    BY <1>1, <1>12, <2>1, GotoType DEF Submit
  <2>3. promised' \in Allowed \cup {"none"}
    BY <1>12 DEF Submit, At, OnlyChoices
  <2>4. QED
    BY <1>1, <1>2, <1>12, <2>1, <2>2, <2>3 DEF Submit, OnlyChoices
<1>13. CASE Submit("sweep")
  <2>1. PICK pc \in Steps \ {"write", "ack"} : pc = (IF Writable THEN AfterSubmit("sweep") ELSE "idle")
    BY <1>1, AfterType DEF Steps, AfterSubmit
  <2>2. QED
    BY <1>1, <1>4, <1>13, <2>1 DEF Submit
<1>14. ASSUME NEW p \in Requests, TellItem(p) \/ Acknowledge(p) PROVE OnlyChoices'
  <2>1. \E pc \in Steps \ {"write", "ack"} : Goto(p, pc)
    BY <1>14 DEF TellItem, Acknowledge, Steps
  <2>2. opts' = opts /\ promised' = promised
    BY <1>14 DEF TellItem, Acknowledge
  <2>3. QED
    BY <1>1, <1>4, <2>1, <2>2
<1>15. CASE Age \/ CancelSubscription
  BY <1>2, <1>15 DEF Age, CancelSubscription, OnlyChoices
<1>16. CASE BeginSweep
  BY <1>1, <1>2, <1>16 DEF BeginSweep, TypeOK, OnlyChoices
<1>17. CASE MarkIssue \/ RaiseIssue
  <2>1. \E pc \in Steps \ {"write", "ack"} : Goto("sweep", pc)
    BY <1>17 DEF MarkIssue, RaiseIssue, Steps
  <2>2. opts' = opts /\ promised' = promised
    BY <1>17 DEF MarkIssue, RaiseIssue
  <2>3. QED
    BY <1>1, <1>4, <2>1, <2>2
<1>18. CASE Deliver \/ CompleteProvision
  <2>1. \E pc \in Steps \ {"write", "ack"} : Goto("staff", pc)
    BY <1>18 DEF Deliver, CompleteProvision, Steps
  <2>2. opts' = opts /\ promised' = promised
    BY <1>18 DEF Deliver, CompleteProvision
  <2>3. QED
    BY <1>1, <1>4, <2>1, <2>2
<1>19. ASSUME NEW p \in Processes, Fail(p) PROVE OnlyChoices'
  <2>1. \E pc \in Steps \ {"write", "ack"} : Goto(p, pc)
    BY <1>19 DEF Fail, AfterEnsure, AfterProvision, Steps
  <2>2. opts' = opts /\ promised' = promised
    BY <1>19 DEF Fail
  <2>3. QED
    BY <1>4, <2>1, <2>2
<1>20. CASE UNCHANGED vars
  BY <1>2, <1>20 DEF vars, OnlyChoices
<1>21. QED
  BY <1>5, <1>6, <1>7, <1>8, <1>9, <1>10, <1>11, <1>12, <1>13, <1>14, <1>15, <1>16, <1>17, <1>18,
     <1>19, <1>20 DEF Next, Processes

\* Without a failure the promise is the item's choice until the lock, and the selection's
\* from then on: the fulfilment copies it before 72 hours can pass, so that the sweep finds
\* an unlocked selection only where nothing was promised.
LEMMA PromiseStep ==
  ASSUME UpgradeSelectionAssumption, SelectionInv, [Next]_vars
  PROVE  PromiseIsTheItems' /\ AcceptedChoiceIsKept'
<1> USE DEF rowVars, taskVars, histVars
<1>1. /\ Requests \subseteq Processes /\ {"fulfilment", "sweep", "staff"} \subseteq Processes
      /\ \A p \in Requests : p \notin {"fulfilment", "sweep", "staff"}
  BY DEF Processes, UpgradeSelectionAssumption
<1>2. TypeOK /\ InTheirTime /\ OnlyChoices /\ PromiseIsTheItems /\ AcceptedChoiceIsKept
  BY DEF SelectionInv
<1>3. ASSUME UNCHANGED <<promised, item>>, sel'.locked = sel.locked, sel'.type = sel.type, broken => broken',
             \/ (sub = "none" => sub' = "none") /\ req'["fulfilment"] = req["fulfilment"]
             \/ req'["fulfilment"].pc \in Fulfilling
      PROVE  PromiseIsTheItems' /\ AcceptedChoiceIsKept'
  BY <1>2, <1>3 DEF PromiseIsTheItems, AcceptedChoiceIsKept
<1>4. ASSUME NEW p \in Processes \ {"fulfilment"}, NEW pc \in Steps, Goto(p, pc),
             UNCHANGED <<promised, item, sel>>, broken => broken', sub = "none" => sub' = "none"
      PROVE  PromiseIsTheItems' /\ AcceptedChoiceIsKept'
  BY <1>1, <1>2, <1>3, <1>4, GotoType
<1>5. ASSUME NEW pc \in Steps \cap Fulfilling, Goto("fulfilment", pc),
             UNCHANGED <<promised, item>>, sel'.locked = sel.locked, sel'.type = sel.type, broken => broken'
      PROVE  PromiseIsTheItems' /\ AcceptedChoiceIsKept'
  BY <1>1, <1>2, <1>3, <1>5, GotoType
<1>6. ASSUME NEW p \in Processes, LookForProvision(p) PROVE PromiseIsTheItems' /\ AcceptedChoiceIsKept'
  <2>1. /\ req'[p].pc = "provisioned"
        /\ \A q \in Processes : q # p => req'[q] = req[q]
    BY <1>2, <1>6, LooksType DEF LookForProvision, Steps, TypeOK
  <2>2. QED
    BY <1>1, <1>3, <1>6, <2>1 DEF LookForProvision, Fulfilling
<1>7. ASSUME NEW p \in Processes, Provision(p) PROVE PromiseIsTheItems' /\ AcceptedChoiceIsKept'
  <2>1. AfterProvision(p) \in Steps /\ (p = "fulfilment" => AfterProvision(p) \in Fulfilling)
    BY AfterType DEF AfterProvision, Fulfilling
  <2>2. QED
    BY <1>4, <1>5, <1>7, <2>1 DEF Provision
<1>8. ASSUME NEW p \in Requests \cup {"sweep"}, CompletePending(p)
      PROVE  PromiseIsTheItems' /\ AcceptedChoiceIsKept'
  BY <1>1, <1>4, <1>8 DEF CompletePending, Steps
<1>9. CASE CreateSubscription
  BY <1>5, <1>9 DEF CreateSubscription, Steps, Fulfilling
<1>10. CASE EnsureSelection
  <2>1. AfterEnsure \in Steps \cap Fulfilling
    BY AfterType, <1>1 DEF AfterEnsure, Fulfilling
  <2>2. sel'.locked = sel.locked /\ sel'.type = sel.type
    BY <1>2, <1>10 DEF EnsureSelection, TypeOK
  <2>3. QED
    BY <1>5, <1>10, <2>1, <2>2 DEF EnsureSelection
<1>11. CASE LookForPending
  <2>1. req'["fulfilment"].pc = "pended"
    BY <1>1, <1>2, <1>11, LooksType DEF LookForPending, Steps, TypeOK
  <2>2. QED
    BY <1>3, <1>11, <2>1 DEF LookForPending, Fulfilling
<1>12. CASE PendSelection
  BY <1>5, <1>12 DEF PendSelection, Steps, Fulfilling
<1>13. CASE CopySelection
  <2>1. UNCHANGED <<promised, item, broken>>
    BY <1>13 DEF CopySelection
  <2>2. CASE sel.locked
    <3>1. sel'.locked /\ sel'.type = sel.type
      BY <1>2, <2>2, LockStep
    <3>2. QED
      BY <1>2, <2>1, <2>2, <3>1 DEF PromiseIsTheItems, AcceptedChoiceIsKept
  <2>3. CASE ~sel.locked /\ promised # "none" /\ ~broken
    <3>1. promised = item.type /\ sel.exists
      BY <1>2, <1>13, <2>3 DEF PromiseIsTheItems, InTheirTime, CopySelection, At, Fulfilling
    <3>2. sel'.locked /\ sel'.type = item.type
      BY <1>2, <1>13, <2>3, <3>1 DEF CopySelection, Submitted, Writable, TypeOK
    <3>3. QED
      BY <2>1, <3>1, <3>2 DEF PromiseIsTheItems, AcceptedChoiceIsKept
  <2>4. CASE promised = "none" \/ broken
    BY <2>1, <2>4 DEF PromiseIsTheItems, AcceptedChoiceIsKept
  <2>5. QED
    BY <2>2, <2>3, <2>4
<1>14. ASSUME NEW p \in Requests, BeginSubmit(p) \/ BeginAcknowledge(p)
       PROVE  PromiseIsTheItems' /\ AcceptedChoiceIsKept'
  <2>1. \E r : req' = [req EXCEPT ![p] = r]
    BY <1>14 DEF BeginSubmit, BeginAcknowledge
  <2>2. req'["fulfilment"] = req["fulfilment"]
    BY <1>1, <2>1, <1>2 DEF TypeOK
  <2>3. UNCHANGED <<promised, item, sel, sub, broken>>
    BY <1>14 DEF BeginSubmit, BeginAcknowledge
  <2>4. QED
    BY <1>3, <2>2, <2>3
<1>15. ASSUME NEW p \in Requests, Submit(p) PROVE PromiseIsTheItems' /\ AcceptedChoiceIsKept'
  <2>1. CASE Writable
    <3>1. sel'.locked /\ sel'.type = req[p].type /\ promised' = req[p].type
      BY <1>1, <1>2, <1>15, <2>1 DEF Submit, Submitted, Writable, TypeOK
    <3>2. QED
      BY <3>1 DEF PromiseIsTheItems, AcceptedChoiceIsKept
  <2>2. CASE ~Writable
    BY <1>1, <1>4, <1>15, <2>2 DEF Submit, Submitted, Steps
  <2>3. QED
    BY <2>1, <2>2
<1>16. CASE Submit("sweep")
  <2>1. CASE Writable
    <3>1. aged /\ ~sel.locked
      BY <1>2, <1>16, <2>1 DEF Submit, At, Writable, InTheirTime
    <3>2. promised = "none" \/ broken
      BY <1>2, <3>1 DEF PromiseIsTheItems, InTheirTime, Fulfilling
    <3>3. QED
      BY <1>16, <3>2 DEF Submit, PromiseIsTheItems, AcceptedChoiceIsKept
  <2>2. CASE ~Writable
    BY <1>1, <1>4, <1>16, <2>2 DEF Submit, Submitted, Steps
  <2>3. QED
    BY <2>1, <2>2
<1>17. ASSUME NEW p \in Requests, TellItem(p) PROVE PromiseIsTheItems' /\ AcceptedChoiceIsKept'
  <2>1. sel.locked
    BY <1>2, <1>17 DEF TellItem, At, InTheirTime
  <2>2. QED
    BY <1>2, <1>17, <2>1 DEF TellItem, PromiseIsTheItems, AcceptedChoiceIsKept
<1>18. ASSUME NEW p \in Requests, Acknowledge(p) PROVE PromiseIsTheItems' /\ AcceptedChoiceIsKept'
  <2>1. promised = "none"
    BY <1>2, <1>18 DEF Acknowledge, At, OnlyChoices, Choice, Allowed
  <2>2. QED
    BY <1>18, <2>1 DEF Acknowledge, PromiseIsTheItems, AcceptedChoiceIsKept
<1>19. CASE Age \/ CancelSubscription
  BY <1>3, <1>19 DEF Age, CancelSubscription
<1>20. CASE BeginSweep
  <2>1. \E r : req' = [req EXCEPT !["sweep"] = r]
    BY <1>20 DEF BeginSweep
  <2>2. req'["fulfilment"] = req["fulfilment"]
    BY <1>1, <2>1, <1>2 DEF TypeOK
  <2>3. QED
    BY <1>3, <1>20, <2>2 DEF BeginSweep
<1>21. CASE MarkIssue \/ RaiseIssue
  <2>1. \E pc \in Steps : Goto("sweep", pc)
    BY <1>21 DEF MarkIssue, RaiseIssue, Steps
  <2>2. UNCHANGED <<promised, item, sel, sub, broken>>
    BY <1>21 DEF MarkIssue, RaiseIssue
  <2>3. QED
    BY <1>1, <1>4, <2>1, <2>2
<1>22. CASE Deliver \/ CompleteProvision
  <2>1. \E pc \in Steps : Goto("staff", pc)
    BY <1>22 DEF Deliver, CompleteProvision, Steps
  <2>2. UNCHANGED <<promised, item, sel, broken>> /\ (sub = "none" => sub' = "none")
    BY <1>22 DEF Deliver, CompleteProvision
  <2>3. QED
    BY <1>1, <1>4, <2>1, <2>2
<1>23. ASSUME NEW p \in Processes, Fail(p) PROVE PromiseIsTheItems' /\ AcceptedChoiceIsKept'
  BY <1>23 DEF Fail, PromiseIsTheItems, AcceptedChoiceIsKept
<1>24. CASE UNCHANGED vars
  BY <1>2, <1>24 DEF vars, PromiseIsTheItems, AcceptedChoiceIsKept
<1>25. QED
  BY <1>6, <1>7, <1>8, <1>9, <1>10, <1>11, <1>12, <1>13, <1>14, <1>15, <1>16, <1>17, <1>18, <1>19,
     <1>20, <1>21, <1>22, <1>23, <1>24 DEF Next, Processes

-----------------------------------------------------------------------------
\* A process that moves on keeps what it has read.
LEMMA GotoKeeps ==
  ASSUME TypeOK, NEW p \in Processes, NEW pc \in Steps, pc # "idle", Goto(p, pc)
  PROVE  /\ req'[p].pc = pc /\ req'[p].type = req[p].type /\ req'[p].saw = req[p].saw
         /\ req'[p].pending = req[p].pending
         /\ \A q \in Processes : q # p => req'[q] = req[q]
BY DEF TypeOK, Goto

\* The plan stays; a failure, a task made too late and a delivery are not forgotten; a
\* subscription that is no longer pending never is again; and the item is changed only by a
\* request that has locked the selection.
LEMMA PlanStep ==
  ASSUME TypeOK, [Next]_vars
  PROVE  /\ opts' = opts /\ Choice' = Choice /\ Allowed' = Allowed
         /\ broken => broken'
         /\ omitted => omitted'
         /\ late => late'
         /\ delivered => delivered'
         /\ sub \notin {"none", "pending"} => sub' \notin {"none", "pending"}
         /\ item' = item \/ \E p \in Requests : TellItem(p)
<1> USE DEF rowVars, taskVars, histVars
<1>1. opts' = opts /\ (broken => broken') /\ (late => late') /\ (delivered => delivered') /\ (omitted => omitted')
  <2>1. opts' = opts
    BY Zenon DEF Next, vars, CreateSubscription, EnsureSelection, LookForPending, PendSelection,
       CopySelection, BeginSubmit, TellItem, BeginAcknowledge, Acknowledge, Submit, CompletePending,
       LookForProvision, Provision, Age, BeginSweep, MarkIssue, RaiseIssue, Deliver, CompleteProvision,
       CancelSubscription, Fail
  <2>2. broken => broken'
    BY Zenon DEF Next, vars, CreateSubscription, EnsureSelection, LookForPending, PendSelection,
       CopySelection, BeginSubmit, TellItem, BeginAcknowledge, Acknowledge, Submit, CompletePending,
       LookForProvision, Provision, Age, BeginSweep, MarkIssue, RaiseIssue, Deliver, CompleteProvision,
       CancelSubscription, Fail
  <2>3. late => late'
    BY Zenon DEF Next, vars, CreateSubscription, EnsureSelection, LookForPending, PendSelection,
       CopySelection, BeginSubmit, TellItem, BeginAcknowledge, Acknowledge, Submit, CompletePending,
       LookForProvision, Provision, Age, BeginSweep, MarkIssue, RaiseIssue, Deliver, CompleteProvision,
       CancelSubscription, Fail
  <2>4. delivered => delivered'
    BY Zenon DEF Next, vars, CreateSubscription, EnsureSelection, LookForPending, PendSelection,
       CopySelection, BeginSubmit, TellItem, BeginAcknowledge, Acknowledge, Submit, CompletePending,
       LookForProvision, Provision, Age, BeginSweep, MarkIssue, RaiseIssue, Deliver, CompleteProvision,
       CancelSubscription, Fail
  <2>5. omitted => omitted'
    BY Zenon DEF Next, vars, CreateSubscription, EnsureSelection, LookForPending, PendSelection,
       CopySelection, BeginSubmit, TellItem, BeginAcknowledge, Acknowledge, Submit, CompletePending,
       LookForProvision, Provision, Age, BeginSweep, MarkIssue, RaiseIssue, Deliver, CompleteProvision,
       CancelSubscription, Fail
  <2>6. QED
    BY <2>1, <2>2, <2>3, <2>4, <2>5
<1>2. item' = item \/ \E p \in Requests : TellItem(p)
  BY Zenon DEF Next, vars, CreateSubscription, EnsureSelection, LookForPending, PendSelection, CopySelection,
     BeginSubmit, BeginAcknowledge, Acknowledge, Submit, CompletePending, LookForProvision,
     Provision, Age, BeginSweep, MarkIssue, RaiseIssue, Deliver, CompleteProvision, CancelSubscription, Fail
<1>3. sub \notin {"none", "pending"} => sub' \notin {"none", "pending"}
  <2>1. sub' = sub \/ CreateSubscription \/ Deliver \/ CancelSubscription
    BY Zenon DEF Next, vars, EnsureSelection, LookForPending, PendSelection, CopySelection,
       BeginSubmit, TellItem, BeginAcknowledge, Acknowledge, Submit, CompletePending, LookForProvision,
       Provision, Age, BeginSweep, MarkIssue, RaiseIssue, CompleteProvision, Fail
  <2>2. QED
    BY <2>1 DEF CreateSubscription, Deliver, CancelSubscription
<1>4. Choice' = Choice /\ Allowed' = Allowed
  BY <1>1 DEF Choice, Allowed
<1>5. QED
  BY <1>1, <1>2, <1>3, <1>4

\* Who locks the selection hands the subscription over and completes the tasks that ask for it;
\* the fulfilment, which locks it last, has handed it over before.
LEMMA HandoverStep ==
  ASSUME UpgradeSelectionAssumption, SelectionInv, HandoverInv, [Next]_vars
  PROVE  HandoverInv'
<1> USE DEF rowVars, taskVars, histVars
<1>1. /\ Requests \subseteq Processes /\ {"fulfilment", "sweep", "staff"} \subseteq Processes
      /\ \A p \in Requests : p \notin {"fulfilment", "sweep", "staff"}
      /\ Deciders \subseteq Processes /\ Requests \subseteq Deciders /\ "sweep" \in Deciders
      /\ \A p \in Deciders : p \notin {"fulfilment", "staff"}
      /\ \A p \in Processes : p \in Deciders \/ p = "fulfilment" \/ p = "staff"
  BY DEF Processes, Deciders, UpgradeSelectionAssumption
<1>2. /\ TypeOK /\ InTheirTime
      /\ WhatTheyRead /\ AskedInTime /\ CopyIsPrepared /\ SomeoneHandsOver /\ SomeoneCompletes
  BY DEF SelectionInv, HandoverInv
<1>3. /\ Choice' = Choice /\ Allowed' = Allowed
      /\ broken => broken'
      /\ late => late'
      /\ delivered => delivered'
      /\ sub \notin {"none", "pending"} => sub' \notin {"none", "pending"}
      /\ sel.locked => sel'.locked
  BY <1>2, PlanStep, LockStep
<1>4. /\ prov \in Nat /\ pend \in Nat
      /\ \A p \in Processes : req[p].saw \in Nat
  BY <1>2 DEF TypeOK
<1> USE DEF HandedOver, NeedsNoTask, NothingChosen
\* A process that reads or moves on, and writes nothing.
<1>5. ASSUME NEW p \in Processes, \A q \in Processes : q # p => req'[q] = req[q],
             UNCHANGED <<item, sub, sel, prov, pend>>,
             req'[p].pc = "provisioned" => (req'[p].saw > 0 => HandedOver),
             req'[p].pc \notin {"write", "ack", "item", "pend", "pended", "issue", "raise", "ensure"},
             p = "fulfilment" => req'[p].pc # "copy",
             (p = "fulfilment" /\ req'[p].pc # "idle") => req[p].pc \in Fulfilling \ {"copy"},
             req[p].pc \in {"item", "provision", "provisioned"} =>
               (req'[p].pc \in {"provision", "provisioned"} \/ HandedOver),
             (req[p].pc \in {"item", "provision", "provisioned", "complete"} /\ ~req[p].pending) =>
               /\ req'[p].pc \in {"provision", "provisioned", "complete"} /\ ~req'[p].pending
      PROVE  HandoverInv'
  <2>1. WhatTheyRead'
    BY <1>1, <1>2, <1>3, <1>5 DEF WhatTheyRead
  <2>2. AskedInTime'
    BY <1>1, <1>2, <1>3, <1>5 DEF AskedInTime, Fulfilling
  <2>3. CopyIsPrepared'
    BY <1>1, <1>2, <1>3, <1>5 DEF CopyIsPrepared, Fulfilling
  <2>4. SomeoneHandsOver'
    BY <1>1, <1>2, <1>3, <1>5 DEF SomeoneHandsOver
  <2>5. SomeoneCompletes'
    BY <1>1, <1>2, <1>3, <1>5 DEF SomeoneCompletes
  <2>6. QED
    BY <2>1, <2>2, <2>3, <2>4, <2>5 DEF HandoverInv
<1>6. ASSUME NEW p \in Processes \ {"staff"}, LookForProvision(p) PROVE HandoverInv'
  <2>1. /\ req'[p].pc = "provisioned" /\ req'[p].saw = prov /\ req'[p].pending = req[p].pending
        /\ \A q \in Processes : q # p => req'[q] = req[q]
    BY <1>2, <1>6 DEF LookForProvision, TypeOK
  <2>2. req[p].pc = "provision" /\ UNCHANGED <<item, sub, sel, prov, pend, delivered>>
    BY <1>6 DEF LookForProvision, At
  <2>3. QED
    BY <1>2, <1>4, <1>5, <2>1, <2>2 DEF InTheirTime, Fulfilling
<1>7. ASSUME NEW p \in Processes \ {"staff"}, Provision(p) PROVE HandoverInv'
  <2>1. PICK pc \in Steps : pc = AfterProvision(p) /\ Goto(p, pc)
    BY <1>7, AfterType DEF Provision
  <2>2. /\ req'[p].pc = pc
        /\ pc # "idle" => req'[p].pending = req[p].pending
        /\ \A q \in Processes : q # p => req'[q] = req[q]
    BY <1>2, <2>1, GotoType, GotoKeeps
  <2>3. /\ p = "fulfilment" => pc = "copy"
        /\ p # "fulfilment" => pc = (IF req[p].pending THEN "idle" ELSE "complete")
    BY <2>1 DEF AfterProvision
  <2>4. req[p].pc = "provisioned" /\ UNCHANGED <<item, sub, sel, pend, delivered, late, broken>>
    BY <1>7 DEF Provision, At
  <2>5. HandedOver'
    BY <1>2, <1>4, <1>7, <2>4 DEF Provision, WhatTheyRead
  <2>6. p = "fulfilment" => pend = 0
    BY <1>2, <2>4 DEF AskedInTime, Fulfilling
  <2>7. WhatTheyRead' /\ AskedInTime'
    BY <1>1, <1>2, <1>3, <2>2, <2>3, <2>4, <2>5, <2>6 DEF WhatTheyRead, AskedInTime, Fulfilling
  <2>8. CopyIsPrepared' /\ SomeoneHandsOver'
    BY <1>1, <1>2, <1>3, <2>2, <2>3, <2>4, <2>5, <2>6 DEF CopyIsPrepared, SomeoneHandsOver
  <2>9. SomeoneCompletes'
    BY <1>1, <1>2, <1>3, <2>2, <2>3, <2>4, <2>6 DEF SomeoneCompletes
  <2>10. QED
    BY <2>7, <2>8, <2>9 DEF HandoverInv
<1>8. ASSUME NEW p \in Deciders, CompletePending(p) PROVE HandoverInv'
  <2>1. req'[p].pc = "idle" /\ \A q \in Processes : q # p => req'[q] = req[q]
    BY <1>1, <1>2, <1>8, GotoType DEF CompletePending, Steps
  <2>2. /\ req[p].pc = "complete" /\ pend' = 0
        /\ UNCHANGED <<item, sub, sel, prov, delivered, late, broken>>
    BY <1>8 DEF CompletePending, At
  <2>3. WhatTheyRead' /\ AskedInTime'
    BY <1>1, <1>2, <1>3, <2>1, <2>2 DEF WhatTheyRead, AskedInTime
  <2>4. CopyIsPrepared' /\ SomeoneHandsOver' /\ SomeoneCompletes'
    BY <1>1, <1>2, <1>3, <2>1, <2>2 DEF CopyIsPrepared, SomeoneHandsOver, SomeoneCompletes
  <2>5. QED
    BY <2>3, <2>4 DEF HandoverInv
<1>9. CASE CreateSubscription \/ EnsureSelection \/ LookForPending \/ PendSelection
  <2>1. CASE CreateSubscription
    <3>1. /\ req'["fulfilment"].pc = "ensure"
          /\ \A q \in Processes : q # "fulfilment" => req'[q] = req[q]
      BY <1>1, <1>2, <2>1, GotoType DEF CreateSubscription, Steps
    <3>2. /\ sub = "none" /\ sub' = "pending" /\ req["fulfilment"].pc = "idle"
          /\ UNCHANGED <<item, sel, prov, pend, delivered, broken>>
      BY <1>2, <2>1 DEF CreateSubscription, InTheirTime
    <3>3. pend = 0 /\ ~sel.locked
      BY <1>2, <3>2 DEF AskedInTime, InTheirTime
    <3>4. \A p \in Requests : req[p].pc # "ack" \/ req[p].pending
      BY <1>2, <3>2 DEF WhatTheyRead
    <3>5. WhatTheyRead' /\ AskedInTime'
      BY <1>1, <1>2, <1>3, <3>1, <3>2, <3>3, <3>4 DEF WhatTheyRead, AskedInTime, Fulfilling
    <3>6. CopyIsPrepared' /\ SomeoneHandsOver' /\ SomeoneCompletes'
      BY <3>1, <3>2, <3>3 DEF CopyIsPrepared, SomeoneHandsOver, SomeoneCompletes
    <3>7. QED
      BY <3>5, <3>6 DEF HandoverInv
  <2>2. CASE EnsureSelection
    <3>1. AfterEnsure \in {"pend", "provision", "copy"} /\ AfterEnsure \in Steps
      BY AfterType, <1>1 DEF AfterEnsure
    <3>2. /\ req'["fulfilment"].pc = AfterEnsure
          /\ \A q \in Processes : q # "fulfilment" => req'[q] = req[q]
      BY <1>1, <1>2, <2>2, <3>1, GotoType DEF EnsureSelection
    <3>3. /\ req["fulfilment"].pc = "ensure" /\ sel'.locked = sel.locked
          /\ UNCHANGED <<item, sub, prov, pend, delivered, late, broken>>
      BY <1>2, <2>2 DEF EnsureSelection, At, TypeOK
    <3>4. pend = 0 /\ sub # "none"
      BY <1>2, <3>3 DEF AskedInTime, InTheirTime, Fulfilling
    <3>5. /\ AfterEnsure = "pend" => (Choice /\ NothingChosen)
          /\ AfterEnsure = "copy" => ~Choice
      BY DEF AfterEnsure
    <3>6. WhatTheyRead' /\ AskedInTime'
      BY <1>1, <1>2, <1>3, <3>1, <3>2, <3>3, <3>4, <3>5 DEF WhatTheyRead, AskedInTime
    <3>7. CopyIsPrepared' /\ SomeoneHandsOver' /\ SomeoneCompletes'
      BY <1>1, <1>2, <1>3, <3>1, <3>2, <3>3, <3>4, <3>5
      DEF CopyIsPrepared, SomeoneHandsOver, SomeoneCompletes
    <3>8. QED
      BY <3>6, <3>7 DEF HandoverInv
  <2>3. CASE LookForPending
    <3>1. /\ req'["fulfilment"].pc = "pended"
          /\ \A q \in Processes : q # "fulfilment" => req'[q] = req[q]
      BY <1>1, <1>2, <2>3 DEF LookForPending, TypeOK
    <3>2. req["fulfilment"].pc = "pend" /\ UNCHANGED <<item, sub, sel, prov, pend, delivered, late, broken>>
      BY <2>3 DEF LookForPending, At
    <3>3. pend = 0 /\ sub # "none" /\ Choice
      BY <1>2, <3>2 DEF AskedInTime, InTheirTime, WhatTheyRead, Fulfilling
    <3>4. WhatTheyRead' /\ AskedInTime'
      BY <1>1, <1>2, <1>3, <3>1, <3>2, <3>3 DEF WhatTheyRead, AskedInTime
    <3>5. CopyIsPrepared' /\ SomeoneHandsOver' /\ SomeoneCompletes'
      BY <1>1, <1>2, <1>3, <3>1, <3>2, <3>3 DEF CopyIsPrepared, SomeoneHandsOver, SomeoneCompletes
    <3>6. QED
      BY <3>4, <3>5 DEF HandoverInv
  <2>4. CASE PendSelection
    <3>1. /\ req'["fulfilment"].pc = "copy"
          /\ \A q \in Processes : q # "fulfilment" => req'[q] = req[q]
      BY <1>1, <1>2, <2>4, GotoType DEF PendSelection, Steps
    <3>2. /\ req["fulfilment"].pc = "pended" /\ UNCHANGED <<item, sub, sel, prov, delivered, broken>>
          /\ pend' \in {pend, pend + 1} /\ (sel.locked => late')
      BY <2>4 DEF PendSelection, At
    <3>3. pend = 0 /\ sub # "none" /\ Choice
      BY <1>2, <3>2 DEF AskedInTime, InTheirTime, WhatTheyRead, Fulfilling
    <3>4. (~broken /\ ~sel.locked) => NothingChosen
      BY <1>2, <3>2 DEF CopyIsPrepared
    <3>5. WhatTheyRead' /\ AskedInTime'
      BY <1>1, <1>2, <1>3, <3>1, <3>2, <3>3 DEF WhatTheyRead, AskedInTime, Fulfilling
    <3>6. CopyIsPrepared' /\ SomeoneHandsOver' /\ SomeoneCompletes'
      BY <1>1, <1>2, <1>3, <3>1, <3>2, <3>3, <3>4 DEF CopyIsPrepared, SomeoneHandsOver, SomeoneCompletes
    <3>7. QED
      BY <3>5, <3>6 DEF HandoverInv
  <2>5. QED
    BY <1>9, <2>1, <2>2, <2>3, <2>4
<1>10. CASE CopySelection
  <2>1. /\ req'["fulfilment"].pc = "idle"
        /\ \A q \in Processes : q # "fulfilment" => req'[q] = req[q]
    BY <1>1, <1>2, <1>10, GotoType DEF CopySelection, Steps
  <2>2. req["fulfilment"].pc = "copy" /\ UNCHANGED <<item, sub, prov, pend, delivered, late, broken>>
    BY <1>10 DEF CopySelection, At
  <2>3. (sel'.locked /\ ~sel.locked) => ~NothingChosen
    BY <1>2, <1>10 DEF CopySelection, Submitted, Acknowledged, Writable, TypeOK
  <2>4. sub # "none"
    BY <1>2, <2>2 DEF InTheirTime
  <2>5. WhatTheyRead' /\ AskedInTime'
    BY <1>1, <1>2, <1>3, <2>1, <2>2, <2>4 DEF WhatTheyRead, AskedInTime, Fulfilling
  <2>6. CopyIsPrepared' /\ SomeoneHandsOver' /\ SomeoneCompletes'
    BY <1>1, <1>2, <1>3, <2>1, <2>2, <2>3 DEF CopyIsPrepared, SomeoneHandsOver, SomeoneCompletes
  <2>7. QED
    BY <2>5, <2>6 DEF HandoverInv
<1>11. ASSUME NEW p \in Requests, BeginSubmit(p) \/ BeginAcknowledge(p) PROVE HandoverInv'
  <2>1. PICK pc \in {"write", "provision", "ack", "idle"} :
           /\ req'[p].pc = pc /\ \A q \in Processes : q # p => req'[q] = req[q]
           /\ pc = "write" => (~req'[p].pending /\ req'[p].type \in Allowed)
           /\ (pc = "ack" /\ ~req'[p].pending) => sub # "pending"
    <3>1. CASE BeginSubmit(p)
      <4>1. PICK type \in Allowed : req' = [req EXCEPT ![p] = [Idle EXCEPT !.pc = "write", !.type = type]]
        BY <3>1 DEF BeginSubmit
      <4>2. /\ [Idle EXCEPT !.pc = "write", !.type = type].pc = "write"
            /\ [Idle EXCEPT !.pc = "write", !.type = type].type = type
            /\ ~[Idle EXCEPT !.pc = "write", !.type = type].pending
        BY DEF Idle
      <4>3. QED
        BY <1>1, <1>2, <4>1, <4>2 DEF TypeOK
    <3>2. CASE BeginAcknowledge(p)
      <4>1. PICK next \in {"provision", "ack", "idle"} :
               req' = [req EXCEPT ![p] = IF next = "idle" THEN Idle
                                         ELSE [Idle EXCEPT !.pc = next, !.pending = (sub = "pending")]]
        BY <3>2 DEF BeginAcknowledge
      <4> DEFINE r == IF next = "idle" THEN Idle
                      ELSE [Idle EXCEPT !.pc = next, !.pending = (sub = "pending")]
      <4>2. r.pc = next /\ ((next = "ack" /\ ~r.pending) => sub # "pending")
        BY DEF Idle
      <4>3. req'[p] = r /\ \A q \in Processes : q # p => req'[q] = req[q]
        BY <1>1, <1>2, <4>1 DEF TypeOK
      <4> HIDE DEF r
      <4>4. QED
        BY <4>2, <4>3
    <3>3. QED
      BY <1>11, <3>1, <3>2
  <2>2. /\ sel.exists /\ req[p].pc = "idle"
        /\ UNCHANGED <<item, sub, sel, prov, pend, delivered, late, broken>>
    <3>1. sel.exists /\ req[p] = Idle
      BY <1>11 DEF BeginSubmit, BeginAcknowledge, BeginRequest, Writable
    <3>2. UNCHANGED <<item, sub, sel, prov, pend, delivered, late, broken>>
      BY <1>11 DEF BeginSubmit, BeginAcknowledge
    <3>3. QED
      BY <3>1, <3>2 DEF Idle
  <2>3. sub # "none"
    BY <1>2, <2>2 DEF InTheirTime
  <2>4. WhatTheyRead' /\ AskedInTime'
    BY <1>1, <1>2, <1>3, <2>1, <2>2, <2>3 DEF WhatTheyRead, AskedInTime
  <2>5. CopyIsPrepared' /\ SomeoneHandsOver' /\ SomeoneCompletes'
    BY <1>1, <1>2, <1>3, <2>1, <2>2 DEF CopyIsPrepared, SomeoneHandsOver, SomeoneCompletes
  <2>6. QED
    BY <2>4, <2>5 DEF HandoverInv
<1>12. ASSUME NEW p \in Deciders, Submit(p) PROVE HandoverInv'
  <2>1. PICK pc \in Steps : pc = (IF Writable THEN AfterSubmit(p) ELSE "idle") /\ Goto(p, pc)
    BY <1>1, <1>12, AfterType DEF Submit, Steps
  <2>2. pc \in {"item", "provision", "idle"} /\ (Writable <=> pc # "idle")
    BY <2>1 DEF AfterSubmit
  <2>3. /\ req'[p].pc = pc
        /\ pc # "idle" => (req'[p].type = req[p].type /\ req'[p].pending = req[p].pending)
        /\ \A q \in Processes : q # p => req'[q] = req[q]
    BY <1>1, <1>2, <2>1, GotoType, GotoKeeps
  <2>4. /\ req[p].pc = "write" /\ UNCHANGED <<item, sub, prov, pend, delivered, late, broken>>
        /\ Writable => sel'.locked
        /\ ~Writable => sel' = sel
    BY <1>2, <1>12 DEF Submit, At, Submitted, Writable, TypeOK
  <2>5. ~req[p].pending /\ req[p].type \in Allowed
    BY <1>2, <2>4 DEF WhatTheyRead
  <2>6. WhatTheyRead' /\ AskedInTime'
    BY <1>1, <1>2, <1>3, <2>2, <2>3, <2>4, <2>5 DEF WhatTheyRead, AskedInTime
  <2>7. CopyIsPrepared' /\ SomeoneHandsOver' /\ SomeoneCompletes'
    BY <1>1, <1>2, <1>3, <2>2, <2>3, <2>4, <2>5 DEF CopyIsPrepared, SomeoneHandsOver, SomeoneCompletes
  <2>8. QED
    BY <2>6, <2>7 DEF HandoverInv
<1>13. ASSUME NEW p \in Requests, TellItem(p) PROVE HandoverInv'
  <2>1. /\ req'[p].pc = "provision" /\ req'[p].pending = req[p].pending
        /\ \A q \in Processes : q # p => req'[q] = req[q]
    BY <1>1, <1>2, <1>13, GotoKeeps DEF TellItem, Steps
  <2>2. /\ req[p].pc = "item" /\ UNCHANGED <<sub, sel, prov, pend, delivered, late, broken>>
        /\ item'.type = req[p].type
    BY <1>2, <1>13 DEF TellItem, At, TypeOK
  <2>3. sel.locked /\ req[p].type \in Allowed
    BY <1>1, <1>2, <2>2 DEF InTheirTime, WhatTheyRead
  <2>4. Choice
    BY <2>3 DEF Allowed, Choice
  <2>5. WhatTheyRead' /\ AskedInTime'
    BY <1>1, <1>2, <1>3, <2>1, <2>2 DEF WhatTheyRead, AskedInTime
  <2>6. CopyIsPrepared' /\ SomeoneHandsOver' /\ SomeoneCompletes'
    BY <1>1, <1>2, <1>3, <2>1, <2>2, <2>3, <2>4 DEF CopyIsPrepared, SomeoneHandsOver, SomeoneCompletes
  <2>7. QED
    BY <2>5, <2>6 DEF HandoverInv
<1>14. ASSUME NEW p \in Requests, Acknowledge(p) PROVE HandoverInv'
  <2>1. PICK pc \in {"provision", "idle"} : pc = (IF req[p].pending THEN "provision" ELSE "idle") /\ Goto(p, pc)
    BY <1>14 DEF Acknowledge
  <2>2. req'[p].pc = pc /\ \A q \in Processes : q # p => req'[q] = req[q]
    BY <1>1, <1>2, <2>1, GotoType DEF Steps
  <2>3. req[p].pc = "ack" /\ UNCHANGED <<item, sub, prov, pend, delivered, late, broken>>
    BY <1>14 DEF Acknowledge, At
  <2>4. ~Choice /\ pend = 0 /\ (pc = "idle" => sub # "pending")
    BY <1>2, <2>1, <2>3 DEF SelectionInv, OnlyChoices, AskedInTime, WhatTheyRead
  <2>5. WhatTheyRead' /\ AskedInTime'
    BY <1>1, <1>2, <1>3, <2>2, <2>3 DEF WhatTheyRead, AskedInTime
  <2>6. CopyIsPrepared' /\ SomeoneHandsOver' /\ SomeoneCompletes'
    BY <1>1, <1>2, <1>3, <2>1, <2>2, <2>3, <2>4 DEF CopyIsPrepared, SomeoneHandsOver, SomeoneCompletes
  <2>7. QED
    BY <2>5, <2>6 DEF HandoverInv
<1>15. CASE Age \/ CancelSubscription \/ UNCHANGED vars
  <2>1. /\ UNCHANGED <<item, sel, prov, pend, req, delivered, late, broken>>
        /\ sub' = sub \/ (sub \in {"pending", "active"} /\ sub' = "cancelled")
    BY <1>15 DEF Age, CancelSubscription, vars
  <2>2. WhatTheyRead' /\ AskedInTime'
    BY <1>2, <1>3, <2>1 DEF WhatTheyRead, AskedInTime
  <2>3. CopyIsPrepared' /\ SomeoneHandsOver' /\ SomeoneCompletes'
    BY <1>2, <1>3, <2>1 DEF CopyIsPrepared, SomeoneHandsOver, SomeoneCompletes
  <2>4. QED
    BY <2>2, <2>3 DEF HandoverInv
<1>16. CASE BeginSweep \/ MarkIssue
  <2>1. PICK pc \in {"write", "issue", "raise", "idle"} :
           /\ req'["sweep"].pc = pc /\ \A q \in Processes : q # "sweep" => req'[q] = req[q]
           /\ pc = "write" => (~req'["sweep"].pending /\ req'["sweep"].type \in Allowed)
    <3>1. CASE BeginSweep
      <4>1. PICK r \in {[Idle EXCEPT !.pc = "write", !.type = "new"], [Idle EXCEPT !.pc = "issue"]} :
               /\ req' = [req EXCEPT !["sweep"] = r]
               /\ opts.new \/ r = [Idle EXCEPT !.pc = "issue"]
        BY <3>1 DEF BeginSweep
      <4>2. /\ r.pc \in {"write", "issue"}
            /\ r.pc = "write" => (~r.pending /\ r.type = "new" /\ opts.new)
        BY <4>1 DEF Idle
      <4>3. req'["sweep"] = r /\ \A q \in Processes : q # "sweep" => req'[q] = req[q]
        BY <1>1, <1>2, <4>1 DEF TypeOK
      <4>4. QED
        BY <4>2, <4>3 DEF Allowed
    <3>2. CASE MarkIssue
      <4>1. PICK pc \in {"raise", "idle"} : Goto("sweep", pc)
        BY <3>2 DEF MarkIssue
      <4>2. QED
        BY <1>1, <1>2, <4>1, GotoType DEF Steps
    <3>3. QED
      BY <1>16, <3>1, <3>2
  <2>2. /\ req["sweep"].pc \in {"idle", "issue"} /\ Choice
        /\ UNCHANGED <<item, sub, sel, prov, pend, delivered, late, broken>>
    BY <1>2, <1>16 DEF BeginSweep, MarkIssue, At, Idle, WhatTheyRead
  <2>3. WhatTheyRead' /\ AskedInTime'
    BY <1>1, <1>2, <1>3, <2>1, <2>2 DEF WhatTheyRead, AskedInTime
  <2>4. CopyIsPrepared' /\ SomeoneHandsOver' /\ SomeoneCompletes'
    BY <1>1, <1>2, <1>3, <2>1, <2>2 DEF CopyIsPrepared, SomeoneHandsOver, SomeoneCompletes
  <2>5. QED
    BY <2>3, <2>4 DEF HandoverInv
<1>17. CASE RaiseIssue
  <2>1. req'["sweep"].pc = "idle" /\ \A q \in Processes : q # "sweep" => req'[q] = req[q]
    BY <1>1, <1>2, <1>17, GotoType DEF RaiseIssue, Steps
  <2>2. /\ req["sweep"].pc = "raise" /\ UNCHANGED <<item, sub, sel, prov, delivered, broken>>
        /\ sel.locked => late'
    BY <1>17 DEF RaiseIssue, At
  <2>3. sub # "none" /\ req["fulfilment"].pc = "idle" /\ Choice
    BY <1>2, <2>2 DEF InTheirTime, WhatTheyRead
  <2>4. WhatTheyRead' /\ AskedInTime'
    BY <1>1, <1>2, <1>3, <2>1, <2>2, <2>3 DEF WhatTheyRead, AskedInTime, Fulfilling
  <2>5. CopyIsPrepared' /\ SomeoneHandsOver' /\ SomeoneCompletes'
    BY <1>1, <1>2, <1>3, <2>1, <2>2, <2>3 DEF CopyIsPrepared, SomeoneHandsOver, SomeoneCompletes
  <2>6. QED
    BY <2>4, <2>5 DEF HandoverInv
<1>18. CASE Deliver \/ CompleteProvision
  <2>1. PICK pc \in {"finish", "idle"} : Goto("staff", pc)
    BY <1>18 DEF Deliver, CompleteProvision
  <2>2. req'["staff"].pc = pc /\ \A q \in Processes : q # "staff" => req'[q] = req[q]
    BY <1>1, <1>2, <2>1, GotoType DEF Steps
  <2>3. /\ req["staff"].pc \in {"idle", "finish"} /\ UNCHANGED <<item, sel, pend, late, broken>>
        /\ sub' = sub \/ (sub = "pending" /\ sub' = "active")
        /\ HandedOver => HandedOver'
    BY <1>18 DEF Deliver, CompleteProvision, At, Idle
  <2>4. WhatTheyRead' /\ AskedInTime'
    BY <1>1, <1>2, <1>3, <2>1, <2>2, <2>3 DEF WhatTheyRead, AskedInTime
  <2>5. CopyIsPrepared' /\ SomeoneHandsOver' /\ SomeoneCompletes'
    BY <1>1, <1>2, <1>3, <2>1, <2>2, <2>3 DEF CopyIsPrepared, SomeoneHandsOver, SomeoneCompletes
  <2>6. QED
    BY <2>4, <2>5 DEF HandoverInv
<1>19. ASSUME NEW p \in Processes, Fail(p) PROVE HandoverInv'
  <2>1. PICK pc \in {"idle", "pend", "provision", "copy", "complete"} :
           /\ Goto(p, pc)
           /\ pc = "pend" => Choice
           /\ p = "fulfilment" => pc # "complete"
           /\ (p = "fulfilment" /\ pc # "idle") => req[p].pc \in Fulfilling
           /\ pc \in {"pend", "provision"} => req[p].pc \in {"ensure", "item"}
    BY <1>2, <1>19 DEF Fail, At, AfterEnsure, AfterProvision, Fulfilling, InTheirTime
  <2>2. req'[p].pc = pc /\ \A q \in Processes : q # p => req'[q] = req[q]
    BY <1>2, <2>1, GotoType DEF Steps
  <2>3. broken' /\ UNCHANGED <<item, sub, sel, prov, pend, delivered>>
    BY <1>19 DEF Fail
  <2>4. p = "fulfilment" => req[p].pc # "item"
    BY <1>2 DEF InTheirTime, Fulfilling
  <2>5. WhatTheyRead'
    BY <1>1, <1>2, <1>3, <2>1, <2>2, <2>3 DEF WhatTheyRead
  <2>6. AskedInTime'
    BY <1>1, <1>2, <1>3, <2>1, <2>2, <2>3, <2>4 DEF AskedInTime, Fulfilling
  <2>7. QED
    BY <2>3, <2>5, <2>6 DEF HandoverInv, CopyIsPrepared, SomeoneHandsOver, SomeoneCompletes
<1>20. QED
  BY <1>6, <1>7, <1>8, <1>9, <1>10, <1>11, <1>12, <1>13, <1>14, <1>15, <1>16, <1>17, <1>18, <1>19
  DEF Next, Processes, Deciders

\* What a failure leaves of the handover: unless a task was left out, a choice that exists has
\* its provision task, a task that asks for it, or the fulfilment about to make one of them; and
\* who completes the tasks that ask has handed the subscription over.
LEMMA TaskStep ==
  ASSUME UpgradeSelectionAssumption, SelectionInv, HandoverInv, TaskIsMade, [Next]_vars
  PROVE  TaskIsMade'
<1> USE DEF rowVars, taskVars, histVars
<1>1. /\ Requests \subseteq Processes /\ {"fulfilment", "sweep", "staff"} \subseteq Processes
      /\ Deciders \subseteq Processes /\ Requests \subseteq Deciders /\ "sweep" \in Deciders
      /\ \A p \in Deciders : p \notin {"fulfilment", "staff"}
      /\ \A p \in Processes : p \in Deciders \/ p = "fulfilment" \/ p = "staff"
  BY DEF Processes, Deciders, UpgradeSelectionAssumption
<1>2. TypeOK /\ InTheirTime /\ WhatTheyRead /\ AskedInTime
  BY DEF SelectionInv, HandoverInv
<1>3. Choice' = Choice /\ (omitted => omitted') /\ (delivered => delivered')
  BY <1>2, PlanStep
<1>4. prov \in Nat /\ pend \in Nat
  BY <1>2 DEF TypeOK
\* Where no task that asks is completed, and the selection is not made.
<1>5. ASSUME HandedOver => HandedOver', pend > 0 => pend' > 0, sel'.exists => sel.exists,
             \/ req'["fulfilment"] = req["fulfilment"]
             \/ /\ req'["fulfilment"].pc = "ensure" => ~sel.exists
                /\ req'["fulfilment"].pc = "pended" => req'["fulfilment"].saw = 0
                /\ req["fulfilment"].pc \in {"pend", "pended", "provision", "provisioned"} =>
                     \/ req'["fulfilment"].pc \in {"pend", "pended", "provision", "provisioned"}
                     \/ HandedOver' \/ pend' > 0 \/ omitted',
             \A q \in Deciders : req'[q].pc = "complete" => req[q].pc = "complete" \/ HandedOver' \/ omitted'
      PROVE  TaskIsMade'
  BY <1>3, <1>5 DEF TaskIsMade
\* Steps of who is not the fulfilment, and does not come to complete the tasks.
<1>6. ASSUME NEW p \in Processes \ {"fulfilment"}, \A q \in Processes : q # p => req'[q] = req[q],
             HandedOver => HandedOver', pend > 0 => pend' > 0, sel'.exists => sel.exists,
             req'[p].pc # "complete" \/ HandedOver' \/ omitted'
      PROVE  TaskIsMade'
  BY <1>1, <1>5, <1>6
<1>7. ASSUME NEW p \in Processes \ {"fulfilment"}, NEW pc \in Steps \ {"complete"}, Goto(p, pc),
             HandedOver => HandedOver', pend > 0 => pend' > 0, sel'.exists => sel.exists
      PROVE  TaskIsMade'
  BY <1>2, <1>6, <1>7, GotoType
<1>8. ASSUME NEW type, NEW ack, Submitted(type, ack) \/ Acknowledged PROVE sel'.exists => sel.exists
  BY <1>2, <1>8 DEF Submitted, Acknowledged, TypeOK
<1>9. ASSUME NEW p \in Processes \ {"staff"}, LookForProvision(p) PROVE TaskIsMade'
  <2>1. /\ req'[p].pc = "provisioned" /\ \A q \in Processes : q # p => req'[q] = req[q]
        /\ UNCHANGED <<sel, prov, pend, delivered>>
    BY <1>2, <1>9 DEF LookForProvision, TypeOK
  <2>2. QED
    BY <1>1, <1>5, <2>1 DEF HandedOver
<1>10. ASSUME NEW p \in Processes \ {"staff"}, Provision(p) PROVE TaskIsMade'
  <2>1. PICK pc \in Steps : pc = AfterProvision(p) /\ Goto(p, pc)
    BY <1>10, AfterType DEF Provision
  <2>2. /\ req'[p].pc = pc /\ \A q \in Processes : q # p => req'[q] = req[q]
        /\ p = "fulfilment" => pc = "copy"
    BY <1>2, <2>1, GotoType DEF AfterProvision
  <2>3. HandedOver' /\ UNCHANGED <<sel, pend>>
    <3>1. /\ req[p].pc = "provisioned" /\ UNCHANGED <<sel, pend, delivered>>
          /\ prov' = IF req[p].saw = 0 THEN prov + 1 ELSE prov
      BY <1>10 DEF Provision, At
    <3>2. req[p].saw \in Nat
      BY <1>2 DEF TypeOK
    <3>3. QED
      BY <1>2, <1>4, <3>1, <3>2 DEF WhatTheyRead, HandedOver
  <2>4. QED
    BY <1>1, <1>5, <2>2, <2>3
<1>11. ASSUME NEW p \in Deciders, CompletePending(p) PROVE TaskIsMade'
  <2>1. req'[p].pc = "idle" /\ \A q \in Processes : q # p => req'[q] = req[q]
    BY <1>1, <1>2, <1>11, GotoType DEF CompletePending, Steps
  <2>2. req[p].pc = "complete" /\ UNCHANGED <<sel, prov, delivered, omitted>>
    BY <1>11 DEF CompletePending, At
  <2>3. omitted \/ (HandedOver /\ HandedOver')
    BY <2>2 DEF TaskIsMade, HandedOver
  <2>4. QED
    BY <1>1, <1>3, <2>1, <2>2, <2>3 DEF TaskIsMade
<1>12. CASE CreateSubscription
  <2>1. /\ req'["fulfilment"].pc = "ensure" /\ \A q \in Processes : q # "fulfilment" => req'[q] = req[q]
    BY <1>1, <1>2, <1>12, GotoType DEF CreateSubscription, Steps
  <2>2. req["fulfilment"].pc = "idle" /\ ~sel.exists /\ UNCHANGED <<sel, prov, pend, delivered>>
    BY <1>2, <1>12 DEF CreateSubscription, InTheirTime
  <2>3. QED
    BY <1>1, <1>5, <2>1, <2>2 DEF HandedOver
<1>13. CASE EnsureSelection
  <2>1. AfterEnsure \in {"pend", "provision", "copy"} /\ AfterEnsure \in Steps /\ (Choice => AfterEnsure # "copy")
    BY <1>1, AfterType DEF AfterEnsure
  <2>2. req'["fulfilment"].pc = AfterEnsure /\ \A q \in Processes : q # "fulfilment" => req'[q] = req[q]
    BY <1>1, <1>2, <1>13, <2>1, GotoType DEF EnsureSelection
  <2>3. UNCHANGED <<prov, pend, delivered, omitted>>
    BY <1>13 DEF EnsureSelection
  <2>4. QED
    BY <1>1, <1>3, <2>1, <2>2, <2>3 DEF TaskIsMade, HandedOver
<1>14. CASE LookForPending
  <2>1. /\ req'["fulfilment"].pc = "pended" /\ req'["fulfilment"].saw = pend
        /\ \A q \in Processes : q # "fulfilment" => req'[q] = req[q]
    BY <1>1, <1>2, <1>14 DEF LookForPending, TypeOK
  <2>2. req["fulfilment"].pc = "pend" /\ UNCHANGED <<sel, prov, pend, delivered>>
    BY <1>14 DEF LookForPending, At
  <2>3. pend = 0
    BY <1>2, <2>2 DEF AskedInTime, Fulfilling
  <2>4. QED
    BY <1>1, <1>5, <2>1, <2>2, <2>3 DEF HandedOver
<1>15. CASE PendSelection
  <2>1. req'["fulfilment"].pc = "copy" /\ \A q \in Processes : q # "fulfilment" => req'[q] = req[q]
    BY <1>1, <1>2, <1>15, GotoType DEF PendSelection, Steps
  <2>2. /\ req["fulfilment"].pc = "pended" /\ UNCHANGED <<sel, prov, delivered>>
        /\ pend' = IF req["fulfilment"].saw = 0 THEN pend + 1 ELSE pend
    BY <1>15 DEF PendSelection, At
  <2>3. pend' > 0
    BY <1>4, <2>2 DEF TaskIsMade
  <2>4. QED
    BY <1>1, <1>5, <2>1, <2>2, <2>3 DEF HandedOver
<1>16. CASE CopySelection
  <2>1. req'["fulfilment"].pc = "idle" /\ \A q \in Processes : q # "fulfilment" => req'[q] = req[q]
    BY <1>1, <1>2, <1>16, GotoType DEF CopySelection, Steps
  <2>2. req["fulfilment"].pc = "copy" /\ UNCHANGED <<prov, pend, delivered>>
    BY <1>16 DEF CopySelection, At
  <2>3. sel'.exists => sel.exists
    BY <1>8, <1>16 DEF CopySelection
  <2>4. QED
    BY <1>1, <1>5, <2>1, <2>2, <2>3 DEF HandedOver
<1>17. ASSUME NEW p \in Requests, BeginSubmit(p) \/ BeginAcknowledge(p) PROVE TaskIsMade'
  <2>1. UNCHANGED <<sel, prov, pend, delivered>>
    BY <1>17 DEF BeginSubmit, BeginAcknowledge
  <2>2. PICK r : req' = [req EXCEPT ![p] = r] /\ r.pc # "complete"
    <3>1. CASE BeginSubmit(p)
      <4>1. PICK type \in Allowed : req' = [req EXCEPT ![p] = [Idle EXCEPT !.pc = "write", !.type = type]]
        BY <3>1 DEF BeginSubmit
      <4>2. [Idle EXCEPT !.pc = "write", !.type = type].pc # "complete"
        BY DEF Idle
      <4>3. QED
        BY <4>1, <4>2
    <3>2. CASE BeginAcknowledge(p)
      <4>1. PICK next \in {"provision", "ack", "idle"} :
               req' = [req EXCEPT ![p] = IF next = "idle" THEN Idle
                                         ELSE [Idle EXCEPT !.pc = next, !.pending = (sub = "pending")]]
        BY <3>2 DEF BeginAcknowledge
      <4> DEFINE r == IF next = "idle" THEN Idle
                      ELSE [Idle EXCEPT !.pc = next, !.pending = (sub = "pending")]
      <4>2. r.pc # "complete"
        BY DEF Idle
      <4> HIDE DEF r
      <4>3. QED
        BY <4>1, <4>2 DEF r
    <3>3. QED
      BY <1>17, <3>1, <3>2
  <2>3. req'[p].pc # "complete" /\ \A q \in Processes : q # p => req'[q] = req[q]
    BY <1>1, <1>2, <2>2 DEF TypeOK
  <2>4. QED
    BY <1>1, <1>6, <2>1, <2>3 DEF HandedOver
<1>18. ASSUME NEW p \in Deciders, Submit(p) PROVE TaskIsMade'
  <2>1. PICK pc \in Steps : pc = (IF Writable THEN AfterSubmit(p) ELSE "idle") /\ Goto(p, pc)
    BY <1>1, <1>18, AfterType DEF Submit, Steps
  <2>2. pc # "complete" /\ UNCHANGED <<prov, pend, delivered>>
    BY <1>18, <2>1 DEF AfterSubmit, Submit
  <2>3. sel'.exists => sel.exists
    BY <1>8, <1>18 DEF Submit
  <2>4. QED
    BY <1>1, <1>7, <2>1, <2>2, <2>3 DEF HandedOver
<1>19. ASSUME NEW p \in Requests, TellItem(p) \/ Acknowledge(p) PROVE TaskIsMade'
  <2>1. PICK pc \in {"provision", "idle"} : Goto(p, pc)
    BY <1>19 DEF TellItem, Acknowledge
  <2>2. UNCHANGED <<prov, pend, delivered>> /\ (sel'.exists => sel.exists)
    BY <1>8, <1>19 DEF TellItem, Acknowledge
  <2>3. QED
    BY <1>1, <1>7, <2>1, <2>2 DEF HandedOver, Steps
<1>20. CASE Age \/ CancelSubscription \/ UNCHANGED vars
  BY <1>5, <1>20 DEF Age, CancelSubscription, vars, HandedOver
<1>21. CASE BeginSweep
  <2>1. PICK r \in {[Idle EXCEPT !.pc = "write", !.type = "new"], [Idle EXCEPT !.pc = "issue"]} :
           req' = [req EXCEPT !["sweep"] = r]
    BY <1>21 DEF BeginSweep
  <2>2. r.pc # "complete"
    BY <2>1 DEF Idle
  <2>3. req'["sweep"].pc # "complete" /\ \A q \in Processes : q # "sweep" => req'[q] = req[q]
    BY <1>1, <1>2, <2>1, <2>2 DEF TypeOK
  <2>4. UNCHANGED <<sel, prov, pend, delivered>>
    BY <1>21 DEF BeginSweep
  <2>5. QED
    BY <1>1, <1>6, <2>3, <2>4 DEF HandedOver
<1>22. CASE MarkIssue \/ RaiseIssue
  <2>1. PICK pc \in {"raise", "idle"} : Goto("sweep", pc)
    BY <1>22 DEF MarkIssue, RaiseIssue
  <2>2. UNCHANGED <<sel, prov, delivered>> /\ (pend' = pend \/ pend' = pend + 1)
    BY <1>22 DEF MarkIssue, RaiseIssue
  <2>3. QED
    BY <1>1, <1>4, <1>7, <2>1, <2>2 DEF HandedOver, Steps
<1>23. CASE Deliver \/ CompleteProvision
  <2>1. PICK pc \in {"finish", "idle"} : Goto("staff", pc)
    BY <1>23 DEF Deliver, CompleteProvision
  <2>2. UNCHANGED <<sel, pend>> /\ (HandedOver => HandedOver')
    BY <1>23 DEF Deliver, CompleteProvision, HandedOver
  <2>3. QED
    BY <1>1, <1>7, <2>1, <2>2 DEF Steps
<1>24. ASSUME NEW p \in Processes, Fail(p) PROVE TaskIsMade'
  <2> DEFINE making == {"pend", "pended", "provision", "provisioned"}
  <2>1. PICK pc \in Steps :
           /\ Goto(p, pc)
           /\ pc \notin {"ensure", "pended"}
           /\ pc = "complete" => omitted'
           /\ (p = "fulfilment" /\ req[p].pc \in making) => omitted'
    <3>1. CASE Goto(p, "idle") /\ omitted' = (omitted \/ (p = "fulfilment" /\ req[p].pc \in making))
      <4>1. (p = "fulfilment" /\ req[p].pc \in making) => omitted'
        BY <3>1, Zenon
      <4>2. QED
        BY <3>1, <4>1 DEF Steps
    <3>2. CASE \/ At(p, "ensure") /\ Goto(p, AfterEnsure)
               \/ At(p, "item") /\ Goto(p, "provision")
      BY <3>2, AfterType DEF At, AfterEnsure, Steps
    <3>3. CASE /\ req[p].pc \in making /\ omitted'
               /\ Goto(p, IF req[p].pc \in {"pend", "pended"} THEN "copy" ELSE AfterProvision(p))
      BY <3>3 DEF AfterProvision, Steps
    <3>4. QED
      BY <1>24, <3>1, <3>2, <3>3 DEF Fail
  <2>2. req'[p].pc = pc /\ \A q \in Processes : q # p => req'[q] = req[q]
    BY <1>2, <2>1, GotoType
  <2>3. UNCHANGED <<sel, prov, pend, delivered>>
    BY <1>24 DEF Fail
  <2>4. CASE p = "fulfilment"
    BY <1>1, <1>5, <2>1, <2>2, <2>3, <2>4 DEF HandedOver
  <2>5. CASE p # "fulfilment"
    BY <1>6, <2>1, <2>2, <2>3, <2>5 DEF HandedOver
  <2>6. QED
    BY <2>4, <2>5
<1>25. QED
  BY <1>9, <1>10, <1>11, <1>12, <1>13, <1>14, <1>15, <1>16, <1>17, <1>18, <1>19, <1>20, <1>21, <1>22,
     <1>23, <1>24 DEF Next, Processes, Deciders

-----------------------------------------------------------------------------
\* The invariant holds in every reachable state.
LEMMA Invariance ==
  ASSUME UpgradeSelectionAssumption
  PROVE  Spec => []SelectionInv
<1>1. Init => SelectionInv
  BY InitSelection
<1>2. SelectionInv /\ [Next]_vars => SelectionInv'
  BY TypeStep, TimeStep, ChoicesStep, PromiseStep DEF SelectionInv
<1>3. QED
  BY <1>1, <1>2, PTL DEF Spec

\* Type correctness of a subscription's selection, its tasks and its handlers.
THEOREM TypeCorrect ==
  ASSUME UpgradeSelectionAssumption
  PROVE  Spec => []TypeOK
<1>1. SelectionInv => TypeOK
  BY DEF SelectionInv
<1>2. QED
  BY <1>1, Invariance, PTL

\* A locked selection stays locked and keeps its choice, however many requests, sweeps and
\* fulfilments meet at it: submitSelection writes an unlocked row only, and
\* acknowledgeManualMonthly leaves the type alone.
THEOREM ChosenOnce ==
  ASSUME UpgradeSelectionAssumption
  PROVE  Spec => ChoiceIsFinal
<1>1. SelectionInv /\ [Next]_vars => [sel.locked => (sel'.locked /\ sel'.type = sel.type)]_vars
  BY LockStep DEF SelectionInv
<1>2. QED
  BY <1>1, Invariance, PTL DEF Spec, ChoiceIsFinal

\* Without a failure the subscription is provided by what the buyer chose at the checkout or
\* was last told to have chosen, and the sweep never decides over it.
THEOREM PromiseKept ==
  ASSUME UpgradeSelectionAssumption
  PROVE  Spec => []AcceptedChoiceIsKept
<1>1. SelectionInv => AcceptedChoiceIsKept
  BY DEF SelectionInv
<1>2. QED
  BY <1>1, Invariance, PTL

\* When no handler is at work, a pending subscription whose selection is locked has been handed
\* over to the staff, and no task still asks for the selection, unless it was made after the
\* lock: every handler that locks the selection makes the task next and then completes those
\* that ask, and the fulfilment copies a choice only after it has made the task.  Where one died
\* between the two, the task that asks is still open, unless the error of a task's statement was
\* swallowed.
THEOREM HandedToTheStaff ==
  ASSUME UpgradeSelectionAssumption
  PROVE  Spec => []LockedIsHandedOver
<1>1. ASSUME Init PROVE HandoverInv /\ TaskIsMade
  <2>1. \A p \in Processes : req[p] = Idle /\ req[p].pc = "idle"
    BY <1>1 DEF Init, Idle
  <2>2. Deciders \subseteq Processes /\ Requests \subseteq Processes /\ {"fulfilment", "sweep"} \subseteq Processes
    BY DEF Deciders, Processes
  <2>3. WhatTheyRead
    BY <2>1, <2>2 DEF WhatTheyRead
  <2>4. AskedInTime /\ CopyIsPrepared /\ SomeoneHandsOver /\ SomeoneCompletes
    BY <1>1, <2>1, <2>2 DEF Init, AskedInTime, CopyIsPrepared, SomeoneHandsOver, SomeoneCompletes
  <2>5. TaskIsMade
    BY <1>1, <2>1, <2>2 DEF Init, TaskIsMade
  <2>6. QED
    BY <2>3, <2>4, <2>5 DEF HandoverInv
<1>2. SelectionInv /\ HandoverInv /\ TaskIsMade /\ [Next]_vars => HandoverInv' /\ TaskIsMade'
  BY HandoverStep, TaskStep
<1>3. SelectionInv /\ HandoverInv /\ TaskIsMade => LockedIsHandedOver
  <2> SUFFICES ASSUME SelectionInv, HandoverInv, TaskIsMade, sel.locked, sub = "pending",
                      \A p \in Processes : req[p] = Idle
               PROVE  /\ \/ prov > 0 \/ delivered
                         \/ Choice /\ broken /\ (pend > 0 \/ omitted)
                         \/ ~Choice /\ (broken \/ item.ack \/ item.type # "none")
                      /\ pend > 0 => late \/ broken
    BY DEF LockedIsHandedOver
  <2>1. \A p \in Processes : req[p].pc = "idle"
    BY DEF Idle
  <2>2. CASE ~broken
    <3>1. prov > 0 \/ delivered \/ (~Choice /\ (item.ack \/ item.type # "none"))
      BY <2>1, <2>2 DEF HandoverInv, SomeoneHandsOver, HandedOver, NeedsNoTask
    <3>2. pend > 0 => late
      BY <2>1, <2>2 DEF HandoverInv, SomeoneCompletes, Deciders, Processes
    <3>3. QED
      BY <3>1, <3>2
  <2>3. CASE broken
    <3>1. sel.exists /\ req["fulfilment"].pc = "idle"
      BY <2>1 DEF SelectionInv, InTheirTime, Processes
    <3>2. (Choice /\ ~omitted) => prov > 0 \/ delivered \/ pend > 0
      BY <3>1 DEF TaskIsMade, HandedOver
    <3>3. QED
      BY <2>3, <3>2
  <2>4. QED
    BY <2>2, <2>3
<1>4. QED
  BY <1>1, <1>2, <1>3, Invariance, PTL DEF Spec

-----------------------------------------------------------------------------
\* A request is about a refund with a row, or makes a refund by hand; it gets at what its
\* kind gets at, and what it puts into Redis is a status.
RequestShaped(s) ==
  h[s].pc # "idle" =>
    /\ (h[s].kind = "manual") <=> (h[s].id = Manual)
    /\ h[s].kind = "manual" => h[s].pc \in {"reverse", "provider", "rollback"}
    /\ h[s].kind = "initiate" => h[s].pc \in {"exists", "insert"} \/ (h[s].pc = "cache" /\ h[s].next = "end")
    /\ h[s].kind \in {"approve", "reject"} =>
         h[s].pc \notin {"exists", "insert"} /\ refund[h[s].id].status \in Statuses
    /\ h[s].pc = "cache" => h[s].st \in Statuses /\ h[s].next \in {"end", "approve", "reject", "find", "reverse"}

RequestsShaped == \A s \in Slots : RequestShaped(s)

\* The requests that have debited for i and may still give for it, each once.
Owing(i) == {s \in Slots : h[s].pc \in {"provider", "rollback"} /\ h[s].id = i}

TakenFirst(i) ==
  /\ IsFiniteSet(Owing(i))
  /\ rollbacks[i] + Cardinality(Owing(i)) <= reversals[i]
  /\ paidOut[i] => reversals[i] > 0

\* Request s looked for a reversal of r, found none, and has not debited yet.
Debiting(s, r) ==
  /\ h[s].pc \in {"process", "reverse"} \/ (h[s].pc = "cache" /\ h[s].next = "reverse")
  /\ h[s].id = r

\* Without an overlap there is one such request at most, and nothing is debited before it.
DebitsAlone(r) ==
  ~overlapped[r] =>
    /\ reversals[r] <= 1
    /\ \A s, t \in Slots : Debiting(s, r) /\ Debiting(t, r) => s = t
    /\ \A s \in Slots : Debiting(s, r) => reversals[r] = 0

\* Request s has approved r and is at work on it.
Working(s, r) ==
  /\ \/ h[s].pc \in {"find", "replay", "process", "reverse", "provider", "rollback", "complete", "fail"}
     \/ h[s].pc = "cache" /\ h[s].next \in {"find", "reverse"}
  /\ h[s].id = r

\* Nothing was done for r, and no request is at work on it.
Untouched(r) == reversals[r] = 0 /\ ~paidOut[r] /\ \A s \in Slots : ~Working(s, r)

\* While a refund has no row, or is pending, nothing was done for it; the request that makes
\* its row is alone; a rejection that is let in finds nothing done and no approval let in,
\* and what it has written stays, unless the two crossed.
DecidedOnce(r) ==
  /\ refund[r].status \in {NoStatus, "pending"} => ~rejected[r] /\ Untouched(r)
  /\ \A s \in Slots : h[s].pc \in {"exists", "insert"} /\ h[s].id = r =>
       /\ refund[r].status = NoStatus
       /\ \A t \in Slots \ {s} : h[t].pc # "idle" => h[t].id # r
  /\ ~crossed[r] =>
       /\ \A s \in Slots : LetIn(s, "reject", r) =>
            /\ refund[r].status \in {"pending", "rejected"} /\ Untouched(r)
            /\ \A t \in Slots : ~LetIn(t, "approve", r)
       /\ \A s \in Slots : LetIn(s, "approve", r) => ~rejected[r]
       /\ rejected[r] => refund[r].status \in {"rejected", Gone} /\ Untouched(r)

RefundInv ==
  /\ RefundTypeOK
  /\ RequestsShaped
  /\ \A i \in Ids : TakenFirst(i)
  /\ \A r \in Refunds : DebitsAlone(r) /\ DecidedOnce(r)

-----------------------------------------------------------------------------
(* What a request's step does                                               *)

\* A request goes on about its refund or ends; the others rest.
MovesOn(s) ==
  /\ h' \in [Slots -> Request \cup {Vacant}]
  /\ \A t \in Slots \ {s} : h'[t] = h[t]
  /\ h'[s].pc # "idle" => h'[s].kind = h[s].kind /\ h'[s].id = h[s].id

LEMMA VacantIsNone == Vacant.pc = "idle" /\ Vacant \notin Request /\ "idle" \notin RefundSteps
  BY DEF Vacant, Request, RefundSteps

LEMMA RequestFields ==
  ASSUME RefundTypeOK, NEW s \in Slots, h[s].pc # "idle"
  PROVE  /\ h[s] \in Request /\ h[s].kind \in Kinds /\ h[s].pay \in Payments /\ h[s].id \in Ids
         /\ h[s].pc \in RefundSteps /\ h[s].st \in Statuses \cup {NoStatus, Gone}
         /\ h[s].next \in RefundSteps \cup {"end"}
<1>1. h[s] \in Request
  BY VacantIsNone DEF RefundTypeOK
<1>2. QED
  BY <1>1 DEF Request

LEMMA SpendTakes ==
  ASSUME RefundTypeOK, NEW k \in Kinds \cup {"fault"}, Spend(k)
  PROVE  /\ used' \in [DOMAIN Budget -> Nat]
         /\ used'["fault"] = 0 => used["fault"] = 0 /\ k # "fault"
<1>1. used \in [Kinds \cup {"fault"} -> Nat] /\ DOMAIN Budget = Kinds \cup {"fault"}
  BY RefundAssumption DEF RefundTypeOK
<1>2. used' = [used EXCEPT ![k] = used[k] + 1] /\ used[k] \in Nat /\ used[k] + 1 \in Nat
  BY <1>1 DEF Spend
<1>3. used' \in [Kinds \cup {"fault"} -> Nat]
  BY <1>1, <1>2
<1>4. k = "fault" => used'["fault"] # 0
  BY <1>1, <1>2
<1>5. k # "fault" => used'["fault"] = used["fault"]
  BY <1>1, <1>2
<1>6. QED
  BY <1>1, <1>3, <1>4, <1>5

LEMMA GoDoes ==
  ASSUME RefundTypeOK, NEW s \in Slots, h[s].pc # "idle", NEW to \in RefundSteps \cup {"end"}, Go(s, to)
  PROVE  /\ MovesOn(s)
         /\ (to = "end" /\ h'[s].pc = "idle") \/ (to # "end" /\ h'[s].pc = to /\ h'[s].next = h[s].next)
<1>1. h \in [Slots -> Request \cup {Vacant}] /\ h[s] \in Request
  BY RequestFields DEF RefundTypeOK
<1>2. CASE to = "end"
  <2>1. h' = [h EXCEPT ![s] = Vacant]
    BY <1>2 DEF Go
  <2>2. QED
    BY <1>1, <1>2, <2>1, VacantIsNone DEF MovesOn
<1>3. CASE to # "end"
  <2> DEFINE r == [h[s] EXCEPT !.pc = to]
  <2>1. h' = [h EXCEPT ![s] = r]
    BY <1>3 DEF Go
  <2>2. r \in Request /\ r.kind = h[s].kind /\ r.id = h[s].id /\ r.pc = to /\ r.next = h[s].next
    BY <1>1, <1>3 DEF Request
  <2>3. QED
    <3> HIDE DEF r
    <3> QED
      BY <1>1, <1>3, <2>1, <2>2 DEF MovesOn
<1>4. QED
  BY <1>2, <1>3

LEMMA GoCacheDoes ==
  ASSUME RefundTypeOK, NEW s \in Slots, h[s].pc # "idle",
         NEW st \in Statuses \cup {NoStatus, Gone}, NEW next \in RefundSteps \cup {"end"},
         GoCache(s, st, next)
  PROVE  MovesOn(s) /\ h'[s].pc = "cache" /\ h'[s].st = st /\ h'[s].next = next
<1> DEFINE r == [h[s] EXCEPT !.pc = "cache", !.st = st, !.next = next]
<1>1. h \in [Slots -> Request \cup {Vacant}] /\ h[s] \in Request
  BY RequestFields DEF RefundTypeOK
<1>2. h' = [h EXCEPT ![s] = r]
  BY DEF GoCache
<1>3. r \in Request /\ r.kind = h[s].kind /\ r.id = h[s].id /\ r.pc = "cache" /\ r.st = st /\ r.next = next
  BY <1>1 DEF Request, RefundSteps
<1>4. QED
  <2> HIDE DEF r
  <2> QED
    BY <1>1, <1>2, <1>3 DEF MovesOn

\* A request starts about a refund.
Opens(s, kind, i, at) ==
  /\ h[s].pc = "idle"
  /\ h' \in [Slots -> Request \cup {Vacant}]
  /\ \A t \in Slots \ {s} : h'[t] = h[t]
  /\ h'[s].kind = kind /\ h'[s].id = i /\ h'[s].pc = at /\ h'[s].next = "end"
  /\ used' \in [DOMAIN Budget -> Nat] /\ (used'["fault"] = 0 => used["fault"] = 0)

LEMMA BeginOpens ==
  ASSUME RefundTypeOK, NEW s \in Slots, NEW kind \in Kinds, NEW p \in Payments, NEW i \in Ids,
         NEW at \in RefundSteps, Begin(s, kind, p, i, at)
  PROVE  Opens(s, kind, i, at)
<1> DEFINE r == [kind |-> kind, pay |-> p, id |-> i, pc |-> at, st |-> NoStatus, next |-> "end"]
<1>1. h \in [Slots -> Request \cup {Vacant}] /\ h[s] = Vacant /\ h' = [h EXCEPT ![s] = r]
  BY DEF RefundTypeOK, Begin
<1>2. r \in Request
  BY DEF Request
<1>3. h'[s] = r /\ \A t \in Slots \ {s} : h'[t] = h[t]
  BY <1>1
<1>4. h' \in [Slots -> Request \cup {Vacant}]
  <2> HIDE DEF r
  <2> QED
    BY <1>1, <1>2
<1>5. used' \in [DOMAIN Budget -> Nat] /\ (used'["fault"] = 0 => used["fault"] = 0)
  BY SpendTakes DEF Begin
<1>6. QED
  BY <1>1, <1>3, <1>4, <1>5, VacantIsNone DEF Opens

-----------------------------------------------------------------------------
RefundRow == [status : Statuses \cup {NoStatus, Gone}, pay : Payments]

\* What used allows: a step that leaves it without a fault found it without one.
Counted == used' \in [DOMAIN Budget -> Nat] /\ (used'["fault"] = 0 => used["fault"] = 0)

LEMMA CountedDoes ==
  ASSUME RefundTypeOK
  PROVE  /\ UNCHANGED used => Counted
         /\ Spend("fault") => Counted /\ used'["fault"] # 0
  BY SpendTakes DEF Counted, RefundTypeOK

\* updateRefundStatus writes the status or is told of an error.
LEMMA UpdateDoes ==
  ASSUME RefundTypeOK, NEW s \in Slots, h[s].pc # "idle", h[s].id \in Refunds,
         NEW status \in Statuses, NEW next \in RefundSteps \cup {"end"},
         NEW onNull \in RefundSteps \cup {"end"}, UpdateStatus(s, status, next, onNull)
  PROVE  /\ MovesOn(s) /\ Counted /\ refund' \in [Refunds -> RefundRow]
         /\ rejected' \in [Refunds -> BOOLEAN]
         /\ UNCHANGED <<copy, balance, lastKind, reversals, rollbacks, paidOut, overlapped, crossed>>
         /\ \/ /\ h'[s].pc = "cache" /\ h'[s].st = status /\ h'[s].next = next
               /\ refund'[h[s].id].status = status
               /\ rejected'[h[s].id] = (rejected[h[s].id] \/ status = "rejected")
               /\ \A r \in Refunds \ {h[s].id} : refund'[r] = refund[r] /\ rejected'[r] = rejected[r]
            \/ /\ used'["fault"] # 0 /\ refund' = refund /\ rejected' = rejected
               /\ (onNull = "end" /\ h'[s].pc = "idle") \/ (onNull # "end" /\ h'[s].pc = onNull)
<1>0. UNCHANGED <<copy, balance, lastKind, reversals, rollbacks, paidOut, overlapped, crossed>>
  BY DEF UpdateStatus, ledgerVars, moneyVars
<1>t. refund \in [Refunds -> RefundRow] /\ rejected \in [Refunds -> BOOLEAN]
  BY DEF RefundTypeOK, RefundRow
<1>1. CASE /\ refund' = [refund EXCEPT ![h[s].id].status = status]
           /\ rejected' = [rejected EXCEPT ![h[s].id] = @ \/ status = "rejected"]
           /\ GoCache(s, status, next) /\ UNCHANGED used
  <2>1. MovesOn(s) /\ h'[s].pc = "cache" /\ h'[s].st = status /\ h'[s].next = next
    BY <1>1, GoCacheDoes
  <2>2. [refund[h[s].id] EXCEPT !.status = status] \in RefundRow
    BY <1>t DEF RefundRow
  <2>3. refund' \in [Refunds -> RefundRow]
    BY <1>1, <1>t, <2>2
  <2>4. refund'[h[s].id].status = status /\ \A r \in Refunds \ {h[s].id} : refund'[r] = refund[r]
    BY <1>1, <1>t DEF RefundRow
  <2>5. /\ rejected' \in [Refunds -> BOOLEAN]
        /\ rejected'[h[s].id] = (rejected[h[s].id] \/ status = "rejected")
        /\ \A r \in Refunds \ {h[s].id} : rejected'[r] = rejected[r]
    BY <1>1, <1>t
  <2>6. QED
    BY <1>0, <1>1, <2>1, <2>3, <2>4, <2>5, CountedDoes
<1>2. CASE Spend("fault") /\ Go(s, onNull) /\ UNCHANGED <<refund, rejected>>
  BY <1>0, <1>t, <1>2, GoDoes, CountedDoes
<1>3. QED
  BY <1>1, <1>2 DEF UpdateStatus

LEMMA CheckExistingDoes ==
  ASSUME RefundTypeOK, NEW s \in Slots, CheckExisting(s)
  PROVE  /\ MovesOn(s) /\ Counted /\ h[s].pc = "exists" /\ h'[s].pc \in {"idle", "insert"}
         /\ UNCHANGED <<refund, copy, balance, lastKind, reversals, rollbacks, paidOut, overlapped, rejected, crossed>>
<1>1. /\ h[s].pc = "exists" /\ Counted
      /\ UNCHANGED <<refund, copy, balance, lastKind, reversals, rollbacks, paidOut, overlapped, rejected, crossed>>
  BY CountedDoes DEF CheckExisting, ledgerVars, moneyVars, pastVars
<1>2. "insert" \in RefundSteps /\ (Go(s, "end") \/ Go(s, "insert"))
  BY DEF CheckExisting, RefundSteps
<1>3. QED
  BY <1>1, <1>2, GoDoes

LEMMA InsertDoes ==
  ASSUME RefundTypeOK, NEW s \in Slots, Insert(s), h[s].id \in Refunds
  PROVE  /\ MovesOn(s) /\ Counted /\ h[s].pc = "insert" /\ refund' \in [Refunds -> RefundRow]
         /\ h'[s].pc = "cache" /\ h'[s].st = "pending" /\ h'[s].next = "end"
         /\ refund'[h[s].id].status = "pending" /\ \A r \in Refunds \ {h[s].id} : refund'[r] = refund[r]
         /\ UNCHANGED <<copy, balance, lastKind, reversals, rollbacks, paidOut, overlapped, rejected, crossed>>
<1>1. /\ h[s].pc = "insert" /\ Counted /\ GoCache(s, "pending", "end")
      /\ refund' = [refund EXCEPT ![h[s].id] = [status |-> "pending", pay |-> h[s].pay]]
      /\ UNCHANGED <<copy, balance, lastKind, reversals, rollbacks, paidOut, overlapped, rejected, crossed>>
  BY CountedDoes DEF Insert, ledgerVars, moneyVars, pastVars
<1>2. [status |-> "pending", pay |-> h[s].pay] \in RefundRow /\ "pending" \in Statuses
  BY <1>1, RequestFields DEF RefundRow, Statuses
<1>3. refund \in [Refunds -> RefundRow]
  BY DEF RefundTypeOK, RefundRow
<1>4. refund' \in [Refunds -> RefundRow]
  BY <1>1, <1>2, <1>3
<1>5. refund'[h[s].id].status = "pending" /\ \A r \in Refunds \ {h[s].id} : refund'[r] = refund[r]
  BY <1>1, <1>3
<1>6. QED
  BY <1>1, <1>2, <1>4, <1>5, GoCacheDoes

\* The refund of request s is pending, and nobody is about to decide it the other way.
OnlyDecision(s) ==
  /\ refund[h[s].id].status = "pending"
  /\ \A t \in Slots, kind \in {"approve", "reject"} \ {h[s].kind} : ~LetIn(t, kind, h[s].id)

LEMMA GetRefundDoes ==
  ASSUME RefundTypeOK, NEW s \in Slots, GetRefund(s), h[s].id \in Refunds,
         h[s].kind \in {"approve", "reject"}, refund[h[s].id].status \in Statuses
  PROVE  /\ MovesOn(s) /\ Counted /\ h[s].pc = "get"
         /\ \/ h'[s].pc \in {"idle", "approve", "reject"}
            \/ h'[s].pc = "cache" /\ h'[s].st \in Statuses /\ h'[s].next \in {"end", "approve", "reject"}
         /\ UNCHANGED <<refund, copy, balance, lastKind, reversals, rollbacks, paidOut, overlapped, rejected>>
         /\ crossed' \in [Refunds -> BOOLEAN] /\ \A r \in Refunds : crossed[r] => crossed'[r]
         /\ \/ h'[s].pc = "idle" \/ (h'[s].pc = "cache" /\ h'[s].next = "end")
            \/ /\ h'[s].pc = h[s].kind \/ (h'[s].pc = "cache" /\ h'[s].next = h[s].kind)
               /\ crossed'[h[s].id] \/ OnlyDecision(s)
<1> DEFINE r == h[s].id
           read == IF copy[r] # NoStatus THEN copy[r] ELSE refund[r].status
           next == AfterGet(h[s].kind, read)
<1>1. /\ h[s].pc = "get" /\ Counted
      /\ UNCHANGED <<refund, copy, balance, lastKind, reversals, rollbacks, paidOut, overlapped, rejected>>
  BY CountedDoes DEF GetRefund, ledgerVars, moneyVars
<1>2. /\ next = "end" \/ (next = h[s].kind /\ read = "pending")
      /\ "approve" \in RefundSteps /\ "reject" \in RefundSteps
      /\ read \in Statuses /\ crossed \in [Refunds -> BOOLEAN]
  BY DEF AfterGet, RefundSteps, RefundTypeOK
<1>3. CASE /\ IF copy[r] # NoStatus THEN Go(s, next) ELSE GoCache(s, read, next)
           /\ crossed' = [crossed EXCEPT ![r] = @ \/ (next # "end" /\ Crosses(s, read))]
  <2>1. /\ MovesOn(s)
        /\ \/ next = "end" /\ h'[s].pc = "idle"
           \/ next # "end" /\ h'[s].pc = next
           \/ h'[s].pc = "cache" /\ h'[s].st = read /\ h'[s].next = next
    <3> HIDE DEF next, read
    <3>1. next \in RefundSteps \cup {"end"} /\ read \in Statuses \cup {NoStatus, Gone} /\ h[s].pc # "idle"
      BY <1>1, <1>2
    <3>2. CASE Go(s, next)
      BY <3>1, <3>2, GoDoes
    <3>3. CASE GoCache(s, read, next)
      BY <3>1, <3>3, GoCacheDoes
    <3>4. QED
      BY <1>3, <3>2, <3>3
  <2>2. PICK c \in BOOLEAN : c = (next # "end" /\ Crosses(s, read))
    OBVIOUS
  <2>3. crossed' = [crossed EXCEPT ![r] = crossed[r] \/ c]
    BY <1>3, <2>2, Zenon
  <2>4. crossed' \in [Refunds -> BOOLEAN] /\ (\A q \in Refunds : crossed[q] => crossed'[q]) /\ (c => crossed'[r])
    BY <1>2, <2>3
  <2>5. (next # "end" /\ ~crossed'[r]) => OnlyDecision(s)
    BY <1>2, <2>2, <2>4 DEF Crosses, OnlyDecision
  <2>6. QED
    <3> HIDE DEF next, read
    <3> QED
      BY <1>1, <1>2, <2>1, <2>4, <2>5
<1>4. CASE Spend("fault") /\ Go(s, "end") /\ UNCHANGED crossed
  BY <1>1, <1>2, <1>4, GoDoes
<1>5. QED
  BY <1>3, <1>4 DEF GetRefund

LEMMA FindReversalDoes ==
  ASSUME RefundTypeOK, NEW s \in Slots, FindReversal(s), h[s].id \in Refunds
  PROVE  /\ MovesOn(s) /\ Counted /\ h[s].pc = "find" /\ overlapped' \in [Refunds -> BOOLEAN]
         /\ \/ h'[s].pc = "replay" /\ overlapped' = overlapped
            \/ /\ h'[s].pc = "process" /\ reversals[h[s].id] = 0
               /\ \A r \in Refunds : overlapped[r] => overlapped'[r]
               /\ (\E t \in Slots \ {s} : Debiting(t, h[s].id)) => overlapped'[h[s].id]
            \/ h'[s].pc = "fail" /\ used'["fault"] # 0 /\ overlapped' = overlapped
         /\ UNCHANGED <<refund, copy, balance, lastKind, reversals, rollbacks, paidOut, rejected, crossed>>
<1>1. /\ h[s].pc = "find" /\ Counted
      /\ UNCHANGED <<refund, copy, balance, lastKind, reversals, rollbacks, paidOut, rejected, crossed>>
  BY CountedDoes DEF FindReversal, ledgerVars, moneyVars
<1>2. "replay" \in RefundSteps /\ "process" \in RefundSteps /\ "fail" \in RefundSteps
  BY DEF RefundSteps
<1>3. overlapped \in [Refunds -> BOOLEAN] /\ reversals[h[s].id] \in Nat
  BY DEF RefundTypeOK, Ids
<1>4. CASE Go(s, "replay") /\ UNCHANGED overlapped
  BY <1>1, <1>2, <1>3, <1>4, GoDoes
<1>5. CASE /\ ~(reversals[h[s].id] > 0) /\ Go(s, "process")
           /\ overlapped' = [overlapped EXCEPT ![h[s].id] = @ \/
                \E t \in Slots \ {s} :
                  /\ h[t] # Vacant /\ h[t].id = h[s].id
                  /\ \/ h[t].pc \in {"process", "reverse"}
                     \/ h[t].pc = "cache" /\ h[t].next = "reverse"]
  <2>1. reversals[h[s].id] = 0 /\ h'[s].pc = "process" /\ MovesOn(s)
    BY <1>1, <1>2, <1>3, <1>5, GoDoes
  <2>2. overlapped' \in [Refunds -> BOOLEAN] /\ \A r \in Refunds : overlapped[r] => overlapped'[r]
    BY <1>3, <1>5
  <2>3. ASSUME NEW t \in Slots \ {s}, Debiting(t, h[s].id) PROVE overlapped'[h[s].id]
    <3>1. h[t] # Vacant
      BY <2>3, VacantIsNone DEF Debiting
    <3>2. QED
      BY <1>3, <1>5, <2>3, <3>1 DEF Debiting
  <2>4. QED
    BY <1>1, <2>1, <2>2, <2>3
<1>6. CASE Spend("fault") /\ Go(s, "fail") /\ UNCHANGED overlapped
  BY <1>1, <1>2, <1>3, <1>6, GoDoes, CountedDoes
<1>7. QED
  BY <1>4, <1>5, <1>6 DEF FindReversal

LEMMA FailedType ==
  ASSUME NEW s
  PROVE  /\ Failed(s) \in RefundSteps \cup {"end"} /\ Failed(s) \in {"fail", "end"}
         /\ h[s].kind # "manual" => Failed(s) = "fail"
  BY DEF Failed, RefundSteps

LEMMA ReverseDoes ==
  ASSUME RefundTypeOK, NEW s \in Slots, Reverse(s)
  PROVE  /\ MovesOn(s) /\ Counted /\ h[s].pc = "reverse" /\ balance' \in [Users -> Int]
         /\ reversals' \in [Ids -> Nat]
         /\ \/ /\ reversals'[h[s].id] = reversals[h[s].id] + 1
               /\ \A i \in Ids \ {h[s].id} : reversals'[i] = reversals[i]
               /\ h'[s].pc \in {"provider", "fail", "idle"}
            \/ reversals' = reversals /\ h'[s].pc \in {"fail", "idle"}
         /\ h[s].kind # "manual" => h'[s].pc # "idle"
         /\ UNCHANGED <<refund, copy, rollbacks, paidOut, overlapped, rejected, crossed>>
<1>1. /\ h[s].pc = "reverse" /\ Counted
      /\ UNCHANGED <<refund, copy, rollbacks, paidOut, overlapped, rejected, crossed>>
  BY CountedDoes DEF Reverse, pastVars
<1>2. /\ h[s].id \in Ids /\ balance \in [Users -> Int] /\ reversals \in [Ids -> Nat]
      /\ "provider" \in RefundSteps
  BY <1>1, RequestFields DEF RefundTypeOK, RefundSteps
<1>3. MovesOn(s) /\ h'[s].pc \in {"provider", "fail", "idle"} /\ (h[s].kind # "manual" => h'[s].pc # "idle")
  <2>1. Go(s, "provider") \/ Go(s, Failed(s))
    BY DEF Reverse
  <2>2. QED
    BY <1>1, <1>2, <2>1, GoDoes, FailedType
<1>4. CASE /\ Ledger!Debit(User, Price)
           /\ reversals' = [reversals EXCEPT ![h[s].id] = @ + 1]
  <2>1. balance' \in [Users -> Int]
    <3>1. balance' = [balance EXCEPT ![User] = balance[User] - Price] /\ balance[User] - Price \in Int
      BY <1>2, <1>4, RefundAssumption DEF Ledger!Debit, Ledger!Change
    <3>2. QED
      BY <1>2, <3>1
  <2>2. /\ reversals' \in [Ids -> Nat] /\ reversals'[h[s].id] = reversals[h[s].id] + 1
        /\ \A i \in Ids \ {h[s].id} : reversals'[i] = reversals[i]
    BY <1>2, <1>4
  <2>3. QED
    BY <1>1, <1>3, <2>1, <2>2
<1>5. CASE Go(s, Failed(s)) /\ UNCHANGED <<ledgerVars, reversals>>
  <2>1. h'[s].pc \in {"fail", "idle"}
    BY <1>1, <1>5, GoDoes, FailedType
  <2>2. QED
    BY <1>1, <1>2, <1>3, <1>5, <2>1 DEF ledgerVars
<1>6. QED
  BY <1>4, <1>5 DEF Reverse

LEMMA TriggerProviderDoes ==
  ASSUME RefundTypeOK, NEW s \in Slots, TriggerProvider(s)
  PROVE  /\ MovesOn(s) /\ Counted /\ h[s].pc = "provider" /\ paidOut' \in [Ids -> BOOLEAN]
         /\ h'[s].pc \in {"idle", "complete", "rollback", "fail"}
         /\ h[s].kind # "manual" => h'[s].pc # "idle"
         /\ h[s].kind = "manual" => h'[s].pc \in {"idle", "rollback"}
         /\ \A i \in Ids \ {h[s].id} : paidOut'[i] = paidOut[i]
         /\ UNCHANGED <<refund, copy, balance, lastKind, reversals, rollbacks, overlapped, rejected, crossed>>
<1>1. /\ h[s].pc = "provider" /\ Counted
      /\ UNCHANGED <<refund, copy, balance, lastKind, reversals, rollbacks, overlapped, rejected, crossed>>
  BY CountedDoes DEF TriggerProvider, ledgerVars, pastVars
<1>2. /\ paidOut \in [Ids -> BOOLEAN] /\ "complete" \in RefundSteps /\ "rollback" \in RefundSteps
  BY DEF RefundTypeOK, RefundSteps
<1>3. paidOut' = paidOut \/ paidOut' = [paidOut EXCEPT ![h[s].id] = TRUE]
  BY DEF TriggerProvider
<1>4. paidOut' \in [Ids -> BOOLEAN] /\ \A i \in Ids \ {h[s].id} : paidOut'[i] = paidOut[i]
  BY <1>2, <1>3
<1>5. \/ Go(s, "end") /\ h[s].kind = "manual"
      \/ Go(s, "complete") /\ h[s].kind # "manual"
      \/ Go(s, "rollback")
      \/ Go(s, Failed(s))
  BY DEF TriggerProvider
<1>6. QED
  BY <1>1, <1>2, <1>4, <1>5, GoDoes, FailedType DEF Failed

LEMMA RollbackDoes ==
  ASSUME RefundTypeOK, NEW s \in Slots, Rollback(s)
  PROVE  /\ MovesOn(s) /\ Counted /\ h[s].pc = "rollback" /\ balance' \in [Users -> Int]
         /\ rollbacks' \in [Ids -> Nat]
         /\ h'[s].pc \in {"fail", "idle"} /\ (h[s].kind # "manual" => h'[s].pc # "idle")
         /\ h[s].kind = "manual" => h'[s].pc = "idle"
         /\ rollbacks' = rollbacks \/ rollbacks'[h[s].id] = rollbacks[h[s].id] + 1
         /\ \A i \in Ids \ {h[s].id} : rollbacks'[i] = rollbacks[i]
         /\ UNCHANGED <<refund, copy, reversals, paidOut, overlapped, rejected, crossed>>
<1>1. /\ h[s].pc = "rollback" /\ Counted
      /\ UNCHANGED <<refund, copy, reversals, paidOut, overlapped, rejected, crossed>>
  BY CountedDoes DEF Rollback, pastVars
<1>2. h[s].id \in Ids /\ balance \in [Users -> Int] /\ rollbacks \in [Ids -> Nat]
  BY <1>1, RequestFields DEF RefundTypeOK
<1>3. /\ MovesOn(s) /\ h'[s].pc \in {"fail", "idle"} /\ (h[s].kind # "manual" => h'[s].pc # "idle")
      /\ h[s].kind = "manual" => h'[s].pc = "idle"
  <2>1. Go(s, Failed(s))
    BY DEF Rollback
  <2>2. QED
    BY <1>1, <2>1, GoDoes, FailedType DEF Failed
<1>4. CASE /\ Ledger!Deposit(User, "refund", Price)
           /\ rollbacks' = [rollbacks EXCEPT ![h[s].id] = @ + 1]
  <2>1. balance' \in [Users -> Int]
    <3>1. balance' = [balance EXCEPT ![User] = balance[User] + Price] /\ balance[User] + Price \in Int
      BY <1>2, <1>4, RefundAssumption DEF Ledger!Deposit, Ledger!Change
    <3>2. QED
      BY <1>2, <3>1
  <2>2. /\ rollbacks' \in [Ids -> Nat] /\ rollbacks'[h[s].id] = rollbacks[h[s].id] + 1
        /\ \A i \in Ids \ {h[s].id} : rollbacks'[i] = rollbacks[i]
    BY <1>2, <1>4
  <2>3. QED
    BY <1>1, <1>3, <2>1, <2>2
<1>5. CASE UNCHANGED <<ledgerVars, rollbacks>>
  BY <1>1, <1>2, <1>3, <1>5 DEF ledgerVars
<1>6. QED
  BY <1>4, <1>5 DEF Rollback

LEMMA CacheRefundDoes ==
  ASSUME RefundTypeOK, NEW s \in Slots, CacheRefund(s), h[s].id \in Refunds, h[s].st \in Statuses
  PROVE  /\ MovesOn(s) /\ Counted /\ h[s].pc = "cache" /\ copy' \in [Refunds -> Statuses \cup {NoStatus}]
         /\ \/ h[s].next = "end" /\ h'[s].pc = "idle"
            \/ h[s].next # "end" /\ h'[s].pc = h[s].next /\ h'[s].next = "end"
         /\ UNCHANGED <<refund, balance, lastKind, reversals, rollbacks, paidOut, overlapped, rejected, crossed>>
<1>1. /\ h[s].pc = "cache" /\ Counted
      /\ UNCHANGED <<refund, balance, lastKind, reversals, rollbacks, paidOut, overlapped, rejected, crossed>>
  BY CountedDoes DEF CacheRefund, ledgerVars, moneyVars, pastVars
<1>2. h \in [Slots -> Request \cup {Vacant}] /\ h[s] \in Request
  BY <1>1, RequestFields DEF RefundTypeOK
<1>3. copy' \in [Refunds -> Statuses \cup {NoStatus}]
  BY DEF CacheRefund, RefundTypeOK
<1>4. CASE h[s].next = "end"
  <2>1. h' = [h EXCEPT ![s] = Vacant]
    BY <1>4 DEF CacheRefund
  <2>2. QED
    BY <1>1, <1>2, <1>3, <1>4, <2>1, VacantIsNone DEF MovesOn
<1>5. CASE h[s].next # "end"
  <2> DEFINE r == [h[s] EXCEPT !.pc = h[s].next, !.st = NoStatus, !.next = "end"]
  <2>1. h' = [h EXCEPT ![s] = r]
    BY <1>5 DEF CacheRefund
  <2>2. /\ r \in Request /\ r.kind = h[s].kind /\ r.id = h[s].id
        /\ r.pc = h[s].next /\ r.next = "end"
    BY <1>2, <1>5 DEF Request
  <2>3. QED
    <3> HIDE DEF r
    <3> QED
      BY <1>1, <1>2, <1>3, <1>5, <2>1, <2>2 DEF MovesOn
<1>6. QED
  BY <1>4, <1>5

LEMMA CrashDoes ==
  ASSUME RefundTypeOK, NEW s \in Slots, Crash(s)
  PROVE  /\ MovesOn(s) /\ Counted /\ h[s].pc # "idle" /\ h'[s].pc = "idle" /\ used'["fault"] # 0
         /\ UNCHANGED <<refund, copy, balance, lastKind, reversals, rollbacks, paidOut, overlapped, rejected, crossed>>
<1>1. /\ h[s] # Vacant /\ h' = [h EXCEPT ![s] = Vacant] /\ Counted /\ used'["fault"] # 0
      /\ UNCHANGED <<refund, copy, balance, lastKind, reversals, rollbacks, paidOut, overlapped, rejected, crossed>>
  BY CountedDoes DEF Crash, ledgerVars, moneyVars, pastVars
<1>2. h \in [Slots -> Request \cup {Vacant}]
  BY DEF RefundTypeOK
<1>3. h[s].pc # "idle"
  BY <1>1, <1>2, VacantIsNone DEF Request
<1>4. QED
  BY <1>1, <1>2, <1>3, VacantIsNone DEF MovesOn

\* Who works on a row: not a refund by hand.
LEMMA WorksOnRow ==
  ASSUME RefundTypeOK, NEW s \in Slots, RequestShaped(s), h[s].pc # "idle"
  PROVE  /\ h[s].pc \notin {"reverse", "provider", "rollback"} =>
              h[s].id \in Refunds /\ h[s].kind # "manual"
         /\ h[s].pc \notin {"exists", "insert", "cache", "reverse", "provider", "rollback"} =>
              h[s].kind \in {"approve", "reject"}
  BY RequestFields DEF RequestShaped, Ids, Kinds

\* The six places where a status is written.
Rewrites(s) == Approve(s) \/ Reject(s) \/ Replay(s) \/ Process(s) \/ MarkFailed(s) \/ Complete(s)

LEMMA RewritesDo ==
  ASSUME RefundTypeOK, NEW s \in Slots, RequestShaped(s), Rewrites(s)
  PROVE  /\ MovesOn(s) /\ Counted /\ refund' \in [Refunds -> RefundRow]
         /\ rejected' \in [Refunds -> BOOLEAN]
         /\ h[s].pc \in {"approve", "reject", "replay", "process", "fail", "complete"}
         /\ h[s].id \in Refunds /\ h[s].kind \in {"approve", "reject"}
         /\ UNCHANGED <<copy, balance, lastKind, reversals, rollbacks, paidOut, overlapped, crossed>>
         /\ \/ /\ h'[s].pc = "cache" /\ h'[s].st \in Statuses /\ h'[s].next \in {"end", "find", "reverse"}
               /\ h'[s].next = "reverse" => h[s].pc = "process"
               /\ refund'[h[s].id].status \in Statuses
               /\ refund'[h[s].id].status \in {"approved", "processing"} => h'[s].next \in {"find", "reverse"}
               /\ \A r \in Refunds \ {h[s].id} : refund'[r] = refund[r]
            \/ /\ used'["fault"] # 0 /\ refund' = refund
               /\ h'[s].pc \in {"idle", "reverse", "fail"}
               /\ h'[s].pc = "reverse" => h[s].pc = "process"
<1>1. h[s].pc \in {"approve", "reject", "replay", "process", "fail", "complete"}
  BY DEF Rewrites, Approve, Reject, Replay, Process, MarkFailed, Complete
<1>2. h[s].id \in Refunds /\ h[s].kind \in {"approve", "reject"}
  BY <1>1, WorksOnRow
<1>3. PICK status \in Decided, next \in {"end", "find", "reverse"}, onNull \in {"end", "reverse", "fail"} :
        /\ UpdateStatus(s, status, next, onNull)
        /\ status \in {"approved", "processing"} => next \in {"find", "reverse"}
        /\ next = "reverse" \/ onNull = "reverse" => h[s].pc = "process"
  BY DEF Rewrites, Approve, Reject, Replay, Process, MarkFailed, Complete, Decided
<1>4. /\ status \in Statuses /\ next \in RefundSteps \cup {"end"} /\ onNull \in RefundSteps \cup {"end"}
  BY DEF Statuses, RefundSteps
<1>5. /\ MovesOn(s) /\ Counted /\ refund' \in [Refunds -> RefundRow]
      /\ rejected' \in [Refunds -> BOOLEAN]
      /\ UNCHANGED <<copy, balance, lastKind, reversals, rollbacks, paidOut, overlapped, crossed>>
      /\ \/ /\ h'[s].pc = "cache" /\ h'[s].st = status /\ h'[s].next = next
            /\ refund'[h[s].id].status = status
            /\ \A r \in Refunds \ {h[s].id} : refund'[r] = refund[r]
         \/ /\ used'["fault"] # 0 /\ refund' = refund
            /\ (onNull = "end" /\ h'[s].pc = "idle") \/ (onNull # "end" /\ h'[s].pc = onNull)
  BY <1>1, <1>2, <1>3, <1>4, UpdateDoes
<1>6. QED
  BY <1>1, <1>2, <1>3, <1>4, <1>5

\* The steps of a request, by what they write.
LEMMA StepCases ==
  ASSUME NEW s, Step(s) \/ Crash(s)
  PROVE  \/ Rewrites(s) \/ CheckExisting(s) \/ Insert(s) \/ GetRefund(s) \/ FindReversal(s)
         \/ Reverse(s) \/ TriggerProvider(s) \/ Rollback(s) \/ CacheRefund(s) \/ Crash(s)
  BY DEF Step, Rewrites

\* Every step of a request keeps the types, and its own shape.
LEMMA StepKeeps ==
  ASSUME RefundTypeOK, NEW s \in Slots, RequestShaped(s), Step(s) \/ Crash(s)
  PROVE  /\ MovesOn(s) /\ Counted /\ h[s].pc # "idle" /\ RefundTypeOK'
         /\ \A r \in Refunds : refund[r].status \in Statuses => refund'[r].status \in Statuses
         /\ RequestShaped(s)'
<1>a. /\ refund \in [Refunds -> RefundRow] /\ copy \in [Refunds -> Statuses \cup {NoStatus}]
      /\ balance \in [Users -> Int] /\ reversals \in [Ids -> Nat] /\ rollbacks \in [Ids -> Nat]
      /\ paidOut \in [Ids -> BOOLEAN] /\ overlapped \in [Refunds -> BOOLEAN]
      /\ rejected \in [Refunds -> BOOLEAN] /\ crossed \in [Refunds -> BOOLEAN]
  BY DEF RefundTypeOK, RefundRow
<1>b. ASSUME MovesOn(s), Counted, h[s].pc # "idle",
             refund' \in [Refunds -> RefundRow], copy' \in [Refunds -> Statuses \cup {NoStatus}],
             balance' \in [Users -> Int], reversals' \in [Ids -> Nat], rollbacks' \in [Ids -> Nat],
             paidOut' \in [Ids -> BOOLEAN], overlapped' \in [Refunds -> BOOLEAN],
             rejected' \in [Refunds -> BOOLEAN], crossed' \in [Refunds -> BOOLEAN]
      PROVE  RefundTypeOK'
  BY <1>b DEF RefundTypeOK, RefundRow, MovesOn, Counted
\* What the shape asks of a request that goes on.
<1>c. ASSUME MovesOn(s), h[s].pc # "idle",
             h'[s].pc # "idle" =>
               /\ h[s].kind = "manual" => h'[s].pc \in {"reverse", "provider", "rollback"}
               /\ h[s].kind = "initiate" => h'[s].pc = "insert" \/ (h'[s].pc = "cache" /\ h'[s].next = "end")
               /\ h[s].kind \in {"approve", "reject"} =>
                    h'[s].pc \notin {"exists", "insert"} /\ refund'[h[s].id].status \in Statuses
               /\ h'[s].pc = "cache" => h'[s].st \in Statuses /\ h'[s].next \in {"end", "approve", "reject", "find", "reverse"}
      PROVE  RequestShaped(s)'
  BY <1>c DEF MovesOn, RequestShaped
<1>d. /\ h[s].pc # "idle" =>
           /\ (h[s].kind = "manual") <=> (h[s].id = Manual)
           /\ h[s].kind = "manual" => h[s].pc \in {"reverse", "provider", "rollback"}
           /\ h[s].kind = "initiate" => h[s].pc \in {"exists", "insert"} \/ (h[s].pc = "cache" /\ h[s].next = "end")
           /\ h[s].kind \in {"approve", "reject"} =>
                h[s].pc \notin {"exists", "insert"} /\ refund[h[s].id].status \in Statuses
           /\ h[s].pc = "cache" => h[s].st \in Statuses /\ h[s].next \in {"end", "approve", "reject", "find", "reverse"}
  BY DEF RequestShaped
<1>e. "pending" \in Statuses
  BY DEF Statuses
<1>f. refund' = refund => \A r \in Refunds : refund[r].status \in Statuses => refund'[r].status \in Statuses
  OBVIOUS
<1>1. CASE Rewrites(s)
  <2>1. MovesOn(s) /\ Counted /\ h[s].pc # "idle" /\ RefundTypeOK'
    BY <1>1, <1>a, <1>b, RewritesDo
  <2>2. \A r \in Refunds : refund[r].status \in Statuses => refund'[r].status \in Statuses
    BY <1>1, RewritesDo
  <2>3. refund'[h[s].id].status \in Statuses
    BY <1>1, <1>d, <2>1, <2>2, RewritesDo
  <2>4. RequestShaped(s)'
    BY <1>1, <1>c, <2>1, <2>3, RewritesDo
  <2>5. QED
    BY <2>1, <2>2, <2>4
<1>2. CASE CheckExisting(s)
  BY <1>2, <1>a, <1>b, <1>c, <1>d, <1>f, CheckExistingDoes
<1>3. CASE Insert(s)
  <2>1. h[s].pc = "insert" /\ h[s].id \in Refunds /\ h[s].kind # "manual"
    BY <1>3, WorksOnRow DEF Insert
  <2>2. MovesOn(s) /\ Counted /\ RefundTypeOK'
    BY <1>3, <1>a, <1>b, <2>1, InsertDoes
  <2>3. \A r \in Refunds : refund[r].status \in Statuses => refund'[r].status \in Statuses
    BY <1>3, <1>e, <2>1, InsertDoes
  <2>4. RequestShaped(s)'
    BY <1>3, <1>c, <1>d, <1>e, <2>1, <2>2, InsertDoes
  <2>5. QED
    BY <2>1, <2>2, <2>3, <2>4
<1>4. CASE GetRefund(s)
  <2>1. h[s].pc = "get" /\ h[s].id \in Refunds /\ h[s].kind \in {"approve", "reject"}
    BY <1>4, WorksOnRow DEF GetRefund
  <2>2. QED
    BY <1>4, <1>a, <1>b, <1>c, <1>d, <1>f, <2>1, GetRefundDoes
<1>5. CASE FindReversal(s)
  <2>1. h[s].pc = "find" /\ h[s].id \in Refunds /\ h[s].kind \in {"approve", "reject"}
    BY <1>5, WorksOnRow DEF FindReversal
  <2>2. QED
    BY <1>5, <1>a, <1>b, <1>c, <1>d, <1>f, <2>1, FindReversalDoes
<1>6. CASE Reverse(s)
  <2>1. MovesOn(s) /\ Counted /\ h[s].pc = "reverse" /\ RefundTypeOK' /\ refund' = refund
    BY <1>6, <1>a, <1>b, ReverseDoes
  <2>2. /\ h'[s].pc \in {"provider", "fail", "idle"} /\ (h[s].kind = "manual" => h'[s].pc # "fail")
    BY <1>6, <2>1, ReverseDoes, GoDoes, RequestFields, FailedType DEF Reverse, Failed, RefundSteps
  <2>3. QED
    BY <1>c, <1>d, <1>f, <2>1, <2>2
<1>7. CASE TriggerProvider(s)
  BY <1>7, <1>a, <1>b, <1>c, <1>d, <1>f, TriggerProviderDoes
<1>8. CASE Rollback(s)
  BY <1>8, <1>a, <1>b, <1>c, <1>d, <1>f, RollbackDoes
<1>9. CASE CacheRefund(s)
  <2>1. h[s].pc = "cache" /\ h[s].id \in Refunds /\ h[s].st \in Statuses
    BY <1>9, <1>d, WorksOnRow DEF CacheRefund
  <2>2. QED
    BY <1>9, <1>a, <1>b, <1>c, <1>d, <1>f, <2>1, CacheRefundDoes
<1>10. CASE Crash(s)
  BY <1>10, <1>a, <1>b, <1>c, <1>f, CrashDoes
<1>11. QED
  BY <1>1, <1>2, <1>3, <1>4, <1>5, <1>6, <1>7, <1>8, <1>9, <1>10, StepCases

\* How a request starts, and what nobody's step touches.
LEMMA StartDo ==
  ASSUME RefundTypeOK, NEW s \in Slots,
         (\E p \in Payments : ManualRefund(s, p) \/ \E r \in Refunds : Initiate(s, p, r))
           \/ (\E r \in Refunds, kind \in Kinds : Decide(s, r, kind))
  PROVE  /\ \/ Opens(s, "manual", Manual, "reverse")
            \/ \E r \in Refunds :
                 /\ Opens(s, "initiate", r, "exists") /\ refund[r].status = NoStatus
                 /\ \A t \in Slots : h[t] # Vacant => h[t].id # r
            \/ \E r \in Refunds, kind \in {"approve", "reject"} :
                 Opens(s, kind, r, "get") /\ refund[r].status \in Statuses
         /\ UNCHANGED <<refund, copy, balance, lastKind, reversals, rollbacks, paidOut, overlapped, rejected, crossed>>
<1>0. /\ Manual \in Ids /\ Refunds \subseteq Ids
      /\ "manual" \in Kinds /\ "initiate" \in Kinds /\ "approve" \in Kinds /\ "reject" \in Kinds
      /\ "reverse" \in RefundSteps /\ "exists" \in RefundSteps /\ "get" \in RefundSteps
      /\ \A r \in Refunds : refund[r].pay \in Payments
  BY DEF Ids, Kinds, RefundSteps, RefundTypeOK
<1>1. ASSUME NEW p \in Payments, ManualRefund(s, p)
      PROVE  /\ Opens(s, "manual", Manual, "reverse")
             /\ UNCHANGED <<refund, copy, balance, lastKind, reversals, rollbacks, paidOut, overlapped, rejected, crossed>>
  BY <1>0, <1>1, BeginOpens DEF ManualRefund, ledgerVars, moneyVars, pastVars
<1>2. ASSUME NEW p \in Payments, NEW r \in Refunds, Initiate(s, p, r)
      PROVE  /\ Opens(s, "initiate", r, "exists") /\ refund[r].status = NoStatus
             /\ \A t \in Slots : h[t] # Vacant => h[t].id # r
             /\ UNCHANGED <<refund, copy, balance, lastKind, reversals, rollbacks, paidOut, overlapped, rejected, crossed>>
  BY <1>0, <1>2, BeginOpens DEF Initiate, ledgerVars, moneyVars, pastVars
<1>3. ASSUME NEW r \in Refunds, NEW kind \in Kinds, Decide(s, r, kind)
      PROVE  /\ kind \in {"approve", "reject"} /\ Opens(s, kind, r, "get") /\ refund[r].status \in Statuses
             /\ UNCHANGED <<refund, copy, balance, lastKind, reversals, rollbacks, paidOut, overlapped, rejected, crossed>>
  BY <1>0, <1>3, BeginOpens DEF Decide, ledgerVars, moneyVars, pastVars
<1>4. QED
  BY <1>1, <1>2, <1>3

Starts(s) ==
  \/ \E p \in Payments : ManualRefund(s, p) \/ \E r \in Refunds : Initiate(s, p, r)
  \/ \E r \in Refunds, kind \in Kinds : Decide(s, r, kind)

LEMMA RefundCases ==
  ASSUME [RefundNext]_refundVars
  PROVE  \/ \E s \in Slots : Starts(s)
         \/ \E s \in Slots : Step(s) \/ Crash(s)
         \/ \E r \in Refunds : CopyExpires(r) \/ Cleanup(r)
         \/ UNCHANGED refundVars
  BY DEF RefundNext, Starts

\* The Redis copy expires, or an old refund is deleted that no request is about.
LEMMA ExpiryDoes ==
  ASSUME RefundTypeOK, NEW r \in Refunds, CopyExpires(r) \/ Cleanup(r)
  PROVE  /\ RefundTypeOK'
         /\ UNCHANGED <<reversals, rollbacks, paidOut, overlapped, rejected, crossed, h, used>>
         /\ \A q \in Refunds : q # r => refund'[q] = refund[q]
         /\ refund' = refund \/ (refund'[r].status = Gone /\ \A s \in Slots : h[s] # Vacant => h[s].id # r)
<1>1. UNCHANGED <<reversals, rollbacks, paidOut, overlapped, rejected, crossed, h, used, ledgerVars>>
  BY DEF CopyExpires, Cleanup, moneyVars, pastVars
<1>2. CASE CopyExpires(r)
  <2>1. refund' = refund /\ copy' \in [Refunds -> Statuses \cup {NoStatus}]
    BY <1>2 DEF CopyExpires, RefundTypeOK
  <2>2. QED
    BY <1>1, <2>1 DEF RefundTypeOK, ledgerVars
<1>3. CASE Cleanup(r)
  <2>1. refund \in [Refunds -> RefundRow] /\ [refund[r] EXCEPT !.status = Gone] \in RefundRow
    BY DEF RefundTypeOK, RefundRow
  <2>2. refund' = [refund EXCEPT ![r].status = Gone] /\ copy' = copy
    BY <1>3 DEF Cleanup
  <2>3. refund' \in [Refunds -> RefundRow]
    BY <2>1, <2>2
  <2>4. refund'[r].status = Gone /\ \A q \in Refunds : q # r => refund'[q] = refund[q]
    BY <2>1, <2>2 DEF RefundRow
  <2>5. QED
    BY <1>1, <1>3, <2>2, <2>3, <2>4 DEF RefundTypeOK, RefundRow, Cleanup, ledgerVars
<1>4. QED
  BY <1>2, <1>3

LEMMA TypesAndShapes ==
  ASSUME RefundTypeOK, RequestsShaped, [RefundNext]_refundVars
  PROVE  RefundTypeOK' /\ RequestsShaped'
<1>1. ASSUME NEW s \in Slots, Starts(s) PROVE RefundTypeOK' /\ RequestsShaped'
  <2>0. /\ \/ Opens(s, "manual", Manual, "reverse")
           \/ \E r \in Refunds : Opens(s, "initiate", r, "exists")
           \/ \E r \in Refunds, kind \in {"approve", "reject"} :
                Opens(s, kind, r, "get") /\ refund[r].status \in Statuses
        /\ UNCHANGED <<refund, copy, balance, lastKind, reversals, rollbacks, paidOut, overlapped, rejected, crossed>>
    BY <1>1, StartDo DEF Starts
  <2>1. RefundTypeOK'
    BY <2>0 DEF Opens, RefundTypeOK
  <2>2. RequestShaped(s)'
    BY <2>0, RefundAssumption DEF Opens, RequestShaped
  <2>3. \A t \in Slots \ {s} : RequestShaped(t)'
    BY <2>0 DEF Opens, RequestShaped, RequestsShaped
  <2>4. QED
    BY <2>1, <2>2, <2>3 DEF RequestsShaped
<1>2. ASSUME NEW s \in Slots, Step(s) \/ Crash(s) PROVE RefundTypeOK' /\ RequestsShaped'
  <2>1. /\ MovesOn(s) /\ RefundTypeOK' /\ RequestShaped(s)'
        /\ \A r \in Refunds : refund[r].status \in Statuses => refund'[r].status \in Statuses
    BY <1>2, StepKeeps DEF RequestsShaped
  <2>2. ASSUME NEW t \in Slots \ {s} PROVE RequestShaped(t)'
    <3>1. h'[t] = h[t] /\ RequestShaped(t)
      BY <2>1 DEF MovesOn, RequestsShaped
    <3>2. h[t].pc # "idle" /\ h[t].kind \in {"approve", "reject"} => h[t].id \in Refunds
      BY <3>1, RequestFields DEF RequestShaped, Ids
    <3>3. QED
      BY <2>1, <3>1, <3>2 DEF RequestShaped
  <2>3. QED
    BY <2>1, <2>2 DEF RequestsShaped
<1>3. ASSUME NEW r \in Refunds, CopyExpires(r) \/ Cleanup(r) PROVE RefundTypeOK' /\ RequestsShaped'
  <2>1. /\ RefundTypeOK' /\ h' = h
        /\ \A q \in Refunds : q # r => refund'[q] = refund[q]
        /\ refund' = refund \/ \A s \in Slots : h[s] # Vacant => h[s].id # r
    BY <1>3, ExpiryDoes
  <2>2. ASSUME NEW t \in Slots PROVE RequestShaped(t)'
    <3>1. RequestShaped(t) /\ (h[t].pc # "idle" => h[t] # Vacant)
      BY VacantIsNone DEF RequestsShaped
    <3>2. h[t].pc # "idle" /\ h[t].kind \in {"approve", "reject"} => h[t].id \in Refunds
      BY <3>1, RequestFields DEF RequestShaped, Ids
    <3>3. QED
      BY <2>1, <3>1, <3>2 DEF RequestShaped
  <2>3. QED
    BY <2>1, <2>2 DEF RequestsShaped
<1>4. CASE UNCHANGED refundVars
  <2>1. UNCHANGED <<refund, copy, balance, lastKind, reversals, rollbacks, paidOut, overlapped, rejected, crossed, h, used>>
    BY <1>4 DEF refundVars, ledgerVars, moneyVars, pastVars
  <2>2. QED
    BY <2>1 DEF RefundTypeOK, RequestsShaped, RequestShaped
<1>5. QED
  BY <1>1, <1>2, <1>3, <1>4, RefundCases

-----------------------------------------------------------------------------
\* Who owes: the set of slots only loses, or gains the one that debited.
LEMMA OwingMoves ==
  ASSUME NEW i, IsFiniteSet(Owing(i)), NEW s \in Slots, \A t \in Slots \ {s} : h'[t] = h[t]
  PROVE  /\ IsFiniteSet(Owing(i)') /\ Cardinality(Owing(i)') \in Nat /\ Cardinality(Owing(i)) \in Nat
         /\ s \in Owing(i) => Cardinality(Owing(i)) >= 1
         /\ s \notin Owing(i) => Cardinality(Owing(i)') <= Cardinality(Owing(i)) + 1
         /\ s \in Owing(i) \/ s \notin Owing(i)' => Cardinality(Owing(i)') <= Cardinality(Owing(i))
         /\ s \in Owing(i) /\ s \notin Owing(i)' => Cardinality(Owing(i)') = Cardinality(Owing(i)) - 1
<1>1. PICK O : O = Owing(i)
  OBVIOUS
<1>2. PICK P : P = Owing(i)'
  OBVIOUS
<1>3. P \ {s} = O \ {s}
  BY <1>1, <1>2 DEF Owing
<1>4. P = O \ {s} \/ P = (O \ {s}) \cup {s}
  BY <1>3
<1>5. /\ IsFiniteSet(O) /\ IsFiniteSet(O \ {s}) /\ IsFiniteSet((O \ {s}) \cup {s})
      /\ Cardinality(O) \in Nat /\ Cardinality(O \ {s}) \in Nat
      /\ Cardinality(O \ {s}) = IF s \in O THEN Cardinality(O) - 1 ELSE Cardinality(O)
      /\ Cardinality((O \ {s}) \cup {s}) = Cardinality(O \ {s}) + 1
  <2>1. IsFiniteSet(O) /\ IsFiniteSet(O \ {s})
    BY <1>1, FS_RemoveElement
  <2>2. Cardinality(O) \in Nat /\ Cardinality(O \ {s}) \in Nat
    BY <2>1, FS_CardinalityType
  <2>3. Cardinality(O \ {s}) = IF s \in O THEN Cardinality(O) - 1 ELSE Cardinality(O)
    BY <2>1, FS_RemoveElement
  <2>4. s \notin O \ {s}
    OBVIOUS
  <2>5. /\ IsFiniteSet((O \ {s}) \cup {s})
        /\ Cardinality((O \ {s}) \cup {s}) = Cardinality(O \ {s}) + 1
    BY <2>1, <2>4, FS_AddElement
  <2>6. QED
    BY <2>1, <2>2, <2>3, <2>5
<1>6. /\ IsFiniteSet(P) /\ Cardinality(P) \in Nat
      /\ s \in O => Cardinality(O) >= 1
      /\ s \notin O => Cardinality(P) <= Cardinality(O) + 1
      /\ s \in O \/ s \notin P => Cardinality(P) <= Cardinality(O)
      /\ s \in O /\ s \notin P => Cardinality(P) = Cardinality(O) - 1
  <2>1. CASE s \in P
    <3>1. P = (O \ {s}) \cup {s}
      BY <1>4, <2>1
    <3>2. QED
      BY <1>5, <2>1, <3>1
  <2>2. CASE s \notin P
    <3>1. P = O \ {s}
      BY <1>4, <2>2
    <3>2. QED
      BY <1>5, <2>2, <3>1
  <2>3. QED
    BY <2>1, <2>2
<1>7. QED
  BY <1>1, <1>2, <1>5, <1>6

\* Nothing was given and nobody new owes: what was taken covers it still.
LEMMA TakenStays ==
  ASSUME RefundTypeOK, RefundTypeOK', NEW i \in Ids, TakenFirst(i),
         NEW s \in Slots, \A t \in Slots \ {s} : h'[t] = h[t],
         s \in Owing(i)' => s \in Owing(i),
         reversals'[i] = reversals[i] \/ reversals'[i] = reversals[i] + 1,
         rollbacks'[i] = rollbacks[i],
         paidOut'[i] = paidOut[i]
  PROVE  TakenFirst(i)'
<1>1. PICK n \in Nat : n = Cardinality(Owing(i))
  BY OwingMoves DEF TakenFirst
<1>2. PICK m \in Nat : m = Cardinality(Owing(i)')
  BY OwingMoves DEF TakenFirst
<1>3. IsFiniteSet(Owing(i)') /\ m <= n
  BY <1>1, <1>2, OwingMoves DEF TakenFirst
<1>4. PICK a \in Nat, b \in Nat, a2 \in Nat : a = reversals[i] /\ b = rollbacks[i] /\ a2 = reversals'[i]
  BY DEF RefundTypeOK
<1>5. b + n <= a /\ (paidOut[i] => a > 0) /\ (a2 = a \/ a2 = a + 1) /\ rollbacks'[i] = b
  BY <1>1, <1>4 DEF TakenFirst
<1>6. b + m <= a2 /\ (paidOut[i] => a2 > 0)
  BY <1>3, <1>4, <1>5
<1>7. QED
  BY <1>2, <1>3, <1>4, <1>5, <1>6 DEF TakenFirst

LEMMA MoneyStep ==
  ASSUME RefundTypeOK, RequestsShaped, \A i \in Ids : TakenFirst(i), [RefundNext]_refundVars
  PROVE  \A i \in Ids : TakenFirst(i)'
<1>a. RefundTypeOK'
  BY TypesAndShapes
<1>1. ASSUME UNCHANGED <<reversals, rollbacks, paidOut>>, h' = h PROVE \A i \in Ids : TakenFirst(i)'
  BY <1>1 DEF TakenFirst, Owing
<1>2. ASSUME NEW s \in Slots, Starts(s) PROVE \A i \in Ids : TakenFirst(i)'
  <2>1. UNCHANGED <<reversals, rollbacks, paidOut>>
    BY <1>2, StartDo DEF Starts
  <2>2. (\A t \in Slots \ {s} : h'[t] = h[t]) /\ h'[s].pc \notin {"provider", "rollback"}
    BY <1>2, StartDo DEF Starts, Opens
  <2>3. \A i \in Ids : s \notin Owing(i)'
    BY <2>2 DEF Owing
  <2>4. QED
    BY <1>a, <2>1, <2>2, <2>3, TakenStays
<1>3. ASSUME NEW s \in Slots, Step(s) \/ Crash(s) PROVE \A i \in Ids : TakenFirst(i)'
  <2>a. /\ RequestShaped(s) /\ h[s].pc # "idle" /\ h[s].id \in Ids
        /\ \A t \in Slots \ {s} : h'[t] = h[t]
        /\ h'[s].pc # "idle" => h'[s].kind = h[s].kind /\ h'[s].id = h[s].id
    BY <1>3, StepKeeps, RequestFields DEF RequestsShaped, MovesOn
  <2>b. ASSUME UNCHANGED <<reversals, rollbacks, paidOut>>, h'[s].pc \notin {"provider", "rollback"}
        PROVE  \A i \in Ids : TakenFirst(i)'
    <3>1. \A i \in Ids : s \notin Owing(i)'
      BY <2>b DEF Owing
    <3>2. QED
      BY <1>a, <2>a, <2>b, <3>1, TakenStays
  <2>1. CASE Rewrites(s)
    BY <2>1, <2>a, <2>b, RewritesDo
  <2>2. CASE CheckExisting(s)
    BY <2>2, <2>b, CheckExistingDoes
  <2>3. CASE Insert(s) \/ GetRefund(s) \/ FindReversal(s) \/ CacheRefund(s)
    <3>1. h[s].pc \in {"insert", "get", "find", "cache"}
      BY <2>3 DEF Insert, GetRefund, FindReversal, CacheRefund
    <3>2. h[s].id \in Refunds
      BY <2>a, <3>1, WorksOnRow
    <3>3. UNCHANGED <<reversals, rollbacks, paidOut>>
      BY <2>3 DEF Insert, GetRefund, FindReversal, CacheRefund, moneyVars
    <3>4. CASE Insert(s)
      BY <3>2, <3>3, <3>4, <2>b, InsertDoes
    <3>5. CASE GetRefund(s)
      <4>1. h[s].kind \in {"approve", "reject"} /\ refund[h[s].id].status \in Statuses
        BY <2>a, <3>5, WorksOnRow DEF GetRefund, RequestShaped
      <4>2. QED
        BY <3>2, <3>3, <3>5, <2>b, <4>1, GetRefundDoes
    <3>6. CASE FindReversal(s)
      BY <3>2, <3>3, <3>6, <2>b, FindReversalDoes
    <3>7. CASE CacheRefund(s)
      <4>1. h[s].st \in Statuses /\ h[s].next \in {"end", "approve", "reject", "find", "reverse"}
        BY <2>a, <3>7 DEF CacheRefund, RequestShaped
      <4>2. QED
        BY <3>2, <3>3, <3>7, <2>b, <4>1, CacheRefundDoes
    <3>8. QED
      BY <2>3, <3>4, <3>5, <3>6, <3>7
  <2>4. CASE Reverse(s)
    <3>1. /\ h[s].pc = "reverse" /\ UNCHANGED <<rollbacks, paidOut>>
          /\ \/ /\ reversals'[h[s].id] = reversals[h[s].id] + 1
                /\ \A i \in Ids \ {h[s].id} : reversals'[i] = reversals[i]
             \/ reversals' = reversals /\ h'[s].pc \in {"fail", "idle"}
      BY <2>4, ReverseDoes
    <3>2. ASSUME NEW i \in Ids, i # h[s].id PROVE TakenFirst(i)'
      <4>1. s \notin Owing(i)' /\ reversals'[i] = reversals[i]
        BY <2>a, <3>1, <3>2 DEF Owing
      <4>2. QED
        BY <1>a, <2>a, <3>1, <4>1, TakenStays
    <3>3. ASSUME NEW i \in Ids, reversals' = reversals, h'[s].pc \in {"fail", "idle"} PROVE TakenFirst(i)'
      <4>1. s \notin Owing(i)' /\ reversals'[i] = reversals[i]
        BY <3>3 DEF Owing
      <4>2. QED
        BY <1>a, <2>a, <3>1, <4>1, TakenStays
    <3>4. ASSUME NEW i \in Ids, i = h[s].id, reversals'[i] = reversals[i] + 1 PROVE TakenFirst(i)'
      <4>1. s \notin Owing(i)
        BY <3>1 DEF Owing
      <4>2. PICK n \in Nat : n = Cardinality(Owing(i))
        BY <2>a, OwingMoves DEF TakenFirst
      <4>3. PICK m \in Nat : m = Cardinality(Owing(i)')
        BY <2>a, OwingMoves DEF TakenFirst
      <4>4. IsFiniteSet(Owing(i)') /\ m <= n + 1
        BY <2>a, <4>1, <4>2, <4>3, OwingMoves DEF TakenFirst
      <4>5. PICK a \in Nat, b \in Nat : a = reversals[i] /\ b = rollbacks[i]
        BY DEF RefundTypeOK
      <4>6. b + n <= a /\ reversals'[i] = a + 1 /\ rollbacks'[i] = b /\ paidOut'[i] = paidOut[i]
        BY <3>1, <3>4, <4>2, <4>5 DEF TakenFirst
      <4>7. b + m <= a + 1 /\ a + 1 > 0
        BY <4>4, <4>5, <4>6
      <4>8. QED
        BY <4>3, <4>4, <4>6, <4>7 DEF TakenFirst
    <3>5. QED
      BY <3>1, <3>2, <3>3, <3>4
  <2>5. CASE TriggerProvider(s)
    <3>1. /\ h[s].pc = "provider" /\ UNCHANGED <<reversals, rollbacks>>
          /\ \A i \in Ids \ {h[s].id} : paidOut'[i] = paidOut[i]
      BY <2>5, TriggerProviderDoes
    <3>2. ASSUME NEW i \in Ids, i # h[s].id PROVE TakenFirst(i)'
      <4>1. s \notin Owing(i)'
        BY <2>a, <3>2 DEF Owing
      <4>2. QED
        BY <1>a, <2>a, <3>1, <3>2, <4>1, TakenStays
    <3>3. ASSUME NEW i \in Ids, i = h[s].id PROVE TakenFirst(i)'
      <4>1. s \in Owing(i)
        BY <3>1, <3>3 DEF Owing
      <4>2. PICK n \in Nat : n = Cardinality(Owing(i)) /\ n >= 1
        BY <2>a, <4>1, OwingMoves DEF TakenFirst
      <4>3. PICK m \in Nat : m = Cardinality(Owing(i)')
        BY <2>a, OwingMoves DEF TakenFirst
      <4>4. IsFiniteSet(Owing(i)') /\ m <= n
        BY <2>a, <4>1, <4>2, <4>3, OwingMoves DEF TakenFirst
      <4>5. PICK a \in Nat, b \in Nat : a = reversals[i] /\ b = rollbacks[i]
        BY DEF RefundTypeOK
      <4>6. b + n <= a /\ reversals'[i] = a /\ rollbacks'[i] = b
        BY <3>1, <4>2, <4>5 DEF TakenFirst
      <4>7. b + m <= a /\ a > 0
        BY <4>2, <4>4, <4>5, <4>6
      <4>8. QED
        BY <4>3, <4>4, <4>6, <4>7 DEF TakenFirst
    <3>4. QED
      BY <3>2, <3>3
  <2>6. CASE Rollback(s)
    <3>1. /\ h[s].pc = "rollback" /\ UNCHANGED <<reversals, paidOut>> /\ h'[s].pc \in {"fail", "idle"}
          /\ rollbacks' = rollbacks \/ rollbacks'[h[s].id] = rollbacks[h[s].id] + 1
          /\ \A i \in Ids \ {h[s].id} : rollbacks'[i] = rollbacks[i]
      BY <2>6, RollbackDoes
    <3>2. \A i \in Ids : s \notin Owing(i)'
      BY <3>1 DEF Owing
    <3>3. ASSUME NEW i \in Ids, i # h[s].id \/ rollbacks' = rollbacks PROVE TakenFirst(i)'
      <4>1. rollbacks'[i] = rollbacks[i]
        BY <3>1, <3>3
      <4>2. QED
        BY <1>a, <2>a, <3>1, <3>2, <4>1, TakenStays
    <3>4. ASSUME NEW i \in Ids, i = h[s].id, rollbacks'[i] = rollbacks[i] + 1 PROVE TakenFirst(i)'
      <4>1. s \in Owing(i)
        BY <3>1, <3>4 DEF Owing
      <4>2. PICK n \in Nat : n = Cardinality(Owing(i)) /\ n >= 1
        BY <2>a, <4>1, OwingMoves DEF TakenFirst
      <4>3. PICK m \in Nat : m = Cardinality(Owing(i)')
        BY <2>a, OwingMoves DEF TakenFirst
      <4>4. IsFiniteSet(Owing(i)') /\ m = n - 1
        BY <2>a, <3>2, <4>1, <4>2, <4>3, OwingMoves DEF TakenFirst
      <4>5. PICK a \in Nat, b \in Nat : a = reversals[i] /\ b = rollbacks[i]
        BY DEF RefundTypeOK
      <4>6. b + n <= a /\ reversals'[i] = a /\ rollbacks'[i] = b + 1 /\ paidOut'[i] = paidOut[i]
        BY <3>1, <3>4, <4>2, <4>5 DEF TakenFirst
      <4>7. b + 1 + m <= a /\ a > 0
        BY <4>2, <4>4, <4>5, <4>6
      <4>8. QED
        BY <4>3, <4>4, <4>6, <4>7 DEF TakenFirst
    <3>5. QED
      BY <3>1, <3>3, <3>4
  <2>7. CASE Crash(s)
    BY <2>7, <2>b, CrashDoes
  <2>8. QED
    BY <1>3, <2>1, <2>2, <2>3, <2>4, <2>5, <2>6, <2>7, StepCases
<1>4. ASSUME NEW r \in Refunds, CopyExpires(r) \/ Cleanup(r) PROVE \A i \in Ids : TakenFirst(i)'
  BY <1>1, <1>4, ExpiryDoes
<1>5. CASE UNCHANGED refundVars
  BY <1>1, <1>5 DEF refundVars, moneyVars
<1>6. QED
  BY <1>2, <1>3, <1>4, <1>5, RefundCases

-----------------------------------------------------------------------------
\* No new debit of r is under way, and none was made.
LEMMA DebitsStay ==
  ASSUME RefundTypeOK, NEW r \in Refunds, DebitsAlone(r), overlapped[r] => overlapped'[r],
         reversals'[r] = reversals[r], \A t \in Slots : Debiting(t, r)' => Debiting(t, r)
  PROVE  DebitsAlone(r)'
  BY DEF DebitsAlone

LEMMA DebitsStep ==
  ASSUME RefundTypeOK, RequestsShaped, \A r \in Refunds : DebitsAlone(r), [RefundNext]_refundVars
  PROVE  \A r \in Refunds : DebitsAlone(r)'
<1>a. Refunds \subseteq Ids
  BY DEF Ids
<1>b. ASSUME NEW s \in Slots, \A t \in Slots \ {s} : h'[t] = h[t], UNCHANGED <<reversals, overlapped>>,
             \A r \in Refunds : Debiting(s, r)' => Debiting(s, r)
      PROVE  \A r \in Refunds : DebitsAlone(r)'
  <2>1. \A r \in Refunds, t \in Slots \ {s} : Debiting(t, r)' => Debiting(t, r)
    BY <1>b DEF Debiting
  <2>2. \A r \in Refunds, t \in Slots : Debiting(t, r)' => Debiting(t, r)
    BY <1>b, <2>1
  <2>3. QED
    BY <1>b, <2>2, DebitsStay
<1>1. ASSUME NEW s \in Slots, Starts(s) PROVE \A r \in Refunds : DebitsAlone(r)'
  <2>1. \A t \in Slots \ {s} : h'[t] = h[t]
    BY <1>1, StartDo DEF Starts, Opens
  <2>2. h'[s].pc \in {"exists", "get"} \/ (h'[s].pc = "reverse" /\ h'[s].id = Manual)
    BY <1>1, StartDo DEF Starts, Opens
  <2>3. \A r \in Refunds : ~Debiting(s, r)'
    BY <2>2, RefundAssumption DEF Debiting
  <2>4. UNCHANGED <<reversals, overlapped>>
    BY <1>1, StartDo DEF Starts
  <2>5. QED
    BY <1>b, <2>1, <2>3, <2>4
<1>2. ASSUME NEW s \in Slots, Step(s) \/ Crash(s) PROVE \A r \in Refunds : DebitsAlone(r)'
  <2>a. /\ RequestShaped(s) /\ h[s].pc # "idle" /\ h[s].id \in Ids
        /\ \A t \in Slots \ {s} : h'[t] = h[t]
        /\ h'[s].pc # "idle" => h'[s].kind = h[s].kind /\ h'[s].id = h[s].id
    BY <1>2, StepKeeps, RequestFields DEF RequestsShaped, MovesOn
  <2>b. ASSUME h'[s].pc \notin {"process", "reverse"}, ~(h'[s].pc = "cache" /\ h'[s].next = "reverse")
        PROVE  \A r \in Refunds : ~Debiting(s, r)'
    BY <2>b DEF Debiting
  <2>1. CASE Rewrites(s)
    <3>1. UNCHANGED <<reversals, overlapped>>
      BY <2>1, <2>a, RewritesDo
    <3>2. ASSUME NEW r \in Refunds, Debiting(s, r)' PROVE Debiting(s, r)
      <4>1. h[s].pc = "process" /\ h'[s].pc # "idle"
        BY <2>1, <2>a, <3>2, RewritesDo DEF Debiting
      <4>2. QED
        BY <2>a, <3>2, <4>1 DEF Debiting
    <3>3. QED
      BY <1>b, <2>a, <3>1, <3>2
  <2>2. CASE CheckExisting(s)
    BY <1>b, <2>2, <2>a, <2>b, CheckExistingDoes
  <2>3. CASE Insert(s)
    <3>1. h[s].id \in Refunds
      BY <2>3, <2>a, WorksOnRow DEF Insert
    <3>2. QED
      BY <1>b, <2>3, <2>a, <2>b, <3>1, InsertDoes
  <2>4. CASE GetRefund(s)
    <3>1. h[s].id \in Refunds /\ h[s].kind \in {"approve", "reject"} /\ refund[h[s].id].status \in Statuses
      BY <2>4, <2>a, WorksOnRow DEF GetRefund, RequestShaped
    <3>2. QED
      BY <1>b, <2>4, <2>a, <2>b, <3>1, GetRefundDoes
  <2>5. CASE FindReversal(s)
    <3>1. h[s].id \in Refunds
      BY <2>5, <2>a, WorksOnRow DEF FindReversal
    <3>2. /\ reversals' = reversals /\ \A r \in Refunds : overlapped[r] => overlapped'[r]
          /\ h[s].pc = "find"
      BY <2>5, <3>1, FindReversalDoes
    <3>3. \A r \in Refunds, t \in Slots \ {s} : Debiting(t, r)' => Debiting(t, r)
      BY <2>a DEF Debiting
    <3>4. ASSUME NEW r \in Refunds, ~Debiting(s, r)' PROVE DebitsAlone(r)'
      BY <3>2, <3>3, <3>4, DebitsStay
    <3>5. ASSUME NEW r \in Refunds, Debiting(s, r)' PROVE DebitsAlone(r)'
      <4>1. h'[s].pc = "process" /\ r = h[s].id
        BY <2>5, <2>a, <3>1, <3>5, FindReversalDoes DEF Debiting
      <4>2. /\ reversals[r] = 0
            /\ (\E t \in Slots \ {s} : Debiting(t, r)) => overlapped'[r]
        BY <2>5, <3>1, <4>1, FindReversalDoes
      <4>3. ~overlapped'[r] => \A t \in Slots : Debiting(t, r)' => t = s
        BY <3>3, <4>2
      <4>4. QED
        BY <3>2, <4>2, <4>3 DEF DebitsAlone
    <3>6. QED
      BY <3>4, <3>5
  <2>6. CASE Reverse(s)
    <3>1. /\ h[s].pc = "reverse" /\ overlapped' = overlapped /\ h'[s].pc \in {"provider", "fail", "idle"}
          /\ \/ /\ reversals'[h[s].id] = reversals[h[s].id] + 1
                /\ \A i \in Ids \ {h[s].id} : reversals'[i] = reversals[i]
             \/ reversals' = reversals
      BY <2>6, ReverseDoes
    <3>2. \A r \in Refunds : ~Debiting(s, r)'
      BY <2>b, <3>1
    <3>3. \A r \in Refunds, t \in Slots : Debiting(t, r)' => t # s /\ Debiting(t, r)
      BY <2>a, <3>2 DEF Debiting
    <3>4. ASSUME NEW r \in Refunds, reversals'[r] = reversals[r] PROVE DebitsAlone(r)'
      BY <3>1, <3>3, <3>4, DebitsStay
    <3>5. ASSUME NEW r \in Refunds, r = h[s].id, reversals'[r] = reversals[r] + 1 PROVE DebitsAlone(r)'
      <4>1. Debiting(s, r)
        BY <3>1, <3>5 DEF Debiting
      <4>2. SUFFICES ASSUME ~overlapped[r] PROVE DebitsAlone(r)'
        BY <3>1 DEF DebitsAlone
      <4>3. reversals[r] = 0 /\ \A t \in Slots : Debiting(t, r) => t = s
        BY <4>1, <4>2 DEF DebitsAlone
      <4>4. reversals'[r] <= 1 /\ \A t \in Slots : ~Debiting(t, r)'
        BY <3>3, <3>5, <4>3
      <4>5. QED
        BY <4>4 DEF DebitsAlone
    <3>6. QED
      BY <1>a, <3>1, <3>4, <3>5
  <2>7. CASE TriggerProvider(s)
    BY <1>b, <2>7, <2>a, <2>b, TriggerProviderDoes
  <2>8. CASE Rollback(s)
    BY <1>b, <2>8, <2>a, <2>b, RollbackDoes
  <2>9. CASE CacheRefund(s)
    <3>1. /\ h[s].pc = "cache" /\ h[s].st \in Statuses /\ h[s].id \in Refunds
          /\ h[s].next \in {"end", "approve", "reject", "find", "reverse"}
      BY <2>9, <2>a, WorksOnRow DEF CacheRefund, RequestShaped
    <3>2. UNCHANGED <<reversals, overlapped>>
      BY <2>9, <3>1, CacheRefundDoes
    <3>3. ASSUME NEW r \in Refunds, Debiting(s, r)' PROVE Debiting(s, r)
      <4>1. h[s].next = "reverse" /\ h'[s].pc = "reverse"
        BY <2>9, <3>1, <3>3, CacheRefundDoes DEF Debiting
      <4>2. QED
        BY <2>a, <3>1, <3>3, <4>1 DEF Debiting
    <3>4. QED
      BY <1>b, <2>a, <3>2, <3>3
  <2>10. CASE Crash(s)
    BY <1>b, <2>10, <2>a, <2>b, CrashDoes
  <2>11. QED
    BY <1>2, <2>1, <2>2, <2>3, <2>4, <2>5, <2>6, <2>7, <2>8, <2>9, <2>10, StepCases
<1>3. ASSUME UNCHANGED <<reversals, overlapped, h>> PROVE \A r \in Refunds : DebitsAlone(r)'
  BY <1>3 DEF DebitsAlone, Debiting
<1>4. ASSUME NEW r \in Refunds, CopyExpires(r) \/ Cleanup(r) PROVE \A q \in Refunds : DebitsAlone(q)'
  BY <1>3, <1>4, ExpiryDoes
<1>5. CASE UNCHANGED refundVars
  BY <1>3, <1>5 DEF refundVars, moneyVars, pastVars
<1>6. QED
  BY <1>1, <1>2, <1>4, <1>5, RefundCases

-----------------------------------------------------------------------------
\* Where only request s moves, and no nearer to a decision on r, the rest of r as it was.
LEMMA DecidedStays ==
  ASSUME NEW r \in Refunds, DecidedOnce(r), NEW s \in Slots, \A t \in Slots \ {s} : h'[t] = h[t],
         refund'[r].status = refund[r].status, rejected'[r] = rejected[r], crossed[r] => crossed'[r],
         reversals'[r] = reversals[r], paidOut'[r] = paidOut[r],
         h'[s].pc # "idle" /\ h'[s].id = r =>
           \/ h[s].pc # "idle" /\ h[s].id = r
           \/ refund[r].status # NoStatus
           \/ \A t \in Slots \ {s} : h[t].pc # "idle" => h[t].id # r,
         h'[s].pc \in {"exists", "insert"} /\ h'[s].id = r =>
           \/ h[s].pc \in {"exists", "insert"} /\ h[s].id = r
           \/ refund[r].status = NoStatus /\ \A t \in Slots \ {s} : h[t].pc # "idle" => h[t].id # r,
         Working(s, r)' => Working(s, r),
         LetIn(s, "approve", r)' => LetIn(s, "approve", r),
         LetIn(s, "reject", r)' => LetIn(s, "reject", r)
  PROVE  DecidedOnce(r)'
<1>1. \A t \in Slots : /\ Working(t, r)' => Working(t, r)
                       /\ LetIn(t, "approve", r)' => LetIn(t, "approve", r)
                       /\ LetIn(t, "reject", r)' => LetIn(t, "reject", r)
  BY DEF Working, LetIn
<1>2. Untouched(r) => Untouched(r)'
  BY <1>1 DEF Untouched
<1>3. ASSUME NEW t \in Slots, h'[t].pc \in {"exists", "insert"}, h'[t].id = r
      PROVE  /\ refund'[r].status = NoStatus
             /\ \A u \in Slots \ {t} : h'[u].pc # "idle" => h'[u].id # r
  <2>1. CASE t = s
    BY <1>3, <2>1 DEF DecidedOnce
  <2>2. CASE t # s
    <3>1. refund[r].status = NoStatus /\ \A u \in Slots \ {t} : h[u].pc # "idle" => h[u].id # r
      BY <1>3, <2>2 DEF DecidedOnce
    <3>2. h[t].pc # "idle" /\ h[t].id = r
      BY <1>3, <2>2
    <3>3. ~(h'[s].pc # "idle" /\ h'[s].id = r)
      BY <2>2, <3>1, <3>2
    <3>4. QED
      BY <3>1, <3>3
  <2>3. QED
    BY <2>1, <2>2
<1>4. refund'[r].status \in {NoStatus, "pending"} => ~rejected'[r] /\ Untouched(r)'
  BY <1>2 DEF DecidedOnce
<1>5. ~crossed'[r] =>
        /\ \A t \in Slots : LetIn(t, "reject", r)' =>
             /\ refund'[r].status \in {"pending", "rejected"} /\ Untouched(r)'
             /\ \A u \in Slots : ~LetIn(u, "approve", r)'
        /\ \A t \in Slots : LetIn(t, "approve", r)' => ~rejected'[r]
        /\ rejected'[r] => refund'[r].status \in {"rejected", Gone} /\ Untouched(r)'
  BY <1>1, <1>2 DEF DecidedOnce
<1>6. QED
  BY <1>3, <1>4, <1>5 DEF DecidedOnce

\* A request at work on r may debit, pay and write any status but the first and "rejected":
\* it would not be at work if a rejection were let in, or written, without crossing it.
LEMMA DecidedWorks ==
  ASSUME NEW r \in Refunds, DecidedOnce(r), NEW s \in Slots, \A t \in Slots \ {s} : h'[t] = h[t],
         Working(s, r), rejected'[r] = rejected[r], crossed'[r] = crossed[r],
         refund'[r].status = refund[r].status \/ refund'[r].status \in {"processing", "completed", "failed"},
         ~LetIn(s, "approve", r)', ~LetIn(s, "reject", r)', h'[s].pc \notin {"exists", "insert"}
  PROVE  DecidedOnce(r)'
<1>1. ~Untouched(r)
  BY DEF Untouched
<1>2. refund[r].status \notin {NoStatus, "pending"} /\ refund'[r].status \notin {NoStatus, "pending"}
  BY <1>1 DEF DecidedOnce, NoStatus
<1>3. \A t \in Slots : ~(h'[t].pc \in {"exists", "insert"} /\ h'[t].id = r)
  BY <1>2 DEF DecidedOnce
<1>4. ~crossed[r] => ~rejected[r] /\ \A t \in Slots : ~LetIn(t, "reject", r)
  BY <1>1 DEF DecidedOnce
<1>5. \A t \in Slots : LetIn(t, "reject", r)' => LetIn(t, "reject", r)
  BY DEF LetIn
<1>6. QED
  BY <1>2, <1>3, <1>4, <1>5 DEF DecidedOnce

\* The two decisions as they are written.
LEMMA DecisionStep ==
  ASSUME RefundTypeOK, NEW r \in Refunds, DecidedOnce(r), NEW s \in Slots, h[s].pc # "idle", h[s].id = r,
         \A t \in Slots \ {s} : h'[t] = h[t], h'[s].pc = "cache",
         crossed' = crossed, UNCHANGED <<reversals, paidOut>>,
         \/ /\ h[s].pc = "approve" /\ h'[s].next = "find"
            /\ refund'[r].status = "approved" /\ rejected'[r] = rejected[r]
         \/ /\ h[s].pc = "reject" /\ h'[s].next = "end"
            /\ refund'[r].status = "rejected" /\ rejected'[r] = TRUE
  PROVE  DecidedOnce(r)'
<1>1. h[s] # Vacant /\ refund'[r].status \notin {NoStatus, "pending"}
  BY VacantIsNone DEF NoStatus
<1>2. \A t \in Slots : ~(h'[t].pc \in {"exists", "insert"} /\ h'[t].id = r)
  BY DEF DecidedOnce
<1>3. \A t \in Slots : /\ LetIn(t, "approve", r)' => LetIn(t, "approve", r)
                       /\ LetIn(t, "reject", r)' => LetIn(t, "reject", r)
  BY DEF LetIn
<1>4. CASE h[s].pc = "approve" /\ refund'[r].status = "approved" /\ rejected'[r] = rejected[r]
  <2>1. LetIn(s, "approve", r)
    BY <1>1, <1>4 DEF LetIn
  <2>2. ~crossed[r] => ~rejected[r] /\ \A t \in Slots : ~LetIn(t, "reject", r)
    BY <2>1 DEF DecidedOnce
  <2>3. QED
    BY <1>1, <1>2, <1>3, <1>4, <2>2 DEF DecidedOnce
<1>5. CASE h[s].pc = "reject" /\ h'[s].next = "end" /\ refund'[r].status = "rejected"
  <2>1. LetIn(s, "reject", r)
    BY <1>1, <1>5 DEF LetIn
  <2>2. ~crossed[r] => Untouched(r) /\ \A t \in Slots : ~LetIn(t, "approve", r)
    BY <2>1 DEF DecidedOnce
  <2>3. Untouched(r) => Untouched(r)'
    BY <1>5 DEF Untouched, Working
  <2>4. QED
    BY <1>1, <1>2, <1>3, <1>5, <2>2, <2>3 DEF DecidedOnce
<1>6. QED
  BY <1>4, <1>5

\* A request of r is let in, or not.
LEMMA LetInStep ==
  ASSUME RefundTypeOK, NEW r \in Refunds, DecidedOnce(r), NEW s \in Slots,
         h[s].pc = "get", h[s].id = r, h[s].kind \in {"approve", "reject"},
         \A t \in Slots \ {s} : h'[t] = h[t],
         UNCHANGED <<refund, reversals, paidOut, rejected>>, crossed[r] => crossed'[r],
         h'[s].pc = h[s].kind \/ (h'[s].pc = "cache" /\ h'[s].next = h[s].kind),
         crossed'[r] \/ OnlyDecision(s)
  PROVE  DecidedOnce(r)'
<1>1. Untouched(r) => Untouched(r)'
  BY DEF Untouched, Working
<1>2. \A t \in Slots : ~(h'[t].pc \in {"exists", "insert"} /\ h'[t].id = r)
  BY DEF DecidedOnce
<1>3. ASSUME ~crossed'[r]
      PROVE  /\ refund[r].status = "pending" /\ ~rejected[r] /\ Untouched(r)
             /\ \A t \in Slots, kind \in {"approve", "reject"} \ {h[s].kind} : ~LetIn(t, kind, r)
  BY <1>3 DEF OnlyDecision, DecidedOnce
<1>4. ASSUME ~crossed'[r], NEW t \in Slots, LetIn(t, "reject", r)', NEW u \in Slots, LetIn(u, "approve", r)'
      PROVE  FALSE
  <2>1. CASE h[s].kind = "approve"
    BY <1>3, <1>4, <2>1 DEF LetIn
  <2>2. CASE h[s].kind = "reject"
    BY <1>3, <1>4, <2>2 DEF LetIn
  <2>3. QED
    BY <2>1, <2>2
<1>5. QED
  BY <1>1, <1>2, <1>3, <1>4 DEF DecidedOnce

LEMMA DecidedStep ==
  ASSUME RefundTypeOK, RequestsShaped, \A r \in Refunds : DecidedOnce(r), [RefundNext]_refundVars
  PROVE  \A r \in Refunds : DecidedOnce(r)'
<1>1. ASSUME NEW s \in Slots, Starts(s), NEW r \in Refunds PROVE DecidedOnce(r)'
  <2>1. /\ h[s].pc = "idle" /\ \A t \in Slots \ {s} : h'[t] = h[t]
        /\ UNCHANGED <<refund, reversals, paidOut, rejected, crossed>>
    BY <1>1, StartDo DEF Starts, Opens
  <2>2. \/ h'[s].pc = "reverse" /\ h'[s].id = Manual
        \/ /\ h'[s].pc = "exists" /\ refund[h'[s].id].status = NoStatus
           /\ \A t \in Slots : h[t] # Vacant => h[t].id # h'[s].id
        \/ h'[s].pc = "get" /\ refund[h'[s].id].status \in Statuses
    BY <1>1, StartDo DEF Starts, Opens
  <2>3. ~Working(s, r)' /\ ~LetIn(s, "approve", r)' /\ ~LetIn(s, "reject", r)'
    BY <2>2, RefundAssumption DEF Working, LetIn
  <2>4. /\ \A t \in Slots : h[t].pc # "idle" => h[t] # Vacant
        /\ NoStatus \notin Statuses
    BY VacantIsNone DEF NoStatus, Statuses, Decided
  <2>5. h'[s].id = r =>
          \/ h'[s].pc \in {"reverse", "get"} /\ refund[r].status # NoStatus
          \/ refund[r].status = NoStatus /\ \A t \in Slots : h[t].pc # "idle" => h[t].id # r
    BY <2>2, <2>4, RefundAssumption
  <2>6. QED
    BY <2>1, <2>3, <2>5, DecidedStays
<1>2. ASSUME NEW s \in Slots, Step(s) \/ Crash(s), NEW r \in Refunds PROVE DecidedOnce(r)'
  <2>a. /\ RequestShaped(s) /\ h[s].pc # "idle" /\ h[s].id \in Ids
        /\ \A t \in Slots \ {s} : h'[t] = h[t]
        /\ h'[s].pc # "idle" => h'[s].kind = h[s].kind /\ h'[s].id = h[s].id
    BY <1>2, StepKeeps, RequestFields DEF RequestsShaped, MovesOn
  <2>b. ASSUME refund'[r].status = refund[r].status, rejected'[r] = rejected[r], crossed[r] => crossed'[r],
               reversals'[r] = reversals[r], paidOut'[r] = paidOut[r],
               \/ h[s].id # r
               \/ h'[s].pc = "idle"
               \/ h'[s].pc = "cache" /\ h'[s].next = "end"
               \/ h[s].pc = "exists" /\ h'[s].pc = "insert"
        PROVE  DecidedOnce(r)'
    <3>1. Working(s, r)' => h'[s].pc # "idle" /\ h'[s].id = r
      BY DEF Working
    <3>2. \A kind \in {"approve", "reject"} : LetIn(s, kind, r)' => h'[s].pc # "idle" /\ h'[s].id = r
      BY DEF LetIn
    <3>3. ~Working(s, r)' /\ ~LetIn(s, "approve", r)' /\ ~LetIn(s, "reject", r)'
      BY <2>a, <2>b, <3>1, <3>2 DEF Working, LetIn
    <3>4. QED
      BY <2>a, <2>b, <3>3, DecidedStays
  <2>c. ASSUME Working(s, r), rejected'[r] = rejected[r], crossed'[r] = crossed[r],
               refund'[r].status = refund[r].status \/ refund'[r].status \in {"processing", "completed", "failed"},
               \/ h'[s].pc \in {"idle", "find", "replay", "process", "reverse", "provider", "rollback", "complete", "fail"}
               \/ h'[s].pc = "cache" /\ h'[s].next \in {"end", "reverse"}
        PROVE  DecidedOnce(r)'
    <3>1. ~LetIn(s, "approve", r)' /\ ~LetIn(s, "reject", r)'
      BY <2>c DEF LetIn
    <3>2. QED
      BY <2>a, <2>c, <3>1, DecidedWorks
  <2>1. CASE Rewrites(s)
    <3>1. h[s].id \in Refunds
      BY <2>1, <2>a, RewritesDo
    <3>2. PICK status \in Decided, next \in {"end", "find", "reverse"}, onNull \in {"end", "reverse", "fail"} :
            /\ UpdateStatus(s, status, next, onNull)
            /\ \/ h[s].pc = "approve" /\ status = "approved" /\ next = "find" /\ onNull = "end"
               \/ h[s].pc = "reject" /\ status = "rejected" /\ next = "end" /\ onNull = "end"
               \/ /\ h[s].pc \in {"replay", "process", "fail", "complete"} /\ next # "find"
                  /\ status \in {"processing", "completed", "failed"}
      BY <2>1 DEF Rewrites, Approve, Reject, Replay, Process, MarkFailed, Complete, Decided
    <3>3. status \in Statuses /\ next \in RefundSteps \cup {"end"} /\ onNull \in RefundSteps \cup {"end"}
      BY DEF Statuses, RefundSteps
    <3>4. /\ UNCHANGED <<reversals, paidOut, crossed>>
          /\ \/ /\ h'[s].pc = "cache" /\ h'[s].next = next
                /\ refund'[h[s].id].status = status
                /\ rejected'[h[s].id] = (rejected[h[s].id] \/ status = "rejected")
                /\ \A q \in Refunds \ {h[s].id} : refund'[q] = refund[q] /\ rejected'[q] = rejected[q]
             \/ /\ refund' = refund /\ rejected' = rejected
                /\ (onNull = "end" /\ h'[s].pc = "idle") \/ (onNull # "end" /\ h'[s].pc = onNull)
      BY <2>a, <3>1, <3>2, <3>3, UpdateDoes
    <3>5. CASE h[s].id # r
      BY <2>b, <3>4, <3>5
    <3>6. CASE h[s].id = r /\ h[s].pc \in {"replay", "process", "fail", "complete"}
      <4>1. Working(s, r)
        BY <3>6 DEF Working
      <4>2. rejected'[r] = (rejected[r] \/ status = "rejected") \/ rejected' = rejected
        BY <3>4, <3>6
      <4>3. rejected \in [Refunds -> BOOLEAN] /\ status # "rejected"
        BY <3>2, <3>6 DEF RefundTypeOK
      <4>4. rejected'[r] = rejected[r]
        BY <4>2, <4>3
      <4>5. QED
        BY <2>c, <3>2, <3>4, <3>6, <4>1, <4>4
    <3>7. CASE h[s].id = r /\ h[s].pc \in {"approve", "reject"}
      <4>1. CASE h'[s].pc = "idle" /\ refund' = refund /\ rejected' = rejected
        BY <2>b, <3>4, <4>1
      <4>2. CASE /\ h'[s].pc = "cache" /\ h'[s].next = next /\ refund'[r].status = status
                 /\ rejected'[r] = (rejected[r] \/ status = "rejected")
        <5>1. rejected \in [Refunds -> BOOLEAN]
          BY DEF RefundTypeOK
        <5>2. rejected'[r] = IF status = "rejected" THEN TRUE ELSE rejected[r]
          BY <4>2, <5>1
        <5>3. QED
          BY <2>a, <3>2, <3>4, <3>7, <4>2, <5>2, DecisionStep
      <4>3. QED
        BY <3>2, <3>4, <3>7, <4>1, <4>2
    <3>8. QED
      BY <3>2, <3>5, <3>6, <3>7
  <2>2. CASE CheckExisting(s)
    BY <2>2, <2>b, CheckExistingDoes
  <2>3. CASE Insert(s)
    <3>1. h[s].id \in Refunds
      BY <2>3, <2>a, WorksOnRow DEF Insert
    <3>2. /\ h[s].pc = "insert" /\ h'[s].pc = "cache" /\ h'[s].next = "end"
          /\ refund'[h[s].id].status = "pending" /\ \A q \in Refunds \ {h[s].id} : refund'[q] = refund[q]
          /\ UNCHANGED <<reversals, paidOut, rejected, crossed>>
      BY <2>3, <3>1, InsertDoes
    <3>3. CASE h[s].id # r
      BY <2>b, <3>2, <3>3
    <3>4. CASE h[s].id = r
      <4>1. refund[r].status = NoStatus /\ \A t \in Slots \ {s} : h[t].pc # "idle" => h[t].id # r
        BY <3>2, <3>4 DEF DecidedOnce
      <4>2. ~rejected[r] /\ Untouched(r)
        BY <4>1 DEF DecidedOnce
      <4>3. \A t \in Slots : /\ ~LetIn(t, "approve", r)' /\ ~LetIn(t, "reject", r)' /\ ~Working(t, r)'
                             /\ ~(h'[t].pc \in {"exists", "insert"} /\ h'[t].id = r)
        BY <2>a, <3>2, <4>1 DEF LetIn, Working
      <4>4. QED
        BY <3>2, <3>4, <4>2, <4>3 DEF DecidedOnce, Untouched
    <3>5. QED
      BY <3>3, <3>4
  <2>4. CASE GetRefund(s)
    <3>1. h[s].id \in Refunds /\ h[s].kind \in {"approve", "reject"} /\ refund[h[s].id].status \in Statuses
      BY <2>4, <2>a, WorksOnRow DEF GetRefund, RequestShaped
    <3>2. /\ h[s].pc = "get" /\ UNCHANGED <<refund, reversals, paidOut, rejected>>
          /\ \A q \in Refunds : crossed[q] => crossed'[q]
          /\ \/ h'[s].pc = "idle" \/ (h'[s].pc = "cache" /\ h'[s].next = "end")
             \/ /\ h'[s].pc = h[s].kind \/ (h'[s].pc = "cache" /\ h'[s].next = h[s].kind)
                /\ crossed'[h[s].id] \/ OnlyDecision(s)
      BY <2>4, <3>1, GetRefundDoes
    <3>3. CASE h[s].id # r \/ h'[s].pc = "idle" \/ (h'[s].pc = "cache" /\ h'[s].next = "end")
      BY <2>b, <3>2, <3>3
    <3>4. CASE /\ h[s].id = r
               /\ h'[s].pc = h[s].kind \/ (h'[s].pc = "cache" /\ h'[s].next = h[s].kind)
               /\ crossed'[h[s].id] \/ OnlyDecision(s)
      BY <2>a, <3>1, <3>2, <3>4, LetInStep
    <3>5. QED
      BY <3>2, <3>3, <3>4
  <2>5. CASE FindReversal(s)
    <3>1. h[s].id \in Refunds
      BY <2>5, <2>a, WorksOnRow DEF FindReversal
    <3>2. /\ h[s].pc = "find" /\ h'[s].pc \in {"replay", "process", "fail"}
          /\ UNCHANGED <<refund, reversals, paidOut, rejected, crossed>>
      BY <2>5, <3>1, FindReversalDoes
    <3>3. h[s].id = r => Working(s, r)
      BY <3>2 DEF Working
    <3>4. QED
      BY <2>b, <2>c, <3>2, <3>3
  <2>6. CASE Reverse(s)
    <3>1. /\ h[s].pc = "reverse" /\ h'[s].pc \in {"provider", "fail", "idle"}
          /\ \A i \in Ids \ {h[s].id} : reversals'[i] = reversals[i]
          /\ UNCHANGED <<refund, paidOut, rejected, crossed>>
      BY <2>6, ReverseDoes
    <3>2. (h[s].id = r => Working(s, r)) /\ r \in Ids
      BY <3>1 DEF Working, Ids
    <3>3. QED
      BY <2>b, <2>c, <3>1, <3>2
  <2>7. CASE TriggerProvider(s)
    <3>1. /\ h[s].pc = "provider" /\ h'[s].pc \in {"idle", "complete", "rollback", "fail"}
          /\ \A i \in Ids \ {h[s].id} : paidOut'[i] = paidOut[i]
          /\ UNCHANGED <<refund, reversals, rejected, crossed>>
      BY <2>7, TriggerProviderDoes
    <3>2. (h[s].id = r => Working(s, r)) /\ r \in Ids
      BY <3>1 DEF Working, Ids
    <3>3. QED
      BY <2>b, <2>c, <3>1, <3>2
  <2>8. CASE Rollback(s)
    <3>1. /\ h[s].pc = "rollback" /\ h'[s].pc \in {"fail", "idle"}
          /\ UNCHANGED <<refund, reversals, paidOut, rejected, crossed>>
      BY <2>8, RollbackDoes
    <3>2. h[s].id = r => Working(s, r)
      BY <3>1 DEF Working
    <3>3. QED
      BY <2>b, <2>c, <3>1, <3>2
  <2>9. CASE CacheRefund(s)
    <3>1. /\ h[s].pc = "cache" /\ h[s].st \in Statuses /\ h[s].id \in Refunds
          /\ h[s].next \in {"end", "approve", "reject", "find", "reverse"}
      BY <2>9, <2>a, WorksOnRow DEF CacheRefund, RequestShaped
    <3>2. /\ UNCHANGED <<refund, reversals, paidOut, rejected, crossed>>
          /\ (h[s].next = "end" /\ h'[s].pc = "idle") \/ (h[s].next # "end" /\ h'[s].pc = h[s].next)
      BY <2>9, <3>1, CacheRefundDoes
    <3>3. CASE h[s].next # "end" /\ h[s].id = r
      <4>1. h[s] # Vacant
        BY <2>a, VacantIsNone
      <4>2. /\ Working(s, r)' => Working(s, r)
            /\ LetIn(s, "approve", r)' => LetIn(s, "approve", r)
            /\ LetIn(s, "reject", r)' => LetIn(s, "reject", r)
        BY <3>1, <3>2, <3>3, <4>1 DEF Working, LetIn
      <4>3. QED
        BY <2>a, <3>1, <3>2, <3>3, <4>2, DecidedStays
    <3>4. QED
      BY <2>b, <3>2, <3>3
  <2>10. CASE Crash(s)
    BY <2>10, <2>b, CrashDoes
  <2>11. QED
    BY <1>2, <2>1, <2>2, <2>3, <2>4, <2>5, <2>6, <2>7, <2>8, <2>9, <2>10, StepCases
<1>3. ASSUME NEW q \in Refunds, CopyExpires(q) \/ Cleanup(q), NEW r \in Refunds PROVE DecidedOnce(r)'
  <2>1. UNCHANGED <<reversals, paidOut, rejected, crossed, h>>
    BY <1>3, ExpiryDoes
  <2>2. Untouched(r)' = Untouched(r) /\ \A s \in Slots, kind \in {"approve", "reject"} : LetIn(s, kind, r)' = LetIn(s, kind, r)
    BY <2>1 DEF Untouched, Working, LetIn
  <2>3. CASE refund'[r] = refund[r]
    BY <2>1, <2>2, <2>3 DEF DecidedOnce
  <2>4. CASE refund'[r].status = Gone /\ \A s \in Slots : h[s] # Vacant => h[s].id # r
    <3>1. \A s \in Slots : /\ ~LetIn(s, "approve", r) /\ ~LetIn(s, "reject", r)
                           /\ ~(h[s].pc \in {"exists", "insert"} /\ h[s].id = r)
      BY <2>4, VacantIsNone DEF LetIn
    <3>2. QED
      BY <2>1, <2>2, <2>4, <3>1 DEF DecidedOnce, Gone, NoStatus
  <2>5. QED
    BY <1>3, <2>3, <2>4, ExpiryDoes
<1>4. ASSUME UNCHANGED refundVars, NEW r \in Refunds PROVE DecidedOnce(r)'
  BY <1>4 DEF refundVars, moneyVars, pastVars, DecidedOnce, Untouched, Working, LetIn
<1>5. QED
  BY <1>1, <1>2, <1>3, <1>4, RefundCases
-----------------------------------------------------------------------------
LEMMA InitRefund == ASSUME RefundInit PROVE RefundInv
<1>1. RefundTypeOK
  <2>1. (CHOOSE p \in Payments : TRUE) \in Payments
    BY RefundAssumption
  <2>2. refund \in [Refunds -> [status : Statuses \cup {NoStatus, Gone}, pay : Payments]]
    BY <2>1 DEF RefundInit
  <2>3. balance \in [Users -> Int] /\ used \in [DOMAIN Budget -> Nat]
    BY RefundAssumption DEF RefundInit
  <2>4. /\ overlapped \in [Refunds -> BOOLEAN]
        /\ rejected \in [Refunds -> BOOLEAN] /\ crossed \in [Refunds -> BOOLEAN]
        /\ paidOut \in [Ids -> BOOLEAN]
    BY Zenon DEF RefundInit
  <2>5. /\ copy \in [Refunds -> Statuses \cup {NoStatus}]
        /\ reversals \in [Ids -> Nat] /\ rollbacks \in [Ids -> Nat]
        /\ h \in [Slots -> Request \cup {Vacant}]
    BY DEF RefundInit
  <2>6. QED
    BY <2>2, <2>3, <2>4, <2>5, Zenon DEF RefundTypeOK
<1>2. \A s \in Slots : h[s].pc = "idle"
  BY VacantIsNone DEF RefundInit
<1>3. \A i \in Ids : TakenFirst(i)
  <2>1. \A i \in Ids : Owing(i) = {}
    BY <1>2 DEF Owing
  <2>2. IsFiniteSet({}) /\ Cardinality({}) = 0
    BY FS_EmptySet
  <2>3. \A i \in Ids : rollbacks[i] = 0 /\ reversals[i] = 0 /\ ~paidOut[i]
    BY DEF RefundInit
  <2>4. QED
    BY <2>1, <2>2, <2>3 DEF TakenFirst
<1>4. \A r \in Refunds : DebitsAlone(r)
  BY <1>2 DEF RefundInit, DebitsAlone, Debiting, Ids
<1>5. \A r \in Refunds : DecidedOnce(r)
  <2>1. \A s \in Slots, r \in Refunds : ~Working(s, r) /\ ~LetIn(s, "reject", r) /\ ~LetIn(s, "approve", r)
    BY <1>2 DEF Working, LetIn
  <2>2. \A r \in Refunds : ~rejected[r] /\ Untouched(r) /\ refund[r].status = NoStatus
    BY <2>1 DEF RefundInit, Untouched, Ids
  <2>3. QED
    BY <1>2, <2>1, <2>2 DEF DecidedOnce
<1>6. QED
  BY <1>1, <1>2, <1>3, <1>4, <1>5 DEF RefundInv, RequestsShaped, RequestShaped

\* The refund workflow keeps its invariant.
THEOREM RefundsKeepInv == RefundSpec => []RefundInv
<1>1. RefundInit => RefundInv
  BY InitRefund
<1>2. RefundInv /\ [RefundNext]_refundVars => RefundInv'
  <2> SUFFICES ASSUME RefundInv, [RefundNext]_refundVars PROVE RefundInv'
    OBVIOUS
  <2>1. /\ RefundTypeOK /\ RequestsShaped /\ (\A i \in Ids : TakenFirst(i))
        /\ (\A r \in Refunds : DebitsAlone(r)) /\ (\A r \in Refunds : DecidedOnce(r))
    BY DEF RefundInv
  <2>2. RefundTypeOK' /\ RequestsShaped'
    BY <2>1, TypesAndShapes
  <2>3. \A i \in Ids : TakenFirst(i)'
    BY <2>1, MoneyStep
  <2>4. \A r \in Refunds : DebitsAlone(r)'
    BY <2>1, DebitsStep
  <2>5. \A r \in Refunds : DecidedOnce(r)'
    BY <2>1, DecidedStep
  <2>6. QED
    BY <2>2, <2>3, <2>4, <2>5 DEF RefundInv, Ids
<1>3. QED
  BY <1>1, <1>2, PTL DEF RefundSpec

\* The rows, the Redis copies, the ledger and the requests of the refund workflow stay
\* within their types.
THEOREM RefundsKeepTypes == RefundSpec => []RefundTypeOK
<1>1. RefundInv => RefundTypeOK
  BY DEF RefundInv
<1>2. QED
  BY <1>1, RefundsKeepInv, PTL

\* A refund gives nothing that was not taken before, by the provider or by a compensating
\* credit, and is debited twice only when two approvals looked for the earlier debit
\* side by side: for any number of refunds, requests and faults.
THEOREM RefundTakenOnce == RefundSpec => []RefundIsTakenOnce
<1>1. ASSUME RefundInv PROVE RefundIsTakenOnce
  <2>1. RefundTypeOK /\ (\A i \in Ids : TakenFirst(i)) /\ (\A r \in Refunds : DebitsAlone(r))
    BY <1>1 DEF RefundInv
  <2>2. NothingGivenBeforeTaken
    <3>1. SUFFICES ASSUME NEW i \in Ids PROVE rollbacks[i] <= reversals[i] /\ (paidOut[i] => reversals[i] > 0)
      BY DEF NothingGivenBeforeTaken
    <3>2. PICK n \in Nat : n = Cardinality(Owing(i))
      BY <2>1, FS_CardinalityType DEF TakenFirst
    <3>3. PICK a \in Nat, b \in Nat : a = reversals[i] /\ b = rollbacks[i]
      BY <2>1 DEF RefundTypeOK
    <3>4. b + n <= a /\ (paidOut[i] => a > 0)
      BY <2>1, <3>2, <3>3 DEF TakenFirst
    <3>5. QED
      BY <3>2, <3>3, <3>4
  <2>3. SecondDebitTakesOverlap
    <3>1. \A r \in Refunds : reversals[r] \in Nat
      BY <2>1 DEF RefundTypeOK, Ids
    <3>2. QED
      BY <2>1, <3>1 DEF SecondDebitTakesOverlap, DebitsAlone
  <2>4. QED
    BY <2>2, <2>3 DEF RefundIsTakenOnce
<1>2. QED
  BY <1>1, RefundsKeepInv, PTL

\* A rejection that was written stands: no approval that comes after it, and none that came
\* before it, changes its refund or takes anything for it, unless the two were let in side by
\* side or by a stale copy: for any number of refunds, requests and faults.
THEOREM RejectionsStand == RefundSpec => []RejectionStands
<1>1. ASSUME RefundInv PROVE RejectionStands
  BY <1>1 DEF RefundInv, DecidedOnce, Untouched, RejectionStands
<1>2. QED
  BY <1>1, RefundsKeepInv, PTL
=============================================================================
