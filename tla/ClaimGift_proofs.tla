-------------------------- MODULE ClaimGift_proofs ---------------------------
(***************************************************************************)
(* What holds of a guest identity and of an account's gifts, which share   *)
(* no state: the first for every set of accounts, orders, tokens, claims   *)
(* and tables, the second for every set of rewards, vouchers, codes,       *)
(* subscriptions and requests.                                             *)
(***************************************************************************)
EXTENDS GuestClaim, RewardRedemption, FiniteSetTheorems, TLAPS

(* GuestClaim                                                              *)

\* Whoever is at work on the identity holds its row, and the user it has read is the one
\* the row has; a claim has seen one it may take.
LockProtects ==
  /\ \A o \in Orders : draft[o].open => /\ lock = o /\ draft[o].seen = identity
                                        /\ order[o] = None
  /\ \A c \in Claims :
       /\ claim[c].pc \in Open => claim[c].user \in Users
       /\ claim[c].pc = "moving" => /\ lock = c /\ claim[c].seen = identity
                                    /\ identity \in {None, Guest, claim[c].user}

\* Only an order leads to something.
RowsHaveOrders == \A o \in Orders, k \in Kinds : row[o][k].st # "none" => order[o] # None

ClaimInv == ClaimTypeOK /\ LockProtects /\ RowsHaveOrders /\ OrdersFollowIdentity /\ StrayTakesOverlap

-----------------------------------------------------------------------------
ClaimStates == [pc : Open \cup {"idle", "claimed", "refused", "failed"}, token : Tokens \cup {None},
                user : Users \cup {None}, seen : Owners \cup {None}]

\* A row that is there names an owner.
LEMMA RowOwner ==
  ASSUME NEW r \in Rows, r.st # "none"
  PROVE  r \in [st : {"read", "written"}, user : Owners, late : BOOLEAN]
BY DEF Rows

\* The initial state satisfies the invariant.
LEMMA InitClaim ==
  ASSUME GuestClaimAssumption
  PROVE  ClaimInit => ClaimInv
<1> SUFFICES ASSUME ClaimInit PROVE ClaimInv
  OBVIOUS
<1>1. ClaimTypeOK
  <2>1. row \in [Orders -> [Kinds -> Rows]]
    BY DEF ClaimInit, Rows
  <2>2. /\ draft \in [Orders -> [open : BOOLEAN, seen : Owners \cup {None}]]
        /\ claim \in [Claims -> ClaimStates]
    BY DEF ClaimInit, ClaimStates
  <2>3. /\ identity \in Owners \cup {None} /\ lock \in Claims \cup Orders \cup {None}
        /\ order \in [Orders -> Owners \cup {None}]
        /\ token \in [Tokens -> {"none", "live", "expired", "used"}]
        /\ mail \subseteq Orders
    BY Zenon DEF ClaimInit
  <2>4. linking \in BOOLEAN /\ stale \in BOOLEAN
    BY Zenon DEF ClaimInit
  <2>5. claimFailures \in 0 .. MaxClaimFailures
    BY DEF GuestClaimAssumption, ClaimInit
  <2>6. QED
    BY <2>1, <2>2, <2>3, <2>4, <2>5 DEF ClaimTypeOK, ClaimStates
<1>2. LockProtects
  BY DEF ClaimInit, LockProtects, Open
<1>3. RowsHaveOrders /\ OrdersFollowIdentity /\ StrayTakesOverlap
  BY DEF ClaimInit, GuestClaimAssumption, RowsHaveOrders, OrdersFollowIdentity, StrayTakesOverlap
<1>4. QED
  BY <1>1, <1>2, <1>3 DEF ClaimInv

\* The claims keep their type when one of them is answered.
LEMMA FinishType ==
  ASSUME ClaimTypeOK, NEW c \in Claims, NEW answer \in {"claimed", "refused", "failed"}, Rollback(c, answer)
  PROVE  claim' \in [Claims -> ClaimStates] /\ lock' \in {lock, None}
BY SMTT(30) DEF ClaimTypeOK, Rollback, Answer, Open, ClaimStates

\* Type correctness: every step keeps each variable's type.
LEMMA TypeStep ==
  ASSUME GuestClaimAssumption, ClaimTypeOK, LockProtects, [ClaimNext]_claimVars
  PROVE  ClaimTypeOK'
<1> USE DEF GuestClaimAssumption, ClaimTypeOK, Owners, ClaimStates
<1>1. CASE EnsureIdentity \/ LinkIdentity
  <2>1. stale' \in BOOLEAN /\ linking' \in BOOLEAN
    BY <1>1, Zenon DEF EnsureIdentity, LinkIdentity
  <2>2. identity' \in Owners \cup {None}
    BY <1>1 DEF EnsureIdentity, LinkIdentity
  <2>3. UNCHANGED <<lock, order, draft, token, mail, row, claim, claimFailures>>
    BY <1>1 DEF EnsureIdentity, LinkIdentity
  <2>4. QED
    BY <2>1, <2>2, <2>3
<1>2. ASSUME NEW o \in Orders, LockDraft(o) \/ CommitDraft(o) \/ RollbackDraft(o) \/ ComposeMail(o)
      PROVE  ClaimTypeOK'
  <2>1. CASE LockDraft(o)
    BY <2>1 DEF LockDraft
  <2>2. CASE CommitDraft(o)
    BY <2>2 DEF CommitDraft, EndDraft
  <2>3. CASE RollbackDraft(o)
    BY <2>3 DEF RollbackDraft, EndDraft, Failure
  <2>4. CASE ComposeMail(o)
    BY <2>4 DEF ComposeMail
  <2>5. QED
    BY <1>2, <2>1, <2>2, <2>3, <2>4
<1>3. ASSUME NEW o \in Orders, NEW k \in Kinds, ReadOwner(o, k) \/ InsertRow(o, k)
      PROVE  ClaimTypeOK'
  <2>1. row[o][k] \in Rows
    OBVIOUS
  <2>2. CASE ReadOwner(o, k)
    <3>1. [st |-> "read", user |-> order[o], late |-> FALSE] \in Rows
      BY <2>2 DEF ReadOwner, Rows
    <3>2. QED
      BY <2>2, <3>1 DEF ReadOwner
  <2>3. CASE InsertRow(o, k)
    <3>1. row[o][k] \in [st : {"read", "written"}, user : Owners, late : BOOLEAN]
      BY <2>1, <2>3, RowOwner DEF InsertRow
    <3>2. (row[o][k].user # order[o]) \in BOOLEAN
      BY Zenon
    <3>3. [st |-> "written", user |-> row[o][k].user, late |-> row[o][k].user # order[o]] \in Rows
      BY <3>1, <3>2 DEF Rows
    <3>4. QED
      BY <2>3, <3>3 DEF InsertRow
  <2>4. QED
    BY <1>3, <2>2, <2>3
<1>4. ASSUME NEW o \in Orders, NEW t \in Tokens, IssueToken(o, t) PROVE ClaimTypeOK'
  BY <1>4 DEF IssueToken
<1>5. ASSUME NEW t \in Tokens, ExpireToken(t) PROVE ClaimTypeOK'
  BY <1>5 DEF ExpireToken
<1>6. ASSUME NEW c \in Claims, NEW t \in Tokens, NEW u \in Users, LockToken(c, t, u) PROVE ClaimTypeOK'
  BY <1>6 DEF LockToken, Open
<1>7. ASSUME NEW c \in Claims, LockIdentity(c) PROVE ClaimTypeOK'
  <2>1. CASE Rollback(c, "refused")
    BY <1>7, <2>1, FinishType DEF LockIdentity
  <2>2. CASE ~Rollback(c, "refused")
    <3>1. [claim[c] EXCEPT !.pc = "moving", !.seen = identity] \in ClaimStates
      BY ZenonT(30) DEF Open
    <3>2. claim' = [claim EXCEPT ![c] = [claim[c] EXCEPT !.pc = "moving", !.seen = identity]]
      BY <1>7, <2>2 DEF LockIdentity
    <3>3. QED
      BY <1>7, <2>2, <3>1, <3>2 DEF LockIdentity
  <2>3. QED
    BY <2>1, <2>2
<1>8. ASSUME NEW c \in Claims, CommitClaim(c) PROVE ClaimTypeOK'
  <2>1. claim[c].user \in Users
    BY <1>8 DEF CommitClaim, LockProtects, Open
  <2>2. \A u \in Owners \cup {None} : Reassigned(c, u) \in Owners \cup {None}
    BY <2>1 DEF Reassigned
  <2>3. ASSUME NEW o \in Orders PROVE MovedRows(c, o) \in [Kinds -> Rows]
    <3>1. ASSUME NEW k \in Kinds, row[o][k].st = "written"
          PROVE  [row[o][k] EXCEPT !.user = Reassigned(c, @)] \in Rows
      <4>1. row[o][k] \in [st : {"read", "written"}, user : Owners, late : BOOLEAN]
        <5>1. row[o][k] \in Rows
          OBVIOUS
        <5>2. QED
          BY <3>1, <5>1, RowOwner
      <4>2. Reassigned(c, row[o][k].user) \in Owners
        BY <2>1, <4>1 DEF Reassigned
      <4>3. QED
        BY <4>1, <4>2 DEF Rows
    <3>2. QED
      BY <3>1 DEF MovedRows
  <2>4. row' \in [Orders -> [Kinds -> Rows]] /\ order' \in [Orders -> Owners \cup {None}]
    BY <1>8, <2>2, <2>3 DEF CommitClaim
  <2>5. QED
    BY <1>8, <2>1, <2>4, FinishType DEF CommitClaim
<1>9. ASSUME NEW c \in Claims, BreakDeadlock(c) PROVE ClaimTypeOK'
  BY <1>9, FinishType DEF BreakDeadlock, Rivals
<1>10. ASSUME NEW c \in Claims, FailClaim(c) PROVE ClaimTypeOK'
  BY <1>10, FinishType DEF FailClaim, Failure
<1>11. CASE UNCHANGED claimVars
  BY <1>11 DEF claimVars
<1>12. QED
  BY <1>1, <1>2, <1>3, <1>4, <1>5, <1>6, <1>7, <1>8, <1>9, <1>10, <1>11 DEF ClaimNext

-----------------------------------------------------------------------------
\* The row locks: who holds the identity's row keeps its user as it was read.
LEMMA LockStep ==
  ASSUME GuestClaimAssumption, ClaimTypeOK, LockProtects, [ClaimNext]_claimVars
  PROVE  LockProtects'
<1> USE DEF GuestClaimAssumption, ClaimTypeOK, LockProtects, Open
<1>1. CASE EnsureIdentity \/ LinkIdentity
  BY <1>1 DEF EnsureIdentity, LinkIdentity
<1>2. ASSUME NEW o \in Orders, LockDraft(o) \/ CommitDraft(o) \/ RollbackDraft(o) \/ ComposeMail(o)
      PROVE  LockProtects'
  <2>1. CASE LockDraft(o)
    BY <2>1 DEF LockDraft
  <2>2. CASE CommitDraft(o)
    BY <2>2 DEF CommitDraft, EndDraft
  <2>3. CASE RollbackDraft(o)
    BY <2>3 DEF RollbackDraft, EndDraft
  <2>4. CASE ComposeMail(o)
    BY <2>4 DEF ComposeMail
  <2>5. QED
    BY <1>2, <2>1, <2>2, <2>3, <2>4
<1>3. ASSUME NEW o \in Orders, NEW k \in Kinds, ReadOwner(o, k) \/ InsertRow(o, k)
      PROVE  LockProtects'
  BY <1>3 DEF ReadOwner, InsertRow
<1>4. ASSUME NEW t \in Tokens, ExpireToken(t) \/ \E o \in Orders : IssueToken(o, t)
      PROVE  LockProtects'
  BY <1>4 DEF IssueToken, ExpireToken
<1>5. ASSUME NEW c \in Claims, NEW t \in Tokens, NEW u \in Users, LockToken(c, t, u)
      PROVE  LockProtects'
  BY <1>5 DEF LockToken
<1>6. ASSUME NEW c \in Claims, LockIdentity(c) PROVE LockProtects'
  BY <1>6, SMTT(30) DEF LockIdentity, Rollback, Answer
<1>7. ASSUME NEW c \in Claims, CommitClaim(c) PROVE LockProtects'
  <2>1. lock = c /\ lock' = None
    BY <1>7 DEF CommitClaim, Rollback
  <2>2. \A o \in Orders : ~draft[o].open /\ draft'[o] = draft[o]
    BY <1>7, <2>1 DEF CommitClaim
  <2>3. \A d \in Claims : claim'[d].pc = "moving" => claim[d].pc = "moving" /\ d # c
    BY <1>7 DEF CommitClaim, Rollback, Answer
  <2>4. \A d \in Claims : claim'[d].pc # "moving"
    BY <2>1, <2>3
  <2>5. \A d \in Claims : claim'[d].pc \in Open => claim'[d].user \in Users
    BY <1>7 DEF CommitClaim, Rollback, Answer
  <2>6. QED
    BY <2>2, <2>4, <2>5
<1>8. ASSUME NEW c \in Claims, NEW d \in Claims, Rollback(d, "failed"), claim[d].pc \in Open,
             UNCHANGED <<identity, order, draft>>
      PROVE  LockProtects'
  BY <1>8 DEF Rollback, Answer
<1>9. ASSUME NEW c \in Claims, BreakDeadlock(c) \/ FailClaim(c) PROVE LockProtects'
  BY <1>8, <1>9 DEF BreakDeadlock, FailClaim, Rivals, Holds
<1>10. CASE UNCHANGED claimVars
  BY <1>10 DEF claimVars
<1>11. QED
  BY <1>1, <1>2, <1>3, <1>4, <1>5, <1>6, <1>7, <1>9, <1>10 DEF ClaimNext

\* What an order led to is there only with the order.
LEMMA RowsStep ==
  ASSUME GuestClaimAssumption, ClaimTypeOK, LockProtects, RowsHaveOrders, [ClaimNext]_claimVars
  PROVE  RowsHaveOrders'
<1> USE DEF GuestClaimAssumption, ClaimTypeOK, RowsHaveOrders
<1>1. ASSUME UNCHANGED <<order, row>> PROVE RowsHaveOrders'
  BY <1>1
<1>2. ASSUME NEW o \in Orders, CommitDraft(o) PROVE RowsHaveOrders'
  BY <1>2 DEF CommitDraft, LockProtects
<1>3. ASSUME NEW o \in Orders, NEW k \in Kinds, ReadOwner(o, k) \/ InsertRow(o, k)
      PROVE  RowsHaveOrders'
  BY <1>3 DEF ReadOwner, InsertRow
<1>4. ASSUME NEW c \in Claims, CommitClaim(c) PROVE RowsHaveOrders'
  <2>1. claim[c].user \in Users
    BY <1>4 DEF CommitClaim, LockProtects, Open
  <2>2. \A o \in Orders : order[o] # None => order'[o] # None
    BY <1>4, <2>1 DEF CommitClaim, Reassigned
  <2>3. \A o \in Orders, k \in Kinds : row'[o][k].st = row[o][k].st
    <3>1. SUFFICES ASSUME NEW o \in Orders, NEW k \in Kinds PROVE row'[o][k].st = row[o][k].st
      OBVIOUS
    <3>2. row[o][k] \in Rows
      OBVIOUS
    <3>3. row[o][k].st = "written" => [row[o][k] EXCEPT !.user = Reassigned(c, @)].st = "written"
      BY <3>2, RowOwner
    <3>4. QED
      BY <1>4, <3>3 DEF CommitClaim, MovedRows
  <2>4. QED
    BY <2>2, <2>3
<1>5. QED
  BY <1>1, <1>2, <1>3, <1>4 DEF ClaimNext, claimVars, EnsureIdentity, LinkIdentity, LockDraft, RollbackDraft,
     ComposeMail, IssueToken, ExpireToken, LockToken, LockIdentity, BreakDeadlock, FailClaim

-----------------------------------------------------------------------------
\* Whose the orders are: a draft, a claim and a link set both the identity and its orders.
LEMMA OrdersStep ==
  ASSUME GuestClaimAssumption, ClaimTypeOK, LockProtects, OrdersFollowIdentity, [ClaimNext]_claimVars
  PROVE  OrdersFollowIdentity'
<1> USE DEF GuestClaimAssumption, ClaimTypeOK, OrdersFollowIdentity
<1>1. ASSUME UNCHANGED <<identity, order, stale>> PROVE OrdersFollowIdentity'
  BY <1>1
<1>2. CASE LinkIdentity
  BY <1>2 DEF LinkIdentity
<1>3. ASSUME NEW o \in Orders, CommitDraft(o) PROVE OrdersFollowIdentity'
  BY <1>3 DEF CommitDraft, LockProtects
<1>4. ASSUME NEW c \in Claims, CommitClaim(c) PROVE OrdersFollowIdentity'
  <2>1. /\ claim[c].user \in Users /\ claim[c].seen = identity
        /\ identity \in {None, Guest, claim[c].user}
    BY <1>4 DEF CommitClaim, LockProtects, Open
  <2>2. \A o \in Orders : order'[o] = Reassigned(c, order[o])
    BY <1>4 DEF CommitClaim
  <2>3. identity' = claim[c].user /\ stale' = stale
    BY <1>4 DEF CommitClaim
  <2>4. QED
    BY <2>1, <2>2, <2>3 DEF Reassigned
<1>5. QED
  BY <1>1, <1>2, <1>3, <1>4 DEF ClaimNext, claimVars, EnsureIdentity, LockDraft, RollbackDraft, ComposeMail,
     ReadOwner, InsertRow, IssueToken, ExpireToken, LockToken, LockIdentity, BreakDeadlock, FailClaim

\* Whose the rows are: what a claim does to an order it does to the order's rows.
LEMMA StrayStep ==
  ASSUME GuestClaimAssumption, ClaimTypeOK, LockProtects, RowsHaveOrders, StrayTakesOverlap, [ClaimNext]_claimVars
  PROVE  StrayTakesOverlap'
<1> USE DEF GuestClaimAssumption, ClaimTypeOK, StrayTakesOverlap
<1>1. ASSUME UNCHANGED <<order, row>> PROVE StrayTakesOverlap'
  BY <1>1
<1>2. ASSUME NEW o \in Orders, CommitDraft(o) PROVE StrayTakesOverlap'
  BY <1>2 DEF CommitDraft, LockProtects, RowsHaveOrders
<1>3. ASSUME NEW o \in Orders, NEW k \in Kinds, ReadOwner(o, k) \/ InsertRow(o, k)
      PROVE  StrayTakesOverlap'
  <2>1. order' = order
    BY <1>3 DEF ReadOwner, InsertRow
  <2>2. \A x \in Orders, y \in Kinds : x # o \/ y # k => row'[x][y] = row[x][y]
    BY <1>3 DEF ReadOwner, InsertRow
  <2>3. row'[o][k].st = "written" /\ ~row'[o][k].late => row'[o][k].user = order[o]
    <3>1. CASE ReadOwner(o, k)
      BY <3>1 DEF ReadOwner
    <3>2. CASE InsertRow(o, k)
      <4>1. row'[o][k] = [st |-> "written", user |-> row[o][k].user, late |-> row[o][k].user # order[o]]
        BY <3>2 DEF InsertRow
      <4>2. row'[o][k].user = row[o][k].user
        BY <4>1
      <4>3. CASE row[o][k].user = order[o]
        BY <4>2, <4>3
      <4>4. CASE row[o][k].user # order[o]
        <5> DEFINE differs == row[o][k].user # order[o]
        <5>1. differs = TRUE
          BY <4>4, Zenon
        <5>2. row'[o][k] = [st |-> "written", user |-> row[o][k].user, late |-> differs]
          BY <4>1, Zenon
        <5> HIDE DEF differs
        <5>3. row'[o][k].late = TRUE
          BY <5>1, <5>2
        <5>4. QED
          BY <5>3
      <4>5. QED
        BY <4>3, <4>4
    <3>3. QED
      BY <1>3, <3>1, <3>2
  <2>4. QED
    BY <2>1, <2>2, <2>3
<1>4. ASSUME NEW c \in Claims, CommitClaim(c) PROVE StrayTakesOverlap'
  <2>1. SUFFICES ASSUME NEW o \in Orders, NEW k \in MovedKinds,
                        row'[o][k].st = "written", ~row'[o][k].late
                 PROVE  row'[o][k].user = order'[o]
    OBVIOUS
  <2>2. row[o][k] \in Rows /\ k \in Kinds
    OBVIOUS
  <2>3. row'[o][k] = MovedRows(c, o)[k] /\ order'[o] = Reassigned(c, order[o])
    BY <1>4 DEF CommitClaim
  <2>4. row[o][k].st = "written"
    BY <2>1, <2>2, <2>3 DEF MovedRows
  <2>5. row[o][k] \in [st : {"read", "written"}, user : Owners, late : BOOLEAN]
    BY <2>2, <2>4, RowOwner
  <2>6. row'[o][k] = [row[o][k] EXCEPT !.user = Reassigned(c, @)]
    BY <2>2, <2>3, <2>4 DEF MovedRows
  <2>7. row'[o][k].late = row[o][k].late /\ row'[o][k].user = Reassigned(c, row[o][k].user)
    BY <2>5, <2>6
  <2>8. row[o][k].user = order[o]
    BY <2>1, <2>4, <2>7
  <2>9. QED
    BY <2>3, <2>7, <2>8
<1>5. QED
  BY <1>1, <1>2, <1>3, <1>4 DEF ClaimNext, claimVars, EnsureIdentity, LinkIdentity, LockDraft, RollbackDraft,
     ComposeMail, IssueToken, ExpireToken, LockToken, LockIdentity, BreakDeadlock, FailClaim

\* Who has claimed the identity keeps it.
LEMMA FinalStep ==
  ASSUME GuestClaimAssumption, ClaimTypeOK, LockProtects, [ClaimNext]_claimVars
  PROVE  (identity \in Users /\ identity' # identity) => (linking /\ ~linking')
<1> USE DEF GuestClaimAssumption, ClaimTypeOK
<1>1. CASE LinkIdentity
  BY <1>1, Zenon DEF LinkIdentity
<1>2. ASSUME NEW o \in Orders, CommitDraft(o) PROVE identity \in Users => identity' = identity
  BY <1>2 DEF CommitDraft, LockProtects
<1>3. ASSUME NEW c \in Claims, CommitClaim(c) PROVE identity \in Users => identity' = identity
  BY <1>3 DEF CommitClaim, LockProtects
<1>4. QED
  BY <1>1, <1>2, <1>3 DEF ClaimNext, claimVars, EnsureIdentity, LockDraft, RollbackDraft, ComposeMail,
     ReadOwner, InsertRow, IssueToken, ExpireToken, LockToken, LockIdentity, BreakDeadlock, FailClaim

-----------------------------------------------------------------------------
\* The invariant is one.
LEMMA ClaimInvariant ==
  ASSUME GuestClaimAssumption
  PROVE  ClaimSpec => []ClaimInv
<1>1. ClaimInit => ClaimInv
  BY InitClaim
<1>2. ClaimInv /\ [ClaimNext]_claimVars => ClaimInv'
  BY TypeStep, LockStep, RowsStep, OrdersStep, StrayStep DEF ClaimInv
<1>3. QED
  BY <1>1, <1>2, PTL DEF ClaimSpec

\* The identity, its orders, tokens, rows and claims keep their types.
THEOREM TypeCorrect ==
  ASSUME GuestClaimAssumption
  PROVE  ClaimSpec => []ClaimTypeOK
<1>1. ClaimInv => ClaimTypeOK
  BY DEF ClaimInv
<1>2. QED
  BY <1>1, ClaimInvariant, PTL

\* Every order of the identity belongs to the identity's user, whatever drafts, claims and
\* sign-ins overlap, unless a link was decided before another user came.
THEOREM IdentityHasItsOrders ==
  ASSUME GuestClaimAssumption
  PROVE  ClaimSpec => []OrdersFollowIdentity
<1>1. ClaimInv => OrdersFollowIdentity
  BY DEF ClaimInv
<1>2. QED
  BY <1>1, ClaimInvariant, PTL

\* What an order led to belongs to the order's user, unless it was written for the user
\* the order had before a claim.
THEOREM RowsHaveTheirOwner ==
  ASSUME GuestClaimAssumption
  PROVE  ClaimSpec => []StrayTakesOverlap
<1>1. ClaimInv => StrayTakesOverlap
  BY DEF ClaimInv
<1>2. QED
  BY <1>1, ClaimInvariant, PTL

\* No claim takes an identity from the account that has it.
THEOREM ClaimedOnce ==
  ASSUME GuestClaimAssumption
  PROVE  ClaimSpec => ClaimIsFinal
<1>1. ClaimInv /\ [ClaimNext]_claimVars =>
        [(identity \in Users /\ identity' # identity) => (linking /\ ~linking')]_claimVars
  BY FinalStep DEF ClaimInv
<1>2. QED
  BY <1>1, ClaimInvariant, PTL DEF ClaimSpec, ClaimIsFinal

-----------------------------------------------------------------------------
(* RewardRedemption                                                        *)

Ways == {"none", "claim", "extend", "credits", "voucher"}

Stages == {"idle", "perk", "reward", "sub", "commit", "credits", "markReward", "markPerk",
           "voucher", "draw", "insert"}

Asked == [gift : Rewards \cup Vouchers \cup {Unset}, sub : Subscriptions \cup {Unset},
          code : Codes \cup {Unset}, way : Ways]

\* The types of the gifts' rows and requests.
GiftTypeOK ==
  /\ status \in [Subscriptions -> {"pending", "active", "ended"}] /\ started \in Seq(Subscriptions)
  /\ months \in [Subscriptions -> [Rewards -> Nat]]
  /\ credits \in [Rewards -> Nat]
  /\ task \in [Rewards -> {"none", "pending", "issue", "delivered"}]
  /\ redeemed \subseteq Rewards /\ perk \subseteq Rewards /\ claimed \subseteq Vouchers
  /\ coupon \in [Codes -> Vouchers \cup {Unset}]
  /\ rowLock \in [Lockable -> Requests \cup {Unset}]
  /\ stage \in [Requests -> Stages]
  /\ req \in [Requests -> Asked]
  /\ giftFailures \in Nat /\ overlapped \subseteq Rewards /\ died \subseteq Rewards

\* What a request is about fits how far it has come.
AskedInOrder ==
  \A p \in Requests :
    /\ stage[p] \in {"perk", "reward", "sub"} => req[p].way \in {"claim", "extend"}
    /\ stage[p] = "commit" => req[p].way \in {"claim", "extend", "voucher"}
    /\ stage[p] \in {"credits", "markReward", "markPerk"} => req[p].way = "credits"
    /\ stage[p] \in {"voucher", "draw", "insert"} => req[p].way = "voucher"
    /\ req[p].way \in {"claim", "extend"} => req[p].gift \in Rewards /\ req[p].sub \in Subscriptions
    /\ req[p].way = "credits" => req[p].gift \in Rewards
    /\ req[p].way = "voucher" => req[p].gift \in Vouchers
    /\ req[p].way = "voucher" /\ stage[p] \in {"insert", "commit"} => req[p].code \in Codes

\* The requests whose transaction has locked their reward, their voucher, their code.
HasReward(p) ==
  \/ req[p].way = "claim" /\ stage[p] \in {"sub", "commit"}
  \/ req[p].way = "extend" /\ stage[p] \in {"sub", "perk", "commit"}

HasVoucher(p) == req[p].way = "voucher" /\ stage[p] \in {"draw", "insert", "commit"}

HasCode(p) == req[p].way = "voucher" /\ stage[p] = "commit"

\* What a transaction found in a row it has locked is still so.
LockedRowsStay ==
  \A p \in Requests :
    /\ HasReward(p) => rowLock[<<"reward", req[p].gift>>] = p /\ req[p].gift \notin redeemed
    /\ HasVoucher(p) => rowLock[<<"voucher", req[p].gift>>] = p /\ req[p].gift \notin claimed
    /\ HasCode(p) => rowLock[<<"code", req[p].code>>] = p /\ coupon[req[p].code] = Unset

\* Only a transaction holds rows, so a redemption for credits is in no circle of waiting
\* requests.
LocksAreTransactions ==
  \A held \in Lockable, p \in Requests :
    rowLock[held] = p => stage[p] # "idle" /\ req[p].way # "credits"

\* How far the redemptions for credits have come.
CreditsInOrder ==
  \A p \in Requests :
    /\ stage[p] = "credits" /\ req[p].gift \in redeemed => req[p].gift \in overlapped
    /\ stage[p] = "markReward" => credits[req[p].gift] > 0
    /\ stage[p] = "markPerk" => req[p].gift \in redeemed

Extended(r) == \E s \in Subscriptions : months[s][r] > 0

AtReward(r) == \E p \in Requests : stage[p] = "markReward" /\ req[p].gift = r

AtPerk(r) == \E p \in Requests : stage[p] \in {"markReward", "markPerk"} /\ req[p].gift = r

\* What a reward's rows say of what was given for it.
RewardsAreMarked ==
  \A r \in Rewards :
    /\ Extended(r) => r \in redeemed /\ r \in perk
    /\ \A s, t \in Subscriptions : months[s][r] > 0 /\ months[t][r] > 0 => s = t
    /\ \A s \in Subscriptions : months[s][r] <= 1
    /\ credits[r] > 0 => r \in redeemed \/ r \in died \/ AtReward(r)
    /\ credits[r] > 0 => r \in perk \/ r \in died \/ AtPerk(r)
    /\ r \in perk => r \in redeemed
    /\ r \in redeemed => credits[r] > 0 \/ Extended(r)
    /\ task[r] # "none" => r \in perk /\ Extended(r)
    /\ credits[r] > 1 \/ (credits[r] > 0 /\ Extended(r)) => r \in overlapped \cup died

\* A claimed voucher has one coupon, and any other none.
VouchersAreServed ==
  /\ \A c \in Codes : coupon[c] # Unset => coupon[c] \in claimed
  /\ \A v \in claimed : \E c \in Codes : coupon[c] = v
  /\ \A c, d \in Codes : coupon[c] # Unset /\ coupon[c] = coupon[d] => c = d

GiftInv ==
  /\ GiftTypeOK /\ AskedInOrder /\ LockedRowsStay /\ LocksAreTransactions
  /\ CreditsInOrder
  /\ RewardsAreMarked /\ VouchersAreServed
-----------------------------------------------------------------------------
\* What a step of p does not touch of the other requests.
OthersWait(p) == \A q \in Requests \ {p} : stage'[q] = stage[q] /\ req'[q] = req[q]

\* What p needs next is a row that can be locked.
LEMMA NeedsARow ==
  ASSUME GiftTypeOK, AskedInOrder, NEW p \in Requests,
         stage[p] \in {"perk", "reward", "sub", "markReward", "markPerk", "voucher", "insert"}
  PROVE  Needs(p) \in Lockable
<1>1. req[p] \in Asked
  BY DEF GiftTypeOK
<1>2. CASE stage[p] \in {"perk", "reward", "sub"}
  <2>1. req[p].gift \in Rewards /\ req[p].sub \in Subscriptions
    BY <1>2 DEF AskedInOrder
  <2>2. QED
    BY <1>2, <2>1 DEF Needs, Lockable
<1>3. CASE stage[p] \in {"markReward", "markPerk"}
  <2>1. req[p].gift \in Rewards
    BY <1>3 DEF AskedInOrder
  <2>2. QED
    BY <1>3, <2>1 DEF Needs, Lockable
<1>4. CASE stage[p] \in {"voucher", "insert"}
  <2>1. req[p].gift \in Vouchers /\ (stage[p] = "insert" => req[p].code \in Codes)
    BY <1>4 DEF AskedInOrder
  <2>2. QED
    BY <1>4, <2>1 DEF Needs, Lockable
<1>5. QED
  BY <1>2, <1>3, <1>4

\* What needs nothing waits for nothing.
LEMMA WaitersNeed ==
  ASSUME GiftTypeOK, NEW p \in Requests, Needs(p) # Unset
  PROVE  stage[p] \in {"perk", "reward", "sub", "markReward", "markPerk", "voucher", "insert"}
BY DEF Needs

LEMMA ReleasedType ==
  ASSUME GiftTypeOK, NEW p \in Requests
  PROVE  /\ Released(p) \in [Lockable -> Requests \cup {Unset}]
         /\ \A held \in Lockable : Released(p)[held] = IF rowLock[held] = p THEN Unset ELSE rowLock[held]
BY DEF GiftTypeOK, Released

\* What a request asks for that is not under way.
LEMMA NothingIsAsked == Nothing \in Asked
BY DEF Nothing, Asked, Ways

\* The end of a request: it holds nothing and is about nothing.
LEMMA LeaveFacts ==
  ASSUME GiftTypeOK, NEW p \in Requests, Leave(p)
  PROVE  /\ stage' \in [Requests -> Stages] /\ req' \in [Requests -> Asked]
         /\ rowLock' \in [Lockable -> Requests \cup {Unset}]
         /\ OthersWait(p) /\ stage'[p] = "idle" /\ req'[p].way = "none"
         /\ \A held \in Lockable : rowLock'[held] = IF rowLock[held] = p THEN Unset ELSE rowLock[held]
<1>1. /\ rowLock' = Released(p)
      /\ stage' = [stage EXCEPT ![p] = "idle"]
      /\ req' = [req EXCEPT ![p] = Nothing]
  BY DEF Leave
<1>2. stage \in [Requests -> Stages] /\ req \in [Requests -> Asked]
  BY DEF GiftTypeOK
<1>3. stage' \in [Requests -> Stages] /\ req' \in [Requests -> Asked]
  BY <1>1, <1>2, NothingIsAsked DEF Stages
<1>4. OthersWait(p) /\ stage'[p] = "idle" /\ req'[p] = Nothing
  BY <1>1, <1>2 DEF OthersWait
<1>5. QED
  BY <1>1, <1>3, <1>4, ReleasedType DEF Nothing

\* What a step of p must leave true of p itself, and of the rows p may have changed, for
\* the invariants about requests to go on holding.
LEMMA AskedKept ==
  ASSUME AskedInOrder, NEW p \in Requests, OthersWait(p), stage'[p] = "idle", req'[p].way = "none"
  PROVE  AskedInOrder'
BY DEF AskedInOrder, OthersWait

\* Locks that only p gave up, with rows that only what p had locked could say otherwise.
LEMMA LocksKeptByLeaving ==
  ASSUME GiftTypeOK, AskedInOrder, LockedRowsStay, LocksAreTransactions, NEW p \in Requests, Leave(p),
         \A q \in Requests \ {p} :
           /\ HasReward(q) /\ req[q].gift \in redeemed' => req[q].gift \in redeemed
           /\ HasVoucher(q) /\ req[q].gift \in claimed' => req[q].gift \in claimed
           /\ HasCode(q) /\ coupon[req[q].code] = Unset => coupon'[req[q].code] = Unset
  PROVE  LockedRowsStay' /\ LocksAreTransactions'
<1>1. /\ OthersWait(p) /\ stage'[p] = "idle" /\ req'[p].way = "none"
      /\ \A held \in Lockable : rowLock'[held] = IF rowLock[held] = p THEN Unset ELSE rowLock[held]
  BY LeaveFacts
<1>2. ~HasReward(p)' /\ ~HasVoucher(p)' /\ ~HasCode(p)'
  BY <1>1 DEF HasReward, HasVoucher, HasCode
<1>3. ASSUME NEW q \in Requests \ {p}
      PROVE /\ HasReward(q)' => rowLock'[<<"reward", req'[q].gift>>] = q /\ req'[q].gift \notin redeemed'
            /\ HasVoucher(q)' => rowLock'[<<"voucher", req'[q].gift>>] = q /\ req'[q].gift \notin claimed'
            /\ HasCode(q)' => rowLock'[<<"code", req'[q].code>>] = q /\ coupon'[req'[q].code] = Unset
  <2>1. stage'[q] = stage[q] /\ req'[q] = req[q]
    BY <1>1 DEF OthersWait
  <2>2. HasReward(q)' = HasReward(q) /\ HasVoucher(q)' = HasVoucher(q) /\ HasCode(q)' = HasCode(q)
    BY <2>1 DEF HasReward, HasVoucher, HasCode
  <2>3. /\ HasReward(q) => req[q].gift \in Rewards
        /\ HasVoucher(q) => req[q].gift \in Vouchers
        /\ HasCode(q) => req[q].code \in Codes
    BY DEF AskedInOrder, HasReward, HasVoucher, HasCode
  <2>4. /\ HasReward(q) => <<"reward", req[q].gift>> \in Lockable
        /\ HasVoucher(q) => <<"voucher", req[q].gift>> \in Lockable
        /\ HasCode(q) => <<"code", req[q].code>> \in Lockable
    BY <2>3 DEF Lockable
  <2>5. /\ HasReward(q) => rowLock'[<<"reward", req[q].gift>>] = q
        /\ HasVoucher(q) => rowLock'[<<"voucher", req[q].gift>>] = q
        /\ HasCode(q) => rowLock'[<<"code", req[q].code>>] = q
    BY <1>1, <2>4 DEF LockedRowsStay
  <2>6. QED
    BY <2>1, <2>2, <2>5 DEF LockedRowsStay
<1>4. LockedRowsStay'
  BY <1>2, <1>3 DEF LockedRowsStay
<1>5. LocksAreTransactions'
  <2> SUFFICES ASSUME NEW held \in Lockable, NEW q \in Requests, rowLock'[held] = q
               PROVE  stage'[q] # "idle" /\ req'[q].way # "credits"
    BY DEF LocksAreTransactions
  <2>1. q # p /\ rowLock[held] = q
    BY <1>1, RewardAssumption
  <2>2. QED
    BY <1>1, <2>1 DEF LocksAreTransactions, OthersWait
<1>6. QED
  BY <1>4, <1>5

\* Who goes on waiting, or leaves without having given or marked anything, keeps what the
\* records say.
LEMMA RecordsKept ==
  ASSUME CreditsInOrder, RewardsAreMarked, VouchersAreServed, NEW p \in Requests, OthersWait(p),
         UNCHANGED <<ledger, vouchers, overlapped, died>>,
         stage[p] \notin {"markReward", "markPerk"}, stage'[p] \notin {"markReward", "markPerk"},
         stage'[p] = "credits" => req'[p].gift \notin redeemed
  PROVE  CreditsInOrder' /\ RewardsAreMarked' /\ VouchersAreServed'
<1>1. UNCHANGED <<months, redeemed, perk, credits, task, claimed, coupon, overlapped, died>>
  BY DEF ledger, vouchers
<1>2. CreditsInOrder'
  BY <1>1 DEF CreditsInOrder, OthersWait
<1>3. ASSUME NEW r \in Rewards
      PROVE  (AtReward(r) => AtReward(r)') /\ (AtPerk(r) => AtPerk(r)') /\ Extended(r)' = Extended(r)
  BY <1>1 DEF AtReward, AtPerk, Extended, OthersWait
<1>4. RewardsAreMarked'
  BY <1>1, <1>3 DEF RewardsAreMarked
<1>5. VouchersAreServed'
  BY <1>1 DEF VouchersAreServed
<1>6. QED
  BY <1>2, <1>4, <1>5

LEMMA RefuseStep ==
  ASSUME GiftInv, NEW p \in Requests, Refuse(p), stage[p] \notin {"markReward", "markPerk"}
  PROVE  GiftInv'
<1> USE DEF GiftInv
<1>1. /\ Leave(p)
      /\ UNCHANGED <<months, redeemed, perk, credits, task, claimed, coupon, status, started,
                     giftFailures, overlapped, died>>
  BY DEF Refuse, ledger, vouchers, subscriptions
<1>2. /\ stage' \in [Requests -> Stages] /\ req' \in [Requests -> Asked]
      /\ rowLock' \in [Lockable -> Requests \cup {Unset}]
      /\ OthersWait(p) /\ stage'[p] = "idle" /\ req'[p].way = "none"
  BY <1>1, LeaveFacts
<1>3. GiftTypeOK'
  BY <1>1, <1>2 DEF GiftTypeOK
<1>4. AskedInOrder'
  BY <1>2, AskedKept
<1>5. LockedRowsStay' /\ LocksAreTransactions'
  BY <1>1, LocksKeptByLeaving
<1>6. CreditsInOrder' /\ RewardsAreMarked' /\ VouchersAreServed'
  BY <1>1, <1>2, RecordsKept DEF ledger, vouchers
<1>7. QED
  BY <1>3, <1>4, <1>5, <1>6

\* A request starts: it holds nothing yet, and one for credits has seen the reward unmarked.
LEMMA BeginStep ==
  ASSUME GiftInv, NEW p \in Requests, NEW to, NEW way, NEW gift, NEW s, BeginGift(p, to, way, gift, s),
         \/ to = "perk" /\ way = "claim" /\ gift \in Rewards /\ s \in Subscriptions
         \/ to = "reward" /\ way = "extend" /\ gift \in Rewards /\ s \in Subscriptions
         \/ to = "credits" /\ way = "credits" /\ gift \in Rewards \ redeemed /\ s = Unset
         \/ to = "voucher" /\ way = "voucher" /\ gift \in Vouchers /\ s = Unset
  PROVE  GiftInv'
<1> USE DEF GiftInv
<1> DEFINE asked == [gift |-> gift, sub |-> s, code |-> Unset, way |-> way]
<1>1. /\ stage[p] = "idle"
      /\ stage' = [stage EXCEPT ![p] = to] /\ req' = [req EXCEPT ![p] = asked]
      /\ UNCHANGED <<months, redeemed, perk, credits, task, claimed, coupon, status, started, rowLock,
                     giftFailures, overlapped, died>>
  BY DEF BeginGift, ledger, vouchers, subscriptions
<1>2. asked \in Asked /\ to \in Stages
  BY DEF Asked, Ways, Stages
<1>3. stage' \in [Requests -> Stages] /\ req' \in [Requests -> Asked]
  BY <1>1, <1>2 DEF GiftTypeOK
<1>4. GiftTypeOK'
  BY <1>1, <1>3 DEF GiftTypeOK
<1>5. OthersWait(p) /\ stage'[p] = to /\ req'[p] = asked
  BY <1>1 DEF GiftTypeOK, OthersWait
<1>6. req'[p].gift = gift /\ req'[p].way = way /\ req'[p].sub = s
  BY <1>5
<1> HIDE DEF asked
<1>7. AskedInOrder'
  BY <1>5, <1>6 DEF AskedInOrder, OthersWait
<1>8. ~HasReward(p)' /\ ~HasVoucher(p)' /\ ~HasCode(p)'
  BY <1>5, <1>6 DEF HasReward, HasVoucher, HasCode
<1>9. LockedRowsStay'
  BY <1>1, <1>5, <1>8 DEF LockedRowsStay, OthersWait, HasReward, HasVoucher, HasCode
<1>10. LocksAreTransactions'
  <2> SUFFICES ASSUME NEW held \in Lockable, NEW q \in Requests, rowLock'[held] = q
               PROVE  stage'[q] # "idle" /\ req'[q].way # "credits"
    BY DEF LocksAreTransactions
  <2>1. q # p /\ rowLock[held] = q
    BY <1>1 DEF LocksAreTransactions
  <2>2. QED
    BY <1>5, <2>1 DEF LocksAreTransactions, OthersWait
<1>11. CreditsInOrder' /\ RewardsAreMarked' /\ VouchersAreServed'
  BY <1>1, <1>5, <1>6, RecordsKept DEF ledger, vouchers
<1>12. QED
  BY <1>4, <1>7, <1>9, <1>10, <1>11

\* A transaction gets the row it asked for, which nobody held, and has looked at what
\* matters there.
LEMMA TakeStep ==
  ASSUME GiftInv, NEW p \in Requests, NEW to, Take(p, to),
         UNCHANGED <<ledger, vouchers, subscriptions, req, giftFailures, overlapped, died>>,
         \/ stage[p] = "perk" /\ req[p].way = "claim" /\ to = "reward"
         \/ stage[p] = "perk" /\ req[p].way # "claim" /\ to = "commit"
         \/ stage[p] = "reward" /\ req[p].gift \notin redeemed /\ to = "sub"
         \/ stage[p] = "sub" /\ req[p].way = "claim" /\ to = "commit"
         \/ stage[p] = "sub" /\ req[p].way # "claim" /\ to = "perk"
         \/ stage[p] = "voucher" /\ req[p].gift \notin claimed /\ to = "draw"
         \/ stage[p] = "insert" /\ coupon[req[p].code] = Unset /\ to = "commit"
  PROVE  GiftInv'
<1> USE DEF GiftInv
<1>1. /\ rowLock[Needs(p)] = Unset
      /\ rowLock' = [rowLock EXCEPT ![Needs(p)] = p]
      /\ stage' = [stage EXCEPT ![p] = to]
      /\ UNCHANGED <<months, redeemed, perk, credits, task, claimed, coupon, status, started, req,
                     giftFailures, overlapped, died>>
  BY DEF Take, Free, ledger, vouchers, subscriptions
<1>2. Needs(p) \in Lockable
  BY NeedsARow
<1>3. to \in Stages
  BY DEF Stages
<1>4. /\ stage' \in [Requests -> Stages]
      /\ rowLock' \in [Lockable -> Requests \cup {Unset}]
  BY <1>1, <1>3 DEF GiftTypeOK
<1>5. GiftTypeOK'
  BY <1>1, <1>4 DEF GiftTypeOK
<1>6. OthersWait(p) /\ stage'[p] = to /\ req'[p] = req[p]
  BY <1>1 DEF GiftTypeOK, OthersWait
<1>7. AskedInOrder'
  BY <1>6 DEF AskedInOrder, OthersWait
<1>8. /\ rowLock'[Needs(p)] = p
      /\ \A held \in Lockable : held # Needs(p) => rowLock'[held] = rowLock[held]
  BY <1>1, <1>2 DEF GiftTypeOK
<1>9. \A held \in Lockable, q \in Requests : rowLock[held] = q => rowLock'[held] = q
  BY <1>1, <1>8, RewardAssumption
<1>10. ASSUME NEW q \in Requests
       PROVE  /\ HasReward(q) => <<"reward", req[q].gift>> \in Lockable
              /\ HasVoucher(q) => <<"voucher", req[q].gift>> \in Lockable
              /\ HasCode(q) => <<"code", req[q].code>> \in Lockable
  <2>1. /\ HasReward(q) => req[q].gift \in Rewards
        /\ HasVoucher(q) => req[q].gift \in Vouchers
        /\ HasCode(q) => req[q].code \in Codes
    BY DEF AskedInOrder, HasReward, HasVoucher, HasCode
  <2>2. QED
    BY <2>1 DEF Lockable
<1>11. LockedRowsStay'
  <2> SUFFICES ASSUME NEW q \in Requests
               PROVE /\ HasReward(q)' => rowLock'[<<"reward", req[q].gift>>] = q /\ req[q].gift \notin redeemed
                     /\ HasVoucher(q)' => rowLock'[<<"voucher", req[q].gift>>] = q /\ req[q].gift \notin claimed
                     /\ HasCode(q)' => rowLock'[<<"code", req[q].code>>] = q /\ coupon[req[q].code] = Unset
    BY <1>1 DEF LockedRowsStay
  <2>1. CASE q # p
    <3>1. HasReward(q)' = HasReward(q) /\ HasVoucher(q)' = HasVoucher(q) /\ HasCode(q)' = HasCode(q)
      BY <1>6, <2>1 DEF OthersWait, HasReward, HasVoucher, HasCode
    <3>2. QED
      BY <1>9, <1>10, <3>1 DEF LockedRowsStay
  <2>2. CASE q = p
    <3>1. /\ HasReward(p)' => \/ HasReward(p)
                              \/ stage[p] = "reward" /\ req[p].gift \notin redeemed
          /\ HasVoucher(p)' => \/ HasVoucher(p)
                               \/ stage[p] = "voucher" /\ req[p].gift \notin claimed
          /\ HasCode(p)' => stage[p] = "insert" /\ coupon[req[p].code] = Unset
      BY <1>6 DEF AskedInOrder, HasReward, HasVoucher, HasCode
    <3>2. /\ stage[p] = "reward" => Needs(p) = <<"reward", req[p].gift>>
          /\ stage[p] = "voucher" => Needs(p) = <<"voucher", req[p].gift>>
          /\ stage[p] = "insert" => Needs(p) = <<"code", req[p].code>>
      BY DEF Needs
    <3>3. QED
      BY <1>8, <1>9, <1>10, <2>2, <3>1, <3>2 DEF LockedRowsStay
  <2>3. QED
    BY <2>1, <2>2
<1>12. LocksAreTransactions'
  <2> SUFFICES ASSUME NEW held \in Lockable, NEW q \in Requests, rowLock'[held] = q
               PROVE  stage'[q] # "idle" /\ req'[q].way # "credits"
    BY DEF LocksAreTransactions
  <2>1. CASE held = Needs(p)
    <3>1. q = p
      BY <1>8, <2>1
    <3>2. to # "idle" /\ req[p].way # "credits"
      BY DEF AskedInOrder
    <3>3. QED
      BY <1>6, <3>1, <3>2
  <2>2. CASE held # Needs(p)
    BY <1>6, <1>8, <2>2 DEF LocksAreTransactions, OthersWait
  <2>3. QED
    BY <2>1, <2>2
<1>13. CreditsInOrder' /\ RewardsAreMarked' /\ VouchersAreServed'
  BY <1>1, <1>6, RecordsKept DEF ledger, vouchers
<1>14. QED
  BY <1>5, <1>7, <1>11, <1>12, <1>13

\* The months of a reward that nobody marked before are committed: what was given for it
\* until then are credits that have yet to mark it, or never will.
LEMMA CommitExtensionStep ==
  ASSUME GiftInv, NEW p \in Requests, CommitExtension(p)
  PROVE  GiftInv'
<1> USE DEF GiftInv
<1>0. PICK r \in Rewards, s \in Subscriptions : r = req[p].gift /\ s = req[p].sub
  BY DEF CommitExtension, AskedInOrder
<1>1. /\ stage[p] = "commit" /\ req[p].way \in {"claim", "extend"}
      /\ months' = [months EXCEPT ![s][r] = @ + 1]
      /\ redeemed' = redeemed \cup {r} /\ perk' = perk \cup {r}
      /\ task' = (IF req[p].way = "claim" /\ task[r] = "none" THEN [task EXCEPT ![r] = "pending"] ELSE task)
      /\ overlapped' = overlapped \cup {x \in {r} : \E q \in Requests \ {p} : Crediting(q, r)}
      /\ Leave(p)
      /\ UNCHANGED <<credits, claimed, coupon, status, started, giftFailures, died>>
  BY <1>0 DEF CommitExtension, Given, vouchers, subscriptions
<1>3. /\ stage' \in [Requests -> Stages] /\ req' \in [Requests -> Asked]
      /\ rowLock' \in [Lockable -> Requests \cup {Unset}]
      /\ OthersWait(p) /\ stage'[p] = "idle" /\ req'[p].way = "none"
  BY <1>1, LeaveFacts
<1>4. HasReward(p)
  BY <1>1 DEF HasReward
<1>5. r \notin redeemed /\ rowLock[<<"reward", r>>] = p
  BY <1>0, <1>4 DEF LockedRowsStay
<1>6. ~Extended(r)
  BY <1>5 DEF RewardsAreMarked
<1>7. \A t \in Subscriptions : months[t][r] = 0
  BY <1>6 DEF Extended, GiftTypeOK
<1>8. ASSUME NEW q \in Requests \ {p}
      PROVE /\ HasReward(q) /\ req[q].gift \in redeemed' => req[q].gift \in redeemed
            /\ HasVoucher(q) /\ req[q].gift \in claimed' => req[q].gift \in claimed
            /\ HasCode(q) /\ coupon[req[q].code] = Unset => coupon'[req[q].code] = Unset
  BY <1>1, <1>5 DEF LockedRowsStay
<1>9. LockedRowsStay' /\ LocksAreTransactions'
  BY <1>1, <1>8, LocksKeptByLeaving
<1>10. credits[r] > 0 => r \in died \/ AtReward(r)
  BY <1>5 DEF RewardsAreMarked
<1>11. /\ months' \in [Subscriptions -> [Rewards -> Nat]]
       /\ \A t \in Subscriptions, x \in Rewards :
            months'[t][x] = IF t = s /\ x = r THEN 1 ELSE months[t][x]
  BY <1>1, <1>7 DEF GiftTypeOK
<1>12. /\ task' \in [Rewards -> {"none", "pending", "issue", "delivered"}]
       /\ \A x \in Rewards \ {r} : task'[x] = task[x]
  BY <1>1 DEF GiftTypeOK
<1>13. redeemed' \subseteq Rewards /\ perk' \subseteq Rewards /\ overlapped' \subseteq Rewards
  BY <1>1 DEF GiftTypeOK
<1>14. GiftTypeOK'
  BY <1>1, <1>3, <1>11, <1>12, <1>13 DEF GiftTypeOK
<1>15. AskedInOrder'
  BY <1>3, AskedKept
<1>16. CreditsInOrder'
  <2> SUFFICES ASSUME NEW q \in Requests
               PROVE /\ stage'[q] = "credits" /\ req'[q].gift \in redeemed' => req'[q].gift \in overlapped'
                     /\ stage'[q] = "markReward" => credits[req'[q].gift] > 0
                     /\ stage'[q] = "markPerk" => req'[q].gift \in redeemed'
    BY <1>1 DEF CreditsInOrder
  <2>1. CASE q = p
    BY <1>3, <2>1
  <2>2. CASE q # p
    <3>1. stage'[q] = stage[q] /\ req'[q] = req[q]
      BY <1>3, <2>2 DEF OthersWait
    <3>2. stage[q] = "credits" /\ req[q].gift = r => r \in overlapped'
      BY <1>1, <2>2 DEF Crediting
    <3>3. QED
      BY <1>1, <3>1, <3>2 DEF CreditsInOrder
  <2>3. QED
    BY <2>1, <2>2
<1>17. ASSUME NEW x \in Rewards
       PROVE  AtReward(x)' = AtReward(x) /\ AtPerk(x)' = AtPerk(x)
  BY <1>1, <1>3 DEF AtReward, AtPerk, OthersWait
<1>18. /\ Extended(r)'
       /\ \A x \in Rewards \ {r} : Extended(x)' = Extended(x)
  BY <1>11 DEF Extended
<1>19. credits[r] > 0 => r \in overlapped' \/ r \in died
  <2>1. ASSUME NEW q \in Requests, stage[q] = "markReward", req[q].gift = r
        PROVE  r \in overlapped'
    BY <1>1, <2>1 DEF Crediting
  <2>2. QED
    BY <1>10, <2>1 DEF AtReward
<1>20. RewardsAreMarked'
  <2> SUFFICES ASSUME NEW x \in Rewards
               PROVE
                 /\ Extended(x)' => x \in redeemed' /\ x \in perk'
                 /\ \A t, u \in Subscriptions : months'[t][x] > 0 /\ months'[u][x] > 0 => t = u
                 /\ \A t \in Subscriptions : months'[t][x] <= 1
                 /\ credits[x] > 0 => x \in redeemed' \/ x \in died \/ AtReward(x)'
                 /\ credits[x] > 0 => x \in perk' \/ x \in died \/ AtPerk(x)'
                 /\ x \in perk' => x \in redeemed'
                 /\ x \in redeemed' => credits[x] > 0 \/ Extended(x)'
                 /\ task'[x] # "none" => x \in perk' /\ Extended(x)'
                 /\ credits[x] > 1 \/ (credits[x] > 0 /\ Extended(x)') => x \in overlapped' \cup died
    BY <1>1 DEF RewardsAreMarked
  <2>1. CASE x = r
    <3>1. x \in redeemed' /\ x \in perk' /\ Extended(x)'
      BY <1>1, <1>18, <2>1
    <3>2. \A t \in Subscriptions : months'[t][x] = IF t = s THEN 1 ELSE 0
      BY <1>7, <1>11, <2>1
    <3>3. credits[x] \in Nat
      BY DEF GiftTypeOK
    <3>4. QED
      BY <1>19, <2>1, <3>1, <3>2, <3>3
  <2>2. CASE x # r
    <3>1. (x \in redeemed' <=> x \in redeemed) /\ (x \in perk' <=> x \in perk) /\ task'[x] = task[x]
          /\ Extended(x)' = Extended(x) /\ overlapped \subseteq overlapped'
      BY <1>1, <1>12, <1>18, <2>2
    <3>2. \A t \in Subscriptions : months'[t][x] = months[t][x]
      BY <1>11, <2>2
    <3>3. QED
      BY <1>17, <3>1, <3>2 DEF RewardsAreMarked
  <2>3. QED
    BY <2>1, <2>2
<1>21. VouchersAreServed'
  BY <1>1 DEF VouchersAreServed
<1>22. QED
  BY <1>9, <1>14, <1>15, <1>16, <1>20, <1>21

\* The credits are given: what was given before is known to be an overlap, since the reward
\* was not marked when the request began.
LEMMA AddCreditsStep ==
  ASSUME GiftInv, NEW p \in Requests, AddCredits(p)
  PROVE  GiftInv'
<1> USE DEF GiftInv
<1>1. CASE Refuse(p)
  BY <1>1, RefuseStep DEF AddCredits
<1>2. CASE ~Refuse(p)
  <2>0. PICK r \in Rewards : r = req[p].gift
    BY <1>2 DEF AddCredits, AskedInOrder
  <2>1. /\ stage[p] = "credits"
        /\ credits' = [credits EXCEPT ![r] = @ + 1]
        /\ overlapped' = overlapped \cup {x \in {r} : \E q \in Requests \ {p} : Crediting(q, r)}
        /\ stage' = [stage EXCEPT ![p] = "markReward"]
        /\ UNCHANGED <<months, redeemed, perk, task, claimed, coupon, status, started, rowLock, req,
                       giftFailures, died>>
    BY <1>2, <2>0 DEF AddCredits, Given, vouchers, subscriptions
  <2>2. req[p].way = "credits"
    BY <2>1 DEF AskedInOrder
  <2>3. r \in redeemed => r \in overlapped
    BY <2>0, <2>1 DEF CreditsInOrder
  <2>4. ASSUME AtReward(r) PROVE r \in overlapped'
    <3>1. PICK q \in Requests : stage[q] = "markReward" /\ req[q].gift = r
      BY <2>4 DEF AtReward
    <3>2. q # p /\ Crediting(q, r)
      BY <2>1, <3>1 DEF Crediting
    <3>3. QED
      BY <2>1, <3>2
  <2>5. OthersWait(p) /\ stage'[p] = "markReward" /\ req' = req
    BY <2>1 DEF GiftTypeOK, OthersWait
  <2>6. AtReward(r)' /\ AtPerk(r)' /\ req'[p].gift = r
    BY <2>0, <2>5 DEF AtReward, AtPerk
  <2>7. /\ stage' \in [Requests -> Stages] /\ credits' \in [Rewards -> Nat]
        /\ overlapped' \subseteq Rewards
    BY <2>1, <2>2 DEF GiftTypeOK, Stages
  <2>8. GiftTypeOK'
    BY <2>1, <2>7 DEF GiftTypeOK
  <2>9. AskedInOrder'
    BY <2>2, <2>5 DEF AskedInOrder, OthersWait
  <2>10. ASSUME NEW q \in Requests
         PROVE  HasReward(q)' = HasReward(q) /\ HasVoucher(q)' = HasVoucher(q) /\ HasCode(q)' = HasCode(q)
    BY <2>2, <2>5 DEF HasReward, HasVoucher, HasCode, OthersWait
  <2>11. LockedRowsStay'
    BY <2>1, <2>10 DEF LockedRowsStay
  <2>12. LocksAreTransactions'
    BY <2>1, <2>5 DEF LocksAreTransactions, OthersWait
  <2>13. /\ credits'[r] = credits[r] + 1 /\ credits[r] \in Nat
         /\ \A x \in Rewards \ {r} : credits'[x] = credits[x]
    BY <2>1, <2>2 DEF GiftTypeOK
  <2>14. CreditsInOrder'
    <3> SUFFICES ASSUME NEW q \in Requests
                 PROVE /\ stage'[q] = "credits" /\ req[q].gift \in redeemed => req[q].gift \in overlapped'
                       /\ stage'[q] = "markReward" => credits'[req[q].gift] > 0
                       /\ stage'[q] = "markPerk" => req[q].gift \in redeemed
      BY <2>1 DEF CreditsInOrder
    <3>1. CASE q = p
      BY <2>5, <2>6, <2>13, <3>1
    <3>2. CASE q # p
      <4>1. stage'[q] = stage[q] /\ (stage[q] = "markReward" => req[q].gift \in Rewards)
        BY <2>5, <3>2 DEF OthersWait, AskedInOrder
      <4>2. QED
        BY <2>1, <2>13, <4>1 DEF CreditsInOrder
    <3>3. QED
      BY <3>1, <3>2
  <2>15. ASSUME NEW x \in Rewards
         PROVE  /\ AtReward(x) => AtReward(x)'
                /\ AtPerk(x) => AtPerk(x)'
                /\ Extended(x)' = Extended(x)
    BY <2>1, <2>5 DEF AtReward, AtPerk, Extended, OthersWait
  <2>16. credits[r] > 0 \/ Extended(r) => r \in overlapped' \/ r \in died
    BY <2>1, <2>2, <2>3, <2>4 DEF RewardsAreMarked
  <2>17. RewardsAreMarked'
    <3> SUFFICES ASSUME NEW x \in Rewards
                 PROVE
                   /\ Extended(x)' => x \in redeemed /\ x \in perk
                   /\ \A s, t \in Subscriptions : months[s][x] > 0 /\ months[t][x] > 0 => s = t
                   /\ \A s \in Subscriptions : months[s][x] <= 1
                   /\ credits'[x] > 0 => x \in redeemed \/ x \in died \/ AtReward(x)'
                   /\ credits'[x] > 0 => x \in perk \/ x \in died \/ AtPerk(x)'
                   /\ x \in perk => x \in redeemed
                   /\ x \in redeemed => credits'[x] > 0 \/ Extended(x)'
                   /\ task[x] # "none" => x \in perk /\ Extended(x)'
                   /\ credits'[x] > 1 \/ (credits'[x] > 0 /\ Extended(x)') => x \in overlapped' \cup died
      BY <2>1 DEF RewardsAreMarked
    <3>1. CASE x = r
      BY <2>6, <2>13, <2>15, <2>16, <3>1 DEF RewardsAreMarked
    <3>2. CASE x # r
      <4>1. credits'[x] = credits[x] /\ overlapped \subseteq overlapped'
        BY <2>1, <2>13, <3>2
      <4>2. QED
        BY <2>15, <4>1 DEF RewardsAreMarked
    <3>3. QED
      BY <3>1, <3>2
  <2>18. VouchersAreServed'
    BY <2>1 DEF VouchersAreServed
  <2>19. QED
    BY <2>8, <2>9, <2>11, <2>12, <2>14, <2>17, <2>18
<1>3. QED
  BY <1>1, <1>2

\* The reward is marked, by whoever gave credits for it; a request for credits that has
\* still to give overlaps with that.
LEMMA MarkRewardStep ==
  ASSUME GiftInv, NEW p \in Requests, MarkReward(p)
  PROVE  GiftInv'
<1> USE DEF GiftInv
<1>0. PICK r \in Rewards : r = req[p].gift
  BY DEF MarkReward, AskedInOrder
<1>1. /\ stage[p] = "markReward" /\ rowLock[Needs(p)] = Unset
      /\ redeemed' = redeemed \cup {r}
      /\ overlapped' = overlapped \cup {x \in {r} : \E q \in Requests \ {p} : Crediting(q, r)}
      /\ stage' = [stage EXCEPT ![p] = "markPerk"]
      /\ UNCHANGED <<months, perk, credits, task, claimed, coupon, status, started, rowLock, req,
                     giftFailures, died>>
  BY <1>0 DEF MarkReward, Free, Given, vouchers, subscriptions
<1>2. req[p].way = "credits" /\ credits[r] > 0
  BY <1>0, <1>1 DEF AskedInOrder, CreditsInOrder
<1>3. rowLock[<<"reward", r>>] = Unset
  BY <1>0, <1>1 DEF Needs
<1>4. OthersWait(p) /\ stage'[p] = "markPerk" /\ req' = req
  BY <1>1 DEF GiftTypeOK, OthersWait
<1>5. AtPerk(r)' /\ req'[p].gift = r
  BY <1>0, <1>4 DEF AtPerk
<1>6. /\ stage' \in [Requests -> Stages] /\ redeemed' \subseteq Rewards /\ overlapped' \subseteq Rewards
  BY <1>1, <1>2 DEF GiftTypeOK, Stages
<1>7. GiftTypeOK'
  BY <1>1, <1>6 DEF GiftTypeOK
<1>8. AskedInOrder'
  BY <1>2, <1>4 DEF AskedInOrder, OthersWait
<1>9. ASSUME NEW q \in Requests
      PROVE  HasReward(q)' = HasReward(q) /\ HasVoucher(q)' = HasVoucher(q) /\ HasCode(q)' = HasCode(q)
  BY <1>2, <1>4 DEF HasReward, HasVoucher, HasCode, OthersWait
<1>10. ASSUME NEW q \in Requests, HasReward(q) PROVE req[q].gift # r
  BY <1>3, <1>10, RewardAssumption DEF LockedRowsStay
<1>11. LockedRowsStay'
  BY <1>1, <1>9, <1>10 DEF LockedRowsStay
<1>12. LocksAreTransactions'
  BY <1>1, <1>4 DEF LocksAreTransactions, OthersWait
<1>13. CreditsInOrder'
  <2> SUFFICES ASSUME NEW q \in Requests
               PROVE /\ stage'[q] = "credits" /\ req[q].gift \in redeemed' => req[q].gift \in overlapped'
                     /\ stage'[q] = "markReward" => credits[req[q].gift] > 0
                     /\ stage'[q] = "markPerk" => req[q].gift \in redeemed'
    BY <1>1 DEF CreditsInOrder
  <2>1. CASE q = p
    BY <1>1, <1>4, <1>5, <2>1
  <2>2. CASE q # p
    <3>1. stage'[q] = stage[q]
      BY <1>4, <2>2 DEF OthersWait
    <3>2. stage[q] = "credits" /\ req[q].gift = r => r \in overlapped'
      BY <1>1, <2>2 DEF Crediting
    <3>3. QED
      BY <1>1, <3>1, <3>2 DEF CreditsInOrder
  <2>3. QED
    BY <2>1, <2>2
<1>14. ASSUME NEW x \in Rewards
       PROVE  /\ x # r /\ AtReward(x) => AtReward(x)'
              /\ AtPerk(x) => AtPerk(x)'
              /\ Extended(x)' = Extended(x)
  BY <1>0, <1>1, <1>4 DEF AtReward, AtPerk, Extended, OthersWait
<1>15. RewardsAreMarked'
  <2> SUFFICES ASSUME NEW x \in Rewards
               PROVE
                 /\ Extended(x)' => x \in redeemed' /\ x \in perk
                 /\ \A s, t \in Subscriptions : months[s][x] > 0 /\ months[t][x] > 0 => s = t
                 /\ \A s \in Subscriptions : months[s][x] <= 1
                 /\ credits[x] > 0 => x \in redeemed' \/ x \in died \/ AtReward(x)'
                 /\ credits[x] > 0 => x \in perk \/ x \in died \/ AtPerk(x)'
                 /\ x \in perk => x \in redeemed'
                 /\ x \in redeemed' => credits[x] > 0 \/ Extended(x)'
                 /\ task[x] # "none" => x \in perk /\ Extended(x)'
                 /\ credits[x] > 1 \/ (credits[x] > 0 /\ Extended(x)') => x \in overlapped' \cup died
    BY <1>1 DEF RewardsAreMarked
  <2>1. redeemed \subseteq redeemed' /\ overlapped \subseteq overlapped' /\ (x \in redeemed' => x = r \/ x \in redeemed)
        /\ (x = r => x \in redeemed')
    BY <1>1
  <2>2. QED
    BY <1>2, <1>14, <2>1 DEF RewardsAreMarked
<1>16. VouchersAreServed'
  BY <1>1 DEF VouchersAreServed
<1>17. QED
  BY <1>7, <1>8, <1>11, <1>12, <1>13, <1>15, <1>16

LEMMA MarkPerkStep ==
  ASSUME GiftInv, NEW p \in Requests, MarkPerk(p)
  PROVE  GiftInv'
<1> USE DEF GiftInv
<1>0. PICK r \in Rewards : r = req[p].gift
  BY DEF MarkPerk, AskedInOrder
<1>1. /\ stage[p] = "markPerk"
      /\ perk' = perk \cup {r}
      /\ Leave(p)
      /\ UNCHANGED <<months, redeemed, credits, task, claimed, coupon, status, started, giftFailures,
                     overlapped, died>>
  BY <1>0 DEF MarkPerk, vouchers, subscriptions
<1>2. r \in redeemed
  BY <1>0, <1>1 DEF CreditsInOrder
<1>3. /\ stage' \in [Requests -> Stages] /\ req' \in [Requests -> Asked]
      /\ rowLock' \in [Lockable -> Requests \cup {Unset}]
      /\ OthersWait(p) /\ stage'[p] = "idle" /\ req'[p].way = "none"
  BY <1>1, LeaveFacts
<1>4. perk' \subseteq Rewards
  BY <1>1 DEF GiftTypeOK
<1>5. GiftTypeOK'
  BY <1>1, <1>3, <1>4 DEF GiftTypeOK
<1>6. AskedInOrder'
  BY <1>3, AskedKept
<1>7. LockedRowsStay' /\ LocksAreTransactions'
  BY <1>1, LocksKeptByLeaving
<1>8. CreditsInOrder'
  BY <1>1, <1>3 DEF CreditsInOrder, OthersWait
<1>9. ASSUME NEW x \in Rewards
      PROVE  /\ AtReward(x) => AtReward(x)'
             /\ x # r /\ AtPerk(x) => AtPerk(x)'
             /\ Extended(x)' = Extended(x)
  BY <1>0, <1>1, <1>3 DEF AtReward, AtPerk, Extended, OthersWait
<1>10. RewardsAreMarked'
  <2> SUFFICES ASSUME NEW x \in Rewards
               PROVE
                 /\ Extended(x)' => x \in redeemed /\ x \in perk'
                 /\ \A s, t \in Subscriptions : months[s][x] > 0 /\ months[t][x] > 0 => s = t
                 /\ \A s \in Subscriptions : months[s][x] <= 1
                 /\ credits[x] > 0 => x \in redeemed \/ x \in died \/ AtReward(x)'
                 /\ credits[x] > 0 => x \in perk' \/ x \in died \/ AtPerk(x)'
                 /\ x \in perk' => x \in redeemed
                 /\ x \in redeemed => credits[x] > 0 \/ Extended(x)'
                 /\ task[x] # "none" => x \in perk' /\ Extended(x)'
                 /\ credits[x] > 1 \/ (credits[x] > 0 /\ Extended(x)') => x \in overlapped \cup died
    BY <1>1 DEF RewardsAreMarked
  <2>1. perk \subseteq perk' /\ (x \in perk' => x = r \/ x \in perk) /\ (x = r => x \in perk')
    BY <1>1
  <2>2. QED
    BY <1>2, <1>9, <2>1 DEF RewardsAreMarked
<1>11. VouchersAreServed'
  BY <1>1 DEF VouchersAreServed
<1>12. QED
  BY <1>5, <1>6, <1>7, <1>8, <1>10, <1>11

\* A code is drawn that no coupon has yet.
LEMMA DrawCodeStep ==
  ASSUME GiftInv, NEW p \in Requests, DrawCode(p)
  PROVE  GiftInv'
<1> USE DEF GiftInv
<1>1. stage[p] = "draw" /\ req[p].way = "voucher" /\ req[p].gift \in Vouchers
  BY DEF DrawCode, AskedInOrder
<1>2. CASE Refuse(p)
  BY <1>1, <1>2, RefuseStep
<1>3. CASE ~Refuse(p)
  <2>1. PICK c \in Codes : req' = [req EXCEPT ![p].code = c]
    BY <1>3 DEF DrawCode
  <2>2. /\ stage' = [stage EXCEPT ![p] = "insert"]
        /\ UNCHANGED <<months, redeemed, perk, credits, task, claimed, coupon, status, started, rowLock,
                       giftFailures, overlapped, died>>
    BY <1>3 DEF DrawCode, ledger, vouchers, subscriptions
  <2>3. req' \in [Requests -> Asked]
    BY <2>1 DEF GiftTypeOK, Asked
  <2>4. stage' \in [Requests -> Stages]
    BY <2>2 DEF GiftTypeOK, Stages
  <2>5. GiftTypeOK'
    BY <2>2, <2>3, <2>4 DEF GiftTypeOK
  <2>6. /\ OthersWait(p) /\ stage'[p] = "insert"
        /\ req'[p].code = c /\ req'[p].gift = req[p].gift /\ req'[p].way = req[p].way
    BY <2>1, <2>2 DEF GiftTypeOK, Asked, OthersWait
  <2>7. AskedInOrder'
    BY <1>1, <2>6 DEF AskedInOrder, OthersWait
  <2>8. /\ HasVoucher(p) /\ ~HasReward(p)' /\ ~HasCode(p)'
    BY <1>1, <2>6 DEF HasReward, HasVoucher, HasCode
  <2>9. LockedRowsStay'
    <3> SUFFICES ASSUME NEW q \in Requests
                 PROVE /\ HasReward(q)' => rowLock[<<"reward", req'[q].gift>>] = q /\ req'[q].gift \notin redeemed
                       /\ HasVoucher(q)' => rowLock[<<"voucher", req'[q].gift>>] = q /\ req'[q].gift \notin claimed
                       /\ HasCode(q)' => rowLock[<<"code", req'[q].code>>] = q /\ coupon[req'[q].code] = Unset
      BY <2>2 DEF LockedRowsStay
    <3>1. CASE q = p
      BY <2>6, <2>8, <3>1 DEF LockedRowsStay
    <3>2. CASE q # p
      <4>1. stage'[q] = stage[q] /\ req'[q] = req[q]
        BY <2>6, <3>2 DEF OthersWait
      <4>2. HasReward(q)' = HasReward(q) /\ HasVoucher(q)' = HasVoucher(q) /\ HasCode(q)' = HasCode(q)
        BY <4>1 DEF HasReward, HasVoucher, HasCode
      <4>3. QED
        BY <4>1, <4>2 DEF LockedRowsStay
    <3>3. QED
      BY <3>1, <3>2
  <2>10. LocksAreTransactions'
    BY <1>1, <2>2, <2>6 DEF LocksAreTransactions, OthersWait
  <2>11. CreditsInOrder' /\ RewardsAreMarked' /\ VouchersAreServed'
    BY <1>1, <2>2, <2>6, RecordsKept DEF ledger, vouchers
  <2>12. QED
    BY <2>5, <2>7, <2>9, <2>10, <2>11
<1>4. QED
  BY <1>2, <1>3

\* The coupon is committed with the claim of the voucher.
LEMMA CommitVoucherStep ==
  ASSUME GiftInv, NEW p \in Requests, CommitVoucher(p)
  PROVE  GiftInv'
<1> USE DEF GiftInv
<1>0. PICK v \in Vouchers, c \in Codes : v = req[p].gift /\ c = req[p].code
  BY DEF CommitVoucher, AskedInOrder
<1>1. /\ stage[p] = "commit" /\ req[p].way = "voucher"
      /\ coupon' = [coupon EXCEPT ![c] = v]
      /\ claimed' = claimed \cup {v}
      /\ Leave(p)
      /\ UNCHANGED <<months, redeemed, perk, credits, task, status, started, giftFailures, overlapped, died>>
  BY <1>0 DEF CommitVoucher, ledger, subscriptions
<1>2. HasVoucher(p) /\ HasCode(p)
  BY <1>1 DEF HasVoucher, HasCode
<1>3. /\ rowLock[<<"voucher", v>>] = p /\ v \notin claimed
      /\ rowLock[<<"code", c>>] = p /\ coupon[c] = Unset
  BY <1>0, <1>2 DEF LockedRowsStay
<1>4. /\ stage' \in [Requests -> Stages] /\ req' \in [Requests -> Asked]
      /\ rowLock' \in [Lockable -> Requests \cup {Unset}]
      /\ OthersWait(p) /\ stage'[p] = "idle" /\ req'[p].way = "none"
  BY <1>1, LeaveFacts
<1>5. coupon' \in [Codes -> Vouchers \cup {Unset}] /\ claimed' \subseteq Vouchers
  BY <1>1 DEF GiftTypeOK
<1>6. coupon'[c] = v /\ \A d \in Codes \ {c} : coupon'[d] = coupon[d]
  BY <1>1 DEF GiftTypeOK
<1>7. GiftTypeOK'
  BY <1>1, <1>4, <1>5 DEF GiftTypeOK
<1>8. AskedInOrder'
  BY <1>4, AskedKept
<1>9. ASSUME NEW q \in Requests \ {p}
      PROVE /\ HasReward(q) /\ req[q].gift \in redeemed' => req[q].gift \in redeemed
            /\ HasVoucher(q) /\ req[q].gift \in claimed' => req[q].gift \in claimed
            /\ HasCode(q) /\ coupon[req[q].code] = Unset => coupon'[req[q].code] = Unset
  <2>1. HasVoucher(q) => req[q].gift # v
    BY <1>3 DEF LockedRowsStay
  <2>2. HasCode(q) => req[q].code # c
    BY <1>3 DEF LockedRowsStay
  <2>3. HasCode(q) => req[q].code \in Codes
    BY DEF HasCode, AskedInOrder
  <2>4. QED
    BY <1>1, <1>6, <2>1, <2>2, <2>3
<1>10. LockedRowsStay' /\ LocksAreTransactions'
  BY <1>1, <1>9, LocksKeptByLeaving
<1>11. CreditsInOrder'
  BY <1>1, <1>4 DEF CreditsInOrder, OthersWait
<1>12. ASSUME NEW x \in Rewards
       PROVE  AtReward(x)' = AtReward(x) /\ AtPerk(x)' = AtPerk(x) /\ Extended(x)' = Extended(x)
  BY <1>1, <1>4 DEF AtReward, AtPerk, Extended, OthersWait
<1>13. RewardsAreMarked'
  BY <1>1, <1>12 DEF RewardsAreMarked
<1>14. VouchersAreServed'
  <2>1. \A d \in Codes : coupon'[d] # Unset => coupon'[d] \in claimed'
    BY <1>1, <1>6 DEF VouchersAreServed
  <2>2. \A w \in claimed' : \E d \in Codes : coupon'[d] = w
    <3> SUFFICES ASSUME NEW w \in claimed' PROVE \E d \in Codes : coupon'[d] = w
      OBVIOUS
    <3>1. CASE w = v
      BY <1>6, <3>1
    <3>2. CASE w # v
      <4>1. PICK d \in Codes : coupon[d] = w
        BY <1>1, <3>2 DEF VouchersAreServed
      <4>2. d # c
        BY <1>1, <1>3, <3>2, <4>1, RewardAssumption DEF GiftTypeOK
      <4>3. QED
        BY <1>6, <4>1, <4>2
    <3>3. QED
      BY <3>1, <3>2
  <2>3. \A d, e \in Codes : coupon'[d] # Unset /\ coupon'[d] = coupon'[e] => d = e
    BY <1>3, <1>6, RewardAssumption DEF VouchersAreServed
  <2>4. QED
    BY <2>1, <2>2, <2>3 DEF VouchersAreServed
<1>15. QED
  BY <1>7, <1>8, <1>10, <1>11, <1>13, <1>14

\* An error or a crash: credits that were given and not marked stay, and are known.
LEMMA FailStep ==
  ASSUME GiftInv, NEW p \in Requests, Fail(p)
  PROVE  GiftInv'
<1> USE DEF GiftInv
<1>1. /\ giftFailures' = giftFailures + 1
      /\ died' = died \cup {r \in Rewards : stage[p] \in {"markReward", "markPerk"} /\ req[p].gift = r}
      /\ Leave(p)
      /\ UNCHANGED <<months, redeemed, perk, credits, task, claimed, coupon, status, started, overlapped>>
  BY DEF Fail, ledger, vouchers, subscriptions
<1>2. /\ stage' \in [Requests -> Stages] /\ req' \in [Requests -> Asked]
      /\ rowLock' \in [Lockable -> Requests \cup {Unset}]
      /\ OthersWait(p) /\ stage'[p] = "idle" /\ req'[p].way = "none"
  BY <1>1, LeaveFacts
<1>3. giftFailures' \in Nat /\ died' \subseteq Rewards /\ died \subseteq died'
  BY <1>1 DEF GiftTypeOK
<1>4. GiftTypeOK'
  BY <1>1, <1>2, <1>3 DEF GiftTypeOK
<1>5. AskedInOrder'
  BY <1>2, AskedKept
<1>6. LockedRowsStay' /\ LocksAreTransactions'
  BY <1>1, LocksKeptByLeaving
<1>7. CreditsInOrder'
  BY <1>1, <1>2 DEF CreditsInOrder, OthersWait
<1>8. ASSUME NEW x \in Rewards
      PROVE  /\ AtReward(x) => AtReward(x)' \/ x \in died'
             /\ AtPerk(x) => AtPerk(x)' \/ x \in died'
             /\ Extended(x)' = Extended(x)
  BY <1>1, <1>2 DEF AtReward, AtPerk, Extended, OthersWait
<1>9. RewardsAreMarked'
  BY <1>1, <1>3, <1>8 DEF RewardsAreMarked
<1>10. VouchersAreServed'
  BY <1>1 DEF VouchersAreServed
<1>11. QED
  BY <1>4, <1>5, <1>6, <1>7, <1>9, <1>10

\* Only transactions wait in a circle.
LEMMA DeadlockStep ==
  ASSUME GiftInv, NEW p \in Requests, Deadlock(p)
  PROVE  GiftInv'
<1> USE DEF GiftInv
<1>1. PICK S \in SUBSET {q \in Requests : Needs(q) # Unset} :
        p \in S /\ {rowLock[Needs(q)] : q \in S} = S
  BY DEF Deadlock
<1>2. PICK q \in S : rowLock[Needs(q)] = p
  BY <1>1
<1>3. Needs(q) \in Lockable
  BY <1>2, WaitersNeed, NeedsARow
<1>4. req[p].way # "credits"
  BY <1>2, <1>3 DEF LocksAreTransactions
<1>5. stage[p] \notin {"markReward", "markPerk"}
  BY <1>4 DEF AskedInOrder
<1>6. QED
  BY <1>5, RefuseStep DEF Deadlock

\* Steps that no request takes.
LEMMA OutsideStep ==
  ASSUME GiftInv,
         \/ \E s \in Subscriptions : ActivateSubscription(s) \/ ExpireSubscription(s)
         \/ \E r \in Rewards : SetTask(r)
         \/ UNCHANGED giftVars
  PROVE  GiftInv'
<1> USE DEF GiftInv
<1>1. UNCHANGED <<months, redeemed, perk, credits, claimed, coupon, rowLock, stage, req, giftFailures,
                  overlapped, died>>
  BY DEF ActivateSubscription, ExpireSubscription, SetTask, ledger, vouchers, subscriptions, giftVars
<1>2. /\ task' \in [Rewards -> {"none", "pending", "issue", "delivered"}]
      /\ \A r \in Rewards : task'[r] # "none" => task[r] # "none"
  <2>1. CASE \E r \in Rewards : SetTask(r)
    BY <2>1 DEF SetTask, GiftTypeOK
  <2>2. CASE (\E s \in Subscriptions : ActivateSubscription(s) \/ ExpireSubscription(s)) \/ UNCHANGED giftVars
    BY <2>2 DEF ActivateSubscription, ExpireSubscription, ledger, giftVars, GiftTypeOK
  <2>3. QED
    BY <2>1, <2>2
<1>3. status' \in [Subscriptions -> {"pending", "active", "ended"}] /\ started' \in Seq(Subscriptions)
  <2>1. CASE \E t \in Subscriptions : ActivateSubscription(t)
    BY <2>1 DEF ActivateSubscription, GiftTypeOK
  <2>2. CASE \E t \in Subscriptions : ExpireSubscription(t)
    BY <2>2 DEF ExpireSubscription, GiftTypeOK
  <2>3. CASE (\E r \in Rewards : SetTask(r)) \/ UNCHANGED giftVars
    BY <2>3 DEF SetTask, subscriptions, giftVars, GiftTypeOK
  <2>4. QED
    BY <2>1, <2>2, <2>3
<1>4. GiftTypeOK'
  BY <1>1, <1>2, <1>3 DEF GiftTypeOK
<1>5. AskedInOrder' /\ LockedRowsStay' /\ LocksAreTransactions' /\ CreditsInOrder' /\ VouchersAreServed'
  BY <1>1 DEF AskedInOrder, LockedRowsStay, LocksAreTransactions, CreditsInOrder, VouchersAreServed,
              HasReward, HasVoucher, HasCode
<1>6. \A x \in Rewards : AtReward(x)' = AtReward(x) /\ AtPerk(x)' = AtPerk(x) /\ Extended(x)' = Extended(x)
  BY <1>1 DEF AtReward, AtPerk, Extended
<1>7. RewardsAreMarked'
  BY <1>1, <1>2, <1>6 DEF RewardsAreMarked
<1>8. QED
  BY <1>4, <1>5, <1>7

LEMMA InitGifts == GiftInit => GiftInv
<1> SUFFICES ASSUME GiftInit PROVE GiftInv
  OBVIOUS
<1>1. /\ stage = [p \in Requests |-> "idle"] /\ req = [p \in Requests |-> Nothing]
      /\ \A p \in Requests : stage[p] = "idle" /\ req[p].way = "none"
  BY DEF GiftInit, Nothing
<1>2. stage \in [Requests -> Stages] /\ req \in [Requests -> Asked]
  BY <1>1, NothingIsAsked DEF Stages
<1>3. rowLock = [held \in Lockable |-> Unset] /\ rowLock \in [Lockable -> Requests \cup {Unset}]
  BY DEF GiftInit
<1>4. /\ started = <<>> /\ started \in Seq(Subscriptions)
  BY DEF GiftInit
<1>5. GiftTypeOK
  BY <1>2, <1>3, <1>4 DEF GiftInit, GiftTypeOK
<1>6. AskedInOrder /\ LockedRowsStay /\ CreditsInOrder
  BY <1>1 DEF AskedInOrder, LockedRowsStay, CreditsInOrder, HasReward, HasVoucher, HasCode
<1>7. LocksAreTransactions
  BY <1>3, RewardAssumption DEF LocksAreTransactions
<1>8. RewardsAreMarked
  BY DEF GiftInit, RewardsAreMarked, Extended
<1>9. VouchersAreServed
  BY DEF GiftInit, VouchersAreServed
<1>10. QED
  BY <1>5, <1>6, <1>7, <1>8, <1>9 DEF GiftInv

\* Every step of the gifts keeps the invariant.
LEMMA GiftStep == GiftInv /\ [GiftNext]_giftVars => GiftInv'
<1> SUFFICES ASSUME GiftInv, [GiftNext]_giftVars PROVE GiftInv'
  OBVIOUS
<1>1. ASSUME NEW p \in Requests, NEW r \in Rewards, NEW s \in Subscriptions, Claim(p, r, s) \/ ExtendTerm(p, r, s)
      PROVE  GiftInv'
  <2>1. CASE Claim(p, r, s)
    BY <2>1, BeginStep DEF Claim
  <2>2. CASE ExtendTerm(p, r, s)
    BY <2>2, BeginStep DEF ExtendTerm
  <2>3. QED
    BY <1>1, <2>1, <2>2
<1>2. ASSUME NEW p \in Requests, NEW r \in Rewards, RedeemForCredits(p, r) PROVE GiftInv'
  BY <1>2, BeginStep DEF RedeemForCredits
<1>3. ASSUME NEW p \in Requests, NEW v \in Vouchers, ClaimVoucher(p, v) PROVE GiftInv'
  BY <1>3, BeginStep DEF ClaimVoucher
<1>4. ASSUME NEW p \in Requests, LockPerk(p) PROVE GiftInv'
  BY <1>4, RefuseStep, TakeStep DEF LockPerk
<1>5. ASSUME NEW p \in Requests, LockReward(p) PROVE GiftInv'
  BY <1>5, RefuseStep, TakeStep DEF LockReward
<1>6. ASSUME NEW p \in Requests, LockSubscription(p) PROVE GiftInv'
  BY <1>6, TakeStep DEF LockSubscription
<1>7. ASSUME NEW p \in Requests, LockVoucher(p) PROVE GiftInv'
  BY <1>7, RefuseStep, TakeStep DEF LockVoucher
<1>8. ASSUME NEW p \in Requests, InsertCoupon(p) PROVE GiftInv'
  BY <1>8, RefuseStep, TakeStep DEF InsertCoupon
<1>9. ASSUME NEW p \in Requests,
             \/ CommitExtension(p) \/ AddCredits(p) \/ MarkReward(p) \/ MarkPerk(p)
             \/ DrawCode(p) \/ CommitVoucher(p) \/ Deadlock(p) \/ Fail(p)
      PROVE  GiftInv'
  BY <1>9, CommitExtensionStep, AddCreditsStep, MarkRewardStep, MarkPerkStep, DrawCodeStep,
     CommitVoucherStep, DeadlockStep, FailStep
<1>10. ASSUME \/ \E s \in Subscriptions : ActivateSubscription(s) \/ ExpireSubscription(s)
              \/ \E r \in Rewards : SetTask(r)
              \/ UNCHANGED giftVars
       PROVE  GiftInv'
  BY <1>10, OutsideStep
<1>11. QED
  BY <1>1, <1>2, <1>3, <1>4, <1>5, <1>6, <1>7, <1>8, <1>9, <1>10
     DEF GiftNext, RewardNext, VoucherNext, Interruption

LEMMA GiftInvariant == GiftSpec => []GiftInv
<1>1. QED
  BY InitGifts, GiftStep, PTL DEF GiftSpec

\* A set that has a member when P holds, and no two, has as many as {x} has under P.
LEMMA AtMostOne ==
  ASSUME NEW S, \A a, b \in S : a = b
  PROVE  Cardinality(S) = IF S = {} THEN 0 ELSE 1
<1>1. CASE S = {}
  BY <1>1, FS_EmptySet
<1>2. CASE S # {}
  <2>1. PICK a \in S : S = {a}
    BY <1>2
  <2>2. QED
    BY <1>2, <2>1, FS_Singleton
<1>3. QED
  BY <1>1, <1>2

\* Rows, requests and histories of the gifts keep their types.
THEOREM GiftsTyped == GiftSpec => []GiftTypeOK
<1>1. GiftInv => GiftTypeOK
  BY DEF GiftInv
<1>2. QED
  BY <1>1, GiftInvariant, PTL

\* A reward's months are given once, and it is given again only as or beside credits, by a
\* request that overlapped or died; a claimed voucher has one coupon (admin/rewards.ts,
\* dashboard.ts and perkService.ts).
THEOREM GivenOnce == GiftSpec => []SecondGiftTakesCredits
<1>1. GiftInv => SecondGiftTakesCredits
  <2> SUFFICES ASSUME GiftInv PROVE SecondGiftTakesCredits
    OBVIOUS
  <2> USE DEF GiftInv
  <2>1. ASSUME NEW r \in Rewards
        PROVE  /\ Cardinality(Extensions(r)) <= 1
               /\ \A s \in Subscriptions : months[s][r] <= 1
               /\ credits[r] + Cardinality(Extensions(r)) > 1 => r \in overlapped \cup died
    <3>1. \A s, t \in Extensions(r) : s = t
      BY DEF Extensions, RewardsAreMarked
    <3>2. Cardinality(Extensions(r)) = IF Extensions(r) = {} THEN 0 ELSE 1
      BY <3>1, AtMostOne
    <3>3. Extensions(r) # {} => Extended(r)
      BY DEF Extensions, Extended
    <3>4. credits[r] \in Nat
      BY DEF GiftTypeOK
    <3>5. credits[r] > 1 \/ (credits[r] > 0 /\ Extended(r)) => r \in overlapped \cup died
      BY DEF RewardsAreMarked
    <3>6. credits[r] + Cardinality(Extensions(r)) > 1 => r \in overlapped \cup died
      BY <3>2, <3>3, <3>4, <3>5
    <3>7. QED
      BY <3>2, <3>6 DEF RewardsAreMarked
  <2>2. ASSUME NEW v \in Vouchers
        PROVE  Cardinality({c \in Codes : coupon[c] = v}) = Cardinality({v} \cap claimed)
    <3> DEFINE C == {c \in Codes : coupon[c] = v}
    <3>1. v # Unset
      BY RewardAssumption
    <3>2. \A c, d \in C : c = d
      BY <3>1 DEF VouchersAreServed
    <3>3. Cardinality(C) = IF C = {} THEN 0 ELSE 1
      BY <3>2, AtMostOne
    <3>4. \A a, b \in {v} \cap claimed : a = b
      OBVIOUS
    <3>5. Cardinality({v} \cap claimed) = IF {v} \cap claimed = {} THEN 0 ELSE 1
      BY <3>4, AtMostOne
    <3>6. C = {} <=> {v} \cap claimed = {}
      BY <3>1 DEF VouchersAreServed
    <3>7. QED
      BY <3>3, <3>5, <3>6
  <2>3. QED
    BY <2>1, <2>2 DEF SecondGiftTakesCredits
<1>2. QED
  BY <1>1, GiftInvariant, PTL

\* The reward's row, the user's perk and the staff's task tell the same of what was given,
\* but for a redemption for credits that is on its way or died.
THEOREM RecordsTell == GiftSpec => []RecordsAgree
<1>1. GiftInv => RecordsAgree
  <2> SUFFICES ASSUME GiftInv, NEW r \in Rewards
               PROVE
                 LET given == credits[r] > 0 \/ Extensions(r) # {}
                     onItsWay == r \in died \/ \E p \in Requests : stage[p] \in {"markReward", "markPerk"} /\ req[p].gift = r
                 IN /\ r \in perk => r \in redeemed
                    /\ r \in redeemed => given
                    /\ given => r \in perk \/ onItsWay
                    /\ task[r] # "none" => r \in perk /\ Extensions(r) # {}
    BY DEF RecordsAgree
  <2>1. Extensions(r) # {} <=> Extended(r)
    BY DEF Extensions, Extended
  <2>2. AtPerk(r) <=> \E p \in Requests : stage[p] \in {"markReward", "markPerk"} /\ req[p].gift = r
    BY DEF AtPerk
  <2>3. QED
    BY <2>1, <2>2 DEF GiftInv, RewardsAreMarked
<1>2. QED
  BY <1>1, GiftInvariant, PTL
=============================================================================
