-------------------------- MODULE RewardRedemption --------------------------
(***************************************************************************)
(* The pre-launch gifts of one user: rewards and vouchers.                 *)
(*                                                                         *)
(* A reward is worth free months on a subscription.  It has two rows: its  *)
(* own, in referral_rewards or pre_launch_rewards, and the user's view of  *)
(* it in user_perks.  Three routes redeem it: the user claims it           *)
(* (dashboard.ts and PerkService.applyPerkToSubscription, one transaction  *)
(* that locks perk, reward and subscription), an administrator extends a   *)
(* subscription with it (one transaction that locks reward, subscription   *)
(* and perk, in this order), or turns it into credits: three statements    *)
(* with no transaction around them.                                        *)
(*                                                                         *)
(* A voucher becomes a coupon of its own, in one transaction that locks    *)
(* the voucher; the coupon's code is drawn at random and unique.           *)
(*                                                                         *)
(* A row that a transaction holds makes the others wait; PostgreSQL ends   *)
(* one of those that wait for each other.  All subscriptions are the       *)
(* user's: a request that names another's is refused before any change.    *)
(***************************************************************************)
EXTENDS Naturals, Sequences, FiniteSets

CONSTANTS
  Rewards, Vouchers, Subscriptions,
  Referrals,       \* the rewards of referral_rewards: the others are pre_launch_rewards
  FirstOnly,       \* the rewards that apply to the first purchase only
  Fits,            \* <<reward, subscription>>: the term is long enough for the reward
  Codes,           \* the coupon codes that can be drawn
  Requests,
  MaxGiftFailures, \* bound: errors and crashes
  Unset

ASSUME RewardAssumption ==
  /\ Referrals \subseteq Rewards /\ FirstOnly \subseteq Rewards
  /\ Fits \subseteq Rewards \X Subscriptions
  /\ MaxGiftFailures \in Nat
  /\ Unset \notin Requests \cup Vouchers \cup Subscriptions \cup Codes

VARIABLES
  status,       \* of each subscription: "pending", "active" or "ended"
  started,      \* the subscriptions that ever became active, the first first
  months,       \* how often each reward's months are in each subscription's term
  redeemed,     \* the rewards whose own row says redeemed
  perk,         \* the rewards whose user_perks row says redeemed
  credits,      \* how many bonus credit transactions name each reward
  task,         \* of each reward: its prelaunch_reward_tasks row's status, or "none"
  claimed,      \* the vouchers that are claimed
  coupon,       \* the voucher each code's coupon was made for, or Unset
  rowLock,      \* the request whose transaction holds each row, or Unset
  stage, req,   \* where each request is, and what it is about
  giftFailures,
  overlapped,   \* history: rewards given or marked while another redemption for credits was on its way
  died          \* history: rewards whose redemption for credits died after the credits

ledger == <<months, redeemed, perk, credits, task>>
vouchers == <<claimed, coupon>>
subscriptions == <<status, started>>
giftVars == <<status, started, months, redeemed, perk, credits, task, claimed, coupon, rowLock, stage,
              req, giftFailures, overlapped, died>>

Lockable == ({"perk", "reward"} \X Rewards) \cup ({"sub"} \X Subscriptions)
          \cup ({"voucher"} \X Vouchers) \cup ({"code"} \X Codes)

\* The row that a request asks for next, or Unset.
Needs(p) ==
  CASE stage[p] \in {"perk", "markPerk"}     -> <<"perk", req[p].gift>>
    [] stage[p] \in {"reward", "markReward"} -> <<"reward", req[p].gift>>
    [] stage[p] = "sub"                      -> <<"sub", req[p].sub>>
    [] stage[p] = "voucher"                  -> <<"voucher", req[p].gift>>
    [] stage[p] = "insert"                   -> <<"code", req[p].code>>
    [] OTHER                                 -> Unset

\* What a request is about that is not under way.
Nothing == [gift |-> Unset, sub |-> Unset, code |-> Unset, way |-> "none"]

Free(p) == rowLock[Needs(p)] = Unset

Released(p) == [row \in Lockable |-> IF rowLock[row] = p THEN Unset ELSE rowLock[row]]

\* The request takes the row it asks for, and goes on.
Take(p, to) ==
  /\ Free(p)
  /\ rowLock' = [rowLock EXCEPT ![Needs(p)] = p]
  /\ stage' = [stage EXCEPT ![p] = to]

\* The transaction ends, whatever it wrote; the route has answered.
Leave(p) ==
  /\ rowLock' = Released(p)
  /\ stage' = [stage EXCEPT ![p] = "idle"]
  /\ req' = [req EXCEPT ![p] = Nothing]

Refuse(p) == Leave(p) /\ UNCHANGED <<ledger, vouchers, subscriptions, giftFailures, overlapped, died>>

\* A redemption of r for credits that has read the reward and not yet marked it.
Crediting(q, r) == stage[q] \in {"credits", "markReward"} /\ req[q].gift = r

\* Something is given for r, or r is marked as given.
Given(p, r) ==
  overlapped' = overlapped \cup {x \in {r} : \E q \in Requests \ {p} : Crediting(q, r)}

GiftInit ==
  /\ status = [s \in Subscriptions |-> "pending"]
  /\ started = <<>>
  /\ months = [s \in Subscriptions |-> [r \in Rewards |-> 0]]
  /\ redeemed = {} /\ perk = {} /\ claimed = {}
  /\ credits = [r \in Rewards |-> 0]
  /\ task = [r \in Rewards |-> "none"]
  /\ coupon = [c \in Codes |-> Unset]
  /\ rowLock = [row \in Lockable |-> Unset]
  /\ stage = [p \in Requests |-> "idle"]
  /\ req = [p \in Requests |-> Nothing]
  /\ giftFailures = 0 /\ overlapped = {} /\ died = {}

BeginGift(p, to, way, gift, s) ==
  /\ stage[p] = "idle"
  /\ stage' = [stage EXCEPT ![p] = to]
  /\ req' = [req EXCEPT ![p] = [gift |-> gift, sub |-> s, code |-> Unset, way |-> way]]
  /\ UNCHANGED <<ledger, vouchers, subscriptions, rowLock, giftFailures, overlapped, died>>

\* POST /prelaunch-rewards/claim: everything it checks is read without a lock.
Claim(p, r, s) ==
  /\ r \in Referrals \ perk
  /\ status[s] = "active"
  /\ IF r \in FirstOnly THEN s = Head(started) ELSE <<r, s>> \in Fits
  /\ BeginGift(p, "perk", "claim", r, s)

\* POST /referral/:rewardId/redeem and /prelaunch/:rewardId/redeem with a subscription:
\* neither its status nor its term is asked.
ExtendTerm(p, r, s) == r \notin redeemed /\ BeginGift(p, "reward", "extend", r, s)

\* The same routes without one.
RedeemForCredits(p, r) == r \notin redeemed /\ BeginGift(p, "credits", "credits", r, Unset)

\* POST /prelaunch-rewards/vouchers/claim.
ClaimVoucher(p, v) == BeginGift(p, "voucher", "voucher", v, Unset)

----
LockPerk(p) ==
  /\ stage[p] = "perk"
  /\ \/ /\ req[p].way = "claim" /\ Free(p) /\ req[p].gift \in perk
        /\ Refuse(p)
     \/ /\ req[p].way = "claim" => req[p].gift \notin perk
        /\ Take(p, IF req[p].way = "claim" THEN "reward" ELSE "commit")
        /\ UNCHANGED <<ledger, vouchers, subscriptions, req, giftFailures, overlapped, died>>

\* The row is locked, but what it says by then is not looked at.
LockReward_Unchecked(p) ==
  /\ stage[p] = "reward"
  /\ Take(p, "sub")
  /\ UNCHANGED <<ledger, vouchers, subscriptions, req, giftFailures, overlapped, died>>

LockReward(p) ==
  /\ stage[p] = "reward"
  /\ \/ Free(p) /\ req[p].gift \in redeemed /\ Refuse(p)
     \/ /\ req[p].gift \notin redeemed
        /\ Take(p, "sub")
        /\ UNCHANGED <<ledger, vouchers, subscriptions, req, giftFailures, overlapped, died>>

LockSubscription(p) ==
  /\ stage[p] = "sub"
  /\ Take(p, IF req[p].way = "claim" THEN "commit" ELSE "perk")
  /\ UNCHANGED <<ledger, vouchers, subscriptions, req, giftFailures, overlapped, died>>

\* Only the perk is marked.
CommitExtension_PerkOnly(p) ==
  LET r == req[p].gift
  IN /\ stage[p] = "commit" /\ req[p].way \in {"claim", "extend"}
     /\ months' = [months EXCEPT ![req[p].sub][r] = @ + 1]
     /\ perk' = perk \cup {r}
     /\ task' = IF req[p].way = "claim" /\ task[r] = "none" THEN [task EXCEPT ![r] = "pending"] ELSE task
     /\ Given(p, r)
     /\ Leave(p)
     /\ UNCHANGED <<redeemed, credits, vouchers, subscriptions, giftFailures, died>>

\* The months are added to what the row holds; the user's claim also asks the staff to
\* extend the subscription at its provider.
CommitExtension(p) ==
  LET r == req[p].gift
  IN /\ stage[p] = "commit" /\ req[p].way \in {"claim", "extend"}
     /\ months' = [months EXCEPT ![req[p].sub][r] = @ + 1]
     /\ redeemed' = redeemed \cup {r}
     /\ perk' = perk \cup {r}
     /\ task' = IF req[p].way = "claim" /\ task[r] = "none" THEN [task EXCEPT ![r] = "pending"] ELSE task
     /\ Given(p, r)
     /\ Leave(p)
     /\ UNCHANGED <<credits, vouchers, subscriptions, giftFailures, died>>

----
\* The ledger takes the bonus or refuses it.
AddCredits(p) ==
  /\ stage[p] = "credits"
  /\ \/ /\ credits' = [credits EXCEPT ![req[p].gift] = @ + 1]
        /\ Given(p, req[p].gift)
        /\ stage' = [stage EXCEPT ![p] = "markReward"]
        /\ UNCHANGED <<months, redeemed, perk, task, vouchers, subscriptions, rowLock, req, giftFailures, died>>
     \/ Refuse(p)

\* Whatever the row says by now.
MarkReward(p) ==
  /\ stage[p] = "markReward" /\ Free(p)
  /\ redeemed' = redeemed \cup {req[p].gift}
  /\ stage' = [stage EXCEPT ![p] = "markPerk"]
  /\ Given(p, req[p].gift)
  /\ UNCHANGED <<months, perk, credits, task, vouchers, subscriptions, rowLock, req, giftFailures, died>>

MarkPerk(p) ==
  /\ stage[p] = "markPerk" /\ Free(p)
  /\ perk' = perk \cup {req[p].gift}
  /\ Leave(p)
  /\ UNCHANGED <<months, redeemed, credits, task, vouchers, subscriptions, giftFailures, overlapped, died>>

----
\* A claimed voucher is refused, and so is one whose scope has no coupon (any more) or
\* whose product is not sold.
LockVoucher(p) ==
  /\ stage[p] = "voucher"
  /\ \/ Free(p) /\ Refuse(p)
     \/ /\ req[p].gift \notin claimed
        /\ Take(p, "draw")
        /\ UNCHANGED <<ledger, vouchers, subscriptions, req, giftFailures, overlapped, died>>

\* Up to five draws, for a code that no committed coupon has.
DrawCode(p) ==
  /\ stage[p] = "draw"
  /\ \/ \E c \in Codes :
          /\ coupon[c] = Unset
          /\ req' = [req EXCEPT ![p].code = c]
          /\ stage' = [stage EXCEPT ![p] = "insert"]
          /\ UNCHANGED <<ledger, vouchers, subscriptions, rowLock, giftFailures, overlapped, died>>
     \/ (\E c \in Codes : coupon[c] # Unset) /\ Refuse(p)

\* The unique index: an insertion waits for one that is not committed, and fails on one
\* that is.
InsertCoupon(p) ==
  /\ stage[p] = "insert"
  /\ \/ Free(p) /\ coupon[req[p].code] # Unset /\ Refuse(p)
     \/ /\ coupon[req[p].code] = Unset
        /\ Take(p, "commit")
        /\ UNCHANGED <<ledger, vouchers, subscriptions, req, giftFailures, overlapped, died>>

CommitVoucher(p) ==
  /\ stage[p] = "commit" /\ req[p].way = "voucher"
  /\ coupon' = [coupon EXCEPT ![req[p].code] = req[p].gift]
  /\ claimed' = claimed \cup {req[p].gift}
  /\ Leave(p)
  /\ UNCHANGED <<ledger, subscriptions, giftFailures, overlapped, died>>

----
\* PostgreSQL ends one of the transactions that wait in a circle.
Deadlock(p) ==
  /\ \E S \in SUBSET {q \in Requests : Needs(q) # Unset} : p \in S /\ {rowLock[Needs(q)] : q \in S} = S
  /\ Refuse(p)

\* An error of the database or a crash: the transaction is rolled back, and the statements
\* that ran outside one stay.
Fail(p) ==
  /\ stage[p] # "idle" /\ giftFailures < MaxGiftFailures
  /\ giftFailures' = giftFailures + 1
  /\ died' = died \cup {r \in Rewards : stage[p] \in {"markReward", "markPerk"} /\ req[p].gift = r}
  /\ Leave(p)
  /\ UNCHANGED <<ledger, vouchers, subscriptions, overlapped>>

\* A delivered order: an update of the row, like the next.
ActivateSubscription(s) ==
  /\ status[s] = "pending" /\ rowLock[<<"sub", s>>] = Unset
  /\ status' = [status EXCEPT ![s] = "active"]
  /\ started' = Append(started, s)
  /\ UNCHANGED <<ledger, vouchers, rowLock, stage, req, giftFailures, overlapped, died>>

\* updateExpiredSubscriptions.
ExpireSubscription(s) ==
  /\ status[s] = "active" /\ rowLock[<<"sub", s>>] = Unset
  /\ status' = [status EXCEPT ![s] = "ended"]
  /\ UNCHANGED <<started, ledger, vouchers, rowLock, stage, req, giftFailures, overlapped, died>>

\* POST /prelaunch-rewards/:taskId/issue and /delivered: from any status.
SetTask(r) ==
  /\ task[r] # "none"
  /\ \E to \in {"issue", "delivered"} : task' = [task EXCEPT ![r] = to]
  /\ UNCHANGED <<months, redeemed, perk, credits, vouchers, subscriptions, rowLock, stage, req, giftFailures,
                 overlapped, died>>

RewardNext ==
  \/ \E p \in Requests :
       \/ \E r \in Rewards : RedeemForCredits(p, r)
       \/ \E r \in Rewards, s \in Subscriptions : Claim(p, r, s) \/ ExtendTerm(p, r, s)
       \/ LockPerk(p) \/ LockReward(p) \/ LockSubscription(p) \/ CommitExtension(p)
       \/ AddCredits(p) \/ MarkReward(p) \/ MarkPerk(p)
  \/ \E s \in Subscriptions : ActivateSubscription(s) \/ ExpireSubscription(s)
  \/ \E r \in Rewards : SetTask(r)

VoucherNext ==
  \E p \in Requests :
    \/ \E v \in Vouchers : ClaimVoucher(p, v)
    \/ LockVoucher(p) \/ DrawCode(p) \/ InsertCoupon(p) \/ CommitVoucher(p)

Interruption == \E p \in Requests : Deadlock(p) \/ Fail(p)

GiftNext == RewardNext \/ VoucherNext \/ Interruption

GiftSpec == GiftInit /\ [][GiftNext]_giftVars

----
Extensions(r) == {s \in Subscriptions : months[s][r] > 0}

\* A reward's months are given once, to one subscription, whichever routes and requests
\* race for it; it is given a second time only as or beside credits, and only when a
\* redemption for credits was under way meanwhile or had died before it marked the reward.
\* A voucher has a coupon of its own when it is claimed, and none before.
SecondGiftTakesCredits ==
  /\ \A r \in Rewards :
       /\ Cardinality(Extensions(r)) <= 1
       /\ \A s \in Subscriptions : months[s][r] <= 1
       /\ credits[r] + Cardinality(Extensions(r)) > 1 => r \in overlapped \cup died
  /\ \A v \in Vouchers : Cardinality({c \in Codes : coupon[c] = v}) = Cardinality({v} \cap claimed)

\* The three places that tell of a redemption agree: a reward is marked only when
\* something was given, and what was given is marked on the reward and on the perk, but for
\* a redemption for credits that is still on its way or died; and the staff is asked to act
\* only for months that the user claimed.
RecordsAgree ==
  \A r \in Rewards :
    LET given == credits[r] > 0 \/ Extensions(r) # {}
        onItsWay == r \in died \/ \E p \in Requests : stage[p] \in {"markReward", "markPerk"} /\ req[p].gift = r
    IN /\ r \in perk => r \in redeemed
       /\ r \in redeemed => given
       /\ given => r \in perk \/ onItsWay
       /\ task[r] # "none" => r \in perk /\ Extensions(r) # {}
=============================================================================
