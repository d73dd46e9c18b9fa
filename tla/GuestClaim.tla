----------------------------- MODULE GuestClaim -----------------------------
(***************************************************************************)
(* One guest identity (an e-mail address) on its way to an account.         *)
(* Draft orders give the identity a guest user; what the orders lead to     *)
(* (subscriptions, payments, ...) is written for the order's user; e-mails  *)
(* carry one-time tokens, and whoever signs in with a token claims the      *)
(* identity and everything of its guest user.  A visitor who is signed in   *)
(* with the identity's own address gets it without a token.                 *)
(*                                                                         *)
(* A claim and a draft are transactions.  Their row locks are part of the   *)
(* state: token and identity are locked FOR UPDATE, and the lock on the     *)
(* guest user keeps out rows that reference it.  What a transaction writes  *)
(* shows at its commit, which is one action with all of its writes.         *)
(***************************************************************************)
EXTENDS Naturals, FiniteSets

CONSTANTS
  Users,        \* real accounts
  Holder,       \* the account whose address is the identity's
  Guest,        \* the guest user of the identity
  Orders, Tokens,
  Claims,       \* requests to /claim
  Kinds,        \* tables whose rows name the user of an order
  MovedKinds,   \* those that a claim reassigns
  MaxClaimFailures, \* bound: database errors and crashes of one behaviour
  None

GuestClaimAssumption ==
  /\ Holder \in Users /\ Guest \notin Users
  /\ None \notin Users \cup {Guest} \cup Claims \cup Tokens \cup Orders
  /\ Orders \cap Claims = {}
  /\ MovedKinds \subseteq Kinds /\ MaxClaimFailures \in Nat

VARIABLES
  identity,  \* guest_identities.user_id
  lock,      \* the transaction that holds the identity's row: None, an order's draft, a claim
  order,     \* order[o]: user_id of the order, None before it is drafted
  draft,     \* draft[o]: its transaction is open, and the user of the identity it has read
  token,     \* token[t]: none, live, expired, used
  mail,      \* orders whose e-mail found a guest user and is about to issue a token
  row,       \* row[o][k]: what o led to in table k: st, user, late (history)
  claim,     \* claim[c]: the request: pc, token, user, seen (identity.user_id it locked)
  linking,   \* a visitor signed in as Holder has read an identity without user
  stale,     \* the link overwrote a user who came after that read (history)
  claimFailures \* failures so far, for the bound MaxClaimFailures

claimVars == <<identity, lock, order, draft, token, mail, row, claim, linking, stale, claimFailures>>

Owners == Users \cup {Guest}
Rows   == [st : {"none"}, user : {None}, late : {FALSE}]
            \cup [st : {"read", "written"}, user : Owners, late : BOOLEAN]
Open   == {"token", "moving"}

ClaimInit ==
  /\ identity = None /\ lock = None
  /\ order = [o \in Orders |-> None]
  /\ draft = [o \in Orders |-> [open |-> FALSE, seen |-> None]]
  /\ token = [t \in Tokens |-> "none"]
  /\ mail = {}
  /\ row = [o \in Orders |-> [k \in Kinds |-> [st |-> "none", user |-> None, late |-> FALSE]]]
  /\ claim = [c \in Claims |-> [pc |-> "idle", token |-> None, user |-> None, seen |-> None]]
  /\ linking = FALSE /\ stale = FALSE /\ claimFailures = 0

Failure == claimFailures < MaxClaimFailures /\ claimFailures' = claimFailures + 1

-----------------------------------------------------------------------------
(* Identity and draft                                                       *)

\* POST /identity by Holder: the upsert waits for the row and returns its user, and only
\* an identity without one is linked, by the update below.
EnsureIdentity ==
  /\ lock = None /\ identity = None
  /\ linking' = TRUE
  /\ UNCHANGED <<identity, lock, order, draft, token, mail, row, claim, stale, claimFailures>>

\* The update names the row only, not the absence of a user it was decided by.
LinkIdentity ==
  /\ linking /\ lock = None
  /\ linking' = FALSE
  /\ identity' = Holder
  /\ stale' = (stale \/ identity \notin {None, Holder})
  /\ UNCHANGED <<lock, order, draft, token, mail, row, claim, claimFailures>>

\* The draft reads the identity without locking it.
LockDraft_Unlocked(o) ==
  /\ order[o] = None /\ ~draft[o].open
  /\ draft' = [draft EXCEPT ![o] = [open |-> TRUE, seen |-> identity]]
  /\ UNCHANGED <<identity, lock, order, token, mail, row, claim, linking, stale, claimFailures>>

\* upsertDraftOrder begins: the identity FOR UPDATE.  (The draft that is drafted anew
\* keeps its user, and does nothing to what is modelled here.)
LockDraft(o) ==
  /\ order[o] = None /\ lock = None
  /\ lock' = o
  /\ draft' = [draft EXCEPT ![o] = [open |-> TRUE, seen |-> identity]]
  /\ UNCHANGED <<identity, order, token, mail, row, claim, linking, stale, claimFailures>>

EndDraft(o) ==
  /\ draft' = [draft EXCEPT ![o] = [open |-> FALSE, seen |-> None]]
  /\ lock' = IF lock = o THEN None ELSE lock

\* An identity without user gets its guest user; the order goes to the user found or made.
CommitDraft(o) ==
  /\ draft[o].open
  /\ identity' = IF draft[o].seen = None THEN Guest ELSE identity
  /\ order' = [order EXCEPT ![o] = IF draft[o].seen = None THEN Guest ELSE draft[o].seen]
  /\ EndDraft(o)
  /\ UNCHANGED <<token, mail, row, claim, linking, stale, claimFailures>>

\* The draft cannot be priced, or a statement fails.
RollbackDraft(o) ==
  /\ draft[o].open
  /\ EndDraft(o)
  /\ Failure
  /\ UNCHANGED <<identity, order, token, mail, row, claim, linking, stale>>

-----------------------------------------------------------------------------
(* What an order leads to                                                   *)

\* A payment session, a fulfilment or a refund loads the order, ...
ReadOwner(o, k) ==
  /\ order[o] # None /\ row[o][k].st = "none"
  /\ row' = [row EXCEPT ![o][k] = [st |-> "read", user |-> order[o], late |-> FALSE]]
  /\ UNCHANGED <<identity, lock, order, draft, token, mail, claim, linking, stale, claimFailures>>

\* A claim that reassigns holds the guest user's row.
GuestLocked == \E c \in Claims : claim[c].pc = "moving" /\ claim[c].seen = Guest

\* ... and inserts its row for the user it has read: the foreign key waits for that user.
InsertRow(o, k) ==
  /\ row[o][k].st = "read"
  /\ row[o][k].user = Guest => ~GuestLocked
  /\ row' = [row EXCEPT ![o][k] = [st |-> "written", user |-> @.user, late |-> @.user # order[o]]]
  /\ UNCHANGED <<identity, lock, order, draft, token, mail, claim, linking, stale, claimFailures>>

\* The e-mail on payment or delivery finds that the order's user is a guest, ...
ComposeMail(o) ==
  /\ order[o] = Guest
  /\ mail' = mail \cup {o}
  /\ UNCHANGED <<identity, lock, order, draft, token, row, claim, linking, stale, claimFailures>>

\* ... and issueClaimToken inserts a token: the foreign key waits for the identity.
IssueToken(o, t) ==
  /\ o \in mail /\ lock = None /\ token[t] = "none"
  /\ token' = [token EXCEPT ![t] = "live"]
  /\ mail' = mail \ {o}
  /\ UNCHANGED <<identity, lock, order, draft, row, claim, linking, stale, claimFailures>>

ExpireToken(t) ==
  /\ token[t] = "live"
  /\ token' = [token EXCEPT ![t] = "expired"]
  /\ UNCHANGED <<identity, lock, order, draft, mail, row, claim, linking, stale, claimFailures>>

-----------------------------------------------------------------------------
(* Claims                                                                   *)

\* The claim is answered and its transaction is over.
Answer(c, answer) == claim' = [claim EXCEPT ![c].pc = answer]

Rollback(c, answer) ==
  /\ Answer(c, answer)
  /\ lock' = IF lock = c THEN None ELSE lock

\* The transaction of claim d has locked token t.
Holds(d, t) == claim[d].pc \in Open /\ claim[d].token = t

\* Other claims that hold a token of the identity.
Rivals(c) == {d \in Claims \ {c} : \E t \in Tokens : Holds(d, t)}

\* The token FOR UPDATE; a used or expired one is refused at once.
LockToken(c, t, u) ==
  /\ claim[c].pc = "idle" /\ token[t] # "none"
  /\ \A d \in Claims : ~Holds(d, t)
  /\ claim' = [claim EXCEPT ![c] = [pc |-> IF token[t] = "live" THEN "token" ELSE "refused",
                                    token |-> t, user |-> u, seen |-> None]]
  /\ UNCHANGED <<identity, lock, order, draft, token, mail, row, linking, stale, claimFailures>>

\* Whoever holds a token takes the identity from whomever has it.
LockIdentity_Any(c) ==
  /\ claim[c].pc = "token" /\ lock = None
  /\ claim' = [claim EXCEPT ![c].pc = "moving", ![c].seen = identity]
  /\ lock' = c
  /\ UNCHANGED <<identity, order, draft, token, mail, row, linking, stale, claimFailures>>

\* The identity, the account and the guest user FOR UPDATE; an identity that belongs to
\* another account is not claimed again.
LockIdentity(c) ==
  /\ claim[c].pc = "token" /\ lock = None
  /\ IF identity \in {None, Guest, claim[c].user}
     THEN /\ claim' = [claim EXCEPT ![c].pc = "moving", ![c].seen = identity]
          /\ lock' = c
     ELSE Rollback(c, "refused")
  /\ UNCHANGED <<identity, order, draft, token, mail, row, linking, stale, claimFailures>>

\* What the claim does to the user_id of a row that is there.
Reassigned(c, u) == IF claim[c].seen = Guest /\ u = Guest THEN claim[c].user ELSE u

\* The claim moves the orders and forgets what they led to.
MovedRows_NotWritten(c, o) == row[o]

MovedRows(c, o) ==
  [k \in Kinds |->
     IF k \in MovedKinds /\ row[o][k].st = "written"
     THEN [row[o][k] EXCEPT !.user = Reassigned(c, @)] ELSE row[o][k]]

\* Every unused token of the identity is marked used, so the claim waits for rivals who
\* hold one of them.
CommitClaim(c) ==
  /\ claim[c].pc = "moving" /\ Rivals(c) = {}
  /\ Rollback(c, "claimed")
  /\ identity' = claim[c].user
  /\ order' = [o \in Orders |-> Reassigned(c, order[o])]
  /\ row' = [o \in Orders |-> MovedRows(c, o)]
  /\ token' = [t \in Tokens |-> IF token[t] = "none" THEN "none" ELSE "used"]
  /\ UNCHANGED <<draft, mail, linking, stale, claimFailures>>

\* Two claims hold what the other waits for: the database ends one of them (external).
BreakDeadlock(c) ==
  /\ claim[c].pc = "moving"
  /\ \E victim \in {c} \cup Rivals(c) : Rivals(c) # {} /\ Rollback(victim, "failed")
  /\ UNCHANGED <<identity, order, draft, token, mail, row, linking, stale, claimFailures>>

\* A statement fails, or the process dies: the transaction is rolled back.
FailClaim(c) ==
  /\ claim[c].pc \in Open
  /\ Failure
  /\ Rollback(c, "failed")
  /\ UNCHANGED <<identity, order, draft, token, mail, row, linking, stale>>

ClaimNext ==
  \/ EnsureIdentity \/ LinkIdentity
  \/ \E o \in Orders : LockDraft(o) \/ CommitDraft(o) \/ RollbackDraft(o) \/ ComposeMail(o)
  \/ \E o \in Orders, k \in Kinds : ReadOwner(o, k) \/ InsertRow(o, k)
  \/ \E o \in Orders, t \in Tokens : IssueToken(o, t)
  \/ \E t \in Tokens : ExpireToken(t)
  \/ \E c \in Claims, t \in Tokens, u \in Users : LockToken(c, t, u)
  \/ \E c \in Claims : LockIdentity(c) \/ CommitClaim(c) \/ BreakDeadlock(c) \/ FailClaim(c)

ClaimSpec == ClaimInit /\ [][ClaimNext]_claimVars

-----------------------------------------------------------------------------

ClaimTypeOK ==
  /\ identity \in Owners \cup {None} /\ lock \in Claims \cup Orders \cup {None}
  /\ order \in [Orders -> Owners \cup {None}]
  /\ draft \in [Orders -> [open : BOOLEAN, seen : Owners \cup {None}]]
  /\ token \in [Tokens -> {"none", "live", "expired", "used"}]
  /\ mail \subseteq Orders
  /\ row \in [Orders -> [Kinds -> Rows]]
  /\ claim \in [Claims -> [pc : Open \cup {"idle", "claimed", "refused", "failed"},
                           token : Tokens \cup {None}, user : Users \cup {None},
                           seen : Owners \cup {None}]]
  /\ linking \in BOOLEAN /\ stale \in BOOLEAN /\ claimFailures \in 0 .. MaxClaimFailures

\* Every order of the identity belongs to the identity's user, whatever drafts, claims
\* and sign-ins overlap: only a link decided before another user came leaves it behind,
\* and no later claim brings it back.
OrdersFollowIdentity ==
  ~stale => \A o \in Orders : order[o] # None => order[o] = identity

\* An identity that an account has claimed goes to no other account, through whichever
\* token, but for such a link.
ClaimIsFinal ==
  [][(identity \in Users /\ identity' # identity) => (linking /\ ~linking')]_claimVars

\* What an order led to belongs to the order's user, unless it was written for the user
\* the order had before the claim: the claim has passed by then, and the row stays with
\* the guest.
StrayTakesOverlap ==
  \A o \in Orders, k \in MovedKinds :
    row[o][k].st = "written" /\ ~row[o][k].late => row[o][k].user = order[o]

=============================================================================
