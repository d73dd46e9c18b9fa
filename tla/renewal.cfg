SPECIFICATION RunSpec
CONSTANTS
  Runs = {r1, r2}
  Payments = {x1}
  MaxEnd = 0
  MaxRewards = 1
  MaxFailures = 1
  NoRun = NoRun
  NoEnd <- MCNoEnd
  Users = {holder, other}
  Holder = holder
  Guest = guest
  Orders = {o1, o2}
  Tokens = {t1, t2}
  Claims = {c1, c2}
  Kinds = {"subscriptions"}
  MovedKinds = {"subscriptions"}
  None = None
  MaxClaimFailures = 1
  Unset = Unset
  MaxGiftFailures = 1
  Fits <- MCFits
  Rewards = {reward, prelaunch}
  Referrals = {reward}
  FirstOnly = {reward}
  Vouchers = {v1, v2}
  Subscriptions = {s1, s2}
  Codes = {k1, k2}
  Requests = {p, q}
SYMMETRY AllSymmetry
INVARIANTS SecondDebitTakesInterference TermIsWhatWasPaid
PROPERTIES NoRenewalAfterCancel PaymentNeverShortens
INVARIANTS OrdersFollowIdentity StrayTakesOverlap
PROPERTIES ClaimIsFinal
INVARIANTS SecondGiftTakesCredits RecordsAgree
CHECK_DEADLOCK FALSE
