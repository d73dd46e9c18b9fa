SPECIFICATION FairSpec
CONSTANTS
  Users = {u1}
  Procs = {p1, p2}
  Amounts <- MCAmounts
  MinBalance = 0
  MaxBalance = 1
  MaxTransactionAmount = 1
  PoolSize = 2
  TopUps = {t1}
  NoTopUp = NoTopUp
  NoUser = NoUser
  NoProc = NoProc
  NoEntry = NoEntry
INVARIANTS TrailMatchesBalance AnswersAreHonest
PROPERTIES EveryRequestAnswered ImplementsAtomicLedger
