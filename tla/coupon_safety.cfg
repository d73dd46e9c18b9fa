SPECIFICATION RunSpec
CONSTANTS
  o1 = o1
  o2 = o2
  o3 = o3
  plain = plain
  u1 = u1
  u2 = u2
  Orders <- MCOrders
  Users <- MCUsers
  BuyerOf <- MCBuyerOf
  Plain = {plain}
  Bound = {u1, u2}
  FirstOnly = TRUE
  Limits = {1, 2}
  Edits = 1
  Faults = 1
  Currencies = {"USD", "AUD"}
  MaxChanges = 4
  Baskets <- MCBaskets
  Staff = {a, b}
  TermLength = 2
  Budgets <- MCBudgets
INVARIANTS OnePerUser CancelledReleases
INVARIANTS QuoteIsOnePublication SetPriceLostOnlyToOverlap
INVARIANTS AllocationIsExact
INVARIANTS TermIsGiven OneMailPerDelivery FailedMailIsPursued
PROPERTIES LimitHeld RevivalTakesOverlap
CHECK_DEADLOCK FALSE
