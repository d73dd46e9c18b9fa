SPECIFICATION RefundSpec
CONSTANTS
  Payments = {p1}
  Refunds = {r1}
  Manual = manual
  Slots = {s1, s2}
  Budget <- BudgetApprovals
  Users = {u1}
  User = u1
  Amounts = {1}
  MinBalance = 0
  MaxBalance = 5
  MaxTransactionAmount = 1
  Price = 1
  Start = 2
INVARIANTS DebitedOnce
CHECK_DEADLOCK FALSE
