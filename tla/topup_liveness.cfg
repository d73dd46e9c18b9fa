SPECIFICATION RunSpec
CONSTANTS
  Orders = {a, b}
  Coupons = {a, b}
  MaxSubscriptions = 1
  Users = {u1}
  User = u1
  Amounts = {1}
  MinBalance = 0
  MaxBalance = 1
  MaxTransactionAmount = 1
  Price = 1
  Start = 1
  TopUps = 1
  Faults = 1
  Payments = {p1}
  Payers = {u1}
  Payer = u1
  Slots = {s1, s2}
INVARIANTS NothingGivenUnpaid PurchaseIsSettled CountIsCurrent
PROPERTIES PaidIsCredited
CHECK_DEADLOCK FALSE
