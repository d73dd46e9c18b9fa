SPECIFICATION RunSpec
CONSTANTS
  Requests = {x, y}
  Faults = 1
  Submissions = 2
  Payments = {p1}
  Refunds = {r1}
  Manual = manual
  Slots = {s1, s2, s3}
  Budget <- MCBudget
  Users = {u1}
  User = u1
  Amounts = {1}
  MinBalance = 0
  MaxBalance = 5
  MaxTransactionAmount = 1
  Price = 1
  Start = 2
SYMMETRY SlotSymmetry
INVARIANTS RefundIsTakenOnce RejectionStands
INVARIANTS AcceptedChoiceIsKept LockedIsHandedOver
PROPERTIES ChoiceIsFinal
CHECK_DEADLOCK FALSE
