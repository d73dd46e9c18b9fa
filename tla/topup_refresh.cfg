SPECIFICATION FairTopUpSpec
CONSTANTS
  Payments = {p1}
  User = u1
  Payers = {u1}
  Owner <- MCOwner
  Slots = {s1, s2}
  Budgets <- OneRefresh
PROPERTIES FinishedIsCredited
CHECK_DEADLOCK FALSE
