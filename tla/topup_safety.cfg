SPECIFICATION TopUpSpec
CONSTANTS
  Payments = {p1}
  User = u1
  Payers = {u1}
  Owner <- MCOwner
  Slots = {s1, s2}
  Budgets <- AllTogether
SYMMETRY SlotSymmetry
INVARIANTS CreditIsOwed
CHECK_DEADLOCK FALSE
