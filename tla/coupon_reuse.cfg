SPECIFICATION Spec
CONSTANTS
  o1 = o1
  o2 = o2
  o3 = o3
  plain = plain
  u1 = u1
  u2 = u2
  Orders <- MCOrders
  Users <- MCUsers
  BuyerOf <- MCBuyerOf
  Plain = {plain}
  Bound = {u1, u2}
  FirstOnly = FALSE
  Limits = {2}
  Edits = 0
  Faults = 0
INVARIANTS OnePaidOrderPerUser
CHECK_DEADLOCK FALSE
