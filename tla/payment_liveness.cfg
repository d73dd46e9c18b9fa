SPECIFICATION FairSpec
CONSTANTS
  Sessions = {s1}
  Procs = {p1, p2}
  Totals = {1}
  Providers = {"stripe", "nowpayments", "payop", "pay4bit"}
  MaxFailures = 1
  NoSession = NoSession
  NoProc = NoProc
PROPERTIES PaidLeavesPending
