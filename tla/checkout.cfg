SPECIFICATION FairSpec
CONSTANTS
  Sessions = {s1}
  Items = {i1, i2}
  Procs = {p1, p2}
  Totals = {100, 200}
  MaxFailures = 1
  NoSession = NoSession
  NoItem = NoItem
  NoProc = NoProc
INVARIANTS NothingWithoutCapture WaiterFindsItDone
PROPERTIES CapturedLeavesPending
