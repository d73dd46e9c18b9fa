SPECIFICATION Spec
CONSTANTS
  Sessions = {s1, s2}
  Procs = {p1, p2}
  Totals = {1, 2}
  Providers = {"stripe", "antom", "pay4bit"}
  MaxFailures = 0
  NoSession = NoSession
  NoProc = NoProc
SYMMETRY Symmetry
INVARIANTS NothingGivenBeforeCheckout TakenOnce FulfilledAtItsPrice
