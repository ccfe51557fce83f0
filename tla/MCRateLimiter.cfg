\* Two threads of one tenant, windows of one second in two readings.
CONSTANTS
  p1 = p1  p2 = p2  p3 = p3
  Tenants = {"acme"}
  Threads = {p1, p2}
  Requests = 2
  WindowSeconds = 1
  Ticks = 2
  MaxTime = 5
  MaxLog = 7
SPECIFICATION Spec
SYMMETRY ThreadSymmetry
\* The clock and the history end at their bounds.
CHECK_DEADLOCK FALSE
INVARIANTS
  BudgetPerWindow
  BurstBound
  RetryAfterHonest
