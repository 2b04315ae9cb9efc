CONSTANTS
  None = None
  Jobs <- TwoJobs
  Rank <- RankOfTwo
  MaxAttempts = 2
  Unregistered = {}
  Threads = {t1}
  Sweepers = {s1}
  Callers = {r1}
  BatchLimit = 1
  SweepLimit = 2
  SlowHandlers = TRUE
  MaxExits = 1
  AttemptCap = 2
SPECIFICATION Spec
INVARIANTS BudgetSpent
CHECK_DEADLOCK FALSE
