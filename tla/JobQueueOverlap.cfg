CONSTANTS
  None = None
  Jobs <- TwoJobs
  Rank <- RankOfTwo
  MaxAttempts = 2
  Unregistered = {}
  Threads = {t1, t2, t3}
  Sweepers = {}
  Callers = {}
  BatchLimit = 1
  SweepLimit = 2
  SlowHandlers = TRUE
  MaxExits = 1
  AttemptCap = 0
SPECIFICATION Spec
SYMMETRY ThreadSymmetry
INVARIANTS OverrunBounded
CHECK_DEADLOCK FALSE
