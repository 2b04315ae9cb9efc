CONSTANTS
  None = None
  Jobs <- TwoJobs
  Rank <- RankOfTwo
  MaxAttempts = 2
  Unregistered = {}
  Threads = {}
  Sweepers = {s1}
  Callers = {w1}
  BatchLimit = 1
  SweepLimit = 2
  SlowHandlers = FALSE
  MaxExits = 1
  AttemptCap = 8
SPECIFICATION RqFairSpec
INVARIANT RolledBackNeverRuns
PROPERTIES CommittedJobEnds
CHECK_DEADLOCK FALSE
