CONSTANTS
  None = None
  Jobs <- ThreeJobs
  Rank <- RankOfThree
  MaxAttempts = 2
  Unregistered = {3}
  Threads = {t1, t2}
  Sweepers = {}
  Callers = {}
  BatchLimit = 2
  SweepLimit = 2
  SlowHandlers = FALSE
  MaxExits = 2
  AttemptCap = 0
SPECIFICATION FairSpec
INVARIANTS TypeOK AtMostOneExecutor ExecutingIsRunning AttemptsBounded
PROPERTIES ImplementsLifecycle EveryJobEnds
CHECK_DEADLOCK FALSE
