SPECIFICATION FairSpec
CONSTANTS
  w1 = w1
  w2 = w2
  Contents <- SomeContents
  MinArticles = 4
  MinPublishers = 2
  Workers = {w1}
  MaxAttempts = 2
  MaxRounds = 2
  FallbackAfter = 2
  HighImpact = TRUE
  AtOnce = TRUE
  DailyLimit = 1
  MaxChanges = 1
  MaxFaults = 1
INVARIANTS TypeOK WavesWithinBudget WithinDailyLimit
PROPERTIES AttemptsSpaced RetrySettles KeywordsRetire
CHECK_DEADLOCK FALSE
