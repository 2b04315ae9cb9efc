CONSTANTS
  None = None
  Tickers = {embedded, container}
  Executing = {container}
  Targets = {source, keyword}
  MaxFaults = 1
  MaxFailed = 1
SPECIFICATION FairSpec
INVARIANTS TypeOK OneQueuedJob
PROPERTIES DueIsScheduled
