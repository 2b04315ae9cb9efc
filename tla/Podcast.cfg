SPECIFICATION FairSpec
CONSTANTS
  i1 = i1
  i2 = i2
  s1 = s1
  s2 = s2
  Issues = {i1}
  Daily = Daily
  Workers = {s1}
  Requesters = {s2}
  Formats = {"panel_2"}
  Variants = {"standard"}
  Evidence <- Written
  Settings <- Defaults
  Speech = TRUE
  MaxContent = 1
  MaxRequests = 1
  MaxFaults = 1
  MaxFailed = 1
  MaxId = 5
INVARIANTS TypeOK FeedPassedGate 
PROPERTIES RebuiltNotLost EveryIssueIsTold FollowUpRebuilds
CHECK_DEADLOCK FALSE
