SPECIFICATION FairSpec
CONSTANTS
  w1 = w1
  w2 = w2
  news = news
  gov = gov
  Workers = {w1}
  Articles <- TwoArticles
  Official <- OneOfficial
  Issue = issue
  BatchSize = 2
  MaxCollects = 2
  MaxFaults = 1
INVARIANTS TypeOK VerdictsKnowOfficials PageIsCurrent
PROPERTY EveryClaimIsJudged
CHECK_DEADLOCK FALSE
