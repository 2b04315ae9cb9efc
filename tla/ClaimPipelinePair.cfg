SPECIFICATION Spec
CONSTANTS
  w1 = w1
  w2 = w2
  news = news
  gov = gov
  Workers = {w1, w2}
  Articles <- TwoArticles
  Official <- OneOfficial
  Issue = issue
  BatchSize = 1
  MaxCollects = 2
  MaxFaults = 0
INVARIANT VerdictsKnowOfficials
CHECK_DEADLOCK FALSE
