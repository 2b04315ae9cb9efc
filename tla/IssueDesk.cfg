SPECIFICATION FairSpec
CONSTANTS
  i1 = i1
  i2 = i2
  a1 = a1
  a2 = a2
  w1 = w1
  w2 = w2
  Issues = {i1, i2}
  Articles = {a1, a2}
  Workers = {w1}
  Relevant <- FitsFirst
  SplitOf <- FirstIsSplit
  MinSources = 1
  MaxChanges = 3
  MaxFaults = 1
INVARIANTS TypeOK OnlyOldWorkUnhides
PROPERTY ThinIsTakenDown
CHECK_DEADLOCK FALSE
