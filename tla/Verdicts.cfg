SPECIFICATION FairSpec
CONSTANTS
  c1 = c1
  c2 = c2
  off = off
  src = src
  none = none
  NoArticle = none
  NoClaim = noclaim
  Claims = {c1, c2}
  Articles = {off}
  Registry = {src}
  Profile <- Profiles
  Fact <- Facts
  Checks = {k1}
  Posts = {p1}
  Staff = {s1, s2}
  Relevances = {40}
  Answers = {"insufficient"}
  MaxOpened = 2
  MaxFaults = 1
INVARIANTS TypeOK ConfirmedIsSupported
PROPERTIES ChangesAreRecorded ChecksEnd
CHECK_DEADLOCK FALSE
