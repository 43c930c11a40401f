SPECIFICATION FairSpec
CONSTANTS
  r1 = r1
  r2 = r2
  r3 = r3
  r4 = r4
  Rows = {r1, r2, r3, r4}
  KeyOf <- MCDistinctKeys
  PageSize = 2
  MaxAPILimit = 3
  Limits <- MCLimits
  Newest = 4
  ByTime = TRUE
  ZoneOffset <- West
  MaxFaults = 1
INVARIANTS
  NothingRepeated
  NothingSkipped
PROPERTY
  WalkEnds
