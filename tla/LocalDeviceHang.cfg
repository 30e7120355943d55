CONSTANTS
  a = a
  b = b
  c = c
  Device = {d1, d2}
  Tests <- TwoTests
  MaxTries = 1
  MaxShardSize = 2
  None = None
SPECIFICATION FairSpec
PROPERTIES
  RunTestsEnds
CHECK_DEADLOCK FALSE
