CONSTANTS
  a = a
  b = b
  c = c
  Device = {d1, d2}
  Tests <- ThreeTests
  MaxTries = 2
  MaxShardSize = 2
  None = None
SPECIFICATION FairSpec
INVARIANTS
  ShardsDisjoint
  OneVerdictPerTest
  RunsBounded
PROPERTIES
  LedgerSpec
  EndsUnlessRaised
CHECK_DEADLOCK FALSE
