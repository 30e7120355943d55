CONSTANTS
  Caller = {c1, c2, c3}
  Last = 3
  Absent = Absent
  Empty = Empty
  None = None
SPECIFICATION FairSpec
INVARIANTS
  DistinctUnlessReset
  ZeroMeansExhausted
PROPERTIES
  PoolUnlessReset
  EveryCallEnds
CHECK_DEADLOCK FALSE
