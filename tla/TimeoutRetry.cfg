CONSTANTS
  Retries = 2
  None = None
SPECIFICATION FairSpec
INVARIANTS
  OverlapOnlyAfterTimeout
  ReturnsAResult
  FailsOnlyAfterItsTries
PROPERTIES
  RunEnds
CHECK_DEADLOCK FALSE
