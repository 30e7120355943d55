CONSTANTS
  a = a
  b = b
  Device = {d1, d2}
  TestName = {a, b}
  Calls <- AllCalls
  NumRetries = 1
  RunOutcome = {"PASS", "FAIL"}
  None = None
SPECIFICATION FairSpec
INVARIANTS
  NoTestLost
  RecordedOnce
  TearDownAfterTests
  VerdictComplete
  LeftMeansRecorded
PROPERTIES
  LedgerSpec
  RunTestsTerminates
CHECK_DEADLOCK FALSE
