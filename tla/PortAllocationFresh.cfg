CONSTANTS
  Caller = {c1, c2, c3}
  Last = 3
  Absent = Absent
  Empty = Empty
  None = None
SPECIFICATION Spec
INVARIANTS
  DistinctPorts
CHECK_DEADLOCK FALSE
