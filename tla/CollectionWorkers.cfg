CONSTANTS
  t1 = t1
  t2 = t2
  Worker = {w1, w2, w3}
  Task = {t1, t2, t3}
  Initial <- MCInitial
  None = None
SPECIFICATION FairSpec
INVARIANTS
  CountExact
  NoLostWakeup
  LeaveWhenDrained
  NoTestLost
PROPERTIES
  PoolSpec
  EveryWorkerEnds
