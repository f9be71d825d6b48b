CONSTANTS
  low = low
  mid = mid
  high = high
  idle = idle
  m1 = m1
  m2 = m2
  Thread <- MCThread
  PriorityMax = 4
  init_priority <- MCLevels
  Idle = idle
  Queue = {m1}
  Mutex = {m1}
  Defunct = Defunct
  Wild = Wild
  NoThread = NoThread
  mutex_flag = "prio"
  HoldMax = 2
  Times = {"no", "ticks", "forever"}
  Nested = FALSE
  Deleted = {m1}
SPECIFICATION Spec
INVARIANTS
  MutualExclusion
  PriorityRestored
PROPERTIES
  RightThreadRuns
\* All threads may wait for ever.
CHECK_DEADLOCK FALSE
