CONSTANTS
  low = low
  mid = mid
  high = high
  idle = idle
  m1 = m1
  m2 = m2
  Thread <- MCThread
  PriorityMax = 4
  init_priority <- MCLevels
  Idle = idle
  Queue = {m1, m2}
  Mutex = {m1, m2}
  Defunct = Defunct
  Wild = Wild
  NoThread = NoThread
  mutex_flag = "prio"
  HoldMax = 1
  Times = {"no", "forever"}
  Nested = TRUE
  Deleted = {}
SPECIFICATION Spec
INVARIANTS
  PriorityRestored
\* All threads may wait for ever.
CHECK_DEADLOCK FALSE
