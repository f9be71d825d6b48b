CONSTANTS
  a = a
  b = b
  c = c
  idle = idle
  Thread <- MCThread
  PriorityMax = 3
  init_priority <- MCLevels
  Idle = idle
  sem = sem
  Queue = {sem}
  Defunct = Defunct
  Wild = Wild
  sem_flag = "prio"
  InitValue = 1
  ValueLimit = 5
  SupplyMax = 3
  Times = {"no", "ticks", "forever"}
  Calls = {"reset"}
SPECIFICATION Spec
SYMMETRY Peers
INVARIANTS
  WaitersAreSuspended
  PermitsConserved
  NoIdlePermit
  TakersAccounted
PROPERTIES
  ImplementsCountingSemaphore
\* Every thread may wait for ever for a permit nobody releases.
CHECK_DEADLOCK FALSE
