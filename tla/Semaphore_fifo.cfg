CONSTANTS
  a = a
  b = b
  c = c
  idle = idle
  Thread <- MCThread
  PriorityMax = 3
  init_priority <- MCPeers
  Idle = idle
  sem = sem
  Queue = {sem}
  Defunct = Defunct
  Wild = Wild
  sem_flag = "fifo"
  InitValue = 1
  ValueLimit = 5
  SupplyMax = 1
  Times = {"no", "forever"}
  Calls = {"delete"}
SPECIFICATION FairSpec
PROPERTIES
  FifoStarvesNobody
\* Every thread may wait for ever for a permit nobody releases.
CHECK_DEADLOCK FALSE
