CONSTANTS
  a = a
  c = c
  boot = boot
  idle = idle
  Thread <- TwoThreads
  PriorityMax = 2
  init_priority <- AllPeers
  Idle = idle
  Boot = boot
  Queue = {}
  Defunct = Defunct
  Wild = Wild
  Static = {idle}
  init_tick = 1
  LockMax = 0
  StaleMask = {{}}
  Unguarded = {}
SPECIFICATION FairSpec
PROPERTIES
  RoundRobin
  DeadAreFreed
