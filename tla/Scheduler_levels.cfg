CONSTANTS
  a = a
  c = c
  boot = boot
  idle = idle
  Thread <- TwoThreads
  PriorityMax = 3
  init_priority <- AllPeers
  Idle = idle
  Boot = boot
  Queue = {}
  Defunct = Defunct
  Wild = Wild
  Static = {idle}
  init_tick = 2
  LockMax = 2
  StaleMask = {{}}
  Unguarded = {}
SPECIFICATION Spec
SYMMETRY Peers
INVARIANTS
  ReadyLists
  ClosedNeverRuns
PROPERTIES
  HighestRuns
  NoOvertaking
