CONSTANTS
  a = a
  c = c
  boot = boot
  idle = idle
  Thread <- ThreeThreads
  PriorityMax = 3
  init_priority <- TwoAbove
  Idle = idle
  Boot = boot
  Queue = {}
  Defunct = Defunct
  Wild = Wild
  Static = {idle}
  init_tick = 1
  LockMax = 0
  StaleMask = {{}}
  Unguarded = {"resume_sleeping"}
SPECIFICATION Spec
SYMMETRY Upper
INVARIANTS
  SelectsThread
