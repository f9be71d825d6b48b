CONSTANTS
  a = a
  b = b
  c = c
  idle = idle
  Thread <- MCThread
  PriorityMax = 3
  init_priority <- MCLevels
  Idle = idle
  mp = mp
  Queue = {mp}
  Defunct = Defunct
  Wild = Wild
  Block = {x, y}
  CountMax = 2
  MpTimes = {"no", "ticks", "forever"}
  MpCalls = {"delete"}
  User = {b, c}
  NoCall = NoCall
  mem_size = 13
  Header = 2
  MinSize = 2
  Sizes = {2, 3, 6}
SPECIFICATION MemorySpec
SYMMETRY Peers
VIEW LiveState
INVARIANTS
  BlocksConserved
  MpNoLostWakeup
  BlocksAreHeld
  HeapIsTidy
\* All threads may wait for ever.
CHECK_DEADLOCK FALSE
