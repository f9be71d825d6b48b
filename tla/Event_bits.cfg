CONSTANTS
  a = a
  b = b
  idle = idle
  Thread <- MCThread
  PriorityMax = 2
  init_priority <- MCLevels
  Idle = idle
  event = event
  Queue = {event}
  Defunct = Defunct
  Wild = Wild
  event_flag = "fifo"
  e1 = e1
  e2 = e2
  Bit = {e1, e2}
  Options <- MCOptions
  EvTimes = {"no", "ticks", "forever"}
  EvCalls = {"reset", "delete"}
SPECIFICATION EvSpec
SYMMETRY PeersAndBits
INVARIANTS
  NoMissedEvent
  BitsAreDelivered
\* All threads may wait for ever.
CHECK_DEADLOCK FALSE
