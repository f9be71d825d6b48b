CONSTANTS
  a = a
  b = b
  c = c
  idle = idle
  Thread <- MCThread
  PriorityMax = 3
  init_priority <- MCLevels
  Idle = idle
  Queue = {mb, senders, mq, completion, push_list, pop_list, read_list, write_list}
  Defunct = Defunct
  Wild = Wild
  x = x
  y = y
  mb = mb
  senders = senders
  mb_flag = "prio"
  size = 2
  Mail = {x, y}
  Nil = Nil
  Times = {"no", "ticks"}
  Calls = {"reset", "detach"}
  mq = mq
  mq_flag = "prio"
  Msg = {m1, m2}
  Null = Null
  Letter = {x, y}
  NoLetter = NoLetter
  MqTimes = {"no", "ticks"}
  MqCalls = {"reset", "detach"}
  completion = completion
  Waiter = a
  DoneTimes = {"no", "forever"}
  push_list = push_list
  pop_list = pop_list
  dq_size = 4
  lwm = 2
  IndexBits = 3
  IndexBound = 6
  Item = {x, y}
  NoItem = NoItem
  Pusher = {a}
  PushTimes = {"forever"}
  PopTimes = {"no", "ticks", "forever"}
  read_list = read_list
  write_list = write_list
  buffer_size = 2
  Byte = {x, y}
  NoByte = NoByte
  PipeFlags <- MCFlags
  Sizes = {1, 2}
SPECIFICATION QueuesSpec
SYMMETRY Symmetry
VIEW LiveState
INVARIANTS
  NobodySleepsInVain
  NoStandstill
  MessagesConserved
  DoneIsReported
PROPERTIES
  ImplementsBoundedFifo
  ImplementsUrgentQueue
  DqImplementsFifo
  ImplementsByteStream
\* All threads may wait for ever.
CHECK_DEADLOCK FALSE
