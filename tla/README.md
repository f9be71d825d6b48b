# RT-Thread 1.2.1 on the STM32F107 board: TLA+ models, checks and proofs

The repository holds the RT-Thread real-time kernel (`src/RT-THREAD`), the board's
application (`src/STM32F107Board`) and example projects (`src/RTTexamples`).  The
program's own logic that is worth verifying is the kernel: `RT-THREAD/src/*.c`, its
headers, the driver framework (`components/drivers`), the board's UART and Ethernet
drivers, and the device file system (`components/dfs`).  The configuration is the one of
`STM32F107Board/rtconfig.h`: 32 priorities, semaphores, mutexes, events, mailboxes, message
queues, memory pools and the small-memory heap.

In the text below `scheduler.c`, `ipc.c`, ... are files of `src/RT-THREAD/src`.

## 1. Inventory

| component | state | operations | what makes it correct |
|---|---|---|---|
| lists (`include/rtservice.h`) | doubly linked nodes | insert before/after, remove | a node is in one list, once |
| scheduler (`scheduler.c`) | ready lists per priority, bitmap `rt_thread_ready_priority_group`, `rt_current_thread`, `rt_scheduler_lock_nest` | `rt_schedule`, insert, remove, enter/exit critical | the bitmap names the non-empty lists; every change of them comes to a reschedule that gives a thread of the highest ready priority the CPU |
| threads (`thread.c`) | `stat`, priorities, `number_mask`, `error`, `thread_timer`, `tlist` of each | startup, resume, suspend, sleep, yield, control, delete/detach, exit, timeout | stat, list and timer of a thread agree; a closed thread never runs |
| clock (`clock.c`) | `rt_tick`, `remaining_tick` | `rt_tick_increase` | peers take turns, timers are looked at on every tick |
| idle thread (`idle.c`) | `rt_thread_defunct` | `rt_thread_idle_excute` | what is dead is freed, and nothing else |
| timers (`timer.c`) | list by `timeout_tick`, flags | init, start, stop, control, detach, check | the list is in the order of the times across the wrap of the tick; nothing fires early or is left; a started timer is listed and active |
| semaphore (`ipc.c`) | `value`, wait list | take, trytake, release, reset, delete | permits are conserved; none is idle while a thread waits |
| mutex (`ipc.c`) | `value`, `owner`, `hold`, `original_priority`, wait list | take, release, delete | exclusion, recursion, inheritance and its end |
| event (`ipc.c`) | set of bits, wait list with each waiter's condition | send, recv, reset, delete | nobody whose condition holds goes on waiting |
| mailbox (`ipc.c`) | ring of words, two wait lists | send, send_wait, recv, reset, delete | FIFO order, no message lost or doubled |
| message queue (`ipc.c`) | free list, message list, wait list | send, urgent, recv, reset, delete | as above with urgent messages first, and buffers are conserved |
| memory pool (`mempool.c`) | chain of free blocks, counts, wait list | alloc, free, delete | blocks are conserved, no wakeup is lost |
| heap (`mem.c`) | chain of block headers, `lfree`, `used_mem` | malloc, realloc, free | a block is its user's alone and large enough, neighbours are merged, `lfree` is the lowest free block |
| completion (`components/drivers/src`) | flag, one waiting thread | wait, done | what is done is reported once |
| data queue (same) | ring of buffers, low water mark, two wait lists | push, pop, peak, reset | FIFO order, nobody stranded at the mark |
| pipe and its ring buffer (same) | bytes, indices with mirror bits, two wait lists | read, write, blocking or not | a byte stream; readers and writers never sleep all at once |
| work queue (same) | list of works, its thread | submit, cancel | a submitted work is done |
| objects and devices (`object.c`, `device.c`) | containers of names, open counts | init/detach, open/close | a device is open as often as it is used |
| UART driver (`STM32F107Board/drivers/serial.c`) and shell (`finsh/shell.c`) | receive ring, list and pool of data nodes, DMA channel, the shell's semaphore | write, read, receive interrupt, DMA interrupt | bytes in order, of too many the oldest are lost; neither direction stops with something to do |
| Ethernet driver (`stm32_eth.c`) and interface threads (`netif/ethernetif.c`) | descriptor rings, semaphores, mailboxes, link flags | interrupt, send, receive, link change, the threads erx and etx | a packet is copied to a free buffer while its sender waits; no frame and no change of the link stays behind |
| serial framework (`components/drivers/serial/serial.c`) | structures per direction, data queue, `activated`, completion | open, close, write by DMA or interrupt, the handler's events | what is in use is allocated; one transfer at a time, and one while there are data |
| device file system: descriptors (`dfs.c`, `dfs_file.c`, `dfs_posix.c`) | `fd_table` with reference counts | open, close, read and the like, opendir, closedir, unlink | counts are exact through every failure; an entry in use is given to nobody else |
| device file system: mounts (`dfs_fs.c`, `elmfat/dfs_elm.c`) | `filesystem_table`, volumes, open devices | mount, unmount, mkfs | table, volumes and devices agree through every failure |

**How they interact.**  There is one CPU and one thread control block record that
everybody writes.  An IPC object links the calling thread's `tlist` node into its own
wait list and calls `rt_thread_suspend`; the object's other operations, and the
thread's timer in the clock interrupt, call `rt_thread_resume` or `rt_thread_timeout`,
which unlink the node from whatever list it is in.  `rt_schedule` picks the next
thread.  The only protection is `rt_hw_interrupt_disable` around critical sections;
several functions are more than one section.  Drivers add the hardware as an actor: a DMA
engine owns descriptors and buffers, an interrupt handler hands out permits and mails, and
threads talk to it through the IPC objects.  The file system is used by threads under one
lock, which it gives back before it calls a file system or a device.

**What is hard.**  An interrupt (and with it a switch to another thread) between any
two critical sections; the timeout of a waiter that races with its being woken; an
operation by an interrupt handler on a thread that is in the middle of a call; the
bitmap, the lists, `stat` and the timer, four copies of one fact; a wait list
that is tested and then used; priority inheritance that is recorded, applied and undone
by different calls; counts that are kept beside lists; one interrupt that stands for several
frames or bytes; a flag that a thread and a handler test and set in turn; a call that fails
half way with an entry, a volume or an open device in hand.  `PROJECT.json` lists each of
these under "hazards" at its line.

## 2. The modules

```
RtList            lists as sequences of nodes
  Timer           rt_timer_list, the tick, rt_timer_check
  Kernel          the kernel record and the C functions that change it
    Scheduler     threads, scheduler, idle thread, clock and device interrupts
    Ipc           wait lists, and the CPU the callers of IPC objects run on
      Semaphore     implements CountingSemaphore
      Mutex
      MemPool
      Event
      Mailbox       implements BoundedFifo
      MessageQueue  implements UrgentQueue
      Completion
      DataQueue     implements BoundedFifo
      Pipe          with RingBuffer; implements ByteStream
        Queues      Mailbox to Pipe, each on its own
SmallMem          the heap
Uart              implements LossyFifo
Ethernet
Serial
FileTable
DfsMount
KernelProofs      lists and kernel functions
  IpcProofs       wait lists and the CPU
    SemaphoreProofs   Semaphore, Event
    MutexProofs
    QueueProofs   MemPool, Queues
  SchedulerProofs
  TimerProofs     Timer, SmallMem
DeviceProofs      Uart, Ethernet, Serial, FileTable, DfsMount
MCScheduler, MCSemaphore, MCMutex, MCEvent, MCTimer, MCMemPool   instances for TLC
MCQueues   an instance of Queues         MCMemory   MemPool and SmallMem
MCDevices  Uart to DfsMount
```

* **RtList**: a list is the sequence of its nodes from `head->next` on.
* **Kernel**: the kernel's data are one record `k` (`stat`, `current_priority`,
  `number_mask` and `ready_group` as sets of bits, `error`, `timer`, `list`,
  `current_thread`, `lock_nest`).  An operator is one C function, or one critical
  section of it: record in, record out.  A function that calls others is their
  composition, so all state changes of a call are in the action that makes it.  What C
  would read behind the head of an empty list is `Wild`, which is no thread.
* **Scheduler**: actions are the code between two points with interrupts enabled; `pc`
  says which of these points a preempted thread has reached (`rt_thread_resume` has
  three sections, `rt_thread_delete` four).  The clock interrupt, the timers that fire
  in it, and a device interrupt that resumes a thread come between any two steps.
  Threads are created before the first step, with `RT_THREAD_INIT`.  `Busy`
  keeps the application from making two calls about one thread at the same time; the
  constant `Unguarded` names three further uses the code does not protect.
  `rt_thread_control` and `rt_thread_resume` return without `rt_schedule`, `rt_thread_startup` calls
  it; the application may call it at any time (`Schedule`).
* **Ipc**: `Wait` is what every taking function does, `ResumeAllTest`/`ResumeAllTurn`
  are the loop of `rt_ipc_list_resume_all`.  Threads are started at any time,
  sleep between two calls, lose the CPU at the end of a slice, and time out.
* **Semaphore**: `rt_sem_take` is `TakeNow`, or `TakeWait`, `TakeSchedule`,
  `TakeReturn`; `rt_sem_release` is `Release` and `Reschedule`, or `IsrRelease` in a
  handler; reset and delete are loops with a step per waiter.  The
  ghost variables `held` and `supply` count the permits.
* **CountingSemaphore**: what a semaphore promises: a number, the threads that wait and
  those that have been granted or refused.  A grant goes to a waiter only when no permit
  is free, a permit is free only when nobody waits.
* **Mutex**: ownership, recursion, inheritance (`Boost` at the take, `Restored` at the
  last release), handover to the first waiter.  The ghost `inside` counts the takes a thread
  has returned from.  A last release that finds nobody waiting changes the priority and calls no
  `rt_schedule`, as in the code.
* **MemPool**: `rt_mp_alloc` loops: a thread that is woken must take its block itself and
  waits again with the rest of its time.  `suspend_thread_count` is modelled beside the
  list, as in the code.
* **Event**: `rt_event_recv` with AND, OR and CLEAR; `Answered` is the loop in which
  `rt_event_send` goes over the waiters, a recursive function of the turns with one `Answer` each, with
  the bits a clearing waiter took gone for the next one.  The ghost `raised` counts, per bit, how often it was
  raised less how often it was cleared by a receiver; `seen` collects what was set during a wait.
* **Mailbox**: the ring with its offsets and count, a list of waiting receivers and one of
  waiting senders.  `TrySend` and `TryRecv` are the critical section of `rt_mb_send_wait` and
  `rt_mb_recv`, which both calls enter again after each wait (`CallRetries`) with what is left of
  the time.  After a detach, threads that had been woken before go on with the object, as
  in the code; with `rt_mb_delete`, which frees the memory as well, the application must not let
  this happen, and the model does not say what they would find.
* **BoundedFifo**: what a mailbox and a data queue promise: each item delivered once, in
  order, never more than fit.
* **MessageQueue**: messages are linked by `next` in a free list and in a list with head, tail
  and count, as in the code.  A send takes a free message in one critical section
  (`MqSendTake`), copies, and links it in a second one (`MqSend`, `MqUrgent`); a receive
  does the reverse (`MqTryRecv`, `MqRecvDone`).  In between the message is in neither list and
  in the hands of one thread (`msg`).  Reset runs through waiters and messages with interrupts
  disabled.
* **UrgentQueue**: what a message queue promises: urgent letters before the others, the others in
  order, and a letter that is taken stays what it was while it is copied.
* **Timer**: the hard timers.  `rt_timer_start` is three steps (`StartFirst`, `StartTick`,
  `StartLink`), `rt_timer_stop` three (`StopTest`, `StopRemove`, `StopClear`); the clock
  interrupt, `Tick`, `CheckTurn` for each timer that is due and `CheckEnd`, comes between any two.
  `TimeoutFunction` is what a timeout function may do: stop or start its own timer or one
  that no thread uses.  Ticks have `Width` bits.  The ghost `left` is the time a timer still has to
  wait, as an integer that does not wrap, and `running` the order of the starts.  The list has one
  level, as `RT_TIMER_SKIP_LIST_LEVEL` is 1 here.
* **Completion**: `rt_completion_done` tests the flag (`DoneTest`) before its critical section
  (`DoneSection`).  The ghost `owed` says that a done was called that no wait has reported.
* **DataQueue**: `TryPush` and `TryPop` are the loops of the two calls, which a woken
  thread enters again with its whole time.  A pop wakes a pusher only when it reaches the low water mark.
* **RingBuffer, Pipe, ByteStream**: put and get with their mirror bits as operators on a record, read and
  write on top of them.  The helpers that resume the other side call `rt_schedule` with
  interrupts disabled; the switch is part of the step.
* **SmallMem**: the chain of headers as a function from addresses to headers, in units
  of `RT_ALIGN_SIZE`.  What the code does between `rt_sem_take(&heap_sem)` and
  `rt_sem_release` is one step; `rt_realloc` that moves a block is three (`ReallocMoves`,
  `ReallocCopies`, `ReallocFrees`) with other users' calls between them.
* **Uart**: the receive ring with `read_index`, which the handler moves as well when it overtakes the
  reader; `Receive` is one turn of the handler's loop and `ReceiveEnd` the callback of the shell, one
  permit for all turns.  `ShellRead` is a turn of the shell's inner loop, which ends at an empty buffer or
  at the end of a line, `ShellReadNext` the second read after `'\r'`; the ghost `left` says why the shell
  has left the loop and whether more has come since.  A write by DMA waits for a node of the pool (`WriteAlloc`) and links it in a
  critical section (`WriteLink`), which starts the channel if the list was empty; `DmaTxIsr` goes on
  with the next node.  A buffer that is on the list is not written again.
* **LossyFifo**: what the receive ring promises: bytes in order, of too many the oldest are lost.
* **Ethernet**: `LinkOutput` leaves a message on the sender's stack in the mailbox of etx and waits;
  `TxRecv`, `TxTake`, `TxFill`, `TxOwn`, `TxAck` are the thread etx, `RxRecv`, `RxLink`, `RxFrame` and
  `RxEmpty` the thread erx.  `DmaSent` and `DmaReceived` give descriptors back at any time, also between
  `Irq`, which reads the status and acts, and `IrqClear`, which clears the bits that were read.
* **Serial**: opening and closing in the modes of one instance, `serial_rx` and `serial_tx` as names of the
  four structures.  An open tests `serial_rx` (`SerialOpen`), stores it (`StoreRx`) after an `rt_malloc` that may
  block, does the same for `serial_tx` (`TestTx`, `StoreTx`) and is counted at the end (`CountOpen`); a close
  is uncounted first (`SerialClose`), and the last one frees and clears each pointer (`FreeRx`, `ClearRx`,
  `FreeTx`, `ClearTx`) and then `open_flag` (`SerialClosed`).  Writers, handlers and other users come between
  any two of these steps.  The last close is made when everything has been sent (`Quiet`).  By DMA a writer pushes, tests `activated` and transmits in three steps (`Push`,
  `Activate`, `Transmit`) against `TxDmaDone`; by interrupt it loops over `Putc` and `Wait` against
  `TxDone`.  The ghost `skipped` holds data that left the queue unsent, `heap` the structures that are allocated.
* **FileTable**: what `dfs_lock` protects is one step.  `open` is six steps that fail at two places, `close`
  four; `OpenFails` and `CloseFree` release the first of two references, `LastPut` the second.
* **DfsMount**: `dfs_mount` enters the path (`DfsMount`), opens the device (`MountOpen`), takes a volume
  (`GetDisk`, `ElmSave`, `ElmMount`), or undoes what it did (`MountFails`, `MountClear`); `dfs_unmount` and
  `dfs_mkfs` come in between.
* **Queues**, **MCMemory** and **MCDevices** put several objects in one specification: the initial state chooses
  which object the behaviour is about, and the others do not move.

A name in the code is kept where TLA+ has the same notion (`rt_schedule`,
`rt_thread_resume`, ...).  Operators whose comment starts with "Faulty variant" take
part in no run of the table below: they are mistakes put in place of the correct
definition, to see that the properties notice them.

### Abstraction

Stacks, names, hooks, debugging output and the register switch are left out.
`rt_schedule` sets `rt_current_thread` and the thread that is current takes the next
step; on this processor the switch happens at the end of the interrupt or of the call,
before any other code runs.  A handler is one step: interrupts of higher priority do
not touch the kernel while one of its critical sections runs.  A waiting time is a number
of ticks that may pass at any moment (`"ticks"`), never (`"forever"`), or zero (`"no"`);
that it passes in the order of the ticks is what **Timer** is about.  `Timer` does not
know threads beyond the owner of a timer and what call it is in, and takes an interrupted
thread to go on within `Lag` ticks.

The modules of drivers and file system take the IPC objects they use for what those objects' own
modules show (a semaphore as a number, a mailbox as a queue) and interleave threads in any order,
whatever their priorities; only a running handler holds threads up.  Data are what the properties
tell apart: a buffer is its writer, a packet its sender, a file its name.

## 3. Runs

| run | question | bounds |
|---|---|---|
| `Scheduler_levels` | Do lists, bitmap, `stat` and timers agree whatever interleaves, and does every step keep the highest thread on the CPU that does not leave this to its caller?  (`ReadyLists`, `HighestRuns`, `ClosedNeverRuns`, `NoOvertaking`) | two threads and the idle thread, 3 priorities, slices of 2 ticks, lock nesting 2 |
| `Scheduler_live` | Do peers take turns, and are dead threads freed?  (`RoundRobin`, `DeadAreFreed`) | as above, 2 priorities, slices of 1 tick |
| `Scheduler_race` | violation of `SelectsThread`: an `rt_thread_resume` of a thread in `rt_thread_delay` whose timeout comes after the test of `stat` | three threads, 3 priorities |
| `Semaphore_timed` | Are permits conserved, never idle, and is the semaphore the abstract one, with timeouts and resets? | three threads on two levels and the idle thread, up to 3 permits |
| `Semaphore_fifo` | Does a FIFO semaphore starve nobody (`FifoStarvesNobody`), also when it is deleted? | three peers, up to 1 permit |
| `Mutex_prio` | Exclusion, owners, inheritance and its end, with recursion, timeouts and deletion; does every step keep the highest thread on the CPU?  (`RightThreadRuns` is `OwnerInherits` and the step of `HighestRuns`, which excepts a turn of the deletion's loop and a last release that finds nobody waiting and lowers its own thread, section 5) | three priorities above the idle thread, two nested takes |
| `Mutex_nested` | violation of `PriorityRestored`: two mutexes released in the order they were taken | two mutexes |
| `Memory_blocks` | pool: are blocks and wakeups conserved, is every waiter counted?  heap: is each block one user's (`BlocksAreHeld`), are chain and `lfree` right (`HeapIsTidy`)? | three threads, two blocks, `suspend_thread_count` up to 2; two users, a heap of 13 units, headers of 2, requests of 2, 3 and 6 |
| `Event_bits` | Does a send wake everybody it satisfies, is each bit cleared by one receiver, and was what is received sent (`BitsAreDelivered`)? | two threads, two bits, all four conditions; sends also by interrupts |
| `Queues_data` | Does anybody sleep for what is there (`NobodySleepsInVain`: mails and places, messages, items and the mark)?  Do readers and writers of a pipe never sleep all at once over bytes or room (`NoStandstill`)?  Is the mailbox a bounded FIFO (`ImplementsBoundedFifo`), the message queue the same with urgent messages and with messages in nobody's list (`ImplementsUrgentQueue`, `MessagesConserved`), the data queue a FIFO (`DqImplementsFifo`), the pipe a byte stream (`ImplementsByteStream`)?  Is each done reported once (`DoneIsReported`)? | three threads on two levels and interrupts; mail ring of two, two messages, data queue of four with mark two and six pushes, ring buffer of two with moves of one or two bytes |
| `Timer_wrap` | Is the list in the order of the real times, is nothing early or late, is a started timer listed and active? | two threads and the timeout functions with a timer each, ticks of 3 bits, times of 1 and 2, a lag of 1 |
| `Devices_io` | UART: does the line go on in both directions (`LineGoesOn`, but for what stands behind the end of a line), are bytes in order (`BytesInOrder`)?  Ethernet: is a packet copied only while its sender waits and to a free buffer (`PacketsAreSafe`), does a frame or a change of the link stay behind (`NothingLeftBehind`)?  Serial framework: do writers, handlers and a user that opens and closes agree (`SendingIsConsistent`)?  Descriptors and mounts: are counts, entries, paths, devices and volumes right through every failure (`DescriptorsConsistent`, `MountsConsistent`)?  Is what waits served (`CallsReturn`)? | receive ring of three, bytes of three kinds, two writers for two data nodes; one sender, two descriptors each way, mailboxes of one; two serial writers, three data, queue of two, one user with two opens; three threads on two descriptors and two files; two threads that mount two devices on two paths with two volumes |

Why the bounds are enough for what they show: the kernel functions act on one thread at a
time, next to the first of another list, so that the cases are a list of none, one and two
threads, a preemption of one call by another and by an interrupt.  Three threads beside
the idle thread give a running thread, one in the middle of a call and a waiter; two or three
priorities give higher, equal and lower.  `SupplyMax` = 3 gives each thread a permit;
`ValueLimit` stands for 2^16 and is not reached, so the wrap of `value` is in the model and
outside the runs.  `HoldMax` = 2 is the smallest bound with recursion.  `CountMax` bounds a
count that timeouts only raise; a thread that would raise it further is not allowed to wait.
An event needs two waiters, so that the first can take what the second waits for, and
an interrupt that sends; two bits make AND, OR and a partial OR different.  A ring of two
wraps and has a state that is neither empty nor full; its three threads can all be senders or
all receivers, one waiting, one woken, one overtaking it.  Two messages make every list of the
message queue empty, single and longer, with one message in a thread's hands.  The data queue
has states full, above, at and below its mark, and empty.  A ring buffer of two with moves of one and two
reaches its end exactly and with a remainder, and is full by one move or by two.  A heap of 13 units holds up to three
blocks with free ones before, between and behind them, splits and near fits.  Ticks of 3 bits wrap
after 8 ticks, several times the longest life of a timer; the tick starts anywhere.
Three timers are the least with a place in the middle of the list.  A receive ring of three holds two bytes and
overwrites the third; `SignalMax` bounds the value of the shell's semaphore, which only counts bursts.  The three bytes are an ordinary
one, `'\n'` and `'\r'`; `'\0'` is as `'\n'` behind `'\r'` and ordinary elsewhere, so that `NUL = lf` adds nothing to a line that it
would not end.  Two descriptors
are the least with one in the hands of the DMA and one with the driver, and with two frames for one
interrupt; a mailbox of one overflows.  Of three data for a queue of two one is always being sent, written or
refused.  Three threads make one open, one use and one close of the same entry, and with two entries a
descriptor that was closed is taken again while others are still in their calls.

The type invariants (`TypeOK`, `HeapTypeOK`, `MqTypeOK`, ...) state the variables' types; no run
lists them.  `SemaphoreTypeCorrect`, `MutexTypes`, `EventInvariance` and `HeapTypeInvariance` prove
those of Semaphore, Mutex, Event and SmallMem, and each inductive invariant of section 4 contains the types
of its module.

Symmetry is used between threads of one priority (in `Scheduler_levels` between boot and the thread it
starts, of which only the initial state tells which is which), between bits, mails, letters, bytes and messages, in runs
without a liveness property; in `Queues_data` only one message is the head of the first free list when the
behaviour is about another object, which keeps those objects' states one each.
`VIEW LiveState` in `Queues_data`, `Memory_blocks` and `Timer_wrap` hides what no action and no property reads: the
contents of places, messages and bytes that are free, which are written before they are read, what the last
call returned (`ImplementsBoundedFifo` and its like look at it in the step that sets it), the
error of a thread outside of a wait and the time left in its call outside of the loop of `rt_mp_alloc`, which
are written when a wait or the call begins, and the `timeout_tick` of a timer that is not started.
Two states with one view have the same successors up to what the view hides.

`CHECK_DEADLOCK FALSE` is set for the IPC objects: all their threads may wait for ever
for something nobody gives.  In `Devices_io` a failed assertion stops the serial framework.

**Fairness.**  `Scheduler` assumes what the machine does: the clock ticks and its handler
ends (weak fairness), and a thread in a kernel call or in the idle loop, which is current again
and again, makes its next step (strong fairness, since an interrupt or a preemption disables
it in between).  Nothing is assumed of the application, so `RoundRobin` excepts threads below a
ready priority, which may well be starved, a thread whose own priority is set again and again, each time
to the end of its list, and the time in which a raised thread waits for the next `rt_schedule`.  `Semaphore` adds `[]<><<Release>>_vars`:
that permits go on being released is the application's part, and the only thing under which
it makes sense to ask whether one of the waiters is always passed over.  Fairness of a waiter itself is
not needed: it is taken off the list by others.  `MCDevices` assumes that handlers end and the hardware
finishes what it has begun (weak fairness), that a pending interrupt is taken some time between two
handlers of another, and that etx and a thread in a call get the processor some time although they
can go on only from time to time (strong fairness: a handler or another writer disables them in
between).  Each of its conditions joins steps of several objects; a behaviour is about one object, for which
the condition is the one on that object's step.  Nothing is assumed of who begins a call.

## 4. What is proved

The theorems hold for any finite or infinite set of threads, any number of priorities, any sizes, flags,
waiting times, calls and bounds that satisfy the assumptions named in the modules
(`PriorityMaxIsPositive`, `InitPriorityType`, `IdleIsLowestThread`, `HeadsAreDistinct`, `WildIsNoThread`,
and the one on each module's own constants).  Where a theorem assumes more, the table below gives the
assumption and the reason; each such assumption excludes a behaviour of the code that section 5
describes.

| theorems | property | assumed beyond the module's constants |
|---|---|---|
| `SemaphoreInvariant`, `SemaphoreTypeCorrect`, `SemaphoreKeepsKernel`, `SemaphoreNoIdlePermit`, `SemaphoreTakersAccounted`, `SemaphoreRefinement`, `SemaphoreConserves` | kernel lists, `NoIdlePermit`, `TakersAccounted`, `ImplementsCountingSemaphore`, `PermitsConserved` | |
| `SemaphoreDeletes` | `DeletedHasNoWaiter`, in no run | `"ticks" \notin Times`: a timeout may empty the list between the test and the turn of `rt_ipc_list_resume_all` |
| `EventInvariance`, `EventMissesNobody`, `EventDelivers` | `NoMissedEvent`, `BitsAreDelivered` | |
| `MutexInvariance`, `MutexExcludes`, `MutexTypes`, `MutexHighestRuns` | `MutualExclusion`, `HighestRuns` | |
| `MutexRestores` | `PriorityRestored` | `~Nested`: one mutex at a time, the run `Mutex_nested` is the other case |
| `MutexRightThreadRuns` | `RightThreadRuns` | `~Nested`, `mutex_flag = "prio"`: a FIFO mutex goes to a thread that does not inherit from those behind it |
| `SchedulerInvariance`, `SchedulerReadyLists`, `SchedulerHighestRuns`, `SchedulerClosedNeverRuns`, `SchedulerNoOvertaking` | `ReadyLists`, `HighestRuns`, `ClosedNeverRuns`, `NoOvertaking` | `Unguarded = {}`: none of the three uses the code does not protect |
| `TimerInvariance`, `TimerListInOrder`, `TimerRunningAreListed`, `TimerOnTime` | `ListInOrder`, `RunningAreListed`, `OnTime` | `~RestartsOneShot`: the flag of a one-shot timer is cleared after its timeout function |
| `HeapTypeInvariance`, `HeapKeepsBlocks`, `HeapStaysTidy` | `HeapTypeOK`, `BlocksAreHeld`, `HeapIsTidy` | |
| `PoolInvariance`, `MemPoolBlocks`, `MemPoolNoLostWakeup` | `BlocksConserved`, `MpNoLostWakeup` | |
| `MailboxRefinement`, `MailboxNoLostWakeup` | `ImplementsBoundedFifo`, `NoLostWakeup` | |
| `MessageQueueConserves`, `MessageQueueRefinement`, `MessageQueueNoLostWakeup` | `MessagesConserved`, `ImplementsUrgentQueue`, `MqNoLostWakeup` | |
| `DataQueueRefinement` | `DqImplementsFifo` | |
| `DataQueueStrandsNobody` | `NobodyStranded` | `OnePusher`: one thread pushes, and waits for ever, since one pusher is woken per mark |
| `PipeRefinement`, `PipeNeverStandsStill` | `ImplementsByteStream`, `NoStandstill` | |
| `QueuesNobodySleepsInVain` | `NobodySleepsInVain` | `OnePusher` |
| `CompletionNeverOversleeps` | no sleep on what is done | |
| `CompletionReports` | `DoneIsReported` | `"ticks" \notin DoneTimes`: a wait that times out may clear a flag it does not report |
| `UartLineGoesOn`, `UartReceives` | `LineGoesOn`, `BytesInOrder` | |
| `EthernetPacketsSafe`, `EthernetNothingLeft` | `PacketsAreSafe`, `NothingLeftBehind` | `OneSender`: all senders share `tx_ack`; the one sender is the thread of the TCP/IP stack |
| `SerialSendingIsConsistent` | `SendingIsConsistent` | `ModesFit`: modes for which `rt_serial_close` frees the structure it should; `OneUser`: no two opens or closes overlap; `~LateTx`: what opens the open device for sending first has been opened for sending |
| `MountsAgree` | `MountsConsistent` | `~Relative`, `~Overlap`, `LargeSectors = {}` |
| `UnmountsFindFat` | `UnmountFindsFat` | `~Early`, `~Overlap`, `LargeSectors = {}` |
| `DescriptorsExact` | three parts of `DescriptorsConsistent` | |
| `DescriptorsRight` | `DescriptorsConsistent` | `~FullPath` |

### The arguments

* **KernelProofs**: first what an insertion and a removal do to a list without repetitions: to the set of
  its nodes and to their order.  Then `KernelInv(k, off)`, the inductive invariant of the kernel record: no
  repetitions, lists disjoint, a thread is in the ready list of its priority exactly if it is
  ready (but for the threads `off` that a call has taken out), the bitmap is exact, `number_mask` is the
  bit of `current_priority`, waiters and threads with a running timer are suspended, the idle thread is
  ready.  None of the conjuncts is inductive alone: the bitmap stays exact because the mask is the
  priority's, the lists stay disjoint because only a suspended thread is inserted, and `rt_schedule` finds
  a thread because the idle thread is ready.  One lemma per kernel function says that
  it keeps the invariant and what else it does.
* **IpcProofs**: `CpuInv` adds that the CPU is with a ready thread, or with one that has
  just suspended itself and is about to call `rt_schedule`.
* **SchedulerProofs**: `SchedInv` is `KernelInv` for the threads that `rt_thread_delete` or
  `rt_thread_exit` has closed, with `CallsFit` (at each preemption point of a call, what its sections have
  already done), `CallsApart` (two calls do not work on one thread, which is what `Busy` is for) and
  `CpuFits`.  Who has the CPU is not part of it, since `rt_thread_control` and `rt_thread_resume` may leave a
  higher thread ready: `HighestRuns` is an action property, and each lemma about a step has `HighestKept` beside the
  invariant, but for those two.  A preempted call goes on with what it found before, so without `CallsFit`
  the third section of `rt_thread_resume` would insert a thread that is already ready.
  `NoOvertaking` is an action property too: each kernel function is shown to keep the order of the threads
  that stay in a list, and `rt_schedule_insert_thread` to put a thread behind them.
* **SemaphoreProofs**: `SemInv` adds types, `TakersAccounted`, `NoIdlePermit`, and that
  a waiter's `error` is clear, without which a granted and a refused waiter could not be told apart.
  Every step is shown to be one of four kinds (`Quiet`, `Waits`, `Wakes`, `Returns`); each
  kind keeps `SemInv` and maps to a step of CountingSemaphore or to a stutter.  The sum in
  `PermitsConserved` is the cardinality of the set `PermitsOf(held)` of pairs of a thread and one of its
  permits (`PermitInv`), which a step changes by one element.  `DeleteInv` says that the thread in the loop of a
  deletion finds no new waiter, since the object is dead, and none that leaves by itself.
  For the event, the loop of `rt_event_send` is a function `turn` of the number of waiters looked at;
  `TurnsExist` shows that there is such a function for a list of any length, by the least length for which
  there would be none.  `LoopInv` holds after each turn: the kernel invariant with the waiters told so far
  ready (`LoopKernel`), each bit that is gone cleared for exactly one of them (`LoopBits`), and those of the
  first ones who are left not satisfied (`LoopTurns`), which lasts since a set with fewer bits satisfies no
  more (`FewerBits`).  `EvInv` is then the two properties with the types and `WaitersSee`: a waiter has a
  condition and has seen every bit that is set.
* **MutexProofs**: `MutexInv` is a disjunction per mutex: free with nobody waiting, or owned by the thread
  that is inside it or on its way out of `rt_mutex_take`, with `hold` the number of takes.  It needs
  `pc` and `error`: the mutex is handed to a thread that has not run yet.  For the priorities, `OwnersOK`
  says that an owner owns one mutex, waits for no other and has its own priority recorded there, so that the
  release gives it back; `WaitersOK` that the wait list is sorted by priorities that nobody changes
  meanwhile and that no waiter is above the owner.  `KeepsHighest` is shown of each action by itself.
* **TimerProofs**: `TimerInv` relates each timeout to the ghost `left`: `timeout_tick` is `rt_tick + left`
  up to a multiple of the tick's range (`Apart`), and `left` is between the lag of an interrupted start and
  the longest time (`InRange`).  From the two, comparing ticks as `rt_timer_start` and `rt_timer_check` do
  is comparing what is left (`LaterIsLonger`, `DueIsOver`): this is where half of the range comes in.  `FitsIn` says
  what an interrupted call for a timer has done to it, `LinksIn` that a start which has read the tick is
  late by no more than `Lag`, and `InTurn` what holds while a timeout function runs.  Of
  2^`Width` only `TickMax \in Nat` is used, which `TimerType` names.
  For the heap no walk is needed: `HeapChain` says of each header alone that `next` is the header that
  follows it and `prev` the one that leads to it, which a split, a join and a change of `used` keep
  (`SplitKeepsChain`, `JoinKeepsChain`, `MarkKeepsChain`).  `plug_holes` is entered with two free
  blocks in a row at one place at most (`PluggedBut`), keeps the used blocks and their room (`Kept`) and leaves
  none (`PlugHolesIsSound`).  Each section is then a change of the set of used blocks by one block, or of
  one block's room (`OneMore`, `OneShorter`), from which `HeldIn` follows: used blocks and what users hold
  correspond one to one.  `CallsOK` keeps the old block of a `rt_realloc` in its user's hands until its last
  section.  `used_mem` is the cardinality of the set of units of the used blocks, which are disjoint.
* **QueueProofs**: for the mailbox, `RingInv` (the offsets are `entry` apart in the ring) gives the refinement
  of BoundedFifo, with the contents of the ring as its queue; `MailboxInv` counts: as long as receivers wait
  there are at least as many woken receivers on their way as mails, and the same for senders and free
  places.  The message queue needs most: its two lists are chains of `next` in one record, so `MqListInv` says
  which sequence of messages each chain is (`Chained`), that the two sequences and the messages in the threads'
  hands are all messages, each once (`Placed`), and that `entry` is the length of the one, but during a
  reset, which empties the list before it clears the count.  A step changes the sequences at one end, and
  the refinement maps the queue to the contents along the second one; `ChainIsFound` shows that following `next`
  finds it.  `MqClaimed` counts wakeups as `MailboxInv` does.  For the data queue, `DqInv` says that the
  ring holds what its indices differ by, that a pusher waits only above the mark with `waiting_lwm` set, and that as
  long as poppers wait there are as many woken ones as items.  For the ring buffer, the indices with their mirror
  bits are positions in a ring of twice the size (`Mirrored`), from which put and get append to and cut the
  sequence of its bytes, the wrapped parts included; `PipeInv` adds that readers who wait at a full buffer, writers
  at an empty one, or both at any, have one of them awake (`Moving`), which is `NoStandstill`.
  `QueuesNobodySleepsInVain` puts mailbox, message queue and data queue together.  For the completion, `DoneInv` says that only the one waiting thread is in the list, and none while
  the flag is set; `UntimedInv`, that a thread in the wait is in the list unless it was told, since no timeout
  takes it off.  For the pool, `PoolInv` has `CountCovers`
  (`suspend_thread_count` is at least the number of waiters, though timeouts leave it too large),
  `FreeIsClaimed` (each free block has a woken thread on its way) and the classification of the
  threads in a call.
* **DeviceProofs**: `UartInv` says that without a permit, a running handler or bytes the shell was not yet to hear
  of, nothing has come since the shell left its loop, and the ring is empty unless it left at the end of a line
  (`BytesArePermitted`), and that the channel sends the head of the data list; `BufferOK` is the ring's data as a queue, from which a step of the handler is
  an arrival or an arrival with a loss.  `EthInv` counts: permits, descriptors with the DMA, the one being filled
  and the one whose interrupt is pending never exceed the ring (`OwnedInRing`), and a frame or link change
  without a mail has its interrupt to come.  `SerialInv` says who may transmit at each point of the three-step
  write (`OneTransfer`, `OneByInterrupt`), which structure each pointer names while writers and a user are in their
  calls (`PointsRight`), that a test of an open holds until its store (`UsersRight`), and that nobody sends
  without a structure (`NobodySends`).  `MountInv` says which entry, device and volume each call holds at each point, `FileInv` which
  reference; counts are cardinalities of the sets of calls that hold one.

### What is only model-checked

* Liveness: `RoundRobin`, `DeadAreFreed`, `FifoStarvesNobody` and `CallsReturn`; the prover reaches neither
  fairness nor ENABLED.
* The two properties that are violated, `SelectsThread` and `PriorityRestored` with nested mutexes.

Every other property in the table is also checked by a run, alone or as a part of another one
(`NoLostWakeup`, `MqNoLostWakeup` and `NobodyStranded` in `NobodySleepsInVain`, `HighestRuns` of the mutex in
`RightThreadRuns`); proved only are the kernel lists of the semaphore, `SemaphoreDeletes`,
`CompletionNeverOversleeps` and `UnmountsFindFat`.

## 5. Divergences between code and description

Two are shown by runs of their own and explained in `PROJECT.json`: `Scheduler_race` and
`Mutex_nested`.  The models reproduce the next ones when a constant is changed, or when the
property named is added to the run; the properties of the passing runs hold in the absence of
these uses.  Where an entry says that a property excepts something, the code does it in every run, and the
property fails without the exception.

* `Scheduler_levels` with `Unguarded = {"delete_sleeping"}`: `ReadyLists` and `ClosedNeverRuns` fail.
  `rt_thread_delete` unlinks the thread and stops its timer in two steps; the timeout in
  between puts it back.
* `Scheduler_levels` with `Unguarded = {"delete_unstarted"}` and `StaleMask <- AnyMask`:
  `ReadyLists` fails.  `rt_schedule_remove_thread` clears the bits of a
  `number_mask` that only `rt_thread_startup` sets.
* `Semaphore_fifo` with `"ticks"` in `Times` and the property `DeletedHasNoWaiter`, which holds without: it fails.  The last
  waiter times out after `rt_ipc_list_resume_all` has found the list non-empty (ipc.c:175), and
  the head of the empty list is taken for a thread.
* `HighestRuns` of the scheduler excepts the steps of `LeavesReschedule`.  `rt_thread_control`, which may raise a
  thread above the one that calls it (thread.c:476-541), and `rt_thread_resume` (thread.c:595-627) return without
  `rt_schedule`, and the higher thread is ready and not running until somebody calls it.  The comments before the two do
  not say that their caller has to.
* `RightThreadRuns` excepts the steps of `DemotesItself`.  `rt_mutex_release` puts its thread back to the original
  priority, and with nobody on the list any more, the waiter having timed out, it does not set `need_schedule`
  (ipc.c:811-851): a ready thread between the two priorities waits for the next `rt_schedule`.
* `Mutex_prio` with `mutex_flag = "fifo"`: `OwnerInherits` fails.  The mutex goes to the first
  waiter, which inherits nothing from a higher one behind it.
* `Memory_blocks` with the property `CountMatchesList`, "numbers of thread pended on this resource"
  (rtdef.h:725): a waiter that times out leaves the list and stays in `suspend_thread_count`
  (mempool.c:374), so that a later `rt_mp_free` resumes what is no thread.
* `Timer_wrap` with `RestartsOneShot = TRUE`: `RunningAreListed` fails.  A one-shot timer that its
  own timeout function starts again is in the list but no longer ACTIVATED (timer.c:535), so that
  `rt_timer_stop` refuses to stop it.
* `NoStandstill` does not say that nobody sleeps at a pipe while there is something for him, which is false.  A
  call wakes one thread of the other side (pipe.c:96, pipe.c:118): of two readers asleep, a write of two bytes
  wakes one; when that one reads a single byte, the other sleeps over the second until the next write.  Likewise of
  two writers asleep at a full pipe, a read of everything wakes one, so that "if the ringbuffer is empty, there
  won't be any writer waiting" (pipe.c:67) is not so.
* `Queues_data` with `"ticks"` in `DoneTimes`: `DoneIsReported` fails.  A `rt_completion_done` between a
  timeout and the end of the wait is cleared without having been reported (completion.c:96-102).
* `NoByteLeft` excepts what stands behind the end of a line.  The handler calls `rx_indicate` once for all the bytes it
  has found (board serial.c:350), and the shell, once it has run a command, leaves its loop (shell.c:510) and
  waits for the next permit: of a burst `a\nb` the `b` is not read before another byte comes.
* `Devices_io` with `WriteReturnsSize`, "the actually written size on successful" (device.c:311): a write
  by DMA to the board's UART returns `ptr - buffer` with a `ptr` that was never moved, which is 0 (board
  serial.c:253).
* `Devices_io` with `ReceivesAll`, "receive all of buffer" (ethernetif.c:367): `rt_stm32_eth_rx` returns
  `RT_NULL` also for a frame it drops, which ends the loop of erx (ethernetif.c:381); frames already stored
  wait for the next interrupt.  `NothingLeftBehind` leaves this case out by the ghost `gave_up`.
* `Devices_io` with `CountsFreeBuffers` (stm32_eth.c:3512): two frames sent before one interrupt is handled
  give back one permit (stm32_eth.c:3027); once all are lost no packet is sent.
* `Devices_io` with a second thread in `Sender`: `PacketsAreSafe` fails.  All senders wait for the one
  semaphore `tx_ack`, and one may take the answer of another, whose message is still in use.
* `Devices_io` with `SentBeforePopped`: `_serial_dma_tx` pushes and then tests `activated` in a later critical
  section (serial.c:196).  If the handler has sent the new data in between, they are sent again, and the
  end of this transfer pops what was pushed next, which is never sent.  One writer is enough.
* `Devices_io` with `MCModes == {{{"INT_RX"}}}` and `HandlerHasBuffer`: `rt_serial_close` of the receiving
  direction clears `RT_DEVICE_FLAG_INT_TX` (serial.c:358); the receive interrupt stays enabled without a
  buffer, against the assertion at serial.c:527.  Between `rt_free` and the store of NULL (serial.c:354-355) the
  handler writes to a buffer that is freed.
* `Devices_io` with `LateTx = TRUE`: `StructureInUse` fails.  `rt_serial_open` sets `open_flag` before it
  allocates and stores (serial.c:260): when the open device has no `serial_tx` yet, a writer finds the flag of the
  new open and a pointer that is NULL.
* `Devices_io` with two members in `User`: `StructureInUse` fails, and so does the property `NothingReplaced`.  Two opens
  may both find `serial_rx` NULL, since `rt_malloc` may block between the test and the store
  (serial.c:263-288), and the second replaces what the first has stored; an open may find the pointers of a
  close that has been uncounted (device.c:246) and frees them.
* `Devices_io` with `CloseFindsStructure` (assertion at serial.c:377): for a device that sends by interrupt the
  structure is looked for in `serial_rx` (serial.c:376).  Likewise `rx_dma` is freed from `serial_tx`
  (serial.c:364).
* `Devices_io` with `UnlinksNoOpenFile`, "Check whether file is already open" (dfs_file.c:254): the file is
  opened between the check and the unlink.
* `Devices_io` with `FullPath = TRUE`: `OpenFileIsFound` fails.  For a file system that takes full paths the
  stored path is the full one and the one compared is not (dfs.c:247).
* `Devices_io` with `Relative = TRUE`: `MountedOnce`, "check if the PATH is mounted" (dfs_fs.c:298), fails.  The
  path as given, not `fullpath`, is compared (dfs_fs.c:299).
* `Devices_io` with `LargeSectors = {e}`: `VolumesMatch` fails.  A mount that fails on the sector size does not
  give its volume back (dfs_elm.c:129).
* `Devices_io` with `Overlap = TRUE`: `VolumesMatch` fails.  `get_disk` finds a volume and `disk[index]` is set
  later, with no lock (dfs_elm.c:117): two mounts take the same one.
* `Devices_io` with `Early = TRUE` and `UnmountFindsFat` (assertion at dfs_elm.c:183): a path is unmounted
  while it is being mounted, with `data` still `RT_NULL`.

Others are kept out by a guard or an assumption named in the module:

* mutex: `rt_mutex_delete` wakes its waiters without a reschedule of its own, so that `KeepsHighest` excepts a
  turn of its loop.
* timer: a periodic timer of 0 ticks never lets `rt_timer_check` end (timer.c:501); the list is in order
  only while the longest time and the lag of an interrupted start together stay below half of the
  tick's range (`TimerType`); a timer that is deleted by its own timeout function is read afterwards.
* data queue: a pop that reaches the mark with `waiting_lwm` set and no thread on the push list returns
  with interrupts disabled (dataqueue.c:224-251), as after the timeout of a pusher, or a push without
  waiting into a full queue; one pusher is woken per mark, so a second one stays behind; with
  `put_index` wrapped at 2^16 the queue does not know that it is full (dataqueue.c:82).
  `Pusher` is therefore one thread that waits for ever, as in `serial.c`, and `IndexBound` keeps the
  indices from wrapping.
* UART: the handler clears RXNE once more after its loop has found it clear (board serial.c:347), which
  loses a byte that has come in between; the model has no register between line and ring.
* serial framework: several threads that send by interrupt share one completion, which keeps one waiting
  thread (`Write` lets one in at a time); a last close while data are on their way frees what writers and handlers
  still use, and `Quiet` keeps it out; with an empty queue the handler calls `tx_complete` with
  an uninitialised pointer (serial.c:584).
* file system: a close that overlaps a read frees `fd->data` under it, since only the entry is counted
  (dfs_file.c:140); `closedir` of a directory whose close fails puts the entry twice; `fd_is_open`
  compares also with the path of an entry that has none yet; a free entry of `filesystem_table` is
  looked at through `(*ops)->name` (dfs_fs.c:246); a device mounted twice is not noticed (`InUse`).
* heap: `rt_realloc` that cuts a block does not lower `lfree`, "pointer to the lowest free block"
  (mem.c:127): with `lfree` behind it what was cut off is not found until a lower block is freed.
  The ghost `shrunk` of SmallMem marks it.  The search ends before `mem_size_aligned - size`, which misses an
  exact fit at the end; a smaller `rt_realloc` that is too near to cut moves the block and may
  return `RT_NULL`; `rt_calloc` does not check its product.

## 6. Not modelled, and the plan

Not modelled for good: the register switch and the set-up of registers (hardware), `kservice.c`
(formatting), `module.c`, `memheap.c` and `slab.c` (not configured), soft timers
(`RT_USING_TIMER_SOFT` is not configured), and what other projects brought below
`RT-THREAD/components`: the TCP/IP stack, the FAT, YAFFS and other file systems themselves, GUI
and libraries.  They are most of the repository's lines and are data (fonts, code pages) or code
whose behaviour is not this system's.

Left out of components that are modelled:

* `rt_ringbuffer_put_force` and the pipes with `RT_PIPE_FLAG_FORCE_WR`: a forced put of more than is free
  flips both mirrors and leaves the buffer empty (ringbuffer.c:137-141), and it reads
  a whole buffer's length from a caller that may have less;
* `rt_data_queue_peak`, which changes nothing, and `rt_data_queue_reset`, which wakes all waiters and
  leaves indices and `waiting_lwm` as they are;
* the work queue: its thread tests the list and suspends itself without a lock (workqueue.c:15), so that
  a work submitted in between waits for the next one; a property of it holds only where nobody can
  preempt the work thread;
* what a thread finds in a mailbox, pool or queue whose memory was freed while the thread was on its way.

* of the serial framework, receiving by DMA and `rt_serial_control`; its receive ring is the one of Uart;
* of the file system, path names, `rename`, `stat` and `statfs`.

`object.c` keeps lists of names, without waiting or sharing between handlers and threads; `portal.c` is
a use of the pipe above.

What comes next, in order of importance:

1. A composition of mutex and semaphore: inheritance by a thread that waits in the sorted list of
   another object.
2. The work queue, with a work thread of the highest priority.
