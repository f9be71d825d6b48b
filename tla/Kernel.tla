------------------------------- MODULE Kernel -------------------------------
(***************************************************************************)
(* The kernel's shared data and the calls that change it: the thread       *)
(* control blocks, the ready lists with their bitmap, the wait lists of    *)
(* the IPC objects, and the scheduler (src/scheduler.c, src/thread.c, the  *)
(* list functions of src/ipc.c).                                           *)
(*                                                                         *)
(* The whole of it is one record k.  Every operator below is one C         *)
(* function, or the part of one that runs with interrupts disabled: it     *)
(* takes the record and returns the record the code leaves, so that a C    *)
(* function that calls others is the composition of their operators.  The  *)
(* modules that EXTEND this one say where interrupts are enabled between   *)
(* two of them.                                                            *)
(***************************************************************************)
EXTENDS RtList, FiniteSets

CONSTANTS Thread,         \* thread control blocks
          PriorityMax,    \* RT_THREAD_PRIORITY_MAX
          init_priority,  \* the priority each thread is created with
          Idle,           \* the idle thread
          Queue,          \* the heads of the wait lists of IPC objects
          Defunct,        \* the head rt_thread_defunct
          Wild            \* what rt_list_entry makes of an empty list's head

Prio == 0 .. PriorityMax - 1
ListHead == Prio \cup Queue \cup {Defunct}
Stat == {"init", "ready", "suspend", "close", "free"}
Error == {"ok", "timeout", "error"}

ASSUME PriorityMaxIsPositive == PriorityMax \in Nat \ {0}
ASSUME InitPriorityType      == init_priority \in [Thread -> Prio]
ASSUME IdleIsLowestThread    == /\ Idle \in Thread
                                /\ init_priority[Idle] = PriorityMax - 1
ASSUME HeadsAreDistinct      == /\ Queue \cap Prio = {}
                                /\ Defunct \notin Prio \cup Queue
ASSUME WildIsNoThread        == Wild \notin Thread

-----------------------------------------------------------------------------
(***************************************************************************)
(* The record: per thread its stat, current_priority, number_mask (as the  *)
(* set of bits that are one), error and whether its thread_timer is        *)
(* active; the lists; rt_thread_ready_priority_group as a set of bits;     *)
(* rt_current_thread; rt_scheduler_lock_nest.                              *)
(***************************************************************************)
KernelType ==
  [ stat             : [Thread -> Stat],
    current_priority : [Thread -> Prio],
    number_mask      : [Thread -> SUBSET Prio],
    error            : [Thread -> Error],
    timer            : [Thread -> BOOLEAN],
    list             : [ListHead -> Seq(Thread)],
    ready_group      : SUBSET Prio,
    current_thread   : Thread \cup {Wild},
    lock_nest        : Nat ]

\* rt_list_remove(&thread->tlist): the node leaves whatever list it is in.
Unlink(k, t) ==
  [k EXCEPT !.list = [h \in ListHead |-> rt_list_remove(k.list[h], t)]]

LinkLast(k, h, t) ==
  [k EXCEPT !.list[h] = rt_list_insert_before(@, t)]

LinkFirst(k, h, t) ==
  [k EXCEPT !.list[h] = rt_list_insert_after(@, t)]

Linked(k, t) == \E h \in ListHead : t \in ToSet(k.list[h])

\* rt_list_entry(head.next, struct rt_thread, tlist).
FirstThread(k, h) == IF rt_list_isempty(k.list[h]) THEN Wild ELSE k.list[h][1]

-----------------------------------------------------------------------------
(* src/scheduler.c *)

\* rt_schedule: with the scheduler unlocked, the first thread of the ready
\* list that the lowest bit of the group names becomes the current thread.
\* __rt_ffs of an empty group gives an index outside the table.
HighestReady(k) ==
  IF k.ready_group = {} THEN Wild
  ELSE FirstThread(k, CHOOSE p \in k.ready_group :
                         \A q \in k.ready_group : p <= q)

rt_schedule(k) ==
  IF k.lock_nest = 0 THEN [k EXCEPT !.current_thread = HighestReady(k)] ELSE k

rt_schedule_insert_thread(k, t) ==
  [LinkLast(k, k.current_priority[t], t) EXCEPT
     !.stat[t]     = "ready",
     !.ready_group = @ \cup k.number_mask[t]]

rt_schedule_remove_thread(k, t) ==
  LET u == Unlink(k, t)
  IN  IF rt_list_isempty(u.list[k.current_priority[t]])
      THEN [u EXCEPT !.ready_group = @ \ k.number_mask[t]]
      ELSE u

rt_enter_critical(k) == [k EXCEPT !.lock_nest = @ + 1]

\* The decrement of rt_exit_critical, its rt_schedule is a step of its own.
ExitCriticalSection(k) ==
  [k EXCEPT !.lock_nest = IF @ > 0 THEN @ - 1 ELSE 0]

-----------------------------------------------------------------------------
(* src/thread.c, and the thread's timer as the thread functions use it *)

StopTimer(k, t)   == [k EXCEPT !.timer[t] = FALSE]
StartTimer(k, t)  == [k EXCEPT !.timer[t] = TRUE]
SetError(k, t, e) == [k EXCEPT !.error[t] = e]

\* rt_thread_suspend from its rt_hw_interrupt_disable on.
SuspendSection(k, t) ==
  StopTimer(rt_schedule_remove_thread([k EXCEPT !.stat[t] = "suspend"], t), t)

rt_thread_suspend(k, t) ==
  IF k.stat[t] = "ready" THEN SuspendSection(k, t) ELSE k

\* The critical section of rt_thread_resume; rt_schedule_insert_thread comes
\* after it, with interrupts enabled in between.
ResumeSection(k, t) == StopTimer(Unlink(k, t), t)

\* Faulty variant: stat is not tested.
ResumeUntested(k, t) == rt_schedule_insert_thread(ResumeSection(k, t), t)

\* rt_thread_resume called with interrupts already disabled.
rt_thread_resume(k, t) ==
  IF k.stat[t] = "suspend"
  THEN rt_schedule_insert_thread(ResumeSection(k, t), t)
  ELSE k

\* Faulty variants: the timer stays active, the thread stays on its wait
\* list, rt_schedule is not called.
TimeoutKeepsTimer(k, t) ==
  rt_schedule(rt_schedule_insert_thread(
    Unlink(SetError(k, t, "timeout"), t), t))

TimeoutKeepsLink(k, t) ==
  rt_schedule(rt_schedule_insert_thread(
    SetError(StopTimer(k, t), t, "timeout"), t))

TimeoutWithoutSchedule(k, t) ==
  rt_schedule_insert_thread(
    Unlink(SetError(StopTimer(k, t), t, "timeout"), t), t)

\* rt_thread_timeout: called by rt_timer_check, which has just unlinked the
\* timer, with interrupts disabled.
rt_thread_timeout(k, t) ==
  LET expired == SetError(StopTimer(k, t), t, "timeout")
  IN  rt_schedule(rt_schedule_insert_thread(Unlink(expired, t), t))

\* Faulty variant: the thread is linked in front.
YieldToFront(k, t) == LinkFirst(Unlink(k, t), k.current_priority[t], t)

\* rt_thread_yield: the list has another thread when next # prev; a ready
\* thread that is linked nowhere points to itself.
YieldMoves(k, t) ==
  /\ k.stat[t] = "ready"
  /\ \E h \in ListHead : t \in ToSet(k.list[h]) /\ Len(k.list[h]) > 1

YieldSection(k, t) == LinkLast(Unlink(k, t), k.current_priority[t], t)

SetPriority(k, t, p) ==
  [k EXCEPT !.current_priority[t] = p, !.number_mask[t] = {p}]

\* Faulty variant: a ready thread stays in the list of its old priority.
ChangePriorityInPlace(k, t, p) == SetPriority(k, t, p)

\* rt_thread_control(t, RT_THREAD_CTRL_CHANGE_PRIORITY, &p).
ChangePriority(k, t, p) ==
  IF k.stat[t] = "ready"
  THEN rt_schedule_insert_thread(
         SetPriority(rt_schedule_remove_thread(k, t), t, p), t)
  ELSE SetPriority(k, t, p)

\* Faulty variant: the thread is closed in its ready list.
ExitKeepsReady(k, t, static) == StopTimer([k EXCEPT !.stat[t] = "close"], t)

\* The critical section of rt_thread_exit: a static thread without cleanup
\* is not put on the defunct list.
ExitSection(k, t, static) ==
  LET closed == StopTimer([rt_schedule_remove_thread(k, t) EXCEPT
                             !.stat[t] = "close"], t)
  IN  IF static THEN closed ELSE LinkFirst(closed, Defunct, t)
=============================================================================
