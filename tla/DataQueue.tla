----------------------------- MODULE DataQueue -----------------------------
(***************************************************************************)
(* The data queue of components/drivers/src/dataqueue.c, through which a   *)
(* driver's users hand it buffers: rt_data_queue_push and                  *)
(* rt_data_queue_pop by threads and interrupts.  A thread that pushes into *)
(* a full queue is not woken by the next pop but when the queue has        *)
(* drained to its low water mark.                                          *)
(***************************************************************************)
EXTENDS Ipc

CONSTANTS push_list,   \* the head of its suspended_push_list
          pop_list,    \* the head of its suspended_pop_list
          dq_size,     \* queue->size
          lwm,         \* queue->lwm
          IndexBits,   \* bits of put_index and get_index, 16 in the code
          IndexBound,  \* bound: how often the application pushes
          Item,        \* what is pushed
          NoItem,
          Pusher,      \* the threads that push
          PushTimes,   \* the time arguments they use
          PopTimes     \* the time arguments of the threads that pop

\* The index is masked with size - 1, and with IndexBound it does not wrap.
ASSUME DqType == /\ push_list \in Queue /\ pop_list \in Queue \ {push_list}
                 /\ dq_size \in Nat \ {0}
                 /\ \E n \in 0 .. IndexBits : dq_size = 2^n
                 /\ IndexBound \in Nat
                 /\ 2^IndexBits \in Nat /\ IndexBound < 2^IndexBits
                 /\ lwm \in 0 .. dq_size - 1
                 /\ NoItem \notin Item
                 /\ Pusher \subseteq Thread
                 /\ PushTimes \subseteq Time /\ PopTimes \subseteq Time

VARIABLES put_index, get_index, slot, waiting_lwm,  \* fields of the queue
          item,     \* what a thread in rt_data_queue_push pushes
          dq_time,  \* the time argument of each thread's call
          popped    \* what the last rt_data_queue_pop returned

dqstate == <<put_index, get_index, slot, waiting_lwm, popped>>
dqvars == <<dqstate, item, dq_time>>

DqLabel == {"run", "sched",
            "wait",    \* a call before rt_schedule
            "woken"}   \* a call after rt_schedule

Index == 0 .. 2^IndexBits - 1

DqTypeOK ==
  /\ k \in KernelType
  /\ pc \in [Thread -> DqLabel]
  /\ put_index \in Index /\ get_index \in Index
  /\ slot \in [0 .. dq_size - 1 -> Item \cup {NoItem}]
  /\ waiting_lwm \in BOOLEAN
  /\ popped \in Item \cup {NoItem}
  /\ item \in [Thread -> Item \cup {NoItem}]
  /\ dq_time \in [Thread -> Time]

DqInit ==
  /\ IpcInit
  /\ put_index = 0 /\ get_index = 0
  /\ slot = [i \in 0 .. dq_size - 1 |-> NoItem]
  /\ waiting_lwm = FALSE
  /\ popped = NoItem
  /\ item = [t \in Thread |-> NoItem]
  /\ dq_time = [t \in Thread |-> "no"]

\* The difference of two rt_uint16_t is an int.
Length == put_index - get_index

Successor(index) == (index + 1) % 2^IndexBits

DqReturn(label) ==
  /\ Goto(label)
  /\ item' = [item EXCEPT ![self] = NoItem]
  /\ dq_time' = [dq_time EXCEPT ![self] = "no"]

DqWait(h, x, time) ==
  /\ k' = Wait(k, h, self, "fifo", time)
  /\ Goto("wait")
  /\ item' = [item EXCEPT ![self] = x]
  /\ dq_time' = [dq_time EXCEPT ![self] = time]

-----------------------------------------------------------------------------
(* rt_data_queue_push *)

DqPut(x) ==
  /\ put_index < IndexBound
  /\ slot' = [slot EXCEPT ![put_index % dq_size] = x]
  /\ put_index' = Successor(put_index)
  /\ UNCHANGED <<get_index, waiting_lwm, popped>>

\* The loop, at the call and after each wait.
TryPush(x, time) ==
  \/ /\ Length # dq_size
     /\ DqPut(x)
     /\ IF rt_list_isempty(k.list[pop_list]) THEN DqReturn("run") /\ UNCHANGED k
        ELSE DqReturn("sched") /\ k' = rt_ipc_list_resume(k, pop_list)
  \/ /\ Length = dq_size
     /\ waiting_lwm' = TRUE
     /\ IF time = "no" THEN DqReturn("run") /\ UNCHANGED k
        ELSE DqWait(push_list, x, time)
     /\ UNCHANGED <<put_index, get_index, slot, popped>>

Push(x, time) == At("run") /\ self \in Pusher /\ TryPush(x, time)

-----------------------------------------------------------------------------
(* rt_data_queue_pop *)

\* Faulty variant: the mark is compared before the item is taken.
ReachesMarkLate == waiting_lwm /\ Length <= lwm

\* The pop of the first item brings the queue to the mark.
ReachesMark == waiting_lwm /\ Length - 1 <= lwm

\* Faulty variant: the item is read after the index was advanced.
TakeNext ==
  /\ popped' = slot[Successor(get_index) % dq_size]
  /\ get_index' = Successor(get_index)
  /\ waiting_lwm' = (waiting_lwm /\ ~ReachesMark)
  /\ UNCHANGED <<put_index, slot>>

DqTake ==
  /\ popped' = slot[get_index % dq_size]
  /\ get_index' = Successor(get_index)
  /\ waiting_lwm' = (waiting_lwm /\ ~ReachesMark)
  /\ UNCHANGED <<put_index, slot>>

\* With the mark reached and nobody to be woken, the code returns with
\* interrupts disabled: the step is not defined.
TryPop(time) ==
  \/ /\ Length # 0
     /\ DqTake
     /\ IF ReachesMark
        THEN /\ ~rt_list_isempty(k.list[push_list])
             /\ k' = rt_ipc_list_resume(k, push_list)
             /\ DqReturn("sched")
        ELSE UNCHANGED k /\ DqReturn("run")
  \/ /\ Length = 0
     /\ IF time = "no" THEN DqReturn("run") /\ UNCHANGED k
        ELSE DqWait(pop_list, NoItem, time)
     /\ UNCHANGED dqstate

Pop(time) == At("run") /\ TryPop(time)

\* By the interrupt that sends what is pushed.
IsrPop ==
  /\ Length # 0
  /\ DqTake
  /\ IF ReachesMark
     THEN /\ ~rt_list_isempty(k.list[push_list])
          /\ k' = rt_schedule(rt_ipc_list_resume(k, push_list))
     ELSE UNCHANGED k
  /\ UNCHANGED <<pc, item, dq_time>>

-----------------------------------------------------------------------------

DqSchedule ==
  (ScheduleAt("wait", "woken") \/ ScheduleAt("sched", "run")) /\ UNCHANGED dqvars

\* A call that timed out.
DqFails ==
  /\ At("woken") /\ k.error[self] # "ok"
  /\ DqReturn("run")
  /\ UNCHANGED <<k, dqstate>>

\* A call that was woken tests the queue again, and waits its whole time.
DqRetries ==
  /\ At("woken") /\ k.error[self] = "ok"
  /\ IF item[self] = NoItem THEN TryPop(dq_time[self])
     ELSE TryPush(item[self], dq_time[self])

DqNext ==
  \/ CpuStep /\ UNCHANGED dqvars
  \/ \E x \in Item, time \in PushTimes : Push(x, time)
  \/ \E time \in PopTimes : Pop(time)
  \/ IsrPop
  \/ DqSchedule \/ DqFails \/ DqRetries

DqSpec == DqInit /\ [][DqNext]_<<k, pc, dqvars>>

-----------------------------------------------------------------------------
(* Properties *)

\* Items come out once, in the order they were pushed.
DqFifo == INSTANCE BoundedFifo WITH
            Mail <- Item, Nil <- NoItem, Size <- dq_size,
            queue <- [i \in 1 .. Length |-> slot[(get_index + i - 1) % dq_size]],
            received <- popped

DqImplementsFifo == DqFifo!FifoSpec

\* While threads wait to pop, every item has a woken one on its way to it,
\* whoever takes items from under it; a thread that waits to push does so
\* above the low water mark, with the flag set that tells the pop which
\* reaches the mark; and with the flag set there is a thread to wake, without
\* which rt_data_queue_pop does not enable interrupts again.
NobodyStranded ==
  /\ k.list[pop_list] # << >> =>
       Length <= Cardinality({t \in Thread :
                                /\ pc[t] \in {"wait", "woken"}
                                /\ item[t] = NoItem
                                /\ k.stat[t] = "ready" /\ k.error[t] = "ok"})
  /\ k.list[push_list] # << >> => waiting_lwm /\ Length > lwm
  /\ waiting_lwm => k.list[push_list] # << >>
=============================================================================
