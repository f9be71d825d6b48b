------------------------------- MODULE MemPool -------------------------------
(***************************************************************************)
(* The memory pool of src/mempool.c: rt_mp_alloc with its wait loop,       *)
(* rt_mp_free by threads and interrupts, and rt_mp_delete (rt_mp_detach).  *)
(* Unlike the objects of ipc.c it counts its waiters in a field of its own *)
(* and a waiter that is woken has to take its block itself.                *)
(***************************************************************************)
EXTENDS Ipc

CONSTANTS mp,     \* the pool, and the head of its suspend_thread list
          Block,  \* its memory blocks
          CountMax, \* bound: suspend_thread_count, which timeouts only raise
          MpTimes,  \* the time arguments the application uses
          MpCalls   \* contains "delete" if the application deletes the pool

ASSUME MemPoolType == /\ mp \in Queue
                      /\ IsFiniteSet(Block) /\ Block # {}
                      /\ CountMax \in Nat \ {0}
                      /\ MpTimes \subseteq Time
                      /\ MpCalls \subseteq {"delete"}

VARIABLES block_free_count, suspend_thread_count, \* fields of the pool
          block_list,  \* the free blocks, in the order of the chain
          allocated,   \* the blocks each thread has been given
          mp_time,        \* what is left of the time of each thread's call
          mp_alive        \* FALSE once rt_mp_delete was called

poolvars == <<block_free_count, suspend_thread_count, block_list, allocated,
              mp_time, mp_alive>>
mpvars == <<k, pc, poolvars>>

MpLabel == {"run", "sched",
          "wait",   \* rt_mp_alloc before rt_schedule
          "woken",  \* rt_mp_alloc after rt_schedule
          "retry",  \* rt_mp_alloc before it disables interrupts again
          "scan",   \* rt_mp_delete before its test of the list
          "resume"} \* rt_mp_delete after it

MpTypeOK ==
  /\ k \in KernelType
  /\ pc \in [Thread -> MpLabel]
  /\ block_free_count \in 0 .. Cardinality(Block)
  /\ suspend_thread_count \in Nat
  /\ block_list \in Seq(Block)
  /\ allocated \in [Thread -> SUBSET Block]
  /\ mp_time \in [Thread -> Time]
  /\ mp_alive \in BOOLEAN

Waiters == ToSet(k.list[mp])

MpInit ==
  /\ IpcInit
  /\ block_free_count = Cardinality(Block)
  /\ suspend_thread_count = 0
  /\ block_list = SetToSeq(Block)
  /\ allocated = [t \in Thread |-> {}]
  /\ mp_time = [t \in Thread |-> "no"]
  /\ mp_alive = TRUE

-----------------------------------------------------------------------------
MpCallable == At("run") /\ mp_alive

\* The rest of rt_mp_alloc once a block is free.
TakeBlock ==
  /\ block_free_count > 0
  /\ block_free_count' = block_free_count - 1
  /\ block_list' = Tail(block_list)
  /\ allocated' = [allocated EXCEPT ![self] = @ \cup {Head(block_list)}]
  /\ Goto("run")
  /\ UNCHANGED <<k, suspend_thread_count>>

\* The body of its loop while there is none.
MpSuspend(left) ==
  /\ block_free_count = 0
  /\ IF left = "no"
     THEN /\ k' = SetError(k, self, "timeout")
          /\ Goto("run")
          /\ UNCHANGED suspend_thread_count
     ELSE /\ suspend_thread_count < CountMax
          /\ LET s == LinkFirst(
                        rt_thread_suspend(SetError(k, self, "ok"), self),
                        mp, self)
             IN k' = IF left = "ticks" THEN StartTimer(s, self) ELSE s
          /\ suspend_thread_count' = suspend_thread_count + 1
          /\ Goto("wait")
  /\ UNCHANGED <<block_free_count, block_list, allocated>>

Alloc(left) ==
  /\ MpCallable
  /\ TakeBlock \/ MpSuspend(left)
  /\ mp_time' = [mp_time EXCEPT ![self] = left]
  /\ UNCHANGED mp_alive

AllocSchedule == ScheduleAt("wait", "woken") /\ UNCHANGED poolvars

\* Faulty variant: a waiter that returns with an error uncounts itself,
\* although rt_mp_delete, which may have woken it, has done so.
AllocWokenUncounts ==
  /\ At("woken")
  /\ IF k.error[self] # "ok"
     THEN /\ Goto("run")
          /\ suspend_thread_count' = suspend_thread_count - 1
          /\ UNCHANGED mp_time
     ELSE Goto("retry") /\ UNCHANGED <<suspend_thread_count, mp_time>>
  /\ UNCHANGED <<k, block_free_count, block_list, allocated, mp_alive>>

\* With an error the call returns; else the ticks that have passed are taken
\* off the waiting time, of which nothing may be left.
AllocWoken ==
  /\ At("woken")
  /\ IF k.error[self] # "ok"
     THEN Goto("run") /\ UNCHANGED mp_time
     ELSE /\ Goto("retry")
          /\ \/ UNCHANGED mp_time
             \/ /\ mp_time[self] = "ticks"
                /\ mp_time' = [mp_time EXCEPT ![self] = "no"]
  /\ UNCHANGED <<k, block_free_count, suspend_thread_count, block_list,
                 allocated, mp_alive>>

AllocRetry ==
  /\ At("retry")
  /\ TakeBlock \/ MpSuspend(mp_time[self])
  /\ UNCHANGED <<mp_time, mp_alive>>

\* Faulty variant: the block is not linked.
FreeWithoutLink(t, b) ==
  /\ b \in allocated[t]
  /\ suspend_thread_count > 0 => Waiters # {}
  /\ block_free_count' = block_free_count + 1
  /\ allocated' = [allocated EXCEPT ![t] = @ \ {b}]
  /\ suspend_thread_count' =
       IF suspend_thread_count > 0 THEN suspend_thread_count - 1 ELSE 0
  /\ UNCHANGED <<block_list, mp_time, mp_alive>>

\* rt_mp_free up to the resume of a waiter.
\* With suspend_thread_count > 0 and nobody on the list, the head would be
\* resumed as if it were a thread: the step is not defined.
FreeBlock(t, b) ==
  /\ b \in allocated[t]
  /\ suspend_thread_count > 0 => Waiters # {}
  /\ block_free_count' = block_free_count + 1
  /\ block_list' = Cons(b, block_list)
  /\ allocated' = [allocated EXCEPT ![t] = @ \ {b}]
  /\ suspend_thread_count' =
       IF suspend_thread_count > 0 THEN suspend_thread_count - 1 ELSE 0
  /\ UNCHANGED <<mp_time, mp_alive>>

MpResumed ==
  LET first == FirstThread(k, mp)
  IN  rt_thread_resume(SetError(k, first, "ok"), first)

\* Faulty variant: no waiter is resumed.
MpFreeWithoutResume(b) ==
  MpCallable /\ FreeBlock(self, b) /\ UNCHANGED <<k, pc>>

MpFree(b) ==
  /\ MpCallable
  /\ FreeBlock(self, b)
  /\ IF suspend_thread_count > 0 THEN k' = MpResumed /\ Goto("sched")
     ELSE UNCHANGED <<k, pc>>

\* An interrupt handler frees a block that a thread has passed to it.
IsrFree(t, b) ==
  /\ mp_alive
  /\ FreeBlock(t, b)
  /\ k' = IF suspend_thread_count > 0 THEN rt_schedule(MpResumed) ELSE k
  /\ UNCHANGED pc

MpReschedule == ScheduleAt("sched", "run") /\ UNCHANGED poolvars

Delete ==
  /\ MpCallable /\ "delete" \in MpCalls
  /\ mp_alive' = FALSE
  /\ Goto("scan")
  /\ UNCHANGED <<k, block_free_count, suspend_thread_count, block_list,
                 allocated, mp_time>>

DeleteTest == ResumeAllTest(mp) /\ UNCHANGED poolvars

DeleteTurn ==
  /\ ResumeAllTurn(mp)
  /\ suspend_thread_count' = suspend_thread_count - 1
  /\ UNCHANGED <<block_free_count, block_list, allocated, mp_time, mp_alive>>

MpNext ==
  \/ CpuStep /\ UNCHANGED poolvars
  \/ \E left \in MpTimes : Alloc(left)
  \/ AllocSchedule \/ AllocWoken \/ AllocRetry
  \/ \E b \in Block : MpFree(b) \/ \E t \in Thread : IsrFree(t, b)
  \/ MpReschedule
  \/ Delete \/ DeleteTest \/ DeleteTurn

MpSpec == MpInit /\ [][MpNext]_mpvars

-----------------------------------------------------------------------------
(* Properties *)

\* A block is free or given to one thread, and the free count is the length
\* of the chain, so that rt_mp_alloc finds a block (assertion, mempool.c:392).
BlocksConserved ==
  /\ block_free_count = Len(block_list)
  /\ NoRepeat(block_list)
  /\ \A t \in Thread : allocated[t] \cap ToSet(block_list) = {}
  /\ \A t, u \in Thread : t # u => allocated[t] \cap allocated[u] = {}
  /\ ToSet(block_list) \cup UNION {allocated[t] : t \in Thread} = Block

\* "numbers of thread pended on this resource" (rtdef.h:725).
CountMatchesList == suspend_thread_count = Len(k.list[mp])

MpWoken == {t \in Thread : /\ pc[t] \in {"wait", "woken", "retry"}
                         /\ k.stat[t] = "ready" /\ k.error[t] = "ok"}

\* While threads wait, every free block has a woken thread on its way to it:
\* no block lies idle because a wakeup went to a thread that did not need it.
\* rt_mp_free wakes somebody as long as anybody waits: the count is never
\* short of a waiter, whichever way the waiters leave the list.
MpNoLostWakeup ==
  /\ (Waiters # {} /\ mp_alive) => block_free_count <= Cardinality(MpWoken)
  /\ suspend_thread_count >= Len(k.list[mp])
=============================================================================
