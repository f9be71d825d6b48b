--------------------------------- MODULE Ipc ---------------------------------
(***************************************************************************)
(* What the IPC objects share: the wait list functions of src/ipc.c, and   *)
(* the CPU their callers run on.  The current thread takes the thread      *)
(* steps; interrupts come between any two of them.  rt_schedule is a step  *)
(* of its own wherever the code enables interrupts before it.              *)
(***************************************************************************)
EXTENDS Kernel

VARIABLES k,   \* the kernel record
          pc   \* where each thread is in its call, "run" outside of one

Flag == {"fifo", "prio"}  \* RT_IPC_FLAG_FIFO, RT_IPC_FLAG_PRIO

\* The time argument of a call: RT_WAITING_NO, a number of ticks,
\* RT_WAITING_FOREVER.
Time == {"no", "ticks", "forever"}

self == k.current_thread

-----------------------------------------------------------------------------
(* Wait lists *)

\* The places in list h in front of which rt_ipc_list_suspend may stop.
LowerWaiters(kk, h, t) ==
  {i \in DOMAIN kk.list[h] :
     kk.current_priority[t] < kk.current_priority[kk.list[h][i]]}

\* Faulty variants: the flag is not looked at; the last comes first.
SuspendAlwaysLast(kk, h, t, flag) == LinkLast(rt_thread_suspend(kk, t), h, t)
SuspendFirst(kk, h, t, flag) == LinkFirst(rt_thread_suspend(kk, t), h, t)

rt_ipc_list_suspend(kk, h, t, flag) ==
  LET s == rt_thread_suspend(kk, t)
      lower == LowerWaiters(s, h, t)
  IN  IF flag = "fifo" \/ lower = {}
      THEN LinkLast(s, h, t)
      ELSE [s EXCEPT !.list[h] =
              InsertBeforeNode(@, CHOOSE i \in lower :
                                    \A j \in lower : i <= j, t)]

\* rt_ipc_list_resume, of a list its callers have found not empty.
rt_ipc_list_resume(kk, h) == rt_thread_resume(kk, FirstThread(kk, h))

\* One turn of the loop in rt_ipc_list_resume_all.
ResumeWithError(kk, h) ==
  rt_thread_resume(SetError(kk, FirstThread(kk, h), "error"),
                   FirstThread(kk, h))

\* Faulty variant: the error of an earlier call is kept.
WaitKeepsError(kk, h, t, flag, time) ==
  LET s == rt_ipc_list_suspend(kk, h, t, flag)
  IN  IF time = "ticks" THEN StartTimer(s, t) ELSE s

\* The caller waits: its error is reset, it is suspended on the list, and
\* its timer is started if it does not wait for ever.
Wait(kk, h, t, flag, time) ==
  LET s == rt_ipc_list_suspend(SetError(kk, t, "ok"), h, t, flag)
  IN  IF time = "ticks" THEN StartTimer(s, t) ELSE s

-----------------------------------------------------------------------------
(* The CPU *)

IpcInit ==
  /\ k = [ stat |-> [t \in Thread |-> IF t = Idle THEN "ready" ELSE "init"],
           current_priority |-> init_priority,
           number_mask |-> [t \in Thread |-> {init_priority[t]}],
           error |-> [t \in Thread |-> "ok"],
           timer |-> [t \in Thread |-> FALSE],
           list  |-> [h \in ListHead |->
                        IF h = PriorityMax - 1 THEN <<Idle>> ELSE << >>],
           ready_group |-> {PriorityMax - 1},
           current_thread |-> Idle,
           lock_nest |-> 0 ]
  /\ pc = [t \in Thread |-> "run"]

At(label) == self \in Thread \ {Idle} /\ pc[self] = label

\* Label "reset" stands for a loop that runs with interrupts disabled.
InterruptsOn == ~ At("reset")

Goto(label) == pc' = [pc EXCEPT ![self] = label]

\* rt_thread_startup of an application thread, by an initialisation that
\* nothing else races with.
Startup(t) ==
  /\ InterruptsOn
  /\ k.stat[t] = "init"
  /\ k' = rt_schedule(rt_thread_resume(
            [SetPriority(k, t, init_priority[t]) EXCEPT !.stat[t] = "suspend"],
            t))
  /\ UNCHANGED pc

\* The clock interrupt at the end of the current thread's time slice.
Tick ==
  /\ InterruptsOn /\ self \in Thread
  /\ YieldMoves(k, self)
  /\ k' = rt_schedule(YieldSection(k, self))
  /\ UNCHANGED pc

\* The clock interrupt when the timer of a waiting thread is due.
TimerCheck(t) ==
  /\ InterruptsOn
  /\ k.timer[t]
  /\ k' = rt_thread_timeout(k, t)
  /\ UNCHANGED pc

\* rt_thread_delay between two calls; its error is not looked at again.
Delay ==
  /\ At("run")
  /\ k' = StartTimer(rt_thread_suspend(k, self), self)
  /\ Goto("sched")

CpuStep == Delay \/ Tick \/ \E t \in Thread : Startup(t) \/ TimerCheck(t)

\* rt_schedule at label, after which the thread goes on at next.
ScheduleAt(label, next) ==
  /\ At(label)
  /\ k' = rt_schedule(k)
  /\ Goto(next)

\* Faulty variant: there is one turn only.
ResumeAllOnce(h) ==
  /\ At("resume")
  /\ ~rt_list_isempty(k.list[h])
  /\ k' = ResumeWithError(k, h)
  /\ Goto("run")

\* The loop of rt_ipc_list_resume_all as rt_sem_delete and the like call it:
\* the list is tested ("scan") and its first thread resumed ("resume") with
\* interrupts enabled in between.
ResumeAllTest(h) ==
  /\ At("scan")
  /\ IF rt_list_isempty(k.list[h]) THEN Goto("run") ELSE Goto("resume")
  /\ UNCHANGED k

\* Behind an empty list's head there is no thread: the step is not defined.
ResumeAllTurn(h) ==
  /\ At("resume")
  /\ ~rt_list_isempty(k.list[h])
  /\ k' = ResumeWithError(k, h)
  /\ Goto("scan")

-----------------------------------------------------------------------------
(* What every IPC object relies on *)

OneList ==
  /\ \A h \in ListHead : NoRepeat(k.list[h])
  /\ \A h1, h2 \in ListHead :
       h1 # h2 => ToSet(k.list[h1]) \cap ToSet(k.list[h2]) = {}

\* Suspended threads, and no others, are off the ready lists.
ReadyLists ==
  \A t \in Thread, p \in Prio :
    t \in ToSet(k.list[p]) <=> k.stat[t] = "ready" /\ k.current_priority[t] = p

GroupMatchesLists ==
  k.ready_group = {p \in Prio : k.list[p] # << >>}

\* A wait list holds suspended threads only, so rt_thread_resume wakes the
\* thread it is given; a running timer belongs to a suspended thread.
WaitersAreSuspended ==
  \A t \in Thread :
    /\ \A h \in Queue : t \in ToSet(k.list[h]) => k.stat[t] = "suspend"
    /\ k.timer[t] => k.stat[t] = "suspend"
=============================================================================
