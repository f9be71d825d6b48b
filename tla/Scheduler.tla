------------------------------ MODULE Scheduler ------------------------------
(***************************************************************************)
(* Threads and the scheduler: every thread-level call of src/thread.c and  *)
(* src/scheduler.c, the idle thread of src/idle.c, the clock interrupt of  *)
(* src/clock.c and a device interrupt that wakes threads.                  *)
(*                                                                         *)
(* There is one CPU.  The current thread takes the thread steps; a step is *)
(* code between two points where interrupts are enabled, and pc says which *)
(* of these points a preempted thread has reached.  An interrupt comes     *)
(* between any two steps and is handled before the next thread step.       *)
(***************************************************************************)
EXTENDS Kernel

CONSTANTS Boot,       \* the thread started before the scheduler
          Static,     \* threads made by rt_thread_init, the others by _create
          init_tick,  \* time slice of every thread
          LockMax,    \* bound: nesting of rt_enter_critical
          StaleMask,  \* what number_mask may hold before rt_thread_startup
          Unguarded   \* uses the code does not protect, see Use below

(***************************************************************************)
(* The application decides which thread it operates on and when.  It does  *)
(* not operate on a thread that another call is operating on (Busy below). *)
(* Three more uses are left unprotected by the code; a configuration names *)
(* those its application makes.                                            *)
(***************************************************************************)
Use == {"resume_sleeping",   \* rt_thread_resume of a thread in rt_thread_delay
        "delete_sleeping",   \* rt_thread_delete of a thread in rt_thread_delay
        "delete_unstarted"}  \* rt_thread_delete before rt_thread_startup

ASSUME BootType == /\ Boot \in Thread \ {Idle}
                   /\ init_priority[Boot] < PriorityMax - 1
ASSUME BoundsType == /\ Static \subseteq Thread /\ Idle \in Static
                     /\ init_tick \in Nat \ {0}
                     /\ LockMax \in Nat
                     /\ StaleMask \subseteq SUBSET Prio /\ StaleMask # {}
                     /\ Unguarded \subseteq Use

VARIABLES k,               \* the kernel record
          pc,              \* where each thread is in its call
          target,          \* the thread its call operates on
          remaining_tick,  \* the rest of each thread's time slice
          isr              \* "check" while rt_timer_check runs

vars == <<k, pc, target, remaining_tick, isr>>

PC == {"run",           \* in application code (the idle thread: in its loop)
       "unlink",        \* rt_thread_resume after its check of stat
       "insert",        \* rt_thread_resume before rt_schedule_insert_thread
       "start_unlink",  \* the same two in the rt_thread_resume that
       "start_insert",  \* rt_thread_startup calls
       "suspend",       \* rt_thread_suspend after its check of stat
       "sched",         \* about to call rt_schedule
       "nap",           \* rt_thread_sleep before rt_schedule
       "wake",          \* rt_thread_sleep after rt_schedule
       "timer_detach",  \* rt_thread_delete before rt_timer_detach
       "defunct",       \* rt_thread_delete before the defunct list
       "release",       \* rt_thread_idle_excute before the memory is freed
       "dead"}          \* rt_thread_exit before rt_schedule

TypeOK ==
  /\ k \in KernelType
  /\ pc \in [Thread -> PC]
  /\ target \in [Thread -> Thread]
  /\ remaining_tick \in [Thread -> 1 .. init_tick]
  /\ isr \in {"none", "check"}

self == k.current_thread

\* Is some thread in the middle of a call that operates on t?
Busy(t) == \E u \in Thread :
             /\ target[u] = t
             /\ pc[u] \in {"unlink", "insert", "start_unlink", "start_insert",
                           "suspend", "timer_detach", "defunct", "release"}

\* rt_system_scheduler_start after idle and boot thread were started.
Init ==
  \E stale \in [Thread -> StaleMask] :
    /\ k = [ stat |-> [t \in Thread |->
                         IF t \in {Idle, Boot} THEN "ready" ELSE "init"],
             current_priority |-> init_priority,
             number_mask |-> [t \in Thread |-> IF t \in {Idle, Boot}
                               THEN {init_priority[t]} ELSE stale[t]],
             error |-> [t \in Thread |-> "ok"],
             timer |-> [t \in Thread |-> FALSE],
             list  |-> [h \in ListHead |->
                          IF h = init_priority[Boot] THEN <<Boot>>
                          ELSE IF h = PriorityMax - 1 THEN <<Idle>>
                          ELSE << >>],
             ready_group |-> {init_priority[Boot], PriorityMax - 1},
             current_thread |-> Boot,
             lock_nest |-> 0 ]
    /\ pc = [t \in Thread |-> "run"]
    /\ target = [t \in Thread |-> t]
    /\ remaining_tick = [t \in Thread |-> init_tick]
    /\ isr = "none"

-----------------------------------------------------------------------------
(* Steps of the current thread *)

At(label) == /\ isr = "none"
             /\ self \in Thread
             /\ pc[self] = label

\* Application code that is about to make a kernel call.
Free == At("run") /\ self # Idle

Goto(label) == pc' = [pc EXCEPT ![self] = label]

\* The call's argument is not used after this point.
Finish(label) ==
  /\ Goto(label)
  /\ target' = [target EXCEPT ![self] = self]
  /\ UNCHANGED <<remaining_tick, isr>>

Return == Finish("run")

Call(label, t) ==
  /\ Goto(label)
  /\ target' = [target EXCEPT ![self] = t]
  /\ UNCHANGED <<remaining_tick, isr>>

Continue(label) == Goto(label) /\ UNCHANGED <<target, remaining_tick, isr>>

\* rt_thread_startup up to the critical section of its rt_thread_resume.
Startup(t) ==
  /\ Free
  /\ k.stat[t] = "init" /\ ~Busy(t)
  /\ k' = [SetPriority(k, t, init_priority[t]) EXCEPT !.stat[t] = "suspend"]
  /\ Call("start_unlink", t)

\* rt_thread_resume tests stat with interrupts enabled.
Resume(t) ==
  /\ Free
  /\ k.stat[t] \in {"ready", "suspend"}
  /\ k.timer[t] => "resume_sleeping" \in Unguarded
  /\ ~Busy(t)
  /\ IF k.stat[t] = "suspend" THEN Call("unlink", t)
     ELSE Return
  /\ UNCHANGED k

ResumeUnlink ==
  /\ \/ At("unlink")       /\ Continue("insert")
     \/ At("start_unlink") /\ Continue("start_insert")
  /\ k' = ResumeSection(k, target[self])

\* rt_thread_resume returns without rt_schedule, rt_thread_startup calls it.
ResumeInsert ==
  /\ \/ At("insert")       /\ Return
     \/ At("start_insert") /\ Finish("sched")
  /\ k' = rt_schedule_insert_thread(k, target[self])

\* rt_thread_suspend of itself or of another ready thread.
Suspend(t) ==
  /\ Free
  /\ t # Idle /\ k.stat[t] = "ready" /\ ~Busy(t)
  /\ Call("suspend", t)
  /\ UNCHANGED k

SuspendRest ==
  /\ At("suspend")
  /\ k' = SuspendSection(k, target[self])
  /\ IF target[self] = self THEN Finish("sched") ELSE Return

\* rt_thread_sleep: suspend and start of the timer in one critical section.
Delay ==
  /\ Free
  /\ k' = StartTimer(rt_thread_suspend(k, self), self)
  /\ Continue("nap")

DelayReturn ==
  /\ At("wake")
  /\ k' = IF k.error[self] = "timeout" THEN SetError(k, self, "ok") ELSE k
  /\ Return

Yield ==
  /\ Free
  /\ IF YieldMoves(k, self)
     THEN k' = YieldSection(k, self) /\ Finish("sched")
     ELSE UNCHANGED vars

\* rt_thread_control(t, RT_THREAD_CTRL_CHANGE_PRIORITY, &p): no rt_schedule.
Control(t, p) ==
  /\ Free
  /\ t # Idle /\ k.stat[t] \in {"ready", "suspend"} /\ ~Busy(t)
  /\ k' = ChangePriority(k, t, p)
  /\ Return

\* The application calls rt_schedule itself.
Schedule == Free /\ Finish("sched") /\ UNCHANGED k

EnterCritical ==
  /\ Free
  /\ k.lock_nest < LockMax
  /\ k' = rt_enter_critical(k)
  /\ UNCHANGED <<pc, target, remaining_tick, isr>>

ExitCritical ==
  /\ Free
  /\ k.lock_nest > 0
  /\ k' = ExitCriticalSection(k)
  /\ IF k'.lock_nest = 0 THEN Finish("sched")
     ELSE UNCHANGED <<pc, target, remaining_tick, isr>>

\* rt_schedule of a thread that goes on when it is next switched to.
Reschedule ==
  /\ \/ At("sched") /\ Continue("run")
     \/ At("nap")   /\ Continue("wake")
  /\ k' = rt_schedule(k)

\* rt_thread_delete (a created thread) and rt_thread_detach (a static one).
Delete(t) ==
  /\ Free
  /\ t \notin {self, Idle} /\ ~Busy(t)
  /\ k.stat[t] \in {"init", "ready", "suspend"}
  /\ k.timer[t]         => "delete_sleeping" \in Unguarded
  /\ k.stat[t] = "init" => "delete_unstarted" \in Unguarded
  /\ k' = rt_schedule_remove_thread(k, t)
  /\ Call("timer_detach", t)

DeleteTimer ==
  /\ At("timer_detach")
  /\ k' = StopTimer(k, target[self])
  /\ Continue("defunct")

DeleteDefunct ==
  LET t == target[self]
      closed == [k EXCEPT !.stat[t] = "close"]
  IN  /\ At("defunct")
      /\ k' = IF t \in Static THEN closed ELSE LinkFirst(closed, Defunct, t)
      /\ Return

\* rt_thread_exit: the entry function of the thread returns.
Exit ==
  /\ Free
  /\ k.lock_nest = 0 /\ ~Busy(self)
  /\ k' = ExitSection(k, self, self \in Static)
  /\ Continue("dead")

ExitSchedule ==
  /\ At("dead")
  /\ k' = rt_schedule(k)
  /\ UNCHANGED <<pc, target, remaining_tick, isr>>

-----------------------------------------------------------------------------
(* The idle thread *)

\* Faulty variant: the thread is unlinked and not freed.
ReapWithoutRelease ==
  /\ At("run") /\ self = Idle
  /\ FirstThread(k, Defunct) # Wild
  /\ k' = Unlink(k, FirstThread(k, Defunct))
  /\ Return

\* rt_thread_idle_excute: unlink the first defunct thread.
Reap ==
  /\ At("run") /\ self = Idle
  /\ FirstThread(k, Defunct) # Wild
  /\ k' = Unlink(k, FirstThread(k, Defunct))
  /\ Call("release", FirstThread(k, Defunct))

\* The stack and the thread control block go back to the heap.
ReapRelease ==
  /\ At("release")
  /\ k' = [k EXCEPT !.stat[target[self]] = "free"]
  /\ Return

-----------------------------------------------------------------------------
(* Interrupts *)

\* rt_tick_increase up to rt_timer_check; rt_thread_yield acts on the
\* interrupted thread.
Tick ==
  /\ isr = "none" /\ self \in Thread
  /\ IF remaining_tick[self] > 1
     THEN /\ remaining_tick' = [remaining_tick EXCEPT ![self] = @ - 1]
          /\ UNCHANGED k
     ELSE /\ remaining_tick' = [remaining_tick EXCEPT ![self] = init_tick]
          /\ k' = IF YieldMoves(k, self)
                  THEN rt_schedule(YieldSection(k, self)) ELSE k
  /\ isr' = "check"
  /\ UNCHANGED <<pc, target>>

\* One turn of the loop in rt_timer_check: the timer of t is due.
TimerCheck(t) ==
  /\ isr = "check"
  /\ k.timer[t]
  /\ k' = rt_thread_timeout(k, t)
  /\ UNCHANGED <<pc, target, remaining_tick, isr>>

TimerCheckEnd ==
  /\ isr = "check"
  /\ isr' = "none"
  /\ UNCHANGED <<k, pc, target, remaining_tick>>

\* A device interrupt that resumes a thread and calls rt_schedule.
DeviceIsr(t) ==
  /\ isr = "none"
  /\ k.stat[t] \in {"ready", "suspend"}
  /\ k.timer[t] => "resume_sleeping" \in Unguarded
  /\ ~Busy(t)
  /\ k' = rt_schedule(rt_thread_resume(k, t))
  /\ UNCHANGED <<pc, target, remaining_tick, isr>>

-----------------------------------------------------------------------------
\* What a thread does once it has begun a kernel call.
KernelStep ==
  \/ ResumeUnlink \/ ResumeInsert \/ SuspendRest
  \/ DelayReturn \/ Reschedule
  \/ DeleteTimer \/ DeleteDefunct
  \/ ExitSchedule \/ ReapRelease

ApplicationStep ==
  \/ \E t \in Thread : Startup(t) \/ Resume(t) \/ Suspend(t) \/ Delete(t)
  \/ \E t \in Thread, p \in Prio : Control(t, p)
  \/ Delay \/ Yield \/ Schedule \/ EnterCritical \/ ExitCritical \/ Exit

Interrupt ==
  \/ Tick \/ TimerCheckEnd
  \/ \E t \in Thread : TimerCheck(t) \/ DeviceIsr(t)

Next == KernelStep \/ ApplicationStep \/ Reap \/ Interrupt

Spec == Init /\ [][Next]_vars

(***************************************************************************)
(* The clock keeps ticking and its handler ends.  Between two interrupts   *)
(* the CPU executes the current thread, which goes on where it was         *)
(* preempted: a thread that is inside a kernel call or the idle loop and   *)
(* that is current again and again makes its next step (strong fairness,   *)
(* as interrupts and preemption disable the step for a while).  The        *)
(* application and the devices promise nothing.                            *)
(***************************************************************************)
Fairness ==
  /\ WF_vars(Tick) /\ WF_vars(TimerCheckEnd)
  /\ \A t \in Thread : SF_vars(self = t /\ (KernelStep \/ Reap))

FairSpec == Spec /\ Fairness
-----------------------------------------------------------------------------
(* Properties *)

\* rt_schedule selects a thread (scheduler.c:187): never the head of an empty
\* list taken for one, nor a thread whose memory the idle thread frees.
SelectsThread == self \in Thread

\* A thread's one tlist node is in at most one list, and there once.
OneList ==
  /\ \A h \in ListHead : NoRepeat(k.list[h])
  /\ \A h1, h2 \in ListHead :
       h1 # h2 => ToSet(k.list[h1]) \cap ToSet(k.list[h2]) = {}

BeingDeleted(t) == \E u \in Thread :
  target[u] = t /\ pc[u] \in {"timer_detach", "defunct"}

\* Whatever the calls, timeouts and interrupts leave half done, the lists, the
\* threads and the bitmap agree: no thread is linked twice, the ready lists
\* hold exactly the ready threads, each at its current priority, except one
\* that rt_thread_delete has taken out and not closed yet, the bitmap
\* rt_schedule searches names exactly the lists that are not empty, and a timer
\* that runs will find its thread suspended, as rt_thread_timeout asserts
\* (thread.c:644).
ReadyLists ==
  /\ OneList
  /\ \A t \in Thread, p \in Prio :
       t \in ToSet(k.list[p]) <=> /\ k.stat[t] = "ready"
                                  /\ k.current_priority[t] = p
                                  /\ ~BeingDeleted(t)
  /\ k.ready_group = {p \in Prio : k.list[p] # << >>}
  /\ \A t \in Thread : k.timer[t] => k.stat[t] = "suspend"

\* The current thread is the first of the highest non-empty ready list, or it
\* is about to call rt_schedule, or the scheduler is locked.
RunsHighest ==
  (k.lock_nest = 0 /\ self \in Thread
     /\ pc[self] \notin {"sched", "nap", "dead"})
  => self = HighestReady(k)

\* The two calls after which a higher thread may be left ready and not running:
\* rt_thread_control with a new priority, and rt_thread_resume.
LeavesReschedule ==
  \/ \E t \in Thread, p \in Prio : Control(t, p)
  \/ At("insert") /\ ResumeInsert

\* Every other step keeps the highest thread on the CPU: no startup, timeout,
\* interrupt, suspension, deletion, yield, exit or return from a locked section
\* changes the ready lists without a reschedule, and whoever is about to call
\* rt_schedule gets the highest thread from it, whatever was left before.
HighestRuns ==
  [][LeavesReschedule \/ (RunsHighest => RunsHighest')]_vars

\* A thread that is closed or whose memory is freed never gets the CPU
\* (thread.c: rt_thread_exit hands it over last), and is in no list that
\* could give it back.
ClosedNeverRuns ==
  \A t \in Thread : k.stat[t] \in {"close", "free"} =>
    /\ self = t => pc[t] = "dead"
    /\ \A h \in ListHead \ {Defunct} : t \notin ToSet(k.list[h])
    /\ k.stat[t] = "free" => ~Linked(k, t)

\* Within a ready list only the current thread moves behind another one (by a
\* yield, or when its time slice ends), unless a thread is given a priority.
Before(list, a, b) ==
  \E i, j \in DOMAIN list : i < j /\ list[i] = a /\ list[j] = b

NoOvertaking ==
  [][(~ \E t \in Thread, p \in Prio : Control(t, p)) =>
       \A p \in Prio, a, b \in Thread :
         /\ Before(k.list[p], a, b) /\ a # self
         /\ {a, b} \subseteq ToSet(k'.list[p])
         => Before(k'.list[p], a, b)]_vars

\* Round robin: a ready thread whose priority is not set again and again is not
\* passed over for ever by threads of its own priority.  (A lower thread may
\* keep the CPU after one of the LeavesReschedule calls.)
RoundRobin ==
  \A t \in Thread :
    <>[][\A p \in Prio : ~Control(t, p)]_vars =>
      []<>(\/ self = t
           \/ k.stat[t] # "ready" \/ BeingDeleted(t)
           \/ k.lock_nest > 0
           \/ k.current_priority[self] > k.current_priority[t]
           \/ \E p \in k.ready_group : p < k.current_priority[t])

\* The idle thread frees what is dead if it gets the CPU again and again.
DeadAreFreed ==
  []<>(self = Idle /\ isr = "none") =>
    \A t \in Thread : (t \in ToSet(k.list[Defunct])) ~> (k.stat[t] = "free")
=============================================================================
