-------------------------------- MODULE Mutex --------------------------------
(***************************************************************************)
(* The mutexes of src/ipc.c: rt_mutex_take and rt_mutex_release with       *)
(* ownership, recursion, timeouts and priority inheritance, and            *)
(* rt_mutex_delete.  A mutex is the head of its own wait list.             *)
(***************************************************************************)
EXTENDS Ipc

CONSTANTS Mutex,       \* the mutexes
          mutex_flag,  \* their RT_IPC_FLAG
          NoThread,    \* RT_NULL, as an owner
          HoldMax,     \* bound: nested takes of one mutex
          Times,       \* the time arguments the application uses
          Nested,      \* may a thread take a mutex while it holds another?
          Deleted      \* mutexes the application may delete

ASSUME MutexType == /\ Mutex \subseteq Queue /\ Mutex # {}
                    /\ mutex_flag \in Flag
                    /\ NoThread \notin Thread
                    /\ HoldMax \in Nat \ {0}
                    /\ Times \subseteq Time
                    /\ Nested \in BOOLEAN
                    /\ Deleted \subseteq Mutex

VARIABLES value, owner, original_priority, hold,  \* the fields of the mutexes
          object,  \* the mutex each thread's call is about
          alive,   \* mutexes not deleted
          inside   \* ghost: successful takes a thread has not released

mutexvars == <<value, owner, original_priority, hold, object, alive, inside>>
vars == <<k, pc, mutexvars>>

Label == {"run", "sched", "take", "taken", "scan", "resume"}

TypeOK ==
  /\ k \in KernelType
  /\ pc \in [Thread -> Label]
  /\ value \in [Mutex -> {0, 1}]
  /\ owner \in [Mutex -> Thread \cup {NoThread}]
  /\ original_priority \in [Mutex -> Prio \cup {255}]
  /\ hold \in [Mutex -> 0 .. HoldMax]
  /\ object \in [Thread -> Mutex]
  /\ alive \subseteq Mutex
  /\ inside \in [Mutex -> [Thread -> 0 .. HoldMax]]

Waiters(m) == ToSet(k.list[m])
Holds(t, m) == inside[m][t] > 0

Init ==
  /\ IpcInit
  /\ value = [m \in Mutex |-> 1]
  /\ owner = [m \in Mutex |-> NoThread]
  /\ original_priority = [m \in Mutex |-> 255]
  /\ hold = [m \in Mutex |-> 0]
  /\ object \in [Thread -> {CHOOSE m \in Mutex : TRUE}]
  /\ alive = Mutex
  /\ inside = [m \in Mutex |-> [t \in Thread |-> 0]]

-----------------------------------------------------------------------------
Free(m) == At("run") /\ m \in alive

Enter(m, t) == inside' = [inside EXCEPT ![m][t] = @ + 1]

\* The mutex is the caller's already, or free.
TakeNow(m) ==
  /\ Free(m)
  /\ Nested \/ \A n \in Mutex \ {m} : ~Holds(self, n)
  /\ hold[m] < HoldMax
  /\ \/ /\ owner[m] = self
        /\ UNCHANGED <<value, owner, original_priority>>
     \/ /\ owner[m] # self /\ value[m] > 0
        /\ value' = [value EXCEPT ![m] = @ - 1]
        /\ owner' = [owner EXCEPT ![m] = self]
        /\ original_priority' =
             [original_priority EXCEPT ![m] = k.current_priority[self]]
  /\ hold' = [hold EXCEPT ![m] = @ + 1]
  /\ k' = SetError(k, self, "ok")
  /\ Enter(m, self)
  /\ UNCHANGED <<pc, object, alive>>

\* Faulty variant: the owner inherits nothing.
NoBoost(m) == k

\* The mutex is taken: with RT_WAITING_NO the call fails, else the owner
\* inherits the caller's priority if that is higher, and the caller waits.
Boost(m) ==
  IF k.current_priority[self] < k.current_priority[owner[m]]
  THEN ChangePriority(k, owner[m], k.current_priority[self]) ELSE k

TakeWait(m, time) ==
  /\ Free(m)
  /\ Nested \/ \A n \in Mutex \ {m} : ~Holds(self, n)
  /\ owner[m] # self /\ value[m] = 0
  /\ IF time = "no"
     THEN /\ k' = SetError(k, self, "timeout")
          /\ UNCHANGED <<pc, object>>
     ELSE /\ k' = Wait(Boost(m), m, self, mutex_flag, time)
          /\ object' = [object EXCEPT ![self] = m]
          /\ Goto("take")
  /\ UNCHANGED <<value, owner, original_priority, hold, alive, inside>>

TakeSchedule == ScheduleAt("take", "taken") /\ UNCHANGED mutexvars

TakeReturn ==
  /\ At("taken")
  /\ IF k.error[self] = "ok" THEN Enter(object[self], self)
     ELSE UNCHANGED inside
  /\ Goto("run")
  /\ UNCHANGED <<k, value, owner, original_priority, hold, object, alive>>

\* Faulty variant: the owner keeps the priority it inherited.
NotRestored(m) == k

\* The last release: the priority recorded at the take is restored, then the
\* mutex goes to the first waiter, or becomes free without a rt_schedule.
Restored(m) ==
  IF original_priority[m] # k.current_priority[self]
  THEN ChangePriority(k, self, original_priority[m]) ELSE k

\* Faulty variants: the heir does not become the owner; rt_schedule is
\* missing.
HandOverKeepsOwner(m) ==
  /\ FirstThread(k, m) # Wild
  /\ hold' = [hold EXCEPT ![m] = 1]
  /\ k' = rt_ipc_list_resume(Restored(m), m)
  /\ Goto("sched")
  /\ UNCHANGED <<value, owner, original_priority>>

HandOverWithoutSchedule(m) ==
  LET heir == FirstThread(k, m)
  IN  /\ heir # Wild
      /\ owner' = [owner EXCEPT ![m] = heir]
      /\ original_priority' =
           [original_priority EXCEPT ![m] = k.current_priority[heir]]
      /\ hold' = [hold EXCEPT ![m] = 1]
      /\ k' = rt_ipc_list_resume(Restored(m), m)
      /\ UNCHANGED <<pc, value>>

HandOver(m) ==
  LET heir == FirstThread(k, m)
  IN  IF heir # Wild
      THEN /\ owner' = [owner EXCEPT ![m] = heir]
           /\ original_priority' =
                [original_priority EXCEPT ![m] = k.current_priority[heir]]
           /\ hold' = [hold EXCEPT ![m] = 1]
           /\ k' = rt_ipc_list_resume(Restored(m), m)
           /\ Goto("sched")
           /\ UNCHANGED value
      ELSE /\ owner' = [owner EXCEPT ![m] = NoThread]
           /\ original_priority' = [original_priority EXCEPT ![m] = 255]
           /\ hold' = [hold EXCEPT ![m] = 0]
           /\ value' = [value EXCEPT ![m] = @ + 1]
           /\ k' = Restored(m)
           /\ UNCHANGED pc

Release(m) ==
  /\ Free(m)
  /\ IF owner[m] # self
     THEN /\ k' = SetError(k, self, "error")
          /\ UNCHANGED <<pc, mutexvars>>
     ELSE /\ inside' = [inside EXCEPT ![m][self] = @ - 1]
          /\ IF hold[m] = 1 THEN HandOver(m)
             ELSE /\ hold' = [hold EXCEPT ![m] = @ - 1]
                  /\ UNCHANGED <<k, pc, value, owner, original_priority>>
          /\ UNCHANGED <<object, alive>>

Reschedule == ScheduleAt("sched", "run") /\ UNCHANGED mutexvars

\* rt_mutex_delete (rt_mutex_detach) of a mutex, held or not.
Delete(m) ==
  /\ Free(m) /\ m \in Deleted
  /\ alive' = alive \ {m}
  /\ object' = [object EXCEPT ![self] = m]
  /\ Goto("scan")
  /\ UNCHANGED <<k, value, owner, original_priority, hold, inside>>

DeleteTest == At("scan") /\ ResumeAllTest(object[self]) /\ UNCHANGED mutexvars
DeleteTurn == At("resume") /\ ResumeAllTurn(object[self]) /\ UNCHANGED mutexvars

Next ==
  \/ CpuStep /\ UNCHANGED mutexvars
  \/ \E m \in Mutex : TakeNow(m) \/ Release(m) \/ Delete(m)
  \/ \E m \in Mutex, time \in Times : TakeWait(m, time)
  \/ TakeSchedule \/ TakeReturn \/ Reschedule
  \/ DeleteTest \/ DeleteTurn

Spec == Init /\ [][Next]_vars

-----------------------------------------------------------------------------
(* Properties *)

\* The thread the mutex was handed to while it was not running.
Heir(m) == {t \in Thread : /\ pc[t] \in {"take", "taken"} /\ object[t] = m
                           /\ k.stat[t] = "ready" /\ k.error[t] = "ok"}

\* At most one thread is inside a mutex or entitled to enter it, it is the
\* owner, and hold counts its takes: neither a timeout nor a release in the
\* middle of a take lets a second one in or leaves the mutex without an owner
\* while others wait for it.
MutualExclusion ==
  \A m \in alive :
    /\ value[m] = 1 <=> owner[m] = NoThread
    /\ value[m] = 0 <=> hold[m] > 0
    /\ \A t \in Thread : Holds(t, m) \/ t \in Heir(m) => owner[m] = t
    /\ owner[m] # NoThread =>
         hold[m] = inside[m][owner[m]] + Cardinality(Heir(m))
    /\ Waiters(m) # {} => owner[m] \in Thread \ Waiters(m)

\* A thread outside every mutex runs at the priority it was created with
\* ("change the owner thread to original priority", ipc.c:811), however often
\* it was raised, waited or gave up.
PriorityRestored ==
  \A t \in Thread :
    (\A m \in Mutex : owner[m] # t) => k.current_priority[t] = init_priority[t]

\* Nobody waits for a mutex whose owner has a lower priority: the owner
\* inherits it ("mutexes that prevent priority inversion", ChangeLog_CN.md:1593,
\* examples/kernel/mutex_simple.c:22 tests it).
OwnerInherits ==
  \A m \in alive : \A t \in Waiters(m) :
    k.current_priority[owner[m]] <= k.current_priority[t]

\* The current thread is of the highest ready priority, or in a call that will
\* come to rt_schedule.
RunsHighest ==
  self \in Thread /\ pc[self] \in {"run", "taken", "scan", "resume"}
  => \A p \in k.ready_group : k.current_priority[self] <= p

\* The last release of m, with nobody waiting, which puts the owner back to the
\* priority of its take: ipc.c:811 changes it and does not call rt_schedule.
DemotesItself(m) ==
  /\ Release(m) /\ owner[m] = self /\ hold[m] = 1
  /\ FirstThread(k, m) = Wild /\ Restored(m) # k

\* Every other step keeps the CPU with the highest priority, but for a turn of
\* rt_ipc_list_resume_all: boost, handover, timeout, time slice and start of a
\* thread are each followed by rt_schedule where it matters.
KeepsHighest ==
  DeleteTurn \/ (\E m \in Mutex : DemotesItself(m)) \/ (RunsHighest => RunsHighest')

HighestRuns == [][KeepsHighest]_vars

\* No thread is held up by one of lower priority, neither at a mutex nor at the
\* processor: inheritance follows the waiters as they come, give up and are
\* handed the mutex (nobody waits at first), and no step but the two exceptions
\* of KeepsHighest leaves a change of it without rt_schedule.
RightThreadRuns == [][OwnerInherits' /\ KeepsHighest]_vars
=============================================================================
