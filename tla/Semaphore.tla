------------------------------ MODULE Semaphore ------------------------------
(***************************************************************************)
(* The semaphore of src/ipc.c: rt_sem_take (with rt_sem_trytake),          *)
(* rt_sem_release by a thread and by an interrupt, rt_sem_control and      *)
(* rt_sem_delete, with the timeouts that race with them.                   *)
(***************************************************************************)
EXTENDS Ipc

CONSTANTS sem,         \* the semaphore, and the head of its wait list
          sem_flag,    \* its RT_IPC_FLAG
          InitValue,   \* value given to rt_sem_create
          ValueLimit,  \* 2^16: value is an rt_uint16_t
          SupplyMax,   \* bound: permits in circulation
          Times,       \* the time arguments the application uses
          Calls        \* which of "reset", "delete" the application uses

ASSUME SemaphoreType == /\ sem \in Queue
                        /\ sem_flag \in Flag
                        /\ ValueLimit \in Nat \ {0}
                        /\ InitValue \in 0 .. ValueLimit - 1
                        /\ SupplyMax \in InitValue .. ValueLimit - 1
                        /\ Times \subseteq Time

VARIABLES value,   \* sem->value
          alive,   \* FALSE once rt_sem_delete was called
          held,    \* ghost: permits each thread has taken and not released
          supply   \* ghost: permits in circulation

vars == <<k, pc, value, alive, held, supply>>
semvars == <<value, alive, held, supply>>

Label == {"run", "sched",
          "take",    \* rt_sem_take before rt_schedule
          "taken",   \* rt_sem_take after rt_schedule
          "scan",    \* rt_ipc_list_resume_all before its test of the list
          "resume",  \* rt_ipc_list_resume_all after it
          "reset"}   \* the loop in rt_sem_control, interrupts disabled

TypeOK ==
  /\ k \in KernelType
  /\ pc \in [Thread -> Label]
  /\ value \in 0 .. ValueLimit - 1
  /\ alive \in BOOLEAN
  /\ held \in [Thread -> Nat]
  /\ supply \in Int

Waiters == ToSet(k.list[sem])

Init ==
  /\ IpcInit
  /\ value = InitValue
  /\ alive = TRUE
  /\ held = [t \in Thread |-> 0]
  /\ supply = InitValue

\* Threads that have been resumed and have not returned from rt_sem_take:
\* each was given a permit, or was told that it gets none.
Between == {t \in Thread : pc[t] \in {"take", "taken"} /\ k.stat[t] = "ready"}
Granted == {t \in Between : k.error[t] = "ok"}
Refused == Between \ Granted

\* Permits that threads hold or are about to return with.
HeldPermits == UNION {{t} \X (1 .. held[t]) : t \in Thread}
InUse == Cardinality(HeldPermits) + Cardinality(Granted)

-----------------------------------------------------------------------------
Free == At("run") /\ alive

\* rt_sem_take with a permit available, or with RT_WAITING_NO.
TakeNow(time) ==
  /\ Free
  /\ value > 0 \/ time = "no"
  /\ IF value > 0
     THEN /\ value' = value - 1
          /\ held' = [held EXCEPT ![self] = @ + 1]
     ELSE UNCHANGED <<value, held>>
  /\ UNCHANGED <<k, pc, alive, supply>>

TakeWait(time) ==
  /\ Free
  /\ value = 0 /\ time # "no"
  /\ k' = Wait(k, sem, self, sem_flag, time)
  /\ Goto("take")
  /\ UNCHANGED semvars

TakeSchedule == ScheduleAt("take", "taken") /\ UNCHANGED semvars

\* After rt_schedule the thread returns its error, or the permit is its own.
TakeReturn ==
  /\ At("taken")
  /\ held' = [held EXCEPT ![self] = IF k.error[self] = "ok" THEN @ + 1 ELSE @]
  /\ Goto("run")
  /\ UNCHANGED <<k, value, alive, supply>>

\* Faulty variant: the waiter is not resumed.
ReleaseWithoutResume == value' = (value + 1) % ValueLimit /\ UNCHANGED k

\* The critical section of rt_sem_release.
ReleaseSection ==
  IF rt_list_isempty(k.list[sem])
  THEN /\ value' = (value + 1) % ValueLimit
       /\ UNCHANGED k
  ELSE /\ k' = rt_ipc_list_resume(k, sem)
       /\ UNCHANGED value

\* A thread gives back a permit it holds.
Release ==
  /\ Free /\ held[self] > 0
  /\ ReleaseSection
  /\ held' = [held EXCEPT ![self] = @ - 1]
  /\ IF rt_list_isempty(k.list[sem]) THEN UNCHANGED pc ELSE Goto("sched")
  /\ UNCHANGED <<alive, supply>>

Reschedule == ScheduleAt("sched", "run") /\ UNCHANGED semvars

\* An interrupt releases the semaphore.
IsrRelease ==
  /\ InterruptsOn /\ alive /\ supply < SupplyMax
  /\ IF rt_list_isempty(k.list[sem])
     THEN value' = (value + 1) % ValueLimit /\ UNCHANGED k
     ELSE k' = rt_schedule(rt_ipc_list_resume(k, sem)) /\ UNCHANGED value
  /\ supply' = supply + 1
  /\ UNCHANGED <<pc, alive, held>>

\* rt_sem_delete (rt_sem_detach): rt_ipc_list_resume_all with interrupts
\* enabled between two waiters; no rt_schedule at the end.
Delete ==
  /\ Free /\ "delete" \in Calls
  /\ alive' = FALSE
  /\ Goto("scan")
  /\ UNCHANGED <<k, value, held, supply>>

DeleteTest == ResumeAllTest(sem) /\ UNCHANGED semvars
DeleteTurn == ResumeAllTurn(sem) /\ UNCHANGED semvars

-----------------------------------------------------------------------------
\* RT_IPC_CMD_RESET: the same loop with interrupts disabled, then the value
\* is set and rt_schedule called.
Reset ==
  /\ Free /\ "reset" \in Calls /\ supply - value + InitValue <= SupplyMax
  /\ Goto("reset")
  /\ UNCHANGED <<k, semvars>>

ResetResume ==
  /\ At("reset")
  /\ ~rt_list_isempty(k.list[sem])
  /\ k' = ResumeWithError(k, sem)
  /\ UNCHANGED <<pc, semvars>>

\* Faulty variant: the value is set while threads still wait.
ResetTooEarly ==
  /\ At("reset")
  /\ value' = InitValue
  /\ supply' = supply - value + InitValue
  /\ Goto("sched")
  /\ UNCHANGED <<k, alive, held>>

ResetValue ==
  /\ At("reset")
  /\ rt_list_isempty(k.list[sem])
  /\ value' = InitValue
  /\ supply' = supply - value + InitValue
  /\ Goto("sched")
  /\ UNCHANGED <<k, alive, held>>

Next ==
  \/ CpuStep /\ UNCHANGED semvars
  \/ \E time \in Times : TakeNow(time) \/ TakeWait(time)
  \/ TakeSchedule \/ TakeReturn
  \/ Release \/ Reschedule \/ IsrRelease
  \/ Delete \/ DeleteTest \/ DeleteTurn
  \/ Reset \/ ResetResume \/ ResetValue

Spec == Init /\ [][Next]_vars

\* What the application must do for nobody to starve: permits keep being
\* released; the clock interrupt is the machine's part.
FairSpec ==
  /\ Spec
  /\ []<><<Release>>_vars
  /\ WF_vars(Tick /\ UNCHANGED semvars)

-----------------------------------------------------------------------------
(* Properties *)

\* No permit is lost or made: what is free, held, or on its way to a resumed
\* waiter is what was put in, whichever way timeouts, releases and a reset
\* fall between the steps of the takes.
PermitsConserved == value + InUse = supply

\* A permit is never free while a thread waits for one.
NoIdlePermit == value > 0 => Waiters = {}

\* rt_sem_delete wakes everybody, one critical section per waiter: it never
\* takes the head of an empty list for a thread ("get next suspend thread",
\* ipc.c:180), and once it is through nobody is left on the list of the freed
\* object.
DeletedHasNoWaiter ==
  /\ (self \in Thread /\ pc[self] = "resume") => Waiters # {}
  /\ ~alive /\ (\A t \in Thread : pc[t] \notin {"scan", "resume"})
       => Waiters = {}

\* A thread in rt_sem_take is on the wait list or on its way out, and the
\* wait list holds no other thread.
TakersAccounted ==
  Waiters = {t \in Thread : /\ pc[t] \in {"take", "taken"}
                            /\ k.stat[t] = "suspend"}

\* Taken together the semaphore is the abstract one.
Abs == INSTANCE CountingSemaphore WITH
         waiting <- Waiters, granted <- Granted, refused <- Refused

ImplementsCountingSemaphore == Abs!AbsSpec

\* First come, first served: with RT_IPC_FLAG_FIFO no waiter is passed over
\* for ever, however the others take, release and give up.
FifoStarvesNobody ==
  \A t \in Thread : t \in Waiters ~> t \notin Waiters
=============================================================================
