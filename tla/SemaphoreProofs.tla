-------------------------- MODULE SemaphoreProofs --------------------------
(***************************************************************************)
(* The semaphore keeps its invariants, for any threads, priorities, initial *)
(* value and uses of it, and implements CountingSemaphore.                  *)
(*                                                                         *)
(* Every step is first reduced to what it does to the threads in            *)
(* rt_sem_take (one of the predicates Quiet, Waits, Wakes, Returns) and to  *)
(* the value; the theorems follow from these.                               *)
(*                                                                         *)
(* And the event misses no thread and delivers the bits that were set: the *)
(* loop of rt_event_send is a function of its turns, and LoopInv holds     *)
(* after each of them.                                                     *)
(***************************************************************************)
EXTENDS Semaphore, Event, IpcProofs, FiniteSetTheorems

Taking == {t \in Thread : pc[t] \in {"take", "taken"}}

\* Whoever waits has not been told anything yet.
WaitersHaveNoError == \A t \in Waiters : k.error[t] = "ok"

\* Threads are in one place, permits and waiters exclude each other, and a
\* thread on the list is in rt_sem_take.
SemInv ==
  /\ CpuInv
  /\ TypeOK
  /\ TakersAccounted
  /\ NoIdlePermit
  /\ WaitersHaveNoError

SameErrors(S) == \A t \in S : k'.error[t] = k.error[t]

Quiet == Waiters' = Waiters /\ Taking' = Taking /\ SameErrors(Taking)

Waits(t) == /\ t \in Thread \ Taking
            /\ Waiters' = Waiters \cup {t} /\ Taking' = Taking \cup {t}
            /\ k'.error[t] = "ok" /\ SameErrors(Taking)

Wakes(t, e) == /\ t \in Waiters
               /\ Waiters' = Waiters \ {t} /\ Taking' = Taking
               /\ k'.error[t] = e /\ SameErrors(Taking \ {t})

Returns(t) == /\ t \in Taking \ Waiters
              /\ Waiters' = Waiters /\ Taking' = Taking \ {t}
              /\ SameErrors(Taking)

SameLedger == held' = held /\ supply' = supply

Takes(t) == /\ held' = [held EXCEPT ![t] = @ + 1]
            /\ supply' = supply

\* A thread gives back a permit it holds, or an interrupt adds one.
Gives == \/ \E t \in Thread : /\ held[t] > 0
                             /\ held' = [held EXCEPT ![t] = @ - 1]
                             /\ supply' = supply
         \/ supply < SupplyMax /\ supply' = supply + 1 /\ held' = held

\* What any step does to the takers, the value and the ghosts that count
\* permits.
TakerStep ==
  \/ Quiet /\ value' = value /\ SameLedger
  \/ Quiet /\ value > 0 /\ value' = value - 1 /\ \E t \in Thread : Takes(t)
  \/ Quiet /\ Waiters = {} /\ value' = (value + 1) % ValueLimit /\ Gives
  \/ /\ Quiet /\ Waiters = {} /\ value' = InitValue /\ held' = held
     /\ supply' = supply - value + InitValue
  \/ value = 0 /\ value' = value /\ SameLedger /\ \E t \in Thread : Waits(t)
  \/ value' = value /\ Gives /\ \E t \in Thread : Wakes(t, "ok")
  \/ /\ value' = value /\ SameLedger
     /\ \E t \in Thread, e \in Error \ {"ok"} : Wakes(t, e)
  \/ /\ value' = value
     /\ \E t \in Thread : /\ Returns(t)
                         /\ IF k.error[t] = "ok" THEN Takes(t) ELSE SameLedger

StepOutcome == CpuInv' /\ TypeOK' /\ TakersAccounted' /\ TakerStep

-----------------------------------------------------------------------------
(* The sets in terms of each other *)

LEMMA TakersAreSleepers ==
  /\ TakersAccounted <=> Waiters = Taking \cap Sleepers(k)
  /\ TakersAccounted' <=> Waiters' = Taking' \cap Sleepers(k')
  /\ Waiters = Nodes(k, sem) /\ Waiters' = Nodes(k', sem)
BY DEF TakersAccounted, Taking, Sleepers, Waiters, Nodes

LEMMA TypeFromCpuInv ==
  ASSUME TypeOK, CpuInv', pc' \in [Thread -> Label],
         value' \in 0 .. ValueLimit - 1, alive' \in BOOLEAN,
         held' \in [Thread -> Nat], supply' \in Int
  PROVE  TypeOK'
BY DEF TypeOK, CpuInv, KernelInv

LEMMA InitEstablishesSemInv == Init => SemInv
<1> SUFFICES ASSUME Init PROVE SemInv
  OBVIOUS
<1>1. CpuInv /\ Waiters = {}
  BY IpcInitEstablishesInv, SemaphoreType DEF Init, Waiters, Nodes
<1>2. TypeOK
  BY <1>1, SemaphoreType
     DEF Init, TypeOK, IpcInit, Label, CpuInv, KernelInv
<1>3. TakersAccounted
  BY <1>1 DEF Init, IpcInit, TakersAccounted
<1>4. QED
  BY <1>1, <1>2, <1>3 DEF SemInv, NoIdlePermit, WaitersHaveNoError

-----------------------------------------------------------------------------
(* The steps of the CPU *)

LEMMA StartupOutcome ==
  ASSUME SemInv, NEW t \in Thread, Startup(t), UNCHANGED semvars
  PROVE  StepOutcome
<1>1. CpuInv' /\ SameWaiters(k, k') /\ UNCHANGED pc
  BY StartupStep DEF SemInv
<1>2. Waiters' = Waiters /\ Taking' = Taking /\ TakersAccounted'
  BY <1>1, TakersAreSleepers, SemaphoreType DEF SemInv, SameWaiters, Taking
<1>3. TypeOK'
  BY <1>1, TypeFromCpuInv DEF SemInv, TypeOK, semvars
<1>4. QED
  BY <1>1, <1>2, <1>3 DEF StepOutcome, TakerStep, Quiet, SameErrors,
                           SameWaiters, semvars, SameLedger

LEMMA TickOutcome ==
  ASSUME SemInv, Tick, UNCHANGED semvars
  PROVE  StepOutcome
<1>1. CpuInv' /\ SameWaiters(k, k') /\ UNCHANGED pc
  BY TickStep DEF SemInv
<1>2. Waiters' = Waiters /\ Taking' = Taking /\ TakersAccounted'
  BY <1>1, TakersAreSleepers, SemaphoreType DEF SemInv, SameWaiters, Taking
<1>3. TypeOK'
  BY <1>1, TypeFromCpuInv DEF SemInv, TypeOK, semvars
<1>4. QED
  BY <1>1, <1>2, <1>3 DEF StepOutcome, TakerStep, Quiet, SameErrors,
                           SameWaiters, semvars, SameLedger

LEMMA DelayOutcome ==
  ASSUME SemInv, Delay, UNCHANGED semvars
  PROVE  StepOutcome
<1>1. pc \in [Thread -> Label]
  BY DEF SemInv, TypeOK
<1>2. /\ CpuInv' /\ Nodes(k', sem) = Nodes(k, sem)
      /\ Sleepers(k') = Sleepers(k) \cup {self} /\ k'.error = k.error
      /\ pc[self] = "run" /\ self \in Thread
      /\ pc' = [pc EXCEPT ![self] = "sched"]
  BY <1>1, DelayStep, SemaphoreType DEF SemInv
<1>3. self \notin Taking
  BY <1>2 DEF Taking
<1>4. Taking' = Taking \ {self}
  BY <1>1, <1>2 DEF Taking
<1>5. Waiters' = Waiters /\ Taking' = Taking /\ TakersAccounted'
  BY <1>2, <1>3, <1>4, TakersAreSleepers DEF SemInv
<1>6. pc' \in [Thread -> Label]
  BY <1>1, <1>2 DEF Label
<1>7. TypeOK'
  BY <1>2, <1>6, TypeFromCpuInv DEF SemInv, TypeOK, semvars
<1>8. QED
  BY <1>2, <1>5, <1>7 DEF StepOutcome, TakerStep, Quiet, SameErrors, semvars, SameLedger

\* A timeout wakes a waiter, or a thread that only sleeps.
LEMMA TimerCheckOutcome ==
  ASSUME SemInv, NEW t \in Thread, TimerCheck(t), UNCHANGED semvars
  PROVE  StepOutcome
<1>1. /\ CpuInv' /\ UNCHANGED pc /\ t \in Sleepers(k)
      /\ Nodes(k', sem) = Nodes(k, sem) \ {t}
      /\ k'.stat = [k.stat EXCEPT ![t] = "ready"]
      /\ k'.error = [k.error EXCEPT ![t] = "timeout"]
  BY TimerCheckStep, SemaphoreType DEF SemInv
<1>2. Sleepers(k') = Sleepers(k) \ {t} /\ Taking' = Taking
  BY <1>1 DEF Sleepers, SemInv, TypeOK, KernelType, Taking
<1>3. Waiters' = Waiters \ {t} /\ TakersAccounted'
  BY <1>1, <1>2, TakersAreSleepers DEF SemInv
<1>4. TypeOK'
  BY <1>1, TypeFromCpuInv DEF SemInv, TypeOK, semvars
<1>5. k.error \in [Thread -> Error] /\ Taking \subseteq Thread
  BY DEF SemInv, TypeOK, KernelType, Taking
<1>6. CASE t \in Waiters
  <2>1. Wakes(t, "timeout") /\ "timeout" \in Error \ {"ok"}
    BY <1>1, <1>2, <1>3, <1>5, <1>6 DEF Wakes, SameErrors, Error
  <2>2. QED
    BY <1>1, <1>3, <1>4, <2>1 DEF StepOutcome, TakerStep, semvars, SameLedger
<1>7. CASE t \notin Waiters
  <2>1. t \notin Taking
    BY <1>1, <1>7, TakersAreSleepers DEF SemInv
  <2>2. Quiet
    BY <1>1, <1>2, <1>3, <1>5, <1>7, <2>1 DEF Quiet, SameErrors
  <2>3. QED
    BY <1>1, <1>3, <1>4, <2>2 DEF StepOutcome, TakerStep, semvars, SameLedger
<1>8. QED
  BY <1>6, <1>7
-----------------------------------------------------------------------------
(* The steps of the calls *)

\* What holds where a call runs with the CPU its own.
LEMMA AtRun ==
  ASSUME SemInv, NEW label, At(label), label \notin AboutToSchedule
  PROVE  /\ self \in Thread \ {Idle} /\ pc[self] = label
         /\ k.stat[self] = "ready" /\ self \notin Sleepers(k)
         /\ self \notin Waiters
<1>1. self \in Thread \ {Idle} /\ k.stat[self] = "ready" /\ pc[self] = label
  BY RunnerIsReady DEF SemInv
<1>2. QED
  BY <1>1, TakersAreSleepers DEF SemInv, Sleepers

LEMMA TakeNowOutcome ==
  ASSUME SemInv, NEW time, TakeNow(time)
  PROVE  StepOutcome
<1>1. At("run") /\ "run" \notin AboutToSchedule
  BY DEF TakeNow, Free, AboutToSchedule
<1>2. self \in Thread
  BY <1>1, AtRun
<1>3. /\ k' = k /\ pc' = pc /\ alive' = alive /\ supply' = supply
      /\ \/ value' = value /\ held' = held
         \/ value > 0 /\ value' = value - 1 /\ held' = [held EXCEPT ![self] = @ + 1]
  BY DEF TakeNow
<1>4. CpuInv'
  BY <1>3 DEF SemInv, CpuInv
<1>5. value' \in 0 .. ValueLimit - 1 /\ held' \in [Thread -> Nat]
  BY <1>2, <1>3, SemaphoreType DEF SemInv, TypeOK
<1>6. TypeOK'
  BY <1>3, <1>4, <1>5, TypeFromCpuInv DEF SemInv, TypeOK
<1>7. Quiet /\ TakersAccounted'
  BY <1>3 DEF Quiet, Waiters, Taking, SameErrors, SemInv, TakersAccounted
<1>8. QED
  BY <1>2, <1>3, <1>4, <1>6, <1>7 DEF StepOutcome, TakerStep, Takes, SameLedger

LEMMA TakeWaitOutcome ==
  ASSUME SemInv, NEW time, TakeWait(time)
  PROVE  StepOutcome
<1>1. At("run") /\ "run" \notin AboutToSchedule
  BY DEF TakeWait, Free, AboutToSchedule
<1>2. /\ self \in Thread \ {Idle} /\ pc[self] = "run"
      /\ k.stat[self] = "ready" /\ self \notin Sleepers(k)
  BY <1>1, AtRun
<1>3. /\ k' = Wait(k, sem, self, sem_flag, time) /\ value = 0
      /\ pc' = [pc EXCEPT ![self] = "take"] /\ UNCHANGED semvars
  BY DEF TakeWait, Goto
<1>4. /\ KernelInv(k', {}) /\ PutToSleep(k, k', sem, self)
      /\ k'.error = [k.error EXCEPT ![self] = "ok"]
  BY <1>2, <1>3, WaitKeepsInv, SemaphoreType DEF SemInv, CpuInv
<1>5. /\ pc \in [Thread -> Label] /\ pc' \in [Thread -> Label]
      /\ k.stat \in [Thread -> Stat] /\ k.error \in [Thread -> Error]
      /\ Taking \subseteq Thread
  BY <1>3 DEF SemInv, TypeOK, Label, KernelType, Taking
<1>6. CpuInv'
  <2>1. k'.current_thread = self /\ k'.lock_nest = 0
    BY <1>4 DEF PutToSleep, SemInv, CpuInv, self
  <2>2. k'.stat = [k.stat EXCEPT ![self] = "suspend"]
    BY <1>4 DEF PutToSleep
  <2>3. \A x \in Thread : /\ k'.stat[x] \in {"init", "ready", "suspend"}
                          /\ k'.stat[x] = "init" => pc'[x] = "run"
    BY <1>3, <1>5, <2>2 DEF SemInv, CpuInv
  <2>4. k'.current_thread \in Thread /\ pc'[k'.current_thread] \in AboutToSchedule
    BY <1>2, <1>3, <1>5, <2>1 DEF AboutToSchedule
  <2>5. QED
    BY <1>4, <2>1, <2>3, <2>4 DEF CpuInv
<1>7. TypeOK'
  BY <1>3, <1>5, <1>6, TypeFromCpuInv DEF SemInv, TypeOK, semvars
<1>8. Nodes(k', sem) = Nodes(k, sem) \cup {self}
  BY <1>4, SemaphoreType DEF PutToSleep
<1>9. Sleepers(k') = Sleepers(k) \cup {self}
  BY <1>2, <1>4, <1>5 DEF PutToSleep, Sleepers
<1>10. Taking' = Taking \cup {self} /\ self \notin Taking
  BY <1>2, <1>3, <1>5 DEF Taking
<1>11. TakersAccounted'
  BY <1>2, <1>8, <1>9, <1>10, TakersAreSleepers DEF SemInv
<1>12. Waits(self)
  BY <1>2, <1>4, <1>5, <1>8, <1>10, TakersAreSleepers DEF Waits, SameErrors
<1>13. QED
  BY <1>2, <1>3, <1>6, <1>7, <1>11, <1>12 DEF StepOutcome, TakerStep, semvars, SameLedger

\* A rt_schedule of the calls: at "take", or at "sched".
LEMMA ScheduleOutcome ==
  ASSUME SemInv, UNCHANGED semvars,
         \/ ScheduleAt("take", "taken")
         \/ ScheduleAt("sched", "run")
  PROVE  StepOutcome
<1>1. pc \in [Thread -> Label]
  BY DEF SemInv, TypeOK
<1>2. /\ CpuInv' /\ SameWaiters(k, k')
      /\ pc' \in [Thread -> Label] /\ Taking' = Taking
  <2>1. CASE ScheduleAt("take", "taken")
    <3>1. /\ CpuInv' /\ SameWaiters(k, k') /\ pc[self] = "take"
          /\ self \in Thread /\ pc' = [pc EXCEPT ![self] = "taken"]
      BY <1>1, <2>1, ScheduleAtStep DEF SemInv
    <3>2. QED
      BY <1>1, <3>1 DEF Label, Taking
  <2>2. CASE ScheduleAt("sched", "run")
    <3>1. /\ CpuInv' /\ SameWaiters(k, k') /\ pc[self] = "sched"
          /\ self \in Thread /\ pc' = [pc EXCEPT ![self] = "run"]
      BY <1>1, <2>2, ScheduleAtStep DEF SemInv
    <3>2. QED
      BY <1>1, <3>1 DEF Label, Taking
  <2>3. QED
    BY <2>1, <2>2
<1>3. Waiters' = Waiters /\ TakersAccounted'
  BY <1>2, TakersAreSleepers, SemaphoreType DEF SemInv, SameWaiters
<1>4. TypeOK'
  BY <1>2, TypeFromCpuInv DEF SemInv, TypeOK, semvars
<1>5. QED
  BY <1>2, <1>3, <1>4 DEF StepOutcome, TakerStep, Quiet, SameErrors,
                           SameWaiters, semvars, SameLedger

LEMMA TakeReturnOutcome ==
  ASSUME SemInv, TakeReturn
  PROVE  StepOutcome
<1>1. At("taken") /\ "taken" \notin AboutToSchedule
  BY DEF TakeReturn, AboutToSchedule
<1>2. /\ self \in Thread /\ pc[self] = "taken"
      /\ k.stat[self] = "ready" /\ self \notin Waiters
  BY <1>1, AtRun
<1>3. /\ k' = k /\ pc' = [pc EXCEPT ![self] = "run"]
      /\ value' = value /\ alive' = alive /\ supply' = supply
      /\ held' \in [Thread -> Nat]
      /\ IF k.error[self] = "ok" THEN Takes(self) ELSE SameLedger
  <2>1. held \in [Thread -> Nat]
    BY DEF SemInv, TypeOK
  <2>2. held' = [held EXCEPT ![self] = IF k.error[self] = "ok" THEN @ + 1 ELSE @]
    BY DEF TakeReturn
  <2>3. held' \in [Thread -> Nat]
    BY <1>2, <2>1, <2>2
  <2>4. CASE k.error[self] = "ok"
    BY <2>1, <2>2, <2>3, <2>4 DEF TakeReturn, Goto, Takes
  <2>5. CASE k.error[self] # "ok"
    <3>1. held' = held
      BY <1>2, <2>1, <2>2, <2>5
    <3>2. QED
      BY <2>3, <2>5, <3>1 DEF TakeReturn, Goto, SameLedger
  <2>6. QED
    BY <2>4, <2>5
<1>4. pc \in [Thread -> Label] /\ pc' \in [Thread -> Label]
  BY <1>3 DEF SemInv, TypeOK, Label
<1>5. CpuInv'
  BY <1>2, <1>3, <1>4, PcStepKeepsCpuInv DEF SemInv
<1>6. TypeOK'
  BY <1>3, <1>4, <1>5, TypeFromCpuInv DEF SemInv, TypeOK
<1>7. Taking' = Taking \ {self} /\ self \in Taking
  BY <1>2, <1>3, <1>4 DEF Taking
<1>8. Waiters' = Waiters /\ Sleepers(k') = Sleepers(k)
  BY <1>3 DEF Waiters, Sleepers
<1>9. TakersAccounted'
  BY <1>2, <1>7, <1>8, TakersAreSleepers DEF SemInv
<1>10. Returns(self)
  BY <1>2, <1>3, <1>7, <1>8 DEF Returns, SameErrors
<1>11. QED
  BY <1>2, <1>3, <1>5, <1>6, <1>9, <1>10 DEF StepOutcome, TakerStep

\* The first waiter is woken with error e: what holds of the takers after.
LEMMA WakesFirst ==
  ASSUME SemInv, NEW t \in Thread, t \in Waiters, NEW e \in Error,
         WokenUp(k, k', t), Taking' = Taking,
         k'.error[t] = e, \A s \in Thread \ {t} : k'.error[s] = k.error[s]
  PROVE  Wakes(t, e) /\ TakersAccounted'
<1>1. Nodes(k', sem) = Nodes(k, sem) \ {t} /\ k'.stat = [k.stat EXCEPT ![t] = "ready"]
  BY SemaphoreType DEF WokenUp
<1>2. Sleepers(k') = Sleepers(k) \ {t}
  BY <1>1 DEF Sleepers, SemInv, TypeOK, KernelType
<1>3. QED
  BY <1>1, <1>2, TakersAreSleepers DEF SemInv, Wakes, SameErrors, Taking

\* Incrementing the value while nobody waits.
LEMMA ValueWraps ==
  ASSUME TypeOK
  PROVE  (value + 1) % ValueLimit \in 0 .. ValueLimit - 1
BY SemaphoreType DEF TypeOK

\* Both branches of the critical section of rt_sem_release.
LEMMA ReleaseSectionEffect ==
  ASSUME SemInv, ReleaseSection, pc' \in [Thread -> Label], Taking' = Taking
  PROVE  \/ /\ k' = k /\ Waiters = {} /\ value' = (value + 1) % ValueLimit
            /\ rt_list_isempty(k.list[sem])
         \/ /\ value' = value /\ ~rt_list_isempty(k.list[sem])
            /\ KernelInv(k', {}) /\ WokenUp(k, k', FirstThread(k, sem))
            /\ k.stat[FirstThread(k, sem)] = "suspend"
            /\ Wakes(FirstThread(k, sem), "ok")
            /\ FirstThread(k, sem) \in Thread
            /\ TakersAccounted'
<1> DEFINE t == FirstThread(k, sem)
<1>1. KernelInv(k, {}) /\ sem \in Queue
  BY SemaphoreType DEF SemInv, CpuInv
<1>2. CASE rt_list_isempty(k.list[sem])
  <2>1. Waiters = {}
    BY <1>2, EmptyList DEF rt_list_isempty, Waiters, ToSet
  <2>2. QED
    BY <1>2, <2>1 DEF ReleaseSection
<1>3. CASE ~rt_list_isempty(k.list[sem])
  <2>1. k' = rt_ipc_list_resume(k, sem) /\ value' = value
    BY <1>3 DEF ReleaseSection
  <2>2. /\ KernelInv(k', {}) /\ WokenUp(k, k', t) /\ k'.error = k.error
    BY <1>1, <1>3, <2>1, ListResumeKeepsInv
  <2>3. t \in Thread /\ t \in Waiters /\ k.stat[t] = "suspend"
    BY <1>1, <1>3, FirstWaiter, TakersAreSleepers
  <2> HIDE DEF t
  <2>4. k.error[t] = "ok" /\ "ok" \in Error
    BY <2>3 DEF SemInv, WaitersHaveNoError, Error
  <2>5. k'.error[t] = "ok" /\ \A s \in Thread \ {t} : k'.error[s] = k.error[s]
    BY <2>2, <2>4
  <2>6. Wakes(t, "ok") /\ TakersAccounted'
    BY <2>2, <2>3, <2>4, <2>5, WakesFirst
  <2>7. QED
    BY <1>3, <2>1, <2>2, <2>3, <2>6 DEF t
<1>4. QED
  BY <1>2, <1>3

LEMMA ReleaseOutcome ==
  ASSUME SemInv, Release
  PROVE  StepOutcome
<1> DEFINE t == FirstThread(k, sem)
           empty == rt_list_isempty(k.list[sem])
<1>1. At("run") /\ "run" \notin AboutToSchedule
  BY DEF Release, Free, AboutToSchedule
<1>2. /\ self \in Thread /\ pc[self] = "run"
      /\ k.stat[self] = "ready"
  BY <1>1, AtRun
<1>3. /\ ReleaseSection /\ alive' = alive /\ supply' = supply
      /\ pc' = IF empty THEN pc ELSE [pc EXCEPT ![self] = "sched"]
      /\ held[self] > 0 /\ held' = [held EXCEPT ![self] = @ - 1]
  BY DEF Release, Goto
<1>4. pc \in [Thread -> Label] /\ held \in [Thread -> Nat]
  BY DEF SemInv, TypeOK
<1>5. pc' \in [Thread -> Label] /\ Taking' = Taking
  BY <1>2, <1>3, <1>4 DEF Label, Taking
<1>6. held' \in [Thread -> Nat] /\ Gives
  <2>1. held' \in [Thread -> Nat]
    BY <1>2, <1>3, <1>4
  <2>2. QED
    BY <1>2, <1>3, <2>1 DEF Gives
<1> HIDE DEF t
<1>7. CASE empty
  <2>1. k' = k /\ pc' = pc /\ Waiters = {} /\ value' = (value + 1) % ValueLimit
    BY <1>3, <1>5, <1>7, ReleaseSectionEffect
  <2>2. CpuInv' /\ Waiters' = Waiters /\ SameErrors(Taking) /\ TakersAccounted'
    BY <2>1 DEF SemInv, CpuInv, Waiters, SameErrors, TakersAccounted
  <2>3. value' \in 0 .. ValueLimit - 1
    BY <2>1, ValueWraps DEF SemInv
  <2>4. TypeOK'
    BY <1>3, <1>5, <1>6, <2>2, <2>3, TypeFromCpuInv DEF SemInv, TypeOK
  <2>5. QED
    BY <1>5, <1>6, <2>1, <2>2, <2>4 DEF StepOutcome, TakerStep, Quiet
<1>8. CASE ~empty
  <2>1. /\ value' = value /\ pc' = [pc EXCEPT ![self] = "sched"]
        /\ KernelInv(k', {}) /\ WokenUp(k, k', t)
        /\ Wakes(t, "ok") /\ t \in Thread /\ TakersAccounted'
        /\ k.stat[t] = "suspend"
    BY <1>3, <1>5, <1>8, ReleaseSectionEffect DEF t
  <2>2. CpuInv'
    BY <1>2, <1>4, <2>1, WokenUpKeepsCpuInv DEF SemInv
  <2>3. TypeOK'
    BY <1>3, <1>5, <1>6, <2>1, <2>2, TypeFromCpuInv DEF SemInv, TypeOK
  <2>4. QED
    BY <1>6, <2>1, <2>2, <2>3 DEF StepOutcome, TakerStep
<1>9. QED
  BY <1>7, <1>8

\* An interrupt may come while the running thread is about to schedule.
LEMMA IsrReleaseOutcome ==
  ASSUME SemInv, IsrRelease
  PROVE  StepOutcome
<1> DEFINE t == FirstThread(k, sem)
           empty == rt_list_isempty(k.list[sem])
           r == rt_ipc_list_resume(k, sem)
<1>1. /\ alive' = alive /\ supply' = supply + 1 /\ pc' = pc /\ held' = held
      /\ supply < SupplyMax
      /\ IF empty THEN value' = (value + 1) % ValueLimit /\ k' = k
                  ELSE k' = rt_schedule(r) /\ value' = value
  BY DEF IsrRelease
<1>2. /\ pc \in [Thread -> Label] /\ Taking' = Taking /\ supply' \in Int
      /\ KernelInv(k, {}) /\ sem \in Queue /\ k.lock_nest = 0 /\ Gives
  BY <1>1, SemaphoreType DEF SemInv, TypeOK, Taking, CpuInv, Gives
<1>3. CASE empty
  <2>1. Waiters = {} /\ k' = k /\ value' = (value + 1) % ValueLimit
    BY <1>1, <1>3, EmptyList DEF rt_list_isempty, Waiters, ToSet
  <2>2. CpuInv' /\ Waiters' = Waiters /\ SameErrors(Taking) /\ TakersAccounted'
    BY <1>1, <2>1 DEF SemInv, CpuInv, Waiters, SameErrors, TakersAccounted
  <2>3. value' \in 0 .. ValueLimit - 1
    BY <2>1, ValueWraps DEF SemInv
  <2>4. TypeOK'
    BY <1>1, <1>2, <2>2, <2>3, TypeFromCpuInv DEF SemInv, TypeOK
  <2>5. QED
    BY <1>2, <2>1, <2>2, <2>4 DEF StepOutcome, TakerStep, Quiet
<1>4. CASE ~empty
  <2>1. KernelInv(r, {}) /\ WokenUp(k, r, t) /\ r.error = k.error
    BY <1>2, <1>4, ListResumeKeepsInv
  <2>2. t \in Thread /\ t \in Waiters /\ k.stat[t] = "suspend"
    BY <1>2, <1>4, FirstWaiter, TakersAreSleepers
  <2> HIDE DEF t, r
  <2>3. /\ KernelInv(k', {}) /\ Switched(r, k')
        /\ k'.current_thread \in Thread
        /\ k'.stat[k'.current_thread] = "ready"
    <3>1. r.lock_nest = 0 /\ k' = rt_schedule(r)
      BY <1>1, <1>2, <1>4, <2>1 DEF WokenUp
    <3>2. QED
      BY <2>1, <3>1, ScheduleGivesCpu
  <2>4. k'.stat = [k.stat EXCEPT ![t] = "ready"] /\ k'.error = k.error
        /\ k'.lock_nest = 0 /\ Nodes(k', sem) = Nodes(k, sem) \ {t}
    BY <1>2, <2>1, <2>3 DEF WokenUp, Switched, SameNodes, ListHead
  <2>5. CpuInv'
    <3>1. \A x \in Thread : /\ k'.stat[x] \in {"init", "ready", "suspend"}
                            /\ k'.stat[x] = "init" => pc'[x] = "run"
      BY <1>1, <2>4 DEF SemInv, CpuInv, TypeOK, KernelType
    <3>2. QED
      BY <2>3, <2>4, <3>1 DEF CpuInv
  <2>6. TypeOK'
    BY <1>1, <1>2, <1>4, <2>5, TypeFromCpuInv DEF SemInv, TypeOK
  <2>7. Waiters' = Waiters \ {t} /\ Sleepers(k') = Sleepers(k) \ {t}
    BY <2>4, TakersAreSleepers DEF Sleepers, SemInv, TypeOK, KernelType
  <2>8. TakersAccounted'
    BY <1>2, <2>7, TakersAreSleepers DEF SemInv
  <2>9. Wakes(t, "ok")
    BY <1>2, <2>2, <2>4, <2>7
       DEF Wakes, SameErrors, SemInv, WaitersHaveNoError
  <2>10. QED
    BY <1>1, <1>2, <1>4, <2>2, <2>5, <2>6, <2>8, <2>9 DEF StepOutcome, TakerStep
<1>5. QED
  BY <1>3, <1>4

\* The steps that change no more than the running thread's place.
LEMMA PlaceOutcome ==
  ASSUME SemInv, self \in Thread, k.stat[self] = "ready", self \notin Taking,
         k' = k, NEW label, label \in Label \ {"take", "taken"},
         pc' = [pc EXCEPT ![self] = label],
         alive' \in BOOLEAN, held' = held,
         \/ value' = value /\ supply' = supply
         \/ /\ Waiters = {} /\ value' = InitValue
            /\ supply' = supply - value + InitValue
  PROVE  StepOutcome
<1>1. pc \in [Thread -> Label] /\ pc' \in [Thread -> Label]
  BY DEF SemInv, TypeOK
<1>2. CpuInv'
  BY <1>1, PcStepKeepsCpuInv DEF SemInv
<1>3. value' \in 0 .. ValueLimit - 1 /\ supply' \in Int
  BY SemaphoreType DEF SemInv, TypeOK
<1>4. TypeOK'
  BY <1>1, <1>2, <1>3, TypeFromCpuInv DEF SemInv, TypeOK
<1>5. Taking' = Taking
  BY <1>1 DEF Taking
<1>6. Quiet /\ TakersAccounted'
  BY <1>5, TakersAreSleepers DEF Quiet, Waiters, SameErrors, SemInv, Sleepers
<1>7. QED
  BY <1>2, <1>4, <1>6 DEF StepOutcome, TakerStep, SameLedger

LEMMA DeleteOutcome ==
  ASSUME SemInv, Delete \/ DeleteTest
  PROVE  StepOutcome
<1>1. CASE Delete
  <2>1. At("run") /\ "run" \notin AboutToSchedule
    BY <1>1 DEF Delete, Free, AboutToSchedule
  <2>2. self \in Thread /\ pc[self] = "run" /\ k.stat[self] = "ready"
    BY <2>1, AtRun
  <2>3. self \notin Taking
    BY <2>2 DEF Taking
  <2>4. /\ k' = k /\ pc' = [pc EXCEPT ![self] = "scan"] /\ alive' \in BOOLEAN
        /\ held' = held /\ supply' = supply /\ value' = value
        /\ "scan" \in Label \ {"take", "taken"}
    BY <1>1 DEF Delete, Goto, SemInv, TypeOK, Label
  <2>5. QED
    BY <2>2, <2>3, <2>4, PlaceOutcome
<1>2. CASE DeleteTest
  <2>1. At("scan") /\ "scan" \notin AboutToSchedule
    BY <1>2 DEF DeleteTest, ResumeAllTest, AboutToSchedule
  <2>2. self \in Thread /\ pc[self] = "scan" /\ k.stat[self] = "ready"
    BY <2>1, AtRun
  <2>3. self \notin Taking
    BY <2>2 DEF Taking
  <2>4. PICK label \in {"run", "resume"} : pc' = [pc EXCEPT ![self] = label]
    BY <1>2 DEF DeleteTest, ResumeAllTest, Goto
  <2>5. /\ k' = k /\ alive' \in BOOLEAN
        /\ held' = held /\ supply' = supply /\ value' = value
        /\ label \in Label \ {"take", "taken"}
    BY <1>2 DEF DeleteTest, ResumeAllTest, semvars, SemInv, TypeOK, Label
  <2>6. QED
    BY <2>2, <2>3, <2>4, <2>5, PlaceOutcome
<1>3. QED
  BY <1>1, <1>2

\* rt_ipc_list_resume_all and the loop of rt_sem_control refuse one waiter.
LEMMA RefuseOutcome ==
  ASSUME SemInv, UNCHANGED semvars,
         self \in Thread, k.stat[self] = "ready", self \notin Taking,
         NEW label, label \in Label \ {"take", "taken"},
         pc' = [pc EXCEPT ![self] = label],
         k' = ResumeWithError(k, sem), ~rt_list_isempty(k.list[sem])
  PROVE  StepOutcome
<1> DEFINE t == FirstThread(k, sem)
<1>1. KernelInv(k, {}) /\ sem \in Queue /\ pc \in [Thread -> Label]
  BY SemaphoreType DEF SemInv, CpuInv, TypeOK
<1>2. t \in Thread /\ t \in Waiters /\ k.stat[t] = "suspend"
  BY <1>1, FirstWaiter, TakersAreSleepers
<1>3. /\ KernelInv(k', {}) /\ WokenUp(k, k', t)
      /\ k'.error = [k.error EXCEPT ![t] = "error"]
  BY <1>1, ResumeWithErrorKeepsInv
<1> HIDE DEF t
<1>4. pc' \in [Thread -> Label] /\ Taking' = Taking
  BY <1>1 DEF Taking
<1>5. /\ "error" \in Error \ {"ok"} /\ k'.error[t] = "error"
      /\ \A s \in Thread \ {t} : k'.error[s] = k.error[s]
  BY <1>2, <1>3 DEF SemInv, TypeOK, KernelType, Error
<1>6. Wakes(t, "error") /\ TakersAccounted'
  BY <1>2, <1>3, <1>4, <1>5, WakesFirst
<1>7. CpuInv'
  BY <1>1, <1>2, <1>3, WokenUpKeepsCpuInv DEF SemInv
<1>8. TypeOK'
  BY <1>4, <1>7, TypeFromCpuInv DEF SemInv, TypeOK, semvars
<1>9. QED
  BY <1>2, <1>5, <1>6, <1>7, <1>8 DEF StepOutcome, TakerStep, semvars, SameLedger

LEMMA DeleteTurnOutcome ==
  ASSUME SemInv, DeleteTurn
  PROVE  StepOutcome
<1>1. At("resume") /\ "resume" \notin AboutToSchedule
  BY DEF DeleteTurn, ResumeAllTurn, AboutToSchedule
<1>2. self \in Thread /\ pc[self] = "resume" /\ k.stat[self] = "ready"
  BY <1>1, AtRun
<1>3. /\ self \notin Taking /\ UNCHANGED semvars
      /\ "scan" \in Label \ {"take", "taken"}
      /\ pc' = [pc EXCEPT ![self] = "scan"]
      /\ k' = ResumeWithError(k, sem) /\ ~rt_list_isempty(k.list[sem])
  BY <1>2 DEF Taking, DeleteTurn, ResumeAllTurn, Goto, Label
<1>4. QED
  BY <1>2, <1>3, RefuseOutcome

LEMMA ResetOutcome ==
  ASSUME SemInv, Reset \/ ResetResume \/ ResetValue
  PROVE  StepOutcome
<1>1. CASE Reset
  <2>1. At("run") /\ "run" \notin AboutToSchedule
    BY <1>1 DEF Reset, Free, AboutToSchedule
  <2>2. self \in Thread /\ pc[self] = "run" /\ k.stat[self] = "ready"
    BY <2>1, AtRun
  <2>3. self \notin Taking
    BY <2>2 DEF Taking
  <2>4. /\ k' = k /\ pc' = [pc EXCEPT ![self] = "reset"] /\ alive' \in BOOLEAN
        /\ held' = held /\ supply' = supply /\ value' = value
        /\ "reset" \in Label \ {"take", "taken"}
    BY <1>1 DEF Reset, Goto, semvars, SemInv, TypeOK, Label
  <2>5. QED
    BY <2>2, <2>3, <2>4, PlaceOutcome
<1>2. ASSUME At("reset")
      PROVE  /\ self \in Thread /\ pc[self] = "reset"
             /\ k.stat[self] = "ready" /\ self \notin Taking
  <2>1. "reset" \notin AboutToSchedule
    BY DEF AboutToSchedule
  <2>2. self \in Thread /\ pc[self] = "reset" /\ k.stat[self] = "ready"
    BY <1>2, <2>1, AtRun
  <2>3. QED
    BY <2>2 DEF Taking
<1>3. CASE ResetResume
  <2>1. /\ self \in Thread /\ pc[self] = "reset"
        /\ k.stat[self] = "ready" /\ self \notin Taking
    BY <1>2, <1>3 DEF ResetResume
  <2>2. /\ "reset" \in Label \ {"take", "taken"} /\ UNCHANGED semvars
        /\ k' = ResumeWithError(k, sem) /\ ~rt_list_isempty(k.list[sem])
        /\ pc' = pc /\ pc \in [Thread -> Label]
    BY <1>3 DEF ResetResume, Label, SemInv, TypeOK
  <2>3. pc' = [pc EXCEPT ![self] = "reset"]
    BY <2>1, <2>2
  <2>4. QED
    BY <2>1, <2>2, <2>3, RefuseOutcome
<1>4. CASE ResetValue
  <2>1. /\ self \in Thread
        /\ k.stat[self] = "ready" /\ self \notin Taking
    BY <1>2, <1>4 DEF ResetValue
  <2>2. Waiters = {}
    BY <1>4, EmptyList DEF ResetValue, rt_list_isempty, Waiters, ToSet
  <2>3. /\ k' = k /\ pc' = [pc EXCEPT ![self] = "sched"] /\ alive' \in BOOLEAN
        /\ held' = held /\ value' = InitValue
        /\ supply' = supply - value + InitValue
        /\ "sched" \in Label \ {"take", "taken"}
    BY <1>4 DEF ResetValue, Goto, SemInv, TypeOK, Label
  <2>4. QED
    BY <2>1, <2>2, <2>3, PlaceOutcome
<1>5. QED
  BY <1>1, <1>3, <1>4

LEMMA NextOutcome ==
  ASSUME SemInv, [Next]_vars
  PROVE  StepOutcome
<1>1. ASSUME CpuStep, UNCHANGED semvars
      PROVE  StepOutcome
  BY <1>1, DelayOutcome, TickOutcome, StartupOutcome, TimerCheckOutcome
     DEF CpuStep
<1>2. ASSUME NEW time \in Times, TakeNow(time) \/ TakeWait(time)
      PROVE  StepOutcome
  BY <1>2, TakeNowOutcome, TakeWaitOutcome
<1>3. CASE TakeSchedule \/ Reschedule
  BY <1>3, ScheduleOutcome DEF TakeSchedule, Reschedule
<1>4. CASE TakeReturn
  BY <1>4, TakeReturnOutcome
<1>5. CASE Release \/ IsrRelease
  BY <1>5, ReleaseOutcome, IsrReleaseOutcome
<1>6. CASE Delete \/ DeleteTest \/ DeleteTurn
  BY <1>6, DeleteOutcome, DeleteTurnOutcome
<1>7. CASE Reset \/ ResetResume \/ ResetValue
  BY <1>7, ResetOutcome
<1>8. CASE UNCHANGED vars
  <2>1. CpuInv' /\ TypeOK' /\ TakersAccounted'
    BY <1>8 DEF vars, SemInv, CpuInv, TypeOK, TakersAccounted, Waiters
  <2>2. Quiet
    BY <1>8 DEF vars, Quiet, Waiters, Taking, SameErrors
  <2>3. QED
    BY <1>8, <2>1, <2>2 DEF vars, StepOutcome, TakerStep, SameLedger
<1>9. QED
  BY <1>1, <1>2, <1>3, <1>4, <1>5, <1>6, <1>7, <1>8 DEF Next

-----------------------------------------------------------------------------
(* The invariants *)

\* No permit becomes free while a thread waits, and no thread starts to
\* wait while one is free.
LEMMA NextKeepsSemInv ==
  ASSUME SemInv, [Next]_vars
  PROVE  SemInv'
<1>1. CpuInv' /\ TypeOK' /\ TakersAccounted' /\ TakerStep
  BY NextOutcome DEF StepOutcome
<1>2. /\ NoIdlePermit /\ WaitersHaveNoError /\ value \in Nat
      /\ Waiters \subseteq Taking
  BY TakersAreSleepers DEF SemInv, TypeOK
<1>3. NoIdlePermit'
  <2>1. CASE Quiet /\ (value' = value \/ (value > 0 /\ value' = value - 1))
    BY <1>2, <2>1 DEF Quiet, NoIdlePermit
  <2>2. CASE Quiet /\ Waiters = {}
    BY <2>2 DEF Quiet, NoIdlePermit
  <2>3. CASE value = 0 /\ value' = value
    BY <2>3 DEF NoIdlePermit
  <2>4. CASE value' = value /\ \E t \in Thread, e \in Error : Wakes(t, e)
    BY <1>2, <2>4 DEF Wakes, NoIdlePermit
  <2>5. CASE value' = value /\ \E t \in Thread : Returns(t)
    BY <1>2, <2>5 DEF Returns, NoIdlePermit
  <2>6. QED
    <3>1. "ok" \in Error
      BY DEF Error
    <3>2. QED
      BY <1>1, <2>1, <2>2, <2>3, <2>4, <2>5, <3>1 DEF TakerStep
<1>4. WaitersHaveNoError'
  BY <1>1, <1>2 DEF TakerStep, Quiet, Waits, Wakes, Returns, SameErrors,
                    WaitersHaveNoError
<1>5. QED
  BY <1>1, <1>3, <1>4 DEF SemInv

\* Every reachable state of the semaphore satisfies SemInv.
THEOREM SemaphoreInvariant == Spec => []SemInv
<1>1. Init => SemInv
  BY InitEstablishesSemInv
<1>2. SemInv /\ [Next]_vars => SemInv'
  BY NextKeepsSemInv
<1>3. QED
  BY <1>1, <1>2, PTL DEF Spec

\* The records of the kernel and of the semaphore (ipc.c, rt_sem_take and
\* so on) keep their types: in particular current_thread is never Wild.
THEOREM SemaphoreTypeCorrect == Spec => []TypeOK
<1>1. SemInv => TypeOK
  BY DEF SemInv
<1>2. QED
  BY <1>1, SemaphoreInvariant, PTL

\* However takes, releases, timeouts, a reset and a delete interleave, the
\* kernel's lists stay consistent (scheduler.c:267-353, thread.c:554-657).
THEOREM SemaphoreKeepsKernel ==
  Spec => [](OneList /\ ReadyLists /\ GroupMatchesLists /\ WaitersAreSuspended)
<1>1. SemInv => OneList /\ ReadyLists /\ GroupMatchesLists /\ WaitersAreSuspended
  BY CpuInvImpliesIpcInvariants DEF SemInv
<1>2. QED
  BY <1>1, SemaphoreInvariant, PTL

\* A permit is never free while a thread waits for one (ipc.c:342-411,
\* 435-469).
THEOREM SemaphoreNoIdlePermit == Spec => []NoIdlePermit
<1>1. SemInv => NoIdlePermit
  BY DEF SemInv
<1>2. QED
  BY <1>1, SemaphoreInvariant, PTL

\* A thread that is suspended in rt_sem_take is on the wait list, and the
\* list holds no other thread.
THEOREM SemaphoreTakersAccounted == Spec => []TakersAccounted
<1>1. SemInv => TakersAccounted
  BY DEF SemInv
<1>2. QED
  BY <1>1, SemaphoreInvariant, PTL

-----------------------------------------------------------------------------
(* The refinement *)

\* The threads between their wait and their return are the takers that do
\* not wait.
TakersSplit ==
  /\ Granted = {t \in Taking \ Waiters : k.error[t] = "ok"}
  /\ Refused = {t \in Taking \ Waiters : k.error[t] # "ok"}

LEMMA BetweenAreTakers == CpuInv /\ TakersAccounted => TakersSplit
<1> SUFFICES ASSUME CpuInv, TakersAccounted
             PROVE  TakersSplit
  OBVIOUS
<1>0. \A t \in Thread : /\ k.stat[t] \in {"init", "ready", "suspend"}
                        /\ k.stat[t] = "init" => pc[t] = "run"
  BY DEF CpuInv
<1>1. ASSUME NEW t \in Thread
      PROVE  t \in Between <=> t \in Taking \ Waiters
  <2>1. /\ k.stat[t] \in {"init", "ready", "suspend"}
        /\ k.stat[t] = "init" => pc[t] = "run"
    BY <1>0
  <2>2. t \in Waiters <=> pc[t] \in {"take", "taken"} /\ k.stat[t] = "suspend"
    BY DEF TakersAccounted
  <2>3. QED
    BY <2>1, <2>2 DEF Between, Taking
<1>2. Between \subseteq Thread /\ Taking \subseteq Thread
  BY DEF Between, Taking
<1>3. Between = Taking \ Waiters
  BY <1>1, <1>2
<1>4. QED
  BY <1>3 DEF TakersSplit, Granted, Refused

LEMMA InitImplementsAbsInit == Init => Abs!AbsInit
<1> SUFFICES ASSUME Init PROVE Abs!AbsInit
  OBVIOUS
<1>1. CpuInv /\ TakersAccounted
  BY InitEstablishesSemInv DEF SemInv
<1>2. Taking = {} /\ value = InitValue
  BY DEF Init, IpcInit, Taking
<1>3. Waiters = {}
  BY <1>1, <1>2, TakersAreSleepers
<1>4. Granted = {} /\ Refused = {}
  BY <1>1, <1>2, BetweenAreTakers DEF TakersSplit
<1>5. QED
  BY <1>2, <1>3, <1>4 DEF Abs!AbsInit

\* The sets of the abstract semaphore before and after a step.
LEMMA AbstractSets ==
  ASSUME SemInv, [Next]_vars
  PROVE  /\ Granted = {t \in Taking \ Waiters : k.error[t] = "ok"}
         /\ Refused = {t \in Taking \ Waiters : k.error[t] # "ok"}
         /\ Granted' = {t \in Taking' \ Waiters' : k'.error[t] = "ok"}
         /\ Refused' = {t \in Taking' \ Waiters' : k'.error[t] # "ok"}
<1>1. CpuInv' /\ TakersAccounted' /\ CpuInv /\ TakersAccounted
  BY NextOutcome DEF StepOutcome, SemInv
<1>2. TakersSplit'
  BY <1>1, BetweenAreTakers, PTL
<1>3. TakersSplit
  BY <1>1, BetweenAreTakers
<1>4. QED
  BY <1>2, <1>3 DEF TakersSplit

LEMMA NextImplementsAbsNext ==
  ASSUME SemInv, [Next]_vars
  PROVE  [Abs!AbsNext]_(Abs!absvars)
<1>1. TakerStep
  BY NextOutcome DEF StepOutcome
<1>2. /\ Waiters \subseteq Taking /\ Taking \subseteq Thread
      /\ InitValue \in Nat /\ value \in Nat
      /\ \A t \in Waiters : k.error[t] = "ok"
  BY TakersAreSleepers, SemaphoreType DEF SemInv, TypeOK, Taking, WaitersHaveNoError
<1>3. CASE /\ Quiet
           /\ \/ value' = value
              \/ value > 0 /\ value' = value - 1
              \/ Waiters = {} /\ value' \in {(value + 1) % ValueLimit, InitValue}
  <2>1. Waiters' = Waiters /\ Granted' = Granted /\ Refused' = Refused
    BY <1>2, <1>3, AbstractSets DEF Quiet, SameErrors
  <2>2. QED
    BY <1>2, <1>3, <2>1 DEF Abs!AbsNext, Abs!absvars, Abs!AbsTake, Abs!AbsPost,
                             Abs!AbsReset
<1>4. CASE value = 0 /\ value' = value /\ \E t \in Thread : Waits(t)
  <2>1. PICK t \in Thread : Waits(t)
    BY <1>4
  <2>2. /\ Waiters' = Waiters \cup {t} /\ Granted' = Granted /\ Refused' = Refused
        /\ t \notin Waiters \cup Granted \cup Refused
    BY <1>2, <2>1, AbstractSets DEF Waits, SameErrors
  <2>3. Abs!AbsWait(t)
    BY <1>4, <2>2 DEF Abs!AbsWait, Abs!AbsIdle
  <2>4. QED
    BY <2>3 DEF Abs!AbsNext
<1>5. CASE value' = value /\ \E t \in Thread, e \in Error : Wakes(t, e)
  <2>1. PICK t \in Thread, e \in Error : Wakes(t, e)
    BY <1>5
  <2>2. t \in Waiters /\ Waiters' = Waiters \ {t}
    BY <2>1 DEF Wakes
  <2>3. CASE e = "ok"
    <3>1. Granted' = Granted \cup {t} /\ Refused' = Refused
      BY <1>2, <2>1, <2>3, AbstractSets DEF Wakes, SameErrors
    <3>2. Abs!AbsGrant(t)
      BY <1>5, <2>2, <3>1 DEF Abs!AbsGrant
    <3>3. QED
      BY <3>2 DEF Abs!AbsNext
  <2>4. CASE e # "ok"
    <3>1. Refused' = Refused \cup {t} /\ Granted' = Granted
      BY <1>2, <2>1, <2>4, AbstractSets DEF Wakes, SameErrors
    <3>2. Abs!AbsRefuse(t)
      BY <1>5, <2>2, <3>1 DEF Abs!AbsRefuse
    <3>3. QED
      BY <3>2 DEF Abs!AbsNext
  <2>5. QED
    BY <2>3, <2>4
<1>6. CASE value' = value /\ \E t \in Thread : Returns(t)
  <2>1. PICK t \in Thread : Returns(t)
    BY <1>6
  <2>2. /\ Waiters' = Waiters /\ t \in Granted \cup Refused
        /\ Granted' = Granted \ {t} /\ Refused' = Refused \ {t}
    BY <1>2, <2>1, AbstractSets DEF Returns, SameErrors
  <2>3. Abs!AbsReturn(t)
    BY <1>6, <2>2 DEF Abs!AbsReturn
  <2>4. QED
    BY <2>3 DEF Abs!AbsNext
<1>7. "ok" \in Error
  BY DEF Error
<1>8. QED
  BY <1>1, <1>3, <1>4, <1>5, <1>6, <1>7 DEF TakerStep

\* rt_sem_take, rt_sem_release, rt_sem_control, rt_sem_delete and the
\* timeouts implement the abstract semaphore: each of their steps is one of
\* its steps or changes nothing that it shows.
THEOREM SemaphoreRefinement == Spec => ImplementsCountingSemaphore
<1>1. Init => Abs!AbsInit
  BY InitImplementsAbsInit
<1>2. SemInv /\ [Next]_vars => [Abs!AbsNext]_(Abs!absvars)
  BY NextImplementsAbsNext
<1>3. QED
  BY <1>1, <1>2, SemaphoreInvariant, PTL
     DEF Spec, ImplementsCountingSemaphore, Abs!AbsSpec

-----------------------------------------------------------------------------
(* Permits *)

PermitsOf(h) == UNION {{t} \X (1 .. h[t]) : t \in Thread}

\* One permit more or less of a thread is one element more or less.
LEMMA OnePermitMore ==
  ASSUME NEW h \in [Thread -> Nat], NEW t \in Thread,
         IsFiniteSet(PermitsOf(h))
  PROVE  LET more == [h EXCEPT ![t] = @ + 1]
         IN  /\ IsFiniteSet(PermitsOf(more))
             /\ Cardinality(PermitsOf(more)) = Cardinality(PermitsOf(h)) + 1
<1> DEFINE more == [h EXCEPT ![t] = @ + 1]
           n == h[t] + 1
<1>1. /\ \A x \in Thread \ {t} : more[x] = h[x]
      /\ more[t] = n /\ n \in Nat /\ 1 .. n = (1 .. h[t]) \cup {n}
      /\ n \notin 1 .. h[t]
  BY Z3
<1> HIDE DEF more, n
<1>2. ASSUME NEW e
      PROVE  e \in PermitsOf(more) <=> e \in PermitsOf(h) \cup {<<t, n>>}
  <2>1. ASSUME NEW x \in Thread
        PROVE  e \in {x} \X (1 .. more[x]) <=>
                 e \in {x} \X (1 .. h[x]) \/ (x = t /\ e = <<t, n>>)
    <3>1. CASE x = t
      BY <1>1, <3>1
    <3>2. CASE x # t
      BY <1>1, <3>2
    <3>3. QED
      BY <3>1, <3>2
  <2>2. QED
    BY <2>1 DEF PermitsOf
<1>3. PermitsOf(more) = PermitsOf(h) \cup {<<t, n>>}
  BY <1>2
<1>4. <<t, n>> \notin PermitsOf(h)
  BY <1>1 DEF PermitsOf
<1>5. /\ IsFiniteSet(PermitsOf(h) \cup {<<t, n>>})
      /\ Cardinality(PermitsOf(h) \cup {<<t, n>>}) = Cardinality(PermitsOf(h)) + 1
  BY <1>4, FS_AddElement
<1>6. QED
  BY <1>3, <1>5 DEF more

LEMMA OnePermitLess ==
  ASSUME NEW h \in [Thread -> Nat], NEW t \in Thread, h[t] > 0,
         IsFiniteSet(PermitsOf(h))
  PROVE  LET less == [h EXCEPT ![t] = @ - 1]
         IN  /\ IsFiniteSet(PermitsOf(less))
             /\ Cardinality(PermitsOf(less)) = Cardinality(PermitsOf(h)) - 1
             /\ Cardinality(PermitsOf(h)) \in Nat \ {0}
<1> DEFINE less == [h EXCEPT ![t] = @ - 1]
           n == h[t]
<1>1. /\ \A x \in Thread \ {t} : less[x] = h[x]
      /\ less[t] = n - 1 /\ n \in Nat \ {0}
      /\ 1 .. less[t] = (1 .. n) \ {n} /\ n \in 1 .. n
  BY Z3
<1> HIDE DEF less
<1>2. ASSUME NEW e
      PROVE  e \in PermitsOf(less) <=> e \in PermitsOf(h) \ {<<t, n>>}
  <2>1. ASSUME NEW x \in Thread
        PROVE  e \in {x} \X (1 .. less[x]) <=>
                 e \in {x} \X (1 .. h[x]) /\ e # <<t, n>>
    <3>1. CASE x = t
      BY <1>1, <3>1
    <3>2. CASE x # t
      BY <1>1, <3>2
    <3>3. QED
      BY <3>1, <3>2
  <2>2. QED
    BY <2>1 DEF PermitsOf
<1>3. PermitsOf(less) = PermitsOf(h) \ {<<t, n>>}
  BY <1>2
<1>4. <<t, n>> \in PermitsOf(h)
  BY <1>1 DEF PermitsOf
<1>5. Cardinality(PermitsOf(h)) \in Nat \ {0}
  BY <1>4, FS_CardinalityType, FS_EmptySet
<1>6. /\ IsFiniteSet(PermitsOf(h) \ {<<t, n>>})
      /\ Cardinality(PermitsOf(h) \ {<<t, n>>}) = Cardinality(PermitsOf(h)) - 1
  BY <1>4, FS_RemoveElement
<1>7. QED
  BY <1>3, <1>5, <1>6 DEF less

\* Where the loop of a reset runs, with interrupts disabled, its thread has
\* the CPU; then no step changes the value or the supply under it.
ResetRunsAlone ==
  \A t \in Thread : pc[t] = "reset" =>
    t = self /\ t # Idle /\ supply - value + InitValue <= SupplyMax

PermitInv ==
  /\ SemInv
  /\ IsFiniteSet(HeldPermits) /\ IsFiniteSet(Granted)
  /\ PermitsConserved
  /\ supply <= SupplyMax
  /\ ResetRunsAlone

LEMMA InitEstablishesPermitInv == Init => PermitInv
<1> SUFFICES ASSUME Init PROVE PermitInv
  OBVIOUS
<1>1. SemInv
  BY InitEstablishesSemInv
<1>2. Taking = {} /\ pc = [t \in Thread |-> "run"]
  BY DEF Init, IpcInit, Taking
<1>3. Granted = {}
  BY <1>1, <1>2, BetweenAreTakers DEF TakersSplit, SemInv
<1>4. HeldPermits = {}
  <2>1. held = [t \in Thread |-> 0] /\ 1 .. 0 = {}
    BY DEF Init
  <2>2. QED
    BY <2>1 DEF HeldPermits
<1>5. PermitsConserved
  BY <1>3, <1>4, FS_EmptySet, SemaphoreType DEF Init, PermitsConserved, InUse
<1>6. QED
  BY <1>1, <1>2, <1>3, <1>4, <1>5, FS_EmptySet, SemaphoreType
     DEF PermitInv, ResetRunsAlone, Init

\* What each step does to the value, the permits held and those granted.
LEMMA StepConservesPermits ==
  ASSUME PermitInv, [Next]_vars
  PROVE  /\ IsFiniteSet(HeldPermits') /\ IsFiniteSet(Granted')
         /\ PermitsConserved'
<1> DEFINE H == Cardinality(HeldPermits)
           G == Cardinality(Granted)
<1>1. /\ TakerStep /\ TypeOK /\ held \in [Thread -> Nat]
      /\ value \in 0 .. ValueLimit - 1 /\ supply \in Int
      /\ IsFiniteSet(HeldPermits) /\ IsFiniteSet(Granted)
      /\ value + (H + G) = supply /\ supply <= SupplyMax
      /\ H \in Nat /\ G \in Nat
  BY NextOutcome, FS_CardinalityType
     DEF StepOutcome, PermitInv, SemInv, TypeOK, PermitsConserved, InUse
<1>2. /\ HeldPermits = PermitsOf(held) /\ HeldPermits' = PermitsOf(held')
      /\ PermitsConserved' <=>
           value' + (Cardinality(HeldPermits') + Cardinality(Granted')) = supply'
  BY DEF HeldPermits, PermitsOf, PermitsConserved, InUse
<1>3. /\ Granted = {t \in Taking \ Waiters : k.error[t] = "ok"}
      /\ Granted' = {t \in Taking' \ Waiters' : k'.error[t] = "ok"}
      /\ Waiters \subseteq Taking /\ Taking \subseteq Thread
  BY AbstractSets, TakersAreSleepers DEF PermitInv, SemInv, Taking
<1>4. /\ ValueLimit \in Nat \ {0} /\ SupplyMax \in Nat
      /\ SupplyMax < ValueLimit /\ InitValue \in Nat
  BY SemaphoreType
<1> HIDE DEF H, G
<1>5. ASSUME NEW t \in Thread, Takes(t)
      PROVE  /\ IsFiniteSet(HeldPermits')
             /\ Cardinality(HeldPermits') = H + 1 /\ supply' = supply
  BY <1>1, <1>2, <1>5, OnePermitMore DEF Takes, H
<1>6. ASSUME Gives
      PROVE  /\ IsFiniteSet(HeldPermits')
             /\ supply' - Cardinality(HeldPermits') = supply - H + 1
             /\ Cardinality(HeldPermits') \in Nat /\ supply' \in Int
             /\ value + 1 < ValueLimit
  <2>1. CASE held' = held /\ supply < SupplyMax /\ supply' = supply + 1
    BY <1>1, <1>2, <1>4, <2>1 DEF H
  <2>2. ASSUME NEW t \in Thread, held[t] > 0, supply' = supply,
               held' = [held EXCEPT ![t] = @ - 1]
        PROVE  /\ IsFiniteSet(HeldPermits') /\ H \in Nat \ {0}
               /\ Cardinality(HeldPermits') = H - 1
    BY <1>1, <1>2, <2>2, OnePermitLess DEF H
  <2>3. QED
    BY <1>1, <1>4, <1>6, <2>1, <2>2 DEF Gives
<1>7. ASSUME Quiet
      PROVE  Granted' = Granted
  BY <1>3, <1>7 DEF Quiet, SameErrors
<1>8. ASSUME SameLedger
      PROVE  HeldPermits' = HeldPermits /\ supply' = supply
  BY <1>2, <1>8 DEF SameLedger
<1>9. CASE Quiet /\ value' = value /\ SameLedger
  BY <1>1, <1>2, <1>7, <1>8, <1>9 DEF H, G
<1>10. CASE Quiet /\ value > 0 /\ value' = value - 1 /\ \E t \in Thread : Takes(t)
  BY <1>1, <1>2, <1>5, <1>7, <1>10 DEF G
<1>11. CASE Quiet /\ value' = (value + 1) % ValueLimit /\ Gives
  <2>1. value' = value + 1
    BY <1>1, <1>4, <1>6, <1>11
  <2>2. QED
    BY <1>1, <1>2, <1>6, <1>7, <1>11, <2>1 DEF G
<1>12. CASE /\ Quiet /\ value' = InitValue /\ held' = held
            /\ supply' = supply - value + InitValue
  BY <1>1, <1>2, <1>4, <1>7, <1>12 DEF H, G
<1>13. CASE value' = value /\ SameLedger /\ \E t \in Thread : Waits(t)
  <2>1. Granted' = Granted
    BY <1>3, <1>13 DEF Waits, SameErrors
  <2>2. QED
    BY <1>1, <1>2, <1>8, <1>13, <2>1 DEF H, G
<1>14. CASE value' = value /\ Gives /\ \E t \in Thread : Wakes(t, "ok")
  <2>1. PICK t \in Thread : Wakes(t, "ok")
    BY <1>14
  <2>2. Granted' = Granted \cup {t} /\ t \notin Granted
    BY <1>3, <2>1 DEF Wakes, SameErrors
  <2>3. IsFiniteSet(Granted') /\ Cardinality(Granted') = G + 1
    BY <1>1, <2>2, FS_AddElement DEF G
  <2>4. QED
    BY <1>1, <1>2, <1>6, <1>14, <2>3
<1>15. CASE /\ value' = value /\ SameLedger
            /\ \E t \in Thread, e \in Error \ {"ok"} : Wakes(t, e)
  <2>1. Granted' = Granted
    BY <1>3, <1>15 DEF Wakes, SameErrors
  <2>2. QED
    BY <1>1, <1>2, <1>8, <1>15, <2>1 DEF H, G
<1>16. CASE /\ value' = value
            /\ \E t \in Thread :
                 /\ Returns(t)
                 /\ IF k.error[t] = "ok" THEN Takes(t) ELSE SameLedger
  <2>1. PICK t \in Thread : /\ Returns(t)
                            /\ IF k.error[t] = "ok" THEN Takes(t) ELSE SameLedger
    BY <1>16
  <2>2. Granted' = Granted \ {t} /\ (t \in Granted <=> k.error[t] = "ok")
    BY <1>3, <2>1 DEF Returns, SameErrors
  <2>3. /\ IsFiniteSet(Granted')
        /\ Cardinality(Granted') = IF k.error[t] = "ok" THEN G - 1 ELSE G
    BY <1>1, <2>2, FS_RemoveElement DEF G
  <2>4. CASE k.error[t] = "ok"
    BY <1>1, <1>2, <1>5, <1>16, <2>1, <2>3, <2>4
  <2>5. CASE k.error[t] # "ok"
    BY <1>1, <1>2, <1>8, <1>16, <2>1, <2>3, <2>5 DEF H
  <2>6. QED
    BY <2>4, <2>5
<1>17. QED
  BY <1>1, <1>9, <1>10, <1>11, <1>12, <1>13, <1>14, <1>15, <1>16 DEF TakerStep

\* While a reset runs there is no other step, and no other step begins one.
LEMMA StepsBesideReset ==
  ASSUME Next
  PROVE  \/ Reset \/ ResetResume \/ ResetValue
         \/ /\ ~At("reset")
            /\ \/ pc' = pc
               \/ \E label : label # "reset" /\ pc' = [pc EXCEPT ![self] = label]
            /\ supply' = supply \/ (supply < SupplyMax /\ supply' = supply + 1)
<1> DEFINE Beside ==
             /\ ~At("reset")
             /\ \/ pc' = pc
                \/ \E label : label # "reset" /\ pc' = [pc EXCEPT ![self] = label]
             /\ supply' = supply \/ (supply < SupplyMax /\ supply' = supply + 1)
<1>1. ASSUME CpuStep, UNCHANGED semvars
      PROVE  Beside
  BY <1>1 DEF CpuStep, Delay, Tick, Startup, TimerCheck, InterruptsOn, At, Goto,
              semvars
<1>2. ASSUME NEW time, TakeNow(time) \/ TakeWait(time)
      PROVE  Beside
  BY <1>2 DEF TakeNow, TakeWait, Free, At, Goto, semvars
<1>3. CASE TakeSchedule \/ TakeReturn \/ Reschedule
  BY <1>3 DEF TakeSchedule, TakeReturn, Reschedule, ScheduleAt, At, Goto, semvars
<1>4. CASE Release
  BY <1>4 DEF Release, Free, At, Goto
<1>5. CASE IsrRelease
  BY <1>5 DEF IsrRelease, InterruptsOn
<1>6. CASE Delete \/ DeleteTest \/ DeleteTurn
  BY <1>6 DEF Delete, DeleteTest, DeleteTurn, ResumeAllTest, ResumeAllTurn,
              Free, At, Goto, semvars
<1>7. QED
  BY <1>1, <1>2, <1>3, <1>4, <1>5, <1>6 DEF Next

LEMMA ResetStaysAlone ==
  ASSUME PermitInv, [Next]_vars
  PROVE  ResetRunsAlone' /\ supply' <= SupplyMax
<1>1. /\ ResetRunsAlone /\ supply <= SupplyMax /\ pc \in [Thread -> Label]
      /\ supply \in Int /\ value \in Int /\ SupplyMax \in Nat
      /\ \A t \in Thread : pc[t] = "reset" => At("reset")
  BY SemaphoreType DEF PermitInv, SemInv, TypeOK, ResetRunsAlone, At
<1>2. CASE Reset
  <2>1. /\ pc' = [pc EXCEPT ![self] = "reset"] /\ UNCHANGED semvars
        /\ self \in Thread \ {Idle} /\ k' = k
        /\ supply - value + InitValue <= SupplyMax /\ pc[self] = "run"
    BY <1>2 DEF Reset, Goto, Free, At
  <2>2. \A t \in Thread : pc[t] # "reset"
    BY <1>1, <2>1 DEF At
  <2>3. self' = self
    BY <2>1 DEF self
  <2>4. QED
    BY <1>1, <2>1, <2>2, <2>3 DEF ResetRunsAlone, semvars
<1>3. CASE ResetResume
  <2>1. /\ UNCHANGED <<pc, semvars>> /\ ~rt_list_isempty(k.list[sem])
        /\ k' = ResumeWithError(k, sem)
    BY <1>3 DEF ResetResume
  <2>2. WokenUp(k, k', FirstThread(k, sem))
    BY <2>1, ResumeWithErrorKeepsInv, SemaphoreType DEF PermitInv, SemInv, CpuInv
  <2>3. self' = self
    BY <2>2 DEF WokenUp, self
  <2>4. QED
    BY <1>1, <2>1, <2>3 DEF ResetRunsAlone, semvars
<1>4. CASE ResetValue
  <2>1. /\ pc' = [pc EXCEPT ![self] = "sched"] /\ At("reset")
        /\ supply' = supply - value + InitValue
    BY <1>4 DEF ResetValue, Goto
  <2>2. /\ supply' <= SupplyMax
        /\ \A t \in Thread : pc[t] = "reset" => t = self
    BY <1>1, <2>1 DEF ResetRunsAlone, At
  <2>3. \A t \in Thread : pc'[t] # "reset"
    BY <1>1, <2>1, <2>2
  <2>4. QED
    BY <2>2, <2>3 DEF ResetRunsAlone
<1>5. CASE /\ ~At("reset")
           /\ \/ pc' = pc
              \/ \E label : label # "reset" /\ pc' = [pc EXCEPT ![self] = label]
           /\ supply' = supply \/ (supply < SupplyMax /\ supply' = supply + 1)
  <2>1. \A t \in Thread : pc'[t] # "reset"
    BY <1>1, <1>5
  <2>2. QED
    BY <1>1, <1>5, <2>1 DEF ResetRunsAlone
<1>6. CASE UNCHANGED vars
  BY <1>1, <1>6 DEF vars, ResetRunsAlone, self
<1>7. QED
  BY <1>2, <1>3, <1>4, <1>5, <1>6, StepsBesideReset

\* Whatever the order in which takes wait, time out and return, releases of
\* threads and interrupts come and a reset takes back, no permit is lost or
\* made (ipc.c, rt_sem_take, rt_sem_release, rt_sem_control): the value never
\* wraps while at most SupplyMax permits are in circulation.
THEOREM SemaphoreConserves == Spec => []PermitsConserved
<1>1. Init => PermitInv
  BY InitEstablishesPermitInv
<1>2. PermitInv /\ [Next]_vars => PermitInv'
  BY NextKeepsSemInv, StepConservesPermits, ResetStaysAlone DEF PermitInv
<1>3. PermitInv => PermitsConserved
  BY DEF PermitInv
<1>4. QED
  BY <1>1, <1>2, <1>3, PTL DEF Spec

-----------------------------------------------------------------------------
(* Deletion *)

\* Unless takes have a time, no waiter has a timer: only then can no timeout
\* take the last waiter out between the test of the list and the turn of the
\* loop in rt_ipc_list_resume_all.
NoWaiterHasTimer == \A t \in Waiters : ~k.timer[t]

LEMMA WaitersKeepNoTimer ==
  ASSUME SemInv, NoWaiterHasTimer, "ticks" \notin Times, [Next]_vars
  PROVE  NoWaiterHasTimer'
<1>1. /\ CpuInv /\ KernelInv(k, {}) /\ pc \in [Thread -> Label] /\ sem \in Queue
      /\ Waiters = Nodes(k, sem) /\ Waiters' = Nodes(k', sem)
      /\ Waiters \subseteq Thread /\ k.lock_nest = 0
  BY TakersAreSleepers, SemaphoreType DEF SemInv, CpuInv, TypeOK, Sleepers
<1>2. ASSUME Waiters' \subseteq Waiters, NoNewTimer(k, k', Thread)
      PROVE  NoWaiterHasTimer'
  BY <1>1, <1>2 DEF NoWaiterHasTimer, NoNewTimer
<1>3. ASSUME SameWaiters(k, k')
      PROVE  NoWaiterHasTimer'
  BY <1>1, <1>2, <1>3 DEF SameWaiters
<1>4. ASSUME NEW t \in Thread, WokenUp(k, k', t)
      PROVE  NoWaiterHasTimer'
  BY <1>1, <1>2, <1>4 DEF WokenUp
<1>5. ASSUME k' = k
      PROVE  NoWaiterHasTimer'
  BY <1>5 DEF NoWaiterHasTimer, Waiters
<1>6. ASSUME CpuStep, UNCHANGED semvars
      PROVE  NoWaiterHasTimer'
  <2>1. CASE Delay
    <3>1. /\ Waiters' = Waiters /\ self \notin Waiters
          /\ NoNewTimer(k, k', Thread \ {self})
      BY <1>1, <2>1, DelayStep, TakersAreSleepers DEF SemInv
    <3>2. QED
      BY <1>1, <3>1 DEF NoWaiterHasTimer, NoNewTimer
  <2>2. CASE Tick
    BY <1>1, <1>3, <2>2, TickStep
  <2>3. ASSUME NEW t \in Thread, Startup(t)
        PROVE  NoWaiterHasTimer'
    BY <1>1, <1>3, <2>3, StartupStep
  <2>4. ASSUME NEW t \in Thread, TimerCheck(t)
        PROVE  NoWaiterHasTimer'
    <3>1. Waiters' \subseteq Waiters /\ NoNewTimer(k, k', Thread)
      BY <1>1, <2>4, TimerCheckStep
    <3>2. QED
      BY <1>2, <3>1
  <2>5. QED
    BY <1>6, <2>1, <2>2, <2>3, <2>4 DEF CpuStep
<1>7. ASSUME NEW time \in Times, TakeWait(time)
      PROVE  NoWaiterHasTimer'
  <2>1. At("run") /\ "run" \notin AboutToSchedule /\ time # "ticks"
    BY <1>7 DEF TakeWait, Free, AboutToSchedule
  <2>2. PICK me \in Thread \ {Idle} : me = self /\ k.stat[me] = "ready"
    BY <2>1, AtRun
  <2>3. k' = Wait(k, sem, me, sem_flag, time)
    BY <1>7, <2>2 DEF TakeWait
  <2>4. PutToSleep(k, k', sem, me) /\ NoNewTimer(k, k', Thread)
    BY <1>1, <2>1, <2>2, <2>3, WaitKeepsInv
  <2>5. ~k.timer[me]
    BY <1>1, <2>2 DEF KernelInv, WaitersSuspended
  <2>6. QED
    BY <1>1, <2>4, <2>5 DEF PutToSleep, NoNewTimer, NoWaiterHasTimer
<1>8. CASE TakeSchedule \/ Reschedule
  BY <1>1, <1>3, <1>8, ScheduleAtStep DEF TakeSchedule, Reschedule
<1>9. CASE DeleteTurn \/ ResetResume
  <2>1. ~rt_list_isempty(k.list[sem]) /\ k' = ResumeWithError(k, sem)
    BY <1>9 DEF DeleteTurn, ResumeAllTurn, ResetResume
  <2>2. FirstThread(k, sem) \in Thread /\ WokenUp(k, k', FirstThread(k, sem))
    BY <1>1, <2>1, FirstWaiter, ResumeWithErrorKeepsInv
  <2>3. QED
    BY <1>4, <2>2
<1>10. CASE Release \/ IsrRelease
  <2> DEFINE r == rt_ipc_list_resume(k, sem)
             t == FirstThread(k, sem)
  <2>1. \/ k' = k
        \/ ~rt_list_isempty(k.list[sem]) /\ (k' = r \/ k' = rt_schedule(r))
    BY <1>10 DEF Release, IsrRelease, ReleaseSection
  <2>2. CASE k' = k
    BY <1>5, <2>2
  <2>3. CASE ~rt_list_isempty(k.list[sem]) /\ (k' = r \/ k' = rt_schedule(r))
    <3>1. KernelInv(r, {}) /\ WokenUp(k, r, t) /\ t \in Thread
      BY <1>1, <2>3, ListResumeKeepsInv, FirstWaiter
    <3> HIDE DEF r, t
    <3>2. SameWaiters(r, k') \/ k' = r
      BY <1>1, <2>3, <3>1, ScheduleGivesCpu DEF WokenUp
    <3>3. Waiters' \subseteq Waiters /\ NoNewTimer(k, k', Thread)
      BY <1>1, <3>1, <3>2 DEF WokenUp, SameWaiters, NoNewTimer
    <3>4. QED
      BY <1>2, <3>3
  <2>4. QED
    BY <2>1, <2>2, <2>3
<1>11. CASE TakeReturn \/ Delete \/ DeleteTest \/ Reset \/ ResetValue
  BY <1>5, <1>11 DEF TakeReturn, Delete, DeleteTest, ResumeAllTest, Reset,
                     ResetValue
<1>12. ASSUME NEW time, TakeNow(time)
       PROVE  NoWaiterHasTimer'
  BY <1>5, <1>12 DEF TakeNow
<1>13. CASE UNCHANGED vars
  BY <1>5, <1>13 DEF vars
<1>14. QED
  BY <1>6, <1>7, <1>8, <1>9, <1>10, <1>11, <1>12, <1>13 DEF Next

Deleting == {"scan", "resume"}

\* Only one thread deletes the semaphore; while it does, nobody joins the
\* list, and nobody but it takes a waiter out.
DeleteInv ==
  /\ PermitInv
  /\ NoWaiterHasTimer
  /\ \A t \in Thread : pc[t] = "reset" => alive
  /\ \A t \in Thread : pc[t] \in Deleting => ~alive
  /\ \A t, u \in Thread : pc[t] \in Deleting /\ pc[u] \in Deleting => t = u
  /\ \A t \in Thread : pc[t] = "resume" => Waiters # {}
  /\ alive \/ Waiters = {} \/ \E t \in Thread : pc[t] \in Deleting

\* The steps that do not belong to a delete.
Bystander ==
  /\ alive' = alive
  /\ \A t \in Thread : pc[t] \in Deleting \/ pc'[t] \in Deleting => pc'[t] = pc[t]
  /\ \A t \in Thread : pc'[t] = "reset" => pc[t] = "reset" \/ alive
  /\ alive \/ Waiters' = Waiters

LEMMA StepsBesideDelete ==
  ASSUME DeleteInv, [Next]_vars
  PROVE  Bystander \/ Delete \/ DeleteTest \/ DeleteTurn
<1>1. /\ SemInv /\ CpuInv /\ pc \in [Thread -> Label] /\ sem \in Queue
      /\ Waiters = Nodes(k, sem) /\ Waiters' = Nodes(k', sem)
  BY TakersAreSleepers, SemaphoreType
     DEF DeleteInv, PermitInv, SemInv, TypeOK
<1>2. ASSUME alive' = alive, pc' = pc, alive \/ Waiters' = Waiters
      PROVE  Bystander
  BY <1>2 DEF Bystander
<1>3. ASSUME NEW label, label \notin Deleting \cup {"reset"}, self \in Thread,
             pc[self] \notin Deleting, pc' = [pc EXCEPT ![self] = label],
             alive' = alive, alive \/ Waiters' = Waiters
      PROVE  Bystander
  <2>1. PICK me \in Thread : me = self
    BY <1>3
  <2>2. QED
    BY <1>1, <1>3, <2>1 DEF Bystander
<1>4. ASSUME CpuStep, UNCHANGED semvars
      PROVE  Bystander
  <2>1. CASE Delay
    <3>1. /\ Nodes(k', sem) = Nodes(k, sem) /\ self \in Thread
          /\ pc[self] = "run" /\ pc' = [pc EXCEPT ![self] = "sched"]
      BY <1>1, <2>1, DelayStep
    <3>2. "sched" \notin Deleting \cup {"reset"} /\ "run" \notin Deleting
      BY DEF Deleting
    <3>3. QED
      BY <1>1, <1>3, <1>4, <3>1, <3>2 DEF semvars
  <2>2. CASE Tick
    BY <1>1, <1>2, <1>4, <2>2, TickStep DEF SameWaiters, semvars
  <2>3. ASSUME NEW t \in Thread, Startup(t)
        PROVE  Bystander
    BY <1>1, <1>2, <1>4, <2>3, StartupStep DEF SameWaiters, semvars
  <2>4. ASSUME NEW t \in Thread, TimerCheck(t)
        PROVE  Bystander
    <3>1. Waiters' = Waiters \ {t} /\ k.timer[t] /\ pc' = pc
      BY <1>1, <2>4, TimerCheckStep
    <3>2. Waiters' = Waiters
      BY <3>1 DEF DeleteInv, NoWaiterHasTimer
    <3>3. QED
      BY <1>2, <1>4, <3>1, <3>2 DEF semvars
  <2>5. QED
    BY <1>4, <2>1, <2>2, <2>3, <2>4 DEF CpuStep
<1>5. ASSUME NEW time, TakeNow(time) \/ TakeWait(time)
      PROVE  Bystander
  <2>1. /\ self \in Thread /\ pc[self] = "run" /\ alive
        /\ "run" \notin Deleting /\ "take" \notin Deleting \cup {"reset"}
    BY <1>5 DEF TakeNow, TakeWait, Free, At, Deleting
  <2>2. CASE TakeNow(time)
    BY <1>2, <2>1, <2>2 DEF TakeNow
  <2>3. CASE TakeWait(time)
    BY <1>3, <2>1, <2>3 DEF TakeWait, Goto, semvars
  <2>4. QED
    BY <1>5, <2>2, <2>3
<1>6. CASE TakeSchedule \/ Reschedule
  <2>1. PICK next \in {"taken", "run"}, label \in {"take", "sched"} :
          ScheduleAt(label, next) /\ UNCHANGED semvars
    BY <1>6 DEF TakeSchedule, Reschedule
  <2>2. /\ SameWaiters(k, k') /\ pc[self] = label /\ self \in Thread
        /\ pc' = [pc EXCEPT ![self] = next]
    BY <1>1, <2>1, ScheduleAtStep
  <2>3. next \notin Deleting \cup {"reset"} /\ label \notin Deleting
    BY DEF Deleting
  <2>4. QED
    BY <1>1, <1>3, <2>1, <2>2, <2>3 DEF SameWaiters, semvars
<1>7. CASE TakeReturn
  <2>1. /\ self \in Thread /\ pc[self] = "taken" /\ alive' = alive /\ k' = k
        /\ pc' = [pc EXCEPT ![self] = "run"]
        /\ "taken" \notin Deleting /\ "run" \notin Deleting \cup {"reset"}
    BY <1>7 DEF TakeReturn, At, Goto, Deleting
  <2>2. QED
    BY <1>1, <1>3, <2>1
<1>8. CASE Release
  <2>1. /\ self \in Thread /\ pc[self] = "run" /\ alive /\ alive' = alive
        /\ pc' = pc \/ pc' = [pc EXCEPT ![self] = "sched"]
        /\ "run" \notin Deleting /\ "sched" \notin Deleting \cup {"reset"}
    BY <1>8 DEF Release, Free, At, Goto, Deleting
  <2>2. QED
    BY <1>2, <1>3, <2>1
<1>9. CASE IsrRelease
  BY <1>2, <1>9 DEF IsrRelease
<1>10. CASE Reset
  <2>1. /\ self \in Thread /\ pc[self] = "run" /\ alive /\ UNCHANGED <<k, semvars>>
        /\ pc' = [pc EXCEPT ![self] = "reset"]
    BY <1>10 DEF Reset, Free, At, Goto
  <2>2. QED
    BY <1>1, <2>1 DEF Bystander, Deleting, semvars
<1>11. CASE ResetResume \/ ResetValue
  <2>1. /\ self \in Thread /\ pc[self] = "reset" /\ alive' = alive /\ alive
        /\ pc' = pc \/ pc' = [pc EXCEPT ![self] = "sched"]
        /\ "reset" \notin Deleting /\ "sched" \notin Deleting \cup {"reset"}
    BY <1>11 DEF ResetResume, ResetValue, At, Goto, semvars, DeleteInv, Deleting
  <2>2. QED
    BY <1>2, <1>3, <2>1
<1>12. CASE UNCHANGED vars
  BY <1>2, <1>12 DEF vars, Waiters
<1>13. QED
  BY <1>4, <1>5, <1>6, <1>7, <1>8, <1>9, <1>10, <1>11, <1>12 DEF Next

LEMMA NextKeepsDeleteInv ==
  ASSUME DeleteInv, "ticks" \notin Times, [Next]_vars
  PROVE  DeleteInv'
<1>1. /\ PermitInv' /\ NoWaiterHasTimer'
      /\ ResetRunsAlone /\ pc \in [Thread -> Label]
      /\ SemInv
  BY NextKeepsSemInv, StepConservesPermits, ResetStaysAlone, WaitersKeepNoTimer
     DEF DeleteInv, PermitInv, SemInv, TypeOK
<1>2. CASE Bystander
  <2>1. /\ alive' = alive /\ (alive \/ Waiters' = Waiters)
        /\ \A t \in Thread : /\ pc'[t] \in Deleting <=> pc[t] \in Deleting
                             /\ pc'[t] = "resume" => pc[t] = "resume"
                             /\ pc'[t] = "reset" => pc[t] = "reset" \/ alive
    BY <1>2 DEF Bystander, Deleting
  <2>2. /\ \A t \in Thread : pc'[t] = "reset" => alive'
        /\ \A t \in Thread : pc'[t] \in Deleting => ~alive'
        /\ \A t, u \in Thread : pc'[t] \in Deleting /\ pc'[u] \in Deleting => t = u
    BY <2>1 DEF DeleteInv
  <2>3. \A t \in Thread : pc'[t] = "resume" => Waiters' # {}
    BY <2>1 DEF DeleteInv, Deleting
  <2>4. alive' \/ Waiters' = {} \/ \E t \in Thread : pc'[t] \in Deleting
    BY <2>1 DEF DeleteInv
  <2>5. QED
    BY <1>1, <2>2, <2>3, <2>4 DEF DeleteInv
<1>3. CASE Delete
  <2>1. /\ self \in Thread /\ pc[self] = "run" /\ alive /\ ~alive' /\ k' = k
        /\ pc' = [pc EXCEPT ![self] = "scan"]
    BY <1>3 DEF Delete, Free, At, Goto
  <2>2. PICK me \in Thread : me = self
    BY <2>1
  <2>3. \A t \in Thread : pc[t] \notin Deleting \cup {"reset"}
    BY <1>1, <2>1 DEF DeleteInv, ResetRunsAlone
  <2>4. \A t \in Thread : /\ pc'[t] # "reset" /\ pc'[t] # "resume"
                          /\ pc'[t] \in Deleting <=> t = me
    BY <1>1, <2>1, <2>2, <2>3 DEF Deleting
  <2>5. QED
    BY <1>1, <2>1, <2>4 DEF DeleteInv
<1>4. ASSUME NEW me \in Thread, me = self, pc[me] \in Deleting,
             NEW label \in {"scan", "resume", "run"},
             pc' = [pc EXCEPT ![me] = label], alive' = alive,
             label = "resume" => Waiters' # {},
             label = "run" => Waiters' = {}
      PROVE  DeleteInv'
  <2>1. /\ ~alive /\ \A t \in Thread : pc[t] # "reset"
        /\ \A t \in Thread \ {me} : pc[t] \notin Deleting
    BY <1>4 DEF DeleteInv
  <2>2. \A t \in Thread : /\ pc'[t] # "reset"
                          /\ t # me => pc'[t] \notin Deleting
    BY <1>1, <1>4, <2>1
  <2>3. pc'[me] = label /\ (label # "run" => label \in Deleting)
    BY <1>1, <1>4 DEF Deleting
  <2>4. QED
    BY <1>1, <1>4, <2>1, <2>2, <2>3 DEF DeleteInv, Deleting
<1>5. CASE DeleteTest
  <2>1. /\ self \in Thread /\ pc[self] = "scan" /\ alive' = alive /\ k' = k
        /\ IF rt_list_isempty(k.list[sem]) THEN pc' = [pc EXCEPT ![self] = "run"]
           ELSE pc' = [pc EXCEPT ![self] = "resume"]
        /\ "scan" \in Deleting
    BY <1>5 DEF DeleteTest, ResumeAllTest, At, Goto, semvars, Deleting
  <2>2. Waiters' = Waiters /\ (Waiters = {} <=> rt_list_isempty(k.list[sem]))
    <3>1. k.list[sem] \in Seq(Thread)
      BY SemaphoreType DEF DeleteInv, PermitInv, SemInv, TypeOK, KernelType, ListHead
    <3>2. QED
      BY <2>1, <3>1, EmptyList DEF Waiters, rt_list_isempty
  <2>3. QED
    BY <1>4, <2>1, <2>2
<1>6. CASE DeleteTurn
  BY <1>4, <1>6 DEF DeleteTurn, ResumeAllTurn, At, Goto, semvars, Deleting
<1>7. QED
  BY <1>2, <1>3, <1>5, <1>6, StepsBesideDelete

\* rt_sem_delete never takes the head of an empty list for a thread, and
\* leaves nobody on the list of the freed object (ipc.c:175-201): for takes
\* that wait for ever.  With a timeout it is false, see README.
THEOREM SemaphoreDeletes ==
  ASSUME "ticks" \notin Times
  PROVE  Spec => []DeletedHasNoWaiter
<1>1. Init => DeleteInv
  <2> SUFFICES ASSUME Init PROVE DeleteInv
    OBVIOUS
  <2>1. PermitInv /\ alive /\ k.timer = [t \in Thread |-> FALSE]
        /\ pc = [t \in Thread |-> "run"]
    BY InitEstablishesPermitInv DEF Init, IpcInit
  <2>2. Waiters \subseteq Thread
    BY <2>1 DEF PermitInv, SemInv, TakersAccounted
  <2>3. QED
    BY <2>1, <2>2 DEF DeleteInv, NoWaiterHasTimer, Deleting
<1>2. DeleteInv /\ [Next]_vars => DeleteInv'
  BY NextKeepsDeleteInv
<1>3. DeleteInv => DeletedHasNoWaiter
  BY DEF DeleteInv, DeletedHasNoWaiter, Deleting
<1>4. QED
  BY <1>1, <1>2, <1>3, PTL DEF Spec

-----------------------------------------------------------------------------
(* The loop of rt_event_send *)

\* f gives what the first n turns over the waiters s leave, from a state b on.
Turns(f, s, b) ==
  f = [n \in 0 .. Len(s) |-> IF n = 0 THEN b ELSE Answer(f[n - 1], s[n])]

\* What the loop starts with.
Raised(bits) ==
  [k |-> k, set |-> set \cup bits, event_set |-> event_set]

\* The loop has an end, for any number of waiters.
LEMMA TurnsExist ==
  ASSUME NEW s \in Seq(Thread), NEW b
  PROVE  \E f : Turns(f, s, b)
<1> DEFINE Upto(f, n) ==
             f = [m \in 0 .. n |-> IF m = 0 THEN b ELSE Answer(f[m - 1], s[m])]
           Endless == {n \in Nat : ~ \E f : Upto(f, n)}
<1>1. \E f : Upto(f, 0)
  <2> DEFINE g == [m \in 0 .. 0 |-> b]
  <2>1. g = [m \in 0 .. 0 |-> IF m = 0 THEN b ELSE Answer(g[m - 1], s[m])]
    OBVIOUS
  <2> QED BY <2>1
<1>2. ASSUME NEW n \in Nat, \E f : Upto(f, n)
      PROVE  \E f : Upto(f, n + 1)
  <2>1. PICK f : Upto(f, n)
    BY <1>2
  <2> DEFINE g == [m \in 0 .. n + 1 |->
                     IF m = n + 1 THEN Answer(f[n], s[n + 1]) ELSE f[m]]
             h == [m \in 0 .. n + 1 |-> IF m = 0 THEN b ELSE Answer(g[m - 1], s[m])]
  <2>2. ASSUME NEW m \in 0 .. n + 1
        PROVE  g[m] = h[m]
    <3>1. CASE m = n + 1
      <4>1. g[n] = f[n] /\ (n + 1) - 1 = n /\ n + 1 # 0 /\ n \in 0 .. n + 1
        OBVIOUS
      <4>2. g[n + 1] = Answer(f[n], s[n + 1])
        OBVIOUS
      <4>3. h[n + 1] = Answer(g[n], s[n + 1])
        BY <4>1
      <4> QED BY <3>1, <4>1, <4>2, <4>3
    <3>2. CASE m # n + 1
      <4>1. m \in 0 .. n /\ g[m] = f[m]
        BY <3>2
      <4>2. f[m] = IF m = 0 THEN b ELSE Answer(f[m - 1], s[m])
        BY <2>1, <4>1
      <4>3. m # 0 => m - 1 \in 0 .. n + 1 /\ m - 1 # n + 1
        BY <4>1
      <4>4. m # 0 => g[m - 1] = f[m - 1]
        BY <4>3
      <4> QED BY <4>1, <4>2, <4>4
    <3> QED BY <3>1, <3>2
  <2>3. g = h
    <3>1. /\ g = [m \in 0 .. n + 1 |-> g[m]]
          /\ h = [m \in 0 .. n + 1 |-> h[m]]
      OBVIOUS
    <3> HIDE DEF g, h
    <3> QED BY <2>2, <3>1
  <2> QED BY <2>3
<1>3. Endless = {}
  <2> SUFFICES ASSUME Endless # {} PROVE FALSE
    OBVIOUS
  <2>1. PICK n \in Endless : \A m \in Endless : n <= m
    BY NaturalMinimum
  <2>2. n # 0 /\ n \in Nat
    BY <1>1
  <2> HIDE DEF Upto
  <2>3. n - 1 \in Nat /\ (n - 1) + 1 = n /\ ~(n <= n - 1)
    BY <2>2
  <2>4. \E f : Upto(f, n - 1)
    BY <2>1, <2>3
  <2>5. \E f : Upto(f, (n - 1) + 1)
    BY <1>2, <2>3, <2>4
  <2> QED BY <2>1, <2>3, <2>5
<1>4. Len(s) \in Nat
  OBVIOUS
<1>5. PICK f : Upto(f, Len(s))
  BY <1>3, <1>4
<1> QED BY <1>5 DEF Turns

LEMMA AnsweredInTurns ==
  ASSUME k.list[event] \in Seq(Thread), NEW bits
  PROVE  \E f : /\ Turns(f, k.list[event], Raised(bits))
                /\ Answered(bits) = f[Len(k.list[event])]
<1> DEFINE s == k.list[event]
           turn == CHOOSE f : Turns(f, s, Raised(bits))
<1>1. Turns(turn, s, Raised(bits))
  BY TurnsExist
<1>2. Answered(bits) = turn[Len(s)]
  BY DEF Answered, Turns, Raised
<1> QED BY <1>1, <1>2

\* The waiters that the loop has resumed in its state st, and those of them
\* that clear bit b.
Told(st) == EvWaiters \ Nodes(st.k, event)
ClearedFor(st, b) == {t \in Told(st) : Clears(t) /\ b \in st.event_set[t]}

\* The kernel but for the waiters that were resumed.
LoopKernel(st) ==
  /\ KernelInv(st.k, {})
  /\ st.k.error = k.error /\ st.k.lock_nest = k.lock_nest
  /\ st.k.current_thread = k.current_thread
  /\ Nodes(st.k, event) \subseteq EvWaiters
  /\ \A t \in Thread :
       st.k.stat[t] = IF t \in Told(st) THEN "ready" ELSE k.stat[t]

\* Each bit that is gone was cleared for one of them.
LoopBits(st, bits) ==
  /\ st.set \subseteq set \cup bits
  /\ st.event_set \in [Thread -> SUBSET Bit]
  /\ \A t \in Thread : t \notin Told(st) => st.event_set[t] = event_set[t]
  /\ \A t \in Told(st) : /\ st.event_set[t] # {}
                         /\ st.event_set[t] \subseteq set \cup bits
  /\ \A b \in Bit : IF b \in (set \cup bits) \ st.set
                    THEN \E t \in Thread : ClearedFor(st, b) = {t}
                    ELSE ClearedFor(st, b) = {}

\* After n turns those who are left of the first n are not satisfied.
LoopTurns(st, n) ==
  /\ \A i \in n + 1 .. Len(k.list[event]) :
       k.list[event][i] \in Nodes(st.k, event)
  /\ \A i \in 1 .. n :
       LET t == k.list[event][i]
       IN  t \in Nodes(st.k, event) =>
             ~Satisfied(st.set, event_set[t], event_info[t])

LoopInv(st, n, bits) == LoopKernel(st) /\ LoopBits(st, bits) /\ LoopTurns(st, n)

\* What holds before the loop.
Waited ==
  /\ KernelInv(k, {}) /\ set \subseteq Bit
  /\ event_set \in [Thread -> SUBSET Bit]
  /\ \A t \in EvWaiters : event_set[t] # {}

LEMMA WaiterList ==
  ASSUME KernelInv(k, {})
  PROVE  /\ k.list[event] \in Seq(Thread) /\ NoRepeat(k.list[event])
         /\ EvWaiters = Nodes(k, event) /\ EvWaiters \subseteq Thread
         /\ \A t \in EvWaiters : k.stat[t] = "suspend"
         /\ \A i \in 1 .. Len(k.list[event]) : k.list[event][i] \in EvWaiters
         /\ \A t \in EvWaiters :
              \E i \in 1 .. Len(k.list[event]) : t = k.list[event][i]
<1>1. event \in Queue /\ event \in ListHead
  BY EventType DEF ListHead
<1>2. k.list[event] \in Seq(Thread) /\ NoRepeat(k.list[event])
  BY <1>1 DEF KernelInv, KernelType, NoRepeats
<1>3. EvWaiters = Nodes(k, event)
  BY DEF EvWaiters, Nodes
<1> DEFINE s == k.list[event]
<1>4. EvWaiters = {s[i] : i \in 1 .. Len(s)}
  BY <1>2 DEF EvWaiters, ToSet
<1> HIDE DEF s
<1>5. /\ \A i \in 1 .. Len(s) : s[i] \in EvWaiters
      /\ \A t \in EvWaiters : \E i \in 1 .. Len(s) : t = s[i]
  BY <1>4
<1>6. \A i \in 1 .. Len(s) : s[i] \in Thread
  BY <1>2 DEF s
<1>7. EvWaiters \subseteq Thread
  BY <1>5, <1>6
<1>8. \A t \in EvWaiters : k.stat[t] = "suspend"
  BY <1>1, <1>3, <1>7 DEF KernelInv, WaitersSuspended
<1> QED BY <1>2, <1>3, <1>5, <1>7, <1>8 DEF s

LEMMA LoopStarts ==
  ASSUME Waited, NEW bits \in SUBSET Bit
  PROVE  LoopInv(Raised(bits), 0, bits)
<1> DEFINE st == Raised(bits)
<1>1. st.k = k /\ st.set = set \cup bits /\ st.event_set = event_set
  BY DEF Raised
<1>2. Nodes(st.k, event) = EvWaiters /\ Told(st) = {}
  BY <1>1, WaiterList DEF Told, Waited
<1> HIDE DEF st
<1>3. \A b \in Bit : ClearedFor(st, b) = {}
  BY <1>2 DEF ClearedFor
<1>4. LoopKernel(st)
  BY <1>1, <1>2 DEF LoopKernel, Waited
<1>5. LoopBits(st, bits)
  BY <1>1, <1>2, <1>3 DEF LoopBits, Waited
<1>6. LoopTurns(st, 0)
  BY <1>1, <1>2, WaiterList DEF LoopTurns, Waited
<1> QED BY <1>4, <1>5, <1>6 DEF LoopInv, st

\* A turn over a waiter that is not satisfied.
LEMMA TurnPasses ==
  ASSUME Waited, NEW bits \in SUBSET Bit, NEW n \in 0 .. Len(k.list[event]) - 1,
         NEW st, LoopInv(st, n, bits), NEW t, t = k.list[event][n + 1],
         ~Satisfied(st.set, st.event_set[t], event_info[t])
  PROVE  LoopInv(st, n + 1, bits)
<1>1. n \in Nat /\ n + 1 \in 1 .. Len(k.list[event]) /\ Len(k.list[event]) \in Nat
  BY WaiterList DEF Waited
<1>2. t \in Nodes(st.k, event) /\ t \in Thread
  BY <1>1, WaiterList DEF LoopInv, LoopTurns, Waited
<1>3. st.event_set[t] = event_set[t]
  BY <1>2 DEF LoopInv, LoopBits, Told
<1>4. \A i \in 1 .. n + 1 : i \in 1 .. n \/ i = n + 1
  BY <1>1
<1>5. \A i \in n + 1 + 1 .. Len(k.list[event]) : i \in n + 1 .. Len(k.list[event])
  BY <1>1
<1>6. LoopTurns(st, n + 1)
  BY <1>3, <1>4, <1>5 DEF LoopInv, LoopTurns
<1> QED BY <1>6 DEF LoopInv

\* With fewer bits nobody becomes satisfied.
LEMMA FewerBits ==
  ASSUME NEW A, NEW B, A \subseteq B, NEW wanted, NEW option,
         ~Satisfied(B, wanted, option)
  PROVE  ~Satisfied(A, wanted, option) \/ wanted = {}
BY DEF Satisfied

\* A turn that resumes a waiter.
LEMMA TurnAnswers ==
  ASSUME Waited, NEW bits \in SUBSET Bit, NEW n \in 0 .. Len(k.list[event]) - 1,
         NEW st, LoopInv(st, n, bits), NEW t, t = k.list[event][n + 1],
         Satisfied(st.set, st.event_set[t], event_info[t])
  PROVE  LoopInv(Answer(st, t), n + 1, bits)
<1> DEFINE asked == st.event_set[t]
           got == IF "and" \in event_info[t] THEN asked ELSE asked \cap st.set
           u == Answer(st, t)
<1>1. /\ n \in Nat /\ n + 1 \in 1 .. Len(k.list[event]) /\ Len(k.list[event]) \in Nat
      /\ k.list[event] \in Seq(Thread) /\ NoRepeat(k.list[event])
      /\ EvWaiters \subseteq Thread /\ EvWaiters = Nodes(k, event)
      /\ \A x \in EvWaiters : k.stat[x] = "suspend"
      /\ \A i \in 1 .. Len(k.list[event]) : k.list[event][i] \in EvWaiters
      /\ event \in Queue
  BY WaiterList, EventType DEF Waited
<1>2. t \in Nodes(st.k, event) /\ t \in EvWaiters /\ t \in Thread
  BY <1>1 DEF LoopInv, LoopTurns
<1>3. /\ u.k = rt_thread_resume(st.k, t)
      /\ u.set = IF Clears(t) THEN st.set \ got ELSE st.set
      /\ u.event_set = [st.event_set EXCEPT ![t] = got]
  BY DEF Answer
<1>4. /\ KernelInv(st.k, {}) /\ t \notin Told(st)
      /\ st.k.stat[t] = "suspend" /\ st.event_set[t] = event_set[t]
  BY <1>1, <1>2 DEF LoopInv, LoopKernel, LoopBits, Told
<1>5. asked # {} /\ asked \subseteq Bit
  BY <1>2, <1>4 DEF Waited
<1>6. got # {} /\ got \subseteq st.set /\ got \subseteq Bit
  BY <1>5 DEF Satisfied
<1> HIDE DEF got, asked, u
<1>7. KernelInv(u.k, {}) /\ WokenUp(st.k, u.k, t) /\ u.k.error = st.k.error
  <2>1. /\ KernelInv(rt_thread_resume(st.k, t), {})
        /\ HasResumed(st.k, rt_thread_resume(st.k, t), t)
    BY <1>2, <1>4, ResumeKeepsInv
  <2>2. WokenUp(st.k, rt_thread_resume(st.k, t), t)
    BY <1>2, <1>4, <2>1, ResumedIsWokenUp
  <2> QED BY <1>3, <2>1, <2>2 DEF HasResumed
<1>8. /\ Nodes(u.k, event) = Nodes(st.k, event) \ {t}
      /\ u.k.stat = [st.k.stat EXCEPT ![t] = "ready"]
      /\ u.k.lock_nest = st.k.lock_nest /\ u.k.current_thread = st.k.current_thread
  BY <1>1, <1>7 DEF WokenUp
<1>9. Told(u) = Told(st) \cup {t}
  BY <1>2, <1>8 DEF Told
<1>10. LoopKernel(u)
  <2>1. st.k.stat \in [Thread -> Stat]
    BY <1>4 DEF KernelInv, KernelType
  <2> QED BY <1>7, <1>8, <1>9, <2>1 DEF LoopInv, LoopKernel
<1>11. st.event_set \in [Thread -> SUBSET Bit] /\ st.set \subseteq set \cup bits
  BY DEF LoopInv, LoopBits
<1>12. \A x \in Thread : u.event_set[x] = IF x = t THEN got ELSE st.event_set[x]
  BY <1>3, <1>11
<1>13. \A b \in Bit :
         ClearedFor(u, b) = IF Clears(t) /\ b \in got THEN ClearedFor(st, b) \cup {t}
                                                ELSE ClearedFor(st, b)
  <2>1. t \notin Told(st) /\ Told(st) \subseteq Thread
    BY <1>1, <1>4 DEF Told
  <2> QED BY <1>2, <1>9, <1>12, <2>1 DEF ClearedFor
<1>14. \A b \in Bit : IF b \in (set \cup bits) \ u.set
                      THEN \E x \in Thread : ClearedFor(u, b) = {x}
                      ELSE ClearedFor(u, b) = {}
  <2> TAKE b \in Bit
  <2>1. CASE Clears(t) /\ b \in got
    <3>1. b \in st.set /\ b \in set \cup bits /\ b \notin u.set
      BY <1>3, <1>6, <1>11, <2>1
    <3>2. ClearedFor(st, b) = {}
      BY <3>1 DEF LoopInv, LoopBits
    <3>3. ClearedFor(u, b) = {t}
      BY <1>13, <2>1, <3>2
    <3> QED BY <1>2, <3>1, <3>3
  <2>2. CASE ~(Clears(t) /\ b \in got)
    <3>1. b \in u.set <=> b \in st.set
      BY <1>3, <2>2
    <3>2. ClearedFor(u, b) = ClearedFor(st, b)
      BY <1>13, <2>2
    <3> QED BY <3>1, <3>2 DEF LoopInv, LoopBits
  <2> QED BY <2>1, <2>2
<1>15. LoopBits(u, bits)
  <2>1. u.event_set \in [Thread -> SUBSET Bit]
    BY <1>2, <1>3, <1>6, <1>11
  <2>2. u.set \subseteq st.set
    BY <1>3
  <2>3. \A x \in Thread : x \notin Told(u) => u.event_set[x] = event_set[x]
    BY <1>9, <1>12 DEF LoopInv, LoopBits
  <2>4. \A x \in Told(u) : /\ u.event_set[x] # {}
                           /\ u.event_set[x] \subseteq set \cup bits
    <3>1. Told(u) \subseteq Thread
      BY <1>1 DEF Told
    <3> QED BY <1>6, <1>9, <1>11, <1>12, <3>1 DEF LoopInv, LoopBits
  <2> QED BY <1>11, <1>14, <2>1, <2>2, <2>3, <2>4 DEF LoopBits
<1>16. LoopTurns(u, n + 1)
  <2> DEFINE s == k.list[event]
  <2>1. \A i \in n + 1 + 1 .. Len(s) : s[i] \in Nodes(u.k, event)
    <3> TAKE i \in n + 1 + 1 .. Len(s)
    <3>1. i \in n + 1 .. Len(s) /\ i \in 1 .. Len(s) /\ i # n + 1
      BY <1>1
    <3>2. s[i] # t
      BY <1>1, <3>1 DEF NoRepeat
    <3>3. s[i] \in Nodes(st.k, event)
      BY <3>1 DEF LoopInv, LoopTurns
    <3> QED BY <1>8, <3>2, <3>3
  <2>2. ASSUME NEW i \in 1 .. n + 1, s[i] \in Nodes(u.k, event)
        PROVE  ~Satisfied(u.set, event_set[s[i]], event_info[s[i]])
    <3>1. s[i] \in Nodes(st.k, event) /\ s[i] # t
      BY <1>8, <2>2
    <3>2. i \in 1 .. n
      BY <1>1, <3>1
    <3>3. ~Satisfied(st.set, event_set[s[i]], event_info[s[i]])
      BY <3>1, <3>2 DEF LoopInv, LoopTurns
    <3>4. event_set[s[i]] # {}
      BY <3>1 DEF LoopInv, LoopKernel, Waited
    <3>5. u.set \subseteq st.set
      BY <1>3
    <3> QED BY <3>3, <3>4, <3>5, FewerBits
  <2> QED BY <2>1, <2>2 DEF LoopTurns
<1> QED BY <1>10, <1>15, <1>16 DEF LoopInv, u

\* The loop to its end.
LEMMA LoopEnds ==
  ASSUME Waited, NEW bits \in SUBSET Bit
  PROVE  LoopInv(Answered(bits), Len(k.list[event]), bits)
<1> DEFINE s == k.list[event]
<1>1. s \in Seq(Thread) /\ Len(s) \in Nat
  BY WaiterList DEF Waited
<1>2. PICK f : Turns(f, s, Raised(bits)) /\ Answered(bits) = f[Len(s)]
  BY <1>1, AnsweredInTurns
<1>3. f[0] = Raised(bits)
  BY <1>1, <1>2 DEF Turns
<1>4. \A n \in 0 .. Len(s) - 1 : f[n + 1] = Answer(f[n], s[n + 1])
  <2> TAKE n \in 0 .. Len(s) - 1
  <2>1. n + 1 \in 0 .. Len(s) /\ n + 1 # 0 /\ (n + 1) - 1 = n
    BY <1>1
  <2> QED BY <1>2, <2>1 DEF Turns
<1>5. ASSUME NEW n \in 0 .. Len(s) - 1, LoopInv(f[n], n, bits)
      PROVE  LoopInv(f[n + 1], n + 1, bits)
  <2> DEFINE t == s[n + 1]
  <2>1. f[n + 1] = Answer(f[n], t)
    BY <1>4
  <2>2. CASE Satisfied(f[n].set, f[n].event_set[t], event_info[t])
    BY <1>5, <2>1, <2>2, TurnAnswers
  <2>3. CASE ~Satisfied(f[n].set, f[n].event_set[t], event_info[t])
    <3>1. f[n + 1] = f[n]
      BY <2>1, <2>3 DEF Answer
    <3> QED BY <1>5, <2>3, <3>1, TurnPasses
  <2> QED BY <2>2, <2>3
<1> DEFINE Wrong == {n \in 0 .. Len(s) : ~LoopInv(f[n], n, bits)}
<1>6. Wrong = {}
  <2> SUFFICES ASSUME Wrong # {} PROVE FALSE
    OBVIOUS
  <2>1. PICK n \in Wrong : \A m \in Wrong : n <= m
    <3>1. Wrong \subseteq Nat
      OBVIOUS
    <3> QED BY <3>1, NaturalMinimum
  <2>2. n \in 0 .. Len(s) /\ ~LoopInv(f[n], n, bits) /\ n # 0
    BY <1>3, LoopStarts
  <2>3. n - 1 \in 0 .. Len(s) - 1 /\ n - 1 \in 0 .. Len(s)
        /\ (n - 1) + 1 = n /\ ~(n <= n - 1)
    BY <1>1, <2>2
  <2>4. LoopInv(f[n - 1], n - 1, bits)
    BY <2>1, <2>3
  <2> QED BY <1>5, <2>2, <2>3, <2>4
<1>7. Len(s) \in 0 .. Len(s)
  BY <1>1
<1> QED BY <1>2, <1>6, <1>7

-----------------------------------------------------------------------------
(* The invariant of the event *)

EvTypes ==
  /\ pc \in [Thread -> EvLabel]
  /\ set \in SUBSET Bit
  /\ event_set \in [Thread -> SUBSET Bit]
  /\ event_info \in [Thread -> Options \cup {{}}]
  /\ event_alive \in BOOLEAN
  /\ raised \in [Bit -> Int]
  /\ seen \in [Thread -> SUBSET Bit]

\* A waiter has a condition, and has seen what is set.
WaitersSee ==
  \A t \in EvWaiters : /\ event_set[t] # {} /\ event_info[t] # {}
                       /\ set \subseteq seen[t]

EvInv ==
  /\ CpuInv /\ EvTypes /\ WaitersSee
  /\ NoMissedEvent /\ ClearedByOne /\ ReceivedWasSent

LEMMA EvInitInv ==
  ASSUME EvInit
  PROVE  EvInv
<1>1. /\ CpuInv /\ pc = [t \in Thread |-> "run"]
      /\ \A h \in Queue : Nodes(k, h) = {}
  BY IpcInitEstablishesInv DEF EvInit, IpcInit
<1>2. EvWaiters = {}
  BY <1>1, EventType DEF EvWaiters, Nodes
<1>3. EvTypes
  BY <1>1 DEF EvInit, EvTypes, EvLabel
<1>4. ClearedByOne
  BY DEF EvInit, ClearedByOne
<1>5. ReceivedWasSent
  BY <1>1 DEF ReceivedWasSent
<1> QED BY <1>1, <1>2, <1>3, <1>4, <1>5 DEF EvInv, WaitersSee, NoMissedEvent

\* The threads that are about to return from rt_event_recv what it received.
Receivers(kk, p) ==
  {t \in Thread : /\ p[t] \in {"wait", "received"}
                  /\ kk.stat[t] = "ready" /\ kk.error[t] = "ok"}

\* Nobody starts to wait, and nobody is answered.
LEMMA QuietKeepsEvInv ==
  ASSUME EvInv, CpuInv', EvTypes', ClearedByOne',
         set' \subseteq set, UNCHANGED <<event_set, event_info>>,
         EvWaiters' \subseteq EvWaiters,
         Receivers(k', pc') \subseteq Receivers(k, pc),
         \A t \in Receivers(k', pc') \cup EvWaiters' : seen'[t] = seen[t]
  PROVE  EvInv'
<1>1. WaitersSee'
  BY DEF EvInv, WaitersSee
<1>2. NoMissedEvent'
  <2> SUFFICES ASSUME NEW t \in EvWaiters'
               PROVE  ~Satisfied(set', event_set'[t], event_info'[t])
    BY DEF NoMissedEvent, Satisfied
  <2>1. t \in EvWaiters /\ event_set[t] # {}
    BY DEF EvInv, WaitersSee
  <2>2. ~Satisfied(set, event_set[t], event_info[t])
    BY <2>1 DEF EvInv, NoMissedEvent
  <2> QED BY <2>1, <2>2, FewerBits
<1>3. ReceivedWasSent'
  <2>1. \A t \in Receivers(k, pc) : event_set[t] # {} /\ event_set[t] \subseteq seen[t]
    BY DEF EvInv, ReceivedWasSent, Receivers
  <2>2. \A t \in Receivers(k', pc') : event_set'[t] # {} /\ event_set'[t] \subseteq seen'[t]
    BY <2>1
  <2> QED BY <2>2 DEF ReceivedWasSent, Receivers
<1> QED BY <1>1, <1>2, <1>3 DEF EvInv

LEMMA WaitersAreNodes ==
  EvWaiters = Nodes(k, event) /\ EvWaiters' = Nodes(k', event)
BY DEF EvWaiters, Nodes

\* A step that does not touch the event.
LEMMA EvAsideKeepsInv ==
  ASSUME EvInv, CpuInv', pc' \in [Thread -> EvLabel], UNCHANGED eventvars,
         Nodes(k', event) \subseteq Nodes(k, event),
         Receivers(k', pc') \subseteq Receivers(k, pc)
  PROVE  EvInv'
<1>1. EvTypes' /\ ClearedByOne'
  BY DEF EvInv, EvTypes, ClearedByOne, eventvars
<1> QED BY <1>1, WaitersAreNodes, QuietKeepsEvInv DEF eventvars

-----------------------------------------------------------------------------
(* The CPU *)

LEMMA EvFacts ==
  ASSUME EvInv
  PROVE  /\ CpuInv /\ KernelInv(k, {}) /\ event \in Queue
         /\ pc \in [Thread -> EvLabel]
         /\ k.stat \in [Thread -> Stat] /\ k.error \in [Thread -> Error]
BY EventType DEF EvInv, EvTypes, CpuInv, KernelInv, KernelType

LEMMA EvCpuStep ==
  ASSUME EvInv, CpuStep, UNCHANGED eventvars
  PROVE  EvInv'
<1>1. CASE Delay
  <2>1. /\ CpuInv' /\ Nodes(k', event) = Nodes(k, event)
        /\ pc' = [pc EXCEPT ![self] = "sched"] /\ k'.error = k.error
        /\ k'.stat = [k.stat EXCEPT ![self] = "suspend"] /\ self \in Thread
    BY <1>1, EvFacts, DelayStep
  <2>2. pc' \in [Thread -> EvLabel]
    BY <2>1, EvFacts DEF EvLabel
  <2>3. Receivers(k', pc') \subseteq Receivers(k, pc)
    BY <2>1, EvFacts DEF Receivers
  <2> QED BY <2>1, <2>2, <2>3, EvAsideKeepsInv
<1>2. CASE Tick
  <2>1. CpuInv' /\ SameWaiters(k, k') /\ UNCHANGED <<pc, k.stat>>
    BY <1>2, EvFacts, TickStep
  <2> QED BY <2>1, EvFacts, EvAsideKeepsInv DEF SameWaiters, Receivers
<1>3. ASSUME NEW t \in Thread, Startup(t)
      PROVE  EvInv'
  <2>1. /\ CpuInv' /\ SameWaiters(k, k') /\ UNCHANGED pc /\ k.stat[t] = "init"
        /\ k'.stat = [k.stat EXCEPT ![t] = "ready"]
    BY <1>3, EvFacts, StartupStep
  <2>2. pc[t] = "run"
    BY <2>1, EvFacts DEF CpuInv
  <2>3. Receivers(k', pc') \subseteq Receivers(k, pc)
    BY <2>1, <2>2, EvFacts DEF SameWaiters, Receivers
  <2> QED BY <2>1, <2>3, EvFacts, EvAsideKeepsInv DEF SameWaiters
<1>4. ASSUME NEW t \in Thread, TimerCheck(t)
      PROVE  EvInv'
  <2>1. /\ CpuInv' /\ UNCHANGED pc
        /\ Nodes(k', event) = Nodes(k, event) \ {t}
        /\ k'.stat = [k.stat EXCEPT ![t] = "ready"]
        /\ k'.error = [k.error EXCEPT ![t] = "timeout"]
    BY <1>4, EvFacts, TimerCheckStep
  <2>2. Receivers(k', pc') \subseteq Receivers(k, pc)
    BY <2>1, EvFacts DEF Receivers
  <2> QED BY <2>1, <2>2, EvFacts, EvAsideKeepsInv
<1> QED BY <1>1, <1>2, <1>3, <1>4 DEF CpuStep

\* rt_schedule, and the change of the place in the call that goes with it.
LEMMA EvScheduleAt ==
  ASSUME EvInv, NEW a, NEW b, ScheduleAt(a, b), UNCHANGED eventvars,
         b \in EvLabel, b \in {"wait", "received"} => a \in {"wait", "received"}
  PROVE  EvInv'
<1>1. /\ CpuInv' /\ SameWaiters(k, k') /\ k'.stat = k.stat
      /\ pc[self] = a /\ self \in Thread /\ pc' = [pc EXCEPT ![self] = b]
  BY EvFacts, ScheduleAtStep
<1>2. pc' \in [Thread -> EvLabel]
  BY <1>1, EvFacts
<1>3. Receivers(k', pc') \subseteq Receivers(k, pc)
  BY <1>1, EvFacts DEF SameWaiters, Receivers
<1> QED BY <1>1, <1>2, <1>3, EvFacts, EvAsideKeepsInv DEF SameWaiters

\* Only pc of the running thread changes, which is ready.
LEMMA EvGoto ==
  ASSUME EvInv, NEW label \in EvLabel, NEW at, At(at), at \notin AboutToSchedule,
         label \notin {"wait", "received"}, UNCHANGED k, Goto(label)
  PROVE  /\ CpuInv' /\ pc' \in [Thread -> EvLabel]
         /\ Receivers(k', pc') \subseteq Receivers(k, pc) \ {self}
         /\ self \in Thread /\ self \notin EvWaiters /\ pc[self] = at
<1>1. self \in Thread /\ k.stat[self] = "ready" /\ pc[self] = at
  BY EvFacts, RunnerIsReady
<1>2. pc' = [pc EXCEPT ![self] = label]
  BY DEF Goto
<1>3. CpuInv'
  BY <1>1, <1>2, EvFacts, PcStepKeepsCpuInv
<1>4. self \notin EvWaiters
  BY <1>1, WaiterList, EvFacts
<1> QED BY <1>1, <1>2, <1>3, <1>4, EvFacts DEF Receivers

-----------------------------------------------------------------------------
(* rt_event_delete, rt_event_control, and the return of rt_event_recv *)

LEMMA EvReturnStep ==
  ASSUME EvInv, RecvReturn
  PROVE  EvInv'
<1>1. /\ CpuInv' /\ pc' \in [Thread -> EvLabel]
      /\ Receivers(k', pc') \subseteq Receivers(k, pc) \ {self}
      /\ self \in Thread /\ self \notin EvWaiters
  BY EvGoto DEF RecvReturn, EvLabel, AboutToSchedule
<1>2. EvTypes' /\ ClearedByOne'
  BY <1>1 DEF EvInv, EvTypes, ClearedByOne, RecvReturn
<1>3. \A t \in Thread : t # self => seen'[t] = seen[t]
  BY DEF EvInv, EvTypes, RecvReturn
<1>4. EvWaiters' = EvWaiters /\ EvWaiters \subseteq Thread
  BY WaiterList, EvFacts DEF RecvReturn, EvWaiters
<1>5. \A t \in Receivers(k', pc') \cup EvWaiters' : seen'[t] = seen[t]
  BY <1>1, <1>3, <1>4 DEF Receivers
<1> QED BY <1>1, <1>2, <1>4, <1>5, QuietKeepsEvInv DEF RecvReturn

LEMMA EvDeleteStep ==
  ASSUME EvInv, EvDelete \/ EvDeleteTest \/ EvDeleteTurn
  PROVE  EvInv'
<1>1. CASE EvDelete
  <2>1. /\ CpuInv' /\ pc' \in [Thread -> EvLabel]
        /\ Receivers(k', pc') \subseteq Receivers(k, pc)
    BY <1>1, EvGoto DEF EvDelete, EvFree, EvLabel, AboutToSchedule
  <2>2. EvTypes' /\ ClearedByOne'
    BY <1>1, <2>1 DEF EvInv, EvTypes, ClearedByOne, EvDelete
  <2> QED BY <1>1, <2>1, <2>2, QuietKeepsEvInv DEF EvDelete, EvWaiters
<1>2. CASE EvDeleteTest
  <2>1. /\ CpuInv' /\ pc' \in [Thread -> EvLabel]
        /\ Receivers(k', pc') \subseteq Receivers(k, pc)
    BY <1>2, EvGoto DEF EvDeleteTest, ResumeAllTest, EvLabel, AboutToSchedule
  <2> QED BY <1>2, <2>1, EvAsideKeepsInv DEF EvDeleteTest, ResumeAllTest
<1>3. CASE EvDeleteTurn
  <2> DEFINE t == FirstThread(k, event)
  <2>1. /\ CpuInv' /\ WokenUp(k, k', t) /\ t \in Thread
        /\ k'.error = [k.error EXCEPT ![t] = "error"]
        /\ self \in Thread
        /\ pc' = [pc EXCEPT ![self] = "scan"]
    BY <1>3, EvFacts, ResumeAllTurnStep DEF EvDeleteTurn
  <2> HIDE DEF t
  <2>2. pc' \in [Thread -> EvLabel]
    BY <2>1, EvFacts DEF EvLabel
  <2>3. Nodes(k', event) = Nodes(k, event) \ {t}
    BY <2>1, EvFacts DEF WokenUp
  <2>4. Receivers(k', pc') \subseteq Receivers(k, pc)
    BY <2>1, EvFacts DEF WokenUp, Receivers
  <2> QED BY <1>3, <2>1, <2>2, <2>3, <2>4, EvAsideKeepsInv DEF EvDeleteTurn
<1> QED BY <1>1, <1>2, <1>3

LEMMA EvResetStep ==
  ASSUME EvInv, EvReset \/ EvResetResume \/ EvResetSet
  PROVE  EvInv'
<1>1. CASE EvReset
  <2>1. /\ CpuInv' /\ pc' \in [Thread -> EvLabel]
        /\ Receivers(k', pc') \subseteq Receivers(k, pc)
    BY <1>1, EvGoto DEF EvReset, EvFree, EvLabel, AboutToSchedule
  <2> QED BY <1>1, <2>1, EvAsideKeepsInv DEF EvReset
<1>2. CASE EvResetResume
  <2> DEFINE t == FirstThread(k, event)
  <2>1. self \in Thread /\ k.stat[self] = "ready" /\ pc[self] = "reset"
    BY <1>2, EvFacts, RunnerIsReady DEF EvResetResume, AboutToSchedule
  <2>2. ~rt_list_isempty(k.list[event]) /\ k' = ResumeWithError(k, event) /\ pc' = pc
    BY <1>2 DEF EvResetResume
  <2>3. t \in Thread /\ k.stat[t] = "suspend"
    BY <2>2, EvFacts, FirstWaiter
  <2>4. /\ KernelInv(k', {}) /\ WokenUp(k, k', t)
        /\ k'.error = [k.error EXCEPT ![t] = "error"]
    BY <2>2, EvFacts, ResumeWithErrorKeepsInv
  <2> HIDE DEF t
  <2>5. pc' = [pc EXCEPT ![self] = "reset"]
    BY <2>1, <2>2, EvFacts
  <2>6. CpuInv'
    BY <2>1, <2>3, <2>4, <2>5, EvFacts, WokenUpKeepsCpuInv
  <2>7. Nodes(k', event) = Nodes(k, event) \ {t}
    BY <2>4, EvFacts DEF WokenUp
  <2>8. Receivers(k', pc') \subseteq Receivers(k, pc)
    BY <2>2, <2>3, <2>4, EvFacts DEF WokenUp, Receivers
  <2> QED BY <1>2, <2>2, <2>6, <2>7, <2>8, EvFacts, EvAsideKeepsInv DEF EvResetResume
<1>3. CASE EvResetSet
  <2>1. /\ CpuInv' /\ pc' \in [Thread -> EvLabel]
        /\ Receivers(k', pc') \subseteq Receivers(k, pc)
    BY <1>3, EvGoto DEF EvResetSet, EvLabel, AboutToSchedule
  <2>2. EvTypes' /\ ClearedByOne' /\ set' \subseteq set
    BY <1>3, <2>1 DEF EvInv, EvTypes, ClearedByOne, EvResetSet
  <2> QED BY <1>3, <2>1, <2>2, QuietKeepsEvInv DEF EvResetSet, EvWaiters
<1> QED BY <1>1, <1>2, <1>3

-----------------------------------------------------------------------------
(* rt_event_recv *)

LEMMA EvRecvNowStep ==
  ASSUME EvInv, NEW wanted \in SUBSET Bit, NEW option \in Options,
         NEW time \in EvTimes, RecvNow(wanted, option, time)
  PROVE  EvInv'
<1>1. self \in Thread /\ k.stat[self] = "ready" /\ pc[self] = "run" /\ UNCHANGED pc
  BY EvFacts, RunnerIsReady DEF RecvNow, EvFree, AboutToSchedule
<1>2. \E e \in Error : k' = SetError(k, self, e)
  BY DEF RecvNow, Error
<1>3. pc' = [pc EXCEPT ![self] = "run"]
  BY <1>1, EvFacts
<1>4. /\ CpuInv' /\ Nodes(k', event) = Nodes(k, event) /\ k'.stat = k.stat
      /\ \A t \in Thread \ {self} : k'.error[t] = k.error[t]
  BY <1>1, <1>2, <1>3, EvFacts, PcStepKeepsCpuInv
<1>5. Receivers(k', pc') \subseteq Receivers(k, pc)
  BY <1>1, <1>4 DEF Receivers
<1>6. /\ set' \subseteq set /\ raised' \in [Bit -> Int]
      /\ \A b \in Bit : raised'[b] = IF b \in set' THEN 1 ELSE 0
  <2>1. /\ raised \in [Bit -> Int]
        /\ \A b \in Bit : raised[b] = IF b \in set THEN 1 ELSE 0
    BY DEF EvInv, EvTypes, ClearedByOne
  <2>2. CASE UNCHANGED <<set, raised>>
    BY <2>1, <2>2
  <2>3. CASE /\ set' = set \ wanted
             /\ raised' = [b \in Bit |->
                  raised[b] - IF b \in set \cap wanted THEN 1 ELSE 0]
    <3>1. \A b \in Bit : raised'[b] = IF b \in set' THEN 1 ELSE 0
      BY <2>1, <2>3
    <3>2. raised' \in [Bit -> Int]
      BY <2>1, <2>3
    <3> QED BY <2>3, <3>1, <3>2
  <2> QED BY <2>2, <2>3 DEF RecvNow
<1>7. EvTypes' /\ ClearedByOne'
  BY <1>1, <1>6 DEF EvInv, EvTypes, ClearedByOne, RecvNow
<1> QED BY <1>4, <1>5, <1>6, <1>7, WaitersAreNodes, QuietKeepsEvInv DEF RecvNow

LEMMA EvRecvWaitStep ==
  ASSUME EvInv, NEW wanted \in SUBSET Bit, NEW option \in Options,
         NEW time \in EvTimes, RecvWait(wanted, option, time)
  PROVE  EvInv'
<1>1. /\ self \in Thread \ {Idle} /\ k.stat[self] = "ready" /\ pc[self] = "run"
  BY EvFacts, RunnerIsReady DEF RecvWait, EvFree, AboutToSchedule
<1> DEFINE u == Wait(k, event, self, event_flag, time)
<1>2. Waiting(k, u, event, self, time)
  BY <1>1, EvFacts, WaitPutsToSleep
<1>3. k' = u /\ pc' = [pc EXCEPT ![self] = "wait"]
  BY DEF RecvWait, Goto
<1> HIDE DEF u
<1>4. /\ KernelInv(k', {})
      /\ Nodes(k', event) = Nodes(k, event) \cup {self}
      /\ k'.stat = [k.stat EXCEPT ![self] = "suspend"]
      /\ k'.error = [k.error EXCEPT ![self] = "ok"]
      /\ k'.lock_nest = k.lock_nest /\ k'.current_thread = k.current_thread
  BY <1>2, <1>3, EvFacts DEF Waiting, PutToSleep
<1>5. CpuInv'
  BY <1>1, <1>3, <1>4, EvFacts DEF CpuInv, AboutToSchedule, self
<1>6. Receivers(k', pc') \subseteq Receivers(k, pc) \ {self}
  BY <1>1, <1>3, <1>4, EvFacts DEF Receivers
<1>7. /\ set \in SUBSET Bit /\ event_set \in [Thread -> SUBSET Bit]
      /\ event_info \in [Thread -> Options \cup {{}}]
      /\ seen \in [Thread -> SUBSET Bit] /\ option # {}
  BY EventType DEF EvInv, EvTypes
<1>8. /\ event_set' = [event_set EXCEPT ![self] = wanted]
      /\ event_info' = [event_info EXCEPT ![self] = option]
      /\ seen' = [seen EXCEPT ![self] = set]
      /\ UNCHANGED <<set, event_alive, raised>>
      /\ wanted # {} /\ ~Satisfied(set, wanted, option)
  BY DEF RecvWait
<1>9. EvTypes'
  <2>1. "wait" \in EvLabel
    BY DEF EvLabel
  <2>2. pc' \in [Thread -> EvLabel]
    BY <1>3, <2>1, EvFacts
  <2> QED BY <1>1, <1>7, <1>8, <2>2 DEF EvInv, EvTypes
<1>10. ClearedByOne'
  BY <1>8 DEF EvInv, ClearedByOne
<1>11. \A t \in EvWaiters' : t \in Thread /\ (t = self \/ t \in EvWaiters)
  BY <1>1, <1>4, WaitersAreNodes, WaiterList, EvFacts
<1>12. \A t \in Thread : t # self =>
         /\ event_set'[t] = event_set[t] /\ event_info'[t] = event_info[t]
         /\ seen'[t] = seen[t]
  BY <1>7, <1>8
<1>13. event_set'[self] = wanted /\ event_info'[self] = option /\ seen'[self] = set
  BY <1>1, <1>7, <1>8
<1>14. WaitersSee'
  <2> SUFFICES ASSUME NEW t \in EvWaiters'
               PROVE  /\ event_set'[t] # {} /\ event_info'[t] # {}
                      /\ set' \subseteq seen'[t]
    BY DEF WaitersSee
  <2>1. CASE t = self
    BY <1>7, <1>8, <1>13, <2>1
  <2>2. CASE t # self
    BY <1>8, <1>11, <1>12, <2>2 DEF EvInv, WaitersSee
  <2> QED BY <2>1, <2>2
<1>15. NoMissedEvent'
  <2> SUFFICES ASSUME NEW t \in EvWaiters'
               PROVE  ~Satisfied(set', event_set'[t], event_info'[t])
    BY DEF NoMissedEvent, Satisfied
  <2>1. CASE t = self
    BY <1>8, <1>13, <2>1
  <2>2. CASE t # self
    BY <1>8, <1>11, <1>12, <2>2 DEF EvInv, NoMissedEvent
  <2> QED BY <2>1, <2>2
<1>16. ReceivedWasSent'
  <2>1. \A t \in Receivers(k, pc) : event_set[t] # {} /\ event_set[t] \subseteq seen[t]
    BY DEF EvInv, ReceivedWasSent, Receivers
  <2>2. \A t \in Receivers(k', pc') : event_set'[t] # {} /\ event_set'[t] \subseteq seen'[t]
    BY <1>6, <1>12, <2>1 DEF Receivers
  <2> QED BY <2>2 DEF ReceivedWasSent, Receivers
<1> QED BY <1>5, <1>9, <1>10, <1>14, <1>15, <1>16 DEF EvInv

-----------------------------------------------------------------------------
(* rt_event_send *)

\* The critical section of a send, whatever the kernel does after it.
LEMMA SendSectionKeepsInv ==
  ASSUME EvInv, CpuInv', pc' \in [Thread -> EvLabel], NEW bits \in SUBSET Bit,
         NEW left, left = Answered(bits), SendSection(bits, left),
         Nodes(k', event) = Nodes(left.k, event),
         k'.stat = left.k.stat, k'.error = left.k.error,
         \A t \in Thread : pc'[t] \in {"wait", "received"} => pc'[t] = pc[t]
  PROVE  EvInv'
<1>1. Waited
  BY EvFacts DEF EvInv, EvTypes, WaitersSee, Waited
<1>2. LoopInv(left, Len(k.list[event]), bits)
  BY <1>1, LoopEnds
<1>3. LoopKernel(left) /\ LoopBits(left, bits)
  BY <1>2 DEF LoopInv
<1>4. /\ EvWaiters' = Nodes(left.k, event) /\ EvWaiters' \subseteq EvWaiters
      /\ EvWaiters \subseteq Thread
      /\ Told(left) = EvWaiters \ EvWaiters'
  BY <1>3, WaitersAreNodes, WaiterList, EvFacts DEF LoopKernel, Told
<1>5. /\ set' = left.set /\ event_set' = left.event_set
      /\ UNCHANGED <<event_info, event_alive>>
      /\ seen' = [t \in Thread |->
                    IF t \in EvWaiters THEN seen[t] \cup bits ELSE seen[t]]
      /\ raised' = [b \in Bit |-> raised[b] - Cardinality(ClearedFor(left, b))
                                  + IF b \in bits \ set THEN 1 ELSE 0]
  BY DEF SendSection, ClearedFor, Told, Nodes
<1>6. /\ set \in SUBSET Bit /\ seen \in [Thread -> SUBSET Bit]
      /\ raised \in [Bit -> Int] /\ event_info \in [Thread -> Options \cup {{}}]
      /\ event_alive \in BOOLEAN
      /\ \A b \in Bit : raised[b] = IF b \in set THEN 1 ELSE 0
      /\ \A t \in EvWaiters : /\ event_set[t] # {} /\ event_info[t] # {}
                              /\ set \subseteq seen[t]
  BY DEF EvInv, EvTypes, ClearedByOne, WaitersSee
<1>7. /\ left.set \subseteq set \cup bits /\ left.event_set \in [Thread -> SUBSET Bit]
      /\ \A t \in Thread : t \notin Told(left) => left.event_set[t] = event_set[t]
      /\ \A t \in Told(left) : /\ left.event_set[t] # {}
                               /\ left.event_set[t] \subseteq set \cup bits
  BY <1>3 DEF LoopBits
<1>8. \A b \in Bit : raised'[b] = IF b \in set' THEN 1 ELSE 0
  <2> TAKE b \in Bit
  <2>1. raised'[b] = raised[b] - Cardinality(ClearedFor(left, b))
                     + IF b \in bits \ set THEN 1 ELSE 0
    BY <1>5
  <2>2. CASE b \in (set \cup bits) \ left.set
    <3>1. PICK t \in Thread : ClearedFor(left, b) = {t}
      BY <1>3, <2>2 DEF LoopBits
    <3>2. Cardinality(ClearedFor(left, b)) = 1
      BY <3>1, FS_Singleton
    <3> QED BY <1>5, <1>6, <2>1, <2>2, <3>2
  <2>3. CASE b \notin (set \cup bits) \ left.set
    <3>1. ClearedFor(left, b) = {}
      BY <1>3, <2>3 DEF LoopBits
    <3>2. Cardinality(ClearedFor(left, b)) = 0
      BY <3>1, FS_EmptySet
    <3>3. b \in left.set <=> b \in set \cup bits
      BY <1>7, <2>3
    <3> QED BY <1>5, <1>6, <2>1, <3>2, <3>3
  <2> QED BY <2>2, <2>3
<1>9. EvTypes'
  <2>1. raised' \in [Bit -> Int]
    <3>1. \A b \in Bit : raised'[b] \in Int
      BY <1>8
    <3> QED BY <1>5, <3>1
  <2>2. seen' \in [Thread -> SUBSET Bit]
    BY <1>5, <1>6
  <2> QED BY <1>5, <1>6, <1>7, <2>1, <2>2 DEF EvTypes
<1>10. ClearedByOne'
  BY <1>8 DEF ClearedByOne
<1>11. \A t \in EvWaiters : t \in Thread /\ seen'[t] = seen[t] \cup bits
  BY <1>4, <1>5
<1>12. \A t \in EvWaiters' : t \in EvWaiters /\ event_set'[t] = event_set[t]
  BY <1>4, <1>5, <1>7
<1>13. WaitersSee'
  <2> SUFFICES ASSUME NEW t \in EvWaiters'
               PROVE  /\ event_set'[t] # {} /\ event_info'[t] # {}
                      /\ set' \subseteq seen'[t]
    BY DEF WaitersSee
  <2> QED BY <1>5, <1>6, <1>7, <1>11, <1>12
<1>14. NoMissedEvent'
  <2> SUFFICES ASSUME NEW t \in EvWaiters'
               PROVE  ~Satisfied(set', event_set'[t], event_info'[t])
    BY DEF NoMissedEvent, Satisfied
  <2>1. PICK i \in 1 .. Len(k.list[event]) : t = k.list[event][i]
    BY <1>12, WaiterList, EvFacts
  <2>2. ~Satisfied(left.set, event_set[t], event_info[t])
    BY <1>2, <1>4, <2>1 DEF LoopInv, LoopTurns
  <2> QED BY <1>5, <1>12, <2>2
<1>15. ReceivedWasSent'
  <2> SUFFICES ASSUME NEW t \in Receivers(k', pc')
               PROVE  event_set'[t] # {} /\ event_set'[t] \subseteq seen'[t]
    BY DEF ReceivedWasSent, Receivers
  <2>1. CASE t \in Told(left)
    BY <1>4, <1>5, <1>6, <1>7, <1>11, <2>1
  <2>2. CASE t \notin Told(left)
    <3>1. t \in Receivers(k, pc)
      BY <1>3, <2>2 DEF Receivers, LoopKernel
    <3>2. t \in Thread /\ t \notin EvWaiters
      BY <3>1, WaiterList, EvFacts DEF Receivers
    <3>3. event_set[t] # {} /\ event_set[t] \subseteq seen[t]
      BY <3>1 DEF EvInv, ReceivedWasSent, Receivers
    <3>4. seen'[t] = seen[t]
      BY <1>5, <3>2
    <3> QED BY <1>5, <1>7, <2>2, <3>2, <3>3, <3>4
  <2> QED BY <2>1, <2>2
<1> QED BY <1>9, <1>10, <1>13, <1>14, <1>15 DEF EvInv

LEMMA LeftKernel ==
  ASSUME EvInv, NEW bits \in SUBSET Bit, NEW left, left = Answered(bits)
  PROVE  /\ KernelInv(left.k, {}) /\ left.k.lock_nest = 0
         /\ left.k.current_thread = k.current_thread
         /\ \A t \in Thread : left.k.stat[t] = k.stat[t]
                              \/ (k.stat[t] = "suspend" /\ left.k.stat[t] = "ready")
<1>1. Waited
  BY EvFacts DEF EvInv, EvTypes, WaitersSee, Waited
<1>2. LoopKernel(left)
  BY <1>1, LoopEnds DEF LoopInv
<1>3. /\ KernelInv(left.k, {}) /\ left.k.lock_nest = k.lock_nest
      /\ left.k.current_thread = k.current_thread
      /\ \A t \in Thread :
           left.k.stat[t] = IF t \in Told(left) THEN "ready" ELSE k.stat[t]
  BY <1>2 DEF LoopKernel
<1>4. k.lock_nest = 0
  BY EvFacts DEF CpuInv
<1>5. \A t \in Told(left) : k.stat[t] = "suspend"
  BY WaiterList, EvFacts DEF Told
<1>6. ASSUME NEW t \in Thread
      PROVE  left.k.stat[t] = k.stat[t]
             \/ (k.stat[t] = "suspend" /\ left.k.stat[t] = "ready")
  <2>1. left.k.stat[t] = IF t \in Told(left) THEN "ready" ELSE k.stat[t]
    BY <1>3
  <2> QED BY <1>5, <2>1
<1> QED BY <1>3, <1>4, <1>6

LEMMA EvSendStep ==
  ASSUME EvInv, NEW bits \in SUBSET Bit, Send(bits)
  PROVE  EvInv'
<1>1. PICK left : left = Answered(bits)
  OBVIOUS
<1>2. /\ SendSection(bits, left) /\ k' = left.k
      /\ pc' = pc \/ pc' = [pc EXCEPT ![self] = "sched"]
  BY <1>1 DEF Send, Goto
<1>3. self \in Thread /\ k.stat[self] = "ready" /\ pc[self] = "run"
  BY EvFacts, RunnerIsReady DEF Send, EvFree, AboutToSchedule
<1>4. /\ KernelInv(k', {}) /\ k'.lock_nest = 0
      /\ k'.current_thread = k.current_thread
      /\ \A t \in Thread : k'.stat[t] = k.stat[t]
                           \/ (k.stat[t] = "suspend" /\ k'.stat[t] = "ready")
  BY <1>1, <1>2, LeftKernel
<1>5. \A t \in Thread : pc'[t] = pc[t] \/ (t = self /\ pc'[t] = "sched")
  BY <1>2, EvFacts
<1>6. pc' \in [Thread -> EvLabel]
  BY <1>2, EvFacts DEF EvLabel
<1>7. CpuInv'
  BY <1>3, <1>4, <1>5, EvFacts DEF CpuInv, self
<1>8. \A t \in Thread : pc'[t] \in {"wait", "received"} => pc'[t] = pc[t]
  BY <1>5
<1> QED BY <1>1, <1>2, <1>6, <1>7, <1>8, SendSectionKeepsInv

LEMMA EvIsrSendStep ==
  ASSUME EvInv, NEW bits \in SUBSET Bit, IsrSend(bits)
  PROVE  EvInv'
<1>1. PICK left : left = Answered(bits)
  OBVIOUS
<1>2. /\ SendSection(bits, left) /\ UNCHANGED pc
      /\ \/ k' = k /\ left.k = k
         \/ k' = rt_schedule(left.k)
  BY <1>1 DEF IsrSend
<1>3. CASE k' = k /\ left.k = k
  <2>1. CpuInv'
    BY <1>2, <1>3, EvFacts DEF CpuInv
  <2> QED BY <1>1, <1>2, <1>3, <2>1, EvFacts, SendSectionKeepsInv
<1>4. CASE k' = rt_schedule(left.k)
  <2>1. /\ KernelInv(left.k, {}) /\ left.k.lock_nest = 0
        /\ \A t \in Thread : left.k.stat[t] = k.stat[t]
                             \/ (k.stat[t] = "suspend" /\ left.k.stat[t] = "ready")
    BY <1>1, LeftKernel
  <2>2. /\ KernelInv(k', {}) /\ Switched(left.k, k')
        /\ k'.current_thread \in Thread /\ k'.stat[k'.current_thread] = "ready"
        /\ SameWaiters(left.k, k')
    BY <1>4, <2>1, ScheduleGivesCpu
  <2>3. k'.lock_nest = 0 /\ k'.stat = left.k.stat
    BY <2>1, <2>2 DEF Switched
  <2>4. CpuInv'
    BY <1>2, <2>1, <2>2, <2>3, EvFacts DEF CpuInv
  <2>5. Nodes(k', event) = Nodes(left.k, event) /\ k'.error = left.k.error
    BY <2>2, EvFacts DEF SameWaiters
  <2> QED BY <1>1, <1>2, <2>3, <2>4, <2>5, EvFacts, SendSectionKeepsInv
<1> QED BY <1>2, <1>3, <1>4

-----------------------------------------------------------------------------
(* The theorems *)

LEMMA EvStepInv ==
  ASSUME EvInv, [EvNext]_<<k, pc, eventvars>>
  PROVE  EvInv'
<1>1. CASE CpuStep /\ UNCHANGED eventvars
  BY <1>1, EvCpuStep
<1>2. ASSUME NEW wanted \in SUBSET Bit, NEW option \in Options, NEW time \in EvTimes,
             RecvNow(wanted, option, time) \/ RecvWait(wanted, option, time)
      PROVE  EvInv'
  BY <1>2, EvRecvNowStep, EvRecvWaitStep
<1>3. CASE RecvSchedule
  BY <1>3, EvScheduleAt DEF RecvSchedule, EvLabel
<1>4. CASE RecvReturn
  BY <1>4, EvReturnStep
<1>5. ASSUME NEW bits \in SUBSET Bit, Send(bits) \/ IsrSend(bits)
      PROVE  EvInv'
  BY <1>5, EvSendStep, EvIsrSendStep
<1>6. CASE EvReschedule
  BY <1>6, EvScheduleAt DEF EvReschedule, EvLabel
<1>7. CASE EvDelete \/ EvDeleteTest \/ EvDeleteTurn
  BY <1>7, EvDeleteStep
<1>8. CASE EvReset \/ EvResetResume \/ EvResetSet
  BY <1>8, EvResetStep
<1>9. CASE UNCHANGED <<k, pc, eventvars>>
  <2>1. CpuInv' /\ pc' \in [Thread -> EvLabel]
    BY <1>9, EvFacts DEF CpuInv
  <2> QED BY <1>9, <2>1, EvAsideKeepsInv DEF Receivers
<1> QED BY <1>1, <1>2, <1>3, <1>4, <1>5, <1>6, <1>7, <1>8, <1>9 DEF EvNext

\* The inductive invariant of the event, with the types.
THEOREM EventInvariance == EvSpec => [](EvInv /\ EvTypeOK)
<1>1. EvInv => EvTypeOK
  BY DEF EvInv, EvTypes, EvTypeOK, WaitersSee, CpuInv, KernelInv
<1> QED BY <1>1, EvInitInv, EvStepInv, PTL DEF EvSpec

\* Nobody waits for what is set, for any number of waiters with any conditions,
\* whatever the loop of rt_event_send clears on its way.
THEOREM EventMissesNobody == EvSpec => []NoMissedEvent
<1>1. EvInv => NoMissedEvent
  BY DEF EvInv
<1> QED BY <1>1, EvInitInv, EvStepInv, PTL DEF EvSpec

\* Each bit that was raised is set until one receiver has cleared it, and what
\* rt_event_recv returns after a wait was sent before or during it.
THEOREM EventDelivers == EvSpec => []BitsAreDelivered
<1>1. EvInv => BitsAreDelivered
  BY DEF EvInv, BitsAreDelivered
<1> QED BY <1>1, EvInitInv, EvStepInv, PTL DEF EvSpec
=============================================================================
