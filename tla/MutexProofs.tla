---------------------------- MODULE MutexProofs ----------------------------
(***************************************************************************)
(* Mutual exclusion of the mutexes, for any threads, priorities, numbers   *)
(* of mutexes, flags and nesting, while takes, releases, timeouts and      *)
(* deletions interleave; and what the priorities of owners and waiters     *)
(* are.                                                                    *)
(*                                                                         *)
(* A step is looked at one mutex at a time: it is quiet for all mutexes    *)
(* but one (QuietMutex), so that what the invariant says of them is kept.  *)
(***************************************************************************)
EXTENDS Mutex, IpcProofs, FiniteSetTheorems

\* The threads in rt_mutex_take of m, waiting or on their way out.
Taking(m) == {t \in Thread : pc[t] \in {"take", "taken"} /\ object[t] = m}

\* A free mutex is nobody's in any respect.
Unowned(m) ==
  /\ owner[m] = NoThread /\ value[m] = 1 /\ hold[m] = 0
  /\ Waiters(m) = {} /\ Heir(m) = {}
  /\ \A t \in Thread : inside[m][t] = 0

\* An owned mutex is one thread's: it is inside, once less than hold says if
\* it was handed the mutex in a call that has not returned.
Owned(m, t) ==
  /\ owner[m] = t /\ value[m] = 0 /\ original_priority[m] \in Prio
  /\ t \notin Waiters(m) /\ Heir(m) \subseteq {t}
  /\ hold[m] > 0
  /\ hold[m] = inside[m][t] + (IF t \in Heir(m) THEN 1 ELSE 0)
  /\ \A s \in Thread \ {t} : inside[m][s] = 0

\* A thread suspended in rt_mutex_take is on the list of its mutex, that list
\* holds no other thread, and whoever waits has not been told anything yet.
MutexOK(m) ==
  /\ Waiters(m) = {t \in Taking(m) : k.stat[t] = "suspend"}
  /\ \A t \in Waiters(m) : k.error[t] = "ok"
  /\ Unowned(m) \/ \E t \in Thread : Owned(m, t)

MutexInv ==
  /\ CpuInv
  /\ TypeOK
  /\ \A m \in Mutex : MutexOK(m)

-----------------------------------------------------------------------------
(* Steps that leave a mutex alone *)

\* Nobody in a rt_mutex_take of m gets further, begins or returns.
Quiet(m) ==
  /\ Waiters(m)' = Waiters(m)
  /\ Taking(m)' = Taking(m)
  /\ \A t \in Taking(m) : /\ k'.stat[t] = k.stat[t]
                          /\ k'.error[t] = k.error[t]

SameFields(m) ==
  /\ value'[m] = value[m] /\ owner'[m] = owner[m] /\ hold'[m] = hold[m]
  /\ original_priority'[m] = original_priority[m]
  /\ inside'[m] = inside[m]

LEMMA HeirsAreTakers ==
  ASSUME NEW m
  PROVE  /\ Heir(m) = {t \in Taking(m) : k.stat[t] = "ready" /\ k.error[t] = "ok"}
         /\ Heir(m)' = {t \in Taking(m)' : k'.stat[t] = "ready" /\ k'.error[t] = "ok"}
BY DEF Heir, Taking

LEMMA QuietMutex ==
  ASSUME NEW m \in Mutex, MutexOK(m), Quiet(m), SameFields(m)
  PROVE  MutexOK(m)'
<1>1. Heir(m)' = Heir(m)
  BY HeirsAreTakers DEF Quiet
<1>2. /\ Waiters(m)' = {t \in Taking(m)' : k'.stat[t] = "suspend"}
      /\ \A t \in Waiters(m)' : k'.error[t] = "ok"
  BY DEF MutexOK, Quiet
<1>3. Unowned(m) => Unowned(m)'
  BY <1>1 DEF Quiet, SameFields, Unowned
<1>4. \A t \in Thread : Owned(m, t) => Owned(m, t)'
  BY <1>1 DEF Quiet, SameFields, Owned
<1>5. QED
  BY <1>2, <1>3, <1>4 DEF MutexOK

\* A waiter, or another sleeping thread, is woken with an error.
LEMMA RefusedMutex ==
  ASSUME NEW m \in Mutex, MutexOK(m), TypeOK, SameFields(m),
         NEW t \in Thread, k.stat[t] = "suspend",
         Waiters(m)' = Waiters(m) \ {t}, Taking(m)' = Taking(m),
         k'.stat = [k.stat EXCEPT ![t] = "ready"],
         NEW e \in Error \ {"ok"}, k'.error = [k.error EXCEPT ![t] = e]
  PROVE  MutexOK(m)'
<1>1. k.stat \in [Thread -> Stat] /\ k.error \in [Thread -> Error]
      /\ Taking(m) \subseteq Thread
  BY DEF TypeOK, KernelType, Taking
<1>2. /\ Waiters(m)' = {s \in Taking(m)' : k'.stat[s] = "suspend"}
      /\ \A s \in Waiters(m)' : k'.error[s] = "ok"
  BY <1>1 DEF MutexOK
<1>3. Heir(m)' = Heir(m)
  <2>1. \A s \in Taking(m) \ {t} : k'.stat[s] = k.stat[s] /\ k'.error[s] = k.error[s]
    BY <1>1
  <2>2. k.stat[t] # "ready" /\ (t \in Taking(m) => k'.error[t] # "ok")
    BY <1>1
  <2>3. QED
    BY <2>1, <2>2, HeirsAreTakers
<1>4. Unowned(m) => Unowned(m)'
  BY <1>3 DEF SameFields, Unowned
<1>5. \A s \in Thread : Owned(m, s) => Owned(m, s)'
  BY <1>3 DEF SameFields, Owned
<1>6. QED
  BY <1>2, <1>4, <1>5 DEF MutexOK

LEMMA TypeFromCpuInv ==
  ASSUME TypeOK, CpuInv', UNCHANGED mutexvars, pc' \in [Thread -> Label]
  PROVE  TypeOK'
BY DEF TypeOK, CpuInv, KernelInv, mutexvars

LEMMA UnchangedFields ==
  ASSUME UNCHANGED mutexvars
  PROVE  \A m : SameFields(m)
BY DEF mutexvars, SameFields

\* What a mutex is to the kernel.
LEMMA MutexLists ==
  ASSUME NEW m \in Mutex
  PROVE  /\ m \in Queue
         /\ Waiters(m) = Nodes(k, m) /\ Waiters(m)' = Nodes(k', m)
BY MutexType DEF Waiters, Nodes

LEMMA InitEstablishesMutexInv == Init => MutexInv
<1> SUFFICES ASSUME Init PROVE MutexInv
  OBVIOUS
<1>1. CpuInv /\ \A m \in Mutex : Waiters(m) = {}
  BY IpcInitEstablishesInv, MutexLists DEF Init
<1>2. /\ \A m \in Mutex : Taking(m) = {} /\ Heir(m) = {}
      /\ pc \in [Thread -> Label]
  BY DEF Init, IpcInit, Taking, Heir, Label
<1>3. (CHOOSE m \in Mutex : TRUE) \in Mutex
  BY MutexType
<1>4. TypeOK
  <2>1. object \in [Thread -> Mutex] /\ 0 \in 0 .. HoldMax /\ 1 \in {0, 1}
    BY <1>3, MutexType DEF Init
  <2>2. inside \in [Mutex -> [Thread -> 0 .. HoldMax]]
    BY <2>1 DEF Init
  <2>3. QED
    BY <1>1, <1>2, <2>1, <2>2 DEF Init, TypeOK, CpuInv, KernelInv
<1>5. \A m \in Mutex : Unowned(m)
  BY <1>1, <1>2 DEF Init, Unowned
<1>6. QED
  BY <1>1, <1>2, <1>4, <1>5 DEF MutexInv, MutexOK

-----------------------------------------------------------------------------
(* The steps of the CPU *)

\* A step without a thread in rt_mutex_take and without a field.
LEMMA QuietStep ==
  ASSUME MutexInv, CpuInv', pc' \in [Thread -> Label], UNCHANGED mutexvars,
         \A m \in Mutex : Quiet(m)
  PROVE  MutexInv'
<1>1. TypeOK'
  BY TypeFromCpuInv DEF MutexInv
<1>2. \A m \in Mutex : MutexOK(m)'
  BY QuietMutex, UnchangedFields DEF MutexInv
<1>3. QED
  BY <1>1, <1>2 DEF MutexInv

LEMMA StartupKeepsMutexInv ==
  ASSUME MutexInv, NEW t \in Thread, Startup(t), UNCHANGED mutexvars
  PROVE  MutexInv'
<1>1. /\ CpuInv' /\ SameWaiters(k, k') /\ pc' = pc /\ object' = object
      /\ k.stat[t] = "init" /\ k'.stat = [k.stat EXCEPT ![t] = "ready"]
  BY StartupStep DEF MutexInv, mutexvars
<1>2. pc[t] = "run" /\ k.stat \in [Thread -> Stat] /\ pc \in [Thread -> Label]
  BY <1>1 DEF MutexInv, CpuInv, TypeOK, KernelType
<1>3. \A m \in Mutex : Quiet(m)
  BY <1>1, <1>2, MutexLists DEF Quiet, Taking, SameWaiters
<1>4. QED
  BY <1>1, <1>2, <1>3, QuietStep

LEMMA TickKeepsMutexInv ==
  ASSUME MutexInv, Tick, UNCHANGED mutexvars
  PROVE  MutexInv'
<1>1. /\ CpuInv' /\ SameWaiters(k, k') /\ pc' = pc /\ object' = object
      /\ k'.stat = k.stat
  BY TickStep DEF MutexInv, mutexvars
<1>2. pc \in [Thread -> Label]
  BY DEF MutexInv, TypeOK
<1>3. \A m \in Mutex : Quiet(m)
  BY <1>1, MutexLists DEF Quiet, Taking, SameWaiters
<1>4. QED
  BY <1>1, <1>2, <1>3, QuietStep

LEMMA DelayKeepsMutexInv ==
  ASSUME MutexInv, Delay, UNCHANGED mutexvars
  PROVE  MutexInv'
<1>1. pc \in [Thread -> Label] /\ k.stat \in [Thread -> Stat]
  BY DEF MutexInv, TypeOK, KernelType
<1>2. /\ CpuInv' /\ \A g \in Queue : Nodes(k', g) = Nodes(k, g)
      /\ k'.error = k.error /\ k'.stat = [k.stat EXCEPT ![self] = "suspend"]
      /\ pc[self] = "run" /\ self \in Thread
      /\ pc' = [pc EXCEPT ![self] = "sched"] /\ object' = object
  BY <1>1, DelayStep DEF MutexInv, mutexvars
<1>3. \A m \in Mutex : Quiet(m)
  BY <1>1, <1>2, MutexLists DEF Quiet, Taking
<1>4. QED
  BY <1>1, <1>2, <1>3, QuietStep DEF Label

\* A timeout wakes a waiter, or a thread that only sleeps.
LEMMA TimerCheckKeepsMutexInv ==
  ASSUME MutexInv, NEW t \in Thread, TimerCheck(t), UNCHANGED mutexvars
  PROVE  MutexInv'
<1>1. /\ CpuInv' /\ pc' = pc /\ object' = object /\ k.stat[t] = "suspend"
      /\ \A g \in Queue : Nodes(k', g) = Nodes(k, g) \ {t}
      /\ k'.stat = [k.stat EXCEPT ![t] = "ready"]
      /\ k'.error = [k.error EXCEPT ![t] = "timeout"]
      /\ "timeout" \in Error \ {"ok"}
  BY TimerCheckStep DEF MutexInv, mutexvars, Sleepers, Error
<1>2. TypeOK'
  BY <1>1, TypeFromCpuInv DEF MutexInv, TypeOK
<1>3. ASSUME NEW m \in Mutex
      PROVE  MutexOK(m)'
  <2>1. Waiters(m)' = Waiters(m) \ {t} /\ Taking(m)' = Taking(m)
    BY <1>1, MutexLists DEF Taking
  <2>2. MutexOK(m) /\ TypeOK /\ SameFields(m)
    BY UnchangedFields DEF MutexInv
  <2>3. QED
    BY <1>1, <2>1, <2>2, RefusedMutex
<1>4. QED
  BY <1>1, <1>2, <1>3 DEF MutexInv

-----------------------------------------------------------------------------
(* The steps of the calls *)

\* What holds where a call runs with the CPU its own.
LEMMA AtRun ==
  ASSUME MutexInv, NEW label, At(label), label \notin AboutToSchedule
  PROVE  /\ self \in Thread \ {Idle} /\ pc[self] = label
         /\ k.stat[self] = "ready"
         /\ \A m \in Mutex : self \notin Waiters(m)
<1>1. self \in Thread \ {Idle} /\ k.stat[self] = "ready" /\ pc[self] = label
  BY RunnerIsReady DEF MutexInv
<1>2. QED
  BY <1>1 DEF MutexInv, MutexOK

\* The running thread, in no rt_mutex_take, goes from one place to another.
LEMMA CallerQuiet ==
  ASSUME MutexInv, self \in Thread, pc[self] \notin {"take", "taken"},
         NEW label \in Label \ {"take", "taken"},
         pc' = [pc EXCEPT ![self] = label],
         \A t \in Thread \ {self} : object'[t] = object[t],
         \A g \in Queue : Nodes(k', g) = Nodes(k, g),
         k'.stat = k.stat,
         \A t \in Thread \ {self} : k'.error[t] = k.error[t]
  PROVE  /\ pc' \in [Thread -> Label]
         /\ \A m \in Mutex : Quiet(m) /\ self \notin Taking(m)
<1>1. pc \in [Thread -> Label]
  BY DEF MutexInv, TypeOK
<1>2. \A m : self \notin Taking(m)
  BY DEF Taking
<1>3. \A m : Taking(m)' = Taking(m)
  BY <1>1 DEF Taking
<1>4. \A m : Taking(m) \subseteq Thread \ {self}
  BY <1>2 DEF Taking
<1>5. QED
  BY <1>1, <1>2, <1>3, <1>4, MutexLists DEF Quiet

\* The caller becomes the owner of a free mutex, or takes its own once more.
LEMMA TakeNowKeepsMutexInv ==
  ASSUME MutexInv, NEW m \in Mutex, TakeNow(m)
  PROVE  MutexInv'
<1>1. At("run") /\ "run" \notin AboutToSchedule
  BY DEF TakeNow, Free, AboutToSchedule
<1>2. self \in Thread /\ pc[self] = "run" /\ k.stat[self] = "ready"
  BY <1>1, AtRun
<1>3. /\ k' = SetError(k, self, "ok") /\ pc' = pc /\ object' = object
      /\ alive' = alive /\ hold[m] < HoldMax
      /\ hold' = [hold EXCEPT ![m] = hold[m] + 1]
      /\ inside' = [inside EXCEPT ![m] =
                      [inside[m] EXCEPT ![self] = inside[m][self] + 1]]
      /\ \/ /\ owner[m] = self
            /\ UNCHANGED <<value, owner, original_priority>>
         \/ /\ owner[m] # self /\ value[m] > 0
            /\ value' = [value EXCEPT ![m] = value[m] - 1]
            /\ owner' = [owner EXCEPT ![m] = self]
            /\ original_priority' =
                 [original_priority EXCEPT ![m] = k.current_priority[self]]
  BY DEF TakeNow, Enter
<1>4. /\ value \in [Mutex -> {0, 1}] /\ owner \in [Mutex -> Thread \cup {NoThread}]
      /\ original_priority \in [Mutex -> Prio \cup {255}]
      /\ hold \in [Mutex -> 0 .. HoldMax]
      /\ inside \in [Mutex -> [Thread -> 0 .. HoldMax]]
      /\ k.current_priority[self] \in Prio /\ pc \in [Thread -> Label]
      /\ HoldMax \in Nat \ {0} /\ NoThread \notin Thread
  BY <1>2, MutexType DEF MutexInv, TypeOK, KernelType
<1>5. pc' = [pc EXCEPT ![self] = "run"] /\ "ok" \in Error
      /\ "run" \in Label \ {"take", "taken"}
  BY <1>2, <1>3, <1>4 DEF Error, Label
<1>6. /\ CpuInv' /\ \A g \in Queue : Nodes(k', g) = Nodes(k, g)
      /\ k'.stat = k.stat
      /\ \A t \in Thread \ {self} : k'.error[t] = k.error[t]
  BY <1>2, <1>3, <1>4, <1>5, PcStepKeepsCpuInv DEF MutexInv
<1>7. \A n \in Mutex : Quiet(n) /\ self \notin Taking(n)
  BY <1>2, <1>3, <1>5, <1>6, CallerQuiet
<1>8. ASSUME NEW n \in Mutex \ {m}
      PROVE  MutexOK(n)'
  <2>1. SameFields(n)
    BY <1>3, <1>4 DEF SameFields
  <2>2. QED
    BY <1>7, <2>1, QuietMutex DEF MutexInv
<1>9. /\ self \notin Heir(m) /\ Heir(m)' = Heir(m) /\ Waiters(m)' = Waiters(m)
      /\ Waiters(m)' = {t \in Taking(m)' : k'.stat[t] = "suspend"}
      /\ \A t \in Waiters(m)' : k'.error[t] = "ok"
      /\ self \notin Waiters(m)
  BY <1>7, HeirsAreTakers DEF Quiet, MutexInv, MutexOK
<1>10. /\ hold'[m] = hold[m] + 1 /\ inside'[m][self] = inside[m][self] + 1
       /\ \A t \in Thread \ {self} : inside'[m][t] = inside[m][t]
  BY <1>2, <1>3, <1>4
<1>11. MutexOK(m)' /\ inside[m][self] < HoldMax
  <2>1. PICK t \in Thread : t = self
    BY <1>2
  <2>2. CASE owner[m] = t
    <3>1. Owned(m, t)
      BY <1>4, <2>2 DEF MutexInv, MutexOK, Owned, Unowned
    <3>2. UNCHANGED <<value, owner, original_priority>>
      BY <1>3, <2>1, <2>2
    <3>3. Owned(m, t)'
      BY <1>4, <1>9, <1>10, <2>1, <3>1, <3>2 DEF Owned
    <3>4. inside[m][t] < HoldMax
      BY <1>3, <1>4, <1>9, <2>1, <3>1 DEF Owned
    <3>5. QED
      BY <1>9, <2>1, <3>3, <3>4 DEF MutexOK
  <2>3. CASE owner[m] # t
    <3>1. value[m] > 0
      BY <1>3, <2>1, <2>3
    <3>2. Unowned(m)
      BY <1>4, <3>1 DEF MutexInv, MutexOK, Owned
    <3>3. /\ value'[m] = 0 /\ owner'[m] = t
          /\ original_priority'[m] = k.current_priority[t]
      BY <1>3, <1>4, <2>1, <2>3, <3>2 DEF Unowned
    <3>4. Owned(m, t)'
      BY <1>4, <1>9, <1>10, <2>1, <3>2, <3>3 DEF Owned, Unowned
    <3>5. inside[m][t] < HoldMax
      BY <1>4, <3>2 DEF Unowned
    <3>6. QED
      BY <1>9, <2>1, <3>4, <3>5 DEF MutexOK
  <2>4. QED
    BY <2>2, <2>3
<1>12. TypeOK'
  <2>1. /\ hold' \in [Mutex -> 0 .. HoldMax]
        /\ value' \in [Mutex -> {0, 1}]
    BY <1>3, <1>4
  <2>2. inside[m][self] + 1 \in 0 .. HoldMax
    BY <1>2, <1>4, <1>11
  <2>3. inside' \in [Mutex -> [Thread -> 0 .. HoldMax]]
    BY <1>2, <1>3, <1>4, <2>2
  <2>4. /\ owner' \in [Mutex -> Thread \cup {NoThread}]
        /\ original_priority' \in [Mutex -> Prio \cup {255}]
    <3>1. CASE UNCHANGED <<value, owner, original_priority>>
      BY <1>4, <3>1
    <3>2. CASE /\ owner' = [owner EXCEPT ![m] = self]
               /\ original_priority' =
                    [original_priority EXCEPT ![m] = k.current_priority[self]]
      BY <1>2, <1>4, <3>2
    <3>3. QED
      BY <1>3, <3>1, <3>2
  <2>5. object' \in [Thread -> Mutex] /\ alive' \subseteq Mutex
        /\ pc' \in [Thread -> Label] /\ k' \in KernelType
    BY <1>3, <1>4, <1>6 DEF MutexInv, TypeOK, CpuInv, KernelInv
  <2>6. QED
    BY <2>1, <2>3, <2>4, <2>5 DEF TypeOK
<1>13. QED
  BY <1>6, <1>8, <1>11, <1>12 DEF MutexInv

\* The running thread has given t the priority p, or t had it already.
Adjusted(u, t, p) ==
  /\ KernelInv(u, {})
  /\ \A h \in Queue : u.list[h] = k.list[h] /\ Nodes(u, h) = Nodes(k, h)
  /\ Reprioritized(k, u, t, p)

LEMMA AdjustedByChange ==
  ASSUME CpuInv, NEW t \in Thread, NEW p \in Prio
  PROVE  /\ Adjusted(ChangePriority(k, t, p), t, p)
         /\ p = k.current_priority[t] => Adjusted(k, t, p)
<1>1. KernelInv(k, {}) /\ t \notin {} /\ k \in KernelType
  BY DEF CpuInv, KernelInv
<1>2. Adjusted(ChangePriority(k, t, p), t, p)
  BY <1>1, ChangePriorityKeepsInv, ChangePriorityKeepsQueues DEF Adjusted
<1>3. p = k.current_priority[t] => Adjusted(k, t, p)
  BY <1>1 DEF Adjusted, Reprioritized, KernelType
<1>4. QED
  BY <1>2, <1>3

\* The priority the owner of m goes on with when the caller begins to wait.
Inherited(m) ==
  IF k.current_priority[self] < k.current_priority[owner[m]]
  THEN k.current_priority[self] ELSE k.current_priority[owner[m]]

\* A caller begins to wait: what the kernel's part of the step is.
LEMMA TakeWaitEffect ==
  ASSUME MutexInv, NEW m \in Mutex, NEW time, TakeWait(m, time), time # "no"
  PROVE  /\ CpuInv'
         /\ owner[m] \in Thread \ {self} /\ Owned(m, owner[m])
         /\ self \in Thread /\ pc[self] = "run" /\ k.stat[self] = "ready"
         /\ \E b : /\ Adjusted(b, owner[m], Inherited(m))
                   /\ k' = Wait(b, m, self, mutex_flag, time)
                   /\ PutToSleep(b, k', m, self)
         /\ k'.error = [k.error EXCEPT ![self] = "ok"]
         /\ pc' = [pc EXCEPT ![self] = "take"]
         /\ object' = [object EXCEPT ![self] = m]
<1> DEFINE b == Boost(m)
<1>1. At("run") /\ "run" \notin AboutToSchedule
  BY DEF TakeWait, Free, AboutToSchedule
<1>2. /\ self \in Thread \ {Idle} /\ pc[self] = "run" /\ k.stat[self] = "ready"
      /\ m \in Queue
  BY <1>1, AtRun, MutexLists
<1>3. /\ owner[m] # self /\ value[m] = 0
      /\ k' = Wait(b, m, self, mutex_flag, time)
      /\ object' = [object EXCEPT ![self] = m]
      /\ pc' = [pc EXCEPT ![self] = "take"]
  BY DEF TakeWait, Goto
<1>4. owner[m] \in Thread /\ Owned(m, owner[m])
  BY <1>3 DEF MutexInv, MutexOK, Owned, Unowned
<1>5. Adjusted(b, owner[m], Inherited(m))
  <2>1. CpuInv /\ k.current_priority \in [Thread -> Prio]
    BY DEF MutexInv, TypeOK, KernelType
  <2>2. CASE k.current_priority[self] < k.current_priority[owner[m]]
    <3>1. Inherited(m) \in Prio /\ b = ChangePriority(k, owner[m], Inherited(m))
      BY <1>2, <2>1, <2>2 DEF Inherited, Boost
    <3>2. QED
      BY <1>4, <2>1, <3>1, AdjustedByChange
  <2>3. CASE ~(k.current_priority[self] < k.current_priority[owner[m]])
    <3>1. Inherited(m) = k.current_priority[owner[m]] /\ b = k
      BY <2>3 DEF Inherited, Boost
    <3>2. QED
      BY <1>4, <2>1, <3>1, AdjustedByChange
  <2>4. QED
    BY <2>2, <2>3
<1> HIDE DEF b
<1>6. /\ KernelInv(b, {}) /\ b.stat = k.stat /\ b.error = k.error
      /\ b.lock_nest = k.lock_nest /\ b.current_thread = self
  BY <1>5 DEF Adjusted, Reprioritized, self
<1>7. /\ KernelInv(k', {}) /\ PutToSleep(b, k', m, self)
      /\ k'.error = [b.error EXCEPT ![self] = "ok"]
  BY <1>2, <1>3, <1>6, WaitKeepsInv
<1>8. CpuInv'
  <2>1. pc \in [Thread -> Label] /\ k.stat \in [Thread -> Stat]
    BY DEF MutexInv, TypeOK, KernelType
  <2>2. /\ k'.current_thread = self /\ k'.lock_nest = 0
        /\ k'.stat = [k.stat EXCEPT ![self] = "suspend"]
    BY <1>6, <1>7 DEF PutToSleep, MutexInv, CpuInv
  <2>3. \A x \in Thread : /\ k'.stat[x] \in {"init", "ready", "suspend"}
                          /\ k'.stat[x] = "init" => pc'[x] = "run"
    BY <1>2, <1>3, <2>1, <2>2 DEF MutexInv, CpuInv
  <2>4. pc'[self] \in AboutToSchedule
    BY <1>2, <1>3, <2>1 DEF AboutToSchedule
  <2>5. QED
    BY <1>2, <1>7, <2>2, <2>3, <2>4 DEF CpuInv
<1>9. QED
  BY <1>2, <1>3, <1>4, <1>5, <1>6, <1>7, <1>8

LEMMA TakeWaitKeepsMutexInv ==
  ASSUME MutexInv, NEW m \in Mutex, NEW time \in Times, TakeWait(m, time)
  PROVE  MutexInv'
<1>1. /\ UNCHANGED <<value, owner, original_priority, hold, alive, inside>>
      /\ \A n : SameFields(n)
  BY DEF TakeWait, SameFields
<1>2. pc \in [Thread -> Label] /\ object \in [Thread -> Mutex]
      /\ k.stat \in [Thread -> Stat] /\ k.error \in [Thread -> Error]
  BY DEF MutexInv, TypeOK, KernelType
<1>3. CASE time = "no"
  <2>1. /\ self \in Thread /\ pc[self] = "run" /\ k.stat[self] = "ready"
        /\ k' = SetError(k, self, "timeout") /\ pc' = pc /\ object' = object
        /\ "timeout" \in Error /\ "run" \in Label \ {"take", "taken"}
    BY <1>3, AtRun DEF TakeWait, Free, AboutToSchedule, Error, Label
  <2>2. pc' = [pc EXCEPT ![self] = "run"]
    BY <1>2, <2>1
  <2>3. /\ CpuInv' /\ \A g \in Queue : Nodes(k', g) = Nodes(k, g)
        /\ k'.stat = k.stat
        /\ \A t \in Thread \ {self} : k'.error[t] = k.error[t]
    BY <1>2, <2>1, <2>2, PcStepKeepsCpuInv DEF MutexInv
  <2>4. \A n \in Mutex : Quiet(n)
    BY <2>1, <2>2, <2>3, CallerQuiet
  <2>5. UNCHANGED mutexvars /\ pc' \in [Thread -> Label]
    BY <1>1, <1>2, <2>1 DEF mutexvars
  <2>6. QED
    BY <2>3, <2>4, <2>5, QuietStep
<1>4. CASE time # "no"
  <2>1. /\ CpuInv'
        /\ owner[m] \in Thread \ {self} /\ Owned(m, owner[m])
        /\ self \in Thread /\ pc[self] = "run" /\ k.stat[self] = "ready"
        /\ k'.error = [k.error EXCEPT ![self] = "ok"]
        /\ pc' = [pc EXCEPT ![self] = "take"]
        /\ object' = [object EXCEPT ![self] = m]
    BY <1>4, TakeWaitEffect
  <2>2. /\ k'.stat = [k.stat EXCEPT ![self] = "suspend"]
        /\ \A g \in Queue : Nodes(k', g) = IF g = m THEN Nodes(k, g) \cup {self}
                                           ELSE Nodes(k, g)
    <3>1. PICK b : Adjusted(b, owner[m], Inherited(m)) /\ PutToSleep(b, k', m, self)
      BY <1>4, TakeWaitEffect
    <3>2. QED
      BY <3>1 DEF Adjusted, Reprioritized, PutToSleep
  <2>3. \A n \in Mutex : self \notin Taking(n) /\ Taking(n) \subseteq Thread
    BY <2>1 DEF Taking
  <2>4. \A n \in Mutex : Taking(n)' = IF n = m THEN Taking(n) \cup {self} ELSE Taking(n)
    BY <1>2, <2>1 DEF Taking
  <2>5. ASSUME NEW n \in Mutex \ {m}
        PROVE  MutexOK(n)'
    <3>1. Quiet(n)
      BY <1>2, <2>1, <2>2, <2>3, <2>4, MutexLists DEF Quiet
    <3>2. QED
      BY <1>1, <3>1, QuietMutex DEF MutexInv
  <2>6. MutexOK(m)'
    <3>1. PICK o \in Thread : o = owner[m] /\ o # self /\ Owned(m, o)
      BY <2>1
    <3>2. PICK t \in Thread : t = self
      BY <2>1
    <3>3. Waiters(m)' = Waiters(m) \cup {t} /\ Taking(m)' = Taking(m) \cup {t}
      BY <2>2, <2>4, <3>2, MutexLists
    <3>4. /\ k'.stat[t] = "suspend" /\ k'.error[t] = "ok"
          /\ \A s \in Thread \ {t} : k'.stat[s] = k.stat[s] /\ k'.error[s] = k.error[s]
      BY <1>2, <2>1, <2>2, <3>2
    <3>5. /\ Waiters(m)' = {s \in Taking(m)' : k'.stat[s] = "suspend"}
          /\ \A s \in Waiters(m)' : k'.error[s] = "ok"
      BY <2>3, <3>3, <3>4 DEF MutexInv, MutexOK
    <3>6. Heir(m)' = Heir(m)
      <4>1. t \notin Taking(m) /\ \A s \in Taking(m) : s \in Thread \ {t}
        BY <2>3, <3>2
      <4>2. /\ Heir(m) = {s \in Taking(m) : k.stat[s] = "ready" /\ k.error[s] = "ok"}
            /\ Heir(m)' = {s \in Taking(m)' : k'.stat[s] = "ready" /\ k'.error[s] = "ok"}
        BY HeirsAreTakers
      <4> DEFINE old == Taking(m)
                 new == Taking(m)'
      <4>3. new = old \cup {t} /\ k'.stat[t] # "ready"
        BY <3>3, <3>4
      <4>4. \A s \in old : k'.stat[s] = k.stat[s] /\ k'.error[s] = k.error[s]
        BY <3>4, <4>1
      <4> HIDE DEF old, new
      <4>5. QED
        BY <4>1, <4>2, <4>3, <4>4 DEF old, new
    <3>7. Owned(m, o)'
      BY <1>1, <3>1, <3>2, <3>3, <3>6 DEF Owned, SameFields
    <3>8. QED
      BY <3>5, <3>7 DEF MutexOK
  <2>7. TypeOK'
    <3>1. pc' \in [Thread -> Label] /\ object' \in [Thread -> Mutex]
      BY <1>2, <2>1 DEF Label
    <3>2. QED
      BY <1>1, <2>1, <3>1 DEF MutexInv, TypeOK, CpuInv, KernelInv
  <2>8. QED
    BY <2>1, <2>5, <2>6, <2>7 DEF MutexInv
<1>5. QED
  BY <1>3, <1>4

LEMMA ScheduleKeepsMutexInv ==
  ASSUME MutexInv, TakeSchedule \/ Reschedule
  PROVE  MutexInv'
<1>1. pc \in [Thread -> Label] /\ CpuInv /\ UNCHANGED mutexvars /\ object' = object
  BY DEF MutexInv, TypeOK, TakeSchedule, Reschedule, mutexvars
<1>2. /\ CpuInv' /\ SameWaiters(k, k') /\ k'.stat = k.stat
      /\ pc' \in [Thread -> Label] /\ \A m : Taking(m)' = Taking(m)
  <2>1. CASE TakeSchedule
    <3>1. /\ CpuInv' /\ SameWaiters(k, k') /\ k'.stat = k.stat
          /\ pc[self] = "take" /\ self \in Thread
          /\ pc' = [pc EXCEPT ![self] = "taken"]
      BY <1>1, <2>1, ScheduleAtStep DEF TakeSchedule
    <3>2. QED
      BY <1>1, <3>1 DEF Label, Taking
  <2>2. CASE Reschedule
    <3>1. /\ CpuInv' /\ SameWaiters(k, k') /\ k'.stat = k.stat
          /\ pc[self] = "sched" /\ self \in Thread
          /\ pc' = [pc EXCEPT ![self] = "run"]
      BY <1>1, <2>2, ScheduleAtStep DEF Reschedule
    <3>2. QED
      BY <1>1, <3>1 DEF Label, Taking
  <2>3. QED
    BY <2>1, <2>2
<1>3. \A m \in Mutex : Quiet(m)
  BY <1>2, MutexLists DEF Quiet, SameWaiters
<1>4. QED
  BY <1>1, <1>2, <1>3, QuietStep

\* A call of rt_mutex_take returns: the thread that was handed the mutex
\* enters it, one that was refused does not.
LEMMA TakeReturnKeepsMutexInv ==
  ASSUME MutexInv, TakeReturn
  PROVE  MutexInv'
<1>1. /\ self \in Thread /\ pc[self] = "taken" /\ k.stat[self] = "ready"
      /\ \A n \in Mutex : self \notin Waiters(n)
  BY AtRun DEF TakeReturn, AboutToSchedule
<1>2. /\ pc \in [Thread -> Label] /\ object \in [Thread -> Mutex]
      /\ inside \in [Mutex -> [Thread -> 0 .. HoldMax]]
      /\ hold \in [Mutex -> 0 .. HoldMax] /\ HoldMax \in Nat
  BY MutexType DEF MutexInv, TypeOK
<1>3. PICK m \in Mutex : m = object[self]
  BY <1>1, <1>2
<1>4. /\ k' = k /\ pc' = [pc EXCEPT ![self] = "run"]
      /\ UNCHANGED <<value, owner, original_priority, hold, object, alive>>
      /\ IF k.error[self] = "ok"
         THEN inside' = [inside EXCEPT ![m] =
                           [inside[m] EXCEPT ![self] = inside[m][self] + 1]]
         ELSE inside' = inside
  BY <1>3 DEF TakeReturn, Goto, Enter
<1>5. CpuInv'
  <2>1. CpuInv
    BY DEF MutexInv
  <2>2. QED
    BY <1>1, <1>2, <1>4, <2>1, PcStepKeepsCpuInv
<1>6. \A n \in Mutex : /\ Taking(n)' = Taking(n) \ {self}
                       /\ self \in Taking(n) <=> n = m
                       /\ Waiters(n)' = Waiters(n)
  BY <1>1, <1>2, <1>4, <1>3 DEF Taking, Waiters
<1>7. PICK t \in Thread : t = self
  BY <1>1
<1>8. ASSUME NEW n \in Mutex \ {m}
      PROVE  MutexOK(n)'
  <2>1. Quiet(n)
    BY <1>4, <1>6 DEF Quiet
  <2>2. SameFields(n)
    BY <1>2, <1>4 DEF SameFields
  <2>3. QED
    BY <2>1, <2>2, QuietMutex DEF MutexInv
<1>9. Heir(m)' = Heir(m) \ {t}
  BY <1>4, <1>6, <1>7, HeirsAreTakers
<1>10. t \in Heir(m) <=> k.error[t] = "ok"
  BY <1>1, <1>6, <1>7, HeirsAreTakers
<1>11. /\ Waiters(m)' = {s \in Taking(m)' : k'.stat[s] = "suspend"}
       /\ \A s \in Waiters(m)' : k'.error[s] = "ok"
  BY <1>1, <1>4, <1>6 DEF MutexInv, MutexOK
<1>12. CASE k.error[t] = "ok"
  <2>1. Owned(m, t)
    BY <1>10, <1>12 DEF MutexInv, MutexOK, Owned, Unowned
  <2>2. inside' = [inside EXCEPT ![m] = [inside[m] EXCEPT ![t] = inside[m][t] + 1]]
    BY <1>4, <1>7, <1>12
  <2>3. /\ inside'[m][t] = inside[m][t] + 1
        /\ \A s \in Thread \ {t} : inside'[m][s] = inside[m][s]
    BY <1>2, <2>2
  <2>4. Owned(m, t)'
    BY <1>2, <1>4, <1>6, <1>9, <1>10, <1>12, <2>1, <2>3 DEF Owned
  <2>5. inside[m][t] + 1 \in 0 .. HoldMax
    BY <1>2, <1>10, <1>12, <2>1 DEF Owned
  <2>6. inside' \in [Mutex -> [Thread -> 0 .. HoldMax]]
    BY <1>2, <2>2, <2>5
  <2>7. TypeOK'
    BY <1>2, <1>4, <1>5, <2>6 DEF MutexInv, TypeOK, CpuInv, KernelInv, Label
  <2>8. QED
    BY <1>5, <1>8, <1>11, <2>4, <2>7 DEF MutexInv, MutexOK
<1>13. CASE k.error[t] # "ok"
  <2>1. inside' = inside /\ Heir(m)' = Heir(m)
    BY <1>4, <1>7, <1>9, <1>10, <1>13
  <2>2. Unowned(m) => Unowned(m)'
    BY <1>4, <1>6, <2>1 DEF Unowned
  <2>3. \A s \in Thread : Owned(m, s) => Owned(m, s)'
    BY <1>4, <1>6, <2>1 DEF Owned
  <2>4. MutexOK(m)'
    BY <1>11, <2>2, <2>3 DEF MutexInv, MutexOK
  <2>5. TypeOK'
    BY <1>2, <1>4, <1>5, <2>1 DEF MutexInv, TypeOK, CpuInv, KernelInv, Label
  <2>6. QED
    BY <1>5, <1>8, <2>4, <2>5 DEF MutexInv
<1>14. QED
  BY <1>12, <1>13

-----------------------------------------------------------------------------
(* rt_mutex_release *)

\* A caller that is the owner has entered the mutex and was not handed it.
LEMMA ReleaserOwns ==
  ASSUME MutexInv, NEW m \in Mutex, Free(m), owner[m] = self
  PROVE  /\ self \in Thread /\ pc[self] = "run" /\ k.stat[self] = "ready"
         /\ Owned(m, self) /\ Heir(m) = {} /\ self \notin Waiters(m)
         /\ inside[m][self] = hold[m]
         /\ \A n \in Mutex : self \notin Taking(n)
<1>1. self \in Thread /\ pc[self] = "run" /\ k.stat[self] = "ready"
  BY AtRun DEF Free, AboutToSchedule
<1>2. Owned(m, self)
  BY <1>1, MutexType DEF MutexInv, MutexOK, Owned, Unowned
<1>3. self \notin Heir(m) /\ \A n \in Mutex : self \notin Taking(n)
  BY <1>1 DEF Heir, Taking
<1>4. hold[m] = inside[m][self] /\ Heir(m) = {}
  <2>1. hold[m] = inside[m][self] + 0
    BY <1>2, <1>3 DEF Owned
  <2>2. inside[m][self] \in Int
    BY <1>1, MutexType DEF MutexInv, TypeOK
  <2>3. QED
    BY <1>2, <1>3, <2>1, <2>2 DEF Owned
<1>5. QED
  BY <1>1, <1>2, <1>3, <1>4 DEF Owned

LEMMA RestoredEffect ==
  ASSUME MutexInv, NEW m \in Mutex, self \in Thread, Owned(m, self)
  PROVE  Adjusted(Restored(m), self, original_priority[m])
<1>1. original_priority[m] \in Prio /\ CpuInv
  BY DEF Owned, MutexInv
<1>2. QED
  BY <1>1, AdjustedByChange DEF Restored

\* The last release with nobody waiting: only a priority may change.
LEMMA FreeEffect ==
  ASSUME MutexInv, NEW m \in Mutex, self \in Thread, k.stat[self] = "ready",
         Owned(m, self), k' = Restored(m), pc' = pc
  PROVE  /\ CpuInv' /\ k'.stat = k.stat /\ k'.error = k.error
         /\ \A g \in Queue : Nodes(k', g) = Nodes(k, g)
<1>1. Adjusted(k', self, original_priority[m])
  BY RestoredEffect
<1>2. /\ KernelInv(k', {}) /\ k'.stat = k.stat /\ k'.error = k.error
      /\ k'.lock_nest = k.lock_nest /\ k'.current_thread = k.current_thread
      /\ \A g \in Queue : Nodes(k', g) = Nodes(k, g)
  BY <1>1 DEF Adjusted, Reprioritized
<1>3. CpuInv'
  BY <1>2 DEF MutexInv, CpuInv, self
<1>4. QED
  BY <1>2, <1>3

\* The last release with somebody waiting: the first waiter is woken.
LEMMA HandOverEffect ==
  ASSUME MutexInv, NEW m \in Mutex, self \in Thread, k.stat[self] = "ready",
         Owned(m, self), FirstThread(k, m) # Wild,
         k' = rt_ipc_list_resume(Restored(m), m),
         NEW label, pc' = [pc EXCEPT ![self] = label]
  PROVE  LET heir == FirstThread(k, m)
         IN  /\ CpuInv'
             /\ heir \in Waiters(m) /\ heir \in Thread /\ k.stat[heir] = "suspend"
             /\ WokenUp(Restored(m), k', heir)
             /\ k'.stat = [k.stat EXCEPT ![heir] = "ready"]
             /\ k'.error = k.error
             /\ \A g \in Queue : Nodes(k', g) = Nodes(k, g) \ {heir}
<1> DEFINE heir == FirstThread(k, m)
           b == Restored(m)
<1>1. Adjusted(b, self, original_priority[m])
  BY RestoredEffect
<1> HIDE DEF b
<1>2. /\ KernelInv(b, {}) /\ b.stat = k.stat /\ b.error = k.error
      /\ b.lock_nest = k.lock_nest /\ b.current_thread = k.current_thread
      /\ \A g \in Queue : Nodes(b, g) = Nodes(k, g) /\ b.list[g] = k.list[g]
  BY <1>1 DEF Adjusted, Reprioritized
<1>3. m \in Queue /\ KernelInv(k, {}) /\ ~rt_list_isempty(k.list[m])
  BY MutexLists DEF MutexInv, CpuInv, FirstThread
<1>4. ~rt_list_isempty(b.list[m]) /\ FirstThread(b, m) = heir
  BY <1>2, <1>3 DEF FirstThread
<1>5. heir \in Thread /\ heir \in Waiters(m) /\ k.stat[heir] = "suspend"
  BY <1>3, FirstWaiter, MutexLists
<1> HIDE DEF heir
<1>6. k' = rt_ipc_list_resume(b, m)
  BY DEF b
<1>7. /\ KernelInv(k', {}) /\ WokenUp(b, k', heir) /\ k'.error = b.error
  BY <1>2, <1>3, <1>4, <1>6, ListResumeKeepsInv
<1>8. /\ k'.stat = [k.stat EXCEPT ![heir] = "ready"] /\ k'.error = k.error
      /\ k'.lock_nest = k.lock_nest /\ k'.current_thread = k.current_thread
      /\ \A g \in Queue : Nodes(k', g) = Nodes(k, g) \ {heir}
  BY <1>2, <1>7 DEF WokenUp
<1>9. CpuInv'
  <2>1. k.stat \in [Thread -> Stat] /\ CpuInv /\ pc \in [Thread -> Label]
    BY DEF MutexInv, TypeOK, KernelType
  <2>2. \A x \in Thread : /\ k'.stat[x] \in {"init", "ready", "suspend"}
                          /\ k'.stat[x] = "init" => pc'[x] = "run"
    BY <1>5, <1>8, <2>1 DEF CpuInv
  <2>3. k'.current_thread = self /\ k'.stat[self] = "ready"
    BY <1>5, <1>8, <2>1 DEF self
  <2>4. QED
    BY <1>7, <1>8, <2>1, <2>2, <2>3 DEF CpuInv
<1>10. QED
  BY <1>5, <1>7, <1>8, <1>9 DEF b, heir

LEMMA HandOverKeepsMutexInv ==
  ASSUME MutexInv, NEW m \in Mutex, Free(m), owner[m] = self, hold[m] = 1,
         HandOver(m), UNCHANGED <<object, alive>>,
         inside' = [inside EXCEPT ![m][self] = @ - 1]
  PROVE  MutexInv'
<1> DEFINE heir == FirstThread(k, m)
<1>1. PICK t \in Thread :
        /\ t = self /\ pc[t] = "run" /\ k.stat[t] = "ready" /\ Owned(m, t)
        /\ Heir(m) = {} /\ t \notin Waiters(m) /\ inside[m][t] = 1
        /\ \A n \in Mutex : t \notin Taking(n)
  BY ReleaserOwns
<1>2. /\ pc \in [Thread -> Label] /\ object \in [Thread -> Mutex]
      /\ inside \in [Mutex -> [Thread -> 0 .. HoldMax]]
      /\ hold \in [Mutex -> 0 .. HoldMax] /\ HoldMax \in Nat \ {0}
      /\ owner \in [Mutex -> Thread \cup {NoThread}] /\ NoThread \notin Thread
      /\ original_priority \in [Mutex -> Prio \cup {255}]
      /\ value \in [Mutex -> {0, 1}] /\ alive \subseteq Mutex
      /\ k.stat \in [Thread -> Stat] /\ k.current_priority \in [Thread -> Prio]
  BY MutexType DEF MutexInv, TypeOK, KernelType
<1>3. /\ inside' = [inside EXCEPT ![m] = [inside[m] EXCEPT ![t] = 0]]
      /\ \A s \in Thread : inside'[m][s] = 0
      /\ inside' \in [Mutex -> [Thread -> 0 .. HoldMax]]
  <2>1. inside' = [inside EXCEPT ![m] = [inside[m] EXCEPT ![t] = inside[m][t] - 1]]
    BY <1>1
  <2>2. \A s \in Thread \ {t} : inside[m][s] = 0
    BY <1>1 DEF Owned
  <2>3. QED
    BY <1>1, <1>2, <2>1, <2>2
<1>4. ASSUME heir # Wild
      PROVE  MutexInv'
  <2>1. /\ owner' = [owner EXCEPT ![m] = heir]
        /\ original_priority' = [original_priority EXCEPT ![m] = k.current_priority[heir]]
        /\ hold' = [hold EXCEPT ![m] = 1]
        /\ k' = rt_ipc_list_resume(Restored(m), m)
        /\ pc' = [pc EXCEPT ![self] = "sched"]
        /\ UNCHANGED value
    BY <1>4 DEF HandOver, Goto
  <2>2. PICK h \in Thread :
          /\ h = heir /\ h \in Waiters(m) /\ k.stat[h] = "suspend"
          /\ k'.stat = [k.stat EXCEPT ![h] = "ready"] /\ k'.error = k.error
          /\ \A g \in Queue : Nodes(k', g) = Nodes(k, g) \ {h}
          /\ CpuInv'
    BY <1>1, <1>4, <2>1, HandOverEffect
  <2>3. h # t /\ k.error[h] = "ok" /\ h \in Taking(m)
    BY <1>1, <2>2 DEF MutexInv, MutexOK
  <2>4. /\ pc' \in [Thread -> Label]
        /\ \A n \in Mutex : Taking(n)' = Taking(n) /\ Taking(n) \subseteq Thread
        /\ \A n \in Mutex : Waiters(n)' = Waiters(n) \ {h}
        /\ \A n \in Mutex \ {m} : h \notin Taking(n)
    BY <1>1, <1>2, <2>1, <2>2, <2>3, MutexLists DEF Taking, Label
  <2>5. ASSUME NEW n \in Mutex \ {m}
        PROVE  MutexOK(n)'
    <3>1. Waiters(n) \subseteq Taking(n)
      BY DEF MutexInv, MutexOK
    <3>2. Quiet(n)
      <4>1. Waiters(n)' = Waiters(n)
        BY <2>4, <3>1
      <4>2. \A s \in Taking(n) : k'.stat[s] = k.stat[s]
        BY <1>2, <2>2, <2>4
      <4>3. QED
        BY <2>2, <2>4, <4>1, <4>2 DEF Quiet
    <3>3. SameFields(n)
      BY <1>2, <1>3, <2>1 DEF SameFields
    <3>4. QED
      BY <3>2, <3>3, QuietMutex DEF MutexInv
  <2>6. MutexOK(m)'
    <3>1. /\ Waiters(m)' = {s \in Taking(m)' : k'.stat[s] = "suspend"}
          /\ \A s \in Waiters(m)' : k'.error[s] = "ok"
      BY <1>2, <2>2, <2>4 DEF MutexInv, MutexOK
    <3>2. Heir(m)' = {h}
      BY <1>1, <1>2, <2>2, <2>3, <2>4, HeirsAreTakers
    <3>3. /\ owner'[m] = h /\ value'[m] = 0 /\ hold'[m] = 1
          /\ original_priority'[m] \in Prio
      BY <1>1, <1>2, <2>1, <2>2 DEF Owned
    <3>4. h \notin Waiters(m)'
      BY <2>4
    <3>5. Owned(m, h)'
      BY <1>3, <3>2, <3>3, <3>4 DEF Owned
    <3>6. QED
      BY <3>1, <3>5 DEF MutexOK
  <2>7. TypeOK'
    <3>1. /\ owner' \in [Mutex -> Thread \cup {NoThread}]
          /\ original_priority' \in [Mutex -> Prio \cup {255}]
          /\ hold' \in [Mutex -> 0 .. HoldMax]
      BY <1>2, <2>1, <2>2
    <3>2. QED
      BY <1>2, <1>3, <2>1, <2>2, <2>4, <3>1 DEF TypeOK, CpuInv, KernelInv
  <2>8. QED
    BY <2>2, <2>5, <2>6, <2>7 DEF MutexInv
<1>5. ASSUME heir = Wild
      PROVE  MutexInv'
  <2>1. /\ owner' = [owner EXCEPT ![m] = NoThread]
        /\ original_priority' = [original_priority EXCEPT ![m] = 255]
        /\ hold' = [hold EXCEPT ![m] = 0]
        /\ value' = [value EXCEPT ![m] = value[m] + 1]
        /\ k' = Restored(m) /\ pc' = pc
    BY <1>2, <1>5 DEF HandOver
  <2>2. /\ CpuInv' /\ k'.stat = k.stat /\ k'.error = k.error
        /\ \A g \in Queue : Nodes(k', g) = Nodes(k, g)
    BY <1>1, <2>1, FreeEffect
  <2>3. Waiters(m) = {}
    <3>1. k \in KernelType /\ m \in ListHead
      BY MutexLists DEF MutexInv, TypeOK, ListHead
    <3>2. Nodes(k, m) # {} => heir \in Thread
      BY <3>1, FirstThreadEffect
    <3>3. QED
      BY <1>5, <3>2, WildIsNoThread, MutexLists
  <2>4. \A n \in Mutex : Quiet(n)
    BY <2>1, <2>2, MutexLists DEF Quiet, Taking
  <2>5. ASSUME NEW n \in Mutex \ {m}
        PROVE  MutexOK(n)'
    <3>1. SameFields(n)
      BY <1>2, <1>3, <2>1 DEF SameFields
    <3>2. QED
      BY <2>4, <3>1, QuietMutex DEF MutexInv
  <2>6. MutexOK(m)'
    <3>1. /\ Waiters(m)' = {s \in Taking(m)' : k'.stat[s] = "suspend"}
          /\ \A s \in Waiters(m)' : k'.error[s] = "ok"
      BY <2>2, <2>4 DEF MutexInv, MutexOK, Quiet
    <3>2. Heir(m)' = {}
      BY <1>1, <2>4, HeirsAreTakers DEF Quiet
    <3>3. owner'[m] = NoThread /\ value'[m] = 1 /\ hold'[m] = 0
      BY <1>1, <1>2, <2>1 DEF Owned
    <3>4. Unowned(m)'
      BY <1>3, <2>3, <2>4, <3>2, <3>3 DEF Unowned, Quiet
    <3>5. QED
      BY <3>1, <3>4 DEF MutexOK
  <2>7. TypeOK'
    <3>1. value[m] = 0
      BY <1>1 DEF Owned
    <3>2. /\ owner' \in [Mutex -> Thread \cup {NoThread}]
          /\ original_priority' \in [Mutex -> Prio \cup {255}]
          /\ hold' \in [Mutex -> 0 .. HoldMax]
          /\ value' \in [Mutex -> {0, 1}]
      BY <1>2, <2>1, <3>1
    <3>3. QED
      BY <1>2, <1>3, <2>1, <2>2, <3>2 DEF TypeOK, CpuInv, KernelInv
  <2>8. QED
    BY <2>2, <2>5, <2>6, <2>7 DEF MutexInv
<1>6. QED
  BY <1>4, <1>5

LEMMA ReleaseKeepsMutexInv ==
  ASSUME MutexInv, NEW m \in Mutex, Release(m)
  PROVE  MutexInv'
<1>1. Free(m) /\ pc \in [Thread -> Label]
  BY DEF Release, MutexInv, TypeOK
<1>2. self \in Thread /\ pc[self] = "run" /\ k.stat[self] = "ready"
  BY <1>1, AtRun DEF Free, AboutToSchedule
<1>3. CASE owner[m] # self
  <2>1. /\ k' = SetError(k, self, "error") /\ UNCHANGED mutexvars
        /\ pc' = pc /\ "error" \in Error /\ "run" \in Label \ {"take", "taken"}
    BY <1>3 DEF Release, Error, Label
  <2>2. pc' = [pc EXCEPT ![self] = "run"] /\ object' = object
    BY <1>1, <1>2, <2>1 DEF mutexvars
  <2>3. /\ CpuInv' /\ \A g \in Queue : Nodes(k', g) = Nodes(k, g)
        /\ k'.stat = k.stat
        /\ \A t \in Thread \ {self} : k'.error[t] = k.error[t]
    BY <1>1, <1>2, <2>1, <2>2, PcStepKeepsCpuInv DEF MutexInv
  <2>4. \A n \in Mutex : Quiet(n)
    BY <1>2, <2>1, <2>2, <2>3, CallerQuiet
  <2>5. QED
    BY <1>1, <2>1, <2>3, <2>4, QuietStep
<1>4. CASE owner[m] = self /\ hold[m] = 1
  <2>1. /\ HandOver(m) /\ UNCHANGED <<object, alive>>
        /\ inside' = [inside EXCEPT ![m][self] = @ - 1]
    BY <1>4 DEF Release
  <2>2. QED
    BY <1>1, <1>4, <2>1, HandOverKeepsMutexInv
<1>5. CASE owner[m] = self /\ hold[m] # 1
  <2>1. PICK t \in Thread :
          /\ t = self /\ Owned(m, t) /\ Heir(m) = {} /\ inside[m][t] = hold[m]
    BY <1>1, <1>5, ReleaserOwns
  <2>2. /\ inside' = [inside EXCEPT ![m] = [inside[m] EXCEPT ![t] = inside[m][t] - 1]]
        /\ hold' = [hold EXCEPT ![m] = hold[m] - 1]
        /\ UNCHANGED <<k, pc, value, owner, original_priority, object, alive>>
    BY <1>5, <2>1 DEF Release
  <2>3. /\ hold \in [Mutex -> 0 .. HoldMax] /\ HoldMax \in Nat \ {0}
        /\ inside \in [Mutex -> [Thread -> 0 .. HoldMax]]
        /\ hold[m] > 0
    BY <2>1, MutexType DEF MutexInv, TypeOK, Owned
  <2>4. /\ hold'[m] = hold[m] - 1 /\ hold'[m] > 0
        /\ inside'[m][t] = hold'[m]
        /\ \A s \in Thread \ {t} : inside'[m][s] = inside[m][s]
    BY <1>5, <2>1, <2>2, <2>3
  <2>5. CpuInv' /\ \A n \in Mutex : Quiet(n)
    BY <2>2 DEF MutexInv, CpuInv, Quiet, Taking, Waiters
  <2>6. ASSUME NEW n \in Mutex \ {m}
        PROVE  MutexOK(n)'
    <3>1. SameFields(n)
      BY <2>2, <2>3 DEF SameFields
    <3>2. QED
      BY <2>5, <3>1, QuietMutex DEF MutexInv
  <2>7. MutexOK(m)'
    <3>1. Heir(m)' = {} /\ Waiters(m)' = Waiters(m)
      BY <2>1, <2>2 DEF Heir, Waiters
    <3>2. Owned(m, t)'
      BY <2>1, <2>2, <2>3, <2>4, <3>1 DEF Owned
    <3>3. /\ Waiters(m)' = {s \in Taking(m)' : k'.stat[s] = "suspend"}
          /\ \A s \in Waiters(m)' : k'.error[s] = "ok"
      BY <2>2, <2>5 DEF MutexInv, MutexOK, Quiet
    <3>4. QED
      BY <3>2, <3>3 DEF MutexOK
  <2>8. TypeOK'
    <3>1. inside[m][t] - 1 \in 0 .. HoldMax /\ hold[m] - 1 \in 0 .. HoldMax
      BY <2>1, <2>3
    <3>2. /\ hold' \in [Mutex -> 0 .. HoldMax]
          /\ inside' \in [Mutex -> [Thread -> 0 .. HoldMax]]
      BY <2>2, <2>3, <3>1
    <3>3. QED
      BY <2>2, <3>2 DEF MutexInv, TypeOK
  <2>9. QED
    BY <2>5, <2>6, <2>7, <2>8 DEF MutexInv
<1>6. QED
  BY <1>3, <1>4, <1>5

-----------------------------------------------------------------------------
(* rt_mutex_delete *)

LEMMA DeleteKeepsMutexInv ==
  ASSUME MutexInv, NEW m \in Mutex, Delete(m)
  PROVE  MutexInv'
<1>1. self \in Thread /\ pc[self] = "run" /\ k.stat[self] = "ready"
  BY AtRun DEF Delete, Free, AboutToSchedule
<1>2. /\ k' = k /\ pc' = [pc EXCEPT ![self] = "scan"]
      /\ object' = [object EXCEPT ![self] = m] /\ alive' = alive \ {m}
      /\ UNCHANGED <<value, owner, original_priority, hold, inside>>
      /\ "scan" \in Label \ {"take", "taken"}
  BY DEF Delete, Goto, Label
<1>3. pc \in [Thread -> Label] /\ object \in [Thread -> Mutex]
  BY DEF MutexInv, TypeOK
<1>4. CpuInv'
  BY <1>1, <1>2, <1>3, PcStepKeepsCpuInv DEF MutexInv
<1>5. pc' \in [Thread -> Label] /\ \A n \in Mutex : Quiet(n)
  BY <1>1, <1>2, <1>3, CallerQuiet
<1>6. \A n \in Mutex : MutexOK(n)'
  BY <1>2, <1>5, QuietMutex DEF MutexInv, SameFields
<1>7. TypeOK'
  <2>1. object' \in [Thread -> Mutex]
    BY <1>1, <1>2, <1>3
  <2>2. QED
    BY <1>2, <1>5, <2>1 DEF MutexInv, TypeOK
<1>8. QED
  BY <1>4, <1>6, <1>7 DEF MutexInv

LEMMA DeleteTestKeepsMutexInv ==
  ASSUME MutexInv, DeleteTest
  PROVE  MutexInv'
<1>1. self \in Thread /\ pc[self] = "scan" /\ k.stat[self] = "ready"
  BY AtRun DEF DeleteTest, AboutToSchedule
<1>2. PICK label \in {"run", "resume"} : pc' = [pc EXCEPT ![self] = label]
  BY DEF DeleteTest, ResumeAllTest, Goto
<1>3. /\ k' = k /\ UNCHANGED mutexvars /\ object' = object
      /\ label \in Label \ {"take", "taken"} /\ pc \in [Thread -> Label]
  BY DEF DeleteTest, ResumeAllTest, mutexvars, Label, MutexInv, TypeOK
<1>4. CpuInv'
  BY <1>1, <1>2, <1>3, PcStepKeepsCpuInv DEF MutexInv
<1>5. pc' \in [Thread -> Label] /\ \A n \in Mutex : Quiet(n)
  BY <1>1, <1>2, <1>3, CallerQuiet
<1>6. QED
  BY <1>3, <1>4, <1>5, QuietStep

LEMMA DeleteTurnKeepsMutexInv ==
  ASSUME MutexInv, DeleteTurn
  PROVE  MutexInv'
<1>1. /\ pc \in [Thread -> Label] /\ object \in [Thread -> Mutex]
      /\ UNCHANGED mutexvars /\ object' = object /\ CpuInv
  BY DEF MutexInv, TypeOK, DeleteTurn, mutexvars
<1>2. self \in Thread
  BY DEF DeleteTurn, At
<1>3. object[self] \in Queue /\ ResumeAllTurn(object[self])
  BY <1>1, <1>2, MutexLists DEF DeleteTurn
<1>4. PICK t \in Thread :
        /\ CpuInv' /\ t \in Sleepers(k) /\ WokenUp(k, k', t)
        /\ k'.error = [k.error EXCEPT ![t] = "error"]
        /\ pc[self] = "resume" /\ pc' = [pc EXCEPT ![self] = "scan"]
  BY <1>1, <1>3, ResumeAllTurnStep
<1>5. /\ k.stat[t] = "suspend" /\ k'.stat = [k.stat EXCEPT ![t] = "ready"]
      /\ \A g \in Queue : Nodes(k', g) = Nodes(k, g) \ {t}
      /\ "error" \in Error \ {"ok"}
  BY <1>4 DEF Sleepers, WokenUp, Error
<1>6. pc' \in [Thread -> Label] /\ \A n \in Mutex : Taking(n)' = Taking(n)
  BY <1>1, <1>2, <1>4 DEF Label, Taking
<1>7. ASSUME NEW n \in Mutex
      PROVE  MutexOK(n)'
  <2>1. Waiters(n)' = Waiters(n) \ {t} /\ Taking(n)' = Taking(n)
    BY <1>5, <1>6, MutexLists
  <2>2. MutexOK(n) /\ TypeOK /\ SameFields(n)
    BY <1>1, UnchangedFields DEF MutexInv
  <2>3. QED
    BY <1>4, <1>5, <2>1, <2>2, RefusedMutex
<1>8. TypeOK'
  BY <1>1, <1>4, <1>6, TypeFromCpuInv DEF MutexInv
<1>9. QED
  BY <1>4, <1>7, <1>8 DEF MutexInv

-----------------------------------------------------------------------------
(* The theorems *)

LEMMA StutterKeepsMutexInv ==
  ASSUME MutexInv, UNCHANGED vars
  PROVE  MutexInv'
<1>1. CpuInv' /\ pc' \in [Thread -> Label] /\ UNCHANGED mutexvars
  BY DEF MutexInv, CpuInv, TypeOK, vars
<1>2. \A m \in Mutex : Quiet(m)
  BY DEF Quiet, Taking, Waiters, vars, mutexvars
<1>3. QED
  BY <1>1, <1>2, QuietStep

\* Every operation of the mutexes, every interrupt and every switch keeps the
\* invariant, for any threads, priorities and mutexes (src/ipc.c:560-900).
THEOREM MutexInvariance == Spec => []MutexInv
<1>1. Init => MutexInv
  BY InitEstablishesMutexInv
<1>2. MutexInv /\ [Next]_vars => MutexInv'
  <2> SUFFICES ASSUME MutexInv, [Next]_vars
               PROVE  MutexInv'
    OBVIOUS
  <2>1. CASE CpuStep /\ UNCHANGED mutexvars
    <3>1. CASE Delay
      BY <2>1, <3>1, DelayKeepsMutexInv
    <3>2. CASE Tick
      BY <2>1, <3>2, TickKeepsMutexInv
    <3>3. ASSUME NEW t \in Thread, Startup(t)
          PROVE  MutexInv'
      BY <2>1, <3>3, StartupKeepsMutexInv
    <3>4. ASSUME NEW t \in Thread, TimerCheck(t)
          PROVE  MutexInv'
      BY <2>1, <3>4, TimerCheckKeepsMutexInv
    <3>5. QED
      BY <2>1, <3>1, <3>2, <3>3, <3>4 DEF CpuStep
  <2>2. ASSUME NEW m \in Mutex, TakeNow(m)
        PROVE  MutexInv'
    BY <2>2, TakeNowKeepsMutexInv
  <2>3. ASSUME NEW m \in Mutex, Release(m)
        PROVE  MutexInv'
    BY <2>3, ReleaseKeepsMutexInv
  <2>4. ASSUME NEW m \in Mutex, Delete(m)
        PROVE  MutexInv'
    BY <2>4, DeleteKeepsMutexInv
  <2>5. ASSUME NEW m \in Mutex, NEW time \in Times, TakeWait(m, time)
        PROVE  MutexInv'
    BY <2>5, TakeWaitKeepsMutexInv
  <2>6. CASE TakeSchedule \/ Reschedule
    BY <2>6, ScheduleKeepsMutexInv
  <2>7. CASE TakeReturn
    BY <2>7, TakeReturnKeepsMutexInv
  <2>8. CASE DeleteTest
    BY <2>8, DeleteTestKeepsMutexInv
  <2>9. CASE DeleteTurn
    BY <2>9, DeleteTurnKeepsMutexInv
  <2>10. CASE UNCHANGED vars
    BY <2>10, StutterKeepsMutexInv
  <2>11. QED
    BY <2>1, <2>2, <2>3, <2>4, <2>5, <2>6, <2>7, <2>8, <2>9, <2>10 DEF Next
<1>3. QED
  BY <1>1, <1>2, PTL DEF Spec

LEMMA MutexInvImpliesMutualExclusion ==
  MutexInv => MutualExclusion
<1> SUFFICES ASSUME MutexInv, NEW m \in alive
             PROVE  /\ value[m] = 1 <=> owner[m] = NoThread
                    /\ value[m] = 0 <=> hold[m] > 0
                    /\ \A t \in Thread : Holds(t, m) \/ t \in Heir(m) => owner[m] = t
                    /\ owner[m] # NoThread =>
                         hold[m] = inside[m][owner[m]] + Cardinality(Heir(m))
                    /\ Waiters(m) # {} => owner[m] \in Thread \ Waiters(m)
  BY DEF MutualExclusion
<1>1. m \in Mutex /\ MutexOK(m) /\ NoThread \notin Thread
  BY MutexType DEF MutexInv, TypeOK
<1>2. CASE Unowned(m)
  BY <1>1, <1>2 DEF Unowned, Holds
<1>3. ASSUME NEW t \in Thread, Owned(m, t)
      PROVE  /\ owner[m] = t /\ owner[m] # NoThread /\ value[m] = 0 /\ hold[m] > 0
             /\ \A s \in Thread : Holds(s, m) \/ s \in Heir(m) => t = s
             /\ hold[m] = inside[m][t] + Cardinality(Heir(m))
             /\ t \notin Waiters(m)
  <2>1. Cardinality(Heir(m)) = IF t \in Heir(m) THEN 1 ELSE 0
    <3>1. CASE t \in Heir(m)
      <4>1. Heir(m) = {t}
        BY <1>3, <3>1 DEF Owned
      <4>2. QED
        BY <3>1, <4>1, FS_Singleton
    <3>2. CASE t \notin Heir(m)
      <4>1. Heir(m) = {}
        BY <1>3, <3>2 DEF Owned
      <4>2. QED
        BY <3>2, <4>1, FS_EmptySet
    <3>3. QED
      BY <3>1, <3>2
  <2>2. QED
    BY <1>1, <1>3, <2>1 DEF Owned, Holds
<1>4. QED
  BY <1>1, <1>2, <1>3 DEF MutexOK

\* At most one thread is inside a mutex or about to enter it, it is the owner,
\* and hold counts its takes (rt_mutex_take and rt_mutex_release, ipc.c).
THEOREM MutexExcludes == Spec => []MutualExclusion
BY MutexInvariance, MutexInvImpliesMutualExclusion, PTL

\* The fields of the mutexes keep their types.
THEOREM MutexTypes == Spec => []TypeOK
<1>1. MutexInv => TypeOK
  BY DEF MutexInv
<1>2. QED
  BY <1>1, MutexInvariance, PTL

-----------------------------------------------------------------------------
(***************************************************************************)
(* The priorities of owners and waiters.  Where no thread takes a mutex    *)
(* while it holds another, a thread outside every mutex has the priority   *)
(* it was created with, and nobody waits for an owner of lower priority,   *)
(* however takes, releases, timeouts and deletions interleave.  That the   *)
(* highest ready thread runs needs no such condition.                      *)
(***************************************************************************)

\* Inheritance has one end: an owner owns one mutex and waits for no other,
\* the priority recorded there is its own, and it has been started.
OwnersOK ==
  /\ PriorityRestored
  /\ \A m \in Mutex, t \in Thread :
       owner[m] = t => /\ original_priority[m] = init_priority[t]
                       /\ k.stat[t] # "init"
                       /\ \A n \in Mutex : owner[n] = t \/ t \in Taking(n) => n = m

\* A wait list is in the order of the priorities, and the owner has the
\* priority of the first of them or a higher one.
Sorted(l, f) == \A i, j \in DOMAIN l : i <= j => f[l[i]] <= f[l[j]]

WaitersOK(m) ==
  /\ Sorted(k.list[m], init_priority)
  /\ \A t \in Waiters(m) : k.current_priority[owner[m]] <= init_priority[t]

-----------------------------------------------------------------------------
(* Lists that are in order *)

LEMMA RemoveKeepsSorted ==
  ASSUME NEW l \in Seq(Thread), NoRepeat(l), NEW f, NEW t, Sorted(l, f)
  PROVE  Sorted(rt_list_remove(l, t), f)
<1> DEFINE m == rt_list_remove(l, t)
<1>1. /\ m \in Seq(Thread)
      /\ \A i, j \in 1 .. Len(m) : i <= j =>
           \E a, b \in 1 .. Len(l) : a <= b /\ m[i] = l[a] /\ m[j] = l[b]
  BY RemoveNode
<1> HIDE DEF m
<1>2. DOMAIN m = 1 .. Len(m) /\ DOMAIN l = 1 .. Len(l)
  BY <1>1, LenProperties
<1>3. ASSUME NEW i \in 1 .. Len(m), NEW j \in 1 .. Len(m), i <= j
      PROVE  f[m[i]] <= f[m[j]]
  <2>1. PICK a \in 1 .. Len(l), b \in 1 .. Len(l) :
          a <= b /\ m[i] = l[a] /\ m[j] = l[b]
    BY <1>1, <1>3
  <2>2. f[l[a]] <= f[l[b]]
    BY <1>2, <2>1 DEF Sorted
  <2>3. QED
    BY <2>1, <2>2
<1>4. Sorted(m, f)
  BY <1>2, <1>3 DEF Sorted
<1>5. QED
  BY <1>4 DEF m

LEMMA AppendKeepsSorted ==
  ASSUME NEW l \in Seq(Thread), NEW f \in [Thread -> Prio], NEW t \in Thread,
         Sorted(l, f), \A i \in 1 .. Len(l) : f[l[i]] <= f[t]
  PROVE  Sorted(rt_list_insert_before(l, t), f)
<1> DEFINE m == rt_list_insert_before(l, t)
<1>1. /\ m \in Seq(Thread) /\ Len(m) = Len(l) + 1
      /\ \A i \in 1 .. Len(l) : m[i] = l[i]
      /\ m[Len(l) + 1] = t
  BY InsertLast
<1> HIDE DEF m
<1>2. /\ DOMAIN m = 1 .. Len(l) + 1 /\ DOMAIN l = 1 .. Len(l) /\ Len(l) \in Nat
      /\ f[t] \in Int
  BY <1>1, LenProperties DEF Prio
<1>3. \A i, j \in 1 .. Len(l) + 1 : i <= j => f[m[i]] <= f[m[j]]
  <2> SUFFICES ASSUME NEW i \in 1 .. Len(l) + 1, NEW j \in 1 .. Len(l) + 1, i <= j
               PROVE  f[m[i]] <= f[m[j]]
    OBVIOUS
  <2>1. CASE j \in 1 .. Len(l)
    <3>1. i \in 1 .. Len(l)
      BY <1>2, <2>1
    <3>2. QED
      BY <1>1, <1>2, <2>1, <3>1 DEF Sorted
  <2>2. CASE j = Len(l) + 1
    <3>1. i \in 1 .. Len(l) \/ i = Len(l) + 1
      BY <1>2
    <3>2. QED
      BY <1>1, <1>2, <2>2, <3>1
  <2>3. QED
    BY <1>2, <2>1, <2>2
<1>4. Sorted(m, f)
  BY <1>2, <1>3 DEF Sorted
<1>5. QED
  BY <1>4 DEF m

LEMMA InsertKeepsSorted ==
  ASSUME NEW l \in Seq(Thread), NEW f \in [Thread -> Prio], NEW t \in Thread,
         Sorted(l, f), NEW i \in 1 .. Len(l),
         f[t] < f[l[i]], \A j \in 1 .. Len(l) : j < i => f[l[j]] <= f[t]
  PROVE  Sorted(InsertBeforeNode(l, i, t), f)
<1> DEFINE m == InsertBeforeNode(l, i, t)
<1>1. DOMAIN l = 1 .. Len(l) /\ Len(l) \in Nat /\ i \in 1 .. Len(l) + 1
  BY LenProperties
<1>2. /\ m \in Seq(Thread) /\ Len(m) = Len(l) + 1
      /\ \A j \in 1 .. Len(l) + 1 :
           m[j] = IF j < i THEN l[j] ELSE IF j = i THEN t ELSE l[j - 1]
  <2>1. m \in Seq(Thread) /\ Len(m) = Len(l) + 1
    BY <1>1, InsertInFront
  <2>2. ASSUME NEW j \in 1 .. Len(l) + 1
        PROVE  m[j] = IF j < i THEN l[j] ELSE IF j = i THEN t ELSE l[j - 1]
    BY <1>1, InsertPlaces
  <2> QED BY <2>1, <2>2
<1> HIDE DEF m
<1> DEFINE old(j) == IF j < i THEN j ELSE j - 1
<1>3. DOMAIN m = 1 .. Len(l) + 1
  BY <1>2, LenProperties
<1>4. /\ f[t] \in Int /\ \A j \in 1 .. Len(l) : l[j] \in Thread /\ f[l[j]] \in Int
  BY ElementOfSeq DEF Prio
<1>5. \A j \in 1 .. Len(l) : i <= j => f[t] <= f[l[j]]
  <2> SUFFICES ASSUME NEW j \in 1 .. Len(l), i <= j
               PROVE  f[t] <= f[l[j]]
    OBVIOUS
  <2>1. f[l[i]] <= f[l[j]]
    BY <1>1 DEF Sorted
  <2>2. QED
    BY <1>4, <2>1
<1>6. \A j \in 1 .. Len(l) + 1 : j # i =>
        old(j) \in 1 .. Len(l) /\ m[j] = l[old(j)]
  BY <1>1, <1>2
<1>7. \A a, b \in 1 .. Len(l) + 1 : a <= b => f[m[a]] <= f[m[b]]
  <2> SUFFICES ASSUME NEW a \in 1 .. Len(l) + 1, NEW b \in 1 .. Len(l) + 1, a <= b
               PROVE  f[m[a]] <= f[m[b]]
    OBVIOUS
  <2>1. CASE a # i /\ b # i
    <3>1. old(a) <= old(b)
      BY <1>1, <2>1
    <3>2. QED
      BY <1>1, <1>6, <2>1, <3>1 DEF Sorted
  <2>2. CASE a = i /\ b # i
    <3>1. m[a] = t /\ i <= old(b)
      BY <1>1, <1>2, <2>2
    <3>2. QED
      BY <1>5, <1>6, <2>2, <3>1
  <2>3. CASE a # i /\ b = i
    <3>1. m[b] = t /\ old(a) < i
      BY <1>1, <1>2, <2>3
    <3>2. QED
      BY <1>6, <2>3, <3>1
  <2>4. CASE a = i /\ b = i
    BY <1>2, <1>4, <2>4
  <2>5. QED
    BY <2>1, <2>2, <2>3, <2>4
<1>8. Sorted(m, f)
  BY <1>3, <1>7 DEF Sorted
<1>9. QED
  BY <1>8 DEF m

-----------------------------------------------------------------------------
(* What becomes of a wait list when threads are suspended and resumed *)

LEMMA SuspendedList ==
  ASSUME NEW kk, KernelInv(kk, {}), NEW t \in Thread, kk.stat[t] = "ready",
         NEW h \in Queue
  PROVE  SuspendSection(kk, t).list[h] = kk.list[h]
<1> DEFINE a == [kk EXCEPT !.stat[t] = "suspend"]
           b == rt_schedule_remove_thread(a, t)
<1>1. /\ kk \in KernelType /\ h \in ListHead /\ t \notin ToSet(kk.list[h])
  BY OwnReadyList DEF KernelInv, ListHead, Nodes
<1>2. b.list = [g \in ListHead |-> rt_list_remove(kk.list[g], t)]
  BY <1>1 DEF rt_schedule_remove_thread, Unlink, KernelType
<1>3. SuspendSection(kk, t).list = b.list
  BY DEF SuspendSection, StopTimer
<1>4. QED
  BY <1>1, <1>2, <1>3 DEF rt_list_remove

LEMMA ResumedList ==
  ASSUME NEW kk, KernelInv(kk, {}), NEW t \in Thread, kk.stat[t] = "suspend",
         NEW h \in Queue
  PROVE  rt_thread_resume(kk, t).list[h] = rt_list_remove(kk.list[h], t)
<1> DEFINE a == ResumeSection(kk, t)
           p == a.current_priority[t]
<1>1. /\ kk \in KernelType /\ h \in ListHead
      /\ kk.current_priority[t] \in Prio
  BY DEF KernelInv, KernelType, ListHead
<1>2. /\ a.list = [g \in ListHead |-> rt_list_remove(kk.list[g], t)]
      /\ p = kk.current_priority[t]
  BY <1>1 DEF ResumeSection, StopTimer, Unlink, KernelType
<1>3. rt_thread_resume(kk, t) = rt_schedule_insert_thread(a, t)
  BY DEF rt_thread_resume
<1>4. h # p
  BY <1>1, <1>2, HeadsAreDistinct
<1> HIDE DEF a
<1>5. rt_schedule_insert_thread(a, t).list = [a.list EXCEPT ![p] = rt_list_insert_before(@, t)]
  BY DEF rt_schedule_insert_thread, LinkLast
<1>6. QED
  BY <1>1, <1>2, <1>3, <1>4, <1>5

LEMMA YieldedList ==
  ASSUME NEW kk, KernelInv(kk, {}), NEW t \in Thread, kk.stat[t] = "ready",
         NEW h \in Queue
  PROVE  YieldSection(kk, t).list[h] = kk.list[h]
<1> DEFINE a == Unlink(kk, t)
           p == kk.current_priority[t]
<1>1. /\ kk \in KernelType /\ h \in ListHead /\ t \notin ToSet(kk.list[h])
      /\ p \in Prio /\ h # p
  BY OwnReadyList, HeadsAreDistinct DEF KernelInv, KernelType, ListHead, Nodes
<1>2. a.list = [g \in ListHead |-> rt_list_remove(kk.list[g], t)]
  BY <1>1 DEF Unlink, KernelType
<1> HIDE DEF a, p
<1>3. YieldSection(kk, t).list = [a.list EXCEPT ![p] = rt_list_insert_before(@, t)]
  BY DEF YieldSection, LinkLast, a, p
<1>4. QED
  BY <1>1, <1>2, <1>3 DEF rt_list_remove

\* rt_ipc_list_suspend with RT_IPC_FLAG_PRIO keeps a list in order if the
\* threads there have the priorities it is ordered by.
LEMMA WaitKeepsSorted ==
  ASSUME NEW kk, KernelInv(kk, {}), NEW h \in Queue, NEW t \in Thread \ {Idle},
         kk.stat[t] = "ready", NEW time, NEW f \in [Thread -> Prio],
         \A x \in Nodes(kk, h) \cup {t} : kk.current_priority[x] = f[x],
         Sorted(kk.list[h], f)
  PROVE  LET u == Wait(kk, h, t, "prio", time)
         IN  /\ Sorted(u.list[h], f)
             /\ \A g \in Queue \ {h} : u.list[g] = kk.list[g]
<1> DEFINE e == SetError(kk, t, "ok")
           s == SuspendSection(e, t)
           lower == LowerWaiters(s, h, t)
           i == CHOOSE i \in lower : \A j \in lower : i <= j
           r == rt_ipc_list_suspend(e, h, t, "prio")
           u == Wait(kk, h, t, "prio", time)
<1>1. kk \in KernelType /\ "ok" \in Error
  BY DEF KernelInv, Error
<1>2. /\ KernelInv(e, {})
      /\ e = [kk EXCEPT !.error = [kk.error EXCEPT ![t] = "ok"]]
  BY <1>1, ErrorKeepsInv
<1> HIDE DEF e
<1>3. /\ e.stat[t] = "ready" /\ e.list = kk.list
      /\ e.current_priority = kk.current_priority
  BY <1>1, <1>2 DEF KernelType
<1>4. /\ KernelInv(s, {}) /\ Suspended(e, s, t)
      /\ \A g \in Queue : s.list[g] = kk.list[g]
  <2>1. KernelInv(s, {}) /\ Suspended(e, s, t)
    BY <1>2, <1>3, SuspendKeepsInv, t \notin {}
  <2>2. \A g \in Queue : s.list[g] = e.list[g]
    BY <1>2, <1>3, SuspendedList
  <2>3. QED
    BY <1>3, <2>1, <2>2
<1>5. r = IF lower = {} THEN LinkLast(s, h, t)
          ELSE [s EXCEPT !.list[h] = InsertBeforeNode(@, i, t)]
  BY <1>3 DEF rt_ipc_list_suspend, rt_thread_suspend
<1> HIDE DEF s
<1>6. /\ s \in KernelType /\ h \in ListHead /\ Queue \subseteq ListHead
      /\ s.current_priority = kk.current_priority
  BY <1>3, <1>4 DEF KernelInv, ListHead, Suspended, SamePriorities
<1>7. u.list = r.list
  BY DEF Wait, StartTimer, e
<1> DEFINE l == kk.list[h]
<1>8. /\ l \in Seq(Thread) /\ DOMAIN l = 1 .. Len(l) /\ Len(l) \in Nat
      /\ \A j \in 1 .. Len(l) : l[j] \in Thread /\ l[j] \in Nodes(kk, h)
  <2>1. l \in Seq(Thread)
    BY <1>1, <1>6 DEF KernelType
  <2>2. QED
    BY <2>1, NodesOfList DEF Nodes
<1>9. lower = {j \in 1 .. Len(l) : f[t] < f[l[j]]}
  BY <1>4, <1>6, <1>8 DEF LowerWaiters
<1>10. f[t] \in Int /\ \A j \in 1 .. Len(l) : f[l[j]] \in Int
  BY <1>8 DEF Prio
<1> HIDE DEF lower, l, r, u
<1>11. CASE lower = {}
  <2>1. r.list = [s.list EXCEPT ![h] = rt_list_insert_before(s.list[h], t)]
    BY <1>5, <1>6, <1>11 DEF LinkLast, KernelType
  <2>2. \A j \in 1 .. Len(l) : f[l[j]] <= f[t]
    BY <1>9, <1>10, <1>11
  <2>3. Sorted(rt_list_insert_before(l, t), f)
    BY <1>8, <2>2, AppendKeepsSorted DEF l
  <2>4. /\ r.list[h] = rt_list_insert_before(l, t)
        /\ \A g \in Queue \ {h} : r.list[g] = kk.list[g]
    BY <1>4, <1>6, <2>1 DEF KernelType, l
  <2>5. QED
    BY <1>7, <2>3, <2>4 DEF u
<1>12. CASE lower # {}
  <2>1. r.list = [s.list EXCEPT ![h] = InsertBeforeNode(s.list[h], i, t)]
    BY <1>5, <1>6, <1>12 DEF KernelType
  <2>2. i \in lower /\ \A j \in lower : i <= j
    <3>1. lower \subseteq Nat
      BY <1>9
    <3>2. \E j \in lower : \A n \in lower : j <= n
      BY <1>12, <3>1, NaturalMinimum
    <3>3. QED
      BY <3>2
  <2> HIDE DEF i
  <2>3. /\ i \in 1 .. Len(l) /\ f[t] < f[l[i]]
        /\ \A j \in 1 .. Len(l) : j < i => f[l[j]] <= f[t]
    BY <1>9, <1>10, <2>2
  <2>4. Sorted(InsertBeforeNode(l, i, t), f)
    BY <1>8, <2>3, InsertKeepsSorted DEF l
  <2>5. /\ r.list[h] = InsertBeforeNode(l, i, t)
        /\ \A g \in Queue \ {h} : r.list[g] = kk.list[g]
    BY <1>4, <1>6, <2>1 DEF KernelType, l
  <2>6. QED
    BY <1>7, <2>4, <2>5 DEF u
<1>13. QED
  BY <1>11, <1>12

-----------------------------------------------------------------------------
(* Steps in which no mutex changes hands and no thread begins to wait *)

Uneventful ==
  /\ UNCHANGED <<owner, original_priority>>
  /\ k'.current_priority = k.current_priority
  /\ \A t \in Thread : k'.stat[t] = "init" => k.stat[t] = "init"
  /\ \A m \in Mutex :
       /\ Taking(m)' \subseteq Taking(m) /\ Waiters(m)' \subseteq Waiters(m)
       /\ \/ k'.list[m] = k.list[m]
          \/ \E t \in Thread : k'.list[m] = rt_list_remove(k.list[m], t)

\* A list that loses nothing or one thread stays in order.
LEMMA ShorterKeepsSorted ==
  ASSUME MutexInv, NEW m \in Mutex, Sorted(k.list[m], init_priority),
         \/ k'.list[m] = k.list[m]
         \/ \E t \in Thread : k'.list[m] = rt_list_remove(k.list[m], t)
  PROVE  Sorted(k'.list[m], init_priority)
<1>1. k.list[m] \in Seq(Thread) /\ NoRepeat(k.list[m])
  BY MutexLists DEF MutexInv, TypeOK, CpuInv, KernelInv, NoRepeats, KernelType, ListHead
<1>2. QED
  BY <1>1, RemoveKeepsSorted

LEMMA UneventfulKeepsOwners ==
  ASSUME OwnersOK, Uneventful
  PROVE  OwnersOK'
BY DEF OwnersOK, PriorityRestored, Uneventful

LEMMA UneventfulKeepsWaiters ==
  ASSUME MutexInv, NEW m \in Mutex, WaitersOK(m), Uneventful
  PROVE  WaitersOK(m)'
<1>1. Sorted(k'.list[m], init_priority)
  BY ShorterKeepsSorted DEF Uneventful, WaitersOK
<1>2. \A t \in Waiters(m)' : k'.current_priority[owner'[m]] <= init_priority[t]
  BY DEF Uneventful, WaitersOK
<1>3. QED
  BY <1>1, <1>2 DEF WaitersOK

\* What the kernel's part of the steps does to the lists and priorities.
LEMMA StartupLists ==
  ASSUME MutexInv, OwnersOK, NEW t \in Thread, Startup(t), UNCHANGED mutexvars
  PROVE  Uneventful
<1> DEFINE a == [SetPriority(k, t, init_priority[t]) EXCEPT !.stat[t] = "suspend"]
           r == rt_thread_resume(a, t)
<1>1. /\ CpuInv /\ pc' = pc /\ k.stat[t] = "init" /\ k \in KernelType
      /\ k'.stat = [k.stat EXCEPT ![t] = "ready"] /\ SameWaiters(k, k')
      /\ k'.current_priority = [k.current_priority EXCEPT ![t] = init_priority[t]]
      /\ k' = rt_schedule(r)
  BY StartupStep DEF MutexInv, TypeOK, Startup
<1>2. /\ KernelInv(a, {}) /\ a.stat[t] = "suspend"
  <2>1. KernelInv(k, {}) /\ k.stat \in [Thread -> Stat]
    BY <1>1 DEF CpuInv, KernelType
  <2>2. KernelInv(a, {}) /\ a.stat = [k.stat EXCEPT ![t] = "suspend"]
    BY <1>1, <2>1, StartupKeepsInv
  <2>3. QED
    BY <2>1, <2>2
<1>3. a.list = k.list
  BY <1>1 DEF SetPriority, KernelType
<1> HIDE DEF a
<1>4. KernelInv(r, {}) /\ HasResumed(a, r, t)
  BY <1>2, ResumeKeepsInv, t \notin {}
<1> HIDE DEF r
<1>5. \A m \in Mutex : r.list[m] = rt_list_remove(k.list[m], t)
  BY <1>2, <1>3, ResumedList, MutexLists DEF r
<1>6. k'.list = r.list
  BY <1>1, <1>4, ScheduleKeepsInv DEF Switched
<1>7. k'.current_priority = k.current_priority
  <2>1. k.current_priority \in [Thread -> Prio]
    BY <1>1 DEF KernelType
  <2>2. \A m \in Mutex : owner[m] # t
    BY <1>1 DEF OwnersOK
  <2>3. k.current_priority[t] = init_priority[t]
    BY <2>2 DEF OwnersOK, PriorityRestored
  <2>4. QED
    BY <1>1, <2>1, <2>3
<1>8. \A m \in Mutex : Taking(m)' = Taking(m) /\ Waiters(m)' = Waiters(m)
  BY <1>1, MutexLists DEF Taking, mutexvars, SameWaiters
<1>9. UNCHANGED <<owner, original_priority>>
  BY DEF mutexvars
<1>10. \A s \in Thread : k'.stat[s] = "init" => k.stat[s] = "init"
  BY <1>1 DEF KernelType
<1>11. QED
  BY <1>5, <1>6, <1>7, <1>8, <1>9, <1>10 DEF Uneventful

LEMMA TickLists ==
  ASSUME MutexInv, Tick, UNCHANGED mutexvars
  PROVE  Uneventful
<1> DEFINE y == YieldSection(k, k.current_thread)
<1>1. /\ pc' = pc /\ k'.stat = k.stat /\ SameWaiters(k, k')
      /\ SamePriorities(k, k') /\ k' = rt_schedule(y)
      /\ k.current_thread \in Thread /\ k.stat[k.current_thread] = "ready"
      /\ KernelInv(k, {})
  BY TickStep DEF MutexInv, Tick, self, YieldMoves, CpuInv
<1>2. KernelInv(y, {})
  BY <1>1, YieldKeepsInv, k.current_thread \notin {}
<1>3. \A m \in Mutex : y.list[m] = k.list[m]
  BY <1>1, YieldedList, MutexLists
<1> HIDE DEF y
<1>4. k'.list = y.list
  BY <1>1, <1>2, ScheduleKeepsInv DEF Switched
<1>5. \A m \in Mutex : Taking(m)' = Taking(m) /\ Waiters(m)' = Waiters(m)
  BY <1>1, MutexLists DEF Taking, mutexvars, SameWaiters
<1>6. QED
  BY <1>1, <1>3, <1>4, <1>5 DEF Uneventful, mutexvars, SamePriorities

LEMMA TimerCheckLists ==
  ASSUME MutexInv, NEW t \in Thread, TimerCheck(t), UNCHANGED mutexvars
  PROVE  Uneventful
<1> DEFINE e == SetError(k, t, "timeout")
           r == rt_thread_resume(e, t)
<1>1. /\ pc' = pc /\ k.stat[t] = "suspend" /\ k \in KernelType /\ KernelInv(k, {})
      /\ \A g \in Queue : Nodes(k', g) = Nodes(k, g) \ {t}
      /\ k'.stat = [k.stat EXCEPT ![t] = "ready"]
      /\ SamePriorities(k, k') /\ k' = rt_thread_timeout(k, t)
      /\ "timeout" \in Error
  BY TimerCheckStep DEF MutexInv, TypeOK, CpuInv, TimerCheck, Sleepers, Error
<1>2. k' = rt_schedule(r)
  BY <1>1, TimeoutIsResume
<1>3. KernelInv(e, {}) /\ e.list = k.list /\ e.stat[t] = "suspend"
  <2>1. e.list = k.list /\ e.stat = k.stat
    BY <1>1 DEF SetError, KernelType
  <2>2. QED
    BY <1>1, <2>1, ErrorKeepsInv
<1> HIDE DEF e
<1>4. KernelInv(r, {})
  BY <1>3, ResumeKeepsInv, t \notin {}
<1>5. \A m \in Mutex : r.list[m] = rt_list_remove(k.list[m], t)
  BY <1>3, ResumedList, MutexLists
<1> HIDE DEF r
<1>6. k'.list = r.list
  BY <1>2, <1>4, ScheduleKeepsInv DEF Switched
<1>7. \A m \in Mutex : Taking(m)' = Taking(m) /\ Waiters(m)' \subseteq Waiters(m)
  BY <1>1, MutexLists DEF Taking, mutexvars
<1>8. \A s \in Thread : k'.stat[s] = "init" => k.stat[s] = "init"
  BY <1>1 DEF KernelType
<1>9. QED
  BY <1>1, <1>5, <1>6, <1>7, <1>8 DEF Uneventful, mutexvars, SamePriorities

LEMMA DelayLists ==
  ASSUME MutexInv, Delay, UNCHANGED mutexvars
  PROVE  Uneventful
<1> DEFINE s == SuspendSection(k, k.current_thread)
<1>1. pc \in [Thread -> Label] /\ k \in KernelType /\ CpuInv
  BY DEF MutexInv, TypeOK
<1>2. /\ \A g \in Queue : Nodes(k', g) = Nodes(k, g)
      /\ k'.stat = [k.stat EXCEPT ![self] = "suspend"]
      /\ SamePriorities(k, k') /\ pc[self] = "run" /\ self \in Thread
      /\ pc' = [pc EXCEPT ![self] = "sched"]
  BY <1>1, DelayStep
<1>3. k.stat[k.current_thread] = "ready" /\ k.current_thread \in Thread
  BY <1>1, <1>2 DEF CpuInv, AboutToSchedule, self
<1>4. k' = StartTimer(s, k.current_thread)
  BY <1>3 DEF Delay, rt_thread_suspend, self
<1>5. \A m \in Mutex : s.list[m] = k.list[m]
  BY <1>1, <1>3, SuspendedList, MutexLists DEF CpuInv
<1> HIDE DEF s
<1>6. k'.list = s.list
  BY <1>4 DEF StartTimer
<1>7. \A m \in Mutex : Taking(m)' = Taking(m) /\ Waiters(m)' = Waiters(m)
  BY <1>1, <1>2, MutexLists DEF Taking, mutexvars
<1>8. \A x \in Thread : k'.stat[x] = "init" => k.stat[x] = "init"
  BY <1>1, <1>2 DEF KernelType
<1>9. QED
  BY <1>2, <1>5, <1>6, <1>7, <1>8 DEF Uneventful, mutexvars, SamePriorities

LEMMA ScheduleLists ==
  ASSUME MutexInv, TakeSchedule \/ Reschedule
  PROVE  Uneventful
<1>1. /\ KernelInv(k, {}) /\ k' = rt_schedule(k) /\ UNCHANGED mutexvars
      /\ pc \in [Thread -> Label]
  BY DEF MutexInv, TypeOK, CpuInv, TakeSchedule, Reschedule, ScheduleAt
<1>2. Switched(k, k')
  BY <1>1, ScheduleKeepsInv
<1>3. \A m \in Mutex : Taking(m)' = Taking(m)
  <2>1. CASE TakeSchedule
    <3>1. pc[self] = "take" /\ self \in Thread /\ pc' = [pc EXCEPT ![self] = "taken"]
      BY <2>1 DEF TakeSchedule, ScheduleAt, At, Goto
    <3>2. QED
      BY <1>1, <3>1 DEF Taking, mutexvars
  <2>2. CASE Reschedule
    <3>1. pc[self] = "sched" /\ self \in Thread /\ pc' = [pc EXCEPT ![self] = "run"]
      BY <2>2 DEF Reschedule, ScheduleAt, At, Goto
    <3>2. QED
      BY <1>1, <3>1 DEF Taking, mutexvars
  <2>3. QED
    BY <2>1, <2>2
<1>4. QED
  BY <1>1, <1>2, <1>3 DEF Uneventful, Switched, SamePriorities, mutexvars, Waiters

\* The kernel's lists and priorities are as they were, and the caller is not
\* about to wait.
LEMMA PlainStep ==
  ASSUME MutexInv, UNCHANGED <<owner, original_priority>>,
         self \in Thread,
         k' = k \/ \E e \in Error : k' = SetError(k, self, e),
         NEW label \in Label \ {"take", "taken"},
         pc' = [pc EXCEPT ![self] = label],
         \A t \in Thread \ {self} : object'[t] = object[t]
  PROVE  Uneventful
<1>1. pc \in [Thread -> Label]
  BY DEF MutexInv, TypeOK
<1>2. k'.list = k.list /\ k'.stat = k.stat /\ k'.current_priority = k.current_priority
  BY DEF SetError, MutexInv, TypeOK, KernelType
<1>3. \A m \in Mutex : Taking(m)' \subseteq Taking(m)
  BY <1>1 DEF Taking
<1>4. \A m \in Mutex : Waiters(m)' = Waiters(m)
  BY <1>2 DEF Waiters
<1>5. QED
  BY <1>2, <1>3, <1>4 DEF Uneventful

LEMMA DeleteTurnLists ==
  ASSUME MutexInv, DeleteTurn
  PROVE  Uneventful
<1> DEFINE h == object[self]
           t == FirstThread(k, h)
           e == SetError(k, t, "error")
<1>1. /\ pc \in [Thread -> Label] /\ object \in [Thread -> Mutex] /\ k \in KernelType
      /\ UNCHANGED mutexvars /\ object' = object /\ CpuInv /\ KernelInv(k, {})
  BY DEF MutexInv, TypeOK, CpuInv, DeleteTurn, mutexvars
<1>2. self \in Thread
  BY DEF DeleteTurn, At
<1>3. h \in Queue /\ ResumeAllTurn(h)
  BY <1>1, <1>2, MutexLists DEF DeleteTurn
<1>4. /\ t \in Thread /\ t \in Sleepers(k) /\ WokenUp(k, k', t)
      /\ pc[self] = "resume" /\ pc' = [pc EXCEPT ![self] = "scan"]
      /\ k' = rt_thread_resume(e, t)
  BY <1>1, <1>3, ResumeAllTurnStep DEF ResumeAllTurn, ResumeWithError
<1> HIDE DEF t, h
<1>5. KernelInv(e, {}) /\ e.list = k.list /\ e.stat[t] = "suspend"
  <2>1. e.list = k.list /\ e.stat = k.stat
    BY <1>1 DEF SetError, KernelType
  <2>2. QED
    BY <1>1, <1>4, <2>1, ErrorKeepsInv DEF Sleepers, Error
<1> HIDE DEF e
<1>6. \A m \in Mutex : k'.list[m] = rt_list_remove(k.list[m], t)
  BY <1>4, <1>5, ResumedList, MutexLists
<1>7. \A m \in Mutex : Taking(m)' = Taking(m) /\ Waiters(m)' \subseteq Waiters(m)
  BY <1>1, <1>2, <1>4, MutexLists DEF Taking, WokenUp
<1>8. \A x \in Thread : k'.stat[x] = "init" => k.stat[x] = "init"
  BY <1>1, <1>4 DEF KernelType, WokenUp
<1>9. QED
  BY <1>1, <1>4, <1>6, <1>7, <1>8 DEF Uneventful, mutexvars, WokenUp, SamePriorities

-----------------------------------------------------------------------------
(* Steps in which a mutex gets an owner or a waiter *)

\* Outside of its calls a thread holds what it owns, and without nested takes
\* it owns nothing when it takes a mutex that is not its own.
LEMMA TakerOwnsNothing ==
  ASSUME MutexInv, NEW m \in Mutex, NEW t \in Thread, t = self, pc[t] = "run",
         \A n \in Mutex \ {m} : ~Holds(self, n), owner[m] # t
  PROVE  \A n \in Mutex : owner[n] # t
<1> SUFFICES ASSUME NEW n \in Mutex \ {m}, owner[n] = t
             PROVE  FALSE
  OBVIOUS
<1>1. Owned(n, t)
  BY MutexType DEF MutexInv, MutexOK, Owned, Unowned
<1>2. t \notin Heir(n)
  BY DEF Heir
<1>3. inside[n][t] \in Int /\ hold[n] = inside[n][t] + 0 /\ hold[n] > 0
  BY <1>1, <1>2, MutexType DEF MutexInv, TypeOK, Owned
<1>4. QED
  BY <1>3 DEF Holds

\* A waiter owns nothing, so that its priority is its own.
LEMMA WaiterOwnsNothing ==
  ASSUME MutexInv, OwnersOK, NEW m \in Mutex, NEW t \in Waiters(m)
  PROVE  /\ t \in Thread /\ t \in Taking(m) /\ owner[m] \in Thread
         /\ \A n \in Mutex : owner[n] # t
         /\ k.current_priority[t] = init_priority[t]
<1>1. t \in Taking(m) /\ t \in Thread
  BY DEF MutexInv, MutexOK, Taking
<1>2. PICK o \in Thread : Owned(m, o)
  BY DEF MutexInv, MutexOK, Unowned
<1>3. owner[m] = o /\ o # t
  BY <1>2 DEF Owned
<1>4. \A n \in Mutex : owner[n] # t
  BY <1>1, <1>3 DEF OwnersOK
<1>5. QED
  BY <1>1, <1>3, <1>4 DEF OwnersOK, PriorityRestored

\* The first take of a free mutex.
LEMMA TakeNowKeepsOwners ==
  ASSUME MutexInv, OwnersOK, ~Nested, NEW m \in Mutex, TakeNow(m)
  PROVE  OwnersOK' /\ \A n \in Mutex : WaitersOK(n) => WaitersOK(n)'
<1>1. PICK t \in Thread : t = self /\ pc[t] = "run" /\ k.stat[t] = "ready"
  BY AtRun DEF TakeNow, Free, AboutToSchedule
<1>2. /\ k' = SetError(k, self, "ok") /\ pc' = pc /\ object' = object
      /\ \A n \in Mutex \ {m} : ~Holds(self, n)
  BY DEF TakeNow
<1>3. /\ pc \in [Thread -> Label] /\ k \in KernelType
      /\ owner \in [Mutex -> Thread \cup {NoThread}] /\ NoThread \notin Thread
      /\ original_priority \in [Mutex -> Prio \cup {255}]
  BY MutexType DEF MutexInv, TypeOK
<1>4. CASE owner[m] = t
  <2>1. /\ UNCHANGED <<owner, original_priority>> /\ "ok" \in Error
        /\ "run" \in Label \ {"take", "taken"}
    BY <1>1, <1>4 DEF TakeNow, Error, Label
  <2>2. pc' = [pc EXCEPT ![self] = "run"]
    BY <1>1, <1>2, <1>3
  <2>3. Uneventful
    BY <1>1, <1>2, <2>1, <2>2, PlainStep
  <2>4. QED
    BY <2>3, UneventfulKeepsOwners, UneventfulKeepsWaiters
<1>5. CASE owner[m] # t
  <2>1. /\ value[m] > 0 /\ owner' = [owner EXCEPT ![m] = t]
        /\ original_priority' =
             [original_priority EXCEPT ![m] = k.current_priority[t]]
    BY <1>1, <1>5 DEF TakeNow
  <2>2. Unowned(m)
    BY <2>1 DEF MutexInv, MutexOK, Owned
  <2>3. \A n \in Mutex : owner[n] # t
    BY <1>1, <1>2, <1>5, TakerOwnsNothing
  <2>4. k.current_priority[t] = init_priority[t]
    BY <2>3 DEF OwnersOK, PriorityRestored
  <2>5. /\ k'.current_priority = k.current_priority /\ k'.stat = k.stat
        /\ k'.list = k.list
    BY <1>2, <1>3 DEF SetError, KernelType
  <2>6. \A n \in Mutex : Taking(n)' = Taking(n) /\ Waiters(n)' = Waiters(n)
    BY <1>2, <2>5 DEF Taking, Waiters
  <2>7. \A n \in Mutex : t \notin Taking(n)
    BY <1>1 DEF Taking
  <2>8. /\ owner'[m] = t /\ original_priority'[m] = init_priority[t]
        /\ \A n \in Mutex \ {m} : /\ owner'[n] = owner[n]
                                  /\ original_priority'[n] = original_priority[n]
    BY <1>3, <2>1, <2>4
  <2>9. owner[m] = NoThread
    BY <2>2 DEF Unowned
  <2>10. PriorityRestored'
    <3> SUFFICES ASSUME NEW x \in Thread, \A n \in Mutex : owner'[n] # x
                 PROVE  k'.current_priority[x] = init_priority[x]
      BY DEF PriorityRestored
    <3>1. \A n \in Mutex : owner[n] # x
      BY <1>3, <2>8, <2>9
    <3>2. QED
      BY <2>5, <3>1 DEF OwnersOK, PriorityRestored
  <2>11. ASSUME NEW n \in Mutex, NEW x \in Thread, owner'[n] = x
         PROVE  /\ original_priority'[n] = init_priority[x]
                /\ k'.stat[x] # "init"
                /\ \A g \in Mutex : owner'[g] = x \/ x \in Taking(g)' => g = n
    <3>1. CASE n = m
      <4>1. x = t
        BY <2>8, <2>11, <3>1
      <4>2. QED
        BY <1>1, <2>3, <2>5, <2>6, <2>7, <2>8, <3>1, <4>1
    <3>2. CASE n # m
      <4>1. owner[n] = x /\ x # t
        BY <2>3, <2>8, <2>11, <3>2
      <4>2. QED
        BY <2>5, <2>6, <2>8, <3>2, <4>1 DEF OwnersOK
    <3>3. QED
      BY <3>1, <3>2
  <2>12. OwnersOK'
    BY <2>10, <2>11 DEF OwnersOK
  <2>13. \A n \in Mutex : WaitersOK(n) => WaitersOK(n)'
    <3>1. Waiters(m)' = {}
      BY <2>2, <2>6 DEF Unowned
    <3>2. QED
      BY <2>5, <2>6, <2>8, <3>1 DEF WaitersOK
  <2>14. QED
    BY <2>12, <2>13
<1>6. QED
  BY <1>4, <1>5

\* A caller that may not wait has no effect on owners and waiters.
LEMMA TakeRefusedLists ==
  ASSUME MutexInv, NEW m \in Mutex, TakeWait(m, "no")
  PROVE  Uneventful
<1>1. /\ self \in Thread /\ pc[self] = "run" /\ pc' = pc /\ object' = object
      /\ k' = SetError(k, self, "timeout") /\ UNCHANGED <<owner, original_priority>>
      /\ "timeout" \in Error /\ "run" \in Label \ {"take", "taken"}
  BY AtRun DEF TakeWait, Free, AboutToSchedule, Error, Label
<1>2. pc' = [pc EXCEPT ![self] = "run"]
  BY <1>1 DEF MutexInv, TypeOK
<1>3. QED
  BY <1>1, <1>2, PlainStep

\* The owner inherits the priority of a caller that begins to wait.
LEMMA TakeWaitKeepsOwners ==
  ASSUME MutexInv, OwnersOK, ~Nested, NEW m \in Mutex, NEW time,
         TakeWait(m, time), time # "no"
  PROVE  /\ OwnersOK'
         /\ mutex_flag = "prio" /\ (\A n \in Mutex : WaitersOK(n)) =>
              \A n \in Mutex : WaitersOK(n)'
<1>1. PICK t \in Thread : t = self /\ pc[t] = "run" /\ k.stat[t] = "ready" /\ t # Idle
  BY AtRun DEF TakeWait, Free, AboutToSchedule
<1>2. PICK o \in Thread : o = owner[m] /\ o # t
  BY <1>1, TakeWaitEffect
<1>3. /\ pc' = [pc EXCEPT ![t] = "take"] /\ object' = [object EXCEPT ![t] = m]
      /\ UNCHANGED <<owner, original_priority>>
      /\ \A n \in Mutex \ {m} : ~Holds(self, n)
  BY <1>1, TakeWaitEffect DEF TakeWait
<1>4. PICK b : /\ Adjusted(b, o, Inherited(m))
               /\ k' = Wait(b, m, t, mutex_flag, time)
               /\ PutToSleep(b, k', m, t)
  BY <1>1, <1>2, TakeWaitEffect
<1>5. /\ pc \in [Thread -> Label] /\ object \in [Thread -> Mutex]
      /\ k.current_priority \in [Thread -> Prio] /\ k.stat \in [Thread -> Stat]
  BY DEF MutexInv, TypeOK, KernelType
<1>6. \A n \in Mutex : owner[n] # t
  BY <1>1, <1>2, <1>3, TakerOwnsNothing
<1>7. /\ b.current_priority = [k.current_priority EXCEPT ![o] = Inherited(m)]
      /\ k'.current_priority = b.current_priority
      /\ k'.stat = [k.stat EXCEPT ![t] = "suspend"]
      /\ b.stat = k.stat /\ KernelInv(b, {})
      /\ \A n \in Mutex : b.list[n] = k.list[n] /\ Nodes(b, n) = Nodes(k, n)
  BY <1>4, MutexLists DEF Adjusted, Reprioritized, PutToSleep, SamePriorities
<1>8. \A n \in Mutex :
        /\ Taking(n)' = IF n = m THEN Taking(n) \cup {t} ELSE Taking(n)
        /\ Waiters(n)' = IF n = m THEN Waiters(n) \cup {t} ELSE Waiters(n)
  <2>1. \A n \in Mutex : t \notin Taking(n)
    BY <1>1 DEF Taking
  <2>2. \A n \in Mutex : Taking(n)' = IF n = m THEN Taking(n) \cup {t} ELSE Taking(n)
    BY <1>3, <1>5, <2>1 DEF Taking
  <2>3. \A n \in Mutex : Nodes(k', n) = IF n = m THEN Nodes(k, n) \cup {t} ELSE Nodes(k, n)
    BY <1>4, <1>7, MutexLists DEF PutToSleep
  <2>4. QED
    BY <2>2, <2>3, MutexLists
<1>9. PriorityRestored'
  <2> SUFFICES ASSUME NEW x \in Thread, \A n \in Mutex : owner'[n] # x
               PROVE  k'.current_priority[x] = init_priority[x]
    BY DEF PriorityRestored
  <2>1. x # o /\ k.current_priority[x] = init_priority[x]
    BY <1>2, <1>3 DEF OwnersOK, PriorityRestored
  <2>2. QED
    BY <1>5, <1>7, <2>1
<1>10. OwnersOK'
  <2>1. ASSUME NEW n \in Mutex, NEW x \in Thread, owner'[n] = x
        PROVE  /\ original_priority'[n] = init_priority[x]
               /\ k'.stat[x] # "init"
               /\ \A g \in Mutex : owner'[g] = x \/ x \in Taking(g)' => g = n
    <3>1. owner[n] = x /\ x # t
      BY <1>3, <1>6, <2>1
    <3>2. QED
      BY <1>3, <1>5, <1>7, <1>8, <3>1 DEF OwnersOK
  <2>2. QED
    BY <1>9, <2>1 DEF OwnersOK
<1>11. ASSUME mutex_flag = "prio", \A n \in Mutex : WaitersOK(n), NEW n \in Mutex
       PROVE  WaitersOK(n)'
  <2>1. k.current_priority[t] = init_priority[t]
    BY <1>6 DEF OwnersOK, PriorityRestored
  <2>2. \A x \in Nodes(b, m) \cup {t} : b.current_priority[x] = init_priority[x]
    <3> SUFFICES ASSUME NEW x \in Nodes(b, m) \cup {t}
                 PROVE  b.current_priority[x] = init_priority[x]
      OBVIOUS
    <3>1. x = t \/ x \in Waiters(m)
      BY <1>7, MutexLists
    <3>2. x \in Thread /\ x # o /\ k.current_priority[x] = init_priority[x]
      BY <1>2, <2>1, <3>1, WaiterOwnsNothing
    <3>3. QED
      BY <1>5, <1>7, <3>2
  <2>3. /\ Sorted(k'.list[m], init_priority)
        /\ \A g \in Queue \ {m} : k'.list[g] = b.list[g]
    <3>1. Sorted(b.list[m], init_priority)
      BY <1>7, <1>11 DEF WaitersOK
    <3>2. b.stat[t] = "ready" /\ t \in Thread \ {Idle} /\ m \in Queue
      BY <1>1, <1>7, MutexLists
    <3>3. k' = Wait(b, m, t, "prio", time) /\ init_priority \in [Thread -> Prio]
      BY <1>4, <1>11, InitPriorityType
    <3>4. /\ KernelInv(b, {}) /\ t \in Thread \ {Idle} /\ m \in Queue
          /\ b.stat[t] = "ready" /\ init_priority \in [Thread -> Prio]
          /\ \A x \in Nodes(b, m) \cup {t} : b.current_priority[x] = init_priority[x]
          /\ Sorted(b.list[m], init_priority)
      BY <1>7, <2>2, <3>1, <3>2, <3>3
    <3>5. /\ Sorted(Wait(b, m, t, "prio", time).list[m], init_priority)
          /\ \A g \in Queue \ {m} : Wait(b, m, t, "prio", time).list[g] = b.list[g]
      BY <3>4, WaitKeepsSorted
    <3>6. QED
      BY <3>3, <3>5
  <2>4. Inherited(m) <= k.current_priority[o] /\ Inherited(m) <= init_priority[t]
        /\ Inherited(m) \in Prio
    BY <1>1, <1>2, <1>5, <2>1 DEF Inherited, Prio
  <2>5. CASE n = m
    <3>1. k'.current_priority[o] = Inherited(m)
      BY <1>5, <1>7
    <3>2. \A x \in Waiters(m) : k.current_priority[o] <= init_priority[x]
      BY <1>2, <1>11 DEF WaitersOK
    <3>3. \A x \in Waiters(m) : init_priority[x] \in Int /\ k.current_priority[o] \in Int
      BY <1>5, InitPriorityType, WaiterOwnsNothing DEF Prio
    <3>4. \A x \in Waiters(m)' : k'.current_priority[owner'[m]] <= init_priority[x]
      <4> SUFFICES ASSUME NEW x \in Waiters(m)'
                   PROVE  Inherited(m) <= init_priority[x]
        BY <1>2, <1>3, <3>1
      <4>1. CASE x = t
        BY <2>4, <4>1
      <4>2. CASE x \in Waiters(m)
        <5>1. /\ Inherited(m) \in Int /\ k.current_priority[o] \in Int
              /\ init_priority[x] \in Int /\ k.current_priority[o] <= init_priority[x]
          BY <2>4, <3>2, <3>3, <4>2 DEF Prio
        <5>2. QED
          BY <2>4, <5>1
      <4>3. QED
        BY <1>8, <4>1, <4>2
    <3>5. QED
      BY <2>3, <2>5, <3>4 DEF WaitersOK
  <2>6. CASE n # m
    <3>1. k'.list[n] = k.list[n] /\ Waiters(n)' = Waiters(n)
      BY <1>7, <1>8, <2>3, <2>6, MutexLists
    <3>2. ASSUME NEW x \in Waiters(n)
          PROVE  k'.current_priority[owner[n]] = k.current_priority[owner[n]]
      <4>1. owner[n] \in Thread /\ owner[n] # o
        BY <1>2, <2>6, WaiterOwnsNothing DEF OwnersOK
      <4>2. QED
        BY <1>5, <1>7, <4>1
    <3>3. QED
      BY <1>3, <1>11, <3>1, <3>2 DEF WaitersOK
  <2>7. QED
    BY <2>5, <2>6
<1>12. QED
  BY <1>10, <1>11

\* The last release: the owner has its own priority again, and the mutex goes
\* to the first waiter, which is of the highest priority among them.
LEMMA HandOverKeepsOwners ==
  ASSUME MutexInv, OwnersOK, NEW m \in Mutex, Free(m), owner[m] = self,
         HandOver(m), object' = object
  PROVE  OwnersOK' /\ \A n \in Mutex : WaitersOK(n) => WaitersOK(n)'
<1> DEFINE heir == FirstThread(k, m)
           b == Restored(m)
<1>1. PICK t \in Thread : /\ t = self /\ pc[t] = "run" /\ k.stat[t] = "ready"
                          /\ Owned(m, t) /\ t \notin Waiters(m)
  BY ReleaserOwns
<1>2. /\ pc \in [Thread -> Label] /\ object \in [Thread -> Mutex] /\ k \in KernelType
      /\ k.current_priority \in [Thread -> Prio] /\ k.stat \in [Thread -> Stat]
      /\ owner \in [Mutex -> Thread \cup {NoThread}] /\ NoThread \notin Thread
      /\ original_priority \in [Mutex -> Prio \cup {255}]
  BY MutexType DEF MutexInv, TypeOK, KernelType
<1>3. /\ owner[m] = t /\ original_priority[m] = init_priority[t]
      /\ k.stat[t] # "init"
      /\ \A n \in Mutex : owner[n] = t => n = m
  BY <1>1 DEF OwnersOK
<1>4. Adjusted(b, t, init_priority[t])
  BY <1>1, <1>3, RestoredEffect
<1> HIDE DEF b
<1>5. /\ b.current_priority = [k.current_priority EXCEPT ![t] = init_priority[t]]
      /\ KernelInv(b, {}) /\ b.stat = k.stat
      /\ \A n \in Mutex : b.list[n] = k.list[n] /\ Nodes(b, n) = Nodes(k, n)
  BY <1>4, MutexLists DEF Adjusted, Reprioritized
<1>6. \A x \in Thread : b.current_priority[x] =
                          IF x = t THEN init_priority[x] ELSE k.current_priority[x]
  BY <1>2, <1>5
<1>7. ASSUME heir # Wild
      PROVE  OwnersOK' /\ \A n \in Mutex : WaitersOK(n) => WaitersOK(n)'
  <2>1. /\ owner' = [owner EXCEPT ![m] = heir]
        /\ original_priority' = [original_priority EXCEPT ![m] = k.current_priority[heir]]
        /\ k' = rt_ipc_list_resume(b, m)
        /\ pc' = [pc EXCEPT ![t] = "sched"]
    BY <1>1, <1>7 DEF HandOver, Goto, b
  <2>2. PICK h \in Thread :
          /\ h = heir /\ h \in Waiters(m) /\ k.stat[h] = "suspend"
          /\ WokenUp(b, k', h)
          /\ k'.stat = [k.stat EXCEPT ![h] = "ready"]
          /\ \A g \in Queue : Nodes(k', g) = Nodes(k, g) \ {h}
    BY <1>1, <1>7, <2>1, HandOverEffect DEF b
  <2>3. /\ h \in Taking(m) /\ k.current_priority[h] = init_priority[h]
        /\ \A n \in Mutex : owner[n] # h
    BY <2>2, WaiterOwnsNothing
  <2>4. k'.current_priority = b.current_priority
    BY <2>2 DEF WokenUp, SamePriorities
  <2>5. \A n \in Mutex : k'.list[n] = rt_list_remove(k.list[n], h)
    <3>1. FirstThread(b, m) = h
      BY <1>5, <2>2 DEF FirstThread
    <3>2. k' = rt_thread_resume(b, h) /\ b.stat[h] = "suspend"
      BY <1>5, <2>1, <2>2, <3>1 DEF rt_ipc_list_resume
    <3>3. \A n \in Mutex : k'.list[n] = rt_list_remove(b.list[n], h)
      BY <1>5, <3>2, ResumedList, MutexLists
    <3>4. QED
      BY <1>5, <3>3
  <2>6. \A n \in Mutex : Taking(n)' = Taking(n) /\ Waiters(n)' = Waiters(n) \ {h}
    BY <1>1, <1>2, <2>1, <2>2, MutexLists DEF Taking
  <2>7. /\ owner'[m] = h /\ original_priority'[m] = init_priority[h]
        /\ \A n \in Mutex \ {m} : /\ owner'[n] = owner[n]
                                  /\ original_priority'[n] = original_priority[n]
    BY <1>2, <2>1, <2>2, <2>3
  <2>8. PriorityRestored'
    <3> SUFFICES ASSUME NEW x \in Thread, \A n \in Mutex : owner'[n] # x
                 PROVE  k'.current_priority[x] = init_priority[x]
      BY DEF PriorityRestored
    <3>1. x # t => \A n \in Mutex : owner[n] # x
      BY <1>3, <2>7
    <3>2. x # t => k.current_priority[x] = init_priority[x]
      BY <3>1 DEF OwnersOK, PriorityRestored
    <3>3. QED
      BY <1>6, <2>4, <3>2
  <2>9. ASSUME NEW n \in Mutex, NEW x \in Thread, owner'[n] = x
        PROVE  /\ original_priority'[n] = init_priority[x]
               /\ k'.stat[x] # "init"
               /\ \A g \in Mutex : owner'[g] = x \/ x \in Taking(g)' => g = n
    <3>1. CASE n = m
      <4>1. x = h /\ k'.stat[x] = "ready"
        BY <1>2, <2>2, <2>7, <2>9, <3>1
      <4>2. \A g \in Mutex : h \in Taking(g) => g = m
        BY <2>3 DEF Taking
      <4>3. QED
        BY <2>3, <2>6, <2>7, <3>1, <4>1, <4>2
    <3>2. CASE n # m
      <4>1. owner[n] = x /\ x # h
        BY <2>3, <2>7, <2>9, <3>2
      <4>2. QED
        BY <1>2, <2>2, <2>6, <2>7, <3>2, <4>1 DEF OwnersOK
    <3>3. QED
      BY <3>1, <3>2
  <2>10. OwnersOK'
    BY <2>8, <2>9 DEF OwnersOK
  <2>11. ASSUME NEW n \in Mutex, WaitersOK(n)
         PROVE  WaitersOK(n)'
    <3>1. Sorted(k'.list[n], init_priority)
      BY <2>5, <2>11, ShorterKeepsSorted DEF WaitersOK
    <3>2. CASE n = m
      <4>1. k'.current_priority[h] = init_priority[h]
        BY <1>6, <2>3, <2>4
      <4>2. \A x \in Waiters(m) : init_priority[h] <= init_priority[x]
        <5> SUFFICES ASSUME NEW x \in Waiters(m)
                     PROVE  init_priority[h] <= init_priority[x]
          OBVIOUS
        <5>1. k.list[m] \in Seq(Thread) /\ h = k.list[m][1]
          BY <1>2, <1>7, <2>2, MutexLists DEF FirstThread, KernelType, ListHead
        <5>2. /\ DOMAIN k.list[m] = 1 .. Len(k.list[m]) /\ Len(k.list[m]) \in Nat
              /\ \E j \in 1 .. Len(k.list[m]) : x = k.list[m][j]
          BY <5>1, NodesOfList DEF Waiters
        <5>3. PICK j \in 1 .. Len(k.list[m]) : x = k.list[m][j]
          BY <5>2
        <5>4. 1 \in 1 .. Len(k.list[m]) /\ 1 <= j
          BY <5>2, <5>3
        <5>5. init_priority[k.list[m][1]] <= init_priority[k.list[m][j]]
          BY <2>11, <3>2, <5>2, <5>4 DEF WaitersOK, Sorted
        <5>6. QED
          BY <5>1, <5>3, <5>5
      <4>3. \A x \in Waiters(n)' : k'.current_priority[owner'[n]] <= init_priority[x]
        BY <2>6, <2>7, <3>2, <4>1, <4>2
      <4>4. QED
        BY <3>1, <4>3 DEF WaitersOK
    <3>3. CASE n # m
      <4>1. ASSUME NEW x \in Waiters(n)
            PROVE  k'.current_priority[owner[n]] = k.current_priority[owner[n]]
        <5>1. owner[n] \in Thread /\ owner[n] # t
          BY <1>3, <3>3, WaiterOwnsNothing
        <5>2. QED
          BY <1>6, <2>4, <5>1
      <4>2. \A x \in Waiters(n)' : k'.current_priority[owner'[n]] <= init_priority[x]
        BY <2>6, <2>7, <2>11, <3>3, <4>1 DEF WaitersOK
      <4>3. QED
        BY <3>1, <4>2 DEF WaitersOK
    <3>4. QED
      BY <3>2, <3>3
  <2>12. QED
    BY <2>10, <2>11
<1>8. ASSUME heir = Wild
      PROVE  OwnersOK' /\ \A n \in Mutex : WaitersOK(n) => WaitersOK(n)'
  <2>1. /\ owner' = [owner EXCEPT ![m] = NoThread]
        /\ original_priority' = [original_priority EXCEPT ![m] = 255]
        /\ k' = b /\ pc' = pc
    BY <1>8 DEF HandOver, b
  <2>2. Waiters(m) = {}
    <3>1. Nodes(k, m) # {} => heir \in Thread
      BY <1>2, FirstThreadEffect, MutexLists DEF ListHead
    <3>2. QED
      BY <1>8, <3>1, WildIsNoThread, MutexLists
  <2>3. \A n \in Mutex : /\ k'.list[n] = k.list[n]
                         /\ Taking(n)' = Taking(n) /\ Waiters(n)' = Waiters(n)
    BY <1>5, <2>1 DEF Taking, Waiters
  <2>4. /\ owner'[m] = NoThread
        /\ \A n \in Mutex \ {m} : /\ owner'[n] = owner[n]
                                  /\ original_priority'[n] = original_priority[n]
    BY <1>2, <2>1
  <2>5. PriorityRestored'
    <3> SUFFICES ASSUME NEW x \in Thread, \A n \in Mutex : owner'[n] # x
                 PROVE  k'.current_priority[x] = init_priority[x]
      BY DEF PriorityRestored
    <3>1. x # t => \A n \in Mutex : owner[n] # x
      BY <1>3, <2>4
    <3>2. x # t => k.current_priority[x] = init_priority[x]
      BY <3>1 DEF OwnersOK, PriorityRestored
    <3>3. QED
      BY <1>6, <2>1, <3>2
  <2>6. ASSUME NEW n \in Mutex, NEW x \in Thread, owner'[n] = x
        PROVE  /\ original_priority'[n] = init_priority[x]
               /\ k'.stat[x] # "init"
               /\ \A g \in Mutex : owner'[g] = x \/ x \in Taking(g)' => g = n
    <3>1. n # m /\ owner[n] = x /\ k'.stat[x] = k.stat[x]
      BY <1>2, <1>5, <2>1, <2>4, <2>6
    <3>2. QED
      BY <1>2, <2>3, <2>4, <3>1 DEF OwnersOK
  <2>7. ASSUME NEW n \in Mutex, WaitersOK(n)
        PROVE  WaitersOK(n)'
    <3>1. ASSUME NEW x \in Waiters(n)
          PROVE  k'.current_priority[owner'[n]] = k.current_priority[owner[n]]
      <4>1. n # m
        BY <2>2, <3>1
      <4>2. owner[n] \in Thread /\ owner[n] # t
        BY <1>3, <3>1, <4>1, WaiterOwnsNothing
      <4>3. QED
        BY <1>6, <2>1, <2>4, <4>1, <4>2
    <3>2. QED
      BY <2>3, <2>7, <3>1 DEF WaitersOK
  <2>8. QED
    BY <2>5, <2>6, <2>7 DEF OwnersOK
<1>9. QED
  BY <1>7, <1>8

LEMMA ReleaseKeepsOwners ==
  ASSUME MutexInv, OwnersOK, NEW m \in Mutex, Release(m)
  PROVE  OwnersOK' /\ \A n \in Mutex : WaitersOK(n) => WaitersOK(n)'
<1>1. Free(m) /\ pc \in [Thread -> Label]
  BY DEF Release, MutexInv, TypeOK
<1>2. self \in Thread /\ pc[self] = "run"
  BY <1>1, AtRun DEF Free, AboutToSchedule
<1>3. CASE owner[m] = self /\ hold[m] = 1
  BY <1>1, <1>3, HandOverKeepsOwners DEF Release
<1>4. CASE ~(owner[m] = self /\ hold[m] = 1)
  <2>1. /\ UNCHANGED <<owner, original_priority>> /\ pc' = pc /\ object' = object
        /\ k' = k \/ k' = SetError(k, self, "error")
        /\ "error" \in Error /\ "run" \in Label \ {"take", "taken"}
    BY <1>4 DEF Release, Error, Label, mutexvars
  <2>2. pc' = [pc EXCEPT ![self] = "run"]
    BY <1>1, <1>2, <2>1
  <2>3. Uneventful
    BY <1>2, <2>1, <2>2, PlainStep
  <2>4. QED
    BY <2>3, UneventfulKeepsOwners, UneventfulKeepsWaiters
<1>5. QED
  BY <1>3, <1>4

-----------------------------------------------------------------------------
(* All steps *)

LEMMA InitEstablishesOwners ==
  Init => OwnersOK /\ \A m \in Mutex : WaitersOK(m)
<1> SUFFICES ASSUME Init
             PROVE  OwnersOK /\ \A m \in Mutex : WaitersOK(m)
  OBVIOUS
<1>1. /\ k.current_priority = init_priority
      /\ \A m \in Mutex : owner[m] = NoThread
      /\ NoThread \notin Thread
  BY MutexType DEF Init, IpcInit
<1>2. OwnersOK
  BY <1>1 DEF OwnersOK, PriorityRestored
<1>3. \A m \in Mutex : k.list[m] = << >>
  <2>1. PriorityMax - 1 \in Prio
    BY PriorityMaxIsPositive DEF Prio
  <2>2. \A m \in Mutex : m \in ListHead /\ m # PriorityMax - 1
    BY <2>1, HeadsAreDistinct, MutexLists DEF ListHead
  <2>3. QED
    BY <2>2 DEF Init, IpcInit
<1>4. DOMAIN << >> = {} /\ ToSet(<< >>) = {}
  BY DEF ToSet
<1>5. \A m \in Mutex : Waiters(m) = {} /\ Sorted(k.list[m], init_priority)
  BY <1>3, <1>4 DEF Sorted, Waiters
<1>6. QED
  BY <1>2, <1>5 DEF WaitersOK

\* The steps that are not takes or releases.
LEMMA OtherStepsAreUneventful ==
  ASSUME MutexInv, OwnersOK,
         \/ CpuStep /\ UNCHANGED mutexvars
         \/ \E m \in Mutex : Delete(m)
         \/ TakeSchedule \/ TakeReturn \/ Reschedule \/ DeleteTest \/ DeleteTurn
         \/ UNCHANGED vars
  PROVE  Uneventful
<1>1. CASE CpuStep /\ UNCHANGED mutexvars
  <2>1. CASE Delay
    BY <1>1, <2>1, DelayLists
  <2>2. CASE Tick
    BY <1>1, <2>2, TickLists
  <2>3. ASSUME NEW t \in Thread, Startup(t)
        PROVE  Uneventful
    BY <1>1, <2>3, StartupLists
  <2>4. ASSUME NEW t \in Thread, TimerCheck(t)
        PROVE  Uneventful
    BY <1>1, <2>4, TimerCheckLists
  <2>5. QED
    BY <1>1, <2>1, <2>2, <2>3, <2>4 DEF CpuStep
<1>2. ASSUME NEW m \in Mutex, Delete(m)
      PROVE  Uneventful
  <2>1. object' = [object EXCEPT ![self] = m] /\ object \in [Thread -> Mutex]
        /\ k' = k /\ UNCHANGED <<owner, original_priority>> /\ self \in Thread
        /\ pc' = [pc EXCEPT ![self] = "scan"] /\ "scan" \in Label \ {"take", "taken"}
    BY <1>2 DEF Delete, Free, At, Goto, Label, MutexInv, TypeOK
  <2>2. \A t \in Thread \ {self} : object'[t] = object[t]
    BY <2>1
  <2>3. QED
    BY <2>1, <2>2, PlainStep
<1>3. CASE TakeSchedule \/ Reschedule
  BY <1>3, ScheduleLists
<1>4. CASE TakeReturn
  <2>1. /\ k' = k /\ UNCHANGED <<owner, original_priority>> /\ self \in Thread
        /\ object' = object
        /\ pc' = [pc EXCEPT ![self] = "run"] /\ "run" \in Label \ {"take", "taken"}
    BY <1>4 DEF TakeReturn, At, Goto, Label
  <2>2. QED
    BY <2>1, PlainStep
<1>5. CASE DeleteTest
  <2>1. PICK label \in {"run", "resume"} : pc' = [pc EXCEPT ![self] = label]
    BY <1>5 DEF DeleteTest, ResumeAllTest, Goto
  <2>2. /\ k' = k /\ UNCHANGED <<owner, original_priority>> /\ self \in Thread
        /\ object' = object /\ label \in Label \ {"take", "taken"}
    BY <1>5 DEF DeleteTest, ResumeAllTest, At, mutexvars, Label
  <2>3. QED
    BY <2>1, <2>2, PlainStep
<1>6. CASE DeleteTurn
  BY <1>6, DeleteTurnLists
<1>7. CASE UNCHANGED vars
  BY <1>7 DEF vars, mutexvars, Uneventful, Taking, Waiters
<1>8. QED
  BY <1>1, <1>2, <1>3, <1>4, <1>5, <1>6, <1>7

LEMMA StepKeepsOwners ==
  ASSUME ~Nested, MutexInv, OwnersOK, [Next]_vars
  PROVE  /\ OwnersOK'
         /\ mutex_flag = "prio" /\ (\A m \in Mutex : WaitersOK(m)) =>
              \A m \in Mutex : WaitersOK(m)'
<1>1. ASSUME Uneventful
      PROVE  OwnersOK' /\ \A m \in Mutex : WaitersOK(m) => WaitersOK(m)'
  BY <1>1, UneventfulKeepsOwners, UneventfulKeepsWaiters
<1>2. CASE \/ CpuStep /\ UNCHANGED mutexvars
           \/ \E m \in Mutex : Delete(m)
           \/ TakeSchedule \/ TakeReturn \/ Reschedule \/ DeleteTest \/ DeleteTurn
           \/ UNCHANGED vars
  BY <1>1, <1>2, OtherStepsAreUneventful
<1>3. CASE \E m \in Mutex : TakeNow(m)
  BY <1>3, TakeNowKeepsOwners
<1>4. CASE \E m \in Mutex : Release(m)
  BY <1>4, ReleaseKeepsOwners
<1>5. ASSUME NEW m \in Mutex, NEW time \in Times, TakeWait(m, time)
      PROVE  /\ OwnersOK'
             /\ mutex_flag = "prio" /\ (\A n \in Mutex : WaitersOK(n)) =>
                  \A n \in Mutex : WaitersOK(n)'
  <2>1. CASE time = "no"
    BY <1>1, <1>5, <2>1, TakeRefusedLists
  <2>2. CASE time # "no"
    BY <1>5, <2>2, TakeWaitKeepsOwners
  <2>3. QED
    BY <2>1, <2>2
<1>6. QED
  BY <1>2, <1>3, <1>4, <1>5 DEF Next

-----------------------------------------------------------------------------
(* The highest ready thread runs *)

\* The steps after which the processor is with the highest ready thread.
LEMMA RescheduledIsHighest ==
  ASSUME MutexInv,
         \/ \E t \in Thread : Startup(t) \/ TimerCheck(t)
         \/ Tick \/ ScheduleAt("take", "taken") \/ ScheduleAt("sched", "run")
  PROVE  HighestHasCpu(k')
<1>1. CpuInv /\ pc \in [Thread -> Label]
  BY DEF MutexInv, TypeOK
<1>2. QED
  BY <1>1, StartupStep, TickStep, TimerCheckStep, ScheduleAtStep

\* A step that leaves the processor, the ready threads and the priorities.
SameRunner ==
  /\ k'.ready_group = k.ready_group /\ k'.current_priority = k.current_priority
  /\ k'.current_thread = k.current_thread

HighestKept == RunsHighest => RunsHighest'

InCode == {"run", "taken", "scan", "resume"}

LEMMA StepKeepsHighest ==
  ASSUME MutexInv, [Next]_vars
  PROVE  DeleteTurn \/ (\E m \in Mutex : DemotesItself(m)) \/ HighestKept
<1>1. /\ pc \in [Thread -> Label] /\ k \in KernelType
      /\ self = k.current_thread /\ CpuInv
  BY DEF MutexInv, TypeOK, self
<1>2. ASSUME HighestHasCpu(k')
      PROVE  HighestKept
  BY <1>2 DEF HighestKept, RunsHighest, HighestHasCpu, self
<1>3. ASSUME SameRunner, pc'[self] \in InCode => pc[self] \in InCode
      PROVE  HighestKept
  BY <1>3 DEF HighestKept, RunsHighest, SameRunner, self, InCode
<1>4. ASSUME NEW label \in {"sched", "take"}, self \in Thread,
             pc' = [pc EXCEPT ![self] = label],
             k'.current_thread = k.current_thread
      PROVE  HighestKept
  BY <1>1, <1>4 DEF HighestKept, RunsHighest, self
<1>5. CASE CpuStep /\ UNCHANGED mutexvars
  <2>1. CASE Delay
    <3>1. k'.current_thread = k.current_thread /\ self \in Thread
          /\ pc' = [pc EXCEPT ![self] = "sched"]
      <4>1. /\ k.stat[self] = "ready" /\ self \in Thread
        BY <2>1, RunnerIsReady, <1>1 DEF Delay, AboutToSchedule
      <4>2. k' = StartTimer(SuspendSection(k, self), self)
        BY <2>1, <4>1 DEF Delay, rt_thread_suspend
      <4>3. Suspended(k, SuspendSection(k, self), self)
        <5>1. KernelInv(k, {}) /\ self \in Thread \ {Idle} /\ self \notin {}
          BY <1>1, <2>1 DEF CpuInv, Delay, At
        <5>2. QED
          BY <4>1, <5>1, SuspendKeepsInv
      <4>4. SuspendSection(k, self) \in KernelType
        BY <1>1, <2>1, <4>1, SuspendKeepsInv DEF CpuInv, Delay, At, KernelInv
      <4>5. k'.current_thread = k.current_thread
        <5>1. k'.current_thread = SuspendSection(k, self).current_thread
          BY <4>2, <4>4 DEF StartTimer, KernelType
        <5>2. QED
          BY <4>3, <5>1 DEF Suspended
      <4>6. QED
        BY <2>1, <4>1, <4>5 DEF Delay, Goto
    <3>2. QED
      BY <1>4, <3>1
  <2>2. CASE Tick \/ \E t \in Thread : Startup(t) \/ TimerCheck(t)
    <3>1. HighestHasCpu(k')
      BY <2>2, RescheduledIsHighest
    <3>2. QED
      BY <1>2, <3>1
  <2>3. QED
    BY <1>5, <2>1, <2>2 DEF CpuStep
<1>6. ASSUME NEW m \in Mutex, TakeNow(m)
      PROVE  HighestKept
  <2>1. SameRunner
    BY <1>1, <1>6 DEF TakeNow, SetError, SameRunner, KernelType
  <2>2. QED
    BY <1>3, <1>6, <2>1 DEF TakeNow
<1>7. ASSUME NEW m \in Mutex, Release(m)
      PROVE  DemotesItself(m) \/ HighestKept
  <2>1. CASE owner[m] = self /\ hold[m] = 1
    <3>1. Free(m) /\ HandOver(m)
      BY <1>7, <2>1 DEF Release
    <3>2. self \in Thread /\ Owned(m, self) /\ k.stat[self] = "ready"
      BY <2>1, <3>1, ReleaserOwns
    <3>3. CASE FirstThread(k, m) # Wild
      <4>1. /\ k' = rt_ipc_list_resume(Restored(m), m)
            /\ pc' = [pc EXCEPT ![self] = "sched"]
        BY <3>1, <3>3 DEF HandOver, Goto
      <4>2. WokenUp(Restored(m), k', FirstThread(k, m))
        BY <3>2, <3>3, <4>1, HandOverEffect
      <4>3. Adjusted(Restored(m), self, original_priority[m])
        BY <3>2, RestoredEffect
      <4>4. k'.current_thread = k.current_thread
        BY <4>2, <4>3 DEF WokenUp, Adjusted, Reprioritized
      <4>5. QED
        BY <1>4, <3>1, <3>2, <4>1, <4>4
    <3>4. CASE FirstThread(k, m) = Wild
      <4>1. k' = Restored(m) /\ pc' = pc
        BY <3>1, <3>4 DEF HandOver
      <4>2. CASE k' = k
        BY <1>3, <4>1, <4>2 DEF SameRunner
      <4>3. CASE k' # k
        BY <1>7, <2>1, <3>4, <4>1, <4>3 DEF DemotesItself
      <4>4. QED
        BY <4>2, <4>3
    <3>5. QED
      BY <3>3, <3>4
  <2>2. CASE ~(owner[m] = self /\ hold[m] = 1)
    <3>1. /\ pc' = pc
          /\ k' = k \/ k' = SetError(k, self, "error")
      BY <1>7, <2>2 DEF Release, mutexvars
    <3>2. SameRunner
      BY <1>1, <3>1 DEF SetError, SameRunner, KernelType
    <3>3. QED
      BY <1>3, <3>1, <3>2
  <2>3. QED
    BY <2>1, <2>2
<1>8. ASSUME NEW m \in Mutex, NEW time \in Times, TakeWait(m, time)
      PROVE  HighestKept
  <2>1. CASE time = "no"
    <3>1. SameRunner
      BY <1>1, <1>8, <2>1 DEF TakeWait, SetError, SameRunner, KernelType
    <3>2. QED
      BY <1>3, <1>8, <2>1, <3>1 DEF TakeWait
  <2>2. CASE time # "no"
    <3>1. PICK b : Adjusted(b, owner[m], Inherited(m)) /\ PutToSleep(b, k', m, self)
      BY <1>8, <2>2, TakeWaitEffect
    <3>2. /\ k'.current_thread = k.current_thread
          /\ self \in Thread /\ pc' = [pc EXCEPT ![self] = "take"]
      BY <1>8, <2>2, <3>1, TakeWaitEffect
         DEF Adjusted, Reprioritized, PutToSleep, TakeWait
    <3>3. QED
      BY <1>4, <3>2
  <2>3. QED
    BY <2>1, <2>2
<1>9. CASE TakeSchedule \/ Reschedule
  BY <1>2, <1>9, RescheduledIsHighest DEF TakeSchedule, Reschedule
<1>10. ASSUME NEW label \in Label, k' = k, self \in Thread, pc[self] \in InCode,
              pc' = [pc EXCEPT ![self] = label]
       PROVE  HighestKept
  BY <1>3, <1>10 DEF SameRunner
<1>11. CASE TakeReturn \/ \E m \in Mutex : Delete(m)
  BY <1>10, <1>11 DEF TakeReturn, Delete, Free, At, Goto, InCode, Label
<1>12. CASE DeleteTest
  BY <1>10, <1>12 DEF DeleteTest, ResumeAllTest, At, Goto, InCode, Label
<1>13. CASE UNCHANGED vars
  BY <1>3, <1>13 DEF vars, SameRunner
<1>14. QED
  BY <1>5, <1>6, <1>7, <1>8, <1>9, <1>11, <1>12, <1>13 DEF Next

-----------------------------------------------------------------------------
(* The theorems *)

\* No step takes the processor from the highest ready priority but a turn of
\* rt_ipc_list_resume_all and the release that puts its owner back to a lower
\* priority with nobody waiting (ipc.c:811), for any threads, mutexes, flags and
\* nesting, deleted mutexes included.
THEOREM MutexHighestRuns == Spec => HighestRuns
<1>1. MutexInv /\ [Next]_vars => [KeepsHighest]_vars
  BY StepKeepsHighest DEF HighestKept, KeepsHighest
<1>2. QED
  BY <1>1, MutexInvariance, PTL DEF Spec, HighestRuns

\* Without nested takes a thread outside every mutex has the priority it was
\* created with, however often it was raised (ipc.c:811).  With them that is
\* false, as the run Mutex_nested shows.
THEOREM MutexRestores ==
  ASSUME ~Nested
  PROVE  Spec => []PriorityRestored
<1>1. Init => OwnersOK
  BY InitEstablishesOwners
<1>2. MutexInv /\ OwnersOK /\ [Next]_vars => OwnersOK'
  BY StepKeepsOwners
<1>3. OwnersOK => PriorityRestored
  BY DEF OwnersOK
<1>4. QED
  BY <1>1, <1>2, <1>3, MutexInvariance, PTL DEF Spec

LEMMA WaitersInherit ==
  ASSUME MutexInv, OwnersOK, \A m \in Mutex : WaitersOK(m)
  PROVE  OwnerInherits
<1> SUFFICES ASSUME NEW m \in alive, NEW t \in Waiters(m)
             PROVE  k.current_priority[owner[m]] <= k.current_priority[t]
  BY DEF OwnerInherits
<1>1. m \in Mutex
  BY DEF MutexInv, TypeOK
<1>2. k.current_priority[t] = init_priority[t]
  BY <1>1, WaiterOwnsNothing
<1>3. QED
  BY <1>1, <1>2 DEF WaitersOK

\* With RT_IPC_FLAG_PRIO and without nested takes nobody waits for an owner of
\* lower priority, and the highest ready thread runs on.  With RT_IPC_FLAG_FIFO
\* the heir of a mutex may be below those that wait on.
THEOREM MutexRightThreadRuns ==
  ASSUME ~Nested, mutex_flag = "prio"
  PROVE  Spec => RightThreadRuns
<1> DEFINE AllWaitersOK == \A m \in Mutex : WaitersOK(m)
<1>1. Init => OwnersOK /\ AllWaitersOK
  BY InitEstablishesOwners
<1>2. MutexInv /\ OwnersOK /\ AllWaitersOK /\ [Next]_vars => OwnersOK' /\ AllWaitersOK'
  BY StepKeepsOwners
<1>3. MutexInv /\ OwnersOK /\ AllWaitersOK => OwnerInherits
  BY WaitersInherit
<1> HIDE DEF AllWaitersOK
<1>4. OwnerInherits' /\ [KeepsHighest]_vars => [OwnerInherits' /\ KeepsHighest]_vars
  OBVIOUS
<1>5. QED
  BY <1>1, <1>2, <1>3, <1>4, MutexInvariance, MutexHighestRuns, PTL
     DEF Spec, RightThreadRuns, HighestRuns
=============================================================================
