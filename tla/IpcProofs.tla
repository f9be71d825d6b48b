----------------------------- MODULE IpcProofs -----------------------------
(***************************************************************************)
(* The wait list functions and the CPU of Ipc keep the kernel consistent.  *)
(* The modules of the IPC objects cite the lemmas for the steps they are   *)
(* made of.                                                                *)
(***************************************************************************)
EXTENDS Ipc, KernelProofs

(***************************************************************************)
(* The kernel is consistent, the scheduler unlocked, and the CPU is with a *)
(* ready thread, unless that thread has just suspended itself and is about *)
(* to call rt_schedule.  No thread ends, and none makes a call before it   *)
(* is started.                                                             *)
(***************************************************************************)
AboutToSchedule == {"sched", "take", "wait", "await", "read", "write"}

CpuInv ==
  /\ KernelInv(k, {})
  /\ k.lock_nest = 0
  /\ k.current_thread \in Thread
  /\ k.stat[k.current_thread] = "ready" \/ pc[k.current_thread] \in AboutToSchedule
  /\ \A t \in Thread : /\ k.stat[t] \in {"init", "ready", "suspend"}
                       /\ k.stat[t] = "init" => pc[t] = "run"

\* Without rt_thread_delete the lists hold the ready threads, as the
\* invariants of Ipc say.
LEMMA CpuInvImpliesIpcInvariants ==
  CpuInv => OneList /\ ReadyLists /\ GroupMatchesLists /\ WaitersAreSuspended
<1> SUFFICES ASSUME CpuInv
             PROVE  OneList /\ ReadyLists /\ GroupMatchesLists /\ WaitersAreSuspended
  OBVIOUS
<1>1. KernelInv(k, {}) /\ k \in KernelType
  BY DEF CpuInv, KernelInv
<1>2. OneList
  BY <1>1 DEF KernelInv, NoRepeats, Disjoint, OneList, Nodes
<1>3. ReadyLists
  BY <1>1 DEF KernelInv, ReadyAreListed, ReadyLists, Nodes
<1>4. GroupMatchesLists
  <2>1. \A p \in Prio : k.list[p] # << >> <=> Nodes(k, p) # {}
    BY <1>1, FirstThreadEffect DEF rt_list_isempty, ListHead
  <2>2. QED
    BY <1>1, <2>1 DEF KernelInv, GroupIsExact, GroupMatchesLists
<1>5. WaitersAreSuspended
  BY <1>1 DEF KernelInv, WaitersSuspended, WaitersAreSuspended, Nodes
<1>6. QED
  BY <1>2, <1>3, <1>4, <1>5

\* The initial kernel: the idle thread alone is ready.
LEMMA IpcInitEstablishesInv ==
  ASSUME IpcInit
  PROVE  CpuInv /\ \A h \in Queue : Nodes(k, h) = {}
<1> DEFINE top == PriorityMax - 1
<1>1. /\ Idle \in Thread /\ init_priority[Idle] = top /\ top \in Prio
      /\ init_priority \in [Thread -> Prio]
  BY IdleIsLowestThread, PriorityMaxIsPositive, InitPriorityType DEF Prio
<1>2. /\ top \notin Queue /\ top # Defunct
      /\ \A p \in Prio : p \in ListHead
  BY <1>1, HeadsAreDistinct DEF ListHead
<1> HIDE DEF top
<1>3. /\ \A h \in ListHead : k.list[h] = IF h = top THEN <<Idle>> ELSE << >>
      /\ k \in KernelType
  <2>1. << >> \in Seq(Thread) /\ <<Idle>> \in Seq(Thread)
    BY <1>1
  <2>2. QED
    BY <1>1, <2>1 DEF IpcInit, KernelType, Stat, Error, top
<1>4. /\ ToSet(<<Idle>>) = {Idle} /\ ToSet(<< >>) = {}
      /\ NoRepeat(<<Idle>>) /\ NoRepeat(<< >>)
  BY DEF ToSet, NoRepeat
<1>5. \A h \in ListHead : Nodes(k, h) = IF h = top THEN {Idle} ELSE {}
  BY <1>3, <1>4 DEF Nodes
<1>6. NoRepeats(k) /\ Disjoint(k)
  BY <1>3, <1>4, <1>5 DEF NoRepeats, Disjoint
<1>7. /\ k.stat = [t \in Thread |-> IF t = Idle THEN "ready" ELSE "init"]
      /\ k.current_priority = init_priority
      /\ k.number_mask = [t \in Thread |-> {init_priority[t]}]
      /\ k.timer = [t \in Thread |-> FALSE]
      /\ k.ready_group = {top} /\ k.lock_nest = 0 /\ k.current_thread = Idle
  BY DEF IpcInit, top
<1>8. ReadyAreListed(k, {}) /\ GroupIsExact(k)
  BY <1>1, <1>2, <1>5, <1>7 DEF ReadyAreListed, GroupIsExact
<1>9. MaskIsPriority(k) /\ WaitersSuspended(k)
  BY <1>1, <1>2, <1>5, <1>7 DEF MaskIsPriority, WaitersSuspended, ListHead
<1>10. QED
  BY <1>1, <1>2, <1>3, <1>5, <1>6, <1>7, <1>8, <1>9
     DEF CpuInv, KernelInv, ListHead, IpcInit

-----------------------------------------------------------------------------
(* Wait lists *)

\* No timer of these threads is started.
NoNewTimer(kk, u, S) == \A x \in S : u.timer[x] => kk.timer[x]

\* t has gone from its ready list to the wait list h.
PutToSleep(kk, u, h, t) ==
  /\ \A g \in Queue : Nodes(u, g) = IF g = h THEN Nodes(kk, g) \cup {t}
                                    ELSE Nodes(kk, g)
  /\ u.stat = [kk.stat EXCEPT ![t] = "suspend"]
  /\ SamePriorities(kk, u)
  /\ u.lock_nest = kk.lock_nest
  /\ u.current_thread = kk.current_thread

LEMMA ListSuspendKeepsInv ==
  ASSUME NEW kk, KernelInv(kk, {}), NEW h \in Queue, NEW t \in Thread \ {Idle},
         kk.stat[t] = "ready", NEW flag
  PROVE  LET u == rt_ipc_list_suspend(kk, h, t, flag)
         IN  /\ KernelInv(u, {})
             /\ PutToSleep(kk, u, h, t)
             /\ u.error = kk.error /\ NoNewTimer(kk, u, Thread)
<1> DEFINE s == rt_thread_suspend(kk, t)
           lower == LowerWaiters(s, h, t)
           i == CHOOSE i \in lower : \A j \in lower : i <= j
           u == rt_ipc_list_suspend(kk, h, t, flag)
<1>1. s = SuspendSection(kk, t)
  BY DEF rt_thread_suspend
<1>2. KernelInv(s, {}) /\ Suspended(kk, s, t)
  BY <1>1, SuspendKeepsInv
<1>3. /\ \A g \in Queue : t \notin Nodes(kk, g)
      /\ Queue \subseteq ListHead /\ h \in ListHead
      /\ kk.stat \in [Thread -> Stat]
  BY OwnReadyList DEF ListHead, KernelInv, KernelType
<1> HIDE DEF s
<1>4. /\ s \in KernelType /\ NoRepeats(s)
      /\ s.stat[t] = "suspend"
      /\ \A g \in ListHead : t \notin Nodes(s, g)
  BY <1>2, <1>3 DEF KernelInv, Suspended, TakenOff
<1>5. Queued(s, u, h, t)
  <2>1. CASE flag = "fifo" \/ lower = {}
    <3>1. u = LinkLast(s, h, t)
      BY <2>1 DEF rt_ipc_list_suspend, s
    <3>2. QED
      BY <1>3, <1>4, <3>1, LinkLastEffect DEF Queued
  <2>2. CASE ~(flag = "fifo" \/ lower = {})
    <3> DEFINE l   == InsertBeforeNode(s.list[h], i, t)
               new == [s.list EXCEPT ![h] = l]
    <3>1. u = [s EXCEPT !.list[h] = InsertBeforeNode(@, i, t)]
      BY <2>2 DEF rt_ipc_list_suspend, s
    <3>2. s.list[h] \in Seq(Thread) /\ NoRepeat(s.list[h])
      BY <1>3, <1>4 DEF KernelType, NoRepeats
    <3>3. i \in 1 .. Len(s.list[h])
      <4>1. DOMAIN s.list[h] = 1 .. Len(s.list[h])
        BY <3>2, LenProperties
      <4>2. lower \subseteq Nat /\ lower # {} /\ lower \subseteq DOMAIN s.list[h]
        BY <2>2, <4>1 DEF LowerWaiters
      <4> HIDE DEF lower
      <4>3. \E j \in lower : \A m \in lower : j <= m
        BY <4>2, NaturalMinimum
      <4>4. i \in lower
        BY <4>3
      <4>5. QED
        BY <4>1, <4>2, <4>4
    <3> HIDE DEF i, lower
    <3>4. i \in 1 .. Len(s.list[h]) + 1
      BY <3>2, <3>3, LenProperties
    <3>5. /\ l \in Seq(Thread)
          /\ ToSet(l) = ToSet(s.list[h]) \cup {t}
          /\ NoRepeat(l)
      BY <1>3, <1>4, <3>2, <3>4, InsertInFront DEF Nodes
    <3> HIDE DEF l
    <3>6. /\ s.list \in [ListHead -> Seq(Thread)]
          /\ new \in [ListHead -> Seq(Thread)]
          /\ \A g \in ListHead : new[g] = IF g = h THEN l ELSE s.list[g]
      BY <1>4, <3>5 DEF KernelType
    <3>7. u = [s EXCEPT !.list = new]
      BY <1>4, <3>1 DEF KernelType, l
    <3> HIDE DEF new, u
    <3>8. u \in KernelType /\ u.list = new /\ u = [s EXCEPT !.list = u.list]
      BY <1>4, <3>6, <3>7 DEF KernelType
    <3>9. NoRepeats(u)
      BY <1>4, <3>5, <3>6, <3>8 DEF NoRepeats
    <3>10. \A g \in ListHead :
             Nodes(u, g) = IF g = h THEN Nodes(s, g) \cup {t} ELSE Nodes(s, g)
      BY <3>5, <3>6, <3>8 DEF Nodes
    <3>11. QED
      BY <3>8, <3>9, <3>10 DEF Queued
  <2>3. QED
    BY <2>1, <2>2
<1> HIDE DEF u
<1>6. /\ KernelInv(u, {})
      /\ u.stat = s.stat /\ u.timer = s.timer /\ u.error = s.error
      /\ SamePriorities(s, u)
      /\ u.current_thread = s.current_thread
      /\ u.lock_nest = s.lock_nest
  BY <1>2, <1>4, <1>5, QueueKeepsInv
<1>7. \A g \in Queue : Nodes(s, g) = Nodes(kk, g)
  <2> SUFFICES ASSUME NEW g \in Queue
               PROVE  Nodes(s, g) = Nodes(kk, g)
    OBVIOUS
  <2>1. t \notin Nodes(kk, g) /\ Nodes(s, g) = Nodes(kk, g) \ {t}
    BY <1>2, <1>3 DEF Suspended, TakenOff
  <2>2. QED
    BY <2>1
<1>8. PutToSleep(kk, u, h, t)
  BY <1>2, <1>3, <1>5, <1>6, <1>7
     DEF PutToSleep, Suspended, Queued, SamePriorities
<1>9. NoNewTimer(kk, u, Thread)
  BY <1>2, <1>6 DEF Suspended, NoNewTimer, KernelInv, KernelType
<1>10. QED
  BY <1>2, <1>6, <1>8, <1>9 DEF Suspended, u

\* The whole wait of a call: error reset, suspended, queued, timer started.
\* What Wait does to the state kk.
Waiting(kk, u, h, t, time) ==
  /\ KernelInv(u, {})
  /\ PutToSleep(kk, u, h, t)
  /\ u.error = [kk.error EXCEPT ![t] = "ok"]
  /\ NoNewTimer(kk, u, Thread \ {t})
  /\ time # "ticks" => NoNewTimer(kk, u, Thread)

LEMMA WaitPutsToSleep ==
  ASSUME NEW kk, KernelInv(kk, {}), NEW h \in Queue, NEW t \in Thread \ {Idle},
         kk.stat[t] = "ready", NEW flag, NEW time
  PROVE  Waiting(kk, Wait(kk, h, t, flag, time), h, t, time)
<1> DEFINE e == SetError(kk, t, "ok")
           s == rt_ipc_list_suspend(e, h, t, flag)
           u == Wait(kk, h, t, flag, time)
<1>1. kk \in KernelType /\ "ok" \in Error
  BY DEF KernelInv, Error
<1>2. /\ KernelInv(e, {})
      /\ e = [kk EXCEPT !.error = [kk.error EXCEPT ![t] = "ok"]]
      /\ \A g : Nodes(e, g) = Nodes(kk, g)
  BY <1>1, ErrorKeepsInv
<1> HIDE DEF e
<1>3. /\ e.stat = kk.stat /\ e.error = [kk.error EXCEPT ![t] = "ok"]
      /\ SamePriorities(kk, e) /\ e.lock_nest = kk.lock_nest
      /\ e.current_thread = kk.current_thread /\ e.timer = kk.timer
  BY <1>1, <1>2 DEF KernelType, SamePriorities
<1>4. /\ KernelInv(s, {}) /\ PutToSleep(e, s, h, t)
      /\ s.error = e.error /\ NoNewTimer(e, s, Thread)
  <2>1. KernelInv(e, {}) /\ e.stat[t] = "ready"
    BY <1>2, <1>3
  <2>2. QED
    BY <2>1, ListSuspendKeepsInv
<1> HIDE DEF s
<1>5. PutToSleep(kk, s, h, t)
  BY <1>2, <1>3, <1>4 DEF PutToSleep, SamePriorities
<1>6. CASE time = "ticks"
  <2> DEFINE v == StartTimer(s, t)
  <2>1. s.stat[t] = "suspend" /\ s \in KernelType
    BY <1>1, <1>4, <1>5 DEF PutToSleep, KernelType, KernelInv
  <2>2. /\ KernelInv(v, {})
        /\ v = [s EXCEPT !.timer = [s.timer EXCEPT ![t] = TRUE]]
        /\ \A g : Nodes(v, g) = Nodes(s, g)
    BY <1>4, <2>1, StartTimerKeepsInv
  <2> HIDE DEF v
  <2>3. /\ v.stat = s.stat /\ v.error = s.error
        /\ SamePriorities(s, v) /\ v.lock_nest = s.lock_nest
        /\ v.current_thread = s.current_thread
    BY <2>1, <2>2 DEF KernelType, SamePriorities
  <2>4. PutToSleep(kk, v, h, t)
    BY <1>5, <2>2, <2>3 DEF PutToSleep, SamePriorities
  <2>5. u = v
    BY <1>6 DEF Wait, v, s, e
  <2>6. NoNewTimer(kk, v, Thread \ {t})
    BY <1>3, <1>4, <2>1, <2>2 DEF NoNewTimer, KernelType
  <2>7. QED
    BY <1>3, <1>6, <1>4, <2>2, <2>3, <2>4, <2>5, <2>6 DEF Waiting
<1>7. CASE time # "ticks"
  <2>1. u = s
    BY <1>7 DEF Wait, s, e
  <2>2. QED
    BY <1>3, <1>4, <1>5, <2>1 DEF NoNewTimer, Waiting
<1>8. QED
  BY <1>6, <1>7

LEMMA WaitKeepsInv ==
  ASSUME NEW kk, KernelInv(kk, {}), NEW h \in Queue, NEW t \in Thread \ {Idle},
         kk.stat[t] = "ready", NEW flag, NEW time
  PROVE  LET u == Wait(kk, h, t, flag, time)
         IN  /\ KernelInv(u, {})
             /\ PutToSleep(kk, u, h, t)
             /\ u.error = [kk.error EXCEPT ![t] = "ok"]
             /\ time # "ticks" => NoNewTimer(kk, u, Thread)
<1> DEFINE u == Wait(kk, h, t, flag, time)
<1>1. Waiting(kk, u, h, t, time)
  BY WaitPutsToSleep
<1> HIDE DEF u
<1>2. /\ KernelInv(u, {}) /\ PutToSleep(kk, u, h, t)
      /\ u.error = [kk.error EXCEPT ![t] = "ok"]
      /\ time # "ticks" => NoNewTimer(kk, u, Thread)
  BY <1>1 DEF Waiting
<1> QED BY <1>2 DEF u

\* The wait of the objects that link their waiters in front of the list:
\* error reset, suspended, linked, timer started.
WaitInFront(kk, h, t, time) ==
  LET s == LinkFirst(rt_thread_suspend(SetError(kk, t, "ok"), t), h, t)
  IN  IF time = "ticks" THEN StartTimer(s, t) ELSE s

LEMMA WaitInFrontKeepsInv ==
  ASSUME NEW kk, KernelInv(kk, {}), NEW h \in Queue, NEW t \in Thread \ {Idle},
         kk.stat[t] = "ready", NEW time
  PROVE  LET u == WaitInFront(kk, h, t, time)
         IN  /\ KernelInv(u, {})
             /\ PutToSleep(kk, u, h, t)
             /\ u.error = [kk.error EXCEPT ![t] = "ok"]
<1> DEFINE e == SetError(kk, t, "ok")
           r == rt_thread_suspend(e, t)
           s == LinkFirst(r, h, t)
           u == WaitInFront(kk, h, t, time)
<1>1. kk \in KernelType /\ "ok" \in Error /\ h \in ListHead /\ Queue \subseteq ListHead
  BY DEF KernelInv, Error, ListHead
<1>2. /\ KernelInv(e, {})
      /\ e = [kk EXCEPT !.error = [kk.error EXCEPT ![t] = "ok"]]
      /\ \A g : Nodes(e, g) = Nodes(kk, g)
  BY <1>1, ErrorKeepsInv
<1> HIDE DEF e
<1>3. /\ e.stat = kk.stat /\ e.error = [kk.error EXCEPT ![t] = "ok"]
      /\ SamePriorities(kk, e) /\ e.lock_nest = kk.lock_nest
      /\ e.current_thread = kk.current_thread
  BY <1>1, <1>2 DEF KernelType, SamePriorities
<1>4. KernelInv(r, {}) /\ Suspended(e, r, t)
  <2>1. KernelInv(e, {}) /\ e.stat[t] = "ready" /\ t \notin {}
    BY <1>2, <1>3
  <2>2. KernelInv(SuspendSection(e, t), {}) /\ Suspended(e, SuspendSection(e, t), t)
    BY <2>1, SuspendKeepsInv
  <2>3. r = SuspendSection(e, t)
    BY <2>1 DEF rt_thread_suspend
  <2>4. QED
    BY <2>2, <2>3
<1>5. \A g \in Queue : t \notin Nodes(kk, g)
  BY OwnReadyList
<1> HIDE DEF r
<1>6. /\ r \in KernelType /\ NoRepeats(r) /\ r.stat[t] = "suspend"
      /\ \A g \in ListHead : t \notin Nodes(r, g)
  BY <1>1, <1>3, <1>4 DEF KernelInv, KernelType, Suspended, TakenOff
<1>7. Queued(r, s, h, t)
  BY <1>1, <1>6, LinkFirstEffect DEF Queued
<1> HIDE DEF s
<1>8. /\ KernelInv(s, {})
      /\ s.stat = r.stat /\ s.error = r.error /\ SamePriorities(r, s)
      /\ s.current_thread = r.current_thread /\ s.lock_nest = r.lock_nest
  BY <1>4, <1>6, <1>7, QueueKeepsInv
<1>9. \A g \in Queue : Nodes(r, g) = Nodes(kk, g)
  <2> SUFFICES ASSUME NEW g \in Queue
               PROVE  Nodes(r, g) = Nodes(kk, g)
    OBVIOUS
  <2>1. Nodes(r, g) = Nodes(e, g) \ {t} /\ Nodes(e, g) = Nodes(kk, g)
    BY <1>1, <1>2, <1>4 DEF Suspended, TakenOff
  <2>2. QED
    BY <1>5, <2>1
<1>10. PutToSleep(kk, s, h, t)
  BY <1>1, <1>3, <1>4, <1>7, <1>8, <1>9
     DEF PutToSleep, Suspended, Queued, SamePriorities
<1>11. s.error = [kk.error EXCEPT ![t] = "ok"] /\ s.stat[t] = "suspend"
  BY <1>3, <1>4, <1>6, <1>8 DEF Suspended
<1>12. CASE time = "ticks"
  <2> DEFINE v == StartTimer(s, t)
  <2>1. s \in KernelType
    BY <1>8 DEF KernelInv
  <2>2. /\ KernelInv(v, {})
        /\ v = [s EXCEPT !.timer = [s.timer EXCEPT ![t] = TRUE]]
        /\ \A g : Nodes(v, g) = Nodes(s, g)
    BY <1>8, <1>11, StartTimerKeepsInv
  <2> HIDE DEF v
  <2>3. /\ v.stat = s.stat /\ v.error = s.error
        /\ SamePriorities(s, v) /\ v.lock_nest = s.lock_nest
        /\ v.current_thread = s.current_thread
    BY <2>1, <2>2 DEF KernelType, SamePriorities
  <2>4. PutToSleep(kk, v, h, t)
    BY <1>10, <2>2, <2>3 DEF PutToSleep, SamePriorities
  <2>5. u = v
    BY <1>12 DEF v, WaitInFront, e, r, s
  <2>6. QED
    BY <1>11, <2>2, <2>3, <2>4, <2>5
<1>13. CASE time # "ticks"
  <2>1. u = s
    BY <1>13 DEF WaitInFront, e, r, s
  <2>2. QED
    BY <1>8, <1>10, <1>11, <2>1
<1>14. QED
  BY <1>12, <1>13

\* t has left every wait list and is ready.
WokenUp(kk, u, t) ==
  /\ \A g \in Queue : Nodes(u, g) = Nodes(kk, g) \ {t}
  /\ u.stat = [kk.stat EXCEPT ![t] = "ready"]
  /\ SamePriorities(kk, u)
  /\ u.lock_nest = kk.lock_nest
  /\ u.current_thread = kk.current_thread
  /\ NoNewTimer(kk, u, Thread)

LEMMA ResumedIsWokenUp ==
  ASSUME NEW kk, KernelInv(kk, {}), NEW u, NEW t \in Thread, HasResumed(kk, u, t)
  PROVE  WokenUp(kk, u, t)
<1>1. /\ Queue \subseteq ListHead /\ kk.current_priority[t] \notin Queue
  BY HeadsAreDistinct, OwnReadyList DEF ListHead
<1>2. \A g \in Queue : Nodes(u, g) = Nodes(kk, g) \ {t}
  BY <1>1 DEF HasResumed, MadeReady
<1>3. NoNewTimer(kk, u, Thread)
  BY DEF HasResumed, NoNewTimer, KernelInv, KernelType
<1>4. QED
  BY <1>2, <1>3 DEF HasResumed, WokenUp

\* A change of priority leaves the wait lists as they are, order included.
LEMMA ChangePriorityKeepsQueues ==
  ASSUME NEW kk, KernelInv(kk, {}), NEW t \in Thread, NEW p \in Prio
  PROVE  \A h \in Queue : ChangePriority(kk, t, p).list[h] = kk.list[h]
<1> SUFFICES ASSUME NEW h \in Queue
             PROVE  ChangePriority(kk, t, p).list[h] = kk.list[h]
  OBVIOUS
<1>1. kk \in KernelType /\ h \in ListHead /\ p \in ListHead /\ h # p
  BY HeadsAreDistinct DEF KernelInv, ListHead
<1>2. CASE kk.stat[t] # "ready"
  BY <1>1, <1>2 DEF ChangePriority, SetPriority, KernelType
<1>3. CASE kk.stat[t] = "ready"
  <2> DEFINE a == rt_schedule_remove_thread(kk, t)
             b == SetPriority(a, t, p)
  <2>1. t \notin ToSet(kk.list[h])
    BY <1>3, OwnReadyList DEF Nodes
  <2>2. /\ a.list = [g \in ListHead |-> rt_list_remove(kk.list[g], t)]
        /\ a.current_priority = kk.current_priority
    BY <1>1 DEF rt_schedule_remove_thread, Unlink, KernelType
  <2>3. a.list[h] = kk.list[h]
    BY <1>1, <2>1, <2>2 DEF rt_list_remove
  <2>4. /\ b.list = a.list
        /\ b.current_priority = [kk.current_priority EXCEPT ![t] = p]
    BY <1>1, <2>2 DEF SetPriority, rt_schedule_remove_thread, Unlink, KernelType
  <2>5. b.current_priority[t] = p
    BY <1>1, <2>4 DEF KernelType
  <2> HIDE DEF b
  <2>6. rt_schedule_insert_thread(b, t).list = LinkLast(b, p, t).list
    BY <2>5 DEF rt_schedule_insert_thread, LinkLast
  <2>7. LinkLast(b, p, t).list[h] = b.list[h]
    BY <1>1, <2>2, <2>4 DEF LinkLast
  <2>8. QED
    BY <1>3, <2>3, <2>4, <2>6, <2>7 DEF ChangePriority, b
<1>4. QED
  BY <1>2, <1>3

\* The first waiter of a list that is not empty.
LEMMA FirstWaiter ==
  ASSUME NEW kk, KernelInv(kk, {}), NEW h \in Queue,
         ~rt_list_isempty(kk.list[h])
  PROVE  /\ FirstThread(kk, h) \in Thread
         /\ FirstThread(kk, h) \in Nodes(kk, h)
         /\ kk.stat[FirstThread(kk, h)] = "suspend"
<1>1. kk \in KernelType /\ WaitersSuspended(kk) /\ h \in ListHead
  BY DEF KernelInv, ListHead
<1>2. FirstThread(kk, h) \in Nodes(kk, h) /\ Nodes(kk, h) \subseteq Thread
  BY <1>1, FirstThreadEffect
<1>3. QED
  BY <1>1, <1>2 DEF WaitersSuspended

LEMMA ListResumeKeepsInv ==
  ASSUME NEW kk, KernelInv(kk, {}), NEW h \in Queue,
         ~rt_list_isempty(kk.list[h])
  PROVE  LET u == rt_ipc_list_resume(kk, h)
             t == FirstThread(kk, h)
         IN  /\ KernelInv(u, {}) /\ WokenUp(kk, u, t)
             /\ u.error = kk.error
<1> DEFINE t == FirstThread(kk, h)
           u == rt_thread_resume(kk, t)
<1>1. t \in Thread /\ kk.stat[t] = "suspend"
  BY FirstWaiter
<1> HIDE DEF t
<1>2. KernelInv(u, {}) /\ HasResumed(kk, u, t)
  BY <1>1, ResumeKeepsInv
<1> HIDE DEF u
<1>3. WokenUp(kk, u, t) /\ u.error = kk.error
  BY <1>1, <1>2, ResumedIsWokenUp DEF HasResumed
<1>4. QED
  BY <1>2, <1>3 DEF rt_ipc_list_resume, u, t

LEMMA ResumeWithErrorKeepsInv ==
  ASSUME NEW kk, KernelInv(kk, {}), NEW h \in Queue,
         ~rt_list_isempty(kk.list[h])
  PROVE  LET u == ResumeWithError(kk, h)
             t == FirstThread(kk, h)
         IN  /\ KernelInv(u, {}) /\ WokenUp(kk, u, t)
             /\ u.error = [kk.error EXCEPT ![t] = "error"]
<1> DEFINE t == FirstThread(kk, h)
           e == SetError(kk, t, "error")
           u == rt_thread_resume(e, t)
<1>1. t \in Thread /\ kk.stat[t] = "suspend"
  BY FirstWaiter
<1> HIDE DEF t
<1>2. kk \in KernelType /\ "error" \in Error
  BY DEF KernelInv, Error
<1>3. /\ KernelInv(e, {})
      /\ e = [kk EXCEPT !.error = [kk.error EXCEPT ![t] = "error"]]
      /\ \A g : Nodes(e, g) = Nodes(kk, g)
  BY <1>2, ErrorKeepsInv
<1> HIDE DEF e
<1>4. /\ e.stat = kk.stat /\ e.error = [kk.error EXCEPT ![t] = "error"]
      /\ SamePriorities(kk, e) /\ e.lock_nest = kk.lock_nest
      /\ e.current_thread = kk.current_thread /\ e.timer = kk.timer
  BY <1>2, <1>3 DEF KernelType, SamePriorities
<1>5. KernelInv(u, {}) /\ HasResumed(e, u, t)
  <2>1. KernelInv(e, {}) /\ e.stat[t] = "suspend" /\ t \notin {}
    BY <1>1, <1>3, <1>4
  <2>2. QED
    BY <1>1, <2>1, ResumeKeepsInv
<1> HIDE DEF u
<1>6. WokenUp(e, u, t) /\ u.error = e.error
  BY <1>1, <1>3, <1>5, ResumedIsWokenUp DEF HasResumed
<1>7. WokenUp(kk, u, t)
  BY <1>3, <1>4, <1>6 DEF WokenUp, SamePriorities, NoNewTimer
<1>8. QED
  BY <1>4, <1>5, <1>6, <1>7 DEF ResumeWithError, u, e, t

-----------------------------------------------------------------------------
(* The CPU *)

Sleepers(kk) == {t \in Thread : kk.stat[t] = "suspend"}

\* Nobody enters or leaves a wait list, or falls asleep or wakes up there.
SameWaiters(kk, u) ==
  /\ \A g \in Queue : Nodes(u, g) = Nodes(kk, g)
  /\ Sleepers(u) = Sleepers(kk)
  /\ u.error = kk.error
  /\ NoNewTimer(kk, u, Thread)

\* The thread that has the CPU is of the highest ready priority.
HighestHasCpu(kk) ==
  \A p \in kk.ready_group : kk.current_priority[kk.current_thread] <= p

\* rt_schedule leaves a ready thread with the CPU.
LEMMA ScheduleGivesCpu ==
  ASSUME NEW kk, KernelInv(kk, {}), kk.lock_nest = 0
  PROVE  LET u == rt_schedule(kk)
         IN  /\ KernelInv(u, {}) /\ Switched(kk, u)
             /\ u.current_thread \in Thread
             /\ u.stat[u.current_thread] = "ready"
             /\ SameWaiters(kk, u) /\ HighestHasCpu(u)
<1> DEFINE u == rt_schedule(kk)
           new == HighestReady(kk)
<1>1. KernelInv(u, {}) /\ Switched(kk, u)
  BY ScheduleKeepsInv
<1>2. /\ new \in Thread /\ kk.stat[new] = "ready"
      /\ \A p \in kk.ready_group : kk.current_priority[new] <= p
  BY ScheduleSelects
<1>3. u.current_thread = new
  BY DEF rt_schedule, KernelInv, KernelType
<1> HIDE DEF u, new
<1>4. SameWaiters(kk, u)
  BY <1>1 DEF Switched, SameWaiters, SameNodes, Sleepers, ListHead, NoNewTimer
<1>5. u.stat[u.current_thread] = "ready"
  BY <1>1, <1>2, <1>3 DEF Switched
<1>6. HighestHasCpu(u)
  BY <1>1, <1>2, <1>3 DEF Switched, SamePriorities, HighestHasCpu
<1>7. QED
  BY <1>1, <1>2, <1>3, <1>4, <1>5, <1>6 DEF u

\* A thread starts: it is ready, and the highest ready thread gets the CPU.
LEMMA StartupStep ==
  ASSUME CpuInv, NEW t \in Thread, Startup(t)
  PROVE  /\ CpuInv' /\ SameWaiters(k, k') /\ UNCHANGED pc
         /\ k.stat[t] = "init" /\ k'.stat = [k.stat EXCEPT ![t] = "ready"]
         /\ k'.current_priority =
              [k.current_priority EXCEPT ![t] = init_priority[t]]
         /\ HighestHasCpu(k')
<1> DEFINE a == [SetPriority(k, t, init_priority[t]) EXCEPT !.stat[t] = "suspend"]
           r == rt_thread_resume(a, t)
           u == rt_schedule(r)
<1>1. KernelInv(k, {}) /\ k.lock_nest = 0 /\ k.stat[t] = "init"
      /\ k' = u /\ pc' = pc /\ k \in KernelType
  BY DEF CpuInv, Startup, KernelInv
<1>2. /\ KernelInv(a, {}) /\ SameNodes(k, a)
      /\ a.stat = [k.stat EXCEPT ![t] = "suspend"]
      /\ a.error = k.error /\ a.lock_nest = k.lock_nest /\ a.timer = k.timer
      /\ a.current_priority =
           [k.current_priority EXCEPT ![t] = init_priority[t]]
  BY <1>1, StartupKeepsInv
<1> HIDE DEF a
<1>3. KernelInv(a, {}) /\ a.stat[t] = "suspend" /\ t \notin {}
  BY <1>1, <1>2 DEF KernelType
<1>4. KernelInv(r, {}) /\ HasResumed(a, r, t)
  BY <1>3, ResumeKeepsInv
<1> HIDE DEF r
<1>5. WokenUp(a, r, t) /\ r.error = a.error /\ r.lock_nest = 0
  BY <1>1, <1>2, <1>3, <1>4, ResumedIsWokenUp DEF HasResumed
<1>6. /\ KernelInv(u, {}) /\ Switched(r, u)
      /\ u.current_thread \in Thread
      /\ u.stat[u.current_thread] = "ready"
      /\ SameWaiters(r, u) /\ HighestHasCpu(u)
  BY <1>4, <1>5, ScheduleGivesCpu
<1> HIDE DEF u
<1>7. /\ k'.stat = [k.stat EXCEPT ![t] = "ready"]
      /\ k'.current_priority = a.current_priority
  BY <1>1, <1>2, <1>5, <1>6 DEF WokenUp, Switched, SamePriorities, KernelType
<1>8. \A g \in Queue : t \notin Nodes(k, g)
  BY <1>1, OwnReadyList
<1>9. \A g \in Queue : Nodes(r, g) = Nodes(k, g)
  <2>1. \A g \in Queue : Nodes(r, g) = Nodes(a, g) \ {t}
    BY <1>5 DEF WokenUp
  <2>2. \A g \in Queue : Nodes(a, g) = Nodes(k, g)
    BY <1>2 DEF SameNodes, ListHead
  <2>3. QED
    BY <1>8, <2>1, <2>2
<1>10. Sleepers(r) = Sleepers(k)
  BY <1>1, <1>2, <1>5 DEF WokenUp, Sleepers, KernelType
<1>11. SameWaiters(k, k')
  BY <1>1, <1>2, <1>5, <1>6, <1>9, <1>10 DEF SameWaiters, WokenUp, NoNewTimer
<1>12. CpuInv'
  <2>1. \A s \in Thread : /\ k.stat[s] \in {"init", "ready", "suspend"}
                          /\ k.stat[s] = "init" => pc[s] = "run"
    BY DEF CpuInv
  <2>2. \A s \in Thread : /\ k'.stat[s] \in {"init", "ready", "suspend"}
                          /\ k'.stat[s] = "init" => pc'[s] = "run"
    BY <1>1, <1>7, <2>1 DEF KernelType
  <2>3. k'.lock_nest = 0
    BY <1>1, <1>5, <1>6 DEF Switched
  <2>4. QED
    BY <1>1, <1>6, <2>2, <2>3 DEF CpuInv
<1>13. QED
  BY <1>1, <1>2, <1>6, <1>7, <1>11, <1>12

\* The end of a time slice.
LEMMA TickStep ==
  ASSUME CpuInv, Tick
  PROVE  /\ CpuInv' /\ SameWaiters(k, k') /\ UNCHANGED <<pc, k.stat>>
         /\ SamePriorities(k, k') /\ HighestHasCpu(k')
<1> DEFINE t == k.current_thread
           y == YieldSection(k, t)
           u == rt_schedule(y)
<1>1. /\ KernelInv(k, {}) /\ k.lock_nest = 0 /\ t \in Thread /\ t \notin {}
      /\ k.stat[t] = "ready" /\ k' = u /\ pc' = pc
  BY DEF CpuInv, Tick, YieldMoves, self
<1> HIDE DEF t
<1>2. /\ KernelInv(y, {})
      /\ SameNodes(k, y)
      /\ y.stat = k.stat /\ y.error = k.error /\ y.timer = k.timer
      /\ y.lock_nest = k.lock_nest /\ SamePriorities(k, y)
  BY <1>1, YieldKeepsInv
<1> HIDE DEF y
<1>3. /\ KernelInv(u, {}) /\ Switched(y, u)
      /\ u.current_thread \in Thread
      /\ u.stat[u.current_thread] = "ready"
      /\ SameWaiters(y, u) /\ HighestHasCpu(u)
  BY <1>1, <1>2, ScheduleGivesCpu
<1> HIDE DEF u
<1>4. SameWaiters(k, y)
  BY <1>2 DEF SameWaiters, SameNodes, Sleepers, ListHead, NoNewTimer
<1>5. QED
  BY <1>1, <1>2, <1>3, <1>4
     DEF CpuInv, SameWaiters, Switched, SamePriorities, NoNewTimer

\* The timer of a sleeping thread is due: it is woken with an error.
LEMMA TimerCheckStep ==
  ASSUME CpuInv, NEW t \in Thread, TimerCheck(t)
  PROVE  /\ CpuInv' /\ UNCHANGED pc
         /\ t \in Sleepers(k)
         /\ \A g \in Queue : Nodes(k', g) = Nodes(k, g) \ {t}
         /\ k'.stat = [k.stat EXCEPT ![t] = "ready"]
         /\ k'.error = [k.error EXCEPT ![t] = "timeout"]
         /\ SamePriorities(k, k') /\ HighestHasCpu(k')
         /\ k.timer[t] /\ NoNewTimer(k, k', Thread)
<1> DEFINE e == SetError(k, t, "timeout")
           r == rt_thread_resume(e, t)
           u == rt_schedule(r)
<1>1. /\ KernelInv(k, {}) /\ k.lock_nest = 0 /\ k.timer[t]
      /\ k' = rt_thread_timeout(k, t) /\ pc' = pc
      /\ k \in KernelType /\ "timeout" \in Error
  BY DEF CpuInv, TimerCheck, KernelInv, Error
<1>2. k.stat[t] = "suspend"
  BY <1>1 DEF KernelInv, WaitersSuspended
<1>3. k' = u
  BY <1>1, <1>2, TimeoutIsResume
<1>4. /\ KernelInv(e, {})
      /\ e = [k EXCEPT !.error = [k.error EXCEPT ![t] = "timeout"]]
      /\ \A h : Nodes(e, h) = Nodes(k, h)
  BY <1>1, ErrorKeepsInv
<1> HIDE DEF e
<1>5. /\ e.stat = k.stat /\ e.lock_nest = 0 /\ SamePriorities(k, e)
      /\ e.timer = k.timer
      /\ e.error = [k.error EXCEPT ![t] = "timeout"]
  BY <1>1, <1>4 DEF KernelType, SamePriorities
<1>6. KernelInv(e, {}) /\ e.stat[t] = "suspend" /\ t \notin {}
  BY <1>2, <1>4, <1>5
<1>7. KernelInv(r, {}) /\ HasResumed(e, r, t)
  BY <1>6, ResumeKeepsInv
<1> HIDE DEF r
<1>8. WokenUp(e, r, t) /\ r.error = e.error /\ r.lock_nest = 0
  BY <1>5, <1>6, <1>7, ResumedIsWokenUp DEF HasResumed
<1>9. /\ KernelInv(u, {}) /\ Switched(r, u)
      /\ u.current_thread \in Thread
      /\ u.stat[u.current_thread] = "ready"
      /\ SameWaiters(r, u) /\ HighestHasCpu(u)
  BY <1>7, <1>8, ScheduleGivesCpu
<1> HIDE DEF u
<1>10. k'.stat = [k.stat EXCEPT ![t] = "ready"]
  BY <1>3, <1>5, <1>8, <1>9 DEF WokenUp, Switched
<1>11. CpuInv'
  <2>1. \A s \in Thread : /\ k.stat[s] \in {"init", "ready", "suspend"}
                          /\ k.stat[s] = "init" => pc[s] = "run"
    BY DEF CpuInv
  <2>2. \A s \in Thread : /\ k'.stat[s] \in {"init", "ready", "suspend"}
                          /\ k'.stat[s] = "init" => pc'[s] = "run"
    BY <1>1, <1>10, <2>1 DEF KernelType
  <2>3. QED
    BY <1>3, <1>8, <1>9, <2>2 DEF CpuInv, Switched
<1>12. NoNewTimer(k, k', Thread)
  BY <1>3, <1>5, <1>8, <1>9 DEF WokenUp, Switched, NoNewTimer
<1>13. QED
  BY <1>1, <1>2, <1>3, <1>4, <1>5, <1>8, <1>9, <1>10, <1>11, <1>12
     DEF WokenUp, SameWaiters, Switched, Sleepers, SamePriorities

\* The running thread is a ready one where it is not about to schedule.
LEMMA RunnerIsReady ==
  ASSUME CpuInv, NEW label, At(label), label \notin AboutToSchedule
  PROVE  self \in Thread \ {Idle} /\ k.stat[self] = "ready" /\ pc[self] = label
BY DEF CpuInv, At, self

\* The running thread goes to sleep for a while.
LEMMA DelayStep ==
  ASSUME CpuInv, NEW S, pc \in [Thread -> S], Delay
  PROVE  /\ CpuInv'
         /\ \A g \in Queue : Nodes(k', g) = Nodes(k, g)
         /\ Sleepers(k') = Sleepers(k) \cup {self}
         /\ k'.error = k.error /\ SamePriorities(k, k')
         /\ k'.stat = [k.stat EXCEPT ![self] = "suspend"]
         /\ NoNewTimer(k, k', Thread \ {self})
         /\ pc[self] = "run" /\ self \in Thread \ {Idle}
         /\ self \notin Sleepers(k)
         /\ pc' = [pc EXCEPT ![self] = "sched"]
<1> DEFINE t == k.current_thread
           s == SuspendSection(k, t)
           u == StartTimer(s, t)
<1>1. /\ KernelInv(k, {}) /\ k.lock_nest = 0 /\ k \in KernelType
      /\ t \in Thread \ {Idle} /\ k.stat[t] = "ready" /\ pc[t] = "run"
  <2>1. "run" \notin AboutToSchedule /\ At("run")
    BY DEF AboutToSchedule, Delay
  <2>2. QED
    BY <2>1, RunnerIsReady DEF CpuInv, KernelInv, self
<1>2. k' = u /\ pc' = [pc EXCEPT ![t] = "sched"]
  BY <1>1 DEF Delay, rt_thread_suspend, Goto, self
<1> HIDE DEF t
<1>3. t \notin {} /\ t \in Thread /\ t # Idle
  BY <1>1
<1>4. KernelInv(s, {}) /\ Suspended(k, s, t)
  BY <1>1, <1>3, SuspendKeepsInv
<1> HIDE DEF s
<1>5. s \in KernelType /\ s.stat[t] = "suspend"
  BY <1>1, <1>4 DEF Suspended, KernelInv, KernelType
<1>6. /\ KernelInv(u, {})
      /\ u = [s EXCEPT !.timer = [s.timer EXCEPT ![t] = TRUE]]
      /\ \A g : Nodes(u, g) = Nodes(s, g)
  BY <1>3, <1>4, <1>5, StartTimerKeepsInv
<1> HIDE DEF u
<1>7. /\ u.stat = s.stat /\ u.error = s.error /\ u.lock_nest = s.lock_nest
      /\ u.current_thread = s.current_thread /\ SamePriorities(s, u)
  BY <1>5, <1>6 DEF KernelType, SamePriorities
<1>8. \A g \in Queue : t \notin Nodes(k, g)
  BY <1>1, OwnReadyList
<1>9. \A g \in Queue : Nodes(u, g) = Nodes(k, g)
  <2> SUFFICES ASSUME NEW g \in Queue
               PROVE  Nodes(u, g) = Nodes(k, g)
    OBVIOUS
  <2>1. Nodes(u, g) = Nodes(k, g) \ {t}
    BY <1>4, <1>6 DEF Suspended, TakenOff, ListHead
  <2>2. QED
    BY <1>8, <2>1
<1>10. /\ Sleepers(u) = Sleepers(k) \cup {t} /\ t \notin Sleepers(k)
       /\ u.stat = [k.stat EXCEPT ![t] = "suspend"]
  BY <1>1, <1>4, <1>7 DEF Suspended, Sleepers, KernelType
<1>11. /\ u.error = k.error /\ u.lock_nest = 0
       /\ u.current_thread = t /\ SamePriorities(k, u)
  BY <1>1, <1>4, <1>7 DEF Suspended, SamePriorities, t
<1>12. CpuInv'
  <2>1. \A x \in Thread : /\ k.stat[x] \in {"init", "ready", "suspend"}
                          /\ k.stat[x] = "init" => pc[x] = "run"
    BY DEF CpuInv
  <2>2. \A x \in Thread : /\ k'.stat[x] \in {"init", "ready", "suspend"}
                          /\ k'.stat[x] = "init" => pc'[x] = "run"
    BY <1>1, <1>2, <1>10, <2>1 DEF KernelType
  <2>3. QED
    BY <1>1, <1>2, <1>6, <1>11, <2>2 DEF CpuInv, AboutToSchedule
<1>13. NoNewTimer(k, k', Thread \ {t})
  <2>1. \A x \in Thread \ {t} : u.timer[x] => k.timer[x]
    BY <1>1, <1>4, <1>5, <1>6 DEF Suspended, KernelType
  <2>2. QED
    BY <1>2, <2>1 DEF NoNewTimer
<1>14. t = self
  BY DEF t, self
<1>15. QED
  BY <1>1, <1>2, <1>9, <1>10, <1>11, <1>12, <1>13, <1>14

\* rt_schedule at a label of its own.
LEMMA ScheduleAtStep ==
  ASSUME CpuInv, NEW S, pc \in [Thread -> S], NEW label, NEW next,
         ScheduleAt(label, next)
  PROVE  /\ CpuInv' /\ SameWaiters(k, k') /\ k'.stat = k.stat
         /\ SamePriorities(k, k') /\ HighestHasCpu(k')
         /\ pc[self] = label /\ self \in Thread \ {Idle}
         /\ pc' = [pc EXCEPT ![self] = next]
<1>1. /\ KernelInv(k, {}) /\ k.lock_nest = 0
      /\ k' = rt_schedule(k)
  BY DEF CpuInv, ScheduleAt
<1>2. /\ KernelInv(k', {}) /\ Switched(k, k')
      /\ k'.current_thread \in Thread
      /\ k'.stat[k'.current_thread] = "ready"
      /\ SameWaiters(k, k') /\ HighestHasCpu(k')
  BY <1>1, ScheduleGivesCpu
<1>3. self \in Thread \ {Idle} /\ pc[self] = label /\ k.stat[self] # "init"
      /\ pc' = [pc EXCEPT ![self] = next]
  BY DEF CpuInv, ScheduleAt, At, Goto, self, AboutToSchedule
<1>4. \A x \in Thread : /\ k'.stat[x] \in {"init", "ready", "suspend"}
                        /\ k'.stat[x] = "init" => pc'[x] = "run"
  BY <1>2, <1>3 DEF CpuInv, Switched
<1>5. QED
  BY <1>1, <1>2, <1>3, <1>4 DEF CpuInv, Switched

\* Only pc of the running thread changes in the kernel's part of the state,
\* or the error of its last call.
LEMMA PcStepKeepsCpuInv ==
  ASSUME CpuInv, self \in Thread, k.stat[self] = "ready",
         \/ k' = k
         \/ \E e \in Error : k' = SetError(k, self, e),
         NEW S, pc \in [Thread -> S], NEW label, pc' = [pc EXCEPT ![self] = label]
  PROVE  /\ CpuInv'
         /\ \A g \in Queue : Nodes(k', g) = Nodes(k, g)
         /\ k'.stat = k.stat
         /\ \A t \in Thread \ {self} : k'.error[t] = k.error[t]
<1>1. CASE k' = k
  BY <1>1 DEF CpuInv, self
<1>2. ASSUME NEW e \in Error, k' = SetError(k, self, e)
      PROVE  /\ CpuInv'
             /\ \A g \in Queue : Nodes(k', g) = Nodes(k, g)
             /\ k'.stat = k.stat
             /\ \A t \in Thread \ {self} : k'.error[t] = k.error[t]
  <2>1. k \in KernelType /\ KernelInv(k, {})
    BY DEF CpuInv, KernelInv
  <2>2. /\ KernelInv(k', {})
        /\ k' = [k EXCEPT !.error = [k.error EXCEPT ![self] = e]]
        /\ \A h : Nodes(k', h) = Nodes(k, h)
    BY <1>2, <2>1, ErrorKeepsInv
  <2>3. /\ k'.stat = k.stat /\ k'.lock_nest = k.lock_nest
        /\ k'.current_thread = k.current_thread
        /\ \A t \in Thread \ {self} : k'.error[t] = k.error[t]
    BY <2>1, <2>2 DEF KernelType
  <2>4. CpuInv'
    BY <2>2, <2>3 DEF CpuInv, self
  <2>5. QED
    BY <2>2, <2>3, <2>4
<1>3. QED
  BY <1>1, <1>2

\* The kernel of a step that wakes one thread without a rt_schedule.
LEMMA WokenUpKeepsCpuInv ==
  ASSUME CpuInv, NEW S, pc \in [Thread -> S], NEW t \in Thread, NEW label,
         k.stat[self] = "ready", k.stat[t] = "suspend",
         KernelInv(k', {}), WokenUp(k, k', t),
         pc' = [pc EXCEPT ![self] = label]
  PROVE  CpuInv'
<1>1. /\ k.stat \in [Thread -> Stat] /\ self = k.current_thread
      /\ k'.current_thread = k.current_thread /\ k'.lock_nest = k.lock_nest
      /\ k'.stat = [k.stat EXCEPT ![t] = "ready"]
  BY DEF CpuInv, KernelInv, KernelType, WokenUp, self
<1>2. \A x \in Thread : /\ k'.stat[x] \in {"init", "ready", "suspend"}
                        /\ k'.stat[x] = "init" => pc'[x] = "run"
  BY <1>1 DEF CpuInv
<1>3. QED
  BY <1>1, <1>2 DEF CpuInv

\* One turn of rt_ipc_list_resume_all.
LEMMA ResumeAllTurnStep ==
  ASSUME CpuInv, NEW S, pc \in [Thread -> S], NEW h \in Queue, ResumeAllTurn(h)
  PROVE  LET t == FirstThread(k, h)
         IN  /\ CpuInv'
             /\ t \in Thread /\ t \in Nodes(k, h) /\ t \in Sleepers(k)
             /\ WokenUp(k, k', t)
             /\ k'.error = [k.error EXCEPT ![t] = "error"]
             /\ self \in Thread \ {Idle} /\ pc[self] = "resume"
             /\ pc' = [pc EXCEPT ![self] = "scan"]
<1> DEFINE t == FirstThread(k, h)
<1>1. /\ ~rt_list_isempty(k.list[h]) /\ k' = ResumeWithError(k, h)
      /\ KernelInv(k, {})
      /\ pc' = [pc EXCEPT ![self] = "scan"]
  BY DEF ResumeAllTurn, Goto, CpuInv
<1>2. self \in Thread \ {Idle} /\ k.stat[self] = "ready" /\ pc[self] = "resume"
  <2>1. At("resume") /\ "resume" \notin AboutToSchedule
    BY DEF ResumeAllTurn, AboutToSchedule
  <2>2. QED
    BY <2>1, RunnerIsReady
<1>3. t \in Thread /\ t \in Nodes(k, h) /\ k.stat[t] = "suspend"
  BY <1>1, FirstWaiter
<1>4. /\ KernelInv(k', {}) /\ WokenUp(k, k', t)
      /\ k'.error = [k.error EXCEPT ![t] = "error"]
  BY <1>1, ResumeWithErrorKeepsInv
<1> HIDE DEF t
<1>5. CpuInv'
  BY <1>1, <1>2, <1>3, <1>4, WokenUpKeepsCpuInv
<1>6. QED
  BY <1>1, <1>2, <1>3, <1>4, <1>5 DEF Sleepers, t
=============================================================================
