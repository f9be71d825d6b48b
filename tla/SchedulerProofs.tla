--------------------------- MODULE SchedulerProofs ---------------------------
(***************************************************************************)
(* The kernel stays consistent and the right thread has the CPU, whatever  *)
(* thread calls are preempted between their critical sections, for any     *)
(* threads, priorities and time slices, if the application makes none of   *)
(* the uses that Scheduler calls unguarded.                                *)
(***************************************************************************)
EXTENDS Scheduler, KernelProofs

-----------------------------------------------------------------------------
(* The parts of rt_thread_delete, rt_thread_exit and the idle thread *)

\* t is in no list.
Unlinked(kk, t) == \A h \in ListHead : t \notin Nodes(kk, h)

\* Only the lists, the bitmap and the stat and the timer of t have changed.
OnlyThread(kk, u, t) ==
  /\ \A x \in Thread \ {t} : u.stat[x] = kk.stat[x] /\ u.timer[x] = kk.timer[x]
  /\ u.current_priority = kk.current_priority
  /\ u.current_thread = kk.current_thread /\ u.lock_nest = kk.lock_nest

\* rt_schedule_remove_thread in rt_thread_delete: the thread is off the lists
\* with its stat unchanged.
LEMMA TakeOffKeepsInv ==
  ASSUME NEW kk, NEW off, KernelInv(kk, off), NEW t \in Thread \ {Idle},
         kk.stat[t] \in {"ready", "suspend"}
  PROVE  LET u == rt_schedule_remove_thread(kk, t)
         IN  /\ KernelInv(u, off \cup {t})
             /\ TakenOff(kk, u, t) /\ OnlyThread(kk, u, t)
             /\ u.stat = kk.stat /\ u.timer = kk.timer
<1> DEFINE u == rt_schedule_remove_thread(kk, t)
<1>1. /\ kk \in KernelType /\ NoRepeats(kk) /\ GroupIsExact(kk)
      /\ kk.number_mask[t] = {kk.current_priority[t]}
      /\ \A p \in Prio : t \in Nodes(kk, p) => p = kk.current_priority[t]
  BY OwnReadyList DEF KernelInv
<1>2. /\ u \in KernelType /\ NoRepeats(u) /\ GroupIsExact(u)
      /\ u = [kk EXCEPT !.list = u.list, !.ready_group = u.ready_group]
      /\ \A h \in ListHead : Nodes(u, h) = Nodes(kk, h) \ {t}
  BY <1>1, RemoveThreadEffect
<1> HIDE DEF u
<1>3. /\ u.stat = kk.stat /\ u.timer = kk.timer
      /\ u.current_priority = kk.current_priority
      /\ u.number_mask = kk.number_mask
      /\ u.current_thread = kk.current_thread /\ u.lock_nest = kk.lock_nest
  BY <1>1, <1>2 DEF KernelType
<1>4. Disjoint(u)
  BY <1>2 DEF KernelInv, Disjoint
<1>5. ReadyAreListed(u, off \cup {t})
  BY <1>2, <1>3 DEF KernelInv, ReadyAreListed, ListHead
<1>6. MaskIsPriority(u) /\ WaitersSuspended(u)
  BY <1>2, <1>3 DEF KernelInv, MaskIsPriority, WaitersSuspended, ListHead
<1>7. KernelInv(u, off \cup {t})
  BY <1>2, <1>3, <1>4, <1>5, <1>6 DEF KernelInv
<1>8. QED
  BY <1>2, <1>3, <1>7 DEF TakenOff, OnlyThread, u

\* A thread that is in no list is closed, or its memory freed.
LEMMA RetireKeepsInv ==
  ASSUME NEW kk, NEW off, KernelInv(kk, off), NEW t \in Thread \ {Idle},
         Unlinked(kk, t), ~kk.timer[t], kk.stat[t] # "init",
         NEW s \in {"close", "free"}
  PROVE  LET u == [kk EXCEPT !.stat[t] = s]
         IN  /\ KernelInv(u, off \ {t})
             /\ SameNodes(kk, u) /\ OnlyThread(kk, u, t)
             /\ u.stat = [kk.stat EXCEPT ![t] = s] /\ u.timer = kk.timer
             /\ u.list = kk.list /\ u.ready_group = kk.ready_group
<1> DEFINE u == [kk EXCEPT !.stat[t] = s]
<1>1. kk \in KernelType
  BY DEF KernelInv
<1>2. /\ u \in KernelType
      /\ u.stat = [kk.stat EXCEPT ![t] = s] /\ u.timer = kk.timer
      /\ u.list = kk.list /\ u.ready_group = kk.ready_group
      /\ u.current_priority = kk.current_priority
      /\ u.number_mask = kk.number_mask
      /\ u.current_thread = kk.current_thread /\ u.lock_nest = kk.lock_nest
      /\ kk.stat \in [Thread -> Stat]
  BY <1>1 DEF KernelType, Stat
<1> HIDE DEF u
<1>3. \A h : Nodes(u, h) = Nodes(kk, h)
  BY <1>2 DEF Nodes
<1>4. NoRepeats(u) /\ Disjoint(u) /\ GroupIsExact(u)
  BY <1>2, <1>3 DEF KernelInv, NoRepeats, Disjoint, GroupIsExact
<1>5. ReadyAreListed(u, off \ {t})
  BY <1>2, <1>3 DEF KernelInv, ReadyAreListed, Unlinked, ListHead
<1>6. MaskIsPriority(u) /\ WaitersSuspended(u)
  BY <1>2, <1>3 DEF KernelInv, MaskIsPriority, WaitersSuspended, Unlinked, ListHead
<1>7. KernelInv(u, off \ {t})
  BY <1>2, <1>4, <1>5, <1>6 DEF KernelInv
<1>8. QED
  BY <1>2, <1>3, <1>7 DEF SameNodes, OnlyThread, u

\* A closed thread is put on the defunct list.
LEMMA BuryKeepsInv ==
  ASSUME NEW kk, NEW off, KernelInv(kk, off), NEW t \in Thread,
         Unlinked(kk, t), kk.stat[t] = "close"
  PROVE  LET u == LinkFirst(kk, Defunct, t)
         IN  /\ KernelInv(u, off) /\ OnlyThread(kk, u, t)
             /\ u.stat = kk.stat /\ u.timer = kk.timer
             /\ u.ready_group = kk.ready_group
             /\ \A p \in Prio : u.list[p] = kk.list[p]
             /\ \A g \in ListHead :
                  Nodes(u, g) = IF g = Defunct THEN Nodes(kk, g) \cup {t}
                                ELSE Nodes(kk, g)
<1> DEFINE u == LinkFirst(kk, Defunct, t)
<1>1. /\ kk \in KernelType /\ NoRepeats(kk) /\ Defunct \in ListHead
      /\ Defunct \notin Prio \cup Queue /\ Prio \cup Queue \subseteq ListHead
  BY HeadsAreDistinct DEF KernelInv, ListHead
<1>2. /\ u \in KernelType /\ NoRepeats(u)
      /\ u = [kk EXCEPT !.list = u.list]
      /\ \A g \in ListHead :
           Nodes(u, g) = IF g = Defunct THEN Nodes(kk, g) \cup {t}
                         ELSE Nodes(kk, g)
  BY <1>1, LinkFirstEffect DEF Unlinked
<1>10. \A p \in Prio : u.list[p] = kk.list[p]
  BY <1>1 DEF LinkFirst, KernelType
<1> HIDE DEF u
<1>3. /\ u.stat = kk.stat /\ u.timer = kk.timer
      /\ u.ready_group = kk.ready_group
      /\ u.current_priority = kk.current_priority
      /\ u.number_mask = kk.number_mask
      /\ u.current_thread = kk.current_thread /\ u.lock_nest = kk.lock_nest
  BY <1>1, <1>2 DEF KernelType
<1>4. Disjoint(u)
  BY <1>1, <1>2 DEF KernelInv, Disjoint, Unlinked
<1>5. \A h \in Prio \cup Queue : Nodes(u, h) = Nodes(kk, h)
  BY <1>1, <1>2
<1>6. GroupIsExact(u) /\ ReadyAreListed(u, off) /\ MaskIsPriority(u)
  BY <1>3, <1>5 DEF KernelInv, GroupIsExact, ReadyAreListed, MaskIsPriority
<1>7. WaitersSuspended(u)
  BY <1>1, <1>2, <1>3, <1>5 DEF KernelInv, WaitersSuspended
<1>8. KernelInv(u, off)
  BY <1>2, <1>3, <1>4, <1>6, <1>7 DEF KernelInv
<1>9. QED
  BY <1>2, <1>3, <1>8, <1>10 DEF OnlyThread, u

\* The idle thread takes a closed thread off the defunct list.
LEMMA UnlinkKeepsInv ==
  ASSUME NEW kk, NEW off, KernelInv(kk, off), NEW t \in Thread,
         kk.stat[t] = "close"
  PROVE  LET u == Unlink(kk, t)
         IN  /\ KernelInv(u, off)
             /\ TakenOff(kk, u, t) /\ OnlyThread(kk, u, t)
             /\ u.stat = kk.stat /\ u.timer = kk.timer
             /\ u.ready_group = kk.ready_group
<1> DEFINE u == Unlink(kk, t)
<1>1. /\ kk \in KernelType /\ NoRepeats(kk) /\ Prio \cup Queue \subseteq ListHead
      /\ \A p \in Prio : t \notin Nodes(kk, p)
  BY OwnReadyList DEF KernelInv, ListHead
<1>2. /\ u \in KernelType /\ NoRepeats(u)
      /\ u = [kk EXCEPT !.list = u.list]
      /\ \A h \in ListHead : Nodes(u, h) = Nodes(kk, h) \ {t}
  BY <1>1, UnlinkEffect
<1> HIDE DEF u
<1>3. /\ u.stat = kk.stat /\ u.timer = kk.timer
      /\ u.ready_group = kk.ready_group
      /\ u.current_priority = kk.current_priority
      /\ u.number_mask = kk.number_mask
      /\ u.current_thread = kk.current_thread /\ u.lock_nest = kk.lock_nest
  BY <1>1, <1>2 DEF KernelType
<1>4. \A p \in Prio : Nodes(u, p) = Nodes(kk, p)
  BY <1>1, <1>2
<1>5. Disjoint(u) /\ WaitersSuspended(u)
  BY <1>2, <1>3 DEF KernelInv, Disjoint, WaitersSuspended, ListHead
<1>6. GroupIsExact(u) /\ ReadyAreListed(u, off) /\ MaskIsPriority(u)
  BY <1>3, <1>4 DEF KernelInv, GroupIsExact, ReadyAreListed, MaskIsPriority
<1>7. KernelInv(u, off)
  BY <1>2, <1>3, <1>5, <1>6 DEF KernelInv
<1>8. QED
  BY <1>2, <1>3, <1>7 DEF TakenOff, OnlyThread, u

\* The critical section of rt_thread_exit, of a static thread or another.
LEMMA ExitKeepsInv ==
  ASSUME NEW kk, NEW off, KernelInv(kk, off), NEW t \in Thread \ {Idle},
         t \notin off, kk.stat[t] \in {"ready", "suspend"}, NEW static \in BOOLEAN
  PROVE  LET u == ExitSection(kk, t, static)
         IN  /\ KernelInv(u, off) /\ OnlyThread(kk, u, t)
             /\ u.stat[t] = "close" /\ ~u.timer[t]
             /\ \A h \in ListHead \ {Defunct} : Nodes(u, h) = Nodes(kk, h) \ {t}
             /\ \A x \in Thread \ {t} :
                  x \in Nodes(u, Defunct) <=> x \in Nodes(kk, Defunct)
<1> DEFINE r == rt_schedule_remove_thread(kk, t)
           s == StopTimer(r, t)
           c == [s EXCEPT !.stat[t] = "close"]
           u == ExitSection(kk, t, static)
<1>1. /\ KernelInv(r, off \cup {t}) /\ TakenOff(kk, r, t) /\ OnlyThread(kk, r, t)
      /\ r.stat = kk.stat /\ r.timer = kk.timer
  BY TakeOffKeepsInv
<1> HIDE DEF r
<1>2. /\ s \in KernelType /\ s.list = r.list /\ s.ready_group = r.ready_group
      /\ s.stat = r.stat /\ s.current_priority = r.current_priority
      /\ s.number_mask = r.number_mask
      /\ s.timer = [r.timer EXCEPT ![t] = FALSE]
      /\ s.current_thread = r.current_thread /\ s.lock_nest = r.lock_nest
      /\ r.timer \in [Thread -> BOOLEAN]
  BY <1>1 DEF KernelInv, StopTimer, KernelType
<1>3. KernelInv(s, off \cup {t}) /\ \A h : Nodes(s, h) = Nodes(r, h)
  BY <1>1, <1>2, OtherFieldsKeepInv
<1>4. [r EXCEPT !.stat[t] = "close"] \in KernelType
  BY <1>1 DEF KernelInv, KernelType, Stat
<1>5. c = StopTimer([r EXCEPT !.stat[t] = "close"], t)
  BY <1>1, <1>2 DEF StopTimer, KernelInv, KernelType
<1> HIDE DEF s
<1>6. Unlinked(s, t) /\ ~s.timer[t] /\ s.stat[t] # "init"
  BY <1>1, <1>2, <1>3 DEF Unlinked, TakenOff
<1>7. /\ KernelInv(c, (off \cup {t}) \ {t})
      /\ SameNodes(s, c) /\ OnlyThread(s, c, t)
      /\ c.stat = [s.stat EXCEPT ![t] = "close"] /\ c.timer = s.timer
  BY <1>3, <1>6, RetireKeepsInv
<1>8. KernelInv(c, off)
  <2>1. (off \cup {t}) \ {t} = off
    OBVIOUS
  <2>2. QED
    BY <1>7, <2>1
<1>9. c.stat[t] = "close" /\ Unlinked(c, t) /\ ~c.timer[t]
  BY <1>1, <1>2, <1>6, <1>7 DEF Unlinked, SameNodes, KernelInv, KernelType
<1>10. OnlyThread(kk, c, t) /\ \A h \in ListHead : Nodes(c, h) = Nodes(kk, h) \ {t}
  BY <1>1, <1>2, <1>3, <1>7 DEF OnlyThread, TakenOff, SameNodes
<1> HIDE DEF c
<1>11. Defunct \in ListHead
  BY DEF ListHead
<1>12. CASE static
  <2>1. u = c
    BY <1>5, <1>12 DEF ExitSection, r
  <2>2. QED
    BY <1>7, <1>8, <1>9, <1>10, <1>11, <2>1
<1>13. CASE ~static
  <2>1. u = LinkFirst(c, Defunct, t)
    BY <1>5, <1>13 DEF ExitSection, r
  <2>2. /\ KernelInv(u, off) /\ OnlyThread(c, u, t)
        /\ u.stat = c.stat /\ u.timer = c.timer
        /\ \A g \in ListHead :
             Nodes(u, g) = IF g = Defunct THEN Nodes(c, g) \cup {t}
                           ELSE Nodes(c, g)
    <3>1. t \in Thread
      OBVIOUS
    <3>2. QED
      BY <1>8, <1>9, <2>1, <3>1, BuryKeepsInv
  <2> HIDE DEF u
  <2>3. OnlyThread(kk, u, t)
    BY <1>10, <2>2 DEF OnlyThread
  <2>4. QED
    BY <1>9, <1>10, <1>11, <2>2, <2>3 DEF u
<1>14. QED
  BY <1>12, <1>13

\* rt_timer_stop of a timer that does not run.
LEMMA StopTimerOfNone ==
  ASSUME NEW kk \in KernelType, NEW t \in Thread, ~kk.timer[t]
  PROVE  StopTimer(kk, t) = kk
<1>1. [kk.timer EXCEPT ![t] = FALSE] = kk.timer
  BY DEF KernelType
<1>2. QED
  BY <1>1 DEF StopTimer, KernelType

\* rt_thread_resume in two critical sections: of a thread that is in no list
\* and has no timer the first changes nothing, and the second does it all.
LEMMA ResumeInTwoSections ==
  ASSUME NEW kk \in KernelType, NEW t \in Thread, kk.stat[t] = "suspend",
         Unlinked(kk, t), ~kk.timer[t]
  PROVE  /\ ResumeSection(kk, t) = kk
         /\ rt_schedule_insert_thread(kk, t) = rt_thread_resume(kk, t)
<1>1. Unlink(kk, t) = kk
  <2>1. \A h \in ListHead : rt_list_remove(kk.list[h], t) = kk.list[h]
    BY DEF Unlinked, Nodes, rt_list_remove
  <2>2. [h \in ListHead |-> rt_list_remove(kk.list[h], t)] = kk.list
    BY <2>1 DEF KernelType
  <2>3. QED
    BY <2>2 DEF Unlink, KernelType
<1>2. QED
  BY <1>1, StopTimerOfNone DEF ResumeSection, rt_thread_resume

-----------------------------------------------------------------------------
(* The order of the ready lists *)

\* Taking a node out of a list does not move the others.
LEMMA RemoveKeepsOrder ==
  ASSUME NEW l \in Seq(Thread), NoRepeat(l), NEW t, NEW a, NEW b,
         Before(l, a, b), a # t, b # t
  PROVE  Before(rt_list_remove(l, t), a, b)
<1> DEFINE m == rt_list_remove(l, t)
<1>1. /\ m \in Seq(Thread) /\ ToSet(m) = ToSet(l) \ {t}
      /\ \A i, j \in 1 .. Len(m) : i <= j =>
           \E c, d \in 1 .. Len(l) : c <= d /\ m[i] = l[c] /\ m[j] = l[d]
  BY RemoveNode
<1>2. /\ DOMAIN l = 1 .. Len(l) /\ Len(l) \in Nat
      /\ \A i \in 1 .. Len(l) : l[i] \in ToSet(l)
  BY NodesOfList
<1> HIDE DEF m
<1>3. /\ DOMAIN m = 1 .. Len(m) /\ Len(m) \in Nat
      /\ \A x \in ToSet(m) : \E i \in 1 .. Len(m) : x = m[i]
  BY <1>1, NodesOfList
<1>4. PICK i, j \in 1 .. Len(l) : i < j /\ l[i] = a /\ l[j] = b
  BY <1>2 DEF Before
<1>5. PICK v, w \in 1 .. Len(m) : m[v] = a /\ m[w] = b
  BY <1>1, <1>2, <1>3, <1>4
<1>6. v < w
  <2>1. SUFFICES ASSUME w <= v
                 PROVE  FALSE
    BY <1>3
  <2>2. PICK c, d \in 1 .. Len(l) : c <= d /\ m[w] = l[c] /\ m[v] = l[d]
    BY <1>1, <2>1
  <2>3. c = j /\ d = i
    BY <1>2, <1>4, <1>5, <2>2 DEF NoRepeat
  <2>4. QED
    BY <1>2, <1>4, <2>2, <2>3
<1>7. QED
  BY <1>3, <1>5, <1>6 DEF Before, m

\* A node that is linked last is behind all others.
LEMMA AppendKeepsOrder ==
  ASSUME NEW l \in Seq(Thread), NEW t \in Thread
  PROVE  LET m == rt_list_insert_before(l, t)
         IN  /\ \A a, b : Before(l, a, b) => Before(m, a, b)
             /\ \A a \in ToSet(l) : Before(m, a, t)
<1> DEFINE m == rt_list_insert_before(l, t)
<1>1. /\ m \in Seq(Thread) /\ Len(m) = Len(l) + 1
      /\ \A i \in 1 .. Len(l) : m[i] = l[i]
      /\ m[Len(l) + 1] = t
  BY InsertLast
<1>2. /\ DOMAIN l = 1 .. Len(l) /\ Len(l) \in Nat
      /\ \A x \in ToSet(l) : \E i \in 1 .. Len(l) : x = l[i]
  BY NodesOfList
<1> HIDE DEF m
<1>3. DOMAIN m = 1 .. Len(l) + 1
  BY <1>1, LenProperties
<1>4. ASSUME NEW a, NEW b, Before(l, a, b)
      PROVE  Before(m, a, b)
  <2>1. PICK i, j \in 1 .. Len(l) : i < j /\ l[i] = a /\ l[j] = b
    BY <1>2, <1>4 DEF Before
  <2>2. i \in DOMAIN m /\ j \in DOMAIN m /\ m[i] = a /\ m[j] = b
    BY <1>1, <1>2, <1>3, <2>1
  <2>3. QED
    BY <2>1, <2>2 DEF Before
<1>5. ASSUME NEW a \in ToSet(l)
      PROVE  Before(m, a, t)
  <2>1. PICK i \in 1 .. Len(l) : l[i] = a
    BY <1>2
  <2>2. /\ i \in DOMAIN m /\ Len(l) + 1 \in DOMAIN m /\ i < Len(l) + 1
        /\ m[i] = a /\ m[Len(l) + 1] = t
    BY <1>1, <1>2, <1>3, <2>1
  <2>3. QED
    BY <2>2 DEF Before
<1>6. QED
  BY <1>4, <1>5 DEF m

\* A thread is not passed over within a ready list by a step, but for x.
OrderKept(kk, u, x) ==
  \A p \in Prio, a, b \in Thread :
    /\ Before(kk.list[p], a, b) /\ a # x
    /\ {a, b} \subseteq Nodes(u, p)
    => Before(u.list[p], a, b)

\* t has left the ready lists, or has moved to the end of one of them.
LEMMA RemovalKeepsOrder ==
  ASSUME NEW kk \in KernelType, NoRepeats(kk), NEW t, NEW u,
         \A p \in Prio : u.list[p] = rt_list_remove(kk.list[p], t)
  PROVE  \A x : OrderKept(kk, u, x)
<1> SUFFICES ASSUME NEW p \in Prio, NEW a \in Thread, NEW b \in Thread,
                    Before(kk.list[p], a, b), {a, b} \subseteq Nodes(u, p)
             PROVE  Before(u.list[p], a, b)
  BY DEF OrderKept
<1>1. kk.list[p] \in Seq(Thread) /\ NoRepeat(kk.list[p])
  BY DEF KernelType, NoRepeats, ListHead
<1>2. a # t /\ b # t
  BY <1>1, RemoveNode DEF Nodes
<1>3. QED
  BY <1>1, <1>2, RemoveKeepsOrder

LEMMA MoveKeepsOrder ==
  ASSUME NEW kk \in KernelType, NoRepeats(kk), NEW t \in Thread, NEW q, NEW u,
         \A p \in Prio : u.list[p] =
           LET l == rt_list_remove(kk.list[p], t)
           IN  IF p = q THEN rt_list_insert_before(l, t) ELSE l
  PROVE  /\ OrderKept(kk, u, t)
         /\ (\A p \in Prio : t \notin Nodes(kk, p)) => \A x : OrderKept(kk, u, x)
<1>1. ASSUME NEW p \in Prio, NEW a \in Thread, NEW b \in Thread, a # t,
             Before(kk.list[p], a, b), {a, b} \subseteq Nodes(u, p)
      PROVE  Before(u.list[p], a, b)
  <2> DEFINE l == rt_list_remove(kk.list[p], t)
             m == rt_list_insert_before(l, t)
  <2>1. kk.list[p] \in Seq(Thread) /\ NoRepeat(kk.list[p])
    BY DEF KernelType, NoRepeats, ListHead
  <2>2. l \in Seq(Thread) /\ ToSet(l) = ToSet(kk.list[p]) \ {t}
    BY <2>1, RemoveNode
  <2>3. b # t => Before(l, a, b)
    BY <1>1, <2>1, RemoveKeepsOrder
  <2>4. a \in ToSet(l)
    <3>1. a \in ToSet(kk.list[p])
      BY <1>1 DEF Before, ToSet
    <3>2. QED
      BY <1>1, <2>2, <3>1
  <2> HIDE DEF l
  <2>5. Before(m, a, b)
    BY <2>2, <2>3, <2>4, AppendKeepsOrder
  <2>6. CASE p = q
    BY <2>5, <2>6 DEF l
  <2>7. CASE p # q
    <3>1. u.list[p] = l
      BY <2>7 DEF l
    <3>2. b # t
      BY <1>1, <2>2, <3>1 DEF Nodes
    <3>3. QED
      BY <2>3, <3>1, <3>2
  <2>8. QED
    BY <2>6, <2>7
<1>2. OrderKept(kk, u, t)
  BY <1>1 DEF OrderKept
<1>3. ASSUME \A p \in Prio : t \notin Nodes(kk, p), NEW x
      PROVE  OrderKept(kk, u, x)
  <2>1. \A p \in Prio : \A b : ~ Before(kk.list[p], t, b)
    BY <1>3 DEF Before, Nodes, ToSet
  <2>2. QED
    BY <1>1, <2>1 DEF OrderKept
<1>4. QED
  BY <1>2, <1>3

\* A step that does not touch the lists.
LEMMA SameListsKeepOrder ==
  ASSUME NEW kk, NEW u, \A p \in Prio : u.list[p] = kk.list[p]
  PROVE  \A x : OrderKept(kk, u, x)
BY DEF OrderKept

\* Only the lists matter to it.
LEMMA OrderIsOfLists ==
  ASSUME NEW kk, NEW u, NEW kk2, NEW u2, NEW x, OrderKept(kk, u, x),
         \A p \in Prio : kk2.list[p] = kk.list[p] /\ u2.list[p] = u.list[p]
  PROVE  OrderKept(kk2, u2, x)
BY DEF OrderKept, Nodes

LEMMA TakeOffKeepsOrder ==
  ASSUME NEW kk \in KernelType, NoRepeats(kk), NEW t \in Thread
  PROVE  /\ rt_schedule_remove_thread(kk, t).list = Unlink(kk, t).list
         /\ \A h \in ListHead :
              Unlink(kk, t).list[h] = rt_list_remove(kk.list[h], t)
         /\ \A x : OrderKept(kk, rt_schedule_remove_thread(kk, t), x)
         /\ \A x : OrderKept(kk, Unlink(kk, t), x)
<1>1. Unlink(kk, t) \in KernelType
  BY UnlinkEffect
<1>2. rt_schedule_remove_thread(kk, t).list = Unlink(kk, t).list
  BY <1>1 DEF rt_schedule_remove_thread, KernelType
<1>3. \A h \in ListHead : Unlink(kk, t).list[h] = rt_list_remove(kk.list[h], t)
  BY DEF Unlink, KernelType
<1>4. \A p \in Prio : /\ p \in ListHead
                      /\ Unlink(kk, t).list[p] = rt_list_remove(kk.list[p], t)
                      /\ rt_schedule_remove_thread(kk, t).list[p] =
                           rt_list_remove(kk.list[p], t)
  BY <1>2, <1>3 DEF ListHead
<1>5. QED
  BY <1>2, <1>3, <1>4, RemovalKeepsOrder

LEMMA SuspendKeepsOrder ==
  ASSUME NEW kk \in KernelType, NoRepeats(kk), NEW t \in Thread
  PROVE  \A x : OrderKept(kk, SuspendSection(kk, t), x)
<1> DEFINE a == [kk EXCEPT !.stat[t] = "suspend"]
           b == rt_schedule_remove_thread(a, t)
<1>1. a \in KernelType /\ a.list = kk.list /\ NoRepeats(a)
  BY DEF KernelType, Stat, NoRepeats
<1> HIDE DEF a
<1>2. (\A x : OrderKept(a, b, x)) /\ b.list = Unlink(a, t).list
  BY <1>1, TakeOffKeepsOrder
<1>3. StopTimer(b, t).list = b.list
  <2>1. b \in KernelType
    <3>1. Unlink(a, t) \in KernelType
      BY <1>1, UnlinkEffect
    <3>2. QED
      BY <3>1 DEF rt_schedule_remove_thread, KernelType
  <2> HIDE DEF b
  <2>2. QED
    BY <2>1 DEF StopTimer, KernelType
<1>4. SuspendSection(kk, t) = StopTimer(b, t)
  BY DEF SuspendSection, a, b
<1> HIDE DEF b
<1>5. QED
  BY <1>1, <1>2, <1>3, <1>4, OrderIsOfLists

\* rt_thread_resume appends a thread that was in no ready list.
LEMMA ResumeKeepsOrder ==
  ASSUME NEW kk, NEW off, KernelInv(kk, off), NEW t \in Thread,
         kk.stat[t] = "suspend"
  PROVE  \A x : OrderKept(kk, rt_thread_resume(kk, t), x)
<1> DEFINE a == Unlink(kk, t)
           b == StopTimer(a, t)
           u == rt_schedule_insert_thread(b, t)
           q == kk.current_priority[t]
<1>1. /\ kk \in KernelType /\ NoRepeats(kk) /\ q \in Prio /\ q \in ListHead
      /\ \A p \in Prio : t \notin Nodes(kk, p) /\ p \in ListHead
  BY OwnReadyList DEF KernelInv, ListHead
<1>2. /\ a \in KernelType /\ a = [kk EXCEPT !.list = a.list]
      /\ \A h \in ListHead : a.list[h] = rt_list_remove(kk.list[h], t)
  BY <1>1, UnlinkEffect, TakeOffKeepsOrder
<1> HIDE DEF a
<1>3. /\ b \in KernelType /\ b.list = a.list
      /\ b.current_priority = kk.current_priority
  BY <1>1, <1>2 DEF StopTimer, KernelType
<1> HIDE DEF b
<1>4. \A h \in ListHead : u.list[h] =
        IF h = q THEN rt_list_insert_before(b.list[h], t) ELSE b.list[h]
  BY <1>1, <1>3 DEF rt_schedule_insert_thread, LinkLast, KernelType
<1>5. \A p \in Prio : u.list[p] =
        LET l == rt_list_remove(kk.list[p], t)
        IN  IF p = q THEN rt_list_insert_before(l, t) ELSE l
  BY <1>1, <1>2, <1>3, <1>4
<1>6. u = rt_thread_resume(kk, t)
  BY DEF rt_thread_resume, ResumeSection, a, b
<1> HIDE DEF u, q
<1>7. \A x : OrderKept(kk, u, x)
  BY <1>1, <1>5, MoveKeepsOrder
<1>8. QED
  BY <1>6, <1>7

\* rt_thread_yield moves its thread only.
LEMMA YieldKeepsOrder ==
  ASSUME NEW kk \in KernelType, NoRepeats(kk), NEW t \in Thread
  PROVE  OrderKept(kk, YieldSection(kk, t), t)
<1> DEFINE a == Unlink(kk, t)
           u == YieldSection(kk, t)
           q == kk.current_priority[t]
<1>1. q \in Prio /\ q \in ListHead /\ \A p \in Prio : p \in ListHead
  BY DEF KernelType, ListHead
<1>2. /\ a \in KernelType
      /\ \A h \in ListHead : a.list[h] = rt_list_remove(kk.list[h], t)
  BY UnlinkEffect, TakeOffKeepsOrder
<1>3. u = LinkLast(a, q, t)
  BY DEF YieldSection
<1> HIDE DEF a, u
<1>4. \A h \in ListHead : u.list[h] =
        IF h = q THEN rt_list_insert_before(a.list[h], t) ELSE a.list[h]
  BY <1>1, <1>2, <1>3 DEF LinkLast, KernelType
<1>5. \A p \in Prio : u.list[p] =
        LET l == rt_list_remove(kk.list[p], t)
        IN  IF p = q THEN rt_list_insert_before(l, t) ELSE l
  BY <1>1, <1>2, <1>4
<1> HIDE DEF q
<1>6. OrderKept(kk, u, t)
  BY <1>1, <1>5, MoveKeepsOrder
<1>7. QED
  BY <1>6 DEF u

\* The highest ready thread stays so while threads leave the ready lists and
\* none comes.
LEMMA HeadStays ==
  ASSUME NEW kk, NEW off, KernelInv(kk, off),
         NEW u, NEW off2, KernelInv(u, off2),
         NEW t, OrderKept(kk, u, t), NEW x, x = HighestReady(kk), x # t,
         \A p \in Prio : Nodes(u, p) \subseteq Nodes(kk, p),
         x \in Nodes(u, kk.current_priority[x])
  PROVE  HighestReady(u) = x
<1> DEFINE q == kk.current_priority[x]
           y == HighestReady(u)
           p == u.current_priority[y]
<1>1. /\ kk \in KernelType /\ u \in KernelType
      /\ kk.ready_group = {r \in Prio : Nodes(kk, r) # {}}
      /\ u.ready_group = {r \in Prio : Nodes(u, r) # {}}
  BY DEF KernelInv, GroupIsExact
<1>2. /\ x \in Thread /\ q \in kk.ready_group
      /\ \A r \in kk.ready_group : q <= r
      /\ x = FirstThread(kk, q)
  BY ScheduleSelects
<1>3. /\ y \in Thread /\ p \in u.ready_group
      /\ \A r \in u.ready_group : p <= r
      /\ y = FirstThread(u, p)
  BY ScheduleSelects
<1> HIDE DEF y, p, q
<1>4. p = q
  <2>1. q \in u.ready_group /\ p \in kk.ready_group
    BY <1>1, <1>2, <1>3 DEF q
  <2>2. p \in Int /\ q \in Int
    BY <1>1, <1>2, <1>3, PriorityMaxIsPositive DEF Prio
  <2>3. QED
    BY <1>2, <1>3, <2>1, <2>2
<1>5. /\ kk.list[q] \in Seq(Thread) /\ u.list[q] \in Seq(Thread)
      /\ NoRepeat(u.list[q]) /\ q \in Prio /\ q \in ListHead
  BY <1>1, <1>2 DEF KernelType, KernelInv, NoRepeats, ListHead
<1>6. /\ x = kk.list[q][1] /\ y = u.list[q][1] /\ y \in Nodes(u, q)
  <2>1. Nodes(kk, q) # {} /\ Nodes(u, q) # {}
    BY <1>1, <1>2, <1>3, <1>4
  <2>2. kk.list[q] # << >> /\ u.list[q] # << >>
    BY <1>5, <2>1, EmptyList DEF Nodes
  <2>3. QED
    BY <1>2, <1>3, <1>4, <1>5, <2>2, EmptyList DEF FirstThread, rt_list_isempty, Nodes
<1>7. CASE y # x
  <2>1. y \in Nodes(kk, q)
    BY <1>5, <1>6
  <2>2. PICK j \in 1 .. Len(kk.list[q]) : y = kk.list[q][j]
    BY <1>5, <2>1, NodesOfList DEF Nodes
  <2>3. Before(kk.list[q], x, y)
    <3>1. /\ DOMAIN kk.list[q] = 1 .. Len(kk.list[q])
          /\ Len(kk.list[q]) \in Nat /\ j # 1
      BY <1>5, <1>6, <1>7, <2>2, NodesOfList
    <3>2. 1 \in DOMAIN kk.list[q] /\ j \in DOMAIN kk.list[q] /\ 1 < j
      BY <2>2, <3>1
    <3>3. QED
      BY <1>6, <2>2, <3>2 DEF Before
  <2>4. Before(u.list[q], x, y)
    <3>1. x \in Nodes(u, q) /\ y \in Nodes(u, q)
      BY <1>6 DEF q
    <3>2. QED
      BY <1>2, <1>3, <1>5, <2>3, <3>1 DEF OrderKept
  <2>5. PICK i, l \in DOMAIN u.list[q] : i < l /\ u.list[q][l] = y
    BY <2>4 DEF Before
  <2>6. /\ DOMAIN u.list[q] = 1 .. Len(u.list[q]) /\ Len(u.list[q]) \in Nat
    BY <1>5, NodesOfList
  <2>7. 1 \in DOMAIN u.list[q]
    BY <2>5, <2>6
  <2>8. l = 1
    BY <1>5, <1>6, <2>5, <2>7 DEF NoRepeat
  <2>9. QED
    BY <2>5, <2>6, <2>8
<1>8. QED
  BY <1>7 DEF y

\* In particular when another thread is taken off the lists.
LEMMA HighestAfterRemoval ==
  ASSUME NEW kk, NEW off, KernelInv(kk, off),
         NEW u, NEW off2, KernelInv(u, off2),
         NEW t \in Thread, TakenOff(kk, u, t), \A x : OrderKept(kk, u, x),
         HighestReady(kk) # t
  PROVE  HighestReady(u) = HighestReady(kk)
<1> DEFINE x == HighestReady(kk)
<1>1. /\ x \in Thread /\ kk.stat[x] = "ready" /\ x \notin off
      /\ kk.current_priority[x] \in Prio
  BY ScheduleSelects, OwnReadyList
<1>2. x \in Nodes(kk, kk.current_priority[x])
  BY <1>1 DEF KernelInv, ReadyAreListed
<1>3. \A p \in Prio : Nodes(u, p) = Nodes(kk, p) \ {t}
  BY DEF TakenOff, ListHead
<1>4. x \in Nodes(u, kk.current_priority[x])
  BY <1>1, <1>2, <1>3
<1>5. OrderKept(kk, u, t)
  OBVIOUS
<1> HIDE DEF x
<1>6. HighestReady(u) = x
  BY <1>3, <1>4, <1>5, HeadStays DEF x
<1>7. QED
  BY <1>6 DEF x

-----------------------------------------------------------------------------
(***************************************************************************)
(* The invariant.  A thread call that was preempted between two critical   *)
(* sections finds its thread as it left it: no second call operates on it, *)
(* it is not the running one, and no timer and no interrupt has touched    *)
(* it.  Only rt_thread_suspend may find that its thread has suspended      *)
(* itself meanwhile.                                                       *)
(***************************************************************************)
Off == {t \in Thread : BeingDeleted(t)}

Operating == {"unlink", "insert", "start_unlink", "start_insert", "suspend",
              "timer_detach", "defunct", "release"}

CallsApart ==
  \A u, v \in Thread :
    pc[u] \in Operating /\ pc[v] \in Operating /\ target[u] = target[v] => u = v

CallsFit(kk) ==
  \A u \in Thread :
    LET t == target[u]
    IN  /\ pc[u] \in {"unlink", "insert", "start_unlink", "start_insert"} =>
             /\ kk.stat[t] = "suspend" /\ ~kk.timer[t]
             /\ t = kk.current_thread => u = t
        /\ pc[u] = "suspend" => t # Idle /\ kk.stat[t] \in {"ready", "suspend"}
        /\ pc[u] \in {"timer_detach", "defunct"} =>
             /\ kk.stat[t] \in {"ready", "suspend"} /\ ~kk.timer[t]
             /\ t # kk.current_thread
        /\ pc[u] = "release" =>
             /\ kk.stat[t] = "close" /\ t # kk.current_thread
             /\ t \notin Nodes(kk, Defunct)

\* Nobody waits in a list of an IPC object here.  The running thread may go
\* on, though suspended, while the scheduler is locked.
CpuFits(kk) ==
  /\ kk.current_thread \in Thread
  /\ \/ kk.stat[kk.current_thread] \in {"ready", "suspend"}
     \/ kk.stat[kk.current_thread] = "close" /\ pc[kk.current_thread] = "dead"
  /\ \A t \in Thread : pc[t] = "dead" => kk.stat[t] \in {"close", "free"}
  /\ \A h \in Queue : Nodes(kk, h) = {}

HighestFits(kk) ==
  kk.lock_nest = 0 /\ pc[kk.current_thread] \notin {"sched", "nap", "dead"}
  => kk.current_thread = HighestReady(kk)

Fits(kk) == KernelInv(kk, Off) /\ CallsFit(kk) /\ CpuFits(kk)

SchedInv ==
  /\ TypeOK
  /\ CallsApart
  /\ Fits(k)

\* The step keeps the highest thread on the CPU.
HighestKept == HighestFits(k) => HighestFits(k)'

\* The invariant has all that the invariants of the runs say.
LEMMA SchedInvImplies ==
  SchedInv => /\ SelectsThread /\ ReadyLists /\ ClosedNeverRuns
              /\ RunsHighest <=> HighestFits(k)
<1> SUFFICES ASSUME SchedInv
             PROVE  /\ SelectsThread /\ ReadyLists /\ ClosedNeverRuns
                    /\ RunsHighest <=> HighestFits(k)
  OBVIOUS
<1>1. KernelInv(k, Off) /\ CpuFits(k) /\ k \in KernelType
  BY DEF SchedInv, Fits, KernelInv
<1>2. SelectsThread /\ (RunsHighest <=> HighestFits(k))
  BY <1>1 DEF SelectsThread, RunsHighest, HighestFits, CpuFits, self
<1>3. OneList
  BY <1>1 DEF KernelInv, NoRepeats, Disjoint, OneList, Nodes
<1>4. \A p \in Prio : k.list[p] # << >> <=> Nodes(k, p) # {}
  BY <1>1, EmptyList DEF KernelType, ListHead, Nodes
<1>5. ReadyLists
  BY <1>1, <1>3, <1>4 DEF KernelInv, ReadyAreListed, GroupIsExact,
       WaitersSuspended, ReadyLists, Off, Nodes
<1>6. ClosedNeverRuns
  <2> SUFFICES ASSUME NEW t \in Thread, k.stat[t] \in {"close", "free"}
               PROVE  /\ self = t => pc[t] = "dead"
                      /\ \A h \in ListHead \ {Defunct} : t \notin ToSet(k.list[h])
                      /\ k.stat[t] = "free" => ~Linked(k, t)
    BY DEF ClosedNeverRuns
  <2>1. self = t => pc[t] = "dead"
    BY <1>1 DEF CpuFits, self
  <2>2. \A h \in ListHead \ {Defunct} : t \notin Nodes(k, h)
    BY <1>1 DEF CpuFits, KernelInv, ReadyAreListed, ListHead
  <2>3. k.stat[t] = "free" => t \notin Nodes(k, Defunct)
    BY <1>1 DEF KernelInv, WaitersSuspended
  <2>4. QED
    BY <2>1, <2>2, <2>3 DEF Linked, Nodes
<1>7. QED
  BY <1>2, <1>5, <1>6

-----------------------------------------------------------------------------
(* What the steps have in common *)

\* rt_schedule at any point: the thread it selects is in no call that
\* operates on it, and is not being deleted.
LEMMA ScheduleFits ==
  ASSUME NEW kk, Fits(kk)
  PROVE  LET u == rt_schedule(kk)
         IN  /\ Fits(u) /\ HighestFits(u) /\ Switched(kk, u)
             /\ kk.lock_nest = 0 => u.current_thread = HighestReady(u)
<1> DEFINE u == rt_schedule(kk)
           new == HighestReady(kk)
<1>1. /\ KernelInv(kk, Off) /\ kk \in KernelType /\ CallsFit(kk) /\ CpuFits(kk)
      /\ Defunct \in ListHead /\ Queue \subseteq ListHead
  BY DEF Fits, KernelInv, ListHead
<1>2. KernelInv(u, Off) /\ Switched(kk, u)
  BY <1>1, ScheduleKeepsInv
<1>3. new \in Thread /\ kk.stat[new] = "ready" /\ new \notin Off
  BY <1>1, ScheduleSelects
<1>4. HighestReady(u) = new
  BY <1>2 DEF Switched, HighestReady, FirstThread
<1>5. u.current_thread = IF kk.lock_nest = 0 THEN new ELSE kk.current_thread
  BY <1>1 DEF rt_schedule, KernelType
<1>6. HighestFits(u)
  BY <1>2, <1>4, <1>5 DEF HighestFits, Switched
<1>7. /\ u.stat = kk.stat /\ u.timer = kk.timer
      /\ Nodes(u, Defunct) = Nodes(kk, Defunct)
      /\ \A h \in Queue : Nodes(u, h) = Nodes(kk, h)
  BY <1>1, <1>2 DEF Switched, SameNodes
<1> HIDE DEF u, new
<1>8. CallsFit(u)
  BY <1>1, <1>3, <1>5, <1>7 DEF CallsFit, Off, BeingDeleted
<1>9. CpuFits(u)
  BY <1>1, <1>3, <1>5, <1>7 DEF CpuFits
<1>10. QED
  BY <1>2, <1>4, <1>5, <1>6, <1>8, <1>9 DEF Fits, u

\* A step of an interrupt leaves the threads where they are in their calls.
LEMMA InterruptFits ==
  ASSUME SchedInv, UNCHANGED <<pc, target>>, Fits(k'),
         remaining_tick' \in [Thread -> 1 .. init_tick], isr' \in {"none", "check"},
         HighestFits(k) => HighestFits(k')
  PROVE  SchedInv' /\ HighestKept
<1>1. TypeOK'
  BY DEF SchedInv, TypeOK, Fits, KernelInv
<1>2. Off' = Off /\ CallsApart'
  BY DEF SchedInv, Off, BeingDeleted, CallsApart
<1>3. Fits(k)'
  BY <1>2 DEF Fits, CallsFit, CpuFits
<1>4. HighestKept
  BY DEF HighestKept, HighestFits
<1>5. QED
  BY <1>1, <1>2, <1>3, <1>4 DEF SchedInv

\* Threads that are left alone fit as before.
LEMMA SameThreadsFit ==
  ASSUME NEW kk, CallsFit(kk), CpuFits(kk), NEW u,
         u.stat = kk.stat, u.timer = kk.timer,
         u.current_thread = kk.current_thread,
         \A h \in Queue \cup {Defunct} : Nodes(u, h) = Nodes(kk, h)
  PROVE  CallsFit(u) /\ CpuFits(u)
<1>1. CallsFit(u)
  BY DEF CallsFit
<1>2. CpuFits(u)
  BY DEF CpuFits
<1>3. QED
  BY <1>1, <1>2

\* A suspended thread is in no list, and a running timer's is in no call but
\* rt_thread_suspend.
LEMMA SleeperIsUnlinked ==
  ASSUME NEW kk, Fits(kk), NEW t \in Thread, kk.stat[t] = "suspend"
  PROVE  Unlinked(kk, t)
<1>1. KernelInv(kk, Off) /\ \A h \in Queue : Nodes(kk, h) = {}
  BY DEF Fits, CpuFits
<1>2. QED
  BY <1>1 DEF KernelInv, ReadyAreListed, WaitersSuspended, Unlinked, ListHead

\* rt_thread_resume of a thread that only rt_thread_suspend may be about to
\* operate on.
LEMMA ResumeFits ==
  ASSUME NEW kk, Fits(kk), NEW t \in Thread, kk.stat[t] = "suspend",
         \A u \in Thread : pc[u] \in Operating /\ target[u] = t => pc[u] = "suspend"
  PROVE  Fits(rt_thread_resume(kk, t))
<1> DEFINE u == rt_thread_resume(kk, t)
<1>1. /\ KernelInv(kk, Off) /\ kk \in KernelType /\ CallsFit(kk) /\ CpuFits(kk)
      /\ Queue \cup {Defunct} \subseteq ListHead
  BY DEF Fits, KernelInv, ListHead
<1>2. t \notin Off
  BY DEF Off, BeingDeleted, Operating
<1>3. KernelInv(u, Off) /\ HasResumed(kk, u, t)
  BY <1>1, <1>2, ResumeKeepsInv
<1> HIDE DEF u
<1>4. /\ u.stat = [kk.stat EXCEPT ![t] = "ready"]
      /\ u.timer = [kk.timer EXCEPT ![t] = FALSE]
      /\ u.current_thread = kk.current_thread
      /\ kk.stat \in [Thread -> Stat] /\ kk.timer \in [Thread -> BOOLEAN]
  BY <1>1, <1>3 DEF HasResumed, KernelType
<1>5. \A h \in Queue \cup {Defunct} : Nodes(u, h) = Nodes(kk, h)
  <2>1. \A h \in Queue \cup {Defunct} :
          t \notin Nodes(kk, h) /\ h # kk.current_priority[t] /\ h \in ListHead
    BY <1>1, SleeperIsUnlinked, OwnReadyList, HeadsAreDistinct DEF Unlinked
  <2>2. QED
    BY <1>3, <2>1 DEF HasResumed, MadeReady
<1>6. CallsFit(u)
  <2>1. \A v \in Thread : target[v] = t => pc[v] \notin (Operating \ {"suspend"})
    OBVIOUS
  <2>2. QED
    BY <1>1, <1>4, <1>5, <2>1 DEF CallsFit, Operating
<1>7. CpuFits(u)
  BY <1>1, <1>4, <1>5 DEF CpuFits
<1>8. QED
  BY <1>3, <1>6, <1>7 DEF Fits, u

-----------------------------------------------------------------------------
(* Interrupts *)

LEMMA TickKeepsInv ==
  ASSUME SchedInv, Tick
  PROVE  SchedInv' /\ HighestKept /\ OrderKept(k, k', self)
<1> DEFINE y == YieldSection(k, self)
<1>1. /\ Fits(k) /\ KernelInv(k, Off) /\ CallsFit(k) /\ CpuFits(k)
      /\ k \in KernelType /\ NoRepeats(k)
      /\ self \in Thread /\ self \notin Off /\ self = k.current_thread
      /\ remaining_tick \in [Thread -> 1 .. init_tick]
  BY DEF SchedInv, Fits, CallsFit, CpuFits, KernelInv, TypeOK, Off,
         BeingDeleted, self
<1>2. /\ remaining_tick' \in [Thread -> 1 .. init_tick]
      /\ UNCHANGED <<pc, target>> /\ isr' \in {"none", "check"}
      /\ \/ k' = k
         \/ YieldMoves(k, self) /\ k' = rt_schedule(y)
  BY <1>1, BoundsType DEF Tick
<1>3. CASE k' = k
  BY <1>1, <1>2, <1>3, InterruptFits, SameListsKeepOrder
<1>4. CASE YieldMoves(k, self) /\ k' = rt_schedule(y)
  <2>1. k.stat[self] = "ready"
    BY <1>4 DEF YieldMoves
  <2>2. /\ KernelInv(y, Off) /\ SameNodes(k, y)
        /\ y.stat = k.stat /\ y.timer = k.timer
        /\ y.current_thread = k.current_thread
    BY <1>1, <2>1, YieldKeepsInv
  <2>3. OrderKept(k, y, self)
    BY <1>1, YieldKeepsOrder
  <2> HIDE DEF y
  <2>4. Fits(y)
    BY <1>1, <2>2, SameThreadsFit DEF Fits, SameNodes, ListHead
  <2>5. Fits(k') /\ HighestFits(k') /\ k'.list = y.list
    BY <1>4, <2>4, ScheduleFits DEF Switched
  <2>6. OrderKept(k, k', self)
    BY <2>3, <2>5, OrderIsOfLists
  <2>7. QED
    BY <1>2, <2>5, <2>6, InterruptFits
<1>5. QED
  BY <1>2, <1>3, <1>4

\* The timer of a thread in a call of its own: its rt_thread_timeout.
LEMMA TimerCheckKeepsInv ==
  ASSUME SchedInv, NEW t \in Thread, TimerCheck(t)
  PROVE  SchedInv' /\ HighestKept /\ OrderKept(k, k', self)
<1> DEFINE e == SetError(k, t, "timeout")
           r == rt_thread_resume(e, t)
<1>1. /\ Fits(k) /\ KernelInv(k, Off) /\ CallsFit(k) /\ CpuFits(k)
      /\ k \in KernelType
      /\ remaining_tick \in [Thread -> 1 .. init_tick]
  BY DEF SchedInv, Fits, KernelInv, TypeOK
<1>2. k.timer[t] /\ k.stat[t] = "suspend"
  BY <1>1 DEF TimerCheck, KernelInv, WaitersSuspended
<1>3. k' = rt_schedule(r)
  BY <1>1, <1>2, TimeoutIsResume DEF TimerCheck
<1>4. /\ KernelInv(e, Off) /\ \A h : Nodes(e, h) = Nodes(k, h)
      /\ e = [k EXCEPT !.error = [k.error EXCEPT ![t] = "timeout"]]
  BY <1>1, ErrorKeepsInv DEF Error
<1> HIDE DEF e
<1>5. /\ e.stat = k.stat /\ e.timer = k.timer /\ e.list = k.list
      /\ e.current_thread = k.current_thread
  BY <1>1, <1>4 DEF KernelType
<1>6. Fits(e) /\ e.stat[t] = "suspend"
  BY <1>1, <1>2, <1>4, <1>5, SameThreadsFit DEF Fits
<1>7. \A u \in Thread : pc[u] \in Operating /\ target[u] = t => pc[u] = "suspend"
  BY <1>1, <1>2 DEF CallsFit, Operating
<1>8. Fits(r)
  BY <1>6, <1>7, ResumeFits
<1>9. OrderKept(e, r, self)
  BY <1>4, <1>6, ResumeKeepsOrder
<1> HIDE DEF r
<1>10. Fits(k') /\ HighestFits(k') /\ k'.list = r.list
  BY <1>3, <1>8, ScheduleFits DEF Switched
<1>11. OrderKept(k, k', self)
  BY <1>5, <1>9, <1>10, OrderIsOfLists
<1>12. UNCHANGED <<pc, target>> /\ remaining_tick' = remaining_tick /\ isr' = isr
  BY DEF TimerCheck
<1>13. QED
  BY <1>1, <1>10, <1>11, <1>12, InterruptFits DEF SchedInv, TypeOK

\* A device interrupt that resumes a thread no call operates on.
LEMMA DeviceIsrKeepsInv ==
  ASSUME SchedInv, NEW t \in Thread, DeviceIsr(t)
  PROVE  SchedInv' /\ HighestKept /\ OrderKept(k, k', self)
<1> DEFINE r == rt_thread_resume(k, t)
<1>1. /\ Fits(k) /\ KernelInv(k, Off) /\ isr \in {"none", "check"}
      /\ remaining_tick \in [Thread -> 1 .. init_tick]
  BY DEF SchedInv, Fits, TypeOK
<1>2. /\ \A u \in Thread : pc[u] \in Operating => target[u] # t
      /\ k' = rt_schedule(r) /\ UNCHANGED <<pc, target>>
      /\ remaining_tick' = remaining_tick /\ isr' = isr
  BY DEF DeviceIsr, Busy, Operating
<1>3. Fits(r) /\ OrderKept(k, r, self)
  <2>1. CASE k.stat[t] = "suspend"
    BY <1>1, <1>2, <2>1, ResumeFits, ResumeKeepsOrder
  <2>2. CASE k.stat[t] # "suspend"
    <3>1. r = k
      BY <2>2 DEF rt_thread_resume
    <3>2. QED
      BY <1>1, <3>1, SameListsKeepOrder
  <2>3. QED
    BY <2>1, <2>2
<1> HIDE DEF r
<1>4. Fits(k') /\ HighestFits(k') /\ k'.list = r.list
  BY <1>2, <1>3, ScheduleFits DEF Switched
<1>5. OrderKept(k, k', self)
  BY <1>3, <1>4, OrderIsOfLists
<1>6. QED
  BY <1>1, <1>2, <1>4, <1>5, InterruptFits

LEMMA TimerCheckEndKeepsInv ==
  ASSUME SchedInv, TimerCheckEnd
  PROVE  SchedInv' /\ HighestKept /\ OrderKept(k, k', self)
<1>1. Fits(k) /\ remaining_tick \in [Thread -> 1 .. init_tick]
  BY DEF SchedInv, TypeOK
<1>2. /\ k' = k /\ UNCHANGED <<pc, target>> /\ remaining_tick' = remaining_tick
      /\ isr' = "none"
  BY DEF TimerCheckEnd
<1>3. QED
  BY <1>1, <1>2, InterruptFits, SameListsKeepOrder

-----------------------------------------------------------------------------
(* Thread steps *)

\* What is known of the thread that makes a step.
LEMMA RunnerFacts ==
  ASSUME SchedInv, NEW label, At(label), label # "dead"
  PROVE  /\ self \in Thread /\ self = k.current_thread /\ pc[self] = label
         /\ k.stat[self] \in {"ready", "suspend"} /\ self \notin Off
         /\ \A v \in Thread : pc[v] \in Operating /\ target[v] = self =>
                                v = self \/ pc[v] = "suspend"
         /\ label = "run" => \A v \in Thread :
              pc[v] \in Operating \ {"suspend"} => target[v] # self
<1>1. self \in Thread /\ self = k.current_thread /\ pc[self] = label
  BY DEF At, self
<1>2. CallsFit(k) /\ CpuFits(k)
  BY DEF SchedInv, Fits
<1>3. k.stat[self] \in {"ready", "suspend"}
  BY <1>1, <1>2 DEF CpuFits
<1>4. self \notin Off
  BY <1>1, <1>2 DEF CallsFit, Off, BeingDeleted
<1>5. \A v \in Thread : pc[v] \in Operating /\ target[v] = self =>
                          v = self \/ pc[v] = "suspend"
  BY <1>1, <1>2 DEF CallsFit, Operating
<1>6. label = "run" => \A v \in Thread :
        pc[v] \in Operating \ {"suspend"} => target[v] # self
  BY <1>1, <1>5 DEF Operating
<1>7. QED
  BY <1>1, <1>3, <1>4, <1>5, <1>6

\* The threads that are being deleted after a step of the running thread.
LEMMA OffAfterStep ==
  ASSUME TypeOK, self \in Thread, NEW label, NEW x \in Thread,
         pc' = [pc EXCEPT ![self] = label],
         target' = [target EXCEPT ![self] = x]
  PROVE  LET D == {"timer_detach", "defunct"}
         IN  /\ pc[self] \notin D /\ label \notin D => Off' = Off
             /\ pc[self] \in D /\ label \in D /\ x = target[self] => Off' = Off
             /\ pc[self] \notin D /\ label \in D => Off' = Off \cup {x}
             /\ pc[self] \in D /\ label \notin D /\ CallsApart
                  => Off' = Off \ {target[self]}
<1> DEFINE D == {"timer_detach", "defunct"}
<1>1. PICK me \in Thread : me = self
  OBVIOUS
<1>2. /\ Off = {t \in Thread : \E u \in Thread : target[u] = t /\ pc[u] \in D}
      /\ Off' = {t \in Thread : \E u \in Thread : target'[u] = t /\ pc'[u] \in D}
  BY DEF Off, BeingDeleted
<1>3. /\ pc'[me] = label /\ target'[me] = x
      /\ \A u \in Thread \ {me} : pc'[u] = pc[u] /\ target'[u] = target[u]
      /\ target[me] \in Thread
  BY <1>1 DEF TypeOK
<1>4. CallsApart => \A u \in Thread \ {me} :
        pc[u] \in D /\ pc[me] \in D => target[u] # target[me]
  BY DEF CallsApart, Operating
<1> HIDE DEF D
<1>5. pc[me] \notin D /\ label \notin D => Off' = Off
  BY <1>2, <1>3
<1>6. pc[me] \in D /\ label \in D /\ x = target[me] => Off' = Off
  BY <1>2, <1>3
<1>7. pc[me] \notin D /\ label \in D => Off' = Off \cup {x}
  BY <1>2, <1>3
<1>8. pc[me] \in D /\ label \notin D /\ CallsApart => Off' = Off \ {target[me]}
  BY <1>2, <1>3, <1>4
<1>9. QED
  BY <1>1, <1>5, <1>6, <1>7, <1>8 DEF D

\* What is to be shown of a step of the running thread.
LEMMA ThreadStep ==
  ASSUME SchedInv, self \in Thread, NEW label \in PC, NEW x \in Thread,
         pc' = [pc EXCEPT ![self] = label],
         target' = [target EXCEPT ![self] = x],
         UNCHANGED <<remaining_tick, isr>>,
         label \in Operating =>
           \A v \in Thread \ {self} : pc[v] \in Operating => target[v] # x,
         KernelInv(k', Off'), CallsFit(k)', CpuFits(k)'
  PROVE  SchedInv'
<1>1. TypeOK /\ CallsApart
  BY DEF SchedInv
<1>2. TypeOK'
  BY <1>1 DEF TypeOK, KernelInv
<1>3. CallsApart'
  BY <1>1 DEF CallsApart, TypeOK
<1>4. QED
  BY <1>2, <1>3 DEF SchedInv, Fits

\* rt_schedule looks at the ready lists and the bitmap only.
LEMMA HighestIsOfLists ==
  ASSUME NEW kk \in KernelType, NEW u, u.ready_group = kk.ready_group,
         \A p \in Prio : u.list[p] = kk.list[p]
  PROVE  HighestReady(u) = HighestReady(kk)
<1> DEFINE top == CHOOSE p \in kk.ready_group : \A q \in kk.ready_group : p <= q
<1>1. CASE kk.ready_group = {}
  BY <1>1 DEF HighestReady
<1>2. CASE kk.ready_group # {}
  <2>1. kk.ready_group \subseteq Prio
    BY DEF KernelType
  <2>2. top \in kk.ready_group
    BY <1>2, <2>1, LowestPriority
  <2>3. HighestReady(kk) = FirstThread(kk, top) /\ HighestReady(u) = FirstThread(u, top)
    BY <1>2 DEF HighestReady
  <2> HIDE DEF top
  <2>4. QED
    BY <2>1, <2>2, <2>3 DEF FirstThread
<1>3. QED
  BY <1>1, <1>2

\* A step outside of the calls that leaves every thread its stat and timer.
LEMMA PlainStep ==
  ASSUME SchedInv, self \in Thread, NEW label \in PC \ (Operating \cup {"dead"}),
         NEW x \in Thread, pc[self] \notin Operating \cup {"dead"},
         pc' = [pc EXCEPT ![self] = label],
         target' = [target EXCEPT ![self] = x],
         UNCHANGED <<remaining_tick, isr>>,
         KernelInv(k', Off), k'.stat = k.stat, k'.timer = k.timer,
         k'.current_thread = k.current_thread,
         \A h \in Queue \cup {Defunct} : Nodes(k', h) = Nodes(k, h),
         HighestFits(k) => \/ label \in {"sched", "nap"} \/ k'.lock_nest # 0
                           \/ HighestReady(k') = k'.current_thread
  PROVE  SchedInv' /\ HighestKept
<1>1. TypeOK /\ CallsFit(k) /\ CpuFits(k) /\ self = k.current_thread
  BY DEF SchedInv, Fits, self
<1>2. CallsFit(k') /\ CpuFits(k')
  BY <1>1, SameThreadsFit
<1>3. Off' = Off
  BY <1>1, OffAfterStep DEF Operating
<1>4. /\ pc'[self] = label /\ k'.current_thread = self
      /\ \A v \in Thread \ {self} : pc'[v] = pc[v] /\ target'[v] = target[v]
  BY <1>1 DEF TypeOK
<1>5. CallsFit(k)'
  BY <1>2, <1>4 DEF CallsFit, Operating
<1>6. CpuFits(k)'
  <2>1. k'.stat[self] \in {"ready", "suspend"}
    BY <1>1 DEF CpuFits
  <2>2. \A t \in Thread : pc'[t] = "dead" => pc[t] = "dead"
    BY <1>4
  <2>3. QED
    BY <1>2, <1>4, <2>1, <2>2 DEF CpuFits
<1>7. HighestKept
  BY <1>4 DEF HighestKept, HighestFits
<1>8. QED
  BY <1>3, <1>5, <1>6, <1>7, ThreadStep

LEMMA RescheduleKeepsInv ==
  ASSUME SchedInv, Reschedule
  PROVE  SchedInv' /\ HighestKept /\ OrderKept(k, k', self)
<1>1. PICK label, next \in PC :
        /\ At(label) /\ label # "dead" /\ Continue(next) /\ k' = rt_schedule(k)
        /\ label \notin Operating /\ next \notin Operating \cup {"dead"}
  BY DEF Reschedule, PC, Operating
<1>2. self \in Thread /\ pc[self] = label
  BY <1>1, RunnerFacts
<1>3. TypeOK /\ Fits(k)
  BY DEF SchedInv
<1>4. /\ Fits(k') /\ k'.list = k.list
      /\ k'.lock_nest = 0 => k'.current_thread = HighestReady(k')
  BY <1>1, <1>3, ScheduleFits DEF Switched
<1>5. /\ pc' = [pc EXCEPT ![self] = next] /\ UNCHANGED <<remaining_tick, isr>>
      /\ target' = [target EXCEPT ![self] = target[self]]
      /\ target' = target /\ target[self] \in Thread
  BY <1>1, <1>2, <1>3 DEF Continue, Goto, TypeOK
<1>6. Off' = Off
  BY <1>1, <1>2, <1>3, <1>5, OffAfterStep DEF Operating
<1>7. \A v \in Thread : pc'[v] \in Operating \cup {"dead"} \/ pc[v] \in Operating \cup {"dead"}
        => pc'[v] = pc[v]
  BY <1>1, <1>2, <1>3, <1>5 DEF TypeOK
<1>8. CallsFit(k)' /\ CpuFits(k)'
  <2>1. CallsFit(k)'
    BY <1>4, <1>5, <1>7 DEF Fits, CallsFit, Operating
  <2>2. CpuFits(k)'
    BY <1>4, <1>5, <1>7 DEF Fits, CpuFits
  <2>3. QED
    BY <2>1, <2>2
<1>9. HighestKept
  BY <1>4 DEF HighestKept, HighestFits
<1>10. SchedInv'
  BY <1>1, <1>2, <1>4, <1>5, <1>6, <1>8, ThreadStep DEF Fits
<1>11. QED
  BY <1>4, <1>9, <1>10, SameListsKeepOrder

LEMMA ExitScheduleKeepsInv ==
  ASSUME SchedInv, ExitSchedule
  PROVE  SchedInv' /\ HighestKept /\ OrderKept(k, k', self)
<1>1. Fits(k) /\ remaining_tick \in [Thread -> 1 .. init_tick] /\ isr \in {"none", "check"}
  BY DEF SchedInv, TypeOK
<1>2. /\ k' = rt_schedule(k) /\ UNCHANGED <<pc, target>>
      /\ remaining_tick' = remaining_tick /\ isr' = isr
  BY DEF ExitSchedule
<1>3. Fits(k') /\ HighestFits(k') /\ k'.list = k.list
  BY <1>1, <1>2, ScheduleFits DEF Switched
<1>4. QED
  BY <1>1, <1>2, <1>3, InterruptFits, SameListsKeepOrder

\* The two halves of rt_enter_critical and rt_exit_critical.
LEMMA CriticalKeepsInv ==
  ASSUME SchedInv, EnterCritical \/ ExitCritical
  PROVE  SchedInv' /\ HighestKept /\ OrderKept(k, k', self)
<1>1. At("run") /\ self \in Thread /\ pc[self] = "run" /\ self = k.current_thread
  BY RunnerFacts DEF EnterCritical, ExitCritical, Free
<1>2. /\ TypeOK /\ Fits(k) /\ k \in KernelType /\ KernelInv(k, Off)
      /\ remaining_tick \in [Thread -> 1 .. init_tick] /\ isr \in {"none", "check"}
  BY DEF SchedInv, TypeOK, Fits, KernelInv
<1>3. PICK n \in Nat : /\ k' = [k EXCEPT !.lock_nest = n]
                       /\ \/ n # 0 /\ UNCHANGED <<pc, target, remaining_tick, isr>>
                          \/ Finish("sched")
  <2>1. k.lock_nest \in Nat
    BY <1>2 DEF KernelType
  <2>2. CASE EnterCritical
    <3>1. k' = [k EXCEPT !.lock_nest = k.lock_nest + 1] /\ k.lock_nest + 1 \in Nat
      BY <2>1, <2>2 DEF EnterCritical, rt_enter_critical
    <3>2. k.lock_nest + 1 # 0
      BY <2>1
    <3>3. QED
      BY <2>2, <3>1, <3>2 DEF EnterCritical
  <2>3. CASE ExitCritical
    <3>1. /\ k' = [k EXCEPT !.lock_nest = k.lock_nest - 1] /\ k.lock_nest - 1 \in Nat
      BY <2>1, <2>3 DEF ExitCritical, ExitCriticalSection
    <3>2. k'.lock_nest = k.lock_nest - 1
      BY <1>2, <3>1 DEF KernelType
    <3>3. QED
      BY <2>3, <3>1, <3>2 DEF ExitCritical
  <2>4. QED
    BY <2>2, <2>3
<1>4. /\ k' \in KernelType /\ k'.list = k.list /\ k'.ready_group = k.ready_group
      /\ k'.stat = k.stat /\ k'.timer = k.timer
      /\ k'.current_priority = k.current_priority
      /\ k'.number_mask = k.number_mask
      /\ k'.current_thread = k.current_thread /\ k'.lock_nest = n
  BY <1>2, <1>3 DEF KernelType
<1>5. KernelInv(k', Off) /\ \A h : Nodes(k', h) = Nodes(k, h)
  BY <1>2, <1>4, OtherFieldsKeepInv
<1>6. CASE n # 0 /\ UNCHANGED <<pc, target, remaining_tick, isr>>
  <2>1. Fits(k')
    BY <1>2, <1>4, <1>5, SameThreadsFit DEF Fits
  <2>2. HighestFits(k')
    BY <1>4, <1>6 DEF HighestFits
  <2>3. QED
    BY <1>2, <1>4, <1>6, <2>1, <2>2, InterruptFits, SameListsKeepOrder
<1>7. CASE Finish("sched")
  BY <1>1, <1>4, <1>5, <1>7, PlainStep, SameListsKeepOrder
     DEF Finish, Goto, PC, Operating
<1>8. QED
  BY <1>3, <1>6, <1>7

\* rt_thread_delay, whose caller may be suspended already if the scheduler
\* is locked.
LEMMA DelayReturnKeepsInv ==
  ASSUME SchedInv, DelayReturn
  PROVE  SchedInv' /\ HighestKept /\ OrderKept(k, k', self)
<1>1. self \in Thread /\ pc[self] = "wake" /\ self = k.current_thread
  BY RunnerFacts DEF DelayReturn
<1>2. /\ Fits(k) /\ k \in KernelType /\ KernelInv(k, Off)
  BY DEF SchedInv, Fits, KernelInv
<1>3. PICK e \in {k.error[self], "ok"} : k' = SetError(k, self, e)
  <2>1. SetError(k, self, k.error[self]) = k
    <3>1. [k.error EXCEPT ![self] = k.error[self]] = k.error
      BY <1>1, <1>2 DEF KernelType
    <3>2. QED
      BY <1>2, <3>1 DEF SetError, KernelType
  <2>2. QED
    BY <2>1 DEF DelayReturn
<1>4. e \in Error
  BY <1>1, <1>2 DEF KernelType, Error
<1>5. /\ KernelInv(k', Off) /\ \A h : Nodes(k', h) = Nodes(k, h)
      /\ k' = [k EXCEPT !.error = [k.error EXCEPT ![self] = e]]
  BY <1>2, <1>3, <1>4, ErrorKeepsInv
<1>6. /\ k'.list = k.list /\ k'.ready_group = k.ready_group
      /\ k'.stat = k.stat /\ k'.timer = k.timer
      /\ k'.current_thread = k.current_thread /\ k'.lock_nest = k.lock_nest
  BY <1>2, <1>5 DEF KernelType
<1>7. HighestFits(k) => k'.lock_nest # 0 \/ HighestReady(k') = k'.current_thread
  BY <1>1, <1>2, <1>6, HighestIsOfLists DEF HighestFits
<1>8. Finish("run")
  BY DEF DelayReturn, Return
<1>9. QED
  BY <1>1, <1>5, <1>6, <1>7, <1>8, PlainStep, SameListsKeepOrder
     DEF Finish, Goto, PC, Operating

LEMMA YieldStepKeepsInv ==
  ASSUME SchedInv, Yield
  PROVE  SchedInv' /\ HighestKept /\ OrderKept(k, k', self)
<1>1. self \in Thread /\ pc[self] = "run" /\ self = k.current_thread /\ self \notin Off
  BY RunnerFacts DEF Yield, Free
<1>2. Fits(k) /\ k \in KernelType /\ KernelInv(k, Off) /\ NoRepeats(k)
  BY DEF SchedInv, Fits, KernelInv
<1>3. CASE YieldMoves(k, self)
  <2>1. k' = YieldSection(k, self) /\ Finish("sched")
    BY <1>3 DEF Yield
  <2>2. k.stat[self] = "ready"
    BY <1>3 DEF YieldMoves
  <2>3. /\ KernelInv(k', Off) /\ SameNodes(k, k')
        /\ k'.stat = k.stat /\ k'.timer = k.timer
        /\ k'.current_thread = k.current_thread
    BY <1>1, <1>2, <2>1, <2>2, YieldKeepsInv
  <2>4. OrderKept(k, k', self)
    BY <1>1, <1>2, <2>1, YieldKeepsOrder
  <2>5. QED
    BY <1>1, <2>1, <2>3, <2>4, PlainStep
       DEF Finish, Goto, PC, Operating, SameNodes, ListHead
<1>4. CASE ~YieldMoves(k, self)
  <2>1. UNCHANGED vars
    BY <1>4 DEF Yield
  <2>2. QED
    BY <2>1, InterruptFits, SameListsKeepOrder DEF vars, SchedInv, TypeOK
<1>5. QED
  BY <1>3, <1>4

\* rt_thread_control may leave the highest thread waiting.
LEMMA ControlKeepsInv ==
  ASSUME SchedInv, NEW t \in Thread, NEW p \in Prio, Control(t, p)
  PROVE  SchedInv'
<1>1. self \in Thread /\ pc[self] = "run" /\ self = k.current_thread
  BY RunnerFacts DEF Control, Free
<1>2. /\ TypeOK /\ Fits(k) /\ KernelInv(k, Off) /\ CallsFit(k) /\ CpuFits(k)
  BY DEF SchedInv, Fits
<1>3. t \notin Off /\ k' = ChangePriority(k, t, p) /\ Finish("run")
  BY DEF Control, Busy, Off, BeingDeleted, Return
<1>4. /\ KernelInv(k', Off)
      /\ \A h \in Queue \cup {Defunct} : Nodes(k', h) = Nodes(k, h)
      /\ Reprioritized(k, k', t, p)
  BY <1>2, <1>3, ChangePriorityKeepsInv
<1>5. CallsFit(k') /\ CpuFits(k')
  BY <1>2, <1>4, SameThreadsFit DEF Reprioritized
<1>6. /\ pc' = [pc EXCEPT ![self] = "run"] /\ pc' = pc
      /\ target' = [target EXCEPT ![self] = self] /\ UNCHANGED <<remaining_tick, isr>>
      /\ \A v \in Thread \ {self} : target'[v] = target[v]
  BY <1>1, <1>2, <1>3 DEF Finish, Goto, TypeOK
<1>7. Off' = Off
  BY <1>1, <1>2, <1>6, OffAfterStep
<1>8. CallsFit(k)'
  BY <1>1, <1>5, <1>6 DEF CallsFit
<1>9. CpuFits(k)'
  BY <1>5, <1>6 DEF CpuFits
<1>10. QED
  BY <1>1, <1>4, <1>6, <1>7, <1>8, <1>9, ThreadStep DEF PC, Operating

\* A call of rt_schedule that begins.
LEMMA ScheduleCallKeepsInv ==
  ASSUME SchedInv, Schedule
  PROVE  SchedInv' /\ HighestKept /\ OrderKept(k, k', self)
<1>1. self \in Thread /\ pc[self] = "run" /\ self = k.current_thread
  BY RunnerFacts DEF Schedule, Free
<1>2. KernelInv(k, Off) /\ k' = k /\ Finish("sched")
  BY DEF SchedInv, Fits, Schedule
<1>3. QED
  BY <1>1, <1>2, PlainStep, SameListsKeepOrder DEF Finish, Goto, PC, Operating

-----------------------------------------------------------------------------
(* The calls that operate on a thread *)

\* No call operates on t.
LEMMA NotBusy ==
  ASSUME NEW t, ~Busy(t)
  PROVE  /\ \A v \in Thread : pc[v] \in Operating => target[v] # t
         /\ t \notin Off
BY DEF Busy, Operating, Off, BeingDeleted

LEMMA StartupStepKeepsInv ==
  ASSUME SchedInv, NEW t \in Thread, Startup(t)
  PROVE  SchedInv' /\ HighestKept /\ OrderKept(k, k', self)
<1>1. /\ self \in Thread /\ pc[self] = "run" /\ self = k.current_thread
      /\ k.stat[self] \in {"ready", "suspend"}
  BY RunnerFacts DEF Startup, Free
<1>2. /\ TypeOK /\ CallsFit(k) /\ CpuFits(k) /\ k \in KernelType
      /\ KernelInv(k, Off)
  BY DEF SchedInv, Fits, KernelInv
<1>3. /\ k.stat[t] = "init" /\ Call("start_unlink", t)
      /\ k' = [SetPriority(k, t, init_priority[t]) EXCEPT !.stat[t] = "suspend"]
      /\ (\A v \in Thread : pc[v] \in Operating => target[v] # t) /\ t \notin Off
  BY NotBusy DEF Startup
<1>4. /\ KernelInv(k', Off) /\ SameNodes(k, k')
      /\ k'.stat = [k.stat EXCEPT ![t] = "suspend"]
      /\ k'.timer = k.timer /\ k'.current_thread = k.current_thread
      /\ k'.lock_nest = k.lock_nest
  BY <1>2, <1>3, StartupKeepsInv
<1>5. k'.list = k.list /\ k'.ready_group = k.ready_group
  BY <1>2, <1>3 DEF SetPriority, KernelType
<1>6. /\ pc' = [pc EXCEPT ![self] = "start_unlink"]
      /\ target' = [target EXCEPT ![self] = t] /\ UNCHANGED <<remaining_tick, isr>>
      /\ pc'[self] = "start_unlink" /\ target'[self] = t
      /\ \A v \in Thread \ {self} : pc'[v] = pc[v] /\ target'[v] = target[v]
  BY <1>1, <1>2, <1>3 DEF Call, Goto, TypeOK
<1>7. Off' = Off
  BY <1>1, <1>2, <1>6, OffAfterStep
<1>8. /\ k'.stat[t] = "suspend" /\ ~k'.timer[t] /\ t # self
      /\ \A x \in Thread \ {t} : k'.stat[x] = k.stat[x]
      /\ \A h \in Queue \cup {Defunct} : Nodes(k', h) = Nodes(k, h)
  <2>1. k.stat \in [Thread -> Stat] /\ ~k.timer[t]
    BY <1>2, <1>3 DEF KernelInv, WaitersSuspended, KernelType
  <2>2. \A h \in Queue \cup {Defunct} : Nodes(k', h) = Nodes(k, h)
    BY <1>4 DEF SameNodes, ListHead
  <2>3. QED
    BY <1>1, <1>3, <1>4, <2>1, <2>2
<1>9. CallsFit(k)'
  BY <1>1, <1>2, <1>3, <1>4, <1>6, <1>8 DEF CallsFit, Operating, TypeOK
<1>10. CpuFits(k)'
  BY <1>1, <1>2, <1>3, <1>4, <1>6, <1>8 DEF CpuFits
<1>11. HighestKept
  BY <1>1, <1>2, <1>4, <1>5, HighestIsOfLists DEF HighestKept, HighestFits
<1>12. SchedInv'
  <2>1. "start_unlink" \in PC
    BY DEF PC
  <2>2. KernelInv(k', Off')
    BY <1>4, <1>7
  <2>3. \A v \in Thread \ {self} : pc[v] \in Operating => target[v] # t
    BY <1>3
  <2>4. QED
    BY <1>1, <1>6, <1>9, <1>10, <2>1, <2>2, <2>3, ThreadStep
<1>13. QED
  BY <1>5, <1>11, <1>12, SameListsKeepOrder

\* rt_thread_resume and rt_thread_suspend up to their tests of stat.
LEMMA TestsKeepInv ==
  ASSUME SchedInv, Unguarded = {}, NEW t \in Thread, Resume(t) \/ Suspend(t)
  PROVE  SchedInv' /\ HighestKept /\ OrderKept(k, k', self)
<1>1. /\ self \in Thread /\ pc[self] = "run" /\ self = k.current_thread
      /\ k.stat[self] \in {"ready", "suspend"}
  BY RunnerFacts DEF Resume, Suspend, Free
<1>2. /\ TypeOK /\ CallsFit(k) /\ CpuFits(k)
      /\ KernelInv(k, Off)
  BY DEF SchedInv, Fits
<1>3. k' = k /\ \A v \in Thread : pc[v] \in Operating => target[v] # t
  BY NotBusy DEF Resume, Suspend
<1>4. CASE Resume(t) /\ k.stat[t] # "suspend"
  <2>1. Finish("run")
    BY <1>4 DEF Resume, Return
  <2>2. HighestFits(k) => k.lock_nest # 0 \/ HighestReady(k) = k.current_thread
    BY <1>1, <1>2 DEF HighestFits
  <2>3. QED
    BY <1>1, <1>2, <1>3, <2>1, <2>2, PlainStep, SameListsKeepOrder
       DEF Finish, Goto, PC, Operating
<1>5. CASE \/ Resume(t) /\ k.stat[t] = "suspend"
           \/ Suspend(t)
  <2>1. PICK label \in {"unlink", "suspend"} :
          /\ Call(label, t)
          /\ label = "unlink" => k.stat[t] = "suspend" /\ ~k.timer[t]
          /\ label = "suspend" => t # Idle /\ k.stat[t] = "ready"
    BY <1>5 DEF Resume, Suspend
  <2>2. /\ pc' = [pc EXCEPT ![self] = label]
        /\ target' = [target EXCEPT ![self] = t] /\ UNCHANGED <<remaining_tick, isr>>
        /\ pc'[self] = label /\ target'[self] = t
        /\ \A v \in Thread \ {self} : pc'[v] = pc[v] /\ target'[v] = target[v]
    BY <1>1, <1>2, <2>1 DEF Call, Goto, TypeOK
  <2>3. Off' = Off
    BY <1>1, <1>2, <2>2, OffAfterStep
  <2>4. CallsFit(k)'
    BY <1>1, <1>2, <1>3, <2>1, <2>2 DEF CallsFit
  <2>5. CpuFits(k)'
    BY <1>1, <1>2, <1>3, <2>2 DEF CpuFits
  <2>6. HighestKept
    BY <1>1, <1>2, <1>3, <2>2 DEF HighestKept, HighestFits
  <2>7. KernelInv(k', Off')
    BY <1>2, <1>3, <2>3
  <2>8. SchedInv'
    BY <1>1, <1>3, <2>2, <2>4, <2>5, <2>7, ThreadStep DEF PC
  <2>9. QED
    BY <1>3, <2>6, <2>8, SameListsKeepOrder
<1>6. QED
  BY <1>4, <1>5

\* rt_thread_delete: the thread is off the lists and not closed yet.
LEMMA DeleteKeepsInv ==
  ASSUME SchedInv, Unguarded = {}, NEW t \in Thread, Delete(t)
  PROVE  SchedInv' /\ HighestKept /\ OrderKept(k, k', self)
<1>1. /\ self \in Thread /\ pc[self] = "run" /\ self = k.current_thread
      /\ k.stat[self] \in {"ready", "suspend"}
  BY RunnerFacts DEF Delete, Free
<1>2. /\ TypeOK /\ CallsFit(k) /\ CpuFits(k) /\ k \in KernelType /\ NoRepeats(k)
      /\ KernelInv(k, Off)
  BY DEF SchedInv, Fits, KernelInv
<1>3. /\ t \notin {self, Idle} /\ k.stat[t] \in {"ready", "suspend"} /\ ~k.timer[t]
      /\ k' = rt_schedule_remove_thread(k, t) /\ Call("timer_detach", t)
      /\ \A v \in Thread : pc[v] \in Operating => target[v] # t
  BY NotBusy DEF Delete
<1>4. /\ KernelInv(k', Off \cup {t}) /\ TakenOff(k, k', t)
      /\ k'.current_thread = k.current_thread /\ k'.lock_nest = k.lock_nest
      /\ k'.stat = k.stat /\ k'.timer = k.timer
  BY <1>2, <1>3, TakeOffKeepsInv DEF OnlyThread
<1>5. \A x : OrderKept(k, k', x)
  BY <1>2, <1>3, TakeOffKeepsOrder
<1>6. /\ pc' = [pc EXCEPT ![self] = "timer_detach"]
      /\ target' = [target EXCEPT ![self] = t] /\ UNCHANGED <<remaining_tick, isr>>
      /\ pc'[self] = "timer_detach" /\ target'[self] = t
      /\ \A v \in Thread \ {self} : pc'[v] = pc[v] /\ target'[v] = target[v]
  BY <1>1, <1>2, <1>3 DEF Call, Goto, TypeOK
<1>7. Off' = Off \cup {t}
  BY <1>1, <1>2, <1>6, OffAfterStep
<1>8. Nodes(k', Defunct) \subseteq Nodes(k, Defunct)
      /\ \A h \in Queue : Nodes(k', h) = {}
  BY <1>2, <1>4 DEF TakenOff, ListHead, CpuFits
<1>9. CallsFit(k)'
  BY <1>1, <1>2, <1>3, <1>4, <1>6, <1>8 DEF CallsFit
<1>10. CpuFits(k)'
  BY <1>1, <1>2, <1>4, <1>6, <1>8 DEF CpuFits
<1>11. HighestKept
  BY <1>1, <1>2, <1>3, <1>4, <1>5, <1>6, HighestAfterRemoval
     DEF HighestKept, HighestFits
<1>12. SchedInv'
  <2>1. "timer_detach" \in PC
    BY DEF PC
  <2>2. KernelInv(k', Off')
    BY <1>4, <1>7
  <2>3. \A v \in Thread \ {self} : pc[v] \in Operating => target[v] # t
    BY <1>3
  <2>4. QED
    BY <1>1, <1>3, <1>6, <1>9, <1>10, <2>1, <2>2, <2>3, ThreadStep
<1>13. QED
  BY <1>5, <1>11, <1>12

\* The two critical sections of rt_thread_resume.
LEMMA ResumeUnlinkKeepsInv ==
  ASSUME SchedInv, ResumeUnlink
  PROVE  SchedInv' /\ HighestKept /\ OrderKept(k, k', self)
<1> DEFINE t == target[self]
<1>1. PICK label \in {"unlink", "start_unlink"}, next \in {"insert", "start_insert"} :
        /\ self \in Thread /\ pc[self] = label /\ self = k.current_thread
        /\ Continue(next)
  BY RunnerFacts DEF ResumeUnlink
<1>2. /\ TypeOK /\ Fits(k) /\ CallsFit(k) /\ CpuFits(k) /\ k \in KernelType
      /\ KernelInv(k, Off) /\ CallsApart
  BY DEF SchedInv, Fits, KernelInv
<1>3. t \in Thread /\ k.stat[t] = "suspend" /\ ~k.timer[t]
  BY <1>1, <1>2 DEF CallsFit, TypeOK
<1>4. k' = k
  BY <1>2, <1>3, SleeperIsUnlinked, ResumeInTwoSections DEF ResumeUnlink
<1>5. /\ pc' = [pc EXCEPT ![self] = next] /\ target' = target
      /\ target' = [target EXCEPT ![self] = t] /\ UNCHANGED <<remaining_tick, isr>>
      /\ pc'[self] = next
      /\ \A v \in Thread \ {self} : pc'[v] = pc[v]
  BY <1>1, <1>2, <1>3, <1>4 DEF Continue, Goto, TypeOK
<1>6. Off' = Off
  BY <1>1, <1>2, <1>3, <1>5, OffAfterStep
<1>7. CallsFit(k)' /\ CpuFits(k)' /\ HighestKept
  <2>1. CallsFit(k)'
    BY <1>1, <1>2, <1>4, <1>5 DEF CallsFit
  <2>2. CpuFits(k)'
    BY <1>1, <1>2, <1>4, <1>5 DEF CpuFits
  <2>3. QED
    BY <1>1, <1>2, <1>4, <1>5, <2>1, <2>2 DEF HighestKept, HighestFits
<1>8. \A v \in Thread \ {self} : pc[v] \in Operating => target[v] # t
  BY <1>1, <1>2 DEF CallsApart, Operating
<1>9. KernelInv(k', Off')
  BY <1>2, <1>4, <1>6
<1>10. SchedInv'
  BY <1>1, <1>3, <1>5, <1>7, <1>8, <1>9, ThreadStep DEF PC
<1>11. QED
  BY <1>4, <1>7, <1>10, SameListsKeepOrder

LEMMA ResumeInsertKeepsInv ==
  ASSUME SchedInv, ResumeInsert
  PROVE  SchedInv' /\ (At("insert") \/ HighestKept) /\ OrderKept(k, k', self)
<1> DEFINE t == target[self]
<1>1. PICK label \in {"insert", "start_insert"}, next \in {"run", "sched"} :
        /\ self \in Thread /\ pc[self] = label /\ self = k.current_thread
        /\ Finish(next) /\ (next = "run" => At("insert"))
  BY RunnerFacts DEF ResumeInsert, Return
<1>2. /\ TypeOK /\ Fits(k) /\ CallsFit(k) /\ CpuFits(k) /\ k \in KernelType
      /\ KernelInv(k, Off) /\ CallsApart /\ Queue \cup {Defunct} \subseteq ListHead
  BY DEF SchedInv, Fits, KernelInv, ListHead
<1>3. t \in Thread /\ k.stat[t] = "suspend" /\ ~k.timer[t] /\ Unlinked(k, t)
  BY <1>1, <1>2, SleeperIsUnlinked DEF CallsFit, TypeOK
<1>4. k' = rt_thread_resume(k, t)
  BY <1>2, <1>3, ResumeInTwoSections DEF ResumeInsert
<1>5. \A v \in Thread \ {self} : pc[v] \in Operating => target[v] # t
  BY <1>1, <1>2 DEF CallsApart, Operating
<1>6. t \notin Off
  BY <1>1, <1>2, <1>5 DEF Off, BeingDeleted, Operating
<1>7. KernelInv(k', Off) /\ HasResumed(k, k', t) /\ OrderKept(k, k', self)
  BY <1>2, <1>3, <1>4, <1>6, ResumeKeepsInv, ResumeKeepsOrder
<1>8. /\ k'.stat = [k.stat EXCEPT ![t] = "ready"]
      /\ k'.timer = [k.timer EXCEPT ![t] = FALSE]
      /\ k'.current_thread = k.current_thread
      /\ k.stat \in [Thread -> Stat] /\ k.timer \in [Thread -> BOOLEAN]
  BY <1>2, <1>7 DEF HasResumed, KernelType
<1>9. \A h \in Queue \cup {Defunct} : Nodes(k', h) = Nodes(k, h)
  <2>1. \A h \in Queue \cup {Defunct} :
          t \notin Nodes(k, h) /\ h # k.current_priority[t] /\ h \in ListHead
    BY <1>2, <1>3, OwnReadyList, HeadsAreDistinct DEF Unlinked
  <2>2. \A h \in ListHead : h # k.current_priority[t] =>
                               Nodes(k', h) = Nodes(k, h) \ {t}
    BY <1>7 DEF HasResumed, MadeReady
  <2>3. QED
    BY <2>1, <2>2
<1>10. /\ pc' = [pc EXCEPT ![self] = next]
       /\ target' = [target EXCEPT ![self] = self] /\ UNCHANGED <<remaining_tick, isr>>
       /\ pc'[self] = next
       /\ \A v \in Thread \ {self} : pc'[v] = pc[v] /\ target'[v] = target[v]
  BY <1>1, <1>2, <1>4 DEF Finish, Goto, TypeOK
<1>11. Off' = Off
  BY <1>1, <1>2, <1>10, OffAfterStep
<1>12. CallsFit(k)'
  BY <1>2, <1>5, <1>8, <1>9, <1>10 DEF CallsFit, Operating
<1>13. CpuFits(k)'
  BY <1>1, <1>2, <1>3, <1>8, <1>9, <1>10 DEF CpuFits
<1>14. At("insert") \/ HighestKept
  BY <1>1, <1>8, <1>10 DEF HighestKept, HighestFits
<1>15. SchedInv'
  BY <1>1, <1>7, <1>10, <1>11, <1>12, <1>13, ThreadStep DEF PC, Operating
<1>16. QED
  BY <1>7, <1>14, <1>15

\* The rest of rt_thread_suspend.
LEMMA SuspendRestKeepsInv ==
  ASSUME SchedInv, SuspendRest
  PROVE  SchedInv' /\ HighestKept /\ OrderKept(k, k', self)
<1> DEFINE t == target[self]
<1>1. /\ self \in Thread /\ pc[self] = "suspend" /\ self = k.current_thread
      /\ k.stat[self] \in {"ready", "suspend"}
  BY RunnerFacts DEF SuspendRest
<1>2. /\ TypeOK /\ Fits(k) /\ CallsFit(k) /\ CpuFits(k) /\ k \in KernelType
      /\ KernelInv(k, Off) /\ CallsApart /\ NoRepeats(k)
  BY DEF SchedInv, Fits, KernelInv
<1>3. t \in Thread /\ t # Idle /\ k.stat[t] \in {"ready", "suspend"}
  BY <1>1, <1>2 DEF CallsFit, TypeOK
<1>4. k' = SuspendSection(k, t)
  BY DEF SuspendRest
<1>5. \A v \in Thread \ {self} : pc[v] \in Operating => target[v] # t
  BY <1>1, <1>2 DEF CallsApart, Operating
<1>6. t \notin Off
  BY <1>1, <1>2, <1>5 DEF Off, BeingDeleted, Operating
<1>7. /\ KernelInv(k', Off) /\ Suspended(k, k', t)
      /\ \A x : OrderKept(k, k', x)
  BY <1>2, <1>3, <1>4, <1>6, SuspendKeepsInv, SuspendKeepsOrder
<1>8. /\ k'.stat = [k.stat EXCEPT ![t] = "suspend"]
      /\ k'.timer = [k.timer EXCEPT ![t] = FALSE]
      /\ k'.current_thread = k.current_thread /\ k'.lock_nest = k.lock_nest
      /\ k.stat \in [Thread -> Stat] /\ k.timer \in [Thread -> BOOLEAN]
      /\ TakenOff(k, k', t)
  BY <1>2, <1>7 DEF Suspended, KernelType
<1>9. /\ \A h \in Queue : Nodes(k', h) = {}
      /\ Nodes(k', Defunct) \subseteq Nodes(k, Defunct)
  BY <1>2, <1>8 DEF TakenOff, ListHead, CpuFits
<1>10. PICK label \in {"sched", "run"} :
         Finish(label) /\ (label = "run" => t # self)
  BY DEF SuspendRest, Return
<1>11. /\ pc' = [pc EXCEPT ![self] = label]
       /\ target' = [target EXCEPT ![self] = self] /\ UNCHANGED <<remaining_tick, isr>>
       /\ pc'[self] = label
       /\ \A v \in Thread \ {self} : pc'[v] = pc[v] /\ target'[v] = target[v]
  BY <1>1, <1>2, <1>10 DEF Finish, Goto, TypeOK
<1>12. Off' = Off
  BY <1>1, <1>2, <1>11, OffAfterStep
<1>13. CallsFit(k)'
  BY <1>2, <1>5, <1>8, <1>9, <1>11 DEF CallsFit, Operating
<1>14. CpuFits(k)'
  BY <1>1, <1>2, <1>3, <1>8, <1>9, <1>11 DEF CpuFits
<1>15. HighestKept
  <2>1. HighestFits(k) /\ t # self /\ k.lock_nest = 0 => HighestReady(k') = self
    BY <1>1, <1>2, <1>3, <1>7, <1>8, HighestAfterRemoval DEF HighestFits
  <2>2. QED
    BY <1>1, <1>8, <1>10, <1>11, <2>1 DEF HighestKept, HighestFits
<1>16. SchedInv'
  BY <1>1, <1>7, <1>11, <1>12, <1>13, <1>14, ThreadStep DEF PC, Operating
<1>17. QED
  BY <1>7, <1>15, <1>16

\* The later critical sections of rt_thread_delete: nothing has become of the
\* thread since the first.
LEMMA DeleteTimerKeepsInv ==
  ASSUME SchedInv, DeleteTimer
  PROVE  SchedInv' /\ HighestKept /\ OrderKept(k, k', self)
<1> DEFINE t == target[self]
<1>1. self \in Thread /\ pc[self] = "timer_detach" /\ self = k.current_thread
  BY RunnerFacts DEF DeleteTimer
<1>2. /\ TypeOK /\ Fits(k) /\ CallsFit(k) /\ CpuFits(k) /\ k \in KernelType
      /\ KernelInv(k, Off) /\ CallsApart
  BY DEF SchedInv, Fits, KernelInv
<1>3. t \in Thread /\ ~k.timer[t]
  BY <1>1, <1>2 DEF CallsFit, TypeOK
<1>4. k' = k /\ Continue("defunct")
  BY <1>2, <1>3, StopTimerOfNone DEF DeleteTimer
<1>5. /\ pc' = [pc EXCEPT ![self] = "defunct"] /\ target' = target
      /\ target' = [target EXCEPT ![self] = t] /\ UNCHANGED <<remaining_tick, isr>>
      /\ pc'[self] = "defunct"
      /\ \A v \in Thread \ {self} : pc'[v] = pc[v]
  BY <1>1, <1>2, <1>3, <1>4 DEF Continue, Goto, TypeOK
<1>6. Off' = Off
  BY <1>1, <1>2, <1>3, <1>5, OffAfterStep
<1>7. CallsFit(k)' /\ CpuFits(k)' /\ HighestKept
  <2>1. CallsFit(k)'
    BY <1>1, <1>2, <1>4, <1>5 DEF CallsFit
  <2>2. CpuFits(k)'
    BY <1>1, <1>2, <1>4, <1>5 DEF CpuFits
  <2>3. QED
    BY <1>1, <1>2, <1>4, <1>5, <2>1, <2>2 DEF HighestKept, HighestFits
<1>8. \A v \in Thread \ {self} : pc[v] \in Operating => target[v] # t
  BY <1>1, <1>2 DEF CallsApart, Operating
<1>9. KernelInv(k', Off')
  BY <1>2, <1>4, <1>6
<1>10. SchedInv'
  BY <1>1, <1>3, <1>5, <1>7, <1>8, <1>9, ThreadStep DEF PC
<1>11. QED
  BY <1>4, <1>7, <1>10, SameListsKeepOrder

LEMMA DeleteDefunctKeepsInv ==
  ASSUME SchedInv, DeleteDefunct
  PROVE  SchedInv' /\ HighestKept /\ OrderKept(k, k', self)
<1> DEFINE t == target[self]
           c == [k EXCEPT !.stat[t] = "close"]
<1>1. /\ self \in Thread /\ pc[self] = "defunct" /\ self = k.current_thread
      /\ k.stat[self] \in {"ready", "suspend"}
  BY RunnerFacts DEF DeleteDefunct
<1>2. /\ TypeOK /\ Fits(k) /\ CallsFit(k) /\ CpuFits(k) /\ k \in KernelType
      /\ KernelInv(k, Off) /\ CallsApart
      /\ Defunct \in ListHead /\ Queue \subseteq ListHead /\ Defunct \notin Queue
  BY HeadsAreDistinct DEF SchedInv, Fits, KernelInv, ListHead
<1>3. /\ t \in Thread /\ k.stat[t] \in {"ready", "suspend"} /\ ~k.timer[t]
      /\ t # self /\ t \in Off
  BY <1>1, <1>2 DEF CallsFit, TypeOK, Off, BeingDeleted
<1>4. t # Idle /\ Unlinked(k, t)
  BY <1>2, <1>3 DEF KernelInv, ReadyAreListed, WaitersSuspended, Unlinked,
     ListHead, CpuFits
<1>5. /\ KernelInv(c, Off \ {t}) /\ SameNodes(k, c) /\ OnlyThread(k, c, t)
      /\ c.stat = [k.stat EXCEPT ![t] = "close"] /\ c.timer = k.timer
      /\ c.list = k.list /\ c.ready_group = k.ready_group
  BY <1>2, <1>3, <1>4, RetireKeepsInv
<1>6. k' = IF t \in Static THEN c ELSE LinkFirst(c, Defunct, t)
  BY DEF DeleteDefunct
<1> HIDE DEF c
<1>7. Unlinked(c, t) /\ c.stat[t] = "close"
  BY <1>2, <1>3, <1>4, <1>5 DEF Unlinked, SameNodes, KernelType
<1>8. /\ KernelInv(k', Off \ {t})
      /\ k'.stat = [k.stat EXCEPT ![t] = "close"] /\ k'.timer = k.timer
      /\ k'.current_thread = k.current_thread /\ k'.lock_nest = k.lock_nest
      /\ k'.ready_group = k.ready_group /\ \A p \in Prio : k'.list[p] = k.list[p]
      /\ \A h \in Queue : Nodes(k', h) = Nodes(k, h)
      /\ Nodes(k', Defunct) \subseteq Nodes(k, Defunct) \cup {t}
  <2>1. CASE t \in Static
    BY <1>2, <1>5, <1>6, <2>1 DEF OnlyThread, SameNodes
  <2>2. CASE t \notin Static
    <3>1. k' = LinkFirst(c, Defunct, t)
      BY <1>6, <2>2
    <3>2. /\ KernelInv(k', Off \ {t}) /\ OnlyThread(c, k', t)
          /\ k'.stat = c.stat /\ k'.timer = c.timer
          /\ k'.ready_group = c.ready_group
          /\ \A p \in Prio : k'.list[p] = c.list[p]
          /\ \A g \in ListHead :
               Nodes(k', g) = IF g = Defunct THEN Nodes(c, g) \cup {t} ELSE Nodes(c, g)
      <4>1. t \in Thread /\ KernelInv(c, Off \ {t}) /\ c.stat[t] = "close" /\ Unlinked(c, t)
        BY <1>3, <1>5, <1>7
      <4> HIDE DEF t
      <4>2. QED
        BY <3>1, <4>1, BuryKeepsInv
    <3>3. QED
      BY <1>2, <1>5, <3>2 DEF OnlyThread, SameNodes
  <2>3. QED
    BY <2>1, <2>2
<1>9. /\ pc' = [pc EXCEPT ![self] = "run"]
      /\ target' = [target EXCEPT ![self] = self] /\ UNCHANGED <<remaining_tick, isr>>
      /\ pc'[self] = "run"
      /\ \A v \in Thread \ {self} : pc'[v] = pc[v] /\ target'[v] = target[v]
  BY <1>1, <1>2 DEF DeleteDefunct, Return, Finish, Goto, TypeOK
<1>10. Off' = Off \ {t}
  BY <1>1, <1>2, <1>9, OffAfterStep
<1>11. \A v \in Thread \ {self} : pc[v] \in Operating => target[v] # t
  BY <1>1, <1>2 DEF CallsApart, Operating
<1>12. k.stat \in [Thread -> Stat]
  BY <1>2 DEF KernelType
<1>13. CallsFit(k)'
  BY <1>2, <1>8, <1>9, <1>11, <1>12 DEF CallsFit, Operating
<1>14. CpuFits(k)'
  BY <1>1, <1>2, <1>3, <1>8, <1>9, <1>12 DEF CpuFits
<1>15. HighestKept
  BY <1>1, <1>2, <1>8, <1>9, HighestIsOfLists DEF HighestKept, HighestFits
<1>16. SchedInv'
  BY <1>1, <1>8, <1>9, <1>10, <1>13, <1>14, ThreadStep DEF PC, Operating
<1>17. QED
  BY <1>8, <1>15, <1>16, SameListsKeepOrder

\* The idle thread.
LEMMA ReapKeepsInv ==
  ASSUME SchedInv, Reap
  PROVE  SchedInv' /\ HighestKept /\ OrderKept(k, k', self)
<1> DEFINE t == FirstThread(k, Defunct)
<1>1. /\ self \in Thread /\ pc[self] = "run" /\ self = k.current_thread
      /\ k.stat[self] \in {"ready", "suspend"}
  BY RunnerFacts DEF Reap
<1>2. /\ TypeOK /\ CallsFit(k) /\ CpuFits(k) /\ k \in KernelType
      /\ KernelInv(k, Off) /\ NoRepeats(k)
      /\ Defunct \in ListHead /\ Queue \subseteq ListHead
  BY DEF SchedInv, Fits, KernelInv, ListHead
<1>3. t # Wild /\ k' = Unlink(k, t) /\ Call("release", t)
  BY DEF Reap
<1>4. t \in Nodes(k, Defunct) /\ t \in Thread
  BY <1>2, <1>3, FirstThreadEffect
<1>5. k.stat[t] = "close" /\ t # self
  BY <1>1, <1>2, <1>4 DEF KernelInv, WaitersSuspended
<1> HIDE DEF t
<1>6. \A v \in Thread : pc[v] \in Operating => target[v] # t
  BY <1>2, <1>4, <1>5 DEF CallsFit, Operating
<1>7. /\ KernelInv(k', Off) /\ TakenOff(k, k', t)
      /\ k'.stat = k.stat /\ k'.timer = k.timer
      /\ k'.current_thread = k.current_thread /\ k'.lock_nest = k.lock_nest
  BY <1>2, <1>3, <1>4, <1>5, UnlinkKeepsInv DEF OnlyThread
<1>8. \A x : OrderKept(k, k', x)
  BY <1>2, <1>3, <1>4, TakeOffKeepsOrder
<1>9. /\ pc' = [pc EXCEPT ![self] = "release"]
      /\ target' = [target EXCEPT ![self] = t] /\ UNCHANGED <<remaining_tick, isr>>
      /\ pc'[self] = "release" /\ target'[self] = t
      /\ \A v \in Thread \ {self} : pc'[v] = pc[v] /\ target'[v] = target[v]
  BY <1>1, <1>2, <1>3 DEF Call, Goto, TypeOK
<1>10. Off' = Off
  BY <1>1, <1>2, <1>4, <1>9, OffAfterStep
<1>11. /\ \A h \in Queue : Nodes(k', h) = {}
       /\ Nodes(k', Defunct) = Nodes(k, Defunct) \ {t}
  BY <1>2, <1>7 DEF TakenOff, CpuFits
<1>12. CallsFit(k)'
  BY <1>1, <1>2, <1>5, <1>7, <1>9, <1>11 DEF CallsFit
<1>13. CpuFits(k)'
  BY <1>1, <1>2, <1>7, <1>9, <1>11 DEF CpuFits
<1>14. HighestKept
  <2>1. HighestFits(k) /\ k.lock_nest = 0 => HighestReady(k') = self
    BY <1>1, <1>2, <1>4, <1>5, <1>7, <1>8, HighestAfterRemoval DEF HighestFits
  <2>2. QED
    BY <1>1, <1>7, <1>9, <2>1 DEF HighestKept, HighestFits
<1>15. SchedInv'
  <2>1. "release" \in PC
    BY DEF PC
  <2>2. KernelInv(k', Off')
    BY <1>7, <1>10
  <2>3. \A v \in Thread \ {self} : pc[v] \in Operating => target[v] # t
    BY <1>6
  <2>4. QED
    BY <1>1, <1>4, <1>9, <1>12, <1>13, <2>1, <2>2, <2>3, ThreadStep
<1>16. QED
  BY <1>8, <1>14, <1>15

LEMMA ReapReleaseKeepsInv ==
  ASSUME SchedInv, ReapRelease
  PROVE  SchedInv' /\ HighestKept /\ OrderKept(k, k', self)
<1> DEFINE t == target[self]
<1>1. /\ self \in Thread /\ pc[self] = "release" /\ self = k.current_thread
      /\ k.stat[self] \in {"ready", "suspend"}
  BY RunnerFacts DEF ReapRelease
<1>2. /\ TypeOK /\ CallsFit(k) /\ CpuFits(k) /\ k \in KernelType
      /\ KernelInv(k, Off) /\ CallsApart
      /\ Defunct \in ListHead /\ Queue \subseteq ListHead
  BY DEF SchedInv, Fits, KernelInv, ListHead
<1>3. /\ t \in Thread /\ k.stat[t] = "close" /\ t # self
      /\ t \notin Nodes(k, Defunct)
  BY <1>1, <1>2 DEF CallsFit, TypeOK
<1>4. t # Idle /\ Unlinked(k, t) /\ ~k.timer[t]
  BY <1>2, <1>3 DEF KernelInv, ReadyAreListed, WaitersSuspended, Unlinked,
     ListHead, CpuFits
<1>5. \A v \in Thread \ {self} : pc[v] \in Operating => target[v] # t
  BY <1>1, <1>2 DEF CallsApart, Operating
<1>6. Off \ {t} = Off
  BY <1>1, <1>5 DEF Off, BeingDeleted, Operating
<1>7. /\ KernelInv(k', Off \ {t}) /\ SameNodes(k, k') /\ OnlyThread(k, k', t)
      /\ k'.stat = [k.stat EXCEPT ![t] = "free"] /\ k'.timer = k.timer
      /\ k'.list = k.list /\ k'.ready_group = k.ready_group
  BY <1>2, <1>3, <1>4, RetireKeepsInv DEF ReapRelease
<1>8. /\ pc' = [pc EXCEPT ![self] = "run"]
      /\ target' = [target EXCEPT ![self] = self] /\ UNCHANGED <<remaining_tick, isr>>
      /\ pc'[self] = "run"
      /\ \A v \in Thread \ {self} : pc'[v] = pc[v] /\ target'[v] = target[v]
  BY <1>1, <1>2 DEF ReapRelease, Return, Finish, Goto, TypeOK
<1>9. Off' = Off
  BY <1>1, <1>2, <1>8, OffAfterStep
<1>10. /\ k.stat \in [Thread -> Stat]
       /\ \A h \in Queue \cup {Defunct} : Nodes(k', h) = Nodes(k, h)
       /\ k'.current_thread = k.current_thread /\ k'.lock_nest = k.lock_nest
  BY <1>2, <1>7 DEF KernelType, SameNodes, OnlyThread
<1>11. CallsFit(k)'
  BY <1>2, <1>5, <1>7, <1>8, <1>10 DEF CallsFit, Operating
<1>12. CpuFits(k)'
  BY <1>1, <1>2, <1>3, <1>7, <1>8, <1>10 DEF CpuFits
<1>13. HighestKept
  BY <1>1, <1>2, <1>7, <1>8, <1>10, HighestIsOfLists DEF HighestKept, HighestFits
<1>14. KernelInv(k', Off')
  BY <1>6, <1>7, <1>9
<1>15. SchedInv'
  BY <1>1, <1>8, <1>11, <1>12, <1>14, ThreadStep DEF PC, Operating
<1>16. QED
  BY <1>7, <1>13, <1>15, SameListsKeepOrder

-----------------------------------------------------------------------------
(* The calls a thread makes on itself *)

LEMMA DelayKeepsInv ==
  ASSUME SchedInv, Delay
  PROVE  SchedInv' /\ HighestKept /\ OrderKept(k, k', self)
<1> DEFINE b == rt_thread_suspend(k, self)
<1>1. /\ self \in Thread /\ pc[self] = "run" /\ self = k.current_thread
      /\ k.stat[self] \in {"ready", "suspend"} /\ self \notin Off
      /\ \A v \in Thread : pc[v] \in Operating \ {"suspend"} => target[v] # self
  BY RunnerFacts DEF Delay, Free
<1>2. PICK me \in Thread \ {Idle} : me = self
  BY <1>1 DEF Delay, Free
<1>3. /\ TypeOK /\ CallsFit(k) /\ CpuFits(k) /\ k \in KernelType
      /\ KernelInv(k, Off) /\ NoRepeats(k)
      /\ Defunct \in ListHead /\ Queue \subseteq ListHead
      /\ k.stat \in [Thread -> Stat] /\ k.timer \in [Thread -> BOOLEAN]
  BY DEF SchedInv, Fits, KernelInv, ListHead, KernelType
<1>4. /\ KernelInv(b, Off) /\ \A x : OrderKept(k, b, x)
      /\ b.stat = [k.stat EXCEPT ![me] = "suspend"]
      /\ \A x \in Thread \ {me} : b.timer[x] = k.timer[x]
      /\ b.current_thread = k.current_thread
      /\ \A h \in Queue : Nodes(b, h) = {}
      /\ Nodes(b, Defunct) \subseteq Nodes(k, Defunct)
  <2>1. CASE k.stat[me] = "ready"
    <3>1. b = SuspendSection(k, me)
      BY <1>2, <2>1 DEF rt_thread_suspend
    <3>2. /\ KernelInv(b, Off) /\ Suspended(k, b, me)
          /\ \A x : OrderKept(k, b, x)
      BY <1>1, <1>2, <1>3, <2>1, <3>1, SuspendKeepsInv, SuspendKeepsOrder
    <3> HIDE DEF b
    <3>3. QED
      BY <1>3, <3>2 DEF Suspended, TakenOff, CpuFits
  <2>2. CASE k.stat[me] # "ready"
    <3>1. b = k
      BY <1>2, <2>2 DEF rt_thread_suspend
    <3>2. k.stat = [k.stat EXCEPT ![me] = "suspend"]
      BY <1>1, <1>2, <1>3, <2>2
    <3>3. QED
      BY <1>3, <3>1, <3>2, SameListsKeepOrder DEF CpuFits
  <2>3. QED
    BY <2>1, <2>2
<1>5. k' = StartTimer(b, me) /\ Continue("nap")
  BY <1>2 DEF Delay
<1> HIDE DEF b
<1>6. b.stat[me] = "suspend" /\ b \in KernelType
  BY <1>3, <1>4 DEF KernelInv
<1>7. /\ KernelInv(k', Off) /\ \A h : Nodes(k', h) = Nodes(b, h)
      /\ k' = [b EXCEPT !.timer = [b.timer EXCEPT ![me] = TRUE]]
  BY <1>4, <1>5, <1>6, StartTimerKeepsInv
<1>8. /\ k'.list = b.list /\ k'.stat = b.stat
      /\ k'.timer = [b.timer EXCEPT ![me] = TRUE]
      /\ k'.current_thread = b.current_thread
      /\ b.timer \in [Thread -> BOOLEAN]
  BY <1>6, <1>7 DEF KernelType
<1>9. /\ pc' = [pc EXCEPT ![self] = "nap"] /\ UNCHANGED <<remaining_tick, isr>>
      /\ target' = [target EXCEPT ![self] = target[self]] /\ target' = target
      /\ pc'[self] = "nap" /\ target[self] \in Thread
      /\ \A v \in Thread \ {self} : pc'[v] = pc[v]
  BY <1>1, <1>3, <1>5 DEF Continue, Goto, TypeOK
<1>10. Off' = Off
  BY <1>1, <1>3, <1>9, OffAfterStep
<1>11. /\ \A x \in Thread \ {me} : k'.stat[x] = k.stat[x] /\ k'.timer[x] = k.timer[x]
       /\ k'.stat[me] = "suspend" /\ k'.current_thread = me /\ k.current_thread = me
       /\ Nodes(k', Defunct) \subseteq Nodes(k, Defunct)
       /\ \A h \in Queue : Nodes(k', h) = {}
       /\ pc'[me] = "nap" /\ \A v \in Thread \ {me} : pc'[v] = pc[v]
  <2>1. k.current_thread = me /\ k'.current_thread = me
    BY <1>1, <1>2, <1>4, <1>8
  <2>2. /\ \A x \in Thread \ {me} : k'.stat[x] = k.stat[x]
        /\ k'.stat[me] = "suspend"
    BY <1>3, <1>4, <1>8
  <2>3. \A x \in Thread \ {me} : k'.timer[x] = k.timer[x]
    BY <1>4, <1>8
  <2>4. /\ Nodes(k', Defunct) \subseteq Nodes(k, Defunct)
        /\ \A h \in Queue : Nodes(k', h) = {}
    BY <1>4, <1>7
  <2>5. pc'[me] = "nap" /\ \A v \in Thread \ {me} : pc'[v] = pc[v]
    BY <1>2, <1>9
  <2>6. QED
    BY <2>1, <2>2, <2>3, <2>4, <2>5
<1>12. CallsFit(k)'
  <2>1. \A v \in Thread : pc'[v] \in Operating =>
          v # me /\ pc[v] = pc'[v] /\ target'[v] = target[v] /\ target[v] \in Thread
    BY <1>3, <1>9, <1>11 DEF Operating, TypeOK
  <2>2. \A v \in Thread : pc'[v] \in Operating \ {"suspend"} => target[v] # me
    BY <1>1, <1>2, <2>1
  <2>3. QED
    BY <1>3, <1>11, <2>1, <2>2 DEF CallsFit, Operating
<1>13. CpuFits(k)' /\ HighestKept
  BY <1>3, <1>11 DEF CpuFits, HighestKept, HighestFits
<1>14. SchedInv'
  BY <1>1, <1>7, <1>9, <1>10, <1>12, <1>13, ThreadStep DEF PC, Operating
<1>15. OrderKept(k, k', self)
  BY <1>4, <1>8, OrderIsOfLists
<1>16. QED
  BY <1>13, <1>14, <1>15

\* rt_thread_exit takes the thread off its list, and may put it on the list of
\* the defunct.
LEMMA ExitKeepsOrder ==
  ASSUME NEW kk \in KernelType, NoRepeats(kk), NEW t \in Thread,
         NEW static \in BOOLEAN
  PROVE  \A x : OrderKept(kk, ExitSection(kk, t, static), x)
<1> DEFINE r == rt_schedule_remove_thread(kk, t)
           c == StopTimer([r EXCEPT !.stat[t] = "close"], t)
           u == ExitSection(kk, t, static)
<1>1. /\ r.list = Unlink(kk, t).list
      /\ \A h \in ListHead :
           Unlink(kk, t).list[h] = rt_list_remove(kk.list[h], t)
  BY TakeOffKeepsOrder
<1>2. r \in KernelType
  <2>1. Unlink(kk, t) \in KernelType
    BY UnlinkEffect
  <2>2. QED
    BY <2>1 DEF rt_schedule_remove_thread, KernelType
<1> HIDE DEF r
<1>3. c \in KernelType /\ c.list = r.list
  BY <1>2 DEF StopTimer, KernelType, Stat
<1>4. u = IF static THEN c ELSE LinkFirst(c, Defunct, t)
  BY DEF ExitSection, r
<1> HIDE DEF c, u
<1>5. \A p \in Prio : u.list[p] = c.list[p]
  BY <1>3, <1>4, HeadsAreDistinct DEF LinkFirst, KernelType
<1>6. \A p \in Prio : u.list[p] = rt_list_remove(kk.list[p], t)
  BY <1>1, <1>3, <1>5 DEF ListHead
<1>7. QED
  BY <1>6, RemovalKeepsOrder DEF u

LEMMA ExitStepKeepsInv ==
  ASSUME SchedInv, Exit
  PROVE  SchedInv' /\ HighestKept /\ OrderKept(k, k', self)
<1>1. /\ self \in Thread /\ pc[self] = "run" /\ self = k.current_thread
      /\ k.stat[self] \in {"ready", "suspend"} /\ self \notin Off
  BY RunnerFacts DEF Exit, Free
<1>2. PICK me \in Thread \ {Idle} : me = self
  BY <1>1 DEF Exit, Free
<1>3. /\ TypeOK /\ CallsFit(k) /\ CpuFits(k) /\ k \in KernelType
      /\ KernelInv(k, Off) /\ NoRepeats(k)
      /\ Defunct \in ListHead /\ Queue \subseteq ListHead /\ Defunct \notin Queue
  BY HeadsAreDistinct DEF SchedInv, Fits, KernelInv, ListHead
<1>4. /\ \A v \in Thread : pc[v] \in Operating => target[v] # me
      /\ Continue("dead")
      /\ \E static \in BOOLEAN : k' = ExitSection(k, me, static)
  <2>1. /\ ~Busy(me) /\ k' = ExitSection(k, me, me \in Static)
        /\ Continue("dead") /\ (me \in Static) \in BOOLEAN
    BY <1>2 DEF Exit
  <2>2. \E static \in BOOLEAN : k' = ExitSection(k, me, static)
    <3>1. CASE me \in Static
      <4>1. (me \in Static) = TRUE
        BY <3>1
      <4>2. k' = ExitSection(k, me, TRUE)
        BY <2>1, <4>1
      <4>3. QED
        BY <4>2
    <3>2. CASE me \notin Static
      <4>1. (me \in Static) = FALSE
        BY <3>2
      <4>2. k' = ExitSection(k, me, FALSE)
        BY <2>1, <4>1
      <4>3. QED
        BY <4>2
    <3>3. QED
      BY <3>1, <3>2
  <2>3. QED
    BY <1>2, <2>1, <2>2, NotBusy
<1>5. /\ KernelInv(k', Off) /\ OnlyThread(k, k', me)
      /\ k'.stat[me] = "close" /\ ~k'.timer[me]
      /\ \A h \in ListHead \ {Defunct} : Nodes(k', h) = Nodes(k, h) \ {me}
      /\ \A x \in Thread \ {me} :
           x \in Nodes(k', Defunct) <=> x \in Nodes(k, Defunct)
  BY <1>1, <1>2, <1>3, <1>4, ExitKeepsInv
<1>6. OrderKept(k, k', self)
  <2>1. PICK static \in BOOLEAN : k' = ExitSection(k, me, static)
    BY <1>4
  <2>2. \A x : OrderKept(k, ExitSection(k, me, static), x)
    BY <1>3, ExitKeepsOrder
  <2>3. QED
    BY <2>1, <2>2
<1>7. /\ pc' = [pc EXCEPT ![self] = "dead"] /\ UNCHANGED <<remaining_tick, isr>>
      /\ target' = [target EXCEPT ![self] = target[self]] /\ target' = target
      /\ pc'[self] = "dead" /\ target[self] \in Thread
      /\ \A v \in Thread \ {self} : pc'[v] = pc[v]
  BY <1>1, <1>3, <1>4 DEF Continue, Goto, TypeOK
<1>8. Off' = Off
  BY <1>1, <1>3, <1>7, OffAfterStep
<1>9. \A h \in Queue : Nodes(k', h) = {}
  BY <1>3, <1>5 DEF CpuFits
<1>10. CallsFit(k)'
  BY <1>1, <1>2, <1>3, <1>4, <1>5, <1>7 DEF CallsFit, Operating, OnlyThread, TypeOK
<1>11. CpuFits(k)'
  BY <1>1, <1>2, <1>3, <1>5, <1>7, <1>9 DEF CpuFits, OnlyThread
<1>12. HighestKept
  BY <1>1, <1>5, <1>7 DEF HighestKept, HighestFits, OnlyThread
<1>13. SchedInv'
  BY <1>1, <1>5, <1>7, <1>8, <1>10, <1>11, ThreadStep DEF PC, Operating
<1>14. QED
  BY <1>6, <1>12, <1>13

-----------------------------------------------------------------------------
(* The theorems *)

LEMMA InitEstablishesSchedInv ==
  Init => SchedInv
<1> SUFFICES ASSUME Init
             PROVE  SchedInv
  OBVIOUS
<1> DEFINE top == PriorityMax - 1
           first == init_priority[Boot]
<1>1. /\ Boot \in Thread /\ Idle \in Thread /\ Boot # Idle
      /\ first \in Prio /\ top \in Prio /\ first < top
      /\ init_priority \in [Thread -> Prio] /\ init_priority[Idle] = top
      /\ Prio \subseteq Int
  BY IdleIsLowestThread, PriorityMaxIsPositive, InitPriorityType, BootType DEF Prio
<1>2. /\ first \notin Queue \cup {Defunct} /\ top \notin Queue \cup {Defunct}
      /\ Prio \subseteq ListHead
  BY <1>1, HeadsAreDistinct DEF ListHead
<1>3. /\ pc = [t \in Thread |-> "run"] /\ target = [t \in Thread |-> t]
      /\ remaining_tick = [t \in Thread |-> init_tick] /\ isr = "none"
      /\ k.stat = [t \in Thread |-> IF t \in {Idle, Boot} THEN "ready" ELSE "init"]
      /\ k.current_priority = init_priority
      /\ k.timer = [t \in Thread |-> FALSE]
      /\ k.list = [h \in ListHead |-> IF h = first THEN <<Boot>>
                                      ELSE IF h = top THEN <<Idle>> ELSE << >>]
      /\ k.ready_group = {first, top}
      /\ k.current_thread = Boot /\ k.lock_nest = 0
      /\ \A t \in {Idle, Boot} : k.number_mask[t] = {init_priority[t]}
  BY <1>1 DEF Init
<1>4. k \in KernelType
  <2>1. PICK stale \in [Thread -> StaleMask] :
          k = [ stat |-> [t \in Thread |->
                            IF t \in {Idle, Boot} THEN "ready" ELSE "init"],
                current_priority |-> init_priority,
                number_mask |-> [t \in Thread |-> IF t \in {Idle, Boot}
                                  THEN {init_priority[t]} ELSE stale[t]],
                error |-> [t \in Thread |-> "ok"],
                timer |-> [t \in Thread |-> FALSE],
                list  |-> [h \in ListHead |->
                             IF h = init_priority[Boot] THEN <<Boot>>
                             ELSE IF h = PriorityMax - 1 THEN <<Idle>>
                             ELSE << >>],
                ready_group |-> {init_priority[Boot], PriorityMax - 1},
                current_thread |-> Boot,
                lock_nest |-> 0 ]
    BY DEF Init
  <2>2. \A t \in Thread : stale[t] \in SUBSET Prio
    BY BoundsType
  <2>3. [t \in Thread |-> IF t \in {Idle, Boot} THEN {init_priority[t]} ELSE stale[t]]
          \in [Thread -> SUBSET Prio]
    BY <1>1, <2>2
  <2>4. [h \in ListHead |-> IF h = init_priority[Boot] THEN <<Boot>>
                            ELSE IF h = PriorityMax - 1 THEN <<Idle>> ELSE << >>]
          \in [ListHead -> Seq(Thread)]
    BY <1>1
  <2>5. QED
    BY <1>1, <2>1, <2>3, <2>4 DEF KernelType, Stat, Error
<1>5. \A h \in ListHead :
        Nodes(k, h) = IF h = first THEN {Boot} ELSE IF h = top THEN {Idle} ELSE {}
  <2>1. ToSet(<<Boot>>) = {Boot} /\ ToSet(<<Idle>>) = {Idle} /\ ToSet(<< >>) = {}
    BY DEF ToSet
  <2>2. QED
    BY <1>3, <2>1 DEF Nodes
<1>6. NoRepeats(k)
  BY <1>3 DEF NoRepeats, NoRepeat
<1>7. Off = {}
  BY <1>3 DEF Off, BeingDeleted
<1> HIDE DEF first, top
<1>8. Disjoint(k)
  BY <1>1, <1>5 DEF Disjoint
<1>9. GroupIsExact(k)
  BY <1>1, <1>2, <1>3, <1>5 DEF GroupIsExact
<1>10. ReadyAreListed(k, Off)
  <2>1. init_priority[Boot] = first /\ init_priority[Idle] = top
    BY <1>1 DEF first
  <2>2. \A p \in Prio :
          Nodes(k, p) = IF p = first THEN {Boot} ELSE IF p = top THEN {Idle} ELSE {}
    BY <1>2, <1>5
  <2>3. \A t \in Thread : /\ k.stat[t] = "ready" <=> t \in {Idle, Boot}
                          /\ k.current_priority[t] = init_priority[t]
    BY <1>3
  <2>4. first # top
    BY <1>1
  <2>5. QED
    BY <1>1, <1>7, <2>1, <2>2, <2>3, <2>4 DEF ReadyAreListed
<1>11. MaskIsPriority(k) /\ WaitersSuspended(k)
  <2>1. MaskIsPriority(k)
    BY <1>3 DEF MaskIsPriority
  <2>2. \A h \in Queue \cup {Defunct} : Nodes(k, h) = {}
    BY <1>2, <1>5 DEF ListHead
  <2>3. QED
    BY <1>3, <2>1, <2>2 DEF WaitersSuspended
<1>12. KernelInv(k, Off)
  BY <1>1, <1>3, <1>4, <1>6, <1>7, <1>8, <1>9, <1>10, <1>11 DEF KernelInv
<1>13. CallsApart /\ CallsFit(k)
  BY <1>3 DEF CallsApart, CallsFit, Operating
<1>14. CpuFits(k)
  BY <1>1, <1>2, <1>3, <1>5 DEF CpuFits, ListHead
<1>15. TypeOK
  BY <1>1, <1>3, <1>4, BoundsType DEF TypeOK, PC
<1>16. QED
  BY <1>12, <1>13, <1>14, <1>15 DEF SchedInv, Fits

\* Every step preserves the invariant, the steps that may leave the highest
\* thread off the CPU are those that LeavesReschedule names, and only
\* rt_thread_control changes the order of a ready list otherwise than by moving
\* the running thread.
LEMMA NextKeepsSchedInv ==
  ASSUME SchedInv, Unguarded = {}, Next
  PROVE  /\ SchedInv' /\ (HighestKept \/ LeavesReschedule)
         /\ OrderKept(k, k', self) \/ \E t \in Thread, p \in Prio : Control(t, p)
<1>1. CASE KernelStep
  BY <1>1, ResumeUnlinkKeepsInv, ResumeInsertKeepsInv, SuspendRestKeepsInv,
     DelayReturnKeepsInv, RescheduleKeepsInv, DeleteTimerKeepsInv,
     DeleteDefunctKeepsInv, ExitScheduleKeepsInv, ReapReleaseKeepsInv
     DEF KernelStep, LeavesReschedule
<1>2. CASE ApplicationStep
  BY <1>2, StartupStepKeepsInv, TestsKeepInv, DeleteKeepsInv, ControlKeepsInv,
     DelayKeepsInv, YieldStepKeepsInv, ScheduleCallKeepsInv, CriticalKeepsInv,
     ExitStepKeepsInv DEF ApplicationStep, LeavesReschedule
<1>3. CASE Reap
  BY <1>3, ReapKeepsInv
<1>4. CASE Interrupt
  BY <1>4, TickKeepsInv, TimerCheckEndKeepsInv, TimerCheckKeepsInv,
     DeviceIsrKeepsInv DEF Interrupt
<1>5. QED
  BY <1>1, <1>2, <1>3, <1>4 DEF Next

\* The inductive invariant.  Its only hypothesis is that the application makes
\* none of the uses Scheduler names in Use, which the code does not protect.
THEOREM SchedulerInvariance ==
  ASSUME Unguarded = {}
  PROVE  Spec => []SchedInv
<1>1. Init => SchedInv
  BY InitEstablishesSchedInv
<1>2. SchedInv /\ [Next]_vars => SchedInv'
  <2> SUFFICES ASSUME SchedInv, [Next]_vars
               PROVE  SchedInv'
    OBVIOUS
  <2>1. CASE Next
    BY <2>1, NextKeepsSchedInv
  <2>2. CASE UNCHANGED vars
    BY <2>2, InterruptFits DEF vars, SchedInv, TypeOK
  <2>3. QED
    BY <2>1, <2>2
<1>3. QED
  BY <1>1, <1>2, PTL DEF Spec

\* Lists, bitmap, thread states and timers agree between any two critical
\* sections of scheduler.c and thread.c.
THEOREM SchedulerReadyLists ==
  ASSUME Unguarded = {}
  PROVE  Spec => []ReadyLists
<1>1. SchedInv => ReadyLists
  BY SchedInvImplies
<1>2. QED
  BY <1>1, SchedulerInvariance, PTL

\* But for rt_thread_control and rt_thread_resume, which leave the reschedule
\* to their caller, no step takes the CPU from the highest ready thread, and
\* every call of rt_schedule gives it back.
THEOREM SchedulerHighestRuns ==
  ASSUME Unguarded = {}
  PROVE  Spec => HighestRuns
<1>1. SchedInv /\ SchedInv' /\ [Next]_vars =>
        [LeavesReschedule \/ (RunsHighest => RunsHighest')]_vars
  <2> SUFFICES ASSUME SchedInv, SchedInv', Next
               PROVE  LeavesReschedule \/ (RunsHighest => RunsHighest')
    OBVIOUS
  <2>1. (RunsHighest <=> HighestFits(k)) /\ (RunsHighest <=> HighestFits(k))'
    BY SchedInvImplies, PTL
  <2>2. HighestKept \/ LeavesReschedule
    BY NextKeepsSchedInv
  <2>3. QED
    BY <2>1, <2>2 DEF HighestKept
<1>2. QED
  BY <1>1, SchedulerInvariance, PTL DEF Spec, HighestRuns

\* A closed or freed thread does not get the CPU, and is in no list that could
\* give it the CPU.
THEOREM SchedulerClosedNeverRuns ==
  ASSUME Unguarded = {}
  PROVE  Spec => []ClosedNeverRuns
<1>1. SchedInv => ClosedNeverRuns
  BY SchedInvImplies
<1>2. QED
  BY <1>1, SchedulerInvariance, PTL

\* Threads of one priority take turns: none is passed over but by a change of
\* priorities.
THEOREM SchedulerNoOvertaking ==
  ASSUME Unguarded = {}
  PROVE  Spec => NoOvertaking
<1>1. SchedInv /\ [Next]_vars =>
        [(~ \E t \in Thread, p \in Prio : Control(t, p)) =>
           \A p \in Prio, a, b \in Thread :
             /\ Before(k.list[p], a, b) /\ a # self
             /\ {a, b} \subseteq ToSet(k'.list[p])
             => Before(k'.list[p], a, b)]_vars
  <2> SUFFICES ASSUME SchedInv, Next,
                      ~ \E t \in Thread, p \in Prio : Control(t, p)
               PROVE  \A p \in Prio, a, b \in Thread :
                        /\ Before(k.list[p], a, b) /\ a # self
                        /\ {a, b} \subseteq ToSet(k'.list[p])
                        => Before(k'.list[p], a, b)
    OBVIOUS
  <2>1. OrderKept(k, k', self)
    BY NextKeepsSchedInv
  <2>2. QED
    BY <2>1 DEF OrderKept, Nodes
<1>2. QED
  BY <1>1, SchedulerInvariance, PTL DEF Spec, NoOvertaking
=============================================================================
