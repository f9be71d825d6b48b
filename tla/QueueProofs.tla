---------------------------- MODULE QueueProofs ----------------------------
(***************************************************************************)
(* The mailbox is a bounded queue that loses no wakeup, a completion       *)
(* reports what is done, the memory pool keeps its blocks and loses no     *)
(* wakeup, a data queue is a bounded queue that strands nobody, a pipe is  *)
(* a stream of bytes that never stands still, and the message queue keeps  *)
(* its messages, delivers them in order and loses no wakeup: with any of   *)
(* them nobody sleeps in vain, for any threads, priorities, sizes, values  *)
(* and uses.                                                               *)
(***************************************************************************)
EXTENDS Queues, MemPool, IpcProofs, FiniteSetTheorems

-----------------------------------------------------------------------------
(* The ring of a mailbox *)

\* The place i places after o.
Wrapped(o, i) == IF o + i < size THEN o + i ELSE o + i - size

LEMMA WrapIsMod ==
  \A o \in Offset : \A i \in 0 .. size : (o + i) % size = Wrapped(o, i)
<1> SUFFICES ASSUME NEW o \in Offset, NEW i \in 0 .. size
             PROVE  (o + i) % size = Wrapped(o, i)
  OBVIOUS
<1>1. size \in Nat \ {0} /\ o \in 0 .. size - 1
  BY MailboxType DEF Offset
<1>2. \A n \in Nat \ {0} : \A j \in 0 .. n - 1 : j % n = j
  OBVIOUS
<1>3. \A n \in Nat \ {0} : \A j \in n .. 2 * n - 1 : j % n = j - n
  OBVIOUS
<1>4. CASE o + i < size
  BY <1>1, <1>2, <1>4 DEF Wrapped
<1>5. CASE o + i >= size
  BY <1>1, <1>3, <1>5 DEF Wrapped
<1> QED BY <1>1, <1>4, <1>5

RingTypes ==
  /\ msg_pool \in [Offset -> Mail \cup {Nil}]
  /\ entry \in 0 .. size
  /\ in_offset \in Offset /\ out_offset \in Offset
  /\ mail \in [Thread -> Mail \cup {Nil}]

\* The offsets are as far apart as there are mails.
RingInv == RingTypes /\ in_offset = Wrapped(out_offset, entry)

\* The mails in the ring, first to last.
Mails == [i \in 1 .. entry |-> msg_pool[(out_offset + i - 1) % size]]

LEMMA MailPlaces ==
  ASSUME RingInv
  PROVE  /\ Mails = [i \in 1 .. entry |-> msg_pool[Wrapped(out_offset, i - 1)]]
         /\ Mails \in Seq(Mail \cup {Nil}) /\ Len(Mails) = entry
         /\ \A i \in 1 .. entry : Mails[i] = msg_pool[Wrapped(out_offset, i - 1)]
         /\ \A i \in 0 .. size : Wrapped(out_offset, i) \in Offset
<1>1. size \in Nat \ {0} /\ out_offset \in Offset /\ entry \in 0 .. size
  BY MailboxType DEF RingInv, RingTypes
<1>2. \A i \in 0 .. size : Wrapped(out_offset, i) \in Offset
  BY <1>1 DEF Wrapped, Offset
<1>3. ASSUME NEW i \in 1 .. entry
      PROVE  (out_offset + i - 1) % size = Wrapped(out_offset, i - 1)
  <2>1. i - 1 \in 0 .. size /\ out_offset + i - 1 = out_offset + (i - 1)
    BY <1>1 DEF Offset
  <2> QED BY <1>1, <2>1, WrapIsMod
<1>4. Mails = [i \in 1 .. entry |-> msg_pool[Wrapped(out_offset, i - 1)]]
  BY <1>3 DEF Mails
<1>5. \A i \in 1 .. entry : i - 1 \in 0 .. size
  BY <1>1
<1>6. /\ Mails \in [1 .. entry -> Mail \cup {Nil}]
      /\ \A i \in 1 .. entry : Mails[i] = msg_pool[Wrapped(out_offset, i - 1)]
  BY <1>2, <1>4, <1>5 DEF RingInv, RingTypes
<1>7. Mails \in Seq(Mail \cup {Nil}) /\ Len(Mails) = entry
  BY <1>1, <1>6
<1> QED BY <1>2, <1>4, <1>6, <1>7

\* What a step does to the ring.
RingKept == UNCHANGED <<msg_pool, entry, in_offset, out_offset, received>>

RingCleared == /\ entry' = 0 /\ in_offset' = 0 /\ out_offset' = 0
               /\ UNCHANGED <<msg_pool, received>>

RingStep == \/ RingKept
            \/ \E m \in Mail : Put(m)
            \/ Get
            \/ RingCleared

LEMMA PutAppends ==
  ASSUME RingInv, NEW m \in Mail, Put(m), mail' \in [Thread -> Mail \cup {Nil}]
  PROVE  RingInv' /\ Fifo!FifoSend(m)
<1>1. /\ size \in Nat \ {0} /\ entry \in 0 .. size /\ entry < size
      /\ in_offset \in Offset /\ out_offset \in Offset
      /\ in_offset = Wrapped(out_offset, entry)
      /\ in_offset' = NextOffset(in_offset) /\ entry' = entry + 1
      /\ out_offset' = out_offset /\ received' = received
      /\ msg_pool \in [Offset -> Mail \cup {Nil}]
      /\ msg_pool' = [msg_pool EXCEPT ![in_offset] = m]
  BY MailboxType DEF RingInv, RingTypes, Put
<1>2. RingInv'
  <2>1. msg_pool' \in [Offset -> Mail \cup {Nil}]
    BY <1>1
  <2>2. entry' \in 0 .. size /\ in_offset' \in Offset /\ out_offset' \in Offset
    BY <1>1 DEF NextOffset, Offset
  <2>3. in_offset' = Wrapped(out_offset', entry')
    BY <1>1 DEF NextOffset, Offset, Wrapped
  <2> QED BY <2>1, <2>2, <2>3 DEF RingInv, RingTypes
<1>3. /\ Mails \in Seq(Mail \cup {Nil}) /\ Len(Mails) = entry
      /\ \A i \in 1 .. entry : Mails[i] = msg_pool[Wrapped(out_offset, i - 1)]
      /\ \A i \in 0 .. size : Wrapped(out_offset, i) \in Offset
  BY MailPlaces
<1>4. /\ Mails' \in Seq(Mail \cup {Nil}) /\ Len(Mails') = entry'
      /\ \A i \in 1 .. entry' : Mails'[i] = msg_pool'[Wrapped(out_offset', i - 1)]
  <2>1. RingInv' => /\ (Mails \in Seq(Mail \cup {Nil}))' /\ (Len(Mails) = entry)'
                    /\ (\A i \in 1 .. entry : Mails[i] = msg_pool[Wrapped(out_offset, i - 1)])'
    BY MailPlaces, PTL
  <2> QED BY <1>2, <2>1
<1>5. ASSUME NEW i \in 1 .. entry + 1
      PROVE  Mails'[i] = IF i = entry + 1 THEN m ELSE Mails[i]
  <2>1. Mails'[i] = msg_pool'[Wrapped(out_offset, i - 1)] /\ i - 1 \in 0 .. size
        /\ Wrapped(out_offset, i - 1) \in Offset
    BY <1>1, <1>3, <1>4
  <2>2. CASE i = entry + 1
    BY <1>1, <2>1, <2>2
  <2>3. CASE i # entry + 1
    <3>1. i \in 1 .. entry /\ Wrapped(out_offset, i - 1) # in_offset
      BY <1>1, <2>3 DEF Wrapped, Offset
    <3> QED BY <1>1, <1>3, <2>1, <3>1
  <2> QED BY <2>2, <2>3
<1>6. Mails' = Append(Mails, m)
  <2>1. Append(Mails, m) \in Seq(Mail \cup {Nil})
    BY <1>3
  <2>2. Len(Append(Mails, m)) = entry + 1
    BY <1>3
  <2>3. \A i \in 1 .. entry + 1 : Append(Mails, m)[i] = IF i = entry + 1 THEN m ELSE Mails[i]
    BY <1>1, <1>3
  <2> HIDE DEF Mails
  <2> QED BY <1>1, <1>4, <1>5, <2>1, <2>2, <2>3, SeqEqual
<1> QED BY <1>1, <1>2, <1>3, <1>6 DEF Fifo!FifoSend, Mails

LEMMA GetTakesFirst ==
  ASSUME RingInv, Get, mail' \in [Thread -> Mail \cup {Nil}]
  PROVE  RingInv' /\ Fifo!FifoRecv
<1>1. /\ size \in Nat \ {0} /\ entry \in 0 .. size /\ entry > 0
      /\ in_offset \in Offset /\ out_offset \in Offset
      /\ in_offset = Wrapped(out_offset, entry)
      /\ out_offset' = NextOffset(out_offset) /\ entry' = entry - 1
      /\ in_offset' = in_offset /\ received' = msg_pool[out_offset]
      /\ msg_pool \in [Offset -> Mail \cup {Nil}] /\ msg_pool' = msg_pool
  BY MailboxType DEF RingInv, RingTypes, Get
<1>2. RingInv'
  <2>1. entry' \in 0 .. size /\ in_offset' \in Offset /\ out_offset' \in Offset
    BY <1>1 DEF NextOffset, Offset
  <2>2. in_offset' = Wrapped(out_offset', entry')
    BY <1>1 DEF NextOffset, Offset, Wrapped
  <2> QED BY <1>1, <2>1, <2>2 DEF RingInv, RingTypes
<1>3. /\ Mails \in Seq(Mail \cup {Nil}) /\ Len(Mails) = entry
      /\ \A i \in 1 .. entry : Mails[i] = msg_pool[Wrapped(out_offset, i - 1)]
  BY MailPlaces
<1>4. /\ Mails' \in Seq(Mail \cup {Nil}) /\ Len(Mails') = entry'
      /\ \A i \in 1 .. entry' : Mails'[i] = msg_pool'[Wrapped(out_offset', i - 1)]
  <2>1. RingInv' => /\ (Mails \in Seq(Mail \cup {Nil}))' /\ (Len(Mails) = entry)'
                    /\ (\A i \in 1 .. entry : Mails[i] = msg_pool[Wrapped(out_offset, i - 1)])'
    BY MailPlaces, PTL
  <2> QED BY <1>2, <2>1
<1>5. ASSUME NEW i \in 1 .. entry - 1
      PROVE  Mails'[i] = Mails[i + 1]
  <2>1. Mails'[i] = msg_pool[Wrapped(out_offset', i - 1)]
    BY <1>1, <1>4
  <2>2. Mails[i + 1] = msg_pool[Wrapped(out_offset, i)]
    BY <1>1, <1>3
  <2>3. Wrapped(out_offset', i - 1) = Wrapped(out_offset, i)
    BY <1>1 DEF Wrapped, NextOffset, Offset
  <2> QED BY <2>1, <2>2, <2>3
<1>6. Mails # << >> /\ received' = Head(Mails)
  <2>1. Wrapped(out_offset, 1 - 1) = out_offset
    BY <1>1 DEF Wrapped, Offset
  <2>2. Mails[1] = msg_pool[out_offset]
    BY <1>1, <1>3, <2>1
  <2> HIDE DEF Mails
  <2> QED BY <1>1, <1>3, <2>2
<1>7. Mails' = Tail(Mails)
  <2>1. Tail(Mails) \in Seq(Mail \cup {Nil}) /\ Len(Tail(Mails)) = entry - 1
    BY <1>1, <1>3, <1>6
  <2>2. \A i \in 1 .. entry - 1 : Tail(Mails)[i] = Mails[i + 1]
    BY <1>1, <1>3, <1>6
  <2> HIDE DEF Mails
  <2> QED BY <1>1, <1>4, <1>5, <2>1, <2>2, SeqEqual
<1> QED BY <1>2, <1>6, <1>7 DEF Fifo!FifoRecv, Mails

LEMMA ClearedIsEmpty ==
  ASSUME RingInv, RingCleared, mail' \in [Thread -> Mail \cup {Nil}]
  PROVE  RingInv' /\ Fifo!FifoReset
<1>1. size \in Nat \ {0} /\ msg_pool \in [Offset -> Mail \cup {Nil}]
  BY MailboxType DEF RingInv, RingTypes
<1>2. RingInv'
  BY <1>1 DEF RingCleared, RingInv, RingTypes, Offset, Wrapped
<1>3. Mails' \in Seq(Mail \cup {Nil}) /\ Len(Mails') = 0
  <2>1. RingInv' => (Mails \in Seq(Mail \cup {Nil}))' /\ (Len(Mails) = entry)'
    BY MailPlaces, PTL
  <2> QED BY <1>2, <2>1 DEF RingCleared
<1>4. Mails' = << >>
  <2> HIDE DEF Mails
  <2> QED BY <1>3
<1> QED BY <1>2, <1>4 DEF Fifo!FifoReset, RingCleared, Mails

LEMMA RingStepImplements ==
  ASSUME RingInv, RingStep, mail' \in [Thread -> Mail \cup {Nil}]
  PROVE  RingInv' /\ [Fifo!FifoNext]_(Fifo!fifovars)
<1>1. CASE RingKept
  <2>1. RingInv'
    BY <1>1 DEF RingKept, RingInv, RingTypes, Wrapped
  <2>2. UNCHANGED Fifo!fifovars
    BY <1>1 DEF RingKept, Fifo!fifovars
  <2> QED BY <2>1, <2>2
<1>2. CASE (\E m \in Mail : Put(m)) \/ Get \/ RingCleared
  BY <1>2, PutAppends, GetTakesFirst, ClearedIsEmpty DEF Fifo!FifoNext
<1> QED BY <1>1, <1>2 DEF RingStep

(* Whatever is called, and whoever calls it, the ring makes one of its steps. *)
LEMMA SendStepsRing ==
  ASSUME RingInv, self \in Thread, NEW m \in Mail, NEW left, TrySend(m, left)
  PROVE  RingStep /\ mail' \in [Thread -> Mail \cup {Nil}]
<1>1. mail \in [Thread -> Mail \cup {Nil}]
  BY DEF RingInv, RingTypes
<1>2. ASSUME NEW label, Return(label)
      PROVE  mail' \in [Thread -> Mail \cup {Nil}]
  BY <1>1, <1>2 DEF Return
<1>3. CASE Put(m) /\ Wake(mb)
  BY <1>2, <1>3 DEF Wake, RingStep
<1>4. CASE Suspend(senders, m, left)
  BY <1>1, <1>4 DEF Suspend, ring, RingKept, RingStep
<1>5. CASE GiveUp(left, k.error[self])
  BY <1>2, <1>5 DEF GiveUp, ring, RingKept, RingStep
<1> QED BY <1>3, <1>4, <1>5 DEF TrySend

LEMMA RecvStepsRing ==
  ASSUME RingInv, self \in Thread, NEW left, NEW e, TryRecv(left, e)
  PROVE  RingStep /\ mail' \in [Thread -> Mail \cup {Nil}]
<1>1. mail \in [Thread -> Mail \cup {Nil}]
  BY DEF RingInv, RingTypes
<1>2. ASSUME NEW label, Return(label)
      PROVE  mail' \in [Thread -> Mail \cup {Nil}]
  BY <1>1, <1>2 DEF Return
<1>3. CASE Get /\ Wake(senders)
  BY <1>2, <1>3 DEF Wake, RingStep
<1>4. CASE Suspend(mb, Nil, left)
  BY <1>1, <1>4 DEF Suspend, ring, RingKept, RingStep
<1>5. CASE GiveUp(left, e)
  BY <1>2, <1>5 DEF GiveUp, ring, RingKept, RingStep
<1> QED BY <1>3, <1>4, <1>5 DEF TryRecv

LEMMA NextStepsRing ==
  ASSUME RingInv, [Next]_vars
  PROVE  RingStep /\ mail' \in [Thread -> Mail \cup {Nil}]
<1>1. mail \in [Thread -> Mail \cup {Nil}]
  BY DEF RingInv, RingTypes
<1>2. ASSUME UNCHANGED <<ring, mail>> PROVE RingStep /\ mail' \in [Thread -> Mail \cup {Nil}]
  BY <1>1, <1>2 DEF RingStep, RingKept, ring
<1>3. CASE UNCHANGED mbvars
  BY <1>2, <1>3 DEF mbvars
<1>4. ASSUME NEW left \in Times, Recv(left)
      PROVE  RingStep /\ mail' \in [Thread -> Mail \cup {Nil}]
  BY <1>4, RecvStepsRing DEF Recv, Free, At
<1>5. ASSUME NEW left \in Times, NEW m \in Mail, Send(m, left)
      PROVE  RingStep /\ mail' \in [Thread -> Mail \cup {Nil}]
  BY <1>5, SendStepsRing DEF Send, Free, At
<1>6. ASSUME NEW left \in Time, CallRetries(left)
      PROVE  RingStep /\ mail' \in [Thread -> Mail \cup {Nil}]
  <2>1. self \in Thread
    BY <1>6 DEF CallRetries, At
  <2>2. CASE mail[self] = Nil
    BY <1>6, <2>1, <2>2, RecvStepsRing DEF CallRetries
  <2>3. CASE mail[self] # Nil
    <3>1. mail[self] \in Mail
      BY <1>1, <2>1, <2>3
    <3> QED BY <1>6, <2>1, <2>3, <3>1, SendStepsRing DEF CallRetries
  <2> QED BY <2>2, <2>3
<1>7. CASE CallFails
  <2>1. self \in Thread
    BY <1>7 DEF CallFails, At
  <2> QED BY <1>1, <1>7, <2>1 DEF CallFails, Return, RingStep, RingKept, ring
<1>8. ASSUME (\E m \in Mail : IsrSend(m)) \/ IsrRecv
      PROVE  RingStep /\ mail' \in [Thread -> Mail \cup {Nil}]
  BY <1>1, <1>8 DEF IsrSend, IsrRecv, RingStep
<1>9. CASE Detach
  BY <1>2, <1>9 DEF Detach
<1>10. CASE ResetRing
  BY <1>1, <1>10 DEF ResetRing, RingStep, RingCleared
<1>11. CASE UNCHANGED vars
  BY <1>3, <1>11 DEF vars
<1>12. CASE CpuStep /\ UNCHANGED mbvars
  BY <1>3, <1>12
<1>13. CASE \/ CallSchedule \/ Reschedule \/ DetachReceivers \/ DetachSenders
            \/ Reset \/ ResetResume(mb) \/ ResetResume(senders)
  BY <1>3, <1>13
  DEF CallSchedule, Reschedule, DetachReceivers, DetachSenders, DetachTest, DetachTurn,
      Reset, ResetResume
<1> QED BY <1>4, <1>5, <1>6, <1>7, <1>8, <1>9, <1>10, <1>11, <1>12, <1>13
        DEF Next

LEMMA InitRing == Init => RingInv /\ Fifo!FifoInit
<1> SUFFICES ASSUME Init PROVE RingInv /\ Fifo!FifoInit
  OBVIOUS
<1>1. size \in Nat \ {0}
  BY MailboxType
<1>2. RingInv
  BY <1>1 DEF Init, RingInv, RingTypes, Offset, Wrapped
<1>3. Mails \in Seq(Mail \cup {Nil}) /\ Len(Mails) = 0
  BY <1>2, MailPlaces DEF Init
<1>4. Mails = << >>
  <2> HIDE DEF Mails
  <2> QED BY <1>3
<1> QED BY <1>2, <1>4 DEF Fifo!FifoInit, Init, Mails

LEMMA RingInvariance == Spec => []RingInv
<1>1. RingInv /\ [Next]_vars => RingInv'
  BY NextStepsRing, RingStepImplements
<1> QED BY <1>1, InitRing, PTL DEF Spec

(* Each mail is delivered once and in order (rt_mb_send_wait, rt_mb_recv),  *)
(* whoever waits, times out, is refused or interrupts: the ring is a bounded *)
(* queue, for any size.                                                     *)
THEOREM MailboxRefinement == Spec => ImplementsBoundedFifo
<1>1. RingInv /\ [Next]_vars => [Fifo!FifoNext]_(Fifo!fifovars)
  BY NextStepsRing, RingStepImplements
<1> QED BY <1>1, InitRing, RingInvariance, PTL
        DEF Spec, ImplementsBoundedFifo, Fifo!FifoSpec

-----------------------------------------------------------------------------
(* Threads in a call that may wait *)

InCall == {t \in Thread : pc[t] \in {"wait", "woken"}}

\* Woken, with nothing to tell them but to look again.
Hopeful == {t \in InCall : k.stat[t] = "ready" /\ k.error[t] = "ok"}

\* Nobody enters a wait list, the error of those on one stays what it was,
\* and no thread enters or leaves the calls.
CallsKept ==
  /\ InCall' = InCall
  /\ Hopeful' = Hopeful
  /\ \A g \in Queue : Nodes(k', g) \subseteq Nodes(k, g)
  /\ \A g \in Queue : \A t \in Nodes(k', g) : k'.error[t] = k.error[t]

LEMMA NodesAreThreads ==
  ASSUME CpuInv
  PROVE  \A h \in Queue : /\ Nodes(k, h) \subseteq Thread
                          /\ Nodes(k, h) = {} <=> k.list[h] = << >>
                          /\ \A t \in Nodes(k, h) : k.stat[t] = "suspend"
<1> SUFFICES ASSUME NEW h \in Queue
             PROVE  /\ Nodes(k, h) \subseteq Thread
                    /\ Nodes(k, h) = {} <=> k.list[h] = << >>
                    /\ \A t \in Nodes(k, h) : k.stat[t] = "suspend"
  OBVIOUS
<1>1. k.list[h] \in Seq(Thread)
  BY DEF CpuInv, KernelInv, KernelType, ListHead
<1>2. Nodes(k, h) = {k.list[h][i] : i \in 1 .. Len(k.list[h])}
  BY <1>1 DEF Nodes, ToSet
<1>3. Nodes(k, h) \subseteq Thread /\ (Nodes(k, h) = {} <=> k.list[h] = << >>)
  <2> DEFINE s == k.list[h]
  <2>1. s \in Seq(Thread) /\ \A i \in 1 .. Len(s) : s[i] \in Thread
    BY <1>1
  <2>2. CASE s = << >>
    BY <1>2, <2>2
  <2>3. CASE s # << >>
    <3>1. 1 \in 1 .. Len(s)
      BY <2>1, <2>3
    <3>2. s[1] \in Nodes(k, h)
      BY <1>2, <3>1
    <3> QED BY <1>2, <2>1, <2>3, <3>2
  <2> QED BY <2>2, <2>3
<1>4. WaitersAreSuspended
  BY CpuInvImpliesIpcInvariants
<1>5. \A t \in Nodes(k, h) : k.stat[t] = "suspend"
  BY <1>3, <1>4 DEF WaitersAreSuspended, Nodes
<1> QED BY <1>3, <1>5

LEMMA KernelFields ==
  ASSUME CpuInv
  PROVE  /\ KernelInv(k, {}) /\ k \in KernelType
         /\ k.stat \in [Thread -> Stat] /\ k.error \in [Thread -> Error]
         /\ \A t \in Thread : k.stat[t] = "init" => pc[t] = "run"
BY DEF CpuInv, KernelInv, KernelType

(* The CPU's own steps: a timeout takes a thread off its list and tells it. *)
LEMMA CpuStepKeepsCalls ==
  ASSUME CpuInv, NEW S, pc \in [Thread -> S], "sched" \in S, CpuStep
  PROVE  CpuInv' /\ CallsKept /\ pc' \in [Thread -> S]
<1>1. CASE Delay
  <2>1. /\ CpuInv'
        /\ \A g \in Queue : Nodes(k', g) = Nodes(k, g)
        /\ k'.error = k.error
        /\ k'.stat = [k.stat EXCEPT ![self] = "suspend"]
        /\ pc[self] = "run" /\ self \in Thread \ {Idle}
        /\ pc' = [pc EXCEPT ![self] = "sched"]
    BY <1>1, DelayStep
  <2>2. PICK me \in Thread : me = self
    BY <2>1
  <2>3. /\ pc[me] = "run" /\ pc' = [pc EXCEPT ![me] = "sched"]
        /\ k'.stat = [k.stat EXCEPT ![me] = "suspend"]
    BY <2>1, <2>2
  <2>4. \A t \in Thread : /\ pc'[t] = IF t = me THEN "sched" ELSE pc[t]
                          /\ k'.stat[t] = IF t = me THEN "suspend" ELSE k.stat[t]
    BY <2>3, KernelFields
  <2> QED BY <2>1, <2>3, <2>4 DEF CallsKept, InCall, Hopeful
<1>2. CASE Tick
  <2>1. CpuInv' /\ SameWaiters(k, k') /\ UNCHANGED <<pc, k.stat>>
    BY <1>2, TickStep
  <2> QED BY <2>1 DEF SameWaiters, CallsKept, InCall, Hopeful
<1>3. ASSUME NEW t \in Thread, Startup(t)
      PROVE  CpuInv' /\ CallsKept /\ pc' \in [Thread -> S]
  <2>1. /\ CpuInv' /\ SameWaiters(k, k') /\ UNCHANGED pc
        /\ k.stat[t] = "init" /\ k'.stat = [k.stat EXCEPT ![t] = "ready"]
    BY <1>3, StartupStep
  <2>2. pc[t] = "run" /\ \A u \in Thread \ {t} : k'.stat[u] = k.stat[u]
    BY <2>1, KernelFields
  <2> QED BY <2>1, <2>2 DEF SameWaiters, CallsKept, InCall, Hopeful
<1>4. ASSUME NEW t \in Thread, TimerCheck(t)
      PROVE  CpuInv' /\ CallsKept /\ pc' \in [Thread -> S]
  <2>1. /\ CpuInv' /\ UNCHANGED pc
        /\ t \in Sleepers(k)
        /\ \A g \in Queue : Nodes(k', g) = Nodes(k, g) \ {t}
        /\ k'.stat = [k.stat EXCEPT ![t] = "ready"]
        /\ k'.error = [k.error EXCEPT ![t] = "timeout"]
    BY <1>4, TimerCheckStep
  <2>2. \A u \in Thread : /\ k'.stat[u] = IF u = t THEN "ready" ELSE k.stat[u]
                          /\ k'.error[u] = IF u = t THEN "timeout" ELSE k.error[u]
    BY <2>1, KernelFields
  <2>3. \A g \in Queue : \A u \in Nodes(k', g) : u \in Thread \ {t}
    BY <2>1, NodesAreThreads
  <2> QED BY <2>1, <2>2, <2>3 DEF Sleepers, CallsKept, InCall, Hopeful
<1> QED BY <1>1, <1>2, <1>3, <1>4 DEF CpuStep

LEMMA ScheduleKeepsCalls ==
  ASSUME CpuInv, NEW S, pc \in [Thread -> S], NEW label, NEW to \in S,
         ScheduleAt(label, to),
         label \in {"wait", "woken"} <=> to \in {"wait", "woken"}
  PROVE  CpuInv' /\ CallsKept /\ pc' \in [Thread -> S]
<1>1. /\ CpuInv' /\ SameWaiters(k, k') /\ k'.stat = k.stat
      /\ pc[self] = label /\ self \in Thread \ {Idle}
      /\ pc' = [pc EXCEPT ![self] = to]
  BY ScheduleAtStep
<1>2. PICK me \in Thread : me = self
  BY <1>1
<1>3. \A t \in Thread : pc'[t] = IF t = me THEN to ELSE pc[t]
  BY <1>1, <1>2
<1> QED BY <1>1, <1>2, <1>3 DEF SameWaiters, CallsKept, InCall, Hopeful

(* The running thread goes on in its call, or ends it. *)
LEMMA GoesOn ==
  ASSUME CpuInv, NEW S, pc \in [Thread -> S], NEW label \in S,
         NEW me \in Thread, me = self, k.stat[me] = "ready",
         pc' = [pc EXCEPT ![me] = label],
         \/ k' = k
         \/ \E e \in Error : k' = SetError(k, me, e) /\ pc[me] \in {"run", "woken"}
                             /\ label \notin {"wait", "woken"}
  PROVE  /\ CpuInv' /\ pc' \in [Thread -> S]
         /\ InCall \ {me} = InCall' \ {me}
         /\ me \in InCall' <=> label \in {"wait", "woken"}
         /\ Hopeful \ {me} = Hopeful' \ {me}
         /\ me \in Hopeful' <=> label \in {"wait", "woken"} /\ k.error[me] = "ok"
         /\ \A g \in Queue : Nodes(k', g) = Nodes(k, g) /\ me \notin Nodes(k, g)
         /\ \A t \in Thread \ {me} : k'.error[t] = k.error[t]
<1>1. /\ CpuInv' /\ \A g \in Queue : Nodes(k', g) = Nodes(k, g)
      /\ k'.stat = k.stat
      /\ \A t \in Thread \ {me} : k'.error[t] = k.error[t]
  BY PcStepKeepsCpuInv
<1>2. \A t \in Thread : pc'[t] = IF t = me THEN label ELSE pc[t]
  OBVIOUS
<1>3. \A g \in Queue : me \notin Nodes(k, g)
  BY NodesAreThreads
<1>4. label \in {"wait", "woken"} => k' = k
  OBVIOUS
<1> QED BY <1>1, <1>2, <1>3, <1>4 DEF InCall, Hopeful

(* rt_ipc_list_resume, by a thread that calls rt_schedule next or by an     *)
(* interrupt handler; with the error set, by a detach or a reset.           *)
Resumed(h, e) ==
  /\ NoNewTimer(k, k', Thread)
  /\ \E t \in Nodes(k, h) :
       /\ t \in Thread /\ k.stat[t] = "suspend"
       /\ \A g \in Queue : Nodes(k', g) = Nodes(k, g) \ {t}
       /\ k'.stat = [k.stat EXCEPT ![t] = "ready"]
       /\ k'.error = IF e = "ok" THEN k.error ELSE [k.error EXCEPT ![t] = e]

LEMMA ResumeByThread ==
  ASSUME CpuInv, NEW S, pc \in [Thread -> S], NEW label \in S,
         NEW h \in Queue, ~rt_list_isempty(k.list[h]),
         self \in Thread, k.stat[self] = "ready",
         pc' = [pc EXCEPT ![self] = label],
         NEW e \in {"ok", "error"},
         k' = IF e = "ok" THEN rt_ipc_list_resume(k, h) ELSE ResumeWithError(k, h)
  PROVE  CpuInv' /\ Resumed(h, e)
<1> DEFINE t == FirstThread(k, h)
<1>1. t \in Thread /\ t \in Nodes(k, h) /\ k.stat[t] = "suspend"
  BY KernelFields, FirstWaiter
<1>2. /\ KernelInv(k', {}) /\ WokenUp(k, k', t)
      /\ k'.error = IF e = "ok" THEN k.error ELSE [k.error EXCEPT ![t] = "error"]
  BY KernelFields, ListResumeKeepsInv, ResumeWithErrorKeepsInv
<1> HIDE DEF t
<1>3. CpuInv'
  BY <1>1, <1>2, WokenUpKeepsCpuInv
<1> QED BY <1>1, <1>2, <1>3 DEF WokenUp, Resumed

(* rt_ipc_list_resume and rt_schedule with interrupts disabled, by an       *)
(* interrupt handler or by a thread, which may leave the CPU but is ready.  *)
LEMMA ResumeAndSchedule ==
  ASSUME CpuInv, NEW h \in Queue, ~rt_list_isempty(k.list[h]),
         \A x \in Thread : k.stat[x] = "init" => pc'[x] = "run",
         k' = rt_schedule(rt_ipc_list_resume(k, h))
  PROVE  CpuInv' /\ Resumed(h, "ok")
<1> DEFINE t == FirstThread(k, h)
           u == rt_ipc_list_resume(k, h)
           v == rt_schedule(u)
<1>1. t \in Thread /\ t \in Nodes(k, h) /\ k.stat[t] = "suspend"
  BY KernelFields, FirstWaiter
<1>2. KernelInv(u, {}) /\ WokenUp(k, u, t) /\ u.error = k.error
  BY KernelFields, ListResumeKeepsInv
<1> HIDE DEF t, u
<1>3. u.lock_nest = 0
  BY <1>2 DEF WokenUp, CpuInv
<1>4. /\ KernelInv(v, {}) /\ Switched(u, v)
      /\ v.current_thread \in Thread
      /\ v.stat[v.current_thread] = "ready"
      /\ SameWaiters(u, v)
  BY <1>2, <1>3, ScheduleGivesCpu
<1>5. k' = v
  BY DEF u
<1> HIDE DEF v
<1>6. /\ k'.stat = [k.stat EXCEPT ![t] = "ready"] /\ k'.lock_nest = 0
      /\ k'.error = k.error
      /\ \A g \in Queue : Nodes(k', g) = Nodes(k, g) \ {t}
      /\ NoNewTimer(k, k', Thread)
  BY <1>2, <1>3, <1>4, <1>5 DEF WokenUp, Switched, SameWaiters, NoNewTimer
<1>7. \A x \in Thread : /\ k'.stat[x] \in {"init", "ready", "suspend"}
                        /\ k'.stat[x] = "init" => pc'[x] = "run"
  BY <1>1, <1>6, KernelFields DEF CpuInv
<1>8. CpuInv'
  BY <1>4, <1>5, <1>6, <1>7 DEF CpuInv
<1> QED BY <1>1, <1>6, <1>8 DEF Resumed

LEMMA ResumeByInterrupt ==
  ASSUME CpuInv, NEW h \in Queue, ~rt_list_isempty(k.list[h]), pc' = pc,
         k' = rt_schedule(rt_ipc_list_resume(k, h))
  PROVE  CpuInv' /\ Resumed(h, "ok")
<1>1. \A x \in Thread : k.stat[x] = "init" => pc'[x] = "run"
  BY DEF CpuInv
<1> QED BY <1>1, ResumeAndSchedule

-----------------------------------------------------------------------------
(* What a step of a call does to those in a call that may wait *)

(* The running thread me leaves its call, or goes on where none waits. *)
LEMMA CallLeaves ==
  ASSUME CpuInv, NEW L, pc \in [Thread -> L],
         NEW label \in L \ {"wait", "woken"},
         NEW me \in Thread, me = self, k.stat[me] = "ready",
         pc' = [pc EXCEPT ![me] = label],
         \/ k' = k
         \/ \E e \in Error : k' = SetError(k, me, e) /\ pc[me] \in {"run", "woken"}
  PROVE  /\ CpuInv' /\ pc' \in [Thread -> L]
         /\ InCall' = InCall \ {me} /\ Hopeful' = Hopeful \ {me}
         /\ \A g \in Queue : Nodes(k', g) = Nodes(k, g) /\ me \notin Nodes(k, g)
         /\ \A t \in Thread \ {me} : k'.error[t] = k.error[t]
         /\ k'.timer = k.timer
<1>1. /\ CpuInv' /\ pc' \in [Thread -> L]
      /\ InCall \ {me} = InCall' \ {me}
      /\ me \in InCall' <=> label \in {"wait", "woken"}
      /\ Hopeful \ {me} = Hopeful' \ {me}
      /\ me \in Hopeful' <=> label \in {"wait", "woken"} /\ k.error[me] = "ok"
      /\ \A g \in Queue : Nodes(k', g) = Nodes(k, g) /\ me \notin Nodes(k, g)
      /\ \A t \in Thread \ {me} : k'.error[t] = k.error[t]
  BY GoesOn
<1>2. k'.timer = k.timer
  BY KernelFields DEF SetError, KernelType
<1> QED BY <1>1, <1>2

\* The running thread me leaves its call and wakes t, one of those on h, and
\* tells it e.
Passes(h, t, me, e) ==
  /\ t \in Thread /\ t \in Nodes(k, h) /\ t # me /\ t \notin Hopeful
  /\ InCall' = InCall \ {me}
  /\ Hopeful' = IF e = "ok" THEN (Hopeful \ {me}) \cup {t} ELSE Hopeful \ {me}
  /\ \A g \in Queue : Nodes(k', g) = Nodes(k, g) \ {t}
  /\ \A u \in Thread \ {t} : k'.error[u] = k.error[u]
  /\ NoNewTimer(k, k', Thread)

(* A thread on its list is woken by a call that ends. *)
LEMMA CallWakes ==
  ASSUME CpuInv, NEW L, pc \in [Thread -> L],
         NEW label \in L \ {"wait", "woken"},
         NEW me \in Thread, me = self, k.stat[me] = "ready",
         pc' = [pc EXCEPT ![me] = label],
         NEW h \in Queue, ~rt_list_isempty(k.list[h]),
         \A t \in Nodes(k, h) : t \in InCall /\ k.error[t] = "ok",
         NEW e \in {"ok", "error"},
         \/ e = "ok" /\ k' = rt_ipc_list_resume(k, h)
         \/ e = "error" /\ k' = ResumeWithError(k, h)
  PROVE  /\ CpuInv' /\ pc' \in [Thread -> L]
         /\ \E t \in Thread : Passes(h, t, me, e)
<1>1. CpuInv' /\ Resumed(h, e)
  BY ResumeByThread
<1>2. NoNewTimer(k, k', Thread) /\ pc' \in [Thread -> L]
  BY <1>1 DEF Resumed
<1>3. PICK t \in Nodes(k, h) :
        /\ t \in Thread /\ k.stat[t] = "suspend"
        /\ \A g \in Queue : Nodes(k', g) = Nodes(k, g) \ {t}
        /\ k'.stat = [k.stat EXCEPT ![t] = "ready"]
        /\ k'.error = IF e = "ok" THEN k.error ELSE [k.error EXCEPT ![t] = e]
  BY <1>1 DEF Resumed
<1>4. /\ \A u \in Thread : k'.stat[u] = IF u = t THEN "ready" ELSE k.stat[u]
      /\ \A u \in Thread \ {t} : k'.error[u] = k.error[u]
      /\ k'.error[t] = IF e = "ok" THEN k.error[t] ELSE e
  BY <1>3, KernelFields
<1>5. \A u \in Thread : pc'[u] = IF u = me THEN label ELSE pc[u]
  OBVIOUS
<1>6. t # me /\ t \in InCall /\ k.error[t] = "ok" /\ t \notin Hopeful
  BY <1>3 DEF Hopeful
<1>7. InCall' = InCall \ {me}
  BY <1>5 DEF InCall
<1>8. Hopeful' = IF e = "ok" THEN (Hopeful \ {me}) \cup {t} ELSE Hopeful \ {me}
  <2>1. \A u \in Thread \ {t} : u \in Hopeful' <=> u \in Hopeful \ {me}
    BY <1>4, <1>7 DEF Hopeful
  <2>2. t \in Hopeful' <=> e = "ok"
    BY <1>3, <1>4, <1>6, <1>7 DEF Hopeful
  <2>3. Hopeful \subseteq Thread /\ Hopeful' \subseteq Thread
    BY DEF Hopeful, InCall
  <2> QED BY <1>6, <2>1, <2>2, <2>3
<1> QED BY <1>1, <1>2, <1>3, <1>4, <1>6, <1>7, <1>8 DEF Passes

(* The same by an interrupt. *)
LEMMA InterruptWakes ==
  ASSUME CpuInv, pc' = pc,
         NEW h \in Queue, ~rt_list_isempty(k.list[h]),
         \A t \in Nodes(k, h) : t \in InCall /\ k.error[t] = "ok",
         k' = rt_schedule(rt_ipc_list_resume(k, h))
  PROVE  /\ CpuInv'
         /\ \E t \in Thread :
              /\ t \in Nodes(k, h) /\ t \notin Hopeful
              /\ InCall' = InCall /\ Hopeful' = Hopeful \cup {t}
              /\ \A g \in Queue : Nodes(k', g) = Nodes(k, g) \ {t}
              /\ NoNewTimer(k, k', Thread)
              /\ k'.error = k.error
<1>1. CpuInv' /\ Resumed(h, "ok")
  BY ResumeByInterrupt
<1>2. NoNewTimer(k, k', Thread)
  BY <1>1 DEF Resumed
<1>3. PICK t \in Nodes(k, h) :
        /\ t \in Thread /\ k.stat[t] = "suspend"
        /\ \A g \in Queue : Nodes(k', g) = Nodes(k, g) \ {t}
        /\ k'.stat = [k.stat EXCEPT ![t] = "ready"]
        /\ k'.error = k.error
  BY <1>1 DEF Resumed
<1>4. \A u \in Thread : k'.stat[u] = IF u = t THEN "ready" ELSE k.stat[u]
  BY <1>3, KernelFields
<1>5. t \in InCall /\ k.error[t] = "ok" /\ t \notin Hopeful
  BY <1>3 DEF Hopeful
<1>6. InCall' = InCall
  BY DEF InCall
<1>7. Hopeful' = Hopeful \cup {t}
  <2>1. \A u \in Thread \ {t} : u \in Hopeful' <=> u \in Hopeful
    BY <1>3, <1>4, <1>6 DEF Hopeful
  <2>2. t \in Hopeful'
    BY <1>3, <1>4, <1>5, <1>6 DEF Hopeful
  <2>3. Hopeful \subseteq Thread /\ Hopeful' \subseteq Thread
    BY DEF Hopeful, InCall
  <2> QED BY <1>5, <2>1, <2>2, <2>3
<1> QED BY <1>1, <1>2, <1>3, <1>5, <1>6, <1>7

\* The running thread me is on h, and hopeful no more.
Sleeps(h, me, left) ==
  /\ InCall' = InCall \cup {me} /\ Hopeful' = Hopeful \ {me}
  /\ \A g \in Queue : /\ Nodes(k', g) = IF g = h THEN Nodes(k, g) \cup {me}
                                        ELSE Nodes(k, g)
                      /\ me \notin Nodes(k, g)
  /\ \A t \in Thread : k'.error[t] = IF t = me THEN "ok" ELSE k.error[t]
  /\ \A t \in Thread : k'.timer[t] => k.timer[t] \/ (t = me /\ left = "ticks")
  /\ ~k.timer[me]

(* The running thread waits. *)
LEMMA CallSleeps ==
  ASSUME CpuInv, NEW L, pc \in [Thread -> L], "wait" \in L,
         NEW me \in Thread \ {Idle}, me = self, k.stat[me] = "ready",
         pc' = [pc EXCEPT ![me] = "wait"],
         NEW h \in Queue, NEW flag, NEW left, k' = Wait(k, h, me, flag, left)
  PROVE  /\ CpuInv' /\ pc' \in [Thread -> L]
         /\ Sleeps(h, me, left)
<1>1. /\ KernelInv(k', {}) /\ PutToSleep(k, k', h, me)
      /\ k'.error = [k.error EXCEPT ![me] = "ok"]
      /\ NoNewTimer(k, k', Thread \ {me})
      /\ left # "ticks" => NoNewTimer(k, k', Thread)
  <2>1. Waiting(k, k', h, me, left)
    BY KernelFields, WaitPutsToSleep
  <2> QED BY <2>1 DEF Waiting
<1>2. /\ pc' \in [Thread -> L]
      /\ \A t \in Thread : /\ pc'[t] = IF t = me THEN "wait" ELSE pc[t]
                           /\ k'.stat[t] = IF t = me THEN "suspend" ELSE k.stat[t]
                           /\ k'.error[t] = IF t = me THEN "ok" ELSE k.error[t]
      /\ k'.lock_nest = 0 /\ k'.current_thread = me
  BY <1>1, KernelFields DEF PutToSleep, CpuInv, self
<1>3. CpuInv'
  <2>1. \A t \in Thread : /\ k'.stat[t] \in {"init", "ready", "suspend"}
                          /\ k'.stat[t] = "init" => pc'[t] = "run"
    BY <1>2 DEF CpuInv
  <2>2. pc'[k'.current_thread] \in AboutToSchedule
    BY <1>2 DEF AboutToSchedule
  <2> QED BY <1>1, <1>2, <2>1, <2>2 DEF CpuInv
<1>4. \A g \in Queue : /\ Nodes(k', g) = IF g = h THEN Nodes(k, g) \cup {me}
                                         ELSE Nodes(k, g)
                       /\ me \notin Nodes(k, g)
  BY <1>1, NodesAreThreads DEF PutToSleep
<1>5. Hopeful' = Hopeful \ {me} /\ InCall' = InCall \cup {me}
  BY <1>2 DEF Hopeful, InCall
<1>6. ~k.timer[me]
  BY KernelFields DEF KernelInv, WaitersSuspended
<1>7. \A t \in Thread : k'.timer[t] => k.timer[t] \/ (t = me /\ left = "ticks")
  BY <1>1 DEF NoNewTimer
<1> QED BY <1>2, <1>3, <1>4, <1>5, <1>6, <1>7 DEF Sleeps

(* The CPU's own steps take nobody off a list who waits for ever. *)
LEMMA UntimedStay ==
  ASSUME CpuInv, NEW L, pc \in [Thread -> L],
         \/ CpuStep
         \/ \E label, to : ScheduleAt(label, to)
  PROVE  \A h \in Queue : \A t \in Nodes(k, h) :
           ~k.timer[t] => t \in Nodes(k', h) /\ ~k'.timer[t]
<1> USE NodesAreThreads
<1>1. ASSUME SameWaiters(k, k')
      PROVE  \A h \in Queue : \A t \in Nodes(k, h) :
               ~k.timer[t] => t \in Nodes(k', h) /\ ~k'.timer[t]
  BY <1>1 DEF SameWaiters, NoNewTimer
<1>2. CASE Delay
  <2>1. /\ \A g \in Queue : Nodes(k', g) = Nodes(k, g)
        /\ NoNewTimer(k, k', Thread \ {self})
        /\ self \notin Sleepers(k) /\ self \in Thread
    BY <1>2, DelayStep
  <2> QED BY <2>1 DEF NoNewTimer, Sleepers
<1>3. CASE Tick
  BY <1>1, <1>3, TickStep
<1>4. ASSUME NEW u \in Thread, Startup(u) PROVE SameWaiters(k, k')
  BY <1>4, StartupStep
<1>5. ASSUME NEW u \in Thread, TimerCheck(u)
      PROVE  \A h \in Queue : \A t \in Nodes(k, h) :
               ~k.timer[t] => t \in Nodes(k', h) /\ ~k'.timer[t]
  <2>1. /\ \A g \in Queue : Nodes(k', g) = Nodes(k, g) \ {u}
        /\ k.timer[u] /\ NoNewTimer(k, k', Thread)
    BY <1>5, TimerCheckStep
  <2> QED BY <2>1 DEF NoNewTimer
<1>6. ASSUME NEW label, NEW to, ScheduleAt(label, to) PROVE SameWaiters(k, k')
  BY <1>6, ScheduleAtStep
<1> QED BY <1>1, <1>2, <1>3, <1>4, <1>5, <1>6 DEF CpuStep

LEMMA OneLess ==
  ASSUME NEW A, IsFiniteSet(A), NEW u
  PROVE  /\ IsFiniteSet(A \ {u}) /\ Cardinality(A) \in Nat
         /\ Cardinality(A \ {u}) \in Nat /\ Cardinality(A \ {u}) >= Cardinality(A) - 1
<1> DEFINE n == Cardinality(A)
           m == Cardinality(A \ {u})
<1>1. n \in Nat
  BY FS_CardinalityType
<1>2. IsFiniteSet(A \ {u}) /\ (m = n \/ m = n - 1)
  <2>1. CASE u \in A
    BY <2>1, FS_RemoveElement
  <2>2. CASE u \notin A
    <3>1. A \ {u} = A
      BY <2>2
    <3> QED BY <3>1
  <2> QED BY <2>1, <2>2
<1>3. m \in Nat
  BY <1>2, FS_CardinalityType
<1> HIDE DEF n, m
<1>4. m >= n - 1
  BY <1>1, <1>2, <1>3
<1> QED BY <1>1, <1>2, <1>3, <1>4 DEF n, m

\* As long as threads wait there are at least as many claims as there is to
\* have: n or n1 of it, claimed by A or B, with W or V waiting.
LEMMA ClaimsKept ==
  ASSUME NEW n \in Nat, NEW n1 \in Nat, NEW A, NEW B, NEW W, NEW V,
         IsFiniteSet(A), W # {} => n <= Cardinality(A),
         \/ V \subseteq W /\ n1 <= n /\ B = A
         \/ V \subseteq W /\ n1 <= n + 1 /\ \E t : t \notin A /\ B = A \cup {t}
         \/ V = {} /\ B = A
         \/ V \subseteq W /\ n1 <= n - 1 /\ \E u : B = A \ {u}
         \/ n1 = 0 /\ \E u : B = A \ {u}
  PROVE  IsFiniteSet(B) /\ (V # {} => n1 <= Cardinality(B))
<1>1. Cardinality(A) \in Nat
  BY FS_CardinalityType
<1>2. CASE V \subseteq W /\ n1 <= n + 1 /\ \E t : t \notin A /\ B = A \cup {t}
  <2>1. IsFiniteSet(B) /\ Cardinality(B) = Cardinality(A) + 1
    BY <1>2, FS_AddElement
  <2>2. V # {} => W # {}
    BY <1>2
  <2> QED BY <1>1, <1>2, <2>1, <2>2
<1> DEFINE Less == \E u : B = A \ {u}
           b == Cardinality(B)
<1>3. ASSUME Less
      PROVE  IsFiniteSet(B) /\ b \in Nat /\ b >= Cardinality(A) - 1
  <2>1. PICK u : B = A \ {u}
    BY <1>3
  <2>2. /\ IsFiniteSet(A \ {u}) /\ Cardinality(A \ {u}) \in Nat
        /\ Cardinality(A \ {u}) >= Cardinality(A) - 1
    BY OneLess
  <2> QED BY <2>1, <2>2
<1> HIDE DEF Less
<1>4. CASE V \subseteq W /\ n1 <= n - 1 /\ Less
  <2>1. V # {} => W # {}
    BY <1>4
  <2> HIDE DEF b
  <2>2. V # {} => n1 <= b
    BY <1>1, <1>3, <1>4, <2>1
  <2> QED BY <1>3, <1>4, <2>2 DEF b
<1>5. CASE n1 = 0 /\ Less
  BY <1>3, <1>5
<1>6. CASE V \subseteq W /\ n1 <= n /\ B = A
  <2>1. V # {} => W # {}
    BY <1>6
  <2> QED BY <1>1, <1>6, <2>1
<1>7. CASE V = {} /\ B = A
  BY <1>7
<1> QED BY <1>2, <1>4, <1>5, <1>6, <1>7 DEF Less

-----------------------------------------------------------------------------
(* A mailbox loses no wakeup *)

Recvs == {t \in Hopeful : mail[t] = Nil}
Sends == {t \in Hopeful : mail[t] # Nil}

R == Nodes(k, mb)
S == Nodes(k, senders)

\* Who waits is in a call of its list's kind, and has been told nothing.
WaitersSound ==
  /\ \A t \in R : t \in InCall /\ mail[t] = Nil /\ k.error[t] = "ok"
  /\ \A t \in S : t \in InCall /\ mail[t] # Nil /\ k.error[t] = "ok"

\* NoLostWakeup, with sets that are finite.
Claimed ==
  /\ IsFiniteSet(Recvs) /\ IsFiniteSet(Sends)
  /\ R # {} => entry <= Cardinality(Recvs)
  /\ S # {} => size - entry <= Cardinality(Sends)

MailboxInv ==
  /\ CpuInv
  /\ RingInv
  /\ pc \in [Thread -> Label]
  /\ WaitersSound
  /\ Claimed

LEMMA MailboxFacts ==
  ASSUME MailboxInv
  PROVE  /\ CpuInv /\ pc \in [Thread -> Label] /\ mail \in [Thread -> Mail \cup {Nil}]
         /\ mb \in Queue /\ senders \in Queue /\ mb # senders
         /\ size \in Nat \ {0} /\ entry \in 0 .. size
         /\ R \subseteq Thread /\ S \subseteq Thread
         /\ R = {} <=> k.list[mb] = << >>
         /\ S = {} <=> k.list[senders] = << >>
         /\ \A t \in R \cup S : t \in InCall /\ k.stat[t] = "suspend"
         /\ WaitersSound
         /\ k.stat \in [Thread -> Stat] /\ k.error \in [Thread -> Error]
BY MailboxType, NodesAreThreads, KernelFields
DEF MailboxInv, RingInv, RingTypes, R, S, WaitersSound

LEMMA ClaimedIsNoLostWakeup == MailboxInv => NoLostWakeup
<1> SUFFICES ASSUME MailboxInv PROVE NoLostWakeup
  OBVIOUS
<1>1. Woken(FALSE) = Recvs /\ Woken(TRUE) = Sends
  BY DEF Woken, Recvs, Sends, Hopeful, InCall
<1> QED BY <1>1, MailboxFacts DEF MailboxInv, Claimed, NoLostWakeup

\* What a step does to the waiters, those who are woken and the mails.
Onlookers == R' \subseteq R /\ S' \subseteq S /\ Recvs' = Recvs /\ Sends' = Sends
             /\ entry' = entry

OneMailMore ==
  /\ entry < size /\ entry' = entry + 1 /\ S' = S
  /\ Sends' = Sends \/ \E u \in Thread : Sends' = Sends \ {u}
  /\ \/ R' = {} /\ Recvs' = Recvs
     \/ R' \subseteq R /\ \E t \in Thread \ Recvs : Recvs' = Recvs \cup {t}

OneMailLess ==
  /\ entry > 0 /\ entry' = entry - 1 /\ R' = R
  /\ Recvs' = Recvs \/ \E u \in Thread : Recvs' = Recvs \ {u}
  /\ \/ S' = {} /\ Sends' = Sends
     \/ S' \subseteq S /\ \E t \in Thread \ Sends : Sends' = Sends \cup {t}

NoRoom == entry = size /\ entry' = entry /\ R' = R /\ Recvs' = Recvs
          /\ \E u \in Thread : Sends' = Sends \ {u}

NoMail == entry = 0 /\ entry' = entry /\ S' = S /\ Sends' = Sends
          /\ \E u \in Thread : Recvs' = Recvs \ {u}

Cleared == R' = {} /\ S' = {} /\ Recvs' = Recvs /\ Sends' = Sends

ClaimStep == Onlookers \/ OneMailMore \/ OneMailLess \/ NoRoom \/ NoMail \/ Cleared

LEMMA ClaimStepKeeps ==
  ASSUME MailboxInv, ClaimStep
  PROVE  Claimed'
<1>1. /\ size \in Nat \ {0} /\ entry \in 0 .. size
      /\ IsFiniteSet(Recvs) /\ IsFiniteSet(Sends)
      /\ Cardinality(Recvs) \in Nat /\ Cardinality(Sends) \in Nat
      /\ R # {} => entry <= Cardinality(Recvs)
      /\ S # {} => size - entry <= Cardinality(Sends)
  BY MailboxFacts, FS_CardinalityType DEF MailboxInv, Claimed
<1>2. CASE Onlookers
  BY <1>1, <1>2 DEF Onlookers, Claimed
<1>3. CASE OneMailMore
  <2>1. /\ IsFiniteSet(Sends') /\ Cardinality(Sends') \in Nat
        /\ Cardinality(Sends') >= Cardinality(Sends) - 1
    <3>1. CASE Sends' = Sends
      BY <1>1, <3>1
    <3>2. ASSUME NEW u, Sends' = Sends \ {u}
          PROVE  /\ IsFiniteSet(Sends') /\ Cardinality(Sends') \in Nat
                 /\ Cardinality(Sends') >= Cardinality(Sends) - 1
      BY <1>1, <3>2, OneLess
    <3> QED BY <1>3, <3>1, <3>2 DEF OneMailMore
  <2>2. CASE R' = {} /\ Recvs' = Recvs
    BY <1>1, <1>3, <2>1, <2>2 DEF OneMailMore, Claimed
  <2>3. ASSUME R' \subseteq R, NEW t \in Thread \ Recvs, Recvs' = Recvs \cup {t}
        PROVE  Claimed'
    <3>1. IsFiniteSet(Recvs') /\ Cardinality(Recvs') = Cardinality(Recvs) + 1
      BY <1>1, <2>3, FS_AddElement
    <3> QED BY <1>1, <1>3, <2>1, <2>3, <3>1 DEF OneMailMore, Claimed
  <2> QED BY <1>3, <2>2, <2>3 DEF OneMailMore
<1>4. CASE OneMailLess
  <2>1. /\ IsFiniteSet(Recvs') /\ Cardinality(Recvs') \in Nat
        /\ Cardinality(Recvs') >= Cardinality(Recvs) - 1
    <3>1. CASE Recvs' = Recvs
      BY <1>1, <3>1
    <3>2. ASSUME NEW u, Recvs' = Recvs \ {u}
          PROVE  /\ IsFiniteSet(Recvs') /\ Cardinality(Recvs') \in Nat
                 /\ Cardinality(Recvs') >= Cardinality(Recvs) - 1
      BY <1>1, <3>2, OneLess
    <3> QED BY <1>4, <3>1, <3>2 DEF OneMailLess
  <2>2. CASE S' = {} /\ Sends' = Sends
    BY <1>1, <1>4, <2>1, <2>2 DEF OneMailLess, Claimed
  <2>3. ASSUME S' \subseteq S, NEW t \in Thread \ Sends, Sends' = Sends \cup {t}
        PROVE  Claimed'
    <3>1. IsFiniteSet(Sends') /\ Cardinality(Sends') = Cardinality(Sends) + 1
      BY <1>1, <2>3, FS_AddElement
    <3> QED BY <1>1, <1>4, <2>1, <2>3, <3>1 DEF OneMailLess, Claimed
  <2> QED BY <1>4, <2>2, <2>3 DEF OneMailLess
<1>5. CASE NoRoom
  <2>1. IsFiniteSet(Sends') /\ Cardinality(Sends') \in Nat
    BY <1>1, <1>5, OneLess DEF NoRoom
  <2> QED BY <1>1, <1>5, <2>1 DEF NoRoom, Claimed
<1>6. CASE NoMail
  <2>1. IsFiniteSet(Recvs') /\ Cardinality(Recvs') \in Nat
    BY <1>1, <1>6, OneLess DEF NoMail
  <2> QED BY <1>1, <1>6, <2>1 DEF NoMail, Claimed
<1>7. CASE Cleared
  BY <1>1, <1>7 DEF Cleared, Claimed
<1> QED BY <1>2, <1>3, <1>4, <1>5, <1>6, <1>7 DEF ClaimStep

\* What each action is shown to do; the ring is known already.
MailOutcome == CpuInv' /\ pc' \in [Thread -> Label] /\ WaitersSound' /\ ClaimStep

LEMMA KeptOutcome ==
  ASSUME MailboxInv, CpuInv', pc' \in [Thread -> Label], CallsKept,
         UNCHANGED <<mail, entry>>
  PROVE  MailOutcome
<1>1. R' \subseteq R /\ S' \subseteq S
  BY MailboxFacts DEF CallsKept, R, S
<1>2. Recvs' = Recvs /\ Sends' = Sends
  BY DEF CallsKept, Recvs, Sends
<1>3. WaitersSound'
  <2>1. \A t \in R' : k'.error[t] = k.error[t]
    BY MailboxFacts DEF CallsKept, R
  <2>2. \A t \in S' : k'.error[t] = k.error[t]
    BY MailboxFacts DEF CallsKept, S
  <2> QED BY <1>1, <2>1, <2>2, MailboxFacts DEF CallsKept, WaitersSound
<1> QED BY <1>1, <1>2, <1>3 DEF MailOutcome, ClaimStep, Onlookers

(* The running thread, whose wait and argument are over: it is hopeful no   *)
(* more, and whoever it resumes is.                                         *)
LEMMA ReturnOutcome ==
  ASSUME MailboxInv, NEW me \in Thread, me = self, k.stat[me] = "ready",
         pc[me] \in {"run", "woken"},
         NEW label \in {"run", "sched"}, Return(label),
         \/ k' = k
         \/ \E e \in Error : k' = SetError(k, me, e)
  PROVE  /\ CpuInv' /\ pc' \in [Thread -> Label] /\ WaitersSound'
         /\ R' = R /\ S' = S
         /\ Recvs' = Recvs \ {me} /\ Sends' = Sends \ {me}
<1>1. /\ pc' = [pc EXCEPT ![me] = label] /\ mail' = [mail EXCEPT ![me] = Nil]
      /\ label \in Label /\ label \notin {"wait", "woken"}
  BY DEF Return, Goto, Label
<1>2. /\ CpuInv' /\ pc' \in [Thread -> Label]
      /\ InCall \ {me} = InCall' \ {me} /\ me \notin InCall'
      /\ Hopeful \ {me} = Hopeful' \ {me} /\ me \notin Hopeful'
      /\ \A g \in Queue : Nodes(k', g) = Nodes(k, g) /\ me \notin Nodes(k, g)
      /\ \A t \in Thread \ {me} : k'.error[t] = k.error[t]
  <2>1. \/ k' = k
        \/ \E e \in Error : k' = SetError(k, me, e) /\ pc[me] \in {"run", "woken"}
                            /\ label \notin {"wait", "woken"}
    BY <1>1
  <2>2. CpuInv /\ pc \in [Thread -> Label]
    BY MailboxFacts
  <2> QED BY <1>1, <2>1, <2>2, GoesOn
<1>3. R' = R /\ S' = S /\ me \notin R \cup S
  BY <1>2, MailboxFacts DEF R, S
<1>4. \A t \in Thread \ {me} : mail'[t] = mail[t]
  BY <1>1, MailboxFacts
<1>5. Hopeful \subseteq Thread /\ Hopeful' \subseteq Thread
  BY DEF Hopeful, InCall
<1>6. Recvs' = Recvs \ {me} /\ Sends' = Sends \ {me}
  BY <1>2, <1>4, <1>5 DEF Recvs, Sends
<1>7. WaitersSound'
  BY <1>2, <1>3, <1>4, MailboxFacts DEF WaitersSound
<1> QED BY <1>2, <1>3, <1>6, <1>7

LEMMA ResumeOutcome ==
  ASSUME MailboxInv, CpuInv', NEW me \in Thread, NEW h \in {mb, senders}, NEW e, Resumed(h, e),
         \/ UNCHANGED <<pc, mail>> /\ me \notin Hopeful
         \/ /\ me \notin InCall' /\ k.stat[me] = "ready"
            /\ \A u \in Thread \ {me} : pc'[u] = pc[u] /\ mail'[u] = mail[u]
  PROVE  /\ WaitersSound' /\ R' \subseteq R /\ S' \subseteq S
         /\ h = mb => S' = S /\ Sends' = Sends \ {me}
         /\ h = senders => R' = R /\ Recvs' = Recvs \ {me}
         /\ h = mb /\ e = "ok" => \E t \in Thread \ Recvs : Recvs' = (Recvs \ {me}) \cup {t}
         /\ h = senders /\ e = "ok" => \E t \in Thread \ Sends : Sends' = (Sends \ {me}) \cup {t}
         /\ e # "ok" => Recvs' = Recvs \ {me} /\ Sends' = Sends \ {me}
<1>1. PICK t \in Nodes(k, h) :
        /\ t \in Thread /\ k.stat[t] = "suspend"
        /\ \A g \in Queue : Nodes(k', g) = Nodes(k, g) \ {t}
        /\ k'.stat = [k.stat EXCEPT ![t] = "ready"]
        /\ k'.error = IF e = "ok" THEN k.error ELSE [k.error EXCEPT ![t] = e]
  BY DEF Resumed
<1>2. /\ \A u \in Thread : k'.stat[u] = IF u = t THEN "ready" ELSE k.stat[u]
      /\ \A u \in Thread \ {t} : k'.error[u] = k.error[u]
      /\ k'.error[t] = IF e = "ok" THEN k.error[t] ELSE e
      /\ t \notin Hopeful
  BY <1>1, MailboxFacts DEF Hopeful
<1>3. /\ R' = R \ {t} /\ S' = S \ {t}
      /\ h = mb => t \in R /\ t \in InCall /\ mail[t] = Nil /\ k.error[t] = "ok"
      /\ h = senders => t \in S /\ t \in InCall /\ mail[t] # Nil /\ k.error[t] = "ok"
      /\ R \cap S = {}
  BY <1>1, MailboxFacts DEF R, S, WaitersSound
<1>4. me # t \/ UNCHANGED <<pc, mail>>
  BY <1>1
<1>5. \A u \in Thread \ {me} : (u \in InCall' <=> u \in InCall) /\ mail'[u] = mail[u]
  BY DEF InCall
<1>6. \A u \in Thread \ {me, t} : u \in Hopeful' <=> u \in Hopeful
  BY <1>2, <1>5 DEF Hopeful
<1>7. t \in Hopeful' <=> e = "ok"
  <2>1. t \in InCall /\ k.error[t] = "ok"
    BY <1>3
  <2>2. t \in InCall'
    BY <1>1, <1>4, <1>5, <2>1 DEF InCall
  <2> QED BY <1>1, <1>2, <2>1, <2>2 DEF Hopeful
<1>8. mail'[t] = mail[t]
  BY <1>1, <1>4, <1>5
<1>9. me # t => me \notin Hopeful'
  <2>1. CASE UNCHANGED <<pc, mail>> /\ me \notin Hopeful
    BY <1>2, <2>1 DEF Hopeful, InCall
  <2>2. CASE me \notin InCall'
    BY <2>2 DEF Hopeful
  <2> QED BY <2>1, <2>2
<1>10. Hopeful \subseteq Thread /\ Hopeful' \subseteq Thread
  BY DEF Hopeful, InCall
<1>11. /\ Recvs' \ {t} = (Recvs \ {me}) \ {t} /\ Sends' \ {t} = (Sends \ {me}) \ {t}
       /\ t \notin Recvs /\ t \notin Sends
  <2>1. \A u \in Thread \ {t} : u \in Hopeful' <=> u \in Hopeful \ {me}
    BY <1>2, <1>6, <1>9
  <2>2. \A u \in Thread \ {me} : mail'[u] = mail[u]
    BY <1>5
  <2> QED BY <1>2, <1>10, <2>1, <2>2 DEF Recvs, Sends
<1>12. /\ t \in Recvs' <=> e = "ok" /\ mail[t] = Nil
       /\ t \in Sends' <=> e = "ok" /\ mail[t] # Nil
  BY <1>7, <1>8 DEF Recvs, Sends
<1>13. WaitersSound'
  <2>1. me \notin R' \cup S' \/ UNCHANGED <<pc, mail>>
    BY <1>3, MailboxFacts
  <2>2. ASSUME NEW u \in R' \cup S'
        PROVE  /\ u \in InCall' /\ mail'[u] = mail[u] /\ k'.error[u] = k.error[u]
               /\ u \in R \cup S
    <3>1. u \in Thread \ {t} /\ u \in R \cup S /\ u \in InCall
      BY <1>3, MailboxFacts
    <3> QED BY <1>2, <1>5, <2>1, <3>1 DEF InCall
  <2> QED BY <1>3, <2>2, MailboxFacts DEF WaitersSound
<1>14. CASE h = mb
  <2>1. Sends' = Sends \ {me} /\ S' = S /\ R' \subseteq R
    BY <1>3, <1>11, <1>12, <1>14
  <2>2. e = "ok" => Recvs' = (Recvs \ {me}) \cup {t}
    BY <1>3, <1>11, <1>12, <1>14
  <2>3. e # "ok" => Recvs' = Recvs \ {me}
    BY <1>3, <1>11, <1>12, <1>14
  <2> QED BY <1>1, <1>11, <1>13, <1>14, <2>1, <2>2, <2>3, MailboxFacts
<1>15. CASE h = senders
  <2>1. Recvs' = Recvs \ {me} /\ R' = R /\ S' \subseteq S
    BY <1>3, <1>11, <1>12, <1>15
  <2>2. e = "ok" => Sends' = (Sends \ {me}) \cup {t}
    BY <1>3, <1>11, <1>12, <1>15
  <2>3. e # "ok" => Sends' = Sends \ {me}
    BY <1>3, <1>11, <1>12, <1>15
  <2> QED BY <1>1, <1>11, <1>13, <1>15, <2>1, <2>2, <2>3, MailboxFacts
<1> QED BY <1>14, <1>15

(* The running thread waits: it is on the list and hopeful no more. *)
LEMMA SleepOutcome ==
  ASSUME MailboxInv, NEW me \in Thread \ {Idle}, me = self, k.stat[me] = "ready",
         pc[me] \in {"run", "woken"}, NEW h, NEW n, NEW left, Suspend(h, n, left),
         \/ h = mb /\ n = Nil
         \/ h = senders /\ n \in Mail
  PROVE  /\ CpuInv' /\ pc' \in [Thread -> Label] /\ WaitersSound'
         /\ h = mb => S' = S
         /\ h = senders => R' = R
         /\ Recvs' = Recvs \ {me} /\ Sends' = Sends \ {me}
<1>1. /\ k' = Wait(k, h, me, mb_flag, left) /\ h \in Queue
      /\ mail' = [mail EXCEPT ![me] = n] /\ n \in Mail \cup {Nil}
      /\ pc' = [pc EXCEPT ![me] = "wait"]
  BY MailboxFacts DEF Suspend, Goto
<1>2. /\ KernelInv(k', {}) /\ PutToSleep(k, k', h, me)
      /\ k'.error = [k.error EXCEPT ![me] = "ok"]
  BY <1>1, KernelFields, MailboxFacts, WaitKeepsInv
<1>3. /\ pc' \in [Thread -> Label]
      /\ \A t \in Thread : /\ pc'[t] = IF t = me THEN "wait" ELSE pc[t]
                           /\ mail'[t] = IF t = me THEN n ELSE mail[t]
                           /\ k'.stat[t] = IF t = me THEN "suspend" ELSE k.stat[t]
                           /\ k'.error[t] = IF t = me THEN "ok" ELSE k.error[t]
      /\ k'.lock_nest = 0 /\ k'.current_thread = me
  BY <1>1, <1>2, MailboxFacts DEF Label, PutToSleep, CpuInv, self
<1>4. CpuInv'
  <2>1. \A t \in Thread : /\ k'.stat[t] \in {"init", "ready", "suspend"}
                          /\ k'.stat[t] = "init" => pc'[t] = "run"
    BY <1>3, MailboxFacts DEF CpuInv
  <2>2. pc'[k'.current_thread] \in AboutToSchedule
    BY <1>3 DEF AboutToSchedule
  <2> QED BY <1>2, <1>3, <2>1, <2>2 DEF CpuInv
<1>5. /\ h = mb => R' = R \cup {me} /\ S' = S
      /\ h = senders => S' = S \cup {me} /\ R' = R
      /\ me \notin R \cup S
  BY <1>1, <1>2, MailboxFacts DEF PutToSleep, R, S
<1>6. Hopeful' = Hopeful \ {me} /\ me \in InCall' /\ InCall \ {me} = InCall' \ {me}
  BY <1>3 DEF Hopeful, InCall
<1>7. Recvs' = Recvs \ {me} /\ Sends' = Sends \ {me}
  BY <1>3, <1>6 DEF Recvs, Sends, Hopeful, InCall
<1>8. WaitersSound'
  <2>1. ASSUME NEW t \in R'
        PROVE  t \in InCall' /\ mail'[t] = Nil /\ k'.error[t] = "ok"
    BY <1>1, <1>3, <1>5, <1>6, <2>1, MailboxFacts, MailboxType DEF WaitersSound
  <2>2. ASSUME NEW t \in S'
        PROVE  t \in InCall' /\ mail'[t] # Nil /\ k'.error[t] = "ok"
    BY <1>1, <1>3, <1>5, <1>6, <2>2, MailboxFacts, MailboxType DEF WaitersSound
  <2> QED BY <2>1, <2>2 DEF WaitersSound
<1> QED BY <1>3, <1>4, <1>5, <1>7, <1>8

LEMMA WakeOutcome ==
  ASSUME MailboxInv, NEW me \in Thread, me = self, k.stat[me] = "ready",
         pc[me] \in {"run", "woken"}, NEW h \in {mb, senders}, Wake(h)
  PROVE  /\ CpuInv' /\ pc' \in [Thread -> Label] /\ WaitersSound'
         /\ h = mb => /\ S' = S /\ Sends' = Sends \ {me}
                      /\ \/ R' = {} /\ Recvs' = Recvs \ {me}
                         \/ /\ R' \subseteq R
                            /\ \E t \in Thread \ Recvs : Recvs' = (Recvs \ {me}) \cup {t}
         /\ h = senders => /\ R' = R /\ Recvs' = Recvs \ {me}
                           /\ \/ S' = {} /\ Sends' = Sends \ {me}
                              \/ /\ S' \subseteq S
                                 /\ \E t \in Thread \ Sends : Sends' = (Sends \ {me}) \cup {t}
<1>1. CASE rt_list_isempty(k.list[h])
  <2>1. Return("run") /\ k' = k
    BY <1>1 DEF Wake
  <2>2. k.list[h] = << >>
    BY <1>1 DEF rt_list_isempty
  <2>3. h = mb => R = {}
    BY <2>2, MailboxFacts
  <2>4. h = senders => S = {}
    BY <2>2, MailboxFacts
  <2> QED BY <2>1, <2>3, <2>4, ReturnOutcome
<1>2. CASE ~rt_list_isempty(k.list[h])
  <2>1. Return("sched") /\ k' = rt_ipc_list_resume(k, h)
    BY <1>2 DEF Wake
  <2>2. /\ pc' = [pc EXCEPT ![me] = "sched"] /\ mail' = [mail EXCEPT ![me] = Nil]
        /\ "sched" \in Label
    BY <2>1 DEF Return, Goto, Label
  <2>3. CpuInv' /\ Resumed(h, "ok")
    BY <1>2, <2>1, <2>2, MailboxFacts, ResumeByThread
  <2>4. /\ pc' \in [Thread -> Label] /\ me \notin InCall'
        /\ \A u \in Thread \ {me} : pc'[u] = pc[u] /\ mail'[u] = mail[u]
    BY <2>2, MailboxFacts DEF InCall
  <2> QED BY <2>3, <2>4, ResumeOutcome
<1> QED BY <1>1, <1>2

LEMMA TrySendOutcome ==
  ASSUME MailboxInv, NEW me \in Thread \ {Idle}, me = self, k.stat[me] = "ready",
         NEW m \in Mail, pc[me] = "run" \/ (pc[me] = "woken" /\ mail[me] = m),
         NEW left, TrySend(m, left)
  PROVE  MailOutcome
<1>1. me \notin Recvs
  BY MailboxType DEF Recvs, Hopeful, InCall
<1>2. Recvs \ {me} = Recvs
  BY <1>1
<1>3. CASE Put(m) /\ Wake(mb)
  <2>1. /\ CpuInv' /\ pc' \in [Thread -> Label] /\ WaitersSound'
        /\ S' = S /\ Sends' = Sends \ {me}
        /\ \/ R' = {} /\ Recvs' = Recvs \ {me}
           \/ /\ R' \subseteq R
              /\ \E t \in Thread \ Recvs : Recvs' = (Recvs \ {me}) \cup {t}
    BY <1>3, WakeOutcome
  <2>2. entry < size /\ entry' = entry + 1
    BY <1>3, MailboxFacts DEF Put
  <2>3. OneMailMore
    BY <1>2, <2>1, <2>2 DEF OneMailMore
  <2> QED BY <2>1, <2>3 DEF MailOutcome, ClaimStep
<1>4. CASE entry = size /\ Suspend(senders, m, left)
  <2>1. entry' = entry
    BY <1>4 DEF Suspend, ring
  <2> QED BY <1>2, <1>4, <2>1, SleepOutcome, MailboxFacts DEF MailOutcome, ClaimStep, NoRoom
<1>5. CASE entry = size /\ GiveUp(left, k.error[self])
  <2>1. /\ entry' = entry /\ Return("run") /\ k' = SetError(k, me, k.error[me])
        /\ k.error[me] \in Error
    BY <1>5, MailboxFacts DEF GiveUp, ring
  <2> QED BY <1>2, <1>5, <2>1, ReturnOutcome DEF MailOutcome, ClaimStep, NoRoom
<1> QED BY <1>3, <1>4, <1>5 DEF TrySend

LEMMA TryRecvOutcome ==
  ASSUME MailboxInv, NEW me \in Thread \ {Idle}, me = self, k.stat[me] = "ready",
         pc[me] = "run" \/ (pc[me] = "woken" /\ mail[me] = Nil),
         NEW left, NEW e \in Error, TryRecv(left, e)
  PROVE  MailOutcome
<1>1. me \notin Sends
  BY DEF Sends, Hopeful, InCall
<1>2. Sends \ {me} = Sends
  BY <1>1
<1>3. CASE Get /\ Wake(senders)
  BY <1>2, <1>3, WakeOutcome, MailboxFacts
  DEF Get, MailOutcome, ClaimStep, OneMailLess
<1>4. CASE entry = 0 /\ Suspend(mb, Nil, left)
  <2>1. entry' = entry
    BY <1>4 DEF Suspend, ring
  <2> QED BY <1>2, <1>4, <2>1, SleepOutcome, MailboxFacts DEF MailOutcome, ClaimStep, NoMail
<1>5. CASE entry = 0 /\ GiveUp(left, e)
  <2>1. entry' = entry /\ Return("run") /\ k' = SetError(k, me, e)
    BY <1>5 DEF GiveUp, ring
  <2> QED BY <1>2, <1>5, <2>1, ReturnOutcome DEF MailOutcome, ClaimStep, NoMail
<1> QED BY <1>3, <1>4, <1>5 DEF TryRecv

(* The calls of a thread that has the CPU. *)
LEMMA CallOutcome ==
  ASSUME MailboxInv,
         \/ \E left \in Times : Recv(left) \/ \E m \in Mail : Send(m, left)
         \/ \E left \in Time : CallRetries(left)
         \/ CallFails
  PROVE  MailOutcome
<1>1. "run" \notin AboutToSchedule /\ "woken" \notin AboutToSchedule /\ "timeout" \in Error
  BY DEF AboutToSchedule, Error
<1>2. ASSUME NEW label \in {"run", "woken"}, At(label)
      PROVE  /\ self \in Thread \ {Idle} /\ k.stat[self] = "ready" /\ pc[self] = label
             /\ k.error[self] \in Error /\ mail[self] \in Mail \cup {Nil}
  BY <1>1, <1>2, RunnerIsReady, MailboxFacts
<1>3. ASSUME NEW left \in Times, Recv(left) PROVE MailOutcome
  BY <1>2, <1>3, TryRecvOutcome DEF Recv, Free
<1>4. ASSUME NEW left \in Times, NEW m \in Mail, Send(m, left) PROVE MailOutcome
  BY <1>2, <1>4, TrySendOutcome DEF Send, Free
<1>5. ASSUME NEW left \in Time, CallRetries(left) PROVE MailOutcome
  BY <1>1, <1>2, <1>5, TrySendOutcome, TryRecvOutcome DEF CallRetries
<1>6. CASE CallFails
  <2>1. /\ self \in Thread \ {Idle} /\ k.stat[self] = "ready" /\ pc[self] = "woken"
        /\ k.error[self] # "ok" /\ Return("run") /\ k' = k /\ entry' = entry
    BY <1>2, <1>6 DEF CallFails, ring
  <2>2. PICK me \in Thread : me = self
    BY <2>1
  <2>3. me \notin Recvs /\ me \notin Sends
    BY <2>1, <2>2 DEF Recvs, Sends, Hopeful
  <2>4. /\ CpuInv' /\ pc' \in [Thread -> Label] /\ WaitersSound'
        /\ R' = R /\ S' = S
        /\ Recvs' = Recvs \ {me} /\ Sends' = Sends \ {me}
    BY <2>1, <2>2, ReturnOutcome
  <2> QED BY <2>1, <2>3, <2>4 DEF MailOutcome, ClaimStep, Onlookers
<1> QED BY <1>3, <1>4, <1>5, <1>6

(* The calls of an interrupt handler. *)
LEMMA IsrOutcome ==
  ASSUME MailboxInv, IsrRecv \/ \E m \in Mail : IsrSend(m)
  PROVE  MailOutcome
<1>1. PICK h \in {mb, senders} :
        /\ UNCHANGED <<pc, mail>> /\ IsrWake(h)
        /\ h = mb => entry < size /\ entry' = entry + 1
        /\ h = senders => entry > 0 /\ entry' = entry - 1
  <2>1. CASE IsrRecv
    <3>1. /\ UNCHANGED <<pc, mail>> /\ IsrWake(senders)
          /\ entry > 0 /\ entry' = entry - 1
      BY <2>1, MailboxFacts DEF IsrRecv, Get
    <3> WITNESS senders \in {mb, senders}
    <3> QED BY <3>1, MailboxFacts
  <2>2. ASSUME NEW m \in Mail, IsrSend(m)
        PROVE  /\ UNCHANGED <<pc, mail>> /\ IsrWake(mb)
               /\ entry < size /\ entry' = entry + 1
    BY <2>2, MailboxFacts DEF IsrSend, Put
  <2>3. CASE \E m \in Mail : IsrSend(m)
    <3> WITNESS mb \in {mb, senders}
    <3> QED BY <2>2, <2>3, MailboxFacts
  <2> QED BY <2>1, <2>3
<1>2. pc' \in [Thread -> Label]
  BY <1>1, MailboxFacts
<1>3. CASE rt_list_isempty(k.list[h])
  <2>1. k' = k
    BY <1>1, <1>3 DEF IsrWake
  <2>2. k.list[h] = << >>
    BY <1>3 DEF rt_list_isempty
  <2>3. (h = mb => R = {}) /\ (h = senders => S = {})
    BY <2>2, MailboxFacts
  <2>4. /\ CpuInv' /\ WaitersSound' /\ R' = R /\ S' = S
        /\ Recvs' = Recvs /\ Sends' = Sends
    BY <1>1, <2>1, MailboxFacts
    DEF CpuInv, WaitersSound, R, S, Recvs, Sends, Hopeful, InCall, AboutToSchedule
  <2> QED BY <1>1, <1>2, <2>3, <2>4, MailboxFacts
          DEF MailOutcome, ClaimStep, OneMailMore, OneMailLess
<1>4. CASE ~rt_list_isempty(k.list[h])
  <2>1. CpuInv' /\ Resumed(h, "ok")
    <3>1. k' = rt_schedule(rt_ipc_list_resume(k, h)) /\ pc' = pc /\ h \in Queue
      BY <1>1, <1>4, MailboxFacts DEF IsrWake
    <3> QED BY <1>4, <3>1, MailboxFacts, ResumeByInterrupt
  <2>2. PICK me \in Thread : me \notin Hopeful
    BY <2>1 DEF Resumed, Hopeful
  <2>3. Recvs \ {me} = Recvs /\ Sends \ {me} = Sends
    BY <2>2 DEF Recvs, Sends
  <2>4. /\ WaitersSound' /\ R' \subseteq R /\ S' \subseteq S
        /\ h = mb => S' = S /\ Sends' = Sends \ {me}
        /\ h = senders => R' = R /\ Recvs' = Recvs \ {me}
        /\ h = mb => \E t \in Thread \ Recvs : Recvs' = (Recvs \ {me}) \cup {t}
        /\ h = senders => \E t \in Thread \ Sends : Sends' = (Sends \ {me}) \cup {t}
    BY <1>1, <2>1, <2>2, ResumeOutcome
  <2> QED BY <1>1, <1>2, <2>1, <2>3, <2>4
          DEF MailOutcome, ClaimStep, OneMailMore, OneMailLess
<1> QED BY <1>3, <1>4

(* rt_schedule, and the steps of rt_mb_detach and rt_mb_control. *)
LEMMA ControlOutcome ==
  ASSUME MailboxInv,
         \/ CpuStep /\ UNCHANGED mbvars
         \/ CallSchedule \/ Reschedule
         \/ Detach \/ DetachReceivers \/ DetachSenders
         \/ Reset \/ ResetResume(mb) \/ ResetResume(senders) \/ ResetRing
  PROVE  MailOutcome
<1>1. CpuInv /\ pc \in [Thread -> Label] /\ mb \in Queue /\ senders \in Queue
  BY MailboxFacts
<1>2. CASE CpuStep /\ UNCHANGED mbvars
  <2>1. UNCHANGED <<mail, entry>> /\ "sched" \in Label
    BY <1>2 DEF mbvars, ring, Label
  <2> QED BY <1>1, <1>2, <2>1, CpuStepKeepsCalls, KeptOutcome
<1>3. CASE CallSchedule \/ Reschedule
  <2>1. PICK label, to \in Label :
          /\ ScheduleAt(label, to)
          /\ label \in {"wait", "woken"} <=> to \in {"wait", "woken"}
    BY <1>3 DEF CallSchedule, Reschedule, Label
  <2>2. UNCHANGED <<mail, entry>>
    BY <1>3 DEF CallSchedule, Reschedule, mbvars, ring
  <2> QED BY <1>1, <2>1, <2>2, ScheduleKeepsCalls, KeptOutcome
<1>4. ASSUME NEW from \in {"run", "scan", "scan_senders", "resume", "resume_sender", "reset"},
             At(from)
      PROVE  \E me \in Thread : me = self /\ k.stat[me] = "ready" /\ pc[me] = from
                                /\ me \notin InCall
  <2>1. self \in Thread \ {Idle} /\ k.stat[self] = "ready" /\ pc[self] = from
    BY <1>1, <1>4, RunnerIsReady DEF AboutToSchedule
  <2> QED BY <2>1 DEF InCall
<1>5. ASSUME NEW me \in Thread, me = self, k.stat[me] = "ready", me \notin InCall,
             NEW label \in {"run", "scan", "resume", "scan_senders", "resume_sender",
                            "reset", "sched"},
             pc' = [pc EXCEPT ![me] = label], k' = k
      PROVE  CpuInv' /\ pc' \in [Thread -> Label] /\ CallsKept
  <2>1. label \in Label
    BY DEF Label
  <2>2. /\ CpuInv' /\ pc' \in [Thread -> Label]
        /\ InCall \ {me} = InCall' \ {me}
        /\ me \in InCall' <=> label \in {"wait", "woken"}
        /\ Hopeful \ {me} = Hopeful' \ {me}
        /\ me \in Hopeful' <=> label \in {"wait", "woken"} /\ k.error[me] = "ok"
        /\ \A g \in Queue : Nodes(k', g) = Nodes(k, g)
    BY <1>1, <1>5, <2>1, GoesOn
  <2>3. me \notin Hopeful
    BY <1>5 DEF Hopeful
  <2> QED BY <1>5, <2>2, <2>3 DEF CallsKept
<1>6. CASE Detach \/ Reset
  <2>1. At("run") /\ k' = k /\ UNCHANGED <<mail, entry>>
    BY <1>6 DEF Detach, Reset, Free, mbvars, ring
  <2>2. \E label \in {"scan", "reset"} : pc' = [pc EXCEPT ![self] = label]
    BY <1>6 DEF Detach, Reset, Goto
  <2> QED BY <1>4, <1>5, <2>1, <2>2, KeptOutcome
<1>7. CASE \/ DetachTest("scan", mb, "resume", "scan_senders")
           \/ DetachTest("scan_senders", senders, "resume_sender", "run")
  <2>1. \E from \in {"scan", "scan_senders"} : At(from)
    BY <1>7 DEF DetachTest
  <2>2. k' = k /\ UNCHANGED <<mail, entry>>
    BY <1>7 DEF DetachTest, mbvars, ring
  <2>3. \E label \in {"scan_senders", "resume", "resume_sender", "run"} :
          pc' = [pc EXCEPT ![self] = label]
    BY <1>7 DEF DetachTest, Goto
  <2> QED BY <1>4, <1>5, <2>1, <2>2, <2>3, KeptOutcome
<1>8. ASSUME NEW h \in {mb, senders}, ~rt_list_isempty(k.list[h]),
             k' = ResumeWithError(k, h), UNCHANGED <<mail, entry>>,
             NEW from \in {"resume", "resume_sender", "reset"}, At(from),
             NEW label \in {"scan", "scan_senders", "reset"},
             pc' = [pc EXCEPT ![self] = label]
      PROVE  MailOutcome
  <2>1. PICK me \in Thread : /\ me = self /\ k.stat[me] = "ready" /\ pc[me] = from
                             /\ me \notin InCall
    BY <1>4, <1>8
  <2>2. CpuInv' /\ Resumed(h, "error") /\ label \in Label
    <3>1. h \in Queue /\ label \in Label
      BY <1>1 DEF Label
    <3>2. k' = IF "error" = "ok" THEN rt_ipc_list_resume(k, h) ELSE ResumeWithError(k, h)
      BY <1>8
    <3> QED BY <1>1, <1>8, <2>1, <3>1, <3>2, ResumeByThread
  <2>3. /\ pc' \in [Thread -> Label] /\ me \notin InCall' /\ me \notin Hopeful
        /\ \A u \in Thread \ {me} : pc'[u] = pc[u] /\ mail'[u] = mail[u]
    BY <1>1, <1>8, <2>1, <2>2 DEF InCall, Hopeful
  <2>4. Recvs \ {me} = Recvs /\ Sends \ {me} = Sends
    BY <2>3 DEF Recvs, Sends
  <2>5. /\ WaitersSound' /\ R' \subseteq R /\ S' \subseteq S
        /\ Recvs' = Recvs \ {me} /\ Sends' = Sends \ {me}
    BY <2>1, <2>2, <2>3, ResumeOutcome
  <2> QED BY <1>8, <2>2, <2>3, <2>4, <2>5 DEF MailOutcome, ClaimStep, Onlookers
<1>9. CASE \/ DetachTurn("resume", mb, "scan")
           \/ DetachTurn("resume_sender", senders, "scan_senders")
  BY <1>8, <1>9 DEF DetachTurn, Goto, mbvars, ring
<1>10. ASSUME NEW h \in {mb, senders}, ResetResume(h) PROVE MailOutcome
  <2>1. PICK me \in Thread : me = self /\ pc[me] = "reset"
    BY <1>4, <1>10 DEF ResetResume
  <2>2. pc' = [pc EXCEPT ![self] = "reset"]
    BY <1>1, <1>10, <2>1 DEF ResetResume
  <2> QED BY <1>8, <1>10, <2>2 DEF ResetResume, mbvars, ring
<1>11. CASE ResetRing
  <2>1. /\ At("reset") /\ k' = k /\ mail' = mail /\ pc' = [pc EXCEPT ![self] = "sched"]
        /\ R = {} /\ S = {}
    BY <1>11, MailboxFacts DEF ResetRing, Goto, rt_list_isempty
  <2>2. CpuInv' /\ pc' \in [Thread -> Label] /\ CallsKept
    BY <1>4, <1>5, <2>1
  <2>3. R' = {} /\ S' = {} /\ Recvs' = Recvs /\ Sends' = Sends
    BY <2>1, <2>2 DEF CallsKept, R, S, Recvs, Sends
  <2>4. WaitersSound'
    BY <2>3 DEF WaitersSound
  <2> QED BY <2>2, <2>3, <2>4 DEF MailOutcome, ClaimStep, Cleared
<1> QED BY <1>2, <1>3, <1>6, <1>7, <1>9, <1>10, <1>11 DEF DetachReceivers, DetachSenders

LEMMA MailboxInitInv == Init => MailboxInv
<1> SUFFICES ASSUME Init PROVE MailboxInv
  OBVIOUS
<1>1. CpuInv /\ \A h \in Queue : Nodes(k, h) = {}
  BY IpcInitEstablishesInv DEF Init
<1>2. R = {} /\ S = {}
  BY <1>1, MailboxType DEF R, S
<1>3. pc = [t \in Thread |-> "run"]
  BY DEF Init, IpcInit
<1>4. pc \in [Thread -> Label]
  BY <1>3 DEF Label
<1>5. Recvs = {} /\ Sends = {}
  BY <1>3 DEF Recvs, Sends, Hopeful, InCall
<1>6. Claimed
  BY <1>2, <1>5, FS_EmptySet DEF Claimed
<1> QED BY <1>1, <1>2, <1>4, <1>6, InitRing DEF MailboxInv, WaitersSound

LEMMA MailboxStepInv == MailboxInv /\ [Next]_vars => MailboxInv'
<1> SUFFICES ASSUME MailboxInv, [Next]_vars PROVE MailboxInv'
  OBVIOUS
<1>1. RingInv'
  BY NextStepsRing, RingStepImplements DEF MailboxInv
<1>2. CASE Next
  <2>1. MailOutcome
    BY <1>2, CallOutcome, IsrOutcome, ControlOutcome DEF Next
  <2> QED BY <1>1, <2>1, ClaimStepKeeps DEF MailOutcome, MailboxInv
<1>3. CASE UNCHANGED vars
  <2>1. k' = k /\ pc' = pc /\ mail' = mail /\ entry' = entry
    BY <1>3 DEF vars, mbvars, ring
  <2>2. /\ CpuInv' /\ WaitersSound' /\ R' = R /\ S' = S
        /\ Recvs' = Recvs /\ Sends' = Sends
    BY <2>1, MailboxFacts
    DEF CpuInv, WaitersSound, R, S, Recvs, Sends, Hopeful, InCall, AboutToSchedule
  <2>3. MailOutcome
    BY <2>1, <2>2, MailboxFacts DEF MailOutcome, ClaimStep, Onlookers
  <2> QED BY <1>1, <2>3, ClaimStepKeeps DEF MailOutcome, MailboxInv
<1> QED BY <1>2, <1>3

(* While receivers wait every mail has a woken receiver on its way, and     *)
(* while senders wait every free place a sender (rt_mb_send_wait,           *)
(* rt_mb_recv), whoever overtakes, times out, detaches or interrupts.       *)
THEOREM MailboxNoLostWakeup == Spec => []NoLostWakeup
<1>1. Spec => []MailboxInv
  BY MailboxInitInv, MailboxStepInv, PTL DEF Spec
<1> QED BY <1>1, ClaimedIsNoLostWakeup, PTL


-----------------------------------------------------------------------------
(* A completion reports what is done *)

Awaiting == {t \in Thread : pc[t] \in {"await", "awake"}}
Listed == Nodes(k, completion)

\* Only the Waiter waits, and not when it is done.
DoneInv ==
  /\ CpuInv
  /\ pc \in [Thread -> DoneLabel]
  /\ completed \in BOOLEAN /\ owed \in BOOLEAN
  /\ completed => owed
  /\ Listed \subseteq Awaiting /\ Awaiting \subseteq {Waiter}
  /\ completed => Listed = {}

\* No timeout takes the Waiter off the list, so it is there or it is done.
UntimedInv ==
  /\ DoneInv
  /\ owed => completed
  /\ Waiter \in Awaiting => /\ ~k.timer[Waiter] /\ k.error[Waiter] = "ok"
                            /\ Waiter \in Listed \/ completed

LEMMA DoneFacts ==
  ASSUME DoneInv
  PROVE  /\ CpuInv /\ pc \in [Thread -> DoneLabel] /\ completion \in Queue
         /\ completed \in BOOLEAN /\ owed \in BOOLEAN /\ Waiter \in Thread
         /\ Listed = {} <=> k.list[completion] = << >>
         /\ \A t \in Listed : t = Waiter /\ k.stat[t] = "suspend" /\ pc[t] \in {"await", "awake"}
BY CompletionType, NodesAreThreads DEF DoneInv, Listed, Awaiting

\* What a step does to the Waiter.
Undisturbed ==
  /\ UNCHANGED donevars /\ Awaiting' = Awaiting /\ Listed' \subseteq Listed
  /\ Waiter \in Awaiting /\ ~k.timer[Waiter] =>
       /\ ~k'.timer[Waiter] /\ k'.error[Waiter] = k.error[Waiter]
       /\ Waiter \in Listed' <=> Waiter \in Listed

Reported ==
  /\ Awaiting' = {} /\ Listed' = {} /\ completed' = FALSE
  /\ \/ owed' = FALSE
     \/ /\ owed' = owed
        /\ ~completed \/ (Waiter \in Awaiting /\ k.error[Waiter] # "ok")

Asleep ==
  /\ ~completed /\ UNCHANGED donevars
  /\ Awaiting' = {Waiter} /\ Listed' = {Waiter}
  /\ "ticks" \notin DoneTimes => ~k'.timer[Waiter] /\ k'.error[Waiter] = "ok"

Told ==
  /\ completed' = TRUE /\ owed' = TRUE
  /\ Awaiting' = Awaiting /\ Listed' = {}
  /\ Waiter \in Awaiting =>
       k'.error[Waiter] = k.error[Waiter] /\ (k'.timer[Waiter] => k.timer[Waiter])

DoneOutcome == CpuInv' /\ pc' \in [Thread -> DoneLabel]
               /\ (Undisturbed \/ Reported \/ Asleep \/ Told)

LEMMA DoneOutcomeKeepsInv ==
  ASSUME DoneInv, DoneOutcome
  PROVE  DoneInv' /\ (UntimedInv /\ "ticks" \notin DoneTimes => UntimedInv')
<1>1. CASE Undisturbed
  BY <1>1, DoneFacts DEF DoneOutcome, Undisturbed, DoneInv, UntimedInv, donevars
<1>2. CASE Reported
  <2>1. DoneInv'
    BY <1>2 DEF DoneOutcome, Reported, DoneInv
  <2>2. ASSUME UntimedInv PROVE owed' = FALSE
    BY <1>2, <2>2 DEF Reported, DoneInv, UntimedInv
  <2> QED BY <1>2, <2>1, <2>2 DEF Reported, UntimedInv
<1>3. CASE Asleep
  BY <1>3, DoneFacts DEF DoneOutcome, Asleep, DoneInv, UntimedInv, donevars
<1>4. CASE Told
  BY <1>4, DoneFacts DEF DoneOutcome, Told, DoneInv, UntimedInv
<1> QED BY <1>1, <1>2, <1>3, <1>4 DEF DoneOutcome

(* The running thread goes on at another label. *)
LEMMA AwaitingOthers ==
  ASSUME DoneInv, NEW me \in Thread, NEW label,
         pc' = [pc EXCEPT ![me] = label]
  PROVE  /\ label \in DoneLabel => pc' \in [Thread -> DoneLabel]
         /\ (me \in Awaiting <=> label \in {"await", "awake"}) => Awaiting' = Awaiting
         /\ label \notin {"await", "awake"} => Awaiting' = Awaiting \ {me}
         /\ label \in {"await", "awake"} => Awaiting' = Awaiting \cup {me}
<1>1. \A t \in Thread : pc'[t] = IF t = me THEN label ELSE pc[t]
  BY DoneFacts
<1> QED BY <1>1, DoneFacts DEF Awaiting

LEMMA DoneCpuOutcome ==
  ASSUME DoneInv, CpuStep, UNCHANGED donevars
  PROVE  DoneOutcome
<1>1. UNCHANGED donevars
  OBVIOUS
<1>2. CASE Delay
  <2>1. /\ CpuInv'
        /\ Listed' = Listed /\ k'.error = k.error
        /\ NoNewTimer(k, k', Thread \ {self})
        /\ pc[self] = "run" /\ self \in Thread \ {Idle}
        /\ pc' = [pc EXCEPT ![self] = "sched"]
    BY <1>2, DoneFacts, DelayStep DEF Listed
  <2>2. PICK me \in Thread : me = self
    BY <2>1
  <2>3. "sched" \in DoneLabel /\ me \notin Awaiting
    BY <2>1, <2>2 DEF Awaiting, DoneLabel
  <2>4. pc' \in [Thread -> DoneLabel] /\ Awaiting' = Awaiting
    BY <2>1, <2>2, <2>3, AwaitingOthers
  <2>5. Undisturbed
    BY <1>1, <2>1, <2>2, <2>3, <2>4, DoneFacts DEF Undisturbed, NoNewTimer
  <2> QED BY <2>1, <2>4, <2>5 DEF DoneOutcome
<1>3. ASSUME CpuInv', SameWaiters(k, k'), UNCHANGED pc PROVE DoneOutcome
  <2>1. /\ Listed' = Listed /\ Awaiting' = Awaiting /\ k'.error = k.error
        /\ NoNewTimer(k, k', Thread) /\ pc' \in [Thread -> DoneLabel]
    BY <1>3, DoneFacts DEF SameWaiters, Listed, Awaiting
  <2> QED BY <1>1, <1>3, <2>1, DoneFacts DEF DoneOutcome, Undisturbed, NoNewTimer
<1>4. CASE Tick
  BY <1>3, <1>4, TickStep, DoneFacts
<1>5. ASSUME NEW t \in Thread, Startup(t) PROVE DoneOutcome
  BY <1>3, <1>5, StartupStep, DoneFacts
<1>6. ASSUME NEW t \in Thread, TimerCheck(t) PROVE DoneOutcome
  <2>1. /\ CpuInv' /\ UNCHANGED pc
        /\ Listed' = Listed \ {t}
        /\ k'.error = [k.error EXCEPT ![t] = "timeout"]
        /\ k.timer[t] /\ NoNewTimer(k, k', Thread)
    BY <1>6, TimerCheckStep, DoneFacts DEF Listed
  <2>2. Awaiting' = Awaiting /\ pc' \in [Thread -> DoneLabel]
    BY <2>1, DoneFacts DEF Awaiting
  <2>3. ASSUME ~k.timer[Waiter]
        PROVE  k'.error[Waiter] = k.error[Waiter] /\ Waiter # t /\ ~k'.timer[Waiter]
    BY <2>1, <2>3, DoneFacts, KernelFields DEF NoNewTimer
  <2>4. Undisturbed
    BY <1>1, <2>1, <2>2, <2>3, DoneFacts DEF Undisturbed
  <2> QED BY <2>1, <2>2, <2>4 DEF DoneOutcome
<1> QED BY <1>2, <1>4, <1>5, <1>6 DEF CpuStep

(* rt_completion_wait. *)
LEMMA WaitOutcome ==
  ASSUME DoneInv,
         \/ \E left \in DoneTimes : WaitNow(left) \/ WaitDone(left)
         \/ WaitReturn
  PROVE  DoneOutcome
<1>1. "run" \notin AboutToSchedule /\ "awake" \notin AboutToSchedule
      /\ {"run", "await"} \subseteq DoneLabel
  BY DEF AboutToSchedule, DoneLabel
<1>2. (At("run") /\ self = Waiter) \/ At("awake")
  BY DEF WaitNow, WaitDone, WaitReturn
<1>3. PICK label \in {"run", "awake"} : At(label)
  BY <1>2
<1>4. self \in Thread \ {Idle} /\ k.stat[self] = "ready" /\ pc[self] = label
  BY <1>1, <1>3, RunnerIsReady, DoneFacts
<1>5. PICK me \in Thread \ {Idle} : me = self
  BY <1>4
<1>6. me = Waiter /\ Waiter \notin Listed /\ Listed = {}
      /\ (Waiter \in Awaiting <=> pc[Waiter] = "awake") /\ Awaiting \subseteq {Waiter}
  BY <1>2, <1>4, <1>5, DoneFacts DEF DoneInv, Awaiting, At
<1>7. ASSUME NEW left \in DoneTimes, WaitNow(left) PROVE DoneOutcome
  <2>1. /\ k' = k /\ pc' = pc /\ completed' = FALSE
        /\ owed' = IF completed THEN FALSE ELSE owed
        /\ Waiter \notin Awaiting
    BY <1>4, <1>5, <1>6, <1>7 DEF WaitNow, At
  <2>2. CpuInv' /\ Listed' = Listed /\ Awaiting' = Awaiting
    BY <2>1, DoneFacts DEF CpuInv, AboutToSchedule, Listed, Awaiting
  <2>3. Reported
    BY <1>6, <2>1, <2>2, DoneFacts DEF Reported
  <2> QED BY <2>1, <2>2, <2>3, DoneFacts DEF DoneOutcome
<1>8. ASSUME NEW left \in DoneTimes, WaitDone(left) PROVE DoneOutcome
  <2>1. /\ k' = Wait(k, completion, me, "fifo", left) /\ ~completed
        /\ pc' = [pc EXCEPT ![me] = "await"] /\ UNCHANGED donevars
        /\ KernelInv(k, {}) /\ k.stat[me] = "ready"
    BY <1>4, <1>5, <1>8, DoneFacts, KernelFields DEF WaitDone, Goto
  <2>2. /\ KernelInv(k', {}) /\ PutToSleep(k, k', completion, me)
        /\ k'.error = [k.error EXCEPT ![me] = "ok"]
        /\ left # "ticks" => NoNewTimer(k, k', Thread)
    BY <2>1, DoneFacts, WaitKeepsInv
  <2>3. Listed' = {Waiter} /\ k'.error[Waiter] = "ok"
    BY <1>6, <2>2, DoneFacts, KernelFields DEF PutToSleep, Listed
  <2>4. "ticks" \notin DoneTimes => ~k'.timer[Waiter]
    <3>1. ~k.timer[me]
      BY <2>1 DEF KernelInv, WaitersSuspended
    <3> QED BY <1>6, <2>2, <3>1 DEF NoNewTimer
  <2>5. pc' \in [Thread -> DoneLabel] /\ Awaiting' = {Waiter}
    BY <1>1, <1>6, <2>1, AwaitingOthers
  <2>6. CpuInv'
    <3>1. /\ k'.stat = [k.stat EXCEPT ![me] = "suspend"] /\ k'.lock_nest = 0
          /\ k'.current_thread = me /\ k' # k
      BY <1>5, <2>1, <2>2, DoneFacts, KernelFields DEF PutToSleep, CpuInv, self
    <3>2. \A t \in Thread : /\ k'.stat[t] \in {"init", "ready", "suspend"}
                            /\ k'.stat[t] = "init" => pc'[t] = "run"
      BY <2>1, <3>1, DoneFacts, KernelFields DEF CpuInv
    <3>3. pc'[k'.current_thread] \in AboutToSchedule
      BY <2>1, <3>1, DoneFacts DEF AboutToSchedule
    <3> QED BY <2>2, <3>1, <3>2, <3>3 DEF CpuInv
  <2>7. Asleep
    BY <2>1, <2>3, <2>4, <2>5 DEF Asleep
  <2> QED BY <2>5, <2>6, <2>7 DEF DoneOutcome
<1>9. CASE WaitReturn
  <2>1. /\ k' = k /\ pc' = [pc EXCEPT ![me] = "run"] /\ completed' = FALSE
        /\ owed' = IF k.error[me] = "ok" THEN FALSE ELSE owed
        /\ pc[me] = "awake"
    BY <1>5, <1>9 DEF WaitReturn, At, Goto
  <2>2. /\ Awaiting' = {} /\ pc' \in [Thread -> DoneLabel]
    <3>1. "run" \in DoneLabel /\ "run" \notin {"await", "awake"}
      BY <1>1
    <3>2. pc' \in [Thread -> DoneLabel] /\ Awaiting' = Awaiting \ {me}
      BY <2>1, <3>1, AwaitingOthers
    <3> QED BY <1>6, <3>2
  <2>3. CpuInv'
    BY <1>4, <1>5, <2>1, DoneFacts, PcStepKeepsCpuInv
  <2>4. Listed' = {} /\ Waiter \in Awaiting
    BY <1>6, <2>1 DEF Listed
  <2>5. Reported
    BY <1>6, <2>1, <2>2, <2>4 DEF Reported
  <2> QED BY <2>2, <2>3, <2>5 DEF DoneOutcome
<1> QED BY <1>7, <1>8, <1>9

(* rt_completion_done, by a thread and by an interrupt handler. *)
LEMMA DoneCallOutcome ==
  ASSUME DoneInv, DoneTest \/ DoneSection \/ IsrDone
  PROVE  DoneOutcome
<1>1. /\ "run" \notin AboutToSchedule /\ "done" \notin AboutToSchedule
      /\ {"run", "done", "sched"} \subseteq DoneLabel
  BY DEF AboutToSchedule, DoneLabel
<1>2. ASSUME NEW from \in {"run", "done"}, At(from)
      PROVE  self \in Thread /\ k.stat[self] = "ready" /\ self \notin Awaiting
  <2>1. self \in Thread \ {Idle} /\ k.stat[self] = "ready" /\ pc[self] = from
    BY <1>1, <1>2, RunnerIsReady, DoneFacts
  <2> QED BY <2>1 DEF Awaiting
<1>3. ASSUME NEW me \in Thread, me = self, k.stat[me] = "ready", me \notin Awaiting,
             NEW label \in {"run", "done"}, pc' = [pc EXCEPT ![me] = label], k' = k
      PROVE  CpuInv' /\ pc' \in [Thread -> DoneLabel] /\ Awaiting' = Awaiting
  <2>1. CpuInv'
    BY <1>3, DoneFacts, PcStepKeepsCpuInv
  <2> QED BY <1>1, <1>3, <2>1, AwaitingOthers
<1>4. CASE DoneTest
  <2>1. /\ At("run") /\ k' = k /\ UNCHANGED donevars
        /\ pc' = pc \/ pc' = [pc EXCEPT ![self] = "done"]
    BY <1>4, DoneFacts DEF DoneTest, Goto, donevars, DoneInv
  <2>2. CpuInv' /\ pc' \in [Thread -> DoneLabel] /\ Awaiting' = Awaiting
    <3>1. CASE pc' = pc
      BY <2>1, <3>1, DoneFacts DEF CpuInv, AboutToSchedule, Awaiting
    <3>2. CASE pc' = [pc EXCEPT ![self] = "done"]
      BY <1>2, <1>3, <2>1, <3>2
    <3> QED BY <2>1, <3>1, <3>2
  <2>3. Undisturbed
    BY <2>1, <2>2 DEF Undisturbed, Listed
  <2> QED BY <2>2, <2>3 DEF DoneOutcome
<1>5. ASSUME rt_list_isempty(k.list[completion]), k' = k,
             completed' = TRUE, owed' = TRUE,
             CpuInv', pc' \in [Thread -> DoneLabel], Awaiting' = Awaiting
      PROVE  DoneOutcome
  <2>1. Listed' = {}
    BY <1>5, DoneFacts DEF rt_list_isempty, Listed
  <2> QED BY <1>5, <2>1 DEF DoneOutcome, Told
<1>6. ASSUME Resumed(completion, "ok"), completed' = TRUE, owed' = TRUE,
             CpuInv', pc' \in [Thread -> DoneLabel], Awaiting' = Awaiting
      PROVE  DoneOutcome
  <2>1. PICK t \in Listed : Listed' = Listed \ {t} /\ k'.error = k.error
    BY <1>6, DoneFacts DEF Resumed, Listed
  <2>2. Listed' = {}
    BY <2>1, DoneFacts
  <2>3. k'.timer[Waiter] => k.timer[Waiter]
    BY <1>6, DoneFacts DEF Resumed, NoNewTimer
  <2> QED BY <1>6, <2>1, <2>2, <2>3 DEF DoneOutcome, Told
<1>7. CASE DoneSection
  <2>1. PICK me \in Thread : me = self /\ k.stat[me] = "ready" /\ me \notin Awaiting
    BY <1>2, <1>7 DEF DoneSection
  <2>2. completed' = TRUE /\ owed' = TRUE
    BY <1>7 DEF DoneSection
  <2>3. CASE rt_list_isempty(k.list[completion])
    <3>1. k' = k /\ pc' = [pc EXCEPT ![me] = "run"]
      BY <1>7, <2>1, <2>3 DEF DoneSection, Goto
    <3> QED BY <1>3, <1>5, <2>1, <2>2, <2>3, <3>1
  <2>4. CASE ~rt_list_isempty(k.list[completion])
    <3>1. k' = rt_ipc_list_resume(k, completion) /\ pc' = [pc EXCEPT ![me] = "sched"]
      BY <1>7, <2>1, <2>4 DEF DoneSection, Goto
    <3>2. CpuInv' /\ Resumed(completion, "ok")
      BY <1>1, <2>1, <2>4, <3>1, DoneFacts, ResumeByThread
    <3>3. pc' \in [Thread -> DoneLabel] /\ Awaiting' = Awaiting
      BY <1>1, <2>1, <3>1, AwaitingOthers
    <3> QED BY <1>6, <2>2, <3>2, <3>3
  <2> QED BY <2>3, <2>4
<1>8. CASE IsrDone
  <2>1. completed' = TRUE /\ owed' = TRUE /\ pc' = pc
    BY <1>8 DEF IsrDone
  <2>2. Awaiting' = Awaiting /\ pc' \in [Thread -> DoneLabel]
    BY <2>1, DoneFacts DEF Awaiting
  <2>3. CASE completed \/ rt_list_isempty(k.list[completion])
    <3>1. k' = k /\ rt_list_isempty(k.list[completion])
      BY <1>8, <2>3, DoneFacts DEF IsrDone, DoneInv, rt_list_isempty
    <3>2. CpuInv'
      BY <2>1, <3>1, DoneFacts DEF CpuInv, AboutToSchedule
    <3> QED BY <1>5, <2>1, <2>2, <3>1, <3>2
  <2>4. CASE ~(completed \/ rt_list_isempty(k.list[completion]))
    <3>1. k' = rt_schedule(rt_ipc_list_resume(k, completion))
      BY <1>8, <2>4 DEF IsrDone
    <3>2. CpuInv' /\ Resumed(completion, "ok")
      BY <2>1, <2>4, <3>1, DoneFacts, ResumeByInterrupt
    <3> QED BY <1>6, <2>1, <2>2, <3>2
  <2> QED BY <2>3, <2>4
<1> QED BY <1>4, <1>7, <1>8

LEMMA DoneStepOutcome == DoneInv /\ [DoneNext]_<<k, pc, donevars>> => DoneOutcome
<1> SUFFICES ASSUME DoneInv, [DoneNext]_<<k, pc, donevars>> PROVE DoneOutcome
  OBVIOUS
<1>1. CASE WaitSchedule \/ DoneSchedule
  <2>1. PICK label, to \in DoneLabel :
          /\ ScheduleAt(label, to) /\ UNCHANGED donevars
          /\ label \in {"await", "awake"} <=> to \in {"await", "awake"}
    BY <1>1 DEF WaitSchedule, DoneSchedule, DoneLabel
  <2>2. /\ CpuInv' /\ SameWaiters(k, k')
        /\ pc[self] = label /\ self \in Thread \ {Idle}
        /\ pc' = [pc EXCEPT ![self] = to]
    BY <2>1, ScheduleAtStep, DoneFacts
  <2>3. PICK me \in Thread : me = self
    BY <2>2
  <2>4. pc' \in [Thread -> DoneLabel] /\ Awaiting' = Awaiting
    <3>1. me \in Awaiting <=> to \in {"await", "awake"}
      BY <2>1, <2>2, <2>3 DEF Awaiting
    <3> QED BY <2>1, <2>2, <2>3, <3>1, AwaitingOthers
  <2>5. Listed' = Listed /\ k'.error = k.error /\ NoNewTimer(k, k', Thread)
    BY <2>2, DoneFacts DEF SameWaiters, Listed
  <2>6. Undisturbed
    BY <2>1, <2>4, <2>5, DoneFacts DEF Undisturbed, NoNewTimer
  <2> QED BY <2>2, <2>4, <2>6 DEF DoneOutcome
<1>2. CASE UNCHANGED <<k, pc, donevars>>
  <2>1. k' = k /\ pc' = pc /\ UNCHANGED donevars
    BY <1>2
  <2>2. CpuInv' /\ Listed' = Listed /\ Awaiting' = Awaiting
    BY <2>1, DoneFacts DEF CpuInv, AboutToSchedule, Listed, Awaiting
  <2> QED BY <2>1, <2>2, DoneFacts DEF DoneOutcome, Undisturbed
<1> QED BY <1>1, <1>2, DoneCpuOutcome, WaitOutcome, DoneCallOutcome DEF DoneNext

LEMMA DoneInitInv == DoneInit => DoneInv /\ UntimedInv
<1> SUFFICES ASSUME DoneInit PROVE DoneInv /\ UntimedInv
  OBVIOUS
<1>1. CpuInv /\ \A h \in Queue : Nodes(k, h) = {}
  BY IpcInitEstablishesInv DEF DoneInit
<1>2. pc = [t \in Thread |-> "run"] /\ completed = FALSE /\ owed = FALSE
  BY DEF DoneInit, IpcInit
<1>3. Listed = {} /\ Awaiting = {} /\ pc \in [Thread -> DoneLabel]
  BY <1>1, <1>2, CompletionType DEF Listed, Awaiting, DoneLabel
<1> QED BY <1>1, <1>2, <1>3 DEF DoneInv, UntimedInv

\* The thread in rt_completion_wait never sleeps on what was done before,
\* also when rt_completion_done, which tests the flag with interrupts
\* enabled, is overtaken by it or by another rt_completion_done
\* (completion.c:31-93), and also when waits time out.
THEOREM CompletionNeverOversleeps ==
  DoneSpec => [](k.list[completion] # << >> => ~completed)
<1>1. DoneInv /\ [DoneNext]_<<k, pc, donevars>> => DoneInv'
  BY DoneStepOutcome, DoneOutcomeKeepsInv
<1>2. DoneInv => (k.list[completion] # << >> => ~completed)
  BY DoneFacts DEF DoneInv
<1> QED BY <1>1, <1>2, DoneInitInv, PTL DEF DoneSpec

\* What is done is reported by the next rt_completion_wait, and nothing else
\* is (completion.c:31-93): for waits without a timeout.  A wait that times
\* out may clear the flag of a done it does not report, see README.
THEOREM CompletionReports ==
  ASSUME "ticks" \notin DoneTimes
  PROVE  DoneSpec => []DoneIsReported
<1>1. UntimedInv /\ [DoneNext]_<<k, pc, donevars>> => UntimedInv'
  BY DoneStepOutcome, DoneOutcomeKeepsInv DEF UntimedInv
<1>2. UntimedInv => DoneIsReported
  <2> SUFFICES ASSUME UntimedInv PROVE DoneIsReported
    OBVIOUS
  <2>1. DoneInv
    BY DEF UntimedInv
  <2> QED BY <2>1, DoneFacts DEF UntimedInv, DoneInv, DoneIsReported, Awaiting
<1> QED BY <1>1, <1>2, DoneInitInv, PTL DEF DoneSpec

-----------------------------------------------------------------------------
(* The memory pool *)

\* The chain that rt_mp_create links: every block once.
LEMMA ChainOfBlocks ==
  LET l == SetToSeq(Block)
  IN  /\ l \in Seq(Block) /\ NoRepeat(l)
      /\ ToSet(l) = Block /\ Len(l) = Cardinality(Block)
<1> DEFINE n == Cardinality(Block)
           l == SetToSeq(Block)
<1>1. IsFiniteSet(Block) /\ n \in Nat /\ ExistsBijection(1 .. n, Block)
  BY MemPoolType, FS_CardinalityType
<1>2. \E f \in [1 .. n -> Block] : IsInjective(f)
  BY <1>1 DEF ExistsBijection, Bijection, Injection
<1>3. l \in [1 .. n -> Block] /\ IsInjective(l)
  BY <1>2 DEF SetToSeq
<1> HIDE DEF l
<1>4. IsFiniteSet(1 .. n) /\ Cardinality(1 .. n) = n
  BY <1>1, FS_Interval
<1>5. l \in Surjection(1 .. n, Block)
  BY <1>1, <1>3, <1>4, FS_Injection DEF Injection
<1>6. l \in Seq(Block) /\ Len(l) = n
  BY <1>1, <1>3
<1>7. QED
  BY <1>1, <1>3, <1>5, <1>6 DEF Surjection, IsInjective, NoRepeat, ToSet, l

-----------------------------------------------------------------------------
(* The invariant *)

Pending == {t \in Thread : pc[t] \in {"wait", "woken"}}

\* The threads on the list are those asleep in rt_mp_alloc.
WaitersPend == Waiters = Pending \cap Sleepers(k)

\* A thread that goes round the loop again was woken by rt_mp_free.
RetryAwake == \A t \in Thread : pc[t] = "retry" => /\ k.stat[t] = "ready"
                                                  /\ k.error[t] = "ok"

DeleterCloses == \A t \in Thread : pc[t] \in {"scan", "resume"} => ~mp_alive

\* The second half of MpNoLostWakeup, and the first with what it counts.
CountCovers == suspend_thread_count >= Cardinality(Waiters)

FreeIsClaimed ==
  /\ IsFiniteSet(MpWoken)
  /\ (Waiters # {} /\ mp_alive) => block_free_count <= Cardinality(MpWoken)

PoolInv ==
  /\ CpuInv
  /\ MpTypeOK
  /\ BlocksConserved
  /\ WaitersPend
  /\ RetryAwake
  /\ DeleterCloses
  /\ CountCovers
  /\ FreeIsClaimed

LEMMA WaitersAreNodes ==
  /\ Waiters = Nodes(k, mp) /\ Waiters' = Nodes(k', mp)
  /\ CpuInv => IsFiniteSet(Waiters) /\ Cardinality(Waiters) = Len(k.list[mp])
<1>1. Waiters = Nodes(k, mp) /\ Waiters' = Nodes(k', mp)
  BY DEF Waiters, Nodes
<1>2. ASSUME CpuInv
      PROVE  IsFiniteSet(Waiters) /\ Cardinality(Waiters) = Len(k.list[mp])
  <2>1. k.list[mp] \in Seq(Thread) /\ NoRepeat(k.list[mp])
    BY <1>2, MemPoolType DEF CpuInv, KernelInv, KernelType, NoRepeats, ListHead
  <2>2. QED
    BY <2>1, LengthIsCardinality DEF Waiters
<1>3. QED
  BY <1>1, <1>2

-----------------------------------------------------------------------------
(* What a step does to the blocks *)

SameBlocks == UNCHANGED <<block_free_count, block_list, allocated>>

GivesBlock(t) ==
  /\ block_free_count > 0
  /\ block_free_count' = block_free_count - 1
  /\ block_list' = Tail(block_list)
  /\ allocated' = [allocated EXCEPT ![t] = @ \cup {Head(block_list)}]

GetsBlock(t, b) ==
  /\ b \in allocated[t]
  /\ block_free_count' = block_free_count + 1
  /\ block_list' = Cons(b, block_list)
  /\ allocated' = [allocated EXCEPT ![t] = @ \ {b}]

BlockStep ==
  \/ SameBlocks
  \/ \E t \in Thread : GivesBlock(t)
  \/ \E t \in Thread, b \in Block : GetsBlock(t, b)

BlockTypes ==
  /\ block_free_count \in 0 .. Cardinality(Block)
  /\ block_list \in Seq(Block)
  /\ allocated \in [Thread -> SUBSET Block]

LEMMA BlockCount ==
  ASSUME NEW l \in Seq(Block), NoRepeat(l)
  PROVE  Len(l) \in 0 .. Cardinality(Block)
<1>1. Cardinality(ToSet(l)) = Len(l) /\ Len(l) \in Nat
  BY LengthIsCardinality, LenProperties
<1>2. ToSet(l) \subseteq Block
  BY LenProperties DEF ToSet
<1>3. Cardinality(ToSet(l)) <= Cardinality(Block) /\ Cardinality(Block) \in Nat
  BY <1>2, MemPoolType, FS_Subset, FS_CardinalityType
<1>4. QED
  BY <1>1, <1>3

LEMMA BlockStepConserves ==
  ASSUME BlockTypes, BlocksConserved, BlockStep
  PROVE  BlockTypes' /\ BlocksConserved'
<1> USE DEF BlockTypes
<1>1. CASE SameBlocks
  BY <1>1 DEF SameBlocks, BlocksConserved
<1>2. ASSUME NEW t \in Thread, GivesBlock(t)
      PROVE  BlockTypes' /\ BlocksConserved'
  <2> DEFINE b == Head(block_list)
  <2>1. Len(block_list) > 0 /\ NoRepeat(block_list)
    BY <1>2 DEF GivesBlock, BlocksConserved
  <2>2. /\ b \in ToSet(block_list) /\ b \in Block
        /\ block_list' \in Seq(Block) /\ NoRepeat(block_list')
        /\ Len(block_list') = Len(block_list) - 1
        /\ ToSet(block_list') = ToSet(block_list) \ {b}
    BY <1>2, <2>1, FirstAndRest DEF GivesBlock
  <2>3. allocated' = [allocated EXCEPT ![t] = @ \cup {b}]
    BY <1>2 DEF GivesBlock
  <2> HIDE DEF b
  <2>4. block_free_count' = Len(block_list')
    BY <1>2, <2>2 DEF GivesBlock, BlocksConserved
  <2>5. block_free_count' \in 0 .. Cardinality(Block)
    BY <2>2, <2>4, BlockCount
  <2>6. allocated' \in [Thread -> SUBSET Block]
    BY <2>2, <2>3
  <2>7. \A u \in Thread : allocated'[u] = IF u = t THEN allocated[u] \cup {b}
                                          ELSE allocated[u]
    BY <2>3
  <2>8. \A u \in Thread : b \notin allocated[u]
    BY <2>2 DEF BlocksConserved
  <2>9. \A u \in Thread : allocated'[u] \cap ToSet(block_list') = {}
    BY <2>2, <2>7, <2>8 DEF BlocksConserved
  <2>10. \A u, v \in Thread : u # v => allocated'[u] \cap allocated'[v] = {}
    BY <2>7, <2>8 DEF BlocksConserved
  <2>11. ToSet(block_list') \cup UNION {allocated'[u] : u \in Thread} = Block
    <3>1. ToSet(block_list) \cup UNION {allocated[u] : u \in Thread} = Block
      BY DEF BlocksConserved
    <3>2. UNION {allocated'[u] : u \in Thread}
            = {b} \cup UNION {allocated[u] : u \in Thread}
      BY <2>7
    <3>3. QED
      BY <2>2, <3>1, <3>2
  <2>12. QED
    BY <2>2, <2>4, <2>5, <2>6, <2>9, <2>10, <2>11 DEF BlocksConserved
<1>3. ASSUME NEW t \in Thread, NEW b \in Block, GetsBlock(t, b)
      PROVE  BlockTypes' /\ BlocksConserved'
  <2>1. /\ b \in allocated[t] /\ NoRepeat(block_list)
        /\ b \notin ToSet(block_list)
    BY <1>3 DEF GetsBlock, BlocksConserved
  <2>2. block_list' = rt_list_insert_after(block_list, b)
    BY <1>3 DEF GetsBlock, Cons, rt_list_insert_after
  <2>3. /\ block_list' \in Seq(Block) /\ NoRepeat(block_list')
        /\ Len(block_list') = Len(block_list) + 1
        /\ ToSet(block_list') = ToSet(block_list) \cup {b}
    <3> DEFINE m == rt_list_insert_after(block_list, b)
    <3>1. block_list \in Seq(Block)
      BY DEF BlockTypes
    <3>2. m \in Seq(Block) /\ Len(m) = Len(block_list) + 1
      BY <3>1, InsertFirst
    <3>3. ToSet(m) = ToSet(block_list) \cup {b}
      BY <3>1, InsertFirst
    <3>4. NoRepeat(m)
      BY <2>1, <3>1, InsertFirst
    <3> QED BY <2>2, <3>2, <3>3, <3>4
  <2>4. block_free_count' = Len(block_list')
    BY <1>3, <2>3 DEF GetsBlock, BlocksConserved
  <2>5. block_free_count' \in 0 .. Cardinality(Block)
    BY <2>3, <2>4, BlockCount
  <2>6. /\ allocated' \in [Thread -> SUBSET Block]
        /\ \A u \in Thread : allocated'[u] = IF u = t THEN allocated[u] \ {b}
                                             ELSE allocated[u]
    BY <1>3 DEF GetsBlock
  <2>7. \A u \in Thread \ {t} : b \notin allocated[u]
    BY <2>1 DEF BlocksConserved
  <2>8. \A u \in Thread : allocated'[u] \cap ToSet(block_list') = {}
    BY <2>3, <2>6, <2>7 DEF BlocksConserved
  <2>9. \A u, v \in Thread : u # v => allocated'[u] \cap allocated'[v] = {}
    BY <2>6 DEF BlocksConserved
  <2>10. ToSet(block_list') \cup UNION {allocated'[u] : u \in Thread} = Block
    <3>1. ToSet(block_list) \cup UNION {allocated[u] : u \in Thread} = Block
      BY DEF BlocksConserved
    <3> DEFINE F == ToSet(block_list)
               G == ToSet(block_list')
               U == UNION {allocated[u] : u \in Thread}
               V == UNION {allocated'[u] : u \in Thread}
    <3>2. /\ \A x : x \in U <=> \E u \in Thread : x \in allocated[u]
          /\ \A x : x \in V <=> \E u \in Thread : x \in allocated'[u]
      OBVIOUS
    <3>3. G = F \cup {b} /\ b \in allocated[t]
      BY <2>1, <2>3
    <3> HIDE DEF F, G, U, V
    <3>4. \A x : x \in V \/ x = b <=> x \in U
      BY <2>6, <3>2, <3>3
    <3>5. G \cup V = F \cup U
      BY <3>3, <3>4
    <3>6. QED
      BY <3>1, <3>5 DEF F, G, U, V
  <2>11. QED
    BY <2>3, <2>4, <2>5, <2>6, <2>8, <2>9, <2>10 DEF BlocksConserved
<1>4. QED
  BY <1>1, <1>2, <1>3 DEF BlockStep

-----------------------------------------------------------------------------
(* What a step does to the waiters, the woken and their count *)

SameCount == suspend_thread_count' = suspend_thread_count

WaiterStep ==
  \/ /\ Waiters' = Waiters /\ MpWoken' = MpWoken /\ SameCount /\ SameBlocks
     /\ mp_alive' => mp_alive
  \/ /\ Waiters' = Waiters /\ SameCount /\ mp_alive' = mp_alive
     /\ \E t \in Thread :
          GivesBlock(t) /\ MpWoken' \subseteq MpWoken /\ MpWoken \ {t} \subseteq MpWoken'
  \/ /\ block_free_count = 0 /\ SameBlocks /\ mp_alive' = mp_alive
     /\ MpWoken' \subseteq MpWoken
     /\ \/ Waiters' = Waiters /\ SameCount
        \/ /\ \E t \in Thread : Waiters' = Waiters \cup {t}
           /\ suspend_thread_count' = suspend_thread_count + 1
  \/ \E t \in Waiters :
       /\ Waiters' = Waiters \ {t}
       /\ \/ /\ MpWoken' = MpWoken /\ SameCount /\ SameBlocks /\ mp_alive' = mp_alive
          \/ /\ suspend_thread_count' = suspend_thread_count - 1
             /\ MpWoken' = MpWoken /\ SameBlocks /\ ~mp_alive'
          \/ /\ suspend_thread_count' = suspend_thread_count - 1
             /\ MpWoken' = MpWoken \cup {t} /\ t \notin MpWoken /\ mp_alive' = mp_alive
             /\ \E u \in Thread, b \in Block : GetsBlock(u, b)
  \/ /\ suspend_thread_count = 0 /\ SameCount /\ mp_alive' = mp_alive
     /\ Waiters' = Waiters /\ MpWoken' = MpWoken
     /\ \E u \in Thread, b \in Block : GetsBlock(u, b)

\* The count never falls behind, and no free block lies unclaimed.
LEMMA WaiterStepKeepsClaims ==
  ASSUME PoolInv, WaiterStep
  PROVE  suspend_thread_count' \in Nat /\ CountCovers' /\ FreeIsClaimed'
<1> DEFINE w == Cardinality(Waiters)
           n == Cardinality(MpWoken)
<1>1. /\ IsFiniteSet(Waiters) /\ IsFiniteSet(MpWoken) /\ w \in Nat /\ n \in Nat
      /\ suspend_thread_count \in Nat /\ suspend_thread_count >= w
      /\ block_free_count \in Nat
      /\ (Waiters # {} /\ mp_alive) => block_free_count <= n
      /\ w = 0 <=> Waiters = {}
  BY WaitersAreNodes, FS_CardinalityType, FS_EmptySet
     DEF PoolInv, CountCovers, FreeIsClaimed, MpTypeOK
<1> USE DEF CountCovers, FreeIsClaimed
<1>2. CASE /\ Waiters' = Waiters /\ MpWoken' = MpWoken /\ SameCount /\ SameBlocks
           /\ mp_alive' => mp_alive
  BY <1>1, <1>2 DEF SameCount, SameBlocks
<1>3. ASSUME NEW t \in Thread, GivesBlock(t), Waiters' = Waiters, SameCount,
             mp_alive' = mp_alive, MpWoken' \subseteq MpWoken, MpWoken \ {t} \subseteq MpWoken'
      PROVE  suspend_thread_count' \in Nat /\ CountCovers' /\ FreeIsClaimed'
  <2>1. MpWoken' = MpWoken \/ (t \in MpWoken /\ MpWoken' = MpWoken \ {t})
    BY <1>3
  <2>2. IsFiniteSet(MpWoken') /\ Cardinality(MpWoken') \in {n, n - 1}
    BY <1>1, <2>1, FS_RemoveElement
  <2>3. Cardinality(MpWoken') >= n - 1
    BY <1>1, <2>2
  <2>4. block_free_count' = block_free_count - 1
    BY <1>3 DEF GivesBlock
  <2>5. (Waiters' # {} /\ mp_alive') => block_free_count' <= Cardinality(MpWoken')
    BY <1>1, <1>3, <2>2, <2>3, <2>4
  <2>6. QED
    BY <1>1, <1>3, <2>2, <2>5 DEF SameCount
<1>4. CASE /\ block_free_count = 0 /\ SameBlocks /\ mp_alive' = mp_alive
           /\ MpWoken' \subseteq MpWoken
           /\ \/ Waiters' = Waiters /\ SameCount
              \/ /\ \E t \in Thread : Waiters' = Waiters \cup {t}
                 /\ suspend_thread_count' = suspend_thread_count + 1
  <2>1. IsFiniteSet(MpWoken') /\ Cardinality(MpWoken') \in Nat /\ block_free_count' = 0
    BY <1>1, <1>4, FS_Subset, FS_CardinalityType DEF SameBlocks
  <2>2. FreeIsClaimed'
    BY <2>1
  <2>3. CASE Waiters' = Waiters /\ SameCount
    BY <1>1, <2>2, <2>3 DEF SameCount
  <2>4. ASSUME NEW t \in Thread, Waiters' = Waiters \cup {t},
               suspend_thread_count' = suspend_thread_count + 1
        PROVE  suspend_thread_count' \in Nat /\ CountCovers'
    <3>1. Cardinality(Waiters') \in {w, w + 1}
      BY <1>1, <2>4, FS_AddElement
    <3>2. QED
      BY <1>1, <2>4, <3>1
  <2>5. QED
    BY <1>4, <2>2, <2>3, <2>4
<1>5. ASSUME NEW t \in Waiters, Waiters' = Waiters \ {t}
      PROVE  /\ w > 0 /\ Cardinality(Waiters') = w - 1
             /\ suspend_thread_count > 0
  BY <1>1, <1>5, FS_RemoveElement, FS_EmptySet
<1>6. ASSUME NEW t \in Waiters, Waiters' = Waiters \ {t},
             MpWoken' = MpWoken, SameCount, SameBlocks, mp_alive' = mp_alive
      PROVE  suspend_thread_count' \in Nat /\ CountCovers' /\ FreeIsClaimed'
  <2>1. Cardinality(Waiters') = w - 1
    BY <1>5, <1>6
  <2>2. CountCovers'
    BY <1>1, <1>6, <2>1 DEF SameCount
  <2>3. QED
    BY <1>1, <1>6, <2>2 DEF SameCount, SameBlocks
<1>7. ASSUME NEW t \in Waiters, Waiters' = Waiters \ {t},
             suspend_thread_count' = suspend_thread_count - 1,
             MpWoken' = MpWoken, ~mp_alive'
      PROVE  suspend_thread_count' \in Nat /\ CountCovers' /\ FreeIsClaimed'
  <2>1. Cardinality(Waiters') = w - 1 /\ suspend_thread_count > 0
    BY <1>5, <1>7
  <2>2. suspend_thread_count' \in Nat /\ CountCovers'
    BY <1>1, <1>7, <2>1
  <2>3. QED
    BY <1>1, <1>7, <2>2
<1>8. ASSUME NEW t \in Waiters, Waiters' = Waiters \ {t},
             suspend_thread_count' = suspend_thread_count - 1,
             MpWoken' = MpWoken \cup {t}, t \notin MpWoken, mp_alive' = mp_alive,
             NEW u \in Thread, NEW b \in Block, GetsBlock(u, b)
      PROVE  suspend_thread_count' \in Nat /\ CountCovers' /\ FreeIsClaimed'
  <2>1. suspend_thread_count' \in Nat /\ CountCovers'
    BY <1>1, <1>5, <1>8
  <2>2. IsFiniteSet(MpWoken') /\ Cardinality(MpWoken') = n + 1
    BY <1>1, <1>8, FS_AddElement
  <2>3. block_free_count' = block_free_count + 1
    BY <1>8 DEF GetsBlock
  <2>4. QED
    BY <1>1, <1>8, <2>1, <2>2, <2>3
<1>9. ASSUME suspend_thread_count = 0, SameCount, mp_alive' = mp_alive,
             Waiters' = Waiters, MpWoken' = MpWoken
      PROVE  suspend_thread_count' \in Nat /\ CountCovers' /\ FreeIsClaimed'
  <2>1. Waiters' = {}
    BY <1>1, <1>9
  <2>2. QED
    BY <1>1, <1>9, <2>1 DEF SameCount
<1> HIDE DEF w, n
<1>10. QED
  BY <1>2, <1>3, <1>4, <1>6, <1>7, <1>8, <1>9 DEF WaiterStep

\* What each action is shown to do.
StepOutcome ==
  /\ CpuInv'
  /\ pc' \in [Thread -> MpLabel] /\ mp_time' \in [Thread -> Time] /\ mp_alive' \in BOOLEAN
  /\ WaitersPend' /\ RetryAwake' /\ DeleterCloses'
  /\ WaiterStep

LEMMA OutcomeKeepsInv ==
  ASSUME PoolInv, StepOutcome
  PROVE  PoolInv'
<1>1. BlockStep
  BY DEF StepOutcome, WaiterStep, BlockStep
<1>2. BlockTypes' /\ BlocksConserved'
  BY <1>1, BlockStepConserves DEF PoolInv, MpTypeOK, BlockTypes
<1>3. suspend_thread_count' \in Nat /\ CountCovers' /\ FreeIsClaimed'
  BY WaiterStepKeepsClaims DEF StepOutcome
<1>4. MpTypeOK'
  BY <1>2, <1>3 DEF StepOutcome, MpTypeOK, BlockTypes, CpuInv, KernelInv
<1>5. QED
  BY <1>2, <1>3, <1>4 DEF StepOutcome, PoolInv

LEMMA InitEstablishesPoolInv == MpInit => PoolInv
<1> SUFFICES ASSUME MpInit PROVE PoolInv
  OBVIOUS
<1>1. CpuInv /\ Waiters = {} /\ pc = [t \in Thread |-> "run"]
  BY IpcInitEstablishesInv, MemPoolType, WaitersAreNodes DEF MpInit, IpcInit
<1>2. Pending = {} /\ MpWoken = {} /\ WaitersPend /\ RetryAwake /\ DeleterCloses
  BY <1>1 DEF Pending, MpWoken, WaitersPend, RetryAwake, DeleterCloses
<1>3. /\ block_list \in Seq(Block) /\ NoRepeat(block_list)
      /\ ToSet(block_list) = Block /\ Len(block_list) = Cardinality(Block)
  BY ChainOfBlocks DEF MpInit
<1>4. Cardinality(Block) \in Nat
  BY MemPoolType, FS_CardinalityType
<1>5. BlocksConserved
  BY <1>3 DEF MpInit, BlocksConserved
<1>6. MpTypeOK
  BY <1>1, <1>3, <1>4 DEF MpInit, MpTypeOK, MpLabel, Time, CpuInv, KernelInv
<1>7. CountCovers /\ FreeIsClaimed
  BY <1>1, <1>2, FS_EmptySet DEF MpInit, CountCovers, FreeIsClaimed
<1>8. QED
  BY <1>1, <1>2, <1>5, <1>6, <1>7 DEF PoolInv

-----------------------------------------------------------------------------
(* The steps of the CPU *)

\* The parts of the invariant in the form the steps need them.
LEMMA PoolFacts ==
  ASSUME PoolInv
  PROVE  /\ CpuInv /\ KernelInv(k, {}) /\ mp \in Queue /\ k.lock_nest = 0
         /\ pc \in [Thread -> MpLabel] /\ mp_time \in [Thread -> Time]
         /\ mp_alive \in BOOLEAN
         /\ k.stat \in [Thread -> Stat] /\ k.error \in [Thread -> Error]
         /\ Waiters = Nodes(k, mp) /\ Waiters' = Nodes(k', mp)
         /\ \A t \in Thread : /\ t \in Waiters <=> /\ pc[t] \in {"wait", "woken"}
                                                  /\ k.stat[t] = "suspend"
                              /\ k.stat[t] = "init" => pc[t] = "run"
         /\ Waiters \subseteq Thread
BY WaitersAreNodes, MemPoolType
   DEF PoolInv, MpTypeOK, CpuInv, KernelType, WaitersPend, Pending, Sleepers

LEMMA StillOutcome ==
  ASSUME PoolInv, CpuInv', SameWaiters(k, k'), pc' = pc, UNCHANGED poolvars,
         \A t \in Thread : pc[t] # "run" => k'.stat[t] = k.stat[t]
  PROVE  StepOutcome
<1>1. Waiters' = Waiters /\ k'.error = k.error
  BY PoolFacts DEF SameWaiters
<1>2. MpWoken' = MpWoken
  BY <1>1 DEF MpWoken
<1>3. WaitersPend' /\ RetryAwake' /\ DeleterCloses'
  BY <1>1 DEF PoolInv, WaitersPend, Pending, Sleepers, RetryAwake, DeleterCloses,
              poolvars
<1>4. WaiterStep
  BY <1>1, <1>2 DEF WaiterStep, SameCount, SameBlocks, poolvars
<1>5. QED
  BY <1>3, <1>4, PoolFacts DEF StepOutcome, poolvars

LEMMA StartupOutcome ==
  ASSUME PoolInv, NEW t \in Thread, Startup(t), UNCHANGED poolvars
  PROVE  StepOutcome
<1>1. /\ CpuInv' /\ SameWaiters(k, k') /\ pc' = pc
      /\ k.stat[t] = "init" /\ k'.stat = [k.stat EXCEPT ![t] = "ready"]
  BY PoolFacts, StartupStep
<1>2. \A u \in Thread : pc[u] # "run" => k'.stat[u] = k.stat[u]
  BY <1>1, PoolFacts
<1>3. QED
  BY <1>1, <1>2, StillOutcome

LEMMA TickOutcome ==
  ASSUME PoolInv, Tick, UNCHANGED poolvars
  PROVE  StepOutcome
<1>1. CpuInv' /\ SameWaiters(k, k') /\ pc' = pc /\ k'.stat = k.stat
  BY PoolFacts, TickStep
<1>2. QED
  BY <1>1, StillOutcome

\* The steps that move the running thread and change no more of the kernel
\* than who runs.
LEMMA MoveOutcome ==
  ASSUME PoolInv, CpuInv', Nodes(k', mp) = Nodes(k, mp),
         k'.stat = k.stat, k'.error = k.error, self \in Thread,
         NEW label, pc' = [pc EXCEPT ![self] = label], SameCount, SameBlocks,
         mp_time' \in [Thread -> Time], mp_alive' \in BOOLEAN, mp_alive' => mp_alive,
         \/ pc[self] = "wait" /\ label = "woken"
         \/ pc[self] = "sched" /\ label = "run"
         \/ pc[self] = "woken" /\ label = "run" /\ k.error[self] # "ok"
            /\ k.stat[self] = "ready"
         \/ pc[self] = "woken" /\ label = "retry" /\ k.error[self] = "ok"
            /\ k.stat[self] = "ready"
         \/ pc[self] = "run" /\ label = "scan" /\ ~mp_alive'
         \/ pc[self] = "scan" /\ label \in {"run", "resume"}
  PROVE  StepOutcome
<1>1. PICK me \in Thread : me = self
  OBVIOUS
<1>2. /\ Waiters' = Waiters /\ pc' = [pc EXCEPT ![me] = label]
      /\ \A t \in Thread : pc'[t] = IF t = me THEN label ELSE pc[t]
      /\ \A t \in Thread : k'.stat[t] = k.stat[t] /\ k'.error[t] = k.error[t]
  BY <1>1, PoolFacts
<1>3. MpWoken' = MpWoken
  BY <1>1, <1>2 DEF MpWoken
<1>4. pc' \in [Thread -> MpLabel]
  BY <1>2, PoolFacts DEF MpLabel
<1>5. \A t \in Thread : (/\ pc'[t] \in {"wait", "woken"}
                         /\ k'.stat[t] = "suspend") <=> t \in Waiters'
  BY <1>1, <1>2, PoolFacts
<1>6. WaitersPend'
  BY <1>2, <1>5, PoolFacts DEF WaitersPend, Pending, Sleepers
<1>7. RetryAwake'
  BY <1>1, <1>2 DEF RetryAwake, PoolInv
<1>8. DeleterCloses'
  BY <1>1, <1>2 DEF DeleterCloses, PoolInv
<1>9. WaiterStep
  BY <1>2, <1>3 DEF WaiterStep
<1>10. QED
  BY <1>4, <1>6, <1>7, <1>8, <1>9 DEF StepOutcome

LEMMA ScheduleOutcome ==
  ASSUME PoolInv, UNCHANGED poolvars,
         \/ ScheduleAt("wait", "woken")
         \/ ScheduleAt("sched", "run")
  PROVE  StepOutcome
<1>1. PICK label \in {"wait", "sched"}, to \in {"woken", "run"} :
        /\ ScheduleAt(label, to)
        /\ \/ label = "wait" /\ to = "woken"
           \/ label = "sched" /\ to = "run"
  OBVIOUS
<1>2. /\ CpuInv' /\ SameWaiters(k, k') /\ k'.stat = k.stat
      /\ pc[self] = label /\ self \in Thread
      /\ pc' = [pc EXCEPT ![self] = to]
  BY <1>1, PoolFacts, ScheduleAtStep
<1>3. Nodes(k', mp) = Nodes(k, mp) /\ k'.error = k.error
  BY <1>2, PoolFacts DEF SameWaiters
<1>4. /\ SameCount /\ SameBlocks /\ mp_time' \in [Thread -> Time]
      /\ mp_alive' \in BOOLEAN /\ (mp_alive' => mp_alive)
  BY PoolFacts DEF SameCount, SameBlocks, poolvars
<1>5. CASE label = "wait" /\ to = "woken"
  BY <1>2, <1>3, <1>4, <1>5, MoveOutcome
<1>6. CASE label = "sched" /\ to = "run"
  BY <1>2, <1>3, <1>4, <1>6, MoveOutcome
<1>7. QED
  BY <1>1, <1>5, <1>6

LEMMA DelayOutcome ==
  ASSUME PoolInv, Delay, UNCHANGED poolvars
  PROVE  StepOutcome
<1>1. /\ CpuInv' /\ Nodes(k', mp) = Nodes(k, mp) /\ k'.error = k.error
      /\ k'.stat = [k.stat EXCEPT ![self] = "suspend"]
      /\ pc[self] = "run" /\ self \in Thread
      /\ pc' = [pc EXCEPT ![self] = "sched"]
  BY PoolFacts, DelayStep
<1>2. PICK me \in Thread : me = self
  BY <1>1
<1>3. /\ Waiters' = Waiters
      /\ \A t \in Thread : pc'[t] = IF t = me THEN "sched" ELSE pc[t]
      /\ \A t \in Thread : k'.stat[t] = IF t = me THEN "suspend" ELSE k.stat[t]
      /\ \A t \in Thread : k'.error[t] = k.error[t]
      /\ pc[me] = "run"
  BY <1>1, <1>2, PoolFacts
<1>4. MpWoken' = MpWoken
  BY <1>3 DEF MpWoken
<1>5. pc' \in [Thread -> MpLabel]
  BY <1>1, PoolFacts DEF MpLabel
<1>6. \A t \in Thread : (/\ pc'[t] \in {"wait", "woken"}
                         /\ k'.stat[t] = "suspend") <=> t \in Waiters'
  BY <1>3, PoolFacts
<1>7. WaitersPend'
  BY <1>3, <1>6, PoolFacts DEF WaitersPend, Pending, Sleepers
<1>8. RetryAwake' /\ DeleterCloses'
  BY <1>3 DEF RetryAwake, DeleterCloses, PoolInv, poolvars
<1>9. WaiterStep
  BY <1>3, <1>4 DEF WaiterStep, SameCount, SameBlocks, poolvars
<1>10. QED
  BY <1>1, <1>5, <1>7, <1>8, <1>9, PoolFacts DEF StepOutcome, poolvars

\* One sleeping thread is woken: what becomes of the sets.
LEMMA OneWoken ==
  ASSUME PoolInv, NEW t \in Thread, k.stat[t] = "suspend", NEW e \in Error,
         Nodes(k', mp) = Nodes(k, mp) \ {t},
         k'.stat = [k.stat EXCEPT ![t] = "ready"],
         k'.error = [k.error EXCEPT ![t] = e],
         pc' \in [Thread -> MpLabel],
         \A u \in Thread : \/ pc'[u] = pc[u]
                           \/ /\ pc[u] \in {"run", "resume"}
                              /\ pc'[u] \in {"sched", "scan"}
                              /\ u # t /\ (pc'[u] = "scan" => ~mp_alive'),
         mp_alive' => mp_alive
  PROVE  /\ Waiters' = Waiters \ {t}
         /\ MpWoken' = IF t \in Waiters /\ e = "ok" THEN MpWoken \cup {t} ELSE MpWoken
         /\ t \notin MpWoken
         /\ WaitersPend' /\ RetryAwake' /\ DeleterCloses'
<1>1. /\ Waiters' = Waiters \ {t} /\ pc[t] # "retry"
      /\ \A u \in Thread : k'.stat[u] = IF u = t THEN "ready" ELSE k.stat[u]
      /\ \A u \in Thread : k'.error[u] = IF u = t THEN e ELSE k.error[u]
      /\ \A u \in Thread : /\ pc'[u] \in {"wait", "woken", "retry"}
                                <=> pc[u] \in {"wait", "woken", "retry"}
                           /\ pc'[u] \in {"wait", "woken"} <=> pc[u] \in {"wait", "woken"}
                           /\ pc'[u] = "retry" <=> pc[u] = "retry"
  BY PoolFacts DEF PoolInv, RetryAwake
<1>2. t \notin MpWoken
  BY DEF MpWoken
<1>3. MpWoken' = IF t \in Waiters /\ e = "ok" THEN MpWoken \cup {t} ELSE MpWoken
  <2>1. \A u \in Thread \ {t} : u \in MpWoken' <=> u \in MpWoken
    BY <1>1 DEF MpWoken
  <2>2. t \in MpWoken' <=> t \in Waiters /\ e = "ok"
    BY <1>1, PoolFacts DEF MpWoken
  <2>3. MpWoken \subseteq Thread /\ MpWoken' \subseteq Thread
    BY DEF MpWoken
  <2>4. QED
    BY <1>2, <2>1, <2>2, <2>3
<1>4. \A u \in Thread : (/\ pc'[u] \in {"wait", "woken"}
                         /\ k'.stat[u] = "suspend") <=> u \in Waiters'
  BY <1>1, PoolFacts
<1>5. WaitersPend'
  BY <1>1, <1>4, PoolFacts DEF WaitersPend, Pending, Sleepers
<1>6. RetryAwake'
  BY <1>1 DEF RetryAwake, PoolInv
<1>7. DeleterCloses'
  BY DEF DeleterCloses, PoolInv
<1>8. QED
  BY <1>1, <1>2, <1>3, <1>5, <1>6, <1>7

\* A timeout wakes a waiter, or a thread that only sleeps.
LEMMA TimerCheckOutcome ==
  ASSUME PoolInv, NEW t \in Thread, TimerCheck(t), UNCHANGED poolvars
  PROVE  StepOutcome
<1>1. /\ CpuInv' /\ pc' = pc /\ k.stat[t] = "suspend"
      /\ Nodes(k', mp) = Nodes(k, mp) \ {t}
      /\ k'.stat = [k.stat EXCEPT ![t] = "ready"]
      /\ k'.error = [k.error EXCEPT ![t] = "timeout"]
      /\ "timeout" \in Error
  BY PoolFacts, TimerCheckStep DEF Sleepers, Error
<1>2. /\ pc' \in [Thread -> MpLabel] /\ mp_alive' = mp_alive
      /\ \A u \in Thread : pc'[u] = pc[u]
  BY <1>1, PoolFacts DEF poolvars
<1>3. /\ Waiters' = Waiters \ {t} /\ MpWoken' = MpWoken
      /\ WaitersPend' /\ RetryAwake' /\ DeleterCloses'
  BY <1>1, <1>2, OneWoken
<1>4. WaiterStep
  BY <1>3 DEF WaiterStep, SameCount, SameBlocks, poolvars
<1>5. QED
  BY <1>1, <1>2, <1>3, <1>4, PoolFacts DEF StepOutcome, poolvars

-----------------------------------------------------------------------------
(* The steps of the calls *)

\* What holds where a call runs with the CPU its own.
LEMMA AtRun ==
  ASSUME PoolInv, NEW label, At(label), label \notin AboutToSchedule
  PROVE  /\ self \in Thread \ {Idle} /\ pc[self] = label
         /\ k.stat[self] = "ready" /\ self \notin Waiters
BY RunnerIsReady, PoolFacts

LEMMA TakeBlockOutcome ==
  ASSUME PoolInv, self \in Thread, k.stat[self] = "ready",
         pc[self] \in {"run", "retry"}, TakeBlock,
         mp_time' \in [Thread -> Time], mp_alive' = mp_alive
  PROVE  StepOutcome
<1>1. PICK me \in Thread : me = self
  OBVIOUS
<1>2. k' = k /\ pc' = [pc EXCEPT ![self] = "run"] /\ SameCount /\ GivesBlock(me)
  BY <1>1 DEF TakeBlock, Goto, SameCount, GivesBlock
<1>3. CpuInv'
  BY <1>2, PoolFacts, PcStepKeepsCpuInv
<1>4. /\ Waiters' = Waiters /\ pc[me] \in {"run", "retry"}
      /\ \A t \in Thread : pc'[t] = IF t = me THEN "run" ELSE pc[t]
      /\ pc' \in [Thread -> MpLabel]
  BY <1>1, <1>2, PoolFacts DEF MpLabel
<1>5. MpWoken' \subseteq MpWoken /\ MpWoken \ {me} \subseteq MpWoken'
  BY <1>2, <1>4 DEF MpWoken
<1>6. \A t \in Thread : (/\ pc'[t] \in {"wait", "woken"}
                         /\ k'.stat[t] = "suspend") <=> t \in Waiters'
  BY <1>2, <1>4, PoolFacts
<1>7. WaitersPend'
  BY <1>4, <1>6, PoolFacts DEF WaitersPend, Pending, Sleepers
<1>8. RetryAwake' /\ DeleterCloses'
  BY <1>2, <1>4 DEF RetryAwake, DeleterCloses, PoolInv
<1>9. WaiterStep
  BY <1>2, <1>4, <1>5 DEF WaiterStep
<1>10. QED
  BY <1>3, <1>4, <1>7, <1>8, <1>9, PoolFacts DEF StepOutcome

\* The loop of rt_mp_alloc finds no block: the call gives up or waits.
LEMMA SuspendOutcome ==
  ASSUME PoolInv, self \in Thread \ {Idle}, k.stat[self] = "ready",
         pc[self] \in {"run", "retry"}, NEW left, MpSuspend(left),
         mp_time' \in [Thread -> Time], mp_alive' = mp_alive
  PROVE  StepOutcome
<1>1. PICK me \in Thread : me = self
  OBVIOUS
<1>2. block_free_count = 0 /\ SameBlocks
  BY DEF MpSuspend, SameBlocks
<1>3. CASE left = "no"
  <2>1. /\ k' = SetError(k, self, "timeout") /\ "timeout" \in Error
        /\ pc' = [pc EXCEPT ![self] = "run"] /\ SameCount
    BY <1>3 DEF MpSuspend, Goto, SameCount, Error
  <2>2. /\ CpuInv' /\ Nodes(k', mp) = Nodes(k, mp) /\ k'.stat = k.stat
        /\ \A t \in Thread \ {self} : k'.error[t] = k.error[t]
    BY <2>1, PoolFacts, PcStepKeepsCpuInv
  <2>3. /\ Waiters' = Waiters /\ pc[me] \in {"run", "retry"}
        /\ \A t \in Thread : pc'[t] = IF t = me THEN "run" ELSE pc[t]
        /\ pc' \in [Thread -> MpLabel]
        /\ \A t \in Thread \ {me} : k'.error[t] = k.error[t]
    BY <1>1, <2>1, <2>2, PoolFacts DEF MpLabel
  <2>4. MpWoken' \subseteq MpWoken
    BY <2>2, <2>3 DEF MpWoken
  <2>5. \A t \in Thread : (/\ pc'[t] \in {"wait", "woken"}
                           /\ k'.stat[t] = "suspend") <=> t \in Waiters'
    BY <2>2, <2>3, PoolFacts
  <2>6. WaitersPend'
    BY <2>3, <2>5, PoolFacts DEF WaitersPend, Pending, Sleepers
  <2>7. RetryAwake' /\ DeleterCloses'
    BY <2>2, <2>3 DEF RetryAwake, DeleterCloses, PoolInv
  <2>8. WaiterStep
    BY <1>2, <2>1, <2>3, <2>4 DEF WaiterStep
  <2>9. QED
    BY <2>2, <2>3, <2>6, <2>7, <2>8, PoolFacts DEF StepOutcome
<1>4. CASE left # "no"
  <2>1. /\ k' = WaitInFront(k, mp, self, left)
        /\ pc' = [pc EXCEPT ![self] = "wait"]
        /\ suspend_thread_count' = suspend_thread_count + 1
    BY <1>4 DEF MpSuspend, Goto, WaitInFront
  <2>2. /\ KernelInv(k', {}) /\ PutToSleep(k, k', mp, self)
        /\ k'.error = [k.error EXCEPT ![self] = "ok"]
    BY <2>1, PoolFacts, WaitInFrontKeepsInv
  <2>3. /\ Waiters' = Waiters \cup {me} /\ pc[me] \in {"run", "retry"}
        /\ \A t \in Thread : pc'[t] = IF t = me THEN "wait" ELSE pc[t]
        /\ pc' \in [Thread -> MpLabel]
        /\ \A t \in Thread : k'.stat[t] = IF t = me THEN "suspend" ELSE k.stat[t]
        /\ \A t \in Thread : k'.error[t] = IF t = me THEN "ok" ELSE k.error[t]
        /\ k'.lock_nest = 0 /\ k'.current_thread = me
    BY <1>1, <2>1, <2>2, PoolFacts DEF MpLabel, PutToSleep, self
  <2>4. CpuInv'
    <3>1. \A t \in Thread : /\ k'.stat[t] \in {"init", "ready", "suspend"}
                            /\ k'.stat[t] = "init" => pc'[t] = "run"
      BY <2>3, PoolFacts DEF CpuInv
    <3>2. pc'[k'.current_thread] \in AboutToSchedule
      BY <2>3 DEF AboutToSchedule
    <3>3. QED
      BY <2>2, <2>3, <3>1, <3>2 DEF CpuInv
  <2>5. MpWoken' \subseteq MpWoken
    BY <2>3 DEF MpWoken
  <2>6. \A t \in Thread : (/\ pc'[t] \in {"wait", "woken"}
                           /\ k'.stat[t] = "suspend") <=> t \in Waiters'
    BY <2>3, PoolFacts
  <2>7. WaitersPend'
    BY <2>3, <2>6, PoolFacts DEF WaitersPend, Pending, Sleepers
  <2>8. RetryAwake' /\ DeleterCloses'
    BY <2>3 DEF RetryAwake, DeleterCloses, PoolInv
  <2>9. WaiterStep
    BY <1>2, <2>1, <2>3, <2>5 DEF WaiterStep
  <2>10. QED
    BY <2>3, <2>4, <2>7, <2>8, <2>9, PoolFacts DEF StepOutcome
<1>5. QED
  BY <1>3, <1>4

LEMMA AllocOutcome ==
  ASSUME PoolInv,
         \/ \E left \in MpTimes : Alloc(left)
         \/ AllocRetry
  PROVE  StepOutcome
<1>1. ASSUME NEW left \in MpTimes, Alloc(left)
      PROVE  StepOutcome
  <2>1. /\ At("run") /\ "run" \notin AboutToSchedule /\ left \in Time
        /\ mp_time' = [mp_time EXCEPT ![self] = left] /\ mp_alive' = mp_alive
        /\ TakeBlock \/ MpSuspend(left)
    BY <1>1, MemPoolType DEF Alloc, MpCallable, AboutToSchedule
  <2>2. /\ self \in Thread \ {Idle} /\ pc[self] = "run"
        /\ k.stat[self] = "ready"
    BY <2>1, AtRun
  <2>3. mp_time' \in [Thread -> Time]
    BY <2>1, PoolFacts
  <2>4. QED
    BY <2>1, <2>2, <2>3, TakeBlockOutcome, SuspendOutcome
<1>2. CASE AllocRetry
  <2>1. /\ At("retry") /\ "retry" \notin AboutToSchedule
        /\ mp_time' = mp_time /\ mp_alive' = mp_alive
        /\ TakeBlock \/ MpSuspend(mp_time[self])
    BY <1>2 DEF AllocRetry, AboutToSchedule
  <2>2. /\ self \in Thread \ {Idle} /\ pc[self] = "retry"
        /\ k.stat[self] = "ready"
    BY <2>1, AtRun
  <2>3. mp_time' \in [Thread -> Time]
    BY <2>1, PoolFacts
  <2>4. QED
    BY <2>1, <2>2, <2>3, TakeBlockOutcome, SuspendOutcome
<1>3. QED
  BY <1>1, <1>2

LEMMA AllocWokenOutcome ==
  ASSUME PoolInv, AllocWoken
  PROVE  StepOutcome
<1>1. At("woken") /\ "woken" \notin AboutToSchedule
  BY DEF AllocWoken, AboutToSchedule
<1>2. self \in Thread /\ pc[self] = "woken" /\ k.stat[self] = "ready"
  BY <1>1, AtRun
<1>3. /\ k' = k /\ SameCount /\ SameBlocks /\ mp_alive' = mp_alive /\ mp_alive' \in BOOLEAN
      /\ mp_time' \in [Thread -> Time]
  <2>1. mp_time' = mp_time \/ mp_time' = [mp_time EXCEPT ![self] = "no"]
    BY DEF AllocWoken
  <2>2. QED
    BY <2>1, PoolFacts DEF AllocWoken, SameCount, SameBlocks, Time
<1>4. Nodes(k', mp) = Nodes(k, mp) /\ k'.stat = k.stat /\ k'.error = k.error
  BY <1>3
<1>5. CASE k.error[self] # "ok"
  <2>1. pc' = [pc EXCEPT ![self] = "run"]
    BY <1>5 DEF AllocWoken, Goto
  <2>2. CpuInv'
    BY <1>2, <1>3, <2>1, PoolFacts, PcStepKeepsCpuInv
  <2>3. QED
    BY <1>2, <1>3, <1>4, <1>5, <2>1, <2>2, MoveOutcome
<1>6. CASE k.error[self] = "ok"
  <2>1. pc' = [pc EXCEPT ![self] = "retry"]
    BY <1>6 DEF AllocWoken, Goto
  <2>2. CpuInv'
    BY <1>2, <1>3, <2>1, PoolFacts, PcStepKeepsCpuInv
  <2>3. QED
    BY <1>2, <1>3, <1>4, <1>6, <2>1, <2>2, MoveOutcome
<1>7. QED
  BY <1>5, <1>6

\* rt_mp_free tells the first waiter that all is well and resumes it.
LEMMA ResumedEffect ==
  ASSUME PoolInv, Waiters # {}
  PROVE  LET t == FirstThread(k, mp)
         IN  /\ t \in Waiters /\ k.stat[t] = "suspend"
             /\ KernelInv(MpResumed, {}) /\ WokenUp(k, MpResumed, t)
             /\ MpResumed.error = [k.error EXCEPT ![t] = "ok"]
<1> DEFINE t == FirstThread(k, mp)
           e == SetError(k, t, "ok")
           u == rt_thread_resume(e, t)
<1>1. ~rt_list_isempty(k.list[mp])
  BY EmptyList DEF rt_list_isempty, Waiters, ToSet
<1>2. t \in Thread /\ t \in Waiters /\ k.stat[t] = "suspend"
  BY <1>1, FirstWaiter, PoolFacts
<1>3. MpResumed = u
  BY DEF MpResumed
<1> HIDE DEF t
<1>4. k \in KernelType /\ "ok" \in Error
  BY PoolFacts DEF KernelInv, Error
<1>5. /\ KernelInv(e, {})
      /\ e = [k EXCEPT !.error = [k.error EXCEPT ![t] = "ok"]]
      /\ \A g : Nodes(e, g) = Nodes(k, g)
  BY <1>4, PoolFacts, ErrorKeepsInv
<1> HIDE DEF e
<1>6. /\ e.stat = k.stat /\ e.error = [k.error EXCEPT ![t] = "ok"]
      /\ SamePriorities(k, e) /\ e.lock_nest = k.lock_nest
      /\ e.current_thread = k.current_thread /\ e.timer = k.timer
  BY <1>4, <1>5 DEF KernelType, SamePriorities
<1>7. KernelInv(e, {}) /\ e.stat[t] = "suspend" /\ t \notin {}
  BY <1>2, <1>5, <1>6
<1>8. KernelInv(u, {}) /\ HasResumed(e, u, t)
  BY <1>2, <1>7, ResumeKeepsInv
<1> HIDE DEF u
<1>9. WokenUp(e, u, t) /\ u.error = e.error
  BY <1>2, <1>7, <1>8, ResumedIsWokenUp DEF HasResumed
<1>10. WokenUp(k, u, t)
  BY <1>5, <1>6, <1>9 DEF WokenUp, SamePriorities, NoNewTimer
<1>11. QED
  BY <1>2, <1>3, <1>6, <1>8, <1>9, <1>10 DEF t

\* The block is given back; so is a wakeup, to the first that waits.
LEMMA FreeBlockEffect ==
  ASSUME PoolInv, NEW t \in Thread, NEW b \in Block, FreeBlock(t, b)
  PROVE  /\ GetsBlock(t, b) /\ mp_alive' = mp_alive /\ mp_time' = mp_time
         /\ IF suspend_thread_count > 0
            THEN /\ Waiters # {}
                 /\ suspend_thread_count' = suspend_thread_count - 1
            ELSE Waiters = {} /\ suspend_thread_count = 0 /\ SameCount
<1>1. /\ GetsBlock(t, b) /\ mp_alive' = mp_alive /\ mp_time' = mp_time
      /\ suspend_thread_count > 0 => Waiters # {}
      /\ suspend_thread_count' =
           IF suspend_thread_count > 0 THEN suspend_thread_count - 1 ELSE 0
  BY DEF FreeBlock, GetsBlock
<1>2. /\ suspend_thread_count \in Nat
      /\ suspend_thread_count >= Cardinality(Waiters)
  BY DEF PoolInv, MpTypeOK, CountCovers
<1>3. /\ Cardinality(Waiters) \in Nat
      /\ Cardinality(Waiters) = 0 <=> Waiters = {}
  BY PoolFacts, WaitersAreNodes, FS_EmptySet, FS_CardinalityType
<1>4. QED
  BY <1>1, <1>2, <1>3 DEF SameCount

LEMMA MpFreeOutcome ==
  ASSUME PoolInv, NEW b \in Block, MpFree(b)
  PROVE  StepOutcome
<1> DEFINE t == FirstThread(k, mp)
<1>1. At("run") /\ "run" \notin AboutToSchedule
  BY DEF MpFree, MpCallable, AboutToSchedule
<1>2. self \in Thread /\ pc[self] = "run" /\ k.stat[self] = "ready"
  BY <1>1, AtRun
<1>3. PICK me \in Thread : me = self
  BY <1>2
<1>4. FreeBlock(me, b)
  BY <1>3 DEF MpFree
<1>5. /\ GetsBlock(me, b) /\ mp_alive' = mp_alive /\ mp_time' = mp_time
      /\ IF suspend_thread_count > 0
         THEN /\ Waiters # {}
              /\ suspend_thread_count' = suspend_thread_count - 1
         ELSE Waiters = {} /\ suspend_thread_count = 0 /\ SameCount
  BY <1>4, FreeBlockEffect
<1>6. CASE suspend_thread_count > 0
  <2>1. k' = MpResumed /\ pc' = [pc EXCEPT ![self] = "sched"]
    BY <1>6 DEF MpFree, Goto
  <2>2. /\ t \in Waiters /\ t \in Thread /\ k.stat[t] = "suspend"
        /\ KernelInv(k', {}) /\ WokenUp(k, k', t)
        /\ k'.error = [k.error EXCEPT ![t] = "ok"]
    BY <1>5, <1>6, <2>1, PoolFacts, ResumedEffect
  <2> HIDE DEF t
  <2>3. CpuInv'
    BY <1>2, <2>1, <2>2, PoolFacts, WokenUpKeepsCpuInv
  <2>4. /\ pc' \in [Thread -> MpLabel] /\ "ok" \in Error
        /\ Nodes(k', mp) = Nodes(k, mp) \ {t}
        /\ k'.stat = [k.stat EXCEPT ![t] = "ready"]
    BY <2>1, <2>2, PoolFacts DEF MpLabel, Error, WokenUp
  <2>5. \A u \in Thread : \/ pc'[u] = pc[u]
                          \/ /\ pc[u] = "run" /\ pc'[u] = "sched" /\ u # t
    BY <1>2, <1>3, <2>1, <2>2, PoolFacts
  <2>6. /\ Waiters' = Waiters \ {t} /\ MpWoken' = MpWoken \cup {t} /\ t \notin MpWoken
        /\ WaitersPend' /\ RetryAwake' /\ DeleterCloses'
    BY <1>5, <2>2, <2>4, <2>5, OneWoken
  <2>7. WaiterStep
    BY <1>5, <1>6, <2>2, <2>6 DEF WaiterStep
  <2>8. QED
    BY <1>5, <2>3, <2>4, <2>6, <2>7, PoolFacts DEF StepOutcome
<1>7. CASE ~(suspend_thread_count > 0)
  <2>1. k' = k /\ pc' = pc
    BY <1>7 DEF MpFree
  <2>2. CpuInv' /\ Waiters' = Waiters /\ MpWoken' = MpWoken
    BY <2>1, PoolFacts DEF CpuInv, MpWoken, Waiters
  <2>3. WaitersPend' /\ RetryAwake' /\ DeleterCloses'
    BY <1>5, <2>1, <2>2 DEF PoolInv, WaitersPend, Pending, Sleepers, RetryAwake,
                            DeleterCloses
  <2>4. WaiterStep
    BY <1>5, <1>7, <2>2 DEF WaiterStep
  <2>5. QED
    BY <1>5, <2>1, <2>2, <2>3, <2>4, PoolFacts DEF StepOutcome
<1>8. QED
  BY <1>6, <1>7

\* An interrupt may come while the running thread is about to schedule.
LEMMA IsrFreeOutcome ==
  ASSUME PoolInv, NEW o \in Thread, NEW b \in Block, IsrFree(o, b)
  PROVE  StepOutcome
<1> DEFINE t == FirstThread(k, mp)
<1>1. /\ FreeBlock(o, b) /\ pc' = pc
      /\ k' = IF suspend_thread_count > 0 THEN rt_schedule(MpResumed) ELSE k
  BY DEF IsrFree
<1>2. /\ GetsBlock(o, b) /\ mp_alive' = mp_alive /\ mp_time' = mp_time
      /\ IF suspend_thread_count > 0
         THEN /\ Waiters # {}
              /\ suspend_thread_count' = suspend_thread_count - 1
         ELSE Waiters = {} /\ suspend_thread_count = 0 /\ SameCount
  BY <1>1, FreeBlockEffect
<1>3. CASE suspend_thread_count > 0
  <2> DEFINE r == MpResumed
  <2>1. /\ t \in Waiters /\ t \in Thread /\ k.stat[t] = "suspend"
        /\ KernelInv(r, {}) /\ WokenUp(k, r, t)
        /\ r.error = [k.error EXCEPT ![t] = "ok"]
    BY <1>2, <1>3, PoolFacts, ResumedEffect
  <2> HIDE DEF t, r
  <2>2. k' = rt_schedule(r) /\ r.lock_nest = 0
    BY <1>1, <1>3, <2>1, PoolFacts DEF WokenUp, r
  <2>3. /\ KernelInv(k', {}) /\ Switched(r, k')
        /\ k'.current_thread \in Thread
        /\ k'.stat[k'.current_thread] = "ready"
    BY <2>1, <2>2, ScheduleGivesCpu
  <2>4. /\ k'.stat = [k.stat EXCEPT ![t] = "ready"]
        /\ k'.error = [k.error EXCEPT ![t] = "ok"] /\ "ok" \in Error
        /\ k'.lock_nest = 0 /\ Nodes(k', mp) = Nodes(k, mp) \ {t}
    BY <2>1, <2>2, <2>3, PoolFacts
       DEF WokenUp, Switched, SameNodes, ListHead, Error
  <2>5. CpuInv'
    <3>1. \A x \in Thread : /\ k'.stat[x] \in {"init", "ready", "suspend"}
                            /\ k'.stat[x] = "init" => pc'[x] = "run"
      BY <1>1, <2>4, PoolFacts DEF CpuInv
    <3>2. QED
      BY <2>3, <2>4, <3>1 DEF CpuInv
  <2>6. /\ pc' \in [Thread -> MpLabel]
        /\ \A u \in Thread : pc'[u] = pc[u]
    BY <1>1, PoolFacts
  <2>7. /\ Waiters' = Waiters \ {t} /\ MpWoken' = MpWoken \cup {t} /\ t \notin MpWoken
        /\ WaitersPend' /\ RetryAwake' /\ DeleterCloses'
    BY <1>2, <2>1, <2>4, <2>6, OneWoken
  <2>8. WaiterStep
    BY <1>2, <1>3, <2>1, <2>7 DEF WaiterStep
  <2>9. QED
    BY <1>2, <2>5, <2>6, <2>7, <2>8, PoolFacts DEF StepOutcome
<1>4. CASE ~(suspend_thread_count > 0)
  <2>1. k' = k /\ pc' = pc
    BY <1>1, <1>4
  <2>2. CpuInv' /\ Waiters' = Waiters /\ MpWoken' = MpWoken
    BY <2>1, PoolFacts DEF CpuInv, MpWoken, Waiters
  <2>3. WaitersPend' /\ RetryAwake' /\ DeleterCloses'
    BY <1>2, <2>1, <2>2 DEF PoolInv, WaitersPend, Pending, Sleepers, RetryAwake,
                            DeleterCloses
  <2>4. WaiterStep
    BY <1>2, <1>4, <2>2 DEF WaiterStep
  <2>5. QED
    BY <1>2, <2>1, <2>2, <2>3, <2>4, PoolFacts DEF StepOutcome
<1>5. QED
  BY <1>3, <1>4

LEMMA DeleteOutcome ==
  ASSUME PoolInv, Delete \/ DeleteTest
  PROVE  StepOutcome
<1>1. CASE Delete
  <2>1. At("run") /\ "run" \notin AboutToSchedule
    BY <1>1 DEF Delete, MpCallable, AboutToSchedule
  <2>2. self \in Thread /\ pc[self] = "run" /\ k.stat[self] = "ready"
    BY <2>1, AtRun
  <2>3. /\ k' = k /\ pc' = [pc EXCEPT ![self] = "scan"] /\ mp_alive' = FALSE
        /\ SameCount /\ SameBlocks /\ mp_time' = mp_time
    BY <1>1 DEF Delete, Goto, SameCount, SameBlocks
  <2>4. CpuInv'
    BY <2>2, <2>3, PoolFacts, PcStepKeepsCpuInv
  <2>5. QED
    BY <2>2, <2>3, <2>4, PoolFacts, MoveOutcome
<1>2. CASE DeleteTest
  <2>1. At("scan") /\ "scan" \notin AboutToSchedule
    BY <1>2 DEF DeleteTest, ResumeAllTest, AboutToSchedule
  <2>2. self \in Thread /\ pc[self] = "scan" /\ k.stat[self] = "ready"
    BY <2>1, AtRun
  <2>3. PICK label \in {"run", "resume"} : pc' = [pc EXCEPT ![self] = label]
    BY <1>2 DEF DeleteTest, ResumeAllTest, Goto
  <2>4. /\ k' = k /\ mp_alive' = mp_alive /\ SameCount /\ SameBlocks /\ mp_time' = mp_time
    BY <1>2 DEF DeleteTest, ResumeAllTest, poolvars, SameCount, SameBlocks
  <2>5. CpuInv'
    BY <2>2, <2>3, <2>4, PoolFacts, PcStepKeepsCpuInv
  <2>6. QED
    BY <2>2, <2>3, <2>4, <2>5, PoolFacts, MoveOutcome
<1>3. QED
  BY <1>1, <1>2

\* rt_mp_delete refuses one waiter and uncounts it.
LEMMA DeleteTurnOutcome ==
  ASSUME PoolInv, DeleteTurn
  PROVE  StepOutcome
<1> DEFINE t == FirstThread(k, mp)
<1>1. /\ ResumeAllTurn(mp) /\ mp_alive' = mp_alive /\ SameBlocks /\ mp_time' = mp_time
      /\ suspend_thread_count' = suspend_thread_count - 1
  BY DEF DeleteTurn, SameBlocks
<1>2. /\ CpuInv' /\ t \in Thread /\ t \in Waiters /\ k.stat[t] = "suspend"
      /\ WokenUp(k, k', t)
      /\ k'.error = [k.error EXCEPT ![t] = "error"]
      /\ self \in Thread /\ pc[self] = "resume"
      /\ pc' = [pc EXCEPT ![self] = "scan"]
  BY <1>1, PoolFacts, ResumeAllTurnStep DEF Sleepers
<1> HIDE DEF t
<1>3. PICK me \in Thread : me = self
  BY <1>2
<1>4. ~mp_alive /\ pc[me] = "resume" /\ me # t
  BY <1>2, <1>3, PoolFacts DEF PoolInv, DeleterCloses
<1>5. /\ pc' \in [Thread -> MpLabel] /\ "error" \in Error
      /\ Nodes(k', mp) = Nodes(k, mp) \ {t}
      /\ k'.stat = [k.stat EXCEPT ![t] = "ready"]
  BY <1>2, PoolFacts DEF MpLabel, Error, WokenUp
<1>6. \A u \in Thread : \/ pc'[u] = pc[u]
                        \/ /\ pc[u] = "resume" /\ pc'[u] = "scan" /\ u # t
  BY <1>2, <1>3, <1>4, PoolFacts
<1>7. /\ Waiters' = Waiters \ {t} /\ MpWoken' = MpWoken
      /\ WaitersPend' /\ RetryAwake' /\ DeleterCloses'
  BY <1>1, <1>2, <1>4, <1>5, <1>6, OneWoken
<1>8. WaiterStep
  BY <1>1, <1>2, <1>4, <1>7 DEF WaiterStep
<1>9. QED
  BY <1>1, <1>2, <1>5, <1>7, <1>8, PoolFacts DEF StepOutcome

-----------------------------------------------------------------------------
(* The theorems *)

LEMMA NextOutcome ==
  ASSUME PoolInv, MpNext
  PROVE  PoolInv'
<1> SUFFICES StepOutcome
  BY OutcomeKeepsInv
<1>1. ASSUME CpuStep, UNCHANGED poolvars
      PROVE  StepOutcome
  BY <1>1, DelayOutcome, TickOutcome, StartupOutcome, TimerCheckOutcome
     DEF CpuStep
<1>2. CASE \E left \in MpTimes : Alloc(left)
  BY <1>2, AllocOutcome
<1>3. CASE AllocSchedule
  BY <1>3, ScheduleOutcome DEF AllocSchedule
<1>4. CASE AllocWoken
  BY <1>4, AllocWokenOutcome
<1>5. CASE AllocRetry
  BY <1>5, AllocOutcome
<1>6. CASE \E b \in Block : MpFree(b) \/ \E t \in Thread : IsrFree(t, b)
  BY <1>6, MpFreeOutcome, IsrFreeOutcome
<1>7. CASE MpReschedule
  BY <1>7, ScheduleOutcome DEF MpReschedule
<1>8. CASE Delete \/ DeleteTest
  BY <1>8, DeleteOutcome
<1>9. CASE DeleteTurn
  BY <1>9, DeleteTurnOutcome
<1>10. QED
  BY <1>1, <1>2, <1>3, <1>4, <1>5, <1>6, <1>7, <1>8, <1>9 DEF MpNext

LEMMA StutterKeepsPoolInv ==
  ASSUME PoolInv, UNCHANGED mpvars
  PROVE  PoolInv'
<1>1. /\ CpuInv' /\ SameWaiters(k, k') /\ pc' = pc /\ UNCHANGED poolvars
      /\ k' = k
  BY PoolFacts DEF mpvars, CpuInv, SameWaiters, NoNewTimer
<1>2. QED
  BY <1>1, StillOutcome, OutcomeKeepsInv

\* PoolInv is an invariant: in every reachable state the kernel's lists are
\* consistent, the blocks conserved, the waiters the threads that sleep in
\* rt_mp_alloc, and their count and the woken enough for the free blocks.
THEOREM PoolInvariance == MpSpec => []PoolInv
<1>1. MpInit => PoolInv
  BY InitEstablishesPoolInv
<1>2. PoolInv /\ [MpNext]_mpvars => PoolInv'
  BY NextOutcome, StutterKeepsPoolInv
<1>3. QED
  BY <1>1, <1>2, PTL DEF MpSpec

\* Every block is on the chain or with one thread, and block_free_count is
\* the length of the chain, whoever allocates, frees, waits or deletes.
THEOREM MemPoolBlocks == MpSpec => []BlocksConserved
<1>1. PoolInv => BlocksConserved
  BY DEF PoolInv
<1>2. QED
  BY <1>1, PoolInvariance, PTL

\* While threads wait in rt_mp_alloc, every free block has a woken thread on
\* its way to it, and suspend_thread_count, on which rt_mp_free decides
\* whether to wake anybody, never falls behind the list.
THEOREM MemPoolNoLostWakeup == MpSpec => []MpNoLostWakeup
<1>1. PoolInv => MpNoLostWakeup
  BY WaitersAreNodes
     DEF PoolInv, CountCovers, FreeIsClaimed, MpNoLostWakeup
<1>2. QED
  BY <1>1, PoolInvariance, PTL

LEMMA DivMod ==
  ASSUME NEW n \in Nat \ {0}, NEW a \in Nat
  PROVE  /\ a % n \in 0 .. n - 1 /\ a \div n \in Nat
         /\ a = n * (a \div n) + (a % n)
<1>1. a % n \in 0 .. n - 1
  OBVIOUS
<1>2. a \div n \in Int
  OBVIOUS
<1>3. a = n * (a \div n) + (a % n)
  OBVIOUS
<1>4. ASSUME NEW c \in Int, c <= -1 PROVE n * c <= -n
  BY <1>4
<1>5. a \div n >= 0
  BY <1>1, <1>2, <1>3, <1>4
<1> QED BY <1>1, <1>2, <1>3, <1>5

LEMMA SmallProduct ==
  ASSUME NEW n \in Nat \ {0}, NEW x \in Int, n * x < n, -n < n * x
  PROVE  x = 0
<1>1. CASE x >= 1
  <2>1. n * x >= n
    BY <1>1
  <2> QED BY <2>1
<1>2. CASE x <= -1
  <2>1. n * x <= -n
    BY <1>2
  <2> QED BY <2>1
<1> QED BY <1>1, <1>2

LEMMA UniqueMod ==
  ASSUME NEW n \in Nat \ {0}, NEW c \in Nat, NEW r \in 0 .. n - 1
  PROVE  (n * c + r) % n = r
<1> DEFINE a == n * c + r
<1>0. n * c \in Nat
  OBVIOUS
<1>1. a \in Nat
  BY <1>0
<1> DEFINE p == a \div n
           s == a % n
<1>2. p \in Nat /\ s \in 0 .. n - 1 /\ a = n * p + s
  BY <1>1, DivMod
<1>3. n * c + r = n * p + s
  BY <1>2
<1> HIDE DEF p, s, a
<1>4. n * (c - p) = n * c - n * p
  BY <1>2
<1>5. n * (c - p) = s - r
  BY <1>0, <1>2, <1>3, <1>4
<1>6. c - p = 0
  BY <1>2, <1>5, SmallProduct
<1> QED BY <1>2, <1>3, <1>6 DEF s, a

LEMMA ModPlus ==
  ASSUME NEW n \in Nat \ {0}, NEW a \in Nat, NEW d \in 0 .. n - 1
  PROVE  (a + d) % n = IF (a % n) + d < n THEN (a % n) + d ELSE (a % n) + d - n
<1> DEFINE c == a \div n
           r == a % n
<1>1. c \in Nat /\ r \in 0 .. n - 1 /\ a = n * c + r
  BY DivMod
<1> HIDE DEF c, r
<1>2. CASE r + d < n
  <2>1. a + d = n * c + (r + d) /\ r + d \in 0 .. n - 1
    BY <1>1, <1>2
  <2>2. (n * c + (r + d)) % n = r + d
    BY <1>1, <2>1, UniqueMod
  <2> QED BY <1>2, <2>1, <2>2 DEF r
<1>3. CASE r + d >= n
  <2>1. n * (c + 1) = n * c + n
    BY <1>1
  <2>2. a + d = n * (c + 1) + (r + d - n) /\ r + d - n \in 0 .. n - 1 /\ c + 1 \in Nat
    BY <1>1, <1>3, <2>1
  <2>3. (n * (c + 1) + (r + d - n)) % n = r + d - n
    BY <2>2, UniqueMod
  <2> QED BY <1>1, <1>3, <2>2, <2>3 DEF r
<1> QED BY <1>1, <1>2, <1>3 DEF r

LEMMA ModApart ==
  ASSUME NEW n \in Nat \ {0}, NEW a \in Nat, NEW d \in 1 .. n - 1
  PROVE  (a + d) % n # a % n
<1> DEFINE r == a % n
           s == (a + d) % n
<1>1. d \in 0 .. n - 1
  OBVIOUS
<1>2. s = IF r + d < n THEN r + d ELSE r + d - n
  BY <1>1, ModPlus
<1>3. r \in 0 .. n - 1
  BY DivMod
<1> HIDE DEF r, s
<1>4. s # r
  BY <1>2, <1>3
<1> QED BY <1>4 DEF r, s

-----------------------------------------------------------------------------
(* The ring of a data queue *)

DqRingInv ==
  /\ put_index \in 0 .. IndexBound /\ get_index \in 0 .. put_index
  /\ Length <= dq_size
  /\ slot \in [0 .. dq_size - 1 -> Item \cup {NoItem}]
  /\ item \in [Thread -> Item \cup {NoItem}]

\* The items in the ring, first to last.
Items == [i \in 1 .. Length |-> slot[(get_index + i - 1) % dq_size]]

DqRingStep == \/ UNCHANGED <<put_index, get_index, slot, popped>>
              \/ \E x \in Item : Length # dq_size /\ DqPut(x)
              \/ Length # 0 /\ DqTake

LEMMA ItemPlaces ==
  ASSUME DqRingInv
  PROVE  /\ dq_size \in Nat \ {0} /\ get_index \in Nat /\ put_index \in Nat
         /\ Length \in 0 .. dq_size /\ put_index = get_index + Length
         /\ \A a \in Nat : a % dq_size \in 0 .. dq_size - 1
         /\ Items \in Seq(Item \cup {NoItem}) /\ Len(Items) = Length
         /\ \A i \in 1 .. Length : Items[i] = slot[(get_index + i - 1) % dq_size]
<1>1. /\ dq_size \in Nat \ {0} /\ get_index \in Nat /\ put_index \in Nat
      /\ Length \in 0 .. dq_size /\ put_index = get_index + Length
  BY DqType DEF DqRingInv, Length
<1>2. \A a \in Nat : a % dq_size \in 0 .. dq_size - 1
  BY <1>1, DivMod
<1>3. \A i \in 1 .. Length : get_index + i - 1 \in Nat
  BY <1>1
<1>4. \A i \in 1 .. Length : (get_index + i - 1) % dq_size \in 0 .. dq_size - 1
  BY <1>2, <1>3
<1>5. Items \in [1 .. Length -> Item \cup {NoItem}]
  BY <1>4 DEF Items, DqRingInv
<1>6. \A i \in 1 .. Length : Items[i] = slot[(get_index + i - 1) % dq_size]
  BY DEF Items
<1> HIDE DEF Items
<1>7. Items \in Seq(Item \cup {NoItem}) /\ Len(Items) = Length
  BY <1>1, <1>5
<1> QED BY <1>1, <1>2, <1>6, <1>7

LEMMA NextIndex ==
  ASSUME NEW i \in 0 .. IndexBound - 1
  PROVE  Successor(i) = i + 1
<1>1. 2^IndexBits \in Nat /\ IndexBound \in Nat /\ IndexBound < 2^IndexBits
  BY DqType
<1>2. \A n \in Nat : \A j \in 0 .. n - 1 : j % n = j
  OBVIOUS
<1> QED BY <1>1, <1>2 DEF Successor

LEMMA DqPutAppends ==
  ASSUME DqRingInv, item' \in [Thread -> Item \cup {NoItem}],
         NEW x \in Item, Length # dq_size, DqPut(x)
  PROVE  DqRingInv' /\ Length' = Length + 1 /\ DqFifo!FifoSend(x)
<1>1. /\ dq_size \in Nat \ {0} /\ get_index \in Nat /\ put_index \in Nat
      /\ Length \in 0 .. dq_size - 1 /\ put_index = get_index + Length
  BY ItemPlaces
<1>2. /\ \A a \in Nat : a % dq_size \in 0 .. dq_size - 1
      /\ Items \in Seq(Item \cup {NoItem}) /\ Len(Items) = Length
      /\ \A i \in 1 .. Length : Items[i] = slot[(get_index + i - 1) % dq_size]
  BY ItemPlaces
<1>3. put_index' = put_index + 1 /\ put_index \in 0 .. IndexBound - 1
  BY <1>1, DqType, NextIndex DEF DqPut, DqRingInv
<1>4. /\ slot' = [slot EXCEPT ![put_index % dq_size] = x]
      /\ get_index' = get_index /\ popped' = popped
  BY DEF DqPut
<1>5. Length' = Length + 1
  BY <1>1, <1>3, <1>4 DEF Length
<1>6. DqRingInv'
  <2>1. put_index' \in 0 .. IndexBound /\ get_index' \in 0 .. put_index'
    BY <1>1, <1>3, <1>4, DqType
  <2>2. slot' \in [0 .. dq_size - 1 -> Item \cup {NoItem}]
    BY <1>1, <1>2, <1>4 DEF DqRingInv
  <2>3. Length' <= dq_size
    BY <1>1, <1>5
  <2> QED BY <2>1, <2>2, <2>3 DEF DqRingInv
<1>7. /\ Items' \in Seq(Item \cup {NoItem}) /\ Len(Items') = Length + 1
      /\ \A i \in 1 .. Length + 1 : Items'[i] = slot'[(get_index + i - 1) % dq_size]
  <2>1. DqRingInv' => /\ (Items \in Seq(Item \cup {NoItem}))' /\ (Len(Items) = Length)'
                      /\ (\A i \in 1 .. Length : Items[i] = slot[(get_index + i - 1) % dq_size])'
    BY ItemPlaces, PTL
  <2> QED BY <1>4, <1>5, <1>6, <2>1
<1>8. ASSUME NEW i \in 1 .. Length + 1
      PROVE  Items'[i] = IF i = Length + 1 THEN x ELSE Items[i]
  <2> DEFINE a == get_index + i - 1
  <2>1. a \in Nat
    BY <1>1
  <2>2. CASE i = Length + 1
    <3>1. a = put_index
      BY <1>1, <2>2
    <3> QED BY <1>1, <1>2, <1>4, <1>7, <2>2, <3>1 DEF DqRingInv
  <2>3. CASE i # Length + 1
    <3>1. put_index = a + (Length + 1 - i) /\ Length + 1 - i \in 1 .. dq_size - 1
      BY <1>1, <2>3
    <3>2. put_index % dq_size # a % dq_size
      BY <1>1, <2>1, <3>1, ModApart
    <3>3. i \in 1 .. Length
      BY <1>1, <2>3
    <3>4. Items[i] = slot[a % dq_size]
      BY <1>2, <3>3
    <3>5. a % dq_size \in 0 .. dq_size - 1
      BY <1>2, <2>1
    <3>6. slot'[a % dq_size] = slot[a % dq_size]
      BY <1>4, <3>2, <3>5 DEF DqRingInv
    <3> QED BY <1>7, <2>3, <3>4, <3>6
  <2> QED BY <2>2, <2>3
<1>9. Items' = Append(Items, x)
  <2>1. Items \in Seq(Item \cup {NoItem}) /\ Len(Items) = Length /\ Length \in Nat
    BY <1>1, <1>2
  <2>2. Append(Items, x) \in Seq(Item \cup {NoItem})
    BY <2>1
  <2>3. Len(Append(Items, x)) = Length + 1
    BY <2>1
  <2>4. \A i \in 1 .. Length + 1 :
          Append(Items, x)[i] = IF i = Length + 1 THEN x ELSE Items[i]
    BY <2>1
  <2> QED BY <1>7, <1>8, <2>1, <2>2, <2>3, <2>4, SeqEqual
<1>10. Len(Items) < dq_size
  BY <1>1, <1>2
<1> QED BY <1>4, <1>5, <1>6, <1>9, <1>10 DEF DqFifo!FifoSend, Items

LEMMA DqTakesFirst ==
  ASSUME DqRingInv, item' \in [Thread -> Item \cup {NoItem}], Length # 0, DqTake
  PROVE  DqRingInv' /\ Length' = Length - 1 /\ DqFifo!FifoRecv
<1>1. /\ dq_size \in Nat \ {0} /\ get_index \in Nat /\ put_index \in Nat
      /\ Length \in 1 .. dq_size /\ put_index = get_index + Length
  BY ItemPlaces
<1>2. /\ Items \in Seq(Item \cup {NoItem}) /\ Len(Items) = Length
      /\ \A i \in 1 .. Length : Items[i] = slot[(get_index + i - 1) % dq_size]
  BY ItemPlaces
<1>3. get_index' = get_index + 1
  <2>1. get_index \in 0 .. IndexBound - 1
    BY <1>1, DqType DEF DqRingInv
  <2> QED BY <2>1, NextIndex DEF DqTake
<1>4. /\ slot' = slot /\ put_index' = put_index
      /\ popped' = slot[get_index % dq_size]
  BY DEF DqTake
<1>5. Length' = Length - 1
  BY <1>1, <1>3, <1>4 DEF Length
<1>6. DqRingInv'
  BY <1>1, <1>3, <1>4, <1>5 DEF DqRingInv
<1>7. /\ Items' \in Seq(Item \cup {NoItem}) /\ Len(Items') = Length - 1
      /\ \A i \in 1 .. Length - 1 : Items'[i] = slot[(get_index + 1 + i - 1) % dq_size]
  <2>1. DqRingInv' => /\ (Items \in Seq(Item \cup {NoItem}))' /\ (Len(Items) = Length)'
                      /\ (\A i \in 1 .. Length : Items[i] = slot[(get_index + i - 1) % dq_size])'
    BY ItemPlaces, PTL
  <2> QED BY <1>3, <1>4, <1>5, <1>6, <2>1
<1>8. ASSUME NEW i \in 1 .. Length - 1
      PROVE  Items'[i] = Items[i + 1]
  <2>1. get_index + 1 + i - 1 = get_index + (i + 1) - 1 /\ i + 1 \in 1 .. Length
    BY <1>1
  <2> QED BY <1>1, <1>2, <1>7, <2>1
<1>9. Items # << >> /\ popped' = Head(Items)
  <2>1. get_index + 1 - 1 = get_index /\ 1 \in 1 .. Length
    BY <1>1
  <2>2. Items[1] = slot[get_index % dq_size]
    BY <1>1, <1>2, <2>1
  <2> HIDE DEF Items
  <2> QED BY <1>1, <1>2, <1>4, <2>2
<1>10. Items' = Tail(Items)
  <2>1. Tail(Items) \in Seq(Item \cup {NoItem}) /\ Len(Tail(Items)) = Length - 1
    BY <1>1, <1>2, <1>9
  <2>2. \A i \in 1 .. Length - 1 : Tail(Items)[i] = Items[i + 1]
    BY <1>1, <1>2, <1>9
  <2> QED BY <1>7, <1>8, <2>1, <2>2, SeqEqual
<1> QED BY <1>5, <1>6, <1>9, <1>10 DEF DqFifo!FifoRecv, Items

LEMMA DqRingStepImplements ==
  ASSUME DqRingInv, DqRingStep, item' \in [Thread -> Item \cup {NoItem}]
  PROVE  DqRingInv' /\ [DqFifo!FifoNext]_(DqFifo!fifovars)
<1>1. CASE UNCHANGED <<put_index, get_index, slot, popped>>
  <2>1. DqRingInv'
    BY <1>1 DEF DqRingInv, Length
  <2>2. UNCHANGED DqFifo!fifovars
    BY <1>1 DEF DqFifo!fifovars, Length
  <2> QED BY <2>1, <2>2
<1>2. CASE (\E x \in Item : Length # dq_size /\ DqPut(x)) \/ (Length # 0 /\ DqTake)
  BY <1>2, DqPutAppends, DqTakesFirst DEF DqFifo!FifoNext
<1> QED BY <1>1, <1>2 DEF DqRingStep

(* Whoever calls, the ring makes one of its steps. *)
LEMMA TryPushStepsRing ==
  ASSUME DqRingInv, self \in Thread, NEW x \in Item, NEW tm, TryPush(x, tm)
  PROVE  DqRingStep /\ item' \in [Thread -> Item \cup {NoItem}]
BY DEF DqRingInv, TryPush, DqRingStep, DqReturn, DqWait

LEMMA TryPopStepsRing ==
  ASSUME DqRingInv, self \in Thread, NEW tm, TryPop(tm)
  PROVE  DqRingStep /\ item' \in [Thread -> Item \cup {NoItem}]
BY DEF DqRingInv, TryPop, DqRingStep, DqReturn, DqWait, dqstate

LEMMA DqNextStepsRing ==
  ASSUME DqRingInv, [DqNext]_<<k, pc, dqvars>>
  PROVE  DqRingStep /\ item' \in [Thread -> Item \cup {NoItem}]
<1>1. ASSUME UNCHANGED dqvars
      PROVE  DqRingStep /\ item' \in [Thread -> Item \cup {NoItem}]
  BY <1>1 DEF DqRingInv, DqRingStep, dqvars, dqstate
<1>2. ASSUME NEW x \in Item, NEW tm, Push(x, tm)
      PROVE  DqRingStep /\ item' \in [Thread -> Item \cup {NoItem}]
  BY <1>2, TryPushStepsRing DEF Push, At
<1>3. ASSUME NEW tm, Pop(tm)
      PROVE  DqRingStep /\ item' \in [Thread -> Item \cup {NoItem}]
  BY <1>3, TryPopStepsRing DEF Pop, At
<1>4. CASE IsrPop
  BY <1>4 DEF IsrPop, DqRingStep, DqRingInv
<1>5. CASE DqFails
  BY <1>5 DEF DqFails, At, DqReturn, DqRingStep, DqRingInv, dqstate
<1>6. CASE DqRetries
  <2>1. self \in Thread /\ item[self] \in Item \cup {NoItem}
    BY <1>6 DEF DqRetries, At, DqRingInv
  <2> QED BY <1>6, <2>1, TryPushStepsRing, TryPopStepsRing DEF DqRetries
<1>7. CASE UNCHANGED <<k, pc, dqvars>>
  BY <1>1, <1>7
<1>8. CASE (CpuStep /\ UNCHANGED dqvars) \/ DqSchedule
  BY <1>1, <1>8 DEF DqSchedule
<1> QED BY <1>2, <1>3, <1>4, <1>5, <1>6, <1>7, <1>8 DEF DqNext

LEMMA DqInitRing == DqInit => DqRingInv /\ DqFifo!FifoInit
<1> SUFFICES ASSUME DqInit PROVE DqRingInv /\ DqFifo!FifoInit
  OBVIOUS
<1>1. DqRingInv /\ Length = 0
  BY DqType DEF DqInit, DqRingInv, Length
<1>2. Items \in Seq(Item \cup {NoItem}) /\ Len(Items) = 0
  BY <1>1, ItemPlaces
<1>3. Items = << >>
  <2> HIDE DEF Items
  <2> QED BY <1>2
<1> QED BY <1>1, <1>3 DEF DqFifo!FifoInit, DqInit, Items

LEMMA DqRingInvariance == DqSpec => []DqRingInv
<1>1. DqRingInv /\ [DqNext]_<<k, pc, dqvars>> => DqRingInv'
  BY DqNextStepsRing, DqRingStepImplements
<1> QED BY <1>1, DqInitRing, PTL DEF DqSpec

(* What is pushed comes out once, in the order of the pushes               *)
(* (rt_data_queue_push, rt_data_queue_pop), whoever waits, retries, times   *)
(* out or pops by an interrupt, for any size and any use of the queue in    *)
(* which the 16-bit indices do not wrap.                                    *)
THEOREM DataQueueRefinement == DqSpec => DqImplementsFifo
<1>1. DqRingInv /\ [DqNext]_<<k, pc, dqvars>> => [DqFifo!FifoNext]_(DqFifo!fifovars)
  BY DqNextStepsRing, DqRingStepImplements
<1> QED BY <1>1, DqInitRing, DqRingInvariance, PTL
        DEF DqSpec, DqImplementsFifo, DqFifo!FifoSpec

-----------------------------------------------------------------------------
(* A data queue strands nobody *)

\* What the code asks of those who push: with a second one, or one that does
\* not wait for ever, the flag and the list part.
OnePusher == /\ \A t, u \in Pusher : t = u
             /\ PushTimes \subseteq {"forever"}

PopWaits == Nodes(k, pop_list)
PushWaits == Nodes(k, push_list)
Pops == {t \in Hopeful : item[t] = NoItem}

\* Who waits is in a call of its list's kind, and has been told nothing.
DqSound ==
  /\ waiting_lwm \in BOOLEAN /\ dq_time \in [Thread -> Time]
  /\ \A t \in Thread : item[t] # NoItem => t \in Pusher /\ dq_time[t] = "forever"
  /\ \A t \in PopWaits : t \in InCall /\ item[t] = NoItem /\ k.error[t] = "ok"
  /\ \A t \in PushWaits :
       t \in InCall /\ item[t] # NoItem /\ k.error[t] = "ok" /\ ~k.timer[t]

PopClaimed == /\ IsFiniteSet(Pops)
              /\ PopWaits # {} => Length <= Cardinality(Pops)

PushMarked == /\ PushWaits # {} => waiting_lwm /\ Length > lwm
              /\ waiting_lwm => PushWaits # {}

DqInv ==
  /\ OnePusher
  /\ CpuInv
  /\ DqRingInv
  /\ pc \in [Thread -> DqLabel]
  /\ DqSound
  /\ PopClaimed
  /\ PushMarked

LEMMA DqFacts ==
  ASSUME DqInv
  PROVE  /\ CpuInv /\ pc \in [Thread -> DqLabel] /\ item \in [Thread -> Item \cup {NoItem}]
         /\ push_list \in Queue /\ pop_list \in Queue /\ push_list # pop_list
         /\ NoItem \notin Item /\ lwm \in 0 .. dq_size - 1 /\ dq_size \in Nat
         /\ Length \in 0 .. dq_size
         /\ PopWaits \subseteq Thread /\ PushWaits \subseteq Thread
         /\ PopWaits = {} <=> k.list[pop_list] = << >>
         /\ PushWaits = {} <=> k.list[push_list] = << >>
         /\ \A t \in PopWaits \cup PushWaits : t \in InCall /\ k.error[t] = "ok"
         /\ PopWaits \cap PushWaits = {}
         /\ \A t, u \in PushWaits : t = u
         /\ DqSound
<1>1. /\ CpuInv /\ DqSound /\ DqRingInv /\ OnePusher /\ pc \in [Thread -> DqLabel]
  BY DEF DqInv
<1>2. /\ PopWaits \subseteq Thread /\ PushWaits \subseteq Thread
      /\ PopWaits = {} <=> k.list[pop_list] = << >>
      /\ PushWaits = {} <=> k.list[push_list] = << >>
  BY <1>1, DqType, NodesAreThreads DEF PopWaits, PushWaits
<1>3. Length \in 0 .. dq_size
  BY <1>1, ItemPlaces
<1> QED BY <1>1, <1>2, <1>3, DqType DEF DqSound, DqRingInv, OnePusher

LEMMA DqInvStrandsNobody == DqInv => NobodyStranded
<1> SUFFICES ASSUME DqInv PROVE NobodyStranded
  OBVIOUS
<1>1. Pops = {t \in Thread : /\ pc[t] \in {"wait", "woken"}
                             /\ item[t] = NoItem
                             /\ k.stat[t] = "ready" /\ k.error[t] = "ok"}
  BY DEF Pops, Hopeful, InCall
<1> QED BY <1>1, DqFacts DEF DqInv, PopClaimed, PushMarked, NobodyStranded

\* What each action is shown to do; the ring is known already.
DqOutcome == CpuInv' /\ pc' \in [Thread -> DqLabel] /\ DqSound' /\ PopClaimed' /\ PushMarked'

LEMMA PopClaimKept ==
  ASSUME DqInv, Length' \in Nat,
         \/ PopWaits' \subseteq PopWaits /\ Length' <= Length /\ Pops' = Pops
         \/ PopWaits' \subseteq PopWaits /\ Length' <= Length + 1
            /\ \E t : t \notin Pops /\ Pops' = Pops \cup {t}
         \/ PopWaits' = {} /\ Pops' = Pops
         \/ PopWaits' \subseteq PopWaits /\ Length' <= Length - 1 /\ \E u : Pops' = Pops \ {u}
         \/ Length' = 0 /\ \E u : Pops' = Pops \ {u}
  PROVE  PopClaimed'
<1>1. /\ Length \in Nat /\ IsFiniteSet(Pops)
      /\ PopWaits # {} => Length <= Cardinality(Pops)
  BY DqFacts DEF DqInv, PopClaimed
<1>2. IsFiniteSet(Pops') /\ (PopWaits' # {} => Length' <= Cardinality(Pops'))
  BY <1>1, ClaimsKept
<1> QED BY <1>2 DEF PopClaimed

LEMMA DqKeptOutcome ==
  ASSUME DqInv, CpuInv', pc' \in [Thread -> DqLabel], CallsKept, UNCHANGED dqvars,
         \A h \in Queue : \A t \in Nodes(k, h) :
           ~k.timer[t] => t \in Nodes(k', h) /\ ~k'.timer[t]
  PROVE  DqOutcome
<1>1. /\ UNCHANGED <<waiting_lwm, item, dq_time, put_index, get_index>>
      /\ Length' = Length
  BY DEF dqvars, dqstate, Length
<1>2. /\ PopWaits' \subseteq PopWaits /\ PushWaits' = PushWaits
      /\ \A t \in PushWaits : ~k'.timer[t]
      /\ \A t \in PopWaits' \cup PushWaits' : k'.error[t] = "ok" /\ t \in InCall'
  <2>1. /\ PopWaits' \subseteq PopWaits /\ PushWaits' \subseteq PushWaits
        /\ \A t \in PopWaits' \cup PushWaits' : k'.error[t] = k.error[t]
        /\ InCall' = InCall
    BY DqFacts DEF CallsKept, PopWaits, PushWaits
  <2>2. \A t \in PushWaits : t \in PushWaits' /\ ~k'.timer[t]
    BY DqFacts DEF DqSound, PushWaits
  <2> QED BY <2>1, <2>2, DqFacts
<1>3. Pops' = Pops
  BY <1>1 DEF CallsKept, Pops
<1>4. DqSound'
  BY <1>1, <1>2, DqFacts DEF DqSound
<1>5. PopClaimed'
  BY <1>1, <1>2, <1>3, DqFacts, PopClaimKept
<1>6. PushMarked'
  BY <1>1, <1>2 DEF PushMarked, DqInv
<1> QED BY <1>4, <1>5, <1>6 DEF DqOutcome

(* The running thread's call is over, and it wakes nobody. *)
LEMMA DqReturnOutcome ==
  ASSUME DqInv, NEW me \in Thread, me = self, k.stat[me] = "ready",
         DqReturn("run"), k' = k, waiting_lwm' \in BOOLEAN
  PROVE  /\ CpuInv' /\ pc' \in [Thread -> DqLabel] /\ DqSound'
         /\ PopWaits' = PopWaits /\ PushWaits' = PushWaits /\ Pops' = Pops \ {me}
<1>1. /\ pc' = [pc EXCEPT ![me] = "run"] /\ "run" \in DqLabel
      /\ item' = [item EXCEPT ![me] = NoItem] /\ dq_time' = [dq_time EXCEPT ![me] = "no"]
  BY DEF DqReturn, Goto, DqLabel
<1>2. /\ CpuInv' /\ pc' \in [Thread -> DqLabel]
      /\ InCall' = InCall \ {me} /\ Hopeful' = Hopeful \ {me}
      /\ \A g \in Queue : Nodes(k', g) = Nodes(k, g) /\ me \notin Nodes(k, g)
  BY <1>1, DqFacts, CallLeaves
<1>3. /\ PopWaits' = PopWaits /\ PushWaits' = PushWaits /\ me \notin PopWaits \cup PushWaits
  BY <1>2, DqFacts DEF PopWaits, PushWaits
<1>4. /\ \A t \in Thread \ {me} : item'[t] = item[t] /\ dq_time'[t] = dq_time[t]
      /\ item'[me] = NoItem /\ dq_time' \in [Thread -> Time]
  BY <1>1, DqFacts DEF DqSound, Time
<1>5. Pops' = Pops \ {me}
  BY <1>2, <1>4 DEF Pops, Hopeful, InCall
<1>6. DqSound'
  BY <1>2, <1>3, <1>4, DqFacts DEF DqSound
<1> QED BY <1>2, <1>3, <1>5, <1>6

(* Its call is over, and it wakes one of those that wait on h. *)
LEMMA DqWakeOutcome ==
  ASSUME DqInv, NEW me \in Thread, me = self, k.stat[me] = "ready",
         NEW h \in {pop_list, push_list}, ~rt_list_isempty(k.list[h]),
         DqReturn("sched"), k' = rt_ipc_list_resume(k, h), waiting_lwm' \in BOOLEAN
  PROVE  /\ CpuInv' /\ pc' \in [Thread -> DqLabel] /\ DqSound'
         /\ h = pop_list => /\ PopWaits' \subseteq PopWaits /\ PushWaits' = PushWaits
                            /\ \E t : t \notin Pops /\ Pops' = (Pops \ {me}) \cup {t}
         /\ h = push_list => PopWaits' = PopWaits /\ PushWaits' = {} /\ Pops' = Pops \ {me}
<1>1. /\ pc' = [pc EXCEPT ![me] = "sched"] /\ "sched" \in DqLabel
      /\ item' = [item EXCEPT ![me] = NoItem] /\ dq_time' = [dq_time EXCEPT ![me] = "no"]
  BY DEF DqReturn, Goto, DqLabel
<1>2. /\ CpuInv' /\ pc' \in [Thread -> DqLabel]
      /\ \E t \in Thread : Passes(h, t, me, "ok")
  <2>1. \A t \in Nodes(k, h) : t \in InCall /\ k.error[t] = "ok"
    BY DqFacts DEF PopWaits, PushWaits
  <2>2. h \in Queue /\ CpuInv /\ pc \in [Thread -> DqLabel]
    BY DqFacts
  <2> QED BY <1>1, <2>1, <2>2, CallWakes
<1>3. PICK t \in Thread :
        /\ t \in Nodes(k, h) /\ t # me /\ t \notin Hopeful
        /\ InCall' = InCall \ {me}
        /\ \A g \in Queue : Nodes(k', g) = Nodes(k, g) \ {t}
        /\ NoNewTimer(k, k', Thread)
        /\ Hopeful' = (Hopeful \ {me}) \cup {t}
        /\ \A u \in Thread \ {t} : k'.error[u] = k.error[u]
  BY <1>2 DEF Passes
<1>4. /\ PopWaits' = PopWaits \ {t} /\ PushWaits' = PushWaits \ {t}
      /\ me \notin PopWaits \cup PushWaits
      /\ h = pop_list => t \in PopWaits
      /\ h = push_list => t \in PushWaits
  BY <1>3, DqFacts, NodesAreThreads DEF PopWaits, PushWaits
<1>5. /\ \A u \in Thread \ {me} : item'[u] = item[u] /\ dq_time'[u] = dq_time[u]
      /\ item'[me] = NoItem /\ dq_time' \in [Thread -> Time]
  BY <1>1, DqFacts DEF DqSound, Time
<1>6. DqSound'
  <2>1. \A u \in PushWaits' : ~k'.timer[u]
    BY <1>3, <1>4, DqFacts DEF NoNewTimer, DqSound
  <2> QED BY <1>3, <1>4, <1>5, <2>1, DqFacts DEF DqSound
<1>7. CASE h = pop_list
  <2>1. item[t] = NoItem /\ t \notin PushWaits /\ t \notin Pops
    BY <1>3, <1>4, <1>7, DqFacts DEF DqSound, Pops
  <2>2. Pops' = (Pops \ {me}) \cup {t}
    BY <1>3, <1>5, <2>1 DEF Pops, Hopeful, InCall
  <2> QED BY <1>2, <1>4, <1>6, <1>7, <2>1, <2>2, DqFacts
<1>8. CASE h = push_list
  <2>1. item[t] # NoItem /\ t \notin PopWaits /\ PushWaits = {t}
    BY <1>4, <1>8, DqFacts DEF DqSound
  <2>2. Pops' = Pops \ {me}
    BY <1>3, <1>5, <2>1 DEF Pops, Hopeful, InCall
  <2> QED BY <1>2, <1>4, <1>6, <1>8, <2>1, <2>2, DqFacts
<1> QED BY <1>7, <1>8

(* The running thread waits. *)
LEMMA DqSleepOutcome ==
  ASSUME DqInv, NEW me \in Thread \ {Idle}, me = self, k.stat[me] = "ready",
         NEW h, NEW x, NEW tm \in Time, DqWait(h, x, tm), waiting_lwm' \in BOOLEAN,
         \/ h = pop_list /\ x = NoItem
         \/ h = push_list /\ x \in Item /\ tm = "forever" /\ me \in Pusher
  PROVE  /\ CpuInv' /\ pc' \in [Thread -> DqLabel] /\ DqSound'
         /\ Pops' = Pops \ {me}
         /\ h = pop_list => PushWaits' = PushWaits
         /\ h = push_list => PushWaits' # {} /\ PopWaits' = PopWaits
<1>1. /\ k' = Wait(k, h, me, "fifo", tm) /\ h \in Queue
      /\ pc' = [pc EXCEPT ![me] = "wait"] /\ "wait" \in DqLabel
      /\ item' = [item EXCEPT ![me] = x] /\ dq_time' = [dq_time EXCEPT ![me] = tm]
  BY DqFacts DEF DqWait, Goto, DqLabel
<1>2. CpuInv' /\ pc' \in [Thread -> DqLabel] /\ Sleeps(h, me, tm)
  <2>1. CpuInv /\ pc \in [Thread -> DqLabel]
    BY DqFacts
  <2> QED BY <1>1, <2>1, CallSleeps
<1>3. /\ h = pop_list => PopWaits' = PopWaits \cup {me} /\ PushWaits' = PushWaits
      /\ h = push_list => PushWaits' = PushWaits \cup {me} /\ PopWaits' = PopWaits
      /\ me \notin PopWaits \cup PushWaits
  BY <1>2, DqFacts DEF PopWaits, PushWaits, Sleeps
<1>4. /\ \A t \in Thread \ {me} : item'[t] = item[t] /\ dq_time'[t] = dq_time[t]
      /\ item'[me] = x /\ dq_time'[me] = tm /\ dq_time' \in [Thread -> Time]
  BY <1>1, DqFacts DEF DqSound
<1>5. Pops' = Pops \ {me}
  BY <1>2, <1>4 DEF Pops, Hopeful, InCall, Sleeps
<1>6. \A t \in PushWaits' : ~k'.timer[t]
  <2>1. \A t \in PushWaits : ~k'.timer[t]
    BY <1>2, <1>3, DqFacts DEF DqSound, Sleeps
  <2>2. h = push_list => ~k'.timer[me]
    BY <1>2, DqFacts DEF Sleeps
  <2>3. h = pop_list \/ h = push_list
    OBVIOUS
  <2> QED BY <1>3, <2>1, <2>2, <2>3
<1>7. DqSound'
  BY <1>2, <1>3, <1>4, <1>6, DqFacts DEF DqSound, Sleeps
<1> QED BY <1>2, <1>3, <1>5, <1>7

LEMMA TryPushOutcome ==
  ASSUME DqInv, NEW me \in Thread \ {Idle}, me = self, k.stat[me] = "ready", me \in Pusher,
         NEW x \in Item, pc[me] = "run" \/ item[me] # NoItem,
         TryPush(x, "forever")
  PROVE  DqOutcome
<1>1. /\ Length \in 0 .. dq_size /\ DqRingInv /\ item' \in [Thread -> Item \cup {NoItem}]
      /\ PushMarked /\ lwm \in 0 .. dq_size - 1 /\ dq_size \in Nat
  BY DqFacts, TryPushStepsRing DEF DqInv
<1>2. Pops \ {me} = Pops
  BY DEF Pops, Hopeful, InCall
<1>3. CASE Length # dq_size /\ DqPut(x) /\ waiting_lwm' = waiting_lwm
  <2>1. Length' = Length + 1
    BY <1>1, <1>3, DqPutAppends
  <2>2. waiting_lwm' \in BOOLEAN
    BY <1>3, DqFacts DEF DqSound
  <2>3. CASE rt_list_isempty(k.list[pop_list]) /\ DqReturn("run") /\ k' = k
    <3>1. /\ CpuInv' /\ pc' \in [Thread -> DqLabel] /\ DqSound'
          /\ PopWaits' = PopWaits /\ PushWaits' = PushWaits /\ Pops' = Pops \ {me}
      BY <2>2, <2>3, DqReturnOutcome
    <3>2. PopWaits = {}
      BY <2>3, DqFacts DEF rt_list_isempty
    <3>3. PopClaimed'
      BY <1>1, <1>2, <2>1, <3>1, <3>2, PopClaimKept
    <3>4. PushMarked'
      BY <1>1, <1>3, <2>1, <3>1 DEF PushMarked
    <3> QED BY <3>1, <3>3, <3>4 DEF DqOutcome
  <2>4. CASE /\ ~rt_list_isempty(k.list[pop_list]) /\ DqReturn("sched")
             /\ k' = rt_ipc_list_resume(k, pop_list)
    <3>1. /\ CpuInv' /\ pc' \in [Thread -> DqLabel] /\ DqSound'
          /\ PopWaits' \subseteq PopWaits /\ PushWaits' = PushWaits
          /\ \E t : t \notin Pops /\ Pops' = (Pops \ {me}) \cup {t}
      BY <2>2, <2>4, DqWakeOutcome
    <3>2. PopClaimed'
      BY <1>1, <1>2, <2>1, <3>1, PopClaimKept
    <3>3. PushMarked'
      BY <1>1, <1>3, <2>1, <3>1 DEF PushMarked
    <3> QED BY <3>1, <3>2, <3>3 DEF DqOutcome
  <2> QED BY <1>3, <2>3, <2>4 DEF TryPush
<1>4. CASE /\ Length = dq_size /\ waiting_lwm' = TRUE
           /\ DqWait(push_list, x, "forever")
           /\ UNCHANGED <<put_index, get_index>>
  <2>1. /\ CpuInv' /\ pc' \in [Thread -> DqLabel] /\ DqSound'
        /\ Pops' = Pops \ {me} /\ PushWaits' # {} /\ PopWaits' = PopWaits
    BY <1>4, DqFacts, DqSleepOutcome DEF Time
  <2>2. Length' = Length
    BY <1>4 DEF Length
  <2>3. PopClaimed'
    BY <1>1, <1>2, <2>1, <2>2, PopClaimKept
  <2>4. PushMarked'
    BY <1>1, <1>4, <2>1, <2>2 DEF PushMarked
  <2> QED BY <2>1, <2>3, <2>4 DEF DqOutcome
<1> QED BY <1>3, <1>4 DEF TryPush, DqPut

LEMMA TryPopOutcome ==
  ASSUME DqInv, NEW me \in Thread \ {Idle}, me = self, k.stat[me] = "ready",
         NEW tm \in Time, TryPop(tm)
  PROVE  DqOutcome
<1>1. /\ Length \in 0 .. dq_size /\ DqRingInv /\ item' \in [Thread -> Item \cup {NoItem}]
      /\ PushMarked /\ lwm \in 0 .. dq_size - 1 /\ dq_size \in Nat
  BY DqFacts, TryPopStepsRing DEF DqInv
<1>2. CASE Length # 0 /\ DqTake
  <2>1. Length' = Length - 1 /\ waiting_lwm' = (waiting_lwm /\ ~ReachesMark)
    BY <1>1, <1>2, DqTakesFirst DEF DqTake
  <2>2. waiting_lwm' \in BOOLEAN
    BY <2>1
  <2>3. CASE /\ ReachesMark /\ ~rt_list_isempty(k.list[push_list])
             /\ k' = rt_ipc_list_resume(k, push_list) /\ DqReturn("sched")
    <3>1. /\ CpuInv' /\ pc' \in [Thread -> DqLabel] /\ DqSound'
          /\ PopWaits' = PopWaits /\ PushWaits' = {} /\ Pops' = Pops \ {me}
      BY <2>2, <2>3, DqWakeOutcome
    <3>2. PopClaimed'
      BY <1>1, <1>2, <2>1, <3>1, PopClaimKept
    <3>3. PushMarked'
      BY <2>1, <2>3, <3>1 DEF PushMarked
    <3> QED BY <3>1, <3>2, <3>3 DEF DqOutcome
  <2>4. CASE ~ReachesMark /\ k' = k /\ DqReturn("run")
    <3>1. /\ CpuInv' /\ pc' \in [Thread -> DqLabel] /\ DqSound'
          /\ PopWaits' = PopWaits /\ PushWaits' = PushWaits /\ Pops' = Pops \ {me}
      BY <2>2, <2>4, DqReturnOutcome
    <3>2. PopClaimed'
      BY <1>1, <1>2, <2>1, <3>1, PopClaimKept
    <3>3. waiting_lwm' = waiting_lwm
      BY <2>1, <2>4, DqFacts, Zenon DEF DqSound
    <3>4. waiting_lwm => Length - 1 > lwm
      BY <1>1, <2>4 DEF ReachesMark
    <3>5. PushMarked'
      BY <1>1, <2>1, <3>1, <3>3, <3>4 DEF PushMarked
    <3> QED BY <3>1, <3>2, <3>5 DEF DqOutcome
  <2> QED BY <1>2, <2>3, <2>4 DEF TryPop
<1>3. CASE Length = 0 /\ UNCHANGED dqstate
  <2>1. Length' = 0 /\ waiting_lwm' = waiting_lwm /\ waiting_lwm' \in BOOLEAN
    BY <1>3, DqFacts DEF dqstate, Length, DqSound
  <2>2. PushWaits = {}
    BY <1>1, <1>3 DEF PushMarked
  <2>3. ~waiting_lwm
    BY <1>1, <2>2 DEF PushMarked
  <2>4. CASE DqReturn("run") /\ k' = k
    <3>1. /\ CpuInv' /\ pc' \in [Thread -> DqLabel] /\ DqSound'
          /\ PushWaits' = PushWaits /\ Pops' = Pops \ {me}
      BY <2>1, <2>4, DqReturnOutcome
    <3>2. PopClaimed'
      BY <2>1, <3>1, PopClaimKept
    <3>3. PushMarked'
      BY <2>1, <2>2, <2>3, <3>1 DEF PushMarked
    <3> QED BY <3>1, <3>2, <3>3 DEF DqOutcome
  <2>5. CASE DqWait(pop_list, NoItem, tm)
    <3>1. /\ CpuInv' /\ pc' \in [Thread -> DqLabel] /\ DqSound'
          /\ PushWaits' = PushWaits /\ Pops' = Pops \ {me}
      BY <2>1, <2>5, DqFacts, DqSleepOutcome
    <3>2. PopClaimed'
      BY <2>1, <3>1, PopClaimKept
    <3>3. PushMarked'
      BY <2>1, <2>2, <2>3, <3>1 DEF PushMarked
    <3> QED BY <3>1, <3>2, <3>3 DEF DqOutcome
  <2> QED BY <1>3, <2>4, <2>5 DEF TryPop
<1> QED BY <1>2, <1>3 DEF TryPop

LEMMA IsrPopOutcome ==
  ASSUME DqInv, IsrPop
  PROVE  DqOutcome
<1>1. /\ Length \in 0 .. dq_size /\ DqRingInv /\ item' \in [Thread -> Item \cup {NoItem}]
      /\ PushMarked /\ lwm \in 0 .. dq_size - 1 /\ dq_size \in Nat
      /\ UNCHANGED <<pc, item, dq_time>> /\ pc' \in [Thread -> DqLabel]
  BY DqFacts DEF DqInv, IsrPop
<1>2. Length' = Length - 1 /\ waiting_lwm' = (waiting_lwm /\ ~ReachesMark)
  BY <1>1, DqTakesFirst DEF IsrPop, DqTake
<1>3. CASE /\ ReachesMark /\ ~rt_list_isempty(k.list[push_list])
           /\ k' = rt_schedule(rt_ipc_list_resume(k, push_list))
  <2>1. /\ CpuInv'
        /\ \E t \in Thread :
             /\ t \in Nodes(k, push_list) /\ t \notin Hopeful
             /\ InCall' = InCall /\ Hopeful' = Hopeful \cup {t}
             /\ \A g \in Queue : Nodes(k', g) = Nodes(k, g) \ {t}
             /\ NoNewTimer(k, k', Thread)
             /\ k'.error = k.error
    <3>1. \A t \in Nodes(k, push_list) : t \in InCall /\ k.error[t] = "ok"
      BY DqFacts DEF PushWaits
    <3>2. CpuInv /\ push_list \in Queue /\ pc' = pc
      BY <1>1, DqFacts
    <3> QED BY <1>3, <3>1, <3>2, InterruptWakes
  <2>2. PICK t \in Thread :
          /\ t \in PushWaits /\ InCall' = InCall /\ Hopeful' = Hopeful \cup {t}
          /\ \A g \in Queue : Nodes(k', g) = Nodes(k, g) \ {t}
          /\ k'.error = k.error
    BY <2>1 DEF PushWaits
  <2>3. PopWaits' = PopWaits /\ PushWaits' = {}
    <3>1. PopWaits' = PopWaits \ {t} /\ PushWaits' = PushWaits \ {t}
      BY <2>2, DqFacts DEF PopWaits, PushWaits
    <3> QED BY <2>2, <3>1, DqFacts
  <2>4. Pops' = Pops
    BY <1>1, <2>2, DqFacts DEF Pops, DqSound
  <2>5. DqSound'
    BY <1>1, <1>2, <2>2, <2>3, DqFacts DEF DqSound
  <2>6. PopClaimed'
    BY <1>1, <1>2, <2>3, <2>4, PopClaimKept DEF IsrPop
  <2>7. PushMarked'
    BY <1>2, <1>3, <2>3 DEF PushMarked
  <2> QED BY <1>1, <2>1, <2>5, <2>6, <2>7 DEF DqOutcome
<1>4. CASE ~ReachesMark /\ k' = k
  <2>1. /\ CpuInv' /\ PopWaits' = PopWaits /\ PushWaits' = PushWaits /\ Pops' = Pops
        /\ InCall' = InCall
    BY <1>1, <1>4, DqFacts
    DEF CpuInv, PopWaits, PushWaits, Pops, Hopeful, InCall, AboutToSchedule
  <2>2. DqSound'
    BY <1>1, <1>2, <1>4, <2>1, DqFacts DEF DqSound
  <2>3. PopClaimed'
    BY <1>1, <1>2, <2>1, PopClaimKept DEF IsrPop
  <2>4. waiting_lwm' = waiting_lwm
    BY <1>2, <1>4, DqFacts, Zenon DEF DqSound
  <2>5. waiting_lwm => Length - 1 > lwm
    BY <1>1, <1>4 DEF ReachesMark
  <2>6. PushMarked'
    BY <1>1, <1>2, <2>1, <2>4, <2>5 DEF PushMarked
  <2> QED BY <1>1, <2>1, <2>2, <2>3, <2>6 DEF DqOutcome
<1> QED BY <1>3, <1>4 DEF IsrPop

LEMMA DqCallOutcome ==
  ASSUME DqInv,
         \/ \E x \in Item, tm \in PushTimes : Push(x, tm)
         \/ \E tm \in PopTimes : Pop(tm)
         \/ DqFails
         \/ DqRetries
  PROVE  DqOutcome
<1>1. ASSUME NEW label \in {"run", "woken"}, At(label)
      PROVE  self \in Thread \ {Idle} /\ k.stat[self] = "ready" /\ pc[self] = label
  <2>1. CpuInv
    BY DEF DqInv
  <2> QED BY <1>1, <2>1, RunnerIsReady DEF AboutToSchedule
<1>2. ASSUME NEW x \in Item, NEW tm \in PushTimes, Push(x, tm)
      PROVE  DqOutcome
  <2>1. tm = "forever"
    BY DEF DqInv, OnePusher
  <2>2. PICK me \in Thread \ {Idle} : me = self /\ k.stat[me] = "ready" /\ pc[me] = "run"
    BY <1>1, <1>2 DEF Push
  <2>3. me \in Pusher /\ TryPush(x, "forever")
    BY <1>2, <2>1, <2>2 DEF Push
  <2> QED BY <2>2, <2>3, TryPushOutcome
<1>3. ASSUME NEW tm \in PopTimes, Pop(tm)
      PROVE  DqOutcome
  <2>1. tm \in Time
    BY DqType
  <2>2. PICK me \in Thread \ {Idle} : me = self /\ k.stat[me] = "ready"
    BY <1>1, <1>3 DEF Pop
  <2>3. TryPop(tm)
    BY <1>3 DEF Pop
  <2> QED BY <2>1, <2>2, <2>3, TryPopOutcome
<1>4. CASE DqFails
  <2>1. PICK me \in Thread \ {Idle} :
          me = self /\ k.stat[me] = "ready" /\ k.error[me] # "ok"
    BY <1>1, <1>4 DEF DqFails
  <2>2. /\ DqReturn("run") /\ k' = k /\ waiting_lwm' = waiting_lwm /\ waiting_lwm' \in BOOLEAN
        /\ Length' = Length /\ Length \in Nat
    BY <1>4, DqFacts DEF DqFails, dqstate, DqSound, Length
  <2>3. /\ CpuInv' /\ pc' \in [Thread -> DqLabel] /\ DqSound'
        /\ PopWaits' = PopWaits /\ PushWaits' = PushWaits /\ Pops' = Pops \ {me}
    BY <2>1, <2>2, DqReturnOutcome
  <2>4. Pops \ {me} = Pops
    BY <2>1 DEF Pops, Hopeful
  <2>5. PopClaimed'
    BY <2>2, <2>3, <2>4, PopClaimKept
  <2>6. PushMarked'
    BY <2>2, <2>3 DEF PushMarked, DqInv
  <2> QED BY <2>3, <2>5, <2>6 DEF DqOutcome
<1>5. CASE DqRetries
  <2>1. PICK me \in Thread \ {Idle} : me = self /\ k.stat[me] = "ready"
    BY <1>1, <1>5 DEF DqRetries
  <2>2. CASE item[me] = NoItem
    <3>1. TryPop(dq_time[me]) /\ dq_time[me] \in Time
      BY <1>5, <2>1, <2>2, DqFacts DEF DqRetries, DqSound
    <3> QED BY <2>1, <3>1, TryPopOutcome
  <2>3. CASE item[me] # NoItem
    <3>1. item[me] \in Item /\ me \in Pusher /\ dq_time[me] = "forever"
      BY <2>3, DqFacts DEF DqSound
    <3>2. TryPush(item[me], "forever")
      BY <1>5, <2>1, <2>3, <3>1 DEF DqRetries
    <3> QED BY <2>1, <2>3, <3>1, <3>2, TryPushOutcome
  <2> QED BY <2>2, <2>3
<1> QED BY <1>2, <1>3, <1>4, <1>5

LEMMA DqQuietOutcome ==
  ASSUME DqInv, (CpuStep /\ UNCHANGED dqvars) \/ DqSchedule
  PROVE  DqOutcome
<1>1. CpuInv /\ pc \in [Thread -> DqLabel]
  BY DqFacts
<1>2. CASE CpuStep /\ UNCHANGED dqvars
  <2>1. "sched" \in DqLabel
    BY DEF DqLabel
  <2>2. CpuInv' /\ CallsKept /\ pc' \in [Thread -> DqLabel]
    BY <1>1, <1>2, <2>1, CpuStepKeepsCalls
  <2>3. \A h \in Queue : \A t \in Nodes(k, h) :
          ~k.timer[t] => t \in Nodes(k', h) /\ ~k'.timer[t]
    BY <1>1, <1>2, UntimedStay
  <2> QED BY <1>2, <2>2, <2>3, DqKeptOutcome
<1>3. CASE DqSchedule
  <2>1. PICK label, next_label \in DqLabel :
          /\ ScheduleAt(label, next_label)
          /\ label \in {"wait", "woken"} <=> next_label \in {"wait", "woken"}
    BY <1>3 DEF DqSchedule, DqLabel
  <2>2. UNCHANGED dqvars
    BY <1>3 DEF DqSchedule
  <2>3. CpuInv' /\ CallsKept /\ pc' \in [Thread -> DqLabel]
    BY <1>1, <2>1, ScheduleKeepsCalls
  <2>4. \A h \in Queue : \A t \in Nodes(k, h) :
          ~k.timer[t] => t \in Nodes(k', h) /\ ~k'.timer[t]
    BY <1>1, <2>1, UntimedStay
  <2> QED BY <2>2, <2>3, <2>4, DqKeptOutcome
<1> QED BY <1>2, <1>3

LEMMA DqInitInv ==
  ASSUME OnePusher, DqInit
  PROVE  DqInv
<1>1. CpuInv /\ \A h \in Queue : Nodes(k, h) = {}
  BY IpcInitEstablishesInv DEF DqInit
<1>2. PopWaits = {} /\ PushWaits = {}
  BY <1>1, DqType DEF PopWaits, PushWaits
<1>3. pc = [t \in Thread |-> "run"] /\ pc \in [Thread -> DqLabel]
  BY DEF DqInit, IpcInit, DqLabel
<1>4. Pops = {}
  BY <1>3 DEF Pops, Hopeful, InCall
<1>5. PopClaimed
  BY <1>2, <1>4, FS_EmptySet DEF PopClaimed
<1>6. DqSound
  BY <1>2 DEF DqSound, DqInit, Time
<1>7. PushMarked
  BY <1>2 DEF PushMarked, DqInit
<1> QED BY <1>1, <1>3, <1>5, <1>6, <1>7, DqInitRing DEF DqInv

LEMMA DqStepInv == DqInv /\ [DqNext]_<<k, pc, dqvars>> => DqInv'
<1> SUFFICES ASSUME DqInv, [DqNext]_<<k, pc, dqvars>> PROVE DqInv'
  OBVIOUS
<1>1. DqRingInv' /\ OnePusher'
  BY DqNextStepsRing, DqRingStepImplements DEF DqInv, OnePusher
<1>2. CASE DqNext
  <2>1. DqOutcome
    BY <1>2, DqCallOutcome, IsrPopOutcome, DqQuietOutcome DEF DqNext
  <2> QED BY <1>1, <2>1 DEF DqOutcome, DqInv
<1>3. CASE UNCHANGED <<k, pc, dqvars>>
  <2>1. k' = k /\ pc' = pc /\ UNCHANGED dqvars
    BY <1>3
  <2>2. /\ CpuInv' /\ PopWaits' = PopWaits /\ PushWaits' = PushWaits /\ Pops' = Pops
        /\ InCall' = InCall /\ Length' = Length /\ waiting_lwm' = waiting_lwm
    BY <2>1, DqFacts
    DEF CpuInv, PopWaits, PushWaits, Pops, Hopeful, InCall, AboutToSchedule, Length,
        dqvars, dqstate
  <2>3. DqSound' /\ PopClaimed' /\ PushMarked'
    BY <2>1, <2>2 DEF DqInv, DqSound, PopClaimed, PushMarked, dqvars, dqstate
  <2> QED BY <1>1, <2>1, <2>2, <2>3 DEF DqInv
<1> QED BY <1>2, <1>3

(* With one thread that pushes, and waits for ever when there is no room:   *)
(* while threads wait to pop, every item has a woken one on its way, and    *)
(* the thread that waits to push is flagged and above the low water mark,   *)
(* so that the pop that reaches it finds somebody to wake                   *)
(* (rt_data_queue_push, rt_data_queue_pop), whoever takes items from under  *)
(* them, for any size and mark.                                             *)
THEOREM DataQueueStrandsNobody ==
  ASSUME OnePusher
  PROVE  DqSpec => []NobodyStranded
<1>1. DqInit => DqInv
  BY DqInitInv
<1>2. DqSpec => []DqInv
  BY <1>1, DqStepInv, PTL DEF DqSpec
<1> QED BY <1>2, DqInvStrandsNobody, PTL

-----------------------------------------------------------------------------
(* The ring buffer of a pipe *)

\* The mirror bits differ while the write index is behind the read index.
Mirrored(rb) ==
  IF rb.read_mirror = rb.write_mirror THEN rb.read_index <= rb.write_index
                                      ELSE rb.write_index <= rb.read_index

SoundRing == {rb \in RingType(Byte \cup {NoByte}) : Mirrored(rb)}

\* The bytes from b to e, on the same side of the mirror or not.
Span(b, e, same) == IF same THEN e - b ELSE buffer_size + e - b
Ordered(b, e, same) == IF same THEN b <= e ELSE e <= b

LEMMA RingFacts ==
  ASSUME NEW rb \in SoundRing
  PROVE  LET same == rb.read_mirror = rb.write_mirror
         IN  /\ rb.read_index \in 0 .. buffer_size - 1
             /\ rb.write_index \in 0 .. buffer_size - 1
             /\ rb.read_mirror \in BOOLEAN /\ rb.write_mirror \in BOOLEAN
             /\ rb.buffer \in [0 .. buffer_size - 1 -> Byte \cup {NoByte}]
             /\ Ordered(rb.read_index, rb.write_index, same)
             /\ rt_ringbuffer_data_len(rb) = Span(rb.read_index, rb.write_index, same)
             /\ rt_ringbuffer_data_len(rb) \in 0 .. buffer_size
<1> DEFINE same == rb.read_mirror = rb.write_mirror
           b == rb.read_index
           e == rb.write_index
<1>1. /\ b \in 0 .. buffer_size - 1 /\ e \in 0 .. buffer_size - 1
      /\ rb.read_mirror \in BOOLEAN /\ rb.write_mirror \in BOOLEAN
      /\ rb.buffer \in [0 .. buffer_size - 1 -> Byte \cup {NoByte}]
      /\ Ordered(b, e, same)
  BY DEF SoundRing, RingType, Mirrored, Ordered
<1>2. rt_ringbuffer_data_len(rb) = IF b = e THEN IF same THEN 0 ELSE buffer_size
                                   ELSE IF e > b THEN e - b ELSE buffer_size - (b - e)
  BY DEF rt_ringbuffer_data_len
<1>3. buffer_size \in Nat \ {0}
  BY PipeType
<1> HIDE DEF same, b, e
<1>4. rt_ringbuffer_data_len(rb) = Span(b, e, same)
  <2>1. CASE same
    BY <1>1, <1>2, <1>3, <2>1 DEF Span, Ordered
  <2>2. CASE ~same
    BY <1>1, <1>2, <1>3, <2>2 DEF Span, Ordered
  <2> QED BY <2>1, <2>2
<1>5. Span(b, e, same) \in 0 .. buffer_size
  BY <1>1, <1>3 DEF Span, Ordered
<1> QED BY <1>1, <1>4, <1>5 DEF same, b, e

(* The end moves on by n, and round when it reaches the buffer's end. *)
LEMMA EndMoves ==
  ASSUME NEW b \in 0 .. buffer_size - 1, NEW e \in 0 .. buffer_size - 1, NEW same \in BOOLEAN,
         Ordered(b, e, same), NEW n \in Nat, n <= buffer_size - Span(b, e, same)
  PROVE  /\ buffer_size - e > n =>
              /\ e + n \in 0 .. buffer_size - 1 /\ Ordered(b, e + n, same)
              /\ Span(b, e + n, same) = Span(b, e, same) + n
         /\ ~(buffer_size - e > n) =>
              /\ n - (buffer_size - e) \in 0 .. buffer_size - 1
              /\ Ordered(b, n - (buffer_size - e), ~same)
              /\ Span(b, n - (buffer_size - e), ~same) = Span(b, e, same) + n
<1>1. buffer_size \in Nat \ {0}
  BY PipeType
<1>2. CASE same
  BY <1>1, <1>2 DEF Span, Ordered
<1>3. CASE ~same
  BY <1>1, <1>3 DEF Span, Ordered
<1> QED BY <1>2, <1>3

LEMMA BeginMoves ==
  ASSUME NEW b \in 0 .. buffer_size - 1, NEW e \in 0 .. buffer_size - 1, NEW same \in BOOLEAN,
         Ordered(b, e, same), NEW n \in Nat, n <= Span(b, e, same)
  PROVE  /\ buffer_size - b > n =>
              /\ b + n \in 0 .. buffer_size - 1 /\ Ordered(b + n, e, same)
              /\ Span(b + n, e, same) = Span(b, e, same) - n
         /\ ~(buffer_size - b > n) =>
              /\ n - (buffer_size - b) \in 0 .. buffer_size - 1
              /\ Ordered(n - (buffer_size - b), e, ~same)
              /\ Span(n - (buffer_size - b), e, ~same) = Span(b, e, same) - n
<1>1. buffer_size \in Nat \ {0}
  BY PipeType
<1>2. CASE same
  BY <1>1, <1>2 DEF Span, Ordered
<1>3. CASE ~same
  BY <1>1, <1>3 DEF Span, Ordered
<1> QED BY <1>2, <1>3

(* The places of the ring, counted from the read index. *)
LEMMA PlaceMod ==
  ASSUME NEW b \in 0 .. buffer_size - 1, NEW i \in 0 .. buffer_size
  PROVE  (b + i) % buffer_size = IF b + i < buffer_size THEN b + i ELSE b + i - buffer_size
<1> DEFINE n == buffer_size
<1>1. n \in Nat \ {0}
  BY PipeType
<1>2. \A m \in Nat \ {0} : \A j \in 0 .. m - 1 : j % m = j
  OBVIOUS
<1>3. \A m \in Nat \ {0} : \A j \in m .. 2 * m - 1 : j % m = j - m
  OBVIOUS
<1>4. CASE b + i < n
  BY <1>1, <1>2, <1>4
<1>5. CASE b + i >= n
  BY <1>1, <1>3, <1>5
<1> QED BY <1>1, <1>4, <1>5

(* The place of index i in what is written from e on. *)
LEMMA BackMod ==
  ASSUME NEW e \in 0 .. buffer_size - 1, NEW i \in 0 .. buffer_size - 1
  PROVE  (i - e) % buffer_size = IF i >= e THEN i - e ELSE i - e + buffer_size
<1> DEFINE n == buffer_size
<1>1. n \in Nat \ {0}
  BY PipeType
<1>2. \A m \in Nat \ {0} : \A j \in 0 .. m - 1 : j % m = j
  OBVIOUS
<1>3. \A m \in Nat \ {0} : \A j \in 1 - m .. -1 : j % m = j + m
  OBVIOUS
<1>4. CASE i >= e
  BY <1>1, <1>2, <1>4
<1>5. CASE i < e
  BY <1>1, <1>3, <1>5
<1> QED BY <1>1, <1>4, <1>5

LEMMA RequestLength ==
  ASSUME NEW bytes \in Requests
  PROVE  /\ Len(bytes) \in Nat \ {0} /\ bytes \in Seq(Byte)
         /\ bytes \in [1 .. Len(bytes) -> Byte]
<1>1. PICK n \in Sizes : bytes \in [1 .. n -> Byte]
  BY DEF Requests
<1>2. n \in Nat \ {0}
  BY PipeType
<1> QED BY <1>1, <1>2

LEMMA BytesFacts ==
  ASSUME NEW rb \in SoundRing
  PROVE  /\ Bytes(rb) \in Seq(Byte \cup {NoByte})
         /\ Len(Bytes(rb)) = rt_ringbuffer_data_len(rb)
         /\ \A i \in 1 .. rt_ringbuffer_data_len(rb) :
              /\ (rb.read_index + i - 1) % buffer_size \in 0 .. buffer_size - 1
              /\ Bytes(rb)[i] = rb.buffer[(rb.read_index + i - 1) % buffer_size]
<1> DEFINE n == rt_ringbuffer_data_len(rb)
           place(i) == (rb.read_index + i - 1) % buffer_size
<1>1. n \in 0 .. buffer_size /\ buffer_size \in Nat \ {0}
  BY RingFacts, PipeType
<1>2. \A i \in 1 .. n : place(i) \in 0 .. buffer_size - 1
  BY <1>1, RingFacts
<1>3. Bytes(rb) = [i \in 1 .. n |-> rb.buffer[place(i)]]
  BY DEF Bytes
<1> HIDE DEF place, n
<1>4. \A i \in 1 .. n : rb.buffer[place(i)] \in Byte \cup {NoByte}
  BY <1>2, RingFacts
<1>5. Bytes(rb) \in [1 .. n -> Byte \cup {NoByte}]
  BY <1>3, <1>4
<1>6. Bytes(rb) \in Seq(Byte \cup {NoByte}) /\ Len(Bytes(rb)) = n
  BY <1>1, <1>5
<1> QED BY <1>2, <1>3, <1>6 DEF place, n

(* A write appends as many of its bytes as there is room for. *)
LEMMA RingPut ==
  ASSUME NEW rb \in SoundRing, NEW bytes \in Requests
  PROVE  LET new == rt_ringbuffer_put(rb, bytes)
             n == AtMost(Len(bytes), rt_ringbuffer_space_len(rb))
         IN  /\ new \in SoundRing
             /\ n \in 0 .. Len(bytes)
             /\ rt_ringbuffer_data_len(new) = rt_ringbuffer_data_len(rb) + n
             /\ \A i \in 1 .. rt_ringbuffer_data_len(rb) : Bytes(new)[i] = Bytes(rb)[i]
             /\ \A i \in 1 .. n : Bytes(new)[rt_ringbuffer_data_len(rb) + i] = bytes[i]
<1> DEFINE n == AtMost(Len(bytes), rt_ringbuffer_space_len(rb))
           old == rt_ringbuffer_data_len(rb)
           new == rt_ringbuffer_put(rb, bytes)
           b == rb.read_index
           e == rb.write_index
           same == rb.read_mirror = rb.write_mirror
<1>1. buffer_size \in Nat \ {0} /\ Len(bytes) \in Nat \ {0}
  BY PipeType, RequestLength
<1>2. /\ b \in 0 .. buffer_size - 1 /\ e \in 0 .. buffer_size - 1 /\ same \in BOOLEAN
      /\ Ordered(b, e, same) /\ old = Span(b, e, same) /\ old \in 0 .. buffer_size
  BY RingFacts
<1>3. n \in 0 .. Len(bytes) /\ n <= buffer_size - old
  BY <1>1, <1>2 DEF AtMost, rt_ringbuffer_space_len
<1> DEFINE stays == buffer_size - e > n
           after == IF stays THEN e + n ELSE n - (buffer_size - e)
           side == IF stays THEN same ELSE ~same
           mirror == IF stays THEN rb.write_mirror ELSE ~rb.write_mirror
           buffer == CopiedIn(rb, bytes, n)
<1> HIDE DEF n, same
<1>4. /\ after \in 0 .. buffer_size - 1 /\ Ordered(b, after, side)
      /\ Span(b, after, side) = old + n
  BY <1>2, <1>3, EndMoves
<1>5. new = [rb EXCEPT !.buffer = buffer, !.write_index = after, !.write_mirror = mirror]
  BY DEF rt_ringbuffer_put, n
<1>6. \A i \in 0 .. buffer_size - 1 :
        LET place == IF i >= e THEN i - e ELSE i - e + buffer_size
        IN  /\ buffer[i] = IF place < n THEN bytes[place + 1] ELSE rb.buffer[i]
            /\ place < n => bytes[place + 1] \in Byte
  <2> SUFFICES ASSUME NEW i \in 0 .. buffer_size - 1
               PROVE  LET place == IF i >= e THEN i - e ELSE i - e + buffer_size
                      IN  /\ buffer[i] = IF place < n THEN bytes[place + 1] ELSE rb.buffer[i]
                          /\ place < n => bytes[place + 1] \in Byte
    OBVIOUS
  <2> DEFINE place == IF i >= e THEN i - e ELSE i - e + buffer_size
  <2>1. (i - e) % buffer_size = place
    BY <1>2, BackMod
  <2>2. buffer[i] = IF (i - e) % buffer_size < n THEN bytes[((i - e) % buffer_size) + 1]
                    ELSE rb.buffer[i]
    BY DEF CopiedIn
  <2>3. place \in Nat
    BY <1>1, <1>2
  <2> HIDE DEF place
  <2>4. place < n => bytes[place + 1] \in Byte
    <3>1. place < n => place + 1 \in 1 .. Len(bytes)
      BY <1>1, <1>3, <2>3
    <3> QED BY <3>1, RequestLength
  <2> QED BY <2>1, <2>2, <2>4 DEF place
<1>7. buffer = [i \in 0 .. buffer_size - 1 |-> buffer[i]]
  BY DEF CopiedIn
<1> HIDE DEF buffer
<1>8. buffer \in [0 .. buffer_size - 1 -> Byte \cup {NoByte}]
  <2>1. \A i \in 0 .. buffer_size - 1 : buffer[i] \in Byte \cup {NoByte}
    BY <1>6, RingFacts
  <2> HIDE DEF b, e
  <2> QED BY <1>7, <2>1
<1>9. mirror \in BOOLEAN /\ side = (rb.read_mirror = mirror)
  BY RingFacts DEF same
<1> HIDE DEF after, side, mirror, new
<1>10. new \in RingType(Byte \cup {NoByte})
  BY <1>4, <1>5, <1>8, <1>9 DEF SoundRing, RingType
<1>11. /\ new.read_index = b /\ new.write_index = after /\ new.buffer = buffer
       /\ new.read_mirror = rb.read_mirror /\ new.write_mirror = mirror
  BY <1>5 DEF SoundRing, RingType
<1>12. new \in SoundRing
  BY <1>4, <1>9, <1>10, <1>11 DEF SoundRing, Mirrored, Ordered
<1>13. rt_ringbuffer_data_len(new) = old + n
  <2>1. rt_ringbuffer_data_len(new)
          = Span(new.read_index, new.write_index, new.read_mirror = new.write_mirror)
    BY <1>12, RingFacts
  <2> QED BY <1>4, <1>9, <1>11, <2>1
<1> HIDE DEF old
<1>14. \A i \in 1 .. old + n :
         LET p == IF b + (i - 1) < buffer_size THEN b + (i - 1) ELSE b + (i - 1) - buffer_size
         IN  /\ p \in 0 .. buffer_size - 1
             /\ i \in 1 .. old => Bytes(rb)[i] = rb.buffer[p]
             /\ Bytes(new)[i] = buffer[p]
  <2> TAKE i \in 1 .. old + n
  <2> DEFINE p == IF b + (i - 1) < buffer_size THEN b + (i - 1) ELSE b + (i - 1) - buffer_size
  <2>1. i - 1 \in 0 .. buffer_size /\ i \in Nat /\ b \in Int
    BY <1>1, <1>2, <1>3
  <2>2. (b + (i - 1)) % buffer_size = p
    BY <1>2, <2>1, PlaceMod
  <2>3. b + (i - 1) = b + i - 1
    BY <2>1
  <2>4. i \in 1 .. old => Bytes(rb)[i] = rb.buffer[p]
    BY <2>2, <2>3, BytesFacts DEF old
  <2>5. Bytes(new)[i] = buffer[p]
    BY <1>11, <1>12, <1>13, <2>2, <2>3, BytesFacts
  <2>6. p \in 0 .. buffer_size - 1
    BY <1>1, <1>2, <1>3, <2>1
  <2> QED BY <2>4, <2>5, <2>6
<1> HIDE DEF b, e
<1>15. same => old = e - b /\ b <= e
  BY <1>2 DEF Span, Ordered
<1>16. ~same => old = buffer_size + e - b /\ e <= b
  BY <1>2 DEF Span, Ordered
<1>19. /\ b \in 0 .. buffer_size - 1 /\ e \in 0 .. buffer_size - 1
       /\ old \in 0 .. buffer_size /\ n \in Nat /\ n <= buffer_size - old
  BY <1>1, <1>2, <1>3
<1>17. ASSUME NEW i \in 1 .. old PROVE Bytes(new)[i] = Bytes(rb)[i]
  <2> DEFINE p == IF b + (i - 1) < buffer_size THEN b + (i - 1) ELSE b + (i - 1) - buffer_size
             place == IF p >= e THEN p - e ELSE p - e + buffer_size
  <2>1. i \in 1 .. old + n
    BY <1>2, <1>3
  <2>2. /\ p \in 0 .. buffer_size - 1 /\ Bytes(rb)[i] = rb.buffer[p]
        /\ Bytes(new)[i] = buffer[p]
    BY <1>14, <2>1
  <2>3. ~(place < n)
    <3>1. CASE same
      BY <1>1, <1>15, <1>19, <3>1
    <3>2. CASE ~same
      BY <1>1, <1>16, <1>19, <3>2
    <3> QED BY <3>1, <3>2
  <2> HIDE DEF p
  <2>4. buffer[p] = rb.buffer[p]
    BY <1>6, <2>2, <2>3
  <2> QED BY <2>2, <2>4
<1>18. ASSUME NEW i \in 1 .. n PROVE Bytes(new)[old + i] = bytes[i]
  <2> DEFINE j == old + i
             p == IF b + (j - 1) < buffer_size THEN b + (j - 1) ELSE b + (j - 1) - buffer_size
             place == IF p >= e THEN p - e ELSE p - e + buffer_size
  <2>1. j \in 1 .. old + n
    BY <1>2, <1>3
  <2>2. p \in 0 .. buffer_size - 1 /\ Bytes(new)[j] = buffer[p]
    BY <1>14, <2>1
  <2>3. place = i - 1
    <3>1. CASE same
      BY <1>1, <1>15, <1>19, <3>1
    <3>2. CASE ~same
      BY <1>1, <1>16, <1>19, <3>2
    <3> QED BY <3>1, <3>2
  <2> HIDE DEF p
  <2>4. buffer[p] = IF place < n THEN bytes[place + 1] ELSE rb.buffer[p]
    BY <1>6, <2>2
  <2> HIDE DEF place
  <2>5. place < n /\ place + 1 = i
    BY <1>3, <2>3
  <2> QED BY <2>2, <2>4, <2>5
<1> QED BY <1>3, <1>12, <1>13, <1>17, <1>18 DEF new, n, old

(* A read takes the first bytes there are. *)
LEMMA RingGet ==
  ASSUME NEW rb \in SoundRing, NEW size1 \in Sizes
  PROVE  LET new == rt_ringbuffer_get(rb, size1)
             n == AtMost(size1, rt_ringbuffer_data_len(rb))
         IN  /\ new \in SoundRing
             /\ n \in 0 .. rt_ringbuffer_data_len(rb)
             /\ n = 0 <=> rt_ringbuffer_data_len(rb) = 0
             /\ rt_ringbuffer_data_len(new) = rt_ringbuffer_data_len(rb) - n
             /\ \A i \in 1 .. rt_ringbuffer_data_len(rb) - n :
                  Bytes(new)[i] = Bytes(rb)[n + i]
<1> DEFINE old == rt_ringbuffer_data_len(rb)
           n == AtMost(size1, old)
           new == rt_ringbuffer_get(rb, size1)
           b == rb.read_index
           e == rb.write_index
           same == rb.read_mirror = rb.write_mirror
<1>1. buffer_size \in Nat \ {0} /\ size1 \in Nat \ {0}
  BY PipeType
<1>2. /\ b \in 0 .. buffer_size - 1 /\ e \in 0 .. buffer_size - 1 /\ same \in BOOLEAN
      /\ Ordered(b, e, same) /\ old = Span(b, e, same) /\ old \in 0 .. buffer_size
  BY RingFacts
<1>3. n \in 0 .. old /\ (n = 0 <=> old = 0)
  BY <1>1, <1>2 DEF AtMost
<1> DEFINE stays == buffer_size - b > n
           after == IF stays THEN b + n ELSE n - (buffer_size - b)
           side == IF stays THEN same ELSE ~same
           mirror == IF stays THEN rb.read_mirror ELSE ~rb.read_mirror
<1> HIDE DEF n, same
<1>4. /\ after \in 0 .. buffer_size - 1 /\ Ordered(after, e, side)
      /\ Span(after, e, side) = old - n
  BY <1>2, <1>3, BeginMoves
<1>5. new = [rb EXCEPT !.read_index = after, !.read_mirror = mirror]
  BY DEF rt_ringbuffer_get, n
<1>6. mirror \in BOOLEAN /\ side = (mirror = rb.write_mirror)
  BY RingFacts DEF same
<1>7. after = IF b + n < buffer_size THEN b + n ELSE b + n - buffer_size
  BY <1>1, <1>2, <1>3
<1> HIDE DEF after, side, mirror, new
<1>8. new \in RingType(Byte \cup {NoByte})
  BY <1>4, <1>5, <1>6 DEF SoundRing, RingType
<1>9. /\ new.read_index = after /\ new.write_index = e /\ new.buffer = rb.buffer
      /\ new.read_mirror = mirror /\ new.write_mirror = rb.write_mirror
  BY <1>5 DEF SoundRing, RingType
<1>10. new \in SoundRing
  BY <1>4, <1>6, <1>8, <1>9 DEF SoundRing, Mirrored, Ordered
<1>11. rt_ringbuffer_data_len(new) = old - n
  <2>1. rt_ringbuffer_data_len(new)
          = Span(new.read_index, new.write_index, new.read_mirror = new.write_mirror)
    BY <1>10, RingFacts
  <2> QED BY <1>4, <1>6, <1>9, <2>1
<1> HIDE DEF old, b, e
<1>12. ASSUME NEW i \in 1 .. old - n PROVE Bytes(new)[i] = Bytes(rb)[n + i]
  <2> DEFINE j == n + i
  <2>1. /\ i - 1 \in 0 .. buffer_size /\ j - 1 \in 0 .. buffer_size /\ j \in 1 .. old
        /\ after + (i - 1) = after + i - 1 /\ b + (j - 1) = b + j - 1
    BY <1>1, <1>2, <1>3, <1>4
  <2>2. (after + (i - 1)) % buffer_size
           = IF after + (i - 1) < buffer_size THEN after + (i - 1)
             ELSE after + (i - 1) - buffer_size
    BY <1>4, <2>1, PlaceMod
  <2>3. (b + (j - 1)) % buffer_size
           = IF b + (j - 1) < buffer_size THEN b + (j - 1) ELSE b + (j - 1) - buffer_size
    BY <1>2, <2>1, PlaceMod
  <2> DEFINE p == (after + (i - 1)) % buffer_size
             p1 == (b + (j - 1)) % buffer_size
  <2>4. Bytes(new)[i] = rb.buffer[p]
    BY <1>9, <1>10, <1>11, <2>1, BytesFacts
  <2>5. Bytes(rb)[j] = rb.buffer[p1]
    BY <2>1, BytesFacts DEF old, b
  <2> HIDE DEF p, p1
  <2>6. p = p1
    <3>1. p = IF after + (i - 1) < buffer_size THEN after + (i - 1)
              ELSE after + (i - 1) - buffer_size
      BY <2>2 DEF p
    <3>2. p1 = IF b + (j - 1) < buffer_size THEN b + (j - 1)
               ELSE b + (j - 1) - buffer_size
      BY <2>3 DEF p1
    <3>3. j - 1 = n + (i - 1) /\ i - 1 < buffer_size - n /\ i - 1 \in Nat
      BY <1>1, <1>2, <1>3
    <3> QED BY <1>1, <1>2, <1>3, <1>7, <3>1, <3>2, <3>3
  <2> QED BY <2>4, <2>5, <2>6
<1> QED BY <1>3, <1>10, <1>11, <1>12 DEF new, n, old

-----------------------------------------------------------------------------
(* A pipe is a byte stream *)

ReaderLabels == {"read", "read_woken"}
WriterLabels == {"write", "write_woken"}

PipeTypes ==
  /\ pc \in [Thread -> PipeLabel]
  /\ ringbuffer \in SoundRing
  /\ request \in [Thread -> Requests \cup Sizes \cup {NoRequest}]
  /\ \A t \in Thread : /\ pc[t] \in ReaderLabels => request[t] \in Sizes
                       /\ pc[t] \in WriterLabels => request[t] \in Requests

StreamStep == [PipeStream!StreamNext]_(PipeStream!bytevars)

LEMMA JoinedItems ==
  ASSUME NEW V, NEW W, NEW s \in Seq(V), NEW u \in Seq(W)
  PROVE  /\ s \o u \in Seq(V \cup W) /\ Len(s \o u) = Len(s) + Len(u)
         /\ \A i \in 1 .. Len(s) : (s \o u)[i] = s[i]
         /\ \A i \in 1 .. Len(u) : (s \o u)[Len(s) + i] = u[i]
OBVIOUS

LEMMA RestItems ==
  ASSUME NEW V, NEW s \in Seq(V), NEW n \in 0 .. Len(s)
  PROVE  LET rest == SubSeq(s, n + 1, Len(s))
         IN  /\ rest \in Seq(V) /\ Len(rest) = Len(s) - n
             /\ \A i \in 1 .. Len(s) - n : rest[i] = s[n + i]
<1> DEFINE rest == SubSeq(s, n + 1, Len(s))
           m == Len(s) - n
<1>1. m \in Nat /\ Len(s) \in Nat
  OBVIOUS
<1>2. rest = [i \in 1 .. m |-> s[n + i]]
  <2>1. rest = [i \in 1 .. (Len(s) - (n + 1) + 1) |-> s[i + (n + 1) - 1]]
    OBVIOUS
  <2>2. /\ Len(s) - (n + 1) + 1 = m
        /\ \A i \in 1 .. m : i + (n + 1) - 1 = n + i
    BY <1>1
  <2> QED BY <2>1, <2>2
<1>3. \A i \in 1 .. m : n + i \in 1 .. Len(s)
  BY <1>1
<1>4. rest \in [1 .. m -> V]
  <2>1. \A i \in 1 .. m : s[n + i] \in V
    BY <1>3
  <2> HIDE DEF m
  <2> QED BY <1>2, <2>1
<1> QED BY <1>1, <1>2, <1>4

LEMMA WriteStreams ==
  ASSUME ringbuffer \in SoundRing, NEW bytes \in Requests,
         ringbuffer' = rt_ringbuffer_put(ringbuffer, bytes), UNCHANGED bytes_read
  PROVE  ringbuffer' \in SoundRing /\ StreamStep
<1> DEFINE rb == ringbuffer
           old == rt_ringbuffer_data_len(rb)
           n == AtMost(Len(bytes), rt_ringbuffer_space_len(rb))
           all == Bytes(rb) \o bytes
           kept == IF Len(all) < buffer_size THEN Len(all) ELSE buffer_size
<1>1. /\ ringbuffer' \in SoundRing /\ n \in 0 .. Len(bytes)
      /\ rt_ringbuffer_data_len(ringbuffer') = old + n
      /\ \A i \in 1 .. old : Bytes(ringbuffer')[i] = Bytes(rb)[i]
      /\ \A i \in 1 .. n : Bytes(ringbuffer')[old + i] = bytes[i]
  BY RingPut
<1>2. /\ Bytes(rb) \in Seq(Byte \cup {NoByte}) /\ Len(Bytes(rb)) = old
      /\ Bytes(ringbuffer') \in Seq(Byte \cup {NoByte})
      /\ Len(Bytes(ringbuffer')) = old + n
  BY <1>1, BytesFacts
<1>3. Len(bytes) \in Nat \ {0} /\ bytes \in Seq(Byte) /\ old \in 0 .. buffer_size
      /\ buffer_size \in Nat
  BY RequestLength, RingFacts, PipeType
<1>4. n = IF Len(bytes) < buffer_size - old THEN Len(bytes) ELSE buffer_size - old
  BY <1>3 DEF AtMost, rt_ringbuffer_space_len
<1> HIDE DEF n, old
<1>5. all \in Seq(Byte \cup {NoByte}) /\ Len(all) = old + Len(bytes)
  BY <1>2, <1>3
<1>6. kept = old + n /\ kept \in 0 .. Len(all)
  BY <1>1, <1>3, <1>4, <1>5
<1>7. SubSeq(all, 1, kept) \in Seq(Byte \cup {NoByte})
      /\ Len(SubSeq(all, 1, kept)) = kept
      /\ \A i \in 1 .. kept : SubSeq(all, 1, kept)[i] = all[i]
  BY <1>5, <1>6
<1>8. ASSUME NEW i \in 1 .. old + n
      PROVE  all[i] = Bytes(ringbuffer')[i]
  <2>1. /\ \A j \in 1 .. old : all[j] = Bytes(rb)[j]
        /\ \A j \in 1 .. Len(bytes) : all[old + j] = bytes[j]
    BY <1>2, <1>3, JoinedItems
  <2> HIDE DEF all
  <2>2. CASE i \in 1 .. old
    BY <1>1, <2>1, <2>2
  <2>3. CASE i \notin 1 .. old
    <3>1. /\ i - old \in 1 .. n /\ i - old \in 1 .. Len(bytes)
          /\ old + (i - old) = i
      BY <1>1, <1>3, <2>3
    <3>2. all[old + (i - old)] = bytes[i - old]
      BY <2>1, <3>1
    <3>3. Bytes(ringbuffer')[old + (i - old)] = bytes[i - old]
      BY <1>1, <3>1
    <3> QED BY <3>1, <3>2, <3>3
  <2> QED BY <2>2, <2>3
<1> DEFINE sub == SubSeq(all, 1, kept)
           bytes1 == Bytes(ringbuffer')
<1>9. bytes1 = sub
  <2>1. \A i \in 1 .. old + n : sub[i] = bytes1[i]
    BY <1>6, <1>7, <1>8
  <2>2. /\ sub \in Seq(Byte \cup {NoByte}) /\ Len(sub) = old + n
        /\ bytes1 \in Seq(Byte \cup {NoByte}) /\ Len(bytes1) = old + n
    BY <1>2, <1>6, <1>7
  <2> HIDE DEF sub, bytes1
  <2> QED BY <2>1, <2>2
<1>10. CASE old < buffer_size
  <2>1. PipeStream!StreamWrite(bytes)
    BY <1>2, <1>9, <1>10 DEF PipeStream!StreamWrite, old
  <2> QED BY <1>1, <2>1 DEF StreamStep, PipeStream!StreamNext
<1>11. CASE old = buffer_size
  <2>1. n = 0
    BY <1>3, <1>4, <1>11
  <2>2. Bytes(ringbuffer)' = Bytes(ringbuffer)
    BY <1>1, <1>2, <1>3, <2>1
  <2> QED BY <1>1, <2>2 DEF StreamStep, PipeStream!bytevars
<1> QED BY <1>3, <1>10, <1>11

LEMMA ReadStreams ==
  ASSUME ringbuffer \in SoundRing, NEW size1 \in Sizes, MoveOut(size1)
  PROVE  ringbuffer' \in SoundRing /\ StreamStep
<1> DEFINE rb == ringbuffer
           old == rt_ringbuffer_data_len(rb)
           n == AtMost(size1, old)
           rest == SubSeq(Bytes(rb), n + 1, Len(Bytes(rb)))
           bytes1 == Bytes(ringbuffer')
<1>1. /\ ringbuffer' \in SoundRing /\ n \in 0 .. old /\ (n = 0 <=> old = 0)
      /\ rt_ringbuffer_data_len(ringbuffer') = old - n
      /\ \A i \in 1 .. old - n : bytes1[i] = Bytes(rb)[n + i]
  BY RingGet DEF MoveOut
<1>2. /\ Bytes(rb) \in Seq(Byte \cup {NoByte}) /\ Len(Bytes(rb)) = old
      /\ bytes1 \in Seq(Byte \cup {NoByte}) /\ Len(bytes1) = old - n
  BY <1>1, BytesFacts
<1>3. old \in Nat /\ old > 0 /\ bytes_read' = SubSeq(Bytes(rb), 1, n)
  BY RingFacts DEF MoveOut, Got
<1> HIDE DEF n, old
<1>4. /\ rest \in Seq(Byte \cup {NoByte}) /\ Len(rest) = old - n
      /\ \A i \in 1 .. old - n : rest[i] = Bytes(rb)[n + i]
  BY <1>1, <1>2, <1>3, RestItems
<1>5. bytes1 = rest
  <2> HIDE DEF bytes1, rest
  <2> QED BY <1>1, <1>2, <1>4
<1>6. n \in 1 .. Len(Bytes(rb)) /\ Bytes(rb) # << >>
  BY <1>1, <1>2, <1>3
<1>7. PipeStream!StreamRead(n)
  BY <1>3, <1>5, <1>6 DEF PipeStream!StreamRead
<1> QED BY <1>1, <1>6, <1>7 DEF StreamStep, PipeStream!StreamNext

LEMMA PipeTypesKept ==
  ASSUME PipeTypes, ringbuffer' \in SoundRing, self \in Thread,
         NEW label \in PipeLabel, NEW r \in Requests \cup Sizes \cup {NoRequest},
         label \in ReaderLabels => r \in Sizes,
         label \in WriterLabels => r \in Requests,
         pc' = [pc EXCEPT ![self] = label],
         request' = [request EXCEPT ![self] = r]
  PROVE  PipeTypes'
<1>1. /\ pc' \in [Thread -> PipeLabel]
      /\ request' \in [Thread -> Requests \cup Sizes \cup {NoRequest}]
      /\ \A t \in Thread : /\ pc'[t] = IF t = self THEN label ELSE pc[t]
                           /\ request'[t] = IF t = self THEN r ELSE request[t]
  BY DEF PipeTypes
<1>2. ASSUME NEW t \in Thread
      PROVE  /\ pc'[t] \in ReaderLabels => request'[t] \in Sizes
             /\ pc'[t] \in WriterLabels => request'[t] \in Requests
  BY <1>1 DEF PipeTypes
<1> QED BY <1>1, <1>2 DEF PipeTypes

LEMMA CpuStepLabels ==
  ASSUME NEW L, pc \in [Thread -> L], CpuStep
  PROVE  /\ pc' \in [Thread -> L \cup {"sched"}]
         /\ \A t \in Thread : pc'[t] = pc[t] \/ pc'[t] = "sched"
<1>1. CASE Delay
  BY <1>1 DEF Delay, At, Goto
<1>2. CASE UNCHANGED pc
  BY <1>2
<1> QED BY <1>1, <1>2 DEF CpuStep, Tick, Startup, TimerCheck

LEMMA PipeWaitStreams ==
  ASSUME PipeTypes, self \in Thread, NEW h, NEW r, NEW label,
         \/ label = "read" /\ r \in Sizes
         \/ label = "write" /\ r \in Requests,
         PipeWait(h, r, label)
  PROVE  StreamStep /\ PipeTypes'
<1>1. StreamStep /\ ringbuffer' \in SoundRing
  BY DEF PipeWait, StreamStep, PipeStream!bytevars, PipeTypes
<1>2. /\ pc' = [pc EXCEPT ![self] = label] /\ request' = [request EXCEPT ![self] = r]
      /\ label \in PipeLabel /\ r \in Requests \cup Sizes \cup {NoRequest}
      /\ label \in ReaderLabels => r \in Sizes
      /\ label \in WriterLabels => r \in Requests
  BY DEF PipeWait, Goto, PipeLabel, ReaderLabels, WriterLabels
<1> QED BY <1>1, <1>2, PipeTypesKept

LEMMA PipeReturnStreams ==
  ASSUME PipeTypes, self \in Thread, PipeReturn, ringbuffer' \in SoundRing
  PROVE  PipeTypes'
<1>1. /\ pc' = [pc EXCEPT ![self] = "run"]
      /\ request' = [request EXCEPT ![self] = NoRequest]
      /\ "run" \in PipeLabel /\ NoRequest \in Requests \cup Sizes \cup {NoRequest}
      /\ "run" \notin ReaderLabels /\ "run" \notin WriterLabels
  BY DEF PipeReturn, Goto, PipeLabel, ReaderLabels, WriterLabels
<1> QED BY <1>1, PipeTypesKept

LEMMA TryReadStreams ==
  ASSUME PipeTypes, self \in Thread, NEW size1 \in Sizes, TryRead(size1)
  PROVE  StreamStep /\ PipeTypes'
<1>1. CASE MoveOut(size1) /\ PipeReturn
  <2>1. StreamStep /\ ringbuffer' \in SoundRing
    BY <1>1, ReadStreams DEF PipeTypes
  <2> QED BY <1>1, <2>1, PipeReturnStreams
<1>2. CASE PipeWait(read_list, size1, "read")
  BY <1>2, PipeWaitStreams
<1> QED BY <1>1, <1>2 DEF TryRead

LEMMA TryWriteStreams ==
  ASSUME PipeTypes, self \in Thread, NEW bytes \in Requests, TryWrite(bytes)
  PROVE  StreamStep /\ PipeTypes'
<1>1. CASE MoveIn(bytes) /\ PipeReturn
  <2>1. StreamStep /\ ringbuffer' \in SoundRing
    BY <1>1, WriteStreams DEF PipeTypes, MoveIn
  <2> QED BY <1>1, <2>1, PipeReturnStreams
<1>2. CASE PipeWait(write_list, bytes, "write")
  BY <1>2, PipeWaitStreams
<1> QED BY <1>1, <1>2 DEF TryWrite

LEMMA PipeStepStreams ==
  PipeTypes /\ [PipeNext]_<<k, pc, pipevars>> => StreamStep /\ PipeTypes'
<1> SUFFICES ASSUME PipeTypes, [PipeNext]_<<k, pc, pipevars>>
             PROVE  StreamStep /\ PipeTypes'
  OBVIOUS
<1>1. ASSUME UNCHANGED pipevars, pc' \in [Thread -> PipeLabel],
             \A t \in Thread : \/ pc'[t] = pc[t] \/ pc'[t] \in {"run", "sched"}
                               \/ pc[t] = "read" /\ pc'[t] = "read_woken"
                               \/ pc[t] = "write" /\ pc'[t] = "write_woken"
      PROVE  StreamStep /\ PipeTypes'
  <2>1. StreamStep
    BY <1>1 DEF pipevars, StreamStep, PipeStream!bytevars
  <2>2. ASSUME NEW t \in Thread
        PROVE  /\ pc'[t] \in ReaderLabels => request'[t] \in Sizes
               /\ pc'[t] \in WriterLabels => request'[t] \in Requests
    BY <1>1 DEF PipeTypes, pipevars, ReaderLabels, WriterLabels
  <2> QED BY <1>1, <2>1, <2>2 DEF PipeTypes, pipevars
<1>2. CASE CpuStep /\ UNCHANGED pipevars
  <2>1. PipeLabel \cup {"sched"} = PipeLabel
    BY DEF PipeLabel
  <2>2. /\ pc' \in [Thread -> PipeLabel]
        /\ \A t \in Thread : pc'[t] = pc[t] \/ pc'[t] = "sched"
    BY <1>2, <2>1, CpuStepLabels DEF PipeTypes
  <2> QED BY <1>1, <1>2, <2>2
<1>3. ASSUME NEW size1 \in Sizes, Read(size1) \/ ReadNonBlocking(size1)
      PROVE  StreamStep /\ PipeTypes'
  <2>1. CASE Read(size1)
    BY <2>1, TryReadStreams DEF Read, At
  <2>2. CASE ReadNonBlocking(size1)
    <3>1. StreamStep /\ ringbuffer' \in SoundRing
      BY <2>2, ReadStreams DEF ReadNonBlocking, PipeTypes
    <3> QED BY <2>2, <3>1 DEF PipeTypes, ReadNonBlocking
  <2> QED BY <1>3, <2>1, <2>2
<1>4. ASSUME NEW bytes \in Requests, Write(bytes) \/ WriteNonBlocking(bytes)
      PROVE  StreamStep /\ PipeTypes'
  <2>1. CASE Write(bytes)
    BY <2>1, TryWriteStreams DEF Write, At
  <2>2. CASE WriteNonBlocking(bytes)
    <3>1. StreamStep /\ ringbuffer' \in SoundRing
      BY <2>2, WriteStreams DEF WriteNonBlocking, PipeTypes
    <3> QED BY <2>2, <3>1 DEF PipeTypes, WriteNonBlocking
  <2> QED BY <1>4, <2>1, <2>2
<1>5. CASE PipeSchedule
  <2>1. /\ UNCHANGED pipevars /\ self \in Thread
        /\ \/ pc[self] = "read" /\ pc' = [pc EXCEPT ![self] = "read_woken"]
           \/ pc[self] = "write" /\ pc' = [pc EXCEPT ![self] = "write_woken"]
           \/ pc' = [pc EXCEPT ![self] = "run"]
    BY <1>5 DEF PipeSchedule, ScheduleAt, At, Goto
  <2>2. /\ pc' \in [Thread -> PipeLabel]
        /\ \A t \in Thread : \/ pc'[t] = pc[t] \/ pc'[t] \in {"run", "sched"}
                             \/ pc[t] = "read" /\ pc'[t] = "read_woken"
                             \/ pc[t] = "write" /\ pc'[t] = "write_woken"
    BY <2>1 DEF PipeTypes, PipeLabel
  <2> QED BY <1>1, <2>1, <2>2
<1>6. CASE ReadAgain
  <2>1. self \in Thread /\ request[self] \in Sizes /\ TryRead(request[self])
    BY <1>6 DEF ReadAgain, At, PipeTypes, ReaderLabels
  <2> QED BY <2>1, TryReadStreams
<1>7. CASE WriteAgain
  <2>1. self \in Thread /\ request[self] \in Requests /\ TryWrite(request[self])
    BY <1>7 DEF WriteAgain, At, PipeTypes, WriterLabels
  <2> QED BY <2>1, TryWriteStreams
<1>8. CASE UNCHANGED <<k, pc, pipevars>>
  BY <1>1, <1>8 DEF PipeTypes
<1> QED BY <1>2, <1>3, <1>4, <1>5, <1>6, <1>7, <1>8 DEF PipeNext

LEMMA PipeInitStreams == PipeInit => PipeTypes /\ PipeStream!StreamInit
<1> SUFFICES ASSUME PipeInit PROVE PipeTypes /\ PipeStream!StreamInit
  OBVIOUS
<1>1. buffer_size \in Nat \ {0}
  BY PipeType
<1>2. ringbuffer = rt_ringbuffer_init(NoByte)
  BY DEF PipeInit
<1>3. rt_ringbuffer_init(NoByte) \in RingType(Byte \cup {NoByte})
  BY <1>1 DEF RingType, rt_ringbuffer_init
<1>4. /\ ringbuffer.read_index = 0 /\ ringbuffer.write_index = 0
      /\ ringbuffer.read_mirror = FALSE /\ ringbuffer.write_mirror = FALSE
  BY <1>2 DEF rt_ringbuffer_init
<1>5. ringbuffer \in SoundRing
  BY <1>2, <1>3, <1>4 DEF SoundRing, Mirrored
<1>6. \A t \in Thread : pc[t] = "run"
  BY DEF PipeInit, IpcInit
<1>7. PipeTypes
  BY <1>5, <1>6 DEF PipeInit, IpcInit, PipeTypes, PipeLabel, ReaderLabels, WriterLabels
<1>8. Bytes(ringbuffer) = << >>
  <2>1. rt_ringbuffer_data_len(ringbuffer) = 0
    BY <1>4 DEF rt_ringbuffer_data_len
  <2> DEFINE s == Bytes(ringbuffer)
  <2>2. s \in Seq(Byte \cup {NoByte}) /\ Len(s) = 0
    BY <1>5, <2>1, BytesFacts
  <2>3. s = << >>
    <3> HIDE DEF s
    <3> QED BY <2>2
  <2> QED BY <2>3
<1> QED BY <1>7, <1>8 DEF PipeInit, PipeStream!StreamInit

(* What is read from a pipe is what was written, each byte once and in      *)
(* order, although the copies wrap at the buffer's end (rt_ringbuffer_put,  *)
(* rt_ringbuffer_get), for buffers, reads and writes of any size, blocking  *)
(* or not.                                                                  *)
THEOREM PipeRefinement == PipeSpec => ImplementsByteStream
<1>1. PipeTypes /\ [PipeNext]_<<k, pc, pipevars>>
        => PipeTypes' /\ [PipeStream!StreamNext]_(PipeStream!bytevars)
  BY PipeStepStreams DEF StreamStep
<1> QED BY <1>1, PipeInitStreams, PTL
        DEF PipeSpec, ImplementsByteStream, PipeStream!StreamSpec

-----------------------------------------------------------------------------
(* A pipe does not come to a standstill *)

Readers == Nodes(k, read_list)
Writers == Nodes(k, write_list)
AwakeReaders == Awake(ReaderLabels)
AwakeWriters == Awake(WriterLabels)
Unread == rt_ringbuffer_data_len(ringbuffer)

\* Who waits is in a call of its list's kind, and waits for ever.
PipeSound ==
  /\ \A t \in Readers : pc[t] \in ReaderLabels /\ ~k.timer[t]
  /\ \A t \in Writers : pc[t] \in WriterLabels /\ ~k.timer[t]

\* NoStandstill, of sets of threads and the number of unread bytes.
Moving ==
  /\ Readers # {} /\ Unread = buffer_size => AwakeReaders # {}
  /\ Writers # {} /\ Unread = 0 => AwakeWriters # {}
  /\ Readers # {} /\ Writers # {} => AwakeReaders \cup AwakeWriters # {}

PipeInv == CpuInv /\ PipeTypes /\ PipeSound /\ Moving

LEMMA PipeFacts ==
  ASSUME PipeInv
  PROVE  /\ CpuInv /\ pc \in [Thread -> PipeLabel] /\ PipeTypes /\ PipeSound
         /\ read_list \in Queue /\ write_list \in Queue /\ read_list # write_list
         /\ Readers \subseteq Thread /\ Writers \subseteq Thread
         /\ Readers = {} <=> k.list[read_list] = << >>
         /\ Writers = {} <=> k.list[write_list] = << >>
         /\ \A t \in Readers \cup Writers : k.stat[t] = "suspend"
         /\ Readers \cap Writers = {}
         /\ k.stat \in [Thread -> Stat] /\ k.timer \in [Thread -> BOOLEAN]
         /\ Unread \in 0 .. buffer_size /\ buffer_size \in Nat \ {0}
<1>1. CpuInv /\ PipeTypes /\ PipeSound
  BY DEF PipeInv
<1>2. /\ Readers \subseteq Thread /\ Writers \subseteq Thread
      /\ Readers = {} <=> k.list[read_list] = << >>
      /\ Writers = {} <=> k.list[write_list] = << >>
      /\ \A t \in Readers \cup Writers : k.stat[t] = "suspend"
  BY <1>1, PipeType, NodesAreThreads DEF Readers, Writers
<1>3. Readers \cap Writers = {}
  BY <1>1 DEF PipeSound, ReaderLabels, WriterLabels
<1>4. Unread \in 0 .. buffer_size /\ buffer_size \in Nat \ {0}
  BY <1>1, RingFacts, PipeType DEF PipeTypes, Unread
<1>5. k.stat \in [Thread -> Stat] /\ k.timer \in [Thread -> BOOLEAN]
  BY <1>1, KernelFields DEF KernelType
<1>6. pc \in [Thread -> PipeLabel]
  BY <1>1 DEF PipeTypes
<1> QED BY <1>1, <1>2, <1>3, <1>4, <1>5, <1>6, PipeType

LEMMA MovingIsNoStandstill == PipeInv => NoStandstill
<1> SUFFICES ASSUME PipeInv PROVE NoStandstill
  OBVIOUS
<1>1. /\ AwakeReaders = Awake({"read", "read_woken"})
      /\ AwakeWriters = Awake({"write", "write_woken"})
      /\ AwakeReaders \cup AwakeWriters
           = Awake({"read", "read_woken", "write", "write_woken"})
  BY DEF AwakeReaders, AwakeWriters, Awake, ReaderLabels, WriterLabels
<1>2. Moving
  BY DEF PipeInv
<1>3. /\ rt_ringbuffer_space_len(ringbuffer) = 0 <=> Unread = buffer_size
      /\ rt_ringbuffer_data_len(ringbuffer) = 0 <=> Unread = 0
  BY PipeFacts DEF rt_ringbuffer_space_len, Unread
<1> QED BY <1>1, <1>2, <1>3, PipeFacts DEF NoStandstill, Moving

\* The CPU's own steps: nobody comes or goes, and who is awake goes on.
Unmoved ==
  /\ CpuInv' /\ pc' \in [Thread -> PipeLabel]
  /\ Readers' = Readers /\ Writers' = Writers
  /\ \A t \in Readers \cup Writers : ~k'.timer[t]
  /\ \A t \in Thread : \A labels \in {ReaderLabels, WriterLabels} :
       pc[t] \in labels => /\ pc'[t] \in labels
                           /\ k.stat[t] = "ready" => k'.stat[t] = "ready"

LEMMA UnmovedKeepsInv ==
  ASSUME PipeInv, PipeTypes', Unmoved, UNCHANGED pipevars
  PROVE  PipeInv'
<1>1. PipeSound'
  BY PipeFacts DEF Unmoved, PipeSound
<1>2. AwakeReaders \subseteq AwakeReaders' /\ AwakeWriters \subseteq AwakeWriters'
  BY DEF Unmoved, AwakeReaders, AwakeWriters, Awake
<1>3. Unread' = Unread
  BY DEF pipevars, Unread
<1>4. Moving'
  BY <1>2, <1>3 DEF Unmoved, PipeInv, Moving
<1> QED BY <1>1, <1>4 DEF PipeInv, Unmoved

LEMMA PipeCpuOutcome ==
  ASSUME PipeInv, CpuStep \/ PipeSchedule
  PROVE  Unmoved
<1> USE PipeFacts
<1>1. ASSUME CpuInv', SameWaiters(k, k'), pc' = pc \/ PipeSchedule,
             \A t \in Thread : k.stat[t] = "ready" => k'.stat[t] = "ready",
             pc' \in [Thread -> PipeLabel],
             \A t \in Thread : \A labels \in {ReaderLabels, WriterLabels} :
               pc[t] \in labels => pc'[t] \in labels
      PROVE  Unmoved
  BY <1>1 DEF Unmoved, SameWaiters, NoNewTimer, Readers, Writers, PipeSound
<1>2. CASE Delay
  <2>1. /\ CpuInv' /\ Readers' = Readers /\ Writers' = Writers
        /\ k'.stat = [k.stat EXCEPT ![self] = "suspend"]
        /\ NoNewTimer(k, k', Thread \ {self})
        /\ pc[self] = "run" /\ self \in Thread
        /\ pc' = [pc EXCEPT ![self] = "sched"]
    BY <1>2, DelayStep DEF Readers, Writers
  <2>2. \A t \in Thread : /\ t # self => pc'[t] = pc[t] /\ k'.stat[t] = k.stat[t]
                          /\ pc[t] \in ReaderLabels \cup WriterLabels => t # self
    BY <2>1 DEF ReaderLabels, WriterLabels
  <2>3. pc' \in [Thread -> PipeLabel]
    BY <2>1 DEF PipeLabel
  <2>4. \A t \in Readers \cup Writers : ~k'.timer[t]
    BY <2>1, <2>2 DEF NoNewTimer, PipeSound
  <2> QED BY <2>1, <2>2, <2>3, <2>4 DEF Unmoved
<1>3. CASE Tick
  BY <1>1, <1>3, TickStep
<1>4. ASSUME NEW u \in Thread, Startup(u) PROVE Unmoved
  <2>1. /\ CpuInv' /\ SameWaiters(k, k') /\ UNCHANGED pc
        /\ k'.stat = [k.stat EXCEPT ![u] = "ready"]
    BY <1>4, StartupStep
  <2>2. \A t \in Thread : k.stat[t] = "ready" => k'.stat[t] = "ready"
    BY <2>1
  <2> QED BY <1>1, <2>1, <2>2
<1>5. ASSUME NEW u \in Thread, TimerCheck(u) PROVE Unmoved
  <2>1. /\ CpuInv' /\ UNCHANGED pc
        /\ \A g \in Queue : Nodes(k', g) = Nodes(k, g) \ {u}
        /\ k'.stat = [k.stat EXCEPT ![u] = "ready"]
        /\ k.timer[u] /\ NoNewTimer(k, k', Thread)
    BY <1>5, TimerCheckStep
  <2>2. u \notin Readers \cup Writers
    BY <2>1 DEF PipeSound
  <2>3. Readers' = Readers /\ Writers' = Writers
    <3>1. /\ Nodes(k', read_list) = Nodes(k, read_list) \ {u}
          /\ Nodes(k', write_list) = Nodes(k, write_list) \ {u}
      BY <2>1
    <3> QED BY <2>2, <3>1 DEF Readers, Writers
  <2>4. \A t \in Thread : k.stat[t] = "ready" => k'.stat[t] = "ready"
    BY <2>1
  <2>5. \A t \in Readers \cup Writers : ~k'.timer[t]
    BY <2>1 DEF NoNewTimer, PipeSound
  <2> QED BY <2>1, <2>3, <2>4, <2>5 DEF Unmoved
<1>6. CASE PipeSchedule
  <2>1. PICK label, to : /\ ScheduleAt(label, to)
                         /\ \/ label = "read" /\ to = "read_woken"
                            \/ label = "write" /\ to = "write_woken"
                            \/ label = "sched" /\ to = "run"
    BY <1>6 DEF PipeSchedule
  <2>2. /\ CpuInv' /\ SameWaiters(k, k') /\ k'.stat = k.stat
        /\ pc[self] = label /\ self \in Thread
        /\ pc' = [pc EXCEPT ![self] = to]
    BY <2>1, ScheduleAtStep
  <2>3. pc' \in [Thread -> PipeLabel]
    BY <2>1, <2>2 DEF PipeLabel
  <2>4. \A t \in Thread : pc'[t] = IF t = self THEN to ELSE pc[t]
    BY <2>2
  <2>5. \A t \in Thread : \A labels \in {ReaderLabels, WriterLabels} :
          pc[t] \in labels => pc'[t] \in labels
    BY <2>1, <2>2, <2>4 DEF ReaderLabels, WriterLabels
  <2> QED BY <1>1, <1>6, <2>2, <2>3, <2>5
<1> QED BY <1>2, <1>3, <1>4, <1>5, <1>6 DEF CpuStep

\* One of those on h, if there is one, has been woken.
Woke(h) ==
  /\ CpuInv'
  /\ \A t \in Thread : k'.timer[t] => k.timer[t]
  /\ \A g \in {read_list, write_list} :
       /\ Nodes(k', g) \subseteq Nodes(k, g)
       /\ \A t \in Nodes(k, g) : pc'[t] = pc[t]
  /\ Nodes(k, h) # {} => \E t \in Nodes(k, h) : k'.stat[t] = "ready"

LEMMA ResumeOneWakes ==
  ASSUME PipeInv, NEW h \in {read_list, write_list}, k' = ResumeOne(h),
         \/ pc' = pc
         \/ /\ pc' = [pc EXCEPT ![self] = "run"]
            /\ self \in Thread /\ k.stat[self] = "ready"
  PROVE  Woke(h)
<1> USE PipeFacts
<1>1. \A g \in {read_list, write_list} : \A t \in Nodes(k, g) : pc'[t] = pc[t]
  <2>1. ASSUME NEW g \in {read_list, write_list}, NEW t \in Nodes(k, g)
        PROVE  pc'[t] = pc[t]
    <3>1. t \in Thread /\ k.stat[t] = "suspend"
      BY DEF Readers, Writers
    <3> QED BY <3>1
  <2> QED BY <2>1
<1>2. CASE rt_list_isempty(k.list[h])
  <2>1. k' = k
    BY <1>2 DEF ResumeOne
  <2>2. Nodes(k, h) = {}
    BY <1>2, NodesAreThreads DEF rt_list_isempty
  <2>3. CpuInv'
    <3>1. CASE pc' = pc
      BY <2>1, <3>1 DEF CpuInv
    <3>2. CASE /\ pc' = [pc EXCEPT ![self] = "run"]
               /\ self \in Thread /\ k.stat[self] = "ready"
      BY <2>1, <3>2, PcStepKeepsCpuInv
    <3> QED BY <3>1, <3>2
  <2> QED BY <1>1, <2>1, <2>2, <2>3 DEF Woke
<1>3. CASE ~rt_list_isempty(k.list[h])
  <2>1. k' = rt_schedule(rt_ipc_list_resume(k, h))
    BY <1>3 DEF ResumeOne
  <2>2. \A x \in Thread : k.stat[x] = "init" => pc'[x] = "run"
    BY KernelFields
  <2>3. CpuInv' /\ Resumed(h, "ok")
    BY <1>3, <2>1, <2>2, ResumeAndSchedule
  <2>4. PICK t \in Nodes(k, h) :
          /\ t \in Thread
          /\ \A g \in Queue : Nodes(k', g) = Nodes(k, g) \ {t}
          /\ k'.stat = [k.stat EXCEPT ![t] = "ready"]
    BY <2>3 DEF Resumed
  <2>5. \A x \in Thread : k'.timer[x] => k.timer[x]
    BY <2>3 DEF Resumed, NoNewTimer
  <2>6. k'.stat[t] = "ready"
    BY <2>4
  <2>7. \A g \in {read_list, write_list} : Nodes(k', g) \subseteq Nodes(k, g)
    BY <2>4
  <2> QED BY <1>1, <2>3, <2>5, <2>6, <2>7 DEF Woke
<1> QED BY <1>2, <1>3

LEMMA WokeKeepsSound ==
  ASSUME PipeInv, NEW h, Woke(h) PROVE PipeSound'
<1>1. /\ Readers' \subseteq Readers /\ Writers' \subseteq Writers
      /\ \A t \in Readers \cup Writers : pc'[t] = pc[t]
      /\ \A t \in Thread : k'.timer[t] => k.timer[t]
  BY DEF Woke, Readers, Writers
<1> QED BY <1>1, PipeFacts DEF PipeSound

\* Bytes have been taken and a writer woken.
LEMMA TakenKeepsInv ==
  ASSUME PipeInv, PipeTypes', NEW size1 \in Sizes, MoveOut(size1), Woke(write_list)
  PROVE  PipeInv'
<1>1. Unread' < buffer_size
  <2>1. LET n == AtMost(size1, Unread)
        IN  n \in 0 .. Unread /\ (n = 0 <=> Unread = 0) /\ Unread' = Unread - n
    BY PipeFacts, RingGet DEF MoveOut, Unread, PipeTypes
  <2>2. Unread > 0
    BY DEF MoveOut, Unread
  <2> QED BY <2>1, <2>2, PipeFacts
<1>2. Writers' # {} => AwakeWriters' # {}
  <2> SUFFICES ASSUME Writers' # {} PROVE AwakeWriters' # {}
    OBVIOUS
  <2>1. Writers # {}
    BY DEF Woke, Writers
  <2>2. PICK t \in Writers : pc'[t] = pc[t] /\ k'.stat[t] = "ready"
    BY <2>1 DEF Woke, Writers
  <2>3. t \in Thread /\ pc[t] \in WriterLabels
    BY <2>2, PipeFacts DEF PipeSound
  <2> QED BY <2>2, <2>3 DEF AwakeWriters, Awake
<1>3. Moving'
  BY <1>1, <1>2, PipeFacts DEF Moving
<1> QED BY <1>3, WokeKeepsSound DEF PipeInv, Woke

\* Bytes have been put, unless the pipe is full, and a reader woken.
LEMMA PutKeepsInv ==
  ASSUME PipeInv, PipeTypes', NEW bytes \in Requests,
         ringbuffer' = rt_ringbuffer_put(ringbuffer, bytes), Woke(read_list)
  PROVE  PipeInv'
<1>1. Unread' # 0
  <2>1. LET n == AtMost(Len(bytes), buffer_size - Unread)
        IN  Unread' = Unread + n
    BY PipeFacts, RingPut DEF Unread, PipeTypes, rt_ringbuffer_space_len
  <2>2. Len(bytes) \in Nat \ {0}
    BY RequestLength
  <2> QED BY <2>1, <2>2, PipeFacts DEF AtMost
<1>2. Readers' # {} => AwakeReaders' # {}
  <2> SUFFICES ASSUME Readers' # {} PROVE AwakeReaders' # {}
    OBVIOUS
  <2>1. Readers # {}
    BY DEF Woke, Readers
  <2>2. PICK t \in Readers : pc'[t] = pc[t] /\ k'.stat[t] = "ready"
    BY <2>1 DEF Woke, Readers
  <2>3. t \in Thread /\ pc[t] \in ReaderLabels
    BY <2>2, PipeFacts DEF PipeSound
  <2> QED BY <2>2, <2>3 DEF AwakeReaders, Awake
<1>3. Moving'
  BY <1>1, <1>2 DEF Moving
<1> QED BY <1>3, WokeKeepsSound DEF PipeInv, Woke

\* The running thread me has gone to sleep on h.
PipeSleeps(h, me, label) ==
  /\ CpuInv'
  /\ \A g \in Queue : Nodes(k', g) = IF g = h THEN Nodes(k, g) \cup {me} ELSE Nodes(k, g)
  /\ \A t \in Thread : /\ pc'[t] = IF t = me THEN label ELSE pc[t]
                       /\ t # me => k'.stat[t] = k.stat[t]
                       /\ k'.timer[t] => k.timer[t]
  /\ ~k.timer[me]

LEMMA PipeWaitSleeps ==
  ASSUME PipeInv, NEW h \in {read_list, write_list}, NEW r,
         NEW label \in {"read", "write"},
         NEW me \in Thread \ {Idle}, me = self, k.stat[me] = "ready",
         PipeWait(h, r, label)
  PROVE  PipeSleeps(h, me, label)
<1> USE PipeFacts
<1>1. k' = rt_ipc_list_suspend(k, h, me, "fifo") /\ pc' = [pc EXCEPT ![me] = label]
  BY DEF PipeWait, rt_ipc_list_suspend, Goto
<1>2. /\ KernelInv(k', {}) /\ PutToSleep(k, k', h, me)
      /\ k'.error = k.error /\ NoNewTimer(k, k', Thread)
  BY <1>1, KernelFields, ListSuspendKeepsInv
<1>3. \A t \in Thread : /\ pc'[t] = IF t = me THEN label ELSE pc[t]
                        /\ k'.stat[t] = IF t = me THEN "suspend" ELSE k.stat[t]
  BY <1>1, <1>2 DEF PutToSleep
<1>4. k'.current_thread = me /\ k'.lock_nest = 0
  BY <1>2 DEF PutToSleep, CpuInv, self
<1>5. CpuInv'
  <2>1. \A t \in Thread : /\ k'.stat[t] \in {"init", "ready", "suspend"}
                          /\ k'.stat[t] = "init" => pc'[t] = "run"
    BY <1>3 DEF CpuInv
  <2>2. pc'[k'.current_thread] \in AboutToSchedule
    BY <1>3, <1>4 DEF AboutToSchedule
  <2> QED BY <1>2, <1>4, <2>1, <2>2 DEF CpuInv
<1>6. ~k.timer[me]
  BY KernelFields DEF KernelInv, WaitersSuspended
<1> QED BY <1>2, <1>3, <1>5, <1>6 DEF PipeSleeps, PutToSleep, NoNewTimer

\* A reader goes to sleep at an empty pipe.
LEMMA ReaderSleepsKeepsInv ==
  ASSUME PipeInv, PipeTypes', NEW me \in Thread, pc[me] \in {"run", "read_woken"},
         PipeSleeps(read_list, me, "read"), Unread = 0, Unread' = Unread
  PROVE  PipeInv'
<1> USE PipeFacts
<1>1. Readers' = Readers \cup {me} /\ Writers' = Writers
  BY DEF PipeSleeps, Readers, Writers
<1>2. PipeSound'
  BY <1>1 DEF PipeSound, PipeSleeps, ReaderLabels, WriterLabels
<1>3. AwakeWriters \subseteq AwakeWriters'
  BY DEF PipeSleeps, AwakeWriters, Awake, WriterLabels
<1>4. Writers # {} => AwakeWriters # {}
  BY DEF PipeInv, Moving
<1>5. Moving'
  BY <1>1, <1>3, <1>4 DEF Moving
<1> QED BY <1>2, <1>5 DEF PipeInv, PipeSleeps

\* A writer goes to sleep at a full pipe.
LEMMA WriterSleepsKeepsInv ==
  ASSUME PipeInv, PipeTypes', NEW me \in Thread, pc[me] \in {"run", "write_woken"},
         PipeSleeps(write_list, me, "write"), Unread = buffer_size, Unread' = Unread
  PROVE  PipeInv'
<1> USE PipeFacts
<1>1. Writers' = Writers \cup {me} /\ Readers' = Readers
  BY DEF PipeSleeps, Readers, Writers
<1>2. PipeSound'
  BY <1>1 DEF PipeSound, PipeSleeps, ReaderLabels, WriterLabels
<1>3. AwakeReaders \subseteq AwakeReaders'
  BY DEF PipeSleeps, AwakeReaders, Awake, ReaderLabels
<1>4. Readers # {} => AwakeReaders # {}
  BY DEF PipeInv, Moving
<1>5. Moving'
  BY <1>1, <1>3, <1>4 DEF Moving
<1> QED BY <1>2, <1>5 DEF PipeInv, PipeSleeps

LEMMA PipeRunner ==
  ASSUME PipeInv, NEW label \in {"run", "read_woken", "write_woken"}, At(label)
  PROVE  self \in Thread \ {Idle} /\ k.stat[self] = "ready" /\ pc[self] = label
<1>1. label \notin AboutToSchedule
  BY DEF AboutToSchedule
<1> QED BY <1>1, PipeFacts, RunnerIsReady

LEMMA TryReadKeepsInv ==
  ASSUME PipeInv, PipeTypes', NEW size1 \in Sizes, TryRead(size1),
         At("run") \/ At("read_woken")
  PROVE  PipeInv'
<1>1. /\ self \in Thread \ {Idle} /\ k.stat[self] = "ready"
      /\ pc[self] \in {"run", "read_woken"}
  BY PipeRunner
<1>2. CASE MoveOut(size1) /\ PipeReturn
  <2>1. k' = ResumeOne(write_list) /\ pc' = [pc EXCEPT ![self] = "run"]
    BY <1>2 DEF MoveOut, PipeReturn, Goto
  <2>2. Woke(write_list)
    BY <1>1, <2>1, ResumeOneWakes
  <2> QED BY <1>2, <2>2, TakenKeepsInv
<1>3. CASE Unread = 0 /\ PipeWait(read_list, size1, "read")
  <2>1. PICK me \in Thread \ {Idle} : me = self
    BY <1>1
  <2>2. PipeSleeps(read_list, me, "read")
    BY <1>1, <1>3, <2>1, PipeWaitSleeps
  <2>3. Unread' = Unread
    BY <1>3 DEF PipeWait, Unread
  <2> QED BY <1>1, <1>3, <2>1, <2>2, <2>3, ReaderSleepsKeepsInv
<1> QED BY <1>2, <1>3 DEF TryRead, Unread

LEMMA TryWriteKeepsInv ==
  ASSUME PipeInv, PipeTypes', NEW bytes \in Requests, TryWrite(bytes),
         At("run") \/ At("write_woken")
  PROVE  PipeInv'
<1>1. /\ self \in Thread \ {Idle} /\ k.stat[self] = "ready"
      /\ pc[self] \in {"run", "write_woken"}
  BY PipeRunner
<1>2. CASE MoveIn(bytes) /\ PipeReturn
  <2>1. k' = ResumeOne(read_list) /\ pc' = [pc EXCEPT ![self] = "run"]
    BY <1>2 DEF MoveIn, PipeReturn, Goto
  <2>2. Woke(read_list)
    BY <1>1, <2>1, ResumeOneWakes
  <2> QED BY <1>2, <2>2, PutKeepsInv DEF MoveIn
<1>3. CASE rt_ringbuffer_space_len(ringbuffer) = 0 /\ PipeWait(write_list, bytes, "write")
  <2>1. PICK me \in Thread \ {Idle} : me = self
    BY <1>1
  <2>2. PipeSleeps(write_list, me, "write")
    BY <1>1, <1>3, <2>1, PipeWaitSleeps
  <2>3. Unread' = Unread
    BY <1>3 DEF PipeWait, Unread
  <2>4. Unread = buffer_size
    BY <1>3, PipeFacts DEF rt_ringbuffer_space_len, Unread
  <2> QED BY <1>1, <2>1, <2>2, <2>3, <2>4, WriterSleepsKeepsInv
<1> QED BY <1>2, <1>3 DEF TryWrite

LEMMA PipeStepInv == PipeInv /\ [PipeNext]_<<k, pc, pipevars>> => PipeInv'
<1> SUFFICES ASSUME PipeInv, [PipeNext]_<<k, pc, pipevars>> PROVE PipeInv'
  OBVIOUS
<1>1. PipeTypes'
  BY PipeFacts, PipeStepStreams
<1>2. CASE (CpuStep /\ UNCHANGED pipevars) \/ PipeSchedule
  <2>1. UNCHANGED pipevars
    BY <1>2 DEF PipeSchedule
  <2> QED BY <1>1, <1>2, <2>1, PipeCpuOutcome, UnmovedKeepsInv
<1>3. ASSUME NEW size1 \in Sizes, Read(size1) PROVE PipeInv'
  BY <1>1, <1>3, TryReadKeepsInv DEF Read
<1>4. ASSUME NEW size1 \in Sizes, ReadNonBlocking(size1) PROVE PipeInv'
  <2>1. MoveOut(size1) /\ pc' = pc /\ k' = ResumeOne(write_list)
    BY <1>4 DEF ReadNonBlocking, MoveOut
  <2> QED BY <1>1, <2>1, ResumeOneWakes, TakenKeepsInv
<1>5. ASSUME NEW bytes \in Requests, Write(bytes) PROVE PipeInv'
  BY <1>1, <1>5, TryWriteKeepsInv DEF Write
<1>6. ASSUME NEW bytes \in Requests, WriteNonBlocking(bytes) PROVE PipeInv'
  <2>1. /\ ringbuffer' = rt_ringbuffer_put(ringbuffer, bytes)
        /\ pc' = pc /\ k' = ResumeOne(read_list)
    BY <1>6 DEF WriteNonBlocking
  <2> QED BY <1>1, <2>1, ResumeOneWakes, PutKeepsInv
<1>7. CASE ReadAgain
  <2>1. TryRead(request[self]) /\ At("read_woken") /\ request[self] \in Sizes
    BY <1>7, PipeFacts DEF ReadAgain, At, PipeTypes, ReaderLabels
  <2> QED BY <1>1, <2>1, TryReadKeepsInv
<1>8. CASE WriteAgain
  <2>1. TryWrite(request[self]) /\ At("write_woken") /\ request[self] \in Requests
    BY <1>8, PipeFacts DEF WriteAgain, At, PipeTypes, WriterLabels
  <2> QED BY <1>1, <2>1, TryWriteKeepsInv
<1>9. CASE UNCHANGED <<k, pc, pipevars>>
  BY <1>9 DEF PipeInv, CpuInv, PipeTypes, PipeSound, Moving, Readers, Writers, Unread,
              AwakeReaders, AwakeWriters, Awake, pipevars, self
<1> QED BY <1>2, <1>3, <1>4, <1>5, <1>6, <1>7, <1>8, <1>9 DEF PipeNext

LEMMA PipeInitInv == PipeInit => PipeInv
<1> SUFFICES ASSUME PipeInit PROVE PipeInv
  OBVIOUS
<1>1. CpuInv /\ \A h \in Queue : Nodes(k, h) = {}
  BY IpcInitEstablishesInv DEF PipeInit
<1>2. Readers = {} /\ Writers = {}
  BY <1>1, PipeType DEF Readers, Writers
<1> QED BY <1>1, <1>2, PipeInitStreams DEF PipeInv, PipeSound, Moving

(* One call wakes one thread, and the others sleep on, a reader also over    *)
(* bytes and a writer over room.  All the same no reader sleeps at a full    *)
(* pipe and no writer at an empty one without one of its kind awake, and     *)
(* never both without one awake in its call (rt_pipe_read, rt_pipe_write and *)
(* their resume functions), for any threads, priorities, sizes and flags.    *)
THEOREM PipeNeverStandsStill == PipeSpec => []NoStandstill
<1>1. PipeSpec => []PipeInv
  BY PipeInitInv, PipeStepInv, PTL DEF PipeSpec
<1> QED BY <1>1, MovingIsNoStandstill, PTL

-----------------------------------------------------------------------------
(* The lists of messages *)

\* s is the list of messages from m on, as the pointers nx link them.
Chained(nx, m, s) ==
  /\ s \in Seq(Msg) /\ NoRepeat(s)
  /\ m = IF s = << >> THEN Null ELSE s[1]
  /\ \A i \in 1 .. Len(s) : nx[s[i]] = IF i = Len(s) THEN Null ELSE s[i + 1]

(* Chain follows the pointers, and finds the list. *)
LEMMA ChainIsFound ==
  ASSUME NEW m, NEW s, Chained(next, m, s)
  PROVE  Chain(m) = s
<1> DEFINE N == Cardinality(Msg)
           Walk(f) == [i \in 1 .. N + 1 |->
                         IF i = 1 THEN m
                         ELSE IF f[i - 1] = Null THEN Null ELSE next[f[i - 1]]]
           nth == CHOOSE f : f = Walk(f)
           walk == [i \in 1 .. N + 1 |-> IF i <= Len(s) THEN s[i] ELSE Null]
<1>1. Chain(m) = SubSeq(nth, 1, Cardinality({i \in DOMAIN nth : nth[i] # Null}))
  BY DEF Chain
<1>2. N \in Nat /\ s \in Seq(Msg) /\ Len(s) \in 0 .. N
  <2>1. s \in Seq(Msg) /\ NoRepeat(s)
    BY DEF Chained
  <2>2. /\ Cardinality(ToSet(s)) = Len(s) /\ ToSet(s) \subseteq Msg
        /\ Len(s) \in Nat
    BY <2>1, LengthIsCardinality, NodesOfList
  <2>3. Cardinality(ToSet(s)) <= N /\ N \in Nat
    BY <2>2, MqType, FS_Subset, FS_CardinalityType
  <2> HIDE DEF N
  <2> QED BY <2>1, <2>2, <2>3
<1> HIDE DEF N
<1>3. \A i \in 1 .. Len(s) : s[i] \in Msg /\ s[i] # Null
  BY <1>2, MqType
<1>4. walk = Walk(walk)
  <2>1. ASSUME NEW i \in 1 .. N + 1
        PROVE  walk[i] = IF i = 1 THEN m
                         ELSE IF walk[i - 1] = Null THEN Null ELSE next[walk[i - 1]]
    <3>1. CASE i = 1
      <4>1. s = << >> <=> Len(s) = 0
        BY <1>2
      <4> QED BY <1>2, <3>1, <4>1 DEF Chained
    <3>2. CASE i # 1
      <4>1. i - 1 \in 1 .. N + 1 /\ (i - 1) + 1 = i
        BY <1>2, <3>2
      <4>2. walk[i - 1] = IF i - 1 <= Len(s) THEN s[i - 1] ELSE Null
        BY <4>1
      <4>3. CASE i - 1 <= Len(s)
        <5>1. i - 1 \in 1 .. Len(s)
          BY <1>2, <3>2, <4>1, <4>3
        <5>2. next[s[i - 1]] = IF i - 1 = Len(s) THEN Null ELSE s[i]
          BY <4>1, <5>1 DEF Chained
        <5>3. i <= Len(s) <=> i - 1 # Len(s)
          BY <1>2, <5>1
        <5> QED BY <1>3, <3>2, <4>2, <4>3, <5>1, <5>2, <5>3
      <4>4. CASE ~(i - 1 <= Len(s))
        <5>1. ~(i <= Len(s))
          BY <1>2, <4>4
        <5> QED BY <3>2, <4>2, <4>4, <5>1
      <4> QED BY <4>3, <4>4
    <3> QED BY <3>1, <3>2
  <2> QED BY <2>1
<1>5. nth = Walk(nth)
  BY <1>4
<1> HIDE DEF nth
<1>6. \A i \in 1 .. N + 1 : nth[i] = walk[i]
  <2> SUFFICES ASSUME {i \in 1 .. N + 1 : nth[i] # walk[i]} # {} PROVE FALSE
    OBVIOUS
  <2> DEFINE G == {i \in 1 .. N + 1 : nth[i] # walk[i]}
  <2>1. PICK p \in G : \A j \in G : p <= j
    <3>1. G \subseteq Nat /\ G # {}
      BY <1>2
    <3> HIDE DEF G
    <3> QED BY <3>1, NaturalMinimum
  <2>2. nth[p] = IF p = 1 THEN m
                 ELSE IF nth[p - 1] = Null THEN Null ELSE next[nth[p - 1]]
    BY <1>5, <2>1
  <2>3. walk[p] = IF p = 1 THEN m
                  ELSE IF walk[p - 1] = Null THEN Null ELSE next[walk[p - 1]]
    <3> HIDE DEF walk
    <3> QED BY <1>4, <2>1
  <2>4. p # 1 => nth[p - 1] = walk[p - 1]
    <3>1. p # 1 => p - 1 \in 1 .. N + 1 /\ ~(p <= p - 1)
      BY <1>2, <2>1
    <3> HIDE DEF walk
    <3> QED BY <2>1, <3>1
  <2> HIDE DEF walk
  <2> QED BY <2>1, <2>2, <2>3, <2>4
<1>7. {i \in DOMAIN nth : nth[i] # Null} = 1 .. Len(s)
  <2>1. DOMAIN nth = 1 .. N + 1
    BY <1>5
  <2> QED BY <1>2, <1>3, <1>6, <2>1
<1>8. Cardinality(1 .. Len(s)) = Len(s)
  <2> DEFINE n == Len(s)
  <2>1. n \in Nat
    BY <1>2
  <2> HIDE DEF n
  <2>2. Cardinality(1 .. n) = n
    BY <2>1, FS_Interval
  <2> QED BY <2>2 DEF n
<1>9. SubSeq(nth, 1, Len(s)) = s
  <2>1. SubSeq(nth, 1, Len(s)) = [i \in 1 .. Len(s) |-> nth[i]]
    BY <1>2
  <2>2. \A i \in 1 .. Len(s) : nth[i] = s[i]
    BY <1>2, <1>6
  <2> QED BY <1>2, <2>1, <2>2
<1> QED BY <1>1, <1>7, <1>8, <1>9

(* Pointers that agree on the list. *)
LEMMA LinkedFrame ==
  ASSUME NEW nx, NEW nx1, NEW m, NEW s, Chained(nx, m, s),
         \A x \in ToSet(s) : nx1[x] = nx[x]
  PROVE  Chained(nx1, m, s)
<1>1. \A i \in 1 .. Len(s) : s[i] \in ToSet(s)
  BY NodesOfList DEF Chained
<1> QED BY <1>1 DEF Chained

(* The first message is unlinked. *)
LEMMA LinkedRest ==
  ASSUME NEW nx, NEW m, NEW s, Chained(nx, m, s), s # << >>
  PROVE  /\ m \in Msg /\ m = Head(s) /\ m \in ToSet(s) /\ Chained(nx, nx[m], Tail(s))
         /\ ToSet(Tail(s)) = ToSet(s) \ {m} /\ Len(Tail(s)) = Len(s) - 1
         /\ Len(s) \in Nat \ {0}
         /\ Tail(s) # << >> => Tail(s)[Len(Tail(s))] = s[Len(s)]
         /\ Tail(s) = << >> <=> m = s[Len(s)]
<1>1. s \in Seq(Msg) /\ NoRepeat(s) /\ Len(s) \in Nat \ {0} /\ m = s[1] /\ m = Head(s)
  BY DEF Chained
<1>2. /\ m \in ToSet(s) /\ m \in Msg /\ Tail(s) \in Seq(Msg) /\ NoRepeat(Tail(s))
      /\ Len(Tail(s)) = Len(s) - 1 /\ ToSet(Tail(s)) = ToSet(s) \ {m}
  BY <1>1, FirstAndRest
<1>3. \A i \in 1 .. Len(s) - 1 : Tail(s)[i] = s[i + 1]
  BY <1>1
<1> DEFINE r == Tail(s)
<1> HIDE DEF r
<1>10. /\ r \in Seq(Msg) /\ NoRepeat(r) /\ Len(r) = Len(s) - 1
       /\ \A i \in 1 .. Len(s) - 1 : r[i] = s[i + 1]
       /\ r = << >> <=> Len(s) = 1
  <2>1. r \in Seq(Msg) /\ Len(r) = Len(s) - 1
    BY <1>2 DEF r
  <2>2. r = << >> <=> Len(s) = 1
    BY <1>1, <2>1
  <2> QED BY <1>2, <1>3, <2>1, <2>2 DEF r
<1>4. nx[m] = IF r = << >> THEN Null ELSE r[1]
  <2>1. r = << >> <=> Len(s) = 1
    BY <1>10
  <2>2. nx[s[1]] = IF 1 = Len(s) THEN Null ELSE s[2]
    <3>1. 1 \in 1 .. Len(s) /\ 1 + 1 = 2
      BY <1>1
    <3>2. \A j \in 1 .. Len(s) : nx[s[j]] = IF j = Len(s) THEN Null ELSE s[j + 1]
      BY DEF Chained
    <3> QED BY <3>1, <3>2
  <2>3. Len(s) # 1 => r[1] = s[2]
    BY <1>1, <1>10
  <2> QED BY <1>1, <2>1, <2>2, <2>3
<1>5. ASSUME NEW i \in 1 .. Len(s) - 1
      PROVE  nx[r[i]] = IF i = Len(s) - 1 THEN Null ELSE r[i + 1]
  <2>1. nx[s[i + 1]] = IF i + 1 = Len(s) THEN Null ELSE s[(i + 1) + 1]
    <3>1. i + 1 \in 1 .. Len(s)
      BY <1>1
    <3>2. \A j \in 1 .. Len(s) : nx[s[j]] = IF j = Len(s) THEN Null ELSE s[j + 1]
      BY DEF Chained
    <3> QED BY <3>1, <3>2
  <2>2. r[i] = s[i + 1] /\ (i + 1 = Len(s) <=> i = Len(s) - 1)
    BY <1>1, <1>10
  <2>3. i # Len(s) - 1 => r[i + 1] = s[(i + 1) + 1]
    BY <1>1, <1>10
  <2> QED BY <2>1, <2>2, <2>3
<1>6. Chained(nx, nx[m], r)
  BY <1>4, <1>5, <1>10 DEF Chained
<1>7. r # << >> => r[Len(r)] = s[Len(s)]
  <2>1. r # << >> => Len(s) - 1 \in 1 .. Len(s) - 1 /\ (Len(s) - 1) + 1 = Len(s)
    BY <1>1, <1>10
  <2> QED BY <1>10, <2>1
<1>8. r = << >> <=> m = s[Len(s)]
  <2>1. r = << >> <=> Len(s) = 1
    BY <1>10
  <2>2. s[1] = s[Len(s)] <=> Len(s) = 1
    <3>1. 1 \in DOMAIN s /\ Len(s) \in DOMAIN s
      BY <1>1
    <3> QED BY <1>1, <3>1 DEF NoRepeat
  <2> QED BY <1>1, <2>1, <2>2
<1> QED BY <1>1, <1>2, <1>6, <1>7, <1>8 DEF r

(* A message is linked in front. *)
LEMMA LinkedFront ==
  ASSUME NEW nx \in [Msg -> Pointer], NEW m, NEW s, Chained(nx, m, s),
         NEW x \in Msg, x \notin ToSet(s), NEW nx1, nx1 = [nx EXCEPT ![x] = m]
  PROVE  /\ Chained(nx1, x, <<x>> \o s)
         /\ ToSet(<<x>> \o s) = ToSet(s) \cup {x} /\ Len(<<x>> \o s) = Len(s) + 1
         /\ Len(s) \in Nat
         /\ (<<x>> \o s)[Len(s) + 1] = IF s = << >> THEN x ELSE s[Len(s)]
<1> DEFINE l == <<x>> \o s
<1>1. s \in Seq(Msg) /\ NoRepeat(s) /\ Len(s) \in Nat
  BY DEF Chained
<1>2. /\ l \in Seq(Msg) /\ Len(l) = Len(s) + 1 /\ l[1] = x
      /\ \A i \in 1 .. Len(s) : l[i + 1] = s[i]
  BY <1>1
<1>3. ToSet(l) = ToSet(s) \cup {x} /\ NoRepeat(l)
  <2>1. l = rt_list_insert_after(s, x)
    BY DEF rt_list_insert_after, Cons
  <2>2. ToSet(l) = ToSet(s) \cup {x}
    <3> HIDE DEF l
    <3> QED BY <1>1, <2>1, InsertFirst
  <2>3. NoRepeat(l)
    <3> HIDE DEF l
    <3> QED BY <1>1, <2>1, InsertFirst
  <2> QED BY <2>2, <2>3
<1> HIDE DEF l
<1>4. \A i \in 1 .. Len(s) : /\ s[i] \in Msg /\ s[i] # x
                             /\ nx1[s[i]] = IF i = Len(s) THEN Null ELSE s[i + 1]
  <2>1. \A i \in 1 .. Len(s) : s[i] \in Msg /\ s[i] \in ToSet(s)
    BY <1>1, NodesOfList
  <2> QED BY <2>1 DEF Chained
<1>5. ASSUME NEW i \in 1 .. Len(s) + 1
      PROVE  nx1[l[i]] = IF i = Len(s) + 1 THEN Null ELSE l[i + 1]
  <2>1. CASE i = 1
    <3>1. nx1[l[1]] = m
      BY <1>2
    <3>2. m = IF s = << >> THEN Null ELSE s[1]
      BY DEF Chained
    <3>3. s = << >> <=> Len(s) = 0
      BY <1>1
    <3>4. Len(s) # 0 => l[1 + 1] = s[1]
      BY <1>1, <1>2
    <3> QED BY <1>1, <2>1, <3>1, <3>2, <3>3, <3>4
  <2>2. CASE i # 1
    <3>1. i - 1 \in 1 .. Len(s) /\ (i - 1) + 1 = i
      BY <1>1, <2>2
    <3>2. l[i] = s[i - 1]
      BY <1>2, <3>1
    <3>3. nx1[s[i - 1]] = IF i - 1 = Len(s) THEN Null ELSE s[i]
      BY <1>4, <3>1
    <3>4. i - 1 # Len(s) => i \in 1 .. Len(s)
      BY <1>1, <3>1
    <3>5. i - 1 # Len(s) => l[i + 1] = s[i]
      BY <1>2, <3>4
    <3>6. i - 1 = Len(s) <=> i = Len(s) + 1
      BY <1>1
    <3> QED BY <3>2, <3>3, <3>5, <3>6
  <2> QED BY <2>1, <2>2
<1>6. Chained(nx1, x, l)
  <2>1. l # << >>
    BY <1>1, <1>2
  <2> QED BY <1>2, <1>3, <1>5, <2>1 DEF Chained
<1>7. l[Len(s) + 1] = IF s = << >> THEN x ELSE s[Len(s)]
  <2>1. s = << >> <=> Len(s) = 0
    BY <1>1
  <2>2. Len(s) # 0 => Len(s) \in 1 .. Len(s)
    BY <1>1
  <2> QED BY <1>2, <2>1, <2>2
<1> QED BY <1>1, <1>2, <1>3, <1>6, <1>7 DEF l

(* A message is linked behind the last. *)
LEMMA LinkedLast ==
  ASSUME NEW nx \in [Msg -> Pointer], NEW m, NEW s, Chained(nx, m, s),
         NEW x \in Msg, x \notin ToSet(s), NEW nx1,
         \/ s = << >> /\ nx1 = [nx EXCEPT ![x] = Null]
         \/ s # << >> /\ nx1 = [[nx EXCEPT ![x] = Null] EXCEPT ![s[Len(s)]] = x]
  PROVE  /\ Chained(nx1, IF s = << >> THEN x ELSE m, Append(s, x))
         /\ ToSet(Append(s, x)) = ToSet(s) \cup {x} /\ Len(Append(s, x)) = Len(s) + 1
         /\ Append(s, x)[Len(s) + 1] = x /\ Len(s) \in Nat
<1> DEFINE l == Append(s, x)
<1>1. s \in Seq(Msg) /\ NoRepeat(s) /\ Len(s) \in Nat /\ (s = << >> <=> Len(s) = 0)
  BY DEF Chained
<1>2. /\ l \in Seq(Msg) /\ Len(l) = Len(s) + 1 /\ l[Len(s) + 1] = x
      /\ \A i \in 1 .. Len(s) : l[i] = s[i]
  BY <1>1
<1>3. ToSet(l) = ToSet(s) \cup {x} /\ NoRepeat(l)
  <2>1. l = rt_list_insert_before(s, x)
    BY DEF rt_list_insert_before
  <2>2. ToSet(l) = ToSet(s) \cup {x}
    <3>1. ToSet(rt_list_insert_before(s, x)) = ToSet(s) \cup {x}
      BY <1>1, InsertLast
    <3> QED BY <2>1, <3>1
  <2>3. NoRepeat(l)
    <3>1. NoRepeat(rt_list_insert_before(s, x))
      BY <1>1, InsertLast
    <3> QED BY <2>1, <3>1
  <2> QED BY <2>2, <2>3
<1> HIDE DEF l
<1>4. \A i \in 1 .. Len(s) : s[i] \in Msg /\ s[i] # x
  BY <1>1, NodesOfList
<1>5. \A y1 \in Msg : nx1[y1] = IF s # << >> /\ y1 = s[Len(s)] THEN x
                                ELSE IF y1 = x THEN Null ELSE nx[y1]
  <2>1. CASE s = << >>
    BY <2>1
  <2>2. CASE s # << >>
    <3>1. s[Len(s)] \in Msg
      BY <1>1, <1>4, <2>2
    <3> QED BY <2>2, <3>1
  <2> QED BY <2>1, <2>2
<1>6. ASSUME NEW i \in 1 .. Len(s) + 1
      PROVE  nx1[l[i]] = IF i = Len(s) + 1 THEN Null ELSE l[i + 1]
  <2>1. CASE i = Len(s) + 1
    <3>1. s # << >> => x # s[Len(s)]
      BY <1>1, <1>4
    <3> QED BY <1>2, <1>5, <2>1, <3>1
  <2>2. CASE i = Len(s)
    <3>1. s # << >> /\ l[i] = s[Len(s)] /\ l[i] \in Msg
      BY <1>1, <1>2, <1>4, <2>2
    <3>2. l[i + 1] = x /\ i # Len(s) + 1
      BY <1>1, <1>2, <2>2
    <3> QED BY <1>5, <3>1, <3>2
  <2>3. CASE i < Len(s)
    <3>1. /\ i \in 1 .. Len(s) /\ i + 1 \in 1 .. Len(s) /\ Len(s) \in 1 .. Len(s)
          /\ i # Len(s) /\ i # Len(s) + 1
      BY <1>1, <2>3
    <3>2. l[i] = s[i] /\ l[i + 1] = s[i + 1] /\ s[i] \in Msg /\ s[i] # x
      BY <1>2, <1>4, <3>1
    <3>3. s[i] # s[Len(s)]
      BY <1>1, <3>1 DEF NoRepeat
    <3>4. nx[s[i]] = s[i + 1]
      BY <3>1 DEF Chained
    <3> QED BY <1>5, <3>1, <3>2, <3>3, <3>4
  <2> QED BY <1>1, <2>1, <2>2, <2>3
<1>7. Chained(nx1, IF s = << >> THEN x ELSE m, l)
  <2>1. l # << >>
    BY <1>1, <1>2
  <2>2. (IF s = << >> THEN x ELSE m) = l[1]
    <3>1. CASE s = << >>
      BY <1>1, <1>2, <3>1
    <3>2. CASE s # << >>
      <4>1. 1 \in 1 .. Len(s)
        BY <1>1, <3>2
      <4> QED BY <1>2, <3>2, <4>1 DEF Chained
    <3> QED BY <3>1, <3>2
  <2> QED BY <1>2, <1>3, <1>6, <2>1, <2>2 DEF Chained
<1> QED BY <1>1, <1>2, <1>3, <1>7 DEF l

QueueRecord == [head : Pointer, tail : Pointer, free : Pointer, entry : Nat]

LastOf(s) == IF s = << >> THEN Null ELSE s[Len(s)]

(* What rt_mq_send does to the lists. *)
LEMMA LinkSentLinks ==
  ASSUME NEW u \in QueueRecord, NEW nx \in [Msg -> Pointer], NEW s, NEW f, NEW fs,
         Chained(nx, u.head, s), Chained(nx, f, fs), u.tail = LastOf(s),
         ToSet(s) \cap ToSet(fs) = {}, NEW m \in Msg, m \notin ToSet(s) \cup ToSet(fs)
  PROVE  LET left == LinkSent(u, nx, m)
         IN  /\ Chained(left.next, left.queue.head, Append(s, m))
             /\ Chained(left.next, f, fs)
             /\ left.queue.tail = LastOf(Append(s, m))
             /\ left.queue.entry = u.entry + 1 /\ left.queue.free = u.free
             /\ left.queue \in QueueRecord /\ left.next \in [Msg -> Pointer]
             /\ ToSet(Append(s, m)) = ToSet(s) \cup {m}
             /\ Len(Append(s, m)) = Len(s) + 1
<1> DEFINE left == LinkSent(u, nx, m)
           ended == [nx EXCEPT ![m] = Null]
           nx1 == IF s = << >> THEN ended ELSE [ended EXCEPT ![s[Len(s)]] = m]
<1>1. /\ s \in Seq(Msg) /\ \A x \in ToSet(s) : x \in Msg /\ x # Null
      /\ s # << >> => s[Len(s)] \in ToSet(s) /\ s[1] \in ToSet(s)
  <2>1. s \in Seq(Msg)
    BY DEF Chained
  <2>2. ToSet(s) \subseteq Msg /\ \A i \in 1 .. Len(s) : s[i] \in ToSet(s)
    BY <2>1, NodesOfList
  <2>3. s # << >> => 1 \in 1 .. Len(s) /\ Len(s) \in 1 .. Len(s)
    BY <2>1
  <2> QED BY <2>1, <2>2, <2>3, MqType
<1>2. /\ u.tail = Null <=> s = << >>
      /\ u.head = Null <=> s = << >>
      /\ s # << >> => u.tail = s[Len(s)]
  BY <1>1 DEF Chained, LastOf
<1>3. left.next = nx1
  BY <1>2 DEF LinkSent
<1>4. left.queue = [u EXCEPT !.tail = m, !.head = IF s = << >> THEN m ELSE u.head,
                             !.entry = u.entry + 1]
  BY <1>2 DEF LinkSent, QueueRecord
<1>5. /\ left.queue.head = IF s = << >> THEN m ELSE u.head
      /\ left.queue.tail = m /\ left.queue.entry = u.entry + 1
      /\ left.queue.free = u.free /\ left.queue \in QueueRecord
  <2>1. m \in Pointer /\ u.head \in Pointer /\ u.entry + 1 \in Nat
    BY DEF QueueRecord, Pointer
  <2> QED BY <1>4, <2>1 DEF QueueRecord
<1> HIDE DEF left
<1>6. /\ Chained(nx1, IF s = << >> THEN m ELSE u.head, Append(s, m))
      /\ ToSet(Append(s, m)) = ToSet(s) \cup {m} /\ Len(Append(s, m)) = Len(s) + 1
      /\ Append(s, m)[Len(s) + 1] = m
  <2>1. \/ s = << >> /\ nx1 = [nx EXCEPT ![m] = Null]
        \/ s # << >> /\ nx1 = [[nx EXCEPT ![m] = Null] EXCEPT ![s[Len(s)]] = m]
    OBVIOUS
  <2> HIDE DEF nx1
  <2> QED BY <2>1, LinkedLast
<1>7. nx1 \in [Msg -> Pointer] /\ \A x \in ToSet(fs) : nx1[x] = nx[x]
  <2>1. \A x \in ToSet(fs) : x \in Msg /\ x # m /\ (s # << >> => x # s[Len(s)])
    <3>1. fs \in Seq(Msg)
      BY DEF Chained
    <3>2. ToSet(fs) \subseteq Msg
      BY <3>1, NodesOfList
    <3> QED BY <1>1, <3>2
  <2>2. m \in Pointer /\ Null \in Pointer
    BY DEF Pointer
  <2> QED BY <1>1, <2>1, <2>2
<1>8. Chained(nx1, f, fs)
  <2> HIDE DEF nx1
  <2> QED BY <1>7, LinkedFrame
<1>9. LastOf(Append(s, m)) = m
  <2>1. Append(s, m) # << >>
    <3>1. Len(s) \in Nat
      BY <1>1
    <3>2. Len(Append(s, m)) # 0
      BY <1>6, <3>1
    <3> QED BY <3>2
  <2> QED BY <1>6, <2>1 DEF LastOf
<1> QED BY <1>3, <1>5, <1>6, <1>7, <1>8, <1>9 DEF left

(* What rt_mq_urgent does to the lists. *)
LEMMA LinkUrgentLinks ==
  ASSUME NEW u \in QueueRecord, NEW nx \in [Msg -> Pointer], NEW s, NEW f, NEW fs,
         Chained(nx, u.head, s), Chained(nx, f, fs), u.tail = LastOf(s),
         NEW m \in Msg, m \notin ToSet(s) \cup ToSet(fs)
  PROVE  LET left == LinkUrgent(u, nx, m)
         IN  /\ Chained(left.next, left.queue.head, <<m>> \o s)
             /\ Chained(left.next, f, fs)
             /\ left.queue.tail = LastOf(<<m>> \o s)
             /\ left.queue.entry = u.entry + 1 /\ left.queue.free = u.free
             /\ left.queue \in QueueRecord /\ left.next \in [Msg -> Pointer]
             /\ ToSet(<<m>> \o s) = ToSet(s) \cup {m}
             /\ Len(<<m>> \o s) = Len(s) + 1
<1> DEFINE left == LinkUrgent(u, nx, m)
           nx1 == [nx EXCEPT ![m] = u.head]
<1>1. s \in Seq(Msg) /\ (s # << >> => s[Len(s)] \in Msg /\ s[Len(s)] # Null)
  <2>1. s \in Seq(Msg)
    BY DEF Chained
  <2>2. s # << >> => Len(s) \in 1 .. Len(s)
    BY <2>1
  <2> QED BY <2>1, <2>2, NodesOfList, MqType
<1>2. u.tail = Null <=> s = << >>
  BY <1>1 DEF LastOf
<1>3. left.next = nx1
  BY DEF LinkUrgent
<1>4. left.queue = [u EXCEPT !.head = m, !.tail = IF s = << >> THEN m ELSE u.tail,
                             !.entry = u.entry + 1]
  BY <1>2 DEF LinkUrgent, QueueRecord
<1>5. /\ left.queue.tail = IF s = << >> THEN m ELSE u.tail
      /\ left.queue.head = m /\ left.queue.entry = u.entry + 1
      /\ left.queue.free = u.free /\ left.queue \in QueueRecord
  <2>1. m \in Pointer /\ u.tail \in Pointer /\ u.entry + 1 \in Nat
    BY DEF QueueRecord, Pointer
  <2> QED BY <1>4, <2>1 DEF QueueRecord
<1> HIDE DEF left
<1>6. /\ Chained(nx1, m, <<m>> \o s)
      /\ ToSet(<<m>> \o s) = ToSet(s) \cup {m} /\ Len(<<m>> \o s) = Len(s) + 1
      /\ (<<m>> \o s)[Len(s) + 1] = IF s = << >> THEN m ELSE s[Len(s)]
  <2> DEFINE h == u.head
  <2>1. nx1 = [nx EXCEPT ![m] = h] /\ Chained(nx, h, s) /\ m \notin ToSet(s)
    OBVIOUS
  <2> HIDE DEF nx1, h
  <2>2. Chained(nx1, m, <<m>> \o s)
    BY <2>1, LinkedFront
  <2>3. ToSet(<<m>> \o s) = ToSet(s) \cup {m} /\ Len(<<m>> \o s) = Len(s) + 1
    BY <2>1, LinkedFront
  <2>4. (<<m>> \o s)[Len(s) + 1] = IF s = << >> THEN m ELSE s[Len(s)]
    BY <2>1, LinkedFront
  <2> QED BY <2>2, <2>3, <2>4
<1>7. nx1 \in [Msg -> Pointer] /\ \A x \in ToSet(fs) : nx1[x] = nx[x]
  <2>1. \A x \in ToSet(fs) : x \in Msg /\ x # m
    <3>1. fs \in Seq(Msg)
      BY DEF Chained
    <3> QED BY <3>1, NodesOfList
  <2>2. u.head \in Pointer
    BY DEF QueueRecord
  <2> QED BY <2>1, <2>2
<1>8. Chained(nx1, f, fs)
  <2> HIDE DEF nx1
  <2> QED BY <1>7, LinkedFrame
<1>9. LastOf(<<m>> \o s) = IF s = << >> THEN m ELSE u.tail
  <2>1. <<m>> \o s # << >>
    BY <1>1, <1>6
  <2> QED BY <1>6, <2>1 DEF LastOf
<1> QED BY <1>3, <1>5, <1>6, <1>7, <1>8, <1>9 DEF left

(* What taking the first message does to the queue. *)
LEMMA UnlinkHeadLinks ==
  ASSUME NEW u \in QueueRecord, NEW nx \in [Msg -> Pointer], NEW s, Chained(nx, u.head, s),
         u.tail = LastOf(s), s # << >>
  PROVE  /\ u.head \in Msg /\ u.head = Head(s) /\ u.head \in ToSet(s)
         /\ Chained(nx, nx[u.head], Tail(s)) /\ nx[u.head] \in Pointer
         /\ ToSet(Tail(s)) = ToSet(s) \ {u.head}
         /\ Len(Tail(s)) = Len(s) - 1 /\ Len(s) \in Nat \ {0}
         /\ (IF u.tail = u.head THEN Null ELSE u.tail) = LastOf(Tail(s))
<1>1. /\ u.head \in Msg /\ u.head = Head(s) /\ u.head \in ToSet(s)
      /\ Chained(nx, nx[u.head], Tail(s))
      /\ ToSet(Tail(s)) = ToSet(s) \ {u.head} /\ Len(Tail(s)) = Len(s) - 1
      /\ Len(s) \in Nat \ {0}
      /\ Tail(s) # << >> => Tail(s)[Len(Tail(s))] = s[Len(s)]
      /\ Tail(s) = << >> <=> u.head = s[Len(s)]
  BY LinkedRest
<1>2. (IF u.tail = u.head THEN Null ELSE u.tail) = LastOf(Tail(s))
  BY <1>1 DEF LastOf
<1> QED BY <1>1, <1>2

-----------------------------------------------------------------------------
(* Every message is somewhere, and only there *)

\* The messages of the queue are A, the free ones B, and those in a call's
\* hand mg.
Placed(A, B, mg) ==
  /\ A \cap B = {}
  /\ \A t \in Thread : mg[t] # Null => mg[t] \notin A \cup B
  /\ \A t, u \in Thread : t # u /\ mg[t] # Null => mg[t] # mg[u]
  /\ \A m \in Msg : m \in A \cup B \/ \E t \in Thread : mg[t] = m

LEMMA PlacedSwaps ==
  ASSUME NEW A, NEW B, NEW mg, Placed(A, B, mg) PROVE Placed(B, A, mg)
BY DEF Placed

(* A message goes from a list into a call's hand, *)
LEMMA PlacedInHand ==
  ASSUME NEW A, NEW B, NEW mg \in [Thread -> Pointer], Placed(A, B, mg),
         NEW x \in B, x \in Msg, NEW me \in Thread, mg[me] = Null
  PROVE  Placed(A, B \ {x}, [mg EXCEPT ![me] = x])
<1> DEFINE mg1 == [mg EXCEPT ![me] = x]
<1>1. \A t \in Thread : mg1[t] = IF t = me THEN x ELSE mg[t]
  OBVIOUS
<1> HIDE DEF mg1
<1>2. x # Null
  BY MqType
<1>3. \A m \in Msg : m \in A \cup (B \ {x}) \/ \E t \in Thread : mg1[t] = m
  <2>1. ASSUME NEW m \in Msg, m \notin A \cup (B \ {x})
        PROVE  \E t \in Thread : mg1[t] = m
    <3>1. CASE m = x
      BY <1>1, <3>1
    <3>2. CASE m # x
      <4>1. PICK t \in Thread : mg[t] = m
        BY <2>1, <3>2 DEF Placed
      <4>2. t # me
        BY <4>1, MqType
      <4> QED BY <1>1, <4>1, <4>2
    <3> QED BY <3>1, <3>2
  <2> QED BY <2>1
<1>4. Placed(A, B \ {x}, mg1)
  BY <1>1, <1>2, <1>3 DEF Placed
<1> QED BY <1>4 DEF mg1

(* back into a list, *)
LEMMA PlacedInList ==
  ASSUME NEW A, NEW B, NEW mg \in [Thread -> Pointer], Placed(A, B, mg),
         NEW me \in Thread, mg[me] # Null
  PROVE  Placed(A, B \cup {mg[me]}, [mg EXCEPT ![me] = Null])
<1> DEFINE mg1 == [mg EXCEPT ![me] = Null]
<1>1. \A t \in Thread : mg1[t] = IF t = me THEN Null ELSE mg[t]
  BY DEF Pointer
<1> HIDE DEF mg1
<1>2. \A m \in Msg : m \in A \cup (B \cup {mg[me]}) \/ \E t \in Thread : mg1[t] = m
  BY <1>1 DEF Placed
<1>3. Placed(A, B \cup {mg[me]}, mg1)
  BY <1>1, <1>2 DEF Placed
<1> QED BY <1>3 DEF mg1

(* or from one list into the other. *)
LEMMA PlacedInOther ==
  ASSUME NEW A, NEW B, NEW mg, Placed(A, B, mg), NEW x \in A
  PROVE  Placed(A \ {x}, B \cup {x}, mg)
BY DEF Placed

-----------------------------------------------------------------------------
(* The messages of a queue: in the queue qs, free fs, or held by a call *)

LEMMA ChainAlways == \A m, s : Chained(next, m, s) => Chain(m) = s
BY ChainIsFound

LEMMA ChainNext == (\A m, s : Chained(next, m, s) => Chain(m) = s)'
BY ChainAlways, PTL

Holds == {"send", "urgent", "taken"}

\* Typing, and which calls hold a message.
MqTypes ==
  /\ pc \in [Thread -> MqLabel]
  /\ q \in QueueRecord
  /\ next \in [Msg -> Pointer]
  /\ content \in [Msg -> Letter \cup {NoLetter}]
  /\ msg \in [Thread -> Pointer]
  /\ mq_time \in [Thread -> Time]
  /\ \A t \in Thread : msg[t] # Null <=> pc[t] \in Holds

\* entry is wrong only while a reset, with interrupts disabled, throws the
\* messages away.  What has left the free list has been written.
MqListed(qs, fs) ==
  /\ Chained(next, q.head, qs) /\ Chained(next, q.free, fs)
  /\ q.tail = LastOf(qs)
  /\ Placed(ToSet(qs), ToSet(fs), msg)
  /\ \A m \in Msg \ ToSet(fs) : content[m] \in Letter
  /\ ~At("reset") => q.entry = Len(qs)

Posted == Chain(q.head)
Unused == Chain(q.free)

MqListInv == MqTypes /\ MqListed(Posted, Unused)

LEMMA ListedAre ==
  ASSUME NEW qs, NEW fs, MqListed(qs, fs)
  PROVE  Posted = qs /\ Unused = fs
BY ChainIsFound DEF MqListed, Posted, Unused

LEMMA ListedAreNext ==
  ASSUME NEW qs, NEW fs, MqListed(qs, fs)'
  PROVE  Posted' = qs /\ Unused' = fs
BY ChainNext DEF MqListed, Posted, Unused

LEMMA MqListFacts ==
  ASSUME MqListInv
  PROVE  /\ MqTypes
         /\ Chained(next, q.head, Posted) /\ Chained(next, q.free, Unused)
         /\ q.tail = LastOf(Posted)
         /\ Placed(ToSet(Posted), ToSet(Unused), msg)
         /\ \A m \in Msg \ ToSet(Unused) : content[m] \in Letter
         /\ ~At("reset") => q.entry = Len(Posted)
         /\ Posted \in Seq(Msg) /\ Unused \in Seq(Msg)
         /\ Len(Posted) \in Nat /\ (Posted = << >> <=> Len(Posted) = 0)
         /\ ToSet(Posted) \subseteq Msg /\ ToSet(Unused) \subseteq Msg
         /\ q \in QueueRecord /\ next \in [Msg -> Pointer]
         /\ q.head = Null <=> Posted = << >>
         /\ q.free = Null <=> Unused = << >>
         /\ Null \notin Msg
<1>1. MqListed(Posted, Unused) /\ MqTypes
  BY DEF MqListInv
<1>2. Chained(next, q.head, Posted) /\ Chained(next, q.free, Unused)
  BY <1>1 DEF MqListed
<1>3. Posted \in Seq(Msg) /\ Unused \in Seq(Msg)
  BY <1>2 DEF Chained
<1>4. ToSet(Posted) \subseteq Msg /\ ToSet(Unused) \subseteq Msg
  BY <1>3, NodesOfList
<1>5. Len(Posted) \in Nat /\ (Posted = << >> <=> Len(Posted) = 0)
  BY <1>3
<1>6. /\ q.head = Null <=> Posted = << >>
      /\ q.free = Null <=> Unused = << >>
  <2>1. \A s \in Seq(Msg) : s # << >> => s[1] \in Msg
    OBVIOUS
  <2> QED BY <1>2, <1>3, <2>1, MqType DEF Chained
<1> QED BY <1>1, <1>2, <1>3, <1>4, <1>5, <1>6, MqType DEF MqListed, MqTypes

LEMMA ListsTogether ==
  ASSUME NEW V, NEW a \in Seq(V), NEW b \in Seq(V)
  PROVE  /\ ToSet(a \o b) = ToSet(a) \cup ToSet(b)
         /\ NoRepeat(a) /\ NoRepeat(b) /\ ToSet(a) \cap ToSet(b) = {} => NoRepeat(a \o b)
<1> DEFINE l == a \o b
<1>1. /\ l \in Seq(V) /\ Len(l) = Len(a) + Len(b) /\ Len(a) \in Nat /\ Len(b) \in Nat
      /\ \A i \in 1 .. Len(a) : l[i] = a[i]
      /\ \A i \in 1 .. Len(b) : l[Len(a) + i] = b[i]
  OBVIOUS
<1>2. \A s \in Seq(V) : ToSet(s) = {s[i] : i \in 1 .. Len(s)} /\ DOMAIN s = 1 .. Len(s)
  BY DEF ToSet
<1> HIDE DEF l
<1>3. ASSUME NEW i \in 1 .. Len(l), i \notin 1 .. Len(a)
      PROVE  i - Len(a) \in 1 .. Len(b) /\ l[i] = b[i - Len(a)]
  <2>1. i - Len(a) \in 1 .. Len(b) /\ Len(a) + (i - Len(a)) = i
    BY <1>1, <1>3
  <2> QED BY <1>1, <2>1
<1>4. ToSet(l) = ToSet(a) \cup ToSet(b)
  <2>1. ASSUME NEW x \in ToSet(l) PROVE x \in ToSet(a) \cup ToSet(b)
    <3>1. PICK i \in 1 .. Len(l) : x = l[i]
      BY <1>1, <1>2
    <3>2. CASE i \in 1 .. Len(a)
      BY <1>1, <1>2, <3>1, <3>2
    <3>3. CASE i \notin 1 .. Len(a)
      BY <1>2, <1>3, <3>1, <3>3
    <3> QED BY <3>2, <3>3
  <2>2. ASSUME NEW x \in ToSet(a) PROVE x \in ToSet(l)
    <3>1. PICK i \in 1 .. Len(a) : x = a[i]
      BY <1>2
    <3>2. i \in 1 .. Len(l)
      BY <1>1
    <3> QED BY <1>1, <1>2, <3>1, <3>2
  <2>3. ASSUME NEW x \in ToSet(b) PROVE x \in ToSet(l)
    <3>1. PICK i \in 1 .. Len(b) : x = b[i]
      BY <1>2
    <3>2. Len(a) + i \in 1 .. Len(l) /\ l[Len(a) + i] = x
      BY <1>1, <3>1
    <3> QED BY <1>1, <1>2, <3>2
  <2> QED BY <2>1, <2>2, <2>3
<1>5. ASSUME NoRepeat(a), NoRepeat(b), ToSet(a) \cap ToSet(b) = {} PROVE NoRepeat(l)
  <2>1. ASSUME NEW i \in 1 .. Len(l), NEW j \in 1 .. Len(l), l[i] = l[j] PROVE i = j
    <3>1. CASE i \in 1 .. Len(a) /\ j \in 1 .. Len(a)
      BY <1>1, <1>2, <1>5, <2>1, <3>1 DEF NoRepeat
    <3>2. CASE i \notin 1 .. Len(a) /\ j \notin 1 .. Len(a)
      <4>1. /\ i - Len(a) \in 1 .. Len(b) /\ j - Len(a) \in 1 .. Len(b)
            /\ b[i - Len(a)] = b[j - Len(a)]
        BY <1>3, <2>1, <3>2
      <4>2. i - Len(a) = j - Len(a)
        BY <1>2, <1>5, <4>1 DEF NoRepeat
      <4> QED BY <1>1, <4>2
    <3>3. CASE i \in 1 .. Len(a) /\ j \notin 1 .. Len(a)
      <4>1. l[i] \in ToSet(a) /\ l[j] \in ToSet(b)
        BY <1>1, <1>2, <1>3, <3>3
      <4> QED BY <1>5, <2>1, <4>1
    <3>4. CASE i \notin 1 .. Len(a) /\ j \in 1 .. Len(a)
      <4>1. l[j] \in ToSet(a) /\ l[i] \in ToSet(b)
        BY <1>1, <1>2, <1>3, <3>4
      <4> QED BY <1>5, <2>1, <4>1
    <3> QED BY <3>1, <3>2, <3>3, <3>4
  <2> QED BY <1>1, <1>2, <2>1 DEF NoRepeat
<1> QED BY <1>4, <1>5 DEF l

LEMMA MqListInvConserves == MqListInv => MessagesConserved
<1> SUFFICES ASSUME MqListInv PROVE MessagesConserved
  OBVIOUS
<1> DEFINE a == Posted
           b == Unused
<1>1. /\ Chained(next, q.head, a) /\ Chained(next, q.free, b) /\ a \in Seq(Msg) /\ b \in Seq(Msg)
      /\ Placed(ToSet(a), ToSet(b), msg) /\ q.tail = LastOf(a)
      /\ ~At("reset") => q.entry = Len(a)
  BY MqListFacts
<1>2. MessagesConserved <=>
        /\ NoRepeat(a \o b)
        /\ \A t, u \in Held : t # u => msg[t] # msg[u]
        /\ \A m \in Msg : m \in ToSet(a \o b) <=> \A t \in Held : msg[t] # m
        /\ q.tail = IF a = << >> THEN Null ELSE Last(a)
        /\ ~At("reset") => q.entry = Len(a)
  BY DEF MessagesConserved, Posted, Unused
<1> HIDE DEF a, b
<1>3. NoRepeat(a) /\ NoRepeat(b) /\ ToSet(a) \cap ToSet(b) = {}
  BY <1>1 DEF Chained, Placed
<1>4. ToSet(a \o b) = ToSet(a) \cup ToSet(b)
  BY <1>1, ListsTogether
<1>5. NoRepeat(a \o b)
  BY <1>1, <1>3, ListsTogether
<1>6. \A m \in Msg : m \in ToSet(a) \cup ToSet(b) <=> \A t \in Held : msg[t] # m
  <2>1. ASSUME NEW m \in ToSet(a) \cup ToSet(b), NEW t \in Held PROVE msg[t] # m
    BY <1>1, <2>1 DEF Placed, Held
  <2>2. ASSUME NEW m \in Msg, m \notin ToSet(a) \cup ToSet(b)
        PROVE  \E t \in Held : msg[t] = m
    <3>1. PICK t \in Thread : msg[t] = m
      BY <1>1, <2>2 DEF Placed
    <3>2. m # Null
      BY MqType
    <3> QED BY <3>1, <3>2 DEF Held
  <2> QED BY <2>1, <2>2
<1>7. \A t, u \in Held : t # u => msg[t] # msg[u]
  BY <1>1 DEF Placed, Held
<1>8. q.tail = IF a = << >> THEN Null ELSE Last(a)
  BY <1>1 DEF LastOf, Last
<1> QED BY <1>1, <1>2, <1>4, <1>5, <1>6, <1>7, <1>8

-----------------------------------------------------------------------------
(* What the lists and the hands spell *)

Spell(c, s) == [i \in DOMAIN s |-> c[s[i]]]

InHand(p, c, mg) == [t \in Thread |-> IF p[t] = "taken" THEN c[mg[t]] ELSE NoLetter]

LEMMA SpellIsSeq ==
  ASSUME NEW c, NEW s \in Seq(Msg)
  PROVE  /\ Len(Spell(c, s)) = Len(s) /\ DOMAIN Spell(c, s) = 1 .. Len(s)
         /\ \E V : Spell(c, s) \in Seq(V)
         /\ \A i \in 1 .. Len(s) : Spell(c, s)[i] = c[s[i]]
<1> DEFINE V == {c[m] : m \in Msg}
           w == [i \in 1 .. Len(s) |-> c[s[i]]]
<1>1. Spell(c, s) = w
  BY DEF Spell
<1>2. Len(s) \in Nat /\ \A i \in 1 .. Len(s) : s[i] \in Msg
  OBVIOUS
<1>3. w \in [1 .. Len(s) -> V]
  BY <1>2
<1>4. w \in Seq(V) /\ Len(w) = Len(s)
  <2>1. w \in UNION {[1 .. n -> V] : n \in Nat}
    BY <1>2, <1>3
  <2> HIDE DEF w, V
  <2>2. w \in Seq(V)
    BY <1>2, <1>3
  <2> QED BY <1>2, <1>3, <2>2
<1>5. \A i \in 1 .. Len(s) : w[i] = c[s[i]]
  OBVIOUS
<1> HIDE DEF w, V
<1>6. DOMAIN w = 1 .. Len(s)
  BY <1>3
<1> QED BY <1>1, <1>4, <1>5, <1>6

LEMMA SpellSame ==
  ASSUME NEW c, NEW d, NEW s \in Seq(Msg), \A m \in ToSet(s) : d[m] = c[m]
  PROVE  Spell(d, s) = Spell(c, s)
<1>1. \A i \in DOMAIN s : s[i] \in ToSet(s)
  BY DEF ToSet
<1> QED BY <1>1 DEF Spell

LEMMA SameSeq ==
  ASSUME NEW V, NEW W, NEW a \in Seq(V), NEW b \in Seq(W), Len(a) = Len(b),
         \A i \in 1 .. Len(a) : a[i] = b[i]
  PROVE  a = b
<1>1. DOMAIN a = 1 .. Len(a) /\ DOMAIN b = 1 .. Len(a)
  OBVIOUS
<1>2. a = [i \in 1 .. Len(a) |-> a[i]] /\ b = [i \in 1 .. Len(a) |-> b[i]]
  BY <1>1
<1>3. [i \in 1 .. Len(a) |-> a[i]] = [i \in 1 .. Len(a) |-> b[i]]
  OBVIOUS
<1> QED BY <1>2, <1>3

LEMMA SpellAppend ==
  ASSUME NEW c, NEW s \in Seq(Msg), NEW m \in Msg
  PROVE  Spell(c, Append(s, m)) = Append(Spell(c, s), c[m])
<1> DEFINE l == Append(s, m)
           w == Spell(c, s)
<1>1. /\ l \in Seq(Msg) /\ Len(l) = Len(s) + 1 /\ Len(s) \in Nat /\ l[Len(s) + 1] = m
      /\ \A i \in 1 .. Len(s) : l[i] = s[i]
  OBVIOUS
<1> HIDE DEF l
<1>2. /\ Len(w) = Len(s) /\ \A i \in 1 .. Len(s) : w[i] = c[s[i]]
  BY SpellIsSeq
<1>3. PICK V : w \in Seq(V)
  BY SpellIsSeq
<1>4. /\ Len(Spell(c, l)) = Len(s) + 1
      /\ \A i \in 1 .. Len(l) : Spell(c, l)[i] = c[l[i]]
  BY <1>1, SpellIsSeq
<1>5. PICK W : Spell(c, l) \in Seq(W)
  BY <1>1, SpellIsSeq
<1> HIDE DEF w
<1> DEFINE X == V \cup {c[m]}
           r == Append(w, c[m])
<1>6. w \in Seq(X)
  BY <1>3
<1>7. /\ r \in Seq(X) /\ Len(r) = Len(s) + 1 /\ r[Len(s) + 1] = c[m]
      /\ \A i \in 1 .. Len(s) : r[i] = w[i]
  BY <1>1, <1>2, <1>6
<1> HIDE DEF X, r
<1>8. ASSUME NEW i \in 1 .. Len(s) + 1 PROVE Spell(c, l)[i] = r[i]
  <2>1. i \in 1 .. Len(l)
    BY <1>1
  <2>2. CASE i = Len(s) + 1
    BY <1>1, <1>4, <1>7, <2>1, <2>2
  <2>3. CASE i # Len(s) + 1
    <3>1. i \in 1 .. Len(s)
      BY <1>1, <2>3
    <3> QED BY <1>1, <1>2, <1>4, <1>7, <2>1, <3>1
  <2> QED BY <2>2, <2>3
<1>9. Spell(c, l) = r
  BY <1>4, <1>5, <1>7, <1>8, SameSeq
<1> QED BY <1>9 DEF l, w, r

LEMMA SpellCons ==
  ASSUME NEW c, NEW s \in Seq(Msg), NEW m \in Msg
  PROVE  Spell(c, <<m>> \o s) = <<c[m]>> \o Spell(c, s)
<1> DEFINE l == <<m>> \o s
           w == Spell(c, s)
<1>1. /\ l \in Seq(Msg) /\ Len(l) = Len(s) + 1 /\ Len(s) \in Nat /\ l[1] = m
      /\ \A i \in 1 .. Len(s) : l[i + 1] = s[i]
  OBVIOUS
<1> HIDE DEF l
<1>2. /\ Len(w) = Len(s) /\ \A i \in 1 .. Len(s) : w[i] = c[s[i]]
  BY SpellIsSeq
<1>3. PICK V : w \in Seq(V)
  BY SpellIsSeq
<1>4. /\ Len(Spell(c, l)) = Len(s) + 1
      /\ \A i \in 1 .. Len(l) : Spell(c, l)[i] = c[l[i]]
  BY <1>1, SpellIsSeq
<1>5. PICK W : Spell(c, l) \in Seq(W)
  BY <1>1, SpellIsSeq
<1> HIDE DEF w
<1> DEFINE X == V \cup {c[m]}
           r == <<c[m]>> \o w
<1>6. w \in Seq(X) /\ c[m] \in X
  BY <1>3
<1>7. /\ r \in Seq(X) /\ Len(r) = Len(s) + 1 /\ r[1] = c[m]
      /\ \A i \in 1 .. Len(s) : r[i + 1] = w[i]
  <2> HIDE DEF X
  <2> QED BY <1>1, <1>2, <1>6
<1> HIDE DEF X, r
<1>8. ASSUME NEW i \in 1 .. Len(s) + 1 PROVE Spell(c, l)[i] = r[i]
  <2>1. i \in 1 .. Len(l)
    BY <1>1
  <2>2. CASE i = 1
    BY <1>1, <1>4, <1>7, <2>1, <2>2
  <2>3. CASE i # 1
    <3> DEFINE j == i - 1
    <3>1. j \in 1 .. Len(s) /\ j + 1 = i
      BY <1>1, <2>3
    <3> HIDE DEF j
    <3>2. l[j + 1] = s[j] /\ r[j + 1] = w[j] /\ w[j] = c[s[j]]
      BY <1>1, <1>2, <1>7, <3>1
    <3> QED BY <1>4, <2>1, <3>1, <3>2
  <2> QED BY <2>2, <2>3
<1>9. Spell(c, l) = r
  BY <1>4, <1>5, <1>7, <1>8, SameSeq
<1> QED BY <1>9 DEF l, w, r

LEMMA SpellTail ==
  ASSUME NEW c, NEW s \in Seq(Msg), s # << >>
  PROVE  /\ Spell(c, s) # << >> /\ Head(Spell(c, s)) = c[Head(s)]
         /\ Spell(c, Tail(s)) = Tail(Spell(c, s))
<1> DEFINE l == Tail(s)
           w == Spell(c, s)
<1>1. /\ l \in Seq(Msg) /\ Len(l) = Len(s) - 1 /\ Len(s) \in Nat \ {0}
      /\ \A i \in 1 .. Len(s) - 1 : l[i] = s[i + 1]
  OBVIOUS
<1> HIDE DEF l
<1>2. /\ Len(w) = Len(s) /\ \A i \in 1 .. Len(s) : w[i] = c[s[i]]
  BY SpellIsSeq
<1>3. PICK V : w \in Seq(V)
  BY SpellIsSeq
<1>4. /\ Len(Spell(c, l)) = Len(s) - 1
      /\ \A i \in 1 .. Len(l) : Spell(c, l)[i] = c[l[i]]
  BY <1>1, SpellIsSeq
<1>5. PICK W : Spell(c, l) \in Seq(W)
  BY <1>1, SpellIsSeq
<1> HIDE DEF w
<1> DEFINE r == Tail(w)
<1>6. w # << >> /\ Head(w) = c[Head(s)]
  <2>1. 1 \in 1 .. Len(s) /\ Head(s) = s[1]
    BY <1>1
  <2>2. w # << >> /\ Head(w) = w[1]
    BY <1>1, <1>2, <1>3
  <2> QED BY <1>2, <2>1, <2>2
<1>7. /\ r \in Seq(V) /\ Len(r) = Len(s) - 1
      /\ \A i \in 1 .. Len(s) - 1 : r[i] = w[i + 1]
  BY <1>1, <1>2, <1>3, <1>6
<1> HIDE DEF r
<1>8. ASSUME NEW i \in 1 .. Len(s) - 1 PROVE Spell(c, l)[i] = r[i]
  <2>1. i \in 1 .. Len(l) /\ i + 1 \in 1 .. Len(s)
    BY <1>1
  <2> QED BY <1>1, <1>2, <1>4, <1>7, <2>1
<1>9. Spell(c, l) = r
  BY <1>1, <1>4, <1>5, <1>7, <1>8, SameSeq
<1> QED BY <1>6, <1>9 DEF l, w, r

-----------------------------------------------------------------------------
(* Every step of the message queue is one of UrgentQueue *)

Letters == Spell(content, Posted)
Taken == InHand(pc, content, msg)

UrgentStep ==
  \/ Letters' = Letters /\ Taken' = Taken
  \/ \E c \in Letter : /\ Letters' = Append(Letters, c) \/ Letters' = <<c>> \o Letters
                       /\ Taken' = Taken
  \/ Letters # << >> /\ Letters' = Tail(Letters) /\ Taken' = Taken
  \/ \E t \in Thread : /\ Letters # << >> /\ Taken[t] = NoLetter
                       /\ Letters' = Tail(Letters)
                       /\ Taken' = [Taken EXCEPT ![t] = Head(Letters)]
  \/ \E t \in Thread : /\ Taken[t] # NoLetter
                       /\ Letters' = Letters
                       /\ Taken' = [Taken EXCEPT ![t] = NoLetter]

ListOutcome == MqListInv' /\ UrgentStep

LEMMA ListsBecome ==
  ASSUME NEW qs, NEW fs, MqTypes', MqListed(qs, fs)'
  PROVE  MqListInv' /\ Posted' = qs /\ Unused' = fs /\ Letters' = Spell(content', qs)
<1>1. Posted' = qs /\ Unused' = fs
  BY ListedAreNext
<1> QED BY <1>1 DEF MqListInv, Letters

\* What a call does with its own label and hand.
Hand(me, label, x) ==
  \A t \in Thread : /\ pc'[t] = IF t = me THEN label ELSE pc[t]
                    /\ msg'[t] = IF t = me THEN x ELSE msg[t]
                    /\ pc[t] \in Holds => msg[t] \in Msg
                    /\ pc[t] \notin Holds => msg[t] = Null

LEMMA HandTypes ==
  ASSUME MqTypes, NEW me \in Thread, NEW label \in MqLabel, NEW x \in Pointer,
         pc' = [pc EXCEPT ![me] = label], msg' = [msg EXCEPT ![me] = x],
         x # Null <=> label \in Holds,
         q' \in QueueRecord, next' \in [Msg -> Pointer],
         content' \in [Msg -> Letter \cup {NoLetter}], mq_time' \in [Thread -> Time]
  PROVE  MqTypes' /\ Hand(me, label, x)
<1>1. \A t \in Thread : /\ pc'[t] = IF t = me THEN label ELSE pc[t]
                        /\ msg'[t] = IF t = me THEN x ELSE msg[t]
  BY DEF MqTypes
<1>2. \A t \in Thread : (pc[t] \in Holds => msg[t] \in Msg) /\ (pc[t] \notin Holds => msg[t] = Null)
  BY DEF MqTypes, Pointer
<1>3. pc' \in [Thread -> MqLabel] /\ msg' \in [Thread -> Pointer]
  BY DEF MqTypes
<1>4. MqTypes'
  BY <1>1, <1>2, <1>3 DEF MqTypes
<1>5. Hand(me, label, x)
  BY <1>1, <1>2 DEF Hand
<1> QED BY <1>4, <1>5

(* Steps that leave the messages where they are. *)
LEMMA QuietLists ==
  ASSUME MqListInv, UNCHANGED <<q, next, content, msg>>,
         pc' \in [Thread -> MqLabel], mq_time' \in [Thread -> Time],
         \A t \in Thread : pc'[t] = pc[t] \/ (pc[t] \notin Holds /\ pc'[t] \notin Holds),
         ~At("reset") \/ At("reset")'
  PROVE  ListOutcome
<1>1. MqTypes'
  BY DEF MqTypes, MqListInv
<1>2. MqListed(Posted, Unused)'
  <2>1. Posted' = Posted /\ Unused' = Unused
    BY DEF Posted, Unused, Chain
  <2> QED BY <2>1 DEF MqListed, MqListInv
<1>3. MqListInv' /\ Letters' = Letters
  <2>1. Posted' = Posted
    BY DEF Posted, Chain
  <2> QED BY <1>1, <1>2, <2>1 DEF MqListInv, Letters
<1>4. Taken' = Taken
  BY DEF Taken, InHand, Holds
<1> QED BY <1>3, <1>4 DEF ListOutcome, UrgentStep

\* Before a step: the messages in the queue are a, the free ones b.
ListsBefore(a, b) ==
  /\ MqTypes /\ a = Posted /\ b = Unused
  /\ a \in Seq(Msg) /\ ToSet(a) \subseteq Msg /\ ToSet(b) \subseteq Msg
  /\ Chained(next, q.head, a) /\ Chained(next, q.free, b)
  /\ q.tail = LastOf(a)
  /\ Placed(ToSet(a), ToSet(b), msg)
  /\ \A m \in Msg \ ToSet(b) : content[m] \in Letter
  /\ ~At("reset") => q.entry = Len(a)
  /\ q \in QueueRecord /\ next \in [Msg -> Pointer] /\ Null \notin Msg
  /\ msg \in [Thread -> Pointer] /\ mq_time \in [Thread -> Time]
  /\ content \in [Msg -> Letter \cup {NoLetter}]
  /\ q.head = Null <=> a = << >>
  /\ q.free = Null <=> b = << >>
  /\ Len(a) \in Nat /\ (a = << >> <=> Len(a) = 0)

LEMMA ListsAsTheyAre == MqListInv => \E a, b : ListsBefore(a, b)
<1>1. MqListInv => ListsBefore(Posted, Unused)
  BY MqListFacts DEF ListsBefore, MqTypes
<1> QED BY <1>1

(* rt_mq_send and rt_mq_urgent take a free message. *)
LEMMA TakeLists ==
  ASSUME MqListInv, NEW m \in Msg, NEW letter \in Letter, NEW label \in {"send", "urgent"},
         MqSendTake(m, letter, label)
  PROVE  ListOutcome
<1>1. PICK a, b : ListsBefore(a, b)
  BY ListsAsTheyAre
<1>2. PICK me \in Thread :
        /\ me = self /\ pc[me] = "run" /\ ~At("reset") /\ m = q.free
        /\ q' = [q EXCEPT !.free = next[m]] /\ next' = next /\ mq_time' = mq_time
        /\ content' = [content EXCEPT ![m] = letter]
        /\ msg' = [msg EXCEPT ![me] = m] /\ pc' = [pc EXCEPT ![me] = label]
  BY DEF MqSendTake, MqFree, At, Goto
<1> DEFINE fs == Tail(b)
<1>3. /\ m \in ToSet(b) /\ Chained(next, next[m], fs) /\ ToSet(fs) = ToSet(b) \ {m}
  <2>1. Chained(next, m, b) /\ b # << >>
    BY <1>1, <1>2 DEF ListsBefore
  <2> QED BY <2>1, LinkedRest
<1> HIDE DEF fs
<1>4. /\ q' \in QueueRecord /\ q'.head = q.head /\ q'.tail = q.tail /\ q'.free = next[m]
      /\ q'.entry = q.entry
  <2>1. next[m] \in Pointer /\ q \in QueueRecord
    BY <1>1 DEF ListsBefore
  <2> QED BY <1>2, <2>1 DEF QueueRecord
<1>5. /\ content' \in [Msg -> Letter \cup {NoLetter}]
      /\ \A n \in Msg : content'[n] = IF n = m THEN letter ELSE content[n]
  BY <1>1, <1>2 DEF ListsBefore
<1>6. MqTypes' /\ Hand(me, label, m)
  <2>1. /\ m \in Pointer /\ label \in MqLabel /\ m # Null /\ label \in Holds
        /\ next' \in [Msg -> Pointer] /\ mq_time' \in [Thread -> Time] /\ MqTypes
    BY <1>1, <1>2 DEF Pointer, MqLabel, Holds, ListsBefore
  <2> QED BY <1>2, <1>4, <1>5, <2>1, HandTypes
<1>7. Placed(ToSet(a), ToSet(fs), msg')
  <2>1. msg[me] = Null /\ msg \in [Thread -> Pointer] /\ Placed(ToSet(a), ToSet(b), msg)
    BY <1>1, <1>2, <1>6 DEF Hand, Holds, ListsBefore
  <2>2. Placed(ToSet(a), ToSet(b) \ {m}, [msg EXCEPT ![me] = m])
    BY <1>3, <2>1, PlacedInHand
  <2> QED BY <1>2, <1>3, <2>2
<1>8. MqListed(a, fs)'
  <2>1. \A n \in Msg \ ToSet(fs) : content'[n] \in Letter
    BY <1>1, <1>3, <1>5 DEF ListsBefore
  <2>2. /\ Chained(next', q'.head, a) /\ Chained(next', q'.free, fs)
        /\ q'.tail = LastOf(a) /\ q'.entry = Len(a)
    BY <1>1, <1>2, <1>3, <1>4 DEF ListsBefore
  <2> QED BY <1>7, <2>1, <2>2 DEF MqListed
<1>9. MqListInv' /\ Letters' = Spell(content', a)
  BY <1>6, <1>8, ListsBecome
<1>10. Letters' = Letters
  <2>1. \A n \in ToSet(a) : content'[n] = content[n]
    BY <1>1, <1>3, <1>5 DEF ListsBefore, Placed
  <2>2. Spell(content', a) = Spell(content, a)
    BY <1>1, <2>1, SpellSame DEF ListsBefore
  <2> QED BY <1>1, <1>9, <2>2 DEF Letters, ListsBefore
<1>11. Taken' = Taken
  <2>1. ASSUME NEW t \in Thread
        PROVE  /\ pc'[t] = "taken" <=> pc[t] = "taken"
               /\ pc[t] = "taken" => content'[msg'[t]] = content[msg[t]]
    <3>1. CASE t = me
      BY <1>2, <1>6, <3>1 DEF Hand
    <3>2. CASE t # me
      <4>1. pc'[t] = pc[t] /\ msg'[t] = msg[t]
        BY <1>6, <3>2 DEF Hand
      <4>2. ASSUME pc[t] = "taken" PROVE msg[t] # m /\ msg[t] \in Msg
        <5>1. msg[t] \in Msg
          BY <1>6, <4>2 DEF Hand, Holds
        <5> QED BY <1>1, <1>3, <5>1 DEF ListsBefore, Placed
      <4> QED BY <1>5, <4>1, <4>2
    <3> QED BY <3>1, <3>2
  <2> QED BY <2>1 DEF Taken, InHand
<1> QED BY <1>9, <1>10, <1>11 DEF ListOutcome, UrgentStep

\* A call at a label of Holds has a message.
LEMMA HandIsFull ==
  ASSUME MqListInv, NEW me \in Thread, pc[me] \in Holds
  PROVE  msg[me] \in Msg /\ msg[me] # Null /\ msg[me] \in Pointer
BY MqType DEF MqListInv, MqTypes, Pointer

\* Letters being copied stay where they are.
LEMMA TakenStays ==
  ASSUME NEW me, NEW label, NEW x, Hand(me, label, x), pc[me] # "taken", label # "taken",
         content' = content
  PROVE  Taken' = Taken
<1>1. \A t \in Thread : /\ pc'[t] = "taken" <=> pc[t] = "taken"
                        /\ pc[t] = "taken" => msg'[t] = msg[t]
  BY DEF Hand
<1> QED BY <1>1 DEF Taken, InHand

(* rt_mq_send and rt_mq_urgent link it. *)
LEMMA SendLists ==
  ASSUME MqListInv, MqSend \/ MqUrgent
  PROVE  ListOutcome
<1>1. PICK a, b : ListsBefore(a, b)
  BY ListsAsTheyAre
<1>2. PICK me \in Thread, label \in {"run", "sched"} :
        /\ me = self /\ pc[me] \in {"send", "urgent"} /\ ~At("reset")
        /\ content' = content /\ mq_time' = mq_time
        /\ msg' = [msg EXCEPT ![me] = Null] /\ pc' = [pc EXCEPT ![me] = label]
        /\ \/ /\ q' = LinkSent(q, next, msg[me]).queue
              /\ next' = LinkSent(q, next, msg[me]).next
           \/ /\ q' = LinkUrgent(q, next, msg[me]).queue
              /\ next' = LinkUrgent(q, next, msg[me]).next
  BY DEF MqSend, MqUrgent, MqSendLink, MqWake, At, Goto
<1>3. PICK m : m = msg[me]
  OBVIOUS
<1>4. /\ m \in Msg /\ m \notin ToSet(a) \cup ToSet(b) /\ m # Null
      /\ content[m] \in Letter
  <2>1. m \in Msg /\ m # Null
    BY <1>2, <1>3, HandIsFull DEF Holds
  <2> QED BY <1>1, <1>3, <2>1 DEF ListsBefore, Placed
<1>5. PICK l : /\ Chained(next', q'.head, l) /\ Chained(next', q.free, b)
               /\ q'.tail = LastOf(l) /\ q'.entry = q.entry + 1 /\ q'.free = q.free
               /\ q' \in QueueRecord /\ next' \in [Msg -> Pointer]
               /\ ToSet(l) = ToSet(a) \cup {m} /\ Len(l) = Len(a) + 1
               /\ l = Append(a, m) \/ l = <<m>> \o a
  <2>1. CASE /\ q' = LinkSent(q, next, m).queue
             /\ next' = LinkSent(q, next, m).next
    <3>1. LET left == LinkSent(q, next, m)
          IN  /\ Chained(left.next, left.queue.head, Append(a, m))
              /\ Chained(left.next, q.free, b)
              /\ left.queue.tail = LastOf(Append(a, m))
              /\ left.queue.entry = q.entry + 1 /\ left.queue.free = q.free
              /\ left.queue \in QueueRecord /\ left.next \in [Msg -> Pointer]
              /\ ToSet(Append(a, m)) = ToSet(a) \cup {m}
              /\ Len(Append(a, m)) = Len(a) + 1
      BY <1>1, <1>4, LinkSentLinks DEF ListsBefore, Placed
    <3> QED BY <2>1, <3>1
  <2>2. CASE /\ q' = LinkUrgent(q, next, m).queue
             /\ next' = LinkUrgent(q, next, m).next
    <3>1. LET left == LinkUrgent(q, next, m)
          IN  /\ Chained(left.next, left.queue.head, <<m>> \o a)
              /\ Chained(left.next, q.free, b)
              /\ left.queue.tail = LastOf(<<m>> \o a)
              /\ left.queue.entry = q.entry + 1 /\ left.queue.free = q.free
              /\ left.queue \in QueueRecord /\ left.next \in [Msg -> Pointer]
              /\ ToSet(<<m>> \o a) = ToSet(a) \cup {m}
              /\ Len(<<m>> \o a) = Len(a) + 1
      BY <1>1, <1>4, LinkUrgentLinks DEF ListsBefore, Placed
    <3> QED BY <2>2, <3>1
  <2> QED BY <1>2, <1>3, <2>1, <2>2
<1>6. MqTypes' /\ Hand(me, label, Null)
  <2>1. /\ Null \in Pointer /\ label \in MqLabel /\ label \notin Holds /\ MqTypes
        /\ content' \in [Msg -> Letter \cup {NoLetter}] /\ mq_time' \in [Thread -> Time]
    BY <1>1, <1>2 DEF Pointer, MqLabel, Holds, ListsBefore
  <2> QED BY <1>2, <1>5, <2>1, HandTypes
<1>7. Placed(ToSet(l), ToSet(b), msg')
  <2>1. Placed(ToSet(b), ToSet(a), msg) /\ msg \in [Thread -> Pointer]
    BY <1>1, PlacedSwaps DEF ListsBefore
  <2>2. Placed(ToSet(b), ToSet(a) \cup {msg[me]}, [msg EXCEPT ![me] = Null])
    BY <1>3, <1>4, <2>1, PlacedInList
  <2>3. Placed(ToSet(b), ToSet(l), msg')
    BY <1>2, <1>3, <1>5, <2>2
  <2> QED BY <2>3, PlacedSwaps
<1>8. MqListed(l, b)'
  BY <1>1, <1>2, <1>5, <1>7 DEF ListsBefore, MqListed
<1>9. MqListInv' /\ Letters' = Spell(content, l)
  BY <1>2, <1>6, <1>8, ListsBecome
<1>10. Letters = Spell(content, a)
  BY <1>1 DEF Letters, ListsBefore
<1>11. Letters' = Append(Letters, content[m]) \/ Letters' = <<content[m]>> \o Letters
  <2>1. a \in Seq(Msg)
    BY <1>1 DEF ListsBefore
  <2>2. CASE l = Append(a, m)
    <3>1. Spell(content, Append(a, m)) = Append(Spell(content, a), content[m])
      BY <1>4, <2>1, SpellAppend
    <3> QED BY <1>9, <1>10, <2>2, <3>1
  <2>3. CASE l = <<m>> \o a
    <3>1. Spell(content, <<m>> \o a) = <<content[m]>> \o Spell(content, a)
      BY <1>4, <2>1, SpellCons
    <3> QED BY <1>9, <1>10, <2>3, <3>1
  <2> QED BY <1>5, <2>2, <2>3
<1>12. Taken' = Taken
  BY <1>2, <1>6, TakenStays
<1> QED BY <1>4, <1>9, <1>11, <1>12 DEF ListOutcome, UrgentStep

(* An interrupt handler takes a free message and links it. *)
LEMMA IsrSendLists ==
  ASSUME MqListInv, NEW m \in Msg, NEW letter \in Letter, IsrMqSend(m, letter)
  PROVE  ListOutcome
<1>1. PICK a, b : ListsBefore(a, b)
  BY ListsAsTheyAre
<1>2. PICK u : u = [q EXCEPT !.free = next[m]]
  OBVIOUS
<1>3. /\ m = q.free /\ ~At("reset")
      /\ q' = LinkSent(u, next, m).queue /\ next' = LinkSent(u, next, m).next
      /\ content' = [content EXCEPT ![m] = letter]
      /\ UNCHANGED <<pc, msg, mq_time>>
  BY <1>2 DEF IsrMqSend, InterruptsOn
<1>4. PICK fs : fs = Tail(b)
  OBVIOUS
<1>5. /\ m \in ToSet(b) /\ Chained(next, next[m], fs) /\ ToSet(fs) = ToSet(b) \ {m}
  <2>1. Chained(next, m, b) /\ b # << >>
    BY <1>1, <1>3 DEF ListsBefore
  <2> QED BY <1>4, <2>1, LinkedRest
<1>6. /\ u \in QueueRecord /\ u.head = q.head /\ u.tail = q.tail /\ u.free = next[m]
      /\ u.entry = q.entry
  <2>1. next[m] \in Pointer /\ q \in QueueRecord
    BY <1>1 DEF ListsBefore
  <2> QED BY <1>2, <2>1 DEF QueueRecord
<1>7. m \notin ToSet(a) /\ m \notin ToSet(fs) /\ ToSet(a) \cap ToSet(fs) = {}
  BY <1>1, <1>5 DEF ListsBefore, Placed
<1>8. PICK l : /\ Chained(next', q'.head, l) /\ Chained(next', u.free, fs)
               /\ q'.tail = LastOf(l) /\ q'.entry = q.entry + 1 /\ q'.free = u.free
               /\ q' \in QueueRecord /\ next' \in [Msg -> Pointer]
               /\ ToSet(l) = ToSet(a) \cup {m} /\ Len(l) = Len(a) + 1
               /\ l = Append(a, m)
  <2>1. LET left == LinkSent(u, next, m)
        IN  /\ Chained(left.next, left.queue.head, Append(a, m))
            /\ Chained(left.next, u.free, fs)
            /\ left.queue.tail = LastOf(Append(a, m))
            /\ left.queue.entry = u.entry + 1 /\ left.queue.free = u.free
            /\ left.queue \in QueueRecord /\ left.next \in [Msg -> Pointer]
            /\ ToSet(Append(a, m)) = ToSet(a) \cup {m}
            /\ Len(Append(a, m)) = Len(a) + 1
    <3>1. /\ next \in [Msg -> Pointer] /\ Chained(next, u.head, a) /\ Chained(next, u.free, fs)
          /\ u.tail = LastOf(a) /\ m \notin ToSet(a) \cup ToSet(fs)
      BY <1>1, <1>5, <1>6, <1>7 DEF ListsBefore
    <3> QED BY <1>6, <1>7, <3>1, LinkSentLinks
  <2> QED BY <1>3, <1>6, <2>1
<1>9. /\ content' \in [Msg -> Letter \cup {NoLetter}]
      /\ \A n \in Msg : content'[n] = IF n = m THEN letter ELSE content[n]
  BY <1>1, <1>3 DEF ListsBefore
<1>10. MqTypes'
  BY <1>1, <1>3, <1>8, <1>9 DEF ListsBefore, MqTypes
<1>11. Placed(ToSet(l), ToSet(fs), msg')
  <2>1. Placed(ToSet(b), ToSet(a), msg)
    BY <1>1, PlacedSwaps DEF ListsBefore
  <2>2. Placed(ToSet(b) \ {m}, ToSet(a) \cup {m}, msg)
    BY <1>5, <2>1, PlacedInOther
  <2>3. Placed(ToSet(fs), ToSet(l), msg)
    BY <1>5, <1>8, <2>2
  <2> QED BY <1>3, <2>3, PlacedSwaps
<1>12. MqListed(l, fs)'
  <2>1. \A n \in Msg \ ToSet(fs) : content'[n] \in Letter
    BY <1>1, <1>5, <1>9 DEF ListsBefore
  <2>2. ~At("reset") => q'.entry = Len(l)
    BY <1>1, <1>3, <1>8 DEF ListsBefore
  <2> QED BY <1>3, <1>6, <1>8, <1>11, <2>1, <2>2 DEF MqListed
<1>13. MqListInv' /\ Letters' = Spell(content', l)
  BY <1>10, <1>12, ListsBecome
<1>14. Letters' = Append(Letters, letter)
  <2>1. \A n \in ToSet(a) : content'[n] = content[n]
    BY <1>1, <1>7, <1>9 DEF ListsBefore
  <2>2. Spell(content', a) = Spell(content, a)
    BY <1>1, <2>1, SpellSame DEF ListsBefore
  <2>3. Spell(content', l) = Append(Spell(content', a), content'[m])
    BY <1>1, <1>8, SpellAppend DEF ListsBefore
  <2> QED BY <1>1, <1>9, <1>13, <2>2, <2>3 DEF Letters, ListsBefore
<1>15. Taken' = Taken
  <2>1. ASSUME NEW t \in Thread, pc[t] = "taken"
        PROVE  content'[msg'[t]] = content[msg[t]]
    <3>1. msg[t] \in Msg /\ msg[t] # m
      <4>1. msg[t] \in Msg /\ msg[t] # Null
        BY <2>1, HandIsFull DEF Holds
      <4> QED BY <1>1, <1>5, <4>1 DEF ListsBefore, Placed
    <3> QED BY <1>3, <1>9, <3>1
  <2> QED BY <1>3, <2>1 DEF Taken, InHand
<1> QED BY <1>13, <1>14, <1>15 DEF ListOutcome, UrgentStep

(* rt_mq_recv takes the first message. *)
LEMMA RecvLists ==
  ASSUME MqListInv, NEW old \in {"run", "woken"}, At(old), q.entry > 0,
         q' = UnlinkHead(q), msg' = [msg EXCEPT ![self] = q.head],
         Goto("taken"), UNCHANGED <<content, next>>, mq_time' \in [Thread -> Time]
  PROVE  ListOutcome
<1>1. PICK a, b : ListsBefore(a, b)
  BY ListsAsTheyAre
<1>2. PICK m : m = q.head
  OBVIOUS
<1>3. PICK me \in Thread :
        /\ me = self /\ pc[me] = old /\ ~At("reset")
        /\ msg' = [msg EXCEPT ![me] = m] /\ pc' = [pc EXCEPT ![me] = "taken"]
  BY <1>2 DEF At, Goto
<1>4. PICK l : l = Tail(a)
  OBVIOUS
<1>5. /\ a # << >> /\ q.entry = Len(a)
      /\ m \in Msg /\ m = Head(a) /\ m \in ToSet(a)
      /\ Chained(next, next[m], l) /\ next[m] \in Pointer
      /\ ToSet(l) = ToSet(a) \ {m}
      /\ Len(l) = Len(a) - 1 /\ Len(a) \in Nat \ {0}
      /\ (IF q.tail = m THEN Null ELSE q.tail) = LastOf(l)
  <2>1. /\ q \in QueueRecord /\ next \in [Msg -> Pointer] /\ Chained(next, q.head, a)
        /\ q.tail = LastOf(a) /\ a # << >> /\ q.entry = Len(a)
    BY <1>1, <1>3 DEF ListsBefore
  <2> QED BY <1>2, <1>4, <2>1, UnlinkHeadLinks
<1>6. /\ q' \in QueueRecord /\ q'.head = next[m] /\ q'.free = q.free
      /\ q'.tail = LastOf(l) /\ q'.entry = Len(l)
  <2>1. q \in QueueRecord /\ q.entry \in Nat /\ q.entry - 1 \in Nat
    BY <1>1, <1>5 DEF ListsBefore, QueueRecord
  <2>2. q' = [q EXCEPT !.head = next[m], !.tail = LastOf(l), !.entry = q.entry - 1]
    BY <1>2, <1>5, <2>1 DEF UnlinkHead, QueueRecord
  <2>3. LastOf(l) \in Pointer
    <3>1. q.tail \in Pointer /\ Null \in Pointer
      BY <2>1 DEF QueueRecord, Pointer
    <3> QED BY <1>5, <3>1
  <2> QED BY <1>5, <2>1, <2>2, <2>3 DEF QueueRecord
<1>7. MqTypes' /\ Hand(me, "taken", m)
  <2>1. /\ m \in Pointer /\ "taken" \in MqLabel /\ m # Null /\ "taken" \in Holds
        /\ MqTypes
        /\ next' \in [Msg -> Pointer] /\ content' \in [Msg -> Letter \cup {NoLetter}]
    BY <1>1, <1>5 DEF Pointer, MqLabel, Holds, ListsBefore
  <2> QED BY <1>3, <1>6, <2>1, HandTypes
<1>8. Placed(ToSet(l), ToSet(b), msg')
  <2>1. msg[me] = Null /\ msg \in [Thread -> Pointer]
    BY <1>1, <1>3, <1>7 DEF Hand, Holds, ListsBefore
  <2>2. Placed(ToSet(b), ToSet(a), msg)
    BY <1>1, PlacedSwaps DEF ListsBefore
  <2>3. Placed(ToSet(b), ToSet(a) \ {m}, [msg EXCEPT ![me] = m])
    BY <1>5, <2>1, <2>2, PlacedInHand
  <2>4. Placed(ToSet(b), ToSet(l), msg')
    BY <1>3, <1>5, <2>3
  <2> QED BY <2>4, PlacedSwaps
<1>9. MqListed(l, b)'
  BY <1>1, <1>5, <1>6, <1>8 DEF ListsBefore, MqListed
<1>10. MqListInv' /\ Letters' = Spell(content, l)
  BY <1>7, <1>9, ListsBecome
<1>11. Letters # << >> /\ Head(Letters) = content[m] /\ Letters' = Tail(Letters)
  <2>1. /\ Spell(content, a) # << >> /\ Head(Spell(content, a)) = content[Head(a)]
        /\ Spell(content, Tail(a)) = Tail(Spell(content, a))
    BY <1>1, <1>5, SpellTail DEF ListsBefore
  <2> QED BY <1>1, <1>4, <1>5, <1>10, <2>1 DEF Letters, ListsBefore
<1>12. Taken[me] = NoLetter /\ Taken' = [Taken EXCEPT ![me] = content[m]]
  <2>1. ASSUME NEW t \in Thread
        PROVE  /\ pc'[t] = "taken" <=> pc[t] = "taken" \/ t = me
               /\ pc[t] = "taken" => t # me
               /\ msg'[t] = IF t = me THEN m ELSE msg[t]
    BY <1>3, <1>7 DEF Hand
  <2> DEFINE e == [t \in Thread |-> IF t = me THEN content[m]
                                   ELSE IF pc[t] = "taken" THEN content[msg[t]]
                                   ELSE NoLetter]
  <2>2. Taken' = e
    BY <2>1 DEF Taken, InHand
  <2>3. Taken[me] = NoLetter /\ [Taken EXCEPT ![me] = content[m]] = e
    BY <2>1 DEF Taken, InHand
  <2> QED BY <2>2, <2>3
<1> QED BY <1>10, <1>11, <1>12 DEF ListOutcome, UrgentStep

(* It has copied it, and frees it. *)
LEMMA RecvDoneLists ==
  ASSUME MqListInv, MqRecvDone
  PROVE  ListOutcome
<1>1. PICK a, b : ListsBefore(a, b)
  BY ListsAsTheyAre
<1>2. PICK m : m = msg[self]
  OBVIOUS
<1>3. PICK me \in Thread :
        /\ me = self /\ pc[me] = "taken" /\ ~At("reset") /\ m = msg[me]
        /\ q' = [q EXCEPT !.free = m] /\ next' = [next EXCEPT ![m] = q.free]
        /\ msg' = [msg EXCEPT ![me] = Null] /\ pc' = [pc EXCEPT ![me] = "run"]
        /\ content' = content /\ mq_time' = mq_time
  BY <1>2 DEF MqRecvDone, At, Goto
<1>4. /\ m \in Msg /\ m # Null /\ m \notin ToSet(a) \cup ToSet(b) /\ content[m] \in Letter
  <2>1. m \in Msg /\ m # Null
    BY <1>3, HandIsFull DEF Holds
  <2> QED BY <1>1, <1>3, <2>1 DEF ListsBefore, Placed
<1>5. PICK fs : fs = <<m>> \o b
  OBVIOUS
<1>6. Chained(next', m, fs) /\ ToSet(fs) = ToSet(b) \cup {m}
  <2>1. /\ next \in [Msg -> Pointer] /\ Chained(next, q.free, b) /\ m \notin ToSet(b)
        /\ next' = [next EXCEPT ![m] = q.free]
    BY <1>1, <1>3, <1>4 DEF ListsBefore
  <2>2. Chained(next', m, <<m>> \o b) /\ ToSet(<<m>> \o b) = ToSet(b) \cup {m}
    <3>1. Chained(next', m, <<m>> \o b)
      BY <1>4, <2>1, LinkedFront
    <3>2. ToSet(<<m>> \o b) = ToSet(b) \cup {m}
      BY <1>4, <2>1, LinkedFront
    <3> QED BY <3>1, <3>2
  <2> QED BY <1>5, <2>2
<1>7. /\ q' \in QueueRecord /\ q'.head = q.head /\ q'.tail = q.tail /\ q'.free = m
      /\ q'.entry = q.entry /\ next' \in [Msg -> Pointer]
      /\ \A n \in ToSet(a) : next'[n] = next[n]
  <2>1. m \in Pointer /\ q \in QueueRecord /\ next \in [Msg -> Pointer] /\ q.free \in Pointer
    BY <1>1, <1>4 DEF ListsBefore, Pointer, QueueRecord
  <2>2. \A n \in ToSet(a) : n \in Msg /\ n # m
    BY <1>1, <1>4 DEF ListsBefore
  <2>3. /\ q' \in QueueRecord /\ q'.head = q.head /\ q'.tail = q.tail /\ q'.free = m
        /\ q'.entry = q.entry
    BY <1>3, <2>1 DEF QueueRecord
  <2> QED BY <1>3, <2>1, <2>2, <2>3
<1>8. Chained(next', q'.head, a)
  BY <1>1, <1>7, LinkedFrame DEF ListsBefore
<1>9. MqTypes' /\ Hand(me, "run", Null)
  <2>1. /\ Null \in Pointer /\ "run" \in MqLabel /\ "run" \notin Holds /\ MqTypes
        /\ content' \in [Msg -> Letter \cup {NoLetter}] /\ mq_time' \in [Thread -> Time]
    BY <1>1, <1>3 DEF Pointer, MqLabel, Holds, ListsBefore
  <2> QED BY <1>3, <1>7, <2>1, HandTypes
<1>10. Placed(ToSet(a), ToSet(fs), msg')
  <2>1. Placed(ToSet(a), ToSet(b), msg) /\ msg \in [Thread -> Pointer]
    BY <1>1 DEF ListsBefore
  <2>2. Placed(ToSet(a), ToSet(b) \cup {msg[me]}, [msg EXCEPT ![me] = Null])
    BY <1>3, <1>4, <2>1, PlacedInList
  <2> QED BY <1>3, <1>6, <2>2
<1>11. MqListed(a, fs)'
  BY <1>1, <1>3, <1>6, <1>7, <1>8, <1>10 DEF ListsBefore, MqListed
<1>12. MqListInv' /\ Letters' = Letters
  BY <1>1, <1>3, <1>9, <1>11, ListsBecome DEF Letters, ListsBefore
<1>13. Taken[me] # NoLetter /\ Taken' = [Taken EXCEPT ![me] = NoLetter]
  <2>1. ASSUME NEW t \in Thread
        PROVE  /\ pc'[t] = "taken" <=> pc[t] = "taken" /\ t # me
               /\ t # me => msg'[t] = msg[t]
    BY <1>3, <1>9 DEF Hand
  <2>2. Taken[me] = content[m]
    BY <1>3 DEF Taken, InHand
  <2> DEFINE e == [t \in Thread |-> IF t = me THEN NoLetter
                                   ELSE IF pc[t] = "taken" THEN content[msg[t]]
                                   ELSE NoLetter]
  <2>3. Taken' = e
    BY <1>3, <2>1 DEF Taken, InHand
  <2>4. [Taken EXCEPT ![me] = NoLetter] = e
    BY <2>1 DEF Taken, InHand
  <2>5. Taken[me] # NoLetter
    BY <1>4, <2>2, MqType
  <2> QED BY <2>3, <2>4, <2>5
<1> QED BY <1>12, <1>13 DEF ListOutcome, UrgentStep

(* The first message goes straight to the free list. *)
LEMMA DropLists ==
  ASSUME MqListInv, NEW m, m = q.head, m # Null,
         q' \in QueueRecord, q'.head = next[m], q'.free = m,
         q'.tail = IF q.tail = m THEN Null ELSE q.tail,
         next' = [next EXCEPT ![m] = q.free],
         UNCHANGED <<pc, content, msg, mq_time>>,
         At("reset")' \/ (~At("reset") /\ q'.entry = q.entry - 1)
  PROVE  ListOutcome
<1>1. PICK a, b : ListsBefore(a, b)
  BY ListsAsTheyAre
<1>2. PICK l : l = Tail(a)
  OBVIOUS
<1>3. PICK fs : fs = <<m>> \o b
  OBVIOUS
<1>4. /\ a # << >>
      /\ m \in Msg /\ m = Head(a) /\ m \in ToSet(a)
      /\ Chained(next, next[m], l) /\ next[m] \in Pointer
      /\ ToSet(l) = ToSet(a) \ {m}
      /\ Len(l) = Len(a) - 1 /\ Len(a) \in Nat \ {0}
      /\ q'.tail = LastOf(l)
  <2>1. /\ q \in QueueRecord /\ next \in [Msg -> Pointer] /\ Chained(next, q.head, a)
        /\ q.tail = LastOf(a) /\ a # << >>
    BY <1>1 DEF ListsBefore
  <2>2. /\ q.head \in Msg /\ q.head = Head(a) /\ q.head \in ToSet(a)
        /\ Chained(next, next[q.head], Tail(a)) /\ next[q.head] \in Pointer
        /\ ToSet(Tail(a)) = ToSet(a) \ {q.head}
        /\ Len(Tail(a)) = Len(a) - 1 /\ Len(a) \in Nat \ {0}
        /\ (IF q.tail = q.head THEN Null ELSE q.tail) = LastOf(Tail(a))
    BY <2>1, UnlinkHeadLinks
  <2> QED BY <1>2, <2>1, <2>2
<1>5. /\ m \notin ToSet(b) /\ next \in [Msg -> Pointer] /\ Chained(next, q.free, b)
      /\ q.free \in Pointer
  BY <1>1, <1>4 DEF ListsBefore, Placed, QueueRecord
<1>6. Chained(next', m, fs) /\ ToSet(fs) = ToSet(b) \cup {m}
  <2>1. /\ next \in [Msg -> Pointer] /\ Chained(next, q.free, b) /\ m \in Msg
        /\ m \notin ToSet(b) /\ next' = [next EXCEPT ![m] = q.free]
    BY <1>4, <1>5
  <2>2. Chained(next', m, <<m>> \o b) /\ ToSet(<<m>> \o b) = ToSet(b) \cup {m}
    <3>1. Chained(next', m, <<m>> \o b)
      BY <2>1, LinkedFront
    <3>2. ToSet(<<m>> \o b) = ToSet(b) \cup {m}
      BY <2>1, LinkedFront
    <3> QED BY <3>1, <3>2
  <2> QED BY <1>3, <2>2
<1>7. Chained(next', q'.head, l)
  <2>1. \A n \in ToSet(l) : next'[n] = next[n]
    <3>1. \A n \in ToSet(l) : n \in Msg /\ n # m
      BY <1>1, <1>4 DEF ListsBefore
    <3> QED BY <1>5, <3>1
  <2> QED BY <1>4, <2>1, LinkedFrame
<1>8. MqTypes'
  <2>1. next' \in [Msg -> Pointer]
    BY <1>4, <1>5
  <2> QED BY <1>1, <2>1 DEF ListsBefore, MqTypes
<1>9. Placed(ToSet(l), ToSet(fs), msg')
  <2>1. Placed(ToSet(a) \ {m}, ToSet(b) \cup {m}, msg)
    BY <1>1, <1>4, PlacedInOther DEF ListsBefore
  <2> QED BY <1>4, <1>6, <2>1
<1>10. MqListed(l, fs)'
  <2>1. ~At("reset")' => q'.entry = Len(l)
    BY <1>1, <1>4 DEF ListsBefore
  <2> QED BY <1>1, <1>4, <1>6, <1>7, <1>9, <2>1 DEF ListsBefore, MqListed
<1>11. MqListInv' /\ Letters' = Spell(content, l)
  BY <1>8, <1>10, ListsBecome
<1>12. Letters # << >> /\ Letters' = Tail(Letters)
  <2>1. /\ Spell(content, a) # << >>
        /\ Spell(content, Tail(a)) = Tail(Spell(content, a))
    BY <1>1, <1>4, SpellTail DEF ListsBefore
  <2> QED BY <1>1, <1>2, <1>11, <2>1 DEF Letters, ListsBefore
<1>13. Taken' = Taken
  BY DEF Taken, InHand
<1> QED BY <1>11, <1>12, <1>13 DEF ListOutcome, UrgentStep

\* A call goes on between labels at which it holds no message.
LEMMA QuietCall ==
  ASSUME MqListInv, NEW old, At(old), old \notin Holds, old # "reset",
         NEW to \in MqLabel \ Holds, Goto(to),
         UNCHANGED <<q, next, content, msg>>, mq_time' \in [Thread -> Time]
  PROVE  ListOutcome
<1>1. PICK me \in Thread : me = self /\ pc[me] = old /\ pc' = [pc EXCEPT ![me] = to]
  BY DEF At, Goto
<1>2. pc \in [Thread -> MqLabel]
  BY DEF MqListInv, MqTypes
<1>3. /\ pc' \in [Thread -> MqLabel]
      /\ \A t \in Thread : pc'[t] = pc[t] \/ (pc[t] \notin Holds /\ pc'[t] \notin Holds)
  BY <1>1, <1>2
<1>4. ~At("reset")
  BY DEF At
<1> QED BY <1>3, <1>4, QuietLists

LEMMA TimesKept ==
  ASSUME MqListInv, NEW t, NEW e \in Time,
         mq_time' = mq_time \/ mq_time' = [mq_time EXCEPT ![t] = e]
  PROVE  mq_time' \in [Thread -> Time]
BY DEF MqListInv, MqTypes

LEMMA TryRecvLists ==
  ASSUME MqListInv, NEW old \in {"run", "woken"}, At(old), NEW left \in Time, NEW e,
         MqTryRecv(left, e)
  PROVE  ListOutcome
<1>1. mq_time' \in [Thread -> Time]
  <2>1. "no" \in Time
    BY DEF Time
  <2> QED BY <2>1, TimesKept DEF MqTryRecv
<1>2. CASE /\ q.entry > 0 /\ q' = UnlinkHead(q)
           /\ msg' = [msg EXCEPT ![self] = q.head] /\ Goto("taken")
  <2>1. UNCHANGED <<content, next>>
    BY DEF MqTryRecv
  <2> QED BY <1>1, <1>2, <2>1, RecvLists
<1>3. CASE UNCHANGED <<q, msg>> /\ \E to \in {"wait", "run"} : Goto(to)
  <2>1. UNCHANGED <<content, next>>
    BY DEF MqTryRecv
  <2>2. PICK to \in {"wait", "run"} : Goto(to)
    BY <1>3
  <2>3. to \in MqLabel \ Holds /\ old \notin Holds /\ old # "reset"
    BY DEF MqLabel, Holds
  <2> QED BY <1>1, <1>3, <2>1, <2>2, <2>3, QuietCall
<1> QED BY <1>2, <1>3 DEF MqTryRecv

LEMMA ResetLists ==
  ASSUME CpuInv, MqListInv, MqResetResume \/ MqResetMessage \/ MqResetEnd
  PROVE  ListOutcome
<1>1. CASE MqResetResume
  <2>1. KernelInv(k, {}) /\ mq \in Queue
    BY MqType DEF CpuInv
  <2>2. k'.current_thread = k.current_thread
    BY <1>1, <2>1, ResumeWithErrorKeepsInv DEF MqResetResume, WokenUp
  <2>3. At("reset")' /\ UNCHANGED <<pc, q, next, content, msg, mq_time>>
    BY <1>1, <2>2 DEF MqResetResume, At, self, mqvars
  <2> QED BY <2>3, QuietLists DEF MqListInv, MqTypes
<1>2. CASE MqResetMessage
  <2>1. PICK m : m = q.head
    OBVIOUS
  <2>2. /\ m # Null /\ At("reset") /\ UNCHANGED <<k, pc, content, msg, mq_time>>
        /\ q' = [q EXCEPT !.head = next[m],
                          !.tail = IF q.tail = m THEN Null ELSE q.tail, !.free = m]
        /\ next' = [next EXCEPT ![m] = q.free]
    BY <1>2, <2>1 DEF MqResetMessage, MqListInv, MqTypes, QueueRecord
  <2>3. /\ q \in QueueRecord /\ m \in Msg /\ next[m] \in Pointer /\ q.tail \in Pointer
        /\ Null \in Pointer /\ m \in Pointer
    BY <2>1, <2>2 DEF MqListInv, MqTypes, QueueRecord, Pointer
  <2>4. /\ q' \in QueueRecord /\ q'.head = next[m] /\ q'.free = m
        /\ q'.tail = IF q.tail = m THEN Null ELSE q.tail
    BY <2>2, <2>3 DEF QueueRecord
  <2>5. At("reset")'
    BY <2>2 DEF At, self
  <2> QED BY <2>1, <2>2, <2>4, <2>5, DropLists
<1>3. CASE MqResetEnd
  <2>1. PICK a, b : ListsBefore(a, b)
    BY ListsAsTheyAre
  <2>2. PICK me \in Thread :
          /\ pc[me] = "reset" /\ pc' = [pc EXCEPT ![me] = "sched"]
          /\ q' = [q EXCEPT !.entry = 0] /\ q.head = Null
          /\ UNCHANGED <<next, content, msg, mq_time>>
    BY <1>3 DEF MqResetEnd, At, Goto
  <2>3. a = << >> /\ Len(a) = 0
    BY <2>1, <2>2 DEF ListsBefore
  <2>4. /\ q' \in QueueRecord /\ q'.head = q.head /\ q'.free = q.free /\ q'.tail = q.tail
        /\ q'.entry = 0
    BY <2>1, <2>2 DEF ListsBefore, QueueRecord
  <2>5. \A t \in Thread : pc'[t] = pc[t] \/ (pc[t] \notin Holds /\ pc'[t] \notin Holds)
    BY <2>1, <2>2 DEF ListsBefore, MqTypes, Holds
  <2>6. MqTypes'
    <3>1. pc' \in [Thread -> MqLabel]
      BY <2>1, <2>2 DEF ListsBefore, MqTypes, MqLabel
    <3> QED BY <2>1, <2>2, <2>4, <2>5, <3>1 DEF ListsBefore, MqTypes
  <2>7. MqListed(a, b)'
    BY <2>1, <2>2, <2>3, <2>4 DEF ListsBefore, MqListed
  <2>8. MqListInv' /\ Letters' = Letters
    BY <2>1, <2>2, <2>6, <2>7, ListsBecome DEF Letters, ListsBefore
  <2>9. Taken' = Taken
    BY <2>2, <2>5 DEF Taken, InHand, Holds
  <2> QED BY <2>8, <2>9 DEF ListOutcome, UrgentStep
<1> QED BY <1>1, <1>2, <1>3

LEMMA IsrRecvLists ==
  ASSUME MqListInv, IsrMqRecv
  PROVE  ListOutcome
<1>1. PICK a, b : ListsBefore(a, b)
  BY ListsAsTheyAre
<1>2. PICK m : m = q.head
  OBVIOUS
<1>3. /\ ~At("reset") /\ q.entry > 0 /\ UNCHANGED <<k, pc, content, msg, mq_time>>
      /\ q' = [q EXCEPT !.head = next[m], !.entry = q.entry - 1,
                        !.tail = IF q.tail = m THEN Null ELSE q.tail, !.free = m]
      /\ next' = [next EXCEPT ![m] = q.free]
  BY <1>1, <1>2 DEF IsrMqRecv, InterruptsOn, UnlinkHead, ListsBefore, QueueRecord
<1>4. m # Null /\ m \in Msg
  <2>1. Len(a) > 0 /\ a # << >>
    BY <1>1, <1>3 DEF ListsBefore
  <2> QED BY <1>1, <1>2, <2>1 DEF ListsBefore, QueueRecord, Pointer
<1>5. /\ q \in QueueRecord /\ next[m] \in Pointer /\ q.tail \in Pointer /\ m \in Pointer
      /\ Null \in Pointer /\ q.entry - 1 \in Nat
  BY <1>1, <1>3, <1>4 DEF ListsBefore, QueueRecord, Pointer
<1>6. /\ q' \in QueueRecord /\ q'.head = next[m] /\ q'.free = m /\ q'.entry = q.entry - 1
      /\ q'.tail = IF q.tail = m THEN Null ELSE q.tail
  BY <1>3, <1>5 DEF QueueRecord
<1> QED BY <1>2, <1>3, <1>4, <1>6, DropLists

LEMMA CpuLists ==
  ASSUME MqListInv, CpuStep, UNCHANGED mqvars
  PROVE  ListOutcome
<1>1. UNCHANGED <<q, next, content, msg, mq_time>> /\ mq_time' \in [Thread -> Time]
  BY DEF mqvars, MqListInv, MqTypes
<1>2. CASE Delay
  <2>1. At("run") /\ Goto("sched") /\ "run" \notin Holds /\ "sched" \in MqLabel \ Holds
    BY <1>2 DEF Delay, Holds, MqLabel
  <2> QED BY <1>1, <2>1, QuietCall
<1>3. CASE ~At("reset") /\ UNCHANGED pc
  BY <1>1, <1>3, QuietLists DEF MqListInv, MqTypes
<1> QED BY <1>2, <1>3 DEF CpuStep, Tick, Startup, TimerCheck, InterruptsOn

LEMMA ListStep ==
  ASSUME CpuInv, MqListInv, [MqNext]_<<k, pc, mqvars>>
  PROVE  ListOutcome
<1>0. mq_time \in [Thread -> Time] /\ "no" \in Time /\ MqTimes \subseteq Time
  BY MqType DEF MqListInv, MqTypes, Time
<1>1. CASE UNCHANGED <<k, pc, mqvars>>
  <2>1. UNCHANGED <<pc, q, next, content, msg, mq_time>> /\ (At("reset") => At("reset")')
    BY <1>1 DEF mqvars, At, self
  <2> QED BY <2>1, QuietLists DEF MqListInv, MqTypes
<1>2. CASE CpuStep /\ UNCHANGED mqvars
  BY <1>2, CpuLists
<1>3. ASSUME NEW m \in Msg, NEW letter \in Letter,
             \/ MqSendTake(m, letter, "send") \/ MqSendTake(m, letter, "urgent")
             \/ IsrMqSend(m, letter)
      PROVE  ListOutcome
  BY <1>3, TakeLists, IsrSendLists
<1>4. CASE MqSend \/ MqUrgent
  BY <1>4, SendLists
<1>5. CASE \/ MqReschedule \/ MqRecvSchedule \/ MqDetachTest \/ MqDetachTurn
           \/ MqDetach \/ MqReset \/ MqRecvFails
  <2>1. /\ UNCHANGED <<q, next, content, msg>>
        /\ mq_time' \in [Thread -> Time]
    BY <1>0, <1>5 DEF MqReschedule, MqRecvSchedule, MqDetachTest, MqDetachTurn, MqDetach,
                      MqReset, MqRecvFails, mqvars
  <2>2. PICK old \in {"sched", "wait", "scan", "resume", "run", "woken"},
             to \in {"run", "woken", "resume", "scan", "reset"} : At(old) /\ Goto(to)
    BY <1>5 DEF MqReschedule, MqRecvSchedule, MqDetachTest, MqDetachTurn, MqDetach,
                MqReset, MqRecvFails, ScheduleAt, ResumeAllTest, ResumeAllTurn, MqFree
  <2>3. old \notin Holds /\ old # "reset" /\ to \in MqLabel \ Holds
    BY DEF Holds, MqLabel
  <2> QED BY <2>1, <2>2, <2>3, QuietCall
<1>6. ASSUME NEW left \in MqTimes, MqRecv(left)
      PROVE  ListOutcome
  <2>1. left \in Time /\ At("run") /\ MqTryRecv(left, k.error[self])
    BY <1>0, <1>6 DEF MqRecv, MqFree
  <2> QED BY <2>1, TryRecvLists
<1>7. ASSUME NEW left \in Time, MqRecvRetries(left)
      PROVE  ListOutcome
  <2>1. At("woken") /\ MqTryRecv(left, "timeout")
    BY <1>7 DEF MqRecvRetries
  <2> QED BY <2>1, TryRecvLists
<1>8. CASE MqRecvDone
  BY <1>8, RecvDoneLists
<1>9. CASE IsrMqRecv
  BY <1>9, IsrRecvLists
<1>10. CASE MqResetResume \/ MqResetMessage \/ MqResetEnd
  BY <1>10, ResetLists
<1> QED BY <1>1, <1>2, <1>3, <1>4, <1>5, <1>6, <1>7, <1>8, <1>9, <1>10 DEF MqNext

-----------------------------------------------------------------------------
(* The free list at the start *)

LEMMA AllInOrder ==
  ASSUME NEW o \in [1 .. Cardinality(Msg) -> Msg], NoRepeat(o)
  PROVE  /\ o \in Seq(Msg) /\ ToSet(o) = Msg /\ Len(o) = Cardinality(Msg)
<1> DEFINE n == Cardinality(Msg)
<1>1. IsFiniteSet(Msg) /\ n \in Nat /\ ExistsBijection(1 .. n, Msg)
  BY MqType, FS_CardinalityType
<1>2. IsFiniteSet(1 .. n) /\ Cardinality(1 .. n) = n
  BY <1>1, FS_Interval
<1>3. o \in Injection(1 .. n, Msg)
  BY DEF NoRepeat, Injection, IsInjective
<1>4. o \in Surjection(1 .. n, Msg)
  BY <1>1, <1>2, <1>3, FS_Injection
<1>5. o \in Seq(Msg) /\ Len(o) = n
  BY <1>1
<1> QED BY <1>4, <1>5 DEF Surjection, ToSet

LEMMA InitLists == MqInit => MqListInv /\ Letters = << >> /\ Taken = [t \in Thread |-> NoLetter]
<1> SUFFICES ASSUME MqInit
             PROVE  MqListInv /\ Letters = << >> /\ Taken = [t \in Thread |-> NoLetter]
  OBVIOUS
<1>1. PICK o \in [1 .. Cardinality(Msg) -> Msg] :
        /\ NoRepeat(o)
        /\ q = [head |-> Null, tail |-> Null, entry |-> 0,
                free |-> IF o = << >> THEN Null ELSE o[1]]
        /\ next = [m \in Msg |-> LET i == Position(o, m)
                                 IN  IF i = Len(o) THEN Null ELSE o[i + 1]]
  BY DEF MqInit
<1>2. /\ o \in Seq(Msg) /\ ToSet(o) = Msg /\ DOMAIN o = 1 .. Len(o) /\ Len(o) \in Nat
      /\ \A i \in 1 .. Len(o) : o[i] \in Msg
  BY <1>1, AllInOrder
<1>3. /\ content = [m \in Msg |-> NoLetter] /\ msg = [t \in Thread |-> Null]
      /\ mq_time = [t \in Thread |-> "no"] /\ pc = [t \in Thread |-> "run"]
  BY DEF MqInit, IpcInit
<1>4. \A i \in 1 .. Len(o) : Position(o, o[i]) = i
  <2>1. ASSUME NEW i \in 1 .. Len(o) PROVE Position(o, o[i]) = i
    <3>1. \E j \in DOMAIN o : o[j] = o[i]
      BY <1>2
    <3>2. Position(o, o[i]) \in DOMAIN o /\ o[Position(o, o[i])] = o[i]
      BY <3>1 DEF Position
    <3> QED BY <1>1, <1>2, <3>2 DEF NoRepeat
  <2> QED BY <2>1
<1>5. \A i \in 1 .. Len(o) : next[o[i]] = IF i = Len(o) THEN Null ELSE o[i + 1]
  BY <1>1, <1>2, <1>4
<1>6. Chained(next, q.free, o)
  BY <1>1, <1>2, <1>5 DEF Chained
<1>7. Chained(next, q.head, << >>)
  BY <1>1 DEF Chained, NoRepeat
<1>8. MqTypes
  <2>1. \A m \in Msg : Position(o, m) \in 1 .. Len(o)
    <3>1. \A m \in Msg : \E j \in DOMAIN o : o[j] = m
      BY <1>2 DEF ToSet
    <3> QED BY <1>2, <3>1 DEF Position
  <2>2. next \in [Msg -> Pointer]
    <3>1. ASSUME NEW m \in Msg
          PROVE  (IF Position(o, m) = Len(o) THEN Null ELSE o[Position(o, m) + 1]) \in Pointer
      <4>1. Position(o, m) # Len(o) => Position(o, m) + 1 \in 1 .. Len(o)
        BY <1>2, <2>1
      <4> QED BY <1>2, <4>1 DEF Pointer
    <3> QED BY <1>1, <3>1
  <2>3. q \in QueueRecord
    <3>1. (IF o = << >> THEN Null ELSE o[1]) \in Pointer
      <4>1. o # << >> => 1 \in 1 .. Len(o)
        BY <1>2
      <4> QED BY <1>2, <4>1 DEF Pointer
    <3>2. Null \in Pointer
      BY DEF Pointer
    <3> QED BY <1>1, <3>1, <3>2 DEF QueueRecord
  <2> QED BY <1>3, <2>2, <2>3 DEF MqTypes, MqLabel, Holds, Time, Pointer
<1>9. MqListed(<< >>, o)
  <2>1. Len(<< >>) = 0 /\ ToSet(<< >>) = {}
    BY DEF ToSet
  <2>2. Placed(ToSet(<< >>), ToSet(o), msg)
    BY <1>2, <1>3, <2>1 DEF Placed
  <2>3. q.tail = Null /\ q.entry = 0
    BY <1>1
  <2> QED BY <1>2, <1>6, <1>7, <2>1, <2>2, <2>3 DEF MqListed, LastOf
<1>10. Posted = << >> /\ Unused = o
  BY <1>9, ListedAre
<1>11. MqListInv
  BY <1>8, <1>9, <1>10 DEF MqListInv
<1>12. Letters = << >>
  BY <1>10 DEF Letters, Spell
<1>13. Taken = [t \in Thread |-> NoLetter]
  BY <1>3 DEF Taken, InHand
<1> QED BY <1>11, <1>12, <1>13

LEMMA UrgentStepImplements ==
  ASSUME UrgentStep PROVE [Urgent!UqNext]_(Urgent!uqvars)
BY DEF UrgentStep, Letters, Taken, Spell, InHand, Posted, Urgent!UqNext, Urgent!uqvars,
       Urgent!UqSend, Urgent!UqUrgent, Urgent!UqTake, Urgent!UqCopied, Urgent!UqDrop

-----------------------------------------------------------------------------
(* A message queue loses no wakeup *)

MqWaits == Nodes(k, mq)

\* Who waits is in rt_mq_recv, and has been told nothing.
MqSound == \A t \in MqWaits : t \in InCall /\ k.error[t] = "ok"

MqClaimed == /\ IsFiniteSet(Hopeful)
             /\ MqWaits # {} => q.entry <= Cardinality(Hopeful)

MqInv == CpuInv /\ MqListInv /\ MqSound /\ MqClaimed

MqOutcome == CpuInv' /\ MqSound' /\ MqClaimed'

LEMMA MqFacts ==
  ASSUME MqInv
  PROVE  /\ CpuInv /\ MqListInv /\ pc \in [Thread -> MqLabel] /\ mq \in Queue
         /\ q.entry \in Nat
         /\ MqWaits \subseteq Thread /\ (MqWaits = {} <=> k.list[mq] = << >>)
         /\ \A t \in Nodes(k, mq) : t \in InCall /\ k.error[t] = "ok"
<1>1. CpuInv /\ MqListInv /\ MqSound /\ mq \in Queue
  BY MqType DEF MqInv
<1>2. MqWaits \subseteq Thread /\ (MqWaits = {} <=> k.list[mq] = << >>)
  BY <1>1, NodesAreThreads DEF MqWaits
<1> QED BY <1>1, <1>2 DEF MqSound, MqWaits, MqListInv, MqTypes, QueueRecord

LEMMA MqInvNoLostWakeup == MqInv => MqNoLostWakeup
<1> SUFFICES ASSUME MqInv PROVE MqNoLostWakeup
  OBVIOUS
<1>1. Hopeful = {t \in Thread : /\ pc[t] \in {"wait", "woken"}
                                /\ k.stat[t] = "ready" /\ k.error[t] = "ok"}
  BY DEF Hopeful, InCall
<1> QED BY <1>1, MqFacts DEF MqInv, MqClaimed, MqNoLostWakeup

LEMMA MqClaimKept ==
  ASSUME MqInv, q'.entry \in Nat,
         \/ MqWaits' \subseteq MqWaits /\ q'.entry <= q.entry /\ Hopeful' = Hopeful
         \/ MqWaits' \subseteq MqWaits /\ q'.entry <= q.entry + 1
            /\ \E t : t \notin Hopeful /\ Hopeful' = Hopeful \cup {t}
         \/ MqWaits' = {} /\ Hopeful' = Hopeful
         \/ MqWaits' \subseteq MqWaits /\ q'.entry <= q.entry - 1
            /\ \E u : Hopeful' = Hopeful \ {u}
         \/ q'.entry = 0 /\ \E u : Hopeful' = Hopeful \ {u}
  PROVE  MqClaimed'
<1>1. /\ q.entry \in Nat /\ IsFiniteSet(Hopeful)
      /\ MqWaits # {} => q.entry <= Cardinality(Hopeful)
  BY MqFacts DEF MqInv, MqClaimed
<1>2. IsFiniteSet(Hopeful') /\ (MqWaits' # {} => q'.entry <= Cardinality(Hopeful'))
  BY <1>1, ClaimsKept
<1> QED BY <1>2 DEF MqClaimed

LEMMA MqKeptOutcome ==
  ASSUME MqInv, CpuInv', CallsKept, q'.entry = q.entry
  PROVE  MqOutcome
<1>1. /\ MqWaits' \subseteq MqWaits /\ Hopeful' = Hopeful
      /\ \A t \in MqWaits' : k'.error[t] = k.error[t]
      /\ InCall' = InCall
  BY MqFacts DEF CallsKept, MqWaits
<1>2. MqSound'
  BY <1>1, MqFacts DEF MqSound, MqWaits
<1>3. MqClaimed'
  BY <1>1, MqFacts, MqClaimKept
<1> QED BY <1>2, <1>3 DEF MqOutcome

(* The running thread goes on outside the wait, and wakes nobody. *)
LEMMA MqLeaveOutcome ==
  ASSUME MqInv, NEW old, At(old), old \notin AboutToSchedule,
         NEW label \in MqLabel \ {"wait", "woken"}, Goto(label),
         \/ k' = k
         \/ \E e \in Error : k' = SetError(k, self, e) /\ old \in {"run", "woken"},
         q'.entry \in Nat,
         \/ q'.entry <= q.entry /\ (old \notin {"wait", "woken"} \/ k.error[self] # "ok")
         \/ q'.entry <= q.entry - 1
         \/ q'.entry = 0
         \/ MqWaits = {} /\ old \notin {"wait", "woken"}
  PROVE  MqOutcome
<1>1. PICK me \in Thread : me = self /\ k.stat[me] = "ready" /\ pc[me] = old
  BY MqFacts, RunnerIsReady
<1>2. /\ CpuInv' /\ pc' \in [Thread -> MqLabel]
      /\ InCall' = InCall \ {me} /\ Hopeful' = Hopeful \ {me}
      /\ \A g \in Queue : Nodes(k', g) = Nodes(k, g) /\ me \notin Nodes(k, g)
      /\ \A t \in Thread \ {me} : k'.error[t] = k.error[t]
  <2>1. CpuInv /\ pc \in [Thread -> MqLabel] /\ pc' = [pc EXCEPT ![me] = label]
    BY <1>1, MqFacts DEF Goto
  <2>2. \/ k' = k
        \/ \E e \in Error : k' = SetError(k, me, e) /\ pc[me] \in {"run", "woken"}
    BY <1>1
  <2> QED BY <1>1, <2>1, <2>2, CallLeaves
<1>3. MqWaits' = MqWaits /\ me \notin MqWaits
  BY <1>2, MqFacts DEF MqWaits
<1>4. MqSound'
  BY <1>2, <1>3, MqFacts DEF MqSound, MqWaits
<1>5. old \notin {"wait", "woken"} \/ k.error[self] # "ok" => Hopeful' = Hopeful
  BY <1>1, <1>2 DEF Hopeful, InCall
<1>6. MqClaimed'
  BY <1>2, <1>3, <1>5, MqClaimKept
<1> QED BY <1>2, <1>4, <1>6 DEF MqOutcome

(* It wakes one of those that wait. *)
LEMMA MqWakeOutcome ==
  ASSUME MqInv, NEW old, At(old), old \notin AboutToSchedule \cup {"wait", "woken"},
         NEW label \in MqLabel \ {"wait", "woken"}, pc' = [pc EXCEPT ![self] = label],
         ~rt_list_isempty(k.list[mq]), q'.entry \in Nat, NEW e \in {"ok", "error"},
         \/ e = "ok" /\ k' = rt_ipc_list_resume(k, mq) /\ q'.entry <= q.entry + 1
         \/ e = "error" /\ k' = ResumeWithError(k, mq) /\ q'.entry <= q.entry
  PROVE  MqOutcome
<1>1. PICK me \in Thread : me = self /\ k.stat[me] = "ready" /\ pc[me] = old
  BY MqFacts, RunnerIsReady
<1>2. CpuInv' /\ \E t \in Thread : Passes(mq, t, me, e)
  <2>1. CpuInv /\ pc \in [Thread -> MqLabel] /\ pc' = [pc EXCEPT ![me] = label] /\ mq \in Queue
    BY <1>1, MqFacts
  <2>2. \A t \in Nodes(k, mq) : t \in InCall /\ k.error[t] = "ok"
    BY MqFacts
  <2>3. CASE e = "ok" /\ k' = rt_ipc_list_resume(k, mq)
    BY <1>1, <2>1, <2>2, <2>3, CallWakes
  <2>4. CASE e = "error" /\ k' = ResumeWithError(k, mq)
    BY <1>1, <2>1, <2>2, <2>4, CallWakes
  <2> QED BY <2>3, <2>4
<1>3. PICK t \in Thread : Passes(mq, t, me, e)
  BY <1>2
<1>4. /\ InCall' = InCall \ {me} /\ Hopeful \ {me} = Hopeful /\ me \notin InCall
      /\ MqWaits' = MqWaits \ {t} /\ t \notin Hopeful
      /\ \A u \in Thread \ {t} : k'.error[u] = k.error[u]
      /\ Hopeful' = IF e = "ok" THEN (Hopeful \ {me}) \cup {t} ELSE Hopeful \ {me}
  BY <1>1, <1>3, MqFacts DEF Passes, MqWaits, Hopeful, InCall
<1>5. MqSound'
  BY <1>4, MqFacts DEF MqSound, MqWaits
<1>6. MqClaimed'
  <2>1. CASE e = "ok"
    <3>1. Hopeful' = Hopeful \cup {t} /\ q'.entry <= q.entry + 1 /\ MqWaits' \subseteq MqWaits
      BY <1>4, <2>1
    <3> QED BY <1>4, <3>1, MqClaimKept
  <2>2. CASE e = "error"
    <3>1. Hopeful' = Hopeful /\ q'.entry <= q.entry /\ MqWaits' \subseteq MqWaits
      BY <1>4, <2>2
    <3> QED BY <3>1, MqClaimKept
  <2> QED BY <2>1, <2>2
<1> QED BY <1>2, <1>5, <1>6 DEF MqOutcome

(* rt_mq_recv looks into the queue. *)
LEMMA TryRecvMqOutcome ==
  ASSUME MqInv, NEW old \in {"run", "woken"}, At(old), NEW left \in Time, NEW e \in Error,
         MqTryRecv(left, e), q'.entry \in Nat
  PROVE  MqOutcome
<1>1. old \notin AboutToSchedule /\ q.entry \in Nat
  BY MqFacts DEF AboutToSchedule
<1>2. CASE q.entry > 0 /\ q' = UnlinkHead(q) /\ Goto("taken") /\ k' = k
  <2>1. "taken" \in MqLabel \ {"wait", "woken"}
    BY DEF MqLabel
  <2>2. q'.entry = q.entry - 1
    BY <1>2, MqFacts DEF UnlinkHead, MqListInv, MqTypes, QueueRecord
  <2>3. q'.entry <= q.entry - 1
    BY <1>1, <2>2
  <2> QED BY <1>1, <1>2, <2>1, <2>3, MqLeaveOutcome
<1>3. CASE q.entry = 0 /\ UNCHANGED q /\ k' = Wait(k, mq, self, mq_flag, left) /\ Goto("wait")
  <2>1. PICK me \in Thread \ {Idle} : me = self /\ k.stat[me] = "ready" /\ pc[me] = old
    BY <1>1, MqFacts, RunnerIsReady
  <2>2. CpuInv' /\ Sleeps(mq, me, left)
    <3>1. /\ CpuInv /\ pc \in [Thread -> MqLabel] /\ "wait" \in MqLabel /\ mq \in Queue
          /\ pc' = [pc EXCEPT ![me] = "wait"] /\ k' = Wait(k, mq, me, mq_flag, left)
      BY <1>3, <2>1, MqFacts DEF Goto, MqLabel
    <3> QED BY <2>1, <3>1, CallSleeps
  <2>3. /\ MqWaits' = MqWaits \cup {me} /\ InCall' = InCall \cup {me}
        /\ Hopeful' = Hopeful \ {me}
        /\ \A t \in Thread : k'.error[t] = IF t = me THEN "ok" ELSE k.error[t]
    BY <2>2, MqFacts DEF Sleeps, MqWaits
  <2>4. MqSound'
    BY <2>3, MqFacts DEF MqSound, MqWaits
  <2>5. MqClaimed'
    BY <1>3, <2>3, MqClaimKept
  <2> QED BY <2>2, <2>4, <2>5 DEF MqOutcome
<1>4. CASE q.entry = 0 /\ UNCHANGED q /\ k' = SetError(k, self, e) /\ Goto("run")
  <2>1. "run" \in MqLabel \ {"wait", "woken"}
    BY DEF MqLabel
  <2> QED BY <1>1, <1>4, <2>1, MqLeaveOutcome
<1> QED BY <1>2, <1>3, <1>4 DEF MqTryRecv

LEMMA SendMqOutcome ==
  ASSUME MqInv, NEW label \in {"send", "urgent"}, NEW left, MqSendLink(label, left),
         left.queue.entry = q.entry + 1
  PROVE  MqOutcome
<1>1. At(label) /\ label \notin AboutToSchedule \cup {"wait", "woken"} /\ MqWake
      /\ q'.entry = q.entry + 1 /\ q.entry \in Nat
  BY MqFacts DEF MqSendLink, AboutToSchedule
<1>2. q'.entry \in Nat /\ q'.entry <= q.entry + 1
  BY <1>1
<1>3. "run" \in MqLabel \ {"wait", "woken"} /\ "sched" \in MqLabel \ {"wait", "woken"}
  BY DEF MqLabel
<1>4. CASE rt_list_isempty(k.list[mq]) /\ k' = k /\ Goto("run")
  <2>1. MqWaits = {}
    BY <1>4, MqFacts DEF rt_list_isempty
  <2> QED BY <1>1, <1>2, <1>3, <1>4, <2>1, MqLeaveOutcome
<1>5. CASE ~rt_list_isempty(k.list[mq]) /\ k' = rt_ipc_list_resume(k, mq) /\ Goto("sched")
  BY <1>1, <1>2, <1>3, <1>5, MqWakeOutcome DEF Goto
<1> QED BY <1>1, <1>4, <1>5 DEF MqWake

LEMMA IsrSendMqOutcome ==
  ASSUME MqInv, NEW m \in Msg, NEW letter \in Letter, IsrMqSend(m, letter)
  PROVE  MqOutcome
<1>1. pc' = pc /\ q'.entry = q.entry + 1 /\ q.entry \in Nat /\ q'.entry \in Nat
  <2>1. PICK u : u = [q EXCEPT !.free = next[m]]
    OBVIOUS
  <2>2. q \in QueueRecord /\ next[m] \in Pointer
    BY MqFacts DEF MqListInv, MqTypes
  <2>3. u \in QueueRecord /\ u.entry = q.entry
    BY <2>1, <2>2 DEF QueueRecord
  <2>4. q' = LinkSent(u, next, m).queue /\ pc' = pc
    BY <2>1 DEF IsrMqSend
  <2>5. LinkSent(u, next, m).queue.entry = u.entry + 1
    BY <2>3 DEF LinkSent, QueueRecord
  <2> QED BY <2>3, <2>4, <2>5 DEF QueueRecord
<1>2. CASE rt_list_isempty(k.list[mq]) /\ k' = k
  <2>1. MqWaits = {} /\ MqWaits' = {} /\ Hopeful' = Hopeful /\ CpuInv'
    BY <1>1, <1>2, MqFacts
    DEF rt_list_isempty, MqWaits, Hopeful, InCall, CpuInv, AboutToSchedule
  <2>2. MqClaimed'
    BY <1>1, <2>1, MqClaimKept
  <2> QED BY <2>1, <2>2 DEF MqOutcome, MqSound
<1>3. CASE /\ ~rt_list_isempty(k.list[mq])
           /\ k' = rt_schedule(rt_ipc_list_resume(k, mq))
  <2>1. /\ CpuInv'
        /\ \E t \in Thread :
             /\ t \in Nodes(k, mq) /\ t \notin Hopeful
             /\ InCall' = InCall /\ Hopeful' = Hopeful \cup {t}
             /\ \A g \in Queue : Nodes(k', g) = Nodes(k, g) \ {t}
             /\ NoNewTimer(k, k', Thread)
             /\ k'.error = k.error
    <3>1. \A t \in Nodes(k, mq) : t \in InCall /\ k.error[t] = "ok"
      BY MqFacts
    <3>2. CpuInv /\ mq \in Queue /\ pc' = pc
      BY <1>1, MqFacts
    <3> QED BY <1>3, <3>1, <3>2, InterruptWakes
  <2>2. PICK t \in Thread :
          /\ t \notin Hopeful /\ InCall' = InCall /\ Hopeful' = Hopeful \cup {t}
          /\ MqWaits' = MqWaits \ {t} /\ k'.error = k.error
    BY <2>1, MqFacts DEF MqWaits
  <2>3. MqSound'
    BY <2>2, MqFacts DEF MqSound, MqWaits
  <2>4. MqClaimed'
    BY <1>1, <2>2, MqClaimKept
  <2> QED BY <2>1, <2>3, <2>4 DEF MqOutcome
<1> QED BY <1>2, <1>3 DEF IsrMqSend

LEMMA MqStepOutcome ==
  ASSUME MqInv, MqNext, MqListInv'
  PROVE  MqOutcome
<1>1. q.entry \in Nat /\ q'.entry \in Nat
  BY DEF MqInv, MqListInv, MqTypes, QueueRecord
<1>2. CASE CpuStep /\ UNCHANGED mqvars
  <2>1. CpuInv /\ pc \in [Thread -> MqLabel] /\ "sched" \in MqLabel
    BY MqFacts DEF MqLabel
  <2>2. CpuInv' /\ CallsKept
    BY <1>2, <2>1, CpuStepKeepsCalls
  <2> QED BY <1>2, <2>2, MqKeptOutcome DEF mqvars
<1>3. CASE MqReschedule \/ MqRecvSchedule
  <2>1. PICK label, to \in MqLabel :
          /\ ScheduleAt(label, to)
          /\ label \in {"wait", "woken"} <=> to \in {"wait", "woken"}
    BY <1>3 DEF MqReschedule, MqRecvSchedule, MqLabel
  <2>2. CpuInv /\ pc \in [Thread -> MqLabel]
    BY MqFacts
  <2>3. CpuInv' /\ CallsKept
    BY <2>1, <2>2, ScheduleKeepsCalls
  <2> QED BY <1>3, <2>3, MqKeptOutcome DEF MqReschedule, MqRecvSchedule, mqvars
<1>4. ASSUME NEW m \in Msg, NEW letter \in Letter, IsrMqSend(m, letter)
      PROVE  MqOutcome
  BY <1>4, IsrSendMqOutcome
<1>5. CASE MqSend
  <2>1. LinkSent(q, next, msg[self]).queue.entry = q.entry + 1
    BY DEF LinkSent, MqInv, MqListInv, MqTypes, QueueRecord
  <2> QED BY <1>5, <2>1, SendMqOutcome DEF MqSend
<1>6. CASE MqUrgent
  <2>1. LinkUrgent(q, next, msg[self]).queue.entry = q.entry + 1
    BY DEF LinkUrgent, MqInv, MqListInv, MqTypes, QueueRecord
  <2> QED BY <1>6, <2>1, SendMqOutcome DEF MqUrgent
<1>7. ASSUME NEW left \in MqTimes, MqRecv(left)
      PROVE  MqOutcome
  <2>1. left \in Time /\ At("run") /\ MqTryRecv(left, k.error[self])
    BY <1>7, MqType DEF MqRecv, MqFree
  <2>2. k.error[self] \in Error
    <3>1. k \in KernelType /\ self \in Thread
      BY <2>1, MqFacts DEF CpuInv, KernelInv, At
    <3> QED BY <3>1 DEF KernelType
  <2> QED BY <1>1, <2>1, <2>2, TryRecvMqOutcome
<1>8. ASSUME NEW left \in Time, MqRecvRetries(left)
      PROVE  MqOutcome
  <2>1. At("woken") /\ MqTryRecv(left, "timeout") /\ "timeout" \in Error
    BY <1>8 DEF MqRecvRetries, Error
  <2> QED BY <1>1, <2>1, TryRecvMqOutcome
<1>9. CASE MqDetachTurn
  <2>1. /\ At("resume") /\ "resume" \notin AboutToSchedule \cup {"wait", "woken"}
        /\ ~rt_list_isempty(k.list[mq]) /\ k' = ResumeWithError(k, mq)
        /\ pc' = [pc EXCEPT ![self] = "scan"] /\ q' = q
        /\ "scan" \in MqLabel \ {"wait", "woken"} /\ q'.entry <= q.entry
    BY <1>1, <1>9 DEF MqDetachTurn, ResumeAllTurn, Goto, AboutToSchedule, MqLabel, mqvars
  <2> QED BY <1>1, <2>1, MqWakeOutcome
<1>10. CASE MqResetResume
  <2>1. /\ At("reset") /\ "reset" \notin AboutToSchedule \cup {"wait", "woken"}
        /\ ~rt_list_isempty(k.list[mq]) /\ k' = ResumeWithError(k, mq)
        /\ pc' = pc /\ q' = q
        /\ "reset" \in MqLabel \ {"wait", "woken"} /\ q'.entry <= q.entry
    BY <1>1, <1>10 DEF MqResetResume, AboutToSchedule, MqLabel, mqvars
  <2>2. pc' = [pc EXCEPT ![self] = "reset"]
    <3>1. self \in Thread /\ pc[self] = "reset" /\ pc \in [Thread -> MqLabel]
      BY <2>1, MqFacts DEF At
    <3> QED BY <2>1, <3>1
  <2> QED BY <1>1, <2>1, <2>2, MqWakeOutcome
<1>11. ASSUME NEW old, At(old), old \notin AboutToSchedule, k' = k,
              NEW to \in MqLabel \ {"wait", "woken"}, Goto(to),
              q'.entry <= q.entry \/ q'.entry = 0,
              old \notin {"wait", "woken"} \/ k.error[self] # "ok"
       PROVE  MqOutcome
  BY <1>1, <1>11, MqLeaveOutcome
<1>12. ASSUME NEW m \in Msg, NEW letter \in Letter, NEW label \in {"send", "urgent"},
              MqSendTake(m, letter, label)
       PROVE  MqOutcome
  <2>1. /\ At("run") /\ "run" \notin AboutToSchedule \cup {"wait", "woken"} /\ k' = k
        /\ Goto(label) /\ label \in MqLabel \ {"wait", "woken"}
    BY <1>12 DEF MqSendTake, MqFree, AboutToSchedule, MqLabel
  <2>2. q'.entry <= q.entry
    BY <1>1, <1>12 DEF MqSendTake, MqInv, MqListInv, MqTypes, QueueRecord
  <2> QED BY <1>11, <2>1, <2>2
<1>13. CASE MqDetach \/ MqReset \/ MqDetachTest
  <2>1. PICK old \in {"run", "scan"}, to \in {"scan", "reset", "run", "resume"} :
          At(old) /\ Goto(to) /\ k' = k /\ q' = q
    BY <1>13 DEF MqDetach, MqReset, MqDetachTest, ResumeAllTest, MqFree, mqvars
  <2>2. /\ old \notin AboutToSchedule \cup {"wait", "woken"}
        /\ to \in MqLabel \ {"wait", "woken"} /\ q'.entry <= q.entry
    BY <1>1, <2>1 DEF AboutToSchedule, MqLabel
  <2> QED BY <1>11, <2>1, <2>2
<1>14. CASE MqRecvFails
  <2>1. /\ At("woken") /\ "woken" \notin AboutToSchedule /\ k.error[self] # "ok"
        /\ k' = k /\ Goto("run") /\ "run" \in MqLabel \ {"wait", "woken"}
        /\ q'.entry <= q.entry
    BY <1>1, <1>14 DEF MqRecvFails, AboutToSchedule, MqLabel
  <2> QED BY <1>11, <2>1
<1>15. CASE MqRecvDone
  <2>1. /\ At("taken") /\ "taken" \notin AboutToSchedule \cup {"wait", "woken"}
        /\ k' = k /\ Goto("run") /\ "run" \in MqLabel \ {"wait", "woken"}
        /\ q'.entry <= q.entry
    BY <1>1, <1>15 DEF MqRecvDone, AboutToSchedule, MqLabel, MqInv, MqListInv, MqTypes,
                       QueueRecord
  <2> QED BY <1>11, <2>1
<1>16. CASE MqResetEnd
  <2>1. /\ At("reset") /\ "reset" \notin AboutToSchedule \cup {"wait", "woken"}
        /\ k' = k /\ Goto("sched") /\ "sched" \in MqLabel \ {"wait", "woken"}
        /\ q'.entry = 0
    BY <1>16 DEF MqResetEnd, AboutToSchedule, MqLabel, MqInv, MqListInv, MqTypes,
                 QueueRecord
  <2> QED BY <1>11, <2>1
<1>17. CASE IsrMqRecv \/ MqResetMessage
  <2>1. /\ k' = k /\ pc' = pc /\ q'.entry <= q.entry
    <3>1. q \in QueueRecord
      BY DEF MqInv, MqListInv, MqTypes
    <3>2. CASE IsrMqRecv
      <4>1. PICK u : u = UnlinkHead(q)
        OBVIOUS
      <4>2. u.entry = q.entry - 1 /\ DOMAIN u = {"head", "tail", "free", "entry"}
        BY <3>1, <4>1 DEF UnlinkHead, QueueRecord
      <4>3. q' = [u EXCEPT !.free = q.head] /\ k' = k /\ pc' = pc
        BY <3>2, <4>1 DEF IsrMqRecv
      <4>4. q'.entry = u.entry
        BY <4>2, <4>3
      <4> QED BY <1>1, <4>2, <4>3, <4>4
    <3>3. CASE MqResetMessage
      BY <1>1, <3>1, <3>3 DEF MqResetMessage, QueueRecord
    <3> QED BY <1>17, <3>2, <3>3
  <2>2. CpuInv' /\ MqWaits' = MqWaits /\ Hopeful' = Hopeful /\ MqSound'
    BY <2>1, MqFacts
    DEF MqWaits, MqSound, Hopeful, InCall, CpuInv, AboutToSchedule
  <2>3. MqClaimed'
    BY <1>1, <2>1, <2>2, MqClaimKept
  <2> QED BY <2>2, <2>3 DEF MqOutcome
<1> QED BY <1>2, <1>3, <1>4, <1>5, <1>6, <1>7, <1>8, <1>9, <1>10, <1>12, <1>13, <1>14,
           <1>15, <1>16, <1>17 DEF MqNext

LEMMA MqInitInv == MqInit => MqInv
<1> SUFFICES ASSUME MqInit PROVE MqInv
  OBVIOUS
<1>1. CpuInv /\ \A h \in Queue : Nodes(k, h) = {}
  BY IpcInitEstablishesInv DEF MqInit
<1>2. MqWaits = {}
  BY <1>1, MqType DEF MqWaits
<1>3. Hopeful = {}
  BY DEF MqInit, IpcInit, Hopeful, InCall
<1>4. MqSound /\ MqClaimed
  BY <1>2, <1>3, FS_EmptySet DEF MqSound, MqClaimed
<1> QED BY <1>1, <1>4, InitLists DEF MqInv

LEMMA MqStepInv == MqInv /\ [MqNext]_<<k, pc, mqvars>> => MqInv'
<1> SUFFICES ASSUME MqInv, [MqNext]_<<k, pc, mqvars>> PROVE MqInv'
  OBVIOUS
<1>1. MqListInv'
  BY ListStep DEF MqInv, ListOutcome
<1>2. CASE MqNext
  BY <1>1, <1>2, MqStepOutcome DEF MqOutcome, MqInv
<1>3. CASE UNCHANGED <<k, pc, mqvars>>
  <2>1. k' = k /\ pc' = pc /\ q' = q
    BY <1>3 DEF mqvars
  <2>2. CpuInv' /\ MqSound' /\ MqClaimed'
    BY <2>1 DEF MqInv, CpuInv, MqSound, MqClaimed, MqWaits, Hopeful, InCall,
                AboutToSchedule
  <2> QED BY <1>1, <2>2 DEF MqInv
<1> QED BY <1>2, <1>3

LEMMA MqInvariance == MqSpec => []MqInv
BY MqInitInv, MqStepInv, PTL DEF MqSpec

(* Every message of the pool is in the queue, in the free list or in the    *)
(* hands of one call, whichever calls and interrupts meet in the middle of  *)
(* rt_mq_send, rt_mq_urgent, rt_mq_recv and a reset; the tail is the last   *)
(* of the queue and entry its length.                                       *)
THEOREM MessageQueueConserves == MqSpec => []MessagesConserved
BY MqInvariance, MqListInvConserves, PTL DEF MqInv

(* Letters are received once, urgent ones first, the others in the order    *)
(* of sending, and a letter stays what it is while it is copied             *)
(* (rt_mq_send, rt_mq_urgent, rt_mq_recv), for any number of messages,      *)
(* threads and uses of the queue.                                           *)
THEOREM MessageQueueRefinement == MqSpec => ImplementsUrgentQueue
<1>1. MqInit => Urgent!UqInit
  BY InitLists DEF Letters, Taken, Spell, InHand, Posted, Urgent!UqInit
<1>2. MqInv /\ [MqNext]_<<k, pc, mqvars>> => [Urgent!UqNext]_(Urgent!uqvars)
  <2> SUFFICES ASSUME MqInv, [MqNext]_<<k, pc, mqvars>>
               PROVE  [Urgent!UqNext]_(Urgent!uqvars)
    OBVIOUS
  <2>1. UrgentStep
    BY ListStep DEF MqInv, ListOutcome
  <2> QED BY <2>1, UrgentStepImplements
<1> QED BY <1>1, <1>2, MqInvariance, PTL
        DEF MqSpec, ImplementsUrgentQueue, Urgent!UqSpec

(* While threads wait in rt_mq_recv, every letter has a woken one on its    *)
(* way to it, whoever overtakes it, times out or resets the queue.          *)
THEOREM MessageQueueNoLostWakeup == MqSpec => []MqNoLostWakeup
BY MqInvariance, MqInvNoLostWakeup, PTL

-----------------------------------------------------------------------------
(* Each of the objects at its work *)

QueuesInv ==
  /\ object = "mailbox" => MailboxInv
  /\ object = "message queue" => MqInv
  /\ object = "data queue" => DqInv

(* With one thread that pushes to the data queue, and waits for ever when   *)
(* there is no room: while threads sleep in rt_mb_send_wait, rt_mb_recv,    *)
(* rt_mq_recv, rt_data_queue_push or rt_data_queue_pop, what they wait for  *)
(* (the pusher: for its mark) is not there, or a thread that is awake is on *)
(* its way to each mail, place, letter or item, for any threads,            *)
(* priorities, sizes, times and interrupts.                                 *)
THEOREM QueuesNobodySleepsInVain ==
  ASSUME OnePusher
  PROVE  QueuesSpec => []NobodySleepsInVain
<1>1. QueuesInit => QueuesInv
  BY MailboxInitInv, MqInitInv, DqInitInv DEF QueuesInit, QueuesInv
<1>2. QueuesInv /\ [QueuesNext]_queuevars => QueuesInv'
  <2> SUFFICES ASSUME QueuesInv, [QueuesNext]_queuevars PROVE QueuesInv'
    OBVIOUS
  <2>1. object' = object
    BY DEF QueuesNext, queuevars
  <2>2. CASE object = "mailbox"
    <3>1. [Next]_vars
      BY <2>2 DEF QueuesNext, queuevars, vars
    <3> QED BY <2>1, <2>2, <3>1, MailboxStepInv DEF QueuesInv
  <2>3. CASE object = "message queue"
    <3>1. [MqNext]_<<k, pc, mqvars>>
      BY <2>3 DEF QueuesNext, queuevars
    <3> QED BY <2>1, <2>3, <3>1, MqStepInv DEF QueuesInv
  <2>4. CASE object = "data queue"
    <3>1. [DqNext]_<<k, pc, dqvars>>
      BY <2>4 DEF QueuesNext, queuevars
    <3> QED BY <2>1, <2>4, <3>1, DqStepInv DEF QueuesInv
  <2> QED BY <2>1, <2>2, <2>3, <2>4 DEF QueuesInv
<1>3. QueuesInv => NobodySleepsInVain
  BY ClaimedIsNoLostWakeup, MqInvNoLostWakeup, DqInvStrandsNobody
  DEF QueuesInv, NobodySleepsInVain
<1> QED BY <1>1, <1>2, <1>3, PTL DEF QueuesSpec

=============================================================================
