---------------------------- MODULE MessageQueue ----------------------------
(***************************************************************************)
(* The message queue of src/ipc.c: rt_mq_send and rt_mq_urgent by threads  *)
(* and interrupts, rt_mq_recv, rt_mq_control and rt_mq_detach              *)
(* (rt_mq_delete), with the timeouts that race with them.  The message     *)
(* buffers are linked through their own next pointers, and a call holds    *)
(* one outside of both lists while it copies with interrupts enabled.      *)
(***************************************************************************)
EXTENDS Ipc

CONSTANTS mq,        \* the message queue, and the head of its wait list
          mq_flag,   \* its RT_IPC_FLAG
          Msg,       \* the message buffers of its msg_pool
          Null,      \* RT_NULL
          Letter,    \* what is sent
          NoLetter,  \* what is in a buffer before its first use
          MqTimes,   \* the time arguments the application uses
          MqCalls    \* which of "reset", "detach" the application uses

ASSUME MqType == /\ mq \in Queue
                 /\ mq_flag \in Flag
                 /\ IsFiniteSet(Msg) /\ Null \notin Msg
                 /\ NoLetter \notin Letter
                 /\ MqTimes \subseteq Time

VARIABLES q,         \* the message queue, a record
          next,      \* msg->next
          content,   \* the bytes behind each message's header
          msg,       \* the message each thread's call holds, Null for none
          mq_time,   \* what is left of the time of each thread's rt_mq_recv
          mq_alive   \* FALSE once rt_mq_detach was called

mqvars == <<q, next, content, msg, mq_time, mq_alive>>

MqLabel == {"run", "sched",
            "send", "urgent",  \* the message filled and not yet linked
            "wait",            \* rt_mq_recv before rt_schedule
            "woken",           \* rt_mq_recv after rt_schedule
            "taken",           \* rt_mq_recv with its message unlinked
            "scan", "resume",  \* rt_ipc_list_resume_all, as in Ipc
            "reset"}           \* rt_mq_control, interrupts disabled

Pointer == Msg \cup {Null}

MqTypeOK ==
  /\ k \in KernelType
  /\ pc \in [Thread -> MqLabel]
  /\ q \in [head : Pointer, tail : Pointer, free : Pointer, entry : Nat]
  /\ next \in [Msg -> Pointer]
  /\ content \in [Msg -> Letter \cup {NoLetter}]
  /\ msg \in [Thread -> Pointer]
  /\ mq_time \in [Thread -> Time]
  /\ mq_alive \in BOOLEAN

\* rt_mq_init links the free messages, in the order of their addresses.
MqInit ==
  /\ IpcInit
  /\ \E order \in {o \in [1 .. Cardinality(Msg) -> Msg] : NoRepeat(o)} :
       /\ q = [head |-> Null, tail |-> Null, entry |-> 0,
               free |-> IF order = << >> THEN Null ELSE order[1]]
       /\ next = [m \in Msg |-> LET i == Position(order, m)
                                IN  IF i = Len(order) THEN Null
                                    ELSE order[i + 1]]
  /\ content = [m \in Msg |-> NoLetter]
  /\ msg = [t \in Thread |-> Null]
  /\ mq_time = [t \in Thread |-> "no"]
  /\ mq_alive = TRUE

MqFree == At("run") /\ mq_alive

-----------------------------------------------------------------------------
(* The lists of messages: u is the queue, nx the next pointers *)

\* Faulty variant: the message is sent with its old next pointer.
LinkLastKeepsNext(u, nx, m) ==
  [queue |-> [u EXCEPT !.tail = m,
                       !.head = IF @ = Null THEN m ELSE @,
                       !.entry = @ + 1],
   next  |-> IF u.tail = Null THEN nx ELSE [nx EXCEPT ![u.tail] = m]]

\* rt_mq_send: msg->next = RT_NULL, and the second section.
LinkSent(u, nx, m) ==
  [queue |-> [u EXCEPT !.tail = m,
                       !.head = IF @ = Null THEN m ELSE @,
                       !.entry = @ + 1],
   next  |-> LET ended == [nx EXCEPT ![m] = Null]
             IN  IF u.tail = Null THEN ended
                 ELSE [ended EXCEPT ![u.tail] = m]]

\* The second section of rt_mq_urgent.
LinkUrgent(u, nx, m) ==
  [queue |-> [u EXCEPT !.head = m,
                       !.tail = IF @ = Null THEN m ELSE @,
                       !.entry = @ + 1],
   next  |-> [nx EXCEPT ![m] = u.head]]

\* Faulty variant: the tail is left behind.
UnlinkHeadOnly(u) == [u EXCEPT !.head = next[@], !.entry = @ - 1]

\* rt_mq_recv takes the first message.
UnlinkHead(u) ==
  [u EXCEPT !.head = next[@],
            !.tail = IF @ = u.head THEN Null ELSE @,
            !.entry = @ - 1]

-----------------------------------------------------------------------------
(* rt_mq_send, rt_mq_urgent *)

\* A send that finds no free message returns -RT_EFULL, and changes nothing.
MqSendTake(m, letter, label) ==
  /\ MqFree /\ m = q.free
  /\ q' = [q EXCEPT !.free = next[m]]
  /\ content' = [content EXCEPT ![m] = letter]
  /\ msg' = [msg EXCEPT ![self] = m]
  /\ Goto(label)
  /\ UNCHANGED <<k, next, mq_time, mq_alive>>

\* Faulty variant: the waiter is not resumed if the queue was not empty.
MqWakeIfEmpty ==
  IF rt_list_isempty(k.list[mq]) \/ q.entry > 0 THEN UNCHANGED k /\ Goto("run")
  ELSE k' = rt_ipc_list_resume(k, mq) /\ Goto("sched")

MqWake ==
  IF rt_list_isempty(k.list[mq]) THEN UNCHANGED k /\ Goto("run")
  ELSE k' = rt_ipc_list_resume(k, mq) /\ Goto("sched")

MqSendLink(label, left) ==
  /\ At(label)
  /\ q' = left.queue /\ next' = left.next
  /\ msg' = [msg EXCEPT ![self] = Null]
  /\ MqWake
  /\ UNCHANGED <<content, mq_time, mq_alive>>

MqSend == MqSendLink("send", LinkSent(q, next, msg[self]))
MqUrgent == MqSendLink("urgent", LinkUrgent(q, next, msg[self]))

\* By an interrupt both sections are one step.
IsrMqSend(m, letter) ==
  /\ InterruptsOn /\ mq_alive /\ m = q.free
  /\ LET left == LinkSent([q EXCEPT !.free = next[m]], next, m)
     IN  q' = left.queue /\ next' = left.next
  /\ content' = [content EXCEPT ![m] = letter]
  /\ k' = IF rt_list_isempty(k.list[mq]) THEN k
          ELSE rt_schedule(rt_ipc_list_resume(k, mq))
  /\ UNCHANGED <<pc, msg, mq_time, mq_alive>>

MqReschedule == ScheduleAt("sched", "run") /\ UNCHANGED mqvars

-----------------------------------------------------------------------------
(* rt_mq_recv *)

\* The critical section of the loop: at the call, and after each wait.  With
\* nothing left of the time, e is the error the thread keeps.
MqTryRecv(left, e) ==
  /\ UNCHANGED <<content, next, mq_alive>>
  /\ \/ /\ q.entry > 0
        /\ q' = UnlinkHead(q)
        /\ msg' = [msg EXCEPT ![self] = q.head]
        /\ mq_time' = [mq_time EXCEPT ![self] = "no"]
        /\ Goto("taken")
        /\ UNCHANGED k
     \/ /\ q.entry = 0 /\ left # "no"
        /\ k' = Wait(k, mq, self, mq_flag, left)
        /\ mq_time' = [mq_time EXCEPT ![self] = left]
        /\ Goto("wait")
        /\ UNCHANGED <<q, msg>>
     \/ /\ q.entry = 0 /\ left = "no"
        /\ k' = SetError(k, self, e)
        /\ mq_time' = [mq_time EXCEPT ![self] = "no"]
        /\ Goto("run")
        /\ UNCHANGED <<q, msg>>

MqRecv(left) == MqFree /\ MqTryRecv(left, k.error[self])

MqRecvSchedule == ScheduleAt("wait", "woken") /\ UNCHANGED mqvars

\* A receiver that was refused or timed out.
MqRecvFails ==
  /\ At("woken") /\ k.error[self] # "ok"
  /\ mq_time' = [mq_time EXCEPT ![self] = "no"]
  /\ Goto("run")
  /\ UNCHANGED <<k, q, next, content, msg, mq_alive>>

\* A receiver that was woken is in the loop again, with what is left of its
\* time.
MqRecvRetries(left) ==
  /\ At("woken") /\ k.error[self] = "ok"
  /\ left \in IF mq_time[self] = "ticks" THEN {"ticks", "no"}
              ELSE {mq_time[self]}
  /\ MqTryRecv(left, "timeout")

\* The message is copied and given back.
MqRecvDone ==
  /\ At("taken")
  /\ q' = [q EXCEPT !.free = msg[self]]
  /\ next' = [next EXCEPT ![msg[self]] = q.free]
  /\ msg' = [msg EXCEPT ![self] = Null]
  /\ Goto("run")
  /\ UNCHANGED <<k, content, mq_time, mq_alive>>

\* By an interrupt, without waiting.
IsrMqRecv ==
  /\ InterruptsOn /\ mq_alive /\ q.entry > 0
  /\ q' = [UnlinkHead(q) EXCEPT !.free = q.head]
  /\ next' = [next EXCEPT ![q.head] = q.free]
  /\ UNCHANGED <<k, pc, content, msg, mq_time, mq_alive>>

-----------------------------------------------------------------------------
(* rt_mq_detach, rt_mq_control *)

MqDetach ==
  /\ MqFree /\ "detach" \in MqCalls
  /\ mq_alive' = FALSE
  /\ Goto("scan")
  /\ UNCHANGED <<k, q, next, content, msg, mq_time>>

MqDetachTest == ResumeAllTest(mq) /\ UNCHANGED mqvars
MqDetachTurn == ResumeAllTurn(mq) /\ UNCHANGED mqvars

\* RT_IPC_CMD_RESET: the waiters first, then the messages, one by one, with
\* interrupts disabled.
MqReset ==
  /\ MqFree /\ "reset" \in MqCalls
  /\ Goto("reset")
  /\ UNCHANGED <<k, mqvars>>

MqResetResume ==
  /\ At("reset")
  /\ ~rt_list_isempty(k.list[mq])
  /\ k' = ResumeWithError(k, mq)
  /\ UNCHANGED <<pc, mqvars>>

MqResetMessage ==
  /\ At("reset") /\ rt_list_isempty(k.list[mq]) /\ q.head # Null
  /\ q' = [q EXCEPT !.head = next[@],
                    !.tail = IF @ = q.head THEN Null ELSE @,
                    !.free = q.head]
  /\ next' = [next EXCEPT ![q.head] = q.free]
  /\ UNCHANGED <<k, pc, content, msg, mq_time, mq_alive>>

MqResetEnd ==
  /\ At("reset") /\ rt_list_isempty(k.list[mq]) /\ q.head = Null
  /\ q' = [q EXCEPT !.entry = 0]
  /\ Goto("sched")
  /\ UNCHANGED <<k, next, content, msg, mq_time, mq_alive>>

MqNext ==
  \/ CpuStep /\ UNCHANGED mqvars
  \/ \E m \in Msg, letter \in Letter :
       \/ MqSendTake(m, letter, "send") \/ MqSendTake(m, letter, "urgent")
       \/ IsrMqSend(m, letter)
  \/ MqSend \/ MqUrgent \/ MqReschedule
  \/ \E left \in MqTimes : MqRecv(left)
  \/ MqRecvSchedule \/ MqRecvFails \/ \E left \in Time : MqRecvRetries(left)
  \/ MqRecvDone \/ IsrMqRecv
  \/ MqDetach \/ MqDetachTest \/ MqDetachTurn
  \/ MqReset \/ MqResetResume \/ MqResetMessage \/ MqResetEnd

MqSpec == MqInit /\ [][MqNext]_<<k, pc, mqvars>>

-----------------------------------------------------------------------------
(* Properties *)

\* The messages from m on, as their next pointers link them; a list that
\* runs in a circle shows a message twice.
Chain(m) ==
  LET nth[i \in 1 .. Cardinality(Msg) + 1] ==
        IF i = 1 THEN m
        ELSE IF nth[i - 1] = Null THEN Null ELSE next[nth[i - 1]]
  IN  SubSeq(nth, 1, Cardinality({i \in DOMAIN nth : nth[i] # Null}))

Held == {t \in Thread : msg[t] # Null}

\* No message is lost or used twice, however many sends and receives are
\* interrupted with one in their hands: each is in the queue, in the free
\* list or held by one call.  The tail is the end of the queue and entry its
\* length, which is how the next send and receive find their way.
MessagesConserved ==
  LET queued == Chain(q.head)
      free == Chain(q.free)
  IN  /\ NoRepeat(queued \o free)
      /\ \A t, u \in Held : t # u => msg[t] # msg[u]
      /\ \A m \in Msg :
           m \in ToSet(queued \o free) <=> \A t \in Held : msg[t] # m
      /\ q.tail = IF queued = << >> THEN Null ELSE Last(queued)
      /\ ~At("reset") => q.entry = Len(queued)

\* Letters are received once, in the order in which the sends end, urgent
\* ones first, and a letter does not change under the receiver that copies
\* it although its buffer is in no list: the queue implements UrgentQueue.
Urgent == INSTANCE UrgentQueue WITH
            Receiver <- Thread,
            queue <- LET queued == Chain(q.head)
                     IN  [i \in DOMAIN queued |-> content[queued[i]]],
            taken <- [t \in Thread |->
                        IF pc[t] = "taken" THEN content[msg[t]] ELSE NoLetter]

ImplementsUrgentQueue == Urgent!UqSpec

\* While receivers wait, every letter has a woken receiver on its way to it:
\* a wakeup that went to a thread which was overtaken or ran out of time
\* leaves no letter behind.
MqNoLostWakeup ==
  k.list[mq] # << >> =>
    q.entry <= Cardinality({t \in Thread : /\ pc[t] \in {"wait", "woken"}
                                           /\ k.stat[t] = "ready"
                                           /\ k.error[t] = "ok"})
=============================================================================
