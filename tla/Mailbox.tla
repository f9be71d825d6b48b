------------------------------- MODULE Mailbox -------------------------------
(***************************************************************************)
(* The mailbox of src/ipc.c: rt_mb_send_wait (with rt_mb_send) and         *)
(* rt_mb_recv by threads and interrupts, rt_mb_control and rt_mb_detach    *)
(* (rt_mb_delete), with the timeouts that race with them.  Senders and     *)
(* receivers wait on lists of their own, and one that is woken has to look *)
(* again whether there is room, or mail, for it.                           *)
(***************************************************************************)
EXTENDS Ipc

CONSTANTS mb,       \* the mailbox, and the head of its suspend_thread list
          senders,  \* the head of its suspend_sender_thread list
          mb_flag,  \* its RT_IPC_FLAG
          size,     \* mb->size
          Mail,     \* the values that are sent
          Nil,      \* no mail
          Times,    \* the time arguments the application uses
          Calls     \* which of "reset", "detach" the application uses

ASSUME MailboxType == /\ mb \in Queue /\ senders \in Queue \ {mb}
                      /\ mb_flag \in Flag
                      /\ size \in Nat \ {0}
                      /\ Nil \notin Mail
                      /\ Times \subseteq Time

VARIABLES msg_pool, entry, in_offset, out_offset,  \* fields of the mailbox
          mail,      \* what a thread in rt_mb_send_wait sends, Nil in others
          time,      \* what is left of the time of each thread's call
          received,  \* the mail the last rt_mb_recv returned
          alive      \* FALSE once rt_mb_detach was called

ring == <<msg_pool, entry, in_offset, out_offset, received>>
mbvars == <<ring, mail, time, alive>>
vars == <<k, pc, mbvars>>

Label == {"run", "sched",
          "wait",    \* a call before rt_schedule
          "woken",   \* a call after rt_schedule
          "scan", "resume",                \* rt_mb_detach, receivers
          "scan_senders", "resume_sender", \* rt_mb_detach, senders
          "reset"}   \* rt_mb_control, interrupts disabled

Offset == 0 .. size - 1

TypeOK ==
  /\ k \in KernelType
  /\ pc \in [Thread -> Label]
  /\ msg_pool \in [Offset -> Mail \cup {Nil}]
  /\ entry \in 0 .. size
  /\ in_offset \in Offset /\ out_offset \in Offset
  /\ received \in Mail \cup {Nil}
  /\ mail \in [Thread -> Mail \cup {Nil}]
  /\ time \in [Thread -> Time]
  /\ alive \in BOOLEAN

\* The memory of msg_pool is not initialised.
Init ==
  /\ IpcInit
  /\ msg_pool = [i \in Offset |-> Nil]
  /\ entry = 0 /\ in_offset = 0 /\ out_offset = 0
  /\ received = Nil
  /\ mail = [t \in Thread |-> Nil]
  /\ time = [t \in Thread |-> "no"]
  /\ alive = TRUE

Free == At("run") /\ alive

-----------------------------------------------------------------------------
(* The ring *)

NextOffset(i) == IF i + 1 >= size THEN 0 ELSE i + 1

\* Faulty variant: the mail is put where the next one is taken from.
PutAtOutOffset(m) ==
  /\ entry < size
  /\ msg_pool' = [msg_pool EXCEPT ![out_offset] = m]
  /\ in_offset' = NextOffset(in_offset)
  /\ entry' = entry + 1
  /\ UNCHANGED <<out_offset, received>>

Put(m) ==
  /\ entry < size
  /\ msg_pool' = [msg_pool EXCEPT ![in_offset] = m]
  /\ in_offset' = NextOffset(in_offset)
  /\ entry' = entry + 1
  /\ UNCHANGED <<out_offset, received>>

Get ==
  /\ entry > 0
  /\ received' = msg_pool[out_offset]
  /\ out_offset' = NextOffset(out_offset)
  /\ entry' = entry - 1
  /\ UNCHANGED <<msg_pool, in_offset>>

-----------------------------------------------------------------------------
(* rt_mb_send_wait and rt_mb_recv *)

\* The call is over: its arguments are forgotten.
Return(next) ==
  /\ Goto(next)
  /\ mail' = [mail EXCEPT ![self] = Nil]
  /\ time' = [time EXCEPT ![self] = "no"]

\* After the ring was changed: the first thread of the other side's list is
\* resumed.
Wake(h) ==
  IF rt_list_isempty(k.list[h])
  THEN Return("run") /\ UNCHANGED k
  ELSE Return("sched") /\ k' = rt_ipc_list_resume(k, h)

\* The caller waits with m to send (Nil: to receive) for the time left.
Suspend(h, m, left) ==
  /\ left # "no"
  /\ k' = Wait(k, h, self, mb_flag, left)
  /\ mail' = [mail EXCEPT ![self] = m]
  /\ time' = [time EXCEPT ![self] = left]
  /\ Goto("wait")
  /\ UNCHANGED ring

\* Nothing is left of the time: e is the error the thread keeps.
GiveUp(left, e) ==
  /\ left = "no"
  /\ k' = SetError(k, self, e)
  /\ Return("run")
  /\ UNCHANGED ring

\* The critical sections of rt_mb_send_wait: the first one, and the one
\* after each wait.  Sending without room and time leaves the error alone;
\* after a wait it was reset.
TrySend(m, left) ==
  \/ Put(m) /\ Wake(mb)
  \/ entry = size /\ (Suspend(senders, m, left) \/ GiveUp(left, k.error[self]))

TryRecv(left, e) ==
  \/ Get /\ Wake(senders)
  \/ entry = 0 /\ (Suspend(mb, Nil, left) \/ GiveUp(left, e))

Send(m, left) == Free /\ TrySend(m, left) /\ UNCHANGED alive

\* rt_mb_recv that need not wait does not touch the error.
Recv(left) == Free /\ TryRecv(left, k.error[self]) /\ UNCHANGED alive

CallSchedule == ScheduleAt("wait", "woken") /\ UNCHANGED mbvars

\* A waiter that was refused or timed out.
CallFails ==
  /\ At("woken") /\ k.error[self] # "ok"
  /\ Return("run")
  /\ UNCHANGED <<k, ring, alive>>

\* What may be left of a time, taking off the ticks that have passed.
Left(left) == IF left = "ticks" THEN {"ticks", "no"} ELSE {left}

\* A waiter that was woken is in the loop again.
CallRetries(left) ==
  /\ At("woken") /\ k.error[self] = "ok"
  /\ left \in Left(time[self])
  /\ IF mail[self] = Nil THEN TryRecv(left, "timeout")
     ELSE TrySend(mail[self], left)
  /\ UNCHANGED alive

Reschedule == ScheduleAt("sched", "run") /\ UNCHANGED mbvars

\* What an interrupt handler wakes.
IsrWake(h) ==
  k' = IF rt_list_isempty(k.list[h]) THEN k
       ELSE rt_schedule(rt_ipc_list_resume(k, h))

\* Faulty variant: senders are not woken.
IsrRecvWithoutWake ==
  InterruptsOn /\ alive /\ Get /\ UNCHANGED <<k, pc, mail, time, alive>>

IsrSend(m) == /\ InterruptsOn /\ alive
              /\ Put(m) /\ IsrWake(mb)
              /\ UNCHANGED <<pc, mail, time, alive>>

IsrRecv == /\ InterruptsOn /\ alive
           /\ Get /\ IsrWake(senders)
           /\ UNCHANGED <<pc, mail, time, alive>>

-----------------------------------------------------------------------------
(* rt_mb_detach, rt_mb_control *)

Detach ==
  /\ Free /\ "detach" \in Calls
  /\ alive' = FALSE
  /\ Goto("scan")
  /\ UNCHANGED <<k, ring, mail, time>>

\* rt_ipc_list_resume_all for the receivers, then for the senders.
DetachTest(scan, h, turn, next) ==
  /\ At(scan)
  /\ IF rt_list_isempty(k.list[h]) THEN Goto(next) ELSE Goto(turn)
  /\ UNCHANGED <<k, mbvars>>

\* As in Ipc, a step that finds no thread is not defined.
DetachTurn(turn, h, scan) ==
  /\ At(turn)
  /\ ~rt_list_isempty(k.list[h])
  /\ k' = ResumeWithError(k, h)
  /\ Goto(scan)
  /\ UNCHANGED mbvars

DetachReceivers == \/ DetachTest("scan", mb, "resume", "scan_senders")
                   \/ DetachTurn("resume", mb, "scan")

DetachSenders == \/ DetachTest("scan_senders", senders, "resume_sender", "run")
                 \/ DetachTurn("resume_sender", senders, "scan_senders")

\* RT_IPC_CMD_RESET
Reset ==
  /\ Free /\ "reset" \in Calls
  /\ Goto("reset")
  /\ UNCHANGED <<k, mbvars>>

ResetResume(h) ==
  /\ At("reset")
  /\ ~rt_list_isempty(k.list[h])
  /\ h = senders => rt_list_isempty(k.list[mb])
  /\ k' = ResumeWithError(k, h)
  /\ UNCHANGED <<pc, mbvars>>

ResetRing ==
  /\ At("reset")
  /\ rt_list_isempty(k.list[mb]) /\ rt_list_isempty(k.list[senders])
  /\ entry' = 0 /\ in_offset' = 0 /\ out_offset' = 0
  /\ Goto("sched")
  /\ UNCHANGED <<k, msg_pool, received, mail, time, alive>>

Next ==
  \/ CpuStep /\ UNCHANGED mbvars
  \/ \E left \in Times : Recv(left) \/ \E m \in Mail : Send(m, left)
  \/ CallSchedule \/ CallFails \/ \E left \in Time : CallRetries(left)
  \/ Reschedule
  \/ IsrRecv \/ \E m \in Mail : IsrSend(m)
  \/ Detach \/ DetachReceivers \/ DetachSenders
  \/ Reset \/ ResetResume(mb) \/ ResetResume(senders) \/ ResetRing

Spec == Init /\ [][Next]_vars

-----------------------------------------------------------------------------
(* Properties *)

\* Each mail is delivered once and in order, however senders and receivers
\* are woken, overtaken, timed out and refused: the ring is a bounded FIFO.
Fifo == INSTANCE BoundedFifo WITH
          Size <- size,
          queue <- [i \in 1 .. entry |-> msg_pool[(out_offset + i - 1) % size]]

ImplementsBoundedFifo == Fifo!FifoSpec

\* Threads that wait on list h in a call that sends (or does not) and have
\* been woken, and not yet looked again.
Woken(sending) ==
  {t \in Thread : /\ pc[t] \in {"wait", "woken"}
                  /\ k.stat[t] = "ready" /\ k.error[t] = "ok"
                  /\ sending <=> mail[t] # Nil}

\* While receivers wait, every mail has a woken receiver on its way to it,
\* and while senders wait, every free place a sender: a wakeup that went to
\* a thread which was overtaken or ran out of time leaves nothing behind.
NoLostWakeup ==
  /\ k.list[mb] # << >> => entry <= Cardinality(Woken(FALSE))
  /\ k.list[senders] # << >> => size - entry <= Cardinality(Woken(TRUE))
=============================================================================
