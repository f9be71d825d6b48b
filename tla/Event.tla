-------------------------------- MODULE Event --------------------------------
(***************************************************************************)
(* The event of src/ipc.c: rt_event_send by threads and interrupts,        *)
(* rt_event_recv with its conditions AND, OR and CLEAR, rt_event_control   *)
(* and rt_event_delete, with the timeouts that race with them.             *)
(***************************************************************************)
EXTENDS Ipc

CONSTANTS event,       \* the event, and the head of its wait list
          event_flag,  \* its RT_IPC_FLAG
          Bit,         \* the bits of a set of events
          Options,     \* the option arguments the application uses
          EvTimes,     \* the time arguments the application uses
          EvCalls      \* which of "reset", "delete" the application uses

ASSUME EventType ==
  /\ event \in Queue
  /\ event_flag \in Flag
  /\ IsFiniteSet(Bit)
  /\ \A o \in Options : o \subseteq {"and", "or", "clear"} /\ o # {"clear"}
                        /\ o # {}
  /\ EvTimes \subseteq Time

VARIABLES set,         \* event->set
          event_set,   \* thread->event_set
          event_info,  \* thread->event_info
          event_alive, \* FALSE once rt_event_delete was called
          raised,      \* ghost: how often a bit was raised, less how often
                       \* it was received by a thread that clears it
          seen         \* ghost: the bits set so far during a thread's wait

eventvars == <<set, event_set, event_info, event_alive, raised, seen>>

EvLabel == {"run", "sched",
            "wait",      \* rt_event_recv before rt_schedule
            "received",  \* rt_event_recv after rt_schedule
            "scan", "resume",  \* rt_ipc_list_resume_all, as in Ipc
            "reset"}     \* rt_event_control, interrupts disabled

EvWaiters == ToSet(k.list[event])

\* A waiter has a condition: rt_event_recv refuses an empty set.
EvTypeOK ==
  /\ k \in KernelType
  /\ pc \in [Thread -> EvLabel]
  /\ set \subseteq Bit
  /\ event_set \in [Thread -> SUBSET Bit]
  /\ event_info \in [Thread -> Options \cup {{}}]
  /\ \A t \in EvWaiters : event_set[t] # {} /\ event_info[t] # {}
  /\ event_alive \in BOOLEAN
  /\ raised \in [Bit -> Int]
  /\ seen \in [Thread -> SUBSET Bit]

EvInit ==
  /\ IpcInit
  /\ set = {}
  /\ event_set = [t \in Thread |-> {}]
  /\ event_info = [t \in Thread |-> {}]
  /\ event_alive = TRUE
  /\ raised = [b \in Bit |-> 0]
  /\ seen = [t \in Thread |-> {}]

EvFree == At("run") /\ event_alive

-----------------------------------------------------------------------------
(* rt_event_recv *)

\* The condition of a receiver: AND has precedence.
Satisfied(bits, wanted, option) ==
  IF "and" \in option THEN wanted \subseteq bits ELSE wanted \cap bits # {}

\* The call finds its condition true, or will not wait.
RecvNow(wanted, option, time) ==
  /\ EvFree /\ wanted # {}
  /\ IF Satisfied(set, wanted, option)
     THEN /\ k' = SetError(k, self, "ok")
          /\ IF "clear" \in option
             THEN /\ set' = set \ wanted
                  /\ raised' = [b \in Bit |->
                       raised[b] - IF b \in set \cap wanted THEN 1 ELSE 0]
             ELSE UNCHANGED <<set, raised>>
     ELSE /\ time = "no"
          /\ k' = SetError(k, self, "timeout")
          /\ UNCHANGED <<set, raised>>
  /\ UNCHANGED <<pc, event_set, event_info, event_alive, seen>>

RecvWait(wanted, option, time) ==
  /\ EvFree /\ wanted # {}
  /\ ~Satisfied(set, wanted, option) /\ time # "no"
  /\ event_set' = [event_set EXCEPT ![self] = wanted]
  /\ event_info' = [event_info EXCEPT ![self] = option]
  /\ seen' = [seen EXCEPT ![self] = set]
  /\ k' = Wait(k, event, self, event_flag, time)
  /\ Goto("wait")
  /\ UNCHANGED <<set, event_alive, raised>>

RecvSchedule == ScheduleAt("wait", "received") /\ UNCHANGED eventvars

\* The call returns its error, or event_set as what was received.
RecvReturn ==
  /\ At("received")
  /\ seen' = [seen EXCEPT ![self] = {}]
  /\ Goto("run")
  /\ UNCHANGED <<k, set, event_set, event_info, event_alive, raised>>

-----------------------------------------------------------------------------
(* rt_event_send *)

Clears(t) == "clear" \in event_info[t]

\* Faulty variants: OR does not save the part it received; the bits are not
\* cleared before the next waiter is looked at.
AnswerWithoutSave(st, t) ==
  IF Satisfied(st.set, st.event_set[t], event_info[t])
  THEN [st EXCEPT !.k = rt_thread_resume(@, t),
                  !.set = IF Clears(t) THEN @ \ st.event_set[t] ELSE @]
  ELSE st

AnswerWithoutClear(st, t) ==
  IF Satisfied(st.set, st.event_set[t], event_info[t])
  THEN [st EXCEPT !.k = rt_thread_resume(@, t),
                  !.event_set[t] = @ \cap st.set]
  ELSE st

\* One turn of the loop over the waiters: t is resumed if the bits that are
\* set satisfy it.  AND receives all it asked for, OR what there is of it.
Answer(st, t) ==
  IF Satisfied(st.set, st.event_set[t], event_info[t])
  THEN LET asked == st.event_set[t]
           got == IF "and" \in event_info[t] THEN asked ELSE asked \cap st.set
       IN  [k |-> rt_thread_resume(st.k, t),
            set |-> IF Clears(t) THEN st.set \ got ELSE st.set,
            event_set |-> [st.event_set EXCEPT ![t] = got]]
  ELSE st

\* Faulty variant: the loop ends with the first waiter.
AnsweredFirst(bits) ==
  LET st == [k |-> k, set |-> set \cup bits, event_set |-> event_set]
  IN  IF rt_list_isempty(k.list[event]) THEN st
      ELSE Answer(st, FirstThread(k, event))

\* The loop, from the first waiter to the last.
Answered(bits) ==
  LET waiting == k.list[event]
      turn[n \in 0 .. Len(waiting)] ==
        IF n = 0 THEN [k |-> k, set |-> set \cup bits, event_set |-> event_set]
                 ELSE Answer(turn[n - 1], waiting[n])
  IN  turn[Len(waiting)]

\* The critical section but for the kernel: left is what the loop leaves.
SendSection(bits, left) ==
  LET resumed == EvWaiters \ ToSet(left.k.list[event])
      clearing(b) == {t \in resumed : Clears(t) /\ b \in left.event_set[t]}
  IN  /\ bits # {}
      /\ set' = left.set
      /\ event_set' = left.event_set
      /\ raised' = [b \in Bit |-> raised[b] - Cardinality(clearing(b))
                                  + IF b \in bits \ set THEN 1 ELSE 0]
      /\ seen' = [t \in Thread |->
                    IF t \in EvWaiters THEN seen[t] \cup bits ELSE seen[t]]
      /\ UNCHANGED <<event_info, event_alive>>

Send(bits) ==
  LET left == Answered(bits)
  IN  /\ EvFree
      /\ SendSection(bits, left)
      /\ k' = left.k
      /\ IF left.k = k THEN UNCHANGED pc ELSE Goto("sched")

IsrSend(bits) ==
  LET left == Answered(bits)
  IN  /\ InterruptsOn /\ event_alive
      /\ SendSection(bits, left)
      /\ k' = IF left.k = k THEN k ELSE rt_schedule(left.k)
      /\ UNCHANGED pc

EvReschedule == ScheduleAt("sched", "run") /\ UNCHANGED eventvars

-----------------------------------------------------------------------------
(* rt_event_delete (rt_event_detach), rt_event_control *)

EvDelete ==
  /\ EvFree /\ "delete" \in EvCalls
  /\ event_alive' = FALSE
  /\ Goto("scan")
  /\ UNCHANGED <<k, set, event_set, event_info, raised, seen>>

EvDeleteTest == ResumeAllTest(event) /\ UNCHANGED eventvars
EvDeleteTurn == ResumeAllTurn(event) /\ UNCHANGED eventvars

\* RT_IPC_CMD_RESET: the loop with interrupts disabled, then the set.
EvReset ==
  /\ EvFree /\ "reset" \in EvCalls
  /\ Goto("reset")
  /\ UNCHANGED <<k, eventvars>>

EvResetResume ==
  /\ At("reset")
  /\ ~rt_list_isempty(k.list[event])
  /\ k' = ResumeWithError(k, event)
  /\ UNCHANGED <<pc, eventvars>>

EvResetSet ==
  /\ At("reset")
  /\ rt_list_isempty(k.list[event])
  /\ set' = {}
  /\ raised' = [b \in Bit |-> 0]
  /\ Goto("sched")
  /\ UNCHANGED <<k, event_set, event_info, event_alive, seen>>

EvNext ==
  \/ CpuStep /\ UNCHANGED eventvars
  \/ \E wanted \in SUBSET Bit, option \in Options, time \in EvTimes :
       RecvNow(wanted, option, time) \/ RecvWait(wanted, option, time)
  \/ RecvSchedule \/ RecvReturn
  \/ \E bits \in SUBSET Bit : Send(bits) \/ IsrSend(bits)
  \/ EvReschedule
  \/ EvDelete \/ EvDeleteTest \/ EvDeleteTurn
  \/ EvReset \/ EvResetResume \/ EvResetSet

EvSpec == EvInit /\ [][EvNext]_<<k, pc, eventvars>>

-----------------------------------------------------------------------------
(* Properties *)

\* "if there are threads suspended on event object, it will be waked up"
\* (ipc.c:991): nobody waits for what is set, although a waiter answered
\* early in the loop of rt_event_send may clear what a later one needs.
NoMissedEvent ==
  \A t \in EvWaiters : ~Satisfied(set, event_set[t], event_info[t])

\* A bit that was raised is set until one thread, and no second one, has
\* received it with RT_EVENT_FLAG_CLEAR.
ClearedByOne == \A b \in Bit : raised[b] = IF b \in set THEN 1 ELSE 0

\* What rt_event_recv returns after a wait was sent before or during it, and
\* is not empty, whatever is sent, cleared and reset before it returns.
ReceivedWasSent ==
  \A t \in Thread :
    (/\ pc[t] \in {"wait", "received"}
     /\ k.stat[t] = "ready" /\ k.error[t] = "ok")
    => event_set[t] # {} /\ event_set[t] \subseteq seen[t]

\* Through the loop of rt_event_send a raised bit goes to one clearing receiver
\* and to every other it satisfies, each of which is told of bits that were
\* sent, although it reads them only when it runs again.
BitsAreDelivered == ClearedByOne /\ ReceivedWasSent
=============================================================================
