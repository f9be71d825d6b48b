----------------------------- MODULE Completion -----------------------------
(***************************************************************************)
(* The completion of components/drivers/src/completion.c: one thread waits *)
(* until a driver, in a thread or an interrupt, says that it is done.      *)
(* rt_completion_done tests the flag before it disables interrupts.        *)
(***************************************************************************)
EXTENDS Ipc

CONSTANTS completion,  \* the completion, and the head of its suspended_list
          Waiter,      \* the one thread that waits for it
          DoneTimes    \* the time arguments of rt_completion_wait

ASSUME CompletionType == /\ completion \in Queue
                         /\ Waiter \in Thread
                         /\ DoneTimes \subseteq Time

VARIABLES completed,  \* completion->flag = RT_COMPLETED
          owed        \* ghost: a done was called that no rt_completion_wait
                      \* has reported yet

donevars == <<completed, owed>>

DoneLabel == {"run", "sched",
              "await",  \* rt_completion_wait before rt_schedule
              "awake",  \* rt_completion_wait after rt_schedule
              "done"}   \* rt_completion_done with the flag tested

DoneTypeOK == /\ k \in KernelType
              /\ pc \in [Thread -> DoneLabel]
              /\ completed \in BOOLEAN
              /\ owed \in BOOLEAN

DoneInit == IpcInit /\ completed = FALSE /\ owed = FALSE

\* The call finds the flag set, or will not wait.
WaitNow(time) ==
  /\ At("run") /\ self = Waiter
  /\ completed \/ time = "no"
  /\ completed' = FALSE
  /\ owed' = IF completed THEN FALSE ELSE owed
  /\ UNCHANGED <<k, pc>>

\* "only one thread can suspend on complete": the list is asserted empty.
WaitDone(time) ==
  /\ At("run") /\ self = Waiter
  /\ ~completed /\ time # "no"
  /\ k' = Wait(k, completion, self, "fifo", time)
  /\ Goto("await")
  /\ UNCHANGED donevars

WaitSchedule == ScheduleAt("await", "awake") /\ UNCHANGED donevars

\* Faulty variant: the flag stays set.
WaitKeepsFlag ==
  /\ At("awake")
  /\ owed' = IF k.error[self] = "ok" THEN FALSE ELSE owed
  /\ Goto("run")
  /\ UNCHANGED <<k, completed>>

\* The call returns the thread's error; the flag is cleared either way.
WaitReturn ==
  /\ At("awake")
  /\ completed' = FALSE
  /\ owed' = IF k.error[self] = "ok" THEN FALSE ELSE owed
  /\ Goto("run")
  /\ UNCHANGED k

\* rt_completion_done: the test, with interrupts enabled.
DoneTest ==
  /\ At("run")
  /\ owed' = (completed \/ owed)
  /\ IF completed THEN UNCHANGED pc ELSE Goto("done")
  /\ UNCHANGED <<k, completed>>

\* The critical section.
DoneSection ==
  /\ At("done")
  /\ completed' = TRUE /\ owed' = TRUE
  /\ IF rt_list_isempty(k.list[completion]) THEN Goto("run") /\ UNCHANGED k
     ELSE Goto("sched") /\ k' = rt_ipc_list_resume(k, completion)

DoneSchedule == ScheduleAt("sched", "run") /\ UNCHANGED donevars

\* By an interrupt handler, in one step.
IsrDone ==
  /\ completed' = TRUE /\ owed' = TRUE
  /\ k' = IF completed \/ rt_list_isempty(k.list[completion]) THEN k
          ELSE rt_schedule(rt_ipc_list_resume(k, completion))
  /\ UNCHANGED pc

DoneNext ==
  \/ CpuStep /\ UNCHANGED donevars
  \/ \E time \in DoneTimes : WaitNow(time) \/ WaitDone(time)
  \/ WaitSchedule \/ WaitReturn
  \/ DoneTest \/ DoneSection \/ DoneSchedule
  \/ IsrDone

DoneSpec == DoneInit /\ [][DoneNext]_<<k, pc, donevars>>

-----------------------------------------------------------------------------
(* Properties *)

\* What is done is reported by the next rt_completion_wait, and nothing else
\* is, although the flag is tested with interrupts enabled, several drivers
\* call rt_completion_done at once, and the flag is cleared only when the
\* waiter runs again.  The waiter does not sleep while there is something to
\* report, and is not woken without.
DoneIsReported ==
  /\ completed <=> owed
  /\ k.list[completion] # << >> => ~completed
  /\ pc[Waiter] \in {"await", "awake"} /\ k.stat[Waiter] = "ready" => completed
=============================================================================
