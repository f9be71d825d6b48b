------------------------------- MODULE Queues -------------------------------
(***************************************************************************)
(* What threads and interrupts pass data to each other with, each on its   *)
(* own: the initial state chooses which of the objects the behaviour is    *)
(* about.                                                                  *)
(***************************************************************************)
EXTENDS Mailbox, MessageQueue, Completion, DataQueue, Pipe

VARIABLE object

queuevars == <<object, k, pc, mbvars, mqvars, donevars, dqvars, pipevars>>

QueuesInit ==
  /\ object \in {"mailbox", "message queue", "completion", "data queue",
                 "pipe"}
  /\ Init /\ MqInit /\ DoneInit /\ DqInit /\ PipeInit
  /\ object # "message queue" => q.free = CHOOSE m \in Msg : TRUE
  /\ object # "pipe" => "wr" \in pipe_flag

QueuesNext ==
  /\ \/ /\ object = "mailbox" /\ Next
        /\ UNCHANGED <<mqvars, donevars, dqvars, pipevars>>
     \/ /\ object = "message queue" /\ MqNext
        /\ UNCHANGED <<mbvars, donevars, dqvars, pipevars>>
     \/ /\ object = "completion" /\ DoneNext
        /\ UNCHANGED <<mbvars, mqvars, dqvars, pipevars>>
     \/ /\ object = "data queue" /\ DqNext
        /\ UNCHANGED <<mbvars, mqvars, donevars, pipevars>>
     \/ /\ object = "pipe" /\ PipeNext
        /\ UNCHANGED <<mbvars, mqvars, donevars, dqvars>>
  /\ UNCHANGED object

QueuesSpec == QueuesInit /\ [][QueuesNext]_queuevars

\* With a mailbox, a message queue and a data queue, whoever is overtaken, times
\* out or gives up, no thread sleeps for what is there unless another that is
\* awake is on its way to it.  The one pusher of a data queue sleeps for its
\* mark.  A pipe promises less (NoStandstill).
NobodySleepsInVain ==
  /\ object = "mailbox" => NoLostWakeup
  /\ object = "message queue" => MqNoLostWakeup
  /\ object = "data queue" => NobodyStranded
=============================================================================
