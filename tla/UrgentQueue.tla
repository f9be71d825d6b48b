---------------------------- MODULE UrgentQueue ----------------------------
(***************************************************************************)
(* What a message queue promises (rt_mq_send, rt_mq_urgent and rt_mq_recv  *)
(* in ipc.c), without its message buffers, lists and waiting: a letter is  *)
(* received once, urgent ones before the others and the others in the      *)
(* order of sending, and it stays what it was while a receiver copies it.  *)
(***************************************************************************)
EXTENDS Integers, Sequences

CONSTANTS Letter,    \* what is sent
          Receiver,  \* the threads
          NoLetter

VARIABLES queue,  \* letters sent and not taken
          taken   \* the letter each receiver has taken and not yet copied

uqvars == <<queue, taken>>

UqInit == queue = << >> /\ taken = [t \in Receiver |-> NoLetter]

UqSend(m) == queue' = Append(queue, m) /\ UNCHANGED taken

UqUrgent(m) == queue' = <<m>> \o queue /\ UNCHANGED taken

UqTake(t) == /\ queue # << >> /\ taken[t] = NoLetter
             /\ queue' = Tail(queue)
             /\ taken' = [taken EXCEPT ![t] = Head(queue)]

UqCopied(t) == /\ taken[t] # NoLetter
               /\ taken' = [taken EXCEPT ![t] = NoLetter]
               /\ UNCHANGED queue

\* Taken by an interrupt, or thrown away by RT_IPC_CMD_RESET.
UqDrop == queue # << >> /\ queue' = Tail(queue) /\ UNCHANGED taken

UqNext == \/ \E m \in Letter : UqSend(m) \/ UqUrgent(m)
          \/ \E t \in Receiver : UqTake(t) \/ UqCopied(t)
          \/ UqDrop

UqSpec == UqInit /\ [][UqNext]_uqvars
=============================================================================
