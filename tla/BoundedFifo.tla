---------------------------- MODULE BoundedFifo ----------------------------
(***************************************************************************)
(* What a mailbox promises (rt_mb_send_wait, rt_mb_recv in ipc.c), without *)
(* its ring, its wait lists and the threads: each mail is delivered once,  *)
(* in the order of sending, and there are never more of them than fit.     *)
(***************************************************************************)
EXTENDS Integers, Sequences

CONSTANTS Mail, Size, Nil

VARIABLES queue,    \* mails sent and not received
          received  \* the mail delivered last, Nil before the first

fifovars == <<queue, received>>

FifoInit == queue = << >> /\ received = Nil

FifoSend(m) == /\ Len(queue) < Size
               /\ queue' = Append(queue, m)
               /\ UNCHANGED received

FifoRecv == /\ queue # << >>
            /\ received' = Head(queue)
            /\ queue' = Tail(queue)

\* RT_IPC_CMD_RESET throws away what was not received.
FifoReset == queue' = << >> /\ UNCHANGED received

FifoNext == FifoRecv \/ FifoReset \/ \E m \in Mail : FifoSend(m)

FifoSpec == FifoInit /\ [][FifoNext]_fifovars
=============================================================================
