------------------------------ MODULE MCQueues ------------------------------
(* Instances of Queues: three threads with two priorities. *)
EXTENDS Queues

CONSTANTS a, b, c, idle, x, y

MCThread == {a, b, c, idle}
MCLevels == [t \in MCThread |-> IF t = idle THEN 2 ELSE IF t = a THEN 1 ELSE 0]
MCFlags == {{"rd", "wr"}, {"rd"}}
Symmetry ==
  Permutations({b, c}) \cup Permutations({x, y}) \cup Permutations(Msg)

\* The error of a thread is read only at the end of a wait, and reset when one
\* begins.
LiveError == [t \in Thread |-> IF pc[t] \in {"wait", "woken", "await", "awake"}
                              THEN k.error[t] ELSE "ok"]

\* Left out: what is in the buffers, places and bytes that are free, which
\* way round both mirror bits are, errors nobody reads, and what the last call returned, which no
\* action looks at.
LiveState ==
  <<object, [k EXCEPT !.error = LiveError], pc,
    mail, time, alive, entry, in_offset, out_offset,
    [i \in 1 .. entry |-> msg_pool[(out_offset + i - 1) % size]],
    q, next, msg, mq_time, mq_alive,
    [m \in Msg |-> IF m \in ToSet(Chain(q.free)) THEN NoLetter ELSE content[m]],
    completed, owed,
    put_index, get_index, waiting_lwm, item, dq_time,
    [i \in 0 .. Length - 1 |-> slot[(get_index + i) % dq_size]],
    pipe_flag, request, ringbuffer.read_index, Bytes(ringbuffer)>>
=============================================================================
