------------------------------ MODULE MCTimer ------------------------------
EXTENDS Timer

CONSTANTS p, q, t1, t2, t3

MCTimers == {t1, t2, t3}
MCOwner == [t \in Timer |-> IF t = t1 THEN p ELSE IF t = t2 THEN q ELSE Isr]

\* The timeout of a timer that is not started is computed before it is read.
Started(t) == t \in Listed \/ pc[t] = "link"
LiveState == <<rt_tick, checking, pc,
               [s EXCEPT !.timeout_tick = [t \in Timer |->
                           IF Started(t) THEN @[t] ELSE 0],
                         !.left = [t \in Timer |->
                           IF Started(t) THEN @[t] ELSE 0]]>>
=============================================================================
