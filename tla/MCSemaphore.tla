---------------------------- MODULE MCSemaphore ----------------------------
EXTENDS Semaphore

CONSTANTS a, b, c, idle

MCThread == {a, b, c, idle}

\* Three levels above the idle thread, two threads on the lowest of them.
MCLevels == [t \in Thread |-> IF t = idle THEN 2 ELSE IF t = a THEN 0 ELSE 1]
MCPeers  == [t \in Thread |-> IF t = idle THEN 2 ELSE 1]

Peers == Permutations({b, c})
=============================================================================
