---------------------------- MODULE MCScheduler ----------------------------
(* Two or three threads and the idle thread. *)
EXTENDS Scheduler

CONSTANTS a, c, boot, idle

TwoThreads   == {a, boot, idle}
ThreeThreads == {a, c, boot, idle}

AllPeers == [t \in Thread |-> IF t = idle THEN PriorityMax - 1 ELSE 0]
TwoAbove == [t \in Thread |-> IF t = idle THEN 2 ELSE IF t = boot THEN 1 ELSE 0]

\* boot is the thread that runs first; what it and a can do is the same.
Peers == Permutations({a, boot})
Upper == Permutations({a, c})

AnyMask == SUBSET Prio
=============================================================================
