------------------------------- MODULE MCMutex -------------------------------
EXTENDS Mutex

CONSTANTS low, mid, high, idle, m1, m2

MCThread == {low, mid, high, idle}

TwoThreads == {low, high, idle}

MCLevels == [t \in Thread |-> CASE t = high -> 0 [] t = mid -> 1
                                  [] t = low -> 2 [] t = idle -> 3]
=============================================================================
