------------------------------ MODULE MCMemPool ------------------------------
EXTENDS MemPool

CONSTANTS a, b, c, idle

MCThread == {a, b, c, idle}
MCLevels == [t \in MCThread |-> IF t = idle THEN 2 ELSE IF t = a THEN 0 ELSE 1]

Peers == Permutations({b, c})
=============================================================================
