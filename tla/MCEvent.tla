------------------------------ MODULE MCEvent ------------------------------
EXTENDS Event

CONSTANTS a, b, idle, e1, e2

MCThread == {a, b, idle}
MCLevels == [t \in Thread |-> IF t = idle THEN 1 ELSE 0]

\* AND and OR, each with and without CLEAR.
MCOptions == {{"and"}, {"or"}, {"and", "clear"}, {"or", "clear"}}

PeersAndBits == Permutations({a, b}) \cup Permutations({e1, e2})
=============================================================================
