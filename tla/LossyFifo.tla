------------------------------ MODULE LossyFifo ------------------------------
(***************************************************************************)
(* What a receive buffer between an interrupt and a reader promises: the   *)
(* bytes are read in the order they came in, and of more than it holds the *)
(* oldest are lost.                                                        *)
(***************************************************************************)
EXTENDS Integers, Sequences

CONSTANTS Byte, Capacity

VARIABLE bytes

Newest(s) == IF Len(s) > Capacity THEN Tail(s) ELSE s

Init == bytes = << >>

Put(b) == bytes' = Newest(Append(bytes, b))

Get == bytes # << >> /\ bytes' = Tail(bytes)

Next == Get \/ \E b \in Byte : Put(b)

Spec == Init /\ [][Next]_bytes
=============================================================================
