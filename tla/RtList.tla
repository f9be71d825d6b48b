------------------------------- MODULE RtList -------------------------------
(***************************************************************************)
(* The doubly linked lists of include/rtservice.h.  A list head with the   *)
(* nodes linked behind it is the sequence of these nodes, first node       *)
(* first.  A node has one next and one prev pointer, so the code may link  *)
(* it in at most one list, once: that it does so is a property of the      *)
(* modules that use these operators, not an assumption here.               *)
(***************************************************************************)
EXTENDS Integers, Sequences, SequencesExt

\* rt_list_insert_after(head, n): n becomes the first node.
rt_list_insert_after(list, n) == Cons(n, list)

\* rt_list_insert_before(head, n): n becomes the last node.
rt_list_insert_before(list, n) == Append(list, n)

\* rt_list_insert_before(m, n), m the i-th node: n is linked in front of it.
InsertBeforeNode(list, i, n) == InsertAt(list, i, n)

Position(list, n) == CHOOSE i \in DOMAIN list : list[i] = n

\* rt_list_remove(n), as seen by one list: a node that is not linked there
\* (in particular one that points to itself) leaves the list as it is.
rt_list_remove(list, n) ==
  IF n \in ToSet(list) THEN RemoveAt(list, Position(list, n)) ELSE list

rt_list_isempty(list) == list = << >>

\* What one next pointer per node can express: no node occurs twice.
NoRepeat(list) ==
  \A i, j \in DOMAIN list : list[i] = list[j] => i = j
=============================================================================
