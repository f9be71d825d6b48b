------------------------------ MODULE MCMemory ------------------------------
(***************************************************************************)
(* What the kernel offers to allocate memory, each on its own: the initial *)
(* state chooses whether the behaviour is about the pool or the heap.      *)
(***************************************************************************)
EXTENDS MCMemPool, SmallMem

VARIABLE object

memoryvars == <<object, k, pc, poolvars, heapvars>>

MemoryInit == object \in {"pool", "heap"} /\ MpInit /\ HeapInit

MemoryNext ==
  /\ \/ object = "pool" /\ MpNext /\ UNCHANGED heapvars
     \/ object = "heap" /\ HeapNext /\ UNCHANGED <<k, pc, poolvars>>
  /\ UNCHANGED object

\* Left out: what no action and no property looks at, the error and the time
\* left of a thread outside of the wait loop of rt_mp_alloc, which both are
\* written when it is entered.
InLoop(t) == pc[t] \in {"wait", "woken", "retry"}
LiveState ==
  <<object, pc, heapvars,
    [k EXCEPT !.error = [t \in Thread |-> IF InLoop(t) THEN @[t] ELSE "ok"]],
    [t \in Thread |-> IF InLoop(t) THEN mp_time[t] ELSE "no"],
    block_free_count, suspend_thread_count, block_list, allocated, mp_alive>>

MemorySpec == MemoryInit /\ [][MemoryNext]_memoryvars
=============================================================================
