------------------------------ MODULE SmallMem ------------------------------
(***************************************************************************)
(* The heap of src/mem.c (RT_USING_SMALL_MEM): rt_malloc, rt_realloc and   *)
(* rt_free on a chain of blocks, each with a header before its data.  An   *)
(* address is an offset in the heap, sizes and addresses are counted in    *)
(* units of RT_ALIGN_SIZE.  A section under heap_sem is one step: the      *)
(* semaphore has the value 1 and is taken and released around it.          *)
(***************************************************************************)
EXTENDS Integers, FiniteSets

CONSTANTS User,      \* the threads that use the heap
          NoCall,    \* the user is in no call of rt_realloc
          mem_size,  \* mem_size_aligned, the heap without its two headers
          Header,    \* SIZEOF_STRUCT_MEM
          MinSize,   \* MIN_SIZE_ALIGNED
          Sizes      \* the sizes the users ask for

ASSUME SmallMemType == /\ Header \in Nat \ {0}
                       /\ MinSize \in Nat \ {0}
                       /\ mem_size \in Nat /\ mem_size >= MinSize
                       /\ Sizes \subseteq Nat
                       /\ NoCall \notin [old : [at : Nat, size : Nat],
                                         newsize : Nat, copied : BOOLEAN]

VARIABLES heap,      \* the headers of the chain, by their addresses
          lfree, used_mem,
          held,      \* the blocks each user has, and the sizes it asked for
          realloc,   \* a user's call of rt_realloc between its sections
          shrunk     \* ghost: has rt_realloc ever cut a block?

heapvars == <<heap, lfree, used_mem, held, realloc, shrunk>>

heap_end == mem_size + Header

HeapBlock == [at : 0 .. mem_size, size : 0 .. mem_size]

HeapTypeOK ==
  /\ heap \in [DOMAIN heap -> [used : BOOLEAN, next : 1 .. heap_end,
                               prev : 0 .. heap_end]]
  /\ DOMAIN heap \subseteq 0 .. heap_end
  /\ lfree \in 0 .. heap_end
  /\ used_mem \in 0 .. heap_end
  /\ held \in [User -> SUBSET HeapBlock]
  /\ realloc \in [User -> {NoCall} \cup [old : HeapBlock, newsize : 0 .. mem_size,
                                         copied : BOOLEAN]]
  /\ shrunk \in BOOLEAN

\* rt_system_heap_init.
HeapInit ==
  /\ heap = [p \in {0, heap_end} |->
               [used |-> p = heap_end, next |-> heap_end, prev |-> p]]
  /\ lfree = 0
  /\ used_mem = 0
  /\ held = [u \in User |-> {}]
  /\ realloc = [u \in User |-> NoCall]
  /\ shrunk = FALSE

-----------------------------------------------------------------------------
(* The chain *)

\* The user data of the block at p.
Room(h, p) == h[p].next - (p + Header)

First(P) == CHOOSE p \in P : \A q \in P : p <= q

\* A free block is cut off behind the first size units of the block at p.
Split(h, p, size) ==
  LET rest == p + Header + size
  IN  [q \in DOMAIN h \cup {rest} |->
         CASE q = rest -> [used |-> FALSE, next |-> h[p].next, prev |-> p]
           [] q = p -> [h[p] EXCEPT !.next = rest]
           [] q = h[p].next /\ q # heap_end -> [h[q] EXCEPT !.prev = rest]
           [] OTHER -> h[q]]

\* The block at n becomes a part of the block at p in front of it; s is a
\* heap with its lfree.
Joined(s, p, n) ==
  LET after == s.heap[n].next
  IN  [heap |-> [q \in DOMAIN s.heap \ {n} |->
                   CASE q = p -> [s.heap[q] EXCEPT !.next = after]
                     [] q = after -> [s.heap[q] EXCEPT !.prev = p]
                     [] OTHER -> s.heap[q]],
       lfree |-> IF s.lfree = n THEN p ELSE s.lfree]

PlugForward(s, p) ==
  LET n == s.heap[p].next
  IN  IF n # p /\ ~s.heap[n].used /\ n # heap_end THEN Joined(s, p, n) ELSE s

PlugBackward(s, p) ==
  LET before == s.heap[p].prev
  IN  IF before # p /\ ~s.heap[before].used THEN Joined(s, before, p) ELSE s

plug_holes(s, p) == PlugBackward(PlugForward(s, p), p)

SetHeap(s) == heap' = s.heap /\ lfree' = s.lfree

-----------------------------------------------------------------------------
(* rt_malloc *)

Wanted(size) == IF size < MinSize THEN MinSize ELSE size

\* Faulty variant: the header is counted as room.
FittingWithHeader(size) == {p \in DOMAIN heap : /\ p >= lfree
                                                /\ p < mem_size - size
                                                /\ ~heap[p].used
                                                /\ heap[p].next - p >= size}

\* The blocks the search of rt_malloc stops at, from lfree on.
Fitting(size) == {p \in DOMAIN heap : /\ p >= lfree
                                      /\ p < mem_size - size
                                      /\ ~heap[p].used
                                      /\ Room(heap, p) >= size}

Granted(size) == size > 0 /\ size <= mem_size /\ Fitting(Wanted(size)) # {}

\* The heap in which size units of the free block at p are allocated.
HeapWith(p, size) ==
  [(IF Room(heap, p) >= size + Header + MinSize
    THEN Split(heap, p, size) ELSE heap) EXCEPT ![p].used = TRUE]

\* The successful rest of rt_malloc; the block is at Place(size).  A refused
\* call changes nothing.
Place(size) == First(Fitting(Wanted(size)))

Allocate(size) ==
  LET p == Place(size)
      h == HeapWith(p, Wanted(size))
  IN  /\ heap' = h
      /\ used_mem' = used_mem + (h[p].next - p)
      /\ lfree' = IF p # lfree THEN lfree
                  ELSE First({q \in DOMAIN h :
                                q >= lfree /\ (q = heap_end \/ ~h[q].used)})

rt_malloc(u, size) ==
  /\ realloc[u] = NoCall
  /\ Granted(size)
  /\ Allocate(size)
  /\ held' = [held EXCEPT ![u] = @ \cup {[at |-> Place(size), size |-> size]}]
  /\ UNCHANGED <<realloc, shrunk>>

-----------------------------------------------------------------------------
(* rt_free *)

\* Faulty variant: lfree is not lowered.
ReleaseAbove(p) ==
  /\ SetHeap(plug_holes([heap |-> [heap EXCEPT ![p].used = FALSE],
                         lfree |-> lfree], p))
  /\ used_mem' = used_mem - (heap[p].next - p)

Release(p) ==
  /\ SetHeap(plug_holes([heap |-> [heap EXCEPT ![p].used = FALSE],
                         lfree |-> IF p < lfree THEN p ELSE lfree], p))
  /\ used_mem' = used_mem - (heap[p].next - p)

rt_free(u, b) ==
  /\ realloc[u] = NoCall
  /\ b \in held[u]
  /\ Release(b.at)
  /\ held' = [held EXCEPT ![u] = @ \ {b}]
  /\ UNCHANGED <<realloc, shrunk>>

-----------------------------------------------------------------------------
(* rt_realloc; more than the heap has is refused at once. *)

OnBlock(u, b, newsize) ==
  realloc[u] = NoCall /\ b \in held[u] /\ newsize <= mem_size

\* The user's block is the same, for newsize units now.
Resize(u, b, newsize) ==
  held' = [held EXCEPT ![u] = (@ \ {b}) \cup {[at |-> b.at, size |-> newsize]}]

ReallocSame(u, b, newsize) ==
  /\ OnBlock(u, b, newsize)
  /\ Room(heap, b.at) = newsize
  /\ Resize(u, b, newsize)
  /\ UNCHANGED <<heap, lfree, used_mem, realloc, shrunk>>

Cuts(b, newsize) == newsize + Header + MinSize < Room(heap, b.at)

\* The block is cut, and lfree is not lowered to what is cut off.
ReallocCut(u, b, newsize) ==
  /\ OnBlock(u, b, newsize)
  /\ Cuts(b, newsize)
  /\ SetHeap(plug_holes([heap |-> Split(heap, b.at, newsize), lfree |-> lfree],
                        b.at + Header + newsize))
  /\ used_mem' = used_mem - (Room(heap, b.at) - newsize)
  /\ shrunk' = TRUE
  /\ Resize(u, b, newsize)
  /\ UNCHANGED realloc

\* No room here: the sections of rt_malloc and rt_free follow, and other
\* users may use the heap before each of them.
ReallocMoves(u, b, newsize) ==
  /\ OnBlock(u, b, newsize)
  /\ Room(heap, b.at) # newsize /\ ~Cuts(b, newsize)
  /\ realloc' = [realloc EXCEPT ![u] =
                   [old |-> b, newsize |-> newsize, copied |-> FALSE]]
  /\ UNCHANGED <<heap, lfree, used_mem, held, shrunk>>

Moving(u) == realloc[u] # NoCall /\ ~realloc[u].copied

\* rt_malloc has a place, the data is copied: the user has two blocks.
ReallocCopies(u) ==
  LET size == realloc[u].newsize
  IN  /\ Moving(u)
      /\ Granted(size)
      /\ Allocate(size)
      /\ held' =
           [held EXCEPT ![u] = @ \cup {[at |-> Place(size), size |-> size]}]
      /\ realloc' = [realloc EXCEPT ![u].copied = TRUE]
      /\ UNCHANGED shrunk

\* RT_NULL, also for a smaller size: the user keeps its block.
ReallocFails(u) ==
  /\ Moving(u)
  /\ ~Granted(realloc[u].newsize)
  /\ realloc' = [realloc EXCEPT ![u] = NoCall]
  /\ UNCHANGED <<heap, lfree, used_mem, held, shrunk>>

ReallocFrees(u) ==
  /\ realloc[u] # NoCall /\ realloc[u].copied
  /\ Release(realloc[u].old.at)
  /\ held' = [held EXCEPT ![u] = @ \ {realloc[u].old}]
  /\ realloc' = [realloc EXCEPT ![u] = NoCall]
  /\ UNCHANGED shrunk

HeapNext ==
  \E u \in User :
    \/ \E size \in Sizes : rt_malloc(u, size)
    \/ \E b \in held[u] : rt_free(u, b)
    \/ \E b \in held[u], size \in Sizes \cup {0} :
         ReallocSame(u, b, size) \/ ReallocCut(u, b, size)
           \/ ReallocMoves(u, b, size)
    \/ ReallocCopies(u) \/ ReallocFails(u) \/ ReallocFrees(u)

HeapSpec == HeapInit /\ [][HeapNext]_heapvars

-----------------------------------------------------------------------------
(* Properties *)

Used == {p \in DOMAIN heap \ {heap_end} : heap[p].used}

\* The units of the used blocks, with their headers.
UsedUnits == UNION {p .. heap[p].next - 1 : p \in Used}

\* A block a user was given stays its own until it is freed, as long as the
\* user asked for and not given to a second one, whatever others do with
\* their blocks or between the sections of rt_realloc; no block is used by
\* nobody; and used_mem counts the units of the used blocks.
BlocksAreHeld ==
  /\ \A u \in User : \A b \in held[u] :
       b.at \in Used /\ Room(heap, b.at) >= b.size
  /\ \A p \in Used : \E u \in User : \E b \in held[u] :
       /\ b.at = p
       /\ \A v \in User : \A d \in held[v] : d.at = p => u = v /\ d = b
  /\ used_mem = Cardinality(UsedUnits)

\* The chain leads through all headers, forwards and backwards, no two free
\* blocks follow each other ("if not we have 2 unused structs in a row,
\* plug_holes should have take care of this", mem.c:330), and lfree is where a
\* search may start: a free block or the end, and the lowest free one as long
\* as rt_realloc has cut no block.
HeapIsTidy ==
  /\ {0, heap_end} \subseteq DOMAIN heap
  /\ heap[heap_end].used
  /\ \A p \in DOMAIN heap \ {heap_end} :
       LET n == heap[p].next
       IN  /\ n = First({q \in DOMAIN heap : q > p}) /\ n >= p + Header
           /\ n # heap_end => heap[n].prev = p
           /\ heap[p].used \/ heap[n].used
  /\ lfree \in DOMAIN heap
  /\ lfree = heap_end \/ ~heap[lfree].used
  /\ ~shrunk => \A p \in DOMAIN heap : p >= lfree \/ heap[p].used
=============================================================================
