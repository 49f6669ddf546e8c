------------------------------- MODULE MemPool -------------------------------
(***************************************************************************)
(* common/mem_pool.hpp: the fixed pool of blocks the order books allocate  *)
(* their orders and price levels from.  A pool is a record:                *)
(*   size    the number of blocks, numbered from 0                         *)
(*   free    m_is_free of every block                                      *)
(*   next    m_next_free_index, the block the next allocation takes        *)
(*   failed  an ASSERT of the pool has failed and the process has exited   *)
(* The operators are those of the class; MemPoolUser drives them.          *)
(***************************************************************************)
EXTENDS Integers, FiniteSets

Blocks(pool) == 0 .. (pool.size - 1)

NewPool(n) ==
  [size |-> n, free |-> [b \in 0 .. (n - 1) |-> TRUE], next |-> 0,
   failed |-> FALSE]

LiveBlocks(pool) == {b \in Blocks(pool) : ~pool.free[b]}

\* How far the cyclic search of updateNextFreeIndex goes from m_next_free_index:
\* it stops at the first free block, or fails when it is back where it began.
Probes(pool) == {d \in 0 .. (pool.size - 1) :
                   pool.free[(pool.next + d) % pool.size]}

\* Wrong form: the search does not wrap around at the end of the store.
UpdateNextFreeIndexUnwrapped(pool) ==
  LET probes == Probes(pool) IN
  IF probes = {} THEN [pool EXCEPT !.failed = TRUE]
  ELSE LET d == CHOOSE d \in probes : \A e \in probes : d <= e
       IN  [pool EXCEPT !.next = pool.next + d]

\* Wrong form: the search gives up one block early.
UpdateNextFreeIndexShort(pool) ==
  LET probes == Probes(pool) \ {pool.size - 1} IN
  IF probes = {} THEN [pool EXCEPT !.failed = TRUE]
  ELSE LET d == CHOOSE d \in probes : \A e \in probes : d <= e
       IN  [pool EXCEPT !.next = (pool.next + d) % pool.size]

UpdateNextFreeIndex(pool) ==
  LET probes == Probes(pool) IN
  IF probes = {} THEN [pool EXCEPT !.failed = TRUE]
  ELSE LET d == CHOOSE d \in probes : \A e \in probes : d <= e
       IN  [pool EXCEPT !.next = (pool.next + d) % pool.size]

\* Wrong form: the search for the next block is left to the next allocation.
AllocateLazily(pool) ==
  IF pool.free[pool.next] THEN [pool EXCEPT !.free[pool.next] = FALSE]
  ELSE [pool EXCEPT !.failed = TRUE]

\* allocate: the block returned is pool.next, the next one is looked up at once.
Allocate(pool) ==
  IF pool.free[pool.next]
    THEN UpdateNextFreeIndex([pool EXCEPT !.free[pool.next] = FALSE])
    ELSE [pool EXCEPT !.failed = TRUE]

\* Wrong form: the block is checked and never marked free.
DeallocateForgets(pool, b) ==
  IF b \in Blocks(pool) /\ ~pool.free[b]
    THEN pool
    ELSE [pool EXCEPT !.failed = TRUE]

\* deallocate: a block that is not in use, or not of the pool, is refused.
Deallocate(pool, b) ==
  IF b \in Blocks(pool) /\ ~pool.free[b]
    THEN [pool EXCEPT !.free[b] = TRUE]
    ELSE [pool EXCEPT !.failed = TRUE]

=============================================================================
