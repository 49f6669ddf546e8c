----------------------------- MODULE MemPoolUser -----------------------------
(***************************************************************************)
(* A single-threaded user of one MemPool, the way MEOrderBook,             *)
(* MarketOrderBook and SnapshotSynthesizer use theirs: it allocates, keeps *)
(* the pointers it was given and gives any of them back, each once.        *)
(***************************************************************************)
EXTENDS MemPool

CONSTANT NumElems   \* the constructor's num_elems

ASSUME MemPoolAssumption == NumElems \in Nat \ {0}

VARIABLES
  pool,    \* the pool
  held     \* the pointers the user holds

poolVars == <<pool, held>>

PoolInit == pool = NewPool(NumElems) /\ held = {}

\* allocate does not return when it fails: it exits with the block lost.
AllocateBlock ==
  /\ ~pool.failed
  /\ pool' = Allocate(pool)
  /\ held' = IF pool'.failed THEN held ELSE held \cup {pool.next}

DeallocateBlock ==
  /\ ~pool.failed
  /\ \E b \in held :
       /\ pool' = Deallocate(pool, b)
       /\ held' = held \ {b}

PoolNext == AllocateBlock \/ DeallocateBlock

PoolSpec == PoolInit /\ [][PoolNext]_poolVars

-----------------------------------------------------------------------------
PoolTypeOK ==
  /\ pool \in [size : {NumElems},
               free : [0 .. (NumElems - 1) -> BOOLEAN],
               next : 0 .. (NumElems - 1),
               failed : BOOLEAN]
  /\ held \subseteq 0 .. (NumElems - 1)

\* The pool knows exactly the blocks that are out: whatever the order of
\* allocations and deallocations, no block leaks and none is free while held.
LiveIsHeld == ~pool.failed => LiveBlocks(pool) = held

\* m_next_free_index always names a free block, so the assertion at the top
\* of allocate ("Expected free ObjectBlock at index: ") never fails and no
\* block is handed out twice.
NextIsFree == ~pool.failed => pool.free[pool.next]

\* The pool fails on the allocation of its last free block and on no earlier
\* one, wherever the search starts: a pool of N blocks holds N - 1 objects.
FailsOnlyWhenFull == pool.failed => LiveBlocks(pool) = Blocks(pool)

=============================================================================
