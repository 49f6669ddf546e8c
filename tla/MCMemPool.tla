------------------------------ MODULE MCMemPool ------------------------------
(* A pool of six blocks: every order of allocations and deallocations. *)
EXTENDS MemPoolUser

MCNumElems == 6

=============================================================================
