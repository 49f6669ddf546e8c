-------------------------- MODULE StandaloneProofs --------------------------
(***************************************************************************)
(* Proofs about the three components that work on their own: the queue     *)
(* (LFQueue), the pool of blocks (MemPoolUser) and the position keeper     *)
(* (PositionKeeper), each for every value of its constants.                *)
(***************************************************************************)
EXTENDS LFQueue, MemPoolUser, PositionKeeper, CommonFacts

-----------------------------------------------------------------------------
(* The queue: arithmetic of the ring's indices *)

\* Division with remainder, as the SMT solver knows it.
LEMMA DivMod ==
  ASSUME NEW N \in Nat \ {0}, NEW a \in Nat
  PROVE  /\ a % N \in 0 .. (N - 1)
         /\ a \div N \in Int
         /\ a = (N * (a \div N)) + (a % N)
BY SMT

\* Advancing an index around the ring is counting modulo its size.
LEMMA ModIncrement ==
  ASSUME NEW N \in Nat \ {0}, NEW a \in Nat
  PROVE  ((a % N) + 1) % N = (a + 1) % N
<1> DEFINE q == a \div N
           r == a % N
<1>1. r \in 0 .. (N - 1) /\ q \in Int /\ a = N * q + r
  BY DivMod
<1> HIDE DEF q, r
<1>2. CASE r + 1 < N
  <2>1. a + 1 = N * q + (r + 1) /\ r + 1 \in 0 .. (N - 1)
    BY <1>1, <1>2
  <2>2. (a + 1) % N = r + 1
    BY <2>1, <1>1, ModUnique
  <2>3. (r + 1) % N = r + 1
    BY <1>1, <1>2
  <2> QED BY <2>2, <2>3 DEF r
<1>3. CASE r + 1 = N
  <2>1. a + 1 = N * (q + 1) + 0
    BY <1>1, <1>3
  <2>2. (a + 1) % N = 0
    BY <2>1, <1>1, ModUnique
  <2>3. (r + 1) % N = 0
    BY <1>1, <1>3
  <2> QED BY <2>2, <2>3 DEF r
<1> QED BY <1>1, <1>2, <1>3

\* Two elements less than a ring apart never share a slot.
LEMMA ModDistinct ==
  ASSUME NEW N \in Nat \ {0}, NEW a \in Nat, NEW b \in Nat,
         a < b, b < a + N
  PROVE  a % N # b % N
<1> SUFFICES ASSUME a % N = b % N PROVE FALSE
  OBVIOUS
<1> DEFINE q == a \div N
           p == b \div N
           d == p - q
<1>1. d \in Int /\ b - a = N * d
  <2>1. q \in Int /\ p \in Int /\ a - N * q = b - N * p
    BY DivMod
  <2> HIDE DEF q, p
  <2> QED BY <2>1
<1> HIDE DEF d
<1>2. N * d > 0 /\ N * d < N
  BY <1>1
<1>3. CASE d <= 0
  BY <1>1, <1>2, <1>3
<1>4. CASE d >= 1
  BY <1>1, <1>2, <1>4
<1> QED BY <1>1, <1>3, <1>4

-----------------------------------------------------------------------------
(***************************************************************************)
(* The inductive invariant: the indices count modulo the ring's size, the  *)
(* element count is off from the index distance by exactly the updates     *)
(* that are half done, and every slot the consumer may still read holds    *)
(* its element.                                                            *)
(***************************************************************************)

\* The oldest element whose slot the consumer has not done with: a loop that
\* releases first still reads the element before consumed.
AfterRelease == loop.releasesFirst
                /\ consumer \in {"assert", "decrement", "use", "aborted"}
Held == IF AfterRelease THEN consumed - 1 ELSE consumed

Indices ==
  /\ m_next_write_index = published % Size
  /\ m_next_read_index = consumed % Size
  /\ consumed <= published
  /\ published - consumed <= MaxLag
  /\ producer \in {"fill", "publish"} =>
       wslot = published % Size /\ published - consumed < MaxLag

Contents ==
  /\ \A k \in Held .. (published - 1) : store[k % Size] = k
  /\ producer = "publish" => store[published % Size] = published

Reading ==
  /\ AfterRelease => consumed > 0
  /\ consumer \in {"use", "advance"} \/ AfterRelease =>
       rslot = Held % Size /\ Held < published
  /\ consumer = "size" /\ rslot # NoSlot =>
       rslot = consumed % Size /\ consumed < published
  /\ consumer = "size" => loop.checksSize

Counting ==
  /\ m_num_elements = (published - consumed)
                        - (IF producer = "count" THEN 1 ELSE 0)
                        + (IF consumer \in {"assert", "decrement", "aborted"}
                             THEN 1 ELSE 0)
  /\ consumer = "decrement" => m_num_elements > 0
  /\ loop.checksSize =>
       /\ consumer \in {"advance", "assert"} => m_num_elements > 0
       /\ consumer = "use" /\ ~loop.releasesFirst => m_num_elements > 0
       /\ consumer # "aborted"

Deliveries ==
  delivered = IF consumer = "advance" /\ ~loop.releasesFirst
                THEN consumed + 1 ELSE Held

QueueIInv == TypeOK /\ Indices /\ Contents /\ Reading /\ Counting /\ Deliveries

\* The invariant holds of a new queue.
LEMMA QueueStarts == Init => QueueIInv
<1> SUFFICES ASSUME Init PROVE QueueIInv
  OBVIOUS
<1> USE LFQueueAssumption
<1>1. 0 % Size = 0 /\ 0 \in Slots
  BY ModUnique DEF Slots
<1>2. TypeOK
  BY <1>1 DEF Init, TypeOK, Slots, Loops, SizedLoop, UnsizedLoop, PublisherLoop
<1>3. Indices /\ Counting /\ Reading /\ Deliveries /\ Contents
  BY <1>1 DEF Init, Indices, Counting, Reading, Deliveries, Contents, Held,
              AfterRelease, Loops, SizedLoop, UnsizedLoop, PublisherLoop
<1> QED BY <1>2, <1>3 DEF QueueIInv


\* Every step preserves the invariant.
LEMMA QueueStep == QueueIInv /\ [Next]_vars => QueueIInv'
<1> SUFFICES ASSUME QueueIInv, [Next]_vars PROVE QueueIInv'
  OBVIOUS
<1> USE LFQueueAssumption
<1> USE DEF QueueIInv, pvars, cvars, history, Running
<1>a. /\ loop.checksSize \in BOOLEAN /\ loop.releasesFirst \in BOOLEAN
      /\ loop.releasesFirst => loop.checksSize
  <2>1. loop \in Loops
    BY DEF TypeOK
  <2>2. CASE loop = SizedLoop
    BY <2>2 DEF SizedLoop
  <2>3. CASE loop = UnsizedLoop
    BY <2>3 DEF UnsizedLoop
  <2>4. CASE loop = PublisherLoop
    BY <2>4 DEF PublisherLoop
  <2> QED BY <2>1, <2>2, <2>3, <2>4 DEF Loops
<1>b. /\ ((published % Size) + 1) % Size = (published + 1) % Size
      /\ ((consumed % Size) + 1) % Size = (consumed + 1) % Size
      /\ published % Size \in Slots /\ (published + 1) % Size \in Slots
      /\ consumed % Size \in Slots /\ (consumed + 1) % Size \in Slots
  <2>1. published \in Nat /\ consumed \in Nat
    BY DEF TypeOK
  <2>2. /\ ((published % Size) + 1) % Size = (published + 1) % Size
        /\ ((consumed % Size) + 1) % Size = (consumed + 1) % Size
    BY <2>1, ModIncrement
  <2>3. \A k \in Nat : k % Size \in Slots
    BY DivMod DEF Slots
  <2>4. published + 1 \in Nat /\ consumed + 1 \in Nat
    BY <2>1
  <2> QED BY <2>1, <2>2, <2>3, <2>4
<1>1. CASE GetNextToWriteTo
  <2>1. TypeOK'
    BY <1>1, <1>a, <1>b DEF GetNextToWriteTo, TypeOK, Indices, Counting, Enter, Slots
  <2>2. Indices'
    BY <1>1, <1>a, <1>b DEF GetNextToWriteTo, TypeOK, Indices, Reading, Held, AfterRelease
  <2>3. Contents'
    BY <1>1, <1>a, <1>b DEF GetNextToWriteTo, TypeOK, Contents, Indices, Held,
       AfterRelease, Enter
  <2>4. Reading'
    BY <1>1, <1>a, <1>b DEF GetNextToWriteTo, TypeOK, Reading, Indices, Held,
       AfterRelease, Enter
  <2>5. Counting'
    BY <1>1, <1>a DEF GetNextToWriteTo, TypeOK, Counting, Indices, Reading, Held,
       AfterRelease, Enter
  <2>6. Deliveries'
    BY <1>1, <1>a DEF GetNextToWriteTo, TypeOK, Deliveries, Reading, Counting, Held,
       AfterRelease, Enter
  <2> QED BY <2>1, <2>2, <2>3, <2>4, <2>5, <2>6
<1>2. CASE WriteElement
  <2>a. \A k \in Held .. (published - 1) :
             k % Size # published % Size
    <3> TAKE k \in Held .. (published - 1)
    <3>1. k \in Nat /\ k < published /\ published < k + Size
      BY <1>2 DEF Held, AfterRelease, Reading, Indices, TypeOK, WriteElement
    <3> QED BY <3>1, ModDistinct DEF TypeOK
  <2>b. Held' = Held /\ Held \in Int
    BY <1>2 DEF Held, AfterRelease, WriteElement, TypeOK
  <2>1. TypeOK'
    BY <1>2, <1>a, <1>b DEF WriteElement, TypeOK, Indices, Counting, Enter, Slots
  <2>2. Indices'
    BY <1>2, <1>a, <1>b, <2>a, <2>b DEF WriteElement, TypeOK, Indices, Reading, Held, AfterRelease
  <2>3. Contents'
    BY <1>2, <1>a, <1>b, <2>a, <2>b DEF WriteElement, TypeOK, Contents, Indices, Held,
       AfterRelease, Enter
  <2>4. Reading'
    BY <1>2, <1>a, <1>b, <2>a, <2>b DEF WriteElement, TypeOK, Reading, Indices, Held,
       AfterRelease, Enter
  <2>5. Counting'
    BY <1>2, <1>a DEF WriteElement, TypeOK, Counting, Indices, Reading, Held,
       AfterRelease, Enter
  <2>6. Deliveries'
    BY <1>2, <1>a DEF WriteElement, TypeOK, Deliveries, Reading, Counting, Held,
       AfterRelease, Enter
  <2> QED BY <2>1, <2>2, <2>3, <2>4, <2>5, <2>6
<1>3. CASE StoreWriteIndex
  <2>1. TypeOK'
    BY <1>3, <1>a, <1>b DEF StoreWriteIndex, TypeOK, Indices, Counting, Enter, Slots
  <2>2. Indices'
    BY <1>3, <1>a, <1>b DEF StoreWriteIndex, TypeOK, Indices, Reading, Held, AfterRelease
  <2>3. Contents'
    BY <1>3, <1>a, <1>b DEF StoreWriteIndex, TypeOK, Contents, Indices, Held,
       AfterRelease, Enter
  <2>4. Reading'
    BY <1>3, <1>a, <1>b DEF StoreWriteIndex, TypeOK, Reading, Indices, Held,
       AfterRelease, Enter
  <2>5. Counting'
    BY <1>3, <1>a DEF StoreWriteIndex, TypeOK, Counting, Indices, Reading, Held,
       AfterRelease, Enter
  <2>6. Deliveries'
    BY <1>3, <1>a DEF StoreWriteIndex, TypeOK, Deliveries, Reading, Counting, Held,
       AfterRelease, Enter
  <2> QED BY <2>1, <2>2, <2>3, <2>4, <2>5, <2>6
<1>4. CASE CountElement
  <2>1. TypeOK'
    BY <1>4, <1>a, <1>b DEF CountElement, TypeOK, Indices, Counting, Enter, Slots
  <2>2. Indices'
    BY <1>4, <1>a, <1>b DEF CountElement, TypeOK, Indices, Reading, Held, AfterRelease
  <2>3. Contents'
    BY <1>4, <1>a, <1>b DEF CountElement, TypeOK, Contents, Indices, Held,
       AfterRelease, Enter
  <2>4. Reading'
    BY <1>4, <1>a, <1>b DEF CountElement, TypeOK, Reading, Indices, Held,
       AfterRelease, Enter
  <2>5. Counting'
    BY <1>4, <1>a DEF CountElement, TypeOK, Counting, Indices, Reading, Held,
       AfterRelease, Enter
  <2>6. Deliveries'
    BY <1>4, <1>a DEF CountElement, TypeOK, Deliveries, Reading, Counting, Held,
       AfterRelease, Enter
  <2> QED BY <2>1, <2>2, <2>3, <2>4, <2>5, <2>6
<1>5. CASE GetNextToRead
  <2>a. m_next_read_index # m_next_write_index => consumed < published
    BY <1>5 DEF Indices, TypeOK
  <2>1. TypeOK'
    BY <1>5, <1>a, <1>b DEF GetNextToRead, TypeOK, Indices, Counting, Enter, Slots
  <2>2. Indices'
    BY <1>5, <1>a, <1>b, <2>a DEF GetNextToRead, TypeOK, Indices, Reading, Held, AfterRelease
  <2>3. Contents'
    BY <1>5, <1>a, <1>b, <2>a DEF GetNextToRead, TypeOK, Contents, Indices, Held,
       AfterRelease, Enter
  <2>4. Reading'
    BY <1>5, <1>a, <1>b, <2>a DEF GetNextToRead, TypeOK, Reading, Indices, Held,
       AfterRelease, Enter
  <2>5. Counting'
    BY <1>5, <1>a DEF GetNextToRead, TypeOK, Counting, Indices, Reading, Held,
       AfterRelease, Enter
  <2>6. Deliveries'
    BY <1>5, <1>a DEF GetNextToRead, TypeOK, Deliveries, Reading, Counting, Held,
       AfterRelease, Enter
  <2> QED BY <2>1, <2>2, <2>3, <2>4, <2>5, <2>6
<1>6. CASE LoadSize
  <2>1. TypeOK'
    BY <1>6, <1>a, <1>b DEF LoadSize, TypeOK, Indices, Counting, Enter, Slots
  <2>2. Indices'
    BY <1>6, <1>a, <1>b DEF LoadSize, TypeOK, Indices, Reading, Held, AfterRelease
  <2>3. Contents'
    BY <1>6, <1>a, <1>b DEF LoadSize, TypeOK, Contents, Indices, Held,
       AfterRelease, Enter
  <2>4. Reading'
    BY <1>6, <1>a, <1>b DEF LoadSize, TypeOK, Reading, Indices, Held,
       AfterRelease, Enter
  <2>5. Counting'
    BY <1>6, <1>a DEF LoadSize, TypeOK, Counting, Indices, Reading, Held,
       AfterRelease, Enter
  <2>6. Deliveries'
    BY <1>6, <1>a DEF LoadSize, TypeOK, Deliveries, Reading, Counting, Held,
       AfterRelease, Enter
  <2> QED BY <2>1, <2>2, <2>3, <2>4, <2>5, <2>6
<1>7. CASE UseElement
  <2>1. TypeOK'
    BY <1>7, <1>a, <1>b DEF UseElement, TypeOK, Indices, Counting, Enter, Slots
  <2>2. Indices'
    BY <1>7, <1>a, <1>b DEF UseElement, TypeOK, Indices, Reading, Held, AfterRelease
  <2>3. Contents'
    BY <1>7, <1>a, <1>b DEF UseElement, TypeOK, Contents, Indices, Held,
       AfterRelease, Enter
  <2>4. Reading'
    BY <1>7, <1>a, <1>b DEF UseElement, TypeOK, Reading, Indices, Held,
       AfterRelease, Enter
  <2>5. Counting'
    BY <1>7, <1>a DEF UseElement, TypeOK, Counting, Indices, Reading, Held,
       AfterRelease, Enter
  <2>6. Deliveries'
    BY <1>7, <1>a DEF UseElement, TypeOK, Deliveries, Reading, Counting, Held,
       AfterRelease, Enter
  <2> QED BY <2>1, <2>2, <2>3, <2>4, <2>5, <2>6
<1>8. CASE StoreReadIndex
  <2>a. Held = consumed /\ Held' \in {consumed, consumed + 1}
    BY <1>8 DEF StoreReadIndex, Held, AfterRelease, TypeOK
  <2>1. TypeOK'
    BY <1>8, <1>a, <1>b DEF StoreReadIndex, TypeOK, Indices, Counting, Enter, Slots
  <2>2. Indices'
    BY <1>8, <1>a, <1>b DEF StoreReadIndex, TypeOK, Indices, Reading, Held, AfterRelease
  <2>3. Contents'
    BY <1>8, <2>a DEF StoreReadIndex, TypeOK, Contents
  <2>4. Reading'
    BY <1>8, <1>a, <1>b DEF StoreReadIndex, TypeOK, Reading, Indices, Held,
       AfterRelease, Enter
  <2>5. Counting'
    BY <1>8, <1>a DEF StoreReadIndex, TypeOK, Counting, Indices, Reading, Held,
       AfterRelease, Enter
  <2>6. Deliveries'
    BY <1>8, <1>a DEF StoreReadIndex, TypeOK, Deliveries, Reading, Counting, Held,
       AfterRelease, Enter
  <2> QED BY <2>1, <2>2, <2>3, <2>4, <2>5, <2>6
<1>9. CASE AssertNonEmpty
  <2>1. TypeOK'
    BY <1>9, <1>a, <1>b DEF AssertNonEmpty, TypeOK, Indices, Counting, Enter, Slots
  <2>2. Indices'
    BY <1>9, <1>a, <1>b DEF AssertNonEmpty, TypeOK, Indices, Reading, Held, AfterRelease
  <2>3. Contents'
    BY <1>9, <1>a, <1>b DEF AssertNonEmpty, TypeOK, Contents, Indices, Held,
       AfterRelease, Enter
  <2>4. Reading'
    BY <1>9, <1>a, <1>b DEF AssertNonEmpty, TypeOK, Reading, Indices, Held,
       AfterRelease, Enter
  <2>5. Counting'
    BY <1>9, <1>a DEF AssertNonEmpty, TypeOK, Counting, Indices, Reading, Held,
       AfterRelease, Enter
  <2>6. Deliveries'
    BY <1>9, <1>a DEF AssertNonEmpty, TypeOK, Deliveries, Reading, Counting, Held,
       AfterRelease, Enter
  <2> QED BY <2>1, <2>2, <2>3, <2>4, <2>5, <2>6
<1>10. CASE DecrementCount
  <2>1. TypeOK'
    BY <1>10, <1>a, <1>b DEF DecrementCount, TypeOK, Indices, Counting, Enter, Slots
  <2>2. Indices'
    BY <1>10, <1>a, <1>b DEF DecrementCount, TypeOK, Indices, Reading, Held, AfterRelease
  <2>3. Contents'
    BY <1>10, <1>a, <1>b DEF DecrementCount, TypeOK, Contents, Indices, Held,
       AfterRelease, Enter
  <2>4. Reading'
    BY <1>10, <1>a, <1>b DEF DecrementCount, TypeOK, Reading, Indices, Held,
       AfterRelease, Enter
  <2>5. Counting'
    BY <1>10, <1>a DEF DecrementCount, TypeOK, Counting, Indices, Reading, Held,
       AfterRelease, Enter
  <2>6. Deliveries'
    BY <1>10, <1>a DEF DecrementCount, TypeOK, Deliveries, Reading, Counting, Held,
       AfterRelease, Enter
  <2> QED BY <2>1, <2>2, <2>3, <2>4, <2>5, <2>6
<1>11. CASE UNCHANGED vars
  BY <1>11 DEF vars, TypeOK, Indices, Contents, Reading, Counting, Deliveries,
               Held, AfterRelease
<1> QED
  BY <1>1, <1>2, <1>3, <1>4, <1>5, <1>6, <1>7, <1>8, <1>9, <1>10, <1>11
  DEF Next, Produce, Consume

\* The invariant holds of every reachable state.
LEMMA QueueInvariance == Spec => []QueueIInv
<1>1. Init => QueueIInv
  BY QueueStarts
<1>2. QueueIInv /\ [Next]_vars => QueueIInv'
  BY QueueStep
<1> QED BY <1>1, <1>2, PTL DEF Spec

-----------------------------------------------------------------------------
\* Type correctness of the ring: the indices stay inside m_store and the
\* element count never wraps below zero, for every size and lag.
THEOREM QueueTypeCorrect == Spec => []TypeOK
<1>1. QueueIInv => TypeOK
  BY DEF QueueIInv
<1> QED BY <1>1, QueueInvariance, PTL

\* No slot is written while the consumer reads it, in any of the three kinds
\* of consumer loop, as long as the consumer is less than a ring behind.
THEOREM RaceFree == Spec => []NoDataRace
<1>1. QueueIInv => NoDataRace
  <2> SUFFICES ASSUME QueueIInv, producer = "fill", consumer = "use", wslot = rslot
               PROVE  FALSE
    BY DEF NoDataRace
  <2> USE LFQueueAssumption
  <2>1. wslot = published % Size /\ rslot = Held % Size
    BY DEF QueueIInv, Indices, Reading
  <2>2. Held \in Nat /\ Held < published /\ published < Held + Size
    BY DEF QueueIInv, Indices, Reading, TypeOK, Held, AfterRelease
  <2>3. published \in Nat
    BY DEF QueueIInv, TypeOK
  <2> QED BY <2>1, <2>2, <2>3, ModDistinct
<1> QED BY <1>1, QueueInvariance, PTL

\* The loops that test size() before they use an element never fail the
\* assertion of updateReadIndex.
THEOREM SizedLoopsSafe == Spec => []SizedNeverAborts
<1>1. QueueIInv => SizedNeverAborts
  BY DEF QueueIInv, Counting, SizedNeverAborts
<1> QED BY <1>1, QueueInvariance, PTL

\* The ring implements the bounded FIFO channel: what the consumer reads is
\* what the producer wrote, in order, each element once.
THEOREM RingImplementsFifo == Spec => ImplementsFifo
<1> USE LFQueueAssumption
<1>1. Init => Channel!Init
  BY DEF Init, Channel!Init
<1>2. QueueIInv /\ [Next]_vars => [Channel!Next]_(Channel!vars)
  <2> SUFFICES ASSUME QueueIInv, [Next]_vars
               PROVE  [Channel!Next]_(Channel!vars)
    OBVIOUS
  <2> USE DEF pvars, cvars, history, Channel!vars
  <2>1. CASE StoreWriteIndex
    <3>1. published - delivered < Size
      BY <2>1 DEF StoreWriteIndex, QueueIInv, TypeOK, Indices, Deliveries, Held
    <3> QED BY <2>1, <3>1 DEF StoreWriteIndex, Channel!Next, Channel!Send
  <2>2. CASE UseElement
    <3>1. delivered = Held /\ Held < published /\ rslot = Held % Size
      BY <2>2 DEF UseElement, QueueIInv, Deliveries, Reading
    <3>2. store[Held % Size] = Held
      BY <3>1 DEF QueueIInv, TypeOK, Contents, Held
    <3> QED BY <2>2, <3>1, <3>2
        DEF UseElement, Channel!Next, Channel!Receive
  <2>3. CASE GetNextToWriteTo
    BY <2>3 DEF GetNextToWriteTo
  <2>4. CASE WriteElement
    BY <2>4 DEF WriteElement
  <2>5. CASE CountElement
    BY <2>5 DEF CountElement
  <2>6. CASE GetNextToRead
    BY <2>6 DEF GetNextToRead
  <2>7. CASE LoadSize
    BY <2>7 DEF LoadSize
  <2>8. CASE StoreReadIndex
    BY <2>8 DEF StoreReadIndex
  <2>9. CASE AssertNonEmpty
    BY <2>9 DEF AssertNonEmpty
  <2>10. CASE DecrementCount
    BY <2>10 DEF DecrementCount
  <2>11. CASE UNCHANGED vars
    BY <2>11 DEF vars
  <2> QED
    BY <2>1, <2>2, <2>3, <2>4, <2>5, <2>6, <2>7, <2>8, <2>9, <2>10, <2>11
    DEF Next, Produce, Consume
<1> QED BY <1>1, <1>2, QueueInvariance, PTL DEF Spec, ImplementsFifo, Channel!Spec

-----------------------------------------------------------------------------
(* The pool of blocks *)

PoolType == Pools(NumElems)

PoolIInv == PoolTypeOK /\ LiveIsHeld /\ NextIsFree /\ FailsOnlyWhenFull

\* Both operations preserve the four invariants together: none of them is
\* inductive alone.
LEMMA PoolStep == PoolIInv /\ [PoolNext]_poolVars => PoolIInv'
<1> SUFFICES ASSUME PoolIInv, [PoolNext]_poolVars PROVE PoolIInv'
  OBVIOUS
<1> USE MemPoolAssumption
<1>0. pool \in PoolType /\ held \subseteq 0 .. (NumElems - 1)
  BY DEF PoolIInv, PoolTypeOK, PoolType, Pools
<1>1. CASE AllocateBlock
  <2> DEFINE p == [pool EXCEPT !.free[pool.next] = FALSE]
             q == UpdateNextFreeIndex(p)
  <2>1. ~pool.failed /\ pool.free[pool.next] /\ LiveBlocks(pool) = held
    BY <1>1 DEF AllocateBlock, PoolIInv, LiveIsHeld, NextIsFree
  <2>2. pool' = q
    BY <1>1, <2>1 DEF AllocateBlock, Allocate
  <2>3. p \in PoolType /\ ~p.failed
    BY <1>0, <2>1 DEF PoolType, Pools
  <2>4. /\ q \in PoolType /\ q.free = p.free
        /\ ~q.failed => q.free[q.next]
        /\ q.failed => \A b \in 0 .. (NumElems - 1) : ~p.free[b]
    <3> HIDE DEF p
    <3> QED BY <2>3, SearchSpec DEF PoolType
  <2>5. held' = IF pool'.failed THEN held ELSE held \cup {pool.next}
    BY <1>1 DEF AllocateBlock
  <2>6. pool.next \in 0 .. (NumElems - 1)
    BY <1>0 DEF PoolType, Pools
  <2>7. LiveBlocks(q) = LiveBlocks(pool) \cup {pool.next}
    <3>1. \A b \in 0 .. (NumElems - 1) :
             ~q.free[b] <=> (~pool.free[b] \/ b = pool.next)
      BY <2>4, <1>0 DEF PoolType, Pools
    <3>2. q.size = NumElems /\ pool.size = NumElems
      BY <2>4, <1>0 DEF PoolType, Pools
    <3> HIDE DEF q
    <3> QED BY <3>1, <3>2, <2>6 DEF LiveBlocks, Blocks
  <2>8. q.size = NumElems
    BY <2>4 DEF PoolType, Pools
  <2> HIDE DEF q
  <2>9. PoolTypeOK'
    BY <2>2, <2>4, <2>5, <2>6, <1>0 DEF PoolTypeOK, PoolType, Pools
  <2>10. LiveIsHeld' /\ NextIsFree'
    BY <2>1, <2>2, <2>4, <2>5, <2>7 DEF LiveIsHeld, NextIsFree
  <2>11. FailsOnlyWhenFull'
    BY <2>2, <2>4, <2>8 DEF FailsOnlyWhenFull, LiveBlocks, Blocks
  <2> QED BY <2>9, <2>10, <2>11 DEF PoolIInv
<1>2. CASE DeallocateBlock
  <2>1. /\ ~pool.failed /\ pool.free[pool.next] /\ LiveBlocks(pool) = held
    BY <1>2 DEF DeallocateBlock, PoolIInv, LiveIsHeld, NextIsFree
  <2>2. PICK b \in held : pool' = Deallocate(pool, b) /\ held' = held \ {b}
    BY <1>2 DEF DeallocateBlock
  <2>3. b \in Blocks(pool) /\ ~pool.free[b] /\ b \in 0 .. (NumElems - 1)
    BY <2>1, <1>0 DEF LiveBlocks
  <2>4. pool' = [pool EXCEPT !.free[b] = TRUE]
    BY <2>2, <2>3 DEF Deallocate
  <2>5. PoolTypeOK'
    BY <2>2, <2>4, <1>0 DEF PoolTypeOK, PoolType, Pools
  <2>6. LiveBlocks(pool') = LiveBlocks(pool) \ {b}
    BY <2>3, <2>4, <1>0 DEF LiveBlocks, Blocks, PoolType, Pools
  <2>7. LiveIsHeld' /\ FailsOnlyWhenFull'
    BY <2>1, <2>2, <2>4, <2>6, <1>0
    DEF LiveIsHeld, FailsOnlyWhenFull, PoolType, Pools
  <2>8. NextIsFree'
    BY <2>1, <2>3, <2>4, <1>0 DEF NextIsFree, PoolType, Pools
  <2> QED BY <2>5, <2>7, <2>8 DEF PoolIInv
<1>3. CASE UNCHANGED poolVars
  BY <1>3 DEF poolVars, PoolIInv, PoolTypeOK, LiveIsHeld, NextIsFree, FailsOnlyWhenFull,
              LiveBlocks, Blocks
<1> QED BY <1>1, <1>2, <1>3 DEF PoolNext

\* The invariant holds throughout.
LEMMA PoolInvariance == PoolSpec => []PoolIInv
<1> USE MemPoolAssumption
<1>1. PoolInit => PoolIInv
  BY DEF PoolInit, NewPool, PoolIInv, PoolTypeOK, LiveIsHeld, NextIsFree,
         FailsOnlyWhenFull, LiveBlocks, Blocks
<1> QED BY <1>1, PoolStep, PTL DEF PoolSpec

\* For every number of blocks: the pool keeps its shape and only hands out blocks
\* that it has.
THEOREM PoolTypeCorrect == PoolSpec => []PoolTypeOK
BY PoolInvariance, PTL DEF PoolIInv

\* For every number of blocks and every order of calls: no block leaks, and none
\* is free while it is held.
THEOREM NothingLeaks == PoolSpec => []LiveIsHeld
BY PoolInvariance, PTL DEF PoolIInv

\* For every number of blocks: the cyclic search always leaves a free block next, so
\* no block is handed out twice.
THEOREM NeverTwice == PoolSpec => []NextIsFree
BY PoolInvariance, PTL DEF PoolIInv

\* For every number of blocks: the pool fails on exactly the allocation that takes
\* its last free block.
THEOREM FailsWhenFull == PoolSpec => []FailsOnlyWhenFull
BY PoolInvariance, PTL DEF PoolIInv

-----------------------------------------------------------------------------
(* The position keeper *)

Infos == [position : Int, real : Int, unreal : Int, total : Int,
          vwap : [Sides -> Int], volume : Nat]
Fills == [side : Sides, price : Nat \ {0}, exec : Nat \ {0}]

KeeperTypes ==
  /\ info \in Infos /\ info.position \in -MaxPosition .. MaxPosition
  /\ Abs(info.position) <= info.volume
  /\ fills \in 0 .. MaxFills /\ cash \in Int /\ mark \in Nat /\ wrong \in BOOLEAN

\* Which total counts: that of the side the position is open on, against the
\* cash c; none when it is flat.
Booked(i, c) ==
  /\ i.position > 0 => c = i.real - i.vwap["BUY"] * Scale
  /\ i.position < 0 => c = i.real + i.vwap["SELL"] * Scale
  /\ i.position = 0 => c = i.real /\ i.unreal = 0

\* An open position is valued at the price m.
Valued(i, m) ==
  /\ i.position > 0 => i.total = i.real + (m * i.position - i.vwap["BUY"] * Scale)
  /\ i.position < 0 => i.total = i.real + (i.vwap["SELL"] * Scale + m * i.position)

KeeperIInv == KeeperTypes /\ (~wrong => Booked(info, cash)) /\ Valued(info, mark)

-----------------------------------------------------------------------------
(* Arithmetic *)

\* Up to MaxPosition pieces divide the scale.
LEMMA ScaleDivides ==
  ASSUME NEW m \in 1 .. MaxPosition
  PROVE  Scale \div m \in Int /\ m * (Scale \div m) = Scale
<1> USE PositionKeeperAssumption
<1>1. m \in Nat \ {0} /\ Scale \in Nat
  OBVIOUS
<1>2. Scale % m = 0
  OBVIOUS
<1>3. Scale \div m \in Int /\ Scale = m * (Scale \div m) + (Scale % m)
  BY <1>1
<1>4. m * (Scale \div m) + 0 = m * (Scale \div m)
  BY <1>3, <1>1
<1> QED
  BY <1>2, <1>3, <1>4

\* What closing m pieces of a total v at the price p brings.
LEMMA ClosingProfit ==
  ASSUME NEW m \in Int, NEW v \in Int, NEW d \in Int, NEW p \in Int, NEW s \in Int,
         m * d = s
  PROVE  m * (v * d - p * s) = v * s - m * p * s
<1>1. m * (v * d - p * s) = m * (v * d) - m * (p * s)
  OBVIOUS
<1>2. m * (v * d) = v * (m * d)
  OBVIOUS
<1>3. m * (p * s) = m * p * s
  OBVIOUS
<1> QED
  BY <1>1, <1>2, <1>3

-----------------------------------------------------------------------------
(* One fill *)

\* The sides are two, and have their values.
LEMMA SideFacts ==
  /\ \A s \in Sides : Opposite(s) \in Sides /\ SideToValue(s) \in {-1, 1}
  /\ Opposite("BUY") = "SELL" /\ Opposite("SELL") = "BUY"
  /\ SideToValue("BUY") = 1 /\ SideToValue("SELL") = -1
  /\ "BUY" \in Sides /\ "SELL" \in Sides
BY DEF Sides, Opposite, SideToValue

\* What a valuation changes.
LEMMA MarkedFacts ==
  ASSUME NEW i \in Infos, NEW m \in Int
  PROVE  /\ Marked(i, m) \in Infos
         /\ Marked(i, m).position = i.position /\ Marked(i, m).real = i.real
         /\ Marked(i, m).vwap = i.vwap /\ Marked(i, m).volume = i.volume
         /\ i.position # 0 => Valued(Marked(i, m), m)
<1>0. Scale \in Int /\ i.position \in Int /\ i.vwap["BUY"] \in Int /\ i.vwap["SELL"] \in Int
  BY PositionKeeperAssumption DEF Infos, Sides
<1>1. Abs(i.position) \in Int
  BY <1>0 DEF Abs
<1> DEFINE u == IF i.position > 0 THEN m * Abs(i.position) - i.vwap["BUY"] * Scale
                ELSE i.vwap["SELL"] * Scale - m * Abs(i.position)
<1>2. /\ u \in Int
      /\ i.position > 0 => u = m * i.position - i.vwap["BUY"] * Scale
      /\ i.position < 0 => u = i.vwap["SELL"] * Scale + m * i.position
  <2>1. m * Abs(i.position) - i.vwap["BUY"] * Scale \in Int
    BY <1>0, <1>1
  <2>2. i.vwap["SELL"] * Scale - m * Abs(i.position) \in Int
    BY <1>0, <1>1
  <2>3. i.position < 0 => m * Abs(i.position) = -(m * i.position)
    BY <1>0 DEF Abs
  <2> QED
    BY <1>0, <2>1, <2>2, <2>3 DEF Abs
<1> DEFINE t == u + i.real
<1>3. Marked(i, m) = [i EXCEPT !.unreal = u, !.total = t]
  BY DEF Marked
<1>t. i.real \in Int /\ t \in Int /\ t = i.real + u
  BY <1>2 DEF Infos
<1> HIDE DEF u, t
<1>4. /\ Marked(i, m) \in Infos
      /\ Marked(i, m).position = i.position /\ Marked(i, m).real = i.real
      /\ Marked(i, m).vwap = i.vwap /\ Marked(i, m).volume = i.volume
      /\ Marked(i, m).total = t
  BY <1>2, <1>3, <1>t DEF Infos
<1> QED
  BY <1>2, <1>4, <1>t DEF Valued

\* The state of addFill before the position is valued.
Booking(i, fill) ==
  LET old    == i.position
      value  == SideToValue(fill.side)
      traded == Traded(i, fill)
      new    == traded.position
      profit == Lesser(fill.exec, Abs(old)) * value *
                  (i.vwap[Opposite(fill.side)] * (Scale \div Abs(old)) - fill.price * Scale)
  IN  IF old * value >= 0
        THEN [traded EXCEPT !.vwap[fill.side] = @ + fill.price * fill.exec]
      ELSE [traded EXCEPT !.real = @ + profit,
                          !.vwap = IF new * old < 0 THEN Turned(traded, fill) ELSE @]

\* addFill is the booking, then a reset or a valuation.
LEMMA AddFillBooking ==
  ASSUME NEW i \in Infos, NEW fill \in Fills
  PROVE  AddFill(i, fill) =
           IF Traded(i, fill).position = 0
             THEN [Booking(i, fill) EXCEPT !.vwap = [s \in Sides |-> 0], !.unreal = 0]
           ELSE Marked(Booking(i, fill), fill.price * Scale)
BY DEF AddFill, Booking

\* Position and volume after a fill.
LEMMA TradedFacts ==
  ASSUME NEW i \in Infos, NEW fill \in Fills
  PROVE  /\ Traded(i, fill) \in Infos
         /\ Traded(i, fill).position = i.position + fill.exec * SideToValue(fill.side)
         /\ Traded(i, fill).volume = i.volume + fill.exec
         /\ Traded(i, fill).real = i.real /\ Traded(i, fill).vwap = i.vwap
         /\ Traded(i, fill).unreal = i.unreal /\ Traded(i, fill).total = i.total
<1>1. fill.exec \in Nat /\ SideToValue(fill.side) \in Int
      /\ i.position \in Int /\ i.volume \in Nat
  BY SideFacts DEF Fills, Infos
<1> DEFINE p == i.position + fill.exec * SideToValue(fill.side)
           n == i.volume + fill.exec
           r == Traded(i, fill)
<1>2. p \in Int /\ n \in Nat
  BY <1>1
<1>3. r = [i EXCEPT !.position = p, !.volume = n]
  BY DEF Traded
<1> HIDE DEF p, n, r
<1>4. /\ r \in Infos /\ r.position = p /\ r.volume = n
      /\ r.real = i.real /\ r.vwap = i.vwap
      /\ r.unreal = i.unreal /\ r.total = i.total
  BY <1>2, <1>3 DEF Infos
<1> QED
  BY <1>4 DEF p, n, r

\* A fill that opens a position or adds to it.
LEMMA BookingOpens ==
  ASSUME NEW i \in Infos, NEW fill \in Fills,
         i.position * SideToValue(fill.side) >= 0
  PROVE  /\ Booking(i, fill) \in Infos
         /\ Booking(i, fill).position = Traded(i, fill).position
         /\ Booking(i, fill).volume = Traded(i, fill).volume
         /\ Booking(i, fill).real = i.real
         /\ Booking(i, fill).vwap[fill.side] = i.vwap[fill.side] + fill.price * fill.exec
<1>1. fill.price * fill.exec \in Int /\ fill.side \in Sides
  BY DEF Fills
<1> QED
  BY <1>1, TradedFacts DEF Booking, Infos

\* A fill that closes the whole position, and may open one on the other side.
LEMMA BookingCloses ==
  ASSUME NEW i \in Infos, NEW fill \in Fills,
         Abs(i.position) \in 1 .. MaxPosition,
         i.position * SideToValue(fill.side) < 0,
         NEW m, m = Lesser(fill.exec, Abs(i.position)),
         NEW v, v = SideToValue(fill.side),
         NEW t, t = i.vwap[Opposite(fill.side)]
  PROVE  /\ Booking(i, fill) \in Infos
         /\ Booking(i, fill).position = Traded(i, fill).position
         /\ Booking(i, fill).volume = Traded(i, fill).volume
         /\ m = Abs(i.position) =>
              Booking(i, fill).real = i.real + v * (t * Scale - m * fill.price * Scale)
         /\ Traded(i, fill).position * i.position < 0 =>
              Booking(i, fill).vwap[fill.side] = fill.price * Abs(Traded(i, fill).position)
<1> DEFINE d == Scale \div Abs(i.position)
           p == fill.price
<1>1. /\ m \in Int /\ v \in Int /\ t \in Int /\ d \in Int /\ p \in Int /\ Scale \in Int
      /\ Abs(i.position) * d = Scale
  BY ScaleDivides, SideFacts, PositionKeeperAssumption DEF Infos, Fills, Lesser
<1> HIDE DEF d, p
<1> DEFINE profit == m * v * (t * d - p * Scale)
<1>2. t * d - p * Scale \in Int /\ m * v * (t * d - p * Scale) = v * (m * (t * d - p * Scale))
  <2>1. t * d - p * Scale \in Int
    BY <1>1
  <2> QED
    BY <1>1, <2>1
<1>3. m = Abs(i.position) => profit = v * (t * Scale - m * p * Scale)
  BY <1>1, <1>2, ClosingProfit
<1>4. profit \in Int
  BY <1>1, <1>2
<1>5. Traded(i, fill) \in Infos /\ Traded(i, fill).vwap = i.vwap
      /\ Traded(i, fill).real = i.real /\ fill.side \in Sides
      /\ Opposite(fill.side) \in Sides /\ Opposite(fill.side) # fill.side
  BY TradedFacts DEF Fills, Sides, Opposite
<1>6. p * Abs(Traded(i, fill).position) \in Int
  BY <1>1, <1>5 DEF Infos, Abs
<1>7. Turned(Traded(i, fill), fill) \in [Sides -> Int]
      /\ Turned(Traded(i, fill), fill)[fill.side] = p * Abs(Traded(i, fill).position)
  BY <1>5, <1>6 DEF Turned, Infos, p
<1> DEFINE w == IF Traded(i, fill).position * i.position < 0
                  THEN Turned(Traded(i, fill), fill) ELSE i.vwap
<1>8. Booking(i, fill) = [Traded(i, fill) EXCEPT !.real = @ + profit, !.vwap = w]
  BY <1>1, <1>5 DEF Booking, Infos, d, p
<1> DEFINE r == Booking(i, fill)
           g == Traded(i, fill)
<1>w. w \in [Sides -> Int]
  BY <1>7 DEF Infos
<1> DEFINE x == i.real + profit
<1>x. x \in Int /\ g \in Infos /\ r = [g EXCEPT !.real = x, !.vwap = w]
  BY <1>4, <1>5, <1>8 DEF Infos
<1> HIDE DEF profit, w, r, g, x
<1>9. /\ r \in Infos /\ r.position = g.position /\ r.volume = g.volume
      /\ r.real = x /\ r.vwap = w
  BY <1>w, <1>x DEF Infos
<1>10. Traded(i, fill).position * i.position < 0 =>
         r.vwap = Turned(Traded(i, fill), fill)
  BY <1>5, <1>9 DEF w, g
<1> QED
  BY <1>3, <1>7, <1>9, <1>10 DEF p, r, g, x


\* The direction of a fill against the position.
LEMMA Directions ==
  ASSUME NEW i \in Infos, NEW fill \in Fills, Abs(i.position) <= MaxPosition
  PROVE  /\ i.position * SideToValue(fill.side) < 0 => Abs(i.position) \in 1 .. MaxPosition
         /\ ~(i.position * SideToValue(fill.side) < 0) => i.position * SideToValue(fill.side) >= 0
<1>1. i.position \in Int /\ SideToValue(fill.side) \in {-1, 1} /\ MaxPosition \in Nat
  BY SideFacts, PositionKeeperAssumption DEF Infos, Fills
<1>2. CASE SideToValue(fill.side) = 1
  BY <1>1, <1>2 DEF Abs
<1>3. CASE SideToValue(fill.side) = -1
  BY <1>1, <1>3 DEF Abs
<1> QED
  BY <1>1, <1>2, <1>3

\* Whatever the fill does, the position moves by it, and one that is open is
\* valued at its price.
LEMMA FillValued ==
  ASSUME NEW i \in Infos, NEW fill \in Fills, Abs(i.position) <= MaxPosition
  PROVE  /\ AddFill(i, fill) \in Infos
         /\ AddFill(i, fill).position = i.position + fill.exec * SideToValue(fill.side)
         /\ AddFill(i, fill).volume = i.volume + fill.exec
         /\ AddFill(i, fill).real = Booking(i, fill).real
         /\ AddFill(i, fill).position # 0 => AddFill(i, fill).vwap = Booking(i, fill).vwap
         /\ AddFill(i, fill).position = 0 => AddFill(i, fill).unreal = 0
         /\ Valued(AddFill(i, fill), fill.price * Scale)
<1> DEFINE b == Booking(i, fill)
           m == fill.price * Scale
           a == AddFill(i, fill)
           w == [s \in Sides |-> 0]
           z == 0
<1>1. b \in Infos /\ b.position = Traded(i, fill).position /\ b.volume = Traded(i, fill).volume
  BY Directions, BookingOpens, BookingCloses
<1>2. m \in Int
  BY PositionKeeperAssumption DEF Fills
<1>3. a = IF b.position = 0 THEN [b EXCEPT !.vwap = w, !.unreal = z] ELSE Marked(b, m)
  BY <1>1, AddFillBooking
<1>4. w \in [Sides -> Int] /\ z \in Int
  OBVIOUS
<1> HIDE DEF b, m, a, w, z
<1>5. CASE b.position = 0
  <2>1. /\ a \in Infos /\ a.position = b.position /\ a.volume = b.volume
        /\ a.real = b.real /\ a.unreal = z
    BY <1>1, <1>3, <1>4, <1>5 DEF Infos
  <2>2. Valued(a, m)
    BY <2>1, <1>5 DEF Valued
  <2>3. /\ b.position = i.position + fill.exec * SideToValue(fill.side)
        /\ b.volume = i.volume + fill.exec
    BY <1>1, TradedFacts
  <2> QED
    BY <2>1, <2>2, <2>3, <1>5 DEF a, b, m, z
<1>6. CASE b.position # 0
  <2>1. a = Marked(b, m)
    BY <1>3, <1>6
  <2>2. /\ a \in Infos /\ a.position = b.position /\ a.volume = b.volume
        /\ a.real = b.real /\ a.vwap = b.vwap /\ Valued(a, m)
    BY <2>1, <1>1, <1>2, <1>6, MarkedFacts
  <2> QED
    BY <2>2, <1>1, <1>6, TradedFacts DEF a, b, m
<1> QED
  BY <1>5, <1>6


\* A buy or a sale, in numbers: a is the position, v the total of its side, q at
\* the price p what is traded against it, new what is left.
LEMMA Adding ==
  ASSUME NEW v \in Int, NEW p \in Int, NEW q \in Int, NEW s \in Int
  PROVE  (v + p * q) * s = v * s + p * q * s
OBVIOUS

LEMMA Turning ==
  ASSUME NEW m \in Int, NEW n \in Int, NEW q \in Int, NEW p \in Int, NEW s \in Int,
         q = m + n
  PROVE  p * q * s = m * p * s + p * n * s
<1>1. p * q = m * p + p * n
  OBVIOUS
<1>2. (m * p + p * n) * s = m * p * s + p * n * s
  OBVIOUS
<1> QED
  BY <1>1, <1>2

\* The books stay right unless the fill is one of the two kinds of Misbooked.
LEMMA FillBooked ==
  ASSUME NEW i \in Infos, NEW fill \in Fills, Abs(i.position) <= MaxPosition,
         NEW c \in Int, Booked(i, c), ~Misbooked(i, fill)
  PROVE  Booked(AddFill(i, fill),
                c - fill.price * fill.exec * SideToValue(fill.side) * Scale)
<1> DEFINE a == AddFill(i, fill)
           b == Booking(i, fill)
           q == fill.exec
           p == fill.price
           s == Scale
           old == i.position
           V(side) == i.vwap[side]
<1>1. /\ q \in Nat \ {0} /\ p \in Nat /\ s \in Nat /\ old \in Int /\ i.real \in Int
      /\ V("BUY") \in Int /\ V("SELL") \in Int /\ fill.side \in Sides
  BY SideFacts, PositionKeeperAssumption DEF Infos, Fills
<1>2. /\ a \in Infos /\ a.real = b.real
      /\ a.position = old + q * SideToValue(fill.side)
      /\ a.position # 0 => a.vwap = b.vwap
      /\ a.position = 0 => a.unreal = 0
  BY FillValued
<1>3. p * q * s \in Int
  BY <1>1
<1>4. CASE fill.side = "BUY"
  <2>1. a.position = old + q /\ SideToValue(fill.side) = 1 /\ Opposite(fill.side) = "SELL"
    BY <1>1, <1>2, <1>4, SideFacts
  <2>2. c - p * q * SideToValue(fill.side) * s = c - p * q * s
    BY <1>1, <2>1
  <2>3. CASE old >= 0
    <3>1. b.real = i.real /\ b.vwap["BUY"] = V("BUY") + p * q
      BY <1>1, <1>4, <2>1, <2>3, BookingOpens
    <3>2. (V("BUY") + p * q) * s = V("BUY") * s + p * q * s
      BY <1>1, Adding
    <3>3. c = i.real - V("BUY") * s
      <4>1. old = 0 => V("BUY") = 0 /\ c = i.real
        BY <1>4 DEF Misbooked, Booked
      <4>2. old > 0 => c = i.real - V("BUY") * s
        BY DEF Booked
      <4> QED
        BY <4>1, <4>2, <1>1, <2>3
    <3>p. a.position > 0 /\ a.position # 0 /\ a.position \in Int
      BY <1>1, <2>1, <2>3
    <3>4. a.real = i.real /\ a.vwap["BUY"] = V("BUY") + p * q
      BY <1>2, <3>p, <3>1
    <3>5. V("BUY") * s \in Int
      BY <1>1
    <3> DEFINE k == c - p * q * s
    <3>6. k = a.real - a.vwap["BUY"] * s
      BY <1>1, <1>3, <3>2, <3>3, <3>4, <3>5
    <3> HIDE DEF a, k
    <3>7. Booked(a, k)
      BY <3>p, <3>6 DEF Booked
    <3> QED
      BY <3>7, <2>2 DEF a, k
  <2>4. CASE old < 0
    <3> DEFINE m == -old
               n == q - m
    <3>1. /\ Abs(old) = m /\ m \in Nat \ {0} /\ q >= m /\ Lesser(q, Abs(old)) = m
          /\ n \in Nat /\ q = m + n /\ a.position = n
      BY <1>1, <1>4, <2>1, <2>4 DEF Abs, Lesser, Misbooked
    <3>2. /\ b.real = i.real + 1 * (V("SELL") * s - m * p * s)
          /\ n # 0 => b.vwap["BUY"] = p * n
      <4>1. Abs(i.position) \in 1 .. MaxPosition /\ i.position * SideToValue(fill.side) < 0
        BY <1>1, <2>1, <2>4, <3>1, PositionKeeperAssumption
      <4>2. /\ Lesser(fill.exec, Abs(i.position)) = Abs(i.position)
              => b.real = i.real + 1 * (V("SELL") * s - m * p * s)
            /\ Traded(i, fill).position * i.position < 0 =>
                 b.vwap["BUY"] = p * Abs(Traded(i, fill).position)
        BY <4>1, <1>4, <2>1, <3>1, BookingCloses
      <4>3. Traded(i, fill).position = n
        BY <1>1, <2>1, TradedFacts
      <4>4. n # 0 => n * old < 0 /\ Abs(n) = n
        BY <1>1, <2>4, <3>1 DEF Abs
      <4> QED
        BY <4>2, <4>3, <4>4, <3>1
    <3>3. c = i.real + V("SELL") * s
      BY <2>4 DEF Booked
    <3>4. p * q * s = m * p * s + p * n * s
      <4>1. m \in Int /\ n \in Int /\ q = m + n
        BY <1>1, <3>1
      <4> HIDE DEF m, n
      <4> QED
        BY <1>1, <4>1, Turning
    <3>5. /\ V("SELL") * s \in Int /\ m * p * s \in Int /\ p * n * s \in Int
          /\ n = 0 => p * n * s = 0
      <4>1. m \in Int /\ n \in Int
        BY <3>1
      <4> HIDE DEF m, n
      <4> QED
        BY <1>1, <4>1
    <3> HIDE DEF m, n
    <3> DEFINE k == c - p * q * s
    <3>6. k = a.real - p * n * s
      BY <1>1, <1>2, <3>2, <3>3, <3>4, <3>5
    <3>z. n = 0 => k = a.real
      BY <1>1, <1>2, <3>5, <3>6 DEF Infos
    <3> HIDE DEF a, k, b
    <3>7. n # 0 => k = a.real - a.vwap["BUY"] * s
      BY <1>2, <3>1, <3>2, <3>6
    <3>8. Booked(a, k)
      BY <1>2, <3>1, <3>z, <3>7 DEF Booked
    <3> QED
      BY <3>8, <2>2 DEF a, k
  <2> QED
    BY <1>1, <2>3, <2>4
<1>5. CASE fill.side = "SELL"
  <2>1. a.position = old - q /\ SideToValue(fill.side) = -1 /\ Opposite(fill.side) = "BUY"
    BY <1>1, <1>2, <1>5, SideFacts
  <2>2. c - p * q * SideToValue(fill.side) * s = c + p * q * s
    BY <1>1, <2>1
  <2>3. CASE old <= 0
    <3>1. b.real = i.real /\ b.vwap["SELL"] = V("SELL") + p * q
      BY <1>1, <1>5, <2>1, <2>3, BookingOpens
    <3>2. (V("SELL") + p * q) * s = V("SELL") * s + p * q * s
      BY <1>1, Adding
    <3>3. c = i.real + V("SELL") * s
      <4>1. old = 0 => V("SELL") = 0 /\ c = i.real
        BY <1>5 DEF Misbooked, Booked
      <4>2. old < 0 => c = i.real + V("SELL") * s
        BY DEF Booked
      <4> QED
        BY <4>1, <4>2, <1>1, <2>3
    <3>p. a.position < 0 /\ a.position # 0 /\ a.position \in Int
      BY <1>1, <2>1, <2>3
    <3>4. a.real = i.real /\ a.vwap["SELL"] = V("SELL") + p * q
      BY <1>2, <3>p, <3>1
    <3>5. V("SELL") * s \in Int
      BY <1>1
    <3> DEFINE k == c + p * q * s
    <3>6. k = a.real + a.vwap["SELL"] * s
      BY <1>1, <1>3, <3>2, <3>3, <3>4, <3>5
    <3> HIDE DEF a, k
    <3>7. Booked(a, k)
      BY <3>p, <3>6 DEF Booked
    <3> QED
      BY <3>7, <2>2 DEF a, k
  <2>4. CASE old > 0
    <3> DEFINE m == old
               n == q - m
    <3>1. /\ Abs(old) = m /\ m \in Nat \ {0} /\ q >= m /\ Lesser(q, Abs(old)) = m
          /\ n \in Nat /\ q = m + n /\ a.position = -n
      BY <1>1, <1>5, <2>1, <2>4 DEF Abs, Lesser, Misbooked
    <3>2. /\ b.real = i.real + (-1) * (V("BUY") * s - m * p * s)
          /\ n # 0 => b.vwap["SELL"] = p * n
      <4>1. Abs(i.position) \in 1 .. MaxPosition /\ i.position * SideToValue(fill.side) < 0
        BY <1>1, <2>1, <2>4, <3>1, PositionKeeperAssumption
      <4>2. /\ Lesser(fill.exec, Abs(i.position)) = Abs(i.position)
              => b.real = i.real + (-1) * (V("BUY") * s - m * p * s)
            /\ Traded(i, fill).position * i.position < 0 =>
                 b.vwap["SELL"] = p * Abs(Traded(i, fill).position)
        BY <4>1, <1>5, <2>1, <3>1, BookingCloses
      <4>3. Traded(i, fill).position = -n
        BY <1>1, <2>1, TradedFacts
      <4>4. n # 0 => (-n) * old < 0 /\ Abs(-n) = n
        BY <1>1, <2>4, <3>1 DEF Abs
      <4> QED
        BY <4>2, <4>3, <4>4, <3>1
    <3>3. c = i.real - V("BUY") * s
      BY <2>4 DEF Booked
    <3>4. p * q * s = m * p * s + p * n * s
      <4>1. m \in Int /\ n \in Int /\ q = m + n
        BY <1>1, <3>1
      <4> HIDE DEF m, n
      <4> QED
        BY <1>1, <4>1, Turning
    <3>5. /\ V("BUY") * s \in Int /\ m * p * s \in Int /\ p * n * s \in Int
          /\ n = 0 => p * n * s = 0
      <4>1. m \in Int /\ n \in Int
        BY <3>1
      <4> HIDE DEF m, n
      <4> QED
        BY <1>1, <4>1
    <3> HIDE DEF m, n
    <3> DEFINE k == c + p * q * s
    <3>6. k = a.real + p * n * s
      BY <1>1, <1>2, <3>2, <3>3, <3>4, <3>5
    <3>z. n = 0 => k = a.real
      BY <1>1, <1>2, <3>5, <3>6 DEF Infos
    <3> HIDE DEF a, k, b
    <3>7. n # 0 => k = a.real + a.vwap["SELL"] * s
      BY <1>2, <3>1, <3>2, <3>6
    <3>8. Booked(a, k)
      BY <1>2, <3>1, <3>z, <3>7 DEF Booked
    <3> QED
      BY <3>8, <2>2 DEF a, k
  <2> QED
    BY <1>1, <2>3, <2>4
<1> QED
  BY <1>1, <1>4, <1>5 DEF Sides


-----------------------------------------------------------------------------
(* The theorems *)

\* One fill keeps the invariant.
LEMMA OnFillKeeps == KeeperIInv /\ OnFill => KeeperIInv'
<1> SUFFICES ASSUME KeeperIInv, fills < MaxFills, fills' = fills + 1,
                    NEW s \in Sides, NEW p \in Prices, NEW q \in Qtys,
                    NEW fill, fill = [side |-> s, price |-> p, exec |-> q],
                    Abs(info.position + q * SideToValue(s)) <= MaxPosition,
                    info' = AddFill(info, fill),
                    cash' = cash - p * q * SideToValue(s) * Scale,
                    mark' = p * Scale,
                    wrong' = (wrong \/ Misbooked(info, fill))
             PROVE  KeeperIInv'
  BY DEF OnFill
<1>1. /\ fill \in Fills /\ fill.side = s /\ fill.price = p /\ fill.exec = q
      /\ p \in Nat /\ q \in Nat \ {0} /\ Scale \in Nat /\ MaxPosition \in Nat
      /\ MaxFills \in Nat /\ SideToValue(s) \in {-1, 1}
  BY PositionKeeperAssumption, SideFacts DEF Fills
<1>2. /\ info \in Infos /\ info.position \in Int /\ info.volume \in Nat /\ cash \in Int
      /\ Abs(info.position) <= info.volume /\ Abs(info.position) <= MaxPosition
      /\ fills \in Nat
  BY <1>1 DEF KeeperIInv, KeeperTypes, Infos, Abs
<1>3. /\ info' \in Infos /\ info'.position = info.position + q * SideToValue(s)
      /\ info'.volume = info.volume + q /\ Valued(info', mark')
  BY <1>1, <1>2, FillValued
<1>4. KeeperTypes'
  <2>1. p * Scale \in Nat /\ p * q * SideToValue(s) * Scale \in Int
    BY <1>1
  <2>2. q * SideToValue(s) \in {-q, q}
    BY <1>1
  <2>3. info'.position \in -MaxPosition .. MaxPosition /\ Abs(info'.position) <= info'.volume
    BY <1>1, <1>2, <1>3, <2>2 DEF Abs
  <2>4. wrong' \in BOOLEAN
    BY DEF KeeperIInv, KeeperTypes, Misbooked
  <2>5. cash' \in Int /\ mark' \in Nat /\ fills' \in 0 .. MaxFills
    BY <1>1, <1>2, <2>1
  <2> QED
    BY <1>3, <2>3, <2>4, <2>5 DEF KeeperTypes
<1>5. ~wrong' => Booked(info', cash')
  <2>1. ~wrong' => ~Misbooked(info, fill) /\ Booked(info, cash)
    BY DEF KeeperIInv
  <2> QED
    BY <1>1, <1>2, <2>1, FillBooked
<1> QED
  BY <1>3, <1>4, <1>5 DEF KeeperIInv

\* A change of the best bid and offer values an open position anew.
LEMMA OnBBOKeeps == KeeperIInv /\ OnBBO => KeeperIInv'
<1> SUFFICES ASSUME KeeperIInv, NEW bid \in Prices \cup {Invalid}, NEW ask \in Prices \cup {Invalid},
                    info' = UpdateBBO(info, bid, ask),
                    mark' = IF info.position # 0 /\ Invalid \notin {bid, ask}
                              THEN (bid + ask) * (Scale \div 2) ELSE mark,
                    UNCHANGED <<fills, cash, wrong>>
             PROVE  KeeperIInv'
  BY DEF OnBBO
<1> DEFINE m == (bid + ask) * (Scale \div 2)
<1>1. m \in Nat /\ m \in Int
  <2>1. bid \in Nat /\ ask \in Nat /\ Scale \in Nat
    BY PositionKeeperAssumption DEF Invalid
  <2>2. Scale \div 2 \in Nat
    BY <2>1
  <2> QED
    BY <2>1, <2>2
<1>2. info \in Infos /\ info.position \in Int
  BY DEF KeeperIInv, KeeperTypes, Infos
<1> HIDE DEF m
<1>3. CASE info.position # 0 /\ Invalid \notin {bid, ask}
  <2>1. info' = Marked(info, m) /\ mark' = m
    BY <1>3 DEF UpdateBBO, m
  <2>2. /\ info' \in Infos /\ info'.position = info.position /\ info'.real = info.real
        /\ info'.vwap = info.vwap /\ info'.volume = info.volume /\ Valued(info', m)
    <3> DEFINE a == Marked(info, m)
    <3>1. /\ a \in Infos /\ a.position = info.position /\ a.real = info.real
          /\ a.vwap = info.vwap /\ a.volume = info.volume /\ Valued(a, m)
      BY <1>1, <1>2, <1>3, MarkedFacts
    <3> HIDE DEF a
    <3>2. info' = a
      BY <2>1 DEF a
    <3> QED
      BY <3>1, <3>2
  <2>3. KeeperTypes'
    BY <1>1, <2>1, <2>2 DEF KeeperIInv, KeeperTypes
  <2>4. ~wrong' => Booked(info', cash')
    BY <1>2, <1>3, <2>2 DEF KeeperIInv, Booked
  <2> QED
    BY <2>1, <2>2, <2>3, <2>4 DEF KeeperIInv
<1>4. CASE ~(info.position # 0 /\ Invalid \notin {bid, ask})
  <2>1. info' = info /\ mark' = mark
    BY <1>4 DEF UpdateBBO
  <2> QED
    BY <2>1 DEF KeeperIInv, KeeperTypes, Booked, Valued
<1> QED
  BY <1>3, <1>4

\* The invariant holds throughout.
LEMMA KeeperInvariance == KeeperSpec => []KeeperIInv
<1>1. KeeperInit => KeeperIInv
  <2> SUFFICES ASSUME KeeperInit PROVE KeeperIInv
    OBVIOUS
  <2>1. PICK v \in [Sides -> Garbage] :
          info = [position |-> 0, real |-> 0, unreal |-> 0, total |-> 0,
                  vwap |-> v, volume |-> 0]
    BY DEF KeeperInit
  <2>2. v \in [Sides -> Int] /\ MaxPosition \in Nat /\ MaxFills \in Nat
    BY PositionKeeperAssumption
  <2>3. info \in Infos /\ info.position = 0 /\ info.volume = 0 /\ info.real = 0
        /\ info.unreal = 0
    BY <2>1, <2>2 DEF Infos
  <2>a. fills = 0 /\ cash = 0 /\ mark = 0 /\ wrong \in BOOLEAN
    BY DEF KeeperInit
  <2>b. 0 \in -MaxPosition .. MaxPosition /\ Abs(0) = 0
    BY <2>2 DEF Abs
  <2>4. KeeperTypes
    BY <2>2, <2>3, <2>a, <2>b DEF KeeperTypes
  <2>5. Booked(info, cash) /\ Valued(info, mark)
    BY <2>3, <2>a DEF Booked, Valued
  <2> QED
    BY <2>4, <2>5 DEF KeeperIInv
<1>2. KeeperIInv /\ [KeeperNext]_keeperVars => KeeperIInv'
  <2> SUFFICES ASSUME KeeperIInv, [KeeperNext]_keeperVars PROVE KeeperIInv'
    OBVIOUS
  <2>1. CASE OnFill
    BY <2>1, OnFillKeeps
  <2>2. CASE OnBBO
    BY <2>2, OnBBOKeeps
  <2>3. CASE UNCHANGED keeperVars
    BY <2>3 DEF keeperVars, KeeperIInv, KeeperTypes, Booked, Valued
  <2> QED
    BY <2>1, <2>2, <2>3 DEF KeeperNext
<1> QED
  BY <1>1, <1>2, PTL DEF KeeperSpec

\* Positions, totals and counters keep their types, and a position is never larger
\* than what was traded.
THEOREM KeeperTypeCorrect == KeeperSpec => []KeeperTypeOK
<1>1. KeeperIInv => KeeperTypeOK
  <2> SUFFICES ASSUME KeeperIInv PROVE KeeperTypeOK
    OBVIOUS
  <2>1. /\ info.volume \in Nat /\ info.vwap \in [Sides -> Int]
        /\ info.real \in Int /\ info.unreal \in Int /\ info.total \in Int
    BY DEF KeeperIInv, KeeperTypes, Infos
  <2>2. info.vwap["BUY"] \in Int /\ info.vwap["SELL"] \in Int
    BY <2>1, SideFacts
  <2> QED
    BY <2>1, <2>2 DEF KeeperIInv, KeeperTypes, KeeperTypeOK
<1> QED
  BY <1>1, KeeperInvariance, PTL

\* For every position, price and quantity: profit and loss is the cash of all fills
\* and the value of what is open, unless a fill was misbooked.
THEOREM CashIsPnL == KeeperSpec => []PnLIsCash
<1>1. KeeperIInv => PnLIsCash
  <2> SUFFICES ASSUME KeeperIInv, ~wrong PROVE
               IF info.position = 0 THEN info.real = cash /\ info.unreal = 0
               ELSE info.total = cash + info.position * mark
    BY DEF PnLIsCash
  <2> DEFINE b == info.vwap["BUY"] * Scale
             t == info.vwap["SELL"] * Scale
             w == mark * info.position
  <2>1. /\ info.position \in Int /\ info.real \in Int /\ cash \in Int /\ mark \in Int
        /\ info.vwap["BUY"] \in Int /\ info.vwap["SELL"] \in Int /\ Scale \in Int
    BY PositionKeeperAssumption, SideFacts DEF KeeperIInv, KeeperTypes, Infos
  <2>2. b \in Int /\ t \in Int /\ w \in Int /\ info.position * mark = w
    BY <2>1
  <2>3. /\ info.position > 0 => cash = info.real - b /\ info.total = info.real + (w - b)
        /\ info.position < 0 => cash = info.real + t /\ info.total = info.real + (t + w)
        /\ info.position = 0 => cash = info.real /\ info.unreal = 0
    BY DEF KeeperIInv, Booked, Valued
  <2> HIDE DEF b, t, w
  <2> QED
    BY <2>1, <2>2, <2>3
<1> QED
  BY <1>1, KeeperInvariance, PTL

=============================================================================
