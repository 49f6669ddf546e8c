------------------------------- MODULE LFQueue -------------------------------
(***************************************************************************)
(* common/lf_queue.hpp: the single-producer single-consumer ring through   *)
(* which the threads of the exchange and of the trader exchange requests,  *)
(* responses, market updates and log lines.  Each atomic access of the     *)
(* three sequentially consistent counters is one step.                     *)
(*                                                                         *)
(* The queue has no full check.  What keeps the writer off the unread      *)
(* slots is that the consumer keeps up: MaxLag is that assumption on the   *)
(* environment, and MaxWrites bounds the run for TLC.                      *)
(***************************************************************************)
EXTENDS Integers

CONSTANTS
  Size,       \* number of slots, the constructor's num_elems
  MaxLag,     \* the environment never lets the consumer fall further behind
  MaxWrites   \* bound: elements written in a run

ASSUME LFQueueAssumption ==
  /\ Size \in Nat \ {0}
  /\ MaxLag \in Nat \ {0}
  /\ MaxLag < Size
  /\ MaxWrites \in Nat

VARIABLES
  store,               \* m_store
  m_next_write_index,
  m_next_read_index,
  m_num_elements,
  producer,            \* where the producing thread is
  wslot,               \* the slot getNextToWriteTo returned to it
  consumer,            \* where the consuming thread is
  rslot,               \* the slot getNextToRead returned to it, or NoSlot
  loop,                \* which consumer loop this queue is drained by
  published,           \* history: completed stores of the write index
  consumed,            \* history: completed stores of the read index
  delivered,           \* history: elements the consumer has read
  last                 \* history: payload read last, -1 before the first

pvars == <<producer, wslot>>
cvars == <<consumer, rslot>>
history == <<published, consumed, delivered, last>>
vars == <<store, m_next_write_index, m_next_read_index, m_num_elements,
          pvars, cvars, loop, history>>

Slots == 0 .. (Size - 1)
NoSlot == -1

(***************************************************************************)
(* The loops that drain a queue differ in two ways: whether they test      *)
(* size() besides the pointer, and whether they release the slot before    *)
(* their last read of it.                                                  *)
(***************************************************************************)
SizedLoop     == [checksSize |-> TRUE,  releasesFirst |-> FALSE]
UnsizedLoop   == [checksSize |-> FALSE, releasesFirst |-> FALSE]
PublisherLoop == [checksSize |-> TRUE,  releasesFirst |-> TRUE]
Loops == {SizedLoop, UnsizedLoop, PublisherLoop}

Init ==
  /\ store = [s \in Slots |-> -1]
  /\ m_next_write_index = 0
  /\ m_next_read_index = 0
  /\ m_num_elements = 0
  /\ producer = "idle" /\ wslot = 0
  /\ consumer = "poll" /\ rslot = NoSlot
  /\ loop \in Loops
  /\ published = 0 /\ consumed = 0 /\ delivered = 0 /\ last = -1

-----------------------------------------------------------------------------
\* A failed ASSERT is exit(EXIT_FAILURE): no thread takes a step after it.
Running == consumer # "aborted"

(* The producing thread *)

\* Wrong form: the consumer may be one element further behind than MaxLag.
GetNextToWriteToOneMore ==
  /\ Running /\ producer = "idle"
  /\ published < MaxWrites
  /\ published - consumed <= MaxLag
  /\ wslot' = m_next_write_index
  /\ producer' = "fill"
  /\ UNCHANGED <<store, m_next_write_index, m_next_read_index, m_num_elements,
                 cvars, loop, history>>

GetNextToWriteTo ==
  /\ Running /\ producer = "idle"
  /\ published < MaxWrites
  /\ published - consumed < MaxLag
  /\ wslot' = m_next_write_index
  /\ producer' = "fill"
  /\ UNCHANGED <<store, m_next_write_index, m_next_read_index, m_num_elements,
                 cvars, loop, history>>

WriteElement ==
  /\ Running /\ producer = "fill"
  /\ store' = [store EXCEPT ![wslot] = published]
  /\ producer' = "publish"
  /\ UNCHANGED <<m_next_write_index, m_next_read_index, m_num_elements,
                 wslot, cvars, loop, history>>

\* Wrong form: the index is not wrapped around.
StoreWriteIndexUnwrapped ==
  /\ Running /\ producer = "publish"
  /\ m_next_write_index' = m_next_write_index + 1
  /\ published' = published + 1
  /\ producer' = "count"
  /\ UNCHANGED <<store, m_next_read_index, m_num_elements, wslot, cvars,
                 loop, consumed, delivered, last>>

\* The two halves of updateWriteIndex: the element is visible to
\* getNextToRead before it is counted.
StoreWriteIndex ==
  /\ Running /\ producer = "publish"
  /\ m_next_write_index' = (m_next_write_index + 1) % Size
  /\ published' = published + 1
  /\ producer' = "count"
  /\ UNCHANGED <<store, m_next_read_index, m_num_elements, wslot, cvars,
                 loop, consumed, delivered, last>>

\* Wrong form: the count is stored, not incremented.
CountElementStored ==
  /\ Running /\ producer = "count"
  /\ m_num_elements' = 1
  /\ producer' = "idle"
  /\ UNCHANGED <<store, m_next_write_index, m_next_read_index, wslot, cvars,
                 loop, history>>

CountElement ==
  /\ Running /\ producer = "count"
  /\ m_num_elements' = m_num_elements + 1
  /\ producer' = "idle"
  /\ UNCHANGED <<store, m_next_write_index, m_next_read_index, wslot, cvars,
                 loop, history>>

-----------------------------------------------------------------------------
(* The consuming thread *)

Enter == IF loop.releasesFirst THEN "advance" ELSE "use"

GetNextToRead ==
  /\ consumer = "poll"
  /\ rslot' = IF m_next_read_index = m_next_write_index
                THEN NoSlot ELSE m_next_read_index
  /\ consumer' = IF loop.checksSize THEN "size"
                 ELSE IF rslot' = NoSlot THEN "poll" ELSE Enter
  /\ UNCHANGED <<store, m_next_write_index, m_next_read_index, m_num_elements,
                 pvars, loop, history>>

\* Wrong form: the loop tests the pointer alone.
LoadSizeIgnored ==
  /\ consumer = "size"
  /\ consumer' = IF rslot # NoSlot THEN Enter ELSE "poll"
  /\ UNCHANGED <<store, m_next_write_index, m_next_read_index, m_num_elements,
                 pvars, rslot, loop, history>>

LoadSize ==
  /\ consumer = "size"
  /\ consumer' = IF m_num_elements # 0 /\ rslot # NoSlot THEN Enter ELSE "poll"
  /\ UNCHANGED <<store, m_next_write_index, m_next_read_index, m_num_elements,
                 pvars, rslot, loop, history>>

\* Wrong form: the slot is looked up again instead of using the pointer held.
UseElementLookedUpAgain ==
  /\ consumer = "use"
  /\ last' = store[m_next_read_index]
  /\ delivered' = delivered + 1
  /\ consumer' = IF loop.releasesFirst THEN "poll" ELSE "advance"
  /\ UNCHANGED <<store, m_next_write_index, m_next_read_index, m_num_elements,
                 pvars, rslot, loop, published, consumed>>

UseElement ==
  /\ consumer = "use"
  /\ last' = store[rslot]
  /\ delivered' = delivered + 1
  /\ consumer' = IF loop.releasesFirst THEN "poll" ELSE "advance"
  /\ UNCHANGED <<store, m_next_write_index, m_next_read_index, m_num_elements,
                 pvars, rslot, loop, published, consumed>>

StoreReadIndex ==
  /\ consumer = "advance"
  /\ m_next_read_index' = (m_next_read_index + 1) % Size
  /\ consumed' = consumed + 1
  /\ consumer' = "assert"
  /\ UNCHANGED <<store, m_next_write_index, m_num_elements, pvars, rslot,
                 loop, published, delivered, last>>

AssertNonEmpty ==
  /\ consumer = "assert"
  /\ consumer' = IF m_num_elements # 0 THEN "decrement" ELSE "aborted"
  /\ UNCHANGED <<store, m_next_write_index, m_next_read_index, m_num_elements,
                 pvars, rslot, loop, history>>

DecrementCount ==
  /\ consumer = "decrement"
  /\ m_num_elements' = m_num_elements - 1
  /\ consumer' = IF loop.releasesFirst THEN "use" ELSE "poll"
  /\ UNCHANGED <<store, m_next_write_index, m_next_read_index, pvars, rslot,
                 loop, history>>

-----------------------------------------------------------------------------
Produce == GetNextToWriteTo \/ WriteElement \/ StoreWriteIndex \/ CountElement
Consume == \/ GetNextToRead \/ LoadSize \/ UseElement
           \/ StoreReadIndex \/ AssertNonEmpty \/ DecrementCount

Next == Produce \/ Consume

Spec == Init /\ [][Next]_vars

\* Both threads spin for ever in their run loops; a write that was started is
\* finished, but nothing obliges the producer to start another one.
Fairness ==
  /\ WF_vars(Consume)
  /\ WF_vars(WriteElement \/ StoreWriteIndex \/ CountElement)

FairSpec == Spec /\ Fairness

-----------------------------------------------------------------------------
TypeOK ==
  /\ store \in [Slots -> Int]
  /\ m_next_write_index \in Slots
  /\ m_next_read_index \in Slots
  /\ m_num_elements \in Nat
  /\ producer \in {"idle", "fill", "publish", "count"}
  /\ wslot \in Slots
  /\ consumer \in {"poll", "size", "use", "advance", "assert", "decrement",
                   "aborted"}
  /\ rslot \in Slots \cup {NoSlot}
  /\ loop \in Loops
  /\ published \in Nat /\ consumed \in Nat /\ delivered \in Nat
  /\ last \in Int

\* The producer never writes the slot the consumer is reading, although the
\* queue has no full check and MarketDataPublisher::run reads its slot after
\* releasing it: m_store is not atomic, so this would be a data race.
NoDataRace == ~(producer = "fill" /\ consumer = "use" /\ wslot = rslot)

\* The run loops that test size() never fail the assertion of
\* updateReadIndex, whatever the other thread's position inside
\* updateWriteIndex.
SizedNeverAborts == loop.checksSize => consumer # "aborted"

\* The assertion of updateReadIndex ("Read and invalid element in: ") never
\* fails.  False of the code: MatchingEngine::run, OrderGateway::run and
\* TradeEngine::run see an element before updateWriteIndex has counted it.
NeverAborts == consumer # "aborted"

Channel == INSTANCE Fifo
  WITH Capacity <- Size, sent <- published, received <- delivered

\* Elements come out in the order they went in, none lost, none twice, none
\* torn or stale: the ring implements the bounded FIFO channel.
ImplementsFifo == Channel!Spec

\* Every element whose index was published is eventually read by a loop that
\* tests size(), although it may see the element before it is counted.
EventuallyDelivered ==
  \A k \in 1 .. MaxWrites :
     (loop.checksSize /\ published >= k) ~> (delivered >= k)

=============================================================================
