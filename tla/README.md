# TLA+ models of LowLatencyLearn

LowLatencyLearn is an electronic exchange and a trading client in C++: a
matching engine, an order server, a market data publisher, and on the client's
side an order gateway, a market data consumer and a trade engine. Each part is a
thread that spins in its run loop; threads of one process talk through
lock-free queues, the two processes through TCP (orders) and multicast (market
data). This directory models the parts, model-checks them with TLC and proves
theorems about the ones everything else rests on with TLAPS.

`PROJECT.json` is the index: components, runs, the source lines every
definition models, findings, hazards, theorems.

## Inventory

| Component | State | Operations | Talks to | What is hard | What makes it correct |
|---|---|---|---|---|---|
| `LFQueue` (common/lf_queue.hpp) | slots, write index, read index, element counter | getNextToWriteTo, updateWriteIndex, getNextToRead, updateReadIndex, size | one producing, one consuming thread | three counters updated in separate atomic steps; no full check; three kinds of consumer loop | a FIFO channel, no slot written while read, no failed assertion, everything published is read |
| `MemPool` (common/mem_pool.hpp) | free flags, next free index | allocate, deallocate | order books, snapshot synthesizer | the next free block is searched at allocation time, cyclically | no block lost or handed out twice, fails only when full |
| `MEOrderBook` | two pools, rings of levels and orders, three hash maps | add, cancel, match | matching engine | pointer surgery over legal sequences of calls, hash collisions of prices | the book is what clients and subscribers were told; time priority; termination |
| `MatchingEngine` | books, the three queues | processClientRequest, sendClientResponse, sendMarketUpdate | order server, publisher | one step has several messages | answers add up and agree with the book |
| `OrderServer`, `FIFOSequencer` | socket, next expected and next outgoing number per client; pending requests | recvCallback, recvFinishedCallback, run | TCP server, matching engine | reconnections, full pending list, unknown clients | requests reach the engine in order without gaps, answers their client |
| `TCPServer`, `TCPSocket` | socket lists, send and receive buffers | poll, sendAndRecv, send | kernel | refused, partial, failed sends; dead peers | nothing is duplicated or reordered; loss shows as a gap |
| `OrderGateway` | next outgoing and next expected number | run, recvCallback | trade engine, TCP socket | crash and restart | as for the server, from the other end |
| `MarketDataPublisher`, `SnapshotSynthesizer` | next incremental number; shadow book, last number | run; addToSnapshot, publishSnapshot | matching engine, multicast | the copy of the stream lags behind; shadow book indices | a snapshot is the book at the number it states |
| `MarketDataConsumer` | next expected number, recovery flag, queued snapshot and incrementals | recvCallback, startSnapshotSync, checkSnapshotSync | multicast, trade engine | loss, reordering, join of snapshot and stream | the engine gets the stream without gap or overlap, and recovery ends |
| `MarketOrderBook` | the trader's copy of a book, best bid and offer | onMarketUpdate, updateBBO | trade engine | incremental computation of the best prices | best prices agree with the book |
| `TradeEngine`, `OrderManager`, `RiskManager` | two orders per instrument, next order id | moveOrders, onOrderUpdate, checkPreTradeRisk | gateway, strategies | requests and answers cross; no order id is compared; limits are checked against fills only | position limit, one order per side, both views agree |
| `PositionKeeper` | position, open totals, profit and loss | addFill, updateBBO | trade engine, risk check | a fill may open, add to, reduce, close or turn a position | profit and loss is the cash of all fills and the value of what is open |
| `MarketMaker`, `LiquidityTaker`, `FeatureEngine` | features | onOrderBookUpdate, onTradeUpdate | trade engine | floating point | (only their calls of moveOrders matter here) |
| `Logger` | one queue, a flushing thread | log, flushQueue, constructor, destructor | every component | several threads may log; shutdown | one producer per queue |
| thread start, main program | flags | createAndStartThread, signal handler | all | references into a finished stack frame; order of destruction | the thread runs what it was given |
| socket set-up, time, types, examples | none | system calls, formatting | | | |

The trading side is a library at this commit: no `main` builds a client, and
nothing fills `TradeEngine::m_ticker_order_book`. The models take its classes as
their interfaces connect them.

## Modules

| Module | Models | Checked by | Proofs |
|---|---|---|---|
| `Fifo` | abstract: a bounded FIFO channel | refined by `LFQueue` | |
| `LFQueue` | the queue, one step per atomic access, with the loops that drain it | `MCLFQueue` | `StandaloneProofs` |
| `MemPool` | the pool as a record and operators on it | through its users | |
| `MemPoolUser` | a single-threaded user of one pool | `MCMemPool` | `StandaloneProofs` |
| `MEOrderBook` | a book as a record of blocks and pointers (extends `MemPool`) | through its users | `MEOrderBookProofs` |
| `MatchingEngine` | the engine's thread on one book | `MCMatchingEngine` | `MatchingEngineProofs` |
| `OrderEntry` | gateways, TCP connections, server, sequencer; the engine answers | `MCOrderEntry` | `OrderEntryProofs` |
| `Subscription` | abstract: what a subscriber to market data is promised | refined by `MarketData` | |
| `MarketData` | publisher, synthesizer, two multicast groups, one consumer | `MCMarketData` | `MarketDataProofs` |
| `MarketOrderBook` | the trader's copy of a book and its best bid and offer (extends `MEOrderBook`) | `MCMarketOrderBook` | `MarketOrderBookProofs` |
| `TradeEngine` | one instrument of a trade engine, against the exchange | `MCTradeEngine` | `TradeEngineProofs` |
| `PositionKeeper` | position, profit and loss of one instrument | `MCPositionKeeper` | `StandaloneProofs` |
| `CommonFacts` | lemmas that several proof modules cite: natural numbers, sums, chains and rings of pointers, the pool | | itself |

Operators whose comment begins with "Wrong form" are not part of the model: they
are the plausible bugs the properties are measured against (`mutants` in
`PROJECT.json`).

How the modules join along the path of an order: `OrderEntry` takes requests to the
queue from which `MatchingEngine` reads them; each queue between two threads is an
`LFQueue`; the updates `MatchingEngine` sends are what `MarketData` numbers and publishes
and what `MarketOrderBook` applies; its answers are what `TradeEngine` receives, which
hands its fills to `PositionKeeper`. Each module states as its environment what the
module before it promises: a FIFO queue, order ids that rise and are never used again, answers
in order. The ids have gaps, since an order takes one when it comes and is added only if it rests.

### LFQueue

A producing and a consuming thread have a program counter each (`producer`,
`consumer`). `StoreWriteIndex` and `CountElement` are the two halves of
`updateWriteIndex`, `StoreReadIndex`, `AssertNonEmpty` and `DecrementCount` those
of `updateReadIndex`; counters are sequentially consistent atomics, so
interleaving is what the hardware does with them. `loop` holds which of the
system's loops drains the queue and never changes: loops that test `size()` (order server,
logger, synthesizer), loops that only test the pointer (matching engine, order
gateway, trade engine), and the market data publisher, which releases a slot and
reads it afterwards. The queue does not test for being full; that the consumer
keeps up is the assumption `MaxLag < Size` about the environment, which the code
relies on by its choice of 256 Ki slots.

### MemPool and MEOrderBook

Pointers are block numbers. A freed block keeps its contents, a null pointer
that is followed sets the status "crashed", a walk that cannot end sets "hung",
a failed assertion of a pool sets "poolAssert". The price table is indexed by price modulo its
size (`NumPriceLevels`), as in the code; it is a constant of its own, because the code has 256 entries
(`ME_MAX_PRICE_LEVELS`) in both books, and in the trader's book pools of another size. The tables are
arrays that no constructor fills; they are taken to begin as null pointers, which is what static or
fresh memory holds. `MatchingEngine` takes an order in the pieces between
which messages leave: `Accept`, one `Match` per resting order, `Rest`; `Cancel` is one step.
Request and market-update queues are histories, which is what the properties are about.

Defects of the book are kept: levels of bids that are never compared, the wrong
back pointer of an inserted level, the price test that is reversed for sellers,
the resting order stored under the ticker's number, the
missing `break` after CANCEL. The properties hold in spite of them "until the
process ends"; those that say otherwise are the findings below.

### OrderEntry

A session is one run of one gateway process. Kernel buffers are sequences of
messages; a gateway pass is atomic because each end only touches its own half,
whereas the server's pass is `Poll`, one `Receive` per socket,
`SequenceAndPublish`, one `SendResponse` per answer and `EndOfPass`.
Refused sends forget the buffer; a partial send delivers a part of it (`Taken`) and then fails the
assertion in `TCPSocket`, which ends the process, a dead peer leaves the list of receive sockets in two passes,
and the table from client to socket is never changed again.

`SequenceAndPublish` publishes the pending requests as `std::sort` leaves them (`Sorts`). All requests
that one `recv` brought carry one time, so in a short array, where equal elements keep their
order, whole sockets change places. That is up to `StableUpTo` requests, 16 in libstdc++; it
sorts longer ones by partitioning, and then any order is possible. `shuffled` is the history of the clients that had several requests in a longer pass:
`RequestsInOrder` is claimed for the others. `published` and `answers` are histories, too: what the engine was given and how many
answers it wrote for each client.

### MarketData

`Publish` is an iteration of the publisher's loop, `TakeUpdate` and `PublishSnapshot` are the two
halves of the synthesizer's loop, `Receive` is the consumer's `recvCallback` for one message of
one socket: `RecvCallback`, `QueueMessage`, `CheckSnapshotSync` and `StartSnapshotSync` carry the
names of the functions. Every update and every snapshot message is a message of its own, since
how they share datagrams is the network's choice. Unless `inOrder` is set, any message
under way may be received next, so one that is lost is one that is never received, and
`Duplicate` sends one again. `updates`, `from` and `given` are
histories: what was published, the snapshot joined with and the numbers forwarded since.

The updates are those `MatchingEngine` sends (`NextUpdates`): a TRADE is followed by the change of
the order it was with, and an ADD has one of `NewIds`, which lie above the last one's and leave room for
the orders that were filled on arrival since.

Kept as they are in the code: the publisher fills a message from the address of the pointer,
so a receiver may read any type in it (`readAs`, which matters when it reads as the end of a
snapshot); the synthesizer stores an ADD at the index of its ticker and its assertions end the
process when the order is looked for at its own; the constructor does not join the snapshot group; after
a loss it is the incremental socket that is opened again, on the snapshot group. A second
initial state has the snapshot socket joined: `FirstRecoveryEnds`, `NothingDiscarded` and most of
`ImplementsSubscription` are about it, because as the constructor leaves the consumer it would receive no
snapshot and forward nothing. `m_ticker_orders` is taken to begin as null pointers.

### MarketOrderBook

The trader's book has the exchange's code for adding and removing orders and levels, so
the module extends `MEOrderBook`, with no client: the row of `orderOf` that remains, the
ticker's, is `m_oid_to_order`. One action per
kind of update: `OnAdd`, `OnModify`, `OnCancel`, `OnClear`, `OnTrade`; `OnMarketUpdate` is what they
share, with `Flagged` (`bid_updated` and `ask_updated`, taken before the update is applied) and `Quote`
(`updateBBO`, which walks the orders of the best level and may crash or hang on a damaged
one). The updates are those an exchange sends: ids rise, with gaps, and none comes twice between two CLEARs.
Ids and both pools have one size, as in the code (`ME_MAX_ORDER_IDS`); the price table has its own.
`attached` says that the trade engine's pointer is set. Nothing in the repository sets it
(`setTradeEngine` is private and has no caller), so the other initial state ends with the
first update. The two pointer tables are arrays of the object and are taken to begin as
null pointers. `missed` and `sound` are histories that say where a property is claimed: sides
whose best level changed with no flag set, and whether every order and level was linked right. `sound` is
about the whole book and not about one side: a side that was damaged may give back a level of its own and leave
a pointer to it, the block is used again by the other side, and the damage is the other side's then.

### PositionKeeper

`OnFill` is `addFill`, `OnBBO` is `updateBBO`. Profit and loss is counted in parts of a price, `Scale` of
them, so that averages and mid prices are whole numbers and what doubles round is left
out. `m_open_vwap` begins with any value of `Garbage`, as nothing initialises it. `cash`, `mark` and `wrong` are
histories: what all fills brought in, the price of the last valuation, and whether a fill was
booked on a total that was not its side's.

### TradeEngine

`om` is the `OrderManager`, its functions are operators on it. `MoveOrders` is
any call a strategy can make; to this module the loss test may go either way
(`PositionKeeper` has what it depends on). The
exchange answers in order, trades as much as it likes, and ends at the first cancel, like
`MatchingEngine`. It may reject the cancel of an order that still rests, once another client's order with
the same number has taken and left its place in the table of orders. `client` is the client the engine runs for: only the one
whose number is the ticker's gets the fills of resting orders.

## Runs

| Run | Question | Bounds and why they are enough |
|---|---|---|
| `lfqueue` | is the ring a FIFO channel without races, for all three loops? | 4 slots, lag 3 (one more breaks it), 9 writes: the ring wraps twice. The proofs cover all values. |
| `lfqueue_aborts` | can `updateReadIndex`'s assertion fail? (violated) | as above |
| `mem_pool` | do pool and user agree under every order of calls? | 6 blocks, unbounded calls |
| `matching_engine` | do answers, updates and book agree? | 4 orders by two clients, 5 levels, prices 1 2 3 4 6 (1 and 6 share a slot; four prices on a side are needed for a ring to be damaged), quantities 1 and 2, a cancel at any moment. The proofs cover all values. |
| `book_sorted` | are the levels of a side sorted? (violated) | as above |
| `order_entry` | do requests and responses survive faults in order; is everything answered without faults? | two clients, one restarted; requests 2, 1, 1; one fault; passes of up to two requests are sorted stably, of three they are not. A fault is a send that is refused or taken in part, or a crash. The pending list of three does not overflow; the theorems cover every length of it, and all values of all but the liveness property. |
| `order_entry_socket` | is there a socket for each response? (violated) | as above, with a ticker number that is no client |
| `trade_engine` | position limit, one order per side, no revival, agreement at rest | four orders of quantity 2, limit 3: one order fits, two do not; both kinds of client; one foreign answer |
| `market_data` | is a subscriber given one snapshot and the run of updates after it, under loss, reordering and duplication; does a recovery end? | one ticker, 3 updates, 1 snapshot, 1 duplicate, 1 update that reads as a marker, 3 blocks: a number can be missing before, at and after the snapshot's, and the second order overwrites the first one's place. The proofs cover all values of all but `FirstRecoveryEnds`. |
| `synthesizer_loses_orders` | is a changed or cancelled order where the synthesizer looks for it? (violated) | two tickers, 6 updates, 4 blocks, no snapshot |
| `market_order_book` | does the trader's copy keep the orders it was told, its first levels and its quotes? | 4 blocks, so three orders and a fourth that ends the book; 3 entries of the price table and prices 1 2 3 4 (1 and 4 share an entry; a side can have three levels, which is what it takes to damage a ring), quantity 2 (which a MODIFY lowers), 6 updates: add, remove, clear and begin again. The proofs cover all values. |
| `position_keeper` | is profit and loss the cash of all fills and the value of the position? | positions up to 3, fills of 1, 2, 3, 5 at prices 1, 2, 4, four fills: open, add, reduce, close and turn by a fill from one extreme to the other; uninitialised totals of 0 and 5. The proofs cover all values. |

Deadlock is not checked where the system really stops: at the bounds, after
a failed assertion and when the exchange has ended.

Fairness. Weak fairness of each thread's step: the run loops spin without
blocking (`while (m_run)`, `epoll_wait` with timeout 0). Nothing obliges a producer to
write, a client to send, a fault to happen or a resting order to trade.
`EveryRequestAnswered` is stated for runs without faults, because the code has no
retransmission. In `market_data` the loops of the synthesizer and of the consumer spin and the
minute between snapshots passes; the engine need not publish anything, and
`FirstRecoveryEnds` is stated of a network that keeps order. Fairness is only used by the four
liveness properties `EventuallyDelivered`, `EveryRequestAnswered`, `NewOrderSettles` and
`FirstRecoveryEnds`.

## Findings

1. `lfqueue_aborts`: an element is visible before it is counted, so a loop that
   tests only the pointer can fail the assertion in `updateReadIndex`.
2. `book_sorted`: bid levels are appended without comparing prices, and an
   inserted level links back to the wrong neighbour.
3. `order_entry_socket`: fills of resting orders are addressed to the client
   with the ticker's number.
4. `synthesizer_loses_orders`: the synthesizer stores an ADD at the index of its ticker and looks
   for the order at its id, so the first change of an order with another id fails the assertion
   that the order exists, and ends the exchange's process. Until then a snapshot holds too little
   and nothing stale (`ShadowIsSound`).

### Observations

Other behaviour of the code that surprises, without a run that refutes a statement of its own. The models keep each of these,
and the properties say what holds in spite of it.

- The CANCEL case of `processClientRequest` has no `break`: the first cancel is executed and answered, and
  then ends the exchange with "Receive invalid client-request-type" (`Cancel` of `MatchingEngine`
  ends with the status "badRequest").
- `FIFOSequencer` sorts after the sequence numbers were checked and `std::sort` is not stable, so in a pass of more
  than 16 requests those of one client may reach the engine in another order than they were sent in.
- The consumer starts in recovery and only asks for a snapshot when it is not in recovery, so it
  never joins the snapshot group; after a loss it opens the wrong socket again. `RecoveryIsFinal` is
  checked and proved: neither recovery ends.
- `removeOrdersAtPrice` is given the side of the order that leaves. A level may hold orders of both sides,
  so the last to leave may clear the best level of the other side, while the best level of the level's own side goes
  on pointing at the block given back. Matching then follows it to an order of which nothing is left, and ends
  the exchange, or to one that was stored there since, and breaks time priority.
- `checkSnapshotSync` moves the expected number before it knows that the queued updates fit; this is
  harmless, since a join moves it again. An update read as a snapshot marker is passed over in the
  walk and not counted.
- The publisher sends the bytes at the address of the pointer, not of the update.
- The trader's best bid is its first level, the one that was added first; an offer inserted
  before another leaves a wrong back pointer, so removing two levels may leave the first one
  pointing at a freed block.
- CLEAR leaves `m_price_orders_at_price`, so the next order at a price may join a freed level. The best
  bid and offer are stale after the first order of a side and after a CLEAR, which set
  no flag, until the next update at that level.
- An order id that is no index of `m_oid_to_order` throws in a `noexcept` function, and the exchange
  never uses an id again, so the length of a session is bounded by the table.
- `PositionKeeper`: a fill that closes part of a position leaves its total as it was; a position that
  is closed leaves `m_total_pnl` at its last value, which is what the risk check reads; `m_open_vwap` is
  read before it is set.

## Proofs

`StandaloneProofs` has the three components that stand for themselves. The queue, for every ring size, lag below it and number of writes:
`QueueTypeCorrect`, `RaceFree`, `SizedLoopsSafe` and `RingImplementsFifo`. The inductive
invariant relates the indices to the histories (`Indices`: each index is its history
modulo the size), the slots to what was published (`Contents`), what a reader
holds to how far the producer can be (`Reading`), the counter to the two threads'
program counters (`Counting`) and delivered to consumed (`Deliveries`). `Counting` is
what the size test needs: the counter lags the difference of the indices by at most the
steps that are pending. The arithmetic lemmas (`ModIncrement`, `ModDistinct`) say that two positions less
than a ring apart never share a slot. Assumption: `LFQueueAssumption`.

The pool, for every number of blocks: `PoolTypeCorrect`, `NothingLeaks`, `NeverTwice` and
`FailsWhenFull`. None of the four invariants of `MemPoolUser` is inductive, their conjunction is
(`Invariance`). `SearchSpec` says that the
cyclic search finds a free block whenever there is one (`EveryBlockProbed`, a number
theoretic fact, and `LeastNatural` for the least distance). Assumption: `MemPoolAssumption`.

`TradeEngineProofs`, for every clip, size and position limit, set of prices and number of
orders: `TypeCorrect`, `PositionLimited`, `AtMostOneOrder`, `NothingRevives` and `BothViewsAgree`.
None of their properties but the types is inductive: a fill that is still under way could
break the limit if it reported more than its slot holds. `IInv` says why none does. As long as no foreign answer was received
(`others = 0`), every answer under way is about the order in its side's slot and reports no more
than the slot has open (`AnswersFit`); the answers of a side follow one another, each beginning
with at most what the one before left (`AnswersShrink`); what the exchange holds open
is the slot's order, with no more than each answer under way leaves (`OpenFits`); and until the
exchange takes a new order there is nothing else of its side anywhere
(`RequestsFresh`). The invariant is stated of an `OrderManager` `m`, because a call of
`moveOrders` passes through two of them (`MoveOrderKeeps`), and the exchange's executions share
one lemma (`ReportKeeps`). `BothViewsAgree` needs equalities where `IInv` has bounds, and has them only
for the client with the ticker's number, which hears of all its fills. `JInv` says for each side
(`Booked`) that every answer under way begins with exactly what the one before it left (`Chained`),
that the last one leaves what the exchange holds open (`EndsWith`), that an unacknowledged order is
under way or its acknowledgement is, and that a cancel without an answer is under way or finds
nothing; the fills under way of the two sides are then what the position still lacks (`Exact`). The
sum of the fills is never taken: a chain that begins with the slot's quantity and ends with the last
answer's leaves has executed the difference. Assumption: `TradeEngineAssumption`. Both invariants
were checked with TLC on the instance of the run `trade_engine` before they were proved.

`MEOrderBookProofs` has what the two books share: what each operator of `MEOrderBook` does to the orders,
levels, pools and tables of any book. `MatchingEngineProofs`, for every number of orders, levels and entries of the price table, every set of clients, prices and
quantities and every sequence of requests: all seven properties of `MatchingEngine`, `TypeCorrect`, `ReplicaHolds`,
`AnswersHold`, `LeavesHold`, `RingsHold`, `TimePriorityHolds` and `MatchingProgresses`. The difficulty
is the damaged ring of levels: its pointers may lead to blocks that were given back. The
invariant `IInv` therefore asks little of levels and much of orders:

- `Shaped`: pointers between levels, the best levels and the price table lead to null or to a level that was opened at some
  time (`Opened`), which still has a first order. Following one never
  crashes on an order, whatever the ring looks like. `AddOrdersAtPriceSpec` and `RemoveOrdersAtPriceSpec`
  show that every insertion and removal keeps this, and what it does to the orders.
- `Ringed`: the rings of orders, said from one order (`Neighbours`): the two it points at rest at its level
  and point back, and only the first of the level does not come `After` the one before it; the price table
  leads to the levels in use and to no other. That an order belongs to a level is defined by the slot of
  its price, since a level may hold orders of several prices and of both sides. This local form is kept
  step by step (`JoinKeepsRings`, `OpenKeepsRings`, `CloseKeepsRings`, `UnlinkKeepsRings`, `RingsKept`). `FirstIsOldest` and
  `AloneAtLevel` get facts about a whole ring from it by a least market order id, and
  `WalkClimbs`, `WalkReturns` and `WalkAround` of `CommonFacts` the walk around it that `RingsOrdered` speaks of:
  ids rise until it comes back, so it comes back, by the pigeonhole principle, and meets every order.
- `Accounted`: what each block, the order being processed and the responses say of an order is the same. A
  block given back keeps its order with nothing left of it; a stale best level therefore leads to a fill
  of zero, on which `removeOrder` frees a free block and the process ends. This is why the matching loop ends
  (`MatchedBook`, `MatchingProgresses`).
- `AddsUp` and `Mirrored`: the answers of every order, and the replica, as the histories grow by one
  (`AddsUpAppended`, `ReplicaAppended`). `Says`, the last answer about an order, links them to `Accounted`.

`AddsUp` and the types hold of an ended process, too; the rest holds while it runs.
Assumptions: `MEOrderBookAssumption`, `MatchingEngineAssumption`. `IInv` was checked with TLC on the
instance of the run `matching_engine`, and by simulation on a larger one, before it was proved. The
attempt to prove time priority without its condition failed for a good reason: `removeOrdersAtPrice` is
given the side of the order, not of the level, and clears the wrong best level when the two differ
(see Observations). `TimePriority` has the condition since, and TLC finds the case without it only
with more orders than the run has.

`MarketOrderBookProofs`, for every number of blocks, of entries of the price table and of updates and every
set of prices and quantities: `TypesHold`, `ReplicaHolds`, `TopHolds`, `SurvivalHolds` and `BBOHolds`. There are two invariants.

`IInv` is about pools and tables, and holds of any book. The replica depends on these alone (`Kept`): what rests is
what was told (`Replica`), `m_oid_to_order` leads from each id to its order and from nothing else (`Filed`),
and no order that rests has an id above the last one. `Shaped` of `MEOrderBookProofs` is the part that keeps
pointers from leading out of the pools; it is not about rings, so it survives a CLEAR, which leaves the
price table behind, and a level that was linked wrongly.

`SInv` is about a book in which nothing was linked wrongly (`sound`). While it runs it is `Fit` and
shows its top (`Shown`); if it has failed, no block or no id for another order was left (`Spent`).

- `Fit`: each order is at a level of its own price and side (`Placed`), orders are `Ringed` as in the engine's
  book, and the levels in use of a side are one ring that begins at the best (`LevelsRinged`). Where it begins
  is said with a rank that rises at every step but the last: an offer's price, but of a bid only how late it was added,
  since `addOrdersAtPrice` links a bid behind the others without comparing prices (`Ranked`). So the first level of the
  offers is the lowest, and nothing of the kind holds of bids. Adding the level with the highest rank
  extends the ring (`InsertsLast`), `CyclicShortened` and `CyclicSingle` of `CommonFacts` take one out.
- Survival: the ring makes the two walks end. The levels of a pool outlast its orders, because
  each level in use has an order of its own (`LevelsLast`). The walks of CLEAR give back exactly the levels of the ring
  (`RingEnds`, `ClearSide`), so that a CLEAR leaves both pools empty and the next book starts whole.
- `Shown`: the quote is the price of the best level and the sum of what the updates left there (`TopIs`). The code sums
  by walking a ring of orders, the property by order id; `QuoteIsTop` shows that the two are one sum (`SumsAgree`).
  The two flags `bid_updated` and `ask_updated` are taken before the update is applied. `ShownAfter` shows when that is
  enough: an update changes what rests at its own side and price only (`OnlyAt`) and leaves the prices of
  the levels that stay (`SamePrices`), so a side it does not touch keeps its top, and of the side it touches the flag is right
  unless it was counted as `missed`.

Assumptions: `MEOrderBookAssumption`, `MarketOrderBookAssumption`. The parts of `SInv` were checked with TLC on the
instance of the run `market_order_book` before they were proved.

The position (`StandaloneProofs`, too), for every set of prices and quantities, every uninitialised value and
every largest position: `KeeperTypeCorrect` and `CashIsPnL`. `PnLIsCash` is not inductive, because the next fill depends on the
open totals, which it does not mention. `IInv` adds `Booked` (while nothing was misbooked, the
cash is the realised part less the open total of the position's side, and the realised part alone when flat) and
`Valued` (the total is the realised part plus the position at the last price less that open
total). The arithmetic is that of one division that has no rest
(`ScaleDivides`). Assumption: `PositionKeeperAssumption`, whose part on `Scale` stands for
exact division.

`OrderEntryProofs`, for every set of clients and sessions, every number of requests and faults and every
length of the pending list: `TypeCorrect`, `RequestsArriveInOrder` and `ResponsesArriveInOrder`. Neither of
the two is inductive. For the requests `IInv` says that what waits in a session's buffers is the
session's (`Ours`), and of what the server accepted (`Sequencing`), pending or published, that its numbers are below
the next one expected, that none of those is missing, that it came through the client's
socket, that pending numbers are above published ones, and that both rise. For the
responses it follows a number from end to end: the answers that wait for the server are, for each
client, exactly those it has not numbered yet, in their order (`Answering`), so the server's number is
the engine's (`ResponseNumbered`); buffers keep that (`Numbered`), and a gateway that takes
only the next number delivers the answers from 1 on (`Delivering`). No fault appears in the
argument: forgetting a buffer leaves all of it true. The passes over received messages are recursive
functions; `GatewayReceivesSteps` and `ServerReceivesSteps` say that they exist, by `IntervalInduction` of
`CommonFacts`. `SortedPass` is where stability is needed. Assumption: `OrderEntryAssumption`. `IInv` was checked with TLC on the
instance of the run `order_entry` before it was proved.

`MarketDataProofs`, for every set of tickers and every number of updates, snapshots, duplicates and
blocks: `TypeCorrect`, `SnapshotNumbersHold`, `JoinDiscardsNothing`,
`ConsumerImplementsSubscription` and `RecoveryNeverEnds`. `IInv` has a part for each place an update
can be in. `Publishing` and `Shadowing` are about the sending side; `Shadowing` has the only
count, that there are no more stored orders than blocks. `Kept` says that queued messages are updates as
they were published, `Standing` that the consumer has joined nothing or was given a run and, once
it follows, expects the number after it, and `Travelling` that as long as the incremental group is joined each
update is under way or has reached the consumer. That last part is what `NothingDiscarded` needs,
and it holds in recovery only because nothing but a join empties the queue without leaving the
group. The heart is `JoinStreamEnds`: the walk over the queued updates ends at the first number
that is missing, and a join with messages behind that number does not happen. `MessageReceived` splits
`recvCallback` into its four outcomes (collects, joins, loses, follows), which all four step
properties share. Assumption: `MarketDataAssumption`. `IInv` was checked with TLC on the instance of
the run `market_data` before it was proved.

The last part of the module proves `SnapshotsAreSound`, of `ShadowIsSound`, which no run checks; it was checked with TLC
for six updates of two tickers before it was proved. It says: what the synthesizer holds rests in the engine's
book, as its last change left it. The strengthening is about the stream and the table. `OrdersNumbered`: no update is about
an order that was not added yet, and orders are added with rising ids, gaps or not, so an id that is cancelled
never comes back. `NewIdsBound` and `LastIdLargest` are what it needs of `NewIds`: an order's id is above all
before it and no larger than the number of its update, as each id that is skipped belongs to a TRADE. `Placed`: every stored order is at the index of its ticker, rests after the
last number taken, and was last set by the update it records.

### Only model-checked

- Liveness, which is outside the prover's reach, as is everything about enabledness:
  `EventuallyDelivered`, `EveryRequestAnswered`, `NewOrderSettles`, `FirstRecoveryEnds`.

## Not modelled

- Thread start (`thread_utils.hpp`): the thread's body uses references into a frame that its creator
  leaves as soon as it sees the flag set. That is undefined in a single step and leaves no later
  state to speak of.
- Destruction of the logger, shutdown of the exchange, `TradeEngine::stop`: no thread but the logger's
  is joined, and that they have ended before their objects are freed rests on sleeps of one to ten
  seconds. An untimed model could only say that without the sleep it goes wrong.
- Several threads on one logger: two producers write to the elements of a queue for one, which is a data
  race on a record; no state of the system depends on what the log then says.
- Socket set-up, system call failures other than those of `send`, formatting, time and the examples
  have no state of their own. Fixed receive and send buffers do not overflow in the model, and a
  TCP stream is cut only between messages.
- Features and thresholds of the strategies are floating point; only the calls they lead to are
  modelled. Several instruments share nothing but the queues, so one is modelled.
- `m_send_sockets` of the TCP server stays empty, because EPOLLOUT is never requested.
- The messages of two snapshots can mix in the consumer when one of the second comes
  before one of the first with the same number; the `num` of the END then decides. The run has one
  snapshot, and the theorems on the consumer hold for any number of them.

## What is left

Every invariant, every action property and both refinements of the passing runs are stated by theorems; the four liveness
properties are out of reach. A further step would be to follow what is modelled in part: the socket's poll loop, the logger and the
strategies' features (see Not modelled).
