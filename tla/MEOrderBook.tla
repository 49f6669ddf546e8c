----------------------------- MODULE MEOrderBook -----------------------------
(***************************************************************************)
(* exchange/matcher/me_order_book.cpp, one instrument's book, with the     *)
(* pointers of its rings and hash maps as block numbers of its two pools:  *)
(* what a freed block still points to, a null pointer followed and a ring  *)
(* walk that never ends are part of the model.                             *)
(*                                                                         *)
(* The book is a record; the helpers of MEOrderBook are operators from     *)
(* book to book.  The public operations are actions of MatchingEngine.     *)
(***************************************************************************)
EXTENDS MemPool, Sequences

CONSTANTS
  TickerId,    \* m_ticker_id of the book
  Clients,     \* client ids that send requests
  OrderIds,    \* client order ids they use
  NumOrders,   \* ME_MAX_ORDER_IDS: blocks of m_order_pool
  NumLevels,   \* blocks of m_orders_at_price_pool
  NumPriceLevels   \* ME_MAX_PRICE_LEVELS: the modulus of priceToIndex

ASSUME MEOrderBookAssumption ==
  /\ NumOrders \in Nat \ {0}
  /\ NumLevels \in Nat \ {0}
  /\ NumPriceLevels \in Nat \ {0}
  /\ Clients \subseteq Nat /\ OrderIds \subseteq Nat /\ TickerId \in Nat

Null == -1
Sides == {"BUY", "SELL"}
Opposite(side) == IF side = "BUY" THEN "SELL" ELSE "BUY"

EmptyOrder ==
  [client |-> Null, coid |-> Null, moid |-> Null, side |-> "BUY", price |-> 0,
   qty |-> 0, priority |-> 0, prev |-> Null, next |-> Null]
EmptyLevel ==
  [side |-> "BUY", price |-> 0, first |-> Null, prev |-> Null, next |-> Null]

\* What a pointer to an order or a level can be.
OrderRefs == (0 .. (NumOrders - 1)) \cup {Null}
LevelRefs == (0 .. (NumLevels - 1)) \cup {Null}

\* How the process of a book can end: walking a ring for ever, on a null pointer,
\* by exit() or, in the trader's book, by an exception.
Ends == {"hung", "crashed", "poolAssert", "badRequest", "outOfRange"}

\* status: "running", or how the process ended.  The tables are not initialised
\* by the code: books are allocated with new and a table of orders is megabytes
\* long, so that its pages come from the system and are zero, null pointers.
NewBook ==
  [orders    |-> [o \in 0 .. (NumOrders - 1) |-> EmptyOrder],
   orderPool |-> NewPool(NumOrders),
   levels    |-> [l \in 0 .. (NumLevels - 1) |-> EmptyLevel],
   levelPool |-> NewPool(NumLevels),
   best      |-> [s \in Sides |-> Null],
   levelAt   |-> [i \in 0 .. (NumPriceLevels - 1) |-> Null],
   orderOf   |-> [c \in Clients \cup {TickerId} |-> [i \in OrderIds |-> Null]],
   status    |-> "running"]

Fail(b, how) == [b EXCEPT !.status = how]

LevelOf(b, price) == b.levelAt[price % NumPriceLevels]

\* The orders that rest in the book: the blocks of m_order_pool in use.
Resting(b) == {b.orders[o] : o \in LiveBlocks(b.orderPool)}

-----------------------------------------------------------------------------
(* addOrdersAtPrice *)

\* The pointers met when following m_next_entry from a level, one more than
\* there are blocks.
NextChain(b, from) ==
  LET chain[k \in 0 .. NumLevels] ==
        IF k = 0 THEN from
        ELSE LET l == chain[k - 1] IN IF l = Null THEN Null ELSE b.levels[l].next
  IN  chain

\* add_after: whether the search for the new level's place goes on past target.
\* For a bid the code tests that the price is not zero, and never compares it.
GoesAfter(b, l, target) ==
  \/ b.levels[l].side = "SELL" /\ b.levels[l].price > b.levels[target].price
  \/ b.levels[l].side = "BUY" /\ b.levels[l].price # 0

\* The branch taken when the walk came around to the best level.
InsertLast(b, l, best) ==
  LET last  == b.levels[best].prev
      after == b.levels[last].next
  IN  IF last = Null \/ after = Null THEN Fail(b, "crashed")
      ELSE [b EXCEPT !.levels =
              [[[@ EXCEPT ![l].prev = last]
                  EXCEPT ![after].prev = l]
                  EXCEPT ![l].next = after, ![last].next = l]]

\* The other branch: the new level points back to the one after target, and
\* target does not point back to the new level.
InsertBefore(b, l, target, best) ==
  LET side   == b.levels[l].side
      before == b.levels[target].prev
      linked == [[b.levels EXCEPT ![l].prev = b.levels[target].next,
                                  ![l].next = target]
                   EXCEPT ![before].next = l]
      better == \/ side = "BUY" /\ b.levels[l].price > b.levels[best].price
                \/ side = "SELL" /\ b.levels[l].price < b.levels[best].price
  IN  IF before = Null THEN Fail(b, "crashed")
      ELSE IF ~better THEN [b EXCEPT !.levels = linked]
      ELSE [b EXCEPT
              !.levels = [linked EXCEPT
                            ![target].next = IF @ = best THEN l ELSE @],
              !.best[side] = l]

AddOrdersAtPrice(b0, l) ==
  LET side  == b0.levels[l].side
      b     == [b0 EXCEPT !.levelAt[b0.levels[l].price % NumPriceLevels] = l]
      best  == b.best[side]
      chain == NextChain(b, best)
      Stop(k) == \/ chain[k] \in {best, Null}
                 \/ ~GoesAfter(b, l, chain[k])
      stops == {k \in 1 .. NumLevels : Stop(k)}
      stop  == CHOOSE k \in stops : \A j \in stops : k <= j
  IN  IF best = Null
        THEN [b EXCEPT !.best[side] = l,
                       !.levels[l].prev = l, !.levels[l].next = l]
      ELSE IF ~GoesAfter(b, l, best) THEN InsertBefore(b, l, best, best)
      ELSE IF stops = {} THEN Fail(b, "hung")
      ELSE IF chain[stop] = Null THEN Fail(b, "crashed")
      ELSE IF chain[stop] = best THEN InsertLast(b, l, best)
      ELSE InsertBefore(b, l, chain[stop], best)

-----------------------------------------------------------------------------
(* addOrder *)

\* Wrong form: the new order goes to the head of its level's ring.
AppendToLevelInFront(b, o, l) ==
  LET first == b.levels[l].first
      last  == b.orders[first].prev
  IN  [b EXCEPT !.orders =
         [[@ EXCEPT ![last].next = o, ![o].prev = last]
            EXCEPT ![o].next = first, ![first].prev = o],
         !.levels[l].first = o]

\* Joining the ring of a level: behind the last order, in front of the first.
AppendToLevel(b, o, l) ==
  LET first == b.levels[l].first
      last  == b.orders[first].prev
  IN  IF last = Null THEN Fail(b, "crashed")
      ELSE [b EXCEPT !.orders =
              [[@ EXCEPT ![last].next = o, ![o].prev = last]
                 EXCEPT ![o].next = first, ![first].prev = o]]

\* A price nobody rests at: its level is the next block of the pool.
OpenLevel(b, o) ==
  LET l    == b.levelPool.next
      pool == Allocate(b.levelPool)
      ord  == b.orders[o]
  IN  IF pool.failed THEN Fail([b EXCEPT !.levelPool = pool], "poolAssert")
      ELSE AddOrdersAtPrice(
             [b EXCEPT !.levelPool = pool,
                       !.orders[o].prev = o, !.orders[o].next = o,
                       !.levels[l] = [side |-> ord.side, price |-> ord.price,
                                      first |-> o, prev |-> Null,
                                      next |-> Null]], l)

\* Which level an order joins depends on priceToIndex alone: neither the side
\* nor the exact price of the level is looked at.
AddOrder(b, o) ==
  LET ord    == b.orders[o]
      level  == LevelOf(b, ord.price)
      placed == IF level = Null THEN OpenLevel(b, o)
                ELSE AppendToLevel(b, o, level)
  IN  IF placed.status # "running" THEN placed
      ELSE [placed EXCEPT !.orderOf[ord.client][ord.coid] = o]

NextPriority(b, price) ==
  LET level == LevelOf(b, price) IN
  IF level = Null THEN 1
  ELSE b.orders[b.orders[b.levels[level].first].prev].priority + 1

-----------------------------------------------------------------------------
(* removeOrder *)

RemoveOrdersAtPrice(b, side, price) ==
  LET l     == LevelOf(b, price)
      level == b.levels[l]
      pool  == Deallocate(b.levelPool, l)
      unlinked ==
        IF level.next = l THEN [b EXCEPT !.best[side] = Null]
        ELSE [b EXCEPT
               !.levels = [[[@ EXCEPT ![level.prev].next = level.next]
                               EXCEPT ![level.next].prev = level.prev]
                               EXCEPT ![l].prev = Null, ![l].next = Null],
               !.best[side] = IF @ = l THEN level.next ELSE @]
  IN  IF l = Null \/ (level.next # l /\ Null \in {level.prev, level.next})
        THEN Fail(b, "crashed")
      ELSE LET gone == [unlinked EXCEPT !.levelAt[price % NumPriceLevels] = Null,
                                        !.levelPool = pool]
           IN  IF pool.failed THEN Fail(gone, "poolAssert") ELSE gone

\* Leaving a ring of several orders.
UnlinkOrder(b, o) ==
  LET ord == b.orders[o]
      l   == LevelOf(b, ord.price)
  IN  IF Null \in {ord.prev, ord.next, l} THEN Fail(b, "crashed")
      ELSE [b EXCEPT
             !.orders = [[[@ EXCEPT ![ord.prev].next = ord.next]
                             EXCEPT ![ord.next].prev = ord.prev]
                             EXCEPT ![o].prev = Null, ![o].next = Null],
             !.levels[l].first = IF @ = o THEN ord.next ELSE @]

\* Wrong form: the block stays in use.
RemoveOrderLeaks(b, o) ==
  LET ord     == b.orders[o]
      removed == IF ord.prev = o
                   THEN RemoveOrdersAtPrice(b, ord.side, ord.price)
                   ELSE UnlinkOrder(b, o)
  IN  IF removed.status # "running" THEN removed
      ELSE [removed EXCEPT !.orderOf[ord.client][ord.coid] = Null]

RemoveOrder(b, o) ==
  LET ord     == b.orders[o]
      pool    == Deallocate(b.orderPool, o)
      removed == IF ord.prev = o
                   THEN RemoveOrdersAtPrice(b, ord.side, ord.price)
                   ELSE UnlinkOrder(b, o)
      gone    == [removed EXCEPT !.orderOf[ord.client][ord.coid] = Null,
                                 !.orderPool = pool]
  IN  IF removed.status # "running" THEN removed
      ELSE IF pool.failed THEN Fail(gone, "poolAssert")
      ELSE gone

=============================================================================
