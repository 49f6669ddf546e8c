--------------------------- MODULE MarketOrderBook ---------------------------
(***************************************************************************)
(* trading/strategy/market_order_book.cpp: the trader's copy of one        *)
(* instrument's book and the best bid and offer it keeps for the           *)
(* strategies.  Adding and removing orders and levels is, line for line,   *)
(* the code of the exchange's book: the operators of MEOrderBook, whose    *)
(* row orderOf[TickerId] is m_oid_to_order here.  There are no clients.    *)
(* Both pools have ME_MAX_ORDER_IDS blocks, the length of m_oid_to_order;  *)
(* the price table is shorter, ME_MAX_PRICE_LEVELS as in the exchange.     *)
(***************************************************************************)
EXTENDS MEOrderBook, FiniteSetsExt

CONSTANTS
  Prices, Qtys,    \* what the updates carry
  MaxUpdates       \* bound: updates about orders

ASSUME MarketOrderBookAssumption ==
  /\ Clients = {} /\ OrderIds = 0 .. (NumOrders - 1) /\ NumLevels = NumOrders
  /\ Prices \subseteq Nat \ {0} /\ Qtys \subseteq Nat \ {0}
  /\ MaxUpdates \in Nat

VARIABLES
  book,       \* pools, rings and tables
  bbo,        \* m_bbo
  attached,   \* m_trade_engine is set; no step changes it
  told,       \* history: the orders that rest according to the updates
  lastId,     \* history: the largest order id since the last CLEAR
  applied,    \* how many updates about orders there were
  missed,     \* history: sides whose best level changed with no flag set
  sound       \* history: no order or level was linked wrongly

vars == <<book, bbo, attached, told, lastId, applied, missed, sound>>

NoQuote == [price |-> 0, qty |-> 0]     \* Price_INVALID, Qty_INVALID

\* setTradeEngine is private and nothing calls it: a book as it is now is not
\* attached.  One that is, is kept as a second initial state.
Init ==
  /\ book = NewBook /\ bbo = [s \in Sides |-> NoQuote]
  /\ attached \in BOOLEAN
  /\ told = {} /\ lastId = 0 /\ applied = 0
  /\ missed = {} /\ sound = TRUE

Running == book.status = "running"

Add(oid, side, price, qty) ==
  [type |-> "ADD", oid |-> oid, side |-> side, price |-> price, qty |-> qty]

\* An update about an order carries its side and price.
About(type, t, qty) ==
  [type |-> type, oid |-> t.oid, side |-> t.side, price |-> t.price, qty |-> qty]

-----------------------------------------------------------------------------
(* The best bid and offer *)

\* The orders met when following m_next_order from the first of a level: from
\* is the first, one more than there are blocks.
OrderChain(b, from) ==
  LET chain[k \in 0 .. NumOrders] ==
        IF k = 0 THEN from
        ELSE IF chain[k - 1] = Null THEN Null ELSE b.orders[chain[k - 1]].next
  IN  chain

\* Where the walk over a level ends; none if it does not.
ChainEnds(chain) == {k \in 1 .. NumOrders : chain[k] \in {chain[0], Null}}

\* The quantity of the first k orders met.
QtyOf(b, chain) ==
  LET sum[k \in 0 .. NumOrders] ==
        IF k = 0 THEN 0 ELSE sum[k - 1] + b.orders[chain[k - 1]].qty
  IN  sum

\* One side of updateBBO.
Quote(b, side) ==
  LET level == b.levels[b.best[side]]
      chain == OrderChain(b, level.first)
  IN  IF b.best[side] = Null THEN NoQuote
      ELSE [price |-> level.price, qty |-> QtyOf(b, chain)[Min(ChainEnds(chain))]]

\* How updateBBO ends when it reads side's best level.
WalkStatus(b, side) ==
  LET chain == OrderChain(b, b.levels[b.best[side]].first) IN
  IF b.best[side] = Null THEN "running"
  ELSE IF ChainEnds(chain) = {} THEN "hung"
  ELSE IF chain[Min(ChainEnds(chain))] = Null THEN "crashed"
  ELSE "running"

\* Wrong form: an update at the best price itself is taken for one behind it.
FlaggedStrictly(b, u) ==
  {s \in Sides : /\ b.best[s] # Null /\ u.side = s
                 /\ LET best == b.levels[b.best[s]].price IN
                    IF s = "BUY" THEN u.price > best ELSE u.price < best}

\* bid_updated and ask_updated, computed before the update is applied.
Flagged(b, u) ==
  {s \in Sides : /\ b.best[s] # Null /\ u.side = s
                 /\ LET best == b.levels[b.best[s]].price IN
                    IF s = "BUY" THEN u.price >= best ELSE u.price <= best}

-----------------------------------------------------------------------------
(* The updates *)

NewOrder(u) ==
  [client |-> TickerId, coid |-> u.oid, moid |-> u.oid, side |-> u.side,
   price |-> u.price, qty |-> u.qty, priority |-> 0, prev |-> Null, next |-> Null]

\* Wrong form: m_oid_to_order[id], which is not checked.
AddNewUnchecked(b, u) ==
  LET o     == b.orderPool.next
      pool  == Allocate(b.orderPool)
      taken == [b EXCEPT !.orderPool = pool, !.orders[o] = NewOrder(u)]
  IN  IF pool.failed THEN Fail(taken, "poolAssert") ELSE AddOrder(taken, o)

\* ADD.  m_oid_to_order.at throws in a noexcept function for an id that is not
\* an index of it.
AddNew(b, u) ==
  LET o     == b.orderPool.next
      pool  == Allocate(b.orderPool)
      taken == [b EXCEPT !.orderPool = pool, !.orders[o] = NewOrder(u)]
  IN  IF pool.failed THEN Fail(taken, "poolAssert")
      ELSE IF u.oid \notin OrderIds THEN Fail(taken, "outOfRange")
      ELSE AddOrder(taken, o)

\* Wrong form: MODIFY looks for the order among the orders of its price.
ModifyFirst(b, u) ==
  [b EXCEPT !.orders[b.levels[LevelOf(b, u.price)].first].qty = u.qty]

Modify(b, u) == [b EXCEPT !.orders[b.orderOf[TickerId][u.oid]].qty = u.qty]

Cancel(b, u) == RemoveOrder(b, b.orderOf[TickerId][u.oid])

\* Wrong form: the walk begins with the best level, which is given back again
\* after it.
ClearLevelsTwice(b, side) ==
  IF b.best[side] = Null THEN b ELSE Fail(b, "poolAssert")

\* CLEAR of one side's levels: from the best one around.  A walk that does not
\* come back to the best level meets a block a second time or a null pointer, and
\* deallocate asserts that what it is given is a block in use.
ClearLevels(b, side) ==
  LET chain   == NextChain(b, b.best[side])
      ends    == {k \in 1 .. NumOrders : chain[k] = b.best[side]}
      met     == {chain[k] : k \in 0 .. (Min(ends) - 1)}
  IN  IF b.best[side] = Null THEN b
      ELSE IF ends = {} \/ ~(met \subseteq LiveBlocks(b.levelPool))
        THEN Fail(b, "poolAssert")
      ELSE [b EXCEPT !.levelPool.free = [l \in DOMAIN @ |-> @[l] \/ l \in met],
                     !.best[side] = Null]

\* CLEAR of the orders.
ClearOrders(b) ==
  LET orders == {b.orderOf[TickerId][i] : i \in OrderIds} \ {Null} IN
  [b EXCEPT !.orderPool.free = [o \in DOMAIN @ |-> @[o] \/ o \in orders],
            !.orderOf[TickerId] = [i \in OrderIds |-> Null]]

\* Wrong form: the levels of the orders stay.
ClearOnlyOrders(b) == ClearOrders(b)

\* CLEAR: m_price_orders_at_price keeps its pointers.
Clear(b) ==
  LET bids == ClearLevels(ClearOrders(b), "BUY") IN
  IF bids.status # "running" THEN bids ELSE ClearLevels(bids, "SELL")

\* The switch of onMarketUpdate.
Applied(b, u) ==
  CASE u.type = "ADD"    -> AddNew(b, u)
    [] u.type = "MODIFY" -> Modify(b, u)
    [] u.type = "CANCEL" -> Cancel(b, u)
    [] u.type = "CLEAR"  -> Clear(b)

\* What the order of an ADD is linked to: a level of its own price and side that
\* is in use, or a new one behind all others of its side.
LinkedWell(b, u) ==
  LET l == LevelOf(b, u.price) IN
  IF l # Null
    THEN /\ l \in LiveBlocks(b.levelPool)
         /\ b.levels[l].price = u.price /\ b.levels[l].side = u.side
    ELSE b.best[u.side] = Null \/
         \A t \in told : t.side = u.side => u.side = "BUY" \/ t.price < u.price

\* onMarketUpdate for anything but a trade; the last thing it does is to call
\* the trade engine, through a null pointer when the book is not attached.
OnMarketUpdate(u) ==
  LET b       == Applied(book, u)
      flagged == Flagged(book, u)
      broken  == {s \in flagged : WalkStatus(b, s) # "running"}
  IN  /\ Running /\ applied < MaxUpdates
      /\ applied' = applied + 1
      /\ IF b.status # "running" THEN book' = b /\ UNCHANGED bbo
         ELSE IF broken # {}
           THEN book' = Fail(b, WalkStatus(b, CHOOSE s \in broken : TRUE)) /\ UNCHANGED bbo
         ELSE /\ bbo' = [s \in Sides |-> IF s \in flagged THEN Quote(b, s) ELSE bbo[s]]
              /\ book' = IF attached THEN b ELSE Fail(b, "crashed")
      /\ missed' = (missed \ flagged) \cup
                     {s \in Sides \ flagged : b.best[s] # book.best[s]}
      /\ sound' = (sound /\ (u.type = "ADD" => LinkedWell(book, u)))
      /\ UNCHANGED attached

\* The exchange numbers its orders from 1, those filled on arrival as well, and
\* never uses a number again.  A snapshot has its orders by rising ids.
OnAdd ==
  \E oid \in (lastId + 1) .. NumOrders :
    /\ \E s \in Sides, p \in Prices, q \in Qtys :
         /\ OnMarketUpdate(Add(oid, s, p, q))
         /\ told' = told \cup {[oid |-> oid, side |-> s, price |-> p, qty |-> q]}
    /\ lastId' = oid

\* The exchange says so when an order was filled in part.
OnModify ==
  /\ \E t \in told : \E q \in 1 .. (t.qty - 1) :
       /\ OnMarketUpdate(About("MODIFY", t, q))
       /\ told' = (told \ {t}) \cup {[t EXCEPT !.qty = q]}
  /\ UNCHANGED lastId

OnCancel ==
  /\ \E t \in told : /\ OnMarketUpdate(About("CANCEL", t, 0))
                     /\ told' = told \ {t}
  /\ UNCHANGED lastId

\* A snapshot begins: its orders follow, then newer ones.
OnClear ==
  /\ OnMarketUpdate([type |-> "CLEAR", side |-> "INVALID", price |-> 0])
  /\ told' = {} /\ lastId' = 0

\* A trade is only passed on.
OnTrade ==
  /\ Running
  /\ book' = IF attached THEN book ELSE Fail(book, "crashed")
  /\ UNCHANGED <<bbo, attached, told, lastId, applied, missed, sound>>

Next == OnAdd \/ OnModify \/ OnCancel \/ OnClear \/ OnTrade

Spec == Init /\ [][Next]_vars

-----------------------------------------------------------------------------
TypeOK ==
  /\ book.status \in {"running"} \cup Ends
  /\ \A s \in Sides : /\ book.best[s] \in OrderIds \cup {Null}
                      /\ bbo[s].price \in Prices \cup {0} /\ bbo[s].qty \in Nat
  /\ \A i \in OrderIds : book.orderOf[TickerId][i] \in OrderIds \cup {Null}
  /\ \A r \in Resting(book) :
       r.price \in Prices /\ \E q \in Qtys : r.qty \in 1 .. q
  /\ lastId \in 0 .. NumOrders /\ (Running => lastId \in OrderIds)
  /\ applied \in 0 .. MaxUpdates
  /\ missed \subseteq Sides /\ sound \in BOOLEAN

\* The orders in the pool are those the updates leave at rest, however the rings
\* were damaged and whatever the tables still point to.
BookIsReplica ==
  Running => {[oid |-> r.moid, side |-> r.side, price |-> r.price, qty |-> r.qty] :
                r \in Resting(book)} = told

Told(side) == {t \in told : t.side = side}

\* While nothing was linked wrongly, the first level of a side is one that is in
\* use, the lowest for offers, and there is none when no order rests: also after
\* a CLEAR, which leaves pointers to the levels it frees.
TopIsLive ==
  sound /\ Running =>
    \A s \in Sides :
      LET l == book.best[s] IN
      IF Told(s) = {} THEN l = Null
      ELSE /\ l \in LiveBlocks(book.levelPool)
           /\ \E t \in Told(s) : t.price = book.levels[l].price
           /\ s = "SELL" => \A t \in Told(s) : book.levels[l].price <= t.price

\* A book that nothing was linked wrongly in does not crash, hang or fail an
\* assertion until its pool is full or the order ids outgrow its table, however
\* often it is cleared.
SoundSurvives ==
  attached /\ sound /\ ~Running =>
    lastId = NumOrders \/ LiveBlocks(book.orderPool) = OrderIds

\* The quantity the updates left at a price, of the orders up to each id.
ToldQty(side, price) ==
  LET sum[i \in 0 .. NumOrders] ==
        LET here == {t \in Told(side) : t.oid = i /\ t.price = price} IN
        IF i = 0 THEN 0
        ELSE sum[i - 1] + (IF here = {} THEN 0 ELSE (CHOOSE t \in here : TRUE).qty)
  IN  sum

\* What the strategies see of such a book is the price of a side's first level
\* and all the quantity the updates left there, except between a change of the
\* first level that sets no flag (the first order of a side, a CLEAR) and the
\* next update at that level: flags taken before an update suffice otherwise.
BBOIsTop ==
  sound /\ Running =>
    \A s \in Sides \ missed :
      IF Told(s) = {} THEN bbo[s] = NoQuote
      ELSE LET price == book.levels[book.best[s]].price IN
           bbo[s] = [price |-> price, qty |-> ToldQty(s, price)[NumOrders]]

=============================================================================
