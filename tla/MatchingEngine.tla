--------------------------- MODULE MatchingEngine ---------------------------
(***************************************************************************)
(* The matching engine's thread on one instrument: processClientRequest    *)
(* (exchange/matcher/matching_engine.cpp) and the public operations of its *)
(* MEOrderBook, add and cancel.  An add is taken in the pieces between     *)
(* which messages leave: the acknowledgement, one step per resting order   *)
(* it trades with, and the rest.  What leaves through the two outgoing     *)
(* queues is kept as the histories responses and updates.                  *)
(***************************************************************************)
EXTENDS MEOrderBook, SequencesExt

CONSTANTS
  Prices, Qtys,   \* what orders ask for
  Senders         \* bound: the new orders of a run, by the client that sends them

ASSUME MatchingEngineAssumption ==
  /\ Prices \subseteq Nat \ {0} /\ Qtys \subseteq Nat \ {0}
  /\ Senders \in Seq(Clients)

VARIABLES
  book,                      \* the instrument's MEOrderBook
  m_next_market_order_id,
  incoming,                  \* the new order being processed, or NoOrder
  responses,                 \* history: client responses sent
  updates,                   \* history: market updates sent
  submitted                  \* history: new orders, by market order id

vars == <<book, m_next_market_order_id, incoming, responses, updates, submitted>>

NoOrder == [moid |-> Null]

Init ==
  /\ book = NewBook
  /\ m_next_market_order_id = 1
  /\ incoming = NoOrder
  /\ responses = <<>> /\ updates = <<>> /\ submitted = <<>>

Running == book.status = "running"

Response(type, ord, price, exec, leaves) ==
  [type |-> type, client |-> ord.client, coid |-> ord.coid, moid |-> ord.moid,
   side |-> ord.side, price |-> price, exec |-> exec, leaves |-> leaves]

Update(type, moid, side, price, qty) ==
  [type |-> type, moid |-> moid, side |-> side, price |-> price, qty |-> qty]

-----------------------------------------------------------------------------
(* A NEW request *)

\* OrderManager numbers the orders of its client from 1.
NextOrderId(client) ==
  Cardinality({m \in DOMAIN submitted : submitted[m].client = client}) + 1

Accept(client, coid, side, price, qty) ==
  LET ord == [client |-> client, coid |-> coid, side |-> side, price |-> price,
              moid |-> m_next_market_order_id, leaves |-> qty]
  IN  /\ Running /\ incoming = NoOrder
      /\ Len(submitted) < Len(Senders) /\ client = Senders[Len(submitted) + 1]
      /\ coid = NextOrderId(client)
      /\ m_next_market_order_id' = m_next_market_order_id + 1
      /\ incoming' = ord
      /\ responses' = Append(responses,
                             Response("ACCEPTED", ord, price, 0, qty))
      /\ submitted' = Append(submitted,
                             [client |-> client, coid |-> coid, side |-> side,
                              price |-> price, qty |-> qty])
      /\ UNCHANGED <<book, updates>>

\* The resting order checkForMatch looks at.
BestOrder == book.levels[book.best[Opposite(incoming.side)]].first

\* The loop condition of checkForMatch.  Both sides stop on
\* "price < resting price": right for a buyer, reversed for a seller.
Crosses ==
  /\ incoming.leaves > 0
  /\ book.best[Opposite(incoming.side)] # Null
  /\ incoming.price >= book.orders[BestOrder].price

\* Wrong form: the aggressor takes all it wants, whatever the order holds.
FillQtyUnbounded(ord) == incoming.leaves

FillQty(ord) == IF incoming.leaves < ord.qty THEN incoming.leaves ELSE ord.qty

\* Wrong form: the aggressor is told its leaves from before the fill.
FillResponsesStale(ord, fill) ==
  <<Response("FILLED", incoming, ord.price, fill, incoming.leaves),
    Response("FILLED", ord, ord.price, fill, ord.qty - fill)>>

\* match reports to the aggressor first, both at the resting order's price.
FillResponses(ord, fill) ==
  <<Response("FILLED", incoming, ord.price, fill, incoming.leaves - fill),
    Response("FILLED", ord, ord.price, fill, ord.qty - fill)>>

\* Wrong form: the order is published as cancelled even when some is left.
FillUpdatesAlwaysCancel(ord, fill) ==
  <<Update("TRADE", Null, incoming.side, ord.price, fill),
    Update("CANCEL", ord.moid, ord.side, ord.price, ord.qty)>>

FillUpdates(ord, fill) ==
  <<Update("TRADE", Null, incoming.side, ord.price, fill),
    IF fill = ord.qty
      THEN Update("CANCEL", ord.moid, ord.side, ord.price, ord.qty)
      ELSE Update("MODIFY", ord.moid, ord.side, ord.price, ord.qty - fill)>>

\* Wrong form: the loop does not count down what is left to match.
MatchForgetsLeaves ==
  /\ Running /\ incoming # NoOrder /\ Crosses
  /\ LET o    == BestOrder
         ord  == book.orders[o]
         fill == FillQty(ord)
         hit  == [book EXCEPT !.orders[o].qty = ord.qty - fill]
     IN  /\ responses' = responses \o FillResponses(ord, fill)
         /\ updates' = updates \o FillUpdates(ord, fill)
         /\ book' = IF fill = ord.qty THEN RemoveOrder(hit, o) ELSE hit
  /\ UNCHANGED <<m_next_market_order_id, incoming, submitted>>

\* One iteration of checkForMatch's loop: match with the best resting order.
Match ==
  /\ Running /\ incoming # NoOrder /\ Crosses
  /\ LET o    == BestOrder
         ord  == book.orders[o]
         fill == FillQty(ord)
         hit  == [book EXCEPT !.orders[o].qty = ord.qty - fill]
     IN  /\ incoming' = [incoming EXCEPT !.leaves = @ - fill]
         /\ responses' = responses \o FillResponses(ord, fill)
         /\ updates' = updates \o FillUpdates(ord, fill)
         /\ book' = IF fill = ord.qty THEN RemoveOrder(hit, o) ELSE hit
  /\ UNCHANGED <<m_next_market_order_id, submitted>>

\* Wrong form: the order rests with the quantity it came with.
RestingOrderWhole(priority) ==
  [client |-> TickerId, coid |-> incoming.coid, moid |-> incoming.moid,
   side |-> incoming.side, price |-> incoming.price,
   qty |-> submitted[incoming.moid].qty,
   priority |-> priority, prev |-> Null, next |-> Null]

\* The stored order: allocate is called with the ticker id and the client id
\* swapped, so the order is kept as the client with the number of the ticker.
RestingOrder(priority) ==
  [client |-> TickerId, coid |-> incoming.coid, moid |-> incoming.moid,
   side |-> incoming.side, price |-> incoming.price, qty |-> incoming.leaves,
   priority |-> priority, prev |-> Null, next |-> Null]

\* What is left of the order after matching rests in the book.
Rest ==
  /\ Running /\ incoming # NoOrder /\ ~Crosses
  /\ incoming' = NoOrder
  /\ IF incoming.leaves = 0
       THEN UNCHANGED <<book, updates>>
       ELSE LET o     == book.orderPool.next
                pool  == Allocate(book.orderPool)
                stored == [book EXCEPT
                             !.orderPool = pool,
                             !.orders[o] = RestingOrder(
                                             NextPriority(book, incoming.price))]
                added == AddOrder(stored, o)
            IN  /\ book' = IF pool.failed THEN Fail(stored, "poolAssert")
                           ELSE added
                /\ updates' = IF book'.status # "running" THEN updates
                              ELSE Append(updates,
                                     Update("ADD", incoming.moid, incoming.side,
                                            incoming.price, incoming.leaves))
  /\ UNCHANGED <<m_next_market_order_id, responses, submitted>>

-----------------------------------------------------------------------------
\* A CANCEL request: the table is asked for the client's own orders, where
\* only the orders of the client numbered like the ticker are found; and
\* after the cancel the switch falls through to FATAL.
Cancel(client, coid) ==
  /\ Running /\ incoming = NoOrder
  /\ LET o       == book.orderOf[client][coid]
         ord     == book.orders[o]
         request == [client |-> client, coid |-> coid]
         removed == RemoveOrder(book, o)
         answer  == IF o = Null
                      THEN Response("CANCEL_REJECTED",
                             request @@ [moid |-> Null, side |-> Null],
                             Null, Null, Null)
                      ELSE Response("CANCELED",
                             request @@ [moid |-> ord.moid, side |-> ord.side],
                             ord.price, Null, ord.qty)
     IN  IF o # Null /\ removed.status # "running"
           THEN book' = removed /\ UNCHANGED <<responses, updates>>
           ELSE /\ responses' = Append(responses, answer)
                /\ updates' = IF o = Null THEN updates
                              ELSE Append(updates,
                                     Update("CANCEL", ord.moid, ord.side,
                                            ord.price, 0))
                /\ book' = Fail(IF o = Null THEN book ELSE removed, "badRequest")
  /\ UNCHANGED <<m_next_market_order_id, incoming, submitted>>

Next ==
  \/ \E c \in Clients, i \in OrderIds, s \in Sides, p \in Prices, q \in Qtys :
       Accept(c, i, s, p, q)
  \/ Match
  \/ Rest
  \/ \E c \in Clients, i \in OrderIds : Cancel(c, i)

Spec == Init /\ [][Next]_vars

-----------------------------------------------------------------------------
TypeOK ==
  /\ \A o \in 0 .. (NumOrders - 1) :
       /\ book.orders[o].qty \in Nat
       /\ {book.orders[o].prev, book.orders[o].next} \subseteq OrderRefs
  /\ \A l \in 0 .. (NumLevels - 1) :
       {book.levels[l].prev, book.levels[l].next} \subseteq LevelRefs
  /\ book.best \in [Sides -> LevelRefs]
  /\ book.levelAt \in [0 .. (NumPriceLevels - 1) -> LevelRefs]
  /\ book.status \in {"running"} \cup Ends
  /\ incoming = NoOrder \/ incoming.leaves \in Nat
  /\ m_next_market_order_id = Len(submitted) + 1

\* What a subscriber holds who applies the updates in order, by market order id:
\* of each order what its last update says, unless that takes it away.
Entry(x) == [moid |-> x.moid, side |-> x.side, price |-> x.price, qty |-> x.qty]

Replica ==
  {Entry(updates[k]) : k \in
     {k \in DOMAIN updates :
        /\ updates[k].type \in {"ADD", "MODIFY"}
        /\ \A j \in (k + 1) .. Len(updates) : updates[j].moid # updates[k].moid}}

\* The published updates rebuild the book: a subscriber who applied all of them
\* holds exactly the orders at rest, with their side, price and open quantity.
ReplicaIsBook == Running => Replica = {Entry(ord) : ord \in Resting(book)}

Answers(m) == {k \in DOMAIN responses : responses[k].moid = m}

\* Every order's answers add up: it is acknowledged first with its full
\* quantity, and each fill leaves what the answer before it left less what it
\* executed, whichever of the two sides of a trade the order was on.
AnswersAddUp ==
  \A m \in DOMAIN submitted :
    /\ \E k \in Answers(m) :
         /\ \A j \in Answers(m) : k <= j
         /\ responses[k].type = "ACCEPTED" /\ responses[k].leaves = submitted[m].qty
    /\ \A j, k \in Answers(m) :
         (j < k /\ responses[k].type = "FILLED"
           /\ \A i \in (j + 1) .. (k - 1) : i \notin Answers(m))
         => responses[k].leaves = responses[j].leaves - responses[k].exec

Open(m) ==
  IF incoming.moid = m THEN incoming.leaves
  ELSE LET rest == {ord \in Resting(book) : ord.moid = m}
       IN  IF rest = {} THEN 0 ELSE (CHOOSE ord \in rest : TRUE).qty

\* What the last answer says is left of an order is what the engine holds of
\* it: nothing is executed and not reported, or reported and not executed.
LeavesAreOpen ==
  Running => \A m \in DOMAIN submitted : \E k \in Answers(m) :
               /\ \A j \in Answers(m) : j <= k
               /\ Open(m) = responses[k].leaves

\* The orders of a level form a ring in the order of their priorities, and the
\* rings of the levels in use hold the resting orders, each once.
Ring(l) ==
  LET b == book
      ring[k \in 0 .. NumOrders] ==
        IF k = 0 THEN b.levels[l].first
        ELSE LET o == ring[k - 1] IN IF o = Null THEN Null ELSE b.orders[o].next
      ends == {n \in 1 .. NumOrders : ring[n] = ring[0]}
      size == CHOOSE n \in ends : \A k \in ends : n <= k
  IN  IF ends = {} THEN <<Null>> ELSE [k \in 1 .. size |-> ring[k - 1]]

RingsOrdered ==
  Running =>
    LET b == book
        levels == LiveBlocks(b.levelPool)
    IN  /\ \A l \in levels :
             LET r == Ring(l) IN
             /\ Null \notin ToSet(r)
             /\ \A k \in DOMAIN r :
                  b.orders[r[k]].prev = r[IF k = 1 THEN Len(r) ELSE k - 1]
             /\ \A k \in 2 .. Len(r) :
                  b.orders[r[k]].priority > b.orders[r[k - 1]].priority
        /\ UNION {ToSet(Ring(l)) : l \in levels} = LiveBlocks(b.orderPool)

\* Time priority: an order is only filled when no older order rests on the
\* same side at the same price, as long as the best level it is found through
\* is in use.  When the last order of a level rests there from the other side,
\* removeOrdersAtPrice clears the best level of the order's side: the best level
\* of the level's side is then a block given back to the pool, whose first order
\* may have been allocated to a younger one.
TimePriority ==
  [][\A ord \in Resting(book) :
       (/\ \E k \in (Len(responses) + 1) .. Len(responses') :
             responses'[k].type = "FILLED" /\ responses'[k].moid = ord.moid
        /\ book.best[Opposite(incoming.side)] \in LiveBlocks(book.levelPool))
       => ~\E old \in Resting(book) :
             old.side = ord.side /\ old.price = ord.price /\ old.moid < ord.moid
    ]_vars

\* The matching loop ends: every step of an order being processed finishes it,
\* leaves it smaller than before, or ends the process.
MatchingEnds ==
  [][incoming # NoOrder =>
       \/ incoming' = NoOrder
       \/ incoming'.leaves < incoming.leaves
       \/ book'.status # "running"]_vars

\* toString, run over the whole book with its validity check: walking a side
\* from the best level, every level is worse than the one before it ("Bids/Asks
\* not sorted by ascending/descending prices").  False of the code.
SidesSorted ==
  Running => \A side \in Sides :
    LET chain == NextChain(book, book.best[side])
        price(k) == book.levels[chain[k]].price
    IN  \A k \in 1 .. NumLevels :
          (\A j \in 0 .. k : chain[j] # Null /\ (j > 0 => chain[j] # chain[0]))
          => IF side = "SELL" THEN price(k - 1) < price(k)
                              ELSE price(k - 1) > price(k)

=============================================================================
