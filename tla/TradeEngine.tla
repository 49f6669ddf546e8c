---------------------------- MODULE TradeEngine ----------------------------
(***************************************************************************)
(* One instrument of a TradeEngine (trading/strategy): the two orders the  *)
(* OrderManager keeps in the market, the RiskManager's limits and the      *)
(* PositionKeeper's position, moved by a strategy and by the answers of    *)
(* the exchange.  The OrderManager is a record, its functions operators    *)
(* from record to record.                                                  *)
(*                                                                         *)
(* The exchange is what MatchingEngine does with this client's requests:   *)
(* it answers them in order, takes what crosses, rests the remainder under *)
(* the client id that is the ticker's number, and ends with the first      *)
(* cancel.  Prices only matter to the OrderManager in so far as they       *)
(* differ, so which orders cross is left open.                             *)
(***************************************************************************)
EXTENDS Integers, Sequences

CONSTANTS
  ClientIds,      \* the engine runs for one of these clients
  TickerId,       \* the instrument
  Prices,         \* what a strategy quotes
  Clip,           \* TradeEngineCfg::m_clip
  MaxOrderSize,   \* RiskCfg::m_max_order_size
  MaxPosition,    \* RiskCfg::m_max_position
  MaxOrders,      \* bound: orders sent in a run
  MaxOthers       \* bound: answers to other clients' orders that arrive here

ASSUME TradeEngineAssumption ==
  /\ Clip \in Nat \ {0} /\ MaxOrderSize \in Nat /\ MaxPosition \in Nat
  /\ MaxOrders \in Nat /\ MaxOthers \in Nat

PriceInvalid == "Price_INVALID"
Sides == {"BUY", "SELL"}
SideToValue(side) == IF side = "BUY" THEN 1 ELSE -1

VARIABLES
  client,     \* m_client_id; no step changes it
  om,         \* the OrderManager: its two orders, m_next_order_id, and the
              \* requests it has sent that the exchange has not taken
  position,   \* PositionInfo::m_position
  responses,  \* answers under way to this client
  open,       \* exchange: side and open quantity of every order
  taking,     \* exchange: the order being matched as aggressor, 0 if none
  down,       \* exchange: the process has ended
  others,     \* answers to other clients' orders that were sent here
  traded      \* history: net quantity this client's orders have traded

exchange == <<open, taking, down, others, traded>>
vars == <<client, om, position, responses, exchange>>

Ids == 1 .. MaxOrders

Init ==
  /\ client \in ClientIds
  /\ om = [order |-> [s \in Sides |-> [state |-> "INVALID", id |-> 0,
                                       price |-> PriceInvalid, qty |-> 0]],
           next |-> 1, requests |-> <<>>]
  /\ position = 0
  /\ responses = <<>>
  /\ open = [i \in Ids |-> [side |-> "BUY", left |-> 0]]
  /\ taking = 0 /\ down = FALSE /\ others = 0 /\ traded = 0

-----------------------------------------------------------------------------
(* RiskManager and OrderManager *)

\* Wrong form: the order's own quantity is not looked at.
CheckPreTradeRiskPositionOnly(side, loss) ==
  /\ Clip <= MaxOrderSize
  /\ position <= MaxPosition /\ -position <= MaxPosition
  /\ ~loss

\* RiskInfo::checkPreTradeRisk answers ALLOWED.  Profit and loss is computed
\* from prices and from m_open_vwap, which nothing initialises, so its test
\* may go either way.
CheckPreTradeRisk(side, loss) ==
  LET after == position + SideToValue(side) * Clip
  IN  /\ Clip <= MaxOrderSize
      /\ after <= MaxPosition /\ -after <= MaxPosition
      /\ ~loss

\* Wrong form: the order number is used again.
NewOrderSameId(m, side, price) ==
  [m EXCEPT
     !.order[side] = [state |-> "PENDING_NEW", id |-> m.next, price |-> price,
                      qty |-> Clip],
     !.requests = Append(@, [type |-> "NEW", id |-> m.next, side |-> side])]

\* Wrong form: the order is recorded and never sent.
NewOrderUnsent(m, side, price) ==
  [m EXCEPT
     !.order[side] = [state |-> "PENDING_NEW", id |-> m.next, price |-> price,
                      qty |-> Clip],
     !.next = @ + 1]

NewOrder(m, side, price) ==
  [m EXCEPT
     !.order[side] = [state |-> "PENDING_NEW", id |-> m.next, price |-> price,
                      qty |-> Clip],
     !.next = @ + 1,
     !.requests = Append(@, [type |-> "NEW", id |-> m.next, side |-> side])]

CancelOrder(m, side) ==
  [m EXCEPT
     !.order[side].state = "PENDING_CANCEL",
     !.requests = Append(@, [type |-> "CANCEL", id |-> m.order[side].id,
                             side |-> side])]

\* Wrong form: an order is also cancelled before it was accepted.
MoveOrderEarly(m, side, price, loss) ==
  LET ord == m.order[side] IN
  IF ord.state \in {"LIVE", "PENDING_NEW"} /\ (ord.price # price \/ ord.qty # Clip)
    THEN CancelOrder(m, side)
  ELSE IF /\ ord.state \in {"INVALID", "DEAD"} /\ price # PriceInvalid
          /\ CheckPreTradeRisk(side, loss)
    THEN NewOrder(m, side, price)
  ELSE m

\* A live order that is not as wished is cancelled; a new one is sent when
\* there is none, if the risk limits allow it; a pending one is left alone.
MoveOrder(m, side, price, loss) ==
  LET ord == m.order[side] IN
  IF ord.state = "LIVE" /\ (ord.price # price \/ ord.qty # Clip)
    THEN CancelOrder(m, side)
  ELSE IF /\ ord.state \in {"INVALID", "DEAD"} /\ price # PriceInvalid
          /\ CheckPreTradeRisk(side, loss)
    THEN NewOrder(m, side, price)
  ELSE m

\* A strategy moves its orders on a book update (MarketMaker) or on a trade
\* (LiquidityTaker).  moveOrders passes the bid price for both sides, so the
\* ask price has no effect.
MoveOrders ==
  /\ om.next + 1 <= MaxOrders
  /\ \E price \in Prices \cup {PriceInvalid}, loss \in BOOLEAN :
       om' = MoveOrder(MoveOrder(om, "BUY", price, loss), "SELL", price, loss)
  /\ UNCHANGED <<client, position, responses, exchange>>

\* Wrong form: what is left of the order is counted, not what was executed.
AddFillLeaves(r) ==
  IF r.type = "FILLED" THEN position + SideToValue(r.side) * r.leaves
  ELSE position

\* PositionInfo::addFill, without profit and loss.
AddFill(r) ==
  IF r.type = "FILLED" THEN position + SideToValue(r.side) * r.exec ELSE position

\* Wrong form: any fill ends the order.
OrderUpdateFilledIsDead(ord, r) ==
  CASE r.type = "ACCEPTED" -> [ord EXCEPT !.state = "LIVE"]
    [] r.type = "CANCELED" -> [ord EXCEPT !.state = "DEAD"]
    [] r.type = "FILLED" -> [ord EXCEPT !.qty = r.leaves, !.state = "DEAD"]

OrderUpdate(ord, r) ==
  CASE r.type = "ACCEPTED" -> [ord EXCEPT !.state = "LIVE"]
    [] r.type = "CANCELED" -> [ord EXCEPT !.state = "DEAD"]
    [] r.type = "FILLED" ->
         [ord EXCEPT !.qty = r.leaves,
                     !.state = IF r.leaves = 0 THEN "DEAD" ELSE @]

\* TradeEngine::onOrderUpdate.  A rejected cancel carries no side and changes
\* the slot of no order; no other answer's order id is compared.
OnOrderUpdate ==
  /\ responses # <<>>
  /\ LET r == Head(responses) IN
     /\ position' = AddFill(r)
     /\ om' = IF r.type = "CANCEL_REJECTED" THEN om
              ELSE [om EXCEPT !.order[r.side] = OrderUpdate(@, r)]
  /\ responses' = Tail(responses)
  /\ UNCHANGED <<client, exchange>>

-----------------------------------------------------------------------------
(* The exchange *)

Answer(type, id, side, exec, leaves) ==
  [type |-> type, id |-> id, side |-> side, exec |-> exec, leaves |-> leaves]

TakeRequest == om' = [om EXCEPT !.requests = Tail(@)]

Idle == ~down /\ taking = 0

\* MEOrderBook::add acknowledges the order.
ExchangeAccept ==
  /\ Idle /\ om.requests # <<>> /\ Head(om.requests).type = "NEW"
  /\ LET r == Head(om.requests) IN
     /\ open' = [open EXCEPT ![r.id] = [side |-> r.side, left |-> Clip]]
     /\ taking' = r.id
     /\ responses' = Append(responses, Answer("ACCEPTED", r.id, r.side, 0, Clip))
  /\ TakeRequest
  /\ UNCHANGED <<client, position, down, others, traded>>

Trade(id, n) ==
  /\ open' = [open EXCEPT ![id].left = @ - n]
  /\ traded' = traded + SideToValue(open[id].side) * n

Filled(id, n) == Answer("FILLED", id, open[id].side, n, open[id].left - n)

\* It trades as aggressor.
ExchangeMatch ==
  /\ ~down /\ taking # 0
  /\ \E n \in 1 .. open[taking].left :
       /\ Trade(taking, n)
       /\ responses' = Append(responses, Filled(taking, n))
  /\ UNCHANGED <<client, om, position, taking, down, others>>

\* What is left of it rests.
ExchangeRest ==
  /\ ~down /\ taking # 0
  /\ taking' = 0
  /\ UNCHANGED <<client, om, position, responses, open, down, others, traded>>

\* A resting order trades: the fill goes to the client with the ticker's
\* number, as which all orders rest.
ExchangeTrade ==
  /\ ~down
  /\ \E id \in Ids \ {taking} : \E n \in 1 .. open[id].left :
       /\ Trade(id, n)
       /\ responses' = IF client = TickerId THEN Append(responses, Filled(id, n))
                       ELSE responses
  /\ UNCHANGED <<client, om, position, taking, down, others>>

\* So the client with that number gets the fills of the others' orders too;
\* their order ids, which nothing here compares, are written 0.
OthersFill ==
  /\ ~down /\ client = TickerId /\ others < MaxOthers
  /\ others' = others + 1
  /\ \E side \in Sides, n \in 1 .. Clip, left \in 0 .. Clip :
       responses' = Append(responses, Answer("FILLED", 0, side, n, left))
  /\ UNCHANGED <<client, om, position, open, taking, down, traded>>

\* A cancel finds the order only under the ticker's number, where another
\* client's order with the same id may have taken its place, and have left it
\* empty when it was filled.  After the answer the exchange ends.
ExchangeCancel ==
  /\ Idle /\ om.requests # <<>> /\ Head(om.requests).type = "CANCEL"
  /\ LET id   == Head(om.requests).id
         ours == client = TickerId /\ open[id].left > 0
     IN  \/ /\ ours
            /\ responses' = Append(responses,
                 Answer("CANCELED", id, open[id].side, 0, open[id].left))
            /\ open' = [open EXCEPT ![id].left = 0]
            /\ UNCHANGED others
         \/ /\ ~ours \/ others > 0
            /\ responses' = Append(responses,
                 Answer("CANCEL_REJECTED", id, "INVALID", 0, 0))
            /\ UNCHANGED <<open, others>>
         \/ /\ client = TickerId /\ others < MaxOthers
            /\ others' = others + 1
            /\ \E side \in Sides, left \in 1 .. Clip :
                 responses' = Append(responses,
                   Answer("CANCELED", 0, side, 0, left))
            /\ UNCHANGED open
  /\ TakeRequest
  /\ down' = TRUE
  /\ UNCHANGED <<client, position, taking, traded>>

ProcessRequests == ExchangeAccept \/ ExchangeMatch \/ ExchangeRest \/ ExchangeCancel

Next ==
  \/ MoveOrders \/ OnOrderUpdate
  \/ ProcessRequests \/ ExchangeTrade \/ OthersFill

Spec == Init /\ [][Next]_vars

\* The run loops of the trade engine, the gateway and the matching engine spin
\* for ever; no trade of a resting order is owed to anybody.
FairSpec == Spec /\ WF_vars(OnOrderUpdate) /\ WF_vars(ProcessRequests)

-----------------------------------------------------------------------------
Order(s) == om.order[s]
InMarket(s) == Order(s).state \in {"PENDING_NEW", "LIVE", "PENDING_CANCEL"}
Exposure(s) == IF InMarket(s) THEN Order(s).qty ELSE 0

TypeOK ==
  /\ \A s \in Sides :
       /\ Order(s).state \in {"INVALID", "PENDING_NEW", "LIVE",
                              "PENDING_CANCEL", "DEAD"}
       /\ Order(s).id \in 0 .. (om.next - 1)
       /\ Order(s).qty \in 0 .. Clip
  /\ om.next \in 1 .. (MaxOrders + 1)
  /\ position \in Int /\ traded \in Int
  /\ \A i \in Ids : open[i].left \in 0 .. Clip /\ open[i].side \in Sides
  /\ taking \in Ids \cup {0} /\ down \in BOOLEAN /\ others \in 0 .. MaxOthers

\* The position limit holds although it is checked once per order and fills of
\* the two sides arrive later in any order: with everything in the market
\* filled on one side and nothing on the other, the position is still within
\* MaxPosition.  Only answers to other clients' orders can break it.
WithinLimit ==
  others = 0 => /\ position + Exposure("BUY") <= MaxPosition
                /\ position - Exposure("SELL") >= -MaxPosition

\* The requests and the exchange together never hold two orders of one side:
\* a new order is only sent when the last one is finished, whatever fills,
\* cancels and their answers cross on the way.
OneOrderPerSide ==
  others = 0 => \A s \in Sides :
    LET sent  == {k \in DOMAIN om.requests :
                    om.requests[k].type = "NEW" /\ om.requests[k].side = s}
        there == {i \in Ids : open[i].side = s /\ open[i].left > 0}
    IN  /\ \A j, k \in sent : j = k
        /\ \A i, j \in there : i = j
        /\ sent = {} \/ there = {}

\* An answer never brings an order back: once a cancel was sent, or the order
\* is finished, no late acknowledgement makes it live again.  (Answers to other
\* clients' orders may.)
NoRevival ==
  [][others = 0 => \A s \in Sides :
       Order(s).state \in {"PENDING_CANCEL", "DEAD"} => Order(s)'.state # "LIVE"
    ]_vars

\* When no message is under way, the engine's view is the exchange's: each
\* order is live with the quantity the exchange holds or finished on both
\* sides, and the position is what its orders have traded.
Quiet == responses = <<>> /\ om.requests = <<>> /\ taking = 0

ViewsAgree ==
  (Quiet /\ client = TickerId /\ others = 0) =>
    /\ position = traded
    /\ \A s \in Sides :
         LET there == {i \in Ids : open[i].side = s /\ open[i].left > 0} IN
         IF Order(s).state = "LIVE"
           THEN there = {Order(s).id} /\ open[Order(s).id].left = Order(s).qty
           ELSE there = {} /\ Order(s).state \in {"INVALID", "DEAD"}

\* An order that was sent is acknowledged, unless the exchange has ended.
NewOrderSettles ==
  \A s \in Sides :
    (Order(s).state = "PENDING_NEW")
      ~> (Order(s).state # "PENDING_NEW" \/ down)

=============================================================================
