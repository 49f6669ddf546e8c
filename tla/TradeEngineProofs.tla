------------------------- MODULE TradeEngineProofs -------------------------
(***************************************************************************)
(* For every clip, limit, number of orders and set of prices: the types,   *)
(* the position limit, one order per side, no revived order, and that the  *)
(* engine's view is the exchange's when nothing is under way.              *)
(***************************************************************************)
EXTENDS TradeEngine, SequenceTheorems, TLAPS

(***************************************************************************)
(* The inductive invariant is stated of an OrderManager m, because a call  *)
(* of moveOrders passes through two of them.                               *)
(***************************************************************************)
Active(ord) == ord.state \in {"PENDING_NEW", "LIVE", "PENDING_CANCEL"}
Own(r) == r.type # "CANCEL_REJECTED"

\* What an answer says was open before the event it reports, and after it.
Before(r) == r.exec + r.leaves
After(r) == IF r.type = "CANCELED" THEN 0 ELSE r.leaves

Slots == [state : {"INVALID", "PENDING_NEW", "LIVE", "PENDING_CANCEL", "DEAD"},
          id : Nat, price : Prices \cup {PriceInvalid}, qty : 0 .. Clip]
Requests == [type : {"NEW", "CANCEL"}, id : Nat, side : Sides]
Managers == [order : [Sides -> Slots], next : Nat, requests : Seq(Requests)]
AnswerSet ==
  [type : {"ACCEPTED", "FILLED", "CANCELED", "CANCEL_REJECTED"}, id : Nat,
   side : Sides \cup {"INVALID"}, exec : 0 .. Clip, leaves : 0 .. Clip]

\* The types of a manager: whatever was numbered has a number below m.next.
Formed(m) ==
  /\ m \in Managers
  /\ m.next \in 1 .. (MaxOrders + 1)
  /\ \A s \in Sides : /\ m.order[s].id < m.next
                      /\ Active(m.order[s]) => m.order[s].id >= 1
  /\ \A k \in 1 .. Len(m.requests) :
       /\ m.requests[k].id \in 1 .. (m.next - 1)
       /\ m.requests[k].type = "NEW" => m.order[m.requests[k].side].id >= 1
  /\ \A i \in 1 .. Len(responses) :
       responses[i].type = "ACCEPTED" => m.order[responses[i].side].id >= 1

Types ==
  /\ Formed(om)
  /\ responses \in Seq(AnswerSet)
  /\ \A i \in 1 .. Len(responses) : Own(responses[i]) => responses[i].side \in Sides
  /\ position \in Int /\ traded \in Int
  /\ open \in [Ids -> [side : Sides, left : 0 .. Clip]]
  /\ taking \in Ids \cup {0} /\ down \in BOOLEAN /\ others \in 0 .. MaxOthers

\* An answer under way is about an order still in its slot, and reports no more
\* than the slot has open; an acknowledgement finds its order unacknowledged.
AnswersFit(m) ==
  \A i \in 1 .. Len(responses) : Own(responses[i]) =>
    /\ Active(m.order[responses[i].side])
    /\ Before(responses[i]) >= 1
    /\ Before(responses[i]) <= m.order[responses[i].side].qty
    /\ responses[i].type = "ACCEPTED" =>
         m.order[responses[i].side].state = "PENDING_NEW"

\* The answers of a side follow one another: acknowledged first, each beginning
\* with no more than the one before it left.
AnswersShrink ==
  \A i, j \in 1 .. Len(responses) :
    /\ i < j /\ Own(responses[i]) /\ Own(responses[j])
    /\ responses[i].side = responses[j].side
    => responses[j].type # "ACCEPTED" /\ Before(responses[j]) <= After(responses[i])

\* What is open at the exchange is the order in the slot, with no more open
\* than the slot and every answer under way have left.
OpenFits(m) ==
  \A k \in Ids : open[k].left > 0 =>
    /\ k = m.order[open[k].side].id
    /\ Active(m.order[open[k].side])
    /\ open[k].left <= m.order[open[k].side].qty
    /\ \A i \in 1 .. Len(responses) :
         Own(responses[i]) /\ responses[i].side = open[k].side =>
           open[k].left <= After(responses[i])

\* Until the exchange takes a new order, there is nothing else of its side.
RequestsFresh(m) ==
  \A k \in 1 .. Len(m.requests) : m.requests[k].type = "NEW" =>
    /\ m.requests[k].id = m.order[m.requests[k].side].id
    /\ m.order[m.requests[k].side].state = "PENDING_NEW"
    /\ m.order[m.requests[k].side].qty = Clip
    /\ \A j \in 1 .. Len(m.requests) :
         m.requests[j].type = "NEW" /\ m.requests[j].side = m.requests[k].side
           => j = k
    /\ \A i \in 1 .. Len(responses) :
         Own(responses[i]) => responses[i].side # m.requests[k].side
    /\ \A i \in Ids : open[i].left > 0 => open[i].side # m.requests[k].side

ExposureOf(ord) == IF Active(ord) THEN ord.qty ELSE 0

Limited(m) ==
  /\ position + ExposureOf(m.order["BUY"]) <= MaxPosition
  /\ position - ExposureOf(m.order["SELL"]) >= -MaxPosition

Tracked(m) == AnswersFit(m) /\ OpenFits(m) /\ RequestsFresh(m) /\ Limited(m)

IInv == Types /\ (others = 0 => Tracked(om) /\ AnswersShrink)

-----------------------------------------------------------------------------
LEMMA AppendFacts ==
  ASSUME NEW S, NEW s \in Seq(S), NEW e \in S
  PROVE  /\ Append(s, e) \in Seq(S)
         /\ Len(s) \in Nat /\ Len(Append(s, e)) = Len(s) + 1
         /\ \A i \in 1 .. Len(s) : Append(s, e)[i] = s[i]
         /\ Append(s, e)[Len(s) + 1] = e
  BY AppendProperties

LEMMA TailFacts ==
  ASSUME NEW S, NEW s \in Seq(S), s # <<>>
  PROVE  /\ Tail(s) \in Seq(S)
         /\ Len(s) \in Nat /\ Len(s) >= 1 /\ Len(Tail(s)) = Len(s) - 1
         /\ Head(s) = s[1] /\ Head(s) \in S
         /\ \A i \in 1 .. Len(Tail(s)) : Tail(s)[i] = s[i + 1]
  BY HeadTailProperties

LEMMA ManagerUpdate ==
  ASSUME NEW m \in Managers, NEW side \in Sides, NEW ord \in Slots,
         NEW k \in Nat, NEW q \in Seq(Requests)
  PROVE  [m EXCEPT !.order[side] = ord, !.next = k, !.requests = q] \in Managers
  BY DEF Managers

-----------------------------------------------------------------------------
\* A call of newOrder keeps the invariant when the slot is empty or finished
\* and the risk check allowed it.
LEMMA NewOrderKeeps ==
  ASSUME Types, NEW m, Formed(m), m.next <= MaxOrders,
         NEW side \in Sides, NEW price \in Prices \cup {PriceInvalid},
         ~Active(m.order[side])
  PROVE  LET n == NewOrder(m, side, price) IN
         /\ Formed(n) /\ n.next = m.next + 1
         /\ Tracked(m) /\ (\E loss \in BOOLEAN : CheckPreTradeRisk(side, loss))
              => Tracked(n)
<1> USE TradeEngineAssumption
<1> DEFINE n == NewOrder(m, side, price)
           slot == [state |-> "PENDING_NEW", id |-> m.next, price |-> price,
                    qty |-> Clip]
           req == [type |-> "NEW", id |-> m.next, side |-> side]
<1>1. /\ m.order \in [Sides -> Slots] /\ m.next \in Nat
      /\ m.requests \in Seq(Requests)
  BY DEF Formed, Managers
<1>2. slot \in Slots /\ req \in Requests
  BY <1>1 DEF Slots, Requests
<1>3. /\ n.order = [m.order EXCEPT ![side] = slot] /\ n.next = m.next + 1
      /\ n.requests = Append(m.requests, req)
  BY DEF NewOrder, Formed, Managers
<1>4. n \in Managers
  <2>2. n.requests \in Seq(Requests)
    BY <1>1, <1>2, <1>3, AppendFacts
  <2>3. n = [m EXCEPT !.order[side] = slot, !.next = m.next + 1,
                      !.requests = Append(m.requests, req)]
    BY DEF NewOrder
  <2>4. m \in Managers /\ m.next + 1 \in Nat /\ Append(m.requests, req) \in Seq(Requests)
    BY <1>1, <1>3, <2>2 DEF Formed
  <2> HIDE DEF n, slot, req
  <2> QED BY <1>2, <2>3, <2>4, ManagerUpdate
<1>5. /\ n.order[side] = slot
      /\ \A s \in Sides : s # side => n.order[s] = m.order[s]
  BY <1>1, <1>3
<1>6. /\ Len(m.requests) \in Nat /\ Len(n.requests) = Len(m.requests) + 1
      /\ \A i \in 1 .. Len(m.requests) :
           n.requests[i] = m.requests[i] /\ m.requests[i] \in Requests
      /\ n.requests[Len(m.requests) + 1] = req
  <2>1. \A i \in 1 .. Len(m.requests) : m.requests[i] \in Requests
    BY <1>1, ElementOfSeq
  <2> QED BY <1>1, <1>2, <1>3, <2>1, AppendFacts
<1> HIDE DEF n
<1>7. Formed(n)
  <2>1. n.next \in 1 .. (MaxOrders + 1)
    BY <1>1, <1>3
  <2>2. \A s \in Sides : /\ n.order[s].id < n.next
                         /\ Active(n.order[s]) => n.order[s].id >= 1
    BY <1>1, <1>3, <1>5 DEF Formed, Slots
  <2>3. \A k \in 1 .. Len(n.requests) :
       /\ n.requests[k].id \in 1 .. (n.next - 1)
       /\ n.requests[k].type = "NEW" => n.order[n.requests[k].side].id >= 1
    <3> TAKE k \in 1 .. Len(n.requests)
    <3>1. CASE k = Len(m.requests) + 1
      BY <3>1, <1>1, <1>3, <1>5, <1>6 DEF Formed
    <3>2. CASE k \in 1 .. Len(m.requests)
      <4>1. /\ m.requests[k].id \in 1 .. (m.next - 1) /\ m.requests[k].side \in Sides
            /\ m.requests[k].type = "NEW" => m.order[m.requests[k].side].id >= 1
            /\ n.requests[k] = m.requests[k] /\ m.next >= 1
        BY <3>2, <1>6 DEF Formed, Requests
      <4>2. m.requests[k].id \in 1 .. (n.next - 1)
        BY <4>1, <1>1, <1>3
      <4>3. m.requests[k].type = "NEW" => n.order[m.requests[k].side].id >= 1
        BY <4>1, <1>1, <1>5
      <4> QED BY <4>1, <4>2, <4>3
    <3> QED BY <3>1, <3>2, <1>6
  <2>4. \A i \in 1 .. Len(responses) :
       responses[i].type = "ACCEPTED" => n.order[responses[i].side].id >= 1
    <3> SUFFICES ASSUME NEW i \in 1 .. Len(responses), responses[i].type = "ACCEPTED"
        PROVE  n.order[responses[i].side].id >= 1
      OBVIOUS
    <3>1. responses[i].side \in Sides /\ m.order[responses[i].side].id >= 1
      BY DEF Formed, Types, Own
    <3>2. slot.id >= 1
      BY DEF Formed
    <3> QED BY <3>1, <3>2, <1>5
  <2> QED BY <1>4, <2>1, <2>2, <2>3, <2>4 DEF Formed
<1>8. ASSUME Tracked(m), NEW loss \in BOOLEAN, CheckPreTradeRisk(side, loss)
      PROVE  Tracked(n)
  <2>1. \A i \in 1 .. Len(responses) :
          Own(responses[i]) => responses[i].side \in Sides /\ responses[i].side # side
    BY <1>8 DEF Types, Tracked, AnswersFit
  <2>2. \A k \in Ids : open[k].side \in Sides /\ (open[k].left > 0 => open[k].side # side)
    BY <1>8 DEF Types, Tracked, OpenFits
  <2>3. \A k \in 1 .. Len(m.requests) :
          m.requests[k].type = "NEW" => m.requests[k].side # side
    BY <1>8 DEF Tracked, RequestsFresh, Active
  <2>4. AnswersFit(n)
    BY <1>8, <1>5, <2>1 DEF Tracked, AnswersFit
  <2>5. OpenFits(n)
    BY <1>8, <1>5, <2>2 DEF Tracked, OpenFits
  <2>6. RequestsFresh(n)
    <3> SUFFICES ASSUME NEW k \in 1 .. Len(n.requests), n.requests[k].type = "NEW"
        PROVE  /\ n.requests[k].id = n.order[n.requests[k].side].id
               /\ n.order[n.requests[k].side].state = "PENDING_NEW"
               /\ n.order[n.requests[k].side].qty = Clip
               /\ \A j \in 1 .. Len(n.requests) :
                    n.requests[j].type = "NEW" /\ n.requests[j].side = n.requests[k].side
                      => j = k
               /\ \A i \in 1 .. Len(responses) :
                    Own(responses[i]) => responses[i].side # n.requests[k].side
               /\ \A i \in Ids :
                    open[i].left > 0 => open[i].side # n.requests[k].side
      BY DEF RequestsFresh
    <3>1. CASE k = Len(m.requests) + 1
      BY <3>1, <1>5, <1>6, <2>1, <2>2, <2>3
    <3>2. CASE k \in 1 .. Len(m.requests)
      <4>1. /\ n.requests[k] = m.requests[k] /\ m.requests[k].type = "NEW"
            /\ m.requests[k].side \in Sides \ {side}
        BY <3>2, <1>6, <2>3 DEF Requests
      <4>2. n.order[m.requests[k].side] = m.order[m.requests[k].side]
        BY <4>1, <1>5
      <4>3. ASSUME NEW j \in 1 .. Len(n.requests), n.requests[j].type = "NEW",
                   n.requests[j].side = m.requests[k].side
            PROVE  j = k
        <5>1. j \in 1 .. Len(m.requests)
          BY <4>1, <4>3, <1>6
        <5> QED BY <5>1, <4>1, <4>3, <3>2, <1>6, <1>8 DEF Tracked, RequestsFresh
      <4> QED BY <3>2, <4>1, <4>2, <4>3, <1>8 DEF Tracked, RequestsFresh
    <3> QED BY <3>1, <3>2, <1>6
  <2>7. Limited(n)
    <3>1. ExposureOf(n.order[side]) = Clip
      BY <1>5 DEF ExposureOf, Active
    <3>2. \A s \in Sides : s # side => ExposureOf(n.order[s]) = ExposureOf(m.order[s])
      BY <1>5
    <3>3. Limited(m) /\ position \in Int
      BY <1>8 DEF Tracked, Types
    <3>4. /\ position + SideToValue(side) * Clip <= MaxPosition
          /\ -(position + SideToValue(side) * Clip) <= MaxPosition
      BY <1>8 DEF CheckPreTradeRisk
    <3>5. CASE side = "BUY"
      BY <3>1, <3>2, <3>3, <3>4, <3>5 DEF Limited, SideToValue, Sides
    <3>6. CASE side = "SELL"
      BY <3>1, <3>2, <3>3, <3>4, <3>6 DEF Limited, SideToValue, Sides
    <3> QED BY <3>5, <3>6 DEF Sides
  <2> QED BY <2>4, <2>5, <2>6, <2>7 DEF Tracked
<1> QED BY <1>3, <1>7, <1>8 DEF n

\* A call of cancelOrder keeps it when the order is live.
LEMMA CancelOrderKeeps ==
  ASSUME Types, NEW m, Formed(m), NEW side \in Sides,
         m.order[side].state = "LIVE"
  PROVE  LET n == CancelOrder(m, side) IN
         /\ Formed(n) /\ n.next = m.next
         /\ Tracked(m) => Tracked(n)
<1> USE TradeEngineAssumption
<1> DEFINE n == CancelOrder(m, side)
           req == [type |-> "CANCEL", id |-> m.order[side].id, side |-> side]
<1>1. /\ m.order \in [Sides -> Slots] /\ m.next \in Nat
      /\ m.requests \in Seq(Requests)
  BY DEF Formed, Managers
<1>2. req \in Requests
  BY <1>1 DEF Slots, Requests
<1>3. /\ n.order = [m.order EXCEPT ![side].state = "PENDING_CANCEL"]
      /\ n.next = m.next /\ n.requests = Append(m.requests, req)
  BY DEF CancelOrder, Formed, Managers
<1>a. [m.order[side] EXCEPT !.state = "PENDING_CANCEL"] \in Slots
  BY <1>1 DEF Slots
<1>b. n.order \in [Sides -> Slots]
  BY <1>1, <1>3, <1>a
<1>4. n \in Managers
  <2>2. n.requests \in Seq(Requests)
    BY <1>1, <1>2, <1>3, AppendFacts
  <2> QED BY <1>1, <1>a, <2>2, <1>3 DEF CancelOrder, Formed, Managers
<1>5. /\ n.order[side].state = "PENDING_CANCEL"
      /\ n.order[side].id = m.order[side].id
      /\ n.order[side].qty = m.order[side].qty
      /\ \A s \in Sides : s # side => n.order[s] = m.order[s]
  BY <1>1, <1>3 DEF Slots
<1>6. /\ Len(m.requests) \in Nat /\ Len(n.requests) = Len(m.requests) + 1
      /\ \A i \in 1 .. Len(m.requests) :
           n.requests[i] = m.requests[i] /\ m.requests[i] \in Requests
      /\ n.requests[Len(m.requests) + 1] = req
  <2>1. \A i \in 1 .. Len(m.requests) : m.requests[i] \in Requests
    BY <1>1, ElementOfSeq
  <2> QED BY <1>1, <1>2, <1>3, <2>1, AppendFacts
<1> HIDE DEF n
<1>7. Formed(n)
  <2>1. n.next \in 1 .. (MaxOrders + 1)
    BY <1>3 DEF Formed
  <2>2. \A s \in Sides : /\ n.order[s].id < n.next
                         /\ Active(n.order[s]) => n.order[s].id >= 1
    BY <1>1, <1>3, <1>5 DEF Formed, Active
  <2>3. \A k \in 1 .. Len(n.requests) :
       /\ n.requests[k].id \in 1 .. (n.next - 1)
       /\ n.requests[k].type = "NEW" => n.order[n.requests[k].side].id >= 1
    <3> TAKE k \in 1 .. Len(n.requests)
    <3>1. CASE k = Len(m.requests) + 1
      <4>1. m.order[side].id \in Nat /\ m.order[side].id >= 1 /\ m.order[side].id < m.next
        BY <1>1 DEF Formed, Active, Slots
      <4> QED BY <3>1, <4>1, <1>1, <1>3, <1>6
    <3>2. CASE k \in 1 .. Len(m.requests)
      <4>1. /\ m.requests[k].id \in 1 .. (m.next - 1) /\ m.requests[k].side \in Sides
            /\ m.requests[k].type = "NEW" => m.order[m.requests[k].side].id >= 1
            /\ n.requests[k] = m.requests[k]
        BY <3>2, <1>6 DEF Formed, Requests
      <4> QED BY <4>1, <1>3, <1>5
    <3> QED BY <3>1, <3>2, <1>6
  <2>4. \A i \in 1 .. Len(responses) :
       responses[i].type = "ACCEPTED" => n.order[responses[i].side].id >= 1
    BY <1>1, <1>5 DEF Formed, Types, Own
  <2> QED BY <1>4, <2>1, <2>2, <2>3, <2>4 DEF Formed
<1>8. ASSUME Tracked(m)
      PROVE  Tracked(n)
  <2>1. \A i \in 1 .. Len(responses) : Own(responses[i]) => responses[i].side \in Sides
    BY DEF Types
  <2>2. \A k \in Ids : open[k].side \in Sides
    BY DEF Types
  <2>3. \A k \in 1 .. Len(m.requests) :
          m.requests[k].type = "NEW" => m.requests[k].side # side
    BY <1>8 DEF Tracked, RequestsFresh
  <2>4. AnswersFit(n)
    BY <1>8, <1>5, <2>1 DEF Tracked, AnswersFit, Active
  <2>5. OpenFits(n)
    BY <1>8, <1>5, <2>2 DEF Tracked, OpenFits, Active
  <2>6. RequestsFresh(n)
    <3>1. \A k \in 1 .. Len(n.requests) : n.requests[k].type = "NEW" =>
            /\ k \in 1 .. Len(m.requests) /\ n.requests[k] = m.requests[k]
            /\ n.order[m.requests[k].side] = m.order[m.requests[k].side]
      BY <1>5, <1>6, <2>3 DEF Requests
    <3>2. \A k \in 1 .. Len(m.requests) : k \in 1 .. Len(n.requests)
      BY <1>6
    <3>3. ASSUME NEW k \in 1 .. Len(n.requests), n.requests[k].type = "NEW"
          PROVE  /\ n.requests[k].id = n.order[n.requests[k].side].id
                 /\ n.order[n.requests[k].side].state = "PENDING_NEW"
                 /\ n.order[n.requests[k].side].qty = Clip
                 /\ \A i \in 1 .. Len(responses) :
                      Own(responses[i]) => responses[i].side # n.requests[k].side
                 /\ \A i \in Ids :
                      open[i].left > 0 => open[i].side # n.requests[k].side
      <4>1. /\ k \in 1 .. Len(m.requests) /\ m.requests[k].type = "NEW"
            /\ n.requests[k] = m.requests[k]
            /\ n.order[m.requests[k].side] = m.order[m.requests[k].side]
        BY <3>1, <3>3
      <4>2. /\ m.requests[k].id = m.order[m.requests[k].side].id
            /\ m.order[m.requests[k].side].state = "PENDING_NEW"
            /\ m.order[m.requests[k].side].qty = Clip
        BY <4>1, <1>8 DEF Tracked, RequestsFresh
      <4>3. /\ \A i \in 1 .. Len(responses) :
                 Own(responses[i]) => responses[i].side # m.requests[k].side
            /\ \A i \in Ids :
                 open[i].left > 0 => open[i].side # m.requests[k].side
        BY <4>1, <1>8 DEF Tracked, RequestsFresh
      <4> QED BY <4>1, <4>2, <4>3
    <3>4. ASSUME NEW k \in 1 .. Len(n.requests), n.requests[k].type = "NEW",
                 NEW j \in 1 .. Len(n.requests), n.requests[j].type = "NEW",
                 n.requests[j].side = n.requests[k].side
          PROVE  j = k
      BY <3>1, <3>4, <1>8 DEF Tracked, RequestsFresh
    <3> QED BY <3>3, <3>4 DEF RequestsFresh
  <2>7. Limited(n)
    BY <1>8, <1>5 DEF Tracked, Limited, ExposureOf, Active, Sides
  <2> QED BY <2>4, <2>5, <2>6, <2>7 DEF Tracked
<1> QED BY <1>3, <1>7, <1>8 DEF n

\* moveOrder does one of the two or nothing.
LEMMA MoveOrderKeeps ==
  ASSUME Types, NEW m, Formed(m), m.next <= MaxOrders,
         NEW side \in Sides, NEW price \in Prices \cup {PriceInvalid},
         NEW loss \in BOOLEAN
  PROVE  LET n == MoveOrder(m, side, price, loss) IN
         /\ Formed(n) /\ n.next \in {m.next, m.next + 1}
         /\ Tracked(m) => Tracked(n)
<1>1. CASE m.order[side].state = "LIVE"
  BY <1>1, CancelOrderKeeps DEF MoveOrder
<1>2. CASE ~Active(m.order[side])
  BY <1>2, NewOrderKeeps DEF MoveOrder, Active
<1>3. CASE m.order[side].state \in {"PENDING_NEW", "PENDING_CANCEL"}
  BY <1>3 DEF MoveOrder
<1> QED BY <1>1, <1>2, <1>3 DEF Active

-----------------------------------------------------------------------------
LEMMA InitIInv == Init => IInv
<1> SUFFICES ASSUME Init PROVE IInv
  OBVIOUS
<1> USE TradeEngineAssumption
<1> DEFINE ord == [state |-> "INVALID", id |-> 0, price |-> PriceInvalid, qty |-> 0]
<1>1. /\ om = [order |-> [s \in Sides |-> ord], next |-> 1, requests |-> <<>>]
      /\ responses = <<>> /\ Len(responses) = 0 /\ Len(om.requests) = 0
      /\ position = 0 /\ traded = 0 /\ taking = 0 /\ down = FALSE /\ others = 0
      /\ open = [k \in Ids |-> [side |-> "BUY", left |-> 0]]
  BY DEF Init
<1>2. ord \in Slots
  BY DEF Slots
<1>3. om \in Managers
  BY <1>1, <1>2 DEF Managers
<1>4. \A s \in Sides : om.order[s] = ord
  BY <1>1
<1>5. Formed(om)
  BY <1>1, <1>3, <1>4 DEF Formed, Active
<1>6. Types
  <2>1. [side |-> "BUY", left |-> 0] \in [side : Sides, left : 0 .. Clip]
    BY DEF Sides
  <2>2. open \in [Ids -> [side : Sides, left : 0 .. Clip]]
    BY <1>1, <2>1
  <2>3. down \in BOOLEAN
    BY <1>1
  <2>4. responses \in Seq(AnswerSet)
    BY <1>1
  <2> QED BY <1>1, <1>5, <2>2, <2>3, <2>4 DEF Types
<1>7. AnswersFit(om) /\ OpenFits(om) /\ RequestsFresh(om) /\ AnswersShrink
  BY <1>1 DEF AnswersFit, OpenFits, RequestsFresh, AnswersShrink
<1>8. Limited(om)
  BY <1>1, <1>4 DEF Limited, ExposureOf, Active, Sides
<1> QED BY <1>6, <1>7, <1>8 DEF IInv, Tracked

\* A strategy's move: two calls of moveOrder, each of which keeps the invariant.
LEMMA MoveOrdersKeeps == IInv /\ MoveOrders => IInv'
<1> SUFFICES ASSUME IInv, MoveOrders PROVE IInv'
  OBVIOUS
<1> USE TradeEngineAssumption
<1>1. PICK price \in Prices \cup {PriceInvalid}, loss \in BOOLEAN :
        om' = MoveOrder(MoveOrder(om, "BUY", price, loss), "SELL", price, loss)
  BY DEF MoveOrders
<1> DEFINE m == MoveOrder(om, "BUY", price, loss)
<1>2. Types /\ Formed(om) /\ om.next <= MaxOrders /\ om.next + 1 <= MaxOrders
  BY DEF IInv, Types, MoveOrders, Formed
<1>3. /\ Formed(m) /\ m.next \in {om.next, om.next + 1}
      /\ Tracked(om) => Tracked(m)
  BY <1>2, MoveOrderKeeps DEF Sides
<1>4. m.next <= MaxOrders
  BY <1>2, <1>3
<1> HIDE DEF m
<1>5. Formed(om') /\ (Tracked(m) => Tracked(om'))
  BY <1>1, <1>2, <1>3, <1>4, MoveOrderKeeps DEF Sides, m
<1>6. /\ responses' = responses /\ position' = position /\ open' = open
      /\ taking' = taking /\ down' = down /\ others' = others /\ traded' = traded
  BY DEF MoveOrders, exchange
<1>7. Types'
  BY <1>2, <1>5, <1>6 DEF Types, Formed, Own
<1>8. Tracked(om') => Tracked(om)'
  BY <1>6, SMTT(20)
     DEF Tracked, AnswersFit, OpenFits, RequestsFresh, Limited, Own, Before, After,
         ExposureOf, Active
<1>9. AnswersShrink => AnswersShrink'
  BY <1>6 DEF AnswersShrink, Own, Before, After
<1> QED BY <1>3, <1>5, <1>6, <1>7, <1>8, <1>9 DEF IInv

\* The answers under way after one was sent.
LEMMA AnswerAppended ==
  ASSUME Types, NEW r \in AnswerSet, responses' = Append(responses, r)
  PROVE  /\ responses' \in Seq(AnswerSet)
         /\ Len(responses) \in Nat /\ Len(responses') = Len(responses) + 1
         /\ \A i \in 1 .. Len(responses) :
              responses'[i] = responses[i] /\ responses[i] \in AnswerSet
         /\ responses'[Len(responses) + 1] = r
         /\ \A i \in 1 .. Len(responses') :
              i \in 1 .. Len(responses) \/ i = Len(responses) + 1
<1>1. responses \in Seq(AnswerSet)
  BY DEF Types
<1>2. \A i \in 1 .. Len(responses) : responses[i] \in AnswerSet
  BY <1>1, ElementOfSeq
<1> QED BY <1>1, <1>2, AppendFacts

\* An answer was sent: what is left to show of the types.
LEMMA AppendTypes ==
  ASSUME Types, Formed(om'), NEW r \in AnswerSet, responses' = Append(responses, r),
         Own(r) => r.side \in Sides,
         r.type = "ACCEPTED" => om'.order[r.side].id >= 1,
         position' \in Int, traded' \in Int, taking' \in Ids \cup {0},
         down' \in BOOLEAN, others' \in 0 .. MaxOthers,
         open' \in [Ids -> [side : Sides, left : 0 .. Clip]]
  PROVE  Types'
<1>1. /\ responses' \in Seq(AnswerSet)
      /\ Len(responses) \in Nat /\ Len(responses') = Len(responses) + 1
      /\ \A i \in 1 .. Len(responses) :
           responses'[i] = responses[i] /\ responses[i] \in AnswerSet
      /\ responses'[Len(responses) + 1] = r
      /\ \A i \in 1 .. Len(responses') :
           i \in 1 .. Len(responses) \/ i = Len(responses) + 1
  BY AnswerAppended
<1>2. Formed(om)'
  BY <1>1 DEF Formed, Active
<1>3. \A i \in 1 .. Len(responses') : Own(responses'[i]) => responses'[i].side \in Sides
  BY <1>1 DEF Types
<1> QED BY <1>1, <1>2, <1>3 DEF Types, Own

\* What a request leaves when the exchange has taken it.
LEMMA TakeKeeps ==
  ASSUME Types, om.requests # <<>>, TakeRequest
  PROVE  /\ Formed(om') /\ om'.order = om.order /\ om'.next = om.next
         /\ 1 \in 1 .. Len(om.requests) /\ Head(om.requests) = om.requests[1]
         /\ om.requests[1] \in Requests
         /\ \A k \in 1 .. Len(om'.requests) :
              k + 1 \in 1 .. Len(om.requests) /\ om'.requests[k] = om.requests[k + 1]
         /\ Tracked(om) => Tracked(om')
<1>1. om \in Managers /\ om.requests \in Seq(Requests)
  BY DEF Types, Formed, Managers
<1>2. /\ om'.order = om.order /\ om'.next = om.next
      /\ om'.requests = Tail(om.requests)
  BY <1>1 DEF TakeRequest, Managers
<1>3. /\ Tail(om.requests) \in Seq(Requests)
      /\ Len(om.requests) \in Nat /\ Len(om.requests) >= 1
      /\ Len(Tail(om.requests)) = Len(om.requests) - 1
      /\ Head(om.requests) = om.requests[1] /\ Head(om.requests) \in Requests
      /\ \A i \in 1 .. Len(Tail(om.requests)) :
           Tail(om.requests)[i] = om.requests[i + 1]
  BY <1>1, TailFacts
<1>4. om' \in Managers
  BY <1>1, <1>3 DEF TakeRequest, Managers
<1>5. \A k \in 1 .. Len(om'.requests) :
        k + 1 \in 1 .. Len(om.requests) /\ om'.requests[k] = om.requests[k + 1]
  BY <1>2, <1>3
<1>6. Formed(om')
  BY <1>2, <1>4, <1>5 DEF Types, Formed
<1>7. ASSUME Tracked(om) PROVE Tracked(om')
  <2>1. AnswersFit(om') /\ OpenFits(om') /\ Limited(om')
    BY <1>2, <1>7 DEF Tracked, AnswersFit, OpenFits, Limited
  <2>2. RequestsFresh(om')
    <3> SUFFICES ASSUME NEW k \in 1 .. Len(om'.requests), om'.requests[k].type = "NEW"
        PROVE  /\ om'.requests[k].id = om.order[om'.requests[k].side].id
               /\ om.order[om'.requests[k].side].state = "PENDING_NEW"
               /\ om.order[om'.requests[k].side].qty = Clip
               /\ \A j \in 1 .. Len(om'.requests) :
                    om'.requests[j].type = "NEW" /\ om'.requests[j].side = om'.requests[k].side
                      => j = k
               /\ \A i \in 1 .. Len(responses) :
                    Own(responses[i]) => responses[i].side # om'.requests[k].side
               /\ \A i \in Ids :
                    open[i].left > 0 => open[i].side # om'.requests[k].side
      BY <1>2 DEF RequestsFresh
    <3> DEFINE p == k + 1
    <3>1. p \in 1 .. Len(om.requests) /\ om'.requests[k] = om.requests[p]
      BY <1>5
    <3>2. /\ om.requests[p].id = om.order[om.requests[p].side].id
          /\ om.order[om.requests[p].side].state = "PENDING_NEW"
          /\ om.order[om.requests[p].side].qty = Clip
          /\ \A j \in 1 .. Len(om.requests) :
               om.requests[j].type = "NEW" /\ om.requests[j].side = om.requests[p].side
                 => j = p
          /\ \A i \in 1 .. Len(responses) :
               Own(responses[i]) => responses[i].side # om.requests[p].side
          /\ \A i \in Ids :
               open[i].left > 0 => open[i].side # om.requests[p].side
      <4> HIDE DEF p
      <4> QED BY <3>1, <1>7 DEF Tracked, RequestsFresh
    <3>3. \A j \in 1 .. Len(om'.requests) :
            om'.requests[j].type = "NEW" /\ om'.requests[j].side = om'.requests[k].side
              => j = k
      <4> SUFFICES ASSUME NEW j \in 1 .. Len(om'.requests), om'.requests[j].type = "NEW",
                          om'.requests[j].side = om'.requests[k].side
          PROVE  j = k
        OBVIOUS
      <4>1. j + 1 \in 1 .. Len(om.requests) /\ om'.requests[j] = om.requests[j + 1]
        BY <1>5
      <4>2. j + 1 = p
        BY <4>1, <3>1, <3>2
      <4> QED BY <4>2
    <3> QED BY <3>1, <3>2, <3>3
  <2> QED BY <2>1, <2>2 DEF Tracked
<1> QED BY <1>2, <1>3, <1>5, <1>6, <1>7

\* An execution or cancellation at the exchange that is reported to this engine.
LEMMA ReportKeeps ==
  ASSUME Types, Formed(om'), NEW k \in Ids, NEW r \in AnswerSet, NEW v \in 0 .. Clip,
         open[k].left > 0, v <= open[k].left, v <= After(r),
         r.type \in {"FILLED", "CANCELED"}, r.side = open[k].side,
         Before(r) = open[k].left,
         open' = [open EXCEPT ![k].left = v], responses' = Append(responses, r),
         position' = position, traded' \in Int, others' = others,
         taking' \in Ids \cup {0}, down' \in BOOLEAN
  PROVE  Types' /\ (Tracked(om') /\ AnswersShrink => Tracked(om)' /\ AnswersShrink')
<1> USE TradeEngineAssumption
<1>1. open[k].left \in 0 .. Clip /\ open[k].side \in Sides
  BY DEF Types
<1>2. Own(r) /\ r.type # "ACCEPTED" /\ r.side \in Sides /\ Before(r) \in Nat
  BY <1>1 DEF Own
<1>3. /\ Len(responses) \in Nat /\ Len(responses') = Len(responses) + 1
      /\ \A i \in 1 .. Len(responses) :
           responses'[i] = responses[i] /\ responses[i] \in AnswerSet
      /\ responses'[Len(responses) + 1] = r
      /\ \A i \in 1 .. Len(responses') :
           i \in 1 .. Len(responses) \/ i = Len(responses) + 1
  BY AnswerAppended
<1>4. /\ open' \in [Ids -> [side : Sides, left : 0 .. Clip]]
      /\ open'[k].left = v /\ open'[k].side = open[k].side
      /\ \A j \in Ids : j # k => open'[j] = open[j]
  BY <1>1 DEF Types
<1>5. Types'
  <2>1. position' \in Int /\ others' \in 0 .. MaxOthers
    BY DEF Types
  <2> QED BY <1>2, <1>4, <2>1, AppendTypes
<1>6. ASSUME Tracked(om'), AnswersShrink
      PROVE  Tracked(om)' /\ AnswersShrink'
  <2>1. /\ k = om'.order[r.side].id /\ Active(om'.order[r.side])
        /\ Before(r) <= om'.order[r.side].qty
        /\ \A i \in 1 .. Len(responses) :
             Own(responses[i]) /\ responses[i].side = r.side =>
               Before(r) <= After(responses[i])
    BY <1>1, <1>2, <1>6 DEF Tracked, OpenFits
  <2>2. AnswersFit(om)'
    <3> SUFFICES ASSUME NEW i \in 1 .. Len(responses'), Own(responses'[i])
        PROVE  /\ Active(om'.order[responses'[i].side])
               /\ Before(responses'[i]) >= 1
               /\ Before(responses'[i]) <= om'.order[responses'[i].side].qty
               /\ responses'[i].type = "ACCEPTED" =>
                    om'.order[responses'[i].side].state = "PENDING_NEW"
      BY DEF AnswersFit, Own, Before, Active
    <3>1. CASE i = Len(responses) + 1
      <4>1. responses'[i] = r
        BY <3>1, <1>3
      <4>2. Before(r) >= 1 /\ r.type # "ACCEPTED"
        BY <1>1, <1>2
      <4> QED BY <4>1, <4>2, <2>1, Zenon
    <3>2. CASE i \in 1 .. Len(responses)
      BY <3>2, <1>3, <1>6 DEF Tracked, AnswersFit
    <3> QED BY <3>1, <3>2, <1>3
  <2>3. OpenFits(om)'
    <3> SUFFICES ASSUME NEW j \in Ids, open'[j].left > 0
        PROVE  /\ j = om'.order[open'[j].side].id
               /\ Active(om'.order[open'[j].side])
               /\ open'[j].left <= om'.order[open'[j].side].qty
               /\ \A i \in 1 .. Len(responses') :
                    Own(responses'[i]) /\ responses'[i].side = open'[j].side =>
                      open'[j].left <= After(responses'[i])
      BY DEF OpenFits, Own, After, Active
    <3>1. CASE j = k
      <4>1. om'.order[r.side].qty \in Nat
        BY <1>1, <1>2 DEF Formed, Managers, Slots
      <4>2. \A i \in 1 .. Len(responses) : After(responses[i]) \in Nat
        BY <1>3 DEF After, AnswerSet
      <4>3. /\ open'[j].left = v /\ open'[j].side = r.side
            /\ v <= Before(r) /\ v <= After(r) /\ v \in Nat
        <5>1. open'[j].left = v /\ open'[j].side = r.side
          BY <3>1, <1>4
        <5>2. v <= Before(r) /\ v <= After(r) /\ v \in Nat
          OBVIOUS
        <5> QED BY <5>1, <5>2
      <4>4. open'[j].left <= om'.order[r.side].qty
        <5>1. Before(r) <= om'.order[r.side].qty
          BY <2>1, Zenon
        <5> QED BY <5>1, <4>1, <4>3, <1>2
      <4>5. ASSUME NEW i \in 1 .. Len(responses'), Own(responses'[i]),
                   responses'[i].side = r.side
            PROVE  open'[j].left <= After(responses'[i])
        <5>1. CASE i = Len(responses) + 1
          BY <5>1, <4>3, <1>3
        <5>2. CASE i \in 1 .. Len(responses)
          <6>1. Before(r) <= After(responses[i]) /\ After(responses[i]) \in Nat
            BY <5>2, <4>2, <4>5, <2>1, <1>3, Zenon
          <6> QED BY <6>1, <4>3, <5>2, <1>2, <1>3
        <5> QED BY <5>1, <5>2, <1>3
      <4> QED BY <3>1, <4>3, <4>4, <4>5, <2>1, Zenon
    <3>2. CASE j # k
      <4>1. /\ open'[j] = open[j] /\ open[j].left > 0
            /\ j = om'.order[open[j].side].id
            /\ Active(om'.order[open[j].side])
            /\ open[j].left <= om'.order[open[j].side].qty
            /\ \A i \in 1 .. Len(responses) :
                 Own(responses[i]) /\ responses[i].side = open[j].side =>
                   open[j].left <= After(responses[i])
        BY <3>2, <1>4, <1>6 DEF Tracked, OpenFits
      <4>2. open[j].side # r.side
        BY <3>2, <4>1, <2>1, Zenon
      <4> QED BY <4>1, <4>2, <1>3
    <3> QED BY <3>1, <3>2
  <2>4. RequestsFresh(om)'
    <3>1. \A q \in 1 .. Len(om'.requests) :
            om'.requests[q].type = "NEW" => om'.requests[q].side # r.side
      BY <1>1, <1>2, <1>6 DEF Tracked, RequestsFresh
    <3>2. \A j \in Ids : open'[j].left > 0 => open'[j].side = r.side \/ open'[j] = open[j]
      BY <1>2, <1>4
    <3> SUFFICES ASSUME NEW q \in 1 .. Len(om'.requests), om'.requests[q].type = "NEW"
        PROVE  /\ \A i \in 1 .. Len(responses') :
                    Own(responses'[i]) => responses'[i].side # om'.requests[q].side
               /\ \A j \in Ids : open'[j].left > 0 => open'[j].side # om'.requests[q].side
      BY <1>6 DEF Tracked, RequestsFresh, Own
    <3>3. /\ \A i \in 1 .. Len(responses) :
               Own(responses[i]) => responses[i].side # om'.requests[q].side
          /\ \A j \in Ids : open[j].left > 0 => open[j].side # om'.requests[q].side
      BY <1>6 DEF Tracked, RequestsFresh
    <3>4. \A i \in 1 .. Len(responses') :
            Own(responses'[i]) => responses'[i].side # om'.requests[q].side
      BY <3>1, <3>3, <1>3
    <3>5. \A j \in Ids : open'[j].left > 0 => open'[j].side # om'.requests[q].side
      BY <3>1, <3>2, <3>3
    <3> QED BY <3>4, <3>5
  <2>5. Limited(om)'
    BY <1>6 DEF Tracked, Limited, ExposureOf, Active
  <2>6. AnswersShrink'
    <3> SUFFICES ASSUME NEW i \in 1 .. Len(responses'), NEW j \in 1 .. Len(responses'),
                        i < j, Own(responses'[i]), Own(responses'[j]),
                        responses'[i].side = responses'[j].side
        PROVE  responses'[j].type # "ACCEPTED" /\ Before(responses'[j]) <= After(responses'[i])
      BY DEF AnswersShrink, Own, Before, After
    <3>1. CASE j = Len(responses) + 1
      <4>1. i \in 1 .. Len(responses)
        BY <3>1, <1>3
      <4>2. responses'[j] = r /\ responses'[i] = responses[i]
        BY <3>1, <4>1, <1>3
      <4> QED BY <4>1, <4>2, <1>2, <2>1, Zenon
    <3>2. CASE j \in 1 .. Len(responses)
      BY <3>2, <1>3, <1>6, SMTT(40) DEF AnswersShrink
    <3> QED BY <3>1, <3>2, <1>3
  <2> QED BY <2>2, <2>3, <2>4, <2>5, <2>6 DEF Tracked
<1> QED BY <1>5, <1>6

-----------------------------------------------------------------------------
(* The exchange's steps *)

\* A fill of either side of a trade, reported to this engine.
LEMMA FillKeeps ==
  ASSUME IInv, NEW k \in Ids, NEW n \in 1 .. open[k].left, Trade(k, n),
         responses' = Append(responses, Filled(k, n)), om' = om,
         position' = position, others' = others,
         taking' \in Ids \cup {0}, down' \in BOOLEAN
  PROVE  IInv'
<1> USE TradeEngineAssumption
<1> DEFINE r == Filled(k, n)
           v == open[k].left - n
<1>1. /\ open[k].left \in 0 .. Clip /\ open[k].left > 0 /\ open[k].side \in Sides
      /\ n \in 1 .. Clip /\ v \in 0 .. Clip /\ v <= open[k].left
  BY DEF IInv, Types
<1>2. /\ r \in AnswerSet /\ r.type = "FILLED" /\ r.side = open[k].side
      /\ Before(r) = open[k].left /\ After(r) = v
  BY <1>1 DEF Filled, Answer, AnswerSet, Before, After, Ids
<1>3. open' = [open EXCEPT ![k].left = v] /\ traded' \in Int
  BY <1>1 DEF Trade, SideToValue, IInv, Types
<1>4. responses' = Append(responses, r)
  OBVIOUS
<1>5. Types /\ Formed(om')
  BY DEF IInv, Types
<1>6. v <= After(r) /\ r.type \in {"FILLED", "CANCELED"}
  BY <1>1, <1>2
<1> HIDE DEF r, v
<1>7. Types' /\ (Tracked(om') /\ AnswersShrink => Tracked(om)' /\ AnswersShrink')
  BY <1>1, <1>2, <1>3, <1>4, <1>5, <1>6, ReportKeeps
<1> QED BY <1>7 DEF IInv

LEMMA MatchKeeps == IInv /\ ExchangeMatch => IInv'
<1> SUFFICES ASSUME IInv, ExchangeMatch PROVE IInv'
  OBVIOUS
<1>1. taking \in Ids /\ taking' \in Ids \cup {0} /\ down' \in BOOLEAN
  BY DEF IInv, Types, ExchangeMatch
<1>2. PICK n \in 1 .. open[taking].left :
        Trade(taking, n) /\ responses' = Append(responses, Filled(taking, n))
  BY DEF ExchangeMatch
<1> QED BY <1>1, <1>2, FillKeeps DEF ExchangeMatch

LEMMA RestKeeps == IInv /\ ExchangeRest => IInv'
  BY SMTT(20)
     DEF IInv, ExchangeRest, Types, Tracked, Formed, AnswersFit, OpenFits, RequestsFresh,
         Limited, AnswersShrink, Own, Before, After, Active, ExposureOf

\* A fill of a resting order, which only the client with the ticker's number
\* hears of.
LEMMA TradeKeeps == IInv /\ ExchangeTrade => IInv'
<1> SUFFICES ASSUME IInv, ExchangeTrade PROVE IInv'
  OBVIOUS
<1> USE TradeEngineAssumption
<1>1. PICK k \in Ids \ {taking} : \E n \in 1 .. open[k].left :
        /\ Trade(k, n)
        /\ responses' = IF client = TickerId THEN Append(responses, Filled(k, n))
                        ELSE responses
  BY DEF ExchangeTrade
<1>2. PICK n \in 1 .. open[k].left :
        /\ Trade(k, n)
        /\ responses' = IF client = TickerId THEN Append(responses, Filled(k, n))
                        ELSE responses
  BY <1>1
<1>3. /\ om' = om /\ position' = position /\ others' = others
      /\ taking' = taking /\ down' = down
  BY DEF ExchangeTrade
<1>a. taking' \in Ids \cup {0} /\ down' \in BOOLEAN
  BY <1>3 DEF IInv, Types
<1>4. CASE client = TickerId
  BY <1>2, <1>3, <1>4, <1>a, FillKeeps
<1>5. CASE client # TickerId
  <2>1. /\ open[k].left \in 0 .. Clip /\ open[k].left > 0 /\ open[k].side \in Sides
        /\ open[k].left - n \in 0 .. Clip /\ n \in Nat \ {0}
    BY DEF IInv, Types
  <2>2. /\ open' \in [Ids -> [side : Sides, left : 0 .. Clip]]
        /\ open'[k].left = open[k].left - n /\ open'[k].side = open[k].side
        /\ \A j \in Ids : j # k => open'[j] = open[j]
    BY <1>2, <2>1 DEF IInv, Types, Trade
  <2>3. traded' \in Int
    BY <1>2, <2>1 DEF IInv, Types, Trade, SideToValue
  <2>4. responses' = responses
    BY <1>2, <1>5
  <2>5. Types'
    BY <1>3, <1>a, <2>2, <2>3, <2>4 DEF IInv, Types, Formed, Own, Active
  <2>6. \A j \in Ids : /\ open'[j].side = open[j].side /\ open'[j].left <= open[j].left
                       /\ open'[j].left > 0 => open[j].left > 0
    <3> TAKE j \in Ids
    <3>1. open[j].left \in Int
      BY DEF IInv, Types
    <3> QED BY <3>1, <2>1, <2>2
  <2>7. ASSUME Tracked(om), AnswersShrink
        PROVE  Tracked(om)' /\ AnswersShrink'
    <3>1. AnswersFit(om)' /\ Limited(om)' /\ AnswersShrink'
      BY <2>7, <1>3, <2>4 DEF Tracked, AnswersFit, Limited, AnswersShrink, Own, Before,
         After, Active, ExposureOf
    <3>2. RequestsFresh(om)'
      BY <2>7, <1>3, <2>4, <2>6 DEF Tracked, RequestsFresh, Own
    <3>3. OpenFits(om)'
      <4> SUFFICES ASSUME NEW j \in Ids, open'[j].left > 0
          PROVE  /\ j = om.order[open'[j].side].id
                 /\ Active(om.order[open'[j].side])
                 /\ open'[j].left <= om.order[open'[j].side].qty
                 /\ \A i \in 1 .. Len(responses) :
                      Own(responses[i]) /\ responses[i].side = open'[j].side =>
                        open'[j].left <= After(responses[i])
        BY <1>3, <2>4 DEF OpenFits, Own, After, Active
      <4>1. /\ j = om.order[open[j].side].id
            /\ Active(om.order[open[j].side])
            /\ open[j].left <= om.order[open[j].side].qty
            /\ \A i \in 1 .. Len(responses) :
                 Own(responses[i]) /\ responses[i].side = open[j].side =>
                   open[j].left <= After(responses[i])
        BY <2>6, <2>7 DEF Tracked, OpenFits
      <4>2. /\ om.order[open[j].side].qty \in Int
            /\ \A i \in 1 .. Len(responses) : After(responses[i]) \in Int
        <5>1. \A i \in 1 .. Len(responses) : responses[i] \in AnswerSet
          BY ElementOfSeq DEF IInv, Types
        <5>2. open[j].side \in Sides
          BY DEF IInv, Types
        <5>3. om.order[open[j].side] \in Slots
          BY <5>2 DEF IInv, Types, Formed, Managers
        <5> QED BY <5>1, <5>3 DEF Slots, AnswerSet, After
      <4>3. open'[j].side = open[j].side /\ open'[j].left <= open[j].left
        BY <2>6
      <4>4. open'[j].left \in Int /\ open[j].left \in Int
        BY <2>2 DEF IInv, Types
      <4> QED BY <4>1, <4>2, <4>3, <4>4
    <3> QED BY <3>1, <3>2, <3>3 DEF Tracked
  <2> QED BY <1>3, <2>5, <2>7 DEF IInv
<1> QED BY <1>4, <1>5

\* The acknowledgement of a new order, for which there was nothing before.
LEMMA AcceptKeeps == IInv /\ ExchangeAccept => IInv'
<1> SUFFICES ASSUME IInv, ExchangeAccept PROVE IInv'
  OBVIOUS
<1> USE TradeEngineAssumption
<1> DEFINE q == om.requests[1]
           r == Answer("ACCEPTED", q.id, q.side, 0, Clip)
<1>1. Types /\ om.requests # <<>> /\ TakeRequest
  BY DEF IInv, ExchangeAccept
<1>2. /\ Formed(om') /\ om'.order = om.order /\ om'.next = om.next
      /\ 1 \in 1 .. Len(om.requests) /\ Head(om.requests) = q
      /\ q \in Requests
      /\ \A k \in 1 .. Len(om'.requests) :
           k + 1 \in 1 .. Len(om.requests) /\ om'.requests[k] = om.requests[k + 1]
      /\ Tracked(om) => Tracked(om')
  BY <1>1, TakeKeeps
<1>3. /\ q.type = "NEW" /\ q.id \in Ids /\ q.side \in Sides /\ q.id \in Nat
      /\ om.order[q.side].id >= 1
  BY <1>1, <1>2 DEF ExchangeAccept, Types, Formed, Requests, Ids
<1>4. /\ r \in AnswerSet /\ Own(r) /\ r.type = "ACCEPTED" /\ r.side = q.side
      /\ Before(r) = Clip /\ After(r) = Clip
  BY <1>3 DEF Answer, AnswerSet, Own, Before, After
<1>5. /\ open' = [open EXCEPT ![q.id] = [side |-> q.side, left |-> Clip]]
      /\ taking' = q.id /\ responses' = Append(responses, r)
      /\ position' = position /\ down' = down /\ others' = others /\ traded' = traded
  BY <1>2 DEF ExchangeAccept
<1>6. /\ open' \in [Ids -> [side : Sides, left : 0 .. Clip]]
      /\ open'[q.id].left = Clip /\ open'[q.id].side = q.side
      /\ \A j \in Ids : j # q.id => open'[j] = open[j]
  BY <1>1, <1>3, <1>5 DEF Types
<1> HIDE DEF r
<1>7. /\ Len(responses) \in Nat /\ Len(responses') = Len(responses) + 1
      /\ \A i \in 1 .. Len(responses) :
           responses'[i] = responses[i] /\ responses[i] \in AnswerSet
      /\ responses'[Len(responses) + 1] = r
      /\ \A i \in 1 .. Len(responses') :
           i \in 1 .. Len(responses) \/ i = Len(responses) + 1
  BY <1>1, <1>4, <1>5, AnswerAppended
<1>8. Types'
  <2>1. /\ position' \in Int /\ traded' \in Int /\ taking' \in Ids \cup {0}
        /\ down' \in BOOLEAN /\ others' \in 0 .. MaxOthers
    BY <1>1, <1>3, <1>5 DEF Types
  <2>2. om'.order[r.side].id >= 1 /\ r.side \in Sides
    BY <1>2, <1>3, <1>4
  <2> HIDE DEF q
  <2> QED BY <1>1, <1>2, <1>4, <1>5, <1>6, <2>1, <2>2, AppendTypes
<1>9. ASSUME Tracked(om), AnswersShrink
      PROVE  Tracked(om)' /\ AnswersShrink'
  <2>1. /\ q.id = om'.order[q.side].id /\ om'.order[q.side].state = "PENDING_NEW"
        /\ om'.order[q.side].qty = Clip
        /\ \A j \in 1 .. Len(om.requests) :
             om.requests[j].type = "NEW" /\ om.requests[j].side = q.side => j = 1
        /\ \A i \in 1 .. Len(responses) : Own(responses[i]) => responses[i].side # q.side
        /\ \A i \in Ids : open[i].left > 0 => open[i].side # q.side
    BY <1>2, <1>3, <1>9 DEF Tracked, RequestsFresh
  <2>2. \A k \in 1 .. Len(om'.requests) :
          om'.requests[k].type = "NEW" => om'.requests[k].side # q.side
    <3> SUFFICES ASSUME NEW k \in 1 .. Len(om'.requests), om'.requests[k].type = "NEW",
                        om'.requests[k].side = q.side
        PROVE  FALSE
      OBVIOUS
    <3>1. k + 1 \in 1 .. Len(om.requests) /\ om'.requests[k] = om.requests[k + 1]
      BY <1>2
    <3>2. k + 1 = 1
      BY <2>1, <3>1
    <3> QED BY <3>2
  <2> HIDE DEF q
  <2>a. Tracked(om')
    BY <1>2, <1>9
  <2>3. AnswersFit(om)'
    <3> SUFFICES ASSUME NEW i \in 1 .. Len(responses'), Own(responses'[i])
        PROVE  /\ Active(om'.order[responses'[i].side])
               /\ Before(responses'[i]) >= 1
               /\ Before(responses'[i]) <= om'.order[responses'[i].side].qty
               /\ responses'[i].type = "ACCEPTED" =>
                    om'.order[responses'[i].side].state = "PENDING_NEW"
      BY DEF AnswersFit, Own, Before, Active
    <3>1. CASE i = Len(responses) + 1
      <4>1. responses'[i] = r
        BY <3>1, <1>7
      <4> QED BY <4>1, <1>4, <2>1 DEF Active
    <3>2. CASE i \in 1 .. Len(responses)
      BY <3>2, <1>7, <2>a DEF Tracked, AnswersFit
    <3> QED BY <3>1, <3>2, <1>7
  <2>4. OpenFits(om)'
    <3> SUFFICES ASSUME NEW j \in Ids, open'[j].left > 0
        PROVE  /\ j = om'.order[open'[j].side].id
               /\ Active(om'.order[open'[j].side])
               /\ open'[j].left <= om'.order[open'[j].side].qty
               /\ \A i \in 1 .. Len(responses') :
                    Own(responses'[i]) /\ responses'[i].side = open'[j].side =>
                      open'[j].left <= After(responses'[i])
      BY DEF OpenFits, Own, After, Active
    <3>1. CASE j = q.id
      <4>1. \A i \in 1 .. Len(responses') :
              Own(responses'[i]) /\ responses'[i].side = q.side => responses'[i] = r
        BY <1>7, <2>1
      <4> QED BY <3>1, <4>1, <1>4, <1>6, <2>1 DEF Active
    <3>2. CASE j # q.id
      <4>1. /\ open'[j] = open[j] /\ open[j].left > 0 /\ open[j].side # q.side
            /\ j = om'.order[open[j].side].id
            /\ Active(om'.order[open[j].side])
            /\ open[j].left <= om'.order[open[j].side].qty
            /\ \A i \in 1 .. Len(responses) :
                 Own(responses[i]) /\ responses[i].side = open[j].side =>
                   open[j].left <= After(responses[i])
        BY <3>2, <1>6, <2>1, <2>a DEF Tracked, OpenFits
      <4> QED BY <4>1, <1>4, <1>7
    <3> QED BY <3>1, <3>2
  <2>5. RequestsFresh(om)'
    <3>1. \A j \in Ids : open'[j].left > 0 => open'[j].side = q.side \/ open'[j] = open[j]
      BY <1>6
    <3> SUFFICES ASSUME NEW k \in 1 .. Len(om'.requests), om'.requests[k].type = "NEW"
        PROVE  /\ \A i \in 1 .. Len(responses') :
                    Own(responses'[i]) => responses'[i].side # om'.requests[k].side
               /\ \A j \in Ids : open'[j].left > 0 => open'[j].side # om'.requests[k].side
      BY <2>a DEF Tracked, RequestsFresh, Own
    <3>2. /\ \A i \in 1 .. Len(responses) :
               Own(responses[i]) => responses[i].side # om'.requests[k].side
          /\ \A j \in Ids : open[j].left > 0 => open[j].side # om'.requests[k].side
      BY <2>a DEF Tracked, RequestsFresh
    <3>3. \A i \in 1 .. Len(responses') :
            Own(responses'[i]) => responses'[i].side # om'.requests[k].side
      BY <2>2, <3>2, <1>4, <1>7
    <3>4. \A j \in Ids : open'[j].left > 0 => open'[j].side # om'.requests[k].side
      BY <2>2, <3>1, <3>2
    <3> QED BY <3>3, <3>4
  <2>6. Limited(om)'
    BY <2>a, <1>5 DEF Tracked, Limited, ExposureOf, Active
  <2>7. AnswersShrink'
    <3> SUFFICES ASSUME NEW i \in 1 .. Len(responses'), NEW j \in 1 .. Len(responses'),
                        i < j, Own(responses'[i]), Own(responses'[j]),
                        responses'[i].side = responses'[j].side
        PROVE  responses'[j].type # "ACCEPTED" /\ Before(responses'[j]) <= After(responses'[i])
      BY DEF AnswersShrink, Own, Before, After
    <3>1. i \in 1 .. Len(responses)
      BY <1>7
    <3>2. j \in 1 .. Len(responses)
      BY <3>1, <1>4, <1>7, <2>1
    <3> QED BY <3>1, <3>2, <1>7, <1>9 DEF AnswersShrink
  <2> QED BY <2>3, <2>4, <2>5, <2>6, <2>7 DEF Tracked
<1> QED BY <1>5, <1>8, <1>9 DEF IInv

\* An answer to another client's order ends what is claimed; only the types stay.
LEMMA OthersFillKeeps == IInv /\ OthersFill => IInv'
<1> SUFFICES ASSUME IInv, OthersFill PROVE IInv'
  OBVIOUS
<1> USE TradeEngineAssumption
<1>1. PICK side \in Sides, n \in 1 .. Clip, left \in 0 .. Clip :
        responses' = Append(responses, Answer("FILLED", 0, side, n, left))
  BY DEF OthersFill
<1> DEFINE r == Answer("FILLED", 0, side, n, left)
<1>2. r \in AnswerSet /\ r.side \in Sides /\ r.type # "ACCEPTED"
  BY DEF Answer, AnswerSet
<1>3. /\ others' = others + 1 /\ others < MaxOthers /\ om' = om /\ open' = open
      /\ position' = position /\ taking' = taking /\ down' = down /\ traded' = traded
  BY DEF OthersFill
<1>4. Types /\ others \in Nat /\ others' \in 0 .. MaxOthers /\ others' # 0
  BY <1>3 DEF IInv, Types
<1>5. /\ Formed(om') /\ position' \in Int /\ traded' \in Int
      /\ taking' \in Ids \cup {0} /\ down' \in BOOLEAN
      /\ open' \in [Ids -> [side : Sides, left : 0 .. Clip]]
  BY <1>3, <1>4 DEF Types
<1> HIDE DEF r
<1>6. Types'
  BY <1>1, <1>2, <1>4, <1>5, AppendTypes DEF r
<1> QED BY <1>4, <1>6 DEF IInv

LEMMA CancelKeeps == IInv /\ ExchangeCancel => IInv'
<1> SUFFICES ASSUME IInv, ExchangeCancel PROVE IInv'
  OBVIOUS
<1> USE TradeEngineAssumption
<1> DEFINE q == om.requests[1]
<1>1. Types /\ om.requests # <<>> /\ TakeRequest
  BY DEF IInv, ExchangeCancel
<1>2. /\ Formed(om') /\ om'.order = om.order /\ Head(om.requests) = q
      /\ 1 \in 1 .. Len(om.requests) /\ q \in Requests
      /\ Tracked(om) => Tracked(om')
  BY <1>1, TakeKeeps
<1>3. q.id \in Ids
  BY <1>1, <1>2 DEF Types, Formed, Ids
<1>4. /\ down' = TRUE /\ position' = position /\ taking' = taking /\ traded' = traded
  BY DEF ExchangeCancel
<1>5. /\ position' \in Int /\ traded' \in Int /\ taking' \in Ids \cup {0}
      /\ down' \in BOOLEAN /\ others \in 0 .. MaxOthers
      /\ open \in [Ids -> [side : Sides, left : 0 .. Clip]]
  BY <1>1, <1>4 DEF Types
<1> HIDE DEF q
<1>6. CASE /\ open[q.id].left > 0
           /\ responses' = Append(responses,
                Answer("CANCELED", q.id, open[q.id].side, 0, open[q.id].left))
           /\ open' = [open EXCEPT ![q.id].left = 0]
           /\ others' = others
  <2> DEFINE r == Answer("CANCELED", q.id, open[q.id].side, 0, open[q.id].left)
  <2>1. open[q.id].left \in 0 .. Clip /\ open[q.id].side \in Sides /\ q.id \in Nat
    BY <1>3, <1>5 DEF Ids
  <2>2. /\ r \in AnswerSet /\ r.type = "CANCELED" /\ r.side = open[q.id].side
        /\ Before(r) = open[q.id].left /\ After(r) = 0
    BY <2>1 DEF Answer, AnswerSet, Before, After
  <2>3. 0 \in 0 .. Clip /\ 0 <= open[q.id].left /\ 0 <= After(r)
        /\ r.type \in {"FILLED", "CANCELED"}
    BY <2>1, <2>2
  <2>4. responses' = Append(responses, r)
    BY <1>6
  <2> HIDE DEF r
  <2>5. Types' /\ (Tracked(om') /\ AnswersShrink => Tracked(om)' /\ AnswersShrink')
    BY <1>1, <1>2, <1>3, <1>4, <1>5, <1>6, <2>2, <2>3, <2>4, ReportKeeps
  <2> QED BY <1>2, <1>6, <2>5 DEF IInv
<1>7. CASE /\ responses' = Append(responses,
                Answer("CANCEL_REJECTED", q.id, "INVALID", 0, 0))
           /\ open' = open /\ others' = others
  <2> DEFINE r == Answer("CANCEL_REJECTED", q.id, "INVALID", 0, 0)
  <2>1. r \in AnswerSet /\ ~Own(r) /\ r.type # "ACCEPTED"
    BY <1>3 DEF Answer, AnswerSet, Own, Ids
  <2> HIDE DEF r
  <2>2. responses' = Append(responses, r)
    BY <1>7 DEF r
  <2>3. /\ Len(responses) \in Nat /\ Len(responses') = Len(responses) + 1
        /\ \A i \in 1 .. Len(responses) : responses'[i] = responses[i]
        /\ responses'[Len(responses) + 1] = r
        /\ \A i \in 1 .. Len(responses') :
             i \in 1 .. Len(responses) \/ i = Len(responses) + 1
    BY <1>1, <2>1, <2>2, AnswerAppended
  <2>4. Types'
    BY <1>1, <1>2, <1>5, <1>7, <2>1, <2>2, AppendTypes
  <2>5. \A i \in 1 .. Len(responses') :
          Own(responses'[i]) => i \in 1 .. Len(responses) /\ responses'[i] = responses[i]
    BY <2>1, <2>3
  <2>6. ASSUME Tracked(om), AnswersShrink
        PROVE  Tracked(om)' /\ AnswersShrink'
    <3>1. Tracked(om')
      BY <1>2, <2>6
    <3>2. AnswersFit(om)'
      BY <3>1, <2>5 DEF Tracked, AnswersFit, Own, Before, Active
    <3>3. OpenFits(om)'
      BY <3>1, <2>5, <1>7 DEF Tracked, OpenFits, Own, After, Active
    <3>4. RequestsFresh(om)'
      BY <3>1, <2>5, <1>7 DEF Tracked, RequestsFresh, Own
    <3>5. Limited(om)'
      BY <3>1, <1>4 DEF Tracked, Limited, ExposureOf, Active
    <3>6. AnswersShrink'
      BY <2>5, <2>6 DEF AnswersShrink, Own, Before, After
    <3> QED BY <3>2, <3>3, <3>4, <3>5, <3>6 DEF Tracked
  <2> QED BY <1>7, <2>4, <2>6 DEF IInv
<1>8. CASE /\ others' = others + 1 /\ others < MaxOthers
           /\ \E side \in Sides, left \in 1 .. Clip :
                responses' = Append(responses, Answer("CANCELED", 0, side, 0, left))
           /\ open' = open
  <2>1. PICK side \in Sides, left \in 1 .. Clip :
          responses' = Append(responses, Answer("CANCELED", 0, side, 0, left))
    BY <1>8
  <2> DEFINE r == Answer("CANCELED", 0, side, 0, left)
  <2>2. r \in AnswerSet /\ r.side \in Sides /\ r.type # "ACCEPTED"
    BY DEF Answer, AnswerSet
  <2>3. others' \in 0 .. MaxOthers /\ others' # 0
    BY <1>5, <1>8
  <2> HIDE DEF r
  <2>4. Types'
    BY <1>1, <1>2, <1>5, <1>8, <2>1, <2>2, <2>3, AppendTypes DEF r
  <2> QED BY <2>3, <2>4 DEF IInv
<1> QED BY <1>2, <1>6, <1>7, <1>8 DEF ExchangeCancel

-----------------------------------------------------------------------------
\* An answer arrives.
LEMMA OnOrderUpdateKeeps == IInv /\ OnOrderUpdate => IInv'
<1> SUFFICES ASSUME IInv, OnOrderUpdate PROVE IInv'
  OBVIOUS
<1> USE TradeEngineAssumption
<1> DEFINE r == responses[1]
<1>1. Types /\ Formed(om) /\ responses \in Seq(AnswerSet) /\ responses # <<>>
  BY DEF IInv, Types, OnOrderUpdate
<1>2. /\ Tail(responses) \in Seq(AnswerSet)
      /\ Len(responses) \in Nat /\ Len(responses) >= 1
      /\ Len(Tail(responses)) = Len(responses) - 1
      /\ Head(responses) = r /\ Head(responses) \in AnswerSet
      /\ \A i \in 1 .. Len(Tail(responses)) : Tail(responses)[i] = responses[i + 1]
  BY <1>1, TailFacts
<1>3. /\ responses' = Tail(responses) /\ responses' \in Seq(AnswerSet)
      /\ 1 \in 1 .. Len(responses) /\ r \in AnswerSet
      /\ \A i \in 1 .. Len(responses') :
           /\ i + 1 \in 1 .. Len(responses) /\ responses'[i] = responses[i + 1]
           /\ 1 < i + 1
  BY <1>2 DEF OnOrderUpdate
<1>4. \A i \in 1 .. Len(responses) :
        /\ responses[i] \in AnswerSet
        /\ Own(responses[i]) => responses[i].side \in Sides
  BY <1>1, ElementOfSeq DEF Types
<1>5. /\ position' = AddFill(r)
      /\ om' = IF r.type = "CANCEL_REJECTED" THEN om
               ELSE [om EXCEPT !.order[r.side] = OrderUpdate(@, r)]
      /\ client' = client /\ open' = open /\ taking' = taking /\ down' = down
      /\ others' = others /\ traded' = traded
  BY <1>2 DEF OnOrderUpdate, exchange
<1>6. position \in Int /\ position' \in Int
  BY <1>1, <1>3, <1>5, SMTT(40) DEF Types, AddFill, SideToValue, AnswerSet
<1> HIDE DEF r
<1>7. CASE ~Own(r)
  <2>1. om' = om /\ position' = position
    BY <1>5, <1>7 DEF Own, AddFill
  <2>2. Formed(om)'
    BY <1>1, <1>3, <2>1 DEF Formed, Active
  <2>3. Types'
    BY <1>1, <1>3, <1>4, <1>5, <1>6, <2>2 DEF Types, Own
  <2>4. ASSUME Tracked(om), AnswersShrink
        PROVE  Tracked(om)' /\ AnswersShrink'
    <3>1. AnswersFit(om)'
      BY <2>4, <2>1, <1>3 DEF Tracked, AnswersFit, Own, Before, Active
    <3> DEFINE Kept == {responses[i] : i \in 1 .. Len(responses)}
    <3>a. \A i \in 1 .. Len(responses') : responses'[i] \in Kept
      BY <1>3
    <3>2. OpenFits(om)'
      <4>1. \A k \in Ids, x \in Kept :
              open[k].left > 0 /\ Own(x) /\ x.side = open[k].side => open[k].left <= After(x)
        BY <2>4 DEF Tracked, OpenFits
      <4> HIDE DEF Kept
      <4>2. \A k \in Ids : open[k].left > 0 =>
              /\ k = om.order[open[k].side].id /\ Active(om.order[open[k].side])
              /\ open[k].left <= om.order[open[k].side].qty
        BY <2>4 DEF Tracked, OpenFits
      <4> QED BY <4>1, <4>2, <3>a, <2>1, <1>5 DEF OpenFits, Own, After, Active
    <3>3. RequestsFresh(om)'
      <4>1. \A k \in 1 .. Len(om.requests), x \in Kept :
              om.requests[k].type = "NEW" /\ Own(x) => x.side # om.requests[k].side
        BY <2>4 DEF Tracked, RequestsFresh
      <4> HIDE DEF Kept
      <4>2. \A k \in 1 .. Len(om.requests) : om.requests[k].type = "NEW" =>
              /\ om.requests[k].id = om.order[om.requests[k].side].id
              /\ om.order[om.requests[k].side].state = "PENDING_NEW"
              /\ om.order[om.requests[k].side].qty = Clip
              /\ \A j \in 1 .. Len(om.requests) :
                   om.requests[j].type = "NEW" /\ om.requests[j].side = om.requests[k].side
                     => j = k
              /\ \A i \in Ids : open[i].left > 0 => open[i].side # om.requests[k].side
        BY <2>4 DEF Tracked, RequestsFresh
      <4> QED BY <4>1, <4>2, <3>a, <2>1, <1>5 DEF RequestsFresh, Own
    <3> HIDE DEF Kept
    <3>4. Limited(om)'
      BY <2>4, <2>1 DEF Tracked, Limited, ExposureOf, Active
    <3>5. AnswersShrink'
      <4> SUFFICES ASSUME NEW i \in 1 .. Len(responses'), NEW j \in 1 .. Len(responses'),
                          i < j, Own(responses'[i]), Own(responses'[j]),
                          responses'[i].side = responses'[j].side
          PROVE  responses'[j].type # "ACCEPTED" /\ Before(responses'[j]) <= After(responses'[i])
        BY DEF AnswersShrink, Own, Before, After
      <4>1. /\ i + 1 \in 1 .. Len(responses) /\ j + 1 \in 1 .. Len(responses)
            /\ responses'[i] = responses[i + 1] /\ responses'[j] = responses[j + 1]
            /\ i + 1 < j + 1
        BY <1>3
      <4> QED BY <4>1, <2>4 DEF AnswersShrink
    <3> QED BY <3>1, <3>2, <3>3, <3>4, <3>5 DEF Tracked
  <2> QED BY <1>5, <2>3, <2>4 DEF IInv
<1>8. CASE Own(r)
  <2> DEFINE ord == om.order[r.side]
             new == OrderUpdate(ord, r)
  <2>1. /\ r.side \in Sides /\ om.order \in [Sides -> Slots] /\ ord \in Slots
        /\ om \in Managers /\ om.next \in Nat /\ om.requests \in Seq(Requests)
    BY <1>1, <1>3, <1>4, <1>8 DEF r, Formed, Managers
  <2>2. r.type \in {"ACCEPTED", "FILLED", "CANCELED"}
    BY <1>3, <1>8 DEF Own, AnswerSet
  <2>3. /\ new \in Slots /\ new.id = ord.id
        /\ r.type = "ACCEPTED" => new.state = "LIVE" /\ new.qty = ord.qty
        /\ r.type = "CANCELED" => new.state = "DEAD" /\ new.qty = ord.qty
        /\ r.type = "FILLED" => /\ new.qty = r.leaves
                                /\ new.state = IF r.leaves = 0 THEN "DEAD" ELSE ord.state
    BY <1>3, <2>1, <2>2 DEF OrderUpdate, Slots, AnswerSet
  <2> HIDE DEF new
  <2>4. om' = [om EXCEPT !.order[r.side] = new]
    BY <1>5, <1>8 DEF Own, new
  <2>5. /\ om' \in Managers /\ om'.next = om.next /\ om'.requests = om.requests
        /\ om'.order = [om.order EXCEPT ![r.side] = new]
    BY <2>1, <2>3, <2>4 DEF Managers
  <2>6. /\ om'.order[r.side] = new
        /\ \A s \in Sides : s # r.side => om'.order[s] = om.order[s]
        /\ \A s \in Sides : om'.order[s].id = om.order[s].id
    BY <2>1, <2>3, <2>5
  <2>7. \A k \in 1 .. Len(om.requests) : om.requests[k].side \in Sides
    <3>1. \A k \in 1 .. Len(om.requests) : om.requests[k] \in Requests
      BY <2>1, ElementOfSeq
    <3> QED BY <3>1 DEF Requests
  <2>8. Types'
    <3>1. Active(new) => Active(ord) \/ r.type = "ACCEPTED"
      BY <2>2, <2>3 DEF Active
    <3>2. r.type = "ACCEPTED" => ord.id >= 1
      BY <1>1, <1>3 DEF Formed, r
    <3>3. \A s \in Sides : /\ om'.order[s].id < om'.next
                           /\ Active(om'.order[s]) => om'.order[s].id >= 1
      BY <1>1, <2>1, <2>3, <2>5, <2>6, <3>1, <3>2 DEF Formed
    <3>4. \A k \in 1 .. Len(om'.requests) :
            /\ om'.requests[k].id \in 1 .. (om'.next - 1)
            /\ om'.requests[k].type = "NEW" => om'.order[om'.requests[k].side].id >= 1
      BY <1>1, <2>5, <2>6, <2>7 DEF Formed
    <3>5. \A i \in 1 .. Len(responses') :
            responses'[i].type = "ACCEPTED" => om'.order[responses'[i].side].id >= 1
      BY <1>1, <1>3, <1>4, <2>6 DEF Formed, Own
    <3>6. Formed(om)'
      BY <1>1, <2>5, <3>3, <3>4, <3>5 DEF Formed, Active
    <3> QED BY <1>1, <1>3, <1>4, <1>5, <1>6, <3>6 DEF Types, Own
  <2>9. ASSUME Tracked(om), AnswersShrink
        PROVE  Tracked(om)' /\ AnswersShrink'
    <3>1. /\ Active(ord) /\ Before(r) >= 1 /\ Before(r) <= ord.qty
          /\ r.type = "ACCEPTED" => ord.state = "PENDING_NEW"
      BY <1>3, <1>8, <2>9 DEF r, Tracked, AnswersFit
    <3>2. /\ ord.qty \in Nat /\ new.qty \in Nat /\ r.exec \in Nat /\ r.leaves \in Nat
          /\ Before(r) = r.exec + r.leaves
      BY <1>3, <2>1, <2>3 DEF Slots, AnswerSet, Before
    \* The slot is finished exactly when the answer leaves nothing.
    <3>3. /\ ExposureOf(new) = After(r) \/ r.type = "ACCEPTED"
          /\ After(r) >= 1 => Active(new) /\ After(r) <= new.qty
          /\ new.state = "LIVE" \/ new.state = ord.state \/ ~Active(new)
      <4>1. CASE r.type = "ACCEPTED"
        BY <4>1, <2>3, <3>1, <3>2 DEF ExposureOf, Active, After
      <4>2. CASE r.type = "CANCELED"
        BY <4>2, <2>3 DEF ExposureOf, Active, After
      <4>3. CASE r.type = "FILLED"
        BY <4>3, <2>3, <3>1, <3>2 DEF ExposureOf, Active, After
      <4> QED BY <4>1, <4>2, <4>3, <2>2
    <3>4. \A i \in 1 .. Len(responses') :
            Own(responses'[i]) /\ responses'[i].side = r.side =>
              responses'[i].type # "ACCEPTED" /\ Before(responses'[i]) <= After(r)
      <4> SUFFICES ASSUME NEW i \in 1 .. Len(responses'), Own(responses'[i]),
                          responses'[i].side = r.side
          PROVE  responses'[i].type # "ACCEPTED" /\ Before(responses'[i]) <= After(r)
        OBVIOUS
      <4>1. i + 1 \in 1 .. Len(responses) /\ responses'[i] = responses[i + 1] /\ 1 < i + 1
        BY <1>3
      <4> QED BY <4>1, <1>3, <1>8, <2>9 DEF AnswersShrink, r
    <3>5. AnswersFit(om)'
      <4> SUFFICES ASSUME NEW i \in 1 .. Len(responses'), Own(responses'[i])
          PROVE  /\ Active(om'.order[responses'[i].side])
                 /\ Before(responses'[i]) >= 1
                 /\ Before(responses'[i]) <= om'.order[responses'[i].side].qty
                 /\ responses'[i].type = "ACCEPTED" =>
                      om'.order[responses'[i].side].state = "PENDING_NEW"
        BY DEF AnswersFit, Own, Before, Active
      <4>1. /\ responses'[i].side \in Sides /\ responses'[i] \in AnswerSet
            /\ Active(om.order[responses'[i].side])
            /\ Before(responses'[i]) >= 1
            /\ Before(responses'[i]) <= om.order[responses'[i].side].qty
            /\ responses'[i].type = "ACCEPTED" =>
                 om.order[responses'[i].side].state = "PENDING_NEW"
        BY <1>3, <1>4, <2>9 DEF Tracked, AnswersFit
      <4>2. CASE responses'[i].side = r.side
        <5>1. Before(responses'[i]) \in Nat /\ After(r) \in Nat
          <6>1. \A a \in AnswerSet : Before(a) \in Nat /\ After(a) \in Nat
            BY DEF Before, After, AnswerSet
          <6> QED BY <6>1, <4>1, <1>3
        <5>2. Before(responses'[i]) <= After(r) /\ responses'[i].type # "ACCEPTED"
          BY <4>2, <3>4
        <5>3. After(r) >= 1
          BY <4>1, <5>1, <5>2
        <5>4. Before(responses'[i]) <= new.qty
          BY <3>2, <3>3, <5>1, <5>2, <5>3
        <5> QED BY <4>1, <4>2, <2>6, <3>3, <5>2, <5>3, <5>4
      <4>3. CASE responses'[i].side # r.side
        BY <4>1, <4>3, <2>6
      <4> QED BY <4>2, <4>3
    <3>6. OpenFits(om)'
      <4> SUFFICES ASSUME NEW j \in Ids, open[j].left > 0
          PROVE  /\ j = om'.order[open[j].side].id
                 /\ Active(om'.order[open[j].side])
                 /\ open[j].left <= om'.order[open[j].side].qty
                 /\ \A i \in 1 .. Len(responses') :
                      Own(responses'[i]) /\ responses'[i].side = open[j].side =>
                        open[j].left <= After(responses'[i])
        BY <1>5 DEF OpenFits, Own, After, Active
      <4>1. /\ j = om.order[open[j].side].id
            /\ Active(om.order[open[j].side])
            /\ open[j].left <= om.order[open[j].side].qty
            /\ \A i \in 1 .. Len(responses) :
                 Own(responses[i]) /\ responses[i].side = open[j].side =>
                   open[j].left <= After(responses[i])
            /\ open[j].side \in Sides /\ open[j].left \in Nat
        BY <1>1, <2>9 DEF Tracked, OpenFits, Types
      <4>2. \A i \in 1 .. Len(responses') :
              Own(responses'[i]) /\ responses'[i].side = open[j].side =>
                open[j].left <= After(responses'[i])
        BY <4>1, <1>3
      <4>3. CASE open[j].side = r.side
        <5>1. open[j].left <= After(r) /\ After(r) \in Nat
          BY <4>1, <4>3, <1>3, <1>8 DEF r, After, AnswerSet
        <5>2. After(r) >= 1
          BY <4>1, <5>1
        <5>3. open[j].left <= new.qty
          BY <3>2, <3>3, <4>1, <5>1, <5>2
        <5> QED BY <4>1, <4>2, <4>3, <2>6, <3>3, <5>2, <5>3
      <4>4. CASE open[j].side # r.side
        BY <4>1, <4>2, <4>4, <2>6
      <4> QED BY <4>3, <4>4
    <3>7. RequestsFresh(om)'
      <4>1. \A k \in 1 .. Len(om.requests) : om.requests[k].type = "NEW" =>
              om.requests[k].side # r.side
        BY <1>3, <1>8, <2>9 DEF r, Tracked, RequestsFresh
      <4>2. \A k \in 1 .. Len(om.requests) : om.requests[k].type = "NEW" =>
              om'.order[om.requests[k].side] = om.order[om.requests[k].side]
        BY <4>1, <2>6, <2>7
      <4>3. \A i \in 1 .. Len(responses') : \E j \in 1 .. Len(responses) :
              responses'[i] = responses[j]
        BY <1>3
      <4>4. ASSUME NEW k \in 1 .. Len(om.requests), om.requests[k].type = "NEW"
            PROVE  /\ om.requests[k].id = om'.order[om.requests[k].side].id
                   /\ om'.order[om.requests[k].side].state = "PENDING_NEW"
                   /\ om'.order[om.requests[k].side].qty = Clip
        BY <4>2, <4>4, <2>9 DEF Tracked, RequestsFresh
      <4>5. ASSUME NEW k \in 1 .. Len(om.requests), om.requests[k].type = "NEW",
                   NEW i \in 1 .. Len(responses'), Own(responses'[i])
            PROVE  responses'[i].side # om.requests[k].side
        <5>1. PICK j \in 1 .. Len(responses) : responses'[i] = responses[j]
          BY <4>3
        <5> QED BY <4>5, <5>1, <2>9 DEF Tracked, RequestsFresh
      <4>6. ASSUME NEW k \in 1 .. Len(om.requests), om.requests[k].type = "NEW"
            PROVE  /\ \A j \in 1 .. Len(om.requests) :
                        om.requests[j].type = "NEW"
                        /\ om.requests[j].side = om.requests[k].side => j = k
                   /\ \A i \in Ids : open[i].left > 0 => open[i].side # om.requests[k].side
        BY <4>6, <2>9 DEF Tracked, RequestsFresh
      <4> QED BY <4>4, <4>5, <4>6, <1>5, <2>5 DEF RequestsFresh, Own
    <3>8. Limited(om)'
      <4>1. /\ ExposureOf(new) \in Nat /\ ExposureOf(ord) = ord.qty
            /\ \A s \in Sides : ExposureOf(om.order[s]) \in Nat
        BY <2>1, <3>1, <3>2 DEF ExposureOf, Slots
      <4>2. position' = IF r.type = "FILLED" THEN position + SideToValue(r.side) * r.exec
                        ELSE position
        BY <1>5 DEF AddFill
      <4>3. /\ r.type = "FILLED" => r.exec + ExposureOf(new) <= ExposureOf(ord)
            /\ ExposureOf(new) <= ExposureOf(ord)
        BY <2>2, <2>3, <3>1, <3>2, <3>3, <4>1 DEF After, ExposureOf, Active
      <4>4. Limited(om)
        BY <2>9 DEF Tracked
      <4>5. /\ r.side = "BUY" => /\ om'.order["BUY"] = new /\ om.order["BUY"] = ord
                                 /\ om'.order["SELL"] = om.order["SELL"]
            /\ r.side = "SELL" => /\ om'.order["SELL"] = new /\ om.order["SELL"] = ord
                                  /\ om'.order["BUY"] = om.order["BUY"]
        BY <2>6 DEF Sides
      <4>6. /\ position' + ExposureOf(om'.order["BUY"]) <= MaxPosition
            /\ position' - ExposureOf(om'.order["SELL"]) >= -MaxPosition
        <5> HIDE DEF ord
        <5>1. CASE r.side = "BUY"
          BY <5>1, <1>6, <3>2, <4>1, <4>2, <4>3, <4>4, <4>5 DEF Limited, SideToValue, Sides
        <5>2. CASE r.side = "SELL"
          BY <5>2, <1>6, <3>2, <4>1, <4>2, <4>3, <4>4, <4>5 DEF Limited, SideToValue, Sides
        <5> QED BY <5>1, <5>2, <2>1 DEF Sides
      <4> QED BY <4>6 DEF Limited, ExposureOf, Active
    <3>9. AnswersShrink'
      <4> SUFFICES ASSUME NEW i \in 1 .. Len(responses'), NEW j \in 1 .. Len(responses'),
                          i < j, Own(responses'[i]), Own(responses'[j]),
                          responses'[i].side = responses'[j].side
          PROVE  responses'[j].type # "ACCEPTED" /\ Before(responses'[j]) <= After(responses'[i])
        BY DEF AnswersShrink, Own, Before, After
      <4>1. /\ i + 1 \in 1 .. Len(responses) /\ j + 1 \in 1 .. Len(responses)
            /\ responses'[i] = responses[i + 1] /\ responses'[j] = responses[j + 1]
            /\ i + 1 < j + 1
        BY <1>3
      <4> QED BY <4>1, <2>9 DEF AnswersShrink
    <3> QED BY <3>5, <3>6, <3>7, <3>8, <3>9 DEF Tracked
  <2> QED BY <1>5, <2>8, <2>9 DEF IInv
<1> QED BY <1>7, <1>8

-----------------------------------------------------------------------------
LEMMA StepIInv == IInv /\ [Next]_vars => IInv'
<1> SUFFICES ASSUME IInv, [Next]_vars PROVE IInv'
  OBVIOUS
<1>1. CASE MoveOrders
  BY <1>1, MoveOrdersKeeps
<1>2. CASE OnOrderUpdate
  BY <1>2, OnOrderUpdateKeeps
<1>3. CASE ProcessRequests
  BY <1>3, AcceptKeeps, MatchKeeps, RestKeeps, CancelKeeps DEF ProcessRequests
<1>4. CASE ExchangeTrade
  BY <1>4, TradeKeeps
<1>5. CASE OthersFill
  BY <1>5, OthersFillKeeps
<1>6. CASE UNCHANGED vars
  BY <1>6, SMTT(20) DEF vars, exchange, IInv, Types, Tracked, Formed, AnswersFit, OpenFits,
     RequestsFresh, Limited, AnswersShrink, Own, Before, After, Active, ExposureOf
<1> QED BY <1>1, <1>2, <1>3, <1>4, <1>5, <1>6 DEF Next

LEMMA Invariance == Spec => []IInv
  BY InitIInv, StepIInv, PTL DEF Spec

\* Order numbers in the slots stay below the next number, quantities within the
\* clip, on both sides of the gateway.
THEOREM TypeCorrect == Spec => []TypeOK
<1>1. IInv => TypeOK
  <2> SUFFICES ASSUME IInv PROVE TypeOK
    OBVIOUS
  <2> USE TradeEngineAssumption
  <2>1. \A s \in Sides : om.order[s] \in Slots /\ om.order[s].id < om.next
    BY DEF IInv, Types, Formed, Managers
  <2>2. om.next \in 1 .. (MaxOrders + 1)
    BY DEF IInv, Types, Formed
  <2>3. \A s \in Sides :
          /\ Order(s).state \in {"INVALID", "PENDING_NEW", "LIVE", "PENDING_CANCEL", "DEAD"}
          /\ Order(s).id \in 0 .. (om.next - 1)
          /\ Order(s).qty \in 0 .. Clip
    BY <2>1, <2>2 DEF Order, Slots
  <2>4. \A i \in Ids : open[i].left \in 0 .. Clip /\ open[i].side \in Sides
    BY DEF IInv, Types
  <2> QED BY <2>2, <2>3, <2>4 DEF TypeOK, IInv, Types
<1> QED BY <1>1, Invariance, PTL

\* Whatever the clip, the limits and the strategy's prices: with everything in
\* the market filled on one side and nothing on the other, the position the
\* PositionKeeper holds stays within m_max_position, although checkPreTradeRisk
\* looks at fills only.
THEOREM PositionLimited == Spec => []WithinLimit
<1>1. IInv => WithinLimit
  BY DEF IInv, Tracked, Limited, ExposureOf, Active, WithinLimit, Exposure, InMarket, Order
<1> QED BY <1>1, Invariance, PTL

\* The OrderManager and the exchange together never hold two orders of one side.
THEOREM AtMostOneOrder == Spec => []OneOrderPerSide
<1>1. IInv => OneOrderPerSide
  <2> SUFFICES ASSUME IInv, others = 0, NEW s \in Sides
      PROVE  LET sent  == {k \in DOMAIN om.requests :
                             om.requests[k].type = "NEW" /\ om.requests[k].side = s}
                 there == {i \in Ids : open[i].side = s /\ open[i].left > 0}
             IN  /\ \A j, k \in sent : j = k
                 /\ \A i, j \in there : i = j
                 /\ sent = {} \/ there = {}
    BY DEF OneOrderPerSide
  <2>1. DOMAIN om.requests = 1 .. Len(om.requests)
    BY DEF IInv, Types, Formed, Managers
  <2> QED BY <2>1 DEF IInv, Tracked, RequestsFresh, OpenFits
<1> QED BY <1>1, Invariance, PTL

\* No answer makes an order live again that was cancelled or is finished: the
\* OrderManager compares no order id and needs none.
THEOREM NothingRevives == Spec => NoRevival
<1>1. IInv /\ [Next]_vars =>
        [others = 0 => \A s \in Sides :
           Order(s).state \in {"PENDING_CANCEL", "DEAD"} => Order(s)'.state # "LIVE"]_vars
  <2> SUFFICES ASSUME IInv, Next, others = 0, NEW s \in Sides,
                      om.order[s].state \in {"PENDING_CANCEL", "DEAD"}
      PROVE  om'.order[s].state # "LIVE"
    BY DEF Order
  <2>1. /\ om \in Managers /\ om.order \in [Sides -> Slots] /\ om.next \in Nat
        /\ om.requests \in Seq(Requests)
    BY DEF IInv, Types, Formed, Managers
  <2>2. CASE OnOrderUpdate
    <3>1. responses \in Seq(AnswerSet) /\ responses # <<>>
      BY <2>2 DEF IInv, Types, OnOrderUpdate
    <3>2. 1 \in 1 .. Len(responses) /\ Head(responses) = responses[1]
          /\ responses[1] \in AnswerSet
      BY <3>1, TailFacts
    <3> DEFINE r == responses[1]
    <3>3. om' = IF r.type = "CANCEL_REJECTED" THEN om
                ELSE [om EXCEPT !.order[r.side] = OrderUpdate(@, r)]
      BY <2>2, <3>2 DEF OnOrderUpdate
    <3>4. Own(r) => /\ r.side \in Sides
                    /\ r.type = "ACCEPTED" => om.order[r.side].state = "PENDING_NEW"
      BY <3>2 DEF IInv, Types, Tracked, AnswersFit
    <3> HIDE DEF r
    <3>5. CASE r.type = "CANCEL_REJECTED"
      BY <3>3, <3>5
    <3>6. CASE r.type # "CANCEL_REJECTED"
      <4>1. om'.order = [om.order EXCEPT ![r.side] = OrderUpdate(om.order[r.side], r)]
        BY <2>1, <3>3, <3>6 DEF Managers
      <4>2. CASE s = r.side
        <5>1. om'.order[s] = OrderUpdate(om.order[s], r)
          BY <2>1, <4>1, <4>2
        <5>2. r.type \in {"FILLED", "CANCELED"}
          BY <3>2, <3>4, <3>6, <4>2 DEF Own, AnswerSet, r
        <5> QED BY <5>1, <5>2, <2>1 DEF OrderUpdate, Slots
      <4>3. CASE s # r.side
        BY <2>1, <4>1, <4>3
      <4> QED BY <4>2, <4>3
    <3> QED BY <3>5, <3>6
  <2>3. CASE MoveOrders
    <3>1. PICK price \in Prices \cup {PriceInvalid}, loss \in BOOLEAN :
            om' = MoveOrder(MoveOrder(om, "BUY", price, loss), "SELL", price, loss)
      BY <2>3 DEF MoveOrders
    <3>2. ASSUME NEW m \in Managers, NEW side \in Sides, m.order[s].state # "LIVE"
          PROVE  MoveOrder(m, side, price, loss).order[s].state # "LIVE"
      <4> DEFINE slot == [state |-> "PENDING_NEW", id |-> m.next, price |-> price,
                          qty |-> Clip]
      <4>1. NewOrder(m, side, price).order = [m.order EXCEPT ![side] = slot]
        BY DEF NewOrder, Managers
      <4>2. CancelOrder(m, side).order = [m.order EXCEPT ![side].state = "PENDING_CANCEL"]
        BY DEF CancelOrder, Managers
      <4>3. m.order \in [Sides -> Slots]
        BY DEF Managers
      <4>4. NewOrder(m, side, price).order[s].state # "LIVE"
        BY <3>2, <4>1, <4>3
      <4>5. CancelOrder(m, side).order[s].state # "LIVE"
        BY <3>2, <4>2, <4>3 DEF Slots
      <4> QED BY <3>2, <4>4, <4>5 DEF MoveOrder
    <3>3. Types /\ Formed(om) /\ om.next <= MaxOrders
      BY <2>1, <2>3, TradeEngineAssumption DEF IInv, Types, MoveOrders
    <3>4. MoveOrder(om, "BUY", price, loss) \in Managers
      BY <3>3, MoveOrderKeeps DEF Sides, Formed
    <3>5. om.order[s].state # "LIVE"
      OBVIOUS
    <3> QED BY <3>1, <3>2, <3>4, <3>5, <2>1 DEF Sides
  <2>4. CASE ProcessRequests \/ ExchangeTrade \/ OthersFill
    <3>1. om'.order = om.order
      BY <2>1, <2>4 DEF ProcessRequests, ExchangeAccept, ExchangeMatch, ExchangeRest,
         ExchangeCancel, TakeRequest, ExchangeTrade, OthersFill, Managers
    <3> QED BY <3>1
  <2> QED BY <2>2, <2>3, <2>4 DEF Next
<1> QED BY <1>1, Invariance, PTL DEF Spec, NoRevival

-----------------------------------------------------------------------------
(***************************************************************************)
(* What ViewsAgree adds: with the ticker's number and no other client's    *)
(* answers, every answer under way begins with exactly what the one before *)
(* it left, so that the last of them says what the exchange holds.  The    *)
(* operators take the answers q and the exchange's orders o as arguments,  *)
(* because a step changes a side at a time.                                *)
(***************************************************************************)
Mine(a, s) == Own(a) /\ a.side = s

\* Of an order of side s, whose slot is ord, the last answer in q says that
\* left was open and rest remains; with no such answer the slot says both.
EndsWith(q, ord, s, left, rest) ==
  \/ /\ \A i \in 1 .. Len(q) : ~Mine(q[i], s)
     /\ left = ord.qty /\ rest = ord.qty
  \/ \E i \in 1 .. Len(q) :
       /\ Mine(q[i], s) /\ \A j \in 1 .. Len(q) : Mine(q[j], s) => j <= i
       /\ left = q[i].leaves /\ rest = After(q[i])

Chained(q, ord, s) ==
  \A j \in 1 .. Len(q) : Mine(q[j], s) =>
    /\ (\A i \in 1 .. (j - 1) : ~Mine(q[i], s)) => Before(q[j]) = ord.qty
    /\ \A i \in 1 .. (j - 1) :
         Mine(q[i], s) /\ (\A k \in (i + 1) .. (j - 1) : ~Mine(q[k], s))
           => Before(q[j]) = After(q[i])
    /\ q[j].type # "FILLED" => q[j].exec = 0

Acknowledged(q, s) ==
  \E i \in 1 .. Len(q) : Mine(q[i], s) /\ q[i].type = "ACCEPTED"

Sent(m, s) ==
  \E k \in 1 .. Len(m.requests) : m.requests[k].type = "NEW" /\ m.requests[k].side = s

CancelSent(m, s) ==
  \E k \in 1 .. Len(m.requests) :
    m.requests[k].type = "CANCEL" /\ m.requests[k].id = m.order[s].id

\* Side s is booked right, with fills for due under way.
Booked(m, q, o, s, due) ==
  /\ Chained(q, m.order[s], s)
  /\ Active(m.order[s]) => m.order[s].qty >= 1
  /\ m.order[s].state = "PENDING_NEW" => Sent(m, s) \/ Acknowledged(q, s)
  /\ m.order[s].state = "PENDING_CANCEL" =>
       CancelSent(m, s) \/ o[m.order[s].id].left = 0
  /\ \E left, rest \in 0 .. Clip :
       /\ EndsWith(q, m.order[s], s, left, rest)
       /\ Active(m.order[s]) /\ ~Sent(m, s) => rest = o[m.order[s].id].left
       /\ due = m.order[s].qty - left

TwoOrders(m) == m.order["BUY"].id = m.order["SELL"].id => m.order["BUY"].id = 0

Exact(m, q, o, due) ==
  /\ TwoOrders(m)
  /\ \E bought, sold \in Int :
       /\ Booked(m, q, o, "BUY", bought) /\ Booked(m, q, o, "SELL", sold)
       /\ due = bought - sold

JInv == client = TickerId /\ others = 0 => Exact(om, responses, open, traded - position)

OtherSide(s) == IF s = "BUY" THEN "SELL" ELSE "BUY"

-----------------------------------------------------------------------------
LEMMA AnswerNumbers ==
  \A a \in AnswerSet : /\ Before(a) \in Nat /\ After(a) \in 0 .. Clip
                       /\ a.leaves \in 0 .. Clip /\ a.exec \in 0 .. Clip
  BY TradeEngineAssumption DEF AnswerSet, Before, After

\* A new answer that begins with what the last one left is the last.
LEMMA AppendMine ==
  ASSUME NEW q \in Seq(AnswerSet), NEW a \in AnswerSet, NEW s, NEW ord,
         NEW left, NEW rest, Mine(a, s), Chained(q, ord, s),
         EndsWith(q, ord, s, left, rest), Before(a) = rest,
         a.type # "FILLED" => a.exec = 0
  PROVE  LET p == Append(q, a) IN
         /\ EndsWith(p, ord, s, a.leaves, After(a)) /\ Chained(p, ord, s)
         /\ Acknowledged(q, s) => Acknowledged(p, s)
<1> DEFINE p == Append(q, a)
<1>1. /\ Len(q) \in Nat /\ Len(p) = Len(q) + 1 /\ p[Len(q) + 1] = a
      /\ \A i \in 1 .. Len(q) : p[i] = q[i]
  BY AppendFacts
<1> HIDE DEF p
<1>2. EndsWith(p, ord, s, a.leaves, After(a))
  <2>1. Len(q) + 1 \in 1 .. Len(p) /\ \A j \in 1 .. Len(p) : j <= Len(q) + 1
    BY <1>1
  <2> QED BY <1>1, <2>1 DEF EndsWith
<1>3. ASSUME NEW j \in 1 .. Len(p), Mine(p[j], s)
      PROVE  /\ (\A i \in 1 .. (j - 1) : ~Mine(p[i], s)) => Before(p[j]) = ord.qty
             /\ \A i \in 1 .. (j - 1) :
                  Mine(p[i], s) /\ (\A k \in (i + 1) .. (j - 1) : ~Mine(p[k], s))
                    => Before(p[j]) = After(p[i])
             /\ p[j].type # "FILLED" => p[j].exec = 0
  <2>1. CASE j = Len(q) + 1
    <3>1. ASSUME \A i \in 1 .. (j - 1) : ~Mine(p[i], s)
          PROVE  Before(p[j]) = ord.qty
      <4>1. \A i \in 1 .. Len(q) : ~Mine(q[i], s)
        BY <2>1, <3>1, <1>1
      <4> QED BY <4>1, <2>1, <1>1 DEF EndsWith
    <3>2. ASSUME NEW i \in 1 .. (j - 1), Mine(p[i], s),
                 \A k \in (i + 1) .. (j - 1) : ~Mine(p[k], s)
          PROVE  Before(p[j]) = After(p[i])
      <4>1. i \in 1 .. Len(q) /\ Mine(q[i], s) /\ p[i] = q[i] /\ p[j] = a
        BY <2>1, <3>2, <1>1
      <4>2. PICK l \in 1 .. Len(q) : /\ Mine(q[l], s)
                                     /\ \A k \in 1 .. Len(q) : Mine(q[k], s) => k <= l
                                     /\ rest = After(q[l])
        BY <4>1 DEF EndsWith
      <4>3. l = i
        <5>1. i <= l
          BY <4>1, <4>2
        <5>2. ~(l \in (i + 1) .. (j - 1))
          BY <3>2, <4>2, <1>1
        <5> QED BY <5>1, <5>2, <2>1, <1>1, <4>1
      <4> QED BY <4>1, <4>2, <4>3
    <3> QED BY <3>1, <3>2, <2>1, <1>1
  <2>2. CASE j \in 1 .. Len(q)
    <3>1. p[j] = q[j] /\ \A i \in 1 .. (j - 1) : p[i] = q[i] /\ i \in 1 .. Len(q)
      BY <2>2, <1>1
    <3>2. \A i \in 1 .. (j - 1) : \A k \in (i + 1) .. (j - 1) : p[k] = q[k]
      BY <2>2, <1>1
    <3>3. /\ (\A i \in 1 .. (j - 1) : ~Mine(q[i], s)) => Before(q[j]) = ord.qty
          /\ \A i \in 1 .. (j - 1) :
               Mine(q[i], s) /\ (\A k \in (i + 1) .. (j - 1) : ~Mine(q[k], s))
                 => Before(q[j]) = After(q[i])
          /\ q[j].type # "FILLED" => q[j].exec = 0
      BY <1>3, <2>2, <3>1 DEF Chained
    <3> QED BY <3>1, <3>2, <3>3
  <2> QED BY <1>1, <2>1, <2>2
<1>4. Chained(p, ord, s)
  BY <1>3 DEF Chained
<1>5. Acknowledged(q, s) => Acknowledged(p, s)
  BY <1>1 DEF Acknowledged
<1> QED BY <1>2, <1>4, <1>5 DEF p

\* What the answers q say of a side, p says too.
SaysSame(q, p, ord, s) ==
  /\ Chained(q, ord, s) => Chained(p, ord, s)
  /\ Acknowledged(q, s) => Acknowledged(p, s)
  /\ \A left, rest : EndsWith(q, ord, s, left, rest) => EndsWith(p, ord, s, left, rest)

LEMMA AppendOther ==
  ASSUME NEW q \in Seq(AnswerSet), NEW a \in AnswerSet, NEW s, NEW ord, ~Mine(a, s)
  PROVE  SaysSame(q, Append(q, a), ord, s)
<1> DEFINE p == Append(q, a)
<1>1. /\ Len(q) \in Nat /\ Len(p) = Len(q) + 1 /\ p[Len(q) + 1] = a
      /\ \A i \in 1 .. Len(q) : p[i] = q[i]
  BY AppendFacts
<1> HIDE DEF p
<1>2. \A i \in 1 .. Len(p) : Mine(p[i], s) => i \in 1 .. Len(q)
  BY <1>1
<1>3. Chained(q, ord, s) => Chained(p, ord, s)
  <2> SUFFICES ASSUME Chained(q, ord, s), NEW j \in 1 .. Len(p), Mine(p[j], s)
      PROVE  /\ (\A i \in 1 .. (j - 1) : ~Mine(p[i], s)) => Before(p[j]) = ord.qty
             /\ \A i \in 1 .. (j - 1) :
                  Mine(p[i], s) /\ (\A k \in (i + 1) .. (j - 1) : ~Mine(p[k], s))
                    => Before(p[j]) = After(p[i])
             /\ p[j].type # "FILLED" => p[j].exec = 0
    BY DEF Chained
  <2>1. j \in 1 .. Len(q) /\ p[j] = q[j]
    BY <1>1, <1>2
  <2>2. \A i \in 1 .. (j - 1) : p[i] = q[i]
    BY <2>1, <1>1
  <2>3. \A i \in 1 .. (j - 1) : \A k \in (i + 1) .. (j - 1) : p[k] = q[k]
    BY <2>1, <1>1
  <2>4. /\ (\A i \in 1 .. (j - 1) : ~Mine(q[i], s)) => Before(q[j]) = ord.qty
        /\ \A i \in 1 .. (j - 1) :
             Mine(q[i], s) /\ (\A k \in (i + 1) .. (j - 1) : ~Mine(q[k], s))
               => Before(q[j]) = After(q[i])
        /\ q[j].type # "FILLED" => q[j].exec = 0
    BY <2>1 DEF Chained
  <2> QED BY <2>1, <2>2, <2>3, <2>4
<1>4. \A left, rest : EndsWith(q, ord, s, left, rest) => EndsWith(p, ord, s, left, rest)
  <2> SUFFICES ASSUME NEW left, NEW rest, EndsWith(q, ord, s, left, rest)
      PROVE  EndsWith(p, ord, s, left, rest)
    OBVIOUS
  <2>1. CASE \A i \in 1 .. Len(q) : ~Mine(q[i], s)
    <3>1. \A i \in 1 .. Len(p) : ~Mine(p[i], s)
      BY <2>1, <1>1, <1>2
    <3> QED BY <2>1, <3>1 DEF EndsWith
  <2>2. CASE \E i \in 1 .. Len(q) : Mine(q[i], s)
    <3>1. PICK i \in 1 .. Len(q) :
            /\ Mine(q[i], s) /\ \A j \in 1 .. Len(q) : Mine(q[j], s) => j <= i
            /\ left = q[i].leaves /\ rest = After(q[i])
      BY <2>2 DEF EndsWith
    <3>2. i \in 1 .. Len(p) /\ p[i] = q[i]
      BY <1>1
    <3>3. \A j \in 1 .. Len(p) : Mine(p[j], s) => j <= i
      BY <1>1, <1>2, <3>1
    <3> QED BY <3>1, <3>2, <3>3 DEF EndsWith
  <2> QED BY <2>1, <2>2
<1>5. Acknowledged(q, s) => Acknowledged(p, s)
  BY <1>1 DEF Acknowledged
<1> QED BY <1>3, <1>4, <1>5 DEF SaysSame, p

\* The first answer is taken: it was about another side, or the slot now says
\* what it left.
LEMMA TailOther ==
  ASSUME NEW q \in Seq(AnswerSet), q # <<>>, NEW s, NEW ord, ~Mine(q[1], s)
  PROVE  SaysSame(q, Tail(q), ord, s)
<1> DEFINE p == Tail(q)
<1>1. /\ Len(q) \in Nat /\ Len(q) >= 1 /\ Len(p) = Len(q) - 1
      /\ \A i \in 1 .. Len(p) : p[i] = q[i + 1]
  BY TailFacts
<1> HIDE DEF p
<1>2. \A i \in 1 .. Len(q) : Mine(q[i], s) => i - 1 \in 1 .. Len(p) /\ p[i - 1] = q[i]
  BY <1>1
<1>3. Chained(q, ord, s) => Chained(p, ord, s)
  <2> SUFFICES ASSUME Chained(q, ord, s), NEW j \in 1 .. Len(p), Mine(p[j], s)
      PROVE  /\ (\A i \in 1 .. (j - 1) : ~Mine(p[i], s)) => Before(p[j]) = ord.qty
             /\ \A i \in 1 .. (j - 1) :
                  Mine(p[i], s) /\ (\A k \in (i + 1) .. (j - 1) : ~Mine(p[k], s))
                    => Before(p[j]) = After(p[i])
             /\ p[j].type # "FILLED" => p[j].exec = 0
    BY DEF Chained
  <2>1. j + 1 \in 1 .. Len(q) /\ p[j] = q[j + 1] /\ (j + 1) - 1 = j
    BY <1>1
  <2>2. /\ (\A i \in 1 .. j : ~Mine(q[i], s)) => Before(q[j + 1]) = ord.qty
        /\ \A i \in 1 .. j :
             Mine(q[i], s) /\ (\A k \in (i + 1) .. j : ~Mine(q[k], s))
               => Before(q[j + 1]) = After(q[i])
        /\ q[j + 1].type # "FILLED" => q[j + 1].exec = 0
    BY <2>1 DEF Chained
  <2>3. ASSUME \A i \in 1 .. (j - 1) : ~Mine(p[i], s)
        PROVE  \A i \in 1 .. j : ~Mine(q[i], s)
    <3> SUFFICES ASSUME NEW i \in 1 .. j, Mine(q[i], s) PROVE FALSE
      OBVIOUS
    <3>1. i \in 1 .. Len(q) /\ i # 1
      BY <2>1
    <3>2. i - 1 \in 1 .. (j - 1) /\ p[i - 1] = q[i]
      BY <3>1, <1>1
    <3> QED BY <3>2, <2>3
  <2>4. ASSUME NEW i \in 1 .. (j - 1), Mine(p[i], s),
               \A k \in (i + 1) .. (j - 1) : ~Mine(p[k], s)
        PROVE  Before(p[j]) = After(p[i])
    <3>1. i + 1 \in 1 .. j /\ p[i] = q[i + 1]
      BY <1>1
    <3>2. ASSUME NEW k \in ((i + 1) + 1) .. j PROVE ~Mine(q[k], s)
      <4>1. k - 1 \in (i + 1) .. (j - 1) /\ p[k - 1] = q[k]
        BY <1>1
      <4> QED BY <4>1, <2>4
    <3> QED BY <3>1, <3>2, <2>1, <2>2, <2>4
  <2> QED BY <2>1, <2>2, <2>3, <2>4
<1>4. \A left, rest : EndsWith(q, ord, s, left, rest) => EndsWith(p, ord, s, left, rest)
  <2> SUFFICES ASSUME NEW left, NEW rest, EndsWith(q, ord, s, left, rest)
      PROVE  EndsWith(p, ord, s, left, rest)
    OBVIOUS
  <2>1. CASE \A i \in 1 .. Len(q) : ~Mine(q[i], s)
    <3>1. \A i \in 1 .. Len(p) : ~Mine(p[i], s)
      BY <2>1, <1>1
    <3> QED BY <2>1, <3>1 DEF EndsWith
  <2>2. CASE \E i \in 1 .. Len(q) : Mine(q[i], s)
    <3>1. PICK i \in 1 .. Len(q) :
            /\ Mine(q[i], s) /\ \A j \in 1 .. Len(q) : Mine(q[j], s) => j <= i
            /\ left = q[i].leaves /\ rest = After(q[i])
      BY <2>2 DEF EndsWith
    <3>2. i - 1 \in 1 .. Len(p) /\ p[i - 1] = q[i]
      BY <3>1, <1>2
    <3>3. \A j \in 1 .. Len(p) : Mine(p[j], s) => j <= i - 1
      BY <1>1, <3>1
    <3> QED BY <3>1, <3>2, <3>3 DEF EndsWith
  <2> QED BY <2>1, <2>2
<1>5. Acknowledged(q, s) => Acknowledged(p, s)
  BY <1>2 DEF Acknowledged
<1> QED BY <1>3, <1>4, <1>5 DEF SaysSame, p

LEMMA TailMine ==
  ASSUME NEW q \in Seq(AnswerSet), q # <<>>, NEW s, NEW ord, NEW new, Mine(q[1], s),
         Chained(q, ord, s), NEW left, NEW rest, EndsWith(q, ord, s, left, rest),
         new.qty = q[1].leaves, \A i \in 1 .. Len(q) : Mine(q[i], s) => Before(q[i]) >= 1
  PROVE  LET p == Tail(q) IN
         /\ Chained(p, new, s)
         /\ \/ EndsWith(p, new, s, left, rest)
            \/ q[1].type = "CANCELED" /\ EndsWith(p, new, s, left, new.qty)
<1> DEFINE p == Tail(q)
<1>1. /\ Len(q) \in Nat /\ Len(q) >= 1 /\ Len(p) = Len(q) - 1
      /\ \A i \in 1 .. Len(p) : p[i] = q[i + 1]
  BY TailFacts
<1> HIDE DEF p
<1>2. 1 \in 1 .. Len(q) /\ q[1] \in AnswerSet
  BY <1>1, ElementOfSeq
<1>3. ASSUME NEW j \in 1 .. Len(p), Mine(p[j], s)
      PROVE  /\ (\A i \in 1 .. (j - 1) : ~Mine(p[i], s)) => Before(p[j]) = new.qty
             /\ \A i \in 1 .. (j - 1) :
                  Mine(p[i], s) /\ (\A k \in (i + 1) .. (j - 1) : ~Mine(p[k], s))
                    => Before(p[j]) = After(p[i])
             /\ p[j].type # "FILLED" => p[j].exec = 0
  <2>1. j + 1 \in 1 .. Len(q) /\ p[j] = q[j + 1] /\ (j + 1) - 1 = j
    BY <1>1
  <2>2. /\ \A i \in 1 .. j :
             Mine(q[i], s) /\ (\A k \in (i + 1) .. j : ~Mine(q[k], s))
               => Before(q[j + 1]) = After(q[i])
        /\ q[j + 1].type # "FILLED" => q[j + 1].exec = 0
    BY <1>3, <2>1 DEF Chained
  <2>3. ASSUME \A i \in 1 .. (j - 1) : ~Mine(p[i], s)
        PROVE  Before(p[j]) = new.qty
    <3>1. ASSUME NEW k \in (1 + 1) .. j PROVE ~Mine(q[k], s)
      <4>1. k - 1 \in 1 .. (j - 1) /\ p[k - 1] = q[k]
        BY <1>1
      <4> QED BY <4>1, <2>3
    <3>2. 1 \in 1 .. j
      OBVIOUS
    <3>3. Before(q[j + 1]) = After(q[1])
      BY <2>2, <3>1, <3>2
    <3>4. After(q[1]) # 0
      BY <3>3, <1>3, <2>1
    <3> QED BY <3>3, <3>4, <2>1 DEF After
  <2>4. ASSUME NEW i \in 1 .. (j - 1), Mine(p[i], s),
               \A k \in (i + 1) .. (j - 1) : ~Mine(p[k], s)
        PROVE  Before(p[j]) = After(p[i])
    <3>1. i + 1 \in 1 .. j /\ p[i] = q[i + 1]
      BY <1>1
    <3>2. ASSUME NEW k \in ((i + 1) + 1) .. j PROVE ~Mine(q[k], s)
      <4>1. k - 1 \in (i + 1) .. (j - 1) /\ p[k - 1] = q[k]
        BY <1>1
      <4> QED BY <4>1, <2>4
    <3> QED BY <3>1, <3>2, <2>1, <2>2, <2>4
  <2> QED BY <2>1, <2>2, <2>3, <2>4
<1>4. PICK i \in 1 .. Len(q) :
        /\ Mine(q[i], s) /\ \A j \in 1 .. Len(q) : Mine(q[j], s) => j <= i
        /\ left = q[i].leaves /\ rest = After(q[i])
  BY <1>2 DEF EndsWith
<1>5. CASE i = 1
  <2>1. \A j \in 1 .. Len(p) : ~Mine(p[j], s)
    BY <1>1, <1>4, <1>5
  <2>2. EndsWith(p, new, s, left, new.qty)
    BY <2>1, <1>4, <1>5 DEF EndsWith
  <2>3. q[1].type # "CANCELED" => rest = new.qty
    BY <1>4, <1>5 DEF After
  <2> QED BY <1>3, <2>2, <2>3 DEF Chained, p
<1>6. CASE i # 1
  <2>1. i - 1 \in 1 .. Len(p) /\ p[i - 1] = q[i]
    BY <1>1, <1>6
  <2>2. \A j \in 1 .. Len(p) : Mine(p[j], s) => j <= i - 1
    BY <1>1, <1>4
  <2>3. EndsWith(p, new, s, left, rest)
    BY <2>1, <2>2, <1>4 DEF EndsWith
  <2> QED BY <1>3, <2>3 DEF Chained, p
<1> QED BY <1>5, <1>6

-----------------------------------------------------------------------------
\* A side nothing happens to.
LEMMA SideKept ==
  ASSUME NEW m, NEW n, NEW q, NEW p, NEW o, NEW u, NEW s, NEW due,
         Booked(m, q, o, s, due), n.order[s] = m.order[s],
         Sent(n, s) <=> Sent(m, s),
         CancelSent(m, s) => CancelSent(n, s) \/ u[m.order[s].id].left = 0,
         Active(m.order[s]) => u[m.order[s].id].left = o[m.order[s].id].left,
         SaysSame(q, p, m.order[s], s)
  PROVE  Booked(n, p, u, s, due)
<1>1. /\ Chained(p, n.order[s], s)
      /\ Active(n.order[s]) => n.order[s].qty >= 1
      /\ n.order[s].state = "PENDING_NEW" => Sent(n, s) \/ Acknowledged(p, s)
  BY DEF Booked, SaysSame
<1>2. n.order[s].state = "PENDING_CANCEL" =>
        CancelSent(n, s) \/ u[n.order[s].id].left = 0
  BY DEF Booked, Active
<1>3. PICK left \in 0 .. Clip, rest \in 0 .. Clip :
        /\ EndsWith(q, m.order[s], s, left, rest)
        /\ Active(m.order[s]) /\ ~Sent(m, s) => rest = o[m.order[s].id].left
        /\ due = m.order[s].qty - left
  BY DEF Booked
<1>4. EndsWith(p, n.order[s], s, left, rest)
  BY <1>3 DEF SaysSame
<1> QED BY <1>1, <1>2, <1>3, <1>4 DEF Booked

LEMMA SaysSameItself == \A q, ord, s : SaysSame(q, q, ord, s)
  BY DEF SaysSame

\* The two sides, one of them named.
LEMMA SidesOf ==
  ASSUME NEW m, NEW q, NEW o, NEW due, NEW s \in Sides, Exact(m, q, o, due)
  PROVE  \E a, b \in Int : /\ Booked(m, q, o, s, a) /\ Booked(m, q, o, OtherSide(s), b)
                           /\ due = SideToValue(s) * (a - b)
  BY DEF Exact, OtherSide, SideToValue, Sides

LEMMA SidesTo ==
  ASSUME NEW m, NEW q, NEW o, NEW s \in Sides, TwoOrders(m), NEW a \in Int, NEW b \in Int,
         Booked(m, q, o, s, a), Booked(m, q, o, OtherSide(s), b)
  PROVE  Exact(m, q, o, SideToValue(s) * (a - b))
<1>1. CASE s = "BUY"
  BY <1>1 DEF Exact, OtherSide, SideToValue
<1>2. CASE s = "SELL"
  <2>1. SideToValue(s) * (a - b) = b - a
    BY <1>2 DEF SideToValue
  <2> QED BY <1>2, <2>1 DEF Exact, OtherSide
<1> QED BY <1>1, <1>2 DEF Sides

\* Without answers of its own a side owes nothing and says what its slot says.
LEMMA NothingUnderWay ==
  ASSUME NEW q \in Seq(AnswerSet), NEW ord, NEW s, NEW left, NEW rest,
         \A i \in 1 .. Len(q) : ~Mine(q[i], s)
  PROVE  /\ Chained(q, ord, s)
         /\ EndsWith(q, ord, s, left, rest) <=> left = ord.qty /\ rest = ord.qty
  BY DEF Chained, EndsWith

-----------------------------------------------------------------------------
LEMMA InitJInv == Init => JInv
<1> SUFFICES ASSUME Init PROVE Exact(om, responses, open, traded - position)
  BY DEF JInv
<1> USE TradeEngineAssumption
<1>1. /\ \A s \in Sides : om.order[s].id = 0 /\ om.order[s].qty = 0
                          /\ om.order[s].state = "INVALID"
      /\ responses \in Seq(AnswerSet) /\ Len(responses) = 0
      /\ traded - position = 0
  BY DEF Init
<1>2. ASSUME NEW s \in Sides PROVE Booked(om, responses, open, s, 0)
  <2>1. \A i \in 1 .. Len(responses) : ~Mine(responses[i], s)
    BY <1>1
  <2>2. /\ Chained(responses, om.order[s], s)
        /\ EndsWith(responses, om.order[s], s, 0, 0)
    BY <1>1, <2>1, NothingUnderWay
  <2>3. 0 \in 0 .. Clip
    OBVIOUS
  <2> QED BY <1>1, <1>2, <2>2, <2>3 DEF Booked, Active
<1>3. TwoOrders(om)
  BY <1>1 DEF TwoOrders, Sides
<1> QED BY <1>1, <1>2, <1>3 DEF Exact, Sides

\* A new order of an empty or finished slot.
LEMMA NewOrderExact ==
  ASSUME Types, NEW m, Formed(m), Tracked(m), NEW side \in Sides, NEW price,
         ~Active(m.order[side]), NEW due, Exact(m, responses, open, due)
  PROVE  Exact(NewOrder(m, side, price), responses, open, due)
<1> USE TradeEngineAssumption
<1> DEFINE n == NewOrder(m, side, price)
           slot == [state |-> "PENDING_NEW", id |-> m.next, price |-> price,
                    qty |-> Clip]
           req == [type |-> "NEW", id |-> m.next, side |-> side]
           other == OtherSide(side)
<1>1. /\ m.order \in [Sides -> Slots] /\ m.next \in Nat /\ m.next >= 1
      /\ m.requests \in Seq(Requests) /\ responses \in Seq(AnswerSet)
  BY DEF Formed, Managers, Types
<1>2. /\ n.order = [m.order EXCEPT ![side] = slot]
      /\ n.requests = Append(m.requests, req)
  BY DEF NewOrder, Formed, Managers
<1>3. /\ n.order[side] = slot /\ n.order[other] = m.order[other]
      /\ other \in Sides /\ other # side
  BY <1>1, <1>2 DEF OtherSide, Sides
<1>4. /\ Len(m.requests) \in Nat /\ Len(n.requests) = Len(m.requests) + 1
      /\ \A i \in 1 .. Len(m.requests) : n.requests[i] = m.requests[i]
      /\ n.requests[Len(m.requests) + 1] = req
  <2>1. req \in Requests
    BY <1>1 DEF Requests
  <2> QED BY <1>1, <1>2, <2>1, AppendFacts
<1> HIDE DEF n, other
<1>5. PICK a \in Int, b \in Int :
        /\ Booked(m, responses, open, side, a) /\ Booked(m, responses, open, other, b)
        /\ due = SideToValue(side) * (a - b)
  BY SidesOf DEF other
<1>6. \A i \in 1 .. Len(responses) : ~Mine(responses[i], side)
  BY DEF Mine, Tracked, AnswersFit
<1>7. a = 0
  <2>1. m.order[side].qty \in 0 .. Clip
    BY <1>1 DEF Slots
  <2> QED BY <1>1, <1>5, <1>6, <2>1, NothingUnderWay DEF Booked
<1>8. Booked(n, responses, open, side, 0)
  <2>1. /\ Chained(responses, n.order[side], side)
        /\ EndsWith(responses, n.order[side], side, Clip, Clip)
    BY <1>1, <1>3, <1>6, NothingUnderWay
  <2>2. Sent(n, side)
    BY <1>4 DEF Sent
  <2>3. Clip \in 0 .. Clip /\ Clip >= 1
    OBVIOUS
  <2> QED BY <1>3, <2>1, <2>2, <2>3 DEF Booked
<1>9. Booked(n, responses, open, other, b)
  <2>1. Sent(n, other) <=> Sent(m, other)
    <3>1. ASSUME NEW k \in 1 .. Len(n.requests), n.requests[k].side = other
          PROVE  k \in 1 .. Len(m.requests) /\ m.requests[k] = n.requests[k]
      <4>1. k # Len(m.requests) + 1
        BY <1>3, <1>4, <3>1
      <4> QED BY <4>1, <1>4
    <3>2. \A k \in 1 .. Len(m.requests) :
            k \in 1 .. Len(n.requests) /\ m.requests[k] = n.requests[k]
      BY <1>4
    <3> QED BY <3>1, <3>2 DEF Sent
  <2>2. CancelSent(m, other) => CancelSent(n, other)
    BY <1>3, <1>4 DEF CancelSent
  <2> QED BY <1>3, <1>5, <2>1, <2>2, SideKept, SaysSameItself
<1>10. TwoOrders(n)
  <2>1. \A s \in Sides : m.order[s].id < m.next
    BY DEF Formed
  <2>2. n.order[side].id # n.order[other].id
    BY <1>1, <1>3, <2>1 DEF Slots
  <2> QED BY <1>3, <2>2 DEF TwoOrders, other, OtherSide, Sides
<1>11. SideToValue(side) * (0 - b) = due
  BY <1>5, <1>7
<1>12. Exact(n, responses, open, SideToValue(side) * (0 - b))
  BY <1>5, <1>8, <1>9, <1>10, SidesTo DEF other
<1> QED BY <1>11, <1>12 DEF n

\* A live order is cancelled.
LEMMA CancelOrderExact ==
  ASSUME Types, NEW m, Formed(m), NEW side \in Sides, m.order[side].state = "LIVE",
         NEW due, Exact(m, responses, open, due)
  PROVE  Exact(CancelOrder(m, side), responses, open, due)
<1> DEFINE n == CancelOrder(m, side)
           req == [type |-> "CANCEL", id |-> m.order[side].id, side |-> side]
           other == OtherSide(side)
<1>1. /\ m.order \in [Sides -> Slots] /\ m.requests \in Seq(Requests)
  BY DEF Formed, Managers
<1>2. /\ n.order = [m.order EXCEPT ![side].state = "PENDING_CANCEL"]
      /\ n.requests = Append(m.requests, req)
  BY DEF CancelOrder, Formed, Managers
<1>3. /\ n.order[side].state = "PENDING_CANCEL" /\ n.order[side].qty = m.order[side].qty
      /\ n.order[side].id = m.order[side].id
      /\ n.order[other] = m.order[other] /\ other \in Sides /\ other # side
  BY <1>1, <1>2 DEF OtherSide, Sides, Slots
<1>4. /\ Len(m.requests) \in Nat /\ Len(n.requests) = Len(m.requests) + 1
      /\ \A i \in 1 .. Len(m.requests) : n.requests[i] = m.requests[i]
      /\ n.requests[Len(m.requests) + 1] = req
  <2>1. req \in Requests
    BY <1>1 DEF Requests, Slots
  <2> QED BY <1>1, <1>2, <2>1, AppendFacts
<1> HIDE DEF n, other
<1>5. PICK a \in Int, b \in Int :
        /\ Booked(m, responses, open, side, a) /\ Booked(m, responses, open, other, b)
        /\ due = SideToValue(side) * (a - b)
  BY SidesOf DEF other
<1>6. \A s \in Sides : /\ Sent(n, s) <=> Sent(m, s)
                       /\ CancelSent(m, s) => CancelSent(n, s)
  <2>1. \A s \in Sides : n.order[s].id = m.order[s].id
    BY <1>3 DEF other, OtherSide, Sides
  <2> QED BY <1>4, <2>1, SMTT(40) DEF Sent, CancelSent
<1>7. Booked(n, responses, open, side, a)
  <2>1. CancelSent(n, side)
    BY <1>3, <1>4 DEF CancelSent
  <2>2. Chained(responses, n.order[side], side)
    BY <1>3, <1>5 DEF Booked, Chained
  <2>3. \A left, rest : EndsWith(responses, m.order[side], side, left, rest)
                         => EndsWith(responses, n.order[side], side, left, rest)
    BY <1>3 DEF EndsWith
  <2>4. PICK left \in 0 .. Clip, rest \in 0 .. Clip :
          /\ EndsWith(responses, m.order[side], side, left, rest)
          /\ ~Sent(m, side) => rest = open[m.order[side].id].left
          /\ a = m.order[side].qty - left
    BY <1>5 DEF Booked, Active
  <2>5. m.order[side].qty >= 1
    BY <1>5 DEF Booked, Active
  <2> QED BY <1>3, <1>6, <2>1, <2>2, <2>3, <2>4, <2>5 DEF Booked
<1>8. Booked(n, responses, open, other, b)
  BY <1>3, <1>5, <1>6, SideKept, SaysSameItself
<1>9. TwoOrders(n)
  BY <1>3, <1>5 DEF Exact, TwoOrders, other, OtherSide, Sides
<1> QED BY <1>5, <1>7, <1>8, <1>9, SidesTo DEF n, other

LEMMA MoveOrderExact ==
  ASSUME Types, NEW m, Formed(m), Tracked(m), NEW side \in Sides, NEW price,
         NEW loss, NEW due, Exact(m, responses, open, due)
  PROVE  Exact(MoveOrder(m, side, price, loss), responses, open, due)
<1>1. m.order[side].state \in {"INVALID", "DEAD"} => ~Active(m.order[side])
  BY DEF Active
<1> QED BY <1>1, NewOrderExact, CancelOrderExact DEF MoveOrder

LEMMA MoveOrdersExact == IInv /\ JInv /\ MoveOrders => JInv'
<1> SUFFICES ASSUME IInv, JInv, MoveOrders, client = TickerId, others = 0
    PROVE  Exact(om', responses, open, traded - position)
  BY DEF JInv, MoveOrders, exchange
<1>1. PICK price \in Prices \cup {PriceInvalid}, loss \in BOOLEAN :
        om' = MoveOrder(MoveOrder(om, "BUY", price, loss), "SELL", price, loss)
  BY DEF MoveOrders
<1> DEFINE m == MoveOrder(om, "BUY", price, loss)
<1>2. /\ Types /\ Formed(om) /\ Tracked(om) /\ om.next <= MaxOrders
      /\ Exact(om, responses, open, traded - position)
  BY TradeEngineAssumption DEF IInv, JInv, Types, MoveOrders, Formed
<1>3. "BUY" \in Sides /\ "SELL" \in Sides
  BY DEF Sides
<1>4. Formed(m) /\ Tracked(m)
  BY <1>2, <1>3, MoveOrderKeeps
<1>5. Exact(m, responses, open, traded - position)
  BY <1>2, <1>3, MoveOrderExact
<1> HIDE DEF m
<1>6. Exact(MoveOrder(m, "SELL", price, loss), responses, open, traded - position)
  BY <1>2, <1>3, <1>4, <1>5, MoveOrderExact
<1> QED BY <1>1, <1>6 DEF m

-----------------------------------------------------------------------------
\* OrderManager::onOrderUpdate and addFill take the first answer.
LEMMA OnOrderUpdateExact == IInv /\ JInv /\ OnOrderUpdate => JInv'
<1> SUFFICES ASSUME IInv, JInv, OnOrderUpdate, client = TickerId, others = 0
    PROVE  Exact(om', responses', open, traded - position')
  BY DEF JInv, OnOrderUpdate, exchange
<1> DEFINE r == responses[1]
           p == Tail(responses)
<1>1. /\ Types /\ Formed(om) /\ Tracked(om) /\ responses \in Seq(AnswerSet)
      /\ responses # <<>> /\ position \in Int /\ traded \in Int
      /\ Exact(om, responses, open, traded - position)
  BY DEF IInv, JInv, Types, OnOrderUpdate
<1>2. /\ om \in Managers /\ om.order \in [Sides -> Slots] /\ om.requests \in Seq(Requests)
  BY <1>1 DEF Formed, Managers
<1>3. /\ Len(responses) \in Nat /\ 1 \in 1 .. Len(responses)
      /\ Head(responses) = r /\ r \in AnswerSet
      /\ Len(p) = Len(responses) - 1
      /\ \A i \in 1 .. Len(p) : p[i] = responses[i + 1]
  BY <1>1, TailFacts
<1>4. /\ position' = AddFill(r) /\ responses' = p
      /\ om' = IF r.type = "CANCEL_REJECTED" THEN om
               ELSE [om EXCEPT !.order[r.side] = OrderUpdate(@, r)]
  BY <1>3 DEF OnOrderUpdate
<1> HIDE DEF r, p
<1>5. CASE ~Own(r)
  <2>1. om' = om /\ position' = position
    BY <1>4, <1>5 DEF Own, AddFill
  <2>2. \A s \in Sides : SaysSame(responses, p, om.order[s], s)
    <3>1. \A s \in Sides : ~Mine(responses[1], s)
      BY <1>5 DEF Mine, r
    <3> QED BY <1>1, <3>1, TailOther DEF p
  <2>3. PICK a \in Int, b \in Int :
          /\ Booked(om, responses, open, "BUY", a) /\ Booked(om, responses, open, "SELL", b)
          /\ traded - position = a - b
    BY <1>1 DEF Exact
  <2>4. Booked(om, p, open, "BUY", a) /\ Booked(om, p, open, "SELL", b)
    BY <2>2, <2>3, SideKept DEF Sides
  <2>5. TwoOrders(om)
    BY <1>1 DEF Exact
  <2> QED BY <1>4, <2>1, <2>3, <2>4, <2>5 DEF Exact
<1>6. CASE Own(r)
  <2> DEFINE s == r.side
             ord == om.order[s]
             new == OrderUpdate(ord, r)
             other == OtherSide(s)
  <2>1. /\ s \in Sides /\ other \in Sides /\ other # s
        /\ ord \in Slots /\ Mine(r, s) /\ ~Mine(r, other)
    BY <1>1, <1>2, <1>3, <1>6 DEF Types, OtherSide, Sides, Mine, r
  <2>2. r.type \in {"ACCEPTED", "FILLED", "CANCELED"} /\ r.exec \in Nat /\ r.leaves \in Nat
    BY <1>3, <1>6, AnswerNumbers DEF Own, AnswerSet
  <2>3. /\ new.id = ord.id
        /\ r.type = "ACCEPTED" => new.state = "LIVE" /\ new.qty = ord.qty
        /\ r.type = "CANCELED" => new.state = "DEAD" /\ new.qty = ord.qty
        /\ r.type = "FILLED" => /\ new.qty = r.leaves
                                /\ new.state = IF r.leaves = 0 THEN "DEAD" ELSE ord.state
    BY <2>1, <2>2 DEF OrderUpdate, Slots
  <2>4. om'.order = [om.order EXCEPT ![s] = new] /\ om'.requests = om.requests
    BY <1>2, <1>4, <1>6, <2>1 DEF Own, Managers
  <2> HIDE DEF new
  <2>5. /\ om'.order[s] = new /\ om'.order[other] = om.order[other]
        /\ \A t \in Sides : om'.order[t].id = om.order[t].id
    BY <1>2, <2>1, <2>3, <2>4
  <2> HIDE DEF other, ord, s
  <2>6. /\ \A t \in Sides : Sent(om', t) <=> Sent(om, t)
        /\ \A t \in Sides : CancelSent(om', t) <=> CancelSent(om, t)
    BY <2>4, <2>5 DEF Sent, CancelSent
  <2>7. PICK a \in Int, b \in Int :
          /\ Booked(om, responses, open, s, a) /\ Booked(om, responses, open, other, b)
          /\ traded - position = SideToValue(s) * (a - b)
    BY <1>1, <2>1, SidesOf DEF other
  <2>8. /\ Before(r) = ord.qty
        /\ r.type # "FILLED" => r.exec = 0
    <3>1. Chained(responses, ord, s)
      BY <2>7 DEF Booked, ord
    <3>2. \A i \in 1 .. (1 - 1) : ~Mine(responses[i], s)
      OBVIOUS
    <3> QED BY <3>1, <3>2, <1>3, <2>1 DEF Chained, r
  <2>9. new.qty = r.leaves /\ ord.qty = r.exec + new.qty
    BY <2>2, <2>3, <2>8 DEF Before
  <2>10. /\ Active(ord) /\ ~Sent(om, s)
         /\ \A i \in 1 .. Len(responses) : Mine(responses[i], s) => Before(responses[i]) >= 1
    BY <1>1, <1>3, <1>6 DEF Tracked, AnswersFit, RequestsFresh, Sent, Mine, r, ord, s
  <2>11. PICK left \in 0 .. Clip, rest \in 0 .. Clip :
           /\ EndsWith(responses, ord, s, left, rest)
           /\ rest = open[ord.id].left
           /\ a = ord.qty - left
    BY <2>7, <2>10 DEF Booked, ord
  <2>12. /\ Chained(p, new, s)
         /\ \/ EndsWith(p, new, s, left, rest)
            \/ r.type = "CANCELED" /\ EndsWith(p, new, s, left, new.qty)
    <3>1. Chained(responses, ord, s)
      BY <2>7 DEF Booked, ord
    <3>2. Mine(responses[1], s) /\ new.qty = responses[1].leaves
      BY <2>1, <2>9 DEF r
    <3> QED BY <1>1, <2>10, <2>11, <3>1, <3>2, TailMine DEF p, r
  <2>13. Booked(om', p, open, s, a - r.exec)
    <3>1. Active(new) => new.qty >= 1
      <4>1. ord.qty >= 1
        BY <2>7, <2>10 DEF Booked, ord
      <4> QED BY <4>1, <2>2, <2>3 DEF Active
    <3>2. new.state = "PENDING_NEW" => Acknowledged(p, s)
      <4> SUFFICES ASSUME new.state = "PENDING_NEW" PROVE Acknowledged(p, s)
        OBVIOUS
      <4>1. r.type = "FILLED" /\ ord.state = "PENDING_NEW"
        BY <2>2, <2>3
      <4>2. Acknowledged(responses, s)
        BY <4>1, <2>7, <2>10 DEF Booked, ord
      <4>3. PICK i \in 1 .. Len(responses) :
              Mine(responses[i], s) /\ responses[i].type = "ACCEPTED"
        BY <4>2 DEF Acknowledged
      <4>4. i # 1
        BY <4>1, <4>3 DEF r
      <4>5. i - 1 \in 1 .. Len(p) /\ p[i - 1] = responses[i]
        BY <4>4, <1>3
      <4> QED BY <4>3, <4>5 DEF Acknowledged
    <3>3. new.state = "PENDING_CANCEL" =>
            CancelSent(om', s) \/ open[new.id].left = 0
      <4>1. new.state = "PENDING_CANCEL" => ord.state = "PENDING_CANCEL"
        BY <2>2, <2>3
      <4> QED BY <4>1, <2>1, <2>3, <2>6, <2>7 DEF Booked, ord
    <3>4. a - r.exec = new.qty - left
      <4>1. ord.qty \in Nat /\ new.qty \in Nat
        BY <2>2, <2>9
      <4> QED BY <4>1, <2>2, <2>9, <2>11
    <3>5. CASE EndsWith(p, new, s, left, rest)
      BY <3>1, <3>2, <3>3, <3>4, <3>5, <2>3, <2>5, <2>11, <2>12 DEF Booked
    <3>6. CASE r.type = "CANCELED" /\ EndsWith(p, new, s, left, new.qty)
      <4>1. new.qty \in 0 .. Clip
        BY <1>3, <2>9, AnswerNumbers
      <4>2. ~Active(new)
        BY <3>6, <2>3 DEF Active
      <4> QED BY <3>2, <3>3, <3>4, <3>6, <4>1, <4>2, <2>5, <2>12 DEF Booked
    <3> QED BY <3>5, <3>6, <2>12
  <2>14. Booked(om', p, open, other, b)
    <3>1. SaysSame(responses, p, om.order[other], other)
      BY <1>1, <2>1, TailOther DEF p, r
    <3> QED BY <3>1, <2>1, <2>5, <2>6, <2>7, SideKept
  <2>15. TwoOrders(om')
    BY <1>1, <2>5 DEF Exact, TwoOrders, Sides
  <2>16. a - r.exec \in Int /\ r.exec \in Int
    BY <2>2
  <2>17. Exact(om', p, open, SideToValue(s) * ((a - r.exec) - b))
    BY <2>1, <2>13, <2>14, <2>15, <2>16, SidesTo DEF other
  <2>18. traded - position' = SideToValue(s) * ((a - r.exec) - b)
    <3>1. position' = position + SideToValue(s) * r.exec
      <4>1. CASE r.type = "FILLED"
        BY <4>1, <1>4 DEF AddFill, s
      <4>2. CASE r.type # "FILLED"
        <5>1. position' = position /\ r.exec = 0
          BY <4>2, <1>4, <2>8 DEF AddFill
        <5>2. SideToValue(s) \in Int
          BY DEF SideToValue
        <5> QED BY <5>1, <5>2, <1>1
      <4> QED BY <4>1, <4>2
    <3>2. CASE s = "BUY"
      <4>1. position' = position + r.exec
        BY <3>1, <3>2, <2>16 DEF SideToValue
      <4>2. traded - position = a - b
        BY <3>2, <2>7 DEF SideToValue
      <4>3. SideToValue(s) * ((a - r.exec) - b) = (a - r.exec) - b
        BY <3>2, <2>16 DEF SideToValue
      <4>4. traded \in Int /\ position \in Int
        BY <1>1
      <4> QED BY <4>1, <4>2, <4>3, <4>4, <2>16
    <3>3. CASE s = "SELL"
      <4>1. position' = position - r.exec
        <5>1. position \in Int
          BY <1>1
        <5> QED BY <5>1, <3>1, <3>3, <2>16 DEF SideToValue
      <4>2. traded - position = b - a
        BY <3>3, <2>7 DEF SideToValue
      <4>3. SideToValue(s) * ((a - r.exec) - b) = b - (a - r.exec)
        BY <3>3, <2>16 DEF SideToValue
      <4>4. traded \in Int /\ position \in Int
        BY <1>1
      <4> QED BY <4>1, <4>2, <4>3, <4>4, <2>16
    <3> QED BY <3>2, <3>3, <2>1 DEF Sides
  <2> QED BY <1>4, <2>17, <2>18
<1> QED BY <1>5, <1>6

-----------------------------------------------------------------------------
\* An event of an order the exchange holds: a fill or its cancel.
LEMMA ReportExact ==
  ASSUME Types, Tracked(om), NEW due \in Int, Exact(om, responses, open, due),
         NEW k \in Ids, NEW r \in AnswerSet, NEW v \in 0 .. Clip, NEW n,
         open[k].left > 0, r.type \in {"FILLED", "CANCELED"}, r.side = open[k].side,
         Before(r) = open[k].left, After(r) = v, r.type = "CANCELED" => r.exec = 0,
         n.order = om.order, \A s \in Sides : Sent(n, s) <=> Sent(om, s),
         \A s \in Sides : CancelSent(om, s) =>
           CancelSent(n, s) \/ [open EXCEPT ![k].left = v][om.order[s].id].left = 0,
         r.type = "CANCELED" => v = 0
  PROVE  Exact(n, Append(responses, r), [open EXCEPT ![k].left = v],
               due + SideToValue(r.side) * r.exec)
<1> USE TradeEngineAssumption
<1> DEFINE s == r.side
           ord == om.order[s]
           other == OtherSide(s)
           p == Append(responses, r)
           u == [open EXCEPT ![k].left = v]
<1>1. /\ responses \in Seq(AnswerSet) /\ open \in [Ids -> [side : Sides, left : 0 .. Clip]]
      /\ om.order \in [Sides -> Slots]
  BY DEF Types, Formed, Managers
<1>2. s \in Sides /\ other \in Sides /\ other # s /\ Mine(r, s) /\ ~Mine(r, other)
  BY <1>1 DEF OtherSide, Sides, Mine, Own
<1>3. /\ u[k].left = v /\ \A j \in Ids : j # k => u[j] = open[j]
  BY <1>1
<1>4. /\ k = ord.id /\ Active(ord) /\ ~Sent(om, s)
  BY DEF Tracked, OpenFits, RequestsFresh, Sent
<1>a. /\ \A t \in Sides : n.order[t] = om.order[t]
      /\ n.order[s] = ord /\ om.order[s] = ord
      /\ \A t \in Sides : CancelSent(om, t) =>
           CancelSent(n, t) \/ u[om.order[t].id].left = 0
  OBVIOUS
<1> HIDE DEF u, other, p, s, ord
<1>5. PICK a \in Int, b \in Int :
        /\ Booked(om, responses, open, s, a) /\ Booked(om, responses, open, other, b)
        /\ due = SideToValue(s) * (a - b)
  BY <1>2, SidesOf DEF other
<1>6. PICK left \in 0 .. Clip, rest \in 0 .. Clip :
        /\ EndsWith(responses, ord, s, left, rest)
        /\ rest = open[k].left /\ a = ord.qty - left
  BY <1>a, <1>4, <1>5 DEF Booked
<1>7. left = rest
  <2>1. rest # 0
    BY <1>6
  <2> QED BY <1>6, <2>1 DEF EndsWith, After
<1>8. /\ EndsWith(p, ord, s, r.leaves, v) /\ Chained(p, ord, s)
      /\ Acknowledged(responses, s) => Acknowledged(p, s)
  <2>1. Chained(responses, ord, s)
    BY <1>a, <1>5 DEF Booked
  <2>2. r.type # "FILLED" => r.exec = 0
    OBVIOUS
  <2> QED BY <1>1, <1>2, <1>6, <2>1, <2>2, AppendMine DEF p
<1>9. /\ r.leaves \in 0 .. Clip /\ r.exec \in Nat /\ ord.qty \in Nat
      /\ a + r.exec = ord.qty - r.leaves
  <2>1. r.leaves \in 0 .. Clip /\ r.exec \in Nat /\ ord.qty \in Nat
    <3>1. ord \in Slots
      BY <1>1, <1>2, <1>a
    <3>2. ord.qty \in 0 .. Clip
      BY <3>1 DEF Slots
    <3>3. r.leaves \in 0 .. Clip /\ r.exec \in 0 .. Clip
      BY AnswerNumbers
    <3> QED BY <3>2, <3>3
  <2> QED BY <2>1, <1>6, <1>7 DEF Before
<1>10. Booked(n, p, u, s, a + r.exec)
  <2>1. ord.state = "PENDING_CANCEL" => CancelSent(n, s) \/ u[ord.id].left = 0
    <3>1. ord.state = "PENDING_CANCEL" => CancelSent(om, s) \/ open[k].left = 0
      BY <1>a, <1>4, <1>5 DEF Booked
    <3> QED BY <3>1, <1>a, <1>2
  <2>2. /\ Active(ord) => ord.qty >= 1
        /\ ord.state = "PENDING_NEW" => Acknowledged(p, s)
    BY <1>a, <1>4, <1>5, <1>8 DEF Booked
  <2> QED BY <2>1, <2>2, <1>a, <1>3, <1>4, <1>8, <1>9 DEF Booked
<1>11. Booked(n, p, u, other, b)
  <2>1. SaysSame(responses, p, om.order[other], other)
    BY <1>1, <1>2, AppendOther DEF p
  <2>2. Active(om.order[other]) => u[om.order[other].id].left = open[om.order[other].id].left
    <3> SUFFICES ASSUME Active(om.order[other])
        PROVE  u[om.order[other].id].left = open[om.order[other].id].left
      OBVIOUS
    <3>1. om.order[other].id \in Ids
      <4>1. /\ om.order[other].id \in Nat /\ om.order[other].id >= 1
            /\ om.order[other].id < om.next /\ om.next \in 1 .. (MaxOrders + 1)
        BY <1>1, <1>2 DEF Types, Formed, Slots
      <4> QED BY <4>1 DEF Ids
    <3>2. om.order[other].id # k
      <4>1. TwoOrders(om)
        BY DEF Exact
      <4>2. om.order[other].id = om.order[s].id => om.order[other].id = 0
        BY <4>1, <1>2 DEF TwoOrders, Sides
      <4> QED BY <4>2, <3>1, <1>a, <1>4 DEF Ids
    <3> QED BY <3>1, <3>2, <1>3
  <2> QED BY <2>1, <2>2, <1>a, <1>2, <1>5, SideKept
<1>12. TwoOrders(n)
  BY DEF Exact, TwoOrders
<1>13. /\ a + r.exec \in Int
       /\ due + SideToValue(s) * r.exec = SideToValue(s) * ((a + r.exec) - b)
  <2>1. CASE s = "BUY"
    BY <2>1, <1>5, <1>9 DEF SideToValue
  <2>2. CASE s = "SELL"
    BY <2>2, <1>5, <1>9 DEF SideToValue
  <2> QED BY <2>1, <2>2, <1>2 DEF Sides
<1>14. Exact(n, p, u, SideToValue(s) * ((a + r.exec) - b))
  BY <1>2, <1>10, <1>11, <1>12, <1>13, SidesTo DEF other
<1> QED BY <1>13, <1>14 DEF p, u, s

LEMMA FillExact ==
  ASSUME IInv, JInv, NEW k \in Ids, NEW n \in 1 .. open[k].left, Trade(k, n),
         responses' = Append(responses, Filled(k, n)), om' = om,
         position' = position, others' = others, client' = client
  PROVE  JInv'
<1> SUFFICES ASSUME client = TickerId, others = 0
    PROVE  Exact(om', responses', open', traded' - position')
  BY DEF JInv
<1> USE TradeEngineAssumption
<1> DEFINE r == Filled(k, n)
           v == open[k].left - n
<1>1. /\ Types /\ Tracked(om) /\ Exact(om, responses, open, traded - position)
      /\ position \in Int /\ traded \in Int /\ traded - position \in Int
      /\ open \in [Ids -> [side : Sides, left : 0 .. Clip]]
  BY DEF IInv, JInv, Types
<1>2. /\ r \in AnswerSet /\ v \in 0 .. Clip /\ open[k].left > 0
      /\ r.type = "FILLED" /\ r.side = open[k].side /\ r.exec = n
      /\ Before(r) = open[k].left /\ After(r) = v
  <2>1. open[k].side \in Sides /\ open[k].left \in 0 .. Clip /\ k \in Nat
    BY <1>1 DEF Ids
  <2>2. r = [type |-> "FILLED", id |-> k, side |-> open[k].side, exec |-> n,
             leaves |-> open[k].left - n]
    BY DEF Filled, Answer
  <2>3. r \in AnswerSet /\ v \in 0 .. Clip /\ open[k].left > 0
    <3>1. n \in Nat /\ 1 <= n /\ n <= open[k].left
      BY <2>1
    <3>2. n \in 0 .. Clip /\ v \in 0 .. Clip /\ open[k].left > 0
      BY <2>1, <3>1
    <3> QED BY <2>1, <2>2, <3>2 DEF AnswerSet
  <2>4. /\ r.type = "FILLED" /\ r.side = open[k].side /\ r.exec = n
        /\ r.leaves = v
    BY <2>2
  <2> HIDE DEF r
  <2>5. n + v = open[k].left
    BY <2>1
  <2> QED BY <2>3, <2>4, <2>5 DEF Before, After
<1>3. /\ open' = [open EXCEPT ![k].left = v]
      /\ traded' = traded + SideToValue(r.side) * n
  BY <1>2 DEF Trade
<1> HIDE DEF r, v
<1>4. Exact(om, Append(responses, r), open', (traded - position) + SideToValue(r.side) * n)
  BY <1>1, <1>2, <1>3, ReportExact
<1>5. (traded - position) + SideToValue(r.side) * n = traded' - position'
  <2>1. open[k].side \in Sides /\ n \in Int
    BY <1>1
  <2>2. CASE r.side = "BUY"
    BY <2>1, <2>2, <1>1, <1>3 DEF SideToValue
  <2>3. CASE r.side = "SELL"
    BY <2>1, <2>3, <1>1, <1>3 DEF SideToValue
  <2> QED BY <2>1, <2>2, <2>3, <1>2 DEF Sides
<1> QED BY <1>4, <1>5 DEF r

\* The exchange takes the first request: nothing else of the requests changes.
LEMMA RequestTaken ==
  ASSUME Types, om.requests # <<>>, TakeRequest
  PROVE  /\ om'.order = om.order
         /\ \A s \in Sides :
              ~(Head(om.requests).type = "NEW" /\ Head(om.requests).side = s)
                => (Sent(om', s) <=> Sent(om, s))
         /\ \A s \in Sides : CancelSent(om, s) =>
              \/ CancelSent(om', s)
              \/ Head(om.requests).type = "CANCEL" /\ Head(om.requests).id = om.order[s].id
<1>1. om \in Managers /\ om.requests \in Seq(Requests)
  BY DEF Types, Formed, Managers
<1>2. om'.requests = Tail(om.requests) /\ om'.order = om.order
  BY <1>1 DEF TakeRequest, Managers
<1>3. /\ Len(om.requests) \in Nat /\ Len(om'.requests) = Len(om.requests) - 1
      /\ Head(om.requests) = om.requests[1]
      /\ \A k \in 1 .. Len(om'.requests) : om'.requests[k] = om.requests[k + 1]
  BY <1>1, <1>2, TailFacts
<1>4. /\ \A k \in 1 .. Len(om'.requests) : k + 1 \in 1 .. Len(om.requests)
      /\ \A k \in 1 .. Len(om.requests) : k # 1 =>
           k - 1 \in 1 .. Len(om'.requests) /\ om'.requests[k - 1] = om.requests[k]
  BY <1>3
<1>5. ASSUME NEW s \in Sides,
             ~(Head(om.requests).type = "NEW" /\ Head(om.requests).side = s)
      PROVE  Sent(om', s) <=> Sent(om, s)
  <2>1. ASSUME Sent(om', s) PROVE Sent(om, s)
    BY <2>1, <1>3, <1>4 DEF Sent
  <2>2. ASSUME Sent(om, s) PROVE Sent(om', s)
    <3>1. PICK k \in 1 .. Len(om.requests) :
            om.requests[k].type = "NEW" /\ om.requests[k].side = s
      BY <2>2 DEF Sent
    <3>2. k # 1
      BY <3>1, <1>3, <1>5
    <3> QED BY <3>1, <3>2, <1>4 DEF Sent
  <2> QED BY <2>1, <2>2
<1>6. ASSUME NEW s \in Sides, CancelSent(om, s),
             ~(Head(om.requests).type = "CANCEL" /\ Head(om.requests).id = om.order[s].id)
      PROVE  CancelSent(om', s)
  <2>1. PICK k \in 1 .. Len(om.requests) :
          om.requests[k].type = "CANCEL" /\ om.requests[k].id = om.order[s].id
    BY <1>6 DEF CancelSent
  <2>2. k # 1
    BY <2>1, <1>3, <1>6
  <2>3. k - 1 \in 1 .. Len(om'.requests) /\ om'.requests[k - 1] = om.requests[k]
    BY <2>2, <1>4
  <2>4. om'.order[s].id = om.order[s].id
    BY <1>2
  <2> QED BY <2>1, <2>3, <2>4 DEF CancelSent
<1> QED BY <1>2, <1>5, <1>6

\* An acknowledgement is the first answer about its order.
LEMMA AcceptExact == IInv /\ JInv /\ ExchangeAccept => JInv'
<1> SUFFICES ASSUME IInv, JInv, ExchangeAccept, client = TickerId, others = 0
    PROVE  Exact(om', responses', open', traded - position)
  BY DEF JInv, ExchangeAccept
<1> USE TradeEngineAssumption
<1> DEFINE q == om.requests[1]
           s == q.side
           other == OtherSide(s)
           r == Answer("ACCEPTED", q.id, s, 0, Clip)
<1>1. /\ Types /\ Tracked(om) /\ Exact(om, responses, open, traded - position)
      /\ responses \in Seq(AnswerSet) /\ om.requests # <<>> /\ TakeRequest
      /\ open \in [Ids -> [side : Sides, left : 0 .. Clip]]
  BY DEF IInv, JInv, Types, ExchangeAccept
<1>2. /\ om \in Managers /\ om.order \in [Sides -> Slots]
      /\ om.requests \in Seq(Requests) /\ om.next \in 1 .. (MaxOrders + 1)
  BY <1>1 DEF Types, Formed, Managers
<1>3. /\ Head(om.requests) = q /\ 1 \in 1 .. Len(om.requests) /\ q \in Requests
      /\ q.type = "NEW"
  <2>1. Head(om.requests) = q /\ q \in Requests /\ 1 \in 1 .. Len(om.requests)
    BY <1>1, <1>2, TailFacts
  <2> QED BY <2>1 DEF ExchangeAccept
<1>4. q.id \in Ids /\ q.id >= 1
  <2>1. q.id \in 1 .. (om.next - 1)
    <3>1. Formed(om)
      BY <1>1 DEF Types
    <3> QED BY <3>1, <1>3 DEF Formed
  <2> QED BY <2>1, <1>2 DEF Ids
<1>5. /\ open' = [open EXCEPT ![q.id] = [side |-> s, left |-> Clip]]
      /\ responses' = Append(responses, r)
  BY <1>3 DEF ExchangeAccept
<1>6. /\ s \in Sides /\ other \in Sides /\ other # s
  BY <1>3 DEF Requests, OtherSide, Sides
<1>7. /\ r \in AnswerSet /\ Mine(r, s) /\ ~Mine(r, other) /\ r.type = "ACCEPTED"
      /\ r.exec = 0 /\ r.leaves = Clip /\ Before(r) = Clip /\ After(r) = Clip
  <2>1. r = [type |-> "ACCEPTED", id |-> q.id, side |-> s, exec |-> 0, leaves |-> Clip]
    BY DEF Answer
  <2> HIDE DEF r, s, other, q
  <2>2. r \in AnswerSet
    BY <2>1, <1>4, <1>6 DEF AnswerSet, Ids
  <2> QED BY <2>1, <2>2, <1>6 DEF Mine, Own, Before, After
<1>8. /\ q.id = om.order[s].id /\ om.order[s].state = "PENDING_NEW"
      /\ om.order[s].qty = Clip
      /\ \A i \in 1 .. Len(responses) : ~Mine(responses[i], s)
  BY <1>1, <1>3 DEF Tracked, RequestsFresh, Mine
<1>9. /\ om'.order = om.order
      /\ Sent(om', other) <=> Sent(om, other)
      /\ CancelSent(om, other) => CancelSent(om', other)
  BY <1>1, <1>3, <1>6, RequestTaken
<1> HIDE DEF q, s, other, r
<1>10. PICK a \in Int, b \in Int :
        /\ Booked(om, responses, open, s, a) /\ Booked(om, responses, open, other, b)
        /\ traded - position = SideToValue(s) * (a - b)
  BY <1>1, <1>6, SidesOf DEF other
<1>11. a = 0
  BY <1>1, <1>8, <1>10, NothingUnderWay DEF Booked
<1>12. Booked(om', responses', open', s, 0)
  <2>1. /\ Chained(responses, om.order[s], s)
        /\ EndsWith(responses, om.order[s], s, Clip, Clip)
    BY <1>1, <1>8, NothingUnderWay
  <2>2. /\ EndsWith(responses', om.order[s], s, Clip, Clip)
        /\ Chained(responses', om.order[s], s)
    BY <1>1, <1>5, <1>7, <2>1, AppendMine
  <2>3. Acknowledged(responses', s)
    <3>1. /\ Len(responses') \in Nat /\ Len(responses') >= 1
          /\ responses'[Len(responses')] = r
      BY <1>1, <1>5, <1>7, AppendFacts
    <3> QED BY <3>1, <1>7 DEF Acknowledged
  <2>4. open'[om.order[s].id].left = Clip
    BY <1>1, <1>4, <1>5, <1>8
  <2>5. Clip \in 0 .. Clip /\ Clip >= 1
    OBVIOUS
  <2> QED BY <1>8, <1>9, <2>2, <2>3, <2>4, <2>5 DEF Booked
<1>13. Booked(om', responses', open', other, b)
  <2>1. SaysSame(responses, responses', om.order[other], other)
    BY <1>1, <1>5, <1>7, AppendOther
  <2>2. Active(om.order[other]) =>
          open'[om.order[other].id].left = open[om.order[other].id].left
    <3> SUFFICES ASSUME Active(om.order[other])
        PROVE  open'[om.order[other].id].left = open[om.order[other].id].left
      OBVIOUS
    <3>1. om.order[other].id \in Ids
      <4>1. /\ om.order[other].id \in Nat /\ om.order[other].id >= 1
            /\ om.order[other].id < om.next
        BY <1>1, <1>2, <1>6 DEF Types, Formed, Slots
      <4> QED BY <4>1, <1>2 DEF Ids
    <3>2. om.order[other].id # q.id
      <4>1. om.order[other].id = om.order[s].id => om.order[other].id = 0
        BY <1>1, <1>6 DEF Exact, TwoOrders, Sides
      <4> QED BY <4>1, <1>4, <1>8
    <3> QED BY <3>1, <3>2, <1>1, <1>4, <1>5
  <2>3. om'.order[other] = om.order[other]
    BY <1>9
  <2> QED BY <2>1, <2>2, <2>3, <1>9, <1>10, SideKept
<1>14. TwoOrders(om')
  BY <1>1, <1>9 DEF Exact, TwoOrders
<1>15. Exact(om', responses', open', SideToValue(s) * (0 - b))
  BY <1>6, <1>12, <1>13, <1>14, SidesTo DEF other
<1> QED BY <1>10, <1>11, <1>15

\* The cancel of an order in the book, or the answer that there is none.
LEMMA CancelExact == IInv /\ JInv /\ ExchangeCancel => JInv'
<1> SUFFICES ASSUME IInv, JInv, ExchangeCancel, client = TickerId, others' = 0
    PROVE  Exact(om', responses', open', traded - position)
  BY DEF JInv, ExchangeCancel
<1> USE TradeEngineAssumption
<1> DEFINE q == om.requests[1]
           k == q.id
<1>1. /\ Types /\ om.requests # <<>> /\ TakeRequest /\ responses \in Seq(AnswerSet)
      /\ open \in [Ids -> [side : Sides, left : 0 .. Clip]]
      /\ others \in Nat /\ position \in Int /\ traded \in Int
  BY DEF IInv, Types, ExchangeCancel
<1>2. others = 0 /\ others' # others + 1
  BY <1>1 DEF ExchangeCancel
<1>3. Tracked(om) /\ Exact(om, responses, open, traded - position)
  BY <1>2 DEF IInv, JInv
<1>4. /\ om \in Managers /\ om.order \in [Sides -> Slots]
      /\ om.requests \in Seq(Requests) /\ om.next \in 1 .. (MaxOrders + 1)
  BY <1>1 DEF Types, Formed, Managers
<1>5. Head(om.requests) = q /\ q.type = "CANCEL" /\ k \in Ids
  <2>1. Head(om.requests) = q /\ q \in Requests /\ 1 \in 1 .. Len(om.requests)
    BY <1>1, <1>4, TailFacts
  <2>2. k \in 1 .. (om.next - 1)
    <3>1. Formed(om)
      BY <1>1 DEF Types
    <3> QED BY <3>1, <2>1 DEF Formed
  <2>3. k \in Ids
    BY <2>2, <1>4 DEF Ids
  <2>4. q.type = "CANCEL"
    BY <2>1 DEF ExchangeCancel
  <2> QED BY <2>1, <2>3, <2>4
<1>6. /\ om'.order = om.order /\ \A s \in Sides : Sent(om', s) <=> Sent(om, s)
      /\ \A s \in Sides : CancelSent(om, s) => CancelSent(om', s) \/ om.order[s].id = k
  BY <1>1, <1>5, RequestTaken
<1> HIDE DEF q
<1>7. CASE /\ open[k].left > 0
           /\ responses' = Append(responses,
                Answer("CANCELED", k, open[k].side, 0, open[k].left))
           /\ open' = [open EXCEPT ![k].left = 0]
  <2> DEFINE r == Answer("CANCELED", k, open[k].side, 0, open[k].left)
  <2>1. r = [type |-> "CANCELED", id |-> k, side |-> open[k].side, exec |-> 0,
             leaves |-> open[k].left]
    BY DEF Answer
  <2>2. open[k].side \in Sides /\ open[k].left \in 0 .. Clip /\ k \in Nat
    BY <1>1, <1>5 DEF Ids
  <2> HIDE DEF r, k
  <2>3. r \in AnswerSet
    BY <2>1, <2>2 DEF AnswerSet
  <2>4. /\ r.type = "CANCELED" /\ r.side = open[k].side /\ r.exec = 0
        /\ Before(r) = open[k].left /\ After(r) = 0
    BY <2>1, <2>2 DEF Before, After
  <2>5. \A s \in Sides : CancelSent(om, s) =>
          CancelSent(om', s) \/ [open EXCEPT ![k].left = 0][om.order[s].id].left = 0
    <3>1. [open EXCEPT ![k].left = 0][k].left = 0
      BY <1>1, <1>5, <2>2
    <3> QED BY <3>1, <1>6
  <2>6. 0 \in 0 .. Clip /\ traded - position \in Int
    BY <1>1
  <2>7. Exact(om', Append(responses, r), [open EXCEPT ![k].left = 0],
              (traded - position) + SideToValue(r.side) * r.exec)
    BY <1>1, <1>3, <1>5, <1>6, <1>7, <2>3, <2>4, <2>5, <2>6, ReportExact
  <2>8. (traded - position) + SideToValue(r.side) * r.exec = traded - position
    BY <2>2, <2>4, <2>6 DEF SideToValue, Sides
  <2> QED BY <1>7, <2>7, <2>8 DEF r
<1>8. CASE /\ ~(open[k].left > 0) /\ open' = open
           /\ responses' = Append(responses, Answer("CANCEL_REJECTED", k, "INVALID", 0, 0))
  <2> DEFINE r == Answer("CANCEL_REJECTED", k, "INVALID", 0, 0)
  <2>1. r \in AnswerSet /\ ~Own(r)
    <3>1. k \in Nat /\ 0 \in 0 .. Clip
      BY <1>5 DEF Ids
    <3> HIDE DEF k
    <3> QED BY <3>1 DEF Answer, AnswerSet, Own
  <2>2. \A s \in Sides : SaysSame(responses, responses', om.order[s], s)
    <3>1. \A s \in Sides : ~Mine(r, s)
      BY <2>1 DEF Mine
    <3> QED BY <3>1, <2>1, <1>1, <1>8, AppendOther
  <2>3. open[k].left = 0
    BY <1>1, <1>5, <1>8
  <2>4. PICK a \in Int, b \in Int :
          /\ Booked(om, responses, open, "BUY", a) /\ Booked(om, responses, open, "SELL", b)
          /\ traded - position = a - b
    BY <1>3 DEF Exact
  <2>5. \A s \in Sides, due \in Int :
          Booked(om, responses, open, s, due) => Booked(om', responses', open', s, due)
    <3> HIDE DEF r, k
    <3> SUFFICES ASSUME NEW s \in Sides, NEW due \in Int, Booked(om, responses, open, s, due)
        PROVE  Booked(om', responses', open, s, due)
      BY <1>8
    <3>1. CancelSent(om, s) => CancelSent(om', s) \/ open[om.order[s].id].left = 0
      BY <1>6, <2>3
    <3> QED BY <3>1, <1>6, <2>2, SideKept
  <2>6. TwoOrders(om')
    BY <1>3, <1>6 DEF Exact, TwoOrders
  <2> QED BY <2>4, <2>5, <2>6 DEF Exact, Sides
<1> QED BY <1>2, <1>5, <1>7, <1>8 DEF ExchangeCancel

LEMMA StepJInv == IInv /\ JInv /\ [Next]_vars => JInv'
<1> SUFFICES ASSUME IInv, JInv, [Next]_vars PROVE JInv'
  OBVIOUS
<1>1. CASE MoveOrders
  BY <1>1, MoveOrdersExact
<1>2. CASE OnOrderUpdate
  BY <1>2, OnOrderUpdateExact
<1>3. CASE ExchangeAccept
  BY <1>3, AcceptExact
<1>4. CASE ExchangeMatch
  <2>1. taking \in Ids
    BY <1>4 DEF IInv, Types, ExchangeMatch
  <2>2. PICK n \in 1 .. open[taking].left :
          Trade(taking, n) /\ responses' = Append(responses, Filled(taking, n))
    BY <1>4 DEF ExchangeMatch
  <2> QED BY <1>4, <2>1, <2>2, FillExact DEF ExchangeMatch
<1>5. CASE ExchangeRest
  BY <1>5 DEF ExchangeRest, JInv
<1>6. CASE ExchangeCancel
  BY <1>6, CancelExact
<1>7. CASE ExchangeTrade
  <2>1. PICK k \in Ids \ {taking} : \E n \in 1 .. open[k].left :
          /\ Trade(k, n)
          /\ responses' = IF client = TickerId THEN Append(responses, Filled(k, n))
                          ELSE responses
    BY <1>7 DEF ExchangeTrade
  <2>2. PICK n \in 1 .. open[k].left :
          /\ Trade(k, n)
          /\ responses' = IF client = TickerId THEN Append(responses, Filled(k, n))
                          ELSE responses
    BY <2>1
  <2>3. CASE client = TickerId
    BY <1>7, <2>2, <2>3, FillExact DEF ExchangeTrade
  <2>4. CASE client # TickerId
    BY <1>7, <2>4 DEF ExchangeTrade, JInv
  <2> QED BY <2>3, <2>4
<1>8. CASE OthersFill
  <2>1. others \in Nat /\ others' = others + 1
    BY <1>8, TradeEngineAssumption DEF IInv, Types, OthersFill
  <2> QED BY <2>1 DEF JInv
<1>9. CASE UNCHANGED vars
  BY <1>9 DEF vars, exchange, JInv
<1> QED BY <1>1, <1>2, <1>3, <1>4, <1>5, <1>6, <1>7, <1>8, <1>9 DEF Next, ProcessRequests

\* When every message has arrived, the trade engine and the exchange agree on
\* the position, on which orders are live and on what each has left, however
\* fills, cancels and their answers crossed: no answer is counted twice, lost or
\* applied to another order.  (For the client with the ticker's number; the
\* others never hear of their resting orders' fills.)
THEOREM BothViewsAgree == Spec => []ViewsAgree
<1>1. IInv /\ JInv => ViewsAgree
  <2> SUFFICES ASSUME IInv, JInv, Quiet, client = TickerId, others = 0
      PROVE  /\ position = traded
             /\ \A s \in Sides :
                  LET there == {i \in Ids : open[i].side = s /\ open[i].left > 0} IN
                  IF Order(s).state = "LIVE"
                    THEN there = {Order(s).id} /\ open[Order(s).id].left = Order(s).qty
                    ELSE there = {} /\ Order(s).state \in {"INVALID", "DEAD"}
    BY DEF ViewsAgree
  <2> USE TradeEngineAssumption
  <2>1. /\ Types /\ Tracked(om) /\ Exact(om, responses, open, traded - position)
        /\ responses \in Seq(AnswerSet) /\ Len(responses) = 0 /\ Len(om.requests) = 0
        /\ position \in Int /\ traded \in Int
        /\ open \in [Ids -> [side : Sides, left : 0 .. Clip]]
    BY DEF IInv, JInv, Quiet, Types
  <2>2. /\ om.order \in [Sides -> Slots] /\ om.next \in 1 .. (MaxOrders + 1)
    BY <2>1 DEF Types, Formed, Managers
  <2>3. PICK bought \in Int, sold \in Int :
          /\ Booked(om, responses, open, "BUY", bought)
          /\ Booked(om, responses, open, "SELL", sold)
          /\ traded - position = bought - sold
    BY <2>1 DEF Exact
  <2>4. ASSUME NEW s \in Sides, NEW due \in Int, Booked(om, responses, open, s, due)
        PROVE  /\ due = 0
               /\ Active(om.order[s]) => open[om.order[s].id].left = om.order[s].qty
                                         /\ om.order[s].qty >= 1
    <3>1. /\ ~Sent(om, s) /\ om.order[s].qty \in Nat
          /\ \A i \in 1 .. Len(responses) : ~Mine(responses[i], s)
      BY <2>1, <2>2 DEF Sent, Slots
    <3>2. PICK left \in 0 .. Clip, rest \in 0 .. Clip :
            /\ EndsWith(responses, om.order[s], s, left, rest)
            /\ Active(om.order[s]) => rest = open[om.order[s].id].left
            /\ due = om.order[s].qty - left
      BY <2>4, <3>1 DEF Booked
    <3>3. left = om.order[s].qty /\ rest = om.order[s].qty
      BY <2>1, <3>1, <3>2, NothingUnderWay
    <3>4. Active(om.order[s]) => om.order[s].qty >= 1
      BY <2>4 DEF Booked
    <3> QED BY <3>1, <3>2, <3>3, <3>4
  <2>5. position = traded
    <3>1. bought = 0 /\ sold = 0
      BY <2>3, <2>4 DEF Sides
    <3> QED BY <3>1, <2>1, <2>3
  <2>6. ASSUME NEW s \in Sides
        PROVE  LET there == {i \in Ids : open[i].side = s /\ open[i].left > 0} IN
               IF Order(s).state = "LIVE"
                 THEN there = {Order(s).id} /\ open[Order(s).id].left = Order(s).qty
                 ELSE there = {} /\ Order(s).state \in {"INVALID", "DEAD"}
    <3> DEFINE there == {i \in Ids : open[i].side = s /\ open[i].left > 0}
               ord == om.order[s]
    <3>1. PICK due \in Int : Booked(om, responses, open, s, due)
      BY <2>3 DEF Sides
    <3>2. Active(ord) => open[ord.id].left = ord.qty /\ ord.qty >= 1
      BY <2>4, <3>1
    <3>3. \A i \in there : i = ord.id /\ Active(ord)
      BY <2>1 DEF Tracked, OpenFits
    <3>4. ord.state # "PENDING_NEW" /\ ord.state # "PENDING_CANCEL"
      <4>1. ~Sent(om, s) /\ ~Acknowledged(responses, s) /\ ~CancelSent(om, s)
        BY <2>1 DEF Sent, Acknowledged, CancelSent
      <4>2. ord.state = "PENDING_CANCEL" => open[ord.id].left = 0
        BY <3>1, <4>1 DEF Booked
      <4> QED BY <3>1, <3>2, <4>1, <4>2 DEF Booked, Active
    <3>5. CASE ord.state = "LIVE"
      <4>1. Active(ord) /\ ord.id \in Ids
        <5>1. ord.id \in Nat /\ ord.id >= 1 /\ ord.id < om.next
          BY <2>1, <2>2, <3>5 DEF Types, Formed, Slots, Active
        <5> QED BY <5>1, <2>2, <3>5 DEF Ids, Active
      <4>2. open[ord.id].left = ord.qty /\ open[ord.id].left > 0
        <5>1. ord.qty \in Nat
          BY <2>2 DEF Slots
        <5> QED BY <5>1, <3>2, <4>1
      <4>3. open[ord.id].side = s
        <5>1. open[ord.id].side \in Sides /\ ord.id = om.order[open[ord.id].side].id
          BY <2>1, <4>1, <4>2 DEF Tracked, OpenFits
        <5>2. ord.id # 0
          BY <4>1 DEF Ids
        <5>3. TwoOrders(om)
          BY <2>1 DEF Exact
        <5> QED BY <5>1, <5>2, <5>3 DEF TwoOrders, Sides
      <4>4. there = {ord.id}
        BY <3>3, <4>1, <4>2, <4>3
      <4> QED BY <3>5, <4>2, <4>4 DEF Order
    <3>6. CASE ord.state # "LIVE"
      <4>1. ord.state \in {"INVALID", "DEAD"}
        <5>1. ord \in Slots
          BY <2>2
        <5> QED BY <5>1, <3>4, <3>6 DEF Slots
      <4>2. there = {}
        BY <3>3, <4>1 DEF Active
      <4> QED BY <3>6, <4>1, <4>2 DEF Order
    <3> QED BY <3>5, <3>6
  <2> QED BY <2>5, <2>6
<1>2. Spec => [](IInv /\ JInv)
  BY InitIInv, StepIInv, InitJInv, StepJInv, PTL DEF Spec
<1> QED BY <1>1, <1>2, PTL
=============================================================================
