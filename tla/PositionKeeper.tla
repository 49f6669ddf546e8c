--------------------------- MODULE PositionKeeper ---------------------------
(***************************************************************************)
(* trading/strategy/position_keeper.hpp: position and profit and loss of   *)
(* one instrument, from fills and from the best bid and offer.  Fills come *)
(* from TradeEngine's answers, quotes from MarketOrderBook.  Profit and    *)
(* loss is counted in parts of a price, Scale of them, so that averages    *)
(* over up to MaxPosition pieces and mid prices are whole numbers; what    *)
(* doubles round is left out.                                              *)
(***************************************************************************)
EXTENDS Integers

CONSTANTS
  Prices, Qtys,    \* of fills and quotes
  Garbage,         \* what an element of m_open_vwap may hold before it is set
  Scale,
  MaxPosition,     \* bound: the largest position, long or short
  MaxFills         \* bound: fills

ASSUME PositionKeeperAssumption ==
  /\ Prices \subseteq Nat \ {0} /\ Qtys \subseteq Nat \ {0} /\ Garbage \subseteq Int
  /\ MaxPosition \in Nat /\ MaxFills \in Nat
  /\ Scale \in Nat \ {0} /\ Scale % 2 = 0
  /\ \A n \in 1 .. MaxPosition : Scale % n = 0

VARIABLES
  info,    \* the PositionInfo
  fills,   \* how many fills there were
  cash,    \* history: what all fills brought in
  mark,    \* history: the price the position was last valued at
  wrong    \* history: a fill was booked on a total that was not its side's

keeperVars == <<info, fills, cash, mark, wrong>>

Sides == {"BUY", "SELL"}
Opposite(side) == IF side = "BUY" THEN "SELL" ELSE "BUY"
SideToValue(side) == IF side = "BUY" THEN 1 ELSE -1
Abs(n) == IF n < 0 THEN -n ELSE n
Lesser(m, n) == IF m <= n THEN m ELSE n
Invalid == 0     \* Price_INVALID

\* Nothing initialises m_open_vwap, the total price of the open position by side.
KeeperInit ==
  /\ \E v \in [Sides -> Garbage] :
       info = [position |-> 0, real |-> 0, unreal |-> 0, total |-> 0,
               vwap |-> v, volume |-> 0]
  /\ fills = 0 /\ cash = 0 /\ mark = 0 /\ wrong = FALSE

\* Valuing an open position.
Marked(i, price) ==
  LET size   == Abs(i.position)
      unreal == IF i.position > 0 THEN price * size - i.vwap["BUY"] * Scale
                ELSE i.vwap["SELL"] * Scale - price * size
  IN  [i EXCEPT !.unreal = unreal, !.total = unreal + i.real]

\* Wrong form: a fill that turns the position counts in full on the other side.
TurnedInFull(i, fill) ==
  [i.vwap EXCEPT ![fill.side] = fill.price * fill.exec,
                 ![Opposite(fill.side)] = 0]

\* The totals once a fill has turned a long position short or the reverse.
Turned(i, fill) ==
  [i.vwap EXCEPT ![fill.side] = fill.price * Abs(i.position),
                 ![Opposite(fill.side)] = 0]

\* Wrong form: sold quantities count down.
TradedSigned(i, fill) ==
  [i EXCEPT !.position = @ + fill.exec * SideToValue(fill.side),
            !.volume = @ + fill.exec * SideToValue(fill.side)]

\* Position and volume after a fill.
Traded(i, fill) ==
  [i EXCEPT !.position = @ + fill.exec * SideToValue(fill.side),
            !.volume = @ + fill.exec]

\* addFill.  A fill that closes part of the position leaves the position's total
\* as it was; one that closes all of it does not touch m_total_pnl.
AddFill(i, fill) ==
  LET old    == i.position
      value  == SideToValue(fill.side)
      traded == Traded(i, fill)
      new    == traded.position
      profit == Lesser(fill.exec, Abs(old)) * value *
                  (i.vwap[Opposite(fill.side)] * (Scale \div Abs(old)) - fill.price * Scale)
      booked == IF old * value >= 0
                  THEN [traded EXCEPT !.vwap[fill.side] = @ + fill.price * fill.exec]
                ELSE [traded EXCEPT !.real = @ + profit,
                                    !.vwap = IF new * old < 0 THEN Turned(traded, fill)
                                             ELSE @]
  IN  IF new = 0 THEN [booked EXCEPT !.vwap = [s \in Sides |-> 0], !.unreal = 0]
      ELSE Marked(booked, fill.price * Scale)

\* The fills after which the books are off: the first one of a side whose total
\* was never set, and one that closes part of a position.
Misbooked(i, fill) ==
  \/ i.position = 0 /\ i.vwap[fill.side] # 0
  \/ i.position * SideToValue(fill.side) < 0 /\ fill.exec < Abs(i.position)

OnFill ==
  /\ fills < MaxFills
  /\ \E s \in Sides, p \in Prices, q \in Qtys :
       LET fill == [side |-> s, price |-> p, exec |-> q] IN
       /\ Abs(info.position + q * SideToValue(s)) <= MaxPosition
       /\ info' = AddFill(info, fill)
       /\ cash' = cash - p * q * SideToValue(s) * Scale
       /\ mark' = p * Scale
       /\ wrong' = (wrong \/ Misbooked(info, fill))
  /\ fills' = fills + 1

\* updateBBO, called by onOrderBookUpdate.
UpdateBBO(i, bid, ask) ==
  IF i.position # 0 /\ bid # Invalid /\ ask # Invalid
    THEN Marked(i, (bid + ask) * (Scale \div 2))
  ELSE i

OnBBO ==
  /\ \E bid, ask \in Prices \cup {Invalid} :
       /\ info' = UpdateBBO(info, bid, ask)
       /\ mark' = IF info.position # 0 /\ Invalid \notin {bid, ask}
                    THEN (bid + ask) * (Scale \div 2) ELSE mark
  /\ UNCHANGED <<fills, cash, wrong>>

KeeperNext == OnFill \/ OnBBO

KeeperSpec == KeeperInit /\ [][KeeperNext]_keeperVars

-----------------------------------------------------------------------------
KeeperTypeOK ==
  /\ info.position \in -MaxPosition .. MaxPosition
  /\ info.volume \in Nat /\ Abs(info.position) <= info.volume
  /\ {info.real, info.unreal, info.total, info.vwap["BUY"], info.vwap["SELL"]}
       \subseteq Int
  /\ fills \in 0 .. MaxFills /\ cash \in Int /\ mark \in Nat /\ wrong \in BOOLEAN

\* Incremental averages, closings and turns come to what the fills brought in
\* plus the value of the position: all of it in m_total_pnl while a position is
\* open, in m_real_pnl when it is flat.  Only the two kinds of Misbooked fills
\* break it.
PnLIsCash ==
  ~wrong =>
    IF info.position = 0 THEN info.real = cash /\ info.unreal = 0
    ELSE info.total = cash + info.position * mark

=============================================================================
