--------------------------- MODULE MCTradeEngine ---------------------------
(***************************************************************************)
(* The engine of client 1, for whom passive fills come back on ticker 1,   *)
(* or of client 2, for whom they do not.  Two orders of one side exceed    *)
(* the position limit, one does not.                                       *)
(***************************************************************************)
EXTENDS TradeEngine

MCClientIds == {1, 2}
MCTickerId == 1
MCPrices == {"p", "q"}
MCClip == 2
MCMaxOrderSize == 2
MCMaxPosition == 3
MCMaxOrders == 4
MCMaxOthers == 1

=============================================================================
