------------------------- MODULE MCMarketOrderBook -------------------------
(***************************************************************************)
(* Four blocks, so that three orders fit and a fourth, or its id, ends the *)
(* book.  The price table has three entries and prices 1 and 4 share one;  *)
(* four prices let a side have three levels, which is what it takes to     *)
(* damage a ring of them.                                                  *)
(***************************************************************************)
EXTENDS MarketOrderBook

MCTickerId == 1
MCNumOrders == 4
MCNumPriceLevels == 3
MCOrderIds == 0 .. 3
MCPrices == {1, 2, 3, 4}
MCQtys == {2}
MCMaxUpdates == 6

=============================================================================
