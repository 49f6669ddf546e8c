-------------------------- MODULE MCMatchingEngine --------------------------
(***************************************************************************)
(* The book of ticker 1 with two clients.  Prices 1 and 6 share a slot of  *)
(* the price table.                                                        *)
(***************************************************************************)
EXTENDS MatchingEngine

MCTickerId == 1
MCClients == {1, 2}
MCOrderIds == {1, 2}
MCNumOrders == 5
MCNumLevels == 5
MCPrices == {1, 2, 3, 4, 6}
MCQtys == {1, 2}
MCSenders == <<1, 2, 2, 1>>

=============================================================================
