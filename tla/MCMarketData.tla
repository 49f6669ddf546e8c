---------------------------- MODULE MCMarketData ----------------------------
(***************************************************************************)
(* One instrument, number 1: its first order is stored where it belongs,   *)
(* the second overwrites it.  Three updates leave a gap in the queued ones *)
(* possible on either side of a snapshot's number.                         *)
(*                                                                         *)
(* For the synthesizer alone, two instruments and no snapshot: six updates *)
(* leave gaps in the order ids possible, after ADD, TRADE and MODIFY.      *)
(***************************************************************************)
EXTENDS MarketData

MCTickers == {1}
MCPoolSize == 3
MCMaxUpdates == 3
MCMaxSnapshots == 1
MCMaxDuplicates == 1
MCMaxMarkers == 1

MCSynthesizerTickers == {1, 2}
MCSynthesizerUpdates == 6
MCSynthesizerBlocks == 4
MCNone == 0

=============================================================================
