-------------------------- MODULE MCPositionKeeper --------------------------
(***************************************************************************)
(* Positions up to three, so a fill may open, add to, reduce, close and    *)
(* turn one.                                                               *)
(***************************************************************************)
EXTENDS PositionKeeper

MCPrices == {1, 2, 4}
MCQtys == {1, 2, 3, 5}
MCGarbage == {0, 5}
MCScale == 6
MCMaxPosition == 3
MCMaxFills == 4

=============================================================================
