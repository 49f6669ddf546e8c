------------------------------ MODULE MCLFQueue ------------------------------
(***************************************************************************)
(* LFQueue on a ring of four slots that wraps around more than twice, with *)
(* the consumer up to three elements behind: the largest lag the ring      *)
(* bears, and the one at which an off-by-one is seen.                      *)
(***************************************************************************)
EXTENDS LFQueue

MCSize == 4
MCMaxLag == 3
MCMaxWrites == 9

=============================================================================
