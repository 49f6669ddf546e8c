---------------------------- MODULE MCOrderEntry ----------------------------
(***************************************************************************)
(* Two clients, the first of which may be restarted once; two requests     *)
(* from the first session; one failed send or crash.  One pass can bring   *)
(* two requests, which are sorted stably, or three, which are not.         *)
(***************************************************************************)
EXTENDS OrderEntry

MCClients == {1, 2}
MCSessions == 1 .. 3
MCOwner == <<1, 2, 1>>
MCTickerId == 2
MCNobody == 3
MCMaxRequests == <<2, 1, 1>>
MCMaxFaults == 1
MCMaxPending == 3
MCStableUpTo == 2

=============================================================================
