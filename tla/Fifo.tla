-------------------------------- MODULE Fifo --------------------------------
(***************************************************************************)
(* What LFQueue promises to the two threads that share it: a bounded       *)
(* first-in-first-out channel.  The k-th element sent carries the payload  *)
(* k, so that losing, repeating, reordering or inventing an element shows  *)
(* as a wrong value of last.                                               *)
(***************************************************************************)
EXTENDS Integers

CONSTANT Capacity   \* at most this many elements are on their way

VARIABLES
  sent,      \* how many elements the producer has handed over
  received,  \* how many elements the consumer has taken
  last       \* the payload the consumer took last, -1 before the first

vars == <<sent, received, last>>

Init == sent = 0 /\ received = 0 /\ last = -1

Send ==
  /\ sent - received < Capacity
  /\ sent' = sent + 1
  /\ UNCHANGED <<received, last>>

Receive ==
  /\ received < sent
  /\ last' = received
  /\ received' = received + 1
  /\ UNCHANGED sent

Next == Send \/ Receive

Spec == Init /\ [][Next]_vars

=============================================================================
