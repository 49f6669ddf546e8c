---------------------------- MODULE Subscription ----------------------------
(***************************************************************************)
(* What a market data subscriber is promised.  Updates are numbered from   *)
(* 1.  The subscriber joins once, with a snapshot that states the number   *)
(* it was taken at, and from there on is given every update after that     *)
(* number, in order, none left out and none twice.                         *)
(***************************************************************************)
EXTENDS Integers, Sequences

VARIABLES
  published,   \* how many updates there are
  from,        \* the number of the snapshot joined with, NotJoined before
  given        \* the numbers of the updates given since

NotJoined == -1
vars == <<published, from, given>>

\* The updates after number n up to number k.
Run(n, k) == [i \in 1 .. (k - n) |-> n + i]

Init == published = 0 /\ from = NotJoined /\ given = <<>>

Publish == published' = published + 1 /\ UNCHANGED <<from, given>>

Join ==
  /\ from = NotJoined
  /\ \E n \in 0 .. published : \E k \in n .. published :
       from' = n /\ given' = Run(n, k)
  /\ UNCHANGED published

Follow ==
  /\ from # NotJoined
  /\ from + Len(given) < published
  /\ given' = Append(given, from + Len(given) + 1)
  /\ UNCHANGED <<published, from>>

Next == Publish \/ Join \/ Follow

Spec == Init /\ [][Next]_vars

=============================================================================
