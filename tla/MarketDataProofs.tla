-------------------------- MODULE MarketDataProofs --------------------------
(***************************************************************************)
(* Proofs about MarketData, for every set of tickers, size of the pool and *)
(* number of updates, snapshots and duplicates.  The inductive invariant   *)
(* is IInv.                                                                *)
(***************************************************************************)
EXTENDS MarketData, CommonFacts

Types == {"ADD", "MODIFY", "CANCEL", "TRADE"}
Updates == [type : Types, ticker : Tickers, oid : 0 .. MaxUpdates,
            readAs : {"ADD"} \cup Markers]
Places == [oid : Nat, set : Nat]
Shadows == [orders : [Tickers -> [Indices -> Places]], last : Nat, blocks : Nat,
            aborted : BOOLEAN]
Groups == {"updates", "snapshots", "closed"}
Consumers == [recovering : BOOLEAN, next : Nat, held : SUBSET Messages,
              queued : SUBSET Messages, group : [Sockets -> Groups],
              from : Int, given : Seq(Nat)]

\* The updates and the queue to the synthesizer.
Publishing ==
  /\ updates \in Seq(Updates) /\ Len(updates) <= MaxUpdates
  /\ \A k \in DOMAIN updates : updates[k].type # "TRADE" => updates[k].oid # 0
  /\ \A k \in DOMAIN updates : updates[k].oid <= k
  /\ toShadow \in Seq(Nat)
  /\ \A k \in DOMAIN toShadow : toShadow[k] \in DOMAIN updates
  /\ snapshots \in 0 .. MaxSnapshots /\ duplicates \in Nat
  /\ inOrder \in BOOLEAN

Stored(orders) == {e \in Tickers \X Indices : orders[e[1]][e[2]] # Free}

\* The synthesizer: there are no more orders than blocks, as a place that is
\* overwritten keeps its block.
Shadowing ==
  /\ shadow \in Shadows /\ shadow.last <= Len(updates)
  /\ \A t \in Tickers, i \in Indices : shadow.orders[t][i].set <= Len(updates)
  /\ Cardinality(Stored(shadow.orders)) <= shadow.blocks
  /\ shadow.blocks < PoolSize

IsUpdate(m) == m.seq \in DOMAIN updates /\ m.type = updates[m.seq].readAs

\* What the consumer c keeps.
Kept(c) ==
  /\ c \in Consumers /\ IsFiniteSet(c.held)
  /\ \A m \in c.held : m.num <= Len(updates)
  /\ c.group["incremental"] = "updates" => \A m \in c.queued : IsUpdate(m)

\* Where it stands: it has not joined, or was given a run of updates.  The snapshot
\* socket is open until it joins; it follows the group of the updates until it
\* loses one.
Standing(c) ==
  /\ \/ c.from = NotJoined /\ c.given = <<>>
     \/ /\ c.from \in Nat /\ c.from + Len(c.given) <= Len(updates)
        /\ \A i \in DOMAIN c.given : c.given[i] = c.from + i
  /\ c.group["snapshot"] = "closed" => c.held = {}
  /\ c.group["snapshot"] # "closed" => /\ c.recovering /\ c.from = NotJoined
                                       /\ c.group["incremental"] = "updates"
  /\ ~c.recovering => /\ c.group["incremental"] = "updates"
                      /\ c.from # NotJoined /\ c.next = c.from + Len(c.given) + 1

Way(s) == ToSet(inbox[s])

\* Update k is queued, or was given, or reads as a snapshot marker, or came before
\* the snapshot.
Reached(c, k) ==
  IF c.recovering THEN k \in Seqs(c.queued)
  ELSE k <= c.from \/ k \in ToSet(c.given) \/ updates[k].readAs \in Markers

\* What is under way: updates only, while their group is joined, and all those that
\* have not reached the consumer.
Travelling ==
  /\ inbox \in [Sockets -> Seq(Messages)]
  /\ \A s \in Sockets : \A m \in Way(s) : m.num <= Len(updates)
  /\ consumer.group["snapshot"] = "closed" => inbox["snapshot"] = <<>>
  /\ consumer.group["incremental"] = "updates" =>
       /\ \A m \in Way("incremental") : IsUpdate(m)
       /\ \A k \in DOMAIN updates :
            k \in Seqs(Way("incremental")) \/ Reached(consumer, k)

IInv ==
  /\ Publishing
  /\ Shadowing
  /\ SynthesizerFollows
  /\ Kept(consumer) /\ Standing(consumer)
  /\ Travelling

-----------------------------------------------------------------------------
(* Sequences *)

LEMMA Concatenated ==
  ASSUME NEW Elt, NEW s \in Seq(Elt), NEW t \in Seq(Elt)
  PROVE  s \o t \in Seq(Elt) /\ ToSet(s \o t) = ToSet(s) \cup ToSet(t)
<1>1. s \o t \in Seq(Elt) /\ Len(s \o t) = Len(s) + Len(t)
  OBVIOUS
<1>2. \A i \in DOMAIN s : i \in DOMAIN (s \o t) /\ (s \o t)[i] = s[i]
  OBVIOUS
<1>3. \A i \in DOMAIN t : i + Len(s) \in DOMAIN (s \o t)
                          /\ (s \o t)[i + Len(s)] = t[i]
  OBVIOUS
<1>4. \A i \in DOMAIN (s \o t) : \/ i \in DOMAIN s
                                 \/ i - Len(s) \in DOMAIN t /\ i = (i - Len(s)) + Len(s)
  BY <1>1
<1>5. ASSUME NEW x \in ToSet(s \o t) PROVE x \in ToSet(s) \cup ToSet(t)
  BY <1>2, <1>3, <1>4 DEF ToSet
<1>6. ToSet(s) \cup ToSet(t) \subseteq ToSet(s \o t)
  BY <1>2, <1>3 DEF ToSet
<1> QED
  BY <1>1, <1>5, <1>6

LEMMA Removed ==
  ASSUME NEW Elt, NEW s \in Seq(Elt), NEW k \in DOMAIN s
  PROVE  /\ RemoveAt(s, k) \in Seq(Elt)
         /\ ToSet(RemoveAt(s, k)) \subseteq ToSet(s)
         /\ ToSet(s) \subseteq ToSet(RemoveAt(s, k)) \cup {s[k]}
<1> DEFINE a == SubSeq(s, 1, k - 1)
           b == SubSeq(s, k + 1, Len(s))
<1>1. k \in 1 .. Len(s) /\ Len(s) \in Nat
  OBVIOUS
<1>2. /\ a \in Seq(Elt) /\ Len(a) = k - 1
      /\ \A i \in 1 .. (k - 1) : a[i] = s[i]
  BY <1>1
<1>3. /\ b \in Seq(Elt) /\ Len(b) = Len(s) - k
      /\ \A i \in 1 .. (Len(s) - k) : b[i] = s[k + i]
  BY <1>1
<1>4. RemoveAt(s, k) \in Seq(Elt) /\ ToSet(RemoveAt(s, k)) = ToSet(a) \cup ToSet(b)
  BY <1>2, <1>3, Concatenated, ZenonT(40) DEF RemoveAt
<1> HIDE DEF a, b
<1>5. ToSet(a) \cup ToSet(b) \subseteq ToSet(s)
  BY <1>1, <1>2, <1>3, SMTT(40) DEF ToSet
<1>6. ASSUME NEW i \in DOMAIN s, i # k PROVE s[i] \in ToSet(a) \cup ToSet(b)
  <2>1. CASE i < k
    BY <2>1, <1>1, <1>2 DEF ToSet
  <2>2. CASE i > k
    <3>1. i - k \in 1 .. (Len(s) - k) /\ k + (i - k) = i
      BY <2>2, <1>1
    <3>2. b[i - k] = s[i] /\ i - k \in DOMAIN b
      BY <3>1, <1>1, <1>3
    <3> QED
      BY <3>2 DEF ToSet
  <2> QED
    BY <1>6, <1>1, <2>1, <2>2
<1> QED
  BY <1>4, <1>5, <1>6 DEF ToSet

LEMMA Appended ==
  ASSUME NEW Elt, NEW s \in Seq(Elt), NEW x \in Elt
  PROVE  /\ Append(s, x) \in Seq(Elt) /\ Len(Append(s, x)) = Len(s) + 1
         /\ \A i \in DOMAIN s : Append(s, x)[i] = s[i]
         /\ Append(s, x)[Len(s) + 1] = x
         /\ ToSet(Append(s, x)) = ToSet(s) \cup {x}
<1>1. /\ Append(s, x) \in Seq(Elt) /\ Len(Append(s, x)) = Len(s) + 1
      /\ \A i \in DOMAIN s : Append(s, x)[i] = s[i]
      /\ Append(s, x)[Len(s) + 1] = x
  OBVIOUS
<1> QED
  BY <1>1 DEF ToSet

-----------------------------------------------------------------------------
(* The consumer *)

\* The walk over the queued updates ends between the snapshot's number and the
\* last one published, at an update that is missing or reads as a marker.
LEMMA WalkEnds ==
  ASSUME NEW c, NEW n \in Nat, NEW N \in Nat, N = Len(updates), n <= N,
         \A m \in c.queued : m.seq <= N
  PROVE  /\ Walked(c, n) \in n .. N
         /\ \A m \in c.queued : m.seq = Walked(c, n) + 1 => m.type \in Markers
<1>1. N \in Stops(c, n)
  BY DEF Stops
<1>2. Stops(c, n) \in SUBSET Nat
  BY DEF Stops
<1>3. \E k \in Stops(c, n) : \A j \in Stops(c, n) : k <= j
  BY <1>1, <1>2, LeastNatural
<1>4. Walked(c, n) \in Stops(c, n)
  BY <1>3 DEF Walked
<1> QED
  BY <1>4 DEF Stops

\* What joining does: the consumer is given the updates after the snapshot up to a
\* number that no queued update is left behind, markers excepted.
HasJoined(c, d) ==
  /\ c.from = NotJoined /\ c.recovering /\ c.held # {}
  /\ d \in Consumers
  /\ ~d.recovering /\ d.held = {} /\ d.queued = {}
  /\ d.group = [c.group EXCEPT !["snapshot"] = "closed"]
  /\ d.group["snapshot"] = "closed" /\ d.group["incremental"] = "updates"
  /\ d.from \in 0 .. Len(updates)
  /\ \E k \in d.from .. Len(updates) :
       /\ d.given = [i \in 1 .. (k - d.from) |-> d.from + i] /\ d.next = k + 1
       /\ \A m \in c.queued : m.seq <= k \/ updates[m.seq].readAs \in Markers

\* What collecting a message without joining does: to the numbers expected and kept,
\* anything that Kept allows.
HasCollected(c, d) ==
  /\ d.recovering = c.recovering /\ d.group = c.group /\ d.queued = c.queued
  /\ d.from = c.from /\ d.given = c.given
  /\ Kept(d) /\ d.held \subseteq c.held

LEMMA JoinStreamEnds ==
  ASSUME NEW c, Kept(c), updates \in Seq(Updates),
         c.recovering, c.from = NotJoined, c.group["incremental"] = "updates",
         c.held # {}, NEW n \in Nat, n <= Len(updates)
  PROVE  HasCollected(c, JoinStream(c, n)) \/ HasJoined(c, JoinStream(c, n))
<1> DEFINE k == Walked(c, n)
           g == [i \in 1 .. (k - n) |-> n + i]
           d == JoinStream(c, n)
<1>1. c \in Consumers /\ Len(updates) \in Nat
  BY DEF Kept
<1>2. \A m \in c.queued : m.seq \in 1 .. Len(updates) /\ m.type = updates[m.seq].readAs
  BY DEF Kept, IsUpdate
<1>3. /\ k \in n .. Len(updates)
      /\ \A m \in c.queued : m.seq = k + 1 => m.type \in Markers
  BY <1>1, <1>2, WalkEnds
<1>4. k \in Nat /\ k + 1 \in Nat /\ k - n \in Nat
  BY <1>3
<1>5. g \in Seq(Nat)
  <2>1. \A i \in 1 .. (k - n) : n + i \in Nat
    BY <1>4
  <2> QED
    BY <1>4, <2>1
<1> HIDE DEF k, g
<1>6. CASE \E m \in c.queued : m.seq > k + 1
  <2>1. d = [c EXCEPT !.next = k + 1, !.held = {}]
    BY <1>6 DEF JoinStream, k
  <2>2. /\ d \in Consumers /\ d.held = {} /\ d.queued = c.queued
        /\ d.recovering = c.recovering /\ d.group = c.group
        /\ d.from = c.from /\ d.given = c.given
    BY <2>1, <1>1, <1>4 DEF Consumers
  <2> HIDE DEF d
  <2>3. Kept(d) /\ d.held \subseteq c.held
    BY <2>2, FS_EmptySet DEF Kept
  <2> QED
    BY <2>2, <2>3 DEF HasCollected, d
<1>7. CASE ~\E m \in c.queued : m.seq > k + 1
  <2> DEFINE h == [c.group EXCEPT !["snapshot"] = "closed"]
  <2>1. d = [c EXCEPT !.next = k + 1, !.held = {}, !.queued = {},
                      !.recovering = FALSE, !.group = h, !.from = n, !.given = g]
    BY <1>7 DEF JoinStream, k, g
  <2>a. /\ h \in [Sockets -> Groups]
        /\ h["snapshot"] = "closed" /\ h["incremental"] = "updates"
    BY <1>1 DEF Consumers, Groups, Sockets
  <2> HIDE DEF h
  <2>b. d \in Consumers
    <3>1. d = [recovering |-> FALSE, next |-> k + 1, held |-> {}, queued |-> {},
               group |-> h, from |-> n, given |-> g]
      BY <2>1, <1>1 DEF Consumers
    <3>2. n \in Int /\ FALSE \in BOOLEAN /\ {} \in SUBSET Messages
      OBVIOUS
    <3> QED
      BY <3>1, <3>2, <2>a, <1>4, <1>5 DEF Consumers
  <2>c. /\ d.held = {} /\ d.queued = {} /\ ~d.recovering
        /\ d.group = h /\ d.from = n /\ d.given = g /\ d.next = k + 1
    BY <2>1, <1>1 DEF Consumers
  <2>3. \A m \in c.queued : m.seq <= k \/ updates[m.seq].readAs \in Markers
    BY <1>7, <1>2, <1>3, <1>4
  <2> HIDE DEF d
  <2>4. n \in 0 .. Len(updates) /\ g = [i \in 1 .. (k - n) |-> n + i]
    BY <1>1 DEF g
  <2> QED
    BY <2>a, <2>b, <2>c, <2>3, <2>4, <1>3 DEF HasJoined, d, h
<1> QED
  BY <1>6, <1>7

LEMMA SnapshotChecked ==
  ASSUME NEW c, Kept(c), updates \in Seq(Updates),
         c.held # {} => /\ c.recovering /\ c.from = NotJoined
                        /\ c.group["incremental"] = "updates"
  PROVE  \/ HasCollected(c, CheckSnapshotSync(c))
         \/ HasJoined(c, CheckSnapshotSync(c))
<1> DEFINE d == CheckSnapshotSync(c)
           last == Cardinality(c.held) - 1
<1>1. c \in Consumers /\ IsFiniteSet(c.held) /\ c.held \subseteq Messages
  BY DEF Kept, Consumers
<1>2. CASE c.held = {}
  BY <1>2 DEF CheckSnapshotSync, HasCollected
<1>3. CASE c.held # {} /\ d = [c EXCEPT !.held = {}]
  <2>1. /\ d \in Consumers /\ d.held = {} /\ d.queued = c.queued
        /\ d.recovering = c.recovering /\ d.group = c.group
        /\ d.from = c.from /\ d.given = c.given
    BY <1>3, <1>1 DEF Consumers
  <2> HIDE DEF d
  <2>2. Kept(d) /\ d.held \subseteq c.held
    BY <2>1, FS_EmptySet DEF Kept
  <2> QED
    BY <2>1, <2>2 DEF HasCollected, d
<1>4. CASE c.held # {} /\ d = c
  BY <1>4 DEF HasCollected
<1>5. CASE /\ c.held # {} /\ Seqs(c.held) = 0 .. last
           /\ d = JoinStream(c, At(c.held, last).num)
  <2>1. last \in Nat
    BY <1>1, <1>5, FS_CardinalityType, FS_EmptySet
  <2>2. last \in Seqs(c.held)
    BY <2>1, <1>5
  <2>3. \E m \in c.held : m.seq = last
    BY <2>2 DEF Seqs
  <2>4. At(c.held, last) \in c.held
    BY <2>3 DEF At
  <2>5. At(c.held, last).num \in Nat /\ At(c.held, last).num <= Len(updates)
    BY <2>4, <1>1 DEF Kept, Messages
  <2> QED
    BY <1>5, <2>5, JoinStreamEnds
<1> QED
  BY <1>2, <1>3, <1>4, <1>5 DEF CheckSnapshotSync, CheckCollected

\* A queued message is kept by its number, and no number is lost.
LEMMA Inserted ==
  ASSUME NEW q \in SUBSET Messages, NEW m \in Messages
  PROVE  /\ Insert(q, m) \in SUBSET Messages /\ Insert(q, m) \subseteq q \cup {m}
         /\ Seqs(Insert(q, m)) = Seqs(q) \cup {m.seq}
BY DEF Insert, Seqs

\* What collecting or joining starts from, when m came in on a socket.
Collecting(c, m, isSnapshot, e) ==
  /\ e.recovering /\ e.group = c.group /\ e.from = c.from /\ e.given = c.given
  /\ Kept(e)
  /\ IF isSnapshot THEN e.queued = c.queued
     ELSE e.held = c.held /\ Seqs(e.queued) = Seqs(c.queued) \cup {m.seq}

LEMMA MessageQueued ==
  ASSUME NEW c, Kept(c), c.recovering, updates \in Seq(Updates),
         NEW isSnapshot \in BOOLEAN,
         NEW m \in Messages, m.num <= Len(updates),
         ~isSnapshot /\ c.group["incremental"] = "updates" => IsUpdate(m),
         isSnapshot \/ c.held # {} => /\ c.from = NotJoined
                                     /\ c.group["incremental"] = "updates"
  PROVE  \E e : /\ Collecting(c, m, isSnapshot, e)
               /\ \/ HasCollected(e, QueueMessage(c, isSnapshot, m))
                  \/ HasJoined(e, QueueMessage(c, isSnapshot, m))
<1>1. c \in Consumers /\ IsFiniteSet(c.held) /\ c.held \in SUBSET Messages
      /\ c.queued \in SUBSET Messages
  BY DEF Kept, Consumers
<1>2. CASE ~isSnapshot
  <2> DEFINE q == Insert(c.queued, m)
             e == [c EXCEPT !.queued = q]
  <2>1. /\ q \in SUBSET Messages /\ q \subseteq c.queued \cup {m}
        /\ Seqs(q) = Seqs(c.queued) \cup {m.seq}
    BY <1>1, Inserted
  <2>2. QueueMessage(c, isSnapshot, m) = CheckSnapshotSync(e)
    BY <1>2 DEF QueueMessage
  <2> HIDE DEF q
  <2>3. /\ e \in Consumers /\ e.queued = q /\ e.held = c.held
        /\ e.recovering = c.recovering /\ e.group = c.group
        /\ e.from = c.from /\ e.given = c.given
    BY <1>1, <2>1 DEF Consumers
  <2> HIDE DEF e
  <2>4. Kept(e)
    BY <2>1, <2>3, <1>2 DEF Kept
  <2>5. Collecting(c, m, isSnapshot, e)
    BY <2>1, <2>3, <2>4, <1>2 DEF Collecting
  <2> QED
    BY <2>2, <2>3, <2>4, <2>5, SnapshotChecked
<1>3. CASE isSnapshot
  <2>1. PICK h \in {{m}, c.held \cup {m}} :
          QueueMessage(c, isSnapshot, m) = CheckSnapshotSync([c EXCEPT !.held = h])
    BY <1>3 DEF QueueMessage
  <2> DEFINE e == [c EXCEPT !.held = h]
  <2>a. IsFiniteSet(c.held \cup {m}) /\ IsFiniteSet({m})
    BY <1>1, FS_AddElement, FS_Singleton
  <2>2. h \in SUBSET Messages /\ IsFiniteSet(h) /\ h \subseteq c.held \cup {m}
    BY <1>1, <2>a
  <2>3. /\ e \in Consumers /\ e.held = h /\ e.queued = c.queued
        /\ e.recovering = c.recovering /\ e.group = c.group
        /\ e.from = c.from /\ e.given = c.given
    BY <1>1, <2>2 DEF Consumers
  <2> HIDE DEF e
  <2>4. Kept(e)
    BY <2>2, <2>3 DEF Kept
  <2>5. Collecting(c, m, isSnapshot, e)
    BY <2>3, <2>4, <1>3 DEF Collecting
  <2> QED
    BY <2>1, <2>3, <2>4, <2>5, <1>3, SnapshotChecked DEF e
<1> QED
  BY <1>2, <1>3

\* The four things a received message can do.
Collects(c, d, socket, m) ==
  /\ c.recovering /\ d.recovering /\ d.group = c.group
  /\ d.from = c.from /\ d.given = c.given
  /\ IF socket = "snapshot" THEN d.queued = c.queued
     ELSE Seqs(d.queued) = Seqs(c.queued) \cup {m.seq}

Joins(c, d, socket, m) ==
  /\ c.group["snapshot"] # "closed"
  /\ \E e : Collecting(c, m, socket = "snapshot", e) /\ HasJoined(e, d)

Loses(c, d) ==
  /\ ~c.recovering /\ d.recovering
  /\ d.group = [c.group EXCEPT !["incremental"] = "snapshots"]
  /\ d.from = c.from /\ d.given = c.given

Follows(c, d, socket, m) ==
  /\ socket = "incremental" /\ ~c.recovering /\ ~d.recovering
  /\ c.group["snapshot"] = "closed" /\ c.group["incremental"] = "updates"
  /\ c.from # NotJoined /\ m.seq = c.from + Len(c.given) + 1
  /\ d.group = c.group /\ d.from = c.from /\ d.given = Append(c.given, m.seq)

\* A snapshot and the updates after it put the consumer where Standing says.
LEMMA JoinedStands ==
  ASSUME NEW c, NEW d, HasJoined(c, d), updates \in Seq(Updates)
  PROVE  Kept(d) /\ Standing(d)
<1>1. PICK k \in d.from .. Len(updates) :
        d.given = [i \in 1 .. (k - d.from) |-> d.from + i] /\ d.next = k + 1
  BY DEF HasJoined
<1>2. /\ d.from \in 0 .. Len(updates) /\ d.held = {} /\ d.queued = {}
      /\ d \in Consumers /\ ~d.recovering
      /\ d.group["snapshot"] = "closed" /\ d.group["incremental"] = "updates"
  BY DEF HasJoined
<1>3. Len(updates) \in Nat /\ d.from \in Nat /\ k \in Nat /\ k - d.from \in Nat
      /\ d.from <= k /\ k <= Len(updates)
  BY <1>1, <1>2
<1>4. Len(d.given) = k - d.from /\ DOMAIN d.given = 1 .. (k - d.from)
  BY <1>1, <1>3
<1>5. \A i \in DOMAIN d.given : d.given[i] = d.from + i
  BY <1>1, <1>4
<1>6. d.from + Len(d.given) = k /\ d.from # NotJoined
  BY <1>3, <1>4 DEF NotJoined
<1>7. Kept(d)
  BY <1>2, FS_EmptySet DEF Kept
<1>8. Standing(d)
  BY <1>1, <1>2, <1>3, <1>5, <1>6 DEF Standing
<1> QED
  BY <1>7, <1>8

\* A message that comes in is collected, joins the consumer, shows a loss or is
\* given to the trade engine.
LEMMA MessageReceived ==
  ASSUME NEW c, Kept(c), Standing(c), updates \in Seq(Updates),
         NEW socket \in Sockets, NEW m \in Messages, m.num <= Len(updates),
         socket = "snapshot" => c.group["snapshot"] # "closed",
         socket = "incremental" /\ c.group["incremental"] = "updates" => IsUpdate(m)
  PROVE  LET d == RecvCallback(c, socket, m) IN
         /\ Kept(d) /\ Standing(d)
         /\ \/ Collects(c, d, socket, m) \/ Joins(c, d, socket, m)
            \/ Loses(c, d) \/ Follows(c, d, socket, m)
<1> DEFINE d == RecvCallback(c, socket, m)
<1>1. c \in Consumers /\ Len(updates) \in Nat
      /\ c.group \in [Sockets -> Groups] /\ c.from \in Int /\ c.given \in Seq(Nat)
  BY DEF Kept, Consumers
<1>2. c.group["snapshot"] # "closed" =>
        c.recovering /\ c.from = NotJoined /\ c.group["incremental"] = "updates"
  BY DEF Standing
<1>3. CASE c.recovering
  <2>1. d = QueueMessage(c, socket = "snapshot", m)
    BY <1>3 DEF RecvCallback
  <2>2. c.held # {} => c.group["snapshot"] # "closed"
    BY DEF Standing
  <2>3. PICK e : /\ Collecting(c, m, socket = "snapshot", e)
                 /\ HasCollected(e, d) \/ HasJoined(e, d)
    <3>1. (socket = "snapshot") \in BOOLEAN
      OBVIOUS
    <3>2. ~(socket = "snapshot") => socket = "incremental"
      BY DEF Sockets
    <3> QED
      BY <2>1, <2>2, <1>2, <1>3, <3>1, <3>2, MessageQueued
  <2> HIDE DEF d
  <2>4. /\ e.recovering /\ e.group = c.group /\ e.from = c.from /\ e.given = c.given
        /\ IF socket = "snapshot" THEN e.queued = c.queued
           ELSE e.held = c.held /\ Seqs(e.queued) = Seqs(c.queued) \cup {m.seq}
    BY <2>3 DEF Collecting
  <2>5. CASE HasCollected(e, d)
    <3>1. /\ d.recovering /\ d.group = c.group /\ d.from = c.from
          /\ d.given = c.given /\ d.queued = e.queued /\ d.held \subseteq e.held
          /\ Kept(d)
      BY <2>4, <2>5 DEF HasCollected
    <3>2. c.group["snapshot"] = "closed" => d.held = {}
      BY <3>1, <2>4 DEF Standing
    <3>3. Standing(d)
      BY <3>1, <3>2 DEF Standing
    <3>4. Collects(c, d, socket, m)
      BY <3>1, <2>4, <1>3 DEF Collects
    <3> QED
      BY <3>1, <3>3, <3>4 DEF d
  <2>6. CASE HasJoined(e, d)
    <3>1. Kept(d) /\ Standing(d)
      BY <2>6, JoinedStands
    <3>2. c.group["snapshot"] # "closed"
      BY <2>4, <2>6 DEF HasJoined, Standing
    <3> QED
      BY <3>1, <3>2, <2>3, <2>6 DEF Joins, d
  <2> QED
    BY <2>3, <2>5, <2>6
<1>4. CASE ~c.recovering /\ m.seq = c.next
  <2>1. /\ socket = "incremental" /\ c.group["incremental"] = "updates"
        /\ c.group["snapshot"] = "closed" /\ c.from # NotJoined /\ c.held = {}
        /\ c.next = c.from + Len(c.given) + 1
    BY <1>4, <1>2 DEF Standing, Sockets
  <2>2. d = Forward(c, m)
    BY <1>4, <2>1 DEF RecvCallback
  <2> DEFINE g == Append(c.given, m.seq)
  <2>3. c.next \in Nat /\ c.next + 1 \in Nat /\ m.seq \in Nat
        /\ m.seq \in 1 .. Len(updates)
    BY <1>1, <2>1 DEF Consumers, Messages, IsUpdate
  <2>4. /\ g \in Seq(Nat) /\ Len(g) = Len(c.given) + 1
        /\ \A i \in DOMAIN c.given : g[i] = c.given[i]
        /\ g[Len(c.given) + 1] = m.seq
    BY <1>1, <2>3, Appended
  <2> HIDE DEF g
  <2>5. d = [c EXCEPT !.next = c.next + 1, !.given = g]
    BY <2>2, <1>1 DEF Forward, g, Consumers
  <2>6. /\ d \in Consumers /\ d.given = g /\ d.next = c.next + 1
        /\ d.recovering = c.recovering /\ d.group = c.group
        /\ d.from = c.from /\ d.held = c.held /\ d.queued = c.queued
    BY <2>5, <2>3, <2>4, <1>1 DEF Consumers
  <2> HIDE DEF d
  <2>7. Kept(d)
    BY <2>6 DEF Kept
  <2>8. /\ c.from \in Nat /\ Len(c.given) \in Nat
        /\ \A i \in DOMAIN c.given : c.given[i] = c.from + i
    BY <2>1, <1>1 DEF Standing
  <2>9. m.seq = c.from + Len(c.given) + 1
    BY <2>1, <1>4
  <2>a. /\ m.seq = c.from + (Len(c.given) + 1) /\ m.seq = c.from + Len(g)
        /\ m.seq + 1 = c.from + Len(g) + 1
    <3> DEFINE n == Len(c.given)
    <3>1. n \in Nat /\ m.seq = c.from + n + 1 /\ Len(g) = n + 1
      BY <2>4, <2>8, <2>9
    <3> HIDE DEF n
    <3>2. m.seq = c.from + (n + 1)
      BY <2>8, <3>1
    <3>3. m.seq = c.from + Len(g)
      BY <3>1, <3>2
    <3> QED
      BY <3>2, <3>3 DEF n
  <2>b. \A i \in DOMAIN g : g[i] = c.from + i
    <3>1. DOMAIN g = 1 .. (Len(c.given) + 1) /\ DOMAIN c.given = 1 .. Len(c.given)
      BY <2>4, <1>1
    <3>2. g[Len(c.given) + 1] = c.from + (Len(c.given) + 1)
      BY <2>4, <2>a
    <3>3. \A i \in 1 .. Len(c.given) : g[i] = c.from + i
      BY <2>4, <2>8, <3>1
    <3> QED
      BY <3>1, <3>2, <3>3, <2>8
  <2>c. /\ d.next = d.from + Len(d.given) + 1 /\ d.from \in Nat
        /\ d.from + Len(d.given) <= Len(updates)
    <3>1. d.next = m.seq + 1 /\ d.from = c.from /\ d.given = g
      BY <2>6, <1>4
    <3>2. m.seq <= Len(updates)
      BY <2>3, <1>1
    <3> QED
      BY <3>1, <3>2, <2>8, <2>a
  <2>10. Standing(d)
    BY <2>1, <2>6, <2>b, <2>c, <1>4 DEF Standing
  <2>11. Follows(c, d, socket, m)
    BY <2>1, <2>6, <1>4 DEF Follows, g
  <2> QED
    BY <2>7, <2>10, <2>11 DEF d
<1>5. CASE ~c.recovering /\ m.seq # c.next
  <2> DEFINE h == [c.group EXCEPT !["incremental"] = "snapshots"]
             a == StartSnapshotSync(c)
  <2>1. /\ socket = "incremental" /\ c.group["incremental"] = "updates"
        /\ c.group["snapshot"] = "closed" /\ c.from # NotJoined
    BY <1>5, <1>2 DEF Standing, Sockets
  <2>2. d = QueueMessage(a, FALSE, m)
    BY <1>5, <2>1 DEF RecvCallback
  <2>3. h \in [Sockets -> Groups] /\ h["incremental"] = "snapshots"
        /\ h["snapshot"] = "closed"
    BY <1>1, <2>1 DEF Groups, Sockets
  <2> HIDE DEF h
  <2>4. a = [c EXCEPT !.held = {}, !.queued = {}, !.recovering = TRUE, !.group = h]
    BY <1>1 DEF StartSnapshotSync, h, Consumers
  <2>5. /\ a \in Consumers /\ a.held = {} /\ a.recovering /\ a.group = h
        /\ a.from = c.from /\ a.given = c.given
    BY <2>3, <2>4, <1>1 DEF Consumers
  <2> HIDE DEF a
  <2>6. Kept(a)
    BY <2>3, <2>5, FS_EmptySet DEF Kept
  <2>7. PICK e : /\ Collecting(a, m, FALSE, e)
                 /\ HasCollected(e, d) \/ HasJoined(e, d)
    BY <2>2, <2>3, <2>5, <2>6, MessageQueued, ZenonT(40)
  <2> HIDE DEF d
  <2>8. /\ e.recovering /\ e.group = h /\ e.from = c.from /\ e.given = c.given
        /\ e.held = {}
    BY <2>5, <2>7 DEF Collecting
  <2>9. HasCollected(e, d)
    BY <2>1, <2>7, <2>8 DEF HasJoined
  <2>10. /\ d.recovering /\ d.group = h /\ d.from = c.from /\ d.given = c.given
         /\ d.held = {} /\ Kept(d)
    BY <2>8, <2>9 DEF HasCollected
  <2>11. Standing(d)
    BY <2>1, <2>3, <2>10 DEF Standing
  <2>12. Loses(c, d)
    BY <2>10, <1>5 DEF Loses, h
  <2> QED
    BY <2>10, <2>11, <2>12 DEF d
<1> QED
  BY <1>3, <1>4, <1>5

\* What is under way after a message was received.
LEMMA InboxReceived ==
  ASSUME NEW s \in Sockets, inbox \in [Sockets -> Seq(Messages)],
         NEW k \in DOMAIN inbox[s],
         inbox' = [t \in Sockets |->
                     IF consumer'.group[t] # consumer.group[t] THEN <<>>
                     ELSE IF t = s THEN RemoveAt(inbox[t], k) ELSE inbox[t]]
  PROVE  /\ inbox' \in [Sockets -> Seq(Messages)]
         /\ \A t \in Sockets :
              /\ Way(t)' \subseteq Way(t)
              /\ consumer'.group[t] # consumer.group[t] => inbox'[t] = <<>>
              /\ consumer'.group[t] = consumer.group[t] =>
                   /\ t # s => inbox'[t] = inbox[t]
                   /\ Way(t) \subseteq Way(t)' \cup (IF t = s THEN {inbox[s][k]} ELSE {})
<1>1. /\ RemoveAt(inbox[s], k) \in Seq(Messages)
      /\ ToSet(RemoveAt(inbox[s], k)) \subseteq ToSet(inbox[s])
      /\ ToSet(inbox[s]) \subseteq ToSet(RemoveAt(inbox[s], k)) \cup {inbox[s][k]}
  BY Removed
<1>2. <<>> \in Seq(Messages) /\ ToSet(<<>>) = {}
  BY DEF ToSet
<1>3. inbox' \in [Sockets -> Seq(Messages)]
  BY <1>1, <1>2
<1>4. ASSUME NEW t \in Sockets
      PROVE  /\ Way(t)' \subseteq Way(t)
             /\ consumer'.group[t] # consumer.group[t] => inbox'[t] = <<>>
             /\ consumer'.group[t] = consumer.group[t] =>
                  /\ t # s => inbox'[t] = inbox[t]
                  /\ Way(t) \subseteq Way(t)' \cup (IF t = s THEN {inbox[s][k]} ELSE {})
  <2>1. CASE consumer'.group[t] # consumer.group[t]
    BY <1>2, <2>1 DEF Way
  <2>2. CASE consumer'.group[t] = consumer.group[t] /\ t = s
    BY <1>1, <2>2 DEF Way
  <2>3. CASE consumer'.group[t] = consumer.group[t] /\ t # s
    BY <2>3 DEF Way
  <2> QED
    BY <2>1, <2>2, <2>3
<1> QED
  BY <1>3, <1>4

\* Joining reaches every update that was queued.
LEMMA JoinReaches ==
  ASSUME NEW e, NEW d, HasJoined(e, d), updates \in Seq(Updates),
         NEW n \in DOMAIN updates, n \in Seqs(e.queued)
  PROVE  Reached(d, n)
<1>1. PICK k \in d.from .. Len(updates) :
        /\ d.given = [i \in 1 .. (k - d.from) |-> d.from + i]
        /\ \A m \in e.queued : m.seq <= k \/ updates[m.seq].readAs \in Markers
  BY DEF HasJoined
<1>2. n <= k \/ updates[n].readAs \in Markers
  BY <1>1 DEF Seqs
<1>3. d.from \in Nat /\ k \in Nat /\ n \in Nat /\ ~d.recovering
  BY <1>1 DEF HasJoined
<1>4. ASSUME n <= k, ~(n <= d.from) PROVE n \in ToSet(d.given)
  <2>1. n - d.from \in 1 .. (k - d.from) /\ d.from + (n - d.from) = n
    BY <1>3, <1>4
  <2>2. n - d.from \in DOMAIN d.given /\ d.given[n - d.from] = n
    BY <1>1, <2>1
  <2> QED
    BY <2>2 DEF ToSet
<1> QED
  BY <1>2, <1>3, <1>4 DEF Reached

\* What a received message does, as far as the properties tell.
LEMMA ReceiveFacts ==
  ASSUME IInv, NEW s \in Sockets, Receive(s)
  PROVE  \E k \in DOMAIN inbox[s] :
           LET m == inbox[s][k]
               d == consumer' IN
           /\ inbox' = [t \in Sockets |->
                IF consumer'.group[t] # consumer.group[t] THEN <<>>
                ELSE IF t = s THEN RemoveAt(inbox[t], k) ELSE inbox[t]]
           /\ m \in Messages /\ m.num <= Len(updates)
           /\ s = "snapshot" => consumer.group["snapshot"] # "closed"
           /\ s = "incremental" /\ consumer.group["incremental"] = "updates" => IsUpdate(m)
           /\ Kept(d) /\ Standing(d)
           /\ \/ Collects(consumer, d, s, m) \/ Joins(consumer, d, s, m)
              \/ Loses(consumer, d) \/ Follows(consumer, d, s, m)
<1>1. PICK k \in DOMAIN inbox[s] :
        /\ consumer' = RecvCallback(consumer, s, inbox[s][k])
        /\ inbox' = [t \in Sockets |->
             IF consumer'.group[t] # consumer.group[t] THEN <<>>
             ELSE IF t = s THEN RemoveAt(inbox[t], k) ELSE inbox[t]]
  BY DEF Receive
<1> DEFINE m == inbox[s][k]
<1>2. inbox \in [Sockets -> Seq(Messages)] /\ m \in Messages /\ m \in Way(s)
  BY DEF IInv, Travelling, Way, ToSet
<1>3. /\ m.num <= Len(updates)
      /\ s = "snapshot" => consumer.group["snapshot"] # "closed"
      /\ s = "incremental" /\ consumer.group["incremental"] = "updates" => IsUpdate(m)
  BY <1>1, <1>2 DEF IInv, Travelling
<1>4. Kept(consumer) /\ Standing(consumer) /\ updates \in Seq(Updates)
  BY DEF IInv, Publishing
<1> HIDE DEF m
<1>5. /\ Kept(consumer') /\ Standing(consumer')
      /\ \/ Collects(consumer, consumer', s, m) \/ Joins(consumer, consumer', s, m)
         \/ Loses(consumer, consumer') \/ Follows(consumer, consumer', s, m)
  BY <1>1, <1>2, <1>3, <1>4, MessageReceived DEF m
<1> QED
  BY <1>1, <1>2, <1>3, <1>5 DEF m

LEMMA ReceiveKeeps ==
  ASSUME IInv, NEW s \in Sockets, Receive(s)
  PROVE  IInv'
<1> DEFINE c == consumer
           d == consumer'
<1>1. PICK k \in DOMAIN inbox[s] :
        LET m == inbox[s][k] IN
        /\ inbox' = [t \in Sockets |->
             IF consumer'.group[t] # consumer.group[t] THEN <<>>
             ELSE IF t = s THEN RemoveAt(inbox[t], k) ELSE inbox[t]]
        /\ m \in Messages /\ m.num <= Len(updates)
        /\ s = "snapshot" => c.group["snapshot"] # "closed"
        /\ s = "incremental" /\ c.group["incremental"] = "updates" => IsUpdate(m)
        /\ Kept(d) /\ Standing(d)
        /\ \/ Collects(c, d, s, m) \/ Joins(c, d, s, m)
           \/ Loses(c, d) \/ Follows(c, d, s, m)
  BY ReceiveFacts
<1> DEFINE m == inbox[s][k]
<1>2. UNCHANGED <<updates, toShadow, shadow, snapshots, duplicates, inOrder>>
  BY DEF Receive
<1>3. /\ Publishing' /\ Shadowing' /\ SynthesizerFollows'
      /\ updates \in Seq(Updates)
  BY <1>2 DEF IInv, Publishing, Shadowing, SynthesizerFollows, Stored
<1>4. Kept(consumer)' /\ Standing(consumer)'
  BY <1>1, <1>2 DEF Kept, Standing, IsUpdate
<1>5. inbox \in [Sockets -> Seq(Messages)]
  BY DEF IInv, Travelling
<1>6. /\ inbox' \in [Sockets -> Seq(Messages)]
      /\ \A t \in Sockets :
           /\ Way(t)' \subseteq Way(t)
           /\ d.group[t] # c.group[t] => inbox'[t] = <<>>
           /\ d.group[t] = c.group[t] =>
                /\ t # s => inbox'[t] = inbox[t]
                /\ Way(t) \subseteq Way(t)' \cup (IF t = s THEN {m} ELSE {})
  BY <1>1, <1>5, InboxReceived
<1>a. "incremental" \in Sockets /\ "snapshot" \in Sockets
  BY DEF Sockets
<1>b. c \in Consumers /\ d \in Consumers
  BY <1>1 DEF IInv, Kept
<1>7. \A t \in Sockets : \A x \in Way(t)' : x.num <= Len(updates')
  BY <1>2, <1>6 DEF IInv, Travelling
<1>8. d.group["snapshot"] = "closed" => inbox'["snapshot"] = <<>>
  <2>1. CASE d.group["snapshot"] # c.group["snapshot"]
    BY <2>1, <1>6, <1>a
  <2>2. CASE d.group["snapshot"] = c.group["snapshot"]
    BY <2>2, <1>1, <1>6, <1>a DEF IInv, Travelling
  <2> QED
    BY <2>1, <2>2
<1>9. ASSUME d.group["incremental"] = "updates"
      PROVE  /\ c.group["incremental"] = "updates"
             /\ Collects(c, d, s, m) \/ Joins(c, d, s, m) \/ Follows(c, d, s, m)
  <2>1. CASE Collects(c, d, s, m)
    BY <2>1, <1>9 DEF Collects
  <2>2. CASE Joins(c, d, s, m)
    BY <2>2 DEF Joins, IInv, Standing
  <2>3. CASE Follows(c, d, s, m)
    BY <2>3 DEF Follows
  <2>4. ~Loses(c, d)
    BY <1>9, <1>a, <1>b DEF Loses, Consumers
  <2> QED
    BY <1>1, <2>1, <2>2, <2>3, <2>4
<1>10. ASSUME d.group["incremental"] = "updates",
              NEW n \in DOMAIN updates, Reached(c, n)
       PROVE  Reached(d, n)
  <2>1. CASE Collects(c, d, s, m)
    <3>1. c.recovering /\ d.recovering /\ Seqs(c.queued) \subseteq Seqs(d.queued)
      BY <2>1 DEF Collects
    <3> QED
      BY <3>1, <1>10 DEF Reached
  <2>2. CASE Joins(c, d, s, m)
    <3>1. PICK e : Collecting(c, m, s = "snapshot", e) /\ HasJoined(e, d)
      BY <2>2 DEF Joins
    <3>2. c.recovering
      BY <2>2 DEF Joins, IInv, Standing
    <3>3. n \in Seqs(c.queued)
      BY <3>2, <1>10 DEF Reached
    <3>4. n \in Seqs(e.queued)
      BY <3>1, <3>3 DEF Collecting
    <3> QED
      BY <3>1, <3>4, <1>3, JoinReaches
  <2>3. CASE Follows(c, d, s, m)
    <3>1. /\ ~c.recovering /\ ~d.recovering /\ d.from = c.from
          /\ d.given = Append(c.given, m.seq)
      BY <2>3 DEF Follows
    <3>2. c.given \in Seq(Nat) /\ m.seq \in Nat
      BY <1>1, <1>b DEF Consumers, Messages
    <3>3. ToSet(d.given) = ToSet(c.given) \cup {m.seq}
      BY <3>1, <3>2, Appended
    <3> QED
      BY <3>1, <3>3, <1>10 DEF Reached
  <2> QED
    BY <1>9, <1>10, <2>1, <2>2, <2>3
<1>11. ASSUME d.group["incremental"] = "updates", s = "incremental",
              m.seq \in DOMAIN updates
       PROVE  Reached(d, m.seq)
  <2>1. CASE Collects(c, d, s, m)
    <3>1. d.recovering /\ Seqs(d.queued) = Seqs(c.queued) \cup {m.seq}
      BY <2>1, <1>11 DEF Collects
    <3> QED
      BY <3>1 DEF Reached
  <2>2. CASE Joins(c, d, s, m)
    <3>1. PICK e : Collecting(c, m, s = "snapshot", e) /\ HasJoined(e, d)
      BY <2>2 DEF Joins
    <3>2. m.seq \in Seqs(e.queued)
      BY <3>1, <1>11 DEF Collecting
    <3> QED
      BY <3>1, <3>2, <1>3, <1>11, JoinReaches
  <2>3. CASE Follows(c, d, s, m)
    <3>1. ~d.recovering /\ d.given = Append(c.given, m.seq)
      BY <2>3 DEF Follows
    <3>2. c.given \in Seq(Nat) /\ m.seq \in Nat
      BY <1>1, <1>b DEF Consumers, Messages
    <3>3. m.seq \in ToSet(d.given)
      BY <3>1, <3>2, Appended
    <3> QED
      BY <3>1, <3>3 DEF Reached
  <2> QED
    BY <1>9, <1>11, <2>1, <2>2, <2>3
<1>12. ASSUME d.group["incremental"] = "updates"
       PROVE  /\ \A x \in Way("incremental")' : IsUpdate(x)
              /\ \A n \in DOMAIN updates :
                   n \in Seqs(Way("incremental")') \/ Reached(d, n)
  <2>1. \A x \in Way("incremental")' : IsUpdate(x)
    BY <1>6, <1>9, <1>12, <1>a DEF IInv, Travelling
  <2>2. Way("incremental") \subseteq
          Way("incremental")' \cup (IF "incremental" = s THEN {m} ELSE {})
    BY <1>6, <1>9, <1>12, <1>a
  <2>3. ASSUME NEW n \in DOMAIN updates, n \notin Seqs(Way("incremental")')
        PROVE  Reached(d, n)
    <3>1. CASE Reached(c, n)
      BY <3>1, <1>10, <1>12
    <3>2. CASE n \in Seqs(Way("incremental"))
      <4>1. PICK x \in Way("incremental") : x.seq = n
        BY <3>2 DEF Seqs
      <4>2. x = m /\ s = "incremental"
        BY <4>1, <2>2, <2>3 DEF Seqs
      <4> QED
        BY <4>1, <4>2, <1>11, <1>12
    <3> QED
      BY <3>1, <3>2, <1>9, <1>12 DEF IInv, Travelling
  <2> QED
    BY <2>1, <2>3
<1> HIDE DEF m
<1>13. Travelling'
  <2>1. d.group["incremental"] = "updates" =>
          /\ \A x \in Way("incremental")' : IsUpdate(x)'
          /\ \A n \in DOMAIN updates' :
               n \in Seqs(Way("incremental")') \/ Reached(consumer, n)'
    BY <1>2, <1>12 DEF IsUpdate, Reached
  <2> QED
    BY <2>1, <1>6, <1>7, <1>8 DEF Travelling, Seqs
<1> QED
  BY <1>3, <1>4, <1>13 DEF IInv

-----------------------------------------------------------------------------
(* The publisher and the network *)

LEMMA ConstantFacts ==
  /\ Tickers \subseteq Nat /\ IsFiniteSet(Tickers) /\ Tickers \subseteq Indices
  /\ MaxUpdates \in Nat /\ MaxSnapshots \in Nat /\ PoolSize \in Nat \ {0}
  /\ 1 .. MaxUpdates \subseteq Indices
  /\ IsFiniteSet(Tickers \X Indices)
<1>1. /\ Tickers \subseteq Nat /\ IsFiniteSet(Tickers) /\ PoolSize \in Nat \ {0}
      /\ MaxUpdates \in Nat /\ MaxSnapshots \in Nat
  BY MarketDataAssumption
<1>2. IsFiniteSet(1 .. MaxUpdates)
  BY <1>1, FS_Interval
<1>3. IsFiniteSet(Indices)
  BY <1>1, <1>2, FS_Union DEF Indices
<1>4. IsFiniteSet(Tickers \X Indices)
  BY <1>1, <1>3, FS_Product
<1> QED
  BY <1>1, <1>4 DEF Indices

\* What a datagram adds.
LEMMA Sent ==
  ASSUME NEW g, NEW messages \in Seq(Messages),
         inbox \in [Sockets -> Seq(Messages)], inbox' = Multicast(g, messages)
  PROVE  /\ inbox' \in [Sockets -> Seq(Messages)]
         /\ \A s \in Sockets :
              /\ consumer.group[s] = g => Way(s)' = Way(s) \cup ToSet(messages)
              /\ consumer.group[s] # g => inbox'[s] = inbox[s] /\ Way(s)' = Way(s)
<1>1. ASSUME NEW s \in Sockets
      PROVE  /\ inbox[s] \o messages \in Seq(Messages)
             /\ ToSet(inbox[s] \o messages) = ToSet(inbox[s]) \cup ToSet(messages)
  BY Concatenated
<1>2. inbox' = [s \in Sockets |-> IF consumer.group[s] = g THEN inbox[s] \o messages
                                  ELSE inbox[s]]
  BY DEF Multicast
<1>3. inbox' \in [Sockets -> Seq(Messages)]
  BY <1>1, <1>2
<1>4. ASSUME NEW s \in Sockets
      PROVE  /\ consumer.group[s] = g => Way(s)' = Way(s) \cup ToSet(messages)
             /\ consumer.group[s] # g => inbox'[s] = inbox[s] /\ Way(s)' = Way(s)
  BY <1>1, <1>2 DEF Way
<1> QED
  BY <1>3, <1>4

\* The update of the last order added, and the orders that may have come since:
\* not more than there were updates.
LastAdd(t) == Max(Of(t, "ADD") \cup {0})
TradesSince(t) == {k \in Of(t, "TRADE") : k > LastAdd(t)}
LastId(t) == IF LastAdd(t) = 0 THEN 0 ELSE updates[LastAdd(t)].oid

LEMMA NewIdsBound ==
  ASSUME Publishing, NEW t
  PROVE  /\ LastAdd(t) \in Of(t, "ADD") \cup {0} /\ LastAdd(t) \in 0 .. Len(updates)
         /\ \A k \in Of(t, "ADD") : k <= LastAdd(t)
         /\ LastId(t) \in Nat
         /\ \A o \in NewIds(t) : /\ o \in Nat /\ LastId(t) < o
                                 /\ o <= Len(updates) + 1
<1> DEFINE n == Len(updates)
           A == Of(t, "ADD") \cup {0}
           last == LastAdd(t)
           c == Cardinality(TradesSince(t))
<1>1. updates \in Seq(Updates) /\ n \in Nat /\ DOMAIN updates = 1 .. n
  BY DEF Publishing
<1>2. A \subseteq 0 .. n
  BY <1>1 DEF Of
<1>3. last \in A /\ \A k \in A : k <= last
  <2>1. \E x \in A : \A y \in A : x >= y
    <3> DEFINE T == {n - k : k \in A}
    <3>1. T \in SUBSET Nat /\ T # {}
      BY <1>1, <1>2
    <3>2. PICK d \in T : \A e \in T : d <= e
      <4> HIDE DEF T
      <4> QED
        BY <3>1, LeastNatural
    <3>3. PICK x \in A : d = n - x
      BY <3>2
    <3>4. ASSUME NEW y \in A PROVE x >= y
      <4>1. n - x <= n - y
        BY <3>2, <3>3
      <4> QED
        BY <4>1, <1>1, <1>2, <3>3
    <3> QED
      BY <3>4
  <2> HIDE DEF A
  <2>2. Max(A) \in A /\ \A y \in A : Max(A) >= y
    BY <2>1 DEF Max
  <2>3. last = Max(A)
    BY DEF LastAdd, A
  <2>4. \A y \in A : y \in Nat
    BY <1>1, <1>2
  <2> HIDE DEF last
  <2> QED
    BY <2>2, <2>3, <2>4
<1>4. last \in 0 .. n /\ last \in A /\ \A k \in Of(t, "ADD") : k <= last
  BY <1>2, <1>3
<1>5. c \in Nat /\ c <= n - last
  <2>1. TradesSince(t) \subseteq (last + 1) .. n
    BY <1>1, <1>4 DEF TradesSince, Of
  <2> HIDE DEF last
  <2>2. last + 1 \in Int /\ n \in Int
    BY <1>1, <1>4
  <2>3. /\ IsFiniteSet((last + 1) .. n)
        /\ Cardinality((last + 1) .. n)
             = IF last + 1 > n THEN 0 ELSE n - (last + 1) + 1
    BY <2>2, FS_Interval
  <2>4. Cardinality((last + 1) .. n) = n - last
    BY <2>3, <1>1, <1>4
  <2>5. IsFiniteSet(TradesSince(t)) /\ c <= Cardinality((last + 1) .. n)
    BY <2>1, <2>3, FS_Subset
  <2> QED
    BY <2>4, <2>5, FS_CardinalityType
<1>6. LastId(t) \in Nat /\ LastId(t) <= last
  <2>1. CASE last = 0
    BY <2>1 DEF LastId
  <2>2. CASE last # 0
    <3>1. last \in DOMAIN updates /\ LastId(t) = updates[last].oid
      BY <2>2, <1>1, <1>4 DEF LastId
    <3> HIDE DEF last
    <3>2. updates[last] \in Updates
      BY <1>1, <3>1
    <3>3. updates[last].oid \in Nat
      BY <3>2, ConstantFacts DEF Updates
    <3>4. updates[last].oid <= last
      BY <3>1 DEF Publishing
    <3> QED
      BY <3>1, <3>3, <3>4
  <2> QED
    BY <2>1, <2>2
<1>7. NewIds(t) = (LastId(t) + 1) .. (LastId(t) + 1 + c)
  BY DEF NewIds, LastId, LastAdd, TradesSince
<1> DEFINE i == LastId(t)
<1>8. i \in Nat /\ i <= last /\ NewIds(t) = (i + 1) .. (i + 1 + c)
  BY <1>6, <1>7
<1> HIDE DEF last, c, i
<1>9. ASSUME NEW o \in NewIds(t) PROVE o \in Nat /\ i < o /\ o <= n + 1
  BY <1>1, <1>4, <1>5, <1>8
<1> QED
  BY <1>4, <1>8, <1>9 DEF last, i

\* What the engine publishes: an order added with a new id, or a change of one
\* that was, or a trade.
LEMMA NextUpdateIs ==
  ASSUME Publishing, NEW u \in NextUpdates
  PROVE  /\ u.ticker \in Tickers
         /\ \/ u.type = "ADD" /\ u.oid \in NewIds(u.ticker)
            \/ u.type \in {"MODIFY", "CANCEL"} /\ u.oid \in LiveAfter(Len(updates), u.ticker)
            \/ u.type = "TRADE" /\ u.oid = 0
<1> DEFINE n == Len(updates)
           Changes(t) == [type : {"MODIFY", "CANCEL"}, ticker : {t}, oid : LiveAfter(n, t)]
           New(t) == [type : {"ADD"}, ticker : {t}, oid : NewIds(t)]
                     \cup {[type |-> "TRADE", ticker |-> t, oid |-> 0] : o \in LiveAfter(n, t)}
                     \cup {v \in Changes(t) : v.type = "CANCEL"}
           Fine == /\ u.ticker \in Tickers
                   /\ \/ u.type = "ADD" /\ u.oid \in NewIds(u.ticker)
                      \/ u.type \in {"MODIFY", "CANCEL"} /\ u.oid \in LiveAfter(n, u.ticker)
                      \/ u.type = "TRADE" /\ u.oid = 0
<1>1. ASSUME NEW t \in Tickers, u \in Changes(t) PROVE Fine
  BY <1>1
<1>2. ASSUME NEW t \in Tickers, u \in New(t) PROVE Fine
  <2>1. CASE u \in [type : {"ADD"}, ticker : {t}, oid : NewIds(t)]
    BY <2>1
  <2>2. CASE u \in {[type |-> "TRADE", ticker |-> t, oid |-> 0] : o \in LiveAfter(n, t)}
    BY <2>2
  <2>3. CASE u \in Changes(t)
    BY <2>3, <1>1
  <2> QED
    BY <1>2, <2>1, <2>2, <2>3
<1>3. CASE n # 0 /\ updates[n].type = "TRADE"
  <2>1. u \in Changes(updates[n].ticker)
    BY <1>3 DEF NextUpdates
  <2>2. updates \in Seq(Updates) /\ n \in DOMAIN updates
    BY <1>3 DEF Publishing
  <2>3. updates[n] \in Updates
    BY <2>2
  <2>4. updates[n].ticker \in Tickers
    BY <2>3 DEF Updates
  <2> QED
    BY <2>1, <2>4, <1>1
<1>4. CASE ~(n # 0 /\ updates[n].type = "TRADE")
  <2>1. u \in UNION {New(t) : t \in Tickers}
    BY <1>4 DEF NextUpdates
  <2>2. PICK t \in Tickers : u \in New(t)
    BY <2>1
  <2> QED
    BY <2>2, <1>2
<1> QED
  BY <1>3, <1>4

\* It has the types of an update and fits the tables.
LEMMA UpdatesTyped ==
  ASSUME IInv, Len(updates) < MaxUpdates, NEW u \in NextUpdates
  PROVE  /\ u.type \in Types /\ u.ticker \in Tickers /\ u.oid \in 0 .. MaxUpdates
         /\ u.type # "TRADE" => u.oid # 0
         /\ u.oid <= Len(updates) + 1
<1>1. Publishing /\ updates \in Seq(Updates) /\ Len(updates) \in Nat /\ MaxUpdates \in Nat
  BY ConstantFacts DEF IInv, Publishing
<1>2. /\ u.ticker \in Tickers
      /\ \/ u.type = "ADD" /\ u.oid \in NewIds(u.ticker)
         \/ u.type \in {"MODIFY", "CANCEL"} /\ u.oid \in LiveAfter(Len(updates), u.ticker)
         \/ u.type = "TRADE" /\ u.oid = 0
  BY <1>1, NextUpdateIs
<1>3. CASE u.type = "ADD" /\ u.oid \in NewIds(u.ticker)
  <2>1. /\ LastId(u.ticker) \in Nat /\ u.oid \in Nat /\ LastId(u.ticker) < u.oid
        /\ u.oid <= Len(updates) + 1
    BY <1>1, <1>3, NewIdsBound
  <2> QED
    BY <2>1, <1>1, <1>2, <1>3 DEF Types
<1>4. CASE u.type \in {"MODIFY", "CANCEL"} /\ u.oid \in LiveAfter(Len(updates), u.ticker)
  <2>1. PICK k \in Of(u.ticker, "ADD") : u.oid = updates[k].oid
    BY <1>4 DEF LiveAfter
  <2>2. k \in DOMAIN updates /\ updates[k].type = "ADD" /\ k \in 1 .. Len(updates)
    BY <2>1, <1>1 DEF Of
  <2>3. updates[k] \in Updates
    BY <2>2, <1>1
  <2>4. updates[k].oid \in 0 .. MaxUpdates /\ updates[k].oid # 0 /\ updates[k].oid <= k
    BY <2>2, <2>3 DEF Updates, Publishing, IInv
  <2> QED
    BY <2>1, <2>2, <2>4, <1>1, <1>2, <1>4 DEF Types
<1>5. CASE u.type = "TRADE" /\ u.oid = 0
  BY <1>1, <1>2, <1>5 DEF Types
<1> QED
  BY <1>2, <1>3, <1>4, <1>5

\* A longer list of updates leaves what the consumer keeps as it is.
LEMMA MoreUpdates ==
  ASSUME updates \in Seq(Updates), NEW x \in Updates, updates' = Append(updates, x),
         consumer' = consumer, Kept(consumer), Standing(consumer)
  PROVE  /\ Kept(consumer)' /\ Standing(consumer)'
         /\ \A m : IsUpdate(m) => IsUpdate(m)'
         /\ \A k \in DOMAIN updates : Reached(consumer, k) => Reached(consumer, k)'
<1>1. /\ updates' \in Seq(Updates) /\ Len(updates') = Len(updates) + 1
      /\ \A k \in DOMAIN updates : updates'[k] = updates[k]
  BY Appended
<1>2. Len(updates) \in Nat /\ Len(updates') \in Nat
      /\ \A k \in DOMAIN updates : k \in DOMAIN updates'
  BY <1>1
<1>3. \A m : IsUpdate(m) => IsUpdate(m)'
  BY <1>1, <1>2 DEF IsUpdate
<1>4. \A i \in Int : i <= Len(updates) => i <= Len(updates')
  BY <1>1, <1>2
<1>5. Kept(consumer)'
  <2>1. \A m \in consumer.held : m.num \in Nat
    BY DEF Kept, Consumers, Messages
  <2>2. \A m \in consumer.held : m.num <= Len(updates')
    BY <1>4, <2>1 DEF Kept
  <2>3. consumer.group["incremental"] = "updates" =>
          \A m \in consumer.queued : IsUpdate(m)'
    BY <1>3 DEF Kept
  <2> QED
    BY <2>2, <2>3 DEF Kept, Consumers, Messages
<1>6. Standing(consumer)'
  <2>1. consumer.from \in Int /\ Len(consumer.given) \in Nat
    BY DEF Kept, Consumers
  <2>2. consumer.from + Len(consumer.given) <= Len(updates) =>
          consumer.from + Len(consumer.given) <= Len(updates')
    BY <1>1, <1>2, <2>1
  <2> QED
    BY <2>2 DEF Standing
<1>7. ASSUME NEW k \in DOMAIN updates, Reached(consumer, k) PROVE Reached(consumer, k)'
  BY <1>1, <1>7 DEF Reached
<1> QED
  BY <1>3, <1>5, <1>6, <1>7

LEMMA PublishKeeps == IInv /\ Publish => IInv'
<1> SUFFICES ASSUME IInv, Publish PROVE IInv'
  OBVIOUS
<1> DEFINE n == Len(updates) + 1
<1>1. PICK u \in NextUpdates, type \in Readings :
        /\ updates' = Append(updates, [type |-> u.type, ticker |-> u.ticker,
                                       oid |-> u.oid, readAs |-> type])
        /\ inbox' = Multicast("updates", <<[seq |-> n, type |-> type, num |-> 0]>>)
        /\ toShadow' = ToSynthesizer(n)
  BY DEF Publish
<1>2. /\ UNCHANGED <<shadow, snapshots, duplicates, consumer, inOrder>>
      /\ ~shadow.aborted /\ Len(updates) < MaxUpdates
  BY DEF Publish
<1> DEFINE x == [type |-> u.type, ticker |-> u.ticker, oid |-> u.oid, readAs |-> type]
<1>m. PICK m : m = [seq |-> n, type |-> type, num |-> 0]
  OBVIOUS
<1>3. updates \in Seq(Updates) /\ Len(updates) \in Nat /\ n \in Nat /\ n # 0
  BY DEF IInv, Publishing
<1>4. type \in {"ADD"} \cup Markers
  BY DEF Readings, Markers
<1>5. /\ x \in Updates /\ (x.type # "TRADE" => x.oid # 0) /\ x.oid <= n
      /\ x.readAs = type
  <2>1. /\ u.type \in Types /\ u.ticker \in Tickers /\ u.oid \in 0 .. MaxUpdates
        /\ u.type # "TRADE" => u.oid # 0
        /\ u.oid <= n
    BY <1>2, UpdatesTyped
  <2> QED
    BY <2>1, <1>4 DEF Updates
<1>6. m \in Messages /\ m.seq = n /\ m.type = type /\ m.num = 0
  BY <1>3, <1>4, <1>m DEF Messages
<1> HIDE DEF x
<1>7. updates' = Append(updates, x) /\ inbox' = Multicast("updates", <<m>>)
  BY <1>1, <1>m DEF x
<1>8. /\ updates' \in Seq(Updates) /\ Len(updates') = n
      /\ \A k \in DOMAIN updates : updates'[k] = updates[k]
      /\ updates'[n] = x
      /\ DOMAIN updates' = 1 .. n /\ DOMAIN updates = 1 .. Len(updates)
  BY <1>3, <1>5, <1>7, Appended
<1>9. Publishing'
  <2>1. toShadow \in Seq(Nat) /\ \A k \in DOMAIN toShadow : toShadow[k] \in DOMAIN updates
    BY DEF IInv, Publishing
  <2>2. /\ toShadow' \in Seq(Nat) /\ Len(toShadow') = Len(toShadow) + 1
        /\ \A k \in DOMAIN toShadow : toShadow'[k] = toShadow[k]
        /\ toShadow'[Len(toShadow) + 1] = n
    BY <1>1, <1>3, <2>1, Appended DEF ToSynthesizer
  <2>3. ASSUME NEW k \in DOMAIN toShadow' PROVE toShadow'[k] \in DOMAIN updates'
    <3>1. k \in DOMAIN toShadow \/ k = Len(toShadow) + 1
      BY <2>1, <2>2
    <3> QED
      BY <3>1, <2>1, <2>2, <1>3, <1>8
  <2>4. ASSUME NEW k \in DOMAIN updates'
        PROVE  (updates'[k].type # "TRADE" => updates'[k].oid # 0) /\ updates'[k].oid <= k
    <3>1. k \in DOMAIN updates \/ k = n
      BY <1>3, <1>8
    <3>2. CASE k \in DOMAIN updates
      BY <3>2, <1>8 DEF IInv, Publishing
    <3>3. CASE k = n
      BY <3>3, <1>5, <1>8
    <3> QED
      BY <3>1, <3>2, <3>3
  <2>5. Len(updates') <= MaxUpdates
    BY <1>2, <1>3, <1>8, ConstantFacts
  <2>6. /\ snapshots' \in 0 .. MaxSnapshots /\ duplicates' \in Nat
        /\ inOrder' \in BOOLEAN
    BY <1>2 DEF IInv, Publishing
  <2> QED
    BY <1>8, <2>2, <2>3, <2>4, <2>5, <2>6 DEF Publishing
<1>10. Shadowing'
  <2>1. /\ shadow \in Shadows /\ shadow.last <= Len(updates) /\ shadow.last \in Nat
        /\ \A t \in Tickers, i \in Indices : shadow.orders[t][i].set <= Len(updates)
                                            /\ shadow.orders[t][i].set \in Nat
    BY DEF IInv, Shadowing, Shadows, Places
  <2>2. /\ shadow.last <= n
        /\ \A t \in Tickers, i \in Indices : shadow.orders[t][i].set <= n
    BY <1>3, <2>1
  <2>3. Stored(shadow.orders)' = Stored(shadow.orders)
    BY <1>2 DEF Stored
  <2> QED
    BY <1>2, <1>8, <2>1, <2>2, <2>3 DEF IInv, Shadowing
<1>11. SynthesizerFollows'
  <2>1. /\ shadow.last + Len(toShadow) = Len(updates) /\ toShadow \in Seq(Nat)
        /\ \A k \in DOMAIN toShadow : toShadow[k] = shadow.last + k
        /\ shadow.last \in Nat
    BY <1>2 DEF IInv, SynthesizerFollows, Publishing, Shadowing, Shadows
  <2>2. /\ toShadow' \in Seq(Nat) /\ Len(toShadow') = Len(toShadow) + 1
        /\ \A k \in DOMAIN toShadow : toShadow'[k] = toShadow[k]
        /\ toShadow'[Len(toShadow) + 1] = n
    BY <1>1, <1>3, <2>1, Appended DEF ToSynthesizer
  <2> DEFINE l == Len(toShadow)
  <2>3. l \in Nat /\ shadow.last + l = Len(updates) /\ n = shadow.last + (l + 1)
        /\ Len(toShadow') = l + 1 /\ toShadow'[l + 1] = n
        /\ DOMAIN toShadow' = 1 .. (l + 1) /\ DOMAIN toShadow = 1 .. l
    <3>1. l \in Nat /\ shadow.last + l = Len(updates) /\ DOMAIN toShadow = 1 .. l
          /\ Len(toShadow') = l + 1 /\ toShadow'[l + 1] = n
          /\ DOMAIN toShadow' = 1 .. Len(toShadow')
      BY <2>1, <2>2
    <3> HIDE DEF l
    <3>2. n = shadow.last + (l + 1)
      <4> DEFINE b == shadow.last
                 w == Len(updates)
      <4>1. b \in Nat /\ w \in Nat /\ b + l = w
        BY <3>1, <2>1, <1>3
      <4> HIDE DEF b, w
      <4>2. w + 1 = b + (l + 1)
        BY <3>1, <4>1
      <4> QED
        BY <4>2 DEF b, w
    <3> QED
      BY <3>1, <3>2
  <2> HIDE DEF l
  <2>4. \A k \in DOMAIN toShadow' : toShadow'[k] = shadow.last + k
    <3>1. \A k \in 1 .. l : toShadow'[k] = shadow.last + k
      BY <2>1, <2>2, <2>3
    <3> QED
      BY <2>3, <3>1
  <2>5. shadow.last + Len(toShadow') = n
    BY <2>1, <2>3
  <2> QED
    BY <1>2, <1>8, <2>4, <2>5 DEF SynthesizerFollows
<1>12. Kept(consumer) /\ Standing(consumer)
  BY DEF IInv
<1>13. /\ Kept(consumer)' /\ Standing(consumer)'
       /\ \A y : IsUpdate(y) => IsUpdate(y)'
       /\ \A k \in DOMAIN updates : Reached(consumer, k) => Reached(consumer, k)'
  BY <1>2, <1>3, <1>5, <1>7, <1>12, MoreUpdates
<1>14. Travelling'
  <2>1. <<m>> \in Seq(Messages) /\ ToSet(<<m>>) = {m}
    BY <1>6 DEF ToSet
  <2>2. inbox \in [Sockets -> Seq(Messages)]
    BY DEF IInv, Travelling
  <2>3. /\ inbox' \in [Sockets -> Seq(Messages)]
        /\ \A s \in Sockets :
             /\ consumer.group[s] = "updates" => Way(s)' = Way(s) \cup {m}
             /\ consumer.group[s] # "updates" => inbox'[s] = inbox[s] /\ Way(s)' = Way(s)
    BY <2>1, <2>2, <1>7, Sent
  <2>4. ASSUME NEW s \in Sockets, NEW y \in Way(s)' PROVE y.num <= Len(updates')
    <3>1. CASE y = m
      BY <3>1, <1>3, <1>6, <1>8
    <3>2. CASE y \in Way(s)
      <4>1. y \in Messages
        BY <2>2, <3>2 DEF Way, ToSet
      <4>2. y.num \in Nat /\ y.num <= Len(updates)
        BY <4>1, <3>2 DEF Messages, IInv, Travelling
      <4> QED
        BY <4>2, <1>3, <1>8
    <3> QED
      BY <2>3, <2>4, <3>1, <3>2
  <2>5. consumer'.group["snapshot"] = "closed" => inbox'["snapshot"] = <<>>
    BY <1>2, <2>3 DEF IInv, Travelling, Sockets
  <2>6. IsUpdate(m)'
    BY <1>3, <1>5, <1>6, <1>8 DEF IsUpdate
  <2>7. ASSUME consumer'.group["incremental"] = "updates"
        PROVE  /\ \A y \in Way("incremental")' : IsUpdate(y)'
               /\ \A k \in DOMAIN updates' :
                    k \in Seqs(Way("incremental")') \/ Reached(consumer, k)'
    <3>1. Way("incremental")' = Way("incremental") \cup {m}
      BY <1>2, <2>3, <2>7 DEF Sockets
    <3>2. /\ \A y \in Way("incremental") : IsUpdate(y)
          /\ \A k \in DOMAIN updates :
               k \in Seqs(Way("incremental")) \/ Reached(consumer, k)
      BY <1>2, <2>7 DEF IInv, Travelling
    <3>3. \A y \in Way("incremental")' : IsUpdate(y)'
      BY <3>1, <3>2, <2>6, <1>13
    <3>4. Seqs(Way("incremental")') = Seqs(Way("incremental")) \cup {n}
      BY <3>1, <1>6 DEF Seqs
    <3>5. \A k \in DOMAIN updates' : k \in DOMAIN updates \/ k = n
      BY <1>3, <1>8
    <3> QED
      BY <3>2, <3>3, <3>4, <3>5, <1>13
  <2> QED
    BY <2>3, <2>4, <2>5, <2>7 DEF Travelling, Seqs
<1> QED
  BY <1>9, <1>10, <1>11, <1>13, <1>14 DEF IInv

-----------------------------------------------------------------------------
(* The synthesizer *)

\* What Shadowing says of a synthesizer sh, once updates are published.
Sound(sh) ==
  /\ sh \in Shadows /\ sh.last <= Len(updates)
  /\ \A t \in Tickers, i \in Indices : sh.orders[t][i].set <= Len(updates)
  /\ Cardinality(Stored(sh.orders)) <= sh.blocks
  /\ sh.blocks < PoolSize

\* Setting one place: it may come to be stored, or to be free.
LEMMA PlaceSet ==
  ASSUME NEW orders \in [Tickers -> [Indices -> Places]], updates \in Seq(Updates),
         \A t \in Tickers, i \in Indices : orders[t][i].set <= Len(updates),
         NEW t \in Tickers, NEW i \in Indices, NEW x \in Places, x.set <= Len(updates),
         NEW o, o = [orders EXCEPT ![t][i] = x]
  PROVE  /\ o \in [Tickers -> [Indices -> Places]]
         /\ \A v \in Tickers, j \in Indices : o[v][j].set <= Len(updates)
         /\ Cardinality(Stored(orders)) \in Nat /\ Cardinality(Stored(o)) \in Nat
         /\ Cardinality(Stored(o)) <= Cardinality(Stored(orders)) + 1
         /\ orders[t][i] # Free => Cardinality(Stored(o)) <= Cardinality(Stored(orders))
<1> DEFINE a == Stored(orders)
           b == Stored(o)
<1>1. o \in [Tickers -> [Indices -> Places]]
  OBVIOUS
<1>2. \A v \in Tickers, j \in Indices :
        o[v][j] = IF v = t /\ j = i THEN x ELSE orders[v][j]
  OBVIOUS
<1>3. IsFiniteSet(a) /\ IsFiniteSet(b)
  <2>1. a \subseteq Tickers \X Indices /\ b \subseteq Tickers \X Indices
    BY DEF Stored
  <2> QED
    BY <2>1, ConstantFacts, FS_Subset
<1>4. b \subseteq a \cup {<<t, i>>}
  BY <1>2 DEF Stored
<1>5. orders[t][i] # Free => <<t, i>> \in a
  BY DEF Stored
<1>7. \A v \in Tickers, j \in Indices : o[v][j].set <= Len(updates)
  BY <1>2
<1> HIDE DEF a, b
<1>8. /\ IsFiniteSet(a \cup {<<t, i>>})
      /\ Cardinality(a \cup {<<t, i>>}) =
           IF <<t, i>> \in a THEN Cardinality(a) ELSE Cardinality(a) + 1
  BY <1>3, FS_AddElement
<1>9. Cardinality(b) <= Cardinality(a \cup {<<t, i>>})
  BY <1>4, <1>8, FS_Subset
<1>11. Cardinality(a) \in Nat /\ Cardinality(b) \in Nat
  BY <1>3, FS_CardinalityType
<1>12. /\ Cardinality(b) <= Cardinality(a) + 1
       /\ <<t, i>> \in a => Cardinality(b) <= Cardinality(a)
  BY <1>8, <1>9, <1>11
<1> QED
  BY <1>1, <1>5, <1>7, <1>11, <1>12 DEF a, b

LEMMA PlaceFreed ==
  ASSUME NEW orders \in [Tickers -> [Indices -> Places]],
         NEW t \in Tickers, NEW i \in Indices, orders[t][i] # Free,
         NEW o, o = [orders EXCEPT ![t][i] = Free]
  PROVE  Cardinality(Stored(o)) = Cardinality(Stored(orders)) - 1
<1>1. \A v \in Tickers, j \in Indices :
        o[v][j] = IF v = t /\ j = i THEN Free ELSE orders[v][j]
  OBVIOUS
<1>2. Stored(o) = Stored(orders) \ {<<t, i>>} /\ <<t, i>> \in Stored(orders)
  BY <1>1 DEF Stored
<1>3. Stored(orders) \subseteq Tickers \X Indices
  BY DEF Stored
<1>4. IsFiniteSet(Stored(orders))
  BY <1>3, ConstantFacts, FS_Subset
<1> QED
  BY <1>2, <1>4, FS_RemoveElement

\* addToSnapshot keeps what Sound says, and either fails or counts its update.
LEMMA AddToSnapshotKeeps ==
  ASSUME NEW sh, Sound(sh), ~sh.aborted, updates \in Seq(Updates),
         NEW n \in DOMAIN updates,
         updates[n].type # "TRADE" => updates[n].oid # 0
  PROVE  LET r == AddToSnapshot(sh, n) IN
         /\ Sound(r)
         /\ ~r.aborted => n = sh.last + 1 /\ r.last = n
<1> DEFINE r == AddToSnapshot(sh, n)
           u == updates[n]
           order == sh.orders[u.ticker][u.oid]
           failed == \/ n # sh.last + 1
                     \/ u.type = "ADD" /\ (order # Free \/ sh.blocks + 1 = PoolSize)
                     \/ u.type \in {"MODIFY", "CANCEL"} /\ order.oid # u.oid
<1>1. /\ u \in Updates /\ n \in Nat /\ n <= Len(updates) /\ Len(updates) \in Nat
      /\ sh \in Shadows /\ PoolSize \in Nat \ {0}
  BY ConstantFacts DEF Sound
<1>2. /\ u.type \in Types /\ u.ticker \in Tickers /\ u.oid \in 0 .. MaxUpdates
      /\ u.type # "TRADE" => u.oid \in Indices /\ u.oid # 0 /\ u.oid \in Nat
      /\ u.ticker \in Indices
  <2>1. u.type \in Types /\ u.ticker \in Tickers /\ u.oid \in 0 .. MaxUpdates
    BY <1>1 DEF Updates
  <2>2. MaxUpdates \in Nat /\ Tickers \subseteq Indices /\ 1 .. MaxUpdates \subseteq Indices
    BY ConstantFacts
  <2>3. u.oid # 0 => u.oid \in 1 .. MaxUpdates
    BY <2>1, <2>2
  <2> QED
    BY <2>1, <2>2, <2>3
<1>3. /\ sh.orders \in [Tickers -> [Indices -> Places]] /\ sh.last \in Nat
      /\ sh.blocks \in Nat /\ sh.blocks < PoolSize
      /\ Cardinality(Stored(sh.orders)) <= sh.blocks
      /\ \A t \in Tickers, i \in Indices : sh.orders[t][i].set <= Len(updates)
  BY <1>1 DEF Shadows, Sound
<1> HIDE DEF u
<1>4. CASE failed
  <2>1. r = [sh EXCEPT !.aborted = TRUE]
    BY <1>4 DEF AddToSnapshot, u
  <2>2. /\ r \in Shadows /\ r.orders = sh.orders /\ r.last = sh.last
        /\ r.blocks = sh.blocks /\ r.aborted
    BY <2>1, <1>1 DEF Shadows
  <2> HIDE DEF r
  <2> QED
    BY <2>2 DEF Sound, r
<1>5. CASE ~failed /\ u.type = "ADD"
  <2> DEFINE x == [oid |-> u.oid, set |-> n]
             o == [sh.orders EXCEPT ![u.ticker][u.ticker] = x]
  <2>1. r = [sh EXCEPT !.orders = o, !.blocks = sh.blocks + 1, !.last = n]
    BY <1>1, <1>5 DEF AddToSnapshot, u, Shadows
  <2>2. x \in Places /\ x.set <= Len(updates)
    BY <1>1, <1>2, <1>5 DEF Places
  <2>a. o = [sh.orders EXCEPT ![u.ticker][u.ticker] = x]
    OBVIOUS
  <2> HIDE DEF o, x
  <2>3. /\ o \in [Tickers -> [Indices -> Places]]
        /\ \A v \in Tickers, j \in Indices : o[v][j].set <= Len(updates)
        /\ Cardinality(Stored(sh.orders)) \in Nat /\ Cardinality(Stored(o)) \in Nat
        /\ Cardinality(Stored(o)) <= Cardinality(Stored(sh.orders)) + 1
    BY <2>a, <2>2, <1>1, <1>2, <1>3, PlaceSet
  <2>4. sh.blocks + 1 # PoolSize /\ n = sh.last + 1
    BY <1>5
  <2>5. sh.blocks + 1 \in Nat /\ sh.blocks + 1 < PoolSize
        /\ Cardinality(Stored(o)) <= sh.blocks + 1
    BY <2>3, <2>4, <1>1, <1>3
  <2>6. /\ r \in Shadows /\ r.orders = o /\ r.last = n /\ r.blocks = sh.blocks + 1
    BY <2>1, <2>3, <2>5, <1>1 DEF Shadows
  <2> HIDE DEF r
  <2> QED
    BY <2>3, <2>4, <2>5, <2>6, <1>1 DEF Sound, r
<1>6. CASE ~failed /\ u.type = "MODIFY"
  <2> DEFINE x == [order EXCEPT !.set = n]
             o == [sh.orders EXCEPT ![u.ticker][u.oid] = x]
  <2>1. r = [sh EXCEPT !.orders = o, !.last = n]
    BY <1>1, <1>2, <1>3, <1>6 DEF AddToSnapshot, u, Shadows
  <2>2. order \in Places /\ order.oid = u.oid /\ n = sh.last + 1
    BY <1>2, <1>3, <1>6
  <2>3. x \in Places /\ x.set <= Len(updates) /\ order # Free
    BY <2>2, <1>1, <1>2, <1>6 DEF Places, Free
  <2>a. o = [sh.orders EXCEPT ![u.ticker][u.oid] = x]
    OBVIOUS
  <2> HIDE DEF o, x
  <2>b. u.oid \in Indices /\ u.ticker \in Tickers
    BY <1>2, <1>6
  <2>4. /\ o \in [Tickers -> [Indices -> Places]]
        /\ \A v \in Tickers, j \in Indices : o[v][j].set <= Len(updates)
        /\ Cardinality(Stored(sh.orders)) \in Nat /\ Cardinality(Stored(o)) \in Nat
        /\ Cardinality(Stored(o)) <= Cardinality(Stored(sh.orders))
    <3> DEFINE t == u.ticker
               i == u.oid
               p == sh.orders
    <3>1. /\ t \in Tickers /\ i \in Indices /\ p \in [Tickers -> [Indices -> Places]]
          /\ \A v \in Tickers, j \in Indices : p[v][j].set <= Len(updates)
          /\ o = [p EXCEPT ![t][i] = x] /\ p[t][i] # Free
          /\ x \in Places /\ x.set <= Len(updates)
      BY <2>a, <2>b, <2>3, <1>3
    <3> HIDE DEF t, i, p
    <3>2. /\ o \in [Tickers -> [Indices -> Places]]
          /\ \A v \in Tickers, j \in Indices : o[v][j].set <= Len(updates)
          /\ Cardinality(Stored(p)) \in Nat /\ Cardinality(Stored(o)) \in Nat
          /\ Cardinality(Stored(o)) <= Cardinality(Stored(p))
      BY <3>1, PlaceSet
    <3> QED
      BY <3>2 DEF p
  <2>5. Cardinality(Stored(o)) <= sh.blocks
    BY <2>4, <1>3
  <2>6. /\ r \in Shadows /\ r.orders = o /\ r.last = n /\ r.blocks = sh.blocks
    BY <2>1, <2>4, <1>1 DEF Shadows
  <2> HIDE DEF r
  <2> QED
    BY <2>2, <2>4, <2>5, <2>6, <1>1, <1>3 DEF Sound, r
<1>7. CASE ~failed /\ u.type = "CANCEL"
  <2> DEFINE o == [sh.orders EXCEPT ![u.ticker][u.oid] = Free]
  <2>1. r = [sh EXCEPT !.orders = o, !.blocks = sh.blocks - 1, !.last = n]
    BY <1>1, <1>7 DEF AddToSnapshot, u, Shadows
  <2>2. order.oid = u.oid /\ n = sh.last + 1
    BY <1>7
  <2>3. Free \in Places /\ Free.set <= Len(updates) /\ order # Free
    BY <2>2, <1>1, <1>2, <1>7 DEF Places, Free
  <2>a. o = [sh.orders EXCEPT ![u.ticker][u.oid] = Free]
    OBVIOUS
  <2> HIDE DEF o
  <2>b. u.oid \in Indices /\ u.ticker \in Tickers
    BY <1>2, <1>7
  <2>4. /\ o \in [Tickers -> [Indices -> Places]]
        /\ \A v \in Tickers, j \in Indices : o[v][j].set <= Len(updates)
        /\ Cardinality(Stored(sh.orders)) \in Nat /\ Cardinality(Stored(o)) \in Nat
        /\ Cardinality(Stored(o)) = Cardinality(Stored(sh.orders)) - 1
    <3> DEFINE t == u.ticker
               i == u.oid
               p == sh.orders
               x == Free
    <3>1. /\ t \in Tickers /\ i \in Indices /\ p \in [Tickers -> [Indices -> Places]]
          /\ \A v \in Tickers, j \in Indices : p[v][j].set <= Len(updates)
          /\ o = [p EXCEPT ![t][i] = x] /\ p[t][i] # Free
          /\ x \in Places /\ x.set <= Len(updates) /\ x = Free
      BY <2>a, <2>b, <2>3, <1>3
    <3> HIDE DEF t, i, p, x
    <3>2. /\ o \in [Tickers -> [Indices -> Places]]
          /\ \A v \in Tickers, j \in Indices : o[v][j].set <= Len(updates)
          /\ Cardinality(Stored(p)) \in Nat /\ Cardinality(Stored(o)) \in Nat
      BY <3>1, PlaceSet
    <3>4. Cardinality(Stored(o)) = Cardinality(Stored(p)) - 1
      BY <3>1, PlaceFreed
    <3> QED
      BY <3>2, <3>4 DEF p
  <2>5. /\ sh.blocks - 1 \in Nat /\ sh.blocks - 1 < PoolSize
        /\ Cardinality(Stored(o)) <= sh.blocks - 1
    BY <2>4, <1>1, <1>3
  <2>6. /\ r \in Shadows /\ r.orders = o /\ r.last = n /\ r.blocks = sh.blocks - 1
    BY <2>1, <2>4, <2>5, <1>1 DEF Shadows
  <2> HIDE DEF r
  <2> QED
    BY <2>2, <2>4, <2>5, <2>6, <1>1 DEF Sound, r
<1>8. CASE ~failed /\ u.type = "TRADE"
  <2>1. r = [sh EXCEPT !.last = n] /\ n = sh.last + 1
    BY <1>8 DEF AddToSnapshot, u
  <2>2. /\ r \in Shadows /\ r.orders = sh.orders /\ r.last = n
        /\ r.blocks = sh.blocks
    BY <2>1, <1>1 DEF Shadows
  <2> HIDE DEF r
  <2> QED
    BY <2>1, <2>2, <1>1, <1>3 DEF Sound, r
<1> QED
  BY <1>2, <1>4, <1>5, <1>6, <1>7, <1>8 DEF Types

LEMMA TakeUpdateKeeps == IInv /\ TakeUpdate => IInv'
<1> SUFFICES ASSUME IInv, TakeUpdate PROVE IInv'
  OBVIOUS
<1> DEFINE n == Head(toShadow)
<1>1. /\ ~shadow.aborted /\ toShadow # <<>>
      /\ shadow' = AddToSnapshot(shadow, n) /\ toShadow' = Tail(toShadow)
      /\ UNCHANGED <<updates, snapshots, inbox, duplicates, consumer, inOrder>>
  BY DEF TakeUpdate
<1>2. /\ toShadow \in Seq(Nat) /\ \A k \in DOMAIN toShadow : toShadow[k] \in DOMAIN updates
      /\ updates \in Seq(Updates)
      /\ \A k \in DOMAIN updates : updates[k].type # "TRADE" => updates[k].oid # 0
  BY DEF IInv, Publishing
<1> DEFINE l == Len(toShadow)
<1>3. /\ l \in Nat /\ l > 0 /\ n = toShadow[1] /\ 1 \in DOMAIN toShadow
      /\ DOMAIN toShadow = 1 .. l
      /\ toShadow' \in Seq(Nat) /\ Len(toShadow') = l - 1 /\ DOMAIN toShadow' = 1 .. (l - 1)
      /\ \A k \in 1 .. (l - 1) : toShadow'[k] = toShadow[k + 1]
  BY <1>1, <1>2
<1>4. n \in DOMAIN updates
  BY <1>2, <1>3
<1> HIDE DEF l, n
<1>5. Sound(shadow)
  BY DEF IInv, Shadowing, Sound
<1>6. /\ Sound(shadow')
      /\ ~shadow'.aborted => n = shadow.last + 1 /\ shadow'.last = n
  BY <1>1, <1>2, <1>4, <1>5, AddToSnapshotKeeps
<1>7. Shadowing'
  BY <1>1, <1>6 DEF Shadowing, Sound, Stored
<1>8. Publishing'
  <2>1. \A k \in 1 .. (l - 1) : k + 1 \in 1 .. l
    BY <1>3
  <2>2. \A k \in DOMAIN toShadow' : toShadow'[k] \in DOMAIN updates
    BY <1>2, <1>3, <2>1
  <2> QED
    BY <1>1, <1>3, <2>2 DEF IInv, Publishing
<1>9. SynthesizerFollows'
  <2>1. shadow.last + l = Len(updates) /\ \A k \in 1 .. l : toShadow[k] = shadow.last + k
    BY <1>1, <1>3 DEF IInv, SynthesizerFollows, l
  <2> SUFFICES ASSUME ~shadow'.aborted
               PROVE  /\ shadow'.last + Len(toShadow') = Len(updates)
                      /\ \A k \in DOMAIN toShadow' : toShadow'[k] = shadow'.last + k
    BY <1>1 DEF SynthesizerFollows
  <2> DEFINE a == shadow.last
             b == shadow'.last
  <2>2. a \in Nat /\ b = a + 1
    BY <1>5, <1>6 DEF Sound, Shadows
  <2>3. a + l = Len(updates) /\ \A k \in 1 .. l : toShadow[k] = a + k
    BY <2>1
  <2> HIDE DEF a, b
  <2>4. b + (l - 1) = Len(updates)
    <3>1. l \in Nat
      BY <1>3
    <3>2. b + (l - 1) = a + l
      BY <2>2, <3>1
    <3> QED
      BY <2>3, <3>2
  <2>5. ASSUME NEW k \in 1 .. (l - 1) PROVE toShadow'[k] = b + k
    <3>1. k + 1 \in 1 .. l /\ toShadow'[k] = toShadow[k + 1]
      BY <1>3
    <3>2. toShadow[k + 1] = a + (k + 1)
      BY <2>3, <3>1
    <3>3. a + (k + 1) = b + k
      BY <2>2, <3>1, <1>3
    <3> QED
      BY <3>1, <3>2, <3>3
  <2> QED
    BY <2>4, <2>5, <1>3 DEF b
<1>10. Kept(consumer)' /\ Standing(consumer)' /\ Travelling'
  BY <1>1 DEF IInv, Kept, Standing, Travelling, IsUpdate, Reached, Way, Seqs
<1> QED
  BY <1>7, <1>8, <1>9, <1>10 DEF IInv

\* Every message of a snapshot has the type of one, and states no number that is
\* not published yet.
LEMMA SnapshotTyped ==
  ASSUME IInv
  PROVE  /\ Snapshot \in Seq(Messages)
         /\ \A m \in ToSet(Snapshot) : m.num <= Len(updates)
<1> DEFINE last == SnapshotSize + 2
<1>1. shadow.last \in Nat /\ shadow.last <= Len(updates) /\ Len(updates) \in Nat
  BY DEF IInv, Shadowing, Shadows, Publishing
<1>2. SnapshotSize \in Nat
  <2>1. {e \in Tickers \X Indices : shadow.orders[e[1]][e[2]] # Free}
          \subseteq Tickers \X Indices
    OBVIOUS
  <2>2. Cardinality({e \in Tickers \X Indices : shadow.orders[e[1]][e[2]] # Free}) \in Nat
    BY <2>1, ConstantFacts, FS_Subset, FS_CardinalityType
  <2>3. Cardinality(Tickers) \in Nat
    BY ConstantFacts, FS_CardinalityType
  <2> QED
    BY <2>2, <2>3 DEF SnapshotSize
<1>3. last \in Nat
  BY <1>2
<1> HIDE DEF last
<1> DEFINE Message(k) ==
             [seq  |-> k - 1,
              type |-> IF k = 1 THEN "SNAPSHOT_START"
                       ELSE IF k = last THEN "SNAPSHOT_END" ELSE "ADD",
              num  |-> IF k \in {1, last} THEN shadow.last ELSE 0]
<1>4. Snapshot = [k \in 1 .. last |-> Message(k)]
  BY DEF Snapshot, last
<1>5. ASSUME NEW k \in 1 .. last
      PROVE  Message(k) \in Messages /\ Message(k).num <= Len(updates)
  <2>1. k - 1 \in Nat
    BY <1>3
  <2>2. (IF k = 1 THEN "SNAPSHOT_START"
         ELSE IF k = last THEN "SNAPSHOT_END" ELSE "ADD") \in {"ADD"} \cup Markers
    BY DEF Markers
  <2>3. /\ (IF k \in {1, last} THEN shadow.last ELSE 0) \in Nat
        /\ (IF k \in {1, last} THEN shadow.last ELSE 0) <= Len(updates)
    BY <1>1
  <2> QED
    BY <2>1, <2>2, <2>3 DEF Messages
<1> HIDE DEF Message
<1>6. Snapshot \in Seq(Messages) /\ DOMAIN Snapshot = 1 .. last
  BY <1>3, <1>4, <1>5
<1> QED
  BY <1>4, <1>5, <1>6 DEF ToSet

LEMMA PublishSnapshotKeeps == IInv /\ PublishSnapshot => IInv'
<1> SUFFICES ASSUME IInv, PublishSnapshot PROVE IInv'
  OBVIOUS
<1>1. /\ snapshots < MaxSnapshots /\ inbox' = Multicast("snapshots", Snapshot)
      /\ snapshots' = snapshots + 1
      /\ UNCHANGED <<updates, toShadow, shadow, duplicates, consumer, inOrder>>
  BY DEF PublishSnapshot
<1>2. inbox \in [Sockets -> Seq(Messages)]
  BY DEF IInv, Travelling
<1>3. /\ inbox' \in [Sockets -> Seq(Messages)]
      /\ \A s \in Sockets :
           /\ consumer.group[s] = "snapshots" => Way(s)' = Way(s) \cup ToSet(Snapshot)
           /\ consumer.group[s] # "snapshots" => inbox'[s] = inbox[s] /\ Way(s)' = Way(s)
  BY <1>1, <1>2, SnapshotTyped, Sent
<1>4. Publishing'
  <2>1. snapshots' \in 0 .. MaxSnapshots
    BY <1>1, ConstantFacts DEF IInv, Publishing
  <2> QED
    BY <1>1, <2>1 DEF IInv, Publishing
<1>5. /\ Shadowing' /\ SynthesizerFollows'
      /\ Kept(consumer)' /\ Standing(consumer)'
  BY <1>1 DEF IInv, Shadowing, SynthesizerFollows, Kept, Standing, IsUpdate, Stored
<1>6. Travelling'
  <2>1. \A s \in Sockets : \A m \in Way(s)' : m.num <= Len(updates')
    BY <1>1, <1>3, SnapshotTyped DEF IInv, Travelling
  <2>2. consumer'.group["snapshot"] = "closed" => inbox'["snapshot"] = <<>>
    BY <1>1, <1>3 DEF IInv, Travelling, Sockets
  <2>3. consumer'.group["incremental"] = "updates" =>
          /\ Way("incremental")' = Way("incremental")
          /\ \A m \in Way("incremental") : IsUpdate(m)
          /\ \A k \in DOMAIN updates :
               k \in Seqs(Way("incremental")) \/ Reached(consumer, k)
    BY <1>1, <1>3 DEF IInv, Travelling, Sockets
  <2>4. /\ \A m : IsUpdate(m)' <=> IsUpdate(m)
        /\ \A k : Reached(consumer, k)' <=> Reached(consumer, k)
    BY <1>1 DEF IsUpdate, Reached, Seqs
  <2> QED
    BY <1>1, <1>3, <2>1, <2>2, <2>3, <2>4 DEF Travelling, Seqs
<1> QED
  BY <1>4, <1>5, <1>6 DEF IInv

LEMMA DuplicateKeeps == IInv /\ Duplicate => IInv'
<1> SUFFICES ASSUME IInv, Duplicate PROVE IInv'
  OBVIOUS
<1>s. PICK s \in Sockets : \E k \in DOMAIN inbox[s] :
        inbox' = [inbox EXCEPT ![s] = Append(inbox[s], inbox[s][k])]
  BY DEF Duplicate
<1>1. PICK k \in DOMAIN inbox[s] :
        inbox' = [inbox EXCEPT ![s] = Append(inbox[s], inbox[s][k])]
  BY <1>s
<1>2. /\ duplicates' = duplicates + 1
      /\ UNCHANGED <<updates, toShadow, shadow, snapshots, consumer, inOrder>>
  BY DEF Duplicate
<1>3. inbox \in [Sockets -> Seq(Messages)]
  BY DEF IInv, Travelling
<1>4. inbox[s][k] \in Messages /\ inbox[s][k] \in Way(s) /\ inbox[s] # <<>>
  BY <1>3 DEF Way, ToSet
<1>5. /\ Append(inbox[s], inbox[s][k]) \in Seq(Messages)
      /\ ToSet(Append(inbox[s], inbox[s][k])) = Way(s)
  <2>1. inbox[s] \in Seq(Messages)
    BY <1>3
  <2>2. /\ Append(inbox[s], inbox[s][k]) \in Seq(Messages)
        /\ ToSet(Append(inbox[s], inbox[s][k])) = ToSet(inbox[s]) \cup {inbox[s][k]}
    BY <2>1, <1>4, Appended
  <2> QED
    BY <2>2, <1>4 DEF Way
<1>6. /\ inbox' \in [Sockets -> Seq(Messages)]
      /\ \A t \in Sockets : Way(t)' = Way(t)
      /\ \A t \in Sockets : inbox[t] = <<>> => inbox'[t] = <<>>
  BY <1>1, <1>3, <1>4, <1>5 DEF Way
<1>7. /\ Publishing' /\ Shadowing' /\ SynthesizerFollows'
      /\ Kept(consumer)' /\ Standing(consumer)'
  BY <1>2 DEF IInv, Publishing, Shadowing, SynthesizerFollows, Kept, Standing,
              IsUpdate, Stored
<1>8. Travelling'
  <2>1. /\ \A m : IsUpdate(m)' <=> IsUpdate(m)
        /\ \A j : Reached(consumer, j)' <=> Reached(consumer, j)
    BY <1>2 DEF IsUpdate, Reached, Seqs
  <2>2. "incremental" \in Sockets /\ "snapshot" \in Sockets
    BY DEF Sockets
  <2>3. Seqs(Way("incremental"))' = Seqs(Way("incremental"))
    BY <1>6, <2>2 DEF Seqs
  <2> QED
    BY <1>2, <1>6, <2>1, <2>2, <2>3 DEF IInv, Travelling
<1> QED
  BY <1>7, <1>8 DEF IInv

-----------------------------------------------------------------------------
(* The theorems *)

LEMMA InitHolds == Init => IInv
<1> SUFFICES ASSUME Init PROVE IInv
  OBVIOUS
<1>1. /\ updates = <<>> /\ toShadow = <<>> /\ snapshots = 0 /\ duplicates = 0
      /\ shadow = [orders |-> [t \in Tickers |-> [i \in Indices |-> Free]],
                   last |-> 0, blocks |-> 0, aborted |-> FALSE]
      /\ inbox = [s \in Sockets |-> <<>>] /\ inOrder \in BOOLEAN
  BY DEF Init
<1>2. PICK g \in {"closed", "snapshots"} :
        consumer = [recovering |-> TRUE, next |-> 1, held |-> {}, queued |-> {},
                    group |-> [incremental |-> "updates", snapshot |-> g],
                    from |-> NotJoined, given |-> <<>>]
  BY DEF Init
<1>3. Publishing
  BY <1>1, ConstantFacts DEF Publishing
<1>4. Shadowing
  <2>1. Free \in Places /\ Free.set = 0
    BY DEF Free, Places
  <2>2. shadow \in Shadows /\ shadow.last = 0 /\ shadow.blocks = 0
        /\ \A t \in Tickers, i \in Indices : shadow.orders[t][i] = Free
    BY <1>1, <2>1 DEF Shadows
  <2>3. Stored(shadow.orders) = {}
    BY <2>2 DEF Stored
  <2>4. Cardinality(Stored(shadow.orders)) = 0
    BY <2>3, FS_EmptySet
  <2>5. Len(updates) = 0 /\ PoolSize \in Nat \ {0}
    BY <1>1, ConstantFacts
  <2> QED
    BY <2>1, <2>2, <2>4, <2>5 DEF Shadowing
<1>5. SynthesizerFollows
  BY <1>1 DEF SynthesizerFollows
<1> DEFINE h == [incremental |-> "updates", snapshot |-> g]
<1>6. h \in [Sockets -> Groups] /\ h["incremental"] = "updates" /\ h["snapshot"] = g
  BY DEF Sockets, Groups
<1> HIDE DEF h
<1>7. /\ consumer \in Consumers /\ consumer.recovering /\ consumer.held = {}
      /\ consumer.queued = {} /\ consumer.group = h
      /\ consumer.from = NotJoined /\ consumer.given = <<>>
  <2>1. NotJoined \in Int /\ <<>> \in Seq(Nat)
    BY DEF NotJoined
  <2> QED
    BY <1>2, <1>6, <2>1 DEF Consumers, h
<1>8. Kept(consumer) /\ Standing(consumer)
  BY <1>6, <1>7, FS_EmptySet DEF Kept, Standing
<1>9. Travelling
  <2>1. inbox \in [Sockets -> Seq(Messages)] /\ \A s \in Sockets : inbox[s] = <<>>
    BY <1>1
  <2>2. \A s \in Sockets : Way(s) = {}
    BY <2>1 DEF Way, ToSet
  <2>3. DOMAIN updates = {}
    BY <1>1
  <2> QED
    BY <2>1, <2>2, <2>3 DEF Travelling, Sockets
<1> QED
  BY <1>3, <1>4, <1>5, <1>8, <1>9 DEF IInv

LEMMA StepKeeps == IInv /\ [Next]_vars => IInv'
<1> SUFFICES ASSUME IInv, [Next]_vars PROVE IInv'
  OBVIOUS
<1>1. CASE Publish
  BY <1>1, PublishKeeps
<1>2. CASE TakeUpdate
  BY <1>2, TakeUpdateKeeps
<1>3. CASE PublishSnapshot
  BY <1>3, PublishSnapshotKeeps
<1>4. ASSUME NEW s \in Sockets, Receive(s) PROVE IInv'
  BY <1>4, ReceiveKeeps
<1>5. CASE Duplicate
  BY <1>5, DuplicateKeeps
<1>6. CASE UNCHANGED vars
  BY <1>6 DEF vars, IInv, Publishing, Shadowing, SynthesizerFollows, Kept, Standing,
              Travelling, IsUpdate, Reached, Way, Stored, Seqs
<1> QED
  BY <1>1, <1>2, <1>3, <1>4, <1>5, <1>6 DEF Next

LEMMA Invariance == Spec => []IInv
BY InitHolds, StepKeeps, PTL DEF Spec

\* Numbers, blocks and messages keep their types, for every number of tickers,
\* updates and snapshots: the count of blocks never goes below zero and the pool
\* never fills without an assertion.
THEOREM TypeCorrect == Spec => []TypeOK
<1>1. IInv => TypeOK
  <2> SUFFICES ASSUME IInv PROVE TypeOK
    OBVIOUS
  <2>1. /\ Len(updates) <= MaxUpdates /\ snapshots \in 0 .. MaxSnapshots
        /\ \A k \in DOMAIN toShadow : toShadow[k] \in DOMAIN updates
        /\ inOrder \in BOOLEAN /\ Len(updates) \in Nat
    BY DEF IInv, Publishing
  <2>2. /\ shadow.last \in 0 .. Len(updates) /\ shadow.blocks \in 0 .. PoolSize
        /\ \A t \in Tickers, i \in Indices :
             shadow.orders[t][i].set \in 0 .. Len(updates)
    <3>1. /\ shadow.last \in Nat /\ shadow.last <= Len(updates)
          /\ shadow.blocks \in Nat /\ shadow.blocks < PoolSize
          /\ \A t \in Tickers, i \in Indices :
               shadow.orders[t][i].set \in Nat /\ shadow.orders[t][i].set <= Len(updates)
      BY DEF IInv, Shadowing, Shadows, Places
    <3>2. shadow.last \in 0 .. Len(updates) /\ shadow.blocks \in 0 .. PoolSize
      BY <3>1, <2>1, ConstantFacts
    <3>3. ASSUME NEW t \in Tickers, NEW i \in Indices
          PROVE  shadow.orders[t][i].set \in 0 .. Len(updates)
      BY <3>1, <2>1
    <3> QED
      BY <3>2, <3>3
  <2>3. \A s \in Sockets : \A k \in DOMAIN inbox[s] : inbox[s][k] \in Messages
    BY DEF IInv, Travelling
  <2>4. /\ consumer.held \cup consumer.queued \subseteq Messages
        /\ consumer.next \in Nat /\ consumer.recovering \in BOOLEAN
    BY DEF IInv, Kept, Consumers
  <2>5. consumer.from \in NotJoined .. Len(updates)
    <3>1. consumer.from \in Int /\ Len(consumer.given) \in Nat
      BY DEF IInv, Kept, Consumers
    <3>2. \/ consumer.from = NotJoined
          \/ consumer.from \in Nat /\ consumer.from + Len(consumer.given) <= Len(updates)
      BY DEF IInv, Standing
    <3> QED
      BY <3>1, <3>2, <2>1 DEF NotJoined
  <2> QED
    BY <2>1, <2>2, <2>3, <2>4, <2>5 DEF TypeOK
<1> QED
  BY <1>1, Invariance, PTL

\* The number a snapshot states is that of the last update it holds, however many
\* updates wait in the synthesizer's queue.
THEOREM SnapshotNumbersHold == Spec => []SynthesizerFollows
<1>1. IInv => SynthesizerFollows
  BY DEF IInv
<1> QED
  BY <1>1, Invariance, PTL

\* A consumer that follows the stream has left nothing behind, whatever was
\* reordered or sent twice: the join uses all that was queued.
THEOREM JoinDiscardsNothing == Spec => []NothingDiscarded
<1>1. IInv => NothingDiscarded
  <2> SUFFICES ASSUME IInv, ~consumer.recovering, NEW k \in DOMAIN updates
               PROVE  \/ k <= consumer.from
                      \/ k \in ToSet(consumer.given)
                      \/ k \in {inbox["incremental"][i].seq : i \in DOMAIN inbox["incremental"]}
                      \/ updates[k].readAs \in Markers
    BY DEF NothingDiscarded
  <2>1. consumer.group["incremental"] = "updates"
    BY DEF IInv, Standing
  <2>2. k \in Seqs(Way("incremental")) \/ Reached(consumer, k)
    BY <2>1 DEF IInv, Travelling
  <2>3. CASE k \in Seqs(Way("incremental"))
    BY <2>3 DEF Seqs, Way, ToSet
  <2>4. CASE Reached(consumer, k)
    BY <2>4 DEF Reached
  <2> QED
    BY <2>2, <2>3, <2>4
<1> QED
  BY <1>1, Invariance, PTL

\* A step that receives a message is a step of the subscription or leaves what it
\* speaks of as it is.
LEMMA ReceiveImplements ==
  ASSUME IInv, NEW s \in Sockets, Receive(s)
  PROVE  [S!Next]_S!vars
<1> DEFINE c == consumer
           d == consumer'
<1>1. PICK k \in DOMAIN inbox[s] :
        LET m == inbox[s][k] IN
        /\ m \in Messages
        /\ s = "incremental" /\ c.group["incremental"] = "updates" => IsUpdate(m)
        /\ Kept(d) /\ Standing(d)
        /\ \/ Collects(c, d, s, m) \/ Joins(c, d, s, m)
           \/ Loses(c, d) \/ Follows(c, d, s, m)
  BY ReceiveFacts
<1> DEFINE m == inbox[s][k]
<1>2. updates' = updates /\ updates \in Seq(Updates)
  BY DEF Receive, IInv, Publishing
<1>3. CASE Collects(c, d, s, m) \/ Loses(c, d)
  BY <1>2, <1>3 DEF Collects, Loses, S!vars
<1>4. CASE Joins(c, d, s, m)
  <2>1. PICK e : e.from = c.from /\ HasJoined(e, d)
    BY <1>4 DEF Joins, Collecting
  <2>2. PICK j \in d.from .. Len(updates) :
          d.given = [i \in 1 .. (j - d.from) |-> d.from + i]
    BY <2>1 DEF HasJoined
  <2>3. c.from = NotJoined /\ d.from \in 0 .. Len(updates)
    BY <2>1 DEF HasJoined
  <2>4. S!Join
    BY <1>2, <2>2, <2>3 DEF S!Join, S!Run, S!NotJoined, NotJoined
  <2> QED
    BY <2>4 DEF S!Next
<1>5. CASE Follows(c, d, s, m)
  <2>1. /\ c.from # NotJoined /\ m.seq = c.from + Len(c.given) + 1
        /\ d.from = c.from /\ d.given = Append(c.given, m.seq)
    BY <1>5 DEF Follows
  <2>2. m.seq \in DOMAIN updates
    BY <1>1, <1>5 DEF Follows, IsUpdate
  <2>3. c.from \in Int /\ Len(c.given) \in Nat /\ Len(updates) \in Nat
    BY <1>2 DEF IInv, Kept, Consumers
  <2> DEFINE a == c.from
             l == Len(c.given)
  <2>4. a + l + 1 <= Len(updates)
    BY <2>1, <2>2, <2>3
  <2>5. a + l < Len(updates)
    <3>1. a \in Int /\ l \in Nat
      BY <2>3
    <3> HIDE DEF a, l
    <3> QED
      BY <2>3, <2>4, <3>1
  <2>6. S!Follow
    BY <1>2, <2>1, <2>5 DEF S!Follow, S!NotJoined, NotJoined
  <2> QED
    BY <2>6 DEF S!Next
<1> QED
  BY <1>1, <1>3, <1>4, <1>5

\* Whatever the network loses, reorders or sends twice, the trade engine is given one
\* snapshot and a run of updates from its number on without gap or repetition: the
\* consumer implements the subscription.
THEOREM ConsumerImplementsSubscription == Spec => ImplementsSubscription
<1>1. Init => S!Init
  BY DEF Init, S!Init, S!NotJoined, NotJoined
<1>2. IInv /\ [Next]_vars => [S!Next]_S!vars
  <2> SUFFICES ASSUME IInv, [Next]_vars PROVE [S!Next]_S!vars
    OBVIOUS
  <2>1. CASE Publish
    <3>1. updates \in Seq(Updates) /\ consumer' = consumer
      BY <2>1 DEF Publish, IInv, Publishing
    <3>2. PICK x : updates' = Append(updates, x)
      BY <2>1 DEF Publish
    <3>3. Len(updates') = Len(updates) + 1
      BY <3>1, <3>2
    <3>4. S!Publish
      BY <3>1, <3>3 DEF S!Publish
    <3> QED
      BY <3>4 DEF S!Next
  <2>2. CASE TakeUpdate
    BY <2>2 DEF TakeUpdate, S!vars
  <2>3. CASE PublishSnapshot
    BY <2>3 DEF PublishSnapshot, S!vars
  <2>4. ASSUME NEW s \in Sockets, Receive(s) PROVE [S!Next]_S!vars
    BY <2>4, ReceiveImplements
  <2>5. CASE Duplicate
    BY <2>5 DEF Duplicate, S!vars
  <2>6. CASE UNCHANGED vars
    BY <2>6 DEF vars, S!vars
  <2> QED
    BY <2>1, <2>2, <2>3, <2>4, <2>5, <2>6 DEF Next
<1> QED
  BY <1>1, <1>2, Invariance, PTL DEF Spec, ImplementsSubscription, S!Spec

\* A recovery never ends while the snapshot socket is not joined: not the first one,
\* because the constructor does not join it, and not a later one, because a loss
\* opens the other socket again.
THEOREM RecoveryNeverEnds == Spec => RecoveryIsFinal
<1>1. IInv /\ [Next]_vars =>
        [(consumer.recovering /\ consumer.group["snapshot"] = "closed")
           => consumer'.recovering]_vars
  <2> SUFFICES ASSUME IInv, [Next]_vars,
                      consumer.recovering, consumer.group["snapshot"] = "closed"
               PROVE  consumer'.recovering
    OBVIOUS
  <2>1. ASSUME NEW s \in Sockets, Receive(s) PROVE consumer'.recovering
    <3>1. PICK k \in DOMAIN inbox[s] :
            \/ Collects(consumer, consumer', s, inbox[s][k])
            \/ Joins(consumer, consumer', s, inbox[s][k])
            \/ Loses(consumer, consumer')
            \/ Follows(consumer, consumer', s, inbox[s][k])
      BY <2>1, ReceiveFacts
    <3> QED
      BY <3>1 DEF Collects, Joins, Loses, Follows
  <2>2. CASE Publish \/ TakeUpdate \/ PublishSnapshot \/ Duplicate \/ UNCHANGED vars
    BY <2>2 DEF Publish, TakeUpdate, PublishSnapshot, Duplicate, vars
  <2> QED
    BY <2>1, <2>2 DEF Next
<1> QED
  BY <1>1, Invariance, PTL DEF Spec, RecoveryIsFinal

-----------------------------------------------------------------------------
(* What the synthesizer holds.  Nothing in a snapshot is stale, for every  *)
(* number of updates: what it holds rests in the engine's book, as its     *)
(* last change left it.  The argument needs how the engine numbers its     *)
(* orders, and that every stored order is at the place of its ticker.      *)

\* Of one book, no update is about an order that was not added, and an order is
\* added with a number larger than any before, though not always the next one.
OrdersNumbered ==
  \A k \in DOMAIN updates :
    /\ IF updates[k].type = "TRADE" THEN updates[k].oid = 0
       ELSE \E j \in Of(updates[k].ticker, "ADD") : updates[j].oid = updates[k].oid
    /\ updates[k].type = "ADD" =>
         \A j \in 1 .. (k - 1) :
           updates[j].ticker = updates[k].ticker => updates[j].oid < updates[k].oid

\* The order rests after the first n updates.
Rests(oid, n, t) ==
  /\ \E k \in 1 .. n : /\ updates[k].type = "ADD" /\ updates[k].ticker = t
                       /\ updates[k].oid = oid
  /\ \A k \in 1 .. n : updates[k].type = "CANCEL" /\ updates[k].ticker = t
                         => updates[k].oid # oid

\* Update k is the last of the first n about the order.
IsLastSet(k, n, t, oid) ==
  /\ k \in 1 .. n /\ updates[k].ticker = t /\ updates[k].oid = oid
  /\ \A j \in (k + 1) .. n : updates[j].ticker # t \/ updates[j].oid # oid

\* What the table holds when n was the last number.
Placed(orders, n) ==
  \A t \in Tickers, i \in Indices : orders[t][i] # Free =>
    /\ i = t /\ orders[t][i].oid # 0
    /\ Rests(orders[t][i].oid, n, t)
    /\ IsLastSet(orders[t][i].set, n, t, orders[t][i].oid)

SnapshotInv ==
  /\ OrdersNumbered
  /\ ~shadow.aborted => Placed(shadow.orders, shadow.last)

-----------------------------------------------------------------------------
(* The stream of updates *)

LEMMA LiveAfterRests ==
  ASSUME updates \in Seq(Updates), NEW n \in 0 .. Len(updates), NEW t, NEW oid
  PROVE  oid \in LiveAfter(n, t) <=> Rests(oid, n, t)
<1>1. DOMAIN updates = 1 .. Len(updates) /\ Len(updates) \in Nat
  OBVIOUS
<1>2. \A k : k \in 1 .. n => k \in DOMAIN updates
  BY <1>1
<1> QED
  BY <1>2 DEF LiveAfter, Of, Rests

LEMMA LastSetIs ==
  ASSUME NEW n \in Nat, NEW t, NEW oid, NEW k, IsLastSet(k, n, t, oid)
  PROVE  LastSet(n, t, oid) = k
<1> DEFINE L(i) == /\ updates[i].ticker = t /\ updates[i].oid = oid
                   /\ \A j \in (i + 1) .. n : updates[j].ticker # t \/ updates[j].oid # oid
<1>1. k \in 1 .. n /\ L(k)
  BY DEF IsLastSet
<1>2. ASSUME NEW i \in 1 .. n, L(i) PROVE i = k
  <2>1. ~(i < k) /\ ~(k < i)
    <3>1. i < k => k \in (i + 1) .. n
      BY <1>1
    <3>2. k < i => i \in (k + 1) .. n
      BY <1>1
    <3> QED
      BY <3>1, <3>2, <1>1, <1>2
  <2> QED
    BY <2>1, <1>1
<1>3. LastSet(n, t, oid) = CHOOSE i \in 1 .. n : L(i)
  BY DEF LastSet
<1> HIDE DEF L
<1> QED
  BY <1>1, <1>2, <1>3

\* What an iteration of the publisher adds.
LEMMA PublishFacts ==
  ASSUME IInv, Publish
  PROVE  /\ UNCHANGED shadow
         /\ \E u \in NextUpdates :
              /\ u.oid \in Nat
              /\ Len(updates') = Len(updates) + 1
              /\ updates' \in Seq(Updates)
              /\ \A k \in DOMAIN updates : updates'[k] = updates[k]
              /\ updates'[Len(updates) + 1].type = u.type
              /\ updates'[Len(updates) + 1].ticker = u.ticker
              /\ updates'[Len(updates) + 1].oid = u.oid
<1>1. PICK u \in NextUpdates, type \in Readings :
        updates' = Append(updates, [type |-> u.type, ticker |-> u.ticker,
                                    oid |-> u.oid, readAs |-> type])
  BY DEF Publish
<1> DEFINE x == [type |-> u.type, ticker |-> u.ticker, oid |-> u.oid, readAs |-> type]
<1>2. UNCHANGED shadow /\ Len(updates) < MaxUpdates
  BY DEF Publish
<1>3. updates \in Seq(Updates)
  BY DEF IInv, Publishing
<1>4. u.type \in Types /\ u.ticker \in Tickers /\ u.oid \in 0 .. MaxUpdates
  BY <1>2, UpdatesTyped
<1>5. type \in {"ADD"} \cup Markers
  BY DEF Readings, Markers
<1>6. x \in Updates
  BY <1>4, <1>5 DEF Updates
<1>7. x.type = u.type /\ x.ticker = u.ticker /\ x.oid = u.oid /\ updates' = Append(updates, x)
  BY <1>1
<1> HIDE DEF x
<1>8. /\ updates' \in Seq(Updates) /\ Len(updates') = Len(updates) + 1
      /\ \A k \in DOMAIN updates : updates'[k] = updates[k]
      /\ updates'[Len(updates) + 1] = x
  BY <1>3, <1>6, <1>7, Appended
<1>9. u.oid \in Nat
  BY <1>4, ConstantFacts
<1> QED
  BY <1>2, <1>7, <1>8, <1>9

\* No order of a book has had a larger id than the one added last.
LEMMA LastIdLargest ==
  ASSUME Publishing, OrdersNumbered, NEW j \in DOMAIN updates
  PROVE  updates[j].oid \in Nat /\ updates[j].oid <= LastId(updates[j].ticker)
<1> DEFINE t == updates[j].ticker
<1>1. updates \in Seq(Updates) /\ DOMAIN updates = 1 .. Len(updates) /\ Len(updates) \in Nat
  BY DEF Publishing
<1>2. \A k \in DOMAIN updates : updates[k].oid \in Nat
  <2>1. \A k \in DOMAIN updates : updates[k] \in Updates
    BY <1>1
  <2> QED
    BY <2>1, ConstantFacts DEF Updates
<1>3. /\ LastAdd(t) \in Of(t, "ADD") \cup {0} /\ \A k \in Of(t, "ADD") : k <= LastAdd(t)
      /\ LastAdd(t) \in 0 .. Len(updates) /\ LastId(t) \in Nat
  BY NewIdsBound
<1>4. CASE updates[j].type = "TRADE"
  BY <1>3, <1>4 DEF OrdersNumbered
<1>5. CASE updates[j].type # "TRADE"
  <2>1. PICK k \in Of(t, "ADD") : updates[k].oid = updates[j].oid
    BY <1>5 DEF OrdersNumbered
  <2>2. k \in 1 .. Len(updates) /\ k \in DOMAIN updates /\ updates[k].ticker = t
    BY <2>1, <1>1 DEF Of
  <2>3. k <= LastAdd(t) /\ LastAdd(t) # 0 /\ LastAdd(t) \in Of(t, "ADD")
    BY <2>2, <1>3
  <2>4. /\ LastAdd(t) \in DOMAIN updates /\ updates[LastAdd(t)].type = "ADD"
        /\ updates[LastAdd(t)].ticker = t /\ LastId(t) = updates[LastAdd(t)].oid
    BY <2>3 DEF Of, LastId
  <2>5. updates[k].oid <= LastId(t)
    <3>1. CASE k = LastAdd(t)
      BY <3>1, <2>4, <1>2
    <3>2. CASE k # LastAdd(t)
      <4>1. k \in 1 .. (LastAdd(t) - 1)
        BY <3>2, <2>2, <2>3, <1>3
      <4>2. updates[k].oid < updates[LastAdd(t)].oid
        BY <4>1, <2>2, <2>4 DEF OrdersNumbered
      <4> QED
        BY <4>2, <2>2, <2>4, <1>2
    <3> QED
      BY <3>1, <3>2
  <2> QED
    BY <2>1, <2>5, <1>2
<1> QED
  BY <1>2, <1>4, <1>5

LEMMA PublishNumbers ==
  ASSUME IInv, OrdersNumbered, Publish
  PROVE  OrdersNumbered'
<1> DEFINE n == Len(updates) + 1
<1>1. /\ updates \in Seq(Updates) /\ Len(updates) \in Nat /\ n \in Nat
      /\ DOMAIN updates = 1 .. Len(updates) /\ Publishing
  BY DEF IInv, Publishing
<1>2. PICK u \in NextUpdates :
        /\ u.oid \in Nat
        /\ Len(updates') = n
        /\ updates' \in Seq(Updates)
        /\ \A k \in DOMAIN updates : updates'[k] = updates[k]
        /\ updates'[n].type = u.type
        /\ updates'[n].ticker = u.ticker
        /\ updates'[n].oid = u.oid
  BY PublishFacts
<1>3. /\ DOMAIN updates' = 1 .. n
      /\ \A k \in 1 .. n : k \in DOMAIN updates \/ k = n
  BY <1>1, <1>2
<1>4. \/ u.type = "ADD" /\ u.oid \in NewIds(u.ticker)
      \/ u.type \in {"MODIFY", "CANCEL"} /\ u.oid \in LiveAfter(Len(updates), u.ticker)
      \/ u.type = "TRADE" /\ u.oid = 0
  BY <1>1, NextUpdateIs
<1> DEFINE Added(t) == {k \in DOMAIN updates' : updates'[k].ticker = t /\ updates'[k].type = "ADD"}
<1>5. ASSUME NEW t, NEW k \in Of(t, "ADD")
      PROVE  k \in Added(t) /\ updates'[k].oid = updates[k].oid
  <2>1. k \in DOMAIN updates /\ updates[k].ticker = t /\ updates[k].type = "ADD"
    BY <1>5 DEF Of
  <2> QED
    BY <2>1, <1>1, <1>2, <1>3
<1>6. ASSUME NEW k \in DOMAIN updates'
      PROVE  IF updates'[k].type = "TRADE" THEN updates'[k].oid = 0
             ELSE \E j \in Added(updates'[k].ticker) : updates'[j].oid = updates'[k].oid
  <2>1. CASE k \in DOMAIN updates
    <3>1. updates'[k] = updates[k]
      BY <2>1, <1>2
    <3>2. CASE updates[k].type = "TRADE"
      BY <3>1, <3>2, <2>1 DEF OrdersNumbered
    <3>3. CASE updates[k].type # "TRADE"
      <4>1. PICK j \in Of(updates[k].ticker, "ADD") : updates[j].oid = updates[k].oid
        BY <3>3, <2>1 DEF OrdersNumbered
      <4> HIDE DEF Added
      <4> QED
        BY <4>1, <3>1, <3>3, <1>5
    <3> QED
      BY <3>2, <3>3
  <2>2. CASE k = n /\ u.type = "ADD"
    <3>1. k \in Added(updates'[k].ticker)
      BY <2>2, <1>2
    <3> QED
      BY <3>1, <2>2, <1>2
  <2>3. CASE k = n /\ u.type = "TRADE" /\ u.oid = 0
    BY <2>3, <1>2
  <2>4. CASE /\ k = n /\ u.type \in {"MODIFY", "CANCEL"}
             /\ u.oid \in LiveAfter(Len(updates), u.ticker)
    <3>1. PICK j \in Of(u.ticker, "ADD") : updates[j].oid = u.oid
      BY <2>4 DEF LiveAfter
    <3> HIDE DEF Added
    <3>2. j \in Added(u.ticker) /\ updates'[j].oid = u.oid
      BY <3>1, <1>5
    <3> QED
      BY <3>2, <2>4, <1>2
  <2> QED
    BY <2>1, <2>2, <2>3, <2>4, <1>3, <1>4
<1>7. ASSUME NEW k \in DOMAIN updates', updates'[k].type = "ADD", NEW j \in 1 .. (k - 1),
             updates'[j].ticker = updates'[k].ticker
      PROVE  updates'[j].oid < updates'[k].oid
  <2>1. j \in DOMAIN updates /\ updates'[j] = updates[j]
    BY <1>1, <1>2, <1>3
  <2>2. CASE k \in DOMAIN updates
    BY <2>1, <2>2, <1>2, <1>7 DEF OrdersNumbered
  <2>3. CASE k = n
    <3>1. updates'[k].oid = u.oid /\ u.oid \in NewIds(u.ticker)
          /\ updates[j].ticker = u.ticker
      BY <2>1, <2>3, <1>2, <1>4, <1>7
    <3>2. updates[j].oid \in Nat /\ updates[j].oid <= LastId(u.ticker)
      BY <2>1, <3>1, <1>1, LastIdLargest
    <3>3. u.oid \in Nat /\ LastId(u.ticker) \in Nat /\ LastId(u.ticker) < u.oid
      BY <3>1, <1>1, NewIdsBound
    <3> QED
      BY <2>1, <3>1, <3>2, <3>3
  <2> QED
    BY <2>2, <2>3, <1>3
<1> QED
  BY <1>6, <1>7 DEF OrdersNumbered, Of, Added

\* Longer streams change nothing about their first n updates.
LEMMA PublishPlaced ==
  ASSUME IInv, Publish, Placed(shadow.orders, shadow.last)
  PROVE  Placed(shadow.orders, shadow.last)'
<1>1. updates \in Seq(Updates) /\ shadow.last \in Nat /\ shadow.last <= Len(updates)
  BY DEF IInv, Publishing, Shadowing, Shadows
<1>2. UNCHANGED shadow /\ \A k \in DOMAIN updates : updates'[k] = updates[k]
  BY PublishFacts
<1> DEFINE n == shadow.last
<1>3. \A k \in 1 .. n : updates'[k] = updates[k]
  BY <1>1, <1>2
<1>4. \A t, oid : Rests(oid, n, t) <=> Rests(oid, n, t)'
  BY <1>2, <1>3 DEF Rests
<1>5. ASSUME NEW t, NEW oid, NEW k, IsLastSet(k, n, t, oid) PROVE IsLastSet(k, n, t, oid)'
  <2>1. k \in 1 .. n /\ \A j \in (k + 1) .. n : j \in 1 .. n
    BY <1>1, <1>5 DEF IsLastSet
  <2> QED
    BY <2>1, <1>2, <1>3, <1>5 DEF IsLastSet
<1> QED
  BY <1>2, <1>4, <1>5 DEF Placed

-----------------------------------------------------------------------------
(* The synthesizer *)

\* An update leaves the other orders as they were.
LEMMA StillPlaced ==
  ASSUME NEW n \in Nat \ {0}, NEW t, NEW oid, NEW k,
         Rests(oid, n - 1, t), IsLastSet(k, n - 1, t, oid),
         updates[n].ticker # t \/ updates[n].oid # oid
  PROVE  Rests(oid, n, t) /\ IsLastSet(k, n, t, oid)
<1>1. \A i : i \in 1 .. n <=> i \in 1 .. (n - 1) \/ i = n
  OBVIOUS
<1>2. Rests(oid, n, t)
  BY <1>1 DEF Rests
<1>3. k \in 1 .. n
  BY <1>1 DEF IsLastSet
<1>4. \A i : i \in (k + 1) .. n => i \in (k + 1) .. (n - 1) \/ i = n
  BY <1>3
<1> QED
  BY <1>2, <1>3, <1>4 DEF IsLastSet

LEMMA AddToSnapshotPlaces ==
  ASSUME updates \in Seq(Updates), OrdersNumbered,
         NEW sh, Sound(sh), ~sh.aborted, Placed(sh.orders, sh.last),
         NEW n \in DOMAIN updates,
         updates[n].type # "TRADE" => updates[n].oid # 0,
         ~AddToSnapshot(sh, n).aborted
  PROVE  Placed(AddToSnapshot(sh, n).orders, AddToSnapshot(sh, n).last)
<1> DEFINE r == AddToSnapshot(sh, n)
           u == updates[n]
           order == sh.orders[u.ticker][u.oid]
           failed == \/ n # sh.last + 1
                     \/ u.type = "ADD" /\ (order # Free \/ sh.blocks + 1 = PoolSize)
                     \/ u.type \in {"MODIFY", "CANCEL"} /\ order.oid # u.oid
<1>1. /\ u \in Updates /\ n \in Nat \ {0} /\ n <= Len(updates) /\ sh \in Shadows
  BY DEF Sound
<1>2. /\ u.type \in Types /\ u.ticker \in Tickers /\ u.oid \in Nat
      /\ u.type # "TRADE" => u.oid \in Indices /\ u.oid # 0
      /\ u.ticker \in Indices /\ (u.type = "TRADE" => u.oid = 0)
  <2>1. u.type \in Types /\ u.ticker \in Tickers /\ u.oid \in 0 .. MaxUpdates
    BY <1>1 DEF Updates
  <2>2. MaxUpdates \in Nat /\ Tickers \subseteq Indices /\ 1 .. MaxUpdates \subseteq Indices
    BY ConstantFacts
  <2>3. u.oid # 0 => u.oid \in 1 .. MaxUpdates
    BY <2>1, <2>2
  <2> QED
    BY <2>1, <2>2, <2>3 DEF OrdersNumbered
<1>3. /\ sh.orders \in [Tickers -> [Indices -> Places]] /\ sh.last \in Nat
  BY <1>1 DEF Shadows
<1>4. ~failed
  <2> SUFFICES ASSUME failed PROVE FALSE
    OBVIOUS
  <2>1. r = [sh EXCEPT !.aborted = TRUE]
    BY DEF AddToSnapshot
  <2>2. r.aborted
    BY <2>1, <1>1 DEF Shadows
  <2> QED
    BY <2>2
<1>5. n = sh.last + 1 /\ sh.last = n - 1
  BY <1>1, <1>3, <1>4
\* The other places.
<1>6. ASSUME NEW t \in Tickers, NEW i \in Indices, sh.orders[t][i] # Free,
             u.ticker # t \/ u.oid # sh.orders[t][i].oid
      PROVE  /\ i = t /\ sh.orders[t][i].oid # 0
             /\ Rests(sh.orders[t][i].oid, n, t)
             /\ IsLastSet(sh.orders[t][i].set, n, t, sh.orders[t][i].oid)
  <2>1. /\ i = t /\ sh.orders[t][i].oid # 0
        /\ Rests(sh.orders[t][i].oid, n - 1, t)
        /\ IsLastSet(sh.orders[t][i].set, n - 1, t, sh.orders[t][i].oid)
    BY <1>5, <1>6 DEF Placed
  <2> QED
    BY <2>1, <1>1, <1>6, StillPlaced
<1>7. CASE u.type = "ADD"
  <2> DEFINE x == [oid |-> u.oid, set |-> n]
             o == [sh.orders EXCEPT ![u.ticker][u.ticker] = x]
  <2>1. r.orders = o /\ r.last = n
    BY <1>1, <1>4, <1>7 DEF AddToSnapshot, Shadows
  <2>2. \A j \in 1 .. (n - 1) : updates[j].ticker = u.ticker => updates[j].oid < u.oid
    BY <1>7 DEF OrdersNumbered
  <2>3. \A j \in 1 .. (n - 1) : updates[j].oid \in Nat
    <3>1. \A j \in 1 .. (n - 1) : updates[j] \in Updates
      BY <1>1
    <3> QED
      BY <3>1, ConstantFacts DEF Updates
  <2>4. Rests(u.oid, n, u.ticker)
    <3>1. \A i : i \in 1 .. n <=> i \in 1 .. (n - 1) \/ i = n
      BY <1>1
    <3>2. \A j \in 1 .. (n - 1) : updates[j].ticker = u.ticker => updates[j].oid # u.oid
      BY <2>2, <2>3, <1>2
    <3> QED
      BY <3>1, <3>2, <1>7 DEF Rests
  <2>5. IsLastSet(n, n, u.ticker, u.oid)
    BY <1>1 DEF IsLastSet
  <2>6. ASSUME NEW t \in Tickers, NEW i \in Indices, o[t][i] # Free
        PROVE  /\ i = t /\ o[t][i].oid # 0
               /\ Rests(o[t][i].oid, n, t) /\ IsLastSet(o[t][i].set, n, t, o[t][i].oid)
    <3>1. CASE t = u.ticker /\ i = u.ticker
      <4>1. o[t][i] = x /\ x.oid = u.oid /\ x.set = n
        BY <3>1, <1>2, <1>3
      <4> HIDE DEF o, x
      <4> QED
        BY <4>1, <3>1, <2>4, <2>5, <1>2, <1>7
    <3>2. CASE ~(t = u.ticker /\ i = u.ticker)
      <4>1. o[t][i] = sh.orders[t][i]
        BY <3>2, <1>2, <1>3
      <4> HIDE DEF o, x
      <4>2. i = t
        BY <4>1, <2>6 DEF Placed
      <4> QED
        BY <4>1, <4>2, <3>2, <2>6, <1>6
    <3> QED
      BY <3>1, <3>2
  <2> HIDE DEF o
  <2>7. Placed(o, n)
    BY <2>6 DEF Placed
  <2> QED
    BY <2>1, <2>7
<1>8. CASE u.type = "MODIFY"
  <2> DEFINE x == [order EXCEPT !.set = n]
             o == [sh.orders EXCEPT ![u.ticker][u.oid] = x]
  <2>1. r.orders = o /\ r.last = n
    BY <1>1, <1>2, <1>3, <1>4, <1>8 DEF AddToSnapshot, Shadows
  <2>2. order \in Places /\ order.oid = u.oid /\ u.oid \in Indices /\ u.oid # 0
    BY <1>2, <1>3, <1>4, <1>8
  <2>3. x.oid = u.oid /\ x.set = n /\ order # Free
    BY <2>2 DEF Places, Free
  <2>4. u.oid = u.ticker /\ Rests(u.oid, n - 1, u.ticker)
    BY <2>2, <2>3, <1>2, <1>5 DEF Placed
  <2>5. Rests(u.oid, n, u.ticker)
    <3>1. \A i : i \in 1 .. n <=> i \in 1 .. (n - 1) \/ i = n
      BY <1>1
    <3> QED
      BY <2>4, <3>1, <1>8 DEF Rests
  <2>6. IsLastSet(n, n, u.ticker, u.oid)
    BY <1>1 DEF IsLastSet
  <2>7. ASSUME NEW t \in Tickers, NEW i \in Indices, o[t][i] # Free
        PROVE  /\ i = t /\ o[t][i].oid # 0
               /\ Rests(o[t][i].oid, n, t) /\ IsLastSet(o[t][i].set, n, t, o[t][i].oid)
    <3>1. CASE t = u.ticker /\ i = u.oid
      <4>1. o[t][i] = x
        BY <3>1, <1>2, <1>3, <2>2
      <4> HIDE DEF o, x
      <4> QED
        BY <4>1, <3>1, <2>2, <2>3, <2>4, <2>5, <2>6
    <3>2. CASE ~(t = u.ticker /\ i = u.oid)
      <4>1. o[t][i] = sh.orders[t][i]
        BY <3>2, <1>2, <1>3, <2>2
      <4> HIDE DEF o, x
      <4>2. i = t
        BY <4>1, <2>7 DEF Placed
      <4> QED
        BY <4>1, <4>2, <3>2, <2>4, <2>7, <1>6
    <3> QED
      BY <3>1, <3>2
  <2> HIDE DEF o
  <2>8. Placed(o, n)
    BY <2>7 DEF Placed
  <2> QED
    BY <2>1, <2>8
<1>9. CASE u.type = "CANCEL"
  <2> DEFINE o == [sh.orders EXCEPT ![u.ticker][u.oid] = Free]
  <2>1. r.orders = o /\ r.last = n
    BY <1>1, <1>2, <1>3, <1>4, <1>9 DEF AddToSnapshot, Shadows
  <2>2. order \in Places /\ order.oid = u.oid /\ u.oid \in Indices /\ u.oid # 0
    BY <1>2, <1>3, <1>4, <1>9
  <2>3. order # Free
    BY <2>2 DEF Free
  <2>4. u.oid = u.ticker
    BY <2>2, <2>3, <1>2 DEF Placed
  <2>5. ASSUME NEW t \in Tickers, NEW i \in Indices, o[t][i] # Free
        PROVE  /\ i = t /\ o[t][i].oid # 0
               /\ Rests(o[t][i].oid, n, t) /\ IsLastSet(o[t][i].set, n, t, o[t][i].oid)
    <3>1. ~(t = u.ticker /\ i = u.oid) /\ o[t][i] = sh.orders[t][i]
      BY <2>5, <1>2, <1>3, <2>2
    <3> HIDE DEF o
    <3>2. i = t
      BY <3>1, <2>5 DEF Placed
    <3> QED
      BY <3>1, <3>2, <2>4, <2>5, <1>6
  <2> HIDE DEF o
  <2>6. Placed(o, n)
    BY <2>5 DEF Placed
  <2> QED
    BY <2>1, <2>6
<1>10. CASE u.type = "TRADE"
  <2>1. r = [sh EXCEPT !.last = n]
    BY <1>4, <1>10 DEF AddToSnapshot
  <2>2. r.orders = sh.orders /\ r.last = n
    BY <2>1, <1>1 DEF Shadows
  <2>3. ASSUME NEW t \in Tickers, NEW i \in Indices, sh.orders[t][i] # Free
        PROVE  u.oid # sh.orders[t][i].oid
    BY <2>3, <1>2, <1>10 DEF Placed
  <2>4. Placed(sh.orders, n)
    BY <2>3, <1>6 DEF Placed
  <2> QED
    BY <2>2, <2>4
<1> QED
  BY <1>2, <1>7, <1>8, <1>9, <1>10 DEF Types

-----------------------------------------------------------------------------
LEMMA SnapshotInvHolds == Spec => []SnapshotInv
<1>1. Init => SnapshotInv
  <2> SUFFICES ASSUME Init PROVE SnapshotInv
    OBVIOUS
  <2>1. updates = <<>>
    BY DEF Init
  <2>2. OrdersNumbered
    BY <2>1 DEF OrdersNumbered
  <2>3. shadow.orders = [t \in Tickers |-> [i \in Indices |-> Free]]
    BY DEF Init
  <2>4. Placed(shadow.orders, shadow.last)
    BY <2>3 DEF Placed
  <2> QED
    BY <2>2, <2>4 DEF SnapshotInv
<1>2. IInv /\ SnapshotInv /\ [Next]_vars => SnapshotInv'
  <2> SUFFICES ASSUME IInv, SnapshotInv, [Next]_vars PROVE SnapshotInv'
    OBVIOUS
  <2>1. CASE Publish
    <3>1. OrdersNumbered'
      BY <2>1, PublishNumbers DEF SnapshotInv
    <3>2. UNCHANGED shadow
      BY <2>1 DEF Publish
    <3> QED
      BY <3>1, <3>2, <2>1, PublishPlaced DEF SnapshotInv
  <2>2. CASE TakeUpdate
    <3> DEFINE n == Head(toShadow)
    <3>1. /\ ~shadow.aborted /\ toShadow # <<>>
          /\ shadow' = AddToSnapshot(shadow, n) /\ UNCHANGED updates
      BY <2>2 DEF TakeUpdate
    <3>2. /\ toShadow \in Seq(Nat) /\ updates \in Seq(Updates)
          /\ \A k \in DOMAIN toShadow : toShadow[k] \in DOMAIN updates
          /\ \A k \in DOMAIN updates : updates[k].type # "TRADE" => updates[k].oid # 0
      BY DEF IInv, Publishing
    <3>3. n \in DOMAIN updates
      <4>1. n = toShadow[1] /\ 1 \in DOMAIN toShadow
        BY <3>1, <3>2
      <4> QED
        BY <4>1, <3>2
    <3>4. Sound(shadow)
      BY DEF IInv, Shadowing, Sound
    <3> HIDE DEF n
    <3>5. ~shadow'.aborted => Placed(shadow'.orders, shadow'.last)
      BY <3>1, <3>2, <3>3, <3>4, AddToSnapshotPlaces DEF SnapshotInv
    <3>6. Placed(shadow'.orders, shadow'.last) => Placed(shadow.orders, shadow.last)'
      BY <3>1 DEF Placed, Rests, IsLastSet
    <3>7. OrdersNumbered'
      BY <3>1 DEF SnapshotInv, OrdersNumbered, Of
    <3> QED
      BY <3>5, <3>6, <3>7 DEF SnapshotInv
  <2>3. CASE UNCHANGED <<updates, shadow>>
    BY <2>3 DEF SnapshotInv, OrdersNumbered, Of, Placed, Rests, IsLastSet
  <2>4. CASE PublishSnapshot \/ (\E s \in Sockets : Receive(s)) \/ Duplicate \/ UNCHANGED vars
    BY <2>3, <2>4 DEF PublishSnapshot, Receive, Duplicate, vars
  <2> QED
    BY <2>1, <2>2, <2>4 DEF Next
<1> QED
  BY <1>1, <1>2, Invariance, PTL DEF Spec

\* Until an assertion ends it, the synthesizer holds nothing stale, for every
\* number of updates and tickers: although each ADD is stored at its ticker's
\* index, an order that a later update is about is found there or ends it.
THEOREM SnapshotsAreSound == Spec => []ShadowIsSound
<1>1. IInv /\ SnapshotInv => ShadowIsSound
  <2> SUFFICES ASSUME IInv, SnapshotInv, ~shadow.aborted,
                      NEW t \in Tickers, NEW i \in Indices, shadow.orders[t][i] # Free
               PROVE  /\ shadow.orders[t][i].oid \in LiveAfter(shadow.last, t)
                      /\ shadow.orders[t][i].set =
                           LastSet(shadow.last, t, shadow.orders[t][i].oid)
    BY DEF ShadowIsSound
  <2>1. updates \in Seq(Updates) /\ shadow.last \in 0 .. Len(updates) /\ shadow.last \in Nat
    BY DEF IInv, Publishing, Shadowing, Shadows
  <2>2. /\ Rests(shadow.orders[t][i].oid, shadow.last, t)
        /\ IsLastSet(shadow.orders[t][i].set, shadow.last, t, shadow.orders[t][i].oid)
    BY DEF SnapshotInv, Placed
  <2> QED
    BY <2>1, <2>2, LiveAfterRests, LastSetIs
<1> QED
  BY <1>1, Invariance, SnapshotInvHolds, PTL

=============================================================================
