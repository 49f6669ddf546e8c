----------------------------- MODULE MarketData -----------------------------
(***************************************************************************)
(* Market data from the matching engine to one trade engine: the publisher *)
(* (exchange/market_data/market_data_publisher.cpp), its synthesizer of    *)
(* snapshots (snapshot_sythesizer.cpp), two multicast groups that lose,    *)
(* reorder and duplicate, and the consumer (trading/market_data/           *)
(* market_data_consumer.cpp).                                              *)
(*                                                                         *)
(* Every update and every message of a snapshot is a message of its own:   *)
(* how they share datagrams is left to the network, which may lose any.    *)
(***************************************************************************)
EXTENDS Integers, FiniteSets, SequencesExt

CONSTANTS
  Tickers,         \* ticker ids, indices of m_ticker_orders
  PoolSize,        \* blocks of the synthesizer's m_order_pool
  MaxUpdates,      \* bound: updates the engine publishes
  MaxSnapshots,    \* bound: snapshots
  MaxDuplicates,   \* bound: messages the network duplicates
  MaxMarkers       \* bound: updates whose bytes read as a snapshot marker

ASSUME MarketDataAssumption ==
  /\ Tickers \subseteq Nat /\ IsFiniteSet(Tickers)
  /\ PoolSize \in Nat \ {0}
  /\ MaxUpdates \in Nat /\ MaxSnapshots \in Nat /\ MaxDuplicates \in Nat
  /\ MaxMarkers \in Nat

VARIABLES
  updates,     \* history: the updates published; number k is updates[k]
  toShadow,    \* m_snapshot_md_updates: the numbers on their way to shadow
  shadow,      \* the SnapshotSynthesizer
  snapshots,   \* how many snapshots were sent
  inbox,       \* what is under way to each of the consumer's sockets
  duplicates,  \* how many messages were duplicated
  consumer,    \* the MarketDataConsumer
  inOrder      \* whether the network keeps order; no step changes it

vars == <<updates, toShadow, shadow, snapshots, inbox, duplicates, consumer,
          inOrder>>

NotJoined == -1
Free == [oid |-> 0, set |-> 0]     \* a null pointer of m_ticker_orders
Indices == Tickers \cup 1 .. MaxUpdates

Sockets == {"incremental", "snapshot"}
Markers == {"SNAPSHOT_START", "SNAPSHOT_END"}

\* group: the multicast group a socket has joined.  The constructor joins the
\* incremental one only; what the recovery would do if the snapshot socket were
\* joined as well is kept as a second initial state.
Init ==
  /\ updates = <<>> /\ toShadow = <<>> /\ snapshots = 0
  /\ shadow = [orders |-> [t \in Tickers |-> [i \in Indices |-> Free]],
               last |-> 0, blocks |-> 0, aborted |-> FALSE]
  /\ inbox = [s \in Sockets |-> <<>>] /\ duplicates = 0
  /\ \E g \in {"closed", "snapshots"} :
       consumer = [recovering |-> TRUE, next |-> 1, held |-> {}, queued |-> {},
                   group |-> [incremental |-> "updates", snapshot |-> g],
                   from |-> NotJoined, given |-> <<>>]
  /\ inOrder \in BOOLEAN

-----------------------------------------------------------------------------
(* Publisher *)

Of(t, type) == {k \in DOMAIN updates : updates[k].ticker = t
                                       /\ updates[k].type = type}

\* The orders at rest in the engine's book after the first n updates.
LiveAfter(n, t) ==
  {updates[k].oid : k \in Of(t, "ADD") \cap 1 .. n}
    \ {updates[k].oid : k \in Of(t, "CANCEL") \cap 1 .. n}

\* The ids the next order of t to rest may have.  Every order takes one when it
\* comes; one that was filled on arrival, so that it is never added, has traded.
NewIds(t) ==
  LET last == Max(Of(t, "ADD") \cup {0})
      id   == IF last = 0 THEN 0 ELSE updates[last].oid
  IN  (id + 1) .. (id + 1 + Cardinality({k \in Of(t, "TRADE") : k > last}))

\* What the matching engine may publish next: it adds orders, changes those that
\* rest, and follows each trade with the change of the order it took from.
NextUpdates ==
  LET n == Len(updates)
      Changes(t) == [type : {"MODIFY", "CANCEL"}, ticker : {t}, oid : LiveAfter(n, t)]
      New(t) == [type : {"ADD"}, ticker : {t}, oid : NewIds(t)]
                \cup {[type |-> "TRADE", ticker |-> t, oid |-> 0] : o \in LiveAfter(n, t)}
                \cup {u \in Changes(t) : u.type = "CANCEL"}
  IN  IF n # 0 /\ updates[n].type = "TRADE" THEN Changes(updates[n].ticker)
      ELSE UNION {New(t) : t \in Tickers}

\* How the bytes of an incremental message may read, see Publish; at most
\* MaxMarkers of them as the end of a snapshot.
Readings ==
  {"ADD"} \cup {r \in {"SNAPSHOT_END"} :
                  Cardinality({k \in DOMAIN updates : updates[k].readAs = r}) < MaxMarkers}

\* Wrong form: the number is taken after it was incremented.
ToSynthesizerLate(n) == Append(toShadow, n + 1)

\* The copy for the synthesizer is the update.
ToSynthesizer(n) == Append(toShadow, n)

\* A datagram reaches every socket that has joined its group.
Multicast(group, messages) ==
  [s \in Sockets |-> IF consumer.group[s] = group THEN inbox[s] \o messages
                     ELSE inbox[s]]

\* One iteration of MarketDataPublisher::run.  The message is filled from the
\* address of market_update, not from the update: the receiver may read any type
\* in it.
Publish ==
  /\ ~shadow.aborted /\ Len(updates) < MaxUpdates
  /\ \E u \in NextUpdates, type \in Readings :
       LET n == Len(updates) + 1 IN
       /\ updates' = Append(updates, [type |-> u.type, ticker |-> u.ticker,
                                      oid |-> u.oid, readAs |-> type])
       /\ inbox' = Multicast("updates", <<[seq |-> n, type |-> type, num |-> 0]>>)
       /\ toShadow' = ToSynthesizer(n)
  /\ UNCHANGED <<shadow, snapshots, duplicates, consumer, inOrder>>

-----------------------------------------------------------------------------
(* SnapshotSynthesizer *)

\* Wrong form: only changes of orders are counted.
AddToSnapshotCountsOrders(sh, n) ==
  LET u == updates[n] IN
  IF u.type = "TRADE" THEN sh
  ELSE [sh EXCEPT !.orders[u.ticker][u.oid] = [oid |-> u.oid, set |-> n], !.last = n]

\* addToSnapshot.  An ADD looks at the place of its order id and is stored at
\* the place of its ticker id; the block that was there is lost.
AddToSnapshot(sh, n) ==
  LET u      == updates[n]
      order  == sh.orders[u.ticker][u.oid]
      failed == \/ n # sh.last + 1
                \/ u.type = "ADD" /\ (order # Free \/ sh.blocks + 1 = PoolSize)
                \/ u.type \in {"MODIFY", "CANCEL"} /\ order.oid # u.oid
  IN  IF failed THEN [sh EXCEPT !.aborted = TRUE]
      ELSE CASE u.type = "ADD" ->
                  [sh EXCEPT !.orders[u.ticker][u.ticker] = [oid |-> u.oid, set |-> n],
                             !.blocks = @ + 1, !.last = n]
             [] u.type = "MODIFY" ->
                  [sh EXCEPT !.orders[u.ticker][u.oid].set = n, !.last = n]
             [] u.type = "CANCEL" ->
                  [sh EXCEPT !.orders[u.ticker][u.oid] = Free,
                             !.blocks = @ - 1, !.last = n]
             [] OTHER -> [sh EXCEPT !.last = n]

TakeUpdate ==
  /\ ~shadow.aborted /\ toShadow # <<>>
  /\ shadow' = AddToSnapshot(shadow, Head(toShadow))
  /\ toShadow' = Tail(toShadow)
  /\ UNCHANGED <<updates, snapshots, inbox, duplicates, consumer, inOrder>>

\* Between START and END: a CLEAR for each ticker and an ADD for each order.
SnapshotSize ==
  Cardinality(Tickers)
    + Cardinality({e \in Tickers \X Indices : shadow.orders[e[1]][e[2]] # Free})

\* Wrong form: the snapshot is not ended.
SnapshotWithoutEnd ==
  [k \in 1 .. (SnapshotSize + 1) |->
     [seq |-> k - 1, type |-> IF k = 1 THEN "SNAPSHOT_START" ELSE "ADD",
      num |-> shadow.last]]

\* publishSnapshot.  START and END carry the last number in their order id; what
\* the others carry is not looked at by the consumer.
Snapshot ==
  LET last == SnapshotSize + 2 IN
  [k \in 1 .. last |->
     [seq  |-> k - 1,
      type |-> IF k = 1 THEN "SNAPSHOT_START"
               ELSE IF k = last THEN "SNAPSHOT_END" ELSE "ADD",
      num  |-> IF k \in {1, last} THEN shadow.last ELSE 0]]

\* Due once a minute.
PublishSnapshot ==
  /\ ~shadow.aborted /\ snapshots < MaxSnapshots
  /\ inbox' = Multicast("snapshots", Snapshot)
  /\ snapshots' = snapshots + 1
  /\ UNCHANGED <<updates, toShadow, shadow, duplicates, consumer, inOrder>>

-----------------------------------------------------------------------------
(* MarketDataConsumer: held is m_snapshot_queued_msgs, queued is             *)
(* m_incremental_queued_msgs, from and given are the history of what went to *)
(* the trade engine.                                                         *)

Seqs(messages) == {m.seq : m \in messages}
At(messages, n) == CHOOSE m \in messages : m.seq = n

\* Insertion into a map by number.
Insert(messages, m) == {x \in messages : x.seq # m.seq} \cup {m}

\* Where the walk over the queued updates stops, when the snapshot's number is
\* n: at the first number that is missing or is read as a snapshot marker,
\* which is passed over without counting it.  No queued number is larger than
\* the last one published.
Stops(c, n) ==
  {k \in n .. Len(updates) :
     ~\E m \in c.queued : m.seq = k + 1 /\ m.type \notin Markers}
Walked(c, n) == CHOOSE k \in Stops(c, n) : \A j \in Stops(c, n) : k <= j

\* Wrong form: the walk begins at the snapshot's own number.
JoinStreamOverlap(c, n) ==
  [c EXCEPT !.next = Walked(c, n) + 1, !.held = {}, !.queued = {},
            !.recovering = FALSE, !.group["snapshot"] = "closed", !.from = n,
            !.given = [i \in 1 .. (Walked(c, n) - n + 1) |-> n + i - 1]]

\* Wrong form: the queued updates are not required to be complete.
JoinStreamUnchecked(c, n) ==
  [c EXCEPT !.next = Walked(c, n) + 1, !.held = {}, !.queued = {},
            !.recovering = FALSE, !.group["snapshot"] = "closed", !.from = n,
            !.given = [i \in 1 .. (Walked(c, n) - n) |-> n + i]]

\* checkSnapshotSync, once the snapshot is complete: the expected number is
\* moved whether or not the queued updates turn out to fit.
JoinStream(c, n) ==
  LET k == Walked(c, n) IN
  IF \E m \in c.queued : m.seq > k + 1
    THEN [c EXCEPT !.next = k + 1, !.held = {}]
    ELSE [c EXCEPT !.next = k + 1, !.held = {}, !.queued = {},
                   !.recovering = FALSE, !.group["snapshot"] = "closed",
                   !.from = n, !.given = [i \in 1 .. (k - n) |-> n + i]]

\* What was collected of a snapshot is thrown away when a number is missing or
\* its first message is not a START, joined with once an END is its last one.
CheckCollected(c) ==
  LET last == Cardinality(c.held) - 1 IN
  IF Seqs(c.held) # 0 .. last \/ At(c.held, 0).type # "SNAPSHOT_START"
    THEN [c EXCEPT !.held = {}]
  ELSE IF At(c.held, last).type # "SNAPSHOT_END" THEN c
  ELSE JoinStream(c, At(c.held, last).num)

\* Wrong form: without a snapshot there is nothing to recover from.
CheckSnapshotSyncEnds(c) ==
  IF c.held = {} THEN [c EXCEPT !.recovering = FALSE] ELSE CheckCollected(c)

CheckSnapshotSync(c) == IF c.held = {} THEN c ELSE CheckCollected(c)

\* A snapshot number that comes a second time starts the collection anew.
QueueMessage(c, isSnapshot, m) ==
  CheckSnapshotSync(
    IF ~isSnapshot THEN [c EXCEPT !.queued = Insert(@, m)]
    ELSE IF m.seq \in Seqs(c.held) THEN [c EXCEPT !.held = {m}]
    ELSE [c EXCEPT !.held = @ \cup {m}])

\* It is the incremental socket that is opened again, on the snapshot group.
StartSnapshotSync(c) ==
  [c EXCEPT !.held = {}, !.queued = {}, !.recovering = TRUE,
            !.group["incremental"] = "snapshots"]

\* Handing an update on to the trade engine.
Forward(c, m) == [c EXCEPT !.next = @ + 1, !.given = Append(@, m.seq)]

\* recvCallback for one message of one socket.
RecvCallback(c, socket, m) ==
  LET isSnapshot == socket = "snapshot"
      lost       == ~c.recovering /\ m.seq # c.next
  IN  IF isSnapshot /\ ~c.recovering THEN c
      ELSE IF c.recovering THEN QueueMessage(c, isSnapshot, m)
      ELSE IF lost THEN QueueMessage(StartSnapshotSync(c), isSnapshot, m)
      ELSE Forward(c, m)

\* McastSocket::sendAndRecv.  A message that is overtaken may come later or
\* never; a socket that is opened again or closed forgets what was under way.
Receive(socket) ==
  /\ \E k \in DOMAIN inbox[socket] :
       /\ inOrder => k = 1
       /\ consumer' = RecvCallback(consumer, socket, inbox[socket][k])
       /\ inbox' = [s \in Sockets |->
            IF consumer'.group[s] # consumer.group[s] THEN <<>>
            ELSE IF s = socket THEN RemoveAt(inbox[s], k) ELSE inbox[s]]
  /\ UNCHANGED <<updates, toShadow, shadow, snapshots, duplicates, inOrder>>

Duplicate ==
  /\ ~inOrder /\ duplicates < MaxDuplicates
  /\ \E s \in Sockets : \E k \in DOMAIN inbox[s] :
       inbox' = [inbox EXCEPT ![s] = Append(inbox[s], inbox[s][k])]
  /\ duplicates' = duplicates + 1
  /\ UNCHANGED <<updates, toShadow, shadow, snapshots, consumer, inOrder>>

Next ==
  \/ Publish
  \/ TakeUpdate \/ PublishSnapshot
  \/ \E s \in Sockets : Receive(s)
  \/ Duplicate

Spec == Init /\ [][Next]_vars

\* The loops of the synthesizer and the consumer spin, and the minute passes;
\* nothing obliges the engine to publish.
FairSpec ==
  /\ Spec
  /\ WF_vars(TakeUpdate) /\ WF_vars(PublishSnapshot)
  /\ \A s \in Sockets : WF_vars(Receive(s))

-----------------------------------------------------------------------------
Messages == [seq : Nat, type : {"ADD"} \cup Markers, num : Nat]

TypeOK ==
  /\ Len(updates) <= MaxUpdates /\ snapshots \in 0 .. MaxSnapshots
  /\ \A k \in DOMAIN toShadow : toShadow[k] \in DOMAIN updates
  /\ shadow.last \in 0 .. Len(updates) /\ shadow.blocks \in 0 .. PoolSize
  /\ \A t \in Tickers, i \in Indices :
       shadow.orders[t][i].set \in 0 .. Len(updates)
  /\ \A s \in Sockets : \A k \in DOMAIN inbox[s] : inbox[s][k] \in Messages
  /\ consumer.held \cup consumer.queued \subseteq Messages
  /\ consumer.next \in Nat /\ consumer.from \in NotJoined .. Len(updates)
  /\ consumer.recovering \in BOOLEAN /\ inOrder \in BOOLEAN

\* The trade engine is given what Subscription promises, whatever is lost,
\* reordered or duplicated: one snapshot and, from its number on, a run of updates
\* without gap or repetition, joined across the queued ones.
S == INSTANCE Subscription WITH published <- Len(updates),
                                from <- consumer.from,
                                given <- consumer.given

ImplementsSubscription == S!Spec

\* Joining throws nothing away: while the stream is followed, every update after
\* the snapshot's was given to the trade engine or is still under way, except those
\* whose bytes read as a snapshot marker.
NothingDiscarded ==
  (consumer.from # NotJoined /\ ~consumer.recovering) =>
    \A k \in DOMAIN updates :
      \/ k <= consumer.from
      \/ k \in ToSet(consumer.given)
      \/ k \in {inbox["incremental"][i].seq : i \in DOMAIN inbox["incremental"]}
      \/ updates[k].readAs \in Markers

\* The synthesizer's queue continues its last number without a gap up to the
\* publisher's, so the number a snapshot states is the last update it holds.
SynthesizerFollows ==
  ~shadow.aborted =>
    /\ shadow.last + Len(toShadow) = Len(updates)
    /\ \A k \in DOMAIN toShadow : toShadow[k] = shadow.last + k

\* The change an order of ticker t was last set by, among the first n updates.
LastSet(n, t, oid) ==
  CHOOSE k \in 1 .. n :
    /\ updates[k].ticker = t /\ updates[k].oid = oid
    /\ \A j \in (k + 1) .. n : updates[j].ticker # t \/ updates[j].oid # oid

\* Until an assertion ends it, the synthesizer holds nothing stale, although it
\* stores orders at their ticker's index: every order it would publish rests in
\* the engine's book at the snapshot's number, as its last change left it.
ShadowIsSound ==
  ~shadow.aborted =>
    \A t \in Tickers, i \in Indices :
      LET order == shadow.orders[t][i] IN
      order # Free => /\ order.oid \in LiveAfter(shadow.last, t)
                      /\ order.set = LastSet(shadow.last, t, order.oid)

\* What addToSnapshot asserts of a change ("order does not exist"): the order that
\* the update it takes is about is at the place where it is looked for.
UpdatesFindTheirOrder ==
  (~shadow.aborted /\ toShadow # <<>>) =>
    LET u == updates[Head(toShadow)] IN
    u.type \in {"MODIFY", "CANCEL"} => shadow.orders[u.ticker][u.oid] # Free

\* A recovery does not end once the snapshot socket is not joined: after the
\* constructor, which does not join it, and after the first loss, when the
\* incremental socket is the one that is opened again.
RecoveryIsFinal ==
  [][(consumer.recovering /\ consumer.group["snapshot"] = "closed")
       => consumer'.recovering]_vars

\* Were the snapshot socket joined, a consumer on a network that keeps order
\* would leave its first recovery, unless the synthesizer has ended or an update
\* reads as a snapshot marker.
FirstRecoveryEnds ==
  (inOrder /\ consumer.group["snapshot"] = "snapshots")
    ~> (\/ ~consumer.recovering \/ shadow.aborted
        \/ \E k \in DOMAIN updates : updates[k].readAs \in Markers)

=============================================================================
