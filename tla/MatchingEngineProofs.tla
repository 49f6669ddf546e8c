------------------------ MODULE MatchingEngineProofs ------------------------
(***************************************************************************)
(* Proofs about MatchingEngine, for every number of blocks of the two      *)
(* pools, every set of clients, prices and quantities and every sequence   *)
(* of requests.  The inductive invariant is IInv.                          *)
(***************************************************************************)
EXTENDS MatchingEngine, MEOrderBookProofs

-----------------------------------------------------------------------------
(* The inductive invariant *)

Incomings == [client : Clients, coid : OrderIds, moid : Nat, side : Sides,
              price : Nat, leaves : Nat]

\* What the histories h of responses and updates are: sequences.
Logged(h) == \E S : h \in Seq(S)

Typed ==
  /\ Shaped(book)
  /\ incoming = NoOrder \/ (incoming \in Incomings /\ incoming.moid = Len(submitted))
  /\ Logged(responses) /\ Logged(updates) /\ Logged(submitted)
  /\ m_next_market_order_id = Len(submitted) + 1

\* The last answer about the order m leaves q of it.
Says(h, m, q) ==
  \E k \in DOMAIN h : /\ h[k].moid = m /\ h[k].leaves = q
                      /\ \A j \in DOMAIN h : h[j].moid = m => j <= k

\* The first answer about the order m acknowledges it with the quantity q.
Acked(h, m, q) ==
  \E k \in DOMAIN h :
    /\ h[k].moid = m /\ \A j \in DOMAIN h : h[j].moid = m => k <= j
    /\ h[k].type = "ACCEPTED" /\ h[k].leaves = q

\* Each fill of the order m leaves what the answer before it left less the fill.
Sums(h, m) ==
  \A j, k \in DOMAIN h :
    (/\ h[j].moid = m /\ h[k].moid = m /\ j < k /\ h[k].type = "FILLED"
     /\ \A i \in (j + 1) .. (k - 1) : h[i].moid # m)
    => h[k].leaves = h[j].leaves - h[k].exec

AddsUp(h, sub) == \A m \in DOMAIN sub : Acked(h, m, sub[m].qty) /\ Sums(h, m)

\* A block keeps its order until it is taken for another, with nothing left of it
\* from the moment it is given back: this is how a best level that was given back,
\* and is still followed, leads to a fill of zero.
Accounted(b, inc, h, n) ==
  /\ \A o \in OrderBlocks :
       /\ b.orders[o].moid \in {Null} \cup (1 .. n)
       /\ Rests(b, o) => b.orders[o].moid # Null /\ b.orders[o].qty # 0
       /\ ~Rests(b, o) => b.orders[o].qty = 0
       /\ b.orders[o].moid # Null => /\ b.orders[o].moid # inc.moid
                                     /\ Says(h, b.orders[o].moid, b.orders[o].qty)
  /\ \A x, y \in OrderBlocks :
       b.orders[x].moid = b.orders[y].moid => x = y \/ b.orders[x].moid = Null
  /\ inc # NoOrder => Says(h, inc.moid, inc.leaves)
  /\ \A m \in 1 .. n :
       (m # inc.moid /\ \A o \in OrderBlocks : b.orders[o].moid # m) => Says(h, m, 0)
  /\ \A k \in DOMAIN h : h[k].moid \in {Null} \cup (1 .. n)

ReplicaOf(u) ==
  {Entry(u[k]) : k \in
     {k \in DOMAIN u : /\ u[k].type \in {"ADD", "MODIFY"}
                       /\ \A j \in (k + 1) .. Len(u) : u[j].moid # u[k].moid}}

Mirrored(b, u) == ReplicaOf(u) = {Entry(b.orders[o]) : o \in {k \in OrderBlocks : Rests(b, k)}}

\* The rings are in the order of time, and the price table leads to levels in use.
Sequenced(b) ==
  /\ Ringed(b) /\ Charted(b)
  /\ \A o \in OrderBlocks : Rests(b, o) => b.orders[o].priority > 0

Sound(b, inc, h, u, n) ==
  PoolsReady(b) /\ Sequenced(b) /\ Accounted(b, inc, h, n) /\ Mirrored(b, u)

IInv ==
  /\ Typed /\ AddsUp(responses, submitted)
  /\ Running => Sound(book, incoming, responses, updates, Len(submitted))

-----------------------------------------------------------------------------
(* The histories *)

\* The sequence c is h with r behind.
Longer(h, r, c) ==
  /\ Len(h) \in Nat /\ Len(c) = Len(h) + 1
  /\ DOMAIN h = 1 .. Len(h) /\ DOMAIN c = 1 .. (Len(h) + 1)
  /\ c[Len(h) + 1] = r /\ \A k \in 1 .. Len(h) : c[k] = h[k]

LEMMA Appended ==
  ASSUME NEW h, Logged(h), NEW r, NEW c, c = Append(h, r)
  PROVE  Logged(c) /\ Longer(h, r, c)
<1>1. PICK S : h \in Seq(S)
  BY DEF Logged
<1> DEFINE T == S \cup {r}
<1>2. h \in Seq(T) /\ r \in T
  BY <1>1
<1> HIDE DEF T
<1>3. c \in Seq(T)
  BY <1>2
<1> QED
  BY <1>2, <1>3 DEF Logged, Longer

LEMMA AppendedTwo ==
  ASSUME NEW h, Logged(h), NEW r, NEW s
  PROVE  h \o <<r, s>> = Append(Append(h, r), s)
<1>1. PICK S : h \in Seq(S)
  BY DEF Logged
<1> DEFINE T == S \cup {r, s}
<1>2. h \in Seq(T) /\ r \in T /\ s \in T
  BY <1>1
<1> HIDE DEF T
<1> QED
  BY <1>2

\* The last answer about an order, when there is one more.
SaysMore(h, r, c) ==
  /\ Says(c, r.moid, r.leaves)
  /\ \A m, q : Says(h, m, q) /\ r.moid # m => Says(c, m, q)

LEMMA SaysAppended ==
  ASSUME NEW h, Logged(h), NEW r, NEW c, c = Append(h, r)
  PROVE  SaysMore(h, r, c)
<1>1. /\ Len(h) \in Nat /\ DOMAIN h = 1 .. Len(h) /\ DOMAIN c = 1 .. (Len(h) + 1)
      /\ c[Len(h) + 1] = r /\ \A k \in 1 .. Len(h) : c[k] = h[k]
  BY Appended DEF Longer
<1>2. Says(c, r.moid, r.leaves)
  BY <1>1 DEF Says
<1>3. ASSUME NEW m, NEW q, Says(h, m, q), r.moid # m
      PROVE  Says(c, m, q)
  <2>1. PICK k \in DOMAIN h : /\ h[k].moid = m /\ h[k].leaves = q
                              /\ \A j \in DOMAIN h : h[j].moid = m => j <= k
    BY <1>3 DEF Says
  <2>2. k \in DOMAIN c /\ c[k].moid = m /\ c[k].leaves = q
    BY <1>1, <2>1
  <2>3. ASSUME NEW j \in DOMAIN c, c[j].moid = m PROVE j <= k
    <3>1. j # Len(h) + 1
      BY <1>1, <1>3, <2>3
    <3>2. j \in DOMAIN h /\ c[j] = h[j]
      BY <1>1, <3>1
    <3> QED BY <2>1, <2>3, <3>2
  <2> QED BY <2>2, <2>3 DEF Says
<1> QED
  BY <1>2, <1>3 DEF SaysMore

LEMMA AddUpIs ==
  ASSUME Logged(responses), AddsUp(responses, submitted)
  PROVE  AnswersAddUp
<1>1. DOMAIN responses = 1 .. Len(responses) /\ Len(responses) \in Nat
  <2>1. Longer(responses, 0, Append(responses, 0))
    BY Appended
  <2> QED BY <2>1 DEF Longer
<1>2. ASSUME NEW j \in DOMAIN responses, NEW k \in DOMAIN responses
      PROVE  \A i \in (j + 1) .. (k - 1) : i \in DOMAIN responses
  BY <1>1
<1> QED
  BY <1>2 DEF AnswersAddUp, Answers, AddsUp, Acked, Sums

LEMMA AckedAppended ==
  ASSUME NEW h, Logged(h), NEW r, NEW c, c = Append(h, r), NEW m, NEW q
  PROVE  /\ Acked(h, m, q) => Acked(c, m, q)
         /\ (/\ \A k \in DOMAIN h : h[k].moid # m
             /\ r.moid = m /\ r.type = "ACCEPTED" /\ r.leaves = q) => Acked(c, m, q)
<1>1. /\ Len(h) \in Nat /\ DOMAIN h = 1 .. Len(h) /\ DOMAIN c = 1 .. (Len(h) + 1)
      /\ c[Len(h) + 1] = r /\ \A k \in 1 .. Len(h) : c[k] = h[k]
  BY Appended DEF Longer
<1>2. ASSUME Acked(h, m, q) PROVE Acked(c, m, q)
  <2>1. PICK k \in DOMAIN h :
          /\ h[k].moid = m /\ \A j \in DOMAIN h : h[j].moid = m => k <= j
          /\ h[k].type = "ACCEPTED" /\ h[k].leaves = q
    BY <1>2 DEF Acked
  <2>2. k \in DOMAIN c /\ c[k] = h[k]
    BY <1>1
  <2>3. ASSUME NEW j \in DOMAIN c, c[j].moid = m PROVE k <= j
    <3>1. CASE j = Len(h) + 1
      BY <1>1, <3>1
    <3>2. CASE j # Len(h) + 1
      <4>1. j \in DOMAIN h /\ c[j] = h[j]
        BY <1>1, <3>2
      <4> QED BY <2>1, <2>3, <4>1
    <3> QED BY <3>1, <3>2
  <2> QED BY <2>1, <2>2, <2>3 DEF Acked
<1>3. ASSUME \A k \in DOMAIN h : h[k].moid # m,
             r.moid = m, r.type = "ACCEPTED", r.leaves = q
      PROVE  Acked(c, m, q)
  <2> DEFINE k == Len(h) + 1
  <2>1. k \in DOMAIN c /\ c[k] = r
    BY <1>1
  <2>2. ASSUME NEW j \in DOMAIN c, c[j].moid = m PROVE k <= j
    <3>1. j \notin DOMAIN h
      BY <1>1, <1>3, <2>2
    <3> QED BY <1>1, <3>1
  <2> HIDE DEF k
  <2> QED BY <1>3, <2>1, <2>2 DEF Acked
<1> QED
  BY <1>2, <1>3

LEMMA SumsAppended ==
  ASSUME NEW h, Logged(h), NEW r, NEW c, c = Append(h, r), NEW m, Sums(h, m),
         r.moid = m /\ r.type = "FILLED"
           => \E q : Says(h, m, q) /\ r.leaves = q - r.exec
  PROVE  Sums(c, m)
<1>1. /\ Len(h) \in Nat /\ DOMAIN h = 1 .. Len(h) /\ DOMAIN c = 1 .. (Len(h) + 1)
      /\ c[Len(h) + 1] = r /\ \A k \in 1 .. Len(h) : c[k] = h[k]
  BY Appended DEF Longer
<1> SUFFICES ASSUME NEW j \in DOMAIN c, NEW k \in DOMAIN c,
                    c[j].moid = m, c[k].moid = m, j < k, c[k].type = "FILLED",
                    \A i \in (j + 1) .. (k - 1) : c[i].moid # m
             PROVE  c[k].leaves = c[j].leaves - c[k].exec
  BY DEF Sums
<1>2. j \in DOMAIN h /\ c[j] = h[j]
  BY <1>1
<1>3. CASE k # Len(h) + 1
  <2>1. k \in DOMAIN h /\ c[k] = h[k]
    BY <1>1, <1>3
  <2>2. \A i \in (j + 1) .. (k - 1) : c[i] = h[i]
    BY <1>1, <1>2, <2>1
  <2> QED
    BY <1>2, <2>1, <2>2 DEF Sums
<1>4. CASE k = Len(h) + 1
  <2>1. c[k] = r
    BY <1>1, <1>4
  <2>2. PICK q : Says(h, m, q) /\ r.leaves = q - r.exec
    BY <2>1
  <2>3. PICK l \in DOMAIN h : /\ h[l].moid = m /\ h[l].leaves = q
                              /\ \A i \in DOMAIN h : h[i].moid = m => i <= l
    BY <2>2 DEF Says
  <2>4. j <= l
    BY <1>2, <2>3
  <2>5. ~(j < l)
    <3>1. c[l] = h[l]
      BY <1>1
    <3> QED BY <1>1, <1>2, <1>4, <2>3, <3>1
  <2>6. j = l
    BY <1>1, <1>2, <2>4, <2>5
  <2> QED
    BY <1>2, <2>1, <2>2, <2>3, <2>6
<1> QED
  BY <1>3, <1>4

\* A published update replaces what the subscriber holds of its order.
Applied(u, x, c) ==
  ReplicaOf(c) = {e \in ReplicaOf(u) : e.moid # x.moid}
                   \cup (IF x.type \in {"ADD", "MODIFY"} THEN {Entry(x)} ELSE {})

LEMMA ReplicaAppended ==
  ASSUME NEW u, Logged(u), NEW x, NEW c, c = Append(u, x)
  PROVE  Applied(u, x, c)
<1>1. /\ Len(u) \in Nat /\ Len(c) = Len(u) + 1
      /\ DOMAIN u = 1 .. Len(u) /\ DOMAIN c = 1 .. (Len(u) + 1)
      /\ c[Len(u) + 1] = x /\ \A k \in 1 .. Len(u) : c[k] = u[k]
  BY Appended DEF Longer
<1> DEFINE Newest(s, k) == /\ s[k].type \in {"ADD", "MODIFY"}
                            /\ \A j \in (k + 1) .. Len(s) : s[j].moid # s[k].moid
<1>2. ReplicaOf(u) = {Entry(u[k]) : k \in {k \in DOMAIN u : Newest(u, k)}}
  BY DEF ReplicaOf
<1>3. ReplicaOf(c) = {Entry(c[k]) : k \in {k \in DOMAIN c : Newest(c, k)}}
  BY DEF ReplicaOf
<1>4. ASSUME NEW k \in DOMAIN u
      PROVE  k \in DOMAIN c /\ c[k] = u[k] /\ (Newest(c, k) <=> (Newest(u, k) /\ u[k].moid # x.moid))
  <2>1. k \in DOMAIN c /\ c[k] = u[k]
    BY <1>1
  <2>2. (k + 1) .. Len(c) = ((k + 1) .. Len(u)) \cup {Len(u) + 1}
    BY <1>1
  <2>3. \A j \in (k + 1) .. Len(u) : c[j] = u[j]
    BY <1>1
  <2> QED
    BY <1>1, <2>1, <2>2, <2>3
<1>5. Newest(c, Len(u) + 1) <=> x.type \in {"ADD", "MODIFY"}
  <2>1. \A j \in ((Len(u) + 1) + 1) .. Len(c) : FALSE
    BY <1>1
  <2> QED
    BY <1>1, <2>1
<1>6. DOMAIN c = DOMAIN u \cup {Len(u) + 1}
  BY <1>1
<1>7. \A k : Entry(c[k]).moid = c[k].moid /\ Entry(u[k]).moid = u[k].moid
  BY DEF Entry
<1> HIDE DEF Newest
<1>8. ASSUME NEW e \in ReplicaOf(c)
      PROVE  \/ e \in ReplicaOf(u) /\ e.moid # x.moid
             \/ x.type \in {"ADD", "MODIFY"} /\ e = Entry(x)
  <2>1. PICK k \in DOMAIN c : Newest(c, k) /\ e = Entry(c[k])
    BY <1>3
  <2>2. CASE k \in DOMAIN u
    BY <1>2, <1>4, <1>7, <2>1, <2>2
  <2>3. CASE k = Len(u) + 1
    BY <1>1, <1>5, <2>1, <2>3
  <2> QED BY <1>6, <2>2, <2>3
<1>9. ASSUME NEW e \in ReplicaOf(u), e.moid # x.moid
      PROVE  e \in ReplicaOf(c)
  <2>1. PICK k \in DOMAIN u : Newest(u, k) /\ e = Entry(u[k])
    BY <1>2
  <2> QED
    BY <1>3, <1>4, <1>7, <1>9, <2>1
<1>10. ASSUME x.type \in {"ADD", "MODIFY"}
       PROVE  Entry(x) \in ReplicaOf(c)
  <2>1. Len(u) + 1 \in DOMAIN c
    BY <1>6
  <2> QED
    BY <1>1, <1>3, <1>5, <1>10, <2>1
<1> QED
  BY <1>8, <1>9, <1>10 DEF Applied

-----------------------------------------------------------------------------
(* The book after a fill *)

\* The order o is smaller by fill, and gone when nothing is left of it.
Filled(b, c, o, fill) ==
  /\ Rests(b, o)
  /\ \A k \in OrderBlocks :
       /\ c.orders[k].moid = b.orders[k].moid
       /\ c.orders[k].side = b.orders[k].side /\ c.orders[k].price = b.orders[k].price
       /\ c.orders[k].qty = IF k = o THEN b.orders[k].qty - fill ELSE b.orders[k].qty
       /\ Rests(c, k) <=> (Rests(b, k) /\ ~(k = o /\ fill = b.orders[o].qty))

LEMMA HitSequenced ==
  ASSUME NEW b, Shaped(b), PoolsReady(b), Sequenced(b), NEW o \in OrderBlocks,
         NEW v \in Nat, NEW c, c = Hit(b, o, v)
  PROVE  PoolsReady(c) /\ Sequenced(c)
<1>1. /\ \A k \in OrderBlocks :
           SameKey(c.orders[k], b.orders[k]) /\ (Rests(c, k) <=> Rests(b, k))
      /\ PoolsReady(c) /\ Ringed(c) /\ Charted(c)
  BY HitSpec DEF Sequenced
<1> QED
  BY <1>1 DEF Sequenced, SameKey

LEMMA RemoveSequenced ==
  ASSUME NEW b, Shaped(b), Sequenced(b), PoolsReady(b), b.status = "running",
         NEW o \in OrderBlocks, NEW c, c = RemoveOrder(b, o), c.status = "running"
  PROVE  /\ Sequenced(c) /\ PoolsReady(c) /\ Rests(b, o)
         /\ SameContents(c.orders, b.orders)
         /\ \A k \in OrderBlocks : Rests(c, k) <=> (Rests(b, k) /\ k # o)
<1>1. /\ PoolsReady(c) /\ Rests(b, o) /\ SameContents(c.orders, b.orders)
      /\ \A k \in OrderBlocks : Rests(c, k) <=> (Rests(b, k) /\ k # o)
  BY RemovedBook
<1>2. Ringed(c) /\ Charted(c)
  BY RemoveKeepsRings DEF Sequenced
<1>3. \A k \in OrderBlocks : SameKey(c.orders[k], b.orders[k])
  BY <1>1, ContentsHaveKeys
<1> QED
  BY <1>1, <1>2, <1>3 DEF Sequenced, SameKey

LEMMA FilledBook ==
  ASSUME NEW b, Shaped(b), b.status = "running", NEW o \in OrderBlocks,
         NEW fill \in Nat, fill <= b.orders[o].qty,
         NEW c,
         c = LET hit == Hit(b, o, b.orders[o].qty - fill)
             IN  IF fill = b.orders[o].qty THEN RemoveOrder(hit, o) ELSE hit
  PROVE  /\ Shaped(c)
         /\ (/\ c.status = "running" /\ PoolsReady(b) /\ Sequenced(b)
             /\ ~Rests(b, o) => b.orders[o].qty = 0)
            => PoolsReady(c) /\ Sequenced(c) /\ Filled(b, c, o, fill)
<1> DEFINE v   == b.orders[o].qty - fill
           hit == Hit(b, o, v)
<1>1. b.orders[o].qty \in Nat
  BY DEF Shaped, BooksOn, Orders
<1>2. v \in Nat
  BY <1>1
<1>3. c = IF fill = b.orders[o].qty THEN RemoveOrder(hit, o) ELSE hit
  OBVIOUS
<1> HIDE DEF v
<1>5. /\ Shaped(hit) /\ hit.status = "running"
      /\ \A k \in OrderBlocks :
           /\ SameKey(hit.orders[k], b.orders[k]) /\ hit.orders[k].side = b.orders[k].side
           /\ hit.orders[k].qty = IF k = o THEN v ELSE b.orders[k].qty
           /\ Rests(hit, k) <=> Rests(b, k)
      /\ PoolsReady(b) /\ Sequenced(b) => PoolsReady(hit) /\ Sequenced(hit)
  BY <1>2, HitSpec, HitSequenced
<1> HIDE DEF hit
<1>8. CASE fill = b.orders[o].qty
  <2>1. c = RemoveOrder(hit, o)
    BY <1>3, <1>8
  <2>2. Shaped(c)
    BY <1>5, <2>1, RemoveOrderSpec
  <2>3. ASSUME c.status = "running", PoolsReady(b), Sequenced(b)
        PROVE  PoolsReady(c) /\ Sequenced(c) /\ Filled(b, c, o, fill)
    <3>1. /\ Sequenced(c) /\ PoolsReady(c) /\ Rests(hit, o)
          /\ SameContents(c.orders, hit.orders)
          /\ \A k \in OrderBlocks : Rests(c, k) <=> (Rests(hit, k) /\ k # o)
      BY <1>5, <2>1, <2>3, RemoveSequenced
    <3>2. \A k \in OrderBlocks : /\ SameKey(c.orders[k], hit.orders[k])
                                 /\ c.orders[k].side = hit.orders[k].side
                                 /\ c.orders[k].qty = hit.orders[k].qty
      BY <3>1, ContentsHaveKeys
    <3>3. \A k \in OrderBlocks :
            /\ c.orders[k].moid = b.orders[k].moid
            /\ c.orders[k].side = b.orders[k].side /\ c.orders[k].price = b.orders[k].price
            /\ c.orders[k].qty = IF k = o THEN v ELSE b.orders[k].qty
      BY <1>5, <3>2 DEF SameKey
    <3> QED
      BY <1>5, <1>8, <3>1, <3>3 DEF Filled, v
  <2> QED BY <2>2, <2>3
<1>9. CASE fill # b.orders[o].qty
  <2>1. c = hit
    BY <1>3, <1>9
  <2>2. \A k \in OrderBlocks :
          /\ c.orders[k].moid = b.orders[k].moid
          /\ c.orders[k].side = b.orders[k].side /\ c.orders[k].price = b.orders[k].price
          /\ c.orders[k].qty = IF k = o THEN v ELSE b.orders[k].qty
    BY <1>5, <2>1 DEF SameKey
  <2>3. b.orders[o].qty # 0
    BY <1>1, <1>9
  <2> QED
    BY <1>5, <1>9, <2>1, <2>2, <2>3 DEF Filled, v
<1> QED
  BY <1>8, <1>9

-----------------------------------------------------------------------------
(* The book after an order was added *)

\* The order ord rests in the block o.
Rested(b, c, o, ord) ==
  /\ o \in OrderBlocks /\ ~Rests(b, o)
  /\ c.orders[o].moid = ord.moid /\ c.orders[o].qty = ord.leaves
  /\ c.orders[o].side = ord.side /\ c.orders[o].price = ord.price
  /\ \A k \in OrderBlocks :
       /\ k # o => /\ c.orders[k].moid = b.orders[k].moid
                   /\ c.orders[k].side = b.orders[k].side
                   /\ c.orders[k].price = b.orders[k].price
                   /\ c.orders[k].qty = b.orders[k].qty
       /\ Rests(c, k) <=> (Rests(b, k) \/ k = o)

\* What a new order needs of the book it is added to.
Younger(b, ord) ==
  /\ ord \in Orders /\ ord.moid \in Nat
  /\ \A k \in OrderBlocks : Rests(b, k) => b.orders[k].moid < ord.moid
  /\ ord.priority = NextPriority(b, ord.price)

LEMMA RestedBook ==
  ASSUME NEW b, Shaped(b), PoolsReady(b), Sequenced(b), NEW ord, Younger(b, ord),
         NEW o, NEW s, Took(b, s, o, ord), NEW c, Added(s, c, o)
  PROVE  /\ Sequenced(c) /\ PoolsReady(c) /\ o \in OrderBlocks /\ ~Rests(b, o)
         /\ \A k \in OrderBlocks :
              /\ Rests(c, k) <=> (Rests(b, k) \/ k = o)
              /\ Content(c.orders[k]) = IF k = o THEN Content(ord) ELSE Content(b.orders[k])
<1> DEFINE l     == LevelOf(b, ord.price)
           first == b.levels[l].first
           last  == b.orders[first].prev
<1>1. /\ ord \in Orders /\ ord.price \in Nat /\ ord.moid \in Nat
      /\ \A k \in OrderBlocks : Rests(b, k) => b.orders[k].moid < ord.moid
      /\ ord.priority = IF l = Null THEN 1 ELSE b.orders[last].priority + 1
  BY DEF Younger, Orders, NextPriority
<1>2. /\ PoolsReady(c) /\ o \in OrderBlocks /\ ~Rests(b, o)
      /\ \A k \in OrderBlocks :
           /\ Rests(c, k) <=> (Rests(b, k) \/ k = o)
           /\ Content(c.orders[k]) = IF k = o THEN Content(ord) ELSE Content(b.orders[k])
  BY <1>1, AddedBook
<1>3. l # Null => InUse(b, l) /\ b.orders[last].priority \in Nat
  <2>1. ord.price % NumPriceLevels \in Slots
    BY <1>1, SlotInTable
  <2>2. l # Null => InUse(b, l)
    BY <2>1 DEF Sequenced, Charted, LevelOf
  <2>3. InUse(b, l) => Rests(b, last)
    BY DEF Sequenced, Ringed, Neighbours, InUse, Rests
  <2> QED
    BY <2>2, <2>3 DEF Rests, Shaped, BooksOn, Orders
<1>4. Follows(b, ord)
  <2>1. l # Null => Before(b.orders[last].priority, ord.priority)
    <3> HIDE DEF l, last
    <3> QED BY <1>1, <1>3 DEF Before
  <2> QED BY <1>1, <1>3, <2>1 DEF Follows
<1> HIDE DEF l, last
<1>5. Ringed(c) /\ Charted(c)
  BY <1>4, AddKeepsRings DEF Sequenced
<1>6. ord.priority > 0
  BY <1>1, <1>3
<1>7. \A k \in OrderBlocks : Rests(c, k) => c.orders[k].priority > 0
  BY <1>2, <1>6 DEF Sequenced, Content
<1> QED
  BY <1>2, <1>5, <1>7 DEF Sequenced

-----------------------------------------------------------------------------
(* What is held of each order, and what was said of it *)

\* A new order is acknowledged.
LEMMA AcceptAccounted ==
  ASSUME NEW b, NEW h, Logged(h), NEW n \in Nat, Accounted(b, NoOrder, h, n),
         NEW ord, ord.moid = n + 1, NEW r, r.moid = n + 1, r.leaves = ord.leaves,
         NEW c, c = Append(h, r)
  PROVE  Accounted(b, ord, c, n + 1)
<1>1. /\ Len(h) \in Nat /\ DOMAIN h = 1 .. Len(h) /\ DOMAIN c = 1 .. (Len(h) + 1)
      /\ c[Len(h) + 1] = r /\ \A k \in 1 .. Len(h) : c[k] = h[k]
  BY Appended DEF Longer
<1>2. /\ Says(c, n + 1, ord.leaves)
      /\ \A m, q : Says(h, m, q) /\ m # n + 1 => Says(c, m, q)
  <2>1. SaysMore(h, r, c)
    BY SaysAppended
  <2> QED BY <2>1 DEF SaysMore
<1>3. /\ 1 .. (n + 1) = (1 .. n) \cup {n + 1} /\ n + 1 \notin 1 .. n
      /\ n + 1 # Null
  BY DEF Null
<1>4. ASSUME NEW o \in OrderBlocks
      PROVE  /\ b.orders[o].moid \in {Null} \cup (1 .. (n + 1))
             /\ Rests(b, o) => b.orders[o].moid # Null /\ b.orders[o].qty # 0
             /\ ~Rests(b, o) => b.orders[o].qty = 0
             /\ b.orders[o].moid # Null =>
                  /\ b.orders[o].moid # ord.moid
                  /\ Says(c, b.orders[o].moid, b.orders[o].qty)
  <2>1. /\ b.orders[o].moid \in {Null} \cup (1 .. n)
        /\ Rests(b, o) => b.orders[o].moid # Null /\ b.orders[o].qty # 0
        /\ ~Rests(b, o) => b.orders[o].qty = 0
        /\ b.orders[o].moid # Null => Says(h, b.orders[o].moid, b.orders[o].qty)
    BY DEF Accounted
  <2> QED
    BY <1>2, <1>3, <2>1
<1>5. \A x, y \in OrderBlocks :
        b.orders[x].moid = b.orders[y].moid => x = y \/ b.orders[x].moid = Null
  BY DEF Accounted
<1>6. ASSUME NEW m \in 1 .. (n + 1), m # ord.moid,
             \A o \in OrderBlocks : b.orders[o].moid # m
      PROVE  Says(c, m, 0)
  <2>1. m \in 1 .. n /\ m # NoOrder.moid
    BY <1>3, <1>6 DEF NoOrder, Null
  <2>2. Says(h, m, 0)
    BY <1>6, <2>1 DEF Accounted
  <2> QED BY <1>2, <1>6, <2>2
<1>7. ASSUME NEW k \in DOMAIN c
      PROVE  c[k].moid \in {Null} \cup (1 .. (n + 1))
  <2>1. CASE k = Len(h) + 1
    BY <1>1, <1>3, <2>1
  <2>2. CASE k # Len(h) + 1
    <3>1. k \in DOMAIN h /\ c[k] = h[k]
      BY <1>1, <2>2
    <3>2. h[k].moid \in {Null} \cup (1 .. n)
      BY <3>1 DEF Accounted
    <3> QED BY <1>3, <3>1, <3>2
  <2> QED BY <2>1, <2>2
<1> QED
  BY <1>2, <1>4, <1>5, <1>6, <1>7 DEF Accounted

\* A new order is done with: nothing was left of it.
LEMMA DoneAccounted ==
  ASSUME NEW b, NEW ord, NEW h, NEW n \in Nat, Accounted(b, ord, h, n), ord # NoOrder,
         ord.leaves = 0
  PROVE  Accounted(b, NoOrder, h, n)
<1>1. Says(h, ord.moid, 0)
  BY DEF Accounted
<1>2. /\ \A o \in OrderBlocks :
           /\ b.orders[o].moid \in {Null} \cup (1 .. n)
           /\ Rests(b, o) => b.orders[o].moid # Null /\ b.orders[o].qty # 0
           /\ ~Rests(b, o) => b.orders[o].qty = 0
           /\ b.orders[o].moid # Null => Says(h, b.orders[o].moid, b.orders[o].qty)
      /\ \A x, y \in OrderBlocks :
           b.orders[x].moid = b.orders[y].moid => x = y \/ b.orders[x].moid = Null
      /\ \A k \in DOMAIN h : h[k].moid \in {Null} \cup (1 .. n)
  BY DEF Accounted
<1>3. ASSUME NEW m \in 1 .. n, \A o \in OrderBlocks : b.orders[o].moid # m
      PROVE  Says(h, m, 0)
  <2>1. m # ord.moid => Says(h, m, 0)
    BY <1>3 DEF Accounted
  <2> QED BY <1>1, <2>1
<1>4. NoOrder.moid = Null
  BY DEF NoOrder
<1> QED
  BY <1>2, <1>3, <1>4 DEF Accounted

\* What is left of it rests.
LEMMA RestAccounted ==
  ASSUME NEW b, NEW ord, NEW h, NEW n \in Nat, Accounted(b, ord, h, n), ord # NoOrder,
         ord.moid \in 1 .. n, ord.leaves # 0,
         NEW c, NEW o, Rested(b, c, o, ord)
  PROVE  Accounted(c, NoOrder, h, n)
<1>0. /\ o \in OrderBlocks /\ ~Rests(b, o)
      /\ c.orders[o].moid = ord.moid /\ c.orders[o].qty = ord.leaves
      /\ \A k \in OrderBlocks :
           /\ k # o => /\ c.orders[k].moid = b.orders[k].moid
                       /\ c.orders[k].qty = b.orders[k].qty
           /\ Rests(c, k) <=> (Rests(b, k) \/ k = o)
  BY DEF Rested
<1>1. /\ \A k \in OrderBlocks :
           /\ b.orders[k].moid \in {Null} \cup (1 .. n)
           /\ Rests(b, k) => b.orders[k].moid # Null /\ b.orders[k].qty # 0
           /\ ~Rests(b, k) => b.orders[k].qty = 0
           /\ b.orders[k].moid # Null => /\ b.orders[k].moid # ord.moid
                                         /\ Says(h, b.orders[k].moid, b.orders[k].qty)
      /\ \A x, y \in OrderBlocks :
           b.orders[x].moid = b.orders[y].moid => x = y \/ b.orders[x].moid = Null
      /\ Says(h, ord.moid, ord.leaves)
      /\ \A k \in DOMAIN h : h[k].moid \in {Null} \cup (1 .. n)
  BY DEF Accounted
<1>2. ord.moid # Null
  BY DEF Null
<1>3. ASSUME NEW k \in OrderBlocks
      PROVE  /\ c.orders[k].moid \in {Null} \cup (1 .. n)
             /\ Rests(c, k) => c.orders[k].moid # Null /\ c.orders[k].qty # 0
             /\ ~Rests(c, k) => c.orders[k].qty = 0
             /\ c.orders[k].moid # Null => Says(h, c.orders[k].moid, c.orders[k].qty)
  <2>1. CASE k = o
    BY <1>0, <1>1, <1>2, <2>1
  <2>2. CASE k # o
    <3>1. /\ c.orders[k].moid = b.orders[k].moid /\ c.orders[k].qty = b.orders[k].qty
          /\ Rests(c, k) <=> Rests(b, k)
      BY <1>0, <2>2
    <3> QED BY <1>1, <3>1
  <2> QED BY <2>1, <2>2
<1>4. ASSUME NEW x \in OrderBlocks, NEW y \in OrderBlocks,
             c.orders[x].moid = c.orders[y].moid
      PROVE  x = y \/ c.orders[x].moid = Null
  BY <1>0, <1>1, <1>2, <1>4
<1>5. ASSUME NEW m \in 1 .. n, \A k \in OrderBlocks : c.orders[k].moid # m
      PROVE  Says(h, m, 0)
  <2>1. m # ord.moid
    BY <1>0, <1>5
  <2>2. CASE b.orders[o].moid = m
    <3>1. m # Null
      BY DEF Null
    <3> QED BY <1>0, <1>1, <2>2, <3>1
  <2>3. CASE b.orders[o].moid # m
    <3>1. \A k \in OrderBlocks : b.orders[k].moid # m
      BY <1>0, <1>5, <2>3
    <3> QED BY <2>1, <3>1 DEF Accounted
  <2> QED BY <2>2, <2>3
<1>6. NoOrder.moid = Null
  BY DEF NoOrder
<1> QED
  BY <1>1, <1>3, <1>4, <1>5, <1>6 DEF Accounted

\* An order is hit: both sides are told.
LEMMA FillAccounted ==
  ASSUME NEW b, NEW ord, NEW h, Logged(h), NEW n \in Nat, Accounted(b, ord, h, n),
         ord # NoOrder, ord.moid \in 1 .. n,
         NEW c, NEW o \in OrderBlocks, NEW fill, Filled(b, c, o, fill),
         b.orders[o].qty \in Nat, fill \in Nat,
         NEW left, left # NoOrder, left.moid = ord.moid,
         NEW r, r.moid = ord.moid, r.leaves = left.leaves,
         NEW s, s.moid = b.orders[o].moid, s.leaves = b.orders[o].qty - fill,
         NEW g, g = Append(h, r), NEW f, f = Append(g, s)
  PROVE  Accounted(c, left, f, n)
<1>0. /\ Rests(b, o)
      /\ \A k \in OrderBlocks :
           /\ c.orders[k].moid = b.orders[k].moid
           /\ c.orders[k].qty = IF k = o THEN b.orders[k].qty - fill ELSE b.orders[k].qty
           /\ Rests(c, k) <=> (Rests(b, k) /\ ~(k = o /\ fill = b.orders[o].qty))
  BY DEF Filled
<1>1. /\ \A k \in OrderBlocks :
           /\ b.orders[k].moid \in {Null} \cup (1 .. n)
           /\ Rests(b, k) => b.orders[k].moid # Null /\ b.orders[k].qty # 0
           /\ ~Rests(b, k) => b.orders[k].qty = 0
           /\ b.orders[k].moid # Null => /\ b.orders[k].moid # ord.moid
                                         /\ Says(h, b.orders[k].moid, b.orders[k].qty)
      /\ \A x, y \in OrderBlocks :
           b.orders[x].moid = b.orders[y].moid => x = y \/ b.orders[x].moid = Null
      /\ \A k \in DOMAIN h : h[k].moid \in {Null} \cup (1 .. n)
  BY DEF Accounted
<1>a. Logged(g) /\ Longer(h, r, g) /\ SaysMore(h, r, g)
  BY Appended, SaysAppended
<1>b. Longer(g, s, f) /\ SaysMore(g, s, f)
  BY <1>a, Appended, SaysAppended
<1>2. /\ Len(h) \in Nat /\ Len(g) = Len(h) + 1
      /\ DOMAIN h = 1 .. Len(h) /\ DOMAIN g = 1 .. (Len(h) + 1)
      /\ g[Len(h) + 1] = r /\ \A k \in 1 .. Len(h) : g[k] = h[k]
  BY <1>a DEF Longer
<1>3. /\ DOMAIN f = 1 .. (Len(g) + 1)
      /\ f[Len(g) + 1] = s /\ \A k \in 1 .. Len(g) : f[k] = g[k]
  BY <1>b DEF Longer
<1>4. /\ Says(g, ord.moid, left.leaves)
      /\ \A m, q : Says(h, m, q) /\ ord.moid # m => Says(g, m, q)
  BY <1>a DEF SaysMore
<1>5. /\ Says(f, s.moid, b.orders[o].qty - fill)
      /\ \A m, q : Says(g, m, q) /\ s.moid # m => Says(f, m, q)
  BY <1>b DEF SaysMore
<1>6. s.moid # ord.moid /\ s.moid # Null /\ s.moid \in 1 .. n
  BY <1>0, <1>1
<1>7. Says(f, ord.moid, left.leaves)
  BY <1>4, <1>5, <1>6
<1>8. ASSUME NEW k \in OrderBlocks
      PROVE  /\ c.orders[k].moid \in {Null} \cup (1 .. n)
             /\ Rests(c, k) => c.orders[k].moid # Null /\ c.orders[k].qty # 0
             /\ ~Rests(c, k) => c.orders[k].qty = 0
             /\ c.orders[k].moid # Null => /\ c.orders[k].moid # left.moid
                                           /\ Says(f, c.orders[k].moid, c.orders[k].qty)
  <2>1. CASE k = o
    <3>1. c.orders[k].moid = s.moid /\ c.orders[k].qty = b.orders[o].qty - fill
      BY <1>0, <2>1
    <3>2. Rests(c, k) <=> fill # b.orders[o].qty
      BY <1>0, <2>1
    <3>3. b.orders[o].qty - fill = 0 <=> fill = b.orders[o].qty
      OBVIOUS
    <3> QED BY <1>5, <1>6, <3>1, <3>2, <3>3
  <2>2. CASE k # o
    <3>1. /\ c.orders[k].moid = b.orders[k].moid /\ c.orders[k].qty = b.orders[k].qty
          /\ Rests(c, k) <=> Rests(b, k)
      BY <1>0, <2>2
    <3>2. ASSUME b.orders[k].moid # Null
          PROVE  Says(f, b.orders[k].moid, b.orders[k].qty)
      <4>1. b.orders[k].moid # s.moid
        BY <1>1, <2>2, <3>2
      <4> QED BY <1>1, <1>4, <1>5, <3>2, <4>1
    <3> QED BY <1>1, <3>1, <3>2
  <2> QED BY <2>1, <2>2
<1>9. \A x, y \in OrderBlocks :
        c.orders[x].moid = c.orders[y].moid => x = y \/ c.orders[x].moid = Null
  BY <1>0, <1>1
<1>10. ASSUME NEW m \in 1 .. n, m # ord.moid, \A k \in OrderBlocks : c.orders[k].moid # m
       PROVE  Says(f, m, 0)
  <2>1. Says(h, m, 0)
    <3>1. \A k \in OrderBlocks : b.orders[k].moid # m
      BY <1>0, <1>10
    <3> QED BY <1>10, <3>1 DEF Accounted
  <2>2. m # s.moid
    BY <1>0, <1>10
  <2> QED BY <1>4, <1>5, <1>10, <2>1, <2>2
<1>11. ASSUME NEW k \in DOMAIN f PROVE f[k].moid \in {Null} \cup (1 .. n)
  <2>1. CASE k = Len(g) + 1
    BY <1>3, <1>6, <2>1
  <2>2. CASE k = Len(h) + 1
    <3>1. f[k] = r
      BY <1>2, <1>3, <2>2
    <3> QED BY <3>1
  <2>3. CASE k # Len(g) + 1 /\ k # Len(h) + 1
    <3>1. k \in DOMAIN h /\ f[k] = h[k]
      BY <1>2, <1>3, <2>3
    <3> QED BY <1>1, <3>1
  <2> QED BY <2>1, <2>2, <2>3
<1> QED
  BY <1>7, <1>8, <1>9, <1>10, <1>11 DEF Accounted

-----------------------------------------------------------------------------
(* What the subscribers hold *)

\* An order is hit: a trade, and what is left of the order.
LEMMA FillMirrored ==
  ASSUME NEW b, NEW ord, NEW h, NEW n \in Nat, Accounted(b, ord, h, n),
         NEW u, Logged(u), Mirrored(b, u),
         NEW c, NEW o \in OrderBlocks, NEW fill, Filled(b, c, o, fill),
         NEW t, t.type = "TRADE", t.moid = Null,
         NEW x, x.moid = b.orders[o].moid,
         IF fill = b.orders[o].qty THEN x.type = "CANCEL"
         ELSE x.type = "MODIFY" /\ Entry(x) = Entry(c.orders[o]),
         NEW v, v = Append(u, t), NEW w, w = Append(v, x)
  PROVE  Mirrored(c, w)
<1> DEFINE E == {Entry(b.orders[k]) : k \in {k \in OrderBlocks : Rests(b, k)}}
           F == {Entry(c.orders[k]) : k \in {k \in OrderBlocks : Rests(c, k)}}
           X == IF x.type \in {"ADD", "MODIFY"} THEN {Entry(x)} ELSE {}
<1>0. /\ Rests(b, o)
      /\ \A k \in OrderBlocks :
           /\ c.orders[k].moid = b.orders[k].moid
           /\ c.orders[k].side = b.orders[k].side /\ c.orders[k].price = b.orders[k].price
           /\ k # o => c.orders[k].qty = b.orders[k].qty
           /\ Rests(c, k) <=> (Rests(b, k) /\ ~(k = o /\ fill = b.orders[o].qty))
  BY DEF Filled
<1>1. /\ \A k \in OrderBlocks : Rests(b, k) => b.orders[k].moid # Null
      /\ \A j, k \in OrderBlocks :
           b.orders[j].moid = b.orders[k].moid => j = k \/ b.orders[j].moid = Null
  BY DEF Accounted
<1>2. ReplicaOf(u) = E
  BY DEF Mirrored
<1>3. Logged(v)
  BY Appended
<1>4. ReplicaOf(v) = {e \in ReplicaOf(u) : e.moid # Null}
  <2>1. Applied(u, t, v)
    BY ReplicaAppended
  <2> QED BY <2>1 DEF Applied
<1>5. ReplicaOf(w) = {e \in ReplicaOf(v) : e.moid # x.moid} \cup X
  <2>1. Applied(v, x, w)
    BY <1>3, ReplicaAppended
  <2> QED BY <2>1 DEF Applied
<1>6. \A k : Entry(b.orders[k]).moid = b.orders[k].moid
  BY DEF Entry
<1>7. \A k \in OrderBlocks : k # o => Entry(c.orders[k]) = Entry(b.orders[k])
  BY <1>0 DEF Entry
<1>8. X = IF fill = b.orders[o].qty THEN {} ELSE {Entry(c.orders[o])}
  OBVIOUS
<1> HIDE DEF X
<1>9. ASSUME NEW e \in ReplicaOf(w) PROVE e \in F
  <2>1. CASE e \in X
    <3>1. fill # b.orders[o].qty /\ e = Entry(c.orders[o])
      BY <1>8, <2>1
    <3>2. Rests(c, o)
      BY <1>0, <3>1
    <3> QED BY <3>1, <3>2
  <2>2. CASE e \in ReplicaOf(v) /\ e.moid # x.moid
    <3>1. PICK k \in OrderBlocks : Rests(b, k) /\ e = Entry(b.orders[k])
      BY <1>2, <1>4, <2>2
    <3>2. k # o
      BY <1>6, <2>2, <3>1
    <3> QED BY <1>0, <1>7, <3>1, <3>2
  <2> QED BY <1>5, <2>1, <2>2
<1>10. ASSUME NEW k \in OrderBlocks, Rests(c, k) PROVE Entry(c.orders[k]) \in ReplicaOf(w)
  <2>1. CASE k = o
    <3>1. fill # b.orders[o].qty
      BY <1>0, <1>10, <2>1
    <3> QED BY <1>5, <1>8, <2>1, <3>1
  <2>2. CASE k # o
    <3>1. Rests(b, k) /\ Entry(b.orders[k]) \in E
      BY <1>0, <1>10
    <3>2. b.orders[k].moid # Null /\ b.orders[k].moid # x.moid
      BY <1>1, <2>2, <3>1
    <3> QED BY <1>2, <1>4, <1>5, <1>6, <1>7, <2>2, <3>1, <3>2
  <2> QED BY <2>1, <2>2
<1>11. ReplicaOf(w) = F
  BY <1>9, <1>10
<1> QED
  BY <1>11 DEF Mirrored

\* An order is added.
LEMMA RestMirrored ==
  ASSUME NEW b, NEW ord, NEW h, NEW n \in Nat, Accounted(b, ord, h, n),
         ord.moid # Null, NEW u, Logged(u), Mirrored(b, u),
         NEW c, NEW o, Rested(b, c, o, ord),
         NEW x, x.type = "ADD", x.moid = ord.moid, Entry(x) = Entry(c.orders[o]),
         NEW w, w = Append(u, x)
  PROVE  Mirrored(c, w)
<1> DEFINE E == {Entry(b.orders[k]) : k \in {k \in OrderBlocks : Rests(b, k)}}
           F == {Entry(c.orders[k]) : k \in {k \in OrderBlocks : Rests(c, k)}}
<1>0. /\ o \in OrderBlocks /\ ~Rests(b, o)
      /\ \A k \in OrderBlocks :
           /\ k # o => /\ c.orders[k].moid = b.orders[k].moid
                       /\ c.orders[k].side = b.orders[k].side
                       /\ c.orders[k].price = b.orders[k].price
                       /\ c.orders[k].qty = b.orders[k].qty
           /\ Rests(c, k) <=> (Rests(b, k) \/ k = o)
  BY DEF Rested
<1>1. \A k \in OrderBlocks : Rests(b, k) => b.orders[k].moid # ord.moid
  BY DEF Accounted
<1>2. ReplicaOf(u) = E
  BY DEF Mirrored
<1>3. ReplicaOf(w) = {e \in ReplicaOf(u) : e.moid # x.moid} \cup {Entry(x)}
  <2>1. Applied(u, x, w)
    BY ReplicaAppended
  <2> QED BY <2>1 DEF Applied
<1>4. \A k : Entry(b.orders[k]).moid = b.orders[k].moid
  BY DEF Entry
<1>5. \A k \in OrderBlocks : k # o => Entry(c.orders[k]) = Entry(b.orders[k])
  BY <1>0 DEF Entry
<1>6. ASSUME NEW e \in ReplicaOf(w) PROVE e \in F
  <2>1. CASE e = Entry(x)
    <3>1. Rests(c, o)
      BY <1>0
    <3> QED BY <1>0, <2>1, <3>1
  <2>2. CASE e \in E
    <3>1. PICK k \in OrderBlocks : Rests(b, k) /\ e = Entry(b.orders[k])
      BY <2>2
    <3> QED BY <1>0, <1>5, <3>1
  <2> QED BY <1>2, <1>3, <2>1, <2>2
<1>7. ASSUME NEW k \in OrderBlocks, Rests(c, k) PROVE Entry(c.orders[k]) \in ReplicaOf(w)
  <2>1. CASE k = o
    BY <1>3, <2>1
  <2>2. CASE k # o
    <3>1. Rests(b, k) /\ Entry(b.orders[k]) \in E
      BY <1>0, <1>7, <2>2
    <3> QED BY <1>1, <1>2, <1>3, <1>4, <1>5, <2>2, <3>1
  <2> QED BY <2>1, <2>2
<1>8. ReplicaOf(w) = F
  BY <1>6, <1>7
<1> QED
  BY <1>8 DEF Mirrored

LEMMA AddsUpAppended ==
  ASSUME NEW h, Logged(h), NEW sub, AddsUp(h, sub), NEW r, NEW c, c = Append(h, r),
         r.moid \in DOMAIN sub /\ r.type = "FILLED"
           => \E q : Says(h, r.moid, q) /\ r.leaves = q - r.exec
  PROVE  AddsUp(c, sub)
<1> SUFFICES ASSUME NEW m \in DOMAIN sub
             PROVE  Acked(c, m, sub[m].qty) /\ Sums(c, m)
  BY DEF AddsUp
<1>1. Acked(h, m, sub[m].qty) /\ Sums(h, m)
  BY DEF AddsUp
<1>2. Acked(c, m, sub[m].qty)
  BY <1>1, AckedAppended
<1>3. Sums(c, m)
  <2>1. r.moid = m /\ r.type = "FILLED"
          => \E q : Says(h, m, q) /\ r.leaves = q - r.exec
    OBVIOUS
  <2> QED BY <1>1, <2>1, SumsAppended
<1> QED BY <1>2, <1>3

LEMMA AddsUpAccepted ==
  ASSUME NEW h, Logged(h), NEW sub, Logged(sub), AddsUp(h, sub),
         \A k \in DOMAIN h : h[k].moid \in {Null} \cup (1 .. Len(sub)),
         NEW r, r.type = "ACCEPTED", r.moid = Len(sub) + 1,
         NEW x, r.leaves = x.qty,
         NEW c, c = Append(h, r), NEW d, d = Append(sub, x)
  PROVE  AddsUp(c, d)
<1>1. /\ Len(sub) \in Nat /\ DOMAIN sub = 1 .. Len(sub) /\ DOMAIN d = 1 .. (Len(sub) + 1)
      /\ d[Len(sub) + 1] = x /\ \A k \in 1 .. Len(sub) : d[k] = sub[k]
  <2>1. Longer(sub, x, d)
    BY Appended
  <2> QED BY <2>1 DEF Longer
<1>2. AddsUp(c, sub)
  BY AddsUpAppended
<1>3. \A k \in DOMAIN h : h[k].moid # Len(sub) + 1
  BY <1>1 DEF Null
<1>4. Acked(c, Len(sub) + 1, x.qty)
  BY <1>3, AckedAppended
<1>5. Sums(c, Len(sub) + 1)
  <2>1. Sums(h, Len(sub) + 1)
    BY <1>3 DEF Sums
  <2> QED BY <2>1, SumsAppended
<1> SUFFICES ASSUME NEW m \in DOMAIN d
             PROVE  Acked(c, m, d[m].qty) /\ Sums(c, m)
  BY DEF AddsUp
<1>6. CASE m = Len(sub) + 1
  BY <1>1, <1>4, <1>5, <1>6
<1>7. CASE m # Len(sub) + 1
  <2>1. m \in DOMAIN sub /\ d[m] = sub[m]
    BY <1>1, <1>7
  <2> QED BY <1>2, <2>1 DEF AddsUp
<1> QED BY <1>6, <1>7

-----------------------------------------------------------------------------
(* The steps *)

LEMMA InitHolds == Init => IInv
<1> SUFFICES ASSUME Init PROVE IInv
  OBVIOUS
<1>0. NumOrders \in Nat \ {0} /\ NumLevels \in Nat \ {0}
  BY MEOrderBookAssumption
<1>1. /\ book = NewBook /\ m_next_market_order_id = 1 /\ incoming = NoOrder
      /\ responses = <<>> /\ updates = <<>> /\ submitted = <<>>
  BY DEF Init
<1>2. Opened(NewBook) = {Null}
  BY DEF Opened, NewBook, LevelBlocks, EmptyLevel
<1>3. Shaped(NewBook)
  <2>1. EmptyOrder \in Orders
    BY DEF EmptyOrder, Orders, Sides, OrderRefs, Null
  <2>2. EmptyLevel \in LevelsOn({Null})
    BY DEF EmptyLevel, LevelsOn, Sides, OrderRefs, Null
  <2>3. NewPool(NumOrders) \in Pools(NumOrders) /\ NewPool(NumLevels) \in Pools(NumLevels)
    BY <1>0 DEF NewPool, Pools
  <2>4. Null \in OrderRefs
    BY DEF OrderRefs
  <2> QED
    BY <1>2, <2>1, <2>2, <2>3, <2>4 DEF Shaped, BooksOn, NewBook, OrderBlocks, LevelBlocks,
       Slots
<1>4. Logged(<<>>) /\ Len(<<>>) = 0 /\ DOMAIN <<>> = {}
  <2>1. <<>> \in Seq({})
    OBVIOUS
  <2> QED BY <2>1 DEF Logged
<1>5. Typed
  BY <1>1, <1>3, <1>4 DEF Typed
<1>6. AddsUp(responses, submitted)
  BY <1>1, <1>4 DEF AddsUp
<1>7. \A o \in OrderBlocks : ~Rests(NewBook, o) /\ NewBook.orders[o] = EmptyOrder
  BY DEF Rests, NewBook, NewPool, OrderBlocks
<1>8. PoolsReady(NewBook)
  BY <1>0 DEF PoolsReady, NewBook, NewPool
<1>9. Sequenced(NewBook)
  <2>1. /\ \A l \in LevelBlocks : ~InUse(NewBook, l)
        /\ \A i \in Slots : NewBook.levelAt[i] = Null
    BY DEF InUse, NewBook, NewPool, LevelBlocks, Slots
  <2> QED BY <1>7, <2>1 DEF Sequenced, Ringed, Charted
<1>10. Accounted(NewBook, NoOrder, <<>>, 0)
  <2>1. \A o \in OrderBlocks : NewBook.orders[o].moid = Null /\ NewBook.orders[o].qty = 0
    BY <1>7 DEF EmptyOrder
  <2> QED
    BY <1>4, <1>7, <2>1 DEF Accounted
<1>11. Mirrored(NewBook, <<>>)
  BY <1>4, <1>7 DEF Mirrored, ReplicaOf
<1> QED
  BY <1>1, <1>4, <1>5, <1>6, <1>8, <1>9, <1>10, <1>11 DEF IInv, Sound

LEMMA AcceptStep ==
  ASSUME IInv, NEW client \in Clients, NEW coid \in OrderIds, NEW side \in Sides,
         NEW price \in Prices, NEW qty \in Qtys, Accept(client, coid, side, price, qty)
  PROVE  IInv'
<1> DEFINE n   == Len(submitted)
           ord == [client |-> client, coid |-> coid, side |-> side, price |-> price,
                   moid |-> m_next_market_order_id, leaves |-> qty]
           r   == Response("ACCEPTED", ord, price, 0, qty)
           x   == [client |-> client, coid |-> coid, side |-> side,
                   price |-> price, qty |-> qty]
<1>1. /\ Running /\ incoming = NoOrder
      /\ m_next_market_order_id' = m_next_market_order_id + 1
      /\ incoming' = ord /\ responses' = Append(responses, r)
      /\ submitted' = Append(submitted, x) /\ book' = book /\ updates' = updates
  BY DEF Accept
<1>2. /\ Shaped(book) /\ Logged(responses) /\ Logged(updates) /\ Logged(submitted)
      /\ m_next_market_order_id = n + 1
      /\ AddsUp(responses, submitted)
  BY DEF IInv, Typed
<1>3. /\ PoolsReady(book) /\ Sequenced(book) /\ Accounted(book, NoOrder, responses, n)
      /\ Mirrored(book, updates)
  BY <1>1 DEF IInv, Sound
<1>4. /\ r.moid = n + 1 /\ r.type = "ACCEPTED" /\ r.leaves = qty /\ x.qty = qty
      /\ ord.moid = n + 1 /\ ord.leaves = qty
  BY <1>2 DEF Response
<1>5. /\ Logged(responses') /\ Logged(submitted') /\ n \in Nat /\ Len(submitted') = n + 1
  <2>1. Logged(responses')
    BY <1>1, <1>2, Appended
  <2>2. Logged(submitted') /\ Longer(submitted, x, submitted')
    BY <1>1, <1>2, Appended
  <2> QED BY <2>1, <2>2 DEF Longer
<1>6. ord \in Incomings
  <2>1. price \in Nat /\ qty \in Nat
    BY MatchingEngineAssumption
  <2> QED BY <1>2, <1>5, <2>1 DEF Incomings
<1>7. \A k \in DOMAIN responses : responses[k].moid \in {Null} \cup (1 .. n)
  BY <1>3 DEF Accounted
<1> HIDE DEF ord, r, x
<1>8. AddsUp(responses', submitted')
  BY <1>1, <1>2, <1>4, <1>7, AddsUpAccepted
<1>9. Accounted(book', incoming', responses', n + 1)
  BY <1>1, <1>2, <1>3, <1>4, <1>5, AcceptAccounted
<1>10. Typed'
  BY <1>1, <1>2, <1>4, <1>5, <1>6 DEF Typed
<1>11. Sound(book', incoming', responses', updates', Len(submitted'))
  BY <1>1, <1>3, <1>5, <1>9 DEF Sound
<1> QED
  BY <1>8, <1>10, <1>11 DEF IInv

\* The order that checkForMatch looks at is a block of the pool, perhaps a free
\* one, and what is taken of it is no more than it has.
LEMMA MatchFacts ==
  ASSUME Typed, Match
  PROVE  LET o    == BestOrder
             ord  == book.orders[o]
             fill == FillQty(ord)
         IN  /\ o \in OrderBlocks /\ ord.qty \in Nat
             /\ fill \in Nat /\ fill <= ord.qty /\ fill <= incoming.leaves
             /\ incoming \in Incomings /\ incoming.leaves > 0
             /\ incoming.moid = Len(submitted)
<1> DEFINE o   == BestOrder
           l   == book.best[Opposite(incoming.side)]
           ord == book.orders[o]
<1>1. /\ incoming \in Incomings /\ incoming.moid = Len(submitted)
      /\ incoming.leaves > 0 /\ l # Null
  BY DEF Typed, Match, Crosses
<1>2. Opposite(incoming.side) \in Sides /\ incoming.leaves \in Nat
  BY <1>1 DEF Incomings, Opposite, Sides
<1>3. l \in Opened(book)
  BY <1>2 DEF Typed, Shaped, BooksOn
<1>4. l \in LevelBlocks /\ book.levels[l].first # Null
  BY <1>1, <1>3 DEF Opened
<1>5. o = book.levels[l].first
  BY DEF BestOrder
<1>6. o \in OrderBlocks
  BY <1>4, <1>5 DEF Typed, Shaped, BooksOn, LevelsOn, OrderRefs, OrderBlocks
<1> HIDE DEF o, l
<1>7. ord.qty \in Nat
  BY <1>6 DEF Typed, Shaped, BooksOn, Orders
<1> HIDE DEF ord
<1>8. /\ FillQty(ord) \in Nat /\ FillQty(ord) <= ord.qty
      /\ FillQty(ord) <= incoming.leaves
  BY <1>2, <1>7 DEF FillQty
<1> QED
  BY <1>1, <1>6, <1>7, <1>8 DEF o, ord

LEMMA MatchStep ==
  ASSUME IInv, Match
  PROVE  IInv'
<1> DEFINE n    == Len(submitted)
           o    == BestOrder
           ord  == book.orders[o]
           fill == FillQty(ord)
           left == [incoming EXCEPT !.leaves = @ - fill]
           r    == Response("FILLED", incoming, ord.price, fill, incoming.leaves - fill)
           s    == Response("FILLED", ord, ord.price, fill, ord.qty - fill)
           t    == Update("TRADE", Null, incoming.side, ord.price, fill)
           x    == IF fill = ord.qty
                     THEN Update("CANCEL", ord.moid, ord.side, ord.price, ord.qty)
                     ELSE Update("MODIFY", ord.moid, ord.side, ord.price, ord.qty - fill)
           g    == Append(responses, r)
           v    == Append(updates, t)
<1>1. /\ Running /\ incoming # NoOrder
      /\ incoming' = left
      /\ responses' = responses \o <<r, s>> /\ updates' = updates \o <<t, x>>
      /\ book' = LET hit == Hit(book, o, ord.qty - fill)
                 IN  IF fill = ord.qty THEN RemoveOrder(hit, o) ELSE hit
      /\ m_next_market_order_id' = m_next_market_order_id /\ submitted' = submitted
  BY DEF Match, FillResponses, FillUpdates, Hit
<1>2. /\ Typed /\ Shaped(book) /\ Logged(responses) /\ Logged(updates) /\ Logged(submitted)
      /\ m_next_market_order_id = n + 1
      /\ AddsUp(responses, submitted)
      /\ PoolsReady(book) /\ Sequenced(book) /\ Accounted(book, incoming, responses, n)
      /\ Mirrored(book, updates)
  BY <1>1 DEF IInv, Typed, Sound
<1>3. /\ o \in OrderBlocks /\ ord.qty \in Nat
      /\ fill \in Nat /\ fill <= ord.qty /\ fill <= incoming.leaves
      /\ incoming \in Incomings /\ incoming.leaves > 0 /\ incoming.moid = n
  BY <1>2, MatchFacts
<1>4. /\ left \in Incomings /\ left # NoOrder
      /\ left.moid = incoming.moid /\ left.leaves = incoming.leaves - fill
  <2>1. /\ left \in Incomings
        /\ left.moid = incoming.moid /\ left.leaves = incoming.leaves - fill
    <3> HIDE DEF fill, o
    <3> QED BY <1>3 DEF Incomings
  <2>2. left.moid \in Nat
    BY <2>1 DEF Incomings
  <2> QED
    BY <2>1, <2>2 DEF NoOrder, Null
<1>5. /\ r.type = "FILLED" /\ r.moid = incoming.moid /\ r.exec = fill
      /\ r.leaves = incoming.leaves - fill
      /\ s.type = "FILLED" /\ s.moid = ord.moid /\ s.exec = fill /\ s.leaves = ord.qty - fill
  BY DEF Response
<1>6. /\ t.type = "TRADE" /\ t.moid = Null /\ x.moid = ord.moid
      /\ IF fill = ord.qty THEN x.type = "CANCEL" ELSE x.type = "MODIFY"
      /\ x.side = ord.side /\ x.price = ord.price
      /\ fill # ord.qty => x.qty = ord.qty - fill
  BY DEF Update
<1> HIDE DEF o, ord, fill, left, r, s, t, x
<1>7. /\ responses' = Append(g, s) /\ Logged(g) /\ Logged(responses')
      /\ updates' = Append(v, x) /\ Logged(v) /\ Logged(updates')
  <2>1. responses' = Append(g, s) /\ updates' = Append(v, x)
    BY <1>1, <1>2, AppendedTwo
  <2>2. Logged(g) /\ Logged(v)
    BY <1>2, Appended
  <2> HIDE DEF g, v
  <2> QED BY <2>1, <2>2, Appended
<1>8. n \in Nat /\ DOMAIN submitted = 1 .. n
  <2>1. Longer(submitted, 0, Append(submitted, 0))
    BY <1>2, Appended
  <2> QED BY <2>1 DEF Longer
<1>9. /\ Says(responses, incoming.moid, incoming.leaves)
      /\ ord.moid # Null => ord.moid # incoming.moid /\ Says(responses, ord.moid, ord.qty)
      /\ ~Rests(book, o) => ord.qty = 0
  BY <1>1, <1>2, <1>3 DEF Accounted, ord
<1>10. AddsUp(responses', submitted')
  <2>1. AddsUp(g, submitted)
    <3>1. Says(responses, r.moid, incoming.leaves) /\ r.leaves = incoming.leaves - r.exec
      BY <1>5, <1>9
    <3> QED BY <1>2, <3>1, AddsUpAppended
  <2>2. s.moid \in DOMAIN submitted => Says(g, s.moid, ord.qty) /\ s.leaves = ord.qty - s.exec
    <3> SUFFICES ASSUME s.moid \in DOMAIN submitted
                 PROVE  Says(g, s.moid, ord.qty)
      BY <1>5
    <3>1. s.moid # Null
      BY <1>8 DEF Null
    <3>2. Says(responses, s.moid, ord.qty) /\ r.moid # s.moid
      BY <1>5, <1>9, <3>1
    <3>3. SaysMore(responses, r, g)
      BY <1>2, SaysAppended
    <3> QED BY <3>2, <3>3 DEF SaysMore
  <2> HIDE DEF g
  <2>3. AddsUp(Append(g, s), submitted)
    BY <1>7, <2>1, <2>2, AddsUpAppended
  <2> QED BY <1>1, <1>7, <2>3
<1>11. /\ Shaped(book')
       /\ book'.status = "running" =>
            PoolsReady(book') /\ Sequenced(book') /\ Filled(book, book', o, fill)
  <2>1. book.status = "running"
    BY <1>1 DEF Running
  <2>2. book' = LET hit == Hit(book, o, book.orders[o].qty - fill)
                IN  IF fill = book.orders[o].qty THEN RemoveOrder(hit, o) ELSE hit
    BY <1>1 DEF ord
  <2>3. fill <= book.orders[o].qty /\ (~Rests(book, o) => book.orders[o].qty = 0)
    BY <1>3, <1>9 DEF ord
  <2>4. /\ Shaped(book')
        /\ (/\ book'.status = "running" /\ PoolsReady(book) /\ Sequenced(book)
            /\ ~Rests(book, o) => book.orders[o].qty = 0)
           => PoolsReady(book') /\ Sequenced(book') /\ Filled(book, book', o, fill)
    BY <1>2, <1>3, <2>1, <2>2, <2>3, FilledBook
  <2> QED
    BY <1>2, <2>3, <2>4
<1>12. Typed'
  BY <1>1, <1>2, <1>3, <1>4, <1>7, <1>11 DEF Typed
<1>13. ASSUME book'.status = "running"
       PROVE  Sound(book', incoming', responses', updates', Len(submitted'))
  <2>1. PoolsReady(book') /\ Sequenced(book') /\ Filled(book, book', o, fill)
    BY <1>11, <1>13
  <2>2. Accounted(book', left, responses', n)
    <3>1. incoming.moid \in 1 .. n
      <4>1. incoming.moid # Null /\ incoming.moid \in Nat
        BY <1>3 DEF Incomings, Null
      <4>2. PICK k \in DOMAIN responses : responses[k].moid = incoming.moid
        BY <1>9 DEF Says
      <4> QED BY <1>2, <4>1, <4>2 DEF Accounted
    <3>2. /\ book.orders[o].qty \in Nat /\ s.moid = book.orders[o].moid
          /\ s.leaves = book.orders[o].qty - fill
      BY <1>3, <1>5 DEF ord
    <3> HIDE DEF g
    <3>3. g = Append(responses, r) /\ r.leaves = left.leaves
      BY <1>4, <1>5 DEF g
    <3> QED
      BY <1>1, <1>2, <1>3, <1>4, <1>5, <1>7, <1>8, <2>1, <3>1, <3>2, <3>3, FillAccounted
  <2>3. Mirrored(book', updates')
    <3>1. /\ book'.orders[o].moid = ord.moid /\ book'.orders[o].side = ord.side
          /\ book'.orders[o].price = ord.price /\ book'.orders[o].qty = ord.qty - fill
      BY <1>3, <2>1 DEF Filled, ord
    <3>2. fill # ord.qty => Entry(x) = Entry(book'.orders[o])
      BY <1>6, <3>1 DEF Entry
    <3>3. /\ x.moid = book.orders[o].moid
          /\ IF fill = book.orders[o].qty THEN x.type = "CANCEL"
             ELSE x.type = "MODIFY" /\ Entry(x) = Entry(book'.orders[o])
      BY <1>6, <3>2 DEF ord
    <3> HIDE DEF v
    <3>4. v = Append(updates, t)
      BY DEF v
    <3> QED
      BY <1>2, <1>3, <1>6, <1>7, <1>8, <2>1, <3>3, <3>4, FillMirrored
  <2> QED
    BY <1>1, <2>1, <2>2, <2>3 DEF Sound
<1> QED
  BY <1>10, <1>12, <1>13 DEF IInv, Running

\* The priority after the last order of the level.
LEMMA PriorityIsNatural ==
  ASSUME NEW b, Shaped(b), Sequenced(b), NEW price \in Nat
  PROVE  NextPriority(b, price) \in Nat
<1> DEFINE l     == LevelOf(b, price)
           first == b.levels[l].first
           last  == b.orders[first].prev
<1>1. CASE l = Null
  BY <1>1 DEF NextPriority
<1>2. CASE l # Null
  <2>1. price % NumPriceLevels \in Slots
    BY SlotInTable
  <2>2. InUse(b, l) /\ l \in LevelBlocks
    BY <1>2, <2>1 DEF Sequenced, Charted, LevelOf, InUse
  <2>3. Rests(b, first)
    BY <2>2 DEF Sequenced, Ringed
  <2>4. last \in OrderBlocks
    BY <2>3 DEF Sequenced, Ringed, Neighbours, Rests
  <2>5. b.orders[last].priority \in Nat
    <3> HIDE DEF last
    <3> QED BY <2>4 DEF Shaped, BooksOn, Orders
  <2> QED
    BY <1>2, <2>5 DEF NextPriority
<1> QED BY <1>1, <1>2

LEMMA RestStep ==
  ASSUME IInv, Rest
  PROVE  IInv'
<1> DEFINE n == Len(submitted)
<1>1. /\ Running /\ book.status = "running" /\ incoming # NoOrder
      /\ incoming' = NoOrder /\ responses' = responses
      /\ m_next_market_order_id' = m_next_market_order_id /\ submitted' = submitted
  BY DEF Rest, Running
<1>2. /\ Shaped(book) /\ Logged(responses) /\ Logged(updates) /\ Logged(submitted)
      /\ m_next_market_order_id = n + 1
      /\ incoming \in Incomings /\ incoming.moid = n
      /\ AddsUp(responses, submitted)
      /\ PoolsReady(book) /\ Sequenced(book) /\ Accounted(book, incoming, responses, n)
      /\ Mirrored(book, updates)
  BY <1>1 DEF IInv, Typed, Sound
<1>3. AddsUp(responses', submitted')
  BY <1>1, <1>2
<1>4. incoming.leaves \in Nat /\ incoming.moid \in Nat /\ incoming.price \in Nat /\ n \in Nat
  BY <1>2 DEF Incomings
<1>5. CASE incoming.leaves = 0
  <2>1. book' = book /\ updates' = updates
    BY <1>5 DEF Rest
  <2>2. Typed'
    BY <1>1, <1>2, <2>1 DEF Typed
  <2>3. Accounted(book, NoOrder, responses, n)
    BY <1>1, <1>2, <1>4, <1>5, DoneAccounted
  <2>4. Sound(book', incoming', responses', updates', Len(submitted'))
    BY <1>1, <1>2, <2>1, <2>3 DEF Sound
  <2> QED
    BY <1>3, <2>2, <2>4 DEF IInv
<1>6. CASE incoming.leaves # 0
  <2> DEFINE o      == book.orderPool.next
             pool   == Allocate(book.orderPool)
             ord    == RestingOrder(NextPriority(book, incoming.price))
             stored == Stored(book, o, ord, pool)
             added  == AddOrder(stored, o)
             x      == Update("ADD", incoming.moid, incoming.side, incoming.price,
                              incoming.leaves)
  <2>1. /\ book' = IF pool.failed THEN Fail(stored, "poolAssert") ELSE added
        /\ updates' = IF book'.status # "running" THEN updates ELSE Append(updates, x)
    BY <1>6 DEF Rest, Stored
  <2>2. ord \in Orders
    <3>1. NextPriority(book, incoming.price) \in Nat
      BY <1>2, <1>4, PriorityIsNatural
    <3>2. /\ incoming.coid \in OrderIds /\ incoming.side \in Sides
          /\ TickerId \in Clients \cup {TickerId, Null} /\ Null \in OrderRefs
      BY <1>2 DEF Incomings, OrderRefs
    <3> QED
      BY <1>4, <3>1, <3>2, MEOrderBookAssumption DEF RestingOrder, Orders
  <2>3. /\ ord.moid = incoming.moid /\ ord.side = incoming.side
        /\ ord.price = incoming.price /\ ord.qty = incoming.leaves
        /\ ord.priority = NextPriority(book, ord.price)
    BY DEF RestingOrder
  <2>4. Younger(book, ord)
    <3>1. ASSUME NEW k \in OrderBlocks, Rests(book, k)
          PROVE  book.orders[k].moid < ord.moid
      <4>1. /\ book.orders[k].moid \in {Null} \cup (1 .. n)
            /\ book.orders[k].moid # Null /\ book.orders[k].moid # incoming.moid
        BY <1>2, <3>1 DEF Accounted
      <4> QED BY <1>2, <1>4, <2>3, <4>1
    <3> HIDE DEF ord
    <3> QED BY <1>4, <2>2, <2>3, <3>1 DEF Younger
  <2>5. o \in OrderBlocks /\ pool \in Pools(NumOrders)
    <3>1. NumOrders \in Nat \ {0} /\ book.orderPool \in Pools(NumOrders) /\ o \in OrderBlocks
      BY <1>2, MEOrderBookAssumption DEF Shaped, BooksOn, Pools, OrderBlocks
    <3>2. ~book.orderPool.failed /\ book.orderPool.free[book.orderPool.next]
      BY <1>2 DEF PoolsReady
    <3> QED BY <3>1, <3>2, AllocateSpec
  <2> HIDE DEF ord, pool, x
  <2>6. Shaped(stored) /\ stored.status = "running"
    <3>1. Shaped(book) /\ o \in OrderBlocks /\ ord \in Orders /\ pool \in Pools(NumOrders)
      BY <1>2, <2>2, <2>5
    <3> HIDE DEF o
    <3>2. Shaped(stored) /\ stored.status = book.status
      <4>1. HasStored(book, stored, o, ord, pool)
        BY <3>1, StoredSpec DEF stored
      <4> HIDE DEF stored
      <4> QED BY <4>1 DEF HasStored
    <3> QED BY <1>1, <3>2
  <2>7. ASSUME ~pool.failed
        PROVE  /\ Shaped(added)
               /\ added.status = "running" =>
                    PoolsReady(added) /\ Sequenced(added) /\ Rested(book, added, o, incoming)
    <3>1. Took(book, stored, o, ord)
      BY <1>2, <2>2, <2>7, TookBlock DEF pool
    <3> HIDE DEF stored, added, o
    <3>2. PoolsReady(stored)
      BY <3>1 DEF Took
    <3>3. /\ Shaped(added)
          /\ added.status = "running" => Added(stored, added, o)
      <4>1. added = AddOrder(stored, o)
        BY DEF added
      <4> QED
        BY <2>5, <2>6, <3>2, <4>1, AddOrderSpec DEF Added
    <3>4. ASSUME added.status = "running"
          PROVE  PoolsReady(added) /\ Sequenced(added) /\ Rested(book, added, o, incoming)
      <4>1. /\ Sequenced(added) /\ PoolsReady(added) /\ o \in OrderBlocks /\ ~Rests(book, o)
            /\ \A k \in OrderBlocks :
                 /\ Rests(added, k) <=> (Rests(book, k) \/ k = o)
                 /\ Content(added.orders[k]) = IF k = o THEN Content(ord)
                                               ELSE Content(book.orders[k])
        BY <1>2, <2>4, <3>1, <3>3, <3>4, RestedBook
      <4>2. /\ added.orders[o].moid = ord.moid /\ added.orders[o].qty = ord.qty
            /\ added.orders[o].side = ord.side /\ added.orders[o].price = ord.price
        BY <4>1 DEF Content
      <4>3. \A k \in OrderBlocks :
              k # o => /\ added.orders[k].moid = book.orders[k].moid
                       /\ added.orders[k].side = book.orders[k].side
                       /\ added.orders[k].price = book.orders[k].price
                       /\ added.orders[k].qty = book.orders[k].qty
        BY <4>1 DEF Content
      <4> QED
        BY <2>3, <4>1, <4>2, <4>3 DEF Rested
    <3> QED BY <3>3, <3>4
  <2> HIDE DEF stored, added, o
  <2>8. Shaped(book') /\ (book'.status = "running" => ~pool.failed /\ book' = added)
    <3>1. CASE pool.failed
      <4>1. Relinked(stored, book') /\ book'.status = "poolAssert"
        BY <2>1, <2>6, <3>1, FailRelinked DEF Ends
      <4> QED BY <4>1 DEF Relinked
    <3>2. CASE ~pool.failed
      BY <2>1, <2>7, <3>2
    <3> QED BY <3>1, <3>2
  <2>9. Logged(updates')
    <3>1. Logged(Append(updates, x))
      BY <1>2, Appended
    <3> QED BY <1>2, <2>1, <3>1
  <2>10. Typed'
    BY <1>1, <1>2, <2>8, <2>9 DEF Typed
  <2>11. ASSUME book'.status = "running"
         PROVE  Sound(book', incoming', responses', updates', Len(submitted'))
    <3>1. PoolsReady(book') /\ Sequenced(book') /\ Rested(book, book', o, incoming)
      BY <2>7, <2>8, <2>11
    <3>2. incoming.moid \in 1 .. n
      <4>1. incoming.moid # Null
        BY <1>4 DEF Null
      <4>2. PICK k \in DOMAIN responses : responses[k].moid = incoming.moid
        BY <1>1, <1>2 DEF Accounted, Says
      <4> QED BY <1>2, <4>1, <4>2 DEF Accounted
    <3>3. Accounted(book', NoOrder, responses, n)
      BY <1>1, <1>2, <1>4, <1>6, <3>1, <3>2, RestAccounted
    <3>4. Mirrored(book', updates')
      <4>1. /\ x.type = "ADD" /\ x.moid = incoming.moid /\ x.side = incoming.side
            /\ x.price = incoming.price /\ x.qty = incoming.leaves
        BY DEF Update, x
      <4>2. Entry(x) = Entry(book'.orders[o])
        BY <3>1, <4>1 DEF Entry, Rested
      <4>3. updates' = Append(updates, x)
        BY <2>1, <2>11
      <4>4. incoming.moid # Null
        BY <1>4 DEF Null
      <4> QED
        BY <1>2, <1>4, <3>1, <4>1, <4>2, <4>3, <4>4, RestMirrored
    <3> QED
      BY <1>1, <3>1, <3>3, <3>4 DEF Sound
  <2> QED
    BY <1>3, <2>10, <2>11 DEF IInv, Running
<1> QED
  BY <1>5, <1>6

LEMMA CancelStep ==
  ASSUME IInv, NEW client \in Clients, NEW coid \in OrderIds, Cancel(client, coid)
  PROVE  IInv'
<1> DEFINE o       == book.orderOf[client][coid]
           ord     == book.orders[o]
           request == [client |-> client, coid |-> coid]
           removed == RemoveOrder(book, o)
           answer  == IF o = Null
                      THEN Response("CANCEL_REJECTED",
                             request @@ [moid |-> Null, side |-> Null],
                             Null, Null, Null)
                      ELSE Response("CANCELED",
                             request @@ [moid |-> ord.moid, side |-> ord.side],
                             ord.price, Null, ord.qty)
           x       == Update("CANCEL", ord.moid, ord.side, ord.price, 0)
           last    == IF o = Null THEN book ELSE removed
<1>1. /\ Running /\ book.status = "running"
      /\ m_next_market_order_id' = m_next_market_order_id /\ submitted' = submitted
      /\ incoming' = incoming
      /\ \/ /\ o # Null /\ removed.status # "running"
            /\ book' = removed /\ responses' = responses /\ updates' = updates
         \/ /\ responses' = Append(responses, answer)
            /\ updates' = IF o = Null THEN updates ELSE Append(updates, x)
            /\ book' = Fail(last, "badRequest")
  <2> HIDE DEF answer, removed, x, o
  <2> QED BY DEF Cancel, Running, answer, removed, x, o
<1>2. /\ Shaped(book) /\ Logged(responses) /\ Logged(updates) /\ Logged(submitted)
      /\ Typed /\ AddsUp(responses, submitted)
  BY DEF IInv, Typed
<1>3. answer.type # "FILLED"
  <2> HIDE DEF request, ord, o
  <2> QED BY DEF Response
<1>4. o \in OrderRefs /\ (o # Null => o \in OrderBlocks)
  BY <1>2 DEF Shaped, BooksOn, OrderRefs, OrderBlocks
<1> HIDE DEF answer, o, x
<1>5. o # Null => Shaped(removed)
  BY <1>1, <1>2, <1>4, RemoveOrderSpec
<1> HIDE DEF removed
<1>6. Shaped(last)
  BY <1>2, <1>5
<1> HIDE DEF last
<1>7. Shaped(book') /\ book'.status # "running"
  <2>1. CASE o # Null /\ removed.status # "running" /\ book' = removed
    BY <1>5, <2>1
  <2>2. CASE book' = Fail(last, "badRequest")
    <3>1. Relinked(last, book') /\ book'.status = "badRequest"
      BY <1>6, <2>2, FailRelinked DEF Ends
    <3> QED BY <3>1 DEF Relinked
  <2> QED BY <1>1, <2>1, <2>2
<1>8. /\ Logged(Append(responses, answer)) /\ Logged(Append(updates, x))
      /\ AddsUp(Append(responses, answer), submitted)
  BY <1>2, <1>3, Appended, AddsUpAppended
<1>9. Logged(responses') /\ Logged(updates') /\ AddsUp(responses', submitted')
  BY <1>1, <1>2, <1>8
<1>10. Typed'
  BY <1>1, <1>2, <1>7, <1>9 DEF Typed
<1> QED
  BY <1>7, <1>9, <1>10 DEF IInv, Running

\* IInv is inductive.
LEMMA StepHolds ==
  ASSUME IInv, [Next]_vars
  PROVE  IInv'
<1>1. ASSUME NEW c \in Clients, NEW i \in OrderIds, NEW s \in Sides, NEW p \in Prices,
             NEW q \in Qtys, Accept(c, i, s, p, q)
      PROVE  IInv'
  BY <1>1, AcceptStep
<1>2. CASE Match
  BY <1>2, MatchStep
<1>3. CASE Rest
  BY <1>3, RestStep
<1>4. ASSUME NEW c \in Clients, NEW i \in OrderIds, Cancel(c, i)
      PROVE  IInv'
  BY <1>4, CancelStep
<1>5. CASE UNCHANGED vars
  BY <1>5 DEF vars, IInv, Typed, Running
<1> QED
  BY <1>1, <1>2, <1>3, <1>4, <1>5 DEF Next

\* The inductive invariant of the matching engine holds: the shape of the book and
\* the histories, that the answers add up and, while the process runs, the
\* order of the rings, the account of every order and the subscriber's replica.
THEOREM Invariant == Spec => []IInv
<1>1. IInv /\ [Next]_vars => IInv'
  BY StepHolds
<1> QED
  BY InitHolds, <1>1, PTL DEF Spec

-----------------------------------------------------------------------------
(* The properties of the runs *)

\* Every pointer of the book leads to a block of its pool or is null, and what
\* is left of every order is a natural number.
THEOREM TypeCorrect == Spec => []TypeOK
<1>1. ASSUME Typed PROVE TypeOK
  <2>1. /\ book.orders \in [OrderBlocks -> Orders]
        /\ book.levels \in [LevelBlocks -> LevelsOn(Opened(book))]
        /\ book.best \in [Sides -> Opened(book)]
        /\ book.levelAt \in [Slots -> Opened(book)]
        /\ book.status \in {"running"} \cup Ends
    BY <1>1 DEF Typed, Shaped, BooksOn
  <2>2. Opened(book) \subseteq LevelRefs
    BY DEF Opened, LevelRefs, LevelBlocks
  <2>3. \A o \in OrderBlocks : /\ book.orders[o].qty \in Nat
                               /\ book.orders[o].prev \in OrderRefs
                               /\ book.orders[o].next \in OrderRefs
    BY <2>1 DEF Orders
  <2>4. \A l \in LevelBlocks : book.levels[l].prev \in LevelRefs /\ book.levels[l].next \in LevelRefs
    BY <2>1, <2>2 DEF LevelsOn
  <2>5. book.best \in [Sides -> LevelRefs] /\ book.levelAt \in [Slots -> LevelRefs]
    BY <2>1, <2>2
  <2>6. incoming = NoOrder \/ incoming.leaves \in Nat
    BY <1>1 DEF Typed, Incomings
  <2>7. m_next_market_order_id = Len(submitted) + 1
    BY <1>1 DEF Typed
  <2> QED
    BY <2>1, <2>3, <2>4, <2>5, <2>6, <2>7 DEF TypeOK, OrderBlocks, LevelBlocks, Slots, Ends
<1> QED
  BY <1>1, Invariant, PTL DEF IInv

\* A subscriber who applies every update published by the matching engine holds
\* exactly the orders at rest in the book, as long as the process runs.
THEOREM ReplicaHolds == Spec => []ReplicaIsBook
<1>1. ASSUME IInv PROVE ReplicaIsBook
  <2> SUFFICES ASSUME Running PROVE Replica = {Entry(ord) : ord \in Resting(book)}
    BY DEF ReplicaIsBook
  <2>1. Mirrored(book, updates) /\ Typed
    BY <1>1 DEF IInv, Sound
  <2>2. Replica = ReplicaOf(updates)
    BY DEF Replica, ReplicaOf
  <2>3. {Entry(ord) : ord \in Resting(book)}
          = {Entry(book.orders[o]) : o \in {k \in OrderBlocks : Rests(book, k)}}
    BY <2>1, RestingIs DEF Typed
  <2> QED
    BY <2>1, <2>2, <2>3 DEF Mirrored
<1> QED
  BY <1>1, Invariant, PTL

\* The responses sent about an order add up: acknowledged with its quantity first,
\* and every fill leaves what was left before it less what it executed.
THEOREM AnswersHold == Spec => []AnswersAddUp
<1>1. IInv => AnswersAddUp
  BY AddUpIs DEF IInv, Typed
<1> QED
  BY <1>1, Invariant, PTL

\* What the last response about an order says is left of it is what the engine
\* holds of it, resting or still being matched, as long as the process runs.
THEOREM LeavesHold == Spec => []LeavesAreOpen
<1>1. ASSUME IInv PROVE LeavesAreOpen
  <2> SUFFICES ASSUME Running, NEW m \in DOMAIN submitted
               PROVE  \E k \in Answers(m) : /\ \A j \in Answers(m) : j <= k
                                            /\ Open(m) = responses[k].leaves
    BY DEF LeavesAreOpen
  <2> DEFINE n    == Len(submitted)
             rest == {ord \in Resting(book) : ord.moid = m}
  <2>1. /\ Typed /\ Accounted(book, incoming, responses, n)
        /\ n \in Nat /\ DOMAIN submitted = 1 .. n
    <3>1. Longer(submitted, 0, Append(submitted, 0))
      BY <1>1, Appended DEF IInv, Typed
    <3> QED BY <1>1, <3>1 DEF IInv, Sound, Longer
  <2>2. m # Null
    BY <2>1 DEF Null
  <2>3. /\ \A o \in OrderBlocks :
             /\ ~Rests(book, o) => book.orders[o].qty = 0
             /\ book.orders[o].moid # Null =>
                  Says(responses, book.orders[o].moid, book.orders[o].qty)
        /\ \A x, y \in OrderBlocks :
             book.orders[x].moid = book.orders[y].moid => x = y \/ book.orders[x].moid = Null
        /\ incoming # NoOrder => Says(responses, incoming.moid, incoming.leaves)
        /\ (m # incoming.moid /\ \A o \in OrderBlocks : book.orders[o].moid # m)
             => Says(responses, m, 0)
    BY <2>1 DEF Accounted
  <2>4. rest = {book.orders[o] : o \in {k \in OrderBlocks : Rests(book, k)
                                                            /\ book.orders[k].moid = m}}
    BY <2>1, RestingIs DEF Typed
  <2>5. Says(responses, m, Open(m))
    <3>1. CASE incoming.moid = m
      <4>1. incoming # NoOrder
        BY <2>2, <3>1 DEF NoOrder
      <4> QED BY <2>3, <3>1, <4>1 DEF Open
    <3>2. CASE incoming.moid # m /\ \E o \in OrderBlocks : book.orders[o].moid = m
      <4>1. PICK o \in OrderBlocks : book.orders[o].moid = m
        BY <3>2
      <4>2. Says(responses, m, book.orders[o].qty)
        BY <2>2, <2>3, <4>1
      <4>3. \A k \in OrderBlocks : book.orders[k].moid = m => k = o
        BY <2>2, <2>3, <4>1
      <4>4. CASE Rests(book, o)
        <5>1. rest = {book.orders[o]}
          BY <2>4, <4>1, <4>3, <4>4
        <5>2. (CHOOSE ord \in rest : TRUE) = book.orders[o]
          BY <5>1
        <5>3. rest # {}
          BY <5>1
        <5> HIDE DEF rest
        <5>4. Open(m) = book.orders[o].qty
          BY <3>2, <5>2, <5>3 DEF Open, rest
        <5> QED BY <4>2, <5>4
      <4>5. CASE ~Rests(book, o)
        <5>1. rest = {}
          BY <2>4, <4>3, <4>5
        <5>2. Open(m) = 0
          BY <3>2, <5>1 DEF Open
        <5> QED BY <2>3, <4>2, <4>5, <5>2
      <4> QED BY <4>4, <4>5
    <3>3. CASE incoming.moid # m /\ \A o \in OrderBlocks : book.orders[o].moid # m
      <4>1. rest = {}
        BY <2>4, <3>3
      <4>2. Open(m) = 0
        BY <3>3, <4>1 DEF Open
      <4> QED BY <2>3, <3>3, <4>2
    <3> QED BY <3>1, <3>2, <3>3
  <2> QED
    BY <2>5 DEF Says, Answers
<1> QED
  BY <1>1, Invariant, PTL

\* The matching loop looks at a resting order, or at one of which nothing is left
\* in a block given back; on the latter the process ends.
LEMMA MatchedBook ==
  ASSUME IInv, Match, book'.status = "running"
  PROVE  Filled(book, book', BestOrder, FillQty(book.orders[BestOrder]))
<1> DEFINE o    == BestOrder
           fill == FillQty(book.orders[o])
<1>1. /\ book.status = "running" /\ Typed /\ Shaped(book)
      /\ PoolsReady(book) /\ Sequenced(book)
      /\ Accounted(book, incoming, responses, Len(submitted))
  BY DEF Match, Running, IInv, Typed, Sound
<1>2. o \in OrderBlocks /\ fill \in Nat /\ fill <= book.orders[o].qty
  BY <1>1, MatchFacts
<1>3. book' = LET hit == Hit(book, o, book.orders[o].qty - fill)
              IN  IF fill = book.orders[o].qty THEN RemoveOrder(hit, o) ELSE hit
  BY DEF Match, Hit
<1> HIDE DEF fill, o
<1>4. ~Rests(book, o) => book.orders[o].qty = 0
  BY <1>1, <1>2 DEF Accounted
<1>5. (/\ book'.status = "running" /\ PoolsReady(book) /\ Sequenced(book)
       /\ ~Rests(book, o) => book.orders[o].qty = 0)
      => PoolsReady(book') /\ Sequenced(book') /\ Filled(book, book', o, fill)
  BY <1>1, <1>2, <1>3, FilledBook
<1>6. Filled(book, book', o, fill)
  BY <1>1, <1>4, <1>5
<1> QED
  BY <1>6 DEF o, fill

\* Every iteration of the matching loop leaves less of the order than it found,
\* or ends the process: a fill of zero happens only on a block that was given
\* back, which removeOrder cannot give back again.  So does every other step
\* taken while an order is being processed finish with it.
THEOREM MatchingProgresses == Spec => MatchingEnds
<1>1. ASSUME IInv, [Next]_vars, incoming # NoOrder, incoming' # NoOrder,
             book'.status = "running", vars' # vars
      PROVE  incoming'.leaves < incoming.leaves
  <2>1. Match
    BY <1>1, ZenonT(40) DEF Next, Accept, Cancel, Rest
  <2> DEFINE o    == BestOrder
             fill == FillQty(book.orders[o])
  <2>2. /\ Typed /\ Accounted(book, incoming, responses, Len(submitted))
        /\ incoming' = [incoming EXCEPT !.leaves = @ - fill]
    BY <1>1, <2>1 DEF Match, IInv, Sound
  <2>3. /\ o \in OrderBlocks /\ book.orders[o].qty \in Nat /\ fill \in Nat
        /\ incoming \in Incomings /\ incoming.leaves > 0
        /\ fill = IF incoming.leaves < book.orders[o].qty THEN incoming.leaves
                  ELSE book.orders[o].qty
    BY <2>1, <2>2, MatchFacts DEF FillQty
  <2>4. Rests(book, o)
    <3>1. Filled(book, book', o, fill)
      BY <1>1, <2>1, MatchedBook
    <3> HIDE DEF o, fill
    <3> QED BY <3>1 DEF Filled
  <2> HIDE DEF o, fill
  <2>5. book.orders[o].qty # 0
    BY <2>2, <2>3, <2>4 DEF Accounted
  <2>6. fill > 0 /\ incoming.leaves \in Nat
    BY <2>3, <2>5 DEF Incomings
  <2>7. incoming'.leaves = incoming.leaves - fill
    BY <2>2, <2>3 DEF Incomings
  <2> QED BY <2>3, <2>6, <2>7
<1>2. IInv /\ [Next]_vars => [incoming # NoOrder =>
                                \/ incoming' = NoOrder
                                \/ incoming'.leaves < incoming.leaves
                                \/ book'.status # "running"]_vars
  BY <1>1
<1> QED
  BY <1>2, Invariant, PTL DEF Spec, MatchingEnds

\* What a step adds to the responses that is a fill: two answers, of a matching
\* step, about the order being processed and about the one it found.
LEMMA FillsAnswered ==
  ASSUME IInv, [Next]_vars,
         NEW k \in (Len(responses) + 1) .. Len(responses'), responses'[k].type = "FILLED"
  PROVE  Match /\ responses'[k].moid \in {incoming.moid, book.orders[BestOrder].moid}
<1>1. Logged(responses)
  BY DEF IInv, Typed
<1>2. ASSUME NEW r, responses' = Append(responses, r)
      PROVE  r.type = "FILLED"
  <2>1. Longer(responses, r, responses')
    BY <1>1, <1>2, Appended
  <2> QED BY <2>1 DEF Longer
<1>3. responses' # responses
  BY <1>1 DEF Logged
<1>4. ASSUME NEW c \in Clients, NEW i \in OrderIds, NEW s \in Sides, NEW p \in Prices,
             NEW q \in Qtys, Accept(c, i, s, p, q)
      PROVE  FALSE
  <2> DEFINE ord == [client |-> c, coid |-> i, side |-> s, price |-> p,
                     moid |-> m_next_market_order_id, leaves |-> q]
             r   == Response("ACCEPTED", ord, p, 0, q)
  <2>1. responses' = Append(responses, r)
    BY <1>4 DEF Accept
  <2>2. r.type = "ACCEPTED"
    BY DEF Response
  <2> HIDE DEF r
  <2> QED BY <1>2, <2>1, <2>2
<1>5. ~Rest
  BY <1>3 DEF Rest
<1>6. ASSUME NEW c \in Clients, NEW i \in OrderIds, Cancel(c, i)
      PROVE  FALSE
  <2> DEFINE o       == book.orderOf[c][i]
             ord     == book.orders[o]
             request == [client |-> c, coid |-> i]
             answer  == IF o = Null
                        THEN Response("CANCEL_REJECTED",
                               request @@ [moid |-> Null, side |-> Null],
                               Null, Null, Null)
                        ELSE Response("CANCELED",
                               request @@ [moid |-> ord.moid, side |-> ord.side],
                               ord.price, Null, ord.qty)
  <2>1. responses' = responses \/ responses' = Append(responses, answer)
    <3> HIDE DEF answer, o
    <3> QED BY <1>6 DEF Cancel, answer, o
  <2>2. answer.type # "FILLED"
    <3> HIDE DEF request, ord, o
    <3> QED BY DEF Response
  <2> HIDE DEF answer
  <2> QED BY <1>2, <1>3, <2>1, <2>2
<1>7. Match
  BY <1>3, <1>4, <1>5, <1>6 DEF Next, vars
<1> DEFINE ord  == book.orders[BestOrder]
           fill == FillQty(ord)
           r    == Response("FILLED", incoming, ord.price, fill, incoming.leaves - fill)
           s    == Response("FILLED", ord, ord.price, fill, ord.qty - fill)
           g    == Append(responses, r)
<1>8. responses' = responses \o <<r, s>>
  BY <1>7 DEF Match, FillResponses
<1>9. r.moid = incoming.moid /\ s.moid = ord.moid
  BY DEF Response
<1> HIDE DEF r, s, fill, ord
<1>10. responses' = Append(g, s)
  BY <1>1, <1>8, AppendedTwo
<1>11. Logged(g) /\ Longer(responses, r, g)
  BY <1>1, Appended
<1> HIDE DEF g
<1>12. Longer(g, s, responses')
  BY <1>10, <1>11, Appended
<1>13. responses'[k] = r \/ responses'[k] = s
  BY <1>11, <1>12 DEF Longer
<1> QED
  BY <1>7, <1>9, <1>13 DEF ord

\* Time priority: as long as the best level is in use, the order a matching step
\* fills is the oldest of those that rest on its side at its price.
THEOREM TimePriorityHolds == Spec => TimePriority
<1>1. ASSUME IInv, [Next]_vars, NEW ord \in Resting(book),
             NEW k \in (Len(responses) + 1) .. Len(responses'),
             responses'[k].type = "FILLED", responses'[k].moid = ord.moid,
             book.best[Opposite(incoming.side)] \in LiveBlocks(book.levelPool),
             NEW old \in Resting(book), old.price = ord.price, old.moid < ord.moid
      PROVE  FALSE
  <2> DEFINE o == BestOrder
             l == book.best[Opposite(incoming.side)]
  <2>1. Match /\ ord.moid \in {incoming.moid, book.orders[o].moid}
    BY <1>1, FillsAnswered
  <2>2. /\ Typed /\ Shaped(book) /\ Sequenced(book)
        /\ Accounted(book, incoming, responses, Len(submitted))
    BY <1>1, <2>1 DEF IInv, Match, Running, Sound, Typed
  <2>3. PICK x \in OrderBlocks : Rests(book, x) /\ ord = book.orders[x]
    BY <2>2, RestingIs
  <2>4. PICK y \in OrderBlocks : Rests(book, y) /\ old = book.orders[y]
    BY <2>2, RestingIs
  <2>5. InUse(book, l) /\ o = book.levels[l].first
    <3>1. book.levelPool.size = NumLevels
      BY <2>2 DEF Shaped, BooksOn, Pools
    <3> HIDE DEF l
    <3> QED BY <1>1, <3>1 DEF LiveBlocks, Blocks, InUse, LevelBlocks, BestOrder, l
  <2> HIDE DEF o, l
  <2>6. Rests(book, o) /\ o \in OrderBlocks /\ Level(book, o) = l
    BY <2>2, <2>5 DEF Sequenced, Ringed, InUse, Rests
  <2>7. ord.moid # Null /\ ord.moid # incoming.moid
    BY <2>2, <2>3 DEF Accounted
  <2>8. x = o
    BY <2>1, <2>2, <2>3, <2>6, <2>7 DEF Accounted
  <2>9. Level(book, y) = l
    BY <1>1, <2>3, <2>4, <2>6, <2>8 DEF Level, Slot
  <2>10. y = o \/ After(book, o, y)
    BY <2>2, <2>4, <2>5, <2>9, FirstIsOldest DEF Sequenced
  <2>11. book.orders[o].moid \in Nat /\ book.orders[y].moid \in Nat
    BY <2>2, <2>4, <2>6 DEF Sequenced, Ringed, Neighbours
  <2> QED
    BY <1>1, <2>3, <2>4, <2>8, <2>10, <2>11 DEF After
<1>2. IInv /\ [Next]_vars =>
        [\A ord \in Resting(book) :
           (/\ \E k \in (Len(responses) + 1) .. Len(responses') :
                 responses'[k].type = "FILLED" /\ responses'[k].moid = ord.moid
            /\ book.best[Opposite(incoming.side)] \in LiveBlocks(book.levelPool))
           => ~\E old \in Resting(book) :
                 old.side = ord.side /\ old.price = ord.price /\ old.moid < ord.moid
        ]_vars
  BY <1>1
<1> QED
  BY <1>2, Invariant, PTL DEF Spec, TimePriority

-----------------------------------------------------------------------------
(* Walking a ring *)

\* The ring of a level in use is what a walk around it meets.
Around(l, f, size) ==
  Round(NumOrders, Members(book, l), book.orders, Moids(book), book.levels[l].first, f, size)

LEMMA RingIs ==
  ASSUME Shaped(book), Ringed(book), NEW l, InUse(book, l)
  PROVE  \E f, size : /\ Around(l, f, size)
                      /\ Ring(l) = [k \in 1 .. size |-> f[k - 1]]
<1> DEFINE first == book.levels[l].first
           M    == Members(book, l)
           ring == CHOOSE f : IsChain(f, NumOrders, Null, book.orders, first)
           ends == {n \in 1 .. NumOrders : ring[n] = ring[0]}
           size == CHOOSE n \in ends : \A k \in ends : n <= k
<1>1. Ring(l) = IF ends = {} THEN <<Null>> ELSE [k \in 1 .. size |-> ring[k - 1]]
  BY DEF Ring, IsChain
<1>2. IsChain(ring, NumOrders, Null, book.orders, first) /\ NumOrders \in Nat
  <2>1. NumOrders \in Nat
    BY MEOrderBookAssumption
  <2>2. \E f : IsChain(f, NumOrders, Null, book.orders, first)
    BY <2>1, ChainExists
  <2> QED BY <2>1, <2>2
<1> HIDE DEF ring
<1>3. /\ Cyclic(M, book.orders, Moids(book), first) /\ Within(M, NumOrders)
      /\ Null \notin M
  BY RingIsCyclic
<1> HIDE DEF M, first
<1>4. Walk(NumOrders, M, book.orders, first, ring)
  BY <1>2, <1>3, WalkStays
<1>5. ring[0] = first
  BY <1>4 DEF Walk
<1>6. ends # {} /\ ends \in SUBSET Nat
  <2>1. \E n \in 1 .. NumOrders : ring[n] = first
    BY <1>2, <1>3, <1>4, WalkReturns
  <2> QED BY <1>2, <1>5, <2>1
<1>7. size \in ends /\ \A k \in ends : size <= k
  <2> HIDE DEF ends
  <2>1. \E n \in ends : \A k \in ends : n <= k
    BY <1>6, LeastNatural
  <2> QED BY <2>1
<1> HIDE DEF size
<1>8. /\ size \in 1 .. NumOrders /\ ring[size] = first
      /\ \A k \in 1 .. NumOrders : ring[k] = first => size <= k
  BY <1>5, <1>7
<1>9. Around(l, ring, size)
  <2>1. Round(NumOrders, M, book.orders, Moids(book), first, ring, size)
    BY <1>2, <1>3, <1>4, <1>8, WalkRound
  <2> QED BY <2>1 DEF Around, M, first
<1> HIDE DEF ends
<1> QED
  BY <1>1, <1>6, <1>9

LEMMA SequenceOf ==
  ASSUME NEW n \in Nat, NEW S, NEW r \in [1 .. n -> S]
  PROVE  Len(r) = n
<1>1. r \in Seq(S)
  OBVIOUS
<1>2. Len(r) \in Nat /\ DOMAIN r = 1 .. Len(r)
  BY <1>1
<1> QED BY <1>2

\* What the runs ask of the ring of a level.
LEMMA RingOrdered ==
  ASSUME Shaped(book), Sequenced(book), NEW l, InUse(book, l)
  PROVE  LET r == Ring(l) IN
         /\ ToSet(r) = Members(book, l)
         /\ \A k \in DOMAIN r :
              book.orders[r[k]].prev = r[IF k = 1 THEN Len(r) ELSE k - 1]
         /\ \A k \in 2 .. Len(r) :
              book.orders[r[k]].priority > book.orders[r[k - 1]].priority
<1> DEFINE S == Members(book, l)
<1>1. PICK f, size : Around(l, f, size) /\ Ring(l) = [k \in 1 .. size |-> f[k - 1]]
  BY RingIs DEF Sequenced
<1> DEFINE r == Ring(l)
<1>2. /\ NumOrders \in Nat /\ size \in Nat /\ size \in 1 .. NumOrders /\ f[size] = f[0]
      /\ \A k \in 0 .. NumOrders : f[k] \in S
      /\ \A k \in 1 .. NumOrders : f[k] = book.orders[f[k - 1]].next
      /\ \A k \in 1 .. (size - 1) : f[k] # book.levels[l].first
      /\ \A x \in S : \E k \in 0 .. (size - 1) : f[k] = x
  BY <1>1, MEOrderBookAssumption DEF Around, Round, Walk
<1>3. DOMAIN r = 1 .. size /\ \A k \in 1 .. size : r[k] = f[k - 1] /\ r[k] \in S
  BY <1>1, <1>2
<1>4. Len(r) = size
  <2>1. r \in [1 .. size -> S]
    BY <1>1, <1>2
  <2> HIDE DEF r, S
  <2> QED BY <1>2, <2>1, SequenceOf
<1> HIDE DEF r, S
<1>5. ToSet(r) = S
  <2>1. \A x \in S : \E k \in 1 .. size : r[k] = x
    <3> TAKE x \in S
    <3>1. PICK k \in 0 .. (size - 1) : f[k] = x
      BY <1>2
    <3>2. k + 1 \in 1 .. size /\ (k + 1) - 1 = k
      BY <1>2
    <3>3. r[k + 1] = x
      BY <1>3, <3>1, <3>2
    <3> QED BY <3>2, <3>3
  <2> QED BY <1>3, <2>1 DEF ToSet
<1>6. \A k \in 1 .. NumOrders : book.orders[f[k]].prev = f[k - 1]
  <2> TAKE k \in 1 .. NumOrders
  <2>1. k - 1 \in 0 .. NumOrders
    BY <1>2
  <2>2. f[k - 1] \in S /\ f[k] = book.orders[f[k - 1]].next
    BY <1>2, <2>1
  <2> QED BY <2>2 DEF S, Members, Sequenced, Ringed, Neighbours
<1>7. ASSUME NEW k \in DOMAIN r
      PROVE  book.orders[r[k]].prev = r[IF k = 1 THEN Len(r) ELSE k - 1]
  <2>1. CASE k = 1
    <3>1. r[k] = f[0] /\ r[size] = f[size - 1]
      BY <1>2, <1>3, <2>1
    <3>2. book.orders[f[size]].prev = f[size - 1]
      BY <1>2, <1>6
    <3> QED BY <1>2, <1>4, <2>1, <3>1, <3>2
  <2>2. CASE k # 1
    <3>1. /\ k \in 1 .. size /\ k - 1 \in 1 .. size /\ k - 1 \in 1 .. NumOrders
          /\ (k - 1) - 1 = k - 2
      BY <1>2, <1>3, <2>2
    <3>2. r[k] = f[k - 1] /\ r[k - 1] = f[k - 2]
      BY <1>3, <3>1
    <3>3. book.orders[f[k - 1]].prev = f[k - 2]
      BY <1>6, <3>1
    <3> QED BY <2>2, <3>2, <3>3
  <2> QED BY <2>1, <2>2
<1>8. ASSUME NEW k \in 2 .. Len(r)
      PROVE  book.orders[r[k]].priority > book.orders[r[k - 1]].priority
  <2>1. /\ k \in 1 .. size /\ k - 1 \in 1 .. size /\ k - 1 \in 0 .. (size - 1)
        /\ k - 1 \in 1 .. (size - 1) /\ k - 1 \in 1 .. NumOrders
        /\ k - 2 \in 0 .. NumOrders /\ (k - 1) - 1 = k - 2
    BY <1>2, <1>4
  <2>2. After(book, f[k - 2], f[k - 1])
    <3>1. /\ f[k - 2] \in Members(book, l) /\ f[k - 1] = book.orders[f[k - 2]].next
          /\ f[k - 1] # book.levels[l].first
      BY <1>2, <2>1 DEF S
    <3> QED BY <3>1 DEF Members, Sequenced, Ringed, Neighbours
  <2>3. r[k] = f[k - 1] /\ r[k - 1] = f[k - 2]
    BY <1>3, <2>1
  <2>4. /\ book.orders[f[k - 1]].priority \in Int /\ book.orders[f[k - 2]].priority \in Int
         /\ book.orders[f[k - 1]].priority > 0
    <3>1. Rests(book, f[k - 1]) /\ Rests(book, f[k - 2])
      BY <1>3, <2>1, <2>3 DEF S, Members
    <3> QED BY <3>1 DEF Rests, Shaped, BooksOn, Orders, Sequenced
  <2> QED BY <2>2, <2>3, <2>4 DEF After, Before
<1> QED
  BY <1>5, <1>7, <1>8 DEF r, S

\* While the process runs, the orders of every level in use form a ring in the
\* order of their priorities, and the rings hold the resting orders.
THEOREM RingsHold == Spec => []RingsOrdered
<1>1. ASSUME IInv, Running PROVE RingsOrdered
  <2> DEFINE levels == LiveBlocks(book.levelPool)
  <2>1. Shaped(book) /\ Sequenced(book) /\ Ringed(book)
    BY <1>1 DEF IInv, Typed, Sound, Sequenced
  <2>2. /\ levels = {l \in LevelBlocks : InUse(book, l)}
        /\ LiveBlocks(book.orderPool) = {x \in OrderBlocks : Rests(book, x)}
    <3>1. book.levelPool.size = NumLevels /\ book.orderPool.size = NumOrders
      BY <2>1 DEF Shaped, BooksOn, Pools
    <3> QED BY <3>1 DEF LiveBlocks, Blocks, InUse, Rests, LevelBlocks, OrderBlocks
  <2> HIDE DEF levels
  <2>3. ASSUME NEW l \in levels
        PROVE  LET r == Ring(l) IN
               /\ Null \notin ToSet(r)
               /\ \A k \in DOMAIN r :
                    book.orders[r[k]].prev = r[IF k = 1 THEN Len(r) ELSE k - 1]
               /\ \A k \in 2 .. Len(r) :
                    book.orders[r[k]].priority > book.orders[r[k - 1]].priority
    <3>1. Null \notin Members(book, l)
      BY DEF Members, OrderBlocks, Null
    <3> QED BY <2>1, <2>2, <3>1, RingOrdered
  <2>4. \A l \in levels : ToSet(Ring(l)) = Members(book, l)
    BY <2>1, <2>2, RingOrdered
  <2>5. \A x \in OrderBlocks :
          Rests(book, x) => Level(book, x) \in levels /\ x \in Members(book, Level(book, x))
    BY <2>1, <2>2 DEF Ringed, Neighbours, InUse, Members
  <2>6. UNION {ToSet(Ring(l)) : l \in levels} = {x \in OrderBlocks : Rests(book, x)}
    <3>1. \A l \in levels : \A x \in ToSet(Ring(l)) : x \in OrderBlocks /\ Rests(book, x)
      BY <2>4 DEF Members
    <3>2. \A x \in OrderBlocks : Rests(book, x) => \E l \in levels : x \in ToSet(Ring(l))
      BY <2>4, <2>5
    <3> QED BY <3>1, <3>2
  <2> QED
    BY <2>2, <2>3, <2>6 DEF RingsOrdered, levels
<1>2. IInv => RingsOrdered
  BY <1>1 DEF RingsOrdered
<1> QED
  BY <1>2, Invariant, PTL

=============================================================================
