----------------------- MODULE MarketOrderBookProofs -----------------------
(***************************************************************************)
(* Proofs about the trader's book, for every number of blocks, prices,     *)
(* quantities and updates.  IInv is about the pools and tables: it holds   *)
(* whatever the rings are like.  SInv is about the rings, of a book in     *)
(* which nothing was linked wrongly (`sound'): it runs on until a pool or  *)
(* the ids are spent, and shows the top of what the updates left.          *)
(***************************************************************************)
EXTENDS MarketOrderBook, MEOrderBookProofs

Entry(ord) == [oid |-> ord.moid, side |-> ord.side, price |-> ord.price, qty |-> ord.qty]

\* The orders in the pool, as the updates tell of them.
Replica(b) == {Entry(b.orders[o]) : o \in {k \in OrderBlocks : Rests(b, k)}}

\* What the updates carry.
Listed(ord) == ord.price \in Prices /\ \E q \in Qtys : ord.qty \in 1 .. q
AllListed(b) == \A o \in OrderBlocks : Rests(b, o) => Listed(b.orders[o])

\* The levels have been given prices of updates.
Priced(b) == \A l \in LevelBlocks : b.levels[l].price \in Prices \cup {0}

\* m_oid_to_order leads to the resting orders, each from its own id.
Filed(b) ==
  /\ \A o \in OrderBlocks :
       Rests(b, o) => /\ b.orders[o].client = TickerId /\ b.orders[o].priority = 0
                      /\ b.orders[o].moid \in OrderIds
                      /\ b.orders[o].coid = b.orders[o].moid
                      /\ b.orderOf[TickerId][b.orders[o].moid] = o
  /\ \A i \in OrderIds :
       LET o == b.orderOf[TickerId][i]
       IN  o # Null => Rests(b, o) /\ b.orders[o].moid = i

\* A running book after updates that leave t at rest, with ids from 1 to n.
Kept(b, t, n) ==
  /\ PoolsReady(b) /\ Filed(b) /\ Priced(b) /\ Replica(b) = t
  /\ \A o \in OrderBlocks : Rests(b, o) => b.orders[o].moid \in 1 .. n

Quotes == [price : Prices \cup {0}, qty : Nat]

Typed ==
  /\ Shaped(book) /\ AllListed(book)
  /\ bbo \in [Sides -> Quotes]
  /\ lastId \in 0 .. NumOrders /\ (Running => lastId \in OrderIds)
  /\ applied \in 0 .. MaxUpdates
  /\ missed \subseteq Sides /\ sound \in BOOLEAN

IInv == Typed /\ (Running => Kept(book, told, lastId))

-----------------------------------------------------------------------------
(* Records *)

\* Orders, levels and ids are numbered alike.
LEMMA Sizes ==
  /\ OrderIds = OrderBlocks /\ LevelBlocks = OrderBlocks /\ Clients = {}
  /\ NumOrders \in Nat \ {0} /\ NumLevels = NumOrders /\ Null \notin OrderBlocks
BY MEOrderBookAssumption, MarketOrderBookAssumption DEF OrderBlocks, LevelBlocks, Null

LEMMA ContentIs ==
  ASSUME NEW x, NEW y, Content(x) = Content(y)
  PROVE  /\ x.client = y.client /\ x.coid = y.coid /\ x.moid = y.moid
         /\ x.side = y.side /\ x.price = y.price /\ x.qty = y.qty
         /\ x.priority = y.priority /\ Entry(x) = Entry(y)
BY DEF Content, Entry

LEMMA PointingIs ==
  ASSUME NEW b, Shaped(b), NEW i \in OrderIds, NEW v, NEW f,
         f = Pointing(b.orderOf, TickerId, i, v)
  PROVE  \A j \in OrderIds : f[TickerId][j] = IF j = i THEN v ELSE b.orderOf[TickerId][j]
<1>1. b.orderOf \in [{TickerId} -> [OrderIds -> OrderRefs]]
  BY Sizes DEF Shaped, BooksOn
<1> QED
  BY <1>1 DEF Pointing

\* A book that fails holds what it held.
LEMMA FailKeeps ==
  ASSUME NEW b, Shaped(b), AllListed(b), NEW how \in Ends, NEW c, c = Fail(b, how)
  PROVE  Shaped(c) /\ AllListed(c) /\ c.status = how /\ c.best = b.best
<1>1. Relinked(b, c) /\ c.status = how
  BY FailRelinked
<1>2. c.best = b.best
  BY DEF Fail, Shaped, BooksOn
<1> QED
  BY <1>1, <1>2 DEF Relinked, AllListed, Rests

\* Only the level that was next in the pool is given another price.
LEMMA AddedPrices ==
  ASSUME NEW b, NEW o, NEW c, Added(b, c, o)
  PROVE  \A k \in LevelBlocks :
           /\ c.levels[k].price \in {b.levels[k].price, b.orders[o].price}
           /\ k # b.levelPool.next => c.levels[k].price = b.levels[k].price
<1> DEFINE l == LevelOf(b, b.orders[o].price)
<1>1. IF l = Null THEN Alone(b, c, o, b.levelPool.next) ELSE Joined(b, c, o, l)
  BY DEF Added
<1> HIDE DEF l
<1>2. CASE l = Null
  BY <1>1, <1>2 DEF Alone
<1>3. CASE l # Null
  BY <1>1, <1>3 DEF Joined, SameLevels
<1> QED
  BY <1>2, <1>3

-----------------------------------------------------------------------------
(* The updates *)

\* What an update makes of the book: t rests then, with ids up to n.
Becomes(c, t, n) ==
  /\ Shaped(c) /\ AllListed(c)
  /\ c.status = "running" => Kept(c, t, n)

LEMMA AddNewKeeps ==
  ASSUME NEW b, Shaped(b), AllListed(b), b.status = "running",
         NEW t, NEW n \in Nat, Kept(b, t, n), NEW id \in (n + 1) .. NumOrders,
         NEW s \in Sides, NEW p \in Prices, NEW q \in Qtys,
         NEW u, u = Add(id, s, p, q), NEW c, c = AddNew(b, u)
  PROVE  /\ Becomes(c, t \cup {[oid |-> id, side |-> s, price |-> p, qty |-> q]}, id)
         /\ c.status = "running" => id \in OrderIds
<1> DEFINE o    == b.orderPool.next
           pool == Allocate(b.orderPool)
           ord  == NewOrder(u)
           s1   == Stored(b, o, ord, pool)
<1>1. /\ p \in Nat /\ p # 0 /\ q \in Nat /\ q # 0 /\ Null \in OrderRefs
      /\ u.oid = id /\ u.side = s /\ u.price = p /\ u.qty = q /\ id \in Nat /\ n < id
  BY MEOrderBookAssumption, MarketOrderBookAssumption DEF Add, OrderRefs
<1>2. /\ ord \in Orders /\ ord.client = TickerId /\ ord.coid = id /\ ord.moid = id
      /\ ord.side = s /\ ord.price = p /\ ord.qty = q /\ ord.priority = 0
  BY <1>1 DEF NewOrder, Orders
<1>3. Entry(ord) = [oid |-> id, side |-> s, price |-> p, qty |-> q]
  BY <1>2 DEF Entry
<1>4. Listed(ord)
  BY <1>1, <1>2 DEF Listed
<1> HIDE DEF ord
<1>5. /\ b.orderPool \in Pools(NumOrders) /\ o \in OrderBlocks /\ NumOrders \in Nat \ {0}
      /\ ~b.orderPool.failed /\ b.orderPool.free[o]
      /\ b.orderPool.free \in [OrderBlocks -> BOOLEAN]
      /\ b.orders \in [OrderBlocks -> Orders]
  BY Sizes DEF Shaped, BooksOn, Pools, OrderBlocks, Kept, PoolsReady
<1>6. pool \in Pools(NumOrders) /\ pool.free = [b.orderPool.free EXCEPT ![o] = FALSE]
  BY <1>5, AllocateSpec
<1>7. HasStored(b, s1, o, ord, pool)
  BY <1>2, <1>5, <1>6, StoredSpec
<1>8. c = IF pool.failed THEN Fail(s1, "poolAssert")
          ELSE IF u.oid \notin OrderIds THEN Fail(s1, "outOfRange")
          ELSE AddOrder(s1, o)
  BY DEF AddNew, Stored, ord
<1>9. ~pool.failed => Took(b, s1, o, ord)
  BY <1>2, TookBlock DEF Kept
<1> HIDE DEF s1, pool, o
<1>10. /\ Shaped(s1) /\ s1.status = "running" /\ s1.orderOf = b.orderOf
       /\ s1.levels = b.levels
       /\ \A k \in OrderBlocks : s1.orders[k] = IF k = o THEN ord ELSE b.orders[k]
       /\ \A k \in OrderBlocks : Rests(s1, k) <=> (Rests(b, k) \/ k = o)
  BY <1>5, <1>6, <1>7 DEF HasStored, Rests
<1>11. AllListed(s1)
  BY <1>4, <1>10 DEF AllListed
<1>12. CASE pool.failed \/ u.oid \notin OrderIds
  <2>1. Shaped(c) /\ AllListed(c) /\ c.status # "running"
    BY <1>8, <1>10, <1>11, <1>12, FailKeeps DEF Ends
  <2> QED BY <2>1 DEF Becomes
<1>13. CASE ~pool.failed /\ u.oid \in OrderIds
  <2>1. c = AddOrder(s1, o) /\ id \in OrderIds
    BY <1>1, <1>8, <1>13
  <2>2. Took(b, s1, o, ord) /\ PoolsReady(s1)
    BY <1>9, <1>13 DEF Took
  <2>3. /\ Shaped(c) /\ c.orderPool = s1.orderPool /\ SameContents(c.orders, s1.orders)
        /\ c.status = "running" =>
             /\ Added(s1, c, o)
             /\ c.orderOf = Pointing(s1.orderOf, s1.orders[o].client, s1.orders[o].coid, o)
    BY <1>5, <1>10, <2>1, <2>2, AddOrderSpec DEF Added
  <2>4. /\ \A k \in OrderBlocks : Rests(c, k) <=> (Rests(b, k) \/ k = o)
        /\ \A k \in OrderBlocks : Content(c.orders[k]) = IF k = o THEN Content(ord)
                                                         ELSE Content(b.orders[k])
    BY <1>10, <2>3 DEF Rests, SameContents
  <2>5. \A k \in OrderBlocks :
          LET was == IF k = o THEN ord ELSE b.orders[k] IN
          /\ c.orders[k].client = was.client /\ c.orders[k].coid = was.coid
          /\ c.orders[k].moid = was.moid /\ c.orders[k].priority = was.priority
          /\ c.orders[k].price = was.price /\ c.orders[k].qty = was.qty
          /\ Entry(c.orders[k]) = Entry(was)
    BY <2>4, ContentIs
  <2>6. AllListed(c)
    BY <1>4, <2>4, <2>5 DEF AllListed, Listed
  <2>7. ASSUME c.status = "running"
        PROVE  Kept(c, t \cup {Entry(ord)}, id)
    <3>1. Added(s1, c, o) /\ c.orderOf = Pointing(b.orderOf, TickerId, id, o)
      BY <1>2, <1>5, <1>10, <2>3, <2>7
    <3>2. PoolsReady(c)
      BY <1>2, <2>2, <3>1, AddedBook DEF Kept
    <3>3. \A i \in OrderIds : c.orderOf[TickerId][i] = IF i = id THEN o
                                                       ELSE b.orderOf[TickerId][i]
      BY <2>1, <3>1, PointingIs
    <3>4. \A k \in OrderBlocks : Rests(b, k) => /\ b.orders[k].moid \in 1 .. n /\ k # o
                                                /\ b.orders[k].moid \in OrderIds
      BY <1>5 DEF Kept, Filed, Rests
    <3>5. \A k \in OrderBlocks : Rests(b, k) => b.orders[k].moid # id
      BY <3>4, Sizes DEF OrderBlocks
    <3>6. Filed(c)
      <4>1. ASSUME NEW k \in OrderBlocks, Rests(c, k)
            PROVE  /\ c.orders[k].client = TickerId /\ c.orders[k].priority = 0
                   /\ c.orders[k].moid \in OrderIds
                   /\ c.orders[k].coid = c.orders[k].moid
                   /\ c.orderOf[TickerId][c.orders[k].moid] = k
        <5>1. CASE k = o
          BY <1>2, <2>1, <2>5, <3>3, <5>1
        <5>2. CASE k # o
          <6>1. Rests(b, k)
            BY <2>4, <4>1, <5>2
          <6> QED BY <2>5, <3>3, <3>4, <3>5, <5>2, <6>1 DEF Kept, Filed
        <5> QED BY <5>1, <5>2
      <4>2. ASSUME NEW i \in OrderIds, c.orderOf[TickerId][i] # Null
            PROVE  /\ Rests(c, c.orderOf[TickerId][i])
                   /\ c.orders[c.orderOf[TickerId][i]].moid = i
        <5>1. CASE i = id
          BY <1>2, <1>5, <2>4, <2>5, <3>3, <5>1
        <5>2. CASE i # id
          <6>1. /\ Rests(b, b.orderOf[TickerId][i]) /\ b.orderOf[TickerId][i] \in OrderBlocks
                /\ b.orders[b.orderOf[TickerId][i]].moid = i
            BY <3>3, <4>2, <5>2 DEF Kept, Filed, Rests
          <6> QED BY <2>4, <2>5, <3>3, <3>4, <5>2, <6>1
        <5> QED BY <5>1, <5>2
      <4> QED BY <4>1, <4>2 DEF Filed
    <3>7. Priced(c)
      <4>1. \A l \in LevelBlocks : c.levels[l].price \in {b.levels[l].price, p}
        <5>1. s1.levels = b.levels /\ s1.orders[o].price = p
          BY <1>2, <1>5, <1>10
        <5> QED BY <3>1, <5>1, AddedPrices
      <4> QED BY <4>1 DEF Kept, Priced
    <3>8. Replica(c) = t \cup {Entry(ord)}
      <4>1. t = Replica(b)
        BY DEF Kept
      <4> QED BY <1>5, <2>4, <2>5, <3>4, <4>1 DEF Replica
    <3>9. \A k \in OrderBlocks : Rests(c, k) => c.orders[k].moid \in 1 .. id
      <4>1. id \in 1 .. id /\ \A i \in 1 .. n : i \in 1 .. id
        OBVIOUS
      <4> QED BY <1>2, <2>4, <2>5, <3>4, <4>1
    <3> QED BY <3>2, <3>6, <3>7, <3>8, <3>9 DEF Kept
  <2> QED BY <1>3, <2>1, <2>3, <2>6, <2>7 DEF Becomes
<1> QED
  BY <1>12, <1>13

\* The order an update is about is the one filed under its id.
LEMMA OrderTold ==
  ASSUME NEW b, Shaped(b), NEW t, NEW n, Kept(b, t, n), NEW x \in t
  PROVE  \E o \in OrderBlocks : /\ Rests(b, o) /\ Entry(b.orders[o]) = x
                                /\ b.orders[o].moid = x.oid /\ x.oid \in OrderIds
                                /\ b.orderOf[TickerId][x.oid] = o
                                /\ \A k \in OrderBlocks :
                                     Rests(b, k) /\ b.orders[k].moid = x.oid => k = o
<1>1. PICK o \in OrderBlocks : Rests(b, o) /\ Entry(b.orders[o]) = x
  BY DEF Kept, Replica
<1>2. b.orders[o].moid = x.oid
  BY <1>1 DEF Entry
<1> QED
  BY <1>1, <1>2 DEF Kept, Filed

LEMMA ModifyKeeps ==
  ASSUME NEW b, Shaped(b), AllListed(b), b.status = "running",
         NEW t, NEW n \in Nat, Kept(b, t, n),
         NEW x \in t, NEW q \in 1 .. (x.qty - 1), NEW c, c = Modify(b, About("MODIFY", x, q))
  PROVE  Becomes(c, (t \ {x}) \cup {[x EXCEPT !.qty = q]}, n)
<1>1. PICK o \in OrderBlocks :
        /\ Rests(b, o) /\ Entry(b.orders[o]) = x
        /\ b.orders[o].moid = x.oid /\ x.oid \in OrderIds
        /\ b.orderOf[TickerId][x.oid] = o
        /\ \A k \in OrderBlocks : Rests(b, k) /\ b.orders[k].moid = x.oid => k = o
  BY OrderTold
<1>2. c = [b EXCEPT !.orders[o].qty = q]
  BY <1>1 DEF Modify, About
<1>3. /\ x.qty = b.orders[o].qty /\ x.qty \in Nat /\ q \in Nat
      /\ b.orders \in [OrderBlocks -> Orders]
  BY <1>1 DEF Entry, Shaped, BooksOn, Orders
<1> DEFINE y == [b.orders EXCEPT ![o].qty = q]
<1>4. /\ y \in [OrderBlocks -> Orders]
      /\ \A k \in OrderBlocks :
           /\ y[k].client = b.orders[k].client /\ y[k].coid = b.orders[k].coid
           /\ y[k].moid = b.orders[k].moid /\ y[k].priority = b.orders[k].priority
           /\ y[k].price = b.orders[k].price /\ y[k].side = b.orders[k].side
           /\ y[k].qty = IF k = o THEN q ELSE b.orders[k].qty
  BY <1>3 DEF Orders
<1>5. c = [b EXCEPT !.orders = y]
  BY <1>2
<1> HIDE DEF y
<1>6. /\ Shaped(c) /\ c.orders = y /\ c.levels = b.levels
      /\ c.orderPool = b.orderPool /\ c.levelPool = b.levelPool
      /\ c.orderOf = b.orderOf
  <2> DEFINE d == [b EXCEPT !.orders = y]
  <2>1. /\ Shaped(d) /\ d.orders = y /\ d.levels = b.levels
        /\ d.orderPool = b.orderPool /\ d.levelPool = b.levelPool
        /\ d.orderOf = b.orderOf
    BY <1>4, OrdersSet
  <2>2. c = d
    BY <1>5
  <2> HIDE DEF d
  <2> QED BY <2>1, <2>2
<1>7. \A k : Rests(c, k) <=> Rests(b, k)
  BY <1>6 DEF Rests
<1>8. AllListed(c)
  <2>1. \E r \in Qtys : q \in 1 .. r
    <3>1. PICK r \in Qtys : b.orders[o].qty \in 1 .. r
      BY <1>1 DEF AllListed, Listed
    <3> QED BY <1>3, <3>1, MarketOrderBookAssumption
  <2> QED BY <1>4, <1>6, <1>7, <2>1 DEF AllListed, Listed
<1>9. Filed(c)
  <2>1. ASSUME NEW i \in OrderIds, c.orderOf[TickerId][i] # Null
        PROVE  /\ Rests(c, c.orderOf[TickerId][i])
               /\ c.orders[c.orderOf[TickerId][i]].moid = i
    <3>1. /\ Rests(b, b.orderOf[TickerId][i]) /\ b.orderOf[TickerId][i] \in OrderBlocks
          /\ b.orders[b.orderOf[TickerId][i]].moid = i
      BY <1>6, <2>1 DEF Kept, Filed, Rests
    <3> QED BY <1>4, <1>6, <1>7, <3>1
  <2>2. \A k \in OrderBlocks :
          Rests(c, k) => /\ c.orders[k].client = TickerId /\ c.orders[k].priority = 0
                         /\ c.orders[k].moid \in OrderIds
                         /\ c.orders[k].coid = c.orders[k].moid
                         /\ c.orderOf[TickerId][c.orders[k].moid] = k
    BY <1>4, <1>6, <1>7 DEF Kept, Filed
  <2> QED BY <2>1, <2>2 DEF Filed
<1>10. Replica(c) = (t \ {x}) \cup {[x EXCEPT !.qty = q]}
  <2>1. \A k \in OrderBlocks : Entry(c.orders[k]) = IF k = o THEN [x EXCEPT !.qty = q]
                                                    ELSE Entry(b.orders[k])
    BY <1>1, <1>4, <1>6 DEF Entry
  <2>2. \A k \in OrderBlocks : Rests(b, k) /\ k # o => Entry(b.orders[k]) # x
    BY <1>1 DEF Entry
  <2>3. t = Replica(b)
    BY DEF Kept
  <2> QED BY <1>1, <1>7, <2>1, <2>2, <2>3 DEF Replica
<1>11. Kept(c, (t \ {x}) \cup {[x EXCEPT !.qty = q]}, n)
  BY <1>4, <1>6, <1>7, <1>9, <1>10 DEF Kept, PoolsReady, Priced
<1> QED
  BY <1>6, <1>8, <1>11 DEF Becomes

LEMMA CancelKeeps ==
  ASSUME NEW b, Shaped(b), AllListed(b), b.status = "running",
         NEW t, NEW n \in Nat, Kept(b, t, n),
         NEW x \in t, NEW c, c = Cancel(b, About("CANCEL", x, 0))
  PROVE  Becomes(c, t \ {x}, n)
<1>1. PICK o \in OrderBlocks :
        /\ Rests(b, o) /\ Entry(b.orders[o]) = x
        /\ b.orders[o].moid = x.oid /\ x.oid \in OrderIds
        /\ b.orderOf[TickerId][x.oid] = o
        /\ \A k \in OrderBlocks : Rests(b, k) /\ b.orders[k].moid = x.oid => k = o
  BY OrderTold
<1>2. c = RemoveOrder(b, o)
  BY <1>1 DEF Cancel, About
<1>3. /\ Shaped(c) /\ SameContents(c.orders, b.orders)
      /\ \A k \in OrderBlocks : b.orderPool.free[k] => c.orderPool.free[k]
  BY <1>2, RemoveOrderSpec
<1>4. \A k \in OrderBlocks :
        /\ c.orders[k].client = b.orders[k].client /\ c.orders[k].coid = b.orders[k].coid
        /\ c.orders[k].moid = b.orders[k].moid /\ c.orders[k].priority = b.orders[k].priority
        /\ c.orders[k].price = b.orders[k].price /\ c.orders[k].qty = b.orders[k].qty
        /\ Entry(c.orders[k]) = Entry(b.orders[k])
  BY <1>3, ContentIs DEF SameContents
<1>5. AllListed(c)
  BY <1>3, <1>4 DEF AllListed, Listed, Rests
<1>6. ASSUME c.status = "running"
      PROVE  Kept(c, t \ {x}, n)
  <2>1. /\ PoolsReady(c)
        /\ \A k \in OrderBlocks : Rests(c, k) <=> (Rests(b, k) /\ k # o)
    BY <1>2, <1>6, RemovedBook DEF Kept
  <2>2. /\ c.orderOf = Pointing(b.orderOf, TickerId, x.oid, Null)
        /\ \A l \in LevelBlocks : c.levels[l].price = b.levels[l].price
    <3>1. b.orders[o].client = TickerId /\ b.orders[o].coid = x.oid
      BY <1>1 DEF Kept, Filed
    <3> DEFINE m == b.levelAt[b.orders[o].price % NumPriceLevels]
    <3>2. /\ c.orderOf = Pointing(b.orderOf, b.orders[o].client, b.orders[o].coid, Null)
          /\ Closed(b, c, m) \/ Unlinked(b, c, o, m)
      BY <1>2, <1>6, RemoveOrderSpec
    <3> HIDE DEF m
    <3>3. \A l \in LevelBlocks : c.levels[l].price = b.levels[l].price
      BY <3>2 DEF Closed, Unlinked, SameLevels
    <3> QED BY <3>1, <3>2, <3>3
  <2>3. \A i \in OrderIds : c.orderOf[TickerId][i] = IF i = x.oid THEN Null
                                                     ELSE b.orderOf[TickerId][i]
    BY <1>1, <2>2, PointingIs
  <2>4. Filed(c)
    <3>1. ASSUME NEW i \in OrderIds, c.orderOf[TickerId][i] # Null
          PROVE  /\ Rests(c, c.orderOf[TickerId][i])
                 /\ c.orders[c.orderOf[TickerId][i]].moid = i
      <4>1. i # x.oid /\ c.orderOf[TickerId][i] = b.orderOf[TickerId][i]
        BY <2>3, <3>1
      <4>2. /\ Rests(b, b.orderOf[TickerId][i]) /\ b.orderOf[TickerId][i] \in OrderBlocks
            /\ b.orders[b.orderOf[TickerId][i]].moid = i
        BY <3>1, <4>1 DEF Kept, Filed, Rests
      <4> QED BY <1>1, <1>4, <2>1, <4>1, <4>2
    <3>2. \A k \in OrderBlocks :
            Rests(c, k) => /\ c.orders[k].client = TickerId /\ c.orders[k].priority = 0
                           /\ c.orders[k].moid \in OrderIds
                           /\ c.orders[k].coid = c.orders[k].moid
                           /\ c.orderOf[TickerId][c.orders[k].moid] = k
      BY <1>1, <1>4, <2>1, <2>3 DEF Kept, Filed
    <3> QED BY <3>1, <3>2 DEF Filed
  <2>5. Replica(c) = t \ {x}
    <3>1. \A k \in OrderBlocks : Rests(b, k) /\ k # o => Entry(b.orders[k]) # x
      BY <1>1 DEF Entry
    <3>2. t = Replica(b)
      BY DEF Kept
    <3> QED BY <1>1, <1>4, <2>1, <3>1, <3>2 DEF Replica
  <2> QED BY <1>4, <2>1, <2>2, <2>4, <2>5 DEF Kept, Priced
<1> QED
  BY <1>3, <1>5, <1>6 DEF Becomes

\* The pool after blocks were given back at once.
Released(p, q) ==
  /\ q.next = p.next /\ q.failed = p.failed
  /\ \A k \in OrderBlocks : p.free[k] => q.free[k]

LEMMA ClearOrdersSpec ==
  ASSUME NEW b, Shaped(b), NEW c, c = ClearOrders(b)
  PROVE  /\ Shaped(c) /\ c.status = b.status /\ c.orders = b.orders
         /\ c.levels = b.levels /\ c.levelAt = b.levelAt /\ c.best = b.best
         /\ c.levelPool = b.levelPool /\ Released(b.orderPool, c.orderPool)
         /\ \A o \in OrderBlocks :
              c.orderPool.free[o] <=> b.orderPool.free[o]
                                      \/ \E i \in OrderIds : b.orderOf[TickerId][i] = o
         /\ \A i \in OrderIds : c.orderOf[TickerId][i] = Null
<1> DEFINE gone == {b.orderOf[TickerId][i] : i \in OrderIds} \ {Null}
           free == [o \in DOMAIN b.orderPool.free |-> b.orderPool.free[o] \/ o \in gone]
           pool == [b.orderPool EXCEPT !.free = free]
           row  == [i \in OrderIds |-> Null]
           f    == [b.orderOf EXCEPT ![TickerId] = row]
           d    == [b EXCEPT !.orderPool = pool]
<1>1. /\ b.orderPool \in Pools(NumOrders) /\ DOMAIN b.orderPool.free = OrderBlocks
      /\ b.orderPool.free \in [OrderBlocks -> BOOLEAN]
      /\ b.orderOf \in [Clients \cup {TickerId} -> [OrderIds -> OrderRefs]]
  BY Sizes DEF Shaped, BooksOn, Pools, OrderBlocks
<1>2. free \in [OrderBlocks -> BOOLEAN]
  BY <1>1
<1>3. \A o \in OrderBlocks : free[o] <=> b.orderPool.free[o]
                                         \/ \E i \in OrderIds : b.orderOf[TickerId][i] = o
  BY <1>1, Sizes
<1>4. row \in [OrderIds -> OrderRefs]
  BY DEF OrderRefs
<1>5. c = [b EXCEPT !.orderPool.free = free, !.orderOf[TickerId] = row]
  BY DEF ClearOrders
<1> HIDE DEF free
<1>6. /\ pool \in Pools(NumOrders) /\ pool.free = free
      /\ pool.next = b.orderPool.next /\ pool.failed = b.orderPool.failed
  BY <1>1, <1>2 DEF Pools, OrderBlocks
<1>7. c = [d EXCEPT !.orderOf = f]
  BY <1>5 DEF Shaped, BooksOn
<1>8. f \in [Clients \cup {TickerId} -> [OrderIds -> OrderRefs]] /\ f[TickerId] = row
  <2> HIDE DEF row
  <2> QED BY <1>1, <1>4
<1> HIDE DEF pool, f
<1>9. /\ Shaped(d) /\ Opened(d) = Opened(b) /\ d.orderPool = pool
      /\ d.levels = b.levels /\ d.best = b.best /\ d.levelAt = b.levelAt
      /\ d.levelPool = b.levelPool /\ d.orders = b.orders /\ d.status = b.status
  BY <1>6, OrderPoolSet
<1> HIDE DEF d
<1>10. /\ c \in BooksOn(Opened(b)) /\ c.orderPool = pool /\ c.orderOf = f
       /\ c.levels = b.levels /\ c.best = b.best /\ c.levelAt = b.levelAt
       /\ c.levelPool = b.levelPool /\ c.orders = b.orders /\ c.status = b.status
  BY <1>7, <1>8, <1>9 DEF Shaped, BooksOn
<1>11. Shaped(c)
  <2>1. Opened(c) = Opened(b)
    BY <1>10 DEF Opened
  <2> QED BY <1>10, <2>1 DEF Shaped
<1>12. \A i \in OrderIds : c.orderOf[TickerId][i] = Null
  BY <1>8, <1>10
<1>13. Released(b.orderPool, c.orderPool)
  BY <1>3, <1>6, <1>10 DEF Released
<1> QED
  BY <1>3, <1>6, <1>10, <1>11, <1>12, <1>13

\* The levels met from the best one of a side, and where the walk ends.
LevelEnds(b, side) ==
  {k \in 1 .. NumOrders : NextChain(b, b.best[side])[k] = b.best[side]}
LevelsMet(b, side) ==
  {NextChain(b, b.best[side])[k] : k \in 0 .. (Min(LevelEnds(b, side)) - 1)}

LEMMA ClearLevelsSpec ==
  ASSUME NEW b, Shaped(b), b.status = "running", NEW side \in Sides,
         NEW c, c = ClearLevels(b, side)
  PROVE  /\ Shaped(c) /\ c.orders = b.orders /\ c.orderPool = b.orderPool
         /\ c.orderOf = b.orderOf /\ c.levels = b.levels /\ c.levelAt = b.levelAt
         /\ c.status = "running" =>
              /\ Released(b.levelPool, c.levelPool)
              /\ \A s \in Sides : c.best[s] = IF s = side THEN Null ELSE b.best[s]
              /\ \A l \in LevelBlocks :
                   c.levelPool.free[l] <=>
                     b.levelPool.free[l]
                     \/ (b.best[side] # Null /\ l \in LevelsMet(b, side))
<1> DEFINE met  == LevelsMet(b, side)
           free == [l \in DOMAIN b.levelPool.free |-> b.levelPool.free[l] \/ l \in met]
           pool == [b.levelPool EXCEPT !.free = free]
           best == [b.best EXCEPT ![side] = Null]
           d    == [b EXCEPT !.levelPool = pool]
<1>1. /\ b.levelPool \in Pools(NumLevels) /\ DOMAIN b.levelPool.free = LevelBlocks
      /\ b.levelPool.free \in [LevelBlocks -> BOOLEAN]
      /\ b.best \in [Sides -> Opened(b)] /\ Null \in Opened(b)
  BY DEF Shaped, BooksOn, Pools, LevelBlocks, Opened
<1>2. \/ b.best[side] = Null /\ c = b
      \/ b.best[side] # Null /\ c = Fail(b, "poolAssert")
      \/ b.best[side] # Null /\ c = [b EXCEPT !.levelPool.free = free, !.best[side] = Null]
  BY Zenon DEF ClearLevels, LevelsMet, LevelEnds
<1>3. CASE b.best[side] = Null /\ c = b
  BY <1>1, <1>3 DEF Released
<1>4. ASSUME c = Fail(b, "poolAssert")
      PROVE  /\ Shaped(c) /\ c.orders = b.orders /\ c.orderPool = b.orderPool
             /\ c.orderOf = b.orderOf /\ c.levels = b.levels /\ c.levelAt = b.levelAt
             /\ c.status # "running"
  <2>1. Relinked(b, c) /\ c.status = "poolAssert"
    BY <1>4, FailRelinked DEF Ends
  <2>2. c.levels = b.levels
    BY <1>4 DEF Fail, Shaped, BooksOn
  <2> QED BY <2>1, <2>2 DEF Relinked
<1>5. ASSUME b.best[side] # Null,
             c = [b EXCEPT !.levelPool.free = free, !.best[side] = Null]
      PROVE  /\ Shaped(c) /\ c.orders = b.orders /\ c.orderPool = b.orderPool
             /\ c.orderOf = b.orderOf /\ c.levels = b.levels /\ c.levelAt = b.levelAt
             /\ c.levelPool = pool /\ c.best = best
  <2>1. /\ free \in [LevelBlocks -> BOOLEAN]
        /\ c = [d EXCEPT !.best = best]
    BY <1>1, <1>5 DEF Shaped, BooksOn
  <2> HIDE DEF free
  <2>2. pool \in Pools(NumLevels)
    BY <1>1, <2>1 DEF Pools, LevelBlocks
  <2>3. best \in [Sides -> Opened(b)]
    BY <1>1
  <2> HIDE DEF best, pool
  <2>4. /\ Shaped(d) /\ Opened(d) = Opened(b) /\ d.levelPool = pool
        /\ d.levels = b.levels /\ d.levelAt = b.levelAt /\ d.orderOf = b.orderOf
        /\ d.orderPool = b.orderPool /\ d.orders = b.orders
    BY <2>2, LevelPoolSet
  <2> HIDE DEF d
  <2>5. /\ c \in BooksOn(Opened(b)) /\ c.levelPool = pool /\ c.best = best
        /\ c.levels = b.levels /\ c.levelAt = b.levelAt /\ c.orderOf = b.orderOf
        /\ c.orderPool = b.orderPool /\ c.orders = b.orders
    BY <2>1, <2>3, <2>4 DEF Shaped, BooksOn
  <2>6. Opened(c) = Opened(b)
    BY <2>5 DEF Opened
  <2> QED BY <2>5, <2>6 DEF Shaped
<1>6. /\ Released(b.levelPool, pool)
      /\ \A s \in Sides : best[s] = IF s = side THEN Null ELSE b.best[s]
      /\ \A l \in LevelBlocks : pool.free[l] <=> b.levelPool.free[l] \/ l \in met
  <2> HIDE DEF met
  <2> QED BY <1>1, Sizes DEF Released, Pools
<1> HIDE DEF best, pool, met, free
<1> QED
  BY <1>2, <1>3, <1>4, <1>5, <1>6 DEF met

\* After a CLEAR nothing rests.
LEMMA ClearKeeps ==
  ASSUME NEW b, Shaped(b), b.status = "running", NEW t, NEW n, Kept(b, t, n),
         NEW c, c = Clear(b)
  PROVE  Becomes(c, {}, 0)
<1> DEFINE b1 == ClearOrders(b)
           b2 == ClearLevels(b1, "BUY")
<1>1. /\ Shaped(b1) /\ b1.status = b.status /\ b1.orders = b.orders
      /\ b1.levels = b.levels /\ b1.levelPool = b.levelPool
      /\ Released(b.orderPool, b1.orderPool)
      /\ \A o \in OrderBlocks :
           b1.orderPool.free[o] <=> b.orderPool.free[o]
                                    \/ \E i \in OrderIds : b.orderOf[TickerId][i] = o
      /\ \A i \in OrderIds : b1.orderOf[TickerId][i] = Null
  BY ClearOrdersSpec
<1>2. \A o \in OrderBlocks : ~Rests(b1, o)
  BY <1>1 DEF Kept, Filed, Rests
<1>3. c = IF b2.status # "running" THEN b2 ELSE ClearLevels(b2, "SELL")
  BY DEF Clear
<1> HIDE DEF b1
<1>4. /\ Shaped(b2) /\ b2.orders = b1.orders /\ b2.orderPool = b1.orderPool
      /\ b2.orderOf = b1.orderOf /\ b2.levels = b1.levels
      /\ b2.status = "running" => Released(b1.levelPool, b2.levelPool)
  BY <1>1, ClearLevelsSpec DEF Sides
<1> HIDE DEF b2
<1>5. /\ Shaped(c) /\ c.orders = b1.orders /\ c.orderPool = b1.orderPool
      /\ c.orderOf = b1.orderOf /\ c.levels = b1.levels
      /\ c.status = "running" => /\ Released(b1.levelPool, b2.levelPool)
                                 /\ Released(b2.levelPool, c.levelPool)
  <2>1. CASE b2.status # "running"
    BY <1>3, <1>4, <2>1
  <2>2. CASE b2.status = "running"
    <3>1. c = ClearLevels(b2, "SELL") /\ "SELL" \in Sides
      BY <1>3, <2>2 DEF Sides
    <3>2. /\ Shaped(c) /\ c.orders = b2.orders /\ c.orderPool = b2.orderPool
          /\ c.orderOf = b2.orderOf /\ c.levels = b2.levels
          /\ c.status = "running" => Released(b2.levelPool, c.levelPool)
      BY <1>4, <2>2, <3>1, ClearLevelsSpec
    <3> QED BY <1>4, <2>2, <3>2
  <2> QED BY <2>1, <2>2
<1>6. \A o \in OrderBlocks : ~Rests(c, o)
  BY <1>2, <1>5 DEF Rests
<1>7. ASSUME c.status = "running" PROVE Kept(c, {}, 0)
  <2>1. /\ b.orderPool.next \in OrderBlocks /\ b.levelPool.next \in OrderBlocks
    BY Sizes DEF Shaped, BooksOn, Pools, OrderBlocks
  <2>2. PoolsReady(c)
    BY <1>1, <1>5, <1>7, <2>1 DEF Kept, PoolsReady, Released
  <2>3. Filed(c)
    BY <1>1, <1>5, <1>6 DEF Filed
  <2>4. Priced(c)
    BY <1>1, <1>5 DEF Kept, Priced
  <2>5. Replica(c) = {}
    BY <1>6 DEF Replica
  <2> QED BY <1>6, <2>2, <2>3, <2>4, <2>5 DEF Kept
<1> QED
  BY <1>5, <1>6, <1>7 DEF Becomes, AllListed

-----------------------------------------------------------------------------
(* The best bid and offer *)

\* Following the orders of a level leads to orders, until it leads nowhere.
LEMMA OrderChainIs ==
  ASSUME NEW b, Shaped(b), NEW from \in OrderRefs
  PROVE  /\ IsChain(OrderChain(b, from), NumOrders, Null, b.orders, from)
         /\ \A k \in 0 .. NumOrders : OrderChain(b, from)[k] \in OrderRefs
<1> DEFINE chain == OrderChain(b, from)
<1>1. \A l \in OrderRefs : (IF l = Null THEN Null ELSE b.orders[l].next) \in OrderRefs
  BY DEF Shaped, BooksOn, Orders, OrderRefs, OrderBlocks
<1>2. NumOrders \in Nat
  BY MEOrderBookAssumption
<1>3. \E f : IsChain(f, NumOrders, Null, b.orders, from)
  BY <1>2, ChainExists
<1>4. chain = CHOOSE f : IsChain(f, NumOrders, Null, b.orders, from)
  BY DEF OrderChain, IsChain
<1>5. IsChain(chain, NumOrders, Null, b.orders, from)
  BY <1>3, <1>4
<1> HIDE DEF chain
<1>6. \A k \in 0 .. NumOrders : chain[k] \in OrderRefs
  BY <1>1, <1>2, <1>5, ChainStays
<1> QED
  BY <1>5, <1>6 DEF chain

\* What is summed: the quantity of the order met k-th.
QtysMet(b, chain) == [k \in 1 .. NumOrders |-> b.orders[chain[k - 1]].qty]

LEMMA QtyOfIs ==
  ASSUME NEW b, NEW chain
  PROVE  IsSum(QtyOf(b, chain), NumOrders, QtysMet(b, chain))
<1> DEFINE P(f) == f = [k \in 0 .. NumOrders |->
                          IF k = 0 THEN 0 ELSE f[k - 1] + b.orders[chain[k - 1]].qty]
<1>1. ASSUME NEW f PROVE P(f) <=> IsSum(f, NumOrders, QtysMet(b, chain))
  <2> DEFINE a == QtysMet(b, chain)
  <2>1. \A k \in 0 .. NumOrders : k # 0 => a[k] = b.orders[chain[k - 1]].qty
    BY MEOrderBookAssumption DEF QtysMet
  <2> HIDE DEF a
  <2>2. [k \in 0 .. NumOrders |-> IF k = 0 THEN 0 ELSE f[k - 1] + b.orders[chain[k - 1]].qty]
          = [k \in 0 .. NumOrders |-> IF k = 0 THEN 0 ELSE f[k - 1] + a[k]]
    BY <2>1
  <2> QED BY <2>2 DEF IsSum, a
<1>2. \E f : P(f)
  BY <1>1, SumExists, MEOrderBookAssumption
<1>3. QtyOf(b, chain) = CHOOSE f : P(f)
  BY DEF QtyOf
<1>4. P(QtyOf(b, chain))
  BY <1>2, <1>3
<1> HIDE DEF P
<1> QED
  BY <1>1, <1>4

\* The place where a walk that ends does so.
LEMMA FirstEnd ==
  ASSUME NEW S \in SUBSET (1 .. NumOrders), S # {}
  PROVE  Min(S) \in S /\ \A k \in S : Min(S) <= k
<1>1. S \in SUBSET Nat
  BY MEOrderBookAssumption
<1>2. \E d \in S : \A e \in S : d <= e
  BY <1>1, LeastNatural
<1> QED
  BY <1>2 DEF Min

LEMMA QuoteTyped ==
  ASSUME NEW b, Shaped(b), Priced(b), NEW s \in Sides, WalkStatus(b, s) = "running"
  PROVE  Quote(b, s) \in Quotes
<1> DEFINE from  == b.levels[b.best[s]].first
           chain == OrderChain(b, from)
           ends  == ChainEnds(chain)
           sum   == QtyOf(b, chain)
<1>1. CASE b.best[s] = Null
  BY <1>1 DEF Quote, NoQuote, Quotes
<1>2. CASE b.best[s] # Null
  <2>1. b.best[s] \in LevelBlocks /\ from \in OrderRefs /\ from # Null
    BY <1>2 DEF Shaped, BooksOn, Opened, LevelsOn
  <2>2. /\ b.levels[b.best[s]].price \in Prices \cup {0}
        /\ Quote(b, s) = [price |-> b.levels[b.best[s]].price, qty |-> sum[Min(ends)]]
    BY <1>2, <2>1 DEF Priced, Quote
  <2>3. ends # {} /\ chain[Min(ends)] # Null
    BY <1>2 DEF WalkStatus
  <2> HIDE DEF from
  <2>4. /\ \A k \in 0 .. NumOrders : chain[k] \in OrderRefs
        /\ IsChain(chain, NumOrders, Null, b.orders, from)
    BY <2>1, OrderChainIs
  <2>5. chain[0] = from
    BY <2>4, Sizes DEF IsChain
  <2>6. IsSum(sum, NumOrders, QtysMet(b, chain))
    BY QtyOfIs
  <2> HIDE DEF chain, sum
  <2>7. /\ Min(ends) \in 1 .. NumOrders /\ NumOrders \in Nat
        /\ \A k \in 1 .. NumOrders : k < Min(ends) => chain[k] # Null
    <3>1. ends \in SUBSET (1 .. NumOrders) /\ NumOrders \in Nat
      BY Sizes DEF ChainEnds
    <3>2. Min(ends) \in ends /\ \A k \in ends : Min(ends) <= k
      BY <2>3, <3>1, FirstEnd
    <3>3. \A k \in 1 .. NumOrders : chain[k] = Null => k \in ends
      BY DEF ChainEnds
    <3> QED BY <3>1, <3>2, <3>3
  <2>8. \A k \in 1 .. Min(ends) : QtysMet(b, chain)[k] \in Nat
    <3> TAKE k \in 1 .. Min(ends)
    <3>1. k \in 1 .. NumOrders /\ k - 1 \in 0 .. NumOrders /\ k - 1 < Min(ends)
      BY <2>7
    <3>2. chain[k - 1] \in OrderBlocks
      <4>1. chain[k - 1] # Null
        BY <2>1, <2>5, <2>7, <3>1
      <4> QED BY <2>4, <3>1, <4>1 DEF OrderRefs, OrderBlocks
    <3> QED BY <3>1, <3>2 DEF QtysMet, Shaped, BooksOn, Orders
  <2>9. sum[Min(ends)] \in Nat
    <3> HIDE DEF ends
    <3>1. Min(ends) \in 0 .. NumOrders /\ Min(ends) \in 0 .. Min(ends)
      BY <2>7
    <3> QED BY <2>6, <2>7, <2>8, <3>1, SumIsNatural
  <2> QED BY <2>2, <2>9 DEF Quotes
<1> QED
  BY <1>1, <1>2

-----------------------------------------------------------------------------
(* The invariant of any book *)

\* What follows any update of the book is the same for all of them.
LEMMA UpdateKeeps ==
  ASSUME IInv, NEW u, OnMarketUpdate(u), Becomes(Applied(book, u), told', lastId'),
         lastId' \in 0 .. NumOrders,
         Applied(book, u).status = "running" => lastId' \in OrderIds
  PROVE  IInv'
<1> DEFINE b       == Applied(book, u)
           flagged == Flagged(book, u)
           broken  == {s \in flagged : WalkStatus(b, s) # "running"}
<1>1. Running /\ Typed
  BY DEF IInv, OnMarketUpdate
<1>2. flagged \subseteq Sides
  BY DEF Flagged
<1>3. \/ b.status # "running" /\ book' = b /\ bbo' = bbo
      \/ /\ b.status = "running"
         /\ \E s \in broken : book' = Fail(b, WalkStatus(b, s))
         /\ bbo' = bbo
      \/ /\ b.status = "running" /\ broken = {}
         /\ bbo' = [s \in Sides |-> IF s \in flagged THEN Quote(b, s) ELSE bbo[s]]
         /\ book' = b \/ book' = Fail(b, "crashed")
  BY DEF OnMarketUpdate
<1>4. \A s \in broken : WalkStatus(b, s) \in {"hung", "crashed"}
  BY DEF WalkStatus
<1>5. applied' \in 0 .. MaxUpdates /\ missed' \subseteq Sides /\ sound' \in BOOLEAN
  <2>1. applied' = applied + 1 /\ applied < MaxUpdates /\ missed' \subseteq Sides
    BY <1>1, <1>2 DEF OnMarketUpdate, Typed
  <2>2. sound' \in BOOLEAN
    BY DEF OnMarketUpdate
  <2> QED BY <1>1, <2>1, <2>2, MarketOrderBookAssumption DEF Typed
<1> HIDE DEF b, flagged
<1>6. /\ Shaped(b) /\ AllListed(b)
      /\ b.status = "running" => Kept(b, told', lastId') /\ lastId' \in OrderIds
  BY DEF Becomes, b
<1>7. \A how \in Ends : /\ Shaped(Fail(b, how)) /\ AllListed(Fail(b, how))
                        /\ Fail(b, how).status # "running"
  BY <1>6, FailKeeps DEF Ends
<1>8. /\ Shaped(book') /\ AllListed(book')
      /\ book'.status = "running" => Kept(book', told', lastId') /\ lastId' \in OrderIds
  BY <1>3, <1>4, <1>6, <1>7 DEF Ends
<1>9. bbo' \in [Sides -> Quotes]
  <2>1. CASE bbo' = bbo
    BY <1>1, <2>1 DEF Typed
  <2>2. CASE /\ b.status = "running" /\ broken = {}
             /\ bbo' = [s \in Sides |-> IF s \in flagged THEN Quote(b, s) ELSE bbo[s]]
    <3>1. \A s \in flagged : Quote(b, s) \in Quotes
      BY <1>2, <1>6, <2>2, QuoteTyped DEF Kept
    <3> QED BY <1>1, <2>2, <3>1 DEF Typed
  <2> QED BY <1>3, <2>1, <2>2
<1> QED
  BY <1>5, <1>8, <1>9 DEF IInv, Typed, Running, Shaped, AllListed, Kept,
       PoolsReady, Filed, Priced, Replica, Listed, Rests, Opened, BooksOn

LEMMA InitHolds == Init => IInv
<1> SUFFICES ASSUME Init PROVE IInv
  OBVIOUS
<1>1. book = NewBook
  BY DEF Init
<1>2. /\ NewBook.status = "running" /\ NewBook.orderPool = NewPool(NumOrders)
      /\ NewBook.levelPool = NewPool(NumLevels)
      /\ NewBook.orders = [o \in OrderBlocks |-> EmptyOrder]
      /\ NewBook.levels = [l \in LevelBlocks |-> EmptyLevel]
      /\ NewBook.orderOf = [c \in Clients \cup {TickerId} |-> [i \in OrderIds |-> Null]]
      /\ NewBook.best = [s \in Sides |-> Null]
      /\ NewBook.levelAt = [i \in Slots |-> Null]
  BY DEF NewBook, OrderBlocks, LevelBlocks, Slots
<1>3. \A n \in Nat \ {0} : /\ NewPool(n) \in Pools(n) /\ ~NewPool(n).failed
                           /\ NewPool(n).free[NewPool(n).next]
                           /\ \A k \in 0 .. (n - 1) : NewPool(n).free[k]
  BY DEF NewPool, Pools
<1>4. Shaped(NewBook)
  <2>1. NumOrders \in Nat \ {0} /\ NumLevels \in Nat \ {0}
    BY MEOrderBookAssumption
  <2>2. EmptyOrder \in Orders /\ EmptyLevel \in LevelsOn(Opened(NewBook))
    BY DEF EmptyOrder, EmptyLevel, Orders, LevelsOn, Opened, OrderRefs, Sides
  <2>3. /\ NewBook.orders \in [OrderBlocks -> Orders]
        /\ NewBook.levels \in [LevelBlocks -> LevelsOn(Opened(NewBook))]
        /\ NewBook.best \in [Sides -> Opened(NewBook)]
        /\ NewBook.levelAt \in [Slots -> Opened(NewBook)]
        /\ NewBook.orderOf \in [Clients \cup {TickerId} -> [OrderIds -> OrderRefs]]
    BY <1>2, <2>2 DEF Opened, OrderRefs
  <2>4. NewBook.orderPool \in Pools(NumOrders) /\ NewBook.levelPool \in Pools(NumLevels)
    BY <1>2, <1>3, <2>1
  <2>5. NewBook = [orders |-> NewBook.orders, orderPool |-> NewBook.orderPool,
                   levels |-> NewBook.levels, levelPool |-> NewBook.levelPool,
                   best |-> NewBook.best, levelAt |-> NewBook.levelAt,
                   orderOf |-> NewBook.orderOf, status |-> NewBook.status]
    BY DEF NewBook
  <2> QED BY <1>2, <2>3, <2>4, <2>5 DEF Shaped, BooksOn
<1>5. \A o \in OrderBlocks : ~Rests(NewBook, o)
  BY <1>2, <1>3, Sizes DEF Rests, OrderBlocks
<1>6. Kept(NewBook, {}, 0)
  <2>1. PoolsReady(NewBook)
    BY <1>2, <1>3, Sizes DEF PoolsReady
  <2>2. Filed(NewBook)
    BY <1>2, <1>5 DEF Filed
  <2>3. Priced(NewBook)
    BY <1>2 DEF Priced, EmptyLevel
  <2>4. Replica(NewBook) = {}
    BY <1>5 DEF Replica
  <2> QED BY <1>5, <2>1, <2>2, <2>3, <2>4 DEF Kept
<1>7. Typed
  <2>1. AllListed(NewBook)
    BY <1>5 DEF AllListed
  <2>2. NoQuote \in Quotes
    BY DEF NoQuote, Quotes
  <2> QED
    BY <1>1, <1>4, <2>1, <2>2, Sizes, MarketOrderBookAssumption
    DEF Init, Typed, OrderBlocks
<1> QED
  BY <1>1, <1>6, <1>7 DEF Init, IInv

LEMMA NextKeeps == IInv /\ [Next]_vars => IInv'
<1> SUFFICES ASSUME IInv, [Next]_vars PROVE IInv'
  OBVIOUS
<1>1. Typed /\ (Running => Kept(book, told, lastId)) /\ lastId \in Nat
  BY DEF IInv, Typed
<1>2. CASE OnAdd
  <2>0. PICK oid \in (lastId + 1) .. NumOrders :
          /\ \E s \in Sides, p \in Prices, q \in Qtys :
               /\ OnMarketUpdate(Add(oid, s, p, q))
               /\ told' = told \cup {[oid |-> oid, side |-> s, price |-> p, qty |-> q]}
          /\ lastId' = oid
    BY <1>2 DEF OnAdd
  <2>1. PICK s \in Sides, p \in Prices, q \in Qtys :
          /\ OnMarketUpdate(Add(oid, s, p, q))
          /\ told' = told \cup {[oid |-> oid, side |-> s, price |-> p, qty |-> q]}
    BY <2>0
  <2> DEFINE u == Add(oid, s, p, q)
  <2>2. Running /\ lastId' = oid /\ oid \in 0 .. NumOrders
    BY <1>1, <2>0, <2>1, Sizes DEF OnMarketUpdate
  <2>3. Applied(book, u) = AddNew(book, u)
    BY DEF Applied, Add
  <2>4. /\ Becomes(AddNew(book, u), told', oid)
        /\ AddNew(book, u).status = "running" => oid \in OrderIds
    BY <1>1, <2>1, <2>2, AddNewKeeps DEF Typed, Running
  <2> HIDE DEF u
  <2> QED BY <2>1, <2>2, <2>3, <2>4, UpdateKeeps DEF u
<1>3. CASE OnModify
  <2>1. PICK t \in told : \E q \in 1 .. (t.qty - 1) :
          /\ OnMarketUpdate(About("MODIFY", t, q))
          /\ told' = (told \ {t}) \cup {[t EXCEPT !.qty = q]}
    BY <1>3 DEF OnModify
  <2>2. PICK q \in 1 .. (t.qty - 1) :
          /\ OnMarketUpdate(About("MODIFY", t, q))
          /\ told' = (told \ {t}) \cup {[t EXCEPT !.qty = q]}
    BY <2>1
  <2> DEFINE u == About("MODIFY", t, q)
  <2>3. Running /\ lastId' = lastId /\ lastId \in 0 .. NumOrders /\ lastId \in OrderIds
    BY <1>1, <1>3, <2>2 DEF OnModify, OnMarketUpdate, Typed
  <2>4. Applied(book, u) = Modify(book, u)
    BY DEF Applied, About
  <2>5. Becomes(Modify(book, u), told', lastId)
    BY <1>1, <2>2, <2>3, ModifyKeeps DEF Typed, Running
  <2> HIDE DEF u
  <2> QED BY <2>2, <2>3, <2>4, <2>5, UpdateKeeps DEF u
<1>4. CASE OnCancel
  <2>1. PICK t \in told : /\ OnMarketUpdate(About("CANCEL", t, 0))
                          /\ told' = told \ {t}
    BY <1>4 DEF OnCancel
  <2> DEFINE u == About("CANCEL", t, 0)
  <2>3. Running /\ lastId' = lastId /\ lastId \in 0 .. NumOrders /\ lastId \in OrderIds
    BY <1>1, <1>4, <2>1 DEF OnCancel, OnMarketUpdate, Typed
  <2>4. Applied(book, u) = Cancel(book, u)
    BY DEF Applied, About
  <2>5. Becomes(Cancel(book, u), told', lastId)
    BY <1>1, <2>1, <2>3, CancelKeeps DEF Typed, Running
  <2> HIDE DEF u
  <2> QED BY <2>1, <2>3, <2>4, <2>5, UpdateKeeps DEF u
<1>5. CASE OnClear
  <2> DEFINE u == [type |-> "CLEAR", side |-> "INVALID", price |-> 0]
  <2>1. OnMarketUpdate(u) /\ Running /\ told' = {} /\ lastId' = 0
    BY <1>5 DEF OnClear, OnMarketUpdate
  <2>2. Applied(book, u) = Clear(book)
    BY DEF Applied
  <2>3. Becomes(Clear(book), told', lastId')
    BY <1>1, <2>1, ClearKeeps DEF Typed, Running
  <2>4. lastId' \in 0 .. NumOrders /\ lastId' \in OrderIds
    BY <2>1, Sizes DEF OrderBlocks
  <2> HIDE DEF u
  <2> QED BY <2>1, <2>2, <2>3, <2>4, UpdateKeeps
<1>6. CASE OnTrade
  <2>1. /\ Running
        /\ book' = book \/ book' = Fail(book, "crashed")
        /\ UNCHANGED <<bbo, told, lastId, applied, missed, sound>>
    BY <1>6 DEF OnTrade
  <2>2. CASE book' = book
    BY <1>1, <2>1, <2>2 DEF IInv, Typed, Running, Shaped, AllListed, Kept,
       PoolsReady, Filed, Priced, Replica, Listed, Rests, Opened, BooksOn
  <2>3. CASE book' = Fail(book, "crashed")
    <3>1. Shaped(book') /\ AllListed(book') /\ book'.status # "running"
      BY <1>1, <2>3, FailKeeps DEF Typed, Ends
    <3> QED BY <1>1, <2>1, <3>1 DEF IInv, Typed, Running
  <2> QED BY <2>1, <2>2, <2>3
<1>7. CASE UNCHANGED vars
  BY <1>1, <1>7 DEF IInv, Typed, Running, vars, Shaped, AllListed, Kept,
     PoolsReady, Filed, Priced, Replica, Listed, Rests, Opened, BooksOn
<1> QED
  BY <1>2, <1>3, <1>4, <1>5, <1>6, <1>7 DEF Next

LEMMA Invariant == Spec => []IInv
BY InitHolds, NextKeeps, PTL DEF Spec

\* The types of the variables, also of a book that failed: what the tables and the
\* bests hold are blocks, and what rests has a price and a quantity of an update.
THEOREM TypesHold == Spec => []TypeOK
<1>1. IInv => TypeOK
  <2> SUFFICES ASSUME IInv PROVE TypeOK
    OBVIOUS
  <2>1. Typed
    BY DEF IInv
  <2>2. Resting(book) = {book.orders[o] : o \in {k \in OrderBlocks : Rests(book, k)}}
    BY <2>1, RestingIs DEF Typed
  <2>3. \A r \in Resting(book) : r.price \in Prices /\ \E q \in Qtys : r.qty \in 1 .. q
    BY <2>1, <2>2 DEF Typed, AllListed, Listed
  <2>4. /\ book.status \in {"running"} \cup Ends
        /\ book.best \in [Sides -> Opened(book)]
        /\ book.orderOf \in [Clients \cup {TickerId} -> [OrderIds -> OrderRefs]]
    BY <2>1 DEF Typed, Shaped, BooksOn
  <2>5. Opened(book) \subseteq OrderIds \cup {Null} /\ OrderRefs = OrderIds \cup {Null}
    BY Sizes DEF Opened, OrderRefs, OrderBlocks
  <2>6. \A s \in Sides : /\ book.best[s] \in OrderIds \cup {Null}
                         /\ bbo[s].price \in Prices \cup {0} /\ bbo[s].qty \in Nat
    BY <2>1, <2>4, <2>5 DEF Typed, Quotes
  <2>7. \A i \in OrderIds : book.orderOf[TickerId][i] \in OrderIds \cup {Null}
    BY <2>4, <2>5
  <2> QED BY <2>1, <2>3, <2>4, <2>6, <2>7 DEF TypeOK, Typed
<1> QED
  BY <1>1, Invariant, PTL

\* However the rings of the trader's book were damaged and whatever its tables
\* still point to, while it runs its pool holds the orders the updates left.
THEOREM ReplicaHolds == Spec => []BookIsReplica
<1>1. ASSUME IInv, Running
      PROVE  {[oid |-> r.moid, side |-> r.side, price |-> r.price, qty |-> r.qty] :
                r \in Resting(book)} = told
  <2>1. Shaped(book) /\ Replica(book) = told
    BY <1>1 DEF IInv, Typed, Kept
  <2>2. Resting(book) = {book.orders[o] : o \in {k \in OrderBlocks : Rests(book, k)}}
    BY <2>1, RestingIs
  <2> QED BY <2>1, <2>2 DEF Replica, Entry
<1>2. IInv => BookIsReplica
  BY <1>1 DEF BookIsReplica
<1> QED
  BY <1>2, Invariant, PTL

-----------------------------------------------------------------------------
(* The rings of the levels *)

\* The levels of a side in use.
LevelsOf(b, s) == {l \in LevelBlocks : InUse(b, l) /\ b.levels[l].side = s}

\* Of the levels x, the pointer prev or next of k is v.
PrevIs(x, y, k, v) ==
  \A j \in LevelBlocks : /\ y[j].prev = IF j = k THEN v ELSE x[j].prev
                         /\ y[j].next = x[j].next
NextIs(x, y, k, v) ==
  \A j \in LevelBlocks : /\ y[j].next = IF j = k THEN v ELSE x[j].next
                         /\ y[j].prev = x[j].prev

LEMMA PrevPointers ==
  ASSUME NEW S, NEW lv \in [LevelBlocks -> LevelsOn(S)], NEW k \in LevelBlocks, NEW v \in S
  PROVE  PrevIs(lv, [lv EXCEPT ![k].prev = v], k, v)
BY DEF LevelsOn, PrevIs

LEMMA NextPointers ==
  ASSUME NEW S, NEW lv \in [LevelBlocks -> LevelsOn(S)], NEW k \in LevelBlocks, NEW v \in S
  PROVE  NextIs(lv, [lv EXCEPT ![k].next = v], k, v)
BY DEF LevelsOn, NextIs

\* Two pointers prev and two pointers next set one after the other.
Pointers(x, y, p1, pv1, p2, pv2, n1, nv1, n2, nv2) ==
  \A j \in LevelBlocks :
    /\ y[j].prev = IF j = p2 THEN pv2 ELSE IF j = p1 THEN pv1 ELSE x[j].prev
    /\ y[j].next = IF j = n2 THEN nv2 ELSE IF j = n1 THEN nv1 ELSE x[j].next

SetFour(x, p1, pv1, p2, pv2, n1, nv1, n2, nv2) ==
  [[[[x EXCEPT ![p1].prev = pv1] EXCEPT ![p2].prev = pv2]
     EXCEPT ![n1].next = nv1] EXCEPT ![n2].next = nv2]

LEMMA FourPointers ==
  ASSUME NEW S, NEW lv \in [LevelBlocks -> LevelsOn(S)],
         NEW p1 \in LevelBlocks, NEW pv1 \in S, NEW p2 \in LevelBlocks, NEW pv2 \in S,
         NEW n1 \in LevelBlocks, NEW nv1 \in S, NEW n2 \in LevelBlocks, NEW nv2 \in S
  PROVE  Pointers(lv, SetFour(lv, p1, pv1, p2, pv2, n1, nv1, n2, nv2),
                  p1, pv1, p2, pv2, n1, nv1, n2, nv2)
<1> DEFINE a1 == [lv EXCEPT ![p1].prev = pv1]
           a2 == [a1 EXCEPT ![p2].prev = pv2]
           a3 == [a2 EXCEPT ![n1].next = nv1]
           a4 == [a3 EXCEPT ![n2].next = nv2]
<1>1. a1 \in [LevelBlocks -> LevelsOn(S)] /\ PrevIs(lv, a1, p1, pv1)
  BY PrevSet, PrevPointers
<1> HIDE DEF a1
<1>2. a2 \in [LevelBlocks -> LevelsOn(S)] /\ PrevIs(a1, a2, p2, pv2)
  BY <1>1, PrevSet, PrevPointers
<1> HIDE DEF a2
<1>3. a3 \in [LevelBlocks -> LevelsOn(S)] /\ NextIs(a2, a3, n1, nv1)
  BY <1>2, NextSet, NextPointers
<1> HIDE DEF a3
<1>4. NextIs(a3, a4, n2, nv2)
  BY <1>3, NextPointers
<1> HIDE DEF a4
<1>5. Pointers(lv, a4, p1, pv1, p2, pv2, n1, nv1, n2, nv2)
  BY <1>1, <1>2, <1>3, <1>4 DEF PrevIs, NextIs, Pointers
<1> QED
  BY <1>5, Zenon DEF a1, a2, a3, a4, SetFour

\* The new level l is in the ring of its side s, behind all others.
LinkedLast(b, c, s, M, l) ==
  /\ c.status = "running"
  /\ \A k \in LevelBlocks \ (M \cup {l}) : /\ c.levels[k].next = b.levels[k].next
                                           /\ c.levels[k].prev = b.levels[k].prev
  /\ IF M = {}
       THEN /\ c.best = [b.best EXCEPT ![s] = l]
            /\ c.levels[l].next = l /\ c.levels[l].prev = l
       ELSE /\ c.best = b.best
            /\ Extended(M, b.levels, c.levels, b.best[s], l)

\* A side whose levels are in a ring from the best one, ranked by f.
SideRinged(b, s, f) ==
  IF LevelsOf(b, s) = {} THEN b.best[s] = Null
  ELSE Cyclic(LevelsOf(b, s), b.levels, f, b.best[s])

\* The search for the place of the level l does not end at any level of M.
Passes(b, M, l) == \A x \in M : GoesAfter(b, l, x)

LEMMA BeginsRing ==
  ASSUME NEW b, Shaped(b), b.status = "running", NEW l \in LevelBlocks, l \in Opened(b),
         NEW s, s = b.levels[l].side, b.best[s] = Null,
         NEW c, c = AddOrdersAtPrice(b, l)
  PROVE  LinkedLast(b, c, s, {}, l)
<1> DEFINE a1 == [b.levels EXCEPT ![l].prev = l]
           a2 == [a1 EXCEPT ![l].next = l]
           b1 == [b EXCEPT !.levelAt[b.levels[l].price % NumPriceLevels] = l]
           T  == [LevelBlocks -> LevelsOn(Opened(b))]
<1>1. b1.best = b.best /\ b1.levels = b.levels /\ b1.status = b.status
  BY DEF Shaped, BooksOn
<1>2. c = [b1 EXCEPT !.best[s] = l, !.levels[l].prev = l, !.levels[l].next = l]
  <2> HIDE DEF b1
  <2>1. b1.best[s] = Null
    BY <1>1
  <2> QED
    BY <2>1 DEF AddOrdersAtPrice, b1
<1>3. c.status = "running" /\ c.best = [b.best EXCEPT ![s] = l] /\ c.levels = a2
  BY <1>1, <1>2 DEF Shaped, BooksOn
<1>4. b.levels \in T
  BY DEF Shaped, BooksOn
<1>5. a1 \in T /\ PrevIs(b.levels, a1, l, l)
  BY <1>4, PrevSet, PrevPointers
<1> HIDE DEF a1
<1>6. NextIs(a1, a2, l, l)
  BY <1>5, NextPointers
<1> QED
  BY <1>3, <1>5, <1>6 DEF LinkedLast, PrevIs, NextIs

\* The walk of addOrdersAtPrice comes around to the best level.
LEMMA InsertsLast ==
  ASSUME NEW b, Shaped(b), b.status = "running", NEW l \in LevelBlocks, l \in Opened(b),
         NEW s, s = b.levels[l].side,
         NEW M, Within(M, NumLevels), l \notin M, Passes(b, M, l),
         NEW r, Cyclic(M, b.levels, r, b.best[s]),
         NEW c, c = AddOrdersAtPrice(b, l)
  PROVE  LinkedLast(b, c, s, M, l)
<1> DEFINE side  == b.levels[l].side
           b1    == [b EXCEPT !.levelAt[b.levels[l].price % NumPriceLevels] = l]
           h     == b1.best[side]
           chain == NextChain(b1, h)
           Stop(k) == \/ chain[k] \in {h, Null}
                      \/ ~GoesAfter(b1, l, chain[k])
           stops == {k \in 1 .. NumLevels : Stop(k)}
           stop  == CHOOSE k \in stops : \A j \in stops : k <= j
<1>1. /\ b1.best = b.best /\ b1.levels = b.levels /\ b1.status = b.status
      /\ b1.levels \in [LevelBlocks -> LevelsOn(Opened(b))]
      /\ NumLevels \in Nat \ {0}
  BY MEOrderBookAssumption DEF Shaped, BooksOn
<1>3. c = IF h = Null
            THEN [b1 EXCEPT !.best[side] = l, !.levels[l].prev = l, !.levels[l].next = l]
          ELSE IF ~GoesAfter(b1, l, h) THEN InsertBefore(b1, l, h, h)
          ELSE IF stops = {} THEN Fail(b1, "hung")
          ELSE IF chain[stop] = Null THEN Fail(b1, "crashed")
          ELSE IF chain[stop] = h THEN InsertLast(b1, l, h)
          ELSE InsertBefore(b1, l, chain[stop], h)
  <2> HIDE DEF chain, stop, Stop
  <2> QED
    BY Zenon DEF AddOrdersAtPrice, chain, stop, Stop
<1>4. /\ \A x \in M : GoesAfter(b1, l, x)
      /\ Cyclic(M, b1.levels, r, h)
      /\ M \subseteq LevelBlocks /\ Null \notin M
  BY <1>1 DEF Passes, GoesAfter, Within, LevelBlocks, Null
<1> HIDE DEF b1, side
<1>5. IsChain(chain, NumLevels, Null, b1.levels, h)
  <2>1. \E f : IsChain(f, NumLevels, Null, b1.levels, h)
    BY <1>1, ChainExists
  <2>2. chain = CHOOSE f : IsChain(f, NumLevels, Null, b1.levels, h)
    BY DEF NextChain, IsChain
  <2> QED BY <2>1, <2>2
<1> HIDE DEF chain, h
<1>6. Walk(NumLevels, M, b1.levels, h, chain)
  BY <1>1, <1>4, <1>5, WalkStays
<1>7. PICK m \in 1 .. NumLevels : chain[m] = h
  BY <1>1, <1>4, <1>6, WalkReturns
<1>8. stops # {} /\ chain[stop] = h
  <2>1. m \in stops
    BY <1>7
  <2>2. stops \in SUBSET Nat
    BY <1>1
  <2>3. \A k \in stops : chain[k] = h
    <3>1. \A k \in 1 .. NumLevels : chain[k] \in M
      BY <1>1, <1>6 DEF Walk
    <3> QED BY <1>4, <3>1
  <2> HIDE DEF stops
  <2>4. \E k \in stops : \A j \in stops : k <= j
    BY <2>1, <2>2, LeastNatural
  <2> QED BY <2>1, <2>3, <2>4
<1> HIDE DEF stop, stops
<1>9. /\ h \in M /\ b1.levels[h].prev \in M /\ b1.levels[b1.levels[h].prev].next = h
      /\ h # Null /\ b1.levels[h].prev # Null
  BY <1>4 DEF Cyclic
<1>10. c = InsertLast(b1, l, h)
  BY <1>3, <1>4, <1>8, <1>9
<1> DEFINE last == b1.levels[h].prev
           w    == [[[[b1.levels EXCEPT ![l].prev = last] EXCEPT ![h].prev = l]
                       EXCEPT ![l].next = h] EXCEPT ![last].next = l]
<1>11. c = [b1 EXCEPT !.levels = w]
  BY <1>9, <1>10, Zenon DEF InsertLast
<1>12. c.status = "running" /\ c.best = b.best /\ c.levels = w
  <2> HIDE DEF w
  <2> QED BY <1>1, <1>11 DEF Shaped, BooksOn, b1
<1>13. /\ l \in Opened(b) /\ h \in Opened(b) /\ last \in Opened(b)
       /\ h \in LevelBlocks /\ last \in LevelBlocks
  <2>1. h \in LevelBlocks /\ last \in LevelBlocks
    BY <1>4, <1>9
  <2>2. \A x \in LevelBlocks : b1.levels[x].prev \in Opened(b) /\ b1.levels[x].next \in Opened(b)
    BY <1>1 DEF LevelsOn
  <2> QED BY <1>9, <2>1, <2>2
<1>14. Pointers(b1.levels, w, l, last, h, l, l, h, last, l)
  <2> DEFINE lv == b1.levels
             S  == Opened(b)
  <2>1. /\ lv \in [LevelBlocks -> LevelsOn(S)] /\ l \in S /\ h \in S /\ last \in S
        /\ h \in LevelBlocks /\ last \in LevelBlocks /\ l \in LevelBlocks
    BY <1>1, <1>13
  <2> HIDE DEF last, lv, S
  <2>2. Pointers(lv, SetFour(lv, l, last, h, l, l, h, last, l), l, last, h, l, l, h, last, l)
    BY <2>1, FourPointers
  <2> QED BY <2>2, Zenon DEF lv, SetFour
<1> HIDE DEF w
<1>15. l # h /\ l # last /\ M # {}
  BY <1>9
<1>16. h = b.best[s] /\ last = b.levels[h].prev
  BY <1>1 DEF h, side
<1>17. Extended(M, b.levels, w, h, l)
  <2> HIDE DEF last
  <2>1. \A x \in LevelBlocks :
          /\ w[x].prev = IF x = h THEN l ELSE IF x = l THEN last ELSE b.levels[x].prev
          /\ w[x].next = IF x = last THEN l ELSE IF x = l THEN h ELSE b.levels[x].next
    BY <1>1, <1>14 DEF Pointers
  <2>2. last # l /\ M \cup {l} \subseteq LevelBlocks
    BY <1>4, <1>15
  <2>3. \A x \in M \cup {l} :
          /\ w[x].next = IF x = l THEN h ELSE IF x = last THEN l ELSE b.levels[x].next
          /\ w[x].prev = IF x = h THEN l ELSE IF x = l THEN last ELSE b.levels[x].prev
    BY <2>1, <2>2
  <2> QED BY <1>16, <2>3 DEF Extended
<1> HIDE DEF last
<1>18. \A k \in LevelBlocks \ (M \cup {l}) : /\ w[k].next = b.levels[k].next
                                            /\ w[k].prev = b.levels[k].prev
  BY <1>1, <1>9, <1>14 DEF last, Pointers
<1> QED
  BY <1>12, <1>15, <1>16, <1>17, <1>18 DEF LinkedLast

\* An order of this side and price belongs behind all levels of its side.
Last(b, s, p) == s = "BUY" \/ \A x \in LevelsOf(b, s) : b.levels[x].price < p

LEMMA OpenLevelLinks ==
  ASSUME NEW b, Shaped(b), PoolsReady(b), b.status = "running", NEW o \in OrderBlocks,
         NEW s, s = b.orders[o].side, NEW p, p = b.orders[o].price, p # 0,
         NEW f, SideRinged(b, s, f), Last(b, s, p),
         ~Allocate(b.levelPool).failed, NEW c, c = OpenLevel(b, o)
  PROVE  LinkedLast(b, c, s, LevelsOf(b, s), b.levelPool.next)
<1> DEFINE l == b.levelPool.next
           M == LevelsOf(b, s)
           d == Opening(b, o)
<1>1. /\ Shaped(d) /\ l \in LevelBlocks /\ l \in Opened(d)
      /\ d.best = b.best /\ d.status = b.status
      /\ d.levels[l].price = p /\ d.levels[l].side = s
      /\ \A k \in LevelBlocks : k # l => d.levels[k] = b.levels[k]
      /\ c = AddOrdersAtPrice(d, l)
  BY OpeningSpec
<1> HIDE DEF d
<1>2. l \notin M /\ M \subseteq LevelBlocks /\ Within(M, NumLevels)
  BY DEF LevelsOf, InUse, PoolsReady, Within, LevelBlocks
<1>3. s \in Sides
  BY DEF Shaped, BooksOn, Orders
<1> DEFINE L == l
<1> HIDE DEF L, l
<1>4. CASE M = {}
  <2>1. d.best[s] = Null
    BY <1>1, <1>4 DEF SideRinged
  <2>2. LinkedLast(d, c, s, {}, l)
    BY <1>1, <2>1, BeginsRing
  <2>3. \A k \in LevelBlocks \ {l} : /\ c.levels[k].next = b.levels[k].next
                                     /\ c.levels[k].prev = b.levels[k].prev
    BY <1>1, <2>2 DEF LinkedLast
  <2>4. /\ c.status = "running" /\ c.best = [b.best EXCEPT ![s] = l]
        /\ c.levels[l].next = l /\ c.levels[l].prev = l
    BY <1>1, <2>2 DEF LinkedLast
  <2> HIDE DEF M
  <2>5. LinkedLast(b, c, s, M, l)
    BY <1>4, <2>3, <2>4 DEF LinkedLast
  <2> QED BY <2>5, Zenon DEF M, l
<1>5. CASE M # {}
  <2>1. Cyclic(M, b.levels, f, b.best[s])
    BY <1>5 DEF SideRinged
  <2>2. \A x \in M : d.levels[x] = b.levels[x]
    BY <1>1, <1>2
  <2>3. Alike(M, b.levels, d.levels)
    BY <2>2 DEF Alike
  <2>4. Cyclic(M, d.levels, f, d.best[s])
    BY <1>1, <2>1, <2>3, CyclicAlike
  <2>5. Passes(d, M, l)
    <3>1. ASSUME NEW x \in M PROVE GoesAfter(d, l, x)
      <4>1. CASE s = "BUY"
        BY <1>1, <4>1 DEF GoesAfter
      <4>2. CASE s # "BUY"
        <5>1. s = "SELL" /\ b.levels[x].price < p
          BY <1>3, <4>2 DEF Last, Sides
        <5> QED BY <1>1, <2>2, <5>1 DEF GoesAfter
      <4> QED BY <4>1, <4>2
    <3> QED BY <3>1 DEF Passes
  <2> HIDE DEF M
  <2>6. LinkedLast(d, c, s, M, l)
    BY <1>1, <1>2, <2>4, <2>5, InsertsLast
  <2>7. b.best[s] \in M
    BY <2>1 DEF Cyclic
  <2>8. Extended(M, b.levels, c.levels, b.best[s], l)
    <3>1. Extended(M, d.levels, c.levels, b.best[s], l)
      BY <1>1, <1>5, <2>6 DEF LinkedLast
    <3>2. b.levels[b.best[s]].prev = d.levels[b.best[s]].prev /\ Alike(M, b.levels, d.levels)
      BY <2>2, <2>3, <2>7
    <3> QED BY <3>1, <3>2, ExtendedAlike
  <2>9. \A k \in LevelBlocks \ (M \cup {l}) : /\ c.levels[k].next = b.levels[k].next
                                              /\ c.levels[k].prev = b.levels[k].prev
    BY <1>1, <2>6 DEF LinkedLast
  <2> QED BY <1>1, <1>5, <2>6, <2>8, <2>9, Zenon DEF LinkedLast, M, l
<1> QED
  BY <1>4, <1>5

\* Every level in use has an order, so the blocks of the levels last as long as
\* those of the orders.
LEMMA LevelsLast ==
  ASSUME NEW b, Shaped(b), PoolsReady(b), Ringed(b), ~Allocate(b.orderPool).failed
  PROVE  ~Allocate(b.levelPool).failed
<1> DEFINE o == b.orderPool.next
           l == b.levelPool.next
           g == [k \in OrderBlocks |-> IF k = l THEN o ELSE b.levels[k].first]
<1>1. /\ o \in OrderBlocks /\ l \in OrderBlocks /\ NumOrders \in Nat \ {0}
      /\ b.orderPool \in Pools(NumOrders) /\ b.levelPool \in Pools(NumOrders)
      /\ b.orderPool.free[o] /\ b.levelPool.free[l]
  BY Sizes DEF Shaped, BooksOn, Pools, OrderBlocks, PoolsReady
<1>2. \E k \in OrderBlocks : k # o /\ b.orderPool.free[k]
  <2> DEFINE q == Allocate(b.orderPool)
  <2>1. /\ q \in Pools(NumOrders) /\ q.free = [b.orderPool.free EXCEPT ![o] = FALSE]
        /\ q.free[q.next]
    BY <1>1, AllocateSpec DEF PoolsReady
  <2> HIDE DEF q
  <2>2. q.next \in OrderBlocks
    BY <2>1 DEF Pools, OrderBlocks
  <2>3. b.orderPool.free \in [OrderBlocks -> BOOLEAN]
    BY <1>1 DEF Pools, OrderBlocks
  <2> QED BY <2>1, <2>2, <2>3
<1>3. PICK k0 \in OrderBlocks : k0 # o /\ b.orderPool.free[k0]
  BY <1>2
<1> SUFFICES ASSUME Allocate(b.levelPool).failed PROVE FALSE
  OBVIOUS
<1>4. \A k \in OrderBlocks : k # l => InUse(b, k)
  <2> DEFINE q == Allocate(b.levelPool)
  <2>1. /\ q.free = [b.levelPool.free EXCEPT ![l] = FALSE]
        /\ \A k \in 0 .. (NumOrders - 1) : ~q.free[k]
    BY <1>1, AllocateSpec DEF PoolsReady
  <2> HIDE DEF q
  <2>2. b.levelPool.free \in [OrderBlocks -> BOOLEAN]
    BY <1>1 DEF Pools, OrderBlocks
  <2> QED BY <2>1, <2>2, Sizes DEF InUse, OrderBlocks
<1>5. \A k \in OrderBlocks : k # l =>
        /\ Rests(b, b.levels[k].first) /\ Level(b, b.levels[k].first) = k
  BY <1>4, Sizes DEF Ringed
<1> HIDE DEF o, l
<1>6. \A k \in OrderBlocks : g[k] \in OrderBlocks \ {k0}
  BY <1>1, <1>3, <1>5 DEF Rests
<1>7. \A k, j \in OrderBlocks : k # j => g[k] # g[j]
  <2>1. \A k \in OrderBlocks : k # l => b.levels[k].first # o
    BY <1>1, <1>5 DEF Rests
  <2> QED BY <1>5, <2>1
<1> HIDE DEF g
<1>8. IsFiniteSet(OrderBlocks) /\ Cardinality(OrderBlocks) = NumOrders
  <2>1. 0 \in Int /\ NumOrders - 1 \in Int
    BY <1>1
  <2>2. /\ IsFiniteSet(0 .. (NumOrders - 1))
        /\ Cardinality(0 .. (NumOrders - 1))
             = IF 0 > NumOrders - 1 THEN 0 ELSE (NumOrders - 1) - 0 + 1
    BY <2>1, FS_Interval
  <2> QED BY <1>1, <2>2 DEF OrderBlocks
<1> DEFINE T == OrderBlocks \ {k0}
<1>9. IsFiniteSet(T) /\ Cardinality(T) = NumOrders - 1
  BY <1>3, <1>8, FS_RemoveElement
<1>10. \E k, j \in OrderBlocks : k # j /\ g[k] = g[j]
  <2>1. g \in [OrderBlocks -> T]
    BY <1>6 DEF g
  <2> HIDE DEF T
  <2> QED BY <1>1, <1>8, <1>9, <2>1, FS_PigeonHole
<1> QED
  BY <1>7, <1>10

LEMMA AddOrderBehind ==
  ASSUME NEW b, Shaped(b), b.status = "running", NEW o \in OrderBlocks,
         NEW l, l = LevelOf(b, b.orders[o].price), l # Null,
         b.orders[b.levels[l].first].prev # Null,
         NEW c, c = AddOrder(b, o)
  PROVE  /\ c.status = "running" /\ c.levels = b.levels /\ c.best = b.best
         /\ c.levelAt = b.levelAt /\ c.levelPool = b.levelPool
<1> DEFINE d == AppendToLevel(b, o, l)
           ord == b.orders[o]
<1>1. l \in LevelBlocks /\ l \in Opened(b)
  <2>1. ord.price \in Nat
    BY DEF Shaped, BooksOn, Orders
  <2>2. ord.price % NumPriceLevels \in Slots
    BY <2>1, SlotInTable
  <2> HIDE DEF ord
  <2> QED BY <2>2 DEF LevelOf, Shaped, BooksOn, Opened, ord
<1>2. /\ d.status = "running" /\ d.levels = b.levels /\ d.best = b.best
      /\ d.levelAt = b.levelAt /\ d.levelPool = b.levelPool
  BY DEF AppendToLevel, Shaped, BooksOn
<1>3. Shaped(d)
  BY <1>1, AppendToLevelSpec
<1>4. c = IF d.status # "running" THEN d ELSE OrderOfIs(d, ord.client, ord.coid, o)
  BY DEF AddOrder, OrderOfIs
<1> HIDE DEF d, ord
<1>5. c = OrderOfIs(d, ord.client, ord.coid, o) /\ o \in OrderRefs
  BY <1>2, <1>4 DEF OrderRefs, OrderBlocks
<1> QED
  BY <1>2, <1>3, <1>5, OrderOfSet

LEMMA AddOrderOpens ==
  ASSUME NEW b, Shaped(b), PoolsReady(b), b.status = "running", NEW o \in OrderBlocks,
         NEW s, s = b.orders[o].side, NEW p, p = b.orders[o].price, p # 0,
         LevelOf(b, p) = Null,
         NEW f, SideRinged(b, s, f), Last(b, s, p),
         ~Allocate(b.levelPool).failed, NEW c, c = AddOrder(b, o)
  PROVE  LinkedLast(b, c, s, LevelsOf(b, s), b.levelPool.next)
<1> DEFINE d == OpenLevel(b, o)
           ord == b.orders[o]
<1>1. Shaped(d) /\ LinkedLast(b, d, s, LevelsOf(b, s), b.levelPool.next)
  BY OpenLevelLinks, OpenLevelSpec
<1>2. c = IF d.status # "running" THEN d ELSE OrderOfIs(d, ord.client, ord.coid, o)
  BY DEF AddOrder, OrderOfIs
<1> HIDE DEF d, ord
<1>3. c = OrderOfIs(d, ord.client, ord.coid, o) /\ o \in OrderRefs
  BY <1>1, <1>2 DEF OrderRefs, OrderBlocks, LinkedLast
<1>4. c.levels = d.levels /\ c.best = d.best /\ c.status = d.status
  BY <1>1, <1>3, OrderOfSet
<1> QED
  BY <1>1, <1>4, Zenon DEF LinkedLast

\* Each order is at a level of its own price and side.
Placed(b) ==
  \A o \in OrderBlocks :
    Rests(b, o) => /\ b.levels[Level(b, o)].price = b.orders[o].price
                   /\ b.levels[Level(b, o)].side = b.orders[o].side

\* The rank of a level is the price of an offer, and of a bid some number up to
\* n that says how late it was added.
Ranked(b, n, f) ==
  \A l \in LevelBlocks :
    InUse(b, l) => IF b.levels[l].side = "SELL" THEN f[l] = b.levels[l].price
                   ELSE f[l] \in 0 .. n

LevelsRinged(b, n, f) ==
  Ranked(b, n, f) /\ SideRinged(b, "BUY", f) /\ SideRinged(b, "SELL", f)

\* What a book is like in which nothing was linked wrongly.
Fit(b, n) == Ringed(b) /\ Placed(b) /\ \E f : LevelsRinged(b, n, f)

\* Why such a book may fail: no id or no block for another order is left.
Spent(b, n) == n = NumOrders \/ \A o \in OrderBlocks : ~b.orderPool.free[o]

\* What an order is linked to, when t rests.
LinksWell(b, t, u) ==
  LET l == LevelOf(b, u.price) IN
  IF l # Null
    THEN /\ l \in LiveBlocks(b.levelPool)
         /\ b.levels[l].price = u.price /\ b.levels[l].side = u.side
    ELSE b.best[u.side] = Null \/
         \A x \in t : x.side = u.side => u.side = "BUY" \/ x.price < u.price

LEMMA InUseIs ==
  ASSUME NEW b, Shaped(b), NEW l
  PROVE  l \in LiveBlocks(b.levelPool) <=> InUse(b, l)
BY DEF LiveBlocks, Blocks, InUse, Shaped, BooksOn, Pools, LevelBlocks

LEMMA LevelIsTold ==
  ASSUME NEW b, NEW t, NEW n, Kept(b, t, n), Ringed(b), Placed(b),
         NEW l, InUse(b, l)
  PROVE  \E x \in t : x.side = b.levels[l].side /\ x.price = b.levels[l].price
<1> DEFINE o == b.levels[l].first
<1>1. o \in OrderBlocks /\ Rests(b, o) /\ Level(b, o) = l
  BY DEF Ringed, InUse, Rests
<1>2. Entry(b.orders[o]) \in t
  BY <1>1 DEF Kept, Replica
<1>3. /\ Entry(b.orders[o]).side = b.levels[l].side
      /\ Entry(b.orders[o]).price = b.levels[l].price
  BY <1>1 DEF Placed, Entry
<1> QED
  BY <1>2, <1>3

LEMMA ToldHasLevel ==
  ASSUME NEW b, Shaped(b), NEW t, NEW n, Kept(b, t, n), Ringed(b), Placed(b), NEW x \in t
  PROVE  \E l \in LevelsOf(b, x.side) : b.levels[l].price = x.price /\ x.side \in Sides
<1>1. PICK o \in OrderBlocks : Rests(b, o) /\ Entry(b.orders[o]) = x
  BY DEF Kept, Replica
<1>2. InUse(b, Level(b, o))
  BY <1>1 DEF Ringed, Neighbours
<1>3. /\ b.levels[Level(b, o)].price = x.price /\ b.levels[Level(b, o)].side = x.side
      /\ x.side = b.orders[o].side /\ b.orders[o].side \in Sides
  BY <1>1 DEF Placed, Entry, Shaped, BooksOn, Orders
<1> QED
  BY <1>2, <1>3 DEF LevelsOf, InUse

LEMMA SideKept ==
  ASSUME NEW b, NEW c, NEW s, NEW f, NEW g, SideRinged(b, s, f),
         LevelsOf(c, s) = LevelsOf(b, s), c.best[s] = b.best[s],
         Alike(LevelsOf(b, s), b.levels, c.levels),
         \A x \in LevelsOf(b, s) : g[x] = f[x]
  PROVE  SideRinged(c, s, g)
<1> DEFINE M == LevelsOf(b, s)
<1>1. CASE M = {}
  BY <1>1 DEF SideRinged
<1>2. CASE M # {}
  <2>1. Cyclic(M, b.levels, f, b.best[s])
    BY <1>2 DEF SideRinged
  <2> HIDE DEF M
  <2>2. Cyclic(M, c.levels, g, b.best[s])
    BY <2>1, CyclicAlike DEF M
  <2> QED BY <1>2, <2>2 DEF SideRinged, M
<1> QED
  BY <1>1, <1>2

LEMMA SideGrows ==
  ASSUME NEW b, NEW c, NEW s, NEW f, NEW g, SideRinged(b, s, f),
         s \in DOMAIN b.best,
         NEW l, l \notin LevelsOf(b, s), LinkedLast(b, c, s, LevelsOf(b, s), l),
         LevelsOf(c, s) = LevelsOf(b, s) \cup {l}, g[l] \in Nat,
         \A x \in LevelsOf(b, s) : g[x] = f[x] /\ g[x] < g[l]
  PROVE  SideRinged(c, s, g)
<1> DEFINE M == LevelsOf(b, s)
<1>1. CASE M = {}
  <2>1. c.best[s] = l /\ c.levels[l].next = l /\ c.levels[l].prev = l /\ LevelsOf(c, s) = {l}
    BY <1>1 DEF LinkedLast
  <2>2. Cyclic({l}, c.levels, g, l)
    BY <2>1, CyclicAlone
  <2> QED BY <2>1, <2>2 DEF SideRinged
<1>2. CASE M # {}
  <2>1. /\ Cyclic(M, b.levels, f, b.best[s]) /\ c.best = b.best
        /\ Extended(M, b.levels, c.levels, b.best[s], l)
    BY <1>2 DEF SideRinged, LinkedLast
  <2> HIDE DEF M
  <2>2. Cyclic(M \cup {l}, c.levels, g, b.best[s])
    BY <2>1, CyclicExtended DEF M
  <2> QED BY <1>2, <2>1, <2>2 DEF SideRinged, M
<1> QED
  BY <1>1, <1>2

-----------------------------------------------------------------------------
(* The updates, of a book in which nothing was linked wrongly *)

\* The order of the block o comes to a book in which no level was changed.
LEMMA JoinFits ==
  ASSUME NEW b, NEW c, NEW n \in Nat, NEW id \in Nat, n < id, Fit(b, n), Ringed(c),
         c.levels = b.levels, c.best = b.best, c.levelPool = b.levelPool,
         c.levelAt = b.levelAt,
         NEW o \in OrderBlocks,
         \A k \in OrderBlocks : Rests(c, k) <=> (Rests(b, k) \/ k = o),
         \A k \in OrderBlocks : k # o => /\ c.orders[k].price = b.orders[k].price
                                         /\ c.orders[k].side = b.orders[k].side,
         b.levels[Level(c, o)].price = c.orders[o].price,
         b.levels[Level(c, o)].side = c.orders[o].side
  PROVE  Fit(c, id)
<1>1. PICK f : LevelsRinged(b, n, f)
  BY DEF Fit
<1>2. /\ \A l : InUse(c, l) <=> InUse(b, l)
      /\ \A s \in Sides : LevelsOf(c, s) = LevelsOf(b, s)
  BY DEF InUse, LevelsOf
<1>3. Ranked(c, id, f)
  <2>1. \A i \in 0 .. n : i \in 0 .. id
    OBVIOUS
  <2> QED BY <1>1, <1>2, <2>1 DEF LevelsRinged, Ranked
<1>4. LevelsRinged(c, id, f)
  BY <1>1, <1>2, <1>3, Zenon DEF LevelsRinged, SideRinged, Sides
<1>5. Placed(c)
  <2>1. ASSUME NEW k \in OrderBlocks, Rests(c, k)
        PROVE  /\ c.levels[Level(c, k)].price = c.orders[k].price
               /\ c.levels[Level(c, k)].side = c.orders[k].side
    <3>1. CASE k = o
      BY <3>1
    <3>2. CASE k # o
      <4>1. Rests(b, k) /\ Level(c, k) = Level(b, k)
        BY <2>1, <3>2 DEF Level, Slot
      <4> QED BY <3>2, <4>1 DEF Fit, Placed
    <3> QED BY <3>1, <3>2
  <2> QED BY <2>1 DEF Placed
<1> QED
  BY <1>4, <1>5 DEF Fit

\* It comes with a level of its own, behind all others of its side.
LEMMA OpenFits ==
  ASSUME NEW b, NEW c, NEW n \in Nat, NEW id \in Nat, n < id, Shaped(b), Fit(b, n), Ringed(c),
         NEW o \in OrderBlocks, NEW l, Opens(b, c, o, l),
         LevelOf(b, c.orders[o].price) = Null,
         \A k \in OrderBlocks : Rests(c, k) <=> (Rests(b, k) \/ k = o),
         \A k \in OrderBlocks : k # o => /\ c.orders[k].price = b.orders[k].price
                                         /\ c.orders[k].side = b.orders[k].side,
         NEW s \in Sides, c.orders[o].side = s, c.orders[o].price \in Nat,
         LinkedLast(b, c, s, LevelsOf(b, s), l), Last(b, s, c.orders[o].price)
  PROVE  Fit(c, id)
<1> DEFINE p == c.orders[o].price
<1>1. PICK f : LevelsRinged(b, n, f)
  BY DEF Fit
<1> DEFINE g == [k \in LevelBlocks |-> IF k = l THEN (IF s = "SELL" THEN p ELSE id)
                                       ELSE f[k]]
<1>2. /\ l \in LevelBlocks /\ ~InUse(b, l)
      /\ \A k \in LevelBlocks : InUse(c, k) <=> (InUse(b, k) \/ k = l)
      /\ \A k \in LevelBlocks :
           /\ c.levels[k].price = IF k = l THEN p ELSE b.levels[k].price
           /\ c.levels[k].side = IF k = l THEN s ELSE b.levels[k].side
  BY DEF Opens
<1>3. /\ LevelsOf(c, s) = LevelsOf(b, s) \cup {l}
      /\ \A z \in Sides : z # s => LevelsOf(c, z) = LevelsOf(b, z)
      /\ \A z \in Sides : l \notin LevelsOf(b, z) /\ LevelsOf(b, z) \subseteq LevelBlocks
  BY <1>2 DEF LevelsOf
<1>4. /\ g[l] = IF s = "SELL" THEN p ELSE id
      /\ \A k \in LevelBlocks : k # l => g[k] = f[k]
  BY <1>2
<1> HIDE DEF g
<1>5. Ranked(c, id, g)
  <2>1. \A i \in 0 .. n : i \in 0 .. id
    OBVIOUS
  <2>2. id \in 0 .. id
    OBVIOUS
  <2>3. Ranked(b, n, f)
    BY <1>1 DEF LevelsRinged
  <2> QED BY <1>2, <1>4, <2>1, <2>2, <2>3 DEF Ranked
<1>6. SideRinged(c, s, g)
  <2>1. SideRinged(b, s, f)
    BY <1>1 DEF LevelsRinged, Sides
  <2>2. s \in DOMAIN b.best
    BY DEF Shaped, BooksOn
  <2>3. g[l] \in Nat
    BY <1>4
  <2>4. ASSUME NEW x \in LevelsOf(b, s) PROVE g[x] = f[x] /\ g[x] < g[l]
    <3>1. x \in LevelBlocks /\ InUse(b, x) /\ b.levels[x].side = s /\ x # l
      BY <1>3 DEF LevelsOf
    <3>2. IF s = "SELL" THEN f[x] = b.levels[x].price ELSE f[x] \in 0 .. n
      BY <1>1, <3>1 DEF LevelsRinged, Ranked
    <3>3. CASE s = "SELL"
      BY <1>4, <3>1, <3>2, <3>3 DEF Last
    <3>4. CASE s # "SELL"
      BY <1>4, <3>1, <3>2, <3>4
    <3> QED BY <3>3, <3>4
  <2> QED BY <1>3, <2>1, <2>2, <2>3, <2>4, SideGrows
<1>7. ASSUME NEW z \in Sides, z # s PROVE SideRinged(c, z, g)
  <2>1. SideRinged(b, z, f)
    BY <1>1 DEF LevelsRinged, Sides
  <2>2. c.best[z] = b.best[z]
    <3>1. c.best = [b.best EXCEPT ![s] = l] \/ c.best = b.best
      BY DEF LinkedLast
    <3> QED BY <1>7, <3>1 DEF Shaped, BooksOn
  <2>3. Alike(LevelsOf(b, z), b.levels, c.levels)
    <3>1. \A x \in LevelsOf(b, z) : x \in LevelBlocks \ (LevelsOf(b, s) \cup {l})
      BY <1>3, <1>7 DEF LevelsOf
    <3> QED BY <3>1 DEF Alike, LinkedLast
  <2>4. \A x \in LevelsOf(b, z) : g[x] = f[x]
    BY <1>3, <1>4
  <2> QED BY <1>3, <1>7, <2>1, <2>2, <2>3, <2>4, SideKept
<1>8. LevelsRinged(c, id, g)
  <2>1. \A z \in Sides : SideRinged(c, z, g)
    BY <1>6, <1>7
  <2> QED BY <1>5, <2>1 DEF LevelsRinged, Sides
<1>9. Placed(c)
  <2>1. ASSUME NEW k \in OrderBlocks, Rests(c, k)
        PROVE  /\ c.levels[Level(c, k)].price = c.orders[k].price
               /\ c.levels[Level(c, k)].side = c.orders[k].side
    <3>1. CASE k = o
      <4>1. Slot(c.orders[o]) \in Slots
        BY SlotInTable DEF Slot
      <4>2. Level(c, k) = l
        BY <3>1, <4>1 DEF Opens, Level
      <4> QED BY <1>2, <3>1, <4>2
    <3>2. CASE k # o
      <4>1. Rests(b, k) /\ Slot(c.orders[k]) = Slot(b.orders[k])
        BY <2>1, <3>2 DEF Slot
      <4>2. InUse(b, Level(b, k)) /\ Slot(b.orders[k]) \in Slots
        BY <4>1, SlotIsIndex DEF Fit, Ringed, Neighbours
      <4>3. Slot(b.orders[k]) # Slot(c.orders[o])
        BY <4>2 DEF Level, LevelOf, Slot, InUse, LevelBlocks, Null
      <4>4. Level(c, k) = Level(b, k) /\ Level(b, k) # l /\ Level(b, k) \in LevelBlocks
        BY <1>2, <4>1, <4>2, <4>3 DEF Opens, Level, InUse
      <4>5. /\ c.levels[Level(b, k)].price = b.levels[Level(b, k)].price
            /\ c.levels[Level(b, k)].side = b.levels[Level(b, k)].side
        BY <1>2, <4>4
      <4> QED BY <3>2, <4>1, <4>4, <4>5 DEF Fit, Placed
    <3> QED BY <3>1, <3>2
  <2> QED BY <2>1 DEF Placed
<1> QED
  BY <1>8, <1>9 DEF Fit

LEMMA AddFits ==
  ASSUME NEW b, Shaped(b), b.status = "running", NEW t, NEW n \in OrderIds,
         Kept(b, t, n), Fit(b, n), NEW id \in (n + 1) .. NumOrders,
         NEW s \in Sides, NEW p \in Prices, NEW q \in Qtys,
         NEW u, u = Add(id, s, p, q), LinksWell(b, t, u), NEW c, c = AddNew(b, u)
  PROVE  /\ c.status = "running" => Fit(c, id)
         /\ c.status # "running" => Spent(c, id)
<1> DEFINE o    == b.orderPool.next
           pool == Allocate(b.orderPool)
           ord  == NewOrder(u)
           d    == Stored(b, o, ord, pool)
<1>1. /\ p \in Nat /\ p # 0 /\ q \in Nat /\ q # 0 /\ Null \in OrderRefs /\ n \in Nat
      /\ u.oid = id /\ u.side = s /\ u.price = p /\ u.qty = q
      /\ id \in Nat /\ n < id /\ id <= NumOrders
  BY MEOrderBookAssumption, MarketOrderBookAssumption DEF Add, OrderRefs
<1>2. /\ ord \in Orders /\ ord.moid = id /\ ord.moid \in Nat
      /\ ord.side = s /\ ord.price = p /\ ord.priority = 0
  BY <1>1 DEF NewOrder, Orders
<1>3. c = IF pool.failed THEN Fail(d, "poolAssert")
          ELSE IF u.oid \notin OrderIds THEN Fail(d, "outOfRange")
          ELSE AddOrder(d, o)
  BY DEF AddNew, Stored
<1> HIDE DEF ord
<1>4. /\ b.orderPool \in Pools(NumOrders) /\ o \in OrderBlocks /\ NumOrders \in Nat \ {0}
      /\ ~b.orderPool.failed /\ b.orderPool.free[o]
  BY Sizes DEF Shaped, BooksOn, Pools, OrderBlocks, Kept, PoolsReady
<1>5. /\ pool \in Pools(NumOrders)
      /\ pool.failed => \A k \in OrderBlocks : ~pool.free[k]
  BY <1>4, AllocateSpec DEF OrderBlocks
<1>6. d.orderPool = pool /\ d.best = b.best /\ d.status = "running"
  BY DEF Stored, Shaped, BooksOn
<1>7. Shaped(d)
  BY <1>2, <1>4, <1>5, StoredSpec DEF HasStored
<1>8. ~pool.failed => Took(b, d, o, ord)
  BY <1>2, TookBlock DEF Kept
<1> HIDE DEF d, pool, o
<1>9. CASE pool.failed \/ u.oid \notin OrderIds
  <2>1. c.orderPool = pool /\ c.status # "running"
    BY <1>3, <1>6, <1>7, <1>9 DEF Fail, Shaped, BooksOn
  <2>2. CASE pool.failed
    BY <1>5, <2>1, <2>2 DEF Spent
  <2>3. CASE u.oid \notin OrderIds
    <3>1. id = NumOrders
      BY <1>1, <2>3, Sizes DEF OrderBlocks
    <3> QED BY <2>1, <3>1 DEF Spent
  <2> QED BY <1>9, <2>2, <2>3
<1>10. CASE ~pool.failed /\ u.oid \in OrderIds
  <2>1. c = AddOrder(d, o) /\ Took(b, d, o, ord) /\ PoolsReady(d)
    BY <1>3, <1>8, <1>10 DEF Took
  <2>2. /\ d.levels = b.levels /\ d.levelAt = b.levelAt /\ d.levelPool = b.levelPool
        /\ \A k \in OrderBlocks : d.orders[k] = IF k = o THEN ord ELSE b.orders[k]
    BY <1>4, <2>1 DEF Took, Shaped, BooksOn
  <2>3. c.status = "running" => Added(d, c, o)
    BY <1>4, <1>6, <1>7, <2>1, AddOrderSpec DEF Added
  <2>4. PoolsReady(b) /\ Ringed(b)
    BY DEF Kept, Fit
  <2>5. ASSUME Added(d, c, o)
        PROVE  /\ \A k \in OrderBlocks : Rests(c, k) <=> (Rests(b, k) \/ k = o)
               /\ \A k \in OrderBlocks : k # o => /\ c.orders[k].price = b.orders[k].price
                                                  /\ c.orders[k].side = b.orders[k].side
               /\ c.orders[o].price = p /\ c.orders[o].side = s
               /\ LevelOf(b, p) = Null => Opens(b, c, o, b.levelPool.next)
    <3>1. /\ \A k \in OrderBlocks :
               /\ Rests(c, k) <=> (Rests(b, k) \/ k = o)
               /\ Content(c.orders[k]) = IF k = o THEN Content(ord) ELSE Content(b.orders[k])
          /\ LevelOf(b, p) = Null => Opens(b, c, o, b.levelPool.next)
      BY <1>2, <2>1, <2>4, <2>5, AddedBook
    <3>2. \A k \in OrderBlocks : k # o => /\ c.orders[k].price = b.orders[k].price
                                          /\ c.orders[k].side = b.orders[k].side
      BY <3>1, ContentIs
    <3>3. c.orders[o].price = p /\ c.orders[o].side = s
      BY <1>2, <1>4, <3>1, ContentIs
    <3> QED BY <3>1, <3>2, <3>3
  <2> DEFINE l == LevelOf(b, p)
  <2>6. CASE l # Null
    <3>1. InUse(b, l) /\ b.levels[l].price = p /\ b.levels[l].side = s
      BY <1>1, <2>6, InUseIs DEF LinksWell
    <3> DEFINE first == b.levels[l].first
               last  == b.orders[first].prev
    <3>2. Rests(b, first) /\ Rests(b, last)
      BY <2>4, <3>1 DEF Ringed, Neighbours, InUse, Rests
    <3>3. first # o /\ first \in OrderBlocks /\ last # Null /\ b.orders[last].priority = 0
      BY <1>4, <3>2, Sizes DEF Rests, Kept, Filed
    <3>4. LevelOf(d, d.orders[o].price) = l /\ d.orders[d.levels[l].first].prev # Null
      BY <1>2, <1>4, <2>2, <3>3 DEF LevelOf
    <3>5. /\ c.status = "running" /\ c.levels = b.levels /\ c.best = b.best
          /\ c.levelAt = b.levelAt /\ c.levelPool = b.levelPool
      <4> HIDE DEF l
      <4> QED BY <1>4, <1>6, <1>7, <2>1, <2>2, <2>6, <3>4, AddOrderBehind
    <3>6. \A k \in OrderBlocks : Rests(b, k) => b.orders[k].moid < id
      BY <1>1 DEF Kept
    <3>7. Follows(b, ord)
      BY <1>2, <3>1, <3>3, <3>6 DEF Follows, Before
    <3>8. Ringed(c)
      BY <2>1, <2>3, <2>4, <3>5, <3>7, AddKeepsRings
    <3>9. Level(c, o) = l
      BY <1>4, <2>3, <2>5, <3>5 DEF Level, LevelOf, Slot
    <3> QED
      BY <1>1, <1>4, <2>3, <2>5, <3>1, <3>5, <3>8, <3>9, JoinFits
  <2>7. CASE l = Null
    <3> DEFINE m == b.levelPool.next
    <3>1. Last(b, s, p)
      <4> SUFFICES ASSUME s # "BUY", NEW x \in LevelsOf(b, s) PROVE b.levels[x].price < p
        BY DEF Last
      <4>1. InUse(b, x) /\ b.levels[x].side = s /\ b.best[s] # Null
        BY DEF LevelsOf, Fit, LevelsRinged, SideRinged, Cyclic, Sides, Null, LevelBlocks, InUse
      <4>2. PICK y \in t : y.side = s /\ y.price = b.levels[x].price
        BY <4>1, LevelIsTold DEF Fit
      <4> QED BY <1>1, <2>7, <4>1, <4>2 DEF LinksWell
    <3>2. PICK f : LevelsRinged(b, n, f)
      BY DEF Fit
    <3>3. SideRinged(b, s, f)
      BY <3>2 DEF LevelsRinged, Sides
    <3>4. SideRinged(d, s, f) /\ LevelsOf(d, s) = LevelsOf(b, s) /\ Last(d, s, p)
      <4>1. LevelsOf(d, s) = LevelsOf(b, s)
        BY <2>2 DEF LevelsOf, InUse
      <4> QED BY <1>6, <2>2, <3>1, <3>3, <4>1, Zenon DEF SideRinged, Last
    <3>5. ~Allocate(d.levelPool).failed
      BY <1>10, <2>2, <2>4, LevelsLast DEF pool
    <3>6. LinkedLast(d, c, s, LevelsOf(b, s), m)
      <4>1. d.orders[o].side = s /\ d.orders[o].price = p /\ LevelOf(d, p) = Null
        BY <1>2, <1>4, <2>2, <2>7 DEF LevelOf
      <4>2. LinkedLast(d, c, s, LevelsOf(d, s), d.levelPool.next)
        BY <1>1, <1>4, <1>6, <1>7, <2>1, <3>4, <3>5, <4>1, AddOrderOpens
      <4> QED BY <2>2, <3>4, <4>2
    <3>7. LinkedLast(b, c, s, LevelsOf(b, s), m)
      BY <1>6, <2>2, <3>6, Zenon DEF LinkedLast
    <3>8. c.status = "running"
      BY <3>7 DEF LinkedLast
    <3>9. \A k \in OrderBlocks : Rests(b, k) => b.orders[k].moid < id
      BY <1>1 DEF Kept
    <3>10. Follows(b, ord)
      BY <1>2, <2>7, <3>9 DEF Follows
    <3>11. Ringed(c)
      BY <2>1, <2>3, <2>4, <3>8, <3>10, AddKeepsRings
    <3> HIDE DEF l, m
    <3>12. Opens(b, c, o, m)
      BY <2>3, <2>5, <2>7, <3>8 DEF l, m
    <3> QED
      BY <1>1, <1>4, <2>3, <2>5, <2>7, <3>1, <3>7, <3>8, <3>11, <3>12, OpenFits DEF l
  <2> QED BY <2>6, <2>7
<1> QED
  BY <1>9, <1>10

LEMMA ModifyFits ==
  ASSUME NEW b, Shaped(b), NEW t, NEW n \in OrderIds, Kept(b, t, n), Fit(b, n),
         NEW x \in t, NEW q \in 1 .. (x.qty - 1), NEW c, c = Modify(b, About("MODIFY", x, q))
  PROVE  c.status = b.status /\ Fit(c, n) /\ c.best = b.best /\ c.levels = b.levels
<1>1. PICK o \in OrderBlocks : /\ Entry(b.orders[o]) = x
                               /\ b.orderOf[TickerId][x.oid] = o
  BY OrderTold
<1>2. c = Hit(b, o, q)
  BY <1>1 DEF Modify, About, Hit
<1>3. q \in Nat
  BY <1>1 DEF Entry, Shaped, BooksOn, Orders
<1>4. /\ c.status = b.status /\ (Ringed(b) => Ringed(c))
      /\ \A k \in OrderBlocks :
           /\ SameKey(c.orders[k], b.orders[k]) /\ c.orders[k].side = b.orders[k].side
           /\ Rests(c, k) <=> Rests(b, k)
  BY <1>2, <1>3, HitSpec
<1>5. /\ c.levels = b.levels /\ c.levelAt = b.levelAt /\ c.best = b.best
      /\ c.levelPool = b.levelPool
  BY <1>2 DEF Hit, Shaped, BooksOn
<1>6. /\ \A l : InUse(c, l) <=> InUse(b, l)
      /\ \A s : LevelsOf(c, s) = LevelsOf(b, s)
  BY <1>5 DEF InUse, LevelsOf
<1>7. \A f : LevelsRinged(b, n, f) => LevelsRinged(c, n, f)
  BY <1>5, <1>6, Zenon DEF LevelsRinged, Ranked, SideRinged
<1>8. Placed(b) => Placed(c)
  <2>1. \A k \in OrderBlocks :
          /\ c.orders[k].price = b.orders[k].price /\ c.orders[k].side = b.orders[k].side
          /\ Level(c, k) = Level(b, k)
    BY <1>4, <1>5 DEF SameKey, Level, Slot
  <2> QED BY <1>4, <1>5, <2>1 DEF Placed
<1> QED
  BY <1>4, <1>5, <1>7, <1>8 DEF Fit

\* The level l is out of the ring of its side s.
LinkedPast(b, c, s, M, l) ==
  /\ c.status = "running"
  /\ \A k \in LevelBlocks \ M : /\ c.levels[k].next = b.levels[k].next
                                /\ c.levels[k].prev = b.levels[k].prev
  /\ \A z \in Sides : z # s => c.best[z] = b.best[z]
  /\ IF M = {l} THEN c.best[s] = Null
     ELSE /\ b.levels[l].next # l
          /\ Shortened(M, b.levels, c.levels, l)
          /\ c.best[s] = IF b.best[s] = l THEN b.levels[l].next ELSE b.best[s]

\* Pointers that lead past the level l, which leads nowhere.
SetPast(x, l) ==
  [[[[x EXCEPT ![x[l].prev].next = x[l].next]
        EXCEPT ![x[l].next].prev = x[l].prev]
       EXCEPT ![l].prev = Null] EXCEPT ![l].next = Null]

LEMMA PastPointers ==
  ASSUME NEW S, Null \in S, NEW x \in [LevelBlocks -> LevelsOn(S)], NEW l \in LevelBlocks,
         x[l].prev \in LevelBlocks, x[l].next \in LevelBlocks,
         NEW y, y = SetPast(x, l)
  PROVE  \A k \in LevelBlocks :
           /\ y[k].next = IF k = l THEN Null ELSE IF k = x[l].prev THEN x[l].next
                          ELSE x[k].next
           /\ y[k].prev = IF k = l THEN Null ELSE IF k = x[l].next THEN x[l].prev
                          ELSE x[k].prev
<1> DEFINE p == x[l].prev
           n == x[l].next
           a1 == [x EXCEPT ![p].next = n]
           a2 == [a1 EXCEPT ![n].prev = p]
           a3 == [a2 EXCEPT ![l].prev = Null]
           a4 == [a3 EXCEPT ![l].next = Null]
<1>1. y = a4
  BY Zenon DEF SetPast
<1>2. p \in S /\ n \in S /\ p \in LevelBlocks /\ n \in LevelBlocks
  BY DEF LevelsOn
<1> HIDE DEF p, n
<1>3. a1 \in [LevelBlocks -> LevelsOn(S)] /\ NextIs(x, a1, p, n)
  BY <1>2, NextSet, NextPointers
<1> HIDE DEF a1
<1>4. a2 \in [LevelBlocks -> LevelsOn(S)] /\ PrevIs(a1, a2, n, p)
  BY <1>2, <1>3, PrevSet, PrevPointers
<1> HIDE DEF a2
<1>5. a3 \in [LevelBlocks -> LevelsOn(S)] /\ PrevIs(a2, a3, l, Null)
  BY <1>2, <1>4, PrevSet, PrevPointers
<1> HIDE DEF a3
<1>6. NextIs(a3, a4, l, Null)
  BY <1>5, NextPointers
<1> HIDE DEF a4
<1> QED
  BY <1>1, <1>3, <1>4, <1>5, <1>6 DEF PrevIs, NextIs, p, n

LEMMA ClosesLevel ==
  ASSUME NEW b, Shaped(b), b.status = "running", ~b.levelPool.failed,
         NEW s \in Sides, NEW price \in Nat,
         NEW M, M = LevelsOf(b, s), LevelOf(b, price) \in M,
         NEW f, Cyclic(M, b.levels, f, b.best[s]),
         NEW c, c = RemoveOrdersAtPrice(b, s, price)
  PROVE  LinkedPast(b, c, s, M, LevelOf(b, price))
<1> DEFINE l     == LevelOf(b, price)
           level == b.levels[l]
           pool  == Deallocate(b.levelPool, l)
           i     == price % NumPriceLevels
           y     == SetPast(b.levels, l)
           one   == [b EXCEPT !.best[s] = Null]
           many  == [b EXCEPT
                      !.levels = [[[@ EXCEPT ![level.prev].next = level.next]
                                      EXCEPT ![level.next].prev = level.prev]
                                      EXCEPT ![l].prev = Null, ![l].next = Null],
                      !.best[s] = IF @ = l THEN level.next ELSE @]
           gone  == [(IF level.next = l THEN one ELSE many)
                       EXCEPT !.levelAt[i] = Null, !.levelPool = pool]
<1>1. c = IF l = Null \/ (level.next # l /\ Null \in {level.prev, level.next})
            THEN Fail(b, "crashed")
          ELSE IF pool.failed THEN Fail(gone, "poolAssert") ELSE gone
  BY Zenon DEF RemoveOrdersAtPrice
<1>2. many = [b EXCEPT !.levels = y, !.best[s] = IF @ = l THEN level.next ELSE @]
  BY Zenon DEF SetPast
<1> DEFINE two == [b EXCEPT !.levels = y, !.best[s] = IF @ = l THEN level.next ELSE @]
<1> HIDE DEF one, many, two
<1>3. l \in M /\ Cyclic(M, b.levels, f, b.best[s])
  OBVIOUS
<1> HIDE DEF l
<1>4. /\ l \in LevelBlocks /\ l # Null /\ ~b.levelPool.free[l] /\ M \subseteq LevelBlocks
      /\ Null \notin LevelBlocks
  BY <1>3 DEF LevelsOf, InUse, LevelBlocks, Null
<1>5. /\ level.next \in M /\ level.prev \in M /\ level.next \in LevelBlocks
      /\ level.prev \in LevelBlocks /\ level.next # Null /\ level.prev # Null
  BY <1>3, <1>4 DEF Cyclic
<1>6. ~pool.failed
  <2>1. NumLevels \in Nat \ {0} /\ b.levelPool \in Pools(NumLevels)
    BY MEOrderBookAssumption DEF Shaped, BooksOn
  <2> DEFINE p == b.levelPool
  <2>2. p \in Pools(NumLevels) /\ ~p.failed /\ l \in 0 .. (NumLevels - 1) /\ ~p.free[l]
    BY <1>4, <2>1 DEF LevelBlocks
  <2> HIDE DEF p
  <2>3. ~Deallocate(p, l).failed
    BY <2>1, <2>2, DeallocateSpec
  <2> QED BY <2>3 DEF p
<1> HIDE DEF pool, level
<1>7. c = [(IF level.next = l THEN one ELSE two) EXCEPT !.levelAt[i] = Null, !.levelPool = pool]
  <2> HIDE DEF gone
  <2>1. Null \notin {level.prev, level.next}
    BY <1>5
  <2>2. c = gone
    BY <1>1, <1>4, <1>6, <2>1, Zenon
  <2>3. many = two
    BY <1>2, Zenon DEF two
  <2> QED BY <2>2, <2>3, Zenon DEF gone
<1>8. Null \in Opened(b) /\ b.levels \in [LevelBlocks -> LevelsOn(Opened(b))]
  BY DEF Shaped, BooksOn, Opened
<1>9. \A k \in LevelBlocks :
        /\ y[k].next = IF k = l THEN Null ELSE IF k = level.prev THEN level.next
                       ELSE b.levels[k].next
        /\ y[k].prev = IF k = l THEN Null ELSE IF k = level.next THEN level.prev
                       ELSE b.levels[k].prev
  BY <1>4, <1>5, <1>8, PastPointers DEF level
<1> HIDE DEF y
<1>10. CASE level.next = l
  <2>1. M = {l}
    BY <1>3, <1>10, CyclicSingle DEF level
  <2>2. c = [one EXCEPT !.levelAt[i] = Null, !.levelPool = pool]
    BY <1>7, <1>10
  <2>3. c.status = "running" /\ c.levels = b.levels /\ c.best = [b.best EXCEPT ![s] = Null]
    BY <2>2 DEF Shaped, BooksOn, one
  <2> QED BY <2>1, <2>3 DEF LinkedPast, Shaped, BooksOn
<1>11. CASE level.next # l
  <2>1. M # {l}
    BY <1>5, <1>11
  <2>2. c = [two EXCEPT !.levelAt[i] = Null, !.levelPool = pool]
    BY <1>7, <1>11
  <2>3. /\ c.status = "running" /\ c.levels = y
        /\ c.best = [b.best EXCEPT ![s] = IF @ = l THEN level.next ELSE @]
    BY <2>2 DEF Shaped, BooksOn, two
  <2>4. Shortened(M, b.levels, c.levels, l)
    BY <1>4, <1>9, <2>3 DEF Shortened, level
  <2>5. \A k \in LevelBlocks \ M : /\ c.levels[k].next = b.levels[k].next
                                   /\ c.levels[k].prev = b.levels[k].prev
    BY <1>3, <1>5, <1>9, <2>3
  <2>6. /\ \A z \in Sides : z # s => c.best[z] = b.best[z]
        /\ c.best[s] = IF b.best[s] = l THEN level.next ELSE b.best[s]
    BY <2>3 DEF Shaped, BooksOn
  <2>7. LinkedPast(b, c, s, M, l)
    BY <1>11, <2>1, <2>3, <2>4, <2>5, <2>6 DEF LinkedPast, level
  <2> QED BY <2>7 DEF l
<1> QED
  BY <1>10, <1>11 DEF l

LEMMA SideShrinks ==
  ASSUME NEW b, NEW c, NEW s, NEW f, SideRinged(b, s, f),
         NEW l \in LevelsOf(b, s), LinkedPast(b, c, s, LevelsOf(b, s), l),
         LevelsOf(c, s) = LevelsOf(b, s) \ {l}
  PROVE  SideRinged(c, s, f)
<1> DEFINE M == LevelsOf(b, s)
<1>1. Cyclic(M, b.levels, f, b.best[s])
  BY DEF SideRinged
<1>2. CASE M = {l}
  <2>1. LevelsOf(c, s) = {} /\ c.best[s] = Null
    BY <1>2 DEF LinkedPast
  <2> QED BY <2>1 DEF SideRinged
<1>3. CASE M # {l}
  <2>1. /\ b.levels[l].next # l /\ Shortened(M, b.levels, c.levels, l)
        /\ c.best[s] = IF b.best[s] = l THEN b.levels[l].next ELSE b.best[s]
    BY <1>3 DEF LinkedPast
  <2>2. b.levels[l].next \in M \ {l}
    BY <1>1, <2>1 DEF Cyclic
  <2>3. l \in M
    OBVIOUS
  <2>4. LevelsOf(c, s) = M \ {l}
    OBVIOUS
  <2> HIDE DEF M
  <2>5. Cyclic(M \ {l}, c.levels, f, c.best[s])
    BY <1>1, <2>1, <2>3, CyclicShortened
  <2> QED BY <2>2, <2>4, <2>5 DEF SideRinged
<1> QED
  BY <1>2, <1>3

\* The book without the block and the table's entry of the order that left.
LEMMA RemovedAs ==
  ASSUME NEW b, Shaped(b), PoolsReady(b), NEW o \in OrderBlocks, Rests(b, o),
         NEW d, Shaped(d), d.status = "running",
         d = (IF b.orders[o].prev = o
                THEN RemoveOrdersAtPrice(b, b.orders[o].side, b.orders[o].price)
                ELSE UnlinkOrder(b, o)),
         NEW c, c = RemoveOrder(b, o)
  PROVE  /\ c.status = "running" /\ c.levels = d.levels /\ c.best = d.best
         /\ c.levelPool = d.levelPool /\ c.levelAt = d.levelAt
<1> DEFINE ord  == b.orders[o]
           pool == Deallocate(b.orderPool, o)
           e    == IF ord.prev = o THEN RemoveOrdersAtPrice(b, ord.side, ord.price)
                   ELSE UnlinkOrder(b, o)
           was  == [e EXCEPT !.orderOf[ord.client][ord.coid] = Null, !.orderPool = pool]
           gone == [d EXCEPT !.orderOf[ord.client][ord.coid] = Null, !.orderPool = pool]
<1>1. c = IF e.status # "running" THEN e
          ELSE IF pool.failed THEN Fail(was, "poolAssert") ELSE was
  BY Zenon DEF RemoveOrder
<1>2. ~pool.failed
  <2> DEFINE p == b.orderPool
  <2>1. /\ NumOrders \in Nat \ {0} /\ p \in Pools(NumOrders) /\ ~p.failed
        /\ o \in 0 .. (NumOrders - 1) /\ ~p.free[o]
    BY MEOrderBookAssumption DEF Shaped, BooksOn, OrderBlocks, Rests, PoolsReady
  <2> HIDE DEF p
  <2>2. ~Deallocate(p, o).failed
    BY <2>1, DeallocateSpec
  <2> QED BY <2>2 DEF p
<1>3. e = d
  OBVIOUS
<1> HIDE DEF e, pool, ord
<1>4. was = gone
  BY <1>3
<1> HIDE DEF was, gone
<1>5. c = gone
  BY <1>1, <1>2, <1>3, <1>4
<1> DEFINE f == [d.orderOf EXCEPT ![ord.client][ord.coid] = Null]
<1>6. c = [d EXCEPT !.orderOf = f, !.orderPool = pool]
  BY <1>5, Zenon DEF gone
<1> HIDE DEF f
<1> QED
  BY <1>6 DEF Shaped, BooksOn

LEMMA UnlinkKeepsLevels ==
  ASSUME NEW b, Shaped(b), b.status = "running", NEW o \in OrderBlocks,
         b.orders[o].prev # Null, b.orders[o].next # Null,
         NEW l, l = Level(b, o), l # Null,
         NEW c, c = UnlinkOrder(b, o)
  PROVE  /\ c.status = "running" /\ c.best = b.best
         /\ c.levelPool = b.levelPool /\ c.levelAt = b.levelAt
         /\ \A k \in LevelBlocks : /\ c.levels[k].prev = b.levels[k].prev
                                   /\ c.levels[k].next = b.levels[k].next
<1> DEFINE ord == b.orders[o]
           m   == LevelOf(b, ord.price)
           y   == [[[b.orders EXCEPT ![ord.prev].next = ord.next]
                       EXCEPT ![ord.next].prev = ord.prev]
                      EXCEPT ![o].prev = Null, ![o].next = Null]
           z   == [b.levels EXCEPT ![m].first = IF @ = o THEN ord.next ELSE @]
<1>1. c = IF Null \in {ord.prev, ord.next, m} THEN Fail(b, "crashed")
          ELSE [b EXCEPT !.orders = y, !.levels[m].first = IF @ = o THEN ord.next ELSE @]
  BY Zenon DEF UnlinkOrder
<1>2. m # Null
  BY DEF Level, Slot, LevelOf
<1>3. c = [b EXCEPT !.orders = y, !.levels[m].first = IF @ = o THEN ord.next ELSE @]
  <2>1. Null \notin {ord.prev, ord.next, m}
    BY <1>2
  <2> QED BY <1>1, <2>1, Zenon
<1> HIDE DEF m, y
<1>4. c = [b EXCEPT !.orders = y, !.levels = z]
  BY <1>3
<1>5. \A k \in LevelBlocks : /\ z[k].prev = b.levels[k].prev
                             /\ z[k].next = b.levels[k].next
  BY DEF Shaped, BooksOn, LevelsOn
<1> HIDE DEF z
<1> QED
  BY <1>4, <1>5 DEF Shaped, BooksOn

\* The last order of a level leaves with it.
LEMMA CloseFits ==
  ASSUME NEW b, Shaped(b), Ringed(b), Placed(b), NEW n,
         NEW f, LevelsRinged(b, n, f), NEW o \in OrderBlocks, Rests(b, o),
         b.orders[o].prev = o,
         NEW l, l = Level(b, o), NEW s, s = b.levels[l].side,
         NEW c, Ringed(c), Closed(b, c, l), LinkedPast(b, c, s, LevelsOf(b, s), l),
         \A k \in OrderBlocks : Rests(c, k) => Rests(b, k) /\ k # o,
         \A k \in OrderBlocks : /\ c.orders[k].price = b.orders[k].price
                                /\ c.orders[k].side = b.orders[k].side,
         c.levelAt = [b.levelAt EXCEPT ![Slot(b.orders[o])] = Null]
  PROVE  Fit(c, n)
<1>1. /\ l \in LevelBlocks /\ InUse(b, l) /\ s \in Sides
      /\ b.levelAt \in [Slots -> Opened(b)]
      /\ b.levelPool.free \in [LevelBlocks -> BOOLEAN]
  BY DEF Ringed, Neighbours, InUse, Shaped, BooksOn, LevelsOn, Pools, LevelBlocks
<1>2. \A k \in LevelBlocks : /\ InUse(c, k) <=> (InUse(b, k) /\ k # l)
                             /\ c.levels[k].price = b.levels[k].price
                             /\ c.levels[k].side = b.levels[k].side
                             /\ c.levels[k].first = b.levels[k].first
  BY <1>1 DEF Closed, Freed, SameLevels, InUse
<1>3. /\ l \in LevelsOf(b, s) /\ LevelsOf(c, s) = LevelsOf(b, s) \ {l}
      /\ \A z \in Sides : z # s => LevelsOf(c, z) = LevelsOf(b, z)
  BY <1>1, <1>2 DEF LevelsOf
<1>4. Ranked(c, n, f)
  BY <1>2 DEF LevelsRinged, Ranked, InUse
<1>5. ASSUME NEW z \in Sides PROVE SideRinged(c, z, f)
  <2>1. SideRinged(b, z, f)
    BY DEF LevelsRinged, Sides
  <2>2. CASE z = s
    BY <1>3, <2>1, <2>2, SideShrinks
  <2>3. CASE z # s
    <3>1. LevelsOf(b, z) \subseteq LevelBlocks \ LevelsOf(b, s)
      BY <2>3 DEF LevelsOf
    <3>2. Alike(LevelsOf(b, z), b.levels, c.levels) /\ c.best[z] = b.best[z]
      BY <2>3, <3>1 DEF LinkedPast, Alike
    <3> QED BY <1>3, <2>1, <2>3, <3>2, SideKept
  <2> QED BY <2>2, <2>3
<1>6. LevelsRinged(c, n, f)
  BY <1>4, <1>5 DEF LevelsRinged, Sides
<1>7. Placed(c)
  <2> SUFFICES ASSUME NEW k \in OrderBlocks, Rests(c, k)
               PROVE  /\ c.levels[Level(c, k)].price = c.orders[k].price
                      /\ c.levels[Level(c, k)].side = c.orders[k].side
    BY DEF Placed
  <2>1. Rests(b, k) /\ k # o
    OBVIOUS
  <2>2. Level(b, k) # Level(b, o)
    BY <2>1, AloneAtLevel
  <2>3. Slot(b.orders[k]) \in Slots /\ Slot(b.orders[k]) # Slot(b.orders[o])
    BY <2>2, SlotIsIndex DEF Level
  <2>4. Level(c, k) = Level(b, k) /\ Level(b, k) \in LevelBlocks
    <3>1. Slot(c.orders[k]) = Slot(b.orders[k])
      BY DEF Slot
    <3>2. \A i \in Slots : i # Slot(b.orders[o]) => c.levelAt[i] = b.levelAt[i]
      BY <1>1
    <3>3. Level(c, k) = Level(b, k)
      BY <2>3, <3>1, <3>2 DEF Level
    <3> QED BY <2>1, <3>3 DEF Ringed, Neighbours, InUse
  <2> QED BY <1>2, <2>1, <2>4 DEF Placed
<1> QED
  BY <1>6, <1>7 DEF Fit

\* One of several orders leaves its level.
LEMMA UnlinkFits ==
  ASSUME NEW b, Shaped(b), Ringed(b), Placed(b), NEW n,
         NEW f, LevelsRinged(b, n, f), NEW o, NEW l,
         NEW c, Ringed(c), Unlinked(b, c, o, l), c.best = b.best,
         \A k \in LevelBlocks : /\ c.levels[k].prev = b.levels[k].prev
                                /\ c.levels[k].next = b.levels[k].next,
         \A k \in OrderBlocks : Rests(c, k) => Rests(b, k),
         \A k \in OrderBlocks : /\ c.orders[k].price = b.orders[k].price
                                /\ c.orders[k].side = b.orders[k].side
  PROVE  Fit(c, n)
<1>1. /\ c.levelAt = b.levelAt /\ c.levelPool = b.levelPool
      /\ \A k \in LevelBlocks : /\ c.levels[k].price = b.levels[k].price
                                 /\ c.levels[k].side = b.levels[k].side
  BY DEF Unlinked
<1>2. /\ \A k : InUse(c, k) <=> InUse(b, k)
      /\ \A z \in Sides : LevelsOf(c, z) = LevelsOf(b, z)
  BY <1>1 DEF InUse, LevelsOf
<1>3. Ranked(c, n, f)
  BY <1>1, <1>2 DEF LevelsRinged, Ranked, InUse
<1>4. ASSUME NEW z \in Sides PROVE SideRinged(c, z, f)
  <2>1. SideRinged(b, z, f)
    BY DEF LevelsRinged, Sides
  <2>2. Alike(LevelsOf(b, z), b.levels, c.levels)
    BY DEF Alike, LevelsOf
  <2> QED BY <1>2, <2>1, <2>2, SideKept
<1>5. LevelsRinged(c, n, f)
  BY <1>3, <1>4 DEF LevelsRinged, Sides
<1>6. Placed(c)
  <2> SUFFICES ASSUME NEW k \in OrderBlocks, Rests(c, k)
               PROVE  /\ c.levels[Level(c, k)].price = c.orders[k].price
                      /\ c.levels[Level(c, k)].side = c.orders[k].side
    BY DEF Placed
  <2>1. Level(c, k) = Level(b, k) /\ Level(b, k) \in LevelBlocks
    BY <1>1 DEF Level, Slot, Ringed, Neighbours, InUse
  <2> QED BY <1>1, <2>1 DEF Placed
<1> QED
  BY <1>5, <1>6 DEF Fit

\* CANCEL: none of the pointers removeOrder follows is null, and both blocks it
\* gives back are in use.
LEMMA CancelFits ==
  ASSUME NEW b, Shaped(b), b.status = "running", NEW t, NEW n, Kept(b, t, n), Fit(b, n),
         NEW x \in t, NEW c, c = Cancel(b, About("CANCEL", x, 0))
  PROVE  c.status = "running" /\ Fit(c, n)
<1>1. PICK o \in OrderBlocks : Rests(b, o) /\ b.orderOf[TickerId][x.oid] = o
  BY OrderTold
<1>2. c = RemoveOrder(b, o)
  BY <1>1 DEF Cancel, About
<1>3. PoolsReady(b) /\ Ringed(b) /\ Placed(b) /\ \E f : LevelsRinged(b, n, f)
  BY DEF Kept, Fit
<1>4. PICK f : LevelsRinged(b, n, f)
  BY <1>3
<1> DEFINE l     == Level(b, o)
           s     == b.levels[l].side
           price == b.orders[o].price
           d     == IF b.orders[o].prev = o THEN RemoveOrdersAtPrice(b, b.orders[o].side, price)
                    ELSE UnlinkOrder(b, o)
<1>5. /\ InUse(b, l) /\ l \in LevelBlocks /\ l # Null /\ b.orders[o].side = s /\ s \in Sides
      /\ b.orders[o].prev # Null /\ b.orders[o].next # Null
      /\ price \in Nat /\ LevelOf(b, price) = l
  <2>1. InUse(b, l) /\ Rests(b, b.orders[o].prev) /\ Rests(b, b.orders[o].next)
    BY <1>1, <1>3 DEF Ringed, Neighbours
  <2>2. b.orders[o].side = s
    BY <1>1, <1>3 DEF Placed
  <2>3. price \in Nat /\ b.orders[o].side \in Sides
    BY DEF Shaped, BooksOn, Orders
  <2>4. LevelOf(b, price) = l
    BY DEF Level, Slot, LevelOf
  <2>5. Null \notin LevelBlocks /\ Null \notin OrderBlocks
    BY Sizes
  <2> HIDE DEF l, s, price
  <2> QED BY <2>1, <2>2, <2>3, <2>4, <2>5 DEF InUse, Rests
<1>6. ASSUME Shaped(d), d.status = "running"
      PROVE  /\ c.status = "running" /\ c.levels = d.levels /\ c.best = d.best
             /\ Ringed(c)
             /\ \A k \in OrderBlocks : Rests(c, k) => Rests(b, k) /\ k # o
             /\ \A k \in OrderBlocks : /\ c.orders[k].price = b.orders[k].price
                                       /\ c.orders[k].side = b.orders[k].side
  <2>1. /\ c.status = "running" /\ c.levels = d.levels /\ c.best = d.best
    <3> HIDE DEF l, s
    <3>1. d = (IF b.orders[o].prev = o
                 THEN RemoveOrdersAtPrice(b, b.orders[o].side, b.orders[o].price)
                 ELSE UnlinkOrder(b, o))
      OBVIOUS
    <3> HIDE DEF d
    <3> QED BY <1>1, <1>2, <1>3, <1>6, <3>1, RemovedAs
  <2>2. /\ SameContents(c.orders, b.orders)
        /\ \A k \in OrderBlocks : Rests(c, k) <=> (Rests(b, k) /\ k # o)
    BY <1>2, <1>3, <2>1, RemovedBook
  <2>3. Ringed(c)
    BY <1>2, <1>3, <2>1, RemoveKeepsRings
  <2>4. \A k \in OrderBlocks : /\ c.orders[k].price = b.orders[k].price
                               /\ c.orders[k].side = b.orders[k].side
    BY <2>2, ContentIs DEF SameContents
  <2> QED BY <2>1, <2>2, <2>3, <2>4
<1>7. CASE b.orders[o].prev = o
  <2>1. d = RemoveOrdersAtPrice(b, s, price)
    BY <1>5, <1>7
  <2>2. Shaped(d)
    <3> HIDE DEF d, s, l, price
    <3> QED BY <1>5, <2>1, RemoveOrdersAtPriceSpec
  <2> DEFINE M == LevelsOf(b, s)
  <2>3. l \in M /\ Cyclic(M, b.levels, f, b.best[s]) /\ ~b.levelPool.failed
    <3>1. l \in M
      BY <1>5 DEF LevelsOf
    <3> QED BY <1>3, <1>4, <1>5, <3>1 DEF LevelsRinged, SideRinged, Sides, PoolsReady
  <2> HIDE DEF d, M, s, l
  <2>4. LinkedPast(b, d, s, M, l)
    <3>1. LevelOf(b, price) \in M
      BY <1>5, <2>3
    <3>2. LinkedPast(b, d, s, M, LevelOf(b, price))
      BY <1>5, <2>1, <2>3, <3>1, ClosesLevel DEF M
    <3> QED BY <1>5, <3>2
  <2>5. d.status = "running"
    BY <2>4 DEF LinkedPast
  <2>6. /\ c.status = "running" /\ c.levels = d.levels /\ c.best = d.best /\ Ringed(c)
        /\ \A k \in OrderBlocks : Rests(c, k) => Rests(b, k) /\ k # o
        /\ \A k \in OrderBlocks : /\ c.orders[k].price = b.orders[k].price
                                  /\ c.orders[k].side = b.orders[k].side
    BY <1>6, <2>2, <2>5
  <2>7. LinkedPast(b, c, s, LevelsOf(b, s), l)
    BY <2>4, <2>5, <2>6, Zenon DEF LinkedPast, M
  <2>8. /\ Closed(b, c, l)
        /\ c.levelAt = [b.levelAt EXCEPT ![Slot(b.orders[o])] = Null]
    <3>1. /\ Closed(b, c, b.levelAt[b.orders[o].price % NumPriceLevels])
          /\ c.levelAt = [b.levelAt EXCEPT ![b.orders[o].price % NumPriceLevels] = Null]
      BY <1>2, <1>7, <2>6, RemoveOrderSpec
    <3> QED BY <3>1 DEF l, Level, Slot
  <2>9. Fit(c, n)
    BY <1>1, <1>3, <1>4, <1>7, <2>6, <2>7, <2>8, CloseFits DEF l, s
  <2> QED BY <2>6, <2>9
<1>8. CASE b.orders[o].prev # o
  <2>1. d = UnlinkOrder(b, o)
    BY <1>8
  <2>2. Shaped(d)
    BY <2>1, UnlinkOrderSpec
  <2> HIDE DEF d, s
  <2>3. /\ d.status = "running" /\ d.best = b.best
        /\ \A k \in LevelBlocks : /\ d.levels[k].prev = b.levels[k].prev
                                  /\ d.levels[k].next = b.levels[k].next
    BY <1>5, <2>1, UnlinkKeepsLevels
  <2>4. /\ c.status = "running" /\ c.levels = d.levels /\ c.best = d.best /\ Ringed(c)
        /\ \A k \in OrderBlocks : Rests(c, k) => Rests(b, k) /\ k # o
        /\ \A k \in OrderBlocks : /\ c.orders[k].price = b.orders[k].price
                                  /\ c.orders[k].side = b.orders[k].side
    BY <1>6, <2>2, <2>3
  <2>5. Unlinked(b, c, o, l)
    <3>1. Unlinked(b, c, o, b.levelAt[b.orders[o].price % NumPriceLevels])
      BY <1>2, <1>8, <2>4, RemoveOrderSpec
    <3> QED BY <3>1 DEF l, Level, Slot
  <2> HIDE DEF l
  <2>6. Fit(c, n)
    BY <1>3, <1>4, <2>3, <2>4, <2>5, UnlinkFits
  <2> QED BY <2>4, <2>6
<1> QED
  BY <1>7, <1>8

-----------------------------------------------------------------------------
(* Walks around the rings *)

\* Where a walk over a ring ends: at the head, after all the others.
LEMMA RingEnds ==
  ASSUME NEW M, Within(M, NumOrders), Null \notin M, NEW X, NEW r, NEW h,
         Cyclic(M, X, r, h), NEW chain, IsChain(chain, NumOrders, Null, X, h),
         NEW ends, \/ ends = {k \in 1 .. NumOrders : chain[k] = h}
                   \/ ends = {k \in 1 .. NumOrders : chain[k] \in {h, Null}}
  PROVE  /\ ends # {} /\ chain[Min(ends)] = h
         /\ Round(NumOrders, M, X, r, h, chain, Min(ends))
<1>1. NumOrders \in Nat
  BY MEOrderBookAssumption
<1>2. Walk(NumOrders, M, X, h, chain)
  BY <1>1, WalkStays
<1>3. \A k \in 1 .. NumOrders : chain[k] # Null
  <2>1. \A k \in 1 .. NumOrders : chain[k] \in M
    BY <1>1, <1>2 DEF Walk
  <2> QED BY <2>1
<1>4. \A k \in 1 .. NumOrders : k \in ends <=> chain[k] = h
  BY <1>3
<1>5. ends \in SUBSET (1 .. NumOrders) /\ ends # {}
  <2>1. \E k \in 1 .. NumOrders : chain[k] = h
    BY <1>1, <1>2, WalkReturns
  <2> QED BY <1>4, <2>1
<1>6. Min(ends) \in ends /\ \A k \in ends : Min(ends) <= k
  BY <1>5, FirstEnd
<1> DEFINE m == Min(ends)
<1> HIDE DEF m
<1>7. /\ m \in 1 .. NumOrders /\ chain[m] = h
      /\ \A k \in 1 .. NumOrders : chain[k] = h => m <= k
  BY <1>4, <1>5, <1>6 DEF m
<1>8. Round(NumOrders, M, X, r, h, chain, m)
  BY <1>1, <1>2, <1>7, WalkRound
<1> QED
  BY <1>5, <1>7, <1>8 DEF m

\* CLEAR of one side's levels gives back each of them, once.
LEMMA ClearSide ==
  ASSUME NEW b, Shaped(b), b.status = "running", NEW s \in Sides,
         NEW f, SideRinged(b, s, f), NEW c, c = ClearLevels(b, s)
  PROVE  /\ c.status = "running" /\ Shaped(c)
         /\ c.levels = b.levels /\ c.best[s] = Null
         /\ LevelsOf(c, s) = {}
         /\ \A z \in Sides : z # s => /\ LevelsOf(c, z) = LevelsOf(b, z)
                                      /\ c.best[z] = b.best[z]
<1> DEFINE M     == LevelsOf(b, s)
           h     == b.best[s]
           chain == NextChain(b, h)
           ends  == LevelEnds(b, s)
           met   == LevelsMet(b, s)
           free  == [l \in DOMAIN b.levelPool.free |-> b.levelPool.free[l] \/ l \in met]
           gone  == [b EXCEPT !.levelPool.free = free, !.best[s] = Null]
<1>1. c = IF h = Null THEN b
          ELSE IF ends = {} \/ ~(met \subseteq LiveBlocks(b.levelPool))
            THEN Fail(b, "poolAssert")
          ELSE gone
  BY Zenon DEF ClearLevels, LevelsMet, LevelEnds
<1>2. gone.status = b.status
  BY DEF Shaped, BooksOn
<1>3. c.status = "running" => /\ Shaped(c) /\ c.levels = b.levels
                              /\ \A z \in Sides : c.best[z] = IF z = s THEN Null ELSE b.best[z]
                              /\ \A l \in LevelBlocks :
                                   c.levelPool.free[l] <=>
                                     b.levelPool.free[l] \/ (h # Null /\ l \in met)
  BY ClearLevelsSpec
<1> HIDE DEF gone, ends
<1>4. c.status = "running" /\ (h # Null => met = M) /\ (h = Null => M = {})
  <2>1. CASE M = {}
    <3>1. h = Null
      BY <2>1 DEF SideRinged
    <3> HIDE DEF h, M, met
    <3> QED BY <1>1, <2>1, <3>1
  <2>2. CASE M # {}
    <3>1. Cyclic(M, b.levels, f, h)
      BY <2>2 DEF SideRinged
    <3>2. Within(M, NumOrders) /\ Null \notin M /\ h \in M
      BY <3>1, Sizes DEF LevelsOf, Within, OrderBlocks, Cyclic
    <3>3. IsChain(chain, NumOrders, Null, b.levels, h)
      <4>1. \E g : IsChain(g, NumLevels, Null, b.levels, h)
        BY ChainExists, MEOrderBookAssumption
      <4>2. chain = CHOOSE g : IsChain(g, NumLevels, Null, b.levels, h)
        BY DEF NextChain, IsChain
      <4> QED BY <4>1, <4>2, Sizes
    <3>4. ends = {k \in 1 .. NumOrders : chain[k] = h}
      BY Zenon DEF ends, LevelEnds
    <3>5. M \subseteq LiveBlocks(b.levelPool)
      BY InUseIs DEF LevelsOf
    <3>6. met = {chain[k] : k \in 0 .. (Min(ends) - 1)}
      BY Zenon DEF LevelsMet, ends
    <3> HIDE DEF chain, h, M, met
    <3>7. /\ ends # {} /\ chain[Min(ends)] = h
          /\ Round(NumOrders, M, b.levels, f, h, chain, Min(ends))
      BY <3>1, <3>2, <3>3, <3>4, RingEnds
    <3> DEFINE m == Min(ends)
    <3> HIDE DEF m
    <3>8. met = M
      <4>1. Round(NumOrders, M, b.levels, f, h, chain, m)
        BY <3>7 DEF m
      <4>2. /\ m \in 1 .. NumOrders /\ \A k \in 0 .. NumOrders : chain[k] \in M
            /\ \A x \in M : \E k \in 0 .. (m - 1) : chain[k] = x
        BY <4>1 DEF Round, Walk
      <4>3. \A k \in 0 .. (m - 1) : k \in 0 .. NumOrders
        BY <4>2, MEOrderBookAssumption
      <4>4. met = {chain[k] : k \in 0 .. (m - 1)}
        BY <3>6 DEF m
      <4> QED BY <4>2, <4>3, <4>4
    <3>9. c = gone
      BY <1>1, <3>2, <3>5, <3>7, <3>8
    <3> QED BY <1>2, <3>2, <3>8, <3>9
  <2> QED BY <2>1, <2>2
<1> HIDE DEF met, h
<1>5. \A l \in LevelBlocks : InUse(c, l) <=> (InUse(b, l) /\ l \notin M)
  BY <1>3, <1>4 DEF InUse
<1>6. /\ LevelsOf(c, s) = {}
      /\ \A z \in Sides : z # s => LevelsOf(c, z) = LevelsOf(b, z)
  BY <1>3, <1>4, <1>5 DEF LevelsOf
<1> QED
  BY <1>3, <1>4, <1>6

\* CLEAR: what it leaves is as good as a new book.
LEMMA ClearFits ==
  ASSUME NEW b, Shaped(b), b.status = "running", NEW t, NEW n, Kept(b, t, n), Fit(b, n),
         NEW c, c = Clear(b)
  PROVE  c.status = "running" /\ Fit(c, 0)
<1> DEFINE b1 == ClearOrders(b)
           b2 == ClearLevels(b1, "BUY")
<1>1. /\ Shaped(b1) /\ b1.status = "running" /\ b1.levels = b.levels
      /\ b1.levelPool = b.levelPool /\ b1.best = b.best
  BY ClearOrdersSpec
<1>2. PICK f : SideRinged(b, "BUY", f) /\ SideRinged(b, "SELL", f)
  BY DEF Fit, LevelsRinged
<1>3. c = IF b2.status # "running" THEN b2 ELSE ClearLevels(b2, "SELL")
  BY DEF Clear
<1> HIDE DEF b1
<1>4. \A s : LevelsOf(b1, s) = LevelsOf(b, s)
  BY <1>1 DEF LevelsOf, InUse
<1>5. SideRinged(b1, "BUY", f) /\ SideRinged(b1, "SELL", f)
  BY <1>1, <1>2, <1>4, Zenon DEF SideRinged
<1>6. /\ b2.status = "running" /\ Shaped(b2) /\ b2.levels = b1.levels
      /\ b2.best["BUY"] = Null /\ LevelsOf(b2, "BUY") = {}
      /\ LevelsOf(b2, "SELL") = LevelsOf(b1, "SELL") /\ b2.best["SELL"] = b1.best["SELL"]
  <2>1. "BUY" \in Sides /\ "SELL" \in Sides /\ "BUY" # "SELL"
    BY DEF Sides
  <2> QED BY <1>1, <1>5, <2>1, ClearSide
<1> HIDE DEF b2
<1>7. SideRinged(b2, "SELL", f)
  BY <1>5, <1>6, Zenon DEF SideRinged
<1>8. c = ClearLevels(b2, "SELL") /\ "BUY" \in Sides /\ "SELL" \in Sides
  BY <1>3, <1>6 DEF Sides
<1>9. /\ c.status = "running" /\ Shaped(c)
      /\ \A s \in Sides : LevelsOf(c, s) = {} /\ c.best[s] = Null
  <2>1. /\ c.status = "running" /\ Shaped(c)
        /\ c.best["SELL"] = Null /\ LevelsOf(c, "SELL") = {}
        /\ \A z \in Sides : z # "SELL" => /\ LevelsOf(c, z) = LevelsOf(b2, z)
                                          /\ c.best[z] = b2.best[z]
    BY <1>6, <1>7, <1>8, ClearSide
  <2> QED BY <1>6, <2>1 DEF Sides
<1>10. \A o \in OrderBlocks : ~Rests(c, o)
  <2>1. Becomes(c, {}, 0)
    BY ClearKeeps
  <2> QED BY <1>9, <2>1 DEF Becomes, Kept, Replica
<1>11. \A l \in LevelBlocks : ~InUse(c, l)
  <2>1. \A l \in LevelBlocks : c.levels[l].side \in Sides
    BY <1>9 DEF Shaped, BooksOn, LevelsOn
  <2> QED BY <1>9, <2>1 DEF LevelsOf
<1>12. Ringed(c) /\ Placed(c)
  BY <1>10, <1>11 DEF Ringed, Placed
<1>13. LevelsRinged(c, 0, f)
  BY <1>8, <1>9, <1>11 DEF LevelsRinged, Ranked, SideRinged
<1> QED
  BY <1>9, <1>12, <1>13 DEF Fit

-----------------------------------------------------------------------------
(* The top of a book that fits what the updates left *)

LEMMA TopOfSide ==
  ASSUME NEW b, Shaped(b), NEW t, NEW n, Kept(b, t, n), Fit(b, n), NEW s \in Sides
  PROVE  LET l == b.best[s] IN
         IF \A x \in t : x.side # s THEN l = Null
         ELSE /\ l \in LevelsOf(b, s)
              /\ \E x \in t : x.side = s /\ x.price = b.levels[l].price
              /\ s = "SELL" => \A x \in t : x.side = s => b.levels[l].price <= x.price
<1> DEFINE M == LevelsOf(b, s)
           l == b.best[s]
<1>1. Ringed(b) /\ Placed(b) /\ \E f : LevelsRinged(b, n, f)
  BY DEF Fit
<1>2. PICK f : LevelsRinged(b, n, f)
  BY <1>1
<1>3. Ranked(b, n, f) /\ SideRinged(b, s, f)
  BY <1>2 DEF LevelsRinged, Sides
<1>4. \A k \in M : \E x \in t : x.side = s /\ x.price = b.levels[k].price
  BY <1>1, LevelIsTold DEF LevelsOf
<1>5. \A x \in t : x.side = s => \E k \in M : b.levels[k].price = x.price
  BY <1>1, ToldHasLevel
<1>6. CASE M = {}
  <2>1. l = Null
    BY <1>3, <1>6 DEF SideRinged
  <2> QED BY <1>5, <1>6, <2>1
<1>7. CASE M # {}
  <2>1. Cyclic(M, b.levels, f, l)
    BY <1>3, <1>7 DEF SideRinged
  <2>2. l \in M
    BY <2>1 DEF Cyclic
  <2>3. ASSUME s = "SELL", NEW x \in t, x.side = s
        PROVE  b.levels[l].price <= x.price
    <3>1. PICK k \in M : b.levels[k].price = x.price
      BY <1>5, <2>3
    <3>2. k = l \/ f[l] < f[k]
      <4> HIDE DEF M, l
      <4> QED BY <2>1, <3>1, HeadIsLowest
    <3>3. f[l] = b.levels[l].price /\ f[k] = b.levels[k].price
      BY <1>3, <2>2, <2>3, <3>1 DEF Ranked, LevelsOf
    <3>4. b.levels[l].price \in Nat /\ b.levels[k].price \in Nat
      BY <2>2, <3>1 DEF LevelsOf, Shaped, BooksOn, LevelsOn
    <3> HIDE DEF l, M
    <3> QED BY <3>1, <3>2, <3>3, <3>4
  <2> QED BY <1>4, <2>2, <2>3
<1> QED
  BY <1>6, <1>7

\* What the updates left at a price, under each id.
At(t, s, p, i) == {x \in {y \in t : y.side = s} : x.oid = i /\ x.price = p}
QtyIn(S) == IF S = {} THEN 0 ELSE (CHOOSE x \in S : TRUE).qty
Amounts(t, s, p) == [i \in 1 .. NumOrders |-> QtyIn(At(t, s, p, i))]

LEMMA AmountsAre ==
  ASSUME NEW b, Shaped(b), NEW t, NEW n \in OrderIds, Kept(b, t, n), Fit(b, n),
         NEW s \in Sides, NEW l \in LevelsOf(b, s), NEW p, p = b.levels[l].price
  PROVE  /\ \A o \in Members(b, l) :
              /\ b.orders[o].moid \in 1 .. NumOrders
              /\ Amounts(t, s, p)[b.orders[o].moid] = b.orders[o].qty
         /\ \A i \in 1 .. NumOrders :
              Amounts(t, s, p)[i] = 0 \/ \E o \in Members(b, l) : b.orders[o].moid = i
<1>1. Ringed(b) /\ Placed(b) /\ InUse(b, l) /\ b.levels[l].side = s
  BY DEF Fit, LevelsOf
<1>2. ASSUME NEW o \in Members(b, l)
      PROVE  /\ b.orders[o].moid \in 1 .. NumOrders
             /\ Amounts(t, s, p)[b.orders[o].moid] = b.orders[o].qty
  <2> DEFINE x == Entry(b.orders[o])
             i == b.orders[o].moid
  <2>1. Rests(b, o) /\ o \in OrderBlocks /\ Level(b, o) = l
    BY DEF Members
  <2>2. i \in 1 .. NumOrders
    <3>1. i \in 1 .. n /\ n <= NumOrders /\ n \in Nat
      BY <2>1, Sizes DEF Kept, OrderBlocks
    <3> QED BY <3>1, Sizes
  <2>3. x \in t /\ x.oid = i /\ x.side = s /\ x.price = p /\ x.qty = b.orders[o].qty
    <3>1. x \in t
      BY <2>1 DEF Kept, Replica
    <3>2. b.orders[o].side = s /\ b.orders[o].price = p
      BY <1>1, <2>1 DEF Placed
    <3> QED BY <3>1, <3>2 DEF Entry
  <2>4. ASSUME NEW y \in t, y.oid = i PROVE y = x
    <3>1. PICK k \in OrderBlocks : /\ Rests(b, k) /\ Entry(b.orders[k]) = y
                                   /\ b.orders[k].moid = y.oid
                                   /\ \A j \in OrderBlocks :
                                        Rests(b, j) /\ b.orders[j].moid = y.oid => j = k
      BY OrderTold
    <3> QED BY <2>1, <2>4, <3>1
  <2> HIDE DEF x, i
  <2>5. At(t, s, p, i) = {x}
    BY <2>3, <2>4 DEF At
  <2>6. Amounts(t, s, p)[i] = x.qty
    <3>1. (CHOOSE y \in At(t, s, p, i) : TRUE) = x
      BY <2>5
    <3> QED BY <2>2, <2>5, <3>1 DEF Amounts, QtyIn
  <2> QED BY <2>2, <2>3, <2>6 DEF i
<1>3. ASSUME NEW i \in 1 .. NumOrders, Amounts(t, s, p)[i] # 0
      PROVE  \E o \in Members(b, l) : b.orders[o].moid = i
  <2>1. PICK x \in t : x.side = s /\ x.oid = i /\ x.price = p
    BY <1>3 DEF Amounts, At, QtyIn
  <2>2. PICK o \in OrderBlocks : Rests(b, o) /\ Entry(b.orders[o]) = x
                                 /\ b.orders[o].moid = x.oid
    BY OrderTold
  <2>3. b.orders[o].price = p
    BY <2>1, <2>2 DEF Entry
  <2> DEFINE h == b.levels[l].first
  <2>4. Rests(b, h) /\ h \in OrderBlocks /\ Level(b, h) = l
    BY <1>1 DEF Ringed, InUse, Rests
  <2>5. b.orders[h].price = p
    BY <1>1, <2>4 DEF Placed
  <2>6. Level(b, o) = l
    BY <2>3, <2>4, <2>5 DEF Level, Slot
  <2> QED BY <2>1, <2>2, <2>6 DEF Members
<1> QED
  BY <1>2, <1>3

\* updateBBO comes around a side's best level, and what it adds up is all the
\* quantity the updates left there.
LEMMA QuoteIsTop ==
  ASSUME NEW b, Shaped(b), NEW t, NEW n \in OrderIds, Kept(b, t, n), Fit(b, n),
         NEW s \in Sides, b.best[s] # Null, NEW p, p = b.levels[b.best[s]].price,
         NEW F, IsSum(F, NumOrders, Amounts(t, s, p))
  PROVE  WalkStatus(b, s) = "running" /\ Quote(b, s) = [price |-> p, qty |-> F[NumOrders]]
<1> DEFINE l     == b.best[s]
           from  == b.levels[l].first
           chain == OrderChain(b, from)
           ends  == ChainEnds(chain)
           sum   == QtyOf(b, chain)
           M     == Members(b, l)
           r     == Moids(b)
           A     == Amounts(t, s, p)
           a     == QtysMet(b, chain)
           m     == [k \in 1 .. NumOrders |-> b.orders[chain[k - 1]].moid]
<1>1. l \in LevelsOf(b, s)
  BY TopOfSide
<1>2. /\ Cyclic(M, b.orders, r, from) /\ Within(M, NumOrders) /\ Null \notin M
      /\ from \in M /\ from \in OrderBlocks /\ from # Null
  <2>1. InUse(b, l) /\ Ringed(b)
    BY <1>1 DEF LevelsOf, Fit
  <2>2. Cyclic(M, b.orders, r, from) /\ Within(M, NumOrders) /\ Null \notin M
    BY <2>1, RingIsCyclic
  <2> QED BY <2>2 DEF Cyclic, Members
<1>3. /\ \A o \in M : /\ b.orders[o].moid \in 1 .. NumOrders
                      /\ A[b.orders[o].moid] = b.orders[o].qty
                      /\ r[o] = b.orders[o].moid /\ b.orders[o].qty \in Nat
      /\ \A i \in 1 .. NumOrders : A[i] = 0 \/ \E o \in M : b.orders[o].moid = i
  <2>1. \A o \in M : o \in OrderBlocks
    BY DEF Members
  <2>2. \A o \in M : r[o] = b.orders[o].moid /\ b.orders[o].qty \in Nat
    BY <2>1 DEF Moids, Shaped, BooksOn, Orders
  <2> QED BY <1>1, <2>2, AmountsAre
<1>4. /\ WalkStatus(b, s) = IF ends = {} THEN "hung"
                            ELSE IF chain[Min(ends)] = Null THEN "crashed" ELSE "running"
      /\ Quote(b, s) = [price |-> p, qty |-> sum[Min(ends)]]
  BY DEF WalkStatus, Quote
<1>5. IsChain(chain, NumOrders, Null, b.orders, from)
  <2>1. from \in OrderRefs
    BY <1>2 DEF OrderRefs, OrderBlocks
  <2> HIDE DEF from
  <2> QED BY <2>1, OrderChainIs
<1>6. IsSum(sum, NumOrders, a)
  <2> HIDE DEF chain
  <2> QED BY QtyOfIs
<1> HIDE DEF from, M, A, r, sum, l
<1>7. ends = {k \in 1 .. NumOrders : chain[k] \in {from, Null}}
  <2>1. chain[0] = from
    BY <1>5, Sizes DEF IsChain
  <2> HIDE DEF chain
  <2> QED BY <2>1 DEF ChainEnds
<1> HIDE DEF chain, ends
<1>8. /\ ends # {} /\ chain[Min(ends)] = from
      /\ Round(NumOrders, M, b.orders, r, from, chain, Min(ends))
  BY <1>2, <1>5, <1>7, RingEnds
<1> DEFINE size == Min(ends)
<1> HIDE DEF size
<1>9. /\ size \in 1 .. NumOrders /\ NumOrders \in Nat
      /\ \A k \in 0 .. NumOrders : chain[k] \in M
      /\ \A k \in 0 .. (size - 1) : \A j \in 0 .. (k - 1) : r[chain[j]] < r[chain[k]]
      /\ \A x \in M : \E k \in 0 .. (size - 1) : chain[k] = x
  BY <1>8, Sizes DEF Round, Walk, size
<1>10. \A k \in 1 .. NumOrders : /\ chain[k - 1] \in M
                                 /\ m[k] = b.orders[chain[k - 1]].moid
                                 /\ a[k] = b.orders[chain[k - 1]].qty
  <2>1. \A k \in 1 .. NumOrders : k - 1 \in 0 .. NumOrders
    BY <1>9
  <2> QED BY <1>9, <2>1 DEF QtysMet
<1> HIDE DEF m, a
<1>11. Spread(NumOrders, size, m, A, a)
  <2>1. size \in 0 .. NumOrders /\ \A k \in 1 .. size : k \in 1 .. NumOrders
    BY <1>9
  <2>2. \A k \in 1 .. size : m[k] \in 1 .. NumOrders /\ A[m[k]] = a[k]
    BY <1>3, <1>10, <2>1
  <2>3. ASSUME NEW k \in 1 .. size, NEW j \in 1 .. (k - 1) PROVE m[j] < m[k]
    <3>1. /\ j \in 1 .. NumOrders /\ k \in 1 .. NumOrders
          /\ k - 1 \in 0 .. (size - 1) /\ j - 1 \in 0 .. ((k - 1) - 1)
      BY <1>9
    <3>2. r[chain[j - 1]] < r[chain[k - 1]]
      BY <1>9, <3>1
    <3> QED BY <1>3, <1>10, <3>1, <3>2
  <2>4. ASSUME NEW i \in 1 .. NumOrders, A[i] # 0 PROVE \E k \in 1 .. size : m[k] = i
    <3>1. PICK o \in M : b.orders[o].moid = i
      BY <1>3, <2>4
    <3>2. PICK k \in 0 .. (size - 1) : chain[k] = o
      BY <1>9
    <3>3. k + 1 \in 1 .. size /\ k + 1 \in 1 .. NumOrders /\ (k + 1) - 1 = k
      BY <1>9
    <3>4. m[k + 1] = i
      BY <1>10, <3>1, <3>2, <3>3
    <3> QED BY <3>3, <3>4
  <2> QED BY <2>1, <2>2, <2>3, <2>4 DEF Spread
<1>12. \A k \in 1 .. size : a[k] \in Nat
  <2>1. \A k \in 1 .. size : k \in 1 .. NumOrders
    BY <1>9
  <2> QED BY <1>3, <1>10, <2>1
<1>13. F[NumOrders] = sum[size]
  BY <1>6, <1>9, <1>11, <1>12, SumsAgree DEF A
<1> QED
  BY <1>2, <1>4, <1>8, <1>13 DEF size

-----------------------------------------------------------------------------
(* From one update to the next *)

\* Between two updates the levels in use keep their prices.
SamePrices(b, c) == \A l \in LevelBlocks : InUse(b, l) => c.levels[l].price = b.levels[l].price

LEMMA AddSamePrices ==
  ASSUME NEW b, Shaped(b), b.status = "running", NEW t, NEW n \in Nat, Kept(b, t, n),
         NEW id \in Nat, NEW s \in Sides, NEW p \in Prices, NEW q \in Qtys,
         NEW u, u = Add(id, s, p, q), NEW c, c = AddNew(b, u), c.status = "running"
  PROVE  SamePrices(b, c)
<1> DEFINE o    == b.orderPool.next
           pool == Allocate(b.orderPool)
           ord  == NewOrder(u)
           d    == Stored(b, o, ord, pool)
<1>1. /\ p \in Nat /\ p # 0 /\ q \in Nat /\ Null \in OrderRefs
      /\ u.oid = id /\ u.side = s /\ u.price = p /\ u.qty = q
  BY MarketOrderBookAssumption DEF Add, OrderRefs
<1>2. ord \in Orders
  BY <1>1 DEF NewOrder, Orders
<1>3. c = IF pool.failed THEN Fail(d, "poolAssert")
          ELSE IF u.oid \notin OrderIds THEN Fail(d, "outOfRange")
          ELSE AddOrder(d, o)
  BY DEF AddNew, Stored
<1> HIDE DEF ord
<1>4. /\ b.orderPool \in Pools(NumOrders) /\ o \in OrderBlocks /\ NumOrders \in Nat \ {0}
      /\ ~b.orderPool.failed /\ b.orderPool.free[o]
      /\ ~b.levelPool.failed /\ b.levelPool.free[b.levelPool.next]
  BY Sizes DEF Shaped, BooksOn, Pools, OrderBlocks, Kept, PoolsReady
<1>5. pool \in Pools(NumOrders)
  BY <1>4, AllocateSpec
<1>6. /\ HasStored(b, d, o, ord, pool)
      /\ ~pool.failed => Took(b, d, o, ord)
  BY <1>2, <1>4, <1>5, StoredSpec, TookBlock DEF Kept
<1> HIDE DEF d, pool, o
<1>7. ~pool.failed /\ c = AddOrder(d, o)
  <2>1. Shaped(d)
    BY <1>6 DEF HasStored
  <2>2. \A how \in {"poolAssert", "outOfRange"} : Fail(d, how).status # "running"
    BY <2>1 DEF Fail, Shaped, BooksOn
  <2> QED BY <1>3, <2>2
<1>8. Added(d, c, o)
  <2>1. Shaped(d) /\ PoolsReady(d) /\ d.status = "running"
    BY <1>6, <1>7 DEF HasStored, Took
  <2> QED BY <1>4, <1>7, <2>1, AddOrderSpec DEF Added
<1>9. d.levels = b.levels /\ d.levelPool = b.levelPool
  BY <1>6 DEF HasStored
<1>10. \A l \in LevelBlocks : InUse(b, l) => l # b.levelPool.next
  BY <1>4 DEF InUse
<1> QED
  BY <1>8, <1>9, <1>10, AddedPrices DEF SamePrices

LEMMA CancelSamePrices ==
  ASSUME NEW b, Shaped(b), b.status = "running", NEW t, NEW n, Kept(b, t, n),
         NEW x \in t, NEW c, c = Cancel(b, About("CANCEL", x, 0)), c.status = "running"
  PROVE  SamePrices(b, c)
<1>1. PICK o \in OrderBlocks : Rests(b, o) /\ b.orderOf[TickerId][x.oid] = o
  BY OrderTold
<1>2. c = RemoveOrder(b, o)
  BY <1>1 DEF Cancel, About
<1> DEFINE l == b.levelAt[b.orders[o].price % NumPriceLevels]
<1>3. Closed(b, c, l) \/ Unlinked(b, c, o, l)
  BY <1>2, RemoveOrderSpec
<1> HIDE DEF l
<1> QED
  BY <1>3 DEF Closed, Unlinked, SameLevels, SamePrices

\* Of the orders that rest before or after, those at another side or price do both.
OnlyAt(t, v, s, p) == \A x \in t \cup v : (x.side = s /\ x.price = p) \/ (x \in t /\ x \in v)

LEMMA AtOthers ==
  ASSUME NEW t, NEW v, NEW s, NEW p, OnlyAt(t, v, s, p), NEW z, NEW r, z # s \/ r # p
  PROVE  Amounts(v, z, r) = Amounts(t, z, r)
<1>1. \A i : At(v, z, r, i) = At(t, z, r, i)
  BY DEF At, OnlyAt
<1> QED
  BY <1>1 DEF Amounts

\* The quote z is the price of the side's best level and all that t has there.
TopIs(b, t, s, z) ==
  IF \A x \in t : x.side # s THEN z = NoQuote
  ELSE LET p == b.levels[b.best[s]].price IN
       \A F : IsSum(F, NumOrders, Amounts(t, s, p)) => z = [price |-> p, qty |-> F[NumOrders]]

\* What the strategies see: the top, on the sides where no change was missed.
Shown(b, t, q, miss) == \A s \in Sides \ miss : TopIs(b, t, s, q[s])

\* What an update about u makes of the book b, when v rests then with ids up to n.
Carries(b, c, t, v, n, u) ==
  /\ c.status = "running" =>
       /\ Fit(c, n)
       /\ v = {} \/ (SamePrices(b, c) /\ OnlyAt(t, v, u.side, u.price))
  /\ c.status # "running" => Spent(c, n)

LEMMA QuotesTop ==
  ASSUME NEW b, Shaped(b), NEW t, NEW n \in OrderIds, Kept(b, t, n), Fit(b, n),
         NEW s \in Sides
  PROVE  WalkStatus(b, s) = "running" /\ TopIs(b, t, s, Quote(b, s))
<1>1. CASE b.best[s] = Null
  <2>1. WalkStatus(b, s) = "running" /\ Quote(b, s) = NoQuote
    BY <1>1 DEF WalkStatus, Quote
  <2>2. \A x \in t : x.side # s
    <3>1. Null \notin LevelsOf(b, s)
      BY Sizes DEF LevelsOf
    <3> QED BY <1>1, <3>1, TopOfSide
  <2> QED BY <2>1, <2>2 DEF TopIs
<1>2. CASE b.best[s] # Null
  <2> DEFINE p == b.levels[b.best[s]].price
  <2>1. \E F : IsSum(F, NumOrders, Amounts(t, s, p))
    BY SumExists, MEOrderBookAssumption
  <2>2. ~(\A x \in t : x.side # s)
    BY <1>2, TopOfSide
  <2>3. ASSUME NEW F, IsSum(F, NumOrders, Amounts(t, s, p))
        PROVE  WalkStatus(b, s) = "running" /\ Quote(b, s) = [price |-> p, qty |-> F[NumOrders]]
    BY <1>2, <2>3, QuoteIsTop
  <2> HIDE DEF p
  <2>4. WalkStatus(b, s) = "running"
    BY <2>1, <2>3
  <2>5. \A F : IsSum(F, NumOrders, Amounts(t, s, p)) =>
                 Quote(b, s) = [price |-> p, qty |-> F[NumOrders]]
    BY <2>3
  <2> QED BY <2>2, <2>4, <2>5 DEF p, TopIs
<1> QED
  BY <1>1, <1>2

\* Flags taken before an update suffice: a best level that has none and is still
\* the best has kept its price, and all that rests there.
LEMMA ShownAfter ==
  ASSUME NEW b, Shaped(b), NEW t, NEW n, Kept(b, t, n), Fit(b, n),
         NEW c, Shaped(c), NEW v, NEW m \in OrderIds, Kept(c, v, m), Fit(c, m),
         NEW u, v = {} \/ (SamePrices(b, c) /\ OnlyAt(t, v, u.side, u.price)),
         NEW q, NEW miss, Shown(b, t, q, miss),
         NEW flagged, flagged = Flagged(b, u),
         NEW w, w = [s \in Sides |-> IF s \in flagged THEN Quote(c, s) ELSE q[s]],
         NEW gone, gone = (miss \ flagged) \cup {s \in Sides \ flagged : c.best[s] # b.best[s]}
  PROVE  Shown(c, v, w, gone)
<1>1. \A s \in Sides \ miss : TopIs(b, t, s, q[s])
  BY DEF Shown
<1>2. \A s \in Sides : TopIs(c, v, s, Quote(c, s))
  BY QuotesTop
<1> SUFFICES ASSUME NEW s \in Sides, s \notin gone PROVE TopIs(c, v, s, w[s])
  BY DEF Shown
<1>3. CASE s \in flagged
  <2>1. w[s] = Quote(c, s)
    BY <1>3
  <2> QED BY <1>2, <2>1
<1>4. CASE s \notin flagged
  <2>1. w[s] = q[s] /\ s \notin miss /\ c.best[s] = b.best[s]
    BY <1>4
  <2>2. CASE b.best[s] = Null
    <3>1. Null \notin LevelsOf(b, s) /\ Null \notin LevelsOf(c, s)
      BY Sizes DEF LevelsOf
    <3>2. (\A x \in t : x.side # s) /\ (\A x \in v : x.side # s)
      BY <2>1, <2>2, <3>1, TopOfSide
    <3> QED BY <1>1, <2>1, <3>2 DEF TopIs
  <2>3. CASE b.best[s] # Null
    <3> DEFINE l == b.best[s]
               p == b.levels[l].price
    <3>1. /\ InUse(b, l) /\ l \in LevelBlocks
          /\ ~(\A x \in t : x.side # s) /\ ~(\A x \in v : x.side # s)
      BY <2>1, <2>3, TopOfSide DEF LevelsOf
    <3>2. SamePrices(b, c) /\ OnlyAt(t, v, u.side, u.price)
      BY <3>1
    <3>3. c.levels[c.best[s]].price = p
      BY <2>1, <3>1, <3>2 DEF SamePrices
    <3>4. s # u.side \/ p # u.price
      <4>1. p \in Nat
        BY <3>1 DEF Shaped, BooksOn, LevelsOn
      <4> QED BY <1>4, <2>3, <4>1 DEF Flagged
    <3>5. Amounts(v, s, p) = Amounts(t, s, p)
      BY <3>2, <3>4, AtOthers
    <3> HIDE DEF l
    <3> QED BY <1>1, <2>1, <3>1, <3>3, <3>5 DEF l, TopIs
  <2> QED BY <2>2, <2>3
<1> QED
  BY <1>3, <1>4

-----------------------------------------------------------------------------
(* The invariant of a book in which nothing was linked wrongly *)

SInv ==
  /\ Running /\ sound => Fit(book, lastId) /\ Shown(book, told, bbo, missed)
  /\ ~Running /\ attached /\ sound => Spent(book, lastId)

LEMMA AddCarries ==
  ASSUME NEW b, Shaped(b), b.status = "running", NEW t, NEW n \in OrderIds,
         Kept(b, t, n), Fit(b, n), NEW id \in (n + 1) .. NumOrders,
         NEW s \in Sides, NEW p \in Prices, NEW q \in Qtys,
         NEW u, u = Add(id, s, p, q), LinksWell(b, t, u), NEW c, c = AddNew(b, u),
         NEW v, v = t \cup {[oid |-> id, side |-> s, price |-> p, qty |-> q]}
  PROVE  Carries(b, c, t, v, id, u)
<1>1. n \in Nat
  BY Sizes DEF OrderBlocks
<1>2. c.status = "running" => Fit(c, id) /\ SamePrices(b, c)
  BY <1>1, AddFits, AddSamePrices
<1>3. c.status # "running" => Spent(c, id)
  BY AddFits
<1>4. OnlyAt(t, v, u.side, u.price)
  BY DEF OnlyAt, Add
<1> QED
  BY <1>2, <1>3, <1>4 DEF Carries

LEMMA ModifyCarries ==
  ASSUME NEW b, Shaped(b), b.status = "running", NEW t, NEW n \in OrderIds,
         Kept(b, t, n), Fit(b, n),
         NEW x \in t, NEW q \in 1 .. (x.qty - 1), NEW u, u = About("MODIFY", x, q),
         NEW c, c = Modify(b, u), NEW v, v = (t \ {x}) \cup {[x EXCEPT !.qty = q]}
  PROVE  Carries(b, c, t, v, n, u)
<1>1. c.status = "running" /\ Fit(c, n) /\ c.levels = b.levels
  BY ModifyFits
<1>2. SamePrices(b, c)
  BY <1>1 DEF SamePrices
<1>3. [x EXCEPT !.qty = q].side = x.side /\ [x EXCEPT !.qty = q].price = x.price
  <2>1. PICK o \in OrderBlocks : Entry(b.orders[o]) = x
    BY OrderTold
  <2> QED BY <2>1 DEF Entry
<1>4. OnlyAt(t, v, u.side, u.price)
  BY <1>3 DEF OnlyAt, About
<1> QED
  BY <1>1, <1>2, <1>4 DEF Carries

LEMMA CancelCarries ==
  ASSUME NEW b, Shaped(b), b.status = "running", NEW t, NEW n \in OrderIds,
         Kept(b, t, n), Fit(b, n),
         NEW x \in t, NEW u, u = About("CANCEL", x, 0),
         NEW c, c = Cancel(b, u), NEW v, v = t \ {x}
  PROVE  Carries(b, c, t, v, n, u)
<1>1. c.status = "running" /\ Fit(c, n)
  BY CancelFits
<1>2. SamePrices(b, c)
  BY <1>1, CancelSamePrices
<1>3. OnlyAt(t, v, u.side, u.price)
  BY DEF OnlyAt, About
<1> QED
  BY <1>1, <1>2, <1>3 DEF Carries

\* What follows any update of the book is the same for all of them.
LEMMA UpdateSound ==
  ASSUME IInv, SInv, NEW u, OnMarketUpdate(u),
         NEW b, b = Applied(book, u), Becomes(b, told', lastId'),
         b.status = "running" => lastId' \in OrderIds,
         sound' => Carries(book, b, told, told', lastId', u)
  PROVE  SInv'
<1> DEFINE flagged == Flagged(book, u)
           broken  == {s \in flagged : WalkStatus(b, s) # "running"}
<1>1. /\ Shaped(book) /\ Running /\ Kept(book, told, lastId) /\ flagged \subseteq Sides
      /\ bbo \in [Sides -> Quotes]
  BY DEF IInv, Typed, OnMarketUpdate, Flagged
<1>2. /\ IF b.status # "running" THEN book' = b
         ELSE IF broken # {}
           THEN book' = Fail(b, WalkStatus(b, CHOOSE s \in broken : TRUE))
         ELSE /\ bbo' = [s \in Sides |-> IF s \in flagged THEN Quote(b, s) ELSE bbo[s]]
              /\ book' = IF attached THEN b ELSE Fail(b, "crashed")
      /\ missed' = (missed \ flagged) \cup {s \in Sides \ flagged : b.best[s] # book.best[s]}
      /\ sound' => sound
      /\ attached' = attached
  BY DEF OnMarketUpdate
<1> HIDE DEF flagged
<1> SUFFICES ASSUME sound'
             PROVE  /\ book'.status = "running" =>
                         Fit(book', lastId') /\ Shown(book', told', bbo', missed')
                    /\ book'.status # "running" /\ attached => Spent(book', lastId')
  BY <1>2 DEF SInv, Running
<1>3. /\ Fit(book, lastId) /\ Shown(book, told, bbo, missed)
      /\ Carries(book, b, told, told', lastId', u)
  BY <1>1, <1>2 DEF SInv
<1>4. CASE b.status # "running"
  BY <1>2, <1>3, <1>4 DEF Carries
<1>5. CASE b.status = "running"
  <2>1. /\ Shaped(b) /\ Kept(b, told', lastId') /\ Fit(b, lastId') /\ lastId' \in OrderIds
        /\ told' = {} \/ (SamePrices(book, b) /\ OnlyAt(told, told', u.side, u.price))
    BY <1>3, <1>5 DEF Becomes, Carries
  <2>2. \A s \in Sides : WalkStatus(b, s) = "running"
    BY <2>1, QuotesTop
  <2>3. broken = {}
    BY <1>1, <2>2
  <2>4. /\ bbo' = [s \in Sides |-> IF s \in flagged THEN Quote(b, s) ELSE bbo[s]]
        /\ book' = IF attached THEN b ELSE Fail(b, "crashed")
    BY <1>2, <1>5, <2>3
  <2>5. Shown(b, told', bbo', missed')
    BY <1>1, <1>2, <1>3, <2>1, <2>4, ShownAfter DEF flagged
  <2>6. Fail(b, "crashed").status # "running"
    BY <2>1 DEF Fail, Shaped, BooksOn
  <2> QED BY <1>5, <2>1, <2>4, <2>5, <2>6
<1> QED
  BY <1>4, <1>5

LEMMA InitSound == Init => SInv
<1> SUFFICES ASSUME Init PROVE SInv
  OBVIOUS
<1>1. book = NewBook /\ told = {} /\ lastId = 0 /\ bbo = [s \in Sides |-> NoQuote]
  BY DEF Init
<1>2. /\ book.status = "running" /\ book.orderPool = NewPool(NumOrders)
      /\ book.levelPool = NewPool(NumLevels) /\ book.best = [s \in Sides |-> Null]
  BY <1>1 DEF NewBook
<1>3. /\ \A o : ~Rests(book, o)
      /\ \A l : ~InUse(book, l)
  BY <1>2 DEF NewPool, Rests, InUse, OrderBlocks, LevelBlocks
<1>4. \A s \in Sides : LevelsOf(book, s) = {} /\ book.best[s] = Null
  BY <1>2, <1>3 DEF LevelsOf
<1>5. Ringed(book) /\ Placed(book)
  BY <1>3 DEF Ringed, Placed
<1>6. LevelsRinged(book, lastId, <<>>)
  BY <1>3, <1>4 DEF LevelsRinged, Ranked, SideRinged, Sides
<1>7. Shown(book, told, bbo, missed)
  BY <1>1 DEF Shown, TopIs
<1> QED
  BY <1>2, <1>5, <1>6, <1>7 DEF SInv, Running, Fit

LEMMA LinksWellIs ==
  ASSUME NEW u
  PROVE  LinkedWell(book, u) <=> LinksWell(book, told, u)
BY DEF LinkedWell, LinksWell

LEMMA NextSound == IInv /\ SInv /\ [Next]_vars => SInv'
<1> SUFFICES ASSUME IInv, SInv, [Next]_vars PROVE SInv'
  OBVIOUS
<1>1. /\ Shaped(book) /\ AllListed(book)
      /\ Running => Kept(book, told, lastId) /\ lastId \in OrderIds
  BY DEF IInv, Typed
<1>2. Running /\ sound => Fit(book, lastId)
  BY DEF SInv
<1>3. OrderIds \subseteq Nat
  BY Sizes DEF OrderBlocks
<1>4. CASE OnAdd
  <2>0. PICK n \in (lastId + 1) .. NumOrders :
          /\ \E s \in Sides, p \in Prices, q \in Qtys :
               /\ OnMarketUpdate(Add(n, s, p, q))
               /\ told' = told \cup {[oid |-> n, side |-> s, price |-> p, qty |-> q]}
          /\ lastId' = n
    BY <1>4 DEF OnAdd
  <2>1. PICK s \in Sides, p \in Prices, q \in Qtys :
          /\ OnMarketUpdate(Add(n, s, p, q))
          /\ told' = told \cup {[oid |-> n, side |-> s, price |-> p, qty |-> q]}
    BY <2>0
  <2> DEFINE u == Add(n, s, p, q)
             b == AddNew(book, u)
  <2>2. Running /\ lastId' = n /\ lastId \in OrderIds /\ Kept(book, told, lastId)
    BY <1>1, <2>0, <2>1 DEF OnMarketUpdate
  <2>3. Applied(book, u) = b /\ u.type = "ADD"
    BY DEF Applied, Add
  <2>4. Becomes(b, told', n) /\ (b.status = "running" => n \in OrderIds)
    BY <1>1, <1>3, <2>1, <2>2, AddNewKeeps DEF Running
  <2>5. ASSUME sound' PROVE Carries(book, b, told, told', n, u)
    <3> HIDE DEF u
    <3>1. sound /\ LinkedWell(book, u)
      BY <2>1, <2>3, <2>5 DEF OnMarketUpdate, u
    <3>2. LinksWell(book, told, u) /\ Fit(book, lastId)
      BY <1>2, <2>2, <3>1, LinksWellIs
    <3>3. u = Add(n, s, p, q)
      BY DEF u
    <3> QED BY <1>1, <2>1, <2>2, <3>2, <3>3, AddCarries DEF Running
  <2> HIDE DEF u, b
  <2> QED BY <2>1, <2>2, <2>3, <2>4, <2>5, UpdateSound DEF u
<1>5. CASE OnModify
  <2>1. PICK t \in told : \E q \in 1 .. (t.qty - 1) :
          /\ OnMarketUpdate(About("MODIFY", t, q))
          /\ told' = (told \ {t}) \cup {[t EXCEPT !.qty = q]}
    BY <1>5 DEF OnModify
  <2>2. PICK q \in 1 .. (t.qty - 1) :
          /\ OnMarketUpdate(About("MODIFY", t, q))
          /\ told' = (told \ {t}) \cup {[t EXCEPT !.qty = q]}
    BY <2>1
  <2> DEFINE u == About("MODIFY", t, q)
             b == Modify(book, u)
  <2>3. Running /\ lastId' = lastId /\ lastId \in OrderIds /\ Kept(book, told, lastId)
    BY <1>1, <1>5, <2>2 DEF OnModify, OnMarketUpdate
  <2>4. Applied(book, u) = b
    BY DEF Applied, About
  <2>5. Becomes(b, told', lastId)
    BY <1>1, <1>3, <2>2, <2>3, ModifyKeeps DEF Running
  <2>6. ASSUME sound' PROVE Carries(book, b, told, told', lastId, u)
    <3>1. Fit(book, lastId)
      BY <1>2, <2>2, <2>3, <2>6 DEF OnMarketUpdate
    <3> QED BY <1>1, <2>2, <2>3, <3>1, ModifyCarries DEF Running
  <2> HIDE DEF u, b
  <2> QED BY <2>2, <2>3, <2>4, <2>5, <2>6, UpdateSound DEF u
<1>6. CASE OnCancel
  <2>1. PICK t \in told : /\ OnMarketUpdate(About("CANCEL", t, 0))
                          /\ told' = told \ {t}
    BY <1>6 DEF OnCancel
  <2> DEFINE u == About("CANCEL", t, 0)
             b == Cancel(book, u)
  <2>2. Running /\ lastId' = lastId /\ lastId \in OrderIds /\ Kept(book, told, lastId)
    BY <1>1, <1>6, <2>1 DEF OnCancel, OnMarketUpdate
  <2>3. Applied(book, u) = b
    BY DEF Applied, About
  <2>4. Becomes(b, told', lastId)
    BY <1>1, <1>3, <2>1, <2>2, CancelKeeps DEF Running
  <2>5. ASSUME sound' PROVE Carries(book, b, told, told', lastId, u)
    <3>1. Fit(book, lastId)
      BY <1>2, <2>1, <2>2, <2>5 DEF OnMarketUpdate
    <3> QED BY <1>1, <2>1, <2>2, <3>1, CancelCarries DEF Running
  <2> HIDE DEF u, b
  <2> QED BY <2>1, <2>2, <2>3, <2>4, <2>5, UpdateSound DEF u
<1>7. CASE OnClear
  <2> DEFINE u == [type |-> "CLEAR", side |-> "INVALID", price |-> 0]
             b == Clear(book)
  <2>1. OnMarketUpdate(u) /\ Running /\ told' = {} /\ lastId' = 0
    BY <1>7 DEF OnClear, OnMarketUpdate
  <2>2. Applied(book, u) = b
    BY DEF Applied
  <2>3. Becomes(b, told', lastId') /\ lastId' \in OrderIds
    BY <1>1, <2>1, ClearKeeps, Sizes DEF Running, OrderBlocks
  <2>4. ASSUME sound' PROVE Carries(book, b, told, told', lastId', u)
    <3>1. Fit(book, lastId)
      BY <1>2, <2>1, <2>4 DEF OnMarketUpdate
    <3>2. b.status = "running" /\ Fit(b, 0)
      BY <1>1, <2>1, <3>1, ClearFits DEF Running
    <3> HIDE DEF b, u
    <3> QED BY <2>1, <3>2 DEF Carries
  <2> HIDE DEF u, b
  <2> QED BY <2>1, <2>2, <2>3, <2>4, UpdateSound
<1>8. CASE OnTrade
  <2>1. /\ Running
        /\ book' = IF attached THEN book ELSE Fail(book, "crashed")
        /\ UNCHANGED <<bbo, attached, told, lastId, missed, sound>>
    BY <1>8 DEF OnTrade
  <2>2. CASE attached
    <3>1. book' = book /\ Running
      BY <2>1, <2>2
    <3>2. sound => Fit(book, lastId) /\ Shown(book, told, bbo, missed)
      BY <3>1 DEF SInv
    <3> QED BY <2>1, <3>1, <3>2 DEF SInv, Running
  <2>3. CASE ~attached
    <3>1. book'.status # "running" /\ ~attached'
      BY <1>1, <2>1, <2>3 DEF Fail, Shaped, BooksOn
    <3> QED BY <3>1 DEF SInv, Running
  <2> QED BY <2>2, <2>3
<1>9. CASE UNCHANGED vars
  BY <1>9 DEF SInv, Running, vars
<1> QED
  BY <1>4, <1>5, <1>6, <1>7, <1>8, <1>9 DEF Next

LEMMA SoundInvariant == Spec => [](IInv /\ SInv)
BY InitHolds, NextKeeps, InitSound, NextSound, PTL DEF Spec

\* As long as no order and no level was linked wrongly, the first level of a side is
\* one in use, an offer's the lowest; it is null when the side is empty, also after
\* a CLEAR, which leaves the price table as it was.
THEOREM TopHolds == Spec => []TopIsLive
<1>1. IInv /\ SInv => TopIsLive
  <2> SUFFICES ASSUME IInv, SInv, sound, Running, NEW s \in Sides
               PROVE  LET l == book.best[s] IN
                      IF Told(s) = {} THEN l = Null
                      ELSE /\ l \in LiveBlocks(book.levelPool)
                           /\ \E t \in Told(s) : t.price = book.levels[l].price
                           /\ s = "SELL" => \A t \in Told(s) : book.levels[l].price <= t.price
    BY DEF TopIsLive
  <2>1. Shaped(book) /\ Kept(book, told, lastId) /\ Fit(book, lastId)
    BY DEF IInv, Typed, SInv
  <2> DEFINE l == book.best[s]
  <2>2. IF \A x \in told : x.side # s THEN l = Null
        ELSE /\ l \in LevelsOf(book, s)
             /\ \E x \in told : x.side = s /\ x.price = book.levels[l].price
             /\ s = "SELL" => \A x \in told : x.side = s => book.levels[l].price <= x.price
    BY <2>1, TopOfSide
  <2>3. l \in LevelsOf(book, s) => l \in LiveBlocks(book.levelPool)
    BY <2>1, InUseIs DEF LevelsOf
  <2> HIDE DEF l
  <2>4. IF Told(s) = {} THEN l = Null
        ELSE /\ l \in LiveBlocks(book.levelPool)
             /\ \E t \in Told(s) : t.price = book.levels[l].price
             /\ s = "SELL" => \A t \in Told(s) : book.levels[l].price <= t.price
    BY <2>2, <2>3 DEF Told
  <2> QED BY <2>4 DEF l
<1> QED
  BY <1>1, SoundInvariant, PTL

\* A book in which nothing was linked wrongly ends for want of a block or of an id
\* only: no null pointer, no walk without an end and no assertion of the level pool.
THEOREM SurvivalHolds == Spec => []SoundSurvives
<1>1. IInv /\ SInv => SoundSurvives
  <2> SUFFICES ASSUME IInv, SInv, attached, sound, ~Running
               PROVE  lastId = NumOrders \/ LiveBlocks(book.orderPool) = OrderIds
    BY DEF SoundSurvives
  <2>1. Shaped(book) /\ Spent(book, lastId)
    BY DEF IInv, Typed, SInv
  <2>2. book.orderPool.size = NumOrders
    BY <2>1 DEF Shaped, BooksOn, Pools
  <2> QED BY <2>1, <2>2, Sizes DEF Spent, LiveBlocks, Blocks, OrderBlocks
<1> QED
  BY <1>1, SoundInvariant, PTL

LEMMA ToldQtyIs ==
  ASSUME NEW s, NEW p
  PROVE  IsSum(ToldQty(s, p), NumOrders, Amounts(told, s, p))
<1> DEFINE Q(i) == LET here == {t \in Told(s) : t.oid = i /\ t.price = p} IN
                   IF here = {} THEN 0 ELSE (CHOOSE t \in here : TRUE).qty
           A    == Amounts(told, s, p)
           P(f) == f = [i \in 0 .. NumOrders |-> IF i = 0 THEN 0 ELSE f[i - 1] + Q(i)]
<1>1. \A i \in 1 .. NumOrders : A[i] = Q(i)
  <2>1. \A i : Q(i) = QtyIn(At(told, s, p, i))
    BY Zenon DEF QtyIn, At, Told
  <2> HIDE DEF Q
  <2> QED BY <2>1 DEF Amounts
<1>2. ToldQty(s, p) = CHOOSE f : P(f)
  BY Zenon DEF ToldQty
<1> HIDE DEF Q, A
<1>3. ASSUME NEW f PROVE P(f) <=> IsSum(f, NumOrders, A)
  <2>1. \A i \in 0 .. NumOrders : i # 0 => A[i] = Q(i)
    BY <1>1, MEOrderBookAssumption
  <2>2. [i \in 0 .. NumOrders |-> IF i = 0 THEN 0 ELSE f[i - 1] + Q(i)]
          = [i \in 0 .. NumOrders |-> IF i = 0 THEN 0 ELSE f[i - 1] + A[i]]
    BY <2>1
  <2> QED BY <2>2 DEF IsSum
<1>4. \E f : P(f)
  BY <1>3, SumExists, MEOrderBookAssumption
<1>5. P(ToldQty(s, p))
  BY <1>2, <1>4
<1> HIDE DEF P
<1> QED
  BY <1>3, <1>5 DEF A

\* On a side whose best level did not change unflagged, the strategies see the price
\* of the first level and all the quantity the updates left there, whatever the
\* numbers of orders, levels and updates.
THEOREM BBOHolds == Spec => []BBOIsTop
<1>1. IInv /\ SInv => BBOIsTop
  <2> SUFFICES ASSUME IInv, SInv, sound, Running, NEW s \in Sides \ missed
               PROVE  IF Told(s) = {} THEN bbo[s] = NoQuote
                      ELSE LET price == book.levels[book.best[s]].price IN
                           bbo[s] = [price |-> price, qty |-> ToldQty(s, price)[NumOrders]]
    BY DEF BBOIsTop
  <2>1. TopIs(book, told, s, bbo[s])
    BY DEF SInv, Shown
  <2>2. Told(s) = {} <=> \A x \in told : x.side # s
    BY DEF Told
  <2> DEFINE p == book.levels[book.best[s]].price
  <2>3. IsSum(ToldQty(s, p), NumOrders, Amounts(told, s, p))
    BY ToldQtyIs
  <2> QED BY <2>1, <2>2, <2>3 DEF TopIs
<1> QED
  BY <1>1, SoundInvariant, PTL

=============================================================================
