-------------------------- MODULE MEOrderBookProofs --------------------------
(***************************************************************************)
(* What the operators of MEOrderBook do to a book, for every number of     *)
(* blocks of its two pools: the types they keep, the orders and pointers   *)
(* they change, and the rings of the orders.  Shared by the proofs about   *)
(* the exchange's book and the trader's.                                   *)
(***************************************************************************)
EXTENDS MEOrderBook, CommonFacts

OrderBlocks == 0 .. (NumOrders - 1)
LevelBlocks == 0 .. (NumLevels - 1)
Slots == 0 .. (NumPriceLevels - 1)     \* entries of the price table

Orders == [client : Clients \cup {TickerId, Null}, coid : Nat \cup {Null},
           moid : Nat \cup {Null}, side : Sides, price : Nat, qty : Nat,
           priority : Nat, prev : OrderRefs, next : OrderRefs]
LevelsOn(S) == [side : Sides, price : Nat, first : OrderRefs, prev : S, next : S]

\* The books whose pointers to levels are in S.
BooksOn(S) ==
  [orders : [OrderBlocks -> Orders], orderPool : Pools(NumOrders),
   levels : [LevelBlocks -> LevelsOn(S)], levelPool : Pools(NumLevels),
   best : [Sides -> S], levelAt : [Slots -> S],
   orderOf : [Clients \cup {TickerId} -> [OrderIds -> OrderRefs]],
   status : {"running"} \cup Ends]

\* The levels that were ever opened: they keep the order they were given first
\* or one after it.  No pointer leads to another level.
Opened(b) == {Null} \cup {l \in LevelBlocks : b.levels[l].first # Null}
Shaped(b) == b \in BooksOn(Opened(b))

\* What no operator on the rings changes of a level.
SameLevels(x, y) ==
  \A k \in LevelBlocks : /\ x[k].first = y[k].first
                         /\ x[k].price = y[k].price /\ x[k].side = y[k].side

\* What the operators on the levels of a side leave alone.
Relinked(b, c) ==
  /\ Shaped(c)
  /\ c.orders = b.orders /\ c.orderPool = b.orderPool /\ c.orderOf = b.orderOf
  /\ c.levelPool = b.levelPool /\ c.levelAt = b.levelAt
  /\ SameLevels(c.levels, b.levels)

-----------------------------------------------------------------------------
(* Pointers of the levels *)

LEMMA PrevSet ==
  ASSUME NEW S, NEW lv \in [LevelBlocks -> LevelsOn(S)], NEW k \in LevelBlocks, NEW v \in S
  PROVE  LET c == [lv EXCEPT ![k].prev = v] IN
         /\ c \in [LevelBlocks -> LevelsOn(S)]
         /\ SameLevels(c, lv)
BY DEF LevelsOn, SameLevels

LEMMA NextSet ==
  ASSUME NEW S, NEW lv \in [LevelBlocks -> LevelsOn(S)], NEW k \in LevelBlocks, NEW v \in S
  PROVE  LET c == [lv EXCEPT ![k].next = v] IN
         /\ c \in [LevelBlocks -> LevelsOn(S)]
         /\ SameLevels(c, lv)
BY DEF LevelsOn, SameLevels

LEMMA SameLevelsTwice ==
  ASSUME NEW x, NEW y, NEW z, SameLevels(y, x), SameLevels(z, y)
  PROVE  SameLevels(z, x)
BY DEF SameLevels

LEMMA SameLevelsOpened ==
  ASSUME NEW b, NEW c, SameLevels(c.levels, b.levels)
  PROVE  Opened(c) = Opened(b)
BY DEF SameLevels, Opened

\* Levels with other pointers, to levels that were opened.
LEMMA LevelsRelinked ==
  ASSUME NEW b, Shaped(b), NEW lv \in [LevelBlocks -> LevelsOn(Opened(b))],
         SameLevels(lv, b.levels)
  PROVE  Relinked(b, [b EXCEPT !.levels = lv])
<1> DEFINE c == [b EXCEPT !.levels = lv]
<1>1. /\ c \in BooksOn(Opened(b)) /\ c.levels = lv
      /\ c.orders = b.orders /\ c.orderPool = b.orderPool /\ c.orderOf = b.orderOf
      /\ c.levelPool = b.levelPool /\ c.levelAt = b.levelAt
  BY DEF Shaped, BooksOn
<1> HIDE DEF c
<1>2. Opened(c) = Opened(b)
  BY <1>1, SameLevelsOpened
<1> QED
  BY <1>1, <1>2 DEF Relinked, SameLevels, Shaped, c

LEMMA FailRelinked ==
  ASSUME NEW b, Shaped(b), NEW how \in Ends
  PROVE  Relinked(b, Fail(b, how)) /\ Fail(b, how).status = how
<1> DEFINE c == Fail(b, how)
<1>1. /\ c \in BooksOn(Opened(b)) /\ c.levels = b.levels
      /\ c.orders = b.orders /\ c.orderPool = b.orderPool /\ c.orderOf = b.orderOf
      /\ c.levelPool = b.levelPool /\ c.levelAt = b.levelAt /\ c.status = how
  BY DEF Shaped, BooksOn, Fail
<1> HIDE DEF c
<1>2. Opened(c) = Opened(b)
  BY <1>1 DEF Opened
<1> QED
  BY <1>1, <1>2 DEF Relinked, SameLevels, Shaped, c

-----------------------------------------------------------------------------
(* addOrdersAtPrice *)

LEMMA InsertLastRelinks ==
  ASSUME NEW b, Shaped(b), NEW l \in LevelBlocks, l \in Opened(b),
         NEW best \in LevelBlocks
  PROVE  Relinked(b, InsertLast(b, l, best))
<1> DEFINE S     == Opened(b)
           last  == b.levels[best].prev
           after == b.levels[last].next
           T     == [LevelBlocks -> LevelsOn(S)]
           lv1 == [b.levels EXCEPT ![l].prev = last]
           lv2 == [lv1 EXCEPT ![after].prev = l]
           lv3 == [lv2 EXCEPT ![l].next = after]
           lv4 == [lv3 EXCEPT ![last].next = l]
<1>1. CASE last = Null \/ after = Null
  BY <1>1, FailRelinked, Zenon DEF InsertLast, Ends
<1>2. CASE last # Null /\ after # Null
  <2>1. InsertLast(b, l, best) = [b EXCEPT !.levels = lv4]
    BY <1>2, Zenon DEF InsertLast
  <2>2. b.levels \in T
    BY DEF Shaped, BooksOn
  <2>3. last \in S /\ last \in LevelBlocks
    BY <2>2, <1>2 DEF LevelsOn, Opened
  <2>4. after \in S /\ after \in LevelBlocks
    BY <2>2, <2>3, <1>2 DEF LevelsOn, Opened
  <2> HIDE DEF S, last, after
  <2>5. lv1 \in T /\ SameLevels(lv1, b.levels)
    BY <2>2, <2>3, PrevSet
  <2>6. lv2 \in T /\ SameLevels(lv2, b.levels)
    <3> HIDE DEF lv1
    <3> QED BY <2>4, <2>5, PrevSet, SameLevelsTwice DEF S
  <2>7. lv3 \in T /\ SameLevels(lv3, b.levels)
    <3> HIDE DEF lv2
    <3> QED BY <2>4, <2>6, NextSet, SameLevelsTwice
  <2>8. lv4 \in T /\ SameLevels(lv4, b.levels)
    <3> HIDE DEF lv3
    <3> QED BY <2>3, <2>7, NextSet, SameLevelsTwice DEF S
  <2> HIDE DEF lv4
  <2> QED
    BY <2>1, <2>8, LevelsRelinked DEF S
<1> QED
  BY <1>1, <1>2

LEMMA RelinkedTwice ==
  ASSUME NEW a, NEW b, NEW c, Relinked(a, b), Relinked(b, c)
  PROVE  Relinked(a, c)
BY SameLevelsTwice DEF Relinked

\* Another best level, which was opened.
LEMMA BestRelinked ==
  ASSUME NEW b, Shaped(b), NEW side \in Sides, NEW v \in Opened(b)
  PROVE  Relinked(b, [b EXCEPT !.best[side] = v])
<1> DEFINE c == [b EXCEPT !.best[side] = v]
<1>1. /\ c \in BooksOn(Opened(b)) /\ c.levels = b.levels
      /\ c.orders = b.orders /\ c.orderPool = b.orderPool /\ c.orderOf = b.orderOf
      /\ c.levelPool = b.levelPool /\ c.levelAt = b.levelAt
  BY DEF Shaped, BooksOn
<1> HIDE DEF c
<1>2. Opened(c) = Opened(b)
  BY <1>1 DEF Opened
<1> QED
  BY <1>1, <1>2 DEF Relinked, SameLevels, Shaped, c

LEMMA InsertBeforeRelinks ==
  ASSUME NEW b, Shaped(b), NEW l \in LevelBlocks, l \in Opened(b),
         NEW target \in LevelBlocks, target \in Opened(b), NEW best
  PROVE  Relinked(b, InsertBefore(b, l, target, best))
<1> DEFINE S      == Opened(b)
           before == b.levels[target].prev
           behind == b.levels[target].next
           side   == b.levels[l].side
           T      == [LevelBlocks -> LevelsOn(S)]
           lv1 == [b.levels EXCEPT ![l].prev = behind]
           lv2 == [lv1 EXCEPT ![l].next = target]
           lv3 == [lv2 EXCEPT ![before].next = l]
           v   == IF lv3[target].next = best THEN l ELSE lv3[target].next
           lv4 == [lv3 EXCEPT ![target].next = v]
           c   == [b EXCEPT !.levels = lv4]
<1>1. CASE before = Null
  BY <1>1, FailRelinked DEF InsertBefore, Ends
<1>2. CASE before # Null
  <2>1. \/ InsertBefore(b, l, target, best) = [b EXCEPT !.levels = lv3]
        \/ InsertBefore(b, l, target, best) = [c EXCEPT !.best[side] = l]
    <3>1. lv3 = [[b.levels EXCEPT ![l].prev = b.levels[target].next, ![l].next = target]
                   EXCEPT ![before].next = l]
      OBVIOUS
    <3>2. lv4 = [lv3 EXCEPT ![target].next = IF @ = best THEN l ELSE @]
      OBVIOUS
    <3>3. [c EXCEPT !.best[side] = l] = [b EXCEPT !.levels = lv4, !.best[side] = l]
      OBVIOUS
    <3> QED
      BY <1>2, <3>1, <3>2, <3>3 DEF InsertBefore
  <2>2. b.levels \in T
    BY DEF Shaped, BooksOn
  <2>3. before \in S /\ before \in LevelBlocks /\ behind \in S
    BY <2>2, <1>2 DEF LevelsOn, Opened
  <2>4. side \in Sides
    BY <2>2 DEF LevelsOn
  <2> HIDE DEF S, before, behind, side
  <2>5. lv1 \in T /\ SameLevels(lv1, b.levels)
    BY <2>2, <2>3, PrevSet
  <2>6. lv2 \in T /\ SameLevels(lv2, b.levels)
    <3> HIDE DEF lv1
    <3> QED BY <2>5, NextSet, SameLevelsTwice DEF S
  <2>7. lv3 \in T /\ SameLevels(lv3, b.levels)
    <3> HIDE DEF lv2
    <3> QED BY <2>3, <2>6, NextSet, SameLevelsTwice DEF S
  <2>8. lv4 \in T /\ SameLevels(lv4, b.levels)
    <3> HIDE DEF lv3
    <3>1. v \in S
      BY <2>7 DEF S, LevelsOn
    <3> HIDE DEF v
    <3> QED BY <2>7, <3>1, NextSet, SameLevelsTwice
  <2>9. Relinked(b, [b EXCEPT !.levels = lv3])
    <3> HIDE DEF lv3
    <3> QED BY <2>7, LevelsRelinked DEF S
  <2>10. Relinked(b, [c EXCEPT !.best[side] = l])
    <3> HIDE DEF lv4
    <3>1. Relinked(b, c) /\ c.levels = lv4
      BY <2>8, LevelsRelinked DEF S, Shaped, BooksOn
    <3>2. Shaped(c) /\ Opened(c) = Opened(b)
      BY <3>1, SameLevelsOpened DEF Relinked
    <3> HIDE DEF c
    <3>3. Relinked(c, [c EXCEPT !.best[side] = l])
      BY <3>2, <2>4, BestRelinked
    <3> QED
      BY <3>1, <3>3, RelinkedTwice
  <2> QED
    BY <2>1, <2>9, <2>10, SMTT(40)
<1> QED
  BY <1>1, <1>2

\* Following m_next_entry from a level that was opened.
LEMMA ChainOpened ==
  ASSUME NEW b, Shaped(b), NEW from \in Opened(b)
  PROVE  \A k \in 0 .. NumLevels : NextChain(b, from)[k] \in Opened(b)
<1> DEFINE S     == Opened(b)
           chain == NextChain(b, from)
<1>1. \A l \in S : (IF l = Null THEN Null ELSE b.levels[l].next) \in S
  BY DEF Shaped, BooksOn, LevelsOn, Opened
<1>2. NumLevels \in Nat /\ Null \in S
  BY MEOrderBookAssumption DEF Opened
<1>3. \E f : IsChain(f, NumLevels, Null, b.levels, from)
  BY <1>2, ChainExists
<1>4. chain = CHOOSE f : IsChain(f, NumLevels, Null, b.levels, from)
  BY DEF NextChain, IsChain
<1>5. IsChain(chain, NumLevels, Null, b.levels, from)
  BY <1>3, <1>4
<1> HIDE DEF chain, S
<1>6. \A k \in 0 .. NumLevels : chain[k] \in S
  BY <1>1, <1>2, <1>5, ChainStays DEF S
<1> QED
  BY <1>6 DEF chain, S

LEMMA SlotInTable ==
  ASSUME NEW price \in Nat
  PROVE  price % NumPriceLevels \in Slots
BY MEOrderBookAssumption DEF Slots

\* Another entry of the price table.
LEMMA LevelAtSet ==
  ASSUME NEW b, Shaped(b), NEW i \in Slots, NEW v \in Opened(b)
  PROVE  LET c == [b EXCEPT !.levelAt[i] = v] IN
         /\ Shaped(c) /\ Opened(c) = Opened(b)
         /\ c.levelAt = [b.levelAt EXCEPT ![i] = v]
         /\ c.levels = b.levels /\ c.best = b.best /\ c.status = b.status
         /\ c.orders = b.orders /\ c.orderPool = b.orderPool
         /\ c.orderOf = b.orderOf /\ c.levelPool = b.levelPool
<1> DEFINE c == [b EXCEPT !.levelAt[i] = v]
<1>1. /\ c \in BooksOn(Opened(b)) /\ c.levelAt = [b.levelAt EXCEPT ![i] = v]
      /\ c.levels = b.levels /\ c.best = b.best /\ c.status = b.status
      /\ c.orders = b.orders /\ c.orderPool = b.orderPool
      /\ c.orderOf = b.orderOf /\ c.levelPool = b.levelPool
  BY DEF Shaped, BooksOn
<1> HIDE DEF c
<1>2. Opened(c) = Opened(b)
  BY <1>1 DEF Opened
<1> QED
  BY <1>1, <1>2 DEF Shaped, c

\* A level in the table and in the ring of its side, or a crash or a walk
\* without an end on the way.
LEMMA AddOrdersAtPriceSpec ==
  ASSUME NEW b0, Shaped(b0), NEW l \in LevelBlocks, l \in Opened(b0)
  PROVE  Relinked([b0 EXCEPT !.levelAt[b0.levels[l].price % NumPriceLevels] = l],
                  AddOrdersAtPrice(b0, l))
<1> DEFINE side  == b0.levels[l].side
           b     == [b0 EXCEPT !.levelAt[b0.levels[l].price % NumPriceLevels] = l]
           best  == b.best[side]
           chain == NextChain(b, best)
           Stop(k) == \/ chain[k] \in {best, Null}
                      \/ ~GoesAfter(b, l, chain[k])
           stops == {k \in 1 .. NumLevels : Stop(k)}
           stop  == CHOOSE k \in stops : \A j \in stops : k <= j
           alone == [b EXCEPT !.best[side] = l, !.levels[l].prev = l, !.levels[l].next = l]
<1>1. b0.levels[l].side \in Sides /\ b0.levels[l].price \in Nat
  BY DEF Shaped, BooksOn, LevelsOn
<1>2. Shaped(b) /\ Opened(b) = Opened(b0) /\ l \in Opened(b)
  BY <1>1, SlotInTable, LevelAtSet
<1> DEFINE r == AddOrdersAtPrice(b0, l)
<1>3. \/ r = alone
      \/ r = Fail(b, "hung")
      \/ r = Fail(b, "crashed")
      \/ best # Null /\ r = InsertLast(b, l, best)
      \/ best # Null /\ r = InsertBefore(b, l, best, best)
      \/ /\ stops # {} /\ chain[stop] # Null
         /\ r = InsertBefore(b, l, chain[stop], best)
  <2> HIDE DEF chain, stop, Stop
  <2> QED
    BY Zenon DEF AddOrdersAtPrice, chain, stop, Stop
<1> HIDE DEF b, r, side
<1>4. best \in Opened(b)
  BY <1>1, <1>2 DEF Shaped, BooksOn, side
<1>5. best # Null => best \in LevelBlocks
  BY <1>4 DEF Opened
<1>6. CASE r = alone
  <2> DEFINE lv1 == [b.levels EXCEPT ![l].prev = l]
             lv2 == [lv1 EXCEPT ![l].next = l]
             c   == [b EXCEPT !.levels = lv2]
             T   == [LevelBlocks -> LevelsOn(Opened(b))]
  <2>1. b.levels \in T
    BY <1>2 DEF Shaped, BooksOn
  <2>2. lv1 \in T /\ SameLevels(lv1, b.levels)
    BY <1>2, <2>1, PrevSet
  <2>3. lv2 \in T /\ SameLevels(lv2, b.levels)
    <3> HIDE DEF lv1
    <3> QED BY <1>2, <2>2, NextSet, SameLevelsTwice
  <2>4. alone = [c EXCEPT !.best[side] = l]
    OBVIOUS
  <2> HIDE DEF lv2
  <2>5. Relinked(b, c) /\ Shaped(c) /\ c.levels = lv2
    BY <1>2, <2>3, LevelsRelinked DEF Relinked, Shaped, BooksOn
  <2> HIDE DEF c
  <2>6. Opened(c) = Opened(b)
    BY <2>3, <2>5, SameLevelsOpened
  <2>7. Relinked(c, alone)
    BY <1>1, <1>2, <2>4, <2>5, <2>6, BestRelinked DEF side
  <2> QED
    BY <1>6, <2>5, <2>7, RelinkedTwice DEF r, b
<1>7. CASE r = Fail(b, "hung") \/ r = Fail(b, "crashed")
  BY <1>2, <1>7, FailRelinked DEF r, b, Ends
<1>8. CASE best # Null /\ r = InsertLast(b, l, best)
  BY <1>2, <1>5, <1>8, InsertLastRelinks DEF r, b
<1>9. CASE best # Null /\ r = InsertBefore(b, l, best, best)
  BY <1>2, <1>4, <1>5, <1>9, InsertBeforeRelinks DEF r, b
<1>10. CASE /\ stops # {} /\ chain[stop] # Null
            /\ r = InsertBefore(b, l, chain[stop], best)
  <2>1. stop \in 1 .. NumLevels
    <3> HIDE DEF Stop
    <3>1. stops \in SUBSET Nat /\ stops \subseteq 1 .. NumLevels
      BY MEOrderBookAssumption
    <3> HIDE DEF stops
    <3>2. \E k \in stops : \A j \in stops : k <= j
      BY <3>1, <1>10, LeastNatural
    <3> QED BY <3>1, <3>2
  <2> HIDE DEF stop, chain
  <2>2. chain[stop] \in Opened(b) /\ chain[stop] \in LevelBlocks
    <3>1. stop \in 0 .. NumLevels
      BY <2>1, MEOrderBookAssumption
    <3>2. chain[stop] \in Opened(b)
      BY <3>1, <1>2, <1>4, ChainOpened DEF chain
    <3> QED BY <3>2, <1>10 DEF Opened
  <2> QED
    BY <1>2, <1>10, <2>2, InsertBeforeRelinks DEF r, b
<1> QED
  BY <1>3, <1>6, <1>7, <1>8, <1>9, <1>10, Zenon

-----------------------------------------------------------------------------
(* Pointers of the orders *)

\* What no operator on the rings changes of an order.
Content(p) == <<p.client, p.coid, p.moid, p.side, p.price, p.qty, p.priority>>
SameContents(x, y) == \A k \in OrderBlocks : Content(x[k]) = Content(y[k])

\* Of the orders x, the pointers given by prev and next.
Repointed(x, y, prev, next) ==
  /\ y \in [OrderBlocks -> Orders] /\ SameContents(y, x)
  /\ \A k \in OrderBlocks : y[k].prev = prev[k] /\ y[k].next = next[k]

Prevs(x) == [k \in OrderBlocks |-> x[k].prev]
Nexts(x) == [k \in OrderBlocks |-> x[k].next]

LEMMA OrderPrevSet ==
  ASSUME NEW x \in [OrderBlocks -> Orders], NEW o \in OrderBlocks, NEW v \in OrderRefs
  PROVE  Repointed(x, [x EXCEPT ![o].prev = v], [Prevs(x) EXCEPT ![o] = v], Nexts(x))
BY DEF Orders, SameContents, Content, Repointed, Prevs, Nexts

LEMMA OrderNextSet ==
  ASSUME NEW x \in [OrderBlocks -> Orders], NEW o \in OrderBlocks, NEW v \in OrderRefs
  PROVE  Repointed(x, [x EXCEPT ![o].next = v], Prevs(x), [Nexts(x) EXCEPT ![o] = v])
BY DEF Orders, SameContents, Content, Repointed, Prevs, Nexts

LEMMA RepointedTwice ==
  ASSUME NEW x, NEW y, NEW z, NEW p, NEW n, NEW q, NEW m,
         Repointed(x, y, p, n), Repointed(y, z, q, m)
  PROVE  Repointed(x, z, q, m)
BY DEF Repointed, SameContents

LEMMA RepointedIs ==
  ASSUME NEW x, NEW y, NEW p \in [OrderBlocks -> OrderRefs],
         NEW n \in [OrderBlocks -> OrderRefs], Repointed(x, y, p, n)
  PROVE  Prevs(y) = p /\ Nexts(y) = n /\ y \in [OrderBlocks -> Orders]
BY DEF Repointed, Prevs, Nexts

\* Two pointers next and two pointers prev set one after the other.
LEMMA OrdersRelinked ==
  ASSUME NEW x \in [OrderBlocks -> Orders],
         NEW n1 \in OrderBlocks, NEW nv1 \in OrderRefs,
         NEW p1 \in OrderBlocks, NEW pv1 \in OrderRefs,
         NEW p2 \in OrderBlocks, NEW pv2 \in OrderRefs,
         NEW n2 \in OrderBlocks, NEW nv2 \in OrderRefs
  PROVE  Repointed(x,
           [[[[x EXCEPT ![n1].next = nv1] EXCEPT ![p1].prev = pv1]
               EXCEPT ![p2].prev = pv2] EXCEPT ![n2].next = nv2],
           [[Prevs(x) EXCEPT ![p1] = pv1] EXCEPT ![p2] = pv2],
           [[Nexts(x) EXCEPT ![n1] = nv1] EXCEPT ![n2] = nv2])
<1> DEFINE x1 == [x EXCEPT ![n1].next = nv1]
           x2 == [x1 EXCEPT ![p1].prev = pv1]
           x3 == [x2 EXCEPT ![p2].prev = pv2]
           x4 == [x3 EXCEPT ![n2].next = nv2]
           P0 == Prevs(x)
           N0 == Nexts(x)
           P1 == [P0 EXCEPT ![p1] = pv1]
           P2 == [P1 EXCEPT ![p2] = pv2]
           N1 == [N0 EXCEPT ![n1] = nv1]
           N2 == [N1 EXCEPT ![n2] = nv2]
           R  == [OrderBlocks -> OrderRefs]
<1>0. P0 \in R /\ N0 \in R
  BY DEF Prevs, Nexts, Orders
<1>1. Repointed(x, x1, P0, N1)
  BY OrderNextSet
<1>2. P1 \in R /\ P2 \in R /\ N1 \in R /\ N2 \in R
  <2> HIDE DEF P0, N0
  <2> QED BY <1>0
<1> HIDE DEF x1, P0, N1, R
<1>3. Prevs(x1) = P0 /\ Nexts(x1) = N1 /\ x1 \in [OrderBlocks -> Orders]
  BY <1>0, <1>1, <1>2, RepointedIs DEF R
<1>4. Repointed(x1, x2, P1, N1)
  BY <1>3, OrderPrevSet
<1> HIDE DEF x2, P1
<1>5. Repointed(x, x2, P1, N1)
  BY <1>1, <1>4, RepointedTwice
<1>6. Prevs(x2) = P1 /\ Nexts(x2) = N1 /\ x2 \in [OrderBlocks -> Orders]
  BY <1>2, <1>4, RepointedIs DEF R
<1>7. Repointed(x2, x3, P2, N1)
  BY <1>6, OrderPrevSet
<1> HIDE DEF x3, P2
<1>8. Repointed(x, x3, P2, N1)
  BY <1>5, <1>7, RepointedTwice
<1>9. Prevs(x3) = P2 /\ Nexts(x3) = N1 /\ x3 \in [OrderBlocks -> Orders]
  BY <1>2, <1>7, RepointedIs DEF R
<1>10. Repointed(x3, x4, P2, N2)
  BY <1>9, OrderNextSet
<1> HIDE DEF x4, N2
<1>11. Repointed(x, x4, P2, N2)
  BY <1>8, <1>10, RepointedTwice
<1> QED
  BY <1>11 DEF x4, x3, x2, x1, P2, P1, P0, N2, N1, N0

\* A book with other orders and the same levels.
LEMMA OrdersSet ==
  ASSUME NEW b, Shaped(b), NEW x \in [OrderBlocks -> Orders]
  PROVE  LET c == [b EXCEPT !.orders = x] IN
         /\ Shaped(c) /\ Opened(c) = Opened(b) /\ c.orders = x
         /\ c.levels = b.levels /\ c.best = b.best /\ c.levelAt = b.levelAt
         /\ c.orderPool = b.orderPool /\ c.levelPool = b.levelPool
         /\ c.orderOf = b.orderOf /\ c.status = b.status
<1> DEFINE c == [b EXCEPT !.orders = x]
<1>1. /\ c \in BooksOn(Opened(b)) /\ c.orders = x
      /\ c.levels = b.levels /\ c.best = b.best /\ c.levelAt = b.levelAt
      /\ c.orderPool = b.orderPool /\ c.levelPool = b.levelPool
      /\ c.orderOf = b.orderOf /\ c.status = b.status
  BY DEF Shaped, BooksOn
<1> HIDE DEF c
<1>2. Opened(c) = Opened(b)
  BY <1>1 DEF Opened
<1> QED
  BY <1>1, <1>2 DEF Shaped, c

-----------------------------------------------------------------------------
(* addOrder *)

\* The order o is the last of the ring of level l.
Joined(b, c, o, l) ==
  LET first == b.levels[l].first
      last  == b.orders[first].prev
  IN  /\ l \in LevelBlocks /\ first \in OrderBlocks /\ last \in OrderBlocks
      /\ \A k \in OrderBlocks :
           /\ c.orders[k].next = IF k = o THEN first ELSE IF k = last THEN o
                                 ELSE b.orders[k].next
           /\ c.orders[k].prev = IF k = first THEN o ELSE IF k = o THEN last
                                 ELSE b.orders[k].prev
      /\ c.levelAt = b.levelAt /\ c.levelPool = b.levelPool
      /\ SameLevels(c.levels, b.levels)

\* The order o is alone in the new level l.
Alone(b, c, o, l) ==
  /\ l = b.levelPool.next /\ l \in LevelBlocks
  /\ c.levelPool = Allocate(b.levelPool) /\ ~c.levelPool.failed
  /\ \A k \in OrderBlocks :
       /\ c.orders[k].next = IF k = o THEN o ELSE b.orders[k].next
       /\ c.orders[k].prev = IF k = o THEN o ELSE b.orders[k].prev
  /\ c.levelAt = [b.levelAt EXCEPT ![b.orders[o].price % NumPriceLevels] = l]
  /\ \A k \in LevelBlocks :
       /\ c.levels[k].first = IF k = l THEN o ELSE b.levels[k].first
       /\ c.levels[k].price = IF k = l THEN b.orders[o].price ELSE b.levels[k].price
       /\ c.levels[k].side = IF k = l THEN b.orders[o].side ELSE b.levels[k].side

LEMMA AppendToLevelSpec ==
  ASSUME NEW b, Shaped(b), NEW o \in OrderBlocks,
         NEW l \in LevelBlocks, l \in Opened(b),
         NEW c, c = AppendToLevel(b, o, l)
  PROVE  /\ Shaped(c) /\ c.orderPool = b.orderPool /\ c.orderOf = b.orderOf
         /\ SameContents(c.orders, b.orders)
         /\ c.status \in {b.status, "crashed"}
         /\ c.status # "crashed" => Joined(b, c, o, l)
<1> DEFINE first == b.levels[l].first
           last  == b.orders[first].prev
           x     == [[[[b.orders EXCEPT ![last].next = o] EXCEPT ![o].prev = last]
                        EXCEPT ![first].prev = o] EXCEPT ![o].next = first]
<1>1. first \in OrderBlocks /\ first \in OrderRefs
  <2>1. first # Null
    BY DEF Opened, LevelBlocks, Null
  <2>2. first \in OrderRefs
    BY DEF Shaped, BooksOn, LevelsOn
  <2> QED
    BY <2>1, <2>2 DEF OrderRefs, OrderBlocks
<1>2. last \in OrderRefs /\ (last # Null => last \in OrderBlocks)
  BY <1>1 DEF Shaped, BooksOn, Orders, OrderRefs, OrderBlocks
<1>3. o \in OrderRefs /\ b.orders \in [OrderBlocks -> Orders]
  BY DEF OrderRefs, OrderBlocks, Shaped, BooksOn
<1>4. CASE last = Null
  <2>1. c = Fail(b, "crashed")
    BY <1>4 DEF AppendToLevel
  <2> QED
    BY <2>1, FailRelinked DEF Ends, Relinked, SameContents
<1>5. CASE last # Null
  <2>1. c = [b EXCEPT !.orders = x]
    <3>1. x = [[b.orders EXCEPT ![last].next = o, ![o].prev = last]
                 EXCEPT ![o].next = first, ![first].prev = o]
      <4> DEFINE x1 == [[b.orders EXCEPT ![last].next = o] EXCEPT ![o].prev = last]
      <4>1. x1 = [b.orders EXCEPT ![last].next = o, ![o].prev = last]
        OBVIOUS
      <4>2. x1 \in [OrderBlocks -> Orders]
        <5> DEFINE x0 == [b.orders EXCEPT ![last].next = o]
        <5>1. x0 \in [OrderBlocks -> Orders]
          BY <1>2, <1>3, <1>5, OrderNextSet, Zenon DEF Repointed
        <5> HIDE DEF x0
        <5>2. [x0 EXCEPT ![o].prev = last] \in [OrderBlocks -> Orders]
          BY <1>2, <5>1, OrderPrevSet DEF Repointed
        <5> QED BY <5>2, Zenon DEF x0
      <4> HIDE DEF x1
      <4>3. [[x1 EXCEPT ![first].prev = o] EXCEPT ![o].next = first]
             = [x1 EXCEPT ![o].next = first, ![first].prev = o]
        BY <4>2 DEF Orders
      <4> QED BY <4>1, <4>3, Zenon DEF x1
    <3> QED BY <1>5, <3>1, Zenon DEF AppendToLevel
  <2> HIDE DEF first, last
  <2>2. /\ x \in [OrderBlocks -> Orders] /\ SameContents(x, b.orders)
        /\ \A k \in OrderBlocks :
             /\ x[k].next = IF k = o THEN first ELSE IF k = last THEN o
                            ELSE b.orders[k].next
             /\ x[k].prev = IF k = first THEN o ELSE IF k = o THEN last
                            ELSE b.orders[k].prev
    <3> DEFINE P == [[Prevs(b.orders) EXCEPT ![o] = last] EXCEPT ![first] = o]
               N == [[Nexts(b.orders) EXCEPT ![last] = o] EXCEPT ![o] = first]
    <3>1. Repointed(b.orders, x, P, N)
      BY <1>1, <1>2, <1>3, <1>5, OrdersRelinked
    <3>2. \A k \in OrderBlocks :
            /\ N[k] = IF k = o THEN first ELSE IF k = last THEN o ELSE b.orders[k].next
            /\ P[k] = IF k = first THEN o ELSE IF k = o THEN last ELSE b.orders[k].prev
      BY DEF Prevs, Nexts
    <3> HIDE DEF P, N, x
    <3> QED
      BY <3>1, <3>2 DEF Repointed
  <2> HIDE DEF x
  <2>3. /\ Shaped(c) /\ c.orders = x
        /\ c.levels = b.levels /\ c.levelAt = b.levelAt
        /\ c.orderPool = b.orderPool /\ c.levelPool = b.levelPool
        /\ c.orderOf = b.orderOf /\ c.status = b.status
    BY <2>1, <2>2, OrdersSet
  <2>4. Joined(b, c, o, l)
    BY <2>2, <2>3, <1>1, <1>2, <1>5 DEF Joined, SameLevels, first, last
  <2> QED
    BY <2>2, <2>3, <2>4
<1> QED
  BY <1>4, <1>5

\* Other fields of a book: none of them is a pointer to a level.
\* The table of the orders with another entry, and the book with that table.
Pointing(f, client, coid, v) == [f EXCEPT ![client][coid] = v]
OrderOfIs(b, client, coid, v) == [b EXCEPT !.orderOf[client][coid] = v]

LEMMA OrderOfSet ==
  ASSUME NEW b, Shaped(b), NEW client, NEW coid, NEW v \in OrderRefs,
         NEW c, c = OrderOfIs(b, client, coid, v)
  PROVE  /\ Shaped(c) /\ Opened(c) = Opened(b)
         /\ c.levels = b.levels /\ c.best = b.best /\ c.levelAt = b.levelAt
         /\ c.orderPool = b.orderPool /\ c.levelPool = b.levelPool
         /\ c.orders = b.orders /\ c.status = b.status
         /\ c.orderOf = Pointing(b.orderOf, client, coid, v)
<1> DEFINE T == [Clients \cup {TickerId} -> [OrderIds -> OrderRefs]]
           f == [b.orderOf EXCEPT ![client][coid] = v]
<1>1. f \in T
  <2>1. b.orderOf \in T
    BY DEF Shaped, BooksOn
  <2>2. CASE client \in Clients \cup {TickerId}
    <3> DEFINE row == [b.orderOf[client] EXCEPT ![coid] = v]
    <3>1. row \in [OrderIds -> OrderRefs]
      BY <2>1, <2>2
    <3>2. f = [b.orderOf EXCEPT ![client] = row]
      OBVIOUS
    <3> HIDE DEF row, f
    <3> QED BY <2>1, <3>1, <3>2
  <2>3. CASE client \notin Clients \cup {TickerId}
    <3>1. f = b.orderOf
      BY <2>1, <2>3
    <3> QED BY <2>1, <3>1
  <2> QED BY <2>2, <2>3
<1>2. c = [b EXCEPT !.orderOf = f]
  BY DEF Shaped, BooksOn, OrderOfIs
<1> HIDE DEF f
<1>3. /\ c \in BooksOn(Opened(b))
      /\ c.levels = b.levels /\ c.best = b.best /\ c.levelAt = b.levelAt
      /\ c.orderPool = b.orderPool /\ c.levelPool = b.levelPool
      /\ c.orders = b.orders /\ c.status = b.status /\ c.orderOf = f
  BY <1>1, <1>2 DEF Shaped, BooksOn
<1>4. Opened(c) = Opened(b)
  BY <1>3 DEF Opened
<1> QED
  BY <1>3, <1>4 DEF Shaped, Pointing, f

LEMMA OrderPoolSet ==
  ASSUME NEW b, Shaped(b), NEW pool \in Pools(NumOrders)
  PROVE  LET c == [b EXCEPT !.orderPool = pool] IN
         /\ Shaped(c) /\ Opened(c) = Opened(b) /\ c.orderPool = pool
         /\ c.levels = b.levels /\ c.best = b.best /\ c.levelAt = b.levelAt
         /\ c.orderOf = b.orderOf /\ c.levelPool = b.levelPool
         /\ c.orders = b.orders /\ c.status = b.status
<1> DEFINE c == [b EXCEPT !.orderPool = pool]
<1>1. /\ c \in BooksOn(Opened(b)) /\ c.orderPool = pool
      /\ c.levels = b.levels /\ c.best = b.best /\ c.levelAt = b.levelAt
      /\ c.orderOf = b.orderOf /\ c.levelPool = b.levelPool
      /\ c.orders = b.orders /\ c.status = b.status
  BY DEF Shaped, BooksOn
<1> HIDE DEF c
<1>2. Opened(c) = Opened(b)
  BY <1>1 DEF Opened
<1> QED
  BY <1>1, <1>2 DEF Shaped, c

LEMMA LevelPoolSet ==
  ASSUME NEW b, Shaped(b), NEW pool \in Pools(NumLevels)
  PROVE  LET c == [b EXCEPT !.levelPool = pool] IN
         /\ Shaped(c) /\ Opened(c) = Opened(b) /\ c.levelPool = pool
         /\ c.levels = b.levels /\ c.best = b.best /\ c.levelAt = b.levelAt
         /\ c.orderOf = b.orderOf /\ c.orderPool = b.orderPool
         /\ c.orders = b.orders /\ c.status = b.status
<1> DEFINE c == [b EXCEPT !.levelPool = pool]
<1>1. /\ c \in BooksOn(Opened(b)) /\ c.levelPool = pool
      /\ c.levels = b.levels /\ c.best = b.best /\ c.levelAt = b.levelAt
      /\ c.orderOf = b.orderOf /\ c.orderPool = b.orderPool
      /\ c.orders = b.orders /\ c.status = b.status
  BY DEF Shaped, BooksOn
<1> HIDE DEF c
<1>2. Opened(c) = Opened(b)
  BY <1>1 DEF Opened
<1> QED
  BY <1>1, <1>2 DEF Shaped, c

\* The pools while the process runs.
PoolsReady(b) ==
  /\ ~b.orderPool.failed /\ b.orderPool.free[b.orderPool.next]
  /\ ~b.levelPool.failed /\ b.levelPool.free[b.levelPool.next]

\* The book with a level for the order of the block o that is in no ring yet.
Opening(b, o) ==
  LET ord == b.orders[o] IN
  [b EXCEPT !.levelPool = Allocate(b.levelPool),
            !.orders[o].prev = o, !.orders[o].next = o,
            !.levels[b.levelPool.next] = [side |-> ord.side, price |-> ord.price,
                                          first |-> o, prev |-> Null, next |-> Null]]

LEMMA OpeningSpec ==
  ASSUME NEW b, Shaped(b), PoolsReady(b), NEW o \in OrderBlocks,
         NEW d, d = Opening(b, o), NEW l, l = b.levelPool.next
  PROVE  /\ Shaped(d) /\ l \in LevelBlocks /\ l \in Opened(d)
         /\ Allocate(b.levelPool) \in Pools(NumLevels)
         /\ d.levelPool = Allocate(b.levelPool) /\ d.levelAt = b.levelAt
         /\ d.orderPool = b.orderPool /\ d.orderOf = b.orderOf
         /\ d.best = b.best /\ d.status = b.status
         /\ SameContents(d.orders, b.orders)
         /\ \A k \in OrderBlocks :
              /\ d.orders[k].next = IF k = o THEN o ELSE b.orders[k].next
              /\ d.orders[k].prev = IF k = o THEN o ELSE b.orders[k].prev
         /\ \A k \in LevelBlocks :
              /\ d.levels[k].first = IF k = l THEN o ELSE b.levels[k].first
              /\ d.levels[k].price = IF k = l THEN b.orders[o].price ELSE b.levels[k].price
              /\ d.levels[k].side = IF k = l THEN b.orders[o].side ELSE b.levels[k].side
              /\ k # l => d.levels[k] = b.levels[k]
         /\ ~Allocate(b.levelPool).failed => OpenLevel(b, o) = AddOrdersAtPrice(d, l)
<1> DEFINE pool == Allocate(b.levelPool)
           ord  == b.orders[o]
           x    == [[b.orders EXCEPT ![o].prev = o] EXCEPT ![o].next = o]
           level == [side |-> ord.side, price |-> ord.price, first |-> o,
                     prev |-> Null, next |-> Null]
           lv   == [b.levels EXCEPT ![l] = level]
           S    == Opened(b) \cup {l}
<1>1. l \in LevelBlocks /\ pool \in Pools(NumLevels)
  <2>1. NumLevels \in Nat \ {0} /\ b.levelPool \in Pools(NumLevels)
    BY MEOrderBookAssumption DEF Shaped, BooksOn
  <2>2. b.levelPool.next \in LevelBlocks
    BY <2>1 DEF Pools, LevelBlocks
  <2> HIDE DEF pool
  <2>3. pool \in Pools(NumLevels)
    BY <2>1, AllocateSpec DEF pool, PoolsReady
  <2> QED BY <2>2, <2>3
<1>2. /\ x \in [OrderBlocks -> Orders] /\ SameContents(x, b.orders)
      /\ \A k \in OrderBlocks :
           /\ x[k].next = IF k = o THEN o ELSE b.orders[k].next
           /\ x[k].prev = IF k = o THEN o ELSE b.orders[k].prev
  <2>1. b.orders \in [OrderBlocks -> Orders] /\ o \in OrderRefs
    BY DEF OrderRefs, OrderBlocks, Shaped, BooksOn
  <2> QED
    BY <2>1 DEF Orders, SameContents, Content
<1>3. /\ ord.side \in Sides /\ ord.price \in Nat /\ o \in OrderRefs /\ o # Null
  <2>1. b.orders \in [OrderBlocks -> Orders]
    BY DEF Shaped, BooksOn
  <2>2. o \in OrderRefs /\ o # Null
    BY DEF OrderRefs, OrderBlocks, Null
  <2> QED
    BY <2>1, <2>2 DEF Orders
<1>4. d = [b EXCEPT !.levelPool = pool, !.orders = x, !.levels = lv]
  BY DEF Opening, Shaped, BooksOn
<1>5. ~pool.failed => OpenLevel(b, o) = AddOrdersAtPrice(d, l)
  BY DEF OpenLevel, Opening
<1>6. lv \in [LevelBlocks -> LevelsOn(S)]
  <2>1. \A k \in LevelBlocks : b.levels[k] \in LevelsOn(S)
    BY DEF LevelsOn, Shaped, BooksOn
  <2>2. level \in LevelsOn(S)
    BY <1>3 DEF LevelsOn, Opened
  <2> HIDE DEF level, S
  <2> QED BY <1>1, <2>1, <2>2 DEF Shaped, BooksOn
<1>7. \A k \in LevelBlocks :
        /\ lv[k].first = IF k = l THEN o ELSE b.levels[k].first
        /\ lv[k].price = IF k = l THEN ord.price ELSE b.levels[k].price
        /\ lv[k].side = IF k = l THEN ord.side ELSE b.levels[k].side
        /\ k # l => lv[k] = b.levels[k]
  BY <1>1 DEF Shaped, BooksOn
<1> HIDE DEF pool, x, lv
<1>8. /\ d \in BooksOn(S) /\ d.levels = lv /\ d.orders = x /\ d.levelPool = pool
      /\ d.levelAt = b.levelAt /\ d.orderPool = b.orderPool /\ d.orderOf = b.orderOf
      /\ d.best = b.best /\ d.status = b.status
  <2>1. \A k \in Opened(b) : k \in S
    OBVIOUS
  <2> HIDE DEF S
  <2>2. /\ d.levels = lv /\ d.orders = x /\ d.levelPool = pool
        /\ d.levelAt = b.levelAt /\ d.orderPool = b.orderPool /\ d.orderOf = b.orderOf
        /\ d.best = b.best /\ d.status = b.status
    BY <1>4 DEF Shaped, BooksOn
  <2>3. /\ b.best \in [Sides -> S] /\ b.levelAt \in [Slots -> S]
        /\ b.orderPool \in Pools(NumOrders) /\ b.status \in {"running"} \cup Ends
        /\ b.orderOf \in [Clients \cup {TickerId} -> [OrderIds -> OrderRefs]]
    BY <2>1 DEF Shaped, BooksOn
  <2>4. d \in BooksOn(S)
    <3>1. d = [orders |-> x, orderPool |-> b.orderPool, levels |-> lv, levelPool |-> pool,
               best |-> b.best, levelAt |-> b.levelAt, orderOf |-> b.orderOf,
               status |-> b.status]
      BY <1>4 DEF Shaped, BooksOn
    <3> QED BY <1>1, <1>2, <1>6, <2>3, <3>1 DEF BooksOn
  <2> QED BY <2>2, <2>4
<1>9. Opened(d) = S
  BY <1>1, <1>3, <1>7, <1>8 DEF Opened
<1> QED
  BY <1>1, <1>2, <1>5, <1>7, <1>8, <1>9 DEF Shaped, pool

LEMMA OpenLevelSpec ==
  ASSUME NEW b, Shaped(b), PoolsReady(b), NEW o \in OrderBlocks,
         NEW c, c = OpenLevel(b, o)
  PROVE  /\ Shaped(c) /\ c.orderPool = b.orderPool /\ c.orderOf = b.orderOf
         /\ SameContents(c.orders, b.orders)
         /\ c.status = "running" => Alone(b, c, o, b.levelPool.next)
<1> DEFINE l    == b.levelPool.next
           pool == Allocate(b.levelPool)
           ord  == b.orders[o]
           d    == Opening(b, o)
           i    == ord.price % NumPriceLevels
           e    == [d EXCEPT !.levelAt[i] = l]
<1>1. /\ Shaped(d) /\ l \in LevelBlocks /\ l \in Opened(d) /\ pool \in Pools(NumLevels)
      /\ d.levelPool = pool /\ d.levelAt = b.levelAt
      /\ d.orderPool = b.orderPool /\ d.orderOf = b.orderOf
      /\ SameContents(d.orders, b.orders)
      /\ \A k \in OrderBlocks :
           /\ d.orders[k].next = IF k = o THEN o ELSE b.orders[k].next
           /\ d.orders[k].prev = IF k = o THEN o ELSE b.orders[k].prev
      /\ \A k \in LevelBlocks :
           /\ d.levels[k].first = IF k = l THEN o ELSE b.levels[k].first
           /\ d.levels[k].price = IF k = l THEN ord.price ELSE b.levels[k].price
           /\ d.levels[k].side = IF k = l THEN ord.side ELSE b.levels[k].side
      /\ ~pool.failed => c = AddOrdersAtPrice(d, l)
  BY OpeningSpec
<1>2. CASE pool.failed
  <2> DEFINE c1 == [b EXCEPT !.levelPool = pool]
  <2>1. c = Fail(c1, "poolAssert")
    BY <1>2 DEF OpenLevel
  <2>2. Shaped(c1) /\ c1.orderPool = b.orderPool /\ c1.orderOf = b.orderOf /\ c1.orders = b.orders
    BY <1>1, LevelPoolSet
  <2> HIDE DEF c1
  <2>3. Relinked(c1, c) /\ c.status = "poolAssert"
    BY <2>1, <2>2, FailRelinked DEF Ends
  <2> QED
    BY <2>2, <2>3 DEF Relinked, SameContents
<1>3. CASE ~pool.failed
  <2> HIDE DEF d
  <2>1. d.levels[l].price = ord.price /\ ord.price \in Nat
    BY <1>1 DEF Shaped, BooksOn, Orders
  <2>2. Relinked(e, c)
    BY <1>1, <1>3, <2>1, AddOrdersAtPriceSpec
  <2>3. /\ e.levelAt = [d.levelAt EXCEPT ![i] = l]
        /\ e.levels = d.levels /\ e.orders = d.orders
        /\ e.orderPool = d.orderPool /\ e.orderOf = d.orderOf
        /\ e.levelPool = d.levelPool
    BY <1>1, <2>1, SlotInTable, LevelAtSet
  <2> HIDE DEF e, i, pool
  <2>4. /\ Shaped(c) /\ c.levelPool = pool /\ c.orders = d.orders
        /\ c.levelAt = [b.levelAt EXCEPT ![i] = l]
        /\ c.orderPool = b.orderPool /\ c.orderOf = b.orderOf
        /\ SameLevels(c.levels, d.levels)
    BY <1>1, <2>2, <2>3 DEF Relinked
  <2>5. Alone(b, c, o, l)
    BY <1>1, <1>3, <2>4 DEF Alone, SameLevels, pool, i
  <2> QED
    BY <1>1, <2>4, <2>5
<1> QED
  BY <1>2, <1>3

\* A new order behind the others at its price's level, or alone in a new one.
LEMMA AddOrderSpec ==
  ASSUME NEW b, Shaped(b), PoolsReady(b), b.status = "running", NEW o \in OrderBlocks,
         NEW c, c = AddOrder(b, o)
  PROVE  /\ Shaped(c) /\ c.orderPool = b.orderPool
         /\ SameContents(c.orders, b.orders)
         /\ c.status = "running" =>
              LET l   == LevelOf(b, b.orders[o].price)
                  ord == b.orders[o]
              IN
              /\ c.orderOf = Pointing(b.orderOf, ord.client, ord.coid, o)
              /\ IF l = Null THEN Alone(b, c, o, b.levelPool.next) ELSE Joined(b, c, o, l)
<1> DEFINE ord    == b.orders[o]
           level  == LevelOf(b, ord.price)
           placed == IF level = Null THEN OpenLevel(b, o) ELSE AppendToLevel(b, o, level)
<1>1. o \in OrderRefs /\ ord.price \in Nat
  BY DEF OrderRefs, OrderBlocks, Orders, Shaped, BooksOn
<1>2. level \in Opened(b) /\ (level # Null => level \in LevelBlocks)
  <2>1. ord.price % NumPriceLevels \in Slots
    BY <1>1, SlotInTable
  <2> QED
    BY <2>1 DEF LevelOf, Shaped, BooksOn, Opened
<1>3. /\ Shaped(placed) /\ placed.orderPool = b.orderPool
      /\ placed.orderOf = b.orderOf /\ SameContents(placed.orders, b.orders)
      /\ placed.status = "running" =>
           IF level = Null THEN Alone(b, placed, o, b.levelPool.next)
           ELSE Joined(b, placed, o, level)
  <2> HIDE DEF level
  <2>1. CASE level = Null
    BY <2>1, OpenLevelSpec
  <2>2. CASE level # Null
    BY <1>2, <2>2, AppendToLevelSpec
  <2> QED BY <2>1, <2>2
<1>4. c = IF placed.status # "running" THEN placed
          ELSE [placed EXCEPT !.orderOf[ord.client][ord.coid] = o]
  BY DEF AddOrder
<1> HIDE DEF placed, level
<1>5. CASE placed.status # "running"
  BY <1>3, <1>4, <1>5
<1>6. CASE placed.status = "running"
  <2>1. /\ Shaped(c)
        /\ c.levels = placed.levels /\ c.levelAt = placed.levelAt
        /\ c.orderPool = placed.orderPool /\ c.levelPool = placed.levelPool
        /\ c.orders = placed.orders
        /\ c.orderOf = Pointing(placed.orderOf, ord.client, ord.coid, o)
    <3> DEFINE d == OrderOfIs(placed, ord.client, ord.coid, o)
    <3>1. c = d
      BY <1>4, <1>6 DEF OrderOfIs
    <3>2. /\ Shaped(d)
          /\ d.levels = placed.levels /\ d.levelAt = placed.levelAt
          /\ d.orderPool = placed.orderPool /\ d.levelPool = placed.levelPool
          /\ d.orders = placed.orders
          /\ d.orderOf = Pointing(placed.orderOf, ord.client, ord.coid, o)
      <4>1. Shaped(placed) /\ o \in OrderRefs
        BY <1>1, <1>3
      <4> HIDE DEF ord
      <4> QED BY <4>1, OrderOfSet
    <3> HIDE DEF d
    <3> QED BY <3>1, <3>2
  <2> DEFINE m == b.levelPool.next
  <2>2. Alone(b, placed, o, m) => Alone(b, c, o, m)
    BY <2>1 DEF Alone
  <2>3. Joined(b, placed, o, level) => Joined(b, c, o, level)
    BY <2>1 DEF Joined
  <2>4. SameContents(c.orders, b.orders) /\ c.orderPool = b.orderPool
    BY <1>3, <2>1
  <2>5. c.orderOf = Pointing(b.orderOf, ord.client, ord.coid, o)
    BY <1>3, <2>1
  <2>6. IF level = Null THEN Alone(b, c, o, m) ELSE Joined(b, c, o, level)
    BY <1>3, <1>6, <2>2, <2>3
  <2> QED
    BY <2>1, <2>4, <2>5, <2>6 DEF level
<1> QED
  BY <1>5, <1>6

-----------------------------------------------------------------------------
(* removeOrder *)

\* The block was given back.
Freed(p, q, k) ==
  /\ ~p.free[k] /\ q.free = [p.free EXCEPT ![k] = TRUE]
  /\ q.next = p.next /\ ~q.failed

LEMMA DeallocateFrees ==
  ASSUME NEW n \in Nat \ {0}, NEW p \in Pools(n), NEW k, NEW q, q = Deallocate(p, k)
  PROVE  /\ q \in Pools(n) /\ q.next = p.next /\ (~q.failed => Freed(p, q, k))
         /\ \A j \in 0 .. (n - 1) : p.free[j] => q.free[j]
<1>1. /\ q \in Pools(n) /\ q.next = p.next
      /\ \A j \in 0 .. (n - 1) : p.free[j] => q.free[j]
      /\ ~q.failed => ~p.free[k] /\ q.free = [p.free EXCEPT ![k] = TRUE]
  BY DeallocateSpec
<1> QED
  BY <1>1 DEF Freed

\* The level l is given back; its block keeps the order it was last opened for.
Closed(b, c, l) ==
  /\ l \in LevelBlocks /\ Freed(b.levelPool, c.levelPool, l)
  /\ c.orders = b.orders
  /\ SameLevels(c.levels, b.levels)

\* The order o is out of the ring of level l.
Unlinked(b, c, o, l) ==
  LET p == b.orders[o].prev
      n == b.orders[o].next
  IN  /\ l \in LevelBlocks /\ p \in OrderBlocks /\ n \in OrderBlocks
      /\ \A k \in OrderBlocks :
           /\ c.orders[k].next = IF k = o THEN Null ELSE IF k = p THEN n
                                 ELSE b.orders[k].next
           /\ c.orders[k].prev = IF k = o THEN Null ELSE IF k = n THEN p
                                 ELSE b.orders[k].prev
      /\ \A k \in LevelBlocks :
           /\ c.levels[k].first = IF k = l /\ b.levels[k].first = o THEN n
                                  ELSE b.levels[k].first
           /\ c.levels[k].price = b.levels[k].price
           /\ c.levels[k].side = b.levels[k].side
      /\ c.levelAt = b.levelAt /\ c.levelPool = b.levelPool

LEMMA RemoveOrdersAtPriceSpec ==
  ASSUME NEW b, Shaped(b), b.status = "running", NEW side \in Sides, NEW price \in Nat,
         NEW c, c = RemoveOrdersAtPrice(b, side, price)
  PROVE  /\ Shaped(c) /\ c.orderPool = b.orderPool /\ c.orderOf = b.orderOf
         /\ SameContents(c.orders, b.orders)
         /\ c.status = "running" =>
              /\ Closed(b, c, LevelOf(b, price))
              /\ c.levelAt = [b.levelAt EXCEPT ![price % NumPriceLevels] = Null]
<1> DEFINE l     == LevelOf(b, price)
           level == b.levels[l]
           pool  == Deallocate(b.levelPool, l)
           S     == Opened(b)
           T     == [LevelBlocks -> LevelsOn(S)]
           lv1 == [b.levels EXCEPT ![level.prev].next = level.next]
           lv2 == [lv1 EXCEPT ![level.next].prev = level.prev]
           lv3 == [lv2 EXCEPT ![l].prev = Null]
           lv4 == [lv3 EXCEPT ![l].next = Null]
           b1  == [b EXCEPT !.levels = lv4]
           v   == IF b.best[side] = l THEN level.next ELSE b.best[side]
           unlinked == IF level.next = l THEN [b EXCEPT !.best[side] = Null]
                       ELSE [b1 EXCEPT !.best[side] = v]
           i    == price % NumPriceLevels
           b2   == [unlinked EXCEPT !.levelAt[i] = Null]
           gone == [b2 EXCEPT !.levelPool = pool]
<1>1. CASE l = Null \/ (level.next # l /\ Null \in {level.prev, level.next})
  <2>1. c = Fail(b, "crashed")
    BY <1>1 DEF RemoveOrdersAtPrice
  <2> QED
    BY <2>1, FailRelinked DEF Ends, Relinked, SameContents
<1>2. CASE l # Null /\ (level.next # l => level.prev # Null /\ level.next # Null)
  <2>1. c = IF pool.failed THEN Fail(gone, "poolAssert") ELSE gone
    <3>1. [b1 EXCEPT !.best[side] = v]
            = [b EXCEPT !.levels = lv4, !.best[side] = IF @ = l THEN level.next ELSE @]
      BY DEF Shaped, BooksOn
    <3>2. lv4 = [[[b.levels EXCEPT ![level.prev].next = level.next]
                   EXCEPT ![level.next].prev = level.prev]
                   EXCEPT ![l].prev = Null, ![l].next = Null]
      OBVIOUS
    <3>3. gone = [unlinked EXCEPT !.levelAt[i] = Null, !.levelPool = pool]
      OBVIOUS
    <3> HIDE DEF lv4, gone
    <3> QED BY <1>2, <3>1, <3>2, <3>3 DEF RemoveOrdersAtPrice, lv4, gone
  <2>2. i \in Slots /\ Null \in S
    BY SlotInTable DEF Opened
  <2>3. l \in S /\ l \in LevelBlocks
    BY <1>2, <2>2 DEF LevelOf, Shaped, BooksOn, Opened
  <2>4. b.levels \in T /\ b.best[side] \in S
    BY DEF Shaped, BooksOn
  <2>5. level.next \in S
    BY <2>3, <2>4 DEF LevelsOn
  <2>9. ASSUME level.next # l
        PROVE  lv4 \in T /\ SameLevels(lv4, b.levels)
    <3>1. /\ level.prev \in S /\ level.prev \in LevelBlocks
          /\ level.next \in S /\ level.next \in LevelBlocks
      BY <1>2, <2>3, <2>4, <2>9 DEF LevelsOn, Opened
    <3> HIDE DEF level, l, S
    <3>2. lv1 \in T /\ SameLevels(lv1, b.levels)
      BY <2>4, <3>1, NextSet
    <3>3. lv2 \in T /\ SameLevels(lv2, b.levels)
      <4> HIDE DEF lv1
      <4>1. lv2 \in T /\ SameLevels(lv2, lv1)
        BY <3>1, <3>2, PrevSet
      <4> QED BY <3>2, <4>1, SameLevelsTwice
    <3>4. lv3 \in T /\ SameLevels(lv3, b.levels)
      <4> HIDE DEF lv2
      <4> QED BY <2>2, <2>3, <3>3, PrevSet, SameLevelsTwice
    <3> HIDE DEF lv3
    <3> QED BY <2>2, <2>3, <3>4, NextSet, SameLevelsTwice
  <2> HIDE DEF level, l, S
  <2> HIDE DEF lv4
  <2>10. Relinked(b, unlinked) /\ unlinked.status = b.status
    <3>1. CASE level.next = l
      <4>1. unlinked = [b EXCEPT !.best[side] = Null]
        BY <3>1
      <4>2. Relinked(b, [b EXCEPT !.best[side] = Null])
        BY <2>2, BestRelinked DEF S
      <4> QED BY <4>1, <4>2 DEF Shaped, BooksOn
    <3>2. CASE level.next # l
      <4>1. unlinked = [b1 EXCEPT !.best[side] = v]
        BY <3>2
      <4>2. Relinked(b, b1) /\ b1.levels = lv4 /\ b1.status = b.status
        BY <2>9, <3>2, LevelsRelinked DEF S, Shaped, BooksOn
      <4> HIDE DEF b1
      <4>3. Shaped(b1) /\ Opened(b1) = S
        BY <4>2, SameLevelsOpened DEF Relinked, S
      <4>4. v \in S
        BY <2>4, <2>5
      <4> HIDE DEF v
      <4>5. Relinked(b1, [b1 EXCEPT !.best[side] = v])
        BY <4>3, <4>4, BestRelinked
      <4>6. [b1 EXCEPT !.best[side] = v].status = b1.status
        BY <4>3 DEF Shaped, BooksOn
      <4> QED BY <4>1, <4>2, <4>5, <4>6, RelinkedTwice
    <3> QED BY <3>1, <3>2
  <2> HIDE DEF unlinked
  <2>11. /\ Shaped(b2)
         /\ b2.levelAt = [unlinked.levelAt EXCEPT ![i] = Null]
         /\ b2.levels = unlinked.levels /\ b2.status = unlinked.status
         /\ b2.orders = unlinked.orders /\ b2.orderPool = unlinked.orderPool
         /\ b2.orderOf = unlinked.orderOf
         /\ b2.levelPool = unlinked.levelPool
    <3>1. Null \in Opened(unlinked) /\ Shaped(unlinked)
      BY <2>10 DEF Opened, Relinked
    <3> HIDE DEF i
    <3> QED BY <2>2, <3>1, LevelAtSet
  <2> HIDE DEF b2
  <2>12. /\ pool \in Pools(NumLevels) /\ pool.next = b.levelPool.next
         /\ ~pool.failed => Freed(b.levelPool, pool, l)
    <3>1. NumLevels \in Nat \ {0} /\ b.levelPool \in Pools(NumLevels)
      BY MEOrderBookAssumption DEF Shaped, BooksOn
    <3> QED
      BY <3>1, DeallocateFrees
  <2> HIDE DEF pool
  <2>13. /\ Shaped(gone) /\ gone.levelPool = pool
         /\ gone.levels = b2.levels /\ gone.levelAt = b2.levelAt
         /\ gone.orderPool = b2.orderPool /\ gone.orderOf = b2.orderOf
         /\ gone.orders = b2.orders /\ gone.status = b2.status
    BY <2>11, <2>12, LevelPoolSet
  <2> HIDE DEF gone
  <2>14. /\ gone.orders = b.orders /\ gone.orderPool = b.orderPool
         /\ gone.orderOf = b.orderOf
         /\ gone.levelAt = [b.levelAt EXCEPT ![i] = Null]
         /\ SameLevels(gone.levels, b.levels)
    BY <2>10, <2>11, <2>13 DEF Relinked
  <2>15. CASE pool.failed
    <3>1. c = Fail(gone, "poolAssert")
      BY <2>1, <2>15
    <3>2. Relinked(gone, c) /\ c.status = "poolAssert"
      BY <2>13, <3>1, FailRelinked DEF Ends
    <3> QED
      BY <2>14, <3>2 DEF Relinked, SameContents
  <2>16. CASE ~pool.failed
    <3>1. c = gone
      BY <2>1, <2>16
    <3> QED
      BY <2>3, <2>12, <2>13, <2>14, <2>16, <3>1 DEF Closed, SameContents, l, i
  <2> QED
    BY <2>15, <2>16
<1> QED
  BY <1>1, <1>2

LEMMA UnlinkOrderSpec ==
  ASSUME NEW b, Shaped(b), b.status = "running", NEW o \in OrderBlocks,
         NEW c, c = UnlinkOrder(b, o)
  PROVE  /\ Shaped(c) /\ c.orderPool = b.orderPool /\ c.orderOf = b.orderOf
         /\ SameContents(c.orders, b.orders)
         /\ c.status = "running" => Unlinked(b, c, o, LevelOf(b, b.orders[o].price))
<1> DEFINE ord == b.orders[o]
           l   == LevelOf(b, ord.price)
           p   == ord.prev
           n   == ord.next
           x   == [[[[b.orders EXCEPT ![p].next = n] EXCEPT ![n].prev = p]
                      EXCEPT ![o].prev = Null] EXCEPT ![o].next = Null]
           v   == IF b.levels[l].first = o THEN n ELSE b.levels[l].first
           lv  == [b.levels EXCEPT ![l].first = v]
           b1  == [b EXCEPT !.orders = x]
           b2  == [b1 EXCEPT !.levels = lv]
<1>1. CASE Null \in {p, n, l}
  <2>1. c = Fail(b, "crashed")
    BY <1>1 DEF UnlinkOrder
  <2> QED
    BY <2>1, FailRelinked DEF Ends, Relinked, SameContents
<1>2. CASE Null \notin {p, n, l}
  <2>0. b.orders \in [OrderBlocks -> Orders] /\ ord \in Orders
    BY DEF Shaped, BooksOn
  <2>1. c = b2
    <3>1. x = [[[b.orders EXCEPT ![p].next = n] EXCEPT ![n].prev = p]
                EXCEPT ![o].prev = Null, ![o].next = Null]
      OBVIOUS
    <3>2. b2 = [b EXCEPT !.orders = x, !.levels[l].first = IF @ = o THEN n ELSE @]
      BY DEF Shaped, BooksOn
    <3> HIDE DEF x, b2
    <3> QED BY <1>2, <3>1, <3>2, Zenon DEF UnlinkOrder
  <2>2. /\ p \in OrderRefs /\ p \in OrderBlocks
        /\ n \in OrderRefs /\ n \in OrderBlocks /\ n # Null
        /\ Null \in OrderRefs /\ ord.price \in Nat
    BY <2>0, <1>2 DEF Orders, OrderRefs, OrderBlocks
  <2>3. l \in LevelBlocks
    <3>1. ord.price % NumPriceLevels \in Slots
      BY <2>2, SlotInTable
    <3>2. l \in Opened(b)
      BY <3>1 DEF LevelOf, Shaped, BooksOn
    <3> QED BY <3>2, <1>2 DEF Opened
  <2> HIDE DEF ord, p, n, l
  <2>4. /\ x \in [OrderBlocks -> Orders] /\ SameContents(x, b.orders)
        /\ \A k \in OrderBlocks :
             /\ x[k].next = IF k = o THEN Null ELSE IF k = p THEN n ELSE b.orders[k].next
             /\ x[k].prev = IF k = o THEN Null ELSE IF k = n THEN p ELSE b.orders[k].prev
    <3> DEFINE P == [[Prevs(b.orders) EXCEPT ![n] = p] EXCEPT ![o] = Null]
               N == [[Nexts(b.orders) EXCEPT ![p] = n] EXCEPT ![o] = Null]
    <3>1. Repointed(b.orders, x, P, N)
      BY <2>0, <2>2, OrdersRelinked
    <3>2. \A k \in OrderBlocks :
            /\ N[k] = IF k = o THEN Null ELSE IF k = p THEN n ELSE b.orders[k].next
            /\ P[k] = IF k = o THEN Null ELSE IF k = n THEN p ELSE b.orders[k].prev
      BY DEF Prevs, Nexts
    <3> HIDE DEF P, N, x
    <3> QED
      BY <3>1, <3>2 DEF Repointed
  <2> HIDE DEF x
  <2>5. /\ Shaped(b1) /\ Opened(b1) = Opened(b) /\ b1.orders = x
        /\ b1.levels = b.levels /\ b1.levelAt = b.levelAt /\ b1.orderOf = b.orderOf
        /\ b1.orderPool = b.orderPool /\ b1.levelPool = b.levelPool
    BY <2>4, OrdersSet
  <2> HIDE DEF b1
  <2>6. /\ lv \in [LevelBlocks -> LevelsOn(Opened(b))]
        /\ \A k \in LevelBlocks :
             /\ lv[k].first = IF k = l /\ b.levels[k].first = o THEN n
                              ELSE b.levels[k].first
             /\ lv[k].price = b.levels[k].price /\ lv[k].side = b.levels[k].side
    <3>1. b.levels \in [LevelBlocks -> LevelsOn(Opened(b))]
      BY DEF Shaped, BooksOn
    <3>2. v \in OrderRefs
      BY <2>2, <2>3, <3>1 DEF LevelsOn
    <3> QED
      BY <2>3, <3>1, <3>2 DEF LevelsOn
  <2> HIDE DEF lv
  <2>7. /\ b2 \in BooksOn(Opened(b)) /\ b2.levels = lv /\ b2.orders = x
        /\ b2.levelAt = b.levelAt /\ b2.orderOf = b.orderOf
        /\ b2.orderPool = b.orderPool /\ b2.levelPool = b.levelPool
    BY <2>5, <2>6 DEF Shaped, BooksOn
  <2> HIDE DEF b2
  <2>8. Opened(b2) = Opened(b)
    <3>1. \A k \in LevelBlocks : b2.levels[k].first # Null <=> b.levels[k].first # Null
      <4>1. o # Null
        BY DEF OrderBlocks, Null
      <4> QED BY <2>2, <2>6, <2>7, <4>1
    <3> QED BY <3>1 DEF Opened
  <2> QED
    BY <2>1, <2>2, <2>3, <2>4, <2>6, <2>7, <2>8 DEF Shaped, Unlinked, l, p, n, ord
<1> QED
  BY <1>1, <1>2

\* The order leaves the ring of its level, or its level with it when it was alone,
\* and its block is given back.
LEMMA RemoveOrderSpec ==
  ASSUME NEW b, Shaped(b), b.status = "running", NEW o \in OrderBlocks,
         NEW c, c = RemoveOrder(b, o)
  PROVE  /\ Shaped(c)
         /\ SameContents(c.orders, b.orders)
         /\ \A k \in OrderBlocks : b.orderPool.free[k] => c.orderPool.free[k]
         /\ c.status = "running" =>
              LET i == b.orders[o].price % NumPriceLevels
                  l == b.levelAt[i]
                  ord == b.orders[o]
              IN  /\ Freed(b.orderPool, c.orderPool, o)
                  /\ c.orderOf = Pointing(b.orderOf, ord.client, ord.coid, Null)
                  /\ \/ /\ b.orders[o].prev = o /\ Closed(b, c, l)
                        /\ c.levelAt = [b.levelAt EXCEPT ![i] = Null]
                     \/ b.orders[o].prev # o /\ Unlinked(b, c, o, l)
<1> DEFINE ord     == b.orders[o]
           i       == ord.price % NumPriceLevels
           l       == LevelOf(b, ord.price)
           pool    == Deallocate(b.orderPool, o)
           removed == IF ord.prev = o
                        THEN RemoveOrdersAtPrice(b, ord.side, ord.price)
                        ELSE UnlinkOrder(b, o)
           b1   == OrderOfIs(removed, ord.client, ord.coid, Null)
           gone == [b1 EXCEPT !.orderPool = pool]
<1>1. c = IF removed.status # "running" THEN removed
          ELSE IF pool.failed THEN Fail(gone, "poolAssert") ELSE gone
  <2>1. gone = [removed EXCEPT !.orderOf[ord.client][ord.coid] = Null, !.orderPool = pool]
    BY DEF OrderOfIs
  <2> HIDE DEF gone
  <2> QED BY <2>1 DEF RemoveOrder
<1>2. ord \in Orders /\ ord.price \in Nat /\ ord.side \in Sides
  BY DEF Shaped, BooksOn, Orders
<1>3. /\ Shaped(removed) /\ removed.orderPool = b.orderPool
      /\ removed.orderOf = b.orderOf /\ SameContents(removed.orders, b.orders)
      /\ removed.status = "running" =>
           \/ /\ ord.prev = o /\ Closed(b, removed, l)
              /\ removed.levelAt = [b.levelAt EXCEPT ![i] = Null]
           \/ ord.prev # o /\ Unlinked(b, removed, o, l)
  <2>1. CASE ord.prev = o
    <3>1. removed = RemoveOrdersAtPrice(b, ord.side, ord.price)
      BY <2>1
    <3> HIDE DEF removed
    <3> QED BY <1>2, <2>1, <3>1, RemoveOrdersAtPriceSpec
  <2>2. CASE ord.prev # o
    <3>1. removed = UnlinkOrder(b, o)
      BY <2>2
    <3> HIDE DEF removed
    <3> QED BY <2>2, <3>1, UnlinkOrderSpec
  <2> QED BY <2>1, <2>2
<1> HIDE DEF removed
<1>4. CASE removed.status # "running"
  BY <1>1, <1>3, <1>4
<1>5. CASE removed.status = "running"
  <2>1. /\ Shaped(b1)
        /\ b1.levels = removed.levels /\ b1.levelAt = removed.levelAt
        /\ b1.orderPool = removed.orderPool /\ b1.levelPool = removed.levelPool
        /\ b1.orders = removed.orders /\ b1.status = removed.status
        /\ b1.orderOf = Pointing(removed.orderOf, ord.client, ord.coid, Null)
    <3>1. Shaped(removed) /\ Null \in OrderRefs
      BY <1>3 DEF OrderRefs
    <3> QED BY <3>1, OrderOfSet
  <2> HIDE DEF b1
  <2>2. /\ pool \in Pools(NumOrders) /\ (~pool.failed => Freed(b.orderPool, pool, o))
        /\ \A k \in OrderBlocks : b.orderPool.free[k] => pool.free[k]
    <3>1. NumOrders \in Nat \ {0} /\ b.orderPool \in Pools(NumOrders)
      BY MEOrderBookAssumption DEF Shaped, BooksOn
    <3> QED
      BY <3>1, DeallocateFrees DEF OrderBlocks
  <2> HIDE DEF pool
  <2>3. /\ Shaped(gone) /\ gone.orderPool = pool
        /\ gone.levels = removed.levels /\ gone.levelAt = removed.levelAt
        /\ gone.levelPool = removed.levelPool /\ gone.orderOf = b1.orderOf
        /\ gone.orders = removed.orders /\ gone.status = removed.status
    BY <2>1, <2>2, OrderPoolSet
  <2> HIDE DEF gone
  <2>4. CASE pool.failed
    <3>1. c = Fail(gone, "poolAssert")
      BY <1>1, <1>5, <2>4
    <3>2. Relinked(gone, c) /\ c.status = "poolAssert"
      BY <2>3, <3>1, FailRelinked DEF Ends
    <3> QED
      BY <1>3, <2>2, <2>3, <3>2 DEF Relinked, SameContents
  <2>5. CASE ~pool.failed
    <3>1. c = gone
      BY <1>1, <1>5, <2>5
    <3>2. \/ /\ ord.prev = o /\ Closed(b, c, l)
             /\ c.levelAt = [b.levelAt EXCEPT ![i] = Null]
          \/ ord.prev # o /\ Unlinked(b, c, o, l)
      BY <1>3, <1>5, <2>3, <3>1 DEF Closed, Unlinked
    <3> QED
      BY <1>3, <2>1, <2>2, <2>3, <2>5, <3>1, <3>2 DEF LevelOf
  <2> QED
    BY <2>4, <2>5
<1> QED
  BY <1>4, <1>5

-----------------------------------------------------------------------------
(* The rings of the orders *)

Rests(b, o) == o \in OrderBlocks /\ ~b.orderPool.free[o]
InUse(b, l) == l \in LevelBlocks /\ ~b.levelPool.free[l]
Slot(ord) == ord.price % NumPriceLevels
Level(b, o) == b.levelAt[Slot(b.orders[o])]

LEMMA RestingIs ==
  ASSUME NEW b, Shaped(b)
  PROVE  Resting(b) = {b.orders[o] : o \in {k \in OrderBlocks : Rests(b, k)}}
<1>1. b.orderPool.size = NumOrders
  BY DEF Shaped, BooksOn, Pools
<1>2. LiveBlocks(b.orderPool) = {k \in OrderBlocks : Rests(b, k)}
  BY <1>1 DEF LiveBlocks, Blocks, Rests, OrderBlocks
<1> QED
  BY <1>2 DEF Resting

\* One priority comes before another; the trader's orders have none.
Before(p, q) == p < q \/ (p = 0 /\ q = 0)

\* b.orders[y] comes after b.orders[x].
After(b, x, y) == /\ b.orders[x].moid < b.orders[y].moid
                  /\ Before(b.orders[x].priority, b.orders[y].priority)

\* Seen from one order: its neighbours in the ring rest at the same level and
\* point back to it, and only the first order of the level does not come after
\* the one before it.
Neighbours(b, o) ==
  LET n == b.orders[o].next
      p == b.orders[o].prev
  IN  /\ b.orders[o].moid \in Nat
      /\ InUse(b, Level(b, o))
      /\ Rests(b, n) /\ Level(b, n) = Level(b, o) /\ b.orders[n].prev = o
      /\ Rests(b, p) /\ Level(b, p) = Level(b, o) /\ b.orders[p].next = o
      /\ n = b.levels[Level(b, o)].first \/ After(b, o, n)

Ringed(b) ==
  /\ \A o \in OrderBlocks : Rests(b, o) => Neighbours(b, o)
  /\ \A l \in LevelBlocks :
       InUse(b, l) => /\ Rests(b, b.levels[l].first)
                      /\ Level(b, b.levels[l].first) = l

\* The price table leads to levels in use only, each from the slot of its orders.
Charted(b) ==
  \A i \in Slots :
    b.levelAt[i] # Null => /\ InUse(b, b.levelAt[i])
                           /\ Slot(b.orders[b.levels[b.levelAt[i]].first]) = i

LEMMA SlotIsIndex ==
  ASSUME NEW b, Shaped(b), NEW o \in OrderBlocks
  PROVE  Slot(b.orders[o]) \in Slots
<1>1. b.orders[o].price \in Nat
  BY DEF Shaped, BooksOn, Orders
<1> QED
  BY <1>1, SlotInTable DEF Slot

\* The orders that rest at a level, and the rank of their rings.
Members(b, l) == {x \in OrderBlocks : Rests(b, x) /\ Level(b, x) = l}
Moids(b) == [x \in OrderBlocks |-> b.orders[x].moid]

LEMMA RingIsCyclic ==
  ASSUME NEW b, Ringed(b), NEW l, InUse(b, l)
  PROVE  /\ Cyclic(Members(b, l), b.orders, Moids(b), b.levels[l].first)
         /\ Within(Members(b, l), NumOrders) /\ Null \notin Members(b, l)
<1>1. \A x \in Members(b, l) : x \in OrderBlocks /\ Neighbours(b, x) /\ Level(b, x) = l
  BY DEF Members, Ringed
<1>2. b.levels[l].first \in Members(b, l)
  BY DEF Ringed, InUse, Rests, Members
<1>3. ASSUME NEW x \in Members(b, l)
      PROVE  /\ b.orders[x].moid \in Nat
             /\ b.orders[x].next \in Members(b, l) /\ b.orders[b.orders[x].next].prev = x
             /\ b.orders[x].prev \in Members(b, l) /\ b.orders[b.orders[x].prev].next = x
             /\ \/ b.orders[x].next = b.levels[l].first
                \/ b.orders[x].moid < b.orders[b.orders[x].next].moid
  BY <1>1 DEF Neighbours, Members, Rests, After
<1>4. Cyclic(Members(b, l), b.orders, Moids(b), b.levels[l].first)
  BY <1>1, <1>2, <1>3 DEF Cyclic, Moids
<1> QED
  BY <1>1, <1>4 DEF Within, OrderBlocks, Null

\* The first order of a level is its oldest.
LEMMA FirstIsOldest ==
  ASSUME NEW b, Shaped(b), Ringed(b), NEW x \in OrderBlocks, Rests(b, x)
  PROVE  LET h == b.levels[Level(b, x)].first IN x = h \/ After(b, h, x)
<1> DEFINE l == Level(b, x)
           h == b.levels[l].first
           Bad == {y \in OrderBlocks : /\ Rests(b, y) /\ Level(b, y) = l
                                       /\ y # h /\ ~After(b, h, y)}
           M == {b.orders[y].moid : y \in Bad}
<1> SUFFICES ASSUME Bad # {} PROVE FALSE
  OBVIOUS
<1>1. PICK y \in Bad : \A z \in Bad : b.orders[y].moid <= b.orders[z].moid
  <2>1. M \in SUBSET Nat /\ M # {}
    BY DEF Ringed, Neighbours
  <2>2. PICK m \in M : \A e \in M : m <= e
    <3> HIDE DEF M
    <3> QED BY <2>1, LeastNatural
  <2> QED
    BY <2>2
<1>2. /\ y \in OrderBlocks /\ Rests(b, y) /\ Level(b, y) = l
      /\ y # h /\ ~After(b, h, y)
  BY <1>1
<1> DEFINE z == b.orders[y].prev
<1>3. Rests(b, z) /\ z \in OrderBlocks /\ Level(b, z) = l /\ b.orders[z].next = y
  BY <1>2 DEF Ringed, Neighbours, Rests
<1>4. After(b, z, y) /\ b.orders[z].moid \in Nat /\ b.orders[y].moid \in Nat
  BY <1>2, <1>3 DEF Ringed, Neighbours
<1>5. z # h
  BY <1>2, <1>4
<1>6. ~After(b, h, z)
  <2>1. /\ b.orders[z].moid \in Int /\ b.orders[y].moid \in Int
        /\ b.orders[z].priority \in Int /\ b.orders[y].priority \in Int
    BY <1>2, <1>3, <1>4 DEF Shaped, BooksOn, Orders
  <2>2. Rests(b, h)
    BY <1>2 DEF Ringed, Neighbours, InUse
  <2>3. h \in OrderBlocks /\ b.orders[h].moid \in Int /\ b.orders[h].priority \in Int
    BY <2>2 DEF Rests, Ringed, Neighbours, Shaped, BooksOn, Orders
  <2> HIDE DEF h, z
  <2> QED
    BY <1>2, <1>4, <2>1, <2>3 DEF After, Before
<1>7. z \in Bad
  BY <1>3, <1>5, <1>6
<1>8. b.orders[y].moid <= b.orders[z].moid
  BY <1>1, <1>7
<1> QED
  BY <1>4, <1>8 DEF After

\* An order that is its own neighbour is alone at its level.
LEMMA AloneAtLevel ==
  ASSUME NEW b, Shaped(b), Ringed(b), NEW o \in OrderBlocks, Rests(b, o),
         b.orders[o].prev = o,
         NEW x \in OrderBlocks, Rests(b, x), Level(b, x) = Level(b, o)
  PROVE  x = o
<1> DEFINE l == Level(b, o)
           Bad == {y \in OrderBlocks : Rests(b, y) /\ Level(b, y) = l /\ y # o}
           M == {b.orders[y].moid : y \in Bad}
<1> SUFFICES ASSUME Bad # {} PROVE FALSE
  OBVIOUS
<1>1. PICK y \in Bad : \A z \in Bad : b.orders[y].moid <= b.orders[z].moid
  <2>1. M \in SUBSET Nat /\ M # {}
    BY DEF Ringed, Neighbours
  <2>2. PICK m \in M : \A e \in M : m <= e
    <3> HIDE DEF M
    <3> QED BY <2>1, LeastNatural
  <2> QED
    BY <2>2
<1>2. y \in OrderBlocks /\ Rests(b, y) /\ Level(b, y) = l /\ y # o
  BY <1>1
<1> DEFINE z == b.orders[y].prev
<1>3. b.orders[o].next = o /\ b.orders[o].moid \in Nat
  BY DEF Ringed, Neighbours
<1>4. o = b.levels[l].first
  BY <1>3 DEF Ringed, Neighbours, After
<1>5. Rests(b, z) /\ z \in OrderBlocks /\ Level(b, z) = l /\ b.orders[z].next = y
  BY <1>2 DEF Ringed, Neighbours, Rests
<1>6. z # o
  BY <1>2, <1>3, <1>5
<1>7. After(b, z, y) /\ b.orders[z].moid \in Nat /\ b.orders[y].moid \in Nat
  BY <1>2, <1>4, <1>5 DEF Ringed, Neighbours
<1>8. z \in Bad
  BY <1>5, <1>6
<1>9. b.orders[y].moid <= b.orders[z].moid
  BY <1>1, <1>8
<1> QED
  BY <1>7, <1>9 DEF After

\* What the rings depend on, of an order.
SameKey(x, y) == x.moid = y.moid /\ x.price = y.price /\ x.priority = y.priority

LEMMA ContentsHaveKeys ==
  ASSUME NEW x, NEW y, SameContents(x, y), NEW k \in OrderBlocks
  PROVE  /\ SameKey(x[k], y[k]) /\ x[k].side = y[k].side /\ x[k].qty = y[k].qty
         /\ x[k].client = y[k].client /\ x[k].coid = y[k].coid
BY DEF SameContents, Content, SameKey

\* The block o is taken for an order younger than all others.
Newcomer(b, c, o) ==
  /\ o \in OrderBlocks /\ b.orderPool.free[o]
  /\ \A k \in OrderBlocks : Rests(c, k) <=> (Rests(b, k) \/ k = o)
  /\ \A k \in OrderBlocks : k # o => SameKey(c.orders[k], b.orders[k])
  /\ Slot(c.orders[o]) \in Slots /\ c.orders[o].moid \in Nat
  /\ \A k \in OrderBlocks : Rests(b, k) => b.orders[k].moid < c.orders[o].moid

\* It joins a level behind the last.
LEMMA JoinKeepsRings ==
  ASSUME NEW b, NEW c, Ringed(b), NEW o, Newcomer(b, c, o),
         NEW l, l = Level(c, o), InUse(b, l), Joined(b, c, o, l),
         NEW first, first = b.levels[l].first,
         NEW last, last = b.orders[first].prev,
         Before(b.orders[last].priority, c.orders[o].priority)
  PROVE  Ringed(c) /\ (Charted(b) => Charted(c))
<1>0. /\ o \in OrderBlocks /\ b.orderPool.free[o]
      /\ \A k \in OrderBlocks : Rests(c, k) <=> (Rests(b, k) \/ k = o)
      /\ Slot(c.orders[o]) \in Slots /\ c.orders[o].moid \in Nat
      /\ c.levelAt = b.levelAt /\ c.levelPool = b.levelPool
      /\ \A k \in LevelBlocks : c.levels[k].first = b.levels[k].first
  BY DEF Newcomer, Joined, SameLevels
<1>p. \A k \in OrderBlocks :
        /\ c.orders[k].next = IF k = o THEN first ELSE IF k = last THEN o
                              ELSE b.orders[k].next
        /\ c.orders[k].prev = IF k = first THEN o ELSE IF k = o THEN last
                              ELSE b.orders[k].prev
  BY DEF Joined
<1>k. \A k \in OrderBlocks : k # o => SameKey(c.orders[k], b.orders[k])
  BY DEF Newcomer
<1>y. \A k \in OrderBlocks : Rests(b, k) => b.orders[k].moid < c.orders[o].moid
  BY DEF Newcomer
<1>1. \A k : InUse(c, k) <=> InUse(b, k)
  BY <1>0 DEF InUse
<1>2. \A k \in OrderBlocks : /\ k # o => Level(c, k) = Level(b, k)
                             /\ k # o => Slot(c.orders[k]) = Slot(b.orders[k])
  BY <1>0, <1>k, ZenonT(40) DEF Level, SameKey, Slot
<1>3. /\ l \in LevelBlocks /\ InUse(b, l) /\ InUse(c, l)
      /\ Rests(b, first) /\ first \in OrderBlocks /\ Level(b, first) = l
  BY <1>1 DEF Ringed, InUse, Rests
<1>4. /\ Rests(b, last) /\ last \in OrderBlocks /\ Level(b, last) = l
      /\ b.orders[last].next = first
  BY <1>3, Zenon DEF Ringed, Neighbours, Rests
<1>5. ~Rests(b, o) /\ first # o /\ last # o
  BY <1>0, <1>3, <1>4 DEF Rests
<1>6. ASSUME NEW k \in OrderBlocks, Rests(b, k)
      PROVE  /\ k # o /\ b.orders[k].next # o /\ b.orders[k].prev # o
             /\ b.orders[k].next \in OrderBlocks /\ b.orders[k].prev \in OrderBlocks
             /\ b.orders[k].next = first => k = last
             /\ b.orders[k].prev = last => k = first
             /\ Neighbours(b, k)
  <2>1. Neighbours(b, k)
    BY <1>6 DEF Ringed
  <2> DEFINE n == b.orders[k].next
             p == b.orders[k].prev
  <2>2. /\ n \in OrderBlocks /\ Rests(b, n) /\ b.orders[n].prev = k
        /\ p \in OrderBlocks /\ Rests(b, p) /\ b.orders[p].next = k
    BY <2>1 DEF Neighbours, Rests
  <2>3. k # o /\ n # o /\ p # o
    BY <1>5, <1>6, <2>2
  <2>4. n = first => k = last
    BY <2>2
  <2>5. p = last => k = first
    BY <1>4, <2>2, Zenon
  <2> QED
    BY <2>1, <2>2, <2>3, <2>4, <2>5, Zenon
<1>7. Neighbours(c, o)
  <2>1. c.orders[o].next = first /\ c.orders[o].prev = last
    BY <1>0, <1>p, <1>5, Zenon
  <2>2. c.orders[first].prev = o /\ c.orders[last].next = o
    BY <1>p, <1>3, <1>4, <1>5, Zenon
  <2>3. Rests(c, first) /\ Rests(c, last) /\ Level(c, first) = l /\ Level(c, last) = l
    BY <1>0, <1>2, <1>3, <1>4, <1>5, Zenon
  <2>4. c.levels[l].first = first
    BY <1>0, <1>3
  <2> QED
    BY <1>0, <1>3, <2>1, <2>2, <2>3, <2>4, Zenon DEF Neighbours
<1>8. ASSUME NEW k \in OrderBlocks, Rests(b, k)
      PROVE  Neighbours(c, k)
  <2> DEFINE n == b.orders[k].next
             p == b.orders[k].prev
  <2>1. /\ k # o /\ n # o /\ p # o /\ n \in OrderBlocks /\ p \in OrderBlocks
        /\ n = first => k = last
        /\ p = last => k = first
    BY <1>6, <1>8, Zenon
  <2>2. /\ b.orders[k].moid \in Nat /\ InUse(b, Level(b, k))
        /\ Rests(b, n) /\ Level(b, n) = Level(b, k) /\ b.orders[n].prev = k
        /\ Rests(b, p) /\ Level(b, p) = Level(b, k) /\ b.orders[p].next = k
        /\ n = b.levels[Level(b, k)].first \/ After(b, k, n)
    BY <1>6, <1>8, Zenon DEF Neighbours
  <2> HIDE DEF n, p
  <2>3. /\ Rests(c, n) /\ Level(c, n) = Level(c, k) /\ Rests(c, p)
        /\ Level(c, p) = Level(c, k) /\ Level(c, k) = Level(b, k)
        /\ InUse(c, Level(c, k)) /\ c.orders[k].moid \in Nat
        /\ c.levels[Level(c, k)].first = b.levels[Level(b, k)].first
    <3>1. Level(b, k) \in LevelBlocks
      BY <2>2 DEF InUse
    <3> QED
      BY <1>0, <1>k, <1>1, <1>2, <2>1, <2>2, <3>1 DEF SameKey
  <2>4. /\ Rests(c, c.orders[k].next) /\ Level(c, c.orders[k].next) = Level(c, k)
        /\ c.orders[c.orders[k].next].prev = k
        /\ \/ c.orders[k].next = c.levels[Level(c, k)].first
           \/ After(c, k, c.orders[k].next)
    <3>1. CASE k = last
      <4>1. c.orders[k].next = o /\ c.orders[o].prev = k
        BY <1>0, <1>p, <1>5, <2>1, <3>1, Zenon
      <4>2. Rests(c, o) /\ Level(c, k) = l
        BY <1>0, <1>4, <2>3, <3>1, Zenon
      <4>3. After(c, k, o)
        BY <1>k, <1>y, <1>4, <1>5, <1>8, <3>1, Zenon DEF After, SameKey
      <4> QED
        BY <2>3, <4>1, <4>2, <4>3
    <3>2. CASE k # last
      <4>1. c.orders[k].next = n /\ n # first
        BY <1>p, <2>1, <3>2, Zenon DEF n
      <4>2. c.orders[n].prev = k
        BY <1>p, <2>1, <2>2, <4>1, Zenon
      <4>3. After(b, k, n) => After(c, k, n)
        BY <1>k, <2>1 DEF After, SameKey
      <4> QED
        BY <2>2, <2>3, <4>1, <4>2, <4>3
    <3> QED BY <3>1, <3>2
  <2>5. /\ Rests(c, c.orders[k].prev) /\ Level(c, c.orders[k].prev) = Level(c, k)
        /\ c.orders[c.orders[k].prev].next = k
    <3>1. CASE k = first
      <4>1. c.orders[k].prev = o /\ c.orders[o].next = k
        BY <1>0, <1>p, <3>1, Zenon
      <4>2. Rests(c, o) /\ Level(c, k) = l
        BY <1>0, <1>3, <2>3, <3>1
      <4> QED
        BY <4>1, <4>2
    <3>2. CASE k # first
      <4>1. c.orders[k].prev = p /\ p # last
        BY <1>p, <2>1, <3>2, Zenon DEF p
      <4>2. c.orders[p].next = k
        BY <1>p, <2>1, <2>2, <4>1
      <4> QED
        BY <2>3, <4>1, <4>2, Zenon
    <3> QED BY <3>1, <3>2
  <2> QED
    BY <2>3, <2>4, <2>5 DEF Neighbours
<1>9. \A k \in OrderBlocks : Rests(c, k) => Neighbours(c, k)
  BY <1>0, <1>7, <1>8
<1>10. ASSUME NEW k \in LevelBlocks, InUse(c, k)
       PROVE  Rests(c, c.levels[k].first) /\ Level(c, c.levels[k].first) = k
  <2>1. Rests(b, b.levels[k].first) /\ Level(b, b.levels[k].first) = k
    BY <1>1, <1>10 DEF Ringed
  <2>2. /\ b.levels[k].first \in OrderBlocks /\ b.levels[k].first # o
        /\ c.levels[k].first = b.levels[k].first
    BY <2>1, <1>0, <1>5 DEF Rests
  <2> DEFINE h == b.levels[k].first
  <2>3. Rests(c, h) /\ Level(c, h) = k
    <3>1. h \in OrderBlocks /\ h # o /\ Rests(b, h) /\ Level(b, h) = k
      BY <2>1, <2>2
    <3> HIDE DEF h
    <3>2. Level(c, h) = Level(b, h)
      BY <3>1, <1>2, Zenon
    <3>3. Rests(c, h)
      BY <3>1, <1>0, Zenon
    <3> QED
      BY <3>1, <3>2, <3>3, Zenon
  <2> QED
    BY <2>2, <2>3
<1>11. ASSUME Charted(b), NEW i \in Slots, c.levelAt[i] # Null
       PROVE  /\ InUse(c, c.levelAt[i])
              /\ Slot(c.orders[c.levels[c.levelAt[i]].first]) = i
  <2>1. /\ InUse(b, b.levelAt[i])
        /\ Slot(b.orders[b.levels[b.levelAt[i]].first]) = i
    BY <1>0, <1>11 DEF Charted
  <2>2. b.levelAt[i] \in LevelBlocks
    BY <2>1 DEF InUse
  <2>3. Rests(b, b.levels[b.levelAt[i]].first)
    BY <2>1, <2>2, Zenon DEF Ringed
  <2> DEFINE h == b.levels[b.levelAt[i]].first
  <2>4. h \in OrderBlocks /\ h # o /\ c.levels[c.levelAt[i]].first = h
    BY <1>0, <1>5, <2>2, <2>3 DEF Rests
  <2>5. Slot(c.orders[h]) = Slot(b.orders[h])
    BY <1>2, <2>4
  <2>6. c.levelAt[i] = b.levelAt[i] /\ Slot(b.orders[h]) = i
    BY <1>0, <2>1
  <2> HIDE DEF h
  <2> QED
    BY <2>1, <2>4, <2>5, <2>6, <1>1, Zenon
<1> QED
  BY <1>9, <1>10, <1>11, Zenon DEF Ringed, Charted

\* The order of the block o is alone in the level m, which was not in use.
Opens(b, c, o, m) ==
  /\ m \in LevelBlocks /\ ~InUse(b, m)
  /\ \A k \in LevelBlocks : InUse(c, k) <=> (InUse(b, k) \/ k = m)
  /\ \A i \in Slots : c.levelAt[i] = IF i = Slot(c.orders[o]) THEN m
                                            ELSE b.levelAt[i]
  /\ \A k \in OrderBlocks :
       /\ c.orders[k].next = IF k = o THEN o ELSE b.orders[k].next
       /\ c.orders[k].prev = IF k = o THEN o ELSE b.orders[k].prev
  /\ \A k \in LevelBlocks :
       /\ c.levels[k].first = IF k = m THEN o ELSE b.levels[k].first
       /\ c.levels[k].price = IF k = m THEN c.orders[o].price ELSE b.levels[k].price
       /\ c.levels[k].side = IF k = m THEN c.orders[o].side ELSE b.levels[k].side

\* It is alone in a level that was not in use.
LEMMA OpenKeepsRings ==
  ASSUME NEW b, NEW c, Shaped(b), Ringed(b), NEW o, Newcomer(b, c, o), NEW l,
         Opens(b, c, o, l), b.levelAt[Slot(c.orders[o])] = Null
  PROVE  Ringed(c) /\ (Charted(b) => Charted(c))
<1>0. /\ o \in OrderBlocks /\ ~Rests(b, o)
      /\ \A k \in OrderBlocks : Rests(c, k) <=> (Rests(b, k) \/ k = o)
      /\ Slot(c.orders[o]) \in Slots /\ c.orders[o].moid \in Nat
  BY DEF Newcomer, Rests
<1>k. \A k \in OrderBlocks : k # o => SameKey(c.orders[k], b.orders[k])
  BY DEF Newcomer
<1>s. \A k \in OrderBlocks : Slot(b.orders[k]) \in Slots
  BY SlotIsIndex
<1>l. /\ l \in LevelBlocks /\ ~InUse(b, l) /\ Null \notin LevelBlocks
      /\ \A k \in LevelBlocks : InUse(c, k) <=> (InUse(b, k) \/ k = l)
      /\ \A i \in Slots : c.levelAt[i] = IF i = Slot(c.orders[o]) THEN l
                                                ELSE b.levelAt[i]
      /\ \A k \in OrderBlocks :
           /\ c.orders[k].next = IF k = o THEN o ELSE b.orders[k].next
           /\ c.orders[k].prev = IF k = o THEN o ELSE b.orders[k].prev
      /\ \A k \in LevelBlocks : c.levels[k].first = IF k = l THEN o ELSE b.levels[k].first
  BY DEF Opens, LevelBlocks, Null
<1> USE <1>l, <1>s
<1>1. Level(c, o) = l /\ InUse(c, l)
  BY <1>0 DEF Level
<1>2. ASSUME NEW k \in OrderBlocks, Rests(b, k)
      PROVE  /\ k # o /\ Neighbours(b, k) /\ Level(b, k) \in LevelBlocks
             /\ Level(b, k) # l /\ Level(c, k) = Level(b, k)
             /\ Slot(c.orders[k]) = Slot(b.orders[k])
  <2>1. k # o /\ Neighbours(b, k) /\ SameKey(c.orders[k], b.orders[k])
    BY <1>0, <1>k, <1>2 DEF Ringed
  <2>2. InUse(b, Level(b, k)) /\ Level(b, k) \in LevelBlocks
    BY <2>1 DEF Neighbours, InUse
  <2>3. Slot(c.orders[k]) = Slot(b.orders[k]) /\ Slot(b.orders[k]) \in Slots
    BY <2>1 DEF SameKey, Slot
  <2>4. Slot(c.orders[k]) # Slot(c.orders[o])
    BY <2>2, <2>3 DEF Level
  <2> QED
    BY <2>1, <2>2, <2>3, <2>4 DEF Level
<1>3. Neighbours(c, o)
  BY <1>0, <1>1 DEF Neighbours
<1>4. ASSUME NEW k \in OrderBlocks, Rests(b, k)
      PROVE  Neighbours(c, k)
  <2> DEFINE n == b.orders[k].next
             p == b.orders[k].prev
  <2>1. /\ b.orders[k].moid \in Nat /\ InUse(b, Level(b, k))
        /\ Rests(b, n) /\ Level(b, n) = Level(b, k) /\ b.orders[n].prev = k
        /\ Rests(b, p) /\ Level(b, p) = Level(b, k) /\ b.orders[p].next = k
        /\ n = b.levels[Level(b, k)].first \/ After(b, k, n)
    BY <1>2, <1>4 DEF Neighbours
  <2>2. n \in OrderBlocks /\ p \in OrderBlocks
    BY <2>1 DEF Rests
  <2>3. c.orders[k].next = n /\ c.orders[k].prev = p
    BY <1>2, <1>4
  <2> HIDE DEF n, p
  <2>4. /\ c.orders[n].prev = k /\ c.orders[p].next = k
        /\ Level(c, k) = Level(b, k) /\ Level(c, n) = Level(b, n) /\ Level(c, p) = Level(b, p)
    BY <1>2, <1>4, <2>1, <2>2
  <2>5. Rests(c, n) /\ Rests(c, p) /\ InUse(c, Level(c, k))
    BY <1>0, <1>2, <1>4, <2>1, <2>2, <2>4
  <2>6. c.levels[Level(c, k)].first = b.levels[Level(b, k)].first
    BY <1>2, <1>4
  <2>7. SameKey(c.orders[k], b.orders[k]) /\ SameKey(c.orders[n], b.orders[n])
    BY <1>k, <1>2, <1>4, <2>1, <2>2
  <2>8. c.orders[k].moid \in Nat /\ (After(b, k, n) => After(c, k, n))
    BY <2>1, <2>7 DEF After, SameKey
  <2> QED
    BY <2>1, <2>3, <2>4, <2>5, <2>6, <2>8 DEF Neighbours
<1>5. ASSUME NEW k \in LevelBlocks, InUse(c, k)
      PROVE  Rests(c, c.levels[k].first) /\ Level(c, c.levels[k].first) = k
  <2>1. CASE k = l
    BY <1>0, <1>1, <2>1
  <2>2. CASE k # l
    <3>1. /\ Rests(b, b.levels[k].first) /\ Level(b, b.levels[k].first) = k
          /\ c.levels[k].first = b.levels[k].first
      BY <1>5, <2>2 DEF Ringed
    <3>2. b.levels[k].first \in OrderBlocks
      BY <3>1 DEF Rests
    <3> QED BY <1>0, <1>2, <3>1, <3>2
  <2> QED BY <2>1, <2>2
<1>6. ASSUME Charted(b), NEW i \in Slots, c.levelAt[i] # Null
      PROVE  /\ InUse(c, c.levelAt[i])
             /\ Slot(c.orders[c.levels[c.levelAt[i]].first]) = i
  <2>1. CASE i = Slot(c.orders[o])
    BY <1>0, <1>1, <2>1
  <2>2. CASE i # Slot(c.orders[o])
    <3> DEFINE m == b.levelAt[i]
               h == b.levels[m].first
    <3>1. c.levelAt[i] = m
      BY <2>2
    <3>2. InUse(b, m) /\ m \in LevelBlocks /\ Slot(b.orders[h]) = i
      BY <1>6, <3>1 DEF Charted, InUse
    <3>3. Rests(b, h) /\ h \in OrderBlocks
      BY <3>2 DEF Ringed, Rests
    <3>4. c.levels[m].first = h
      BY <3>2
    <3> HIDE DEF m, h
    <3> QED
      BY <1>2, <3>1, <3>2, <3>3, <3>4
  <2> QED BY <2>1, <2>2
<1> QED
  BY <1>0, <1>3, <1>4, <1>5, <1>6 DEF Ringed, Charted

\* The order o has left, and no other order's place in the queue has changed.
Departed(b, c, o) ==
  /\ o \in OrderBlocks /\ Rests(b, o)
  /\ \A k \in OrderBlocks : Rests(c, k) <=> (Rests(b, k) /\ k # o)
  /\ \A k \in OrderBlocks : SameKey(c.orders[k], b.orders[k])

\* It was alone at its level, which is given back.
LEMMA CloseKeepsRings ==
  ASSUME NEW b, NEW c, Shaped(b), Ringed(b), NEW o, Departed(b, c, o),
         b.orders[o].prev = o,
         NEW l, l = Level(b, o), Closed(b, c, l),
         c.levelAt = [b.levelAt EXCEPT ![Slot(b.orders[o])] = Null]
  PROVE  Ringed(c) /\ (Charted(b) => Charted(c))
<1>0. /\ o \in OrderBlocks /\ Rests(b, o) /\ l \in LevelBlocks
      /\ \A k \in OrderBlocks : Rests(c, k) <=> (Rests(b, k) /\ k # o)
      /\ c.orders = b.orders
      /\ \A k \in LevelBlocks : c.levels[k].first = b.levels[k].first
  BY DEF Departed, Closed, SameLevels
<1>1. \A k \in LevelBlocks : InUse(c, k) <=> (InUse(b, k) /\ k # l)
  <2>1. c.levelPool.free = [b.levelPool.free EXCEPT ![l] = TRUE]
    BY DEF Closed, Freed
  <2>2. b.levelPool.free \in [LevelBlocks -> BOOLEAN]
    BY DEF Shaped, BooksOn, Pools, LevelBlocks
  <2> QED BY <2>1, <2>2 DEF InUse
<1>2. \A i \in Slots : c.levelAt[i] = IF i = Slot(b.orders[o]) THEN Null
                                            ELSE b.levelAt[i]
  BY DEF Shaped, BooksOn
<1>3. \A k \in OrderBlocks : Slot(b.orders[k]) \in Slots
  BY SlotIsIndex
<1>4. ASSUME NEW k \in OrderBlocks, Rests(b, k), k # o
      PROVE  /\ Neighbours(b, k) /\ Level(b, k) \in LevelBlocks
             /\ Level(b, k) # l /\ Level(c, k) = Level(b, k)
  <2>1. Level(b, k) # l
    BY <1>0, <1>4, AloneAtLevel
  <2>2. Neighbours(b, k) /\ Level(b, k) \in LevelBlocks
    BY <1>4 DEF Ringed, Neighbours, InUse
  <2>3. Slot(b.orders[k]) # Slot(b.orders[o])
    BY <2>1 DEF Level
  <2> QED
    BY <1>0, <1>2, <1>3, <2>1, <2>2, <2>3 DEF Level
<1>5. ASSUME NEW k \in OrderBlocks, Rests(b, k), k # o
      PROVE  Neighbours(c, k)
  <2> DEFINE n == b.orders[k].next
             p == b.orders[k].prev
  <2>1. /\ b.orders[k].moid \in Nat /\ InUse(b, Level(b, k))
        /\ Rests(b, n) /\ Level(b, n) = Level(b, k) /\ b.orders[n].prev = k
        /\ Rests(b, p) /\ Level(b, p) = Level(b, k) /\ b.orders[p].next = k
        /\ n = b.levels[Level(b, k)].first \/ After(b, k, n)
    BY <1>4, <1>5 DEF Neighbours
  <2>2. n \in OrderBlocks /\ p \in OrderBlocks
    BY <2>1 DEF Rests
  <2>3. n # o /\ p # o
    BY <1>4, <1>5, <2>1
  <2>4. c.orders[k].next = n /\ c.orders[k].prev = p
    BY <1>0
  <2> HIDE DEF n, p
  <2>5. /\ Level(c, k) = Level(b, k) /\ Level(c, n) = Level(b, n) /\ Level(c, p) = Level(b, p)
        /\ Level(b, k) \in LevelBlocks /\ Level(b, k) # l
    BY <1>4, <1>5, <2>1, <2>2, <2>3
  <2>6. Rests(c, n) /\ Rests(c, p) /\ InUse(c, Level(c, k))
    BY <1>0, <1>1, <2>1, <2>2, <2>3, <2>5
  <2>7. c.levels[Level(c, k)].first = b.levels[Level(b, k)].first
    BY <1>0, <2>5
  <2>8. After(b, k, n) => After(c, k, n)
    BY <1>0 DEF After
  <2> QED
    BY <1>0, <2>1, <2>4, <2>5, <2>6, <2>7, <2>8 DEF Neighbours
<1>6. ASSUME NEW k \in LevelBlocks, InUse(c, k)
      PROVE  Rests(c, c.levels[k].first) /\ Level(c, c.levels[k].first) = k
  <2> DEFINE h == b.levels[k].first
  <2>1. k # l /\ Rests(b, h) /\ h \in OrderBlocks /\ Level(b, h) = k /\ c.levels[k].first = h
    BY <1>0, <1>1, <1>6 DEF Ringed, Rests
  <2>2. h # o
    BY <2>1
  <2> HIDE DEF h
  <2> QED
    BY <1>0, <1>4, <2>1, <2>2
<1>7. ASSUME Charted(b), NEW i \in Slots, c.levelAt[i] # Null
      PROVE  /\ InUse(c, c.levelAt[i])
             /\ Slot(c.orders[c.levels[c.levelAt[i]].first]) = i
  <2> DEFINE m == b.levelAt[i]
             h == b.levels[m].first
  <2>1. i # Slot(b.orders[o]) /\ c.levelAt[i] = m
    BY <1>2, <1>7
  <2>2. InUse(b, m) /\ m \in LevelBlocks /\ Slot(b.orders[h]) = i
    BY <1>7, <2>1 DEF Charted, InUse
  <2>3. Rests(b, h) /\ h \in OrderBlocks /\ Level(b, h) = m
    BY <2>2 DEF Ringed, Rests
  <2>4. c.levels[m].first = h
    BY <1>0, <2>2
  <2> HIDE DEF m, h
  <2>5. h # o
    BY <2>1, <2>2
  <2>6. m # l
    BY <1>4, <2>3, <2>5
  <2> QED
    BY <1>0, <1>1, <2>1, <2>2, <2>4, <2>6
<1> QED
  BY <1>0, <1>5, <1>6, <1>7 DEF Ringed, Charted

\* It was one of several at its level.
LEMMA UnlinkKeepsRings ==
  ASSUME NEW b, NEW c, Shaped(b), Ringed(b), NEW o, Departed(b, c, o),
         b.orders[o].prev # o,
         NEW l, l = Level(b, o), Unlinked(b, c, o, l)
  PROVE  Ringed(c) /\ (Charted(b) => Charted(c))
<1> DEFINE p == b.orders[o].prev
           n == b.orders[o].next
<1>0. /\ o \in OrderBlocks /\ Rests(b, o) /\ l \in LevelBlocks
      /\ \A k \in OrderBlocks : Rests(c, k) <=> (Rests(b, k) /\ k # o)
      /\ c.levelAt = b.levelAt /\ c.levelPool = b.levelPool
  BY DEF Departed, Unlinked
<1>k. \A k \in OrderBlocks : SameKey(c.orders[k], b.orders[k])
  BY DEF Departed
<1>1. /\ Rests(b, n) /\ Level(b, n) = l /\ b.orders[n].prev = o
      /\ Rests(b, p) /\ Level(b, p) = l /\ b.orders[p].next = o
      /\ n = b.levels[l].first \/ After(b, o, n)
  BY <1>0 DEF Ringed, Neighbours
<1>2. p \in OrderBlocks /\ n \in OrderBlocks /\ p # o /\ n # o
  BY <1>1 DEF Rests
<1>p. /\ \A k \in OrderBlocks :
           /\ k # o => c.orders[k].next = IF k = p THEN n ELSE b.orders[k].next
           /\ k # o => c.orders[k].prev = IF k = n THEN p ELSE b.orders[k].prev
      /\ \A k \in LevelBlocks :
           c.levels[k].first = IF k = l /\ b.levels[k].first = o THEN n
                               ELSE b.levels[k].first
  BY DEF Unlinked
<1> HIDE DEF p, n
<1>3. \A k : InUse(c, k) <=> InUse(b, k)
  BY <1>0 DEF InUse
<1>4. \A k \in OrderBlocks : /\ Level(c, k) = Level(b, k)
                             /\ Slot(c.orders[k]) = Slot(b.orders[k])
  BY <1>0, <1>k DEF Level, SameKey, Slot
<1>5. \A x, y \in OrderBlocks : After(b, x, y) => After(c, x, y)
  BY <1>k DEF After, SameKey
<1>6. n = b.levels[l].first \/ b.levels[l].first = o \/ After(b, p, n)
  <2>1. b.levels[l].first = o \/ After(b, p, o)
    BY <1>0, <1>1, <1>2 DEF Ringed, Neighbours
  <2>2. /\ b.orders[n].moid \in Nat /\ b.orders[p].moid \in Nat /\ b.orders[o].moid \in Nat
    BY <1>0, <1>1, <1>2 DEF Ringed, Neighbours
  <2>3. /\ b.orders[n].priority \in Nat /\ b.orders[p].priority \in Nat
        /\ b.orders[o].priority \in Nat
    BY <1>0, <1>2 DEF Shaped, BooksOn, Orders
  <2>4. After(b, p, o) /\ After(b, o, n) => After(b, p, n)
    BY <2>2, <2>3 DEF After, Before
  <2> QED
    BY <1>1, <2>1, <2>4
<1>7. ASSUME NEW k \in OrderBlocks, Rests(b, k), k # o
      PROVE  Neighbours(c, k)
  <2> DEFINE m == b.orders[k].next
             q == b.orders[k].prev
             j == Level(b, k)
  <2>1. /\ b.orders[k].moid \in Nat /\ InUse(b, j)
        /\ Rests(b, m) /\ Level(b, m) = j /\ b.orders[m].prev = k
        /\ Rests(b, q) /\ Level(b, q) = j /\ b.orders[q].next = k
        /\ m = b.levels[j].first \/ After(b, k, m)
    BY <1>7 DEF Ringed, Neighbours
  <2>2. m \in OrderBlocks /\ q \in OrderBlocks /\ j \in LevelBlocks
    BY <2>1 DEF Rests, InUse
  <2>3. /\ m = o => k = p
        /\ q = o => k = n
        /\ m = n => k = o
        /\ q = p => k = o
    BY <1>1, <2>1 DEF p, n
  <2>4. /\ c.orders[k].next = IF k = p THEN n ELSE m
        /\ c.orders[k].prev = IF k = n THEN p ELSE q
    BY <1>p, <1>7
  <2> HIDE DEF m, q, j
  <2>5. Level(c, k) = j /\ InUse(c, j) /\ c.orders[k].moid \in Nat
    BY <1>3, <1>4, <1>k, <2>1 DEF j, SameKey
  <2>6. /\ Rests(c, c.orders[k].next) /\ Level(c, c.orders[k].next) = j
        /\ c.orders[c.orders[k].next].prev = k
        /\ \/ c.orders[k].next = c.levels[j].first
           \/ After(c, k, c.orders[k].next)
    <3>1. CASE k = p
      <4>1. c.orders[k].next = n /\ j = l
        BY <1>1, <2>4, <3>1 DEF j
      <4>2. c.orders[n].prev = k
        BY <1>2, <1>p, <3>1
      <4>3. n = c.levels[l].first \/ After(c, p, n)
        BY <1>0, <1>2, <1>5, <1>6, <1>p
      <4> QED
        BY <1>0, <1>1, <1>2, <1>4, <3>1, <4>1, <4>2, <4>3
    <3>2. CASE k # p
      <4>1. c.orders[k].next = m /\ m # o /\ m # n
        BY <1>7, <2>3, <2>4, <3>2
      <4>2. c.orders[m].prev = k
        BY <1>p, <2>1, <2>2, <4>1
      <4>3. m = c.levels[j].first \/ After(c, k, m)
        BY <1>5, <1>p, <2>1, <2>2, <4>1
      <4> QED
        BY <1>0, <1>4, <2>1, <2>2, <4>1, <4>2, <4>3
    <3> QED BY <3>1, <3>2
  <2>7. /\ Rests(c, c.orders[k].prev) /\ Level(c, c.orders[k].prev) = j
        /\ c.orders[c.orders[k].prev].next = k
    <3>1. CASE k = n
      <4>1. c.orders[k].prev = p /\ j = l
        BY <1>1, <2>4, <3>1 DEF j
      <4>2. c.orders[p].next = k
        BY <1>2, <1>p, <3>1
      <4> QED
        BY <1>0, <1>1, <1>2, <1>4, <4>1, <4>2
    <3>2. CASE k # n
      <4>1. c.orders[k].prev = q /\ q # o /\ q # p
        BY <1>7, <2>3, <2>4, <3>2
      <4>2. c.orders[q].next = k
        BY <1>p, <2>1, <2>2, <4>1
      <4> QED
        BY <1>0, <1>4, <2>1, <2>2, <4>1, <4>2
    <3> QED BY <3>1, <3>2
  <2> QED
    BY <2>5, <2>6, <2>7 DEF Neighbours
<1>8. ASSUME NEW k \in LevelBlocks, InUse(c, k)
      PROVE  Rests(c, c.levels[k].first) /\ Level(c, c.levels[k].first) = k
  <2> DEFINE h == b.levels[k].first
  <2>1. Rests(b, h) /\ h \in OrderBlocks /\ Level(b, h) = k
    BY <1>3, <1>8 DEF Ringed, Rests
  <2>2. CASE h = o
    <3>1. k = l /\ c.levels[k].first = n
      BY <1>p, <2>1, <2>2
    <3> QED BY <1>0, <1>1, <1>2, <1>4, <3>1
  <2>3. CASE h # o
    <3>1. c.levels[k].first = h
      BY <1>p, <2>3
    <3> HIDE DEF h
    <3> QED BY <1>0, <1>4, <2>1, <2>3, <3>1
  <2> QED BY <2>2, <2>3
<1>9. ASSUME Charted(b), NEW i \in Slots, c.levelAt[i] # Null
      PROVE  /\ InUse(c, c.levelAt[i])
             /\ Slot(c.orders[c.levels[c.levelAt[i]].first]) = i
  <2> DEFINE m == b.levelAt[i]
             h == b.levels[m].first
  <2>1. c.levelAt[i] = m
    BY <1>0
  <2>2. InUse(b, m) /\ m \in LevelBlocks /\ Slot(b.orders[h]) = i
    BY <1>9, <2>1 DEF Charted, InUse
  <2>3. Rests(b, h) /\ h \in OrderBlocks /\ Level(b, h) = m
    BY <2>2 DEF Ringed, Rests
  <2>4. CASE h = o
    <3>1. m = l /\ c.levels[m].first = n
      BY <1>p, <2>2, <2>3, <2>4
    <3>2. Slot(b.orders[n]) = i
      <4> DEFINE s == Slot(b.orders[n])
      <4>1. s \in Slots
        BY <1>2, SlotIsIndex
      <4>2. b.levelAt[s] = l
        BY <1>1 DEF Level
      <4>3. l # Null
        BY <1>9, <2>1, <3>1
      <4>4. Slot(b.orders[b.levels[l].first]) = s
        BY <1>9, <4>1, <4>2, <4>3 DEF Charted
      <4> QED
        BY <2>2, <3>1, <4>4
    <3> QED
      BY <1>2, <1>3, <1>4, <2>1, <2>2, <3>1, <3>2
  <2>5. CASE h # o
    <3>1. c.levels[m].first = h
      BY <1>p, <2>2, <2>5
    <3> HIDE DEF m, h
    <3> QED
      BY <1>3, <1>4, <2>1, <2>2, <2>3, <3>1
  <2> QED BY <2>4, <2>5
<1> QED
  BY <1>0, <1>7, <1>8, <1>9 DEF Ringed, Charted

\* The rings do not depend on the quantities.
LEMMA RingsKept ==
  ASSUME NEW b, NEW c, Ringed(b),
         c.orderPool = b.orderPool, c.levelPool = b.levelPool,
         c.levels = b.levels, c.levelAt = b.levelAt,
         \A k \in OrderBlocks :
           /\ SameKey(c.orders[k], b.orders[k])
           /\ c.orders[k].prev = b.orders[k].prev
           /\ c.orders[k].next = b.orders[k].next
  PROVE  Ringed(c) /\ (Charted(b) => Charted(c))
<1>1. \A k : (Rests(c, k) <=> Rests(b, k)) /\ (InUse(c, k) <=> InUse(b, k))
  BY DEF Rests, InUse
<1>2. \A k \in OrderBlocks : /\ Level(c, k) = Level(b, k)
                             /\ Slot(c.orders[k]) = Slot(b.orders[k])
  BY DEF Level, SameKey, Slot
<1>3. \A x, y \in OrderBlocks : After(b, x, y) => After(c, x, y)
  BY DEF After, SameKey
<1>4. ASSUME NEW k \in OrderBlocks, Rests(b, k)
      PROVE  Neighbours(c, k)
  <2>1. /\ Neighbours(b, k)
        /\ b.orders[k].next \in OrderBlocks /\ b.orders[k].prev \in OrderBlocks
    BY <1>4 DEF Ringed, Neighbours, Rests
  <2>2. /\ c.orders[k].moid = b.orders[k].moid
        /\ c.orders[k].next = b.orders[k].next /\ c.orders[k].prev = b.orders[k].prev
        /\ c.orders[b.orders[k].next].prev = b.orders[b.orders[k].next].prev
        /\ c.orders[b.orders[k].prev].next = b.orders[b.orders[k].prev].next
    BY <2>1 DEF SameKey
  <2> QED
    BY <1>1, <1>2, <1>3, <2>1, <2>2 DEF Neighbours
<1>5. ASSUME NEW l \in LevelBlocks, InUse(b, l)
      PROVE  /\ Rests(b, b.levels[l].first) /\ b.levels[l].first \in OrderBlocks
             /\ Level(b, b.levels[l].first) = l
  BY <1>5 DEF Ringed, Rests
<1>6. ASSUME Charted(b), NEW i \in Slots, b.levelAt[i] # Null
      PROVE  /\ InUse(b, b.levelAt[i]) /\ b.levelAt[i] \in LevelBlocks
             /\ Slot(b.orders[b.levels[b.levelAt[i]].first]) = i
  BY <1>6 DEF Charted, InUse
<1> QED
  BY <1>1, <1>2, <1>4, <1>5, <1>6 DEF Ringed, Charted

-----------------------------------------------------------------------------
(* The book after an order was changed, removed or added *)

Hit(b, o, v) == [b EXCEPT !.orders[o].qty = v]

LEMMA HitSpec ==
  ASSUME NEW b, Shaped(b), NEW o \in OrderBlocks, NEW v \in Nat, NEW c, c = Hit(b, o, v)
  PROVE  /\ Shaped(c) /\ c.status = b.status
         /\ \A k \in OrderBlocks :
              /\ SameKey(c.orders[k], b.orders[k]) /\ c.orders[k].side = b.orders[k].side
              /\ c.orders[k].qty = IF k = o THEN v ELSE b.orders[k].qty
              /\ Rests(c, k) <=> Rests(b, k)
         /\ PoolsReady(b) => PoolsReady(c)
         /\ Ringed(b) => Ringed(c) /\ (Charted(b) => Charted(c))
<1> DEFINE x == [b.orders EXCEPT ![o].qty = v]
<1>1. b.orders \in [OrderBlocks -> Orders]
  BY DEF Shaped, BooksOn
<1>2. /\ x \in [OrderBlocks -> Orders]
      /\ \A k \in OrderBlocks :
           /\ SameKey(x[k], b.orders[k]) /\ x[k].side = b.orders[k].side
           /\ x[k].prev = b.orders[k].prev /\ x[k].next = b.orders[k].next
           /\ x[k].qty = IF k = o THEN v ELSE b.orders[k].qty
  BY <1>1 DEF Orders, SameKey
<1>3. Hit(b, o, v) = [b EXCEPT !.orders = x]
  BY DEF Hit
<1> HIDE DEF x
<1> DEFINE d == [b EXCEPT !.orders = x]
<1>4. /\ Shaped(d) /\ d.orders = x /\ d.status = b.status
      /\ d.levels = b.levels /\ d.levelAt = b.levelAt
      /\ d.orderPool = b.orderPool /\ d.levelPool = b.levelPool
  BY <1>2, OrdersSet
<1>5. c = d
  BY <1>3
<1> HIDE DEF d
<1>6. \A k \in OrderBlocks : Rests(c, k) <=> Rests(b, k)
  BY <1>4, <1>5 DEF Rests
<1>7. PoolsReady(b) => PoolsReady(c)
  BY <1>4, <1>5 DEF PoolsReady
<1>8. Ringed(b) => Ringed(c) /\ (Charted(b) => Charted(c))
  BY <1>2, <1>4, <1>5, RingsKept
<1> QED
  BY <1>2, <1>4, <1>5, <1>6, <1>7, <1>8

\* Whatever the rings are like, removing an order takes it and no other away.
LEMMA RemovedBook ==
  ASSUME NEW b, Shaped(b), PoolsReady(b), b.status = "running",
         NEW o \in OrderBlocks, NEW c, c = RemoveOrder(b, o), c.status = "running"
  PROVE  /\ PoolsReady(c) /\ Rests(b, o)
         /\ SameContents(c.orders, b.orders)
         /\ \A k \in OrderBlocks : Rests(c, k) <=> (Rests(b, k) /\ k # o)
<1> DEFINE i == b.orders[o].price % NumPriceLevels
           l == b.levelAt[i]
<1>1. /\ SameContents(c.orders, b.orders) /\ Freed(b.orderPool, c.orderPool, o)
      /\ \/ Closed(b, c, l)
         \/ Unlinked(b, c, o, l)
  BY RemoveOrderSpec
<1> HIDE DEF i, l
<1>3. /\ b.orderPool \in Pools(NumOrders) /\ b.levelPool \in Pools(NumLevels)
      /\ b.orderPool.next \in OrderBlocks /\ b.levelPool.next \in LevelBlocks
      /\ b.orderPool.free \in [OrderBlocks -> BOOLEAN]
      /\ b.levelPool.free \in [LevelBlocks -> BOOLEAN]
  BY DEF Shaped, BooksOn, Pools, OrderBlocks, LevelBlocks
<1>4. Rests(b, o) /\ \A k \in OrderBlocks : Rests(c, k) <=> (Rests(b, k) /\ k # o)
  BY <1>1, <1>3 DEF Freed, Rests
<1>8. PoolsReady(c)
  <2>1. ~c.orderPool.failed /\ c.orderPool.free[c.orderPool.next]
    BY <1>1, <1>3 DEF PoolsReady, Freed
  <2>2. ~c.levelPool.failed /\ c.levelPool.free[c.levelPool.next]
    BY <1>1, <1>3 DEF PoolsReady, Freed, Closed, Unlinked
  <2> QED BY <2>1, <2>2 DEF PoolsReady
<1> QED
  BY <1>1, <1>4, <1>8

LEMMA RemoveKeepsRings ==
  ASSUME NEW b, Shaped(b), Ringed(b), PoolsReady(b), b.status = "running",
         NEW o \in OrderBlocks, NEW c, c = RemoveOrder(b, o), c.status = "running"
  PROVE  Ringed(c) /\ (Charted(b) => Charted(c))
<1> DEFINE i == b.orders[o].price % NumPriceLevels
           l == b.levelAt[i]
<1>1. \/ /\ b.orders[o].prev = o /\ Closed(b, c, l)
         /\ c.levelAt = [b.levelAt EXCEPT ![i] = Null]
      \/ b.orders[o].prev # o /\ Unlinked(b, c, o, l)
  BY RemoveOrderSpec
<1>2. i = Slot(b.orders[o]) /\ l = Level(b, o)
  BY DEF Slot, Level
<1> HIDE DEF i, l
<1>4. /\ Rests(b, o) /\ SameContents(c.orders, b.orders)
      /\ \A k \in OrderBlocks : Rests(c, k) <=> (Rests(b, k) /\ k # o)
  BY RemovedBook
<1>5. \A k \in OrderBlocks : SameKey(c.orders[k], b.orders[k])
  BY <1>4, ContentsHaveKeys
<1>6. Departed(b, c, o)
  BY <1>4, <1>5 DEF Departed
<1>7. CASE /\ b.orders[o].prev = o /\ Closed(b, c, l)
           /\ c.levelAt = [b.levelAt EXCEPT ![i] = Null]
  BY <1>2, <1>6, <1>7, CloseKeepsRings
<1>8. CASE b.orders[o].prev # o /\ Unlinked(b, c, o, l)
  BY <1>2, <1>6, <1>8, UnlinkKeepsRings
<1> QED
  BY <1>1, <1>7, <1>8

Stored(b, o, ord, pool) == [b EXCEPT !.orderPool = pool, !.orders[o] = ord]

HasStored(b, c, o, ord, pool) ==
  /\ Shaped(c) /\ c.status = b.status /\ c.orderPool = pool
  /\ c.orders = [b.orders EXCEPT ![o] = ord]
  /\ c.levels = b.levels /\ c.levelAt = b.levelAt /\ c.levelPool = b.levelPool
  /\ c.orderOf = b.orderOf

LEMMA StoredSpec ==
  ASSUME NEW b, Shaped(b), NEW o \in OrderBlocks, NEW ord \in Orders,
         NEW pool \in Pools(NumOrders)
  PROVE  HasStored(b, Stored(b, o, ord, pool), o, ord, pool)
<1> DEFINE x  == [b.orders EXCEPT ![o] = ord]
           b1 == [b EXCEPT !.orderPool = pool]
           b2 == [b1 EXCEPT !.orders = x]
<1>1. b.orders \in [OrderBlocks -> Orders] /\ x \in [OrderBlocks -> Orders]
  BY DEF Shaped, BooksOn
<1>2. Stored(b, o, ord, pool) = b2
  BY DEF Stored, Shaped, BooksOn
<1> HIDE DEF x
<1>3. /\ Shaped(b1) /\ b1.status = b.status /\ b1.orderPool = pool
      /\ b1.levels = b.levels /\ b1.levelAt = b.levelAt /\ b1.levelPool = b.levelPool
      /\ b1.orderOf = b.orderOf
  BY OrderPoolSet
<1> HIDE DEF b1
<1>4. /\ Shaped(b2) /\ b2.status = b1.status /\ b2.orderPool = b1.orderPool
      /\ b2.orders = x
      /\ b2.levels = b1.levels /\ b2.levelAt = b1.levelAt /\ b2.levelPool = b1.levelPool
      /\ b2.orderOf = b1.orderOf
  BY <1>1, <1>3, OrdersSet
<1> HIDE DEF b2
<1>5. HasStored(b, b2, o, ord, pool)
  BY <1>3, <1>4 DEF HasStored, x
<1> QED
  BY <1>2, <1>5

\* The block o is taken for the order ord, which is in no ring yet.
Took(b, s, o, ord) ==
  /\ Shaped(s) /\ PoolsReady(s) /\ o \in OrderBlocks /\ b.orderPool.free[o]
  /\ s.orderPool.free = [b.orderPool.free EXCEPT ![o] = FALSE]
  /\ s.orders = [b.orders EXCEPT ![o] = ord]
  /\ s.levels = b.levels /\ s.levelAt = b.levelAt /\ s.levelPool = b.levelPool

\* It joined the ring of its level.
Added(s, c, o) ==
  LET l == LevelOf(s, s.orders[o].price)
  IN  /\ c.orderPool = s.orderPool /\ SameContents(c.orders, s.orders)
      /\ IF l = Null THEN Alone(s, c, o, s.levelPool.next) ELSE Joined(s, c, o, l)

LEMMA TookBlock ==
  ASSUME NEW b, Shaped(b), PoolsReady(b), NEW ord \in Orders,
         NEW pool, pool = Allocate(b.orderPool), ~pool.failed
  PROVE  Took(b, Stored(b, b.orderPool.next, ord, pool), b.orderPool.next, ord)
<1> DEFINE o == b.orderPool.next
           s == Stored(b, o, ord, pool)
<1>1. NumOrders \in Nat \ {0} /\ b.orderPool \in Pools(NumOrders) /\ o \in OrderBlocks
  BY MEOrderBookAssumption DEF Shaped, BooksOn, Pools, OrderBlocks
<1>2. /\ ~b.orderPool.failed /\ b.orderPool.free[o]
      /\ ~b.levelPool.failed /\ b.levelPool.free[b.levelPool.next]
  BY DEF PoolsReady
<1>3. /\ pool \in Pools(NumOrders) /\ pool.free = [b.orderPool.free EXCEPT ![o] = FALSE]
      /\ pool.free[pool.next]
  BY <1>1, <1>2, AllocateSpec
<1> HIDE DEF o
<1>4. /\ Shaped(s) /\ s.status = b.status /\ s.orderPool = pool
      /\ s.orders = [b.orders EXCEPT ![o] = ord]
      /\ s.levels = b.levels /\ s.levelAt = b.levelAt /\ s.levelPool = b.levelPool
  <2>1. HasStored(b, s, o, ord, pool)
    BY <1>1, <1>3, StoredSpec
  <2> HIDE DEF s
  <2> QED BY <2>1 DEF HasStored
<1> HIDE DEF s
<1>5. PoolsReady(s)
  BY <1>2, <1>3, <1>4 DEF PoolsReady
<1>6. Took(b, s, o, ord)
  BY <1>1, <1>2, <1>3, <1>4, <1>5 DEF Took
<1> QED
  BY <1>6 DEF s, o

\* Whatever the rings are like, the order rests then, and the others as before.
LEMMA AddedBook ==
  ASSUME NEW b, Shaped(b), PoolsReady(b), NEW ord \in Orders,
         NEW o, NEW s, Took(b, s, o, ord), NEW c, Added(s, c, o)
  PROVE  /\ PoolsReady(c) /\ o \in OrderBlocks /\ ~Rests(b, o)
         /\ \A k \in OrderBlocks :
              /\ Rests(c, k) <=> (Rests(b, k) \/ k = o)
              /\ Content(c.orders[k]) = IF k = o THEN Content(ord) ELSE Content(b.orders[k])
         /\ LevelOf(b, ord.price) = Null => Opens(b, c, o, b.levelPool.next)
<1>1. /\ b.orderPool.free \in [OrderBlocks -> BOOLEAN]
      /\ b.levelPool \in Pools(NumLevels) /\ b.levelPool.next \in LevelBlocks
      /\ b.levelPool.free \in [LevelBlocks -> BOOLEAN]
      /\ b.orders \in [OrderBlocks -> Orders] /\ b.levelAt \in [Slots -> Opened(b)]
  BY DEF Shaped, BooksOn, Pools, OrderBlocks, LevelBlocks
<1>2. NumLevels \in Nat \ {0}
  BY MEOrderBookAssumption
<1>3. /\ o \in OrderBlocks /\ ~Rests(b, o) /\ b.orderPool.free[o]
      /\ ~b.levelPool.failed /\ b.levelPool.free[b.levelPool.next]
  BY DEF PoolsReady, Rests, Took
<1>5. /\ s.orderPool.free = [b.orderPool.free EXCEPT ![o] = FALSE]
      /\ s.orders = [b.orders EXCEPT ![o] = ord]
      /\ s.levels = b.levels /\ s.levelAt = b.levelAt /\ s.levelPool = b.levelPool
  BY DEF Took
<1>6. ~s.orderPool.failed /\ s.orderPool.free[s.orderPool.next]
  BY DEF Took, PoolsReady
<1>7. s.orders[o] = ord /\ \A k \in OrderBlocks : k # o => s.orders[k] = b.orders[k]
  BY <1>1, <1>3, <1>5
<1> DEFINE l == LevelOf(s, s.orders[o].price)
<1>8. /\ c.orderPool = s.orderPool /\ SameContents(c.orders, s.orders)
      /\ IF l = Null THEN Alone(s, c, o, s.levelPool.next) ELSE Joined(s, c, o, l)
  BY DEF Added
<1>9. \A k \in OrderBlocks :
        /\ Content(c.orders[k]) = Content(s.orders[k])
        /\ c.orders[k].price = s.orders[k].price /\ c.orders[k].side = s.orders[k].side
  <2>1. SameContents(c.orders, s.orders)
    BY <1>8
  <2>2. \A k \in OrderBlocks : SameKey(c.orders[k], s.orders[k])
                               /\ c.orders[k].side = s.orders[k].side
    BY <2>1, ContentsHaveKeys
  <2> QED BY <2>1, <2>2 DEF SameContents, SameKey
<1>10. \A k \in OrderBlocks : Rests(c, k) <=> (Rests(b, k) \/ k = o)
  BY <1>1, <1>3, <1>5, <1>8 DEF Rests
<1>11. /\ c.orders[o].price = ord.price /\ c.orders[o].side = ord.side
       /\ Slot(c.orders[o]) = ord.price % NumPriceLevels /\ Slot(c.orders[o]) \in Slots
  <2>1. ord.price % NumPriceLevels \in Slots
    BY SlotInTable DEF Orders
  <2> QED BY <1>3, <1>7, <1>9, <2>1 DEF Slot
<1>13. l = LevelOf(b, ord.price)
  BY <1>5, <1>7 DEF LevelOf
<1> HIDE DEF l
<1>14. CASE l = Null
  <2> DEFINE m == b.levelPool.next
  <2>1. Alone(s, c, o, m)
    BY <1>5, <1>8, <1>14
  <2>2. /\ c.levelPool = Allocate(b.levelPool) /\ ~c.levelPool.failed
        /\ \A k \in LevelBlocks :
             /\ c.levels[k].first = IF k = m THEN o ELSE b.levels[k].first
             /\ c.levels[k].price = IF k = m THEN ord.price ELSE b.levels[k].price
             /\ c.levels[k].side = IF k = m THEN ord.side ELSE b.levels[k].side
    BY <1>5, <1>7, <2>1 DEF Alone
  <2>3. c.levelAt = [b.levelAt EXCEPT ![Slot(c.orders[o])] = m]
    BY <1>5, <1>7, <1>11, <2>1 DEF Alone
  <2>4. \A k \in OrderBlocks :
          /\ c.orders[k].next = IF k = o THEN o ELSE b.orders[k].next
          /\ c.orders[k].prev = IF k = o THEN o ELSE b.orders[k].prev
    BY <1>7, <2>1 DEF Alone
  <2>5. /\ c.levelPool.free = [b.levelPool.free EXCEPT ![m] = FALSE]
        /\ c.levelPool.free[c.levelPool.next]
    BY <1>1, <1>2, <1>3, <2>2, AllocateSpec
  <2>6. /\ m \in LevelBlocks /\ ~InUse(b, m)
        /\ \A k \in LevelBlocks : InUse(c, k) <=> (InUse(b, k) \/ k = m)
    BY <1>1, <1>3, <2>5 DEF InUse
  <2>8. \A i \in Slots : c.levelAt[i] = IF i = Slot(c.orders[o]) THEN m
                                              ELSE b.levelAt[i]
    BY <1>1, <2>3
  <2> HIDE DEF m
  <2>10. Opens(b, c, o, m)
    BY <1>11, <2>2, <2>4, <2>6, <2>8 DEF Opens
  <2>11. PoolsReady(c)
    BY <1>6, <1>8, <2>2, <2>5 DEF PoolsReady
  <2> QED
    BY <1>3, <1>7, <1>9, <1>10, <2>10, <2>11 DEF m
<1>15. CASE l # Null
  <2>8. PoolsReady(c)
    BY <1>3, <1>6, <1>8, <1>15, <1>5 DEF PoolsReady, Joined
  <2> QED
    BY <1>3, <1>7, <1>9, <1>10, <1>13, <1>15, <2>8
<1> QED
  BY <1>14, <1>15

\* It joined the level of its price, which is in use.
LEMMA AddedBehind ==
  ASSUME NEW b, Shaped(b), PoolsReady(b), Ringed(b), NEW ord \in Orders,
         NEW o, NEW s, Took(b, s, o, ord), NEW c, Added(s, c, o),
         NEW l, l = LevelOf(b, ord.price), InUse(b, l)
  PROVE  /\ Joined(b, c, o, l)
         /\ Rests(b, b.levels[l].first)
         /\ Rests(b, b.orders[b.levels[l].first].prev)
<1> DEFINE first == b.levels[l].first
           last  == b.orders[first].prev
<1>1. /\ o \in OrderBlocks /\ ~Rests(b, o) /\ b.orders \in [OrderBlocks -> Orders]
      /\ s.orders = [b.orders EXCEPT ![o] = ord]
      /\ s.levels = b.levels /\ s.levelAt = b.levelAt /\ s.levelPool = b.levelPool
  BY DEF Shaped, BooksOn, Rests, Took
<1>2. s.orders[o] = ord /\ \A k \in OrderBlocks : k # o => s.orders[k] = b.orders[k]
  BY <1>1
<1>3. l = LevelOf(s, s.orders[o].price) /\ l # Null /\ l \in LevelBlocks
  BY <1>1, <1>2 DEF LevelOf, InUse, LevelBlocks, Null
<1>4. Joined(s, c, o, l)
  BY <1>3 DEF Added
<1>5. Rests(b, first) /\ first \in OrderBlocks /\ first # o
  BY <1>1, <1>3 DEF Ringed, Rests
<1>6. Rests(b, last) /\ last \in OrderBlocks /\ last # o
  <2>1. Neighbours(b, first)
    BY <1>5 DEF Ringed
  <2>2. Rests(b, last)
    BY <2>1 DEF Neighbours
  <2> QED
    BY <1>1, <2>2 DEF Rests
<1>7. s.levels[l].first = first /\ s.orders[first].prev = last
  BY <1>1, <1>2, <1>5
<1> HIDE DEF first, last
<1>8. /\ \A k \in OrderBlocks :
           /\ c.orders[k].next = IF k = o THEN first ELSE IF k = last THEN o
                                 ELSE s.orders[k].next
           /\ c.orders[k].prev = IF k = first THEN o ELSE IF k = o THEN last
                                 ELSE s.orders[k].prev
      /\ c.levelAt = b.levelAt /\ c.levelPool = b.levelPool
      /\ SameLevels(c.levels, b.levels)
  BY <1>1, <1>4, <1>7 DEF Joined
<1>9. \A k \in OrderBlocks :
        /\ c.orders[k].next = IF k = o THEN first ELSE IF k = last THEN o
                              ELSE b.orders[k].next
        /\ c.orders[k].prev = IF k = first THEN o ELSE IF k = o THEN last
                              ELSE b.orders[k].prev
  BY <1>2, <1>5, <1>8
<1>10. Joined(b, c, o, l)
  BY <1>3, <1>5, <1>6, <1>8, <1>9 DEF Joined, first, last
<1> QED
  BY <1>5, <1>6, <1>10 DEF first, last

\* What the rings need of the new order: it is younger than all others, and comes
\* behind the last of a level in use, or its level is a new one.
Follows(b, ord) ==
  LET l == LevelOf(b, ord.price)
  IN  /\ ord \in Orders /\ ord.moid \in Nat
      /\ \A k \in OrderBlocks : Rests(b, k) => b.orders[k].moid < ord.moid
      /\ l # Null =>
           /\ InUse(b, l)
           /\ Before(b.orders[b.orders[b.levels[l].first].prev].priority, ord.priority)

LEMMA AddKeepsRings ==
  ASSUME NEW b, Shaped(b), PoolsReady(b), Ringed(b), NEW ord, Follows(b, ord),
         NEW o, NEW s, Took(b, s, o, ord), NEW c, Added(s, c, o)
  PROVE  Ringed(c) /\ (Charted(b) => Charted(c))
<1> DEFINE l == LevelOf(b, ord.price)
<1>1. /\ ord \in Orders /\ ord.price \in Nat /\ ord.moid \in Nat
      /\ \A k \in OrderBlocks : Rests(b, k) => b.orders[k].moid < ord.moid
  BY DEF Follows, Orders
<1>2. /\ o \in OrderBlocks /\ ~Rests(b, o)
      /\ \A k \in OrderBlocks :
           /\ Rests(c, k) <=> (Rests(b, k) \/ k = o)
           /\ Content(c.orders[k]) = IF k = o THEN Content(ord) ELSE Content(b.orders[k])
      /\ l = Null => Opens(b, c, o, b.levelPool.next)
  BY <1>1, AddedBook
<1>3. /\ \A k \in OrderBlocks : k # o => SameKey(c.orders[k], b.orders[k])
      /\ SameKey(c.orders[o], ord)
  BY <1>2 DEF Content, SameKey
<1>4. /\ Slot(c.orders[o]) = ord.price % NumPriceLevels /\ Slot(c.orders[o]) \in Slots
      /\ c.orders[o].moid = ord.moid /\ c.orders[o].priority = ord.priority
  <2>1. ord.price % NumPriceLevels \in Slots
    BY <1>1, SlotInTable
  <2> QED BY <1>3, <2>1 DEF SameKey, Slot
<1>5. Newcomer(b, c, o)
  <2>1. b.orderPool.free[o]
    BY <1>2 DEF Rests
  <2> QED
    BY <1>1, <1>2, <1>3, <1>4, <2>1 DEF Newcomer
<1>6. l = b.levelAt[Slot(c.orders[o])]
  BY <1>4 DEF LevelOf
<1> HIDE DEF l
<1>7. CASE l = Null
  <2> DEFINE m == b.levelPool.next
  <2>2. Opens(b, c, o, m)
    BY <1>2, <1>7
  <2> HIDE DEF m
  <2>4. b.levelAt[Slot(c.orders[o])] = Null
    BY <1>6, <1>7
  <2> QED
    BY <1>5, <2>2, <2>4, OpenKeepsRings
<1>8. CASE l # Null
  <2>1. InUse(b, l)
    BY <1>8 DEF Follows, l
  <2>2. Before(b.orders[b.orders[b.levels[l].first].prev].priority, c.orders[o].priority)
    BY <1>4, <1>8 DEF Follows, l
  <2>3. Joined(b, c, o, l)
    BY <1>1, <2>1, AddedBehind DEF l
  <2>4. l = Level(c, o)
    BY <1>6, <2>3 DEF Joined, Level
  <2> QED
    BY <1>5, <2>1, <2>2, <2>3, <2>4, JoinKeepsRings
<1> QED
  BY <1>7, <1>8

=============================================================================
