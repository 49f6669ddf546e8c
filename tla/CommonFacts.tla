----------------------------- MODULE CommonFacts ------------------------------
(***************************************************************************)
(* Facts about natural numbers, and about the pool of blocks for every     *)
(* number of blocks, that the proofs of several modules cite.              *)
(***************************************************************************)
EXTENDS MemPool, FiniteSetTheorems, WellFoundedInduction, TLAPS

\* A non-empty set of naturals has a least element: of the intervals 0 .. d,
\* one is minimal for strict inclusion.
LEMMA LeastNatural ==
  ASSUME NEW S \in SUBSET Nat, S # {}
  PROVE  \E d \in S : \A e \in S : d <= e
<1> DEFINE T == {0 .. d : d \in S}
<1>1. T \subseteq FiniteSubsetsOf(Nat) /\ T # {}
  <2>1. \A d \in S : 0 .. d \in SUBSET Nat /\ IsFiniteSet(0 .. d)
    BY FS_Interval
  <2> QED BY <2>1 DEF FiniteSubsetsOf
<1>2. PICK t \in T : \A u \in T : ~(<<u, t>> \in StrictSubsetOrdering(Nat))
  BY <1>1, FS_StrictSubsetOrderingWellFounded, WFMin
<1>3. PICK d \in S : t = 0 .. d
  BY <1>2
<1>4. ASSUME NEW e \in S, e < d PROVE FALSE
  <2>1. /\ 0 .. e \in T /\ 0 .. e \subseteq 0 .. d /\ 0 .. e # 0 .. d
        /\ 0 .. e \in SUBSET Nat /\ 0 .. d \in SUBSET Nat
    BY <1>4
  <2> QED BY <2>1, <1>2, <1>3 DEF StrictSubsetOrdering
<1> QED BY <1>4

\* Induction up to a bound, of a set.
LEMMA IntervalInduction ==
  ASSUME NEW N \in Nat, NEW S, 0 \in S,
         \A n \in 0 .. (N - 1) : n \in S => n + 1 \in S
  PROVE  0 .. N \subseteq S
<1> DEFINE Bad == {n \in 0 .. N : n \notin S}
<1> SUFFICES ASSUME Bad # {} PROVE FALSE
  OBVIOUS
<1>1. PICK d \in Bad : \A e \in Bad : d <= e
  <2>1. Bad \in SUBSET Nat
    OBVIOUS
  <2> HIDE DEF Bad
  <2> QED
    BY <2>1, LeastNatural
<1>2. d \in 1 .. N
  BY <1>1
<1>3. d - 1 \in 0 .. (N - 1) /\ d - 1 \in 0 .. N /\ ~(d <= d - 1) /\ (d - 1) + 1 = d
  BY <1>2
<1>4. d - 1 \in S
  BY <1>1, <1>3
<1> QED
  BY <1>1, <1>3, <1>4

\* What is met following the pointers next of records from one of them.
IsChain(f, N, nil, X, from) ==
  f = [k \in 0 .. N |->
         IF k = 0 THEN from
         ELSE LET l == f[k - 1] IN IF l = nil THEN nil ELSE X[l].next]

\* The recursive function that follows them exists.
LEMMA ChainExists ==
  ASSUME NEW nil, NEW X, NEW from, NEW N \in Nat
  PROVE  \E f : IsChain(f, N, nil, X, from)
<1> DEFINE Step(l) == IF l = nil THEN nil ELSE X[l].next
           Upto(f, m) == f = [k \in 0 .. m |-> IF k = 0 THEN from ELSE Step(f[k - 1])]
           T == {m \in 0 .. N : \E f : Upto(f, m)}
<1>1. 0 \in T
  <2> DEFINE h == [k \in 0 .. 0 |-> from]
  <2>1. Upto(h, 0)
    <3> HIDE DEF Step
    <3> QED OBVIOUS
  <2> HIDE DEF h
  <2> QED
    BY <2>1
<1>2. ASSUME NEW m \in 0 .. (N - 1), m \in T PROVE m + 1 \in T
  <2>1. PICK f : Upto(f, m)
    BY <1>2
  <2> HIDE DEF Step
  <2> DEFINE h == [k \in 0 .. (m + 1) |-> IF k = m + 1 THEN Step(f[m]) ELSE f[k]]
  <2>2. \A k \in 0 .. (m + 1) : h[k] = IF k = 0 THEN from ELSE Step(h[k - 1])
    BY <2>1
  <2>3. Upto(h, m + 1)
    BY <2>2
  <2>4. m + 1 \in 0 .. N
    OBVIOUS
  <2> HIDE DEF h
  <2> QED
    BY <2>3, <2>4
<1> HIDE DEF T
<1>3. 0 .. N \subseteq T
  BY <1>1, <1>2, IntervalInduction
<1>4. N \in T
  BY <1>3
<1> QED
  BY <1>4 DEF T, IsChain

\* It meets nothing but what the pointers lead to.
LEMMA ChainStays ==
  ASSUME NEW S, NEW nil, NEW X,
         \A l \in S : (IF l = nil THEN nil ELSE X[l].next) \in S,
         NEW from \in S, NEW N \in Nat,
         NEW chain, IsChain(chain, N, nil, X, from)
  PROVE  /\ chain[0] = from
         /\ \A k \in 0 .. N : chain[k] \in S
         /\ \A k \in 1 .. N : chain[k] = IF chain[k - 1] = nil THEN nil
                                         ELSE X[chain[k - 1]].next
<1>0. /\ chain[0] = from
      /\ \A k \in 1 .. N : chain[k] = IF chain[k - 1] = nil THEN nil
                                      ELSE X[chain[k - 1]].next
  <2>1. \A k \in 1 .. N : k \in 0 .. N /\ k # 0
    OBVIOUS
  <2> QED
    BY <2>1 DEF IsChain
<1> DEFINE K == {k \in 0 .. N : chain[k] \in S}
<1>1. 0 \in K
  BY <1>0
<1>2. ASSUME NEW k \in 0 .. (N - 1), k \in K PROVE k + 1 \in K
  <2>1. k + 1 \in 1 .. N /\ k + 1 \in 0 .. N /\ (k + 1) - 1 = k
    OBVIOUS
  <2>2. chain[k + 1] = IF chain[k] = nil THEN nil ELSE X[chain[k]].next
    BY <2>1, <1>0
  <2> QED
    BY <2>1, <2>2, <1>2
<1> HIDE DEF K
<1>3. 0 .. N \subseteq K
  BY <1>1, <1>2, IntervalInduction
<1> QED
  BY <1>0, <1>3 DEF K

\* The sums of the first values of a.
IsSum(f, N, a) == f = [k \in 0 .. N |-> IF k = 0 THEN 0 ELSE f[k - 1] + a[k]]

\* The recursive function that adds them exists.
LEMMA SumExists ==
  ASSUME NEW N \in Nat, NEW a
  PROVE  \E f : IsSum(f, N, a)
<1> DEFINE Upto(f, m) == f = [k \in 0 .. m |-> IF k = 0 THEN 0 ELSE f[k - 1] + a[k]]
           T == {m \in 0 .. N : \E f : Upto(f, m)}
<1>1. 0 \in T
  <2> DEFINE h == [k \in 0 .. 0 |-> 0]
  <2>1. Upto(h, 0)
    OBVIOUS
  <2> HIDE DEF h
  <2> QED
    BY <2>1
<1>2. ASSUME NEW m \in 0 .. (N - 1), m \in T PROVE m + 1 \in T
  <2>1. PICK f : Upto(f, m)
    BY <1>2
  <2> DEFINE h == [k \in 0 .. (m + 1) |-> IF k = m + 1 THEN f[m] + a[m + 1] ELSE f[k]]
  <2>2. \A k \in 0 .. (m + 1) : h[k] = IF k = 0 THEN 0 ELSE h[k - 1] + a[k]
    BY <2>1
  <2>3. Upto(h, m + 1)
    BY <2>2
  <2>4. m + 1 \in 0 .. N
    OBVIOUS
  <2> HIDE DEF h
  <2> QED
    BY <2>3, <2>4
<1> HIDE DEF T
<1>3. 0 .. N \subseteq T
  BY <1>1, <1>2, IntervalInduction
<1>4. N \in T
  BY <1>3
<1> QED
  BY <1>4 DEF T, IsSum

LEMMA SumIs ==
  ASSUME NEW N \in Nat, NEW a, NEW f, IsSum(f, N, a)
  PROVE  f[0] = 0 /\ \A k \in 1 .. N : f[k] = f[k - 1] + a[k]
<1>1. \A k \in 1 .. N : k \in 0 .. N /\ k # 0
  OBVIOUS
<1> QED
  BY <1>1 DEF IsSum

LEMMA SumIsNatural ==
  ASSUME NEW N \in Nat, NEW a, NEW f, IsSum(f, N, a), NEW m \in 0 .. N,
         \A k \in 1 .. m : a[k] \in Nat
  PROVE  \A k \in 0 .. m : f[k] \in Nat
<1> DEFINE K == {k \in 0 .. m : f[k] \in Nat}
<1>1. f[0] = 0 /\ \A k \in 1 .. N : f[k] = f[k - 1] + a[k]
  BY SumIs
<1>2. 0 \in K
  BY <1>1
<1>3. ASSUME NEW k \in 0 .. (m - 1), k \in K PROVE k + 1 \in K
  <2>1. k + 1 \in 1 .. N /\ k + 1 \in 1 .. m /\ k + 1 \in 0 .. m /\ (k + 1) - 1 = k
    OBVIOUS
  <2> QED
    BY <1>1, <1>3, <2>1
<1> HIDE DEF K
<1>4. m \in Nat
  OBVIOUS
<1>5. 0 .. m \subseteq K
  BY <1>2, <1>3, <1>4, IntervalInduction
<1> QED
  BY <1>5 DEF K

\* Two sums of the same values, one of them over places 1 .. size that m spreads
\* over 1 .. N in their order.
Spread(N, size, m, A, a) ==
  /\ size \in 0 .. N
  /\ \A k \in 1 .. size : m[k] \in 1 .. N /\ A[m[k]] = a[k]
  /\ \A k \in 1 .. size : \A j \in 1 .. (k - 1) : m[j] < m[k]
  /\ \A i \in 1 .. N : A[i] = 0 \/ \E k \in 1 .. size : m[k] = i

LEMMA SumsAgree ==
  ASSUME NEW N \in Nat, NEW size, NEW m, NEW A, NEW a, Spread(N, size, m, A, a),
         NEW F, IsSum(F, N, A), NEW S, IsSum(S, N, a),
         \A k \in 1 .. size : a[k] \in Nat
  PROVE  F[N] = S[size]
<1> DEFINE Between(i, k) == /\ k = 0 \/ m[k] <= i
                            /\ k = size \/ i < m[k + 1]
           K == {i \in 0 .. N : \A k \in 0 .. size : Between(i, k) => F[i] = S[k]}
<1>1. /\ F[0] = 0 /\ \A i \in 1 .. N : F[i] = F[i - 1] + A[i]
      /\ S[0] = 0 /\ \A k \in 1 .. N : S[k] = S[k - 1] + a[k]
  BY SumIs
<1>2. /\ size \in 0 .. N
      /\ \A k \in 1 .. size : m[k] \in 1 .. N /\ A[m[k]] = a[k]
      /\ \A k \in 1 .. size : \A j \in 1 .. (k - 1) : m[j] < m[k]
      /\ \A i \in 1 .. N : A[i] = 0 \/ \E k \in 1 .. size : m[k] = i
  BY DEF Spread
<1>3. \A k \in 0 .. size : S[k] \in Nat
  BY <1>2, SumIsNatural
<1>4. 0 \in K
  BY <1>1, <1>2
<1>5. ASSUME NEW i \in 0 .. (N - 1), i \in K PROVE i + 1 \in K
  <2> SUFFICES ASSUME NEW k \in 0 .. size, Between(i + 1, k) PROVE F[i + 1] = S[k]
    OBVIOUS
  <2>1. F[i + 1] = F[i] + A[i + 1]
    BY <1>1
  <2>2. CASE k # 0 /\ m[k] = i + 1
    <3>1. k \in 1 .. size /\ k - 1 \in 0 .. size /\ (k - 1) + 1 = k
      BY <1>2, <2>2
    <3>2. k - 1 = 0 \/ m[k - 1] <= i
      BY <1>2, <2>2, <3>1
    <3>3. Between(i, k - 1)
      BY <2>2, <3>1, <3>2
    <3>4. F[i] = S[k - 1]
      BY <1>5, <3>1, <3>3
    <3>5. A[i + 1] = a[k]
      BY <1>2, <2>2, <3>1
    <3>6. S[k] = S[k - 1] + a[k]
      BY <1>1, <1>2, <3>1
    <3> QED
      BY <2>1, <3>4, <3>5, <3>6
  <2>3. CASE k = 0 \/ m[k] # i + 1
    <3>1. k = 0 \/ (k \in 1 .. size /\ m[k] \in 1 .. N)
      BY <1>2
    <3>2. k = 0 \/ m[k] <= i
      BY <2>3, <3>1
    <3>3. k = size \/ (k + 1 \in 1 .. size /\ m[k + 1] \in 1 .. N)
      BY <1>2
    <3>4. k = size \/ i < m[k + 1]
      BY <3>3
    <3>5. F[i] = S[k]
      BY <1>5, <3>2, <3>4
    <3>6. ASSUME NEW j \in 1 .. size, m[j] = i + 1 PROVE FALSE
      <4>1. CASE j <= k
        <5>1. k \in 1 .. size /\ (j = k \/ j \in 1 .. (k - 1))
          BY <4>1, <1>2
        <5>2. m[j] <= m[k]
          BY <1>2, <5>1
        <5> QED
          BY <1>2, <3>2, <3>6, <5>1, <5>2
      <4>2. CASE k < j
        <5>1. k # size /\ k + 1 \in 1 .. size /\ (j = k + 1 \/ k + 1 \in 1 .. (j - 1))
          BY <4>2, <1>2
        <5>2. m[k + 1] <= m[j]
          BY <1>2, <5>1
        <5>3. i + 1 < m[k + 1]
          BY <5>1
        <5> QED
          BY <1>2, <3>6, <5>1, <5>2, <5>3
      <4>3. j \in Nat /\ k \in Nat
        BY <1>2
      <4> QED
        BY <4>1, <4>2, <4>3
    <3>7. A[i + 1] = 0
      BY <1>2, <3>6
    <3> QED
      BY <1>3, <2>1, <3>5, <3>7
  <2> QED
    BY <2>2, <2>3
<1>6. 0 .. N \subseteq K
  <2> HIDE DEF K
  <2> QED BY <1>4, <1>5, IntervalInduction
<1>7. N \in K /\ size \in 0 .. size
  BY <1>2, <1>6
<1>8. Between(N, size)
  BY <1>2
<1> QED
  BY <1>7, <1>8

-----------------------------------------------------------------------------
(* Rings of records *)

\* From every member of M, next leads to a member whose prev leads back, and to one
\* of a higher rank r unless it is the head h.
Cyclic(M, X, r, h) ==
  /\ h \in M
  /\ \A x \in M : /\ r[x] \in Nat
                  /\ X[x].next \in M /\ X[X[x].next].prev = x
                  /\ X[x].prev \in M /\ X[X[x].prev].next = x
                  /\ X[x].next = h \/ r[x] < r[X[x].next]

\* The head has the lowest rank: another member of the lowest has one before it.
LEMMA HeadIsLowest ==
  ASSUME NEW M, NEW X, NEW r, NEW h, Cyclic(M, X, r, h), NEW x \in M
  PROVE  x = h \/ r[h] < r[x]
<1> DEFINE Bad == {y \in M : y # h /\ ~(r[h] < r[y])}
           R   == {r[y] : y \in Bad}
<1> SUFFICES ASSUME Bad # {} PROVE FALSE
  OBVIOUS
<1>1. PICK y \in Bad : \A z \in Bad : r[y] <= r[z]
  <2>1. R \in SUBSET Nat /\ R # {}
    BY DEF Cyclic
  <2>2. PICK m \in R : \A e \in R : m <= e
    <3> HIDE DEF R
    <3> QED BY <2>1, LeastNatural
  <2> QED
    BY <2>2
<1> DEFINE z == X[y].prev
<1>2. y \in M /\ y # h /\ ~(r[h] < r[y])
  BY <1>1
<1>3. z \in M /\ X[z].next = y /\ r[z] \in Nat /\ r[y] \in Nat /\ r[h] \in Nat
  BY <1>2 DEF Cyclic
<1>4. r[z] < r[y]
  BY <1>2, <1>3 DEF Cyclic
<1> HIDE DEF z
<1>5. z \in Bad
  BY <1>2, <1>3, <1>4
<1> QED
  BY <1>1, <1>3, <1>4, <1>5

\* The members keep their pointers.
Alike(M, X, Y) == \A x \in M : Y[x].next = X[x].next /\ Y[x].prev = X[x].prev

LEMMA CyclicAlike ==
  ASSUME NEW M, NEW X, NEW Y, NEW r, NEW q, NEW h, Cyclic(M, X, r, h),
         Alike(M, X, Y), \A x \in M : q[x] = r[x]
  PROVE  Cyclic(M, Y, q, h)
BY DEF Cyclic, Alike

LEMMA CyclicAlone ==
  ASSUME NEW X, NEW r, NEW h, X[h].next = h, X[h].prev = h, r[h] \in Nat
  PROVE  Cyclic({h}, X, r, h)
BY DEF Cyclic

\* The pointers Y have o between the last member and the head h.
Extended(M, X, Y, h, o) ==
  \A x \in M \cup {o} :
    /\ Y[x].next = IF x = o THEN h ELSE IF x = X[h].prev THEN o ELSE X[x].next
    /\ Y[x].prev = IF x = h THEN o ELSE IF x = o THEN X[h].prev ELSE X[x].prev

LEMMA ExtendedAlike ==
  ASSUME NEW M, NEW W, NEW X, NEW Y, NEW h, NEW o, Extended(M, W, Y, h, o),
         X[h].prev = W[h].prev, Alike(M, X, W)
  PROVE  Extended(M, X, Y, h, o)
BY DEF Extended, Alike

LEMMA CyclicExtended ==
  ASSUME NEW M, NEW X, NEW Y, NEW r, NEW q, NEW h, Cyclic(M, X, r, h),
         NEW o, o \notin M, Extended(M, X, Y, h, o), q[o] \in Nat,
         \A x \in M : q[x] = r[x] /\ q[x] < q[o]
  PROVE  Cyclic(M \cup {o}, Y, q, h)
<1> DEFINE last == X[h].prev
<1>1. h \in M /\ last \in M /\ X[last].next = h
  BY DEF Cyclic
<1>2. ASSUME NEW x \in M \cup {o}
      PROVE  /\ q[x] \in Nat
             /\ Y[x].next \in M \cup {o} /\ Y[Y[x].next].prev = x
             /\ Y[x].prev \in M \cup {o} /\ Y[Y[x].prev].next = x
             /\ Y[x].next = h \/ q[x] < q[Y[x].next]
  <2>1. CASE x = o
    BY <1>1, <2>1 DEF Extended
  <2>2. CASE x \in M
    <3>1. /\ q[x] \in Nat /\ X[x].next \in M /\ X[X[x].next].prev = x
          /\ X[x].prev \in M /\ X[X[x].prev].next = x
          /\ X[x].next = h \/ r[x] < r[X[x].next]
      BY <2>2 DEF Cyclic
    <3>2. /\ Y[x].next = IF x = last THEN o ELSE X[x].next
          /\ Y[x].prev = IF x = h THEN o ELSE X[x].prev
          /\ Y[o].next = h /\ Y[o].prev = last
      BY <1>1, <2>2 DEF Extended
    <3>3. Y[x].next \in M \cup {o} /\ Y[Y[x].next].prev = x
      BY <1>1, <2>2, <3>1, <3>2 DEF Extended
    <3>4. Y[x].prev \in M \cup {o} /\ Y[Y[x].prev].next = x
      BY <1>1, <2>2, <3>1, <3>2 DEF Extended
    <3>5. Y[x].next = h \/ q[x] < q[Y[x].next]
      BY <1>1, <2>2, <3>1, <3>2
    <3> QED
      BY <3>1, <3>3, <3>4, <3>5
  <2> QED
    BY <2>1, <2>2
<1> QED
  BY <1>1, <1>2 DEF Cyclic

\* The pointers Y lead past o.
Shortened(M, X, Y, o) ==
  \A x \in M \ {o} :
    /\ Y[x].next = IF x = X[o].prev THEN X[o].next ELSE X[x].next
    /\ Y[x].prev = IF x = X[o].next THEN X[o].prev ELSE X[x].prev

LEMMA CyclicShortened ==
  ASSUME NEW M, NEW X, NEW Y, NEW r, NEW h, Cyclic(M, X, r, h),
         NEW o \in M, X[o].next # o, Shortened(M, X, Y, o)
  PROVE  Cyclic(M \ {o}, Y, r, IF h = o THEN X[o].next ELSE h)
<1> DEFINE n == X[o].next
           p == X[o].prev
           g == IF h = o THEN n ELSE h
<1>1. /\ h \in M /\ n \in M /\ p \in M /\ n # o /\ p # o
      /\ X[n].prev = o /\ X[p].next = o /\ r[o] \in Nat /\ r[n] \in Nat
      /\ n = h \/ r[o] < r[n]
  BY DEF Cyclic
<1>2. ASSUME NEW x \in M \ {o}
      PROVE  /\ r[x] \in Nat
             /\ Y[x].next \in M \ {o} /\ Y[Y[x].next].prev = x
             /\ Y[x].prev \in M \ {o} /\ Y[Y[x].prev].next = x
             /\ Y[x].next = g \/ r[x] < r[Y[x].next]
  <2>1. /\ r[x] \in Nat /\ X[x].next \in M /\ X[X[x].next].prev = x
        /\ X[x].prev \in M /\ X[X[x].prev].next = x
        /\ X[x].next = h \/ r[x] < r[X[x].next]
    BY DEF Cyclic
  <2>2. /\ Y[x].next = IF x = p THEN n ELSE X[x].next
        /\ Y[x].prev = IF x = n THEN p ELSE X[x].prev
    BY DEF Shortened
  <2>3. Y[x].next \in M \ {o} /\ Y[Y[x].next].prev = x
    BY <1>1, <2>1, <2>2 DEF Shortened
  <2>4. Y[x].prev \in M \ {o} /\ Y[Y[x].prev].next = x
    BY <1>1, <2>1, <2>2 DEF Shortened
  <2>5. Y[x].next = g \/ r[x] < r[Y[x].next]
    BY <1>1, <2>1, <2>2
  <2> QED
    BY <2>1, <2>3, <2>4, <2>5
<1> QED
  BY <1>1, <1>2 DEF Cyclic

\* A member that is its own neighbour is the only one: of the others, the one of
\* the lowest rank has one of a lower rank before it.
LEMMA CyclicSingle ==
  ASSUME NEW M, NEW X, NEW r, NEW h, Cyclic(M, X, r, h), NEW o \in M, X[o].next = o
  PROVE  M = {o} /\ h = o
<1> DEFINE Rest == {y \in M : y # o}
           R    == {r[y] : y \in Rest}
<1>1. h = o /\ X[o].prev = o
  BY DEF Cyclic
<1>2. ASSUME Rest # {} PROVE FALSE
  <2>1. PICK y \in Rest : \A z \in Rest : r[y] <= r[z]
    <3>1. R \in SUBSET Nat /\ R # {}
      BY <1>2 DEF Cyclic
    <3>2. PICK m \in R : \A e \in R : m <= e
      <4> HIDE DEF R
      <4> QED BY <3>1, LeastNatural
    <3> QED
      BY <3>2
  <2> DEFINE z == X[y].prev
  <2>2. z \in M /\ X[z].next = y /\ r[z] \in Nat /\ r[y] \in Nat
    BY <2>1 DEF Cyclic
  <2>3. z # o /\ r[z] < r[y]
    BY <1>1, <2>1, <2>2 DEF Cyclic
  <2> HIDE DEF z
  <2> QED
    BY <2>1, <2>2, <2>3
<1> QED
  BY <1>1, <1>2

\* The members are among N blocks.
Within(M, N) == M \subseteq 0 .. (N - 1)

\* The members f meets from the head, of N + 1 with repetitions.
Walk(N, M, X, h, f) ==
  /\ f[0] = h
  /\ \A k \in 0 .. N : f[k] \in M
  /\ \A k \in 1 .. N : f[k] = X[f[k - 1]].next

LEMMA WalkStays ==
  ASSUME NEW N \in Nat, NEW M, NEW X, NEW r, NEW h, Cyclic(M, X, r, h),
         NEW nil, nil \notin M, NEW f, IsChain(f, N, nil, X, h)
  PROVE  Walk(N, M, X, h, f)
<1>1. \A x \in M : (IF x = nil THEN nil ELSE X[x].next) \in M
  BY DEF Cyclic
<1>2. h \in M
  BY DEF Cyclic
<1>3. \A k \in 0 .. N : f[k] \in M
  BY <1>1, <1>2, ChainStays
<1>4. /\ f[0] = h
      /\ \A k \in 1 .. N : f[k] = IF f[k - 1] = nil THEN nil ELSE X[f[k - 1]].next
  <2>1. \A k \in 1 .. N : k \in 0 .. N /\ k # 0
    OBVIOUS
  <2> QED BY <2>1 DEF IsChain
<1>5. \A k \in 1 .. N : f[k - 1] # nil
  <2>1. \A k \in 1 .. N : k - 1 \in 0 .. N
    OBVIOUS
  <2> QED BY <1>3, <2>1
<1> QED
  BY <1>3, <1>4, <1>5 DEF Walk

\* As long as the walk has not come back, the ranks it meets climb.
LEMMA WalkClimbs ==
  ASSUME NEW N \in Nat, NEW M, NEW X, NEW r, NEW h, Cyclic(M, X, r, h),
         NEW f, Walk(N, M, X, h, f),
         NEW m \in 0 .. N, \A k \in 1 .. m : f[k] # h
  PROVE  \A k \in 0 .. m : \A j \in 0 .. (k - 1) : r[f[j]] < r[f[k]]
<1> DEFINE K == {k \in 0 .. m : \A j \in 0 .. (k - 1) : r[f[j]] < r[f[k]]}
<1>1. m \in Nat
  OBVIOUS
<1>2. 0 \in K
  OBVIOUS
<1>3. ASSUME NEW k \in 0 .. (m - 1), k \in K PROVE k + 1 \in K
  <2>1. /\ k + 1 \in 1 .. N /\ k + 1 \in 1 .. m /\ (k + 1) - 1 = k
        /\ k \in 0 .. N
    BY <1>1
  <2>2. f[k] \in M /\ f[k + 1] = X[f[k]].next /\ f[k + 1] # h
    BY <2>1 DEF Walk
  <2>3. r[f[k]] < r[f[k + 1]]
    BY <2>2 DEF Cyclic
  <2>4. ASSUME NEW j \in 0 .. k PROVE r[f[j]] < r[f[k + 1]]
    <3>1. CASE j = k
      BY <2>3, <3>1
    <3>2. CASE j # k
      <4>1. j \in 0 .. (k - 1) /\ j \in 0 .. N /\ k + 1 \in 0 .. N
        BY <1>1, <2>1, <3>2
      <4>2. r[f[j]] < r[f[k]]
        BY <1>3, <4>1
      <4>3. \A i \in 0 .. N : r[f[i]] \in Nat
        BY DEF Walk, Cyclic
      <4> QED BY <2>1, <2>3, <4>1, <4>2, <4>3
    <3> QED BY <3>1, <3>2
  <2> QED BY <2>1, <2>4
<1> HIDE DEF K
<1>4. 0 .. m \subseteq K
  BY <1>1, <1>2, <1>3, IntervalInduction
<1> QED
  BY <1>4 DEF K

\* It comes back: there are not as many members as it would have met.
LEMMA WalkReturns ==
  ASSUME NEW N \in Nat, NEW M, Within(M, N), NEW X, NEW r, NEW h,
         Cyclic(M, X, r, h), NEW f, Walk(N, M, X, h, f)
  PROVE  \E n \in 1 .. N : f[n] = h
<1> SUFFICES ASSUME \A n \in 1 .. N : f[n] # h PROVE FALSE
  OBVIOUS
<1> DEFINE D == 0 .. N
           B == 0 .. (N - 1)
           g == [k \in D |-> f[k]]
<1>1. N \in 0 .. N
  OBVIOUS
<1>2. \A k \in D : \A j \in 0 .. (k - 1) : r[f[j]] < r[f[k]]
  BY <1>1, WalkClimbs
<1>3. \A k \in D : f[k] \in B /\ r[f[k]] \in Nat
  <2>1. M \subseteq B /\ \A x \in M : r[x] \in Nat
    BY DEF Within, Cyclic
  <2>2. \A k \in D : f[k] \in M
    BY DEF Walk
  <2> HIDE DEF B, D
  <2> QED BY <2>1, <2>2
<1>4. IsFiniteSet(D) /\ IsFiniteSet(B) /\ Cardinality(B) < Cardinality(D)
  <2>1. 0 \in Int /\ N \in Int /\ N - 1 \in Int
    OBVIOUS
  <2>2. IsFiniteSet(D) /\ Cardinality(D) = IF 0 > N THEN 0 ELSE N - 0 + 1
    BY <2>1, FS_Interval
  <2>3. /\ IsFiniteSet(B)
        /\ Cardinality(B) = IF 0 > N - 1 THEN 0 ELSE (N - 1) - 0 + 1
    BY <2>1, FS_Interval
  <2> QED BY <2>2, <2>3
<1>5. g \in [D -> B]
  BY <1>3
<1>6. \A j, k \in D : j < k => j \in 0 .. (k - 1)
  OBVIOUS
<1>7. \A j, k \in D : j = k \/ j < k \/ k < j
  OBVIOUS
<1> HIDE DEF g, D, B
<1>8. PICK x, y \in D : x # y /\ g[x] = g[y]
  BY <1>4, <1>5, FS_PigeonHole
<1>9. f[x] = f[y]
  BY <1>8 DEF g
<1>10. ASSUME NEW j \in D, NEW k \in D, j < k, f[j] = f[k] PROVE FALSE
  <2>1. r[f[j]] < r[f[k]] /\ r[f[k]] \in Nat
    BY <1>2, <1>3, <1>6, <1>10
  <2> QED BY <1>10, <2>1
<1> QED
  BY <1>7, <1>8, <1>9, <1>10

\* The walk f comes back after size steps. It has met every member by then, each
\* once, in the order of the ranks.
Round(N, M, X, r, h, f, size) ==
  /\ Walk(N, M, X, h, f) /\ size \in 1 .. N /\ f[size] = h
  /\ \A k \in 0 .. (size - 1) : \A j \in 0 .. (k - 1) : r[f[j]] < r[f[k]]
  /\ \A k \in 1 .. (size - 1) : f[k] # h
  /\ \A x \in M : \E k \in 0 .. (size - 1) : f[k] = x

LEMMA WalkRound ==
  ASSUME NEW N \in Nat, NEW M, Within(M, N), NEW X, NEW r, NEW h,
         Cyclic(M, X, r, h), NEW f, Walk(N, M, X, h, f),
         NEW size \in 1 .. N, f[size] = h, \A k \in 1 .. N : f[k] = h => size <= k
  PROVE  Round(N, M, X, r, h, f, size)
<1>1. size - 1 \in 0 .. N /\ size \in Nat
  OBVIOUS
<1>2. \A k \in 1 .. (size - 1) : f[k] # h
  <2> SUFFICES ASSUME NEW k \in 1 .. (size - 1), f[k] = h PROVE FALSE
    OBVIOUS
  <2>1. k \in 1 .. N /\ ~(size <= k)
    OBVIOUS
  <2> QED BY <2>1
<1>3. \A k \in 0 .. (size - 1) : \A j \in 0 .. (k - 1) : r[f[j]] < r[f[k]]
  BY <1>1, <1>2, WalkClimbs
<1>4. ASSUME NEW x \in M PROVE \E k \in 0 .. (size - 1) : f[k] = x
  <2> DEFINE Met == {f[k] : k \in 0 .. (size - 1)}
             Bad == {y \in M : y \notin Met}
             R   == {r[y] : y \in Bad}
  <2> SUFFICES ASSUME Bad # {} PROVE FALSE
    OBVIOUS
  <2>1. PICK y \in Bad : \A z \in Bad : r[y] <= r[z]
    <3>1. R \in SUBSET Nat /\ R # {}
      <4>1. \A y \in M : r[y] \in Nat
        BY DEF Cyclic
      <4> HIDE DEF Met
      <4> QED BY <4>1
    <3>2. PICK m \in R : \A e \in R : m <= e
      <4> HIDE DEF R
      <4> QED BY <3>1, LeastNatural
    <3> HIDE DEF Bad
    <3> QED
      BY <3>2
  <2> HIDE DEF R
  <2> DEFINE z == X[y].prev
  <2>2. y \in M /\ y \notin Met
    BY <2>1
  <2>3. f[0] = h /\ h \in Met
    BY <1>1 DEF Walk
  <2>4. z \in M /\ X[z].next = y /\ y # h
    BY <2>2, <2>3 DEF Cyclic
  <2>5. r[z] < r[y] /\ r[z] \in Nat /\ r[y] \in Nat
    BY <2>2, <2>4 DEF Cyclic
  <2> HIDE DEF z
  <2>6. z \in Met
    <3> HIDE DEF Met
    <3> QED BY <2>1, <2>4, <2>5
  <2>7. PICK k \in 0 .. (size - 1) : z = f[k]
    BY <2>6
  <2>8. k + 1 \in 1 .. N /\ (k + 1) - 1 = k
    BY <1>1
  <2>9. f[k + 1] = y
    BY <2>4, <2>7, <2>8 DEF Walk
  <2>10. k + 1 \in 0 .. (size - 1) \/ k + 1 = size
    BY <1>1, <2>8
  <2> QED
    BY <2>2, <2>3, <2>9, <2>10
<1> QED
  BY <1>2, <1>3, <1>4 DEF Round

\* Such a walk exists, and is as long as its least return.
LEMMA WalkAround ==
  ASSUME NEW N \in Nat, NEW M, Within(M, N), NEW X, NEW r, NEW h,
         Cyclic(M, X, r, h), NEW nil, nil \notin M, NEW f, IsChain(f, N, nil, X, h)
  PROVE  \E size \in 1 .. N : /\ Round(N, M, X, r, h, f, size)
                              /\ \A k \in 1 .. N : f[k] = h => size <= k
<1> DEFINE ends == {n \in 1 .. N : f[n] = h}
<1>1. Walk(N, M, X, h, f)
  BY WalkStays
<1>2. ends \in SUBSET Nat /\ ends # {}
  <2>1. \E n \in 1 .. N : f[n] = h
    BY <1>1, WalkReturns
  <2> QED BY <2>1
<1>3. PICK size \in ends : \A k \in ends : size <= k
  <2> HIDE DEF ends
  <2> QED BY <1>2, LeastNatural
<1>4. size \in 1 .. N /\ f[size] = h /\ \A k \in 1 .. N : f[k] = h => size <= k
  BY <1>3
<1>5. Round(N, M, X, r, h, f, size)
  BY <1>1, <1>4, WalkRound
<1> QED
  BY <1>4, <1>5

-----------------------------------------------------------------------------
(* The pool of blocks *)

\* A quotient and a remainder in range determine the remainder.
LEMMA ModUnique ==
  ASSUME NEW N \in Nat \ {0}, NEW q \in Int, NEW r \in 0 .. (N - 1),
         NEW a \in Nat, a = N * q + r
  PROVE  a % N = r
BY SMT

\* The cyclic search passes every block: from any start, each block is some
\* number of steps away, less than a full turn.
LEMMA EveryBlockProbed ==
  ASSUME NEW n \in Nat \ {0}, NEW start \in 0 .. (n - 1), NEW b \in 0 .. (n - 1)
  PROVE  \E d \in 0 .. (n - 1) : (start + d) % n = b
<1>1. CASE start <= b
  <2>1. b - start \in 0 .. (n - 1) /\ start + (b - start) = n * 0 + b
    BY <1>1
  <2>2. (start + (b - start)) % n = b
    BY <2>1, ModUnique
  <2> QED BY <2>1, <2>2
<1>2. CASE b < start
  <2>1. /\ b - start + n \in 0 .. (n - 1)
        /\ start + (b - start + n) = n * 1 + b
    BY <1>2
  <2>2. (start + (b - start + n)) % n = b
    BY <2>1, ModUnique
  <2> QED BY <2>1, <2>2
<1> QED BY <1>1, <1>2

Pools(n) == [size : {n}, free : [0 .. (n - 1) -> BOOLEAN], next : 0 .. (n - 1),
             failed : BOOLEAN]

\* What updateNextFreeIndex does to any pool: it ends on a free block, or it
\* fails and then there is none.
LEMMA SearchSpec ==
  ASSUME NEW n \in Nat \ {0}, NEW p \in Pools(n), ~p.failed
  PROVE  LET q == UpdateNextFreeIndex(p) IN
         /\ q \in Pools(n)
         /\ q.free = p.free
         /\ ~q.failed => q.free[q.next]
         /\ q.failed => \A b \in 0 .. (n - 1) : ~p.free[b]
<1> DEFINE probes == Probes(p)
<1>1. p.size = n /\ p.next \in 0 .. (n - 1)
  BY DEF Pools
<1>2. probes \subseteq 0 .. (n - 1)
  BY <1>1 DEF Probes
<1>3. CASE probes = {}
  <2>1. UpdateNextFreeIndex(p) = [p EXCEPT !.failed = TRUE]
    BY <1>3 DEF UpdateNextFreeIndex
  <2>2. ASSUME NEW b \in 0 .. (n - 1) PROVE ~p.free[b]
    <3>1. PICK d \in 0 .. (n - 1) : (p.next + d) % n = b
      BY <1>1, EveryBlockProbed
    <3>2. d \notin probes
      BY <1>3
    <3> QED BY <3>1, <3>2, <1>1 DEF Probes
  <2> QED BY <2>1, <2>2 DEF Pools
<1>4. CASE probes # {}
  <2> DEFINE d == CHOOSE d \in probes : \A e \in probes : d <= e
  <2>1. d \in probes
    <3>1. probes \in SUBSET Nat
      BY <1>2
    <3> HIDE DEF probes
    <3>2. \E k \in probes : \A e \in probes : k <= e
      BY <3>1, <1>4, LeastNatural
    <3> QED BY <3>2
  <2>2. UpdateNextFreeIndex(p)
          = [p EXCEPT !.next = (p.next + d) % p.size]
    BY <1>4 DEF UpdateNextFreeIndex
  <2> HIDE DEF d
  <2>3. d \in 0 .. (n - 1) /\ p.free[(p.next + d) % n]
    BY <2>1, <1>1 DEF Probes
  <2>4. (p.next + d) % n \in 0 .. (n - 1)
    BY <2>3, <1>1
  <2> QED BY <2>2, <2>3, <2>4, <1>1 DEF Pools
<1> QED BY <1>3, <1>4

\* allocate takes the next free block and has another one ready, or fails.
LEMMA AllocateSpec ==
  ASSUME NEW n \in Nat \ {0}, NEW p \in Pools(n), ~p.failed, p.free[p.next]
  PROVE  LET q == Allocate(p) IN
         /\ q \in Pools(n)
         /\ q.free = [p.free EXCEPT ![p.next] = FALSE]
         /\ ~q.failed => q.free[q.next]
         /\ q.failed => \A b \in 0 .. (n - 1) : ~q.free[b]
<1> DEFINE r == [p EXCEPT !.free[p.next] = FALSE]
<1>1. r \in Pools(n) /\ ~r.failed /\ r.free = [p.free EXCEPT ![p.next] = FALSE]
  BY DEF Pools
<1>2. Allocate(p) = UpdateNextFreeIndex(r)
  BY DEF Allocate
<1> HIDE DEF r
<1> QED
  BY <1>1, <1>2, SearchSpec

\* deallocate gives a block in use back, or fails.
LEMMA DeallocateSpec ==
  ASSUME NEW n \in Nat \ {0}, NEW p \in Pools(n), NEW b
  PROVE  LET q == Deallocate(p, b) IN
         /\ q \in Pools(n)
         /\ q.next = p.next
         /\ \A k \in 0 .. (n - 1) : p.free[k] => q.free[k]
         /\ ~q.failed => /\ b \in 0 .. (n - 1) /\ ~p.free[b]
                         /\ q.free = [p.free EXCEPT ![b] = TRUE]
         /\ q.failed => p.failed \/ b \notin 0 .. (n - 1) \/ p.free[b]
BY DEF Deallocate, Pools, Blocks

=============================================================================
