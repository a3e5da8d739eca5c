-------------------------- MODULE FreeSlotsProofs --------------------------
(***************************************************************************)
(* The passes over sorted intervals: the subtraction of bookings in        *)
(* free_slots and the test of _covers are exact, for any rows and any      *)
(* query.  Induction over a pass takes the place of its loop invariant.    *)
(***************************************************************************)
EXTENDS WallClockProofs, SequenceTheorems

-----------------------------------------------------------------------------
\* Sorting.

Pairs == Int \X Int
Ascending(s, n) == \A i, j \in 1 .. n : i < j => Before(s[i], s[j])

LEMMA BeforeOrders ==
    ASSUME NEW u \in Pairs, NEW v \in Pairs, NEW w \in Pairs
    PROVE  /\ ~ Before(u, u)
           /\ u # v => Before(u, v) \/ Before(v, u)
           /\ Before(u, v) /\ Before(v, w) => Before(u, w)
  BY DEF Pairs, Before

\* A finite set of intervals that is not empty has a last one.
LEMMA LastExists ==
    ASSUME NEW S \in SUBSET Pairs, IsFiniteSet(S), S # {}
    PROVE  \E m \in S : \A x \in S \ {m} : Before(x, m)
  <1> DEFINE HasLast(T) == \E m \in T : \A x \in T \ {m} : Before(x, m)
             Bad == {n \in Nat : \E T \in SUBSET Pairs :
                        IsFiniteSet(T) /\ Cardinality(T) = n /\ T # {} /\ ~ HasLast(T)}
  <1>1. SUFFICES ASSUME ~ HasLast(S) PROVE FALSE
    OBVIOUS
  <1>2. Cardinality(S) \in Bad
    BY <1>1, FS_CardinalityType
  <1>3. PICK n \in Bad : \A k \in Bad : n <= k
    <2> HIDE DEF Bad
    <2>1. Bad \subseteq Nat
      BY DEF Bad
    <2> QED
      BY <1>2, <2>1, LeastNumber
  <1>4. PICK T \in SUBSET Pairs :
             IsFiniteSet(T) /\ Cardinality(T) = n /\ T # {} /\ ~ HasLast(T)
    BY <1>3
  <1>5. PICK x \in T : TRUE
    BY <1>4
  <1> DEFINE R == T \ {x}
  <1>6. R \in SUBSET Pairs /\ IsFiniteSet(R) /\ Cardinality(R) = n - 1 /\ Cardinality(R) \in Nat
    BY <1>4, <1>5, FS_RemoveElement, FS_CardinalityType
  <1>7. Cardinality(R) \notin Bad
    BY <1>3, <1>6
  <1>8. CASE R = {}
    <2>1. HasLast(T)
      BY <1>5, <1>8
    <2> QED
      BY <1>4, <2>1
  <1>9. CASE R # {}
    <2>1. HasLast(R)
      BY <1>6, <1>7, <1>9
    <2>2. PICK m \in R : \A y \in R \ {m} : Before(y, m)
      BY <2>1
    <2>3. x \in Pairs /\ m \in Pairs /\ x # m
      BY <1>5, <1>6, <2>2
    <2>4. CASE Before(x, m)
      <3>1. \A y \in T \ {m} : Before(y, m)
        BY <2>2, <2>4
      <3> QED
        BY <1>4, <2>2, <3>1
    <2>5. CASE Before(m, x)
      <3>1. ASSUME NEW y \in T \ {x} PROVE Before(y, x)
        BY <2>2, <2>3, <2>5, BeforeOrders
      <3> QED
        BY <1>4, <1>5, <3>1
    <2> QED
      BY <2>3, <2>4, <2>5, BeforeOrders
  <1> QED
    BY <1>8, <1>9

\* A finite set of intervals can be sorted.
LEMMA SortExists ==
    ASSUME NEW S \in SUBSET Pairs, IsFiniteSet(S)
    PROVE  \E s \in [1 .. Cardinality(S) -> S] : Ascending(s, Cardinality(S))
  <1> DEFINE CanSort(T) == \E s \in [1 .. Cardinality(T) -> T] : Ascending(s, Cardinality(T))
             Bad == {n \in Nat : \E T \in SUBSET Pairs :
                        IsFiniteSet(T) /\ Cardinality(T) = n /\ ~ CanSort(T)}
  <1>1. SUFFICES ASSUME ~ CanSort(S) PROVE FALSE
    OBVIOUS
  <1>2. Cardinality(S) \in Bad
    BY <1>1, FS_CardinalityType
  <1>3. PICK n \in Bad : \A k \in Bad : n <= k
    <2> HIDE DEF Bad
    <2>1. Bad \subseteq Nat
      BY DEF Bad
    <2> QED
      BY <1>2, <2>1, LeastNumber
  <1>4. PICK T \in SUBSET Pairs : IsFiniteSet(T) /\ Cardinality(T) = n /\ ~ CanSort(T)
    BY <1>3
  <1>5. n \in Nat
    BY <1>3
  <1>6. CASE n = 0
    <2>1. [i \in 1 .. n |-> i] \in [1 .. n -> T] /\ Ascending([i \in 1 .. n |-> i], n)
      BY <1>6 DEF Ascending
    <2> QED
      BY <1>4, <2>1
  <1>7. CASE n # 0
    <2>1. T # {}
      BY <1>4, <1>7, FS_EmptySet
    <2>2. PICK m \in T : \A x \in T \ {m} : Before(x, m)
      BY <1>4, <2>1, LastExists
    <2> DEFINE R == T \ {m}
    <2>3. R \in SUBSET Pairs /\ IsFiniteSet(R) /\ Cardinality(R) = n - 1 /\ n - 1 \in Nat
      BY <1>4, <1>5, <1>7, <2>2, FS_RemoveElement
    <2>4. n - 1 \notin Bad
      BY <1>3, <1>5, <2>3
    <2>5. CanSort(R)
      BY <2>3, <2>4
    <2>6. PICK s \in [1 .. (n - 1) -> R] : Ascending(s, n - 1)
      BY <2>3, <2>5
    <2> DEFINE t == [i \in 1 .. n |-> IF i = n THEN m ELSE s[i]]
    <2>7. t \in [1 .. n -> T]
      <3>1. ASSUME NEW i \in 1 .. n, i # n PROVE s[i] \in T
        <4>1. i \in 1 .. (n - 1)
          BY <1>5, <3>1
        <4> QED
          BY <2>6, <4>1
      <3> QED
        BY <2>2, <3>1
    <2>8. Ascending(t, n)
      <3>1. ASSUME NEW i \in 1 .. n, NEW j \in 1 .. n, i < j
            PROVE  Before(t[i], t[j])
        <4>1. i \in 1 .. (n - 1)
          BY <1>5, <3>1
        <4>2. t[i] = s[i] /\ s[i] \in R
          BY <1>5, <2>6, <4>1
        <4>3. CASE j = n
          BY <2>2, <4>2, <4>3
        <4>4. CASE j # n
          <5>1. j \in 1 .. (n - 1)
            BY <1>5, <4>4
          <5> QED
            BY <2>6, <3>1, <4>1, <4>2, <4>4, <5>1 DEF Ascending
        <4> QED
          BY <4>3, <4>4
      <3> QED
        BY <3>1 DEF Ascending
    <2> QED
      BY <1>4, <2>7, <2>8
  <1> QED
    BY <1>6, <1>7

\* Sorted lists a finite set of intervals once each, in order.
LEMMA SortedLists ==
    ASSUME NEW S \in SUBSET Pairs, IsFiniteSet(S)
    PROVE  /\ Sorted(S) \in Seq(Pairs)
           /\ Ascending(Sorted(S), Len(Sorted(S)))
           /\ \A i \in 1 .. Len(Sorted(S)) : Sorted(S)[i] \in S
           /\ \A x \in S : \E i \in 1 .. Len(Sorted(S)) : Sorted(S)[i] = x
  <1> DEFINE n == Cardinality(S)
             s == Sorted(S)
  <1>1. n \in Nat
    BY FS_CardinalityType
  <1>2. s \in [1 .. n -> S] /\ Ascending(s, n)
    BY SortExists DEF Sorted, Ascending
  <1>3. s \in Seq(Pairs) /\ Len(s) = n
    BY <1>1, <1>2, IsASeq, LenProperties
  <1>4. IsInjective(s)
    <2>1. ASSUME NEW i \in 1 .. n, NEW j \in 1 .. n, s[i] = s[j], i # j
          PROVE  FALSE
      <3>1. s[i] \in Pairs /\ s[j] \in Pairs
        BY <1>2
      <3>2. i < j \/ j < i
        BY <2>1
      <3>3. Before(s[i], s[j]) \/ Before(s[j], s[i])
        BY <1>2, <3>2 DEF Ascending
      <3> QED
        BY <2>1, <3>1, <3>3, BeforeOrders
    <2> QED
      BY <1>2, <2>1 DEF IsInjective
  <1>5. s \in Injection(1 .. n, S)
    BY <1>2, <1>4 DEF Injection
  <1>6. Cardinality(1 .. n) = n
    BY <1>1, FS_Interval
  <1>7. s \in Surjection(1 .. n, S)
    BY <1>5, <1>6, FS_Injection
  <1> QED
    BY <1>2, <1>3, <1>7 DEF Surjection

-----------------------------------------------------------------------------
\* Passes.

\* Induction up to n.
LEMMA UpTo ==
    ASSUME NEW n \in Nat, NEW P, 0 \in P, \A i \in 1 .. n : i - 1 \in P => i \in P
    PROVE  \A i \in 0 .. n : i \in P
  <1> DEFINE Bad == {i \in 0 .. n : i \notin P}
  <1>1. SUFFICES ASSUME Bad # {} PROVE FALSE
    OBVIOUS
  <1>2. PICK k \in Bad : \A i \in Bad : k <= i
    <2>1. Bad \subseteq Nat
      OBVIOUS
    <2> QED
      BY <1>1, <2>1, LeastNumber
  <1>3. k \in 1 .. n
    <2>1. k \in 0 .. n /\ k # 0
      BY <1>2
    <2> QED
      BY <2>1
  <1>4. k - 1 \in P
    <2>1. k - 1 \in 0 .. n /\ ~ (k <= k - 1)
      BY <1>3
    <2>2. k - 1 \notin Bad
      <3> HIDE DEF Bad
      <3> QED
        BY <1>2, <2>1
    <2> QED
      BY <2>1, <2>2
  <1> QED
    BY <1>2, <1>3, <1>4

\* A pass of k steps from a base: step i takes the result before it to the next.
Pass(f, k, base, G) == f[0] = base /\ \A i \in 1 .. k : f[i] = G[<<i, f[i - 1]>>]

\* A pass exists, whatever a step does.
LEMMA PassExists ==
    ASSUME NEW n \in Nat, NEW X, NEW base \in X, NEW G \in [(1 .. n) \X X -> X]
    PROVE  \E f \in [0 .. n -> X] : Pass(f, n, base, G)
  <1> DEFINE P == {k \in 0 .. n : \E f \in [0 .. k -> X] : Pass(f, k, base, G)}
  <1>1. 0 \in P
    <2>1. PICK b \in [0 .. 0 -> X] : b[0] = base
      <3>1. [i \in 0 .. 0 |-> base] \in [0 .. 0 -> X] /\ [i \in 0 .. 0 |-> base][0] = base
        OBVIOUS
      <3> QED
        BY <3>1
    <2>2. \A i \in 1 .. 0 : FALSE
      OBVIOUS
    <2>3. Pass(b, 0, base, G)
      BY <2>1, <2>2 DEF Pass
    <2> QED
      BY <2>3
  <1>2. ASSUME NEW k \in 1 .. n, k - 1 \in P PROVE k \in P
    <2>1. PICK f \in [0 .. (k - 1) -> X] : Pass(f, k - 1, base, G)
      BY <1>2
    <2>2. f[k - 1] \in X /\ G[<<k, f[k - 1]>>] \in X
      BY <2>1
    <2>3. \A i \in 0 .. k : i # k => i \in 0 .. (k - 1)
      OBVIOUS
    <2> DEFINE h == [i \in 0 .. k |-> IF i = k THEN G[<<k, f[k - 1]>>] ELSE f[i]]
    <2>4. h \in [0 .. k -> X]
      BY <2>1, <2>2, <2>3
    <2>5. (\A i \in 0 .. k : i # k => h[i] = f[i]) /\ h[k] = G[<<k, f[k - 1]>>]
      OBVIOUS
    <2> HIDE DEF h
    <2>6. h[0] = base
      <3>1. 0 \in 0 .. k /\ 0 # k
        OBVIOUS
      <3> QED
        BY <2>1, <2>5, <3>1 DEF Pass
    <2>7. ASSUME NEW i \in 1 .. k PROVE h[i] = G[<<i, h[i - 1]>>]
      <3>1. i - 1 \in 0 .. k /\ i - 1 # k /\ i \in 0 .. k
        OBVIOUS
      <3>2. h[i - 1] = f[i - 1]
        BY <2>5, <3>1
      <3>3. CASE i = k
        BY <2>5, <3>2, <3>3
      <3>4. CASE i # k
        <4>1. i \in 1 .. (k - 1)
          BY <3>4
        <4> QED
          BY <2>1, <2>5, <3>1, <3>2, <3>4, <4>1 DEF Pass
      <3> QED
        BY <3>3, <3>4
    <2> QED
      BY <2>4, <2>6, <2>7 DEF Pass
  <1>3. \A i \in 1 .. n : i - 1 \in P => i \in P
    BY <1>2
  <1> HIDE DEF P
  <1>4. n \in P
    BY <1>1, <1>3, UpTo
  <1> QED
    BY <1>4 DEF P

-----------------------------------------------------------------------------
\* Sequences of intervals in order: none empty, none overlapping the next.

Holds(s, u) == \E k \in 1 .. Len(s) : s[k][1] <= u /\ u < s[k][2]
InOrder(s, lo, hi) ==
    /\ s \in Seq(Pairs)
    /\ \A k \in 1 .. Len(s) : lo <= s[k][1] /\ s[k][1] < s[k][2] /\ s[k][2] <= hi
    /\ \A k \in 1 .. Len(s) : k > 1 => s[k - 1][2] <= s[k][1]

LEMMA EmptyInOrder ==
    ASSUME NEW lo, NEW hi
    PROVE  InOrder(<<>>, lo, hi) /\ \A u : ~ Holds(<<>>, u)
  BY DEF InOrder, Holds

LEMMA MomentsOfSequence ==
    ASSUME NEW s \in Seq(Pairs), NEW u
    PROVE  u \in Moments(Range(s)) <=> u \in Int /\ Holds(s, u)
  <1>1. DOMAIN s = 1 .. Len(s)
    OBVIOUS
  <1>2. \A k \in 1 .. Len(s) : s[k][1] \in Int /\ s[k][2] \in Int
    BY DEF Pairs
  <1>3. u \in Moments(Range(s)) <=> \E k \in 1 .. Len(s) : u \in s[k][1] .. (s[k][2] - 1)
    BY <1>1 DEF Moments, Range
  <1>4. ASSUME NEW k \in 1 .. Len(s)
        PROVE  u \in s[k][1] .. (s[k][2] - 1) <=> u \in Int /\ s[k][1] <= u /\ u < s[k][2]
    BY <1>2
  <1> QED
    BY <1>3, <1>4 DEF Holds

LEMMA JoinInOrder ==
    ASSUME NEW lo \in Int, NEW mid \in Int, NEW next \in Int, NEW hi \in Int,
           lo <= mid, mid <= next, next <= hi,
           NEW s, NEW t, InOrder(s, lo, mid), InOrder(t, next, hi)
    PROVE  /\ InOrder(s \o t, lo, hi)
           /\ \A u : Holds(s \o t, u) <=> Holds(s, u) \/ Holds(t, u)
  <1> DEFINE n == Len(s)
             st == s \o t
  <1>1. s \in Seq(Pairs) /\ t \in Seq(Pairs) /\ n \in Nat /\ Len(t) \in Nat
    BY DEF InOrder
  <1>2. st \in Seq(Pairs) /\ Len(st) = n + Len(t)
    BY <1>1
  <1>3. \A k \in 1 .. n : k \in 1 .. Len(st) /\ st[k] = s[k]
    BY <1>1, <1>2
  <1>4. \A k \in 1 .. Len(t) : n + k \in 1 .. Len(st) /\ st[n + k] = t[k]
    BY <1>1, <1>2
  <1>5. ASSUME NEW k \in 1 .. Len(st), k > n
        PROVE  k - n \in 1 .. Len(t) /\ st[k] = t[k - n]
    <2>1. k - n \in 1 .. Len(t) /\ n + (k - n) = k
      BY <1>1, <1>2, <1>5
    <2> QED
      BY <1>4, <2>1
  <1> HIDE DEF st
  <1>6. \A k \in 1 .. Len(st) : st[k][1] \in Int /\ st[k][2] \in Int
    BY <1>2 DEF Pairs
  <1>7. ASSUME NEW k \in 1 .. Len(st)
        PROVE  lo <= st[k][1] /\ st[k][1] < st[k][2] /\ st[k][2] <= hi
    <2>1. CASE k <= n
      <3>1. k \in 1 .. n /\ st[k] = s[k]
        BY <1>1, <1>3, <2>1
      <3> QED
        BY <1>6, <3>1 DEF InOrder
    <2>2. CASE k > n
      <3>1. k - n \in 1 .. Len(t) /\ st[k] = t[k - n]
        BY <1>5, <2>2
      <3> QED
        BY <1>6, <3>1 DEF InOrder
    <2> QED
      BY <1>1, <2>1, <2>2
  <1>8. ASSUME NEW k \in 1 .. Len(st), k > 1
        PROVE  st[k - 1][2] <= st[k][1]
    <2>0. k - 1 \in 1 .. Len(st)
      BY <1>1, <1>2, <1>8
    <2>1. CASE k <= n
      <3>1. k \in 1 .. n /\ st[k] = s[k] /\ st[k - 1] = s[k - 1]
        BY <1>1, <1>3, <1>8, <2>1
      <3> QED
        BY <1>8, <3>1 DEF InOrder
    <2>2. CASE k = n + 1
      <3>0. k > n /\ k - n = 1 /\ k - 1 \in 1 .. n
        BY <1>1, <1>8, <2>0, <2>2
      <3>1. st[k] = t[1] /\ 1 \in 1 .. Len(t) /\ k - 1 \in 1 .. n /\ st[k - 1] = s[k - 1]
        BY <1>3, <1>5, <3>0
      <3>2. s[k - 1][2] <= mid /\ next <= t[1][1]
        BY <3>1 DEF InOrder
      <3> QED
        BY <1>6, <2>0, <3>1, <3>2
    <2>3. CASE k > n + 1
      <3>1. /\ k - n \in 1 .. Len(t) /\ st[k] = t[k - n]
            /\ (k - 1) - n \in 1 .. Len(t) /\ st[k - 1] = t[(k - 1) - n]
        <4>1. k > n /\ k - 1 > n
          BY <1>1, <2>3
        <4> QED
          BY <1>5, <2>0, <4>1
      <3>2. k - n > 1 /\ (k - n) - 1 = (k - 1) - n
        BY <1>1, <2>3
      <3> QED
        BY <3>1, <3>2 DEF InOrder
    <2> QED
      BY <1>1, <1>2, <2>1, <2>2, <2>3
  <1>9. ASSUME NEW u PROVE Holds(st, u) <=> Holds(s, u) \/ Holds(t, u)
    <2>1. Holds(s, u) \/ Holds(t, u) => Holds(st, u)
      BY <1>3, <1>4 DEF Holds
    <2>2. ASSUME Holds(st, u) PROVE Holds(s, u) \/ Holds(t, u)
      <3>1. PICK k \in 1 .. Len(st) : st[k][1] <= u /\ u < st[k][2]
        BY <2>2 DEF Holds
      <3>2. CASE k <= n
        <4>1. k \in 1 .. n /\ st[k] = s[k]
          BY <1>1, <1>3, <3>2
        <4> QED
          BY <3>1, <4>1 DEF Holds
      <3>3. CASE k > n
        BY <1>5, <3>1, <3>3 DEF Holds
      <3> QED
        BY <1>1, <3>2, <3>3
    <2> QED
      BY <2>1, <2>2
  <1> QED
    BY <1>2, <1>7, <1>8, <1>9 DEF InOrder, st

LEMMA OneInOrder ==
    ASSUME NEW lo \in Int, NEW hi \in Int, lo < hi
    PROVE  InOrder(<<<<lo, hi>>>>, lo, hi) /\ \A u : Holds(<<<<lo, hi>>>>, u) <=> lo <= u /\ u < hi
  <1> DEFINE s == <<<<lo, hi>>>>
  <1>1. s \in Seq(Pairs) /\ Len(s) = 1 /\ s[1] = <<lo, hi>>
    BY DEF Pairs
  <1>2. \A k \in 1 .. Len(s) : k = 1
    BY <1>1
  <1> HIDE DEF s
  <1>3. s[1][1] = lo /\ s[1][2] = hi
    BY <1>1
  <1>4. InOrder(s, lo, hi)
    BY <1>1, <1>2, <1>3 DEF InOrder
  <1>5. ASSUME NEW u PROVE Holds(s, u) <=> lo <= u /\ u < hi
    BY <1>1, <1>2, <1>3 DEF Holds
  <1> QED
    BY <1>4, <1>5 DEF s

LEMMA WidenInOrder ==
    ASSUME NEW lo \in Int, NEW hi \in Int, NEW wider \in Int, hi <= wider,
           NEW s, InOrder(s, lo, hi)
    PROVE  InOrder(s, lo, wider)
  <1>1. s \in Seq(Pairs)
    BY DEF InOrder
  <1>2. \A k \in 1 .. Len(s) : s[k][2] \in Int
    BY <1>1 DEF Pairs
  <1> QED
    BY <1>2 DEF InOrder

LEMMA AppendInOrder ==
    ASSUME NEW lo \in Int, NEW mid \in Int, NEW hi \in Int, lo <= mid, mid < hi,
           NEW s, InOrder(s, lo, mid)
    PROVE  /\ InOrder(Append(s, <<mid, hi>>), lo, hi)
           /\ \A u : Holds(Append(s, <<mid, hi>>), u) <=> Holds(s, u) \/ (mid <= u /\ u < hi)
  <1>1. s \in Seq(Pairs) /\ <<mid, hi>> \in Pairs
    BY DEF InOrder, Pairs
  <1>2. Append(s, <<mid, hi>>) = s \o <<<<mid, hi>>>>
    BY <1>1, AppendIsConcat
  <1>3. /\ InOrder(<<<<mid, hi>>>>, mid, hi)
        /\ \A u : Holds(<<<<mid, hi>>>>, u) <=> mid <= u /\ u < hi
    BY OneInOrder
  <1>4. mid <= mid /\ mid <= hi
    OBVIOUS
  <1>5. /\ InOrder(s \o <<<<mid, hi>>>>, lo, hi)
        /\ \A u : Holds(s \o <<<<mid, hi>>>>, u) <=> Holds(s, u) \/ Holds(<<<<mid, hi>>>>, u)
    BY <1>3, <1>4, JoinInOrder
  <1> QED
    BY <1>2, <1>3, <1>5

-----------------------------------------------------------------------------
\* One forward pass cuts the bookings out of an interval.

\* What the pass relies on: bookings are not empty and sorted by their start.
SortedByStart(busy) ==
    /\ busy \in Seq(Pairs)
    /\ \A i \in 1 .. Len(busy) : busy[i][1] < busy[i][2]
    /\ \A i, j \in 1 .. Len(busy) : i <= j => busy[i][1] <= busy[j][1]

HeldBy(s, n, u) == \E k \in 1 .. n : s[k][1] <= u /\ u < s[k][2]

\* After i bookings: up to the cursor the free intervals are exactly what those
\* bookings leave, past the cursor they leave everything, and every free interval
\* ends before the next booking starts.
Accumulators == [cursor : Int, free : Seq(Pairs)]
FreeUpTo(v, busy, i, acc) ==
    \A u \in Int : v[1] <= u /\ u < v[2] /\ u < acc.cursor =>
        (Holds(acc.free, u) <=> ~ HeldBy(busy, i, u))
FreePast(v, busy, i, acc) ==
    \A u \in Int : acc.cursor <= u /\ u < v[2] => ~ HeldBy(busy, i, u)
FreeBefore(busy, i, acc) ==
    \A u \in Int : Holds(acc.free, u) =>
        \A j \in 1 .. Len(busy) : i < j => u < busy[j][1]
CutInv(v, busy, i, acc) ==
    /\ acc \in Accumulators
    /\ v[1] <= acc.cursor
    /\ InOrder(acc.free, v[1], Earlier(acc.cursor, v[2]))
    /\ FreeUpTo(v, busy, i, acc)
    /\ FreePast(v, busy, i, acc)
    /\ FreeBefore(busy, i, acc)

LEMMA HeldByNext ==
    ASSUME NEW busy, NEW n \in Nat, NEW i \in 1 .. n, NEW u
    PROVE  HeldBy(busy, i, u) <=> HeldBy(busy, i - 1, u) \/ (busy[i][1] <= u /\ u < busy[i][2])
  <1>1. \A k : k \in 1 .. i <=> k \in 1 .. (i - 1) \/ k = i
    OBVIOUS
  <1> QED
    BY <1>1 DEF HeldBy

\* A free interval lies before the cursor and in the interval cut.
LEMMA HoldsWithin ==
    ASSUME NEW lo \in Int, NEW hi \in Int, NEW s, InOrder(s, lo, hi), NEW u \in Int, Holds(s, u)
    PROVE  lo <= u /\ u < hi
  <1>1. PICK k \in 1 .. Len(s) : s[k][1] <= u /\ u < s[k][2]
    BY DEF Holds
  <1>2. s[k][1] \in Int /\ s[k][2] \in Int /\ lo <= s[k][1] /\ s[k][2] <= hi
    BY DEF InOrder, Pairs
  <1> QED
    BY <1>1, <1>2

\* The three reasons to skip a booking.
LEMMA SkipKeeps ==
    ASSUME NEW v \in Pairs, NEW busy, SortedByStart(busy), NEW i \in 1 .. Len(busy),
           NEW acc, CutInv(v, busy, i - 1, acc),
           busy[i][2] <= acc.cursor \/ busy[i][1] >= v[2] \/ acc.cursor >= v[2]
    PROVE  CutInv(v, busy, i, acc)
  <1> DEFINE b == busy[i]
  <1>1. /\ v[1] \in Int /\ v[2] \in Int /\ b[1] \in Int /\ b[2] \in Int
        /\ acc.cursor \in Int /\ Len(busy) \in Nat /\ i \in Nat
    BY DEF Pairs, CutInv, Accumulators, SortedByStart
  <1>2. ASSUME NEW u \in Int
        PROVE  HeldBy(busy, i, u) <=> HeldBy(busy, i - 1, u) \/ (b[1] <= u /\ u < b[2])
    BY <1>1, HeldByNext
  <1>3. ASSUME NEW u \in Int, Holds(acc.free, u) PROVE u < b[1]
    BY <1>1, <1>3 DEF CutInv, FreeBefore
  <1>4. FreeUpTo(v, busy, i, acc)
    <2>1. SUFFICES ASSUME NEW u \in Int, v[1] <= u, u < v[2], u < acc.cursor
                   PROVE  Holds(acc.free, u) <=> ~ HeldBy(busy, i, u)
      BY DEF FreeUpTo
    <2>2. Holds(acc.free, u) <=> ~ HeldBy(busy, i - 1, u)
      BY <2>1 DEF CutInv, FreeUpTo
    <2> QED
      BY <1>1, <1>2, <1>3, <2>2
  <1>5. FreePast(v, busy, i, acc)
    <2>1. SUFFICES ASSUME NEW u \in Int, acc.cursor <= u, u < v[2]
                   PROVE  ~ HeldBy(busy, i, u)
      BY DEF FreePast
    <2>2. ~ HeldBy(busy, i - 1, u)
      BY <2>1 DEF CutInv, FreePast
    <2>3. ~ (b[1] <= u /\ u < b[2])
      BY <1>1, <2>1
    <2> QED
      BY <1>2, <2>2, <2>3
  <1>6. FreeBefore(busy, i, acc)
    <2>1. \A j \in 1 .. Len(busy) : i < j => i - 1 < j
      BY <1>1
    <2> QED
      BY <2>1 DEF CutInv, FreeBefore
  <1> QED
    BY <1>4, <1>5, <1>6 DEF CutInv

\* A booking that is not skipped.
LEMMA CutKeeps ==
    ASSUME NEW v \in Pairs, NEW busy, SortedByStart(busy), NEW i \in 1 .. Len(busy),
           NEW acc, CutInv(v, busy, i - 1, acc),
           acc.cursor < busy[i][2], busy[i][1] < v[2], acc.cursor < v[2]
    PROVE  CutInv(v, busy, i, CutOut(acc, busy[i], v[2]))
  <1> DEFINE b == busy[i]
             next == CutOut(acc, b, v[2])
  <1>1. /\ v[1] \in Int /\ v[2] \in Int /\ b[1] \in Int /\ b[2] \in Int /\ b[1] < b[2]
        /\ acc.cursor \in Int /\ Len(busy) \in Nat /\ i \in Nat /\ v[1] <= acc.cursor
    BY DEF Pairs, CutInv, Accumulators, SortedByStart
  <1>2. acc.free \in Seq(Pairs) /\ InOrder(acc.free, v[1], acc.cursor)
    BY <1>1 DEF CutInv, Accumulators, Earlier
  <1>3. /\ next.cursor = b[2]
        /\ next.free = IF b[1] > acc.cursor THEN Append(acc.free, <<acc.cursor, b[1]>>)
                                            ELSE acc.free
        /\ next = [cursor |-> next.cursor, free |-> next.free]
    <2>1. ~ (b[2] <= acc.cursor \/ b[1] >= v[2] \/ acc.cursor >= v[2]) /\ Later(acc.cursor, b[2]) = b[2]
      BY <1>1 DEF Later
    <2>2. next = [cursor |-> b[2],
                  free |-> IF b[1] > acc.cursor THEN Append(acc.free, <<acc.cursor, b[1]>>)
                                                ELSE acc.free]
      BY <2>1 DEF CutOut
    <2> HIDE DEF next
    <2> QED
      BY <2>2
  <1> HIDE DEF next
  <1>4. ASSUME NEW u \in Int
        PROVE  HeldBy(busy, i, u) <=> HeldBy(busy, i - 1, u) \/ (b[1] <= u /\ u < b[2])
    BY <1>1, HeldByNext
  <1>5. ASSUME NEW u \in Int, Holds(acc.free, u) PROVE v[1] <= u /\ u < acc.cursor /\ u < b[1]
    <2>1. v[1] <= u /\ u < acc.cursor
      BY <1>1, <1>2, <1>5, HoldsWithin
    <2>2. u < b[1]
      BY <1>1, <1>5 DEF CutInv, FreeBefore
    <2> QED
      BY <2>1, <2>2
  <1>6. /\ InOrder(next.free, v[1], Later(acc.cursor, b[1]))
        /\ \A u \in Int : Holds(next.free, u) <=>
               Holds(acc.free, u) \/ (acc.cursor <= u /\ u < b[1])
    <2>1. CASE b[1] > acc.cursor
      <3>1. next.free = Append(acc.free, <<acc.cursor, b[1]>>) /\ acc.cursor < b[1]
        BY <1>1, <1>3, <2>1
      <3>2. /\ InOrder(next.free, v[1], b[1])
            /\ \A u : Holds(next.free, u) <=> Holds(acc.free, u) \/ (acc.cursor <= u /\ u < b[1])
        <4>1. \A c \in Int : v[1] <= acc.cursor /\ acc.cursor < c =>
                 LET s == Append(acc.free, <<acc.cursor, c>>)
                 IN  /\ InOrder(s, v[1], c)
                     /\ \A u : Holds(s, u) <=> Holds(acc.free, u) \/ (acc.cursor <= u /\ u < c)
          BY <1>1, <1>2, AppendInOrder
        <4> QED
          BY <1>1, <3>1, <4>1
      <3> QED
        BY <1>1, <2>1, <3>2 DEF Later
    <2>2. CASE ~ (b[1] > acc.cursor)
      BY <1>1, <1>2, <1>3, <2>2 DEF Later
    <2> QED
      BY <2>1, <2>2
  <1>7. InOrder(next.free, v[1], Earlier(next.cursor, v[2]))
    <2>1. /\ Later(acc.cursor, b[1]) <= Earlier(b[2], v[2])
          /\ Later(acc.cursor, b[1]) \in Int /\ Earlier(b[2], v[2]) \in Int
      BY <1>1 DEF Later, Earlier
    <2> QED
      BY <1>1, <1>3, <1>6, <2>1, WidenInOrder
  <1>8. FreeUpTo(v, busy, i, next)
    <2>1. SUFFICES ASSUME NEW u \in Int, v[1] <= u, u < v[2], u < b[2]
                   PROVE  Holds(next.free, u) <=> ~ HeldBy(busy, i, u)
      BY <1>3 DEF FreeUpTo
    <2>2. CASE u < acc.cursor
      <3>1. Holds(acc.free, u) <=> ~ HeldBy(busy, i - 1, u)
        BY <2>1, <2>2 DEF CutInv, FreeUpTo
      <3> QED
        BY <1>1, <1>4, <1>5, <1>6, <2>2, <3>1
    <2>3. CASE acc.cursor <= u
      <3>1. ~ HeldBy(busy, i - 1, u) /\ ~ Holds(acc.free, u)
        BY <1>1, <1>5, <2>1, <2>3 DEF CutInv, FreePast
      <3> QED
        BY <1>1, <1>4, <1>6, <2>1, <2>3, <3>1
    <2> QED
      BY <1>1, <2>2, <2>3
  <1>9. FreePast(v, busy, i, next)
    <2>1. SUFFICES ASSUME NEW u \in Int, b[2] <= u, u < v[2]
                   PROVE  ~ HeldBy(busy, i, u)
      BY <1>3 DEF FreePast
    <2>2. acc.cursor <= u
      BY <1>1, <2>1
    <2>3. ~ HeldBy(busy, i - 1, u)
      BY <2>1, <2>2 DEF CutInv, FreePast
    <2> QED
      BY <1>1, <1>4, <2>1, <2>3
  <1>10. FreeBefore(busy, i, next)
    <2>1. SUFFICES ASSUME NEW u \in Int, Holds(next.free, u), NEW j \in 1 .. Len(busy), i < j
                   PROVE  u < busy[j][1]
      BY DEF FreeBefore
    <2>2. b[1] <= busy[j][1] /\ busy[j][1] \in Int
      <3>1. i <= j
        BY <1>1, <2>1
      <3>2. busy \in Seq(Pairs)
        BY DEF SortedByStart
      <3>3. busy[j][1] \in Int
        BY <3>2 DEF Pairs
      <3>4. b[1] <= busy[j][1]
        BY <3>1 DEF SortedByStart
      <3> QED
        BY <3>3, <3>4
    <2>3. u < b[1]
      BY <1>5, <1>6, <2>1
    <2> QED
      BY <1>1, <2>2, <2>3
  <1>11. next \in Accumulators /\ v[1] <= next.cursor
    <2>1. next.free \in Seq(Pairs)
      BY <1>6 DEF InOrder
    <2>2. next.cursor \in Int /\ v[1] <= next.cursor
      BY <1>1, <1>3
    <2> QED
      BY <1>3, <2>1, <2>2 DEF Accumulators
  <1> QED
    BY <1>7, <1>8, <1>9, <1>10, <1>11 DEF CutInv, next

LEMMA CutStep ==
    ASSUME NEW v \in Pairs, NEW busy, SortedByStart(busy), NEW i \in 1 .. Len(busy),
           NEW acc, CutInv(v, busy, i - 1, acc)
    PROVE  CutInv(v, busy, i, CutOut(acc, busy[i], v[2]))
  <1>1. /\ v[1] \in Int /\ v[2] \in Int /\ busy[i][1] \in Int /\ busy[i][2] \in Int
        /\ acc.cursor \in Int
    BY DEF Pairs, CutInv, Accumulators, SortedByStart
  <1>2. CASE busy[i][2] <= acc.cursor \/ busy[i][1] >= v[2] \/ acc.cursor >= v[2]
    <2>1. CutOut(acc, busy[i], v[2]) = acc
      BY <1>2 DEF CutOut
    <2> QED
      BY <1>2, <2>1, SkipKeeps
  <1>3. CASE ~ (busy[i][2] <= acc.cursor \/ busy[i][1] >= v[2] \/ acc.cursor >= v[2])
    <2>1. acc.cursor < busy[i][2] /\ busy[i][1] < v[2] /\ acc.cursor < v[2]
      BY <1>1, <1>3
    <2> QED
      BY <2>1, CutKeeps
  <1> QED
    BY <1>2, <1>3

\* What is left of an interval: in order, inside it, and exactly its instants that
\* no booking holds.
LEMMA RemainderExact ==
    ASSUME NEW v \in Pairs, NEW busy, SortedByStart(busy)
    PROVE  /\ InOrder(Remainder(v, busy), v[1], v[2])
           /\ \A u \in Int : Holds(Remainder(v, busy), u) <=>
                  v[1] <= u /\ u < v[2] /\ ~ Holds(busy, u)
  <1> DEFINE n == Len(busy)
             base == [cursor |-> v[1], free |-> <<>>]
             Step(f) == [i \in 0 .. n |-> IF i = 0 THEN base ELSE CutOut(f[i - 1], busy[i], v[2])]
             cut == CHOOSE f : f = Step(f)
             last == cut[n]
  <1>1. /\ n \in Nat /\ v[1] \in Int /\ v[2] \in Int
        /\ \A i \in 1 .. n : busy[i] \in Pairs /\ busy[i][1] \in Int /\ busy[i][2] \in Int
    BY DEF Pairs, SortedByStart
  <1>2. base \in Accumulators
    <2>1. <<>> \in Seq(Pairs)
      OBVIOUS
    <2> QED
      BY <1>1, <2>1 DEF Accumulators
  <1>3. ASSUME NEW acc \in Accumulators, NEW i \in 1 .. n
        PROVE  CutOut(acc, busy[i], v[2]) \in Accumulators
    <2>1. acc.cursor \in Int /\ acc.free \in Seq(Pairs)
      BY DEF Accumulators
    <2>2. Append(acc.free, <<acc.cursor, busy[i][1]>>) \in Seq(Pairs)
      <3>1. <<acc.cursor, busy[i][1]>> \in Pairs
        BY <1>1, <2>1 DEF Pairs
      <3> QED
        BY <2>1, <3>1
    <2>3. Later(acc.cursor, busy[i][2]) \in Int
      BY <1>1, <2>1 DEF Later
    <2> QED
      BY <2>1, <2>2, <2>3 DEF CutOut, Accumulators
  <1>4. \E f : f = Step(f)
    <2> DEFINE G == [p \in (1 .. n) \X Accumulators |-> CutOut(p[2], busy[p[1]], v[2])]
    <2>1. G \in [(1 .. n) \X Accumulators -> Accumulators]
      BY <1>3
    <2>2. \A i \in 1 .. n, acc \in Accumulators : G[<<i, acc>>] = CutOut(acc, busy[i], v[2])
      OBVIOUS
    <2> HIDE DEF G
    <2>3. PICK f \in [0 .. n -> Accumulators] : Pass(f, n, base, G)
      BY <1>1, <1>2, <2>1, PassExists
    <2>4. ASSUME NEW i \in 0 .. n PROVE f[i] = Step(f)[i]
      <3>1. CASE i = 0
        BY <2>3, <3>1 DEF Pass
      <3>2. CASE i # 0
        <4>1. i \in 1 .. n /\ i - 1 \in 0 .. n
          BY <1>1, <3>2
        <4>2. f[i] = G[<<i, f[i - 1]>>] /\ f[i - 1] \in Accumulators
          BY <2>3, <4>1 DEF Pass
        <4> QED
          BY <2>2, <3>2, <4>1, <4>2
      <3> QED
        BY <3>1, <3>2
    <2>5. f = Step(f)
      BY <2>3, <2>4
    <2> QED
      BY <2>5
  <1>5. cut = Step(cut)
    BY <1>4
  <1>6. Remainder(v, busy) = IF last.cursor < v[2] THEN Append(last.free, <<last.cursor, v[2]>>)
                                                  ELSE last.free
    BY DEF Remainder
  <1> HIDE DEF cut
  <1>7. cut[0] = base /\ \A i \in 1 .. n : cut[i] = CutOut(cut[i - 1], busy[i], v[2])
    <2>1. 0 \in 0 .. n /\ \A i \in 1 .. n : i \in 0 .. n /\ i # 0
      BY <1>1
    <2> QED
      BY <1>5, <2>1
  <1>8. CutInv(v, busy, 0, cut[0])
    <2>1. InOrder(base.free, v[1], Earlier(base.cursor, v[2])) /\ \A u : ~ Holds(base.free, u)
      BY EmptyInOrder
    <2>2. \A u : ~ HeldBy(busy, 0, u)
      BY DEF HeldBy
    <2>3. base.cursor = v[1]
      OBVIOUS
    <2> HIDE DEF base
    <2>4. FreeUpTo(v, busy, 0, base) /\ FreePast(v, busy, 0, base) /\ FreeBefore(busy, 0, base)
      BY <1>1, <2>1, <2>2, <2>3 DEF FreeUpTo, FreePast, FreeBefore
    <2> QED
      BY <1>1, <1>2, <1>7, <2>1, <2>3, <2>4 DEF CutInv
  <1> DEFINE P == {i \in 0 .. n : CutInv(v, busy, i, cut[i])}
  <1>9. 0 \in P
    BY <1>1, <1>8
  <1>10. ASSUME NEW i \in 1 .. n, i - 1 \in P PROVE i \in P
    <2>1. CutInv(v, busy, i - 1, cut[i - 1]) /\ i \in 0 .. n
      BY <1>1, <1>10
    <2> QED
      BY <1>7, <2>1, CutStep
  <1>11. n \in P
    <2>1. \A i \in 1 .. n : i - 1 \in P => i \in P
      BY <1>10
    <2> HIDE DEF P
    <2>2. \A i \in 0 .. n : i \in P
      BY <1>1, <1>9, <2>1, UpTo
    <2>3. n \in 0 .. n
      BY <1>1
    <2> QED
      BY <2>2, <2>3
  <1>12. CutInv(v, busy, n, last)
    BY <1>11
  <1> HIDE DEF P, last
  <1>13. last.cursor \in Int /\ last.free \in Seq(Pairs) /\ v[1] <= last.cursor
    BY <1>12 DEF CutInv, Accumulators
  <1>14. \A u : HeldBy(busy, n, u) <=> Holds(busy, u)
    BY DEF HeldBy, Holds
  <1>15. CASE last.cursor < v[2]
    <2>1. InOrder(last.free, v[1], last.cursor)
      BY <1>1, <1>12, <1>13, <1>15 DEF CutInv, Earlier
    <2>2. /\ InOrder(Remainder(v, busy), v[1], v[2])
          /\ \A u : Holds(Remainder(v, busy), u) <=>
                 Holds(last.free, u) \/ (last.cursor <= u /\ u < v[2])
      BY <1>1, <1>6, <1>13, <1>15, <2>1, AppendInOrder
    <2>3. ASSUME NEW u \in Int
          PROVE  Holds(Remainder(v, busy), u) <=> v[1] <= u /\ u < v[2] /\ ~ HeldBy(busy, n, u)
      <3>1. Holds(last.free, u) => v[1] <= u /\ u < last.cursor
        BY <1>1, <1>13, <2>1, HoldsWithin
      <3>2. CASE u < last.cursor
        BY <1>1, <1>12, <1>13, <1>15, <2>2, <3>1, <3>2 DEF CutInv, FreeUpTo
      <3>3. CASE last.cursor <= u
        BY <1>1, <1>12, <1>13, <1>15, <2>2, <3>1, <3>3 DEF CutInv, FreePast
      <3> QED
        BY <1>13, <3>2, <3>3
    <2> QED
      BY <1>14, <2>2, <2>3
  <1>16. CASE ~ (last.cursor < v[2])
    <2>1. InOrder(last.free, v[1], v[2]) /\ Remainder(v, busy) = last.free
      BY <1>1, <1>6, <1>12, <1>13, <1>16 DEF CutInv, Earlier
    <2>2. ASSUME NEW u \in Int
          PROVE  Holds(last.free, u) <=> v[1] <= u /\ u < v[2] /\ ~ HeldBy(busy, n, u)
      <3>1. Holds(last.free, u) => v[1] <= u /\ u < v[2]
        BY <1>1, <2>1, HoldsWithin
      <3>2. v[1] <= u /\ u < v[2] => (Holds(last.free, u) <=> ~ HeldBy(busy, n, u))
        BY <1>1, <1>12, <1>13, <1>16 DEF CutInv, FreeUpTo
      <3> QED
        BY <3>1, <3>2
    <2> QED
      BY <1>14, <2>1, <2>2
  <1> QED
    BY <1>15, <1>16

\* Cutting the bookings out of intervals in order leaves intervals in order, and
\* exactly the instants of the first that no booking holds.
LEMMA SubtractExact ==
    ASSUME NEW lo \in Int, NEW hi \in Int, lo <= hi,
           NEW intervals, InOrder(intervals, lo, hi), NEW busy, SortedByStart(busy)
    PROVE  /\ InOrder(Subtract(intervals, busy), lo, hi)
           /\ \A u \in Int : Holds(Subtract(intervals, busy), u) <=>
                  Holds(intervals, u) /\ ~ Holds(busy, u)
  <1> DEFINE n == Len(intervals)
             Step(f) == [i \in 0 .. n |-> IF i = 0 THEN <<>>
                                          ELSE f[i - 1] \o Remainder(intervals[i], busy)]
             free == CHOOSE f : f = Step(f)
             done(i) == IF i = 0 THEN lo ELSE intervals[i][2]
  <1>1. /\ n \in Nat
        /\ \A i \in 1 .. n : /\ intervals[i] \in Pairs
                             /\ intervals[i][1] \in Int /\ intervals[i][2] \in Int
    BY DEF Pairs, InOrder
  <1>2. \A i \in 1 .. n : Remainder(intervals[i], busy) \in Seq(Pairs)
    BY <1>1, RemainderExact DEF InOrder
  <1>3. \E f : f = Step(f)
    <2> DEFINE G == [p \in (1 .. n) \X Seq(Pairs) |-> p[2] \o Remainder(intervals[p[1]], busy)]
    <2>1. G \in [(1 .. n) \X Seq(Pairs) -> Seq(Pairs)]
      BY <1>2
    <2>2. \A i \in 1 .. n, s \in Seq(Pairs) : G[<<i, s>>] = s \o Remainder(intervals[i], busy)
      OBVIOUS
    <2>3. <<>> \in Seq(Pairs)
      OBVIOUS
    <2> HIDE DEF G
    <2>4. PICK f \in [0 .. n -> Seq(Pairs)] : Pass(f, n, <<>>, G)
      BY <1>1, <2>1, <2>3, PassExists
    <2>5. ASSUME NEW i \in 0 .. n PROVE f[i] = Step(f)[i]
      <3>1. CASE i = 0
        BY <2>4, <3>1 DEF Pass
      <3>2. CASE i # 0
        <4>1. i \in 1 .. n /\ i - 1 \in 0 .. n
          BY <1>1, <3>2
        <4>2. f[i] = G[<<i, f[i - 1]>>] /\ f[i - 1] \in Seq(Pairs)
          BY <2>4, <4>1 DEF Pass
        <4> QED
          BY <2>2, <3>2, <4>1, <4>2
      <3> QED
        BY <3>1, <3>2
    <2>6. f = Step(f)
      BY <2>4, <2>5
    <2> QED
      BY <2>6
  <1>4. free = Step(free)
    BY <1>3
  <1>5. Subtract(intervals, busy) = free[n]
    BY DEF Subtract
  <1> HIDE DEF free
  <1>6. free[0] = <<>> /\ \A i \in 1 .. n : free[i] = free[i - 1] \o Remainder(intervals[i], busy)
    <2>1. 0 \in 0 .. n /\ \A i \in 1 .. n : i \in 0 .. n /\ i # 0
      BY <1>1
    <2> QED
      BY <1>4, <2>1
  <1> DEFINE P == {i \in 0 .. n :
                     /\ InOrder(free[i], lo, done(i))
                     /\ \A u \in Int : Holds(free[i], u) <=> HeldBy(intervals, i, u) /\ ~ Holds(busy, u)}
  <1>7. 0 \in P
    <2>1. InOrder(free[0], lo, lo) /\ \A u : ~ Holds(free[0], u)
      BY <1>6, EmptyInOrder
    <2>2. \A u : ~ HeldBy(intervals, 0, u)
      BY DEF HeldBy
    <2> QED
      BY <1>1, <2>1, <2>2
  <1>8. ASSUME NEW i \in 1 .. n, i - 1 \in P PROVE i \in P
    <2> DEFINE v == intervals[i]
               rest == Remainder(v, busy)
               mid == done(i - 1)
    <2>1. v \in Pairs /\ v[1] \in Int /\ v[2] \in Int /\ v[1] < v[2] /\ v[2] <= hi /\ lo <= v[1]
      BY <1>1 DEF InOrder
    <2>2. mid \in Int /\ lo <= mid /\ mid <= v[1]
      <3>1. CASE i = 1
        BY <2>1, <3>1
      <3>2. CASE i # 1
        <4>1. i - 1 \in 1 .. n /\ i > 1 /\ i - 1 # 0
          BY <1>1, <3>2
        <4>2. mid = intervals[i - 1][2]
          BY <4>1
        <4>3. /\ intervals[i - 1][1] \in Int /\ intervals[i - 1][2] \in Int
              /\ lo <= intervals[i - 1][1] /\ intervals[i - 1][1] < intervals[i - 1][2]
              /\ intervals[i - 1][2] <= v[1]
          BY <1>1, <4>1 DEF InOrder
        <4> QED
          BY <4>2, <4>3
      <3> QED
        BY <3>1, <3>2
    <2>3. /\ InOrder(free[i - 1], lo, mid)
          /\ \A u \in Int : Holds(free[i - 1], u) <=> HeldBy(intervals, i - 1, u) /\ ~ Holds(busy, u)
      BY <1>8
    <2>4. /\ InOrder(rest, v[1], v[2])
          /\ \A u \in Int : Holds(rest, u) <=> v[1] <= u /\ u < v[2] /\ ~ Holds(busy, u)
      BY <2>1, RemainderExact
    <2> HIDE DEF mid, rest
    <2>5. free[i] = free[i - 1] \o rest
      BY <1>6 DEF rest
    <2>6. /\ InOrder(free[i - 1] \o rest, lo, v[2])
          /\ \A u : Holds(free[i - 1] \o rest, u) <=> Holds(free[i - 1], u) \/ Holds(rest, u)
      <3>1. v[1] <= v[2]
        BY <2>1
      <3> HIDE DEF v
      <3> QED
        BY <2>1, <2>2, <2>3, <2>4, <3>1, JoinInOrder
    <2>7. \A u : HeldBy(intervals, i, u) <=> HeldBy(intervals, i - 1, u) \/ (v[1] <= u /\ u < v[2])
      BY <1>1, HeldByNext
    <2>8. i \in 0 .. n /\ done(i) = v[2]
      BY <1>1
    <2>9. \A u \in Int : Holds(free[i], u) <=> HeldBy(intervals, i, u) /\ ~ Holds(busy, u)
      BY <2>3, <2>4, <2>5, <2>6, <2>7
    <2> QED
      BY <2>5, <2>6, <2>8, <2>9
  <1>9. n \in P
    <2>1. \A i \in 1 .. n : i - 1 \in P => i \in P
      BY <1>8
    <2> HIDE DEF P
    <2>2. \A i \in 0 .. n : i \in P
      BY <1>1, <1>7, <2>1, UpTo
    <2>3. n \in 0 .. n
      BY <1>1
    <2> QED
      BY <2>2, <2>3
  <1>10. InOrder(free[n], lo, done(n))
    BY <1>9
  <1>11. done(n) \in Int /\ done(n) <= hi
    <2>1. CASE n = 0
      BY <2>1
    <2>2. CASE n # 0
      <3>1. n \in 1 .. n
        BY <1>1, <2>2
      <3> QED
        BY <1>1, <2>2, <3>1 DEF InOrder
    <2> QED
      BY <2>1, <2>2
  <1>12. InOrder(free[n], lo, hi)
    <2> HIDE DEF done
    <2> QED
      BY <1>10, <1>11, WidenInOrder
  <1>13. \A u \in Int : Holds(free[n], u) <=> HeldBy(intervals, n, u) /\ ~ Holds(busy, u)
    BY <1>9
  <1>14. \A u : HeldBy(intervals, n, u) <=> Holds(intervals, u)
    BY DEF HeldBy, Holds
  <1> QED
    BY <1>5, <1>12, <1>13, <1>14

-----------------------------------------------------------------------------
\* What is available comes in order.

LEMMA WindowsApart ==
    ASSUME TypeOK, RulesApart, NEW d \in Dates,
           NEW v \in WindowsOn(d), NEW w \in WindowsOn(d), Overlap(v, w)
    PROVE  v = w
  <1>1. exceptions[d] \in Windows \cup {DayOff, NoException}
    BY DEF TypeOK
  <1>2. CASE exceptions[d] = NoException
    <2>1. WindowsOn(d) = {r.window : r \in {q \in rules : q.weekday = Weekday(d)}}
      BY <1>2, MarkersAssumption DEF WindowsOn
    <2>2. PICK q \in rules : q.weekday = Weekday(d) /\ v = q.window
      BY <2>1
    <2>3. PICK r \in rules : r.weekday = Weekday(d) /\ w = r.window
      BY <2>1
    <2> QED
      BY <2>2, <2>3 DEF RulesApart
  <1>3. CASE exceptions[d] = DayOff
    BY <1>3, MarkersAssumption DEF WindowsOn
  <1>4. CASE exceptions[d] \in Windows
    BY <1>4, MarkersAssumption DEF WindowsOn
  <1> QED
    BY <1>1, <1>2, <1>3, <1>4

\* Two available intervals that share an instant are the same: on that instant the
\* wall clock has reached one date, and one window of it.
LEMMA AvailableApart ==
    ASSUME TypeOK, RulesApart, NEW start \in Points, NEW end \in Points,
           NEW v \in Available(start, end), NEW w \in Available(start, end), Overlap(v, w)
    PROVE  v = w
  <1>1. timezone \in Zone /\ start \in Int /\ end \in Int
    BY CalendarAssumption, ZonesAssumption DEF TypeOK
  <1>2. /\ v[1] \in Int /\ v[2] \in Int /\ v[1] < v[2]
        /\ w[1] \in Int /\ w[2] \in Int /\ w[1] < w[2]
    BY AvailableIsOffered
  <1> DEFINE u == Later(v[1], w[1])
  <1>3. u \in Int /\ v[1] <= u /\ u < v[2] /\ w[1] <= u /\ u < w[2]
    BY <1>2 DEF Later, Overlap
  <1> HIDE DEF u
  <1>4. ASSUME NEW x \in Available(start, end), x[1] <= u, u < x[2]
        PROVE  \E d \in Dates : \E y \in WindowsOn(d) :
                  /\ x = Clip(UtcWindow(d, y), start, end)
                  /\ DateOf(Reached(timezone, u)) = d /\ Within(Reached(timezone, u), y)
    <2>1. PICK d \in DatesBetween(start, end) :
              \E y \in WindowsOn(d) : x = Clip(UtcWindow(d, y), start, end)
      BY AvailableFrom
    <2>2. PICK y \in WindowsOn(d) : x = Clip(UtcWindow(d, y), start, end)
      BY <2>1
    <2>3. d \in Dates /\ d \in Int /\ y \in Windows
      BY DatesInReach, WindowsInForce, CalendarAssumption
    <2>4. /\ UtcWindow(d, y)[1] \in Int /\ UtcWindow(d, y)[2] \in Int
          /\ UtcWindow(d, y) = <<UtcWindow(d, y)[1], UtcWindow(d, y)[2]>>
      BY <1>1, <2>3, UtcWindowExact DEF UtcWindow
    <2>5. UtcWindow(d, y)[1] <= u /\ u < UtcWindow(d, y)[2]
      BY <1>1, <1>3, <1>4, <2>2, <2>4, ClipExact
    <2>6. DateOf(Reached(timezone, u)) = d /\ Within(Reached(timezone, u), y)
      BY <1>1, <1>3, <2>3, <2>5, UtcWindowExact
    <2> QED
      BY <2>2, <2>3, <2>6
  <1> DEFINE d == DateOf(Reached(timezone, u))
  <1>5. d \in Dates
    BY <1>3, <1>4
  <1>6. PICK y \in WindowsOn(d) :
            v = Clip(UtcWindow(d, y), start, end) /\ Within(Reached(timezone, u), y)
    BY <1>3, <1>4
  <1>7. PICK z \in WindowsOn(d) :
            w = Clip(UtcWindow(d, z), start, end) /\ Within(Reached(timezone, u), z)
    BY <1>3, <1>4
  <1>8. y \in Windows /\ z \in Windows
    BY <1>5, WindowsInForce
  <1>9. Overlap(y, z)
    <2>1. y[1] \in Int /\ y[2] \in Int /\ z[1] \in Int /\ z[2] \in Int
      <3>1. Times \subseteq Int
        BY CalendarAssumption
      <3> QED
        BY <1>8, <3>1 DEF Windows
    <2>2. TimeOf(Reached(timezone, u)) \in Int
      BY <1>1, <1>3, ReachedType, DateAndTime, CalendarAssumption
    <2> QED
      BY <1>6, <1>7, <2>1, <2>2 DEF Within, Overlap
  <1>10. y = z
    BY <1>5, <1>9, WindowsApart
  <1> QED
    BY <1>6, <1>7, <1>10

\* Sorting intervals that are not empty and pairwise apart puts them in order.
LEMMA SortedInOrder ==
    ASSUME NEW lo \in Int, NEW hi \in Int, NEW S \in SUBSET Pairs, IsFiniteSet(S),
           \A v \in S : lo <= v[1] /\ v[1] < v[2] /\ v[2] <= hi,
           \A v, w \in S : Overlap(v, w) => v = w
    PROVE  /\ InOrder(Sorted(S), lo, hi)
           /\ \A u : Holds(Sorted(S), u) <=> \E v \in S : v[1] <= u /\ u < v[2]
  <1> DEFINE s == Sorted(S)
  <1>1. /\ s \in Seq(Pairs) /\ Ascending(s, Len(s))
        /\ \A i \in 1 .. Len(s) : s[i] \in S
        /\ \A v \in S : \E i \in 1 .. Len(s) : s[i] = v
    BY SortedLists
  <1> HIDE DEF s
  <1>2. ASSUME NEW k \in 1 .. Len(s), k > 1 PROVE s[k - 1][2] <= s[k][1]
    <2>1. k - 1 \in 1 .. Len(s) /\ k - 1 < k
      BY <1>2
    <2> DEFINE v == s[k - 1]
               w == s[k]
    <2>2. v \in S /\ w \in S /\ Before(v, w)
      BY <1>1, <2>1 DEF Ascending
    <2>3. v[1] \in Int /\ v[2] \in Int /\ w[1] \in Int /\ w[2] \in Int /\ v[1] < v[2] /\ w[1] < w[2]
      BY <2>2 DEF Pairs
    <2> HIDE DEF v, w
    <2>4. ~ Overlap(v, w)
      BY <2>2, <2>3 DEF Before
    <2>5. v[2] <= w[1]
      BY <2>2, <2>3, <2>4 DEF Overlap, Before
    <2> QED
      BY <2>5 DEF v, w
  <1>3. InOrder(s, lo, hi)
    BY <1>1, <1>2 DEF InOrder
  <1>4. \A u : Holds(s, u) <=> \E v \in S : v[1] <= u /\ u < v[2]
    BY <1>1 DEF Holds
  <1> QED
    BY <1>3, <1>4 DEF s

LEMMA AvailableInOrder ==
    ASSUME TypeOK, RulesApart, NEW start \in Points, NEW end \in Points
    PROVE  /\ InOrder(ExpandAvailability(start, end), start, end)
           /\ \A u \in Int : Holds(ExpandAvailability(start, end), u) <=>
                  start <= u /\ u < end /\ Offered(u)
  <1> DEFINE S == Available(start, end)
  <1>1. start \in Int /\ end \in Int
    BY CalendarAssumption
  <1>2. \A v \in S : /\ v \in Pairs /\ v[1] \in Int /\ v[2] \in Int
                     /\ start <= v[1] /\ v[1] < v[2] /\ v[2] <= end
                     /\ \A u \in Int : v[1] <= u /\ u < v[2] => Offered(u)
    BY AvailableIsOffered DEF Pairs
  <1>3. IsFiniteSet(S)
    <2>1. S \subseteq (start .. end) \X (start .. end)
      <3>1. ASSUME NEW v \in S PROVE v \in (start .. end) \X (start .. end)
        BY <1>1, <1>2 DEF Pairs
      <3> QED
        BY <3>1
    <2>2. IsFiniteSet(start .. end)
      BY <1>1, FS_Interval
    <2>3. IsFiniteSet((start .. end) \X (start .. end))
      BY <2>2, FS_Product
    <2> QED
      BY <2>1, <2>3, FS_Subset
  <1>4. \A v, w \in S : Overlap(v, w) => v = w
    BY AvailableApart
  <1>5. /\ InOrder(Sorted(S), start, end)
        /\ \A u : Holds(Sorted(S), u) <=> \E v \in S : v[1] <= u /\ u < v[2]
    <2> HIDE DEF S
    <2> QED
      BY <1>1, <1>2, <1>3, <1>4, SortedInOrder
  <1>6. ASSUME NEW u \in Int
        PROVE  (\E v \in S : v[1] <= u /\ u < v[2]) <=> start <= u /\ u < end /\ Offered(u)
    <2>1. ASSUME NEW v \in S, v[1] <= u, u < v[2] PROVE start <= u /\ u < end /\ Offered(u)
      BY <1>1, <1>2, <2>1
    <2>2. ASSUME start <= u, u < end, Offered(u) PROVE \E v \in S : v[1] <= u /\ u < v[2]
      <3>1. u \in start .. (end - 1)
        BY <1>1, <2>2
      <3> QED
        BY <2>2, <3>1, OfferedIsAvailable
    <2> QED
      BY <2>1, <2>2
  <1> QED
    BY <1>5, <1>6 DEF ExpandAvailability

-----------------------------------------------------------------------------
\* free_slots.

LEMMA BusyInOrderOfStart ==
    ASSUME TypeOK, IsFiniteSet(bookings), NEW start \in Points, NEW end \in Points
    PROVE  /\ SortedByStart(Busy(start, end))
           /\ \A u \in Int : start <= u /\ u < end => (Holds(Busy(start, end), u) <=> Taken(u))
  <1> DEFINE S == {b \in bookings : Overlap(b, <<start, end>>)}
             s == Busy(start, end)
  <1>1. start \in Int /\ end \in Int
    BY CalendarAssumption
  <1>2. S \in SUBSET Pairs /\ \A b \in bookings : b \in Pairs /\ b[1] < b[2]
    BY CalendarAssumption DEF TypeOK, Intervals, Pairs
  <1>3. IsFiniteSet(S)
    BY FS_Subset
  <1>4. s = Sorted(S)
    BY DEF Busy
  <1>5. /\ s \in Seq(Pairs) /\ Ascending(s, Len(s))
        /\ \A i \in 1 .. Len(s) : s[i] \in S
        /\ \A b \in S : \E i \in 1 .. Len(s) : s[i] = b
    <2> HIDE DEF S, s
    <2> QED
      BY <1>2, <1>3, <1>4, SortedLists
  <1> HIDE DEF s
  <1>6. ASSUME NEW i \in 1 .. Len(s), NEW j \in 1 .. Len(s), i <= j PROVE s[i][1] <= s[j][1]
    <2>1. s[i][1] \in Int /\ s[j][1] \in Int
      BY <1>5 DEF Pairs
    <2>2. i = j \/ i < j
      BY <1>6
    <2> QED
      BY <1>5, <2>1, <2>2 DEF Ascending, Before
  <1>7. SortedByStart(s)
    <2>1. \A i \in 1 .. Len(s) : s[i][1] < s[i][2]
      BY <1>2, <1>5
    <2> QED
      BY <1>5, <1>6, <2>1 DEF SortedByStart
  <1>8. ASSUME NEW u \in Int, start <= u, u < end PROVE Holds(s, u) <=> Taken(u)
    <2>1. \A b \in bookings : b[1] <= u /\ u < b[2] => b \in S
      BY <1>1, <1>2, <1>8 DEF Overlap, Pairs
    <2>2. Holds(s, u) <=> \E b \in S : b[1] <= u /\ u < b[2]
      <3> HIDE DEF S
      <3> QED
        BY <1>5 DEF Holds
    <2> QED
      BY <2>1, <2>2 DEF Taken
  <1> QED
    BY <1>7, <1>8 DEF s

\* What free_slots returns: in order, inside the query, and exactly its instants
\* that are offered and not taken.
LEMMA FreeSlotsExact ==
    ASSUME RowsInv, NEW start \in Points, NEW end \in Points, start < end
    PROVE  /\ InOrder(FreeSlots(start, end), start, end)
           /\ \A u \in Int : Holds(FreeSlots(start, end), u) <=>
                  start <= u /\ u < end /\ Offered(u) /\ ~ Taken(u)
  <1> DEFINE intervals == ExpandAvailability(start, end)
             busy == Busy(start, end)
  <1>1. start \in Int /\ end \in Int /\ start <= end
    BY CalendarAssumption
  <1>2. /\ InOrder(intervals, start, end)
        /\ \A u \in Int : Holds(intervals, u) <=> start <= u /\ u < end /\ Offered(u)
    BY AvailableInOrder DEF RowsInv
  <1>3. /\ SortedByStart(busy)
        /\ \A u \in Int : start <= u /\ u < end => (Holds(busy, u) <=> Taken(u))
    BY BusyInOrderOfStart DEF RowsInv
  <1> HIDE DEF intervals, busy
  <1>4. /\ InOrder(Subtract(intervals, busy), start, end)
        /\ \A u \in Int : Holds(Subtract(intervals, busy), u) <=>
               Holds(intervals, u) /\ ~ Holds(busy, u)
    BY <1>1, <1>2, <1>3, SubtractExact
  <1>5. FreeSlots(start, end) = Subtract(intervals, busy)
    BY DEF FreeSlots, intervals, busy
  <1> QED
    BY <1>2, <1>3, <1>4, <1>5

LEMMA FreeMoments ==
    ASSUME RowsInv, NEW start \in Points, NEW end \in Points, start < end, NEW u
    PROVE  u \in Moments(Range(FreeSlots(start, end))) <=>
             u \in start .. (end - 1) /\ Offered(u) /\ ~ Taken(u)
  <1>1. start \in Int /\ end \in Int
    BY CalendarAssumption
  <1>2. FreeSlots(start, end) \in Seq(Pairs)
    BY FreeSlotsExact DEF InOrder
  <1>3. u \in start .. (end - 1) <=> u \in Int /\ start <= u /\ u < end
    BY <1>1
  <1> QED
    BY <1>2, <1>3, FreeSlotsExact, MomentsOfSequence

\* free_slots returns exactly the instants that the tutor offers and no active
\* booking takes (bookings/services.py:133-177).
THEOREM FreeIsExactHolds == Spec => []FreeIsExact
  <1>1. RowsInv => FreeIsExact
    <2> SUFFICES ASSUME RowsInv, NEW q \in Queries
                 PROVE  Moments(Range(FreeSlots(q[1], q[2])))
                          = {u \in q[1] .. (q[2] - 1) : Offered(u) /\ ~ Taken(u)}
      BY DEF FreeIsExact
    <2>1. q[1] \in Points /\ q[2] \in Points /\ q[1] < q[2]
      BY DEF Queries, Intervals
    <2> QED
      BY <2>1, FreeMoments
  <1> QED
    BY <1>1, RowsHold, PTL

\* Free intervals are not empty, sorted, and do not overlap
\* (bookings/services.py:143).
THEOREM FreeIsOrderedHolds == Spec => []FreeIsOrdered
  <1>1. RowsInv => FreeIsOrdered
    <2> SUFFICES ASSUME RowsInv, NEW q \in Queries
                 PROVE  LET free == FreeSlots(q[1], q[2])
                        IN  \A i \in DOMAIN free :
                                /\ free[i][1] < free[i][2]
                                /\ i > 1 => free[i - 1][2] <= free[i][1]
      BY DEF FreeIsOrdered
    <2>1. q[1] \in Points /\ q[2] \in Points /\ q[1] < q[2]
      BY DEF Queries, Intervals
    <2> DEFINE free == FreeSlots(q[1], q[2])
    <2>2. InOrder(free, q[1], q[2])
      BY <2>1, FreeSlotsExact
    <2> HIDE DEF free
    <2>3. DOMAIN free = 1 .. Len(free)
      BY <2>2 DEF InOrder
    <2>4. \A i \in DOMAIN free : free[i][1] < free[i][2] /\ (i > 1 => free[i - 1][2] <= free[i][1])
      BY <2>2, <2>3 DEF InOrder
    <2> QED
      BY <2>4 DEF free
  <1> QED
    BY <1>1, RowsHold, PTL

-----------------------------------------------------------------------------
\* _covers.

\* The pass over intervals in order: open means that everything up to `until' is
\* covered and nothing seen reaches further.
Answers == [until : Int, answer : {"open", "yes", "no"}]
Covered(s, lo, hi) == \A u \in Int : lo <= u /\ u < hi => Holds(s, u)
CoverInv(s, start, end, i, acc) ==
    /\ acc \in Answers
    /\ acc.answer = "open" => /\ start <= acc.until /\ acc.until < end
                              /\ Covered(s, start, acc.until)
                              /\ \A j \in 1 .. i : s[j][2] <= acc.until
    /\ acc.answer = "yes" => Covered(s, start, end)
    /\ acc.answer = "no" => ~ Covered(s, start, end)

LEMMA InOrderSorted ==
    ASSUME NEW lo \in Int, NEW hi \in Int, NEW s, InOrder(s, lo, hi)
    PROVE  SortedByStart(s)
  <1> DEFINE n == Len(s)
             P == {i \in 0 .. n : \A k \in 1 .. i : s[k][1] <= s[i][1]}
  <1>1. n \in Nat /\ \A k \in 1 .. n : s[k][1] \in Int /\ s[k][2] \in Int
    BY DEF InOrder, Pairs
  <1>2. 0 \in P
    BY <1>1
  <1>3. ASSUME NEW i \in 1 .. n, i - 1 \in P PROVE i \in P
    <2>1. ASSUME NEW k \in 1 .. i PROVE s[k][1] <= s[i][1]
      <3>1. CASE k = i
        BY <1>1, <3>1
      <3>2. CASE k # i
        <4>1. k \in 1 .. (i - 1) /\ k \in 1 .. n /\ i - 1 \in 1 .. n /\ i > 1
          BY <1>1, <3>2
        <4>2. s[k][1] <= s[i - 1][1]
          BY <1>3, <4>1
        <4>3. s[i - 1][1] < s[i - 1][2] /\ s[i - 1][2] <= s[i][1]
          BY <4>1 DEF InOrder
        <4> QED
          BY <1>1, <4>1, <4>2, <4>3
      <3> QED
        BY <3>1, <3>2
    <2>2. i \in 0 .. n
      BY <1>1
    <2> QED
      BY <2>1, <2>2
  <1>4. \A i \in 0 .. n : i \in P
    <2>1. \A i \in 1 .. n : i - 1 \in P => i \in P
      BY <1>3
    <2> HIDE DEF P
    <2> QED
      BY <1>1, <1>2, <2>1, UpTo
  <1>5. ASSUME NEW i \in 1 .. n, NEW j \in 1 .. n, i <= j PROVE s[i][1] <= s[j][1]
    <2>1. i \in 1 .. j /\ j \in 0 .. n
      BY <1>1, <1>5
    <2> QED
      BY <1>4, <2>1
  <1> QED
    BY <1>5 DEF InOrder, SortedByStart

\* One interval of the pass.
LEMMA CoverKeeps ==
    ASSUME NEW start \in Int, NEW end \in Int, NEW s, InOrder(s, start, end),
           NEW i \in 1 .. Len(s), NEW acc, CoverInv(s, start, end, i - 1, acc)
    PROVE  CoverInv(s, start, end, i, CoverStep(acc, s[i], end))
  <1> DEFINE v == s[i]
             next == CoverStep(acc, v, end)
  <1>1. /\ v[1] \in Int /\ v[2] \in Int /\ v[1] < v[2] /\ Len(s) \in Nat /\ i \in Nat
        /\ acc.until \in Int /\ acc = [until |-> acc.until, answer |-> acc.answer]
    BY DEF InOrder, Pairs, CoverInv, Answers
  <1>2. CASE acc.answer # "open"
    <2>1. next = acc
      BY <1>2 DEF CoverStep
    <2> QED
      BY <1>2, <2>1 DEF CoverInv
  <1>3. CASE acc.answer = "open" /\ v[1] > acc.until
    <2>1. next = [until |-> acc.until, answer |-> "no"]
      BY <1>1, <1>3 DEF CoverStep
    <2>2. start <= acc.until /\ acc.until < end
      BY <1>3 DEF CoverInv
    <2>3. ASSUME Holds(s, acc.until) PROVE FALSE
      <3>1. PICK j \in 1 .. Len(s) : s[j][1] <= acc.until /\ acc.until < s[j][2]
        BY <2>3 DEF Holds
      <3>2. s[j][1] \in Int /\ s[j][2] \in Int
        BY DEF InOrder, Pairs
      <3>3. CASE j < i
        <4>1. j \in 1 .. (i - 1)
          BY <1>1, <3>3
        <4>2. s[j][2] <= acc.until
          BY <1>3, <4>1 DEF CoverInv
        <4> QED
          BY <1>1, <3>1, <3>2, <4>2
      <3>4. CASE i <= j
        <4>1. v[1] <= s[j][1]
          BY <3>4, InOrderSorted DEF SortedByStart
        <4> QED
          BY <1>1, <1>3, <3>1, <3>2, <4>1
      <3> QED
        BY <1>1, <3>3, <3>4
    <2>4. ~ Covered(s, start, end)
      BY <1>1, <2>2, <2>3 DEF Covered
    <2> QED
      BY <1>1, <2>1, <2>4 DEF CoverInv, Answers
  <1>4. CASE acc.answer = "open" /\ ~ (v[1] > acc.until)
    <2> DEFINE until == Later(acc.until, v[2])
    <2>1. next = [until |-> until, answer |-> IF until >= end THEN "yes" ELSE "open"]
      BY <1>1, <1>4 DEF CoverStep
    <2>2. until \in Int /\ acc.until <= until /\ v[2] <= until /\ (until = acc.until \/ until = v[2])
      BY <1>1 DEF Later
    <2> HIDE DEF until, next
    <2>3. /\ start <= acc.until /\ acc.until < end /\ Covered(s, start, acc.until)
          /\ \A j \in 1 .. (i - 1) : s[j][2] <= acc.until
      BY <1>4 DEF CoverInv
    <2>4. Covered(s, start, until)
      <3>1. ASSUME NEW u \in Int, start <= u, u < until PROVE Holds(s, u)
        <4>1. CASE u < acc.until
          BY <2>3, <3>1, <4>1 DEF Covered
        <4>2. CASE acc.until <= u
          <5>1. v[1] <= u /\ u < v[2]
            BY <1>1, <1>4, <2>2, <3>1, <4>2
          <5> QED
            BY <5>1 DEF Holds
        <4> QED
          BY <1>1, <4>1, <4>2
      <3> QED
        BY <3>1 DEF Covered
    <2>5. ASSUME NEW j \in 1 .. i PROVE s[j][2] <= until
      <3>1. CASE j = i
        BY <2>2, <3>1
      <3>2. CASE j # i
        <4>1. j \in 1 .. (i - 1) /\ j \in 1 .. Len(s)
          BY <1>1, <3>2
        <4>2. s[j][2] \in Int
          <5>1. \A k \in 1 .. Len(s) : s[k][2] \in Int
            BY DEF InOrder, Pairs
          <5> QED
            BY <4>1, <5>1
        <4> QED
          BY <1>1, <2>2, <2>3, <4>1, <4>2
      <3> QED
        BY <3>1, <3>2
    <2>6. CASE until >= end
      <3>1. Covered(s, start, end)
        BY <2>2, <2>4, <2>6 DEF Covered
      <3> QED
        BY <2>1, <2>2, <2>6, <3>1 DEF CoverInv, Answers, next
    <2>7. CASE ~ (until >= end)
      <3>1. start <= until /\ until < end
        BY <1>1, <2>2, <2>3, <2>7
      <3> QED
        BY <2>1, <2>2, <2>4, <2>5, <2>7, <3>1 DEF CoverInv, Answers, next
    <2> QED
      BY <2>6, <2>7
  <1> QED
    BY <1>2, <1>3, <1>4

\* _covers says yes exactly if every instant of the slot is offered.
LEMMA CoversExact ==
    ASSUME TypeOK, RulesApart, NEW start \in Points, NEW end \in Points, start < end
    PROVE  Covers(start, end) <=> \A u \in Int : start <= u /\ u < end => Offered(u)
  <1> DEFINE s == ExpandAvailability(start, end)
             n == Len(s)
             base == [until |-> start, answer |-> "open"]
             Step(f) == [i \in 0 .. n |-> IF i = 0 THEN base ELSE CoverStep(f[i - 1], s[i], end)]
             seen == CHOOSE f : f = Step(f)
  <1>1. start \in Int /\ end \in Int /\ base \in Answers
    BY CalendarAssumption DEF Answers
  <1>2. /\ InOrder(s, start, end)
        /\ \A u \in Int : Holds(s, u) <=> start <= u /\ u < end /\ Offered(u)
    BY AvailableInOrder
  <1>3. Covers(start, end) <=> seen[n].answer = "yes"
    BY DEF Covers
  <1> HIDE DEF s
  <1>4. n \in Nat /\ \A i \in 1 .. n : s[i][1] \in Int /\ s[i][2] \in Int
    BY <1>2 DEF InOrder, Pairs
  <1>5. ASSUME NEW acc \in Answers, NEW i \in 1 .. n PROVE CoverStep(acc, s[i], end) \in Answers
    BY <1>4 DEF CoverStep, Answers, Later
  <1>6. \E f : f = Step(f)
    <2> DEFINE G == [p \in (1 .. n) \X Answers |-> CoverStep(p[2], s[p[1]], end)]
    <2>1. G \in [(1 .. n) \X Answers -> Answers]
      BY <1>5
    <2>2. \A i \in 1 .. n, acc \in Answers : G[<<i, acc>>] = CoverStep(acc, s[i], end)
      OBVIOUS
    <2> HIDE DEF G
    <2>3. PICK f \in [0 .. n -> Answers] : Pass(f, n, base, G)
      BY <1>1, <1>4, <2>1, PassExists
    <2>4. ASSUME NEW i \in 0 .. n PROVE f[i] = Step(f)[i]
      <3>1. CASE i = 0
        BY <2>3, <3>1 DEF Pass
      <3>2. CASE i # 0
        <4>1. i \in 1 .. n /\ i - 1 \in 0 .. n
          BY <1>4, <3>2
        <4>2. f[i] = G[<<i, f[i - 1]>>] /\ f[i - 1] \in Answers
          BY <2>3, <4>1 DEF Pass
        <4> QED
          BY <2>2, <3>2, <4>1, <4>2
      <3> QED
        BY <3>1, <3>2
    <2>5. f = Step(f)
      BY <2>3, <2>4
    <2> QED
      BY <2>5
  <1>7. seen = Step(seen)
    BY <1>6
  <1> HIDE DEF seen
  <1>8. seen[0] = base /\ \A i \in 1 .. n : seen[i] = CoverStep(seen[i - 1], s[i], end)
    <2>1. 0 \in 0 .. n /\ \A i \in 1 .. n : i \in 0 .. n /\ i # 0
      BY <1>4
    <2> QED
      BY <1>7, <2>1
  <1> DEFINE P == {i \in 0 .. n : CoverInv(s, start, end, i, seen[i])}
  <1>9. 0 \in P
    <2>1. Covered(s, start, start)
      BY <1>1 DEF Covered
    <2>2. \A j \in 1 .. 0 : FALSE
      OBVIOUS
    <2>3. CoverInv(s, start, end, 0, base)
      BY <1>1, <2>1, <2>2 DEF CoverInv
    <2> QED
      BY <1>4, <1>8, <2>3
  <1>10. ASSUME NEW i \in 1 .. n, i - 1 \in P PROVE i \in P
    <2>1. CoverInv(s, start, end, i - 1, seen[i - 1]) /\ i \in 0 .. n
      BY <1>4, <1>10
    <2> QED
      BY <1>1, <1>2, <1>8, <2>1, CoverKeeps
  <1>11. CoverInv(s, start, end, n, seen[n])
    <2>1. \A i \in 1 .. n : i - 1 \in P => i \in P
      BY <1>10
    <2>2. \A i \in 0 .. n : i \in P
      <3> HIDE DEF P
      <3> QED
        BY <1>4, <1>9, <2>1, UpTo
    <2>3. n \in 0 .. n
      BY <1>4
    <2> QED
      BY <2>2, <2>3
  <1> DEFINE last == seen[n]
  <1> HIDE DEF last
  <1>12. last.answer = "yes" <=> Covered(s, start, end)
    <2>1. CoverInv(s, start, end, n, last)
      BY <1>11 DEF last
    <2>2. CASE last.answer = "open"
      <3>1. /\ start <= last.until /\ last.until < end /\ last.until \in Int
            /\ \A j \in 1 .. n : s[j][2] <= last.until
        BY <2>1, <2>2 DEF CoverInv, Answers
      <3>2. ~ Holds(s, last.until)
        BY <1>4, <3>1 DEF Holds
      <3>3. ~ Covered(s, start, end)
        BY <3>1, <3>2 DEF Covered
      <3> QED
        BY <2>2, <3>3
    <2>3. CASE last.answer # "open"
      BY <2>1, <2>3 DEF CoverInv, Answers
    <2> QED
      BY <2>2, <2>3
  <1>13. Covered(s, start, end) <=> \A u \in Int : start <= u /\ u < end => Offered(u)
    BY <1>2 DEF Covered
  <1> QED
    BY <1>3, <1>12, <1>13 DEF last

\* A slot is free of bookings exactly if none of its instants is taken.
LEMMA ClearExact ==
    ASSUME TypeOK, NEW s \in Intervals
    PROVE  (~ \E b \in bookings : Overlap(b, s))
             <=> \A u \in Int : s[1] <= u /\ u < s[2] => ~ Taken(u)
  <1>1. s[1] \in Int /\ s[2] \in Int /\ s[1] < s[2]
    BY CalendarAssumption DEF Intervals
  <1>2. ASSUME NEW b \in bookings
        PROVE  Overlap(b, s) <=> \E u \in Int : s[1] <= u /\ u < s[2] /\ b[1] <= u /\ u < b[2]
    <2>1. b[1] \in Int /\ b[2] \in Int /\ b[1] < b[2]
      BY CalendarAssumption DEF TypeOK, Intervals
    <2>2. ASSUME Overlap(b, s)
          PROVE  \E u \in Int : s[1] <= u /\ u < s[2] /\ b[1] <= u /\ u < b[2]
      <3>1. /\ Later(s[1], b[1]) \in Int
            /\ s[1] <= Later(s[1], b[1]) /\ Later(s[1], b[1]) < s[2]
            /\ b[1] <= Later(s[1], b[1]) /\ Later(s[1], b[1]) < b[2]
        BY <1>1, <2>1, <2>2 DEF Overlap, Later
      <3> QED
        BY <3>1
    <2>3. ASSUME NEW u \in Int, s[1] <= u, u < s[2], b[1] <= u, u < b[2] PROVE Overlap(b, s)
      BY <1>1, <2>1, <2>3 DEF Overlap
    <2> QED
      BY <2>2, <2>3
  <1> QED
    BY <1>2 DEF Taken

\* What is shown as free can be booked, and what can be booked is shown as free
\* (bookings/services.py:156-177 against 180-189 and 226-234).
THEOREM OfferIsBookableHolds == Spec => []OfferIsBookable
  <1>1. RowsInv => OfferIsBookable
    <2> SUFFICES ASSUME RowsInv, NEW q \in Queries, NEW s \in Intervals,
                        q[1] <= s[1], s[2] <= q[2]
                 PROVE  Bookable(s) <=> Moments({s}) \subseteq Moments(Range(FreeSlots(q[1], q[2])))
      BY DEF OfferIsBookable
    <2>1. /\ q[1] \in Points /\ q[2] \in Points /\ q[1] < q[2]
          /\ s[1] \in Points /\ s[2] \in Points /\ s[1] < s[2]
          /\ q[1] \in Int /\ q[2] \in Int /\ s[1] \in Int /\ s[2] \in Int
      BY CalendarAssumption DEF Queries, Intervals
    <2>2. Bookable(s) <=> \A u \in Int : s[1] <= u /\ u < s[2] => Offered(u) /\ ~ Taken(u)
      BY <2>1, CoversExact, ClearExact DEF RowsInv, Bookable
    <2>3. \A u : u \in Moments({s}) <=> u \in Int /\ s[1] <= u /\ u < s[2]
      <3>1. Moments({s}) = s[1] .. (s[2] - 1)
        BY DEF Moments
      <3> QED
        BY <2>1, <3>1
    <2>4. \A u : u \in Moments(Range(FreeSlots(q[1], q[2]))) <=>
              u \in q[1] .. (q[2] - 1) /\ Offered(u) /\ ~ Taken(u)
      BY <2>1, FreeMoments
    <2>5. \A u \in Int : s[1] <= u /\ u < s[2] => u \in q[1] .. (q[2] - 1)
      BY <2>1
    <2> QED
      BY <2>2, <2>3, <2>4, <2>5
  <1> QED
    BY <1>1, RowsHold, PTL
=============================================================================
