--------------------- MODULE PriceFlowDivergenceProofs ---------------------
(***************************************************************************)
(* The indicator for every window, price, threshold and number of          *)
(* intervals.  Its four ring buffers hold the last items of what the whole *)
(* history says was pushed into them, so the signal read off them is the   *)
(* one defined over the history; what rests on a price that was missing    *)
(* never becomes a signal; and a confirmed signal cannot turn over from    *)
(* one interval to the next.  In the second part the offline indicator:    *)
(* each of its columns, whichever filters are on, goes on where it ended   *)
(* when an interval is added.                                              *)
(***************************************************************************)
EXTENDS OfflineIndicator, SequenceTheorems, FiniteSetTheorems, TLAPS

-----------------------------------------------------------------------------
(* Statistics, ring buffers and ordered lists.                             *)

\* A finite set of numbers has a greatest member and a least one, so Max and Min choose
\* them: of the members, the one with the fewest above it.
LEMMA MaxIsGreatest ==
    ASSUME NEW S, S \subseteq Int, IsFiniteSet(S), S # {}
    PROVE  Max(S) \in S /\ \A y \in S : y <= Max(S)
<1> DEFINE Above(x) == {y \in S : y > x}
           Counts == {k \in Nat : \E x \in S : k = Cardinality(Above(x))}
<1>1. ASSUME NEW x \in S
      PROVE  /\ IsFiniteSet(Above(x)) /\ Cardinality(Above(x)) \in Nat
             /\ Above(x) \subseteq S
  BY FS_Subset, FS_CardinalityType
<1>2. Counts # {} /\ Counts \subseteq Nat
  BY <1>1
<1>3. PICK k \in Counts : \A n \in Counts : ~(<<n, k>> \in OpToRel(<, Nat))
  BY <1>2, NatLessThanWellFounded, WFMin
<1>4. PICK x \in S : k = Cardinality(Above(x))
  BY <1>3
<1>5. ASSUME NEW y \in S PROVE y <= x
  <2>1. SUFFICES ASSUME y > x PROVE FALSE
    OBVIOUS
  <2>2. Above(y) \in SUBSET Above(x)
    <3>1. ASSUME NEW z \in Above(y) PROVE z \in Above(x)
      <4>1. z \in Int /\ y \in Int /\ x \in Int /\ z > y /\ z \in S
        OBVIOUS
      <4> QED
        BY <2>1, <4>1
    <3> QED
      BY <3>1
  <2>3. y \in Above(x) /\ y \notin Above(y)
    BY <2>1
  <2> HIDE DEF Above
  <2>4. Cardinality(Above(y)) <= Cardinality(Above(x))
        /\ (Cardinality(Above(x)) = Cardinality(Above(y)) => Above(x) = Above(y))
    BY <1>1, <2>2, FS_Subset
  <2>5. Cardinality(Above(y)) < k /\ Cardinality(Above(y)) \in Counts
    BY <1>1, <1>4, <2>3, <2>4
  <2> QED
    BY <1>2, <1>3, <2>5 DEF OpToRel
<1> QED
  BY <1>5 DEF Max

\* The least is the greatest with the sign turned.
LEMMA MinIsLeast ==
    ASSUME NEW S, S \subseteq Int, IsFiniteSet(S), S # {}
    PROVE  Min(S) \in S /\ \A y \in S : Min(S) <= y
<1> DEFINE T == {k \in Int : -k \in S}
           f == [x \in S |-> -x]
<1>1. T \subseteq Int /\ T # {}
  <2>1. PICK x \in S : TRUE
    OBVIOUS
  <2>2. -x \in Int /\ -(-x) = x
    BY <2>1
  <2> QED
    BY <2>1, <2>2
<1>2. f \in Surjection(S, T)
  <2>1. \A x \in S : -x \in Int /\ -(-x) = x
    OBVIOUS
  <2>2. \A k \in T : -k \in S /\ f[-k] = k
    OBVIOUS
  <2> QED
    BY <2>1, <2>2 DEF Surjection
<1> HIDE DEF f
<1>3. IsFiniteSet(T)
  BY <1>2, FS_Surjection
<1>4. PICK m \in T : \A k \in T : k <= m
  BY <1>1, <1>3, MaxIsGreatest
<1>5. ASSUME NEW y \in S PROVE -m <= y
  <2>1. y \in Int /\ -y \in T
    <3>1. y \in Int /\ -(-y) = y /\ -y \in Int
      OBVIOUS
    <3> QED
      BY <3>1
  <2>2. -y <= m /\ m \in Int
    BY <1>4, <2>1
  <2> QED
    BY <2>1, <2>2
<1>6. -m \in S
  BY <1>4
<1> QED
  BY <1>5, <1>6 DEF Min

\* The spread of a window's values, which stands for their standard deviation, is never
\* negative (price_flow_divergence.cpp:123-132, 171-175).
LEMMA SpreadIs ==
    ASSUME NEW n \in Nat \ {0}, NEW s \in [1 .. n -> Int]
    PROVE  Spread(s) \in Nat
<1> DEFINE S == ToSet(s)
<1>1. S \subseteq Int /\ S # {}
  BY DEF ToSet
<1>2. IsFiniteSet(S)
  <2>1. s \in Surjection(1 .. n, S)
    BY DEF Surjection, ToSet
  <2>2. IsFiniteSet(1 .. n)
    BY FS_Interval
  <2> QED
    BY <2>1, <2>2, FS_Surjection
<1> HIDE DEF S
<1>3. Max(S) \in Int /\ Min(S) \in Int /\ Min(S) <= Max(S)
  BY <1>1, <1>2, MaxIsGreatest, MinIsLeast
<1> QED
  BY <1>3 DEF Spread, S

\* A ring buffer holds the last items of what was pushed into it.
Recent(s, h, capacity) ==
    /\ Len(s) = IF Len(h) < capacity THEN Len(h) ELSE capacity
    /\ \A k \in 1 .. Len(s) : s[k] = h[Len(h) - Len(s) + k]

\* One push_back keeps it so, whether it drops the oldest item or not.
LEMMA PushIsRecent ==
    ASSUME NEW S, NEW s \in Seq(S), NEW h \in Seq(S), NEW x \in S, NEW c \in Nat,
           Recent(s, h, c)
    PROVE  Push(s, x, c) \in Seq(S) /\ Recent(Push(s, x, c), Append(h, x), c)
<1>1. PICK t : t = Push(s, x, c)
  OBVIOUS
<1>2. PICK g : g = Append(h, x)
  OBVIOUS
<1>3. g \in Seq(S) /\ Len(g) = Len(h) + 1 /\ g[Len(g)] = x /\ \A i \in 1 .. Len(h) : g[i] = h[i]
  BY <1>2
<1>4. CASE Len(s) < c
  <2>1. t = Append(s, x)
    BY <1>1, <1>4 DEF Push
  <2>2. t \in Seq(S) /\ Len(t) = Len(s) + 1 /\ t[Len(t)] = x /\ \A i \in 1 .. Len(s) : t[i] = s[i]
    BY <2>1
  <2>3. Len(s) = Len(h)
    BY <1>4 DEF Recent
  <2>4. ASSUME NEW k \in 1 .. Len(t) PROVE t[k] = g[Len(g) - Len(t) + k]
    <3>1. Len(g) - Len(t) + k = k /\ Len(t) = Len(g)
      BY <1>3, <2>2, <2>3
    <3>2. CASE k = Len(t)
      BY <1>3, <2>2, <3>1, <3>2
    <3>3. CASE k # Len(t)
      <4>1. k \in 1 .. Len(s) /\ k \in 1 .. Len(h) /\ Len(h) - Len(s) + k = k
        BY <2>2, <2>3, <3>3
      <4>2. s[k] = h[k]
        BY <4>1 DEF Recent
      <4> QED
        BY <1>3, <2>2, <3>1, <4>1, <4>2
    <3> QED
      BY <3>2, <3>3
  <2>5. Len(t) = IF Len(g) < c THEN Len(g) ELSE c
    BY <1>3, <1>4, <2>2, <2>3
  <2> QED
    BY <1>1, <1>2, <2>2, <2>4, <2>5 DEF Recent
<1>5. CASE ~(Len(s) < c) /\ c = 0
  <2>1. t = s /\ Len(s) = 0
    BY <1>1, <1>5 DEF Push, Recent
  <2>2. t \in Seq(S) /\ Len(t) = IF Len(g) < c THEN Len(g) ELSE c
    BY <1>3, <1>5, <2>1
  <2>3. \A k \in 1 .. Len(t) : FALSE
    BY <2>1
  <2> QED
    BY <1>1, <1>2, <2>2, <2>3 DEF Recent
<1>6. CASE ~(Len(s) < c) /\ c # 0
  <2>1. t = Append(Tail(s), x) /\ s # <<>> /\ Len(s) = c /\ c <= Len(h)
    BY <1>1, <1>6 DEF Push, Recent
  <2>2. /\ Tail(s) \in Seq(S) /\ Len(Tail(s)) = c - 1
        /\ \A i \in 1 .. c - 1 : Tail(s)[i] = s[i + 1]
    BY <2>1
  <2>3. t \in Seq(S) /\ Len(t) = c /\ t[c] = x /\ \A i \in 1 .. c - 1 : t[i] = s[i + 1]
    BY <1>6, <2>1, <2>2
  <2>4. ASSUME NEW k \in 1 .. Len(t) PROVE t[k] = g[Len(g) - Len(t) + k]
    <3>1. k \in Int /\ k <= c
      BY <2>3
    <3>2. CASE k = c
      BY <1>3, <2>3, <3>2
    <3>3. CASE k # c
      <4>1. k \in 1 .. c - 1 /\ k + 1 \in 1 .. Len(s)
        BY <2>1, <2>3, <3>1, <3>3
      <4>2. s[k + 1] = h[Len(h) - Len(s) + (k + 1)]
        BY <4>1 DEF Recent
      <4>3. Len(h) - Len(s) + (k + 1) = Len(g) - Len(t) + k
            /\ Len(h) - Len(s) + (k + 1) \in 1 .. Len(h)
        <5>1. PICK a \in Int, b \in Int : a = Len(h) /\ b = k
          BY <3>1
        <5>2. Len(s) = c /\ Len(g) = a + 1 /\ Len(t) = c /\ c <= a /\ b <= c - 1 /\ 1 <= b
          BY <1>3, <2>1, <2>3, <4>1, <5>1
        <5>3. a - c + (b + 1) = (a + 1) - c + b /\ a - c + (b + 1) \in 1 .. a
          BY <5>1, <5>2
        <5> QED
          BY <5>1, <5>2, <5>3
      <4> QED
        BY <1>3, <2>3, <4>1, <4>2, <4>3
    <3> QED
      BY <3>2, <3>3
  <2>5. Len(t) = IF Len(g) < c THEN Len(g) ELSE c
    BY <1>3, <2>1, <2>3
  <2> QED
    BY <1>1, <1>2, <2>3, <2>4, <2>5 DEF Recent
<1> QED
  BY <1>4, <1>5, <1>6

\* `h` lists the members of `S` in their order.
Lists(h, S) ==
    /\ \A i, j \in 1 .. Len(h) : i < j => h[i] < h[j]
    /\ S = {h[i] : i \in 1 .. Len(h)}

\* In such a list the place of a member tells how many lie before and after it.
LEMMA RanksAre ==
    ASSUME NEW h \in Seq(Int), NEW S, Lists(h, S), NEW k \in 1 .. Len(h)
    PROVE  /\ Cardinality({m \in S : m < h[k]}) = k - 1
           /\ Cardinality({m \in S : m > h[k]}) = Len(h) - k
<1>1. \A i, j \in 1 .. Len(h) : h[i] < h[j] => i < j
  <2>1. SUFFICES ASSUME NEW i \in 1 .. Len(h), NEW j \in 1 .. Len(h), h[i] < h[j], ~(i < j)
                 PROVE  FALSE
    OBVIOUS
  <2>2. h[i] \in Int /\ h[j] \in Int /\ (i = j \/ j < i)
    BY <2>1
  <2>3. CASE i = j
    BY <2>1, <2>2, <2>3
  <2>4. CASE j < i
    <3>1. h[j] < h[i]
      BY <2>4 DEF Lists
    <3> QED
      BY <2>1, <2>2, <3>1
  <2> QED
    BY <2>2, <2>3, <2>4
<1>2. Cardinality({m \in S : m < h[k]}) = k - 1
  <2> DEFINE T == {m \in S : m < h[k]}
             f == [i \in 1 .. k - 1 |-> h[i]]
  <2>1. \A i \in 1 .. k - 1 : i \in 1 .. Len(h) /\ h[i] \in T
    <3>1. SUFFICES ASSUME NEW i \in 1 .. k - 1 PROVE i \in 1 .. Len(h) /\ h[i] \in T
      OBVIOUS
    <3>2. i \in 1 .. Len(h) /\ i < k
      OBVIOUS
    <3>3. h[i] < h[k] /\ h[i] \in S
      BY <3>2 DEF Lists
    <3> QED
      BY <3>2, <3>3
  <2>2. \A i, j \in 1 .. k - 1 : f[i] = f[j] => i = j
    <3>1. SUFFICES ASSUME NEW i \in 1 .. k - 1, NEW j \in 1 .. k - 1, h[i] = h[j], i < j \/ j < i
                   PROVE  FALSE
      OBVIOUS
    <3>2. i \in 1 .. Len(h) /\ j \in 1 .. Len(h) /\ h[i] \in Int /\ h[j] \in Int
      OBVIOUS
    <3> QED
      BY <3>1, <3>2 DEF Lists
  <2>3. \A m \in T : \E i \in 1 .. k - 1 : f[i] = m
    <3>1. SUFFICES ASSUME NEW m \in T PROVE \E i \in 1 .. k - 1 : h[i] = m
      OBVIOUS
    <3>2. PICK i \in 1 .. Len(h) : h[i] = m
      BY DEF Lists
    <3>3. i < k
      BY <1>1, <3>2
    <3> QED
      BY <3>2, <3>3
  <2>4. f \in Bijection(1 .. k - 1, T)
    BY <2>1, <2>2, <2>3 DEF Bijection, Injection, Surjection, IsInjective
  <2> HIDE DEF f, T
  <2>5. k - 1 \in Nat /\ ExistsBijection(1 .. k - 1, T)
    BY <2>4 DEF ExistsBijection
  <2>6. Cardinality(T) = k - 1
    BY <2>5, FS_CountingElements
  <2> QED
    BY <2>6 DEF T
<1>3. Cardinality({m \in S : m > h[k]}) = Len(h) - k
  <2> DEFINE T == {m \in S : m > h[k]}
             n == Len(h) - k
             f == [i \in 1 .. n |-> h[k + i]]
  <2>1. \A i \in 1 .. n : k + i \in 1 .. Len(h) /\ h[k + i] \in T
    <3>1. SUFFICES ASSUME NEW i \in 1 .. n PROVE k + i \in 1 .. Len(h) /\ h[k + i] \in T
      OBVIOUS
    <3>2. k + i \in 1 .. Len(h) /\ k < k + i
      OBVIOUS
    <3>3. h[k] < h[k + i] /\ h[k + i] \in S
      BY <3>2 DEF Lists
    <3>4. h[k] \in Int /\ h[k + i] \in Int
      BY <3>2
    <3> QED
      BY <3>2, <3>3, <3>4
  <2>2. \A i, j \in 1 .. n : f[i] = f[j] => i = j
    <3>1. SUFFICES ASSUME NEW i \in 1 .. n, NEW j \in 1 .. n, h[k + i] = h[k + j], i < j \/ j < i
                   PROVE  FALSE
      OBVIOUS
    <3>2. /\ k + i \in 1 .. Len(h) /\ k + j \in 1 .. Len(h)
          /\ h[k + i] \in Int /\ h[k + j] \in Int
          /\ k + i < k + j \/ k + j < k + i
      BY <2>1, <3>1
    <3>3. PICK a \in 1 .. Len(h), b \in 1 .. Len(h) : a = k + i /\ b = k + j
      BY <3>2
    <3>4. h[a] \in Int /\ h[b] \in Int /\ h[a] = h[b] /\ (a < b \/ b < a)
      BY <3>1, <3>2, <3>3
    <3>5. CASE a < b
      <4>1. h[a] < h[b]
        BY <3>5 DEF Lists
      <4> QED
        BY <3>4, <4>1
    <3>6. CASE b < a
      <4>1. h[b] < h[a]
        BY <3>6 DEF Lists
      <4> QED
        BY <3>4, <4>1
    <3> QED
      BY <3>4, <3>5, <3>6
  <2>3. \A m \in T : \E i \in 1 .. n : f[i] = m
    <3>1. SUFFICES ASSUME NEW m \in T PROVE \E i \in 1 .. n : h[k + i] = m
      OBVIOUS
    <3>2. PICK i \in 1 .. Len(h) : h[i] = m
      BY DEF Lists
    <3>3. h[i] \in Int /\ h[k] \in Int /\ h[k] < h[i]
      BY <3>2
    <3>4. k < i
      BY <1>1, <3>3
    <3>5. i - k \in 1 .. n /\ k + (i - k) = i
      BY <3>4
    <3> QED
      BY <3>2, <3>5
  <2>4. f \in Bijection(1 .. n, T)
    BY <2>1, <2>2, <2>3 DEF Bijection, Injection, Surjection, IsInjective
  <2>5. n \in Nat
    OBVIOUS
  <2> HIDE DEF f, T, n
  <2>6. ExistsBijection(1 .. n, T)
    BY <2>4 DEF ExistsBijection
  <2>7. Cardinality(T) = n
    BY <2>5, <2>6, FS_CountingElements
  <2> QED
    BY <2>7 DEF T, n
<1> QED
  BY <1>2, <1>3

\* The list is as long as the set is large.
LEMMA SizeIs ==
    ASSUME NEW h \in Seq(Int), NEW S, Lists(h, S)
    PROVE  Cardinality(S) = Len(h)
<1>1. h \in [1 .. Len(h) -> S]
  BY DEF Lists
<1>2. \A i, j \in 1 .. Len(h) : h[i] = h[j] => i = j
  <2>1. SUFFICES ASSUME NEW i \in 1 .. Len(h), NEW j \in 1 .. Len(h), h[i] = h[j], i < j \/ j < i
                 PROVE  FALSE
    OBVIOUS
  <2>2. h[i] \in Int /\ h[j] \in Int
    OBVIOUS
  <2> QED
    BY <2>1, <2>2 DEF Lists
<1>3. h \in Bijection(1 .. Len(h), S)
  BY <1>1, <1>2 DEF Lists, Bijection, Injection, Surjection, IsInjective
<1>4. Len(h) \in Nat /\ ExistsBijection(1 .. Len(h), S)
  BY <1>3 DEF ExistsBijection
<1> QED
  BY <1>4, FS_CountingElements

\* The last members of a set and the k-th of a set, told by their ranks, as CalmAt tells
\* them.
LastOf(S, v) == {j \in S : Cardinality({k \in S : k > j}) < v}

NthOf(S, k) == CHOOSE j \in S : Cardinality({m \in S : m < j}) = k - 1

\* By rank they are the last items of the list.
LEMMA LastOfList ==
    ASSUME NEW h \in Seq(Int), NEW S, Lists(h, S), NEW v \in Nat, NEW n \in Nat,
           n <= Len(h), n <= v, n = Len(h) \/ n = v
    PROVE  /\ Cardinality(LastOf(S, v)) = n
           /\ \A k \in 1 .. n : NthOf(LastOf(S, v), k) = h[Len(h) - n + k]
<1> DEFINE T == LastOf(S, v)
           g == [k \in 1 .. n |-> h[Len(h) - n + k]]
<1>0. PICK a \in Nat : a = Len(h) /\ n <= a /\ n <= v /\ (n = a \/ n = v)
  OBVIOUS
<1>1. ASSUME NEW k \in 1 .. n
      PROVE  Len(h) - n + k \in 1 .. Len(h) /\ h[Len(h) - n + k] \in Int
  <2>1. a - n + k \in 1 .. a
    BY <1>0
  <2> QED
    BY <1>0, <2>1
<1>2. g \in Seq(Int) /\ Len(g) = n /\ \A k \in 1 .. n : g[k] = h[Len(h) - n + k]
  <2>1. g \in [1 .. n -> Int] /\ \A k \in 1 .. n : g[k] = h[Len(h) - n + k]
    BY <1>1
  <2> HIDE DEF g
  <2> QED
    BY <2>1
<1> HIDE DEF g
<1>3. ASSUME NEW i \in 1 .. Len(h)
      PROVE  h[i] \in S /\ h[i] \in Int /\ Cardinality({k \in S : k > h[i]}) = Len(h) - i
  <2>1. Cardinality({k \in S : k > h[i]}) = Len(h) - i
    BY RanksAre
  <2> QED
    BY <2>1 DEF Lists
<1>4. Lists(g, T)
  <2>1. ASSUME NEW i \in 1 .. Len(g), NEW j \in 1 .. Len(g), i < j PROVE g[i] < g[j]
    <3>1. /\ Len(h) - n + i \in 1 .. Len(h) /\ Len(h) - n + j \in 1 .. Len(h)
      BY <1>1, <1>2
    <3>2. PICK c \in 1 .. Len(h), b \in 1 .. Len(h) : c = Len(h) - n + i /\ b = Len(h) - n + j
      BY <3>1
    <3>3. c < b
      <4>1. PICK m \in Int : m = a - n
        OBVIOUS
      <4>2. c = m + i /\ b = m + j /\ i \in Int /\ j \in Int
        BY <1>0, <1>2, <3>2, <4>1
      <4> QED
        BY <2>1, <4>2
    <3>4. h[c] < h[b] /\ g[i] = h[c] /\ g[j] = h[b]
      BY <1>2, <3>2, <3>3 DEF Lists
    <3> QED
      BY <3>4
  <2>2. ASSUME NEW k \in 1 .. Len(g) PROVE g[k] \in T
    <3>1. PICK i \in 1 .. Len(h) : i = Len(h) - n + k
      BY <1>1, <1>2
    <3>2. Len(h) - i < v /\ g[k] = h[i]
      <4>1. g[k] = h[i] /\ k \in 1 .. n
        BY <1>2, <3>1
      <4>2. a - i = n - k /\ n <= v
        BY <1>0, <3>1, <4>1
      <4> QED
        BY <1>0, <4>1, <4>2
    <3> QED
      BY <1>3, <3>2 DEF LastOf
  <2>3. ASSUME NEW j \in T PROVE \E k \in 1 .. Len(g) : g[k] = j
    <3>1. PICK i \in 1 .. Len(h) : h[i] = j
      BY DEF LastOf, Lists
    <3>2. Len(h) - i < v
      BY <1>3, <3>1 DEF LastOf
    <3>4. PICK k \in Int : k = i - (a - n)
      OBVIOUS
    <3>5. k \in 1 .. n /\ a - n + k = i
      <4>1. i <= a /\ 1 <= i /\ a - i < v
        BY <1>0, <3>2
      <4> QED
        BY <1>0, <3>4, <4>1
    <3> QED
      BY <1>0, <1>2, <3>1, <3>5
  <2> HIDE DEF T
  <2>4. T = {g[k] : k \in 1 .. Len(g)}
    BY <2>2, <2>3
  <2> QED
    BY <2>1, <2>4 DEF Lists
<1> HIDE DEF T
<1>5. Cardinality(T) = n
  BY <1>2, <1>4, SizeIs
<1>6. ASSUME NEW k \in 1 .. n
      PROVE  NthOf(T, k) = g[k]
  <2>1. ASSUME NEW i \in 1 .. n PROVE g[i] \in T /\ Cardinality({m \in T : m < g[i]}) = i - 1
    <3>1. i \in 1 .. Len(g) /\ Lists(g, T) /\ g \in Seq(Int)
      BY <1>2, <1>4
    <3>2. Cardinality({m \in T : m < g[i]}) = i - 1
      BY <3>1, RanksAre
    <3> QED
      BY <3>1, <3>2 DEF Lists
  <2>2. ASSUME NEW j \in T, Cardinality({m \in T : m < j}) = k - 1 PROVE j = g[k]
    <3>1. PICK i \in 1 .. n : j = g[i]
      BY <1>2, <1>4 DEF Lists
    <3>2. i - 1 = k - 1
      BY <2>1, <2>2, <3>1
    <3>3. i = k
      BY <3>2
    <3> QED
      BY <3>1, <3>3
  <2> QED
    BY <2>1, <2>2 DEF NthOf
<1> QED
  BY <1>2, <1>5, <1>6 DEF T

-----------------------------------------------------------------------------
(* What the ring buffers hold of the history.                              *)

\* A closed interval, and the prices and the flows of a history of them.
Interval == [price : Prices \cup {0}, flow : Flow]

PricesOf(h) == [i \in 1 .. Len(h) |-> h[i].price]

FlowsOf(h) == [i \in 1 .. Len(h) |-> h[i].flow]

\* How many intervals found the price buffer full, and their raw signals.
Full == IF Len(closed) > WindowSize THEN Len(closed) - WindowSize ELSE 0

RawHistory == [i \in 1 .. Full |-> RawAt(WindowSize + i, 0)]

\* The intervals with a score.
Scored == {j \in 1 .. Len(closed) : HasScore(j, 0)}

\* The volatilities at the intervals that `h` lists.
VolatilitiesAt(h) == [k \in 1 .. Len(h) |-> SigPx(PricesAt(h[k]))]

\* The buffer of volatilities holds those of the last intervals with a score.
SigPxsOfHistory ==
    IF VolWindowSize < 2 THEN sigPxs = <<>>
    ELSE \E h \in Seq(Nat) : /\ Lists(h, Scored)
                             /\ Recent(sigPxs, VolatilitiesAt(h), VolWindowSize)

\* What the four ring buffers hold of the history.
BuffersOfHistory ==
    /\ Recent(prices, PricesOf(closed), WindowSize + 1)
    /\ Recent(flows, FlowsOf(closed), WindowSize + 1)
    /\ Recent(raws, RawHistory, ConfirmIntervals)
    /\ SigPxsOfHistory

\* The inductive invariant.  The signal alone is not inductive: the next one is read off
\* the buffers.  The version counts at most the intervals closed, so it keeps its bound.
Inv ==
    /\ TypeOK
    /\ version <= Len(closed) /\ Len(closed) <= MaxIntervals
    /\ BuffersOfHistory
    /\ SignalOfHistory

\* What the proofs use of the constants.
LEMMA Constants ==
    /\ WindowSize \in Nat /\ WindowSize >= 2 /\ WindowSize + 1 \in Nat \ {0}
    /\ ConfirmIntervals \in Nat /\ VolWindowSize \in Nat /\ MaxIntervals \in Nat
    /\ Prices \cup {0} \subseteq Nat
BY IndicatorAssumption

\* A full window of the history holds prices and directions.
LEMMA PricesAtTyped ==
    ASSUME closed \in Seq(Interval), NEW j \in 1 .. Len(closed), j > WindowSize
    PROVE  /\ PricesAt(j) \in Seq(Nat) /\ Len(PricesAt(j)) = WindowSize + 1
           /\ FlowsAt(j, 0) \in [1 .. WindowSize -> Int]
<1>1. ASSUME NEW k \in 1 .. WindowSize + 1
      PROVE  j - WindowSize + k - 1 \in 1 .. Len(closed)
  BY Constants
<1>2. ASSUME NEW i \in 1 .. Len(closed)
      PROVE  closed[i].price \in Nat /\ closed[i].flow \in Int
  <2>1. closed[i] \in Interval
    OBVIOUS
  <2> QED
    BY <2>1, Constants DEF Interval, Flow
<1>3. PricesAt(j) \in [1 .. WindowSize + 1 -> Nat]
  BY <1>1, <1>2 DEF PricesAt
<1>4. FlowsAt(j, 0) \in [1 .. WindowSize -> Int]
  <2>1. ASSUME NEW k \in 1 .. WindowSize PROVE j - WindowSize + k - 0 \in 1 .. Len(closed)
    BY Constants
  <2> QED
    BY <1>2, <2>1 DEF FlowsAt
<1> QED
  BY <1>3, <1>4, Constants

\* The volatility of a window is never negative.
LEMMA SigPxIs ==
    ASSUME NEW px \in Seq(Nat), Len(px) = WindowSize + 1
    PROVE  SigPx(px) \in Nat
<1>1. PICK n \in Nat \ {0} : n = Len(px) - 1
  BY Constants
<1>2. ASSUME NEW i \in 1 .. n PROVE px[i + 1] - px[i] \in Int
  <2>1. i \in 1 .. Len(px) /\ i + 1 \in 1 .. Len(px)
    BY <1>1
  <2> QED
    BY <2>1
<1>3. Changes(px) \in [1 .. n -> Int]
  BY <1>1, <1>2 DEF Changes
<1> QED
  BY <1>3, SpreadIs DEF SigPx

\* A raw signal is a signal.
LEMMA RawTyped ==
    ASSUME NEW j PROVE RawAt(j, 0) \in Signals
BY DEF RawAt, RawSignal, Signals

\* An interval more leaves the windows of the earlier ones as they were.
LEMMA PastIsFixed ==
    ASSUME closed \in Seq(Interval), NEW c \in Interval, closed' = Append(closed, c),
           NEW j \in 1 .. Len(closed)
    PROVE  /\ j > WindowSize => PricesAt(j)' = PricesAt(j) /\ FlowsAt(j, 0)' = FlowsAt(j, 0)
           /\ HasScore(j, 0)' = HasScore(j, 0)
           /\ RawAt(j, 0)' = RawAt(j, 0)
<1>1. \A i \in 1 .. Len(closed) : closed'[i] = closed[i]
  OBVIOUS
<1>2. ASSUME j > WindowSize
      PROVE  PricesAt(j)' = PricesAt(j) /\ FlowsAt(j, 0)' = FlowsAt(j, 0)
  <2>1. ASSUME NEW k \in 1 .. WindowSize + 1
        PROVE  j - WindowSize + k - 1 \in 1 .. Len(closed)
    BY <1>2, Constants
  <2>2. ASSUME NEW k \in 1 .. WindowSize PROVE j - WindowSize + k - 0 \in 1 .. Len(closed)
    BY <1>2, Constants
  <2> QED
    BY <1>1, <2>1, <2>2 DEF PricesAt, FlowsAt
<1>3. HasScore(j, 0)' = HasScore(j, 0)
  BY <1>2 DEF HasScore
<1>4. RawAt(j, 0)' = RawAt(j, 0)
  <2>1. CASE HasScore(j, 0)
    <3>1. j > WindowSize
      BY <2>1 DEF HasScore
    <3> QED
      BY <1>2, <1>3, <3>1 DEF RawAt
  <2>2. CASE ~HasScore(j, 0)
    BY <1>3, <2>2 DEF RawAt
  <2> QED
    BY <2>1, <2>2
<1> QED
  BY <1>2, <1>3, <1>4

\* Two facts about sequences, in the form the steps below cite.
LEMMA IsSequence ==
    ASSUME NEW S, NEW n \in Nat, NEW f \in [1 .. n -> S]
    PROVE  f \in Seq(S) /\ Len(f) = n
OBVIOUS

LEMMA Appended ==
    ASSUME NEW S, NEW s \in Seq(S), NEW x \in S, NEW t, t = Append(s, x)
    PROVE  /\ t \in Seq(S) /\ Len(t) = Len(s) + 1 /\ t[Len(s) + 1] = x
           /\ \A i \in 1 .. Len(s) : t[i] = s[i]
BY AppendProperties

\* An interval more is a price more and a flow more.
LEMMA ColumnsGrow ==
    ASSUME NEW h \in Seq(Interval)
    PROVE  /\ PricesOf(h) \in Seq(Prices \cup {0}) /\ Len(PricesOf(h)) = Len(h)
           /\ FlowsOf(h) \in Seq(Flow) /\ Len(FlowsOf(h)) = Len(h)
           /\ \A c \in Interval : /\ PricesOf(Append(h, c)) = Append(PricesOf(h), c.price)
                                 /\ FlowsOf(Append(h, c)) = Append(FlowsOf(h), c.flow)
<1>1. ASSUME NEW s \in Seq(Interval)
      PROVE  /\ PricesOf(s) \in Seq(Prices \cup {0}) /\ Len(PricesOf(s)) = Len(s)
             /\ FlowsOf(s) \in Seq(Flow) /\ Len(FlowsOf(s)) = Len(s)
             /\ \A i \in 1 .. Len(s) : PricesOf(s)[i] = s[i].price /\ FlowsOf(s)[i] = s[i].flow
  <2>1. \A i \in 1 .. Len(s) : s[i].price \in Prices \cup {0} /\ s[i].flow \in Flow
    <3>1. \A i \in 1 .. Len(s) : s[i] \in Interval
      OBVIOUS
    <3> QED
      BY <3>1 DEF Interval
  <2>2. PICK n \in Nat : n = Len(s)
    OBVIOUS
  <2>3. PricesOf(s) \in [1 .. n -> Prices \cup {0}] /\ FlowsOf(s) \in [1 .. n -> Flow]
        /\ \A i \in 1 .. n : PricesOf(s)[i] = s[i].price /\ FlowsOf(s)[i] = s[i].flow
    BY <2>1, <2>2 DEF PricesOf, FlowsOf
  <2>4. PricesOf(s) \in Seq(Prices \cup {0}) /\ Len(PricesOf(s)) = n
        /\ FlowsOf(s) \in Seq(Flow) /\ Len(FlowsOf(s)) = n
    BY <2>3, IsSequence
  <2>5. \A i \in 1 .. Len(s) : PricesOf(s)[i] = s[i].price /\ FlowsOf(s)[i] = s[i].flow
    BY <2>2, <2>3
  <2> QED
    BY <2>2, <2>4, <2>5
<1>2. ASSUME NEW c \in Interval
      PROVE  /\ PricesOf(Append(h, c)) = Append(PricesOf(h), c.price)
             /\ FlowsOf(Append(h, c)) = Append(FlowsOf(h), c.flow)
  <2>0. PICK s, p, f : /\ s = Append(h, c) /\ p = Append(PricesOf(h), c.price)
                       /\ f = Append(FlowsOf(h), c.flow)
    OBVIOUS
  <2>1. /\ s \in Seq(Interval) /\ Len(s) = Len(h) + 1 /\ s[Len(h) + 1] = c
        /\ \A i \in 1 .. Len(h) : s[i] = h[i]
    BY <2>0, Appended
  <2>2. c.price \in Prices \cup {0} /\ c.flow \in Flow
    BY DEF Interval
  <2>9. PricesOf(h) \in Seq(Prices \cup {0}) /\ FlowsOf(h) \in Seq(Flow)
        /\ Len(PricesOf(h)) = Len(h) /\ Len(FlowsOf(h)) = Len(h)
    BY <1>1
  <2>3. /\ p \in Seq(Prices \cup {0}) /\ Len(p) = Len(h) + 1 /\ p[Len(h) + 1] = c.price
        /\ \A i \in 1 .. Len(h) : p[i] = PricesOf(h)[i]
    <3>1. /\ p \in Seq(Prices \cup {0}) /\ Len(p) = Len(PricesOf(h)) + 1
          /\ p[Len(PricesOf(h)) + 1] = c.price
          /\ \A i \in 1 .. Len(PricesOf(h)) : p[i] = PricesOf(h)[i]
      BY <2>0, <2>2, <2>9, Appended
    <3> QED
      BY <2>9, <3>1
  <2>4. /\ f \in Seq(Flow) /\ Len(f) = Len(h) + 1 /\ f[Len(h) + 1] = c.flow
        /\ \A i \in 1 .. Len(h) : f[i] = FlowsOf(h)[i]
    <3>1. /\ f \in Seq(Flow) /\ Len(f) = Len(FlowsOf(h)) + 1
          /\ f[Len(FlowsOf(h)) + 1] = c.flow
          /\ \A i \in 1 .. Len(FlowsOf(h)) : f[i] = FlowsOf(h)[i]
      BY <2>0, <2>2, <2>9, Appended
    <3> QED
      BY <2>9, <3>1
  <2>5. ASSUME NEW i \in 1 .. Len(s) PROVE p[i] = PricesOf(s)[i] /\ f[i] = FlowsOf(s)[i]
    <3>1. CASE i = Len(h) + 1
      BY <1>1, <2>1, <2>3, <2>4, <3>1
    <3>2. CASE i # Len(h) + 1
      <4>1. i \in 1 .. Len(h)
        BY <2>1, <3>2
      <4>2. PricesOf(h)[i] = h[i].price /\ FlowsOf(h)[i] = h[i].flow
        BY <1>1, <4>1
      <4>3. PricesOf(s)[i] = s[i].price /\ FlowsOf(s)[i] = s[i].flow
        BY <1>1, <2>1
      <4> QED
        BY <2>1, <2>3, <2>4, <4>1, <4>2, <4>3
    <3> QED
      BY <3>1, <3>2
  <2>6. /\ PricesOf(s) \in Seq(Prices \cup {0}) /\ Len(PricesOf(s)) = Len(p)
        /\ FlowsOf(s) \in Seq(Flow) /\ Len(FlowsOf(s)) = Len(f)
        /\ Len(p) = Len(s) /\ Len(f) = Len(s)
    BY <1>1, <2>1, <2>3, <2>4
  <2>10. /\ \A i \in 1 .. Len(p) : p[i] = PricesOf(s)[i]
         /\ \A i \in 1 .. Len(f) : f[i] = FlowsOf(s)[i]
    BY <2>5, <2>6
  <2>7. p = PricesOf(s)
    BY <2>3, <2>6, <2>10, SeqEqual
  <2>8. f = FlowsOf(s)
    BY <2>4, <2>6, <2>10, SeqEqual
  <2> QED
    BY <2>0, <2>7, <2>8
<1> QED
  BY <1>1, <1>2

\* The history of raw signals is a sequence of them, and an interval more adds its own once
\* the price buffer is full.
LEMMA RawHistoryIs ==
    ASSUME closed \in Seq(Interval)
    PROVE  /\ Full \in Nat /\ RawHistory \in Seq(Signals) /\ Len(RawHistory) = Full
           /\ \A i \in 1 .. Full : RawHistory[i] = RawAt(WindowSize + i, 0)
<1>1. Full \in Nat
  BY Constants DEF Full
<1>2. RawHistory \in [1 .. Full -> Signals]
      /\ \A i \in 1 .. Full : RawHistory[i] = RawAt(WindowSize + i, 0)
  BY RawTyped DEF RawHistory
<1> HIDE DEF RawHistory
<1> QED
  BY <1>1, <1>2

LEMMA RawHistoryGrows ==
    ASSUME closed \in Seq(Interval), NEW c \in Interval, closed' = Append(closed, c),
           NEW n \in Nat, n = Len(closed), NEW k \in Nat, k = n + 1
    PROVE  RawHistory' = IF n < WindowSize THEN RawHistory
                         ELSE Append(RawHistory, RawAt(k, 0)')
<1>1. n = Len(closed)
  OBVIOUS
<1>2. closed' \in Seq(Interval) /\ Len(closed') = n + 1
  BY <1>1
<1>3. ASSUME NEW i \in 1 .. Full
      PROVE  RawAt(WindowSize + i, 0)' = RawAt(WindowSize + i, 0)
  <2>1. PICK j \in 1 .. Len(closed) : j = WindowSize + i
    BY <1>1, Constants DEF Full
  <2>2. RawAt(j, 0)' = RawAt(j, 0)
    BY PastIsFixed
  <2> QED
    BY <2>1, <2>2
<1>4. CASE n < WindowSize
  <2>1. Full = 0 /\ Full' = 0
    BY <1>1, <1>2, <1>4, Constants DEF Full
  <2> QED
    BY <1>1, <1>4, <2>1 DEF RawHistory
<1>5. CASE ~(n < WindowSize)
  <2>0. n - WindowSize \in Nat
    BY <1>5, Constants
  <2>1. PICK m \in Nat : m = n - WindowSize
    BY <2>0
  <2>2. Full = m /\ Full' = m + 1 /\ WindowSize + (m + 1) = n + 1
    BY <1>1, <1>2, <1>5, <2>1, Constants DEF Full
  <2>3. PICK x \in Signals : x = RawAt(k, 0)'
    BY DEF RawAt, RawSignal, Signals
  <2>9. PICK r : r = Append(RawHistory, x)
    OBVIOUS
  <2>4. /\ r \in Seq(Signals) /\ Len(r) = m + 1 /\ r[m + 1] = x
        /\ \A i \in 1 .. m : r[i] = RawAt(WindowSize + i, 0)
    <3>1. /\ RawHistory \in Seq(Signals) /\ Len(RawHistory) = m
          /\ \A i \in 1 .. m : RawHistory[i] = RawAt(WindowSize + i, 0)
      BY <2>2, RawHistoryIs
    <3>2. /\ r \in Seq(Signals) /\ Len(r) = Len(RawHistory) + 1 /\ r[Len(RawHistory) + 1] = x
          /\ \A i \in 1 .. Len(RawHistory) : r[i] = RawHistory[i]
      BY <2>9, <3>1, Appended
    <3> QED
      BY <3>1, <3>2
  <2>5. ASSUME NEW i \in 1 .. m + 1
        PROVE  RawAt(WindowSize + i, 0)' \in Signals /\ r[i] = RawAt(WindowSize + i, 0)'
    <3>1. RawAt(WindowSize + i, 0)' \in Signals
      BY DEF RawAt, RawSignal, Signals
    <3>2. CASE i = m + 1
      BY <2>2, <2>3, <2>4, <3>1, <3>2
    <3>3. CASE i # m + 1
      <4>1. i \in 1 .. m
        BY <3>3
      <4> QED
        BY <1>3, <2>2, <2>4, <3>1, <4>1
    <3> QED
      BY <3>2, <3>3
  <2>6. RawHistory' = [i \in 1 .. m + 1 |-> RawAt(WindowSize + i, 0)']
    BY <2>2 DEF RawHistory
  <2>7. PICK s \in Seq(Signals) : /\ s = RawHistory' /\ Len(s) = m + 1
                                 /\ \A i \in 1 .. m + 1 : s[i] = RawAt(WindowSize + i, 0)'
    <3>1. RawHistory' \in [1 .. m + 1 -> Signals]
          /\ \A i \in 1 .. m + 1 : RawHistory'[i] = RawAt(WindowSize + i, 0)'
      BY <2>5, <2>6
    <3>2. m + 1 \in Nat
      OBVIOUS
    <3> HIDE DEF RawHistory
    <3> QED
      BY <3>1, <3>2
  <2>8. s = r
    BY <2>4, <2>5, <2>7, SeqEqual
  <2> QED
    BY <1>5, <2>3, <2>7, <2>8, <2>9
<1> QED
  BY <1>4, <1>5

-----------------------------------------------------------------------------
(* The closing of an interval.                                             *)

\* After the push the buffers of prices and flows are the windows of the new interval.
LEMMA WindowsAre ==
    ASSUME Inv, NEW n \in Nat, n = Len(closed), NEW i \in Nat, i = n + 1, NEW c \in Interval,
           closed' = Append(closed, c),
           prices' = Push(prices, c.price, WindowSize + 1),
           flows' = Push(flows, c.flow, WindowSize + 1)
    PROVE  /\ prices' \in Seq(Prices \cup {0}) /\ flows' \in Seq(Flow)
           /\ Recent(prices', PricesOf(closed'), WindowSize + 1)
           /\ Recent(flows', FlowsOf(closed'), WindowSize + 1)
           /\ Len(flows') = Len(prices') /\ Len(prices') <= WindowSize + 1
           /\ Len(prices') = WindowSize + 1 <=> n + 1 > WindowSize
           /\ n + 1 > WindowSize =>
                 PricesAt(i)' = prices' /\ FlowsAt(i, 0)' = Tail(flows')
<1>1. closed \in Seq(Interval) /\ prices \in Seq(Prices \cup {0}) /\ flows \in Seq(Flow)
  BY DEF Inv, TypeOK, Interval
<1>2. c.price \in Prices \cup {0} /\ c.flow \in Flow
  BY DEF Interval
<1>3. /\ PricesOf(closed) \in Seq(Prices \cup {0}) /\ FlowsOf(closed) \in Seq(Flow)
      /\ PricesOf(closed') = Append(PricesOf(closed), c.price)
      /\ FlowsOf(closed') = Append(FlowsOf(closed), c.flow)
  BY <1>1, ColumnsGrow
<1>4. Recent(prices, PricesOf(closed), WindowSize + 1) /\ Recent(flows, FlowsOf(closed), WindowSize + 1)
  BY DEF Inv, BuffersOfHistory
<1>5. WindowSize + 1 \in Nat
  BY Constants
<1>6. prices' \in Seq(Prices \cup {0}) /\ Recent(prices', PricesOf(closed'), WindowSize + 1)
  <2>1. /\ Push(prices, c.price, WindowSize + 1) \in Seq(Prices \cup {0})
        /\ Recent(Push(prices, c.price, WindowSize + 1), Append(PricesOf(closed), c.price),
                  WindowSize + 1)
    BY <1>1, <1>2, <1>3, <1>4, <1>5, PushIsRecent
  <2> QED
    BY <1>3, <2>1
<1>7. flows' \in Seq(Flow) /\ Recent(flows', FlowsOf(closed'), WindowSize + 1)
  <2>1. /\ Push(flows, c.flow, WindowSize + 1) \in Seq(Flow)
        /\ Recent(Push(flows, c.flow, WindowSize + 1), Append(FlowsOf(closed), c.flow), WindowSize + 1)
    BY <1>1, <1>2, <1>3, <1>4, <1>5, PushIsRecent
  <2> QED
    BY <1>3, <2>1
<1>8. /\ closed' \in Seq(Interval) /\ Len(closed') = n + 1
      /\ Len(PricesOf(closed')) = n + 1 /\ Len(FlowsOf(closed')) = n + 1
  <2>1. closed' \in Seq(Interval) /\ Len(closed') = n + 1
    BY <1>1, Appended
  <2> QED
    BY <2>1, ColumnsGrow
<1>9. /\ Len(prices') = IF n + 1 < WindowSize + 1 THEN n + 1 ELSE WindowSize + 1
      /\ Len(flows') = Len(prices')
      /\ \A k \in 1 .. Len(prices') : /\ prices'[k] = PricesOf(closed')[n + 1 - Len(prices') + k]
                                      /\ flows'[k] = FlowsOf(closed')[n + 1 - Len(flows') + k]
  BY <1>6, <1>7, <1>8 DEF Recent
<1>10. Len(prices') <= WindowSize + 1 /\ (Len(prices') = WindowSize + 1 <=> n + 1 > WindowSize)
  BY <1>9, Constants
<1>11. ASSUME n + 1 > WindowSize
       PROVE  PricesAt(i)' = prices' /\ FlowsAt(i, 0)' = Tail(flows')
  <2>1. Len(prices') = WindowSize + 1 /\ Len(flows') = WindowSize + 1
    BY <1>9, <1>10, <1>11
  <2>2. ASSUME NEW k \in 1 .. WindowSize + 1
        PROVE  /\ n + 1 - WindowSize + k - 1 \in 1 .. n + 1
               /\ n + 1 - (WindowSize + 1) + k = n + 1 - WindowSize + k - 1
    BY <1>11, Constants
  <2>3. ASSUME NEW k \in 1 .. WindowSize + 1
        PROVE  /\ prices'[k] = closed'[n + 1 - WindowSize + k - 1].price
               /\ flows'[k] = closed'[n + 1 - WindowSize + k - 1].flow
    <3>1. PICK j \in 1 .. n + 1 : j = n + 1 - WindowSize + k - 1
      BY <2>2
    <3>2. prices'[k] = PricesOf(closed')[j] /\ flows'[k] = FlowsOf(closed')[j]
      <4>1. n + 1 - Len(prices') + k = j /\ n + 1 - Len(flows') + k = j
        BY <2>1, <2>2, <3>1
      <4>2. k \in 1 .. Len(prices')
        BY <2>1
      <4> QED
        BY <1>9, <4>1, <4>2
    <3> QED
      BY <1>8, <3>1, <3>2 DEF PricesOf, FlowsOf
  <2>6. ASSUME NEW k \in 1 .. WindowSize + 1
        PROVE  closed'[i - WindowSize + k - 1].price = prices'[k]
    <3>1. i - WindowSize + k - 1 = n + 1 - WindowSize + k - 1
      BY Constants
    <3> QED
      BY <2>3, <3>1
  <2>4. PricesAt(i)' = prices'
    <3>1. PricesAt(i)' = [k \in 1 .. WindowSize + 1 |-> prices'[k]]
      <4>1. PricesAt(i)' = [k \in 1 .. WindowSize + 1 |->
                                   closed'[i - WindowSize + k - 1].price]
        BY DEF PricesAt
      <4> QED
        BY <2>6, <4>1, Zenon
    <3>2. prices' = [k \in 1 .. WindowSize + 1 |-> prices'[k]]
      <4>1. prices' \in [1 .. Len(prices') -> Prices \cup {0}]
        BY <1>6, LenProperties
      <4> QED
        BY <2>1, <4>1
    <3> QED
      BY <3>1, <3>2
  <2>5. FlowsAt(i, 0)' = Tail(flows')
    <3>1. flows' # <<>>
      BY <1>7, <2>1, Constants
    <3>2. /\ Tail(flows') \in Seq(Flow) /\ Len(Tail(flows')) = WindowSize
          /\ \A k \in 1 .. WindowSize : Tail(flows')[k] = flows'[k + 1]
      BY <1>7, <2>1, <3>1, HeadTailProperties, Constants
    <3>3. ASSUME NEW k \in 1 .. WindowSize
          PROVE  closed'[i - WindowSize + k - 0].flow = Tail(flows')[k]
      <4>1. PICK j \in 1 .. WindowSize + 1 : j = k + 1
        BY Constants
      <4>2. n + 1 - WindowSize + j - 1 = i - WindowSize + k - 0
        BY <4>1, Constants
      <4> QED
        BY <2>3, <3>2, <4>1, <4>2
    <3>4. FlowsAt(i, 0)' = [k \in 1 .. WindowSize |-> Tail(flows')[k]]
      <4>1. FlowsAt(i, 0)' = [k \in 1 .. WindowSize |->
                                    closed'[i - WindowSize + k - 0].flow]
        BY DEF FlowsAt
      <4> QED
        BY <3>3, <4>1, Zenon
    <3>5. Tail(flows') = [k \in 1 .. WindowSize |-> Tail(flows')[k]]
      <4>1. Tail(flows') \in [1 .. Len(Tail(flows')) -> Flow]
        BY <3>2, LenProperties
      <4> QED
        BY <3>2, <4>1
    <3> QED
      BY <3>4, <3>5
  <2> QED
    BY <2>4, <2>5
<1> QED
  BY <1>6, <1>7, <1>9, <1>10, <1>11

\* What the new interval adds to the buffers, and the signal it leads to.
Outcome(raw, vol, scored) ==
    /\ raws' = Push(raws, raw, ConfirmIntervals)
    /\ version' = version + 1 /\ volOk' \in BOOLEAN
    /\ signal' = IF Confirmed(raw) /\ volOk' THEN raw ELSE "Unknown"
    /\ IF scored /\ VolWindowSize >= 2
       THEN /\ vol \in Nat \ {0}
            /\ sigPxs' = Push(sigPxs, vol, VolWindowSize)
            /\ volOk' <=> Len(sigPxs') = VolWindowSize /\ InRegime(vol, sigPxs')
       ELSE sigPxs' = sigPxs
    /\ scored /\ VolWindowSize < 2 => volOk'

\* Both branches of rollInterval() come to that (price_flow_divergence.cpp:134-153).
LEMMA EvaluateIs ==
    ASSUME NEW px \in Seq(Nat), Len(px) = WindowSize + 1,
           NEW fl \in [1 .. WindowSize -> Int], Evaluate(px, fl),
           NEW scored, scored = (IsNumber(px) /\ SigPx(px) > 0 /\ Spread(fl) > 0),
           NEW raw \in Signals,
           raw = IF scored THEN RawSignal(Comb(px, fl)) ELSE "Unknown"
    PROVE  Outcome(raw, SigPx(px), scored)
<1>1. SigPx(px) \in Nat /\ (SigPx(px) > 0 <=> SigPx(px) # 0)
  BY SigPxIs
<1>2. Spread(fl) \in Nat /\ (Spread(fl) > 0 <=> Spread(fl) # 0)
  BY SpreadIs, IndicatorAssumption
<1>3. CASE /\ (IsNumber(px) /\ SigPx(px) = 0) \/ Spread(fl) = 0
           /\ volOk' = FALSE
           /\ CheckSignal("Unknown")
           /\ UNCHANGED sigPxs
  <2>1. ~scored /\ raw = "Unknown"
    BY <1>1, <1>2, <1>3, Zenon
  <2> QED
    BY <1>3, <2>1 DEF Outcome, CheckSignal
<1>4. CASE /\ IsNumber(px) => SigPx(px) # 0
           /\ Spread(fl) # 0
           /\ UpdateVolatilityRegime(px)
           /\ CheckSignal(IF IsNumber(px) THEN RawSignal(Comb(px, fl)) ELSE "Unknown")
  <2>1. scored <=> IsNumber(px)
    BY <1>1, <1>2, <1>4, Zenon
  <2>2. CheckSignal(raw)
    BY <1>4, <2>1
  <2>3. raws' = Push(raws, raw, ConfirmIntervals) /\ version' = version + 1
        /\ signal' = IF Confirmed(raw) /\ volOk' THEN raw ELSE "Unknown"
    BY <2>2 DEF CheckSignal
  <2>4. /\ sigPxs' = IF VolWindowSize >= 2 /\ IsNumber(px)
                     THEN Push(sigPxs, SigPx(px), VolWindowSize) ELSE sigPxs
        /\ volOk' = \/ VolWindowSize < 2
                    \/ /\ IsNumber(px) /\ Len(sigPxs') = VolWindowSize
                       /\ InRegime(SigPx(px), sigPxs')
    BY <1>4 DEF UpdateVolatilityRegime
  <2>5. scored => SigPx(px) \in Nat \ {0}
    BY <1>1, <1>4, <2>1
  <2>6. ~(VolWindowSize >= 2) <=> VolWindowSize < 2
    BY Constants
  <2> QED
    BY <2>1, <2>3, <2>4, <2>5, <2>6 DEF Outcome
<1> QED
  BY <1>3, <1>4 DEF Evaluate

\* An interval's roll, told by the history instead of the buffers.
LEMMA RollIs ==
    ASSUME Inv, NEW p \in Prices \cup {0}, NEW buy \in Int, NEW sell \in Int,
           RollInterval(p, buy, sell), NEW n \in Nat, n = Len(closed), NEW i \in Nat, i = n + 1
    PROVE  \E c \in Interval :
              /\ closed' = Append(closed, c) /\ n < MaxIntervals
              /\ prices' = Push(prices, c.price, WindowSize + 1)
              /\ flows' = Push(flows, c.flow, WindowSize + 1)
              /\ IF i > WindowSize
                 THEN Outcome(RawAt(i, 0)', SigPx(PricesAt(i))', HasScore(i, 0)')
                 ELSE UNCHANGED <<sigPxs, raws, output>>
<1>1. PICK c : c = [price |-> p, flow |-> Direction(buy - sell)]
  OBVIOUS
<1>2. c \in Interval
  BY <1>1 DEF Interval, Direction, Flow
<1>3. /\ closed' = Append(closed, c) /\ n < MaxIntervals
      /\ prices' = Push(prices, c.price, WindowSize + 1)
      /\ flows' = Push(flows, c.flow, WindowSize + 1)
      /\ IF Len(prices') = WindowSize + 1
         THEN Evaluate(prices', Tail(flows'))
         ELSE UNCHANGED <<sigPxs, raws, output>>
  BY <1>1 DEF RollInterval
<1>4. CASE ~(i > WindowSize)
  <2>1. Len(prices') # WindowSize + 1
    BY <1>2, <1>3, <1>4, WindowsAre
  <2> QED
    BY <1>2, <1>3, <1>4, <2>1
<1>5. CASE i > WindowSize
  <2>1. /\ Len(prices') = WindowSize + 1 /\ PricesAt(i)' = prices' /\ FlowsAt(i, 0)' = Tail(flows')
    BY <1>2, <1>3, <1>5, WindowsAre
  <2>2. PICK px, fl : px = prices' /\ fl = Tail(flows')
    OBVIOUS
  <2>3. px \in Seq(Nat) /\ Len(px) = WindowSize + 1 /\ fl \in [1 .. WindowSize -> Int]
    <3>1. prices' \in Seq(Prices \cup {0}) /\ flows' \in Seq(Flow) /\ Len(flows') = WindowSize + 1
      BY <1>2, <1>3, <2>1, WindowsAre
    <3>2. flows' # <<>>
      BY <3>1, Constants
    <3>3. Tail(flows') \in Seq(Flow) /\ Len(Tail(flows')) = WindowSize
      BY <3>1, <3>2, HeadTailProperties, Constants
    <3>4. fl \in [1 .. WindowSize -> Flow]
      BY <2>2, <3>3, LenProperties
    <3>5. px \in Seq(Nat)
      BY <2>2, <3>1, Constants
    <3> QED
      BY <2>1, <2>2, <3>4, <3>5 DEF Flow
  <2>4. Evaluate(px, fl)
    BY <1>3, <2>1, <2>2
  <2>5. PICK scored : scored = (IsNumber(px) /\ SigPx(px) > 0 /\ Spread(fl) > 0)
    OBVIOUS
  <2>6. PICK raw : raw = IF scored THEN RawSignal(Comb(px, fl)) ELSE "Unknown"
    OBVIOUS
  <2>7. raw \in Signals
    BY <2>6 DEF RawSignal, Signals
  <2>8. Outcome(raw, SigPx(px), scored)
    BY <2>3, <2>4, <2>5, <2>6, <2>7, EvaluateIs
  <2>9. PricesAt(i)' = px /\ FlowsAt(i, 0)' = fl
    BY <2>1, <2>2
  <2>10. SigPx(PricesAt(i))' = SigPx(px)
    BY <2>9 DEF SigPx, Changes, Spread
  <2>11. HasScore(i, 0)' = scored
    BY <1>5, <2>5, <2>9 DEF HasScore, IsNumber, SigPx, Changes, Spread
  <2>12. RawAt(i, 0)' = raw
    BY <2>6, <2>9, <2>11 DEF RawAt, RawSignal, Comb
  <2> QED
    BY <1>2, <1>3, <1>5, <2>8, <2>10, <2>11, <2>12
<1> QED
  BY <1>4, <1>5

\* The confirmation that checkSignal() reads off its buffer is that of the history
\* (price_flow_divergence.cpp:218-241).
LEMMA ConfirmationIs ==
    ASSUME Inv, NEW n \in Nat, n = Len(closed), NEW i \in Nat, i = n + 1,
           NEW c \in Interval, closed' = Append(closed, c),
           NEW raw, raw = RawAt(i, 0)'
    PROVE  ConfirmedAt(i, 0)' = IF raw # "Unknown" /\ Confirmed(raw) THEN raw ELSE "Unknown"
<1>1. /\ closed \in Seq(Interval) /\ raws \in Seq(Signals)
      /\ Recent(raws, RawHistory, ConfirmIntervals)
  BY DEF Inv, TypeOK, Interval, BuffersOfHistory
<1>2. ConfirmedAt(i, 0)' = IF /\ i > ConfirmIntervals
                              /\ \A j \in 1 .. ConfirmIntervals : RawAt(i - j, 0)' = raw
                           THEN raw ELSE "Unknown"
  BY DEF ConfirmedAt
<1>3. ASSUME NEW j \in 1 .. ConfirmIntervals, i > ConfirmIntervals
      PROVE  i - j \in 1 .. n /\ RawAt(i - j, 0)' = RawAt(i - j, 0)
  <2>0. i - j \in 1 .. Len(closed)
    BY <1>3, Constants
  <2>1. PICK m \in 1 .. Len(closed) : m = i - j
    BY <2>0
  <2>2. RawAt(m, 0)' = RawAt(m, 0)
    BY <1>1, PastIsFixed
  <2> QED
    BY <2>1, <2>2
<1>4. /\ Full \in Nat /\ Len(RawHistory) = Full
      /\ \A k \in 1 .. Full : RawHistory[k] = RawAt(WindowSize + k, 0)
  BY <1>1, RawHistoryIs
<1>5. /\ Len(raws) = IF Full < ConfirmIntervals THEN Full ELSE ConfirmIntervals
      /\ \A k \in 1 .. Len(raws) : raws[k] = RawHistory[Full - Len(raws) + k]
  BY <1>1, <1>4 DEF Recent
<1>6. ASSUME Len(raws) = ConfirmIntervals, i > ConfirmIntervals, NEW j \in 1 .. ConfirmIntervals
      PROVE  /\ ConfirmIntervals + 1 - j \in 1 .. ConfirmIntervals
             /\ raws[ConfirmIntervals + 1 - j] = RawAt(i - j, 0)
  <2>1. ConfirmIntervals + 1 - j \in 1 .. ConfirmIntervals
    BY Constants
  <2>2. PICK k \in 1 .. Len(raws) : k = ConfirmIntervals + 1 - j
    BY <1>6, <2>1
  <2>3. Full >= ConfirmIntervals /\ Full >= 1
    BY <1>4, <1>5, <1>6, Constants
  <2>4. Full = n - WindowSize
    BY <2>3 DEF Full
  <2>5. PICK m \in 1 .. Full : m = Full - ConfirmIntervals + k
    BY <1>4, <1>6, <2>2, <2>3, Constants
  <2>6. WindowSize + m = i - j
    BY <2>2, <2>4, <2>5, Constants
  <2>7. raws[k] = RawAt(WindowSize + m, 0)
    BY <1>4, <1>5, <1>6, <2>5
  <2> QED
    BY <2>1, <2>2, <2>6, <2>7
<1>7. ASSUME raw # "Unknown", i > ConfirmIntervals,
             \A j \in 1 .. ConfirmIntervals : RawAt(i - j, 0)' = raw
      PROVE  Confirmed(raw)
  <2>1. Len(raws) = ConfirmIntervals
    <3>1. CASE ConfirmIntervals = 0
      BY <1>4, <1>5, <3>1
    <3>2. CASE ConfirmIntervals # 0
      <4>1. PICK j \in 1 .. ConfirmIntervals : j = ConfirmIntervals
        BY <3>2, Constants
      <4>2. RawAt(i - j, 0) # "Unknown"
        BY <1>3, <1>7
      <4>3. i - j > WindowSize
        BY <4>2 DEF RawAt, HasScore
      <4>4. Full >= ConfirmIntervals
        BY <4>1, <4>3, Constants DEF Full
      <4> QED
        BY <1>4, <1>5, <4>4, Constants
    <3> QED
      BY <3>1, <3>2
  <2>2. ASSUME NEW k \in 1 .. Len(raws) PROVE raws[k] = raw
    <3>1. PICK j \in 1 .. ConfirmIntervals : j = ConfirmIntervals + 1 - k
      BY <2>1, Constants
    <3>2. ConfirmIntervals + 1 - j = k
      BY <2>1, <3>1, Constants
    <3> QED
      BY <1>3, <1>6, <1>7, <2>1, <3>2
  <2>3. ToSet(raws) \subseteq {raw}
    BY <1>1, <2>2 DEF ToSet
  <2> QED
    BY <2>1, <2>3 DEF Confirmed
<1>8. ASSUME raw # "Unknown", Confirmed(raw)
      PROVE  i > ConfirmIntervals /\ \A j \in 1 .. ConfirmIntervals : RawAt(i - j, 0)' = raw
  <2>1. Len(raws) = ConfirmIntervals /\ ToSet(raws) \subseteq {raw}
    BY <1>8 DEF Confirmed
  <2>2. i > ConfirmIntervals
    <3>1. Full >= ConfirmIntervals
      BY <1>4, <1>5, <2>1, Constants
    <3>2. Full <= n
      BY Constants DEF Full
    <3> QED
      BY <1>4, <3>1, <3>2, Constants
  <2>3. ASSUME NEW j \in 1 .. ConfirmIntervals PROVE RawAt(i - j, 0)' = raw
    <3>1. PICK k \in 1 .. Len(raws) : k = ConfirmIntervals + 1 - j
      BY <1>6, <2>1, <2>2
    <3>2. raws[k] = raw
      <4>1. k \in DOMAIN raws
        BY <1>1, <3>1, LenProperties
      <4> QED
        BY <2>1, <4>1 DEF ToSet
    <3> QED
      BY <1>3, <1>6, <2>1, <2>2, <3>1, <3>2
  <2> QED
    BY <2>2, <2>3
<1> QED
  BY <1>2, <1>7, <1>8

\* The volatilities of listed intervals are numbers.
LEMMA VolatilitiesAreNumbers ==
    ASSUME closed \in Seq(Interval), NEW h \in Seq(Nat), Lists(h, Scored)
    PROVE  /\ VolatilitiesAt(h) \in Seq(Nat) /\ Len(VolatilitiesAt(h)) = Len(h)
           /\ \A k \in 1 .. Len(h) : VolatilitiesAt(h)[k] = SigPx(PricesAt(h[k]))
<1>1. ASSUME NEW k \in 1 .. Len(h) PROVE SigPx(PricesAt(h[k])) \in Nat
  <2>1. PICK j \in 1 .. Len(closed) : j = h[k] /\ j > WindowSize
    BY DEF Lists, Scored, HasScore
  <2>2. PricesAt(j) \in Seq(Nat) /\ Len(PricesAt(j)) = WindowSize + 1
    BY <2>1, PricesAtTyped
  <2> QED
    BY <2>1, <2>2, SigPxIs
<1>2. Len(h) \in Nat
  OBVIOUS
<1>3. VolatilitiesAt(h) \in [1 .. Len(h) -> Nat]
      /\ \A k \in 1 .. Len(h) : VolatilitiesAt(h)[k] = SigPx(PricesAt(h[k]))
  BY <1>1 DEF VolatilitiesAt
<1> QED
  BY <1>2, <1>3, IsSequence

\* One item more.
LongerBy(g, h, x) == g = Append(h, x)

\* An interval with a score joins the list, and its volatility the sequence of them.
LEMMA VolatilitiesGrow ==
    ASSUME closed \in Seq(Interval), NEW n \in Nat, n = Len(closed), NEW i \in Nat, i = n + 1,
           NEW c \in Interval, closed' = Append(closed, c),
           NEW h \in Seq(Nat), Lists(h, Scored), NEW g, LongerBy(g, h, i),
           HasScore(i, 0)', NEW px, px = PricesAt(i)', NEW vol \in Nat, vol = SigPx(px)
    PROVE  /\ g \in Seq(Nat) /\ Lists(g, Scored')
           /\ VolatilitiesAt(g)' = Append(VolatilitiesAt(h), vol)
<1>1. g = Append(h, i)
  BY DEF LongerBy
<1>2. g \in Seq(Nat) /\ Len(g) = Len(h) + 1 /\ g[Len(h) + 1] = i /\ \A k \in 1 .. Len(h) : g[k] = h[k]
  BY <1>1, Appended
<1>3. ASSUME NEW k \in 1 .. Len(h)
      PROVE  h[k] \in 1 .. n /\ h[k] > WindowSize /\ HasScore(h[k], 0)
  BY DEF Lists, Scored, HasScore
<1>4. \A j \in 1 .. n : HasScore(j, 0)' = HasScore(j, 0)
  BY PastIsFixed
<1>5. Scored' = Scored \cup {i}
  <2>1. Len(closed') = n + 1
    BY Appended
  <2>2. Scored' = {j \in 1 .. n + 1 : HasScore(j, 0)'}
    BY <2>1 DEF Scored
  <2>3. ASSUME NEW j \in 1 .. n + 1 PROVE HasScore(j, 0)' <=> j \in Scored \/ j = i
    <3>1. CASE j = i
      BY <3>1
    <3>2. CASE j # i
      <4>1. j \in 1 .. n
        BY <3>2
      <4> QED
        BY <1>4, <3>2, <4>1 DEF Scored, HasScore
    <3> QED
      BY <3>1, <3>2
  <2>4. i \in 1 .. n + 1 /\ \A j \in Scored : j \in 1 .. n + 1
    BY DEF Scored
  <2> QED
    BY <2>2, <2>3, <2>4
<1>6. Lists(g, Scored')
  <2>1. ASSUME NEW k \in 1 .. Len(g), NEW m \in 1 .. Len(g), k < m PROVE g[k] < g[m]
    <3>1. k \in 1 .. Len(h)
      BY <1>2, <2>1
    <3>2. CASE m = Len(h) + 1
      <4>1. g[m] = i /\ g[k] = h[k] /\ h[k] \in 1 .. n
        BY <1>2, <1>3, <3>1, <3>2
      <4> QED
        BY <4>1
    <3>3. CASE m # Len(h) + 1
      <4>1. m \in 1 .. Len(h)
        BY <1>2, <3>3
      <4> QED
        BY <1>2, <2>1, <3>1, <4>1 DEF Lists
    <3> QED
      BY <3>2, <3>3
  <2>2. ASSUME NEW k \in 1 .. Len(g) PROVE g[k] \in Scored'
    <3>1. CASE k = Len(h) + 1
      BY <1>2, <1>5, <3>1
    <3>2. CASE k # Len(h) + 1
      <4>1. k \in 1 .. Len(h)
        BY <1>2, <3>2
      <4> QED
        BY <1>2, <1>5, <4>1 DEF Lists
    <3> QED
      BY <3>1, <3>2
  <2>3. ASSUME NEW j \in Scored' PROVE \E k \in 1 .. Len(g) : g[k] = j
    <3>1. CASE j = i
      <4>1. Len(h) + 1 \in 1 .. Len(g)
        BY <1>2
      <4> QED
        BY <1>2, <3>1, <4>1
    <3>2. CASE j # i
      <4>1. PICK k \in 1 .. Len(h) : h[k] = j
        BY <1>5, <3>2 DEF Lists
      <4>2. k \in 1 .. Len(g)
        BY <1>2
      <4> QED
        BY <1>2, <4>1, <4>2
    <3> QED
      BY <3>1, <3>2
  <2>4. Scored' = {g[k] : k \in 1 .. Len(g)}
    BY <2>2, <2>3
  <2> QED
    BY <2>1, <2>4 DEF Lists
<1>7. ASSUME NEW k \in 1 .. Len(h)
      PROVE  SigPx(PricesAt(h[k])) \in Nat /\ SigPx(PricesAt(h[k]))' = SigPx(PricesAt(h[k]))
  <2>1. PICK j \in 1 .. Len(closed) : j = h[k] /\ j > WindowSize
    BY <1>3
  <2>2. PricesAt(j)' = PricesAt(j) /\ PricesAt(j) \in Seq(Nat) /\ Len(PricesAt(j)) = WindowSize + 1
    BY <2>1, PastIsFixed, PricesAtTyped
  <2>3. SigPx(PricesAt(j)) \in Nat
    BY <2>2, SigPxIs
  <2>4. SigPx(PricesAt(j))' = SigPx(PricesAt(j))
    BY <2>2 DEF SigPx, Changes, Spread
  <2> QED
    BY <2>1, <2>3, <2>4
<1>8. VolatilitiesAt(h) \in Seq(Nat) /\ Len(VolatilitiesAt(h)) = Len(h)
      /\ \A k \in 1 .. Len(h) : VolatilitiesAt(h)[k] = SigPx(PricesAt(h[k]))
  BY VolatilitiesAreNumbers
<1>9. VolatilitiesAt(g)' = Append(VolatilitiesAt(h), vol)
  <2>1. PICK v : v = Append(VolatilitiesAt(h), vol)
    OBVIOUS
  <2>2. /\ v \in Seq(Nat) /\ Len(v) = Len(h) + 1 /\ v[Len(h) + 1] = vol
        /\ \A k \in 1 .. Len(h) : v[k] = VolatilitiesAt(h)[k]
    <3>1. /\ v \in Seq(Nat) /\ Len(v) = Len(VolatilitiesAt(h)) + 1
          /\ v[Len(VolatilitiesAt(h)) + 1] = vol
          /\ \A k \in 1 .. Len(VolatilitiesAt(h)) : v[k] = VolatilitiesAt(h)[k]
      BY <1>8, <2>1, Appended
    <3> QED
      BY <1>8, <3>1
  <2>3. VolatilitiesAt(g)' = [k \in 1 .. Len(g) |-> SigPx(PricesAt(g[k]))']
    BY DEF VolatilitiesAt
  <2>4. ASSUME NEW k \in 1 .. Len(g) PROVE SigPx(PricesAt(g[k]))' = v[k]
    <3>1. CASE k = Len(h) + 1
      <4>1. vol = SigPx(PricesAt(i))'
        BY DEF SigPx, Spread, Changes
      <4> QED
        BY <1>2, <2>2, <3>1, <4>1
    <3>2. CASE k # Len(h) + 1
      <4>1. k \in 1 .. Len(h)
        BY <1>2, <3>2
      <4> QED
        BY <1>2, <1>7, <1>8, <2>2, <4>1
    <3> QED
      BY <3>1, <3>2
  <2>5. v = [k \in 1 .. Len(g) |-> v[k]]
    BY <1>2, <2>2, LenProperties
  <2> QED
    BY <2>1, <2>3, <2>4, <2>5
<1> QED
  BY <1>1, <1>2, <1>6, <1>8, <1>9

\* An interval without a score changes neither.
LEMMA VolatilitiesStay ==
    ASSUME closed \in Seq(Interval), NEW n \in Nat, n = Len(closed), NEW i \in Nat, i = n + 1,
           NEW c \in Interval, closed' = Append(closed, c),
           NEW h \in Seq(Nat), Lists(h, Scored), ~HasScore(i, 0)'
    PROVE  Lists(h, Scored') /\ VolatilitiesAt(h)' = VolatilitiesAt(h)
<1>1. ASSUME NEW k \in 1 .. Len(h)
      PROVE  h[k] \in 1 .. n /\ h[k] > WindowSize
  BY DEF Lists, Scored, HasScore
<1>2. \A j \in 1 .. n : HasScore(j, 0)' = HasScore(j, 0)
  BY PastIsFixed
<1>3. Scored' = Scored
  <2>1. Len(closed') = n + 1
    BY Appended
  <2>2. Scored' = {j \in 1 .. n + 1 : HasScore(j, 0)'}
    BY <2>1 DEF Scored
  <2>3. ASSUME NEW j \in 1 .. n + 1 PROVE HasScore(j, 0)' <=> j \in Scored
    <3>1. CASE j = i
      BY <3>1 DEF Scored
    <3>2. CASE j # i
      <4>1. j \in 1 .. n
        BY <3>2
      <4> QED
        BY <1>2, <4>1 DEF Scored, HasScore
    <3> QED
      BY <3>1, <3>2
  <2>4. \A j \in Scored : j \in 1 .. n + 1
    BY DEF Scored
  <2> QED
    BY <2>2, <2>3, <2>4
<1>4. ASSUME NEW k \in 1 .. Len(h)
      PROVE  SigPx(PricesAt(h[k]))' = SigPx(PricesAt(h[k]))
  <2>1. PICK j \in 1 .. Len(closed) : j = h[k] /\ j > WindowSize
    BY <1>1
  <2>2. PricesAt(j)' = PricesAt(j)
    BY <2>1, PastIsFixed
  <2>3. SigPx(PricesAt(j))' = SigPx(PricesAt(j))
    BY <2>2 DEF SigPx, Changes, Spread
  <2> QED
    BY <2>1, <2>3
<1>5. VolatilitiesAt(h)' = VolatilitiesAt(h)
  BY <1>4 DEF VolatilitiesAt
<1> QED
  BY <1>3, <1>5

\* A regime is recognised by a buffer of volatilities when it is by the last scored
\* intervals (price_flow_divergence.cpp:178-208).
RegimeByBuffer(i, h, s) ==
    closed \in Seq(Interval) /\ i = Len(closed) /\ VolWindowSize >= 2
    /\ Lists(h, Scored) /\ Recent(s, VolatilitiesAt(h), VolWindowSize)
    => (CalmAt(i) <=> Len(s) = VolWindowSize /\ InRegime(SigPx(PricesAt(i)), s))

\* The volatilities that CalmAt compares with.
Values ==
    LET recent == LastOf(Scored, VolWindowSize)
    IN  [k \in 1 .. VolWindowSize |-> SigPx(PricesAt(NthOf(recent, k)))]

\* They are what the buffer holds.
LEMMA RegimeIs ==
    ASSUME NEW i \in Nat, NEW h \in Seq(Nat), NEW s \in Seq(Nat)
    PROVE  RegimeByBuffer(i, h, s)
<1> SUFFICES ASSUME closed \in Seq(Interval), i = Len(closed), VolWindowSize >= 2,
                    Lists(h, Scored), Recent(s, VolatilitiesAt(h), VolWindowSize)
             PROVE  CalmAt(i) <=> Len(s) = VolWindowSize /\ InRegime(SigPx(PricesAt(i)), s)
  BY DEF RegimeByBuffer
<1> DEFINE recent == LastOf(Scored, VolWindowSize)
<1>1. CalmAt(i) <=> \/ VolWindowSize < 2
                    \/ /\ Cardinality(recent) = VolWindowSize
                       /\ InRegime(SigPx(PricesAt(i)), Values)
  BY DEF CalmAt, LastOf, NthOf, Scored, Values
<1>2. ~(VolWindowSize < 2) /\ VolWindowSize \in Nat
  BY Constants
<1>3. PICK m \in Nat : m = Len(h)
  OBVIOUS
<1>4. Len(VolatilitiesAt(h)) = m
      /\ \A k \in 1 .. m : VolatilitiesAt(h)[k] = SigPx(PricesAt(h[k]))
  <2>1. Len(VolatilitiesAt(h)) = m
    BY <1>3 DEF VolatilitiesAt
  <2> QED
    BY <1>3, <2>1 DEF VolatilitiesAt
<1>5. PICK n \in Nat : /\ n = Len(s) /\ n <= m /\ n <= VolWindowSize /\ (n = m \/ n = VolWindowSize)
  <2>1. Len(s) \in Nat /\ Len(s) = IF m < VolWindowSize THEN m ELSE VolWindowSize
    BY <1>4 DEF Recent
  <2> QED
    BY <1>2, <2>1
<1>6. h \in Seq(Int)
  OBVIOUS
<1>7. /\ Cardinality(recent) = n
      /\ \A k \in 1 .. n : NthOf(recent, k) = h[Len(h) - n + k]
  <2>1. n <= Len(h) /\ n <= VolWindowSize /\ (n = Len(h) \/ n = VolWindowSize)
    BY <1>3, <1>5
  <2>2. VolWindowSize \in Nat /\ Lists(h, Scored)
    BY <1>2
  <2> QED
    BY <1>6, <2>1, <2>2, LastOfList
<1>8. ASSUME n = VolWindowSize PROVE Values = s
  <2>1. ASSUME NEW k \in 1 .. n PROVE SigPx(PricesAt(NthOf(recent, k))) = s[k]
    <3>1. NthOf(recent, k) = h[m - n + k]
      BY <1>3, <1>7
    <3>2. m - n + k \in 1 .. m
      BY <1>5
    <3>3. s[k] = VolatilitiesAt(h)[m - n + k]
      BY <1>4, <1>5 DEF Recent
    <3>4. s[k] = SigPx(PricesAt(h[m - n + k]))
      BY <1>4, <3>2, <3>3
    <3> QED
      BY <3>1, <3>4
  <2>2. Values = [k \in 1 .. n |-> SigPx(PricesAt(NthOf(recent, k)))]
    BY <1>8 DEF Values
  <2>3. Values = [k \in 1 .. n |-> s[k]]
    BY <2>1, <2>2, Zenon
  <2>4. s = [k \in 1 .. n |-> s[k]]
    BY <1>5, LenProperties
  <2> QED
    BY <2>3, <2>4
<1> QED
  BY <1>1, <1>2, <1>5, <1>7, <1>8

\* The same for every interval, list and buffer, and so in the next state too.
RegimesByBuffers == \A i \in Nat, h, s \in Seq(Nat) : RegimeByBuffer(i, h, s)

LEMMA RegimeAfter == RegimesByBuffers'
<1>1. RegimesByBuffers
  BY RegimeIs DEF RegimesByBuffers
<1> QED
  BY <1>1, PTL

\* A push_back never makes a buffer longer than its capacity.
LEMMA PushIsBounded ==
    ASSUME NEW S, NEW s \in Seq(S), NEW x \in S, NEW c \in Nat, Len(s) <= c
    PROVE  Push(s, x, c) \in Seq(S) /\ Len(Push(s, x, c)) <= c
<1>1. CASE Len(s) < c
  BY <1>1 DEF Push
<1>2. CASE ~(Len(s) < c) /\ c = 0
  BY <1>2 DEF Push
<1>3. CASE ~(Len(s) < c) /\ c # 0
  <2>1. Push(s, x, c) = Append(Tail(s), x) /\ s # <<>>
    BY <1>3 DEF Push
  <2>2. Tail(s) \in Seq(S) /\ Len(Tail(s)) = Len(s) - 1
    BY <2>1, HeadTailProperties
  <2> QED
    BY <1>3, <2>1, <2>2
<1> QED
  BY <1>1, <1>2, <1>3

\* An interval's roll keeps what the buffers hold of the history, and the signal.
LEMMA RollKeeps ==
    ASSUME Inv, NEW p \in Prices \cup {0}, NEW buy \in Int, NEW sell \in Int,
           RollInterval(p, buy, sell)
    PROVE  /\ BuffersOfHistory' /\ SignalOfHistory'
           /\ closed' \in Seq(Interval) /\ Len(closed') <= MaxIntervals
           /\ version' \in Nat /\ version' <= Len(closed')
           /\ prices' \in Seq(Prices \cup {0}) /\ Len(prices') <= WindowSize + 1
           /\ flows' \in Seq(Flow) /\ Len(flows') = Len(prices')
           /\ sigPxs' \in Seq(Nat \ {0}) /\ Len(sigPxs') <= VolWindowSize
           /\ raws' \in Seq(Signals) /\ Len(raws') <= ConfirmIntervals
           /\ volOk' \in BOOLEAN /\ signal' \in Signals
<1>1. PICK n \in Nat, i \in Nat : n = Len(closed) /\ i = n + 1
  BY DEF Inv, TypeOK
<1>2. /\ closed \in Seq(Interval) /\ raws \in Seq(Signals) /\ sigPxs \in Seq(Nat \ {0})
      /\ Len(raws) <= ConfirmIntervals /\ Len(sigPxs) <= VolWindowSize
      /\ Recent(raws, RawHistory, ConfirmIntervals) /\ SigPxsOfHistory
      /\ version \in Nat /\ version <= n /\ volOk \in BOOLEAN /\ signal \in Signals
      /\ SignalOfHistory
  BY <1>1 DEF Inv, TypeOK, Interval, BuffersOfHistory
<1>3. PICK c \in Interval :
         /\ closed' = Append(closed, c) /\ n < MaxIntervals
         /\ prices' = Push(prices, c.price, WindowSize + 1)
         /\ flows' = Push(flows, c.flow, WindowSize + 1)
         /\ IF i > WindowSize
            THEN Outcome(RawAt(i, 0)', SigPx(PricesAt(i))', HasScore(i, 0)')
            ELSE UNCHANGED <<sigPxs, raws, output>>
  BY <1>1, RollIs
<1>4. closed' \in Seq(Interval) /\ Len(closed') = i /\ i \in 1 .. Len(closed') /\ i <= MaxIntervals
  <2>1. closed' \in Seq(Interval) /\ Len(closed') = n + 1
    BY <1>1, <1>2, <1>3, Appended
  <2> QED
    BY <1>1, <1>3, <2>1, Constants
<1>5. /\ prices' \in Seq(Prices \cup {0}) /\ flows' \in Seq(Flow)
      /\ Recent(prices', PricesOf(closed'), WindowSize + 1)
      /\ Recent(flows', FlowsOf(closed'), WindowSize + 1)
      /\ Len(flows') = Len(prices') /\ Len(prices') <= WindowSize + 1
  BY <1>1, <1>3, WindowsAre
<1>6. PICK raw, vol, scored :
         raw = RawAt(i, 0)' /\ vol = SigPx(PricesAt(i))' /\ scored = HasScore(i, 0)'
  OBVIOUS
<1>7. raw \in Signals /\ scored \in BOOLEAN /\ (raw # "Unknown" => scored)
  BY <1>6 DEF RawAt, RawSignal, Signals, HasScore
<1>8. ConfirmedAt(i, 0)' = IF raw # "Unknown" /\ Confirmed(raw) THEN raw ELSE "Unknown"
  BY <1>1, <1>3, <1>6, ConfirmationIs
<1>9. SignalOfHistory' <=> signal' = IF ConfirmedAt(i, 0)' = "Unknown" \/ ~CalmAt(i)'
                                     THEN "Unknown" ELSE ConfirmedAt(i, 0)'
  <2>1. SignalOfHistory' <=> signal' = IF \/ Len(closed') = 0
                                          \/ ConfirmedAt(Len(closed), 0)' = "Unknown"
                                          \/ ~CalmAt(Len(closed))'
                                       THEN "Unknown" ELSE ConfirmedAt(Len(closed), 0)'
    BY DEF SignalOfHistory
  <2> QED
    BY <1>4, <2>1
<1>11. CASE ~(i > WindowSize)
  <2>1. UNCHANGED <<sigPxs, raws, volOk, signal, version>>
    BY <1>3, <1>11 DEF output
  <2>2. \A j \in 1 .. n : ~HasScore(j, 0)
    BY <1>1, <1>11, Constants DEF HasScore
  <2>3. ~scored /\ raw = "Unknown"
    BY <1>6, <1>7, <1>11 DEF HasScore
  <2>4. signal = "Unknown"
    <3>1. RawAt(n, 0) = "Unknown"
      BY <1>1, <1>11, Constants DEF RawAt, HasScore
    <3>2. ConfirmedAt(n, 0) = "Unknown"
      BY <3>1 DEF ConfirmedAt
    <3> QED
      BY <1>1, <1>2, <3>2 DEF SignalOfHistory
  <2>5. SignalOfHistory'
    BY <1>8, <1>9, <2>1, <2>3, <2>4
  <2>6. Recent(raws', RawHistory', ConfirmIntervals)
    <3>1. n < WindowSize
      BY <1>1, <1>11, Constants
    <3>2. RawHistory' = RawHistory
      BY <1>1, <1>2, <1>3, <3>1, RawHistoryGrows
    <3> QED
      BY <1>2, <2>1, <3>2
  <2>7. SigPxsOfHistory'
    <3>1. CASE VolWindowSize < 2
      BY <1>2, <2>1, <3>1 DEF SigPxsOfHistory
    <3>2. CASE ~(VolWindowSize < 2)
      <4>1. PICK h \in Seq(Nat) : /\ Lists(h, Scored)
                                 /\ Recent(sigPxs, VolatilitiesAt(h), VolWindowSize)
        BY <1>2, <3>2 DEF SigPxsOfHistory
      <4>2. ~HasScore(i, 0)'
        BY <1>6, <2>3
      <4>3. Lists(h, Scored') /\ VolatilitiesAt(h)' = VolatilitiesAt(h)
        BY <1>1, <1>2, <1>3, <4>1, <4>2, VolatilitiesStay
      <4> QED
        BY <2>1, <3>2, <4>1, <4>3 DEF SigPxsOfHistory
    <3> QED
      BY <3>1, <3>2
  <2>8. BuffersOfHistory'
    BY <1>5, <2>6, <2>7 DEF BuffersOfHistory
  <2> QED
    BY <1>1, <1>2, <1>4, <1>5, <2>1, <2>5, <2>8
<1>12. CASE i > WindowSize
  <2>1. Outcome(raw, vol, scored)
    BY <1>3, <1>6, <1>12
  <2>2. /\ raws' = Push(raws, raw, ConfirmIntervals)
        /\ version' = version + 1 /\ volOk' \in BOOLEAN
        /\ signal' = IF Confirmed(raw) /\ volOk' THEN raw ELSE "Unknown"
    BY <2>1 DEF Outcome
  <2>3. /\ raws' \in Seq(Signals) /\ Recent(raws', RawHistory', ConfirmIntervals)
    <3>1. RawHistory' = Append(RawHistory, raw)
      <4>1. ~(n < WindowSize)
        BY <1>1, <1>12, Constants
      <4> QED
        BY <1>1, <1>2, <1>3, <1>6, <4>1, RawHistoryGrows
    <3>2. RawHistory \in Seq(Signals) /\ ConfirmIntervals \in Nat
      BY <1>2, RawHistoryIs, Constants
    <3>3. /\ Push(raws, raw, ConfirmIntervals) \in Seq(Signals)
          /\ Recent(Push(raws, raw, ConfirmIntervals), Append(RawHistory, raw), ConfirmIntervals)
      BY <1>2, <1>7, <3>2, PushIsRecent
    <3> QED
      BY <2>2, <3>1, <3>3
  <2>4. Len(raws') <= ConfirmIntervals
    BY <1>2, <1>7, <2>2, PushIsBounded, Constants
  <2>5. ASSUME scored, VolWindowSize >= 2
        PROVE  /\ sigPxs' \in Seq(Nat \ {0}) /\ Len(sigPxs') <= VolWindowSize
               /\ SigPxsOfHistory' /\ (CalmAt(i)' <=> volOk')
    <3>1. /\ vol \in Nat \ {0}
          /\ sigPxs' = Push(sigPxs, vol, VolWindowSize)
          /\ volOk' <=> Len(sigPxs') = VolWindowSize /\ InRegime(vol, sigPxs')
      BY <2>1, <2>5 DEF Outcome
    <3>2. ~(VolWindowSize < 2) /\ VolWindowSize \in Nat
      BY <2>5, Constants
    <3>3. PICK h \in Seq(Nat) : /\ Lists(h, Scored)
                               /\ Recent(sigPxs, VolatilitiesAt(h), VolWindowSize)
      BY <1>2, <3>2 DEF SigPxsOfHistory
    <3>4. PICK g : g = Append(h, i)
      OBVIOUS
    <3>5. /\ g \in Seq(Nat) /\ Lists(g, Scored') /\ VolatilitiesAt(h) \in Seq(Nat)
          /\ VolatilitiesAt(g)' = Append(VolatilitiesAt(h), vol)
      <4>1. PICK px : px = PricesAt(i)'
        OBVIOUS
      <4>2. HasScore(i, 0)' /\ vol \in Nat /\ vol = SigPx(px)
        BY <1>6, <2>5, <3>1, <4>1 DEF SigPx, Spread, Changes
      <4>3. /\ closed \in Seq(Interval) /\ n \in Nat /\ n = Len(closed)
            /\ i \in Nat /\ i = n + 1 /\ closed' = Append(closed, c)
        BY <1>1, <1>2, <1>3
      <4>4. h \in Seq(Nat) /\ Lists(h, Scored) /\ LongerBy(g, h, i)
        BY <3>3, <3>4 DEF LongerBy
      <4>5. g \in Seq(Nat)
        BY <4>1, <4>2, <4>3, <4>4, VolatilitiesGrow, SMTT(60)
      <4>6. Lists(g, Scored')
        BY <4>1, <4>2, <4>3, <4>4, VolatilitiesGrow, SMTT(60)
      <4>7. VolatilitiesAt(g)' = Append(VolatilitiesAt(h), vol)
        BY <4>1, <4>2, <4>3, <4>4, VolatilitiesGrow, SMTT(60)
      <4>8. VolatilitiesAt(h) \in Seq(Nat)
        BY <4>3, <4>4, VolatilitiesAreNumbers
      <4> QED
        BY <4>5, <4>6, <4>7, <4>8
    <3>6. PICK s : s = sigPxs'
      OBVIOUS
    <3>7. s \in Seq(Nat \ {0}) /\ Len(s) <= VolWindowSize
      BY <1>2, <3>1, <3>2, <3>6, PushIsBounded
    <3>8. Recent(s, VolatilitiesAt(g)', VolWindowSize)
      <4>1. sigPxs \in Seq(Nat) /\ vol \in Nat
        BY <1>2, <3>1
      <4>2. Recent(Push(sigPxs, vol, VolWindowSize), Append(VolatilitiesAt(h), vol), VolWindowSize)
        BY <3>2, <3>3, <3>5, <4>1, PushIsRecent
      <4> QED
        BY <3>1, <3>5, <3>6, <4>2
    <3>9. SigPxsOfHistory'
      BY <3>2, <3>5, <3>6, <3>8 DEF SigPxsOfHistory
    <3>10. CalmAt(i)' <=> Len(s) = VolWindowSize /\ InRegime(vol, s)
      <4>1. s \in Seq(Nat)
        BY <3>7
      <4>2. RegimeByBuffer(i, g, s)'
        BY <3>5, <4>1, RegimeAfter DEF RegimesByBuffers
      <4>3. SigPx(PricesAt(i))' = vol
        BY <1>6
      <4>4. Recent(s, VolatilitiesAt(g), VolWindowSize)' /\ Lists(g, Scored)'
        BY <3>5, <3>8 DEF Recent, Lists
      <4>5. CalmAt(i)' <=> (Len(s) = VolWindowSize /\ InRegime(SigPx(PricesAt(i)), s))'
        BY <1>4, <2>5, <4>2, <4>4 DEF RegimeByBuffer
      <4> QED
        BY <4>3, <4>5 DEF InRegime
    <3> QED
      BY <3>1, <3>6, <3>7, <3>9, <3>10
  <2>6. ASSUME scored, VolWindowSize < 2
        PROVE  /\ sigPxs' \in Seq(Nat \ {0}) /\ Len(sigPxs') <= VolWindowSize
               /\ SigPxsOfHistory' /\ (CalmAt(i)' <=> volOk')
    <3>1. ~(VolWindowSize >= 2)
      BY <2>6, Constants
    <3>2. sigPxs' = sigPxs /\ volOk'
      BY <2>1, <2>6, <3>1 DEF Outcome
    <3>3. SigPxsOfHistory'
      BY <1>2, <2>6, <3>2 DEF SigPxsOfHistory
    <3>4. CalmAt(i)'
      BY <2>6 DEF CalmAt
    <3> QED
      BY <1>2, <3>2, <3>3, <3>4
  <2>7. ASSUME ~scored
        PROVE  /\ sigPxs' \in Seq(Nat \ {0}) /\ Len(sigPxs') <= VolWindowSize
               /\ SigPxsOfHistory' /\ raw = "Unknown"
    <3>1. sigPxs' = sigPxs
      BY <2>1, <2>7 DEF Outcome
    <3>2. CASE VolWindowSize < 2
      BY <1>2, <1>7, <2>7, <3>1, <3>2 DEF SigPxsOfHistory
    <3>3. CASE ~(VolWindowSize < 2)
      <4>1. PICK h \in Seq(Nat) : /\ Lists(h, Scored)
                                 /\ Recent(sigPxs, VolatilitiesAt(h), VolWindowSize)
        BY <1>2, <3>3 DEF SigPxsOfHistory
      <4>2. ~HasScore(i, 0)'
        BY <1>6, <2>7
      <4>3. Lists(h, Scored') /\ VolatilitiesAt(h)' = VolatilitiesAt(h)
        BY <1>1, <1>2, <1>3, <4>1, <4>2, VolatilitiesStay
      <4>4. SigPxsOfHistory'
        BY <3>1, <3>3, <4>1, <4>3 DEF SigPxsOfHistory
      <4> QED
        BY <1>2, <1>7, <2>7, <3>1, <4>4
    <3> QED
      BY <3>2, <3>3
  <2>8. /\ sigPxs' \in Seq(Nat \ {0}) /\ Len(sigPxs') <= VolWindowSize
        /\ SigPxsOfHistory' /\ (raw = "Unknown" \/ (CalmAt(i)' <=> volOk'))
    <3>1. VolWindowSize >= 2 \/ VolWindowSize < 2
      BY Constants
    <3> QED
      BY <1>7, <2>5, <2>6, <2>7, <3>1
  <2>9. SignalOfHistory' /\ signal' \in Signals
    <3>1. signal' = IF ConfirmedAt(i, 0)' = "Unknown" \/ ~CalmAt(i)'
                    THEN "Unknown" ELSE ConfirmedAt(i, 0)'
      <4>1. CASE raw = "Unknown"
        BY <1>8, <2>2, <4>1
      <4>2. CASE raw # "Unknown"
        BY <1>8, <2>2, <2>8, <4>2
      <4> QED
        BY <4>1, <4>2
    <3>2. signal' \in {raw, "Unknown"}
      BY <2>2
    <3> QED
      BY <1>7, <1>9, <3>1, <3>2 DEF Signals
  <2>10. BuffersOfHistory'
    BY <1>5, <2>3, <2>8 DEF BuffersOfHistory
  <2>11. version' \in Nat /\ version' <= Len(closed')
    BY <1>1, <1>2, <1>4, <2>2
  <2> QED
    BY <1>4, <1>5, <2>2, <2>3, <2>4, <2>8, <2>9, <2>10, <2>11
<1> QED
  BY <1>11, <1>12

\* Nothing is recorded of an empty history.
LEMMA InitIsEmpty == Init => Inv
<1>1. SUFFICES ASSUME Init PROVE Inv
  OBVIOUS
<1>2. /\ closed = <<>> /\ prices = <<>> /\ flows = <<>> /\ sigPxs = <<>> /\ raws = <<>>
      /\ signal = "Unknown" /\ version = 0 /\ volOk = TRUE
  BY <1>1 DEF Init
<1>3. TypeOK
  <2>1. /\ prices \in Seq(Prices \cup {0}) /\ flows \in Seq(Flow) /\ sigPxs \in Seq(Nat \ {0})
        /\ raws \in Seq(Signals) /\ closed \in Seq([price : Prices \cup {0}, flow : Flow])
    BY <1>2
  <2>2. /\ Len(prices) = 0 /\ Len(flows) = 0 /\ Len(sigPxs) = 0 /\ Len(raws) = 0
    BY <1>2
  <2>3. /\ midPrice \in Prices \cup {0} /\ timed \in BOOLEAN /\ volOk \in BOOLEAN
        /\ signal \in Signals
    BY <1>1 DEF Init, Signals
  <2>4. /\ buyVol \in 0 .. MaxVolume /\ sellVol \in 0 .. MaxVolume
        /\ version \in 0 .. MaxIntervals
    BY <1>1, IndicatorAssumption DEF Init
  <2> QED
    BY <2>1, <2>2, <2>3, <2>4, Constants DEF TypeOK
<1>4. ASSUME NEW h, NEW c \in Nat, Len(h) = 0 PROVE Recent(<<>>, h, c)
  BY <1>4 DEF Recent
<1>5. Len(PricesOf(closed)) = 0 /\ Len(FlowsOf(closed)) = 0
  BY <1>2 DEF PricesOf, FlowsOf
<1>6. Len(RawHistory) = 0
  <2>1. closed \in Seq(Interval) /\ Full = 0
    BY <1>2, Constants DEF Full
  <2> QED
    BY <2>1, RawHistoryIs
<1>7. SigPxsOfHistory
  <2>1. Lists(<<>>, Scored)
    BY <1>2 DEF Lists, Scored
  <2>2. Len(VolatilitiesAt(<<>>)) = 0
    BY DEF VolatilitiesAt
  <2>3. Recent(sigPxs, VolatilitiesAt(<<>>), VolWindowSize)
    BY <1>2, <1>4, <2>2, Constants
  <2>4. <<>> \in Seq(Nat)
    OBVIOUS
  <2> QED
    BY <1>2, <2>1, <2>3, <2>4 DEF SigPxsOfHistory
<1>8. BuffersOfHistory
  BY <1>2, <1>4, <1>5, <1>6, <1>7, Constants DEF BuffersOfHistory
<1>9. SignalOfHistory
  BY <1>2 DEF SignalOfHistory
<1> QED
  BY <1>2, <1>3, <1>8, <1>9, Constants DEF Inv

\* A step that closes no interval changes nothing the history is compared with.
LEMMA StayKeeps ==
    ASSUME Inv, UNCHANGED <<series, output, closed>>
    PROVE  /\ BuffersOfHistory' /\ SignalOfHistory'
           /\ version' <= Len(closed') /\ Len(closed') <= MaxIntervals
<1>1. UNCHANGED <<prices, flows, sigPxs, raws, volOk, signal, version, closed>>
  BY DEF series, output
<1>2. BuffersOfHistory' <=> BuffersOfHistory
  BY <1>1 DEF BuffersOfHistory, SigPxsOfHistory, RawHistory, Full, Scored, VolatilitiesAt,
     RawAt, HasScore, PricesAt, FlowsAt, PricesOf, FlowsOf
<1>3. SignalOfHistory' <=> SignalOfHistory
  BY <1>1 DEF SignalOfHistory, ConfirmedAt, CalmAt, RawAt, HasScore, PricesAt, FlowsAt
<1> QED
  BY <1>1, <1>2, <1>3 DEF Inv

\* Every step keeps the invariant.
LEMMA StepKeeps == Inv /\ [Next]_vars => Inv'
<1>1. SUFFICES ASSUME Inv, [Next]_vars PROVE Inv'
  OBVIOUS
<1>2. /\ TypeOK /\ MaxVolume \in Nat /\ MaxIntervals \in Nat
      /\ buyVol \in Nat /\ sellVol \in Nat
  BY <1>1, IndicatorAssumption DEF Inv, TypeOK
<1>3. ASSUME NEW passed \in BOOLEAN, NEW p \in Prices \cup {0},
             NEW buy \in 0 .. MaxVolume, NEW sell \in 0 .. MaxVolume,
             MaybeRollInterval(passed, p, buy, sell)
      PROVE  Inv'
  <2>1. midPrice' \in Prices \cup {0} /\ timed' \in BOOLEAN
    BY <1>3 DEF MaybeRollInterval
  <2>2. CASE RollInterval(p, buy, sell)
    <3>1. buy \in Int /\ sell \in Int
      BY <1>2
    <3>2. buyVol' \in 0 .. MaxVolume /\ sellVol' \in 0 .. MaxVolume
      BY <1>2, <2>2 DEF RollInterval
    <3>3. /\ BuffersOfHistory' /\ SignalOfHistory'
          /\ closed' \in Seq(Interval) /\ Len(closed') <= MaxIntervals
          /\ version' \in Nat /\ version' <= Len(closed')
          /\ prices' \in Seq(Prices \cup {0}) /\ Len(prices') <= WindowSize + 1
          /\ flows' \in Seq(Flow) /\ Len(flows') = Len(prices')
          /\ sigPxs' \in Seq(Nat \ {0}) /\ Len(sigPxs') <= VolWindowSize
          /\ raws' \in Seq(Signals) /\ Len(raws') <= ConfirmIntervals
          /\ volOk' \in BOOLEAN /\ signal' \in Signals
      BY <1>1, <2>2, <3>1, RollKeeps
    <3>4. version' \in 0 .. MaxIntervals
      BY <1>2, <3>3
    <3>5. TypeOK'
      BY <2>1, <3>2, <3>3, <3>4 DEF TypeOK, Interval
    <3> QED
      BY <3>3, <3>5 DEF Inv
  <2>3. CASE ~(timed /\ passed)
    <3>1. buyVol' = buy /\ sellVol' = sell /\ UNCHANGED <<series, output, closed>>
      BY <1>3, <2>3 DEF MaybeRollInterval
    <3>2. TypeOK'
      BY <1>2, <1>3, <2>1, <3>1 DEF TypeOK, series, output
    <3> QED
      BY <1>1, <3>1, <3>2, StayKeeps DEF Inv
  <2> QED
    BY <1>3, <2>2, <2>3 DEF MaybeRollInterval
<1>4. CASE UNCHANGED vars
  <2>1. UNCHANGED <<series, output, closed>> /\ TypeOK'
    BY <1>2, <1>4 DEF TypeOK, vars, series, output, accumulators
  <2> QED
    BY <1>1, <2>1, StayKeeps DEF Inv
<1>5. CASE Next
  <2>1. PICK passed \in BOOLEAN : SetPublicTrade(passed) \/ \E p \in Prices : SetMidPrice(p, passed)
    BY <1>5 DEF Next
  <2>2. midPrice \in Prices \cup {0} /\ buyVol \in 0 .. MaxVolume /\ sellVol \in 0 .. MaxVolume
    BY <1>2 DEF TypeOK
  <2>3. CASE SetPublicTrade(passed)
    <3>1. PICK buy \in buyVol .. MaxVolume, sell \in sellVol .. MaxVolume :
             MaybeRollInterval(passed, midPrice, buy, sell)
      BY <2>3 DEF SetPublicTrade
    <3>2. buy \in 0 .. MaxVolume /\ sell \in 0 .. MaxVolume
      BY <1>2
    <3> QED
      BY <1>3, <2>2, <3>1, <3>2
  <2>4. CASE \E p \in Prices : SetMidPrice(p, passed)
    <3>1. PICK p \in Prices : MaybeRollInterval(passed, p, buyVol, sellVol)
      BY <2>4 DEF SetMidPrice
    <3> QED
      BY <1>3, <2>2, <3>1
  <2> QED
    BY <2>1, <2>3, <2>4
<1> QED
  BY <1>1, <1>4, <1>5

\* The four ring buffers hold what they should of the whole history, whatever was missing,
\* constant or not a number on the way, and no counter or buffer leaves its bounds
\* (price_flow_divergence.cpp:97-243).
THEOREM IndicatorInvariant == Spec => []Inv
BY InitIsEmpty, StepKeeps, PTL DEF Spec

\* The signal is that of the windows over the whole history, confirmed by the raw signals of
\* the intervals right before and admitted by the volatility of the last scored ones, for
\* every window, threshold and sequence of messages (price_flow_divergence.cpp:97-243).
THEOREM SignalIsOfHistory == Spec => []SignalOfHistory
<1>1. Inv => SignalOfHistory
  BY DEF Inv
<1> QED
  BY <1>1, IndicatorInvariant, PTL

\* The intervals a signal rests on: the window of its own interval and, for each raw signal
\* that confirms it, the window of that one.
LEMMA RestsOnPrices ==
    ASSUME Inv, signal # "Unknown", NEW j \in 0 .. WindowSize + ConfirmIntervals
    PROVE  closed[Len(closed) - j].price > 0
<1>1. PICK n \in Nat : n = Len(closed)
  BY DEF Inv, TypeOK
<1>2. closed \in Seq(Interval) /\ SignalOfHistory
  BY DEF Inv, TypeOK, Interval
<1>3. ConfirmedAt(n, 0) # "Unknown"
  BY <1>1, <1>2 DEF SignalOfHistory
<1>4. /\ n > ConfirmIntervals /\ RawAt(n, 0) # "Unknown"
      /\ \A k \in 1 .. ConfirmIntervals : RawAt(n - k, 0) = RawAt(n, 0)
  BY <1>3 DEF ConfirmedAt
<1>5. ASSUME NEW t \in 0 .. ConfirmIntervals, NEW m \in 1 .. WindowSize + 1, j = t + WindowSize + 1 - m
      PROVE  closed[n - j].price > 0
  <2>1. PICK e \in Int : e = n - t
    <3>1. n - t \in Int
      BY <1>1, Constants
    <3> QED
      BY <3>1
  <2>2. RawAt(e, 0) # "Unknown"
    <3>1. CASE t = 0
      BY <1>1, <1>4, <2>1, <3>1
    <3>2. CASE t # 0
      <4>1. t \in 1 .. ConfirmIntervals
        BY <3>2, Constants
      <4> QED
        BY <1>4, <2>1, <4>1
    <3> QED
      BY <3>1, <3>2
  <2>3. e > WindowSize /\ IsNumber(PricesAt(e))
    BY <2>2 DEF RawAt, HasScore
  <2>4. e \in 1 .. n /\ e = n - t
    BY <1>1, <1>4, <2>1, Constants
  <2>5. n - j = e - WindowSize + m - 1 /\ n - j \in 1 .. n
    BY <1>5, <2>3, <2>4, Constants
  <2>6. PricesAt(e) \in Seq(Nat) /\ Len(PricesAt(e)) = WindowSize + 1
    BY <1>1, <1>2, <2>3, <2>4, PricesAtTyped
  <2>7. PricesAt(e)[m] = closed[n - j].price
    BY <2>5 DEF PricesAt
  <2>8. PricesAt(e)[m] \in Nat /\ PricesAt(e)[m] # 0
    <3>1. PricesAt(e)[m] \in ToSet(PricesAt(e)) /\ PricesAt(e)[m] \in Nat
      BY <2>6 DEF ToSet
    <3> QED
      BY <2>3, <3>1 DEF IsNumber
  <2> QED
    BY <2>7, <2>8
<1>6. CASE j <= ConfirmIntervals
  <2>1. j \in 0 .. ConfirmIntervals /\ WindowSize + 1 \in 1 .. WindowSize + 1
        /\ j = j + WindowSize + 1 - (WindowSize + 1)
    BY <1>6, Constants
  <2> QED
    BY <1>1, <1>5, <2>1
<1>7. CASE ~(j <= ConfirmIntervals)
  <2>1. PICK m \in Int : m = ConfirmIntervals + WindowSize + 1 - j
    <3>1. ConfirmIntervals + WindowSize + 1 - j \in Int
      BY Constants
    <3> QED
      BY <3>1
  <2>2. /\ ConfirmIntervals \in 0 .. ConfirmIntervals /\ m \in 1 .. WindowSize + 1
        /\ j = ConfirmIntervals + WindowSize + 1 - m
    BY <1>7, <2>1, Constants
  <2> QED
    BY <1>1, <1>5, <2>2
<1> QED
  BY <1>6, <1>7

\* A signal never rests on an interval closed before the first order book, and the buffer of
\* volatilities never holds one that vanishes or is not a number
\* (price_flow_divergence.cpp:134, 186-188).
THEOREM NoSignalFromNaN == Spec => []NothingFromNaN
<1>1. Inv => NothingFromNaN
  <2>1. SUFFICES ASSUME Inv PROVE NothingFromNaN
    OBVIOUS
  <2>2. ASSUME NEW k \in 1 .. Len(sigPxs) PROVE sigPxs[k] > 0
    <3>1. sigPxs[k] \in Nat \ {0}
      BY <2>1 DEF Inv, TypeOK
    <3> QED
      BY <3>1
  <2> QED
    BY <2>1, <2>2, RestsOnPrices DEF NothingFromNaN
<1> QED
  BY <1>1, IndicatorInvariant, PTL

-----------------------------------------------------------------------------
(* The confirmation.                                                       *)

\* A standing signal is the newest raw signal on record.
SignalOnRecord ==
    /\ raws \in Seq(Signals)
    /\ signal # "Unknown" => raws # <<>> /\ raws[Len(raws)] = signal

LEMMA PushKeepsLast ==
    ASSUME NEW S, NEW s \in Seq(S), NEW x \in S, NEW n \in Nat \ {0}
    PROVE  Push(s, x, n) \in Seq(S) \ {<<>>} /\ Push(s, x, n)[Len(Push(s, x, n))] = x
<1>1. CASE Len(s) < n
  BY <1>1, AppendProperties DEF Push
<1>2. CASE ~(Len(s) < n)
  <2>1. s # <<>>
    BY <1>2, EmptySeq
  <2>2. Tail(s) \in Seq(S)
    BY <2>1, HeadTailProperties
  <2>3. Push(s, x, n) = Append(Tail(s), x)
    BY <1>2 DEF Push
  <2> QED
    BY <2>2, <2>3, AppendProperties
<1> QED
  BY <1>1, <1>2

\* What checkSignal() does with the record and with a signal that stood before.
LEMMA CheckSignalTurns ==
    ASSUME ConfirmIntervals > 0, SignalOnRecord, NEW raw \in Signals, CheckSignal(raw)
    PROVE  /\ SignalOnRecord'
           /\ signal # "Unknown" /\ signal' # signal => signal' = "Unknown"
<1>1. raws' = Push(raws, raw, ConfirmIntervals) /\ signal' \in {raw, "Unknown"}
      /\ (signal' # "Unknown" => ToSet(raws) \subseteq {raw} /\ signal' = raw)
  BY DEF CheckSignal, Confirmed
<1>2. ConfirmIntervals \in Nat \ {0}
  BY IndicatorAssumption
<1>3. SignalOnRecord'
  BY <1>1, <1>2, PushKeepsLast DEF SignalOnRecord
<1>4. ASSUME signal # "Unknown", signal' # "Unknown" PROVE signal' = signal
  <2>1. Len(raws) \in 1 .. Len(raws) /\ raws[Len(raws)] = signal
    BY <1>4, EmptySeq DEF SignalOnRecord
  <2>2. signal \in ToSet(raws)
    BY <2>1 DEF ToSet
  <2> QED
    BY <1>1, <1>4, <2>2
<1> QED
  BY <1>3, <1>4

LEMMA IntervalTurns ==
    ASSUME ConfirmIntervals > 0, SignalOnRecord, [Next]_vars
    PROVE  /\ SignalOnRecord'
           /\ signal # "Unknown" /\ signal' # signal => signal' = "Unknown"
<1>1. CASE UNCHANGED <<raws, signal>>
  BY <1>1 DEF SignalOnRecord
<1>2. ASSUME NEW px, NEW fl, Evaluate(px, fl)
      PROVE  \E raw \in Signals : CheckSignal(raw)
  <2>1. CASE CheckSignal("Unknown")
    BY <2>1 DEF Signals
  <2>2. CASE CheckSignal(IF IsNumber(px) THEN RawSignal(Comb(px, fl)) ELSE "Unknown")
    BY <2>2 DEF RawSignal, Signals
  <2> QED
    BY <1>2, <2>1, <2>2 DEF Evaluate
<1>3. ASSUME NEW p, NEW buy, NEW sell, RollInterval(p, buy, sell)
      PROVE  UNCHANGED <<raws, signal>> \/ \E raw \in Signals : CheckSignal(raw)
  BY <1>2, <1>3 DEF RollInterval, output
<1>4. ASSUME NEW passed, NEW p, NEW buy, NEW sell, MaybeRollInterval(passed, p, buy, sell)
      PROVE  UNCHANGED <<raws, signal>> \/ \E raw \in Signals : CheckSignal(raw)
  BY <1>3, <1>4 DEF MaybeRollInterval, series, output
<1>5. CASE UNCHANGED vars
  BY <1>1, <1>5 DEF vars, series, output
<1> QED
  BY <1>1, <1>4, <1>5, CheckSignalTurns DEF Next, SetPublicTrade, SetMidPrice

\* With a confirmation the signal never turns from Buy to Sell or back from one
\* interval to the next, whatever the prices and the flow do
\* (price_flow_divergence.cpp:134-144, 218-241).
THEOREM ConfirmationBetween ==
    ASSUME ConfirmIntervals > 0
    PROVE  Spec => NoWhipsaw
<1>1. Init => SignalOnRecord
  BY DEF Init, SignalOnRecord
<1>2. SignalOnRecord /\ [Next]_vars =>
        /\ SignalOnRecord'
        /\ [signal # "Unknown" /\ signal' # signal => signal' = "Unknown"]_vars
  BY IntervalTurns
<1> QED
  BY <1>1, <1>2, PTL DEF Spec, NoWhipsaw

-----------------------------------------------------------------------------
(* The offline indicator.                                                  *)

\* A column with n rows, and two of which the second goes on where the first ends.
IsColumn(s, n) == s = [i \in 1 .. n |-> s[i]]

GoesOn(s, t, m, n) ==
    IsColumn(s, m) /\ IsColumn(t, n) /\ \A i \in 1 .. m : s[i] = t[i]

\* Such a column is a sequence.
LEMMA ColumnIs ==
    ASSUME NEW n \in Nat, NEW s, IsColumn(s, n)
    PROVE  /\ DOMAIN s = 1 .. n /\ Len(s) = n
           /\ \A S : (\A i \in 1 .. n : s[i] \in S) => s \in Seq(S)
<1>1. DOMAIN s = 1 .. n
  BY DEF IsColumn
<1>2. ASSUME NEW S, \A i \in 1 .. n : s[i] \in S
      PROVE  s \in Seq(S) /\ Len(s) = n
  <2>1. s \in [1 .. n -> S]
    BY <1>2 DEF IsColumn
  <2> QED
    BY <2>1, IsSequence
<1>3. Len(s) = n
  <2>1. \A i \in 1 .. n : s[i] \in {s[k] : k \in 1 .. n}
    OBVIOUS
  <2> QED
    BY <1>2, <2>1
<1> QED
  BY <1>1, <1>2, <1>3

\* A column that another one goes on from is a beginning of it.
LEMMA PrefixIs ==
    ASSUME NEW m \in Nat, NEW n \in Nat, m <= n, NEW s, NEW t, GoesOn(s, t, m, n)
    PROVE  IsPrefix(s, t)
<1> DEFINE S == {t[i] : i \in 1 .. n}
<1>1. s \in Seq(S) /\ t \in Seq(S) /\ Len(s) = m /\ Len(t) = n
  <2>1. \A i \in 1 .. n : t[i] \in S
    OBVIOUS
  <2>2. \A i \in 1 .. m : s[i] \in S
    <3>1. \A i \in 1 .. m : i \in 1 .. n /\ s[i] = t[i]
      BY DEF GoesOn
    <3> QED
      BY <2>1, <3>1
  <2> HIDE DEF S
  <2> QED
    BY <2>1, <2>2, ColumnIs DEF GoesOn
<1> HIDE DEF S
<1>2. SubSeq(s, 1, m) = SubSeq(t, 1, m)
  BY <1>1 DEF GoesOn
<1> QED
  BY <1>1, <1>2 DEF IsPrefix

\* They have the same windows, up to the row where the first one ends.
LEMMA SameWindow ==
    ASSUME NEW m \in Nat, NEW n \in Nat, m <= n, NEW s, NEW t, GoesOn(s, t, m, n),
           NEW i \in 1 .. m, NEW w \in Nat, w <= i
    PROVE  Back(s, i, w) = Back(t, i, w)
<1> DEFINE S == {t[k] : k \in 1 .. n}
<1>1. s \in Seq(S) /\ t \in Seq(S) /\ Len(s) = m /\ Len(t) = n
  <2>1. \A k \in 1 .. n : t[k] \in S
    OBVIOUS
  <2>2. \A k \in 1 .. m : s[k] \in S
    <3>1. \A k \in 1 .. m : k \in 1 .. n /\ s[k] = t[k]
      BY DEF GoesOn
    <3> QED
      BY <2>1, <3>1
  <2> HIDE DEF S
  <2> QED
    BY <2>1, <2>2, ColumnIs DEF GoesOn
<1> HIDE DEF S
<1>2. \A k \in 1 .. m : s[k] = t[k]
  BY DEF GoesOn
<1>3. SubSeq(s, i - w + 1, i) = SubSeq(t, i - w + 1, i)
  <2>1. PICK a \in Nat : a = i - w + 1 /\ a >= 1
    OBVIOUS
  <2>2. i <= n /\ i <= m /\ i \in Nat
    OBVIOUS
  <2>3. SubSeq(s, a, i) = [k \in 1 .. i - a + 1 |-> s[a + k - 1]]
    BY <1>1, <2>1, <2>2
  <2>4. SubSeq(t, a, i) = [k \in 1 .. i - a + 1 |-> t[a + k - 1]]
    BY <1>1, <2>1, <2>2
  <2>5. \A k \in 1 .. i - a + 1 : a + k - 1 \in 1 .. m
    BY <2>1, <2>2
  <2> QED
    BY <1>2, <2>1, <2>3, <2>4, <2>5
<1> QED
  BY <1>3 DEF Back

\* What is recorded stays, and at most the new interval is added.
LEMMA RecordedGoesOn ==
    ASSUME NEW h \in Seq(Interval), NEW c \in Interval
    PROVE  \E m \in Nat, n \in Nat :
              m <= n /\ GoesOn(Recorded(h), Recorded(Append(h, c)), m, n)
<1> DEFINE N == Len(h)
           g == Append(h, c)
           P == {i \in DOMAIN h : h[i].price > 0}
           Q == {i \in DOMAIN g : g[i].price > 0}
           m == Cardinality(P)
           n == Cardinality(Q)
           Below(T, i) == {j \in T : j < i}
           In(T, k) == {i \in T : Cardinality(Below(T, i)) = k - 1}
<1>1. /\ N \in Nat /\ DOMAIN h = 1 .. N /\ DOMAIN g = 1 .. N + 1
      /\ \A i \in 1 .. N : g[i] = h[i]
  OBVIOUS
<1> HIDE DEF g
<1>2. P \subseteq 1 .. N /\ P \subseteq Q /\ Q \subseteq P \cup {N + 1} /\ N + 1 \notin P
  BY <1>1
<1> HIDE DEF P, Q, N
<1>3. IsFiniteSet(P) /\ IsFiniteSet(Q) /\ m \in Nat /\ n \in Nat /\ m <= n
  <2>1. IsFiniteSet(1 .. N)
    BY <1>1, FS_Interval
  <2>2. IsFiniteSet(P) /\ m \in Nat
    BY <1>2, <2>1, FS_Subset, FS_CardinalityType
  <2>3. IsFiniteSet(P \cup {N + 1})
    BY <2>2, FS_AddElement
  <2>4. IsFiniteSet(Q)
    BY <1>2, <2>3, FS_Subset
  <2>5. n \in Nat /\ m <= n
    BY <1>2, <2>4, FS_Subset, FS_CardinalityType
  <2> QED
    BY <2>2, <2>4, <2>5
<1>4. ASSUME NEW k \in 1 .. m PROVE In(P, k) = In(Q, k)
  <2>0. /\ N \in Nat /\ \A i \in P : i \in Int /\ i <= N
        /\ \A i \in Q : i \in P \/ i = N + 1
    BY <1>1, <1>2
  <2>1. ASSUME NEW i \in P PROVE Below(P, i) = Below(Q, i)
    <3>1. \A j \in Q : j < i => j \in P
      BY <2>0
    <3> QED
      BY <1>2, <3>1
  <2>2. Below(Q, N + 1) = P
    <3>1. \A j \in Q : j < N + 1 <=> j \in P
      BY <1>2, <2>0
    <3> QED
      BY <1>2, <3>1
  <2>3. N + 1 \notin In(Q, k)
    <3> HIDE DEF Below
    <3>1. m # k - 1
      BY <1>3
    <3>2. Cardinality(Below(Q, N + 1)) = m
      BY <2>2
    <3> QED
      BY <3>1, <3>2
  <2>4. \A i : i \in In(P, k) <=> i \in In(Q, k)
    BY <1>2, <2>0, <2>1, <2>3
  <2> QED
    BY <2>4
<1>5. ASSUME NEW k \in 1 .. m, NEW i \in In(P, k) PROVE i \in 1 .. N
  BY <1>2
<1>6. ASSUME NEW k \in 1 .. m PROVE In(P, k) # {}
  <2> DEFINE Upto(i) == {j \in P : j <= i}
             A == {i \in P : Cardinality(Upto(i)) >= k}
  <2>0. P \subseteq Int /\ P # {}
    <3>1. P # {}
      BY <1>3, FS_EmptySet
    <3> QED
      BY <1>1, <1>2, <3>1
  <2>1. A # {}
    <3>1. Max(P) \in P /\ \A j \in P : j <= Max(P)
      BY <1>3, <2>0, MaxIsGreatest
    <3>2. Upto(Max(P)) = P
      BY <3>1
    <3> QED
      BY <1>3, <3>1, <3>2
  <2>2. PICK i \in A : \A j \in A : i <= j
    <3>1. A \subseteq Int /\ IsFiniteSet(A)
      BY <1>3, <2>0, FS_Subset
    <3> QED
      BY <2>1, <3>1, MinIsLeast
  <2>3. /\ Upto(i) = Below(P, i) \cup {i} /\ i \notin Below(P, i) /\ i \in P
        /\ IsFiniteSet(Below(P, i)) /\ Cardinality(Below(P, i)) \in Nat
    <3>1. IsFiniteSet(Below(P, i)) /\ Cardinality(Below(P, i)) \in Nat
      BY <1>3, FS_Subset, FS_CardinalityType
    <3>2. i \in P /\ i \in Int
      BY <2>0
    <3>3. \A j \in P : j <= i <=> j < i \/ j = i
      BY <2>0, <3>2
    <3>4. Upto(i) = Below(P, i) \cup {i}
      <4>1. \A j : j \in Upto(i) <=> j \in Below(P, i) \/ j = i
        BY <3>2, <3>3
      <4> HIDE DEF Upto, Below
      <4> QED
        BY <4>1
    <3>5. i \notin Below(P, i)
      BY <3>2
    <3> QED
      BY <3>1, <3>2, <3>4, <3>5
  <2>4. Cardinality(Upto(i)) = Cardinality(Below(P, i)) + 1
    BY <2>3, FS_AddElement
  <2>5. Cardinality(Upto(i)) >= k
    OBVIOUS
  <2>6. Cardinality(Below(P, i)) < k
    <3>1. CASE Below(P, i) = {}
      BY <3>1, FS_EmptySet
    <3>2. CASE Below(P, i) # {}
      <4> DEFINE j == Max(Below(P, i))
      <4>1. j \in Below(P, i) /\ \A y \in Below(P, i) : y <= j
        BY <2>0, <2>3, <3>2, MaxIsGreatest
      <4> HIDE DEF j
      <4>2. Upto(j) = Below(P, i)
        <5>1. j \in P /\ j < i /\ j \in Int /\ i \in Int
          BY <2>0, <2>3, <4>1
        <5>2. \A y \in P : y <= j <=> y < i
          <6>1. \A y \in P : y < i => y <= j
            BY <4>1
          <6> QED
            BY <2>0, <5>1, <6>1
        <5> QED
          BY <5>2
      <4>3. j \notin A
        BY <2>0, <2>2, <2>3, <4>1
      <4>4. ~(Cardinality(Below(P, i)) >= k)
        BY <4>1, <4>2, <4>3
      <4> QED
        BY <2>3, <4>4
    <3> QED
      BY <3>1, <3>2
  <2>7. Cardinality(Below(P, i)) = k - 1
    BY <2>3, <2>4, <2>5, <2>6
  <2> QED
    BY <2>3, <2>7
<1>7. ASSUME NEW k \in 1 .. m
      PROVE  /\ (CHOOSE i \in P : Cardinality(Below(P, i)) = k - 1) = CHOOSE i \in In(P, k) : TRUE
             /\ (CHOOSE i \in Q : Cardinality(Below(Q, i)) = k - 1) = CHOOSE i \in In(Q, k) : TRUE
  OBVIOUS
<1>8. /\ Recorded(h) = [k \in 1 .. m |-> h[CHOOSE i \in P : Cardinality(Below(P, i)) = k - 1]]
      /\ Recorded(g) = [k \in 1 .. n |-> g[CHOOSE i \in Q : Cardinality(Below(Q, i)) = k - 1]]
  BY DEF Recorded, P, Q
<1>9. ASSUME NEW k \in 1 .. m PROVE Recorded(h)[k] = Recorded(g)[k]
  <2> DEFINE x == CHOOSE i \in In(P, k) : TRUE
  <2>1. x \in In(P, k)
    BY <1>6
  <2>2. x = CHOOSE i \in In(Q, k) : TRUE
    BY <1>4
  <2>3. k \in 1 .. n
    BY <1>3
  <2> HIDE DEF In
  <2>4. h[x] = g[x]
    BY <1>1, <1>5, <2>1
  <2> HIDE DEF x
  <2>5. Recorded(h)[k] = h[x]
    BY <1>7, <1>8 DEF x
  <2>6. Recorded(g)[k] = g[x]
    BY <1>7, <1>8, <2>2, <2>3
  <2> QED
    BY <2>4, <2>5, <2>6
<1>10. IsColumn(Recorded(h), m) /\ IsColumn(Recorded(g), n)
  BY <1>8 DEF IsColumn
<1> QED
  BY <1>3, <1>9, <1>10 DEF GoesOn, g

-----------------------------------------------------------------------------
(* The columns of pfd_indicator.py, one operation after the other.         *)

LEMMA PricesGoOn ==
    ASSUME NEW m \in Nat, NEW n \in Nat, m <= n, NEW b, NEW a, GoesOn(b, a, m, n)
    PROVE  GoesOn(PriceColumn(b), PriceColumn(a), m, n)
<1>1. DOMAIN b = 1 .. m /\ DOMAIN a = 1 .. n /\ \A i \in 1 .. m : i \in 1 .. n /\ b[i] = a[i]
  BY ColumnIs DEF GoesOn
<1> QED
  BY <1>1 DEF PriceColumn, GoesOn, IsColumn

LEMMA VolatilityGoesOn ==
    ASSUME NEW m \in Nat, NEW n \in Nat, m <= n, NEW s, NEW t, GoesOn(s, t, m, n)
    PROVE  GoesOn(SigPxColumn(s), SigPxColumn(t), m, n)
<1>1. DOMAIN s = 1 .. m /\ DOMAIN t = 1 .. n /\ \A i \in 1 .. m : i \in 1 .. n
  BY ColumnIs DEF GoesOn
<1>2. ASSUME NEW i \in 1 .. m PROVE SigPxColumn(s)[i] = SigPxColumn(t)[i]
  <2>1. CASE i > WindowSize
    <3>1. Back(s, i, WindowSize + 1) = Back(t, i, WindowSize + 1)
      BY <2>1, Constants, SameWindow
    <3> QED
      BY <1>1, <3>1 DEF SigPxColumn
  <2>2. CASE ~(i > WindowSize)
    BY <1>1, <2>2 DEF SigPxColumn
  <2> QED
    BY <2>1, <2>2
<1>3. IsColumn(SigPxColumn(s), m) /\ IsColumn(SigPxColumn(t), n)
  BY <1>1 DEF SigPxColumn, IsColumn
<1> QED
  BY <1>2, <1>3 DEF GoesOn

\* Each component of an interval rests on it and those before.
ComponentsGoOn(c, d, m, n) ==
    /\ GoesOn(c.px, d.px, m, n) /\ GoesOn(c.sigPx, d.sigPx, m, n)
    /\ GoesOn(c.tr, d.tr, m, n) /\ GoesOn(c.flow, d.flow, m, n)
    /\ GoesOn(c.stdFlow, d.stdFlow, m, n)

LEMMA ComponentsAre ==
    ASSUME NEW m \in Nat, NEW n \in Nat, m <= n, NEW b, NEW a, GoesOn(b, a, m, n)
    PROVE  ComponentsGoOn(Components(b), Components(a), m, n)
<1>1. DOMAIN b = 1 .. m /\ DOMAIN a = 1 .. n /\ \A i \in 1 .. m : i \in 1 .. n /\ b[i] = a[i]
  BY ColumnIs DEF GoesOn
<1> DEFINE p == PriceColumn(b)
           q == PriceColumn(a)
<1>2. GoesOn(p, q, m, n)
  BY PricesGoOn
<1> HIDE DEF p, q
<1>3. GoesOn(SigPxColumn(p), SigPxColumn(q), m, n)
  BY <1>2, VolatilityGoesOn
<1>4. ASSUME NEW i \in 1 .. m, i > WindowSize
      PROVE  Momentum(p, i) = Momentum(q, i) /\ FlowWindow(b, i) = FlowWindow(a, i)
  <2>1. i - WindowSize \in 1 .. m /\ \A j \in 1 .. WindowSize : i - 1 - WindowSize + j \in 1 .. m
    BY <1>4, Constants
  <2>2. \A k \in 1 .. m : p[k] = q[k]
    BY <1>2 DEF GoesOn
  <2>3. Momentum(p, i) = Momentum(q, i)
    BY <2>1, <2>2 DEF Momentum
  <2>4. FlowWindow(b, i) = FlowWindow(a, i)
    BY <1>1, <2>1 DEF FlowWindow
  <2> QED
    BY <2>3, <2>4
<1> DEFINE c == Components(b)
           d == Components(a)
<1>5. /\ c.px = p /\ c.sigPx = SigPxColumn(p)
      /\ d.px = q /\ d.sigPx = SigPxColumn(q)
  BY DEF Components, p, q
<1>6. /\ c.tr = [i \in 1 .. m |-> IF i > WindowSize THEN Momentum(p, i) ELSE 0]
      /\ d.tr = [i \in 1 .. n |-> IF i > WindowSize THEN Momentum(q, i) ELSE 0]
  BY <1>1 DEF Components, p, q
<1>7. /\ c.flow = [i \in 1 .. m |-> IF i > WindowSize THEN Total(FlowWindow(b, i)) ELSE 0]
      /\ d.flow = [i \in 1 .. n |-> IF i > WindowSize THEN Total(FlowWindow(a, i)) ELSE 0]
  BY <1>1 DEF Components
<1>8. /\ c.stdFlow = [i \in 1 .. m |-> IF i > WindowSize THEN Spread(FlowWindow(b, i)) ELSE 0]
      /\ d.stdFlow = [i \in 1 .. n |-> IF i > WindowSize THEN Spread(FlowWindow(a, i)) ELSE 0]
  BY <1>1 DEF Components
<1> HIDE DEF c, d
<1>9. GoesOn(c.tr, d.tr, m, n)
  <2>1. IsColumn(c.tr, m)
    BY <1>6 DEF IsColumn
  <2>2. IsColumn(d.tr, n)
    BY <1>6 DEF IsColumn
  <2>3. ASSUME NEW i \in 1 .. m PROVE c.tr[i] = d.tr[i]
    <3>1. CASE i > WindowSize
      BY <1>1, <1>4, <1>6, <3>1
    <3>2. CASE ~(i > WindowSize)
      BY <1>1, <1>6, <3>2
    <3> QED
      BY <3>1, <3>2
  <2> QED
    BY <2>1, <2>2, <2>3 DEF GoesOn
<1>10. GoesOn(c.flow, d.flow, m, n)
  <2>1. IsColumn(c.flow, m)
    BY <1>7 DEF IsColumn
  <2>2. IsColumn(d.flow, n)
    BY <1>7 DEF IsColumn
  <2>3. ASSUME NEW i \in 1 .. m PROVE c.flow[i] = d.flow[i]
    <3>1. CASE i > WindowSize
      BY <1>1, <1>4, <1>7, <3>1
    <3>2. CASE ~(i > WindowSize)
      BY <1>1, <1>7, <3>2
    <3> QED
      BY <3>1, <3>2
  <2> QED
    BY <2>1, <2>2, <2>3 DEF GoesOn
<1>11. GoesOn(c.stdFlow, d.stdFlow, m, n)
  <2>1. IsColumn(c.stdFlow, m)
    BY <1>8 DEF IsColumn
  <2>2. IsColumn(d.stdFlow, n)
    BY <1>8 DEF IsColumn
  <2>3. ASSUME NEW i \in 1 .. m PROVE c.stdFlow[i] = d.stdFlow[i]
    <3>1. CASE i > WindowSize
      BY <1>1, <1>4, <1>8, <3>1
    <3>2. CASE ~(i > WindowSize)
      BY <1>1, <1>8, <3>2
    <3> QED
      BY <3>1, <3>2
  <2> QED
    BY <2>1, <2>2, <2>3 DEF GoesOn
<1>12. ComponentsGoOn(c, d, m, n)
  BY <1>2, <1>3, <1>5, <1>9, <1>10, <1>11 DEF ComponentsGoOn
<1> QED
  BY <1>12 DEF c, d

LEMMA RawGoesOn ==
    ASSUME NEW m \in Nat, NEW n \in Nat, m <= n, NEW c, NEW d, ComponentsGoOn(c, d, m, n),
           NEW f
    PROVE  GoesOn(RawColumn(c, f), RawColumn(d, f), m, n)
<1>1. /\ DOMAIN c.px = 1 .. m /\ DOMAIN d.px = 1 .. n
      /\ \A i \in 1 .. m : i \in 1 .. n
  BY ColumnIs DEF GoesOn, ComponentsGoOn
<1>2. \A i \in 1 .. m : /\ c.sigPx[i] = d.sigPx[i] /\ c.tr[i] = d.tr[i]
                        /\ c.flow[i] = d.flow[i] /\ c.stdFlow[i] = d.stdFlow[i]
  BY DEF GoesOn, ComponentsGoOn
<1>3. IsColumn(RawColumn(c, f), m) /\ IsColumn(RawColumn(d, f), n)
  BY <1>1 DEF RawColumn, IsColumn
<1>4. \A i \in 1 .. m : RawColumn(c, f)[i] = RawColumn(d, f)[i]
  BY <1>1, <1>2 DEF RawColumn
<1> QED
  BY <1>3, <1>4 DEF GoesOn

LEMMA ConfirmGoesOn ==
    ASSUME NEW m \in Nat, NEW n \in Nat, m <= n, NEW s, NEW t, GoesOn(s, t, m, n),
           NEW k \in Nat
    PROVE  GoesOn(Confirm(s, k), Confirm(t, k), m, n)
<1>1. DOMAIN s = 1 .. m /\ DOMAIN t = 1 .. n /\ \A i \in 1 .. m : i \in 1 .. n /\ s[i] = t[i]
  BY ColumnIs DEF GoesOn
<1>2. IsColumn(Confirm(s, k), m) /\ IsColumn(Confirm(t, k), n)
  BY <1>1 DEF Confirm, IsColumn
<1>3. ASSUME NEW i \in 1 .. m PROVE Confirm(s, k)[i] = Confirm(t, k)[i]
  <2>1. i > k => \A j \in 1 .. k : i - j \in 1 .. m
    OBVIOUS
  <2>2. i > k => \A j \in 1 .. k : s[i - j] = t[i - j]
    BY <1>1, <2>1
  <2>3. i > k => ((\A j \in 1 .. k : s[i - j] = s[i]) <=> \A j \in 1 .. k : t[i - j] = t[i])
    BY <1>1, <2>2
  <2> QED
    BY <1>1, <2>3 DEF Confirm
<1> QED
  BY <1>2, <1>3 DEF GoesOn

\* A mean of n prices, as the recursion that defines it has it.
NextMean(px, span, x, i) == (span - 1) * x + 2 * px[i] * (span + 1) ^ (i - 2)

IsMean(e, px, span, n) ==
    e = [i \in 1 .. n |-> IF i = 1 THEN px[1] ELSE NextMean(px, span, e[i - 1], i)]

\* A set of numbers that is not empty has a least one.
LEMMA LeastNatural ==
    ASSUME NEW S, S \subseteq Nat, S # {}
    PROVE  \E k \in S : \A y \in S : k <= y
<1>1. PICK k \in S : \A y \in S : ~(<<y, k>> \in OpToRel(<, Nat))
  BY NatLessThanWellFounded, WFMin
<1>2. \A y \in S : ~(y < k)
  BY <1>1 DEF OpToRel
<1> QED
  BY <1>2

\* There is such a mean, since the least number of prices without one does not exist.
LEMMA MeanExists ==
    ASSUME NEW px, NEW span, NEW n \in Nat
    PROVE  \E e : IsMean(e, px, span, n)
<1> DEFINE Missing == {k \in Nat : \A e : ~IsMean(e, px, span, k)}
<1> SUFFICES ASSUME Missing # {} PROVE FALSE
  OBVIOUS
<1>1. PICK k \in Missing : \A y \in Missing : k <= y
  BY LeastNatural
<1>2. k # 0
  <2>1. IsMean([i \in 1 .. 0 |-> 0], px, span, 0)
    BY DEF IsMean
  <2> QED
    BY <2>1
<1>3. k - 1 \in Nat /\ k - 1 \notin Missing
  BY <1>1, <1>2
<1>4. PICK e : IsMean(e, px, span, k - 1)
  BY <1>3
<1> DEFINE g == [i \in 1 .. k |-> IF i = 1 THEN px[1] ELSE NextMean(px, span, e[i - 1], i)]
<1>5. ASSUME NEW i \in 1 .. k - 1 PROVE g[i] = e[i]
  BY <1>3, <1>4, <1>5 DEF IsMean
<1>6. ASSUME NEW i \in 1 .. k, i # 1 PROVE g[i - 1] = e[i - 1]
  <2>1. i - 1 \in 1 .. k - 1
    BY <1>6
  <2> HIDE DEF g
  <2> QED
    BY <1>5, <2>1
<1>7. IsMean(g, px, span, k)
  <2>1. ASSUME NEW i \in 1 .. k
        PROVE  (IF i = 1 THEN px[1] ELSE NextMean(px, span, e[i - 1], i))
                 = IF i = 1 THEN px[1] ELSE NextMean(px, span, g[i - 1], i)
    <3>1. CASE i = 1
      BY <3>1
    <3>2. CASE i # 1
      <4>1. g[i - 1] = e[i - 1]
        BY <1>6, <3>2
      <4> HIDE DEF g
      <4> QED
        BY <3>2, <4>1
    <3> QED
      BY <3>1, <3>2
  <2>2. g = [i \in 1 .. k |-> IF i = 1 THEN px[1] ELSE NextMean(px, span, e[i - 1], i)]
    OBVIOUS
  <2> HIDE DEF g
  <2> QED
    BY <2>1, <2>2 DEF IsMean
<1> QED
  BY <1>7

\* Hence EmaColumn is one.
LEMMA MeanIs ==
    ASSUME NEW n \in Nat, NEW px, DOMAIN px = 1 .. n, NEW span
    PROVE  IsMean(EmaColumn(px, span), px, span, n)
<1>1. EmaColumn(px, span) = CHOOSE e : IsMean(e, px, span, n)
  BY Zenon DEF EmaColumn, IsMean, NextMean
<1> QED
  BY <1>1, MeanExists

LEMMA MeanGoesOn ==
    ASSUME NEW m \in Nat, NEW n \in Nat, m <= n, NEW s, NEW t, GoesOn(s, t, m, n), NEW span
    PROVE  GoesOn(EmaColumn(s, span), EmaColumn(t, span), m, n)
<1>1. DOMAIN s = 1 .. m /\ DOMAIN t = 1 .. n /\ \A i \in 1 .. m : i \in 1 .. n /\ s[i] = t[i]
  BY ColumnIs DEF GoesOn
<1> DEFINE e == EmaColumn(s, span)
           g == EmaColumn(t, span)
<1>2. IsMean(e, s, span, m) /\ IsMean(g, t, span, n)
  BY <1>1, MeanIs
<1> HIDE DEF e, g
<1>3. IsColumn(e, m) /\ IsColumn(g, n)
  BY <1>2 DEF IsMean, IsColumn
<1>4. ASSUME NEW i \in 1 .. m, i # 1, e[i - 1] = g[i - 1] PROVE e[i] = g[i]
  <2>1. e[i] = NextMean(s, span, e[i - 1], i)
    BY <1>2, <1>4 DEF IsMean
  <2>2. g[i] = NextMean(t, span, g[i - 1], i)
    BY <1>1, <1>2, <1>4 DEF IsMean
  <2>3. s[i] = t[i]
    BY <1>1
  <2> QED
    BY <1>4, <2>1, <2>2, <2>3 DEF NextMean
<1>5. 1 \in 1 .. m => e[1] = g[1]
  BY <1>1, <1>2 DEF IsMean
<1> DEFINE Different == {i \in 1 .. m : e[i] # g[i]}
<1>6. Different = {}
  <2>1. SUFFICES ASSUME Different # {} PROVE FALSE
    OBVIOUS
  <2>2. PICK i \in Different : \A y \in Different : i <= y
    <3>1. Different \subseteq Nat
      OBVIOUS
    <3> HIDE DEF Different
    <3> QED
      BY <2>1, <3>1, LeastNatural
  <2>3. i # 1 /\ i \in 1 .. m
    BY <1>5
  <2>4. i - 1 \in 1 .. m /\ i - 1 \notin Different
    BY <2>2, <2>3
  <2> QED
    BY <1>4, <2>3, <2>4
<1>7. GoesOn(e, g, m, n)
  BY <1>3, <1>6 DEF GoesOn
<1> QED
  BY <1>7 DEF e, g

\* What FiltersAssumption says of a filter.
Filter ==
    [reversal : BOOLEAN, confirm : Nat, flowless : BOOLEAN,
     ema : Nat, trend : {"aligned", "against"}, strength : Nat,
     autocorr : Nat \ {1, 2}, fade : BOOLEAN,
     vol : Nat \ {1, 2}, direction : SUBSET {-1, 1}]

\* A correlation rests on as many changes as its window is long, and the one before.
LEMMA SameCorrelation ==
    ASSUME NEW m \in Nat, NEW n \in Nat, m <= n, NEW s, NEW t, GoesOn(s, t, m, n),
           NEW i \in 1 .. m, NEW w \in Nat
    PROVE  Autocorr(s, i, w) = Autocorr(t, i, w)
<1>1. CASE i < w + 2
  BY <1>1 DEF Autocorr
<1>2. CASE ~(i < w + 2)
  <2>1. Len(s) = m /\ Len(t) = n /\ \A k \in 1 .. m : s[k] = t[k]
    BY ColumnIs DEF GoesOn
  <2> DEFINE cs == [j \in 2 .. m |-> s[j] - s[j - 1]]
             ct == [j \in 2 .. n |-> t[j] - t[j - 1]]
  <2>2. \A j \in 2 .. m : cs[j] = ct[j]
    <3>1. \A j \in 2 .. m : j \in 2 .. n /\ j \in 1 .. m /\ j - 1 \in 1 .. m
      OBVIOUS
    <3> QED
      BY <2>1, <3>1
  <2>3. \A j \in 1 .. w : i - w + j \in 2 .. m /\ i - w + j - 1 \in 2 .. m
    BY <1>2
  <2> HIDE DEF cs, ct
  <2> DEFINE rs == [j \in 1 .. w |-> cs[i - w + j]]
             ys == [j \in 1 .. w |-> cs[i - w + j - 1]]
             rt == [j \in 1 .. w |-> ct[i - w + j]]
             yt == [j \in 1 .. w |-> ct[i - w + j - 1]]
  <2>4. rs = rt /\ ys = yt
    BY <2>2, <2>3
  <2>5. Autocorr(s, i, w) =
          IF i < w + 2 \/ Spread(rs) = 0 \/ Spread(ys) = 0 THEN {}
          ELSE {Direction(w * Total([j \in 1 .. w |-> rs[j] * ys[j]]) - Total(rs) * Total(ys))}
    BY <2>1 DEF Autocorr, cs
  <2>6. Autocorr(t, i, w) =
          IF i < w + 2 \/ Spread(rt) = 0 \/ Spread(yt) = 0 THEN {}
          ELSE {Direction(w * Total([j \in 1 .. w |-> rt[j] * yt[j]]) - Total(rt) * Total(yt))}
    BY <2>1 DEF Autocorr, ct
  <2> HIDE DEF rs, ys, rt, yt
  <2> QED
    BY <2>4, <2>5, <2>6
<1> QED
  BY <1>1, <1>2

LEMMA RegimeGoesOn ==
    ASSUME NEW m \in Nat, NEW n \in Nat, m <= n, NEW c, NEW d, ComponentsGoOn(c, d, m, n),
           NEW f \in Filter
    PROVE  GoesOn(Regime(c, f), Regime(d, f), m, n)
<1>1. /\ DOMAIN c.px = 1 .. m /\ DOMAIN d.px = 1 .. n
      /\ \A i \in 1 .. m : i \in 1 .. n
  BY ColumnIs DEF GoesOn, ComponentsGoOn
<1>2. GoesOn(c.px, d.px, m, n) /\ GoesOn(c.sigPx, d.sigPx, m, n)
  BY DEF ComponentsGoOn
<1>3. f.autocorr \in Nat /\ f.vol \in Nat
  BY DEF Filter
<1>4. ASSUME NEW i \in 1 .. m
      PROVE  /\ Autocorr(c.px, i, f.autocorr) = Autocorr(d.px, i, f.autocorr)
             /\ VolAllows(c.sigPx, i, f.vol) <=> VolAllows(d.sigPx, i, f.vol)
  <2>1. Autocorr(c.px, i, f.autocorr) = Autocorr(d.px, i, f.autocorr)
    BY <1>2, <1>3, SameCorrelation
  <2>2. CASE i >= f.vol
    <3>1. Back(c.sigPx, i, f.vol) = Back(d.sigPx, i, f.vol)
      BY <1>2, <1>3, <2>2, SameWindow
    <3>2. c.sigPx[i] = d.sigPx[i]
      BY <1>2 DEF GoesOn
    <3> QED
      BY <2>1, <3>1, <3>2 DEF VolAllows, RollingMedian
  <2>3. CASE ~(i >= f.vol)
    BY <2>1, <2>3 DEF VolAllows
  <2> QED
    BY <2>2, <2>3
<1>5. IsColumn(Regime(c, f), m) /\ IsColumn(Regime(d, f), n)
  BY <1>1 DEF Regime, IsColumn
<1>6. \A i \in 1 .. m : Regime(c, f)[i] = Regime(d, f)[i]
  BY <1>1, <1>4 DEF Regime
<1> QED
  BY <1>5, <1>6 DEF GoesOn

\* The signals, whichever filters are on.
LEMMA SignalsGoOn ==
    ASSUME NEW m \in Nat, NEW n \in Nat, m <= n, NEW b, NEW a, GoesOn(b, a, m, n),
           NEW f \in Filter
    PROVE  GoesOn(OfflineSignals(b, f), OfflineSignals(a, f), m, n)
<1> DEFINE c == Components(b)
           d == Components(a)
<1>1. ComponentsGoOn(c, d, m, n)
  BY ComponentsAre
<1> HIDE DEF c, d
<1> DEFINE r == Regime(c, f)
           q == Regime(d, f)
           u == Confirm(RawColumn(c, f), f.confirm)
           v == Confirm(RawColumn(d, f), f.confirm)
           e == EmaColumn(c.px, f.ema)
           g == EmaColumn(d.px, f.ema)
<1>2. GoesOn(r, q, m, n)
  BY <1>1, RegimeGoesOn
<1>3. GoesOn(u, v, m, n)
  <2>1. f.confirm \in Nat
    BY DEF Filter
  <2> QED
    BY <1>1, <2>1, RawGoesOn, ConfirmGoesOn
<1>4. GoesOn(e, g, m, n) /\ GoesOn(c.px, d.px, m, n)
  BY <1>1, MeanGoesOn DEF ComponentsGoOn
<1>5. OfflineSignals(b, f) = SignalsFromComponents(c, r, f)
  BY DEF OfflineSignals, c
<1>6. OfflineSignals(a, f) = SignalsFromComponents(d, q, f)
  BY DEF OfflineSignals, d
<1> DEFINE SideOf(x) == IF f.autocorr # 0 /\ f.fade THEN -x ELSE x
           S == [i \in 1 .. m |->
                   IF SideOf(u[i]) \in f.direction /\ TrendAllows(c.px, e, i, u[i], f) /\ r[i]
                   THEN SideOf(u[i]) ELSE 0]
           T == [i \in 1 .. n |->
                   IF SideOf(v[i]) \in f.direction /\ TrendAllows(d.px, g, i, v[i], f) /\ q[i]
                   THEN SideOf(v[i]) ELSE 0]
<1>7. DOMAIN c.px = 1 .. m /\ DOMAIN d.px = 1 .. n
  BY <1>4, ColumnIs DEF GoesOn
<1>8. SignalsFromComponents(c, r, f) = S
  BY <1>7 DEF SignalsFromComponents
<1>9. SignalsFromComponents(d, q, f) = T
  BY <1>7 DEF SignalsFromComponents
<1> HIDE DEF r, q, u, v, e, g
<1>10. ASSUME NEW i \in 1 .. m
       PROVE  /\ TrendAllows(c.px, e, i, u[i], f) <=> TrendAllows(d.px, g, i, v[i], f)
              /\ u[i] = v[i] /\ r[i] = q[i] /\ i \in 1 .. n
  <2>1. u[i] = v[i] /\ r[i] = q[i] /\ c.px[i] = d.px[i] /\ e[i] = g[i]
    BY <1>2, <1>3, <1>4 DEF GoesOn
  <2> QED
    BY <2>1 DEF TrendAllows
<1>11. GoesOn(S, T, m, n)
  <2>1. IsColumn(S, m) /\ IsColumn(T, n)
    BY DEF IsColumn
  <2>2. ASSUME NEW i \in 1 .. m PROVE S[i] = T[i]
    BY <1>10
  <2> QED
    BY <2>1, <2>2 DEF GoesOn
<1> QED
  BY <1>5, <1>6, <1>8, <1>9, <1>11

\* The score of decoder_LTFI.
LEMMA CombGoesOn ==
    ASSUME NEW m \in Nat, NEW n \in Nat, m <= n, NEW b, NEW a, GoesOn(b, a, m, n)
    PROVE  GoesOn(CombColumn(b), CombColumn(a), m, n)
<1>1. DOMAIN b = 1 .. m /\ DOMAIN a = 1 .. n /\ \A i \in 1 .. m : i \in 1 .. n /\ b[i] = a[i]
  BY ColumnIs DEF GoesOn
<1> DEFINE p == PriceColumn(b)
           q == PriceColumn(a)
           FlowsOfBar(iv, i) == [j \in 1 .. WindowSize |-> iv[i - WindowSize + j].flow]
           Value(px, flow, i) ==
               IF Spread(flow) > 0 THEN {Momentum(px, i) - Total(flow)}
               ELSE {-Direction(Total(flow)) * (Max(Prices) + WindowSize + 1)} \ {0}
<1>2. GoesOn(p, q, m, n) /\ GoesOn(SigPxColumn(p), SigPxColumn(q), m, n)
  BY PricesGoOn, VolatilityGoesOn
<1>3. CombColumn(b) = [i \in 1 .. m |-> IF i > WindowSize /\ SigPxColumn(p)[i] > 0
                                         THEN Value(p, FlowsOfBar(b, i), i) ELSE {}]
  BY <1>1 DEF CombColumn
<1>4. CombColumn(a) = [i \in 1 .. n |-> IF i > WindowSize /\ SigPxColumn(q)[i] > 0
                                         THEN Value(q, FlowsOfBar(a, i), i) ELSE {}]
  BY <1>1 DEF CombColumn
<1> HIDE DEF p, q
<1>5. ASSUME NEW i \in 1 .. m, i > WindowSize
      PROVE  Value(p, FlowsOfBar(b, i), i) = Value(q, FlowsOfBar(a, i), i)
  <2>1. i - WindowSize \in 1 .. m /\ \A j \in 1 .. WindowSize : i - WindowSize + j \in 1 .. m
    BY <1>5, Constants
  <2>2. \A k \in 1 .. m : p[k] = q[k]
    BY <1>2 DEF GoesOn
  <2>3. Momentum(p, i) = Momentum(q, i)
    BY <2>1, <2>2 DEF Momentum
  <2>4. FlowsOfBar(b, i) = FlowsOfBar(a, i)
    BY <1>1, <2>1
  <2> HIDE DEF FlowsOfBar
  <2> QED
    BY <2>3, <2>4
<1> HIDE DEF Value, FlowsOfBar
<1>6. ASSUME NEW i \in 1 .. m PROVE CombColumn(b)[i] = CombColumn(a)[i]
  <2>1. SigPxColumn(p)[i] = SigPxColumn(q)[i]
    BY <1>2 DEF GoesOn
  <2>2. CASE i > WindowSize
    BY <1>1, <1>3, <1>4, <1>5, <2>1, <2>2
  <2>3. CASE ~(i > WindowSize)
    BY <1>1, <1>3, <1>4, <2>3
  <2> QED
    BY <2>2, <2>3
<1>7. IsColumn(CombColumn(b), m)
  BY <1>3 DEF IsColumn
<1>8. IsColumn(CombColumn(a), n)
  BY <1>4 DEF IsColumn
<1> QED
  BY <1>6, <1>7, <1>8 DEF GoesOn

\* The history grows by one interval at a time.
LEMMA HistoryGrows ==
    ASSUME TypeOK, [Next]_vars
    PROVE  closed' = closed \/ \E c \in Interval : closed' = Append(closed, c)
<1>1. ASSUME NEW p \in Prices \cup {0}, NEW buy \in Int, NEW sell \in Int, NEW passed \in BOOLEAN,
             MaybeRollInterval(passed, p, buy, sell)
      PROVE  closed' = closed \/ \E c \in Interval : closed' = Append(closed, c)
  <2>1. Direction(buy - sell) \in Flow
    BY DEF Direction, Flow
  <2>2. [price |-> p, flow |-> Direction(buy - sell)] \in Interval
    BY <2>1 DEF Interval
  <2> QED
    BY <1>1, <2>2 DEF MaybeRollInterval, RollInterval
<1>2. CASE Next
  <2>1. PICK passed \in BOOLEAN :
           SetPublicTrade(passed) \/ \E p \in Prices : SetMidPrice(p, passed)
    BY <1>2 DEF Next
  <2>2. midPrice \in Prices \cup {0} /\ buyVol \in Int /\ sellVol \in Int /\ MaxVolume \in Nat
    BY IndicatorAssumption DEF TypeOK
  <2>3. CASE SetPublicTrade(passed)
    <3>1. PICK buy \in buyVol .. MaxVolume, sell \in sellVol .. MaxVolume :
             MaybeRollInterval(passed, midPrice, buy, sell)
      BY <2>3 DEF SetPublicTrade
    <3>2. buy \in Int /\ sell \in Int
      BY <2>2
    <3> QED
      BY <1>1, <2>2, <3>1, <3>2
  <2>4. CASE \E p \in Prices : SetMidPrice(p, passed)
    BY <1>1, <2>2, <2>4 DEF SetMidPrice
  <2> QED
    BY <2>1, <2>3, <2>4
<1>3. CASE UNCHANGED vars
  BY <1>3 DEF vars
<1> QED
  BY <1>2, <1>3

\* An interval more leaves all that was computed for the earlier ones.
LEMMA NothingRepainted ==
    ASSUME closed \in Seq(Interval), NEW c \in Interval, closed' = Append(closed, c)
    PROVE  /\ \A f \in Filters :
                 IsPrefix(OfflineSignals(Recorded(closed), f), OfflineSignals(Recorded(closed'), f))
           /\ IsPrefix(CombColumn(Recorded(closed)), CombColumn(Recorded(closed')))
<1>1. PICK m \in Nat, n \in Nat : m <= n /\ GoesOn(Recorded(closed), Recorded(closed'), m, n)
  BY RecordedGoesOn
<1>2. ASSUME NEW f \in Filters
      PROVE  IsPrefix(OfflineSignals(Recorded(closed), f), OfflineSignals(Recorded(closed'), f))
  <2>1. f \in Filter
    BY FiltersAssumption DEF Filter
  <2> QED
    BY <1>1, <2>1, SignalsGoOn, PrefixIs
<1>3. IsPrefix(CombColumn(Recorded(closed)), CombColumn(Recorded(closed')))
  BY <1>1, CombGoesOn, PrefixIs
<1> QED
  BY <1>2, <1>3

\* Whatever the series, the window and the filters: neither the signals of the research
\* programs nor the score of decoder_LTFI are repainted when an interval is added
\* (pfd_indicator.py:91-368, decoder_LTFI.py:103-142).
THEOREM NothingIsRepainted == Spec => NoRepaint
<1> DEFINE Keeps ==
       Len(closed') <= MaxRecorded =>
          \A before \in {Recorded(closed)}, after \in {Recorded(closed')} :
              /\ \A f \in Filters : IsPrefix(OfflineSignals(before, f), OfflineSignals(after, f))
              /\ IsPrefix(CombColumn(before), CombColumn(after))
<1>1. ASSUME TypeOK, [Next]_vars PROVE [Keeps]_closed
  <2>1. closed \in Seq(Interval)
    BY <1>1 DEF TypeOK, Interval
  <2>2. CASE \E c \in Interval : closed' = Append(closed, c)
    <3>1. PICK c \in Interval : closed' = Append(closed, c)
      BY <2>2
    <3>2. Keeps
      BY <2>1, <3>1, NothingRepainted
    <3> HIDE DEF Keeps
    <3> QED
      BY <3>2
  <2> QED
    BY <1>1, <2>2, HistoryGrows
<1>2. Spec => []TypeOK
  <2>1. Inv => TypeOK
    BY DEF Inv
  <2> QED
    BY <2>1, IndicatorInvariant, PTL
<1>3. TypeOK /\ [Next]_vars => [Keeps]_closed
  BY <1>1
<1> QED
  BY <1>2, <1>3, PTL DEF Spec, NoRepaint

=============================================================================
