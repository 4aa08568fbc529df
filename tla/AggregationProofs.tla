------------------------- MODULE AggregationProofs -------------------------
(***************************************************************************)
(* Proofs about the way from the log of public trades to the bars of the   *)
(* research programs, for any log, any size of the chunks, any piece of a  *)
(* row at the end of the file and any length of the intervals:             *)
(*   - what was whole on the disk is read once and in order;               *)
(*   - each bar of a second is that of all its trades;                     *)
(*   - each interval of bars is that of all its trades.                    *)
(*                                                                         *)
(* The sums are the reason for the length: nothing is known of the sum of  *)
(* a function but the recursion that defines it, so its laws come first.   *)
(***************************************************************************)
EXTENDS TradeAggregation, SequenceTheorems, FiniteSetTheorems,
        WellFoundedInduction, TLAPS

-----------------------------------------------------------------------------
(* The least and the greatest of a set.                                    *)

LEMMA LeastNatural ==
    ASSUME NEW S, S \subseteq Nat, S # {}
    PROVE  \E m \in S : \A y \in S : m <= y
<1>1. PICK m \in S : \A y \in S : ~(<<y, m>> \in OpToRel(<, Nat))
  BY NatLessThanWellFounded, WFMin
<1>2. \A y \in S : ~(y < m)
  BY <1>1 DEF OpToRel
<1> QED
  BY <1>2

\* One that is not greater than the others is the only one.
LEMMA EndsAre ==
    ASSUME NEW S, S \subseteq Int, NEW x \in S
    PROVE  /\ (\A y \in S : y <= x) => Max(S) = x
           /\ (\A y \in S : x <= y) => Min(S) = x
<1>1. ASSUME \A y \in S : y <= x PROVE Max(S) = x
  <2>1. \E z \in S : \A y \in S : z >= y
    BY <1>1
  <2> DEFINE m == CHOOSE z \in S : \A y \in S : z >= y
  <2>2. m \in S /\ \A y \in S : m >= y
    BY <2>1
  <2> HIDE DEF m
  <2>3. m = x
    BY <1>1, <2>2
  <2> QED
    BY <2>3 DEF Max, m
<1>2. ASSUME \A y \in S : x <= y PROVE Min(S) = x
  <2>1. \E z \in S : \A y \in S : z <= y
    BY <1>2
  <2> DEFINE m == CHOOSE z \in S : \A y \in S : z <= y
  <2>2. m \in S /\ \A y \in S : m <= y
    BY <2>1
  <2> HIDE DEF m
  <2>3. m = x
    BY <1>2, <2>2
  <2> QED
    BY <2>3 DEF Min, m
<1> QED
  BY <1>1, <1>2

HasEnds(S) == /\ \E x \in S : \A y \in S : y <= x
              /\ \E x \in S : \A y \in S : x <= y

LEMMA EndsOfFinite ==
    ASSUME NEW S, IsFiniteSet(S), S \subseteq Int, S # {}
    PROVE  /\ Max(S) \in S /\ \A y \in S : y <= Max(S)
           /\ Min(S) \in S /\ \A y \in S : Min(S) <= y
<1> DEFINE Bad == {m \in Nat : \E T \in SUBSET S : T # {} /\ Cardinality(T) = m /\ ~HasEnds(T)}
<1>1. \A T \in SUBSET S : IsFiniteSet(T) /\ Cardinality(T) \in Nat
  BY FS_Subset, FS_CardinalityType
<1>2. Bad = {}
  <2> SUFFICES ASSUME Bad # {} PROVE FALSE
    OBVIOUS
  <2>1. PICK m \in Bad : \A y \in Bad : m <= y
    BY LeastNatural
  <2>2. PICK T \in SUBSET S : T # {} /\ Cardinality(T) = m /\ ~HasEnds(T)
    BY <2>1
  <2>3. PICK x \in T : TRUE
    BY <2>2
  <2> DEFINE R == T \ {x}
  <2>4. R \in SUBSET S /\ Cardinality(R) = m - 1 /\ x \in Int /\ m \in Nat
    BY <1>1, <2>1, <2>2, <2>3, FS_RemoveElement
  <2>5. T = R \cup {x}
    BY <2>3
  <2> HIDE DEF R
  <2>6. R # {}
    <3> SUFFICES ASSUME R = {} PROVE FALSE
      OBVIOUS
    <3>1. T = {x}
      BY <2>5
    <3> QED
      BY <2>2, <2>4, <3>1 DEF HasEnds
  <2>7. HasEnds(R)
    <3>1. Cardinality(R) \in Nat /\ ~(m <= Cardinality(R))
      BY <1>1, <2>4
    <3> QED
      BY <1>1, <2>1, <2>4, <2>6, <3>1
  <2>8. PICK h \in R, l \in R : \A y \in R : y <= h /\ l <= y
    BY <2>7 DEF HasEnds
  <2>9. R \subseteq Int
    BY <2>4
  <2>10. \E z \in T : \A y \in T : y <= z
    BY <2>3, <2>4, <2>5, <2>8, <2>9
  <2>11. \E z \in T : \A y \in T : z <= y
    BY <2>3, <2>4, <2>5, <2>8, <2>9
  <2> QED
    BY <2>2, <2>10, <2>11 DEF HasEnds
<1>3. HasEnds(S)
  BY <1>1, <1>2
<1> QED
  BY <1>3, EndsAre DEF HasEnds

-----------------------------------------------------------------------------
(* The sum of a function.                                                  *)

Some(S) == CHOOSE x \in S : TRUE

\* The sums of f over the subsets of R, as the library folds them.
IsSums(g, f, R) ==
    g = [S \in SUBSET R |-> IF S = {} THEN 0 ELSE f[Some(S)] + g[S \ {Some(S)}]]

Sums(f, R) == CHOOSE g : IsSums(g, f, R)

LEMMA TotalUnfolds ==
    ASSUME NEW f
    PROVE  Total(f) = Sums(f, DOMAIN f)[DOMAIN f]
BY DEF Total, SumFunction, SumFunctionOnSet, FoldFunctionOnSet, MapThenFoldSet, Sums, IsSums, Some

LEMMA SomeOf ==
    ASSUME NEW R, NEW S \in SUBSET R, S # {}
    PROVE  Some(S) \in S /\ Some(S) \in R /\ S \ {Some(S)} \in SUBSET R
BY DEF Some

\* The recursion has a solution.
LEMMA SumsExist ==
    ASSUME NEW R, IsFiniteSet(R), NEW f
    PROVE  IsSums(Sums(f, R), f, R)
<1> DEFINE Upto(m) == {S \in SUBSET R : Cardinality(S) <= m}
           Good(m) == \E g : g = [S \in Upto(m) |->
                                IF S = {} THEN 0 ELSE f[Some(S)] + g[S \ {Some(S)}]]
           Bad == {m \in Nat : ~Good(m)}
<1>1. \A S \in SUBSET R : IsFiniteSet(S) /\ Cardinality(S) \in Nat /\ Cardinality(S) <= Cardinality(R)
  BY FS_Subset, FS_CardinalityType
<1>2. \A S \in SUBSET R : S # {} => /\ S \ {Some(S)} \in SUBSET R
                                    /\ Cardinality(S \ {Some(S)}) = Cardinality(S) - 1
  BY <1>1, SomeOf, FS_RemoveElement
<1>3. Good(0)
  <2>1. ASSUME NEW S \in Upto(0) PROVE S = {}
    <3>1. Cardinality(S) = 0 /\ IsFiniteSet(S)
      BY <1>1
    <3> QED
      BY <3>1, FS_EmptySet
  <2> DEFINE g == [S \in Upto(0) |-> 0]
  <2> HIDE DEF Upto
  <2>2. g = [S \in Upto(0) |-> IF S = {} THEN 0 ELSE f[Some(S)] + g[S \ {Some(S)}]]
    BY <2>1
  <2> HIDE DEF g
  <2> QED
    BY <2>2
<1>4. ASSUME NEW m \in Nat, Good(m) PROVE Good(m + 1)
  <2>1. PICK g : g = [S \in Upto(m) |-> IF S = {} THEN 0 ELSE f[Some(S)] + g[S \ {Some(S)}]]
    BY <1>4
  <2> DEFINE h == [S \in Upto(m + 1) |-> IF S = {} THEN 0 ELSE f[Some(S)] + g[S \ {Some(S)}]]
  <2>2. Upto(m) \subseteq Upto(m + 1)
    BY <1>1
  <2>3. ASSUME NEW S \in Upto(m) PROVE h[S] = g[S]
    <3>1. S \in Upto(m + 1)
      BY <2>2
    <3> HIDE DEF Upto
    <3>2. h[S] = IF S = {} THEN 0 ELSE f[Some(S)] + g[S \ {Some(S)}]
      BY <3>1
    <3>3. g[S] = IF S = {} THEN 0 ELSE f[Some(S)] + g[S \ {Some(S)}]
      BY <2>1
    <3> QED
      BY <3>2, <3>3
  <2>4. ASSUME NEW S \in Upto(m + 1), S # {} PROVE S \ {Some(S)} \in Upto(m)
    <3>1. S \in SUBSET R /\ Cardinality(S) <= m + 1
      OBVIOUS
    <3> QED
      BY <1>1, <1>2, <2>4, <3>1
  <2> HIDE DEF Upto
  <2>5. h = [S \in Upto(m + 1) |-> IF S = {} THEN 0 ELSE f[Some(S)] + h[S \ {Some(S)}]]
    BY <2>3, <2>4
  <2> HIDE DEF h
  <2> QED
    BY <2>5
<1>5. Bad = {}
  <2> HIDE DEF Good
  <2> SUFFICES ASSUME Bad # {} PROVE FALSE
    OBVIOUS
  <2>1. PICK m \in Bad : \A y \in Bad : m <= y
    BY LeastNatural
  <2>2. m \in Nat /\ m # 0
    BY <1>3
  <2>3. m - 1 \in Nat /\ m - 1 \notin Bad
    BY <2>1, <2>2
  <2>4. Good(m - 1)
    BY <2>3
  <2>5. Good((m - 1) + 1)
    BY <1>4, <2>3, <2>4
  <2>6. (m - 1) + 1 = m
    BY <2>2
  <2> QED
    BY <2>5, <2>6
<1>6. Cardinality(R) \in Nat /\ Upto(Cardinality(R)) = SUBSET R
  BY <1>1
<1>7. Good(Cardinality(R))
  <2> HIDE DEF Good
  <2> QED
    BY <1>5, <1>6
<1> HIDE DEF Upto
<1>8. \E g : g = [S \in SUBSET R |-> IF S = {} THEN 0 ELSE f[Some(S)] + g[S \ {Some(S)}]]
  BY <1>6, <1>7
<1> QED
  BY <1>8 DEF Sums, IsSums

\* Which element is taken first does not matter.
LEMMA SumsAre ==
    ASSUME NEW R, IsFiniteSet(R), NEW f \in [R -> Int], NEW S \in SUBSET R
    PROVE  /\ Sums(f, R)[{}] = 0
           /\ Sums(f, R)[S] \in Int
           /\ \A x \in S : Sums(f, R)[S] = f[x] + Sums(f, R)[S \ {x}]
<1> DEFINE g == Sums(f, R)
           Good(T) == g[T] \in Int /\ \A x \in T : g[T] = f[x] + g[T \ {x}]
           Bad == {m \in Nat : \E T \in SUBSET R : Cardinality(T) = m /\ ~Good(T)}
<1>1. \A T \in SUBSET R : IsFiniteSet(T) /\ Cardinality(T) \in Nat
  BY FS_Subset, FS_CardinalityType
<1>2. \A T \in SUBSET R : g[T] = IF T = {} THEN 0 ELSE f[Some(T)] + g[T \ {Some(T)}]
  <2>1. IsSums(g, f, R)
    BY SumsExist
  <2> HIDE DEF g
  <2> QED
    BY <2>1 DEF IsSums
<1>3. g[{}] = 0
  BY <1>2
<1> HIDE DEF g
<1>4. Bad = {}
  <2> SUFFICES ASSUME Bad # {} PROVE FALSE
    OBVIOUS
  <2>1. PICK m \in Bad : \A y \in Bad : m <= y
    BY LeastNatural
  <2>2. PICK T \in SUBSET R : Cardinality(T) = m /\ ~Good(T)
    BY <2>1
  <2>3. T # {}
    BY <1>3, <2>2
  <2>4. \A x \in T : T \ {x} \in SUBSET R /\ Good(T \ {x})
    <3> TAKE x \in T
    <3>1. T \ {x} \in SUBSET R /\ Cardinality(T \ {x}) = m - 1
      BY <1>1, <2>2, FS_RemoveElement
    <3>2. Cardinality(T \ {x}) \in Nat /\ m \in Nat
      BY <1>1, <3>1
    <3>3. Cardinality(T \ {x}) \notin Bad
      <4> HIDE DEF Bad
      <4> QED
        BY <2>1, <3>1, <3>2
    <3> HIDE DEF Good
    <3> QED
      BY <3>1, <3>2, <3>3
  <2> DEFINE c == Some(T)
  <2>5. c \in T /\ g[T] = f[c] + g[T \ {c}]
    BY <1>2, <2>3, SomeOf
  <2> HIDE DEF c
  <2>6. g[T] \in Int
    <3>1. g[T \ {c}] \in Int /\ f[c] \in Int
      BY <2>2, <2>4, <2>5
    <3> QED
      BY <2>5, <3>1
  <2>7. ASSUME NEW x \in T PROVE g[T] = f[x] + g[T \ {x}]
    <3>1. CASE x = c
      BY <2>5, <3>1
    <3>2. CASE x # c
      <4>1. x \in T \ {c} /\ c \in T \ {x}
        BY <2>5, <3>2
      <4>2. g[T \ {c}] = f[x] + g[(T \ {c}) \ {x}]
        BY <2>4, <2>5, <4>1
      <4>3. g[T \ {x}] = f[c] + g[(T \ {x}) \ {c}]
        BY <2>4, <4>1
      <4>4. (T \ {c}) \ {x} = (T \ {x}) \ {c}
        OBVIOUS
      <4>5. f[x] \in Int /\ f[c] \in Int
        BY <2>2, <2>5
      <4>6. g[T \ {c}] \in Int /\ g[T \ {x}] \in Int
        BY <2>4, <2>5
      <4> DEFINE rest == g[(T \ {x}) \ {c}]
      <4>7. rest \in Int
        <5>1. T \ {x} \in SUBSET R
          BY <2>4
        <5>2. (T \ {x}) \ {c} \in SUBSET R
          OBVIOUS
        <5>3. Cardinality((T \ {x}) \ {c}) = m - 2 /\ m \in Nat
          <6>1. IsFiniteSet(T) /\ Cardinality(T \ {x}) = m - 1 /\ IsFiniteSet(T \ {x})
            BY <1>1, <2>2, FS_RemoveElement
          <6>2. Cardinality((T \ {x}) \ {c}) = Cardinality(T \ {x}) - 1
            BY <4>1, <6>1, FS_RemoveElement
          <6> QED
            BY <1>1, <2>2, <6>1, <6>2
        <5>4. Cardinality((T \ {x}) \ {c}) \in Nat
          BY <1>1, <5>2
        <5>5. Cardinality((T \ {x}) \ {c}) \notin Bad
          <6> HIDE DEF Bad
          <6> QED
            BY <2>1, <5>3, <5>4
        <5>6. Good((T \ {x}) \ {c})
          <6> HIDE DEF Good
          <6> QED
            BY <5>2, <5>4, <5>5
        <5> QED
          BY <5>6
      <4>8. g[T \ {c}] = f[x] + rest /\ g[T \ {x}] = f[c] + rest
        BY <4>2, <4>3, <4>4
      <4> HIDE DEF rest
      <4> QED
        BY <2>5, <4>5, <4>7, <4>8
    <3> QED
      BY <3>1, <3>2
  <2> QED
    BY <2>2, <2>6, <2>7
<1>5. Good(S)
  <2> HIDE DEF Good
  <2> QED
    BY <1>1, <1>4
<1> QED
  BY <1>3, <1>5 DEF g

\* A sum over a part does not depend on the whole.
LEMMA SumsOfPart ==
    ASSUME NEW R, IsFiniteSet(R), NEW f \in [R -> Int], NEW J \in SUBSET R
    PROVE  Total([i \in J |-> f[i]]) = Sums(f, R)[J]
<1> DEFINE e == [i \in J |-> f[i]]
           g == Sums(f, R)
           h == Sums(e, J)
           Bad == {m \in Nat : \E T \in SUBSET J : Cardinality(T) = m /\ g[T] # h[T]}
<1>1. IsFiniteSet(J) /\ \A T \in SUBSET J : IsFiniteSet(T) /\ Cardinality(T) \in Nat
  BY FS_Subset, FS_CardinalityType
<1>2. e \in [J -> Int] /\ \A i \in J : e[i] = f[i]
  OBVIOUS
<1> HIDE DEF e
<1>3. ASSUME NEW T \in SUBSET J PROVE /\ g[{}] = 0 /\ h[{}] = 0
                                      /\ \A x \in T : g[T] = f[x] + g[T \ {x}]
                                      /\ \A x \in T : h[T] = f[x] + h[T \ {x}]
  <2>1. h[{}] = 0 /\ \A x \in T : h[T] = e[x] + h[T \ {x}]
    BY <1>1, <1>2, SumsAre
  <2>2. T \in SUBSET R
    OBVIOUS
  <2>3. g[{}] = 0 /\ \A x \in T : g[T] = f[x] + g[T \ {x}]
    BY <2>2, SumsAre
  <2> HIDE DEF g, h
  <2> QED
    BY <1>2, <2>1, <2>3
<1> HIDE DEF g, h
<1>4. Bad = {}
  <2> SUFFICES ASSUME Bad # {} PROVE FALSE
    OBVIOUS
  <2>1. PICK m \in Bad : \A y \in Bad : m <= y
    BY LeastNatural
  <2>2. PICK T \in SUBSET J : Cardinality(T) = m /\ g[T] # h[T]
    BY <2>1
  <2>3. PICK x \in T : TRUE
    BY <1>3, <2>2
  <2>4. Cardinality(T \ {x}) = m - 1 /\ T \ {x} \in SUBSET J
    BY <1>1, <2>2, <2>3, FS_RemoveElement
  <2>5. Cardinality(T \ {x}) \in Nat /\ m \in Nat
    BY <1>1, <2>4
  <2>6. Cardinality(T \ {x}) \notin Bad
    <3> HIDE DEF Bad
    <3> QED
      BY <2>1, <2>4, <2>5
  <2>7. g[T \ {x}] = h[T \ {x}]
    BY <2>4, <2>5, <2>6
  <2> QED
    BY <1>3, <2>2, <2>3, <2>7
<1>5. g[J] = h[J]
  BY <1>1, <1>4
<1>6. Total(e) = h[J]
  <2>1. DOMAIN e = J
    BY <1>2
  <2> QED
    BY <2>1, TotalUnfolds DEF h
<1> QED
  BY <1>5, <1>6 DEF e, g

LEMMA TotalIs ==
    ASSUME NEW I, IsFiniteSet(I), NEW f \in [I -> Int]
    PROVE  /\ Total(f) \in Int
           /\ I = {} => Total(f) = 0
           /\ \A x \in I : Total(f) = f[x] + Total([i \in I \ {x} |-> f[i]])
<1>1. Total(f) = Sums(f, I)[I]
  BY TotalUnfolds
<1>2. \A x \in I : Total([i \in I \ {x} |-> f[i]]) = Sums(f, I)[I \ {x}]
  BY SumsOfPart
<1>3. Sums(f, I)[{}] = 0 /\ Sums(f, I)[I] \in Int
      /\ \A x \in I : Sums(f, I)[I] = f[x] + Sums(f, I)[I \ {x}]
  <2> DEFINE g == Sums(f, I)
  <2>1. \A S \in SUBSET I : g[{}] = 0 /\ g[S] \in Int /\ \A x \in S : g[S] = f[x] + g[S \ {x}]
    BY SumsAre
  <2> HIDE DEF g
  <2>2. g[{}] = 0 /\ g[I] \in Int /\ \A x \in I : g[I] = f[x] + g[I \ {x}]
    BY <2>1
  <2> QED
    BY <2>2 DEF g
<1> QED
  BY <1>1, <1>2, <1>3

\* The sum of f over a part of what it is defined on.
TotalOf(f, S) == Total([i \in S |-> f[i]])

LEMMA TotalOfIs ==
    ASSUME NEW S, IsFiniteSet(S), NEW f, \A i \in S : f[i] \in Int
    PROVE  TotalOf(f, S) \in Int /\ (S = {} => TotalOf(f, S) = 0)
<1>1. [i \in S |-> f[i]] \in [S -> Int]
  OBVIOUS
<1> QED
  BY <1>1, TotalIs DEF TotalOf

\* What is added last.
LEMMA TotalWith ==
    ASSUME NEW I, IsFiniteSet(I), NEW x, x \notin I, NEW f, \A i \in I \cup {x} : f[i] \in Int
    PROVE  TotalOf(f, I \cup {x}) = TotalOf(f, I) + f[x]
<1> DEFINE J == I \cup {x}
           e == [i \in J |-> f[i]]
<1>1. IsFiniteSet(J) /\ x \in J /\ J \ {x} = I
  BY FS_AddElement
<1>2. e \in [J -> Int] /\ e[x] = f[x] /\ [i \in I |-> e[i]] = [i \in I |-> f[i]]
  BY <1>1
<1>3. [i \in I |-> f[i]] \in [I -> Int] /\ f[x] \in Int
  OBVIOUS
<1> HIDE DEF J, e
<1>4. Total(e) = e[x] + Total([i \in J \ {x} |-> e[i]])
  BY <1>1, <1>2, TotalIs
<1>5. Total([i \in I |-> f[i]]) \in Int
  BY <1>3, TotalIs
<1>6. Total(e) = Total([i \in I |-> f[i]]) + f[x]
  BY <1>1, <1>2, <1>3, <1>4, <1>5
<1> QED
  BY <1>6 DEF e, J, TotalOf

LEMMA TotalOfUnion ==
    ASSUME NEW A, NEW B, IsFiniteSet(A), IsFiniteSet(B), A \cap B = {},
           NEW f, \A i \in A \cup B : f[i] \in Int
    PROVE  TotalOf(f, A \cup B) = TotalOf(f, A) + TotalOf(f, B)
<1> DEFINE SumOf(S) == TotalOf(f, S)
           Good(T) == SumOf(A \cup T) = SumOf(A) + SumOf(T)
           Bad == {m \in Nat : \E T \in SUBSET B : Cardinality(T) = m /\ ~Good(T)}
<1>1. \A T \in SUBSET B : IsFiniteSet(T) /\ Cardinality(T) \in Nat
  BY FS_Subset, FS_CardinalityType
<1>2. ASSUME NEW S \in SUBSET (A \cup B) PROVE IsFiniteSet(S) /\ SumOf(S) \in Int
  <2>1. IsFiniteSet(S)
    BY FS_Union, FS_Subset
  <2> QED
    BY <2>1, TotalOfIs
<1>3. SumOf({}) = 0
  BY FS_EmptySet, TotalOfIs
<1>4. ASSUME NEW S \in SUBSET (A \cup B), NEW x \in A \cup B, x \notin S
      PROVE  SumOf(S \cup {x}) = SumOf(S) + f[x]
  BY <1>2, <1>4, TotalWith
<1> HIDE DEF SumOf
<1>5. Bad = {}
  <2> SUFFICES ASSUME Bad # {} PROVE FALSE
    OBVIOUS
  <2>1. PICK m \in Bad : \A y \in Bad : m <= y
    BY LeastNatural
  <2>2. PICK T \in SUBSET B : Cardinality(T) = m /\ ~Good(T)
    BY <2>1
  <2>3. T # {}
    <3> SUFFICES ASSUME T = {} PROVE FALSE
      OBVIOUS
    <3>1. A \cup T = A /\ SumOf(A) \in Int
      BY <1>2
    <3> QED
      BY <1>3, <2>2, <3>1
  <2>4. PICK x \in T : TRUE
    BY <2>3
  <2> DEFINE R == T \ {x}
  <2>5. Cardinality(R) = m - 1 /\ R \in SUBSET B
    BY <1>1, <2>2, <2>4, FS_RemoveElement
  <2>6. T = R \cup {x} /\ x \notin R /\ x \in B /\ x \notin A /\ A \cup T = (A \cup R) \cup {x}
    BY <2>4
  <2>7. Cardinality(R) \in Nat /\ m \in Nat
    BY <1>1, <2>5
  <2> HIDE DEF R
  <2>8. Cardinality(R) \notin Bad
    <3> HIDE DEF Bad
    <3> QED
      BY <2>1, <2>5, <2>7
  <2>9. SumOf(A \cup R) = SumOf(A) + SumOf(R)
    BY <2>5, <2>7, <2>8
  <2>10. SumOf(T) = SumOf(R) + f[x]
    BY <1>4, <2>5, <2>6
  <2>11. SumOf(A \cup T) = SumOf(A \cup R) + f[x]
    <3>1. A \cup R \in SUBSET (A \cup B) /\ x \notin A \cup R
      BY <2>5, <2>6
    <3> QED
      BY <1>4, <2>6, <3>1
  <2>12. SumOf(A) \in Int /\ SumOf(R) \in Int /\ f[x] \in Int
    BY <1>2, <2>5, <2>6
  <2> QED
    BY <2>2, <2>9, <2>10, <2>11, <2>12
<1>6. Good(B)
  <2> HIDE DEF Good
  <2> QED
    BY <1>1, <1>5
<1> QED
  BY <1>6 DEF SumOf

\* Finite sets without common elements, on which f is a number.
AreParts(f, P, K) ==
    /\ IsFiniteSet(K) /\ \A k \in K : IsFiniteSet(P[k])
    /\ \A j \in K, k \in K : j # k => P[j] \cap P[k] = {}
    /\ \A k \in K : \A i \in P[k] : f[i] \in Int

SumOfParts(f, P, K) == Total([k \in K |-> TotalOf(f, P[k])])
Whole(P, K) == UNION {P[k] : k \in K}

\* The sum over parts is the sum over all of them.
LEMMA TotalOfParts ==
    ASSUME NEW K, NEW P, NEW f, AreParts(f, P, K)
    PROVE  SumOfParts(f, P, K) = TotalOf(f, Whole(P, K))
<1> USE DEF AreParts, SumOfParts, Whole
<1> DEFINE SumOf(S) == TotalOf(f, S)
           e == [k \in K |-> SumOf(P[k])]
           Of(T) == UNION {P[k] : k \in T}
           Good(T) == IsFiniteSet(Of(T)) /\ TotalOf(e, T) = SumOf(Of(T))
           Bad == {m \in Nat : \E T \in SUBSET K : Cardinality(T) = m /\ ~Good(T)}
<1>1. \A T \in SUBSET K : IsFiniteSet(T) /\ Cardinality(T) \in Nat
  BY FS_Subset, FS_CardinalityType
<1>2. ASSUME NEW k \in K PROVE e[k] = SumOf(P[k]) /\ e[k] \in Int
  BY TotalOfIs
<1>3. TotalOf(e, {}) = 0 /\ SumOf({}) = 0
  <2> HIDE DEF e
  <2> QED
    BY FS_EmptySet, TotalOfIs
<1>4. ASSUME NEW S, NEW B, IsFiniteSet(S), IsFiniteSet(B), S \cap B = {},
             \A i \in S \cup B : f[i] \in Int
      PROVE  SumOf(S \cup B) = SumOf(S) + SumOf(B)
  BY <1>4, TotalOfUnion
<1>5. ASSUME NEW T \in SUBSET K, NEW k \in K, k \notin T
      PROVE  TotalOf(e, T \cup {k}) = TotalOf(e, T) + e[k]
  <2>1. \A j \in T \cup {k} : e[j] \in Int
    BY <1>2
  <2> HIDE DEF e
  <2> QED
    BY <1>1, <1>5, <2>1, TotalWith
<1> HIDE DEF SumOf, e
<1>6. Bad = {}
  <2> SUFFICES ASSUME Bad # {} PROVE FALSE
    OBVIOUS
  <2>1. PICK m \in Bad : \A y \in Bad : m <= y
    BY LeastNatural
  <2>2. PICK T \in SUBSET K : Cardinality(T) = m /\ ~Good(T)
    BY <2>1
  <2>3. T # {}
    <3> SUFFICES ASSUME T = {} PROVE FALSE
      OBVIOUS
    <3>1. Of(T) = {}
      OBVIOUS
    <3> QED
      BY <1>3, <2>2, <3>1, FS_EmptySet
  <2>4. PICK k \in T : TRUE
    BY <2>3
  <2> DEFINE R == T \ {k}
  <2>5. Cardinality(R) = m - 1 /\ R \in SUBSET K
    BY <1>1, <2>2, <2>4, FS_RemoveElement
  <2>6. T = R \cup {k} /\ k \notin R /\ k \in K
    BY <2>4
  <2>7. Cardinality(R) \in Nat /\ m \in Nat
    BY <1>1, <2>5
  <2> HIDE DEF R
  <2>8. Cardinality(R) \notin Bad
    <3> HIDE DEF Bad
    <3> QED
      BY <2>1, <2>5, <2>7
  <2>9. Good(R)
    <3> HIDE DEF Good
    <3> QED
      BY <2>5, <2>7, <2>8
  <2>10. Of(T) = Of(R) \cup P[k]
    BY <2>6
  <2>11. Of(R) \cap P[k] = {} /\ \A i \in Of(R) : f[i] \in Int
    BY <2>5, <2>6
  <2> HIDE DEF Of
  <2>12. SumOf(Of(T)) = SumOf(Of(R)) + SumOf(P[k])
    <3>1. IsFiniteSet(Of(R)) /\ IsFiniteSet(P[k]) /\ \A i \in Of(R) \cup P[k] : f[i] \in Int
      BY <2>6, <2>9, <2>11
    <3> QED
      BY <1>4, <2>10, <2>11, <3>1
  <2>13. TotalOf(e, T) = TotalOf(e, R) + e[k]
    BY <1>5, <2>5, <2>6
  <2>14. IsFiniteSet(Of(T))
    <3> DEFINE A == Of(R)
               B == P[k]
    <3>1. IsFiniteSet(A) /\ IsFiniteSet(B) /\ Of(T) = A \cup B
      BY <2>6, <2>9, <2>10
    <3> HIDE DEF A, B
    <3>2. IsFiniteSet(A \cup B)
      BY <3>1, FS_Union
    <3> QED
      BY <3>1, <3>2
  <2> QED
    BY <1>2, <2>2, <2>6, <2>9, <2>12, <2>13, <2>14
<1>7. Good(K)
  <2> HIDE DEF Good
  <2> QED
    BY <1>1, <1>6
<1>8. [k \in K |-> e[k]] = e
  BY DEF e
<1> QED
  BY <1>7, <1>8 DEF SumOf, e, TotalOf

-----------------------------------------------------------------------------
(* The elements of a set in order.                                         *)

LEMMA ImageIsFinite ==
    ASSUME NEW S, IsFiniteSet(S), NEW f
    PROVE  IsFiniteSet({f[x] : x \in S})
<1> DEFINE T == {f[x] : x \in S}
           g == [x \in S |-> f[x]]
<1>1. g \in Surjection(S, T)
  BY DEF Surjection
<1> QED
  BY <1>1, FS_Surjection

\* How many elements of a set come up to one.
Place(S, s) == Cardinality({k \in S : k <= s})

\* Later elements have later places, from the first to the last.
LEMMA PlaceIs ==
    ASSUME NEW S, IsFiniteSet(S), S \subseteq Nat
    PROVE  /\ Cardinality(S) \in Nat
           /\ \A s \in S : Place(S, s) \in 1 .. Cardinality(S)
           /\ \A s \in S, t \in S : s < t => Place(S, s) < Place(S, t)
<1>1. IsFiniteSet(S) /\ S \subseteq Nat
  OBVIOUS
<1>2. Cardinality(S) \in Nat
  BY <1>1, FS_CardinalityType
<1>3. \A s : IsFiniteSet({k \in S : k <= s}) /\ Cardinality({k \in S : k <= s}) <= Cardinality(S)
             /\ Cardinality({k \in S : k <= s}) \in Nat
  <2> TAKE s
  <2>1. {k \in S : k <= s} \in SUBSET S
    OBVIOUS
  <2>2. IsFiniteSet({k \in S : k <= s}) /\ Cardinality({k \in S : k <= s}) <= Cardinality(S)
    BY <1>1, <2>1, FS_Subset
  <2> QED
    BY <2>2, FS_CardinalityType
<1>4. ASSUME NEW s \in S PROVE Place(S, s) \in 1 .. Cardinality(S)
  <2> DEFINE A == {k \in S : k <= s}
  <2>1. s \in A /\ IsFiniteSet(A) /\ Cardinality(A) <= Cardinality(S) /\ Cardinality(A) \in Nat
    BY <1>1, <1>3
  <2> HIDE DEF A
  <2>2. Cardinality(A) # 0
    BY <2>1, FS_EmptySet
  <2>3. Cardinality(A) \in 1 .. Cardinality(S)
    BY <1>2, <2>1, <2>2
  <2> QED
    BY <2>3 DEF Place, A
<1>5. ASSUME NEW s \in S, NEW t \in S, s < t PROVE Place(S, s) < Place(S, t)
  <2> DEFINE A == {k \in S : k <= s}
             B == {k \in S : k <= t}
  <2>1. A \in SUBSET B /\ t \in B /\ t \notin A
    <3>1. \A k \in S : k \in Nat
      BY <1>1
    <3>2. s \in Nat /\ t \in Nat
      BY <1>1
    <3>3. A \in SUBSET B
      <4>1. \A k \in S : k <= s => k <= t
        BY <1>5, <3>1, <3>2
      <4> QED
        BY <4>1
    <3>4. t \in B
      BY <3>2
    <3>5. t \notin A
      BY <1>5, <3>2
    <3> QED
      BY <3>3, <3>4, <3>5
  <2>2. IsFiniteSet(B) /\ Cardinality(A) \in Nat /\ Cardinality(B) \in Nat
    BY <1>3
  <2> HIDE DEF A, B
  <2>3. Cardinality(A) <= Cardinality(B) /\ (Cardinality(B) = Cardinality(A) => B = A)
    BY <2>1, <2>2, FS_Subset
  <2>4. Cardinality(A) < Cardinality(B)
    BY <2>1, <2>2, <2>3
  <2> QED
    BY <2>4 DEF Place, A, B
<1> QED
  BY <1>2, <1>4, <1>5

\* Every place is taken.
LEMMA PlaceTaken ==
    ASSUME NEW S, IsFiniteSet(S), S \subseteq Nat, NEW i \in 1 .. Cardinality(S)
    PROVE  \E s \in S : Place(S, s) = i
<1> DEFINE card == Cardinality(S)
           A == {s \in S : i <= Place(S, s)}
           m == Min(A)
           L == {k \in S : k < m}
<1>1. IsFiniteSet(S) /\ S \subseteq Nat /\ S \subseteq Int
  OBVIOUS
<1>2. card \in Nat /\ i \in Nat /\ 1 <= i /\ i <= card
  <2>1. card \in Nat
    BY PlaceIs
  <2>2. i \in 1 .. card
    OBVIOUS
  <2> HIDE DEF card
  <2> QED
    BY <2>1, <2>2
<1>3. S # {}
  BY <1>2, FS_EmptySet
<1>4. Max(S) \in S /\ \A k \in S : k <= Max(S)
  BY <1>1, <1>3, EndsOfFinite
<1>5. Max(S) \in A
  <2>1. {k \in S : k <= Max(S)} = S
    BY <1>4
  <2> QED
    BY <1>2, <1>4, <2>1 DEF Place
<1>6. m \in A /\ \A s \in A : m <= s
  <2>1. A \subseteq Int /\ IsFiniteSet(A)
    <3>1. A \in SUBSET S
      OBVIOUS
    <3> QED
      BY <1>1, <3>1, FS_Subset
  <2> HIDE DEF A
  <2> QED
    BY <1>5, <2>1, EndsOfFinite
<1>7. m \in S /\ m \in Nat /\ i <= Place(S, m) /\ Place(S, m) \in Nat
  <2>1. m \in S /\ i <= Place(S, m)
    BY <1>6
  <2> HIDE DEF m
  <2>2. Place(S, m) \in 1 .. card
    BY <2>1, PlaceIs
  <2>3. Place(S, m) \in Nat
    BY <2>2
  <2> QED
    BY <1>1, <2>1, <2>3
<1>8. \A s \in S : s < m => ~(i <= Place(S, s))
  <2> SUFFICES ASSUME NEW s \in S, s < m, i <= Place(S, s) PROVE FALSE
    OBVIOUS
  <2>1. s \in A
    OBVIOUS
  <2>2. m <= s /\ s \in Nat
    BY <1>1, <1>6, <2>1
  <2> HIDE DEF m
  <2> QED
    BY <1>7, <2>2
<1> HIDE DEF m, A
<1>9. Place(S, m) <= i
  <2>1. {k \in S : k <= m} = L \cup {m}
    <3>1. \A k \in S : k <= m <=> k < m \/ k = m
      <4>1. \A k \in S : k \in Nat
        BY <1>1
      <4> QED
        BY <1>7, <4>1
    <3>2. \A k : k \in {s \in S : s <= m} <=> k \in L \cup {m}
      BY <1>7, <3>1
    <3> HIDE DEF L
    <3> QED
      BY <3>2
  <2>2. L \in SUBSET S /\ m \notin L
    BY <1>7
  <2>3. IsFiniteSet(L)
    BY <1>1, <2>2, FS_Subset
  <2>4. Place(S, m) = Cardinality(L) + 1
    BY <2>1, <2>2, <2>3, FS_AddElement DEF Place
  <2>5. CASE L = {}
    <3>1. Cardinality(L) = 0
      BY <2>5, FS_EmptySet
    <3> QED
      BY <1>2, <2>4, <3>1
  <2>6. CASE L # {}
    <3>1. L \subseteq Nat /\ L \subseteq Int
      BY <1>1, <2>2
    <3>2. Max(L) \in L /\ \A k \in L : k <= Max(L)
      <4> HIDE DEF L
      <4> QED
        BY <2>3, <2>6, <3>1, EndsOfFinite
    <3>3. Max(L) \in S /\ Max(L) < m /\ Max(L) \in Nat
      BY <3>1, <3>2
    <3>4. {k \in S : k <= Max(L)} = L
      <4>1. \A k \in S : k <= Max(L) => k \in L
        <5> TAKE k \in S
        <5>1. k \in Nat
          BY <1>1
        <5> QED
          BY <1>7, <3>3, <5>1
      <4> QED
        BY <3>2, <4>1
    <3>5. Place(S, Max(L)) = Cardinality(L)
      BY <3>4 DEF Place
    <3>6. ~(i <= Cardinality(L))
      BY <1>8, <3>3, <3>5
    <3>7. Cardinality(L) \in Nat
      BY <2>3, FS_CardinalityType
    <3> HIDE DEF L
    <3> QED
      BY <1>2, <2>4, <3>6, <3>7
  <2> QED
    BY <2>5, <2>6
<1>10. Place(S, m) = i
  BY <1>2, <1>7, <1>9
<1> QED
  BY <1>7, <1>10

\* The elements in order, each at its place.
LEMMA InOrderIs ==
    ASSUME NEW S, IsFiniteSet(S), S \subseteq Nat
    PROVE  /\ DOMAIN InOrder(S) = 1 .. Cardinality(S) /\ Len(InOrder(S)) = Cardinality(S)
           /\ \A i \in 1 .. Cardinality(S) : InOrder(S)[i] \in S /\ Place(S, InOrder(S)[i]) = i
           /\ \A s \in S : InOrder(S)[Place(S, s)] = s
<1>1. InOrder(S) = [i \in 1 .. Cardinality(S) |-> CHOOSE s \in S : Place(S, s) = i]
  BY DEF InOrder, Place
<1>2. Cardinality(S) \in Nat /\ (\A s \in S : Place(S, s) \in 1 .. Cardinality(S))
  BY PlaceIs
<1>3. ASSUME NEW i \in 1 .. Cardinality(S) PROVE InOrder(S)[i] \in S /\ Place(S, InOrder(S)[i]) = i
  <2>1. InOrder(S)[i] = CHOOSE s \in S : Place(S, s) = i
    BY <1>1
  <2>2. \E s \in S : Place(S, s) = i
    BY PlaceTaken
  <2> QED
    BY <2>1, <2>2
<1>4. ASSUME NEW s \in S PROVE InOrder(S)[Place(S, s)] = s
  <2> DEFINE t == InOrder(S)[Place(S, s)]
  <2>1. t \in S /\ Place(S, t) = Place(S, s)
    BY <1>2, <1>3
  <2> HIDE DEF t
  <2>2. s \in Nat /\ t \in Nat
    BY <2>1
  <2>3. ~(s < t) /\ ~(t < s)
    <3>1. Place(S, s) \in Nat
      BY <1>2
    <3>2. s < t => Place(S, s) < Place(S, t)
      BY <2>1, PlaceIs
    <3>3. t < s => Place(S, t) < Place(S, s)
      BY <2>1, PlaceIs
    <3> QED
      BY <2>1, <3>1, <3>2, <3>3
  <2>4. t = s
    BY <2>2, <2>3
  <2> QED
    BY <2>4 DEF t
<1>5. DOMAIN InOrder(S) = 1 .. Cardinality(S)
  BY <1>1
<1>6. Len(InOrder(S)) = Cardinality(S)
  BY <1>1, <1>2
<1> QED
  BY <1>3, <1>4, <1>5, <1>6

-----------------------------------------------------------------------------
(* What is read.                                                           *)

RowType == [sec : Nat, price : Nat, vol : Int, S : {"buy", "sell", ""}, L : Nat]

\* An end of the log: after a row, or within the next one.
IsEnd(e) ==
    /\ e \in [rows : 0 .. Len(log), cut : Cuts]
    /\ e.cut # "none" => e.rows < Len(log)

\* The limit is an end that has been on the disk when the limit was looked for; what is
\* read up to it is the beginning of the log.
ReadInv ==
    /\ log \in Seq(RowType) /\ Len(log) <= MaxRows
    /\ IsEnd(flushed)
    /\ chunkSize \in Nat \ {0} /\ intervalSec \in Nat \ {0}
    /\ lines \in Seq(RowType) /\ rows = Len(lines) /\ atOpen \in Nat
    /\ phase \in {"start", "limited"} => lines = <<>>
    /\ phase = "limited" => IsEnd(limit) /\ limit.rows = atOpen /\ atOpen <= flushed.rows
    /\ phase = "reading" =>
          /\ limit = NoLimit \/ IsEnd(limit)
          /\ atOpen <= End.rows /\ Len(lines) <= End.rows
          /\ \A i \in DOMAIN lines : lines[i] = log[i]
    /\ NothingLeftOut

-----------------------------------------------------------------------------
(* What the parts say of a second.                                         *)

At(ls, s) == {i \in DOMAIN ls : Valid(ls[i]) /\ ls[i].sec = s}
Prices(ls, I) == {ls[i].price : i \in I}

Holding(ps, s) == {k \in DOMAIN ps : s \in DOMAIN ps[k]}
Field(ps, K, s, name) == Total([k \in K |-> ps[k][s][name]])

PartType == [open : Nat, close : Nat, high : Nat, low : Nat, buy : Int, sell : Int,
             vol : Int, pv : Int, cnt : Nat, first : Nat, last : Nat]
AnyPart == UNION {[D -> PartType] : D \in SUBSET Nat}

\* The parts that hold a second have rows one behind the other, of n rows in all.
InTurn(ps, n, s) ==
    /\ \A k \in Holding(ps, s) : ps[k][s].first <= ps[k][s].last /\ ps[k][s].last <= n
    /\ \A j \in Holding(ps, s), k \in Holding(ps, s) :
          j < k => ps[j][s].last < ps[k][s].first

\* The first of them opens and the last of them closes the second.
SameEnds(ls, ps, s) ==
    LET P == At(ls, s)
        K == Holding(ps, s)
    IN  /\ ps[Min(K)][s].open = ls[Min(P)].price
        /\ ps[Max(K)][s].close = ls[Max(P)].price
        /\ Max({ps[k][s].high : k \in K}) = Max(Prices(ls, P))
        /\ Min({ps[k][s].low : k \in K}) = Min(Prices(ls, P))

SameSums(ls, ps, s) ==
    LET P == At(ls, s)
        K == Holding(ps, s)
    IN  /\ Field(ps, K, s, "buy") = VolumeOf(ls, P, "buy")
        /\ Field(ps, K, s, "sell") = VolumeOf(ls, P, "sell")
        /\ Field(ps, K, s, "cnt") = Cardinality(P)

\* Of n rows: the parts hold together what the rows say of the second s.
Covered(ls, ps, n, s) ==
    /\ Holding(ps, s) = {} <=> At(ls, s) = {}
    /\ InTurn(ps, n, s)
    /\ Holding(ps, s) # {} => SameEnds(ls, ps, s)
    /\ SameSums(ls, ps, s)

PartsOf(ls, ps, n) ==
    /\ ps \in Seq(AnyPart)
    /\ \A s \in Nat : Covered(ls, ps, n, s)

PartsInv == PartsOf(lines, parts, rows)

-----------------------------------------------------------------------------
(* What is read stays what it was.                                         *)

LEMMA InitRead == Init => ReadInv
<1> SUFFICES ASSUME Init PROVE ReadInv
  OBVIOUS
<1>1. log \in Seq(RowType) /\ Len(log) <= MaxRows
  <2>1. PICK m \in 0 .. MaxRows : log \in [1 .. m -> Rows]
    BY DEF Init, BoundedSeq, SeqOf
  <2>2. MaxRows \in Nat /\ Rows \subseteq RowType
    BY AggregationAssumption DEF RowType
  <2>3. m \in Nat /\ m <= MaxRows /\ log \in [1 .. m -> RowType]
    BY <2>1, <2>2
  <2> QED
    BY <2>3
<1>2. IsEnd(flushed)
  BY DEF Init, IsEnd
<1>3. chunkSize \in Nat \ {0} /\ intervalSec \in Nat \ {0}
  BY AggregationAssumption DEF Init
<1> QED
  BY <1>1, <1>2, <1>3 DEF Init, ReadInv, NothingLeftOut

LEMMA FlushReads == ReadInv /\ Flush => ReadInv'
<1> SUFFICES ASSUME ReadInv, Flush PROVE ReadInv'
  OBVIOUS
<1>1. UNCHANGED <<log, phase, chunkSize, intervalSec, limit, atOpen, lines, rows, skipped, parts>>
  BY DEF Flush, args, input
<1>2. phase \in {"start", "limited", "reading"}
  BY DEF Flush
<1>3. PICK n \in flushed.rows .. Len(log), cut \in Cuts :
         (cut # "none" => n < Len(log)) /\ flushed' = [rows |-> n, cut |-> cut]
  BY DEF Flush
<1>4. IsEnd(flushed)' /\ flushed.rows <= flushed'.rows /\ flushed.rows \in Nat /\ flushed'.rows \in Nat
  <2>1. flushed.rows \in 0 .. Len(log) /\ Len(log) \in Nat
    BY DEF ReadInv, IsEnd
  <2>2. n \in 0 .. Len(log) /\ flushed.rows <= n
    BY <1>3, <2>1
  <2> QED
    BY <1>1, <1>3, <2>1, <2>2 DEF IsEnd
<1>5. IsEnd(limit) => IsEnd(limit)'
  BY <1>1 DEF IsEnd
<1>6. NothingLeftOut'
  BY <1>1, <1>2 DEF NothingLeftOut
<1>7. ASSUME phase = "reading" PROVE atOpen <= End'.rows /\ Len(lines) <= End'.rows
  <2>1. atOpen <= End.rows /\ Len(lines) <= End.rows /\ atOpen \in Nat /\ Len(lines) \in Nat
    BY <1>7 DEF ReadInv
  <2>2. CASE limit = NoLimit
    <3>1. End = flushed /\ End' = flushed'
      BY <1>1, <2>2 DEF End, NoLimit
    <3> QED
      BY <1>4, <2>1, <3>1
  <2>3. CASE limit # NoLimit
    <3>1. End' = End
      BY <1>1, <2>3 DEF End, NoLimit
    <3> QED
      BY <2>1, <3>1
  <2> QED
    BY <2>2, <2>3
<1>8. phase = "limited" => atOpen <= flushed'.rows
  <2>1. phase = "limited" => atOpen <= flushed.rows /\ atOpen \in Nat
    BY DEF ReadInv
  <2> QED
    BY <1>4, <2>1
<1>9. limit = NoLimit => limit' = NoLimit'
  BY <1>1 DEF NoLimit
<1> QED
  BY <1>1, <1>4, <1>5, <1>6, <1>7, <1>8, <1>9 DEF ReadInv

LEMMA DataLimitReads == ReadInv /\ DataLimit => ReadInv'
<1> SUFFICES ASSUME ReadInv, DataLimit PROVE ReadInv'
  OBVIOUS
<1>1. /\ UNCHANGED <<log, flushed, chunkSize, intervalSec, lines, rows>>
      /\ phase = "start" /\ phase' = "limited" /\ limit' = flushed /\ atOpen' = flushed.rows
  BY DEF DataLimit, disk, args
<1>2. flushed.rows \in Nat /\ IsEnd(limit)' /\ IsEnd(flushed)'
  BY <1>1 DEF ReadInv, IsEnd
<1>3. lines = <<>> /\ flushed.rows <= flushed.rows
  BY <1>1, <1>2 DEF ReadInv
<1> QED
  BY <1>1, <1>2, <1>3 DEF ReadInv, NothingLeftOut

LEMMA OpenInputReads == ReadInv /\ OpenInput => ReadInv'
<1> SUFFICES ASSUME ReadInv, OpenInput PROVE ReadInv'
  OBVIOUS
<1>1. /\ UNCHANGED <<log, flushed, zeros, chunkSize, intervalSec, atOpen, lines, rows>>
      /\ phase = "limited" /\ phase' = "reading"
      /\ limit' = IF zeros \/ flushed # limit THEN limit ELSE NoLimit
  BY DEF OpenInput, disk, args
<1>2. IsEnd(limit) /\ limit.rows = atOpen /\ atOpen <= flushed.rows /\ atOpen \in Nat
      /\ lines = <<>> /\ IsEnd(flushed)
  BY <1>1 DEF ReadInv
<1>3. limit # NoLimit /\ flushed.rows \in Nat
  <2>1. limit.rows <= Len(log) /\ Len(log) <= MaxRows /\ limit.rows \in Nat /\ Len(log) \in Nat
        /\ MaxRows \in Nat /\ flushed.rows \in Nat
    <3>1. MaxRows \in Nat
      BY AggregationAssumption
    <3>2. log \in Seq(RowType) /\ Len(log) <= MaxRows
      BY DEF ReadInv
    <3>3. Len(log) \in Nat
      BY <3>2
    <3>4. limit.rows \in 0 .. Len(log) /\ flushed.rows \in 0 .. Len(log)
      BY <1>2 DEF IsEnd
    <3> QED
      BY <3>1, <3>2, <3>3, <3>4
  <2>2. limit.rows # MaxRows + 1
    BY <2>1
  <2> QED
    BY <2>1, <2>2 DEF NoLimit
<1>4. (limit = NoLimit \/ IsEnd(limit))'
  BY <1>1, <1>2 DEF IsEnd, NoLimit
<1>5. atOpen <= End'.rows /\ Len(lines) <= End'.rows
  <2>1. CASE limit' = limit
    <3>1. End' = limit
      BY <1>3, <2>1 DEF End, NoLimit
    <3> QED
      BY <1>2, <3>1
  <2>2. CASE limit' = NoLimit
    <3>1. End' = flushed
      BY <1>1, <2>2 DEF End, NoLimit
    <3> QED
      BY <1>2, <1>3, <3>1
  <2> QED
    BY <1>1, <2>1, <2>2
<1>6. IsEnd(flushed)'
  BY <1>1, <1>2 DEF IsEnd
<1> QED
  BY <1>1, <1>2, <1>4, <1>5, <1>6 DEF ReadInv, NothingLeftOut

\* The end of what is read is one of the log.
LEMMA EndIs ==
    ASSUME ReadInv, phase = "reading"
    PROVE  IsEnd(End) /\ End.rows \in Nat /\ End.rows <= Len(log) /\ Len(log) \in Nat
           /\ Len(lines) \in Nat /\ Len(lines) <= End.rows
BY DEF ReadInv, End, IsEnd

\* What a chunk of rows adds.
LEMMA ChunkReads ==
    ASSUME ReadInv, NEW chunk \in Seq(RowType), TakeChunk(chunk), phase = "reading"
    PROVE  /\ UNCHANGED <<log, flushed, chunkSize, intervalSec, limit, atOpen>> /\ End' = End
           /\ lines' \in Seq(RowType) /\ rows' = Len(lines') /\ Len(lines') = Len(lines) + Len(chunk)
           /\ \A i \in DOMAIN lines : lines'[i] = lines[i]
           /\ \A i \in 1 .. Len(chunk) : lines'[Len(lines) + i] = chunk[i]
           /\ \A i \in DOMAIN lines' : i \in DOMAIN lines \/ i - Len(lines) \in 1 .. Len(chunk)
<1>1. /\ UNCHANGED <<log, flushed, chunkSize, intervalSec, limit, atOpen>>
      /\ lines' = lines \o chunk /\ rows' = rows + Len(chunk)
  BY DEF TakeChunk, disk, args
<1>2. lines \in Seq(RowType) /\ rows = Len(lines)
  BY DEF ReadInv
<1>3. End' = End
  BY <1>1 DEF End, NoLimit
<1>4. /\ lines' \in Seq(RowType) /\ Len(lines') = Len(lines) + Len(chunk)
      /\ \A i \in DOMAIN lines : lines'[i] = lines[i]
      /\ \A i \in 1 .. Len(chunk) : lines'[Len(lines) + i] = chunk[i]
      /\ \A i \in DOMAIN lines' : i \in DOMAIN lines \/ i - Len(lines) \in 1 .. Len(chunk)
  BY <1>1, <1>2
<1> QED
  BY <1>1, <1>2, <1>3, <1>4

\* A piece of the log.
LEMMA PieceIs ==
    ASSUME log \in Seq(RowType), NEW m \in Nat, NEW n \in Nat, m <= n, n <= Len(log)
    PROVE  /\ SubSeq(log, m + 1, n) \in Seq(RowType) /\ Len(SubSeq(log, m + 1, n)) = n - m
           /\ \A i \in 1 .. n - m : SubSeq(log, m + 1, n)[i] = log[m + i]
<1> HIDE DEF RowType
<1>1. \A i \in (m + 1) .. n : log[i] \in RowType
  <2>1. \A i \in (m + 1) .. n : i \in 1 .. Len(log)
    OBVIOUS
  <2> QED
    BY <2>1
<1>2. SubSeq(log, m + 1, n) = [i \in 1 .. n - m |-> log[m + i]]
  OBVIOUS
<1>3. \A i \in 1 .. n - m : log[m + i] \in RowType
  BY <1>1
<1>4. n - m \in Nat
  OBVIOUS
<1>5. [i \in 1 .. n - m |-> log[m + i]] \in [1 .. n - m -> RowType]
  BY <1>3
<1> QED
  BY <1>2, <1>4, <1>5

LEMMA ReadChunkReads == ReadInv /\ ReadChunk => ReadInv'
<1> SUFFICES ASSUME ReadInv, ReadChunk PROVE ReadInv'
  OBVIOUS
<1> DEFINE n == Len(lines)
           chunk == SubSeq(log, n + 1, n + chunkSize)
<1>1. phase = "reading" /\ phase' = phase /\ End.rows - n >= chunkSize /\ TakeChunk(chunk)
  BY DEF ReadChunk
<1>2. IsEnd(End) /\ End.rows \in Nat /\ End.rows <= Len(log) /\ Len(log) \in Nat
      /\ n \in Nat /\ chunkSize \in Nat
  BY <1>1, EndIs DEF ReadInv
<1>3. n <= n + chunkSize /\ n + chunkSize \in Nat /\ n + chunkSize <= End.rows
      /\ n + chunkSize <= Len(log)
  BY <1>1, <1>2
<1>4. log \in Seq(RowType)
  BY DEF ReadInv
<1> HIDE DEF n
<1>5. /\ chunk \in Seq(RowType) /\ Len(chunk) = chunkSize
      /\ \A i \in 1 .. chunkSize : chunk[i] = log[n + i]
  BY <1>2, <1>3, <1>4, PieceIs
<1> HIDE DEF chunk
<1>6. /\ UNCHANGED <<log, flushed, chunkSize, intervalSec, limit, atOpen>> /\ End' = End
      /\ lines' \in Seq(RowType) /\ rows' = Len(lines') /\ Len(lines') = n + chunkSize
      /\ \A i \in DOMAIN lines : lines'[i] = lines[i]
      /\ \A i \in 1 .. chunkSize : lines'[n + i] = chunk[i]
      /\ \A i \in DOMAIN lines' : i \in DOMAIN lines \/ i - n \in 1 .. chunkSize
  BY <1>1, <1>5, ChunkReads DEF n
<1>7. \A i \in DOMAIN lines' : lines'[i] = log[i]
  <2> TAKE i \in DOMAIN lines'
  <2>1. CASE i \in DOMAIN lines
    BY <1>1, <1>6, <2>1 DEF ReadInv
  <2>2. CASE i - n \in 1 .. chunkSize
    <3>1. lines'[n + (i - n)] = log[n + (i - n)]
      BY <1>5, <1>6, <2>2
    <3>2. i \in Int
      BY <1>6
    <3> QED
      BY <1>2, <3>1, <3>2
  <2> QED
    BY <1>6, <2>1, <2>2
<1>8. (limit = NoLimit \/ IsEnd(limit))' /\ IsEnd(flushed)'
  BY <1>1, <1>6 DEF ReadInv, IsEnd, NoLimit
<1> QED
  BY <1>1, <1>3, <1>6, <1>7, <1>8 DEF ReadInv, NothingLeftOut

\* The piece of a row is a row, whose price is not greater.
LEMMA TornRowIs ==
    ASSUME NEW r \in RowType, NEW cut, NEW t \in TornRow(r, cut), cut \in Cuts \ {"none"}
    PROVE  t \in RowType
<1>0. r.sec \in Nat /\ r.vol \in Int /\ r.price \in Nat /\ r.L \in Nat
  BY DEF RowType
<1>1. CASE cut = "time"
  <2>1. t = [r EXCEPT !.price = 0, !.S = "", !.L = 0]
    BY <1>1 DEF TornRow
  <2>2. t = [sec |-> r.sec, price |-> 0, vol |-> r.vol, S |-> "", L |-> 0]
    BY <2>1 DEF RowType
  <2> QED
    BY <1>0, <2>2 DEF RowType
<1>2. CASE cut = "price"
  <2>1. PICK p \in 1 .. r.price : t = [r EXCEPT !.price = p, !.S = "", !.L = 0]
    BY <1>2 DEF TornRow
  <2>2. p \in Nat
    OBVIOUS
  <2>3. t = [sec |-> r.sec, price |-> p, vol |-> r.vol, S |-> "", L |-> 0]
    BY <2>1 DEF RowType
  <2> QED
    BY <1>0, <2>2, <2>3 DEF RowType
<1>3. CASE cut = "side"
  <2>1. PICK l \in {0, r.L} : t = [r EXCEPT !.S = "", !.L = l]
    BY <1>3 DEF TornRow
  <2>2. l \in Nat
    BY <1>0
  <2>3. t = [sec |-> r.sec, price |-> r.price, vol |-> r.vol, S |-> "", L |-> l]
    BY <2>1 DEF RowType
  <2> QED
    BY <1>0, <2>2, <2>3 DEF RowType
<1> QED
  BY <1>1, <1>2, <1>3 DEF Cuts

\* What the last chunk is.
LEMMA LastChunkIs ==
    ASSUME ReadInv, ReadLastChunk
    PROVE  /\ phase = "reading" /\ phase' = "read"
           /\ \E chunk \in Seq(RowType) :
                 /\ TakeChunk(chunk)
                 /\ Len(chunk) \in {End.rows - Len(lines), End.rows - Len(lines) + 1}
                 /\ \A i \in 1 .. End.rows - Len(lines) : chunk[i] = log[Len(lines) + i]
<1> DEFINE n == Len(lines)
           whole == SubSeq(log, n + 1, End.rows)
<1>1. phase = "reading" /\ phase' = "read"
      /\ IF End.cut = "none" THEN TakeChunk(whole)
         ELSE \E r \in TornRow(log[End.rows + 1], End.cut) : TakeChunk(Append(whole, r))
  BY DEF ReadLastChunk
<1>2. IsEnd(End) /\ End.rows \in Nat /\ End.rows <= Len(log) /\ Len(log) \in Nat
      /\ n \in Nat /\ n <= End.rows /\ log \in Seq(RowType)
  BY <1>1, EndIs DEF ReadInv
<1> HIDE DEF n
<1>3. /\ whole \in Seq(RowType) /\ Len(whole) = End.rows - n
      /\ \A i \in 1 .. End.rows - n : whole[i] = log[n + i]
  BY <1>2, PieceIs
<1> HIDE DEF whole
<1>4. CASE End.cut = "none"
  BY <1>1, <1>3, <1>4 DEF n
<1>5. CASE End.cut # "none"
  <2>1. PICK r \in TornRow(log[End.rows + 1], End.cut) : TakeChunk(Append(whole, r))
    BY <1>1, <1>5
  <2>2. End.rows < Len(log) /\ End.cut \in Cuts
    BY <1>2, <1>5 DEF IsEnd
  <2>3. log[End.rows + 1] \in RowType
    <3>1. End.rows + 1 \in 1 .. Len(log)
      BY <1>2, <2>2
    <3> HIDE DEF RowType
    <3> QED
      BY <1>2, <3>1
  <2>4. r \in RowType
    BY <1>5, <2>1, <2>2, <2>3, TornRowIs
  <2> DEFINE chunk == Append(whole, r)
  <2>5. chunk \in Seq(RowType) /\ Len(chunk) = End.rows - n + 1
        /\ \A i \in 1 .. End.rows - n : chunk[i] = whole[i]
    <3>1. End.rows - n \in Nat
      BY <1>2
    <3> HIDE DEF RowType
    <3> QED
      BY <1>3, <2>4, <3>1
  <2> HIDE DEF chunk
  <2>6. \A i \in 1 .. End.rows - n : chunk[i] = log[n + i]
    BY <1>3, <2>5
  <2>7. TakeChunk(chunk)
    BY <2>1 DEF chunk
  <2> QED
    BY <1>1, <2>5, <2>6, <2>7 DEF n
<1> QED
  BY <1>4, <1>5

LEMMA ReadLastChunkReads == ReadInv /\ ReadLastChunk => ReadInv'
<1> SUFFICES ASSUME ReadInv, ReadLastChunk PROVE ReadInv'
  OBVIOUS
<1> DEFINE n == Len(lines)
           more == End.rows - n
<1>1. phase = "reading" /\ phase' = "read"
  BY LastChunkIs
<1>2. PICK chunk \in Seq(RowType) :
         /\ TakeChunk(chunk) /\ Len(chunk) \in {more, more + 1}
         /\ \A i \in 1 .. more : chunk[i] = log[n + i]
  BY LastChunkIs
<1>3. End.rows \in Nat /\ n \in Nat /\ n <= End.rows /\ more \in Nat /\ n + more = End.rows
      /\ atOpen <= End.rows /\ atOpen \in Nat
  BY <1>1, EndIs DEF ReadInv
<1>4. /\ UNCHANGED <<log, flushed, chunkSize, intervalSec, limit, atOpen>> /\ End' = End
      /\ lines' \in Seq(RowType) /\ rows' = Len(lines') /\ Len(lines') = n + Len(chunk)
      /\ \A i \in DOMAIN lines : lines'[i] = lines[i]
      /\ \A i \in 1 .. Len(chunk) : lines'[n + i] = chunk[i]
      /\ \A i \in DOMAIN lines' : i \in DOMAIN lines \/ i - n \in 1 .. Len(chunk)
  BY <1>1, <1>2, ChunkReads
<1>5. \A i \in DOMAIN lines : lines[i] = log[i]
  BY <1>1 DEF ReadInv
<1> HIDE DEF n, more
<1>6. ASSUME NEW i \in DOMAIN lines', i <= atOpen \/ i < Len(lines') PROVE lines'[i] = log[i]
  <2>1. CASE i \in DOMAIN lines
    BY <1>4, <1>5, <2>1
  <2>2. CASE i - n \in 1 .. Len(chunk)
    <3>1. i \in Int /\ Len(chunk) \in Nat
      BY <1>4
    <3>2. i <= End.rows
      BY <1>2, <1>3, <1>4, <1>6, <3>1
    <3>3. i - n \in 1 .. more
      BY <1>3, <2>2, <3>1, <3>2
    <3>4. lines'[n + (i - n)] = log[n + (i - n)]
      BY <1>2, <1>4, <2>2, <3>3
    <3> QED
      BY <1>3, <3>1, <3>4
  <2> QED
    BY <1>4, <2>1, <2>2
<1>7. atOpen <= Len(lines')
  BY <1>2, <1>3, <1>4
<1>8. NothingLeftOut'
  <2>1. \A i \in DOMAIN lines' : i <= atOpen \/ i < Len(lines') => lines'[i] = log[i]
    BY <1>6
  <2>2. Len(lines') >= atOpen
    BY <1>3, <1>4, <1>7
  <2> QED
    BY <1>4, <2>1, <2>2 DEF NothingLeftOut
<1>9. IsEnd(flushed)'
  BY <1>4 DEF ReadInv, IsEnd
<1> QED
  BY <1>1, <1>4, <1>8, <1>9 DEF ReadInv

\* Nothing is read any more.
LEMMA LaterReads ==
    ASSUME ReadInv, UNCHANGED <<disk, args, input>>,
           phase \notin {"start", "limited", "reading"}, phase' \notin {"start", "limited", "reading"}
    PROVE  ReadInv'
<1>1. UNCHANGED <<log, flushed, chunkSize, intervalSec, atOpen, lines, rows, limit>>
  BY DEF disk, args, input
<1>2. IsEnd(flushed)' /\ NothingLeftOut'
  BY <1>1 DEF ReadInv, IsEnd, NothingLeftOut
<1> QED
  BY <1>1, <1>2 DEF ReadInv

LEMMA StepReads == ReadInv /\ [Next]_vars => ReadInv'
<1> SUFFICES ASSUME ReadInv, [Next]_vars PROVE ReadInv'
  OBVIOUS
<1>1. CASE NoTrades
  BY <1>1, LaterReads DEF NoTrades
<1>2. CASE CombineParts
  BY <1>2, LaterReads DEF CombineParts
<1>3. CASE WriteLines
  <2>1. phase' \in {"writing", "written"}
    BY <1>3 DEF WriteLines
  <2> QED
    BY <1>3, <2>1, LaterReads DEF WriteLines
<1>4. CASE Interrupt
  BY <1>4, LaterReads DEF Interrupt
<1>5. CASE Load
  BY <1>5, LaterReads DEF Load
<1>6. CASE UNCHANGED vars
  <2>1. UNCHANGED <<log, flushed, phase, chunkSize, intervalSec, limit, atOpen, lines, rows>>
    BY <1>6 DEF vars, disk, args, input
  <2> QED
    BY <2>1 DEF ReadInv, IsEnd, NothingLeftOut, End, NoLimit
<1> QED
  BY <1>1, <1>2, <1>3, <1>4, <1>5, <1>6, FlushReads, DataLimitReads, OpenInputReads,
     ReadChunkReads, ReadLastChunkReads DEF Next

\* What is read is at every moment the beginning of the log up to the end that the
\* limit allows (aggregate_1s.py:128-227).
THEOREM ReadsBeginning == Spec => []ReadInv
<1>1. Init => ReadInv
  BY InitRead
<1>2. ReadInv /\ [Next]_vars => ReadInv'
  BY StepReads
<1> QED
  BY <1>1, <1>2, PTL DEF Spec

\* Every row that was whole on the disk when the aggregation began is read once and in
\* order, whatever is appended meanwhile and whatever piece of a row stands at the end
\* (aggregate_1s.py:128-184).
THEOREM ReadsAll == Spec => []NothingLeftOut
<1>1. ReadInv => NothingLeftOut
  BY DEF ReadInv
<1> QED
  BY <1>1, ReadsBeginning, PTL

-----------------------------------------------------------------------------
(* The part of a chunk.                                                    *)

LEMMA RowsAre ==
    ASSUME NEW ls \in Seq(RowType), NEW I \in SUBSET DOMAIN ls
    PROVE  /\ DOMAIN ls = 1 .. Len(ls) /\ Len(ls) \in Nat
           /\ I \subseteq Nat /\ I \subseteq Int /\ IsFiniteSet(I) /\ Cardinality(I) \in Nat
           /\ \A i \in I : /\ ls[i].sec \in Nat /\ ls[i].price \in Nat /\ ls[i].vol \in Int
           /\ Prices(ls, I) \subseteq Nat /\ Prices(ls, I) \subseteq Int
           /\ IsFiniteSet(Prices(ls, I)) /\ (I # {} => Prices(ls, I) # {})
<1>1. DOMAIN ls = 1 .. Len(ls) /\ Len(ls) \in Nat
  OBVIOUS
<1>2. I \subseteq Nat /\ I \subseteq Int /\ IsFiniteSet(I) /\ Cardinality(I) \in Nat
  <2>1. I \in SUBSET (1 .. Len(ls))
    BY <1>1
  <2>2. IsFiniteSet(1 .. Len(ls))
    BY <1>1, FS_Interval
  <2>3. IsFiniteSet(I)
    BY <2>1, <2>2, FS_Subset
  <2> QED
    BY <1>1, <2>1, <2>3, FS_CardinalityType
<1>3. \A i \in I : ls[i] \in RowType
  <2> HIDE DEF RowType
  <2> QED
    BY <1>1
<1>4. \A i \in I : ls[i].sec \in Nat /\ ls[i].price \in Nat /\ ls[i].vol \in Int
  BY <1>3 DEF RowType
<1>5. Prices(ls, I) \subseteq Nat /\ (I # {} => Prices(ls, I) # {})
  BY <1>4 DEF Prices
<1>6. IsFiniteSet(Prices(ls, I))
  <2> DEFINE f == [i \in I |-> ls[i].price]
  <2>1. IsFiniteSet({f[i] : i \in I})
    <3> HIDE DEF f
    <3> QED
      BY <1>2, ImageIsFinite
  <2>2. {f[i] : i \in I} = Prices(ls, I)
    BY DEF Prices
  <2> QED
    BY <2>1, <2>2
<1> QED
  BY <1>1, <1>2, <1>4, <1>5, <1>6

OfSide(ls, I, d) == {j \in I : SideOf(ls[j]) = d}
Volumes(ls) == [i \in DOMAIN ls |-> ls[i].vol]

LEMMA VolumeIs ==
    ASSUME NEW ls \in Seq(RowType), NEW I \in SUBSET DOMAIN ls, NEW d
    PROVE  /\ VolumeOf(ls, I, d) = TotalOf(Volumes(ls), OfSide(ls, I, d))
           /\ VolumeOf(ls, I, d) \in Int
           /\ OfSide(ls, I, d) \subseteq I /\ IsFiniteSet(OfSide(ls, I, d))
           /\ \A i \in OfSide(ls, I, d) : Volumes(ls)[i] \in Int
<1> DEFINE D == OfSide(ls, I, d)
<1>1. D \in SUBSET I /\ D \in SUBSET DOMAIN ls
  BY DEF OfSide
<1>2. IsFiniteSet(I) /\ \A i \in I : ls[i].vol \in Int
  BY RowsAre
<1>3. IsFiniteSet(D)
  BY <1>1, <1>2, FS_Subset
<1>4. \A i \in D : Volumes(ls)[i] = ls[i].vol /\ Volumes(ls)[i] \in Int
  BY <1>1, <1>2 DEF Volumes
<1>5. [i \in D |-> ls[i].vol] = [i \in D |-> Volumes(ls)[i]]
  <2> HIDE DEF D
  <2> QED
    BY <1>4
<1>6. VolumeOf(ls, I, d) = TotalOf(Volumes(ls), D)
  BY <1>5 DEF VolumeOf, OfSide, TotalOf
<1>7. TotalOf(Volumes(ls), D) \in Int
  <2> HIDE DEF D
  <2> QED
    BY <1>3, <1>4, TotalOfIs
<1> QED
  BY <1>1, <1>3, <1>4, <1>6, <1>7

\* The rows of a second among some.
OfSecond(ls, V, s) == {i \in V : ls[i].sec = s}

\* The rows of a part have numbers between those of the rows before it and the number of
\* the rows that have been read.
LEMMA PartIs ==
    ASSUME NEW ls \in Seq(RowType), NEW V \in SUBSET DOMAIN ls, NEW offset \in Nat, NEW s \in Nat
    PROVE  LET p == AggregateChunk(ls, V, offset)
               I == OfSecond(ls, V, s)
           IN  /\ DOMAIN p \subseteq Nat
               /\ s \in DOMAIN p <=> I # {}
               /\ I # {} =>
                     /\ p[s] \in PartType
                     /\ offset < p[s].first /\ p[s].first <= p[s].last
                     /\ p[s].last <= offset + Cardinality(V)
                     /\ p[s].open = ls[Min(I)].price /\ p[s].close = ls[Max(I)].price
                     /\ p[s].high = Max(Prices(ls, I)) /\ p[s].low = Min(Prices(ls, I))
                     /\ p[s].buy = VolumeOf(ls, I, "buy") /\ p[s].sell = VolumeOf(ls, I, "sell")
                     /\ p[s].cnt = Cardinality(I)
<1> DEFINE p == AggregateChunk(ls, V, offset)
           I == OfSecond(ls, V, s)
           vols == Total([i \in I |-> ls[i].vol])
           pvs == Total([i \in I |-> ls[i].price * ls[i].vol])
           Number(i) == offset + Place(V, i)
<1>1. DOMAIN p = {ls[i].sec : i \in V}
  BY DEF AggregateChunk
<1>2. DOMAIN p \subseteq Nat
  <2>1. \A i \in V : ls[i].sec \in Nat
    BY RowsAre
  <2> HIDE DEF p
  <2> QED
    BY <1>1, <2>1
<1>3. s \in DOMAIN p <=> I # {}
  BY <1>1 DEF OfSecond
<1>4. ASSUME I # {}
      PROVE  p[s] = [open |-> ls[Min(I)].price, close |-> ls[Max(I)].price,
                     high |-> Max(Prices(ls, I)), low |-> Min(Prices(ls, I)),
                     buy  |-> VolumeOf(ls, I, "buy"), sell |-> VolumeOf(ls, I, "sell"),
                     vol  |-> vols, pv |-> pvs, cnt  |-> Cardinality(I),
                     first |-> Number(Min(I)), last |-> Number(Max(I))]
  <2>1. s \in {ls[i].sec : i \in V}
    BY <1>4 DEF OfSecond
  <2> QED
    BY <2>1 DEF AggregateChunk, Prices, RowNumber, Place, OfSecond
<1> HIDE DEF p
<1>5. I \in SUBSET DOMAIN ls /\ I \in SUBSET V
  BY DEF OfSecond
<1>6. ASSUME I # {}
      PROVE  /\ Min(I) \in V /\ Max(I) \in V /\ Min(I) <= Max(I) /\ Min(I) \in Nat /\ Max(I) \in Nat
             /\ ls[Min(I)].price \in Nat /\ ls[Max(I)].price \in Nat
             /\ Max(Prices(ls, I)) \in Nat /\ Min(Prices(ls, I)) \in Nat
             /\ Cardinality(I) \in Nat
  <2> HIDE DEF I
  <2>1. /\ I \subseteq Int /\ I \subseteq Nat /\ IsFiniteSet(I) /\ Cardinality(I) \in Nat
        /\ \A i \in I : ls[i].price \in Nat
        /\ Prices(ls, I) \subseteq Nat /\ Prices(ls, I) \subseteq Int
        /\ IsFiniteSet(Prices(ls, I)) /\ Prices(ls, I) # {}
    BY <1>5, <1>6, RowsAre
  <2>2. Min(I) \in I /\ Max(I) \in I /\ Min(I) <= Max(I)
    BY <1>6, <2>1, EndsOfFinite
  <2>3. Max(Prices(ls, I)) \in Prices(ls, I) /\ Min(Prices(ls, I)) \in Prices(ls, I)
    BY <2>1, EndsOfFinite
  <2> QED
    BY <1>5, <2>1, <2>2, <2>3
<1>7. VolumeOf(ls, I, "buy") \in Int /\ VolumeOf(ls, I, "sell") \in Int
  BY <1>5, VolumeIs
<1>8. vols \in Int /\ pvs \in Int
  <2> HIDE DEF I
  <2>1. IsFiniteSet(I) /\ \A i \in I : ls[i].vol \in Int /\ ls[i].price \in Int
    <3>1. IsFiniteSet(I) /\ \A i \in I : ls[i].vol \in Int /\ ls[i].price \in Nat
      BY <1>5, RowsAre
    <3> QED
      BY <3>1
  <2>2. \A i \in I : ls[i].price * ls[i].vol \in Int
    BY <2>1
  <2>3. [i \in I |-> ls[i].vol] \in [I -> Int]
    BY <2>1
  <2>4. [i \in I |-> ls[i].price * ls[i].vol] \in [I -> Int]
    BY <2>2
  <2> QED
    BY <2>1, <2>3, <2>4, TotalIs
<1>9. ASSUME I # {}
      PROVE  /\ Number(Min(I)) \in Nat /\ Number(Max(I)) \in Nat
             /\ offset < Number(Min(I)) /\ Number(Min(I)) <= Number(Max(I))
             /\ Number(Max(I)) <= offset + Cardinality(V)
  <2>1. IsFiniteSet(V) /\ V \subseteq Nat
    BY RowsAre
  <2>2. /\ Cardinality(V) \in Nat
        /\ \A i \in V : Place(V, i) \in 1 .. Cardinality(V)
        /\ \A i \in V, j \in V : i < j => Place(V, i) < Place(V, j)
    BY <2>1, PlaceIs
  <2> DEFINE a == Min(I)
             b == Max(I)
  <2>3. a \in V /\ b \in V /\ a <= b /\ a \in Nat /\ b \in Nat
    BY <1>6, <1>9
  <2> HIDE DEF a, b, I
  <2>4. Place(V, a) \in 1 .. Cardinality(V) /\ Place(V, b) \in 1 .. Cardinality(V)
    BY <2>2, <2>3
  <2>5. Place(V, a) <= Place(V, b)
    <3>1. CASE a = b
      BY <2>2, <2>4, <3>1
    <3>2. CASE a < b
      BY <2>2, <2>3, <2>4, <3>2
    <3> QED
      BY <2>3, <3>1, <3>2
  <2>6. /\ offset + Place(V, a) \in Nat /\ offset + Place(V, b) \in Nat
        /\ offset < offset + Place(V, a) /\ offset + Place(V, a) <= offset + Place(V, b)
        /\ offset + Place(V, b) <= offset + Cardinality(V)
    BY <2>2, <2>4, <2>5
  <2> QED
    BY <2>6 DEF a, b
<1> HIDE DEF I, vols, pvs, Number
<1>10. ASSUME I # {} PROVE p[s] \in PartType
  <2>1. p[s] = [open |-> ls[Min(I)].price, close |-> ls[Max(I)].price,
                high |-> Max(Prices(ls, I)), low |-> Min(Prices(ls, I)),
                buy  |-> VolumeOf(ls, I, "buy"), sell |-> VolumeOf(ls, I, "sell"),
                vol  |-> vols, pv |-> pvs, cnt  |-> Cardinality(I),
                first |-> Number(Min(I)), last |-> Number(Max(I))]
    BY <1>4, <1>10
  <2> QED
    BY <1>6, <1>7, <1>8, <1>9, <1>10, <2>1 DEF PartType
<1>11. ASSUME I # {}
       PROVE  /\ offset < p[s].first /\ p[s].first <= p[s].last
              /\ p[s].last <= offset + Cardinality(V)
              /\ p[s].open = ls[Min(I)].price /\ p[s].close = ls[Max(I)].price
              /\ p[s].high = Max(Prices(ls, I)) /\ p[s].low = Min(Prices(ls, I))
              /\ p[s].buy = VolumeOf(ls, I, "buy") /\ p[s].sell = VolumeOf(ls, I, "sell")
              /\ p[s].cnt = Cardinality(I)
  BY <1>4, <1>9, <1>11
<1> QED
  BY <1>2, <1>3, <1>10, <1>11 DEF p, I

LEMMA PartIsPart ==
    ASSUME NEW ls \in Seq(RowType), NEW V \in SUBSET DOMAIN ls, NEW offset \in Nat
    PROVE  AggregateChunk(ls, V, offset) \in AnyPart
<1> DEFINE p == AggregateChunk(ls, V, offset)
<1>1. p = [s \in DOMAIN p |-> p[s]]
  BY DEF AggregateChunk
<1>2. DOMAIN p \subseteq Nat
  BY PartIs
<1>3. \A s \in DOMAIN p : p[s] \in PartType
  <2> TAKE s \in DOMAIN p
  <2>1. s \in Nat
    BY <1>2
  <2> QED
    BY <2>1, PartIs
<1> HIDE DEF p
<1>4. p \in [DOMAIN p -> PartType]
  BY <1>1, <1>3
<1> QED
  BY <1>2, <1>4 DEF AnyPart, p

LEMMA HoldingIs ==
    ASSUME NEW ps \in Seq(AnyPart), NEW s
    PROVE  /\ DOMAIN ps = 1 .. Len(ps) /\ Len(ps) \in Nat
           /\ Holding(ps, s) \subseteq Nat /\ Holding(ps, s) \subseteq Int
           /\ Holding(ps, s) \subseteq 1 .. Len(ps) /\ IsFiniteSet(Holding(ps, s))
           /\ \A k \in Holding(ps, s) : ps[k][s] \in PartType
<1>1. DOMAIN ps = 1 .. Len(ps) /\ Len(ps) \in Nat
  OBVIOUS
<1>2. Holding(ps, s) \in SUBSET (1 .. Len(ps))
  BY <1>1 DEF Holding
<1>3. IsFiniteSet(Holding(ps, s))
  <2>1. IsFiniteSet(1 .. Len(ps))
    BY <1>1, FS_Interval
  <2> QED
    BY <1>2, <2>1, FS_Subset
<1>4. ASSUME NEW k \in Holding(ps, s) PROVE ps[k][s] \in PartType
  <2>1. ps[k] \in AnyPart /\ s \in DOMAIN ps[k]
    <3> HIDE DEF AnyPart
    <3> QED
      BY <1>1, <1>2 DEF Holding
  <2>2. PICK D \in SUBSET Nat : ps[k] \in [D -> PartType]
    BY <2>1 DEF AnyPart
  <2> HIDE DEF PartType
  <2> QED
    BY <2>1, <2>2
<1> QED
  BY <1>1, <1>2, <1>3, <1>4

\* ms goes on where ls ends.
Extends(ls, ms) == Len(ls) <= Len(ms) /\ \A i \in DOMAIN ls : ms[i] = ls[i]

\* qs is ps and one more part.
Appends(ps, qs, part) ==
    /\ Len(qs) = Len(ps) + 1
    /\ \A k \in DOMAIN ps : qs[k] = ps[k]
    /\ qs[Len(ps) + 1] = part

\* More rows: what is said of those that were there stays.
LEMMA SameRows ==
    ASSUME NEW ls, NEW ms, Extends(ls, ms),
           NEW I \in SUBSET DOMAIN ls
    PROVE  /\ Prices(ms, I) = Prices(ls, I)
           /\ \A d : VolumeOf(ms, I, d) = VolumeOf(ls, I, d)
<1>1. \A i \in I : ms[i] = ls[i]
  BY DEF Extends
<1>2. Prices(ms, I) = Prices(ls, I)
  BY <1>1 DEF Prices
<1>3. ASSUME NEW d PROVE VolumeOf(ms, I, d) = VolumeOf(ls, I, d)
  <2> DEFINE D == {j \in I : SideOf(ls[j]) = d}
  <2>1. {j \in I : SideOf(ms[j]) = d} = D
    BY <1>1
  <2>2. [i \in D |-> ms[i].vol] = [i \in D |-> ls[i].vol]
    BY <1>1
  <2> QED
    BY <2>1, <2>2 DEF VolumeOf
<1> QED
  BY <1>2, <1>3

\* The valid ones among the rows of ms behind those of ls.
NewRows(ls, ms) == {i \in Len(ls) + 1 .. Len(ms) : Valid(ms[i])}

LEMMA AtGrows ==
    ASSUME NEW ls \in Seq(RowType), NEW ms \in Seq(RowType), Extends(ls, ms), NEW s
    PROVE  LET I == OfSecond(ms, NewRows(ls, ms), s) IN
           /\ At(ms, s) = At(ls, s) \cup I
           /\ At(ls, s) \subseteq DOMAIN ls /\ I \subseteq DOMAIN ms
           /\ DOMAIN ls \subseteq DOMAIN ms /\ NewRows(ls, ms) \subseteq DOMAIN ms
           /\ \A i \in At(ls, s), j \in I : i < j
           /\ At(ls, s) \cap I = {}
<1> DEFINE I == OfSecond(ms, NewRows(ls, ms), s)
<1>0. Len(ls) <= Len(ms) /\ \A i \in DOMAIN ls : ms[i] = ls[i]
  BY DEF Extends
<1>1. /\ DOMAIN ls = 1 .. Len(ls) /\ Len(ls) \in Nat
      /\ DOMAIN ms = 1 .. Len(ms) /\ Len(ms) \in Nat
  OBVIOUS
<1>2. DOMAIN ms = DOMAIN ls \cup (Len(ls) + 1 .. Len(ms)) /\ DOMAIN ls \subseteq DOMAIN ms
  BY <1>0, <1>1
<1>3. At(ms, s) = At(ls, s) \cup I
  BY <1>0, <1>2 DEF At, NewRows, OfSecond
<1>4. At(ls, s) \subseteq DOMAIN ls /\ I \subseteq Len(ls) + 1 .. Len(ms)
      /\ NewRows(ls, ms) \subseteq Len(ls) + 1 .. Len(ms)
  BY DEF At, NewRows, OfSecond
<1> HIDE DEF I
<1>5. \A i \in At(ls, s), j \in I : i < j
  <2> TAKE i \in At(ls, s), j \in I
  <2>1. i \in 1 .. Len(ls) /\ j \in Len(ls) + 1 .. Len(ms)
    BY <1>1, <1>4
  <2> QED
    BY <1>1, <2>1
<1>6. At(ls, s) \cap I = {}
  <2> SUFFICES ASSUME NEW i \in At(ls, s) \cap I PROVE FALSE
    OBVIOUS
  <2>1. i < i /\ i \in Int
    BY <1>1, <1>4, <1>5
  <2> QED
    BY <2>1
<1>7. I \subseteq DOMAIN ms /\ NewRows(ls, ms) \subseteq DOMAIN ms
  BY <1>2, <1>4
<1> QED
  BY <1>2, <1>3, <1>4, <1>5, <1>6, <1>7 DEF I

\* The same parts hold the second s.
Keeps(ps, qs, s) ==
    Holding(qs, s) = Holding(ps, s) /\ \A k \in Holding(ps, s) : qs[k] = ps[k]

\* No new row is of the second s.
NoneOf(ls, ms, s) == OfSecond(ms, NewRows(ls, ms), s) = {}

\* A chunk without rows of the second.
LEMMA CoveredSame ==
    ASSUME NEW ls \in Seq(RowType), NEW ms \in Seq(RowType), Extends(ls, ms),
           NEW ps \in Seq(AnyPart), NEW qs \in Seq(AnyPart),
           NEW s, Covered(ls, ps, Len(ls), s),
           NoneOf(ls, ms, s), Keeps(ps, qs, s)
    PROVE  Covered(ms, qs, Len(ms), s)
<1> DEFINE P == At(ls, s)
           K == Holding(ps, s)
<1>1. At(ms, s) = P /\ P \in SUBSET DOMAIN ls /\ DOMAIN ls \subseteq DOMAIN ms
  <2> DEFINE I == OfSecond(ms, NewRows(ls, ms), s)
  <2>1. At(ms, s) = P \cup I /\ P \subseteq DOMAIN ls /\ DOMAIN ls \subseteq DOMAIN ms
    BY AtGrows
  <2>2. I = {}
    BY DEF NoneOf
  <2> HIDE DEF I, P
  <2> QED
    BY <2>1, <2>2
<1>2. Holding(qs, s) = K /\ \A k \in K : qs[k] = ps[k]
  BY DEF Keeps
<1>3. Prices(ms, P) = Prices(ls, P) /\ \A d : VolumeOf(ms, P, d) = VolumeOf(ls, P, d)
  BY <1>1, SameRows
<1>4. /\ K = {} <=> P = {}
      /\ InTurn(ps, Len(ls), s) /\ (K # {} => SameEnds(ls, ps, s)) /\ SameSums(ls, ps, s)
  BY DEF Covered
<1>5. K \subseteq Int /\ IsFiniteSet(K) /\ \A k \in K : ps[k][s] \in PartType
  BY HoldingIs
<1>6. Len(ls) \in Nat /\ Len(ms) \in Nat /\ Len(ls) <= Len(ms)
        /\ \A i \in DOMAIN ls : ms[i] = ls[i]
  BY DEF Extends
<1>7. InTurn(qs, Len(ms), s)
  <2>1. \A k \in K : ps[k][s].last <= Len(ms)
    <3> TAKE k \in K
    <3>1. ps[k][s].last \in Nat
      BY <1>5 DEF PartType
    <3>2. ps[k][s].last <= Len(ls)
      BY <1>4 DEF InTurn
    <3> QED
      BY <1>6, <3>1, <3>2
  <2> HIDE DEF K
  <2> QED
    BY <1>2, <1>4, <2>1 DEF InTurn, K
<1>8. ASSUME K # {} PROVE SameEnds(ms, qs, s)
  <2>1. Min(K) \in K /\ Max(K) \in K
    BY <1>5, <1>8, EndsOfFinite
  <2>2. P # {} /\ Min(P) \in P /\ Max(P) \in P
    <3>1. P # {}
      BY <1>4, <1>8
    <3>2. P \subseteq Int /\ IsFiniteSet(P)
      BY <1>1, RowsAre
    <3> HIDE DEF P
    <3> QED
      BY <3>1, <3>2, EndsOfFinite
  <2>3. ms[Min(P)] = ls[Min(P)] /\ ms[Max(P)] = ls[Max(P)]
    BY <1>1, <1>6, <2>2
  <2>4. SameEnds(ls, ps, s)
    BY <1>4, <1>8
  <2>5. {qs[k][s].high : k \in K} = {ps[k][s].high : k \in K}
        /\ {qs[k][s].low : k \in K} = {ps[k][s].low : k \in K}
    <3> HIDE DEF K
    <3> QED
      BY <1>2
  <2>6. qs[Min(K)] = ps[Min(K)] /\ qs[Max(K)] = ps[Max(K)]
    BY <1>2, <2>1
  <2> QED
    BY <1>1, <1>2, <1>3, <2>3, <2>4, <2>5, <2>6 DEF SameEnds
<1>9. SameSums(ms, qs, s)
  <2>1. \A name : Field(qs, K, s, name) = Field(ps, K, s, name)
    <3> TAKE name
    <3> HIDE DEF K
    <3>1. [k \in K |-> qs[k][s][name]] = [k \in K |-> ps[k][s][name]]
      BY <1>2
    <3> QED
      BY <3>1 DEF Field
  <2>2. SameSums(ls, ps, s)
    BY <1>4
  <2> QED
    BY <1>1, <1>2, <1>3, <2>1, <2>2 DEF SameSums
<1> QED
  BY <1>1, <1>2, <1>4, <1>7, <1>8, <1>9 DEF Covered

\* One set behind the other.
LEMMA EndsOfJoined ==
    ASSUME NEW A, NEW B, IsFiniteSet(A), IsFiniteSet(B), A \subseteq Int, B \subseteq Int,
           B # {}, \A a \in A, b \in B : a < b
    PROVE  /\ Max(A \cup B) = Max(B)
           /\ Min(A \cup B) = IF A = {} THEN Min(B) ELSE Min(A)
<1> DEFINE h == Max(B)
           l == Min(A)
<1>1. h \in B /\ \A b \in B : b <= h
  BY EndsOfFinite
<1>2. A # {} => l \in A /\ \A a \in A : l <= a
  BY EndsOfFinite
<1> HIDE DEF h, l
<1>3. ASSUME NEW x \in A \cup B PROVE x <= h
  <2>1. CASE x \in A
    <3>1. x < h /\ x \in Int /\ h \in Int
      BY <1>1, <2>1
    <3> QED
      BY <3>1
  <2> QED
    BY <1>1, <2>1
<1>4. Max(A \cup B) = h
  BY <1>1, <1>3, EndsAre
<1>5. CASE A = {}
  <2>1. A \cup B = B
    BY <1>5
  <2> QED
    BY <1>4, <1>5, <2>1 DEF h
<1>6. CASE A # {}
  <2>1. ASSUME NEW x \in A \cup B PROVE l <= x
    <3>1. CASE x \in B
      <4>1. l < x /\ x \in Int /\ l \in Int
        BY <1>2, <1>6, <3>1
      <4> QED
        BY <4>1
    <3> QED
      BY <1>2, <1>6, <3>1
  <2>2. Min(A \cup B) = l
    BY <1>2, <1>6, <2>1, EndsAre
  <2> QED
    BY <1>4, <1>6, <2>2 DEF h, l
<1> QED
  BY <1>5, <1>6

LEMMA EndsOfUnion ==
    ASSUME NEW A, NEW B, IsFiniteSet(A), IsFiniteSet(B), A \subseteq Int, B \subseteq Int,
           A # {}, B # {}
    PROVE  /\ Max(A \cup B) = IF Max(A) <= Max(B) THEN Max(B) ELSE Max(A)
           /\ Min(A \cup B) = IF Min(A) <= Min(B) THEN Min(A) ELSE Min(B)
<1> DEFINE ha == Max(A)
           hb == Max(B)
           la == Min(A)
           lb == Min(B)
           h == IF ha <= hb THEN hb ELSE ha
           l == IF la <= lb THEN la ELSE lb
<1>1. ha \in A /\ la \in A /\ (\A a \in A : a <= ha /\ la <= a)
  BY EndsOfFinite
<1>2. hb \in B /\ lb \in B /\ (\A b \in B : b <= hb /\ lb <= b)
  BY EndsOfFinite
<1> HIDE DEF ha, hb, la, lb
<1>3. ha \in Int /\ hb \in Int /\ la \in Int /\ lb \in Int
  BY <1>1, <1>2
<1>4. h \in A \cup B /\ l \in A \cup B /\ ha <= h /\ hb <= h /\ l <= la /\ l <= lb
      /\ h \in Int /\ l \in Int
  BY <1>1, <1>2, <1>3
<1> HIDE DEF h, l
<1>5. ASSUME NEW x \in A \cup B PROVE x <= h /\ l <= x
  <2>1. CASE x \in A
    <3>1. x <= ha /\ la <= x /\ x \in Int
      BY <1>1, <2>1
    <3> QED
      BY <1>3, <1>4, <3>1
  <2>2. CASE x \in B
    <3>1. x <= hb /\ lb <= x /\ x \in Int
      BY <1>2, <2>2
    <3> QED
      BY <1>3, <1>4, <3>1
  <2> QED
    BY <2>1, <2>2
<1>6. A \cup B \subseteq Int
  OBVIOUS
<1>7. Max(A \cup B) = h /\ Min(A \cup B) = l
  BY <1>4, <1>5, <1>6, EndsAre
<1> QED
  BY <1>7 DEF h, l, ha, hb, la, lb

LEMMA VolumeOfUnion ==
    ASSUME NEW ls \in Seq(RowType), NEW A \in SUBSET DOMAIN ls, NEW B \in SUBSET DOMAIN ls,
           A \cap B = {}, NEW d
    PROVE  VolumeOf(ls, A \cup B, d) = VolumeOf(ls, A, d) + VolumeOf(ls, B, d)
<1> DEFINE C == OfSide(ls, A, d)
           D == OfSide(ls, B, d)
           v == Volumes(ls)
<1>1. OfSide(ls, A \cup B, d) = C \cup D
  BY DEF OfSide
<1>2. VolumeOf(ls, A, d) = TotalOf(v, C) /\ C \subseteq A /\ IsFiniteSet(C) /\ \A i \in C : v[i] \in Int
  BY VolumeIs
<1>3. VolumeOf(ls, B, d) = TotalOf(v, D) /\ D \subseteq B /\ IsFiniteSet(D) /\ \A i \in D : v[i] \in Int
  BY VolumeIs
<1>4. A \cup B \in SUBSET DOMAIN ls
  OBVIOUS
<1>5. VolumeOf(ls, A \cup B, d) = TotalOf(v, OfSide(ls, A \cup B, d))
  BY <1>4, VolumeIs
<1> HIDE DEF C, D, v
<1>6. C \cap D = {} /\ \A i \in C \cup D : v[i] \in Int
  BY <1>2, <1>3
<1>7. TotalOf(v, C \cup D) = TotalOf(v, C) + TotalOf(v, D)
  BY <1>2, <1>3, <1>6, TotalOfUnion
<1> QED
  BY <1>1, <1>2, <1>3, <1>5, <1>7

\* A chunk with rows of the second.
LEMMA CoveredMore ==
    ASSUME NEW ls \in Seq(RowType), NEW ms \in Seq(RowType), Extends(ls, ms),
           NEW ps \in Seq(AnyPart), NEW qs \in Seq(AnyPart),
           NEW s \in Nat, Covered(ls, ps, Len(ls), s),
           NEW offset \in Nat, Len(ls) <= offset,
           offset + Cardinality(NewRows(ls, ms)) = Len(ms),
           OfSecond(ms, NewRows(ls, ms), s) # {},
           Appends(ps, qs, AggregateChunk(ms, NewRows(ls, ms), offset))
    PROVE  Covered(ms, qs, Len(ms), s)
<1> DEFINE V == NewRows(ls, ms)
           P == At(ls, s)
           I == OfSecond(ms, V, s)
           K == Holding(ps, s)
           new == Len(ps) + 1
           p == AggregateChunk(ms, V, offset)
<1>1. /\ At(ms, s) = P \cup I /\ P \in SUBSET DOMAIN ls /\ I \in SUBSET DOMAIN ms
      /\ DOMAIN ls \subseteq DOMAIN ms /\ V \in SUBSET DOMAIN ms
      /\ \A i \in P, j \in I : i < j
      /\ P \cap I = {}
  <2>1. /\ At(ms, s) = P \cup I /\ P \subseteq DOMAIN ls /\ I \subseteq DOMAIN ms
        /\ DOMAIN ls \subseteq DOMAIN ms /\ V \subseteq DOMAIN ms
        /\ \A i \in P, j \in I : i < j
        /\ P \cap I = {}
    BY AtGrows
  <2> HIDE DEF P, I, V
  <2> QED
    BY <2>1
<1>2. I # {}
  OBVIOUS
<1>3. /\ s \in DOMAIN p /\ p[s] \in PartType
      /\ offset < p[s].first /\ p[s].first <= p[s].last /\ p[s].last <= offset + Cardinality(V)
      /\ p[s].open = ms[Min(I)].price /\ p[s].close = ms[Max(I)].price
      /\ p[s].high = Max(Prices(ms, I)) /\ p[s].low = Min(Prices(ms, I))
      /\ p[s].buy = VolumeOf(ms, I, "buy") /\ p[s].sell = VolumeOf(ms, I, "sell")
      /\ p[s].cnt = Cardinality(I)
  <2>1. V \in SUBSET DOMAIN ms
    BY <1>1
  <2> HIDE DEF V
  <2>2. /\ s \in DOMAIN p <=> I # {}
        /\ I # {} =>
           /\ p[s] \in PartType
           /\ offset < p[s].first /\ p[s].first <= p[s].last /\ p[s].last <= offset + Cardinality(V)
           /\ p[s].open = ms[Min(I)].price /\ p[s].close = ms[Max(I)].price
           /\ p[s].high = Max(Prices(ms, I)) /\ p[s].low = Min(Prices(ms, I))
           /\ p[s].buy = VolumeOf(ms, I, "buy") /\ p[s].sell = VolumeOf(ms, I, "sell")
           /\ p[s].cnt = Cardinality(I)
    BY <2>1, PartIs
  <2> HIDE DEF p, I
  <2> QED
    BY <1>2, <2>2
<1>4. /\ K \subseteq Int /\ K \subseteq 1 .. Len(ps) /\ IsFiniteSet(K) /\ Len(ps) \in Nat
      /\ DOMAIN ps = 1 .. Len(ps)
      /\ \A k \in K : ps[k][s] \in PartType
  BY HoldingIs
<1>5. /\ Holding(qs, s) = K \cup {new} /\ new \notin K
      /\ qs[new] = p /\ \A k \in K : qs[k] = ps[k] /\ k < new /\ k # new
  <2>1. DOMAIN qs = DOMAIN ps \cup {new} /\ new \notin DOMAIN ps
    <3>1. Len(qs) = Len(ps) + 1 /\ DOMAIN qs = 1 .. Len(qs)
      BY HoldingIs DEF Appends
    <3> QED
      BY <1>4, <3>1
  <2>2. qs[new] = p /\ \A k \in DOMAIN ps : qs[k] = ps[k]
    BY DEF Appends
  <2>3. Holding(qs, s) = K \cup {new}
    <3> HIDE DEF new, p
    <3> QED
      BY <1>3, <2>1, <2>2 DEF Holding
  <2>4. \A k \in K : k < new /\ k # new
    BY <1>4
  <2> QED
    BY <1>4, <2>2, <2>3, <2>4
<1>6. \A i \in P : ms[i] = ls[i]
  BY <1>1 DEF Extends
<1>7. Prices(ms, P) = Prices(ls, P) /\ \A d : VolumeOf(ms, P, d) = VolumeOf(ls, P, d)
  <2>1. P \in SUBSET DOMAIN ls
    BY <1>1
  <2> HIDE DEF P
  <2> QED
    BY <2>1, SameRows
<1>8. /\ K = {} <=> P = {}
      /\ InTurn(ps, Len(ls), s) /\ (K # {} => SameEnds(ls, ps, s)) /\ SameSums(ls, ps, s)
  BY DEF Covered
<1>9. Len(ls) \in Nat /\ Len(ms) \in Nat /\ offset + Cardinality(V) = Len(ms) /\ Len(ls) <= offset
  OBVIOUS
<1>10. /\ IsFiniteSet(P) /\ P \subseteq Int /\ IsFiniteSet(I) /\ I \subseteq Int
       /\ Cardinality(P) \in Nat /\ Cardinality(I) \in Nat
       /\ IsFiniteSet(Prices(ls, P)) /\ Prices(ls, P) \subseteq Int
       /\ IsFiniteSet(Prices(ms, I)) /\ Prices(ms, I) \subseteq Int /\ Prices(ms, I) # {}
       /\ P # {} => Prices(ls, P) # {}
  <2> HIDE DEF P, I
  <2> QED
    BY <1>1, <1>2, RowsAre
<1> HIDE DEF V, P, I, K, p, new
<1>11. InTurn(qs, Len(ms), s)
  <2>1. \A k \in K \cup {new} : qs[k][s].first <= qs[k][s].last /\ qs[k][s].last <= Len(ms)
    <3> TAKE k \in K \cup {new}
    <3>1. CASE k \in K
      <4>1. ps[k][s].first <= ps[k][s].last /\ ps[k][s].last <= Len(ls)
        BY <1>8, <3>1 DEF InTurn, K
      <4>2. ps[k][s].last \in Nat
        BY <1>4, <3>1 DEF PartType
      <4>3. Len(ls) <= Len(ms)
        BY DEF Extends
      <4>4. ps[k][s].last <= Len(ms)
        BY <1>9, <4>1, <4>2, <4>3
      <4> QED
        BY <1>5, <3>1, <4>1, <4>4
    <3>2. CASE k = new
      BY <1>3, <1>5, <1>9, <3>2
    <3> QED
      BY <3>1, <3>2
  <2>2. ASSUME NEW j \in K \cup {new}, NEW k \in K \cup {new}, j < k
        PROVE  qs[j][s].last < qs[k][s].first
    <3>1. CASE j \in K /\ k \in K
      <4>1. ps[j][s].last < ps[k][s].first
        BY <1>8, <2>2, <3>1 DEF InTurn, K
      <4> QED
        BY <1>5, <3>1, <4>1
    <3>2. CASE j \in K /\ k = new
      <4>1. ps[j][s].last <= Len(ls)
        BY <1>8, <3>2 DEF InTurn, K
      <4>2. ps[j][s].last \in Nat /\ p[s].first \in Nat
        BY <1>3, <1>4, <3>2 DEF PartType
      <4>3. ps[j][s].last < p[s].first
        BY <1>3, <1>9, <4>1, <4>2
      <4> QED
        BY <1>5, <3>2, <4>3
    <3>3. j # new
      <4> SUFFICES ASSUME j = new PROVE FALSE
        OBVIOUS
      <4>1. k \in Int /\ new \in Int /\ (k < new \/ k = new)
        BY <1>4, <1>5 DEF new
      <4> QED
        BY <2>2, <4>1
    <3> QED
      BY <3>1, <3>2, <3>3
  <2> QED
    BY <1>5, <2>1, <2>2 DEF InTurn
<1>12. /\ Max(K \cup {new}) = new /\ Min(K \cup {new}) = (IF K = {} THEN new ELSE Min(K))
       /\ Max(P \cup I) = Max(I) /\ Min(P \cup I) = (IF P = {} THEN Min(I) ELSE Min(P))
  <2>1. /\ new \in Int /\ IsFiniteSet({new})
        /\ \A a \in K, b \in {new} : a < b
    <3>1. new \in Int
      BY <1>4 DEF new
    <3>2. IsFiniteSet({new})
      BY FS_Singleton
    <3>3. \A a \in K : a < new
      BY <1>5
    <3> QED
      BY <3>1, <3>2, <3>3
  <2>2. Max({new}) = new /\ Min({new}) = new
    <3>1. {new} \subseteq Int /\ new \in {new} /\ \A y \in {new} : y <= new /\ new <= y
      BY <2>1
    <3> QED
      BY <3>1, EndsAre
  <2>3. /\ Max(K \cup {new}) = Max({new})
        /\ Min(K \cup {new}) = IF K = {} THEN Min({new}) ELSE Min(K)
    <3>1. {new} \subseteq Int /\ {new} # {}
      BY <2>1
    <3> QED
      BY <1>4, <2>1, <3>1, EndsOfJoined
  <2>4. Max(P \cup I) = Max(I) /\ Min(P \cup I) = IF P = {} THEN Min(I) ELSE Min(P)
    BY <1>1, <1>2, <1>10, EndsOfJoined DEF I
  <2> QED
    BY <2>2, <2>3, <2>4
<1>13. /\ qs[Min(K \cup {new})][s].open = ms[Min(P \cup I)].price
       /\ qs[Max(K \cup {new})][s].close = ms[Max(P \cup I)].price
  <2>1. qs[new][s].open = ms[Min(I)].price /\ qs[new][s].close = ms[Max(I)].price
    BY <1>3, <1>5
  <2>2. CASE K = {}
    <3>1. P = {}
      BY <1>8, <2>2
    <3> QED
      BY <1>12, <2>1, <2>2, <3>1
  <2>3. CASE K # {}
    <3>1. P # {} /\ ps[Min(K)][s].open = ls[Min(P)].price
      BY <1>8, <2>3 DEF SameEnds, K, P
    <3>2. Min(K) \in K /\ Min(P) \in P
      BY <1>4, <1>10, <2>3, <3>1, EndsOfFinite
    <3>3. qs[Min(K)] = ps[Min(K)] /\ ms[Min(P)] = ls[Min(P)]
      BY <1>5, <1>6, <3>2
    <3> QED
      BY <1>12, <2>1, <2>3, <3>1, <3>3
  <2> QED
    BY <2>2, <2>3
<1>14. Prices(ms, P \cup I) = Prices(ls, P) \cup Prices(ms, I)
  <2>1. Prices(ms, P \cup I) = Prices(ms, P) \cup Prices(ms, I)
    BY DEF Prices
  <2> QED
    BY <1>7, <2>1
<1>15. \A k \in K \cup {new} : qs[k][s] \in PartType
  BY <1>3, <1>4, <1>5
<1>16. \A r \in PartType : r.high \in Int /\ r.low \in Int
  BY DEF PartType
<1> DEFINE H == {ps[k][s].high : k \in K}
           L == {ps[k][s].low : k \in K}
<1>17. /\ {qs[k][s].high : k \in K \cup {new}} = H \cup {p[s].high}
       /\ {qs[k][s].low : k \in K \cup {new}} = L \cup {p[s].low}
  <2>1. {qs[k][s].high : k \in K \cup {new}} = H \cup {p[s].high}
    BY <1>5
  <2>2. {qs[k][s].low : k \in K \cup {new}} = L \cup {p[s].low}
    BY <1>5
  <2> QED
    BY <2>1, <2>2
<1>18. /\ IsFiniteSet(H) /\ H \subseteq Int /\ (K = {} <=> H = {})
       /\ IsFiniteSet(L) /\ L \subseteq Int /\ (K = {} <=> L = {})
       /\ p[s].high \in Int /\ p[s].low \in Int
  <2> DEFINE f == [k \in K |-> ps[k][s].high]
             g == [k \in K |-> ps[k][s].low]
  <2>1. {f[k] : k \in K} = H
    OBVIOUS
  <2>2. {g[k] : k \in K} = L
    OBVIOUS
  <2> HIDE DEF f, g
  <2>3. IsFiniteSet({f[k] : k \in K}) /\ IsFiniteSet({g[k] : k \in K})
    BY <1>4, ImageIsFinite
  <2>4. H \subseteq Int /\ (K = {} <=> H = {})
    BY <1>4, <1>16
  <2>5. L \subseteq Int /\ (K = {} <=> L = {})
    BY <1>4, <1>16
  <2> QED
    BY <1>3, <1>16, <2>1, <2>2, <2>3, <2>4, <2>5
<1>19. K # {} => Max(H) = Max(Prices(ls, P)) /\ Min(L) = Min(Prices(ls, P))
  BY <1>8 DEF SameEnds, K, P
<1> HIDE DEF H, L
<1>20. /\ Max(H \cup {p[s].high}) = Max(Prices(ls, P) \cup Prices(ms, I))
       /\ Min(L \cup {p[s].low}) = Min(Prices(ls, P) \cup Prices(ms, I))
  <2> DEFINE A == Prices(ls, P)
             B == Prices(ms, I)
             h == p[s].high
             l == p[s].low
  <2>1. (K = {} <=> A = {}) /\ (K = {} <=> H = {}) /\ (K = {} <=> L = {})
    <3>1. P = {} => A = {}
      BY DEF Prices
    <3> QED
      BY <1>8, <1>10, <1>18, <3>1
  <2>2. /\ IsFiniteSet(A) /\ IsFiniteSet(B) /\ A \subseteq Int /\ B \subseteq Int /\ B # {}
        /\ h \in Int /\ l \in Int /\ h = Max(B) /\ l = Min(B)
    BY <1>3, <1>10, <1>18
  <2>3. K # {} => Max(H) = Max(A) /\ Min(L) = Min(A)
    BY <1>19
  <2> HIDE DEF A, B, h, l
  <2>4. Max({h}) = h /\ Min({l}) = l
    <3>1. {h} \subseteq Int /\ h \in {h} /\ \A y \in {h} : y <= h
      BY <2>2
    <3>2. {l} \subseteq Int /\ l \in {l} /\ \A y \in {l} : l <= y
      BY <2>2
    <3>3. Max({h}) = h
      BY <3>1, EndsAre
    <3>4. Min({l}) = l
      BY <3>2, EndsAre
    <3> QED
      BY <3>3, <3>4
  <2>5. CASE K = {}
    <3>1. H \cup {h} = {h} /\ L \cup {l} = {l} /\ A \cup B = B
      BY <2>1, <2>5
    <3> QED
      BY <2>2, <2>4, <3>1 DEF A, B, h, l
  <2>6. CASE K # {}
    <3>1. {h} \subseteq Int /\ {l} \subseteq Int /\ {h} # {} /\ {l} # {}
      BY <2>2
    <3>2. IsFiniteSet({h}) /\ IsFiniteSet({l})
      BY FS_Singleton
    <3>3. H # {} /\ L # {} /\ A # {} /\ Max(H) = Max(A) /\ Min(L) = Min(A)
      BY <2>1, <2>3, <2>6
    <3>4. Max(H \cup {h}) = IF Max(H) <= Max({h}) THEN Max({h}) ELSE Max(H)
      BY <1>18, <3>1, <3>2, <3>3, EndsOfUnion
    <3>5. Min(L \cup {l}) = IF Min(L) <= Min({l}) THEN Min(L) ELSE Min({l})
      BY <1>18, <3>1, <3>2, <3>3, EndsOfUnion
    <3>6. /\ Max(A \cup B) = IF Max(A) <= Max(B) THEN Max(B) ELSE Max(A)
          /\ Min(A \cup B) = IF Min(A) <= Min(B) THEN Min(A) ELSE Min(B)
      BY <2>2, <3>3, EndsOfUnion
    <3> QED
      BY <2>2, <2>4, <3>3, <3>4, <3>5, <3>6 DEF A, B, h, l
  <2> QED
    BY <2>5, <2>6
<1>21. SameEnds(ms, qs, s)
  <2>1. Max({qs[k][s].high : k \in K \cup {new}}) = Max(Prices(ms, P \cup I))
    BY <1>14, <1>17, <1>20
  <2>2. Min({qs[k][s].low : k \in K \cup {new}}) = Min(Prices(ms, P \cup I))
    BY <1>14, <1>17, <1>20
  <2> QED
    BY <1>1, <1>5, <1>13, <2>1, <2>2 DEF SameEnds
<1>22. SameSums(ms, qs, s)
  <2>1. ASSUME NEW name \in {"buy", "sell", "cnt"}
        PROVE  Field(qs, K \cup {new}, s, name) = Field(ps, K, s, name) + p[s][name]
    <3> DEFINE f == [k \in K \cup {new} |-> qs[k][s][name]]
    <3>1. \A r \in PartType : r[name] \in Int
      <4> TAKE r \in PartType
      <4>1. r.buy \in Int /\ r.sell \in Int /\ r.cnt \in Int
        BY DEF PartType
      <4>2. r["buy"] \in Int /\ r["sell"] \in Int /\ r["cnt"] \in Int
        BY <4>1
      <4> QED
        BY <4>2
    <3>2. \A k \in K \cup {new} : f[k] = qs[k][s][name] /\ f[k] \in Int
      BY <1>15, <3>1
    <3>3. [k \in K |-> f[k]] = [k \in K |-> ps[k][s][name]]
      BY <1>5
    <3>4. [k \in K \cup {new} |-> f[k]] = f
      OBVIOUS
    <3>5. TotalOf(f, K) = Field(ps, K, s, name)
      BY <3>3 DEF TotalOf, Field
    <3>6. TotalOf(f, K \cup {new}) = Field(qs, K \cup {new}, s, name)
      BY <3>4 DEF TotalOf, Field, f
    <3>7. f[new] = p[s][name]
      BY <1>5
    <3> HIDE DEF f
    <3>8. TotalOf(f, K \cup {new}) = TotalOf(f, K) + f[new]
      BY <1>4, <1>5, <3>2, TotalWith
    <3> QED
      BY <3>5, <3>6, <3>7, <3>8
  <2>2. \A d : VolumeOf(ms, P \cup I, d) = VolumeOf(ls, P, d) + VolumeOf(ms, I, d)
    <3> TAKE d
    <3>1. P \in SUBSET DOMAIN ms
      BY <1>1
    <3>2. VolumeOf(ms, P \cup I, d) = VolumeOf(ms, P, d) + VolumeOf(ms, I, d)
      BY <1>1, <3>1, VolumeOfUnion
    <3> QED
      BY <1>7, <3>2
  <2>3. Cardinality(P \cup I) = Cardinality(P) + Cardinality(I)
    <3>1. Cardinality(P \cup I) = Cardinality(P) + Cardinality(I) - Cardinality(P \cap I)
      BY <1>10, FS_Union
    <3>2. Cardinality(P \cap I) = 0
      BY <1>1, FS_EmptySet
    <3> QED
      BY <1>10, <3>1, <3>2
  <2>4. /\ Field(ps, K, s, "buy") = VolumeOf(ls, P, "buy")
        /\ Field(ps, K, s, "sell") = VolumeOf(ls, P, "sell")
        /\ Field(ps, K, s, "cnt") = Cardinality(P)
    BY <1>8 DEF SameSums, K, P
  <2>5. p[s]["buy"] = VolumeOf(ms, I, "buy") /\ p[s]["sell"] = VolumeOf(ms, I, "sell")
        /\ p[s]["cnt"] = Cardinality(I)
    BY <1>3
  <2>6. /\ Field(qs, K \cup {new}, s, "buy") = VolumeOf(ms, P \cup I, "buy")
        /\ Field(qs, K \cup {new}, s, "sell") = VolumeOf(ms, P \cup I, "sell")
        /\ Field(qs, K \cup {new}, s, "cnt") = Cardinality(P \cup I)
    BY <2>1, <2>2, <2>3, <2>4, <2>5
  <2> QED
    BY <1>1, <1>5, <2>6 DEF SameSums
<1>23. Holding(qs, s) # {} /\ At(ms, s) # {}
  BY <1>1, <1>2, <1>5
<1> QED
  BY <1>11, <1>21, <1>22, <1>23 DEF Covered

\* What a chunk does to the parts.
LEMMA ChunkCovers ==
    ASSUME NEW ls \in Seq(RowType), NEW ms \in Seq(RowType), Extends(ls, ms),
           NEW ps, PartsOf(ls, ps, Len(ls)), NEW qs,
           qs = IF NewRows(ls, ms) = {} THEN ps
                ELSE Append(ps, AggregateChunk(ms, NewRows(ls, ms),
                                               Len(ms) - Cardinality(NewRows(ls, ms))))
    PROVE  PartsOf(ms, qs, Len(ms))
<1> DEFINE V == NewRows(ls, ms)
           offset == Len(ms) - Cardinality(V)
           part == AggregateChunk(ms, V, offset)
<1>1. Len(ls) \in Nat /\ Len(ms) \in Nat /\ Len(ls) <= Len(ms) /\ DOMAIN ms = 1 .. Len(ms)
  BY DEF Extends
<1>2. V \in SUBSET (Len(ls) + 1 .. Len(ms)) /\ V \in SUBSET DOMAIN ms
  BY <1>1 DEF NewRows
<1>3. IsFiniteSet(V) /\ Cardinality(V) \in Nat /\ Cardinality(V) <= Len(ms) - Len(ls)
  <2> HIDE DEF V
  <2>1. IsFiniteSet(Len(ls) + 1 .. Len(ms))
    BY <1>1, FS_Interval
  <2>2. Cardinality(Len(ls) + 1 .. Len(ms)) = Len(ms) - Len(ls)
    <3>1. CASE Len(ls) + 1 > Len(ms)
      <4>1. Cardinality(Len(ls) + 1 .. Len(ms)) = 0
        BY <1>1, <3>1, FS_Interval
      <4> QED
        BY <1>1, <3>1, <4>1
    <3>2. CASE Len(ls) + 1 <= Len(ms)
      <4>1. Cardinality(Len(ls) + 1 .. Len(ms)) = Len(ms) - (Len(ls) + 1) + 1
        BY <1>1, <3>2, FS_Interval
      <4> QED
        BY <1>1, <4>1
    <3> QED
      BY <1>1, <3>1, <3>2
  <2>3. IsFiniteSet(V) /\ Cardinality(V) <= Cardinality(Len(ls) + 1 .. Len(ms))
    BY <1>2, <2>1, FS_Subset
  <2> QED
    BY <2>2, <2>3, FS_CardinalityType
<1>4. offset \in Nat /\ Len(ls) <= offset /\ offset + Cardinality(V) = Len(ms)
  <2> HIDE DEF V
  <2> QED
    BY <1>1, <1>3
<1>5. ps \in Seq(AnyPart) /\ \A s \in Nat : Covered(ls, ps, Len(ls), s)
  BY DEF PartsOf
<1>6. CASE V = {}
  <2>1. qs = ps
    BY <1>6
  <2>2. ASSUME NEW s \in Nat PROVE Covered(ms, qs, Len(ms), s)
    <3>1. NoneOf(ls, ms, s)
      BY <1>6 DEF OfSecond, NoneOf
    <3>2. Keeps(ps, qs, s)
      BY <2>1 DEF Keeps
    <3> QED
      BY <1>5, <2>1, <3>1, <3>2, CoveredSame
  <2> QED
    BY <1>5, <2>1, <2>2 DEF PartsOf
<1>7. CASE V # {}
  <2>1. qs = Append(ps, part)
    BY <1>7
  <2> HIDE DEF V, offset
  <2>2. part \in AnyPart
    BY <1>2, <1>4, PartIsPart
  <2> HIDE DEF part
  <2>3. qs \in Seq(AnyPart) /\ Appends(ps, qs, part) /\ DOMAIN qs = DOMAIN ps \cup {Len(ps) + 1}
        /\ Len(ps) + 1 \notin DOMAIN ps
    BY <1>5, <2>1, <2>2 DEF Appends
  <2>4. ASSUME NEW s \in Nat PROVE Covered(ms, qs, Len(ms), s)
    <3>1. CASE OfSecond(ms, V, s) = {}
      <4>1. s \notin DOMAIN part
        BY <1>2, <1>4, <3>1, PartIs DEF part
      <4>2. Holding(qs, s) = Holding(ps, s)
        BY <2>3, <4>1 DEF Holding, Appends
      <4>3. \A k \in Holding(ps, s) : qs[k] = ps[k]
        BY <2>3 DEF Holding, Appends
      <4>4. Keeps(ps, qs, s)
        BY <4>2, <4>3 DEF Keeps
      <4>5. Covered(ls, ps, Len(ls), s)
        BY <1>5
      <4>6. NoneOf(ls, ms, s)
        BY <3>1 DEF NoneOf, V
      <4> QED
        BY <1>5, <2>3, <4>4, <4>5, <4>6, CoveredSame
    <3>2. CASE OfSecond(ms, V, s) # {}
      BY <1>4, <1>5, <2>3, <3>2, CoveredMore DEF V, part
    <3> QED
      BY <3>1, <3>2
  <2> QED
    BY <2>3, <2>4 DEF PartsOf
<1> QED
  BY <1>6, <1>7

LEMMA TakeChunkCovers ==
    ASSUME ReadInv, PartsInv, phase = "reading", NEW chunk \in Seq(RowType), TakeChunk(chunk)
    PROVE  PartsInv'
<1> DEFINE ls == lines
           ms == lines'
           ps == parts
           qs == parts'
<1>1. ls \in Seq(RowType) /\ rows = Len(ls)
  BY DEF ReadInv
<1>2. ms \in Seq(RowType) /\ rows' = Len(ms) /\ Len(ms) = Len(ls) + Len(chunk)
      /\ \A i \in DOMAIN ls : ms[i] = ls[i]
  BY ChunkReads
<1>3. Extends(ls, ms)
  <2>1. Len(chunk) \in Nat /\ Len(ls) \in Nat
    BY <1>1
  <2> QED
    BY <1>2, <2>1 DEF Extends
<1>4. PartsOf(ls, ps, Len(ls))
  BY <1>1 DEF PartsInv
<1>5. qs = IF NewRows(ls, ms) = {} THEN ps
           ELSE Append(ps, AggregateChunk(ms, NewRows(ls, ms),
                                          Len(ms) - Cardinality(NewRows(ls, ms))))
  BY <1>2 DEF TakeChunk, NewRows
<1> HIDE DEF ls, ms, ps, qs
<1>6. PartsOf(ms, qs, Len(ms))
  BY <1>1, <1>2, <1>3, <1>4, <1>5, ChunkCovers
<1> QED
  BY <1>2, <1>6 DEF PartsInv, ms, qs

LEMMA InitCovers == Init => PartsInv
<1> SUFFICES ASSUME Init PROVE PartsInv
  OBVIOUS
<1>1. lines = <<>> /\ parts = <<>> /\ rows = 0
  BY DEF Init
<1>2. parts \in Seq(AnyPart)
  BY <1>1
<1>3. ASSUME NEW s \in Nat PROVE Covered(lines, parts, rows, s)
  <2>1. Holding(parts, s) = {} /\ At(lines, s) = {}
    BY <1>1 DEF Holding, At
  <2>2. InTurn(parts, rows, s)
    BY <2>1 DEF InTurn
  <2>3. SameSums(lines, parts, s)
    <3>1. \A g : TotalOf(g, {}) = 0
      BY FS_EmptySet, TotalOfIs
    <3> QED
      BY <2>1, <3>1, FS_EmptySet DEF SameSums, Field, VolumeOf, TotalOf
  <2> QED
    BY <2>1, <2>2, <2>3 DEF Covered
<1> QED
  BY <1>2, <1>3 DEF PartsInv, PartsOf

LEMMA StepCovers == ReadInv /\ PartsInv /\ [Next]_vars => PartsInv'
<1> SUFFICES ASSUME ReadInv, PartsInv, [Next]_vars PROVE PartsInv'
  OBVIOUS
<1>1. CASE ReadChunk
  <2> DEFINE chunk == SubSeq(log, Len(lines) + 1, Len(lines) + chunkSize)
  <2>1. phase = "reading" /\ End.rows - Len(lines) >= chunkSize /\ TakeChunk(chunk)
    BY <1>1 DEF ReadChunk
  <2>2. End.rows \in Nat /\ End.rows <= Len(log) /\ Len(log) \in Nat /\ Len(lines) \in Nat
        /\ chunkSize \in Nat /\ log \in Seq(RowType)
    BY <2>1, EndIs DEF ReadInv
  <2>3. Len(lines) <= Len(lines) + chunkSize /\ Len(lines) + chunkSize <= Len(log)
    BY <2>1, <2>2
  <2>4. chunk \in Seq(RowType)
    BY <2>2, <2>3, PieceIs
  <2> HIDE DEF chunk
  <2> QED
    BY <2>1, <2>4, TakeChunkCovers
<1>2. CASE ReadLastChunk
  BY <1>2, LastChunkIs, TakeChunkCovers
<1>3. CASE UNCHANGED <<lines, parts, rows>>
  BY <1>3 DEF PartsInv
<1>4. CASE ~ReadChunk /\ ~ReadLastChunk
  <2>1. UNCHANGED <<lines, parts, rows>>
    BY <1>4 DEF Next, vars, input, Flush, DataLimit, OpenInput, NoTrades, CombineParts,
                WriteLines, Interrupt, Load
  <2> QED
    BY <1>3, <2>1
<1> QED
  BY <1>1, <1>2, <1>4

\* The aggregates of the chunks hold, for every second, what all the rows that have been
\* read say of it, whatever the size of the chunks (aggregate_1s.py:70-125, 186-216).
THEOREM PartsOfLog == Spec => []PartsInv
<1>1. Init => PartsInv
  BY InitCovers
<1>2. ReadInv /\ PartsInv /\ [Next]_vars => PartsInv'
  BY StepCovers
<1> QED
  BY <1>1, <1>2, ReadsBeginning, PTL DEF Spec

-----------------------------------------------------------------------------
(* The bars.                                                               *)

\* The bars are those of the parts.
TotalInv == phase \in {"writing", "written", "loaded"} => total = Combine(parts)

LEMMA StepCombines == TotalInv /\ [Next]_vars => TotalInv'
<1> SUFFICES ASSUME TotalInv, [Next]_vars PROVE TotalInv'
  OBVIOUS
<1>1. CASE CombineParts
  BY <1>1 DEF CombineParts, TotalInv, input
<1>2. CASE phase' \notin {"writing", "written", "loaded"}
  BY <1>2 DEF TotalInv
<1>3. CASE UNCHANGED <<parts, total>> /\ phase \in {"writing", "written", "loaded"}
  BY <1>3 DEF TotalInv
<1>4. CASE Flush
  BY <1>4, <1>3, <1>2 DEF Flush, input
<1>5. CASE DataLimit \/ OpenInput \/ ReadChunk \/ ReadLastChunk \/ NoTrades
  BY <1>5, <1>2 DEF DataLimit, OpenInput, ReadChunk, ReadLastChunk, NoTrades
<1>6. CASE WriteLines \/ Interrupt \/ Load
  BY <1>6, <1>3 DEF WriteLines, Interrupt, Load, input
<1>7. CASE UNCHANGED vars
  BY <1>7 DEF vars, input, TotalInv
<1> QED
  BY <1>1, <1>4, <1>5, <1>6, <1>7 DEF Next

\* Of parts whose rows follow each other, the one with the first row is the first, and
\* that with the last row the last.
LEMMA FirstAndLast ==
    ASSUME NEW ps \in Seq(AnyPart), NEW n, NEW s, InTurn(ps, n, s), Holding(ps, s) # {}
    PROVE  LET K == Holding(ps, s) IN
           /\ (CHOOSE k \in K : \A j \in K : ps[k][s].first <= ps[j][s].first) = Min(K)
           /\ (CHOOSE k \in K : \A j \in K : ps[k][s].last >= ps[j][s].last) = Max(K)
<1> DEFINE K == Holding(ps, s)
           a == Min(K)
           b == Max(K)
           Begin(k) == ps[k][s].first
           Finish(k) == ps[k][s].last
<1>1. K \subseteq Int /\ IsFiniteSet(K) /\ \A k \in K : Begin(k) \in Nat /\ Finish(k) \in Nat
  <2>1. K \subseteq Int /\ IsFiniteSet(K) /\ \A k \in K : ps[k][s] \in PartType
    BY HoldingIs
  <2>2. \A r \in PartType : r.first \in Nat /\ r.last \in Nat
    BY DEF PartType
  <2> QED
    BY <2>1, <2>2
<1>2. /\ \A k \in K : Begin(k) <= Finish(k)
      /\ \A j \in K, k \in K : j < k => Finish(j) < Begin(k)
  BY DEF InTurn
<1>3. a \in K /\ b \in K /\ \A k \in K : a <= k /\ k <= b
  <2> HIDE DEF K
  <2> QED
    BY <1>1, EndsOfFinite DEF K
<1> HIDE DEF K, a, b, Begin, Finish
<1>4. ASSUME NEW j \in K, NEW k \in K, j < k PROVE Begin(j) < Begin(k) /\ Finish(j) < Finish(k)
  <2>1. Finish(j) < Begin(k) /\ Begin(j) <= Finish(j) /\ Begin(k) <= Finish(k)
    BY <1>2, <1>4
  <2> QED
    BY <1>1, <2>1
<1>5. \A k \in K : k = a \/ Begin(a) < Begin(k)
  <2> TAKE k \in K
  <2>1. k = a \/ a < k
    BY <1>1, <1>3
  <2> QED
    BY <1>3, <1>4, <2>1
<1>6. \A k \in K : k = b \/ Finish(k) < Finish(b)
  <2> TAKE k \in K
  <2>1. k = b \/ k < b
    BY <1>1, <1>3
  <2> QED
    BY <1>3, <1>4, <2>1
<1>7. (CHOOSE k \in K : \A j \in K : Begin(k) <= Begin(j)) = a
  <2>1. \A j \in K : Begin(a) <= Begin(j)
    BY <1>1, <1>3, <1>5
  <2>2. ASSUME NEW k \in K, \A j \in K : Begin(k) <= Begin(j) PROVE k = a
    <3>1. Begin(k) <= Begin(a) /\ Begin(k) \in Nat /\ Begin(a) \in Nat
      BY <1>1, <1>3, <2>2
    <3> QED
      BY <1>5, <3>1
  <2> QED
    BY <1>3, <2>1, <2>2
<1>8. (CHOOSE k \in K : \A j \in K : Finish(k) >= Finish(j)) = b
  <2>1. \A j \in K : Finish(b) >= Finish(j)
    BY <1>1, <1>3, <1>6
  <2>2. ASSUME NEW k \in K, \A j \in K : Finish(k) >= Finish(j) PROVE k = b
    <3>1. Finish(k) >= Finish(b) /\ Finish(k) \in Nat /\ Finish(b) \in Nat
      BY <1>1, <1>3, <2>2
    <3> QED
      BY <1>6, <3>1
  <2> QED
    BY <1>3, <2>1, <2>2
<1> QED
  BY <1>7, <1>8 DEF K, a, b, Begin, Finish

\* The bar of a second.
LEMMA BarIs ==
    ASSUME NEW ls, NEW ps, NEW n, PartsOf(ls, ps, n), NEW s \in Nat
    PROVE  LET made == Combine(ps)
               P == At(ls, s)
           IN  /\ s \in DOMAIN made <=> P # {}
               /\ P # {} =>
                     /\ made[s].open = ls[Min(P)].price /\ made[s].close = ls[Max(P)].price
                     /\ made[s].high = Max(Prices(ls, P)) /\ made[s].low = Min(Prices(ls, P))
                     /\ made[s].buy = VolumeOf(ls, P, "buy")
                     /\ made[s].sell = VolumeOf(ls, P, "sell")
                     /\ made[s].cnt = Cardinality(P)
<1> DEFINE bar == Combine(ps)
           P == At(ls, s)
           K == Holding(ps, s)
<1>1. ps \in Seq(AnyPart) /\ Covered(ls, ps, n, s)
  BY DEF PartsOf
<1>2. /\ K = {} <=> P = {}
      /\ InTurn(ps, n, s) /\ (K # {} => SameEnds(ls, ps, s)) /\ SameSums(ls, ps, s)
  BY <1>1 DEF Covered
<1>3. DOMAIN bar = UNION {DOMAIN ps[k] : k \in DOMAIN ps}
  BY DEF Combine
<1>4. s \in DOMAIN bar <=> K # {}
  BY <1>3 DEF Holding
<1>5. ASSUME K # {}
      PROVE  /\ bar[s].open = ps[Min(K)][s].open /\ bar[s].close = ps[Max(K)][s].close
             /\ bar[s].high = Max({ps[k][s].high : k \in K})
             /\ bar[s].low = Min({ps[k][s].low : k \in K})
             /\ bar[s].buy = Field(ps, K, s, "buy") /\ bar[s].sell = Field(ps, K, s, "sell")
             /\ bar[s].cnt = Field(ps, K, s, "cnt")
  <2>1. /\ (CHOOSE k \in K : \A j \in K : ps[k][s].first <= ps[j][s].first) = Min(K)
        /\ (CHOOSE k \in K : \A j \in K : ps[k][s].last >= ps[j][s].last) = Max(K)
    BY <1>1, <1>2, <1>5, FirstAndLast
  <2>2. s \in UNION {DOMAIN ps[k] : k \in DOMAIN ps}
    BY <1>3, <1>4, <1>5
  <2> QED
    BY <2>1, <2>2 DEF Combine, Holding, Field
<1>6. ASSUME K # {}
      PROVE  /\ bar[s].open = ls[Min(P)].price /\ bar[s].close = ls[Max(P)].price
             /\ bar[s].high = Max(Prices(ls, P)) /\ bar[s].low = Min(Prices(ls, P))
             /\ bar[s].buy = VolumeOf(ls, P, "buy") /\ bar[s].sell = VolumeOf(ls, P, "sell")
             /\ bar[s].cnt = Cardinality(P)
  <2>1. SameEnds(ls, ps, s) /\ SameSums(ls, ps, s)
    BY <1>2, <1>6
  <2> HIDE DEF bar
  <2> QED
    BY <1>5, <1>6, <2>1 DEF SameEnds, SameSums
<1> HIDE DEF bar, K
<1> QED
  BY <1>2, <1>4, <1>6 DEF bar

LEMMA BarsAre ==
    ASSUME ReadInv, PartsInv, TotalInv
    PROVE  BarsOfLog
<1> SUFFICES ASSUME phase \in {"writing", "written", "loaded"}
             PROVE  /\ DOMAIN total = {lines[i].sec : i \in {j \in DOMAIN lines : Valid(lines[j])}}
                    /\ \A s \in DOMAIN total :
                          LET I == TradesOf(s, s) IN
                          /\ total[s].open = lines[Min(I)].price
                          /\ total[s].close = lines[Max(I)].price
                          /\ total[s].high = Max(PricesOf(I)) /\ total[s].low = Min(PricesOf(I))
                          /\ total[s].buy = VolumeOf(lines, I, "buy")
                          /\ total[s].sell = VolumeOf(lines, I, "sell")
                          /\ total[s].cnt = Cardinality(I)
  BY DEF BarsOfLog
<1>1. total = Combine(parts) /\ PartsOf(lines, parts, rows) /\ parts \in Seq(AnyPart)
  BY DEF TotalInv, PartsInv, PartsOf
<1>2. \A i \in DOMAIN lines : lines[i].sec \in Nat
  <2>1. lines \in Seq(RowType)
    BY DEF ReadInv
  <2> QED
    BY <2>1, RowsAre
<1>3. \A s \in Nat : s \in DOMAIN total <=> At(lines, s) # {}
  BY <1>1, BarIs
<1>4. DOMAIN total \subseteq Nat
  <2>1. DOMAIN total = UNION {DOMAIN parts[k] : k \in DOMAIN parts}
    BY <1>1 DEF Combine
  <2>2. \A k \in DOMAIN parts : parts[k] \in AnyPart
    BY <1>1
  <2>3. \A p \in AnyPart : DOMAIN p \subseteq Nat
    BY DEF AnyPart
  <2> QED
    BY <2>1, <2>2, <2>3
<1>5. DOMAIN total = {lines[i].sec : i \in {j \in DOMAIN lines : Valid(lines[j])}}
  <2>1. \A s \in Nat : s \in DOMAIN total
           <=> \E i \in DOMAIN lines : Valid(lines[i]) /\ lines[i].sec = s
    BY <1>3 DEF At
  <2> QED
    BY <1>2, <1>4, <2>1
<1>6. ASSUME NEW s \in DOMAIN total
      PROVE  TradesOf(s, s) = At(lines, s)
  <2>1. s \in Nat
    BY <1>4
  <2>2. \A t \in Nat : t \in s .. s <=> t = s
    BY <2>1
  <2> QED
    BY <1>2, <2>2 DEF TradesOf, At
<1>7. ASSUME NEW s \in DOMAIN total
      PROVE  LET I == TradesOf(s, s) IN
             /\ total[s].open = lines[Min(I)].price /\ total[s].close = lines[Max(I)].price
             /\ total[s].high = Max(PricesOf(I)) /\ total[s].low = Min(PricesOf(I))
             /\ total[s].buy = VolumeOf(lines, I, "buy")
             /\ total[s].sell = VolumeOf(lines, I, "sell")
             /\ total[s].cnt = Cardinality(I)
  <2> DEFINE P == At(lines, s)
  <2>1. s \in Nat /\ P # {} /\ TradesOf(s, s) = P
    BY <1>3, <1>4, <1>6
  <2>2. PricesOf(P) = Prices(lines, P)
    BY DEF PricesOf, Prices
  <2>3. /\ total[s].open = lines[Min(P)].price /\ total[s].close = lines[Max(P)].price
        /\ total[s].high = Max(Prices(lines, P)) /\ total[s].low = Min(Prices(lines, P))
        /\ total[s].buy = VolumeOf(lines, P, "buy")
        /\ total[s].sell = VolumeOf(lines, P, "sell")
        /\ total[s].cnt = Cardinality(P)
    BY <1>1, <2>1, BarIs
  <2> HIDE DEF P
  <2> QED
    BY <2>1, <2>2, <2>3
<1> QED
  BY <1>5, <1>7

\* The division into chunks leaves no trace: each bar is that of all the trades of its
\* second in the order of the log (aggregate_1s.py:70-125, 218-247).
THEOREM BarsAreOfLog == Spec => []BarsOfLog
<1>1. Init => TotalInv
  BY DEF Init, TotalInv
<1>2. Spec => []TotalInv
  BY <1>1, StepCombines, PTL DEF Spec
<1> QED
  BY <1>2, ReadsBeginning, PartsOfLog, BarsAre, PTL

-----------------------------------------------------------------------------
(* The lines of the file, and what the loader makes of them.               *)

LEMMA LenIs ==
    ASSUME NEW f, NEW n \in Nat, DOMAIN f = 1 .. n
    PROVE  Len(f) = n
OBVIOUS

\* A line says what the bar says, but for the vwap that may have been cut.
SameBar(l, bar) ==
    /\ l.open = bar.open /\ l.close = bar.close /\ l.high = bar.high /\ l.low = bar.low
    /\ l.buy = bar.buy /\ l.sell = bar.sell

Columns == {"sec", "open", "close", "high", "low", "buy", "sell"}

Order == InOrder(DOMAIN total)

\* The file holds the first bars in their order.
LinesInv ==
    /\ phase \notin {"writing", "written", "loaded"} => out = <<>>
    /\ phase \in {"writing", "written", "loaded"} =>
          /\ Len(out) \in 0 .. Cardinality(DOMAIN total) /\ DOMAIN out = 1 .. Len(out)
          /\ \A i \in DOMAIN out : /\ out[i].sec = Order[i] /\ SameBar(out[i], total[Order[i]])
                                   /\ Columns \subseteq DOMAIN out[i]
    /\ phase = "loaded" => bars = Loaded(out)

LEMMA LineIs ==
    ASSUME NEW s
    PROVE  Line(s).sec = s /\ SameBar(Line(s), total[s]) /\ Columns \subseteq DOMAIN Line(s)
BY DEF Line, SameBar, Columns

LEMMA SecondsAre ==
    ReadInv /\ PartsInv /\ TotalInv /\ phase \in {"writing", "written", "loaded"} =>
        /\ IsFiniteSet(DOMAIN total) /\ DOMAIN total \subseteq Nat
        /\ Cardinality(DOMAIN total) \in Nat
<1> SUFFICES ASSUME ReadInv, PartsInv, TotalInv, phase \in {"writing", "written", "loaded"}
             PROVE  /\ IsFiniteSet(DOMAIN total) /\ DOMAIN total \subseteq Nat
                    /\ Cardinality(DOMAIN total) \in Nat
  OBVIOUS
<1> DEFINE I == {j \in DOMAIN lines : Valid(lines[j])}
           f == [i \in I |-> lines[i].sec]
<1>1. DOMAIN total = {lines[i].sec : i \in I}
  BY BarsAre DEF BarsOfLog
<1>2. IsFiniteSet(I) /\ \A i \in I : lines[i].sec \in Nat
  <2>1. lines \in Seq(RowType) /\ I \in SUBSET DOMAIN lines
    BY DEF ReadInv
  <2> HIDE DEF I
  <2> QED
    BY <2>1, RowsAre
<1> HIDE DEF I
<1>3. {f[i] : i \in I} = {lines[i].sec : i \in I}
  OBVIOUS
<1> HIDE DEF f
<1>4. IsFiniteSet({f[i] : i \in I})
  BY <1>2, ImageIsFinite
<1> QED
  BY <1>1, <1>2, <1>3, <1>4, FS_CardinalityType

LEMMA OrderIs ==
    ASSUME IsFiniteSet(DOMAIN total), DOMAIN total \subseteq Nat
    PROVE  /\ DOMAIN Order = 1 .. Cardinality(DOMAIN total)
           /\ DOMAIN CsvLines = 1 .. Cardinality(DOMAIN total)
           /\ \A i \in DOMAIN CsvLines : CsvLines[i] = Line(Order[i])
<1>1. DOMAIN Order = 1 .. Cardinality(DOMAIN total)
  BY InOrderIs DEF Order
<1>2. CsvLines = [i \in DOMAIN Order |-> Line(Order[i])]
  BY DEF CsvLines, Order
<1> QED
  BY <1>1, <1>2

LEMMA WriteLinesInv ==
    ASSUME ReadInv, PartsInv, TotalInv, LinesInv, WriteLines
    PROVE  LinesInv'
<1> DEFINE C == Cardinality(DOMAIN total)
           m == Min({Len(out) + FlushLines, C})
<1>1. /\ phase = "writing" /\ out' = SubSeq(CsvLines, 1, m) /\ total' = total
      /\ phase' \in {"writing", "written"}
  BY DEF WriteLines
<1>2. IsFiniteSet(DOMAIN total) /\ DOMAIN total \subseteq Nat /\ C \in Nat
  BY <1>1, SecondsAre
<1>3. Len(out) \in 0 .. C /\ FlushLines \in Nat
  BY <1>1, AggregationAssumption DEF LinesInv
<1> HIDE DEF C
<1>4. m \in Nat /\ m <= C
  <2> DEFINE S == {Len(out) + FlushLines} \cup {C}
  <2>1. S \subseteq Nat /\ S \subseteq Int /\ IsFiniteSet(S) /\ C \in S
    <3>1. IsFiniteSet(S)
      BY FS_Singleton, FS_Union
    <3>2. S \subseteq Nat /\ S \subseteq Int /\ C \in S
      BY <1>2, <1>3
    <3> QED
      BY <3>1, <3>2
  <2> HIDE DEF S
  <2>2. Min(S) \in S /\ \A y \in S : Min(S) <= y
    BY <2>1, EndsOfFinite
  <2>3. Min(S) \in Nat /\ Min(S) <= C
    BY <2>1, <2>2
  <2>4. S = {Len(out) + FlushLines, C}
    BY DEF S
  <2> QED
    BY <2>3, <2>4
<1> HIDE DEF m
<1>5. DOMAIN CsvLines = 1 .. C /\ \A i \in 1 .. C : CsvLines[i] = Line(Order[i])
  BY <1>2, OrderIs DEF C
<1>6. out' = [i \in 1 .. m |-> CsvLines[i]]
  BY <1>1, <1>4
<1>7. DOMAIN out' = 1 .. m /\ Len(out') = m
  BY <1>4, <1>6, LenIs
<1>8. ASSUME NEW i \in DOMAIN out'
      PROVE  /\ out'[i].sec = Order[i] /\ SameBar(out'[i], total[Order[i]])
             /\ Columns \subseteq DOMAIN out'[i]
  <2>1. i \in 1 .. C
    BY <1>2, <1>4, <1>7
  <2>2. out'[i] = Line(Order[i])
    BY <1>5, <1>6, <1>7, <2>1
  <2> QED
    BY <2>2, LineIs
<1>9. Order' = Order /\ Cardinality(DOMAIN total)' = C
  BY <1>1 DEF Order, C
<1>10. Len(out') \in 0 .. C /\ DOMAIN out' = 1 .. Len(out')
  BY <1>2, <1>4, <1>7
<1> QED
  BY <1>1, <1>8, <1>9, <1>10 DEF LinesInv

LEMMA InterruptInv ==
    ASSUME ReadInv, PartsInv, TotalInv, LinesInv, Interrupt
    PROVE  LinesInv'
<1>1. phase = "writing" /\ phase' = "written" /\ total' = total
  BY DEF Interrupt
<1> PICK n \in DOMAIN out : \E vwap \in 0 .. out[n].vwap :
         out' = [SubSeq(out, 1, n) EXCEPT ![n].vwap = vwap]
  BY DEF Interrupt
<1>2. PICK vwap : out' = [SubSeq(out, 1, n) EXCEPT ![n].vwap = vwap]
  OBVIOUS
<1>3. /\ Len(out) \in 0 .. Cardinality(DOMAIN total) /\ DOMAIN out = 1 .. Len(out)
      /\ \A i \in DOMAIN out : /\ out[i].sec = Order[i] /\ SameBar(out[i], total[Order[i]])
                               /\ Columns \subseteq DOMAIN out[i]
  BY <1>1 DEF LinesInv
<1>4. n \in Nat /\ n <= Len(out) /\ 1 <= n /\ Len(out) \in Int
  BY <1>3
<1>5. SubSeq(out, 1, n) = [i \in 1 .. n |-> out[i]]
  BY <1>4
<1>6. DOMAIN out' = 1 .. n /\ \A i \in 1 .. n : i # n => out'[i] = out[i]
  BY <1>2, <1>5
<1>7. out'[n] = [out[n] EXCEPT !.vwap = vwap]
  <2>1. n \in 1 .. n
    BY <1>4
  <2> QED
    BY <1>2, <1>5, <2>1
<1>8. /\ out'[n].sec = out[n].sec /\ SameBar(out'[n], out[n])
      /\ Columns \subseteq DOMAIN out'[n]
  <2>1. Columns \subseteq DOMAIN out[n]
    BY <1>3
  <2> DEFINE l == out[n]
             k == out'[n]
  <2>2. k = [l EXCEPT !.vwap = vwap] /\ Columns \subseteq DOMAIN l
    BY <1>7, <2>1
  <2> HIDE DEF k, l
  <2>3. k.sec = l.sec /\ SameBar(k, l) /\ Columns \subseteq DOMAIN k
    BY <2>2 DEF Columns, SameBar
  <2> QED
    BY <2>3 DEF k, l
<1>9. ASSUME NEW i \in 1 .. n
      PROVE  /\ out'[i].sec = Order[i] /\ SameBar(out'[i], total[Order[i]])
             /\ Columns \subseteq DOMAIN out'[i]
  <2>1. i \in DOMAIN out
    BY <1>3, <1>4
  <2>2. CASE i # n
    BY <1>3, <1>6, <2>1, <2>2
  <2>3. CASE i = n
    <3>1. out[n].sec = Order[n] /\ SameBar(out[n], total[Order[n]])
      BY <1>3, <2>1, <2>3
    <3> QED
      BY <1>8, <2>3, <3>1 DEF SameBar
  <2> QED
    BY <2>2, <2>3
<1>10. Len(out') = n
  BY <1>4, <1>6, LenIs
<1>11. Len(out') \in 0 .. Cardinality(DOMAIN total)
  <2>1. Cardinality(DOMAIN total) \in Nat
    BY <1>1, SecondsAre
  <2> QED
    BY <1>3, <1>4, <1>10, <2>1
<1>12. Order' = Order /\ Cardinality(DOMAIN total)' = Cardinality(DOMAIN total)
  BY <1>1 DEF Order
<1> QED
  BY <1>1, <1>6, <1>9, <1>10, <1>11, <1>12 DEF LinesInv

LEMMA CombineLinesInv ==
    ASSUME ReadInv, PartsInv, TotalInv, LinesInv, CombineParts
    PROVE  LinesInv'
<1>1. phase = "read" /\ phase' = "writing" /\ UNCHANGED <<out, lines, parts, rows>>
  BY DEF CombineParts, input
<1>2. out' = <<>>
  BY <1>1 DEF LinesInv
<1>3. TotalInv' /\ ReadInv' /\ PartsInv' /\ (phase \in {"writing", "written", "loaded"})'
  <2>1. [Next]_vars
    BY DEF Next
  <2> QED
    BY <1>1, <2>1, StepCombines, StepReads, StepCovers
<1>4. (Cardinality(DOMAIN total) \in Nat)'
  BY <1>3, SecondsAre, PTL
<1>5. Len(out') = 0 /\ DOMAIN out' = 1 .. 0
  BY <1>2
<1> QED
  BY <1>1, <1>4, <1>5 DEF LinesInv

LEMMA StepLines ==
    ReadInv /\ PartsInv /\ TotalInv /\ LinesInv /\ [Next]_vars => LinesInv'
<1> SUFFICES ASSUME ReadInv, PartsInv, TotalInv, LinesInv, [Next]_vars PROVE LinesInv'
  OBVIOUS
<1>1. CASE Load
  <2>1. phase = "written" /\ phase' = "loaded" /\ bars' = Loaded(out) /\ UNCHANGED <<total, out>>
    BY <1>1 DEF Load
  <2>2. Order' = Order
    BY <2>1 DEF Order
  <2>3. Loaded(out)' = Loaded(out)
    BY <2>1 DEF Loaded
  <2> QED
    BY <2>1, <2>2, <2>3 DEF LinesInv
<1>2. CASE UNCHANGED vars
  <2>1. UNCHANGED <<phase, total, out, bars>>
    BY <1>2 DEF vars
  <2>2. Order' = Order
    BY <2>1 DEF Order
  <2>3. Loaded(out)' = Loaded(out)
    BY <2>1 DEF Loaded
  <2> QED
    BY <2>1, <2>2, <2>3 DEF LinesInv
<1>3. CASE Flush \/ DataLimit \/ OpenInput \/ ReadChunk \/ ReadLastChunk \/ NoTrades
  <2>1. /\ phase \notin {"writing", "written", "loaded"}
        /\ phase' \notin {"writing", "written", "loaded"} /\ out' = out
    BY <1>3, LastChunkIs DEF Flush, DataLimit, OpenInput, ReadChunk, NoTrades, ReadLastChunk, TakeChunk
  <2> QED
    BY <2>1 DEF LinesInv
<1> QED
  BY <1>1, <1>2, <1>3, WriteLinesInv, InterruptInv, CombineLinesInv DEF Next

\* The seconds of the file are the first ones.
Written == {out[i].sec : i \in DOMAIN out}

\* What the loader has made of the file: a bar for every second of it, in order.
BarsInv ==
    phase = "loaded" =>
        /\ IsFiniteSet(DOMAIN bars) /\ DOMAIN bars \subseteq Nat
        /\ Written \subseteq DOMAIN total
        /\ \A s \in Written, t \in DOMAIN total : t < s => t \in Written
        /\ Len(out) = Cardinality(DOMAIN total) => Written = DOMAIN total
        /\ \A i \in DOMAIN bars : bars[i].sec \in Written /\ SameBar(bars[i], total[bars[i].sec])
        /\ \A s \in Written : \E i \in DOMAIN bars : bars[i].sec = s
        /\ \A i \in DOMAIN bars, j \in DOMAIN bars : i < j => bars[i].sec < bars[j].sec

LEMMA WrittenIs ==
    ASSUME ReadInv, PartsInv, TotalInv, LinesInv, phase \in {"writing", "written", "loaded"}
    PROVE  /\ IsFiniteSet(Written) /\ Written \subseteq DOMAIN total
           /\ \A s \in Written, t \in DOMAIN total : t < s => t \in Written
           /\ Len(out) = Cardinality(DOMAIN total) => Written = DOMAIN total
<1> DEFINE T == DOMAIN total
           C == Cardinality(T)
<1>1. IsFiniteSet(T) /\ T \subseteq Nat /\ C \in Nat
  BY SecondsAre
<1>2. /\ Len(out) \in 0 .. C /\ DOMAIN out = 1 .. Len(out)
      /\ \A i \in DOMAIN out : out[i].sec = Order[i]
  BY DEF LinesInv
<1>3. /\ \A i \in 1 .. C : Order[i] \in T /\ Place(T, Order[i]) = i
      /\ \A s \in T : Order[Place(T, s)] = s
  <2> HIDE DEF T
  <2> QED
    BY <1>1, InOrderIs DEF Order, T
<1>4. /\ \A s \in T : Place(T, s) \in 1 .. C
      /\ \A s \in T, t \in T : s < t => Place(T, s) < Place(T, t)
  <2> HIDE DEF T
  <2> QED
    BY <1>1, PlaceIs
<1> HIDE DEF T, C
<1>5. \A i \in DOMAIN out : i \in 1 .. C /\ out[i].sec \in T /\ Place(T, out[i].sec) = i
  <2> TAKE i \in DOMAIN out
  <2>1. i \in 1 .. C
    BY <1>1, <1>2
  <2> QED
    BY <1>2, <1>3, <2>1
<1>6. Written \subseteq T
  BY <1>5 DEF Written
<1>7. ASSUME NEW t \in T, Place(T, t) <= Len(out) PROVE t \in Written
  <2>1. Place(T, t) \in DOMAIN out
    BY <1>1, <1>2, <1>4, <1>7
  <2>2. out[Place(T, t)].sec = t
    BY <1>2, <1>3, <2>1
  <2> QED
    BY <2>1, <2>2 DEF Written
<1>8. ASSUME NEW s \in Written, NEW t \in T, t < s PROVE t \in Written
  <2>1. PICK i \in DOMAIN out : s = out[i].sec
    BY DEF Written
  <2>2. Place(T, t) < Place(T, s) /\ Place(T, s) = i /\ Place(T, t) \in 1 .. C
    BY <1>4, <1>5, <1>6, <1>8, <2>1
  <2>3. Place(T, t) <= Len(out)
    BY <1>1, <1>2, <2>2
  <2> QED
    BY <1>7, <2>3
<1>9. ASSUME Len(out) = C PROVE Written = T
  <2>1. \A t \in T : Place(T, t) <= Len(out)
    BY <1>1, <1>4, <1>9
  <2> QED
    BY <1>6, <1>7, <2>1
<1>10. IsFiniteSet(Written)
  BY <1>1, <1>6, FS_Subset
<1> QED
  BY <1>6, <1>8, <1>9, <1>10 DEF T, C

LEMMA LoadedIs ==
    ReadInv /\ PartsInv /\ TotalInv /\ LinesInv => BarsInv
<1> SUFFICES ASSUME ReadInv, PartsInv, TotalInv, LinesInv, phase = "loaded"
             PROVE  BarsInv
  BY DEF BarsInv
<1> DEFINE W == Written
           n == Cardinality(W)
           LinesOf(s) == {i \in DOMAIN out : out[i].sec = s}
<1>1. /\ IsFiniteSet(W) /\ W \subseteq DOMAIN total
      /\ \A s \in W, t \in DOMAIN total : t < s => t \in W
      /\ Len(out) = Cardinality(DOMAIN total) => W = DOMAIN total
  BY WrittenIs
<1>2. DOMAIN total \subseteq Nat
  BY SecondsAre
<1>3. IsFiniteSet(W) /\ W \subseteq Nat /\ n \in Nat
  BY <1>1, <1>2, FS_CardinalityType
<1>4. /\ Len(out) \in Nat /\ DOMAIN out = 1 .. Len(out) /\ bars = Loaded(out)
      /\ \A i \in DOMAIN out : SameBar(out[i], total[out[i].sec])
  BY DEF LinesInv
<1>5. bars = [k \in DOMAIN InOrder(W) |-> out[Max(LinesOf(InOrder(W)[k]))]]
  BY <1>4 DEF Loaded, Written
<1> DEFINE place(s) == Place(W, s)
<1> HIDE DEF W, place
<1>6. /\ DOMAIN InOrder(W) = 1 .. n
      /\ \A i \in 1 .. n : InOrder(W)[i] \in W /\ place(InOrder(W)[i]) = i
      /\ \A s \in W : InOrder(W)[place(s)] = s
  BY <1>3, InOrderIs DEF place
<1>7. /\ \A s \in W : place(s) \in 1 .. n
      /\ \A s \in W, t \in W : s < t => place(s) < place(t)
  BY <1>3, PlaceIs DEF place
<1>8. ASSUME NEW s \in W PROVE Max(LinesOf(s)) \in DOMAIN out /\ out[Max(LinesOf(s))].sec = s
  <2>1. LinesOf(s) # {} /\ LinesOf(s) \subseteq Int /\ LinesOf(s) \in SUBSET (1 .. Len(out))
    BY <1>4 DEF W, Written
  <2>2. IsFiniteSet(LinesOf(s))
    <3>1. IsFiniteSet(1 .. Len(out))
      BY <1>4, FS_Interval
    <3> HIDE DEF LinesOf
    <3> QED
      BY <2>1, <3>1, FS_Subset
  <2>3. Max(LinesOf(s)) \in LinesOf(s)
    <3> HIDE DEF LinesOf
    <3> QED
      BY <2>1, <2>2, EndsOfFinite
  <2> QED
    BY <2>3
<1> HIDE DEF LinesOf, n
<1>9. DOMAIN bars = 1 .. n
  BY <1>5, <1>6
<1>10. ASSUME NEW i \in DOMAIN bars
       PROVE  bars[i].sec = InOrder(W)[i] /\ SameBar(bars[i], total[bars[i].sec])
  <2> DEFINE s == InOrder(W)[i]
             k == Max(LinesOf(s))
  <2>1. s \in W
    BY <1>6, <1>9
  <2>2. k \in DOMAIN out /\ out[k].sec = s
    BY <1>8, <2>1
  <2>3. bars[i] = out[k]
    BY <1>5, <1>6, <1>9
  <2> HIDE DEF k
  <2> QED
    BY <1>4, <2>2, <2>3
<1>11. IsFiniteSet(DOMAIN bars) /\ DOMAIN bars \subseteq Nat
  <2>1. IsFiniteSet(1 .. n)
    BY <1>3, FS_Interval DEF n
  <2> QED
    BY <1>9, <2>1
<1>12. ASSUME NEW i \in DOMAIN bars, NEW j \in DOMAIN bars, i < j
       PROVE  bars[i].sec < bars[j].sec
  <2> DEFINE s == InOrder(W)[i]
             t == InOrder(W)[j]
  <2>1. s \in W /\ t \in W /\ place(s) = i /\ place(t) = j /\ s \in Nat /\ t \in Nat
    BY <1>3, <1>6, <1>9
  <2>2. s = t \/ s < t \/ t < s
    BY <2>1
  <2>3. ~(t < s) /\ s # t
    BY <1>7, <1>9, <1>12, <2>1
  <2> QED
    BY <1>10, <2>2, <2>3
<1>13. ASSUME NEW s \in W PROVE \E i \in DOMAIN bars : bars[i].sec = s
  BY <1>6, <1>7, <1>9, <1>10
<1>14. \A i \in DOMAIN bars : bars[i].sec \in W /\ SameBar(bars[i], total[bars[i].sec])
  BY <1>6, <1>9, <1>10
<1> QED
  BY <1>1, <1>11, <1>12, <1>13, <1>14 DEF BarsInv, W

-----------------------------------------------------------------------------
(* The intervals.                                                          *)

LEMMA Multiples ==
    ASSUME NEW n \in Nat \ {0}, NEW p \in Int, NEW q \in Int
    PROVE  /\ p * n \in Int
           /\ p < q => p * n + n <= q * n
           /\ p <= q => p * n <= q * n
<1>1. p * n \in Int /\ q * n \in Int /\ (q - p) * n = q * n - p * n
  OBVIOUS
<1>2. ASSUME p < q PROVE n <= (q - p) * n
  <2> DEFINE k == q - p - 1
  <2>1. k \in Nat /\ q - p = k + 1
    BY <1>2
  <2> HIDE DEF k
  <2>2. k * n \in Nat /\ (k + 1) * n = k * n + n
    BY <2>1
  <2> QED
    BY <2>1, <2>2
<1>3. p < q => p * n + n <= q * n
  <2> DEFINE x == p * n
             y == q * n
             z == (q - p) * n
  <2>1. x \in Int /\ y \in Int /\ z = y - x /\ (p < q => n <= z)
    BY <1>1, <1>2
  <2> HIDE DEF x, y, z
  <2>2. p < q => x + n <= y
    BY <2>1
  <2> QED
    BY <2>2 DEF x, y
<1>4. p <= q => p * n <= q * n
  <2>1. CASE p < q
    <3> DEFINE x == p * n
               y == q * n
    <3>1. x \in Int /\ y \in Int /\ x + n <= y
      BY <1>1, <1>3, <2>1
    <3> HIDE DEF x, y
    <3>2. x <= y
      BY <3>1
    <3> QED
      BY <3>2 DEF x, y
  <2>2. CASE p = q
    BY <1>1, <2>2
  <2> QED
    BY <2>1, <2>2
<1> QED
  BY <1>1, <1>3, <1>4

\* The seconds that an interval holds.
LEMMA StartIs ==
    ASSUME NEW n \in Nat \ {0}, NEW x \in Nat, NEW y \in Nat
    PROVE  LET b == StartOf(y, n) IN
           /\ b \in Int
           /\ x \in b .. b + n - 1 <=> StartOf(x, n) = b
           /\ x <= y => StartOf(x, n) <= b
<1> DEFINE q == x \div n
           p == y \div n
           a == q * n
           b == p * n
<1>1. /\ q \in Int /\ x = n * q + (x % n) /\ x % n \in 0 .. n - 1
      /\ p \in Int /\ y = n * p + (y % n) /\ y % n \in 0 .. n - 1
  OBVIOUS
<1>2. n * q = a /\ n * p = b /\ a \in Int /\ b \in Int
  BY <1>1
<1>3. StartOf(x, n) = a /\ StartOf(y, n) = b
  BY DEF StartOf
<1>4. /\ p < q => b + n <= a
      /\ q < p => a + n <= b
  BY <1>1, Multiples
<1> HIDE DEF q, p
<1>5. a <= x /\ x <= a + n - 1 /\ b <= y /\ y <= b + n - 1
  <2> DEFINE r == x % n
             s == y % n
  <2>1. x = a + r /\ y = b + s /\ r \in 0 .. n - 1 /\ s \in 0 .. n - 1 /\ a \in Int /\ b \in Int
    BY <1>1, <1>2
  <2> HIDE DEF a, b, r, s
  <2> QED
    BY <2>1
<1>6. p = q \/ p < q \/ q < p
  BY <1>1
<1>7. p = q => a = b
  OBVIOUS
<1>8. a \in Int /\ b \in Int
  BY <1>2
<1> HIDE DEF a, b
<1>9. a + n <= b \/ b + n <= a \/ a = b
  BY <1>4, <1>6, <1>7
<1>10. x \in b .. b + n - 1 <=> a = b
  BY <1>5, <1>8, <1>9
<1>11. x <= y => a <= b
  BY <1>5, <1>8, <1>9
<1> QED
  BY <1>3, <1>8, <1>10, <1>11

LEMMA TradesAre ==
    ASSUME ReadInv, NEW from, NEW to
    PROVE  LET I == TradesOf(from, to) IN
           /\ I \in SUBSET DOMAIN lines /\ lines \in Seq(RowType)
           /\ IsFiniteSet(I) /\ I \subseteq Int
           /\ \A i \in I : lines[i].sec \in Nat
           /\ PricesOf(I) \subseteq Int /\ IsFiniteSet(PricesOf(I))
           /\ I # {} => PricesOf(I) # {}
<1> DEFINE I == TradesOf(from, to)
<1>1. I \in SUBSET DOMAIN lines /\ lines \in Seq(RowType)
  BY DEF TradesOf, ReadInv
<1>2. PricesOf(I) = Prices(lines, I)
  BY DEF PricesOf, Prices
<1> HIDE DEF I
<1>3. /\ IsFiniteSet(I) /\ I \subseteq Int /\ \A i \in I : lines[i].sec \in Nat
      /\ Prices(lines, I) \subseteq Int /\ IsFiniteSet(Prices(lines, I))
      /\ I # {} => Prices(lines, I) # {}
  BY <1>1, RowsAre
<1> QED
  BY <1>1, <1>2, <1>3 DEF I

\* The bars of an interval.
Joined(b) == {i \in DOMAIN bars : StartOf(bars[i].sec, intervalSec) = b}

\* What is known of an interval that is not cut off.
LEMMA JoinedIs ==
    ASSUME ReadInv, BarsOfLog, BarsInv, phase = "loaded", DOMAIN total \subseteq Nat,
           NEW b \in DOMAIN AggregateIntervals(bars, intervalSec),
           \/ b # Max(DOMAIN AggregateIntervals(bars, intervalSec))
           \/ Len(out) = Cardinality(DOMAIN total)
    PROVE  LET I == TradesOf(b, b + intervalSec - 1)
               Secs == {lines[i].sec : i \in I}
           IN  /\ Joined(b) # {} /\ Joined(b) \subseteq Int /\ IsFiniteSet(Joined(b))
               /\ Secs = {bars[i].sec : i \in Joined(b)} /\ Secs \subseteq DOMAIN total
               /\ \A s \in Secs : TradesOf(s, s) = {i \in I : lines[i].sec = s}
<1> DEFINE n == intervalSec
           D == DOMAIN AggregateIntervals(bars, n)
           I == TradesOf(b, b + n - 1)
           Secs == {lines[i].sec : i \in I}
           J == Joined(b)
           T == {s \in DOMAIN total : StartOf(s, n) = b}
<1>1. n \in Nat \ {0}
  BY DEF ReadInv
<1>2. D = {StartOf(bars[i].sec, n) : i \in DOMAIN bars}
  BY DEF AggregateIntervals
<1>3. /\ IsFiniteSet(DOMAIN bars) /\ DOMAIN bars \subseteq Nat
      /\ Written \subseteq DOMAIN total
      /\ \A s \in Written, t \in DOMAIN total : t < s => t \in Written
      /\ Len(out) = Cardinality(DOMAIN total) => Written = DOMAIN total
      /\ \A i \in DOMAIN bars : bars[i].sec \in Written
      /\ \A s \in Written : \E i \in DOMAIN bars : bars[i].sec = s
  BY DEF BarsInv
<1>4. PICK k \in DOMAIN bars : b = StartOf(bars[k].sec, n)
  <2> HIDE DEF D
  <2>1. b \in D
    BY DEF D
  <2> QED
    BY <1>2, <2>1
<1>5. \A i \in DOMAIN bars : bars[i].sec \in Nat
  BY <1>3
<1>6. /\ b \in Int
      /\ \A x \in Nat : x \in b .. b + n - 1 <=> StartOf(x, n) = b
  BY <1>1, <1>4, <1>5, StartIs
<1>7. \A i \in DOMAIN lines : lines[i].sec \in Nat
  <2>1. lines \in Seq(RowType)
    BY DEF ReadInv
  <2> QED
    BY <2>1, RowsAre
<1>8. DOMAIN total = {lines[i].sec : i \in {j \in DOMAIN lines : Valid(lines[j])}}
  BY DEF BarsOfLog
<1> HIDE DEF n, D
<1>9. Secs = T
  <2>1. ASSUME NEW s \in Secs PROVE s \in T
    BY <1>6, <1>7, <1>8 DEF TradesOf
  <2>2. ASSUME NEW s \in T PROVE s \in Secs
    BY <1>6, <1>7, <1>8 DEF TradesOf
  <2> QED
    BY <2>1, <2>2
<1>10. T \subseteq Written
  <2>1. CASE Len(out) = Cardinality(DOMAIN total)
    BY <1>3, <2>1
  <2>2. CASE b # Max(D)
    <3>1. IsFiniteSet(D) /\ D \subseteq Int /\ D # {}
      <4> DEFINE f == [i \in DOMAIN bars |-> StartOf(bars[i].sec, n)]
      <4>1. {f[i] : i \in DOMAIN bars} = D
        BY <1>2
      <4> HIDE DEF f
      <4>2. IsFiniteSet({f[i] : i \in DOMAIN bars})
        BY <1>3, ImageIsFinite
      <4>3. \A i \in DOMAIN bars : StartOf(bars[i].sec, n) \in Int
        BY <1>1, <1>5, StartIs
      <4> QED
        BY <1>2, <4>1, <4>2, <4>3 DEF D, n
    <3>2. Max(D) \in D /\ b <= Max(D) /\ b \in D
      <4>1. b \in D
        BY DEF D, n
      <4> QED
        BY <3>1, <4>1, EndsOfFinite
    <3>3. b < Max(D)
      <4> DEFINE c == Max(D)
      <4>1. c \in Int /\ b \in Int /\ b <= c /\ b # c
        BY <1>6, <2>2, <3>1, <3>2
      <4> HIDE DEF c
      <4>2. b < c
        BY <4>1
      <4> QED
        BY <4>2 DEF c
    <3>4. PICK l \in DOMAIN bars : Max(D) = StartOf(bars[l].sec, n)
      BY <1>2, <3>2
    <3> DEFINE u == bars[l].sec
    <3>5. u \in Written /\ u \in Nat
      BY <1>3, <1>5
    <3> HIDE DEF u
    <3>6. ASSUME NEW t \in T PROVE t \in Written
      <4>1. t \in Nat /\ StartOf(t, n) = b /\ t \in DOMAIN total
        OBVIOUS
      <4>2. u <= t => StartOf(u, n) <= StartOf(t, n)
        BY <1>1, <3>5, <4>1, StartIs
      <4>3. StartOf(u, n) = Max(D) /\ Max(D) \in Int
        BY <3>1, <3>2, <3>4 DEF u
      <4>4. t < u
        BY <1>6, <3>3, <3>5, <4>1, <4>2, <4>3
      <4> QED
        BY <1>3, <3>5, <4>1, <4>4
    <3> QED
      BY <3>6
  <2> QED
    BY <2>1, <2>2 DEF D, n
<1>11. T = {bars[i].sec : i \in J}
  <2>1. J = {i \in DOMAIN bars : StartOf(bars[i].sec, n) = b}
    BY DEF Joined, n
  <2> HIDE DEF J
  <2>2. ASSUME NEW s \in T PROVE s \in {bars[i].sec : i \in J}
    BY <1>3, <1>10, <2>1
  <2>3. ASSUME NEW i \in J PROVE bars[i].sec \in T
    BY <1>3, <2>1
  <2> QED
    BY <2>2, <2>3
<1>12. J # {} /\ J \subseteq Int /\ J \in SUBSET DOMAIN bars
  BY <1>3, <1>4 DEF Joined, n
<1>13. IsFiniteSet(J)
  BY <1>3, <1>12, FS_Subset
<1>14. ASSUME NEW s \in Secs PROVE TradesOf(s, s) = {i \in I : lines[i].sec = s}
  <2>1. s \in Nat /\ s \in b .. b + n - 1
    BY <1>6, <1>9
  <2>2. \A x \in Nat : x \in s .. s <=> x = s
    BY <2>1
  <2> HIDE DEF Secs
  <2> QED
    BY <1>7, <2>1, <2>2 DEF TradesOf
<1> QED
  BY <1>9, <1>11, <1>12, <1>13, <1>14 DEF n

\* What the trades of a second have to say, its bar says.
LEMMA SecondIs ==
    ASSUME ReadInv, BarsOfLog, phase = "loaded", NEW s \in DOMAIN total
    PROVE  LET I == TradesOf(s, s) IN
           /\ total[s].open = lines[Min(I)].price /\ total[s].close = lines[Max(I)].price
           /\ total[s].buy = VolumeOf(lines, I, "buy") /\ total[s].sell = VolumeOf(lines, I, "sell")
           /\ PricesOf(I) # {} =>
                 /\ total[s].high \in PricesOf(I) /\ \A y \in PricesOf(I) : y <= total[s].high
                 /\ total[s].low \in PricesOf(I) /\ \A y \in PricesOf(I) : total[s].low <= y
<1> DEFINE I == TradesOf(s, s)
           X == PricesOf(I)
<1>1. /\ total[s].open = lines[Min(I)].price /\ total[s].close = lines[Max(I)].price
      /\ total[s].high = Max(X) /\ total[s].low = Min(X)
      /\ total[s].buy = VolumeOf(lines, I, "buy") /\ total[s].sell = VolumeOf(lines, I, "sell")
  BY DEF BarsOfLog
<1>2. X \subseteq Int /\ IsFiniteSet(X)
  BY TradesAre
<1> HIDE DEF X
<1>3. X # {} => /\ Max(X) \in X /\ \A y \in X : y <= Max(X)
                /\ Min(X) \in X /\ \A y \in X : Min(X) <= y
  BY <1>2, EndsOfFinite
<1> QED
  BY <1>1, <1>3 DEF X

\* The seconds of the rows I, each once.
SecondsOnce(ls, I, secs, J) ==
    /\ {ls[i].sec : i \in I} = {secs[j] : j \in J}
    /\ \A j \in J, k \in J : j # k => secs[j] # secs[k]

VolumeBySecond(ls, I, secs, J, d) ==
    Total([j \in J |-> VolumeOf(ls, {i \in I : ls[i].sec = secs[j]}, d)])

\* The volume of a side in an interval is the sum of those of its seconds.
LEMMA JoinedVolume ==
    ASSUME NEW ls \in Seq(RowType), NEW I \in SUBSET DOMAIN ls, NEW J, IsFiniteSet(J),
           NEW secs, NEW d, SecondsOnce(ls, I, secs, J)
    PROVE  VolumeBySecond(ls, I, secs, J, d) = VolumeOf(ls, I, d)
<1> USE DEF SecondsOnce, VolumeBySecond
<1> DEFINE RowsOf(j) == {i \in I : ls[i].sec = secs[j]}
           P == [j \in J |-> OfSide(ls, RowsOf(j), d)]
           v == Volumes(ls)
<1>1. VolumeOf(ls, I, d) = TotalOf(v, OfSide(ls, I, d))
  BY VolumeIs
<1>2. ASSUME NEW j \in J
      PROVE  /\ VolumeOf(ls, RowsOf(j), d) = TotalOf(v, P[j]) /\ IsFiniteSet(P[j])
             /\ \A i \in P[j] : v[i] \in Int
  <2>1. RowsOf(j) \in SUBSET DOMAIN ls
    OBVIOUS
  <2> HIDE DEF RowsOf
  <2>2. /\ VolumeOf(ls, RowsOf(j), d) = TotalOf(v, OfSide(ls, RowsOf(j), d))
        /\ IsFiniteSet(OfSide(ls, RowsOf(j), d))
        /\ \A i \in OfSide(ls, RowsOf(j), d) : v[i] \in Int
    BY <2>1, VolumeIs
  <2> QED
    BY <2>2
<1>3. \A j \in J, k \in J : j # k => P[j] \cap P[k] = {}
  BY DEF OfSide
<1>4. Whole(P, J) = OfSide(ls, I, d)
  <2>1. \A j \in J : P[j] = {i \in I : ls[i].sec = secs[j] /\ SideOf(ls[i]) = d}
    BY DEF OfSide
  <2>2. \A i \in I : \E j \in J : ls[i].sec = secs[j]
    OBVIOUS
  <2> HIDE DEF P
  <2>3. ASSUME NEW i \in OfSide(ls, I, d) PROVE i \in Whole(P, J)
    <3>1. i \in I /\ SideOf(ls[i]) = d
      BY DEF OfSide
    <3>2. PICK j \in J : ls[i].sec = secs[j]
      BY <2>2, <3>1
    <3>3. i \in P[j]
      BY <2>1, <3>1, <3>2
    <3> QED
      BY <3>3 DEF Whole
  <2>4. ASSUME NEW i \in Whole(P, J) PROVE i \in OfSide(ls, I, d)
    <3>1. PICK j \in J : i \in P[j]
      BY DEF Whole
    <3> QED
      BY <2>1, <3>1 DEF OfSide
  <2> QED
    BY <2>3, <2>4
<1>5. [j \in J |-> VolumeOf(ls, RowsOf(j), d)] = [j \in J |-> TotalOf(v, P[j])]
  BY <1>2
<1> HIDE DEF P, v
<1>6. SumOfParts(v, P, J) = TotalOf(v, Whole(P, J))
  <2>1. AreParts(v, P, J)
    BY <1>2, <1>3 DEF AreParts
  <2> QED
    BY <2>1, TotalOfParts
<1>7. SumOfParts(v, P, J) = Total([j \in J |-> TotalOf(v, P[j])])
  BY DEF SumOfParts
<1> QED
  BY <1>1, <1>4, <1>5, <1>6, <1>7

LEMMA IntervalsAre ==
    ReadInv /\ PartsInv /\ TotalInv /\ LinesInv => IntervalsOfLog
<1> SUFFICES ASSUME ReadInv, PartsInv, TotalInv, LinesInv, phase = "loaded"
             PROVE  IntervalsOfLog
  BY DEF IntervalsOfLog
<1> DEFINE n == intervalSec
           intervals == AggregateIntervals(bars, n)
           D == DOMAIN intervals
<1>1. BarsOfLog /\ BarsInv /\ DOMAIN total \subseteq Nat
  BY BarsAre, LoadedIs, SecondsAre
<1>2. ASSUME NEW b \in D, b # Max(D) \/ Len(out) = Cardinality(DOMAIN total)
      PROVE  LET I == TradesOf(b, b + n - 1)
                 Secs == {lines[i].sec : i \in I}
             IN  /\ I # {}
                 /\ intervals[b].open = lines[Min(TradesOf(Min(Secs), Min(Secs)))].price
                 /\ intervals[b].close = lines[Max(TradesOf(Max(Secs), Max(Secs)))].price
                 /\ intervals[b].high = Max(PricesOf(I)) /\ intervals[b].low = Min(PricesOf(I))
                 /\ intervals[b].buy = VolumeOf(lines, I, "buy")
                 /\ intervals[b].sell = VolumeOf(lines, I, "sell")
                 /\ intervals[b].closeTs = Max(Secs)
  <2> DEFINE I == TradesOf(b, b + n - 1)
             Secs == {lines[i].sec : i \in I}
             J == Joined(b)
             a == Min(J)
             z == Max(J)
             X == PricesOf(I)
  <2>1. /\ J # {} /\ J \subseteq Int /\ IsFiniteSet(J)
        /\ Secs = {bars[i].sec : i \in J} /\ Secs \subseteq DOMAIN total
        /\ \A s \in Secs : TradesOf(s, s) = {i \in I : lines[i].sec = s}
    BY <1>1, <1>2, JoinedIs
  <2>2. /\ J \subseteq DOMAIN bars
        /\ \A i \in DOMAIN bars : SameBar(bars[i], total[bars[i].sec])
        /\ \A i \in J, j \in J : i < j => bars[i].sec < bars[j].sec
    BY <1>1 DEF BarsInv, Joined
  <2>3. intervals[b] =
           [open |-> bars[a].open, close |-> bars[z].close,
            high |-> Max({bars[i].high : i \in J}), low |-> Min({bars[i].low : i \in J}),
            buy  |-> Total([i \in J |-> bars[i].buy]), sell |-> Total([i \in J |-> bars[i].sell]),
            closeTs |-> bars[z].sec]
    <3>1. b \in {StartOf(bars[i].sec, n) : i \in DOMAIN bars}
      BY DEF AggregateIntervals
    <3> QED
      BY <3>1 DEF AggregateIntervals, Joined
  <2>4. /\ I \in SUBSET DOMAIN lines /\ lines \in Seq(RowType)
        /\ X \subseteq Int /\ IsFiniteSet(X) /\ (I # {} => X # {})
    BY TradesAre
  <2>5. I # {}
    <3> PICK i \in J : TRUE
      BY <2>1
    <3> DEFINE s == bars[i].sec
    <3>1. s \in {bars[k].sec : k \in J}
      OBVIOUS
    <3> HIDE DEF s, J
    <3>2. s \in Secs
      BY <2>1, <3>1
    <3> QED
      BY <3>2
  <2> HIDE DEF intervals, D, I, Secs, J, X
  <2>6. a \in J /\ z \in J /\ \A i \in J : a <= i /\ i <= z
    BY <2>1, EndsOfFinite
  <2> HIDE DEF a, z
  <2>7. \A s \in Secs : s \in Nat /\ s \in Int
    BY <1>1, <2>1
  <2>8. Min(Secs) = bars[a].sec /\ Max(Secs) = bars[z].sec
    <3>1. bars[a].sec \in Secs /\ bars[z].sec \in Secs /\ Secs \subseteq Int
      BY <2>1, <2>6, <2>7
    <3>2. \A s \in Secs : bars[a].sec <= s /\ s <= bars[z].sec
      <4> TAKE s \in Secs
      <4>1. PICK i \in J : s = bars[i].sec
        BY <2>1
      <4>2. (i = a \/ a < i) /\ (i = z \/ i < z)
        BY <2>1, <2>6
      <4>3. (s = bars[a].sec \/ bars[a].sec < s) /\ (s = bars[z].sec \/ s < bars[z].sec)
        BY <2>2, <2>6, <4>1, <4>2
      <4> DEFINE p == bars[a].sec
                 q == bars[z].sec
      <4>4. p \in Int /\ q \in Int /\ s \in Int /\ (s = p \/ p < s) /\ (s = q \/ s < q)
        BY <2>7, <3>1, <4>3
      <4> HIDE DEF p, q
      <4>5. p <= s /\ s <= q
        BY <4>4
      <4> QED
        BY <4>5 DEF p, q
    <3>3. Min(Secs) = bars[a].sec
      BY <3>1, <3>2, EndsAre
    <3>4. Max(Secs) = bars[z].sec
      BY <3>1, <3>2, EndsAre
    <3> QED
      BY <3>3, <3>4
  <2>9. ASSUME NEW i \in J
        PROVE  LET s == bars[i].sec
                   Is == TradesOf(s, s)
                   Ps == PricesOf(Is)
               IN  /\ bars[i].open = lines[Min(Is)].price /\ bars[i].close = lines[Max(Is)].price
                   /\ bars[i].buy = VolumeOf(lines, Is, "buy")
                   /\ bars[i].sell = VolumeOf(lines, Is, "sell")
                   /\ Ps # {} /\ Ps \subseteq X
                   /\ bars[i].high \in Ps /\ \A y \in Ps : y <= bars[i].high
                   /\ bars[i].low \in Ps /\ \A y \in Ps : bars[i].low <= y
    <3> DEFINE s == bars[i].sec
               Is == TradesOf(s, s)
               Ps == PricesOf(Is)
    <3>1. s \in Secs /\ s \in DOMAIN total
      BY <2>1
    <3>2. Is # {} /\ Is \subseteq I
      <4>1. Is = {j \in I : lines[j].sec = s}
        BY <2>1, <3>1
      <4>2. PICK j \in I : lines[j].sec = s
        BY <3>1 DEF Secs
      <4> QED
        BY <4>1, <4>2
    <3>3. Ps # {} /\ Ps \subseteq X
      BY <3>2 DEF PricesOf, X
    <3>4. SameBar(bars[i], total[s])
      BY <2>2
    <3>5. /\ total[s].open = lines[Min(Is)].price /\ total[s].close = lines[Max(Is)].price
          /\ total[s].buy = VolumeOf(lines, Is, "buy") /\ total[s].sell = VolumeOf(lines, Is, "sell")
          /\ Ps # {} =>
                /\ total[s].high \in Ps /\ \A y \in Ps : y <= total[s].high
                /\ total[s].low \in Ps /\ \A y \in Ps : total[s].low <= y
      BY <1>1, <3>1, SecondIs
    <3> HIDE DEF s, Is, Ps
    <3>6. /\ bars[i].open = total[s].open /\ bars[i].close = total[s].close
          /\ bars[i].buy = total[s].buy /\ bars[i].sell = total[s].sell
          /\ bars[i].high = total[s].high /\ bars[i].low = total[s].low
      BY <3>4 DEF SameBar
    <3>7. /\ bars[i].open = lines[Min(Is)].price /\ bars[i].close = lines[Max(Is)].price
          /\ bars[i].buy = VolumeOf(lines, Is, "buy") /\ bars[i].sell = VolumeOf(lines, Is, "sell")
      BY <3>5, <3>6
    <3>8. /\ bars[i].high \in Ps /\ \A y \in Ps : y <= bars[i].high
          /\ bars[i].low \in Ps /\ \A y \in Ps : bars[i].low <= y
      BY <3>3, <3>5, <3>6
    <3> QED
      BY <3>3, <3>7, <3>8 DEF s, Is, Ps
  <2> DEFINE H == {bars[i].high : i \in J}
             L == {bars[i].low : i \in J}
  <2>10. \A x \in X : \E i \in J : x <= bars[i].high /\ bars[i].low <= x
    <3> TAKE x \in X
    <3>1. PICK j \in I : x = lines[j].price
      BY DEF X, PricesOf
    <3>2. lines[j].sec \in Secs
      BY DEF Secs
    <3>3. PICK i \in J : bars[i].sec = lines[j].sec
      BY <2>1, <3>2
    <3>4. j \in TradesOf(bars[i].sec, bars[i].sec)
      BY <2>1, <3>2, <3>3
    <3>5. x \in PricesOf(TradesOf(bars[i].sec, bars[i].sec))
      BY <3>1, <3>4 DEF PricesOf
    <3> QED
      BY <2>9, <3>5
  <2>11. \A i \in J : bars[i].high \in X /\ bars[i].low \in X
    BY <2>9
  <2>12. /\ H \subseteq Int /\ H # {} /\ IsFiniteSet(H) /\ H \subseteq X
         /\ L \subseteq Int /\ L # {} /\ IsFiniteSet(L) /\ L \subseteq X
    <3> PICK k \in J : TRUE
      BY <2>1
    <3>1. H \subseteq X /\ H # {}
      <4>1. bars[k].high \in H
        OBVIOUS
      <4>2. H \subseteq X
        BY <2>11
      <4> HIDE DEF H
      <4> QED
        BY <4>1, <4>2
    <3>2. L \subseteq X /\ L # {}
      <4>1. bars[k].low \in L
        OBVIOUS
      <4>2. L \subseteq X
        BY <2>11
      <4> HIDE DEF L
      <4> QED
        BY <4>1, <4>2
    <3> HIDE DEF H, L
    <3>3. IsFiniteSet(H) /\ IsFiniteSet(L)
      BY <2>4, <3>1, <3>2, FS_Subset
    <3> QED
      BY <2>4, <3>1, <3>2, <3>3
  <2>13. \A x \in X : (\E h \in H : x <= h) /\ (\E l \in L : l <= x)
    BY <2>10
  <2> HIDE DEF H, L
  <2>14. Max(X) = Max(H)
    <3> DEFINE m == Max(H)
    <3>1. m \in H /\ \A h \in H : h <= m
      BY <2>12, EndsOfFinite
    <3> HIDE DEF m
    <3>2. m \in X
      BY <2>12, <3>1
    <3>3. ASSUME NEW x \in X PROVE x <= m
      <4>1. PICK h \in H : x <= h
        BY <2>13
      <4>2. h <= m /\ h \in Int /\ m \in Int /\ x \in Int
        BY <2>4, <2>12, <3>1
      <4> QED
        BY <4>1, <4>2
    <3>4. Max(X) = m
      BY <2>4, <3>2, <3>3, EndsAre
    <3> QED
      BY <3>4 DEF m
  <2>15. Min(X) = Min(L)
    <3> DEFINE m == Min(L)
    <3>1. m \in L /\ \A l \in L : m <= l
      BY <2>12, EndsOfFinite
    <3> HIDE DEF m
    <3>2. m \in X
      BY <2>12, <3>1
    <3>3. ASSUME NEW x \in X PROVE m <= x
      <4>1. PICK l \in L : l <= x
        BY <2>13
      <4>2. m <= l /\ l \in Int /\ m \in Int /\ x \in Int
        BY <2>4, <2>12, <3>1
      <4> QED
        BY <4>1, <4>2
    <3>4. Min(X) = m
      BY <2>4, <3>2, <3>3, EndsAre
    <3> QED
      BY <3>4 DEF m
  <2> DEFINE secs == [i \in J |-> bars[i].sec]
  <2>16. SecondsOnce(lines, I, secs, J)
    <3>1. Secs = {secs[i] : i \in J}
      BY <2>1
    <3>2. \A i \in J, j \in J : i # j => secs[i] # secs[j]
      <4> TAKE i \in J, j \in J
      <4>1. i # j => i < j \/ j < i
        BY <2>1
      <4>2. bars[i].sec \in Int /\ bars[j].sec \in Int
        BY <2>1, <2>7
      <4> QED
        BY <2>2, <4>1, <4>2
    <3> QED
      BY <3>1, <3>2 DEF SecondsOnce, Secs
  <2>17. ASSUME NEW d
         PROVE  [i \in J |-> VolumeOf(lines, TradesOf(bars[i].sec, bars[i].sec), d)]
                  = [i \in J |-> VolumeOf(lines, {j \in I : lines[j].sec = secs[i]}, d)]
    <3>1. \A i \in J : TradesOf(bars[i].sec, bars[i].sec) = {j \in I : lines[j].sec = secs[i]}
      BY <2>1
    <3> HIDE DEF secs
    <3> QED
      BY <3>1
  <2>18. ASSUME NEW d
         PROVE  Total([i \in J |-> VolumeOf(lines, TradesOf(bars[i].sec, bars[i].sec), d)])
                  = VolumeOf(lines, I, d)
    <3> HIDE DEF secs
    <3>1. VolumeBySecond(lines, I, secs, J, d) = VolumeOf(lines, I, d)
      BY <2>1, <2>4, <2>16, JoinedVolume
    <3> QED
      BY <2>17, <3>1 DEF VolumeBySecond
  <2>19. Total([i \in J |-> bars[i].buy]) = VolumeOf(lines, I, "buy")
    <3>1. [i \in J |-> bars[i].buy]
             = [i \in J |-> VolumeOf(lines, TradesOf(bars[i].sec, bars[i].sec), "buy")]
      BY <2>9
    <3> QED
      BY <2>18, <3>1
  <2>20. Total([i \in J |-> bars[i].sell]) = VolumeOf(lines, I, "sell")
    <3>1. [i \in J |-> bars[i].sell]
             = [i \in J |-> VolumeOf(lines, TradesOf(bars[i].sec, bars[i].sec), "sell")]
      BY <2>9
    <3> QED
      BY <2>18, <3>1
  <2>21. /\ bars[a].open = lines[Min(TradesOf(bars[a].sec, bars[a].sec))].price
         /\ bars[z].close = lines[Max(TradesOf(bars[z].sec, bars[z].sec))].price
    BY <2>6, <2>9
  <2> HIDE DEF secs
  <2>22. /\ I # {}
         /\ intervals[b].open = lines[Min(TradesOf(Min(Secs), Min(Secs)))].price
         /\ intervals[b].close = lines[Max(TradesOf(Max(Secs), Max(Secs)))].price
         /\ intervals[b].high = Max(PricesOf(I)) /\ intervals[b].low = Min(PricesOf(I))
         /\ intervals[b].buy = VolumeOf(lines, I, "buy")
         /\ intervals[b].sell = VolumeOf(lines, I, "sell")
         /\ intervals[b].closeTs = Max(Secs)
    BY <2>3, <2>5, <2>8, <2>14, <2>15, <2>19, <2>20, <2>21 DEF H, L, X
  <2> QED
    BY <2>22 DEF I, Secs
<1> HIDE DEF intervals, D
<1> QED
  BY <1>2 DEF IntervalsOfLog, intervals, D

\* Joining the bars of the seconds gives what the trades of the interval give, in all
\* intervals but the last one of a file whose writing was interrupted
\* (aggregate_1s.py:268-279, data_loader.py:64-77, pfd_indicator.py:40-62).
THEOREM IntervalsAreOfLog == Spec => []IntervalsOfLog
<1>1. Init => TotalInv /\ LinesInv
  BY DEF Init, TotalInv, LinesInv
<1>2. Spec => []TotalInv
  BY <1>1, StepCombines, PTL DEF Spec
<1>3. Spec => []LinesInv
  BY <1>1, <1>2, StepLines, ReadsBeginning, PartsOfLog, PTL DEF Spec
<1> QED
  BY <1>2, <1>3, ReadsBeginning, PartsOfLog, IntervalsAre, PTL
=============================================================================
