------------------------- MODULE WalkForwardProofs --------------------------
(***************************************************************************)
(* Proofs about the walk-forward search (WalkForward, followed by          *)
(* ResearchStudy) and the metrics it judges by (Evaluation), for every     *)
(* history, grid, division, objective and constraint.                      *)
(*                                                                         *)
(* A run over a part of the data makes trades within that part, and the    *)
(* same ones when nothing else has been recorded (TradesOnAre), so the     *)
(* metrics of a part are those of its data.  Objectives are fractions with *)
(* positive denominators (ObjectiveIs), so what is greater than the best   *)
(* is greater than all that are not (GreaterIs), and the search, which     *)
(* keeps one entry per fold, keeps the first best of all (LeaderStep).     *)
(* SearchInv joins this with the rows of the tests and with the report.    *)
(*                                                                         *)
(* The rows of a combination follow each other (RowsAre), and a variant of *)
(* the study that changes nothing makes the trades of its tests            *)
(* (StudyTradesAre), which joined and taken apart again (AllTradesAre) add *)
(* up to the same table.                                                   *)
(***************************************************************************)
EXTENDS ResearchStudy, BacktestProofs

-----------------------------------------------------------------------------
(* Sums over sequences.                                                    *)

\* What holds of no elements and is kept by one more holds of every sequence.
LEMMA SeqInduction ==
    ASSUME NEW T, NEW G, <<>> \in G,
           \A s \in Seq(T), e \in T : s \in G => Append(s, e) \in G
    PROVE  Seq(T) \subseteq G
<1> DEFINE Bad == {m \in Nat : \E s \in Seq(T) : Len(s) = m /\ s \notin G}
<1> SUFFICES ASSUME NEW t \in Seq(T), t \notin G PROVE FALSE
  OBVIOUS
<1>1. Len(t) \in Bad
  OBVIOUS
<1>2. Min(Bad) \in Bad /\ \A m \in Bad : Min(Bad) <= m
  BY <1>1, MinIsLeast
<1>3. PICK s \in Seq(T) : Len(s) = Min(Bad) /\ s \notin G
  BY <1>2
<1>4. s # <<>>
  BY <1>3
<1>5. PICK f \in Seq(T), e \in T : s = Append(f, e)
  BY <1>4, SequenceEmptyOrAppend
<1>6. f \notin G
  BY <1>3, <1>5
<1>7. Len(f) \in Nat /\ Len(s) = Len(f) + 1
  BY <1>5
<1>8. Len(f) \in Bad /\ Len(f) < Min(Bad)
  BY <1>3, <1>5, <1>6, <1>7
<1> QED
  BY <1>2, <1>8

\* A function of the subsets of D that takes in one place after the other.
Steps(g, D, base, step) ==
    \A S \in SUBSET D : g[S] = IF S = {} THEN base ELSE step[<<Max(S), g[S \ {Max(S)}]>>]

LEMMA StepsExist ==
    ASSUME NEW n \in Nat, NEW D, D \subseteq 0 .. n, NEW T, NEW base \in T,
           NEW step \in [D \X T -> T]
    PROVE  \E g \in [SUBSET D -> T] : Steps(g, D, base, step)
<1> DEFINE Upto(m) == Before(D, m)
           Has(m) == \E g \in [SUBSET Upto(m) -> T] : Steps(g, Upto(m), base, step)
           None == {m \in Nat : ~Has(m)}
<1>1. Has(0)
  <2>1. Upto(0) = {}
    BY BeforeIs
  <2> DEFINE g == [S \in SUBSET Upto(0) |-> base]
  <2>2. Steps(g, Upto(0), base, step) /\ g \in [SUBSET Upto(0) -> T]
    BY <2>1 DEF Steps
  <2> QED
    BY <2>2
<1>2. ASSUME NEW m \in Nat, Has(m) PROVE Has(m + 1)
  <2>1. PICK g \in [SUBSET Upto(m) -> T] : Steps(g, Upto(m), base, step)
    BY <1>2
  <2> DEFINE h == [S \in SUBSET Upto(m + 1) |->
                      IF S \subseteq Upto(m) THEN g[S] ELSE step[<<Max(S), g[S \ {Max(S)}]>>]]
  <2>2. \A S \in SUBSET Upto(m) :
           g[S] = IF S = {} THEN base ELSE step[<<Max(S), g[S \ {Max(S)}]>>]
    BY <2>1 DEF Steps
  <2>3. Upto(m) \subseteq Upto(m + 1)
    BY BeforeIs
  <2>4. \A S \in SUBSET Upto(m + 1) : S # {} => Max(S) \in S /\ S \ {Max(S)} \subseteq Upto(m)
    BY BeforeIs
  <2>5. ASSUME NEW S \in SUBSET Upto(m + 1)
        PROVE  /\ h[S] = IF S = {} THEN base ELSE step[<<Max(S), h[S \ {Max(S)}]>>]
               /\ h[S] \in T
    <3>1. CASE S = {}
      BY <2>1, <2>2, <3>1
    <3>2. CASE S # {}
      <4>1. S \ {Max(S)} \subseteq Upto(m) /\ S \ {Max(S)} \in SUBSET Upto(m + 1)
        BY <2>3, <2>4, <3>2
      <4>2. h[S \ {Max(S)}] = g[S \ {Max(S)}] /\ g[S \ {Max(S)}] \in T
        BY <2>1, <4>1
      <4>3. h[S] = step[<<Max(S), g[S \ {Max(S)}]>>]
        BY <2>2, <3>2
      <4>4. Max(S) \in D
        BY <2>4, <3>2 DEF Before
      <4> QED
        BY <3>2, <4>2, <4>3, <4>4
    <3> QED
      BY <3>1, <3>2
  <2>6. h \in [SUBSET Upto(m + 1) -> T]
    BY <2>5
  <2>7. Steps(h, Upto(m + 1), base, step)
    <3> HIDE DEF h
    <3> QED
      BY <2>5 DEF Steps
  <2> QED
    BY <2>6, <2>7
<1> HIDE DEF Has
<1>3. None = {}
  <2> SUFFICES ASSUME None # {} PROVE FALSE
    OBVIOUS
  <2>1. Min(None) \in None /\ \A y \in None : Min(None) <= y
    BY MinIsLeast
  <2>2. Min(None) \in Nat /\ Min(None) # 0
    BY <1>1, <2>1
  <2>3. Has(Min(None) - 1)
    BY <2>1, <2>2
  <2>4. Has((Min(None) - 1) + 1)
    BY <1>2, <2>2, <2>3
  <2> QED
    BY <2>1, <2>2, <2>4
<1>4. Has(n + 1)
  BY <1>3
<1>5. Upto(n + 1) = D
  BY BeforeIs
<1> QED
  BY <1>4, <1>5 DEF Has

\* The recursive function that Sum unfolds to.
SumSteps(s) ==
    CHOOSE g : g = [S \in SUBSET DOMAIN s |-> IF S = {} THEN 0 ELSE g[S \ {Max(S)}] + s[Max(S)]]

LEMMA SumUnfolds ==
    ASSUME NEW s
    PROVE  Sum(s) = SumSteps(s)[DOMAIN s]
BY DEF Sum, FoldLeft, MapThenFoldSet, SumSteps

LEMMA SumStepsAre ==
    ASSUME NEW s \in Seq(Int)
    PROVE  \A S \in SUBSET DOMAIN s :
              /\ SumSteps(s)[S] \in Int
              /\ SumSteps(s)[S] = IF S = {} THEN 0 ELSE SumSteps(s)[S \ {Max(S)}] + s[Max(S)]
<1> DEFINE D == DOMAIN s
           step == [p \in D \X Int |-> p[2] + s[p[1]]]
<1>1. D \subseteq 0 .. Len(s) /\ Len(s) \in Nat
  OBVIOUS
<1>2. step \in [D \X Int -> Int]
  OBVIOUS
<1>3. PICK h \in [SUBSET D -> Int] : Steps(h, D, 0, step)
  <2>1. 0 \in Int
    OBVIOUS
  <2> HIDE DEF step, D
  <2> QED
    BY <1>1, <1>2, <2>1, StepsExist
<1>4. \A S \in SUBSET D : S # {} => Max(S) \in S
  <2> TAKE S \in SUBSET D
  <2> HAVE S # {}
  <2>1. S \subseteq Nat /\ \A y \in S : y <= Len(s)
    OBVIOUS
  <2> QED
    BY <1>1, <2>1, MaxIsGreatest
<1>5. ASSUME NEW S \in SUBSET D
      PROVE  h[S] = IF S = {} THEN 0 ELSE h[S \ {Max(S)}] + s[Max(S)]
  <2>1. CASE S = {}
    BY <1>3, <2>1 DEF Steps
  <2>2. CASE S # {}
    <3>1. Max(S) \in D /\ h[S \ {Max(S)}] \in Int
      BY <1>3, <1>4, <2>2
    <3>2. h[S] = step[<<Max(S), h[S \ {Max(S)}]>>]
      BY <1>3, <2>2 DEF Steps
    <3>3. <<Max(S), h[S \ {Max(S)}]>> \in D \X Int
      BY <3>1
    <3> QED
      BY <2>2, <3>2, <3>3
  <2> QED
    BY <2>1, <2>2
<1>6. h = [S \in SUBSET D |-> IF S = {} THEN 0 ELSE h[S \ {Max(S)}] + s[Max(S)]]
  BY <1>5
<1>7. SumSteps(s) = [S \in SUBSET D |-> IF S = {} THEN 0
                        ELSE SumSteps(s)[S \ {Max(S)}] + s[Max(S)]]
  BY <1>6 DEF SumSteps
<1> DEFINE g == SumSteps(s)
<1> HIDE DEF g, step
<1>8. \A S \in SUBSET D : g[S] = IF S = {} THEN 0 ELSE g[S \ {Max(S)}] + s[Max(S)]
  BY <1>7 DEF g
<1> DEFINE G == {S \in SUBSET D : g[S] \in Int}
<1>9. {} \in G
  <2>1. {} \in SUBSET D
    OBVIOUS
  <2>2. g[{}] = 0
    BY <1>8, <2>1
  <2> QED
    BY <2>1, <2>2
<1>10. \A S \in SUBSET D : S # {} /\ S \ {Max(S)} \in G => S \in G
  <2> TAKE S \in SUBSET D
  <2> HAVE S # {} /\ S \ {Max(S)} \in G
  <2>1. s[Max(S)] \in Int /\ g[S \ {Max(S)}] \in Int
    BY <1>4
  <2>2. g[S] = g[S \ {Max(S)}] + s[Max(S)]
    BY <1>8
  <2> QED
    BY <2>1, <2>2
<1>11. SUBSET D \subseteq G
  <2> HIDE DEF G, D
  <2> QED
    BY <1>1, <1>9, <1>10, SignalInduction
<1> QED
  BY <1>8, <1>11 DEF g

\* The last element is added to the sum of those before it.
LEMMA SumAppend ==
    /\ Sum(<<>>) = 0
    /\ \A s \in Seq(Int), e \in Int : Sum(s) \in Int /\ Sum(Append(s, e)) = Sum(s) + e
<1>1. Sum(<<>>) = 0
  <2>1. <<>> \in Seq(Int) /\ DOMAIN (<<>>) = {}
    OBVIOUS
  <2>2. SumSteps(<<>>)[{}] = 0
    BY <2>1, SumStepsAre
  <2> QED
    BY <2>1, <2>2, SumUnfolds
<1>2. ASSUME NEW s \in Seq(Int), NEW e \in Int
      PROVE  Sum(s) \in Int /\ Sum(Append(s, e)) = Sum(s) + e
  <2> DEFINE t == Append(s, e)
             D == DOMAIN s
             g == SumSteps(s)
             h == SumSteps(t)
             m == Len(s) + 1
  <2>1. t \in Seq(Int) /\ D = 1 .. Len(s) /\ DOMAIN t = 1 .. m /\ t[m] = e
        /\ \A i \in D : t[i] = s[i]
    OBVIOUS
  <2>2. \A S \in SUBSET D : /\ g[S] \in Int
                            /\ g[S] = IF S = {} THEN 0 ELSE g[S \ {Max(S)}] + s[Max(S)]
    BY SumStepsAre
  <2>3. \A S \in SUBSET DOMAIN t :
           h[S] = IF S = {} THEN 0 ELSE h[S \ {Max(S)}] + t[Max(S)]
    BY <2>1, SumStepsAre
  <2> HIDE DEF t, g, h
  <2> DEFINE G == {S \in SUBSET D : g[S] = h[S]}
  <2>4. D \subseteq 0 .. Len(s) /\ Len(s) \in Nat /\ D \subseteq DOMAIN t
    BY <2>1
  <2>5. {} \in G
    BY <2>2, <2>3, <2>4
  <2>6. \A S \in SUBSET D : S # {} /\ S \ {Max(S)} \in G => S \in G
    <3> TAKE S \in SUBSET D
    <3> HAVE S # {} /\ S \ {Max(S)} \in G
    <3>1. Max(S) \in S
      <4>1. S \subseteq Nat /\ \A y \in S : y <= Len(s)
        BY <2>4
      <4> QED
        BY <2>4, <4>1, MaxIsGreatest
    <3>2. t[Max(S)] = s[Max(S)] /\ S \in SUBSET DOMAIN t
      BY <2>1, <2>4, <3>1
    <3> QED
      BY <2>2, <2>3, <3>2
  <2>7. SUBSET D \subseteq G
    <3>1. D \subseteq 0 .. Len(s) /\ Len(s) \in Nat
      BY <2>4
    <3> HIDE DEF G, D, m
    <3> QED
      BY <3>1, <2>5, <2>6, SignalInduction
  <2>8. Max(1 .. m) = m /\ (1 .. m) \ {m} = D
    <3>1. 1 .. m \subseteq Int /\ m \in 1 .. m /\ \A y \in 1 .. m : y <= m
      BY <2>4
    <3>2. Max(1 .. m) = m
      BY <3>1, GreatestIs
    <3> QED
      BY <2>1, <3>2
  <2>9. h[1 .. m] = h[D] + e
    <3>1. 1 .. m # {} /\ 1 .. m \in SUBSET DOMAIN t
      BY <2>1, <2>4
    <3> HIDE DEF m
    <3>2. h[1 .. m] = h[(1 .. m) \ {Max(1 .. m)}] + t[Max(1 .. m)]
      BY <2>3, <3>1
    <3> QED
      BY <2>1, <2>8, <3>2
  <2>10. h[D] = g[D] /\ g[D] \in Int
    BY <2>2, <2>7
  <2>11. Sum(s) = g[D] /\ Sum(t) = h[1 .. m]
    BY <2>1, SumUnfolds DEF g, h
  <2> QED
    BY <2>9, <2>10, <2>11 DEF t
<1> QED
  BY <1>1, <1>2
-----------------------------------------------------------------------------
(* The trades of a part.                                                   *)

\* The trades that lie within a part.
Inside(from, to) == {t \in AnyTrade : from <= t.entry /\ t.entry <= t.exit /\ t.exit <= to}

\* What a run over a part has done so far: one trade after the other, none of which
\* ends later than the last exit, and no more time spent in them than there was.
Tidy(done, from, to) ==
    /\ done.trades \in Seq(Inside(from, to))
    /\ done.lastExit \in Int /\ done.lastExit <= to
    /\ TimeInPosition(done.trades, from, to) <= Later(0, done.lastExit - from)

\* The signals of a part, and how their positions end.
Ends(ss, exits, from, to) ==
    \A e \in DOMAIN ss :
        /\ ss[e] \in {1, -1} /\ from <= e
        /\ exits[e] \in AnyExit /\ e <= exits[e].ts /\ exits[e].ts <= to

\* The seconds of a trade within a part.
Clip(t, from, to) == Later(0, (IF t.exit < to THEN t.exit ELSE to) - Later(t.entry, from))

LEMMA TimeAppend ==
    ASSUME NEW from \in Nat, NEW to \in Nat
    PROVE  /\ TimeInPosition(<<>>, from, to) = 0
           /\ \A s \in Seq(Inside(from, to)), t \in Inside(from, to) :
                 /\ TimeInPosition(s, from, to) \in Int
                 /\ TimeInPosition(Append(s, t), from, to)
                       = TimeInPosition(s, from, to) + (t.exit - t.entry)
<1> DEFINE Times(s) == [n \in DOMAIN s |-> Clip(s[n], from, to)]
<1>1. \A s : TimeInPosition(s, from, to) = Sum(Times(s))
  BY DEF TimeInPosition, Clip
<1>2. \A t \in Inside(from, to) : Clip(t, from, to) = t.exit - t.entry /\ t.exit - t.entry \in Int
  <2> TAKE t \in Inside(from, to)
  <2>1. /\ t.entry \in Nat /\ t.exit \in Nat
        /\ from <= t.entry /\ t.entry <= t.exit /\ t.exit <= to
    BY DEF Inside, AnyTrade
  <2> QED
    BY <2>1 DEF Clip, Later
<1>3. Times(<<>>) = <<>>
  OBVIOUS
<1>4. ASSUME NEW s \in Seq(Inside(from, to)), NEW t \in Inside(from, to)
      PROVE  /\ Times(s) \in Seq(Int)
             /\ Times(Append(s, t)) = Append(Times(s), t.exit - t.entry)
  <2>1. /\ Len(s) \in Nat /\ DOMAIN s = 1 .. Len(s)
        /\ \A n \in 1 .. Len(s) : s[n] \in Inside(from, to) /\ Append(s, t)[n] = s[n]
        /\ DOMAIN Append(s, t) = 1 .. Len(s) + 1 /\ Append(s, t)[Len(s) + 1] = t
    OBVIOUS
  <2>2. Times(s) \in Seq(Int)
    BY <1>2, <2>1
  <2>3. /\ DOMAIN Times(s) = 1 .. Len(s) /\ Len(Times(s)) = Len(s)
        /\ \A n \in 1 .. Len(s) : Times(s)[n] = Clip(s[n], from, to)
    BY <2>1
  <2> DEFINE a == Times(Append(s, t))
             b == Append(Times(s), t.exit - t.entry)
  <2>4. DOMAIN a = 1 .. Len(s) + 1 /\ a[Len(s) + 1] = t.exit - t.entry
        /\ \A n \in 1 .. Len(s) : a[n] = Clip(s[n], from, to)
    BY <1>2, <2>1
  <2>5. a \in Seq(Int) /\ Len(a) = Len(s) + 1
    <3>1. \A n \in 1 .. Len(s) + 1 : Append(s, t)[n] \in Inside(from, to)
      BY <2>1
    <3> QED
      BY <1>2, <2>1, <3>1
  <2>6. /\ b \in Seq(Int) /\ Len(b) = Len(s) + 1 /\ b[Len(s) + 1] = t.exit - t.entry
        /\ \A n \in 1 .. Len(s) : b[n] = Clip(s[n], from, to)
    <3> HIDE DEF Times
    <3> QED
      BY <1>2, <2>2, <2>3, AppendProperties
  <2> HIDE DEF a, b
  <2>7. \A n \in 1 .. Len(s) + 1 : a[n] = b[n]
    BY <2>1, <2>4, <2>6
  <2>8. a = b
    BY <2>5, <2>6, <2>7, SeqEqual
  <2> QED
    BY <2>2, <2>8 DEF a, b
<1> HIDE DEF Times
<1>5. \A t \in Inside(from, to) : t.exit - t.entry \in Int
  BY <1>2
<1>6. TimeInPosition(<<>>, from, to) = 0
  BY <1>1, <1>3, SumAppend
<1>7. ASSUME NEW s \in Seq(Inside(from, to)), NEW t \in Inside(from, to)
      PROVE  /\ TimeInPosition(s, from, to) \in Int
             /\ TimeInPosition(Append(s, t), from, to)
                   = TimeInPosition(s, from, to) + (t.exit - t.entry)
  <2>1. Sum(Times(s)) \in Int
        /\ Sum(Append(Times(s), t.exit - t.entry)) = Sum(Times(s)) + (t.exit - t.entry)
    BY <1>4, <1>5, SumAppend
  <2> QED
    BY <1>1, <1>4, <2>1
<1> QED
  BY <1>6, <1>7

LEMMA TimeOfTrades ==
    ASSUME NEW from \in Nat, NEW to \in Nat, NEW s \in Seq(Inside(from, to))
    PROVE  TimeInPosition(s, from, to) \in Int
<1>1. CASE s = <<>>
  BY <1>1, TimeAppend
<1>2. CASE s # <<>>
  <2>1. PICK f \in Seq(Inside(from, to)), t \in Inside(from, to) : s = Append(f, t)
    BY <1>2, SequenceEmptyOrAppend
  <2>2. t.entry \in Nat /\ t.exit \in Nat
    BY DEF Inside, AnyTrade
  <2> QED
    BY <2>1, <2>2, TimeAppend
<1> QED
  BY <1>1, <1>2

LEMMA PositionInside ==
    ASSUME NEW from \in Nat, NEW to \in Nat, NEW e \in Nat, NEW dir \in {1, -1}, NEW px \in Nat,
           NEW exit \in AnyExit, from <= e, e <= exit.ts, exit.ts <= to
    PROVE  LET t == Position(e, dir, px, exit) IN
           t \in Inside(from, to) /\ t.entry = e /\ t.exit = exit.ts
<1>1. Position(e, dir, px, exit) \in AnyTrade
  BY PositionIs
<1>2. Position(e, dir, px, exit).entry = e /\ Position(e, dir, px, exit).exit = exit.ts
  BY PositionIs
<1> QED
  BY <1>1, <1>2 DEF Inside

LEMMA RunIsTidy ==
    ASSUME NEW bs, IsBars(bs), NEW ss, NEW n \in Nat, DOMAIN ss \subseteq 0 .. n,
           DOMAIN ss \subseteq DOMAIN bs, NEW from \in Nat, NEW to \in Nat,
           NEW exits, Ends(ss, exits, from, to)
    PROVE  Tidy(Done(bs, ss, exits, from, to)[DOMAIN ss], from, to)
<1> DEFINE D == DOMAIN ss
           A == Done(bs, ss, exits, from, to)
           G == {S \in SUBSET D : Tidy(A[S], from, to)}
<1>1. {} \in G
  <2>1. A[{}] = NoTrades
    BY DoneIs
  <2>2. TimeInPosition(<<>>, from, to) = 0
    BY TimeAppend
  <2>3. Tidy(NoTrades, from, to)
    BY <2>2 DEF Tidy, NoTrades, Later
  <2> QED
    BY <2>1, <2>3
<1>2. ASSUME NEW S \in SUBSET D, S # {}, S \ {Max(S)} \in G PROVE S \in G
  <2> DEFINE e == Max(S)
             a == A[S \ {e}]
             t == Position(e, ss[e], bs[e].close, exits[e])
  <2>1. A[S] = TakeSignal(bs, ss, exits, from, to, e, a)
    BY <1>2, DoneIs
  <2>2. e \in D
    <3>1. S \subseteq Nat /\ \A y \in S : y <= n
      OBVIOUS
    <3> QED
      BY <1>2, <3>1, MaxIsGreatest
  <2>3. Tidy(a, from, to)
    BY <1>2
  <2>4. /\ ss[e] \in {1, -1} /\ from <= e /\ e \in Nat
        /\ exits[e] \in AnyExit /\ e <= exits[e].ts /\ exits[e].ts <= to /\ exits[e].ts \in Nat
    BY <2>2 DEF Ends, AnyExit
  <2>5. bs[e].close \in Nat
    BY <2>2 DEF IsBars
  <2>6. t \in Inside(from, to) /\ t.entry = e /\ t.exit = exits[e].ts
    <3> DEFINE dir == ss[e]
               px == bs[e].close
               exit == exits[e]
    <3>1. dir \in {1, -1} /\ px \in Nat /\ exit \in AnyExit /\ from <= e /\ e <= exit.ts /\ exit.ts <= to
          /\ e \in Nat
      BY <2>4, <2>5
    <3>2. t = Position(e, dir, px, exit)
      OBVIOUS
    <3> HIDE DEF e, dir, px, exit, t
    <3>3. t \in Inside(from, to) /\ t.entry = e /\ t.exit = exit.ts
      BY <3>1, <3>2, PositionInside
    <3> QED
      BY <3>3 DEF exit
  <2> HIDE DEF A, a, e, t
  <2>7. CASE ~Taken(bs, ss, e, from, to, a.lastExit)
    BY <2>1, <2>3, <2>7 DEF TakeSignal
  <2>8. CASE Taken(bs, ss, e, from, to, a.lastExit)
    <3>1. A[S].trades = Append(a.trades, t) /\ A[S].lastExit = Later(a.lastExit, t.exit)
      BY <2>1, <2>8 DEF TakeSignal, t
    <3>2. a.lastExit <= e
      BY <2>8 DEF Taken
    <3>3. a.trades \in Seq(Inside(from, to)) /\ a.lastExit \in Int /\ a.lastExit <= to
          /\ TimeInPosition(a.trades, from, to) <= Later(0, a.lastExit - from)
      BY <2>3 DEF Tidy
    <3>4. /\ TimeInPosition(a.trades, from, to) \in Int
          /\ TimeInPosition(A[S].trades, from, to)
                = TimeInPosition(a.trades, from, to) + (t.exit - t.entry)
      BY <2>6, <3>1, <3>3, TimeAppend
    <3>5. A[S].lastExit = t.exit
      BY <2>4, <2>6, <3>1, <3>2, <3>3 DEF Later
    <3>6. TimeInPosition(A[S].trades, from, to) <= Later(0, A[S].lastExit - from)
      BY <2>4, <2>6, <3>2, <3>3, <3>4, <3>5 DEF Later
    <3>7. A[S].trades \in Seq(Inside(from, to))
      BY <2>6, <3>1, <3>3
    <3> QED
      BY <2>4, <2>6, <3>5, <3>6, <3>7 DEF Tidy
  <2> QED
    BY <2>7, <2>8
<1> HIDE DEF A
<1>3. SUBSET D \subseteq G
  <2> HIDE DEF G, D
  <2>1. D \subseteq 0 .. n
    BY DEF D
  <2> QED
    BY <1>1, <1>2, <2>1, SignalInduction
<1> QED
  BY <1>3 DEF A
-----------------------------------------------------------------------------
(* A part of the data, as if nothing else had been recorded.               *)

\* What is left of a function.
Within(f, from, to) == Restrict(f, {s \in DOMAIN f : from <= s /\ s <= to})

LEMMA BarsWithin ==
    ASSUME NEW bs, IsBars(bs), NEW from, NEW to
    PROVE  IsBars(Within(bs, from, to))
<1> DEFINE cut == Within(bs, from, to)
<1>1. DOMAIN cut \subseteq DOMAIN bs /\ \A k \in DOMAIN cut : cut[k] = bs[k]
  BY DEF Within, Restrict
<1>2. cut = [k \in DOMAIN cut |-> cut[k]]
  BY DEF Within, Restrict
<1> HIDE DEF cut
<1>3. \A k \in DOMAIN cut : cut[k] \in [high : Nat, low : Nat, close : Nat]
  BY <1>1 DEF IsBars
<1>4. cut \in [DOMAIN cut -> [high : Nat, low : Nat, close : Nat]]
  BY <1>2, <1>3
<1> QED
  BY <1>1, <1>4 DEF IsBars, cut

\* The signals of a part are those of the part of the data.
LEMMA PartIs ==
    ASSUME NEW f, NEW from, NEW to
    PROVE  /\ DOMAIN Part(f, from, to) = {s \in DOMAIN f : from <= s /\ s <= to /\ f[s] # 0}
           /\ \A s \in DOMAIN Part(f, from, to) : Part(f, from, to)[s] = f[s]
           /\ Part(Within(f, from, to), from, to) = Part(f, from, to)
<1>1. /\ DOMAIN Part(f, from, to) = {s \in DOMAIN f : from <= s /\ s <= to /\ f[s] # 0}
      /\ \A s \in DOMAIN Part(f, from, to) : Part(f, from, to)[s] = f[s]
  BY DEF Part, Restrict
<1> DEFINE w == Within(f, from, to)
           S == {s \in DOMAIN f : from <= s /\ s <= to /\ f[s] # 0}
           R == {s \in DOMAIN w : from <= s /\ s <= to /\ w[s] # 0}
<1>2. R = S /\ \A s \in S : w[s] = f[s]
  BY DEF Within, Restrict
<1>3. Part(w, from, to) = [s \in R |-> w[s]] /\ Part(f, from, to) = [s \in S |-> f[s]]
  BY DEF Part, Restrict
<1> HIDE DEF w, S, R
<1>4. [s \in S |-> w[s]] = [s \in S |-> f[s]]
  BY <1>2
<1> QED
  BY <1>1, <1>2, <1>3, <1>4 DEF w

\* A position sees no bars but those of its part.
LEMMA ExitWithin ==
    ASSUME NEW bs, IsBars(bs), NEW e \in DOMAIN bs, NEW dir, NEW r, IsRule(r),
           NEW from \in Nat, NEW to \in Nat, from <= e, e <= to
    PROVE  PriceExit(Within(bs, from, to), e, dir, r, to) = PriceExit(bs, e, dir, r, to)
<1> DEFINE cut == Within(bs, from, to)
           last == ScanEnd(e, r, to)
           w == Window(bs, e, last)
<1>1. DOMAIN bs \subseteq Nat /\ e \in Nat
  BY DEF IsBars
<1>2. DOMAIN cut = {s \in DOMAIN bs : from <= s /\ s <= to} /\ \A s \in DOMAIN cut : cut[s] = bs[s]
  BY DEF Within, Restrict
<1>3. last \in Nat /\ last <= to
  BY <1>1 DEF ScanEnd, IsRule
<1> HIDE DEF cut, last
<1>4. Window(cut, e, last) = w
  <2>1. ASSUME NEW s \in Window(cut, e, last) PROVE s \in w
    BY <1>2 DEF Window
  <2>2. ASSUME NEW s \in w PROVE s \in Window(cut, e, last)
    <3>1. s \in DOMAIN bs /\ s \in Nat /\ e < s /\ s <= last
      BY <1>1 DEF Window
    <3>2. from <= s /\ s <= to
      BY <1>1, <1>3, <3>1
    <3> QED
      BY <1>2, <3>1, <3>2 DEF Window
  <2> QED
    BY <2>1, <2>2
<1>5. w \subseteq DOMAIN cut /\ \A s \in w : cut[s] = bs[s]
  BY <1>2, <1>4 DEF Window
<1>6. cut[e] = bs[e]
  BY <1>1, <1>2
<1>7. ProfitBars(cut, e, dir, r, to) = ProfitBars(bs, e, dir, r, to)
  <2>1. ProfitBars(cut, e, dir, r, to) =
           {s \in w : Best(dir, cut[s]) >= Signed(dir, bs[e].close) + r.tp}
    BY <1>4, <1>6 DEF ProfitBars, last
  <2>2. ProfitBars(bs, e, dir, r, to) =
           {s \in w : Best(dir, bs[s]) >= Signed(dir, bs[e].close) + r.tp}
    BY DEF ProfitBars, last
  <2> HIDE DEF w
  <2> QED
    BY <1>5, <2>1, <2>2
<1>8. StopBars(cut, e, dir, r, to) = StopBars(bs, e, dir, r, to)
  <2>1. StopBars(cut, e, dir, r, to) =
           {s \in w : Worst(dir, cut[s]) <= Signed(dir, bs[e].close) - r.sl}
    BY <1>4, <1>6 DEF StopBars, last
  <2>2. StopBars(bs, e, dir, r, to) =
           {s \in w : Worst(dir, bs[s]) <= Signed(dir, bs[e].close) - r.sl}
    BY DEF StopBars, last
  <2> HIDE DEF w
  <2> QED
    BY <1>5, <2>1, <2>2
<1>9. Timeout(cut, e, last) = Timeout(bs, e, last)
  <2>1. CASE w = {}
    BY <1>4, <1>6, <2>1 DEF Timeout
  <2>2. CASE w # {}
    <3>1. Max(w) \in w
      <4>1. \A s \in w : s \in Nat /\ s <= last
        BY <1>1 DEF Window
      <4> QED
        BY <1>3, <2>2, <4>1, MaxIsGreatest
    <3>2. cut[Max(w)] = bs[Max(w)]
      BY <1>5, <3>1
    <3> QED
      BY <1>4, <2>2, <3>2 DEF Timeout
  <2> QED
    BY <2>1, <2>2
<1> QED
  BY <1>6, <1>7, <1>8, <1>9 DEF PriceExit, cut, last

\* Runs over bars that agree where the signals are.
LEMMA SameRuns ==
    ASSUME NEW a, NEW b, NEW ss, NEW n \in Nat, DOMAIN ss \subseteq 0 .. n,
           \A e \in DOMAIN ss : a[e] = b[e], NEW exits, NEW from, NEW to
    PROVE  RunSignals(a, ss, exits, from, to) = RunSignals(b, ss, exits, from, to)
<1> DEFINE D == DOMAIN ss
           A == Done(a, ss, exits, from, to)
           B == Done(b, ss, exits, from, to)
           G == {S \in SUBSET D : A[S] = B[S]}
<1>1. {} \in G
  BY DoneIs
<1>2. ASSUME NEW S \in SUBSET D, S # {}, S \ {Max(S)} \in G PROVE S \in G
  <2>1. A[S] = TakeSignal(a, ss, exits, from, to, Max(S), A[S \ {Max(S)}])
    BY <1>2, DoneIs
  <2>2. B[S] = TakeSignal(b, ss, exits, from, to, Max(S), B[S \ {Max(S)}])
    BY <1>2, DoneIs
  <2>3. Max(S) \in D
    <3>1. S \subseteq Nat /\ \A y \in S : y <= n
      OBVIOUS
    <3> QED
      BY <1>2, <3>1, MaxIsGreatest
  <2>4. a[Max(S)] = b[Max(S)]
    BY <2>3
  <2> QED
    BY <1>2, <2>1, <2>2, <2>4 DEF TakeSignal, Taken
<1> HIDE DEF A, B
<1>3. SUBSET D \subseteq G
  <2> HIDE DEF G, D
  <2>1. D \subseteq 0 .. n
    BY DEF D
  <2> QED
    BY <1>1, <1>2, <2>1, SignalInduction
<1>4. A[D] = B[D]
  BY <1>3
<1> QED
  BY <1>4, RunSignalsIs DEF A, B
-----------------------------------------------------------------------------
(* The trades and the metrics of an evaluation.                            *)

\* The trades of a run over one part of the data lie in that part, take no more time
\* than there is, and are the same when nothing but the part has been recorded.
LEMMA TradesOfPart ==
    ASSUME NEW bs, IsBars(bs), NEW n \in Nat, DOMAIN bs \subseteq 0 .. n,
           NEW marks, DOMAIN marks \subseteq DOMAIN bs,
           marks \in [DOMAIN marks -> {Buy, Sell, 0}],
           NEW r, IsRule(r), NEW from \in Nat, NEW to \in Nat
    PROVE  LET part == Part(marks, from, to)
               cut == Part(Within(marks, from, to), from, to)
               made == RunBacktest(bs, part, <<>>, r, from, to)
           IN  /\ made \in Seq(Inside(from, to))
               /\ TimeInPosition(made, from, to) <= Later(0, to - from)
               /\ RunBacktest(Within(bs, from, to), cut, <<>>, r, from, to) = made
               /\ cut = part
<1> DEFINE part == Part(marks, from, to)
           here == Within(bs, from, to)
           exits == [e \in DOMAIN part |-> Exit(bs, <<>>, e, part[e], r, to)]
           exitsHere == [e \in DOMAIN part |-> Exit(here, <<>>, e, part[e], r, to)]
           made == RunBacktest(bs, part, <<>>, r, from, to)
<1>1. /\ DOMAIN part = {s \in DOMAIN marks : from <= s /\ s <= to /\ marks[s] # 0}
      /\ \A s \in DOMAIN part : part[s] = marks[s]
      /\ Part(Within(marks, from, to), from, to) = part
  BY PartIs
<1>2. ASSUME NEW e \in DOMAIN part
      PROVE  e \in DOMAIN bs /\ e \in Nat /\ from <= e /\ e <= to /\ part[e] \in {1, -1}
  <2>1. part[e] = marks[e] /\ marks[e] \in {Buy, Sell, 0} /\ marks[e] # 0
    BY <1>1
  <2> QED
    BY <1>1, <2>1 DEF IsBars, Buy, Sell
<1>3. \A rules \in {[e \in DOMAIN part |-> r]} : \A e \in DOMAIN part : rules[e] = r
  OBVIOUS
<1>4. made = RunSignals(bs, part, exits, from, to)
  BY DEF RunBacktest, RunBacktestBy
<1>5. RunBacktest(here, part, <<>>, r, from, to) = RunSignals(here, part, exitsHere, from, to)
  BY DEF RunBacktest, RunBacktestBy
<1>6. DOMAIN part \subseteq DOMAIN bs /\ DOMAIN part \subseteq 0 .. n
  BY <1>2
<1>7. exitsHere = exits
  <2>1. ASSUME NEW e \in DOMAIN part
        PROVE  Exit(here, <<>>, e, part[e], r, to) = Exit(bs, <<>>, e, part[e], r, to)
    BY <1>2, ExitWithin, ExitWithoutScores
  <2> HIDE DEF part, here
  <2> QED
    BY <2>1
<1>8. Ends(part, exits, from, to)
  <2> SUFFICES ASSUME NEW e \in DOMAIN part
               PROVE  /\ part[e] \in {1, -1} /\ from <= e
                      /\ exits[e] \in AnyExit /\ e <= exits[e].ts /\ exits[e].ts <= to
    BY DEF Ends
  <2>1. ScoresFit(bs, <<>>)
    BY DEF ScoresFit
  <2>2. /\ ScanEnd(e, r, to) \in Nat /\ e <= ScanEnd(e, r, to) /\ ScanEnd(e, r, to) <= to
    BY <1>2 DEF ScanEnd, IsRule
  <2> DEFINE exit == Exit(bs, <<>>, e, part[e], r, to)
  <2>3. exit \in AnyExit /\ e <= exit.ts /\ exit.ts <= ScanEnd(e, r, to)
    <3> DEFINE dir == part[e]
    <3>1. dir \in {1, -1} /\ e \in DOMAIN bs
      BY <1>2
    <3> HIDE DEF dir, part
    <3> QED
      BY <2>1, <2>2, <3>1, ExitIs DEF dir
  <2>4. exits[e] = exit
    OBVIOUS
  <2>5. exit.ts \in Nat
    BY <2>3 DEF AnyExit
  <2> HIDE DEF exit, exits, part
  <2>6. exits[e] \in AnyExit /\ e <= exits[e].ts /\ exits[e].ts <= to
    BY <1>2, <2>2, <2>3, <2>4, <2>5
  <2> QED
    BY <1>2, <2>6
<1>9. Tidy(Done(bs, part, exits, from, to)[DOMAIN part], from, to)
  <2> HIDE DEF part, exits
  <2> QED
    BY <1>6, <1>8, RunIsTidy
<1>10. made \in Seq(Inside(from, to)) /\ TimeInPosition(made, from, to) <= Later(0, to - from)
  <2> DEFINE done == Done(bs, part, exits, from, to)[DOMAIN part]
  <2>1. made = done.trades
    BY <1>4, RunSignalsIs
  <2> HIDE DEF done
  <2>2. /\ done.trades \in Seq(Inside(from, to)) /\ done.lastExit \in Int /\ done.lastExit <= to
        /\ TimeInPosition(done.trades, from, to) <= Later(0, done.lastExit - from)
    BY <1>9 DEF Tidy, done
  <2>3. TimeInPosition(done.trades, from, to) \in Int
    BY <2>2, TimeOfTrades
  <2>4. TimeInPosition(done.trades, from, to) <= Later(0, to - from)
    BY <2>2, <2>3 DEF Later
  <2> HIDE DEF made
  <2> QED
    BY <2>1, <2>2, <2>4
<1>11. RunSignals(here, part, exits, from, to) = RunSignals(bs, part, exits, from, to)
  <2>1. \A e \in DOMAIN part : here[e] = bs[e]
    BY <1>2 DEF Within, Restrict
  <2> HIDE DEF here, part, exits
  <2> QED
    BY <1>6, <2>1, SameRuns
<1> QED
  BY <1>1, <1>4, <1>5, <1>7, <1>10, <1>11
-----------------------------------------------------------------------------
(* The equity of the trades, point after point.                            *)

Point == [eq : Int, peak : Int, dd : Int]

Origin == [eq |-> 0, peak |-> 0, dd |-> 0]

NextPoint(a, p) ==
    [eq |-> a.eq + p, peak |-> Later(a.peak, a.eq + p), dd |-> Later(a.dd, a.peak - (a.eq + p))]

Curve(pnls) == FoldLeft(NextPoint, Origin, pnls)

LEMMA DrawdownIs ==
    ASSUME NEW pnls
    PROVE  MaxDrawdown(pnls) = Curve(pnls).dd
BY DEF MaxDrawdown, Curve, NextPoint, Origin

LEMMA NextPointIs ==
    \A a \in Point, p \in Int : NextPoint(a, p) \in Point
BY DEF NextPoint, Point, Later

\* The recursive function that Curve unfolds to.
CurveSteps(s) ==
    CHOOSE g : g = [S \in SUBSET DOMAIN s |->
                       IF S = {} THEN Origin ELSE NextPoint(g[S \ {Max(S)}], s[Max(S)])]

LEMMA CurveUnfolds ==
    ASSUME NEW s
    PROVE  Curve(s) = CurveSteps(s)[DOMAIN s]
BY DEF Curve, FoldLeft, MapThenFoldSet, CurveSteps

LEMMA CurveStepsAre ==
    ASSUME NEW s \in Seq(Int)
    PROVE  \A S \in SUBSET DOMAIN s :
              /\ CurveSteps(s)[S] \in Point
              /\ CurveSteps(s)[S] =
                    IF S = {} THEN Origin ELSE NextPoint(CurveSteps(s)[S \ {Max(S)}], s[Max(S)])
<1> DEFINE D == DOMAIN s
           step == [p \in D \X Point |-> NextPoint(p[2], s[p[1]])]
<1>1. D \subseteq 0 .. Len(s) /\ Len(s) \in Nat /\ \A i \in D : s[i] \in Int
  OBVIOUS
<1>2. step \in [D \X Point -> Point]
  BY <1>1, NextPointIs
<1>3. PICK h \in [SUBSET D -> Point] : Steps(h, D, Origin, step)
  <2>1. Origin \in Point
    BY DEF Origin, Point
  <2> HIDE DEF step, D
  <2> QED
    BY <1>1, <1>2, <2>1, StepsExist
<1>4. \A S \in SUBSET D : S # {} => Max(S) \in S
  <2> TAKE S \in SUBSET D
  <2> HAVE S # {}
  <2>1. S \subseteq Nat /\ \A y \in S : y <= Len(s)
    OBVIOUS
  <2> QED
    BY <1>1, <2>1, MaxIsGreatest
<1>5. ASSUME NEW S \in SUBSET D
      PROVE  h[S] = IF S = {} THEN Origin ELSE NextPoint(h[S \ {Max(S)}], s[Max(S)])
  <2>1. CASE S = {}
    BY <1>3, <2>1 DEF Steps
  <2>2. CASE S # {}
    <3>1. Max(S) \in D /\ h[S \ {Max(S)}] \in Point
      BY <1>3, <1>4, <2>2
    <3>2. h[S] = step[<<Max(S), h[S \ {Max(S)}]>>]
      BY <1>3, <2>2 DEF Steps
    <3>3. <<Max(S), h[S \ {Max(S)}]>> \in D \X Point
      BY <3>1
    <3> QED
      BY <2>2, <3>2, <3>3
  <2> QED
    BY <2>1, <2>2
<1>6. h = [S \in SUBSET D |-> IF S = {} THEN Origin ELSE NextPoint(h[S \ {Max(S)}], s[Max(S)])]
  BY <1>5
<1>7. CurveSteps(s) = [S \in SUBSET D |-> IF S = {} THEN Origin
                        ELSE NextPoint(CurveSteps(s)[S \ {Max(S)}], s[Max(S)])]
  BY <1>6 DEF CurveSteps
<1> DEFINE g == CurveSteps(s)
<1> HIDE DEF g, step
<1>8. \A S \in SUBSET D : g[S] = IF S = {} THEN Origin ELSE NextPoint(g[S \ {Max(S)}], s[Max(S)])
  BY <1>7 DEF g
<1> DEFINE G == {S \in SUBSET D : g[S] \in Point}
<1>9. {} \in G
  <2>1. {} \in SUBSET D
    OBVIOUS
  <2>2. g[{}] = Origin
    BY <1>8, <2>1
  <2> QED
    BY <2>1, <2>2 DEF Origin, Point
<1>10. \A S \in SUBSET D : S # {} /\ S \ {Max(S)} \in G => S \in G
  <2> TAKE S \in SUBSET D
  <2> HAVE S # {} /\ S \ {Max(S)} \in G
  <2>1. s[Max(S)] \in Int /\ g[S \ {Max(S)}] \in Point
    BY <1>1, <1>4
  <2>2. g[S] = NextPoint(g[S \ {Max(S)}], s[Max(S)])
    BY <1>8
  <2>3. g[S] \in Point
    BY <2>1, <2>2, NextPointIs
  <2> QED
    BY <2>3
<1>11. SUBSET D \subseteq G
  <2> HIDE DEF G, D
  <2> QED
    BY <1>1, <1>9, <1>10, SignalInduction
<1> QED
  BY <1>8, <1>11 DEF g

\* A trade leads from one point to the next.
LEMMA CurveAppend ==
    /\ Curve(<<>>) = Origin
    /\ \A s \in Seq(Int), e \in Int :
          Curve(s) \in Point /\ Curve(Append(s, e)) = NextPoint(Curve(s), e)
<1>1. Curve(<<>>) = Origin
  <2>1. <<>> \in Seq(Int) /\ DOMAIN (<<>>) = {}
    OBVIOUS
  <2>2. CurveSteps(<<>>)[{}] = Origin
    BY <2>1, CurveStepsAre
  <2> QED
    BY <2>1, <2>2, CurveUnfolds
<1>2. ASSUME NEW s \in Seq(Int), NEW e \in Int
      PROVE  Curve(s) \in Point /\ Curve(Append(s, e)) = NextPoint(Curve(s), e)
  <2> DEFINE t == Append(s, e)
             D == DOMAIN s
             g == CurveSteps(s)
             h == CurveSteps(t)
             m == Len(s) + 1
  <2>1. t \in Seq(Int) /\ D = 1 .. Len(s) /\ DOMAIN t = 1 .. m /\ t[m] = e
        /\ \A i \in D : t[i] = s[i]
    OBVIOUS
  <2>2. \A S \in SUBSET D : /\ g[S] \in Point
                            /\ g[S] = IF S = {} THEN Origin ELSE NextPoint(g[S \ {Max(S)}], s[Max(S)])
    BY CurveStepsAre
  <2>3. \A S \in SUBSET DOMAIN t :
           h[S] = IF S = {} THEN Origin ELSE NextPoint(h[S \ {Max(S)}], t[Max(S)])
    BY <2>1, CurveStepsAre
  <2> HIDE DEF t, g, h
  <2> DEFINE G == {S \in SUBSET D : g[S] = h[S]}
  <2>4. D \subseteq 0 .. Len(s) /\ Len(s) \in Nat /\ D \subseteq DOMAIN t
    BY <2>1
  <2>5. {} \in G
    BY <2>2, <2>3, <2>4
  <2>6. \A S \in SUBSET D : S # {} /\ S \ {Max(S)} \in G => S \in G
    <3> TAKE S \in SUBSET D
    <3> HAVE S # {} /\ S \ {Max(S)} \in G
    <3>1. Max(S) \in S
      <4>1. S \subseteq Nat /\ \A y \in S : y <= Len(s)
        BY <2>4
      <4> QED
        BY <2>4, <4>1, MaxIsGreatest
    <3>2. t[Max(S)] = s[Max(S)] /\ S \in SUBSET DOMAIN t
      BY <2>1, <2>4, <3>1
    <3> QED
      BY <2>2, <2>3, <3>2
  <2>7. SUBSET D \subseteq G
    <3>1. D \subseteq 0 .. Len(s) /\ Len(s) \in Nat
      BY <2>4
    <3> HIDE DEF G, D, m
    <3> QED
      BY <3>1, <2>5, <2>6, SignalInduction
  <2>8. Max(1 .. m) = m /\ (1 .. m) \ {m} = D
    <3>1. 1 .. m \subseteq Int /\ m \in 1 .. m /\ \A y \in 1 .. m : y <= m
      BY <2>4
    <3>2. Max(1 .. m) = m
      BY <3>1, GreatestIs
    <3> QED
      BY <2>1, <3>2
  <2>9. h[1 .. m] = NextPoint(h[D], e)
    <3>1. 1 .. m # {} /\ 1 .. m \in SUBSET DOMAIN t
      BY <2>1, <2>4
    <3> HIDE DEF m
    <3>2. h[1 .. m] = NextPoint(h[(1 .. m) \ {Max(1 .. m)}], t[Max(1 .. m)])
      BY <2>3, <3>1
    <3> QED
      BY <2>1, <2>8, <3>2
  <2>10. h[D] = g[D] /\ g[D] \in Point
    BY <2>2, <2>7
  <2>11. Curve(s) = g[D] /\ Curve(t) = h[1 .. m]
    BY <2>1, CurveUnfolds DEF g, h
  <2> QED
    BY <2>9, <2>10, <2>11 DEF t
<1> QED
  BY <1>1, <1>2

\* The equity up to a trade.
EquityAt(s, n) == Sum(SubSeq(s, 1, n))

\* The points of a curve: the equity, its greatest value and its greatest fall so far,
\* of one that begins with zero.
IsCurve(s) ==
    LET a == Curve(s) IN
    /\ a \in Point /\ a.eq = Sum(s)
    /\ \A p \in 0 .. Len(s) : EquityAt(s, p) \in Int /\ EquityAt(s, p) <= a.peak
    /\ \E p \in 0 .. Len(s) : a.peak = EquityAt(s, p)
    /\ \A p \in 0 .. Len(s), q \in 0 .. Len(s) : p <= q => EquityAt(s, p) - EquityAt(s, q) <= a.dd
    /\ \E p \in 0 .. Len(s), q \in 0 .. Len(s) : p <= q /\ a.dd = EquityAt(s, p) - EquityAt(s, q)

LEMMA CurvesAre ==
    \A s \in Seq(Int) : IsCurve(s)
<1> DEFINE G == {s \in Seq(Int) : IsCurve(s)}
<1>1. <<>> \in G
  <2>1. EquityAt(<<>>, 0) = 0
    <3>1. SubSeq(<<>>, 1, 0) = <<>>
      BY SubSeqEmpty
    <3> QED
      BY <3>1, SumAppend DEF EquityAt
  <2>2. Curve(<<>>) = Origin /\ Sum(<<>>) = 0 /\ Len(<<>>) = 0 /\ <<>> \in Seq(Int)
    BY CurveAppend, SumAppend
  <2>3. 0 .. Len(<<>>) = {0}
    BY <2>2
  <2>4. /\ Origin \in Point /\ Origin.eq = 0 /\ Origin.peak = 0 /\ Origin.dd = 0
    BY DEF Origin, Point
  <2>5. IsCurve(<<>>)
    BY <2>1, <2>2, <2>3, <2>4 DEF IsCurve
  <2> QED
    BY <2>2, <2>5
<1>2. ASSUME NEW s \in Seq(Int), NEW e \in Int, s \in G PROVE Append(s, e) \in G
  <2> DEFINE t == Append(s, e)
             n == Len(s)
             a == Curve(s)
             b == Curve(t)
  <2>1. t \in Seq(Int) /\ n \in Nat /\ Len(t) = n + 1
    OBVIOUS
  <2>2. IsCurve(s)
    BY <1>2
  <2>3. ASSUME NEW p \in 0 .. n PROVE EquityAt(t, p) = EquityAt(s, p)
    <3>1. SubSeq(t, 1, p) = SubSeq(s, 1, p)
      <4>1. \A i \in 1 .. p : s[i] \in Int /\ t[i] \in Int /\ t[i] = s[i]
        BY <2>1
      <4>2. /\ SubSeq(s, 1, p) \in Seq(Int) /\ Len(SubSeq(s, 1, p)) = p
            /\ \A i \in 1 .. p : SubSeq(s, 1, p)[i] = s[i]
        BY <4>1, SubSeqProperties
      <4>3. /\ SubSeq(t, 1, p) \in Seq(Int) /\ Len(SubSeq(t, 1, p)) = p
            /\ \A i \in 1 .. p : SubSeq(t, 1, p)[i] = t[i]
        BY <4>1, SubSeqProperties
      <4> QED
        BY <4>1, <4>2, <4>3, SeqEqual
    <3> QED
      BY <3>1 DEF EquityAt
  <2>4. EquityAt(t, n + 1) = Sum(s) + e /\ Sum(s) \in Int
    <3>1. SubSeq(t, 1, n + 1) = t
      BY <2>1, SubSeqFull
    <3> QED
      BY <3>1, SumAppend DEF EquityAt
  <2>5. a \in Point /\ b = NextPoint(a, e) /\ b \in Point /\ Sum(t) = Sum(s) + e
    BY CurveAppend, SumAppend, NextPointIs
  <2> HIDE DEF a, b, t
  <2>6. /\ a.eq = Sum(s) /\ a.eq \in Int /\ a.peak \in Int /\ a.dd \in Int
        /\ \A p \in 0 .. n : EquityAt(s, p) \in Int /\ EquityAt(s, p) <= a.peak
        /\ \E p \in 0 .. n : a.peak = EquityAt(s, p)
        /\ \A p \in 0 .. n, q \in 0 .. n : p <= q => EquityAt(s, p) - EquityAt(s, q) <= a.dd
        /\ \E p \in 0 .. n, q \in 0 .. n : p <= q /\ a.dd = EquityAt(s, p) - EquityAt(s, q)
    BY <2>2, <2>5 DEF IsCurve, a, Point
  <2>7. /\ b.eq = a.eq + e /\ b.peak = Later(a.peak, a.eq + e)
        /\ b.dd = Later(a.dd, a.peak - (a.eq + e))
    BY <2>5 DEF NextPoint
  <2> DEFINE At(p) == EquityAt(t, p)
  <2>8. /\ At(n + 1) = a.eq + e /\ At(n + 1) \in Int
        /\ \A p \in 0 .. n : At(p) \in Int /\ At(p) <= a.peak
        /\ \E p \in 0 .. n : a.peak = At(p)
        /\ \A p \in 0 .. n, q \in 0 .. n : p <= q => At(p) - At(q) <= a.dd
        /\ \E p \in 0 .. n, q \in 0 .. n : p <= q /\ a.dd = At(p) - At(q)
    BY <2>3, <2>4, <2>6
  <2> HIDE DEF At
  <2>9. \A p \in 0 .. n + 1 : p = n + 1 \/ p \in 0 .. n
    BY <2>1
  <2>10. 0 .. n \subseteq 0 .. n + 1 /\ n + 1 \in 0 .. n + 1 /\ \A p \in 0 .. n : p <= n + 1 /\ ~(n + 1 <= p)
    BY <2>1
  <2>11. ASSUME NEW p \in 0 .. n + 1 PROVE At(p) \in Int /\ At(p) <= b.peak
    <3>1. a.peak \in Int /\ a.eq + e \in Int
      BY <2>6
    <3>2. b.peak \in Int /\ a.peak <= b.peak /\ a.eq + e <= b.peak
      BY <2>7, <3>1 DEF Later
    <3>3. CASE p = n + 1
      BY <2>8, <3>2, <3>3
    <3>4. CASE p \in 0 .. n
      <4>1. At(p) \in Int /\ At(p) <= a.peak
        BY <2>8, <3>4
      <4> QED
        BY <3>1, <3>2, <4>1
    <3> QED
      BY <2>9, <3>3, <3>4
  <2>12. \E p \in 0 .. n + 1 : b.peak = At(p)
    BY <2>6, <2>7, <2>8, <2>10 DEF Later
  <2>13. ASSUME NEW p \in 0 .. n + 1, NEW q \in 0 .. n + 1, p <= q PROVE At(p) - At(q) <= b.dd
    <3>1. b.dd \in Int /\ a.dd <= b.dd /\ a.peak - (a.eq + e) <= b.dd /\ 0 <= b.dd
      <4>1. 0 <= a.dd
        <5>1. 0 \in 0 .. n /\ At(0) \in Int
          BY <2>1, <2>8
        <5>2. At(0) - At(0) <= a.dd
          BY <2>8, <5>1
        <5> QED
          BY <5>1, <5>2
      <4> QED
        BY <2>6, <2>7, <4>1 DEF Later
    <3> DEFINE z == At(p)
               y == At(q)
    <3>5. a.dd \in Int /\ a.peak \in Int /\ a.eq + e \in Int
      BY <2>6
    <3>2. CASE p \in 0 .. n /\ q \in 0 .. n
      <4>1. z \in Int /\ y \in Int /\ z - y <= a.dd
        BY <2>8, <2>13, <3>2
      <4> HIDE DEF z, y
      <4>2. z - y <= b.dd
        BY <3>1, <3>5, <4>1
      <4> QED
        BY <4>2 DEF z, y
    <3>3. CASE p \in 0 .. n /\ q = n + 1
      <4>1. z \in Int /\ z <= a.peak /\ y = a.eq + e
        BY <2>8, <3>3
      <4> HIDE DEF z, y
      <4>2. z - y <= b.dd
        BY <3>1, <3>5, <4>1
      <4> QED
        BY <4>2 DEF z, y
    <3>4. CASE p = n + 1 /\ q = n + 1
      BY <2>8, <3>1, <3>4
    <3> QED
      BY <2>9, <2>10, <2>13, <3>2, <3>3, <3>4
  <2>14. \E p \in 0 .. n + 1, q \in 0 .. n + 1 : p <= q /\ b.dd = At(p) - At(q)
    <3>1. CASE a.dd < a.peak - (a.eq + e)
      <4>1. PICK p \in 0 .. n : a.peak = At(p)
        BY <2>8
      <4>2. b.dd = At(p) - At(n + 1)
        BY <2>7, <2>8, <3>1, <4>1 DEF Later
      <4> QED
        BY <2>10, <4>2
    <3>2. CASE ~(a.dd < a.peak - (a.eq + e))
      <4>1. b.dd = a.dd
        BY <2>7, <3>2 DEF Later
      <4>2. PICK p \in 0 .. n, q \in 0 .. n : p <= q /\ a.dd = At(p) - At(q)
        BY <2>8
      <4> QED
        BY <2>10, <4>1, <4>2
    <3> QED
      BY <3>1, <3>2
  <2>15. IsCurve(t)
    BY <2>1, <2>5, <2>6, <2>7, <2>11, <2>12, <2>13, <2>14 DEF IsCurve, b, At
  <2> QED
    BY <2>1, <2>15 DEF t
<1>3. Seq(Int) \subseteq G
  <2> HIDE DEF G
  <2> QED
    BY <1>1, <1>2, SeqInduction
<1> QED
  BY <1>3
-----------------------------------------------------------------------------
(* The metrics, and the order of their values.                             *)

Squares(s) == [n \in DOMAIN s |-> s[n] * s[n]]

LEMMA SquaresAppend ==
    ASSUME NEW s \in Seq(Int), NEW e \in Int
    PROVE  Squares(s) \in Seq(Int) /\ Squares(Append(s, e)) = Append(Squares(s), e * e)
<1> DEFINE a == Squares(Append(s, e))
           b == Append(Squares(s), e * e)
<1>1. /\ Len(s) \in Nat /\ DOMAIN s = 1 .. Len(s)
      /\ \A n \in 1 .. Len(s) : s[n] \in Int /\ Append(s, e)[n] = s[n]
      /\ DOMAIN Append(s, e) = 1 .. Len(s) + 1 /\ Append(s, e)[Len(s) + 1] = e
  OBVIOUS
<1>2. e * e \in Int /\ \A n \in 1 .. Len(s) : s[n] * s[n] \in Int
  BY <1>1
<1>3. /\ Squares(s) \in Seq(Int) /\ Len(Squares(s)) = Len(s)
      /\ \A n \in 1 .. Len(s) : Squares(s)[n] = s[n] * s[n]
  BY <1>1, <1>2 DEF Squares
<1>4. /\ a \in Seq(Int) /\ Len(a) = Len(s) + 1 /\ a[Len(s) + 1] = e * e
      /\ \A n \in 1 .. Len(s) : a[n] = s[n] * s[n]
  <2>1. \A n \in 1 .. Len(s) + 1 : Append(s, e)[n] * Append(s, e)[n] \in Int
    <3>1. \A n \in 1 .. Len(s) + 1 : Append(s, e)[n] \in Int
      OBVIOUS
    <3> QED
      BY <3>1
  <2> QED
    BY <1>1, <2>1 DEF Squares
<1>5. /\ b \in Seq(Int) /\ Len(b) = Len(s) + 1 /\ b[Len(s) + 1] = e * e
      /\ \A n \in 1 .. Len(s) : b[n] = s[n] * s[n]
  BY <1>2, <1>3, AppendProperties
<1> HIDE DEF a, b
<1>6. \A n \in 1 .. Len(s) + 1 : n = Len(s) + 1 \/ n \in 1 .. Len(s)
  BY <1>1
<1>7. \A n \in 1 .. Len(s) + 1 : a[n] = b[n]
  BY <1>4, <1>5, <1>6
<1>8. a = b
  BY <1>4, <1>5, <1>7, SeqEqual
<1> QED
  BY <1>3, <1>8 DEF a, b

\* The sum of the squared distances from any number is not negative, nor is what the
\* Sharpe ratio divides by.
IsSpread(s) ==
    /\ Sum(s) \in Int /\ Sum(Squares(s)) \in Int
    /\ \A z \in Int : Sum(Squares(s)) - 2 * z * Sum(s) + Len(s) * (z * z) >= 0
    /\ Len(s) * Sum(Squares(s)) - Sum(s) * Sum(s) >= 0

LEMMA OneMoreDistance ==
    ASSUME NEW sum \in Int, NEW sq \in Int, NEW n \in Int, NEW e \in Int, NEW z \in Int
    PROVE  (sq + e * e) - 2 * z * (sum + e) + (n + 1) * (z * z)
              = (sq - 2 * z * sum + n * (z * z)) + (e - z) * (e - z)
OBVIOUS

LEMMA SpreadsAre ==
    \A s \in Seq(Int) : IsSpread(s)
<1> DEFINE G == {s \in Seq(Int) : IsSpread(s)}
<1>1. <<>> \in G
  <2>1. Squares(<<>>) = <<>> /\ Len(<<>>) = 0 /\ Sum(<<>>) = 0 /\ <<>> \in Seq(Int)
    BY SumAppend DEF Squares
  <2> QED
    BY <2>1 DEF IsSpread
<1>2. ASSUME NEW s \in Seq(Int), NEW e \in Int, s \in G PROVE Append(s, e) \in G
  <2> DEFINE t == Append(s, e)
             n == Len(s)
             sum == Sum(s)
             sq == Sum(Squares(s))
  <2>1. t \in Seq(Int) /\ n \in Nat /\ Len(t) = n + 1
    OBVIOUS
  <2>2. /\ sum \in Int /\ sq \in Int
        /\ \A z \in Int : sq - 2 * z * sum + n * (z * z) >= 0
        /\ n * sq - sum * sum >= 0
    BY <1>2 DEF IsSpread
  <2>3. Sum(t) = sum + e /\ Sum(Squares(t)) = sq + e * e
    <3>1. e * e \in Int
      OBVIOUS
    <3> QED
      BY <3>1, SquaresAppend, SumAppend
  <2> HIDE DEF t, n, sum, sq
  <2>4. ASSUME NEW z \in Int
        PROVE  (sq + e * e) - 2 * z * (sum + e) + (n + 1) * (z * z) >= 0
    <3>1. sq - 2 * z * sum + n * (z * z) >= 0
      BY <2>2
    <3>2. (e - z) * (e - z) >= 0
      OBVIOUS
    <3>3. (sq + e * e) - 2 * z * (sum + e) + (n + 1) * (z * z)
             = (sq - 2 * z * sum + n * (z * z)) + (e - z) * (e - z)
      <4>1. sum \in Int /\ sq \in Int /\ n \in Int
        BY <2>1, <2>2
      <4> QED
        BY <4>1, OneMoreDistance
    <3> DEFINE u == sq - 2 * z * sum + n * (z * z)
               v == (e - z) * (e - z)
    <3>4. u \in Int /\ v \in Int
      BY <2>1, <2>2
    <3> HIDE DEF u, v
    <3> QED
      BY <3>1, <3>2, <3>3, <3>4 DEF u, v
  <2>5. (n + 1) * (sq + e * e) - (sum + e) * (sum + e) >= 0
    <3>1. sq - 2 * e * sum + n * (e * e) >= 0
      BY <2>2
    <3>2. (n + 1) * (sq + e * e) - (sum + e) * (sum + e)
             = (n * sq - sum * sum) + (sq - 2 * e * sum + n * (e * e))
      BY <2>1, <2>2
    <3> DEFINE u == n * sq - sum * sum
               v == sq - 2 * e * sum + n * (e * e)
    <3>3. u \in Int /\ v \in Int
      BY <2>1, <2>2
    <3>4. u >= 0 /\ v >= 0
      BY <2>2, <3>1
    <3> HIDE DEF u, v
    <3>5. u + v >= 0
      BY <3>3, <3>4
    <3> QED
      BY <3>2, <3>5 DEF u, v
  <2>6. sum + e \in Int /\ sq + e * e \in Int
    BY <2>2
  <2>7. IsSpread(t)
    BY <2>1, <2>3, <2>4, <2>5, <2>6 DEF IsSpread
  <2> QED
    BY <2>1, <2>7 DEF t
<1>3. Seq(Int) \subseteq G
  <2> HIDE DEF G
  <2> QED
    BY <1>1, <1>2, SeqInduction
<1> QED
  BY <1>3

LEMMA PnlsAre ==
    ASSUME NEW made \in Seq(AnyTrade)
    PROVE  Pnls(made) \in Seq(Int) /\ Len(Pnls(made)) = Len(made)
<1>1. \A t \in AnyTrade : Pnl(t) \in Int
  <2> TAKE t \in AnyTrade
  <2>1. t.side \in {1, -1} /\ t.exitPx \in Int /\ t.entryPx \in Int /\ Fee \in Int
    BY BacktestAssumption DEF AnyTrade
  <2> QED
    BY <2>1 DEF Pnl
<1>2. \A n \in 1 .. Len(made) : made[n] \in AnyTrade
  OBVIOUS
<1> QED
  BY <1>1, <1>2 DEF Pnls

\* What the objectives divide.
IsMetrics(m) ==
    /\ m.n \in Nat /\ m.net \in Int /\ m.squares \in Int /\ m.wins \in Nat
    /\ m.profit \in Int /\ m.loss \in Int /\ m.drawdown \in Nat
    /\ m.n * m.squares - m.net * m.net >= 0

LEMMA MetricsAre ==
    ASSUME NEW made \in Seq(AnyTrade), NEW marks, NEW from, NEW to
    PROVE  IsMetrics(Metrics(made, marks, from, to))
<1> DEFINE m == Metrics(made, marks, from, to)
           pnls == Pnls(made)
<1>1. /\ m.n = Len(made) /\ m.net = Sum(pnls) /\ m.squares = Sum(Squares(pnls))
      /\ m.wins = Cardinality({n \in DOMAIN pnls : pnls[n] > 0})
      /\ m.profit = Sum([n \in DOMAIN pnls |-> Later(0, pnls[n])])
      /\ m.loss = Sum([n \in DOMAIN pnls |-> Later(0, -pnls[n])])
      /\ m.drawdown = MaxDrawdown(pnls)
  BY DEF Metrics, Squares
<1>2. pnls \in Seq(Int) /\ Len(pnls) = Len(made) /\ Len(made) \in Nat
  BY PnlsAre
<1> HIDE DEF m, pnls
<1>3. \A n \in 1 .. Len(pnls) : pnls[n] \in Int
  BY <1>2
<1>4. /\ [n \in DOMAIN pnls |-> Later(0, pnls[n])] \in Seq(Int)
      /\ [n \in DOMAIN pnls |-> Later(0, -pnls[n])] \in Seq(Int)
  <2>1. \A n \in 1 .. Len(pnls) : Later(0, pnls[n]) \in Int /\ Later(0, -pnls[n]) \in Int
    BY <1>3 DEF Later
  <2>2. DOMAIN pnls = 1 .. Len(pnls) /\ Len(pnls) \in Nat
    BY <1>2
  <2> QED
    BY <2>1, <2>2
<1>5. m.profit \in Int /\ m.loss \in Int
  BY <1>1, <1>4, SumAppend
<1>6. m.wins \in Nat
  <2>1. IsFiniteSet(1 .. Len(pnls))
    BY <1>2, FS_Interval
  <2>2. {n \in DOMAIN pnls : pnls[n] > 0} \subseteq 1 .. Len(pnls)
    BY <1>2
  <2> QED
    BY <1>1, <2>1, <2>2, FS_Subset, FS_CardinalityType
<1>7. m.drawdown \in Nat
  <2>1. IsCurve(pnls)
    BY <1>2, CurvesAre
  <2>2. Curve(pnls).dd \in Int
    BY <2>1 DEF IsCurve, Point
  <2>3. 0 \in 0 .. Len(pnls)
    BY <1>2
  <2>4. EquityAt(pnls, 0) - EquityAt(pnls, 0) <= Curve(pnls).dd /\ EquityAt(pnls, 0) \in Int
    BY <2>1, <2>3 DEF IsCurve
  <2>5. Curve(pnls).dd >= 0
    BY <2>2, <2>4
  <2> QED
    BY <1>1, <2>2, <2>5, DrawdownIs
<1>8. m.net \in Int /\ m.squares \in Int /\ m.n * m.squares - m.net * m.net >= 0
  BY <1>1, <1>2, SpreadsAre DEF IsSpread
<1> QED
  BY <1>1, <1>2, <1>5, <1>6, <1>7, <1>8 DEF IsMetrics, m

Ratios == Int \X (Nat \ {0})

\* Every objective is a number: nothing is divided by zero.
LEMMA ObjectiveIs ==
    ASSUME NEW m, IsMetrics(m), NEW objective
    PROVE  ObjectiveValue(m, objective) \in Ratios
<1> USE DEF IsMetrics, Ratios
<1>1. WinRate(m) \in Ratios
  <2>1. m.n \in Nat /\ m.wins \in Int
    OBVIOUS
  <2>2. m.n # 0 => <<m.wins, m.n>> \in Ratios
    BY <2>1
  <2>3. <<0, 1>> \in Ratios
    OBVIOUS
  <2> QED
    BY <2>2, <2>3 DEF WinRate
<1>2. Expectancy(m) \in Ratios
  <2>1. m.n \in Nat /\ m.net \in Int
    OBVIOUS
  <2>2. m.n # 0 => <<m.net, m.n>> \in Ratios
    BY <2>1
  <2>3. <<0, 1>> \in Ratios
    OBVIOUS
  <2> QED
    BY <2>2, <2>3 DEF Expectancy
<1>3. Calmar(m) \in Ratios
  BY DEF Calmar
<1>4. ProfitFactor(m) \in Ratios
  BY DEF ProfitFactor
<1>5. Sharpe(m) \in Ratios
  <2> DEFINE spread == m.n * m.squares - m.net * m.net
             top == (IF m.net < 0 THEN -1 ELSE 1) * m.net * m.net * (m.n - 1)
  <2>1. spread \in Int /\ spread >= 0 /\ top \in Int
    OBVIOUS
  <2>2. Sharpe(m) = IF m.n <= 1 \/ spread = 0 THEN <<0, 1>> ELSE <<top, spread>>
    BY DEF Sharpe
  <2> HIDE DEF spread, top
  <2> QED
    BY <2>1, <2>2
<1>6. <<m.net, 1>> \in Ratios
  OBVIOUS
<1> QED
  BY <1>1, <1>2, <1>3, <1>4, <1>5, <1>6 DEF ObjectiveValue

LEMMA SameFactor ==
    ASSUME NEW z \in Int, NEW y \in Int, NEW k \in Nat \ {0}
    PROVE  /\ z < y => z * k < y * k
           /\ z <= y => z * k <= y * k
           /\ z * k < y * k => z < y
<1>1. ASSUME z < y PROVE z * k < y * k
  <2>1. (y - z) * k > 0
    BY <1>1
  <2>2. (y - z) * k = y * k - z * k
    OBVIOUS
  <2>3. y * k \in Int /\ z * k \in Int
    OBVIOUS
  <2> QED
    BY <2>1, <2>2, <2>3
<1>2. ASSUME z <= y PROVE z * k <= y * k
  BY <1>1, <1>2
<1>3. ASSUME y <= z PROVE y * k <= z * k
  <2>1. (z - y) * k >= 0
    BY <1>3
  <2>2. (z - y) * k = z * k - y * k
    OBVIOUS
  <2>3. y * k \in Int /\ z * k \in Int
    OBVIOUS
  <2> QED
    BY <2>1, <2>2, <2>3
<1>4. y * k \in Int /\ z * k \in Int
  OBVIOUS
<1> QED
  BY <1>1, <1>2, <1>3, <1>4

\* What is greater than something is greater than all that is not.
LEMMA GreaterIs ==
    ASSUME NEW a \in Ratios, NEW b \in Ratios, NEW k \in Ratios
    PROVE  /\ Greater(a, b) /\ ~Greater(k, b) => Greater(a, k)
           /\ Greater(a, k) => ~Greater(k, a)
<1>1. /\ a[1] \in Int /\ b[1] \in Int /\ k[1] \in Int
      /\ a[2] \in Nat \ {0} /\ b[2] \in Nat \ {0} /\ k[2] \in Nat \ {0}
  BY DEF Ratios
<1>2. ASSUME NEW a1 \in Int, NEW b1 \in Int, NEW k1 \in Int,
             NEW a2 \in Nat \ {0}, NEW b2 \in Nat \ {0}, NEW k2 \in Nat \ {0},
             a1 * b2 > b1 * a2, k1 * b2 <= b1 * k2
      PROVE  a1 * k2 > k1 * a2
  <2>1. (b1 * a2) * k2 < (a1 * b2) * k2
    <3>1. b1 * a2 \in Int /\ a1 * b2 \in Int /\ b1 * a2 < a1 * b2
      BY <1>2
    <3> QED
      BY <3>1, SameFactor
  <2>2. (k1 * b2) * a2 <= (b1 * k2) * a2
    <3>1. k1 * b2 \in Int /\ b1 * k2 \in Int
      OBVIOUS
    <3> QED
      BY <1>2, <3>1, SameFactor
  <2>3. (b1 * a2) * k2 = (b1 * k2) * a2 /\ (k1 * b2) * a2 = (k1 * a2) * b2
        /\ (a1 * b2) * k2 = (a1 * k2) * b2
    OBVIOUS
  <2>4. (k1 * a2) * b2 < (a1 * k2) * b2
    <3>1. (k1 * b2) * a2 \in Int /\ (b1 * k2) * a2 \in Int /\ (a1 * b2) * k2 \in Int
      OBVIOUS
    <3> QED
      BY <2>1, <2>2, <2>3, <3>1
  <2>5. k1 * a2 \in Int /\ a1 * k2 \in Int
    OBVIOUS
  <2>6. k1 * a2 < a1 * k2
    BY <2>4, <2>5, SameFactor
  <2> QED
    BY <2>5, <2>6
<1>3. /\ a[1] * b[2] \in Int /\ b[1] * a[2] \in Int /\ k[1] * b[2] \in Int /\ b[1] * k[2] \in Int
      /\ a[1] * k[2] \in Int /\ k[1] * a[2] \in Int
  BY <1>1
<1>4. Greater(a, b) /\ ~Greater(k, b) => Greater(a, k)
  <2> SUFFICES ASSUME Greater(a, b), ~Greater(k, b) PROVE Greater(a, k)
    OBVIOUS
  <2>1. a[1] * b[2] > b[1] * a[2] /\ k[1] * b[2] <= b[1] * k[2]
    BY <1>3 DEF Greater
  <2>2. a[1] * k[2] > k[1] * a[2]
    BY <1>1, <1>2, <2>1
  <2> QED
    BY <2>2 DEF Greater
<1>5. Greater(a, k) => ~Greater(k, a)
  BY <1>3 DEF Greater
<1> QED
  BY <1>4, <1>5
-----------------------------------------------------------------------------
(* What is evaluated.                                                      *)

LEMMA Quotients ==
    ASSUME NEW a \in Nat, NEW n \in Nat, NEW b \in Nat, a < n * b
    PROVE  a \div b \in 0 .. n - 1 /\ a % b \in 0 .. b - 1
<1>1. b # 0
  <2> SUFFICES ASSUME b = 0 PROVE FALSE
    OBVIOUS
  <2>1. n * 0 = 0
    OBVIOUS
  <2> QED
    BY <2>1
<1> DEFINE q == a \div b
<1>2. a % b \in 0 .. b - 1 /\ q \in Int /\ a = b * q + (a % b)
  BY <1>1
<1> HIDE DEF q
<1>3. a % b \in Int /\ b * q \in Int
  BY <1>2
<1>4. b * q <= a /\ a < b * q + b
  BY <1>2, <1>3
<1>5. 0 <= q
  <2> SUFFICES ASSUME q <= -1 PROVE FALSE
    BY <1>2
  <2>1. q * b <= (-1) * b
    BY <1>1, <1>2, SameFactor
  <2>2. q * b = b * q /\ (-1) * b = -b
    BY <1>2
  <2> QED
    BY <1>3, <1>4, <2>1, <2>2
<1>6. q < n
  <2>1. q * b < n * b
    <3>1. q * b = b * q /\ n * b \in Int
      BY <1>2
    <3> QED
      BY <1>3, <1>4, <3>1
  <2> QED
    BY <1>1, <1>2, <2>1, SameFactor
<1> QED
  BY <1>2, <1>5, <1>6 DEF q

\* A later day has a number at least as high.
LEMMA DaysInOrder ==
    ASSUME NEW a \in Nat, NEW b \in Nat, a <= b, NEW k \in Nat \ {0}
    PROVE  a \div k \in Nat /\ b \div k \in Nat /\ a \div k <= b \div k
<1>1. ASSUME NEW z \in Nat PROVE z \div k \in Nat
  <2>1. z < (z + 1) * k
    <3>1. (z + 1) * 1 <= (z + 1) * k
      <4>1. 1 * (z + 1) <= k * (z + 1)
        BY SameFactor
      <4> QED
        BY <4>1
    <3>2. (z + 1) * k \in Int
      OBVIOUS
    <3> QED
      BY <3>1, <3>2
  <2> QED
    BY <2>1, Quotients
<1>2. b < ((b \div k) + 1) * k
  <2>1. b % k \in 0 .. k - 1 /\ b = k * (b \div k) + (b % k) /\ b \div k \in Nat
    BY <1>1
  <2> DEFINE q == b \div k
  <2> HIDE DEF q
  <2>2. (q + 1) * k = k * q + k /\ k * q \in Int
    BY <2>1 DEF q
  <2>3. b < (q + 1) * k
    BY <2>1, <2>2 DEF q
  <2> QED
    BY <2>3 DEF q
<1>3. a < ((b \div k) + 1) * k
  <2> DEFINE u == ((b \div k) + 1) * k
  <2>1. u \in Int
    BY <1>1
  <2> HIDE DEF u
  <2>2. a < u
    BY <1>2, <2>1 DEF u
  <2> QED
    BY <2>2 DEF u
<1>4. a \div k \in 0 .. ((b \div k) + 1) - 1
  <2>1. (b \div k) + 1 \in Nat
    BY <1>1
  <2> DEFINE u == (b \div k) + 1
  <2> HIDE DEF u
  <2>2. a \div k \in 0 .. u - 1
    BY <1>3, <2>1, Quotients DEF u
  <2> QED
    BY <2>2 DEF u
<1> QED
  BY <1>1, <1>4

\* What the lemmas need of the data, of a configuration and of the settings.
LEMMA HistoryIs ==
    ASSUME NEW d \in Histories
    PROVE  /\ IsBars(d.bars) /\ \E n \in Nat : DOMAIN d.bars \subseteq 0 .. n
           /\ FirstDay(d.bars) \in Nat /\ TotalDays(d.bars) \in Nat
           /\ \A k \in DOMAIN d.signals :
                 /\ DOMAIN d.signals[k] \subseteq DOMAIN d.bars
                 /\ d.signals[k] \in [DOMAIN d.signals[k] -> {Buy, Sell, 0}]
<1> DEFINE D == DOMAIN d.bars
<1>1. /\ D \subseteq Nat /\ \E last \in D : \A s \in D : s <= last
      /\ d.bars \in [D -> [high : Nat, low : Nat, close : Nat]]
      /\ \A k \in DOMAIN d.signals :
            /\ DOMAIN d.signals[k] \subseteq DOMAIN d.bars
            /\ d.signals[k] \in [DOMAIN d.signals[k] -> {Buy, Sell, 0}]
  BY OptimizerAssumption
<1>2. IsBars(d.bars)
  BY <1>1 DEF IsBars
<1> HIDE DEF D
<1>3. PICK last \in D : \A s \in D : s <= last
  BY <1>1
<1>4. last \in Nat /\ D \subseteq 0 .. last
  BY <1>1, <1>3
<1>5. Max(D) = last
  <2>1. D \subseteq Int
    BY <1>1
  <2> QED
    BY <1>3, <2>1, GreatestIs
<1>6. Min(D) \in Nat /\ Min(D) <= last
  BY <1>1, <1>3, MinIsLeast
<1>7. DaySecs \in Nat \ {0}
  BY EvaluationAssumption
<1>8. /\ Min(D) \div DaySecs \in Nat /\ Max(D) \div DaySecs \in Nat
      /\ Min(D) \div DaySecs <= Max(D) \div DaySecs
  BY <1>4, <1>5, <1>6, <1>7, DaysInOrder
<1>9. FirstDay(d.bars) \in Nat /\ TotalDays(d.bars) \in Nat
  <2>1. FirstDay(d.bars) = Min(D) \div DaySecs
        /\ TotalDays(d.bars) = Max(D) \div DaySecs - Min(D) \div DaySecs + 1
    BY DEF FirstDay, TotalDays, D
  <2> DEFINE z == Min(D) \div DaySecs
             y == Max(D) \div DaySecs
  <2>2. z \in Nat /\ y \in Nat /\ z <= y
    BY <1>8
  <2> HIDE DEF z, y
  <2>3. y - z + 1 \in Nat
    BY <2>2
  <2> QED
    BY <1>8, <2>1, <2>3 DEF z, y
<1> QED
  BY <1>1, <1>2, <1>4, <1>9 DEF D

\* The folds are numbered without a gap.
LEMMA FoldsAre ==
    ASSUME NEW s, IsSettings(s), NEW days \in Nat
    PROVE  /\ Cardinality(Folds(s, days)) \in Nat
           /\ Folds(s, days) = 1 .. Cardinality(Folds(s, days))
<1> DEFINE F == Folds(s, days)
           n == s.folds
<1>1. n \in Nat /\ F = {f \in 1 .. n : TestStart(s, days, f) < days}
  BY DEF IsSettings, Folds
<1>2. ASSUME NEW f \in F, NEW g \in 1 .. n, g < f PROVE g \in F
  <2>1. f \in Nat \ {0} /\ g \in Nat \ {0} /\ TestStart(s, days, f) < days
    BY <1>1
  <2>2. TestStart(s, days, g) + TestDays(s, days) <= TestStart(s, days, f)
        /\ TestStart(s, days, g) \in Nat /\ TestStart(s, days, f) \in Nat
    BY <1>2, <2>1, TestsInTurn
  <2>3. TestDays(s, days) \in Nat \ {0}
    BY PartsHaveDays
  <2>4. TestStart(s, days, g) < days
    BY <2>1, <2>2, <2>3
  <2> QED
    BY <1>1, <2>4
<1> HIDE DEF F, n
<1>3. CASE F = {}
  <2>1. Cardinality(F) = 0 /\ 1 .. 0 = {}
    BY <1>3, FS_EmptySet
  <2> QED
    BY <1>3, <2>1 DEF F
<1>4. CASE F # {}
  <2>1. F \subseteq 1 .. n /\ F \subseteq Nat /\ \A f \in F : f <= n
    BY <1>1
  <2>2. Max(F) \in F /\ \A f \in F : f <= Max(F)
    BY <1>1, <1>4, <2>1, MaxIsGreatest
  <2> DEFINE m == Max(F)
  <2> HIDE DEF m
  <2>3. m \in F /\ m \in 1 .. n /\ m \in Nat /\ \A f \in F : f <= m
    BY <2>1, <2>2 DEF m
  <2>4. ASSUME NEW g \in 1 .. m PROVE g \in F
    <3>1. g \in 1 .. n /\ (g = m \/ g < m)
      BY <1>1, <2>3
    <3> QED
      BY <1>2, <2>3, <3>1
  <2>5. F = 1 .. m
    <3>1. \A f \in F : f \in 1 .. m
      BY <2>1, <2>3
    <3> QED
      BY <2>4, <3>1
  <2>6. Cardinality(1 .. m) = m
    BY <2>3, FS_Interval
  <2> QED
    BY <2>3, <2>5, <2>6 DEF F
<1> QED
  BY <1>3, <1>4

\* The first occurrences in a sequence form a sequence of its elements.
LEMMA UniqueIs ==
    ASSUME NEW R, NEW s \in Seq(R)
    PROVE  /\ Unique(s) \in Seq(R)
           /\ \A n \in DOMAIN Unique(s) : Unique(s)[n] \in Range(s)
           /\ \A n \in DOMAIN Unique(s), m \in DOMAIN Unique(s) : Unique(s)[n] = Unique(s)[m] => n = m
<1> DEFINE S == {i \in DOMAIN s : \A j \in 1 .. i - 1 : s[j] # s[i]}
           first == InOrder(S)
<1>1. Len(s) \in Nat /\ S \subseteq 0 .. Len(s) /\ S \subseteq DOMAIN s /\ \A i \in DOMAIN s : s[i] \in R
  OBVIOUS
<1>2. Unique(s) = [n \in DOMAIN first |-> s[first[n]]]
  BY DEF Unique, Picked
<1> HIDE DEF S
<1>3. Cardinality(S) \in Nat
  BY <1>1, PlaceIs
<1>4. DOMAIN first = 1 .. Cardinality(S) /\ \A n \in 1 .. Cardinality(S) : first[n] \in S
  BY <1>1, InOrderIs
<1> HIDE DEF first
<1>5. \A n \in 1 .. Cardinality(S) : s[first[n]] \in R /\ s[first[n]] \in Range(s)
  BY <1>1, <1>4 DEF Range
<1>6. Unique(s) \in [1 .. Cardinality(S) -> R] /\ DOMAIN Unique(s) = 1 .. Cardinality(S)
  BY <1>2, <1>4, <1>5
<1>7. Unique(s) \in Seq(R)
  BY <1>3, <1>6
<1>8. \A n \in DOMAIN Unique(s) : Unique(s)[n] \in Range(s)
  BY <1>2, <1>4, <1>5
<1>9. \A i \in S, k \in S : i < k => s[i] # s[k]
  BY <1>1 DEF S
<1>10. ASSUME NEW n \in DOMAIN Unique(s), NEW m \in DOMAIN Unique(s), Unique(s)[n] = Unique(s)[m]
       PROVE  n = m
  <2>1. n \in 1 .. Cardinality(S) /\ m \in 1 .. Cardinality(S) /\ first[n] \in S /\ first[m] \in S
    BY <1>4, <1>6
  <2>2. first[n] \in Nat /\ first[m] \in Nat /\ s[first[n]] = s[first[m]]
    BY <1>1, <1>2, <1>4, <1>10, <2>1
  <2>3. first[n] = first[m]
    BY <1>9, <2>1, <2>2
  <2>4. Place(S, first[n]) = n /\ Place(S, first[m]) = m
    BY <1>1, <2>1, InOrderIs DEF first
  <2> QED
    BY <2>3, <2>4
<1> QED
  BY <1>7, <1>8, <1>10

\* How many elements of 1 .. n come before one.
Rank(B, n, i) == Cardinality({j \in 1 .. n : <<j, i>> \in B})

\* In an order of 1 .. n every place is taken.
LEMMA RankTaken ==
    ASSUME NEW n \in Nat, NEW B, B \subseteq (1 .. n) \X (1 .. n),
           \A i \in 1 .. n : <<i, i>> \notin B,
           \A i \in 1 .. n, j \in 1 .. n : i # j => <<i, j>> \in B \/ <<j, i>> \in B,
           \A i \in 1 .. n, j \in 1 .. n, k \in 1 .. n : <<i, j>> \in B /\ <<j, k>> \in B => <<i, k>> \in B,
           NEW place \in 1 .. n
    PROVE  \E i \in 1 .. n : Rank(B, n, i) = place - 1
<1> DEFINE D == 1 .. n
           T == 0 .. n - 1
           Of(i) == {j \in D : <<j, i>> \in B}
           rank == [i \in D |-> Cardinality(Of(i))]
<1>1. IsFiniteSet(D) /\ Cardinality(D) = n /\ IsFiniteSet(T) /\ Cardinality(T) = n
  <2>1. 0 \in Int /\ n - 1 \in Int
    OBVIOUS
  <2> QED
    BY <2>1, FS_Interval
<1>2. ASSUME NEW i \in D PROVE IsFiniteSet(Of(i)) /\ Cardinality(Of(i)) \in T
  <2>1. Of(i) \in SUBSET D /\ i \notin Of(i)
    OBVIOUS
  <2> HIDE DEF Of, D, T
  <2>2. /\ IsFiniteSet(Of(i)) /\ Cardinality(Of(i)) <= Cardinality(D)
        /\ Cardinality(D) = Cardinality(Of(i)) => D = Of(i)
    BY <1>1, <2>1, FS_Subset
  <2>3. Cardinality(Of(i)) \in Nat /\ Cardinality(Of(i)) <= n /\ Cardinality(Of(i)) # n
    BY <1>1, <2>1, <2>2, FS_CardinalityType
  <2> QED
    BY <2>2, <2>3 DEF T
<1>3. ASSUME NEW i \in D, NEW k \in D, <<i, k>> \in B PROVE rank[i] < rank[k]
  <2>1. Of(i) \in SUBSET Of(k) /\ i \in Of(k) /\ i \notin Of(i)
    BY <1>3
  <2>2. IsFiniteSet(Of(k)) /\ Cardinality(Of(i)) \in T /\ Cardinality(Of(k)) \in T
    BY <1>2
  <2>3. Cardinality(Of(i)) <= Cardinality(Of(k)) /\ Cardinality(Of(i)) # Cardinality(Of(k))
    <3> HIDE DEF Of
    <3> QED
      BY <2>1, <2>2, FS_Subset
  <2> HIDE DEF Of
  <2> QED
    BY <2>2, <2>3
<1>4. rank \in [D -> T]
  BY <1>2
<1>5. \A i \in D, k \in D : rank[i] = rank[k] => i = k
  <2> SUFFICES ASSUME NEW i \in D, NEW k \in D, rank[i] = rank[k], i # k PROVE FALSE
    OBVIOUS
  <2> HIDE DEF rank
  <2>1. rank[i] \in Int /\ rank[k] \in Int
    BY <1>4
  <2>2. <<i, k>> \in B \/ <<k, i>> \in B
    OBVIOUS
  <2> QED
    BY <1>3, <2>1, <2>2
<1>6. rank \in Injection(D, T)
  <2> HIDE DEF rank, D, T
  <2> QED
    BY <1>4, <1>5 DEF Injection, IsInjective
<1>7. rank \in Surjection(D, T)
  <2> HIDE DEF rank, D, T
  <2> QED
    BY <1>1, <1>6, FS_Injection
<1>8. place - 1 \in T
  OBVIOUS
<1>9. \E i \in D : rank[i] = place - 1
  <2> HIDE DEF rank, D, T
  <2> QED
    BY <1>7, <1>8 DEF Surjection
<1> QED
  BY <1>9 DEF Rank
\* The state in which a search runs: the data, the grid and the settings it was given.
Given == data \in Histories /\ grid \in Grids /\ c \in Settings

LEMMA GridIs ==
    ASSUME NEW g \in Grids
    PROVE  /\ g.signals \in Seq(Range(g.signals)) /\ g.exits \in Seq(Range(g.exits))
           /\ \A k \in Range(g.signals) :
                 k.interval \in Nat /\ \A d \in Histories : k \in DOMAIN d.signals
           /\ \A r \in Range(g.exits) : IsRule(r)
BY OptimizerAssumption DEF IsRule

\* Every signal configuration of the grid has its place in the order of the search.
LEMMA SignalKeysAre ==
    ASSUME Given
    PROVE  /\ Len(SignalKeys) \in Nat /\ DOMAIN SignalKeys = 1 .. Len(SignalKeys)
           /\ \A n \in 1 .. Len(SignalKeys) : SignalKeys[n] \in Range(grid.signals)
           /\ \A n \in 1 .. Len(SignalKeys), m \in 1 .. Len(SignalKeys) :
                 SignalKeys[n] = SignalKeys[m] => n = m
<1> DEFINE keys == Unique(grid.signals)
           L == Len(keys)
           KeyAt(n) == CHOOSE i \in DOMAIN keys :
                          Cardinality({j \in DOMAIN keys : Earlier(keys, j, i)}) = n - 1
           group(i) == {j \in DOMAIN keys :
                           keys[j].interval = keys[i].interval /\ keys[j].base = keys[i].base}
           B == {p \in (1 .. L) \X (1 .. L) : Earlier(keys, p[1], p[2])}
<1>1. grid.signals \in Seq(Range(grid.signals)) /\ \A k \in Range(grid.signals) : k.interval \in Nat
  BY GridIs DEF Given
<1>2. /\ keys \in Seq(Range(grid.signals))
      /\ \A n \in DOMAIN keys : keys[n] \in Range(grid.signals)
      /\ \A n \in DOMAIN keys, m \in DOMAIN keys : keys[n] = keys[m] => n = m
  BY <1>1, UniqueIs
<1>3. L \in Nat /\ DOMAIN keys = 1 .. L
  BY <1>2
<1>4. SignalKeys = [n \in DOMAIN keys |-> keys[KeyAt(n)]]
  BY DEF SignalKeys
<1> HIDE DEF keys
<1>5. ASSUME NEW i \in 1 .. L
      PROVE  FirstOfGroup(keys, i) \in Nat /\ keys[i].interval \in Nat /\ i \in Nat
  <2>1. group(i) \subseteq Nat /\ i \in group(i)
    BY <1>3
  <2>2. FirstOfGroup(keys, i) = Min(group(i))
    BY DEF FirstOfGroup
  <2>3. Min(group(i)) \in group(i)
    <3> HIDE DEF group
    <3> QED
      BY <2>1, MinIsLeast
  <2>4. keys[i].interval \in Nat
    BY <1>1, <1>2, <1>3
  <2> QED
    BY <1>3, <2>1, <2>2, <2>3, <2>4
<1> DEFINE F(i) == FirstOfGroup(keys, i)
           I(i) == keys[i].interval
<1>6. \A i \in 1 .. L, j \in 1 .. L : <<i, j>> \in B <=> Earlier(keys, i, j)
  OBVIOUS
<1>7. \A i, j : Earlier(keys, i, j) <=>
          \/ I(i) < I(j)
          \/ (I(i) = I(j) /\ (F(i) < F(j) \/ (F(i) = F(j) /\ i < j)))
  BY DEF Earlier
<1>8. \A i \in 1 .. L : F(i) \in Nat /\ I(i) \in Nat /\ i \in Nat
  BY <1>5
<1> HIDE DEF F, I, B
<1>9. \A i \in 1 .. L : <<i, i>> \notin B
  BY <1>6, <1>7, <1>8
<1>10. \A i \in 1 .. L, j \in 1 .. L : i # j => <<i, j>> \in B \/ <<j, i>> \in B
  BY <1>6, <1>7, <1>8
<1>11. \A i \in 1 .. L, j \in 1 .. L, k \in 1 .. L : <<i, j>> \in B /\ <<j, k>> \in B => <<i, k>> \in B
  BY <1>6, <1>7, <1>8
<1>12. B \subseteq (1 .. L) \X (1 .. L)
  BY DEF B
<1> DEFINE Turn(i) == Cardinality({j \in DOMAIN keys : Earlier(keys, j, i)})
<1>13. ASSUME NEW n \in 1 .. L PROVE KeyAt(n) \in 1 .. L /\ Turn(KeyAt(n)) = n - 1
  <2>1. \E i \in 1 .. L : Rank(B, L, i) = n - 1
    <3> HIDE DEF L
    <3> QED
      BY <1>3, <1>9, <1>10, <1>11, <1>12, RankTaken
  <2>2. PICK i \in 1 .. L : Cardinality({j \in 1 .. L : <<j, i>> \in B}) = n - 1
    BY <2>1 DEF Rank
  <2>3. {j \in 1 .. L : <<j, i>> \in B} = {j \in DOMAIN keys : Earlier(keys, j, i)}
    BY <1>3, <1>6
  <2>4. \E z \in DOMAIN keys : Cardinality({j \in DOMAIN keys : Earlier(keys, j, z)}) = n - 1
    BY <1>3, <2>2, <2>3
  <2>5. KeyAt(n) \in DOMAIN keys /\ Turn(KeyAt(n)) = n - 1
    BY <2>4
  <2> QED
    BY <1>3, <2>5
<1> HIDE DEF KeyAt, L, Turn
<1>14. DOMAIN SignalKeys = 1 .. L /\ Len(SignalKeys) = L
  BY <1>3, <1>4
<1>15. \A n \in 1 .. L : SignalKeys[n] \in Range(grid.signals)
  BY <1>2, <1>3, <1>4, <1>13
<1>16. ASSUME NEW n \in 1 .. L, NEW m \in 1 .. L, SignalKeys[n] = SignalKeys[m] PROVE n = m
  <2>1. KeyAt(n) = KeyAt(m)
    BY <1>2, <1>3, <1>4, <1>13, <1>16
  <2>2. n - 1 = m - 1
    BY <1>13, <2>1
  <2> QED
    BY <1>3, <2>2
<1> QED
  BY <1>3, <1>14, <1>15, <1>16

LEMMA ExitKeysAre ==
    ASSUME Given
    PROVE  /\ Len(ExitKeys) \in Nat /\ DOMAIN ExitKeys = 1 .. Len(ExitKeys)
           /\ \A n \in 1 .. Len(ExitKeys) : ExitKeys[n] \in Range(grid.exits)
           /\ \A n \in 1 .. Len(ExitKeys), m \in 1 .. Len(ExitKeys) :
                 ExitKeys[n] = ExitKeys[m] => n = m
<1>1. grid.exits \in Seq(Range(grid.exits))
  BY GridIs DEF Given
<1>2. /\ ExitKeys \in Seq(Range(grid.exits))
      /\ \A n \in DOMAIN ExitKeys : ExitKeys[n] \in Range(grid.exits)
      /\ \A n \in DOMAIN ExitKeys, m \in DOMAIN ExitKeys : ExitKeys[n] = ExitKeys[m] => n = m
  BY <1>1, UniqueIs DEF ExitKeys
<1> QED
  BY <1>2

\* What an evaluation is made of.
IsEvaluation(e) == e.signal \in DOMAIN data.signals /\ IsRule(e.exit) /\ e.fold \in FoldsOfData

LEMMA EvaluationsAre ==
    ASSUME Given
    PROVE  /\ IsSettings(c) /\ Days \in Nat /\ FirstDay(data.bars) \in Nat
           /\ Len(Evaluations) \in Nat /\ DOMAIN Evaluations = 1 .. Len(Evaluations)
           /\ \A k \in 1 .. Len(Evaluations) : IsEvaluation(Evaluations[k])
<1>1. IsSettings(c)
  BY OptimizerAssumption DEF Given, IsSettings
<1>2. Days \in Nat /\ FirstDay(data.bars) \in Nat
  BY HistoryIs DEF Given, Days
<1> DEFINE marks == SignalKeys
           exits == ExitKeys
           L == Len(marks)
           X == Len(exits)
           F == Cardinality(FoldsOfData)
           n == L * X * F
           Of(k) == (k - 1) \div F
<1>3. F \in Nat /\ FoldsOfData = 1 .. F
  BY <1>1, <1>2, FoldsAre DEF FoldsOfData
<1>4. /\ L \in Nat /\ \A i \in 1 .. L : marks[i] \in Range(grid.signals)
      /\ X \in Nat /\ \A i \in 1 .. X : exits[i] \in Range(grid.exits)
  BY SignalKeysAre, ExitKeysAre
<1>5. Evaluations =
         [k \in 1 .. n |-> [signal |-> marks[(Of(k) \div X) + 1],
                            exit |-> exits[(Of(k) % X) + 1],
                            fold |-> ((k - 1) % F) + 1]]
  BY DEF Evaluations
<1> HIDE DEF marks, exits, L, X, F
<1>6. n \in Nat
  <2>1. L * X \in Nat
    BY <1>4
  <2> QED
    BY <1>3, <2>1
<1>7. ASSUME NEW k \in 1 .. n
      PROVE  /\ (Of(k) \div X) + 1 \in 1 .. L /\ (Of(k) % X) + 1 \in 1 .. X
             /\ ((k - 1) % F) + 1 \in 1 .. F
  <2>1. L * X \in Nat /\ k - 1 \in Nat /\ k - 1 < (L * X) * F
    BY <1>3, <1>4, <1>6
  <2>2. Of(k) \in 0 .. (L * X) - 1 /\ (k - 1) % F \in 0 .. F - 1
    BY <1>3, <2>1, Quotients
  <2> DEFINE o == Of(k)
             r == (k - 1) % F
  <2> HIDE DEF o
  <2>3. o \in Nat /\ o < L * X
    BY <2>1, <2>2 DEF o
  <2>4. o \div X \in 0 .. L - 1 /\ o % X \in 0 .. X - 1
    BY <1>4, <2>3, Quotients
  <2> HIDE DEF r
  <2>5. (o \div X) + 1 \in 1 .. L /\ (o % X) + 1 \in 1 .. X
    <3> DEFINE u == o \div X
               v == o % X
    <3>1. u \in 0 .. L - 1 /\ v \in 0 .. X - 1
      BY <2>4
    <3> HIDE DEF u, v
    <3>2. u + 1 \in 1 .. L /\ v + 1 \in 1 .. X
      BY <1>4, <3>1
    <3> QED
      BY <3>2 DEF u, v
  <2>6. r + 1 \in 1 .. F
    BY <1>3, <2>2 DEF r
  <2> QED
    BY <2>5, <2>6 DEF o, r
<1>8. \A k \in Range(grid.signals) : k \in DOMAIN data.signals
  BY GridIs DEF Given
<1>9. \A r \in Range(grid.exits) : IsRule(r)
  BY GridIs DEF Given
<1>10. ASSUME NEW k \in 1 .. n PROVE IsEvaluation(Evaluations[k])
  <2> DEFINE i == (Of(k) \div X) + 1
             j == (Of(k) % X) + 1
             f == ((k - 1) % F) + 1
  <2>1. i \in 1 .. L /\ j \in 1 .. X /\ f \in 1 .. F
    BY <1>7
  <2>2. Evaluations[k] = [signal |-> marks[i], exit |-> exits[j], fold |-> f]
    BY <1>5
  <2> HIDE DEF i, j, f
  <2> QED
    BY <1>3, <1>4, <1>8, <1>9, <2>1, <2>2 DEF IsEvaluation
<1>11. Len(Evaluations) = n /\ DOMAIN Evaluations = 1 .. n
  <2> HIDE DEF n
  <2> QED
    BY <1>5, <1>6
<1> QED
  BY <1>1, <1>2, <1>6, <1>10, <1>11
-----------------------------------------------------------------------------
(* The search.                                                             *)

\* The values an evaluation is judged by, and the entry it makes when it is chosen.
Score(k) == ObjectiveValue(Trained(data, Evaluations[k]), c.objective)

Entry(k) ==
    [score |-> Score(k), config |-> Evaluations[k], metrics |-> Trained(data, Evaluations[k])]

\* The first n evaluations that may be chosen for a fold, and the first best of them.
Candidates(f, n) ==
    {k \in 1 .. n : Evaluations[k].fold = f /\ Admissible(Trained(data, Evaluations[k]), c)}

Leaders(f, n) ==
    {k \in Candidates(f, n) :
        \A j \in Candidates(f, n) :
            ~Greater(Score(j), Score(k)) /\ (j < k => Greater(Score(k), Score(j)))}

\* What a search has found: for every fold the first best of the evaluations so far, if
\* any of them may be chosen, and the row of every evaluation.
SearchInv ==
    /\ Given
    /\ at \in 0 .. Len(Evaluations)
    /\ best = [f \in FoldsOfData |-> {Entry(k) : k \in Leaders(f, at)}]
    /\ \A f \in FoldsOfData : Candidates(f, at) # {} => Leaders(f, at) # {}
    /\ testRows = [k \in 1 .. at |-> [config |-> Evaluations[k], metrics |-> Tested(data, Evaluations[k])]]
    /\ \A r \in report :
          at = Len(Evaluations) /\ r.folds = [f \in FoldsOfData |-> FoldRow(f)]

\* The parts of a fold.
LEMMA SplitIs ==
    ASSUME Given, NEW f \in FoldsOfData
    PROVE  LET s == SplitOf(f) IN
           /\ s.trainFrom \in Nat /\ s.trainTo \in Nat /\ s.testFrom \in Nat /\ s.testTo \in Nat
           /\ s.trainFrom <= s.trainTo /\ s.trainTo < s.testFrom /\ s.testFrom <= s.testTo
           /\ \A g \in FoldsOfData : f < g => s.testTo < SplitOf(g).testFrom
<1> DEFINE s == SplitOf(f)
           first == FirstDay(data.bars)
<1>1. IsSettings(c) /\ Days \in Nat /\ first \in Nat
  BY EvaluationsAre
<1>2. s = Split(c, first, Days, f) /\ FoldsOfData = Folds(c, Days)
  BY DEF SplitOf, FoldsOfData
<1>3. /\ s.trainFrom <= s.trainTo /\ s.trainTo < s.testFrom /\ s.testFrom <= s.testTo
      /\ \A g \in FoldsOfData : f < g => s.testTo < SplitOf(g).testFrom
  BY <1>1, <1>2, TrainBeforeTest DEF SplitOf
<1> HIDE DEF s, first
<1>4. PICK train \in Nat, test \in Nat, testEnd \in Nat : IsParts(s, first, train, test, testEnd)
  BY <1>1, <1>2, PartsOfFold
<1>5. /\ (first + train) * DaySecs \in Nat /\ (first + test) * DaySecs \in Nat
      /\ (first + testEnd) * DaySecs \in Nat
  <2>1. first + train \in Nat /\ first + test \in Nat /\ first + testEnd \in Nat
    BY <1>1
  <2> QED
    BY <2>1, DaysInSeconds
<1>6. s.trainFrom \in Nat /\ s.testFrom \in Nat /\ s.trainTo \in Int /\ s.testTo \in Int
  BY <1>4, <1>5 DEF IsParts
<1>7. s.trainTo \in Nat /\ s.testTo \in Nat
  BY <1>3, <1>6
<1> QED
  BY <1>3, <1>6, <1>7 DEF s

\* The trades of an evaluation in a part.
LEMMA TradesOnAre ==
    ASSUME Given, NEW e, IsEvaluation(e), NEW from \in Nat, NEW to \in Nat
    PROVE  /\ TradesOn(data, e, from, to) \in Seq(Inside(from, to))
           /\ TradesOn(data, e, from, to) \in Seq(AnyTrade)
           /\ TimeInPosition(TradesOn(data, e, from, to), from, to) <= Later(0, to - from)
           /\ TradesOn(Cut(from, to), e, from, to) = TradesOn(data, e, from, to)
           /\ MetricsOn(Cut(from, to), e, from, to) = MetricsOn(data, e, from, to)
<1> DEFINE k == e.signal
           made == TradesOn(data, e, from, to)
           marks == data.signals[k]
           part == Part(marks, from, to)
           cut == Part(Within(marks, from, to), from, to)
<1>1. /\ IsBars(data.bars) /\ DOMAIN marks \subseteq DOMAIN data.bars
      /\ marks \in [DOMAIN marks -> {Buy, Sell, 0}]
  BY HistoryIs DEF Given, IsEvaluation
<1>2. PICK n \in Nat : DOMAIN data.bars \subseteq 0 .. n
  BY HistoryIs DEF Given
<1>3. IsRule(e.exit)
  BY DEF IsEvaluation
<1>4. made = RunBacktest(data.bars, part, <<>>, e.exit, from, to)
  BY DEF TradesOn
<1>5. Cut(from, to).bars = Within(data.bars, from, to)
      /\ Cut(from, to).signals[k] = Within(marks, from, to)
  BY DEF Cut, Within, IsEvaluation
<1>6. TradesOn(Cut(from, to), e, from, to)
         = RunBacktest(Within(data.bars, from, to), cut, <<>>, e.exit, from, to)
  BY <1>5 DEF TradesOn
<1> DEFINE bs == data.bars
           r == e.exit
           run == RunBacktest(bs, part, <<>>, r, from, to)
           runCut == RunBacktest(Within(bs, from, to), cut, <<>>, r, from, to)
<1>7. /\ run \in Seq(Inside(from, to))
      /\ TimeInPosition(run, from, to) <= Later(0, to - from)
      /\ runCut = run /\ cut = part
  <2>1. /\ IsBars(bs) /\ DOMAIN bs \subseteq 0 .. n /\ DOMAIN marks \subseteq DOMAIN bs
        /\ marks \in [DOMAIN marks -> {Buy, Sell, 0}] /\ IsRule(r)
    BY <1>1, <1>2, <1>3
  <2> HIDE DEF bs, r, marks
  <2> QED
    BY <2>1, TradesOfPart
<1>8. run \in Seq(AnyTrade)
  <2>1. \A i \in 1 .. Len(run) : run[i] \in AnyTrade
    BY <1>7 DEF Inside
  <2> HIDE DEF run
  <2> QED
    BY <1>7, <2>1
<1>9. MetricsOn(Cut(from, to), e, from, to) = MetricsOn(data, e, from, to)
  BY <1>4, <1>5, <1>6, <1>7 DEF MetricsOn
<1> QED
  BY <1>4, <1>6, <1>7, <1>8, <1>9

LEMMA ScoreIs ==
    ASSUME Given, NEW k \in 1 .. Len(Evaluations)
    PROVE  Score(k) \in Ratios
<1> DEFINE e == Evaluations[k]
           from == SplitOf(e.fold).trainFrom
           to == SplitOf(e.fold).trainTo
<1>1. IsEvaluation(e)
  BY EvaluationsAre
<1>2. e.fold \in FoldsOfData
  BY <1>1 DEF IsEvaluation
<1>3. from \in Nat /\ to \in Nat
  BY <1>2, SplitIs
<1>4. Trained(data, e) = Metrics(TradesOn(data, e, from, to), Part(data.signals[e.signal], from, to), from, to)
  BY DEF Trained, MetricsOn
<1>5. Score(k) = ObjectiveValue(Trained(data, e), c.objective)
  BY DEF Score
<1> HIDE DEF e, from, to
<1>6. TradesOn(data, e, from, to) \in Seq(AnyTrade)
  BY <1>1, <1>3, TradesOnAre
<1>7. IsMetrics(Trained(data, e))
  BY <1>4, <1>6, MetricsAre
<1> QED
  BY <1>5, <1>7, ObjectiveIs

\* One more evaluation takes the place of the first best when it is better.
LEMMA LeaderStep ==
    ASSUME Given, NEW f, NEW n \in Nat, n + 1 <= Len(Evaluations),
           Candidates(f, n) # {} => Leaders(f, n) # {}
    PROVE  /\ Leaders(f, n + 1) =
                 IF n + 1 \in Candidates(f, n + 1) /\ \A k \in Leaders(f, n) : Greater(Score(n + 1), Score(k))
                 THEN {n + 1} ELSE Leaders(f, n)
           /\ Candidates(f, n + 1) # {} => Leaders(f, n + 1) # {}
<1> DEFINE A == Candidates(f, n)
           B == Candidates(f, n + 1)
           L == Leaders(f, n)
           M == Leaders(f, n + 1)
           m == n + 1
<1>1. Len(Evaluations) \in Nat
  BY EvaluationsAre
<1>2. \A k \in B : k \in Nat /\ k <= m /\ Score(k) \in Ratios
  <2>1. \A k \in B : k \in 1 .. Len(Evaluations) /\ k <= m
    BY <1>1 DEF Candidates
  <2> QED
    BY <2>1, ScoreIs
<1>3. A \subseteq B /\ m \notin A /\ \A k \in B : k \in A \/ k = m
  BY DEF Candidates
<1>4. /\ \A k : k \in L <=> k \in A /\ \A j \in A :
                    ~Greater(Score(j), Score(k)) /\ (j < k => Greater(Score(k), Score(j)))
      /\ \A k : k \in M <=> k \in B /\ \A j \in B :
                    ~Greater(Score(j), Score(k)) /\ (j < k => Greater(Score(k), Score(j)))
  BY DEF Leaders
<1>5. L \subseteq A /\ M \subseteq B
  BY <1>4
<1>6. A # {} => L # {}
  OBVIOUS
<1> HIDE DEF A, B, L, M, m
<1>7. CASE m \notin B
  <2>1. B = A
    BY <1>3, <1>7
  <2>2. M = L
    BY <1>4, <2>1
  <2> QED
    BY <1>6, <1>7, <2>1, <2>2 DEF A, B, L, M, m
<1>8. CASE m \in B /\ \A k \in L : Greater(Score(m), Score(k))
  <2>1. ASSUME NEW j \in A PROVE Greater(Score(m), Score(j)) /\ ~Greater(Score(j), Score(m))
    <3>1. PICK l \in L : TRUE
      BY <1>6
    <3>2. ~Greater(Score(j), Score(l)) /\ Greater(Score(m), Score(l))
      BY <1>4, <1>8, <3>1
    <3>3. Score(j) \in Ratios /\ Score(l) \in Ratios /\ Score(m) \in Ratios
      BY <1>2, <1>3, <1>5, <1>8, <3>1
    <3> QED
      BY <3>2, <3>3, GreaterIs
  <2>2. ~Greater(Score(m), Score(m)) /\ ~(m < m)
    <3>1. m \in Nat /\ Score(m) \in Ratios
      BY <1>2, <1>8
    <3> QED
      BY <3>1, GreaterIs
  <2>3. m \in M
    BY <1>3, <1>4, <1>8, <2>1, <2>2
  <2>4. \A k \in M : k = m
    <3> SUFFICES ASSUME NEW k \in M, k # m PROVE FALSE
      OBVIOUS
    <3>1. k \in A
      BY <1>3, <1>5
    <3>2. ~Greater(Score(m), Score(k))
      BY <1>4, <1>8
    <3> QED
      BY <2>1, <3>1, <3>2
  <2>5. M = {m}
    BY <2>3, <2>4
  <2> QED
    BY <1>8, <2>5 DEF A, B, L, M, m
<1>9. CASE m \in B /\ ~(\A k \in L : Greater(Score(m), Score(k)))
  <2>1. PICK l \in L : ~Greater(Score(m), Score(l))
    BY <1>9
  <2>2. m \notin M
    <3> SUFFICES ASSUME m \in M PROVE FALSE
      OBVIOUS
    <3>1. l \in A /\ l \in B /\ l \in Nat /\ l <= m /\ l # m /\ m \in Nat
      BY <1>2, <1>3, <1>5, <1>9
    <3>2. l < m
      BY <3>1
    <3> QED
      BY <1>4, <2>1, <3>1, <3>2
  <2>3. ASSUME NEW k \in M PROVE k \in L
    <3>1. k \in A
      BY <1>3, <1>5, <2>2
    <3> QED
      BY <1>3, <1>4, <3>1
  <2>4. \A k \in L : k = l
    <3> SUFFICES ASSUME NEW k \in L, k # l PROVE FALSE
      OBVIOUS
    <3>1. k \in A /\ l \in A /\ k \in Nat /\ l \in Nat
      BY <1>2, <1>3, <1>5
    <3>2. ~Greater(Score(k), Score(l)) /\ ~Greater(Score(l), Score(k))
      BY <1>4, <3>1
    <3>3. ~(k < l) /\ ~(l < k)
      BY <1>4, <3>1, <3>2
    <3> QED
      BY <3>1, <3>3
  <2>5. ASSUME NEW k \in L PROVE k \in M
    <3>1. k = l /\ k \in A /\ k \in B
      BY <1>3, <1>5, <2>4
    <3>2. k \in Nat /\ m \in Nat /\ k <= m
      BY <1>2, <1>9, <3>1
    <3>3. ~Greater(Score(m), Score(k)) /\ ~(m < k)
      BY <2>1, <3>1, <3>2
    <3> QED
      BY <1>3, <1>4, <3>1, <3>3
  <2>6. M = L
    BY <2>3, <2>5
  <2> QED
    BY <1>9, <2>1, <2>6 DEF A, B, L, M, m
<1> QED
  BY <1>7, <1>8, <1>9

\* The data, the grid and the settings determine what is evaluated and how.
LEMMA SameSearch ==
    ASSUME UNCHANGED <<data, grid, c>>
    PROVE  /\ Given' = Given /\ Evaluations' = Evaluations /\ FoldsOfData' = FoldsOfData
           /\ \A f : SplitOf(f)' = SplitOf(f)
           /\ \A f, n : Leaders(f, n)' = Leaders(f, n) /\ Candidates(f, n)' = Candidates(f, n)
           /\ \A k : Entry(k)' = Entry(k)
           /\ \A e : Tested(data, e)' = Tested(data, e)
<1>1. Given' = Given
  BY DEF Given
<1>2. FoldsOfData' = FoldsOfData /\ \A f : SplitOf(f)' = SplitOf(f)
  BY DEF FoldsOfData, SplitOf, Days
<1>3. Evaluations' = Evaluations
  BY <1>2 DEF Evaluations, SignalKeys, ExitKeys
<1>4. \A e : Trained(data, e)' = Trained(data, e) /\ Tested(data, e)' = Tested(data, e)
  BY <1>2 DEF Trained, Tested, MetricsOn, TradesOn
<1>5. \A k : Score(k)' = Score(k)
  BY <1>3, <1>4 DEF Score
<1>6. \A k : Entry(k)' = Entry(k)
  BY <1>3, <1>4, <1>5 DEF Entry
<1>7. \A f, n : Candidates(f, n)' = Candidates(f, n)
  BY <1>3, <1>4 DEF Candidates
<1>8. \A f, n : Leaders(f, n)' = Leaders(f, n)
  BY <1>5, <1>7 DEF Leaders
<1> QED
  BY <1>1, <1>2, <1>3, <1>4, <1>6, <1>7, <1>8

\* The search begins without a choice.
LEMMA StartOfSearch == StudyInit => SearchInv
<1> SUFFICES ASSUME StudyInit PROVE SearchInv
  OBVIOUS
<1>1. Given /\ at = 0 /\ best = [f \in FoldsOfData |-> {}] /\ testRows = <<>> /\ report = {}
  BY DEF StudyInit, OptimizerInit, Given
<1>2. Len(Evaluations) \in Nat
  BY <1>1, EvaluationsAre
<1>3. \A f : Candidates(f, at) = {} /\ Leaders(f, at) = {}
  BY <1>1 DEF Candidates, Leaders
<1>4. best = [f \in FoldsOfData |-> {Entry(k) : k \in Leaders(f, at)}]
  BY <1>1, <1>3
<1>5. testRows = [k \in 1 .. at |-> [config |-> Evaluations[k], metrics |-> Tested(data, Evaluations[k])]]
  BY <1>1
<1>6. at \in 0 .. Len(Evaluations)
  BY <1>1, <1>2
<1> QED
  BY <1>1, <1>3, <1>4, <1>5, <1>6 DEF SearchInv

\* An evaluation keeps it.
LEMMA EvaluateKeepsSearch == SearchInv /\ Evaluate => SearchInv'
<1> SUFFICES ASSUME SearchInv, Evaluate PROVE SearchInv'
  OBVIOUS
<1> DEFINE m == at + 1
           e == Evaluations[m]
           metrics == Trained(data, e)
           row == [config |-> e, metrics |-> Tested(data, e)]
<1>1. /\ at < Len(Evaluations)
      /\ best' = IF Better(e, metrics)
                 THEN [best EXCEPT ![e.fold] =
                           {[score |-> ObjectiveValue(metrics, c.objective),
                             config |-> e, metrics |-> metrics]}]
                 ELSE best
      /\ testRows' = Append(testRows, row)
      /\ at' = m /\ UNCHANGED <<data, grid, c, report>>
  BY DEF Evaluate
<1>2. /\ Given /\ at \in 0 .. Len(Evaluations)
      /\ best = [f \in FoldsOfData |-> {Entry(k) : k \in Leaders(f, at)}]
      /\ \A f \in FoldsOfData : Candidates(f, at) # {} => Leaders(f, at) # {}
      /\ testRows = [k \in 1 .. at |-> [config |-> Evaluations[k], metrics |-> Tested(data, Evaluations[k])]]
      /\ \A r \in report : at = Len(Evaluations)
  BY DEF SearchInv
<1>3. Len(Evaluations) \in Nat
  BY <1>2, EvaluationsAre
<1>4. at \in Nat /\ m \in 1 .. Len(Evaluations) /\ m <= Len(Evaluations)
  BY <1>1, <1>2, <1>3
<1>5. IsEvaluation(e) /\ e.fold \in FoldsOfData
  BY <1>2, <1>4, EvaluationsAre DEF IsEvaluation
<1>6. /\ Given' /\ Evaluations' = Evaluations /\ FoldsOfData' = FoldsOfData
      /\ \A f, n : Leaders(f, n)' = Leaders(f, n) /\ Candidates(f, n)' = Candidates(f, n)
      /\ \A k : Entry(k)' = Entry(k)
      /\ \A d : Tested(data, d)' = Tested(data, d)
  BY <1>1, <1>2, SameSearch
<1>7. ASSUME NEW f \in FoldsOfData
      PROVE  /\ Leaders(f, m) =
                   IF m \in Candidates(f, m) /\ \A k \in Leaders(f, at) : Greater(Score(m), Score(k))
                   THEN {m} ELSE Leaders(f, at)
             /\ Candidates(f, m) # {} => Leaders(f, m) # {}
  BY <1>2, <1>4, LeaderStep
<1>8. \A f : m \in Candidates(f, m) <=> e.fold = f /\ Admissible(metrics, c)
  BY <1>4 DEF Candidates
<1>9. Better(e, metrics) <=>
         m \in Candidates(e.fold, m) /\ \A k \in Leaders(e.fold, at) : Greater(Score(m), Score(k))
  <2>1. Score(m) = ObjectiveValue(metrics, c.objective)
    BY DEF Score
  <2>2. best[e.fold] = {Entry(k) : k \in Leaders(e.fold, at)}
    BY <1>2, <1>5
  <2>3. \A k : Entry(k).score = Score(k)
    BY DEF Entry
  <2> HIDE DEF e, metrics, m
  <2> QED
    BY <1>8, <2>1, <2>2, <2>3 DEF Better
<1>10. Entry(m) = [score |-> ObjectiveValue(metrics, c.objective), config |-> e, metrics |-> metrics]
  BY DEF Entry, Score
<1>11. best' = [f \in FoldsOfData |-> {Entry(k) : k \in Leaders(f, m)}]
  <2> HIDE DEF e, metrics, m
  <2>1. CASE Better(e, metrics)
    <3>1. best' = [best EXCEPT ![e.fold] = {Entry(m)}]
      BY <1>1, <1>10, <2>1
    <3>2. Leaders(e.fold, m) = {m}
      BY <1>5, <1>7, <1>9, <2>1
    <3>3. \A f \in FoldsOfData : f # e.fold => Leaders(f, m) = Leaders(f, at)
      BY <1>7, <1>8
    <3>4. {Entry(k) : k \in {m}} = {Entry(m)}
      OBVIOUS
    <3>5. ASSUME NEW f \in FoldsOfData PROVE best'[f] = {Entry(k) : k \in Leaders(f, m)}
      BY <1>2, <1>5, <3>1, <3>2, <3>3, <3>4
    <3>6. best' = [f \in FoldsOfData |-> best'[f]]
      BY <1>2, <3>1
    <3> QED
      BY <3>5, <3>6
  <2>2. CASE ~Better(e, metrics)
    <3>1. best' = best
      BY <1>1, <2>2
    <3>2. \A f \in FoldsOfData : Leaders(f, m) = Leaders(f, at)
      BY <1>5, <1>7, <1>8, <1>9, <2>2
    <3> QED
      BY <1>2, <3>1, <3>2
  <2> QED
    BY <2>1, <2>2
<1>12. testRows' = [k \in 1 .. m |-> [config |-> Evaluations[k], metrics |-> Tested(data, Evaluations[k])]]
  <2> DEFINE Row(k) == [config |-> Evaluations[k], metrics |-> Tested(data, Evaluations[k])]
             R == {Row(k) : k \in 1 .. m}
  <2>1. testRows = [k \in 1 .. at |-> Row(k)] /\ row = Row(m) /\ m = at + 1
    BY <1>2
  <2> HIDE DEF Row, row, m
  <2>2. testRows \in Seq(R) /\ Row(m) \in R /\ Len(testRows) = at
    BY <1>4, <2>1
  <2>3. Append(testRows, Row(m)) = [k \in 1 .. m |-> Row(k)]
    <3> DEFINE a == Append(testRows, Row(m))
    <3>1. /\ a \in Seq(R) /\ Len(a) = m /\ a[m] = Row(m)
          /\ \A k \in 1 .. at : a[k] = Row(k)
      BY <1>4, <2>1, <2>2, AppendProperties
    <3>2. \A k \in 1 .. m : k = m \/ k \in 1 .. at
      BY <1>4, <2>1
    <3> HIDE DEF a
    <3>3. DOMAIN a = 1 .. m /\ a = [k \in DOMAIN a |-> a[k]]
      BY <3>1
    <3>4. \A k \in 1 .. m : a[k] = Row(k)
      BY <3>1, <3>2
    <3>5. a = [k \in 1 .. m |-> Row(k)]
      BY <3>3, <3>4
    <3> QED
      BY <3>5 DEF a
  <2> QED
    BY <1>1, <2>1, <2>3 DEF Row
<1>13. report = {}
  BY <1>1, <1>2, <1>3
<1> HIDE DEF m, e, metrics, row
<1>14. at' \in 0 .. Len(Evaluations)' /\ report' = {}
  BY <1>1, <1>3, <1>4, <1>6, <1>13
<1>15. (best = [f \in FoldsOfData |-> {Entry(k) : k \in Leaders(f, at)}])'
  <2>1. \A f \in FoldsOfData : {Entry(k) : k \in Leaders(f, at)}' = {Entry(k) : k \in Leaders(f, m)}
    BY <1>1, <1>6
  <2> QED
    BY <1>6, <1>11, <2>1
<1>16. (\A f \in FoldsOfData : Candidates(f, at) # {} => Leaders(f, at) # {})'
  BY <1>1, <1>6, <1>7
<1>17. (testRows = [k \in 1 .. at |-> [config |-> Evaluations[k], metrics |-> Tested(data, Evaluations[k])]])'
  BY <1>1, <1>6, <1>12
<1>18. (\A r \in report :
          at = Len(Evaluations) /\ r.folds = [f \in FoldsOfData |-> FoldRow(f)])'
  BY <1>14
<1> QED
  BY <1>6, <1>14, <1>15, <1>16, <1>17, <1>18 DEF SearchInv
\* What a report says of a fold depends on the choice and the rows.
LEMMA SameRows ==
    ASSUME UNCHANGED <<data, grid, c, best, testRows>>
    PROVE  \A f : FoldRow(f)' = FoldRow(f)
<1>1. \A f : SplitOf(f)' = SplitOf(f)
  BY SameSearch
<1>2. \A e : TestRow(e)' = TestRow(e)
  BY DEF TestRow
<1> QED
  BY <1>1, <1>2 DEF FoldRow

\* The report keeps it.
LEMMA ReportKeepsSearch == SearchInv /\ Report => SearchInv'
<1> SUFFICES ASSUME SearchInv, Report PROVE SearchInv'
  OBVIOUS
<1>1. /\ at = Len(Evaluations) /\ UNCHANGED <<data, grid, c, at, best, testRows>>
      /\ report' = {[folds |-> [f \in FoldsOfData |-> FoldRow(f)],
                     aggregate |-> Aggregate, summary |-> Summary, expectancy |-> TopExpectancy]}
  BY DEF Report
<1>2. /\ Given' = Given /\ Evaluations' = Evaluations /\ FoldsOfData' = FoldsOfData
      /\ \A f, n : Leaders(f, n)' = Leaders(f, n) /\ Candidates(f, n)' = Candidates(f, n)
      /\ \A k : Entry(k)' = Entry(k)
      /\ \A d : Tested(data, d)' = Tested(data, d)
  BY <1>1, SameSearch
<1>3. \A f : FoldRow(f)' = FoldRow(f)
  BY <1>1, SameRows
<1>4. \A r \in report' : r.folds = [f \in FoldsOfData |-> FoldRow(f)]
  BY <1>1
<1>5. (\A r \in report :
          at = Len(Evaluations) /\ r.folds = [f \in FoldsOfData |-> FoldRow(f)])'
  BY <1>1, <1>2, <1>3, <1>4
<1>6. (best = [f \in FoldsOfData |-> {Entry(k) : k \in Leaders(f, at)}])'
  <2>1. best = [f \in FoldsOfData |-> {Entry(k) : k \in Leaders(f, at)}]
    BY DEF SearchInv
  <2>2. \A f \in FoldsOfData : {Entry(k) : k \in Leaders(f, at)}' = {Entry(k) : k \in Leaders(f, at)}
    BY <1>1, <1>2
  <2> QED
    BY <1>1, <1>2, <2>1, <2>2
<1>7. (\A f \in FoldsOfData : Candidates(f, at) # {} => Leaders(f, at) # {})'
  BY <1>1, <1>2 DEF SearchInv
<1>8. (testRows = [k \in 1 .. at |-> [config |-> Evaluations[k], metrics |-> Tested(data, Evaluations[k])]])'
  BY <1>1, <1>2 DEF SearchInv
<1>9. (Given /\ at \in 0 .. Len(Evaluations))'
  BY <1>1, <1>2 DEF SearchInv
<1> QED
  BY <1>5, <1>6, <1>7, <1>8, <1>9 DEF SearchInv

\* The rest of the program does not touch it.
LEMMA RestKeepsSearch == SearchInv /\ UNCHANGED optimizer => SearchInv'
<1> SUFFICES ASSUME SearchInv, UNCHANGED optimizer PROVE SearchInv'
  OBVIOUS
<1>1. UNCHANGED <<data, grid, c, at, best, testRows, report>>
  BY DEF optimizer
<1>2. /\ Given' = Given /\ Evaluations' = Evaluations /\ FoldsOfData' = FoldsOfData
      /\ \A f, n : Leaders(f, n)' = Leaders(f, n) /\ Candidates(f, n)' = Candidates(f, n)
      /\ \A k : Entry(k)' = Entry(k)
      /\ \A d : Tested(data, d)' = Tested(data, d)
  BY <1>1, SameSearch
<1>3. \A f : FoldRow(f)' = FoldRow(f)
  BY <1>1, SameRows
<1>5. (\A r \in report :
          at = Len(Evaluations) /\ r.folds = [f \in FoldsOfData |-> FoldRow(f)])'
  <2>1. \A r \in report : at = Len(Evaluations) /\ r.folds = [f \in FoldsOfData |-> FoldRow(f)]
    BY DEF SearchInv
  <2> QED
    BY <1>1, <1>2, <1>3, <2>1
<1>6. (best = [f \in FoldsOfData |-> {Entry(k) : k \in Leaders(f, at)}])'
  <2>1. best = [f \in FoldsOfData |-> {Entry(k) : k \in Leaders(f, at)}]
    BY DEF SearchInv
  <2>2. \A f \in FoldsOfData : {Entry(k) : k \in Leaders(f, at)}' = {Entry(k) : k \in Leaders(f, at)}
    BY <1>1, <1>2
  <2> QED
    BY <1>1, <1>2, <2>1, <2>2
<1>7. (\A f \in FoldsOfData : Candidates(f, at) # {} => Leaders(f, at) # {})'
  BY <1>1, <1>2 DEF SearchInv
<1>8. (testRows = [k \in 1 .. at |-> [config |-> Evaluations[k], metrics |-> Tested(data, Evaluations[k])]])'
  BY <1>1, <1>2 DEF SearchInv
<1>9. (Given /\ at \in 0 .. Len(Evaluations))'
  BY <1>1, <1>2 DEF SearchInv
<1> QED
  BY <1>5, <1>6, <1>7, <1>8, <1>9 DEF SearchInv

\* At any time the best of a fold is the first of the best evaluations so far that may
\* be chosen for it, every evaluation so far has one row, its own, and a report is
\* written once, when all evaluations are done, of nothing but these.
THEOREM SearchIsOfEvaluations == StudySpec => []SearchInv
<1>1. SearchInv /\ [StudyNext]_<<optimizer, study>> => SearchInv'
  <2> SUFFICES ASSUME SearchInv, [StudyNext]_<<optimizer, study>> PROVE SearchInv'
    OBVIOUS
  <2>1. CASE Evaluate
    BY <2>1, EvaluateKeepsSearch
  <2>2. CASE Report
    BY <2>2, ReportKeepsSearch
  <2>3. CASE ChooseKey
    BY <2>3, RestKeepsSearch DEF ChooseKey
  <2>4. CASE TryVariant
    BY <2>4, RestKeepsSearch DEF TryVariant
  <2>5. CASE UNCHANGED <<optimizer, study>>
    BY <2>5, RestKeepsSearch
  <2> QED
    BY <2>1, <2>2, <2>3, <2>4, <2>5 DEF StudyNext, OptimizerNext
<1> QED
  BY <1>1, StartOfSearch, PTL DEF StudySpec
-----------------------------------------------------------------------------
(* What is reported.                                                       *)

\* What is chosen for a fold is an evaluation on that fold, and its row is found.
LEMMA ChoiceIs ==
    ASSUME SearchInv, NEW f \in FoldsOfData, NEW k \in Leaders(f, at)
    PROVE  /\ k \in 1 .. Len(Evaluations)
           /\ IsEvaluation(Evaluations[k]) /\ Evaluations[k].fold = f
           /\ TestRow(Evaluations[k]).metrics = Tested(data, Evaluations[k])
<1>1. /\ Given /\ at \in 0 .. Len(Evaluations)
      /\ testRows = [i \in 1 .. at |-> [config |-> Evaluations[i], metrics |-> Tested(data, Evaluations[i])]]
  BY DEF SearchInv
<1>2. Len(Evaluations) \in Nat
  BY <1>1, EvaluationsAre
<1>3. k \in 1 .. at /\ Evaluations[k].fold = f
  BY DEF Leaders, Candidates
<1>4. k \in 1 .. Len(Evaluations)
  BY <1>1, <1>2, <1>3
<1>5. IsEvaluation(Evaluations[k])
  BY <1>1, <1>4, EvaluationsAre
<1> DEFINE S == {i \in DOMAIN testRows : testRows[i].config = Evaluations[k]}
<1>6. DOMAIN testRows = 1 .. at /\ \A i \in 1 .. at :
         testRows[i].config = Evaluations[i] /\ testRows[i].metrics = Tested(data, Evaluations[i])
  BY <1>1
<1>7. k \in S /\ S \subseteq Nat
  BY <1>1, <1>2, <1>3, <1>6
<1> HIDE DEF S
<1>8. Min(S) \in S
  BY <1>7, MinIsLeast
<1>9. Min(S) \in 1 .. at /\ Evaluations[Min(S)] = Evaluations[k]
  BY <1>6, <1>8 DEF S
<1>10. testRows[Min(S)].metrics = Tested(data, Evaluations[k])
  BY <1>6, <1>9
<1>11. TestRow(Evaluations[k]).metrics = Tested(data, Evaluations[k])
  BY <1>10 DEF TestRow, S
<1> QED
  BY <1>3, <1>4, <1>5, <1>11

LEMMA ChosenAre ==
    ASSUME SearchInv, NEW r \in report, NEW f \in FoldsOfData, NEW z \in r.folds[f].chosen
    PROVE  /\ IsEvaluation(z.config) /\ z.config.fold = f
           /\ z.test = Tested(data, z.config)
<1>1. /\ r.folds = [g \in FoldsOfData |-> FoldRow(g)]
      /\ best = [g \in FoldsOfData |-> {Entry(k) : k \in Leaders(g, at)}]
  BY DEF SearchInv
<1>2. z \in FoldRow(f).chosen
  BY <1>1
<1>3. PICK b \in best[f] :
         z = [config |-> b.config, train |-> b.metrics, test |-> TestRow(b.config).metrics]
  BY <1>2 DEF FoldRow
<1>4. PICK k \in Leaders(f, at) : b = Entry(k)
  BY <1>1, <1>3
<1>5. b.config = Evaluations[k]
  BY <1>4 DEF Entry
<1>6. z.config = Evaluations[k] /\ z.test = TestRow(Evaluations[k]).metrics
  BY <1>3, <1>5
<1> QED
  BY <1>6, ChoiceIs

\* The test trades of a choice lie in the test of its fold.
LEMMA ChosenTrades ==
    ASSUME SearchInv, NEW r \in report, NEW f \in FoldsOfData, NEW z \in r.folds[f].chosen
    PROVE  LET made == TradesOn(data, z.config, SplitOf(f).testFrom, SplitOf(f).testTo) IN
           \A i \in DOMAIN made :
              /\ made[i].entry \in Nat /\ made[i].exit \in Nat
              /\ SplitOf(f).testFrom <= made[i].entry /\ made[i].exit <= SplitOf(f).testTo
<1> DEFINE from == SplitOf(f).testFrom
           to == SplitOf(f).testTo
           made == TradesOn(data, z.config, from, to)
<1>1. Given
  BY DEF SearchInv
<1>2. IsEvaluation(z.config)
  BY ChosenAre
<1>3. from \in Nat /\ to \in Nat
  BY <1>1, SplitIs
<1> HIDE DEF from, to
<1>4. made \in Seq(Inside(from, to))
  BY <1>1, <1>2, <1>3, TradesOnAre
<1> HIDE DEF made
<1>5. \A i \in DOMAIN made : made[i] \in Inside(from, to)
  BY <1>4
<1>6. \A i \in DOMAIN made : /\ made[i].entry \in Nat /\ made[i].exit \in Nat
                             /\ from <= made[i].entry /\ made[i].exit <= to
  BY <1>5 DEF Inside, AnyTrade
<1> QED
  BY <1>6 DEF from, to, made

\* The tests of the folds could have been traded one after the other on one account:
\* no position of one overlaps those of another or the training it was chosen on, for
\* every history, grid and division (walk_forward.py:95-113, backtest.py:155-200).
THEOREM TestsOnOneAccount == StudySpec => []OneAccount
<1>1. SearchInv => OneAccount
  <2> SUFFICES ASSUME SearchInv, NEW r \in report, NEW f \in FoldsOfData, NEW g \in FoldsOfData,
                      NEW y \in r.folds[f].chosen, NEW z \in r.folds[g].chosen
               PROVE  LET mine == TradesOn(data, y.config, SplitOf(f).testFrom, SplitOf(f).testTo)
                          other == TradesOn(data, z.config, SplitOf(g).testFrom, SplitOf(g).testTo)
                      IN  /\ \A i \in DOMAIN mine : SplitOf(f).trainTo < mine[i].entry
                          /\ f < g => \A i \in DOMAIN mine, j \in DOMAIN other :
                                         mine[i].exit < other[j].entry
    BY DEF OneAccount
  <2> DEFINE mine == TradesOn(data, y.config, SplitOf(f).testFrom, SplitOf(f).testTo)
             other == TradesOn(data, z.config, SplitOf(g).testFrom, SplitOf(g).testTo)
  <2>1. \A i \in DOMAIN mine :
           /\ mine[i].entry \in Nat /\ mine[i].exit \in Nat
           /\ SplitOf(f).testFrom <= mine[i].entry /\ mine[i].exit <= SplitOf(f).testTo
    BY ChosenTrades
  <2>2. \A j \in DOMAIN other : other[j].entry \in Nat /\ SplitOf(g).testFrom <= other[j].entry
    BY ChosenTrades
  <2>3. /\ SplitOf(f).trainTo \in Nat /\ SplitOf(f).testFrom \in Nat /\ SplitOf(f).testTo \in Nat
        /\ SplitOf(f).trainTo < SplitOf(f).testFrom
        /\ f < g => SplitOf(f).testTo < SplitOf(g).testFrom
        /\ SplitOf(g).testFrom \in Nat
    BY SplitIs DEF SearchInv
  <2> HIDE DEF mine, other
  <2>4. \A i \in DOMAIN mine : SplitOf(f).trainTo < mine[i].entry
    BY <2>1, <2>3
  <2>5. f < g => \A i \in DOMAIN mine, j \in DOMAIN other : mine[i].exit < other[j].entry
    BY <2>1, <2>2, <2>3
  <2> QED
    BY <2>4, <2>5 DEF mine, other
<1> QED
  BY <1>1, SearchIsOfEvaluations, PTL

\* What is reported for a fold is what its choice does on the data of the test days
\* alone, whatever else was recorded (walk_forward.py:343-377).
THEOREM ReportIsOfSelected == StudySpec => []ReportedIsSelected
<1>1. SearchInv => ReportedIsSelected
  <2> SUFFICES ASSUME SearchInv, NEW r \in report, NEW f \in FoldsOfData
               PROVE  LET test == Cut(SplitOf(f).testFrom, SplitOf(f).testTo) IN
                      {[config |-> y.config, test |-> y.test] : y \in r.folds[f].chosen} =
                          {[config |-> b.config,
                            test |-> MetricsOn(test, b.config, SplitOf(f).testFrom, SplitOf(f).testTo)] :
                              b \in best[f]}
    BY DEF ReportedIsSelected
  <2> DEFINE from == SplitOf(f).testFrom
             to == SplitOf(f).testTo
             Alone(e) == MetricsOn(Cut(from, to), e, from, to)
  <2>1. /\ Given /\ r.folds = [g \in FoldsOfData |-> FoldRow(g)]
        /\ best = [g \in FoldsOfData |-> {Entry(k) : k \in Leaders(g, at)}]
    BY DEF SearchInv
  <2>2. from \in Nat /\ to \in Nat
    BY <2>1, SplitIs
  <2>3. r.folds[f].chosen =
           {[config |-> b.config, train |-> b.metrics, test |-> TestRow(b.config).metrics] : b \in best[f]}
    BY <2>1 DEF FoldRow
  <2>4. ASSUME NEW b \in best[f] PROVE TestRow(b.config).metrics = Alone(b.config)
    <3>1. PICK k \in Leaders(f, at) : b = Entry(k)
      BY <2>1
    <3> DEFINE e == Evaluations[k]
    <3>2. b.config = e
      BY <3>1 DEF Entry
    <3>3. IsEvaluation(e) /\ e.fold = f /\ TestRow(e).metrics = Tested(data, e)
      BY ChoiceIs
    <3>4. Tested(data, e) = MetricsOn(data, e, from, to)
      BY <3>3 DEF Tested
    <3> HIDE DEF from, to, e
    <3>5. MetricsOn(Cut(from, to), e, from, to) = MetricsOn(data, e, from, to)
      BY <2>1, <2>2, <3>3, TradesOnAre
    <3> QED
      BY <3>2, <3>3, <3>4, <3>5
  <2> HIDE DEF Alone
  <2>5. {[config |-> y.config, test |-> y.test] : y \in r.folds[f].chosen} =
           {[config |-> b.config, test |-> Alone(b.config)] : b \in best[f]}
    <3> DEFINE RowOf(b) == [config |-> b.config, train |-> b.metrics, test |-> TestRow(b.config).metrics]
               R == r.folds[f].chosen
    <3>1. R = {RowOf(b) : b \in best[f]}
      BY <2>3
    <3>2. \A b \in best[f] : RowOf(b).config = b.config /\ RowOf(b).test = Alone(b.config)
      BY <2>4
    <3> HIDE DEF R, RowOf
    <3> DEFINE View(y) == [config |-> y.config, test |-> y.test]
               Due(b) == [config |-> b.config, test |-> Alone(b.config)]
    <3>3. \A b \in best[f] : RowOf(b) \in R /\ View(RowOf(b)) = Due(b)
      BY <3>1, <3>2
    <3> HIDE DEF View, Due
    <3>4. {View(y) : y \in R} = {Due(b) : b \in best[f]}
      BY <3>1, <3>3
    <3>5. {[config |-> y.config, test |-> y.test] : y \in R} =
             {[config |-> b.config, test |-> Alone(b.config)] : b \in best[f]}
      BY <3>4 DEF View, Due
    <3> QED
      BY <3>5 DEF R
  <2> QED
    BY <2>5 DEF Alone
<1> QED
  BY <1>1, SearchIsOfEvaluations, PTL
\* Judged on nothing but the data of the training days, an evaluation has the score it
\* has among all data, and none when it may not be chosen.
LEMMA TrainScoresAre ==
    ASSUME Given, NEW f \in FoldsOfData
    PROVE  LET L == Len(Evaluations) IN
           /\ DOMAIN TrainScores(f) = {k \in 1 .. L : Evaluations[k].fold = f}
           /\ \A k \in DOMAIN TrainScores(f) :
                 TrainScores(f)[k] = IF k \in Candidates(f, L) THEN {Score(k)} ELSE {}
<1> DEFINE L == Len(Evaluations)
           from == SplitOf(f).trainFrom
           to == SplitOf(f).trainTo
           K == {k \in DOMAIN Evaluations : Evaluations[k].fold = f}
           M(k) == MetricsOn(Cut(from, to), Evaluations[k], from, to)
           ScoresOf(m) == IF Admissible(m, c) THEN {ObjectiveValue(m, c.objective)} ELSE {}
<1>1. TrainScores(f) = [k \in K |-> ScoresOf(M(k))]
  BY DEF TrainScores
<1>2. K = {k \in 1 .. L : Evaluations[k].fold = f}
  BY EvaluationsAre
<1>3. from \in Nat /\ to \in Nat
  BY SplitIs
<1>4. ASSUME NEW k \in K
      PROVE  ScoresOf(M(k)) = IF k \in Candidates(f, L) THEN {Score(k)} ELSE {}
  <2> DEFINE e == Evaluations[k]
  <2>1. IsEvaluation(e) /\ e.fold = f /\ k \in 1 .. L
    BY <1>2, EvaluationsAre
  <2>2. Trained(data, e) = MetricsOn(data, e, from, to)
    BY <2>1 DEF Trained
  <2> HIDE DEF from, to, e
  <2>3. MetricsOn(Cut(from, to), e, from, to) = MetricsOn(data, e, from, to)
    BY <1>3, <2>1, TradesOnAre
  <2>4. M(k) = Trained(data, Evaluations[k])
    BY <2>2, <2>3 DEF e
  <2>5. k \in Candidates(f, L) <=> Admissible(M(k), c)
    BY <2>1, <2>4 DEF Candidates, e
  <2>6. Score(k) = ObjectiveValue(M(k), c.objective)
    BY <2>4 DEF Score
  <2> HIDE DEF M
  <2> QED
    BY <2>5, <2>6
<1> HIDE DEF M, ScoresOf, K
<1>5. DOMAIN TrainScores(f) = K /\ \A k \in K : TrainScores(f)[k] = ScoresOf(M(k))
  BY <1>1
<1> QED
  BY <1>2, <1>4, <1>5

\* The choice of a fold is the first best among the admissible, judged on nothing but the
\* data of its training days, for every history, grid and objective (walk_forward.py:343,
\* pfd_optimizer/README.md:181).
THEOREM SelectionIsOfTrain == StudySpec => []SelectionSeesTrainOnly
<1>1. SearchInv => SelectionSeesTrainOnly
  <2> SUFFICES ASSUME SearchInv, at = Len(Evaluations), NEW f \in FoldsOfData
               PROVE  {b.config : b \in best[f]} = {Evaluations[k] : k \in FirstBest(TrainScores(f))}
    BY DEF SelectionSeesTrainOnly
  <2> DEFINE L == Len(Evaluations)
             score == TrainScores(f)
             C == Candidates(f, L)
  <2>1. /\ Given
        /\ best = [g \in FoldsOfData |-> {Entry(k) : k \in Leaders(g, L)}]
    BY DEF SearchInv
  <2>2. /\ DOMAIN score = {k \in 1 .. L : Evaluations[k].fold = f}
        /\ \A k \in DOMAIN score : score[k] = IF k \in C THEN {Score(k)} ELSE {}
    BY <2>1, TrainScoresAre
  <2>3. C \subseteq DOMAIN score
    BY <2>2 DEF Candidates
  <2>4. FirstBest(score) =
           {k \in DOMAIN score : \E v \in score[k] :
               \A j \in DOMAIN score : \A w \in score[j] : ~Greater(w, v) /\ (j < k => Greater(v, w))}
    BY DEF FirstBest
  <2>5. Leaders(f, L) =
           {k \in C : \A j \in C : ~Greater(Score(j), Score(k)) /\ (j < k => Greater(Score(k), Score(j)))}
    BY DEF Leaders
  <2> HIDE DEF score, C, L
  <2>6. ASSUME NEW k \in FirstBest(score) PROVE k \in Leaders(f, L)
    <3>1. PICK v \in score[k] :
             \A j \in DOMAIN score : \A w \in score[j] : ~Greater(w, v) /\ (j < k => Greater(v, w))
      BY <2>4
    <3>2. k \in DOMAIN score
      BY <2>4
    <3>3. k \in C /\ v = Score(k)
      <4>1. score[k] = IF k \in C THEN {Score(k)} ELSE {}
        BY <2>2, <3>2
      <4>2. v \in score[k]
        OBVIOUS
      <4> QED
        BY <4>1, <4>2
    <3>4. \A j \in C : Score(j) \in score[j] /\ j \in DOMAIN score
      BY <2>2, <2>3
    <3> QED
      BY <2>5, <3>1, <3>3, <3>4
  <2>7. ASSUME NEW k \in Leaders(f, L) PROVE k \in FirstBest(score)
    <3>1. k \in C /\ \A j \in C :
             ~Greater(Score(j), Score(k)) /\ (j < k => Greater(Score(k), Score(j)))
      BY <2>5
    <3>2. k \in DOMAIN score /\ Score(k) \in score[k]
      BY <2>2, <2>3, <3>1
    <3>3. \A j \in DOMAIN score : \A w \in score[j] : j \in C /\ w = Score(j)
      BY <2>2
    <3>4. \A j \in DOMAIN score : \A w \in score[j] :
             ~Greater(w, Score(k)) /\ (j < k => Greater(Score(k), w))
      BY <3>1, <3>3
    <3> QED
      BY <2>4, <3>2, <3>4
  <2>8. FirstBest(score) = Leaders(f, L)
    BY <2>6, <2>7
  <2>9. best[f] = {Entry(k) : k \in Leaders(f, L)} /\ \A k : Entry(k).config = Evaluations[k]
    BY <2>1 DEF Entry
  <2>10. {b.config : b \in best[f]} = {Evaluations[k] : k \in Leaders(f, L)}
    BY <2>9
  <2> QED
    BY <2>8, <2>10 DEF score
<1> QED
  BY <1>1, SearchIsOfEvaluations, PTL
-----------------------------------------------------------------------------
(* What the metrics say of the trades.                                     *)

\* The recursive function that the sum of a function over a set unfolds to.
AnyOf(S) == CHOOSE r \in S : TRUE

TotalSteps(f, R) ==
    CHOOSE g : g = [S \in SUBSET R |-> IF S = {} THEN 0 ELSE f[AnyOf(S)] + g[S \ {AnyOf(S)}]]

LEMMA TotalUnfolds ==
    ASSUME NEW f
    PROVE  SumFunction(f) = TotalSteps(f, DOMAIN f)[DOMAIN f]
BY DEF SumFunction, SumFunctionOnSet, FoldFunctionOnSet, MapThenFoldSet, TotalSteps, AnyOf

\* A function of the subsets that grows with each element by its term.
Grows(h, f, R) ==
    /\ h \in [SUBSET R -> Int] /\ h[{}] = 0
    /\ \A S \in SUBSET R : \A r \in S : h[S] = f[r] + h[S \ {r}]

\* It leads to the sum.
LEMMA TotalIs ==
    ASSUME NEW R, IsFiniteSet(R), NEW f, DOMAIN f = R, NEW h, Grows(h, f, R)
    PROVE  SumFunction(f) = h[R]
<1> DEFINE g == TotalSteps(f, R)
<1>1. \A S \in SUBSET R : S # {} => AnyOf(S) \in S
  BY DEF AnyOf
<1>2. \A S \in SUBSET R : h[S] = IF S = {} THEN 0 ELSE f[AnyOf(S)] + h[S \ {AnyOf(S)}]
  BY <1>1 DEF Grows
<1>3. h = [S \in SUBSET R |-> IF S = {} THEN 0 ELSE f[AnyOf(S)] + h[S \ {AnyOf(S)}]]
  BY <1>2 DEF Grows
<1>4. TotalSteps(f, R) =
         [S \in SUBSET R |-> IF S = {} THEN 0 ELSE f[AnyOf(S)] + TotalSteps(f, R)[S \ {AnyOf(S)}]]
  BY ONLY <1>3 DEF TotalSteps
<1> HIDE DEF g
<1>5. \A S \in SUBSET R : g[S] = IF S = {} THEN 0 ELSE f[AnyOf(S)] + g[S \ {AnyOf(S)}]
  BY ONLY <1>4 DEF g
<1> DEFINE Bad == {m \in Nat : \E S \in SUBSET R : Cardinality(S) = m /\ g[S] # h[S]}
<1>6. \A S \in SUBSET R : Cardinality(S) \in Nat /\ IsFiniteSet(S)
  BY FS_Subset, FS_CardinalityType
<1>7. Bad = {}
  <2> SUFFICES ASSUME Bad # {} PROVE FALSE
    OBVIOUS
  <2>1. Min(Bad) \in Bad /\ \A m \in Bad : Min(Bad) <= m
    BY MinIsLeast
  <2>2. PICK S \in SUBSET R : Cardinality(S) = Min(Bad) /\ g[S] # h[S]
    BY <2>1
  <2>3. S # {}
    BY <1>2, <1>5, <2>2
  <2> DEFINE T == S \ {AnyOf(S)}
  <2>4. Cardinality(T) = Cardinality(S) - 1 /\ T \in SUBSET R
    BY <1>1, <1>6, <2>3, FS_RemoveElement
  <2>5. g[S] = f[AnyOf(S)] + g[T] /\ h[S] = f[AnyOf(S)] + h[T]
    BY <1>2, <1>5, <2>3
  <2> HIDE DEF T
  <2>6. g[T] = h[T]
    <3>1. Cardinality(T) \notin Bad
      BY <1>6, <2>1, <2>2, <2>4
    <3> QED
      BY <1>6, <2>4, <3>1
  <2> QED
    BY <2>2, <2>5, <2>6
<1>8. g[R] = h[R]
  BY <1>6, <1>7
<1>9. SumFunction(f) = g[R]
  BY TotalUnfolds DEF g
<1> QED
  BY <1>8, <1>9

\* Of things of which each has one reason, those of one reason and those of another one
\* are all together.
LEMMA SumOfCounts ==
    ASSUME NEW R, IsFiniteSet(R), NEW D, IsFiniteSet(D), NEW why \in [D -> R]
    PROVE  SumFunction([r \in R |-> Cardinality({n \in D : why[n] = r})]) = Cardinality(D)
<1> DEFINE f == [r \in R |-> Cardinality({n \in D : why[n] = r})]
           Of(S) == {n \in D : why[n] \in S}
           h == [S \in SUBSET R |-> Cardinality(Of(S))]
<1>1. DOMAIN f = R /\ \A r \in R : f[r] = Cardinality({n \in D : why[n] = r})
  OBVIOUS
<1>2. \A S \in SUBSET R : h[S] = Cardinality(Of(S)) /\ IsFiniteSet(Of(S)) /\ Cardinality(Of(S)) \in Nat
  <2>1. \A S \in SUBSET R : Of(S) \subseteq D
    OBVIOUS
  <2>2. \A S \in SUBSET R : h[S] = Cardinality(Of(S))
    OBVIOUS
  <2> HIDE DEF h, Of
  <2>3. \A S \in SUBSET R : IsFiniteSet(Of(S))
    BY <2>1, FS_Subset
  <2>4. \A S \in SUBSET R : Cardinality(Of(S)) \in Nat
    BY <2>3, FS_CardinalityType
  <2> TAKE S \in SUBSET R
  <2>5. h[S] = Cardinality(Of(S))
    BY <2>2
  <2>6. IsFiniteSet(Of(S)) /\ Cardinality(Of(S)) \in Nat
    BY <2>3, <2>4
  <2> QED
    BY <2>5, <2>6
<1>3. h \in [SUBSET R -> Int]
  <2>1. h = [S \in SUBSET R |-> Cardinality(Of(S))]
    OBVIOUS
  <2> HIDE DEF h, Of
  <2>2. \A S \in SUBSET R : Cardinality(Of(S)) \in Int
    BY <1>2
  <2> QED
    BY <2>1, <2>2
<1>4. h[{}] = 0
  <2>1. Of({}) = {} /\ {} \in SUBSET R
    OBVIOUS
  <2> HIDE DEF h, Of
  <2> QED
    BY <1>2, <2>1, FS_EmptySet
<1>5. ASSUME NEW S \in SUBSET R, NEW r \in S PROVE h[S] = f[r] + h[S \ {r}]
  <2> DEFINE A == {n \in D : why[n] = r}
             B == Of(S \ {r})
  <2>1. Of(S) = A \cup B /\ A \cap B = {} /\ A \subseteq D
    OBVIOUS
  <2>2. f[r] = Cardinality(A)
    BY <1>1
  <2>3. h[S] = Cardinality(Of(S)) /\ h[S \ {r}] = Cardinality(B) /\ IsFiniteSet(B)
    <3>1. S \ {r} \in SUBSET R
      OBVIOUS
    <3> HIDE DEF h, Of
    <3> QED
      BY <1>2, <3>1
  <2> HIDE DEF A, B, f, h, Of
  <2>4. IsFiniteSet(A)
    BY <2>1, FS_Subset
  <2>5. Cardinality(A \cup B) = Cardinality(A) + Cardinality(B) - Cardinality(A \cap B)
    BY <2>3, <2>4, FS_Union
  <2>6. Cardinality(A \cap B) = 0 /\ Cardinality(A) \in Nat /\ Cardinality(B) \in Nat
    BY <2>1, <2>3, <2>4, FS_EmptySet, FS_CardinalityType
  <2> QED
    BY <2>1, <2>2, <2>3, <2>5, <2>6
<1>6. h[R] = Cardinality(D)
  <2>1. Of(R) = D /\ R \in SUBSET R
    OBVIOUS
  <2> HIDE DEF h, Of
  <2> QED
    BY <1>2, <2>1
<1> HIDE DEF f, h
<1>7. SumFunction(f) = h[R]
  <2>1. Grows(h, f, R)
    BY <1>3, <1>4, <1>5 DEF Grows
  <2> QED
    BY <1>1, <2>1, TotalIs
<1> QED
  BY <1>6, <1>7 DEF f

\* The greatest fall between two points of the equity.
LEMMA FallsAre ==
    ASSUME NEW s \in Seq(Int)
    PROVE  LET falls == {EquityAt(s, p[1]) - EquityAt(s, p[2]) :
                            p \in {q \in (0 .. Len(s)) \X (0 .. Len(s)) : q[1] <= q[2]}}
           IN  MaxDrawdown(s) = Max(falls)
<1> DEFINE N == 0 .. Len(s)
           P == {q \in N \X N : q[1] <= q[2]}
           Fall(p) == EquityAt(s, p[1]) - EquityAt(s, p[2])
           falls == {Fall(p) : p \in P}
           d == MaxDrawdown(s)
<1>1. /\ \A p \in N : EquityAt(s, p) \in Int
      /\ \A p \in N, q \in N : p <= q => EquityAt(s, p) - EquityAt(s, q) <= d
      /\ \E p \in N, q \in N : p <= q /\ d = EquityAt(s, p) - EquityAt(s, q)
  BY CurvesAre, DrawdownIs DEF IsCurve
<1> HIDE DEF N, d
<1>2. \A p \in P : Fall(p) \in Int /\ Fall(p) <= d
  <2> TAKE p \in P
  <2>1. p[1] \in N /\ p[2] \in N /\ p[1] <= p[2]
    OBVIOUS
  <2>2. EquityAt(s, p[1]) \in Int /\ EquityAt(s, p[2]) \in Int
        /\ EquityAt(s, p[1]) - EquityAt(s, p[2]) <= d
    BY <1>1, <2>1
  <2> QED
    BY <2>2
<1>3. \E p \in P : d = Fall(p)
  <2>1. PICK y \in N, z \in N : y <= z /\ d = EquityAt(s, y) - EquityAt(s, z)
    BY <1>1
  <2>2. <<y, z>> \in P /\ Fall(<<y, z>>) = d
    BY <2>1
  <2> QED
    BY <2>2
<1> HIDE DEF P, Fall
<1>4. falls \subseteq Int /\ d \in falls /\ \A y \in falls : y <= d
  BY <1>2, <1>3
<1> HIDE DEF falls
<1>5. Max(falls) = d
  BY <1>4, GreatestIs
<1> QED
  BY <1>5 DEF falls, P, Fall, N, d

\* Each trade has one reason.
LEMMA ReasonsAddUp ==
    ASSUME NEW made \in Seq(AnyTrade), NEW marks, NEW from, NEW to
    PROVE  SumFunction(Metrics(made, marks, from, to).closed) = Len(made)
<1> DEFINE R == {"tp", "sl", "timeout", "signal", "trail"}
           D == DOMAIN made
           why == [n \in D |-> made[n].reason]
<1>1. Metrics(made, marks, from, to).closed =
         [r \in R |-> Cardinality({n \in D : made[n].reason = r})]
  BY DEF Metrics
<1>2. IsFiniteSet(R)
  <2>1. IsFiniteSet({}) /\ IsFiniteSet({"tp"}) /\ IsFiniteSet({"sl"}) /\ IsFiniteSet({"timeout"})
        /\ IsFiniteSet({"signal"}) /\ IsFiniteSet({"trail"})
    BY FS_EmptySet, FS_Singleton
  <2>2. IsFiniteSet({"tp"} \cup {"sl"})
    BY <2>1, FS_Union
  <2>3. IsFiniteSet({"timeout"} \cup {"signal"})
    BY <2>1, FS_Union
  <2>4. IsFiniteSet(({"tp"} \cup {"sl"}) \cup ({"timeout"} \cup {"signal"}))
    BY <2>2, <2>3, FS_Union
  <2>5. IsFiniteSet((({"tp"} \cup {"sl"}) \cup ({"timeout"} \cup {"signal"})) \cup {"trail"})
    BY <2>1, <2>4, FS_Union
  <2>6. R = (({"tp"} \cup {"sl"}) \cup ({"timeout"} \cup {"signal"})) \cup {"trail"}
    OBVIOUS
  <2> QED
    BY <2>5, <2>6
<1>3. D = 1 .. Len(made) /\ Len(made) \in Nat
  OBVIOUS
<1>4. IsFiniteSet(D) /\ Cardinality(D) = Len(made)
  BY <1>3, FS_Interval
<1>5. \A n \in D : made[n].reason \in R
  <2>1. \A n \in D : made[n] \in AnyTrade
    OBVIOUS
  <2> QED
    BY <2>1 DEF AnyTrade, Reasons
<1>6. why \in [D -> R]
  BY <1>5
<1>7. [r \in R |-> Cardinality({n \in D : made[n].reason = r})]
         = [r \in R |-> Cardinality({n \in D : why[n] = r})]
  <2>1. \A r \in R : {n \in D : made[n].reason = r} = {n \in D : why[n] = r}
    OBVIOUS
  <2> HIDE DEF R, D, why
  <2> QED
    BY <2>1
<1> HIDE DEF R, D, why
<1>8. SumFunction([r \in R |-> Cardinality({n \in D : why[n] = r})]) = Cardinality(D)
  BY <1>2, <1>4, <1>6, SumOfCounts
<1> QED
  BY <1>1, <1>4, <1>7, <1>8

\* The metrics of an evaluation agree with its trades and with each other: the drawdown
\* is the greatest fall between two points of the equity, each trade has one reason, and
\* no more time is spent in positions than there is, for every history, grid and
\* division (metrics.py:21-47, 143-177).
THEOREM MetricsOfTrades == StudySpec => []MetricsAgree
<1>1. SearchInv => MetricsAgree
  <2> SUFFICES ASSUME SearchInv, at > 0 PROVE MetricsAgree
    BY DEF MetricsAgree
  <2> DEFINE e == Evaluations[at]
             from == SplitOf(e.fold).testFrom
             to == SplitOf(e.fold).testTo
             made == TradesOn(data, e, from, to)
             part == Part(data.signals[e.signal], from, to)
             m == Metrics(made, part, from, to)
             pnls == Pnls(made)
             Fallen(n) == {EquityAt(pnls, p[1]) - EquityAt(pnls, p[2]) :
                              p \in {q \in (0 .. n) \X (0 .. n) : q[1] <= q[2]}}
  <2>1. /\ Given /\ at \in 0 .. Len(Evaluations)
        /\ testRows = [i \in 1 .. at |-> [config |-> Evaluations[i], metrics |-> Tested(data, Evaluations[i])]]
    BY DEF SearchInv
  <2>2. Len(Evaluations) \in Nat
    BY <2>1, EvaluationsAre
  <2>3. at \in 1 .. at /\ at \in 1 .. Len(Evaluations)
    BY <2>1, <2>2
  <2>4. IsEvaluation(e) /\ e.fold \in FoldsOfData
    BY <2>1, <2>3, EvaluationsAre DEF IsEvaluation
  <2>5. from \in Nat /\ to \in Nat /\ from <= to
    BY <2>1, <2>4, SplitIs
  <2>6. testRows[at].config = e /\ testRows[at].metrics = m
    BY <2>1, <2>3 DEF Tested, MetricsOn
  <2>7. made \in Seq(AnyTrade) /\ TimeInPosition(made, from, to) <= Later(0, to - from)
        /\ made \in Seq(Inside(from, to))
    <3> HIDE DEF from, to, e
    <3> QED
      BY <2>1, <2>4, <2>5, TradesOnAre
  <2>8. m.n = Len(made) /\ m.drawdown = MaxDrawdown(pnls)
        /\ m.inPos = TimeInPosition(made, from, to) /\ m.total = to - from
    BY DEF Metrics
  <2>9. SumFunction(m.closed) = m.n
    <3>1. SumFunction(Metrics(made, part, from, to).closed) = Len(made)
      <4> HIDE DEF made, part, from, to
      <4> QED
        BY <2>7, ReasonsAddUp
    <3> QED
      BY <2>8, <3>1
  <2>10. m.inPos <= m.total
    <3> DEFINE time == TimeInPosition(made, from, to)
    <3>1. time \in Int
      <4> HIDE DEF made, from, to
      <4> QED
        BY <2>5, <2>7, TimeOfTrades
    <3>2. Later(0, to - from) = to - from /\ to - from \in Int
      <4> HIDE DEF from, to
      <4> QED
        BY <2>5 DEF Later
    <3> QED
      BY <2>7, <2>8, <3>1, <3>2
  <2>11. m.drawdown = Max(Fallen(m.n))
    <3>1. pnls \in Seq(Int) /\ Len(pnls) = Len(made)
      <4> HIDE DEF made
      <4> QED
        BY <2>7, PnlsAre
    <3>2. MaxDrawdown(pnls) = Max(Fallen(Len(pnls)))
      <4> HIDE DEF pnls
      <4> QED
        BY <3>1, FallsAre
    <3> QED
      BY <2>8, <3>1, <3>2
  <2>12. MetricsAgree <=> (m.drawdown = Max(Fallen(m.n)) /\ SumFunction(m.closed) = m.n /\ m.inPos <= m.total)
    <3> DEFINE row == testRows[at]
               Of(row1) == Pnls(TradesOn(data, row1.config, SplitOf(row1.config.fold).testFrom,
                                                            SplitOf(row1.config.fold).testTo))
    <3>1. row.config = e /\ row.metrics = m /\ Of(row) = pnls
      BY <2>6
    <3> HIDE DEF m, pnls, row
    <3>2. MetricsAgree <=>
             /\ row.metrics.drawdown =
                   Max({Sum(SubSeq(Of(row), 1, p[1])) - Sum(SubSeq(Of(row), 1, p[2])) :
                       p \in {q \in (0 .. row.metrics.n) \X (0 .. row.metrics.n) : q[1] <= q[2]}})
             /\ SumFunction(row.metrics.closed) = row.metrics.n
             /\ row.metrics.inPos <= row.metrics.total
      BY DEF MetricsAgree, row
    <3> QED
      BY <3>1, <3>2 DEF EquityAt
  <2> QED
    BY <2>9, <2>10, <2>11, <2>12
<1> QED
  BY <1>1, SearchIsOfEvaluations, PTL

-----------------------------------------------------------------------------
(* Sequences and sums.                                                     *)

\* The places that follow each other come in their order.
LEMMA RunInOrder ==
    ASSUME NEW a \in Nat, NEW m \in Nat
    PROVE  InOrder(a + 1 .. a + m) = [i \in 1 .. m |-> a + i]
<1> DEFINE S == a + 1 .. a + m
           order == InOrder(S)
<1>1. S \subseteq 0 .. a + m /\ a + m \in Nat
  OBVIOUS
<1>2. Cardinality(S) = m
  <2>1. a + 1 \in Int /\ a + m \in Int
    OBVIOUS
  <2>2. Cardinality(S) = IF a + 1 > a + m THEN 0 ELSE (a + m) - (a + 1) + 1
    BY <2>1, FS_Interval
  <2> QED
    BY <2>2
<1>3. DOMAIN order = 1 .. m /\ \A i \in 1 .. m : order[i] \in S /\ Place(S, order[i]) = i
  BY <1>1, <1>2, InOrderIs
<1>4. ASSUME NEW k \in S PROVE Place(S, k) = k - a
  <2>1. {j \in S : j <= k} = a + 1 .. k
    OBVIOUS
  <2>2. a + 1 \in Int /\ k \in Int /\ a + 1 <= k
    OBVIOUS
  <2>3. Cardinality(a + 1 .. k) = k - (a + 1) + 1
    BY <2>2, FS_Interval
  <2>4. k - (a + 1) + 1 = k - a
    BY <2>2
  <2> QED
    BY <2>1, <2>3, <2>4 DEF Place
<1>5. \A i \in 1 .. m : order[i] = a + i
  <2> TAKE i \in 1 .. m
  <2>1. order[i] \in S /\ order[i] - a = i
    BY <1>3, <1>4
  <2>2. order[i] \in Int
    BY <2>1
  <2> QED
    BY <2>1, <2>2
<1> DEFINE runs == [i \in 1 .. m |-> a + i]
<1> HIDE DEF S
<1>6. order = [i \in 1 .. Cardinality(S) |-> CHOOSE k \in S : Cardinality({j \in S : j <= k}) = i]
  BY DEF InOrder
<1> HIDE DEF order
<1>7. order = runs
  BY <1>2, <1>5, <1>6
<1> QED
  BY <1>7 DEF order, S

\* What is picked from places that follow each other.
Following(s, a, m) == [i \in 1 .. m |-> s[a + i]]

LEMMA RunPicked ==
    ASSUME NEW s, NEW a \in Nat, NEW m \in Nat
    PROVE  Picked(s, a + 1 .. a + m) = Following(s, a, m)
<1> DEFINE order == InOrder(a + 1 .. a + m)
<1>1. order = [i \in 1 .. m |-> a + i]
  BY RunInOrder
<1>2. Picked(s, a + 1 .. a + m) = [n \in DOMAIN order |-> s[order[n]]]
  BY DEF Picked
<1> HIDE DEF order
<1> QED
  BY <1>1, <1>2 DEF Following

\* A sequence of numbers without one of them.
LEMMA Cleared ==
    ASSUME NEW s \in Seq(Int), NEW r \in DOMAIN s
    PROVE  /\ [s EXCEPT ![r] = 0] \in Seq(Int) /\ Len([s EXCEPT ![r] = 0]) = Len(s)
           /\ \A i \in 1 .. Len(s) : [s EXCEPT ![r] = 0][i] = IF i = r THEN 0 ELSE s[i]
OBVIOUS

\* A sum without one of its terms.
LEMMA SumWithout ==
    \A s \in Seq(Int) : \A r \in DOMAIN s : Sum(s) = s[r] + Sum([s EXCEPT ![r] = 0])
<1> DEFINE G == {s \in Seq(Int) : \A r \in DOMAIN s : Sum(s) = s[r] + Sum([s EXCEPT ![r] = 0])}
<1>1. <<>> \in G
  OBVIOUS
<1> HIDE DEF G
<1>2. ASSUME NEW s \in Seq(Int), NEW e \in Int, s \in G PROVE Append(s, e) \in G
  <2> DEFINE t == Append(s, e)
             m == Len(s) + 1
  <2>1. /\ Len(s) \in Nat /\ DOMAIN s = 1 .. Len(s) /\ DOMAIN t = 1 .. m /\ t \in Seq(Int) /\ Len(t) = m
        /\ t[m] = e /\ \A i \in 1 .. Len(s) : t[i] = s[i]
    OBVIOUS
  <2>2. Sum(s) \in Int /\ Sum(t) = Sum(s) + e
    BY SumAppend
  <2> HIDE DEF t
  <2>3. Sum(t) = t[m] + Sum([t EXCEPT ![m] = 0])
    <3> DEFINE u == [t EXCEPT ![m] = 0]
               w == Append(s, 0)
    <3>1. m \in DOMAIN t
      BY <2>1
    <3>2. u \in Seq(Int) /\ Len(u) = m /\ \A i \in 1 .. m : u[i] = IF i = m THEN 0 ELSE t[i]
      BY <2>1, <3>1, Cleared
    <3> HIDE DEF u
    <3>3. w \in Seq(Int) /\ Len(w) = m /\ w[m] = 0 /\ \A i \in 1 .. Len(s) : w[i] = s[i]
      BY <2>1
    <3>4. Sum(w) = Sum(s) + 0
      BY SumAppend
    <3> HIDE DEF w
    <3>5. ASSUME NEW i \in 1 .. m PROVE u[i] = w[i]
      <4>1. i = m \/ (i \in 1 .. Len(s) /\ i # m)
        BY <2>1
      <4> QED
        BY <2>1, <3>2, <3>3, <4>1
    <3>6. u = w
      BY <3>2, <3>3, <3>5, SeqEqual
    <3>7. Sum(t) = t[m] + Sum(u)
      BY <2>1, <2>2, <3>4, <3>6
    <3> QED
      BY <3>7 DEF u
  <2>4. ASSUME NEW r \in 1 .. Len(s) PROVE Sum(t) = t[r] + Sum([t EXCEPT ![r] = 0])
    <3> DEFINE u == [t EXCEPT ![r] = 0]
               q == [s EXCEPT ![r] = 0]
               w == Append(q, e)
    <3>1. q \in Seq(Int) /\ Len(q) = Len(s) /\ \A i \in 1 .. Len(s) : q[i] = IF i = r THEN 0 ELSE s[i]
      BY <2>1, Cleared
    <3>2. r \in DOMAIN t
      BY <2>1
    <3>3. u \in Seq(Int) /\ Len(u) = m /\ \A i \in 1 .. m : u[i] = IF i = r THEN 0 ELSE t[i]
      BY <2>1, <3>2, Cleared
    <3>4. Sum(s) = s[r] + Sum(q)
      BY <1>2, <2>1 DEF G
    <3> HIDE DEF u, q
    <3>5. w \in Seq(Int) /\ Len(w) = m /\ w[m] = e /\ \A i \in 1 .. Len(s) : w[i] = q[i]
      BY <2>1, <3>1
    <3>6. Sum(q) \in Int /\ Sum(w) = Sum(q) + e
      BY <3>1, SumAppend
    <3> HIDE DEF w
    <3>7. ASSUME NEW i \in 1 .. m PROVE u[i] = w[i]
      <4>1. CASE i = m
        BY <2>1, <3>3, <3>5, <4>1
      <4>2. CASE i # m
        <5>1. i \in 1 .. Len(s)
          BY <2>1, <4>2
        <5> QED
          BY <2>1, <3>1, <3>3, <3>5, <5>1
      <4> QED
        BY <4>1, <4>2
    <3>8. u = w
      BY <3>3, <3>5, <3>7, SeqEqual
    <3>9. t[r] = s[r] /\ s[r] \in Int
      BY <2>1
    <3>10. Sum(t) = t[r] + Sum(u)
      BY <2>2, <3>4, <3>6, <3>8, <3>9
    <3> QED
      BY <3>10 DEF u
  <2>5. \A r \in DOMAIN t : r = m \/ r \in 1 .. Len(s)
    BY <2>1
  <2>6. \A r \in DOMAIN t : Sum(t) = t[r] + Sum([t EXCEPT ![r] = 0])
    BY <2>3, <2>4, <2>5
  <2> QED
    BY <2>1, <2>6 DEF t, G
<1>3. Seq(Int) \subseteq G
  BY <1>1, <1>2, SeqInduction
<1> QED
  BY <1>3 DEF G

LEMMA SumOfZeros ==
    \A s \in Seq(Int) : (\A i \in DOMAIN s : s[i] = 0) => Sum(s) = 0
<1> DEFINE G == {s \in Seq(Int) : (\A i \in DOMAIN s : s[i] = 0) => Sum(s) = 0}
<1>1. <<>> \in G
  BY SumAppend
<1>2. ASSUME NEW s \in Seq(Int), NEW e \in Int, s \in G PROVE Append(s, e) \in G
  <2> DEFINE t == Append(s, e)
  <2>1. /\ Len(s) \in Nat /\ DOMAIN s = 1 .. Len(s) /\ DOMAIN t = 1 .. Len(s) + 1 /\ t \in Seq(Int)
        /\ t[Len(s) + 1] = e /\ \A i \in 1 .. Len(s) : t[i] = s[i]
    OBVIOUS
  <2>2. Sum(s) \in Int /\ Sum(t) = Sum(s) + e
    BY SumAppend
  <2> HIDE DEF t
  <2>3. ASSUME \A i \in DOMAIN t : t[i] = 0 PROVE Sum(t) = 0
    <3>1. e = 0 /\ \A i \in DOMAIN s : s[i] = 0
      BY <2>1, <2>3
    <3> QED
      BY <1>2, <2>2, <3>1
  <2> QED
    BY <2>1, <2>3 DEF t
<1> HIDE DEF G
<1>3. Seq(Int) \subseteq G
  BY <1>1, <1>2, SeqInduction
<1> QED
  BY <1>3 DEF G

\* The terms of a sum that are not zero are enough, in any order.
LEMMA SumAcross ==
    ASSUME NEW a \in Seq(Int), NEW f, DOMAIN f \subseteq 1 .. Len(a),
           \A i \in 1 .. Len(a) : a[i] = IF i \in DOMAIN f THEN f[i] ELSE 0
    PROVE  SumFunction(f) = Sum(a)
<1> DEFINE n == Len(a)
           D == DOMAIN f
<1>0. /\ n \in Nat /\ Len(a) = n /\ D \subseteq 1 .. n /\ DOMAIN f = D
      /\ \A i \in 1 .. n : i \notin D => a[i] = 0
      /\ \A i \in D : f[i] = a[i]
  OBVIOUS
<1> HIDE DEF n, D
<1> DEFINE Mask(S) == [i \in 1 .. n |-> IF i \in S THEN a[i] ELSE 0]
           h == [S \in SUBSET D |-> Sum(Mask(S))]
<1>1. \A i \in 1 .. n : a[i] \in Int
  BY <1>0
<1>2. ASSUME NEW S
      PROVE  /\ Mask(S) \in Seq(Int) /\ Len(Mask(S)) = n /\ DOMAIN Mask(S) = 1 .. n
             /\ \A i \in 1 .. n : Mask(S)[i] = IF i \in S THEN a[i] ELSE 0
  <2> DEFINE m == Mask(S)
  <2>1. m \in [1 .. n -> Int] /\ \A i \in 1 .. n : m[i] = IF i \in S THEN a[i] ELSE 0
    BY <1>1
  <2> HIDE DEF m
  <2>2. m \in Seq(Int) /\ Len(m) = n /\ DOMAIN m = 1 .. n
    BY <1>0, <2>1
  <2> QED
    BY <2>1, <2>2 DEF m
<1>3. h = [S \in SUBSET D |-> Sum(Mask(S))]
  OBVIOUS
<1> HIDE DEF Mask, h
<1>4. \A S : Sum(Mask(S)) \in Int
  BY <1>2, SumAppend
<1>5. h \in [SUBSET D -> Int] /\ \A S \in SUBSET D : h[S] = Sum(Mask(S))
  BY <1>3, <1>4
<1>6. h[{}] = 0
  <2>1. \A i \in DOMAIN Mask({}) : Mask({})[i] = 0
    BY <1>2
  <2> QED
    BY <1>2, <1>5, <2>1, SumOfZeros
<1>7. ASSUME NEW S \in SUBSET D, NEW r \in S PROVE h[S] = f[r] + h[S \ {r}]
  <2> DEFINE m == Mask(S)
             u == [m EXCEPT ![r] = 0]
             w == Mask(S \ {r})
  <2>1. r \in 1 .. n /\ m \in Seq(Int) /\ Len(m) = n /\ DOMAIN m = 1 .. n /\ m[r] = f[r]
        /\ \A i \in 1 .. n : m[i] = IF i \in S THEN a[i] ELSE 0
    BY <1>0, <1>2
  <2>2. w \in Seq(Int) /\ Len(w) = n /\ \A i \in 1 .. n : w[i] = IF i \in S \ {r} THEN a[i] ELSE 0
    BY <1>2
  <2>3. h[S] = Sum(m) /\ h[S \ {r}] = Sum(w)
    BY <1>5
  <2> HIDE DEF m, w
  <2>4. u \in Seq(Int) /\ Len(u) = n /\ \A i \in 1 .. n : u[i] = IF i = r THEN 0 ELSE m[i]
    BY <2>1, Cleared
  <2>5. Sum(m) = m[r] + Sum(u)
    BY <2>1, SumWithout
  <2> HIDE DEF u
  <2>6. \A i \in 1 .. n : u[i] = w[i]
    BY <2>1, <2>2, <2>4
  <2>7. u = w
    BY <2>2, <2>4, <2>6, SeqEqual
  <2> QED
    BY <2>1, <2>3, <2>5, <2>7
<1>8. Grows(h, f, D)
  BY <1>5, <1>6, <1>7 DEF Grows
<1>9. IsFiniteSet(D)
  <2>1. IsFiniteSet(1 .. n)
    BY <1>0, FS_Interval
  <2> QED
    BY <1>0, <2>1, FS_Subset
<1>10. SumFunction(f) = h[D]
  BY <1>0, <1>8, <1>9, TotalIs
<1>11. Mask(D) = a
  <2>1. \A i \in 1 .. n : Mask(D)[i] = a[i]
    BY <1>0, <1>2
  <2> QED
    BY <1>0, <1>2, <2>1, SeqEqual
<1> QED
  BY <1>5, <1>10, <1>11

-----------------------------------------------------------------------------
(* The trades of the folds one after the other.                            *)

\* The recursive function that AllTrades unfolds to.
JoinSteps(v) ==
    CHOOSE g : g = [S \in SUBSET DOMAIN InOrder(FoldsOfData) |->
        IF S = {} THEN <<>> ELSE g[S \ {Max(S)}] \o StudyTrades(v, InOrder(FoldsOfData)[Max(S)])]

LEMMA JoinUnfolds ==
    ASSUME NEW v
    PROVE  AllTrades(v) = JoinSteps(v)[DOMAIN InOrder(FoldsOfData)]
BY DEF AllTrades, FoldLeft, MapThenFoldSet, JoinSteps

LEMMA JoinStepsAre ==
    ASSUME NEW v, NEW T, NEW n \in Nat, FoldsOfData = 1 .. n,
           \A f \in 1 .. n : StudyTrades(v, f) \in Seq(T)
    PROVE  /\ AllTrades(v) = JoinSteps(v)[1 .. n]
           /\ \A S \in SUBSET (1 .. n) :
                 JoinSteps(v)[S] =
                    IF S = {} THEN <<>> ELSE JoinSteps(v)[S \ {Max(S)}] \o StudyTrades(v, Max(S))
<1> DEFINE D == 1 .. n
           Share(f) == StudyTrades(v, f)
           step == [p \in D \X Seq(T) |-> p[2] \o Share(p[1])]
           order == InOrder(FoldsOfData)
<1>1. DOMAIN order = D /\ \A f \in D : order[f] = f
  <2>1. InOrder(0 + 1 .. 0 + n) = [i \in 1 .. n |-> 0 + i]
    BY RunInOrder
  <2> QED
    BY <2>1
<1>2. \A S \in SUBSET D : S # {} => Max(S) \in S /\ Max(S) \in D
  <2> TAKE S \in SUBSET D
  <2> HAVE S # {}
  <2>1. S \subseteq Nat /\ \A y \in S : y <= n
    OBVIOUS
  <2> QED
    BY <2>1, MaxIsGreatest
<1>3. \A f \in D : Share(f) \in Seq(T)
  OBVIOUS
<1> HIDE DEF Share
<1>4. step \in [D \X Seq(T) -> Seq(T)]
  <2>1. \A p \in D \X Seq(T) : p[2] \o Share(p[1]) \in Seq(T)
    BY <1>3, ConcatProperties
  <2> QED
    BY <2>1
<1>5. PICK h \in [SUBSET D -> Seq(T)] : Steps(h, D, <<>>, step)
  <2>1. <<>> \in Seq(T) /\ D \subseteq 0 .. n
    OBVIOUS
  <2> HIDE DEF step, D
  <2> QED
    BY <1>4, <2>1, StepsExist
<1>6. ASSUME NEW S \in SUBSET D
      PROVE  h[S] = IF S = {} THEN <<>> ELSE h[S \ {Max(S)}] \o Share(order[Max(S)])
  <2>1. CASE S = {}
    BY <1>5, <2>1 DEF Steps
  <2>2. CASE S # {}
    <3>1. Max(S) \in D /\ h[S \ {Max(S)}] \in Seq(T) /\ order[Max(S)] = Max(S)
      BY <1>1, <1>2, <1>5, <2>2
    <3>2. h[S] = step[<<Max(S), h[S \ {Max(S)}]>>]
      BY <1>5, <2>2 DEF Steps
    <3>3. <<Max(S), h[S \ {Max(S)}]>> \in D \X Seq(T)
      BY <3>1
    <3> HIDE DEF D, order
    <3> QED
      BY <2>2, <3>1, <3>2, <3>3
  <2> QED
    BY <2>1, <2>2
<1> HIDE DEF step
<1>7. h = [S \in SUBSET DOMAIN order |->
              IF S = {} THEN <<>> ELSE h[S \ {Max(S)}] \o Share(order[Max(S)])]
  <2> HIDE DEF order
  <2> QED
    BY <1>1, <1>5, <1>6
<1>8. JoinSteps(v) = [S \in SUBSET DOMAIN order |->
              IF S = {} THEN <<>> ELSE JoinSteps(v)[S \ {Max(S)}] \o Share(order[Max(S)])]
  BY ONLY <1>7 DEF JoinSteps, Share, order
<1>9. \A S \in SUBSET D : JoinSteps(v)[S] =
         IF S = {} THEN <<>> ELSE JoinSteps(v)[S \ {Max(S)}] \o Share(order[Max(S)])
  <2> DEFINE g == JoinSteps(v)
  <2> HIDE DEF order, g
  <2>1. g = [S \in SUBSET DOMAIN order |->
               IF S = {} THEN <<>> ELSE g[S \ {Max(S)}] \o Share(order[Max(S)])]
    BY <1>8 DEF g
  <2>2. \A S \in SUBSET D : g[S] =
           IF S = {} THEN <<>> ELSE g[S \ {Max(S)}] \o Share(order[Max(S)])
    BY ONLY <1>1, <2>1
  <2> QED
    BY <2>2 DEF g
<1>10. \A S \in SUBSET D : JoinSteps(v)[S] =
          IF S = {} THEN <<>> ELSE JoinSteps(v)[S \ {Max(S)}] \o Share(Max(S))
  <2> HIDE DEF order
  <2> QED
    BY <1>1, <1>2, <1>9
<1>11. AllTrades(v) = JoinSteps(v)[D]
  BY <1>1, JoinUnfolds
<1> QED
  BY <1>10, <1>11 DEF Share

\* The trades of the first folds, one after the other.
TradesUpTo(v, m) == JoinSteps(v)[1 .. m]

LEMMA TradesUpToAre ==
    ASSUME NEW v, NEW T, NEW n \in Nat, FoldsOfData = 1 .. n,
           \A f \in 1 .. n : StudyTrades(v, f) \in Seq(T)
    PROVE  /\ TradesUpTo(v, 0) = <<>> /\ AllTrades(v) = TradesUpTo(v, n)
           /\ \A m \in 0 .. n - 1 : TradesUpTo(v, m + 1) = TradesUpTo(v, m) \o StudyTrades(v, m + 1)
<1>1. /\ AllTrades(v) = JoinSteps(v)[1 .. n]
      /\ \A S \in SUBSET (1 .. n) :
            JoinSteps(v)[S] = IF S = {} THEN <<>> ELSE JoinSteps(v)[S \ {Max(S)}] \o StudyTrades(v, Max(S))
  BY JoinStepsAre
<1>2. TradesUpTo(v, 0) = <<>>
  <2>1. 1 .. 0 = {} /\ {} \in SUBSET (1 .. n)
    OBVIOUS
  <2> QED
    BY <1>1, <2>1 DEF TradesUpTo
<1>3. ASSUME NEW m \in 0 .. n - 1
      PROVE  TradesUpTo(v, m + 1) = TradesUpTo(v, m) \o StudyTrades(v, m + 1)
  <2> DEFINE S == 1 .. m + 1
  <2>0. m + 1 \in Nat /\ 1 <= m + 1 /\ m + 1 <= n
    OBVIOUS
  <2>1. S \in SUBSET (1 .. n) /\ S # {} /\ S \subseteq Int /\ m + 1 \in S /\ \A y \in S : y <= m + 1
    <3>1. m + 1 \in S /\ \A y \in S : y \in Int /\ 1 <= y /\ y <= m + 1
      BY <2>0
    <3>2. \A y \in S : y \in 1 .. n
      BY <2>0, <3>1
    <3> QED
      BY <3>1, <3>2
  <2>2. S \ {m + 1} = 1 .. m
    OBVIOUS
  <2> HIDE DEF S
  <2>3. Max(S) = m + 1
    BY <2>1, GreatestIs
  <2>4. JoinSteps(v)[S] = JoinSteps(v)[S \ {Max(S)}] \o StudyTrades(v, Max(S))
    BY <1>1, <2>1
  <2> QED
    BY <2>2, <2>3, <2>4 DEF TradesUpTo, S
<1> QED
  BY <1>1, <1>2, <1>3 DEF TradesUpTo

\* The trades that were entered within a part.
EnteredIn(s, from, to) == {n \in DOMAIN s : from <= s[n].entry /\ s[n].entry <= to}

\* To sequences of trades one more is added, of a part later than those before.  Nothing
\* changes for the parts before, and what is picked for the last part is what was added.
LEMMA OneMorePart ==
    ASSUME NEW s \in Seq(AnyTrade), NEW from \in Nat, NEW to \in Nat, NEW p \in Seq(Inside(from, to)),
           NEW low \in Nat, NEW high \in Nat
    PROVE  /\ s \o p \in Seq(AnyTrade) /\ Len(s \o p) = Len(s) + Len(p)
           /\ high < from \/ to < low =>
                 /\ EnteredIn(s \o p, low, high) = EnteredIn(s, low, high)
                 /\ Picked(s \o p, EnteredIn(s \o p, low, high)) = Picked(s, EnteredIn(s, low, high))
           /\ EnteredIn(s, from, to) = {} => Picked(s \o p, EnteredIn(s \o p, from, to)) = p
<1> DEFINE j == s \o p
           a == Len(s)
           b == Len(p)
<1>1. p \in Seq(AnyTrade) /\ a \in Nat /\ b \in Nat /\ DOMAIN s = 1 .. a /\ DOMAIN p = 1 .. b
      /\ \A i \in 1 .. b : p[i] \in Inside(from, to)
  <2>1. Inside(from, to) \subseteq AnyTrade
    BY DEF Inside
  <2> QED
    BY <2>1
<1>2. /\ j \in Seq(AnyTrade) /\ Len(j) = a + b
      /\ \A i \in 1 .. a + b : j[i] = IF i <= a THEN s[i] ELSE p[i - a]
  BY <1>1, ConcatProperties
<1> HIDE DEF j
<1>3. DOMAIN j = 1 .. a + b
  BY <1>1, <1>2
<1>4. \A i \in 1 .. a : i \in 1 .. a + b /\ j[i] = s[i]
  BY <1>1, <1>2
<1>5. ASSUME NEW i \in 1 .. b PROVE a + i \in 1 .. a + b /\ j[a + i] = p[i]
  <2>1. a + i \in 1 .. a + b /\ ~(a + i <= a) /\ (a + i) - a = i
    BY <1>1
  <2> QED
    BY <1>2, <2>1
<1>6. \A i \in 1 .. a + b : i \in 1 .. a \/ (i \in a + 1 .. a + b /\ i - a \in 1 .. b /\ j[i] = p[i - a])
  BY <1>1, <1>2
<1>7. \A i \in 1 .. b : p[i].entry \in Nat /\ from <= p[i].entry /\ p[i].entry <= to
  <2> TAKE i \in 1 .. b
  <2>1. p[i] \in AnyTrade /\ from <= p[i].entry /\ p[i].entry <= p[i].exit /\ p[i].exit <= to
    BY <1>1 DEF Inside
  <2>2. p[i].entry \in Nat /\ p[i].exit \in Nat
    BY <2>1 DEF AnyTrade
  <2> QED
    BY <2>1, <2>2
<1> HIDE DEF a, b
<1>8. ASSUME high < from \/ to < low
      PROVE  /\ EnteredIn(j, low, high) = EnteredIn(s, low, high)
             /\ Picked(j, EnteredIn(j, low, high)) = Picked(s, EnteredIn(s, low, high))
  <2> DEFINE I == EnteredIn(s, low, high)
  <2>1. ASSUME NEW i \in EnteredIn(j, low, high) PROVE i \in I
    <3>1. i \in 1 .. a + b /\ low <= j[i].entry /\ j[i].entry <= high
      BY <1>3 DEF EnteredIn
    <3>2. CASE i \in 1 .. a
      BY <1>1, <1>4, <3>1, <3>2 DEF EnteredIn
    <3>3. CASE i - a \in 1 .. b /\ j[i] = p[i - a]
      BY <1>7, <1>8, <3>1, <3>3
    <3> QED
      BY <1>6, <3>1, <3>2, <3>3
  <2>2. ASSUME NEW i \in I PROVE i \in EnteredIn(j, low, high)
    BY <1>1, <1>3, <1>4 DEF EnteredIn
  <2>3. EnteredIn(j, low, high) = I
    BY <2>1, <2>2
  <2>4. I \subseteq 1 .. a
    BY <1>1 DEF EnteredIn
  <2> HIDE DEF I
  <2> DEFINE order == InOrder(I)
  <2>5. DOMAIN order = 1 .. Cardinality(I) /\ \A i \in 1 .. Cardinality(I) : order[i] \in I
    <3>1. I \subseteq 0 .. a
      BY <1>1, <2>4
    <3> QED
      BY <1>1, <3>1, InOrderIs
  <2>6. Picked(j, I) = [i \in DOMAIN order |-> j[order[i]]] /\ Picked(s, I) = [i \in DOMAIN order |-> s[order[i]]]
    BY DEF Picked
  <2> HIDE DEF order
  <2>7. \A i \in DOMAIN order : j[order[i]] = s[order[i]]
    BY <1>4, <2>4, <2>5
  <2>8. Picked(j, I) = Picked(s, I)
    BY <2>6, <2>7
  <2> QED
    BY <2>3, <2>8 DEF I
<1>9. ASSUME EnteredIn(s, from, to) = {} PROVE Picked(j, EnteredIn(j, from, to)) = p
  <2>1. ASSUME NEW i \in EnteredIn(j, from, to) PROVE i \in a + 1 .. a + b
    <3>1. i \in 1 .. a + b /\ from <= j[i].entry /\ j[i].entry <= to
      BY <1>3 DEF EnteredIn
    <3>2. ~(i \in 1 .. a)
      BY <1>1, <1>4, <1>9, <3>1 DEF EnteredIn
    <3> QED
      BY <1>6, <3>1, <3>2
  <2>2. ASSUME NEW i \in a + 1 .. a + b PROVE i \in EnteredIn(j, from, to)
    <3>1. i - a \in 1 .. b /\ a + (i - a) = i
      BY <1>1
    <3>2. i \in 1 .. a + b /\ j[i] = p[i - a]
      BY <1>5, <3>1
    <3> QED
      BY <1>3, <1>7, <3>1, <3>2 DEF EnteredIn
  <2>3. EnteredIn(j, from, to) = a + 1 .. a + b
    BY <2>1, <2>2
  <2>4. Picked(j, a + 1 .. a + b) = Following(j, a, b)
    BY <1>1, RunPicked
  <2>5. Following(j, a, b) = [i \in 1 .. b |-> p[i]]
    BY <1>5 DEF Following
  <2>6. p = [i \in 1 .. b |-> p[i]]
    BY <1>1
  <2> QED
    BY <2>3, <2>4, <2>5, <2>6
<1> QED
  BY <1>2, <1>8, <1>9 DEF j, a, b

\* The trades of the first m of n folds, each of which has a part of its own: nothing of
\* them is lost, and each trade is found again in its part.
Lengths(v, m) == [f \in 1 .. m |-> Len(StudyTrades(v, f))]

AreJoined(v, m, n, lo, hi) ==
    LET made == TradesUpTo(v, m) IN
    /\ made \in Seq(AnyTrade) /\ Len(made) = Sum(Lengths(v, m))
    /\ \A f \in 1 .. n : f <= m => Picked(made, EnteredIn(made, lo[f], hi[f])) = StudyTrades(v, f)
    /\ \A f \in 1 .. n : m < f => EnteredIn(made, lo[f], hi[f]) = {}

LEMMA LengthsAre ==
    ASSUME NEW v, NEW T, NEW n \in Nat, \A f \in 1 .. n : StudyTrades(v, f) \in Seq(T)
    PROVE  /\ Lengths(v, 0) = <<>>
           /\ \A m \in 0 .. n - 1 :
                 /\ Lengths(v, m) \in Seq(Int)
                 /\ Lengths(v, m + 1) = Append(Lengths(v, m), Len(StudyTrades(v, m + 1)))
<1>1. Lengths(v, 0) = <<>>
  BY DEF Lengths
<1>2. \A f \in 1 .. n : Len(StudyTrades(v, f)) \in Int
  OBVIOUS
<1>3. ASSUME NEW m \in 0 .. n
      PROVE  /\ Lengths(v, m) \in Seq(Int) /\ Len(Lengths(v, m)) = m
             /\ \A f \in 1 .. m : Lengths(v, m)[f] = Len(StudyTrades(v, f))
  <2> DEFINE L == Lengths(v, m)
  <2>1. \A f \in 1 .. m : f \in 1 .. n
    OBVIOUS
  <2>2. L \in [1 .. m -> Int] /\ \A f \in 1 .. m : L[f] = Len(StudyTrades(v, f))
    BY <1>2, <2>1 DEF Lengths
  <2> HIDE DEF L
  <2>3. L \in Seq(Int) /\ Len(L) = m
    BY <2>2
  <2> QED
    BY <2>2, <2>3 DEF L
<1>4. ASSUME NEW m \in 0 .. n - 1
      PROVE  Lengths(v, m + 1) = Append(Lengths(v, m), Len(StudyTrades(v, m + 1)))
  <2> DEFINE k == Len(StudyTrades(v, m + 1))
             a == Lengths(v, m + 1)
             b == Append(Lengths(v, m), k)
  <2>1. m \in 0 .. n /\ m + 1 \in 0 .. n /\ m + 1 \in 1 .. n /\ m \in Nat
    OBVIOUS
  <2>2. k \in Int
    BY <1>2, <2>1
  <2>3. a \in Seq(Int) /\ Len(a) = m + 1 /\ \A f \in 1 .. m + 1 : a[f] = Len(StudyTrades(v, f))
    BY <1>3, <2>1
  <2>4. Lengths(v, m) \in Seq(Int) /\ Len(Lengths(v, m)) = m
        /\ \A f \in 1 .. m : Lengths(v, m)[f] = Len(StudyTrades(v, f))
    BY <1>3, <2>1
  <2> HIDE DEF k
  <2>5. b \in Seq(Int) /\ Len(b) = m + 1 /\ b[m + 1] = k /\ \A f \in 1 .. m : b[f] = Lengths(v, m)[f]
    BY <2>2, <2>4, AppendProperties
  <2> HIDE DEF a, b
  <2>6. ASSUME NEW f \in 1 .. m + 1 PROVE a[f] = b[f]
    <3>1. f = m + 1 \/ f \in 1 .. m
      BY <2>1
    <3> QED
      BY <2>3, <2>4, <2>5, <3>1 DEF k
  <2>7. a = b
    BY <2>3, <2>5, <2>6, SeqEqual
  <2> QED
    BY <2>7 DEF a, b, k
<1>5. \A m \in 0 .. n - 1 : m \in 0 .. n
  OBVIOUS
<1> QED
  BY <1>1, <1>3, <1>4, <1>5

LEMMA FoldsAreJoined ==
    ASSUME NEW v, NEW n \in Nat, FoldsOfData = 1 .. n,
           NEW lo \in [1 .. n -> Nat], NEW hi \in [1 .. n -> Nat],
           \A f \in 1 .. n : StudyTrades(v, f) \in Seq(Inside(lo[f], hi[f])),
           \A f \in 1 .. n, g \in 1 .. n : f < g => hi[f] < lo[g]
    PROVE  AreJoined(v, n, n, lo, hi)
<1> DEFINE Joined(m) == TradesUpTo(v, m)
           None == {m \in Nat : m <= n /\ ~AreJoined(v, m, n, lo, hi)}
<1>1. \A f \in 1 .. n : StudyTrades(v, f) \in Seq(AnyTrade)
  <2> TAKE f \in 1 .. n
  <2>1. StudyTrades(v, f) \in Seq(Inside(lo[f], hi[f])) /\ Inside(lo[f], hi[f]) \subseteq AnyTrade
    BY DEF Inside
  <2> QED
    BY <2>1
<1>2. /\ Joined(0) = <<>>
      /\ \A m \in 0 .. n - 1 : Joined(m + 1) = Joined(m) \o StudyTrades(v, m + 1)
  BY <1>1, TradesUpToAre
<1>3. /\ Lengths(v, 0) = <<>>
      /\ \A m \in 0 .. n - 1 :
            /\ Lengths(v, m) \in Seq(Int)
            /\ Lengths(v, m + 1) = Append(Lengths(v, m), Len(StudyTrades(v, m + 1)))
  BY <1>1, LengthsAre
<1>4. AreJoined(v, 0, n, lo, hi)
  <2> DEFINE none == <<>>
  <2>0. none \in Seq(AnyTrade) /\ Len(none) = 0 /\ DOMAIN none = {}
    OBVIOUS
  <2> HIDE DEF none
  <2>1. Joined(0) \in Seq(AnyTrade) /\ Len(Joined(0)) = 0 /\ DOMAIN Joined(0) = {}
    BY <1>2, <2>0 DEF none
  <2>2. Sum(Lengths(v, 0)) = 0
    BY <1>3, SumAppend
  <2>3. \A f \in 1 .. n : ~(f <= 0) /\ EnteredIn(Joined(0), lo[f], hi[f]) = {}
    BY <2>1 DEF EnteredIn
  <2> QED
    BY <2>1, <2>2, <2>3 DEF AreJoined
<1>5. ASSUME NEW m \in 0 .. n - 1, AreJoined(v, m, n, lo, hi)
      PROVE  AreJoined(v, m + 1, n, lo, hi)
  <2> DEFINE s == Joined(m)
             p == StudyTrades(v, m + 1)
             j == Joined(m + 1)
             from == lo[m + 1]
             to == hi[m + 1]
  <2>1. /\ s \in Seq(AnyTrade) /\ Len(s) = Sum(Lengths(v, m))
        /\ \A f \in 1 .. n : f <= m => Picked(s, EnteredIn(s, lo[f], hi[f])) = StudyTrades(v, f)
        /\ \A f \in 1 .. n : m < f => EnteredIn(s, lo[f], hi[f]) = {}
    BY <1>5 DEF AreJoined
  <2>2. m + 1 \in 1 .. n /\ m \in Nat
    OBVIOUS
  <2>3. from \in Nat /\ to \in Nat /\ p \in Seq(Inside(from, to)) /\ j = s \o p
    BY <1>2, <2>2
  <2>4. \A f \in 1 .. n : lo[f] \in Nat /\ hi[f] \in Nat
    OBVIOUS
  <2>5. /\ \A f \in 1 .. n : f <= m => hi[f] < from
        /\ \A f \in 1 .. n : m + 1 < f => to < lo[f]
    BY <2>2
  <2>6. p = StudyTrades(v, m + 1) /\ from = lo[m + 1] /\ to = hi[m + 1]
    OBVIOUS
  <2> HIDE DEF s, p, j, from, to
  <2>7. j \in Seq(AnyTrade) /\ Len(j) = Len(s) + Len(p)
    BY <2>1, <2>3, OneMorePart
  <2>8. ASSUME NEW f \in 1 .. n, f <= m \/ m + 1 < f
        PROVE  /\ EnteredIn(j, lo[f], hi[f]) = EnteredIn(s, lo[f], hi[f])
               /\ Picked(j, EnteredIn(j, lo[f], hi[f])) = Picked(s, EnteredIn(s, lo[f], hi[f]))
    <3>1. hi[f] < from \/ to < lo[f]
      BY <2>5, <2>8
    <3>2. lo[f] \in Nat /\ hi[f] \in Nat
      BY <2>4
    <3> DEFINE low == lo[f]
               high == hi[f]
    <3>3. low \in Nat /\ high \in Nat /\ (high < from \/ to < low)
      BY <3>1, <3>2
    <3> HIDE DEF low, high
    <3>4. /\ EnteredIn(s \o p, low, high) = EnteredIn(s, low, high)
          /\ Picked(s \o p, EnteredIn(s \o p, low, high)) = Picked(s, EnteredIn(s, low, high))
      BY <2>1, <2>3, <3>3, OneMorePart
    <3> QED
      BY <2>3, <3>4 DEF low, high
  <2>9. Picked(j, EnteredIn(j, from, to)) = p
    <3>1. EnteredIn(s, from, to) = {}
      BY <2>1, <2>2, <2>6
    <3> QED
      BY <2>1, <2>3, <3>1, OneMorePart
  <2>10. ASSUME NEW f \in 1 .. n, f <= m + 1
         PROVE  Picked(j, EnteredIn(j, lo[f], hi[f])) = StudyTrades(v, f)
    <3>1. CASE f <= m
      BY <2>1, <2>8, <3>1
    <3>2. CASE f = m + 1
      BY <2>6, <2>9, <3>2
    <3> QED
      BY <2>2, <2>10, <3>1, <3>2
  <2>11. ASSUME NEW f \in 1 .. n, m + 1 < f PROVE EnteredIn(j, lo[f], hi[f]) = {}
    <3>1. m < f
      BY <2>2, <2>11
    <3> QED
      BY <2>1, <2>8, <2>11, <3>1
  <2>12. Len(j) = Sum(Lengths(v, m + 1))
    <3>1. Len(p) \in Int
      BY <2>3
    <3>2. Lengths(v, m) \in Seq(Int) /\ Lengths(v, m + 1) = Append(Lengths(v, m), Len(p))
      BY <1>3, <2>6
    <3>3. Sum(Lengths(v, m + 1)) = Sum(Lengths(v, m)) + Len(p)
      BY <3>1, <3>2, SumAppend
    <3> QED
      BY <2>1, <2>7, <3>3
  <2> QED
    BY <2>7, <2>10, <2>11, <2>12 DEF AreJoined, j
<1>6. None = {}
  <2> SUFFICES ASSUME None # {} PROVE FALSE
    OBVIOUS
  <2>1. Min(None) \in None /\ \A y \in None : Min(None) <= y
    BY MinIsLeast
  <2>2. Min(None) \in Nat /\ Min(None) # 0 /\ Min(None) <= n
    BY <1>4, <2>1
  <2>3. Min(None) - 1 \in 0 .. n - 1 /\ Min(None) - 1 \notin None
    <3> DEFINE m == Min(None)
    <3>1. m \in Nat /\ m # 0 /\ m <= n /\ \A y \in None : m <= y
      BY <2>1, <2>2
    <3> HIDE DEF m, None
    <3>2. m - 1 \in 0 .. n - 1 /\ m - 1 < m
      BY <3>1
    <3>3. m - 1 \notin None
      BY <3>1, <3>2
    <3> QED
      BY <3>2, <3>3 DEF m
  <2>4. AreJoined(v, Min(None) - 1, n, lo, hi)
    BY <2>3
  <2>5. AreJoined(v, (Min(None) - 1) + 1, n, lo, hi)
    BY <1>5, <2>3, <2>4
  <2>6. (Min(None) - 1) + 1 = Min(None)
    BY <2>2
  <2> QED
    BY <2>1, <2>5, <2>6
<1>7. n \notin None
  BY <1>6
<1> QED
  BY <1>7

-----------------------------------------------------------------------------
(* The evaluations of a combination.                                       *)

\* A number is a multiple of a divisor and a rest.
LEMMA Divided ==
    ASSUME NEW a \in Nat, NEW b \in Nat \ {0}
    PROVE  a \div b \in Nat /\ a % b \in 0 .. b - 1 /\ a = (a \div b) * b + (a % b)
<1> DEFINE q == a \div b
           r == a % b
<1>1. q \in Nat
  BY DaysInOrder
<1>2. r \in 0 .. b - 1 /\ a = b * q + r
  OBVIOUS
<1> HIDE DEF q, r
<1>3. b * q = q * b
  BY <1>1
<1> QED
  BY <1>1, <1>2, <1>3 DEF q, r

\* In one way only.
LEMMA DividedOnce ==
    ASSUME NEW b \in Nat \ {0}, NEW q \in Nat, NEW r \in 0 .. b - 1
    PROVE  (q * b + r) \div b = q /\ (q * b + r) % b = r
<1> DEFINE m == q * b
           a == m + r
           z == a \div b
           y == z * b
           w == a % b
<1>1. m \in Nat /\ r \in Nat /\ r < b /\ a \in Nat
  <2>1. q * b \in Nat
    OBVIOUS
  <2> QED
    BY <2>1
<1>2. z \in Nat /\ w \in 0 .. b - 1 /\ a = y + w
  <2> HIDE DEF a
  <2> QED
    BY <1>1, Divided
<1>3. y \in Nat
  <2> HIDE DEF z
  <2> QED
    BY <1>2
<1>4. ASSUME q < z PROVE FALSE
  <2>1. (q + 1) * b <= y
    <3> HIDE DEF z
    <3>1. q + 1 <= z
      BY <1>2, <1>4
    <3> QED
      BY <1>2, <3>1, SameFactor
  <2>2. (q + 1) * b = m + b
    OBVIOUS
  <2> HIDE DEF m, y, z, w
  <2> QED
    BY <1>1, <1>2, <1>3, <2>1, <2>2
<1>5. ASSUME z < q PROVE FALSE
  <2> HIDE DEF z
  <2>1. z + 1 <= q
    BY <1>2, <1>5
  <2>2. (z + 1) * b <= m
    BY <1>2, <2>1, SameFactor
  <2>3. (z + 1) * b = y + b
    BY <1>2
  <2> HIDE DEF m, y, w
  <2> QED
    BY <1>1, <1>2, <1>3, <2>2, <2>3
<1>6. z = q
  <2> HIDE DEF z
  <2> QED
    BY <1>2, <1>4, <1>5
<1>7. y = m
  <2> HIDE DEF z
  <2> QED
    BY <1>6
<1>8. w = r
  <2> HIDE DEF m, y, w
  <2> QED
    BY <1>1, <1>2, <1>3, <1>7
<1> QED
  BY <1>6, <1>8

\* The number of folds.
Folded == Cardinality(FoldsOfData)

\* The places before those of a combination.
Skipped(i, j) == ((i - 1) * Len(ExitKeys) + (j - 1)) * Folded

\* The evaluations of a combination follow each other, fold after fold.
LEMMA CombinationIs ==
    ASSUME Given, NEW i \in 1 .. Len(SignalKeys), NEW j \in 1 .. Len(ExitKeys)
    PROVE  LET b == Skipped(i, j) IN
           /\ b \in Nat /\ Folded \in Nat /\ FoldsOfData = 1 .. Folded
           /\ {k \in 1 .. Len(Evaluations) :
                  Evaluations[k].signal = SignalKeys[i] /\ Evaluations[k].exit = ExitKeys[j]}
                = b + 1 .. b + Folded
           /\ \A f \in 1 .. Folded :
                 Evaluations[b + f] = [signal |-> SignalKeys[i], exit |-> ExitKeys[j], fold |-> f]
<1> DEFINE marks == SignalKeys
           exits == ExitKeys
           L == Len(marks)
           X == Len(exits)
           F == Folded
           n == L * X * F
           Of(k) == (k - 1) \div F
           o == (i - 1) * X + (j - 1)
           b == o * F
<1>1. IsSettings(c) /\ Days \in Nat /\ Len(Evaluations) \in Nat
  BY EvaluationsAre
<1>2. F \in Nat /\ FoldsOfData = 1 .. F
  BY <1>1, FoldsAre DEF FoldsOfData, Folded
<1>3. /\ L \in Nat /\ DOMAIN marks = 1 .. L
      /\ X \in Nat /\ DOMAIN exits = 1 .. X
      /\ \A u \in 1 .. L, w \in 1 .. L : marks[u] = marks[w] => u = w
      /\ \A u \in 1 .. X, w \in 1 .. X : exits[u] = exits[w] => u = w
  BY SignalKeysAre, ExitKeysAre
<1>4. Evaluations =
         [k \in 1 .. n |-> [signal |-> marks[(Of(k) \div X) + 1],
                            exit |-> exits[(Of(k) % X) + 1],
                            fold |-> ((k - 1) % F) + 1]]
  BY DEF Evaluations, Folded
<1>5. i \in 1 .. L /\ j \in 1 .. X /\ b = Skipped(i, j)
  BY DEF Skipped
<1> HIDE DEF marks, exits, L, X, F
<1>6. i - 1 \in Nat /\ j - 1 \in 0 .. X - 1 /\ X # 0 /\ X \in Nat \ {0} /\ i \in Int /\ j \in Int
  BY <1>3, <1>5
<1>7. L * X \in Nat /\ (L * X) * F \in Nat /\ n = (L * X) * F
  BY <1>2, <1>3
<1>8. o \in Nat /\ o < L * X
  <2> DEFINE u == i - 1
             m == u * X
  <2>1. u \in Nat /\ u + 1 <= L
    BY <1>3, <1>5, <1>6
  <2> HIDE DEF u
  <2>2. (u + 1) * X <= L * X
    BY <1>3, <1>6, <2>1, SameFactor
  <2>3. (u + 1) * X = m + X /\ m \in Nat
    BY <1>6, <2>1
  <2> DEFINE most == L * X
  <2> HIDE DEF m, most
  <2>4. m + X <= most /\ most \in Nat
    BY <1>7, <2>2, <2>3 DEF most
  <2>5. m + (j - 1) \in Nat /\ m + (j - 1) < most
    BY <1>6, <2>3, <2>4
  <2> QED
    BY <2>5 DEF m, u, most
<1>9. o \div X = i - 1 /\ o % X = j - 1
  BY <1>6, DividedOnce
<1>10. Len(Evaluations) = n /\ DOMAIN Evaluations = 1 .. n
  <2> HIDE DEF n
  <2> QED
    BY <1>4, <1>7
<1>11. b \in Nat /\ b + F <= n
  <2> HIDE DEF o
  <2>1. o + 1 <= L * X
    BY <1>7, <1>8
  <2>2. o * F + F <= (L * X) * F
    <3>1. (o + 1) * F = o * F + F
      BY <1>2, <1>8
    <3>2. CASE F = 0
      <4>1. o * 0 = 0 /\ (L * X) * 0 = 0
        BY <1>7, <1>8
      <4> QED
        BY <3>2, <4>1
    <3>3. CASE F # 0
      <4>1. (o + 1) * F <= (L * X) * F
        BY <1>2, <1>7, <1>8, <2>1, <3>3, SameFactor
      <4> QED
        BY <3>1, <4>1
    <3> QED
      BY <3>2, <3>3
  <2>3. o * F \in Nat
    BY <1>2, <1>8
  <2> QED
    BY <1>7, <2>2, <2>3
<1>12. ASSUME NEW f \in 1 .. F
       PROVE  /\ b + f \in 1 .. n
              /\ Evaluations[b + f] = [signal |-> marks[i], exit |-> exits[j], fold |-> f]
  <2> DEFINE k == b + f
  <2>1. F \in Nat \ {0} /\ f - 1 \in 0 .. F - 1 /\ f \in Int
    BY <1>2
  <2> HIDE DEF o
  <2>2. (o * F + (f - 1)) \div F = o /\ (o * F + (f - 1)) % F = f - 1
    BY <1>8, <2>1, DividedOnce
  <2> HIDE DEF b
  <2>3. k - 1 = b + (f - 1) /\ k \in 1 .. n
    <3> HIDE DEF n
    <3> QED
      BY <1>7, <1>11, <2>1
  <2>4. Of(k) = o /\ (k - 1) % F = f - 1
    BY <2>2, <2>3 DEF b
  <2>5. (o \div X) + 1 = i /\ (o % X) + 1 = j /\ (f - 1) + 1 = f
    BY <1>6, <1>9, <2>1 DEF o
  <2> HIDE DEF n, k
  <2>6. Evaluations[k] = [signal |-> marks[(o \div X) + 1], exit |-> exits[(o % X) + 1], fold |-> (f - 1) + 1]
    BY <1>4, <2>3, <2>4
  <2> QED
    BY <2>3, <2>5, <2>6 DEF k
<1>13. ASSUME NEW k \in 1 .. n, Evaluations[k].signal = marks[i], Evaluations[k].exit = exits[j]
       PROVE  k \in b + 1 .. b + F
  <2> DEFINE a == k - 1
             p == a \div F
             r == a % F
             u == p \div X
             w == p % X
  <2>1. a \in Nat /\ a < (L * X) * F /\ k \in Int
    BY <1>7
  <2>2. p \in 0 .. (L * X) - 1 /\ r \in 0 .. F - 1
    <3> HIDE DEF a
    <3> QED
      BY <1>2, <1>7, <2>1, Quotients
  <2>3. F \in Nat \ {0}
    BY <1>2, <2>2
  <2>4. a = p * F + r
    <3> HIDE DEF a
    <3> QED
      BY <2>1, <2>3, Divided
  <2>5. p \in Nat /\ p < L * X
    <3> HIDE DEF p
    <3> QED
      BY <1>7, <2>2
  <2>6. u \in 0 .. L - 1 /\ w \in 0 .. X - 1 /\ p = u * X + w
    <3> HIDE DEF p
    <3>1. u \in 0 .. L - 1 /\ w \in 0 .. X - 1
      BY <1>3, <2>5, Quotients
    <3>2. p = u * X + w
      BY <1>6, <2>5, Divided
    <3> QED
      BY <3>1, <3>2
  <2>7. Evaluations[k].signal = marks[u + 1] /\ Evaluations[k].exit = exits[w + 1]
    <3> HIDE DEF n
    <3> QED
      BY <1>4
  <2> HIDE DEF u, w, p, r, a
  <2>8. u + 1 \in 1 .. L /\ w + 1 \in 1 .. X /\ u \in Int /\ w \in Int
    BY <1>3, <2>6
  <2>9. u + 1 = i /\ w + 1 = j
    BY <1>3, <1>5, <1>13, <2>7, <2>8
  <2>10. u = i - 1 /\ w = j - 1
    BY <1>6, <2>8, <2>9
  <2>11. p = o
    BY <2>6, <2>10
  <2>12. a = b + r
    BY <2>4, <2>11
  <2> HIDE DEF b
  <2>13. k = b + r + 1
    BY <1>11, <2>1, <2>2, <2>12 DEF a
  <2> QED
    BY <1>11, <2>2, <2>3, <2>13
<1>14. {k \in 1 .. n : Evaluations[k].signal = marks[i] /\ Evaluations[k].exit = exits[j]} = b + 1 .. b + F
  <2> DEFINE S == {k \in 1 .. n : Evaluations[k].signal = marks[i] /\ Evaluations[k].exit = exits[j]}
  <2> HIDE DEF b, n, o
  <2>1. \A k \in S : k \in b + 1 .. b + F
    BY <1>13
  <2>2. ASSUME NEW k \in b + 1 .. b + F PROVE k \in S
    <3> DEFINE f == k - b
    <3>1. f \in 1 .. F /\ k = b + f
      BY <1>2, <1>11
    <3> HIDE DEF f, S
    <3>2. b + f \in 1 .. n /\ Evaluations[b + f] = [signal |-> marks[i], exit |-> exits[j], fold |-> f]
      BY <1>12, <3>1
    <3>3. k \in 1 .. n /\ Evaluations[k] = [signal |-> marks[i], exit |-> exits[j], fold |-> f]
      BY <3>1, <3>2
    <3>4. Evaluations[k].signal = marks[i] /\ Evaluations[k].exit = exits[j]
      BY <3>3
    <3> QED
      BY <3>3, <3>4 DEF S
  <2> HIDE DEF S
  <2>3. S = b + 1 .. b + F
    <3>1. S \subseteq b + 1 .. b + F
      BY <2>1
    <3>2. b + 1 .. b + F \subseteq S
      BY <2>2
    <3> QED
      BY <3>1, <3>2
  <2> QED
    BY <2>3 DEF S
<1> HIDE DEF b, n, o
<1>15. \A f \in 1 .. F : Evaluations[b + f] = [signal |-> marks[i], exit |-> exits[j], fold |-> f]
  BY <1>12
<1> QED
  BY <1>2, <1>5, <1>10, <1>11, <1>14, <1>15 DEF marks, exits, F

\* The evaluation of a combination on a fold, and what its test finds.
EvaluationOf(k, r, f) == [signal |-> k, exit |-> r, fold |-> f]

TestOf(k, r, f) == Tested(data, EvaluationOf(k, r, f))

\* The rows of a combination are those of its tests, fold after fold.
LEMMA RowsAre ==
    ASSUME SearchInv, at = Len(Evaluations),
           NEW k \in Range(SignalKeys), NEW r \in Range(ExitKeys),
           NEW config, config.signal = k, config.exit = r
    PROVE  RowsOf(config) =
              [f \in 1 .. Folded |-> [config |-> EvaluationOf(k, r, f), metrics |-> TestOf(k, r, f)]]
<1>1. PICK i \in 1 .. Len(SignalKeys), j \in 1 .. Len(ExitKeys) : k = SignalKeys[i] /\ r = ExitKeys[j]
  BY SignalKeysAre, ExitKeysAre DEF Range, SearchInv
<1> DEFINE b == Skipped(i, j)
           all == Evaluations
           L == Len(all)
           P == {n \in DOMAIN testRows :
                    testRows[n].config.signal = k /\ testRows[n].config.exit = r}
<1>2. /\ b \in Nat /\ Folded \in Nat
      /\ {n \in 1 .. L : all[n].signal = k /\ all[n].exit = r} = b + 1 .. b + Folded
      /\ \A f \in 1 .. Folded : all[b + f] = [signal |-> k, exit |-> r, fold |-> f]
  BY <1>1, CombinationIs DEF SearchInv
<1>3. L \in Nat
  BY EvaluationsAre DEF SearchInv
<1>4. testRows = [n \in 1 .. L |-> [config |-> all[n], metrics |-> Tested(data, all[n])]]
  BY DEF SearchInv
<1>5. RowsOf(config) = Picked(testRows, P)
  BY DEF RowsOf
<1> HIDE DEF all, L, b
<1>6. P = b + 1 .. b + Folded
  <2>1. P = {n \in 1 .. L : all[n].signal = k /\ all[n].exit = r}
    BY <1>4
  <2> QED
    BY <1>2, <2>1
<1>7. RowsOf(config) = [f \in 1 .. Folded |-> testRows[b + f]]
  <2> HIDE DEF P
  <2> QED
    BY <1>2, <1>5, <1>6, RunPicked DEF Following
<1>8. ASSUME NEW f \in 1 .. Folded
      PROVE  testRows[b + f] = [config |-> EvaluationOf(k, r, f), metrics |-> TestOf(k, r, f)]
  <2>1. b + f \in b + 1 .. b + Folded
    BY <1>2
  <2>2. b + f \in 1 .. L
    BY <1>2, <2>1
  <2>3. all[b + f] = EvaluationOf(k, r, f)
    BY <1>2 DEF EvaluationOf
  <2> DEFINE m == b + f
  <2> HIDE DEF m
  <2>4. testRows[m] = [config |-> all[m], metrics |-> Tested(data, all[m])]
    BY <1>4, <2>2 DEF m
  <2> QED
    BY <2>3, <2>4 DEF TestOf, m
<1> QED
  BY <1>7, <1>8

\* What the rows of a combination add up to.
LEMMA TotalsAre ==
    ASSUME SearchInv, at = Len(Evaluations),
           NEW k \in Range(SignalKeys), NEW r \in Range(ExitKeys),
           NEW config, config.signal = k, config.exit = r
    PROVE  LET rows == RowsOf(config) IN
           /\ TotalTrades(config) = Sum([f \in 1 .. Folded |-> TestOf(k, r, f).n])
           /\ Sum([n \in DOMAIN rows |-> rows[n].metrics.net]) =
                 Sum([f \in 1 .. Folded |-> TestOf(k, r, f).net])
           /\ Sum([n \in DOMAIN rows |-> rows[n].metrics.inPos]) =
                 Sum([f \in 1 .. Folded |-> TestOf(k, r, f).inPos])
<1> DEFINE rows == RowsOf(config)
<1>1. rows = [f \in 1 .. Folded |-> [config |-> EvaluationOf(k, r, f), metrics |-> TestOf(k, r, f)]]
  BY RowsAre
<1>2. TotalTrades(config) = Sum([n \in DOMAIN rows |-> rows[n].metrics.n])
  BY DEF TotalTrades
<1> HIDE DEF rows
<1>3. /\ DOMAIN rows = 1 .. Folded
      /\ \A f \in 1 .. Folded : rows[f].metrics = TestOf(k, r, f)
  BY <1>1
<1>4. [n \in DOMAIN rows |-> rows[n].metrics.n] = [f \in 1 .. Folded |-> TestOf(k, r, f).n]
  BY <1>3
<1>5. [n \in DOMAIN rows |-> rows[n].metrics.net] = [f \in 1 .. Folded |-> TestOf(k, r, f).net]
  BY <1>3
<1>6. [n \in DOMAIN rows |-> rows[n].metrics.inPos] = [f \in 1 .. Folded |-> TestOf(k, r, f).inPos]
  BY <1>3
<1> QED
  BY <1>2, <1>4, <1>5, <1>6 DEF rows

\* A loose trail, given apart from the exit rules.
LEMMA LooseTrailExit ==
    ASSUME NEW bs, IsBars(bs), NEW e \in DOMAIN bs, NEW dir \in {1, -1}, NEW r, IsRule(r),
           NEW trail, trail.act \in Nat, trail.dist \in Nat, Loose(r, trail), r.tp > 0, NEW to \in Nat
    PROVE  TrailingExit(bs, e, dir, r, trail, to) = PriceExit(bs, e, dir, r, to)
<1> DEFINE q == [tp |-> r.tp, sl |-> r.sl, hold |-> r.hold, conservative |-> r.conservative,
                 act |-> trail.act, dist |-> trail.dist]
<1>1. /\ q.tp = r.tp /\ q.sl = r.sl /\ q.hold = r.hold /\ q.conservative = r.conservative
      /\ q.act = trail.act /\ q.dist = trail.dist
  OBVIOUS
<1> HIDE DEF q
<1>2. IsTrail(q) /\ Loose(q, q) /\ q.tp > 0
  BY <1>1 DEF IsTrail, IsRule, Loose
<1>3. ScanEnd(e, q, to) = ScanEnd(e, r, to) /\ ScanEnd(e, r, to) \in Nat
  <2>1. e \in Nat /\ r.hold \in Nat
    BY DEF IsBars, IsRule
  <2> QED
    BY <1>1, <2>1 DEF ScanEnd
<1>4. /\ ProfitBars(bs, e, dir, q, to) = ProfitBars(bs, e, dir, r, to)
      /\ StopBars(bs, e, dir, q, to) = StopBars(bs, e, dir, r, to)
  BY <1>1, <1>3 DEF ProfitBars, StopBars
<1>5. \A A, B : StopComesFirst(A, B, q) <=> StopComesFirst(A, B, r)
  BY <1>1 DEF StopComesFirst
<1>6. \A s : StopAfter(bs, e, dir, q, q, s) = StopAfter(bs, e, dir, r, trail, s)
  BY <1>1 DEF StopAfter
<1>7. PriceExit(bs, e, dir, q, to) = PriceExit(bs, e, dir, r, to)
  BY <1>1, <1>3, <1>4, <1>5 DEF PriceExit
<1>8. TrailingExit(bs, e, dir, q, q, to) = TrailingExit(bs, e, dir, r, trail, to)
  <2> DEFINE A(k) == StopAfter(bs, e, dir, q, q, k - 1)
             B(k) == StopAfter(bs, e, dir, r, trail, k - 1)
             W == Window(bs, e, ScanEnd(e, r, to))
             a == {k \in W : Worst(dir, bs[k]) <= A(k)}
             b == {k \in W : Worst(dir, bs[k]) <= B(k)}
             tp == ProfitBars(bs, e, dir, r, to)
             px == bs[e].close
  <2>1. \A k : A(k) = B(k)
    BY <1>6
  <2>2. a = b
    <3> HIDE DEF A, B
    <3> QED
      BY <2>1
  <2>3. TrailingExit(bs, e, dir, q, q, to) =
           IF tp \cup a = {} THEN Timeout(bs, e, ScanEnd(e, r, to))
           ELSE IF StopComesFirst(tp, a, r)
           THEN [ts |-> Min(a), px |-> Signed(dir, A(Min(a))),
                 reason |-> IF A(Min(a)) # Signed(dir, px) - r.sl THEN "trail" ELSE "sl"]
           ELSE [ts |-> Min(tp), px |-> px + dir * r.tp, reason |-> "tp"]
    BY <1>1, <1>3, <1>4, <1>5 DEF TrailingExit
  <2>4. TrailingExit(bs, e, dir, r, trail, to) =
           IF tp \cup b = {} THEN Timeout(bs, e, ScanEnd(e, r, to))
           ELSE IF StopComesFirst(tp, b, r)
           THEN [ts |-> Min(b), px |-> Signed(dir, B(Min(b))),
                 reason |-> IF B(Min(b)) # Signed(dir, px) - r.sl THEN "trail" ELSE "sl"]
           ELSE [ts |-> Min(tp), px |-> px + dir * r.tp, reason |-> "tp"]
    BY DEF TrailingExit
  <2> HIDE DEF A, B, a, b, tp, px
  <2> QED
    BY <2>1, <2>2, <2>3, <2>4
<1> QED
  BY <1>2, <1>3, <1>7, <1>8, LooseExit

\* The study divides the days as the optimizer does, whatever it trains on.
LEMMA StudySplitIs ==
    ASSUME NEW f
    PROVE  StudySplit(f).testFrom = SplitOf(f).testFrom /\ StudySplit(f).testTo = SplitOf(f).testTo
<1> DEFINE s == StudySettings
<1>1. s.folds = c.folds /\ s.trainDays = c.trainDays /\ s.testDays = c.testDays
  BY DEF StudySettings
<1> HIDE DEF s
<1>2. \A days : TrainDays(s, days) = TrainDays(c, days) /\ TestDays(s, days) = TestDays(c, days)
  BY <1>1 DEF TrainDays, TestDays, Block
<1>3. \A days : TestStart(s, days, f) = TestStart(c, days, f)
  BY <1>2 DEF TestStart
<1>4. /\ Split(s, FirstDay(data.bars), Days, f).testFrom = Split(c, FirstDay(data.bars), Days, f).testFrom
      /\ Split(s, FirstDay(data.bars), Days, f).testTo = Split(c, FirstDay(data.bars), Days, f).testTo
  BY <1>2, <1>3 DEF Split
<1> QED
  BY <1>4 DEF StudySplit, SplitOf, s

\* A part takes its signals from the whole.
LEMMA PartTakes ==
    ASSUME NEW g, NEW from, NEW to
    PROVE  \A s \in DOMAIN Part(g, from, to) : s \in DOMAIN g /\ Part(g, from, to)[s] = g[s]
BY DEF Part, Restrict

\* The trades of a variant that changes nothing are those of the test.
LEMMA StudyTradesAre ==
    ASSUME Given, NEW k \in Range(SignalKeys), StudySignals = data.signals[k],
           NEW v \in Range(Variants), ChangesNothing(v), v.rule.tp > 0, NEW f \in FoldsOfData
    PROVE  LET from == SplitOf(f).testFrom
               to == SplitOf(f).testTo
               e == EvaluationOf(k, v.rule, f)
           IN  /\ IsEvaluation(e)
               /\ StudyTrades(v, f) = TradesOn(data, e, from, to)
               /\ StudyTrades(v, f) \in Seq(Inside(from, to))
               /\ StudyMetrics(v, f) = TestOf(k, v.rule, f)
<1> DEFINE from == SplitOf(f).testFrom
           to == SplitOf(f).testTo
           r == v.rule
           e == EvaluationOf(k, r, f)
           marks == data.signals[k]
           part == Part(marks, from, to)
           bs == data.bars
<1>1. from \in Nat /\ to \in Nat
  BY SplitIs
<1>2. e.signal = k /\ e.exit = r /\ e.fold = f
  BY DEF EvaluationOf
<1>3. k \in DOMAIN data.signals /\ IsRule(r)
  <2>1. k \in Range(grid.signals)
    BY SignalKeysAre DEF Range
  <2>2. r \in Range(grid.exits)
    BY ExitKeysAre DEF Range, ChangesNothing
  <2> QED
    BY <2>1, <2>2, GridIs DEF Given
<1>4. IsEvaluation(e)
  BY <1>2, <1>3 DEF IsEvaluation
<1>5. /\ IsBars(bs) /\ DOMAIN marks \subseteq DOMAIN bs
      /\ marks \in [DOMAIN marks -> {Buy, Sell, 0}]
  BY <1>3, HistoryIs DEF Given
<1>6. PICK n \in Nat : DOMAIN bs \subseteq 0 .. n
  BY HistoryIs DEF Given
<1>7. TradesOn(data, e, from, to) = RunBacktest(bs, part, <<>>, r, from, to)
  BY <1>2 DEF TradesOn
<1>8. StudyPart(f) = part
  BY StudySplitIs DEF StudyPart
<1>9. StudyTrades(v, f) =
        IF v.trail = {}
        THEN RunBacktestBy(bs, part, IF v.byScore THEN data.scores ELSE <<>>,
                           [s \in DOMAIN part |-> RuleAt(v, s)], from, to)
        ELSE RunBacktestTrailing(bs, part, r, CHOOSE trail \in v.trail : TRUE, from, to)
  BY <1>8, StudySplitIs DEF StudyTrades, TradesTo
<1> HIDE DEF part
<1>10. \A s : RuleAt(v, s) = r
  BY DEF RuleAt, Calm, ChangesNothing
<1>11. ASSUME v.trail = {} PROVE StudyTrades(v, f) = TradesOn(data, e, from, to)
  <2>1. [s \in DOMAIN part |-> RuleAt(v, s)] = [s \in DOMAIN part |-> r]
    BY <1>10
  <2>2. ~v.byScore
    BY DEF ChangesNothing
  <2> QED
    BY <1>7, <1>9, <1>11, <2>1, <2>2 DEF RunBacktest
<1>12. ASSUME v.trail # {} PROVE StudyTrades(v, f) = TradesOn(data, e, from, to)
  <2> DEFINE trail == CHOOSE trail \in v.trail : TRUE
             a == [s \in DOMAIN part |-> TrailingExit(bs, s, part[s], r, trail, to)]
             b == [s \in DOMAIN part |-> Exit(bs, <<>>, s, part[s], [t \in DOMAIN part |-> r][s], to)]
  <2>1. trail \in v.trail
    BY <1>12
  <2>2. trail.act \in Nat /\ trail.dist \in Nat /\ Loose(r, trail)
    BY <2>1, StudyAssumption DEF ChangesNothing
  <2>3. StudyTrades(v, f) = RunSignals(bs, part, a, from, to)
    BY <1>9, <1>12 DEF RunBacktestTrailing
  <2>4. TradesOn(data, e, from, to) = RunSignals(bs, part, b, from, to)
    BY <1>7 DEF RunBacktest, RunBacktestBy
  <2>5. /\ DOMAIN part \subseteq DOMAIN marks
        /\ \A s \in DOMAIN part : part[s] = marks[s]
    <3> HIDE DEF marks, from, to
    <3>1. \A s \in DOMAIN part : s \in DOMAIN marks /\ part[s] = marks[s]
      BY PartTakes DEF part
    <3> QED
      BY <3>1
  <2>6. ASSUME NEW s \in DOMAIN part, part[s] # 0 PROVE a[s] = b[s]
    <3>1. s \in DOMAIN bs /\ part[s] \in {1, -1}
      BY <1>5, <2>5, <2>6 DEF Buy, Sell
    <3> DEFINE dir == part[s]
    <3>2. dir \in {1, -1} /\ IsBars(bs) /\ s \in DOMAIN bs
      BY <1>5, <3>1
    <3> HIDE DEF dir, bs, trail, r, to
    <3>3. TrailingExit(bs, s, dir, r, trail, to) = PriceExit(bs, s, dir, r, to)
      BY <1>1, <1>3, <2>2, <3>2, LooseTrailExit DEF r
    <3>4. Exit(bs, <<>>, s, dir, r, to) = PriceExit(bs, s, dir, r, to)
      BY ExitWithoutScores
    <3> QED
      BY <3>3, <3>4 DEF dir
  <2>7. DOMAIN part \subseteq 0 .. n
    BY <1>5, <1>6, <2>5
  <2> HIDE DEF a, b, bs, from, to
  <2>8. RunSignals(bs, part, a, from, to) = RunSignals(bs, part, b, from, to)
    BY <2>6, <2>7, SameExits
  <2> QED
    BY <2>3, <2>4, <2>8
<1>13. StudyTrades(v, f) = TradesOn(data, e, from, to)
  BY <1>11, <1>12
<1>14. StudyTrades(v, f) \in Seq(Inside(from, to))
  <2> HIDE DEF from, to, e
  <2> QED
    BY <1>1, <1>4, <1>13, TradesOnAre
<1>15. StudyMetrics(v, f) = TestOf(k, r, f)
  <2>1. StudyMetrics(v, f) = Metrics(StudyTrades(v, f), part, from, to)
    BY <1>8, StudySplitIs DEF StudyMetrics
  <2>2. TestOf(k, r, f) = Metrics(TradesOn(data, e, from, to), part, from, to)
    BY <1>2 DEF TestOf, Tested, MetricsOn, part
  <2> QED
    BY <1>13, <2>1, <2>2
<1> QED
  BY <1>4, <1>13, <1>14, <1>15

\* The metrics the study adds up.
LEMMA FieldsAre ==
    ASSUME NEW made, NEW marks, NEW from, NEW to
    PROVE  LET m == Metrics(made, marks, from, to) IN
           m.n = Len(made) /\ m.net = Sum(Pnls(made)) /\ m.inPos = TimeInPosition(made, from, to)
BY DEF Metrics

\* A variant that changes nothing, of a study of one signal configuration.
SameStudy(k, v) ==
    /\ Given /\ k \in Range(SignalKeys) /\ StudySignals = data.signals[k]
    /\ v \in Range(Variants) /\ ChangesNothing(v) /\ v.rule.tp > 0

\* On each fold such a variant does what the test of the combination does.
LEMMA FoldIs ==
    ASSUME NEW k, NEW v, SameStudy(k, v), NEW f \in FoldsOfData
    PROVE  LET from == SplitOf(f).testFrom
               to == SplitOf(f).testTo
               made == StudyTrades(v, f)
           IN  /\ from \in Nat /\ to \in Nat /\ made \in Seq(Inside(from, to)) /\ made \in Seq(AnyTrade)
               /\ \A g \in FoldsOfData : f < g => to < SplitOf(g).testFrom
               /\ StudyMetrics(v, f) = TestOf(k, v.rule, f)
               /\ TestOf(k, v.rule, f).n = Len(made)
               /\ TestOf(k, v.rule, f).net \in Int
               /\ made = <<>> => TestOf(k, v.rule, f).net = 0
               /\ TestOf(k, v.rule, f).inPos = TimeInPosition(made, from, to)
               /\ TestOf(k, v.rule, f).inPos \in Int
<1> DEFINE from == SplitOf(f).testFrom
           to == SplitOf(f).testTo
           made == StudyTrades(v, f)
           e == EvaluationOf(k, v.rule, f)
           part == Part(data.signals[k], from, to)
<1>1. /\ from \in Nat /\ to \in Nat
      /\ \A g \in FoldsOfData : f < g => to < SplitOf(g).testFrom
  BY SplitIs DEF SameStudy
<1>2. /\ IsEvaluation(e) /\ made = TradesOn(data, e, from, to)
      /\ made \in Seq(Inside(from, to)) /\ StudyMetrics(v, f) = TestOf(k, v.rule, f)
  BY StudyTradesAre DEF SameStudy
<1>3. made \in Seq(AnyTrade)
  <2> HIDE DEF from, to, e
  <2> QED
    BY <1>1, <1>2, TradesOnAre DEF SameStudy
<1>4. TestOf(k, v.rule, f) = Metrics(made, part, from, to)
  BY <1>2 DEF TestOf, Tested, MetricsOn, EvaluationOf
<1> HIDE DEF from, to, made, part
<1>5. /\ TestOf(k, v.rule, f).n = Len(made) /\ TestOf(k, v.rule, f).net = Sum(Pnls(made))
      /\ TestOf(k, v.rule, f).inPos = TimeInPosition(made, from, to)
  BY <1>4, FieldsAre
<1>6. Pnls(made) \in Seq(Int) /\ Len(Pnls(made)) = Len(made)
  BY <1>3, PnlsAre
<1>7. Sum(Pnls(made)) \in Int
  <2> DEFINE s == Pnls(made)
  <2>1. \A z \in Seq(Int) : 0 \in Int /\ Sum(z) \in Int
    BY SumAppend
  <2> HIDE DEF s
  <2> QED
    BY <1>6, <2>1
<1>8. ASSUME made = <<>> PROVE Sum(Pnls(made)) = 0
  <2>1. Len(made) = 0
    BY <1>8
  <2>2. Pnls(made) = <<>>
    BY <1>6, <2>1
  <2> QED
    BY <2>2, SumAppend
<1>9. TimeInPosition(made, from, to) \in Int
  BY <1>1, <1>2, TimeOfTrades
<1> QED
  BY <1>1, <1>2, <1>3, <1>5, <1>7, <1>8, <1>9 DEF from, to, made

\* Nothing is lost when the trades of the folds are joined, and each is found again in its fold.
LEMMA AllTradesAre ==
    ASSUME NEW k, NEW v, SameStudy(k, v)
    PROVE  LET all == AllTrades(v) IN
           /\ Len(all) = Sum([f \in 1 .. Folded |-> TestOf(k, v.rule, f).n])
           /\ \A f \in FoldsOfData :
                 Picked(all, EnteredIn(all, SplitOf(f).testFrom, SplitOf(f).testTo)) = StudyTrades(v, f)
<1> DEFINE n == Folded
           lo == [f \in 1 .. n |-> SplitOf(f).testFrom]
           hi == [f \in 1 .. n |-> SplitOf(f).testTo]
<1>1. n \in Nat /\ FoldsOfData = 1 .. n
  BY EvaluationsAre, FoldsAre DEF FoldsOfData, Folded, SameStudy
<1> HIDE DEF n
<1>2. /\ lo \in [1 .. n -> Nat] /\ hi \in [1 .. n -> Nat]
      /\ \A f \in 1 .. n : lo[f] = SplitOf(f).testFrom /\ hi[f] = SplitOf(f).testTo
  BY <1>1, FoldIs
<1> HIDE DEF lo, hi
<1>3. \A f \in 1 .. n : StudyTrades(v, f) \in Seq(Inside(lo[f], hi[f])) /\ StudyTrades(v, f) \in Seq(AnyTrade)
  BY <1>1, <1>2, FoldIs
<1>4. \A f \in 1 .. n, g \in 1 .. n : f < g => hi[f] < lo[g]
  BY <1>1, <1>2, FoldIs
<1>5. AreJoined(v, n, n, lo, hi)
  BY <1>1, <1>2, <1>3, <1>4, FoldsAreJoined
<1>6. AllTrades(v) = TradesUpTo(v, n)
  BY <1>1, <1>3, TradesUpToAre
<1>7. Len(AllTrades(v)) = Sum(Lengths(v, n))
      /\ \A f \in 1 .. n : Picked(AllTrades(v), EnteredIn(AllTrades(v), lo[f], hi[f])) = StudyTrades(v, f)
  BY <1>1, <1>5, <1>6 DEF AreJoined
<1>8. Lengths(v, n) = [f \in 1 .. n |-> TestOf(k, v.rule, f).n]
  BY <1>1, FoldIs DEF Lengths
<1> QED
  BY <1>1, <1>2, <1>7, <1>8 DEF n

\* The row of a variant adds up to the rows of its combination.
LEMMA RowRepeats ==
    ASSUME SearchInv, at = Len(Evaluations), NEW k, key = {k}, k \in Range(SignalKeys),
           NEW v \in Range(Variants), ChangesNothing(v) => v.rule.tp > 0
    PROVE  Repeats(StudyRow(v, AllTrades(v)))
<1> DEFINE all == AllTrades(v)
           row == StudyRow(v, all)
           r == v.rule
           config == [signal |-> CHOOSE q \in key : TRUE, exit |-> row.variant.rule, fold |-> 1]
           rows == RowsOf(config)
           nets == [f \in TradedFolds(v) |-> StudyMetrics(v, f).net]
           times == [f \in FoldsOfData |-> TimeOfFold(all, f)]
<1>1. /\ row.variant = v /\ row.summary.trades = Len(all)
      /\ row.summary.meanNet.sum = SumFunction(nets)
      /\ row.summary.inPos = SumFunction(times)
  BY DEF StudyRow, Summarize
<1> HIDE DEF row
<1>2. (CHOOSE q \in key : TRUE) = k
  OBVIOUS
<1>3. config.signal = k /\ config.exit = r
  BY <1>1, <1>2
<1> SUFFICES ASSUME ChangesNothing(v), StudySignals = data.signals[k]
             PROVE  /\ row.summary.trades = TotalTrades(config)
                    /\ row.summary.meanNet.sum = Sum([n \in DOMAIN rows |-> rows[n].metrics.net])
                    /\ row.summary.inPos = Sum([n \in DOMAIN rows |-> rows[n].metrics.inPos])
  BY <1>1, <1>2 DEF Repeats, row
<1>4. SameStudy(k, v)
  BY DEF SameStudy, SearchInv
<1>5. r \in Range(ExitKeys)
  BY DEF ChangesNothing
<1> HIDE DEF config
<1> DEFINE A == [f \in 1 .. Folded |-> TestOf(k, r, f).net]
           B == [f \in 1 .. Folded |-> TestOf(k, r, f).inPos]
<1>6. /\ TotalTrades(config) = Sum([f \in 1 .. Folded |-> TestOf(k, r, f).n])
      /\ Sum([n \in DOMAIN rows |-> rows[n].metrics.net]) = Sum(A)
      /\ Sum([n \in DOMAIN rows |-> rows[n].metrics.inPos]) = Sum(B)
  BY <1>3, <1>5, TotalsAre
<1>7. Folded \in Nat /\ FoldsOfData = 1 .. Folded
  BY EvaluationsAre, FoldsAre DEF FoldsOfData, Folded, SearchInv
<1>8. Len(all) = Sum([f \in 1 .. Folded |-> TestOf(k, r, f).n])
  BY <1>4, AllTradesAre
<1>9. SumFunction(nets) = Sum(A)
  <2> DEFINE D == TradedFolds(v)
  <2>1. D \subseteq 1 .. Folded /\ \A f \in 1 .. Folded : f \notin D => StudyTrades(v, f) = <<>>
    BY <1>7 DEF TradedFolds
  <2>2. \A f \in 1 .. Folded :
           /\ StudyMetrics(v, f) = TestOf(k, r, f)
           /\ TestOf(k, r, f).net \in Int
           /\ StudyTrades(v, f) = <<>> => TestOf(k, r, f).net = 0
    BY <1>4, <1>7, FoldIs
  <2> HIDE DEF D
  <2>3. A \in Seq(Int) /\ Len(A) = Folded /\ \A f \in 1 .. Folded : A[f] = TestOf(k, r, f).net
    BY <1>7, <2>2
  <2>4. nets = [f \in D |-> StudyMetrics(v, f).net]
    BY DEF D
  <2> HIDE DEF A, nets
  <2>5. DOMAIN nets = D /\ \A f \in D : nets[f] = A[f]
    BY <2>1, <2>2, <2>3, <2>4
  <2>6. \A f \in 1 .. Folded : f \notin D => A[f] = 0
    BY <2>1, <2>2, <2>3
  <2>7. /\ A \in Seq(Int) /\ DOMAIN nets \subseteq 1 .. Len(A)
        /\ \A f \in 1 .. Len(A) : A[f] = IF f \in DOMAIN nets THEN nets[f] ELSE 0
    BY <2>1, <2>3, <2>5, <2>6
  <2> QED
    BY <2>7, SumAcross
<1>10. SumFunction(times) = Sum(B)
  <2>1. ASSUME NEW f \in 1 .. Folded
        PROVE  TimeOfFold(all, f) = TestOf(k, r, f).inPos /\ TestOf(k, r, f).inPos \in Int
    <3> DEFINE from == SplitOf(f).testFrom
               to == SplitOf(f).testTo
    <3>1. StudySplit(f).testFrom = from /\ StudySplit(f).testTo = to
      BY StudySplitIs
    <3> HIDE DEF all, from, to
    <3>2. TimeOfFold(all, f) = TimeInPosition(Picked(all, EnteredIn(all, from, to)), from, to)
      BY <3>1 DEF TimeOfFold, EnteredIn
    <3>3. Picked(all, EnteredIn(all, from, to)) = StudyTrades(v, f)
      BY <1>4, <1>7, AllTradesAre DEF all, from, to
    <3>4. TestOf(k, r, f).inPos = TimeInPosition(StudyTrades(v, f), from, to) /\ TestOf(k, r, f).inPos \in Int
      BY <1>4, <1>7, FoldIs DEF from, to
    <3> QED
      BY <3>2, <3>3, <3>4
  <2>2. B \in Seq(Int) /\ Len(B) = Folded /\ \A f \in 1 .. Folded : B[f] = TestOf(k, r, f).inPos
    BY <1>7, <2>1
  <2> DEFINE D == 1 .. Folded
  <2>3. DOMAIN times = D /\ \A f \in D : times[f] = TimeOfFold(all, f)
    BY <1>7
  <2> HIDE DEF B, times
  <2>4. \A f \in D : times[f] = B[f]
    BY <2>1, <2>2, <2>3
  <2>5. /\ B \in Seq(Int) /\ DOMAIN times \subseteq 1 .. Len(B)
        /\ \A f \in 1 .. Len(B) : B[f] = IF f \in DOMAIN times THEN times[f] ELSE 0
    BY <2>2, <2>3, <2>4
  <2> QED
    BY <2>5, SumAcross
<1> QED
  BY <1>1, <1>6, <1>8, <1>9, <1>10

-----------------------------------------------------------------------------
(* The study.                                                              *)

\* A study begins when the search has been reported, and is of one signal configuration.
StudyInv ==
    /\ key = {} \/ \E k \in Range(SignalKeys) : key = {k}
    /\ key # {} => report # {}
    /\ tried \in Nat
    /\ studyRows # <<>> => key # {}
    /\ studyRows \in Seq(Range(studyRows))
    /\ StudyRepeatsOptimizer

\* A table with one more row ends with it.
LEMMA OneMoreRow ==
    ASSUME NEW s, s \in Seq(Range(s)), NEW row
    PROVE  LET more == Append(s, row) IN
           more \in Seq(Range(more)) /\ more # <<>> /\ more[Len(more)] = row
<1> DEFINE R == Range(s) \cup {row}
           more == Append(s, row)
<1>1. \A n \in 1 .. Len(s) : s[n] \in R
  OBVIOUS
<1>2. s \in Seq(R) /\ row \in R
  <2> HIDE DEF R
  <2>1. s \in Seq(R)
    BY <1>1
  <2> QED
    BY <2>1 DEF R
<1> HIDE DEF R
<1>3. /\ more \in Seq(R) /\ Len(more) = Len(s) + 1 /\ more[Len(s) + 1] = row
      /\ Len(s) \in Nat
  BY <1>2, AppendProperties
<1> HIDE DEF more
<1>4. DOMAIN more = 1 .. Len(more) /\ Len(more) \in Nat
  BY <1>3
<1>5. \A n \in 1 .. Len(more) : more[n] \in Range(more)
  BY <1>4 DEF Range
<1>6. more \in Seq(Range(more))
  BY <1>3, <1>4, <1>5
<1>7. more # <<>>
  BY <1>3
<1> QED
  BY <1>3, <1>6, <1>7 DEF more

\* The combinations are those of the grid.
LEMMA SameKeys ==
    ASSUME UNCHANGED grid
    PROVE  SignalKeys' = SignalKeys /\ ExitKeys' = ExitKeys
BY DEF SignalKeys, ExitKeys

\* What a row repeats is settled when the study has begun.
LEMMA SameRepeats ==
    ASSUME UNCHANGED <<optimizer, key>>
    PROVE  \A row : Repeats(row)' = Repeats(row)
<1>1. UNCHANGED <<data, grid, testRows, key>>
  BY DEF optimizer
<1>2. ExitKeys' = ExitKeys
  BY <1>1, SameKeys
<1>3. StudySignals' = StudySignals
  BY <1>1 DEF StudySignals
<1>4. \A config : RowsOf(config)' = RowsOf(config)
  BY <1>1 DEF RowsOf
<1>5. \A config : TotalTrades(config)' = TotalTrades(config)
  BY <1>4 DEF TotalTrades
<1>6. \A v : ChangesNothing(v)' = ChangesNothing(v)
  BY <1>2 DEF ChangesNothing
<1> QED
  BY <1>1, <1>3, <1>4, <1>5, <1>6 DEF Repeats

\* A step of nothing keeps the invariant, and so does a variant.
LEMMA SameStudyKeepsIt ==
    ASSUME StudyInv, UNCHANGED <<optimizer, study>>
    PROVE  StudyInv'
<1>1. UNCHANGED <<grid, report, key, tried, studyRows>>
  BY DEF optimizer, study
<1>2. SignalKeys' = SignalKeys
  BY <1>1, SameKeys
<1>3. StudyRepeatsOptimizer'
  <2>1. \A row : Repeats(row)' = Repeats(row)
    BY SameRepeats DEF study
  <2> QED
    BY <1>1, <2>1 DEF StudyInv, StudyRepeatsOptimizer
<1> QED
  BY <1>1, <1>2, <1>3 DEF StudyInv

LEMMA TryVariantKeepsIt ==
    ASSUME SearchInv, StudyInv, TryVariant,
           \A g \in Grids : \A r \in Range(g.exits) : r.tp > 0
    PROVE  StudyInv'
<1> DEFINE v == Variants[tried + 1]
           made == AllTrades(v)
           row == StudyRow(v, made)
<1>1. /\ key # {} /\ tried < Len(Variants) /\ tried' = tried + 1
      /\ UNCHANGED <<optimizer, key>>
      /\ studyRows' = IF made = <<>> THEN studyRows ELSE Append(studyRows, row)
  BY DEF TryVariant
<1>2. UNCHANGED <<grid, report, key>>
  BY <1>1 DEF optimizer
<1>3. SignalKeys' = SignalKeys
  BY <1>2, SameKeys
<1>4. PICK k \in Range(SignalKeys) : key = {k}
  BY <1>1 DEF StudyInv
<1>5. at = Len(Evaluations)
  BY <1>1 DEF StudyInv, SearchInv
<1>6. tried \in Nat /\ v \in Range(Variants)
  <2>1. tried \in Nat /\ tried + 1 \in 1 .. Len(Variants) /\ DOMAIN Variants = 1 .. Len(Variants)
    BY <1>1, StudyAssumption DEF StudyInv
  <2> QED
    BY <2>1 DEF Range
<1> HIDE DEF v
<1>7. ChangesNothing(v) => v.rule.tp > 0
  <2> SUFFICES ASSUME ChangesNothing(v) PROVE v.rule.tp > 0
    OBVIOUS
  <2>1. v.rule \in Range(grid.exits)
    BY ExitKeysAre DEF Range, ChangesNothing, SearchInv
  <2> QED
    BY <2>1 DEF SearchInv, Given
<1>8. Repeats(row)
  BY <1>4, <1>5, <1>6, <1>7, RowRepeats
<1>9. /\ studyRows' \in Seq(Range(studyRows'))
      /\ studyRows' # <<>> => Repeats(studyRows'[Len(studyRows')])
  <2>1. CASE made = <<>>
    BY <1>1, <2>1 DEF StudyInv, StudyRepeatsOptimizer
  <2>2. CASE made # <<>>
    <3> HIDE DEF row
    <3>1. studyRows' = Append(studyRows, row) /\ studyRows \in Seq(Range(studyRows))
      BY <1>1, <2>2 DEF StudyInv
    <3>2. studyRows' \in Seq(Range(studyRows')) /\ studyRows'[Len(studyRows')] = row
      BY <3>1, OneMoreRow
    <3> QED
      BY <1>8, <3>2
  <2> QED
    BY <2>1, <2>2
<1>10. StudyRepeatsOptimizer'
  <2>1. \A z : Repeats(z)' = Repeats(z)
    BY <1>1, SameRepeats
  <2> QED
    BY <1>9, <2>1 DEF StudyRepeatsOptimizer
<1> QED
  BY <1>1, <1>2, <1>3, <1>6, <1>9, <1>10 DEF StudyInv

\* The study repeats the optimizer: a row of a variant that changes nothing has the trades,
\* the net result and the time in position of all tests of its combination
\* (walk_forward.py:156-186, 332-336; research_trailing.py:113-166).  With a take profit
\* of zero a loose trail may still come into play.
THEOREM StudyIsOfOptimizer ==
    ASSUME \A g \in Grids : \A r \in Range(g.exits) : r.tp > 0
    PROVE  StudySpec => []StudyRepeatsOptimizer
<1>1. StudyInit => StudyInv
  BY DEF StudyInit, StudyInv, StudyRepeatsOptimizer
<1>2. SearchInv /\ StudyInv /\ [StudyNext]_<<optimizer, study>> => StudyInv'
  <2> SUFFICES ASSUME SearchInv, StudyInv, [StudyNext]_<<optimizer, study>> PROVE StudyInv'
    OBVIOUS
  <2>1. CASE OptimizerNext /\ UNCHANGED study
    <3>1. UNCHANGED <<grid, key, tried, studyRows>>
      BY <2>1 DEF OptimizerNext, Evaluate, Report, study
    <3>2. key = {}
      <4>1. CASE Evaluate
        <5>1. at < Len(Evaluations) /\ Len(Evaluations) \in Nat
          BY <4>1, EvaluationsAre DEF Evaluate, SearchInv
        <5>2. \A r \in report : at = Len(Evaluations)
          BY DEF SearchInv
        <5>3. report = {}
          <6> DEFINE L == Len(Evaluations)
          <6> HIDE DEF L
          <6>1. at \in 0 .. L /\ L \in Nat /\ at < L /\ \A r \in report : at = L
            BY <5>1, <5>2 DEF L, SearchInv
          <6> QED
            BY <6>1
        <5> QED
          BY <5>3 DEF StudyInv
      <4>2. CASE Report
        BY <4>2 DEF Report, StudyInv
      <4> QED
        BY <2>1, <4>1, <4>2 DEF OptimizerNext
    <3> QED
      BY <3>1, <3>2 DEF StudyInv, StudyRepeatsOptimizer
  <2>2. CASE ChooseKey
    <3>1. /\ key = {} /\ report # {} /\ UNCHANGED <<grid, report, tried, studyRows>>
          /\ \E k \in Range(SignalKeys) : key' = {k}
      BY <2>2 DEF ChooseKey, optimizer
    <3>2. SignalKeys' = SignalKeys
      BY <3>1, SameKeys
    <3> QED
      BY <3>1, <3>2 DEF StudyInv, StudyRepeatsOptimizer
  <2>3. CASE TryVariant
    BY <2>3, TryVariantKeepsIt
  <2>4. CASE UNCHANGED <<optimizer, study>>
    BY <2>4, SameStudyKeepsIt
  <2> QED
    BY <2>1, <2>2, <2>3, <2>4 DEF StudyNext
<1>3. StudyInv => StudyRepeatsOptimizer
  BY DEF StudyInv
<1> QED
  BY <1>1, <1>2, <1>3, SearchIsOfEvaluations, PTL DEF StudySpec
=============================================================================
