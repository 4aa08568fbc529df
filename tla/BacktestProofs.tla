--------------------------- MODULE BacktestProofs ---------------------------
(***************************************************************************)
(* Proofs about the programs that judge a configuration, for all bars,     *)
(* signals, scores and exit rules, and any number of days and folds:       *)
(*   - the walk of run_backtest_trailing() holds at most one position, and *)
(*     at every step trades, best price and stop are those that the        *)
(*     history defines; with a loose trail it makes the trades of          *)
(*     run_backtest();                                                     *)
(*   - run_backtest() does not look ahead, and conservative_intrabar is    *)
(*     the lower bound;                                                    *)
(*   - the labels of the decoders call a success only what is a profit;    *)
(*   - the division of the days into training and test parts calls         *)
(*     out-of-sample what is so.                                           *)
(***************************************************************************)
EXTENDS LabelledBacktest, Evaluation, SequenceTheorems, FiniteSetTheorems,
        WellFoundedInduction, TLAPS

-----------------------------------------------------------------------------
(* The first and the last second of a set.                                 *)

LEMMA MinIsLeast ==
    ASSUME NEW S, S \subseteq Nat, S # {}
    PROVE  Min(S) \in S /\ \A y \in S : Min(S) <= y
<1>1. PICK m \in S : \A y \in S : ~(<<y, m>> \in OpToRel(<, Nat))
  BY NatLessThanWellFounded, WFMin
<1>2. \A y \in S : ~(y < m)
  BY <1>1 DEF OpToRel
<1>3. \A y \in S : m <= y
  BY <1>2
<1> QED
  BY <1>3 DEF Min

LEMMA MaxIsGreatest ==
    ASSUME NEW S, S \subseteq Nat, S # {}, NEW n \in Nat, \A y \in S : y <= n
    PROVE  Max(S) \in S /\ \A y \in S : y <= Max(S)
<1> DEFINE T == {k \in Nat : \E y \in S : k = n - y}
<1>1. T \subseteq Nat /\ T # {}
  <2>1. PICK y \in S : TRUE
    OBVIOUS
  <2>2. n - y \in Nat /\ n - y \in T
    <3>1. y \in Nat /\ y <= n
      OBVIOUS
    <3> QED
      BY <3>1
  <2> QED
    BY <2>2
<1>2. PICK k \in T : \A y \in T : k <= y
  BY <1>1, MinIsLeast
<1>3. PICK m \in S : k = n - m
  BY <1>2
<1>4. \A y \in S : y <= m
  BY <1>2, <1>3
<1> QED
  BY <1>4 DEF Max

\* The seconds that a position is held over.
LEMMA WindowIs ==
    ASSUME NEW bs, DOMAIN bs \subseteq Nat, NEW e \in Nat, NEW to \in Nat
    PROVE  /\ Window(bs, e, to) \subseteq DOMAIN bs
           /\ \A s \in Window(bs, e, to) : s \in Nat /\ e < s /\ s <= to
           /\ Window(bs, e, to) # {} =>
                  /\ Min(Window(bs, e, to)) \in Window(bs, e, to)
                  /\ Max(Window(bs, e, to)) \in Window(bs, e, to)
<1> DEFINE W == Window(bs, e, to)
<1>1. W \subseteq Nat /\ W \subseteq DOMAIN bs /\ \A s \in W : e < s /\ s <= to
  BY DEF Window
<1> HIDE DEF W
<1>2. W # {} => Min(W) \in W /\ Max(W) \in W
  BY <1>1, MinIsLeast, MaxIsGreatest
<1> QED
  BY <1>1, <1>2 DEF W

-----------------------------------------------------------------------------
(* The inductive invariant.                                                *)

\* No trade ends later than what later entries are compared with, and a position has
\* been entered within the data.
InTime ==
    /\ \A i \in DOMAIN trades : trades[i].exit <= lastExit
    /\ pos # Flat => pos.entry <= pos.at /\ pos.entry <= end

Inv == TypeOK /\ OnePosition /\ InTime

Held == pos \in [entry : DOMAIN signals, side : {Buy, Sell}, stop : Int, best : Int, at : Nat]

LEMMA PositionIsHeld ==
    ASSUME TypeOK, pos # Flat
    PROVE  /\ Held /\ pos.entry \in Nat /\ pos.at \in Nat
           /\ pos.entry \in DOMAIN bars /\ pos.side \in {1, -1}
           /\ bars[pos.entry].close \in Nat
BY DEF TypeOK, Held, Buy, Sell

LEMMA InitInv == Init => Inv
<1> SUFFICES ASSUME Init PROVE Inv
  OBVIOUS
<1>1. PICK S \in SUBSET Seconds : bars \in [S -> BarKinds]
  BY DEF Init
<1>2. Seconds \subseteq Nat /\ BarKinds \subseteq [high : Nat, low : Nat, close : Nat]
  BY TrailingAssumption DEF Seconds
<1>3. DOMAIN bars \subseteq Nat /\ bars \in [DOMAIN bars -> [high : Nat, low : Nat, close : Nat]]
  BY <1>1, <1>2
<1>4. DOMAIN signals \subseteq DOMAIN bars /\ signals \in [DOMAIN signals -> {Buy, Sell, 0}]
  BY DEF Init
<1>5. end \in Nat
  BY TrailingAssumption DEF Init
<1> QED
  BY <1>3, <1>4, <1>5 DEF Init, Inv, TypeOK, OnePosition, InTime

TradeRecord == [entry : Nat, side : {Buy, Sell}, entryPx : Nat, exit : Nat,
                exitPx : Int, reason : {"tp", "sl", "trail", "timeout"}]

\* A position that is closed at a time within the data.
LEMMA CloseKeepsInv ==
    ASSUME Inv, pos # Flat, NEW exit, Close(exit),
           exit.ts \in Nat, pos.entry <= exit.ts, exit.ts <= end,
           exit.px \in Int, exit.reason \in {"tp", "sl", "trail", "timeout"}
    PROVE  Inv'
<1> DEFINE t == Position(pos.entry, pos.side, bars[pos.entry].close, exit)
<1>1. pos.entry \in Nat /\ pos.side \in {Buy, Sell} /\ bars[pos.entry].close \in Nat
  BY PositionIsHeld DEF Inv, Buy, Sell
<1>2. t \in TradeRecord /\ t.entry = pos.entry /\ t.exit = exit.ts
  BY <1>1 DEF Position, TradeRecord
<1> HIDE DEF t
<1>3. /\ trades' = Append(trades, t) /\ lastExit' = Later(lastExit, exit.ts) /\ pos' = Flat
      /\ UNCHANGED <<bars, signals, x, end, todo>>
  BY DEF Close, input, t
<1>4. trades \in Seq(TradeRecord) /\ lastExit \in Int
  BY DEF Inv, TypeOK, TradeRecord
<1>5. lastExit' \in Nat /\ lastExit <= lastExit' /\ exit.ts <= lastExit'
  BY <1>3, <1>4 DEF Later
<1>6. /\ trades' \in Seq(TradeRecord)
      /\ \A i \in DOMAIN trades' :
            (i \in DOMAIN trades /\ trades'[i] = trades[i]) \/ (i = Len(trades) + 1 /\ trades'[i] = t)
      /\ \A i \in DOMAIN trades : i < Len(trades) + 1
      /\ \A i \in DOMAIN trades' : i <= Len(trades) + 1
  <2>1. /\ Append(trades, t) \in Seq(TradeRecord) /\ Len(Append(trades, t)) = Len(trades) + 1
        /\ \A i \in 1 .. Len(trades) : Append(trades, t)[i] = trades[i]
        /\ Append(trades, t)[Len(trades) + 1] = t
    BY <1>2, <1>4, AppendProperties
  <2>2. Len(trades) \in Nat /\ DOMAIN trades = 1 .. Len(trades) /\ DOMAIN trades' = 1 .. Len(trades')
    BY <1>3, <1>4, <2>1, LenProperties
  <2> QED
    BY <1>3, <2>1, <2>2
<1>7. TypeOK'
  <2>1. (todo \subseteq DOMAIN signals)' /\ (DOMAIN signals \subseteq DOMAIN bars /\ DOMAIN bars \subseteq Nat)'
        /\ (bars \in [DOMAIN bars -> [high : Nat, low : Nat, close : Nat]])'
        /\ (signals \in [DOMAIN signals -> {Buy, Sell, 0}])' /\ (x \in ExitRules /\ end \in Nat)'
    BY <1>3 DEF Inv, TypeOK
  <2> QED
    BY <1>3, <1>5, <1>6, <2>1 DEF TypeOK, TradeRecord
<1>8. \A i \in DOMAIN trades : trades[i].exit <= lastExit /\ trades[i].exit <= pos.entry
                            /\ trades[i].exit \in Nat
  <2>1. \A i \in DOMAIN trades : trades[i] \in TradeRecord
    BY <1>4, ElementOfSeq, LenProperties
  <2>2. \A i \in DOMAIN trades : trades[i].exit <= lastExit /\ trades[i].exit \in Nat
    BY <2>1 DEF Inv, InTime, TradeRecord
  <2>3. lastExit <= pos.entry
    BY DEF Inv, OnePosition
  <2> QED
    BY <1>1, <1>4, <2>2, <2>3
<1>9. OnePosition'
  <2>1. \A i, j \in DOMAIN trades' : i < j => trades'[i].exit <= trades'[j].entry
    BY <1>2, <1>6, <1>8 DEF Inv, OnePosition
  <2>2. \A i \in DOMAIN trades' : trades'[i].entry <= trades'[i].exit /\ trades'[i].exit <= end'
    BY <1>2, <1>3, <1>6 DEF Inv, OnePosition
  <2> QED
    BY <1>3, <2>1, <2>2 DEF OnePosition
<1>10. InTime'
  BY <1>2, <1>3, <1>4, <1>5, <1>6, <1>8 DEF InTime
<1> QED
  BY <1>7, <1>9, <1>10 DEF Inv

\* The end of the holding lies between the entry and the end of the data.
LEMMA ScanEndIs ==
    ASSUME Inv, pos # Flat
    PROVE  /\ ScanEnd(pos.entry, x, end) \in Nat
           /\ pos.entry <= ScanEnd(pos.entry, x, end) /\ ScanEnd(pos.entry, x, end) <= end
<1>1. x.hold \in Nat
  BY TrailingAssumption DEF Inv, TypeOK
<1>2. pos.entry \in Nat /\ end \in Nat /\ pos.entry <= end
  BY PositionIsHeld DEF Inv, InTime, TypeOK
<1> QED
  BY <1>1, <1>2 DEF ScanEnd

\* The next bar of the position.
LEMMA NextBar ==
    ASSUME Inv, pos # Flat, Ahead # {}
    PROVE  /\ Min(Ahead) \in Nat /\ Min(Ahead) \in DOMAIN bars
           /\ pos.at < Min(Ahead) /\ pos.entry <= Min(Ahead) /\ Min(Ahead) <= end
<1>1. pos.at \in Nat /\ pos.entry \in Nat /\ pos.entry <= pos.at /\ end \in Nat
  BY PositionIsHeld DEF Inv, InTime, TypeOK
<1>2. DOMAIN bars \subseteq Nat
  BY DEF Inv, TypeOK
<1>3. Min(Ahead) \in Ahead /\ \A s \in Ahead : s \in Nat /\ pos.at < s /\ s <= ScanEnd(pos.entry, x, end)
  BY <1>1, <1>2, ScanEndIs, WindowIs DEF Ahead
<1>4. Ahead \subseteq DOMAIN bars
  BY <1>1, <1>2, ScanEndIs, WindowIs DEF Ahead
<1> QED
  BY <1>1, <1>3, <1>4, ScanEndIs

-----------------------------------------------------------------------------
(* The steps.                                                              *)

LEMMA NextSignal ==
    ASSUME TypeOK, todo # {}
    PROVE  Min(todo) \in todo /\ Min(todo) \in DOMAIN signals /\ Min(todo) \in Nat
BY MinIsLeast DEF TypeOK

LEMMA SkipKeepsInv ==
    ASSUME Inv, Skip
    PROVE  Inv'
<1>1. UNCHANGED <<bars, signals, x, end, pos, lastExit, trades>> /\ todo' \subseteq todo
  BY DEF Skip, input
<1> QED
  BY <1>1 DEF Inv, TypeOK, OnePosition, InTime

LEMMA EnterKeepsInv ==
    ASSUME Inv, Enter
    PROVE  Inv'
<1> DEFINE e == Min(todo)
           px == Signed(signals[e], bars[e].close)
<1>1. e \in DOMAIN signals /\ e \in Nat /\ e \in DOMAIN bars
  BY NextSignal DEF Inv, TypeOK, Enter
<1>2. /\ Taken(bars, signals, e, 0, end, lastExit)
      /\ pos' = [entry |-> e, side |-> signals[e], stop |-> px - x.sl, best |-> px, at |-> e]
      /\ todo' \subseteq todo /\ UNCHANGED <<bars, signals, x, end, lastExit, trades>>
  BY DEF Enter, input
<1> HIDE DEF e
<1>3. signals[e] \in {Buy, Sell} /\ e <= end /\ lastExit <= e
  BY <1>1, <1>2 DEF Taken, Inv, TypeOK
<1>4. px \in Int /\ x.sl \in Nat
  <2>1. bars[e].close \in Nat
    BY <1>1 DEF Inv, TypeOK
  <2>2. signals[e] \in {1, -1}
    BY <1>3 DEF Buy, Sell
  <2>3. px \in Int
    BY <2>1, <2>2 DEF Signed
  <2> QED
    BY <2>3, TrailingAssumption DEF Inv, TypeOK
<1> HIDE DEF px
<1>5. pos' \in [entry : DOMAIN signals, side : {Buy, Sell}, stop : Int, best : Int, at : Nat]
  BY <1>1, <1>2, <1>3, <1>4
<1>6. TypeOK'
  BY <1>2, <1>5 DEF Inv, TypeOK
<1>7. pos'.entry = e /\ pos'.at = e
  BY <1>2
<1>8. OnePosition'
  BY <1>2, <1>3, <1>7 DEF Inv, OnePosition
<1>9. InTime'
  BY <1>1, <1>2, <1>3, <1>7 DEF Inv, InTime
<1> QED
  BY <1>6, <1>8, <1>9 DEF Inv

LEMMA EntryPxIs ==
    ASSUME Inv, pos # Flat
    PROVE  /\ EntryPx \in Int /\ x.sl \in Nat /\ x.tp \in Nat /\ x.act \in Nat /\ x.dist \in Nat
           /\ pos.stop \in Int /\ pos.best \in Int
           /\ \A p \in Int : Signed(pos.side, p) \in Int
<1>1. pos.side \in {1, -1} /\ bars[pos.entry].close \in Nat /\ pos.stop \in Int /\ pos.best \in Int
  BY PositionIsHeld DEF Inv, Held
<1>2. \A p \in Int : Signed(pos.side, p) \in Int
  BY <1>1 DEF Signed
<1>3. EntryPx \in Int
  BY <1>1, <1>2 DEF EntryPx
<1>4. x.sl \in Nat /\ x.tp \in Nat /\ x.act \in Nat /\ x.dist \in Nat
  BY TrailingAssumption DEF Inv, TypeOK
<1> QED
  BY <1>1, <1>2, <1>3, <1>4

LEMMA StoppedOutKeepsInv ==
    ASSUME Inv, StoppedOut
    PROVE  Inv'
<1> DEFINE exit == [ts |-> Min(Ahead), px |-> Signed(pos.side, pos.stop),
                    reason |-> IF pos.stop # InitialStop THEN "trail" ELSE "sl"]
<1>1. pos # Flat /\ Ahead # {} /\ Close(exit)
  BY DEF StoppedOut
<1>2. exit.px \in Int
  BY <1>1, EntryPxIs
<1>3. exit.ts \in Nat /\ pos.entry <= exit.ts /\ exit.ts <= end
  BY <1>1, NextBar
<1>4. exit.reason \in {"tp", "sl", "trail", "timeout"}
  OBVIOUS
<1> HIDE DEF exit
<1> QED
  BY <1>1, <1>2, <1>3, <1>4, CloseKeepsInv

LEMMA TakesProfitKeepsInv ==
    ASSUME Inv, TakesProfit
    PROVE  Inv'
<1> DEFINE exit == [ts |-> Min(Ahead), px |-> Signed(pos.side, EntryPx + x.tp), reason |-> "tp"]
<1>1. pos # Flat /\ Ahead # {} /\ Close(exit)
  BY DEF TakesProfit
<1>2. exit.px \in Int
  <2>1. EntryPx + x.tp \in Int
    BY <1>1, EntryPxIs
  <2> QED
    BY <1>1, <2>1, EntryPxIs
<1>3. exit.ts \in Nat /\ pos.entry <= exit.ts /\ exit.ts <= end
  BY <1>1, NextBar
<1>4. exit.reason \in {"tp", "sl", "trail", "timeout"}
  OBVIOUS
<1> HIDE DEF exit
<1> QED
  BY <1>1, <1>2, <1>3, <1>4, CloseKeepsInv

LEMMA TrailKeepsInv ==
    ASSUME Inv, Trail
    PROVE  Inv'
<1> DEFINE k == Min(Ahead)
           best == Later(pos.best, Best(pos.side, bars[k]))
<1>1. /\ pos # Flat /\ Ahead # {}
      /\ pos' = [pos EXCEPT !.at = k, !.best = best, !.stop = Follow(best)]
      /\ UNCHANGED <<bars, signals, x, end, todo, lastExit, trades>>
  BY DEF Trail, input
<1>2. k \in Nat /\ k \in DOMAIN bars /\ pos.entry <= k
  BY <1>1, NextBar
<1>3. Held
  BY <1>1, PositionIsHeld DEF Inv
<1>4. best \in Int
  <2>1. bars[k] \in [high : Nat, low : Nat, close : Nat]
    BY <1>2 DEF Inv, TypeOK
  <2>2. Best(pos.side, bars[k]) \in Int
    BY <2>1 DEF Best
  <2> QED
    BY <1>1, <2>2, EntryPxIs DEF Later
<1>5. Follow(best) \in Int
  BY <1>1, <1>4, EntryPxIs DEF Follow, Later
<1> HIDE DEF k, best
<1>6. /\ pos' \in [entry : DOMAIN signals, side : {Buy, Sell}, stop : Int, best : Int, at : Nat]
      /\ pos'.entry = pos.entry /\ pos'.at = k
  BY <1>1, <1>2, <1>3, <1>4, <1>5 DEF Held
<1>7. TypeOK'
  BY <1>1, <1>6 DEF Inv, TypeOK
<1>8. OnePosition'
  BY <1>1, <1>6 DEF Inv, OnePosition
<1>9. InTime'
  BY <1>1, <1>2, <1>6 DEF Inv, InTime
<1> QED
  BY <1>7, <1>8, <1>9 DEF Inv

LEMMA HoldEndsKeepsInv ==
    ASSUME Inv, HoldEnds
    PROVE  Inv'
<1> DEFINE to == ScanEnd(pos.entry, x, end)
           exit == Timeout(bars, pos.entry, to)
           window == Window(bars, pos.entry, to)
<1>1. pos # Flat /\ Close(exit)
  BY DEF HoldEnds
<1>2. to \in Nat /\ pos.entry <= to /\ to <= end /\ pos.entry \in Nat /\ pos.entry \in DOMAIN bars
  BY <1>1, ScanEndIs, PositionIsHeld DEF Inv
<1>3. DOMAIN bars \subseteq Nat /\ bars \in [DOMAIN bars -> [high : Nat, low : Nat, close : Nat]]
  BY DEF Inv, TypeOK
<1>4. exit.ts \in {pos.entry, to} /\ exit.reason = "timeout"
  BY DEF Timeout
<1>5. exit.px \in Int
  <2>1. CASE window = {}
    <3>1. exit.px = bars[pos.entry].close
      BY <2>1 DEF Timeout
    <3> QED
      BY <1>2, <1>3, <3>1
  <2>2. CASE window # {}
    <3>1. exit.px = bars[Max(window)].close
      BY <2>2 DEF Timeout
    <3>2. Max(window) \in DOMAIN bars
      BY <1>2, <1>3, <2>2, WindowIs
    <3> QED
      BY <1>3, <3>1, <3>2
  <2> QED
    BY <2>1, <2>2
<1>6. end \in Nat
  BY DEF Inv, TypeOK
<1> HIDE DEF exit, to
<1>7. exit.ts \in Nat /\ pos.entry <= exit.ts /\ exit.ts <= end
  BY <1>2, <1>4, <1>6
<1> QED
  BY <1>1, <1>4, <1>5, <1>7, CloseKeepsInv

LEMMA InvStep == Inv /\ [Next]_vars => Inv'
<1> SUFFICES ASSUME Inv, [Next]_vars PROVE Inv'
  OBVIOUS
<1>1. CASE Skip
  BY <1>1, SkipKeepsInv
<1>2. CASE Enter
  BY <1>2, EnterKeepsInv
<1>3. CASE StoppedOut
  BY <1>3, StoppedOutKeepsInv
<1>4. CASE TakesProfit
  BY <1>4, TakesProfitKeepsInv
<1>5. CASE Trail
  BY <1>5, TrailKeepsInv
<1>6. CASE HoldEnds
  BY <1>6, HoldEndsKeepsInv
<1>7. CASE UNCHANGED vars
  BY <1>7 DEF vars, input, Inv, TypeOK, OnePosition, InTime
<1> QED
  BY <1>1, <1>2, <1>3, <1>4, <1>5, <1>6, <1>7 DEF Next

\* The strengthened invariant: every variable is typed, the positions closed so far are
\* in order, and the open one began after them and lies within the data
\* (backtest.py:355-481).
THEOREM InvIsInductive == Spec => []Inv
BY InitInv, InvStep, PTL DEF Spec

\* Whatever the bars, the signals and the exit rule, the walk holds one position at a
\* time, and every trade ends after it began and within the data (backtest.py:385-481).
THEOREM OnePositionAtATime == Spec => []OnePosition
BY InvIsInductive, PTL DEF Inv

-----------------------------------------------------------------------------
(* Signal after signal.                                                    *)

\* A function of the subsets of D that looks at one signal after the other.
InTurn(g, D, bs, ss, exits, start, to) ==
    g = [S \in SUBSET D |->
        IF S = {} THEN NoTrades
        ELSE TakeSignal(bs, ss, exits, start, to, Max(S), g[S \ {Max(S)}])]

\* What has been done when the signals of a set have been looked at: the recursive
\* function that RunSignals unfolds to.
Done(bs, ss, exits, start, to) ==
    CHOOSE g : InTurn(g, DOMAIN ss, bs, ss, exits, start, to)

\* RunSignals is the last value of that function.
LEMMA RunSignalsIs ==
    ASSUME NEW bs, NEW ss, NEW exits, NEW start, NEW to
    PROVE  RunSignals(bs, ss, exits, start, to) = Done(bs, ss, exits, start, to)[DOMAIN ss].trades
BY DEF RunSignals, MapThenFoldSet, Done, InTurn

Before(D, m) == {d \in D : d < m}

LEMMA BeforeIs ==
    ASSUME NEW n \in Nat, NEW D, D \subseteq 0 .. n
    PROVE  /\ Before(D, 0) = {} /\ Before(D, n + 1) = D
           /\ \A m \in Nat : /\ Before(D, m) \subseteq Before(D, m + 1)
                             /\ \A S \in SUBSET Before(D, m + 1) :
                                   S # {} => Max(S) \in S /\ S \ {Max(S)} \subseteq Before(D, m)
<1>1. \A d \in D : d \in Nat /\ d <= n
  OBVIOUS
<1>2. \A m, d : d \in Before(D, m) <=> d \in D /\ d < m
  BY DEF Before
<1>3. ASSUME NEW d \in Before(D, 0) PROVE FALSE
  <2>1. d \in D /\ d < 0
    BY <1>2
  <2> QED
    BY <1>1, <2>1
<1>4. ASSUME NEW d \in D PROVE d \in Before(D, n + 1)
  <2>1. d \in Nat /\ d <= n
    BY <1>1
  <2>2. d < n + 1
    BY <2>1
  <2> QED
    BY <1>2, <2>2
<1>5. ASSUME NEW m \in Nat, NEW d \in Before(D, m) PROVE d \in Before(D, m + 1)
  <2>1. d \in D /\ d < m /\ d \in Nat
    BY <1>1, <1>2
  <2>2. d < m + 1
    BY <2>1
  <2> QED
    BY <1>2, <2>1, <2>2
<1>6. ASSUME NEW m \in Nat, NEW S \in SUBSET Before(D, m + 1), S # {}
      PROVE  Max(S) \in S /\ S \ {Max(S)} \subseteq Before(D, m)
  <2>1. \A y \in S : y \in D /\ y < m + 1 /\ y \in Nat
    BY <1>1, <1>2
  <2>2. S \subseteq Nat /\ \A y \in S : y <= m
    BY <2>1
  <2>3. Max(S) \in S /\ \A y \in S : y <= Max(S)
    BY <1>6, <2>2, MaxIsGreatest
  <2>4. ASSUME NEW y \in S, y # Max(S) PROVE y < m
    <3>1. y <= Max(S) /\ Max(S) <= m /\ y \in Nat /\ Max(S) \in Nat
      BY <2>1, <2>2, <2>3
    <3> QED
      BY <2>4, <3>1
  <2>5. \A y \in S \ {Max(S)} : y \in Before(D, m)
    BY <1>2, <2>1, <2>4
  <2> QED
    BY <2>3, <2>5
<1>7. Before(D, 0) = {}
  BY <1>3
<1>8. Before(D, n + 1) = D
  BY <1>2, <1>4
<1>9. \A m \in Nat : Before(D, m) \subseteq Before(D, m + 1)
  BY <1>5
<1> QED
  BY <1>6, <1>7, <1>8, <1>9

\* The least of the numbers that have no such function would be one more than one that
\* has.
LEMMA InTurnExists ==
    ASSUME NEW bs, NEW ss, NEW exits, NEW start, NEW to, NEW n \in Nat, NEW D, D \subseteq 0 .. n
    PROVE  \E g : InTurn(g, D, bs, ss, exits, start, to)
<1> DEFINE Upto(m) == Before(D, m)
           Has(m) == \E g : InTurn(g, Upto(m), bs, ss, exits, start, to)
           None == {m \in Nat : ~Has(m)}
<1>1. Has(0)
  <2>1. Upto(0) = {}
    BY BeforeIs
  <2> DEFINE g == [S \in SUBSET Upto(0) |-> NoTrades]
  <2>2. g = [S \in SUBSET Upto(0) |->
                IF S = {} THEN NoTrades
                ELSE TakeSignal(bs, ss, exits, start, to, Max(S), g[S \ {Max(S)}])]
    BY <2>1
  <2>3. InTurn(g, Upto(0), bs, ss, exits, start, to)
    BY <2>2 DEF InTurn
  <2> QED
    BY <2>3
<1>2. ASSUME NEW m \in Nat, Has(m) PROVE Has(m + 1)
  <2>1. PICK g : InTurn(g, Upto(m), bs, ss, exits, start, to)
    BY <1>2
  <2> DEFINE h == [S \in SUBSET Upto(m + 1) |->
                      IF S \subseteq Upto(m) THEN g[S]
                      ELSE TakeSignal(bs, ss, exits, start, to, Max(S), g[S \ {Max(S)}])]
             Next2(S) == IF S = {} THEN NoTrades
                         ELSE TakeSignal(bs, ss, exits, start, to, Max(S), h[S \ {Max(S)}])
  <2>2. \A S \in SUBSET Upto(m) :
           g[S] = IF S = {} THEN NoTrades
                  ELSE TakeSignal(bs, ss, exits, start, to, Max(S), g[S \ {Max(S)}])
    BY <2>1 DEF InTurn
  <2>3. Upto(m) \subseteq Upto(m + 1)
    BY BeforeIs
  <2>4. \A S \in SUBSET Upto(m + 1) : S # {} => Max(S) \in S /\ S \ {Max(S)} \subseteq Upto(m)
    BY BeforeIs
  <2>5. \A S \in SUBSET Upto(m + 1) : h[S] = Next2(S)
    <3> SUFFICES ASSUME NEW S \in SUBSET Upto(m + 1) PROVE h[S] = Next2(S)
      OBVIOUS
    <3>1. CASE S = {}
      BY <2>2, <3>1
    <3>2. CASE S # {}
      <4>1. S \ {Max(S)} \subseteq Upto(m) /\ S \ {Max(S)} \in SUBSET Upto(m + 1)
        BY <2>3, <2>4, <3>2
      <4>2. h[S \ {Max(S)}] = g[S \ {Max(S)}]
        BY <4>1
      <4>3. h[S] = TakeSignal(bs, ss, exits, start, to, Max(S), g[S \ {Max(S)}])
        BY <2>2, <3>2
      <4> QED
        BY <3>2, <4>2, <4>3
    <3> QED
      BY <3>1, <3>2
  <2>6. h = [S \in SUBSET Upto(m + 1) |-> Next2(S)]
    <3> HIDE DEF Next2
    <3> QED
      BY <2>5
  <2>7. InTurn(h, Upto(m + 1), bs, ss, exits, start, to)
    BY <2>6 DEF InTurn
  <2> QED
    BY <2>7
<1> HIDE DEF Has
<1>3. None = {}
  <2> SUFFICES ASSUME None # {} PROVE FALSE
    OBVIOUS
  <2>1. Min(None) \in None /\ \A y \in None : Min(None) <= y
    BY MinIsLeast
  <2>2. Min(None) \in Nat /\ Min(None) # 0
    BY <1>1, <2>1
  <2>3. Has(Min(None) - 1)
    BY <2>1, <2>2
  <2>4. Has((Min(None) - 1) + 1)
    BY <1>2, <2>2, <2>3
  <2> QED
    BY <2>1, <2>2, <2>4
<1>4. Has(n + 1)
  BY <1>3
<1>5. Upto(n + 1) = D
  BY BeforeIs
<1> QED
  BY <1>4, <1>5 DEF Has

\* The signals in the order of time: the last of a set is looked at after all others.
LEMMA DoneIs ==
    ASSUME NEW bs, NEW ss, NEW exits, NEW start, NEW to, NEW n \in Nat, DOMAIN ss \subseteq 0 .. n
    PROVE  /\ Done(bs, ss, exits, start, to)[{}] = NoTrades
           /\ \A S \in SUBSET DOMAIN ss : S # {} =>
                 Done(bs, ss, exits, start, to)[S] =
                    TakeSignal(bs, ss, exits, start, to, Max(S),
                               Done(bs, ss, exits, start, to)[S \ {Max(S)}])
<1> DEFINE g == Done(bs, ss, exits, start, to)
<1>1. \E h : InTurn(h, DOMAIN ss, bs, ss, exits, start, to)
  BY InTurnExists
<1>2. InTurn(g, DOMAIN ss, bs, ss, exits, start, to)
  BY <1>1 DEF Done
<1> HIDE DEF g
<1>3. \A S \in SUBSET DOMAIN ss :
         g[S] = IF S = {} THEN NoTrades
                ELSE TakeSignal(bs, ss, exits, start, to, Max(S), g[S \ {Max(S)}])
  BY <1>2 DEF InTurn
<1>4. g[{}] = NoTrades
  BY <1>3
<1> QED
  BY <1>3, <1>4 DEF g

\* What holds of no signals and is kept by the next one holds of all of them.
LEMMA SignalInduction ==
    ASSUME NEW D, NEW n \in Nat, D \subseteq 0 .. n, NEW G,
           {} \in G, \A S \in SUBSET D : S # {} /\ S \ {Max(S)} \in G => S \in G
    PROVE  SUBSET D \subseteq G
<1> DEFINE Bad == {m \in Nat : \E S \in SUBSET D : S \notin G /\ \A y \in S : y < m}
<1> SUFFICES ASSUME NEW T \in SUBSET D, T \notin G PROVE FALSE
  OBVIOUS
<1>1. n + 1 \in Bad
  <2>1. \A y \in T : y < n + 1
    OBVIOUS
  <2> QED
    BY <2>1
<1>2. Min(Bad) \in Bad /\ \A y \in Bad : Min(Bad) <= y
  BY <1>1, MinIsLeast
<1>3. PICK S \in SUBSET D : S \notin G /\ \A y \in S : y < Min(Bad)
  BY <1>2
<1>4. S # {} /\ S \subseteq Nat /\ \A y \in S : y <= n
  BY <1>3
<1>5. Max(S) \in S /\ \A y \in S : y <= Max(S)
  BY <1>4, MaxIsGreatest
<1>6. S \ {Max(S)} \notin G /\ S \ {Max(S)} \in SUBSET D
  BY <1>3, <1>4
<1>7. ASSUME NEW y \in S \ {Max(S)} PROVE y < Max(S)
  <2>1. y \in Nat /\ Max(S) \in Nat /\ y <= Max(S) /\ y # Max(S)
    BY <1>4, <1>5
  <2> QED
    BY <2>1
<1>8. Max(S) \in Bad
  BY <1>4, <1>5, <1>6, <1>7
<1>9. Max(S) < Min(Bad) /\ Max(S) \in Nat /\ Min(Bad) \in Nat
  BY <1>2, <1>3, <1>4, <1>5
<1> QED
  BY <1>2, <1>8, <1>9

-----------------------------------------------------------------------------
(* The walk and the history.                                               *)

LEMMA GreatestIs ==
    ASSUME NEW S, S \subseteq Int, NEW m \in S, \A y \in S : y <= m
    PROVE  Max(S) = m
<1>1. \A y \in S : m >= y /\ y \in Int
  OBVIOUS
<1>2. Max(S) \in S /\ \A y \in S : Max(S) >= y
  BY <1>1 DEF Max
<1>3. m \in Int /\ Max(S) \in Int /\ m <= Max(S) /\ Max(S) <= m
  BY <1>2
<1> QED
  BY <1>3

LEMMA LeastIs ==
    ASSUME NEW S, S \subseteq Int, NEW m \in S, \A y \in S : m <= y
    PROVE  Min(S) = m
<1>1. \E g \in S : \A y \in S : g <= y
  OBVIOUS
<1>2. Min(S) \in S /\ \A y \in S : Min(S) <= y
  BY <1>1 DEF Min
<1>3. m \in Int /\ Min(S) \in Int /\ m <= Min(S) /\ Min(S) <= m
  BY <1>2
<1> QED
  BY <1>3

\* The prices that BestUpTo looks at.
PricesUpTo(bs, e, dir, s) ==
    {Signed(dir, bs[e].close)} \cup {Best(dir, bs[k]) : k \in Window(bs, e, s)}

\* A window grows from bar to bar.
LEMMA WindowsAre ==
    ASSUME NEW bs, DOMAIN bs \subseteq Nat, NEW e \in Nat, NEW at \in Nat, NEW to \in Nat,
           e <= at, at <= to
    PROVE  /\ Window(bs, e, e) = {}
           /\ Window(bs, e, to) = Window(bs, e, at) \cup Window(bs, at, to)
           /\ Window(bs, at, to) # {} =>
                LET k == Min(Window(bs, at, to)) IN
                /\ k \in Window(bs, at, to) /\ \A s \in Window(bs, at, to) : k <= s
                /\ Window(bs, e, k - 1) = Window(bs, e, at)
                /\ Window(bs, e, k) = Window(bs, e, at) \cup {k}
<1>1. \A a \in Nat, b \in Int : \A s :
         s \in Window(bs, a, b) <=> s \in DOMAIN bs /\ s \in Nat /\ a < s /\ s <= b
  BY DEF Window
<1>2. ASSUME NEW s \in Window(bs, e, e) PROVE FALSE
  BY <1>1
<1>3. ASSUME NEW s \in Nat PROVE s \in Window(bs, e, to) <=> s \in Window(bs, e, at) \/ s \in Window(bs, at, to)
  BY <1>1
<1>4. Window(bs, e, to) = Window(bs, e, at) \cup Window(bs, at, to)
  BY <1>1, <1>3
<1>5. ASSUME Window(bs, at, to) # {}
      PROVE  LET k == Min(Window(bs, at, to)) IN
                /\ k \in Window(bs, at, to) /\ \A s \in Window(bs, at, to) : k <= s
                /\ Window(bs, e, k - 1) = Window(bs, e, at)
                /\ Window(bs, e, k) = Window(bs, e, at) \cup {k}
  <2> DEFINE k == Min(Window(bs, at, to))
  <2>1. Window(bs, at, to) \subseteq Nat
    BY <1>1
  <2>2. k \in Window(bs, at, to) /\ \A s \in Window(bs, at, to) : k <= s
    BY <1>5, <2>1, MinIsLeast
  <2>3. k \in Nat /\ k \in DOMAIN bs /\ at < k /\ k <= to
    BY <1>1, <2>2
  <2> HIDE DEF k
  <2>4. ASSUME NEW s \in Nat PROVE s \in Window(bs, e, k - 1) <=> s \in Window(bs, e, at)
    <3>1. s \in Window(bs, e, k - 1) => s \notin Window(bs, at, to)
      BY <1>1, <2>2, <2>3
    <3> QED
      BY <1>1, <2>3, <3>1
  <2>5. ASSUME NEW s \in Nat PROVE s \in Window(bs, e, k) <=> s \in Window(bs, e, at) \/ s = k
    <3>1. s \in Window(bs, e, k) /\ s # k => s \notin Window(bs, at, to)
      BY <1>1, <2>2, <2>3
    <3> QED
      BY <1>1, <2>3, <3>1
  <2>6. Window(bs, e, k - 1) = Window(bs, e, at)
    <3>1. Window(bs, e, k - 1) \subseteq Nat /\ Window(bs, e, at) \subseteq Nat
      BY <1>1, <2>3
    <3> QED
      BY <2>4, <3>1
  <2>7. Window(bs, e, k) = Window(bs, e, at) \cup {k}
    <3>1. Window(bs, e, k) \subseteq Nat /\ Window(bs, e, at) \subseteq Nat
      BY <1>1, <2>3
    <3> QED
      BY <2>3, <2>5, <3>1
  <2> QED
    BY <2>2, <2>6, <2>7 DEF k
<1> QED
  BY <1>2, <1>4, <1>5

\* The stop in terms of a best price that is known.
LEMMA StopAfterIs ==
    ASSUME NEW bs, NEW e, NEW dir, NEW r, NEW s, NEW best,
           PricesUpTo(bs, e, dir, s) \subseteq Int, best \in PricesUpTo(bs, e, dir, s),
           \A b \in PricesUpTo(bs, e, dir, s) : b <= best
    PROVE  /\ BestUpTo(bs, e, dir, s) = best
           /\ StopAfter(bs, e, dir, r, r, s) =
                LET px == Signed(dir, bs[e].close) IN
                IF Window(bs, e, s) # {} /\ best >= px + r.act
                THEN Later(px - r.sl, best - r.dist) ELSE px - r.sl
<1>1. BestUpTo(bs, e, dir, s) = best
  BY GreatestIs DEF BestUpTo, PricesUpTo
<1> QED
  BY <1>1 DEF StopAfter

\* What the lemmas need of the arguments.
IsBars(bs) == DOMAIN bs \subseteq Nat /\ bs \in [DOMAIN bs -> [high : Nat, low : Nat, close : Nat]]

IsRule(r) == /\ r.tp \in Nat /\ r.sl \in Nat /\ r.hold \in Nat
             /\ r.conservative \in BOOLEAN

\* With a trail of its own.
IsTrail(r) == IsRule(r) /\ r.act \in Nat /\ r.dist \in Nat

\* The bars of a position in which its stop is hit.
StopsHit(bs, e, dir, r, to) ==
    {k \in Window(bs, e, ScanEnd(e, r, to)) :
        Worst(dir, bs[k]) <= StopAfter(bs, e, dir, r, r, k - 1)}

LEMMA TrailingExitIs ==
    ASSUME NEW bs, NEW e, NEW dir, NEW r, NEW to
    PROVE  LET tp == ProfitBars(bs, e, dir, r, to)
               sl == StopsHit(bs, e, dir, r, to)
               stop == StopAfter(bs, e, dir, r, r, Min(sl) - 1)
           IN  TrailingExit(bs, e, dir, r, r, to) =
                 IF tp \cup sl = {} THEN Timeout(bs, e, ScanEnd(e, r, to))
                 ELSE IF StopComesFirst(tp, sl, r)
                 THEN [ts |-> Min(sl), px |-> Signed(dir, stop),
                       reason |-> IF stop # Signed(dir, bs[e].close) - r.sl THEN "trail" ELSE "sl"]
                 ELSE [ts |-> Min(tp), px |-> bs[e].close + dir * r.tp, reason |-> "tp"]
BY DEF TrailingExit, StopsHit

\* No bar up to a second has ended the position.
Quiet(bs, e, dir, r, at) ==
    \A k \in Window(bs, e, at) :
        /\ ~(Best(dir, bs[k]) >= Signed(dir, bs[e].close) + r.tp)
        /\ ~(Worst(dir, bs[k]) <= StopAfter(bs, e, dir, r, r, k - 1))

LEMMA StopByWindow ==
    ASSUME NEW bs, NEW e, NEW dir, NEW r, NEW s, NEW t, Window(bs, e, s) = Window(bs, e, t)
    PROVE  StopAfter(bs, e, dir, r, r, s) = StopAfter(bs, e, dir, r, r, t)
BY DEF StopAfter, BestUpTo

\* After quiet bars everything that ends a position is ahead, and the next bar is
\* compared with the stop of the last one.
LEMMA HitsAreAhead ==
    ASSUME NEW bs, IsBars(bs), NEW e \in Nat, NEW dir, NEW r, NEW to \in Nat, NEW at \in Nat,
           e <= at, at <= ScanEnd(e, r, to), ScanEnd(e, r, to) \in Nat, Quiet(bs, e, dir, r, at)
    PROVE  LET ahead == Window(bs, at, ScanEnd(e, r, to))
               k == Min(ahead)
               tp == ProfitBars(bs, e, dir, r, to)
               sl == StopsHit(bs, e, dir, r, to)
           IN  /\ tp \subseteq ahead /\ sl \subseteq ahead /\ ahead \subseteq Nat
               /\ ahead # {} =>
                    /\ k \in ahead /\ \A s \in ahead : k <= s
                    /\ k \in tp <=> Best(dir, bs[k]) >= Signed(dir, bs[e].close) + r.tp
                    /\ k \in sl <=> Worst(dir, bs[k]) <= StopAfter(bs, e, dir, r, r, at)
                    /\ StopAfter(bs, e, dir, r, r, k - 1) = StopAfter(bs, e, dir, r, r, at)
<1> DEFINE last == ScanEnd(e, r, to)
           ahead == Window(bs, at, last)
           k == Min(ahead)
           tp == ProfitBars(bs, e, dir, r, to)
           sl == StopsHit(bs, e, dir, r, to)
<1>1. last \in Nat /\ at <= last /\ DOMAIN bs \subseteq Nat
  BY DEF IsBars
<1> HIDE DEF last
<1>2. Window(bs, e, last) = Window(bs, e, at) \cup ahead /\ ahead \subseteq Nat
  <2>1. Window(bs, e, last) = Window(bs, e, at) \cup ahead
    BY <1>1, WindowsAre
  <2>2. ahead \subseteq Nat
    BY <1>1, WindowIs
  <2> QED
    BY <2>1, <2>2
<1>3. tp \subseteq Window(bs, e, last) /\ sl \subseteq Window(bs, e, last)
  BY DEF ProfitBars, StopsHit, last
<1>4. \A s \in Window(bs, e, at) : s \notin tp /\ s \notin sl
  BY DEF Quiet, ProfitBars, StopsHit
<1>5. ASSUME ahead # {}
      PROVE  /\ k \in ahead /\ \A s \in ahead : k <= s
             /\ Window(bs, e, k - 1) = Window(bs, e, at)
  BY <1>1, <1>5, WindowsAre
<1>6. ASSUME ahead # {}
      PROVE  StopAfter(bs, e, dir, r, r, k - 1) = StopAfter(bs, e, dir, r, r, at)
  BY <1>5, <1>6, StopByWindow
<1>7. ASSUME ahead # {}
      PROVE  /\ k \in tp <=> Best(dir, bs[k]) >= Signed(dir, bs[e].close) + r.tp
             /\ k \in sl <=> Worst(dir, bs[k]) <= StopAfter(bs, e, dir, r, r, at)
  <2>1. k \in Window(bs, e, last)
    BY <1>2, <1>5, <1>7
  <2> HIDE DEF k
  <2> QED
    BY <1>6, <1>7, <2>1 DEF ProfitBars, StopsHit, last, k
<1>8. tp \subseteq ahead /\ sl \subseteq ahead
  BY <1>2, <1>3, <1>4
<1> QED
  BY <1>2, <1>5, <1>6, <1>7, <1>8 DEF last

\* The first bar ahead ends the position at its stop.
LEMMA ExitByStop ==
    ASSUME NEW bs, IsBars(bs), NEW e \in Nat, NEW dir, NEW r, NEW to \in Nat, NEW at \in Nat,
           e <= at, at <= ScanEnd(e, r, to), ScanEnd(e, r, to) \in Nat, Quiet(bs, e, dir, r, at),
           Window(bs, at, ScanEnd(e, r, to)) # {},
           LET k == Min(Window(bs, at, ScanEnd(e, r, to))) IN
             /\ Worst(dir, bs[k]) <= StopAfter(bs, e, dir, r, r, at)
             /\ Best(dir, bs[k]) >= Signed(dir, bs[e].close) + r.tp => r.conservative
    PROVE  LET stop == StopAfter(bs, e, dir, r, r, at) IN
           TrailingExit(bs, e, dir, r, r, to) =
             [ts |-> Min(Window(bs, at, ScanEnd(e, r, to))), px |-> Signed(dir, stop),
              reason |-> IF stop # Signed(dir, bs[e].close) - r.sl THEN "trail" ELSE "sl"]
<1> DEFINE ahead == Window(bs, at, ScanEnd(e, r, to))
           k == Min(ahead)
           tp == ProfitBars(bs, e, dir, r, to)
           sl == StopsHit(bs, e, dir, r, to)
<1>1. /\ tp \subseteq ahead /\ sl \subseteq ahead /\ ahead \subseteq Nat
      /\ k \in ahead /\ \A s \in ahead : k <= s
      /\ k \in tp => r.conservative
      /\ k \in sl
      /\ StopAfter(bs, e, dir, r, r, k - 1) = StopAfter(bs, e, dir, r, r, at)
  BY HitsAreAhead
<1> HIDE DEF ahead, k, tp, sl
<1>2. Min(sl) = k
  <2>1. sl \subseteq Int /\ \A y \in sl : k <= y
    BY <1>1
  <2> QED
    BY <1>1, <2>1, LeastIs
<1>3. tp = {} \/ k < Min(tp) \/ (k = Min(tp) /\ r.conservative)
  <2> SUFFICES ASSUME tp # {} PROVE k < Min(tp) \/ (k = Min(tp) /\ r.conservative)
    OBVIOUS
  <2>1. Min(tp) \in tp
    BY <1>1, MinIsLeast
  <2>2. k <= Min(tp) /\ k \in Nat /\ Min(tp) \in Nat
    BY <1>1, <2>1
  <2>3. k = Min(tp) => r.conservative
    BY <1>1, <2>1
  <2> QED
    BY <2>2, <2>3
<1>4. StopComesFirst(tp, sl, r)
  BY <1>1, <1>2, <1>3 DEF StopComesFirst
<1>5. tp \cup sl # {}
  BY <1>1
<1> QED
  BY <1>1, <1>2, <1>4, <1>5, TrailingExitIs DEF tp, sl, k, ahead

\* It ends the position with its profit.
LEMMA ExitByProfit ==
    ASSUME NEW bs, IsBars(bs), NEW e \in Nat, NEW dir, NEW r, NEW to \in Nat, NEW at \in Nat,
           e <= at, at <= ScanEnd(e, r, to), ScanEnd(e, r, to) \in Nat, Quiet(bs, e, dir, r, at),
           Window(bs, at, ScanEnd(e, r, to)) # {},
           LET k == Min(Window(bs, at, ScanEnd(e, r, to))) IN
             /\ Best(dir, bs[k]) >= Signed(dir, bs[e].close) + r.tp
             /\ Worst(dir, bs[k]) <= StopAfter(bs, e, dir, r, r, at) => ~r.conservative
    PROVE  TrailingExit(bs, e, dir, r, r, to) =
             [ts |-> Min(Window(bs, at, ScanEnd(e, r, to))),
              px |-> bs[e].close + dir * r.tp, reason |-> "tp"]
<1> DEFINE ahead == Window(bs, at, ScanEnd(e, r, to))
           k == Min(ahead)
           tp == ProfitBars(bs, e, dir, r, to)
           sl == StopsHit(bs, e, dir, r, to)
<1>1. /\ tp \subseteq ahead /\ sl \subseteq ahead /\ ahead \subseteq Nat
      /\ k \in ahead /\ \A s \in ahead : k <= s
      /\ k \in sl => ~r.conservative
      /\ k \in tp
  BY HitsAreAhead
<1> HIDE DEF ahead, k, tp, sl
<1>2. Min(tp) = k
  <2>1. tp \subseteq Int /\ \A y \in tp : k <= y
    BY <1>1
  <2> QED
    BY <1>1, <2>1, LeastIs
<1>3. sl # {} => ~(Min(sl) < k) /\ (Min(sl) = k => ~r.conservative)
  <2> SUFFICES ASSUME sl # {} PROVE ~(Min(sl) < k) /\ (Min(sl) = k => ~r.conservative)
    OBVIOUS
  <2>1. Min(sl) \in sl
    BY <1>1, MinIsLeast
  <2>2. k <= Min(sl) /\ k \in Nat /\ Min(sl) \in Nat
    BY <1>1, <2>1
  <2>3. k = Min(sl) => ~r.conservative
    BY <1>1, <2>1
  <2> QED
    BY <2>2, <2>3
<1>4. ~StopComesFirst(tp, sl, r)
  BY <1>1, <1>2, <1>3 DEF StopComesFirst
<1>5. tp \cup sl # {}
  BY <1>1
<1> QED
  BY <1>2, <1>4, <1>5, TrailingExitIs DEF tp, sl, k, ahead

\* No bar is left.
LEMMA ExitByTime ==
    ASSUME NEW bs, IsBars(bs), NEW e \in Nat, NEW dir, NEW r, NEW to \in Nat, NEW at \in Nat,
           e <= at, at <= ScanEnd(e, r, to), ScanEnd(e, r, to) \in Nat, Quiet(bs, e, dir, r, at),
           Window(bs, at, ScanEnd(e, r, to)) = {}
    PROVE  TrailingExit(bs, e, dir, r, r, to) = Timeout(bs, e, ScanEnd(e, r, to))
<1>1. ProfitBars(bs, e, dir, r, to) \cup StopsHit(bs, e, dir, r, to) = {}
  BY HitsAreAhead
<1> QED
  BY <1>1, TrailingExitIs

\* How the positions end, were each of the signals to open one.
ExitsOf(bs, ss, r, to) == [e \in DOMAIN ss |-> TrailingExit(bs, e, ss[e], r, r, to)]

DoneWith(bs, ss, r, to, S) == Done(bs, ss, ExitsOf(bs, ss, r, to), 0, to)[S]

\* The signals looked at, and what they have left.
Seen == DOMAIN signals \ todo

Made == [trades |-> trades, lastExit |-> lastExit]

\* The signals are looked at one after the other, and the trades made so far are those
\* of the signals seen so far.
SignalsInTurn ==
    /\ DOMAIN bars \subseteq Seconds
    /\ \A a \in Seen, b \in todo : a < b
    /\ pos = Flat => Made = DoneWith(bars, signals, x, end, Seen)
    /\ pos # Flat =>
         /\ pos.entry \in Seen /\ \A a \in Seen : a <= pos.entry
         /\ pos.side = signals[pos.entry]
         /\ Taken(bars, signals, pos.entry, 0, end, lastExit)
         /\ Made = DoneWith(bars, signals, x, end, Seen \ {pos.entry})

\* The bars are looked at one after the other: best and stop are those of the bars seen
\* so far, and none of these has ended the position.
BarsInTurn ==
    pos # Flat =>
        /\ pos.at <= ScanEnd(pos.entry, x, end)
        /\ pos.best \in PricesUpTo(bars, pos.entry, pos.side, pos.at)
        /\ \A b \in PricesUpTo(bars, pos.entry, pos.side, pos.at) : b <= pos.best
        /\ pos.stop = StopAfter(bars, pos.entry, pos.side, x, x, pos.at)
        /\ Quiet(bars, pos.entry, pos.side, x, pos.at)

WalkInv == Inv /\ SignalsInTurn /\ BarsInTurn

\* What the invariant says of the open position, in terms of the lemmas above.
LEMMA WalkIsTyped ==
    ASSUME WalkInv
    PROVE  /\ IsBars(bars) /\ end \in Nat /\ LastSec \in Nat
           /\ DOMAIN signals \subseteq 0 .. LastSec /\ DOMAIN bars \subseteq 0 .. LastSec
           /\ x.tp \in Nat /\ x.sl \in Nat /\ x.hold \in Nat /\ x.act \in Nat /\ x.dist \in Nat
BY TrailingAssumption DEF WalkInv, Inv, TypeOK, IsBars, SignalsInTurn, Seconds

\* Nothing has been seen at the start.
LEMMA StartOfWalk == Init => WalkInv
<1> SUFFICES ASSUME Init PROVE WalkInv
  OBVIOUS
<1>1. Inv
  BY InitInv
<1>2. PICK S \in SUBSET Seconds : bars \in [S -> BarKinds]
  BY DEF Init
<1>3. DOMAIN bars \subseteq Seconds
  BY <1>2
<1>4. DOMAIN signals \subseteq DOMAIN bars /\ Seen = {}
  BY DEF Init, Seen
<1>5. DOMAIN signals \subseteq 0 .. LastSec /\ LastSec \in Nat
  BY <1>3, <1>4, TrailingAssumption DEF Seconds
<1>6. DoneWith(bars, signals, x, end, {}) = NoTrades
  BY <1>5, DoneIs DEF DoneWith
<1>7. pos = Flat /\ Made = NoTrades
  BY DEF Init, Made, NoTrades
<1>8. SignalsInTurn
  BY <1>3, <1>4, <1>6, <1>7 DEF SignalsInTurn
<1>9. BarsInTurn
  BY <1>7 DEF BarsInTurn
<1> QED
  BY <1>1, <1>8, <1>9 DEF WalkInv

\* The next signal to look at.
LEMMA NextInTurn ==
    ASSUME WalkInv, todo # {}
    PROVE  LET e == Min(todo)
               more == Seen \cup {e}
           IN  /\ e \in todo /\ e \in DOMAIN signals /\ e \in Nat /\ e \notin Seen
               /\ \A b \in todo \ {e} : e < b
               /\ \A a \in Seen : a < e
               /\ more \ {e} = Seen
               /\ more = DOMAIN signals \ (todo \ {e})
<1> DEFINE e == Min(todo)
<1>1. todo \subseteq DOMAIN signals /\ DOMAIN signals \subseteq Nat
  BY DEF WalkInv, Inv, TypeOK
<1>2. e \in todo /\ \A b \in todo : e <= b
  BY <1>1, MinIsLeast
<1> HIDE DEF e
<1>3. \A b \in todo \ {e} : e < b
  <2> TAKE b \in todo \ {e}
  <2>1. b \in Nat /\ e \in Nat /\ e <= b /\ b # e
    BY <1>1, <1>2
  <2> QED
    BY <2>1
<1>4. \A a \in Seen : a < e
  BY <1>2 DEF WalkInv, SignalsInTurn
<1>5. e \notin Seen
  BY <1>2 DEF Seen
<1>6. Seen \cup {e} = DOMAIN signals \ (todo \ {e})
  BY <1>1, <1>2 DEF Seen
<1> QED
  BY <1>1, <1>2, <1>3, <1>4, <1>5, <1>6 DEF e

\* One signal more.
LEMMA OneMore ==
    ASSUME WalkInv, NEW S \in SUBSET DOMAIN signals, NEW e \in S, \A a \in S : a <= e
    PROVE  DoneWith(bars, signals, x, end, S) =
             TakeSignal(bars, signals, ExitsOf(bars, signals, x, end), 0, end, e,
                        DoneWith(bars, signals, x, end, S \ {e}))
<1>1. S \subseteq Int /\ DOMAIN signals \subseteq 0 .. LastSec /\ LastSec \in Nat
  BY WalkIsTyped
<1>2. Max(S) = e
  BY <1>1, GreatestIs
<1> QED
  BY <1>1, <1>2, DoneIs DEF DoneWith

\* A signal that is passed over adds no trade.
LEMMA SkipInTurn ==
    ASSUME WalkInv, Skip
    PROVE  SignalsInTurn' /\ BarsInTurn'
<1> DEFINE e == Min(todo)
<1>1. /\ pos = Flat /\ pos' = Flat /\ todo # {} /\ ~Taken(bars, signals, e, 0, end, lastExit)
      /\ todo' = todo \ {e}
      /\ UNCHANGED <<bars, signals, x, end, lastExit, trades>>
  BY DEF Skip, input
<1>2. /\ e \in DOMAIN signals /\ \A b \in todo \ {e} : e < b
      /\ \A a \in Seen : a < e
      /\ (Seen \cup {e}) \ {e} = Seen
      /\ Seen \cup {e} = DOMAIN signals \ (todo \ {e})
      /\ \A a \in Seen, b \in todo : a < b
  BY <1>1, NextInTurn DEF WalkInv, SignalsInTurn
<1> HIDE DEF e
<1>3. Seen' = Seen \cup {e}
  BY <1>1, <1>2 DEF Seen
<1>4. \A a \in Seen \cup {e}, b \in todo \ {e} : a < b
  BY <1>2
<1>5. DoneWith(bars, signals, x, end, Seen \cup {e}) = Made
  <2> DEFINE S == Seen \cup {e}
  <2>1. S \in SUBSET DOMAIN signals /\ e \in S /\ S \ {e} = Seen
    BY <1>2 DEF Seen
  <2>2. \A a \in S : a <= e
    <3> TAKE a \in S
    <3>1. DOMAIN signals \subseteq Nat
      BY DEF WalkInv, Inv, TypeOK
    <3>2. a \in Nat /\ e \in Nat
      BY <1>2, <2>1, <3>1
    <3> QED
      BY <1>2, <3>2
  <2> HIDE DEF S
  <2>3. Made = DoneWith(bars, signals, x, end, Seen) /\ Made.lastExit = lastExit
    BY <1>1 DEF WalkInv, SignalsInTurn, Made
  <2>4. DoneWith(bars, signals, x, end, S) =
          TakeSignal(bars, signals, ExitsOf(bars, signals, x, end), 0, end, e, Made)
    BY <2>1, <2>2, <2>3, OneMore
  <2>5. TakeSignal(bars, signals, ExitsOf(bars, signals, x, end), 0, end, e, Made) = Made
    BY <1>1, <2>3 DEF TakeSignal
  <2> QED
    BY <2>4, <2>5 DEF S
<1>6. Made' = DoneWith(bars, signals, x, end, Seen)'
  BY <1>1, <1>3, <1>5 DEF Made
<1>7. SignalsInTurn'
  BY <1>1, <1>3, <1>4, <1>6 DEF SignalsInTurn, WalkInv, Seconds
<1> QED
  BY <1>1, <1>7 DEF BarsInTurn

\* A position opens with the initial stop and no bar seen.
LEMMA EnterInTurn ==
    ASSUME WalkInv, Enter
    PROVE  SignalsInTurn' /\ BarsInTurn'
<1> DEFINE e == Min(todo)
           px == Signed(signals[e], bars[e].close)
<1>1. /\ pos = Flat /\ todo # {} /\ Taken(bars, signals, e, 0, end, lastExit)
      /\ pos' = [entry |-> e, side |-> signals[e], stop |-> px - x.sl, best |-> px, at |-> e]
      /\ todo' = todo \ {e}
      /\ UNCHANGED <<bars, signals, x, end, lastExit, trades>>
  BY DEF Enter, input
<1>2. /\ e \in DOMAIN signals /\ e \in Nat /\ \A b \in todo \ {e} : e < b
      /\ \A a \in Seen : a < e
      /\ (Seen \cup {e}) \ {e} = Seen
      /\ Seen \cup {e} = DOMAIN signals \ (todo \ {e})
      /\ \A a \in Seen, b \in todo : a < b
  BY <1>1, NextInTurn DEF WalkInv, SignalsInTurn
<1> HIDE DEF e
<1>3. /\ signals[e] \in {1, -1} /\ e <= end /\ e \in DOMAIN bars /\ bars[e].close \in Nat
      /\ DOMAIN signals \subseteq Nat /\ end \in Nat /\ DOMAIN bars \subseteq Nat /\ x.sl \in Nat
      /\ x.hold \in Nat
  <2>1. signals[e] # 0 /\ e <= end
    BY <1>1 DEF Taken
  <2>2. signals[e] \in {Buy, Sell, 0} /\ e \in DOMAIN bars
    BY <1>2 DEF WalkInv, Inv, TypeOK
  <2>3. bars[e].close \in Nat
    BY <2>2 DEF WalkInv, Inv, TypeOK
  <2> QED
    BY <2>1, <2>2, <2>3, WalkIsTyped DEF Buy, Sell, IsBars, WalkInv, Inv, TypeOK
<1>4. px \in Int
  BY <1>3 DEF Signed
<1>5. Seen' = Seen \cup {e}
  BY <1>1, <1>2 DEF Seen
<1>6. \A a \in Seen \cup {e}, b \in todo \ {e} : a < b
  BY <1>2
<1>7. \A a \in Seen \cup {e} : a <= e
  <2> TAKE a \in Seen \cup {e}
  <2>1. a \in Nat
    BY <1>2, <1>3 DEF Seen
  <2> QED
    BY <1>2, <2>1
<1>8. /\ pos'.entry = e /\ pos'.side = signals[e] /\ pos'.at = e /\ pos'.best = px
      /\ pos'.stop = px - x.sl
  BY <1>1
<1> HIDE DEF px
<1>9. Made' = DoneWith(bars', signals', x', end', Seen' \ {pos'.entry})
  <2>1. Made = DoneWith(bars, signals, x, end, Seen)
    BY <1>1 DEF WalkInv, SignalsInTurn
  <2>2. Made' = Made /\ Seen' \ {pos'.entry} = Seen
    BY <1>1, <1>2, <1>5, <1>8 DEF Made
  <2> QED
    BY <1>1, <2>1, <2>2
<1>10. Taken(bars', signals', pos'.entry, 0, end', lastExit')
  BY <1>1, <1>8
<1>11. pos' # Flat
  BY <1>2, <1>8 DEF Flat
<1>12. SignalsInTurn'
  BY <1>1, <1>5, <1>6, <1>7, <1>8, <1>9, <1>10, <1>11 DEF SignalsInTurn, WalkInv, Seconds
<1>13. Window(bars, e, e) = {}
  BY <1>2, <1>3, WindowsAre
<1>14. PricesUpTo(bars, e, signals[e], e) = {px}
  BY <1>13 DEF PricesUpTo, px
<1>15. StopAfter(bars, e, signals[e], x, x, e) = px - x.sl
  BY <1>13 DEF StopAfter, px
<1>16. Quiet(bars, e, signals[e], x, e)
  BY <1>13 DEF Quiet
<1>17. e <= ScanEnd(e, x, end)
  BY <1>2, <1>3 DEF ScanEnd
<1>18. BarsInTurn'
  <2>1. /\ pos'.at <= ScanEnd(pos'.entry, x', end')
        /\ pos'.best \in PricesUpTo(bars', pos'.entry, pos'.side, pos'.at)
        /\ \A b \in PricesUpTo(bars', pos'.entry, pos'.side, pos'.at) : b <= pos'.best
        /\ pos'.stop = StopAfter(bars', pos'.entry, pos'.side, x', x', pos'.at)
        /\ Quiet(bars', pos'.entry, pos'.side, x', pos'.at)
    <3>1. bars' = bars /\ x' = x /\ end' = end
      BY <1>1
    <3> QED
      BY <1>4, <1>8, <1>14, <1>15, <1>16, <1>17, <3>1
  <2> QED
    BY <2>1 DEF BarsInTurn
<1> QED
  BY <1>12, <1>18

\* A position that is closed the way the definition by the history says.
LEMMA CloseInTurn ==
    ASSUME WalkInv, pos # Flat,
           Close(TrailingExit(bars, pos.entry, pos.side, x, x, end))
    PROVE  SignalsInTurn' /\ BarsInTurn'
<1> DEFINE e == pos.entry
           exit == TrailingExit(bars, e, pos.side, x, x, end)
           t == Position(e, pos.side, bars[e].close, exit)
<1>1. /\ trades' = Append(trades, t) /\ lastExit' = Later(lastExit, exit.ts) /\ pos' = Flat
      /\ UNCHANGED <<bars, signals, x, end, todo>>
  BY DEF Close, input
<1>2. /\ e \in Seen /\ \A a \in Seen : a <= e
      /\ pos.side = signals[e]
      /\ Taken(bars, signals, e, 0, end, lastExit)
      /\ Made = DoneWith(bars, signals, x, end, Seen \ {e})
  BY DEF WalkInv, SignalsInTurn
<1> HIDE DEF e
<1>3. ExitsOf(bars, signals, x, end)[e] = exit
  BY <1>2 DEF ExitsOf, Seen
<1>4. t.exit = exit.ts
  BY DEF Position
<1> HIDE DEF exit
<1>5. TakeSignal(bars, signals, ExitsOf(bars, signals, x, end), 0, end, e, Made)
        = [trades |-> Append(trades, t), lastExit |-> Later(lastExit, exit.ts)]
  BY <1>2, <1>3, <1>4 DEF TakeSignal, Made
<1>6. DoneWith(bars, signals, x, end, Seen) =
        TakeSignal(bars, signals, ExitsOf(bars, signals, x, end), 0, end, e,
                   DoneWith(bars, signals, x, end, Seen \ {e}))
  BY <1>2, OneMore DEF Seen
<1>7. Made' = DoneWith(bars', signals', x', end', Seen')
  <2>1. Seen' = Seen
    BY <1>1 DEF Seen
  <2>2. Made' = [trades |-> Append(trades, t), lastExit |-> Later(lastExit, exit.ts)]
    BY <1>1 DEF Made
  <2> QED
    BY <1>1, <1>2, <1>5, <1>6, <2>1, <2>2
<1>8. \A a \in Seen', b \in todo' : a < b
  BY <1>1 DEF WalkInv, SignalsInTurn, Seen
<1>9. SignalsInTurn'
  BY <1>1, <1>7, <1>8 DEF WalkInv, SignalsInTurn, Seconds
<1> QED
  BY <1>1, <1>9 DEF BarsInTurn

\* The open position and the bars ahead of it.
LEMMA PositionInTurn ==
    ASSUME WalkInv, pos # Flat
    PROVE  /\ pos.entry \in Nat /\ pos.at \in Nat /\ pos.entry <= pos.at /\ pos.side \in {1, -1}
           /\ pos.at <= ScanEnd(pos.entry, x, end) /\ ScanEnd(pos.entry, x, end) \in Nat
           /\ Quiet(bars, pos.entry, pos.side, x, pos.at)
           /\ pos.stop = StopAfter(bars, pos.entry, pos.side, x, x, pos.at)
           /\ Ahead = Window(bars, pos.at, ScanEnd(pos.entry, x, end))
           /\ EntryPx = Signed(pos.side, bars[pos.entry].close) /\ bars[pos.entry].close \in Nat
           /\ EntryPx \in Int /\ x.sl \in Nat /\ x.tp \in Nat
<1>1. TypeOK /\ Inv /\ pos.entry <= pos.at
  BY DEF WalkInv, Inv, InTime
<1> QED
  BY <1>1, PositionIsHeld, ScanEndIs, EntryPxIs DEF WalkInv, BarsInTurn, Ahead, EntryPx

\* The three ends of a position are those of its history.
LEMMA StoppedOutInTurn ==
    ASSUME WalkInv, StoppedOut
    PROVE  SignalsInTurn' /\ BarsInTurn'
<1> DEFINE k == Min(Ahead)
           exit == [ts |-> k, px |-> Signed(pos.side, pos.stop),
                    reason |-> IF pos.stop # InitialStop THEN "trail" ELSE "sl"]
<1>1. /\ pos # Flat /\ Ahead # {} /\ Close(exit)
      /\ Worst(pos.side, bars[k]) <= pos.stop
      /\ Best(pos.side, bars[k]) >= EntryPx + x.tp => x.conservative
  BY DEF StoppedOut, HitStop, HitProfit
<1>2. TrailingExit(bars, pos.entry, pos.side, x, x, end) = exit
  BY <1>1, PositionInTurn, WalkIsTyped, ExitByStop DEF InitialStop
<1> QED
  BY <1>1, <1>2, CloseInTurn

LEMMA TakesProfitInTurn ==
    ASSUME WalkInv, TakesProfit
    PROVE  SignalsInTurn' /\ BarsInTurn'
<1> DEFINE k == Min(Ahead)
           exit == [ts |-> k, px |-> Signed(pos.side, EntryPx + x.tp), reason |-> "tp"]
<1>1. /\ pos # Flat /\ Ahead # {} /\ Close(exit)
      /\ Best(pos.side, bars[k]) >= EntryPx + x.tp
      /\ Worst(pos.side, bars[k]) <= pos.stop => ~x.conservative
  BY DEF TakesProfit, HitStop, HitProfit
<1>2. Signed(pos.side, EntryPx + x.tp) = bars[pos.entry].close + pos.side * x.tp
  BY <1>1, PositionInTurn DEF Signed
<1>3. TrailingExit(bars, pos.entry, pos.side, x, x, end) = exit
  BY <1>1, <1>2, PositionInTurn, WalkIsTyped, ExitByProfit
<1> QED
  BY <1>1, <1>3, CloseInTurn

LEMMA HoldEndsInTurn ==
    ASSUME WalkInv, HoldEnds
    PROVE  SignalsInTurn' /\ BarsInTurn'
<1>1. pos # Flat /\ Ahead = {} /\ Close(Timeout(bars, pos.entry, ScanEnd(pos.entry, x, end)))
  BY DEF HoldEnds
<1>2. TrailingExit(bars, pos.entry, pos.side, x, x, end) =
        Timeout(bars, pos.entry, ScanEnd(pos.entry, x, end))
  BY <1>1, PositionInTurn, WalkIsTyped, ExitByTime
<1> QED
  BY <1>1, <1>2, CloseInTurn

\* A bar that ends nothing moves best and stop to those of the history with it.
LEMMA TrailInTurn ==
    ASSUME WalkInv, Trail
    PROVE  SignalsInTurn' /\ BarsInTurn'
<1> DEFINE k == Min(Ahead)
           e == pos.entry
           best == Later(pos.best, Best(pos.side, bars[k]))
           old == PricesUpTo(bars, e, pos.side, pos.at)
           new == PricesUpTo(bars, e, pos.side, k)
<1>1. /\ pos # Flat /\ Ahead # {}
      /\ ~(Worst(pos.side, bars[k]) <= pos.stop) /\ ~(Best(pos.side, bars[k]) >= EntryPx + x.tp)
      /\ pos' = [pos EXCEPT !.at = k, !.best = best, !.stop = Follow(best)]
      /\ UNCHANGED <<bars, signals, x, end, todo, lastExit, trades>>
  BY DEF Trail, input, HitStop, HitProfit
<1>2. Held
  BY <1>1, PositionIsHeld DEF WalkInv, Inv
<1>3. /\ pos'.entry = e /\ pos'.side = pos.side /\ pos'.at = k /\ pos'.best = best
      /\ pos'.stop = Follow(best)
  BY <1>1, <1>2 DEF Held
<1>4. pos' # Flat
  BY <1>1, <1>2 DEF Held, Flat
<1>5. SignalsInTurn'
  <2>1. Seen' = Seen /\ Made' = Made
    BY <1>1 DEF Seen, Made
  <2>2. /\ e \in Seen /\ \A a \in Seen : a <= e
        /\ pos.side = signals[e]
        /\ Taken(bars, signals, e, 0, end, lastExit)
        /\ Made = DoneWith(bars, signals, x, end, Seen \ {e})
        /\ DOMAIN bars \subseteq Seconds /\ \A a \in Seen, b \in todo : a < b
    BY <1>1 DEF WalkInv, SignalsInTurn
  <2> HIDE DEF e
  <2>3. /\ pos'.entry \in Seen' /\ \A a \in Seen' : a <= pos'.entry
        /\ pos'.side = signals'[pos'.entry]
        /\ Taken(bars', signals', pos'.entry, 0, end', lastExit')
        /\ Made' = DoneWith(bars', signals', x', end', Seen' \ {pos'.entry})
    BY <1>1, <1>3, <2>1, <2>2
  <2> QED
    BY <1>1, <1>4, <2>1, <2>2, <2>3 DEF SignalsInTurn, Seconds
<1>6. /\ e \in Nat /\ pos.at \in Nat /\ e <= pos.at /\ IsBars(bars) /\ DOMAIN bars \subseteq Nat
      /\ pos.at <= ScanEnd(e, x, end) /\ ScanEnd(e, x, end) \in Nat
      /\ Ahead = Window(bars, pos.at, ScanEnd(e, x, end))
      /\ EntryPx = Signed(pos.side, bars[e].close)
      /\ EntryPx \in Int /\ x.sl \in Nat /\ x.act \in Nat /\ x.dist \in Nat
  BY <1>1, PositionInTurn, WalkIsTyped DEF IsBars
<1>7. /\ k \in Ahead
      /\ Window(bars, e, k - 1) = Window(bars, e, pos.at)
      /\ Window(bars, e, k) = Window(bars, e, pos.at) \cup {k}
  BY <1>1, <1>6, WindowsAre
<1>8. k \in DOMAIN bars /\ k \in Nat /\ k <= ScanEnd(e, x, end)
  BY <1>6, <1>7 DEF Window
<1>9. /\ pos.best \in old /\ \A b \in old : b <= pos.best
      /\ pos.stop = StopAfter(bars, e, pos.side, x, x, pos.at)
      /\ Quiet(bars, e, pos.side, x, pos.at)
  BY <1>1 DEF WalkInv, BarsInTurn
<1>10. Best(pos.side, bars[k]) \in Int /\ pos.best \in Int
  <2>1. bars[k] \in [high : Nat, low : Nat, close : Nat]
    BY <1>6, <1>8 DEF IsBars
  <2> QED
    BY <1>2, <2>1 DEF Best, Held
<1>11. new = old \cup {Best(pos.side, bars[k])}
  BY <1>7 DEF PricesUpTo
<1>12. old \subseteq Int
  <2>1. \A s \in Window(bars, e, pos.at) : s \in DOMAIN bars
    BY DEF Window
  <2>2. \A s \in DOMAIN bars : Best(pos.side, bars[s]) \in Int
    <3> TAKE s \in DOMAIN bars
    <3>1. bars[s] \in [high : Nat, low : Nat, close : Nat]
      BY <1>6 DEF IsBars
    <3> QED
      BY <3>1 DEF Best
  <2> QED
    BY <1>6, <2>1, <2>2 DEF PricesUpTo
<1>13. best \in new /\ (\A b \in new : b <= best) /\ new \subseteq Int /\ best \in Int
  <2> HIDE DEF new, old, k, e
  <2>1. best = pos.best \/ best = Best(pos.side, bars[k])
    BY DEF Later
  <2>2. best \in new /\ new \subseteq Int /\ best \in Int
    BY <1>9, <1>10, <1>11, <1>12, <2>1
  <2>3. pos.best <= best /\ Best(pos.side, bars[k]) <= best
    BY <1>10 DEF Later
  <2> HIDE DEF best
  <2>4. \A b \in new : b <= best
    <3> TAKE b \in new
    <3>1. CASE b \in old
      <4>1. b <= pos.best /\ b \in Int
        BY <1>9, <1>12, <3>1
      <4> QED
        BY <1>10, <2>2, <2>3, <4>1
    <3>2. CASE b = Best(pos.side, bars[k])
      BY <2>3, <3>2
    <3> QED
      BY <1>11, <3>1, <3>2
  <2> QED
    BY <2>2, <2>4
<1>14. StopAfter(bars, e, pos.side, x, x, k) = Follow(best)
  <2>1. StopAfter(bars, e, pos.side, x, x, k) =
          IF best >= EntryPx + x.act THEN Later(EntryPx - x.sl, best - x.dist) ELSE EntryPx - x.sl
    <3>1. StopAfter(bars, e, pos.side, x, x, k) =
            IF Window(bars, e, k) # {} /\ best >= EntryPx + x.act
            THEN Later(EntryPx - x.sl, best - x.dist) ELSE EntryPx - x.sl
      BY <1>6, <1>13, StopAfterIs
    <3> QED
      BY <1>7, <3>1
  <2>2. pos.stop = IF Window(bars, e, pos.at) # {} /\ pos.best >= EntryPx + x.act
                   THEN Later(EntryPx - x.sl, pos.best - x.dist) ELSE EntryPx - x.sl
    BY <1>6, <1>9, <1>12, StopAfterIs
  <2>3. pos.best <= best
    BY <1>10 DEF Later
  <2> HIDE DEF best, k, e
  <2> QED
    BY <1>6, <1>10, <1>13, <2>1, <2>2, <2>3 DEF Follow, Later
<1>15. Quiet(bars, e, pos.side, x, k)
  <2>1. StopAfter(bars, e, pos.side, x, x, k - 1) = pos.stop
    BY <1>7, <1>9, StopByWindow
  <2> HIDE DEF k, e
  <2> QED
    BY <1>1, <1>6, <1>7, <1>9, <2>1 DEF Quiet
<1>16. BarsInTurn'
  <2>1. bars' = bars /\ x' = x /\ end' = end
    BY <1>1
  <2> HIDE DEF k, e, best
  <2>2. /\ pos'.at <= ScanEnd(pos'.entry, x', end')
        /\ pos'.best \in PricesUpTo(bars', pos'.entry, pos'.side, pos'.at)
        /\ \A b \in PricesUpTo(bars', pos'.entry, pos'.side, pos'.at) : b <= pos'.best
        /\ pos'.stop = StopAfter(bars', pos'.entry, pos'.side, x', x', pos'.at)
        /\ Quiet(bars', pos'.entry, pos'.side, x', pos'.at)
    BY <1>3, <1>8, <1>13, <1>14, <1>15, <2>1
  <2> QED
    BY <2>2 DEF BarsInTurn
<1> QED
  BY <1>5, <1>16

\* The walk is at every step where the history has brought it (run_backtest_trailing,
\* backtest.py:355-481): the trades made so far are those that the signals seen so far
\* define one after the other, and best and stop of the open position those that the bars
\* seen so far define, none of which has ended it.
THEOREM WalkIsOfHistory == Spec => []WalkInv
<1>1. WalkInv /\ [Next]_vars => WalkInv'
  <2> SUFFICES ASSUME WalkInv, [Next]_vars PROVE WalkInv'
    OBVIOUS
  <2>1. Inv'
    BY InvStep DEF WalkInv
  <2>2. SignalsInTurn' /\ BarsInTurn'
    <3>1. CASE UNCHANGED vars
      BY <3>1 DEF vars, input, WalkInv, SignalsInTurn, BarsInTurn, Seen, Made, EntryPx, Seconds
    <3> QED
      BY <3>1, SkipInTurn, EnterInTurn, StoppedOutInTurn, TakesProfitInTurn, TrailInTurn,
         HoldEndsInTurn DEF Next
  <2> QED
    BY <2>1, <2>2 DEF WalkInv
<1> QED
  BY StartOfWalk, <1>1, PTL DEF Spec

\* For every market, the signals and the exit rule: the walk ends with the trades that
\* the history defines, and every bar is compared with the stop that the bars before it
\* have earned, its own price left out (backtest.py:397-437).
THEOREM StopIsOfHistory == Spec => []StopOfHistory
<1>1. WalkInv => StopOfHistory
  <2> SUFFICES ASSUME WalkInv PROVE StopOfHistory
    OBVIOUS
  <2>1. ASSUME todo = {}, pos = Flat PROVE trades = RunBacktestTrailing(bars, signals, x, x, 0, end)
    <3>1. Seen = DOMAIN signals
      BY <2>1 DEF Seen
    <3>2. trades = DoneWith(bars, signals, x, end, DOMAIN signals).trades
      BY <2>1, <3>1 DEF WalkInv, SignalsInTurn, Made
    <3> QED
      BY <3>2, RunSignalsIs DEF RunBacktestTrailing, DoneWith, ExitsOf
  <2> QED
    BY <2>1 DEF StopOfHistory, WalkInv, BarsInTurn
<1> QED
  BY WalkIsOfHistory, <1>1, PTL

-----------------------------------------------------------------------------
(* A loose trail.                                                          *)

\* Only the exits of signals with a side matter.
LEMMA SameExits ==
    ASSUME NEW bs, NEW ss, NEW a, NEW b, NEW start, NEW to, NEW n \in Nat, DOMAIN ss \subseteq 0 .. n,
           \A e \in DOMAIN ss : ss[e] # 0 => a[e] = b[e]
    PROVE  RunSignals(bs, ss, a, start, to) = RunSignals(bs, ss, b, start, to)
<1> DEFINE D == DOMAIN ss
           One == Done(bs, ss, a, start, to)
           Two == Done(bs, ss, b, start, to)
           G == {S \in SUBSET D : One[S] = Two[S]}
<1>1. {} \in G
  BY DoneIs
<1>2. ASSUME NEW S \in SUBSET D, S # {}, S \ {Max(S)} \in G PROVE S \in G
  <2> DEFINE e == Max(S)
             past == One[S \ {e}]
  <2>1. e \in D
    <3>1. S \subseteq Nat /\ \A y \in S : y <= n
      OBVIOUS
    <3> QED
      BY <1>2, <3>1, MaxIsGreatest
  <2>2. One[S] = TakeSignal(bs, ss, a, start, to, e, past)
    BY <1>2, DoneIs
  <2>3. Two[S] = TakeSignal(bs, ss, b, start, to, e, past)
    BY <1>2, DoneIs
  <2> HIDE DEF e, past
  <2>4. TakeSignal(bs, ss, a, start, to, e, past) = TakeSignal(bs, ss, b, start, to, e, past)
    BY <2>1 DEF TakeSignal, Taken
  <2> QED
    BY <2>2, <2>3, <2>4
<1> HIDE DEF One, Two
<1>3. SUBSET D \subseteq G
  <2> HIDE DEF G, D
  <2>1. D \subseteq 0 .. n
    BY DEF D
  <2> QED
    BY <1>1, <1>2, <2>1, SignalInduction
<1>4. One[D] = Two[D]
  BY <1>3
<1> QED
  BY <1>4, RunSignalsIs DEF One, Two

\* There is a best price up to every second.
LEMMA BestExists ==
    ASSUME NEW bs, IsBars(bs), NEW e \in DOMAIN bs, NEW dir \in {1, -1}
    PROVE  \A m \in Nat : /\ PricesUpTo(bs, e, dir, m) \subseteq Int
                          /\ \E b \in PricesUpTo(bs, e, dir, m) :
                                \A c \in PricesUpTo(bs, e, dir, m) : c <= b
<1> DEFINE P(m) == PricesUpTo(bs, e, dir, m)
           Has(m) == \E b \in P(m) : \A c \in P(m) : c <= b
           None == {m \in Nat : ~Has(m)}
           px == Signed(dir, bs[e].close)
<1>1. \A s \in DOMAIN bs : Best(dir, bs[s]) \in Int
  <2> TAKE s \in DOMAIN bs
  <2>1. bs[s] \in [high : Nat, low : Nat, close : Nat]
    BY DEF IsBars
  <2> QED
    BY <2>1 DEF Best
<1>2. px \in Int
  <2>1. bs[e].close \in Nat
    BY DEF IsBars
  <2> QED
    BY <2>1 DEF Signed
<1>3. \A m \in Nat : P(m) \subseteq Int
  BY <1>1, <1>2 DEF PricesUpTo, Window
<1>4. DOMAIN bs \subseteq Nat /\ e \in Nat
  BY DEF IsBars
<1>5. \A m, p : p \in P(m) <=> p = px \/ \E s \in DOMAIN bs : e < s /\ s <= m /\ p = Best(dir, bs[s])
  BY DEF PricesUpTo, Window
<1> HIDE DEF P, px
<1>6. Has(0)
  <2>1. px \in P(0)
    BY <1>5
  <2>2. ASSUME NEW p \in P(0) PROVE p = px
    <3>1. ASSUME NEW s \in DOMAIN bs, e < s, s <= 0 PROVE FALSE
      BY <1>4, <3>1
    <3> QED
      BY <1>5, <3>1
  <2> QED
    BY <1>2, <2>1, <2>2
<1>7. ASSUME NEW m \in Nat, Has(m) PROVE Has(m + 1)
  <2>1. PICK b \in P(m) : \A c \in P(m) : c <= b
    BY <1>7
  <2>2. b \in P(m + 1)
    <3>1. CASE b = px
      BY <1>5, <3>1
    <3>2. CASE b # px
      <4>1. PICK s \in DOMAIN bs : e < s /\ s <= m /\ b = Best(dir, bs[s])
        BY <1>5, <3>2
      <4>2. s <= m + 1
        BY <1>4, <4>1
      <4> QED
        BY <1>5, <4>1, <4>2
    <3> QED
      BY <3>1, <3>2
  <2>3. ASSUME NEW c \in P(m + 1), c \notin P(m)
        PROVE  m + 1 \in DOMAIN bs /\ e < m + 1 /\ c = Best(dir, bs[m + 1])
    <3>1. PICK s \in DOMAIN bs : e < s /\ s <= m + 1 /\ c = Best(dir, bs[s])
      BY <1>5, <2>3
    <3>2. ~(s <= m)
      BY <1>5, <2>3, <3>1
    <3>3. s = m + 1
      BY <1>4, <3>1, <3>2
    <3> QED
      BY <3>1, <3>3
  <2> DEFINE new == Best(dir, bs[m + 1])
  <2>4. CASE \E c \in P(m + 1) : c \notin P(m) /\ b <= c
    <3>1. PICK c \in P(m + 1) : c \notin P(m) /\ b <= c
      BY <2>4
    <3>2. c = new /\ c \in Int /\ b \in Int
      BY <1>3, <2>3, <3>1
    <3>3. \A d \in P(m + 1) : d <= c
      <4> TAKE d \in P(m + 1)
      <4>1. CASE d \in P(m)
        <5>1. d <= b /\ d \in Int
          BY <1>3, <2>1, <4>1
        <5> QED
          BY <3>1, <3>2, <5>1
      <4>2. CASE d \notin P(m)
        BY <2>3, <3>2, <4>2
      <4> QED
        BY <4>1, <4>2
    <3> QED
      BY <3>1, <3>3
  <2>5. CASE ~\E c \in P(m + 1) : c \notin P(m) /\ b <= c
    <3>1. \A d \in P(m + 1) : d <= b
      <4> TAKE d \in P(m + 1)
      <4>1. d \in Int /\ b \in Int
        BY <1>3, <2>2
      <4>2. d \in P(m) => d <= b
        BY <2>1
      <4>3. d \notin P(m) => ~(b <= d)
        BY <2>5
      <4> QED
        BY <4>1, <4>2, <4>3
    <3> QED
      BY <2>2, <3>1
  <2> QED
    BY <2>4, <2>5
<1> HIDE DEF Has
<1>8. None = {}
  <2> SUFFICES ASSUME None # {} PROVE FALSE
    OBVIOUS
  <2>1. Min(None) \in None /\ \A y \in None : Min(None) <= y
    BY MinIsLeast
  <2>2. Min(None) \in Nat /\ Min(None) # 0
    BY <1>6, <2>1
  <2>3. Has(Min(None) - 1)
    BY <2>1, <2>2
  <2>4. Has((Min(None) - 1) + 1)
    BY <1>7, <2>2, <2>3
  <2> QED
    BY <2>1, <2>2, <2>4
<1> QED
  BY <1>3, <1>8 DEF Has, P

\* As long as no bar takes the profit a loose trail does not move the stop.
LEMMA LooseStop ==
    ASSUME NEW bs, IsBars(bs), NEW e \in DOMAIN bs, NEW dir \in {1, -1}, NEW r, IsTrail(r),
           Loose(r, r), r.tp > 0, NEW s \in Nat,
           \A k \in Window(bs, e, s) : ~(Best(dir, bs[k]) >= Signed(dir, bs[e].close) + r.tp)
    PROVE  StopAfter(bs, e, dir, r, r, s) = Signed(dir, bs[e].close) - r.sl
<1> DEFINE px == Signed(dir, bs[e].close)
<1>1. PICK b \in PricesUpTo(bs, e, dir, s) : \A c \in PricesUpTo(bs, e, dir, s) : c <= b
  BY BestExists
<1>2. PricesUpTo(bs, e, dir, s) \subseteq Int
  BY BestExists
<1>3. StopAfter(bs, e, dir, r, r, s) =
        IF Window(bs, e, s) # {} /\ b >= px + r.act THEN Later(px - r.sl, b - r.dist) ELSE px - r.sl
  BY <1>1, <1>2, StopAfterIs
<1>4. px \in Int /\ b \in Int
  BY <1>1, <1>2 DEF PricesUpTo
<1>5. r.tp \in Nat /\ r.sl \in Nat /\ r.act \in Nat /\ r.dist \in Nat
  BY DEF IsRule, IsTrail
<1>6. b < px + r.tp
  <2>1. b = px \/ \E k \in Window(bs, e, s) : b = Best(dir, bs[k])
    BY <1>1 DEF PricesUpTo
  <2> HIDE DEF px
  <2>2. b = px \/ ~(b >= px + r.tp)
    BY <2>1 DEF px
  <2> QED
    BY <1>4, <1>5, <2>2
<1>7. r.act >= r.tp
  BY DEF Loose
<1> HIDE DEF px
<1> QED
  BY <1>3, <1>4, <1>5, <1>6, <1>7 DEF Later, px

\* Two sets that are the same up to a second.
LEMMA SameFirst ==
    ASSUME NEW A, NEW B, A \subseteq Nat, B \subseteq Nat, NEW T \in Nat,
           \A s \in Nat : s <= T => (s \in A <=> s \in B), A # {}, Min(A) <= T
    PROVE  B # {} /\ Min(B) = Min(A)
<1>1. Min(A) \in A /\ \A y \in A : Min(A) <= y
  BY MinIsLeast
<1>2. Min(A) \in B /\ Min(A) \in Nat
  BY <1>1
<1>3. ASSUME NEW y \in B PROVE Min(A) <= y
  <2>1. CASE y <= T
    BY <1>1, <2>1
  <2>2. CASE ~(y <= T)
    BY <1>2, <2>2
  <2> QED
    BY <2>1, <2>2
<1>4. B \subseteq Int
  OBVIOUS
<1> QED
  BY <1>2, <1>3, <1>4, LeastIs

\* Without scores only the price ends a position.
LEMMA ExitWithoutScores ==
    ASSUME NEW bs, NEW e, NEW dir, NEW r, NEW to
    PROVE  Exit(bs, <<>>, e, dir, r, to) = PriceExit(bs, e, dir, r, to)
<1>1. TurnedScores(<<>>, e, dir, r, to) = {}
  <2>1. DOMAIN <<>> = {}
    OBVIOUS
  <2> QED
    BY <2>1 DEF TurnedScores
<1> QED
  BY <1>1 DEF Exit

\* With a loose trail the walk and the search find the same exit.
LEMMA LooseExit ==
    ASSUME NEW bs, IsBars(bs), NEW e \in DOMAIN bs, NEW dir \in {1, -1}, NEW r, IsTrail(r),
           Loose(r, r), r.tp > 0, NEW to \in Nat, ScanEnd(e, r, to) \in Nat
    PROVE  TrailingExit(bs, e, dir, r, r, to) = PriceExit(bs, e, dir, r, to)
<1> DEFINE W == Window(bs, e, ScanEnd(e, r, to))
           px == Signed(dir, bs[e].close)
           tp == ProfitBars(bs, e, dir, r, to)
           sl == StopBars(bs, e, dir, r, to)
           hit == StopsHit(bs, e, dir, r, to)
<1>1. /\ \A s \in W : s \in DOMAIN bs /\ s \in Nat /\ e < s /\ s <= ScanEnd(e, r, to)
      /\ e \in Nat
  BY DEF Window, IsBars
<1>2. tp \subseteq W /\ sl \subseteq W /\ hit \subseteq W /\ W \subseteq Nat
  BY <1>1 DEF ProfitBars, StopBars, StopsHit
<1>3. \A s \in W : s \in tp <=> Best(dir, bs[s]) >= px + r.tp
  BY DEF ProfitBars
<1>4. \A s \in W : s \in sl <=> Worst(dir, bs[s]) <= px - r.sl
  BY DEF StopBars
<1>5. \A s \in W : s \in hit <=> Worst(dir, bs[s]) <= StopAfter(bs, e, dir, r, r, s - 1)
  BY DEF StopsHit
     \* Up to the first bar that takes the profit the stop is the initial one.
<1>6. ASSUME NEW s \in W, \A k \in tp : s <= k
      PROVE  StopAfter(bs, e, dir, r, r, s - 1) = px - r.sl
  <2>1. s - 1 \in Nat
    BY <1>1
  <2>2. ASSUME NEW k \in Window(bs, e, s - 1) PROVE ~(Best(dir, bs[k]) >= px + r.tp)
    <3>1. k \in DOMAIN bs /\ k \in Nat /\ e < k /\ k <= s - 1
      BY DEF Window, IsBars
    <3>2. k \in W /\ ~(s <= k)
      BY <1>1, <3>1 DEF Window
    <3> QED
      BY <1>3, <1>6, <3>2
  <2> QED
    BY <2>1, <2>2, LooseStop
<1>7. \A s \in W : (\A k \in tp : s <= k) => (s \in hit <=> s \in sl)
  BY <1>4, <1>5, <1>6
<1>8. Signed(dir, px - r.sl) = bs[e].close - dir * r.sl
  <2>1. bs[e].close \in Nat /\ r.sl \in Nat
    BY DEF IsBars, IsRule, IsTrail
  <2> QED
    BY <2>1 DEF Signed
<1> HIDE DEF W, tp, sl, hit
     \* Each of the two comes first with its stop, at the same bar, or neither.
<1>9. /\ tp \cup hit = {} <=> tp \cup sl = {}
      /\ StopComesFirst(tp, hit, r) <=> StopComesFirst(tp, sl, r)
      /\ StopComesFirst(tp, sl, r) =>
            /\ Min(hit) = Min(sl) /\ Min(sl) \in W /\ \A k \in tp : Min(sl) <= k
  <2>1. CASE tp = {}
    <3>1. hit = sl
      BY <1>2, <1>7, <2>1
    <3>2. sl # {} => Min(sl) \in sl
      BY <1>2, MinIsLeast
    <3> QED
      BY <1>2, <2>1, <3>1, <3>2 DEF StopComesFirst
  <2>2. CASE tp # {}
    <3> DEFINE T == Min(tp)
    <3>1. T \in tp /\ T \in Nat /\ \A k \in tp : T <= k
      BY <1>2, <2>2, MinIsLeast
    <3> HIDE DEF T
    <3>2. \A s \in Nat : s <= T => (s \in hit <=> s \in sl)
      <4> TAKE s \in Nat
      <4> HAVE s <= T
      <4>1. \A k \in tp : s <= k
        BY <1>2, <3>1
      <4> QED
        BY <1>2, <1>7, <4>1
    <3>3. hit \subseteq Nat /\ sl \subseteq Nat
      BY <1>2
    <3>4. hit # {} /\ Min(hit) <= T => sl # {} /\ Min(sl) = Min(hit)
      BY <3>1, <3>2, <3>3, SameFirst
    <3>5. sl # {} /\ Min(sl) <= T => hit # {} /\ Min(hit) = Min(sl)
      BY <3>1, <3>2, <3>3, SameFirst
    <3>6. (sl # {} => Min(sl) \in sl) /\ (hit # {} => Min(hit) \in hit)
      BY <3>3, MinIsLeast
    <3>7. \A stops : StopComesFirst(tp, stops, r) <=>
             stops # {} /\ (Min(stops) < T \/ (Min(stops) = T /\ r.conservative))
      BY <2>2 DEF StopComesFirst, T
    <3>8. StopComesFirst(tp, hit, r) => StopComesFirst(tp, sl, r)
      <4> SUFFICES ASSUME StopComesFirst(tp, hit, r) PROVE StopComesFirst(tp, sl, r)
        OBVIOUS
      <4>1. hit # {} /\ (Min(hit) < T \/ (Min(hit) = T /\ r.conservative))
        BY <3>7
      <4>2. Min(hit) \in Nat
        BY <3>3, <3>6, <4>1
      <4>3. Min(hit) <= T
        BY <3>1, <4>1, <4>2
      <4> QED
        BY <3>4, <3>7, <4>1, <4>3
    <3>9. StopComesFirst(tp, sl, r) =>
             StopComesFirst(tp, hit, r) /\ Min(hit) = Min(sl) /\ Min(sl) \in W /\ Min(sl) <= T
      <4> SUFFICES ASSUME StopComesFirst(tp, sl, r)
                   PROVE  StopComesFirst(tp, hit, r) /\ Min(hit) = Min(sl) /\ Min(sl) \in W /\ Min(sl) <= T
        OBVIOUS
      <4>1. sl # {} /\ (Min(sl) < T \/ (Min(sl) = T /\ r.conservative))
        BY <3>7
      <4>2. Min(sl) \in Nat /\ Min(sl) \in W
        BY <1>2, <3>3, <3>6, <4>1
      <4>3. Min(sl) <= T
        BY <3>1, <4>1, <4>2
      <4>4. hit # {} /\ Min(hit) = Min(sl)
        BY <3>5, <4>1, <4>3
      <4> QED
        BY <3>7, <4>1, <4>2, <4>3, <4>4
    <3>10. StopComesFirst(tp, sl, r) => \A k \in tp : Min(sl) <= k
      <4> SUFFICES ASSUME StopComesFirst(tp, sl, r), NEW k \in tp PROVE Min(sl) <= k
        OBVIOUS
      <4> DEFINE m == Min(sl)
      <4>1. m <= T /\ m \in Nat /\ T <= k /\ k \in Nat /\ T \in Nat
        BY <1>2, <3>1, <3>9
      <4> HIDE DEF m
      <4>2. m <= k
        BY <4>1
      <4> QED
        BY <4>2 DEF m
    <3> QED
      BY <2>2, <3>8, <3>9, <3>10
  <2> QED
    BY <2>1, <2>2
<1>10. StopComesFirst(tp, sl, r) => StopAfter(bs, e, dir, r, r, Min(hit) - 1) = px - r.sl
  BY <1>6, <1>9
<1>11. TrailingExit(bs, e, dir, r, r, to) =
         IF tp \cup sl = {} THEN Timeout(bs, e, ScanEnd(e, r, to))
         ELSE IF StopComesFirst(tp, sl, r)
         THEN [ts |-> Min(sl), px |-> bs[e].close - dir * r.sl, reason |-> "sl"]
         ELSE [ts |-> Min(tp), px |-> bs[e].close + dir * r.tp, reason |-> "tp"]
  <2> DEFINE stop == StopAfter(bs, e, dir, r, r, Min(hit) - 1)
  <2>1. TrailingExit(bs, e, dir, r, r, to) =
         IF tp \cup hit = {} THEN Timeout(bs, e, ScanEnd(e, r, to))
         ELSE IF StopComesFirst(tp, hit, r)
         THEN [ts |-> Min(hit), px |-> Signed(dir, stop),
               reason |-> IF stop # px - r.sl THEN "trail" ELSE "sl"]
         ELSE [ts |-> Min(tp), px |-> bs[e].close + dir * r.tp, reason |-> "tp"]
    BY TrailingExitIs DEF tp, hit
  <2>2. StopComesFirst(tp, sl, r) => stop = px - r.sl
    BY <1>10
  <2> HIDE DEF stop, px
  <2> QED
    BY <1>8, <1>9, <2>1, <2>2
<1> QED
  BY <1>11 DEF PriceExit, tp, sl

\* "Loose trails are equivalent to the baseline" (pfd_optimizer/README.md:73), for every
\* market and every exit rule with a profit to take and no trail before it: the walk from bar to bar and the
\* search in arrays make the same trades (backtest.py:172-268, 355-481).
THEOREM LooseTrailMakesSameTrades ==
    ASSUME \A r \in ExitRules : r.tp > 0
    PROVE  Spec => []LooseTrailIsBaseline
<1>1. WalkInv /\ StopOfHistory => LooseTrailIsBaseline
  <2> SUFFICES ASSUME WalkInv, StopOfHistory, todo = {}, pos = Flat, Loose(x, x)
               PROVE  trades = RunBacktest(bars, signals, <<>>, x, 0, end)
    BY DEF LooseTrailIsBaseline
  <2> DEFINE a == [e \in DOMAIN signals |-> TrailingExit(bars, e, signals[e], x, x, end)]
             b == [e \in DOMAIN signals |->
                     Exit(bars, <<>>, e, signals[e], [s \in DOMAIN signals |-> x][e], end)]
  <2>1. trades = RunSignals(bars, signals, a, 0, end)
    BY DEF StopOfHistory, RunBacktestTrailing
  <2>2. RunBacktest(bars, signals, <<>>, x, 0, end) = RunSignals(bars, signals, b, 0, end)
    BY DEF RunBacktest, RunBacktestBy
  <2>3. x.tp > 0 /\ IsTrail(x) /\ IsBars(bars) /\ end \in Nat /\ LastSec \in Nat
        /\ DOMAIN signals \subseteq 0 .. LastSec
    <3>1. x \in ExitRules
      BY DEF WalkInv, Inv, TypeOK
    <3> QED
      BY <3>1, WalkIsTyped, TrailingAssumption DEF IsRule, IsTrail
  <2>4. ASSUME NEW e \in DOMAIN signals, signals[e] # 0 PROVE a[e] = b[e]
    <3>1. signals[e] \in {1, -1} /\ e \in DOMAIN bars /\ e \in Nat
      BY <2>4 DEF WalkInv, Inv, TypeOK, Buy, Sell
    <3>2. ScanEnd(e, x, end) \in Nat
      BY <2>3, <3>1 DEF ScanEnd, IsRule, IsTrail
    <3>3. TrailingExit(bars, e, signals[e], x, x, end) = PriceExit(bars, e, signals[e], x, end)
      BY <2>3, <3>1, <3>2, LooseExit
    <3> QED
      BY <3>3, ExitWithoutScores
  <2> HIDE DEF a, b
  <2>5. RunSignals(bars, signals, a, 0, end) = RunSignals(bars, signals, b, 0, end)
    BY <2>3, <2>4, SameExits
  <2> QED
    BY <2>1, <2>2, <2>5
<1> QED
  BY WalkIsOfHistory, StopIsOfHistory, <1>1, PTL

-----------------------------------------------------------------------------
(* The trades a run makes.                                                 *)

\* What the runs of both backtesters are made of.
Reasons == {"tp", "sl", "trail", "timeout", "signal"}

AnyExit == [ts : Nat, px : Int, reason : Reasons]

AnyTrade == [entry : Nat, side : {1, -1}, entryPx : Nat, exit : Nat, exitPx : Int, reason : Reasons]

\* The trade of a position and its result.
LEMMA PositionIs ==
    ASSUME NEW e \in Nat, NEW dir \in {1, -1}, NEW px \in Nat, NEW exit \in AnyExit
    PROVE  /\ Position(e, dir, px, exit) \in AnyTrade
           /\ Position(e, dir, px, exit).entry = e /\ Position(e, dir, px, exit).exit = exit.ts
           /\ Pnl(Position(e, dir, px, exit)) = dir * (exit.px - px) - Fee
           /\ Pnl(Position(e, dir, px, exit)) \in Int
<1> DEFINE t == Position(e, dir, px, exit)
<1>1. t \in AnyTrade
  BY DEF Position, AnyTrade, AnyExit
<1>2. /\ t.entry = e /\ t.exit = exit.ts /\ t.side = dir /\ t.entryPx = px /\ t.exitPx = exit.px
  BY DEF Position
<1>3. exit.px \in Int /\ Fee \in Nat
  BY BacktestAssumption DEF AnyExit
<1>4. dir * (exit.px - px) - Fee \in Int
  BY <1>3
<1> QED
  BY <1>1, <1>2, <1>4 DEF Pnl

-----------------------------------------------------------------------------
(* A bar that touches both.                                                *)

\* Two exits of a position at the same time, of which `a' is not the better one.
NoBetter(a, b, dir) ==
    a \in AnyExit /\ b \in AnyExit /\ a.ts = b.ts /\ dir * a.px <= dir * b.px

\* A score that has turned is one of a second with a price.
ScoresFit(bs, scores) == DOMAIN scores \subseteq DOMAIN bs

\* At the end of the holding there is a price, at the entry if nowhere else.
LEMMA TimeoutIs ==
    ASSUME NEW bs, IsBars(bs), NEW e \in DOMAIN bs, NEW to \in Nat
    PROVE  Timeout(bs, e, to) \in AnyExit /\ Timeout(bs, e, to).ts \in {e, to}
<1>1. e \in Nat /\ DOMAIN bs \subseteq Nat /\ \A s \in DOMAIN bs : bs[s].close \in Int
  BY DEF IsBars
<1>2. CASE Window(bs, e, to) = {}
  BY <1>1, <1>2 DEF Timeout, AnyExit, Reasons
<1>3. CASE Window(bs, e, to) # {}
  <2>1. Max(Window(bs, e, to)) \in DOMAIN bs
    <3>1. Max(Window(bs, e, to)) \in Window(bs, e, to) /\ Window(bs, e, to) \subseteq DOMAIN bs
      BY <1>1, <1>3, WindowIs
    <3> QED
      BY <3>1
  <2> QED
    BY <1>1, <1>3, <2>1 DEF Timeout, AnyExit, Reasons
<1> QED
  BY <1>2, <1>3

\* Exits by price with the flag and without come at the same bar.
LEMMA PriceExits ==
    ASSUME NEW bs, IsBars(bs), NEW e \in DOMAIN bs, NEW dir \in {1, -1}, NEW to \in Nat,
           NEW q, NEW r, IsRule(q), IsRule(r), ScanEnd(e, q, to) \in Nat,
           q.tp = r.tp, q.sl = r.sl, q.hold = r.hold, q.conservative, ~r.conservative
    PROVE  NoBetter(PriceExit(bs, e, dir, q, to), PriceExit(bs, e, dir, r, to), dir)
<1> DEFINE tp == ProfitBars(bs, e, dir, r, to)
           sl == StopBars(bs, e, dir, r, to)
           px == bs[e].close
           timeout == Timeout(bs, e, ScanEnd(e, r, to))
           atStop == [ts |-> Min(sl), px |-> px - dir * r.sl, reason |-> "sl"]
           atProfit == [ts |-> Min(tp), px |-> px + dir * r.tp, reason |-> "tp"]
<1>1. /\ ProfitBars(bs, e, dir, q, to) = tp /\ StopBars(bs, e, dir, q, to) = sl
      /\ ScanEnd(e, q, to) = ScanEnd(e, r, to)
  BY DEF ProfitBars, StopBars, ScanEnd
<1>2. tp \subseteq Nat /\ sl \subseteq Nat
  BY DEF ProfitBars, StopBars, Window, IsBars
<1>3. px \in Nat /\ r.sl \in Nat /\ r.tp \in Nat /\ e \in Nat
  BY DEF IsBars, IsRule
<1>4. PriceExit(bs, e, dir, q, to) =
        IF tp \cup sl = {} THEN timeout ELSE IF StopComesFirst(tp, sl, q) THEN atStop ELSE atProfit
  BY <1>1 DEF PriceExit
<1>5. PriceExit(bs, e, dir, r, to) =
        IF tp \cup sl = {} THEN timeout ELSE IF StopComesFirst(tp, sl, r) THEN atStop ELSE atProfit
  BY DEF PriceExit
<1>6. timeout \in AnyExit
  BY <1>1, <1>3, TimeoutIs
<1>7. NoBetter(timeout, timeout, dir)
  <2> HIDE DEF timeout
  <2>1. dir * timeout.px \in Int
    BY <1>6 DEF AnyExit
  <2> QED
    BY <1>6, <2>1 DEF NoBetter
<1>8. atStop.px \in Int /\ atProfit.px \in Int /\ dir * atStop.px <= dir * atProfit.px
      /\ dir * atStop.px <= dir * atStop.px /\ dir * atProfit.px <= dir * atProfit.px
  <2> HIDE DEF px
  <2>1. CASE dir = 1
    BY <1>3, <2>1
  <2>2. CASE dir = -1
    BY <1>3, <2>2
  <2> QED
    BY <2>1, <2>2
<1>9. StopComesFirst(tp, sl, r) => StopComesFirst(tp, sl, q)
  BY DEF StopComesFirst
<1>10. StopComesFirst(tp, sl, q) /\ ~StopComesFirst(tp, sl, r) => Min(tp) = Min(sl)
  BY DEF StopComesFirst
<1>11. StopComesFirst(tp, sl, q) => Min(sl) \in Nat
  <2>1. StopComesFirst(tp, sl, q) => sl # {}
    BY DEF StopComesFirst
  <2> HIDE DEF tp, sl
  <2> QED
    BY <1>2, <2>1, MinIsLeast
<1>12. tp \cup sl # {} /\ ~StopComesFirst(tp, sl, q) => Min(tp) \in Nat
  <2>1. tp \cup sl # {} /\ ~StopComesFirst(tp, sl, q) => tp # {}
    BY DEF StopComesFirst
  <2> HIDE DEF tp, sl
  <2> QED
    BY <1>2, <2>1, MinIsLeast
<1> HIDE DEF tp, sl, px, timeout
<1>13. CASE tp \cup sl = {}
  BY <1>4, <1>5, <1>7, <1>13
<1>14. CASE tp \cup sl # {} /\ StopComesFirst(tp, sl, r)
  <2>1. PriceExit(bs, e, dir, q, to) = atStop /\ PriceExit(bs, e, dir, r, to) = atStop
    BY <1>4, <1>5, <1>9, <1>14
  <2>2. atStop.ts \in Nat
    BY <1>9, <1>11, <1>14
  <2>3. atStop \in AnyExit
    BY <1>8, <2>2 DEF AnyExit, Reasons
  <2> HIDE DEF atStop
  <2> QED
    BY <1>8, <2>1, <2>2, <2>3 DEF NoBetter
<1>15. CASE tp \cup sl # {} /\ ~StopComesFirst(tp, sl, r) /\ StopComesFirst(tp, sl, q)
  <2>1. PriceExit(bs, e, dir, q, to) = atStop /\ PriceExit(bs, e, dir, r, to) = atProfit
    BY <1>4, <1>5, <1>15
  <2>2. atStop.ts \in Nat /\ atStop.ts = atProfit.ts
    BY <1>10, <1>11, <1>15
  <2>3. atStop \in AnyExit /\ atProfit \in AnyExit
    BY <1>8, <2>2 DEF AnyExit, Reasons
  <2> HIDE DEF atStop, atProfit
  <2> QED
    BY <1>8, <2>1, <2>2, <2>3 DEF NoBetter
<1>16. CASE tp \cup sl # {} /\ ~StopComesFirst(tp, sl, q)
  <2>1. PriceExit(bs, e, dir, q, to) = atProfit /\ PriceExit(bs, e, dir, r, to) = atProfit
    BY <1>4, <1>5, <1>9, <1>16
  <2>2. atProfit.ts \in Nat
    BY <1>12, <1>16
  <2>3. atProfit \in AnyExit
    BY <1>8, <2>2 DEF AnyExit, Reasons
  <2> HIDE DEF atProfit
  <2> QED
    BY <1>8, <2>1, <2>2, <2>3 DEF NoBetter
<1> QED
  BY <1>13, <1>14, <1>15, <1>16

\* So do exits by price or score: the score asks only when the price exit comes.
LEMMA Exits ==
    ASSUME NEW bs, IsBars(bs), NEW e \in DOMAIN bs, NEW dir \in {1, -1}, NEW to \in Nat,
           NEW q, NEW r, IsRule(q), IsRule(r), ScanEnd(e, q, to) \in Nat,
           q.tp = r.tp, q.sl = r.sl, q.hold = r.hold, q.threshold = r.threshold,
           q.conservative, ~r.conservative, NEW scores, ScoresFit(bs, scores)
    PROVE  NoBetter(Exit(bs, scores, e, dir, q, to), Exit(bs, scores, e, dir, r, to), dir)
<1> DEFINE turned == TurnedScores(scores, e, dir, r, to)
           a == PriceExit(bs, e, dir, q, to)
           b == PriceExit(bs, e, dir, r, to)
           early == [ts |-> Min(turned), px |-> bs[Min(turned)].close, reason |-> "signal"]
<1>1. TurnedScores(scores, e, dir, q, to) = turned
  BY DEF TurnedScores, ScanEnd
<1>2. NoBetter(a, b, dir)
  BY PriceExits
<1>3. a.ts = b.ts
  BY <1>2 DEF NoBetter
<1>4. Exit(bs, scores, e, dir, q, to) = IF turned # {} /\ Min(turned) < a.ts THEN early ELSE a
  BY <1>1 DEF Exit
<1>5. Exit(bs, scores, e, dir, r, to) = IF turned # {} /\ Min(turned) < a.ts THEN early ELSE b
  BY <1>3 DEF Exit
<1>6. turned # {} => NoBetter(early, early, dir)
  <2> SUFFICES ASSUME turned # {} PROVE NoBetter(early, early, dir)
    OBVIOUS
  <2>1. turned \subseteq DOMAIN bs /\ turned \subseteq Nat
    BY DEF TurnedScores, ScoresFit, IsBars
  <2>2. Min(turned) \in DOMAIN bs /\ Min(turned) \in Nat
    <3> HIDE DEF turned
    <3> QED
      BY <2>1, MinIsLeast
  <2>3. bs[Min(turned)].close \in Int
    BY <2>2 DEF IsBars
  <2>4. dir * bs[Min(turned)].close \in Int
    BY <2>3
  <2>5. early \in AnyExit
    BY <2>2, <2>3 DEF AnyExit, Reasons
  <2> HIDE DEF turned
  <2> QED
    BY <2>3, <2>4, <2>5 DEF NoBetter
<1> HIDE DEF turned, a, b, early
<1> QED
  BY <1>2, <1>4, <1>5, <1>6

\* Of two positions at the same times, `s' has no better result than `t'.
NoBetterTrade(s, t) == s.entry = t.entry /\ s.exit = t.exit /\ Pnl(s) <= Pnl(t)

\* Two runs that differ in the results of their trades only.
Lockstep(a, b) ==
    /\ a.lastExit = b.lastExit
    /\ a.trades \in Seq(AnyTrade) /\ b.trades \in Seq(AnyTrade)
    /\ Len(a.trades) = Len(b.trades)
    /\ \A n \in 1 .. Len(a.trades) : NoBetterTrade(a.trades[n], b.trades[n])

LEMMA TradesPay ==
    ASSUME NEW e \in Nat, NEW dir \in {1, -1}, NEW px \in Nat, NEW a, NEW b, NoBetter(a, b, dir)
    PROVE  NoBetterTrade(Position(e, dir, px, a), Position(e, dir, px, b))
<1> DEFINE s == Position(e, dir, px, a)
           t == Position(e, dir, px, b)
<1>1. a \in AnyExit /\ b \in AnyExit /\ a.ts = b.ts /\ dir * a.px <= dir * b.px
  BY DEF NoBetter
<1>2. a.px \in Int /\ b.px \in Int /\ Fee \in Nat
  BY <1>1, BacktestAssumption DEF AnyExit
<1>3. /\ Pnl(s) = dir * (a.px - px) - Fee /\ s.entry = e /\ s.exit = a.ts
  BY <1>1, PositionIs
<1>4. /\ Pnl(t) = dir * (b.px - px) - Fee /\ t.entry = e /\ t.exit = b.ts
  BY <1>1, PositionIs
<1> HIDE DEF s, t
<1>5. Pnl(s) <= Pnl(t)
  <2>1. CASE dir = 1
    BY <1>1, <1>2, <1>3, <1>4, <2>1
  <2>2. CASE dir = -1
    BY <1>1, <1>2, <1>3, <1>4, <2>2
  <2> QED
    BY <2>1, <2>2
<1> QED
  BY <1>1, <1>3, <1>4, <1>5 DEF NoBetterTrade, s, t

LEMMA LockstepAppend ==
    ASSUME NEW a, NEW b, Lockstep(a, b), NEW s \in AnyTrade, NEW t \in AnyTrade,
           NoBetterTrade(s, t), NEW p, NEW q,
           p.trades = Append(a.trades, s), q.trades = Append(b.trades, t), p.lastExit = q.lastExit
    PROVE  Lockstep(p, q)
<1> DEFINE n == Len(a.trades)
<1>1. a.trades \in Seq(AnyTrade) /\ b.trades \in Seq(AnyTrade) /\ Len(b.trades) = n /\ n \in Nat
  BY DEF Lockstep
<1>2. /\ p.trades \in Seq(AnyTrade) /\ Len(p.trades) = n + 1 /\ p.trades[n + 1] = s
      /\ \A i \in 1 .. n : p.trades[i] = a.trades[i]
  BY <1>1, AppendProperties
<1>3. /\ q.trades \in Seq(AnyTrade) /\ Len(q.trades) = n + 1 /\ q.trades[n + 1] = t
      /\ \A i \in 1 .. n : q.trades[i] = b.trades[i]
  BY <1>1, AppendProperties
<1>4. \A i \in 1 .. n : NoBetterTrade(a.trades[i], b.trades[i])
  BY DEF Lockstep
<1> HIDE DEF n
<1>5. ASSUME NEW i \in 1 .. n + 1 PROVE NoBetterTrade(p.trades[i], q.trades[i])
  <2>1. CASE i = n + 1
    BY <1>2, <1>3, <2>1
  <2>2. CASE i # n + 1
    <3>1. i \in 1 .. n
      BY <1>1, <2>2
    <3> QED
      BY <1>2, <1>3, <1>4, <3>1
  <2> QED
    BY <2>1, <2>2
<1> QED
  BY <1>2, <1>3, <1>5 DEF Lockstep

\* When no exit is better, no trade of the run is.
LEMMA RunsInLockstep ==
    ASSUME NEW bs, IsBars(bs), NEW ss, NEW n \in Nat, DOMAIN ss \subseteq 0 .. n, NEW from, NEW to,
           DOMAIN ss \subseteq DOMAIN bs, NEW ea, NEW eb,
           \A e \in DOMAIN ss : ss[e] # 0 => ss[e] \in {1, -1} /\ NoBetter(ea[e], eb[e], ss[e])
    PROVE  Lockstep(Done(bs, ss, ea, from, to)[DOMAIN ss], Done(bs, ss, eb, from, to)[DOMAIN ss])
<1> DEFINE D == DOMAIN ss
           A == Done(bs, ss, ea, from, to)
           B == Done(bs, ss, eb, from, to)
           G == {S \in SUBSET D : Lockstep(A[S], B[S])}
<1>1. {} \in G
  <2>1. A[{}] = NoTrades /\ B[{}] = NoTrades
    BY DoneIs
  <2>2. Lockstep(NoTrades, NoTrades)
    BY DEF Lockstep, NoTrades
  <2> QED
    BY <2>1, <2>2
<1>2. ASSUME NEW S \in SUBSET D, S # {}, S \ {Max(S)} \in G PROVE S \in G
  <2> DEFINE e == Max(S)
             a == A[S \ {e}]
             b == B[S \ {e}]
             s == Position(e, ss[e], bs[e].close, ea[e])
             t == Position(e, ss[e], bs[e].close, eb[e])
  <2>1. e \in D
    <3>1. S \subseteq Nat /\ \A y \in S : y <= n
      OBVIOUS
    <3> QED
      BY <1>2, <3>1, MaxIsGreatest
  <2>2. A[S] = TakeSignal(bs, ss, ea, from, to, e, a)
    BY <1>2, DoneIs
  <2>3. B[S] = TakeSignal(bs, ss, eb, from, to, e, b)
    BY <1>2, DoneIs
  <2>4. Lockstep(a, b)
    BY <1>2
  <2> HIDE DEF A, B, e, a, b
  <2>5. a.lastExit = b.lastExit
    BY <2>4 DEF Lockstep
  <2>6. CASE ~Taken(bs, ss, e, from, to, a.lastExit)
    BY <2>2, <2>3, <2>4, <2>5, <2>6 DEF TakeSignal
  <2>7. CASE Taken(bs, ss, e, from, to, a.lastExit)
    <3>1. ss[e] # 0
      BY <2>7 DEF Taken
    <3>2. NoBetter(ea[e], eb[e], ss[e]) /\ ss[e] \in {1, -1}
      BY <2>1, <3>1
    <3>3. bs[e].close \in Nat /\ e \in Nat
      BY <2>1 DEF IsBars
    <3>4. ea[e] \in AnyExit /\ eb[e] \in AnyExit
      BY <3>2 DEF NoBetter
    <3>5. NoBetterTrade(s, t)
      BY <3>2, <3>3, TradesPay
    <3>6. s \in AnyTrade
      BY <3>2, <3>3, <3>4, PositionIs
    <3>7. t \in AnyTrade
      BY <3>2, <3>3, <3>4, PositionIs
    <3> DEFINE p == [trades |-> Append(a.trades, s), lastExit |-> Later(a.lastExit, s.exit)]
               q == [trades |-> Append(b.trades, t), lastExit |-> Later(b.lastExit, t.exit)]
    <3>8. A[S] = p
      BY <2>2, <2>7 DEF TakeSignal
    <3>9. B[S] = q
      BY <2>3, <2>5, <2>7 DEF TakeSignal
    <3> HIDE DEF s, t
    <3>10. p.trades = Append(a.trades, s) /\ q.trades = Append(b.trades, t) /\ p.lastExit = q.lastExit
      BY <2>5, <3>5 DEF NoBetterTrade
    <3> HIDE DEF p, q
    <3>11. Lockstep(p, q)
      BY <2>4, <3>5, <3>6, <3>7, <3>10, LockstepAppend
    <3> QED
      BY <3>8, <3>9, <3>11
  <2> QED
    BY <2>6, <2>7
<1> HIDE DEF A, B
<1>3. SUBSET D \subseteq G
  <2> HIDE DEF G, D
  <2>1. D \subseteq 0 .. n
    BY DEF D
  <2> QED
    BY <1>1, <1>2, <2>1, SignalInduction
<1> QED
  BY <1>3 DEF A, B

\* conservative_intrabar is the lower bound, for every market, exit rule and score
\* (backtest.py:236-246): decided the other way, the bars that touch both sides leave the
\* positions and their times as they are and make none of them worse.
THEOREM ConservativeIsLowerBound == Spec => []ConservativeIsWorse
<1>1. WalkInv => ConservativeIsWorse
  <2> SUFFICES ASSUME WalkInv, AtStart PROVE ConservativeIsWorse
    BY DEF ConservativeIsWorse
  <2> DEFINE q == [x EXCEPT !.conservative = TRUE]
             r == [x EXCEPT !.conservative = FALSE]
             ea == [e \in DOMAIN signals |-> Exit(bars, Scores, e, signals[e],
                                                 [s \in DOMAIN signals |-> q][e], end)]
             eb == [e \in DOMAIN signals |-> Exit(bars, Scores, e, signals[e],
                                                 [s \in DOMAIN signals |-> r][e], end)]
             worse == RunBacktest(bars, signals, Scores, q, 0, end)
             better == RunBacktest(bars, signals, Scores, r, 0, end)
  <2>1. x \in ExitRules /\ IsBars(bars) /\ end \in Nat /\ LastSec \in Nat
        /\ DOMAIN signals \subseteq 0 .. LastSec /\ DOMAIN signals \subseteq DOMAIN bars
    BY WalkIsTyped DEF WalkInv, Inv, TypeOK
  <2>2. /\ IsRule(q) /\ IsRule(r) /\ q.conservative /\ ~r.conservative
        /\ q.tp = r.tp /\ q.sl = r.sl /\ q.hold = r.hold /\ q.threshold = r.threshold
    BY <2>1, TrailingAssumption DEF IsRule
  <2>3. ScoresFit(bars, Scores)
    BY DEF ScoresFit, Scores
  <2>4. worse = RunSignals(bars, signals, ea, 0, end) /\ better = RunSignals(bars, signals, eb, 0, end)
    BY DEF RunBacktest, RunBacktestBy
  <2> HIDE DEF q, r
  <2>5. ASSUME NEW e \in DOMAIN signals, signals[e] # 0
        PROVE  signals[e] \in {1, -1} /\ NoBetter(ea[e], eb[e], signals[e])
    <3>1. signals[e] \in {1, -1} /\ e \in DOMAIN bars /\ e \in Nat
      BY <2>5 DEF WalkInv, Inv, TypeOK, Buy, Sell
    <3>2. ScanEnd(e, q, end) \in Nat
      BY <2>1, <2>2, <3>1 DEF ScanEnd, IsRule
    <3>3. NoBetter(Exit(bars, Scores, e, signals[e], q, end),
                   Exit(bars, Scores, e, signals[e], r, end), signals[e])
      BY <2>1, <2>2, <2>3, <3>1, <3>2, Exits
    <3> QED
      BY <3>1, <3>3
  <2> HIDE DEF ea, eb, worse, better
  <2>6. Lockstep(Done(bars, signals, ea, 0, end)[DOMAIN signals],
                 Done(bars, signals, eb, 0, end)[DOMAIN signals])
    BY <2>1, <2>5, RunsInLockstep
  <2>7. /\ worse = Done(bars, signals, ea, 0, end)[DOMAIN signals].trades
        /\ better = Done(bars, signals, eb, 0, end)[DOMAIN signals].trades
    BY <2>4, RunSignalsIs
  <2>8. /\ worse \in Seq(AnyTrade) /\ better \in Seq(AnyTrade) /\ Len(worse) = Len(better)
        /\ \A n \in 1 .. Len(worse) : NoBetterTrade(worse[n], better[n])
    BY <2>6, <2>7 DEF Lockstep
  <2>9. DOMAIN worse = 1 .. Len(worse)
    BY <2>8
  <2>10. ConservativeIsWorse <=>
           /\ Len(worse) = Len(better)
           /\ \A n \in DOMAIN worse :
                 /\ worse[n].entry = better[n].entry /\ worse[n].exit = better[n].exit
                 /\ Pnl(worse[n]) <= Pnl(better[n])
    BY DEF ConservativeIsWorse, worse, better, q, r
  <2> QED
    BY <2>8, <2>9, <2>10 DEF NoBetterTrade
<1> QED
  BY WalkIsOfHistory, <1>1, PTL

-----------------------------------------------------------------------------
(* No look ahead.                                                          *)

\* The search for a price exit finds the first bar that touches either price.
LEMMA PriceExitIs ==
    ASSUME NEW bs, IsBars(bs), NEW e \in DOMAIN bs, NEW dir \in {1, -1}, NEW r, IsRule(r),
           NEW to, ScanEnd(e, r, to) \in Nat, e <= ScanEnd(e, r, to)
    PROVE  LET hits == ProfitBars(bs, e, dir, r, to) \cup StopBars(bs, e, dir, r, to)
               exit == PriceExit(bs, e, dir, r, to)
           IN  /\ exit \in AnyExit /\ e <= exit.ts /\ exit.ts <= ScanEnd(e, r, to)
               /\ hits # {} => exit.ts \in hits /\ \A s \in hits : exit.ts <= s
<1> DEFINE last == ScanEnd(e, r, to)
           tp == ProfitBars(bs, e, dir, r, to)
           sl == StopBars(bs, e, dir, r, to)
           exit == PriceExit(bs, e, dir, r, to)
           atStop == [ts |-> Min(sl), px |-> bs[e].close - dir * r.sl, reason |-> "sl"]
           atProfit == [ts |-> Min(tp), px |-> bs[e].close + dir * r.tp, reason |-> "tp"]
<1>1. exit = IF tp \cup sl = {} THEN Timeout(bs, e, last)
             ELSE IF StopComesFirst(tp, sl, r) THEN atStop ELSE atProfit
  BY DEF PriceExit
<1>2. \A s \in tp \cup sl : s \in Nat /\ e < s /\ s <= last
  BY DEF ProfitBars, StopBars, Window, IsBars
<1>3. bs[e].close \in Nat /\ r.sl \in Nat /\ r.tp \in Nat /\ e \in Nat
  BY DEF IsBars, IsRule
<1>4. bs[e].close - dir * r.sl \in Int /\ bs[e].close + dir * r.tp \in Int
  BY <1>3
<1>5. StopComesFirst(tp, sl, r) <=>
        /\ sl # {}
        /\ tp = {} \/ Min(sl) < Min(tp) \/ (Min(sl) = Min(tp) /\ r.conservative)
  BY DEF StopComesFirst
<1> HIDE DEF tp, sl, last, exit
<1>6. (tp # {} => Min(tp) \in tp /\ \A s \in tp : Min(tp) <= s)
      /\ (sl # {} => Min(sl) \in sl /\ \A s \in sl : Min(sl) <= s)
  <2>1. tp \subseteq Nat /\ sl \subseteq Nat
    BY <1>2
  <2> QED
    BY <2>1, MinIsLeast
<1>7. CASE tp \cup sl = {}
  <2>1. exit \in AnyExit /\ exit.ts \in {e, last}
    BY <1>1, <1>7, TimeoutIs DEF last
  <2> QED
    BY <1>3, <1>7, <2>1 DEF last, tp, sl, exit
<1>8. CASE tp \cup sl # {} /\ StopComesFirst(tp, sl, r)
  <2>1. exit = atStop /\ Min(sl) \in sl
    BY <1>1, <1>5, <1>6, <1>8
  <2>2. Min(sl) \in Nat /\ e < Min(sl) /\ Min(sl) <= last
    BY <1>2, <2>1
  <2>3. exit \in AnyExit /\ exit.ts = Min(sl)
    BY <1>4, <2>1, <2>2 DEF AnyExit, Reasons
  <2>4. ASSUME NEW s \in tp \cup sl PROVE Min(sl) <= s
    <3>1. CASE s \in sl
      BY <1>6, <3>1
    <3>2. CASE s \in tp
      <4>1. Min(sl) <= Min(tp) /\ Min(tp) <= s /\ Min(tp) \in Nat /\ s \in Nat
        BY <1>2, <1>5, <1>6, <1>8, <2>2, <3>2
      <4> QED
        BY <2>2, <4>1
    <3> QED
      BY <3>1, <3>2
  <2> QED
    BY <1>3, <2>1, <2>2, <2>3, <2>4 DEF last, tp, sl, exit
<1>9. CASE tp \cup sl # {} /\ ~StopComesFirst(tp, sl, r)
  <2>1. exit = atProfit /\ Min(tp) \in tp
    BY <1>1, <1>5, <1>6, <1>9
  <2>2. Min(tp) \in Nat /\ e < Min(tp) /\ Min(tp) <= last
    BY <1>2, <2>1
  <2>3. exit \in AnyExit /\ exit.ts = Min(tp)
    BY <1>4, <2>1, <2>2 DEF AnyExit, Reasons
  <2>4. ASSUME NEW s \in tp \cup sl PROVE Min(tp) <= s
    <3>1. CASE s \in tp
      BY <1>6, <3>1
    <3>2. CASE s \in sl
      <4>1. ~(Min(sl) < Min(tp)) /\ Min(sl) <= s /\ Min(sl) \in Nat /\ s \in Nat
        BY <1>2, <1>5, <1>6, <1>9, <3>2
      <4> QED
        BY <2>2, <4>1
    <3> QED
      BY <3>1, <3>2
  <2> QED
    BY <1>3, <2>1, <2>2, <2>3, <2>4 DEF last, tp, sl, exit
<1> QED
  BY <1>7, <1>8, <1>9

\* An exit, by price or score, lies between the entry and the end of the holding.
LEMMA ExitIs ==
    ASSUME NEW bs, IsBars(bs), NEW e \in DOMAIN bs, NEW dir \in {1, -1}, NEW r, IsRule(r),
           NEW to, ScanEnd(e, r, to) \in Nat, e <= ScanEnd(e, r, to),
           NEW scores, ScoresFit(bs, scores)
    PROVE  LET exit == Exit(bs, scores, e, dir, r, to) IN
           exit \in AnyExit /\ e <= exit.ts /\ exit.ts <= ScanEnd(e, r, to)
<1> DEFINE turned == TurnedScores(scores, e, dir, r, to)
           late == PriceExit(bs, e, dir, r, to)
           early == [ts |-> Min(turned), px |-> bs[Min(turned)].close, reason |-> "signal"]
           exit == Exit(bs, scores, e, dir, r, to)
<1>1. exit = IF turned # {} /\ Min(turned) < late.ts THEN early ELSE late
  BY DEF Exit
<1>2. late \in AnyExit /\ e <= late.ts /\ late.ts <= ScanEnd(e, r, to)
  BY PriceExitIs
<1>3. \A s \in turned : s \in DOMAIN bs /\ s \in Nat /\ e < s /\ s <= ScanEnd(e, r, to)
  BY DEF TurnedScores, ScoresFit, IsBars
<1>4. e \in Nat
  BY DEF IsBars
<1> HIDE DEF turned, late, exit
<1>5. CASE turned # {} /\ Min(turned) < late.ts
  <2>1. Min(turned) \in turned
    <3>1. turned \subseteq Nat
      BY <1>3
    <3> QED
      BY <1>5, <3>1, MinIsLeast
  <2>2. Min(turned) \in DOMAIN bs /\ Min(turned) \in Nat /\ e < Min(turned)
        /\ Min(turned) <= ScanEnd(e, r, to)
    BY <1>3, <2>1
  <2>3. bs[Min(turned)].close \in Int
    BY <2>2 DEF IsBars
  <2>4. exit \in AnyExit /\ exit.ts = Min(turned)
    BY <1>1, <1>5, <2>2, <2>3 DEF AnyExit, Reasons
  <2> QED
    BY <1>4, <2>2, <2>4 DEF exit
<1>6. CASE ~(turned # {} /\ Min(turned) < late.ts)
  BY <1>1, <1>2, <1>6 DEF exit
<1> QED
  BY <1>5, <1>6

\* What is left of the data up to a second.
LEMMA UpToIs ==
    ASSUME NEW f, NEW s
    PROVE  /\ DOMAIN UpTo(f, s) = {k \in DOMAIN f : k <= s}
           /\ \A k \in DOMAIN UpTo(f, s) : UpTo(f, s)[k] = f[k]
BY DEF UpTo, Restrict

LEMMA BarsUpTo ==
    ASSUME NEW bs, IsBars(bs), NEW s
    PROVE  IsBars(UpTo(bs, s))
<1> DEFINE cut == UpTo(bs, s)
<1>1. DOMAIN cut \subseteq DOMAIN bs /\ \A k \in DOMAIN cut : cut[k] = bs[k]
  BY UpToIs
<1>2. cut = [k \in DOMAIN cut |-> cut[k]]
  BY DEF UpTo, Restrict
<1> HIDE DEF cut
<1>3. \A k \in DOMAIN cut : cut[k] \in [high : Nat, low : Nat, close : Nat]
  BY <1>1 DEF IsBars
<1>4. cut \in [DOMAIN cut -> [high : Nat, low : Nat, close : Nat]]
  BY <1>2, <1>3
<1> QED
  BY <1>1, <1>4 DEF IsBars, cut

\* The bars that matter to a position are those of the window up to that second.
LEMMA HitsUpTo ==
    ASSUME NEW bs, IsBars(bs), NEW e \in DOMAIN bs, NEW dir, NEW r, NEW to, NEW T \in Nat, e <= T
    PROVE  LET last == ScanEnd(e, r, to)
               cut == UpTo(bs, T)
           IN  /\ cut[e] = bs[e] /\ e \in DOMAIN cut
               /\ Window(cut, e, last) = {s \in Window(bs, e, last) : s <= T}
               /\ ProfitBars(cut, e, dir, r, to) = {s \in ProfitBars(bs, e, dir, r, to) : s <= T}
               /\ StopBars(cut, e, dir, r, to) = {s \in StopBars(bs, e, dir, r, to) : s <= T}
<1> DEFINE last == ScanEnd(e, r, to)
           cut == UpTo(bs, T)
<1>1. DOMAIN cut = {k \in DOMAIN bs : k <= T} /\ \A k \in DOMAIN cut : cut[k] = bs[k]
  BY UpToIs
<1>2. e \in DOMAIN cut /\ cut[e] = bs[e]
  BY <1>1
<1> HIDE DEF cut
<1>3. Window(cut, e, last) = {s \in Window(bs, e, last) : s <= T}
  BY <1>1 DEF Window
<1>4. \A s \in Window(cut, e, last) : cut[s] = bs[s]
  BY <1>1 DEF Window
<1>5. ProfitBars(cut, e, dir, r, to) = {s \in ProfitBars(bs, e, dir, r, to) : s <= T}
  BY <1>2, <1>3, <1>4 DEF ProfitBars
<1>6. StopBars(cut, e, dir, r, to) = {s \in StopBars(bs, e, dir, r, to) : s <= T}
  BY <1>2, <1>3, <1>4 DEF StopBars
<1> QED
  BY <1>2, <1>3, <1>5, <1>6 DEF cut

\* The first element is the first of those up to T, if there are any.
LEMMA FirstUpTo ==
    ASSUME NEW A, A \subseteq Nat, NEW T \in Nat, NEW s \in A, s <= T
    PROVE  LET B == {k \in A : k <= T} IN
           B # {} /\ Min(B) = Min(A) /\ Min(A) \in A /\ Min(A) <= T
<1> DEFINE B == {k \in A : k <= T}
<1>1. Min(A) \in A /\ \A y \in A : Min(A) <= y
  BY MinIsLeast
<1>2. Min(A) <= T
  <2>1. Min(A) \in Nat /\ s \in Nat /\ Min(A) <= s
    BY <1>1
  <2> QED
    BY <2>1
<1>3. Min(A) \in B
  BY <1>1, <1>2
<1>4. B \subseteq Int
  <2>1. \A k \in B : k \in Nat
    OBVIOUS
  <2> HIDE DEF B
  <2> QED
    BY <2>1
<1>5. \A y \in B : Min(A) <= y
  BY <1>1
<1> HIDE DEF B
<1>6. Min(B) = Min(A)
  BY <1>3, <1>4, <1>5, LeastIs
<1> QED
  BY <1>1, <1>2, <1>3, <1>6 DEF B

\* A price exit is found without the data after it, and one that comes later does not
\* come earlier without them.
LEMMA PriceExitUpTo ==
    ASSUME NEW bs, IsBars(bs), NEW e \in DOMAIN bs, NEW dir \in {1, -1}, NEW r, IsRule(r),
           NEW to, ScanEnd(e, r, to) \in Nat, e <= ScanEnd(e, r, to), NEW T \in Nat, e <= T
    PROVE  LET exit == PriceExit(bs, e, dir, r, to)
               known == PriceExit(UpTo(bs, T), e, dir, r, to)
           IN  /\ exit.ts <= T => known = exit
               /\ ~(exit.ts <= T) /\ Window(UpTo(bs, T), e, ScanEnd(e, r, to)) # {} =>
                     known.ts = ScanEnd(e, r, to)
<1> DEFINE last == ScanEnd(e, r, to)
           cut == UpTo(bs, T)
           W == Window(bs, e, last)
           V == Window(cut, e, last)
           tp == ProfitBars(bs, e, dir, r, to)
           sl == StopBars(bs, e, dir, r, to)
           tc == ProfitBars(cut, e, dir, r, to)
           sc == StopBars(cut, e, dir, r, to)
           exit == PriceExit(bs, e, dir, r, to)
           known == PriceExit(cut, e, dir, r, to)
           atStop == [ts |-> Min(sl), px |-> bs[e].close - dir * r.sl, reason |-> "sl"]
           atProfit == [ts |-> Min(tp), px |-> bs[e].close + dir * r.tp, reason |-> "tp"]
<1>1. /\ cut[e] = bs[e] /\ V = {s \in W : s <= T}
      /\ tc = {s \in tp : s <= T} /\ sc = {s \in sl : s <= T}
  BY HitsUpTo
<1>2. exit = IF tp \cup sl = {} THEN Timeout(bs, e, last)
             ELSE IF StopComesFirst(tp, sl, r) THEN atStop ELSE atProfit
  BY DEF PriceExit
<1>3. known = IF tc \cup sc = {} THEN Timeout(cut, e, last)
              ELSE IF StopComesFirst(tc, sc, r)
              THEN [ts |-> Min(sc), px |-> bs[e].close - dir * r.sl, reason |-> "sl"]
              ELSE [ts |-> Min(tc), px |-> bs[e].close + dir * r.tp, reason |-> "tp"]
  BY <1>1 DEF PriceExit
<1>4. tp \cup sl # {} => exit.ts \in tp \cup sl /\ \A s \in tp \cup sl : exit.ts <= s
  BY PriceExitIs
<1>5. exit \in AnyExit
  BY PriceExitIs
<1>6. tp \subseteq Nat /\ sl \subseteq Nat /\ W \subseteq DOMAIN bs /\ DOMAIN bs \subseteq Nat
      /\ (\A s \in W : s <= last) /\ last \in Nat
  BY DEF ProfitBars, StopBars, Window, IsBars
<1>7. \A A, B : StopComesFirst(A, B, r) <=>
         B # {} /\ (A = {} \/ Min(B) < Min(A) \/ (Min(B) = Min(A) /\ r.conservative))
  BY DEF StopComesFirst
<1>8. Timeout(cut, e, last) = IF V = {} THEN [ts |-> e, px |-> bs[e].close, reason |-> "timeout"]
                              ELSE [ts |-> last, px |-> cut[Max(V)].close, reason |-> "timeout"]
  BY <1>1 DEF Timeout
<1>9. Timeout(bs, e, last) = IF W = {} THEN [ts |-> e, px |-> bs[e].close, reason |-> "timeout"]
                             ELSE [ts |-> last, px |-> bs[Max(W)].close, reason |-> "timeout"]
  BY DEF Timeout
<1>10. \A k \in DOMAIN bs : k <= T => cut[k] = bs[k]
  BY UpToIs
<1> HIDE DEF last, cut, W, V, tp, sl, tc, sc, exit, known
<1>11. ASSUME exit.ts <= T PROVE known = exit
  <2>1. CASE tp \cup sl = {}
    <3>1. tc \cup sc = {}
      BY <1>1, <2>1
    <3>2. CASE W = {}
      BY <1>1, <1>2, <1>3, <1>8, <1>9, <2>1, <3>1, <3>2
    <3>3. CASE W # {}
      <4>1. exit.ts = last
        BY <1>2, <1>9, <2>1, <3>3
      <4>2. V = W
        <5>1. \A s \in W : s <= T
          <6> TAKE s \in W
          <6>1. s \in Nat /\ s <= last /\ last <= T
            BY <1>6, <1>11, <4>1
          <6> QED
            BY <1>6, <6>1
        <5> QED
          BY <1>1, <5>1
      <4>3. Max(W) \in W
        <5>1. W \subseteq Nat
          BY <1>6
        <5> QED
          BY <1>6, <3>3, <5>1, MaxIsGreatest
      <4>4. cut[Max(V)] = bs[Max(W)]
        BY <1>1, <1>6, <1>10, <4>2, <4>3
      <4> QED
        BY <1>2, <1>3, <1>8, <1>9, <2>1, <3>1, <3>3, <4>2, <4>4
    <3> QED
      BY <3>2, <3>3
  <2>2. CASE tp \cup sl # {}
    <3>1. tc \cup sc # {}
      BY <1>1, <1>4, <1>11, <2>2
    <3>2. tc # {} => tp # {} /\ Min(tc) = Min(tp) /\ Min(tp) <= T
      <4> SUFFICES ASSUME NEW s \in tc PROVE tp # {} /\ Min(tc) = Min(tp) /\ Min(tp) <= T
        OBVIOUS
      <4>1. s \in tp /\ s <= T
        BY <1>1
      <4> QED
        BY <1>1, <1>6, <4>1, FirstUpTo
    <3>3. sc # {} => sl # {} /\ Min(sc) = Min(sl) /\ Min(sl) <= T
      <4> SUFFICES ASSUME NEW s \in sc PROVE sl # {} /\ Min(sc) = Min(sl) /\ Min(sl) <= T
        OBVIOUS
      <4>1. s \in sl /\ s <= T
        BY <1>1
      <4> QED
        BY <1>1, <1>6, <4>1, FirstUpTo
    <3>4. (tp # {} => Min(tp) \in tp) /\ (sl # {} => Min(sl) \in sl)
      BY <1>6, MinIsLeast
    <3>5. (tp # {} /\ Min(tp) <= T => tc # {}) /\ (sl # {} /\ Min(sl) <= T => sc # {})
      BY <1>1, <3>4
    <3>6. CASE StopComesFirst(tp, sl, r)
      <4>1. exit = atStop /\ sl # {}
        BY <1>2, <1>7, <2>2, <3>6
      <4>2. Min(sl) <= T
        BY <1>11, <4>1
      <4>3. sc # {} /\ Min(sc) = Min(sl)
        BY <3>3, <3>5, <4>1, <4>2
      <4>4. StopComesFirst(tc, sc, r)
        BY <1>7, <3>2, <3>6, <4>3
      <4> QED
        BY <1>3, <3>1, <4>1, <4>3, <4>4
    <3>7. CASE ~StopComesFirst(tp, sl, r)
      <4>1. exit = atProfit
        BY <1>2, <2>2, <3>7
      <4>2. tp # {}
        BY <1>7, <2>2, <3>7
      <4>3. Min(tp) <= T
        BY <1>11, <4>1
      <4>4. tc # {} /\ Min(tc) = Min(tp)
        BY <3>2, <3>5, <4>2, <4>3
      <4>5. ~StopComesFirst(tc, sc, r)
        BY <1>7, <3>3, <3>7, <4>2, <4>4
      <4> QED
        BY <1>3, <3>1, <4>1, <4>4, <4>5
    <3> QED
      BY <3>6, <3>7
  <2> QED
    BY <2>1, <2>2
<1>12. ASSUME ~(exit.ts <= T), V # {} PROVE known.ts = last
  <2>1. tc \cup sc = {}
    <3> SUFFICES ASSUME NEW s \in tc \cup sc PROVE FALSE
      OBVIOUS
    <3>1. s \in tp \cup sl /\ s <= T /\ s \in Nat
      BY <1>1, <1>6
    <3>2. exit.ts <= s /\ exit.ts \in Nat
      BY <1>4, <1>5, <3>1 DEF AnyExit
    <3> QED
      BY <1>12, <3>1, <3>2
  <2> QED
    BY <1>3, <1>8, <1>12, <2>1
<1> QED
  BY <1>11, <1>12 DEF exit, known, cut, last, V

\* An exit is found without the data after it.
LEMMA ExitUpTo ==
    ASSUME NEW bs, IsBars(bs), NEW e \in DOMAIN bs, NEW dir \in {1, -1}, NEW r, IsRule(r),
           NEW to, ScanEnd(e, r, to) \in Nat, e <= ScanEnd(e, r, to),
           NEW scores, ScoresFit(bs, scores), NEW T \in Nat, e <= T,
           Exit(bs, scores, e, dir, r, to).ts <= T
    PROVE  Exit(UpTo(bs, T), UpTo(scores, T), e, dir, r, to) = Exit(bs, scores, e, dir, r, to)
<1> DEFINE last == ScanEnd(e, r, to)
           cut == UpTo(bs, T)
           turned == TurnedScores(scores, e, dir, r, to)
           tc == TurnedScores(UpTo(scores, T), e, dir, r, to)
           late == PriceExit(bs, e, dir, r, to)
           known == PriceExit(cut, e, dir, r, to)
           exit == Exit(bs, scores, e, dir, r, to)
           same == Exit(cut, UpTo(scores, T), e, dir, r, to)
           early == [ts |-> Min(turned), px |-> bs[Min(turned)].close, reason |-> "signal"]
<1>1. exit = IF turned # {} /\ Min(turned) < late.ts THEN early ELSE late
  BY DEF Exit
<1>2. same = IF tc # {} /\ Min(tc) < known.ts
             THEN [ts |-> Min(tc), px |-> cut[Min(tc)].close, reason |-> "signal"] ELSE known
  BY DEF Exit
<1>3. tc = {s \in turned : s <= T}
  <2> DEFINE known2 == UpTo(scores, T)
  <2>1. DOMAIN known2 = {k \in DOMAIN scores : k <= T} /\ \A k \in DOMAIN known2 : known2[k] = scores[k]
    BY UpToIs
  <2>2. tc = {s \in DOMAIN known2 : e < s /\ s <= last /\ dir * known2[s] <= -r.threshold}
    BY DEF TurnedScores
  <2>3. turned = {s \in DOMAIN scores : e < s /\ s <= last /\ dir * scores[s] <= -r.threshold}
    BY DEF TurnedScores
  <2> HIDE DEF known2, tc, turned, last
  <2>4. \A s \in DOMAIN known2 : s \in DOMAIN scores /\ s <= T /\ dir * known2[s] = dir * scores[s]
    BY <2>1
  <2>5. \A s \in DOMAIN scores : s <= T => s \in DOMAIN known2
    BY <2>1
  <2>6. \A s : s \in tc <=> s \in turned /\ s <= T
    BY <2>2, <2>3, <2>4, <2>5
  <2> QED
    BY <2>6
<1>4. \A s \in turned : s \in DOMAIN bs /\ s \in Nat /\ e < s /\ s <= last
  BY DEF TurnedScores, ScoresFit, IsBars
<1>5. /\ late.ts <= T => known = late
      /\ ~(late.ts <= T) /\ Window(cut, e, last) # {} => known.ts = last
  BY PriceExitUpTo
<1>6. late.ts \in Nat /\ late.ts <= last
  BY PriceExitIs DEF AnyExit
<1>7. DOMAIN cut = {k \in DOMAIN bs : k <= T} /\ \A k \in DOMAIN cut : cut[k] = bs[k]
  BY UpToIs
<1>8. \A s : s \in DOMAIN cut /\ e < s /\ s <= last => s \in Window(cut, e, last)
  BY DEF Window
<1>9. exit.ts <= T
  OBVIOUS
<1>10. last \in Nat
  OBVIOUS
<1> HIDE DEF last, cut, turned, tc, late, known, exit, same
<1>11. turned # {} => Min(turned) \in turned
  <2>1. turned \subseteq Nat
    BY <1>4
  <2> QED
    BY <2>1, MinIsLeast
<1>12. ASSUME turned # {}, Min(turned) <= T
       PROVE  /\ tc # {} /\ Min(tc) = Min(turned) /\ cut[Min(tc)] = bs[Min(turned)]
              /\ Window(cut, e, last) # {}
  <2>1. turned \subseteq Nat /\ Min(turned) \in turned
    BY <1>4, <1>11, <1>12
  <2>2. tc # {} /\ Min(tc) = Min(turned)
    BY <1>3, <1>12, <2>1, FirstUpTo
  <2>3. Min(turned) \in DOMAIN cut
    BY <1>4, <1>7, <1>12, <2>1
  <2> QED
    BY <1>4, <1>7, <1>8, <2>1, <2>2, <2>3
<1>13. tc # {} => turned # {} /\ Min(tc) = Min(turned) /\ Min(turned) <= T
  <2> SUFFICES ASSUME NEW s \in tc PROVE turned # {} /\ Min(tc) = Min(turned) /\ Min(turned) <= T
    OBVIOUS
  <2>1. s \in turned /\ s <= T /\ turned \subseteq Nat
    BY <1>3, <1>4
  <2> QED
    BY <1>3, <2>1, FirstUpTo
<1>14. CASE turned # {} /\ Min(turned) < late.ts
  <2>1. exit = early /\ Min(turned) <= T
    BY <1>1, <1>9, <1>14
  <2>2. Min(tc) < known.ts
    <3>1. CASE late.ts <= T
      BY <1>5, <1>12, <1>14, <2>1, <3>1
    <3>2. CASE ~(late.ts <= T)
      <4>1. known.ts = last /\ Min(tc) = Min(turned)
        BY <1>5, <1>12, <1>14, <2>1, <3>2
      <4>2. Min(turned) \in Nat
        BY <1>4, <1>11, <1>14
      <4> QED
        BY <1>6, <1>10, <1>14, <4>1, <4>2
    <3> QED
      BY <3>1, <3>2
  <2>3. tc # {} /\ Min(tc) = Min(turned) /\ cut[Min(tc)] = bs[Min(turned)]
    BY <1>12, <1>14, <2>1
  <2>4. same = early
    BY <1>2, <2>2, <2>3
  <2>5. same = exit
    BY <2>1, <2>4
  <2> QED
    BY <2>5 DEF same, exit, cut
<1>15. CASE ~(turned # {} /\ Min(turned) < late.ts)
  <2>1. exit = late /\ known = late
    BY <1>1, <1>5, <1>9, <1>15
  <2>2. ~(tc # {} /\ Min(tc) < known.ts)
    BY <1>13, <1>15, <2>1
  <2>3. same = exit
    BY <1>2, <2>1, <2>2
  <2> QED
    BY <2>3 DEF same, exit, cut
<1> QED
  BY <1>14, <1>15

\* What has been done with all data and with the data up to T: the same when all
\* positions have ended by then, and in any case the same trades up to each that has.
Follows(a, b, T) ==
    /\ a.trades \in Seq(AnyTrade) /\ b.trades \in Seq(AnyTrade) /\ a.lastExit \in Int
    /\ a.lastExit <= T => a.trades = b.trades /\ a.lastExit = b.lastExit
    /\ \A n \in 1 .. Len(a.trades) :
          a.trades[n].exit <= T =>
             n <= Len(b.trades) /\ \A i \in 1 .. n : b.trades[i] = a.trades[i]

\* A trade more of the data up to T.
LEMMA FollowsKnown ==
    ASSUME NEW T \in Nat, NEW a, NEW b, Follows(a, b, T), ~(a.lastExit <= T),
           NEW t \in AnyTrade, NEW q, q.trades = Append(b.trades, t)
    PROVE  Follows(a, q, T)
<1> DEFINE n == Len(b.trades)
<1>1. b.trades \in Seq(AnyTrade) /\ n \in Nat
  BY DEF Follows
<1>2. /\ q.trades \in Seq(AnyTrade) /\ Len(q.trades) = n + 1
      /\ \A i \in 1 .. n : q.trades[i] = b.trades[i]
  BY <1>1, AppendProperties
<1>3. ASSUME NEW k \in 1 .. Len(a.trades), a.trades[k].exit <= T
      PROVE  k <= Len(q.trades) /\ \A i \in 1 .. k : q.trades[i] = a.trades[i]
  <2>1. k <= n /\ \A i \in 1 .. k : b.trades[i] = a.trades[i]
    BY <1>3 DEF Follows
  <2>2. k \in Nat /\ \A i \in 1 .. k : i \in 1 .. n
    <3>1. a.trades \in Seq(AnyTrade)
      BY DEF Follows
    <3>2. k \in Nat
      BY <3>1
    <3> HIDE DEF n
    <3> QED
      BY <1>1, <2>1, <3>2
  <2> HIDE DEF n
  <2>3. k <= n + 1
    BY <1>1, <2>1, <2>2
  <2> QED
    BY <1>2, <2>1, <2>2, <2>3
<1> QED
  BY <1>2, <1>3 DEF Follows

\* A trade that ends after T.
LEMMA FollowsUnknown ==
    ASSUME NEW T \in Nat, NEW a, NEW b, Follows(a, b, T),
           NEW t \in AnyTrade, ~(t.exit <= T), NEW p,
           p.trades = Append(a.trades, t), p.lastExit \in Int, ~(p.lastExit <= T)
    PROVE  Follows(p, b, T)
<1> DEFINE n == Len(a.trades)
<1>1. a.trades \in Seq(AnyTrade) /\ n \in Nat
  BY DEF Follows
<1>2. /\ p.trades \in Seq(AnyTrade) /\ Len(p.trades) = n + 1 /\ p.trades[n + 1] = t
      /\ \A i \in 1 .. n : p.trades[i] = a.trades[i]
  BY <1>1, AppendProperties
<1>3. b.trades \in Seq(AnyTrade)
  BY DEF Follows
<1>4. \A k \in 1 .. n : a.trades[k].exit <= T =>
         k <= Len(b.trades) /\ \A i \in 1 .. k : b.trades[i] = a.trades[i]
  BY DEF Follows
<1> HIDE DEF n
<1>5. ASSUME NEW k \in 1 .. n + 1, p.trades[k].exit <= T
      PROVE  k <= Len(b.trades) /\ \A i \in 1 .. k : b.trades[i] = p.trades[i]
  <2>1. k # n + 1
    BY <1>2, <1>5
  <2>2. k \in 1 .. n
    BY <1>1, <2>1
  <2>3. \A i \in 1 .. k : i \in 1 .. n
    BY <1>1, <2>2
  <2>4. k <= Len(b.trades) /\ \A i \in 1 .. k : b.trades[i] = a.trades[i]
    BY <1>2, <1>4, <1>5, <2>2
  <2> QED
    BY <1>2, <2>3, <2>4
<1> QED
  BY <1>2, <1>3, <1>5 DEF Follows

\* Nothing is missing from what has been done.
LEMMA FollowsSame ==
    ASSUME NEW T \in Nat, NEW p, NEW q, p.trades \in Seq(AnyTrade), p.trades = q.trades,
           p.lastExit \in Int, p.lastExit = q.lastExit
    PROVE  Follows(p, q, T)
<1>1. \A n \in 1 .. Len(p.trades) : n <= Len(p.trades)
  OBVIOUS
<1> QED
  BY <1>1 DEF Follows

LEMMA LaterIs ==
    ASSUME NEW a \in Int, NEW b \in Int
    PROVE  Later(a, b) \in {a, b} /\ a <= Later(a, b) /\ b <= Later(a, b)
BY DEF Later

\* The positions of the signals up to T, with all data and with the data up to T.
KnownExits(ss, ea, eb, to, T) ==
    \A e \in DOMAIN ss : ss[e] # 0 /\ e <= to =>
        /\ ss[e] \in {1, -1} /\ ea[e] \in AnyExit /\ e <= ea[e].ts
        /\ e <= T => eb[e] \in AnyExit /\ (ea[e].ts <= T => eb[e] = ea[e])

\* One signal more, by T: it is taken with all data only when no position is open.
LEMMA KnownSignal ==
    ASSUME NEW bs, IsBars(bs), NEW ss, DOMAIN ss \subseteq DOMAIN bs, NEW to \in Nat, NEW from,
           NEW T \in Nat, NEW ea, NEW eb, KnownExits(ss, ea, eb, to, T),
           NEW a, NEW b, Follows(a, b, T), NEW e \in DOMAIN ss, e <= T
    PROVE  Follows(TakeSignal(bs, ss, ea, from, to, e, a),
                   TakeSignal(UpTo(bs, T), UpTo(ss, T), eb, from, to, e, b), T)
<1> DEFINE cut == UpTo(bs, T)
           sc == UpTo(ss, T)
           p == TakeSignal(bs, ss, ea, from, to, e, a)
           q == TakeSignal(cut, sc, eb, from, to, e, b)
           s == Position(e, ss[e], bs[e].close, ea[e])
           t == Position(e, ss[e], bs[e].close, eb[e])
<1>1. sc[e] = ss[e] /\ cut[e] = bs[e]
  BY UpToIs
<1>2. \A l : Taken(cut, sc, e, from, to, l) <=> Taken(bs, ss, e, from, to, l)
  BY <1>1 DEF Taken
<1>3. e \in Nat /\ bs[e].close \in Nat
  BY DEF IsBars
<1>4. /\ ~Taken(bs, ss, e, from, to, a.lastExit) => p = a
      /\ Taken(bs, ss, e, from, to, a.lastExit) =>
            p = [trades |-> Append(a.trades, s), lastExit |-> Later(a.lastExit, s.exit)]
  BY DEF TakeSignal
<1>5. /\ ~Taken(bs, ss, e, from, to, b.lastExit) => q = b
      /\ Taken(bs, ss, e, from, to, b.lastExit) =>
            q = [trades |-> Append(b.trades, t), lastExit |-> Later(b.lastExit, t.exit)]
  BY <1>1, <1>2 DEF TakeSignal
<1>6. \A l : Taken(bs, ss, e, from, to, l) => ss[e] # 0 /\ e <= to /\ l <= e
  BY DEF Taken
<1>7. ASSUME ss[e] # 0, e <= to
      PROVE  /\ s \in AnyTrade /\ s.exit = ea[e].ts /\ s.exit \in Nat
             /\ t \in AnyTrade /\ (s.exit <= T => t = s)
  <2>1. /\ ss[e] \in {1, -1} /\ ea[e] \in AnyExit /\ eb[e] \in AnyExit
        /\ ea[e].ts <= T => eb[e] = ea[e]
    BY <1>7 DEF KnownExits
  <2>2. s \in AnyTrade /\ s.exit = ea[e].ts
    <3>1. s \in AnyTrade
      BY <1>3, <2>1, PositionIs
    <3>2. s.exit = ea[e].ts
      BY DEF Position
    <3> QED
      BY <3>1, <3>2
  <2>3. t \in AnyTrade
    BY <1>3, <2>1, PositionIs
  <2>4. ea[e].ts \in Nat
    BY <2>1 DEF AnyExit
  <2>5. ea[e] = eb[e] => t = s
    OBVIOUS
  <2> HIDE DEF s, t
  <2> QED
    BY <2>1, <2>2, <2>3, <2>4, <2>5
<1>8. /\ a.trades \in Seq(AnyTrade) /\ b.trades \in Seq(AnyTrade) /\ a.lastExit \in Int
      /\ a.lastExit <= T => a.trades = b.trades /\ a.lastExit = b.lastExit
  BY DEF Follows
<1> HIDE DEF cut, sc, p, q, s, t
<1>9. CASE a.lastExit <= T
  <2>1. a.trades = b.trades /\ a.lastExit = b.lastExit
    BY <1>8, <1>9
  <2>2. CASE ~Taken(bs, ss, e, from, to, a.lastExit)
    <3>1. p = a /\ q = b
      BY <1>4, <1>5, <2>1, <2>2
    <3> QED
      BY <3>1 DEF p, q, cut, sc
  <2>3. CASE Taken(bs, ss, e, from, to, a.lastExit)
    <3>1. /\ p.trades = Append(a.trades, s) /\ p.lastExit = Later(a.lastExit, s.exit)
          /\ q.trades = Append(b.trades, t) /\ q.lastExit = Later(b.lastExit, t.exit)
      BY <1>4, <1>5, <2>1, <2>3
    <3>2. /\ s \in AnyTrade /\ s.exit \in Nat /\ t \in AnyTrade /\ (s.exit <= T => t = s)
      BY <1>6, <1>7, <2>3
    <3>3. CASE s.exit <= T
      <4>1. t = s
        BY <3>2, <3>3
      <4>2. p.trades = q.trades /\ p.lastExit = q.lastExit
        BY <2>1, <3>1, <4>1
      <4>3. p.trades \in Seq(AnyTrade)
        BY <1>8, <3>1, <3>2, AppendProperties
      <4>4. p.lastExit \in Int
        BY <1>8, <3>1, <3>2, LaterIs
      <4>5. Follows(p, q, T)
        BY <4>2, <4>3, <4>4, FollowsSame
      <4> QED
        BY <4>5 DEF p, q, cut, sc
    <3>4. CASE ~(s.exit <= T)
      <4>1. p.lastExit \in Int /\ s.exit <= p.lastExit
        BY <1>8, <3>1, <3>2, LaterIs
      <4>2. ~(p.lastExit <= T)
        BY <3>2, <3>4, <4>1
      <4>3. Follows(p, b, T)
        BY <3>1, <3>2, <3>4, <4>1, <4>2, FollowsUnknown
      <4>4. Follows(p, q, T)
        BY <3>1, <3>2, <4>2, <4>3, FollowsKnown
      <4> QED
        BY <4>4 DEF p, q, cut, sc
    <3> QED
      BY <3>3, <3>4
  <2> QED
    BY <2>2, <2>3
<1>10. CASE ~(a.lastExit <= T)
  <2>1. ~Taken(bs, ss, e, from, to, a.lastExit)
    <3>1. ~(a.lastExit <= e)
      BY <1>3, <1>8, <1>10
    <3> QED
      BY <1>6, <3>1
  <2>2. p = a
    BY <1>4, <2>1
  <2>3. CASE ~Taken(bs, ss, e, from, to, b.lastExit)
    <3>1. q = b
      BY <1>5, <2>3
    <3> QED
      BY <2>2, <3>1 DEF p, q, cut, sc
  <2>4. CASE Taken(bs, ss, e, from, to, b.lastExit)
    <3>1. q.trades = Append(b.trades, t)
      BY <1>5, <2>4
    <3>2. t \in AnyTrade
      BY <1>6, <1>7, <2>4
    <3>3. Follows(a, q, T)
      BY <1>10, <3>1, <3>2, FollowsKnown
    <3> QED
      BY <2>2, <3>3 DEF p, q, cut, sc
  <2> QED
    BY <2>3, <2>4
<1> QED
  BY <1>9, <1>10

\* One signal more, after T.
LEMMA LaterSignal ==
    ASSUME NEW bs, IsBars(bs), NEW ss, DOMAIN ss \subseteq DOMAIN bs, NEW to \in Nat, NEW from,
           NEW T \in Nat, NEW ea, NEW eb, KnownExits(ss, ea, eb, to, T),
           NEW a, NEW b, Follows(a, b, T), NEW e \in DOMAIN ss, ~(e <= T)
    PROVE  Follows(TakeSignal(bs, ss, ea, from, to, e, a), b, T)
<1> DEFINE p == TakeSignal(bs, ss, ea, from, to, e, a)
           s == Position(e, ss[e], bs[e].close, ea[e])
<1>1. e \in Nat /\ bs[e].close \in Nat
  BY DEF IsBars
<1>2. /\ ~Taken(bs, ss, e, from, to, a.lastExit) => p = a
      /\ Taken(bs, ss, e, from, to, a.lastExit) =>
            p = [trades |-> Append(a.trades, s), lastExit |-> Later(a.lastExit, s.exit)]
  BY DEF TakeSignal
<1>3. CASE ~Taken(bs, ss, e, from, to, a.lastExit)
  BY <1>2, <1>3
<1>4. CASE Taken(bs, ss, e, from, to, a.lastExit)
  <2>1. ss[e] # 0 /\ e <= to
    BY <1>4 DEF Taken
  <2>2. ss[e] \in {1, -1} /\ ea[e] \in AnyExit /\ e <= ea[e].ts
    BY <2>1 DEF KnownExits
  <2>3. ea[e].ts \in Nat /\ ~(ea[e].ts <= T)
    <3>1. ea[e].ts \in Nat
      BY <2>2 DEF AnyExit
    <3> QED
      BY <1>1, <2>2, <3>1
  <2>4. s \in AnyTrade /\ s.exit = ea[e].ts
    <3>1. s \in AnyTrade
      BY <1>1, <2>2, PositionIs
    <3>2. s.exit = ea[e].ts
      BY DEF Position
    <3> QED
      BY <3>1, <3>2
  <2> HIDE DEF s
  <2>5. p.trades = Append(a.trades, s) /\ p.lastExit = Later(a.lastExit, s.exit)
    BY <1>2, <1>4
  <2>6. a.lastExit \in Int
    BY DEF Follows
  <2>7. p.lastExit \in Int /\ s.exit <= p.lastExit
    BY <2>3, <2>4, <2>5, <2>6, LaterIs
  <2> HIDE DEF p
  <2>8. ~(s.exit <= T) /\ ~(p.lastExit <= T)
    BY <2>3, <2>4, <2>7
  <2>9. Follows(p, b, T)
    BY <2>4, <2>5, <2>7, <2>8, FollowsUnknown
  <2> QED
    BY <2>9 DEF p
<1> QED
  BY <1>3, <1>4

\* The signals up to T.
KnownOf(S, T) == {e \in S : e <= T}

\* Signal after signal, with all data and with the data up to T.
LEMMA RunsFollow ==
    ASSUME NEW bs, IsBars(bs), NEW ss, NEW n \in Nat, DOMAIN ss \subseteq 0 .. n,
           DOMAIN ss \subseteq DOMAIN bs, NEW to \in Nat, NEW from,
           NEW T \in Nat, NEW ea, NEW eb, KnownExits(ss, ea, eb, to, T)
    PROVE  Follows(Done(bs, ss, ea, from, to)[DOMAIN ss],
                   Done(UpTo(bs, T), UpTo(ss, T), eb, from, to)[DOMAIN UpTo(ss, T)], T)
<1> DEFINE D == DOMAIN ss
           A == Done(bs, ss, ea, from, to)
           B == Done(UpTo(bs, T), UpTo(ss, T), eb, from, to)
           Known(S) == KnownOf(S, T)
           G == {S \in SUBSET D : Follows(A[S], B[Known(S)], T)}
<1>1. DOMAIN UpTo(ss, T) = Known(D)
  BY UpToIs DEF KnownOf
<1>2. Known(D) \subseteq 0 .. n
  BY DEF KnownOf
<1>3. B[{}] = NoTrades /\ \A S \in SUBSET Known(D) : S # {} =>
         B[S] = TakeSignal(UpTo(bs, T), UpTo(ss, T), eb, from, to, Max(S), B[S \ {Max(S)}])
  <2> DEFINE cut == UpTo(bs, T)
             sc == UpTo(ss, T)
  <2>1. DOMAIN sc = Known(D)
    BY <1>1
  <2> HIDE DEF cut, sc, Known
  <2>2. DOMAIN sc \subseteq 0 .. n
    BY <1>2, <2>1
  <2>3. Done(cut, sc, eb, from, to)[{}] = NoTrades
    BY <2>2, DoneIs
  <2>4. \A S \in SUBSET DOMAIN sc : S # {} =>
           Done(cut, sc, eb, from, to)[S] =
              TakeSignal(cut, sc, eb, from, to, Max(S), Done(cut, sc, eb, from, to)[S \ {Max(S)}])
    <3> SUFFICES ASSUME NEW S \in SUBSET DOMAIN sc, S # {}
                 PROVE  Done(cut, sc, eb, from, to)[S] =
                           TakeSignal(cut, sc, eb, from, to, Max(S),
                                      Done(cut, sc, eb, from, to)[S \ {Max(S)}])
      OBVIOUS
    <3> QED
      BY <2>2, DoneIs
  <2> QED
    BY <2>1, <2>3, <2>4 DEF cut, sc
<1>4. A[{}] = NoTrades /\ \A S \in SUBSET D : S # {} =>
         A[S] = TakeSignal(bs, ss, ea, from, to, Max(S), A[S \ {Max(S)}])
  <2>1. A[{}] = NoTrades
    BY DoneIs
  <2>2. \A S \in SUBSET D : S # {} =>
           A[S] = TakeSignal(bs, ss, ea, from, to, Max(S), A[S \ {Max(S)}])
    BY DoneIs
  <2> QED
    BY <2>1, <2>2
<1> HIDE DEF A, B
<1>5. {} \in G
  <2>1. Known({}) = {}
    BY DEF KnownOf
  <2>2. Follows(NoTrades, NoTrades, T)
    <3>1. NoTrades.trades \in Seq(AnyTrade) /\ NoTrades.lastExit \in Int
      BY DEF NoTrades
    <3> QED
      BY <3>1, FollowsSame
  <2> QED
    BY <1>3, <1>4, <2>1, <2>2
<1>6. ASSUME NEW S \in SUBSET D, S # {}, S \ {Max(S)} \in G PROVE S \in G
  <2> DEFINE e == Max(S)
             R == S \ {e}
  <2>1. S \subseteq Nat /\ \A y \in S : y <= n
    OBVIOUS
  <2>2. e \in S /\ e \in D /\ e \in Nat /\ \A y \in S : y <= e
    BY <1>6, <2>1, MaxIsGreatest
  <2>3. A[S] = TakeSignal(bs, ss, ea, from, to, e, A[R])
    BY <1>4, <1>6
  <2>4. Follows(A[R], B[Known(R)], T)
    BY <1>6
  <2> HIDE DEF e
  <2>5. CASE e <= T
    <3>1. e \in Known(S) /\ Known(S) \in SUBSET Known(D)
      BY <2>2, <2>5 DEF KnownOf
    <3>2. Known(S) \ {e} = Known(R)
      BY DEF KnownOf
    <3>3. Max(Known(S)) = e
      <4>1. \A y \in Known(S) : y <= e
        BY <2>2 DEF KnownOf
      <4>2. Known(S) \subseteq Int
        BY <2>1 DEF KnownOf
      <4> HIDE DEF Known
      <4> QED
        BY <3>1, <4>1, <4>2, GreatestIs
    <3>4. B[Known(S)] = TakeSignal(UpTo(bs, T), UpTo(ss, T), eb, from, to, e, B[Known(R)])
      BY <1>3, <3>1, <3>2, <3>3
    <3>5. Follows(TakeSignal(bs, ss, ea, from, to, e, A[R]),
                  TakeSignal(UpTo(bs, T), UpTo(ss, T), eb, from, to, e, B[Known(R)]), T)
      <4> HIDE DEF R, Known
      <4> QED
        BY <2>2, <2>4, <2>5, KnownSignal
    <3> QED
      BY <2>3, <3>4, <3>5
  <2>6. CASE ~(e <= T)
    <3>1. Known(S) = Known(R)
      BY <2>2, <2>6 DEF KnownOf
    <3>2. Follows(TakeSignal(bs, ss, ea, from, to, e, A[R]), B[Known(R)], T)
      <4> HIDE DEF R, Known
      <4> QED
        BY <2>2, <2>4, <2>6, LaterSignal
    <3> QED
      BY <2>3, <3>1, <3>2
  <2> QED
    BY <2>5, <2>6
<1>7. SUBSET D \subseteq G
  <2> HIDE DEF G, D
  <2>1. D \subseteq 0 .. n
    BY DEF D
  <2> QED
    BY <1>5, <1>6, <2>1, SignalInduction
<1>8. Follows(A[D], B[Known(D)], T)
  BY <1>7
<1> QED
  BY <1>1, <1>8 DEF A, B

\* The trades up to one of them are a prefix of those found without the data after it.
LEMMA PrefixIs ==
    ASSUME NEW T \in Nat, NEW a, NEW b, Follows(a, b, T),
           NEW n \in DOMAIN a.trades, a.trades[n].exit <= T
    PROVE  IsPrefix(SubSeq(a.trades, 1, n), b.trades)
<1> DEFINE s == SubSeq(a.trades, 1, n)
           u == SubSeq(b.trades, 1, n)
<1>1. /\ a.trades \in Seq(AnyTrade) /\ b.trades \in Seq(AnyTrade) /\ n \in Nat
      /\ n \in 1 .. Len(a.trades)
  BY DEF Follows
<1>2. n <= Len(b.trades) /\ \A i \in 1 .. n : b.trades[i] = a.trades[i]
  BY <1>1 DEF Follows
<1>3. \A i \in 1 .. n : a.trades[i] \in AnyTrade /\ b.trades[i] \in AnyTrade
  <2>1. \A i \in 1 .. n : i \in 1 .. Len(a.trades) /\ i \in 1 .. Len(b.trades)
    BY <1>1, <1>2
  <2> QED
    BY <1>1, <2>1
<1>4. s \in Seq(AnyTrade) /\ Len(s) = n /\ \A i \in 1 .. n : s[i] = a.trades[i]
  BY <1>1, <1>3
<1>5. u \in Seq(AnyTrade) /\ Len(u) = n /\ \A i \in 1 .. n : u[i] = b.trades[i]
  BY <1>1, <1>2, <1>3
<1> HIDE DEF s, u
<1>6. s = u
  BY <1>2, <1>4, <1>5
<1>7. SubSeq(s, 1, Len(s)) = s
  BY <1>4
<1>8. Len(s) <= Len(b.trades) /\ SubSeq(s, 1, Len(s)) = SubSeq(b.trades, 1, Len(s))
  BY <1>2, <1>4, <1>6, <1>7 DEF u
<1>9. IsPrefix(s, b.trades)
  BY <1>8 DEF IsPrefix
<1> QED
  BY <1>9 DEF s

\* An exit by T is found with the data up to T.
LEMMA ExitsAreKnown ==
    ASSUME NEW bs, IsBars(bs), NEW ss, DOMAIN ss \subseteq DOMAIN bs,
           \A e \in DOMAIN ss : ss[e] # 0 => ss[e] \in {1, -1},
           NEW r, IsRule(r), NEW to \in Nat, NEW scores, ScoresFit(bs, scores), NEW T \in Nat,
           NEW ea, NEW eb,
           \A e \in DOMAIN ss : ea[e] = Exit(bs, scores, e, ss[e], r, to),
           \A e \in DOMAIN ss : e <= T =>
              eb[e] = Exit(UpTo(bs, T), UpTo(scores, T), e, ss[e], r, to)
    PROVE  KnownExits(ss, ea, eb, to, T)
<1> DEFINE cut == UpTo(bs, T)
           sc == UpTo(scores, T)
<1> SUFFICES ASSUME NEW e \in DOMAIN ss, ss[e] # 0, e <= to
             PROVE  /\ ss[e] \in {1, -1} /\ ea[e] \in AnyExit /\ e <= ea[e].ts
                    /\ e <= T => eb[e] \in AnyExit /\ (ea[e].ts <= T => eb[e] = ea[e])
  BY DEF KnownExits
<1>1. ss[e] \in {1, -1} /\ e \in DOMAIN bs /\ e \in Nat
  BY DEF IsBars
<1>2. ScanEnd(e, r, to) \in Nat /\ e <= ScanEnd(e, r, to)
  BY <1>1 DEF ScanEnd, IsRule
<1>3. ea[e] = Exit(bs, scores, e, ss[e], r, to)
  OBVIOUS
<1>4. Exit(bs, scores, e, ss[e], r, to) \in AnyExit
  BY <1>1, <1>2, ExitIs
<1>5. e <= Exit(bs, scores, e, ss[e], r, to).ts
  BY <1>1, <1>2, ExitIs
<1>6. ASSUME e <= T PROVE eb[e] \in AnyExit /\ (ea[e].ts <= T => eb[e] = ea[e])
  <2>1. eb[e] = Exit(cut, sc, e, ss[e], r, to)
    BY <1>6
  <2>2. IsBars(cut)
    BY BarsUpTo
  <2>3. DOMAIN cut = {k \in DOMAIN bs : k <= T} /\ DOMAIN sc = {k \in DOMAIN scores : k <= T}
    BY UpToIs
  <2>4. e \in DOMAIN cut /\ ScoresFit(cut, sc)
    BY <1>1, <1>6, <2>3 DEF ScoresFit
  <2> HIDE DEF cut, sc
  <2>5. Exit(cut, sc, e, ss[e], r, to) \in AnyExit
    BY <1>1, <1>2, <2>2, <2>4, ExitIs
  <2>6. ASSUME ea[e].ts <= T PROVE eb[e] = ea[e]
    <3>1. Exit(UpTo(bs, T), UpTo(scores, T), e, ss[e], r, to) = Exit(bs, scores, e, ss[e], r, to)
      BY <1>1, <1>2, <1>3, <1>6, <2>6, ExitUpTo
    <3> QED
      BY <1>3, <2>1, <3>1 DEF cut, sc
  <2> QED
    BY <2>1, <2>5, <2>6
<1> QED
  BY <1>1, <1>3, <1>4, <1>5, <1>6

\* What the search finds without the data after T follows from what it finds with it.
SameUpTo(bs, ss, scores, r, from, to, T) ==
    \E a, b :
       /\ Follows(a, b, T)
       /\ RunBacktest(bs, ss, scores, r, from, to) = a.trades
       /\ RunBacktest(UpTo(bs, T), UpTo(ss, T), UpTo(scores, T), r, from, to) = b.trades

\* The two runs of the search.
LEMMA SearchFollows ==
    ASSUME NEW bs, IsBars(bs), NEW ss, NEW n \in Nat, DOMAIN ss \subseteq 0 .. n,
           DOMAIN ss \subseteq DOMAIN bs, \A e \in DOMAIN ss : ss[e] # 0 => ss[e] \in {1, -1},
           NEW r, IsRule(r), NEW from, NEW to \in Nat,
           NEW scores, ScoresFit(bs, scores), NEW T \in Nat
    PROVE  SameUpTo(bs, ss, scores, r, from, to, T)
<1> DEFINE D == DOMAIN ss
           sc == UpTo(ss, T)
           ea == [e \in D |-> Exit(bs, scores, e, ss[e], [s \in D |-> r][e], to)]
           eb == [e \in DOMAIN sc |-> Exit(UpTo(bs, T), UpTo(scores, T), e, sc[e],
                                           [s \in DOMAIN sc |-> r][e], to)]
           a == Done(bs, ss, ea, from, to)[D]
           b == Done(UpTo(bs, T), sc, eb, from, to)[DOMAIN sc]
<1>1. RunBacktest(bs, ss, scores, r, from, to) = a.trades
  BY RunSignalsIs DEF RunBacktest, RunBacktestBy
<1>2. RunBacktest(UpTo(bs, T), sc, UpTo(scores, T), r, from, to) = b.trades
  BY RunSignalsIs DEF RunBacktest, RunBacktestBy
<1>3. DOMAIN sc = {k \in D : k <= T} /\ \A k \in DOMAIN sc : sc[k] = ss[k]
  BY UpToIs
<1>4. \A e \in D : ea[e] = Exit(bs, scores, e, ss[e], r, to)
  OBVIOUS
<1>5. \A e \in D : e <= T => eb[e] = Exit(UpTo(bs, T), UpTo(scores, T), e, ss[e], r, to)
  BY <1>3
<1> HIDE DEF ea, eb
<1>6. KnownExits(ss, ea, eb, to, T)
  BY <1>4, <1>5, ExitsAreKnown
<1>7. Follows(a, b, T)
  BY <1>6, RunsFollow
<1> HIDE DEF a, b
<1> QED
  BY <1>1, <1>2, <1>7 DEF SameUpTo

\* The search in arrays does not look ahead, whatever the market, the signals, the scores
\* and the exit rule (backtest.py:172-268): a trade, its exit by the score included,
\* follows from the bars, the signals and the scores up to its exit, and so do all trades
\* before it.
THEOREM SearchDoesNotLookAhead == Spec => []NoLookAhead
<1>1. WalkInv => NoLookAhead
  <2> SUFFICES ASSUME WalkInv, NEW scores \in {Scores, <<>>},
                      NEW n \in DOMAIN RunBacktest(bars, signals, scores, x, 0, end)
               PROVE  LET all == RunBacktest(bars, signals, scores, x, 0, end)
                          ts == all[n].exit
                      IN  IsPrefix(SubSeq(all, 1, n),
                              RunBacktest(UpTo(bars, ts), UpTo(signals, ts), UpTo(scores, ts), x, 0, end))
    BY DEF NoLookAhead
  <2> DEFINE all == RunBacktest(bars, signals, scores, x, 0, end)
             T == all[n].exit
             known == RunBacktest(UpTo(bars, T), UpTo(signals, T), UpTo(scores, T), x, 0, end)
  <2>1. /\ x \in ExitRules /\ IsBars(bars) /\ end \in Nat /\ LastSec \in Nat
        /\ DOMAIN signals \subseteq 0 .. LastSec /\ DOMAIN signals \subseteq DOMAIN bars
        /\ \A e \in DOMAIN signals : signals[e] # 0 => signals[e] \in {1, -1}
    BY WalkIsTyped DEF WalkInv, Inv, TypeOK, Buy, Sell
  <2>2. IsRule(x)
    BY <2>1, TrailingAssumption DEF IsRule
  <2>3. ScoresFit(bars, scores)
    <3>1. CASE scores = Scores
      BY <3>1 DEF ScoresFit, Scores
    <3>2. CASE scores = <<>>
      BY <3>2 DEF ScoresFit
    <3> QED
      BY <3>1, <3>2
  <2>4. ASSUME NEW t \in Nat
        PROVE  \E a, b :
                  /\ Follows(a, b, t) /\ all = a.trades
                  /\ RunBacktest(UpTo(bars, t), UpTo(signals, t), UpTo(scores, t), x, 0, end) = b.trades
    <3>1. SameUpTo(bars, signals, scores, x, 0, end, t)
      BY <2>1, <2>2, <2>3, SearchFollows
    <3> QED
      BY <3>1 DEF SameUpTo
  <2>5. n \in DOMAIN all
    OBVIOUS
  <2> HIDE DEF all
  <2>6. T \in Nat
    <3>1. PICK a, b : Follows(a, b, 0) /\ all = a.trades
      BY <2>4
    <3>2. all[n] \in AnyTrade
      BY <2>5, <3>1 DEF Follows
    <3> QED
      BY <3>2 DEF AnyTrade
  <2>7. PICK a, b : Follows(a, b, T) /\ all = a.trades /\ known = b.trades
    BY <2>4, <2>6
  <2>8. n \in DOMAIN a.trades /\ a.trades[n].exit = T
    BY <2>5, <2>7
  <2> HIDE DEF T, known
  <2>9. IsPrefix(SubSeq(a.trades, 1, n), b.trades)
    BY <2>6, <2>7, <2>8, PrefixIs
  <2> QED
    BY <2>7, <2>9 DEF all, known, T
<1> QED
  BY WalkIsOfHistory, <1>1, PTL

-----------------------------------------------------------------------------
(* The labels of the decoders.                                             *)

\* How many elements of a set come up to one.
Place(S, s) == Cardinality({k \in S : k <= s})

\* Later elements have later places, from the first to the last.
LEMMA PlaceIs ==
    ASSUME NEW n \in Nat, NEW S, S \subseteq 0 .. n
    PROVE  /\ Cardinality(S) \in Nat
           /\ \A s \in S : Place(S, s) \in 1 .. Cardinality(S)
           /\ \A s \in S, t \in S : s < t => Place(S, s) < Place(S, t)
<1>1. IsFiniteSet(S) /\ S \subseteq Nat
  <2>1. S \in SUBSET Nat /\ \A k \in S : k <= n
    OBVIOUS
  <2>2. IsFiniteSet(S)
    BY <2>1, FS_BoundedSetOfNaturals
  <2> QED
    BY <2>1, <2>2
<1>2. Cardinality(S) \in Nat
  BY <1>1, FS_CardinalityType
<1>3. \A s : IsFiniteSet({k \in S : k <= s}) /\ Cardinality({k \in S : k <= s}) <= Cardinality(S)
             /\ Cardinality({k \in S : k <= s}) \in Nat
  <2> TAKE s
  <2>1. {k \in S : k <= s} \in SUBSET S
    OBVIOUS
  <2>2. IsFiniteSet({k \in S : k <= s}) /\ Cardinality({k \in S : k <= s}) <= Cardinality(S)
    BY <1>1, <2>1, FS_Subset
  <2> QED
    BY <2>2, FS_CardinalityType
<1>4. ASSUME NEW s \in S PROVE Place(S, s) \in 1 .. Cardinality(S)
  <2> DEFINE A == {k \in S : k <= s}
  <2>1. s \in A /\ IsFiniteSet(A) /\ Cardinality(A) <= Cardinality(S) /\ Cardinality(A) \in Nat
    BY <1>1, <1>3
  <2> HIDE DEF A
  <2>2. Cardinality(A) # 0
    BY <2>1, FS_EmptySet
  <2>3. Cardinality(A) \in 1 .. Cardinality(S)
    BY <1>2, <2>1, <2>2
  <2> QED
    BY <2>3 DEF Place, A
<1>5. ASSUME NEW s \in S, NEW t \in S, s < t PROVE Place(S, s) < Place(S, t)
  <2> DEFINE A == {k \in S : k <= s}
             B == {k \in S : k <= t}
  <2>1. A \in SUBSET B /\ t \in B /\ t \notin A
    <3>1. \A k \in S : k \in Nat
      BY <1>1
    <3>2. s \in Nat /\ t \in Nat
      BY <1>1
    <3>3. A \in SUBSET B
      <4>1. \A k \in S : k <= s => k <= t
        BY <1>5, <3>1, <3>2
      <4> QED
        BY <4>1
    <3>4. t \in B
      BY <3>2
    <3>5. t \notin A
      BY <1>5, <3>2
    <3> QED
      BY <3>3, <3>4, <3>5
  <2>2. IsFiniteSet(B) /\ Cardinality(A) \in Nat /\ Cardinality(B) \in Nat
    BY <1>3
  <2> HIDE DEF A, B
  <2>3. Cardinality(A) <= Cardinality(B) /\ (Cardinality(B) = Cardinality(A) => B = A)
    BY <2>1, <2>2, FS_Subset
  <2>4. Cardinality(A) < Cardinality(B)
    BY <2>1, <2>2, <2>3
  <2> QED
    BY <2>4 DEF Place, A, B
<1> QED
  BY <1>2, <1>4, <1>5

\* Every place is taken.
LEMMA PlaceTaken ==
    ASSUME NEW n \in Nat, NEW S, S \subseteq 0 .. n, NEW i \in 1 .. Cardinality(S)
    PROVE  \E s \in S : Place(S, s) = i
<1> DEFINE card == Cardinality(S)
           A == {s \in S : i <= Place(S, s)}
           m == Min(A)
           L == {k \in S : k < m}
<1>1. IsFiniteSet(S) /\ S \subseteq Nat /\ \A k \in S : k <= n
  <2>1. S \in SUBSET Nat /\ \A k \in S : k <= n
    OBVIOUS
  <2>2. IsFiniteSet(S)
    BY <2>1, FS_BoundedSetOfNaturals
  <2> QED
    BY <2>1, <2>2
<1>2. card \in Nat /\ i \in Nat /\ 1 <= i /\ i <= card
  <2>1. card \in Nat
    BY PlaceIs
  <2>2. i \in 1 .. card
    OBVIOUS
  <2> HIDE DEF card
  <2> QED
    BY <2>1, <2>2
<1>3. S # {}
  BY <1>2, FS_EmptySet
<1>4. Max(S) \in S /\ \A k \in S : k <= Max(S)
  BY <1>1, <1>3, MaxIsGreatest
<1>5. Max(S) \in A
  <2>1. {k \in S : k <= Max(S)} = S
    BY <1>4
  <2> QED
    BY <1>2, <1>4, <2>1 DEF Place
<1>6. m \in A /\ \A s \in A : m <= s
  <2>1. A \subseteq Nat
    BY <1>1
  <2> HIDE DEF A
  <2> QED
    BY <1>5, <2>1, MinIsLeast
<1>7. m \in S /\ m \in Nat /\ i <= Place(S, m) /\ Place(S, m) \in Nat
  <2>1. m \in S /\ i <= Place(S, m)
    BY <1>6
  <2> HIDE DEF m
  <2>2. Place(S, m) \in 1 .. card
    BY <2>1, PlaceIs
  <2>3. Place(S, m) \in Nat
    BY <2>2
  <2> QED
    BY <1>1, <2>1, <2>3
<1>8. \A s \in S : s < m => ~(i <= Place(S, s))
  <2> SUFFICES ASSUME NEW s \in S, s < m, i <= Place(S, s) PROVE FALSE
    OBVIOUS
  <2>1. s \in A
    OBVIOUS
  <2>2. m <= s /\ s \in Nat
    BY <1>1, <1>6, <2>1
  <2> HIDE DEF m
  <2> QED
    BY <1>7, <2>2
<1> HIDE DEF m, A
<1>9. Place(S, m) <= i
  <2>1. {k \in S : k <= m} = L \cup {m}
    <3>1. \A k \in S : k <= m <=> k < m \/ k = m
      <4>1. \A k \in S : k \in Nat
        BY <1>1
      <4> QED
        BY <1>7, <4>1
    <3>2. \A k : k \in {s \in S : s <= m} <=> k \in L \cup {m}
      BY <1>7, <3>1
    <3> HIDE DEF L
    <3> QED
      BY <3>2
  <2>2. L \in SUBSET S /\ m \notin L
    BY <1>7
  <2>3. IsFiniteSet(L)
    BY <1>1, <2>2, FS_Subset
  <2>4. Place(S, m) = Cardinality(L) + 1
    BY <2>1, <2>2, <2>3, FS_AddElement DEF Place
  <2>5. CASE L = {}
    <3>1. Cardinality(L) = 0
      BY <2>5, FS_EmptySet
    <3> QED
      BY <1>2, <2>4, <3>1
  <2>6. CASE L # {}
    <3>1. L \subseteq Nat /\ \A k \in L : k <= n
      BY <1>1, <2>2
    <3>2. Max(L) \in L /\ \A k \in L : k <= Max(L)
      <4> HIDE DEF L
      <4> QED
        BY <2>6, <3>1, MaxIsGreatest
    <3>3. Max(L) \in S /\ Max(L) < m /\ Max(L) \in Nat
      BY <3>1, <3>2
    <3>4. {k \in S : k <= Max(L)} = L
      <4>1. \A k \in S : k <= Max(L) => k \in L
        <5> TAKE k \in S
        <5>1. k \in Nat
          BY <1>1
        <5> QED
          BY <1>7, <3>3, <5>1
      <4> QED
        BY <3>2, <4>1
    <3>5. Place(S, Max(L)) = Cardinality(L)
      BY <3>4 DEF Place
    <3>6. ~(i <= Cardinality(L))
      BY <1>8, <3>3, <3>5
    <3>7. Cardinality(L) \in Nat
      BY <2>3, FS_CardinalityType
    <3> HIDE DEF L
    <3> QED
      BY <1>2, <2>4, <3>6, <3>7
  <2> QED
    BY <2>5, <2>6
<1>10. Place(S, m) = i
  BY <1>2, <1>7, <1>9
<1> QED
  BY <1>7, <1>10

\* The seconds in order, each at its place.
LEMMA InOrderIs ==
    ASSUME NEW n \in Nat, NEW S, S \subseteq 0 .. n
    PROVE  /\ DOMAIN InOrder(S) = 1 .. Cardinality(S) /\ Len(InOrder(S)) = Cardinality(S)
           /\ \A i \in 1 .. Cardinality(S) : InOrder(S)[i] \in S /\ Place(S, InOrder(S)[i]) = i
           /\ \A s \in S : InOrder(S)[Place(S, s)] = s
<1>1. InOrder(S) = [i \in 1 .. Cardinality(S) |-> CHOOSE s \in S : Place(S, s) = i]
  BY DEF InOrder, Place
<1>2. Cardinality(S) \in Nat /\ (\A s \in S : Place(S, s) \in 1 .. Cardinality(S))
  BY PlaceIs
<1>3. ASSUME NEW i \in 1 .. Cardinality(S) PROVE InOrder(S)[i] \in S /\ Place(S, InOrder(S)[i]) = i
  <2>1. InOrder(S)[i] = CHOOSE s \in S : Place(S, s) = i
    BY <1>1
  <2>2. \E s \in S : Place(S, s) = i
    BY PlaceTaken
  <2> QED
    BY <2>1, <2>2
<1>4. ASSUME NEW s \in S PROVE InOrder(S)[Place(S, s)] = s
  <2> DEFINE t == InOrder(S)[Place(S, s)]
  <2>1. t \in S /\ Place(S, t) = Place(S, s)
    BY <1>2, <1>3
  <2> HIDE DEF t
  <2>2. s \in Nat /\ t \in Nat
    BY <2>1
  <2>3. ~(s < t) /\ ~(t < s)
    <3>1. Place(S, s) \in Nat
      BY <1>2
    <3>2. s < t => Place(S, s) < Place(S, t)
      BY <2>1, PlaceIs
    <3>3. t < s => Place(S, t) < Place(S, s)
      BY <2>1, PlaceIs
    <3> QED
      BY <2>1, <3>1, <3>2, <3>3
  <2>4. t = s
    BY <2>2, <2>3
  <2> QED
    BY <2>4 DEF t
<1>5. DOMAIN InOrder(S) = 1 .. Cardinality(S)
  BY <1>1
<1>6. Len(InOrder(S)) = Cardinality(S)
  BY <1>1, <1>2
<1> QED
  BY <1>3, <1>4, <1>5, <1>6

\* Bars of one price each.
LEMMA CloseBarsAre ==
    ASSUME IsBars(bars)
    PROVE  /\ IsBars(CloseBars) /\ DOMAIN CloseBars = DOMAIN bars /\ DOMAIN Closes = DOMAIN bars
           /\ \A s \in DOMAIN bars : Closes[s] \in Nat /\ CloseBars[s].close = Closes[s]
           /\ \A s \in DOMAIN bars, dir \in {1, -1} :
                 Best(dir, CloseBars[s]) = dir * Closes[s] /\ Worst(dir, CloseBars[s]) = dir * Closes[s]
<1>1. DOMAIN CloseBars = DOMAIN bars /\ DOMAIN Closes = DOMAIN bars
  BY DEF CloseBars, Closes
<1>2. \A s \in DOMAIN bars : Closes[s] \in Nat
  BY DEF IsBars, Closes
<1>3. \A s \in DOMAIN bars :
         CloseBars[s].high = Closes[s] /\ CloseBars[s].low = Closes[s] /\ CloseBars[s].close = Closes[s]
  BY DEF CloseBars
<1>4. \A s \in DOMAIN bars : CloseBars[s] \in [high : Nat, low : Nat, close : Nat]
  BY <1>2 DEF CloseBars
<1>5. IsBars(CloseBars)
  <2>1. CloseBars \in [DOMAIN bars -> [high : Nat, low : Nat, close : Nat]]
    BY <1>4 DEF CloseBars
  <2> QED
    BY <1>1, <2>1 DEF IsBars
<1>6. ASSUME NEW s \in DOMAIN bars, NEW dir \in {1, -1}
      PROVE  Best(dir, CloseBars[s]) = dir * Closes[s] /\ Worst(dir, CloseBars[s]) = dir * Closes[s]
  <2>1. Closes[s] \in Nat /\ CloseBars[s].high = Closes[s] /\ CloseBars[s].low = Closes[s]
    BY <1>2, <1>3
  <2>2. CASE dir = 1
    BY <2>1, <2>2 DEF Best, Worst, Buy
  <2>3. CASE dir = -1
    BY <2>1, <2>3 DEF Best, Worst, Buy
  <2> QED
    BY <2>2, <2>3
<1> QED
  BY <1>1, <1>2, <1>3, <1>5, <1>6

\* A position that some bar takes the profit of, and none the loss.
LEMMA PaidExit ==
    ASSUME NEW bs, NEW e, NEW dir, NEW r, NEW to,
           ProfitBars(bs, e, dir, r, to) # {}, StopBars(bs, e, dir, r, to) = {}
    PROVE  Exit(bs, <<>>, e, dir, r, to).reason = "tp"
<1>1. Exit(bs, <<>>, e, dir, r, to) = PriceExit(bs, e, dir, r, to)
  BY ExitWithoutScores
<1> QED
  BY <1>1 DEF PriceExit, StopComesFirst

\* The closes of the bars tell what a position with a target and a stop would gain.
LEMMA LabelPays ==
    ASSUME WalkInv, NEW e \in DOMAIN bars, NEW dir \in {1, -1}, NEW stop \in Nat, NEW hold \in Nat,
           NEW s \in DOMAIN bars, e < s, s <= e + hold, dir * Closes[s] >= dir * Closes[e] + x.tp,
           \A k \in DOMAIN bars :
              e < k /\ k <= e + hold => ~(dir * Closes[k] <= dir * Closes[e] - stop)
    PROVE  ExitOf(e, dir, stop, hold).reason = "tp"
<1> DEFINE q == [x EXCEPT !.sl = stop, !.hold = hold]
<1>1. IsBars(bars) /\ x \in ExitRules
  BY WalkIsTyped DEF WalkInv, Inv, TypeOK
<1>2. q.sl = stop /\ q.hold = hold /\ q.tp = x.tp /\ x.tp \in Nat
  BY <1>1, TrailingAssumption
<1>3. e \in Nat
  BY <1>1 DEF IsBars
<1> HIDE DEF q
<1>4. ScanEnd(e, q, e + hold) = e + hold
  BY <1>2, <1>3 DEF ScanEnd
<1>5. /\ DOMAIN CloseBars = DOMAIN bars /\ CloseBars[e].close = Closes[e]
      /\ \A k \in DOMAIN bars :
            Best(dir, CloseBars[k]) = dir * Closes[k] /\ Worst(dir, CloseBars[k]) = dir * Closes[k]
  BY <1>1, CloseBarsAre
<1>6. ProfitBars(CloseBars, e, dir, q, e + hold) # {}
  <2>1. s \in Window(CloseBars, e, e + hold)
    BY <1>5 DEF Window
  <2>2. s \in ProfitBars(CloseBars, e, dir, q, e + hold)
    BY <1>2, <1>4, <1>5, <2>1 DEF ProfitBars, Signed
  <2> QED
    BY <2>2
<1>7. StopBars(CloseBars, e, dir, q, e + hold) = {}
  <2> SUFFICES ASSUME NEW k \in StopBars(CloseBars, e, dir, q, e + hold) PROVE FALSE
    OBVIOUS
  <2>1. k \in DOMAIN bars /\ e < k /\ k <= e + hold
    BY <1>4, <1>5 DEF StopBars, Window
  <2>2. Worst(dir, CloseBars[k]) <= dir * Closes[e] - stop
    BY <1>2, <1>5 DEF StopBars, Signed
  <2> QED
    BY <1>5, <2>1, <2>2
<1>8. ExitOf(e, dir, stop, hold) = Exit(CloseBars, <<>>, e, dir, q, e + hold)
  BY DEF ExitOf, q
<1> QED
  BY <1>6, <1>7, <1>8, PaidExit

\* There is a best price among those within a horizon.
LEMMA FarthestIs ==
    ASSUME IsBars(bars), NEW e \in DOMAIN bars, NEW dir \in {1, -1}, NEW horizon \in Nat
    PROVE  \E s \in Future(Closes, e, horizon) :
              \A k \in Future(Closes, e, horizon) : dir * Closes[k] <= dir * Closes[s]
<1> DEFINE F == Future(Closes, e, horizon)
           P == PricesUpTo(CloseBars, e, dir, e + horizon)
<1>1. /\ IsBars(CloseBars) /\ DOMAIN CloseBars = DOMAIN bars /\ DOMAIN Closes = DOMAIN bars
      /\ CloseBars[e].close = Closes[e]
  BY CloseBarsAre
<1>2. \A s \in DOMAIN bars : Best(dir, CloseBars[s]) = dir * Closes[s]
  BY CloseBarsAre
<1>3. e \in Nat /\ e + horizon \in Nat /\ DOMAIN bars \subseteq Nat
  BY DEF IsBars
<1>4. \A s : s \in F <=> s \in DOMAIN bars /\ e <= s /\ s <= e + horizon
  BY <1>1 DEF Future
<1>5. \A s : s \in Window(CloseBars, e, e + horizon) <=> s \in DOMAIN bars /\ e < s /\ s <= e + horizon
  BY <1>1 DEF Window
<1>6. PICK b \in P : \A p \in P : p <= b
  BY <1>1, <1>3, BestExists
<1>7. \A s \in F : dir * Closes[s] \in P
  <2> TAKE s \in F
  <2>1. CASE s = e
    BY <1>1, <2>1 DEF PricesUpTo, Signed
  <2>2. CASE s # e
    <3>1. s \in DOMAIN bars /\ s \in Nat /\ e <= s /\ s <= e + horizon
      BY <1>3, <1>4
    <3>2. s \in Window(CloseBars, e, e + horizon)
      BY <1>3, <1>5, <2>2, <3>1
    <3>3. Best(dir, CloseBars[s]) \in P
      BY <3>2 DEF PricesUpTo
    <3> QED
      BY <1>2, <3>1, <3>3
  <2> QED
    BY <2>1, <2>2
<1>8. \E s \in F : b = dir * Closes[s]
  <2>1. CASE b = Signed(dir, CloseBars[e].close)
    <3>1. e \in F
      BY <1>3, <1>4
    <3> QED
      BY <1>1, <2>1, <3>1 DEF Signed
  <2>2. ASSUME NEW k \in Window(CloseBars, e, e + horizon), b = Best(dir, CloseBars[k])
        PROVE  \E s \in F : b = dir * Closes[s]
    <3>1. k \in DOMAIN bars /\ e < k /\ k <= e + horizon
      BY <1>5
    <3>2. k \in F
      BY <1>3, <1>4, <3>1
    <3> QED
      BY <1>2, <2>2, <3>1, <3>2
  <2> QED
    BY <1>6, <2>1, <2>2 DEF PricesUpTo
<1> HIDE DEF F, P
<1>9. PICK s \in F : b = dir * Closes[s]
  BY <1>8
<1>10. \A k \in F : dir * Closes[k] <= dir * Closes[s]
  BY <1>6, <1>7, <1>9
<1> QED
  BY <1>10 DEF F

\* By the rows after a signal (decoder_PFD, decoder_LTFI).
LEMMA HitPays ==
    ASSUME WalkInv, NEW dir \in {1, -1}, NEW horizon \in Nat \ {0}, NEW i \in DOMAIN RowPrices,
           HitColumn(RowPrices, dir, horizon, x.tp, x.sl)[i]
    PROVE  ExitOf(RowSecs[i], dir, x.sl, RowSecs[i + horizon] - RowSecs[i]).reason = "tp"
<1> DEFINE D == DOMAIN bars
           card == Cardinality(D)
           e == RowSecs[i]
           last == RowSecs[i + horizon]
<1>1. IsBars(bars) /\ LastSec \in Nat /\ D \subseteq 0 .. LastSec /\ x.sl \in Nat
  BY WalkIsTyped
<1>2. DOMAIN RowSecs = 1 .. card
  BY <1>1, InOrderIs DEF RowSecs
<1>3. Len(RowPrices) = card /\ DOMAIN RowPrices = 1 .. card /\ card \in Nat
  <2>1. card \in Nat
    BY <1>1, PlaceIs
  <2>2. RowPrices = [k \in 1 .. card |-> Closes[RowSecs[k]]]
    BY <1>2 DEF RowPrices
  <2> HIDE DEF card
  <2> QED
    BY <2>1, <2>2
<1>4. \A k \in 1 .. card : RowPrices[k] = Closes[RowSecs[k]]
  BY <1>2 DEF RowPrices
<1>5. \A k \in 1 .. card : RowSecs[k] \in D /\ Place(D, RowSecs[k]) = k
  BY <1>1, InOrderIs DEF RowSecs
<1>6. \A s \in D : RowSecs[Place(D, s)] = s
  BY <1>1, InOrderIs DEF RowSecs
<1>7. \A s \in D : Place(D, s) \in 1 .. card
  BY <1>1, PlaceIs
<1>8. \A s \in D, t \in D : s < t => Place(D, s) < Place(D, t)
  BY <1>1, PlaceIs
<1>9. D \subseteq Nat
  BY <1>1
<1> HIDE DEF card, D
<1>10. i + horizon <= card /\ Hit(RowPrices, dir, i, horizon, x.tp, x.sl)
  BY <1>3 DEF HitColumn
<1>11. \A k \in i .. i + horizon : k \in 1 .. card
  BY <1>3, <1>10
<1>12. i \in 1 .. card /\ i + horizon \in 1 .. card /\ i \in Nat
  BY <1>3, <1>11
<1>13. e \in D /\ last \in D /\ e \in Nat /\ last \in Nat /\ Place(D, e) = i /\ Place(D, last) = i + horizon
  BY <1>5, <1>9, <1>12
<1> HIDE DEF e, last
<1>14. ASSUME NEW s \in D PROVE e < s /\ s <= last <=> Place(D, s) \in i + 1 .. i + horizon
  <2>1. s \in Nat /\ Place(D, s) \in Nat
    BY <1>7, <1>9
  <2>2. /\ e < s => i < Place(D, s)
        /\ s < e => Place(D, s) < i
        /\ s = e => Place(D, s) = i
    BY <1>8, <1>13
  <2>3. /\ last < s => i + horizon < Place(D, s)
        /\ s < last => Place(D, s) < i + horizon
        /\ s = last => Place(D, s) = i + horizon
    BY <1>8, <1>13
  <2> QED
    BY <1>12, <1>13, <2>1, <2>2, <2>3
<1>15. last - e \in Nat /\ e + (last - e) = last
  <2>1. Place(D, last) \in i + 1 .. i + horizon
    BY <1>12, <1>13
  <2>2. e < last
    BY <1>13, <1>14, <2>1
  <2> QED
    BY <1>13, <2>2
<1>16. \A k \in i + 1 .. i + horizon : k \in 1 .. card
  BY <1>11, <1>12
<1>17. RowPrices[i] = Closes[e]
  BY <1>4, <1>12 DEF e
<1>18. PICK k \in i + 1 .. i + horizon : dir * RowPrices[k] >= dir * Closes[e] + x.tp
  BY <1>10, <1>17 DEF Hit
<1>19. /\ RowSecs[k] \in D /\ e < RowSecs[k] /\ RowSecs[k] <= last
       /\ dir * Closes[RowSecs[k]] >= dir * Closes[e] + x.tp
  <2>1. RowSecs[k] \in D /\ Place(D, RowSecs[k]) = k /\ RowPrices[k] = Closes[RowSecs[k]]
    BY <1>4, <1>5, <1>16
  <2> QED
    BY <1>14, <1>18, <2>1
<1>20. ASSUME NEW s \in D, e < s, s <= last PROVE ~(dir * Closes[s] <= dir * Closes[e] - x.sl)
  <2>1. Place(D, s) \in i + 1 .. i + horizon
    BY <1>14, <1>20
  <2>2. RowPrices[Place(D, s)] = Closes[s]
    BY <1>4, <1>6, <1>16, <2>1
  <2>3. dir * Closes[s] > dir * Closes[e] - x.sl
    BY <1>10, <1>17, <2>1, <2>2 DEF Hit
  <2>4. dir * Closes[s] \in Int /\ dir * Closes[e] - x.sl \in Int
    <3>1. Closes[s] \in Nat /\ Closes[e] \in Nat
      BY <1>1, <1>13, CloseBarsAre DEF D
    <3> QED
      BY <1>1, <3>1
  <2> QED
    BY <2>3, <2>4
<1>21. PICK h \in Nat : h = last - e
  BY <1>15
<1>22. PICK s \in D : e < s /\ s <= e + h /\ dir * Closes[s] >= dir * Closes[e] + x.tp
  BY <1>15, <1>19, <1>21
<1>23. \A l \in D : e < l /\ l <= e + h => ~(dir * Closes[l] <= dir * Closes[e] - x.sl)
  BY <1>15, <1>20, <1>21
<1>24. ExitOf(e, dir, x.sl, h).reason = "tp"
  BY <1>1, <1>13, <1>22, <1>23, LabelPays DEF D
<1> QED
  BY <1>21, <1>24 DEF e, last

\* By the time after a signal (decoder_OBI, decoder_full).
LEMMA VerdictPays ==
    ASSUME WalkInv, x.tp > 0, NEW dir \in {1, -1}, NEW horizon \in Nat, NEW e \in DOMAIN bars,
           Verdict(Closes, dir, e, horizon, x.tp, x.sl) = "good"
    PROVE  /\ ExitOf(e, dir, x.sl + 1, horizon).reason = "tp"
           /\ Success(Closes, dir, e, horizon, x.tp)
<1> DEFINE F == Future(Closes, e, horizon)
           Move(s) == dir * (Closes[s] - Closes[e])
           moves == {Move(s) : s \in F}
<1>1. IsBars(bars) /\ x.sl \in Nat /\ x.tp \in Nat /\ DOMAIN bars \subseteq Nat /\ e \in Nat
  BY WalkIsTyped DEF IsBars
<1>2. DOMAIN Closes = DOMAIN bars /\ \A s \in DOMAIN bars : Closes[s] \in Nat
  BY <1>1, CloseBarsAre
<1>3. \A s : s \in F <=> s \in DOMAIN bars /\ e <= s /\ s <= e + horizon
  BY <1>2 DEF Future
<1>4. \A s \in F : Move(s) = dir * Closes[s] - dir * Closes[e] /\ Move(s) \in Int
  <2> TAKE s \in F
  <2>1. Closes[s] \in Nat /\ Closes[e] \in Nat
    BY <1>2, <1>3
  <2> QED
    BY <2>1
<1>5. ~(Min(moves) < -x.sl) /\ Max(moves) >= x.tp
  BY DEF Verdict
<1>6. PICK hi \in F : \A k \in F : dir * Closes[k] <= dir * Closes[hi]
  BY <1>1, FarthestIs
<1>7. PICK lo \in F : \A k \in F : (-dir) * Closes[k] <= (-dir) * Closes[lo]
  <2>1. -dir \in {1, -1}
    OBVIOUS
  <2> QED
    BY <1>1, <2>1, FarthestIs
<1>8. \A k \in F : Move(k) <= Move(hi) /\ Move(lo) <= Move(k)
  <2> TAKE k \in F
  <2>1. Closes[k] \in Nat /\ Closes[lo] \in Nat /\ Closes[hi] \in Nat /\ Closes[e] \in Nat
    BY <1>2, <1>3
  <2>2. dir * Closes[k] <= dir * Closes[hi] /\ (-dir) * Closes[k] <= (-dir) * Closes[lo]
    BY <1>6, <1>7
  <2>3. CASE dir = 1
    BY <2>1, <2>2, <2>3
  <2>4. CASE dir = -1
    BY <2>1, <2>2, <2>4
  <2> QED
    BY <2>3, <2>4
<1>9. moves \subseteq Int /\ Move(hi) \in moves /\ Move(lo) \in moves
  BY <1>4
<1>10. \A m \in moves : m <= Move(hi) /\ Move(lo) <= m
  BY <1>8
<1>11. Max(moves) = Move(hi) /\ Min(moves) = Move(lo)
  <2>1. PICK a \in moves : a = Move(hi)
    BY <1>9
  <2>2. PICK b \in moves : b = Move(lo)
    BY <1>9
  <2>3. \A m \in moves : m <= a /\ b <= m
    BY <1>10, <2>1, <2>2
  <2> HIDE DEF moves, Move
  <2>4. Max(moves) = a
    BY <1>9, <2>3, GreatestIs
  <2>5. Min(moves) = b
    BY <1>9, <2>3, LeastIs
  <2> QED
    BY <2>1, <2>2, <2>4, <2>5
<1>12. Move(hi) >= x.tp /\ ~(Move(lo) < -x.sl)
  BY <1>5, <1>11
<1>13. Success(Closes, dir, e, horizon, x.tp)
  BY <1>12 DEF Success
<1>14. hi \in DOMAIN bars /\ e < hi /\ hi <= e + horizon
  <2>1. hi \in DOMAIN bars /\ e <= hi /\ hi <= e + horizon /\ hi \in Nat
    BY <1>1, <1>3
  <2>2. hi # e
    <3>1. ASSUME hi = e PROVE Move(hi) = 0
      <4>1. Closes[e] \in Nat
        BY <1>2
      <4> QED
        BY <3>1, <4>1
    <3> HIDE DEF Move
    <3> QED
      BY <1>1, <1>12, <3>1
  <2> QED
    BY <1>1, <2>1, <2>2
<1>15. dir * Closes[hi] >= dir * Closes[e] + x.tp
  <2>1. Move(hi) = dir * Closes[hi] - dir * Closes[e]
    BY <1>4
  <2>2. dir * Closes[hi] \in Int /\ dir * Closes[e] \in Int
    <3>1. Closes[hi] \in Nat /\ Closes[e] \in Nat
      BY <1>2, <1>14
    <3> QED
      BY <3>1
  <2> HIDE DEF Move
  <2> QED
    BY <1>1, <1>12, <2>1, <2>2
<1>16. ASSUME NEW k \in DOMAIN bars, e < k, k <= e + horizon
       PROVE  ~(dir * Closes[k] <= dir * Closes[e] - (x.sl + 1))
  <2>1. k \in F
    BY <1>1, <1>3, <1>16
  <2>2. Move(lo) <= Move(k) /\ Move(k) = dir * Closes[k] - dir * Closes[e]
        /\ Move(k) \in Int /\ Move(lo) \in Int
    BY <1>4, <1>8, <2>1
  <2>3. dir * Closes[k] \in Int /\ dir * Closes[e] \in Int
    <3>1. Closes[k] \in Nat /\ Closes[e] \in Nat
      BY <1>2
    <3> QED
      BY <3>1
  <2> HIDE DEF Move
  <2> QED
    BY <1>1, <1>12, <2>2, <2>3
<1>17. PICK stop \in Nat : stop = x.sl + 1
  BY <1>1
<1>18. ExitOf(e, dir, stop, horizon).reason = "tp"
  <2>1. \A k \in DOMAIN bars :
           e < k /\ k <= e + horizon => ~(dir * Closes[k] <= dir * Closes[e] - stop)
    BY <1>16, <1>17
  <2> QED
    BY <1>14, <1>15, <2>1, LabelPays
<1> QED
  BY <1>13, <1>17, <1>18

\* A signal that a label calls a success would have made its position a profit, whatever
\* the prices, the targets, the stops and the horizon (decoder_PFD.py:95-108,
\* decoder_LTFI.py:144-184, decoder_OBI.py:110-155): no label finds a target behind a
\* stop or beyond the data.
THEOREM LabelsAreProfits ==
    ASSUME \A r \in ExitRules : r.tp > 0
    PROVE  Spec => []HitIsProfit
<1>1. WalkInv => HitIsProfit
  <2> SUFFICES ASSUME WalkInv, NEW dir \in {Buy, Sell}, NEW horizon \in 1 .. x.hold
               PROVE  /\ LET hits == HitColumn(RowPrices, dir, horizon, x.tp, x.sl) IN
                         \A i \in DOMAIN hits :
                            hits[i] => ExitOf(RowSecs[i], dir, x.sl,
                                              RowSecs[i + horizon] - RowSecs[i]).reason = "tp"
                      /\ \A e \in DOMAIN bars :
                            Verdict(Closes, dir, e, horizon, x.tp, x.sl) = "good" =>
                               /\ ExitOf(e, dir, x.sl + 1, horizon).reason = "tp"
                               /\ Success(Closes, dir, e, horizon, x.tp)
    BY DEF HitIsProfit
  <2>1. dir \in {1, -1} /\ horizon \in Nat \ {0}
    <3>1. x.hold \in Nat
      BY WalkIsTyped
    <3> QED
      BY <3>1 DEF Buy, Sell
  <2>2. x.tp > 0
    <3>1. x \in ExitRules
      BY DEF WalkInv, Inv, TypeOK
    <3> QED
      BY <3>1
  <2>3. DOMAIN HitColumn(RowPrices, dir, horizon, x.tp, x.sl) = DOMAIN RowPrices
    BY DEF HitColumn
  <2>4. ASSUME NEW i \in DOMAIN RowPrices, HitColumn(RowPrices, dir, horizon, x.tp, x.sl)[i]
        PROVE  ExitOf(RowSecs[i], dir, x.sl, RowSecs[i + horizon] - RowSecs[i]).reason = "tp"
    BY <2>1, <2>4, HitPays
  <2>5. ASSUME NEW e \in DOMAIN bars, Verdict(Closes, dir, e, horizon, x.tp, x.sl) = "good"
        PROVE  /\ ExitOf(e, dir, x.sl + 1, horizon).reason = "tp"
               /\ Success(Closes, dir, e, horizon, x.tp)
    BY <2>1, <2>2, <2>5, VerdictPays
  <2> QED
    BY <2>3, <2>4, <2>5
<1> QED
  BY WalkIsOfHistory, <1>1, PTL

-----------------------------------------------------------------------------
(* The division into folds (Evaluation).                                   *)

\* The settings the programs can be given; the numbers of days of None are 0.
IsSettings(c) ==
    /\ c.folds \in Nat \ {0}
    /\ c.rolling \in BOOLEAN
    /\ c.trainDays \in Nat /\ c.testDays \in Nat

LEMMA AtLeastOneIs ==
    ASSUME NEW n \in Int
    PROVE  AtLeastOne(n) \in Nat \ {0}
BY DEF AtLeastOne

LEMMA PartsHaveDays ==
    ASSUME NEW c, IsSettings(c), NEW days \in Nat
    PROVE  TrainDays(c, days) \in Nat \ {0} /\ TestDays(c, days) \in Nat \ {0}
<1>1. AtLeastOne(c.folds) + 1 \in Nat \ {0}
  BY AtLeastOneIs DEF IsSettings
<1>2. days \div (AtLeastOne(c.folds) + 1) \in Int
  <2> DEFINE k == AtLeastOne(c.folds) + 1
  <2> HIDE DEF k
  <2>1. k \in Nat \ {0}
    BY <1>1 DEF k
  <2>2. days \div k \in Int
    BY <2>1
  <2> QED
    BY <2>2 DEF k
<1>3. Block(c, days) \in Nat \ {0}
  BY <1>2, AtLeastOneIs DEF Block
<1> QED
  BY <1>3 DEF TrainDays, TestDays, IsSettings

LEMMA StepsAddUp ==
    ASSUME NEW f \in Nat \ {0}, NEW g \in Nat \ {0}, f < g, NEW t \in Nat
    PROVE  /\ (f - 1) * t \in Nat
           /\ (f - 1) * t + t <= (g - 1) * t
<1> DEFINE k == g - f - 1
<1>1. k \in Nat /\ g - 1 = (f - 1) + 1 + k
  OBVIOUS
<1>2. k * t \in Nat /\ (f - 1) * t \in Nat
  BY <1>1
<1>3. ((f - 1) + 1 + k) * t = (f - 1) * t + t + k * t
  BY <1>1
<1> QED
  BY <1>1, <1>2, <1>3

\* A test begins on a day after the training, and the next one after it has ended.
LEMMA TestsInTurn ==
    ASSUME NEW c, IsSettings(c), NEW days \in Nat, NEW f \in Nat \ {0}
    PROVE  /\ TestStart(c, days, f) \in Nat
           /\ TestStart(c, days, f) >= TrainDays(c, days)
           /\ \A g \in Nat \ {0} :
                 f < g => TestStart(c, days, f) + TestDays(c, days) <= TestStart(c, days, g)
<1> DEFINE train == TrainDays(c, days)
           test == TestDays(c, days)
<1>1. train \in Nat \ {0} /\ test \in Nat \ {0}
  BY PartsHaveDays
<1> HIDE DEF train, test
<1>2. (f - 1) * test \in Nat
  BY <1>1
<1>3. train + (f - 1) * test \in Nat /\ train + (f - 1) * test >= train
  BY <1>1, <1>2
<1>4. \A g \in Nat \ {0} : f < g => train + (f - 1) * test + test <= train + (g - 1) * test
  <2> TAKE g \in Nat \ {0}
  <2> HAVE f < g
  <2>1. (f - 1) * test + test <= (g - 1) * test
    BY <1>1, StepsAddUp
  <2>2. (g - 1) * test \in Int
    BY <1>1
  <2> QED
    BY <1>1, <1>2, <2>1, <2>2
<1> QED
  BY <1>3, <1>4 DEF TestStart, train, test

LEMMA DaysInSeconds ==
    ASSUME NEW a \in Nat, NEW b \in Nat
    PROVE  /\ a * DaySecs \in Nat
           /\ a <= b => a * DaySecs <= b * DaySecs
           /\ a < b => a * DaySecs <= b * DaySecs - 1
<1>1. DaySecs \in Nat \ {0}
  BY EvaluationAssumption
<1>2. a * DaySecs \in Nat
  BY <1>1
<1>3. ASSUME a <= b  PROVE a * DaySecs <= b * DaySecs
  <2>1. (b - a) * DaySecs \in Nat
    BY <1>1, <1>3
  <2>2. (a + (b - a)) * DaySecs = a * DaySecs + (b - a) * DaySecs
    BY <1>1
  <2> QED
    BY <1>2, <2>1, <2>2
<1>4. ASSUME a < b  PROVE a * DaySecs <= b * DaySecs - 1
  <2>1. (b - a - 1) * DaySecs \in Nat
    BY <1>1, <1>4
  <2>2. (a + 1 + (b - a - 1)) * DaySecs = a * DaySecs + DaySecs + (b - a - 1) * DaySecs
    BY <1>1
  <2>3. a + 1 + (b - a - 1) = b
    OBVIOUS
  <2> QED
    BY <1>1, <1>2, <2>1, <2>2, <2>3
<1> QED
  BY <1>2, <1>3, <1>4

\* A part of the data from the start of one day to the end of the day before another.
IsParts(s, first, train, test, testEnd) ==
    /\ s.trainFrom = (first + train) * DaySecs /\ s.trainTo = (first + test) * DaySecs - 1
    /\ s.testFrom = (first + test) * DaySecs /\ s.testTo = (first + testEnd) * DaySecs - 1

\* The days, counted from the first of the data, between which the parts of a fold lie.
LEMMA PartsOfFold ==
    ASSUME NEW c, IsSettings(c), NEW days \in Nat, NEW first \in Nat, NEW f \in Folds(c, days)
    PROVE  \E train \in Nat, test \in Nat, testEnd \in Nat :
              /\ train < test /\ test < testEnd /\ testEnd <= days
              /\ test = TestStart(c, days, f)
              /\ testEnd <= test + TestDays(c, days)
              /\ IsParts(Split(c, first, days, f), first, train, test, testEnd)
<1> DEFINE trainDays == TrainDays(c, days)
           testDays == TestDays(c, days)
           test == TestStart(c, days, f)
           testEnd == IF test + testDays < days THEN test + testDays ELSE days
           train == IF ~c.rolling \/ test < trainDays THEN 0 ELSE test - trainDays
<1>1. f \in Nat \ {0} /\ test < days
  BY DEF Folds, IsSettings
<1>2. trainDays \in Nat \ {0} /\ testDays \in Nat \ {0}
  BY PartsHaveDays
<1>3. test \in Nat /\ test >= trainDays
  BY <1>1, TestsInTurn
<1>4. IsParts(Split(c, first, days, f), first, train, test, testEnd)
  BY DEF Split, IsParts
<1> HIDE DEF trainDays, testDays, test
<1>5. /\ train \in Nat /\ testEnd \in Nat
      /\ train < test /\ test < testEnd /\ testEnd <= days /\ testEnd <= test + testDays
  BY <1>1, <1>2, <1>3
<1> HIDE DEF train, testEnd
<1>6. test = TestStart(c, days, f) /\ testDays = TestDays(c, days)
  BY DEF test, testDays
<1> QED
  BY <1>3, <1>4, <1>5, <1>6

\* Whatever the settings and the data, in every fold the training ends before the test
\* begins and both lie within the data, and the tests of different folds have no second
\* in common (_make_splits, walk_forward.py:65-114): the reports that call the tests
\* out-of-sample, and that add up their results, may do so.
THEOREM TrainBeforeTest ==
    ASSUME NEW c, IsSettings(c), NEW days \in Nat, NEW first \in Nat, NEW f \in Folds(c, days)
    PROVE  LET s == Split(c, first, days, f) IN
           /\ first * DaySecs <= s.trainFrom /\ s.trainFrom <= s.trainTo
           /\ s.trainTo < s.testFrom /\ s.testFrom <= s.testTo
           /\ s.testTo < (first + days) * DaySecs
           /\ \A g \in Folds(c, days) : f < g => s.testTo < Split(c, first, days, g).testFrom
<1>1. PICK train \in Nat, test \in Nat, testEnd \in Nat :
          /\ train < test /\ test < testEnd /\ testEnd <= days
          /\ test = TestStart(c, days, f)
          /\ testEnd <= test + TestDays(c, days)
          /\ IsParts(Split(c, first, days, f), first, train, test, testEnd)
  BY PartsOfFold
<1> DEFINE At(d) == (first + d) * DaySecs
<1>2. /\ At(0) \in Nat /\ At(train) \in Nat /\ At(test) \in Nat /\ At(testEnd) \in Nat /\ At(days) \in Nat
      /\ At(0) <= At(train) /\ At(train) <= At(test) - 1 /\ At(test) <= At(testEnd) - 1
      /\ At(testEnd) <= At(days)
  <2>1. first + 0 \in Nat /\ first + train \in Nat /\ first + test \in Nat
        /\ first + testEnd \in Nat /\ first + days \in Nat
    OBVIOUS
  <2>2. first + 0 <= first + train /\ first + train < first + test
        /\ first + test < first + testEnd /\ first + testEnd <= first + days
    BY <1>1
  <2> QED
    BY <2>1, <2>2, DaysInSeconds
<1>3. ASSUME NEW g \in Folds(c, days), f < g
      PROVE  At(testEnd) <= Split(c, first, days, g).testFrom
  <2>1. f \in Nat \ {0} /\ g \in Nat \ {0}
    BY DEF Folds, IsSettings
  <2>2. test + TestDays(c, days) <= TestStart(c, days, g) /\ TestStart(c, days, g) \in Nat
    BY <1>1, <1>3, <2>1, TestsInTurn
  <2>3. TestDays(c, days) \in Nat
    BY PartsHaveDays
  <2>4. testEnd <= TestStart(c, days, g)
    BY <1>1, <2>2, <2>3
  <2>5. Split(c, first, days, g).testFrom = At(TestStart(c, days, g))
    BY DEF Split
  <2>6. first + testEnd \in Nat /\ first + TestStart(c, days, g) \in Nat
        /\ first + testEnd <= first + TestStart(c, days, g)
    BY <2>2, <2>4
  <2>7. At(testEnd) <= At(TestStart(c, days, g))
    BY <2>6, DaysInSeconds
  <2> QED
    BY <2>5, <2>7
<1>4. ASSUME NEW g \in Folds(c, days), f < g
      PROVE  At(testEnd) - 1 < Split(c, first, days, g).testFrom
  <2>1. Split(c, first, days, g).testFrom \in Nat
    <3>1. PICK train2 \in Nat, test2 \in Nat, testEnd2 \in Nat :
              IsParts(Split(c, first, days, g), first, train2, test2, testEnd2)
      BY PartsOfFold
    <3>2. first + test2 \in Nat
      OBVIOUS
    <3> QED
      BY <3>1, <3>2, DaysInSeconds DEF IsParts
  <2> QED
    BY <1>2, <1>3, <1>4, <2>1
<1>5. first * DaySecs = At(0) /\ At(0) \in Nat
  BY <1>2
<1> QED
  BY <1>1, <1>2, <1>4, <1>5 DEF IsParts

=============================================================================
