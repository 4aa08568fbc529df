----------------------------- MODULE Evaluation -----------------------------
(***************************************************************************)
(* What the programs of research_on_data/pfd_optimizer share to judge a    *)
(* configuration: the division of the recorded days into training and test *)
(* parts (walk_forward.py), the signals of a part, and the metrics of its  *)
(* trades (metrics.py).                                                    *)
(*                                                                         *)
(* Rational metrics are pairs <<numerator, denominator>>.  The Sharpe      *)
(* ratio is irrational and stands squared, with its sign: only the order   *)
(* of its values is used.                                                  *)
(***************************************************************************)
EXTENDS Backtest, Functions

CONSTANT DaySecs    \* seconds in a day

ASSUME EvaluationAssumption == DaySecs \in Nat \ {0}

(* The settings of the division are a record c:                            *)
(*    folds                 n_folds                                        *)
(*    rolling               walk_forward_mode, FALSE for expanding         *)
(*    trainDays, testDays   0 for None                                     *)

-----------------------------------------------------------------------------
(* _make_splits().                                                         *)

AtLeastOne(n) == IF n > 1 THEN n ELSE 1

FirstDay(bs) == Min(DOMAIN bs) \div DaySecs
TotalDays(bs) == Max(DOMAIN bs) \div DaySecs - FirstDay(bs) + 1

\* Without either number of days the data is cut into folds + 1 blocks.
Block(c, days) == AtLeastOne(days \div (AtLeastOne(c.folds) + 1))
TrainDays(c, days) == IF c.trainDays = 0 THEN Block(c, days) ELSE c.trainDays
TestDays(c, days)  == IF c.testDays = 0 THEN Block(c, days) ELSE c.testDays

TestStart(c, days, f) == TrainDays(c, days) + (f - 1) * TestDays(c, days)

\* The folds whose test begins within the data.
Folds(c, days) == {f \in 1 .. c.folds : TestStart(c, days, f) < days}

\* Mutant: a training that ends with the test.
SplitOverlapping(c, first, days, f) ==
    LET test == TestStart(c, days, f)
        testEnd == IF test + TestDays(c, days) < days THEN test + TestDays(c, days) ELSE days
    IN  [trainFrom |-> first * DaySecs, trainTo |-> (first + testEnd) * DaySecs - 1,
         testFrom |-> (first + test) * DaySecs, testTo |-> (first + testEnd) * DaySecs - 1]

Split(c, first, days, f) ==
    LET test == TestStart(c, days, f)
        testEnd == IF test + TestDays(c, days) < days THEN test + TestDays(c, days) ELSE days
        train == IF ~c.rolling \/ test < TrainDays(c, days) THEN 0 ELSE test - TrainDays(c, days)
    IN  [trainFrom |-> (first + train) * DaySecs, trainTo |-> (first + test) * DaySecs - 1,
         testFrom |-> (first + test) * DaySecs, testTo |-> (first + testEnd) * DaySecs - 1]

\* _precompute_fold_signals(): the signals of one part.
Part(signals, from, to) ==
    Restrict(signals, {s \in DOMAIN signals : from <= s /\ s <= to /\ signals[s] # 0})

-----------------------------------------------------------------------------
(* compute_metrics().                                                      *)

Pnls(trades) == [n \in DOMAIN trades |-> Pnl(trades[n])]

Sum(s) == FoldLeft(+, 0, s)

\* Mutant: the peak begins with the first trade, not with an equity of zero.
MaxDrawdownFromFirstTrade(pnls) ==
    IF pnls = <<>> THEN 0
    ELSE FoldLeft(LAMBDA a, p : [eq |-> a.eq + p, peak |-> Later(a.peak, a.eq + p),
                                 dd |-> Later(a.dd, a.peak - (a.eq + p))],
                  [eq |-> pnls[1], peak |-> pnls[1], dd |-> 0], Tail(pnls)).dd

\* max_drawdown_from_trades().
MaxDrawdown(pnls) ==
    FoldLeft(LAMBDA a, p : [eq |-> a.eq + p, peak |-> Later(a.peak, a.eq + p),
                            dd |-> Later(a.dd, a.peak - (a.eq + p))],
             [eq |-> 0, peak |-> 0, dd |-> 0], pnls).dd

\* time_in_position_sec(): the seconds of the trades within a part.
TimeInPosition(trades, from, to) ==
    LET Clipped(t) == Later(0, (IF t.exit < to THEN t.exit ELSE to) - Later(t.entry, from))
    IN  Sum([n \in DOMAIN trades |-> Clipped(trades[n])])

Metrics(trades, signals, from, to) ==
    LET pnls == Pnls(trades)
        Above(limit) == Cardinality({n \in DOMAIN pnls : pnls[n] > limit})
        Closed(reason) == Cardinality({n \in DOMAIN trades : trades[n].reason = reason})
    IN  [n |-> Len(trades), net |-> Sum(pnls),
         squares |-> Sum([n \in DOMAIN pnls |-> pnls[n] * pnls[n]]),
         wins |-> Above(0), grossWins |-> Above(-Fee),
         profit |-> Sum([n \in DOMAIN pnls |-> Later(0, pnls[n])]),
         loss |-> Sum([n \in DOMAIN pnls |-> Later(0, -pnls[n])]),
         drawdown |-> MaxDrawdown(pnls),
         inPos |-> TimeInPosition(trades, from, to), total |-> to - from,
         closed |-> [r \in {"tp", "sl", "timeout", "signal", "trail"} |-> Closed(r)],
         buy |-> Cardinality({s \in DOMAIN signals : signals[s] = Buy}),
         sell |-> Cardinality({s \in DOMAIN signals : signals[s] = Sell})]

WinRate(m) == IF m.n = 0 THEN <<0, 1>> ELSE <<m.wins, m.n>>
Expectancy(m) == IF m.n = 0 THEN <<0, 1>> ELSE <<m.net, m.n>>
Calmar(m) == IF m.drawdown = 0 THEN <<0, 1>> ELSE <<m.net, m.drawdown>>

ProfitFactor(m) ==
    IF m.loss > 0 THEN <<m.profit, m.loss>>
    ELSE IF m.profit > 0 THEN <<999, 1>> ELSE <<0, 1>>

Sharpe(m) ==
    LET spread == m.n * m.squares - m.net * m.net IN
    IF m.n <= 1 \/ spread = 0 THEN <<0, 1>>
    ELSE <<(IF m.net < 0 THEN -1 ELSE 1) * m.net * m.net * (m.n - 1), spread>>

-----------------------------------------------------------------------------
(* score_metrics().                                                        *)

(* The constraints of a configuration are fields of c:                     *)
(*    objective                                                            *)
(*    minTrades, minTotalTrades                                            *)
(*    minWinRate, minProfitFactor   in percent                             *)
(*    maxDrawdown, minExpectancy    the set of the bounds: none or one     *)

ObjectiveValue(m, objective) ==
    CASE objective = "net_pnl" -> <<m.net, 1>>
      [] objective = "expectancy" -> Expectancy(m)
      [] objective = "win_rate" -> WinRate(m)
      [] objective = "profit_factor" -> ProfitFactor(m)
      [] objective = "calmar" -> Calmar(m)
      [] OTHER -> Sharpe(m)

Percent(ratio, bound) == 100 * ratio[1] >= bound * ratio[2]

Admissible(m, c) ==
    /\ m.n >= c.minTrades
    /\ Percent(WinRate(m), c.minWinRate)
    /\ Percent(ProfitFactor(m), c.minProfitFactor)
    /\ \A bound \in c.maxDrawdown : m.drawdown <= bound
    /\ \A bound \in c.minExpectancy : Expectancy(m)[1] >= bound * Expectancy(m)[2]

Greater(a, b) == a[1] * b[2] > b[1] * a[2]
=============================================================================
