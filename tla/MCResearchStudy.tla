--------------------------- MODULE MCResearchStudy --------------------------
(* Days of three seconds, the signals of two configurations of the indicator *)
(* that follow and oppose the last change of the price, and a third with a   *)
(* longer interval.                                                          *)
EXTENDS ResearchStudy

MCBar(h, l, cl) == [high |-> h, low |-> l, close |-> cl]

MCDayShapes == {
    <<MCBar(5, 5, 5), MCBar(7, 5, 7), MCBar(8, 6, 8)>>,
    <<MCBar(7, 5, 6), MCBar(6, 4, 4), MCBar(8, 3, 6)>>,
    <<MCBar(6, 4, 5), MCBar(5, 3, 3), MCBar(5, 1, 1)>>}

MCBars(days) ==
    [s \in 0 .. 3 * Len(days) - 1 |-> days[(s \div 3) + 1][(s % 3) + 1]]

MCKeys == {[interval |-> 1, base |-> 1, side |-> 1], [interval |-> 1, base |-> 1, side |-> -1],
           [interval |-> 2, base |-> 2, side |-> 1]}

MCSign(n) == IF n > 0 THEN 1 ELSE IF n < 0 THEN -1 ELSE 0

MCSignals(bars, k) ==
    [s \in {t \in DOMAIN bars : t >= k.interval /\ (t + 1) % k.interval = 0} |->
        k.side * MCSign(bars[s].close - bars[s - k.interval].close)]

MCHistory(days) ==
    LET bars == MCBars(days)
        Change(s) == bars[s].close - bars[s - 1].close
    IN  [bars |-> bars, signals |-> [k \in MCKeys |-> MCSignals(bars, k)],
         scores |-> [s \in DOMAIN bars \ {0} |-> Change(s)],
         vol |-> [s \in DOMAIN bars \ {0} |-> bars[s].high - bars[s].low]]

MCHistories == {MCHistory(days) : days \in [1 .. 4 -> MCDayShapes]}

MCKey(interval, side) == CHOOSE k \in MCKeys : k.interval = interval /\ k.side = side

MCRule(tp, sl, hold) ==
    [tp |-> tp, sl |-> sl, hold |-> hold, conservative |-> TRUE, threshold |-> 0]

MCGrids == {
    [signals |-> <<MCKey(2, 1), MCKey(1, 1), MCKey(1, -1), MCKey(1, 1)>>,
     exits |-> <<MCRule(2, 2, 4), MCRule(3, 1, 2)>>]}

MCSetting(folds, rolling, trainDays, testDays, objective, minTrades, drawdown) ==
    [folds |-> folds, rolling |-> rolling, trainDays |-> trainDays, testDays |-> testDays,
     objective |-> objective, minTrades |-> minTrades, minTotalTrades |-> 2,
     minWinRate |-> 0, minProfitFactor |-> 50,
     maxDrawdown |-> drawdown, minExpectancy |-> {}]

MCSettings == {
    MCSetting(3, TRUE, 1, 1, "net_pnl", 1, {4}),
    MCSetting(2, FALSE, 2, 1, "sharpe", 2, {}),
    MCSetting(3, FALSE, 0, 0, "profit_factor", 0, {6})}

MCVariant(rule, calm, below, byScore) ==
    [rule |-> rule, calm |-> calm, below |-> below, byScore |-> byScore, trail |-> {}]

MCVariants ==
    <<MCVariant(MCRule(3, 1, 4), MCRule(3, 1, 4), {}, TRUE),
      MCVariant(MCRule(3, 1, 2), MCRule(1, 1, 2), {2}, FALSE)>>
    \o TrailVariants(MCVariant(MCRule(3, 1, 2), MCRule(3, 1, 2), {}, FALSE), <<0, 3>>, <<1>>)
=============================================================================
