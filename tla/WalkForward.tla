---------------------------- MODULE WalkForward -----------------------------
(***************************************************************************)
(* optimize() of research_on_data/pfd_optimizer/walk_forward.py: every     *)
(* signal configuration with every exit rule is backtested on the training *)
(* and on the test part of every fold; per fold the best of the training   *)
(* is kept, and its test is what the program reports.                      *)
(***************************************************************************)
EXTENDS Evaluation

CONSTANTS
    Histories,  \* the data: records [bars, signals], the signals per signal configuration
    Grids,      \* records [signals, exits]: the combinations in the order of the grid
    Settings    \* records c: division, objective and constraints

ASSUME OptimizerAssumption ==
    /\ \A d \in Histories :
          /\ DOMAIN d.bars \subseteq Nat /\ \E last \in DOMAIN d.bars : \A s \in DOMAIN d.bars : s <= last
          /\ d.bars \in [DOMAIN d.bars -> [high : Nat, low : Nat, close : Nat]]
          /\ \A k \in DOMAIN d.signals :
                /\ DOMAIN d.signals[k] \subseteq DOMAIN d.bars
                /\ d.signals[k] \in [DOMAIN d.signals[k] -> {Buy, Sell, 0}]
    /\ \A g \in Grids :
          /\ g.signals \in Seq(Range(g.signals)) /\ g.exits \in Seq(Range(g.exits))
          /\ \A k \in Range(g.signals) :
                k.interval \in Nat /\ \A d \in Histories : k \in DOMAIN d.signals
          /\ \A r \in Range(g.exits) :
                r.tp \in Nat /\ r.sl \in Nat /\ r.hold \in Nat /\ r.conservative \in BOOLEAN
    /\ \A s \in Settings :
          /\ s.folds \in Nat \ {0} /\ s.rolling \in BOOLEAN
          /\ s.trainDays \in Nat /\ s.testDays \in Nat

VARIABLES
    data, grid, c,      \* load_aggregated_1s, _build_param_grid, the configuration file
    at,                 \* how many evaluations are done
    best,               \* best_by_fold
    testRows,           \* all_test_rows
    report              \* the files written at the end, {} before

optimizer == <<data, grid, c, at, best, testRows, report>>

-----------------------------------------------------------------------------
(* What is evaluated, in which order.                                      *)

\* _unique_dicts(): the first occurrences.
Unique(s) == Picked(s, {i \in DOMAIN s : \A j \in 1 .. i - 1 : s[j] # s[i]})

FirstOfGroup(keys, i) ==
    Min({j \in DOMAIN keys : keys[j].interval = keys[i].interval /\ keys[j].base = keys[i].base})

\* Interval after interval, within it the groups that share the components of the
\* indicator, in the order of their first member.
Earlier(keys, i, j) ==
    \/ keys[i].interval < keys[j].interval
    \/ /\ keys[i].interval = keys[j].interval
       /\ \/ FirstOfGroup(keys, i) < FirstOfGroup(keys, j)
          \/ FirstOfGroup(keys, i) = FirstOfGroup(keys, j) /\ i < j

\* The key at place n is the one with n - 1 earlier ones.
SignalKeys ==
    LET keys == Unique(grid.signals)
        KeyAt(n) == CHOOSE i \in DOMAIN keys :
                       Cardinality({j \in DOMAIN keys : Earlier(keys, j, i)}) = n - 1
    IN  [n \in DOMAIN keys |-> keys[KeyAt(n)]]

ExitKeys == Unique(grid.exits)

Days == TotalDays(data.bars)
FoldsOfData == Folds(c, Days)
SplitOf(f) == Split(c, FirstDay(data.bars), Days, f)

\* The three nested loops.
Evaluations ==
    LET signals == SignalKeys
        exits == ExitKeys
        folds == Cardinality(FoldsOfData)
        Of(k) == (k - 1) \div folds
    IN  [k \in 1 .. Len(signals) * Len(exits) * folds |->
            [signal |-> signals[(Of(k) \div Len(exits)) + 1],
             exit |-> exits[(Of(k) % Len(exits)) + 1],
             fold |-> ((k - 1) % folds) + 1]]

-----------------------------------------------------------------------------
TradesOn(d, e, from, to) ==
    RunBacktest(d.bars, Part(d.signals[e.signal], from, to), <<>>, e.exit, from, to)

\* _metrics_for().
MetricsOn(d, e, from, to) ==
    Metrics(TradesOn(d, e, from, to), Part(d.signals[e.signal], from, to), from, to)

Trained(d, e) == MetricsOn(d, e, SplitOf(e.fold).trainFrom, SplitOf(e.fold).trainTo)
Tested(d, e)  == MetricsOn(d, e, SplitOf(e.fold).testFrom, SplitOf(e.fold).testTo)

\* A configuration replaces the best of its fold only when it is better.
Better(e, metrics) ==
    /\ Admissible(metrics, c)
    /\ \A b \in best[e.fold] : Greater(ObjectiveValue(metrics, c.objective), b.score)

Evaluate ==
    /\ at < Len(Evaluations)
    /\ LET e == Evaluations[at + 1]
           metrics == Trained(data, e)
       IN  /\ best' = IF Better(e, metrics)
                      THEN [best EXCEPT ![e.fold] =
                                {[score |-> ObjectiveValue(metrics, c.objective),
                                  config |-> e, metrics |-> metrics]}]
                      ELSE best
           /\ testRows' = Append(testRows, [config |-> e, metrics |-> Tested(data, e)])
    /\ at' = at + 1
    /\ UNCHANGED <<data, grid, c, report>>

\* Mutant: the first row of the configuration, whatever its fold.
RowOfConfig(config) ==
    testRows[Min({k \in DOMAIN testRows :
                    testRows[k].config.signal = config.signal /\ testRows[k].config.exit = config.exit})]

\* The test of the chosen configuration is looked up among all rows.
TestRow(config) == testRows[Min({k \in DOMAIN testRows : testRows[k].config = config})]

FoldRow(f) ==
    [fold |-> f, split |-> SplitOf(f),
     chosen |-> {[config |-> b.config, train |-> b.metrics, test |-> TestRow(b.config).metrics] :
                    b \in best[f]}]

\* The net results of the tests; a fold without a choice has none.
Aggregate ==
    LET chosen == {f \in FoldsOfData : best[f] # {}}
        net == [f \in chosen |-> (CHOOSE r \in FoldRow(f).chosen : TRUE).test.net]
    IN  IF chosen = {} THEN {}
        ELSE {[total |-> SumFunction(net), folds |-> Cardinality(chosen),
               min |-> Min(Range(net)), max |-> Max(Range(net)),
               profitable |-> Cardinality({f \in chosen : net[f] > 0})]}

\* The median of ratios, a ratio itself.
Median(ratios) ==
    LET s == SortSeq(ratios, LAMBDA a, b : Greater(b, a))
        low == s[(Len(s) + 1) \div 2]
        high == s[Len(s) \div 2 + 1]
    IN  <<low[1] * high[2] + high[1] * low[2], 2 * low[2] * high[2]>>

\* The tests of a configuration in all folds, and the tables made of them; a
\* configuration that never trades is left out of both, the order of the rows is ours.
RowsOf(config) ==
    LET Of(r) == r.config.signal = config.signal /\ r.config.exit = config.exit
    IN  Picked(testRows, {k \in DOMAIN testRows : Of(testRows[k])})

TotalTrades(config) ==
    Sum([k \in DOMAIN RowsOf(config) |-> RowsOf(config)[k].metrics.n])

Summary == {config \in Range(Evaluations) : config.fold = 1 /\ TotalTrades(config) > 0}

TopExpectancy ==
    {config \in Summary :
        LET MedianOf(F(_)) == Median([k \in DOMAIN RowsOf(config) |-> F(RowsOf(config)[k].metrics)])
            drawdown == MedianOf(LAMBDA m : <<m.drawdown, 1>>)
        IN  /\ TotalTrades(config) >= c.minTotalTrades
            /\ Percent(MedianOf(ProfitFactor), c.minProfitFactor)
            /\ \A bound \in c.maxDrawdown : drawdown[1] <= bound * drawdown[2]}

Report ==
    /\ at = Len(Evaluations) /\ FoldsOfData # {} /\ report = {}
    /\ report' = {[folds |-> [f \in FoldsOfData |-> FoldRow(f)],
                   aggregate |-> Aggregate, summary |-> Summary, expectancy |-> TopExpectancy]}
    /\ UNCHANGED <<data, grid, c, at, best, testRows>>

-----------------------------------------------------------------------------
OptimizerInit ==
    /\ data \in Histories /\ grid \in Grids /\ c \in Settings
    /\ at = 0
    /\ best = [f \in FoldsOfData |-> {}]
    /\ testRows = <<>> /\ report = {}

OptimizerNext == Evaluate \/ Report

-----------------------------------------------------------------------------
(* Properties.                                                             *)

\* The data of one part, as if nothing else had been recorded.
Cut(from, to) ==
    LET Within(f) == Restrict(f, {s \in DOMAIN f : from <= s /\ s <= to})
    IN  [bars |-> Within(data.bars),
         signals |-> [k \in DOMAIN data.signals |-> Within(data.signals[k])]]

\* The scores of the configurations on the data of the training days of a fold and
\* nothing else; an inadmissible one has none.
TrainScores(f) ==
    LET train == Cut(SplitOf(f).trainFrom, SplitOf(f).trainTo)
        ScoresOf(m) == IF Admissible(m, c) THEN {ObjectiveValue(m, c.objective)} ELSE {}
        all == Evaluations
    IN  [k \in {k \in DOMAIN all : all[k].fold = f} |->
            ScoresOf(MetricsOn(train, all[k], SplitOf(f).trainFrom, SplitOf(f).trainTo))]

\* The first among the best.
FirstBest(score) ==
    {k \in DOMAIN score : \E v \in score[k] :
        \A j \in DOMAIN score : \A w \in score[j] : ~Greater(w, v) /\ (j < k => Greater(v, w))}

\* "Selected on train, reported on test" (walk_forward.py:343), "a train config that
\* violates a constraint is never selected" (pfd_optimizer/README.md:181): the choice
\* of a fold is the first best among the admissible, judged on nothing but the data of
\* its training days.
SelectionSeesTrainOnly ==
    at = Len(Evaluations) =>
        \A f \in FoldsOfData : \A score \in {TrainScores(f)} :
            {b.config : b \in best[f]} = {Evaluations[k] : k \in FirstBest(score)}

\* What is reported for a fold is what its chosen configuration does on the data of
\* the test days alone; nothing when nothing was chosen (walk_forward.py:343-377).
ReportedIsSelected ==
    \A r \in report : \A f \in FoldsOfData :
        LET test == Cut(SplitOf(f).testFrom, SplitOf(f).testTo) IN
        {[config |-> x.config, test |-> x.test] : x \in r.folds[f].chosen} =
            {[config |-> b.config,
              test |-> MetricsOn(test, b.config, SplitOf(f).testFrom, SplitOf(f).testTo)] : b \in best[f]}

\* The tests of the folds could have been traded one after the other on one account:
\* no position of one overlaps those of another or the training it was chosen on
\* (walk_forward.py:95-113, backtest.py:155-200).
OneAccount ==
    \A r \in report : \A f, g \in FoldsOfData :
        \A x \in r.folds[f].chosen, y \in r.folds[g].chosen :
            LET mine == TradesOn(data, x.config, SplitOf(f).testFrom, SplitOf(f).testTo)
                other == TradesOn(data, y.config, SplitOf(g).testFrom, SplitOf(g).testTo)
            IN  /\ \A i \in DOMAIN mine : SplitOf(f).trainTo < mine[i].entry
                /\ f < g => \A i \in DOMAIN mine, j \in DOMAIN other : mine[i].exit < other[j].entry

\* The metrics of an evaluation agree with its trades and with each other: the drawdown
\* is the greatest fall between two points of the equity that begins with zero, each
\* trade has one reason, and no more time is spent in positions than there is
\* (metrics.py:21-47, 143-177).
MetricsAgree ==
    at > 0 =>
        LET row == testRows[at]
            m == row.metrics
            split == SplitOf(row.config.fold)
            pnls == Pnls(TradesOn(data, row.config, split.testFrom, split.testTo))
            Equity(n) == Sum(SubSeq(pnls, 1, n))
            falls == {Equity(p[1]) - Equity(p[2]) : p \in {q \in (0 .. m.n) \X (0 .. m.n) : q[1] <= q[2]}}
        IN  /\ m.drawdown = Max(falls)
            /\ SumFunction(m.closed) = m.n
            /\ m.inPos <= m.total

=============================================================================
