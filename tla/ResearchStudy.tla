--------------------------- MODULE ResearchStudy ----------------------------
(***************************************************************************)
(* The research programs of research_on_data/pfd_optimizer that take one   *)
(* signal configuration found by the optimizer and compare ways to leave a *)
(* position on the test parts of a division of their own: research_exit    *)
(* (early exit by the score), research_trailing (trailing stops),          *)
(* research_adaptive_tp and research_vol_thresholds (the take profit       *)
(* follows a measure of the volatility).  Here they run after the          *)
(* optimizer, on the same data.                                            *)
(*                                                                         *)
(* A variant is a record v:                                                *)
(*    rule, calm      the exit rules, and those of a calm market           *)
(*    below           {}, or the level below which the market is calm      *)
(*    byScore         exit when the score turns                            *)
(*    trail           {}, or the activation and the distance of a trail    *)
(*                                                                         *)
(* The data has two more fields, functions from seconds: scores, and vol,  *)
(* the volatility measure, defined where it is a number.                   *)
(***************************************************************************)
EXTENDS WalkForward

CONSTANTS
    Variants,   \* a sequence of variants
    VolMin      \* --vol-min, 0 admits every number

ASSUME StudyAssumption ==
    /\ Variants \in Seq(Range(Variants))
    /\ \A v \in Range(Variants) : \A trail \in v.trail : trail.act \in Nat /\ trail.dist \in Nat

VARIABLES
    key,        \* the signal configuration of the study, {} before it is chosen
    tried,      \* how many variants have been evaluated
    studyRows   \* the table written at the end

study == <<key, tried, studyRows>>

-----------------------------------------------------------------------------
\* --folds, --train-days, --test-days; the training is not used.
StudySettings ==
    [folds |-> c.folds, rolling |-> TRUE, trainDays |-> c.trainDays, testDays |-> c.testDays]

StudySplit(f) == Split(StudySettings, FirstDay(data.bars), Days, f)

\* A signal is dropped where the volatility is low or not a number.
StudySignals ==
    LET signals == data.signals[CHOOSE k \in key : TRUE]
    IN  [s \in DOMAIN signals |->
            IF s \in DOMAIN data.vol /\ data.vol[s] >= VolMin THEN signals[s] ELSE 0]

StudyPart(f) == Part(StudySignals, StudySplit(f).testFrom, StudySplit(f).testTo)

Calm(v, s) == s \in DOMAIN data.vol /\ \E level \in v.below : data.vol[s] < level

RuleAt(v, s) == IF Calm(v, s) THEN v.calm ELSE v.rule

\* The baseline, and every activation with every distance.
TrailVariants(baseline, activations, distances) ==
    <<baseline>> \o [n \in 1 .. Len(activations) * Len(distances) |->
        LET a == (n - 1) \div Len(distances) + 1
            d == ((n - 1) % Len(distances)) + 1
        IN  [baseline EXCEPT !.trail = {[act |-> activations[a], dist |-> distances[d]]}]]

TradesTo(v, f, end) ==
    IF v.trail = {}
    THEN RunBacktestBy(data.bars, StudyPart(f), IF v.byScore THEN data.scores ELSE <<>>,
                       [s \in DOMAIN StudyPart(f) |-> RuleAt(v, s)], StudySplit(f).testFrom, end)
    ELSE RunBacktestTrailing(data.bars, StudyPart(f), v.rule, CHOOSE trail \in v.trail : TRUE,
                             StudySplit(f).testFrom, end)

\* Mutant: positions may run on into the next part.
StudyTradesUnclipped(v, f) == TradesTo(v, f, Max(DOMAIN data.bars))

StudyTrades(v, f) == TradesTo(v, f, StudySplit(f).testTo)

StudyMetrics(v, f) ==
    Metrics(StudyTrades(v, f), StudyPart(f), StudySplit(f).testFrom, StudySplit(f).testTo)

\* All trades of a variant, fold after fold.
AllTrades(v) == FoldLeft(LAMBDA all, f : all \o StudyTrades(v, f), <<>>, InOrder(FoldsOfData))

\* The folds a variant has metrics of: those it traded in.
TradedFolds(v) == {f \in FoldsOfData : StudyTrades(v, f) # <<>>}

\* The time of the trades that were entered in the test part of a fold.
TimeOfFold(trades, f) ==
    LET Of(t) == StudySplit(f).testFrom <= t.entry /\ t.entry <= StudySplit(f).testTo
    IN  TimeInPosition(Picked(trades, {n \in DOMAIN trades : Of(trades[n])}),
                       StudySplit(f).testFrom, StudySplit(f).testTo)

\* _summarize(); `nets' are the net results of the folds, the means are over the folds that have metrics.
Summarize(trades, nets, inPos) ==
    [trades |-> Len(trades),
     wins |-> Len(SelectSeq(Pnls(trades), LAMBDA p : p > 0)),
     meanNet |-> [sum |-> SumFunction(nets), n |-> Cardinality(DOMAIN nets)],
     medianNet |-> LET folds == InOrder(DOMAIN nets)
                   IN  Median([k \in DOMAIN folds |-> <<nets[folds[k]], 1>>]),
     profitable |-> Cardinality({f \in DOMAIN nets : nets[f] > 0}),
     inPos |-> inPos,
     closed |-> [r \in {"tp", "sl", "trail", "timeout", "signal"} |->
                    Len(SelectSeq(trades, LAMBDA t : t.reason = r))]]

StudyRow(v, trades) ==
    [variant |-> v,
     calm |-> Len(SelectSeq(trades, LAMBDA t : Calm(v, t.entry))),
     summary |-> Summarize(trades, [f \in TradedFolds(v) |-> StudyMetrics(v, f).net],
                           SumFunction([f \in FoldsOfData |-> TimeOfFold(trades, f)]))]

ChooseKey ==
    /\ report # {} /\ key = {}
    /\ \E k \in Range(SignalKeys) : key' = {k}
    /\ UNCHANGED <<optimizer, tried, studyRows>>

\* A variant without a trade gets no row.
TryVariant ==
    /\ key # {} /\ tried < Len(Variants)
    /\ LET v == Variants[tried + 1]
           trades == AllTrades(v)
       IN  studyRows' = IF trades = <<>> THEN studyRows ELSE Append(studyRows, StudyRow(v, trades))
    /\ tried' = tried + 1
    /\ UNCHANGED <<optimizer, key>>

-----------------------------------------------------------------------------
StudyInit == OptimizerInit /\ key = {} /\ tried = 0 /\ studyRows = <<>>

StudyNext == (OptimizerNext /\ UNCHANGED study) \/ ChooseKey \/ TryVariant

StudySpec == StudyInit /\ [][StudyNext]_<<optimizer, study>>

-----------------------------------------------------------------------------
(* Properties.                                                             *)

\* A variant that leaves its positions as the optimizer does with an exit rule of the grid.
ChangesNothing(v) ==
    /\ v.below = {} /\ ~v.byScore
    /\ \A trail \in v.trail : Loose(v.rule, trail)
    /\ v.rule \in Range(ExitKeys)

\* A row of the table has the trades, the net result and the time in position that the
\* optimizer has found in the tests of all folds.
Repeats(row) ==
    LET config == [signal |-> CHOOSE k \in key : TRUE, exit |-> row.variant.rule, fold |-> 1]
        rows == RowsOf(config)
        summary == row.summary
    IN  ChangesNothing(row.variant) /\ StudySignals = data.signals[config.signal]
        => /\ summary.trades = TotalTrades(config)
           /\ summary.meanNet.sum = Sum([n \in DOMAIN rows |-> rows[n].metrics.net])
           /\ summary.inPos = Sum([n \in DOMAIN rows |-> rows[n].metrics.inPos])

\* A variant that changes nothing repeats the optimizer: for an exit rule of the grid,
\* a volatility that admits all signals and no trail, or one active too late to matter
\* ("Loose trails are equivalent to the baseline", pfd_optimizer/README.md:73), the
\* study finds, in its own division and through other code, the test trades the
\* optimizer has found (walk_forward.py:156-186, 332-336; research_trailing.py:113-166).
StudyRepeatsOptimizer == studyRows # <<>> => Repeats(studyRows[Len(studyRows)])
=============================================================================
