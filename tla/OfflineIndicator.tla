-------------------------- MODULE OfflineIndicator --------------------------
(***************************************************************************)
(* The same indicator over a recorded series, with the optional filters of *)
(* pfd_indicator.py, as the backtests use it: every signal of a series is  *)
(* computed at once, by operations on whole columns.  decoder_LTFI has the *)
(* score a third time, over minute bars.  The statistics are               *)
(* replaced as in PriceFlowDivergence; averages are compared after         *)
(* multiplying with their denominators.                                    *)
(***************************************************************************)
EXTENDS PriceFlowDivergence

\* What the optimizer tries, besides the window and the threshold.
CONSTANTS
    Filters,
    MaxRecorded     \* bound on the intervals of a recorded series

ASSUME FiltersAssumption ==
    /\ MaxRecorded \in Nat
    /\ Filters \subseteq
        [reversal : BOOLEAN, confirm : Nat, flowless : BOOLEAN,     \* intz_weight = 0
         ema : Nat, trend : {"aligned", "against"}, strength : Nat, \* in percent
         autocorr : Nat \ {1, 2}, fade : BOOLEAN,       \* 1 and 2 raise a ValueError
         vol : Nat \ {1, 2}, direction : SUBSET {-1, 1}]

\* A recorded interval has a price.
Recorded(intervals) ==
    LET priced == {i \in DOMAIN intervals : intervals[i].price > 0}
        Nth(n) == CHOOSE i \in priced : Cardinality({j \in priced : j < i}) = n - 1
    IN  [n \in 1 .. Cardinality(priced) |-> intervals[Nth(n)]]

-----------------------------------------------------------------------------
(* Columns.                                                                *)

PriceColumn(iv) == [i \in DOMAIN iv |-> iv[i].price]
Back(s, i, w) == SubSeq(s, i - w + 1, i)
Total(s) == SumFunction(s)

SigPxColumn(px) ==
    [i \in DOMAIN px |-> IF i > WindowSize THEN SigPx(Back(px, i, WindowSize + 1)) ELSE 0]

Momentum(px, i) == px[i] - px[i - WindowSize]

FlowWindow(iv, i) == [j \in 1 .. WindowSize |-> iv[i - 1 - WindowSize + j].flow]

\* compute_pfd_components(): the window of the flows ends one interval earlier than
\* that of the prices, and than that of the program.
Components(iv) ==
    LET px == PriceColumn(iv)
        FromWindow(i, n) == IF i > WindowSize THEN n ELSE 0
    IN  [px |-> px, sigPx |-> SigPxColumn(px),
         tr |-> [i \in DOMAIN iv |-> FromWindow(i, Momentum(px, i))],
         flow |-> [i \in DOMAIN iv |-> FromWindow(i, Total(FlowWindow(iv, i)))],
         stdFlow |-> [i \in DOMAIN iv |-> FromWindow(i, Spread(FlowWindow(iv, i)))]]

RawColumn(comp, f) ==
    LET Score(i) == comp.tr[i] - IF f.flowless THEN 0 ELSE comp.flow[i]
        Side(n) == IF n >= Sigma THEN 1 ELSE IF n <= -Sigma THEN -1 ELSE 0
        Valid(i) == comp.sigPx[i] > 0 /\ (f.flowless \/ comp.stdFlow[i] > 0)
    IN  [i \in DOMAIN comp.px |->
            IF Valid(i) THEN (IF f.reversal THEN -1 ELSE 1) * Side(Score(i)) ELSE 0]

Confirm(raw, n) ==
    [i \in DOMAIN raw |->
        IF i > n /\ \A j \in 1 .. n : raw[i - j] = raw[i] THEN raw[i] ELSE 0]

\* The exponential mean of the first i prices, times (span + 1) ^ (i - 1).
EmaColumn(px, span) ==
    LET e[i \in DOMAIN px] ==
            IF i = 1 THEN px[1] ELSE (span - 1) * e[i - 1] + 2 * px[i] * (span + 1) ^ (i - 2)
    IN  e

\* Aligned, a purchase needs a price above the mean, by the strength at least.
TrendAllows(px, ema, i, side, f) ==
    LET sense == IF f.trend = "aligned" THEN side ELSE -side
        scaled == px[i] * (f.ema + 1) ^ (i - 1)
        mean == ema[i]
    IN  \/ f.ema <= 1
        \/ /\ sense * (scaled - mean) > 0
           /\ f.strength > 0 => sense * (100 * scaled - mean * (100 + sense * f.strength)) >= 0

\* The sign of the correlation of a change of the price with the one before, a set
\* that is empty when it is not a number.
Autocorr(px, i, w) ==
    LET change == [j \in 2 .. Len(px) |-> px[j] - px[j - 1]]
        r == [j \in 1 .. w |-> change[i - w + j]]
        y == [j \in 1 .. w |-> change[i - w + j - 1]]
    IN  IF i < w + 2 \/ Spread(r) = 0 \/ Spread(y) = 0 THEN {}
        ELSE {Direction(w * Total([j \in 1 .. w |-> r[j] * y[j]]) - Total(r) * Total(y))}

\* Mutant: the volatility is compared with that of the whole series.
MedianOfAll(sig, i, w) == Median2(sig)

\* Twice the rolling median of the volatility.
RollingMedian(sig, i, w) == Median2(Back(sig, i, w))

VolAllows(sig, i, w) ==
    LET median == RollingMedian(sig, i, w)
    IN  /\ i >= w /\ median > 0
        /\ 200 * sig[i] \in VolRatioMin * median .. VolRatioMax * median

\* compute_regime_features(), what the filters that are on make of them.
Regime(comp, f) ==
    [i \in DOMAIN comp.px |->
        /\ f.autocorr # 0 =>
              \E a \in Autocorr(comp.px, i, f.autocorr) : IF f.fade THEN a <= 0 ELSE a >= 0
        /\ f.vol # 0 => VolAllows(comp.sigPx, i, f.vol)]

-----------------------------------------------------------------------------
\* compute_signals_from_components(): confirmation, then trend, autocorrelation,
\* volatility and direction, each on the signals the one before has left.
SignalsFromComponents(comp, regime, f) ==
    LET confirmed == Confirm(RawColumn(comp, f), f.confirm)
        ema == EmaColumn(comp.px, f.ema)
        Side(i) == IF f.autocorr # 0 /\ f.fade THEN -confirmed[i] ELSE confirmed[i]
    IN  [i \in DOMAIN comp.px |->
            IF Side(i) \in f.direction /\ TrendAllows(comp.px, ema, i, confirmed[i], f) /\ regime[i]
            THEN Side(i) ELSE 0]

\* compute_pfd_signals().
OfflineSignals(iv, f) ==
    LET comp == Components(iv) IN SignalsFromComponents(comp, Regime(comp, f), f)

\* build_features() of decoder_LTFI, the score `comb': a set, empty when it is not a
\* number.  The window of the flows ends with the bar itself, and a flow that is the
\* same in all of it is divided by zero.
CombColumn(iv) ==
    LET px == PriceColumn(iv)
        sigPx == SigPxColumn(px)
        Infinite == Max(Prices) + WindowSize + 1
        CombOf(flow, i) ==
            IF Spread(flow) > 0 THEN {Momentum(px, i) - Total(flow)}
            ELSE {-Direction(Total(flow)) * Infinite} \ {0}
    IN  [i \in DOMAIN iv |->
            IF i > WindowSize /\ sigPx[i] > 0
            THEN CombOf([j \in 1 .. WindowSize |-> iv[i - WindowSize + j].flow], i) ELSE {}]

-----------------------------------------------------------------------------
\* "Indicator history is computed causally on the full series and then sliced into
\* train/test ... without leaking future data" (pfd_optimizer/README.md:174): the
\* signals of the intervals so far stay what they were when another one is recorded,
\* whichever of the filters are on (pfd_indicator.py:91-368).  So do the features of
\* decoder_LTFI, "without looking ahead" (decoder_LTFI.py:101).
NoRepaint ==
    [][Len(closed') <= MaxRecorded =>
          \A before \in {Recorded(closed)}, after \in {Recorded(closed')} :
              /\ \A f \in Filters : IsPrefix(OfflineSignals(before, f), OfflineSignals(after, f))
              /\ IsPrefix(CombColumn(before), CombColumn(after))]_closed
=============================================================================
