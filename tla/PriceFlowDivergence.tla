------------------------ MODULE PriceFlowDivergence ------------------------
(***************************************************************************)
(* The indicator (indicators/price_flow_divergence): it closes an interval *)
(* whenever data arrives and the interval's time has passed, keeps four    *)
(* ring buffers, and publishes a signal with a version.  The specification *)
(* compares what the buffers yield with a definition over the whole        *)
(* history, which is how research_on_data computes the same indicator.     *)
(*                                                                         *)
(* The statistics are replaced by integers that vanish, grow and change    *)
(* sign with them: the momentum by the change of the price over the        *)
(* window, a standard deviation by the spread of its values, the t-value   *)
(* of the flow by its sum, the flow of an interval by its direction.  What *)
(* is kept is which intervals enter which window, and what becomes of a    *)
(* window that is not full, constant, or not a number.                     *)
(***************************************************************************)
EXTENDS Integers, FiniteSets, FiniteSetsExt, Functions, SequencesExt

CONSTANTS
    Prices,         \* mid prices of the order book
    MaxVolume,      \* bound on the volume of an interval, per direction
    MaxIntervals,   \* bound on the number of intervals
    WindowSize,     \* pfdWindowSize
    Sigma,          \* pfdSigma
    ConfirmIntervals,           \* pfdConfirmIntervals
    VolWindowSize,              \* pfdVolWindowSize
    VolRatioMin, VolRatioMax    \* pfdVolRatioMin and pfdVolRatioMax, in percent

ASSUME IndicatorAssumption ==
    /\ Prices \subseteq Nat \ {0}
    /\ MaxVolume \in Nat /\ MaxIntervals \in Nat
    /\ WindowSize \in Nat \ {0, 1} /\ Sigma \in Nat \ {0}
    /\ ConfirmIntervals \in Nat /\ VolWindowSize \in Nat
    /\ VolRatioMin \in Nat /\ VolRatioMax \in Nat

Signals == {"Buy", "Sell", "Unknown"}

VARIABLES
    midPrice,           \* midPrice_, 0 before the first order book
    buyVol, sellVol,    \* buyVolAccum_, sellVolAccum_
    timed,              \* has lastCalcTime_ been set
    prices, flows,      \* priceSeries_, flowSeries_
    sigPxs, raws,       \* sigPxSeries_, rawSignalSeries_
    volOk,              \* volOk_
    signal, version,    \* signal_, signalVersion_
    closed              \* every interval so far; the program keeps the ring buffers only

accumulators == <<buyVol, sellVol>>
series == <<prices, flows, sigPxs, raws>>
output == <<volOk, signal, version>>
vars   == <<midPrice, accumulators, timed, series, output, closed>>

Flow == {-1, 0, 1}

TypeOK ==
    /\ midPrice \in Prices \cup {0}
    /\ buyVol \in 0 .. MaxVolume /\ sellVol \in 0 .. MaxVolume
    /\ timed \in BOOLEAN
    /\ prices \in Seq(Prices \cup {0}) /\ Len(prices) <= WindowSize + 1
    /\ flows \in Seq(Flow) /\ Len(flows) = Len(prices)
    /\ sigPxs \in Seq(Nat \ {0}) /\ Len(sigPxs) <= VolWindowSize
    /\ raws \in Seq(Signals) /\ Len(raws) <= ConfirmIntervals
    /\ volOk \in BOOLEAN /\ signal \in Signals /\ version \in 0 .. MaxIntervals
    /\ closed \in Seq([price : Prices \cup {0}, flow : Flow])

-----------------------------------------------------------------------------
(* Statistics of a window.                                                 *)

\* push_back of a ring buffer.
Push(s, x, capacity) ==
    IF Len(s) < capacity THEN Append(s, x)
    ELSE IF capacity = 0 THEN s ELSE Append(Tail(s), x)

Direction(n) == IF n > 0 THEN 1 ELSE IF n < 0 THEN -1 ELSE 0

Spread(s) == Max(ToSet(s)) - Min(ToSet(s))

\* The changes of the price, not a number when a price is missing.
Changes(px) == [i \in 1 .. Len(px) - 1 |-> px[i + 1] - px[i]]

\* Mutant: a missing price is the price zero.
AnyNumber(px) == TRUE

IsNumber(px) == 0 \notin ToSet(px)
SigPx(px) == Spread(Changes(px))

Comb(px, fl) == (Last(px) - Head(px)) - SumFunction(fl)

RawSignal(comb) ==
    IF comb >= Sigma THEN "Buy" ELSE IF comb <= -Sigma THEN "Sell" ELSE "Unknown"

\* Twice the median.
Median2(s) ==
    LET t == SortSeq(s, <)
        middle == Len(s) \div 2 + 1
    IN  t[middle] + IF Len(s) % 2 = 0 THEN t[middle - 1] ELSE t[middle]

InRegime(sigPx, values) ==
    /\ 200 * sigPx >= VolRatioMin * Median2(values)
    /\ 200 * sigPx <= VolRatioMax * Median2(values)

-----------------------------------------------------------------------------
(* rollInterval() and what it calls.                                       *)

\* Mutant: what the signals before were is not looked at.
HistoryIsFull(raw) == Len(raws) = ConfirmIntervals

Confirmed(raw) == Len(raws) = ConfirmIntervals /\ ToSet(raws) \subseteq {raw}

CheckSignal(raw) ==
    /\ signal' = IF Confirmed(raw) /\ volOk' THEN raw ELSE "Unknown"
    /\ raws' = Push(raws, raw, ConfirmIntervals)
    /\ version' = version + 1

\* Without a number nothing is recorded and no regime is recognised.
UpdateVolatilityRegime(px) ==
    /\ sigPxs' = IF VolWindowSize >= 2 /\ IsNumber(px)
                 THEN Push(sigPxs, SigPx(px), VolWindowSize) ELSE sigPxs
    /\ volOk' = \/ VolWindowSize < 2
                \/ /\ IsNumber(px) /\ Len(sigPxs') = VolWindowSize
                   /\ InRegime(SigPx(px), sigPxs')

\* Mutant: an interval without a score leaves no trace in the history of signals.
EvaluateScoredOnly(px, fl) ==
    \/ /\ (IsNumber(px) /\ SigPx(px) = 0) \/ Spread(fl) = 0
       /\ volOk' = FALSE /\ signal' = "Unknown" /\ version' = version + 1
       /\ UNCHANGED <<sigPxs, raws>>
    \/ /\ IsNumber(px) => SigPx(px) # 0
       /\ Spread(fl) # 0
       /\ UpdateVolatilityRegime(px)
       /\ CheckSignal(IF IsNumber(px) THEN RawSignal(Comb(px, fl)) ELSE "Unknown")

Evaluate(px, fl) ==
    \/ /\ (IsNumber(px) /\ SigPx(px) = 0) \/ Spread(fl) = 0
       /\ volOk' = FALSE
       /\ CheckSignal("Unknown")
       /\ UNCHANGED sigPxs
    \/ /\ IsNumber(px) => SigPx(px) # 0
       /\ Spread(fl) # 0
       /\ UpdateVolatilityRegime(px)
       /\ CheckSignal(IF IsNumber(px) THEN RawSignal(Comb(px, fl)) ELSE "Unknown")

RollInterval(p, buy, sell) ==
    LET flow == Direction(buy - sell) IN
    /\ Len(closed) < MaxIntervals
    /\ prices' = Push(prices, p, WindowSize + 1)
    /\ flows' = Push(flows, flow, WindowSize + 1)
    /\ closed' = Append(closed, [price |-> p, flow |-> flow])
    /\ buyVol' = 0 /\ sellVol' = 0
    /\ IF Len(prices') = WindowSize + 1
       THEN Evaluate(prices', Tail(flows'))
       ELSE UNCHANGED <<sigPxs, raws, output>>

\* Has the interval's time passed?  Any time may, and the clock may be set back,
\* which the unsigned difference takes for a very long time.
MaybeRollInterval(passed, p, buy, sell) ==
    /\ timed' = TRUE
    /\ midPrice' = p
    /\ IF timed /\ passed
       THEN RollInterval(p, buy, sell)
       ELSE /\ buyVol' = buy /\ sellVol' = sell
            /\ UNCHANGED <<series, output, closed>>

\* A message with trades; an interval's volume is bounded.
SetPublicTrade(passed) ==
    \E buy \in buyVol .. MaxVolume, sell \in sellVol .. MaxVolume :
        MaybeRollInterval(passed, midPrice, buy, sell)

SetMidPrice(p, passed) == MaybeRollInterval(passed, p, buyVol, sellVol)

-----------------------------------------------------------------------------
Init ==
    /\ midPrice = 0 /\ buyVol = 0 /\ sellVol = 0 /\ timed = FALSE
    /\ prices = <<>> /\ flows = <<>> /\ sigPxs = <<>> /\ raws = <<>>
    /\ volOk = TRUE /\ signal = "Unknown" /\ version = 0
    /\ closed = <<>>

Next ==
    \E passed \in BOOLEAN :
        SetPublicTrade(passed) \/ \E p \in Prices : SetMidPrice(p, passed)

Spec == Init /\ [][Next]_vars

-----------------------------------------------------------------------------
(* The indicator as a function of the history.                             *)

PricesAt(i) == [j \in 1 .. WindowSize + 1 |-> closed[i - WindowSize + j - 1].price]

\* The flows of WindowSize intervals, the last one `lag` intervals back.
FlowsAt(i, lag) == [j \in 1 .. WindowSize |-> closed[i - WindowSize + j - lag].flow]

HasScore(i, lag) ==
    /\ i > WindowSize
    /\ IsNumber(PricesAt(i)) /\ SigPx(PricesAt(i)) > 0
    /\ Spread(FlowsAt(i, lag)) > 0

RawAt(i, lag) ==
    IF HasScore(i, lag) THEN RawSignal(Comb(PricesAt(i), FlowsAt(i, lag))) ELSE "Unknown"

\* The same raw signal for ConfirmIntervals intervals before, and now.
ConfirmedAt(i, lag) ==
    IF i > ConfirmIntervals /\ \A j \in 1 .. ConfirmIntervals : RawAt(i - j, lag) = RawAt(i, lag)
    THEN RawAt(i, lag) ELSE "Unknown"

\* The volatility is compared with that of the last VolWindowSize scored intervals.
CalmAt(i) ==
    LET scored == {j \in 1 .. i : HasScore(j, 0)}
        recent == {j \in scored : Cardinality({k \in scored : k > j}) < VolWindowSize}
        values == [k \in 1 .. VolWindowSize |->
                     LET j == CHOOSE n \in recent : Cardinality({m \in recent : m < n}) = k - 1
                     IN  SigPx(PricesAt(j))]
    IN  \/ VolWindowSize < 2
        \/ /\ Cardinality(recent) = VolWindowSize
           /\ InRegime(SigPx(PricesAt(i)), values)

-----------------------------------------------------------------------------
(* Properties.                                                             *)

\* Whatever was missing, constant or not a number on the way, the four ring buffers
\* hold what they should: the signal is that of the windows over the whole history,
\* confirmed by the raw signals of the intervals right before and admitted by the
\* volatility of the last scored ones (price_flow_divergence.cpp:97-243).
SignalOfHistory ==
    signal = LET i == Len(closed) IN
             IF i = 0 \/ ConfirmedAt(i, 0) = "Unknown" \/ ~CalmAt(i)
             THEN "Unknown" ELSE ConfirmedAt(i, 0)

\* A signal never rests on an interval closed before the first order book: the
\* comparisons let no NaN through, into the buffer of volatilities either
\* (price_flow_divergence.cpp:134, 186-188).
NothingFromNaN ==
    /\ signal # "Unknown" =>
          \A j \in 0 .. WindowSize + ConfirmIntervals : closed[Len(closed) - j].price > 0
    /\ \A k \in 1 .. Len(sigPxs) : sigPxs[k] > 0

\* The signal never turns from Buy to Sell or back from one interval to the next:
\* the confirmation, kept up through intervals without a score, lies between
\* (price_flow_divergence.cpp:134-144, 218-241).
NoWhipsaw ==
    [][signal # "Unknown" /\ signal' # signal => signal' = "Unknown"]_vars
=============================================================================
