------------------------------ MODULE Backtest ------------------------------
(***************************************************************************)
(* The backtesters of research_on_data/pfd_optimizer/backtest.py over      *)
(* recorded one-second bars: run_backtest, which finds the exit of a       *)
(* position by searching arrays, and run_backtest_trailing, which walks    *)
(* from bar to bar (see TrailingBacktest), as operators.  Both take the    *)
(* signals of one part of the data and hold at most one position.          *)
(*                                                                         *)
(* Time is counted in seconds and `bars' is a function from the seconds    *)
(* that have a bar.  Take profit, stop loss and the distances of the       *)
(* trailing stop are added to prices instead of multiplied with them.      *)
(* This keeps the order of thresholds taken from the same price, as take   *)
(* profit and activation are from the entry; how a stop taken from the     *)
(* best price compares with one taken from the entry it does not keep, and *)
(* no property speaks of it.                                               *)
(***************************************************************************)
EXTENDS Integers, SequencesExt, FiniteSetsExt

CONSTANT Fee    \* 2 * fee of a position

ASSUME BacktestAssumption == Fee \in Nat

Buy  == 1
Sell == -1

(* The exit rules are a record x:                                          *)
(*    tp, sl, hold    take_profit, stop_loss, max_hold_sec                 *)
(*    conservative    conservative_intrabar                                *)
(*    threshold       exit_score_threshold                                 *)
(*    act, dist       trail_activation, trail_distance                     *)

-----------------------------------------------------------------------------
(* A position seen from its side: what is good for it is up.               *)

Signed(dir, p) == dir * p

\* The best and the worst price of a bar for the position.
Best(dir, bar)  == IF dir = Buy THEN bar.high ELSE -bar.low
Worst(dir, bar) == IF dir = Buy THEN bar.low ELSE -bar.high

\* The bars strictly after the entry second.
Window(bs, e, to) == {s \in DOMAIN bs : e < s /\ s <= to}

\* Mutant: beyond the data of the part.
ScanEndUnclipped(e, x, end) == e + x.hold

ScanEnd(e, x, end) == IF e + x.hold < end THEN e + x.hold ELSE end

Pnl(t) == t.side * (t.exitPx - t.entryPx) - Fee

Position(e, dir, px, exit) ==
    [entry |-> e, side |-> dir, entryPx |-> px,
     exit |-> exit.ts, exitPx |-> exit.px, reason |-> exit.reason]

-----------------------------------------------------------------------------
(* run_backtest().                                                         *)

ProfitBars(bs, e, dir, x, end) ==
    {s \in Window(bs, e, ScanEnd(e, x, end)) :
        Best(dir, bs[s]) >= Signed(dir, bs[e].close) + x.tp}

StopBars(bs, e, dir, x, end) ==
    {s \in Window(bs, e, ScanEnd(e, x, end)) :
        Worst(dir, bs[s]) <= Signed(dir, bs[e].close) - x.sl}

\* Mutants: a bar that touches both always pays; the flag the other way round.
StopComesStrictlyFirst(tpBars, slBars, x) ==
    slBars # {} /\ (tpBars = {} \/ Min(slBars) < Min(tpBars))

StopComesFirstInverted(tpBars, slBars, x) ==
    /\ slBars # {}
    /\ \/ tpBars = {}
       \/ Min(slBars) < Min(tpBars)
       \/ Min(slBars) = Min(tpBars) /\ ~x.conservative

\* Which of the two is touched first; `conservative' decides a bar that touches both.
StopComesFirst(tpBars, slBars, x) ==
    /\ slBars # {}
    /\ \/ tpBars = {}
       \/ Min(slBars) < Min(tpBars)
       \/ Min(slBars) = Min(tpBars) /\ x.conservative

\* Mutant: the last close there is, beyond the holding.
TimeoutAtLastBar(bs, e, to) ==
    IF Window(bs, e, to) = {} THEN [ts |-> e, px |-> bs[e].close, reason |-> "timeout"]
    ELSE [ts |-> to, px |-> bs[Max(DOMAIN bs)].close, reason |-> "timeout"]

\* The close of the bar at the end of the holding, or of the last one before it;
\* without a bar the position is closed where it was opened.
Timeout(bs, e, to) ==
    LET window == Window(bs, e, to) IN
    IF window = {} THEN [ts |-> e, px |-> bs[e].close, reason |-> "timeout"]
    ELSE [ts |-> to, px |-> bs[Max(window)].close, reason |-> "timeout"]

PriceExit(bs, e, dir, x, end) ==
    LET tpBars == ProfitBars(bs, e, dir, x, end)
        slBars == StopBars(bs, e, dir, x, end)
        px == bs[e].close
    IN  IF tpBars \cup slBars = {} THEN Timeout(bs, e, ScanEnd(e, x, end))
        ELSE IF StopComesFirst(tpBars, slBars, x)
        THEN [ts |-> Min(slBars), px |-> px - dir * x.sl, reason |-> "sl"]
        ELSE [ts |-> Min(tpBars), px |-> px + dir * x.tp, reason |-> "tp"]

\* The seconds after the entry whose score has turned against the position.
TurnedScores(scores, e, dir, x, end) ==
    {s \in DOMAIN scores :
        /\ e < s /\ s <= ScanEnd(e, x, end)
        /\ dir * scores[s] <= -x.threshold}

\* The score closes a position only before its price does.
Exit(bs, scores, e, dir, x, end) ==
    LET exit == PriceExit(bs, e, dir, x, end)
        turned == TurnedScores(scores, e, dir, x, end)
    IN  IF turned # {} /\ Min(turned) < exit.ts
        THEN [ts |-> Min(turned), px |-> bs[Min(turned)].close, reason |-> "signal"]
        ELSE exit

\* Mutant: also while in a position.
TakenAlways(bs, signals, e, start, end, lastExit) ==
    signals[e] # 0 /\ start <= e /\ e <= end /\ bs[e].close > 0

\* The signals that are not passed over: in the part, with a side, at a price, and
\* not before the last exit.
Taken(bs, signals, e, start, end, lastExit) ==
    /\ signals[e] # 0
    /\ start <= e /\ e <= end
    /\ lastExit <= e
    /\ bs[e].close > 0

Later(a, b) == IF a < b THEN b ELSE a

\* The elements of a set from the first to the last: each at the place that is the
\* number of those up to it.
InOrder(S) ==
    [i \in 1 .. Cardinality(S) |-> CHOOSE s \in S : Cardinality({k \in S : k <= s}) = i]

\* The elements of a sequence at some of its places.
Picked(s, places) == LET order == InOrder(places) IN [n \in DOMAIN order |-> s[order[n]]]

\* What a signal adds to the trades made before it; `exits' tells how the position of
\* each signal ends.
TakeSignal(bs, signals, exits, start, end, e, done) ==
    IF ~Taken(bs, signals, e, start, end, done.lastExit) THEN done
    ELSE LET t == Position(e, signals[e], bs[e].close, exits[e])
         IN  [trades |-> Append(done.trades, t), lastExit |-> Later(done.lastExit, t.exit)]

NoTrades == [trades |-> <<>>, lastExit |-> -1]

\* The signals from the first to the last: the last one is taken after all others.
RunSignals(bs, signals, exits, start, end) ==
    MapThenFoldSet(LAMBDA e, done : TakeSignal(bs, signals, exits, start, end, e, done),
                   NoTrades, LAMBDA e : e, LAMBDA S : Max(S), DOMAIN signals).trades

\* take_profit_arr and stop_loss_arr: every signal has exit rules of its own.
RunBacktestBy(bs, signals, scores, rules, start, end) ==
    LET exits == [e \in DOMAIN signals |-> Exit(bs, scores, e, signals[e], rules[e], end)]
    IN  RunSignals(bs, signals, exits, start, end)

RunBacktest(bs, signals, scores, x, start, end) ==
    RunBacktestBy(bs, signals, scores, [e \in DOMAIN signals |-> x], start, end)

-----------------------------------------------------------------------------
(* run_backtest_trailing(), without its walk from bar to bar, which        *)
(* TrailingBacktest has.                                                   *)

\* The best price of a position from its entry up to a second.
BestUpTo(bs, e, dir, s) ==
    Max({Signed(dir, bs[e].close)} \cup {Best(dir, bs[k]) : k \in Window(bs, e, s)})

\* The stop that the bars up to a second have earned a position: none has moved it
\* before the first of them, even if it follows from the entry on.
StopAfter(bs, e, dir, x, trail, s) ==
    LET px == Signed(dir, bs[e].close)
        best == BestUpTo(bs, e, dir, s)
    IN  IF Window(bs, e, s) # {} /\ best >= px + trail.act
        THEN Later(px - x.sl, best - trail.dist) ELSE px - x.sl

TrailingExit(bs, e, dir, x, trail, end) ==
    LET to == ScanEnd(e, x, end)
        px == bs[e].close
        StopAt(k) == StopAfter(bs, e, dir, x, trail, k - 1)
        tpBars == ProfitBars(bs, e, dir, x, end)
        slBars == {k \in Window(bs, e, to) : Worst(dir, bs[k]) <= StopAt(k)}
    IN  IF tpBars \cup slBars = {} THEN Timeout(bs, e, to)
        ELSE IF StopComesFirst(tpBars, slBars, x)
        THEN [ts |-> Min(slBars), px |-> Signed(dir, StopAt(Min(slBars))),
              reason |-> IF StopAt(Min(slBars)) # Signed(dir, px) - x.sl THEN "trail" ELSE "sl"]
        ELSE [ts |-> Min(tpBars), px |-> px + dir * x.tp, reason |-> "tp"]

RunBacktestTrailing(bs, signals, x, trail, start, end) ==
    LET exits == [e \in DOMAIN signals |-> TrailingExit(bs, e, signals[e], x, trail, end)]
    IN  RunSignals(bs, signals, exits, start, end)

\* A trail that cannot come into play: before it is active, the profit is taken.  Of a
\* trail that is only far away this cannot be said: its stop is a multiple of the best
\* price and not of the entry (backtest.py:437).
Loose(x, trail) == trail.act >= x.tp
=============================================================================
