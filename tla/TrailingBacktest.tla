-------------------------- MODULE TrailingBacktest --------------------------
(***************************************************************************)
(* run_backtest_trailing() of backtest.py: signal after signal, and for    *)
(* each position bar after bar with a stop that follows the best price.    *)
(***************************************************************************)
EXTENDS Backtest, Functions

CONSTANTS
    BarKinds,       \* bars: records [high, low, close]
    LastSec,        \* the seconds are 0 .. LastSec
    ExitRules,      \* the exit rules x
    MaxSignals      \* bound on the number of signals

ASSUME TrailingAssumption ==
    /\ LastSec \in Nat \ {0} /\ MaxSignals \in Nat
    /\ BarKinds \subseteq [high : Nat, low : Nat, close : Nat]
    /\ ExitRules \subseteq [tp : Nat, sl : Nat, hold : Nat, conservative : BOOLEAN,
                            threshold : Nat, act : Nat, dist : Nat]

VARIABLES
    bars, signals, x, end,      \* the arguments; start_ts is 0
    todo,                       \* the signals not looked at yet
    pos,                        \* the position: entry, side, stop, best, and the last bar seen
    lastExit,                   \* last_exit_ts
    trades                      \* the result

input == <<bars, signals, x, end>>
vars  == <<input, todo, pos, lastExit, trades>>

Flat == [entry |-> -1]

TypeOK ==
    /\ todo \subseteq DOMAIN signals
    /\ DOMAIN signals \subseteq DOMAIN bars /\ DOMAIN bars \subseteq Nat
    /\ bars \in [DOMAIN bars -> [high : Nat, low : Nat, close : Nat]]
    /\ signals \in [DOMAIN signals -> {Buy, Sell, 0}]
    /\ x \in ExitRules /\ end \in Nat
    /\ \/ pos = Flat
       \/ pos \in [entry : DOMAIN signals, side : {Buy, Sell}, stop : Int, best : Int, at : Nat]
    /\ lastExit \in Nat \cup {-1}
    /\ trades \in Seq([entry : Nat, side : {Buy, Sell}, entryPx : Nat, exit : Nat,
                       exitPx : Int, reason : {"tp", "sl", "trail", "timeout"}])

-----------------------------------------------------------------------------
EntryPx == Signed(pos.side, bars[pos.entry].close)
InitialStop == EntryPx - x.sl

\* The bars of the position that have not been looked at.
Ahead == Window(bars, pos.at, ScanEnd(pos.entry, x, end))

HitStop(bar) == Worst(pos.side, bar) <= pos.stop
HitProfit(bar) == Best(pos.side, bar) >= EntryPx + x.tp

Close(exit) ==
    /\ trades' = Append(trades, Position(pos.entry, pos.side, bars[pos.entry].close, exit))
    /\ lastExit' = Later(lastExit, exit.ts)
    /\ pos' = Flat
    /\ UNCHANGED <<input, todo>>

Skip ==
    /\ pos = Flat /\ todo # {}
    /\ ~Taken(bars, signals, Min(todo), 0, end, lastExit)
    /\ todo' = todo \ {Min(todo)}
    /\ UNCHANGED <<input, pos, lastExit, trades>>

Enter ==
    /\ pos = Flat /\ todo # {}
    /\ LET e == Min(todo)
           px == Signed(signals[e], bars[e].close)
       IN  /\ Taken(bars, signals, e, 0, end, lastExit)
           /\ pos' = [entry |-> e, side |-> signals[e], stop |-> px - x.sl, best |-> px, at |-> e]
           /\ todo' = todo \ {e}
    /\ UNCHANGED <<input, lastExit, trades>>

\* The stop is that of the bars before; of two hits in a bar `conservative' decides.
StoppedOut ==
    /\ pos # Flat /\ Ahead # {}
    /\ LET k == Min(Ahead) IN
       /\ HitStop(bars[k])
       /\ HitProfit(bars[k]) => x.conservative
       /\ Close([ts |-> k, px |-> Signed(pos.side, pos.stop),
                 reason |-> IF pos.stop # InitialStop THEN "trail" ELSE "sl"])

TakesProfit ==
    /\ pos # Flat /\ Ahead # {}
    /\ LET k == Min(Ahead) IN
       /\ HitProfit(bars[k])
       /\ HitStop(bars[k]) => ~x.conservative
       /\ Close([ts |-> k, px |-> Signed(pos.side, EntryPx + x.tp), reason |-> "tp"])

\* Mutant: the stop follows the price down again.
FollowBoth(best) == IF best >= EntryPx + x.act THEN best - x.dist ELSE pos.stop

\* The stop after a bar that has brought the best price to `best'.
Follow(best) == IF best >= EntryPx + x.act THEN Later(pos.stop, best - x.dist) ELSE pos.stop

Trail ==
    /\ pos # Flat /\ Ahead # {}
    /\ LET k == Min(Ahead)
           best == Later(pos.best, Best(pos.side, bars[k]))
       IN  /\ ~HitStop(bars[k]) /\ ~HitProfit(bars[k])
           /\ pos' = [pos EXCEPT !.at = k, !.best = best, !.stop = Follow(best)]
    /\ UNCHANGED <<input, todo, lastExit, trades>>

HoldEnds ==
    /\ pos # Flat /\ Ahead = {}
    /\ Close(Timeout(bars, pos.entry, ScanEnd(pos.entry, x, end)))

-----------------------------------------------------------------------------
Seconds == 0 .. LastSec

Init ==
    /\ \E S \in SUBSET Seconds : bars \in [S -> BarKinds]
    /\ \E S \in SUBSET DOMAIN bars :
          Cardinality(S) <= MaxSignals /\ signals \in [S -> {Buy, Sell}]
    /\ x \in ExitRules /\ end \in {LastSec - 1, LastSec}
    /\ todo = DOMAIN signals /\ pos = Flat /\ lastExit = -1 /\ trades = <<>>

Next == Skip \/ Enter \/ StoppedOut \/ TakesProfit \/ Trail \/ HoldEnds

Spec == Init /\ [][Next]_vars

-----------------------------------------------------------------------------
(* Properties.                                                             *)

\* "One position at a time; signals while in position are ignored", "trades are
\* clipped to the fold boundary" (pfd_optimizer/README.md): a position begins when
\* all before it have ended, and ends after it began and within the data.
OnePosition ==
    /\ \A i, j \in DOMAIN trades : i < j => trades[i].exit <= trades[j].entry
    /\ \A i \in DOMAIN trades : trades[i].entry <= trades[i].exit /\ trades[i].exit <= end
    /\ pos # Flat => lastExit <= pos.entry

\* The walk from bar to bar finds the trades that follow from the history: the stop a
\* bar is compared with is the one that the best price of the bars before it, and
\* nothing of the bar itself, has earned, and no bar passes a stop unnoticed
\* (backtest.py:397-437).
StopOfHistory ==
    /\ todo = {} /\ pos = Flat => trades = RunBacktestTrailing(bars, signals, x, x, 0, end)
    /\ pos # Flat => pos.stop = StopAfter(bars, pos.entry, pos.side, x, x, pos.at)

\* "Loose trails are equivalent to the baseline", "the NumPy backtester matches a
\* row-by-row reference" (pfd_optimizer/README.md:73, 301): with a trail that is active
\* at the take profit or later the walk from bar to bar finds the trades that the
\* search in arrays finds.
LooseTrailIsBaseline ==
    todo = {} /\ pos = Flat /\ Loose(x, x) =>
        trades = RunBacktest(bars, signals, <<>>, x, 0, end)

\* A score at each bar: the change of the price.
Scores ==
    [s \in {k \in DOMAIN bars : Window(bars, -1, k - 1) # {}} |->
        bars[s].close - bars[Max(Window(bars, -1, s - 1))].close]

\* The properties of the search in arrays need no step of the walk.
AtStart == todo = DOMAIN signals /\ pos = Flat /\ trades = <<>>

UpTo(f, s) == Restrict(f, {k \in DOMAIN f : k <= s})

\* The search in arrays does not look ahead, with exits by the score or without: of
\* the trades up to one of them nothing changes when all data after its exit is
\* taken away (backtest.py:172-268).
NoLookAhead ==
    AtStart =>
        \A scores \in {Scores, <<>>} :
            LET all == RunBacktest(bars, signals, scores, x, 0, end) IN
            \A n \in DOMAIN all :
                LET ts == all[n].exit IN
                IsPrefix(SubSeq(all, 1, n),
                         RunBacktest(UpTo(bars, ts), UpTo(signals, ts), UpTo(scores, ts), x, 0, end))

\* conservative_intrabar is the lower bound: the same positions at the same times,
\* and none of them with a better result (backtest.py:236-246).
ConservativeIsWorse ==
    AtStart =>
        LET Run(c) == RunBacktest(bars, signals, Scores, [x EXCEPT !.conservative = c], 0, end)
            worse == Run(TRUE)
            better == Run(FALSE)
        IN  /\ Len(worse) = Len(better)
            /\ \A n \in DOMAIN worse :
                  /\ worse[n].entry = better[n].entry /\ worse[n].exit = better[n].exit
                  /\ Pnl(worse[n]) <= Pnl(better[n])

=============================================================================
