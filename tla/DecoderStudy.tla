---------------------------- MODULE DecoderStudy ----------------------------
(***************************************************************************)
(* The programs under decoder/ that choose a threshold of a logged score:  *)
(* decoder_PFD and decoder_LTFI by the expected value on the first part of *)
(* the log, verified on the rest, and decoder_OBI by the accuracy.         *)
(*                                                                         *)
(* A data frame is a record: the columns px, comb and day, one value a     *)
(* minute, `known', whether ret_H has a value, and `hits', the columns of  *)
(* hit labels once they have been added.  The quantiles of a score are     *)
(* replaced by its values.                                                 *)
(***************************************************************************)
EXTENDS HitLabels, SequencesExt

CONSTANTS
    Programs,               \* among "PFD", "LTFI", "OBI"
    Prices, Scores,         \* of the log
    Bars, TrainBars,        \* rows of the log, and int(rows * TRAIN_RATIO), less than Bars
    DayBars,                \* rows of a day, at least one
    Horizon,                \* in rows, at least one
    Target, Stop, Fees,     \* distances from the price, not negative
    Sigma,                  \* the recorded signals are those of this threshold
    MinRows                 \* the least number of signals, at least one

VARIABLES program, frame, step, train, test, choice, report, verified

vars == <<program, frame, step, train, test, choice, report, verified>>

Size(f) == Len(f.px)

\* The rows from one to another, with all their columns.
Slice(f, from, to) ==
    [px |-> SubSeq(f.px, from, to), comb |-> SubSeq(f.comb, from, to),
     day |-> SubSeq(f.day, from, to), known |-> SubSeq(f.known, from, to),
     hits |-> {[long |-> SubSeq(h.long, from, to), short |-> SubSeq(h.short, from, to)] : h \in f.hits}]

\* add_returns(): the last rows have no return yet.
WithReturns(f) == [f EXCEPT !.known = [i \in DOMAIN f.px |-> i + Horizon <= Size(f)]]

Labels(f) ==
    [long |-> HitColumn(f.px, 1, Horizon, Target, Stop),
     short |-> HitColumn(f.px, -1, Horizon, Target, Stop)]

WithLabels(f) == [f EXCEPT !.hits = {Labels(f)}]

-----------------------------------------------------------------------------
(* ev_series() and what chooses with it.                                   *)

Sides == IF program = "PFD" THEN {"long", "short", "two"} ELSE {"long", "short"}

\* decoder_PFD takes thresholds of the absolute score, decoder_LTFI of the score.
Abs(n) == IF n < 0 THEN -n ELSE n
Thresholds(f) ==
    IF program = "PFD" THEN {Abs(n) : n \in Range(f.comb)} \ {0} ELSE Range(f.comb)

IsLong(f, i, side, th) == side # "short" /\ f.comb[i] > th

Selected(f, side, th) ==
    {i \in DOMAIN f.px :
        \/ IsLong(f, i, side, th)
        \/ side # "long" /\ f.comb[i] < IF program = "PFD" THEN -th ELSE th}

\* decoder_PFD uses the columns the frame has, and makes them only when it has none.
HitsOf(f) ==
    IF program = "PFD" /\ f.hits # {} THEN CHOOSE h \in f.hits : TRUE ELSE Labels(f)

\* The expected value of a signal, times the number n of the signals.
Outcome(n, won) == [n |-> n, ev |-> won * Target - (n - won) * Stop - n * Fees]

EvSeries(f, hits, side, th) ==
    LET rows == Selected(f, side, th)
        Won(i) == IF IsLong(f, i, side, th) THEN hits.long[i] ELSE hits.short[i]
        won == Cardinality({i \in rows : Won(i) /\ (program = "PFD" => f.known[i])})
    IN  [side |-> side, th |-> th] @@ Outcome(Cardinality(rows), won)

NotWorse(r, s) == r.ev * s.n >= s.ev * r.n

\* The first best threshold of each side.
BestOfSides(f, hits) ==
    LET rows == {r \in {EvSeries(f, hits, side, th) : side \in Sides, th \in Thresholds(f)} :
                    r.n >= MinRows}
    IN  {r \in rows : \A s \in {t \in rows : t.side = r.side} :
                         NotWorse(r, s) /\ (s.th < r.th => ~NotWorse(s, r))}

\* grid_search(), and the first row of what it finds.
GridSearch(f) ==
    LET rows == BestOfSides(f, HitsOf(f)) IN {r \in rows : \A s \in rows : NotWorse(r, s)}

\* evaluate_config() of decoder_LTFI goes to the nearest threshold of the frame's own.
Evaluated(f, cfg) ==
    LET tried == IF program = "PFD" THEN {cfg.th} ELSE Thresholds(f)
        rows == {r \in {EvSeries(f, HitsOf(f), cfg.side, th) : th \in tried} : r.n >= MinRows}
        Distance(r) == Abs(r.th - cfg.th)
    IN  {r \in rows : \A s \in rows : /\ Distance(r) <= Distance(s)
                                     /\ s.th < r.th => Distance(r) < Distance(s)}

\* per_day() and per_day_ev(): every day of the frame by itself.
PerDay(f, cfg) ==
    [d \in Range(f.day) |->
        LET rows == {i \in DOMAIN f.day : f.day[i] = d}
        IN  Evaluated(Slice(f, Min(rows), Max(rows)), cfg)]

\* threshold_report() of decoder_PFD.  threshold_eval() of decoder_LTFI leaves out the
\* rows without a return, and has the labels of the others from the whole log.
ThresholdReport(f) ==
    LET rows == IF program = "PFD" THEN f ELSE Slice(f, 1, Size(f) - Horizon)
    IN  BestOfSides(rows, CHOOSE h \in rows.hits : TRUE)

\* live_signals(): the signals the strategy has recorded.
LiveSignals(f) ==
    LET hits == CHOOSE h \in f.hits : TRUE
        Report(rows, column) == Outcome(Cardinality(rows), Cardinality({i \in rows : column[i]}))
    IN  [long |-> Report({i \in DOMAIN f.comb : f.comb[i] >= Sigma}, hits.long),
         short |-> Report({i \in DOMAIN f.comb : f.comb[i] <= -Sigma}, hits.short)]

-----------------------------------------------------------------------------
(* optimize_z_threshold() of decoder_OBI.                                  *)

\* The rows beyond the threshold, which are all that analyze_signals() is given: it
\* looks for the future of a signal among them too.
Accuracy(f, th) ==
    LET Beyond(side) ==
            LET rows == {i \in DOMAIN f.px : side * f.comb[i] >= th}
                signals == [i \in rows |-> IF f.comb[i] >= Sigma THEN 1
                                           ELSE IF f.comb[i] <= -Sigma THEN -1 ELSE 0]
            IN  AnalyzeSignals([i \in rows |-> f.px[i]], signals, side, Horizon, Target, Stop)
    IN  [good |-> Beyond(1).good + Beyond(-1).good, total |-> Beyond(1).total + Beyond(-1).total]

\* Chosen is the threshold with the best accuracy on the test.
OptimizeZThreshold(f, rest) ==
    LET tried == {th \in {Abs(n) : n \in Scores} :
                    Accuracy(f, th).total >= MinRows /\ Accuracy(rest, th).total >= MinRows}
        Better(a, b) == Accuracy(rest, a).good * Accuracy(rest, b).total
                           > Accuracy(rest, b).good * Accuracy(rest, a).total
    IN  {[side |-> "two", th |-> th, n |-> Accuracy(f, th).total, ev |-> Accuracy(f, th).good] :
            th \in {a \in tried : \A b \in tried : ~Better(b, a)}}

-----------------------------------------------------------------------------
(* main(): the steps, one after the other.                                 *)

Then(from, to) == step = from /\ step' = to

AddReturns ==
    /\ program # "OBI" /\ Then("loaded", "returns")
    /\ frame' = WithReturns(frame)
    /\ UNCHANGED <<program, train, test, choice, report, verified>>

\* base_rate() labels the whole log, build_targets() does too.
BaseRate ==
    /\ Then("returns", "labelled")
    /\ frame' = WithLabels(frame)
    /\ UNCHANGED <<program, train, test, choice, report, verified>>

\* What is printed of the whole log.
WholeLog ==
    /\ Then("labelled", "reported")
    /\ report' = {[thresholds |-> ThresholdReport(frame),
                   live |-> IF program = "PFD" THEN {LiveSignals(frame)} ELSE {}]}
    /\ UNCHANGED <<program, frame, train, test, choice, verified>>

SplitFrame ==
    /\ Then(IF program = "OBI" THEN "loaded" ELSE "reported", "split")
    /\ train' = Slice(frame, 1, TrainBars)
    /\ test' = Slice(frame, TrainBars + 1, Bars)
    /\ UNCHANGED <<program, frame, choice, report, verified>>

Candidates(f, rest) == IF program = "OBI" THEN OptimizeZThreshold(f, rest) ELSE GridSearch(f)

Choose ==
    /\ Then("split", "chosen")
    /\ \/ choice' \in {{r} : r \in Candidates(train, test)}
       \/ Candidates(train, test) = {} /\ choice' = {}
    /\ UNCHANGED <<program, frame, train, test, report, verified>>

\* The days of the test are evaluated too, by decoder_PFD when the test is.
Verify ==
    /\ program # "OBI" /\ Then("chosen", "verified")
    /\ verified' = {[test |-> Evaluated(test, cfg),
                     days |-> IF program = "PFD" /\ Evaluated(test, cfg) = {} THEN {}
                              ELSE {PerDay(test, cfg)}] : cfg \in choice}
    /\ UNCHANGED <<program, frame, train, test, choice, report>>

Init ==
    /\ program \in Programs
    /\ \E px \in [1 .. Bars -> Prices], comb \in [1 .. Bars -> Scores] :
          frame = [px |-> px, comb |-> comb, day |-> [i \in 1 .. Bars |-> (i - 1) \div DayBars],
                   known |-> [i \in 1 .. Bars |-> FALSE], hits |-> {}]
    /\ step = "loaded" /\ train = frame /\ test = frame
    /\ choice = {} /\ report = {} /\ verified = {}

Next == AddReturns \/ BaseRate \/ WholeLog \/ SplitFrame \/ Choose \/ Verify

Spec == Init /\ [][Next]_vars

-----------------------------------------------------------------------------
\* "What is checked (without looking ahead)", "grid-search of the threshold on train (by
\* time), verification of EV on test" (decoder_PFD.py:11, 17): the choice of decoder_PFD
\* is one that the rows of the training, and nothing after them, lead to.
ChosenOnTrain ==
    program = "PFD" =>
        LET Threshold(rows) == {[side |-> r.side, th |-> r.th] : r \in rows}
            alone == WithReturns(Slice([frame EXCEPT !.hits = {}], 1, TrainBars))
        IN  Threshold(choice) \subseteq Threshold(GridSearch(alone))
=============================================================================
