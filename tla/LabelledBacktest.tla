-------------------------- MODULE LabelledBacktest --------------------------
(***************************************************************************)
(* The labels of the decoders next to the backtester: both judge the same  *)
(* signals over the same prices.                                           *)
(***************************************************************************)
EXTENDS TrailingBacktest, HitLabels

\* The closes, one price a bar, as the logs of the indicators have them.
Closes == [s \in DOMAIN bars |-> bars[s].close]

CloseBars == [s \in DOMAIN bars |-> [high |-> Closes[s], low |-> Closes[s], close |-> Closes[s]]]

ExitOf(e, dir, stop, hold) ==
    Exit(CloseBars, <<>>, e, dir, [x EXCEPT !.sl = stop, !.hold = hold], e + hold)

\* The rows of the decoders, with the seconds they stand for.
RowSecs == InOrder(DOMAIN bars)
RowPrices == [i \in DOMAIN RowSecs |-> Closes[RowSecs[i]]]

\* A label calls a success only what a position with the same target and stop would
\* have gained within the same time: neither a target after a stop nor one beyond the
\* data (decoder_PFD.py:95-108, decoder_LTFI.py:144-184, decoder_OBI.py:110-155).
\* The stop of analyze_signals is one that must be passed, not touched.
HitIsProfit ==
    AtStart => \A dir \in {Buy, Sell}, horizon \in 1 .. x.hold :
        /\ LET hits == HitColumn(RowPrices, dir, horizon, x.tp, x.sl) IN
           \A i \in DOMAIN hits :
              hits[i] => ExitOf(RowSecs[i], dir, x.sl, RowSecs[i + horizon] - RowSecs[i]).reason = "tp"
        /\ \A e \in DOMAIN bars :
              Verdict(Closes, dir, e, horizon, x.tp, x.sl) = "good" =>
                  /\ ExitOf(e, dir, x.sl + 1, horizon).reason = "tp"
                  /\ Success(Closes, dir, e, horizon, x.tp)
=============================================================================
