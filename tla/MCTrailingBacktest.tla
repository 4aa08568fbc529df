------------------------- MODULE MCTrailingBacktest -------------------------
(* Bars and exit rules for the model checker: bars that stay, rise, fall     *)
(* and do both; trails that follow at once, closely and from afar, from a    *)
(* profit on, and too late.                                                  *)
EXTENDS LabelledBacktest

MCBar(h, l, c) == [high |-> h, low |-> l, close |-> c]

MCBarKinds == {MCBar(3, 3, 3), MCBar(5, 3, 4), MCBar(3, 1, 2), MCBar(5, 1, 3)}

MCRule(tp, sl, hold, act, dist, conservative) ==
    [tp |-> tp, sl |-> sl, hold |-> hold, act |-> act, dist |-> dist,
     conservative |-> conservative, threshold |-> 1]

MCExitRules == {
    MCRule(3, 2, 4, 1, 1, TRUE), MCRule(3, 2, 4, 0, 1, FALSE),
    MCRule(3, 1, 2, 0, 3, FALSE), MCRule(2, 2, 2, 2, 1, TRUE), MCRule(1, 1, 3, 1, 1, FALSE)}

=============================================================================
