----------------------------- MODULE HitLabels ------------------------------
(***************************************************************************)
(* How the programs under decoder/ label a signal a success: decoder_LTFI  *)
(* and decoder_PFD by the rows after it (a horizon of so many minute bars),*)
(* decoder_OBI and decoder_full by the time after it.  `px' is a sequence  *)
(* of prices, `rows' a function from seconds to prices; targets and stops  *)
(* are added to prices.                                                    *)
(***************************************************************************)
EXTENDS Integers, Sequences, FiniteSets, FiniteSetsExt

-----------------------------------------------------------------------------
(* add_hit_cols() of decoder_PFD, build_targets() and ev_series() of       *)
(* decoder_LTFI.                                                           *)

\* Mutant: the stop is not looked at.
TargetReached(px, side, i, horizon, target, stop) ==
    \E k \in i + 1 .. i + horizon : side * px[k] >= side * px[i] + target

\* The target is reached within the horizon and the stop in none of its bars, be it
\* before the target or after.
Hit(px, side, i, horizon, target, stop) ==
    /\ \E k \in i + 1 .. i + horizon : side * px[k] >= side * px[i] + target
    /\ \A k \in i + 1 .. i + horizon : side * px[k] > side * px[i] - stop

\* Without a whole horizon of bars after it a row is no hit.
HitColumn(px, side, horizon, target, stop) ==
    [i \in DOMAIN px |-> i + horizon <= Len(px) /\ Hit(px, side, i, horizon, target, stop)]

-----------------------------------------------------------------------------
(* analyze_signals() of decoder_OBI and decoder_full.                      *)

Future(rows, e, horizon) == {s \in DOMAIN rows : e <= s /\ s <= e + horizon}

\* The stop is looked at first, over the whole horizon.
Verdict(rows, side, e, horizon, target, maxDrawdown) ==
    LET moves == {side * (rows[s] - rows[e]) : s \in Future(rows, e, horizon)} IN
    IF Cardinality(Future(rows, e, horizon)) < 2 THEN "skipped"
    ELSE IF Min(moves) < -maxDrawdown THEN "stopped_out"
    ELSE IF Max(moves) >= target THEN "good" ELSE "false"

AnalyzeSignals(rows, signals, side, horizon, target, maxDrawdown) ==
    LET mine == {s \in DOMAIN signals : signals[s] = side}
        Count(v) == Cardinality({s \in mine :
                                   Verdict(rows, side, s, horizon, target, maxDrawdown) = v})
    IN  [good |-> Count("good"), false |-> Count("false"), stopped |-> Count("stopped_out"),
         total |-> Cardinality(mine)]

\* The last two sections of decoder_full: a success whatever the drawdown.
Success(rows, side, e, horizon, target) ==
    \E s \in Future(rows, e, horizon) : side * (rows[s] - rows[e]) >= target
=============================================================================
