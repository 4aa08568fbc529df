------------------------ MODULE MCOfflineIndicator ------------------------
(* Two combinations that have every filter between them.                  *)
EXTENDS OfflineIndicator

Plain == [reversal |-> FALSE, confirm |-> 0, flowless |-> FALSE,
          ema |-> 0, trend |-> "aligned", strength |-> 0,
          autocorr |-> 0, fade |-> FALSE, vol |-> 0, direction |-> {-1, 1}]

MCFilters ==
    {[Plain EXCEPT !.reversal = TRUE, !.ema = 3, !.trend = "against", !.strength = 10, !.vol = 3],
     [Plain EXCEPT !.confirm = 1, !.flowless = TRUE, !.autocorr = 3, !.fade = TRUE, !.direction = {1}]}
=============================================================================
