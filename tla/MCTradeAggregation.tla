------------------------- MODULE MCTradeAggregation -------------------------
(* Rows for the model checker: two trades with a side, three whose side is  *)
(* that of the tick or unknown, and a row without a price.                  *)
EXTENDS TradeAggregation

MCRow(s, p, v, S, L) == [sec |-> s, price |-> p, vol |-> v, S |-> S, L |-> L]

MCRows == {
    MCRow(1, 2, 1, "buy", 2), MCRow(1, 3, 2, "", 4), MCRow(1, 0, 1, "buy", 1),
    MCRow(2, 2, 2, "sell", 1), MCRow(2, 4, 1, "", 0), MCRow(3, 3, 1, "", 3)}

=============================================================================
