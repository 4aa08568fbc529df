--------------------------- MODULE TradeLifecycle ---------------------------
(***************************************************************************)
(* What the strategy promises about its account, without orders, messages  *)
(* or timers: one trade at a time; the position grows only while the trade *)
(* is being opened, never beyond one order's quantity, and shrinks only    *)
(* while it is being closed; a trade is over only when the account is flat.*)
(***************************************************************************)
EXTENDS Integers

CONSTANT DefaultQty   \* the quantity of one opening order

VARIABLES
    stage,      \* "idle", "opening", "open" or "closing"
    direction,  \* the side of the trade
    position    \* lots bought minus lots sold

lifecycle == <<stage, direction, position>>

Toward(s) == IF s = "Buy" THEN 1 ELSE -1

Exposure == position * Toward(direction)

Init == stage = "idle" /\ direction = "NoSide" /\ position = 0

Begin ==
    /\ stage = "idle" /\ stage' = "opening"
    /\ direction' \in {"Buy", "Sell"}
    /\ UNCHANGED position

Grow ==
    /\ stage = "opening"
    /\ \E n \in Exposure + 1 .. DefaultQty : position' = n * Toward(direction)
    /\ UNCHANGED <<stage, direction>>

GiveUp ==
    /\ stage = "opening" /\ position = 0
    /\ stage' = "idle" /\ direction' = "NoSide"
    /\ UNCHANGED position

Enter ==
    /\ stage = "opening" /\ position # 0
    /\ stage' = "open"
    /\ UNCHANGED <<direction, position>>

StartClose ==
    /\ stage = "open" /\ stage' = "closing"
    /\ UNCHANGED <<direction, position>>

Shrink ==
    /\ stage = "closing"
    /\ \E n \in 0 .. Exposure - 1 : position' = n * Toward(direction)
    /\ UNCHANGED <<stage, direction>>

Finish ==
    /\ stage = "closing" /\ position = 0
    /\ stage' = "idle" /\ direction' = "NoSide"
    /\ UNCHANGED position

Next == Begin \/ Grow \/ GiveUp \/ Enter \/ StartClose \/ Shrink \/ Finish

Spec == Init /\ [][Next]_lifecycle
=============================================================================
