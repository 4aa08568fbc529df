---------------------------- MODULE TradeManager ----------------------------
(***************************************************************************)
(* The trade manager of the strategy (trading_strategy/trade_manager): it  *)
(* holds at most one trade, opens it with a limit order (falling back to a *)
(* market order), watches stop loss, take profit and the holding time, and *)
(* closes it with a limit or a market order.                               *)
(*                                                                         *)
(* The module is open: every handler may be called with any input its      *)
(* callers can pass, in any order.  Prices are abstracted to the zone of   *)
(* the current price (beyond the stop loss, beyond the take profit, or     *)
(* inside), quantities to a number of lots, steady-clock differences to    *)
(* "has this timer passed its limit".                                      *)
(***************************************************************************)
EXTENDS Integers, Sequences

CONSTANTS
    DefaultQty,   \* settings::defaultQty, in lots
    MaxTrades,    \* bound on the number of trades started
    HoldTicks,    \* clock ticks that make up settings::tradeTimeOut
    QueueSize     \* OrderSender::maxQueueSize

ASSUME ConstantsAssumption ==
    /\ DefaultQty \in Nat \ {0}
    /\ MaxTrades  \in Nat \ {0}
    /\ HoldTicks  \in Nat \ {0}
    /\ QueueSize  \in Nat \ {0}

Sides     == {"Buy", "Sell"}
NoSide    == "NoSide"
OrderRole == {"OpenLimit", "OpenMarket", "CloseLimit", "CloseMarket"}
Zones     == {"StopLoss", "TakeProfit", "Inside"}
Reasons   == {"None", "TakeProfit", "StopLoss", "Timeout", "InverseSignal", "Manual"}

OpenWaits  == {"openLimit", "cancelOpenLimit", "openMarket"}
CloseWaits == {"closeLimit", "cancelCloseLimit", "closeMarket"}

\* Time since the time point of the order under way (timePlaceOpenOrder_ or
\* timePlaceCloseOrder_): below closeRetryInterval, above it, or above
\* waitOpenLimitOrderTime and waitCloseLimitOrderTime too.
Waited == {"short", "retry", "timeout"}

\* An orderLinkId is a function of the trade number and the order's role.
OrderIds == (0 .. MaxTrades) \X OrderRole

\* "Cancelled" stands for Cancelled, Rejected, Expired and Deactivated, which
\* every handler treats alike; "Other" for the statuses no handler acts on.
OrderEvents == [id : OrderIds, status : {"Filled", "Cancelled", "Other"},
                cum : 0 .. DefaultQty, qty : 0 .. DefaultQty]

\* The answer to a request about order `id`: created, or cancelled, or neither.
Results == [id : OrderIds, success : BOOLEAN]

Requests == [id : OrderIds, side : Sides, qty : 0 .. DefaultQty]

Opposite(s) == IF s = "Buy" THEN "Sell" ELSE "Buy"

VARIABLES
    side,            \* currentTradeSide_, NoSide when it has no value
    tradeIsOpen,     \* tradeIsOpen_
    wait,            \* the wait*_ flags that are set
    openQty, closeQty, pendingCloseQty, closePartiallyFilledQty,
    closeReason,     \* closeReason_
    tradeNumber,     \* currentTrade_.currentTradeNumber
    ordersStatus,    \* keys of currentTrade_.ordersStatus
    held,            \* ticks since startTrade_
    newQueue, cancelQueue   \* what the order sender has accepted and not yet sent

quantities == <<openQty, closeQty, pendingCloseQty, closePartiallyFilledQty>>
queues == <<newQueue, cancelQueue>>
tmState == <<side, tradeIsOpen, wait, quantities, closeReason, tradeNumber,
             ordersStatus, held>>
tmVars == <<tmState, queues>>

TypeOK ==
    /\ side \in Sides \cup {NoSide}
    /\ tradeIsOpen \in BOOLEAN
    /\ wait \subseteq OpenWaits \cup CloseWaits
    /\ openQty \in 0 .. DefaultQty
    /\ closeQty \in Int /\ pendingCloseQty \in Int
    /\ closePartiallyFilledQty \in Nat
    /\ closeReason \in Reasons
    /\ tradeNumber \in 0 .. MaxTrades
    /\ ordersStatus \subseteq OrderIds
    /\ held \in 0 .. HoldTicks
    /\ newQueue \in Seq(Requests) /\ cancelQueue \in Seq(Requests)

-----------------------------------------------------------------------------
(* Helpers shared by the handlers.                                         *)

Id(role)  == <<tradeNumber, role>>
OpenedQty == openQty   \* mutant of Remaining: a part closed already is forgotten
Remaining == openQty - closePartiallyFilledQty
IsCloseInProgress == wait \cap CloseWaits # {}

Silent == UNCHANGED queues
Stay   == Silent /\ UNCHANGED tmState

\* sendOrder: the order sender takes the request (ok) or refuses it, which it
\* does for a full queue; cancels wait in a queue of their own.
SendNew(id, s, q, ok) ==
    /\ ok => Len(newQueue) < QueueSize
    /\ newQueue' = IF ok THEN Append(newQueue, [id |-> id, side |-> s, qty |-> q])
                   ELSE newQueue
    /\ UNCHANGED cancelQueue

SendCancel(id, s, ok) ==
    /\ ok => Len(cancelQueue) < QueueSize
    /\ cancelQueue' = IF ok THEN Append(cancelQueue, [id |-> id, side |-> s, qty |-> 0])
                      ELSE cancelQueue
    /\ UNCHANGED newQueue

ResetTradeState ==
    /\ tradeIsOpen' = FALSE
    /\ wait' = {}
    /\ openQty' = 0
    /\ closeQty' = 0
    /\ pendingCloseQty' = 0
    /\ closePartiallyFilledQty' = 0
    /\ closeReason' = "None"

\* The trade did not come about: resetTradeState() and no side.
Abandon == ResetTradeState /\ side' = NoSide

EnterTrade(order) ==
    /\ tradeIsOpen' = TRUE
    /\ held' = 0
    /\ openQty' = IF order.cum > 0 THEN order.cum
                  ELSE IF order.qty > 0 THEN order.qty ELSE DefaultQty
    /\ wait' = {}
    /\ Silent
    /\ UNCHANGED <<side, closeQty, pendingCloseQty, closePartiallyFilledQty,
                   closeReason, tradeNumber, ordersStatus>>

\* Mutant: the flags of the cancelled limit order stay set.
SendOpenMarketFallbackKeepsFlags(ok) ==
    /\ SendNew(Id("OpenMarket"), side, DefaultQty, ok)
    /\ ordersStatus' = ordersStatus \cup {Id("OpenMarket")}
    /\ IF ok
       THEN /\ wait' = wait \cup {"openMarket"}
            /\ UNCHANGED <<side, tradeIsOpen, quantities, closeReason>>
       ELSE Abandon
    /\ UNCHANGED <<tradeNumber, held>>

SendOpenMarketFallback(ok) ==
    /\ SendNew(Id("OpenMarket"), side, DefaultQty, ok)
    /\ ordersStatus' = ordersStatus \cup {Id("OpenMarket")}
    /\ IF ok
       THEN /\ wait' = (wait \ {"openLimit", "cancelOpenLimit"}) \cup {"openMarket"}
            /\ UNCHANGED <<side, tradeIsOpen, quantities, closeReason>>
       ELSE Abandon
    /\ UNCHANGED <<tradeNumber, held>>

\* Market close of `qty` lots, the close flags other than closeMarket having
\* been set to `w` by the caller.
SendCloseMarket(qty, w, ok) ==
    IF ~tradeIsOpen \/ side = NoSide \/ qty <= 0
    THEN /\ wait' = w
         /\ Silent
         /\ UNCHANGED <<pendingCloseQty, ordersStatus>>
    ELSE /\ SendNew(Id("CloseMarket"), Opposite(side), qty, ok)
         /\ ordersStatus' = ordersStatus \cup {Id("CloseMarket")}
         /\ wait' = IF ok THEN w \cup {"closeMarket"} ELSE w
         /\ pendingCloseQty' = IF ok THEN qty ELSE pendingCloseQty

\* Mutant: the side of the finished trade is kept.
FinishTradeKeepsSide ==
    /\ wait' = wait \ CloseWaits
    /\ tradeIsOpen' = FALSE
    /\ Silent
    /\ UNCHANGED <<side, openQty, tradeNumber, ordersStatus, held>>

FinishTrade ==
    /\ wait' = wait \ CloseWaits
    /\ tradeIsOpen' = FALSE
    /\ side' = NoSide
    /\ Silent
    /\ UNCHANGED <<openQty, tradeNumber, ordersStatus, held>>

CloseTrade(reason, ok) ==
    LET qty == IF openQty > 0 THEN Remaining ELSE DefaultQty IN
    IF ~tradeIsOpen \/ side = NoSide \/ IsCloseInProgress
    THEN Stay
    ELSE /\ closeReason' = reason
         /\ pendingCloseQty' = qty
         /\ UNCHANGED <<closeQty, closePartiallyFilledQty>>
         /\ \/ qty <= 0 /\ FinishTrade
            \/ /\ qty > 0
               /\ SendNew(Id("CloseLimit"), Opposite(side), qty, ok)
               /\ ordersStatus' = ordersStatus \cup {Id("CloseLimit")}
               /\ wait' = IF ok THEN wait \cup {"closeLimit"} ELSE wait
               /\ UNCHANGED <<side, tradeIsOpen, openQty, tradeNumber, held>>

\* Mutant: the market order is sent with the cancel, not after its confirmation.
CancelOpenLimitOrderAndFallBack(ok) ==
    /\ "openLimit" \in wait
    /\ Len(newQueue) < QueueSize /\ Len(cancelQueue) < QueueSize
    /\ cancelQueue' = Append(cancelQueue, [id |-> Id("OpenLimit"), side |-> side, qty |-> 0])
    /\ newQueue' = Append(newQueue, [id |-> Id("OpenMarket"), side |-> side, qty |-> DefaultQty])
    /\ ordersStatus' = ordersStatus \cup {Id("OpenMarket")}
    /\ wait' = (wait \ {"openLimit"}) \cup {"openMarket"}
    /\ UNCHANGED <<side, tradeIsOpen, quantities, closeReason, tradeNumber, held>>

CancelOpenLimitOrder(ok) ==
    /\ "openLimit" \in wait
    /\ SendCancel(Id("OpenLimit"), side, ok)
    /\ IF ok THEN /\ wait' = (wait \ {"openLimit"}) \cup {"cancelOpenLimit"}
             ELSE UNCHANGED wait
    /\ UNCHANGED <<side, tradeIsOpen, quantities, closeReason, tradeNumber,
                   ordersStatus, held>>

CancelCloseLimitOrder(ok) ==
    /\ "closeLimit" \in wait
    /\ SendCancel(Id("CloseLimit"), Opposite(side), ok)
    /\ IF ok THEN /\ wait' = (wait \ {"closeLimit"}) \cup {"cancelCloseLimit"}
             ELSE UNCHANGED wait
    /\ UNCHANGED <<side, tradeIsOpen, quantities, closeReason, tradeNumber,
                   ordersStatus, held>>

\* The confirmation of a cancel is overdue: send it again.
RepeatCancel(role, s, ok) ==
    /\ SendCancel(Id(role), s, ok)
    /\ UNCHANGED <<side, tradeIsOpen, wait, quantities, closeReason, tradeNumber,
                   ordersStatus, held>>

-----------------------------------------------------------------------------
(* Order updates from the private stream.                                  *)

Executed(order) == order.status = "Filled" \/ (order.status = "Cancelled" /\ order.cum > 0)
Unexecuted(order) == order.status = "Cancelled" /\ order.cum = 0

HandleOpenLimitOrder(order, ok) ==
    \/ /\ tradeIsOpen \/ order.status = "Other"
       /\ Stay
    \/ ~tradeIsOpen /\ Executed(order) /\ EnterTrade(order)
    \/ /\ ~tradeIsOpen /\ Unexecuted(order) /\ "openMarket" \notin wait
       /\ SendOpenMarketFallback(ok)
    \/ /\ ~tradeIsOpen /\ Unexecuted(order) /\ "openMarket" \in wait
       /\ wait' = wait \ {"openLimit", "cancelOpenLimit"}
       /\ Silent
       /\ UNCHANGED <<side, tradeIsOpen, quantities, closeReason, tradeNumber,
                      ordersStatus, held>>

HandleOpenMarketOrder(order) ==
    \/ order.status = "Other" /\ Stay
    \/ order.status = "Filled" /\ tradeIsOpen /\ Stay
    \/ order.status = "Filled" /\ ~tradeIsOpen /\ EnterTrade(order)
    \/ order.status = "Cancelled" /\ order.cum > 0 /\ EnterTrade(order)
    \/ /\ Unexecuted(order)
       /\ Abandon
       /\ Silent
       /\ UNCHANGED <<tradeNumber, ordersStatus, held>>

\* Mutant: the part closed before is counted twice.
CloseFilledTwice(qty) ==
    /\ closeQty' = closePartiallyFilledQty + qty
    /\ FinishTrade
    /\ UNCHANGED <<pendingCloseQty, closeReason>>

\* The whole remainder was executed: finishTrade() with `qty` lots closed.
CloseFilled(qty) ==
    /\ closeQty' = qty
    /\ FinishTrade
    /\ UNCHANGED <<pendingCloseQty, closeReason>>

HandleCloseLimitOrder(order, ok) ==
    LET w == wait \ {"closeLimit", "cancelCloseLimit"}
        closed == closePartiallyFilledQty + order.cum IN
    \/ /\ ~tradeIsOpen \/ order.status = "Other"
       /\ Stay
    \/ /\ tradeIsOpen /\ order.status = "Filled"
       /\ CloseFilled(closePartiallyFilledQty
                        + IF order.cum > 0 THEN order.cum ELSE pendingCloseQty)
       /\ UNCHANGED closePartiallyFilledQty
    \/ /\ tradeIsOpen /\ order.status = "Cancelled"
       /\ closePartiallyFilledQty' = closed
       /\ \/ openQty <= closed /\ CloseFilled(closed)
          \/ /\ openQty > closed
             /\ SendCloseMarket(openQty - closed, w, ok)
             /\ UNCHANGED <<side, tradeIsOpen, openQty, closeQty, closeReason,
                            tradeNumber, held>>

\* Mutant: a cancelled market close is forgotten together with its reason.
HandleCloseMarketOrderStartsOver(order) ==
    LET closed == closePartiallyFilledQty
                    + IF order.cum > 0 \/ order.status = "Cancelled" THEN order.cum
                      ELSE pendingCloseQty IN
    \/ order.status = "Other" /\ Stay
    \/ /\ order.status # "Other" /\ (order.status = "Filled" \/ openQty <= closed)
       /\ CloseFilled(closed)
       /\ UNCHANGED closePartiallyFilledQty
    \/ /\ order.status = "Cancelled" /\ openQty > closed
       /\ closePartiallyFilledQty' = closed
       /\ wait' = wait \ {"closeMarket"}
       /\ closeReason' = "None"
       /\ Silent
       /\ UNCHANGED <<side, tradeIsOpen, openQty, closeQty, pendingCloseQty,
                      tradeNumber, ordersStatus, held>>

HandleCloseMarketOrder(order) ==
    LET closed == closePartiallyFilledQty + order.cum IN
    \/ order.status = "Other" /\ Stay
    \/ /\ order.status = "Filled"
       /\ CloseFilled(closePartiallyFilledQty
                        + IF order.cum > 0 THEN order.cum ELSE pendingCloseQty)
       /\ UNCHANGED closePartiallyFilledQty
    \/ /\ order.status = "Cancelled"
       /\ closePartiallyFilledQty' = closed
       /\ \/ openQty <= closed /\ CloseFilled(closed)
          \/ /\ openQty > closed
             /\ wait' = wait \ {"closeMarket"}
             /\ Silent
             /\ UNCHANGED <<side, tradeIsOpen, openQty, closeQty, pendingCloseQty,
                            closeReason, tradeNumber, ordersStatus, held>>

SetOrder(order, ok) ==
    IF order.id \notin ordersStatus \/ side = NoSide
    THEN Stay
    ELSE \/ order.id[2] = "OpenLimit"   /\ HandleOpenLimitOrder(order, ok)
         \/ order.id[2] = "OpenMarket"  /\ HandleOpenMarketOrder(order)
         \/ order.id[2] = "CloseLimit"  /\ HandleCloseLimitOrder(order, ok)
         \/ order.id[2] = "CloseMarket" /\ HandleCloseMarketOrder(order)

-----------------------------------------------------------------------------
(* The answer of the order sender's connection to a request.               *)

\* Mutant: a rejected cancel of the opening limit order gives the trade up.
OnOrderRequestResultGivesUp(result, ok) ==
    LET role == result.id[2] IN
    /\ result.id \in ordersStatus /\ ~result.success /\ side # NoSide
    /\ \/ role = "OpenLimit"  /\ wait \cap {"openLimit", "cancelOpenLimit"} # {}
       \/ role = "OpenMarket" /\ "openMarket" \in wait
    /\ Abandon
    /\ Silent
    /\ UNCHANGED <<tradeNumber, ordersStatus, held>>

OnOrderRequestResult(result, ok) ==
    LET role == result.id[2]
        w    == wait \ {"closeLimit", "cancelCloseLimit"} IN
    IF result.id \notin ordersStatus \/ result.success \/ side = NoSide
    THEN Stay
    ELSE \/ /\ \/ role = "OpenLimit"  /\ "openLimit"  \in wait
               \/ role = "OpenMarket" /\ "openMarket" \in wait
            /\ Abandon
            /\ Silent
            /\ UNCHANGED <<tradeNumber, ordersStatus, held>>
         \/ /\ role = "CloseLimit" /\ w # wait
            /\ \/ /\ Remaining > 0
                  /\ SendCloseMarket(Remaining, w, ok)
                  /\ UNCHANGED <<side, tradeIsOpen, openQty, closeQty,
                        closePartiallyFilledQty, closeReason, tradeNumber, held>>
               \/ /\ Remaining <= 0
                  /\ FinishTrade
                  /\ UNCHANGED <<closeQty, pendingCloseQty,
                                 closePartiallyFilledQty, closeReason>>
         \/ /\ role = "CloseMarket" /\ "closeMarket" \in wait
            /\ wait' = wait \ {"closeMarket"}
            /\ Silent
            /\ UNCHANGED <<side, tradeIsOpen, quantities, closeReason,
                           tradeNumber, ordersStatus, held>>
         \/ /\ \/ role = "OpenLimit"   /\ "openLimit"   \notin wait
               \/ role = "OpenMarket"  /\ "openMarket"  \notin wait
               \/ role = "CloseLimit"  /\ w = wait
               \/ role = "CloseMarket" /\ "closeMarket" \notin wait
            /\ Stay

-----------------------------------------------------------------------------
(* Calls of the strategy.                                                  *)

\* A signal while a trade exists can only restart its holding time.
RefreshTrade(s) ==
    /\ side # NoSide
    /\ held' = IF tradeIsOpen /\ side = s THEN 0 ELSE held
    /\ Silent
    /\ UNCHANGED <<side, tradeIsOpen, wait, quantities, closeReason, tradeNumber,
                   ordersStatus>>

\* Bounded by MaxTrades: the code's trade number is an unbounded counter.
StartTrade(s, ok) ==
    /\ side = NoSide
    /\ tradeNumber < MaxTrades
    /\ tradeNumber' = tradeNumber + 1
    /\ tradeIsOpen' = FALSE
    /\ openQty' = 0 /\ closeQty' = 0
    /\ pendingCloseQty' = 0 /\ closePartiallyFilledQty' = 0
    /\ closeReason' = "None"
    /\ SendNew(<<tradeNumber + 1, "OpenLimit">>, s, DefaultQty, ok)
    /\ IF ok THEN /\ side' = s
                  /\ wait' = {"openLimit"}
                  /\ ordersStatus' = {<<tradeNumber + 1, "OpenLimit">>}
             ELSE /\ side' = NoSide
                  /\ wait' = {}
                  /\ ordersStatus' = {}
    /\ UNCHANGED held

MakeTrade(s, ok) == RefreshTrade(s) \/ StartTrade(s, ok)

RetryClose(ok) ==
    IF ~tradeIsOpen \/ IsCloseInProgress
    THEN Stay
    ELSE \/ /\ Remaining <= 0
            /\ FinishTrade
            /\ UNCHANGED <<closeQty, pendingCloseQty, closePartiallyFilledQty,
                           closeReason>>
         \/ /\ Remaining > 0 /\ closeReason = "StopLoss"
            /\ SendCloseMarket(Remaining, wait, ok)
            /\ UNCHANGED <<side, tradeIsOpen, openQty, closeQty,
                  closePartiallyFilledQty, closeReason, tradeNumber, held>>
         \/ /\ Remaining > 0 /\ closeReason # "StopLoss"
            /\ CloseTrade(closeReason, ok)

CheckSLTP(zone, ok) ==
    IF ~tradeIsOpen \/ zone = "Inside"
    THEN Stay
    ELSE \/ /\ zone = "StopLoss" \/ closePartiallyFilledQty > 0
            /\ closeReason' = IF zone = "StopLoss" THEN "StopLoss" ELSE closeReason
            /\ SendCloseMarket(Remaining, wait, ok)
            /\ UNCHANGED <<side, tradeIsOpen, openQty, closeQty,
                           closePartiallyFilledQty, tradeNumber, held>>
         \/ /\ zone = "TakeProfit" /\ closePartiallyFilledQty = 0
            /\ CloseTrade("TakeProfit", ok)

\* Mutants: timers that are never acted upon.
HoldNeverDue     == FALSE
NeverDue(waited) == FALSE

\* The conditions of checkCurrentPrice, in the order it tests them.  Any
\* time may go by between the step that set a time point and this one.
HoldTimeout                == tradeIsOpen /\ held = HoldTicks /\ ~IsCloseInProgress
OpenLimitTimeout(waited)   == "openLimit" \in wait /\ waited = "timeout"
CancelOpenTimeout(waited)  == "cancelOpenLimit" \in wait /\ waited = "timeout"
CloseLimitTimeout(waited)  == "closeLimit" \in wait /\ "closeMarket" \notin wait /\ waited = "timeout"
CancelCloseTimeout(waited) == "cancelCloseLimit" \in wait /\ waited = "timeout"
RetryDue(waited)           == ~IsCloseInProgress /\ closeReason # "None" /\ waited # "short"

CheckCurrentPrice(zone, waited, ok) ==
    IF side = NoSide                    THEN Stay
    ELSE IF HoldTimeout                 THEN CloseTrade("Timeout", ok)
    ELSE IF OpenLimitTimeout(waited)   THEN CancelOpenLimitOrder(ok)
    ELSE IF CancelOpenTimeout(waited)  THEN RepeatCancel("OpenLimit", side, ok)
    ELSE IF CloseLimitTimeout(waited)  THEN CancelCloseLimitOrder(ok)
    ELSE IF CancelCloseTimeout(waited) THEN RepeatCancel("CloseLimit", Opposite(side), ok)
    ELSE IF RetryDue(waited)           THEN RetryClose(ok)
    ELSE IF IsCloseInProgress           THEN Stay
    ELSE CheckSLTP(zone, ok)

\* Offered to strategies; an open trade waits for no opening order.
CheckInverseSignal(s, ok) ==
    \/ side = NoSide /\ Stay
    \/ "openLimit" \in wait /\ side = s /\ Stay
    \/ "openLimit" \in wait /\ side # s /\ CancelOpenLimitOrder(ok)
    \/ /\ side # NoSide /\ "openLimit" \notin wait
       /\ IF side = s THEN Stay ELSE CloseTrade("InverseSignal", ok)

-----------------------------------------------------------------------------
(* Time.                                                                   *)

\* Counted only while checkCurrentPrice may act on the holding time.
HoldTick ==
    /\ tradeIsOpen /\ ~IsCloseInProgress
    /\ held < HoldTicks
    /\ held' = held + 1
    /\ Silent
    /\ UNCHANGED <<side, tradeIsOpen, wait, quantities, closeReason, tradeNumber,
                   ordersStatus>>

\* The order sender takes requests to the exchange, or loses them.
Take ==
    /\ \E i \in 1 .. Len(newQueue) + 1, n \in 0 .. Len(newQueue) :
          newQueue' = SubSeq(newQueue, i, n)
    /\ \E i \in 1 .. Len(cancelQueue) + 1, n \in 0 .. Len(cancelQueue) :
          cancelQueue' = SubSeq(cancelQueue, i, n)
    /\ UNCHANGED tmState

-----------------------------------------------------------------------------
Init ==
    /\ side = NoSide
    /\ tradeIsOpen = FALSE
    /\ wait = {}
    /\ openQty = 0 /\ closeQty = 0
    /\ pendingCloseQty = 0 /\ closePartiallyFilledQty = 0
    /\ closeReason = "None"
    /\ tradeNumber = 0
    /\ ordersStatus = {}
    /\ held = HoldTicks
    /\ newQueue = <<>> /\ cancelQueue = <<>>

Next ==
    \/ \E ok \in BOOLEAN :
          \/ \E s \in Sides : MakeTrade(s, ok) \/ CheckInverseSignal(s, ok)
          \/ \E order \in OrderEvents : SetOrder(order, ok)
          \/ \E result \in Results : OnOrderRequestResult(result, ok)
          \/ \E zone \in Zones, waited \in Waited :
                CheckCurrentPrice(zone, waited, ok)
          \/ CloseTrade("Manual", ok)
    \/ HoldTick
    \/ Take

Spec == Init /\ [][Next]_tmVars

-----------------------------------------------------------------------------
(* What holds whatever the exchange answers and in whatever order.         *)

\* The six wait flags describe one position in the life of a trade: none is
\* set without a trade, exactly one opening step is awaited until the trade is
\* open, at most one closing step afterwards.  Two flags at once would let
\* checkCurrentPrice drive two orders of one trade; no flag before the trade is
\* open would leave a trade that nothing can finish (trade_manager.cpp:228-614).
WaitDiscipline ==
    /\ side = NoSide => wait = {} /\ ~tradeIsOpen
    /\ tradeIsOpen => wait \subseteq CloseWaits
    /\ side # NoSide /\ ~tradeIsOpen => wait # {} /\ wait \subseteq OpenWaits
    /\ \A f, g \in wait : f = g

\* A trade whose closing was begun remembers why: the retry in checkCurrentPrice
\* (trade_manager.cpp:448-455) is driven by closeReason_ alone, so a close that
\* fails with no reason recorded would never be repeated.
CloseHasReason ==
    tradeIsOpen /\ (wait # {} \/ closePartiallyFilledQty > 0) => closeReason # "None"

\* Only orders of the current trade are known to the manager, and of an unopened
\* trade only its opening orders: a late update of an earlier trade's order, or a
\* closing order's update before the trade is open, is never acted upon
\* (trade_manager.cpp:193-226, trade.cpp:52-68).
KnownOrders ==
    /\ \A id \in ordersStatus : id[1] = tradeNumber
    /\ side # NoSide /\ ~tradeIsOpen =>
          \A id \in ordersStatus : id[2] \in {"OpenLimit", "OpenMarket"}

\* Once a close is begun the trade stays a closing trade until it is finished:
\* no handler takes it back to a trade that nobody is closing
\* (closeReason_ is cleared by resetTradeState alone, trade_manager.cpp:860-882).
ClosingIsFinal ==
    [][tradeIsOpen /\ closeReason # "None" /\ tradeIsOpen' => closeReason' # "None"]_tmVars

=============================================================================
