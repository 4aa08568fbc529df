------------------------ MODULE TradingSystemProofs ------------------------
(***************************************************************************)
(* The invariants of TradeManager, for every quantity, number of trades,   *)
(* holding time and queue size, and whatever the exchange answers in       *)
(* whatever order; and of TradingSystem, which implements the open trade   *)
(* manager, whatever fails, so that the theorems about the manager hold in *)
(* it.  In the second half the lots of the account: it is flat when no     *)
(* trade is held, what is left to close covers what is held, and the       *)
(* system implements TradeLifecycle.                                       *)
(*                                                                         *)
(* None of the invariants is inductive alone.  That a closing flag or a    *)
(* closed part implies a reason needs that orders of the closing roles     *)
(* exist only in a trade with a reason; that needs the discipline of the   *)
(* wait flags; and that discipline needs that an update for a closing      *)
(* order cannot arrive before the trade is open.  IInv joins them.         *)
(***************************************************************************)
EXTENDS TradingSystem, SequenceTheorems, FiniteSetTheorems, TLAPS

-----------------------------------------------------------------------------
(* The manager.                                                            *)

OpenRoles == {"OpenLimit", "OpenMarket"}

\* While nobody closes the trade nothing of it is closed, no closing order is
\* awaited, and none is known to the manager.
ReasonKnown ==
    side # NoSide /\ closeReason = "None" =>
        /\ closePartiallyFilledQty = 0
        /\ wait \cap CloseWaits = {}
        /\ \A id \in ordersStatus : id[2] \in OpenRoles

IInv == TypeOK /\ WaitDiscipline /\ KnownOrders /\ ReasonKnown

\* The step promised by ClosingIsFinal.
ReasonKept ==
    tradeIsOpen /\ closeReason # "None" /\ tradeIsOpen' => closeReason' # "None"

-----------------------------------------------------------------------------
(* What the requests to the order sender look like.                        *)

\* An id of the current trade is an order id.
LEMMA IdTyped ==
    ASSUME TypeOK, NEW role \in OrderRole
    PROVE  Id(role) \in OrderIds
BY DEF TypeOK, Id, OrderIds

LEMMA OppositeTyped ==
    ASSUME NEW s \in Sides
    PROVE  Opposite(s) \in Sides
BY DEF Sides, Opposite

\* Sending keeps both queues sequences of requests (order_sender.cpp:46-87).
LEMMA SendNewTyped ==
    ASSUME TypeOK, NEW id \in OrderIds, NEW s \in Sides, NEW q \in 0 .. DefaultQty,
           NEW ok \in BOOLEAN, SendNew(id, s, q, ok)
    PROVE  newQueue' \in Seq(Requests) /\ cancelQueue' \in Seq(Requests)
<1> DEFINE r == [id |-> id, side |-> s, qty |-> q]
<1>1. r \in Requests
  BY DEF Requests
<1>2. newQueue \in Seq(Requests) /\ cancelQueue \in Seq(Requests)
  BY DEF TypeOK
<1>3. Append(newQueue, r) \in Seq(Requests)
  BY <1>1, <1>2, AppendProperties
<1> QED
  BY <1>2, <1>3 DEF SendNew

LEMMA SendCancelTyped ==
    ASSUME TypeOK, NEW id \in OrderIds, NEW s \in Sides,
           NEW ok \in BOOLEAN, SendCancel(id, s, ok)
    PROVE  newQueue' \in Seq(Requests) /\ cancelQueue' \in Seq(Requests)
<1> DEFINE r == [id |-> id, side |-> s, qty |-> 0]
<1>1. r \in Requests
  BY ConstantsAssumption DEF ConstantsAssumption, Requests
<1>2. newQueue \in Seq(Requests) /\ cancelQueue \in Seq(Requests)
  BY DEF TypeOK
<1>3. Append(cancelQueue, r) \in Seq(Requests)
  BY <1>1, <1>2, AppendProperties
<1> QED
  BY <1>2, <1>3 DEF SendCancel

\* A step that changes nothing.
LEMMA StayKeeps ==
    ASSUME IInv, Stay
    PROVE  IInv' /\ ReasonKept
BY DEF IInv, Stay, Silent, queues, tmState, quantities, TypeOK, WaitDiscipline,
       KnownOrders, ReasonKnown, ReasonKept

-----------------------------------------------------------------------------
(* The steps several handlers share.                                       *)

\* resetTradeState() and no side (trade_manager.cpp:860-882 with its callers).
LEMMA AbandonKeeps ==
    ASSUME IInv, Abandon,
           newQueue' \in Seq(Requests), cancelQueue' \in Seq(Requests),
           ordersStatus' \subseteq OrderIds,
           \A id \in ordersStatus' : id[1] = tradeNumber',
           UNCHANGED <<tradeNumber, held>>
    PROVE  IInv' /\ ReasonKept
<1>1. TypeOK'
  <2>1. side' \in Sides \cup {NoSide} /\ tradeIsOpen' \in BOOLEAN
    BY DEF Abandon, ResetTradeState
  <2>2. wait' \subseteq OpenWaits \cup CloseWaits /\ closeReason' \in Reasons
    BY DEF Abandon, ResetTradeState, Reasons
  <2>3. openQty' \in 0 .. DefaultQty
    BY ConstantsAssumption DEF Abandon, ResetTradeState, ConstantsAssumption
  <2>4. closeQty' \in Int /\ pendingCloseQty' \in Int /\ closePartiallyFilledQty' \in Nat
    BY DEF Abandon, ResetTradeState
  <2> QED
    BY <2>1, <2>2, <2>3, <2>4 DEF IInv, TypeOK
<1>2. WaitDiscipline' /\ KnownOrders' /\ ReasonKnown' /\ ReasonKept
  BY DEF Abandon, ResetTradeState, WaitDiscipline, KnownOrders, ReasonKnown, ReasonKept
<1> QED
  BY <1>1, <1>2 DEF IInv

LEMMA EnterTradeKeeps ==
    ASSUME IInv, side # NoSide,
           NEW order \in OrderEvents, EnterTrade(order)
    PROVE  IInv' /\ ReasonKept
<1>1. order.cum \in 0 .. DefaultQty /\ order.qty \in 0 .. DefaultQty
  BY DEF OrderEvents
<1>2. TypeOK'
  BY <1>1, ConstantsAssumption
     DEF IInv, EnterTrade, TypeOK, Silent, queues, ConstantsAssumption
<1>3. WaitDiscipline' /\ KnownOrders' /\ ReasonKnown' /\ ReasonKept
  BY DEF IInv, EnterTrade, WaitDiscipline, KnownOrders, ReasonKnown, ReasonKept
<1> QED
  BY <1>2, <1>3 DEF IInv

\* finishTrade() of an open trade.
LEMMA FinishKeeps ==
    ASSUME IInv, tradeIsOpen, FinishTrade,
           closeQty' \in Int, pendingCloseQty' \in Int,
           closePartiallyFilledQty' \in Nat, closeReason' \in Reasons
    PROVE  IInv' /\ ReasonKept
<1>1. wait' = {}
  BY DEF IInv, FinishTrade, WaitDiscipline
<1>2. TypeOK'
  BY <1>1 DEF IInv, FinishTrade, TypeOK, Silent, queues
<1>3. WaitDiscipline' /\ KnownOrders' /\ ReasonKnown' /\ ReasonKept
  BY <1>1 DEF IInv, FinishTrade, WaitDiscipline, KnownOrders, ReasonKnown, ReasonKept
<1> QED
  BY <1>2, <1>3 DEF IInv

\* A market close of an open trade that has a reason and, apart from the flags
\* the caller clears, no closing order under way.
LEMMA SendCloseMarketKeeps ==
    ASSUME IInv, tradeIsOpen, NEW qty \in Int, qty <= DefaultQty, NEW w, NEW ok \in BOOLEAN,
           w = {} \/ w = {"closeMarket"},
           SendCloseMarket(qty, w, ok),
           closeReason' \in Reasons \ {"None"}, closePartiallyFilledQty' \in Nat,
           UNCHANGED <<side, tradeIsOpen, openQty, closeQty, tradeNumber, held>>
    PROVE  IInv' /\ ReasonKept
<1>1. side \in Sides
  BY DEF IInv, WaitDiscipline, TypeOK
<1>2. Opposite(side) \in Sides /\ Id("CloseMarket") \in OrderIds
  BY <1>1, OppositeTyped, IdTyped DEF IInv, OrderRole
<1>3. newQueue' \in Seq(Requests) /\ cancelQueue' \in Seq(Requests)
  <2>1. CASE qty <= 0
    BY <1>1, <2>1 DEF SendCloseMarket, Silent, queues, IInv, TypeOK
  <2>2. CASE ~(qty <= 0)
    <3>1. qty \in 0 .. DefaultQty
      BY <2>2, ConstantsAssumption DEF ConstantsAssumption
    <3> QED
      BY <1>1, <1>2, <2>2, <3>1, SendNewTyped DEF SendCloseMarket, IInv, Sides, NoSide
  <2> QED
    BY <2>1, <2>2
<1>4. /\ wait' = {} \/ wait' = {"closeMarket"}
      /\ pendingCloseQty' \in Int
      /\ ordersStatus' \subseteq ordersStatus \cup {Id("CloseMarket")}
  BY DEF SendCloseMarket, IInv, TypeOK
<1>5. TypeOK'
  BY <1>2, <1>3, <1>4 DEF IInv, TypeOK, CloseWaits
<1>6. WaitDiscipline' /\ KnownOrders' /\ ReasonKnown' /\ ReasonKept
  BY <1>1, <1>4 DEF IInv, WaitDiscipline, KnownOrders, ReasonKnown, ReasonKept,
     Id, CloseWaits, Sides, NoSide
<1> QED
  BY <1>5, <1>6 DEF IInv

LEMMA CloseTradeKeeps ==
    ASSUME IInv, NEW reason \in Reasons \ {"None"},
           NEW ok \in BOOLEAN, CloseTrade(reason, ok)
    PROVE  IInv' /\ ReasonKept
<1> DEFINE qty == IF openQty > 0 THEN Remaining ELSE DefaultQty
<1>1. CASE ~tradeIsOpen \/ side = NoSide \/ IsCloseInProgress
  BY <1>1, StayKeeps DEF CloseTrade
<1>2. CASE ~(~tradeIsOpen \/ side = NoSide \/ IsCloseInProgress)
  <2>1. qty \in Int /\ qty <= DefaultQty
    BY ConstantsAssumption DEF IInv, TypeOK, Remaining, ConstantsAssumption
  <2>2. /\ closeReason' = reason /\ pendingCloseQty' = qty
        /\ UNCHANGED <<closeQty, closePartiallyFilledQty>>
    BY <1>2 DEF CloseTrade
  <2>3. CASE qty <= 0
    <3>1. FinishTrade
      BY <1>2, <2>1, <2>3 DEF CloseTrade
    <3> QED
      BY <1>2, <2>1, <2>2, <3>1, FinishKeeps DEF IInv, TypeOK
  <2>4. CASE ~(qty <= 0)
    <3>1. /\ SendNew(Id("CloseLimit"), Opposite(side), qty, ok)
          /\ ordersStatus' = ordersStatus \cup {Id("CloseLimit")}
          /\ wait' = IF ok THEN wait \cup {"closeLimit"} ELSE wait
          /\ UNCHANGED <<side, tradeIsOpen, openQty, tradeNumber, held>>
      BY <1>2, <2>1, <2>4 DEF CloseTrade
    <3>2. side \in Sides /\ wait = {}
      BY <1>2 DEF IInv, WaitDiscipline, TypeOK, IsCloseInProgress
    <3>3. Opposite(side) \in Sides /\ Id("CloseLimit") \in OrderIds
      BY <3>2, OppositeTyped, IdTyped DEF IInv, OrderRole
    <3>4. newQueue' \in Seq(Requests) /\ cancelQueue' \in Seq(Requests)
      BY <2>1, <2>4, <3>1, <3>3, SendNewTyped DEF IInv
    <3>5. TypeOK'
      BY <2>1, <2>2, <3>1, <3>2, <3>3, <3>4 DEF IInv, TypeOK, CloseWaits
    <3>6. WaitDiscipline' /\ KnownOrders' /\ ReasonKnown' /\ ReasonKept
      BY <1>2, <2>2, <3>1, <3>2 DEF IInv, WaitDiscipline, KnownOrders, ReasonKnown,
         ReasonKept, Id, CloseWaits
    <3> QED
      BY <3>5, <3>6 DEF IInv
  <2> QED
    BY <2>3, <2>4
<1> QED
  BY <1>1, <1>2

-----------------------------------------------------------------------------
(* The handlers.                                                           *)

\* A cancel request for an order of the trade under way.
LEMMA SendCancelKeeps ==
    ASSUME IInv, side # NoSide, NEW role \in OrderRole, NEW s \in Sides,
           NEW ok \in BOOLEAN, SendCancel(Id(role), s, ok),
           \/ UNCHANGED wait
           \/ "openLimit" \in wait /\ wait' = (wait \ {"openLimit"}) \cup {"cancelOpenLimit"}
           \/ "closeLimit" \in wait /\ wait' = (wait \ {"closeLimit"}) \cup {"cancelCloseLimit"},
           UNCHANGED <<side, tradeIsOpen, quantities, closeReason, tradeNumber,
                       ordersStatus, held>>
    PROVE  IInv' /\ ReasonKept
<1>1. Id(role) \in OrderIds
  BY IdTyped DEF IInv
<1>2. newQueue' \in Seq(Requests) /\ cancelQueue' \in Seq(Requests)
  BY <1>1, SendCancelTyped DEF IInv
<1>3. TypeOK'
  BY <1>2 DEF IInv, TypeOK, quantities, OpenWaits, CloseWaits
<1>4. WaitDiscipline' /\ KnownOrders' /\ ReasonKnown' /\ ReasonKept
  BY DEF IInv, WaitDiscipline, KnownOrders, ReasonKnown, ReasonKept, quantities,
     OpenWaits, CloseWaits
<1> QED
  BY <1>3, <1>4 DEF IInv

LEMMA CancelsKeep ==
    ASSUME IInv, side # NoSide, NEW ok \in BOOLEAN,
           \/ CancelOpenLimitOrder(ok)
           \/ CancelCloseLimitOrder(ok)
           \/ RepeatCancel("OpenLimit", side, ok)
           \/ RepeatCancel("CloseLimit", Opposite(side), ok)
    PROVE  IInv' /\ ReasonKept
<1>1. side \in Sides /\ Opposite(side) \in Sides
  BY OppositeTyped DEF IInv, TypeOK
<1>2. "OpenLimit" \in OrderRole /\ "CloseLimit" \in OrderRole
  BY DEF OrderRole
<1>3. CASE CancelOpenLimitOrder(ok)
  BY <1>1, <1>2, <1>3, SendCancelKeeps DEF CancelOpenLimitOrder
<1>4. CASE CancelCloseLimitOrder(ok)
  BY <1>1, <1>2, <1>4, SendCancelKeeps DEF CancelCloseLimitOrder
<1>5. CASE RepeatCancel("OpenLimit", side, ok)
  BY <1>1, <1>2, <1>5, SendCancelKeeps DEF RepeatCancel
<1>6. CASE RepeatCancel("CloseLimit", Opposite(side), ok)
  BY <1>1, <1>2, <1>6, SendCancelKeeps DEF RepeatCancel
<1> QED
  BY <1>3, <1>4, <1>5, <1>6

\* The market order that replaces a cancelled opening limit order
\* (trade_manager.cpp:650-666).
LEMMA FallbackKeeps ==
    ASSUME IInv, side # NoSide, ~tradeIsOpen, "openMarket" \notin wait,
           NEW ok \in BOOLEAN, SendOpenMarketFallback(ok)
    PROVE  IInv' /\ ReasonKept
<1>1. side \in Sides /\ Id("OpenMarket") \in OrderIds /\ DefaultQty \in 0 .. DefaultQty
  BY IdTyped, ConstantsAssumption DEF IInv, TypeOK, OrderRole, ConstantsAssumption
<1>2. newQueue' \in Seq(Requests) /\ cancelQueue' \in Seq(Requests)
  BY <1>1, SendNewTyped DEF IInv, SendOpenMarketFallback
<1>3. /\ ordersStatus' = ordersStatus \cup {Id("OpenMarket")}
      /\ UNCHANGED <<tradeNumber, held>>
  BY DEF SendOpenMarketFallback
<1>4. ordersStatus' \subseteq OrderIds /\ \A id \in ordersStatus' : id[1] = tradeNumber'
  <2>1. ordersStatus \subseteq OrderIds /\ \A id \in ordersStatus : id[1] = tradeNumber
    BY DEF IInv, TypeOK, KnownOrders
  <2>2. Id("OpenMarket")[1] = tradeNumber
    BY DEF Id
  <2> QED
    BY <1>1, <1>3, <2>1, <2>2
<1>5. CASE ok
  <2>1. wait' = {"openMarket"} /\ UNCHANGED <<side, tradeIsOpen, quantities, closeReason>>
    BY <1>5 DEF SendOpenMarketFallback, IInv, WaitDiscipline, OpenWaits
  <2>2. TypeOK'
    BY <1>2, <1>3, <1>4, <2>1 DEF IInv, TypeOK, quantities, OpenWaits
  <2>3. WaitDiscipline' /\ KnownOrders' /\ ReasonKnown' /\ ReasonKept
    BY <1>3, <2>1 DEF IInv, WaitDiscipline, KnownOrders, ReasonKnown, ReasonKept,
       quantities, OpenWaits, CloseWaits, OpenRoles, Id
  <2> QED
    BY <2>2, <2>3 DEF IInv
<1>6. CASE ~ok
  BY <1>2, <1>3, <1>4, <1>6, AbandonKeeps DEF SendOpenMarketFallback
<1> QED
  BY <1>5, <1>6
\* A trade that is given up without a request (trade_manager.cpp:228-300, 497-524).
LEMMA GiveUpKeeps ==
    ASSUME IInv, Abandon, Silent, UNCHANGED <<tradeNumber, ordersStatus, held>>
    PROVE  IInv' /\ ReasonKept
<1>1. newQueue' \in Seq(Requests) /\ cancelQueue' \in Seq(Requests)
  BY DEF IInv, TypeOK, Silent, queues
<1>2. ordersStatus' \subseteq OrderIds /\ \A id \in ordersStatus' : id[1] = tradeNumber'
  BY DEF IInv, TypeOK, KnownOrders
<1> QED
  BY <1>1, <1>2, AbandonKeeps

LEMMA HandleOpenLimitKeeps ==
    ASSUME IInv, side # NoSide, NEW order \in OrderEvents, NEW ok \in BOOLEAN,
           HandleOpenLimitOrder(order, ok)
    PROVE  IInv' /\ ReasonKept
<1>1. CASE Stay
  BY <1>1, StayKeeps
<1>2. CASE EnterTrade(order)
  BY <1>2, EnterTradeKeeps
<1>3. CASE ~tradeIsOpen /\ "openMarket" \notin wait /\ SendOpenMarketFallback(ok)
  BY <1>3, FallbackKeeps
<1>4. CASE /\ "openMarket" \in wait
           /\ wait' = wait \ {"openLimit", "cancelOpenLimit"}
           /\ Silent
           /\ UNCHANGED <<side, tradeIsOpen, quantities, closeReason, tradeNumber,
                          ordersStatus, held>>
  <2>1. wait' = wait
    BY <1>4 DEF IInv, WaitDiscipline
  <2> QED
    BY <1>4, <2>1, StayKeeps DEF Stay, tmState
<1> QED
  BY <1>1, <1>2, <1>3, <1>4 DEF HandleOpenLimitOrder

LEMMA HandleOpenMarketKeeps ==
    ASSUME IInv, side # NoSide, NEW order \in OrderEvents, HandleOpenMarketOrder(order)
    PROVE  IInv' /\ ReasonKept
BY StayKeeps, EnterTradeKeeps, GiveUpKeeps DEF HandleOpenMarketOrder

\* An update for a closing order can only meet an open trade with a reason.
LEMMA ClosingOrderKnown ==
    ASSUME IInv, side # NoSide, NEW id \in ordersStatus, id[2] \notin OpenRoles
    PROVE  tradeIsOpen /\ closeReason # "None"
BY DEF IInv, KnownOrders, ReasonKnown, OpenRoles

LEMMA HandleCloseLimitKeeps ==
    ASSUME IInv, side # NoSide, NEW order \in OrderEvents, NEW ok \in BOOLEAN,
           order.id \in ordersStatus, order.id[2] = "CloseLimit",
           HandleCloseLimitOrder(order, ok)
    PROVE  IInv' /\ ReasonKept
<1> DEFINE w == wait \ {"closeLimit", "cancelCloseLimit"}
           closed == closePartiallyFilledQty + order.cum
<1>1. tradeIsOpen /\ closeReason \in Reasons \ {"None"}
  BY ClosingOrderKnown DEF OpenRoles, IInv, TypeOK
<1>2. /\ order.cum \in Nat /\ closed \in Nat /\ openQty \in Nat
      /\ closePartiallyFilledQty \in Nat /\ pendingCloseQty \in Int
  BY ConstantsAssumption DEF OrderEvents, IInv, TypeOK, ConstantsAssumption
<1>3. CASE Stay
  BY <1>3, StayKeeps
<1>4. CASE /\ order.status = "Filled"
           /\ CloseFilled(closePartiallyFilledQty
                            + IF order.cum > 0 THEN order.cum ELSE pendingCloseQty)
           /\ UNCHANGED closePartiallyFilledQty
  BY <1>1, <1>2, <1>4, FinishKeeps DEF CloseFilled
<1>5. CASE order.status = "Cancelled" /\ closePartiallyFilledQty' = closed
             /\ openQty <= closed /\ CloseFilled(closed)
  BY <1>1, <1>2, <1>5, FinishKeeps DEF CloseFilled
<1>6. CASE /\ order.status = "Cancelled" /\ closePartiallyFilledQty' = closed
           /\ openQty > closed
           /\ SendCloseMarket(openQty - closed, w, ok)
           /\ UNCHANGED <<side, tradeIsOpen, openQty, closeQty, closeReason,
                          tradeNumber, held>>
  <2>1. w = {} \/ w = {"closeMarket"}
    BY <1>1 DEF IInv, WaitDiscipline, CloseWaits
  <2>2. openQty - closed \in Int /\ openQty - closed <= DefaultQty
    BY <1>2, ConstantsAssumption DEF IInv, TypeOK, ConstantsAssumption
  <2> QED
    BY <1>1, <1>2, <1>6, <2>1, <2>2, SendCloseMarketKeeps
<1> QED
  BY <1>3, <1>4, <1>5, <1>6 DEF HandleCloseLimitOrder

\* handleCloseMarketOrder tests no tradeIsOpen_: it relies on ClosingOrderKnown
\* (trade_manager.cpp:575-614).
LEMMA HandleCloseMarketKeeps ==
    ASSUME IInv, side # NoSide, NEW order \in OrderEvents,
           order.id \in ordersStatus, order.id[2] = "CloseMarket",
           HandleCloseMarketOrder(order)
    PROVE  IInv' /\ ReasonKept
<1> DEFINE closed == closePartiallyFilledQty + order.cum
<1>1. tradeIsOpen /\ closeReason \in Reasons \ {"None"}
  BY ClosingOrderKnown DEF OpenRoles, IInv, TypeOK
<1>2. /\ order.cum \in Nat /\ closed \in Nat
      /\ closePartiallyFilledQty \in Nat /\ pendingCloseQty \in Int
  BY ConstantsAssumption DEF OrderEvents, IInv, TypeOK, ConstantsAssumption
<1>3. CASE Stay
  BY <1>3, StayKeeps
<1>4. CASE /\ CloseFilled(closePartiallyFilledQty
                            + IF order.cum > 0 THEN order.cum ELSE pendingCloseQty)
           /\ UNCHANGED closePartiallyFilledQty
  BY <1>1, <1>2, <1>4, FinishKeeps DEF CloseFilled
<1>5. CASE closePartiallyFilledQty' = closed /\ CloseFilled(closed)
  BY <1>1, <1>2, <1>5, FinishKeeps DEF CloseFilled
<1>6. CASE /\ closePartiallyFilledQty' = closed
           /\ wait' = wait \ {"closeMarket"}
           /\ Silent
           /\ UNCHANGED <<side, tradeIsOpen, openQty, closeQty, pendingCloseQty,
                          closeReason, tradeNumber, ordersStatus, held>>
  <2>1. TypeOK'
    BY <1>2, <1>6 DEF IInv, TypeOK, Silent, queues
  <2>2. WaitDiscipline' /\ KnownOrders' /\ ReasonKnown' /\ ReasonKept
    BY <1>1, <1>6 DEF IInv, WaitDiscipline, KnownOrders, ReasonKnown, ReasonKept
  <2> QED
    BY <2>1, <2>2 DEF IInv
<1> QED
  BY <1>3, <1>4, <1>5, <1>6 DEF HandleCloseMarketOrder

LEMMA SetOrderKeeps ==
    ASSUME IInv, NEW order \in OrderEvents, NEW ok \in BOOLEAN, SetOrder(order, ok)
    PROVE  IInv' /\ ReasonKept
<1>1. CASE order.id \notin ordersStatus \/ side = NoSide
  BY <1>1, StayKeeps DEF SetOrder
<1>2. CASE order.id \in ordersStatus /\ side # NoSide
  BY <1>2, HandleOpenLimitKeeps, HandleOpenMarketKeeps, HandleCloseLimitKeeps,
     HandleCloseMarketKeeps DEF SetOrder
<1> QED
  BY <1>1, <1>2

\* The answer to a request (trade_manager.cpp:228-300).
LEMMA OnOrderRequestResultKeeps ==
    ASSUME IInv, NEW result \in Results, NEW ok \in BOOLEAN,
           OnOrderRequestResult(result, ok)
    PROVE  IInv' /\ ReasonKept
<1> DEFINE w == wait \ {"closeLimit", "cancelCloseLimit"}
<1>1. CASE Stay
  BY <1>1, StayKeeps
<1>2. CASE Abandon /\ Silent /\ UNCHANGED <<tradeNumber, ordersStatus, held>>
  BY <1>2, GiveUpKeeps
<1>3. CASE /\ side # NoSide /\ w # wait
           /\ \/ /\ Remaining > 0
                 /\ SendCloseMarket(Remaining, w, ok)
                 /\ UNCHANGED <<side, tradeIsOpen, openQty, closeQty,
                       closePartiallyFilledQty, closeReason, tradeNumber, held>>
              \/ /\ Remaining <= 0
                 /\ FinishTrade
                 /\ UNCHANGED <<closeQty, pendingCloseQty,
                                closePartiallyFilledQty, closeReason>>
  <2>1. tradeIsOpen /\ closeReason \in Reasons \ {"None"} /\ w = {}
    <3>1. wait \cap CloseWaits # {} /\ w = {}
      BY <1>3 DEF IInv, WaitDiscipline, CloseWaits
    <3> QED
      BY <1>3, <3>1 DEF IInv, WaitDiscipline, ReasonKnown, TypeOK, OpenWaits, CloseWaits
  <2>2. Remaining \in Int /\ Remaining <= DefaultQty /\ closePartiallyFilledQty \in Nat
    BY ConstantsAssumption DEF IInv, TypeOK, Remaining, ConstantsAssumption
  <2>3. CASE /\ SendCloseMarket(Remaining, w, ok)
             /\ UNCHANGED <<side, tradeIsOpen, openQty, closeQty,
                   closePartiallyFilledQty, closeReason, tradeNumber, held>>
    BY <2>1, <2>2, <2>3, SendCloseMarketKeeps
  <2>4. CASE /\ FinishTrade
             /\ UNCHANGED <<closeQty, pendingCloseQty, closePartiallyFilledQty, closeReason>>
    BY <2>1, <2>4, FinishKeeps DEF IInv, TypeOK
  <2> QED
    BY <1>3, <2>3, <2>4
<1>4. CASE /\ wait' = wait \ {"closeMarket"} /\ "closeMarket" \in wait /\ Silent
           /\ UNCHANGED <<side, tradeIsOpen, quantities, closeReason,
                          tradeNumber, ordersStatus, held>>
  <2>1. tradeIsOpen
    BY <1>4 DEF IInv, WaitDiscipline, OpenWaits
  <2>2. TypeOK'
    BY <1>4 DEF IInv, TypeOK, quantities, Silent, queues
  <2>3. WaitDiscipline' /\ KnownOrders' /\ ReasonKnown' /\ ReasonKept
    BY <1>4, <2>1 DEF IInv, WaitDiscipline, KnownOrders, ReasonKnown, ReasonKept, quantities
  <2> QED
    BY <2>2, <2>3 DEF IInv
<1> QED
  BY <1>1, <1>2, <1>3, <1>4 DEF OnOrderRequestResult
-----------------------------------------------------------------------------
(* The calls of the strategy.                                              *)

LEMMA MakeTradeKeeps ==
    ASSUME IInv, NEW s \in Sides, NEW ok \in BOOLEAN, MakeTrade(s, ok)
    PROVE  IInv' /\ ReasonKept
<1>1. CASE RefreshTrade(s)
  <2>1. TypeOK'
    BY <1>1, ConstantsAssumption DEF RefreshTrade, IInv, TypeOK, quantities, Silent, queues,
       ConstantsAssumption
  <2>2. WaitDiscipline' /\ KnownOrders' /\ ReasonKnown' /\ ReasonKept
    BY <1>1 DEF RefreshTrade, IInv, WaitDiscipline, KnownOrders, ReasonKnown, ReasonKept,
       quantities
  <2> QED
    BY <2>1, <2>2 DEF IInv
<1>2. CASE StartTrade(s, ok)
  <2> DEFINE id == <<tradeNumber + 1, "OpenLimit">>
  <2>1. id \in OrderIds /\ tradeNumber' \in 0 .. MaxTrades /\ id[1] = tradeNumber'
    BY <1>2, ConstantsAssumption
       DEF StartTrade, IInv, TypeOK, OrderIds, OrderRole, ConstantsAssumption
  <2>2. DefaultQty \in 0 .. DefaultQty
    BY ConstantsAssumption DEF ConstantsAssumption
  <2>3. newQueue' \in Seq(Requests) /\ cancelQueue' \in Seq(Requests)
    BY <1>2, <2>1, <2>2, SendNewTyped DEF StartTrade, IInv
  <2>4. /\ tradeIsOpen' = FALSE /\ openQty' = 0 /\ closeQty' = 0
        /\ pendingCloseQty' = 0 /\ closePartiallyFilledQty' = 0
        /\ closeReason' = "None" /\ held' = held
        /\ \/ side' = s /\ wait' = {"openLimit"} /\ ordersStatus' = {id}
           \/ side' = NoSide /\ wait' = {} /\ ordersStatus' = {}
    BY <1>2 DEF StartTrade
  <2>5. ordersStatus' \subseteq OrderIds /\ wait' \subseteq OpenWaits
    BY <2>1, <2>4 DEF OpenWaits
  <2>6. openQty' \in 0 .. DefaultQty /\ closeReason' \in Reasons /\ held' \in 0 .. HoldTicks
    BY <2>4, ConstantsAssumption DEF Reasons, IInv, TypeOK, ConstantsAssumption
  <2>7. TypeOK'
    <3>1. side' \in Sides \cup {NoSide} /\ tradeIsOpen' \in BOOLEAN
      BY <2>4
    <3>2. closeQty' \in Int /\ pendingCloseQty' \in Int /\ closePartiallyFilledQty' \in Nat
      BY <2>4
    <3> QED
      BY <2>1, <2>3, <2>5, <2>6, <3>1, <3>2 DEF TypeOK
  <2>8. CASE side' = s /\ wait' = {"openLimit"} /\ ordersStatus' = {id}
    <3>1. WaitDiscipline'
      BY <2>4, <2>8 DEF WaitDiscipline, OpenWaits, Sides, NoSide
    <3>2. KnownOrders' /\ ReasonKnown' /\ ReasonKept
      BY <2>1, <2>4, <2>8 DEF KnownOrders, ReasonKnown, ReasonKept, CloseWaits, OpenRoles
    <3> QED
      BY <2>7, <3>1, <3>2 DEF IInv
  <2>9. CASE side' = NoSide /\ wait' = {} /\ ordersStatus' = {}
    <3>1. WaitDiscipline' /\ KnownOrders' /\ ReasonKnown' /\ ReasonKept
      BY <2>4, <2>9 DEF WaitDiscipline, KnownOrders, ReasonKnown, ReasonKept
    <3> QED
      BY <2>7, <3>1 DEF IInv
  <2> QED
    BY <2>4, <2>8, <2>9
<1> QED
  BY <1>1, <1>2 DEF MakeTrade

LEMMA RetryCloseKeeps ==
    ASSUME IInv, closeReason # "None", NEW ok \in BOOLEAN, RetryClose(ok)
    PROVE  IInv' /\ ReasonKept
<1>1. CASE ~tradeIsOpen \/ IsCloseInProgress
  BY <1>1, StayKeeps DEF RetryClose
<1>2. CASE tradeIsOpen /\ ~IsCloseInProgress
  <2>1. wait = {} /\ Remaining \in Int /\ Remaining <= DefaultQty
        /\ closeReason \in Reasons \ {"None"}
    BY <1>2, ConstantsAssumption
    DEF IInv, WaitDiscipline, TypeOK, IsCloseInProgress, Remaining, ConstantsAssumption
  <2>2. CASE /\ FinishTrade
             /\ UNCHANGED <<closeQty, pendingCloseQty, closePartiallyFilledQty, closeReason>>
    BY <1>2, <2>2, FinishKeeps DEF IInv, TypeOK
  <2>3. CASE /\ SendCloseMarket(Remaining, wait, ok)
             /\ UNCHANGED <<side, tradeIsOpen, openQty, closeQty,
                   closePartiallyFilledQty, closeReason, tradeNumber, held>>
    <3>1. closePartiallyFilledQty' \in Nat /\ closeReason' \in Reasons \ {"None"}
      BY <2>1, <2>3 DEF IInv, TypeOK
    <3> QED
      BY <1>2, <2>1, <2>3, <3>1, SendCloseMarketKeeps
  <2>4. CASE CloseTrade(closeReason, ok)
    BY <2>1, <2>4, CloseTradeKeeps
  <2> QED
    BY <1>2, <2>2, <2>3, <2>4 DEF RetryClose
<1> QED
  BY <1>1, <1>2

LEMMA CheckSLTPKeeps ==
    ASSUME IInv, side # NoSide, ~IsCloseInProgress, NEW zone \in Zones,
           NEW ok \in BOOLEAN, CheckSLTP(zone, ok)
    PROVE  IInv' /\ ReasonKept
<1>1. CASE ~tradeIsOpen \/ zone = "Inside"
  BY <1>1, StayKeeps DEF CheckSLTP
<1>2. CASE tradeIsOpen /\ zone # "Inside"
  <2>1. wait = {} /\ Remaining \in Int /\ Remaining <= DefaultQty
    BY <1>2, ConstantsAssumption
    DEF IInv, WaitDiscipline, TypeOK, IsCloseInProgress, Remaining, ConstantsAssumption
  <2>2. CASE /\ zone = "StopLoss" \/ closePartiallyFilledQty > 0
             /\ closeReason' = IF zone = "StopLoss" THEN "StopLoss" ELSE closeReason
             /\ SendCloseMarket(Remaining, wait, ok)
             /\ UNCHANGED <<side, tradeIsOpen, openQty, closeQty,
                            closePartiallyFilledQty, tradeNumber, held>>
    <3>1. closePartiallyFilledQty' \in Nat /\ closeReason' \in Reasons \ {"None"}
      BY <2>2 DEF IInv, TypeOK, ReasonKnown, Reasons
    <3> QED
      BY <1>2, <2>1, <2>2, <3>1, SendCloseMarketKeeps
  <2>3. CASE CloseTrade("TakeProfit", ok)
    BY <2>3, CloseTradeKeeps DEF Reasons
  <2> QED
    BY <1>2, <2>2, <2>3 DEF CheckSLTP
<1> QED
  BY <1>1, <1>2 DEF Zones

LEMMA CheckCurrentPriceKeeps ==
    ASSUME IInv, NEW zone \in Zones, NEW waited \in Waited, NEW ok \in BOOLEAN,
           CheckCurrentPrice(zone, waited, ok)
    PROVE  IInv' /\ ReasonKept
<1>1. CASE Stay
  BY <1>1, StayKeeps
<1>2. CASE side # NoSide /\ CloseTrade("Timeout", ok)
  BY <1>2, CloseTradeKeeps DEF Reasons
<1>3. CASE /\ side # NoSide
           /\ \/ CancelOpenLimitOrder(ok)
              \/ CancelCloseLimitOrder(ok)
              \/ RepeatCancel("OpenLimit", side, ok)
              \/ RepeatCancel("CloseLimit", Opposite(side), ok)
  BY <1>3, CancelsKeep
<1>4. CASE side # NoSide /\ RetryDue(waited) /\ RetryClose(ok)
  BY <1>4, RetryCloseKeeps DEF RetryDue
<1>5. CASE side # NoSide /\ ~IsCloseInProgress /\ CheckSLTP(zone, ok)
  BY <1>5, CheckSLTPKeeps
<1> QED
  BY <1>1, <1>2, <1>3, <1>4, <1>5 DEF CheckCurrentPrice

LEMMA CheckInverseSignalKeeps ==
    ASSUME IInv, NEW s \in Sides, NEW ok \in BOOLEAN, CheckInverseSignal(s, ok)
    PROVE  IInv' /\ ReasonKept
<1>1. CASE Stay
  BY <1>1, StayKeeps
<1>2. CASE CancelOpenLimitOrder(ok)
  <2>1. side # NoSide
    BY <1>2 DEF IInv, WaitDiscipline, CancelOpenLimitOrder
  <2> QED
    BY <1>2, <2>1, CancelsKeep
<1>3. CASE CloseTrade("InverseSignal", ok)
  BY <1>3, CloseTradeKeeps DEF Reasons
<1> QED
  BY <1>1, <1>2, <1>3 DEF CheckInverseSignal

LEMMA HoldTickKeeps ==
    ASSUME IInv, HoldTick
    PROVE  IInv' /\ ReasonKept
<1>1. TypeOK'
  BY ConstantsAssumption DEF HoldTick, IInv, TypeOK, quantities, Silent, queues,
     ConstantsAssumption
<1>2. WaitDiscipline' /\ KnownOrders' /\ ReasonKnown' /\ ReasonKept
  BY DEF HoldTick, IInv, WaitDiscipline, KnownOrders, ReasonKnown, ReasonKept, quantities
<1> QED
  BY <1>1, <1>2 DEF IInv

\* A part of a sequence is a sequence over the same set.
LEMMA PartTyped ==
    ASSUME NEW S, NEW s \in Seq(S), NEW i \in 1 .. Len(s) + 1, NEW n \in 0 .. Len(s)
    PROVE  SubSeq(s, i, n) \in Seq(S)
OBVIOUS

LEMMA TakeKeeps ==
    ASSUME IInv, Take
    PROVE  IInv' /\ ReasonKept
<1>1. newQueue \in Seq(Requests) /\ cancelQueue \in Seq(Requests)
  BY DEF IInv, TypeOK
<1>2. newQueue' \in Seq(Requests) /\ cancelQueue' \in Seq(Requests)
  <2>1. PICK i \in 1 .. Len(newQueue) + 1, n \in 0 .. Len(newQueue) :
            newQueue' = SubSeq(newQueue, i, n)
    BY DEF Take
  <2>2. PICK j \in 1 .. Len(cancelQueue) + 1, m \in 0 .. Len(cancelQueue) :
            cancelQueue' = SubSeq(cancelQueue, j, m)
    BY DEF Take
  <2> QED
    BY <1>1, <2>1, <2>2, PartTyped
<1>3. TypeOK'
  BY <1>2 DEF Take, IInv, TypeOK, tmState, quantities
<1>4. WaitDiscipline' /\ KnownOrders' /\ ReasonKnown' /\ ReasonKept
  BY DEF Take, IInv, WaitDiscipline, KnownOrders, ReasonKnown, ReasonKept, tmState,
     quantities
<1> QED
  BY <1>3, <1>4 DEF IInv

-----------------------------------------------------------------------------
(* The theorems.                                                           *)

LEMMA InitEstablishes == Init => IInv
<1> SUFFICES ASSUME Init PROVE IInv
  OBVIOUS
<1>1. <<>> \in Seq(Requests)
  BY EmptySeq
<1>2. openQty \in 0 .. DefaultQty /\ tradeNumber \in 0 .. MaxTrades /\ held \in 0 .. HoldTicks
  BY ConstantsAssumption DEF Init, ConstantsAssumption
<1>3. TypeOK
  <2>1. side \in Sides \cup {NoSide} /\ tradeIsOpen \in BOOLEAN
    BY DEF Init
  <2>2. wait \subseteq OpenWaits \cup CloseWaits /\ ordersStatus \subseteq OrderIds
    BY DEF Init
  <2>3. closeReason \in Reasons /\ closePartiallyFilledQty \in Nat
    BY DEF Init, Reasons
  <2> QED
    BY <1>1, <1>2, <2>1, <2>2, <2>3 DEF Init, TypeOK
<1>4. WaitDiscipline /\ KnownOrders /\ ReasonKnown
  BY DEF Init, WaitDiscipline, KnownOrders, ReasonKnown
<1> QED
  BY <1>3, <1>4 DEF IInv

\* Every step, and stuttering, keeps the inductive invariant and any reason.
LEMMA StepKeeps == IInv /\ [Next]_tmVars => IInv' /\ ReasonKept
<1> SUFFICES ASSUME IInv, [Next]_tmVars PROVE IInv' /\ ReasonKept
  OBVIOUS
<1>1. ASSUME NEW ok \in BOOLEAN, NEW s \in Sides, MakeTrade(s, ok)
      PROVE  IInv' /\ ReasonKept
  BY <1>1, MakeTradeKeeps
<1>2. ASSUME NEW ok \in BOOLEAN, NEW s \in Sides, CheckInverseSignal(s, ok)
      PROVE  IInv' /\ ReasonKept
  BY <1>2, CheckInverseSignalKeeps
<1>3. ASSUME NEW ok \in BOOLEAN, NEW order \in OrderEvents, SetOrder(order, ok)
      PROVE  IInv' /\ ReasonKept
  BY <1>3, SetOrderKeeps
<1>4. ASSUME NEW ok \in BOOLEAN, NEW result \in Results, OnOrderRequestResult(result, ok)
      PROVE  IInv' /\ ReasonKept
  BY <1>4, OnOrderRequestResultKeeps
<1>5. ASSUME NEW ok \in BOOLEAN, NEW zone \in Zones, NEW waited \in Waited,
             CheckCurrentPrice(zone, waited, ok)
      PROVE  IInv' /\ ReasonKept
  BY <1>5, CheckCurrentPriceKeeps
<1>6. ASSUME NEW ok \in BOOLEAN, CloseTrade("Manual", ok)
      PROVE  IInv' /\ ReasonKept
  BY <1>6, CloseTradeKeeps DEF Reasons
<1>7. CASE HoldTick
  BY <1>7, HoldTickKeeps
<1>8. CASE Take
  BY <1>8, TakeKeeps
<1>9. CASE UNCHANGED tmVars
  BY <1>9, StayKeeps DEF tmVars, Stay, Silent
<1> QED
  BY <1>1, <1>2, <1>3, <1>4, <1>5, <1>6, <1>7, <1>8, <1>9 DEF Next

\* In every state of every run the manager's state is typed, its wait flags are
\* those of one stage, it knows only orders it may act upon, and a trade being
\* closed has a reason.
THEOREM InductiveInvariant == Spec => []IInv
<1>1. IInv /\ [Next]_tmVars => IInv'
  BY StepKeeps
<1> QED
  BY InitEstablishes, <1>1, PTL DEF Spec

\* The manager's variables stay in their ranges (trade_manager.h:69-100).
THEOREM TypeCorrect == Spec => []TypeOK
BY InductiveInvariant, PTL DEF IInv

\* At most one order of one stage is awaited, whatever the order of answers and
\* updates (trade_manager.cpp:228-614).
THEOREM OneStepAwaited == Spec => []WaitDiscipline
BY InductiveInvariant, PTL DEF IInv

\* Updates of earlier trades' orders, and of closing orders before a trade is
\* open, never reach a handler (trade_manager.cpp:193-226).
THEOREM OnlyOwnOrders == Spec => []KnownOrders
BY InductiveInvariant, PTL DEF IInv

\* A trade whose closing was begun has the reason that drives its retries
\* (trade_manager.cpp:448-455).
THEOREM ReasonRecorded == Spec => []CloseHasReason
<1>1. IInv => CloseHasReason
  BY DEF IInv, TypeOK, WaitDiscipline, ReasonKnown, CloseHasReason, CloseWaits
<1> QED
  BY InductiveInvariant, <1>1, PTL

\* No step takes a closing trade back to one that nobody closes
\* (trade_manager.cpp:860-882 is reached only without an open trade).
THEOREM ReasonIsFinal == Spec => ClosingIsFinal
<1>1. IInv /\ [Next]_tmVars => ReasonKept
  BY StepKeeps
<1> QED
  BY InductiveInvariant, <1>1, PTL DEF Spec, ClosingIsFinal, ReasonKept

-----------------------------------------------------------------------------
(* The system.                                                             *)

SysInv == IInv /\ ExchangeTyped

-----------------------------------------------------------------------------
LEMMA SeqOfSet ==
    ASSUME NEW S, IsFiniteSet(S)
    PROVE  SetToSeq(S) \in Seq(S)
<1> DEFINE n == Cardinality(S)
<1>1. n \in Nat /\ ExistsBijection(1 .. n, S)
  BY FS_CardinalityType
<1>2. \E f \in [1 .. n -> S] : IsInjective(f)
  BY <1>1 DEF ExistsBijection, Bijection, Injection
<1>3. SetToSeq(S) \in [1 .. n -> S]
  BY <1>2 DEF SetToSeq
<1>4. QED
  BY <1>1, <1>3

LEMMA FiniteIds == IsFiniteSet(OrderIds)
<1>1. IsFiniteSet(0 .. MaxTrades)
  BY FS_Interval, ConstantsAssumption DEF ConstantsAssumption
<1>2. IsFiniteSet({"OpenLimit"} \cup {"OpenMarket"} \cup {"CloseLimit"} \cup {"CloseMarket"})
  BY FS_Singleton, FS_Union
<1>3. IsFiniteSet(OrderRole)
  BY <1>2, Zenon DEF OrderRole
<1>4. QED
  BY <1>1, <1>3, FS_Product DEF OrderIds

\* A subsequence of a sequence is a sequence over the same set.
LEMMA PartOfSeq ==
    ASSUME NEW S, NEW s \in Seq(S), NEW k \in 0 .. Len(s)
    PROVE  SubSeq(s, 1, k) \in Seq(S)
OBVIOUS

LEMMA UpdateTyped ==
    ASSUME NEW id \in OrderIds, NEW status \in {"Filled", "Cancelled", "Other"},
           NEW o \in ExchangeOrders
    PROVE  Update(id, status, o) \in OrderEvents
BY DEF Update, OrderEvents, ExchangeOrders

LEMMA RecordTyped ==
    ASSUME ExchangeTyped, NEW id \in OrderIds, NEW o \in ExchangeOrders, NEW n \in Int,
           NEW news \in Seq(OrderEvents), Record(id, o, n, news)
    PROVE  /\ orders' \in [OrderIds -> ExchangeOrders]
           /\ position' \in Int
           /\ updates' \in Seq(OrderEvents)
<1> DEFINE after == [orders EXCEPT ![id] = o]
           dropped == {i \in OrderIds : /\ position + Lots(o.side, n) = 0
                                        /\ IsReduceOnly(i) /\ after[i].state = "live"}
           done(i) == [after[i] EXCEPT !.state = "done"]
           ends == {Update(i, "Cancelled", after[i]) : i \in dropped}
<1>1. after \in [OrderIds -> ExchangeOrders]
  BY DEF ExchangeTyped
<1>2. \A i \in OrderIds : done(i) \in ExchangeOrders
  BY <1>1 DEF ExchangeOrders
<1>3. position' = position + Lots(o.side, n) /\ Lots(o.side, n) \in Int
  BY DEF Record, Lots
<1>4. orders' = [i \in OrderIds |-> IF i \in dropped THEN done(i) ELSE after[i]]
  BY DEF Record
<1>5. updates' = updates \o news \o SetToSeq(ends)
  BY DEF Record
<1>6. ends \subseteq OrderEvents
  BY <1>1, UpdateTyped
<1>7. IsFiniteSet(ends)
  <2>1. IsFiniteSet(dropped)
    BY FiniteIds, FS_Subset
  <2> DEFINE f == [i \in dropped |-> Update(i, "Cancelled", after[i])]
  <2> HIDE DEF dropped, after
  <2>2. f \in Surjection(dropped, ends)
    BY DEF Surjection
  <2> HIDE DEF f, ends
  <2>3. QED
    BY <2>1, <2>2, FS_Surjection
<1>8. SetToSeq(ends) \in Seq(OrderEvents)
  <2> HIDE DEF ends
  <2>1. SetToSeq(ends) \in Seq(ends)
    BY <1>7, SeqOfSet
  <2>2. QED
    BY <1>6, <2>1
<1>9. updates' \in Seq(OrderEvents)
  <2> HIDE DEF ends
  <2>1. QED
    BY <1>5, <1>8 DEF ExchangeTyped
<1>10. orders' \in [OrderIds -> ExchangeOrders]
  <2> HIDE DEF done, after, dropped
  <2>1. QED
    BY <1>1, <1>2, <1>4
<1>11. QED
  BY <1>3, <1>9, <1>10 DEF ExchangeTyped

-----------------------------------------------------------------------------
\* Every step of the strategy's thread is one of the open manager.
LEMMA StrategyIsManager ==
    ASSUME SysInv, Strategy
    PROVE  Next /\ ExchangeTyped'
<1>1. PICK ok \in BOOLEAN :
          \/ \E s \in SignalSides : Signal(s, ok)
          \/ \E zone \in Zones, waited \in Waited : Price(zone, waited, ok)
          \/ DrainResult(ok)
          \/ DrainUpdate(ok)
  BY DEF Strategy
<1>2. CASE \E s \in SignalSides : Signal(s, ok)
  BY <1>2, SystemAssumption
  DEF SystemAssumption, Signal, Next, SysInv, ExchangeTyped, exchange, channels
<1>3. CASE \E zone \in Zones, waited \in Waited : Price(zone, waited, ok)
  BY <1>3 DEF Price, Next, SysInv, ExchangeTyped, exchange, channels
<1>4. CASE DrainResult(ok)
  <2>1. Head(results) \in Results /\ Tail(results) \in Seq(Results)
    BY <1>4 DEF DrainResult, SysInv, ExchangeTyped
  <2>2. Next
    BY <1>4, <2>1 DEF DrainResult, Next
  <2>3. ExchangeTyped'
    BY <1>4, <2>1 DEF DrainResult, SysInv, ExchangeTyped, exchange
  <2>4. QED
    BY <2>2, <2>3
<1>5. CASE DrainUpdate(ok)
  <2>1. Head(updates) \in OrderEvents /\ Tail(updates) \in Seq(OrderEvents)
    BY <1>5 DEF DrainUpdate, SysInv, ExchangeTyped
  <2>2. Next
    BY <1>5, <2>1 DEF DrainUpdate, Next
  <2>3. ExchangeTyped'
    BY <1>5, <2>1 DEF DrainUpdate, SysInv, ExchangeTyped, exchange
  <2>4. QED
    BY <2>2, <2>3
<1>6. QED
  BY <1>1, <1>2, <1>3, <1>4, <1>5

-----------------------------------------------------------------------------
\* To the manager the exchange is what takes requests out of its queues.
LEMMA TakesHead ==
    ASSUME TypeOK, UNCHANGED tmState,
           \/ newQueue # <<>> /\ newQueue' = Tail(newQueue) /\ UNCHANGED cancelQueue
           \/ cancelQueue # <<>> /\ cancelQueue' = Tail(cancelQueue) /\ UNCHANGED newQueue
    PROVE  Next
<1> DEFINE Part(s, t) == \E i \in 1 .. Len(s) + 1, n \in 0 .. Len(s) : t = SubSeq(s, i, n)
<1>1. newQueue \in Seq(Requests) /\ cancelQueue \in Seq(Requests)
  BY DEF TypeOK
<1>2. ASSUME NEW s \in Seq(Requests) PROVE Part(s, s)
  <2>1. s = SubSeq(s, 1, Len(s)) /\ Len(s) \in Nat
    OBVIOUS
  <2>2. QED
    BY <2>1
<1>3. ASSUME NEW s \in Seq(Requests), s # <<>> PROVE Part(s, Tail(s))
  <2>1. Tail(s) = SubSeq(s, 2, Len(s)) /\ Len(s) \in Nat \ {0}
    BY <1>3, TailIsSubSeq
  <2>2. QED
    BY <2>1
<1> HIDE DEF Part
<1>4. Part(newQueue, newQueue') /\ Part(cancelQueue, cancelQueue')
  BY <1>1, <1>2, <1>3
<1>5. QED
  BY <1>4 DEF Next, Take, Part

LEMMA HeadTyped ==
    ASSUME SysInv
    PROVE  /\ newQueue # <<>> => Head(newQueue) \in Requests
           /\ cancelQueue # <<>> => Head(cancelQueue).id \in OrderIds
<1>1. newQueue \in Seq(Requests) /\ cancelQueue \in Seq(Requests)
  BY DEF SysInv, IInv, TypeOK
<1>2. \A r \in Requests : r.id \in OrderIds
  BY DEF Requests
<1>3. QED
  BY <1>1, <1>2

LEMMA RejectNewKeeps ==
    ASSUME SysInv, RejectNew
    PROVE  Next /\ ExchangeTyped'
<1> DEFINE r == Head(newQueue)
           o == [state |-> "done", side |-> r.side, qty |-> r.qty, cum |-> 0]
<1>1. r \in Requests
  BY HeadTyped DEF RejectNew
<1>2. r.id \in OrderIds /\ o \in ExchangeOrders
  BY <1>1, ConstantsAssumption DEF ConstantsAssumption, Requests, ExchangeOrders
<1>3. Update(r.id, "Cancelled", o) \in OrderEvents /\ [id |-> r.id, success |-> FALSE] \in Results
  BY <1>2, UpdateTyped DEF Results
<1>4. Next
  BY TakesHead DEF RejectNew, SysInv, IInv
<1>5. /\ orders' = orders \/ orders' = [orders EXCEPT ![r.id] = o]
      /\ results' = results \/ results' = Append(results, [id |-> r.id, success |-> FALSE])
      /\ updates' = updates \/ updates' = Append(updates, Update(r.id, "Cancelled", o))
      /\ position' = position
  BY DEF RejectNew
<1> HIDE DEF o, r
<1>6. orders' \in [OrderIds -> ExchangeOrders] /\ position' \in Int
  BY <1>2, <1>5 DEF SysInv, ExchangeTyped
<1>10. results \in Seq(Results) /\ updates \in Seq(OrderEvents)
  BY DEF SysInv, ExchangeTyped
<1>7. results' \in Seq(Results)
  <2> DEFINE e == [id |-> r.id, success |-> FALSE]
  <2> HIDE DEF e
  <2>1. e \in Results /\ (results' = results \/ results' = Append(results, e))
    BY <1>3, <1>5 DEF e
  <2> QED
    BY <1>10, <2>1
<1>8. updates' \in Seq(OrderEvents)
  <2> DEFINE e == Update(r.id, "Cancelled", o)
  <2> HIDE DEF e
  <2>1. e \in OrderEvents /\ (updates' = updates \/ updates' = Append(updates, e))
    BY <1>3, <1>5 DEF e
  <2> QED
    BY <1>10, <2>1
<1>9. QED
  BY <1>4, <1>6, <1>7, <1>8 DEF ExchangeTyped

LEMMA AcceptLimitKeeps ==
    ASSUME SysInv, AcceptLimit
    PROVE  Next /\ ExchangeTyped'
<1> DEFINE r == Head(newQueue)
           o == [state |-> "live", side |-> r.side, qty |-> r.qty, cum |-> 0]
<1>1. r \in Requests
  BY HeadTyped DEF AcceptLimit
<1>2. r.id \in OrderIds /\ o \in ExchangeOrders
  BY <1>1, ConstantsAssumption DEF ConstantsAssumption, Requests, ExchangeOrders
<1>3. Next
  BY TakesHead DEF AcceptLimit, SysInv, IInv
<1>4. orders' = [orders EXCEPT ![r.id] = o] /\ UNCHANGED <<position, results, updates>>
  BY DEF AcceptLimit, channels
<1> HIDE DEF o, r
<1>5. ExchangeTyped'
  BY <1>2, <1>4 DEF SysInv, ExchangeTyped
<1>6. QED
  BY <1>3, <1>5

\* No order executes more than it has left.
LEMMA RoomBounds ==
    ASSUME ExchangeTyped, NEW id, NEW s \in Sides \cup {NoSide}, NEW n \in Int,
           NEW k \in 0 .. Room(id, s, n)
    PROVE  k \in Nat /\ (k > 0 => k <= n)
<1>1. Lots(Opposite(s), position) \in Int
  BY DEF Lots, ExchangeTyped
<1>2. QED
  BY <1>1 DEF Room

LEMMA ExecuteMarketKeeps ==
    ASSUME SysInv, ExecuteMarket
    PROVE  Next /\ ExchangeTyped'
<1> DEFINE r == Head(newQueue)
           o(n) == [state |-> "done", side |-> r.side, qty |-> r.qty, cum |-> n]
<1>1. r \in Requests
  BY HeadTyped DEF ExecuteMarket
<1>2. r.id \in OrderIds /\ r.side \in Sides /\ r.qty \in 0 .. DefaultQty
  BY <1>1 DEF Requests
<1>3. Next
  BY TakesHead DEF ExecuteMarket, SysInv, IInv
<1>4. PICK n \in 0 .. Room(r.id, r.side, r.qty), status \in {"Filled", "Cancelled"} :
          Record(r.id, o(n), n, <<Update(r.id, status, o(n))>>)
  BY DEF ExecuteMarket
<1>5. n \in 0 .. DefaultQty
  BY <1>2, <1>4, RoomBounds, ConstantsAssumption DEF ConstantsAssumption, SysInv
<1>6. o(n) \in ExchangeOrders
  BY <1>2, <1>5 DEF ExchangeOrders
<1>7. <<Update(r.id, status, o(n))>> \in Seq(OrderEvents)
  BY <1>2, <1>6, UpdateTyped
<1>8. results' = results
  BY DEF ExecuteMarket
<1> HIDE DEF r, o
<1>9. n \in Int
  BY <1>5
<1>10. orders' \in [OrderIds -> ExchangeOrders] /\ position' \in Int /\ updates' \in Seq(OrderEvents)
  BY <1>2, <1>4, <1>6, <1>7, <1>9, RecordTyped DEF SysInv
<1>11. QED
  BY <1>3, <1>8, <1>10 DEF SysInv, ExchangeTyped

LEMMA FillLimitKeeps ==
    ASSUME SysInv, FillLimit
    PROVE  UNCHANGED tmVars /\ ExchangeTyped'
<1> DEFINE full(id, n) == orders[id].cum + n = orders[id].qty
           filled(id, n) == [orders[id] EXCEPT !.cum = orders[id].cum + n,
                                !.state = IF full(id, n) THEN "done" ELSE "live"]
           news(id, n) == IF full(id, n) THEN <<Update(id, "Filled", filled(id, n))>> ELSE <<>>
<1>1. PICK id \in OrderIds :
          \E n \in 1 .. Room(id, orders[id].side, orders[id].qty - orders[id].cum) :
              Record(id, filled(id, n), n, news(id, n))
  BY DEF FillLimit
<1>2. PICK n \in 1 .. Room(id, orders[id].side, orders[id].qty - orders[id].cum) :
          Record(id, filled(id, n), n, news(id, n))
  BY <1>1
<1>3. orders[id] \in ExchangeOrders
  BY DEF SysInv, ExchangeTyped
<1>4. /\ orders[id].qty \in 0 .. DefaultQty /\ orders[id].cum \in 0 .. DefaultQty
      /\ orders[id].side \in Sides \cup {NoSide}
  BY <1>3 DEF ExchangeOrders
<1>5. n \in Nat /\ n <= orders[id].qty - orders[id].cum
  BY <1>4, RoomBounds DEF SysInv
<1>6. orders[id].cum + n \in 0 .. DefaultQty
  BY <1>4, <1>5, ConstantsAssumption DEF ConstantsAssumption
<1>7. filled(id, n) \in ExchangeOrders
  BY <1>3, <1>6 DEF ExchangeOrders
<1>8. news(id, n) \in Seq(OrderEvents)
  <2>1. Update(id, "Filled", filled(id, n)) \in OrderEvents
    BY <1>7, UpdateTyped
  <2> HIDE DEF filled, full
  <2>2. QED
    BY <2>1
<1>9. UNCHANGED tmVars /\ results' = results
  BY DEF FillLimit
<1> HIDE DEF filled, news
<1>10. QED
  BY <1>2, <1>5, <1>7, <1>8, <1>9, RecordTyped DEF SysInv, ExchangeTyped

\* The end of a live order, by a cancel or otherwise.
LEMMA EndTyped ==
    ASSUME ExchangeTyped, NEW id \in OrderIds, End(id)
    PROVE  orders' \in [OrderIds -> ExchangeOrders] /\ updates' \in Seq(OrderEvents)
<1> DEFINE o == [orders[id] EXCEPT !.state = "done"]
<1>1. o \in ExchangeOrders
  BY DEF ExchangeTyped, ExchangeOrders
<1>2. Update(id, "Cancelled", o) \in OrderEvents
  BY <1>1, UpdateTyped
<1>3. orders' = [orders EXCEPT ![id] = o] /\ updates' = Append(updates, Update(id, "Cancelled", o))
  BY DEF End
<1> HIDE DEF o
<1>4. QED
  BY <1>1, <1>2, <1>3 DEF ExchangeTyped

LEMMA ProcessCancelKeeps ==
    ASSUME SysInv, ProcessCancel
    PROVE  Next /\ ExchangeTyped'
<1> DEFINE id == Head(cancelQueue).id
<1>1. id \in OrderIds
  BY HeadTyped DEF ProcessCancel
<1>2. [id |-> id, success |-> FALSE] \in Results
  BY <1>1 DEF Results
<1>3. Next
  BY TakesHead DEF ProcessCancel, SysInv, IInv
<1>4. position' = position /\ \/ End(id) /\ results' = results
                              \/ /\ results' = Append(results, [id |-> id, success |-> FALSE])
                                 /\ UNCHANGED <<orders, updates>>
  BY DEF ProcessCancel
<1> HIDE DEF id
<1>5. results' \in Seq(Results)
  BY <1>2, <1>4 DEF SysInv, ExchangeTyped
<1>6. orders' \in [OrderIds -> ExchangeOrders] /\ updates' \in Seq(OrderEvents)
  BY <1>1, <1>4, EndTyped DEF SysInv, ExchangeTyped
<1>7. QED
  BY <1>3, <1>4, <1>5, <1>6 DEF SysInv, ExchangeTyped

LEMMA LosesKeep ==
    ASSUME SysInv, LoseUpdates \/ LoseRequests \/ Expire
    PROVE  [Next]_tmVars /\ ExchangeTyped'
<1>1. CASE LoseUpdates
  <2>1. updates' \in Seq(OrderEvents)
    BY <1>1, PartOfSeq DEF LoseUpdates, SysInv, ExchangeTyped
  <2>2. QED
    BY <1>1, <2>1 DEF LoseUpdates, SysInv, ExchangeTyped, exchange
<1>2. CASE LoseRequests
  <2>1. newQueue \in Seq(Requests) /\ cancelQueue \in Seq(Requests) /\ results \in Seq(Results)
    BY DEF SysInv, IInv, TypeOK, ExchangeTyped
  <2>2. PICK i \in 0 .. Len(newQueue), j \in 0 .. Len(cancelQueue), k \in 0 .. Len(results) :
            /\ newQueue' = SubSeq(newQueue, 1, i)
            /\ cancelQueue' = SubSeq(cancelQueue, 1, j)
            /\ results' = SubSeq(results, 1, k)
    BY <1>2 DEF LoseRequests
  <2>3. 1 \in 1 .. Len(newQueue) + 1 /\ 1 \in 1 .. Len(cancelQueue) + 1
    BY <2>1
  <2>4. Next
    BY <1>2, <2>2, <2>3 DEF LoseRequests, Next, Take
  <2>5. results' \in Seq(Results)
    BY <2>1, <2>2, PartOfSeq
  <2>6. QED
    BY <1>2, <2>4, <2>5 DEF LoseRequests, SysInv, ExchangeTyped, exchange
<1>3. CASE Expire
  BY <1>3, EndTyped DEF Expire, SysInv, ExchangeTyped
<1>4. QED
  BY <1>1, <1>2, <1>3

-----------------------------------------------------------------------------
LEMMA SysInitEstablishes == SysInit => SysInv
<1> SUFFICES ASSUME SysInit PROVE SysInv
  OBVIOUS
<1>1. IInv
  BY InitEstablishes DEF SysInit
<1>2. NoOrder \in ExchangeOrders
  BY ConstantsAssumption DEF ConstantsAssumption, NoOrder, ExchangeOrders
<1>3. QED
  BY <1>1, <1>2 DEF SysInit, SysInv, ExchangeTyped

LEMMA SysStepIsManagerStep ==
    SysInv /\ [SysNext]_vars => [Next]_tmVars /\ ExchangeTyped'
<1> SUFFICES ASSUME SysInv, [SysNext]_vars PROVE [Next]_tmVars /\ ExchangeTyped'
  OBVIOUS
<1>1. CASE Strategy
  BY <1>1, StrategyIsManager
<1>2. CASE TimePasses
  BY <1>2 DEF TimePasses, Next, SysInv, ExchangeTyped, exchange, channels
<1>3. CASE ProcessNew
  BY <1>3, RejectNewKeeps, AcceptLimitKeeps, ExecuteMarketKeeps DEF ProcessNew
<1>4. CASE ProcessCancel \/ FillLimit
  BY <1>4, ProcessCancelKeeps, FillLimitKeeps
<1>5. CASE LoseUpdates \/ LoseRequests \/ Expire
  BY <1>5, LosesKeep
<1>6. CASE UNCHANGED vars
  BY <1>6 DEF vars, SysInv, ExchangeTyped, exchange, channels
<1>7. QED
  BY <1>1, <1>2, <1>3, <1>4, <1>5, <1>6 DEF SysNext, Environment

LEMMA SysStepKeeps == SysInv /\ [SysNext]_vars => SysInv'
BY SysStepIsManagerStep, StepKeeps DEF SysInv

\* Manager, sender queues and exchange together keep every variable in its range,
\* whatever fails (trade_manager.h:66-100).
THEOREM SystemInvariant == SysSpec => []SysInv
BY SysInitEstablishes, SysStepKeeps, PTL DEF SysSpec

\* The orders of the exchange, the messages on their way and the manager's variables
\* stay in their ranges (trade_manager.h:21-100).
THEOREM SystemTypeCorrect == SysSpec => []SysTypeOK
<1>1. SysInv => SysTypeOK
  BY DEF SysInv, IInv, SysTypeOK
<1>2. QED
  BY <1>1, SystemInvariant, PTL

\* The system implements the open trade manager: every answer and update it hands to
\* a handler is one the handler is specified for.
THEOREM SystemIsManager == SysSpec => Spec
<1>1. SysInit => Init
  BY DEF SysInit
<1>2. QED
  BY <1>1, SystemInvariant, SysStepIsManagerStep, PTL DEF SysSpec, Spec

\* In the system too, the flags describe one awaited step of the trade
\* (trade_manager.cpp:228-614).
THEOREM SystemOneStepAwaited == SysSpec => []WaitDiscipline
BY SystemIsManager, OneStepAwaited, PTL

\* In the system too, a close once begun is never forgotten
\* (trade_manager.cpp:448-455, 860-882).
THEOREM SystemReasonIsFinal == SysSpec => ClosingIsFinal
BY SystemIsManager, ReasonIsFinal, PTL

-----------------------------------------------------------------------------
(* The lots the account holds, for any number of trades and faults, any    *)
(* queue length and any order quantity.                                    *)
(*                                                                         *)
(* Whether a fill is counted once depends on every message that is still   *)
(* under way.  LotsInv says what each of them may still do: a request for  *)
(* the exchange, a cancel, an answer, an update, a resting order.  Its     *)
(* last part, the ledger, is the heart: the lots of this trade that the    *)
(* updates under way will add to closePartiallyFilledQty, the lots a       *)
(* resting order has executed without telling, and the lots still held are *)
(* together never more than openQty.                                       *)
(*                                                                         *)
(* A step of the strategy has one of the outcomes of Outcome, a step of    *)
(* the exchange is Opens, Reduces or Fades; each keeps LotsInv, and        *)
(* TradeLifecycle's actions are read off the same cases.                   *)

\* Lots held in the direction of the trade.
Exposed == Lots(side, position)
Opening == side # NoSide /\ ~tradeIsOpen
AtMarket == "openMarket" \in wait

\* The order that is meant to open the trade now.
Opener == Id(IF AtMarket THEN "OpenMarket" ELSE "OpenLimit")

\* An order of the trade that is held or being opened.
Current(id) == id[1] = tradeNumber /\ side # NoSide

(* What the parts of the system may still do.                              *)

\* A request to open is for the order that opens the trade, which is new; a request
\* to close, of this trade, is for at least what is held.
RequestOk(r) ==
    /\ r.id[1] <= tradeNumber
    /\ ~IsReduceOnly(r.id) =>
          /\ Opening /\ r.id = Opener /\ r.side = side /\ r.qty = DefaultQty
          /\ orders[r.id].state = "none"
    /\ IsReduceOnly(r.id) /\ Current(r.id) =>
          /\ tradeIsOpen /\ closeReason # "None"
          /\ r.side = Opposite(side) /\ r.qty >= Exposed

\* The queue holds no request twice that opens, and none of an earlier trade once
\* the exchange knows an order of this one.
QueueOk ==
    /\ \A i \in 1 .. Len(newQueue) : RequestOk(newQueue[i])
    /\ \A i, j \in 1 .. Len(newQueue) :
          /\ i < j => newQueue[i].id[1] <= newQueue[j].id[1]
          /\ newQueue[i].id = newQueue[j].id /\ ~IsReduceOnly(newQueue[i].id) => i = j
    /\ orders[Id("OpenLimit")].state # "none" =>
          \A i \in 1 .. Len(newQueue) : newQueue[i].id[1] = tradeNumber

\* The opening order is cancelled only when it is no longer waited for.
CancelOk(r) ==
    /\ r.id[1] <= tradeNumber /\ r.id[2] \in {"OpenLimit", "CloseLimit"}
    /\ r.id = Id("OpenLimit") => "openLimit" \notin wait

\* An answer that the manager acts upon while it waits for an opening order is
\* about an order that ended without an execution.
ResultOk(r) ==
    /\ r.id[1] <= tradeNumber
    /\ r.id[2] = "OpenMarket" => orders[r.id].state # "none"
    /\ \/ r.id = Id("OpenLimit") /\ "openLimit" \in wait
       \/ r.id = Id("OpenMarket") /\ AtMarket
       => orders[r.id].state = "done" /\ orders[r.id].cum = 0

\* The update of an opening order of this trade is the last word about it, and a
\* closing order that is Filled left nothing.
UpdateOk(u) ==
    /\ u.id[1] <= tradeNumber
    /\ u.status = "Filled" => u.cum > 0
    /\ Current(u.id) /\ ~IsReduceOnly(u.id) =>
          /\ Opening /\ u.id = Opener
          /\ orders[u.id].state = "done" /\ u.cum = orders[u.id].cum
    /\ Current(u.id) /\ IsReduceOnly(u.id) =>
          tradeIsOpen /\ (u.status = "Filled" => position = 0)

CancelsOk == \A i \in 1 .. Len(cancelQueue) : CancelOk(cancelQueue[i])

ResultsOk == \A i \in 1 .. Len(results) : ResultOk(results[i])

UpdatesOk ==
    /\ \A i \in 1 .. Len(updates) : UpdateOk(updates[i])
    /\ \A i, j \in 1 .. Len(updates) :
          updates[i].id = updates[j].id /\ Current(updates[i].id)
             /\ ~IsReduceOnly(updates[i].id) => i = j

\* Only the limit orders of this trade rest; one that closes covers what is held.
OrderOk(id) ==
    LET o == orders[id] IN
    /\ o.state = "none" => o.cum = 0
    /\ o.state # "none" => id[1] <= tradeNumber
    /\ o.state = "live" => Current(id)
    /\ o.state = "live" /\ ~IsReduceOnly(id) =>
          /\ Opening /\ ~AtMarket /\ id = Id("OpenLimit")
          /\ o.side = side /\ o.qty = DefaultQty
    /\ o.state = "live" /\ IsReduceOnly(id) =>
          /\ tradeIsOpen /\ closeReason # "None" /\ id = Id("CloseLimit")
          /\ o.side = Opposite(side) /\ o.qty - o.cum >= Exposed
          /\ position # 0

OrdersOk == \A id \in OrderIds : OrderOk(id)

\* While a trade is being opened, what is held is what its opening order executed.
PositionOk ==
    /\ side = NoSide => position = 0
    /\ position # 0 => orders[Id("OpenLimit")].state # "none"
    /\ Opening =>
          /\ Exposed = orders[Opener].cum
          /\ ~AtMarket => orders[Id("OpenMarket")].state = "none"
          /\ AtMarket => orders[Id("OpenLimit")].state = "done"
          /\ closeReason = "None" /\ closePartiallyFilledQty = 0
    /\ tradeIsOpen => openQty > 0 /\ Exposed >= 0
    /\ side # NoSide => closeQty = 0

\* The lots by which update u raises closePartiallyFilledQty of trade k, at most.
Counted(u, k) == IF u.id[1] = k /\ IsReduceOnly(u.id) THEN u.cum ELSE 0

\* Counting the updates `us` of trade k one after the other leads from `from` to at
\* most `to`: acc[i] bounds the count after the i-th.
Tally(us, k, from, to) ==
    \E acc \in [0 .. Len(us) -> 0 .. DefaultQty] :
        /\ from <= acc[0] /\ acc[Len(us)] <= to
        /\ \A i, j \in 0 .. Len(us) : i <= j => acc[i] <= acc[j]
        /\ \A i \in 1 .. Len(us) : acc[i-1] + Counted(us[i], k) <= acc[i]

\* What is counted, under way, unreported and held adds up to no more than the trade
\* opened.
Ledger ==
    tradeIsOpen =>
        Tally(updates, tradeNumber, closePartiallyFilledQty, openQty - Exposed - Unreported)

LotsInv == QueueOk /\ CancelsOk /\ ResultsOk /\ UpdatesOk /\ OrdersOk /\ PositionOk /\ Ledger

-----------------------------------------------------------------------------
(* Tallies.                                                                *)

LEMMA CountedBounds ==
    ASSUME NEW u \in OrderEvents, NEW k
    PROVE  Counted(u, k) \in 0 .. DefaultQty
BY ConstantsAssumption DEF ConstantsAssumption, Counted, OrderEvents

LEMMA TallyBounds ==
    ASSUME NEW us \in Seq(OrderEvents), NEW k, NEW from \in Int, NEW to \in Int,
           Tally(us, k, from, to)
    PROVE  from <= to
<1>1. PICK acc \in [0 .. Len(us) -> 0 .. DefaultQty] :
          /\ from <= acc[0] /\ acc[Len(us)] <= to
          /\ \A i, j \in 0 .. Len(us) : i <= j => acc[i] <= acc[j]
  BY DEF Tally
<1>2. Len(us) \in Nat /\ 0 \in 0 .. Len(us) /\ Len(us) \in 0 .. Len(us)
  OBVIOUS
<1>3. acc[0] <= acc[Len(us)] /\ acc[0] \in Int /\ acc[Len(us)] \in Int
  BY <1>1, <1>2, ConstantsAssumption DEF ConstantsAssumption
<1> QED
  BY <1>1, <1>3

LEMMA TallyWider ==
    ASSUME NEW us \in Seq(OrderEvents), NEW k, NEW from \in Int, NEW to \in Int,
           NEW from2 \in Int, NEW to2 \in Int, from2 <= from, to <= to2,
           Tally(us, k, from, to)
    PROVE  Tally(us, k, from2, to2)
<1>1. PICK acc \in [0 .. Len(us) -> 0 .. DefaultQty] :
          /\ from <= acc[0] /\ acc[Len(us)] <= to
          /\ \A i, j \in 0 .. Len(us) : i <= j => acc[i] <= acc[j]
          /\ \A i \in 1 .. Len(us) : acc[i - 1] + Counted(us[i], k) <= acc[i]
  BY DEF Tally
<1>2. Len(us) \in Nat /\ acc[0] \in Int /\ acc[Len(us)] \in Int
  BY <1>1, ConstantsAssumption DEF ConstantsAssumption
<1>3. from2 <= acc[0] /\ acc[Len(us)] <= to2
  BY <1>1, <1>2
<1> QED
  BY <1>1, <1>3 DEF Tally

\* Nothing under way counts for this trade.
LEMMA TallyOfOthers ==
    ASSUME NEW us \in Seq(OrderEvents), NEW k, NEW from \in 0 .. DefaultQty, NEW to \in Int, from <= to,
           \A i \in 1 .. Len(us) : Counted(us[i], k) = 0
    PROVE  Tally(us, k, from, to)
<1> DEFINE acc == [i \in 0 .. Len(us) |-> from]
<1>1. acc \in [0 .. Len(us) -> 0 .. DefaultQty] /\ Len(us) \in Nat
  OBVIOUS
<1>2. from <= acc[0] /\ acc[Len(us)] <= to
  BY <1>1
<1>3. \A i, j \in 0 .. Len(us) : acc[i] <= acc[j]
  BY <1>1
<1>4. \A i \in 1 .. Len(us) : acc[i - 1] + Counted(us[i], k) <= acc[i]
  BY <1>1
<1> HIDE DEF acc
<1> QED
  BY <1>1, <1>2, <1>3, <1>4 DEF Tally

LEMMA TallyAppend ==
    ASSUME NEW us \in Seq(OrderEvents), NEW k, NEW from \in Int, NEW to \in Int,
           NEW u \in OrderEvents, NEW to2 \in Int,
           Tally(us, k, from, to), to + Counted(u, k) <= to2, to2 <= DefaultQty
    PROVE  Tally(Append(us, u), k, from, to2)
<1>1. PICK acc \in [0 .. Len(us) -> 0 .. DefaultQty] :
          /\ from <= acc[0] /\ acc[Len(us)] <= to
          /\ \A i, j \in 0 .. Len(us) : i <= j => acc[i] <= acc[j]
          /\ \A i \in 1 .. Len(us) : acc[i - 1] + Counted(us[i], k) <= acc[i]
  BY DEF Tally
<1> DEFINE n == Len(us)
           vs == Append(us, u)
           more == [i \in 0 .. n + 1 |-> IF i = n + 1 THEN to2 ELSE acc[i]]
<1>2. n \in Nat /\ Len(vs) = n + 1 /\ vs[n + 1] = u /\ \A i \in 1 .. n : vs[i] = us[i]
  OBVIOUS
<1>3. Counted(u, k) \in 0 .. DefaultQty /\ DefaultQty \in Nat
  BY CountedBounds, ConstantsAssumption DEF ConstantsAssumption
<1>4. to2 \in 0 .. DefaultQty /\ \A i \in 0 .. n : acc[i] <= to2 /\ acc[i] \in 0 .. DefaultQty
  <2>1. acc[n] <= to /\ n \in 0 .. n /\ \A i \in 0 .. n : acc[i] <= acc[n]
    BY <1>1, <1>2
  <2>2. \A i \in 0 .. n : acc[i] \in 0 .. DefaultQty
    BY <1>1
  <2> HIDE DEF n
  <2>3. acc[n] <= to2
    BY <1>3, <2>1, <2>2
  <2> QED
    BY <1>3, <2>1, <2>2, <2>3
<1> HIDE DEF n, vs
<1>5. more \in [0 .. n + 1 -> 0 .. DefaultQty]
  BY <1>1, <1>2, <1>4 DEF n
<1>6. more[n + 1] = to2 /\ \A i \in 0 .. n : more[i] = acc[i]
  BY <1>2
<1> HIDE DEF more
<1>7. from <= more[0] /\ more[n + 1] <= to2
  BY <1>1, <1>2, <1>6
<1>8. \A i, j \in 0 .. n + 1 : i <= j => more[i] <= more[j]
  <2>1. TAKE i, j \in 0 .. n + 1
  <2>2. CASE j = n + 1
    BY <1>2, <1>4, <1>6, <2>2
  <2>3. CASE j \in 0 .. n
    BY <1>1, <1>2, <1>6, <2>3 DEF n
  <2> QED
    BY <1>2, <2>2, <2>3
<1>9. \A i \in 1 .. n + 1 : more[i - 1] + Counted(vs[i], k) <= more[i]
  <2>1. TAKE i \in 1 .. n + 1
  <2>2. CASE i = n + 1
    <3>1. more[i - 1] = acc[n] /\ more[i] = to2 /\ vs[i] = u /\ acc[n] <= to /\ acc[n] \in Int
      BY <1>1, <1>2, <1>4, <1>6, <2>2 DEF n
    <3> QED
      BY <1>3, <3>1
  <2>3. CASE i \in 1 .. n
    <3>1. more[i - 1] = acc[i - 1] /\ more[i] = acc[i] /\ vs[i] = us[i]
      BY <1>2, <1>6, <2>3
    <3> QED
      BY <1>1, <2>3, <3>1 DEF n
  <2> QED
    BY <1>2, <2>2, <2>3
<1> QED
  BY <1>2, <1>5, <1>7, <1>8, <1>9 DEF Tally, vs

LEMMA TallyTail ==
    ASSUME NEW us \in Seq(OrderEvents), us # <<>>, NEW k, NEW from \in Int, NEW to \in Int,
           Tally(us, k, from, to)
    PROVE  /\ Tally(Tail(us), k, from + Counted(Head(us), k), to)
           /\ from + Counted(Head(us), k) <= to
<1>1. PICK acc \in [0 .. Len(us) -> 0 .. DefaultQty] :
          /\ from <= acc[0] /\ acc[Len(us)] <= to
          /\ \A i, j \in 0 .. Len(us) : i <= j => acc[i] <= acc[j]
          /\ \A i \in 1 .. Len(us) : acc[i - 1] + Counted(us[i], k) <= acc[i]
  BY DEF Tally
<1> DEFINE n == Len(us) - 1
           vs == Tail(us)
           less == [i \in 0 .. n |-> acc[i + 1]]
<1>2. n \in Nat /\ Len(vs) = n /\ Len(us) = n + 1 /\ Head(us) = us[1] /\ vs \in Seq(OrderEvents)
      /\ \A i \in 1 .. n : vs[i] = us[i + 1]
  OBVIOUS
<1>3. Counted(us[1], k) \in 0 .. DefaultQty /\ DefaultQty \in Nat
  BY <1>2, CountedBounds, ConstantsAssumption DEF ConstantsAssumption
<1> HIDE DEF n, vs
<1>4. less \in [0 .. n -> 0 .. DefaultQty] /\ \A i \in 0 .. n : less[i] = acc[i + 1]
  BY <1>1, <1>2
<1> HIDE DEF less
<1>5. acc[0] + Counted(us[1], k) <= acc[1] /\ acc[1] <= acc[n + 1]
      /\ acc[0] \in Int /\ acc[1] \in Int /\ acc[n + 1] \in Int
  BY <1>1, <1>2, <1>3
<1>6. from + Counted(us[1], k) <= less[0] /\ less[n] <= to /\ from + Counted(us[1], k) <= to
  <2>1. less[0] = acc[1] /\ less[n] = acc[n + 1]
    BY <1>2, <1>4
  <2> QED
    BY <1>1, <1>2, <1>3, <1>5, <2>1
<1>7. \A i, j \in 0 .. n : i <= j => less[i] <= less[j]
  <2>1. TAKE i, j \in 0 .. n
  <2>2. less[i] = acc[i + 1] /\ less[j] = acc[j + 1]
        /\ i + 1 \in 0 .. Len(us) /\ j + 1 \in 0 .. Len(us)
    BY <1>2, <1>4
  <2> QED
    BY <1>1, <2>2
<1>8. \A i \in 1 .. n : less[i - 1] + Counted(vs[i], k) <= less[i]
  <2>1. TAKE i \in 1 .. n
  <2>2. less[i - 1] = acc[i] /\ less[i] = acc[i + 1] /\ vs[i] = us[i + 1] /\ i + 1 \in 1 .. n + 1
    BY <1>2, <1>4
  <2>3. acc[(i + 1) - 1] + Counted(us[i + 1], k) <= acc[i + 1]
    BY <1>1, <1>2, <2>2
  <2> QED
    BY <1>2, <2>2, <2>3
<1>9. Tally(vs, k, from + Counted(us[1], k), to)
  BY <1>2, <1>4, <1>6, <1>7, <1>8 DEF Tally
<1> QED
  BY <1>2, <1>6, <1>9 DEF vs

LEMMA TallyPrefix ==
    ASSUME NEW us \in Seq(OrderEvents), NEW k, NEW from \in Int, NEW to \in Int,
           Tally(us, k, from, to), NEW n \in 0 .. Len(us)
    PROVE  Tally(SubSeq(us, 1, n), k, from, to)
<1>1. PICK acc \in [0 .. Len(us) -> 0 .. DefaultQty] :
          /\ from <= acc[0] /\ acc[Len(us)] <= to
          /\ \A i, j \in 0 .. Len(us) : i <= j => acc[i] <= acc[j]
          /\ \A i \in 1 .. Len(us) : acc[i - 1] + Counted(us[i], k) <= acc[i]
  BY DEF Tally
<1> DEFINE vs == SubSeq(us, 1, n)
           less == [i \in 0 .. n |-> acc[i]]
<1>2. Len(us) \in Nat /\ n \in Nat /\ n <= Len(us) /\ Len(vs) = n /\ \A i \in 1 .. n : vs[i] = us[i]
  OBVIOUS
<1> HIDE DEF vs
<1>3. less \in [0 .. n -> 0 .. DefaultQty] /\ \A i \in 0 .. n : less[i] = acc[i]
  BY <1>1, <1>2
<1> HIDE DEF less
<1>4. from <= less[0] /\ less[n] <= to
  <2>1. less[0] = acc[0] /\ less[n] = acc[n] /\ acc[n] <= acc[Len(us)]
        /\ acc[n] \in Int /\ acc[Len(us)] \in Int
    BY <1>1, <1>2, <1>3, ConstantsAssumption DEF ConstantsAssumption
  <2> HIDE DEF vs
  <2>2. from <= acc[0] /\ acc[Len(us)] <= to
    BY <1>1
  <2> QED
    BY <2>1, <2>2
<1>5. \A i, j \in 0 .. n : i <= j => less[i] <= less[j]
  <2>1. TAKE i, j \in 0 .. n
  <2>2. less[i] = acc[i] /\ less[j] = acc[j] /\ i \in 0 .. Len(us) /\ j \in 0 .. Len(us)
    BY <1>2, <1>3
  <2> QED
    BY <1>1, <2>2
<1>6. \A i \in 1 .. n : less[i - 1] + Counted(vs[i], k) <= less[i]
  <2>1. TAKE i \in 1 .. n
  <2>2. less[i - 1] = acc[i - 1] /\ less[i] = acc[i] /\ vs[i] = us[i] /\ i \in 1 .. Len(us)
    BY <1>2, <1>3
  <2> QED
    BY <1>1, <2>2
<1> QED
  BY <1>2, <1>3, <1>4, <1>5, <1>6 DEF Tally, vs

-----------------------------------------------------------------------------
(* What is left of a queue or a channel.                                   *)

Rest(t, s) ==
    \E d \in Nat : Len(t) + d <= Len(s) /\ \A i \in 1 .. Len(t) : t[i] = s[i + d]

LEMMA RestOfSeq ==
    ASSUME NEW S, NEW s \in Seq(S)
    PROVE  /\ Rest(s, s)
           /\ s # <<>> => Rest(Tail(s), s)
           /\ \A k \in 0 .. Len(s) : Rest(SubSeq(s, 1, k), s)
<1>1. Rest(s, s)
  <2>1. 0 \in Nat /\ Len(s) + 0 <= Len(s) /\ \A i \in 1 .. Len(s) : s[i] = s[i + 0]
    OBVIOUS
  <2> QED
    BY <2>1 DEF Rest
<1>2. ASSUME s # <<>> PROVE Rest(Tail(s), s)
  <2>1. Len(Tail(s)) + 1 <= Len(s) /\ \A i \in 1 .. Len(Tail(s)) : Tail(s)[i] = s[i + 1]
    BY <1>2
  <2> QED
    BY <2>1 DEF Rest
<1>3. ASSUME NEW k \in 0 .. Len(s) PROVE Rest(SubSeq(s, 1, k), s)
  <2> DEFINE t == SubSeq(s, 1, k)
  <2>1. Len(t) = k /\ \A i \in 1 .. k : t[i] = s[i]
    OBVIOUS
  <2> HIDE DEF t
  <2>2. Len(t) + 0 <= Len(s) /\ \A i \in 1 .. Len(t) : t[i] = s[i + 0]
    BY <2>1
  <2>3. Rest(t, s)
    BY <2>2 DEF Rest
  <2> QED
    BY <2>3 DEF t
<1> QED
  BY <1>1, <1>2, <1>3

\* Each item of a sequence that has grown by one is an old item, or the new one.
LEMMA AppendedItem ==
    ASSUME NEW S, NEW s \in Seq(S), NEW e \in S, NEW t, t = Append(s, e), NEW i \in 1 .. Len(t)
    PROVE  /\ t[i] \in S
           /\ \/ i \in 1 .. Len(s) /\ t[i] = s[i]
              \/ i = Len(t) /\ t[i] = e
<1>1. t \in Seq(S) /\ Len(t) = Len(s) + 1
  OBVIOUS
<1>2. t[i] \in S
  BY <1>1
<1> QED
  BY <1>1, <1>2

-----------------------------------------------------------------------------
(* Messages that stay true of what they are about.                         *)

LEMMA Kinds ==
    ASSUME SysInv
    PROVE  /\ newQueue \in Seq(Requests) /\ cancelQueue \in Seq(Requests)
           /\ results \in Seq(Results) /\ updates \in Seq(OrderEvents)
           /\ position \in Int /\ tradeNumber \in 0 .. MaxTrades
           /\ side \in Sides \cup {NoSide} /\ tradeIsOpen \in BOOLEAN
           /\ openQty \in 0 .. DefaultQty /\ closePartiallyFilledQty \in Nat
           /\ orders \in [OrderIds -> ExchangeOrders]
BY DEF SysInv, IInv, TypeOK, ExchangeTyped

LEMMA IdParts ==
    ASSUME NEW id \in OrderIds
    PROVE  /\ id = <<id[1], id[2]>> /\ id[1] \in 0 .. MaxTrades /\ id[1] \in Int
           /\ id[2] \in {"OpenLimit", "OpenMarket", "CloseLimit", "CloseMarket"}
           /\ \A role : id = Id(role) <=> id[1] = tradeNumber /\ id[2] = role
BY ConstantsAssumption DEF OrderIds, OrderRole, Id, ConstantsAssumption

\* The numbers the ledger is about.
LEMMA LotsTyped ==
    ASSUME SysInv
    PROVE  /\ Exposed \in Int /\ Unreported \in 0 .. DefaultQty
           /\ openQty - Exposed - Unreported \in Int
<1>1. Exposed \in Int
  BY Kinds DEF Exposed, Lots
<1>2. Unreported \in 0 .. DefaultQty
  <2>1. Id("CloseLimit") \in OrderIds
    BY IdTyped DEF SysInv, IInv, OrderRole
  <2> QED
    BY <2>1, Kinds, ConstantsAssumption DEF Unreported, ExchangeOrders, ConstantsAssumption
<1> QED
  BY <1>1, <1>2, Kinds

LEMMA CancelsKept ==
    ASSUME SysInv, SysInv', CancelsOk, Rest(cancelQueue', cancelQueue),
           \A r \in Requests : CancelOk(r) => CancelOk(r)'
    PROVE  CancelsOk'
<1>1. cancelQueue \in Seq(Requests) /\ cancelQueue' \in Seq(Requests)
  BY DEF SysInv, IInv, TypeOK
<1>2. PICK d \in Nat : /\ Len(cancelQueue') + d <= Len(cancelQueue)
                       /\ \A i \in 1 .. Len(cancelQueue') : cancelQueue'[i] = cancelQueue[i + d]
  BY DEF Rest
<1>3. ASSUME NEW i \in 1 .. Len(cancelQueue') PROVE CancelOk(cancelQueue[i])'
  <2>1. PICK r \in Requests : r = cancelQueue'[i]
    BY <1>1
  <2>2. i + d \in 1 .. Len(cancelQueue) /\ r = cancelQueue[i + d]
    BY <1>1, <1>2, <2>1
  <2>3. CancelOk(r)
    BY <2>2 DEF CancelsOk
  <2>4. CancelOk(r)'
    BY <2>3
  <2> QED
    BY <2>1, <2>4
<1> QED
  BY <1>3 DEF CancelsOk

LEMMA ResultsKept ==
    ASSUME SysInv, SysInv', ResultsOk, Rest(results', results),
           \A r \in Results : ResultOk(r) => ResultOk(r)'
    PROVE  ResultsOk'
<1>1. results \in Seq(Results) /\ results' \in Seq(Results)
  BY DEF SysInv, ExchangeTyped
<1>2. PICK d \in Nat : /\ Len(results') + d <= Len(results)
                       /\ \A i \in 1 .. Len(results') : results'[i] = results[i + d]
  BY DEF Rest
<1>3. ASSUME NEW i \in 1 .. Len(results') PROVE ResultOk(results[i])'
  <2>1. PICK r \in Results : r = results'[i]
    BY <1>1
  <2>2. i + d \in 1 .. Len(results) /\ r = results[i + d]
    BY <1>1, <1>2, <2>1
  <2>3. ResultOk(r)
    BY <2>2 DEF ResultsOk
  <2>4. ResultOk(r)'
    BY <2>3
  <2> QED
    BY <2>1, <2>4
<1> QED
  BY <1>3 DEF ResultsOk

LEMMA UpdatesKept ==
    ASSUME SysInv, SysInv', UpdatesOk, Rest(updates', updates),
           \A u \in OrderEvents : UpdateOk(u) => UpdateOk(u)',
           \A id \in OrderIds : Current(id)' => Current(id)
    PROVE  UpdatesOk'
<1>1. updates \in Seq(OrderEvents) /\ updates' \in Seq(OrderEvents)
  BY DEF SysInv, ExchangeTyped
<1>2. PICK d \in Nat : /\ Len(updates') + d <= Len(updates)
                       /\ \A i \in 1 .. Len(updates') : updates'[i] = updates[i + d]
  BY DEF Rest
<1>3. ASSUME NEW i \in 1 .. Len(updates') PROVE UpdateOk(updates[i])'
  <2>1. PICK u \in OrderEvents : u = updates'[i]
    BY <1>1
  <2>2. i + d \in 1 .. Len(updates) /\ u = updates[i + d]
    BY <1>1, <1>2, <2>1
  <2>3. UpdateOk(u)
    BY <2>2 DEF UpdatesOk
  <2>4. UpdateOk(u)'
    BY <2>3
  <2> QED
    BY <2>1, <2>4
<1>4. ASSUME NEW i \in 1 .. Len(updates'), NEW j \in 1 .. Len(updates'),
             (updates[i].id = updates[j].id)', Current(updates[i].id)',
             ~IsReduceOnly(updates[i].id)'
      PROVE  i = j
  <2>1. PICK u \in OrderEvents : u = updates'[i]
    BY <1>1
  <2>2. /\ i + d \in 1 .. Len(updates) /\ u = updates[i + d]
        /\ j + d \in 1 .. Len(updates) /\ updates'[j] = updates[j + d]
    BY <1>1, <1>2, <2>1
  <2>3. u.id \in OrderIds /\ Current(u.id)' /\ ~IsReduceOnly(u.id)
    BY <1>4, <2>1 DEF OrderEvents, IsReduceOnly
  <2>4. Current(u.id)
    BY <2>3
  <2>5. i + d = j + d
    BY <1>4, <2>1, <2>2, <2>3, <2>4 DEF UpdatesOk
  <2> QED
    BY <2>5
<1> QED
  BY <1>3, <1>4 DEF UpdatesOk

\* The update just drained was the only one about an opening order of the trade.
LEMMA UpdatesDrained ==
    ASSUME SysInv, SysInv', UpdatesOk, updates # <<>>, updates' = Tail(updates),
           Current(Head(updates).id), ~IsReduceOnly(Head(updates).id),
           \A u \in OrderEvents :
              UpdateOk(u) /\ (Current(u.id) => IsReduceOnly(u.id)) => UpdateOk(u)',
           \A id \in OrderIds : Current(id)' => Current(id)
    PROVE  UpdatesOk'
<1>1. /\ updates \in Seq(OrderEvents) /\ updates' \in Seq(OrderEvents)
      /\ Head(updates) = updates[1] /\ 1 \in 1 .. Len(updates)
      /\ \A i \in 1 .. Len(updates') : i + 1 \in 1 .. Len(updates) /\ updates'[i] = updates[i + 1]
  BY DEF SysInv, ExchangeTyped
<1>2. ASSUME NEW i \in 1 .. Len(updates)
      PROVE  Current(updates[i].id) /\ ~IsReduceOnly(updates[i].id) => i = 1
  <2>1. SUFFICES ASSUME Current(updates[i].id), ~IsReduceOnly(updates[i].id) PROVE i = 1
    OBVIOUS
  <2>2. UpdateOk(updates[i]) /\ UpdateOk(updates[1])
    BY <1>1 DEF UpdatesOk
  <2>3. updates[i].id = Opener /\ updates[1].id = Opener
    BY <1>1, <2>1, <2>2 DEF UpdateOk
  <2> QED
    BY <1>1, <2>1, <2>3 DEF UpdatesOk
<1>3. ASSUME NEW i \in 1 .. Len(updates')
      PROVE  UpdateOk(updates[i])' /\ (Current(updates[i].id)' => IsReduceOnly(updates[i].id)')
  <2>1. PICK u \in OrderEvents : u = updates'[i]
    BY <1>1
  <2>2. i + 1 \in 1 .. Len(updates) /\ u = updates[i + 1] /\ i + 1 # 1 /\ u.id \in OrderIds
    BY <1>1, <2>1 DEF OrderEvents
  <2>3. UpdateOk(u) /\ (Current(u.id) => IsReduceOnly(u.id))
    BY <1>2, <2>2 DEF UpdatesOk
  <2>4. UpdateOk(u)' /\ (Current(u.id)' => IsReduceOnly(u.id))
    BY <2>2, <2>3
  <2> QED
    BY <2>1, <2>4 DEF IsReduceOnly
<1> QED
  BY <1>3 DEF UpdatesOk

\* What the queue of requests keeps when its head is taken, or the rest is lost.
Untaken(r) == newQueue' = Tail(newQueue) => IsReduceOnly(r.id) \/ r.id # Head(newQueue).id

LEMMA QueueKept ==
    ASSUME SysInv, SysInv', QueueOk, UNCHANGED tradeNumber,
           \/ newQueue' = newQueue
           \/ newQueue # <<>> /\ newQueue' = Tail(newQueue)
           \/ \E k \in 0 .. Len(newQueue) : newQueue' = SubSeq(newQueue, 1, k),
           \A r \in Requests : RequestOk(r) /\ Untaken(r) => RequestOk(r)',
           orders'[Id("OpenLimit")].state # "none" =>
              \/ orders[Id("OpenLimit")].state # "none"
              \/ newQueue # <<>> /\ Head(newQueue).id = Id("OpenLimit")
    PROVE  QueueOk'
<1>1. newQueue \in Seq(Requests) /\ newQueue' \in Seq(Requests)
  BY DEF SysInv, IInv, TypeOK
<1>2. Rest(newQueue', newQueue)
  BY <1>1, RestOfSeq
<1>3. PICK d \in Nat : /\ Len(newQueue') + d <= Len(newQueue)
                       /\ \A i \in 1 .. Len(newQueue') : newQueue'[i] = newQueue[i + d]
                       /\ newQueue' = Tail(newQueue) /\ newQueue # <<>> => d = 1
  <2>1. CASE newQueue' = Tail(newQueue) /\ newQueue # <<>>
    <3>1. /\ Len(newQueue') + 1 <= Len(newQueue)
          /\ \A i \in 1 .. Len(newQueue') : newQueue'[i] = newQueue[i + 1]
      BY <1>1, <2>1
    <3> QED
      BY <3>1
  <2>2. CASE ~(newQueue' = Tail(newQueue) /\ newQueue # <<>>)
    BY <1>2, <2>2 DEF Rest
  <2> QED
    BY <2>1, <2>2
<1>4. ASSUME NEW i \in 1 .. Len(newQueue')
      PROVE  i + d \in 1 .. Len(newQueue) /\ newQueue'[i] = newQueue[i + d]
             /\ newQueue'[i] \in Requests
  BY <1>1, <1>3
<1>5. ASSUME NEW i \in 1 .. Len(newQueue') PROVE RequestOk(newQueue[i])'
  <2>1. PICK r \in Requests : r = newQueue'[i]
    BY <1>4
  <2>2. i + d \in 1 .. Len(newQueue) /\ r = newQueue[i + d]
    BY <1>4, <2>1
  <2>3. RequestOk(r)
    BY <2>2 DEF QueueOk
  <2>4. Untaken(r)
    <3>1. SUFFICES ASSUME newQueue' = Tail(newQueue), ~IsReduceOnly(r.id), r.id = Head(newQueue).id
                   PROVE  FALSE
      BY DEF Untaken
    <3>2. newQueue # <<>> /\ Head(newQueue) = newQueue[1] /\ 1 \in 1 .. Len(newQueue)
      BY <1>1, <2>2
    <3>3. d = 1
      BY <1>3, <3>1, <3>2
    <3>4. i + d = 1
      BY <2>2, <3>1, <3>2 DEF QueueOk
    <3> QED
      BY <3>3, <3>4
  <2>5. RequestOk(r)'
    BY <2>3, <2>4
  <2> QED
    BY <2>1, <2>5
<1>6. ASSUME NEW i \in 1 .. Len(newQueue'), NEW j \in 1 .. Len(newQueue')
      PROVE  /\ i < j => newQueue'[i].id[1] <= newQueue'[j].id[1]
             /\ newQueue'[i].id = newQueue'[j].id /\ ~IsReduceOnly(newQueue'[i].id) => i = j
  <2>1. PICK r \in Requests, q \in Requests : r = newQueue'[i] /\ q = newQueue'[j]
    BY <1>4
  <2>2. /\ i + d < j + d => r.id[1] <= q.id[1]
        /\ r.id = q.id /\ ~IsReduceOnly(r.id) => i + d = j + d
    <3>1. PICK k \in 1 .. Len(newQueue), l \in 1 .. Len(newQueue) : k = i + d /\ l = j + d
      BY <1>4
    <3>2. newQueue[k] = r /\ newQueue[l] = q
      BY <1>4, <2>1, <3>1
    <3>3. /\ k < l => newQueue[k].id[1] <= newQueue[l].id[1]
          /\ newQueue[k].id = newQueue[l].id /\ ~IsReduceOnly(newQueue[k].id) => k = l
      BY DEF QueueOk
    <3> QED
      BY <3>1, <3>2, <3>3
  <2>3. i < j => r.id[1] <= q.id[1]
    BY <1>3, <2>2
  <2>4. r.id = q.id /\ ~IsReduceOnly(r.id) => i = j
    BY <1>3, <2>2
  <2> QED
    BY <2>1, <2>3, <2>4
<1>7. ASSUME orders'[Id("OpenLimit")].state # "none", NEW i \in 1 .. Len(newQueue')
      PROVE  newQueue'[i].id[1] = tradeNumber
  <2>1. CASE orders[Id("OpenLimit")].state # "none"
    BY <1>4, <2>1 DEF QueueOk
  <2>2. CASE newQueue # <<>> /\ Head(newQueue).id = Id("OpenLimit")
    <3>1. newQueue[1].id[1] = tradeNumber /\ 1 \in 1 .. Len(newQueue)
      BY <1>1, <2>2 DEF Id
    <3>2. newQueue[i + d].id[1] <= tradeNumber
      BY <1>4 DEF QueueOk, RequestOk
    <3>5. newQueue[i + d].id \in OrderIds
      BY <1>4 DEF Requests
    <3>3. 1 <= i + d /\ newQueue[i + d].id[1] \in Int /\ tradeNumber \in Int
      BY <1>4, <3>5, Kinds, IdParts
    <3>4. tradeNumber <= newQueue[i + d].id[1]
      BY <1>4, <3>1, <3>3 DEF QueueOk
    <3> QED
      BY <1>4, <3>2, <3>3, <3>4
  <2> QED
    BY <1>7, <2>1, <2>2
<1> QED
  BY <1>5, <1>6, <1>7 DEF QueueOk, Id, IsReduceOnly

LEMMA QueueAppended ==
    ASSUME SysInv, SysInv', QueueOk, NEW r \in Requests, newQueue' = Append(newQueue, r),
           \A q \in Requests : RequestOk(q) => RequestOk(q)',
           RequestOk(r)', tradeNumber <= r.id[1],
           ~IsReduceOnly(r.id) => \A q \in Requests : RequestOk(q) => q.id # r.id,
           orders'[Id("OpenLimit")'].state # "none" =>
              /\ orders[Id("OpenLimit")].state # "none"
              /\ tradeNumber' = tradeNumber /\ r.id[1] = tradeNumber
    PROVE  QueueOk'
<1> DEFINE n == Len(newQueue)
<1>1. /\ newQueue \in Seq(Requests) /\ n \in Nat /\ Len(newQueue') = n + 1
      /\ newQueue'[n + 1] = r /\ \A i \in 1 .. n : newQueue'[i] = newQueue[i] /\ newQueue[i] \in Requests
  BY Kinds
<1>2. \A i \in 1 .. n : RequestOk(newQueue[i])
  BY <1>1 DEF QueueOk
<1> HIDE DEF n
<1>3. ASSUME NEW i \in 1 .. n + 1 PROVE RequestOk(newQueue[i])'
  <2>1. PICK q \in Requests : q = newQueue'[i]
    BY <1>1
  <2>2. RequestOk(q)'
    <3>1. CASE i = n + 1
      BY <1>1, <2>1, <3>1
    <3>2. CASE i \in 1 .. n
      <4>1. RequestOk(q)
        BY <1>1, <1>2, <2>1, <3>2
      <4> QED
        BY <4>1
    <3> QED
      BY <1>1, <3>1, <3>2
  <2> QED
    BY <2>1, <2>2
<1>4. ASSUME NEW i \in 1 .. n + 1, NEW j \in 1 .. n + 1
      PROVE  /\ i < j => newQueue'[i].id[1] <= newQueue'[j].id[1]
             /\ newQueue'[i].id = newQueue'[j].id /\ ~IsReduceOnly(newQueue'[i].id) => i = j
  <2>1. PICK p \in Requests, q \in Requests : p = newQueue'[i] /\ q = newQueue'[j]
    BY <1>1
  <2>2. /\ p.id \in OrderIds /\ q.id \in OrderIds
        /\ p.id[1] \in Int /\ q.id[1] \in Int /\ tradeNumber \in Int
    BY IdParts, Kinds DEF Requests
  <2>3. i \in 1 .. n => p.id[1] <= tradeNumber /\ RequestOk(p)
    BY <1>1, <1>2, <2>1 DEF RequestOk
  <2>4. j \in 1 .. n => q.id[1] <= tradeNumber /\ RequestOk(q)
    BY <1>1, <1>2, <2>1 DEF RequestOk
  <2>5. i < j => p.id[1] <= q.id[1]
    <3>1. CASE j \in 1 .. n
      BY <1>1, <2>1, <3>1 DEF QueueOk, n
    <3>2. CASE j = n + 1
      BY <1>1, <2>1, <2>2, <2>3, <3>2
    <3> QED
      BY <1>1, <3>1, <3>2
  <2>6. p.id = q.id /\ ~IsReduceOnly(p.id) => i = j
    <3>1. SUFFICES ASSUME p.id = q.id, ~IsReduceOnly(p.id) PROVE i = j
      OBVIOUS
    <3>2. CASE i \in 1 .. n /\ j \in 1 .. n
      BY <1>1, <2>1, <3>1, <3>2 DEF QueueOk, n
    <3>3. CASE i = n + 1 /\ j \in 1 .. n
      BY <1>1, <2>1, <2>4, <3>1, <3>3
    <3>4. CASE j = n + 1 /\ i \in 1 .. n
      BY <1>1, <2>1, <2>3, <3>1, <3>4
    <3>5. CASE j = n + 1 /\ i = n + 1
      BY <3>5
    <3> QED
      BY <1>1, <3>2, <3>3, <3>4, <3>5
  <2> QED
    BY <2>1, <2>5, <2>6
<1>5. ASSUME orders'[Id("OpenLimit")'].state # "none", NEW i \in 1 .. n + 1
      PROVE  newQueue'[i].id[1] = tradeNumber'
  <2>1. CASE i \in 1 .. n
    BY <1>1, <1>5, <2>1 DEF QueueOk, n
  <2>2. CASE i = n + 1
    BY <1>1, <1>5, <2>2
  <2> QED
    BY <1>1, <2>1, <2>2
<1> QED
  BY <1>1, <1>3, <1>4, <1>5 DEF QueueOk, IsReduceOnly

-----------------------------------------------------------------------------
(* Steps of the manager that leave the stage of the trade and what opens   *)
(* it as they are.                                                         *)

Calm ==
    /\ UNCHANGED <<side, tradeIsOpen, openQty, closeQty, tradeNumber>>
    /\ "openMarket" \in wait' <=> "openMarket" \in wait
    /\ "openLimit" \in wait' => "openLimit" \in wait
    /\ closeReason # "None" => closeReason' # "None"
    /\ ~tradeIsOpen => UNCHANGED <<closeReason, closePartiallyFilledQty>>

LEMMA CalmItems ==
    ASSUME SysInv, Calm, UNCHANGED exchange
    PROVE  /\ \A r \in Requests : RequestOk(r) => RequestOk(r)'
           /\ \A r \in Requests : CancelOk(r) => CancelOk(r)'
           /\ \A r \in Results : ResultOk(r) => ResultOk(r)'
           /\ \A u \in OrderEvents : UpdateOk(u) => UpdateOk(u)'
           /\ \A id \in OrderIds : OrderOk(id) => OrderOk(id)'
<1>1. /\ UNCHANGED <<side, tradeIsOpen, tradeNumber, orders, position>>
      /\ Opener' = Opener /\ Opening' = Opening /\ Exposed' = Exposed
      /\ \A role : Id(role)' = Id(role)
      /\ \A id : Current(id)' <=> Current(id)
  BY DEF Calm, exchange, Opener, Opening, Exposed, AtMarket, Id, Current
<1>2. \A r \in Requests : RequestOk(r) => RequestOk(r)'
  BY <1>1 DEF RequestOk, Calm, IsReduceOnly
<1>3. \A r \in Requests : CancelOk(r) => CancelOk(r)'
  BY <1>1 DEF CancelOk, Calm
<1>4. \A r \in Results : ResultOk(r) => ResultOk(r)'
  BY <1>1 DEF ResultOk, Calm, AtMarket
<1>5. \A u \in OrderEvents : UpdateOk(u) => UpdateOk(u)'
  BY <1>1 DEF UpdateOk, IsReduceOnly
<1>6. \A id \in OrderIds : OrderOk(id) => OrderOk(id)'
  BY <1>1 DEF OrderOk, Calm, IsReduceOnly, AtMarket
<1> QED
  BY <1>2, <1>3, <1>4, <1>5, <1>6

LEMMA CalmKeeps ==
    ASSUME SysInv, SysInv', LotsInv, Calm, UNCHANGED exchange,
           Rest(results', results), Rest(updates', updates)
    PROVE  ResultsOk' /\ UpdatesOk' /\ OrdersOk' /\ PositionOk'
<1>1. ResultsOk'
  BY CalmItems, ResultsKept DEF LotsInv
<1>2. UpdatesOk'
  <2>1. \A id \in OrderIds : Current(id)' => Current(id)
    BY DEF Current, Calm
  <2> QED
    BY <2>1, CalmItems, UpdatesKept DEF LotsInv
<1>3. OrdersOk'
  BY CalmItems DEF OrdersOk, LotsInv
<1>4. PositionOk'
  BY DEF PositionOk, LotsInv, Calm, exchange, Opening, Opener, Exposed, AtMarket, Id
<1> QED
  BY <1>1, <1>2, <1>3, <1>4

\* The next update is handed to the manager, which counts at most its lots.
Counts ==
    \/ UNCHANGED <<updates, closePartiallyFilledQty>>
    \/ /\ updates # <<>> /\ updates' = Tail(updates)
       /\ closePartiallyFilledQty' <= closePartiallyFilledQty + Counted(Head(updates), tradeNumber)

LEMMA CalmLedger ==
    ASSUME SysInv, SysInv', LotsInv, Calm, UNCHANGED exchange, Counts
    PROVE  Ledger'
<1> DEFINE to == openQty - Exposed - Unreported
<1>1. SUFFICES ASSUME tradeIsOpen PROVE Tally(updates', tradeNumber, closePartiallyFilledQty', to)
  BY DEF Ledger, Calm, exchange, Exposed, Unreported, Id
<1>2. Tally(updates, tradeNumber, closePartiallyFilledQty, to)
  BY <1>1 DEF LotsInv, Ledger
<1>3. /\ updates \in Seq(OrderEvents) /\ to \in Int
      /\ closePartiallyFilledQty \in Int /\ closePartiallyFilledQty' \in Int
  <2>1. updates \in Seq(OrderEvents) /\ to \in Int
    BY Kinds, LotsTyped
  <2>2. closePartiallyFilledQty \in Int /\ closePartiallyFilledQty' \in Int
    BY DEF SysInv, IInv, TypeOK
  <2> QED
    BY <2>1, <2>2
<1> HIDE DEF to
<1>4. CASE UNCHANGED <<updates, closePartiallyFilledQty>>
  BY <1>2, <1>4
<1>5. CASE /\ updates # <<>> /\ updates' = Tail(updates)
           /\ closePartiallyFilledQty' <= closePartiallyFilledQty + Counted(Head(updates), tradeNumber)
  <2>1. Head(updates) \in OrderEvents /\ Tail(updates) \in Seq(OrderEvents)
    BY <1>3, <1>5
  <2>2. Counted(Head(updates), tradeNumber) \in Int
    BY <2>1, CountedBounds
  <2>3. Tally(Tail(updates), tradeNumber, closePartiallyFilledQty + Counted(Head(updates), tradeNumber), to)
    BY <1>2, <1>3, <1>5, TallyTail
  <2> DEFINE from == closePartiallyFilledQty + Counted(Head(updates), tradeNumber)
  <2>4. from \in Int /\ closePartiallyFilledQty' <= from /\ to <= to
    BY <1>3, <1>5, <2>2
  <2> HIDE DEF from
  <2>5. Tally(Tail(updates), tradeNumber, from, to)
    BY <2>3 DEF from
  <2>6. Tally(Tail(updates), tradeNumber, closePartiallyFilledQty', to)
    BY <1>3, <2>1, <2>4, <2>5, TallyWider
  <2> QED
    BY <1>5, <2>6
<1> QED
  BY <1>4, <1>5 DEF Counts

\* What a calm step asks of the exchange: nothing, a cancel, or a closing order for
\* what is left to close.
Asks ==
    \/ UNCHANGED queues
    \/ UNCHANGED newQueue
       /\ \E r \in Requests : CancelOk(r)' /\ cancelQueue' = Append(cancelQueue, r)
    \/ /\ UNCHANGED cancelQueue
       /\ tradeIsOpen /\ closeReason' # "None"
       /\ \E r \in Requests :
             /\ r.id[1] = tradeNumber /\ IsReduceOnly(r.id)
             /\ r.side = Opposite(side) /\ r.qty = openQty - closePartiallyFilledQty'
             /\ newQueue' = Append(newQueue, r)

LEMMA CalmQueue ==
    ASSUME SysInv, SysInv', LotsInv, Calm, UNCHANGED exchange, Ledger', Asks
    PROVE  QueueOk' /\ CancelsOk'
<1>1. /\ newQueue \in Seq(Requests) /\ cancelQueue \in Seq(Requests)
      /\ Rest(newQueue, newQueue) /\ Rest(cancelQueue, cancelQueue)
  BY Kinds, RestOfSeq
<1>2. /\ UNCHANGED <<tradeNumber, orders, side, tradeIsOpen, openQty>>
      /\ Id("OpenLimit")' = Id("OpenLimit") /\ UNCHANGED Exposed /\ UNCHANGED Unreported
  BY DEF Calm, exchange, Id, Exposed, Unreported
<1>3. ASSUME UNCHANGED newQueue PROVE QueueOk'
  BY <1>1, <1>2, <1>3, CalmItems, QueueKept DEF LotsInv
<1>4. ASSUME UNCHANGED cancelQueue PROVE CancelsOk'
  BY <1>1, <1>4, CalmItems, CancelsKept DEF LotsInv
<1>5. CASE UNCHANGED queues
  BY <1>3, <1>4, <1>5 DEF queues
<1>6. CASE UNCHANGED newQueue
           /\ \E r \in Requests : CancelOk(r)' /\ cancelQueue' = Append(cancelQueue, r)
  <2>1. PICK r \in Requests : CancelOk(r)' /\ cancelQueue' = Append(cancelQueue, r)
    BY <1>6
  <2>2. ASSUME NEW i \in 1 .. Len(cancelQueue') PROVE CancelOk(cancelQueue[i])'
    <3>1. PICK q \in Requests : q = cancelQueue'[i]
      BY <1>1, <2>1
    <3>2. (i \in 1 .. Len(cancelQueue) /\ q = cancelQueue[i]) \/ q = r
      BY <1>1, <2>1, <3>1
    <3>3. i \in 1 .. Len(cancelQueue) /\ q = cancelQueue[i] => CancelOk(q)
      BY DEF LotsInv, CancelsOk
    <3>4. CancelOk(q)'
      BY <2>1, <3>2, <3>3, CalmItems
    <3> QED
      BY <3>1, <3>4
  <2> QED
    BY <1>3, <1>6, <2>2 DEF CancelsOk
<1>7. CASE /\ UNCHANGED cancelQueue
           /\ tradeIsOpen /\ closeReason' # "None"
           /\ \E r \in Requests :
                 /\ r.id[1] = tradeNumber /\ IsReduceOnly(r.id)
                 /\ r.side = Opposite(side) /\ r.qty = openQty - closePartiallyFilledQty'
                 /\ newQueue' = Append(newQueue, r)
  <2>1. PICK r \in Requests :
                 /\ r.id[1] = tradeNumber /\ IsReduceOnly(r.id)
                 /\ r.side = Opposite(side) /\ r.qty = openQty - closePartiallyFilledQty'
                 /\ newQueue' = Append(newQueue, r)
    BY <1>7
  <2>2. r.qty >= Exposed
    <3>1. Tally(updates', tradeNumber, closePartiallyFilledQty', openQty - Exposed - Unreported)
      BY <1>2, <1>7 DEF Ledger
    <3>2. updates' \in Seq(OrderEvents) /\ closePartiallyFilledQty' \in Int
      BY DEF SysInv, IInv, ExchangeTyped, TypeOK
    <3>3. closePartiallyFilledQty' <= openQty - Exposed - Unreported
      BY <3>1, <3>2, LotsTyped, TallyBounds
    <3>4. Exposed \in Int /\ Unreported \in Nat /\ openQty \in Int
      BY LotsTyped, Kinds, ConstantsAssumption DEF ConstantsAssumption
    <3>5. PICK e \in Int, u \in Nat, c \in Int :
             e = Exposed /\ u = Unreported /\ c = closePartiallyFilledQty'
      BY <3>2, <3>4
    <3>6. c <= openQty - e - u /\ r.qty = openQty - c
      BY <2>1, <3>3, <3>5
    <3>7. r.qty >= e
      BY <3>4, <3>6
    <3> QED
      BY <3>5, <3>7
  <2>3. RequestOk(r)'
    <3>1. r.id[1] <= tradeNumber
      BY <2>1, Kinds
    <3> QED
      BY <1>2, <1>7, <2>1, <2>2, <3>1 DEF RequestOk, IsReduceOnly
  <2>4. tradeNumber <= r.id[1]
    BY <2>1, Kinds
  <2>5. QueueOk'
    BY <1>2, <2>1, <2>3, <2>4, CalmItems, QueueAppended DEF LotsInv
  <2> QED
    BY <1>4, <1>7, <2>5
<1> QED
  BY <1>5, <1>6, <1>7 DEF Asks

LEMMA CalmStepKeeps ==
    ASSUME SysInv, SysInv', LotsInv, Calm, UNCHANGED exchange,
           Rest(results', results), Counts, Asks
    PROVE  LotsInv'
<1>1. Rest(updates', updates)
  BY Kinds, RestOfSeq DEF Counts
<1> QED
  BY <1>1, CalmKeeps, CalmLedger, CalmQueue DEF LotsInv

-----------------------------------------------------------------------------
(* A trade that is finished or given up.                                   *)

Ends ==
    /\ side # NoSide /\ side' = NoSide /\ tradeIsOpen' = FALSE /\ wait' = {}
    /\ position = 0
    /\ Opening => orders[Opener].state = "done"
    /\ UNCHANGED <<tradeNumber, queues>>

LEMMA EndsKeeps ==
    ASSUME SysInv, SysInv', LotsInv, Ends, UNCHANGED exchange,
           Rest(results', results), Rest(updates', updates)
    PROVE  LotsInv'
<1>1. /\ UNCHANGED <<tradeNumber, orders, position, newQueue, cancelQueue>>
      /\ \A role : Id(role)' = Id(role)
      /\ \A id : ~Current(id)' /\ ~Opening' /\ ~AtMarket'
      /\ side' = NoSide /\ ~tradeIsOpen' /\ wait' = {} /\ position = 0
      /\ Opening => orders[Opener].state = "done"
  BY DEF Ends, exchange, queues, Id, Current, Opening, AtMarket
<1>2. \A r \in Requests : RequestOk(r) => RequestOk(r)'
  BY <1>1 DEF RequestOk, IsReduceOnly
<1>3. \A r \in Requests : CancelOk(r) => CancelOk(r)'
  BY <1>1 DEF CancelOk
<1>4. \A r \in Results : ResultOk(r) => ResultOk(r)'
  BY <1>1 DEF ResultOk
<1>5. \A u \in OrderEvents : UpdateOk(u) => UpdateOk(u)'
  BY <1>1 DEF UpdateOk
<1>6. OrdersOk'
  <2>1. SUFFICES ASSUME NEW id \in OrderIds PROVE OrderOk(id)'
    BY DEF OrdersOk
  <2>2. OrderOk(id)
    BY DEF LotsInv, OrdersOk
  <2>3. orders[id].state # "live"
    BY <1>1, <2>2 DEF OrderOk, Opener
  <2> QED
    BY <1>1, <2>2, <2>3 DEF OrderOk
<1>7. PositionOk' /\ Ledger'
  BY <1>1 DEF PositionOk, Ledger
<1>8. Rest(cancelQueue', cancelQueue)
  BY <1>1, Kinds, RestOfSeq
<1>9. QueueOk'
  BY <1>1, <1>2, QueueKept DEF LotsInv
<1>10. CancelsOk' /\ ResultsOk'
  BY <1>3, <1>4, <1>8, CancelsKept, ResultsKept DEF LotsInv
<1>11. UpdatesOk'
  BY <1>1, <1>5, UpdatesKept DEF LotsInv
<1> QED
  BY <1>6, <1>7, <1>9, <1>10, <1>11 DEF LotsInv

-----------------------------------------------------------------------------
(* The end of the opening order, whose update was just drained.            *)

\* While a trade is being opened no order rests once its opening order is done.
LEMMA DoneOpening ==
    ASSUME LotsInv, Opening, orders[Opener].state = "done"
    PROVE  /\ \A id \in OrderIds : orders[id].state # "live"
           /\ \A r \in Requests : RequestOk(r) => IsReduceOnly(r.id) /\ ~Current(r.id)
<1>1. ASSUME NEW id \in OrderIds PROVE orders[id].state # "live"
  <2>1. OrderOk(id)
    BY DEF LotsInv, OrdersOk
  <2> QED
    BY <2>1 DEF OrderOk, Opener, Opening
<1>2. \A r \in Requests : RequestOk(r) => IsReduceOnly(r.id) /\ ~Current(r.id)
  BY DEF RequestOk, Opening
<1> QED
  BY <1>1, <1>2

\* What the update of the opening order says.
LEMMA OpeningUpdate ==
    ASSUME SysInv, LotsInv, updates # <<>>, side # NoSide,
           Head(updates).id[1] = tradeNumber, ~IsReduceOnly(Head(updates).id)
    PROVE  /\ Opening /\ Current(Head(updates).id) /\ Head(updates).id = Opener
           /\ orders[Opener].state = "done" /\ Head(updates).cum = Exposed
           /\ Exposed = orders[Opener].cum
<1>1. Head(updates) = updates[1] /\ 1 \in 1 .. Len(updates)
  BY Kinds
<1>2. UpdateOk(Head(updates))
  BY <1>1 DEF LotsInv, UpdatesOk
<1>3. Current(Head(updates).id)
  BY DEF Current
<1>4. Opening /\ Head(updates).id = Opener /\ orders[Opener].state = "done"
      /\ Head(updates).cum = orders[Opener].cum
  BY <1>2, <1>3 DEF UpdateOk
<1> QED
  BY <1>3, <1>4 DEF LotsInv, PositionOk

Enters ==
    /\ tradeIsOpen' = TRUE /\ wait' = {} /\ openQty' = Head(updates).cum /\ openQty' > 0
    /\ UNCHANGED <<side, closeQty, closePartiallyFilledQty, closeReason, tradeNumber, queues>>

LEMMA EntersKeeps ==
    ASSUME SysInv, SysInv', LotsInv, Enters, UNCHANGED <<exchange, results>>,
           updates # <<>>, updates' = Tail(updates), side # NoSide,
           Head(updates).id[1] = tradeNumber, ~IsReduceOnly(Head(updates).id)
    PROVE  LotsInv'
<1>1. /\ UNCHANGED <<side, tradeNumber, orders, position, newQueue, cancelQueue, results>>
      /\ \A role : Id(role)' = Id(role)
      /\ \A id : Current(id)' <=> Current(id)
      /\ ~Opening' /\ ~AtMarket' /\ tradeIsOpen' /\ wait' = {}
      /\ Exposed' = Exposed /\ openQty' = Exposed /\ openQty' > 0
  BY OpeningUpdate DEF Enters, exchange, queues, Id, Current, Opening, AtMarket, Exposed
<1>2. /\ Opening /\ Current(Head(updates).id) /\ Head(updates).id = Opener
      /\ orders[Opener].state = "done"
  BY OpeningUpdate
<1>3. \A id \in OrderIds : orders[id].state # "live"
  BY <1>2, DoneOpening
<1>4. \A r \in Requests : RequestOk(r) => RequestOk(r)'
  BY <1>1, <1>2, DoneOpening DEF RequestOk, IsReduceOnly
<1>5. \A r \in Requests : CancelOk(r) => CancelOk(r)'
  BY <1>1 DEF CancelOk
<1>6. \A r \in Results : ResultOk(r) => ResultOk(r)'
  BY <1>1 DEF ResultOk
<1>7. \A u \in OrderEvents :
          UpdateOk(u) /\ (Current(u.id) => IsReduceOnly(u.id)) => UpdateOk(u)'
  BY <1>1, <1>2 DEF UpdateOk, IsReduceOnly, Opening
<1>8. QueueOk'
  BY <1>1, <1>4, QueueKept DEF LotsInv
<1>9. CancelsOk' /\ ResultsOk'
  BY <1>1, <1>5, <1>6, Kinds, RestOfSeq, CancelsKept, ResultsKept DEF LotsInv
<1>10. UpdatesOk'
  BY <1>1, <1>2, <1>7, UpdatesDrained DEF LotsInv
<1>11. OrdersOk'
  BY <1>1, <1>3 DEF LotsInv, OrdersOk, OrderOk
<1>12. PositionOk'
  <2>1. side' # NoSide => closeQty' = 0
    BY DEF Enters, LotsInv, PositionOk
  <2>2. position # 0 => orders[Id("OpenLimit")].state # "none"
    BY DEF LotsInv, PositionOk
  <2>3. Exposed >= 0
    BY <1>1, LotsTyped
  <2> QED
    BY <1>1, <2>1, <2>2, <2>3 DEF PositionOk
<1>13. Ledger'
  <2>1. /\ updates' \in Seq(OrderEvents)
        /\ \A i \in 1 .. Len(updates') : i + 1 \in 1 .. Len(updates)
              /\ updates'[i] = updates[i + 1] /\ updates'[i] \in OrderEvents
    BY Kinds
  <2>2. \A i \in 1 .. Len(updates') : Counted(updates'[i], tradeNumber) = 0
    <3>1. SUFFICES ASSUME NEW i \in 1 .. Len(updates')
                   PROVE  Counted(updates'[i], tradeNumber) = 0
      OBVIOUS
    <3>2. UpdateOk(updates'[i])
      BY <2>1 DEF LotsInv, UpdatesOk
    <3>3. ~(updates'[i].id[1] = tradeNumber /\ IsReduceOnly(updates'[i].id))
      BY <1>2, <3>2 DEF UpdateOk, Current, Opening
    <3> QED
      BY <3>3 DEF Counted
  <2>3. closePartiallyFilledQty' = 0
    BY <1>2 DEF Enters, LotsInv, PositionOk
  <2>4. Unreported' = 0
    <3>1. Id("CloseLimit") \in OrderIds
      BY IdTyped DEF SysInv, IInv, OrderRole
    <3> QED
      BY <1>1, <1>3, <3>1 DEF Unreported
  <2>5. 0 \in 0 .. DefaultQty /\ openQty' - Exposed' - Unreported' = 0
    BY <1>1, <2>4, LotsTyped, ConstantsAssumption DEF ConstantsAssumption
  <2>6. Tally(updates', tradeNumber, 0, 0)
    <3>1. PICK us \in Seq(OrderEvents) : us = updates'
      BY <2>1
    <3>2. \A i \in 1 .. Len(us) : Counted(us[i], tradeNumber) = 0
      BY <2>2, <3>1
    <3>3. Tally(us, tradeNumber, 0, 0)
      BY <2>5, <3>2, TallyOfOthers
    <3> QED
      BY <3>1, <3>3
  <2> QED
    BY <1>1, <2>3, <2>5, <2>6 DEF Ledger
<1> QED
  BY <1>8, <1>9, <1>10, <1>11, <1>12, <1>13 DEF LotsInv

FallsBack ==
    /\ Head(updates).id[2] = "OpenLimit" /\ Head(updates).cum = 0
    /\ wait' = {"openMarket"}
    /\ newQueue' = Append(newQueue, [id |-> Id("OpenMarket"), side |-> side, qty |-> DefaultQty])
    /\ UNCHANGED <<side, tradeIsOpen, quantities, closeReason, tradeNumber, cancelQueue>>

LEMMA FallsBackKeeps ==
    ASSUME SysInv, SysInv', LotsInv, FallsBack, UNCHANGED <<exchange, results>>,
           updates # <<>>, updates' = Tail(updates), side # NoSide,
           Head(updates).id[1] = tradeNumber
    PROVE  LotsInv'
<1>1. /\ UNCHANGED <<side, tradeIsOpen, tradeNumber, orders, position, cancelQueue, results>>
      /\ \A role : Id(role)' = Id(role)
      /\ \A id : Current(id)' <=> Current(id)
      /\ Exposed' = Exposed /\ (Opening' <=> Opening)
      /\ AtMarket' /\ Opener' = Id("OpenMarket") /\ "openLimit" \notin wait'
  BY DEF FallsBack, exchange, Id, Current, Opening, AtMarket, Exposed, Opener
<1>2. ~IsReduceOnly(Head(updates).id)
  BY DEF FallsBack, IsReduceOnly
<1>3. /\ Opening /\ Current(Head(updates).id) /\ Head(updates).id = Opener
      /\ orders[Opener].state = "done" /\ Exposed = 0 /\ orders[Opener].cum = 0
  BY <1>2, OpeningUpdate DEF FallsBack
<1>4. ~AtMarket /\ Opener = Id("OpenLimit")
  BY <1>3 DEF FallsBack, Opener, Id
<1>5. /\ orders[Id("OpenMarket")].state = "none" /\ orders[Id("OpenMarket")].cum = 0
      /\ Id("OpenMarket") \in OrderIds
  <2>1. Id("OpenMarket") \in OrderIds
    BY IdTyped DEF SysInv, IInv, OrderRole
  <2> QED
    BY <1>3, <1>4, <2>1 DEF LotsInv, PositionOk, OrdersOk, OrderOk
<1>6. \A id \in OrderIds : orders[id].state # "live"
  BY <1>3, DoneOpening
<1>7. \A r \in Requests : RequestOk(r) => RequestOk(r)'
  BY <1>1, <1>3, DoneOpening DEF RequestOk, IsReduceOnly
<1>8. \A r \in Requests : CancelOk(r) => CancelOk(r)'
  BY <1>1 DEF CancelOk
<1>9. \A r \in Results : ResultOk(r) => ResultOk(r)'
  <2>1. SUFFICES ASSUME NEW r \in Results, ResultOk(r) PROVE ResultOk(r)'
    OBVIOUS
  <2>2. r.id # Id("OpenMarket")
    BY <1>5, <2>1 DEF ResultOk, Id
  <2> QED
    BY <1>1, <2>1, <2>2 DEF ResultOk
<1>10. \A u \in OrderEvents :
          UpdateOk(u) /\ (Current(u.id) => IsReduceOnly(u.id)) => UpdateOk(u)'
  BY <1>1, <1>3 DEF UpdateOk, IsReduceOnly, Opening
<1>11. QueueOk'
  <2>1. side \in Sides /\ DefaultQty \in 0 .. DefaultQty
    BY <1>3, Kinds, ConstantsAssumption DEF ConstantsAssumption, Opening
  <2>2. PICK req \in Requests :
            /\ newQueue' = Append(newQueue, req)
            /\ req.id = Id("OpenMarket") /\ req.id[1] = tradeNumber /\ ~IsReduceOnly(req.id)
            /\ req.side = side /\ req.qty = DefaultQty
    BY <1>5, <2>1 DEF FallsBack, Requests, Id, IsReduceOnly
  <2>3. RequestOk(req)'
    BY <1>1, <1>3, <1>5, <2>2, Kinds DEF RequestOk, IsReduceOnly
  <2>4. \A q \in Requests : RequestOk(q) => q.id # req.id
    BY <1>3, <2>2, DoneOpening
  <2>5. tradeNumber <= req.id[1]
    BY <2>2, Kinds
  <2>6. orders[Id("OpenLimit")].state # "none"
    BY <1>3, <1>4
  <2> QED
    BY <1>1, <1>7, <2>1, <2>2, <2>3, <2>4, <2>5, <2>6, QueueAppended DEF LotsInv
<1>12. CancelsOk' /\ ResultsOk'
  BY <1>1, <1>8, <1>9, Kinds, RestOfSeq, CancelsKept, ResultsKept DEF LotsInv
<1>13. UpdatesOk'
  BY <1>1, <1>2, <1>3, <1>10, UpdatesDrained DEF LotsInv
<1>14. OrdersOk'
  BY <1>1, <1>6 DEF LotsInv, OrdersOk, OrderOk
<1>15. PositionOk' /\ Ledger'
  <2>1. /\ closeReason' = "None" /\ closePartiallyFilledQty' = 0 /\ closeQty' = closeQty
    BY <1>3 DEF FallsBack, LotsInv, PositionOk, quantities
  <2>2. /\ position # 0 => orders[Id("OpenLimit")].state # "none"
        /\ side # NoSide => closeQty = 0
    BY DEF LotsInv, PositionOk
  <2> QED
    BY <1>1, <1>3, <1>4, <1>5, <2>1, <2>2 DEF PositionOk, Ledger, Opening
<1> QED
  BY <1>11, <1>12, <1>13, <1>14, <1>15 DEF LotsInv

-----------------------------------------------------------------------------
(* A signal.                                                               *)

\* Nothing that is queued, under way or known at the exchange is about the next trade.
LEMMA NothingOfTheNext ==
    ASSUME SysInv, LotsInv, side = NoSide, tradeNumber < MaxTrades,
           tradeNumber' = tradeNumber + 1, UNCHANGED exchange
    PROVE  /\ \A id \in OrderIds : orders[id].state # "live"
           /\ \A role \in OrderRole : /\ Id(role)' \in OrderIds
                                      /\ orders[Id(role)'].state = "none"
                                      /\ orders[Id(role)'].cum = 0
           /\ \A r \in Requests : RequestOk(r) => RequestOk(r)' /\ r.id[1] # tradeNumber'
           /\ \A r \in Requests : CancelOk(r) => CancelOk(r)'
           /\ \A r \in Results : ResultOk(r) => ResultOk(r)'
           /\ \A u \in OrderEvents : UpdateOk(u) => UpdateOk(u)' /\ ~Current(u.id)'
<1>1. tradeNumber \in 0 .. MaxTrades /\ MaxTrades \in Int /\ tradeNumber' \in 0 .. MaxTrades
  BY Kinds, ConstantsAssumption DEF ConstantsAssumption
<1>2. /\ UNCHANGED <<orders, position>>
      /\ \A role : Id(role)' = <<tradeNumber', role>>
      /\ \A id \in OrderIds : id[1] \in Int
      /\ ~Opening /\ \A id : ~Current(id)
  BY IdParts DEF exchange, Id, Opening, Current
<1>3. \A id \in OrderIds : id[1] <= tradeNumber => id[1] # tradeNumber' /\ id[1] <= tradeNumber'
  BY <1>1, <1>2
<1>4. \A id \in OrderIds : OrderOk(id)
  BY DEF LotsInv, OrdersOk
<1>5. \A id \in OrderIds : orders[id].state # "live"
  BY <1>2, <1>4 DEF OrderOk
<1>6. ASSUME NEW role \in OrderRole
      PROVE  Id(role)' \in OrderIds /\ orders[Id(role)'].state = "none" /\ orders[Id(role)'].cum = 0
  <2>1. Id(role)' \in OrderIds /\ Id(role)'[1] = tradeNumber'
    BY <1>1, <1>2 DEF OrderIds
  <2>2. OrderOk(<<tradeNumber', role>>)
    BY <1>2, <1>4, <2>1
  <2>3. orders[Id(role)'].state = "none"
    BY <1>2, <1>3, <2>1, <2>2 DEF OrderOk
  <2> QED
    BY <1>2, <2>1, <2>2, <2>3 DEF OrderOk
<1>7. ASSUME NEW r \in Requests, RequestOk(r) PROVE RequestOk(r)' /\ r.id[1] # tradeNumber'
  <2>1. r.id \in OrderIds /\ r.id[1] <= tradeNumber /\ IsReduceOnly(r.id)
    BY <1>2, <1>7 DEF Requests, RequestOk
  <2>2. r.id[1] # tradeNumber' /\ r.id[1] <= tradeNumber'
    BY <1>3, <2>1
  <2> QED
    BY <2>1, <2>2 DEF RequestOk, IsReduceOnly, Current
<1>8. ASSUME NEW r \in Requests, CancelOk(r) PROVE CancelOk(r)'
  <2>1. r.id \in OrderIds /\ r.id[1] <= tradeNumber
    BY <1>8 DEF Requests, CancelOk
  <2>2. r.id[1] <= tradeNumber' /\ r.id # Id("OpenLimit")'
    BY <1>2, <1>3, <2>1
  <2> QED
    BY <1>8, <2>2 DEF CancelOk
<1>9. ASSUME NEW r \in Results, ResultOk(r) PROVE ResultOk(r)'
  <2>1. r.id \in OrderIds /\ r.id[1] <= tradeNumber
    BY <1>9 DEF Results, ResultOk
  <2>2. r.id[1] <= tradeNumber' /\ r.id # Id("OpenLimit")' /\ r.id # Id("OpenMarket")'
    BY <1>2, <1>3, <2>1
  <2> QED
    BY <1>2, <1>9, <2>2 DEF ResultOk
<1>10. ASSUME NEW u \in OrderEvents, UpdateOk(u) PROVE UpdateOk(u)' /\ ~Current(u.id)'
  <2>1. u.id \in OrderIds /\ u.id[1] <= tradeNumber
    BY <1>10 DEF OrderEvents, UpdateOk
  <2>2. u.id[1] <= tradeNumber' /\ u.id[1] # tradeNumber'
    BY <1>3, <2>1
  <2> QED
    BY <1>10, <2>2 DEF UpdateOk, Current
<1> QED
  BY <1>5, <1>6, <1>7, <1>8, <1>9, <1>10

Starts(s, ok) ==
    /\ side = NoSide /\ tradeNumber < MaxTrades
    /\ tradeNumber' = tradeNumber + 1 /\ tradeIsOpen' = FALSE
    /\ closePartiallyFilledQty' = 0 /\ closeQty' = 0 /\ closeReason' = "None"
    /\ cancelQueue' = cancelQueue
    /\ IF ok THEN /\ side' = s /\ wait' = {"openLimit"}
                  /\ newQueue' = Append(newQueue, [id |-> <<tradeNumber + 1, "OpenLimit">>,
                                                   side |-> s, qty |-> DefaultQty])
             ELSE side' = NoSide /\ wait' = {} /\ newQueue' = newQueue

LEMMA StartsKeeps ==
    ASSUME SysInv, SysInv', LotsInv, NEW s \in Sides, NEW ok \in BOOLEAN, Starts(s, ok),
           UNCHANGED <<exchange, channels>>
    PROVE  LotsInv'
<1>1. /\ side = NoSide /\ tradeNumber < MaxTrades /\ tradeNumber' = tradeNumber + 1
      /\ UNCHANGED <<orders, position, results, updates, cancelQueue, exchange>>
      /\ ~tradeIsOpen' /\ position = 0 /\ ~AtMarket' /\ Exposed' = 0
      /\ Id("OpenLimit")' = <<tradeNumber', "OpenLimit">> /\ Opener' = Id("OpenLimit")'
  <2>1. /\ side = NoSide /\ tradeNumber < MaxTrades /\ tradeNumber' = tradeNumber + 1
        /\ UNCHANGED <<orders, position, results, updates, cancelQueue, exchange>> /\ ~tradeIsOpen'
    BY DEF Starts, exchange, channels
  <2>2. position = 0 /\ position' = 0
    BY <2>1 DEF LotsInv, PositionOk
  <2>3. Exposed' = 0
    <3>1. Exposed' = position' \/ Exposed' = -(position')
      BY DEF Exposed, Lots
    <3> QED
      BY <2>2, <3>1
  <2>4. wait' = {} \/ wait' = {"openLimit"}
    BY DEF Starts
  <2>5. ~AtMarket' /\ Id("OpenLimit")' = <<tradeNumber', "OpenLimit">>
    BY <2>4 DEF AtMarket, Id
  <2> QED
    BY <2>1, <2>2, <2>3, <2>5 DEF Opener
<1>2. /\ \A id \in OrderIds : orders[id].state # "live"
      /\ \A role \in OrderRole : /\ Id(role)' \in OrderIds
                                 /\ orders[Id(role)'].state = "none"
                                 /\ orders[Id(role)'].cum = 0
      /\ \A r \in Requests : RequestOk(r) => RequestOk(r)' /\ r.id[1] # tradeNumber'
      /\ \A r \in Requests : CancelOk(r) => CancelOk(r)'
      /\ \A r \in Results : ResultOk(r) => ResultOk(r)'
      /\ \A u \in OrderEvents : UpdateOk(u) => UpdateOk(u)' /\ ~Current(u.id)'
  BY <1>1, NothingOfTheNext
<1>3. Id("OpenLimit")' \in OrderIds /\ orders[Id("OpenLimit")'].state = "none"
  BY <1>2 DEF OrderRole
<1>4. tradeNumber \in Int /\ tradeNumber <= tradeNumber'
  BY <1>1, Kinds
<1>5. QueueOk'
  <2>1. CASE ok
    <3>1. PICK r \in Requests :
              /\ newQueue' = Append(newQueue, r) /\ r.id = Id("OpenLimit")'
              /\ r.id[1] = tradeNumber' /\ ~IsReduceOnly(r.id)
              /\ r.side = side' /\ r.qty = DefaultQty
      <4> DEFINE r == [id |-> <<tradeNumber + 1, "OpenLimit">>, side |-> s, qty |-> DefaultQty]
      <4>1. newQueue' = Append(newQueue, r) /\ side' = s
        BY <2>1 DEF Starts
      <4>2. r.id = Id("OpenLimit")' /\ r.id[1] = tradeNumber' /\ ~IsReduceOnly(r.id)
        BY <1>1 DEF IsReduceOnly
      <4>3. r \in Requests
        BY <1>1, <1>3, ConstantsAssumption DEF Requests, ConstantsAssumption
      <4>4. r.side = s /\ r.qty = DefaultQty
        OBVIOUS
      <4> HIDE DEF r
      <4> QED
        BY <4>1, <4>2, <4>3, <4>4
    <3>2. Opening'
      BY <1>1, <2>1 DEF Opening, Starts, Sides, NoSide
    <3>3. RequestOk(r)'
      BY <1>1, <1>3, <1>4, <3>1, <3>2 DEF RequestOk, IsReduceOnly
    <3>4. \A q \in Requests : RequestOk(q) => q.id # r.id
      BY <1>2, <3>1
    <3> QED
      BY <1>1, <1>2, <1>3, <1>4, <3>1, <3>3, <3>4, QueueAppended DEF LotsInv
  <2>2. CASE ~ok
    <3>1. newQueue' = newQueue
      BY <2>2 DEF Starts
    <3>2. ASSUME NEW i \in 1 .. Len(newQueue) PROVE RequestOk(newQueue[i])'
      <4>1. PICK r \in Requests : r = newQueue[i] /\ r = newQueue'[i]
        BY <3>1, Kinds
      <4>2. RequestOk(r)'
        BY <1>2, <4>1 DEF LotsInv, QueueOk
      <4> QED
        BY <4>1, <4>2
    <3> QED
      BY <1>1, <1>3, <3>1, <3>2 DEF QueueOk, LotsInv, IsReduceOnly
  <2> QED
    BY <2>1, <2>2
<1>6. CancelsOk' /\ ResultsOk'
  BY <1>1, <1>2, Kinds, RestOfSeq, CancelsKept, ResultsKept DEF LotsInv
<1>7. UpdatesOk'
  <2>1. ASSUME NEW i \in 1 .. Len(updates) PROVE UpdateOk(updates[i])' /\ ~Current(updates[i].id)'
    <3>1. PICK u \in OrderEvents : u = updates[i] /\ u = updates'[i]
      BY <1>1, Kinds
    <3>2. UpdateOk(u)' /\ ~Current(u.id)'
      BY <1>2, <3>1 DEF LotsInv, UpdatesOk
    <3> QED
      BY <3>1, <3>2
  <2> QED
    BY <1>1, <2>1 DEF UpdatesOk
<1>8. OrdersOk'
  <2>1. SUFFICES ASSUME NEW id \in OrderIds PROVE OrderOk(id)'
    BY DEF OrdersOk
  <2>2. OrderOk(id) /\ id[1] \in Int
    BY IdParts DEF LotsInv, OrdersOk
  <2>3. id[1] <= tradeNumber => id[1] <= tradeNumber'
    BY <1>1, <1>4, <2>2
  <2> QED
    BY <1>1, <1>2, <2>2, <2>3 DEF OrderOk
<1>9. PositionOk' /\ Ledger'
  <2>1. /\ orders[Id("OpenLimit")'].cum = 0 /\ orders[Id("OpenMarket")'].state = "none"
    BY <1>2 DEF OrderRole
  <2>2. closePartiallyFilledQty' = 0 /\ closeQty' = 0 /\ closeReason' = "None"
    BY DEF Starts
  <2> QED
    BY <1>1, <2>1, <2>2 DEF PositionOk, Ledger, Opening
<1> QED
  BY <1>5, <1>6, <1>7, <1>8, <1>9 DEF LotsInv

-----------------------------------------------------------------------------
(* What a step of the strategy's thread comes to.                          *)

CalmStep == Calm /\ Counts /\ Asks /\ Rest(results', results)

EndStep ==
    /\ Ends
    /\ tradeIsOpen => closeReason # "None" /\ closeQty' <= openQty
    /\ Rest(results', results) /\ Rest(updates', updates)

\* The update of an opening order of the trade is handed to the manager.
OpeningDrained ==
    /\ updates # <<>> /\ updates' = Tail(updates) /\ UNCHANGED results
    /\ side # NoSide
    /\ Head(updates).id[1] = tradeNumber /\ ~IsReduceOnly(Head(updates).id)

StartStep == (\E s \in Sides, ok \in BOOLEAN : Starts(s, ok)) /\ UNCHANGED channels

Outcome ==
    \/ CalmStep
    \/ EndStep
    \/ OpeningDrained /\ (Enters \/ FallsBack)
    \/ StartStep

LEMMA OutcomeKeeps ==
    ASSUME SysInv, SysInv', LotsInv, Outcome, UNCHANGED exchange
    PROVE  LotsInv'
BY CalmStepKeeps, EndsKeeps, EntersKeeps, FallsBackKeeps, StartsKeeps
DEF Outcome, CalmStep, EndStep, OpeningDrained, StartStep

\* At most one update is drained.
Drains == UNCHANGED updates \/ (updates # <<>> /\ updates' = Tail(updates))

LEMMA DrainsRest ==
    ASSUME SysInv, Drains
    PROVE  /\ Rest(updates', updates)
           /\ UNCHANGED closePartiallyFilledQty => Counts
<1>1. Rest(updates', updates)
  BY Kinds, RestOfSeq DEF Drains
<1>2. updates # <<>> => Counted(Head(updates), tradeNumber) \in 0 .. DefaultQty
  BY Kinds, CountedBounds
<1> QED
  BY <1>1, <1>2, Kinds DEF Drains, Counts

LEMMA NothingDrained ==
    ASSUME SysInv, UNCHANGED channels
    PROVE  Drains /\ Rest(results', results) /\ Rest(updates', updates)
<1>1. results' = results /\ updates' = updates
  BY DEF channels
<1>2. Rest(results', results) /\ Rest(updates', updates)
  BY <1>1, Kinds, RestOfSeq
<1>3. Drains
  BY <1>1 DEF Drains
<1> QED
  BY <1>2, <1>3

LEMMA StayIsCalm ==
    ASSUME SysInv, Stay, Drains, Rest(results', results)
    PROVE  CalmStep
<1>1. Calm /\ Asks
  BY DEF Stay, Silent, tmState, quantities, Calm, Asks
<1> QED
  BY <1>1, DrainsRest DEF CalmStep, Stay, tmState, quantities

LEMMA FinishEnds ==
    ASSUME SysInv, LotsInv, tradeIsOpen, FinishTrade, Exposed <= 0
    PROVE  Ends
<1>1. side # NoSide /\ wait \subseteq CloseWaits /\ position \in Int
  BY Kinds DEF SysInv, IInv, WaitDiscipline
<1>2. Exposed >= 0
  BY DEF LotsInv, PositionOk
<1>3. position = 0
  BY <1>1, <1>2 DEF Exposed, Lots
<1> QED
  BY <1>1, <1>3 DEF FinishTrade, Silent, Ends, Opening

\* All that is left to close covers the lots held, so with nothing left the account
\* is flat; and whoever closed something has a reason.
LEMMA NothingLeft ==
    ASSUME SysInv, LotsInv, tradeIsOpen
    PROVE  /\ Exposed <= Remaining /\ Exposed >= 0 /\ Remaining \in Int
           /\ Remaining <= 0 => Exposed <= 0 /\ closeReason # "None"
<1>1. Tally(updates, tradeNumber, closePartiallyFilledQty, openQty - Exposed - Unreported)
  BY DEF LotsInv, Ledger
<1>2. /\ closePartiallyFilledQty \in Int /\ openQty \in Int /\ Remaining \in Int
      /\ Remaining = openQty - closePartiallyFilledQty
  BY Kinds DEF Remaining
<1>3. closePartiallyFilledQty <= openQty - Exposed - Unreported
  BY <1>1, <1>2, Kinds, LotsTyped, TallyBounds
<1>4. Exposed <= Remaining
  BY <1>2, <1>3, LotsTyped
<1>5. openQty > 0 /\ Exposed >= 0
  BY DEF LotsInv, PositionOk
<1>6. closePartiallyFilledQty # 0 => closeReason # "None"
  BY DEF SysInv, IInv, ReasonKnown, WaitDiscipline
<1>7. Remaining <= 0 => Exposed <= 0 /\ closePartiallyFilledQty # 0
  BY <1>2, <1>4, <1>5, LotsTyped
<1> QED
  BY <1>2, <1>4, <1>5, <1>6, <1>7

\* A market close, for all that is left, by a trade that has a reason to close.
LEMMA MarketCloseAsks ==
    ASSUME SysInv, LotsInv, tradeIsOpen, NEW w, NEW ok \in BOOLEAN, w \subseteq wait,
           SendCloseMarket(openQty - closePartiallyFilledQty', w, ok),
           closePartiallyFilledQty' \in Nat, closeReason' # "None",
           UNCHANGED <<side, tradeIsOpen, openQty, closeQty, tradeNumber>>
    PROVE  Calm /\ Asks
<1> DEFINE qty == openQty - closePartiallyFilledQty'
<1>1. side \in Sides /\ side # NoSide /\ wait \subseteq CloseWaits
  BY Kinds DEF SysInv, IInv, WaitDiscipline
<1>2. qty \in Int /\ qty <= DefaultQty
  BY Kinds, ConstantsAssumption DEF ConstantsAssumption
<1>3. wait' \subseteq CloseWaits
  BY <1>1 DEF SendCloseMarket, CloseWaits
<1>4. Calm
  BY <1>1, <1>3 DEF Calm, CloseWaits
<1>5. Asks
  <2>1. CASE ~tradeIsOpen \/ side = NoSide \/ qty <= 0 \/ ~ok
    BY <2>1 DEF SendCloseMarket, SendNew, Silent, Asks, queues
  <2>2. CASE ~(~tradeIsOpen \/ side = NoSide \/ qty <= 0 \/ ~ok)
    <3> DEFINE r == [id |-> Id("CloseMarket"), side |-> Opposite(side), qty |-> qty]
    <3>1. newQueue' = Append(newQueue, r) /\ UNCHANGED cancelQueue
      BY <2>2 DEF SendCloseMarket, SendNew
    <3>2. r \in Requests
      <4>1. qty \in 0 .. DefaultQty
        BY <1>2, <2>2
      <4>2. Id("CloseMarket") \in OrderIds /\ Opposite(side) \in Sides
        BY <1>1, IdTyped, OppositeTyped DEF SysInv, IInv, OrderRole
      <4> QED
        BY <4>1, <4>2 DEF Requests
    <3>3. r.id[1] = tradeNumber /\ IsReduceOnly(r.id) /\ r.side = Opposite(side) /\ r.qty = qty
      BY DEF Id, IsReduceOnly
    <3> HIDE DEF r
    <3> QED
      BY <3>1, <3>2, <3>3 DEF Asks
  <2> QED
    BY <2>1, <2>2
<1> QED
  BY <1>4, <1>5

LEMMA CloseTradeOutcome ==
    ASSUME SysInv, LotsInv, NEW reason \in Reasons \ {"None"}, NEW ok \in BOOLEAN,
           CloseTrade(reason, ok), UNCHANGED channels
    PROVE  CalmStep \/ EndStep
<1>1. Drains /\ Rest(results', results) /\ Rest(updates', updates)
  BY NothingDrained
<1>2. CASE ~tradeIsOpen \/ side = NoSide \/ IsCloseInProgress
  BY <1>1, <1>2, StayIsCalm DEF CloseTrade
<1>3. CASE ~(~tradeIsOpen \/ side = NoSide \/ IsCloseInProgress)
  <2>1. openQty > 0 /\ closeQty = 0
    BY <1>3 DEF LotsInv, PositionOk
  <2>2. closeReason' = reason /\ UNCHANGED <<closeQty, closePartiallyFilledQty>>
    BY <1>3 DEF CloseTrade
  <2>3. CASE Remaining <= 0
    <3>1. FinishTrade
      BY <1>3, <2>1, <2>3, NothingLeft DEF CloseTrade
    <3>2. Ends
      BY <1>3, <2>3, <3>1, NothingLeft, FinishEnds
    <3>3. closeQty' <= openQty
      BY <2>1, <2>2, Kinds
    <3> QED
      BY <1>1, <1>3, <2>3, <3>2, <3>3, NothingLeft DEF EndStep
  <2>4. CASE ~(Remaining <= 0)
    <3> DEFINE r == [id |-> Id("CloseLimit"), side |-> Opposite(side), qty |-> Remaining]
    <3>1. /\ SendNew(Id("CloseLimit"), Opposite(side), Remaining, ok)
          /\ wait' = IF ok THEN wait \cup {"closeLimit"} ELSE wait
          /\ UNCHANGED <<side, tradeIsOpen, openQty, tradeNumber>>
      BY <1>3, <2>1, <2>4, NothingLeft DEF CloseTrade
    <3>2. Calm
      <4>1. wait' \cap OpenWaits = wait \cap OpenWaits
        BY <3>1 DEF OpenWaits
      <4> QED
        BY <1>3, <2>2, <3>1, <4>1 DEF Calm, Reasons, OpenWaits
    <3>3. r \in Requests
      <4>1. side \in Sides
        BY <1>3, Kinds
      <4>2. Remaining \in 0 .. DefaultQty
        BY <1>3, <2>4, NothingLeft, Kinds, ConstantsAssumption DEF Remaining, ConstantsAssumption
      <4>3. Id("CloseLimit") \in OrderIds /\ Opposite(side) \in Sides
        BY <4>1, IdTyped, OppositeTyped DEF SysInv, IInv, OrderRole
      <4> QED
        BY <4>2, <4>3 DEF Requests
    <3>4. /\ r.id[1] = tradeNumber /\ IsReduceOnly(r.id) /\ r.side = Opposite(side)
          /\ r.qty = openQty - closePartiallyFilledQty'
      BY <2>2 DEF Id, IsReduceOnly, Remaining
    <3>5. UNCHANGED queues \/ (newQueue' = Append(newQueue, r) /\ UNCHANGED cancelQueue)
      BY <3>1 DEF SendNew, queues
    <3> HIDE DEF r
    <3>6. Asks
      BY <1>3, <2>2, <3>3, <3>4, <3>5 DEF Asks
    <3> QED
      BY <1>1, <2>2, <3>2, <3>6, DrainsRest DEF CalmStep
  <2> QED
    BY <2>3, <2>4
<1> QED
  BY <1>2, <1>3

\* A cancel of a limit order under way, or its repetition.
LEMMA CancelOutcome ==
    ASSUME SysInv, LotsInv, side # NoSide, UNCHANGED channels,
           NEW role \in {"OpenLimit", "CloseLimit"}, NEW s \in Sides, NEW ok \in BOOLEAN,
           SendCancel(Id(role), s, ok),
           wait' \subseteq wait \cup {"cancelOpenLimit", "cancelCloseLimit"},
           "openMarket" \in wait => "openMarket" \in wait',
           ok /\ role = "OpenLimit" => "openLimit" \notin wait',
           UNCHANGED <<side, tradeIsOpen, quantities, closeReason, tradeNumber>>
    PROVE  CalmStep
<1>1. Calm
  BY DEF Calm, quantities
<1>2. Asks
  <2>1. CASE ~ok
    BY <2>1 DEF SendCancel, Asks, queues
  <2>2. CASE ok
    <3>1. Id(role) \in OrderIds
      BY IdTyped DEF SysInv, IInv, OrderRole
    <3>2. PICK r \in Requests : r.id = Id(role) /\ cancelQueue' = Append(cancelQueue, r)
      BY <2>2, <3>1, ConstantsAssumption DEF SendCancel, Requests, ConstantsAssumption
    <3>3. r.id[1] = tradeNumber /\ r.id[2] = role /\ Id("OpenLimit")' = Id("OpenLimit")
          /\ tradeNumber' = tradeNumber
      BY <3>2 DEF Id
    <3>4. r.id = Id("OpenLimit") => role = "OpenLimit"
      BY <3>2 DEF Id
    <3>5. CancelOk(r)'
      BY <2>2, <3>3, <3>4, Kinds DEF CancelOk
    <3> QED
      BY <3>2, <3>5 DEF Asks, SendCancel
  <2> QED
    BY <2>1, <2>2
<1> QED
  BY <1>1, <1>2, NothingDrained, DrainsRest DEF CalmStep, quantities

LEMMA RetryOutcome ==
    ASSUME SysInv, LotsInv, side # NoSide, closeReason # "None", NEW ok \in BOOLEAN,
           RetryClose(ok), UNCHANGED channels
    PROVE  CalmStep \/ EndStep
<1>1. CASE ~tradeIsOpen \/ IsCloseInProgress
  BY <1>1, NothingDrained, StayIsCalm DEF RetryClose
<1>2. CASE /\ tradeIsOpen /\ Remaining <= 0 /\ FinishTrade
           /\ UNCHANGED <<closeQty, pendingCloseQty, closePartiallyFilledQty, closeReason>>
  <2>1. closeQty' <= openQty
    BY <1>2, Kinds DEF LotsInv, PositionOk, Opening, SysInv, IInv, WaitDiscipline
  <2> QED
    BY <1>2, <2>1, NothingLeft, FinishEnds, NothingDrained DEF EndStep
<1>3. CASE /\ tradeIsOpen
           /\ SendCloseMarket(Remaining, wait, ok)
           /\ UNCHANGED <<side, tradeIsOpen, openQty, closeQty,
                  closePartiallyFilledQty, closeReason, tradeNumber, held>>
  <2>1. Remaining = openQty - closePartiallyFilledQty' /\ closePartiallyFilledQty' \in Nat
    BY <1>3, Kinds DEF Remaining
  <2>2. Calm /\ Asks
    BY <1>3, <2>1, MarketCloseAsks
  <2> QED
    BY <1>3, <2>2, NothingDrained, DrainsRest DEF CalmStep
<1>4. CASE CloseTrade(closeReason, ok)
  BY <1>4, CloseTradeOutcome DEF SysInv, IInv, TypeOK
<1> QED
  BY <1>1, <1>2, <1>3, <1>4 DEF RetryClose

LEMMA CheckOutcome ==
    ASSUME SysInv, LotsInv, side # NoSide, NEW zone \in Zones, NEW ok \in BOOLEAN,
           CheckSLTP(zone, ok), UNCHANGED channels
    PROVE  CalmStep \/ EndStep
<1>1. CASE ~tradeIsOpen \/ zone = "Inside"
  BY <1>1, NothingDrained, StayIsCalm DEF CheckSLTP
<1>2. CASE /\ tradeIsOpen
           /\ zone = "StopLoss" \/ closePartiallyFilledQty > 0
           /\ closeReason' = IF zone = "StopLoss" THEN "StopLoss" ELSE closeReason
           /\ SendCloseMarket(Remaining, wait, ok)
           /\ UNCHANGED <<side, tradeIsOpen, openQty, closeQty,
                           closePartiallyFilledQty, tradeNumber, held>>
  <2>1. Remaining = openQty - closePartiallyFilledQty' /\ closePartiallyFilledQty' \in Nat
    BY <1>2, Kinds DEF Remaining
  <2>2. closeReason' # "None"
    BY <1>2, Kinds DEF SysInv, IInv, ReasonKnown
  <2>3. Calm /\ Asks
    BY <1>2, <2>1, <2>2, MarketCloseAsks
  <2> QED
    BY <1>2, <2>3, NothingDrained, DrainsRest DEF CalmStep
<1>3. CASE CloseTrade("TakeProfit", ok)
  BY <1>3, CloseTradeOutcome DEF Reasons
<1> QED
  BY <1>1, <1>2, <1>3 DEF CheckSLTP

LEMMA PriceOutcome ==
    ASSUME SysInv, LotsInv, NEW zone \in Zones, NEW waited \in Waited, NEW ok \in BOOLEAN,
           CheckCurrentPrice(zone, waited, ok), UNCHANGED channels
    PROVE  CalmStep \/ EndStep
<1>1. CASE side = NoSide
  BY <1>1, NothingDrained, StayIsCalm DEF CheckCurrentPrice
<1>2. CASE side # NoSide
  <2>1. side \in Sides /\ Opposite(side) \in Sides /\ \A f, g \in wait : f = g
    BY <1>2, Kinds, OppositeTyped DEF SysInv, IInv, WaitDiscipline
  <2>2. CASE CloseTrade("Timeout", ok)
    BY <2>2, CloseTradeOutcome DEF Reasons
  <2>3. CASE CancelOpenLimitOrder(ok)
    BY <1>2, <2>1, <2>3, CancelOutcome DEF CancelOpenLimitOrder
  <2>4. CASE "cancelOpenLimit" \in wait /\ RepeatCancel("OpenLimit", side, ok)
    BY <1>2, <2>1, <2>4, CancelOutcome DEF RepeatCancel
  <2>5. CASE CancelCloseLimitOrder(ok)
    BY <1>2, <2>1, <2>5, CancelOutcome DEF CancelCloseLimitOrder
  <2>6. CASE RepeatCancel("CloseLimit", Opposite(side), ok)
    BY <1>2, <2>1, <2>6, CancelOutcome DEF RepeatCancel
  <2>7. CASE closeReason # "None" /\ RetryClose(ok)
    BY <1>2, <2>7, RetryOutcome
  <2>8. CASE Stay
    BY <2>8, NothingDrained, StayIsCalm
  <2>9. CASE CheckSLTP(zone, ok)
    BY <1>2, <2>9, CheckOutcome
  <2> QED
    BY <1>2, <2>2, <2>3, <2>4, <2>5, <2>6, <2>7, <2>8, <2>9
    DEF CheckCurrentPrice, CancelOpenTimeout, RetryDue
<1> QED
  BY <1>1, <1>2

LEMMA ResultOutcome ==
    ASSUME SysInv, LotsInv, NEW ok \in BOOLEAN, DrainResult(ok)
    PROVE  CalmStep \/ EndStep
<1> DEFINE result == Head(results)
           w == wait \ {"closeLimit", "cancelCloseLimit"}
<1>1. result \in Results /\ result.id \in OrderIds /\ ResultOk(result)
  <2>1. results # <<>>
    BY DEF DrainResult
  <2>2. result = results[1] /\ 1 \in 1 .. Len(results) /\ result \in Results
    BY <2>1, Kinds
  <2> QED
    BY <2>2 DEF LotsInv, ResultsOk, Results
<1>2. Rest(results', results) /\ UNCHANGED updates /\ Drains
  BY Kinds, RestOfSeq DEF DrainResult, Drains
<1>3. OnOrderRequestResult(result, ok)
  BY DEF DrainResult
<1>4. CASE Stay
  BY <1>2, <1>4, StayIsCalm
<1> SUFFICES ASSUME ~Stay PROVE CalmStep \/ EndStep
  BY <1>4
<1>5. result.id \in ordersStatus /\ side # NoSide
  BY <1>3 DEF OnOrderRequestResult
<1>6. result.id[1] = tradeNumber /\ \A role : result.id[2] = role => result.id = Id(role)
  BY <1>1, <1>5, IdParts DEF SysInv, IInv, KnownOrders
<1>7. /\ side # NoSide
      /\ tradeIsOpen => wait \subseteq CloseWaits
      /\ ~tradeIsOpen => wait \subseteq OpenWaits
      /\ \A f, g \in wait : f = g
      /\ closeReason = "None" => wait \cap CloseWaits = {}
  BY <1>5 DEF SysInv, IInv, WaitDiscipline, ReasonKnown
<1> HIDE DEF result
<1>8. CASE /\ \/ result.id[2] = "OpenLimit"  /\ "openLimit"  \in wait
              \/ result.id[2] = "OpenMarket" /\ "openMarket" \in wait
           /\ Abandon /\ Silent
           /\ UNCHANGED <<tradeNumber, ordersStatus, held>>
  <2>1. Opening
    BY <1>7, <1>8 DEF Opening, CloseWaits
  <2>2. result.id = Opener
    BY <1>6, <1>7, <1>8 DEF Opener, AtMarket
  <2>3. orders[Opener].state = "done" /\ orders[Opener].cum = 0
    BY <1>1, <1>6, <1>8, <2>2 DEF ResultOk, AtMarket
  <2>4. position = 0
    BY <2>1, <2>3, Kinds DEF LotsInv, PositionOk, Exposed, Lots
  <2>5. Ends
    BY <1>7, <1>8, <2>3, <2>4 DEF Ends, Abandon, ResetTradeState, Silent
  <2> QED
    BY <1>2, <2>1, <2>5, Kinds, RestOfSeq DEF EndStep, Opening
<1>9. CASE /\ w # wait
           /\ Remaining > 0
           /\ SendCloseMarket(Remaining, w, ok)
           /\ UNCHANGED <<side, tradeIsOpen, openQty, closeQty,
                   closePartiallyFilledQty, closeReason, tradeNumber, held>>
  <2>1. tradeIsOpen /\ closeReason # "None"
    BY <1>7, <1>9 DEF OpenWaits, CloseWaits
  <2>2. Remaining = openQty - closePartiallyFilledQty' /\ closePartiallyFilledQty' \in Nat
    BY <1>9, Kinds DEF Remaining
  <2>3. Calm /\ Asks
    BY <1>9, <2>1, <2>2, MarketCloseAsks
  <2> QED
    BY <1>2, <1>9, <2>3, DrainsRest DEF CalmStep
<1>10. CASE /\ w # wait
            /\ Remaining <= 0
            /\ FinishTrade
            /\ UNCHANGED <<closeQty, pendingCloseQty, closePartiallyFilledQty, closeReason>>
  <2>1. tradeIsOpen
    BY <1>7, <1>10 DEF OpenWaits
  <2>2. closeQty' <= openQty
    BY <1>7, <1>10, Kinds DEF LotsInv, PositionOk
  <2> QED
    BY <1>2, <1>10, <2>1, <2>2, NothingLeft, FinishEnds, Kinds, RestOfSeq DEF EndStep
<1>11. CASE /\ wait' = wait \ {"closeMarket"}
            /\ Silent
            /\ UNCHANGED <<side, tradeIsOpen, quantities, closeReason,
                           tradeNumber, ordersStatus, held>>
  <2>1. Calm /\ Asks
    BY <1>11 DEF Calm, Asks, Silent, quantities
  <2> QED
    BY <1>2, <1>11, <2>1, DrainsRest DEF CalmStep, quantities
<1> QED
  BY <1>3, <1>5, <1>8, <1>9, <1>10, <1>11 DEF OnOrderRequestResult

-----------------------------------------------------------------------------
(* An update of the order that opens the trade, or of one that closes it.  *)

LEMMA OpeningOutcome ==
    ASSUME SysInv, LotsInv, NEW ok \in BOOLEAN, OpeningDrained,
           \/ Head(updates).id[2] = "OpenLimit" /\ HandleOpenLimitOrder(Head(updates), ok)
           \/ Head(updates).id[2] = "OpenMarket" /\ HandleOpenMarketOrder(Head(updates))
    PROVE  CalmStep \/ EndStep \/ Enters \/ FallsBack
<1> DEFINE order == Head(updates)
<1>1. /\ Opening /\ order.id = Opener /\ orders[Opener].state = "done"
      /\ order.cum = Exposed /\ ~tradeIsOpen
  BY OpeningUpdate DEF OpeningDrained, Opening
<1>2. Drains /\ Rest(results', results) /\ Rest(updates', updates)
  BY Kinds, RestOfSeq DEF OpeningDrained, Drains
<1>3. order \in OrderEvents /\ order.cum \in Nat /\ UpdateOk(order)
  <2>1. order = updates[1] /\ 1 \in 1 .. Len(updates) /\ order \in OrderEvents
    BY Kinds DEF OpeningDrained
  <2> QED
    BY <2>1 DEF LotsInv, UpdatesOk, OrderEvents
<1> HIDE DEF order
<1>4. CASE Stay
  BY <1>2, <1>4, StayIsCalm
<1>5. CASE EnterTrade(order) /\ order.cum > 0
  BY <1>5 DEF EnterTrade, Enters, order, Silent
<1>6. ASSUME order.cum = 0, Abandon, UNCHANGED <<tradeNumber, queues>> PROVE EndStep
  <2>1. position = 0
    BY <1>1, <1>6, Kinds DEF Exposed, Lots
  <2>2. Ends
    BY <1>1, <1>6, <2>1 DEF Ends, Abandon, ResetTradeState, OpeningDrained
  <2> QED
    BY <1>1, <1>2, <2>2 DEF EndStep
<1>7. CASE order.id[2] = "OpenLimit" /\ order.cum = 0 /\ SendOpenMarketFallback(ok)
  <2>1. CASE ok
    <3>1. (wait \ {"openLimit", "cancelOpenLimit"}) \cup {"openMarket"} = {"openMarket"}
      BY <1>1 DEF SysInv, IInv, WaitDiscipline, Opening, OpenWaits
    <3> QED
      BY <1>7, <2>1, <3>1 DEF SendOpenMarketFallback, SendNew, FallsBack, order
  <2>2. CASE ~ok
    BY <1>6, <1>7, <2>2 DEF SendOpenMarketFallback, SendNew, queues
  <2> QED
    BY <2>1, <2>2
<1>8. CASE order.id[2] = "OpenLimit" /\ HandleOpenLimitOrder(order, ok)
  <2>1. "openMarket" \notin wait
    BY <1>1, <1>8 DEF Opener, AtMarket, Id
  <2> QED
    BY <1>1, <1>3, <1>4, <1>5, <1>7, <1>8, <2>1
    DEF HandleOpenLimitOrder, Executed, Unexecuted, UpdateOk
<1>9. CASE order.id[2] = "OpenMarket" /\ HandleOpenMarketOrder(order)
  <2>1. CASE Unexecuted(order) /\ Abandon /\ Silent /\ UNCHANGED <<tradeNumber, ordersStatus, held>>
    BY <1>6, <2>1 DEF Unexecuted, Silent
  <2> QED
    BY <1>1, <1>3, <1>4, <1>5, <1>9, <2>1 DEF HandleOpenMarketOrder, UpdateOk
<1> QED
  BY <1>8, <1>9 DEF order

LEMMA ClosingOutcome ==
    ASSUME SysInv, LotsInv, NEW ok \in BOOLEAN, side # NoSide,
           updates # <<>>, updates' = Tail(updates), UNCHANGED results,
           Head(updates).id \in ordersStatus,
           \/ Head(updates).id[2] = "CloseLimit" /\ HandleCloseLimitOrder(Head(updates), ok)
           \/ Head(updates).id[2] = "CloseMarket" /\ HandleCloseMarketOrder(Head(updates))
    PROVE  CalmStep \/ EndStep
<1> DEFINE order == Head(updates)
           closed == closePartiallyFilledQty + order.cum
<1>1. order \in OrderEvents /\ order.cum \in Nat /\ UpdateOk(order)
  <2>1. order = updates[1] /\ 1 \in 1 .. Len(updates) /\ order \in OrderEvents
    BY Kinds
  <2> QED
    BY <2>1 DEF LotsInv, UpdatesOk, OrderEvents
<1>2. order.id[1] = tradeNumber /\ IsReduceOnly(order.id) /\ order.id[2] \notin OpenRoles
  BY DEF IsReduceOnly, SysInv, IInv, KnownOrders, OpenRoles
<1>3. /\ tradeIsOpen /\ (order.status = "Filled" => position = 0 /\ order.cum > 0)
      /\ closeReason # "None"
  BY <1>1, <1>2 DEF UpdateOk, Current, SysInv, IInv, ReasonKnown
<1>4. Counted(order, tradeNumber) = order.cum
  BY <1>2 DEF Counted
<1>5. closed <= openQty - Exposed - Unreported
  <2>1. Tally(updates, tradeNumber, closePartiallyFilledQty, openQty - Exposed - Unreported)
    BY <1>3 DEF LotsInv, Ledger
  <2>2. updates \in Seq(OrderEvents) /\ closePartiallyFilledQty \in Int
        /\ openQty - Exposed - Unreported \in Int
    BY Kinds, LotsTyped
  <2>3. closePartiallyFilledQty + Counted(Head(updates), tradeNumber) <= openQty - Exposed - Unreported
    BY <2>1, <2>2, TallyTail
  <2> QED
    BY <1>4, <2>3
<1>6. /\ closed \in Nat /\ openQty \in Int /\ closed <= openQty - Exposed /\ closed <= openQty
      /\ openQty <= closed => Exposed <= 0
      /\ position = 0 => Exposed <= 0
  <2>1. Exposed >= 0
    BY <1>3, NothingLeft
  <2>2. position = 0 => Exposed <= 0
    BY DEF Exposed, Lots
  <2>3. closed \in Nat /\ openQty \in Int
    BY <1>1, Kinds
  <2>4. Exposed \in Int /\ Unreported \in Nat
    BY LotsTyped, ConstantsAssumption DEF ConstantsAssumption
  <2>5. PICK e \in Int, u \in Nat : e = Exposed /\ u = Unreported
    BY <2>4
  <2>6. e >= 0 /\ closed <= openQty - e - u
    BY <1>5, <2>1, <2>5
  <2>7. closed <= openQty - e /\ closed <= openQty /\ (openQty <= closed => e <= 0)
    BY <2>3, <2>6
  <2> QED
    BY <2>2, <2>3, <2>5, <2>7
<1>7. Drains /\ Rest(results', results) /\ Rest(updates', updates)
  BY Kinds, RestOfSeq DEF Drains
<1>8. closePartiallyFilledQty' = closed => Counts
  BY <1>4, <1>6 DEF Counts
<1> HIDE DEF order
<1>9. CASE Stay
  BY <1>7, <1>9, StayIsCalm
<1>10. ASSUME CloseFilled(closed), order.status = "Filled" \/ openQty <= closed PROVE EndStep
  <2>1. Exposed <= 0
    BY <1>3, <1>6, <1>10
  <2>2. Ends
    BY <1>3, <1>10, <2>1, FinishEnds DEF CloseFilled
  <2> QED
    BY <1>3, <1>6, <1>7, <1>10, <2>2 DEF EndStep, CloseFilled
<1>11. CASE order.id[2] = "CloseLimit" /\ HandleCloseLimitOrder(order, ok)
  <2> DEFINE w == wait \ {"closeLimit", "cancelCloseLimit"}
  <2>1. CASE /\ closePartiallyFilledQty' = closed /\ openQty > closed
             /\ SendCloseMarket(openQty - closed, w, ok)
             /\ UNCHANGED <<side, tradeIsOpen, openQty, closeQty, closeReason,
                            tradeNumber, held>>
    <3>1. Calm /\ Asks
      BY <1>3, <1>6, <2>1, MarketCloseAsks
    <3> QED
      BY <1>7, <1>8, <2>1, <3>1 DEF CalmStep
  <2> QED
    BY <1>3, <1>9, <1>10, <1>11, <2>1 DEF HandleCloseLimitOrder
<1>12. CASE order.id[2] = "CloseMarket" /\ HandleCloseMarketOrder(order)
  <2>1. CASE /\ closePartiallyFilledQty' = closed
             /\ wait' = wait \ {"closeMarket"}
             /\ Silent
             /\ UNCHANGED <<side, tradeIsOpen, openQty, closeQty, pendingCloseQty,
                            closeReason, tradeNumber, ordersStatus, held>>
    <3>1. Calm /\ Asks
      BY <1>3, <2>1 DEF Calm, Asks, Silent
    <3> QED
      BY <1>7, <1>8, <2>1, <3>1 DEF CalmStep
  <2> QED
    BY <1>3, <1>9, <1>10, <1>12, <2>1 DEF HandleCloseMarketOrder
<1> QED
  BY <1>11, <1>12 DEF order

LEMMA UpdateOutcome ==
    ASSUME SysInv, LotsInv, NEW ok \in BOOLEAN, DrainUpdate(ok)
    PROVE  CalmStep \/ EndStep \/ (OpeningDrained /\ (Enters \/ FallsBack))
<1> DEFINE order == Head(updates)
<1>1. /\ updates # <<>> /\ updates' = Tail(updates) /\ UNCHANGED results /\ SetOrder(order, ok)
  BY DEF DrainUpdate
<1>2. Drains /\ Rest(results', results)
  BY <1>1, Kinds, RestOfSeq DEF Drains
<1>3. CASE order.id \notin ordersStatus \/ side = NoSide
  BY <1>1, <1>2, <1>3, StayIsCalm DEF SetOrder
<1>4. CASE order.id \in ordersStatus /\ side # NoSide
  <2>1. \/ order.id[2] = "OpenLimit"   /\ HandleOpenLimitOrder(order, ok)
        \/ order.id[2] = "OpenMarket"  /\ HandleOpenMarketOrder(order)
        \/ order.id[2] = "CloseLimit"  /\ HandleCloseLimitOrder(order, ok)
        \/ order.id[2] = "CloseMarket" /\ HandleCloseMarketOrder(order)
    BY <1>1, <1>4 DEF SetOrder
  <2>2. order.id[1] = tradeNumber
    BY <1>4 DEF SysInv, IInv, KnownOrders
  <2>3. CASE order.id[2] \in {"OpenLimit", "OpenMarket"}
    <3>1. OpeningDrained
      BY <1>1, <1>4, <2>2, <2>3 DEF OpeningDrained, IsReduceOnly
    <3> QED
      BY <2>1, <2>3, <3>1, OpeningOutcome
  <2>4. CASE order.id[2] \in {"CloseLimit", "CloseMarket"}
    BY <1>1, <1>4, <2>1, <2>4, ClosingOutcome
  <2> QED
    BY <2>1, <2>3, <2>4
<1> QED
  BY <1>3, <1>4

LEMMA SignalOutcome ==
    ASSUME SysInv, LotsInv, NEW s \in SignalSides, NEW ok \in BOOLEAN, Signal(s, ok)
    PROVE  CalmStep \/ StartStep
<1>1. s \in Sides /\ UNCHANGED channels /\ (RefreshTrade(s) \/ StartTrade(s, ok))
  BY SystemAssumption DEF SystemAssumption, Signal, MakeTrade
<1>2. CASE RefreshTrade(s)
  <2>1. Calm /\ Asks
    BY <1>2 DEF RefreshTrade, Calm, Asks, Silent, quantities
  <2> QED
    BY <1>1, <1>2, <2>1, NothingDrained, DrainsRest DEF CalmStep, RefreshTrade, quantities
<1>3. CASE StartTrade(s, ok)
  BY <1>1, <1>3 DEF StartTrade, SendNew, Starts, StartStep
<1> QED
  BY <1>1, <1>2, <1>3

LEMMA StrategyOutcome ==
    ASSUME SysInv, LotsInv, Strategy
    PROVE  Outcome /\ UNCHANGED exchange
<1>1. PICK ok \in BOOLEAN :
          \/ \E s \in SignalSides : Signal(s, ok)
          \/ \E zone \in Zones, waited \in Waited : Price(zone, waited, ok)
          \/ DrainResult(ok)
          \/ DrainUpdate(ok)
  BY DEF Strategy
<1>2. CASE \E s \in SignalSides : Signal(s, ok)
  BY <1>2, SignalOutcome DEF Outcome, Signal
<1>3. CASE \E zone \in Zones, waited \in Waited : Price(zone, waited, ok)
  BY <1>3, PriceOutcome DEF Outcome, Price
<1>4. CASE DrainResult(ok)
  BY <1>4, ResultOutcome DEF Outcome, DrainResult
<1>5. CASE DrainUpdate(ok)
  BY <1>5, UpdateOutcome DEF Outcome, DrainUpdate
<1> QED
  BY <1>1, <1>2, <1>3, <1>4, <1>5

-----------------------------------------------------------------------------
(* What the exchange records.                                              *)

LEMMA SetToSeqEmpty == SetToSeq({}) = <<>>
<1>1. IsFiniteSet({}) /\ Cardinality({}) = 0
  BY FS_EmptySet
<1>2. SetToSeq({}) \in Seq({})
  BY <1>1, SeqOfSet
<1> QED
  BY <1>2

LEMMA SetToSeqOne ==
    ASSUME NEW x
    PROVE  SetToSeq({x}) = <<x>>
<1>1. IsFiniteSet({x}) /\ Cardinality({x}) = 1
  BY FS_Singleton
<1>2. SetToSeq({x}) = CHOOSE f \in [1 .. 1 -> {x}] : IsInjective(f)
  BY <1>1 DEF SetToSeq
<1>3. \E f \in [1 .. 1 -> {x}] : IsInjective(f)
  <2> DEFINE f == [i \in 1 .. 1 |-> x]
  <2>1. f \in [1 .. 1 -> {x}] /\ IsInjective(f)
    BY DEF IsInjective
  <2> QED
    BY <2>1
<1>4. SetToSeq({x}) \in [1 .. 1 -> {x}]
  BY <1>2, <1>3
<1> QED
  BY <1>4

Recorded(id, o) == [orders EXCEPT ![id] = o]

WithoutRest(c, os) == [os EXCEPT ![c] = [os[c] EXCEPT !.state = "done"]]

NoneEnds(os, p) == \A i \in OrderIds : IsReduceOnly(i) /\ os[i].state = "live" => p # 0

OnlyRests(c, os) ==
    /\ IsReduceOnly(c) /\ os[c].state = "live"
    /\ \A i \in OrderIds : IsReduceOnly(i) /\ os[i].state = "live" => i = c

\* No resting order ends with what is recorded.
LEMMA RecordAlone ==
    ASSUME ExchangeTyped, NEW id \in OrderIds, NEW o \in ExchangeOrders, NEW n \in Int,
           NEW news \in Seq(OrderEvents), Record(id, o, n, news),
           NoneEnds(Recorded(id, o), position + Lots(o.side, n))
    PROVE  /\ position' = position + Lots(o.side, n)
           /\ orders' = [orders EXCEPT ![id] = o]
           /\ updates' = updates \o news
<1> DEFINE after == [orders EXCEPT ![id] = o]
           dropped == {i \in OrderIds : /\ position + Lots(o.side, n) = 0
                                        /\ IsReduceOnly(i) /\ after[i].state = "live"}
           ends == {Update(i, "Cancelled", after[i]) : i \in dropped}
<1>1. /\ position' = position + Lots(o.side, n)
      /\ orders' = [i \in OrderIds |-> IF i \in dropped
                          THEN [after[i] EXCEPT !.state = "done"] ELSE after[i]]
      /\ updates' = updates \o news \o SetToSeq(ends)
  BY DEF Record
<1>2. after \in [OrderIds -> ExchangeOrders] /\ updates \o news \in Seq(OrderEvents)
  BY DEF ExchangeTyped
<1>3. dropped = {}
  BY DEF NoneEnds, Recorded
<1>4. ends = {}
  BY <1>3
<1> HIDE DEF dropped, ends
<1>5. updates' = updates \o news
  <2>1. updates' = updates \o news \o <<>>
    BY <1>1, <1>4, SetToSeqEmpty
  <2> QED
    BY <1>2, <2>1, ConcatEmptySeq
<1> HIDE DEF after
<1>6. orders' = after
  BY <1>1, <1>2, <1>3
<1> QED
  BY <1>1, <1>5, <1>6 DEF after

\* The position becomes flat, and the one resting order `c` that could only reduce
\* it ends.
LEMMA RecordDrops ==
    ASSUME ExchangeTyped, NEW id \in OrderIds, NEW o \in ExchangeOrders, NEW n \in Int,
           NEW news \in Seq(OrderEvents), Record(id, o, n, news),
           position + Lots(o.side, n) = 0,
           NEW c \in OrderIds, OnlyRests(c, Recorded(id, o))
    PROVE  /\ position' = 0
           /\ orders' = WithoutRest(c, Recorded(id, o))
           /\ updates' = Append(updates \o news, Update(c, "Cancelled", Recorded(id, o)[c]))
<1> DEFINE after == Recorded(id, o)
           dropped == {i \in OrderIds : /\ position + Lots(o.side, n) = 0
                                        /\ IsReduceOnly(i) /\ after[i].state = "live"}
           ends == {Update(i, "Cancelled", after[i]) : i \in dropped}
<1>1. /\ position' = position + Lots(o.side, n)
      /\ orders' = [i \in OrderIds |-> IF i \in dropped
                          THEN [after[i] EXCEPT !.state = "done"] ELSE after[i]]
      /\ updates' = updates \o news \o SetToSeq(ends)
  BY DEF Record, Recorded
<1>2. after \in [OrderIds -> ExchangeOrders] /\ updates \o news \in Seq(OrderEvents)
  BY DEF ExchangeTyped, Recorded
<1>3. dropped = {c}
  BY DEF OnlyRests
<1>4. ends = {Update(c, "Cancelled", after[c])}
  BY <1>3
<1> HIDE DEF dropped, ends
<1>5. updates' = Append(updates \o news, Update(c, "Cancelled", after[c]))
  <2>1. Update(c, "Cancelled", after[c]) \in OrderEvents
    BY <1>2, UpdateTyped
  <2>2. updates' = updates \o news \o <<Update(c, "Cancelled", after[c])>>
    BY <1>1, <1>4, SetToSeqOne
  <2> QED
    BY <1>2, <2>1, <2>2, AppendIsConcat
<1> HIDE DEF after
<1>6. orders' = [after EXCEPT ![c] = [after[c] EXCEPT !.state = "done"]]
  BY <1>1, <1>2, <1>3
<1> QED
  BY <1>1, <1>5, <1>6 DEF after, WithoutRest

-----------------------------------------------------------------------------
(* The exchange works on an order that opens the trade.                    *)

TakenOf(id) == newQueue # <<>> /\ newQueue' = Tail(newQueue) /\ Head(newQueue).id = id

Opens(o) ==
    /\ UNCHANGED tmState
    /\ Opening /\ o.state \in {"live", "done"}
    /\ o.state = "live" => ~AtMarket /\ o.side = side /\ o.qty = DefaultQty
    /\ o.cum >= Exposed
    /\ orders' = [orders EXCEPT ![Opener] = o]
    /\ position' = position + Lots(side, o.cum - Exposed)
    /\ \/ orders[Opener].state = "live" /\ UNCHANGED newQueue
       \/ orders[Opener].state = "none" /\ TakenOf(Opener)
    /\ Rest(cancelQueue', cancelQueue)
    /\ \/ UNCHANGED results
       \/ /\ o.state = "done" /\ o.cum = 0
          /\ results' = Append(results, [id |-> Opener, success |-> FALSE])
    /\ \/ UNCHANGED updates
       \/ /\ o.state = "done"
          /\ \E status \in {"Filled", "Cancelled"} :
                /\ status = "Filled" => o.cum > 0
                /\ updates' = Append(updates, Update(Opener, status, o))

LEMMA OpenerTyped ==
    ASSUME SysInv
    PROVE  /\ Opener \in OrderIds /\ ~IsReduceOnly(Opener) /\ Opener[1] = tradeNumber
           /\ Opener = IF AtMarket THEN Id("OpenMarket") ELSE Id("OpenLimit")
           /\ Id("OpenLimit") # Id("OpenMarket")
<1>1. Id("OpenMarket") \in OrderIds /\ Id("OpenLimit") \in OrderIds
  BY IdTyped DEF SysInv, IInv, OrderRole
<1> QED
  BY <1>1 DEF Opener, Id, IsReduceOnly

LEMMA OpensKeeps ==
    ASSUME SysInv, SysInv', LotsInv, NEW o \in ExchangeOrders, Opens(o)
    PROVE  LotsInv'
<1>1. /\ UNCHANGED <<side, tradeIsOpen, wait, closeReason, tradeNumber, openQty, closeQty,
                     closePartiallyFilledQty>>
      /\ \A role : Id(role)' = Id(role)
      /\ \A id : Current(id)' <=> Current(id)
      /\ (Opening' <=> Opening) /\ (AtMarket' <=> AtMarket) /\ Opener' = Opener
      /\ Opening /\ ~tradeIsOpen /\ side \in Sides /\ orders[Opener].state # "done"
  BY Kinds DEF Opens, tmState, quantities, Id, Current, Opening, AtMarket, Opener
<1>2. /\ Opener \in OrderIds /\ ~IsReduceOnly(Opener) /\ Opener[1] = tradeNumber
      /\ orders' = [orders EXCEPT ![Opener] = o] /\ orders'[Opener] = o
      /\ \A id \in OrderIds : id # Opener => orders'[id] = orders[id]
  BY OpenerTyped, Kinds DEF Opens
<1>3. Exposed' = o.cum
  <2>1. Exposed \in Int /\ o.cum \in Int /\ position \in Int
    BY LotsTyped, Kinds, ConstantsAssumption DEF ExchangeOrders, ConstantsAssumption
  <2>2. Exposed = position \/ Exposed = -position
    BY DEF Exposed, Lots
  <2>3. CASE side = "Buy"
    BY <1>1, <2>1, <2>3 DEF Opens, Exposed, Lots
  <2>4. CASE side # "Buy"
    BY <1>1, <2>1, <2>4 DEF Opens, Exposed, Lots
  <2> QED
    BY <2>3, <2>4
<1>4. QueueOk'
  <2>1. ASSUME NEW r \in Requests, RequestOk(r), Untaken(r) PROVE RequestOk(r)'
    <3>1. IsReduceOnly(r.id)
      BY <1>1, <2>1 DEF RequestOk, Untaken, Opens, TakenOf
    <3>2. ~Current(r.id)
      BY <1>1, <2>1, <3>1 DEF RequestOk
    <3> QED
      BY <1>1, <2>1, <3>1, <3>2 DEF RequestOk, IsReduceOnly
  <2>2. orders'[Id("OpenLimit")].state # "none" =>
              \/ orders[Id("OpenLimit")].state # "none"
              \/ newQueue # <<>> /\ Head(newQueue).id = Id("OpenLimit")
    <3>1. Id("OpenLimit") \in OrderIds
      BY IdTyped DEF SysInv, IInv, OrderRole
    <3> QED
      BY <1>2, <3>1 DEF Opens, TakenOf
  <2>3. newQueue' = newQueue \/ (newQueue # <<>> /\ newQueue' = Tail(newQueue))
    BY DEF Opens, TakenOf
  <2> QED
    BY <1>1, <2>1, <2>2, <2>3, QueueKept DEF LotsInv
<1>5. CancelsOk'
  <2>1. \A r \in Requests : CancelOk(r) => CancelOk(r)'
    BY <1>1 DEF CancelOk
  <2> QED
    BY <2>1, CancelsKept DEF LotsInv, Opens
<1>6. ASSUME NEW r \in Results, ResultOk(r) PROVE ResultOk(r)'
  <2>1. "openLimit" \in wait => ~AtMarket
    BY DEF AtMarket, SysInv, IInv, WaitDiscipline
  <2>2. r.id = Id("OpenLimit") /\ "openLimit" \in wait => r.id = Opener
    BY <2>1, OpenerTyped
  <2>3. r.id = Id("OpenMarket") /\ AtMarket => r.id = Opener
    BY OpenerTyped
  <2>4. r.id \in OrderIds
    BY DEF Results
  <2> QED
    BY <1>1, <1>2, <1>6, <2>2, <2>3, <2>4 DEF ResultOk, Opens
<1>7. ResultsOk'
  <2>1. CASE UNCHANGED results
    BY <1>6, <2>1, Kinds, RestOfSeq, ResultsKept DEF LotsInv
  <2>2. CASE /\ o.state = "done" /\ o.cum = 0
             /\ results' = Append(results, [id |-> Opener, success |-> FALSE])
    <3>1. PICK q \in Results : q.id = Opener /\ results' = Append(results, q)
      BY <1>2, <2>2 DEF Results
    <3>2. ResultOk(q)'
      BY <1>1, <1>2, <2>2, <3>1, Kinds DEF ResultOk
    <3>3. ASSUME NEW i \in 1 .. Len(results') PROVE ResultOk(results[i])'
      <4>0. results \in Seq(Results)
        BY Kinds
      <4>1. PICK r \in Results : r = results'[i]
        BY <3>1, <4>0, AppendedItem
      <4>2. (i \in 1 .. Len(results) /\ r = results[i]) \/ r = q
        BY <3>1, <4>0, <4>1, AppendedItem
      <4>3. i \in 1 .. Len(results) /\ r = results[i] => ResultOk(r)
        BY DEF LotsInv, ResultsOk
      <4>4. ResultOk(r)'
        BY <1>6, <3>2, <4>2, <4>3
      <4> QED
        BY <4>1, <4>4
    <3> QED
      BY <3>3 DEF ResultsOk
  <2> QED
    BY <2>1, <2>2 DEF Opens
<1>8. ASSUME NEW u \in OrderEvents, UpdateOk(u) PROVE UpdateOk(u)' /\ ~Current(u.id)
  BY <1>1, <1>8 DEF UpdateOk, IsReduceOnly
<1>9. UpdatesOk'
  <2>1. CASE UNCHANGED updates
    BY <1>1, <1>8, <2>1, Kinds, RestOfSeq, UpdatesKept DEF LotsInv
  <2>2. CASE /\ o.state = "done"
             /\ \E status \in {"Filled", "Cancelled"} :
                   /\ status = "Filled" => o.cum > 0
                   /\ updates' = Append(updates, Update(Opener, status, o))
    <3>1. PICK q \in OrderEvents : /\ q.id = Opener /\ updates' = Append(updates, q)
                                   /\ q.status = "Filled" => o.cum > 0
                                   /\ q.cum = o.cum
      <4>1. PICK status \in {"Filled", "Cancelled"} :
                   /\ status = "Filled" => o.cum > 0
                   /\ updates' = Append(updates, Update(Opener, status, o))
        BY <2>2
      <4>2. Update(Opener, status, o) \in OrderEvents
        BY <1>2, UpdateTyped
      <4> QED
        BY <4>1, <4>2 DEF Update
    <3>2. UpdateOk(q)'
      BY <1>1, <1>2, <2>2, <3>1, Kinds DEF UpdateOk, IsReduceOnly
    <3>3. ASSUME NEW i \in 1 .. Len(updates')
          PROVE  UpdateOk(updates[i])' /\ (Current(updates[i].id)' => i = Len(updates'))
      <4>0. updates \in Seq(OrderEvents)
        BY Kinds
      <4>1. PICK u \in OrderEvents : u = updates'[i]
        BY <3>1, <4>0, AppendedItem
      <4>2. (i \in 1 .. Len(updates) /\ u = updates[i]) \/ (i = Len(updates') /\ u = q)
        BY <3>1, <4>0, <4>1, AppendedItem
      <4>3. i \in 1 .. Len(updates) /\ u = updates[i] => UpdateOk(u)
        BY DEF LotsInv, UpdatesOk
      <4>4. UpdateOk(u)' /\ (Current(u.id)' => i = Len(updates'))
        BY <1>1, <1>8, <3>2, <4>2, <4>3
      <4> QED
        BY <4>1, <4>4
    <3> QED
      BY <3>3 DEF UpdatesOk
  <2> QED
    BY <2>1, <2>2 DEF Opens
<1>10. OrdersOk'
  <2>1. SUFFICES ASSUME NEW id \in OrderIds PROVE OrderOk(id)'
    BY DEF OrdersOk
  <2>2. OrderOk(id)
    BY DEF LotsInv, OrdersOk
  <2>3. CASE id = Opener
    <3>1. Current(id) /\ id[1] <= tradeNumber
      BY <1>1, <1>2, <2>3, Kinds DEF Current, Opening
    <3> QED
      BY <1>1, <1>2, <2>3, <3>1, OpenerTyped DEF OrderOk, Opens, IsReduceOnly
  <2>4. CASE id # Opener
    <3>1. orders[id].state # "live"
      BY <1>1, <2>2, <2>4, OpenerTyped DEF OrderOk
    <3> QED
      BY <1>1, <1>2, <2>2, <2>4, <3>1 DEF OrderOk
  <2> QED
    BY <2>3, <2>4
<1>11. PositionOk' /\ Ledger'
  <2>1. Id("OpenLimit") \in OrderIds /\ Id("OpenMarket") \in OrderIds
    BY IdTyped DEF SysInv, IInv, OrderRole
  <2>2. ~AtMarket => Opener = Id("OpenLimit") /\ orders'[Id("OpenMarket")].state = "none"
    BY <1>1, <1>2, <2>1, OpenerTyped DEF LotsInv, PositionOk
  <2>3. AtMarket => orders'[Id("OpenLimit")].state = "done"
    BY <1>1, <1>2, <2>1, OpenerTyped DEF LotsInv, PositionOk
  <2>4. orders'[Id("OpenLimit")].state # "none"
    BY <1>2, <2>2, <2>3 DEF Opens
  <2>5. closeReason = "None" /\ closePartiallyFilledQty = 0 /\ closeQty = 0 /\ side # NoSide
    BY <1>1 DEF LotsInv, PositionOk, Opening
  <2> QED
    BY <1>1, <1>2, <1>3, <2>2, <2>3, <2>4, <2>5 DEF PositionOk, Ledger
<1> QED
  BY <1>4, <1>5, <1>7, <1>9, <1>10, <1>11 DEF LotsInv

-----------------------------------------------------------------------------
(* The exchange works on a reduce-only order.                              *)

Reduces ==
    /\ UNCHANGED tmState
    /\ \A id \in OrderIds : IF IsReduceOnly(id) THEN OrderOk(id)' ELSE orders'[id] = orders[id]
    /\ \/ UNCHANGED position
       \/ /\ tradeIsOpen /\ closeReason # "None" /\ position # 0
          /\ 0 <= Exposed' /\ Exposed' <= Exposed
    /\ UNCHANGED newQueue \/ (newQueue # <<>> /\ newQueue' = Tail(newQueue))
    /\ Rest(cancelQueue', cancelQueue)
    /\ \/ UNCHANGED results
       \/ \E r \in Results : /\ IsReduceOnly(r.id) /\ r.id[1] <= tradeNumber
                             /\ results' = Append(results, r)
    /\ \E news \in Seq(OrderEvents) :
          /\ updates' = updates \o news
          /\ \A i \in 1 .. Len(news) : IsReduceOnly(news[i].id) /\ UpdateOk(news[i])'
    /\ Ledger'

LEMMA ReducesKeeps ==
    ASSUME SysInv, SysInv', LotsInv, Reduces
    PROVE  LotsInv'
<1>1. /\ UNCHANGED <<side, tradeIsOpen, wait, closeReason, tradeNumber, openQty, closeQty,
                     closePartiallyFilledQty>>
      /\ \A role : Id(role)' = Id(role)
      /\ \A id : Current(id)' <=> Current(id)
      /\ (Opening' <=> Opening) /\ (AtMarket' <=> AtMarket) /\ Opener' = Opener
      /\ \A id \in OrderIds : ~IsReduceOnly(id) => orders'[id] = orders[id]
  BY DEF Reduces, tmState, quantities, Id, Current, Opening, AtMarket, Opener
<1>2. /\ position' # position => tradeIsOpen /\ position # 0
      /\ position' # position => 0 <= Exposed'
      /\ Exposed' <= Exposed /\ Exposed \in Int /\ Exposed' \in Int
      /\ ~tradeIsOpen => Exposed' = Exposed
  <2>1. Exposed \in Int /\ Exposed' \in Int
    BY LotsTyped, Kinds, <1>1 DEF SysInv, ExchangeTyped, Exposed, Lots
  <2>2. position' = position => Exposed' = Exposed
    BY <1>1 DEF Exposed
  <2> QED
    BY <2>1, <2>2 DEF Reduces
<1>3. ASSUME NEW r \in Requests, RequestOk(r) PROVE RequestOk(r)'
  <2>1. r.id \in OrderIds /\ r.qty \in Int
    BY ConstantsAssumption DEF Requests, ConstantsAssumption
  <2>2. r.qty >= Exposed => r.qty >= Exposed'
    BY <1>2, <2>1
  <2> QED
    BY <1>1, <1>3, <2>1, <2>2 DEF RequestOk, IsReduceOnly
<1>4. QueueOk'
  <2>1. Id("OpenLimit") \in OrderIds /\ ~IsReduceOnly(Id("OpenLimit"))
    BY IdTyped DEF SysInv, IInv, OrderRole, Id, IsReduceOnly
  <2>2. orders'[Id("OpenLimit")].state # "none" => orders[Id("OpenLimit")].state # "none"
    BY <1>1, <2>1
  <2>3. newQueue' = newQueue \/ (newQueue # <<>> /\ newQueue' = Tail(newQueue))
    BY DEF Reduces
  <2> QED
    BY <1>1, <1>3, <2>2, <2>3, QueueKept DEF LotsInv
<1>5. CancelsOk'
  <2>1. \A r \in Requests : CancelOk(r) => CancelOk(r)'
    BY <1>1 DEF CancelOk
  <2> QED
    BY <2>1, CancelsKept DEF LotsInv, Reduces
<1>6. ASSUME NEW r \in Results, ResultOk(r) PROVE ResultOk(r)'
  <2>1. r.id \in OrderIds
    BY DEF Results
  <2>2. \A role : r.id = Id(role) => r.id[2] = role
    BY DEF Id
  <2>3. r.id[2] \in {"OpenLimit", "OpenMarket"} => orders'[r.id] = orders[r.id]
    BY <1>1, <2>1 DEF IsReduceOnly
  <2> QED
    BY <1>1, <1>6, <2>2, <2>3 DEF ResultOk
<1>7. ResultsOk'
  <2>1. CASE UNCHANGED results
    BY <1>6, <2>1, Kinds, RestOfSeq, ResultsKept DEF LotsInv
  <2>2. CASE \E r \in Results : /\ IsReduceOnly(r.id) /\ r.id[1] <= tradeNumber
                                /\ results' = Append(results, r)
    <3>1. PICK q \in Results : /\ IsReduceOnly(q.id) /\ q.id[1] <= tradeNumber
                               /\ results' = Append(results, q)
      BY <2>2
    <3>2. ResultOk(q)'
      BY <1>1, <3>1 DEF ResultOk, IsReduceOnly, Id
    <3>3. ASSUME NEW i \in 1 .. Len(results') PROVE ResultOk(results[i])'
      <4>0. results \in Seq(Results)
        BY Kinds
      <4>1. PICK r \in Results : r = results'[i]
        BY <3>1, <4>0, AppendedItem
      <4>2. (i \in 1 .. Len(results) /\ r = results[i]) \/ r = q
        BY <3>1, <4>0, <4>1, AppendedItem
      <4>3. i \in 1 .. Len(results) /\ r = results[i] => ResultOk(r)
        BY DEF LotsInv, ResultsOk
      <4>4. ResultOk(r)'
        BY <1>6, <3>2, <4>2, <4>3
      <4> QED
        BY <4>1, <4>4
    <3> QED
      BY <3>3 DEF ResultsOk
  <2> QED
    BY <2>1, <2>2 DEF Reduces
<1>8. ASSUME NEW u \in OrderEvents, UpdateOk(u) PROVE UpdateOk(u)'
  <2>1. u.id \in OrderIds
    BY DEF OrderEvents
  <2> QED
    BY <1>1, <1>2, <1>8, <2>1 DEF UpdateOk, IsReduceOnly
<1>9. UpdatesOk'
  <2>1. PICK news \in Seq(OrderEvents) :
          /\ updates' = updates \o news
          /\ \A i \in 1 .. Len(news) : IsReduceOnly(news[i].id) /\ UpdateOk(news[i])'
    BY DEF Reduces
  <2>2. ASSUME NEW i \in 1 .. Len(updates')
        PROVE  /\ UpdateOk(updates[i])'
               /\ \/ i \in 1 .. Len(updates) /\ updates'[i] = updates[i]
                  \/ IsReduceOnly(updates[i].id)'
    <3>1. PICK u \in OrderEvents : u = updates'[i]
      BY <2>1, Kinds
    <3>2. \/ i \in 1 .. Len(updates) /\ u = updates[i]
          \/ \E k \in 1 .. Len(news) : u = news[k]
      <4>1. updates \in Seq(OrderEvents)
        BY Kinds
      <4>2. CASE i <= Len(updates)
        BY <2>1, <3>1, <4>1, <4>2
      <4>3. CASE ~(i <= Len(updates))
        <5>1. i - Len(updates) \in 1 .. Len(news) /\ u = news[i - Len(updates)]
          BY <2>1, <3>1, <4>1, <4>3
        <5> QED
          BY <5>1
      <4> QED
        BY <4>2, <4>3
    <3>3. i \in 1 .. Len(updates) /\ u = updates[i] => UpdateOk(u)
      BY DEF LotsInv, UpdatesOk
    <3>4. UpdateOk(u)' /\ ((i \in 1 .. Len(updates) /\ u = updates[i]) \/ IsReduceOnly(u.id))
      BY <1>8, <2>1, <3>2, <3>3
    <3> QED
      BY <3>1, <3>4 DEF IsReduceOnly
  <2>3. ASSUME NEW i \in 1 .. Len(updates'), NEW j \in 1 .. Len(updates'),
               (updates[i].id = updates[j].id)', Current(updates[i].id)',
               ~IsReduceOnly(updates[i].id)'
        PROVE  i = j
    <3>1. ~IsReduceOnly(updates[j].id)'
      BY <2>3 DEF IsReduceOnly
    <3>2. /\ i \in 1 .. Len(updates) /\ updates'[i] = updates[i]
          /\ j \in 1 .. Len(updates) /\ updates'[j] = updates[j]
      BY <2>2, <2>3, <3>1
    <3>3. updates[i].id = updates[j].id /\ Current(updates[i].id) /\ ~IsReduceOnly(updates[i].id)
      BY <1>1, <2>3, <3>2 DEF IsReduceOnly, Current
    <3> QED
      BY <3>2, <3>3 DEF LotsInv, UpdatesOk
  <2> QED
    BY <2>2, <2>3 DEF UpdatesOk
<1>10. OrdersOk'
  <2>1. SUFFICES ASSUME NEW id \in OrderIds PROVE OrderOk(id)'
    BY DEF OrdersOk
  <2>2. CASE IsReduceOnly(id)
    BY <2>2 DEF Reduces
  <2>3. CASE ~IsReduceOnly(id)
    <3>1. OrderOk(id) /\ orders'[id] = orders[id]
      BY <1>1, <2>3 DEF LotsInv, OrdersOk
    <3> QED
      BY <1>1, <2>3, <3>1 DEF OrderOk, IsReduceOnly
  <2> QED
    BY <2>2, <2>3
<1>11. PositionOk'
  <2>1. /\ Id("OpenLimit") \in OrderIds /\ Id("OpenMarket") \in OrderIds /\ Opener \in OrderIds
        /\ ~IsReduceOnly(Id("OpenLimit")) /\ ~IsReduceOnly(Id("OpenMarket")) /\ ~IsReduceOnly(Opener)
    BY IdTyped, OpenerTyped DEF SysInv, IInv, OrderRole, Id, IsReduceOnly
  <2>2. /\ orders'[Id("OpenLimit")] = orders[Id("OpenLimit")]
        /\ orders'[Id("OpenMarket")] = orders[Id("OpenMarket")]
        /\ orders'[Opener] = orders[Opener]
    BY <1>1, <2>1
  <2>3. /\ tradeIsOpen => Exposed' >= 0
        /\ side = NoSide => ~tradeIsOpen
    BY <1>1, <1>2 DEF LotsInv, PositionOk, SysInv, IInv, WaitDiscipline, Exposed
  <2> QED
    BY <1>1, <1>2, <2>2, <2>3 DEF LotsInv, PositionOk, Opening
<1>12. Ledger'
  BY DEF Reduces
<1> QED
  BY <1>4, <1>5, <1>7, <1>9, <1>10, <1>11, <1>12 DEF LotsInv

-----------------------------------------------------------------------------
(* The exchange's steps.                                                   *)

LEMMA LotsMove ==
    ASSUME side \in Sides, position \in Int, NEW n \in Int
    PROVE  /\ Lots(side, position + Lots(side, n)) = Exposed + n
           /\ Lots(side, position + Lots(Opposite(side), n)) = Exposed - n
           /\ Lots(Opposite(Opposite(side)), position) = Exposed
           /\ Exposed \in Int /\ (position = 0 <=> Exposed = 0)
<1>1. CASE side = "Buy"
  BY <1>1 DEF Lots, Opposite, Exposed
<1>2. CASE side = "Sell"
  BY <1>2 DEF Lots, Opposite, Exposed
<1> QED
  BY <1>1, <1>2 DEF Sides

LEMMA LotsOfNone ==
    ASSUME NEW s
    PROVE  Lots(s, 0) = 0
<1>1. Lots(s, 0) = 0 \/ Lots(s, 0) = -0
  BY DEF Lots
<1> QED
  BY <1>1

LEMMA HeadOk ==
    ASSUME SysInv, LotsInv, newQueue # <<>>
    PROVE  /\ Head(newQueue) \in Requests /\ Head(newQueue).id \in OrderIds
           /\ Head(newQueue).side \in Sides /\ Head(newQueue).qty \in 0 .. DefaultQty
           /\ RequestOk(Head(newQueue))
<1>1. Head(newQueue) = newQueue[1] /\ 1 \in 1 .. Len(newQueue) /\ Head(newQueue) \in Requests
  BY Kinds
<1> QED
  BY <1>1 DEF LotsInv, QueueOk, Requests

\* A request for an opening order is for the order that opens the trade, which is new.
LEMMA HeadOpens ==
    ASSUME SysInv, LotsInv, newQueue # <<>>, ~IsReduceOnly(Head(newQueue).id)
    PROVE  /\ Opening /\ Head(newQueue).id = Opener /\ Head(newQueue).side = side
           /\ Head(newQueue).qty = DefaultQty /\ side \in Sides
           /\ orders[Opener].state = "none" /\ Exposed = 0 /\ position = 0
<1>1. /\ Opening /\ Head(newQueue).id = Opener /\ Head(newQueue).side = side
      /\ Head(newQueue).qty = DefaultQty /\ side \in Sides /\ orders[Opener].state = "none"
  BY HeadOk, Kinds DEF RequestOk, Opening
<1>2. Exposed = 0
  BY <1>1, OpenerTyped DEF LotsInv, PositionOk, OrdersOk, OrderOk
<1> QED
  BY <1>1, <1>2, LotsMove, Kinds

\* An order that opens the trade takes no resting order with it.
LEMMA OpeningRecord ==
    ASSUME SysInv, LotsInv, Opening, NEW o \in ExchangeOrders, NEW n \in Int,
           NEW news \in Seq(OrderEvents), Record(Opener, o, n, news)
    PROVE  /\ position' = position + Lots(o.side, n)
           /\ orders' = [orders EXCEPT ![Opener] = o]
           /\ updates' = updates \o news
<1>1. \A i \in OrderIds : IsReduceOnly(i) => [orders EXCEPT ![Opener] = o][i].state # "live"
  <2>1. TAKE i \in OrderIds
  <2>2. HAVE IsReduceOnly(i)
  <2>3. i # Opener
    BY <2>2, OpenerTyped
  <2>4. [orders EXCEPT ![Opener] = o][i] = orders[i]
    BY <2>3, Kinds
  <2>5. OrderOk(i)
    BY DEF LotsInv, OrdersOk
  <2> QED
    BY <2>2, <2>4, <2>5 DEF OrderOk, Opening
<1>2. ExchangeTyped /\ Opener \in OrderIds
  BY OpenerTyped DEF SysInv
<1>3. NoneEnds(Recorded(Opener, o), position + Lots(o.side, n))
  BY <1>1 DEF NoneEnds, Recorded
<1> QED
  BY <1>2, <1>3, RecordAlone

LEMMA RejectOpens ==
    ASSUME SysInv, LotsInv, RejectNew, ~IsReduceOnly(Head(newQueue).id)
    PROVE  \E o \in ExchangeOrders : Opens(o)
<1> DEFINE r == Head(newQueue)
           o == [state |-> "done", side |-> r.side, qty |-> r.qty, cum |-> 0]
<1>1. newQueue # <<>>
  BY DEF RejectNew
<1>2. /\ Opening /\ r.id = Opener /\ orders[Opener].state = "none" /\ Exposed = 0
      /\ position = 0
  BY <1>1, HeadOpens
<1>3. o \in ExchangeOrders
  BY <1>1, HeadOk, ConstantsAssumption DEF ExchangeOrders, ConstantsAssumption
<1>4. /\ o.cum - Exposed = 0 /\ o.cum >= Exposed /\ Lots(side, 0) = 0
      /\ o.state = "done" /\ o.cum = 0
  BY <1>2, LotsOfNone
<1>5. /\ orders' = [orders EXCEPT ![Opener] = o]
      /\ \/ results' = Append(results, [id |-> Opener, success |-> FALSE]) /\ UNCHANGED updates
         \/ updates' = Append(updates, Update(Opener, "Cancelled", o)) /\ UNCHANGED results
      /\ newQueue' = Tail(newQueue) /\ UNCHANGED <<tmState, cancelQueue, position>>
  BY <1>2 DEF RejectNew
<1>6. Rest(cancelQueue', cancelQueue)
  BY <1>5, Kinds, RestOfSeq
<1> HIDE DEF o
<1>7. position' = position + Lots(side, o.cum - Exposed)
  BY <1>2, <1>4, <1>5
<1>8. Opens(o)
  BY <1>1, <1>2, <1>4, <1>5, <1>6, <1>7 DEF Opens, TakenOf
<1> QED
  BY <1>3, <1>8

LEMMA AcceptOpens ==
    ASSUME SysInv, LotsInv, AcceptLimit, ~IsReduceOnly(Head(newQueue).id)
    PROVE  \E o \in ExchangeOrders : Opens(o)
<1> DEFINE r == Head(newQueue)
           o == [state |-> "live", side |-> r.side, qty |-> r.qty, cum |-> 0]
<1>1. newQueue # <<>> /\ r.id[2] = "OpenLimit"
  BY DEF AcceptLimit, IsReduceOnly
<1>2. /\ Opening /\ r.id = Opener /\ orders[Opener].state = "none" /\ Exposed = 0
      /\ position = 0 /\ r.side = side /\ r.qty = DefaultQty
  BY <1>1, HeadOpens
<1>3. o \in ExchangeOrders
  BY <1>1, HeadOk, ConstantsAssumption DEF ExchangeOrders, ConstantsAssumption
<1>4. /\ o.cum - Exposed = 0 /\ o.cum >= Exposed /\ Lots(side, 0) = 0 /\ o.state = "live"
      /\ o.side = side /\ o.qty = DefaultQty
  BY <1>2, LotsOfNone
<1>5. /\ orders' = [orders EXCEPT ![Opener] = o]
      /\ newQueue' = Tail(newQueue) /\ UNCHANGED <<tmState, cancelQueue, position, results, updates>>
  BY <1>2 DEF AcceptLimit, channels
<1>6. Rest(cancelQueue', cancelQueue)
  BY <1>5, Kinds, RestOfSeq
<1>7. ~AtMarket
  BY <1>1, <1>2 DEF Opener, Id
<1> HIDE DEF o
<1>8. position' = position + Lots(side, o.cum - Exposed)
  BY <1>2, <1>4, <1>5
<1>9. Opens(o)
  BY <1>1, <1>2, <1>4, <1>5, <1>6, <1>7, <1>8 DEF Opens, TakenOf
<1> QED
  BY <1>3, <1>9

LEMMA ExecuteOpens ==
    ASSUME SysInv, LotsInv, ExecuteMarket, ~IsReduceOnly(Head(newQueue).id)
    PROVE  \E o \in ExchangeOrders : Opens(o)
<1> DEFINE r == Head(newQueue)
<1>1. newQueue # <<>>
  BY DEF ExecuteMarket
<1>2. /\ Opening /\ r.id = Opener /\ orders[Opener].state = "none" /\ Exposed = 0
      /\ position = 0 /\ r.side = side /\ r.qty = DefaultQty /\ side \in Sides
  BY <1>1, HeadOpens
<1>3. Room(r.id, r.side, r.qty) = DefaultQty
  BY <1>2 DEF Room
<1>4. PICK n \in 0 .. DefaultQty, status \in {"Filled", "Cancelled"} :
          /\ status = "Filled" => n = DefaultQty
          /\ Record(r.id, [state |-> "done", side |-> r.side, qty |-> r.qty, cum |-> n], n,
                    <<Update(r.id, status, [state |-> "done", side |-> r.side, qty |-> r.qty, cum |-> n])>>)
  BY <1>3 DEF ExecuteMarket
<1> DEFINE o == [state |-> "done", side |-> side, qty |-> DefaultQty, cum |-> n]
<1>5. /\ o \in ExchangeOrders /\ n \in Int /\ o.cum = n /\ o.side = side /\ o.state = "done"
      /\ status = "Filled" => o.cum > 0
  BY <1>2, <1>4, ConstantsAssumption DEF ExchangeOrders, ConstantsAssumption
<1>6. Record(Opener, o, n, <<Update(Opener, status, o)>>)
  BY <1>2, <1>4
<1> HIDE DEF o
<1>7. Update(Opener, status, o) \in OrderEvents
  BY <1>5, OpenerTyped, UpdateTyped
<1>8. /\ position' = position + Lots(side, n)
      /\ orders' = [orders EXCEPT ![Opener] = o]
      /\ updates' = updates \o <<Update(Opener, status, o)>>
  <2>1. PICK news \in Seq(OrderEvents) : news = <<Update(Opener, status, o)>>
    <3>1. \A u \in OrderEvents : <<u>> \in Seq(OrderEvents)
      OBVIOUS
    <3> QED
      BY <1>7, <3>1
  <2> QED
    BY <1>2, <1>5, <1>6, <2>1, OpeningRecord
<1>9. updates' = Append(updates, Update(Opener, status, o))
  BY <1>7, <1>8, Kinds, AppendIsConcat
<1>10. n = o.cum - Exposed /\ o.cum >= Exposed
  BY <1>2, <1>5
<1>11. newQueue' = Tail(newQueue) /\ UNCHANGED <<tmState, cancelQueue, results>>
  BY DEF ExecuteMarket
<1>12. Rest(cancelQueue', cancelQueue)
  BY <1>11, Kinds, RestOfSeq
<1>13. Opens(o)
  BY <1>1, <1>2, <1>5, <1>8, <1>9, <1>10, <1>11, <1>12 DEF Opens, TakenOf
<1> QED
  BY <1>5, <1>13

\* An opening order that rests is the limit order that opens the trade.
LEMMA LiveOpens ==
    ASSUME SysInv, LotsInv, NEW id \in OrderIds, orders[id].state = "live", ~IsReduceOnly(id)
    PROVE  /\ Opening /\ ~AtMarket /\ id = Opener /\ side \in Sides
           /\ orders[id].side = side /\ orders[id].qty = DefaultQty
           /\ orders[id].cum = Exposed
<1>1. OrderOk(id)
  BY DEF LotsInv, OrdersOk
<1>2. /\ Opening /\ ~AtMarket /\ id = Opener
      /\ orders[id].side = side /\ orders[id].qty = DefaultQty
  BY <1>1 DEF OrderOk, Opener
<1> QED
  BY <1>2, Kinds DEF LotsInv, PositionOk, Opening

LEMMA FillOpens ==
    ASSUME SysInv, LotsInv, UNCHANGED <<tmVars, results>>,
           NEW id \in OrderIds, orders[id].state = "live", ~IsReduceOnly(id),
           NEW n \in 1 .. DefaultQty - orders[id].cum, NEW filled,
           filled = [orders[id] EXCEPT !.cum = orders[id].cum + n,
                       !.state = IF orders[id].cum + n = DefaultQty THEN "done" ELSE "live"],
           Record(id, filled, n, IF orders[id].cum + n = DefaultQty
                                 THEN <<Update(id, "Filled", filled)>> ELSE <<>>)
    PROVE  \E o \in ExchangeOrders : Opens(o)
<1>1. /\ Opening /\ ~AtMarket /\ id = Opener /\ orders[id].side = side
      /\ orders[id].qty = DefaultQty /\ orders[id].cum = Exposed
  BY LiveOpens
<1>2. orders[id] \in ExchangeOrders
  BY Kinds
<1>3. /\ filled \in ExchangeOrders /\ filled.cum = Exposed + n /\ filled.side = side
      /\ filled.qty = DefaultQty /\ filled.cum > 0 /\ n \in Int
      /\ filled.state = IF orders[id].cum + n = DefaultQty THEN "done" ELSE "live"
  <2>1. orders[id].cum \in 0 .. DefaultQty /\ DefaultQty \in Nat
    BY <1>2, ConstantsAssumption DEF ExchangeOrders, ConstantsAssumption
  <2>2. orders[id].cum + n \in 0 .. DefaultQty /\ orders[id].cum + n > 0
    BY <2>1
  <2>3. /\ filled.side = side /\ filled.qty = DefaultQty
        /\ filled.state = IF orders[id].cum + n = DefaultQty THEN "done" ELSE "live"
        /\ filled.cum = orders[id].cum + n
    BY <1>1, <1>2 DEF ExchangeOrders
  <2>4. filled \in ExchangeOrders
    BY <1>2, <2>2 DEF ExchangeOrders
  <2> QED
    BY <1>1, <2>2, <2>3, <2>4
<1>4. Update(id, "Filled", filled) \in OrderEvents
  BY <1>3, UpdateTyped
<1> DEFINE full == orders[id].cum + n = DefaultQty
           news == IF full THEN <<Update(id, "Filled", filled)>> ELSE <<>>
<1>5. news \in Seq(OrderEvents)
  BY <1>4
<1>6. /\ position' = position + Lots(side, n)
      /\ orders' = [orders EXCEPT ![Opener] = filled]
      /\ updates' = updates \o news
  <2> HIDE DEF news
  <2>1. Record(Opener, filled, n, news)
    BY <1>1 DEF news
  <2> QED
    BY <1>1, <1>3, <1>5, <2>1, OpeningRecord
<1>7. IF full THEN updates' = Append(updates, Update(Opener, "Filled", filled)) ELSE updates' = updates
  <2>1. CASE full
    BY <1>1, <1>4, <1>6, <2>1, Kinds, AppendIsConcat
  <2>2. CASE ~full
    BY <1>6, <2>2, Kinds, ConcatEmptySeq
  <2> QED
    BY <2>1, <2>2
<1>8. n = filled.cum - Exposed /\ filled.cum >= Exposed
  BY <1>3, LotsTyped
<1>9. Rest(cancelQueue', cancelQueue) /\ UNCHANGED <<tmState, newQueue, results>>
  BY Kinds, RestOfSeq DEF tmVars, queues
<1>10. Opens(filled)
  BY <1>1, <1>3, <1>6, <1>7, <1>8, <1>9 DEF Opens
<1> QED
  BY <1>3, <1>10

LEMMA EndOpens ==
    ASSUME SysInv, LotsInv, UNCHANGED <<tmState, newQueue, position, results>>,
           Rest(cancelQueue', cancelQueue),
           NEW id \in OrderIds, End(id), ~IsReduceOnly(id)
    PROVE  \E o \in ExchangeOrders : Opens(o)
<1>1. orders[id].state = "live"
  BY DEF End
<1>2. /\ Opening /\ ~AtMarket /\ id = Opener /\ orders[id].side = side
      /\ orders[id].qty = DefaultQty /\ orders[id].cum = Exposed
  BY <1>1, LiveOpens
<1>3. PICK o : o = [orders[id] EXCEPT !.state = "done"]
  OBVIOUS
<1>4. o \in ExchangeOrders /\ o.state = "done" /\ o.cum = Exposed
  BY <1>2, <1>3, Kinds DEF ExchangeOrders
<1>5. orders' = [orders EXCEPT ![Opener] = o] /\ updates' = Append(updates, Update(Opener, "Cancelled", o))
  BY <1>2, <1>3 DEF End
<1>6. position' = position + Lots(side, o.cum - Exposed)
  BY <1>4, LotsTyped, Kinds DEF Lots
<1>7. o.cum >= Exposed
  BY <1>4, LotsTyped
<1>8. Opens(o)
  BY <1>1, <1>2, <1>4, <1>5, <1>6, <1>7 DEF Opens
<1> QED
  BY <1>4, <1>8

-----------------------------------------------------------------------------
(* The same for the orders that close it.                                  *)

\* A request to close that finds something to reduce is one of this trade.
LEMMA HeadCloses ==
    ASSUME SysInv, LotsInv, newQueue # <<>>, IsReduceOnly(Head(newQueue).id),
           Room(Head(newQueue).id, Head(newQueue).side, Head(newQueue).qty) # 0
    PROVE  /\ tradeIsOpen /\ closeReason # "None" /\ side \in Sides /\ position # 0
           /\ Head(newQueue).id[1] = tradeNumber /\ Head(newQueue).side = Opposite(side)
           /\ Head(newQueue).qty >= Exposed /\ Exposed > 0
           /\ Room(Head(newQueue).id, Head(newQueue).side, Head(newQueue).qty) = Exposed
<1> DEFINE r == Head(newQueue)
<1>1. r = newQueue[1] /\ 1 \in 1 .. Len(newQueue) /\ r.qty \in Nat /\ RequestOk(r) /\ r.side \in Sides
  BY HeadOk, Kinds, ConstantsAssumption DEF ConstantsAssumption
<1>2. position # 0
  BY <1>1, Kinds DEF Room, Lots, Opposite, Sides
<1>3. orders[Id("OpenLimit")].state # "none" /\ side \in Sides
  BY <1>2, Kinds DEF LotsInv, PositionOk
<1>4. r.id[1] = tradeNumber
  BY <1>1, <1>3 DEF LotsInv, QueueOk
<1>5. /\ tradeIsOpen /\ closeReason # "None" /\ r.side = Opposite(side) /\ r.qty >= Exposed
  BY <1>1, <1>3, <1>4 DEF RequestOk, Current, Sides, NoSide
<1>6. Exposed >= 0 /\ Exposed # 0 /\ Exposed \in Int
  BY <1>2, <1>3, <1>5, LotsMove, Kinds DEF LotsInv, PositionOk
<1>7. Room(r.id, r.side, r.qty) = Exposed
  <2>1. Lots(Opposite(r.side), position) = Exposed
    BY <1>3, <1>5, LotsMove, Kinds
  <2> QED
    BY <1>1, <1>5, <1>6, <2>1 DEF Room
<1> QED
  BY <1>2, <1>3, <1>4, <1>5, <1>6, <1>7

\* A resting order that closes is the limit order of this trade.
LEMMA LiveCloses ==
    ASSUME SysInv, LotsInv, NEW id \in OrderIds, orders[id].state = "live", IsReduceOnly(id)
    PROVE  /\ tradeIsOpen /\ closeReason # "None" /\ id = Id("CloseLimit") /\ id[1] = tradeNumber
           /\ side \in Sides /\ position # 0 /\ Exposed > 0
           /\ orders[id].side = Opposite(side) /\ orders[id].qty - orders[id].cum >= Exposed
           /\ Unreported = orders[id].cum
           /\ Room(id, orders[id].side, orders[id].qty - orders[id].cum) = Exposed
<1>1. OrderOk(id) /\ orders[id] \in ExchangeOrders /\ DefaultQty \in Nat
  BY Kinds, ConstantsAssumption DEF LotsInv, OrdersOk, ConstantsAssumption
<1>2. /\ tradeIsOpen /\ closeReason # "None" /\ id = Id("CloseLimit") /\ id[1] = tradeNumber
      /\ side \in Sides /\ position # 0
      /\ orders[id].side = Opposite(side) /\ orders[id].qty - orders[id].cum >= Exposed
  BY <1>1, Kinds DEF OrderOk, Current
<1>3. Exposed >= 0 /\ Exposed # 0 /\ Exposed \in Int
  BY <1>2, LotsMove, Kinds DEF LotsInv, PositionOk
<1>4. orders[id].qty - orders[id].cum \in Int
  BY <1>1 DEF ExchangeOrders
<1>5. Room(id, orders[id].side, orders[id].qty - orders[id].cum) = Exposed
  <2>1. Lots(Opposite(orders[id].side), position) = Exposed
    BY <1>2, LotsMove, Kinds
  <2> QED
    BY <1>2, <1>3, <1>4, <2>1 DEF Room
<1> QED
  BY <1>2, <1>3, <1>5 DEF Unreported

\* An order that is left as it was stays right while the position shrinks.
LEMMA OrderKept ==
    ASSUME SysInv, LotsInv, UNCHANGED tmState, Exposed' <= Exposed, Exposed' \in Int,
           NEW id \in OrderIds, IsReduceOnly(id), orders'[id] = orders[id],
           orders[id].state = "live" => position' # 0
    PROVE  OrderOk(id)'
<1>1. OrderOk(id) /\ orders[id] \in ExchangeOrders /\ Exposed \in Int
  BY Kinds, LotsTyped DEF LotsInv, OrdersOk
<1>2. UNCHANGED <<side, tradeIsOpen, closeReason, tradeNumber>>
      /\ \A role : Id(role)' = Id(role)
  BY DEF tmState, quantities, Id
<1>3. orders[id].qty - orders[id].cum \in Int
  BY <1>1, ConstantsAssumption DEF ExchangeOrders, ConstantsAssumption
<1>4. orders[id].qty - orders[id].cum >= Exposed => orders[id].qty - orders[id].cum >= Exposed'
  BY <1>1, <1>3
<1> QED
  BY <1>1, <1>2, <1>4 DEF OrderOk, Current, IsReduceOnly

\* An order that has ended is right.
LEMMA OrderEnded ==
    ASSUME NEW id \in OrderIds, id[1] <= tradeNumber', orders'[id].state = "done"
    PROVE  OrderOk(id)'
BY DEF OrderOk

LEMMA TypedAfter ==
    ASSUME SysInv'
    PROVE  Exposed' \in Int /\ Unreported' \in 0 .. DefaultQty
<1>1. /\ position' \in Int /\ orders' \in [OrderIds -> ExchangeOrders]
      /\ tradeNumber' \in 0 .. MaxTrades
  BY DEF SysInv, IInv, TypeOK, ExchangeTyped
<1>2. Id("CloseLimit")' \in OrderIds
  BY <1>1 DEF Id, OrderIds, OrderRole
<1> QED
  BY <1>1, <1>2, ConstantsAssumption
  DEF Exposed, Lots, Unreported, ExchangeOrders, ConstantsAssumption

\* What one more update tells is lots that are no longer exposed or unreported.
LEMMA LedgerTold ==
    ASSUME SysInv, SysInv', LotsInv, UNCHANGED tmState, NEW u \in OrderEvents,
           updates' = Append(updates, u), tradeIsOpen => 0 <= Exposed',
           Exposed' + Unreported' + Counted(u, tradeNumber) <= Exposed + Unreported
    PROVE  Ledger'
<1>1. SUFFICES ASSUME tradeIsOpen'
               PROVE  Tally(updates', tradeNumber', closePartiallyFilledQty',
                            openQty' - Exposed' - Unreported')
  BY DEF Ledger
<1>2. UNCHANGED <<tradeIsOpen, tradeNumber, openQty, closePartiallyFilledQty>>
  BY DEF tmState, quantities
<1>3. PICK k, from, q, e, v, e2, v2 :
          /\ k = tradeNumber /\ from = closePartiallyFilledQty /\ q = openQty
          /\ e = Exposed /\ v = Unreported /\ e2 = Exposed' /\ v2 = Unreported'
  OBVIOUS
<1>4. /\ from \in Int /\ q \in 0 .. DefaultQty /\ e \in Int /\ v \in Int
      /\ e2 \in Int /\ v2 \in Nat /\ DefaultQty \in Nat
  <2>1. Exposed' \in Int /\ Unreported' \in 0 .. DefaultQty
    BY TypedAfter
  <2> QED
    BY <1>3, <2>1, LotsTyped, Kinds, ConstantsAssumption DEF ConstantsAssumption
<1>5. Counted(u, k) \in 0 .. DefaultQty
  BY CountedBounds
<1>6. q - e - v \in Int /\ q - e2 - v2 \in Int
      /\ q - e - v + Counted(u, k) <= q - e2 - v2 /\ q - e2 - v2 <= DefaultQty
  <2>1. 0 <= e2 /\ e2 + v2 + Counted(u, k) <= e + v
    BY <1>1, <1>2, <1>3
  <2>2. PICK c \in 0 .. DefaultQty : c = Counted(u, k)
    BY <1>5
  <2>3. /\ q - e - v \in Int /\ q - e2 - v2 \in Int
        /\ q - e - v + c <= q - e2 - v2 /\ q - e2 - v2 <= DefaultQty
    BY <1>4, <2>1, <2>2
  <2> QED
    BY <2>2, <2>3
<1>7. Tally(updates, k, from, q - e - v)
  BY <1>1, <1>2, <1>3 DEF LotsInv, Ledger
<1>8. Tally(Append(updates, u), k, from, q - e2 - v2)
  BY <1>4, <1>6, <1>7, Kinds, TallyAppend
<1> QED
  BY <1>2, <1>3, <1>8

LEMMA LedgerUntold ==
    ASSUME SysInv, SysInv', LotsInv, UNCHANGED tmState, updates' = updates,
           Exposed' + Unreported' <= Exposed + Unreported
    PROVE  Ledger'
<1>1. SUFFICES ASSUME tradeIsOpen'
               PROVE  Tally(updates', tradeNumber', closePartiallyFilledQty',
                            openQty' - Exposed' - Unreported')
  BY DEF Ledger
<1>2. UNCHANGED <<tradeIsOpen, tradeNumber, openQty, closePartiallyFilledQty>>
  BY DEF tmState, quantities
<1>3. PICK k, from, q, e, v, e2, v2 :
          /\ k = tradeNumber /\ from = closePartiallyFilledQty /\ q = openQty
          /\ e = Exposed /\ v = Unreported /\ e2 = Exposed' /\ v2 = Unreported'
  OBVIOUS
<1>4. /\ from \in Int /\ q \in 0 .. DefaultQty /\ e \in Int /\ v \in Int
      /\ e2 \in Int /\ v2 \in Int
  <2>1. Exposed' \in Int /\ Unreported' \in 0 .. DefaultQty
    BY TypedAfter
  <2> QED
    BY <1>3, <2>1, LotsTyped, Kinds, ConstantsAssumption DEF ConstantsAssumption
<1>5. q - e - v \in Int /\ q - e2 - v2 \in Int /\ q - e - v <= q - e2 - v2
  <2>1. e2 + v2 <= e + v
    BY <1>3
  <2>2. q \in Int
    BY <1>4, ConstantsAssumption DEF ConstantsAssumption
  <2> QED
    BY <1>4, <2>1, <2>2
<1>6. Tally(updates, k, from, q - e - v)
  BY <1>1, <1>2, <1>3 DEF LotsInv, Ledger
<1>7. Tally(updates, k, from, q - e2 - v2)
  BY <1>4, <1>5, <1>6, Kinds, TallyWider
<1> QED
  BY <1>2, <1>3, <1>7

\* One update, or none, as news.
LEMMA OneTold ==
    ASSUME SysInv, NEW u \in OrderEvents, updates' = Append(updates, u),
           IsReduceOnly(u.id), UpdateOk(u)'
    PROVE  \E news \in Seq(OrderEvents) :
              /\ updates' = updates \o news
              /\ \A i \in 1 .. Len(news) : IsReduceOnly(news[i].id) /\ UpdateOk(news[i])'
<1>1. \A w \in OrderEvents : <<w>> \in Seq(OrderEvents) /\ Len(<<w>>) = 1 /\ <<w>>[1] = w
  OBVIOUS
<1>2. PICK news \in Seq(OrderEvents) : news = <<u>>
  BY <1>1
<1>3. updates' = updates \o news
  BY <1>2, Kinds, AppendIsConcat
<1>4. Len(news) = 1 /\ news[1] = u
  BY <1>1, <1>2
<1>5. IsReduceOnly(news[1].id) /\ UpdateOk(news[1])'
  BY <1>4
<1>6. \A i \in 1 .. Len(news) : i = 1
  BY <1>4
<1>7. \A i \in 1 .. Len(news) : IsReduceOnly(news[i].id) /\ UpdateOk(news[i])'
  BY <1>5, <1>6
<1> QED
  BY <1>3, <1>7

LEMMA NoneTold ==
    ASSUME SysInv, updates' = updates
    PROVE  \E news \in Seq(OrderEvents) :
              /\ updates' = updates \o news
              /\ \A i \in 1 .. Len(news) : IsReduceOnly(news[i].id) /\ UpdateOk(news[i])'
<1>1. PICK news \in Seq(OrderEvents) : news = <<>>
  <2>1. <<>> \in Seq(OrderEvents)
    OBVIOUS
  <2> QED
    BY <2>1
<1>2. updates' = updates \o news /\ Len(news) = 0
  BY <1>1, Kinds, ConcatEmptySeq
<1>3. \A i \in 1 .. Len(news) : FALSE
  BY <1>2
<1> QED
  BY <1>2, <1>3


LEMMA OneOrder ==
    ASSUME SysInv, LotsInv, UNCHANGED tmState, Exposed' <= Exposed, Exposed' \in Int,
           NEW id \in OrderIds, IsReduceOnly(id), NEW o \in ExchangeOrders,
           orders' = [orders EXCEPT ![id] = o], OrderOk(id)',
           \A i \in OrderIds :
              i # id /\ IsReduceOnly(i) /\ orders[i].state = "live" => position' # 0
    PROVE  \A i \in OrderIds : IF IsReduceOnly(i) THEN OrderOk(i)' ELSE orders'[i] = orders[i]
<1>1. TAKE i \in OrderIds
<1>2. CASE i = id
  BY <1>2
<1>3. CASE i # id
  <2>1. orders'[i] = orders[i]
    BY <1>3, Kinds
  <2>2. IsReduceOnly(i) => OrderOk(i)'
    BY <1>3, <2>1, OrderKept
  <2> QED
    BY <2>1, <2>2
<1> QED
  BY <1>2, <1>3

LEMMA UnreportedOf ==
    ASSUME SysInv, UNCHANGED tmState, NEW id \in OrderIds, NEW o \in ExchangeOrders,
           orders' = [orders EXCEPT ![id] = o]
    PROVE  Unreported' = IF id # Id("CloseLimit") THEN Unreported
                         ELSE IF o.state = "live" THEN o.cum ELSE 0
<1>1. Id("CloseLimit")' = Id("CloseLimit") /\ Id("CloseLimit") \in OrderIds
  BY IdTyped DEF tmState, quantities, Id, SysInv, IInv, OrderRole
<1> QED
  BY <1>1, Kinds DEF Unreported

LEMMA RejectCloses ==
    ASSUME SysInv, SysInv', LotsInv, RejectNew, IsReduceOnly(Head(newQueue).id)
    PROVE  Reduces
<1>1. PICK r : r = Head(newQueue)
  OBVIOUS
<1>2. PICK o : o = [state |-> "done", side |-> r.side, qty |-> r.qty, cum |-> 0]
  OBVIOUS
<1>3. /\ newQueue # <<>> /\ newQueue' = Tail(newQueue) /\ UNCHANGED <<tmState, cancelQueue, position>>
      /\ orders' = IF orders[r.id].state = "live" THEN orders ELSE [orders EXCEPT ![r.id] = o]
      /\ \/ results' = Append(results, [id |-> r.id, success |-> FALSE]) /\ UNCHANGED updates
         \/ /\ orders[r.id].state # "live"
            /\ updates' = Append(updates, Update(r.id, "Cancelled", o))
            /\ UNCHANGED results
  BY <1>1, <1>2 DEF RejectNew
<1>4. /\ r.id \in OrderIds /\ r.side \in Sides /\ r.qty \in 0 .. DefaultQty /\ RequestOk(r)
      /\ IsReduceOnly(r.id)
  BY <1>1, <1>3, HeadOk
<1>5. o \in ExchangeOrders /\ o.state = "done" /\ o.cum = 0 /\ r.id[1] <= tradeNumber
  BY <1>2, <1>4, ConstantsAssumption DEF ExchangeOrders, ConstantsAssumption, RequestOk
<1>6. UNCHANGED <<side, tradeNumber, tradeIsOpen>> /\ Exposed' = Exposed /\ Exposed \in Int
      /\ Exposed' \in Int /\ Exposed' <= Exposed
  BY <1>3, LotsTyped DEF tmState, quantities, Exposed
<1>7. PICK id \in OrderIds : id = r.id
  BY <1>4
<1>8. \A i \in OrderIds : IF IsReduceOnly(i) THEN OrderOk(i)' ELSE orders'[i] = orders[i]
  <2>1. \A i \in OrderIds : IsReduceOnly(i) /\ orders[i].state = "live" => position' # 0
    BY <1>3 DEF LotsInv, OrdersOk, OrderOk
  <2>2. CASE orders[id].state = "live"
    <3>1. \A i \in OrderIds : orders'[i] = orders[i]
      BY <1>3, <1>7, <2>2
    <3> QED
      BY <1>3, <1>6, <2>1, <3>1, OrderKept
  <2>3. CASE orders[id].state # "live"
    <3>1. orders' = [orders EXCEPT ![id] = o] /\ orders'[id] = o
      BY <1>3, <1>7, <2>3, Kinds
    <3>2. OrderOk(id)'
      BY <1>5, <1>6, <1>7, <3>1, OrderEnded
    <3> QED
      BY <1>3, <1>4, <1>5, <1>6, <1>7, <2>1, <3>1, <3>2, OneOrder
  <2> QED
    BY <2>2, <2>3
<1>9. Unreported' <= Unreported /\ Unreported \in Nat /\ Unreported' \in Nat
  <2>0. Unreported \in Nat /\ Unreported' \in Nat
    BY LotsTyped, TypedAfter, ConstantsAssumption DEF ConstantsAssumption
  <2>1. CASE orders[id].state = "live"
    BY <1>3, <1>7, <2>0, <2>1 DEF Unreported, Id, tmState, quantities
  <2>2. CASE orders[id].state # "live"
    <3>1. orders' = [orders EXCEPT ![id] = o]
      BY <1>3, <1>7, <2>2
    <3>2. Unreported' = Unreported \/ Unreported' = 0
      BY <1>3, <1>5, <3>1, UnreportedOf
    <3> QED
      BY <2>0, <3>2
  <2> QED
    BY <2>0, <2>1, <2>2
<1>13. Exposed' + Unreported' <= Exposed + Unreported /\ Exposed' + Unreported' \in Int
  <2>1. PICK e \in Int, v \in Nat, v2 \in Nat : e = Exposed /\ v = Unreported /\ v2 = Unreported'
    BY <1>6, <1>9
  <2>2. v2 <= v
    BY <1>9, <2>1
  <2>3. e + v2 <= e + v /\ e + v2 \in Int
    BY <2>2
  <2> QED
    BY <1>6, <2>1, <2>3
<1>10. /\ Rest(cancelQueue', cancelQueue)
       /\ \/ UNCHANGED results
          \/ \E a \in Results : /\ IsReduceOnly(a.id) /\ a.id[1] <= tradeNumber
                                /\ results' = Append(results, a)
  <2>1. PICK a : a = [id |-> r.id, success |-> FALSE]
    OBVIOUS
  <2>2. a \in Results /\ a.id = r.id
    BY <1>4, <2>1 DEF Results
  <2> QED
    BY <1>3, <1>4, <1>5, <2>1, <2>2, Kinds, RestOfSeq
<1>11. CASE updates' = updates
  <2>1. Ledger'
    BY <1>3, <1>11, <1>13, LedgerUntold
  <2> QED
    BY <1>3, <1>8, <1>10, <1>11, <2>1, NoneTold DEF Reduces
<1>12. CASE updates' = Append(updates, Update(id, "Cancelled", o))
  <2>1. PICK u : u = Update(id, "Cancelled", o)
    OBVIOUS
  <2>2. u \in OrderEvents /\ u.id = id /\ u.status = "Cancelled" /\ u.cum = 0
    BY <1>5, <2>1, UpdateTyped DEF Update
  <2>3. IsReduceOnly(u.id) /\ UpdateOk(u)'
    <3>1. Current(id) => tradeIsOpen
      BY <1>4, <1>7 DEF RequestOk
    <3> QED
      BY <1>4, <1>5, <1>6, <1>7, <2>2, <3>1 DEF UpdateOk, Current, IsReduceOnly
  <2>4. Counted(u, tradeNumber) = 0 /\ (tradeIsOpen => 0 <= Exposed')
    BY <1>6, <2>2 DEF Counted, LotsInv, PositionOk
  <2>5. Exposed' + Unreported' + Counted(u, tradeNumber) <= Exposed + Unreported
    BY <1>13, <2>4
  <2>6. Ledger'
    BY <1>3, <1>12, <2>1, <2>2, <2>4, <2>5, LedgerTold
  <2> QED
    BY <1>3, <1>8, <1>10, <1>12, <2>1, <2>2, <2>3, <2>6, OneTold DEF Reduces
<1> QED
  BY <1>3, <1>7, <1>11, <1>12

LEMMA AcceptCloses ==
    ASSUME SysInv, SysInv', LotsInv, AcceptLimit, IsReduceOnly(Head(newQueue).id)
    PROVE  Reduces
<1>1. PICK r : r = Head(newQueue)
  OBVIOUS
<1>2. PICK o : o = [state |-> "live", side |-> r.side, qty |-> r.qty, cum |-> 0]
  OBVIOUS
<1>3. /\ newQueue # <<>> /\ newQueue' = Tail(newQueue)
      /\ UNCHANGED <<tmState, cancelQueue, position, results, updates>>
      /\ orders' = [orders EXCEPT ![r.id] = o]
      /\ r.id[2] \in {"OpenLimit", "CloseLimit"} /\ orders[r.id].state # "live"
      /\ Room(r.id, r.side, r.qty) # 0
  BY <1>1, <1>2 DEF AcceptLimit, channels, MustReject
<1>4. /\ r.id \in OrderIds /\ r.side \in Sides /\ r.qty \in 0 .. DefaultQty
      /\ IsReduceOnly(r.id)
  BY <1>1, <1>3, HeadOk
<1>5. /\ tradeIsOpen /\ closeReason # "None" /\ side \in Sides /\ position # 0
      /\ r.id[1] = tradeNumber /\ r.side = Opposite(side) /\ r.qty >= Exposed
  BY <1>1, <1>3, <1>4, HeadCloses
<1>6. /\ UNCHANGED <<side, tradeNumber, tradeIsOpen, closeReason>> /\ \A role : Id(role)' = Id(role)
      /\ Exposed' = Exposed /\ Exposed \in Int /\ Exposed' \in Int /\ Exposed' <= Exposed
  BY <1>3, LotsTyped DEF tmState, quantities, Exposed, Id
<1>7. o \in ExchangeOrders /\ o.state = "live" /\ o.cum = 0 /\ o.side = r.side /\ o.qty = r.qty
  BY <1>2, <1>4, ConstantsAssumption DEF ExchangeOrders, ConstantsAssumption
<1>8. PICK id \in OrderIds : id = r.id
  BY <1>4
<1>9. id = Id("CloseLimit")
  BY <1>3, <1>4, <1>5, <1>8, IdParts DEF IsReduceOnly
<1>10. orders' = [orders EXCEPT ![id] = o] /\ orders'[id] = o
  BY <1>3, <1>8, Kinds
<1>11. OrderOk(id)'
  <2>1. o.qty - o.cum >= Exposed'
    BY <1>4, <1>5, <1>6, <1>7, ConstantsAssumption DEF ConstantsAssumption
  <2>2. Current(id)' /\ id[1] <= tradeNumber'
    BY <1>5, <1>6, <1>8, Kinds DEF Current, Sides, NoSide
  <2>3. Opposite(side)' = Opposite(side) /\ position' # 0 /\ Id("CloseLimit")' = id
    BY <1>3, <1>5, <1>6, <1>9
  <2> QED
    BY <1>3, <1>4, <1>5, <1>6, <1>7, <1>8, <1>9, <1>10, <2>1, <2>2, <2>3 DEF OrderOk, IsReduceOnly
<1>12. \A i \in OrderIds : IF IsReduceOnly(i) THEN OrderOk(i)' ELSE orders'[i] = orders[i]
  BY <1>3, <1>4, <1>5, <1>6, <1>7, <1>8, <1>10, <1>11, OneOrder
<1>13. Unreported' = 0 /\ Unreported \in 0 .. DefaultQty
  <2>1. UNCHANGED tmState /\ o \in ExchangeOrders /\ orders' = [orders EXCEPT ![id] = o]
    BY <1>3, <1>7, <1>10
  <2>2. Unreported' = IF id # Id("CloseLimit") THEN Unreported
                      ELSE IF o.state = "live" THEN o.cum ELSE 0
    BY <2>1, UnreportedOf
  <2> QED
    BY <1>7, <1>9, <2>2, LotsTyped
<1>14. Ledger'
  BY <1>3, <1>6, <1>13, LedgerUntold, ConstantsAssumption DEF ConstantsAssumption
<1>15. Rest(cancelQueue', cancelQueue)
  BY <1>3, Kinds, RestOfSeq
<1> QED
  BY <1>3, <1>12, <1>14, <1>15, NoneTold DEF Reduces

LEMMA ClosingShrinks ==
    ASSUME SysInv, side \in Sides, UNCHANGED tmState, NEW n \in Int,
           position' = position + Lots(Opposite(side), n)
    PROVE  /\ Exposed' = Exposed - n
           /\ position' = 0 <=> n = Exposed
           /\ position + Lots(Opposite(side), n) = 0 <=> n = Exposed
<1>1. side' = side /\ position \in Int
  BY Kinds DEF tmState
<1>2. Lots(side, position + Lots(Opposite(side), n)) = Exposed - n /\ Exposed \in Int
  BY <1>1, LotsMove
<1>3. Exposed' = Exposed - n
  BY <1>1, <1>2 DEF Exposed
<1>4. Lots(side, position + Lots(Opposite(side), n)) = 0 <=> position + Lots(Opposite(side), n) = 0
  BY <1>1 DEF Lots
<1> QED
  BY <1>2, <1>3, <1>4

LEMMA ClosingUpdate ==
    ASSUME UNCHANGED tmState, tradeIsOpen, NEW u, IsReduceOnly(u.id), u.id[1] = tradeNumber,
           tradeNumber \in Int, u.status = "Filled" => u.cum > 0 /\ position' = 0
    PROVE  UpdateOk(u)'
<1>1. UNCHANGED <<tradeNumber, tradeIsOpen>>
  BY DEF tmState, quantities
<1> QED
  BY <1>1 DEF UpdateOk, IsReduceOnly

LEMMA EndCloses ==
    ASSUME SysInv, SysInv', LotsInv, UNCHANGED <<tmState, newQueue, position, results>>,
           Rest(cancelQueue', cancelQueue),
           NEW id \in OrderIds, End(id), IsReduceOnly(id)
    PROVE  Reduces
<1>1. orders[id].state = "live"
  BY DEF End
<1>2. /\ tradeIsOpen /\ id = Id("CloseLimit") /\ id[1] = tradeNumber
      /\ Exposed > 0 /\ Unreported = orders[id].cum
  BY <1>1, LiveCloses
<1>3. PICK o : o = [orders[id] EXCEPT !.state = "done"]
  OBVIOUS
<1>4. o \in ExchangeOrders /\ o.state = "done" /\ o.cum = Unreported
  BY <1>2, <1>3, Kinds DEF ExchangeOrders
<1>5. orders' = [orders EXCEPT ![id] = o] /\ orders'[id] = o
      /\ updates' = Append(updates, Update(id, "Cancelled", o))
  BY <1>3, Kinds DEF End
<1>6. UNCHANGED <<side, tradeNumber>> /\ Exposed' = Exposed /\ Exposed \in Int /\ Exposed' \in Int
      /\ Exposed' <= Exposed
  BY LotsTyped DEF tmState, quantities, Exposed
<1>7. \A i \in OrderIds : IF IsReduceOnly(i) THEN OrderOk(i)' ELSE orders'[i] = orders[i]
  <2>1. OrderOk(id)'
    BY <1>2, <1>4, <1>5, <1>6, Kinds, OrderEnded
  <2>2. \A i \in OrderIds : IsReduceOnly(i) /\ orders[i].state = "live" => position' # 0
    BY DEF LotsInv, OrdersOk, OrderOk
  <2> QED
    BY <1>4, <1>5, <1>6, <2>1, <2>2, OneOrder
<1>8. PICK u : u = Update(id, "Cancelled", o)
  OBVIOUS
<1>9. u \in OrderEvents /\ u.id = id /\ u.status = "Cancelled" /\ u.cum = o.cum
  BY <1>4, <1>8, UpdateTyped DEF Update
<1>10. UpdateOk(u)'
  BY <1>2, <1>9, Kinds, ClosingUpdate
<1>11. Unreported' = 0 /\ Counted(u, tradeNumber) = Unreported
  BY <1>2, <1>4, <1>5, <1>9, UnreportedOf DEF Counted
<1>12. Ledger'
  <2>1. PICK e \in Int, v \in Int : e = Exposed /\ v = Unreported
    BY LotsTyped, ConstantsAssumption DEF ConstantsAssumption
  <2>2. e + 0 + v <= e + v
    OBVIOUS
  <2>3. Exposed' + Unreported' + Counted(u, tradeNumber) <= Exposed + Unreported
    BY <1>6, <1>11, <2>1, <2>2
  <2> QED
    BY <1>2, <1>5, <1>6, <1>8, <1>9, <2>3, LedgerTold
<1> QED
  BY <1>5, <1>7, <1>8, <1>9, <1>10, <1>12, OneTold DEF Reduces

LEMMA FillCloses ==
    ASSUME SysInv, SysInv', LotsInv, UNCHANGED <<tmVars, results>>,
           NEW id \in OrderIds, orders[id].state = "live", IsReduceOnly(id),
           NEW n \in 1 .. Exposed, NEW filled,
           filled = [orders[id] EXCEPT !.cum = orders[id].cum + n,
                       !.state = IF orders[id].cum + n = orders[id].qty THEN "done" ELSE "live"],
           Record(id, filled, n, IF orders[id].cum + n = orders[id].qty
                                 THEN <<Update(id, "Filled", filled)>> ELSE <<>>)
    PROVE  Reduces
<1>1. /\ tradeIsOpen /\ closeReason # "None" /\ id = Id("CloseLimit") /\ id[1] = tradeNumber
      /\ side \in Sides /\ position # 0 /\ Exposed > 0
      /\ orders[id].side = Opposite(side) /\ orders[id].qty - orders[id].cum >= Exposed
      /\ Unreported = orders[id].cum
  BY LiveCloses
<1>2. PICK e, q, c : e = Exposed /\ q = orders[id].qty /\ c = orders[id].cum
  OBVIOUS
<1>3. /\ DefaultQty \in Nat /\ orders[id] \in ExchangeOrders
      /\ e \in Int /\ e > 0 /\ n \in 1 .. e /\ q \in 0 .. DefaultQty /\ c \in 0 .. DefaultQty /\ q - c >= e
  <2>1. orders[id] \in ExchangeOrders
    BY Kinds
  <2> QED
    BY <1>1, <1>2, <2>1, LotsTyped, ConstantsAssumption DEF ExchangeOrders, ConstantsAssumption
<1>4. n \in Int /\ c + n \in 0 .. DefaultQty /\ (c + n = q => n = e)
  BY <1>3
<1>5. /\ filled \in ExchangeOrders /\ filled.cum = c + n /\ filled.side = Opposite(side)
      /\ filled.qty = q /\ filled.state = IF c + n = q THEN "done" ELSE "live"
  BY <1>1, <1>2, <1>3, <1>4 DEF ExchangeOrders
<1>6. UNCHANGED tmState /\ UNCHANGED <<side, tradeNumber, tradeIsOpen, closeReason, newQueue, cancelQueue>>
      /\ \A role : Id(role)' = Id(role)
  BY DEF tmVars, tmState, queues, quantities, Id
<1>7. position' = position + Lots(Opposite(side), n)
  BY <1>5 DEF Record
<1>8. /\ Exposed' = e - n /\ e - n \in Int /\ e - n <= e /\ 0 <= e - n
      /\ position' = 0 <=> n = e
      /\ position + Lots(Opposite(side), n) = 0 <=> n = e
  BY <1>1, <1>2, <1>3, <1>4, <1>6, <1>7, ClosingShrinks
<1>9. \A i \in OrderIds : IsReduceOnly(i) /\ orders[i].state = "live" => i = id
  BY <1>1, LiveCloses
<1>10. \A i \in OrderIds : i # id => [orders EXCEPT ![id] = filled][i] = orders[i]
  BY Kinds
<1>11. [orders EXCEPT ![id] = filled][id] = filled
  BY Kinds
<1>12. Rest(cancelQueue', cancelQueue) /\ UNCHANGED newQueue /\ UNCHANGED results
  BY <1>6, Kinds, RestOfSeq
<1>13. ExchangeTyped /\ id[1] <= tradeNumber'
  BY <1>1, <1>6, Kinds DEF SysInv
<1>14. tradeIsOpen /\ closeReason # "None" /\ position # 0 /\ 0 <= Exposed' /\ Exposed' <= Exposed
  BY <1>1, <1>2, <1>8
<1>15. CASE c + n = q
  <2>1. filled.state = "done" /\ n = e
    BY <1>4, <1>5, <1>15
  <2>2. PICK u : u = Update(id, "Filled", filled)
    OBVIOUS
  <2>3. u \in OrderEvents /\ u.id = id /\ u.cum = c + n
    BY <1>5, <2>2, UpdateTyped DEF Update
  <2>4. PICK news \in Seq(OrderEvents) : news = <<u>>
    <3>1. \A w \in OrderEvents : <<w>> \in Seq(OrderEvents)
      OBVIOUS
    <3> QED
      BY <2>3, <3>1
  <2>5. Record(id, filled, n, news)
    BY <1>2, <1>15, <2>2, <2>4
  <2>6. \A i \in OrderIds : IsReduceOnly(i) => [orders EXCEPT ![id] = filled][i].state # "live"
    BY <1>9, <1>10, <1>11, <2>1
  <2>7. orders' = [orders EXCEPT ![id] = filled] /\ updates' = updates \o news
    <3>1. NoneEnds(Recorded(id, filled), position + Lots(filled.side, n))
      BY <2>6 DEF NoneEnds, Recorded
    <3>2. ExchangeTyped /\ filled \in ExchangeOrders /\ n \in Int
      BY <1>4, <1>5, <1>13
    <3> QED
      BY <2>5, <3>1, <3>2, RecordAlone
  <2>8. updates' = Append(updates, u)
    BY <2>3, <2>4, <2>7, Kinds, AppendIsConcat
  <2>9. OrderOk(id)'
    BY <1>11, <1>13, <2>1, <2>7, OrderEnded
  <2>10. \A i \in OrderIds : IF IsReduceOnly(i) THEN OrderOk(i)' ELSE orders'[i] = orders[i]
    BY <1>2, <1>5, <1>6, <1>8, <1>9, <2>7, <2>9, OneOrder
  <2>11. UpdateOk(u)'
    <3>1. u.cum > 0 /\ position' = 0
      BY <1>3, <1>8, <2>1, <2>3
    <3> QED
      BY <1>1, <1>6, <2>3, <3>1, Kinds, ClosingUpdate
  <2>12. Unreported' = 0 /\ Counted(u, tradeNumber) = c + n
    BY <1>1, <1>5, <1>6, <2>1, <2>3, <2>7, UnreportedOf DEF Counted
  <2>13. Ledger'
    <3>1. (e - n) + 0 + (c + n) <= e + c
      BY <1>3, <1>4
    <3>2. Exposed' + Unreported' + Counted(u, tradeNumber) <= Exposed + Unreported
      BY <1>1, <1>2, <1>8, <2>12, <3>1
    <3> QED
      BY <1>6, <1>8, <2>3, <2>8, <3>2, LedgerTold
  <2> QED
    BY <1>6, <1>12, <1>14, <2>3, <2>8, <2>10, <2>11, <2>13, OneTold DEF Reduces
<1>16. CASE c + n # q /\ n = e
  <2>1. filled.state = "live" /\ position + Lots(Opposite(side), n) = 0
    BY <1>5, <1>8, <1>16
  <2>2. PICK last : last = [filled EXCEPT !.state = "done"]
    OBVIOUS
  <2>3. last \in ExchangeOrders /\ last.state = "done" /\ last.cum = c + n
    BY <1>5, <2>2 DEF ExchangeOrders
  <2>4. PICK u : u = Update(id, "Cancelled", filled)
    OBVIOUS
  <2>5. u \in OrderEvents /\ u.id = id /\ u.cum = c + n /\ u.status = "Cancelled"
    BY <1>5, <2>4, UpdateTyped DEF Update
  <2>6. PICK news \in Seq(OrderEvents) : news = <<>>
    <3>1. <<>> \in Seq(OrderEvents)
      OBVIOUS
    <3> QED
      BY <3>1
  <2>7. Record(id, filled, n, news)
    BY <1>2, <1>16, <2>6
  <2>8. /\ orders' = [[orders EXCEPT ![id] = filled] EXCEPT ![id] = [filled EXCEPT !.state = "done"]]
        /\ updates' = Append(updates \o news, Update(id, "Cancelled", filled))
    <3>1. \A i \in OrderIds : IsReduceOnly(i) /\ Recorded(id, filled)[i].state = "live" => i = id
      BY <1>9, <1>10 DEF Recorded
    <3>2. position + Lots(filled.side, n) = 0
      BY <1>5, <2>1
    <3>3. OnlyRests(id, Recorded(id, filled))
      BY <1>11, <2>1, <3>1 DEF Recorded, OnlyRests
    <3>4. ExchangeTyped /\ filled \in ExchangeOrders /\ n \in Int
      BY <1>4, <1>5, <1>13
    <3>5. /\ orders' = WithoutRest(id, Recorded(id, filled))
          /\ updates' = Append(updates \o news, Update(id, "Cancelled", Recorded(id, filled)[id]))
      BY <2>7, <3>2, <3>3, <3>4, RecordDrops
    <3> QED
      BY <1>11, <3>5 DEF Recorded, WithoutRest
  <2>9. orders' = [orders EXCEPT ![id] = last] /\ orders'[id] = last /\ updates' = Append(updates, u)
    <3>1. updates \o news = updates
      BY <2>6, Kinds, ConcatEmptySeq
    <3> QED
      BY <2>2, <2>4, <2>8, <3>1, Kinds
  <2>10. OrderOk(id)'
    BY <1>13, <2>3, <2>9, OrderEnded
  <2>11. \A i \in OrderIds : IF IsReduceOnly(i) THEN OrderOk(i)' ELSE orders'[i] = orders[i]
    BY <1>2, <1>6, <1>8, <1>9, <2>3, <2>9, <2>10, OneOrder
  <2>12. UpdateOk(u)'
    BY <1>1, <1>6, <2>5, Kinds, ClosingUpdate
  <2>13. Unreported' = 0 /\ Counted(u, tradeNumber) = c + n
    BY <1>1, <1>6, <2>3, <2>5, <2>9, UnreportedOf DEF Counted
  <2>14. Ledger'
    <3>1. (e - n) + 0 + (c + n) <= e + c
      BY <1>3, <1>4
    <3>2. Exposed' + Unreported' + Counted(u, tradeNumber) <= Exposed + Unreported
      BY <1>1, <1>2, <1>8, <2>13, <3>1
    <3> QED
      BY <1>6, <1>8, <2>5, <2>9, <3>2, LedgerTold
  <2> QED
    BY <1>6, <1>12, <1>14, <2>5, <2>9, <2>11, <2>12, <2>14, OneTold DEF Reduces
<1>17. CASE c + n # q /\ n # e
  <2>1. filled.state = "live" /\ position + Lots(Opposite(side), n) # 0 /\ position' # 0
    BY <1>5, <1>8, <1>17
  <2>2. PICK news \in Seq(OrderEvents) : news = <<>>
    <3>1. <<>> \in Seq(OrderEvents)
      OBVIOUS
    <3> QED
      BY <3>1
  <2>3. Record(id, filled, n, news)
    BY <1>2, <1>17, <2>2
  <2>4. orders' = [orders EXCEPT ![id] = filled] /\ updates' = updates \o news
    <3>1. NoneEnds(Recorded(id, filled), position + Lots(filled.side, n))
      BY <1>5, <2>1 DEF NoneEnds, Recorded
    <3>2. ExchangeTyped /\ filled \in ExchangeOrders /\ n \in Int
      BY <1>4, <1>5, <1>13
    <3> QED
      BY <2>3, <3>1, <3>2, RecordAlone
  <2>5. updates' = updates
    BY <2>2, <2>4, Kinds, ConcatEmptySeq
  <2>6. OrderOk(id)'
    <3>1. filled.qty - filled.cum >= Exposed'
      BY <1>3, <1>4, <1>5, <1>8
    <3>2. orders'[id] = filled
      BY <1>11, <2>4
    <3> QED
      BY <1>1, <1>5, <1>6, <1>13, <2>1, <3>1, <3>2 DEF OrderOk, Current, IsReduceOnly, Sides, NoSide
  <2>7. \A i \in OrderIds : IF IsReduceOnly(i) THEN OrderOk(i)' ELSE orders'[i] = orders[i]
    BY <1>2, <1>5, <1>6, <1>8, <2>1, <2>4, <2>6, OneOrder
  <2>8. Unreported' = c + n
    BY <1>1, <1>5, <1>6, <2>1, <2>4, UnreportedOf
  <2>9. Ledger'
    <3>1. (e - n) + (c + n) <= e + c
      BY <1>3, <1>4
    <3>2. Exposed' + Unreported' <= Exposed + Unreported
      BY <1>1, <1>2, <1>8, <2>8, <3>1
    <3> QED
      BY <1>6, <2>5, <3>2, LedgerUntold
  <2> QED
    BY <1>6, <1>12, <1>14, <2>5, <2>7, <2>9, NoneTold DEF Reduces
<1> QED
  BY <1>15, <1>16, <1>17

LEMMA ExecuteCloses ==
    ASSUME SysInv, SysInv', LotsInv, ExecuteMarket, IsReduceOnly(Head(newQueue).id)
    PROVE  Reduces
<1>1. PICK r, e : r = Head(newQueue) /\ e = Exposed
  OBVIOUS
<1>2. /\ newQueue # <<>> /\ newQueue' = Tail(newQueue) /\ UNCHANGED <<tmState, cancelQueue, results>>
      /\ r.id[2] \in {"OpenMarket", "CloseMarket"} /\ Room(r.id, r.side, r.qty) # 0
  BY <1>1 DEF ExecuteMarket, MustReject
<1>3. /\ r.id \in OrderIds /\ r.side \in Sides /\ r.qty \in 0 .. DefaultQty
      /\ IsReduceOnly(r.id)
  BY <1>1, <1>2, HeadOk
<1>4. /\ tradeIsOpen /\ closeReason # "None" /\ side \in Sides /\ position # 0
      /\ r.id[1] = tradeNumber /\ r.side = Opposite(side) /\ r.qty >= e /\ e > 0
      /\ Room(r.id, r.side, r.qty) = e /\ e \in Int
  BY <1>1, <1>2, <1>3, HeadCloses, LotsTyped
<1>5. PICK n \in 0 .. e, status \in {"Filled", "Cancelled"} :
          /\ status = "Filled" => n = e
          /\ Record(r.id, [state |-> "done", side |-> r.side, qty |-> r.qty, cum |-> n], n,
                    <<Update(r.id, status, [state |-> "done", side |-> r.side, qty |-> r.qty, cum |-> n])>>)
  BY <1>1, <1>4 DEF ExecuteMarket
<1>6. PICK id \in OrderIds, c \in OrderIds : id = r.id /\ c = Id("CloseLimit")
  BY <1>3, IdTyped DEF SysInv, IInv, OrderRole
<1>7. PICK o : o = [state |-> "done", side |-> r.side, qty |-> r.qty, cum |-> n]
  OBVIOUS
<1>8. /\ DefaultQty \in Nat /\ n \in Int /\ n \in 0 .. DefaultQty
      /\ o \in ExchangeOrders /\ o.state = "done" /\ o.side = Opposite(side) /\ o.cum = n
  <2>1. DefaultQty \in Nat
    BY ConstantsAssumption DEF ConstantsAssumption
  <2>2. n \in 0 .. DefaultQty
    BY <1>3, <1>4, <1>5, <2>1
  <2> QED
    BY <1>3, <1>4, <1>7, <2>1, <2>2 DEF ExchangeOrders
<1>9. PICK u : u = Update(id, status, o)
  OBVIOUS
<1>10. u \in OrderEvents /\ u.id = id /\ u.status = status /\ u.cum = n
  BY <1>8, <1>9, UpdateTyped DEF Update
<1>11. PICK news \in Seq(OrderEvents) : news = <<u>>
  <2>1. \A w \in OrderEvents : <<w>> \in Seq(OrderEvents) /\ Len(<<w>>) = 1 /\ <<w>>[1] = w
    OBVIOUS
  <2> QED
    BY <1>10, <2>1
<1>12. Record(id, o, n, news)
  BY <1>5, <1>6, <1>7, <1>9, <1>11
<1>13. /\ UNCHANGED <<side, tradeNumber, tradeIsOpen, closeReason>> /\ \A role : Id(role)' = Id(role)
       /\ IsReduceOnly(id) /\ IsReduceOnly(c) /\ id # c /\ id[1] = tradeNumber /\ c[1] = tradeNumber
  BY <1>2, <1>3, <1>4, <1>6 DEF tmState, quantities, Id, IsReduceOnly
<1>14. position' = position + Lots(Opposite(side), n)
  BY <1>8, <1>12 DEF Record
<1>15. /\ Exposed' = e - n /\ e - n \in Int /\ e - n <= e /\ 0 <= e - n
       /\ position' = 0 <=> n = e
       /\ position + Lots(Opposite(side), n) = 0 <=> n = e
  BY <1>1, <1>2, <1>4, <1>5, <1>8, <1>14, ClosingShrinks
<1>16. \A i \in OrderIds : IsReduceOnly(i) /\ orders[i].state = "live" => i = c
  BY <1>6, LiveCloses
<1>17. \A i \in OrderIds : i # id => Recorded(id, o)[i] = orders[i]
  BY Kinds DEF Recorded
<1>18. Recorded(id, o)[id] = o /\ Recorded(id, o) \in [OrderIds -> ExchangeOrders]
  BY <1>8, Kinds DEF Recorded
<1>19. tradeIsOpen /\ closeReason # "None" /\ position # 0 /\ 0 <= Exposed' /\ Exposed' <= Exposed
  BY <1>1, <1>4, <1>15
<1>20. Rest(cancelQueue', cancelQueue) /\ ExchangeTyped /\ id[1] <= tradeNumber'
  BY <1>2, <1>13, Kinds, RestOfSeq DEF SysInv
<1>21. UpdateOk(u)'
  <2>1. u.status = "Filled" => u.cum > 0 /\ position' = 0
    BY <1>4, <1>5, <1>10, <1>15
  <2> QED
    <3>1. IsReduceOnly(u.id) /\ u.id[1] = tradeNumber /\ tradeNumber \in Int /\ UNCHANGED tmState
      BY <1>2, <1>10, <1>13, Kinds
    <3> QED
      BY <1>4, <2>1, <3>1, ClosingUpdate
<1>22. Counted(u, tradeNumber) = n
  BY <1>10, <1>13 DEF Counted
<1>23. CASE ~(n = e /\ orders[c].state = "live")
  <2>1. orders' = [orders EXCEPT ![id] = o] /\ updates' = updates \o news
    <3>1. NoneEnds(Recorded(id, o), position + Lots(o.side, n))
      BY <1>8, <1>15, <1>16, <1>17, <1>18, <1>23 DEF NoneEnds, Recorded
    <3> QED
      BY <1>8, <1>12, <1>20, <3>1, RecordAlone
  <2>2. updates' = Append(updates, u)
    BY <1>10, <1>11, <2>1, Kinds, AppendIsConcat
  <2>3. OrderOk(id)'
    BY <1>8, <1>18, <1>20, <2>1, OrderEnded DEF Recorded
  <2>4. \A i \in OrderIds : IF IsReduceOnly(i) THEN OrderOk(i)' ELSE orders'[i] = orders[i]
    <3>1. \A i \in OrderIds : i # id /\ IsReduceOnly(i) /\ orders[i].state = "live" => position' # 0
      BY <1>15, <1>16, <1>23
    <3> QED
      BY <1>1, <1>2, <1>8, <1>13, <1>15, <2>1, <2>3, <3>1, OneOrder
  <2>5. Unreported' = Unreported
    BY <1>2, <1>6, <1>8, <1>13, <2>1, UnreportedOf
  <2>6. Ledger'
    <3>1. PICK v \in Int : v = Unreported
      BY LotsTyped, ConstantsAssumption DEF ConstantsAssumption
    <3>2. (e - n) + v + n <= e + v
      BY <1>4, <1>8
    <3>3. Exposed' + Unreported' + Counted(u, tradeNumber) <= Exposed + Unreported
      BY <1>1, <1>15, <1>22, <2>5, <3>1, <3>2
    <3> QED
      BY <1>2, <1>10, <1>19, <2>2, <3>3, LedgerTold
  <2> QED
    BY <1>2, <1>10, <1>13, <1>19, <1>20, <1>21, <2>2, <2>4, <2>6, OneTold DEF Reduces
<1>24. CASE n = e /\ orders[c].state = "live"
  <2>1. /\ orders' = WithoutRest(c, Recorded(id, o))
        /\ updates' = Append(updates \o news, Update(c, "Cancelled", Recorded(id, o)[c]))
    <3>1. OnlyRests(c, Recorded(id, o))
      BY <1>8, <1>13, <1>16, <1>17, <1>18, <1>24 DEF OnlyRests
    <3>2. position + Lots(o.side, n) = 0
      BY <1>8, <1>15, <1>24
    <3> QED
      BY <1>8, <1>12, <1>20, <3>1, <3>2, RecordDrops
  <2>2. PICK last : last = orders[c]
    OBVIOUS
  <2>3. Recorded(id, o)[c] = last /\ last \in ExchangeOrders /\ Unreported = last.cum
    BY <1>6, <1>13, <1>17, <1>24, <2>2, Kinds, LiveCloses
  <2>4. PICK w : w = Update(c, "Cancelled", last)
    OBVIOUS
  <2>5. w \in OrderEvents /\ w.id = c /\ w.status = "Cancelled" /\ w.cum = last.cum
    BY <2>3, <2>4, UpdateTyped DEF Update
  <2>6. updates' = Append(Append(updates, u), w) /\ updates' = Append(updates \o news, w)
    <3>1. updates \o news = Append(updates, u)
      BY <1>10, <1>11, Kinds, AppendIsConcat
    <3> QED
      BY <2>1, <2>3, <2>4, <3>1
  <2>7. /\ orders'[c].state = "done" /\ orders'[id] = o
        /\ \A i \in OrderIds : i # id /\ i # c => orders'[i] = orders[i]
    <3>1. orders'[c] = [last EXCEPT !.state = "done"]
      BY <1>18, <2>1, <2>3 DEF WithoutRest
    <3>2. orders'[c].state = "done"
      BY <2>3, <3>1 DEF ExchangeOrders
    <3>3. \A i \in OrderIds : i # c => orders'[i] = Recorded(id, o)[i]
      BY <1>18, <2>1 DEF WithoutRest
    <3> QED
      BY <1>13, <1>17, <1>18, <3>2, <3>3
  <2>8. \A i \in OrderIds : IF IsReduceOnly(i) THEN OrderOk(i)' ELSE orders'[i] = orders[i]
    <3>1. TAKE i \in OrderIds
    <3>2. CASE i = id
      BY <1>8, <1>13, <1>20, <2>7, <3>2, OrderEnded
    <3>3. CASE i = c
      <4>1. c[1] <= tradeNumber'
        BY <1>13, <1>20
      <4> QED
        BY <1>13, <2>7, <3>3, <4>1, OrderEnded
    <3>4. CASE i # id /\ i # c
      <4>1. orders'[i] = orders[i] /\ (IsReduceOnly(i) => orders[i].state # "live")
        BY <1>16, <2>7, <3>4
      <4> QED
        BY <1>1, <1>2, <1>15, <4>1, OrderKept
    <3> QED
      BY <3>2, <3>3, <3>4
  <2>9. Unreported' = 0
    BY <1>6, <1>13, <2>7 DEF Unreported
  <2>10. Ledger'
    <3>1. SUFFICES ASSUME tradeIsOpen'
                   PROVE  Tally(updates', tradeNumber', closePartiallyFilledQty',
                                openQty' - Exposed' - Unreported')
      BY DEF Ledger
    <3>2. UNCHANGED <<tradeIsOpen, tradeNumber, openQty, closePartiallyFilledQty>>
      BY <1>2 DEF tmState, quantities
    <3>3. PICK k, from, q, v : /\ k = tradeNumber /\ from = closePartiallyFilledQty
                               /\ q = openQty /\ v = Unreported
      OBVIOUS
    <3>4. from \in Int /\ q \in 0 .. DefaultQty /\ v \in 0 .. DefaultQty
      BY <3>3, LotsTyped, Kinds
    <3>5. Tally(updates, k, from, q - e - v)
      BY <1>1, <3>1, <3>2, <3>3 DEF LotsInv, Ledger
    <3>6. Counted(u, k) = n /\ Counted(w, k) = v
      BY <1>13, <1>22, <2>3, <2>5, <3>3 DEF Counted
    <3>7. /\ q - e - v \in Int /\ q - v \in Int /\ q \in Int
          /\ q - e - v + n <= q - v /\ q - v <= DefaultQty
          /\ q - v + v <= q /\ q <= DefaultQty
      BY <1>4, <1>8, <1>24, <3>4
    <3>8. Tally(Append(updates, u), k, from, q - v)
      BY <1>10, <3>4, <3>5, <3>6, <3>7, Kinds, TallyAppend
    <3>9. PICK us \in Seq(OrderEvents) : us = Append(updates, u)
      <4>1. Append(updates, u) \in Seq(OrderEvents)
        BY <1>10, Kinds
      <4> QED
        BY <4>1
    <3>10. Tally(Append(us, w), k, from, q)
      BY <2>5, <3>4, <3>6, <3>7, <3>8, <3>9, TallyAppend
    <3>11. openQty' - Exposed' - Unreported' = q
      <4>1. Exposed' = 0 /\ openQty' = q /\ q \in Int
        BY <1>4, <1>15, <1>24, <3>2, <3>3, <3>7
      <4> QED
        BY <2>9, <4>1
    <3> QED
      BY <2>6, <3>2, <3>3, <3>9, <3>10, <3>11
  <2>11. \E ns \in Seq(OrderEvents) :
            /\ updates' = updates \o ns
            /\ \A i \in 1 .. Len(ns) : IsReduceOnly(ns[i].id) /\ UpdateOk(ns[i])'
    <3>1. \A x, y \in OrderEvents : /\ <<x, y>> \in Seq(OrderEvents) /\ Len(<<x, y>>) = 2
                                    /\ <<x, y>>[1] = x /\ <<x, y>>[2] = y
      OBVIOUS
    <3>2. PICK ns \in Seq(OrderEvents) : ns = <<u, w>>
      BY <1>10, <2>5, <3>1
    <3>3. Len(ns) = 2 /\ ns[1] = u /\ ns[2] = w
      BY <1>10, <2>5, <3>1, <3>2
    <3>4. updates' = updates \o ns
      <4>1. \A us \in Seq(OrderEvents) : Append(Append(us, u), w) = us \o <<u, w>>
        <5>1. SUFFICES ASSUME NEW us \in Seq(OrderEvents)
                       PROVE  Append(Append(us, u), w) = us \o <<u, w>>
          OBVIOUS
        <5> DEFINE ls == Append(Append(us, u), w)
                   rs == us \o <<u, w>>
        <5>2. /\ ls \in Seq(OrderEvents) /\ Len(ls) = Len(us) + 2
              /\ ls[Len(us) + 1] = u /\ ls[Len(us) + 2] = w /\ \A i \in 1 .. Len(us) : ls[i] = us[i]
          BY <1>10, <2>5
        <5>3. /\ rs \in Seq(OrderEvents) /\ Len(rs) = Len(us) + 2
              /\ rs[Len(us) + 1] = u /\ rs[Len(us) + 2] = w /\ \A i \in 1 .. Len(us) : rs[i] = us[i]
          BY <1>10, <2>5
        <5> HIDE DEF ls, rs
        <5>4. \A i \in 1 .. Len(us) + 2 : i \in 1 .. Len(us) \/ i = Len(us) + 1 \/ i = Len(us) + 2
          OBVIOUS
        <5>5. \A i \in 1 .. Len(us) + 2 : ls[i] = rs[i]
          BY <5>2, <5>3, <5>4
        <5>6. ls = rs
          BY <5>2, <5>3, <5>5, SeqEqual
        <5> QED
          BY <5>6 DEF ls, rs
      <4> QED
        BY <2>6, <3>2, <4>1, Kinds
    <3>5. UpdateOk(w)'
      <4>1. IsReduceOnly(w.id) /\ w.id[1] = tradeNumber /\ tradeNumber \in Int /\ UNCHANGED tmState
            /\ w.status # "Filled"
        BY <1>2, <1>13, <2>5, Kinds
      <4> QED
        BY <1>4, <4>1, ClosingUpdate
    <3>6. \A i \in 1 .. Len(ns) : i = 1 \/ i = 2
      BY <3>3
    <3>7. /\ IsReduceOnly(ns[1].id) /\ UpdateOk(ns[1])'
          /\ IsReduceOnly(ns[2].id) /\ UpdateOk(ns[2])'
      BY <1>10, <1>13, <1>21, <2>5, <3>3, <3>5
    <3>8. \A i \in 1 .. Len(ns) : IsReduceOnly(ns[i].id) /\ UpdateOk(ns[i])'
      BY <3>6, <3>7
    <3> QED
      BY <3>4, <3>8
  <2> QED
    BY <1>2, <1>19, <1>20, <2>8, <2>10, <2>11 DEF Reduces
<1> QED
  BY <1>23, <1>24

-----------------------------------------------------------------------------
(* What is under way is lost, or a cancel finds nothing to cancel.         *)

Fades ==
    /\ UNCHANGED <<side, tradeIsOpen, wait, quantities, closeReason, tradeNumber, exchange>>
    /\ \E k \in 0 .. Len(newQueue) : newQueue' = SubSeq(newQueue, 1, k)
    /\ Rest(cancelQueue', cancelQueue)
    /\ \/ Rest(results', results)
       \/ \E r \in Results : ResultOk(r) /\ results' = Append(results, r)
    /\ \E k \in 0 .. Len(updates) : updates' = SubSeq(updates, 1, k)

LEMMA FadesKeeps ==
    ASSUME SysInv, SysInv', LotsInv, Fades
    PROVE  LotsInv'
<1>1. /\ Calm /\ UNCHANGED exchange
      /\ UNCHANGED <<side, tradeIsOpen, wait, openQty, closeQty, closePartiallyFilledQty,
                     closeReason, tradeNumber, orders, position>>
      /\ Id("OpenLimit")' = Id("OpenLimit") /\ UNCHANGED Exposed /\ UNCHANGED Unreported
      /\ \A id : Current(id)' <=> Current(id)
  BY DEF Fades, Calm, quantities, exchange, Id, Exposed, Unreported, Current
<1>2. Rest(updates', updates)
  BY Kinds, RestOfSeq DEF Fades
<1>3. QueueOk'
  BY <1>1, CalmItems, QueueKept DEF LotsInv, Fades
<1>4. CancelsOk'
  BY <1>1, CalmItems, CancelsKept DEF LotsInv, Fades
<1>5. UpdatesOk'
  BY <1>1, <1>2, CalmItems, UpdatesKept DEF LotsInv
<1>6. OrdersOk'
  BY <1>1, CalmItems DEF OrdersOk, LotsInv
<1>7. PositionOk'
  BY <1>1 DEF PositionOk, LotsInv, Opening, Opener, AtMarket, Id, Exposed
<1>8. ResultsOk'
  <2>1. CASE Rest(results', results)
    BY <1>1, <2>1, CalmItems, ResultsKept DEF LotsInv
  <2>2. CASE \E r \in Results : ResultOk(r) /\ results' = Append(results, r)
    <3>1. PICK r \in Results : ResultOk(r) /\ results' = Append(results, r)
      BY <2>2
    <3>2. ASSUME NEW i \in 1 .. Len(results') PROVE ResultOk(results[i])'
      <4>0. results \in Seq(Results)
        BY Kinds
      <4>1. PICK q \in Results : q = results'[i]
        BY <3>1, <4>0, AppendedItem
      <4>2. (i \in 1 .. Len(results) /\ q = results[i]) \/ q = r
        BY <3>1, <4>0, <4>1, AppendedItem
      <4>3. ResultOk(q)
        BY <3>1, <4>2 DEF LotsInv, ResultsOk
      <4>4. ResultOk(q)'
        BY <1>1, <4>3, CalmItems
      <4> QED
        BY <4>1, <4>4
    <3> QED
      BY <3>2 DEF ResultsOk
  <2> QED
    BY <2>1, <2>2 DEF Fades
<1>9. Ledger'
  <2>1. SUFFICES ASSUME tradeIsOpen
                 PROVE  Tally(updates', tradeNumber, closePartiallyFilledQty,
                              openQty - Exposed - Unreported)
    BY <1>1 DEF Ledger
  <2>2. Tally(updates, tradeNumber, closePartiallyFilledQty, openQty - Exposed - Unreported)
    BY <2>1 DEF LotsInv, Ledger
  <2>3. PICK k \in 0 .. Len(updates) : updates' = SubSeq(updates, 1, k)
    BY DEF Fades
  <2>4. closePartiallyFilledQty \in Int /\ openQty - Exposed - Unreported \in Int
    BY Kinds, LotsTyped
  <2> QED
    BY <2>2, <2>3, <2>4, Kinds, TallyPrefix
<1> QED
  BY <1>3, <1>4, <1>5, <1>6, <1>7, <1>8, <1>9 DEF LotsInv

\* A channel, or the queue, as it is is a prefix of itself.
LEMMA Whole ==
    ASSUME NEW S, NEW s \in Seq(S)
    PROVE  \E k \in 0 .. Len(s) : s = SubSeq(s, 1, k)
<1>1. Len(s) \in 0 .. Len(s) /\ s = SubSeq(s, 1, Len(s))
  OBVIOUS
<1> QED
  BY <1>1

LEMMA CancelFades ==
    ASSUME SysInv, LotsInv, cancelQueue # <<>>, cancelQueue' = Tail(cancelQueue),
           orders[Head(cancelQueue).id].state # "live",
           results' = Append(results, [id |-> Head(cancelQueue).id, success |-> FALSE]),
           UNCHANGED <<tmState, newQueue, exchange, updates>>
    PROVE  Fades
<1>1. PICK id : id = Head(cancelQueue).id
  OBVIOUS
<1>2. PICK r : r = [id |-> id, success |-> FALSE]
  OBVIOUS
<1>3. id \in OrderIds /\ CancelOk(Head(cancelQueue))
  <2>1. Head(cancelQueue) = cancelQueue[1] /\ 1 \in 1 .. Len(cancelQueue)
    BY Kinds
  <2> QED
    BY <1>1, <2>1, HeadTyped DEF LotsInv, CancelsOk
<1>4. r \in Results /\ r.id = id
  BY <1>2, <1>3 DEF Results
<1>5. ResultOk(r)
  BY <1>1, <1>3, <1>4 DEF ResultOk, CancelOk, Id
<1>6. results' = Append(results, r)
  BY <1>1, <1>2
<1>7. Rest(cancelQueue', cancelQueue)
  BY Kinds, RestOfSeq
<1>8. /\ \E k \in 0 .. Len(newQueue) : newQueue' = SubSeq(newQueue, 1, k)
      /\ \E k \in 0 .. Len(updates) : updates' = SubSeq(updates, 1, k)
  BY Kinds, Whole
<1> QED
  BY <1>4, <1>5, <1>6, <1>7, <1>8 DEF Fades, tmState

LEMMA OtherFades ==
    ASSUME SysInv, TimePasses \/ LoseUpdates \/ LoseRequests \/ UNCHANGED vars
    PROVE  Fades
<1>1. /\ newQueue \in Seq(Requests) /\ cancelQueue \in Seq(Requests)
      /\ results \in Seq(Results) /\ updates \in Seq(OrderEvents)
  BY Kinds
<1>2. CASE TimePasses \/ UNCHANGED vars
  <2>1. /\ UNCHANGED <<side, tradeIsOpen, wait, quantities, closeReason, tradeNumber, exchange>>
        /\ newQueue' = newQueue /\ cancelQueue' = cancelQueue
        /\ results' = results /\ updates' = updates
    BY <1>2 DEF TimePasses, HoldTick, Silent, vars, tmVars, tmState, queues, channels
  <2> QED
    BY <1>1, <2>1, Whole, RestOfSeq DEF Fades
<1>3. CASE LoseUpdates
  <2>1. /\ UNCHANGED <<side, tradeIsOpen, wait, quantities, closeReason, tradeNumber, exchange>>
        /\ newQueue' = newQueue /\ cancelQueue' = cancelQueue /\ results' = results
    BY <1>3 DEF LoseUpdates, tmVars, tmState, queues
  <2>2. \E k \in 0 .. Len(updates) : updates' = SubSeq(updates, 1, k)
    BY <1>1, <1>3 DEF LoseUpdates
  <2> QED
    BY <1>1, <2>1, <2>2, Whole, RestOfSeq DEF Fades
<1>4. CASE LoseRequests
  <2>1. /\ UNCHANGED <<side, tradeIsOpen, wait, quantities, closeReason, tradeNumber, exchange>>
        /\ updates' = updates
    BY <1>4 DEF LoseRequests, tmState
  <2>2. /\ \E k \in 0 .. Len(newQueue) : newQueue' = SubSeq(newQueue, 1, k)
        /\ \E k \in 0 .. Len(cancelQueue) : cancelQueue' = SubSeq(cancelQueue, 1, k)
        /\ \E k \in 0 .. Len(results) : results' = SubSeq(results, 1, k)
    BY <1>4 DEF LoseRequests
  <2>3. Rest(cancelQueue', cancelQueue) /\ Rest(results', results)
    BY <1>1, <2>2, RestOfSeq
  <2> QED
    BY <1>1, <2>1, <2>2, <2>3, Whole DEF Fades
<1> QED
  BY <1>2, <1>3, <1>4

-----------------------------------------------------------------------------
(* Every step of the system.                                               *)

Effect ==
    \/ Outcome /\ UNCHANGED exchange
    \/ \E o \in ExchangeOrders : Opens(o)
    \/ Reduces
    \/ Fades

LEMMA FillEffect ==
    ASSUME SysInv, SysInv', LotsInv, FillLimit
    PROVE  Effect
<1>0. PICK id \in OrderIds :
          /\ orders[id].state = "live" /\ UNCHANGED <<tmVars, results>>
          /\ \E n \in 1 .. Room(id, orders[id].side, orders[id].qty - orders[id].cum) :
             LET full   == orders[id].cum + n = orders[id].qty
                 filled == [orders[id] EXCEPT !.cum = orders[id].cum + n,
                                              !.state = IF full THEN "done" ELSE "live"]
             IN  Record(id, filled, n, IF full THEN <<Update(id, "Filled", filled)>> ELSE <<>>)
  BY DEF FillLimit
<1>1. PICK n \in 1 .. Room(id, orders[id].side, orders[id].qty - orders[id].cum) :
             LET full   == orders[id].cum + n = orders[id].qty
                 filled == [orders[id] EXCEPT !.cum = orders[id].cum + n,
                                              !.state = IF full THEN "done" ELSE "live"]
             IN  Record(id, filled, n, IF full THEN <<Update(id, "Filled", filled)>> ELSE <<>>)
  BY <1>0
<1>2. PICK filled : filled = [orders[id] EXCEPT !.cum = orders[id].cum + n,
                          !.state = IF orders[id].cum + n = orders[id].qty THEN "done" ELSE "live"]
  OBVIOUS
<1>3. Record(id, filled, n, IF orders[id].cum + n = orders[id].qty
                            THEN <<Update(id, "Filled", filled)>> ELSE <<>>)
  BY <1>1, <1>2
<1>4. CASE IsReduceOnly(id)
  <2>1. n \in 1 .. Exposed
    BY <1>0, <1>1, <1>4, LiveCloses
  <2> QED
    BY <1>0, <1>2, <1>3, <1>4, <2>1, FillCloses DEF Effect
<1>5. CASE ~IsReduceOnly(id)
  <2>1. orders[id].qty = DefaultQty
    BY <1>0, <1>5, LiveOpens
  <2>2. n \in 1 .. DefaultQty - orders[id].cum
    BY <1>1, <1>5, <2>1 DEF Room
  <2> QED
    BY <1>0, <1>2, <1>3, <1>5, <2>1, <2>2, FillOpens DEF Effect
<1> QED
  BY <1>4, <1>5

LEMMA StepEffect ==
    ASSUME SysInv, SysInv', LotsInv, [SysNext]_vars
    PROVE  Effect
<1>1. CASE Strategy
  BY <1>1, StrategyOutcome DEF Effect
<1>2. CASE TimePasses \/ LoseUpdates \/ LoseRequests \/ UNCHANGED vars
  BY <1>2, OtherFades DEF Effect
<1>3. CASE RejectNew
  BY <1>3, RejectOpens, RejectCloses DEF Effect
<1>4. CASE AcceptLimit
  BY <1>4, AcceptOpens, AcceptCloses DEF Effect
<1>5. CASE ExecuteMarket
  BY <1>5, ExecuteOpens, ExecuteCloses DEF Effect
<1>6. CASE FillLimit
  BY <1>6, FillEffect
<1>7. CASE ProcessCancel
  <2>1. PICK id : id = Head(cancelQueue).id
    OBVIOUS
  <2>2. id \in OrderIds /\ Rest(cancelQueue', cancelQueue)
        /\ UNCHANGED <<tmState, newQueue, position>>
    BY <1>7, <2>1, HeadTyped, Kinds, RestOfSeq DEF ProcessCancel
  <2>3. CASE End(id) /\ UNCHANGED results
    BY <2>2, <2>3, EndOpens, EndCloses DEF Effect
  <2>4. CASE /\ orders[id].state # "live"
             /\ results' = Append(results, [id |-> id, success |-> FALSE])
             /\ UNCHANGED <<orders, updates>>
    <3>1. cancelQueue # <<>> /\ cancelQueue' = Tail(cancelQueue) /\ UNCHANGED exchange
      BY <1>7, <2>2, <2>4 DEF ProcessCancel, exchange
    <3>2. Fades
      BY <2>1, <2>2, <2>4, <3>1, CancelFades
    <3> QED
      BY <3>2 DEF Effect
  <2> QED
    BY <1>7, <2>1, <2>3, <2>4 DEF ProcessCancel
<1>8. CASE Expire
  <2>1. PICK id \in OrderIds : End(id)
    BY <1>8 DEF Expire
  <2>2. UNCHANGED <<tmState, newQueue, position, results>> /\ Rest(cancelQueue', cancelQueue)
    BY <1>8, Kinds, RestOfSeq DEF Expire, tmVars, queues
  <2> QED
    BY <2>1, <2>2, EndOpens, EndCloses DEF Effect
<1> QED
  BY <1>1, <1>2, <1>3, <1>4, <1>5, <1>6, <1>7, <1>8 DEF SysNext, Environment, ProcessNew

LEMMA LotsStep == SysInv /\ SysInv' /\ LotsInv /\ [SysNext]_vars => LotsInv'
BY StepEffect, OutcomeKeeps, OpensKeeps, ReducesKeeps, FadesKeeps DEF Effect

LEMMA LotsInit == SysInit => LotsInv
<1> SUFFICES ASSUME SysInit PROVE LotsInv
  OBVIOUS
<1>1. SysInv
  BY SysInitEstablishes
<1>2. /\ side = NoSide /\ ~tradeIsOpen /\ wait = {} /\ position = 0
      /\ newQueue = <<>> /\ cancelQueue = <<>> /\ results = <<>> /\ updates = <<>>
      /\ \A id \in OrderIds : orders[id].state = "none" /\ orders[id].cum = 0
  BY DEF SysInit, Init, NoOrder
<1>3. Id("OpenLimit") \in OrderIds
  BY <1>1, IdTyped DEF SysInv, IInv, OrderRole
<1>4. QueueOk /\ CancelsOk /\ ResultsOk /\ UpdatesOk
  BY <1>2, <1>3 DEF QueueOk, CancelsOk, ResultsOk, UpdatesOk
<1>5. OrdersOk
  BY <1>2 DEF OrdersOk, OrderOk
<1>6. PositionOk /\ Ledger
  BY <1>2, <1>3 DEF PositionOk, Ledger, Opening
<1> QED
  BY <1>4, <1>5, <1>6 DEF LotsInv

-----------------------------------------------------------------------------
(* The theorems.                                                           *)

\* Every order, request, answer and update, wherever it is, agrees with the trade
\* the manager holds, and the ledger of its lots balances: no fill is counted twice
\* and none escapes both the count and the position (trade_manager.cpp:228-735).
THEOREM ExposureInvariant == SysSpec => [](SysInv /\ LotsInv)
<1>1. SysInit => SysInv /\ LotsInv
  BY SysInitEstablishes, LotsInit
<1>2. SysInv /\ LotsInv /\ [SysNext]_vars => SysInv' /\ LotsInv'
  BY SysStepKeeps, LotsStep
<1> QED
  BY <1>1, <1>2, PTL DEF SysSpec

\* Whatever is lost, rejected, late or cut short, and for any number of trades and
\* faults: when the manager holds no trade the account is flat
\* (trade_manager.cpp:228-300, 497-524, 687-735).
THEOREM AccountFlat == SysSpec => []FlatWithoutTrade
<1>1. LotsInv => FlatWithoutTrade
  BY DEF LotsInv, PositionOk, FlatWithoutTrade
<1> QED
  BY <1>1, ExposureInvariant, PTL

\* What the manager has still to close covers what is held, and the position never
\* changes sign, although two closing orders may be under way at once
\* (closePartiallyFilledQty, trade_manager.cpp:526-614).
THEOREM ExposureIsCovered == SysSpec => []ExposureCovered
<1>1. SysInv /\ LotsInv => ExposureCovered
  BY NothingLeft DEF ExposureCovered, Exposed
<1> QED
  BY <1>1, ExposureInvariant, PTL

\* A finished trade reports no more lots closed than it opened
\* (finishTrade, trade_manager.cpp:687-707).
THEOREM NoTradeOverclosed == SysSpec => NeverOverclosed
<1>1. ASSUME SysInv, SysInv', LotsInv, [SysNext]_vars, tradeIsOpen, ~tradeIsOpen'
      PROVE  closeQty' <= openQty
  <2>1. CASE Outcome
    BY <1>1, <2>1, Kinds
    DEF Outcome, CalmStep, Calm, EndStep, OpeningDrained, Enters, FallsBack, StartStep, Starts,
        SysInv, IInv, WaitDiscipline
  <2>2. CASE \E o \in ExchangeOrders : Opens(o)
    BY <1>1, <2>2 DEF Opens, tmState
  <2>3. CASE Reduces \/ Fades
    BY <1>1, <2>3 DEF Reduces, Fades, tmState
  <2> QED
    BY <1>1, <2>1, <2>2, <2>3, StepEffect DEF Effect
<1>2. SysInv /\ SysInv' /\ LotsInv /\ [SysNext]_vars
         => [tradeIsOpen /\ ~tradeIsOpen' => closeQty' <= openQty]_vars
  BY <1>1
<1> QED
  BY <1>2, ExposureInvariant, PTL DEF SysSpec, NeverOverclosed

-----------------------------------------------------------------------------
(* The abstract specification.                                             *)

LEMMA ExposureIs ==
    ASSUME side \in Sides, position \in Int
    PROVE  /\ Lifecycle!Exposure = Exposed
           /\ \A n \in Int : Lots(side, position') = n /\ position' \in Int
                             => position' = n * Lifecycle!Toward(side)
BY DEF Lifecycle!Exposure, Lifecycle!Toward, Exposed, Lots, Sides

\* Manager, sender and exchange together implement the abstract specification: one
\* trade at a time, whose position grows only while it is opened, up to one order's
\* quantity, and shrinks only while it is closed (trade_manager.cpp:28-147, 228-614).
THEOREM SystemIsLifecycle == SysSpec => OneTradeAtATime
<1>1. SysInit => Lifecycle!Init
  BY DEF SysInit, Init, Lifecycle!Init, Stage, NoSide
<1>2. ASSUME SysInv, SysInv', LotsInv, Effect PROVE [Lifecycle!Next]_(Lifecycle!lifecycle)
  <2>1. CASE CalmStep /\ UNCHANGED exchange
    <3>1. UNCHANGED <<side, tradeIsOpen, position>> /\ (closeReason # "None" => closeReason' # "None")
          /\ (~tradeIsOpen => UNCHANGED closeReason)
      BY <2>1 DEF CalmStep, Calm, exchange
    <3> QED
      BY <3>1 DEF Stage, Lifecycle!Next, Lifecycle!StartClose, Lifecycle!lifecycle
  <2>2. CASE EndStep /\ UNCHANGED exchange
    <3>1. /\ side # NoSide /\ side' = NoSide /\ position = 0 /\ UNCHANGED position
          /\ tradeIsOpen => closeReason # "None"
      BY <2>2 DEF EndStep, Ends, exchange
    <3> QED
      BY <3>1 DEF Stage, NoSide, Lifecycle!Next, Lifecycle!GiveUp, Lifecycle!Finish
  <2>3. CASE OpeningDrained /\ Enters /\ UNCHANGED exchange
    <3>1. /\ Opening /\ Exposed = Head(updates).cum /\ Head(updates).cum > 0
      BY <1>2, <2>3, OpeningUpdate DEF OpeningDrained, Enters
    <3>2. position # 0 /\ closeReason = "None"
      BY <1>2, <3>1, LotsOfNone DEF LotsInv, PositionOk, Exposed
    <3>3. UNCHANGED <<side, closeReason, position>> /\ tradeIsOpen'
      BY <2>3 DEF Enters, exchange
    <3> QED
      BY <3>1, <3>2, <3>3 DEF Opening, Stage, Lifecycle!Next, Lifecycle!Enter
  <2>4. CASE OpeningDrained /\ FallsBack /\ UNCHANGED exchange
    <3>1. Opening
      BY <1>2, <2>4, OpeningUpdate DEF OpeningDrained
    <3>2. UNCHANGED <<side, tradeIsOpen, position>>
      BY <2>4 DEF FallsBack, exchange
    <3> QED
      BY <3>1, <3>2 DEF Opening, Stage, Lifecycle!lifecycle
  <2>5. CASE StartStep /\ UNCHANGED exchange
    <3>1. /\ side = NoSide /\ side' \in Sides \cup {NoSide} /\ ~tradeIsOpen' /\ UNCHANGED position
      BY <2>5 DEF StartStep, Starts, exchange
    <3> QED
      BY <3>1 DEF Stage, NoSide, Sides, Lifecycle!Next, Lifecycle!Begin, Lifecycle!lifecycle
  <2>6. ASSUME NEW o \in ExchangeOrders, Opens(o) PROVE [Lifecycle!Next]_(Lifecycle!lifecycle)
    <3>1. /\ Opening /\ side \in Sides /\ UNCHANGED <<side, tradeIsOpen, closeReason>>
          /\ o.cum \in 0 .. DefaultQty /\ o.cum \in Int /\ Exposed \in Int /\ o.cum >= Exposed
      BY <1>2, <2>6, Kinds, LotsTyped, ConstantsAssumption
      DEF Opens, Opening, tmState, ExchangeOrders, ConstantsAssumption
    <3>2. Exposed' = o.cum /\ position' \in Int
      <4>1. PICK n \in Int : n = o.cum - Exposed
        BY <3>1
      <4>2. Lots(side, position + Lots(side, n)) = Exposed + n /\ position \in Int
        BY <1>2, <3>1, LotsMove, Kinds
      <4>3. position' = position + Lots(side, n) /\ position' \in Int
        BY <1>2, <2>6, <4>1 DEF Opens, SysInv, ExchangeTyped
      <4>4. Exposed' = Exposed + n
        BY <3>1, <4>2, <4>3 DEF Exposed
      <4> QED
        BY <3>1, <4>1, <4>3, <4>4
    <3>3. CASE o.cum = Exposed
      <4>1. position' = position
        BY <2>6, <3>1, <3>3, LotsOfNone, <1>2, Kinds DEF Opens, Lots
      <4> QED
        BY <3>1, <4>1 DEF Stage, Lifecycle!lifecycle
    <3>4. CASE o.cum # Exposed
      <4>1. o.cum \in Lifecycle!Exposure + 1 .. DefaultQty
        BY <1>2, <3>1, <3>4, ExposureIs, Kinds
      <4>2. position' = o.cum * Lifecycle!Toward(side)
        BY <1>2, <3>1, <3>2, ExposureIs, Kinds DEF Exposed
      <4> QED
        BY <3>1, <4>1, <4>2 DEF Opening, Stage, Lifecycle!Next, Lifecycle!Grow
    <3> QED
      BY <3>3, <3>4
  <2>7. CASE Reduces
    <3>1. UNCHANGED <<side, tradeIsOpen, closeReason>>
      BY <2>7 DEF Reduces, tmState
    <3>2. CASE position' = position
      BY <3>1, <3>2 DEF Stage, Lifecycle!lifecycle
    <3>3. CASE position' # position
      <4>1. /\ tradeIsOpen /\ closeReason # "None" /\ position # 0
            /\ 0 <= Exposed' /\ Exposed' <= Exposed
        BY <2>7, <3>3 DEF Reduces
      <4>2. side \in Sides /\ Exposed \in Int /\ Exposed' \in Int /\ position' \in Int /\ position \in Int
        BY <1>2, <4>1, Kinds, LotsTyped, TypedAfter DEF LotsInv, PositionOk, SysInv, ExchangeTyped, IInv, WaitDiscipline
      <4>3. Exposed' # Exposed
        <5>1. PICK p \in Int, q \in Int : p = position /\ q = position'
          BY <4>2
        <5>2. p # q /\ Lots(side, p) = Exposed /\ Lots(side, q) = Exposed'
          BY <3>1, <3>3, <5>1 DEF Exposed
        <5>3. Lots(side, p) # Lots(side, q)
          BY <5>2 DEF Lots
        <5> QED
          BY <5>2, <5>3
      <4>4. Exposed' \in 0 .. Lifecycle!Exposure - 1
        BY <4>1, <4>2, <4>3, ExposureIs
      <4>5. position' = Exposed' * Lifecycle!Toward(side)
        BY <3>1, <4>2, ExposureIs DEF Exposed
      <4> QED
        BY <3>1, <4>1, <4>2, <4>4, <4>5 DEF Stage, Sides, NoSide, Lifecycle!Next, Lifecycle!Shrink
    <3> QED
      BY <3>2, <3>3
  <2>8. CASE Fades
    <3>1. UNCHANGED <<side, tradeIsOpen, closeReason, position>>
      BY <2>8 DEF Fades, exchange
    <3> QED
      BY <3>1 DEF Stage, Lifecycle!lifecycle
  <2> QED
    BY <1>2, <2>1, <2>2, <2>3, <2>4, <2>5, <2>6, <2>7, <2>8 DEF Effect, Outcome
<1>3. SysInv /\ SysInv' /\ LotsInv /\ [SysNext]_vars => [Lifecycle!Next]_(Lifecycle!lifecycle)
  BY <1>2, StepEffect
<1> QED
  BY <1>1, <1>3, ExposureInvariant, PTL DEF SysSpec, OneTradeAtATime, Lifecycle!Spec

=============================================================================
