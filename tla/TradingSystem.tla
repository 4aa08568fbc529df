--------------------------- MODULE TradingSystem ---------------------------
(***************************************************************************)
(* The trade manager joined to what it talks to: the order sender's queues,*)
(* the exchange, and the two channels that come back - the answers to      *)
(* requests on the trade connection and the order updates on the private   *)
(* stream.  The channels are independent, so an answer and an update about *)
(* the same order reach the manager in either order; the strategy drains   *)
(* each channel first in, first out.                                       *)
(*                                                                         *)
(* The exchange is external: it accepts or rejects, fills, cancels, never  *)
(* lets a reduce-only order (both closing orders) grow or flip a position, *)
(* and drops resting reduce-only orders when the position is flat.         *)
(* Everything that can go wrong is a fault; MaxFaults bounds their number. *)
(***************************************************************************)
EXTENDS TradeManager, SequencesExt

CONSTANTS
    SignalSides,    \* the sides of the signals
    MaxFaults,      \* bound on the number of faults
    Faults          \* the kinds of fault that may happen

FaultKinds == {"refuse", "reject", "thinBook", "expire", "slow",
                "loseUpdates", "loseRequests"}

ASSUME SystemAssumption ==
    /\ SignalSides \subseteq Sides
    /\ MaxFaults \in Nat
    /\ Faults \subseteq FaultKinds

VARIABLES
    orders,                 \* the exchange's orders by orderLinkId
    position,               \* the account's position: lots bought minus lots sold
    results,                \* answers to requests under way to the strategy
    updates,                \* order updates under way to the strategy
    faults                  \* the faults so far, in their order

channels == <<results, updates>>
exchange == <<orders, position>>
vars     == <<tmVars, exchange, channels, faults>>

NoOrder == [state |-> "none", side |-> NoSide, qty |-> 0, cum |-> 0]

ExchangeOrders ==
    [state : {"none", "live", "done"}, side : Sides \cup {NoSide},
     qty : 0 .. DefaultQty, cum : 0 .. DefaultQty]

\* What the exchange keeps, and what is under way from it, is of a kind that the
\* trade manager's handlers are specified for.
ExchangeTyped ==
    /\ orders \in [OrderIds -> ExchangeOrders]
    /\ position \in Int
    /\ results \in Seq(Results)
    /\ updates \in Seq(OrderEvents)

SysTypeOK == TypeOK /\ ExchangeTyped

Fault(kind) ==
    /\ kind \in Faults
    /\ Len(faults) < MaxFaults
    /\ faults' = Append(faults, kind)

-----------------------------------------------------------------------------
(* The strategy thread.                                                    *)

\* The order sender refuses a request because its queue is full, or by a fault
\* (it is not connected).
Refused(ok) == ~ok /\ Len(newQueue) < QueueSize /\ Len(cancelQueue) < QueueSize

Accepts(ok) == IF Refused(ok) THEN Fault("refuse") ELSE UNCHANGED faults

Signal(s, ok) ==
    /\ Accepts(ok)
    /\ MakeTrade(s, ok)
    /\ UNCHANGED <<exchange, channels>>

\* A limit of 1 s or 5 s that passes although something is still under way is a
\* fault; it passes in any case while an order rests in the book.
Quiet == newQueue = <<>> /\ cancelQueue = <<>> /\ results = <<>> /\ updates = <<>>

Price(zone, waited, ok) ==
    /\ IF waited = "short" \/ Quiet THEN Accepts(ok) ELSE ok /\ Fault("slow")
    /\ CheckCurrentPrice(zone, waited, ok)
    /\ UNCHANGED <<exchange, channels>>

DrainResult(ok) ==
    /\ results # <<>>
    /\ OnOrderRequestResult(Head(results), ok)
    /\ results' = Tail(results)
    /\ Accepts(ok)
    /\ UNCHANGED <<exchange, updates>>

DrainUpdate(ok) ==
    /\ updates # <<>>
    /\ SetOrder(Head(updates), ok)
    /\ updates' = Tail(updates)
    /\ Accepts(ok)
    /\ UNCHANGED <<exchange, results>>

TimePasses ==
    /\ HoldTick
    /\ UNCHANGED <<exchange, channels, faults>>

-----------------------------------------------------------------------------
(* The exchange (external).                                                *)

IsReduceOnly(id) == id[2] \in {"CloseLimit", "CloseMarket"}

Lots(s, n) == IF s = "Buy" THEN n ELSE -n

\* How much of `n` lots an order of side s may still execute.
Room(id, s, n) ==
    LET held_ == Lots(Opposite(s), position) IN
    IF ~IsReduceOnly(id) THEN n
    ELSE IF held_ <= 0 THEN 0 ELSE IF held_ < n THEN held_ ELSE n

Update(id, status, o) == [id |-> id, status |-> status, cum |-> o.cum, qty |-> o.qty]

\* Record the new state `o` of order `id` and the news about it; a position
\* that became flat takes the resting reduce-only orders with it.
Record(id, o, n, news) ==
    LET after   == [orders EXCEPT ![id] = o]
        flat    == position + Lots(o.side, n) = 0
        dropped == {i \in OrderIds : flat /\ IsReduceOnly(i) /\ after[i].state = "live"}
    IN  /\ position' = position + Lots(o.side, n)
        /\ orders' = [i \in OrderIds |-> IF i \in dropped
                          THEN [after[i] EXCEPT !.state = "done"] ELSE after[i]]
        /\ updates' = updates \o news
              \o SetToSeq({Update(i, "Cancelled", after[i]) : i \in dropped})

\* A create request the exchange will not take: an order with this link id is
\* live, or there is nothing to reduce.
MustReject(r) ==
    \/ orders[r.id].state = "live"
    \/ Room(r.id, r.side, r.qty) = 0

\* It came before with this link id, hence this reqId: the exchange may refuse it for
\* that ("20006", trade.h:43-44), or take the attempt for a new order.
Repeated(r) == orders[r.id].state # "none"

\* Rejected at once in the answer, or accepted and then rejected by an update.
RejectNew ==
    /\ newQueue # <<>>
    /\ LET r == Head(newQueue)
           o == [state |-> "done", side |-> r.side, qty |-> r.qty, cum |-> 0] IN
       /\ \/ MustReject(r) /\ UNCHANGED faults
          \/ Repeated(r) /\ UNCHANGED <<updates, faults>>
          \/ ~MustReject(r) /\ Fault("reject")
       /\ orders' = IF orders[r.id].state = "live" THEN orders
                    ELSE [orders EXCEPT ![r.id] = o]
       /\ \/ /\ results' = Append(results, [id |-> r.id, success |-> FALSE])
             /\ UNCHANGED updates
          \/ /\ orders[r.id].state # "live"
             /\ updates' = Append(updates, Update(r.id, "Cancelled", o))
             /\ UNCHANGED results
    /\ newQueue' = Tail(newQueue)
    /\ UNCHANGED <<tmState, cancelQueue, position>>

AcceptLimit ==
    /\ newQueue # <<>>
    /\ LET r == Head(newQueue) IN
       /\ r.id[2] \in {"OpenLimit", "CloseLimit"}
       /\ ~MustReject(r)
       /\ orders' = [orders EXCEPT ![r.id] =
              [state |-> "live", side |-> r.side, qty |-> r.qty, cum |-> 0]]
    /\ newQueue' = Tail(newQueue)
    /\ UNCHANGED <<tmState, cancelQueue, position, channels, faults>>

\* A market order executes what the book offers and what it may reduce; cut
\* short, it ends as Cancelled (or as Filled when the exchange trimmed it).
ExecuteMarket ==
    /\ newQueue # <<>>
    /\ LET r    == Head(newQueue)
           room == Room(r.id, r.side, r.qty) IN
       /\ r.id[2] \in {"OpenMarket", "CloseMarket"}
       /\ ~MustReject(r)
       /\ \E n \in 0 .. room, status \in {"Filled", "Cancelled"} :
            LET o == [state |-> "done", side |-> r.side, qty |-> r.qty, cum |-> n] IN
            /\ status = "Filled" => n = room
            /\ status = "Cancelled" => n < r.qty
            /\ IF n < room THEN Fault("thinBook") ELSE UNCHANGED faults
            /\ Record(r.id, o, n, <<Update(r.id, status, o)>>)
    /\ newQueue' = Tail(newQueue)
    /\ UNCHANGED <<tmState, cancelQueue, results>>

FillLimit ==
    \E id \in OrderIds :
        LET o    == orders[id]
            room == Room(id, o.side, o.qty - o.cum) IN
        /\ o.state = "live"
        /\ \E n \in 1 .. room :
             LET full   == o.cum + n = o.qty
                 filled == [o EXCEPT !.cum = o.cum + n, !.state = IF full THEN "done" ELSE "live"]
             IN  Record(id, filled, n, IF full THEN <<Update(id, "Filled", filled)>> ELSE <<>>)
        /\ UNCHANGED <<tmVars, results, faults>>

\* The end of a live order by other means than its execution.
End(id) ==
    LET o == [orders[id] EXCEPT !.state = "done"] IN
    /\ orders[id].state = "live"
    /\ orders' = [orders EXCEPT ![id] = o]
    /\ updates' = Append(updates, Update(id, "Cancelled", o))

ProcessCancel ==
    /\ cancelQueue # <<>>
    /\ LET id == Head(cancelQueue).id IN
       \/ End(id) /\ UNCHANGED results
       \/ /\ orders[id].state # "live"
          /\ results' = Append(results, [id |-> id, success |-> FALSE])
          /\ UNCHANGED <<orders, updates>>
    /\ cancelQueue' = Tail(cancelQueue)
    /\ UNCHANGED <<tmState, newQueue, position, faults>>

Expire ==
    /\ Fault("expire")
    /\ \E id \in OrderIds : End(id)
    /\ UNCHANGED <<tmVars, position, results>>

\* A connection breaks: what was under way on it is lost from some point on.
LoseUpdates ==
    /\ Fault("loseUpdates")
    /\ updates # <<>>
    /\ \E k \in 0 .. Len(updates) - 1 : updates' = SubSeq(updates, 1, k)
    /\ UNCHANGED <<tmVars, exchange, results>>

LoseRequests ==
    /\ Fault("loseRequests")
    /\ \E i \in 0 .. Len(newQueue), j \in 0 .. Len(cancelQueue), k \in 0 .. Len(results) :
         /\ newQueue' = SubSeq(newQueue, 1, i)
         /\ cancelQueue' = SubSeq(cancelQueue, 1, j)
         /\ results' = SubSeq(results, 1, k)
    /\ UNCHANGED <<tmState, exchange, updates>>

-----------------------------------------------------------------------------
SysInit ==
    /\ Init
    /\ orders = [id \in OrderIds |-> NoOrder]
    /\ position = 0
    /\ results = <<>> /\ updates = <<>>
    /\ faults = <<>>

Strategy ==
    \E ok \in BOOLEAN :
        \/ \E s \in SignalSides : Signal(s, ok)
        \/ \E zone \in Zones, waited \in Waited : Price(zone, waited, ok)
        \/ DrainResult(ok)
        \/ DrainUpdate(ok)

ProcessNew == RejectNew \/ AcceptLimit \/ ExecuteMarket

Environment ==
    \/ TimePasses
    \/ ProcessNew
    \/ ProcessCancel
    \/ FillLimit
    \/ Expire
    \/ LoseUpdates \/ LoseRequests

SysNext == Strategy \/ Environment

SysSpec == SysInit /\ [][SysNext]_vars

\* The strategy's loop runs again and again, and so do its timers; a price that
\* stays inside the zones is never forced out of them.
Fairness ==
    /\ WF_vars(\E ok \in BOOLEAN : Price("Inside", "timeout", ok))
    /\ WF_vars(\E ok \in BOOLEAN : DrainResult(ok))
    /\ WF_vars(\E ok \in BOOLEAN : DrainUpdate(ok))
    /\ WF_vars(TimePasses)
    /\ WF_vars(ProcessNew)
    /\ WF_vars(ProcessCancel)

FairSysSpec == SysSpec /\ Fairness

-----------------------------------------------------------------------------
(* Safety, under every fault.                                              *)

\* The account is flat whenever the manager holds no trade: no order of a trade
\* it gave up or finished leaves lots behind that nothing watches
\* (trade_manager.cpp:228-300, 497-524, 687-735: every path that clears the side).
FlatWithoutTrade == side = NoSide => position = 0

\* The lots the manager still has to close cover the lots it holds at the
\* exchange, and the position never changes sign: no fill is counted twice and
\* none of two closing orders under way at once flips the position
\* (closePartiallyFilledQty, trade_manager.cpp:526-614).
ExposureCovered ==
    tradeIsOpen => LET lots == Lots(side, position) IN 0 <= lots /\ lots <= Remaining

\* A finished trade never reports more lots closed than it opened, whichever of
\* its closing orders, retries included, executed which part (closeQty feeds the
\* profit of finishTrade, trade_manager.cpp:687-707).
NeverOverclosed ==
    [][tradeIsOpen /\ ~tradeIsOpen' => closeQty' <= openQty]_vars

\* The trade of the abstract specification.
Stage ==
    IF side = NoSide THEN "idle"
    ELSE IF ~tradeIsOpen THEN "opening"
    ELSE IF closeReason = "None" THEN "open" ELSE "closing"

Lifecycle == INSTANCE TradeLifecycle WITH stage <- Stage, direction <- side

\* Whatever is lost, rejected or late, the manager and the exchange together run
\* one trade at a time through its stages and the position moves only in them.
OneTradeAtATime == Lifecycle!Spec

-----------------------------------------------------------------------------
(* When no message is lost.                                                *)

Lost == \E i \in DOMAIN faults : faults[i] \in {"loseUpdates", "loseRequests"}

\* Lots a resting close order has executed; its updates so far are ignored.
Unreported == LET o == orders[Id("CloseLimit")] IN
              IF o.state = "live" THEN o.cum ELSE 0

\* With nothing under way the manager waits only for a limit order that rests in
\* the book (its cancel can be sent again), and its count of open lots is the
\* exchange's: otherwise it would wait for an update that was consumed already,
\* and a market order's update is waited for without any time limit
\* (waitOpenMarketOrder_, waitCloseMarketOrder_, trade_manager.cpp:396-460).
NothingAwaitedInVain ==
    Quiet /\ ~Lost =>
      /\ wait \cap {"openMarket", "closeMarket"} = {}
      /\ wait \cap OpenWaits  # {} => orders[Id("OpenLimit")].state = "live"
      /\ wait \cap CloseWaits # {} => orders[Id("CloseLimit")].state = "live"
      /\ tradeIsOpen => Lots(side, position) = Remaining - Unreported

\* A trade that is being opened is opened or given up: the manager never keeps
\* waiting for its opening order (trade_manager.cpp:258-259, 411-427).
OpeningResolves ==
    side # NoSide /\ ~tradeIsOpen ~> tradeIsOpen \/ side = NoSide \/ Lost

\* A close once begun is brought to its end, over its limit order, cancel, market order
\* and retries (trade_manager.cpp:397-460, 769-785), unless the market order has ended
\* and left lots behind: what is sent then has the reqId of an earlier request
\* (trade.cpp:104, 200-221), and whether it is taken is up to the exchange.
ClosingCompletes ==
    tradeIsOpen /\ closeReason # "None" ~>
        \/ ~tradeIsOpen \/ Lost
        \/ orders[Id("CloseMarket")].state = "done" /\ position # 0

\* A trade is held for a limited time ("maximum holding time 24 hours",
\* settings.h:36), then its closing begins (trade_manager.cpp:404-409), unless
\* signals of its own side restart that time again and again (307).
HeldUnlessRenewed ==
    \/ tradeIsOpen ~> closeReason # "None" \/ ~tradeIsOpen \/ Lost
    \/ []<>(tradeIsOpen /\ held = 0)

=============================================================================
