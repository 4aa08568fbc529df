---------------------------- MODULE OrderSender ----------------------------
(***************************************************************************)
(* The order sender (websocket_client/order_sender) between two threads:   *)
(* placeOrder runs in the strategy's thread, everything else in the io     *)
(* thread of the trade connection.  The threads share three lock-free      *)
(* queues and the flag startSending_; a step of this module is one access  *)
(* to them.                                                                *)
(*                                                                         *)
(* A connection that breaks is replaced by a new one with empty queues     *)
(* (connection_manager.cpp:79-92).  The exchange answers what it received, *)
(* possibly before the write's own completion is handled.                  *)
(***************************************************************************)
EXTENDS Integers, FiniteSets, SequencesExt

CONSTANTS
    Kinds,          \* the types of request the strategy places
    MaxRequests,    \* bound on the number of requests
    MaxQueueSize,   \* maxQueueSize
    MaxBreaks       \* bound on the number of broken connections

\* The queues; After is the order in which sendNext() looks at them.
Queues == {"cancel", "replace", "new"}

ASSUME OrderSenderAssumption ==
    /\ Kinds \subseteq Queues
    /\ MaxRequests \in Nat
    /\ MaxQueueSize \in Nat \ {0}
    /\ MaxBreaks \in Nat

\* A request; id is its reqId, which the sender takes to be unique.
Requests == [id : 1 .. MaxRequests, kind : Kinds]

After == [cancel |-> "replace", replace |-> "new", new |-> "clear"]

Nothing == [id |-> 0, kind |-> "none"]

VARIABLES
    conn,           \* "auth": awaiting the answer to auth, "up", or "down"
    authenticated,  \* authenticated_
    startSending,   \* startSending_
    queue,          \* order_queue_cancel_, order_queue_replace_, order_queue_new_
    posted,         \* calls of sendNext() posted to the io_context
    io,             \* where the io thread is in sendNext(): "idle", a queue, "clear", "recheck"
    writing,        \* requests whose async_write is under way
    pending,        \* pendingRequests_
    caller,         \* where the strategy's thread is in placeOrder()
    request,        \* its request
    stale,          \* is it in the placeOrder() of a sender that was replaced
    placed,         \* the number of calls of placeOrder()
    refused,        \* requests placeOrder() has returned false for
    wire,           \* requests handed to the connection, in order
    breaks

shared  == <<startSending, queue, posted>>
strategy == <<caller, request, stale, placed, refused>>
link    == <<conn, authenticated, breaks>>
vars    == <<link, shared, strategy, io, writing, pending, wire>>

FlagsTyped == authenticated \in BOOLEAN /\ startSending \in BOOLEAN /\ stale \in BOOLEAN

RestTyped ==
    /\ conn \in {"auth", "up", "down"}
    /\ queue \in [Queues -> Seq(Requests)]
    /\ \A k \in Queues : Len(queue[k]) <= MaxQueueSize
    /\ posted \in Nat
    /\ io \in Queues \cup {"idle", "clear", "recheck"}
    /\ writing \subseteq Requests /\ pending \subseteq Requests
    /\ caller \in {"idle", "push", "kick"}
    /\ request \in IF caller = "idle" THEN {Nothing} ELSE Requests
    /\ placed \in 0 .. MaxRequests /\ refused \subseteq Requests
    /\ wire \in Seq(Requests)
    /\ breaks \in 0 .. MaxBreaks

TypeOK == FlagsTyped /\ RestTyped

-----------------------------------------------------------------------------
(* placeOrder(), in the strategy's thread.                                 *)

Return(ok) ==
    /\ caller' = "idle" /\ request' = Nothing /\ stale' = FALSE
    /\ refused' = IF ok THEN refused ELSE refused \cup {request}

PlaceOrder(r) ==
    /\ caller = "idle" /\ r.id = placed + 1
    /\ placed' = r.id
    /\ IF authenticated
       THEN /\ caller' = "push" /\ request' = r
            /\ UNCHANGED <<stale, refused>>
       ELSE /\ refused' = refused \cup {r}
            /\ UNCHANGED <<caller, request, stale>>
    /\ UNCHANGED <<link, shared, io, writing, pending, wire>>

\* bounded_push; what goes to a replaced sender is gone.
Push ==
    /\ caller = "push"
    /\ LET k == request.kind IN
       \/ stale /\ Return(TRUE) /\ UNCHANGED queue
       \/ ~stale /\ Len(queue[k]) = MaxQueueSize /\ Return(FALSE) /\ UNCHANGED queue
       \/ /\ ~stale /\ Len(queue[k]) < MaxQueueSize
          /\ queue' = [queue EXCEPT ![k] = Append(@, request)]
          /\ caller' = "kick"
          /\ UNCHANGED <<request, stale, refused>>
    /\ UNCHANGED <<placed, link, startSending, posted, io, writing, pending, wire>>

\* compare_exchange_strong(false, true), and post on success.
PostSendNext ==
    /\ startSending' = TRUE
    /\ posted' = IF startSending THEN posted ELSE posted + 1

Kick ==
    /\ caller = "kick"
    /\ IF stale THEN UNCHANGED <<startSending, posted>> ELSE PostSendNext
    /\ Return(TRUE)
    /\ UNCHANGED <<placed, link, queue, io, writing, pending, wire>>

-----------------------------------------------------------------------------
(* sendNext() and the handlers, in the io thread.                          *)

\* checkStatus(): a successful answer opens the sender and sends right away,
\* without taking startSending_.
Authenticated ==
    /\ conn = "auth" /\ io = "idle"
    /\ conn' = "up" /\ authenticated' = TRUE
    /\ io' = "cancel"
    /\ UNCHANGED <<breaks, shared, strategy, writing, pending, wire>>

RunPosted ==
    /\ io = "idle" /\ posted > 0
    /\ posted' = posted - 1
    /\ io' = "cancel"
    /\ UNCHANGED <<link, startSending, queue, strategy, writing, pending, wire>>

\* Mutant: a queue yields its newest request.
PopNewest(k) ==
    /\ io = k
    /\ IF queue[k] = <<>>
       THEN /\ io' = After[k]
            /\ UNCHANGED <<queue, writing, pending, wire>>
       ELSE LET n == Len(queue[k]) r == queue[k][n] IN
            /\ queue' = [queue EXCEPT ![k] = SubSeq(@, 1, n - 1)]
            /\ pending' = pending \cup {r}
            /\ writing' = writing \cup {r}
            /\ wire' = Append(wire, r)
            /\ io' = "idle"
    /\ UNCHANGED <<link, startSending, posted, strategy>>

\* One pop() of sendNext(); what it yields goes to sendOrder().
Pop(k) ==
    /\ io = k
    /\ IF queue[k] = <<>>
       THEN /\ io' = After[k]
            /\ UNCHANGED <<queue, writing, pending, wire>>
       ELSE LET r == Head(queue[k]) IN
            /\ queue' = [queue EXCEPT ![k] = Tail(@)]
            /\ pending' = pending \cup {r}
            /\ writing' = writing \cup {r}
            /\ wire' = Append(wire, r)
            /\ io' = "idle"
    /\ UNCHANGED <<link, startSending, posted, strategy>>

Clear ==
    /\ io = "clear"
    /\ startSending' = FALSE
    /\ io' = "recheck"
    /\ UNCHANGED <<link, queue, posted, strategy, writing, pending, wire>>

\* Mutant: the queues are not looked at again after the flag was cleared.
RecheckNothing ==
    /\ io = "recheck"
    /\ io' = "idle"
    /\ UNCHANGED <<link, shared, strategy, writing, pending, wire>>

Recheck ==
    /\ io = "recheck"
    /\ IF \E k \in Queues : queue[k] # <<>>
       THEN PostSendNext
       ELSE UNCHANGED <<startSending, posted>>
    /\ io' = "idle"
    /\ UNCHANGED <<link, queue, strategy, writing, pending, wire>>

\* Mutant: a completed write does not send the next request.
WrittenAndDone(r) ==
    /\ io = "idle" /\ r \in writing
    /\ writing' = writing \ {r}
    /\ UNCHANGED <<link, shared, strategy, io, pending, wire>>

\* on_write() without an error.
Written(r) ==
    /\ io = "idle" /\ r \in writing
    /\ writing' = writing \ {r}
    /\ io' = "cancel"
    /\ UNCHANGED <<link, shared, strategy, pending, wire>>

\* on_write() with an error; the first one breaks the connection.
WriteFails(r) ==
    /\ io = "idle" /\ r \in writing
    /\ \/ conn = "down" /\ UNCHANGED link
       \/ /\ conn = "up" /\ breaks < MaxBreaks
          /\ conn' = "down" /\ breaks' = breaks + 1
          /\ UNCHANGED authenticated
    /\ writing' = writing \ {r}
    /\ startSending' = FALSE
    /\ UNCHANGED <<queue, posted, strategy, io, pending, wire>>

\* handleOrderResponse().
Answer(r) ==
    /\ io = "idle" /\ r \in pending
    /\ pending' = pending \ {r}
    /\ UNCHANGED <<link, shared, strategy, io, writing, wire>>

\* A read error, a missing pong, a failed authentication: scheduleReconnect(),
\* which leaves authenticated_ as it is.
Break ==
    /\ conn # "down" /\ io = "idle" /\ breaks < MaxBreaks
    /\ conn' = "down" /\ breaks' = breaks + 1
    /\ UNCHANGED <<authenticated, shared, strategy, io, writing, pending, wire>>

\* reconnectOrderSender(), five seconds later: a new sender, empty queues.
Reconnect ==
    /\ conn = "down" /\ io = "idle"
    /\ conn' = "auth" /\ authenticated' = FALSE
    /\ startSending' = FALSE /\ posted' = 0
    /\ queue' = [k \in Queues |-> <<>>]
    /\ writing' = {} /\ pending' = {}
    /\ stale' = (caller # "idle")
    /\ UNCHANGED <<breaks, caller, request, placed, refused, io, wire>>

-----------------------------------------------------------------------------
Init ==
    /\ conn = "auth" /\ authenticated = FALSE /\ breaks = 0
    /\ startSending = FALSE /\ posted = 0
    /\ queue = [k \in Queues |-> <<>>]
    /\ io = "idle" /\ writing = {} /\ pending = {}
    /\ caller = "idle" /\ request = Nothing /\ stale = FALSE
    /\ placed = 0 /\ refused = {}
    /\ wire = <<>>

Strategy == Push \/ Kick \/ \E r \in Requests : PlaceOrder(r)

Sender ==
    \/ RunPosted \/ Clear \/ Recheck
    \/ \E k \in Queues : Pop(k)

Connection ==
    \/ Authenticated \/ Break \/ Reconnect
    \/ \E r \in Requests : Written(r) \/ WriteFails(r) \/ Answer(r)

\* Every request may be used up.
Next == Strategy \/ Sender \/ Connection

Spec == Init /\ [][Next]_vars

\* Both threads run; the exchange answers nothing it must.
Fairness ==
    /\ WF_vars(Push \/ Kick)
    /\ WF_vars(Sender)
    /\ \A r \in Requests : WF_vars(Written(r) \/ WriteFails(r))

FairSpec == Spec /\ Fairness

-----------------------------------------------------------------------------
(* Properties.                                                             *)

\* No wakeup is lost: while the connection is up and neither thread is inside
\* the sender, a request in a queue has a call of sendNext() or the completion
\* of a write coming that will take it (the race order_sender.cpp:233-243
\* closes against placeOrder() at 79-84).
NoRequestStranded ==
    conn = "up" /\ io = "idle" /\ caller = "idle"
        /\ (\E k \in Queues : queue[k] # <<>>)
    => posted > 0 \/ writing # {}

\* Of one type, requests reach the connection in the order they were placed, and
\* each at most once: the three queues may overtake one another, no request its own
\* kind, over all connections (order_sender.cpp:213-231).
SentInOrder ==
    \A i, j \in 1 .. Len(wire) :
        i < j /\ wire[i].kind = wire[j].kind => wire[i].id < wire[j].id

\* The strategy gives up a trade whose request was refused (trade.cpp:151-163),
\* so such a request must never reach the exchange (order_sender.cpp:46-76).
RefusedNeverSent == refused \cap ToSet(wire) = {}

\* A request in a queue is handed to the connection unless the connection breaks
\* first, whatever the two threads do meanwhile (order_sender.cpp:79-84, 213-245).
QueuedIsSent ==
    \A r \in Requests :
        conn = "up" /\ r \in ToSet(queue[r.kind])
            ~> r \in ToSet(wire) \/ conn # "up"

\* startSending_ says that a chain of sendNext() calls is running: "placeOrder()
\* saw startSending_=true and did not start the sending" (order_sender.cpp:236-237).
\* Then only one write is ever under way, as the one write_buffer_ demands.
OneWriteAtATime == Cardinality(writing) <= 1

=============================================================================
