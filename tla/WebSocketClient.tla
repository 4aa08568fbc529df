-------------------------- MODULE WebSocketClient --------------------------
(***************************************************************************)
(* One of the three connections to the exchange: the websocket clients     *)
(* that serve it one after another and the connection manager, which       *)
(* replaces a broken client by a new one.  All handlers of a connection    *)
(* run in one io thread, so a step is one whole handler.                   *)
(*                                                                         *)
(* The connecting steps, the ping and the two timers hold a shared_ptr to  *)
(* the client; reads, writes and the timeout of the authentication hold a  *)
(* raw pointer and may end after it was destroyed.                         *)
(***************************************************************************)
EXTENDS Integers, FiniteSets

CONSTANTS
    MaxClients,    \* bound on the number of clients made and asked for
    MaxFaults      \* bound on the number of failures of the network and the exchange

ASSUME WebSocketClientAssumption == MaxClients \in Nat \ {0} /\ MaxFaults \in Nat

\* The classes derived from BaseWebSocketClient.
Kinds == {"PublicDataHandler", "PrivateDataHandler", "OrderSender"}

Clients == 1 .. MaxClients

VARIABLES
    kind,      \* which connection this is
    client,    \* the state of each client
    current,   \* the manager's client; those with greater numbers do not exist yet
    posted,    \* calls of the reconnect callback not executed yet
    over,      \* a handler ran on a destroyed client and ended the program
    faults

vars == <<kind, client, current, posted, over, faults>>

Connecting == {"resolve", "connect", "ssl", "handshake"}

Writes == {"auth", "subscribe", "order"}

Operations == Writes \cup {"read", "ping"}

\* stage     the connecting operation under way; then "open": ws_.is_open(); a
\*           destroyed client has nothing left but its writes' handlers
\* link      "silent": nothing arrives any more; "broken": torn; "closed": by onClose()
\* error     the operation that got the stream's error; the others get operation_aborted
\* ended     operations that have ended, their handlers being due
\* reading   an async_read is under way
\* writes    the async_writes under way
\* ping      pingTimer_ runs, or an async_ping is under way
\* waitPong  isWaitPing_
\* auth      "timer": auth_timer_ runs; "late": and was started after reconnectTimer_,
\*           whose five seconds end first; "done": authenticated_
\* ready     the subscription was accepted
\* closing   isReconnecting_: reconnectTimer_ runs
\* asked     how often the client called the reconnect callback
Client ==
    [stage : Connecting \cup {"open", "failed", "destroyed"},
     link : {"alive", "silent", "broken", "closed"},
     error : {"none"} \cup Operations, ended : SUBSET Operations,
     reading : BOOLEAN, writes : SUBSET Writes,
     ping : {"off", "timer", "sending"}, waitPong : BOOLEAN,
     auth : {"none", "timer", "late", "done"}, ready : BOOLEAN, closing : BOOLEAN,
     asked : Nat]

Fresh ==
    [stage |-> "resolve", link |-> "alive", error |-> "none", ended |-> {},
     reading |-> FALSE, writes |-> {}, ping |-> "off", waitPong |-> FALSE,
     auth |-> "none", ready |-> FALSE, closing |-> FALSE, asked |-> 0]

TypeOK ==
    /\ kind \in Kinds
    /\ client \in [Clients -> Client]
    /\ current \in Clients
    /\ posted \in Nat
    /\ over \in BOOLEAN
    /\ faults \in 0 .. MaxFaults

-----------------------------------------------------------------------------
\* scheduleReconnect(): without effect while reconnectTimer_ runs.
ScheduleReconnect(cl) == [cl EXCEPT !.closing = TRUE]

\* What holds a shared_ptr to the client, the manager's apart.
Holds(cl) == cl.stage \in Connecting \/ cl.ping # "off" \/ cl.closing

\* The destructor closes the socket; the read's handler gets operation_aborted and
\* returns.
Destroyed(cl) ==
    [Fresh EXCEPT !.stage = "destroyed", !.link = "closed", !.writes = cl.writes,
                  !.asked = cl.asked]

Kept(cl) == IF Holds(cl) THEN cl ELSE Destroyed(cl)

Set(c, cl) == client' = [client EXCEPT ![c] = IF c = current THEN cl ELSE Kept(cl)]

Become(c, cl) == Set(c, cl) /\ UNCHANGED <<kind, current, posted, over>>

Fault == faults < MaxFaults /\ faults' = faults + 1

NoFault == UNCHANGED faults

\* What the stream makes of an operation: it may end well, ...
Succeeds(cl, op) ==
    /\ cl.stage = "open"
    /\ cl.link \in {"alive", "silent"} \/ op \in cl.ended

\* ... or with an error, ...
Fails(cl) == cl.stage = "failed" \/ (cl.stage = "open" /\ cl.link \in {"broken", "closed"})

\* ... which is operation_aborted once another one failed or the socket was closed.
Aborted(cl) == cl.stage = "failed" \/ cl.link = "closed"

Done(cl, op) == [cl EXCEPT !.writes = @ \ {op}, !.ended = @ \ {op}]

UnderWay(cl) ==
    cl.writes \cup (IF cl.reading THEN {"read"} ELSE {})
              \cup (IF cl.ping = "sending" THEN {"ping"} ELSE {})

\* The first failure of an open stream ends what else is under way.
Failed(cl, op) ==
    IF cl.stage = "failed" THEN Done(cl, op)
    ELSE [Done(cl, op) EXCEPT !.stage = "failed", !.error = op,
                              !.ended = UnderWay(cl) \ {op}]

-----------------------------------------------------------------------------
\* startPing(), doRead() and the first write: the public stream needs no authentication.
Opened(cl) ==
    [cl EXCEPT !.stage = "open", !.reading = TRUE, !.ping = "timer",
               !.writes = IF kind = "PublicDataHandler" THEN {"subscribe"} ELSE {"auth"}]

After == [resolve |-> "connect", connect |-> "ssl", ssl |-> "handshake"]

\* onResolve(), onConnect(), onSslHandshake() and onHandshake().
ConnectStep(c) ==
    LET cl == client[c] IN
    /\ cl.stage \in Connecting
    /\ \/ /\ Fault
          /\ Become(c, ScheduleReconnect([cl EXCEPT !.stage = "failed"]))
       \/ /\ NoFault
          /\ Become(c, IF cl.stage = "handshake" THEN Opened(cl)
                       ELSE [cl EXCEPT !.stage = After[@]])

\* on_auth_response(), onSubscribeSent() and on_write().
Written(c, w) ==
    LET cl == client[c] IN
    /\ w \in cl.writes /\ Succeeds(cl, w)
    /\ NoFault
    /\ Become(c, IF w = "auth" /\ cl.auth # "done"
                 THEN [Done(cl, w) EXCEPT !.auth = IF cl.closing THEN "late" ELSE "timer"]
                 ELSE Done(cl, w))

\* The same with any error: operation_aborted too asks for a reconnection.
WriteFails(c, w) ==
    LET cl == client[c] IN
    /\ w \in cl.writes /\ Fails(cl)
    /\ NoFault
    /\ Become(c, ScheduleReconnect(Failed(cl, w)))

\* The handler of a write of a destroyed client: what it does is undefined, and may
\* be nothing, or the end of the program (shared_from_this() of no object throws).
OrphanWritten(c) ==
    /\ client[c].stage = "destroyed" /\ client[c].writes # {}
    /\ client' = [client EXCEPT ![c].writes = {}]
    /\ over' \in BOOLEAN
    /\ UNCHANGED <<kind, current, posted, faults>>

\* sendNext(), while the sender's one write is not under way; authenticated_ is never
\* cleared, so that it goes on after a failure.
SendOrder(c) ==
    LET cl == client[c] IN
    /\ kind = "OrderSender" /\ c = current
    /\ cl.auth = "done" /\ cl.writes = {}
    /\ NoFault
    /\ Become(c, [cl EXCEPT !.writes = {"order"}])

\* Mutant: the end of the stream is not an error.
ReadEnds(c) ==
    LET cl == client[c] IN
    /\ cl.reading /\ Fails(cl)
    /\ NoFault
    /\ Become(c, [Failed(cl, "read") EXCEPT !.reading = FALSE])

\* onRead() with an error; operation_aborted schedules nothing.
ReadFails(c) ==
    LET cl == client[c]
        done == [Failed(cl, "read") EXCEPT !.reading = FALSE]
    IN
    /\ cl.reading /\ Fails(cl)
    /\ NoFault
    /\ Become(c, IF Aborted(cl) THEN done ELSE ScheduleReconnect(done))

Receives(cl) == cl.stage = "open" /\ cl.reading /\ cl.link = "alive"

\* A message is handled, possibly after onClose() because it had come before.
Arrives(cl) == cl.reading /\ Succeeds(cl, "read") /\ cl.link # "silent"

\* checkStatus(): the answer to auth, before or after on_auth_response().
AuthAnswered(c) ==
    LET cl == client[c]
        read == [Done(cl, "read") EXCEPT !.ended = @ \cup ({"auth"} \cap cl.writes)]
    IN
    /\ Arrives(cl) /\ kind # "PublicDataHandler" /\ cl.auth # "done"
    /\ \/ Fault /\ Become(c, ScheduleReconnect(read))
       \/ /\ NoFault
          /\ Become(c, IF kind = "PrivateDataHandler"
                       THEN [read EXCEPT !.auth = "done", !.writes = @ \cup {"subscribe"}]
                       ELSE [read EXCEPT !.auth = "done", !.ready = TRUE])

\* The answer to the subscription, which the public handler only parses.
SubscriptionAnswered(c) ==
    LET cl == client[c]
        read == Done(cl, "read")
    IN
    /\ Arrives(cl) /\ ~cl.ready /\ "subscribe" \notin cl.writes
    /\ kind # "OrderSender" /\ (kind = "PrivateDataHandler" => cl.auth = "done")
    /\ \/ /\ kind = "PrivateDataHandler"
          /\ Fault /\ Become(c, ScheduleReconnect(read))
       \/ NoFault /\ Become(c, [read EXCEPT !.ready = TRUE])

\* auth_timer_ expires; it dies with the client.
AuthTimeout(c) ==
    LET cl == client[c] IN
    /\ cl.auth = "timer" \/ (cl.auth = "late" /\ cl.asked > 0)
    /\ IF Receives(cl) /\ ~cl.closing THEN Fault ELSE NoFault
    /\ Become(c, ScheduleReconnect([cl EXCEPT !.auth = "none"]))

\* Mutant: a missing pong goes unnoticed.
PingTimerIgnoresPong(c) ==
    LET cl == client[c] IN
    /\ cl.ping = "timer" /\ (cl.waitPong => ~Receives(cl))
    /\ NoFault
    /\ Become(c, IF cl.stage = "open"
                 THEN [cl EXCEPT !.ping = "sending", !.waitPong = TRUE]
                 ELSE [cl EXCEPT !.ping = "off"])

\* onPingTimer(); a pong of a live link comes within the twenty seconds.
PingTimer(c) ==
    LET cl == client[c] IN
    /\ cl.ping = "timer" /\ (cl.waitPong => ~Receives(cl))
    /\ NoFault
    /\ Become(c, IF cl.waitPong
                 THEN ScheduleReconnect([cl EXCEPT !.ping = "off"])
                 ELSE IF cl.stage = "open"
                 THEN [cl EXCEPT !.ping = "sending", !.waitPong = TRUE]
                 ELSE [cl EXCEPT !.ping = "off"])

\* onPingSent(): an error is left to the other operations.  A ping waits for the
\* write under way.
PingSent(c) ==
    LET cl == client[c] IN
    /\ cl.ping = "sending"
    /\ NoFault
    /\ \/ /\ Succeeds(cl, "ping") /\ cl.writes = {}
          /\ Become(c, [Done(cl, "ping") EXCEPT !.ping = "timer"])
       \/ /\ Fails(cl)
          /\ Become(c, [Failed(cl, "ping") EXCEPT !.ping = "off"])

\* onControlFrame().
Pong(c) ==
    LET cl == client[c] IN
    /\ Receives(cl) /\ cl.waitPong /\ cl.ping # "sending"
    /\ NoFault
    /\ Become(c, [cl EXCEPT !.waitPong = FALSE])

\* Mutant: the manager is told while the old connection stays open.
OnCloseKeepsSocket(c) ==
    /\ client[c].closing /\ current + posted < MaxClients
    /\ Set(c, [client[c] EXCEPT !.closing = FALSE, !.asked = @ + 1])
    /\ posted' = posted + 1
    /\ UNCHANGED <<kind, current, over, faults>>

\* onClose(): reconnectTimer_, five seconds after scheduleReconnect(), whatever is
\* under way: the close ends it, unless it ended just before.  A ping timer that expires
\* and a link that breaks just before still have their effect; what had ended before that,
\* the task of an earlier call included, has run its handler.
OnClose(c) ==
    LET cl == client[c]
        reset == [cl EXCEPT !.closing = FALSE, !.asked = @ + 1, !.ended = UnderWay(cl)]
    IN
    /\ cl.closing /\ cl.ended = {} /\ cl.auth # "timer"
    /\ cl.asked > 0 => c # current
    /\ current + posted < MaxClients
    /\ \E p \in {"off", cl.ping}, l \in {"closed", "broken"} :
         /\ p = cl.ping \/ cl.ping = "timer"
         /\ IF l = "broken" THEN cl.stage = "open" /\ cl.link = "alive" /\ Fault ELSE NoFault
         /\ Set(c, IF cl.stage = "open" THEN [reset EXCEPT !.ping = p, !.link = l]
                   ELSE [reset EXCEPT !.ping = p])
    /\ posted' = posted + 1
    /\ UNCHANGED <<kind, current, over>>

\* The task of the reconnect callbacks: reconnect*(), then connect().  It is posted after
\* the handlers of what the close ended; a ping may wait for a write before.
Replace ==
    /\ posted > 0 /\ current < MaxClients
    /\ client[current].ended \subseteq {"ping"}
    /\ posted' = posted - 1
    /\ current' = current + 1
    /\ client' = [client EXCEPT ![current] = Kept(@)]
    /\ UNCHANGED <<kind, over, faults>>

Torn(cl) == [cl EXCEPT !.link = "broken", !.ended = UnderWay(cl)]

\* The network, which may tear a link, or carry nothing more without a word.
LinkFails(c) ==
    LET cl == client[c] IN
    /\ cl.stage = "open" /\ cl.link = "alive"
    /\ Fault
    /\ Become(c, Torn(cl)) \/ Become(c, [cl EXCEPT !.link = "silent"])

\* TCP gives up when what it sent is not acknowledged.
SilentBreaks(c) ==
    LET cl == client[c] IN
    /\ cl.link = "silent" /\ (cl.writes # {} \/ cl.ping = "sending")
    /\ NoFault
    /\ Become(c, Torn(cl))

-----------------------------------------------------------------------------
Init ==
    /\ kind \in Kinds
    /\ client = [c \in Clients |-> Fresh]
    /\ current = 1 /\ posted = 0 /\ over = FALSE /\ faults = 0

WriteDone(c) == \E w \in client[c].writes : Written(c, w) \/ WriteFails(c, w)

Step(c) ==
    \/ ConnectStep(c) \/ WriteDone(c) \/ SendOrder(c) \/ ReadFails(c)
    \/ AuthAnswered(c) \/ SubscriptionAnswered(c) \/ AuthTimeout(c)
    \/ PingTimer(c) \/ PingSent(c) \/ Pong(c) \/ OnClose(c)
    \/ OrphanWritten(c) \/ LinkFails(c) \/ SilentBreaks(c)

Next == ~over /\ (Replace \/ \E c \in Clients : c <= current /\ Step(c))

Spec == Init /\ [][Next]_vars

\* The io thread runs what is due, the timers expire, and a live exchange answers;
\* that an operation ends, with or without an error, is the operating system's part:
\* the code sets no time limit on it.
Fairness ==
    /\ WF_vars(~over /\ Replace)
    /\ \A c \in Clients :
         /\ WF_vars(~over /\ c <= current /\ ConnectStep(c))
         /\ WF_vars(~over /\ WriteDone(c)) /\ WF_vars(~over /\ ReadFails(c))
         /\ WF_vars(~over /\ AuthAnswered(c)) /\ WF_vars(~over /\ SubscriptionAnswered(c))
         /\ WF_vars(~over /\ AuthTimeout(c) /\ client[c].link # "alive")
         /\ WF_vars(~over /\ PingTimer(c)) /\ WF_vars(~over /\ PingSent(c))
         /\ WF_vars(~over /\ Pong(c)) /\ WF_vars(~over /\ OnClose(c))
         /\ WF_vars(~over /\ SilentBreaks(c))

FairSpec == Spec /\ Fairness

-----------------------------------------------------------------------------
(* Properties.                                                             *)

\* A handler of the manager's client is due that reports a failure, now or when one
\* comes, or the replacement is under way.
Served ==
    LET cl == client[current] IN
    \/ cl.stage \in Connecting \/ (cl.stage = "open" /\ cl.reading)
    \/ cl.writes # {} \/ cl.auth \in {"timer", "late"} \/ cl.closing \/ posted > 0

\* A client already closed asked for another replacement.
AskedAgain == \E c \in Clients : client[c].asked > 1

\* The connection is given up in one way only: its ping got the error, which
\* onPingSent() ignores (base_websocket_client.cpp:146-153), and the read returned on
\* operation_aborted because "the reconnection is scheduled already"
\* (order_sender.cpp:157, public_data_handler.cpp:89), which it was not.
NeverAbandoned == Served \/ client[current].error = "ping"

\* "Already reconnecting, ignoring duplicate request" (base_websocket_client.cpp:159):
\* however many operations of a client fail, and in which order, no replacement is asked
\* for once the new client is up.
DuplicatesIgnored == posted > 0 => ~(client[current].ready /\ Receives(client[current]))

\* Two clients never receive the stream at the same time, when the strategy would see
\* every trade and every order update twice, before a handler of a closed client has
\* asked for another replacement (base_websocket_client.cpp:172-196,
\* connection_manager.cpp:79-111).
OneStream ==
    AskedAgain \/ Cardinality({c \in 1 .. current : Receives(client[c])}) <= 1

\* Once the network and the exchange stop failing, the connection comes up and stays
\* up, whatever was under way when they failed; unless a failed ping has left it to
\* itself, a closed client has asked again, or a destroyed one has ended the program.
Recovers ==
    \/ <>[](client[current].ready /\ Receives(client[current]))
    \/ <>[]~Served \/ <>(AskedAgain \/ over)
=============================================================================
