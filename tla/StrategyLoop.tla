---------------------------- MODULE StrategyLoop ----------------------------
(***************************************************************************)
(* The strategy's thread (base_trading_strategy, imbalance_and_large) and  *)
(* what wakes it: the io threads of the public stream, the private stream  *)
(* and the order sender, and the main thread, which starts and stops it.   *)
(* A step is one access to what the threads share: dataMutex_, dataCV_,    *)
(* newData_, running_, the two queues under orderQueueMutex_, and the      *)
(* signal with its version.                                                *)
(***************************************************************************)
EXTENDS Integers, Sequences

CONSTANTS
    MaxUpdates,   \* bound on the order updates and answers that arrive
    MaxSignals,   \* bound on the intervals the indicator closes
    MaxStarts     \* bound on the calls of start()

ASSUME StrategyLoopAssumption ==
    MaxUpdates \in Nat /\ MaxSignals \in Nat /\ MaxStarts \in Nat

\* orderRequestResults_ is filled by the sender's thread, orderQueue_ by the
\* private stream's.
Channels == {"results", "orders"}
Threads  == Channels \cup {"public"}

VARIABLES
    running, newData,   \* running_, newData_
    locked,             \* does the strategy's thread hold dataMutex_
    worker,             \* where the strategy's thread is; "none" without one
    main,               \* where the main thread is in stop()
    notifier,           \* where each io thread is in its setter
    arrived,            \* how many items each channel has delivered, numbered from 1
    queue,              \* orderRequestResults_, orderQueue_
    batch,              \* what a drain took out of its queue and has not applied yet
    applied,            \* what the trade manager was given, in order
    due,                \* what had arrived when the current round began, else nothing
    signal, version,    \* signal_ (the interval it is of) and signalVersion_
    lastVersion,        \* lastSignalVersion_
    acted,              \* the signals the strategy acted on
    starts

sync   == <<running, newData, locked>>
data   == <<arrived, queue>>
round  == <<batch, applied, due>>
pfd    == <<signal, version>>
seen   == <<lastVersion, acted>>
vars   == <<sync, worker, main, notifier, data, round, pfd, seen, starts>>

Nothing == [c \in Channels |-> 0]

Upto(n) == [i \in 1 .. n |-> i]

TypeOK ==
    /\ running \in BOOLEAN /\ newData \in BOOLEAN /\ locked \in BOOLEAN
    /\ worker \in {"none", "top", "lock", "check", "park", "waiting", "go",
                   "results", "orders", "price", "signal"}
    /\ locked <=> worker \in {"check", "park", "go"}
    /\ main \in {"idle", "lock", "notify", "join"}
    /\ notifier \in [Threads -> {"idle", "publish", "lock", "notify"}]
    /\ arrived \in [Channels -> 0 .. MaxUpdates] /\ due \in [Channels -> 0 .. MaxUpdates]
    /\ {queue, batch, applied} \subseteq [Channels -> Seq(1 .. MaxUpdates)]
    /\ signal \in 0 .. MaxSignals /\ version \in 0 .. MaxSignals
    /\ lastVersion \in 0 .. version /\ acted \in Seq(1 .. MaxSignals)
    /\ starts \in 0 .. MaxStarts

-----------------------------------------------------------------------------
(* The io threads.                                                         *)

\* setOrder(), setOrderRequestResult(): push_back under orderQueueMutex_.
Deliver(c) ==
    /\ notifier[c] = "idle" /\ arrived["results"] + arrived["orders"] < MaxUpdates
    /\ arrived' = [arrived EXCEPT ![c] = @ + 1]
    /\ queue' = [queue EXCEPT ![c] = Append(@, arrived'[c])]
    /\ notifier' = [notifier EXCEPT ![c] = "lock"]
    /\ UNCHANGED <<sync, worker, main, round, pfd, seen, starts>>

\* setOrderbook(), setPublicTradeData(), which may close the indicator's interval:
\* checkSignal() stores the signal first and counts the version up afterwards.
MarketData ==
    /\ notifier["public"] = "idle"
    /\ \/ /\ notifier' = [notifier EXCEPT !["public"] = "lock"]
          /\ UNCHANGED signal
       \/ /\ signal < MaxSignals /\ signal' = signal + 1
          /\ notifier' = [notifier EXCEPT !["public"] = "publish"]
    /\ UNCHANGED <<sync, worker, main, data, round, version, seen, starts>>

Publish ==
    /\ notifier["public"] = "publish"
    /\ version' = version + 1
    /\ notifier' = [notifier EXCEPT !["public"] = "lock"]
    /\ UNCHANGED <<sync, worker, main, data, round, signal, seen, starts>>

\* Mutant: the flag is set without the mutex.
SetNewDataUnlocked(t) ==
    /\ notifier[t] = "lock"
    /\ newData' = TRUE
    /\ notifier' = [notifier EXCEPT ![t] = "notify"]
    /\ UNCHANGED <<running, locked, worker, main, data, round, pfd, seen, starts>>

\* notifyNewData(), under dataMutex_.
SetNewData(t) ==
    /\ notifier[t] = "lock" /\ ~locked
    /\ newData' = TRUE
    /\ notifier' = [notifier EXCEPT ![t] = "notify"]
    /\ UNCHANGED <<running, locked, worker, main, data, round, pfd, seen, starts>>

NotifyAll == worker' = IF worker = "waiting" THEN "lock" ELSE worker

Notify(t) ==
    /\ notifier[t] = "notify"
    /\ NotifyAll
    /\ notifier' = [notifier EXCEPT ![t] = "idle"]
    /\ UNCHANGED <<sync, main, data, round, pfd, seen, starts>>

-----------------------------------------------------------------------------
(* start() and stop(), in the main thread.                                 *)

Start ==
    /\ main = "idle" /\ ~running /\ starts < MaxStarts
    /\ running' = TRUE /\ worker' = "top" /\ starts' = starts + 1
    /\ UNCHANGED <<newData, locked, main, notifier, data, round, pfd, seen>>

Stop ==
    /\ main = "idle" /\ running
    /\ running' = FALSE /\ main' = "lock"
    /\ UNCHANGED <<newData, locked, worker, notifier, data, round, pfd, seen, starts>>

\* Mutant: stop() does not pass through the mutex.
SkipLock ==
    /\ main = "lock"
    /\ main' = "notify"
    /\ UNCHANGED <<sync, worker, notifier, data, round, pfd, seen, starts>>

\* The empty critical section of stop().
PassLock ==
    /\ main = "lock" /\ ~locked
    /\ main' = "notify"
    /\ UNCHANGED <<sync, worker, notifier, data, round, pfd, seen, starts>>

\* Mutant: stop() joins the thread without waking it.
NotifyNobody ==
    /\ main = "notify"
    /\ main' = "join"
    /\ UNCHANGED <<sync, worker, notifier, data, round, pfd, seen, starts>>

NotifyStop ==
    /\ main = "notify"
    /\ NotifyAll
    /\ main' = "join"
    /\ UNCHANGED <<sync, notifier, data, round, pfd, seen, starts>>

Join ==
    /\ main = "join" /\ worker = "none"
    /\ main' = "idle"
    /\ UNCHANGED <<sync, worker, notifier, data, round, pfd, seen, starts>>

-----------------------------------------------------------------------------
(* work(), in the strategy's thread.                                       *)

Top ==
    /\ worker = "top"
    /\ worker' = IF running THEN "lock" ELSE "none"
    /\ UNCHANGED <<sync, main, notifier, data, round, pfd, seen, starts>>

Lock ==
    /\ worker = "lock"
    /\ worker' = "check" /\ locked' = TRUE
    /\ UNCHANGED <<running, newData, main, notifier, data, round, pfd, seen, starts>>

\* The predicate of wait(), evaluated with the mutex held.
Check ==
    /\ worker = "check"
    /\ worker' = IF newData \/ ~running THEN "go" ELSE "park"
    /\ UNCHANGED <<sync, main, notifier, data, round, pfd, seen, starts>>

\* wait() gives up the mutex and blocks in one step.
Park ==
    /\ worker = "park"
    /\ worker' = "waiting" /\ locked' = FALSE
    /\ UNCHANGED <<running, newData, main, notifier, data, round, pfd, seen, starts>>

SpuriousWakeup ==
    /\ worker = "waiting"
    /\ worker' = "lock"
    /\ UNCHANGED <<sync, main, notifier, data, round, pfd, seen, starts>>

\* Mutant: a round looks at the price before it drains the queues.
GoToPrice ==
    /\ worker = "go"
    /\ locked' = FALSE
    /\ IF running
       THEN worker' = "price" /\ newData' = FALSE /\ due' = arrived
       ELSE worker' = "none" /\ UNCHANGED <<newData, due>>
    /\ UNCHANGED <<running, main, notifier, data, batch, applied, pfd, seen, starts>>

Go ==
    /\ worker = "go"
    /\ locked' = FALSE
    /\ IF running
       THEN worker' = "results" /\ newData' = FALSE /\ due' = arrived
       ELSE worker' = "none" /\ UNCHANGED <<newData, due>>
    /\ UNCHANGED <<running, main, notifier, data, batch, applied, pfd, seen, starts>>

AfterDrain == [results |-> "orders", orders |-> "price"]

Item(c) ==
    /\ batch[c] # <<>>
    /\ applied' = [applied EXCEPT ![c] = Append(@, Head(batch[c]))]
    /\ batch' = [batch EXCEPT ![c] = Tail(@)]
    /\ worker' = IF Len(batch[c]) = 1 THEN AfterDrain[c] ELSE worker
    /\ UNCHANGED queue

\* Mutant: only the newest item of the queue is taken.
SwapNewest(c) ==
    /\ batch[c] = <<>>
    /\ worker' = IF queue[c] = <<>> THEN AfterDrain[c] ELSE worker
    /\ batch' = [batch EXCEPT ![c] =
         IF queue[c] = <<>> THEN <<>> ELSE <<queue[c][Len(queue[c])]>>]
    /\ queue' = [queue EXCEPT ![c] = <<>>]
    /\ UNCHANGED applied

Swap(c) ==
    /\ batch[c] = <<>>
    /\ worker' = IF queue[c] = <<>> THEN AfterDrain[c] ELSE worker
    /\ batch' = [batch EXCEPT ![c] = queue[c]]
    /\ queue' = [queue EXCEPT ![c] = <<>>]
    /\ UNCHANGED applied

\* drainOrderRequestResults(), drainOrderUpdates(): the queue is swapped under its
\* mutex, then every item is given to the trade manager.
Drain(c) ==
    /\ worker = c
    /\ Swap(c) \/ Item(c)
    /\ UNCHANGED <<sync, main, notifier, arrived, due, pfd, seen, starts>>

\* Mutant: a signal is put off while new data waits, but its version is noted.
PriceAndLastData ==
    /\ worker = "price"
    /\ worker' = IF version = lastVersion \/ newData THEN "top" ELSE "signal"
    /\ due' = IF version = lastVersion \/ newData THEN Nothing ELSE due
    /\ lastVersion' = version
    /\ UNCHANGED <<sync, main, notifier, data, batch, applied, pfd, acted, starts>>

\* checkCurrentPrice(), then the version of the signal.
PriceAndVersion ==
    /\ worker = "price"
    /\ worker' = IF version = lastVersion THEN "top" ELSE "signal"
    /\ due' = IF version = lastVersion THEN Nothing ELSE due
    /\ lastVersion' = version
    /\ UNCHANGED <<sync, main, notifier, data, batch, applied, pfd, acted, starts>>

\* getSignal() and makeTrade().
ActOnSignal ==
    /\ worker = "signal"
    /\ worker' = "top"
    /\ acted' = Append(acted, signal)
    /\ due' = Nothing
    /\ UNCHANGED <<sync, main, notifier, data, batch, applied, pfd, lastVersion, starts>>

-----------------------------------------------------------------------------
Init ==
    /\ running = FALSE /\ newData = FALSE /\ locked = FALSE
    /\ worker = "none" /\ main = "idle"
    /\ notifier = [t \in Threads |-> "idle"]
    /\ arrived = Nothing /\ due = Nothing
    /\ queue = [c \in Channels |-> <<>>] /\ batch = queue /\ applied = queue
    /\ signal = 0 /\ version = 0 /\ lastVersion = 0 /\ acted = <<>>
    /\ starts = 0

Worker ==
    \/ Top \/ Lock \/ Check \/ Park \/ Go
    \/ Drain("results") \/ Drain("orders") \/ PriceAndVersion \/ ActOnSignal

MainStops == PassLock \/ NotifyStop \/ Join

Setter(t) == SetNewData(t) \/ Notify(t) \/ (t = "public" /\ Publish)

Next ==
    \/ Worker \/ SpuriousWakeup \/ Start \/ Stop \/ MainStops \/ MarketData
    \/ \E c \in Channels : Deliver(c)
    \/ \E t \in Threads : Setter(t)

Spec == Init /\ [][Next]_vars

\* The threads are scheduled, and a mutex given up again and again is got (hence SF);
\* nothing need arrive, and no wakeup is spurious on demand.
Fairness ==
    /\ WF_vars(Worker)
    /\ \A t \in Threads : SF_vars(Setter(t))
    /\ WF_vars(MainStops)

FairSpec == Spec /\ Fairness

-----------------------------------------------------------------------------
(* Properties.                                                             *)

\* No notify is lost "between the check of the predicate and the entry into wait"
\* (base_trading_strategy.h): while the thread sleeps with something to do, a thread
\* that changed newData_ or running_ has its notify_all() still to come.
NoLostWakeup ==
    worker = "waiting" /\ (newData \/ ~running)
    => (\E t \in Threads : notifier[t] = "notify") \/ main \in {"lock", "notify"}

\* Every update and every answer reaches the trade manager once and in the order of
\* its arrival, whatever arrives during a drain (imbalance_and_large.cpp:94-136).
NothingLost ==
    \A c \in Channels : applied[c] \o batch[c] \o queue[c] = Upto(arrived[c])

\* "First we apply the confirmations of orders, then check TP/SL, and only then look
\* at a new signal" (imbalance_and_large.cpp:148-150): before the price is judged,
\* everything that had arrived when the round began was applied.
ConfirmedBeforeTrading ==
    worker \in {"price", "signal"} =>
        \A c \in Channels : Len(applied[c]) >= due[c]

\* The strategy has acted on the newest signal when it has seen the newest version:
\* the version is counted up after the signal is stored and read before it, so that
\* a signal stored in between is acted on early, never missed
\* (imbalance_and_large.cpp:162-170, price_flow_divergence.cpp:241-242).
NewestSignalActedOn ==
    version > 0 /\ lastVersion = version /\ worker # "signal"
        /\ notifier["public"] # "publish"
    => acted # <<>> /\ acted[Len(acted)] = signal

\* An update that arrived is applied, unless the strategy is stopped first: it never
\* waits for the next update to wake the thread.
UpdatesApplied ==
    \A c \in Channels : running /\ queue[c] # <<>> ~> queue[c] = <<>> \/ ~running

\* stop() returns: the thread it joins wakes up and ends.
StopReturns == main # "idle" ~> main = "idle"

=============================================================================
