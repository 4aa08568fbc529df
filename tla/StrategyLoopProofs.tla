------------------------- MODULE StrategyLoopProofs -------------------------
(***************************************************************************)
(* The safety of the strategy's loop for any number of updates, signals    *)
(* and starts.  The invariant has three parts: how the wakeup works (Sync),*)
(* where each item is on its way to the trade manager (Items), and how the *)
(* signal's version follows the signal (Versions).                         *)
(***************************************************************************)
EXTENDS StrategyLoop, SequenceTheorems, TLAPS

SyncTyped ==
    /\ running \in BOOLEAN /\ newData \in BOOLEAN /\ locked \in BOOLEAN
    /\ worker \in {"none", "top", "lock", "check", "park", "waiting", "go",
                   "results", "orders", "price", "signal"}
    /\ locked <=> worker \in {"check", "park", "go"}
    /\ main \in {"idle", "lock", "notify", "join"}
    /\ notifier \in [Threads -> {"idle", "publish", "lock", "notify"}]

\* Between the predicate and the sleep nobody can set the flag, and stop() cannot
\* pass the mutex; a thread outlives running_ only while stop() is under way.
Sync ==
    /\ worker = "park" => ~newData
    /\ worker = "park" /\ ~running => main = "lock"
    /\ worker # "none" /\ ~running => main \in {"lock", "notify", "join"}
    /\ NoLostWakeup


LEMMA SyncInit == Init => SyncTyped /\ Sync
BY DEF Init, SyncTyped, Sync, NoLostWakeup, Threads

\* An io thread's step wakes the strategy's thread or leaves a notify to come.
LEMMA SyncSetter ==
    ASSUME SyncTyped, Sync, NEW t \in Threads, Setter(t)
    PROVE  SyncTyped' /\ Sync'
<1>1. CASE SetNewData(t)
  BY <1>1 DEF SetNewData, SyncTyped, Sync, NoLostWakeup
<1>2. CASE Notify(t)
  BY <1>2 DEF Notify, NotifyAll, SyncTyped, Sync, NoLostWakeup, sync
<1>3. CASE Publish
  BY <1>3 DEF Publish, SyncTyped, Sync, NoLostWakeup, sync, Threads
<1> QED
  BY <1>1, <1>2, <1>3 DEF Setter

LEMMA SyncArrival ==
    ASSUME SyncTyped, Sync, MarketData \/ \E c \in Channels : Deliver(c)
    PROVE  SyncTyped' /\ Sync'
<1>1. CASE MarketData
  BY <1>1 DEF MarketData, SyncTyped, Sync, NoLostWakeup, sync, Threads
<1>2. ASSUME NEW c \in Channels, Deliver(c)
      PROVE  SyncTyped' /\ Sync'
  BY <1>2 DEF Deliver, SyncTyped, Sync, NoLostWakeup, sync, Threads
<1> QED
  BY <1>1, <1>2

LEMMA SyncMain ==
    ASSUME SyncTyped, Sync, Start \/ Stop \/ MainStops
    PROVE  SyncTyped' /\ Sync'
<1>1. CASE Start
  BY <1>1 DEF Start, SyncTyped, Sync, NoLostWakeup
<1>2. CASE Stop
  BY <1>2 DEF Stop, SyncTyped, Sync, NoLostWakeup
<1>3. CASE PassLock
  BY <1>3 DEF PassLock, SyncTyped, Sync, NoLostWakeup, sync
<1>4. CASE NotifyStop
  BY <1>4 DEF NotifyStop, NotifyAll, SyncTyped, Sync, NoLostWakeup, sync
<1>5. CASE Join
  BY <1>5 DEF Join, SyncTyped, Sync, NoLostWakeup, sync
<1> QED
  BY <1>1, <1>2, <1>3, <1>4, <1>5 DEF MainStops

\* A step that stays between "results" and "top" touches nothing of the wakeup.
LEMMA SyncRound ==
    ASSUME SyncTyped, Sync, worker \in {"results", "orders", "price", "signal"},
           worker' \in {"results", "orders", "price", "signal", "top"},
           UNCHANGED <<running, newData, locked, main, notifier>>
    PROVE  SyncTyped' /\ Sync'
BY DEF SyncTyped, Sync, NoLostWakeup

LEMMA DrainGoesOn ==
    ASSUME NEW c \in Channels, Drain(c)
    PROVE  /\ worker \in {"results", "orders"}
           /\ worker' \in {"results", "orders", "price"}
           /\ UNCHANGED <<running, newData, locked, main, notifier>>
BY DEF Drain, Swap, Item, AfterDrain, Channels, sync

LEMMA SyncWorker ==
    ASSUME SyncTyped, Sync, Worker \/ SpuriousWakeup
    PROVE  SyncTyped' /\ Sync'
<1>1. CASE Top
  BY <1>1 DEF Top, SyncTyped, Sync, NoLostWakeup, sync
<1>2. CASE Lock
  BY <1>2 DEF Lock, SyncTyped, Sync, NoLostWakeup
<1>3. CASE Check
  BY <1>3 DEF Check, SyncTyped, Sync, NoLostWakeup, sync
<1>4. CASE Park
  BY <1>4 DEF Park, SyncTyped, Sync, NoLostWakeup
<1>5. CASE Go
  BY <1>5 DEF Go, SyncTyped, Sync, NoLostWakeup
<1>6. CASE Drain("results") \/ Drain("orders")
  BY <1>6, DrainGoesOn, SyncRound DEF Channels
<1>7. CASE PriceAndVersion
  BY <1>7, SyncRound DEF PriceAndVersion, sync
<1>8. CASE ActOnSignal
  BY <1>8, SyncRound DEF ActOnSignal, sync
<1>9. CASE SpuriousWakeup
  BY <1>9 DEF SpuriousWakeup, SyncTyped, Sync, NoLostWakeup, sync
<1> QED
  BY <1>1, <1>2, <1>3, <1>4, <1>5, <1>6, <1>7, <1>8, <1>9 DEF Worker

LEMMA SyncNext ==
    ASSUME SyncTyped, Sync, [Next]_vars
    PROVE  SyncTyped' /\ Sync'
<1>1. CASE Next
  BY <1>1, SyncSetter, SyncArrival, SyncMain, SyncWorker DEF Next
<1>2. CASE UNCHANGED vars
  BY <1>2 DEF vars, sync, SyncTyped, Sync, NoLostWakeup
<1> QED
  BY <1>1, <1>2

-----------------------------------------------------------------------------
(* Sequences.                                                              *)

LEMMA UptoNext ==
    ASSUME NEW n \in Nat
    PROVE  /\ Upto(n) \in Seq(Nat) /\ Len(Upto(n)) = n
           /\ Append(Upto(n), n + 1) = Upto(n + 1)
<1>1. Upto(n) \in Seq(Nat) /\ Len(Upto(n)) = n /\ Upto(n + 1) \in Seq(Nat)
  BY DEF Upto
<1> QED
  BY <1>1 DEF Upto

\* What is appended to the last of three sequences is appended to all of them.
LEMMA AppendThird ==
    ASSUME NEW S, NEW a \in Seq(S), NEW b \in Seq(S), NEW q \in Seq(S), NEW x \in S
    PROVE  a \o b \o Append(q, x) = Append(a \o b \o q, x)
<1>1. a \o b \in Seq(S)
  BY ConcatProperties
<1>2. /\ a \o b \o Append(q, x) \in Seq(S) /\ Append(a \o b \o q, x) \in Seq(S)
      /\ Len(a \o b \o Append(q, x)) = Len(Append(a \o b \o q, x))
  BY <1>1, ConcatProperties, AppendProperties
<1>3. ASSUME NEW i \in 1 .. Len(a \o b \o Append(q, x))
      PROVE  (a \o b \o Append(q, x))[i] = Append(a \o b \o q, x)[i]
  BY <1>1
<1> QED
  BY <1>2, <1>3, SeqEqual

\* Taking the head of the second and appending it to the first leaves their sum.
LEMMA MoveHead ==
    ASSUME NEW S, NEW a \in Seq(S), NEW b \in Seq(S), b # <<>>
    PROVE  Append(a, Head(b)) \o Tail(b) = a \o b
<1>1. Head(b) \in S /\ Tail(b) \in Seq(S) /\ Len(Tail(b)) = Len(b) - 1
  BY HeadTailProperties
<1>2. Append(a, Head(b)) \in Seq(S) /\ Len(Append(a, Head(b))) = Len(a) + 1
  BY <1>1, AppendProperties
<1>3. /\ Append(a, Head(b)) \o Tail(b) \in Seq(S) /\ a \o b \in Seq(S)
      /\ Len(Append(a, Head(b)) \o Tail(b)) = Len(a \o b)
  BY <1>1, <1>2, ConcatProperties, LenProperties
<1>4. ASSUME NEW i \in 1 .. Len(a \o b)
      PROVE  (Append(a, Head(b)) \o Tail(b))[i] = (a \o b)[i]
  BY <1>1, <1>2
<1> QED
  BY <1>3, <1>4, SeqEqual

-----------------------------------------------------------------------------
(* Where the items are.                                                    *)

ItemsTyped ==
    /\ arrived \in [Channels -> Nat] /\ due \in [Channels -> Nat]
    /\ {queue, batch, applied} \subseteq [Channels -> Seq(Nat)]

\* The stages of a round at which a channel's drain is over.
Drained == [results |-> {"orders", "price", "signal"}, orders |-> {"price", "signal"}]

\* A batch is applied before its drain ends, and reaches as far as the items that
\* had arrived when the round began.
RoundOf(c) ==
    /\ due[c] <= arrived[c]
    /\ batch[c] # <<>> => worker = c /\ Len(applied[c]) + Len(batch[c]) >= due[c]
    /\ worker \in Drained[c] => Len(applied[c]) >= due[c]

Rounds == \A c \in Channels : RoundOf(c)

Items == ItemsTyped /\ NothingLost /\ Rounds

LEMMA SumKept ==
    \A p, q, d \in Nat : p + q >= 0 /\ (p + q >= d => (p + 1) + (q - 1) >= d)
OBVIOUS

\* With no batch and an empty queue everything that arrived was applied.
LEMMA AllApplied ==
    ASSUME Items, NEW c \in Channels, batch[c] = <<>>
    PROVE  Len(applied[c]) + Len(queue[c]) = arrived[c]
<1>1. applied[c] \o batch[c] \o queue[c] = Upto(arrived[c])
  BY DEF Items, NothingLost
<1>2. applied[c] \in Seq(Nat) /\ queue[c] \in Seq(Nat) /\ arrived[c] \in Nat
  BY DEF Items, ItemsTyped
<1>3. applied[c] \o queue[c] = Upto(arrived[c])
  BY <1>1, <1>2, ConcatEmptySeq
<1>4. Len(applied[c] \o queue[c]) = Len(applied[c]) + Len(queue[c])
  BY <1>2, ConcatProperties
<1>5. Len(Upto(arrived[c])) = arrived[c]
  BY <1>2, UptoNext
<1> QED
  BY <1>3, <1>4, <1>5

LEMMA ItemsInit == Init => Items
<1> SUFFICES ASSUME Init PROVE Items
  OBVIOUS
<1>1. ItemsTyped
  BY DEF Init, ItemsTyped, Nothing
<1>2. NothingLost
  BY DEF Init, NothingLost, Nothing, Upto
<1>3. Rounds
  BY DEF Init, Rounds, RoundOf, Nothing, Drained, Channels
<1> QED
  BY <1>1, <1>2, <1>3 DEF Items

LEMMA ItemsDeliver ==
    ASSUME Items, NEW c \in Channels, Deliver(c)
    PROVE  Items'
<1>1. /\ arrived' = [arrived EXCEPT ![c] = arrived[c] + 1]
      /\ queue' = [queue EXCEPT ![c] = Append(queue[c], arrived[c] + 1)]
      /\ UNCHANGED <<batch, applied, due, worker>>
  BY DEF Deliver, round, Items, ItemsTyped
<1>2. ItemsTyped'
  BY <1>1 DEF Items, ItemsTyped
<1>3. NothingLost'
  <2> SUFFICES ASSUME NEW d \in Channels
               PROVE  applied[d] \o batch[d] \o queue'[d] = Upto(arrived'[d])
    BY <1>1 DEF NothingLost
  <2>1. CASE d # c
    BY <1>1, <2>1 DEF Items, ItemsTyped, NothingLost
  <2>2. CASE d = c
    <3>1. applied[c] \in Seq(Nat) /\ batch[c] \in Seq(Nat) /\ queue[c] \in Seq(Nat)
          /\ arrived[c] \in Nat
      BY DEF Items, ItemsTyped
    <3>2. applied[c] \o batch[c] \o queue[c] = Upto(arrived[c])
      BY DEF Items, NothingLost
    <3> DEFINE new == arrived[c] + 1
    <3>3. applied[c] \o batch[c] \o Append(queue[c], new) = Append(Upto(arrived[c]), new)
      <4> new \in Nat
        BY <3>1
      <4> HIDE DEF new
      <4>1. applied[c] \o batch[c] \o Append(queue[c], new)
               = Append(applied[c] \o batch[c] \o queue[c], new)
        <5> DEFINE a == applied[c]  b == batch[c]  q == queue[c]
        <5> a \in Seq(Nat) /\ b \in Seq(Nat) /\ q \in Seq(Nat)
          BY <3>1
        <5> HIDE DEF a, b, q
        <5>1. a \o b \o Append(q, new) = Append(a \o b \o q, new)
          BY AppendThird, SMTT(30)
        <5> QED
          BY <5>1 DEF a, b, q
      <4> QED
        BY <3>2, <4>1, Zenon
    <3>4. Append(Upto(arrived[c]), arrived[c] + 1) = Upto(arrived[c] + 1)
      BY <3>1, UptoNext
    <3>5. queue'[c] = Append(queue[c], arrived[c] + 1) /\ arrived'[c] = arrived[c] + 1
      BY <1>1 DEF Items, ItemsTyped
    <3> QED
      BY <2>2, <3>3, <3>4, <3>5
  <2> QED
    BY <2>1, <2>2
<1>4. Rounds'
  BY <1>1 DEF Items, ItemsTyped, Rounds, RoundOf
<1> QED
  BY <1>2, <1>3, <1>4 DEF Items

\* A round begins: what is due is what has arrived, and no batch is left over.
LEMMA ItemsGo ==
    ASSUME Items, Go
    PROVE  Items'
<1>1. worker = "go" /\ UNCHANGED <<arrived, queue, batch, applied>>
  BY DEF Go, data
<1>2. due' \in {due, arrived} /\ worker' \in {"results", "none"}
      /\ \A c \in Channels : batch[c] = <<>>
  BY <1>1 DEF Go, Items, Rounds, RoundOf, Channels
<1>3. ItemsTyped'
  BY <1>1, <1>2 DEF Items, ItemsTyped
<1>4. NothingLost'
  BY <1>1 DEF Items, NothingLost
<1>5. Rounds'
  <2> SUFFICES ASSUME NEW c \in Channels PROVE RoundOf(c)'
    BY DEF Rounds
  <2>1. arrived[c] \in Nat /\ due'[c] <= arrived[c]
    BY <1>2 DEF Items, ItemsTyped, Rounds, RoundOf
  <2>2. worker' \notin Drained[c]
    BY <1>2 DEF Drained, Channels
  <2> QED
    BY <1>1, <1>2, <2>1, <2>2 DEF RoundOf
<1> QED
  BY <1>3, <1>4, <1>5 DEF Items

\* The rest of a round keeps the items and may only forget what is due.
LEMMA ItemsKept ==
    ASSUME Items, UNCHANGED <<arrived, queue, batch, applied>>,
           \/ due' = due
           \/ due' = Nothing,
           \/ worker' = worker
           \/ /\ worker \notin Channels
              /\ worker' \in Drained["results"] => worker \in Drained["results"]
              /\ worker' \in Drained["orders"] => worker \in Drained["orders"]
    PROVE  Items'
<1>1. ItemsTyped'
  BY DEF Items, ItemsTyped, Nothing
<1>2. NothingLost'
  BY DEF Items, NothingLost
<1>3. Rounds'
  <2> SUFFICES ASSUME NEW c \in Channels PROVE RoundOf(c)'
    BY DEF Rounds
  <2>1. RoundOf(c) /\ due[c] \in Nat /\ arrived[c] \in Nat /\ Len(applied[c]) \in Nat
    BY LenProperties DEF Items, ItemsTyped, Rounds
  <2>2. due'[c] = due[c] \/ due'[c] = 0
    BY DEF Nothing
  <2>3. worker' \in Drained[c] => worker \in Drained[c]
    BY DEF Channels
  <2>4. batch[c] # <<>> => worker' = c
    BY <2>1 DEF RoundOf
  <2>5. Len(batch[c]) \in Nat /\ UNCHANGED <<arrived[c], batch[c], applied[c]>>
    BY LenProperties DEF Items, ItemsTyped
  <2>6. due'[c] <= arrived[c]
    BY <2>1, <2>2 DEF RoundOf
  <2>7. batch[c] # <<>> => Len(applied[c]) + Len(batch[c]) >= due'[c]
    <3>1. batch[c] # <<>> => Len(applied[c]) + Len(batch[c]) >= due[c]
      BY <2>1 DEF RoundOf
    <3>2. Len(applied[c]) + Len(batch[c]) >= 0
      BY <2>1, <2>5, SumKept, Zenon
    <3> QED
      BY <2>2, <3>1, <3>2, Zenon
  <2>8. worker \in Drained[c] => Len(applied[c]) >= due'[c]
    BY <2>1, <2>2 DEF RoundOf
  <2> QED
    BY <2>3, <2>4, <2>5, <2>6, <2>7, <2>8 DEF RoundOf
<1> QED
  BY <1>1, <1>2, <1>3 DEF Items

LEMMA ItemsSwap ==
    ASSUME Items, NEW c \in Channels, Drain(c), Swap(c)
    PROVE  Items'
<1>1. /\ worker = c /\ batch[c] = <<>>
      /\ worker' = IF queue[c] = <<>> THEN AfterDrain[c] ELSE c
      /\ batch' = [batch EXCEPT ![c] = queue[c]]
      /\ queue' = [queue EXCEPT ![c] = <<>>]
      /\ UNCHANGED <<arrived, applied, due>>
  BY DEF Drain, Swap
<1>2. /\ applied[c] \in Seq(Nat) /\ queue[c] \in Seq(Nat) /\ due[c] \in Nat
      /\ arrived[c] \in Nat /\ Len(applied[c]) \in Nat /\ Len(queue[c]) \in Nat
  BY LenProperties DEF Items, ItemsTyped
<1>3. ItemsTyped'
  BY <1>1, <1>2 DEF Items, ItemsTyped
<1>4. NothingLost'
  <2> SUFFICES ASSUME NEW d \in Channels
               PROVE  applied[d] \o batch'[d] \o queue'[d] = Upto(arrived[d])
    BY <1>1 DEF NothingLost
  <2>1. applied[d] \o batch[d] \o queue[d] = Upto(arrived[d])
    BY DEF Items, NothingLost
  <2>2. CASE d # c
    BY <1>1, <2>1, <2>2 DEF Items, ItemsTyped
  <2>3. CASE d = c
    <3>1. applied[c] \o <<>> \o queue[c] = applied[c] \o queue[c] \o <<>>
      BY <1>2, ConcatEmptySeq, ConcatProperties
    <3> QED
      BY <1>1, <2>1, <2>3, <3>1 DEF Items, ItemsTyped
  <2> QED
    BY <2>2, <2>3
<1>5. Rounds'
  <2>1. Len(applied[c]) + Len(queue[c]) >= due[c]
    BY <1>1, <1>2, AllApplied DEF Items, Rounds, RoundOf
  <2>2. queue[c] = <<>> => Len(applied[c]) >= due[c]
    BY <1>2, <2>1
  <2> SUFFICES ASSUME NEW d \in Channels PROVE RoundOf(d)'
    BY DEF Rounds
  <2>3. CASE d # c
    <3>1. UNCHANGED <<batch[d], applied[d], due[d], arrived[d]>> /\ batch[d] = <<>>
      BY <1>1, <2>3 DEF Items, ItemsTyped, Rounds, RoundOf
    <3>2. worker' \in Drained[d] => worker \in Drained[d]
      BY <1>1, <2>3 DEF Drained, AfterDrain, Channels
    <3> QED
      BY <3>1, <3>2 DEF Items, Rounds, RoundOf
  <2>4. CASE d = c
    <3>1. due[c] <= arrived[c] /\ batch'[c] = queue[c]
      BY <1>1 DEF Items, ItemsTyped, Rounds, RoundOf
    <3>2. worker' \in Drained[c] => queue[c] = <<>>
      BY <1>1 DEF Drained, Channels
    <3> QED
      BY <1>1, <2>1, <2>2, <2>4, <3>1, <3>2 DEF RoundOf
  <2> QED
    BY <2>3, <2>4
<1> QED
  BY <1>3, <1>4, <1>5 DEF Items

LEMMA ItemsItem ==
    ASSUME Items, NEW c \in Channels, Drain(c), Item(c)
    PROVE  Items'
<1>1. /\ worker = c /\ batch[c] # <<>>
      /\ worker' = IF Len(batch[c]) = 1 THEN AfterDrain[c] ELSE c
      /\ applied' = [applied EXCEPT ![c] = Append(applied[c], Head(batch[c]))]
      /\ batch' = [batch EXCEPT ![c] = Tail(batch[c])]
      /\ UNCHANGED <<arrived, queue, due>>
  BY DEF Drain, Item
<1>2. /\ applied[c] \in Seq(Nat) /\ batch[c] \in Seq(Nat) /\ due[c] \in Nat
      /\ Len(applied[c]) \in Nat
  BY LenProperties DEF Items, ItemsTyped
<1>3. /\ Head(batch[c]) \in Nat /\ Tail(batch[c]) \in Seq(Nat)
      /\ Len(Tail(batch[c])) = Len(batch[c]) - 1 /\ Len(batch[c]) \in Nat \ {0}
  BY <1>1, <1>2, HeadTailProperties, EmptySeq
<1>4. /\ Append(applied[c], Head(batch[c])) \in Seq(Nat)
      /\ Len(Append(applied[c], Head(batch[c]))) = Len(applied[c]) + 1
  BY <1>2, <1>3, AppendProperties
<1>5. ItemsTyped'
  BY <1>1, <1>3, <1>4 DEF Items, ItemsTyped
<1>6. NothingLost'
  <2> SUFFICES ASSUME NEW d \in Channels
               PROVE  applied'[d] \o batch'[d] \o queue[d] = Upto(arrived[d])
    BY <1>1 DEF NothingLost
  <2>1. applied[d] \o batch[d] \o queue[d] = Upto(arrived[d])
    BY DEF Items, NothingLost
  <2>2. CASE d # c
    BY <1>1, <2>1, <2>2 DEF Items, ItemsTyped
  <2>3. CASE d = c
    <3>1. Append(applied[c], Head(batch[c])) \o Tail(batch[c]) = applied[c] \o batch[c]
      BY <1>1, <1>2, MoveHead
    <3>2. applied'[c] = Append(applied[c], Head(batch[c])) /\ batch'[c] = Tail(batch[c])
      BY <1>1 DEF Items, ItemsTyped
    <3> QED
      BY <2>1, <2>3, <3>1, <3>2
  <2> QED
    BY <2>2, <2>3
<1>7. Rounds'
  <2>1. Len(applied[c]) + Len(batch[c]) >= due[c]
    BY <1>1 DEF Items, Rounds, RoundOf
  <2>2. Len(batch[c]) = 1 <=> Tail(batch[c]) = <<>>
    <3> DEFINE t == Tail(batch[c])
    <3>1. t \in Seq(Nat) /\ Len(t) = Len(batch[c]) - 1
      BY <1>3
    <3> HIDE DEF t
    <3>2. t = <<>> <=> Len(t) = 0
      BY <3>1, EmptySeq
    <3> QED
      BY <1>3, <3>1, <3>2 DEF t
  <2> SUFFICES ASSUME NEW d \in Channels PROVE RoundOf(d)'
    BY DEF Rounds
  <2>3. CASE d # c
    <3>1. UNCHANGED <<batch[d], applied[d], due[d], arrived[d]>> /\ batch[d] = <<>>
      BY <1>1, <2>3 DEF Items, ItemsTyped, Rounds, RoundOf
    <3>2. worker' \in Drained[d] => worker \in Drained[d]
      BY <1>1, <2>3 DEF Drained, AfterDrain, Channels
    <3> QED
      BY <3>1, <3>2 DEF Items, Rounds, RoundOf
  <2>4. CASE d = c
    <3>1. /\ due[c] <= arrived[c] /\ batch'[c] = Tail(batch[c])
          /\ applied'[c] = Append(applied[c], Head(batch[c]))
      BY <1>1 DEF Items, ItemsTyped, Rounds, RoundOf
    <3>2. Len(applied'[c]) + Len(batch'[c]) >= due[c]
      <4>1. Len(applied'[c]) = Len(applied[c]) + 1 /\ Len(batch'[c]) = Len(batch[c]) - 1
        BY <1>3, <1>4, <3>1, Zenon
      <4>2. Len(applied[c]) \in Nat /\ Len(batch[c]) \in Nat /\ due[c] \in Nat
        BY <1>2, <1>3
      <4>3. (Len(applied[c]) + 1) + (Len(batch[c]) - 1) >= due[c]
        BY <2>1, <4>2, SumKept, Zenon
      <4> QED
        BY <4>1, <4>3, Zenon
    <3>3. batch'[c] # <<>> => worker' = c
      BY <1>1, <2>2, <3>1
    <3>4. worker' \in Drained[c] => Len(applied'[c]) >= due[c]
      <4>1. worker' \in Drained[c] => Len(batch[c]) = 1
        BY <1>1 DEF Drained, Channels
      <4> QED
        BY <1>2, <1>3, <1>4, <2>1, <3>1, <4>1
    <3> QED
      BY <1>1, <2>4, <3>1, <3>2, <3>3, <3>4 DEF RoundOf
  <2> QED
    BY <2>3, <2>4
<1> QED
  BY <1>5, <1>6, <1>7 DEF Items

LEMMA ItemsNext ==
    ASSUME Items, Sync, [Next]_vars
    PROVE  Items'
<1>1. ASSUME NEW t \in Threads, Setter(t) PROVE Items'
  <2>1. UNCHANGED <<arrived, queue, batch, applied, due>>
    BY <1>1 DEF Setter, SetNewData, Notify, Publish, data, round
  <2>2. worker' = worker \/ (worker = "waiting" /\ worker' = "lock")
    BY <1>1 DEF Setter, SetNewData, Notify, NotifyAll, Publish
  <2> QED
    BY <2>1, <2>2, ItemsKept DEF Drained, Channels
<1>2. CASE MarketData \/ Start \/ Stop \/ MainStops \/ SpuriousWakeup
  <2>1. CASE MarketData
    BY <2>1, ItemsKept DEF MarketData, data, round
  <2>2. CASE Start \/ Stop
    <3>1. worker' = worker \/ (worker = "none" /\ worker' = "top")
      BY <2>2 DEF Start, Stop, Sync
    <3> QED
      BY <2>2, <3>1, ItemsKept DEF Start, Stop, data, round, Drained, Channels
  <2>3. CASE MainStops \/ SpuriousWakeup
    BY <2>3, ItemsKept
       DEF MainStops, PassLock, NotifyStop, NotifyAll, Join, SpuriousWakeup, data, round,
           Drained, Channels
  <2> QED
    BY <1>2, <2>1, <2>2, <2>3
<1>3. CASE \E c \in Channels : Deliver(c)
  BY <1>3, ItemsDeliver
<1>4. CASE Top \/ Lock \/ Check \/ Park \/ PriceAndVersion \/ ActOnSignal
  BY <1>4, ItemsKept
     DEF Top, Lock, Check, Park, PriceAndVersion, ActOnSignal, data, round, Drained, Channels
<1>5. CASE Go
  BY <1>5, ItemsGo
<1>6. ASSUME NEW c \in Channels, Drain(c) PROVE Items'
  BY <1>6, ItemsSwap, ItemsItem DEF Drain
<1>7. CASE UNCHANGED vars
  BY <1>7, ItemsKept DEF vars, data, round
<1> QED
  BY <1>1, <1>2, <1>3, <1>4, <1>5, <1>6, <1>7 DEF Next, Worker, Channels

-----------------------------------------------------------------------------
(* The signal and its version.                                             *)

Versions ==
    /\ version \in Nat /\ lastVersion \in Nat /\ lastVersion <= version
    /\ acted \in Seq(Nat) /\ signal \in Nat
    /\ NewestSignalActedOn

LEMMA VersionsNext ==
    ASSUME SyncTyped, Sync, Versions, [Next]_vars
    PROVE  Versions'
<1>1. CASE MarketData
  BY <1>1 DEF MarketData, Versions, NewestSignalActedOn, seen, SyncTyped, Threads
<1>2. ASSUME NEW t \in Threads, Setter(t) PROVE Versions'
  <2>1. CASE SetNewData(t)
    BY <1>2, <2>1 DEF SetNewData, Versions, NewestSignalActedOn, pfd, seen, SyncTyped, Threads
  <2>2. CASE Notify(t)
    BY <1>2, <2>2
       DEF Notify, NotifyAll, Versions, NewestSignalActedOn, pfd, seen, SyncTyped, Threads
  <2>3. CASE Publish
    BY <2>3 DEF Publish, Versions, NewestSignalActedOn, seen, SyncTyped, Threads
  <2> QED
    BY <1>2, <2>1, <2>2, <2>3 DEF Setter
<1>3. ASSUME NEW c \in Channels, Deliver(c) PROVE Versions'
  BY <1>3 DEF Deliver, Versions, NewestSignalActedOn, pfd, seen, SyncTyped, Threads, Channels
<1>4. CASE PriceAndVersion
  BY <1>4 DEF PriceAndVersion, Versions, NewestSignalActedOn, pfd
<1>5. CASE ActOnSignal
  <2>1. acted' = Append(acted, signal) /\ UNCHANGED <<signal, version, lastVersion>>
    BY <1>5 DEF ActOnSignal, pfd
  <2>2. acted' \in Seq(Nat) /\ acted' # <<>> /\ acted'[Len(acted')] = signal
    BY <2>1, AppendProperties DEF Versions
  <2> QED
    BY <2>1, <2>2 DEF Versions, NewestSignalActedOn
<1>6. CASE UNCHANGED <<signal, version, lastVersion, acted, notifier>>
           /\ (worker' = "signal" <=> worker = "signal")
  BY <1>6 DEF Versions, NewestSignalActedOn
<1>7. CASE Worker \/ SpuriousWakeup \/ Start \/ Stop \/ MainStops \/ UNCHANGED vars
  <2>1. CASE Drain("results") \/ Drain("orders")
    BY <1>6, <2>1, DrainGoesOn DEF Drain, pfd, seen, Channels
  <2>2. CASE Top \/ Lock \/ Check \/ Park \/ Go \/ SpuriousWakeup
    BY <1>6, <2>2 DEF Top, Lock, Check, Park, Go, SpuriousWakeup, pfd, seen
  <2>3. CASE Start \/ Stop \/ UNCHANGED vars
    BY <1>6, <2>3 DEF Start, Stop, Sync, vars, pfd, seen
  <2>4. CASE MainStops
    BY <1>6, <2>4 DEF MainStops, PassLock, NotifyStop, NotifyAll, Join, pfd, seen
  <2> QED
    BY <1>4, <1>5, <1>7, <2>1, <2>2, <2>3, <2>4 DEF Worker
<1> QED
  BY <1>1, <1>2, <1>3, <1>7 DEF Next

-----------------------------------------------------------------------------
(* The theorems.                                                           *)

LoopInv == SyncTyped /\ Sync /\ Items /\ Versions

LEMMA LoopInvHolds == Spec => []LoopInv
<1>1. Init => LoopInv
  BY SyncInit, ItemsInit DEF Init, LoopInv, Versions, NewestSignalActedOn
<1>2. LoopInv /\ [Next]_vars => LoopInv'
  BY SyncNext, ItemsNext, VersionsNext DEF LoopInv
<1> QED
  BY <1>1, <1>2, PTL DEF Spec

\* No notify is lost between the predicate and the sleep, whoever sends it
\* (base_trading_strategy.cpp:15-47).
THEOREM WakeupNotLost == Spec => []NoLostWakeup
<1>1. LoopInv => NoLostWakeup
  BY DEF LoopInv, Sync
<1> QED
  BY <1>1, LoopInvHolds, PTL

\* Each answer and each update is applied once and in order, however many arrive
\* and whenever (imbalance_and_large.cpp:94-136).
THEOREM EveryItemInOrder == Spec => []NothingLost
<1>1. LoopInv => NothingLost
  BY DEF LoopInv, Items
<1> QED
  BY <1>1, LoopInvHolds, PTL

\* A round judges the price and the signal with everything applied that had arrived
\* when it began (imbalance_and_large.cpp:148-170).
THEOREM ConfirmationsFirst == Spec => []ConfirmedBeforeTrading
<1>1. LoopInv => ConfirmedBeforeTrading
  BY DEF LoopInv, Items, Rounds, RoundOf, Drained, ConfirmedBeforeTrading, Channels
<1> QED
  BY <1>1, LoopInvHolds, PTL

\* The signal last acted on is the newest one whose version was seen, though signal
\* and version are two variables of another thread (price_flow_divergence.cpp:241-242).
THEOREM NewestSignalNotMissed == Spec => []NewestSignalActedOn
<1>1. LoopInv => NewestSignalActedOn
  BY DEF LoopInv, Versions
<1> QED
  BY <1>1, LoopInvHolds, PTL
=============================================================================
