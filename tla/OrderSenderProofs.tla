------------------------- MODULE OrderSenderProofs -------------------------
(***************************************************************************)
(* Proofs about the order sender: for every number of requests, queue size *)
(* and number of broken connections, no queued request is stranded, and    *)
(* none is sent out of order, twice, or after it was reported as refused.  *)
(***************************************************************************)
EXTENDS OrderSender, SequenceTheorems, TLAPS

\* A queue holds something.
Queued == \E k \in Queues : queue[k] # <<>>

\* A chain of sendNext() calls is under way or certain to go on.
Chain == posted > 0 \/ writing # {} \/ io \in Queues \cup {"clear"}

\* A new sender has nothing until it is authenticated; afterwards the flag says
\* that a chain is under way, and whoever finds it down sees to the queues.
Wake ==
    /\ conn = "auth" => /\ ~authenticated /\ ~startSending /\ ~Queued
                        /\ caller # "idle" => stale
    /\ conn = "up" /\ startSending => Chain
    /\ conn = "up" /\ Queued => Chain \/ io = "recheck" \/ (caller = "kick" /\ ~stale)

\* The ids given so far, but for the request still to be pushed.
Newest == IF caller = "push" THEN placed - 1 ELSE placed

\* What was handed out, what is queued and what was refused: the queues hold
\* younger requests than the wire, in order, and nothing refused.
Order ==
    /\ caller = "push" => request.id = placed
    /\ \A k \in Queues : \A i \in 1 .. Len(queue[k]) :
          /\ queue[k][i].kind = k /\ queue[k][i].id <= Newest
          /\ queue[k][i] \notin refused
          /\ \A j \in 1 .. Len(queue[k]) : i < j => queue[k][i].id < queue[k][j].id
          /\ \A j \in 1 .. Len(wire) : wire[j].kind = k => wire[j].id < queue[k][i].id
    /\ \A j \in 1 .. Len(wire) : wire[j].id <= Newest /\ wire[j] \notin refused
    /\ \A r \in refused : r.id <= Newest
    /\ SentInOrder

SenderInv == TypeOK /\ Wake /\ Order

-----------------------------------------------------------------------------
LEMMA InitHolds == Init => SenderInv
<1> SUFFICES ASSUME Init PROVE SenderInv
  OBVIOUS
<1> USE OrderSenderAssumption DEF OrderSenderAssumption, Init, Queues
<1>1. FlagsTyped
  BY DEF FlagsTyped
<1>5. RestTyped
  BY DEF RestTyped
<1>2. Wake
  BY DEF Wake, Queued
<1>3. Order
  BY DEF Order, SentInOrder, Newest
<1>4. QED
  BY <1>1, <1>2, <1>3, <1>5 DEF SenderInv, TypeOK

\* The flags stay flags.
LEMMA FlagsKept == FlagsTyped /\ [Next]_vars => FlagsTyped'
BY Zenon DEF FlagsTyped, Next, vars, link, shared, strategy, Strategy, Sender, Connection,
    PlaceOrder, Push, Kick, PostSendNext, Return, Authenticated, RunPosted, Clear, Recheck,
    Break, Reconnect, Pop, Written, WriteFails, Answer

\* Every other variable stays in its range.
LEMMA RestKept == RestTyped /\ [Next]_vars => RestTyped'
<1> SUFFICES ASSUME RestTyped, [Next]_vars PROVE RestTyped'
  OBVIOUS
<1> USE DEF RestTyped
<1>1. ASSUME NEW r \in Requests, PlaceOrder(r) PROVE RestTyped'
  <2>1. r.id \in 1 .. MaxRequests /\ placed' = r.id
    BY <1>1 DEF PlaceOrder, Requests
  <2>2. CASE authenticated
    BY <1>1, <2>1, <2>2, OrderSenderAssumption DEF OrderSenderAssumption, PlaceOrder, link, shared
  <2>3. CASE ~authenticated
    BY <1>1, <2>1, <2>3, OrderSenderAssumption DEF OrderSenderAssumption, PlaceOrder, link, shared
  <2>4. QED
    BY <2>2, <2>3
<1>2. CASE Push
  <2> DEFINE k == request.kind
  <2>1. k \in Queues /\ request \in Requests
    BY <1>2, OrderSenderAssumption DEF OrderSenderAssumption, Push, Requests
  <2>2. CASE stale /\ Return(TRUE) /\ UNCHANGED queue
    BY <1>2, <2>2 DEF Push, Return, link
  <2>3. CASE ~stale /\ Len(queue[k]) = MaxQueueSize /\ Return(FALSE) /\ UNCHANGED queue
    BY <1>2, <2>1, <2>3 DEF Push, Return, link
  <2>4. CASE ~stale /\ Len(queue[k]) < MaxQueueSize /\ caller' = "kick"
             /\ queue' = [queue EXCEPT ![k] = Append(@, request)]
             /\ UNCHANGED <<request, stale, refused>>
    <3>1. Append(queue[k], request) \in Seq(Requests)
          /\ Len(Append(queue[k], request)) <= MaxQueueSize
      BY <2>1, <2>4, OrderSenderAssumption DEF OrderSenderAssumption
    <3>2. QED
      BY <1>2, <2>1, <2>4, <3>1 DEF Push, link
  <2>5. QED
    BY <1>2, <2>2, <2>3, <2>4 DEF Push
<1>3. CASE Kick
  BY <1>3 DEF Kick, PostSendNext, Return, link
<1>4. CASE Authenticated \/ RunPosted \/ Clear \/ Recheck
  BY <1>4 DEF Authenticated, RunPosted, Clear, Recheck, PostSendNext, link, shared, strategy, Queues
<1>10. CASE Break
  BY <1>10, OrderSenderAssumption DEF OrderSenderAssumption, Break, shared, strategy
<1>5. ASSUME NEW k \in Queues, Pop(k) PROVE RestTyped'
  <2>1. CASE queue[k] = <<>>
    BY <1>5, <2>1 DEF Pop, After, link, strategy, Queues
  <2>2. CASE queue[k] # <<>>
    <3>1. Head(queue[k]) \in Requests /\ Tail(queue[k]) \in Seq(Requests)
          /\ Len(Tail(queue[k])) <= MaxQueueSize
      BY <2>2, OrderSenderAssumption DEF OrderSenderAssumption
    <3>2. queue' = [queue EXCEPT ![k] = Tail(queue[k])]
          /\ pending' = pending \cup {Head(queue[k])}
          /\ writing' = writing \cup {Head(queue[k])}
          /\ wire' = Append(wire, Head(queue[k])) /\ io' = "idle"
          /\ UNCHANGED <<conn, breaks, posted, caller, request, placed, refused>>
      BY <1>5, <2>2 DEF Pop, link, strategy
    <3>3. QED
      BY <3>1, <3>2
  <2>3. QED
    BY <2>1, <2>2
<1>6. CASE Reconnect
  <2>1. <<>> \in Seq(Requests) /\ Len(<<>>) <= MaxQueueSize
    BY OrderSenderAssumption DEF OrderSenderAssumption
  <2>2. QED
    BY <1>6, <2>1 DEF Reconnect
<1>7. ASSUME NEW r \in Requests, Written(r) \/ WriteFails(r) \/ Answer(r) PROVE RestTyped'
  BY <1>7, OrderSenderAssumption
  DEF OrderSenderAssumption, Written, WriteFails, Answer, link, shared, strategy, Queues
<1>8. CASE UNCHANGED vars
  BY <1>8 DEF vars, link, shared, strategy
<1>9. QED
  BY <1>1, <1>2, <1>3, <1>4, <1>10, <1>5, <1>6, <1>7, <1>8 DEF Next, Strategy, Sender, Connection

\* Whoever leaves the sender with a queued request leaves a chain behind, or the
\* second look after the flag was cleared, or a placeOrder() about to post.
LEMMA WakeKept == RestTyped /\ Wake /\ [Next]_vars => Wake'
<1> SUFFICES ASSUME RestTyped, Wake, [Next]_vars PROVE Wake'
  OBVIOUS
<1> USE DEF Wake, Chain, Queued
<1>1. ASSUME NEW r \in Requests, PlaceOrder(r) PROVE Wake'
  BY <1>1 DEF PlaceOrder, link, shared
<1>2. CASE Push
  <2>1. CASE stale \/ Len(queue[request.kind]) = MaxQueueSize
    BY <1>2, <2>1 DEF Push, Return, link
  <2>2. CASE ~stale /\ Len(queue[request.kind]) # MaxQueueSize
    <3>1. caller = "push" /\ caller' = "kick"
          /\ UNCHANGED <<conn, startSending, stale, posted, writing, io>>
      BY <1>2, <2>2 DEF Push, Return, link
    <3>2. QED
      BY <2>2, <3>1
  <2>3. QED
    BY <2>1, <2>2
<1>3. CASE Kick
  BY <1>3 DEF Kick, PostSendNext, Return, link, RestTyped
<1>4. CASE Authenticated \/ RunPosted
  BY <1>4 DEF Authenticated, RunPosted, link, shared, strategy, RestTyped, Queues
<1>5. CASE Clear \/ Break
  BY <1>5 DEF Clear, Break, link, shared, strategy
<1>6. CASE Recheck
  BY <1>6 DEF Recheck, PostSendNext, link, strategy, RestTyped, Queues
<1>7. ASSUME NEW k \in Queues, Pop(k) PROVE Wake'
  <2>1. CASE queue[k] = <<>>
    <3>1. After[k] \in Queues \cup {"clear"}
      BY DEF After, Queues
    <3>2. io' = After[k] /\ UNCHANGED <<conn, authenticated, startSending, queue, caller, stale>>
      BY <1>7, <2>1 DEF Pop, link, strategy
    <3>3. QED
      BY <3>1, <3>2
  <2>2. CASE queue[k] # <<>>
    <3>1. writing' # {} /\ conn' = conn /\ conn # "auth"
      BY <1>7, <2>2 DEF Pop, link
    <3>2. QED
      BY <3>1
  <2>3. QED
    BY <2>1, <2>2
<1>8. CASE Reconnect
  BY <1>8 DEF Reconnect
<1>9. ASSUME NEW r \in Requests, Written(r) \/ Answer(r) PROVE Wake'
  BY <1>9 DEF Written, Answer, link, shared, strategy, Queues
<1>10. ASSUME NEW r \in Requests, WriteFails(r) PROVE Wake'
  BY <1>10 DEF WriteFails, link, strategy
<1>11. CASE UNCHANGED vars
  BY <1>11 DEF vars, link, shared, strategy
<1>12. QED
  BY <1>1, <1>2, <1>3, <1>4, <1>5, <1>6, <1>7, <1>8, <1>9, <1>10, <1>11
  DEF Next, Strategy, Sender, Connection

\* What the queues, the wire and the refusals are made of.
LEMMA Ids ==
    ASSUME RestTyped
    PROVE  /\ \A r \in Requests : r.id \in Nat /\ r.kind \in Queues
           /\ \A k \in Queues : \A i \in 1 .. Len(queue[k]) : queue[k][i] \in Requests
           /\ \A j \in 1 .. Len(wire) : wire[j] \in Requests
           /\ \A r \in refused : r \in Requests
           /\ placed \in Nat
<1>1. \A r \in Requests : r.id \in Nat /\ r.kind \in Queues
  BY OrderSenderAssumption DEF OrderSenderAssumption, Requests
<1>2. \A k \in Queues : queue[k] \in Seq(Requests)
  BY DEF RestTyped
<1>3. wire \in Seq(Requests) /\ refused \subseteq Requests /\ placed \in Nat
  BY OrderSenderAssumption DEF OrderSenderAssumption, RestTyped
<1>4. QED
  BY <1>1, <1>2, <1>3

\* The ids grow along the wire and on into each queue.
LEMMA OrderKept == RestTyped /\ Order /\ [Next]_vars => Order'
<1> SUFFICES ASSUME RestTyped, Order, [Next]_vars PROVE Order'
  OBVIOUS
<1> USE DEF Order, SentInOrder, Newest
<1>1. ASSUME NEW r \in Requests, PlaceOrder(r) PROVE Order'
  <2>1. /\ caller = "idle" /\ r.id = placed + 1 /\ placed' = r.id /\ placed \in Nat
        /\ UNCHANGED <<queue, wire>>
    BY <1>1, OrderSenderAssumption DEF OrderSenderAssumption, PlaceOrder, shared, RestTyped
  <2>2. CASE authenticated
    BY <1>1, <2>1, <2>2 DEF PlaceOrder
  <2>3. CASE ~authenticated
    <3>1. caller' = "idle" /\ refused' = refused \cup {r}
      BY <1>1, <2>1, <2>3 DEF PlaceOrder
    <3>2. \A k \in Queues : \A i \in 1 .. Len(queue[k]) : queue[k][i] # r
      BY <2>1
    <3>3. \A j \in 1 .. Len(wire) : wire[j] # r
      BY <2>1
    <3>4. QED
      BY <2>1, <3>1, <3>2, <3>3, Ids
  <2>4. QED
    BY <2>2, <2>3
<1>2. CASE Push
  <2> DEFINE k == request.kind
             n == Len(queue[k])
  <2>1. /\ caller = "push" /\ request.id = placed /\ caller' # "push" /\ placed' = placed
        /\ wire' = wire /\ request \in Requests /\ k \in Queues
    BY <1>2, Ids DEF Push, Return, RestTyped
  <2>2. CASE UNCHANGED queue /\ refused' \in {refused, refused \cup {request}}
    <3>1. \A l \in Queues : \A i \in 1 .. Len(queue[l]) : queue[l][i] # request
      BY <2>1, Ids
    <3>2. \A j \in 1 .. Len(wire) : wire[j] # request
      BY <2>1, Ids
    <3>3. QED
      BY <2>1, <2>2, <3>1, <3>2, Ids
  <2>3. CASE queue' = [queue EXCEPT ![k] = Append(@, request)] /\ UNCHANGED refused
    <3>1. /\ \A l \in Queues \ {k} : queue'[l] = queue[l]
          /\ queue[k] \in Seq(Requests) /\ queue'[k] = Append(queue[k], request)
      BY <2>1, <2>3 DEF RestTyped
    <3>2. /\ n \in Nat /\ Len(queue'[k]) = n + 1
          /\ \A i \in 1 .. n : queue'[k][i] = queue[k][i]
          /\ queue'[k][n + 1] = request
      BY <2>1, <3>1
    <3>3. request \notin refused
      BY <2>1, Ids
    <3>4. \A i \in 1 .. n : /\ queue[k][i].id <= placed - 1 /\ queue[k][i].kind = k
                            /\ queue[k][i] \notin refused /\ queue[k][i].id \in Nat
                            /\ \A j \in 1 .. n : i < j => queue[k][i].id < queue[k][j].id
                            /\ \A j \in 1 .. Len(wire) :
                                  wire[j].kind = k => wire[j].id < queue[k][i].id
      BY <2>1, Ids
    <3>9. \A j \in 1 .. Len(wire) : wire[j].id < placed
      BY <2>1, Ids
    <3>5. request.kind = k /\ placed \in Nat
      BY Ids
    <3> HIDE DEF k, n
    <3>6. \A i \in 1 .. n + 1 :
              /\ queue'[k][i].id <= placed /\ queue'[k][i].kind = k
              /\ queue'[k][i] \notin refused
              /\ \A j \in 1 .. n + 1 : i < j => queue'[k][i].id < queue'[k][j].id
              /\ \A j \in 1 .. Len(wire) : wire[j].kind = k => wire[j].id < queue'[k][i].id
      <4>1. TAKE i \in 1 .. n + 1
      <4>2. CASE i \in 1 .. n
        <5>1. queue'[k][i] = queue[k][i] /\ queue[k][i].id < placed /\ queue[k][i].id <= placed
          BY <3>2, <3>4, <3>5, <4>2
        <5>2. \A j \in 1 .. n + 1 : i < j => queue'[k][i].id < queue'[k][j].id
          <6>1. TAKE j \in 1 .. n + 1
          <6>2. CASE j \in 1 .. n
            BY <3>2, <3>4, <4>2, <5>1, <6>2
          <6>3. CASE j = n + 1
            BY <2>1, <3>2, <5>1, <6>3
          <6>4. QED
            BY <3>2, <6>2, <6>3
        <5>3. QED
          BY <3>4, <4>2, <5>1, <5>2
      <4>3. CASE i = n + 1
        BY <2>1, <3>2, <3>3, <3>5, <3>9, <4>3
      <4>4. QED
        BY <3>2, <4>2, <4>3
    <3>7. \A l \in Queues \ {k} : \A i \in 1 .. Len(queue'[l]) : queue'[l][i].id <= placed
      BY <2>1, <3>1, Ids
    <3>8. \A l \in Queues : \A i \in 1 .. Len(queue'[l]) :
              /\ queue'[l][i].kind = l /\ queue'[l][i].id <= placed
              /\ queue'[l][i] \notin refused
              /\ \A j \in 1 .. Len(queue'[l]) : i < j => queue'[l][i].id < queue'[l][j].id
              /\ \A j \in 1 .. Len(wire) : wire[j].kind = l => wire[j].id < queue'[l][i].id
      <4>1. TAKE l \in Queues
      <4>2. CASE l = k
        BY <3>2, <3>6, <4>2
      <4>3. CASE l # k
        BY <2>3, <3>1, <3>7, <4>3
      <4>4. QED
        BY <4>2, <4>3
    <3>10. QED
      BY <2>1, <2>3, <3>8, Ids
  <2>4. QED
    BY <1>2, <2>2, <2>3 DEF Push, Return
<1>3. CASE Kick
  BY <1>3 DEF Kick, Return, link
<1>4. CASE Authenticated \/ RunPosted \/ Clear \/ Recheck \/ Break
  BY <1>4 DEF Authenticated, RunPosted, Clear, Recheck, Break, link, shared, strategy
<1>5. ASSUME NEW k \in Queues, Pop(k) PROVE Order'
  <2> DEFINE n == Len(queue[k])
             m == Len(wire)
  <2>1. UNCHANGED <<caller, request, placed, refused>>
    BY <1>5 DEF Pop, strategy
  <2>2. CASE queue[k] = <<>>
    BY <1>5, <2>1, <2>2 DEF Pop
  <2>3. CASE queue[k] # <<>>
    <3>1. /\ queue' = [queue EXCEPT ![k] = Tail(@)] /\ wire' = Append(wire, Head(queue[k]))
          /\ queue[k] \in Seq(Requests) /\ wire \in Seq(Requests)
      BY <1>5, <2>3 DEF Pop, RestTyped
    <3>2. /\ \A l \in Queues \ {k} : queue'[l] = queue[l]
          /\ queue'[k] = Tail(queue[k])
      BY <3>1 DEF RestTyped
    <3>3. /\ n \in Nat \ {0} /\ Len(queue'[k]) = n - 1
          /\ \A i \in 1 .. n - 1 : queue'[k][i] = queue[k][i + 1]
      <4>1. n \in Nat \ {0}
        BY <2>3, <3>1
      <4>2. Len(Tail(queue[k])) = n - 1
            /\ \A i \in 1 .. Len(Tail(queue[k])) : Tail(queue[k])[i] = queue[k][i + 1]
        BY <2>3, <3>1, HeadTailProperties
      <4>3. QED
        BY <3>2, <4>1, <4>2
    <3>4. /\ m \in Nat /\ Len(wire') = m + 1
          /\ \A j \in 1 .. m : wire'[j] = wire[j]
          /\ wire'[m + 1] = queue[k][1]
      BY <2>3, <3>1
    <3>14. SentInOrder
      OBVIOUS
    <3> HIDE DEF n, m
    <3>5. \A i \in 1 .. n : /\ queue[k][i].kind = k /\ queue[k][i].id <= Newest
                            /\ queue[k][i] \notin refused
                            /\ \A j \in 1 .. m : wire[j].kind = k => wire[j].id < queue[k][i].id
      BY DEF n, m
    <3>6. \A i, j \in 1 .. n : i < j => queue[k][i].id < queue[k][j].id
      BY DEF n
    <3>7. \A j \in 1 .. m : wire[j].id <= Newest /\ wire[j] \notin refused
      BY DEF m
    <3>8. \A i, j \in 1 .. m + 1 :
              i < j /\ wire'[i].kind = wire'[j].kind => wire'[i].id < wire'[j].id
      <4>1. TAKE i, j \in 1 .. m + 1
      <4>2. CASE j \in 1 .. m
        BY <3>4, <3>14, <4>2 DEF m
      <4>3. CASE j = m + 1
        BY <3>3, <3>4, <3>5, <4>3
      <4>4. QED
        BY <3>4, <4>2, <4>3
    <3>9. \A i \in 1 .. n - 1 : \A j \in 1 .. m + 1 :
              wire'[j].kind = k => wire'[j].id < queue'[k][i].id
      <4> HIDE DEF Order, RestTyped
      <4>1. TAKE i \in 1 .. n - 1
      <4>2. i + 1 \in 1 .. n /\ 1 \in 1 .. n /\ 1 < i + 1 /\ queue'[k][i] = queue[k][i + 1]
        BY <3>3
      <4>3. queue[k][1].id < queue'[k][i].id
        BY <3>6, <4>2
      <4>4. TAKE j \in 1 .. m + 1
      <4>5. CASE j \in 1 .. m
        BY <3>4, <3>5, <4>2, <4>5
      <4>6. CASE j = m + 1
        BY <3>4, <4>3, <4>6
      <4>7. QED
        BY <3>4, <4>5, <4>6
    <3>10. \A l \in Queues \ {k} : \A i \in 1 .. Len(queue'[l]) : \A j \in 1 .. m + 1 :
              wire'[j].kind = l => wire'[j].id < queue'[l][i].id
      BY <3>2, <3>3, <3>4, <3>5 DEF m
    <3>11. \A i \in 1 .. n - 1 :
              /\ queue'[k][i].kind = k /\ queue'[k][i].id <= Newest
              /\ queue'[k][i] \notin refused
              /\ \A j \in 1 .. n - 1 : i < j => queue'[k][i].id < queue'[k][j].id
      <4> HIDE DEF Order, RestTyped
      <4>1. TAKE i \in 1 .. n - 1
      <4>2. i + 1 \in 1 .. n /\ queue'[k][i] = queue[k][i + 1]
        BY <3>3
      <4>3. /\ queue'[k][i].kind = k /\ queue'[k][i].id <= Newest
            /\ queue'[k][i] \notin refused
        BY <3>5, <4>2
      <4>4. ASSUME NEW j \in 1 .. n - 1, i < j PROVE queue'[k][i].id < queue'[k][j].id
        <5>1. j + 1 \in 1 .. n /\ i + 1 < j + 1 /\ queue'[k][j] = queue[k][j + 1]
          BY <3>3, <4>4
        <5>2. QED
          BY <3>6, <4>2, <5>1
      <4>5. QED
        BY <4>3, <4>4
    <3>12. \A j \in 1 .. m + 1 : wire'[j].id <= Newest /\ wire'[j] \notin refused
      BY <3>3, <3>4, <3>5, <3>7
    <3>13. \A l \in Queues : \A i \in 1 .. Len(queue'[l]) :
              /\ queue'[l][i].kind = l /\ queue'[l][i].id <= Newest
              /\ queue'[l][i] \notin refused
              /\ \A j \in 1 .. Len(queue'[l]) : i < j => queue'[l][i].id < queue'[l][j].id
              /\ \A j \in 1 .. m + 1 : wire'[j].kind = l => wire'[j].id < queue'[l][i].id
      <4>1. TAKE l \in Queues
      <4>2. CASE l = k
        BY <3>3, <3>9, <3>11, <4>2
      <4>3. CASE l # k
        BY <3>2, <3>10, <4>3
      <4>4. QED
        BY <4>2, <4>3
    <3>15. SentInOrder'
      BY <3>4, <3>8
    <3>16. QED
      BY <2>1, <3>4, <3>12, <3>13, <3>15
  <2>4. QED
    BY <2>2, <2>3
<1>6. CASE Reconnect
  BY <1>6 DEF Reconnect
<1>7. ASSUME NEW r \in Requests, Written(r) \/ WriteFails(r) \/ Answer(r) PROVE Order'
  BY <1>7 DEF Written, WriteFails, Answer, link, shared, strategy
<1>8. CASE UNCHANGED vars
  BY <1>8 DEF vars, link, shared, strategy
<1>9. QED
  BY <1>1, <1>2, <1>3, <1>4, <1>5, <1>6, <1>7, <1>8 DEF Next, Strategy, Sender, Connection

-----------------------------------------------------------------------------
LEMMA StepKeeps == SenderInv /\ [Next]_vars => SenderInv'
BY FlagsKept, RestKept, WakeKept, OrderKept DEF SenderInv, TypeOK

\* The strengthened invariant holds in every state of every run of the sender.
THEOREM SenderInvariant == Spec => []SenderInv
BY InitHolds, StepKeeps, PTL DEF Spec

\* Every variable of the sender stays in its range (order_sender.h:31-60).
THEOREM TypeCorrect == Spec => []TypeOK
<1>1. SenderInv => TypeOK
  BY DEF SenderInv
<1>2. QED
  BY <1>1, SenderInvariant, PTL

\* The wakeups of placeOrder() and of the second look after the flag was cleared
\* together miss nothing (order_sender.cpp:79-84, 233-243): a request in a queue of
\* a live connection has somebody coming who takes it.
THEOREM NothingStranded == Spec => []NoRequestStranded
<1>1. SenderInv => NoRequestStranded
  BY DEF SenderInv, Wake, Chain, Queued, NoRequestStranded, Queues
<1>2. QED
  BY <1>1, SenderInvariant, PTL

\* Requests of one type reach the wire in the order they were placed, each at most
\* once, over all connections (order_sender.cpp:213-231).
THEOREM OneOrderPerKind == Spec => []SentInOrder
<1>1. SenderInv => SentInOrder
  BY DEF SenderInv, Order
<1>2. QED
  BY <1>1, SenderInvariant, PTL

\* What placeOrder() reported as refused never reaches the exchange
\* (order_sender.cpp:46-76).
THEOREM RefusedStaysHere == Spec => []RefusedNeverSent
<1>1. SenderInv => RefusedNeverSent
  <2>1. SUFFICES ASSUME SenderInv PROVE refused \cap ToSet(wire) = {}
    BY DEF RefusedNeverSent
  <2>2. DOMAIN wire = 1 .. Len(wire)
    BY <2>1 DEF SenderInv, TypeOK, RestTyped
  <2>3. \A j \in 1 .. Len(wire) : wire[j] \notin refused
    BY <2>1 DEF SenderInv, Order
  <2>4. QED
    BY <2>2, <2>3 DEF ToSet
<1>2. QED
  BY <1>1, SenderInvariant, PTL

=============================================================================
