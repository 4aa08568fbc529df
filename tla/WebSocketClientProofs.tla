----------------------- MODULE WebSocketClientProofs -----------------------
(***************************************************************************)
(* Proofs about a connection and its clients, for every number of clients  *)
(* and failures: the connection is given up only after a failed ping, and  *)
(* until a closed client asks for another replacement the clients follow   *)
(* one another, each replaced once, and never receive two streams.         *)
(***************************************************************************)
EXTENDS WebSocketClient, FiniteSetTheorems, TLAPS

\* A client whose stream is open, or was: until it is closed, it reads, will be closed,
\* or has lost its stream to a ping; closed, it receives nothing any more.
Running(cl) ==
    /\ cl.asked = 0 => /\ cl.link # "closed"
                       /\ \/ cl.stage = "open" /\ cl.reading
                          \/ cl.closing
                          \/ cl.error = "ping"
    /\ cl.asked > 0 => cl.stage = "failed" \/ cl.link \in {"broken", "closed"}

\* What is true of a client by itself.
Sound(cl) ==
    IF cl.stage \in Connecting THEN cl = [Fresh EXCEPT !.stage = cl.stage]
    ELSE IF cl.stage = "destroyed" THEN cl = Destroyed(cl)
    ELSE Running(cl)

\* What a step of a client does to it, and to the calls of the reconnect callback.
Changes(c) ==
    /\ UNCHANGED <<kind, current>>
    /\ \E new \in Client :
         /\ Sound(new)
         /\ client' = [client EXCEPT ![c] = new]
         /\ c = current => new.stage # "destroyed"
         /\ \/ new.asked = client[c].asked /\ posted' = posted
            \/ new.asked = client[c].asked + 1 /\ posted' = posted + 1

LEMMA FreshIsSound ==
    Fresh \in Client /\ Sound(Fresh) /\ Fresh.stage # "destroyed" /\ Fresh.asked = 0
BY DEF Fresh, Client, Sound, Connecting

\* Destroying a client that nothing holds keeps what is true of it.
LEMMA KeptIsSound ==
    ASSUME NEW cl \in Client, Sound(cl)
    PROVE  Kept(cl) \in Client /\ Sound(Kept(cl)) /\ Kept(cl).asked = cl.asked
<1>1. Destroyed(cl) \in Client /\ Destroyed(cl).stage = "destroyed"
      /\ Destroyed(cl).asked = cl.asked /\ Destroyed(cl).writes = cl.writes
  BY DEF Destroyed, Fresh, Client
<1>2. Destroyed(Destroyed(cl)) = Destroyed(cl)
  BY <1>1 DEF Destroyed
<1>3. Sound(Destroyed(cl))
  BY <1>1, <1>2 DEF Sound, Connecting
<1>4. QED
  BY <1>1, <1>3 DEF Kept

LEMMA SetChanges ==
    ASSUME client \in [Clients -> Client], NEW c \in Clients, NEW new \in Client,
           Sound(new), new.stage # "destroyed", Set(c, new), UNCHANGED <<kind, current>>,
           \/ new.asked = client[c].asked /\ posted' = posted
           \/ new.asked = client[c].asked + 1 /\ posted' = posted + 1
    PROVE  Changes(c)
<1>1. CASE c = current
  BY <1>1 DEF Set, Changes
<1>2. CASE c # current
  BY <1>2, KeptIsSound DEF Set, Changes
<1>3. QED
  BY <1>1, <1>2

LEMMA BecomeChanges ==
    ASSUME client \in [Clients -> Client], NEW c \in Clients, NEW new \in Client,
           Sound(new), new.stage # "destroyed", Become(c, new), new.asked = client[c].asked
    PROVE  Changes(c)
BY SetChanges DEF Become

\* A client that still connects: it fails, or goes on, or opens its stream.
LEMMA ConnectingChanges ==
    ASSUME client \in [Clients -> Client], NEW c \in Clients, Sound(client[c]),
           client[c].stage \in Connecting, Step(c)
    PROVE  Changes(c)
<1> DEFINE cl == client[c]
<1>1. cl \in Client /\ cl = [Fresh EXCEPT !.stage = cl.stage] /\ cl.stage \in Connecting
  BY DEF Sound
<1>2. /\ ~cl.reading /\ cl.writes = {} /\ cl.ping = "off" /\ cl.auth = "none" /\ ~cl.closing
      /\ cl.link = "alive" /\ cl.asked = 0 /\ cl.stage # "open" /\ cl.stage # "destroyed"
  <2>1. cl.stage # "open" /\ cl.stage # "destroyed"
    BY <1>1 DEF Connecting
  <2>2. QED
    BY <1>1, <2>1 DEF Fresh
<1> HIDE DEF cl
<1>3. ConnectStep(c)
  BY <1>2 DEF cl, Step, WriteDone, SendOrder, ReadFails, AuthAnswered, SubscriptionAnswered,
     AuthTimeout, PingTimer, PingSent, Pong, OnClose, OrphanWritten, LinkFails, SilentBreaks,
     Arrives, Receives, Succeeds
<1>4. CASE Become(c, ScheduleReconnect([cl EXCEPT !.stage = "failed"]))
  <2> DEFINE new == ScheduleReconnect([cl EXCEPT !.stage = "failed"])
  <2>1. new \in Client /\ new.stage = "failed" /\ new.asked = 0 /\ new.link = "alive"
        /\ new.closing
    BY <1>1, <1>2 DEF ScheduleReconnect, Client
  <2> HIDE DEF new
  <2>2. Sound(new)
    BY <2>1 DEF Sound, Running, Connecting
  <2>3. QED
    BY <1>2, <1>4, <2>1, <2>2, BecomeChanges DEF new, cl
<1>5. CASE cl.stage = "handshake" /\ Become(c, Opened(cl))
  <2>1. Opened(cl) \in Client /\ Opened(cl).stage = "open" /\ Opened(cl).asked = 0
        /\ Opened(cl).link = "alive" /\ Opened(cl).reading
    BY <1>1, <1>2 DEF Opened, Client, Writes
  <2>2. Sound(Opened(cl))
    BY <2>1 DEF Sound, Running, Connecting
  <2>3. QED
    BY <1>2, <1>5, <2>1, <2>2, BecomeChanges DEF cl
<1>6. CASE cl.stage \in Connecting \ {"handshake"} /\ Become(c, [cl EXCEPT !.stage = After[@]])
  <2> DEFINE new == [cl EXCEPT !.stage = After[@]]
  <2>1. After[cl.stage] \in Connecting
    BY <1>6 DEF After, Connecting
  <2>2. new \in Client /\ new.stage = After[cl.stage] /\ new.asked = 0
    BY <1>1, <1>2, <2>1 DEF Client, Connecting
  <2>3. new = [Fresh EXCEPT !.stage = new.stage]
    BY <1>1, <2>2 DEF Fresh
  <2> HIDE DEF new
  <2>4. Sound(new) /\ new.stage # "destroyed"
    BY <2>1, <2>2, <2>3 DEF Sound, Connecting
  <2>5. QED
    BY <1>2, <1>6, <2>2, <2>4, BecomeChanges DEF new, cl
<1>7. QED
  BY <1>1, <1>3, <1>4, <1>5, <1>6 DEF ConnectStep, cl

\* Of a destroyed client only writes are left.
LEMMA DestroyedChanges ==
    ASSUME client \in [Clients -> Client], NEW c \in Clients, Sound(client[c]), c # current,
           client[c].stage = "destroyed", Step(c)
    PROVE  Changes(c)
<1> DEFINE cl == client[c]
           new == [cl EXCEPT !.writes = {}]
<1>1. cl \in Client /\ cl = Destroyed(cl)
  BY DEF Sound, Connecting
<1>2. /\ ~cl.reading /\ cl.ping = "off" /\ cl.auth = "none" /\ ~cl.closing
      /\ cl.link = "closed" /\ cl.stage = "destroyed"
  BY <1>1 DEF Destroyed, Fresh
<1> HIDE DEF cl
<1>3. OrphanWritten(c)
  BY <1>2 DEF cl, Step, ConnectStep, WriteDone, Written, WriteFails, SendOrder, ReadFails,
     AuthAnswered, SubscriptionAnswered, AuthTimeout, PingTimer, PingSent, Pong, OnClose,
     LinkFails, SilentBreaks, Arrives, Receives, Succeeds, Fails, Connecting
<1>4. new \in Client /\ new.stage = "destroyed" /\ new.asked = cl.asked
  BY <1>1, <1>2 DEF Client
<1>5. new = Destroyed(new)
  BY <1>1, <1>4 DEF Destroyed, Fresh, Client
<1>6. Sound(new)
  BY <1>4, <1>5 DEF Sound, Connecting
<1>7. client' = [client EXCEPT ![c] = new] /\ UNCHANGED <<kind, current, posted>>
  BY <1>3 DEF OrphanWritten, cl
<1>8. QED
  BY <1>4, <1>6, <1>7 DEF Changes, cl

\* An operation that is done, and one that fails, leave the rest of the client alone.
LEMMA DoneIs ==
    ASSUME NEW cl \in Client, NEW op
    PROVE  /\ Done(cl, op) \in Client
           /\ Done(cl, op).stage = cl.stage /\ Done(cl, op).link = cl.link
           /\ Done(cl, op).reading = cl.reading /\ Done(cl, op).closing = cl.closing
           /\ Done(cl, op).error = cl.error /\ Done(cl, op).asked = cl.asked
BY DEF Done, Client

LEMMA UnderWayIs == \A cl \in Client : UnderWay(cl) \in SUBSET Operations
BY DEF UnderWay, Client, Operations, Writes

LEMMA FailedIs ==
    ASSUME NEW cl \in Client, NEW op \in Operations, cl.stage \in {"open", "failed"}
    PROVE  /\ Failed(cl, op) \in Client
           /\ Failed(cl, op).stage = "failed" /\ Failed(cl, op).link = cl.link
           /\ Failed(cl, op).closing = cl.closing /\ Failed(cl, op).asked = cl.asked
           /\ Failed(cl, op).error = IF cl.stage = "open" THEN op ELSE cl.error
<1>1. CASE cl.stage = "failed"
  BY <1>1, DoneIs DEF Failed
<1>2. CASE cl.stage = "open"
  <2> DEFINE done == Done(cl, op)
             left == UnderWay(cl) \ {op}
             new == [done EXCEPT !.stage = "failed", !.error = op, !.ended = left]
  <2>1. Failed(cl, op) = new
    BY <1>2 DEF Failed
  <2>2. done \in Client /\ done.link = cl.link /\ done.closing = cl.closing
        /\ done.asked = cl.asked
    BY DoneIs
  <2>3. left \in SUBSET Operations
    BY UnderWayIs
  <2> HIDE DEF done, left
  <2>4. new \in Client /\ new.stage = "failed" /\ new.error = op /\ new.link = cl.link
        /\ new.closing = cl.closing /\ new.asked = cl.asked
    BY <2>2, <2>3 DEF Client
  <2>5. QED
    BY <1>2, <2>1, <2>4
<1>3. QED
  BY <1>1, <1>2

\* A client whose stream is or was open, other than at onClose().
LEMMA RunningChanges ==
    ASSUME client \in [Clients -> Client], NEW c \in Clients,
           client[c].stage \in {"open", "failed"}, Running(client[c]), Step(c)
    PROVE  Changes(c)
<1> DEFINE cl == client[c]
<1>1. cl \in Client /\ Running(cl) /\ cl.stage \in {"open", "failed"}
  OBVIOUS
<1> HIDE DEF cl
<1>2. ASSUME NEW new \in Client, Become(c, new), new.stage = cl.stage, new.reading = cl.reading,
             new.error = cl.error, new.link = cl.link, cl.closing => new.closing,
             new.asked = cl.asked
      PROVE  Changes(c)
  <2>1. Sound(new)
    BY <1>1, <1>2 DEF Sound, Running, Connecting
  <2>2. QED
    BY <1>1, <1>2, <2>1, BecomeChanges DEF cl
<1>3. ASSUME NEW new \in Client, Become(c, ScheduleReconnect(new)), new.link = cl.link,
             new.stage = cl.stage \/ new.stage = "failed", new.asked = cl.asked
      PROVE  Changes(c)
  <2> DEFINE all == ScheduleReconnect(new)
  <2>1. all \in Client /\ all.closing /\ all.stage = new.stage /\ all.link = cl.link
        /\ all.asked = cl.asked
    BY <1>3 DEF ScheduleReconnect, Client
  <2> HIDE DEF all
  <2>2. Sound(all) /\ all.stage # "destroyed"
    BY <1>1, <1>3, <2>1 DEF Sound, Running, Connecting
  <2>3. QED
    BY <1>3, <2>1, <2>2, BecomeChanges DEF all, cl
<1>4. ~ConnectStep(c) /\ ~OrphanWritten(c)
  BY <1>1 DEF ConnectStep, OrphanWritten, Connecting, cl
<1>5. CASE WriteDone(c)
  <2>1. PICK w \in cl.writes : Written(c, w) \/ WriteFails(c, w)
    BY <1>5 DEF WriteDone, cl
  <2>2. w \in Operations
    BY <1>1 DEF Client, Operations
  <2>3. CASE WriteFails(c, w)
    BY <1>1, <1>3, <2>2, <2>3, FailedIs DEF WriteFails, cl
  <2>4. CASE Written(c, w)
    <3> DEFINE timed(a) == [Done(cl, w) EXCEPT !.auth = a]
    <3>1. \A a \in {"timer", "late"} :
            /\ timed(a) \in Client /\ timed(a).stage = cl.stage /\ timed(a).reading = cl.reading
            /\ timed(a).error = cl.error /\ timed(a).link = cl.link
            /\ timed(a).closing = cl.closing /\ timed(a).asked = cl.asked
      BY <1>1, DoneIs DEF Client
    <3>2. Become(c, Done(cl, w)) \/ \E a \in {"timer", "late"} : Become(c, timed(a))
      BY <2>4 DEF Written, cl
    <3>3. QED
      BY <1>1, <1>2, <3>1, <3>2, DoneIs
  <2>5. QED
    BY <2>1, <2>3, <2>4
<1>6. CASE SendOrder(c)
  <2> DEFINE new == [cl EXCEPT !.writes = {"order"}]
  <2>1. new \in Client /\ new.stage = cl.stage /\ new.reading = cl.reading
        /\ new.error = cl.error /\ new.link = cl.link /\ new.closing = cl.closing
        /\ new.asked = cl.asked
    BY <1>1 DEF Client, Writes
  <2>2. QED
    BY <1>2, <1>6, <2>1 DEF SendOrder, cl
<1>7. CASE ReadFails(c)
  <2> DEFINE f == Failed(cl, "read")
             new == [f EXCEPT !.reading = FALSE]
  <2>1. "read" \in Operations
    BY DEF Operations
  <2>2. new \in Client /\ new.stage = "failed" /\ new.link = cl.link /\ new.asked = cl.asked
        /\ new.closing = cl.closing /\ new.error = IF cl.stage = "open" THEN "read" ELSE cl.error
    <3>1. /\ f \in Client /\ f.stage = "failed" /\ f.link = cl.link /\ f.asked = cl.asked
          /\ f.closing = cl.closing /\ f.error = IF cl.stage = "open" THEN "read" ELSE cl.error
      BY <1>1, <2>1, FailedIs
    <3> HIDE DEF f
    <3>2. QED
      BY <3>1 DEF Client
  <2> HIDE DEF new
  <2>3. CASE Become(c, ScheduleReconnect(new))
    BY <1>3, <2>2, <2>3
  <2>4. CASE Aborted(cl) /\ Become(c, new)
    <3>1. Running(new)
      BY <1>1, <2>2, <2>4 DEF Running, Aborted
    <3>2. QED
      BY <2>2, <2>4, <3>1, BecomeChanges DEF Sound, Connecting, cl
  <2>5. QED
    BY <1>7, <2>3, <2>4 DEF ReadFails, new, cl
<1>8. CASE AuthAnswered(c)
  <2> DEFINE read == [Done(cl, "read") EXCEPT !.ended = @ \cup ({"auth"} \cap cl.writes)]
             more == [read EXCEPT !.auth = "done", !.writes = @ \cup {"subscribe"}]
             up   == [read EXCEPT !.auth = "done", !.ready = TRUE]
  <2>1. read \in Client /\ read.stage = cl.stage /\ read.reading = cl.reading
        /\ read.error = cl.error /\ read.link = cl.link /\ read.closing = cl.closing
        /\ read.asked = cl.asked
    BY <1>1, DoneIs DEF Client, Operations, Writes
  <2> HIDE DEF read
  <2>2. more \in Client /\ more.stage = cl.stage /\ more.reading = cl.reading
        /\ more.error = cl.error /\ more.link = cl.link /\ more.closing = cl.closing
        /\ more.asked = cl.asked
    BY <2>1 DEF Client, Writes
  <2>3. up \in Client /\ up.stage = cl.stage /\ up.reading = cl.reading
        /\ up.error = cl.error /\ up.link = cl.link /\ up.closing = cl.closing
        /\ up.asked = cl.asked
    BY <2>1 DEF Client
  <2>4. Become(c, ScheduleReconnect(read)) \/ Become(c, more) \/ Become(c, up)
    BY <1>8 DEF AuthAnswered, cl, read
  <2>5. QED
    BY <1>2, <1>3, <2>1, <2>2, <2>3, <2>4
<1>9. CASE SubscriptionAnswered(c)
  <2> DEFINE read == Done(cl, "read")
             up == [read EXCEPT !.ready = TRUE]
  <2>1. read \in Client /\ read.stage = cl.stage /\ read.reading = cl.reading
        /\ read.error = cl.error /\ read.link = cl.link /\ read.closing = cl.closing
        /\ read.asked = cl.asked
    BY <1>1, DoneIs
  <2> HIDE DEF read
  <2>2. up \in Client /\ up.stage = cl.stage /\ up.reading = cl.reading
        /\ up.error = cl.error /\ up.link = cl.link /\ up.closing = cl.closing
        /\ up.asked = cl.asked
    BY <2>1 DEF Client
  <2>3. Become(c, ScheduleReconnect(read)) \/ Become(c, up)
    BY <1>9 DEF SubscriptionAnswered, cl, read
  <2>4. QED
    BY <1>1, <1>2, <1>3, <2>1, <2>2, <2>3
<1>10. CASE AuthTimeout(c)
  <2> DEFINE new == [cl EXCEPT !.auth = "none"]
  <2>1. new \in Client /\ new.stage = cl.stage /\ new.link = cl.link /\ new.asked = cl.asked
    BY <1>1 DEF Client
  <2>2. QED
    BY <1>3, <1>10, <2>1 DEF AuthTimeout, cl
<1>11. CASE PingTimer(c)
  <2> DEFINE off == [cl EXCEPT !.ping = "off"]
             sending == [cl EXCEPT !.ping = "sending", !.waitPong = TRUE]
  <2>1. off \in Client /\ off.stage = cl.stage /\ off.reading = cl.reading
        /\ off.error = cl.error /\ off.link = cl.link /\ off.closing = cl.closing
        /\ off.asked = cl.asked
    BY <1>1 DEF Client
  <2>2. sending \in Client /\ sending.stage = cl.stage /\ sending.reading = cl.reading
        /\ sending.error = cl.error /\ sending.link = cl.link /\ sending.closing = cl.closing
        /\ sending.asked = cl.asked
    BY <1>1 DEF Client
  <2>3. Become(c, ScheduleReconnect(off)) \/ Become(c, off) \/ Become(c, sending)
    BY <1>11 DEF PingTimer, cl
  <2>4. QED
    BY <1>2, <1>3, <2>1, <2>2, <2>3
<1>12. CASE PingSent(c)
  <2> DEFINE good == [Done(cl, "ping") EXCEPT !.ping = "timer"]
             f    == Failed(cl, "ping")
             bad  == [f EXCEPT !.ping = "off"]
  <2>1. "ping" \in Operations
    BY DEF Operations
  <2>2. good \in Client /\ good.stage = cl.stage /\ good.reading = cl.reading
        /\ good.error = cl.error /\ good.link = cl.link /\ good.closing = cl.closing
        /\ good.asked = cl.asked
    BY <1>1, DoneIs DEF Client
  <2>3. bad \in Client /\ bad.stage = "failed" /\ bad.link = cl.link /\ bad.asked = cl.asked
        /\ bad.closing = cl.closing /\ bad.error = IF cl.stage = "open" THEN "ping" ELSE cl.error
    <3>1. /\ f \in Client /\ f.stage = "failed" /\ f.link = cl.link /\ f.asked = cl.asked
          /\ f.closing = cl.closing /\ f.error = IF cl.stage = "open" THEN "ping" ELSE cl.error
      BY <1>1, <2>1, FailedIs
    <3> HIDE DEF f
    <3>2. QED
      BY <3>1 DEF Client
  <2>4. CASE Become(c, good)
    BY <1>2, <2>2, <2>4
  <2> HIDE DEF bad
  <2>5. CASE Become(c, bad)
    <3>1. Running(bad)
      BY <1>1, <2>3 DEF Running
    <3>2. QED
      BY <2>3, <2>5, <3>1, BecomeChanges DEF Sound, Connecting, cl
  <2>6. QED
    BY <1>12, <2>4, <2>5 DEF PingSent, bad, cl
<1>13. CASE Pong(c)
  <2> DEFINE new == [cl EXCEPT !.waitPong = FALSE]
  <2>1. new \in Client /\ new.stage = cl.stage /\ new.reading = cl.reading
        /\ new.error = cl.error /\ new.link = cl.link /\ new.closing = cl.closing
        /\ new.asked = cl.asked
    BY <1>1 DEF Client
  <2>2. QED
    BY <1>2, <1>13, <2>1 DEF Pong, cl
<1>14. CASE LinkFails(c) \/ SilentBreaks(c)
  <2> DEFINE silent == [cl EXCEPT !.link = "silent"]
  <2>1. /\ silent \in Client /\ silent.stage = cl.stage /\ silent.reading = cl.reading
        /\ silent.closing = cl.closing /\ silent.error = cl.error
        /\ silent.asked = cl.asked /\ silent.link = "silent"
    BY <1>1 DEF Client
  <2>2. /\ Torn(cl) \in Client /\ Torn(cl).stage = cl.stage /\ Torn(cl).reading = cl.reading
        /\ Torn(cl).closing = cl.closing /\ Torn(cl).error = cl.error
        /\ Torn(cl).asked = cl.asked /\ Torn(cl).link = "broken"
    BY <1>1, UnderWayIs DEF Client, Torn
  <2>3. CASE Become(c, silent) /\ cl.stage = "open" /\ cl.link = "alive"
    <3>1. Running(silent)
      BY <1>1, <2>1, <2>3 DEF Running
    <3>2. QED
      BY <1>1, <2>1, <2>3, <3>1, BecomeChanges DEF Sound, Connecting, cl
  <2>4. CASE Become(c, Torn(cl))
    <3>1. Running(Torn(cl))
      BY <1>1, <2>2 DEF Running
    <3>2. QED
      BY <1>1, <2>2, <2>4, <3>1, BecomeChanges DEF Sound, Connecting, cl
  <2>5. QED
    BY <1>14, <2>3, <2>4 DEF LinkFails, SilentBreaks, cl
<1>15. CASE OnClose(c)
  <2> DEFINE reset == [cl EXCEPT !.closing = FALSE, !.asked = @ + 1, !.ended = UnderWay(cl)]
             shut(p, l) == [reset EXCEPT !.ping = p, !.link = l]
             off(p) == [reset EXCEPT !.ping = p]
  <2>1. PICK p \in {"off", cl.ping}, l \in {"closed", "broken"} :
          Set(c, IF cl.stage = "open" THEN shut(p, l) ELSE off(p))
    BY <1>15 DEF OnClose, cl
  <2>2. posted' = posted + 1 /\ UNCHANGED <<kind, current>>
    BY <1>15 DEF OnClose
  <2>3. cl.asked + 1 \in Nat
    BY <1>1 DEF Client
  <2>4. shut(p, l) \in Client /\ shut(p, l).stage = cl.stage
        /\ shut(p, l).link = l /\ shut(p, l).asked = cl.asked + 1
    BY <1>1, <2>3, UnderWayIs DEF Client
  <2>5. off(p) \in Client /\ off(p).stage = cl.stage /\ off(p).asked = cl.asked + 1
    BY <1>1, <2>3, UnderWayIs DEF Client
  <2>6. cl.asked + 1 # 0
    BY <1>1 DEF Client
  <2>7. CASE cl.stage = "open"
    <3>1. Sound(shut(p, l))
      BY <2>1, <2>4, <2>6, <2>7 DEF Sound, Running, Connecting
    <3>2. Set(c, shut(p, l))
      BY <2>1, <2>7
    <3>3. QED
      BY <2>2, <2>4, <2>7, <3>1, <3>2, SetChanges DEF cl
  <2>8. CASE cl.stage = "failed"
    <3>1. Sound(off(p))
      BY <2>5, <2>6, <2>8 DEF Sound, Running, Connecting
    <3>2. Set(c, off(p))
      BY <2>1, <2>8
    <3>3. QED
      BY <2>2, <2>5, <2>8, <3>1, <3>2, SetChanges DEF cl
  <2>9. QED
    BY <1>1, <2>7, <2>8
<1>16. QED
  BY <1>4, <1>5, <1>6, <1>7, <1>8, <1>9, <1>10, <1>11, <1>12, <1>13, <1>14, <1>15 DEF Step

\* Every step of a client of the manager's, the destroyed ones included.
LEMMA StepChanges ==
    ASSUME client \in [Clients -> Client], NEW c \in Clients, Sound(client[c]), Step(c),
           c = current => client[c].stage # "destroyed"
    PROVE  Changes(c)
<1>1. client[c].stage \in Connecting \cup {"open", "failed", "destroyed"}
  BY DEF Client
<1>2. CASE client[c].stage \in Connecting
  BY <1>2, ConnectingChanges
<1>3. CASE client[c].stage = "destroyed"
  BY <1>3, DestroyedChanges
<1>4. CASE client[c].stage \in {"open", "failed"}
  BY <1>4, RunningChanges DEF Sound, Connecting
<1>5. QED
  BY <1>1, <1>2, <1>3, <1>4

LEMMA StepCounts ==
    ASSUME TypeOK, NEW c \in Clients, Step(c)
    PROVE  over' \in BOOLEAN /\ faults' \in 0 .. MaxFaults
<1>1. UNCHANGED over \/ over' \in BOOLEAN
  BY DEF Step, ConnectStep, WriteDone, Written, WriteFails, SendOrder, ReadFails, AuthAnswered,
     SubscriptionAnswered, AuthTimeout, PingTimer, PingSent, Pong, OnClose, OrphanWritten,
     LinkFails, SilentBreaks, Become
<1>2. Fault \/ NoFault
  BY DEF Step, ConnectStep, WriteDone, Written, WriteFails, SendOrder, ReadFails, AuthAnswered,
     SubscriptionAnswered, AuthTimeout, PingTimer, PingSent, Pong, OnClose, OrphanWritten,
     LinkFails, SilentBreaks, NoFault
<1>3. QED
  BY <1>1, <1>2, WebSocketClientAssumption DEF TypeOK, Fault, NoFault, WebSocketClientAssumption

-----------------------------------------------------------------------------
\* The manager's client exists, and is replaced if it has asked for it.
Tended ==
    /\ TypeOK
    /\ \A c \in Clients : Sound(client[c]) /\ (c > current => client[c] = Fresh)
    /\ client[current].stage # "destroyed"
    /\ client[current].asked > 0 => posted > 0

\* The clients before the manager's have asked once each; the manager's own has asked
\* exactly while its replacement is posted.
OneAtATime ==
    /\ \A c \in Clients : c < current => client[c].asked = 1
    /\ posted = client[current].asked /\ posted \in {0, 1}

Inv == Tended /\ (AskedAgain \/ OneAtATime)

LEMMA InitHolds == Init => Inv
<1> SUFFICES ASSUME Init PROVE Inv
  OBVIOUS
<1>1. TypeOK
  <2>1. client \in [Clients -> Client] /\ over \in BOOLEAN
    BY FreshIsSound DEF Init
  <2>2. current \in Clients /\ posted \in Nat /\ faults \in 0 .. MaxFaults /\ kind \in Kinds
    BY WebSocketClientAssumption DEF WebSocketClientAssumption, Init, Clients
  <2>3. QED
    BY <2>1, <2>2 DEF TypeOK
<1>2. Tended
  BY <1>1, FreshIsSound DEF Init, Tended, TypeOK
<1>3. OneAtATime
  BY <1>1, FreshIsSound DEF Init, OneAtATime, TypeOK, Clients
<1>4. QED
  BY <1>2, <1>3 DEF Inv

LEMMA StepKeeps ==
    ASSUME Inv, NEW c \in Clients, c <= current, Step(c)
    PROVE  Inv'
<1>1. Changes(c)
  BY StepChanges DEF Inv, Tended, TypeOK
<1>2. PICK new \in Client :
        /\ Sound(new)
        /\ client' = [client EXCEPT ![c] = new]
        /\ c = current => new.stage # "destroyed"
        /\ \/ new.asked = client[c].asked /\ posted' = posted
           \/ new.asked = client[c].asked + 1 /\ posted' = posted + 1
  BY <1>1 DEF Changes
<1>3. UNCHANGED <<kind, current>>
  BY <1>1 DEF Changes
<1>4. /\ client \in [Clients -> Client] /\ current \in Clients /\ posted \in Nat
      /\ \A d \in Clients : client[d].asked \in Nat
  BY DEF Inv, Tended, TypeOK, Client
<1>5. TypeOK'
  BY <1>2, <1>3, <1>4, StepCounts DEF TypeOK, Inv, Tended
<1>6. Tended'
  <2>1. \A d \in Clients : Sound(client'[d]) /\ (d > current' => client'[d] = Fresh)
    BY <1>2, <1>3, <1>4 DEF Inv, Tended, Clients
  <2>2. client'[current'].stage # "destroyed"
    BY <1>2, <1>3, <1>4 DEF Inv, Tended
  <2>3. client'[current'].asked > 0 => posted' > 0
    BY <1>2, <1>3, <1>4 DEF Inv, Tended
  <2>4. QED
    BY <1>5, <2>1, <2>2, <2>3 DEF Tended
<1>7. CASE AskedAgain
  <2>1. PICK d \in Clients : client[d].asked > 1
    BY <1>7 DEF AskedAgain
  <2>2. client'[d].asked > 1
    BY <1>2, <1>4, <2>1
  <2>3. QED
    BY <1>6, <2>2 DEF AskedAgain, Inv
<1>8. CASE OneAtATime /\ ~AskedAgain'
  <2>1. client'[c].asked <= 1
    BY <1>2, <1>4, <1>8 DEF AskedAgain, Client
  <2>2. CASE new.asked = client[c].asked /\ posted' = posted
    <3>1. \A d \in Clients : client'[d].asked = client[d].asked
      BY <1>2, <1>4, <2>2
    <3>2. QED
      BY <1>3, <1>4, <1>6, <1>8, <2>2, <3>1 DEF OneAtATime, Inv
  <2>3. CASE new.asked = client[c].asked + 1 /\ posted' = posted + 1
    <3>1. client[c].asked = 0 /\ new.asked = 1
      BY <1>2, <1>4, <2>1, <2>3
    <3>2. c = current /\ posted = 0
      BY <1>4, <1>8, <3>1 DEF OneAtATime, Clients
    <3>3. QED
      BY <1>2, <1>3, <1>4, <1>6, <1>8, <2>3, <3>1, <3>2 DEF OneAtATime, Inv
  <2>4. QED
    BY <1>2, <2>2, <2>3
<1>9. QED
  BY <1>6, <1>7, <1>8 DEF Inv

LEMMA ReplaceKeeps == Inv /\ Replace => Inv'
<1> SUFFICES ASSUME Inv, Replace PROVE Inv'
  OBVIOUS
<1>1. /\ client \in [Clients -> Client] /\ current \in Clients /\ posted \in Nat
      /\ \A d \in Clients : client[d].asked \in Nat
  BY DEF Inv, Tended, TypeOK, Client
<1>2. /\ posted > 0 /\ posted' = posted - 1 /\ current' = current + 1
      /\ current + 1 \in Clients /\ UNCHANGED <<kind, over, faults>>
  BY <1>1, WebSocketClientAssumption DEF WebSocketClientAssumption, Replace, Clients
<1>3. client' = [client EXCEPT ![current] = Kept(client[current])]
  BY DEF Replace
<1>4. Kept(client[current]) \in Client /\ Sound(Kept(client[current]))
      /\ Kept(client[current]).asked = client[current].asked
  BY <1>1, KeptIsSound DEF Inv, Tended
<1>5. client'[current + 1] = Fresh
  BY <1>1, <1>2, <1>3 DEF Inv, Tended, Clients
<1>6. \A d \in Clients : client'[d].asked = client[d].asked
  BY <1>1, <1>3, <1>4
<1>7. TypeOK'
  BY <1>1, <1>2, <1>3, <1>4 DEF Inv, Tended, TypeOK
<1>8. Tended'
  <2>1. \A d \in Clients : Sound(client'[d]) /\ (d > current' => client'[d] = Fresh)
    BY <1>1, <1>2, <1>3, <1>4 DEF Inv, Tended, Clients
  <2>2. QED
    BY <1>2, <1>5, <1>7, <2>1, FreshIsSound DEF Tended
<1>9. CASE AskedAgain
  BY <1>6, <1>8, <1>9 DEF AskedAgain, Inv
<1>10. CASE OneAtATime
  <2>1. posted = 1 /\ client[current].asked = 1
    BY <1>2, <1>10 DEF OneAtATime
  <2>2. \A d \in Clients : d < current' => client'[d].asked = 1
    BY <1>1, <1>2, <1>6, <1>10, <2>1 DEF OneAtATime, Clients
  <2>3. QED
    BY <1>2, <1>5, <1>8, <2>1, <2>2, FreshIsSound DEF OneAtATime, Inv
<1>11. QED
  BY <1>9, <1>10 DEF Inv

LEMMA InvHolds == Spec => []Inv
<1>1. Inv /\ [Next]_vars => Inv'
  <2> SUFFICES ASSUME Inv, [Next]_vars PROVE Inv'
    OBVIOUS
  <2>1. CASE UNCHANGED vars
    BY <2>1 DEF vars, Inv, Tended, TypeOK, OneAtATime, AskedAgain
  <2>2. CASE Next
    BY <2>2, ReplaceKeeps, StepKeeps DEF Next
  <2>3. QED
    BY <2>1, <2>2
<1>2. QED
  BY <1>1, InitHolds, PTL DEF Spec

-----------------------------------------------------------------------------
\* The variables keep their types; in particular every client is in a state of the
\* code's (base_websocket_client.h).
THEOREM ClientsTyped == Spec => []TypeOK
<1>1. Inv => TypeOK
  BY DEF Inv, Tended
<1>2. QED
  BY <1>1, InvHolds, PTL

\* Clients are replaced one after another, each once, until one that was closed already
\* asks again (base_websocket_client.cpp:156-196).
THEOREM ReplacedInTurn == Spec => [](AskedAgain \/ OneAtATime)
<1>1. Inv => AskedAgain \/ OneAtATime
  BY DEF Inv
<1>2. QED
  BY <1>1, InvHolds, PTL

\* Until then two clients never receive the stream at the same time
\* (connection_manager.cpp:79-111).
THEOREM NeverTwoStreams == Spec => []OneStream
<1>1. Inv => OneStream
  <2> SUFFICES ASSUME Inv, ~AskedAgain PROVE OneStream
    BY DEF OneStream
  <2> DEFINE S == {c \in 1 .. current : Receives(client[c])}
  <2>1. S \subseteq {current}
    <3> SUFFICES ASSUME NEW c \in 1 .. current, c # current PROVE ~Receives(client[c])
      OBVIOUS
    <3>1. c \in Clients /\ c < current
      BY WebSocketClientAssumption DEF WebSocketClientAssumption, Inv, Tended, TypeOK, Clients
    <3>2. client[c].asked = 1 /\ Sound(client[c])
      BY <3>1 DEF Inv, Tended, OneAtATime
    <3>3. client[c].stage = "open" => client[c].link \in {"broken", "closed"}
      BY <3>2 DEF Sound, Running, Connecting
    <3>4. QED
      BY <3>3 DEF Receives
  <2>2. IsFiniteSet({current}) /\ Cardinality({current}) = 1
    BY FS_Singleton
  <2>3. Cardinality(S) <= 1
    BY <2>1, <2>2, FS_Subset
  <2>4. QED
    BY <2>3 DEF OneStream
<1>2. QED
  BY <1>1, InvHolds, PTL

\* The connection is given up in one way only: its ping got the stream's error, and the
\* other operations were aborted (base_websocket_client.cpp:146-153,
\* order_sender.cpp:154-158).
THEOREM AlwaysServed == Spec => []NeverAbandoned
<1>1. Inv => NeverAbandoned
  <2> SUFFICES ASSUME Inv, posted = 0, client[current].stage \notin Connecting
               PROVE  NeverAbandoned
    BY DEF Inv, Tended, TypeOK, NeverAbandoned, Served
  <2>1. client[current] \in Client /\ current \in Clients /\ client[current].asked = 0
    BY DEF Inv, Tended, TypeOK, Client
  <2>2. Running(client[current])
    BY <2>1 DEF Inv, Tended, Sound
  <2>3. QED
    BY <2>1, <2>2 DEF Running, NeverAbandoned, Served
<1>2. QED
  BY <1>1, InvHolds, PTL

=============================================================================
