-------------------------- MODULE ChannelHostProofs --------------------------
(***************************************************************************)
(* Proofs about the host of the channels, for any channels, events, limit  *)
(* of the queues and number of inputs: what is queued and answered, and    *)
(* that each task the lifespan runs, stops and cancels keeps the protocol  *)
(* of RealtimeChannel, which rests on every channel being told before any  *)
(* task is cancelled.                                                      *)
(***************************************************************************)
EXTENDS ChannelHost, TLAPS

(* Where the posted events are, and what the queues are made of.           *)
Stage == {"unsent", "body"} \cup Answered

Typed ==
  /\ DOMAIN post = Posted /\ DOMAIN queue = Webhook
  /\ DOMAIN received = Webhook /\ DOMAIN pushed_out = Webhook
  /\ \A e \in Posted : /\ post[e] \in [to : Webhook \cup {"nobody"}, at : Stage]
                       /\ post[e].at # "unsent" => post[e].to \in Webhook
  /\ \A c \in Webhook : queue[c] \in Seq(Event)

(* disconnect() was called on the channels the lifespan has passed, hence  *)
(* on all of them before it cancels a task.                                *)
ToldInTurn ==
  /\ turn \in Nat /\ turn >= 1
  /\ DOMAIN link = Realtime /\ DOMAIN asked = Realtime /\ DOMAIN cancelled = Realtime
  /\ \A k \in 1..Len(Channels) : k < turn /\ Channels[k] \in Realtime => asked[Channels[k]]
  /\ app \in {"closing", "closed"} => AllDisconnected
  /\ \A c \in Realtime : cancelled[c] => app \in {"closing", "closed"}
  /\ app = "built" => \A c \in Realtime : link[c] = "created"

IInv == Typed /\ GenuineIsKept /\ ToldInTurn

(* What is known of the channels.                                          *)
LEMMA ChannelsTyped ==
  /\ Channels \in Seq(Channel) /\ \A c \in Channel : \E k \in 1..Len(Channels) : Channels[k] = c
  /\ QueueMax \in Nat /\ QueueMax >= 1 /\ Genuine \cap Ping = {}
BY HostAssumption DEF ToSet

(* Once the lifespan has passed them all, every channel has been told.     *)
LEMMA AllTold ==
  ASSUME ToldInTurn, AllDisconnected, NEW c \in Realtime PROVE asked[c]
<1>1. PICK k \in 1..Len(Channels) : Channels[k] = c
  BY ChannelsTyped DEF Channel
<1>2. k < turn
  BY <1>1, ChannelsTyped DEF AllDisconnected, ToldInTurn
<1> QED BY <1>1, <1>2 DEF ToldInTurn

LEMMA InitInv == Init => IInv
<1> SUFFICES ASSUME Init PROVE IInv
  OBVIOUS
<1>1. Typed
  BY DEF Init, Typed, Stage
<1>2. GenuineIsKept
  BY ChannelsTyped DEF Init, GenuineIsKept, Kept, ToSet, Answered, Posted
<1>3. ToldInTurn
  BY ChannelsTyped DEF Init, ToldInTurn
<1> QED BY <1>1, <1>2, <1>3 DEF IInv

(* A deque with a limit keeps its limit, takes the new event and gives away*)
(* none but the oldest.                                                    *)
LEMMA QueueKept ==
  ASSUME NEW c \in Webhook, NEW e \in Event, queue[c] \in Seq(Event), Len(queue[c]) <= QueueMax
  PROVE  /\ QueueAfter(c, e) \in Seq(Event) /\ Len(QueueAfter(c, e)) <= QueueMax
         /\ e \in ToSet(QueueAfter(c, e))
         /\ ToSet(QueueAfter(c, e)) \subseteq ToSet(queue[c]) \cup {e}
         /\ \A x \in ToSet(queue[c]) :
              x \in ToSet(QueueAfter(c, e)) \/ (Len(queue[c]) = QueueMax /\ x = Head(queue[c]))
         /\ Len(queue[c]) = QueueMax => Head(queue[c]) \in ToSet(queue[c])
<1> DEFINE full == Len(queue[c]) = QueueMax
           rest == IF full THEN Tail(queue[c]) ELSE queue[c]
           after == QueueAfter(c, e)
<1>1. full => /\ queue[c] # <<>> /\ Head(queue[c]) = queue[c][1] /\ 1 \in DOMAIN queue[c]
              /\ Tail(queue[c]) \in Seq(Event) /\ Len(Tail(queue[c])) = Len(queue[c]) - 1
              /\ \A k \in 1..Len(Tail(queue[c])) : Tail(queue[c])[k] = queue[c][k + 1]
  BY ChannelsTyped
<1>2. rest \in Seq(Event) /\ Len(rest) < QueueMax
  BY <1>1, ChannelsTyped
<1>3. after = Append(rest, e)
  BY DEF QueueAfter
<1>4. /\ after \in Seq(Event) /\ Len(after) = Len(rest) + 1 /\ after[Len(rest) + 1] = e
      /\ DOMAIN after = 1..(Len(rest) + 1) /\ Len(rest) \in Nat
      /\ \A k \in 1..Len(rest) : after[k] = rest[k]
  BY <1>2, <1>3
<1>5. Len(after) <= QueueMax
  BY <1>2, <1>4, ChannelsTyped
<1>6. e \in ToSet(after)
  BY <1>4 DEF ToSet
<1>7. ASSUME NEW x \in ToSet(after) PROVE x \in ToSet(queue[c]) \cup {e}
  <2>1. PICK k \in 1..(Len(rest) + 1) : after[k] = x
    BY <1>4 DEF ToSet
  <2>2. CASE k = Len(rest) + 1
    BY <1>4, <2>1, <2>2
  <2>3. CASE k # Len(rest) + 1
    <3>1. k \in 1..Len(rest) /\ rest[k] = x
      BY <1>4, <2>1, <2>3
    <3>2. \E j \in 1..Len(queue[c]) : queue[c][j] = x
      <4>1. CASE full
        <5>1. k + 1 \in 1..Len(queue[c]) /\ queue[c][k + 1] = x
          BY <1>1, <3>1, <4>1
        <5> QED BY <5>1
      <4>2. CASE ~full
        BY <3>1, <4>2
      <4> QED BY <4>1, <4>2
    <3> QED BY <3>2 DEF ToSet
  <2> QED BY <2>2, <2>3
<1>8. ASSUME NEW x \in ToSet(queue[c])
      PROVE  x \in ToSet(after) \/ (full /\ x = Head(queue[c]))
  <2>1. PICK k \in 1..Len(queue[c]) : queue[c][k] = x
    BY <1>8 DEF ToSet
  <2>2. CASE full /\ k = 1
    BY <1>1, <2>1, <2>2
  <2>3. CASE full /\ k # 1
    <3>1. k - 1 \in 1..Len(rest) /\ rest[k - 1] = x
      BY <1>1, <2>1, <2>3
    <3>2. k - 1 \in DOMAIN after /\ after[k - 1] = x
      BY <1>4, <3>1
    <3> QED BY <3>2 DEF ToSet
  <2>4. CASE ~full
    <3>1. k \in DOMAIN after /\ after[k] = x
      BY <1>4, <2>1, <2>4
    <3> QED BY <3>1 DEF ToSet
  <2> QED BY <2>2, <2>3, <2>4
<1>9. full => Head(queue[c]) \in ToSet(queue[c])
  BY <1>1 DEF ToSet
<1> HIDE DEF full, rest, after
<1> QED BY <1>4, <1>5, <1>6, <1>7, <1>8, <1>9 DEF full, after

(* What an endpoint or the gateway queues is kept beside all that was.     *)
LEMMA Enqueued ==
  ASSUME Typed, NEW c \in Webhook, NEW e \in Event, Enqueue(c, e), UNCHANGED received,
         Len(queue[c]) <= QueueMax
  PROVE  /\ DOMAIN queue' = Webhook /\ DOMAIN received' = Webhook /\ DOMAIN pushed_out' = Webhook
         /\ \A d \in Webhook : d # c => queue'[d] = queue[d]
         /\ queue'[c] \in Seq(Event) /\ Len(queue'[c]) <= QueueMax
         /\ \A d \in Webhook : Kept(d) \subseteq Kept(d)'
         /\ \A d \in Webhook : Kept(d)' \subseteq Kept(d) \cup (IF d = c THEN {e} ELSE {})
         /\ e \in Kept(c)'
<1> DEFINE full == Len(queue[c]) = QueueMax
<1>1. /\ DOMAIN queue = Webhook /\ DOMAIN received = Webhook /\ DOMAIN pushed_out = Webhook
      /\ queue[c] \in Seq(Event)
  BY DEF Typed
<1>2. queue' = [queue EXCEPT ![c] = QueueAfter(c, e)]
  BY DEF Enqueue
<1>3. pushed_out' = IF full THEN [pushed_out EXCEPT ![c] = @ \cup {Head(queue[c])}] ELSE pushed_out
  BY DEF Enqueue
<1>4. /\ QueueAfter(c, e) \in Seq(Event) /\ Len(QueueAfter(c, e)) <= QueueMax
      /\ e \in ToSet(QueueAfter(c, e))
      /\ ToSet(QueueAfter(c, e)) \subseteq ToSet(queue[c]) \cup {e}
      /\ \A x \in ToSet(queue[c]) :
           x \in ToSet(QueueAfter(c, e)) \/ (full /\ x = Head(queue[c]))
      /\ full => Head(queue[c]) \in ToSet(queue[c])
  BY <1>1, QueueKept
<1>5. queue'[c] = QueueAfter(c, e) /\ \A d \in Webhook : d # c => queue'[d] = queue[d]
  BY <1>1, <1>2
<1>6. /\ pushed_out'[c] = IF full THEN pushed_out[c] \cup {Head(queue[c])} ELSE pushed_out[c]
      /\ \A d \in Webhook : d # c => pushed_out'[d] = pushed_out[d]
  BY <1>1, <1>3
<1>7. \A d \in Webhook : Kept(d)' = ToSet(queue'[d]) \cup received[d] \cup pushed_out'[d]
  BY DEF Kept, ToSet
<1>8. \A d \in Webhook : d # c => Kept(d)' = Kept(d)
  BY <1>5, <1>6, <1>7 DEF Kept
<1> HIDE DEF full
<1>9. Kept(c) \subseteq Kept(c)' /\ Kept(c)' \subseteq Kept(c) \cup {e} /\ e \in Kept(c)'
  BY <1>4, <1>5, <1>6, <1>7 DEF Kept
<1>10. DOMAIN queue' = Webhook /\ DOMAIN received' = Webhook /\ DOMAIN pushed_out' = Webhook
  BY <1>1, <1>2, <1>3
<1> QED BY <1>4, <1>5, <1>8, <1>9, <1>10

(* Where one event goes leaves the others where they are.                  *)
LEMMA Moved ==
  ASSUME Typed, NEW e \in Posted, NEW c \in Webhook, NEW where \in Stage, Goes(e, c, where)
  PROVE  /\ DOMAIN post' = Posted
         /\ post'[e] = [to |-> c, at |-> where]
         /\ \A f \in Posted : f # e => post'[f] = post[f]
         /\ \A f \in Posted : /\ post'[f] \in [to : Webhook \cup {"nobody"}, at : Stage]
                              /\ post'[f].at # "unsent" => post'[f].to \in Webhook
<1>1. DOMAIN post = Posted /\ post' = [post EXCEPT ![e] = [to |-> c, at |-> where]]
  BY DEF Typed, Goes
<1>2. /\ DOMAIN post' = Posted /\ post'[e] = [to |-> c, at |-> where]
      /\ \A f \in Posted : f # e => post'[f] = post[f]
  BY <1>1
<1>3. ASSUME NEW f \in Posted
      PROVE  /\ post'[f] \in [to : Webhook \cup {"nobody"}, at : Stage]
             /\ post'[f].at # "unsent" => post'[f].to \in Webhook
  <2>1. CASE f = e
    BY <1>2, <2>1
  <2>2. CASE f # e
    BY <1>2, <2>2 DEF Typed
  <2> QED BY <2>1, <2>2
<1> QED BY <1>2, <1>3

(* A step that queues nothing, takes nothing and answers no genuine event  *)
(* with a 200 keeps what is known of the queues.                           *)
LEMMA QueuesAlone ==
  ASSUME Typed, GenuineIsKept, UNCHANGED queues,
         DOMAIN post' = Posted,
         \A f \in Posted : /\ post'[f] \in [to : Webhook \cup {"nobody"}, at : Stage]
                           /\ post'[f].at # "unsent" => post'[f].to \in Webhook,
         \A f \in Genuine : post'[f].at = "200" => post'[f] = post[f]
  PROVE  Typed' /\ GenuineIsKept'
<1>1. queue' = queue /\ received' = received /\ pushed_out' = pushed_out
  BY DEF queues
<1>2. \A c \in Webhook : Kept(c)' = Kept(c)
  BY <1>1 DEF Kept, ToSet
<1>3. Typed'
  BY <1>1 DEF Typed
<1>4. \A f \in Genuine : post'[f].at = "200" => post'[f].to \in Webhook
  BY DEF Posted
<1>5. GenuineIsKept'
  BY <1>1, <1>2, <1>4 DEF GenuineIsKept
<1> QED BY <1>3, <1>5

(* The endpoint answers with a 200, and queues, nothing but what is genuine.*)
LEMMA BodyKept ==
  ASSUME Typed, GenuineIsKept, NEW e \in Posted, NEW c \in Webhook, BodyArrives(e, c)
  PROVE  Typed' /\ GenuineIsKept'
<1>1. StatusOf(e, c) \in Stage
  BY DEF StatusOf, Stage, Answered
<1>2. /\ DOMAIN post' = Posted
      /\ post'[e] = [to |-> c, at |-> StatusOf(e, c)]
      /\ \A f \in Posted : f # e => post'[f] = post[f]
      /\ \A f \in Posted : /\ post'[f] \in [to : Webhook \cup {"nobody"}, at : Stage]
                           /\ post'[f].at # "unsent" => post'[f].to \in Webhook
  BY <1>1, Moved DEF BodyArrives
<1>3. StatusOf(e, c) = "200" => e \in Genuine \cup Ping
  BY DEF StatusOf, SignatureFails, Posted
<1>4. CASE StatusOf(e, c) = "200" /\ e \notin Ping
  <2>1. Enqueue(c, e) /\ UNCHANGED received /\ e \in Event /\ e \in Genuine
    BY <1>3, <1>4 DEF BodyArrives, Event
  <2>2. Len(queue[c]) <= QueueMax
    BY DEF GenuineIsKept
  <2>3. /\ DOMAIN queue' = Webhook /\ DOMAIN received' = Webhook /\ DOMAIN pushed_out' = Webhook
        /\ \A d \in Webhook : d # c => queue'[d] = queue[d]
        /\ queue'[c] \in Seq(Event) /\ Len(queue'[c]) <= QueueMax
        /\ \A d \in Webhook : Kept(d) \subseteq Kept(d)'
        /\ \A d \in Webhook : Kept(d)' \subseteq Kept(d) \cup (IF d = c THEN {e} ELSE {})
        /\ e \in Kept(c)'
    BY <2>1, <2>2, Enqueued
  <2>4. Typed'
    BY <1>2, <2>3 DEF Typed
  <2>5. \A d \in Webhook : Len(queue'[d]) <= QueueMax
    BY <2>3 DEF GenuineIsKept
  <2>6. \A d \in Webhook : Kept(d)' \subseteq Genuine \cup {FromGateway}
    BY <2>1, <2>3 DEF GenuineIsKept
  <2>7. ASSUME NEW f \in Genuine, post'[f].at = "200" PROVE f \in Kept(post[f].to)'
    <3>1. CASE f = e
      <4>1. post'[f].to = c
        BY <1>2, <3>1
      <4> QED BY <2>3, <3>1, <4>1 DEF Kept, ToSet
    <3>2. CASE f # e
      <4>1. post'[f] = post[f] /\ post[f].to \in Webhook
        BY <1>2, <2>7, <3>2 DEF Posted, Typed
      <4>2. f \in Kept(post[f].to)
        BY <2>7, <4>1 DEF GenuineIsKept
      <4>3. PICK d \in Webhook : d = post[f].to /\ d = post'[f].to
        BY <4>1
      <4>4. f \in Kept(d)'
        BY <2>3, <4>2, <4>3
      <4> QED BY <4>3, <4>4 DEF Kept, ToSet
    <3> QED BY <3>1, <3>2
  <2> QED BY <2>4, <2>5, <2>6, <2>7 DEF GenuineIsKept
<1>5. CASE ~(StatusOf(e, c) = "200" /\ e \notin Ping)
  <2>1. UNCHANGED queues
    BY <1>5 DEF BodyArrives, queues
  <2>2. ASSUME NEW f \in Genuine, post'[f].at = "200" PROVE post'[f] = post[f]
    <3>1. f # e
      BY <1>2, <1>5, <2>2, ChannelsTyped
    <3> QED BY <1>2, <3>1 DEF Posted
  <2> QED BY <1>2, <2>1, <2>2, QueuesAlone
<1> QED BY <1>4, <1>5

(* What the application takes, it has.                                     *)
LEMMA ReceiveKept ==
  ASSUME Typed, GenuineIsKept, NEW c \in Webhook, Receive(c)
  PROVE  Typed' /\ GenuineIsKept'
<1>1. /\ queue[c] # <<>> /\ post' = post /\ pushed_out' = pushed_out
      /\ received' = [received EXCEPT ![c] = @ \cup {Head(queue[c])}]
      /\ queue' = [queue EXCEPT ![c] = Tail(@)]
      /\ DOMAIN queue = Webhook /\ DOMAIN received = Webhook /\ queue[c] \in Seq(Event)
  BY DEF Receive, Typed
<1>2. /\ queue'[c] = Tail(queue[c]) /\ received'[c] = received[c] \cup {Head(queue[c])}
      /\ \A d \in Webhook : d # c => queue'[d] = queue[d] /\ received'[d] = received[d]
      /\ DOMAIN queue' = Webhook /\ DOMAIN received' = Webhook
  BY <1>1
<1>3. /\ Tail(queue[c]) \in Seq(Event) /\ Len(Tail(queue[c])) = Len(queue[c]) - 1
      /\ Len(queue[c]) \in Nat /\ Len(queue[c]) >= 1
      /\ \A k \in 1..Len(Tail(queue[c])) : Tail(queue[c])[k] = queue[c][k + 1]
      /\ Head(queue[c]) = queue[c][1]
  BY <1>1
<1>4. ToSet(queue[c]) = ToSet(Tail(queue[c])) \cup {Head(queue[c])}
  <2>1. /\ ToSet(queue[c]) = {queue[c][k] : k \in 1..Len(queue[c])}
        /\ ToSet(Tail(queue[c])) = {Tail(queue[c])[k] : k \in 1..Len(Tail(queue[c]))}
    <3>1. /\ DOMAIN queue[c] = 1..Len(queue[c])
          /\ DOMAIN Tail(queue[c]) = 1..Len(Tail(queue[c]))
      BY <1>1, <1>3
    <3> QED BY <3>1, Zenon DEF ToSet
  <2>2. ASSUME NEW x \in ToSet(queue[c])
        PROVE  x \in ToSet(Tail(queue[c])) \cup {Head(queue[c])}
    <3>1. PICK k \in 1..Len(queue[c]) : x = queue[c][k]
      BY <2>1, <2>2
    <3>2. CASE k = 1
      BY <1>3, <3>1, <3>2
    <3>3. CASE k # 1
      <4>1. k - 1 \in 1..Len(Tail(queue[c])) /\ x = Tail(queue[c])[k - 1]
        BY <1>3, <3>1, <3>3
      <4> QED BY <2>1, <4>1
    <3> QED BY <3>2, <3>3
  <2>3. ASSUME NEW x \in ToSet(Tail(queue[c])) PROVE x \in ToSet(queue[c])
    <3>1. PICK k \in 1..Len(Tail(queue[c])) : x = Tail(queue[c])[k]
      BY <2>1, <2>3
    <3>2. k + 1 \in 1..Len(queue[c]) /\ x = queue[c][k + 1]
      BY <1>3, <3>1
    <3> QED BY <2>1, <3>2
  <2>4. Head(queue[c]) \in ToSet(queue[c])
    BY <1>3, <2>1
  <2> QED BY <2>2, <2>3, <2>4
<1>5. \A d \in Webhook : Kept(d)' = ToSet(queue'[d]) \cup received'[d] \cup pushed_out[d]
  BY <1>1 DEF Kept, ToSet
<1>6. \A d \in Webhook : Kept(d)' = Kept(d)
  BY <1>2, <1>4, <1>5 DEF Kept
<1>7. Typed'
  BY <1>1, <1>2, <1>3 DEF Typed
<1>8. \A d \in Webhook : Len(queue'[d]) <= QueueMax
  BY <1>2, <1>3, ChannelsTyped DEF GenuineIsKept
<1>9. ASSUME NEW f \in Genuine, post'[f].at = "200" PROVE f \in Kept(post[f].to)'
  <2>1. PICK d \in Webhook : d = post[f].to
    BY <1>1, <1>9 DEF Typed, Posted
  <2>2. f \in Kept(d)'
    BY <1>1, <1>6, <1>9, <2>1 DEF GenuineIsKept
  <2> QED BY <1>1, <2>1, <2>2 DEF Kept, ToSet
<1> QED BY <1>6, <1>7, <1>8, <1>9 DEF GenuineIsKept

LEMMA GatewayPushKept ==
  ASSUME Typed, GenuineIsKept, NEW c \in Webhook, GatewayPushes(c)
  PROVE  Typed' /\ GenuineIsKept'
<1>1. Enqueue(c, FromGateway) /\ UNCHANGED received /\ FromGateway \in Event /\ post' = post
  BY DEF GatewayPushes, Event
<1>2. Len(queue[c]) <= QueueMax
  BY DEF GenuineIsKept
<1>3. /\ DOMAIN queue' = Webhook /\ DOMAIN received' = Webhook /\ DOMAIN pushed_out' = Webhook
      /\ \A d \in Webhook : d # c => queue'[d] = queue[d]
      /\ queue'[c] \in Seq(Event) /\ Len(queue'[c]) <= QueueMax
      /\ \A d \in Webhook : Kept(d) \subseteq Kept(d)'
      /\ \A d \in Webhook : Kept(d)' \subseteq Kept(d) \cup (IF d = c THEN {FromGateway} ELSE {})
  BY <1>1, <1>2, Enqueued
<1>4. Typed'
  BY <1>1, <1>3 DEF Typed
<1>5. ASSUME NEW f \in Genuine, post'[f].at = "200" PROVE f \in Kept(post[f].to)'
  <2>1. PICK d \in Webhook : d = post[f].to
    BY <1>1, <1>5 DEF Typed, Posted
  <2>2. f \in Kept(d)'
    BY <1>1, <1>3, <1>5, <2>1 DEF GenuineIsKept
  <2> QED BY <1>1, <2>1, <2>2 DEF Kept, ToSet
<1>6. \A d \in Webhook : Len(queue'[d]) <= QueueMax /\ Kept(d)' \subseteq Genuine \cup {FromGateway}
  BY <1>3 DEF GenuineIsKept
<1> QED BY <1>4, <1>5, <1>6 DEF GenuineIsKept

(* A step that answers no event and queues none keeps what is known of them.*)
LEMMA PostKept ==
  ASSUME Typed, GenuineIsKept, NEW e \in Posted, NEW d \in Webhook,
         Deliver(e, d) \/ BodyFails(e, d) \/ Redeliver(e)
  PROVE  Typed' /\ GenuineIsKept'
<1>1. UNCHANGED queues
  BY DEF Deliver, BodyFails, Redeliver
<1>2. PICK c \in Webhook, where \in Stage : Goes(e, c, where) /\ where # "200"
  <2>1. CASE Deliver(e, d) \/ BodyFails(e, d)
    BY <2>1 DEF Deliver, BodyFails, Stage, Answered
  <2>2. CASE Redeliver(e)
    <3>1. post[e].to \in Webhook
      BY <2>2 DEF Redeliver, Typed
    <3> QED BY <2>2, <3>1 DEF Redeliver, Stage
  <2> QED BY <2>1, <2>2
<1>3. /\ DOMAIN post' = Posted
      /\ post'[e] = [to |-> c, at |-> where]
      /\ \A f \in Posted : f # e => post'[f] = post[f]
      /\ \A f \in Posted : /\ post'[f] \in [to : Webhook \cup {"nobody"}, at : Stage]
                           /\ post'[f].at # "unsent" => post'[f].to \in Webhook
  BY <1>2, Moved
<1>4. \A f \in Genuine : post'[f].at = "200" => post'[f] = post[f]
  BY <1>2, <1>3 DEF Posted
<1> QED BY <1>1, <1>3, <1>4, QueuesAlone

(* Every channel is told in its turn, and no task is cancelled ahead of it.*)
LEMMA TurnsKept ==
  ASSUME ToldInTurn, [Next]_vars PROVE ToldInTurn'
<1> USE DEF ToldInTurn
<1>1. CASE Startup
  BY <1>1, ChannelsTyped DEF Startup, AllDisconnected
<1>2. CASE Shutdown
  BY <1>2, ChannelsTyped DEF Shutdown, links, AllDisconnected
<1>3. CASE DisconnectNext
  <2>1. /\ app = "disconnecting" /\ app' = app /\ turn' = turn + 1
        /\ link' = link /\ cancelled' = cancelled
        /\ asked' = [d \in Realtime |-> IF d = Channels[turn] THEN TRUE ELSE asked[d]]
    BY <1>3 DEF DisconnectNext, AskedAfter
  <2>2. ASSUME NEW k \in 1..Len(Channels), k < turn', Channels[k] \in Realtime
        PROVE  asked'[Channels[k]]
    <3>1. k < turn \/ k = turn
      BY <2>1, <2>2, ChannelsTyped
    <3> QED BY <2>1, <2>2, <3>1
  <2>3. DOMAIN asked' = Realtime /\ turn' \in Nat /\ turn' >= 1
    BY <2>1
  <2>4. /\ app' \notin {"closing", "closed", "built"} /\ \A c \in Realtime : ~cancelled'[c]
        /\ DOMAIN link' = Realtime /\ DOMAIN cancelled' = Realtime
    BY <2>1
  <2> QED BY <2>2, <2>3, <2>4
<1>4. CASE CancelTasks
  BY <1>4, ChannelsTyped DEF CancelTasks, AllDisconnected
<1>5. CASE CloseClient
  BY <1>5, ChannelsTyped DEF CloseClient, links, AllDisconnected
<1>6. ASSUME NEW c \in Realtime, RunTask(c) PROVE ToldInTurn'
  BY <1>6, ChannelsTyped DEF RunTask, lifespan, AllDisconnected
<1>7. ASSUME NEW c \in Realtime, CancelLands(c) PROVE ToldInTurn'
  BY <1>7, ChannelsTyped DEF CancelLands, lifespan, AllDisconnected
<1>8. ASSUME UNCHANGED <<lifespan, links>> PROVE ToldInTurn'
  BY <1>8 DEF lifespan, links, AllDisconnected
<1>9. CASE UNCHANGED vars
  BY <1>8, <1>9 DEF vars
<1>10. ASSUME NEW c \in Webhook, GatewayPushes(c) \/ Receive(c) \/ SendEnds(c) PROVE ToldInTurn'
  BY <1>8, <1>10 DEF GatewayPushes, Receive, SendEnds
<1>11. ASSUME NEW c \in Webhook, NEW addressed \in BOOLEAN, Send(c, addressed) PROVE ToldInTurn'
  BY <1>8, <1>11 DEF Send
<1>12. ASSUME NEW e \in Posted, Redeliver(e) PROVE ToldInTurn'
  BY <1>8, <1>12 DEF Redeliver
<1>13. ASSUME NEW e \in Posted, NEW c \in Webhook, Endpoint(e, c) PROVE ToldInTurn'
  BY <1>8, <1>13 DEF Endpoint, Deliver, BodyArrives, BodyFails
<1> QED
  BY <1>1, <1>2, <1>3, <1>4, <1>5, <1>6, <1>7, <1>9, <1>10, <1>11, <1>12, <1>13 DEF Next, Leave

LEMMA InvariantKept == IInv /\ [Next]_vars => IInv'
<1> SUFFICES ASSUME IInv, [Next]_vars PROVE IInv'
  OBVIOUS
<1>1. Typed /\ GenuineIsKept /\ ToldInTurn
  BY DEF IInv
<1>2. ToldInTurn'
  BY <1>1, TurnsKept
<1>3. ASSUME UNCHANGED <<post, queues>> PROVE Typed' /\ GenuineIsKept'
  <2>1. post' = post /\ UNCHANGED queues
    BY <1>3
  <2>2. DOMAIN post' = Posted
    BY <1>1, <2>1 DEF Typed
  <2>3. \A f \in Posted : /\ post'[f] \in [to : Webhook \cup {"nobody"}, at : Stage]
                          /\ post'[f].at # "unsent" => post'[f].to \in Webhook
    BY <1>1, <2>1 DEF Typed
  <2>4. \A f \in Genuine : post'[f].at = "200" => post'[f] = post[f]
    BY <2>1
  <2> QED BY <1>1, <2>1, <2>2, <2>3, <2>4, QueuesAlone
<1>4. CASE Startup \/ Shutdown \/ Leave \/ UNCHANGED vars
  BY <1>2, <1>3, <1>4
     DEF IInv, Startup, Shutdown, Leave, DisconnectNext, CancelTasks, CloseClient, vars
<1>5. ASSUME NEW c \in Realtime, RunTask(c) \/ CancelLands(c) PROVE Typed' /\ GenuineIsKept'
  BY <1>3, <1>5 DEF RunTask, CancelLands
<1>6. ASSUME NEW c \in Webhook, GatewayPushes(c) \/ Receive(c) \/ SendEnds(c)
      PROVE  Typed' /\ GenuineIsKept'
  BY <1>1, <1>3, <1>6, GatewayPushKept, ReceiveKept DEF SendEnds
<1>7. ASSUME NEW c \in Webhook, NEW addressed \in BOOLEAN, Send(c, addressed)
      PROVE  Typed' /\ GenuineIsKept'
  BY <1>3, <1>7 DEF Send
<1>8. ASSUME NEW e \in Posted, Redeliver(e) PROVE Typed' /\ GenuineIsKept'
  <2>1. post[e].to \in Webhook
    BY <1>1, <1>8 DEF Redeliver, Typed
  <2> QED BY <1>1, <1>8, <2>1, PostKept
<1>9. ASSUME NEW e \in Posted, NEW c \in Webhook, Endpoint(e, c) PROVE Typed' /\ GenuineIsKept'
  BY <1>1, <1>9, PostKept, BodyKept DEF Endpoint
<1> QED BY <1>2, <1>4, <1>5, <1>6, <1>7, <1>8, <1>9 DEF Next, IInv

(* A genuine event that was answered with a 200 waits in the queue, was    *)
(* taken by the application or made room for newer ones, the queue keeps   *)
(* its limit, and nothing forged, malformed or probing is ever queued      *)
(* (line.py:67-84, telegram.py:90-106, discord.py:231-284).                *)
THEOREM AcceptedEventsAreKept == Spec => []GenuineIsKept
<1>1. IInv => GenuineIsKept
  BY DEF IInv
<1> QED BY InitInv, InvariantKept, <1>1, PTL DEF Spec

(* The task of one channel, as module RealtimeChannel describes it.        *)
OneTask(c) == INSTANCE RealtimeChannel WITH link <- link[c], stop <- asked[c]

(* The lifespan that starts, tells and cancels the tasks keeps each of them*)
(* to the protocol: no task is cancelled whose channel was not asked to    *)
(* disconnect, and no attempt to connect begins behind that                *)
(* (app.py:112-132, serve/channel.py:105-133).                             *)
THEOREM TasksKeepTheProtocol ==
  ASSUME NEW c \in Realtime PROVE Spec => OneTask(c)!Spec
<1>1. Init => OneTask(c)!Init
  BY DEF Init, OneTask!Init
<1>2. IInv /\ [Next]_vars => [OneTask(c)!Next]_(OneTask(c)!vars)
  <2> SUFFICES ASSUME IInv, [Next]_vars PROVE [OneTask(c)!Next]_(OneTask(c)!vars)
    OBVIOUS
  <2>1. ToldInTurn
    BY DEF IInv
  <2>2. ASSUME UNCHANGED link, UNCHANGED asked PROVE UNCHANGED OneTask(c)!vars
    BY <2>2 DEF OneTask!vars
  <2>3. CASE Startup
    <3>1. link'[c] = link[c] /\ asked'[c] = asked[c]
      BY <2>1, <2>3 DEF Startup, ToldInTurn
    <3> QED BY <3>1 DEF OneTask!vars
  <2>4. CASE DisconnectNext
    <3>1. link'[c] = link[c] /\ asked'[c] \in {TRUE, asked[c]}
      BY <2>4 DEF DisconnectNext, AskedAfter
    <3> QED BY <3>1 DEF OneTask!vars, OneTask!Next, OneTask!Stop
  <2>5. ASSUME NEW d \in Realtime, RunTask(d)
        PROVE  [OneTask(c)!Next]_(OneTask(c)!vars)
    <3>1. DOMAIN link = Realtime /\ asked' = asked
      BY <2>1, <2>5 DEF ToldInTurn, RunTask
    <3>2. PICK l \in Task!After(link[d], asked[d]) : link' = [link EXCEPT ![d] = l]
      BY <2>5 DEF RunTask
    <3>3. CASE d = c
      <4>1. link'[c] = l /\ l \in OneTask(c)!After(link[c], asked[c])
        BY <3>1, <3>2, <3>3 DEF Task!After, OneTask!After
      <4> QED BY <3>1, <4>1 DEF OneTask!Next, OneTask!Move
    <3>4. CASE d # c
      BY <3>1, <3>2, <3>4 DEF OneTask!vars
    <3> QED BY <3>3, <3>4
  <2>6. ASSUME NEW d \in Realtime, CancelLands(d)
        PROVE  [OneTask(c)!Next]_(OneTask(c)!vars)
    <3>1. /\ DOMAIN link = Realtime /\ asked' = asked /\ asked[d]
          /\ link' = [link EXCEPT ![d] = IF @ = "closing" /\ d \in Discord
                                            THEN "waiting" ELSE "ended"]
      BY <2>1, <2>6, AllTold DEF ToldInTurn, CancelLands
    <3>2. CASE d = c /\ link[c] = "closing" /\ c \in Discord
      <4>1. link'[c] \in OneTask(c)!After(link[c], asked[c])
        BY <3>1, <3>2 DEF OneTask!After
      <4> QED BY <3>1, <4>1 DEF OneTask!Next, OneTask!Move
    <3>3. CASE d = c /\ ~(link[c] = "closing" /\ c \in Discord)
      BY <3>1, <3>3 DEF OneTask!Next, OneTask!Cancel
    <3>4. CASE d # c
      BY <3>1, <3>4 DEF OneTask!vars
    <3> QED BY <3>2, <3>3, <3>4
  <2>7. CASE Shutdown \/ CancelTasks \/ CloseClient \/ UNCHANGED vars
    BY <2>2, <2>7 DEF Shutdown, CancelTasks, CloseClient, vars, links
  <2>8. ASSUME NEW d \in Webhook, GatewayPushes(d) \/ Receive(d) \/ SendEnds(d)
        PROVE  UNCHANGED OneTask(c)!vars
    BY <2>2, <2>8 DEF GatewayPushes, Receive, SendEnds, links
  <2>9. ASSUME NEW d \in Webhook, NEW addressed \in BOOLEAN, Send(d, addressed)
        PROVE  UNCHANGED OneTask(c)!vars
    BY <2>2, <2>9 DEF Send, links
  <2>10. ASSUME NEW e \in Posted, Redeliver(e) PROVE UNCHANGED OneTask(c)!vars
    BY <2>2, <2>10 DEF Redeliver, links
  <2>11. ASSUME NEW e \in Posted, NEW d \in Webhook, Endpoint(e, d)
         PROVE  UNCHANGED OneTask(c)!vars
    BY <2>2, <2>11 DEF Endpoint, Deliver, BodyArrives, BodyFails, links
  <2> QED
    BY <2>3, <2>4, <2>5, <2>6, <2>7, <2>8, <2>9, <2>10, <2>11 DEF Next, Leave
<1> QED BY <1>1, <1>2, InitInv, InvariantKept, PTL DEF Spec, OneTask!Spec
=============================================================================
