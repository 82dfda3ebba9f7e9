------------------------ MODULE DiscordGatewayProofs ------------------------
(***************************************************************************)
(* Proofs about the Gateway client, for any limit of rejections and of the *)
(* backoff, any number of events and any number of faults: its types, that *)
(* a missing acknowledgement means a silent Discord, that no connection    *)
(* costs or repeats an event, and that it is a RealtimeChannel.            *)
(***************************************************************************)
EXTENDS DiscordGateway, TLAPS

(* The counters are within their limits while the loop goes on.            *)
LoopBounds ==
  /\ pc \in {"backoff", "connecting", "hello", "frames"} => attempts <= MaxExponent + 1
  /\ pc # "returned" => identify_failures < MaxIdentifyFailures
  /\ streak <= identify_failures

(* A request that waits for its answer is the one the cursor stands for,   *)
(* and the connection carries nothing of a session ahead of the answer.    *)
RequestIsCurrent ==
  /\ request \in [op : {"none", "identify", "resume"}, session : 0..live, after : 0..MaxEvents]
  /\ pc # "frames" => request.op = "none" /\ ~attached
  /\ pc # "frames" \/ request.op # "none" =>
       /\ ~attached
       /\ \A k \in 1..Len(wire) : wire[k].op \notin {"event", "invalid", "invalid_retry"}
  /\ request.op = "identify" => session_id = None /\ ~resuming
  /\ request.op = "resume" =>
       resuming /\ session_id # None /\ request.session = session_id /\ request.after = seq

(* The session the client knows is Discord's newest, and an op 9 on its    *)
(* way is about it, unless it rejects an IDENTIFY.                         *)
SessionIsNewest ==
  /\ session_id \in {None, live} /\ seq <= log
  /\ attached => live # None
  /\ live # None => log >= 1
  /\ \A k \in 1..Len(wire) :
       /\ wire[k].op = "invalid_retry" => live \in refused
       /\ wire[k].op = "invalid" => live \in refused \/ ~resuming

(* The events on the wire go on where the cursor is, one by one, and up to *)
(* Discord's last while the connection carries the session.                *)
WireGoesOn ==
  /\ \A k \in 1..Len(wire) : wire[k].op = "event" =>
       /\ wire[k].session = live /\ seq < wire[k].s /\ wire[k].s <= log
       /\ \/ wire[k].s = seq + 1
          \/ \E j \in 1..(k - 1) : wire[j].op = "event" /\ wire[j].s = wire[k].s - 1
       /\ \A j \in 1..(k - 1) : wire[j].op = "event" => wire[j].s < wire[k].s
  /\ attached /\ Speaks =>
       \/ log = seq
       \/ \E k \in 1..Len(wire) : wire[k].op = "event" /\ wire[k].s = log

(* What was delivered of the newest session ends at the cursor; a session  *)
(* the client was made to forget had an op 9.                              *)
DeliveredToCursor ==
  /\ delivered \in Seq((1..live) \X (1..MaxEvents))
  /\ session_id # None =>
       /\ \E j \in 1..Len(delivered) : delivered[j] = <<live, seq>>
       /\ \A j \in 1..Len(delivered) : delivered[j][1] = live => delivered[j][2] <= seq
  /\ session_id = None =>
       /\ (\E k \in 1..Len(wire) : wire[k].op = "event") =>
            \A j \in 1..Len(delivered) : delivered[j][1] # live
       /\ (\E j \in 1..Len(delivered) : delivered[j] = <<live, 1>>) => live \in refused

IInv ==
  /\ TypeOK /\ LoopBounds /\ RequestIsCurrent /\ SessionIsNewest /\ WireGoesOn
  /\ DeliveredToCursor /\ EventsOnceInOrder /\ UnacknowledgedMeansSilent

-----------------------------------------------------------------------------
(* Frames, and what is read from and written to the wire.                  *)

Plain == Closes \cup {"hello", "nonsense", "ack", "heartbeat", "reconnect"}

(* What a frame says it is.                                                *)
LEMMA FrameKinds ==
  ASSUME NEW f \in Frames \cup Events
  PROVE  /\ f.op = "event" =>
              f = Event(f.session, f.s) /\ f.session \in 1..live /\ f.s \in 1..MaxEvents
         /\ f.op # "event" => f \in Frames /\ f.op \in Plain \cup {"invalid", "invalid_retry"}
<1>1. CASE f \in Frames
  BY <1>1 DEF Frames, Frame, Closes, Plain
<1>2. CASE f \in Events
  BY <1>2 DEF Events, Event
<1> QED BY <1>1, <1>2

LEMMA FramesMade ==
  /\ \A op \in Plain \cup {"invalid", "invalid_retry"} :
       Frame(op) \in Frames /\ Frame(op).op = op
  /\ \A sid \in 1..live, s \in 1..MaxEvents :
       /\ Event(sid, s) \in Events
       /\ Event(sid, s).op = "event" /\ Event(sid, s).session = sid /\ Event(sid, s).s = s
BY DEF Frames, Frame, Events, Event, Closes, Plain

LEMMA EventsGrow ==
  ASSUME live \in Nat, live' \in Nat, live <= live' PROVE Events \subseteq Events'
BY DEF Events, Event

(* The wire without its first frame, and with one more.                    *)
LEMMA WithoutHead ==
  ASSUME NEW S, wire \in Seq(S), wire # <<>>, wire' = Tail(wire)
  PROVE  /\ wire' \in Seq(S) /\ Len(wire') = Len(wire) - 1 /\ Len(wire) \in Nat \ {0}
         /\ Head(wire) = wire[1] /\ wire[1] \in S
         /\ \A k \in 1..Len(wire') : wire'[k] = wire[k + 1] /\ k + 1 \in 1..Len(wire)
OBVIOUS

LEMMA WithOneMore ==
  ASSUME NEW S, wire \in Seq(S), NEW f \in S, wire' = Append(wire, f)
  PROVE  /\ wire' \in Seq(S) /\ Len(wire') = Len(wire) + 1 /\ Len(wire) \in Nat
         /\ wire'[Len(wire) + 1] = f
         /\ \A k \in 1..Len(wire) : wire'[k] = wire[k]
OBVIOUS

LEMMA Concatenated ==
  ASSUME NEW S, NEW w \in Seq(S), NEW m \in Seq(S)
  PROVE  /\ Len(w \o m) = Len(w) + Len(m)
         /\ \A k \in 1..(Len(w) + Len(m)) :
              (w \o m)[k] = IF k <= Len(w) THEN w[k] ELSE m[k - Len(w)]
OBVIOUS

(* What stays of the session when the wire loses or gains a frame that is  *)
(* nothing of the session.                                                 *)
session_vars == <<cursor, live, log, refused, delivered>>

LEMMA Consumed ==
  ASSUME IInv, wire # <<>>, wire' = Tail(wire), Head(wire).op # "event",
         UNCHANGED session_vars, UNCHANGED attached, Speaks' => Speaks,
         UNCHANGED resuming \/ pc # "frames"
  PROVE  SessionIsNewest' /\ WireGoesOn' /\ DeliveredToCursor' /\ EventsOnceInOrder'
         /\ wire' \in Seq(Frames \cup Events)'
<1>1. /\ wire \in Seq(Frames \cup Events) /\ SessionIsNewest /\ WireGoesOn
      /\ DeliveredToCursor /\ EventsOnceInOrder /\ RequestIsCurrent
      /\ live \in Nat /\ log \in Nat /\ seq \in Nat
  BY DEF IInv, TypeOK
<1>2. /\ session_id' = session_id /\ seq' = seq /\ live' = live /\ log' = log
      /\ refused' = refused /\ delivered' = delivered
  BY DEF session_vars, cursor
<1>3. /\ wire' \in Seq(Frames \cup Events) /\ Len(wire') = Len(wire) - 1 /\ Len(wire) \in Nat \ {0}
      /\ wire[1].op # "event" /\ wire[1] \in Frames \cup Events
      /\ \A k \in 1..Len(wire') : wire'[k] = wire[k + 1] /\ k + 1 \in 1..Len(wire)
  BY <1>1, WithoutHead, Zenon
<1>4. SessionIsNewest'
  BY <1>1, <1>2, <1>3 DEF SessionIsNewest, RequestIsCurrent
<1>5. \A k \in 1..Len(wire) : wire[k].op = "event" =>
        k # 1 /\ k - 1 \in 1..Len(wire') /\ wire'[k - 1] = wire[k]
  BY <1>3
<1>6. ASSUME NEW k \in 1..Len(wire'), wire'[k].op = "event"
      PROVE  /\ wire'[k].session = live' /\ seq' < wire'[k].s /\ wire'[k].s <= log'
             /\ \/ wire'[k].s = seq' + 1
                \/ \E j \in 1..(k - 1) : wire'[j].op = "event" /\ wire'[j].s = wire'[k].s - 1
             /\ \A j \in 1..(k - 1) : wire'[j].op = "event" => wire'[j].s < wire'[k].s
  <2>1. k + 1 \in 1..Len(wire) /\ wire[k + 1] = wire'[k]
    BY <1>3, <1>6
  <2>2. /\ wire'[k].session = live /\ seq < wire'[k].s /\ wire'[k].s <= log
        /\ \/ wire'[k].s = seq + 1
           \/ \E j \in 1..((k + 1) - 1) : wire[j].op = "event" /\ wire[j].s = wire'[k].s - 1
        /\ \A j \in 1..((k + 1) - 1) : wire[j].op = "event" => wire[j].s < wire'[k].s
    BY <1>1, <1>6, <2>1 DEF WireGoesOn
  <2>3. ASSUME NEW j \in 1..((k + 1) - 1), wire[j].op = "event", wire[j].s = wire'[k].s - 1
        PROVE  \E i \in 1..(k - 1) : wire'[i].op = "event" /\ wire'[i].s = wire'[k].s - 1
    <3>1. j \in 1..Len(wire)
      BY <2>1
    <3>2. j - 1 \in 1..(k - 1) /\ wire'[j - 1] = wire[j]
      BY <1>5, <2>3, <3>1
    <3> QED BY <2>3, <3>2
  <2>4. ASSUME NEW j \in 1..(k - 1), wire'[j].op = "event" PROVE wire'[j].s < wire'[k].s
    <3>1. j \in 1..Len(wire') /\ wire[j + 1] = wire'[j] /\ j + 1 \in 1..((k + 1) - 1)
      BY <1>3
    <3> QED BY <2>2, <2>4, <3>1
  <2> QED BY <1>2, <2>2, <2>3, <2>4
<1>7. ASSUME attached', Speaks'
      PROVE  \/ log' = seq'
             \/ \E k \in 1..Len(wire') : wire'[k].op = "event" /\ wire'[k].s = log'
  <2>1. log = seq \/ \E k \in 1..Len(wire) : wire[k].op = "event" /\ wire[k].s = log
    BY <1>1, <1>7 DEF WireGoesOn
  <2> QED BY <1>2, <1>5, <2>1
<1>8. WireGoesOn'
  BY <1>6, <1>7 DEF WireGoesOn
<1>9. (\E k \in 1..Len(wire') : wire'[k].op = "event") => \E k \in 1..Len(wire) : wire[k].op = "event"
  BY <1>3
<1>10. DeliveredToCursor'
  BY <1>1, <1>2, <1>9 DEF DeliveredToCursor
<1>11. EventsOnceInOrder'
  BY <1>1, <1>2 DEF EventsOnceInOrder
<1>12. wire' \in Seq(Frames \cup Events)'
  BY <1>1, <1>2, <1>3 DEF Frames, Events
<1> QED BY <1>4, <1>8, <1>10, <1>11, <1>12

LEMMA PlainSaid ==
  ASSUME IInv, NEW op \in Plain, wire' = Append(wire, Frame(op)) \/ wire' = wire,
         UNCHANGED session_vars, UNCHANGED attached, Speaks' => Speaks, UNCHANGED resuming
  PROVE  SessionIsNewest' /\ WireGoesOn' /\ DeliveredToCursor' /\ EventsOnceInOrder'
         /\ wire' \in Seq(Frames \cup Events)'
<1>1. /\ wire \in Seq(Frames \cup Events) /\ SessionIsNewest /\ WireGoesOn
      /\ DeliveredToCursor /\ EventsOnceInOrder /\ Len(wire) \in Nat
      /\ live \in Nat /\ log \in Nat /\ seq \in Nat
  BY DEF IInv, TypeOK
<1>2. /\ session_id' = session_id /\ seq' = seq /\ live' = live /\ log' = log
      /\ refused' = refused /\ delivered' = delivered
  BY DEF session_vars, cursor
<1>3. Frame(op) \in Frames \cup Events /\ Frame(op).op = op
      /\ op \notin {"event", "invalid", "invalid_retry"}
  BY FramesMade DEF Plain, Closes
<1>4. /\ wire' \in Seq(Frames \cup Events) /\ Len(wire') \in {Len(wire), Len(wire) + 1}
      /\ \A k \in 1..Len(wire) : wire'[k] = wire[k]
      /\ \A k \in 1..Len(wire') :
           \/ k \in 1..Len(wire) /\ wire'[k] = wire[k]
           \/ wire'[k].op \notin {"event", "invalid", "invalid_retry"}
  <2>1. CASE wire' = wire
    BY <1>1, <2>1
  <2>2. CASE wire' = Append(wire, Frame(op))
    <3>1. /\ wire' \in Seq(Frames \cup Events) /\ Len(wire') = Len(wire) + 1
          /\ wire'[Len(wire) + 1] = Frame(op) /\ \A k \in 1..Len(wire) : wire'[k] = wire[k]
      BY <1>1, <1>3, <2>2, WithOneMore, Zenon
    <3> QED BY <1>1, <1>3, <3>1
  <2> QED BY <2>1, <2>2
<1>5. SessionIsNewest'
  BY <1>1, <1>2, <1>4 DEF SessionIsNewest
<1>6. ASSUME NEW k \in 1..Len(wire'), wire'[k].op = "event"
      PROVE  /\ wire'[k].session = live' /\ seq' < wire'[k].s /\ wire'[k].s <= log'
             /\ \/ wire'[k].s = seq' + 1
                \/ \E j \in 1..(k - 1) : wire'[j].op = "event" /\ wire'[j].s = wire'[k].s - 1
             /\ \A j \in 1..(k - 1) : wire'[j].op = "event" => wire'[j].s < wire'[k].s
  <2>1. k \in 1..Len(wire) /\ wire'[k] = wire[k] /\ \A j \in 1..(k - 1) : wire'[j] = wire[j]
    BY <1>1, <1>4, <1>6
  <2>2. /\ wire[k].session = live /\ seq < wire[k].s /\ wire[k].s <= log
        /\ \/ wire[k].s = seq + 1
           \/ \E j \in 1..(k - 1) : wire[j].op = "event" /\ wire[j].s = wire[k].s - 1
        /\ \A j \in 1..(k - 1) : wire[j].op = "event" => wire[j].s < wire[k].s
    BY <1>1, <1>6, <2>1 DEF WireGoesOn
  <2> QED BY <1>2, <2>1, <2>2
<1>7. ASSUME attached', Speaks'
      PROVE  \/ log' = seq'
             \/ \E k \in 1..Len(wire') : wire'[k].op = "event" /\ wire'[k].s = log'
  <2>1. log = seq \/ \E k \in 1..Len(wire) : wire[k].op = "event" /\ wire[k].s = log
    BY <1>1, <1>7 DEF WireGoesOn
  <2> QED BY <1>1, <1>2, <1>4, <2>1
<1>8. WireGoesOn'
  BY <1>6, <1>7 DEF WireGoesOn
<1>9. (\E k \in 1..Len(wire') : wire'[k].op = "event") => \E k \in 1..Len(wire) : wire[k].op = "event"
  BY <1>4
<1>10. DeliveredToCursor'
  BY <1>1, <1>2, <1>9 DEF DeliveredToCursor
<1>11. EventsOnceInOrder'
  BY <1>1, <1>2 DEF EventsOnceInOrder
<1>12. wire' \in Seq(Frames \cup Events)'
  BY <1>1, <1>2, <1>4 DEF Frames, Events
<1> QED BY <1>5, <1>8, <1>10, <1>11, <1>12

(* A session that fails leaves nothing on the wire, and the cursor alone or*)
(* forgotten, and forgotten only behind an op 9.                           *)
LEMMA SessionFailsKept ==
  ASSUME IInv, NEW error \in {"identify_rejected", "resumable", "other"}, SessionFails(error),
         pc \in {"connecting", "hello", "frames"}, UNCHANGED <<discord, delivered>>,
         resuming' \in BOOLEAN, acked' \in BOOLEAN, faults' \in 0..MaxFaults,
         UNCHANGED cursor \/ (session_id' = None /\ seq' = None /\ live \in refused),
         streak' = IF error = "identify_rejected" THEN streak + 1 ELSE streak
  PROVE  IInv'
<1>1. /\ TypeOK /\ LoopBounds /\ SessionIsNewest /\ DeliveredToCursor /\ EventsOnceInOrder
  BY DEF IInv
<1>2. /\ live' = live /\ log' = log /\ alive' = alive /\ refused' = refused
      /\ delivered' = delivered /\ stop_event' = stop_event
      /\ heartbeat' = "none" /\ last_error' = error
      /\ conn' = "closed" /\ wire' = <<>> /\ request' = NoRequest /\ owed' = 0
      /\ attached' = FALSE /\ silent' = FALSE
  BY DEF SessionFails, Disconnected, discord
<1>3. /\ pc' \in {"loop", "returned"} /\ attempts' \in {attempts, attempts + 1}
      /\ identify_failures' \in 0..MaxIdentifyFailures
      /\ pc' # "returned" => identify_failures' < MaxIdentifyFailures
      /\ streak' <= identify_failures' /\ streak' \in 0..MaxIdentifyFailures
  BY <1>1, GatewayAssumption DEF SessionFails, GivesUp, TypeOK, LoopBounds
<1>4. session_id' \in {session_id, None} /\ seq' \in {seq, None}
      /\ (session_id' = None) = (seq' = None) /\ session_id' \in 0..live /\ seq' \in 0..MaxEvents
  <2>1. CASE UNCHANGED cursor
    BY <1>1, <2>1 DEF cursor, TypeOK
  <2>2. CASE session_id' = None /\ seq' = None
    BY <1>1, <2>2, GatewayAssumption DEF None, TypeOK
  <2> QED BY <2>1, <2>2
<1>5. attempts' \in 0..(MaxExponent + 2)
  BY <1>1, <1>3, GatewayAssumption DEF TypeOK, LoopBounds
<1>6. TypeOK'
  <2>1. wire' \in Seq(Frames \cup Events)' /\ request'.op = "none"
    BY <1>2 DEF NoRequest
  <2>2. (heartbeat' # "none") = (pc' = "frames") /\ (conn' = "closed") = (pc' \notin {"hello", "frames"})
    <3>1. pc' # "frames" /\ pc' # "hello"
      BY <1>3
    <3> QED BY <1>2, <3>1, Zenon
  <2>3. /\ live' \in Nat /\ log' \in 0..MaxEvents /\ alive' \in BOOLEAN /\ stop_event' \in BOOLEAN
        /\ refused' \subseteq 1..live' /\ owed' \in 0..2 /\ attached' \in BOOLEAN /\ silent' \in BOOLEAN
    <3>1. live \in Nat /\ log \in 0..MaxEvents /\ alive \in BOOLEAN /\ stop_event \in BOOLEAN
          /\ refused \subseteq 1..live
      BY <1>1 DEF TypeOK
    <3>2. owed' \in 0..2
      BY <1>2
    <3> QED BY <1>2, <3>1, <3>2, Zenon
  <2>4. /\ pc' \in {"loop", "backoff", "connecting", "hello", "frames", "returned", "raised"}
        /\ last_error' \in {"none", "identify_rejected", "resumable", "other"}
        /\ heartbeat' \in {"none", "sleeping", "ended"} /\ conn' \in {"closed", "open", "closing"}
    BY <1>2, <1>3
  <2>5. (session_id' = None) = (seq' = None) /\ session_id' \in 0..live' /\ seq' \in 0..MaxEvents
    BY <1>2, <1>4
  <2> QED BY <1>2, <1>3, <1>5, <2>1, <2>2, <2>3, <2>4, <2>5 DEF TypeOK
<1>7. LoopBounds'
  BY <1>3 DEF LoopBounds
<1>8. RequestIsCurrent'
  BY <1>1, <1>2, <1>3, GatewayAssumption DEF RequestIsCurrent, NoRequest, None, TypeOK
<1>9. SessionIsNewest' /\ WireGoesOn'
  BY <1>1, <1>2, <1>4 DEF SessionIsNewest, WireGoesOn, None, TypeOK
<1>10. DeliveredToCursor'
  <2>1. CASE UNCHANGED cursor
    BY <1>1, <1>2, <2>1 DEF DeliveredToCursor, cursor
  <2>2. CASE session_id' = None /\ live \in refused
    BY <1>1, <1>2, <2>2 DEF DeliveredToCursor
  <2> QED BY <2>1, <2>2
<1>11. EventsOnceInOrder' /\ UnacknowledgedMeansSilent'
  BY <1>1, <1>2 DEF EventsOnceInOrder, UnacknowledgedMeansSilent
<1> QED BY <1>6, <1>7, <1>8, <1>9, <1>10, <1>11 DEF IInv

LEMMA LoopKept == ASSUME IInv, Loop \/ BackoffEnds \/ Connect PROVE IInv'
<1>1. /\ TypeOK /\ LoopBounds /\ RequestIsCurrent /\ SessionIsNewest /\ WireGoesOn
      /\ DeliveredToCursor /\ EventsOnceInOrder /\ UnacknowledgedMeansSilent
  BY DEF IInv
<1>2. /\ pc \in {"loop", "backoff", "connecting"}
      /\ UNCHANGED <<loop_vars, cursor, resuming, acked, heartbeat, stop_event, wire, request,
                     owed, discord, attached, silent, faults, delivered, streak>>
  BY DEF Loop, BackoffEnds, Connect
<1>3. /\ attempts' = attempts /\ identify_failures' = identify_failures /\ last_error' = last_error
      /\ session_id' = session_id /\ seq' = seq /\ live' = live /\ log' = log /\ alive' = alive
      /\ refused' = refused
  BY <1>2 DEF loop_vars, cursor, discord
<1>4. ~attached /\ heartbeat = "none"
  BY <1>1, <1>2, Zenon DEF RequestIsCurrent, TypeOK
<1>5. \/ pc' \in {"returned", "raised", "backoff", "connecting"} /\ conn' = conn /\ conn = "closed"
      \/ pc' = "hello" /\ conn' = "open"
  <2>1. conn = "closed"
    BY <1>1, <1>2 DEF TypeOK
  <2> QED BY <2>1 DEF Loop, BackoffEnds, Connect
<1>6. TypeOK'
  <2>1. wire' \in Seq(Frames \cup Events)'
    BY <1>1, <1>2, <1>3 DEF TypeOK, Frames, Events
  <2>2. (heartbeat' # "none") = (pc' = "frames")
    <3>1. pc' # "frames" /\ heartbeat' = "none"
      BY <1>2, <1>4, <1>5
    <3> QED BY <3>1, Zenon
  <2>3. (conn' = "closed") = (pc' \notin {"hello", "frames"})
    BY <1>5
  <2> QED BY <1>1, <1>2, <1>3, <1>5, <2>1, <2>2, <2>3 DEF TypeOK
<1>7. LoopBounds'
  BY <1>1, <1>2, <1>3, <1>5, GatewayAssumption DEF LoopBounds, TypeOK, Loop, BackoffEnds, Connect
<1>8. RequestIsCurrent'
  BY <1>1, <1>2, <1>3, <1>5 DEF RequestIsCurrent
<1>9. SessionIsNewest' /\ WireGoesOn' /\ DeliveredToCursor' /\ EventsOnceInOrder'
  BY <1>1, <1>2, <1>3, <1>4 DEF SessionIsNewest, WireGoesOn, DeliveredToCursor, EventsOnceInOrder
<1>10. UnacknowledgedMeansSilent'
  BY <1>2, <1>4 DEF UnacknowledgedMeansSilent
<1> QED BY <1>6, <1>7, <1>8, <1>9, <1>10 DEF IInv

(* Something is read that is no event and ends no session.                 *)
LEMMA ReadKept ==
  ASSUME IInv, (Hello /\ Opened) \/ HeartbeatAck \/ (HeartbeatRequested /\ Opened) PROVE IInv'
<1>1. /\ TypeOK /\ LoopBounds /\ RequestIsCurrent /\ UnacknowledgedMeansSilent
  BY DEF IInv
<1>2. /\ pc \in {"hello", "frames"} /\ pc' = "frames" /\ wire # <<>> /\ wire' = Tail(wire)
      /\ Head(wire).op \in {"hello", "ack", "heartbeat"}
      /\ UNCHANGED <<loop_vars, cursor, stop_event, conn, discord, attached, silent, faults,
                     delivered, streak>>
  BY DEF Hello, HeartbeatAck, HeartbeatRequested, Receives
<1>3. /\ attempts' = attempts /\ identify_failures' = identify_failures /\ last_error' = last_error
      /\ session_id' = session_id /\ seq' = seq /\ live' = live /\ log' = log /\ alive' = alive
      /\ refused' = refused
  BY <1>2 DEF loop_vars, cursor, discord
<1>4. /\ wire \in Seq(Frames \cup Events) /\ Len(wire') = Len(wire) - 1 /\ Len(wire) \in Nat \ {0}
      /\ wire[1].op \in {"hello", "ack", "heartbeat"}
      /\ \A k \in 1..Len(wire') : wire'[k] = wire[k + 1] /\ k + 1 \in 1..Len(wire)
  <2>1. wire \in Seq(Frames \cup Events)
    BY <1>1 DEF TypeOK
  <2>2. /\ Len(wire') = Len(wire) - 1 /\ Len(wire) \in Nat \ {0} /\ Head(wire) = wire[1]
        /\ \A k \in 1..Len(wire') : wire'[k] = wire[k + 1] /\ k + 1 \in 1..Len(wire)
    BY <1>2, <2>1, WithoutHead, Zenon
  <2> QED BY <1>2, <2>1, <2>2
<1>5. SessionIsNewest' /\ WireGoesOn' /\ DeliveredToCursor' /\ EventsOnceInOrder'
      /\ wire' \in Seq(Frames \cup Events)'
  <2>1. UNCHANGED session_vars
    BY <1>2, <1>3 DEF session_vars
  <2>2. UNCHANGED attached /\ (Speaks' => Speaks)
    BY <1>2 DEF Speaks, Opened
  <2>3. UNCHANGED resuming \/ pc # "frames"
    BY DEF Hello, HeartbeatAck, HeartbeatRequested
  <2>4. Head(wire).op # "event"
    BY <1>2
  <2> QED BY <1>2, <2>1, <2>2, <2>3, <2>4, Consumed
<1>6. /\ last_error' \in {"none", "identify_rejected", "resumable", "other"}
      /\ pc' = "frames" /\ conn' # "closed" /\ conn' \in {"open", "closing"}
      /\ attempts' \in 0..(MaxExponent + 2) /\ identify_failures' \in 0..MaxIdentifyFailures
      /\ session_id' \in 0..live' /\ seq' \in 0..MaxEvents /\ (session_id' = None) = (seq' = None)
      /\ stop_event' \in BOOLEAN /\ live' \in Nat /\ log' \in 0..MaxEvents /\ alive' \in BOOLEAN
      /\ attached' \in BOOLEAN /\ silent' \in BOOLEAN /\ faults' \in 0..MaxFaults
      /\ refused' \subseteq 1..live' /\ streak' \in 0..MaxIdentifyFailures
  BY <1>1, <1>2, <1>3 DEF TypeOK
<1>7. LoopBounds'
  BY <1>1, <1>2, <1>3 DEF LoopBounds
<1>8. CASE Hello /\ Opened
  <2>1. /\ pc = "hello" /\ acked' = TRUE /\ heartbeat' = "sleeping" /\ owed' = owed
        /\ resuming' = (session_id # None /\ seq # None)
        /\ request' = IF resuming'
                      THEN [op |-> "resume", session |-> session_id, after |-> seq]
                      ELSE [op |-> "identify", session |-> None, after |-> 0]
    BY <1>8 DEF Hello, AckedAtHello
  <2>2. session_id \in 0..live /\ seq \in 0..MaxEvents /\ owed \in 0..2 /\ live \in Nat
        /\ (session_id = None) = (seq = None)
    BY <1>1 DEF TypeOK
  <2>3. /\ request'.op \in {"identify", "resume"}
        /\ request' \in [op : {"none", "identify", "resume"}, session : 0..live, after : 0..MaxEvents]
        /\ request'.op = "identify" => session_id = None /\ ~resuming'
        /\ request'.op = "resume" =>
             resuming' /\ session_id # None /\ request'.session = session_id /\ request'.after = seq
    <3>1. CASE resuming'
      BY <2>1, <2>2, <3>1
    <3>2. CASE ~resuming'
      BY <2>1, <2>2, <3>2, GatewayAssumption DEF None
    <3> QED BY <3>1, <3>2
  <2>4. TypeOK'
    <3>1. resuming' \in BOOLEAN /\ acked' \in BOOLEAN
      BY <2>1, Zenon
    <3>2. (heartbeat' # "none") = (pc' = "frames") /\ (conn' = "closed") = (pc' \notin {"hello", "frames"})
      BY <1>6, <2>1
    <3> QED BY <1>5, <1>6, <2>1, <2>2, <2>3, <3>1, <3>2 DEF TypeOK
  <2>5. RequestIsCurrent'
    BY <1>1, <1>2, <1>3, <1>4, <2>1, <2>3 DEF RequestIsCurrent
  <2>6. UnacknowledgedMeansSilent'
    BY <2>1 DEF UnacknowledgedMeansSilent
  <2> QED BY <1>5, <1>7, <2>4, <2>5, <2>6 DEF IInv
<1>9. CASE HeartbeatAck \/ (HeartbeatRequested /\ Opened)
  <2>1. /\ pc = "frames" /\ heartbeat' = heartbeat /\ resuming' = resuming /\ request' = request
        /\ \/ acked' = TRUE /\ owed' = owed
           \/ acked' = acked /\ wire[1].op # "ack" /\ owed' = IF owed < 2 THEN owed + 1 ELSE owed
    <3>1. Head(wire) = wire[1]
      BY <1>2, <1>4
    <3> QED BY <1>9, <3>1 DEF HeartbeatAck, HeartbeatRequested, Receives, SendHeartbeat
  <2>2. owed \in 0..2 /\ owed' \in 0..2
    BY <1>1, <2>1 DEF TypeOK
  <2>3. TypeOK'
    <3>1. /\ (heartbeat' # "none") = (pc' = "frames") /\ (conn' = "closed") = (pc' \notin {"hello", "frames"})
          /\ heartbeat' \in {"none", "sleeping", "ended"} /\ resuming' \in BOOLEAN
          /\ request'.op \in {"none", "identify", "resume"}
      BY <1>1, <1>2, <2>1 DEF TypeOK
    <3>2. acked' \in BOOLEAN
      <4>1. acked \in BOOLEAN
        BY <1>1 DEF TypeOK
      <4> QED BY <2>1, <4>1, Zenon
    <3> QED BY <1>5, <1>6, <2>2, <3>1, <3>2 DEF TypeOK
  <2>4. RequestIsCurrent'
    BY <1>1, <1>2, <1>3, <1>4, <2>1 DEF RequestIsCurrent
  <2>5. UnacknowledgedMeansSilent'
    <3>1. ASSUME NEW k \in 1..Len(wire), wire[k].op = "ack", wire[1].op # "ack"
          PROVE  \E j \in 1..Len(wire') : wire'[j].op = "ack"
      <4>1. k - 1 \in 1..Len(wire') /\ wire'[k - 1] = wire[k]
        BY <1>4, <3>1
      <4> QED BY <3>1, <4>1
    <3>2. ASSUME heartbeat' = "sleeping", Opened', ~acked'
          PROVE  silent' \/ owed' > 0 \/ \E k \in 1..Len(wire') : wire'[k].op = "ack"
      <4>1. heartbeat = "sleeping" /\ Opened /\ ~acked /\ wire[1].op # "ack" /\ silent' = silent
            /\ owed' >= owed
        BY <1>2, <2>1, <2>2, <3>2 DEF Opened
      <4> QED BY <1>1, <2>2, <3>1, <4>1 DEF UnacknowledgedMeansSilent
    <3> QED BY <3>2 DEF UnacknowledgedMeansSilent
  <2> QED BY <1>5, <1>7, <2>3, <2>4, <2>5 DEF IInv
<1> QED BY <1>8, <1>9

(* An event is the one after the cursor, and was not delivered before.     *)
LEMMA DispatchKept == ASSUME IInv, Dispatch PROVE IInv'
<1>1. /\ TypeOK /\ LoopBounds /\ RequestIsCurrent /\ SessionIsNewest /\ WireGoesOn
      /\ DeliveredToCursor /\ EventsOnceInOrder /\ UnacknowledgedMeansSilent
  BY DEF IInv
<1> DEFINE f == wire[1]
<1>2. /\ wire \in Seq(Frames \cup Events) /\ wire # <<>> /\ wire' = Tail(wire) /\ pc = "frames"
      /\ live \in Nat /\ log \in 0..MaxEvents /\ seq \in 0..MaxEvents /\ session_id \in 0..live
      /\ (session_id = None) = (seq = None)
  BY <1>1 DEF Dispatch, Receives, TypeOK
<1>3. /\ Len(wire') = Len(wire) - 1 /\ Len(wire) \in Nat \ {0}
      /\ wire' \in Seq(Frames \cup Events) /\ f \in Frames \cup Events /\ Head(wire) = f
      /\ \A k \in 1..Len(wire') : wire'[k] = wire[k + 1] /\ k + 1 \in 1..Len(wire)
  BY <1>2, WithoutHead, Zenon
<1>4. /\ f.op = "event" /\ seq' = f.s
      /\ session_id' = IF f.s = 1 THEN f.session ELSE session_id
      /\ delivered' = Append(delivered, <<f.session, f.s>>)
      /\ streak' = IF f.s = 1 THEN 0 ELSE streak
  BY <1>3 DEF Dispatch, Receives, SeqAfter, SessionAfter
<1>5. /\ UNCHANGED <<pc, loop_vars, resuming, acked, heartbeat, stop_event, conn, request,
                     owed, attached, silent, faults>>
      /\ live' = live /\ log' = log /\ alive' = alive /\ refused' = refused
      /\ attempts' = attempts /\ identify_failures' = identify_failures /\ last_error' = last_error
  BY DEF Dispatch, discord, loop_vars
<1> HIDE DEF f
<1>6. f.session = live /\ f.s = seq + 1 /\ f.s <= log /\ f.s \in 1..MaxEvents /\ live \in 1..live
  <2>1. 1 \in 1..Len(wire) /\ wire[1] = f
    BY <1>3 DEF f
  <2>2. /\ f.session = live /\ seq < f.s /\ f.s <= log
        /\ f.s = seq + 1 \/ \E j \in 1..(1 - 1) : wire[j].op = "event" /\ wire[j].s = f.s - 1
    BY <1>1, <1>4, <2>1 DEF WireGoesOn
  <2>3. f.session \in 1..live /\ f.s \in 1..MaxEvents
    BY <1>3, <1>4, FrameKinds
  <2> QED BY <2>2, <2>3
<1>7. seq' = seq + 1 /\ session_id' = live /\ session_id' # None
  <2>1. CASE f.s = 1
    BY <1>4, <1>6, <2>1 DEF None
  <2>2. CASE f.s # 1
    <3>1. session_id # None
      BY <1>2, <1>6, <2>2 DEF None
    <3> QED BY <1>1, <1>4, <1>6, <2>2, <3>1 DEF SessionIsNewest
  <2> QED BY <2>1, <2>2
<1> DEFINE last == <<live, seq + 1>>
           S == (1..live) \X (1..MaxEvents)
<1>a. delivered \in Seq(S) /\ delivered' \in Seq(S)
  <2>1. delivered \in Seq(S) /\ last \in S /\ delivered' = Append(delivered, last)
    BY <1>1, <1>4, <1>6 DEF DeliveredToCursor
  <2> HIDE DEF S, last
  <2> QED BY <2>1
<1>b. \A j \in 1..Len(delivered) : delivered[j] \in S /\ delivered[j][2] \in Nat
  <2>1. ASSUME NEW x \in S PROVE x[2] \in Nat
    OBVIOUS
  <2>2. \A j \in 1..Len(delivered) : delivered[j] \in S
    <3> HIDE DEF S
    <3> QED BY <1>a
  <2> QED BY <2>1, <2>2
<1>c. last[1] = live /\ last[2] = seq + 1
  OBVIOUS
<1> HIDE DEF S, last
<1>8. /\ Len(delivered) \in Nat /\ Len(delivered') = Len(delivered) + 1
      /\ delivered'[Len(delivered) + 1] = last
      /\ \A j \in 1..Len(delivered) : delivered'[j] = delivered[j]
  <2>1. delivered' = Append(delivered, last)
    BY <1>4, <1>6 DEF last
  <2> QED BY <1>a, <2>1
<1>9. \A j \in 1..Len(delivered) : delivered[j][1] = live => delivered[j][2] <= seq
  <2>1. CASE session_id # None
    BY <1>1, <2>1 DEF DeliveredToCursor
  <2>2. CASE session_id = None
    <3>1. 1 \in 1..Len(wire) /\ wire[1].op = "event"
      BY <1>3, <1>4 DEF f
    <3> QED BY <1>1, <2>2, <3>1 DEF DeliveredToCursor
  <2> QED BY <2>1, <2>2
<1>10. DeliveredToCursor'
  <2>1. \E j \in 1..Len(delivered') : delivered'[j] = <<live', seq'>>
    <3>1. Len(delivered) + 1 \in 1..Len(delivered') /\ last = <<live', seq'>>
      BY <1>5, <1>7, <1>8 DEF last
    <3> QED BY <1>8, <3>1
  <2>2. ASSUME NEW j \in 1..Len(delivered'), delivered'[j][1] = live' PROVE delivered'[j][2] <= seq'
    <3>1. CASE j = Len(delivered) + 1
      BY <1>2, <1>7, <1>8, <1>c, <3>1
    <3>2. CASE j # Len(delivered) + 1
      <4>1. j \in 1..Len(delivered) /\ delivered'[j] = delivered[j] /\ delivered[j][2] \in Nat
        BY <1>8, <1>b, <3>2
      <4>2. delivered[j][2] <= seq
        BY <1>5, <1>9, <2>2, <4>1
      <4> QED BY <1>2, <1>7, <4>1, <4>2
    <3> QED BY <3>1, <3>2
  <2>3. delivered' \in Seq((1..live') \X (1..MaxEvents))
    BY <1>5, <1>a DEF S
  <2> QED BY <1>7, <2>1, <2>2, <2>3 DEF DeliveredToCursor
<1>11. EventsOnceInOrder'
  <2>1. ASSUME NEW j \in 1..Len(delivered')
        PROVE  /\ \A i \in 1..(j - 1) : delivered'[i] # delivered'[j]
               /\ delivered'[j][2] > 1 =>
                    \E i \in 1..(j - 1) : delivered'[i] = <<delivered'[j][1], delivered'[j][2] - 1>>
    <3>1. CASE j = Len(delivered) + 1
      <4>1. ASSUME NEW i \in 1..(j - 1) PROVE delivered'[i] # last
        <5>1. i \in 1..Len(delivered) /\ delivered'[i] = delivered[i]
          BY <1>8, <3>1
        <5>2. delivered[i] = last => FALSE
          BY <1>2, <1>9, <1>c, <5>1
        <5> QED BY <5>1, <5>2
      <4>2. delivered'[j] = last
        BY <1>8, <3>1
      <4>3. ASSUME seq + 1 > 1 PROVE \E i \in 1..(j - 1) : delivered'[i] = <<live, seq>>
        <5>1. session_id # None
          BY <1>2, <4>3 DEF None
        <5>2. PICK i \in 1..Len(delivered) : delivered[i] = <<live, seq>>
          BY <1>1, <5>1 DEF DeliveredToCursor
        <5>3. i \in 1..(j - 1) /\ delivered'[i] = delivered[i]
          BY <1>8, <3>1
        <5> QED BY <5>2, <5>3
      <4>4. <<last[1], last[2] - 1>> = <<live, seq>>
        BY <1>2, <1>c
      <4> QED BY <1>c, <4>1, <4>2, <4>3, <4>4
    <3>2. CASE j # Len(delivered) + 1
      <4>1. j \in 1..Len(delivered) /\ delivered'[j] = delivered[j]
            /\ \A i \in 1..(j - 1) : delivered'[i] = delivered[i]
        BY <1>8, <3>2
      <4> QED BY <1>1, <4>1 DEF EventsOnceInOrder
    <3> QED BY <3>1, <3>2
  <2>2. ASSUME NEW k \in 1..(live' - 1), NEW i \in 1..Len(delivered'), delivered'[i] = <<k, 1>>
        PROVE  k \in refused'
    <3>1. last # <<k, 1>>
      BY <1>2, <1>5 DEF last
    <3>2. i \in 1..Len(delivered) /\ delivered[i] = <<k, 1>>
      <4>1. i # Len(delivered) + 1
        BY <1>8, <2>2, <3>1
      <4>2. i \in 1..Len(delivered)
        BY <1>8, <4>1
      <4> QED BY <1>8, <2>2, <4>2
    <3> QED BY <1>1, <1>5, <2>2, <3>2 DEF EventsOnceInOrder
  <2> QED BY <2>1, <2>2 DEF EventsOnceInOrder
<1>12. ASSUME NEW k \in 1..Len(wire'), wire'[k].op = "event"
       PROVE  /\ wire'[k].session = live' /\ seq' < wire'[k].s /\ wire'[k].s <= log'
              /\ \/ wire'[k].s = seq' + 1
                 \/ \E j \in 1..(k - 1) : wire'[j].op = "event" /\ wire'[j].s = wire'[k].s - 1
              /\ \A j \in 1..(k - 1) : wire'[j].op = "event" => wire'[j].s < wire'[k].s
  <2>1. k + 1 \in 1..Len(wire) /\ wire[k + 1] = wire'[k] /\ 1 \in 1..((k + 1) - 1) /\ wire[1] = f
    BY <1>3, <1>12 DEF f
  <2>2. /\ wire'[k].session = live /\ seq < wire'[k].s /\ wire'[k].s <= log
        /\ \/ wire'[k].s = seq + 1
           \/ \E j \in 1..((k + 1) - 1) : wire[j].op = "event" /\ wire[j].s = wire'[k].s - 1
        /\ \A j \in 1..((k + 1) - 1) : wire[j].op = "event" => wire[j].s < wire'[k].s
    BY <1>1, <1>12, <2>1 DEF WireGoesOn
  <2>3. seq + 1 < wire'[k].s
    BY <1>4, <1>6, <2>1, <2>2
  <2>4. wire'[k].s \in 1..MaxEvents
    BY <1>3, <1>12, FrameKinds
  <2>5. PICK j \in 1..((k + 1) - 1) : wire[j].op = "event" /\ wire[j].s = wire'[k].s - 1
    BY <1>2, <2>2, <2>3, <2>4
  <2>6. wire'[k].s = (seq + 1) + 1 \/
        \E i \in 1..(k - 1) : wire'[i].op = "event" /\ wire'[i].s = wire'[k].s - 1
    <3>1. CASE j = 1
      BY <1>2, <1>6, <2>1, <2>4, <2>5, <3>1
    <3>2. CASE j # 1
      <4>1. j - 1 \in 1..Len(wire') /\ j - 1 \in 1..(k - 1)
        BY <1>3, <3>2
      <4>2. wire'[j - 1] = wire[j]
        BY <1>3, <4>1
      <4> QED BY <2>5, <4>1, <4>2
    <3> QED BY <3>1, <3>2
  <2>7. ASSUME NEW i \in 1..(k - 1), wire'[i].op = "event" PROVE wire'[i].s < wire'[k].s
    <3>1. i \in 1..Len(wire') /\ wire[i + 1] = wire'[i] /\ i + 1 \in 1..((k + 1) - 1)
      BY <1>3
    <3> QED BY <2>2, <2>7, <3>1
  <2> QED BY <1>5, <1>7, <2>2, <2>3, <2>6, <2>7
<1>13. ASSUME attached', Speaks'
       PROVE  \/ log' = seq'
              \/ \E k \in 1..Len(wire') : wire'[k].op = "event" /\ wire'[k].s = log'
  <2>1. attached /\ Speaks
    BY <1>5, <1>13 DEF Speaks, Opened
  <2>2. PICK k \in 1..Len(wire) : wire[k].op = "event" /\ wire[k].s = log
    BY <1>1, <1>2, <1>6, <2>1 DEF WireGoesOn
  <2>3. CASE k = 1
    BY <1>5, <1>6, <1>7, <2>2, <2>3 DEF f
  <2>4. CASE k # 1
    <3>1. k - 1 \in 1..Len(wire') /\ wire'[k - 1] = wire[k]
      BY <1>3, <2>4
    <3> QED BY <1>5, <2>2, <3>1
  <2> QED BY <2>3, <2>4
<1>14. WireGoesOn'
  BY <1>12, <1>13 DEF WireGoesOn
<1>15. SessionIsNewest'
  <2>1. seq' <= log'
    BY <1>5, <1>6, <1>7
  <2> QED BY <1>1, <1>3, <1>5, <1>7, <2>1 DEF SessionIsNewest
<1>16. request.op = "none"
  BY <1>1, <1>3, <1>4 DEF RequestIsCurrent, f
<1>17. RequestIsCurrent'
  BY <1>1, <1>2, <1>5, <1>16 DEF RequestIsCurrent
<1>18. LoopBounds' /\ streak' \in 0..MaxIdentifyFailures
  BY <1>1, <1>4, <1>5, GatewayAssumption DEF LoopBounds, TypeOK
<1>19. TypeOK'
  <2>1. wire' \in Seq(Frames \cup Events)'
    BY <1>3, <1>5 DEF Frames, Events
  <2>2. (session_id' = None) = (seq' = None) /\ session_id' \in 0..live' /\ seq' \in 0..MaxEvents
    BY <1>2, <1>5, <1>6, <1>7 DEF None
  <2> QED BY <1>1, <1>5, <1>18, <2>1, <2>2 DEF TypeOK
<1>20. UnacknowledgedMeansSilent'
  <2>1. ASSUME NEW k \in 1..Len(wire), wire[k].op = "ack"
        PROVE  \E j \in 1..Len(wire') : wire'[j].op = "ack"
    <3>1. k # 1
      BY <1>4, <2>1 DEF f
    <3>2. k - 1 \in 1..Len(wire') /\ wire'[k - 1] = wire[k]
      BY <1>3, <3>1
    <3> QED BY <2>1, <3>2
  <2> QED BY <1>1, <1>5, <2>1 DEF UnacknowledgedMeansSilent, Opened
<1> QED BY <1>10, <1>11, <1>14, <1>15, <1>17, <1>18, <1>19, <1>20 DEF IInv

(* Something is said, or a close, that is nothing of the session.          *)
Said ==
  \/ SayHello \/ SayNonsense \/ Acknowledge \/ Reap \/ HeartbeatTick \/ Stop
  \/ \E op \in {"heartbeat", "reconnect"} : Demand(op)
  \/ \E op \in Closes : ServerCloses(op)

LEMMA SaidKept == ASSUME IInv, Said PROVE IInv'
<1>1. /\ TypeOK /\ LoopBounds /\ RequestIsCurrent /\ UnacknowledgedMeansSilent
  BY DEF IInv
<1>2. /\ UNCHANGED <<pc, loop_vars, cursor, resuming, delivered, streak, request, discord,
                     attached, silent>>
  BY DEF Said, SayHello, SayNonsense, Acknowledge, Reap, HeartbeatTick, Stop, Demand,
         ServerCloses, client
<1>3. /\ attempts' = attempts /\ identify_failures' = identify_failures /\ last_error' = last_error
      /\ session_id' = session_id /\ seq' = seq /\ live' = live /\ log' = log /\ alive' = alive
      /\ refused' = refused
  BY <1>2 DEF loop_vars, cursor, discord
<1>4. /\ faults \in 0..MaxFaults /\ owed \in 0..2 /\ acked \in BOOLEAN /\ stop_event \in BOOLEAN
      /\ heartbeat \in {"none", "sleeping", "ended"} /\ (heartbeat # "none") = (pc = "frames")
      /\ conn \in {"closed", "open", "closing"} /\ (conn = "closed") = (pc \notin {"hello", "frames"})
      /\ wire \in Seq(Frames \cup Events) /\ Len(wire) \in Nat
  BY <1>1 DEF TypeOK
<1>5. /\ \E op \in Plain : wire' = Append(wire, Frame(op)) \/ wire' = wire
      /\ conn' = conn \/ (conn = "open" /\ conn' = "closing")
      /\ faults' \in 0..MaxFaults /\ owed' \in 0..2 /\ acked' \in BOOLEAN /\ stop_event' \in BOOLEAN
      /\ heartbeat' = heartbeat \/ (heartbeat # "none" /\ heartbeat' = "ended")
      /\ Opened' /\ heartbeat' = "sleeping" /\ ~acked' =>
           \/ owed' > 0
           \/ \E k \in 1..Len(wire') : wire'[k].op = "ack"
           \/ heartbeat = "sleeping" /\ ~acked /\ owed' = owed
  <2>1. CASE SayHello \/ SayNonsense \/ \E op \in {"heartbeat", "reconnect"} : Demand(op)
    <3>1. PICK op \in Plain : wire' = wire \o <<Frame(op)>>
      BY <2>1 DEF SayHello, SayNonsense, Demand, Say, Plain
    <3>2. wire' = Append(wire, Frame(op))
      BY <1>4, <3>1
    <3>3. /\ conn' = conn /\ owed' = owed /\ acked' = acked /\ stop_event' = stop_event
          /\ heartbeat' = heartbeat
      BY <2>1 DEF SayHello, SayNonsense, Demand, client
    <3>4. faults' \in 0..MaxFaults
      BY <1>4, <2>1, GatewayAssumption DEF SayHello, SayNonsense, Demand, Fault
    <3> QED BY <1>4, <3>2, <3>3, <3>4
  <2>2. CASE Acknowledge
    <3>1. /\ conn' = conn /\ owed > 0 /\ owed' = owed - 1 /\ acked' = acked
          /\ stop_event' = stop_event /\ heartbeat' = heartbeat /\ faults' = faults
          /\ wire' = wire \o <<Frame("ack")>>
      BY <2>2 DEF Acknowledge, client, Say
    <3>2. /\ wire' = Append(wire, Frame("ack")) /\ "ack" \in Plain /\ Frame("ack").op = "ack"
      BY <1>4, <3>1 DEF Plain, Frame
    <3>3. Len(wire) + 1 \in 1..Len(wire') /\ wire'[Len(wire) + 1] = Frame("ack")
      BY <1>4, <3>2
    <3> QED BY <1>4, <3>1, <3>2, <3>3
  <2>3. CASE Reap \/ Stop \/ \E op \in Closes : ServerCloses(op)
    <3>1. PICK op \in Plain : CloseWith(op) \/ UNCHANGED <<conn, wire>>
      BY <2>3 DEF Reap, Stop, ServerCloses, Plain, Closes
    <3>2. /\ owed' = owed /\ acked' = acked /\ heartbeat' = heartbeat
          /\ stop_event' \in BOOLEAN
      BY <1>4, <2>3 DEF Reap, Stop, ServerCloses, client
    <3>3. faults' \in 0..MaxFaults
      BY <1>4, <2>3, GatewayAssumption DEF Reap, Stop, ServerCloses, Fault
    <3> QED BY <1>4, <3>1, <3>2, <3>3 DEF CloseWith, Opened
  <2>4. CASE HeartbeatTick
    <3>1. /\ pc = "frames" /\ heartbeat = "sleeping" /\ faults' = faults /\ stop_event' = stop_event
      BY <2>4 DEF HeartbeatTick
    <3>2. CASE heartbeat' = "ended" /\ UNCHANGED <<acked, owed>>
                /\ (UNCHANGED <<conn, wire>> \/ CloseWith("closed_error"))
      BY <1>4, <3>1, <3>2 DEF CloseWith, Opened, Plain, Closes
    <3>3. CASE acked' = FALSE /\ UNCHANGED <<conn, wire>>
                /\ IF Opened THEN SendHeartbeat /\ UNCHANGED heartbeat
                   ELSE heartbeat' = "ended" /\ UNCHANGED owed
      <4>1. acked' \in BOOLEAN /\ stop_event' \in BOOLEAN
        BY <1>4, <3>1, <3>3, Zenon
      <4>2. owed' \in 0..2 /\ (heartbeat' = "sleeping" => owed' > 0)
            /\ heartbeat' \in {heartbeat, "ended"}
        BY <1>4, <3>1, <3>3 DEF SendHeartbeat
      <4>3. \E op \in Plain : wire' = Append(wire, Frame(op)) \/ wire' = wire
        BY <3>3 DEF Plain
      <4> QED BY <1>4, <3>1, <3>3, <4>1, <4>2, <4>3
    <3> QED BY <2>4, <3>2, <3>3 DEF HeartbeatTick
  <2> QED BY <2>1, <2>2, <2>3, <2>4 DEF Said
<1>6. PICK op \in Plain : wire' = Append(wire, Frame(op)) \/ wire' = wire
  BY <1>5
<1>7. SessionIsNewest' /\ WireGoesOn' /\ DeliveredToCursor' /\ EventsOnceInOrder'
      /\ wire' \in Seq(Frames \cup Events)'
  <2>1. UNCHANGED session_vars
    BY <1>2, <1>3 DEF session_vars
  <2>2. Speaks' => Speaks
    BY <1>2, <1>5 DEF Speaks, Opened
  <2> QED BY <1>2, <1>6, <2>1, <2>2, PlainSaid
<1>8. /\ \A k \in 1..Len(wire) : wire'[k] = wire[k] /\ k \in 1..Len(wire')
      /\ \A k \in 1..Len(wire') :
           k \in 1..Len(wire) \/ wire'[k].op \notin {"event", "invalid", "invalid_retry"}
  <2>1. CASE wire' = wire
    BY <2>1
  <2>2. CASE wire' = Append(wire, Frame(op))
    <3>1. Frame(op) \in Frames \cup Events /\ Frame(op).op = op
          /\ op \notin {"event", "invalid", "invalid_retry"}
      BY FramesMade DEF Plain, Closes
    <3>2. /\ Len(wire') = Len(wire) + 1 /\ wire'[Len(wire) + 1] = Frame(op)
          /\ \A k \in 1..Len(wire) : wire'[k] = wire[k]
      BY <1>4, <2>2, <3>1, WithOneMore, Zenon
    <3> QED BY <1>4, <3>1, <3>2
  <2> QED BY <1>6, <2>1, <2>2
<1>9. TypeOK'
  <2>1. /\ heartbeat' \in {"none", "sleeping", "ended"} /\ (heartbeat' # "none") = (pc' = "frames")
        /\ conn' \in {"closed", "open", "closing"} /\ (conn' = "closed") = (pc' \notin {"hello", "frames"})
    BY <1>2, <1>4, <1>5
  <2> QED BY <1>1, <1>2, <1>3, <1>5, <1>7, <2>1 DEF TypeOK
<1>10. LoopBounds'
  BY <1>1, <1>2, <1>3 DEF LoopBounds
<1>11. RequestIsCurrent'
  BY <1>1, <1>2, <1>3, <1>8 DEF RequestIsCurrent
<1>12. UnacknowledgedMeansSilent'
  <2>1. ASSUME heartbeat' = "sleeping", Opened', ~acked'
        PROVE  silent' \/ owed' > 0 \/ \E k \in 1..Len(wire') : wire'[k].op = "ack"
    <3>1. CASE heartbeat = "sleeping" /\ ~acked /\ owed' = owed
      <4>1. Opened
        BY <1>5, <2>1 DEF Opened
      <4> QED BY <1>1, <1>2, <1>8, <3>1, <4>1 DEF UnacknowledgedMeansSilent
    <3> QED BY <1>5, <2>1, <3>1
  <2> QED BY <2>1 DEF UnacknowledgedMeansSilent
<1> QED BY <1>7, <1>9, <1>10, <1>11, <1>12 DEF IInv

(* A session ends, and an op 9 that costs the cursor was about it.         *)
Ends ==
  \/ ConnectFails \/ NoHello \/ Reconnect \/ SocketClosed
  \/ (Hello /\ ~Opened) \/ (HeartbeatRequested /\ ~Opened)
  \/ \E d \in BOOLEAN : InvalidSession(d)

LEMMA EndsKept == ASSUME IInv, Ends PROVE IInv'
<1>1. resuming \in BOOLEAN /\ acked \in BOOLEAN /\ faults \in 0..MaxFaults
      /\ (session_id # None /\ seq # None) \in BOOLEAN
  BY DEF IInv, TypeOK
<1>2. UNCHANGED <<discord, delivered>>
  BY DEF Ends, ConnectFails, NoHello, Reconnect, SocketClosed, Hello, HeartbeatRequested,
         InvalidSession
<1>3. CASE ConnectFails \/ NoHello \/ Reconnect \/ SocketClosed
           \/ (Hello /\ ~Opened) \/ (HeartbeatRequested /\ ~Opened)
  <2>1. PICK error \in {"resumable", "other"} : SessionFails(error)
    BY <1>3 DEF ConnectFails, NoHello, Reconnect, SocketClosed, Hello, HeartbeatRequested
  <2>2. /\ pc \in {"connecting", "hello", "frames"} /\ UNCHANGED cursor /\ streak' = streak
    BY <1>3 DEF ConnectFails, NoHello, Reconnect, SocketClosed, Hello, HeartbeatRequested, Receives
  <2>3. faults' \in 0..MaxFaults
    BY <1>1, <1>3, GatewayAssumption
       DEF ConnectFails, NoHello, Reconnect, SocketClosed, Hello, HeartbeatRequested
  <2>4. resuming' \in BOOLEAN /\ acked' \in BOOLEAN
    <3>1. CASE Hello
      <4>1. resuming' = (session_id # None /\ seq # None) /\ acked' = TRUE
        BY <3>1, Zenon DEF Hello, AckedAtHello
      <4> QED BY <4>1, Zenon
    <3>2. CASE ~Hello
      <4>1. resuming' = resuming /\ acked' = acked
        BY <1>3, <3>2, Zenon DEF ConnectFails, NoHello, Reconnect, SocketClosed, HeartbeatRequested
      <4> QED BY <1>1, <4>1, Zenon
    <3> QED BY <3>1, <3>2
  <2> QED BY <1>2, <2>1, <2>2, <2>3, <2>4, SessionFailsKept
<1>4. ASSUME NEW d \in BOOLEAN, InvalidSession(d) PROVE IInv'
  <2>1. /\ pc = "frames" /\ wire # <<>> /\ Head(wire).op = IF d THEN "invalid_retry" ELSE "invalid"
        /\ resuming' = resuming /\ acked' = acked /\ faults' = faults
    BY <1>4 DEF InvalidSession, Receives
  <2>2. d \/ resuming => live \in refused
    <3>1. wire \in Seq(Frames \cup Events) /\ SessionIsNewest
      BY DEF IInv, TypeOK
    <3>2. Head(wire) = wire[1] /\ 1 \in 1..Len(wire)
      BY <2>1, <3>1
    <3> QED BY <2>1, <3>1, <3>2 DEF SessionIsNewest
  <2>3. UNCHANGED cursor \/ (session_id' = None /\ seq' = None /\ live \in refused)
    <3>1. CASE KeepsCursor(d)
      BY <1>4, <3>1 DEF InvalidSession, cursor
    <3>2. CASE ~KeepsCursor(d)
      BY <1>4, <2>2, <3>2 DEF InvalidSession, KeepsCursor
    <3> QED BY <3>1, <3>2
  <2>4. PICK error \in {"identify_rejected", "resumable"} :
          /\ SessionFails(error)
          /\ streak' = IF error = "identify_rejected" THEN streak + 1 ELSE streak
    <3>1. CASE d \/ resuming
      <4>1. SessionFails("resumable") /\ streak' = streak
        BY <1>4, <3>1 DEF InvalidSession
      <4> QED BY <4>1
    <3>2. CASE ~(d \/ resuming)
      <4>1. SessionFails("identify_rejected") /\ streak' = streak + 1
        BY <1>4, <3>2 DEF InvalidSession
      <4> QED BY <4>1
    <3> QED BY <3>1, <3>2
  <2> QED BY <1>1, <1>2, <2>1, <2>3, <2>4, SessionFailsKept
<1> QED BY <1>3, <1>4 DEF Ends

(* What only Discord knows of: a session expires, a connection falls silent.*)
LEMMA QuietKept == ASSUME IInv, Expire \/ FallSilent PROVE IInv'
<1>1. /\ TypeOK /\ LoopBounds /\ RequestIsCurrent /\ SessionIsNewest /\ WireGoesOn
      /\ DeliveredToCursor /\ EventsOnceInOrder /\ UnacknowledgedMeansSilent
  BY DEF IInv
<1>2. UNCHANGED <<client, conn, wire, request, owed, live, log, refused, attached>>
  BY DEF Expire, FallSilent, discord
<1>3. /\ UNCHANGED <<pc, resuming, acked, heartbeat, stop_event, delivered, streak>>
      /\ attempts' = attempts /\ identify_failures' = identify_failures /\ last_error' = last_error
      /\ session_id' = session_id /\ seq' = seq
  BY <1>2 DEF client, loop_vars, cursor
<1>4. faults' \in 0..MaxFaults /\ alive' \in BOOLEAN /\ silent' \in BOOLEAN /\ (silent => silent')
  <2>1. faults \in 0..MaxFaults /\ alive \in BOOLEAN /\ silent \in BOOLEAN
    BY <1>1 DEF TypeOK
  <2>2. faults' \in 0..MaxFaults
    BY <2>1, GatewayAssumption DEF Expire, FallSilent, Fault
  <2>3. (alive' = FALSE /\ silent' = silent) \/ (alive' = alive /\ silent' = TRUE)
    BY DEF Expire, FallSilent, discord
  <2> QED BY <2>1, <2>2, <2>3, Zenon
<1>5. TypeOK'
  <2>1. wire' \in Seq(Frames \cup Events)'
    BY <1>1, <1>2 DEF TypeOK, Frames, Events
  <2> QED BY <1>1, <1>2, <1>3, <1>4, <2>1 DEF TypeOK
<1>6. LoopBounds' /\ RequestIsCurrent'
  BY <1>1, <1>2, <1>3 DEF LoopBounds, RequestIsCurrent
<1>7. SessionIsNewest' /\ DeliveredToCursor' /\ EventsOnceInOrder'
  BY <1>1, <1>2, <1>3 DEF SessionIsNewest, DeliveredToCursor, EventsOnceInOrder
<1>8. WireGoesOn'
  <2>1. Speaks' => Speaks
    BY <1>2, <1>4 DEF Speaks, Opened
  <2> QED BY <1>1, <1>2, <1>3, <2>1 DEF WireGoesOn
<1>9. UnacknowledgedMeansSilent'
  BY <1>1, <1>2, <1>3, <1>4 DEF UnacknowledgedMeansSilent, Opened
<1> QED BY <1>5, <1>6, <1>7, <1>8, <1>9 DEF IInv

(* Discord sends an op 9: about its newest session, or about an IDENTIFY.  *)
LEMMA RefusalKept ==
  ASSUME IInv, RejectIdentify \/ RejectResume \/ \E d \in BOOLEAN : Invalidate(d) PROVE IInv'
<1>1. /\ TypeOK /\ LoopBounds /\ RequestIsCurrent /\ SessionIsNewest /\ WireGoesOn
      /\ DeliveredToCursor /\ EventsOnceInOrder /\ UnacknowledgedMeansSilent
  BY DEF IInv
<1>2. /\ wire \in Seq(Frames \cup Events) /\ Len(wire) \in Nat /\ live \in Nat /\ seq \in Nat
      /\ faults \in 0..MaxFaults /\ alive \in BOOLEAN /\ refused \subseteq 1..live /\ log \in Nat
  BY <1>1 DEF TypeOK
<1>3. UNCHANGED <<client, conn, owed, live, log, silent>>
  BY DEF RejectIdentify, RejectResume, Invalidate, discord
<1>4. /\ UNCHANGED <<pc, resuming, acked, heartbeat, stop_event, delivered, streak>>
      /\ attempts' = attempts /\ identify_failures' = identify_failures /\ last_error' = last_error
      /\ session_id' = session_id /\ seq' = seq
  BY <1>3 DEF client, loop_vars, cursor
<1>5. PICK op \in {"invalid", "invalid_retry"} :
        /\ wire' = wire \o <<Frame(op)>>
        /\ live \in refused' \/ (op = "invalid" /\ ~resuming)
        /\ refused \subseteq refused' /\ refused' \subseteq 1..live
        /\ pc = "frames" /\ attached' = FALSE /\ request'.op = "none"
        /\ request' \in {request, NoRequest}
        /\ alive' \in BOOLEAN /\ faults' \in 0..MaxFaults
  <2>1. CASE RejectIdentify
    <3>1. /\ request.op = "identify" /\ wire' = wire \o <<Frame("invalid")>> /\ request' = NoRequest
          /\ alive' = alive /\ refused' = refused /\ attached' = attached
      BY <2>1 DEF RejectIdentify, Say, discord
    <3>2. pc = "frames" /\ ~attached /\ ~resuming
      BY <1>1, <3>1 DEF RequestIsCurrent
    <3>3. attached' = FALSE
      <4>1. attached \in BOOLEAN
        BY <1>1 DEF TypeOK
      <4> QED BY <3>1, <3>2, <4>1, Zenon
    <3>4. faults' \in 0..MaxFaults
      BY <1>2, <2>1, GatewayAssumption DEF RejectIdentify, Fault
    <3> QED BY <1>2, <3>1, <3>2, <3>3, <3>4 DEF NoRequest
  <2>2. CASE RejectResume
    <3>1. /\ request.op = "resume" /\ wire' = wire \o <<Frame("invalid")>> /\ request' = NoRequest
          /\ alive' = alive /\ refused' = refused \cup {request.session} /\ attached' = attached
          /\ faults' = faults
      BY <2>2 DEF RejectResume, Say
    <3>2. pc = "frames" /\ ~attached /\ request.session = session_id /\ session_id # None
      BY <1>1, <3>1 DEF RequestIsCurrent
    <3>3. request.session = live /\ live \in 1..live
      BY <1>1, <1>2, <3>2 DEF SessionIsNewest, None
    <3>4. attached' = FALSE
      <4>1. attached \in BOOLEAN
        BY <1>1 DEF TypeOK
      <4> QED BY <3>1, <3>2, <4>1, Zenon
    <3> QED BY <1>2, <3>1, <3>2, <3>3, <3>4 DEF NoRequest
  <2>3. ASSUME NEW d \in BOOLEAN, Invalidate(d)
        PROVE  \E op \in {"invalid", "invalid_retry"} :
                 /\ wire' = wire \o <<Frame(op)>>
                 /\ live \in refused' \/ (op = "invalid" /\ ~resuming)
                 /\ refused \subseteq refused' /\ refused' \subseteq 1..live
                 /\ pc = "frames" /\ attached' = FALSE /\ request'.op = "none"
                 /\ request' \in {request, NoRequest}
                 /\ alive' \in BOOLEAN /\ faults' \in 0..MaxFaults
    <3>1. /\ attached /\ attached' = FALSE /\ request' = request /\ refused' = refused \cup {live}
          /\ wire' = wire \o <<Frame(IF d THEN "invalid_retry" ELSE "invalid")>>
          /\ alive' = (alive /\ d)
      BY <2>3 DEF Invalidate, Say
    <3>2. pc = "frames" /\ request.op = "none" /\ live \in 1..live
      <4>1. live # None /\ pc = "frames"
        BY <1>1, <3>1 DEF RequestIsCurrent, SessionIsNewest
      <4>2. request.op = "none"
        BY <1>1, <3>1 DEF RequestIsCurrent
      <4> QED BY <1>2, <4>1, <4>2 DEF None
    <3>3. alive' \in BOOLEAN
      BY <1>2, <3>1, Zenon
    <3>4. faults' \in 0..MaxFaults
      BY <1>2, <2>3, GatewayAssumption DEF Invalidate, Fault
    <3> DEFINE op == IF d THEN "invalid_retry" ELSE "invalid"
    <3>5. op \in {"invalid", "invalid_retry"} /\ wire' = wire \o <<Frame(op)>>
      BY <3>1
    <3> HIDE DEF op
    <3> QED BY <1>2, <3>1, <3>2, <3>3, <3>4, <3>5
  <2> QED BY <2>1, <2>2, <2>3
<1>6. /\ wire' \in Seq(Frames \cup Events) /\ Len(wire') = Len(wire) + 1
      /\ wire'[Len(wire) + 1].op = op
      /\ \A k \in 1..Len(wire) : wire'[k] = wire[k]
  <2>1. Frame(op) \in Frames \cup Events /\ Frame(op).op = op
    BY FramesMade
  <2>2. wire' = Append(wire, Frame(op))
    BY <1>2, <1>5
  <2> QED BY <1>2, <2>1, <2>2, WithOneMore
<1>7. TypeOK'
  <2>1. wire' \in Seq(Frames \cup Events)'
    BY <1>3, <1>6 DEF Frames, Events
  <2>2. attached' \in BOOLEAN
    BY <1>5, Zenon
  <2> QED BY <1>1, <1>3, <1>4, <1>5, <2>1, <2>2 DEF TypeOK
<1>8. LoopBounds'
  BY <1>1, <1>4 DEF LoopBounds
<1>9. RequestIsCurrent'
  <2>1. request' \in [op : {"none", "identify", "resume"}, session : 0..live', after : 0..MaxEvents]
    BY <1>1, <1>2, <1>3, <1>5, GatewayAssumption DEF RequestIsCurrent, NoRequest, None
  <2> QED BY <1>4, <1>5, <2>1 DEF RequestIsCurrent
<1>10. SessionIsNewest'
  <2>1. ASSUME NEW k \in 1..Len(wire')
        PROVE  /\ wire'[k].op = "invalid_retry" => live' \in refused'
               /\ wire'[k].op = "invalid" => live' \in refused' \/ ~resuming'
    <3>1. CASE k = Len(wire) + 1
      BY <1>3, <1>4, <1>5, <1>6, <3>1
    <3>2. CASE k # Len(wire) + 1
      <4>1. k \in 1..Len(wire) /\ wire'[k] = wire[k]
        BY <1>2, <1>6, <3>2
      <4> QED BY <1>1, <1>3, <1>4, <1>5, <4>1 DEF SessionIsNewest
    <3> QED BY <3>1, <3>2
  <2> QED BY <1>1, <1>3, <1>4, <1>5, <2>1 DEF SessionIsNewest
<1>11. ASSUME NEW k \in 1..Len(wire'), wire'[k].op = "event"
       PROVE  k \in 1..Len(wire) /\ wire'[k] = wire[k] /\ \A j \in 1..(k - 1) : wire'[j] = wire[j]
  BY <1>2, <1>5, <1>6, <1>11
<1>12. WireGoesOn'
  <2>1. ASSUME NEW k \in 1..Len(wire'), wire'[k].op = "event"
        PROVE  /\ wire'[k].session = live' /\ seq' < wire'[k].s /\ wire'[k].s <= log'
               /\ \/ wire'[k].s = seq' + 1
                  \/ \E j \in 1..(k - 1) : wire'[j].op = "event" /\ wire'[j].s = wire'[k].s - 1
               /\ \A j \in 1..(k - 1) : wire'[j].op = "event" => wire'[j].s < wire'[k].s
    <3>1. k \in 1..Len(wire) /\ wire'[k] = wire[k] /\ \A j \in 1..(k - 1) : wire'[j] = wire[j]
      BY <1>11, <2>1
    <3>2. /\ wire[k].session = live /\ seq < wire[k].s /\ wire[k].s <= log
          /\ \/ wire[k].s = seq + 1
             \/ \E j \in 1..(k - 1) : wire[j].op = "event" /\ wire[j].s = wire[k].s - 1
          /\ \A j \in 1..(k - 1) : wire[j].op = "event" => wire[j].s < wire[k].s
      BY <1>1, <2>1, <3>1 DEF WireGoesOn
    <3> QED BY <1>3, <1>4, <3>1, <3>2
  <2> QED BY <1>5, <2>1 DEF WireGoesOn
<1>13. DeliveredToCursor' /\ EventsOnceInOrder'
  <2>1. (\E k \in 1..Len(wire') : wire'[k].op = "event") => \E k \in 1..Len(wire) : wire[k].op = "event"
    BY <1>11
  <2>2. DeliveredToCursor'
    BY <1>1, <1>3, <1>4, <1>5, <2>1 DEF DeliveredToCursor
  <2>3. EventsOnceInOrder'
    BY <1>1, <1>3, <1>4, <1>5 DEF EventsOnceInOrder
  <2> QED BY <2>2, <2>3
<1>14. UnacknowledgedMeansSilent'
  <2>1. \A k \in 1..Len(wire) : k \in 1..Len(wire')
    BY <1>2, <1>6
  <2> QED BY <1>1, <1>3, <1>4, <1>6, <2>1 DEF UnacknowledgedMeansSilent, Opened
<1> QED BY <1>7, <1>8, <1>9, <1>10, <1>12, <1>13, <1>14 DEF IInv

(* A new session begins with its first event; the one before it, if the    *)
(* client knew it, had an op 9.                                            *)
LEMMA IdentifyKept == ASSUME IInv, AcceptIdentify PROVE IInv'
<1>1. /\ TypeOK /\ LoopBounds /\ RequestIsCurrent /\ SessionIsNewest
      /\ DeliveredToCursor /\ EventsOnceInOrder /\ UnacknowledgedMeansSilent
  BY DEF IInv
<1>2. /\ wire \in Seq(Frames \cup Events) /\ Len(wire) \in Nat /\ live \in Nat
      /\ refused \subseteq 1..live /\ (session_id = None) = (seq = None)
  BY <1>1 DEF TypeOK
<1>3. /\ request.op = "identify" /\ live' = live + 1 /\ log' = 1 /\ alive' = TRUE
      /\ wire' = wire \o <<Event(live + 1, 1)>> /\ attached' = TRUE /\ request' = NoRequest
      /\ UNCHANGED <<client, conn, owed, refused, silent, faults>>
  BY DEF AcceptIdentify, Say
<1>4. /\ UNCHANGED <<pc, resuming, acked, heartbeat, stop_event, delivered, streak>>
      /\ attempts' = attempts /\ identify_failures' = identify_failures /\ last_error' = last_error
      /\ session_id' = session_id /\ seq' = seq
  BY <1>3 DEF client, loop_vars, cursor
<1>5. /\ pc = "frames" /\ session_id = None /\ seq = 0
      /\ \A k \in 1..Len(wire) : wire[k].op \notin {"event", "invalid", "invalid_retry"}
  BY <1>1, <1>2, <1>3 DEF RequestIsCurrent, None
<1>6. /\ wire' \in Seq(Frames \cup Events') /\ Len(wire') = Len(wire) + 1
      /\ wire'[Len(wire) + 1] = Event(live + 1, 1)
      /\ \A k \in 1..Len(wire) : wire'[k] = wire[k]
  <2>1. Event(live + 1, 1) \in Events'
    <3>1. live + 1 \in 1..live' /\ 1 \in 1..MaxEvents
      BY <1>2, <1>3, GatewayAssumption
    <3> QED BY <3>1 DEF Events, Event
  <2>2. Events \subseteq Events'
    BY <1>2, <1>3, EventsGrow
  <2>3. wire \in Seq(Frames \cup Events') /\ wire' = Append(wire, Event(live + 1, 1))
    BY <1>2, <1>3, <2>2
  <2> QED BY <2>1, <2>3, WithOneMore
<1>7. /\ Event(live + 1, 1).op = "event" /\ Event(live + 1, 1).session = live + 1
      /\ Event(live + 1, 1).s = 1
  BY DEF Event
<1>8. TypeOK'
  <2>1. wire' \in Seq(Frames \cup Events)' /\ request'.op = "none"
    BY <1>3, <1>6 DEF NoRequest, Frames
  <2>2. attached' \in BOOLEAN /\ alive' \in BOOLEAN
    BY <1>3, Zenon
  <2>3. live' \in Nat /\ log' \in 0..MaxEvents /\ refused' \subseteq 1..live' /\ session_id' \in 0..live'
    BY <1>2, <1>3, <1>4, <1>5, GatewayAssumption DEF None
  <2> QED BY <1>1, <1>3, <1>4, <2>1, <2>2, <2>3 DEF TypeOK
<1>9. LoopBounds'
  BY <1>1, <1>4 DEF LoopBounds
<1>10. RequestIsCurrent'
  <2>1. request' \in [op : {"none", "identify", "resume"}, session : 0..live', after : 0..MaxEvents]
        /\ request'.op = "none"
    BY <1>2, <1>3, GatewayAssumption DEF NoRequest, None
  <2> QED BY <1>4, <1>5, <2>1 DEF RequestIsCurrent
<1>11. ASSUME NEW k \in 1..Len(wire')
       PROVE  (k = Len(wire) + 1 /\ wire'[k] = Event(live + 1, 1)) \/
              wire'[k].op \notin {"event", "invalid", "invalid_retry"}
  BY <1>2, <1>5, <1>6
<1>12. SessionIsNewest'
  <2>1. live' # None
    BY <1>2, <1>3 DEF None
  <2> QED BY <1>3, <1>4, <1>5, <1>7, <1>11, <2>1 DEF SessionIsNewest
<1>13. WireGoesOn'
  <2>1. ASSUME NEW k \in 1..Len(wire'), wire'[k].op = "event"
        PROVE  /\ wire'[k].session = live' /\ seq' < wire'[k].s /\ wire'[k].s <= log'
               /\ wire'[k].s = seq' + 1
               /\ \A j \in 1..(k - 1) : wire'[j].op # "event"
    <3>1. k = Len(wire) + 1 /\ wire'[k] = Event(live + 1, 1)
      BY <1>11, <2>1
    <3>2. \A j \in 1..(k - 1) : wire'[j].op # "event"
      BY <1>2, <1>5, <1>6, <3>1
    <3> QED BY <1>3, <1>4, <1>5, <1>7, <3>1, <3>2
  <2>2. Len(wire) + 1 \in 1..Len(wire') /\ wire'[Len(wire) + 1].op = "event"
        /\ wire'[Len(wire) + 1].s = log'
    BY <1>2, <1>3, <1>6, <1>7
  <2> QED BY <2>1, <2>2 DEF WireGoesOn
<1>14. \A j \in 1..Len(delivered) : delivered[j][1] \in 1..live
  <2>1. ASSUME NEW x \in (1..live) \X (1..MaxEvents) PROVE x[1] \in 1..live
    OBVIOUS
  <2> DEFINE S == (1..live) \X (1..MaxEvents)
  <2>2. delivered \in Seq(S)
    BY <1>1 DEF DeliveredToCursor
  <2> HIDE DEF S
  <2>3. \A j \in 1..Len(delivered) : delivered[j] \in S
    BY <2>2
  <2> QED BY <2>1, <2>3 DEF S
<1>15. DeliveredToCursor'
  <2>1. delivered' \in Seq((1..live') \X (1..MaxEvents))
    <3> DEFINE S == (1..live) \X (1..MaxEvents)
               T == (1..live') \X (1..MaxEvents)
    <3>1. delivered' \in Seq(S)
      BY <1>1, <1>4 DEF DeliveredToCursor
    <3>2. S \subseteq T
      BY <1>2, <1>3
    <3> HIDE DEF S, T
    <3>3. delivered' \in Seq(T)
      BY <3>1, <3>2
    <3> QED BY <3>3 DEF T
  <2>2. \A j \in 1..Len(delivered') : delivered'[j][1] # live'
    BY <1>2, <1>3, <1>4, <1>14
  <2>3. \A j \in 1..Len(delivered') : delivered'[j] # <<live', 1>>
    BY <2>2
  <2> QED BY <1>4, <1>5, <2>1, <2>2, <2>3 DEF DeliveredToCursor
<1>16. EventsOnceInOrder'
  <2>1. ASSUME NEW k \in 1..(live' - 1), NEW i \in 1..Len(delivered), delivered[i] = <<k, 1>>
        PROVE  k \in refused
    <3>1. CASE k = live
      BY <1>1, <1>5, <2>1, <3>1 DEF DeliveredToCursor
    <3>2. CASE k # live
      <4>1. k \in 1..(live - 1)
        BY <1>2, <1>3, <3>2
      <4> QED BY <1>1, <2>1, <4>1 DEF EventsOnceInOrder
    <3> QED BY <3>1, <3>2
  <2> QED BY <1>1, <1>3, <1>4, <2>1 DEF EventsOnceInOrder
<1>17. UnacknowledgedMeansSilent'
  <2>1. \A k \in 1..Len(wire) : k \in 1..Len(wire')
    BY <1>2, <1>6
  <2> QED BY <1>1, <1>3, <1>4, <1>6, <2>1 DEF UnacknowledgedMeansSilent, Opened
<1> QED BY <1>8, <1>9, <1>10, <1>12, <1>13, <1>15, <1>16, <1>17 DEF IInv

(* Discord goes on with its newest session: what the client missed, or the *)
(* event that happens now.                                                 *)
LEMMA EventsSaidKept ==
  ASSUME IInv, UNCHANGED <<client, conn, owed, live, alive, refused, silent, faults>>,
         live # None, NEW more \in Seq(Events), wire' = wire \o more,
         log' \in log..MaxEvents, attached' \in BOOLEAN,
         more # <<>> => session_id # None \/ \E k \in 1..Len(wire) : wire[k].op = "event",
         RequestIsCurrent', WireGoesOn'
  PROVE  IInv'
<1>1. /\ TypeOK /\ LoopBounds /\ RequestIsCurrent /\ SessionIsNewest
      /\ DeliveredToCursor /\ EventsOnceInOrder /\ UnacknowledgedMeansSilent
  BY DEF IInv
<1>2. /\ wire \in Seq(Frames \cup Events) /\ Len(wire) \in Nat /\ live \in Nat /\ log \in 0..MaxEvents
      /\ refused \subseteq 1..live /\ seq \in Nat
  BY <1>1 DEF TypeOK
<1>3. /\ UNCHANGED <<pc, resuming, acked, heartbeat, stop_event, delivered, streak>>
      /\ attempts' = attempts /\ identify_failures' = identify_failures /\ last_error' = last_error
      /\ session_id' = session_id /\ seq' = seq
  BY DEF client, loop_vars, cursor
<1>4. /\ wire' \in Seq(Frames \cup Events) /\ Len(wire') = Len(wire) + Len(more) /\ Len(more) \in Nat
      /\ \A k \in 1..Len(wire) : wire'[k] = wire[k] /\ k \in 1..Len(wire')
      /\ \A k \in 1..Len(wire') : k \in 1..Len(wire) \/ wire'[k] \in Events
  <2>1. more \in Seq(Frames \cup Events) /\ \A k \in 1..Len(more) : more[k] \in Events
    OBVIOUS
  <2>2. /\ Len(wire') = Len(wire) + Len(more) /\ Len(more) \in Nat
        /\ \A k \in 1..(Len(wire) + Len(more)) :
             wire'[k] = IF k <= Len(wire) THEN wire[k] ELSE more[k - Len(wire)]
    BY <1>2, <2>1
  <2> QED BY <1>2, <2>1, <2>2
<1>5. TypeOK'
  <2>1. wire' \in Seq(Frames \cup Events)' /\ request'.op \in {"none", "identify", "resume"}
    BY <1>4 DEF RequestIsCurrent, Frames, Events
  <2>2. log' \in 0..MaxEvents
    BY <1>2, GatewayAssumption
  <2> QED BY <1>1, <1>3, <2>1, <2>2 DEF TypeOK
<1>6. LoopBounds'
  BY <1>1, <1>3 DEF LoopBounds
<1>8. SessionIsNewest'
  <2>1. \A e \in Events : e.op = "event"
    BY DEF Events, Event
  <2>2. \A k \in 1..Len(wire') : (k \in 1..Len(wire) /\ wire'[k] = wire[k]) \/ wire'[k].op = "event"
    BY <1>4, <2>1
  <2>3. seq <= log' /\ log' >= 1
    BY <1>1, <1>2, GatewayAssumption DEF SessionIsNewest
  <2> QED BY <1>1, <1>3, <2>2, <2>3 DEF SessionIsNewest
<1>9. DeliveredToCursor'
  <2>1. session_id = None /\ (\E k \in 1..Len(wire') : wire'[k].op = "event") =>
          \E k \in 1..Len(wire) : wire[k].op = "event"
    <3>1. CASE Len(more) = 0
      BY <1>2, <1>4, <3>1
    <3>2. CASE Len(more) # 0
      BY <1>4, <3>2
    <3> QED BY <3>1, <3>2
  <2>2. delivered' \in Seq((1..live') \X (1..MaxEvents))
    BY <1>1, <1>3 DEF DeliveredToCursor
  <2> QED BY <1>1, <1>3, <2>1, <2>2 DEF DeliveredToCursor
<1>10. EventsOnceInOrder'
  BY <1>1, <1>3 DEF EventsOnceInOrder
<1>11. UnacknowledgedMeansSilent'
  BY <1>1, <1>3, <1>4 DEF UnacknowledgedMeansSilent, Opened
<1> QED BY <1>5, <1>6, <1>8, <1>9, <1>10, <1>11 DEF IInv

(* RESUMED: the events after the cursor, in order.                         *)
LEMMA ResumeKept == ASSUME IInv, AcceptResume PROVE IInv'
<1>1. /\ TypeOK /\ RequestIsCurrent /\ SessionIsNewest
  BY DEF IInv
<1>2. /\ wire \in Seq(Frames \cup Events) /\ Len(wire) \in Nat /\ live \in Nat /\ log \in 0..MaxEvents
      /\ seq \in 0..MaxEvents
  BY <1>1 DEF TypeOK
<1> DEFINE n == log - seq
           more == [k \in 1..n |-> Event(live, seq + k)]
<1>3. /\ request.op = "resume" /\ wire' = wire \o [k \in 1..(log - request.after) |-> Event(live, request.after + k)]
      /\ attached' = TRUE /\ request' = NoRequest
      /\ UNCHANGED <<client, conn, owed, live, log, alive, refused, silent, faults>>
  BY DEF AcceptResume, Say, discord
<1>4. /\ pc = "frames" /\ session_id # None /\ session_id = live /\ request.after = seq
      /\ \A k \in 1..Len(wire) : wire[k].op \notin {"event", "invalid", "invalid_retry"}
      /\ seq <= log
  BY <1>1, <1>3 DEF RequestIsCurrent, SessionIsNewest
<1>5. wire' = wire \o more /\ n \in Nat
  BY <1>2, <1>3, <1>4
<1>6. /\ more \in Seq(Events) /\ Len(more) = n
      /\ \A k \in 1..n : /\ more[k].op = "event" /\ more[k].session = live /\ more[k].s = seq + k
  <2>1. \A k \in 1..n : Event(live, seq + k) \in Events /\ live \in 1..live /\ seq + k \in 1..MaxEvents
    <3>1. ASSUME NEW k \in 1..n PROVE live \in 1..live /\ seq + k \in 1..MaxEvents
      BY <1>2, <1>4, <1>5, GatewayAssumption DEF None
    <3> QED BY <3>1 DEF Events, Event
  <2>2. \A k \in 1..n : more[k] = Event(live, seq + k)
    OBVIOUS
  <2>3. more \in Seq(Events) /\ Len(more) = n
    BY <1>5, <2>1
  <2> QED BY <2>1, <2>2, <2>3 DEF Event
<1> HIDE DEF more, n
<1>7. /\ Len(wire') = Len(wire) + n
      /\ \A k \in 1..(Len(wire) + n) :
           wire'[k] = IF k <= Len(wire) THEN wire[k] ELSE more[k - Len(wire)]
  <2>1. more \in Seq(Frames \cup Events)
    BY <1>6
  <2>2. wire \in Seq(Frames \cup Events) /\ wire' = wire \o more /\ Len(more) = n
    BY <1>2, <1>5, <1>6
  <2>3. /\ Len(wire') = Len(wire) + Len(more)
        /\ \A k \in 1..(Len(wire) + Len(more)) :
             wire'[k] = IF k <= Len(wire) THEN wire[k] ELSE more[k - Len(wire)]
    BY <2>1, <2>2, Concatenated, Zenon
  <2> QED BY <2>2, <2>3
<1>8. ASSUME NEW k \in 1..Len(wire'), wire'[k].op = "event"
      PROVE  k > Len(wire) /\ k - Len(wire) \in 1..n /\ wire'[k].session = live
             /\ wire'[k].s = seq + (k - Len(wire))
  <2>1. k > Len(wire)
    BY <1>2, <1>4, <1>5, <1>7, <1>8
  <2>2. k - Len(wire) \in 1..n /\ wire'[k] = more[k - Len(wire)]
    BY <1>2, <1>5, <1>7, <2>1
  <2> QED BY <1>6, <2>1, <2>2
<1>9. ASSUME NEW k \in (Len(wire) + 1)..(Len(wire) + n)
      PROVE  k \in 1..Len(wire') /\ wire'[k].op = "event" /\ wire'[k].s = seq + (k - Len(wire))
  <2>1. k - Len(wire) \in 1..n /\ k \in 1..(Len(wire) + n) /\ ~(k <= Len(wire))
    BY <1>2, <1>5
  <2> QED BY <1>6, <1>7, <2>1
<1>10. WireGoesOn'
  <2>1. ASSUME NEW k \in 1..Len(wire'), wire'[k].op = "event"
        PROVE  /\ wire'[k].session = live' /\ seq' < wire'[k].s /\ wire'[k].s <= log'
               /\ \/ wire'[k].s = seq' + 1
                  \/ \E j \in 1..(k - 1) : wire'[j].op = "event" /\ wire'[j].s = wire'[k].s - 1
               /\ \A j \in 1..(k - 1) : wire'[j].op = "event" => wire'[j].s < wire'[k].s
    <3>1. seq' = seq /\ live' = live /\ log' = log
      BY <1>3 DEF client, cursor
    <3>2. k > Len(wire) /\ k - Len(wire) \in 1..n /\ wire'[k].session = live
          /\ wire'[k].s = seq + (k - Len(wire))
      BY <1>8, <2>1
    <3>3. seq < wire'[k].s /\ wire'[k].s <= log
      BY <1>2, <1>5, <3>2 DEF n
    <3>4. wire'[k].s = seq + 1 \/ \E j \in 1..(k - 1) : wire'[j].op = "event" /\ wire'[j].s = wire'[k].s - 1
      <4>1. CASE k = Len(wire) + 1
        BY <1>2, <3>2, <4>1
      <4>2. CASE k # Len(wire) + 1
        <5>1. k - 1 \in (Len(wire) + 1)..(Len(wire) + n) /\ k - 1 \in 1..(k - 1)
          BY <1>2, <1>5, <3>2, <4>2
        <5>2. wire'[k - 1].op = "event" /\ wire'[k - 1].s = seq + ((k - 1) - Len(wire))
          BY <1>9, <5>1
        <5>3. wire'[k - 1].s = wire'[k].s - 1
          BY <1>2, <3>2, <5>2
        <5> QED BY <5>1, <5>2, <5>3
      <4> QED BY <4>1, <4>2
    <3>5. ASSUME NEW j \in 1..(k - 1), wire'[j].op = "event" PROVE wire'[j].s < wire'[k].s
      <4>1. j \in 1..Len(wire')
        BY <1>2, <1>5, <1>7
      <4>2. wire'[j].s = seq + (j - Len(wire))
        BY <1>8, <3>5, <4>1
      <4> QED BY <1>2, <3>2, <4>2
    <3> QED BY <3>1, <3>2, <3>3, <3>4, <3>5
  <2>2. log' = seq' \/ \E k \in 1..Len(wire') : wire'[k].op = "event" /\ wire'[k].s = log'
    <3>1. seq' = seq /\ log' = log
      BY <1>3 DEF client, cursor
    <3>2. CASE n = 0
      BY <1>2, <3>1, <3>2 DEF n
    <3>3. CASE n # 0
      <4>1. Len(wire) + n \in (Len(wire) + 1)..(Len(wire) + n)
        BY <1>2, <1>5, <3>3
      <4>2. seq + ((Len(wire) + n) - Len(wire)) = log
        BY <1>2 DEF n
      <4> QED BY <1>9, <3>1, <4>1, <4>2
    <3> QED BY <3>2, <3>3
  <2> QED BY <2>1, <2>2 DEF WireGoesOn
<1>11. attached' \in BOOLEAN /\ attached'
  BY <1>3, Zenon
<1>12. log' \in log..MaxEvents
  BY <1>2, <1>3, GatewayAssumption
<1>13. live # None
  BY <1>4
<1>14. RequestIsCurrent'
  <2>1. request' \in [op : {"none", "identify", "resume"}, session : 0..live', after : 0..MaxEvents]
        /\ request'.op = "none" /\ pc' = pc
    BY <1>2, <1>3, GatewayAssumption DEF NoRequest, None, client
  <2> QED BY <1>4, <2>1 DEF RequestIsCurrent
<1> QED BY <1>3, <1>4, <1>5, <1>6, <1>10, <1>11, <1>12, <1>13, <1>14, EventsSaidKept

(* Something happens in the guild.                                         *)
LEMMA EmitKept == ASSUME IInv, Emit PROVE IInv'
<1>1. /\ TypeOK /\ RequestIsCurrent /\ SessionIsNewest /\ WireGoesOn
  BY DEF IInv
<1>2. /\ wire \in Seq(Frames \cup Events) /\ Len(wire) \in Nat /\ live \in Nat /\ log \in 0..MaxEvents
      /\ seq \in 0..MaxEvents /\ attached \in BOOLEAN
  BY <1>1 DEF TypeOK
<1>3. /\ live # None /\ log < MaxEvents /\ log' = log + 1 /\ attached' = attached /\ request' = request
      /\ UNCHANGED <<client, conn, owed, live, alive, refused, silent, faults>>
  BY DEF Emit
<1>4. pc' = pc /\ resuming' = resuming /\ session_id' = session_id /\ seq' = seq /\ live' = live
      /\ (Speaks' <=> Speaks)
  BY <1>3 DEF client, cursor, Speaks, Opened
<1>5. log' \in log..MaxEvents /\ live \in 1..live /\ log + 1 \in 1..MaxEvents /\ seq <= log
  BY <1>1, <1>2, <1>3, GatewayAssumption DEF None, SessionIsNewest
<1>6. CASE Speaks /\ attached
  <2> DEFINE e == Event(live, log + 1)
             more == <<e>>
  <2>1. wire' = wire \o more
    BY <1>3, <1>6 DEF Emit, Say
  <2>2. e \in Events /\ e.op = "event" /\ e.session = live /\ e.s = log + 1
    BY <1>5 DEF Events, Event
  <2>3. wire' = Append(wire, e)
    BY <1>2, <2>1
  <2> HIDE DEF e
  <2>4. /\ Len(wire') = Len(wire) + 1 /\ wire'[Len(wire) + 1] = e
        /\ \A k \in 1..Len(wire) : wire'[k] = wire[k]
    BY <1>2, <2>2, <2>3, WithOneMore
  <2>5. more \in Seq(Events)
    BY <2>2
  <2>6. pc = "frames" /\ request.op = "none"
    BY <1>1, <1>6 DEF RequestIsCurrent
  <2>7. RequestIsCurrent'
    BY <1>1, <1>3, <1>4, <2>6 DEF RequestIsCurrent
  <2>8. log = seq \/ \E k \in 1..Len(wire) : wire[k].op = "event" /\ wire[k].s = log
    BY <1>1, <1>6 DEF WireGoesOn
  <2>9. session_id # None \/ \E k \in 1..Len(wire) : wire[k].op = "event"
    <3>1. CASE \E k \in 1..Len(wire) : wire[k].op = "event"
      BY <3>1
    <3>2. CASE ~\E k \in 1..Len(wire) : wire[k].op = "event"
      <4>1. log = seq /\ log >= 1
        BY <1>1, <1>3, <2>8, <3>2 DEF SessionIsNewest
      <4>2. (session_id = None) = (seq = None)
        BY <1>1 DEF TypeOK
      <4> QED BY <4>1, <4>2 DEF None
    <3> QED BY <3>1, <3>2
  <2>10. WireGoesOn'
    <3>1. ASSUME NEW k \in 1..Len(wire'), wire'[k].op = "event"
          PROVE  /\ wire'[k].session = live' /\ seq' < wire'[k].s /\ wire'[k].s <= log'
                 /\ \/ wire'[k].s = seq' + 1
                    \/ \E j \in 1..(k - 1) : wire'[j].op = "event" /\ wire'[j].s = wire'[k].s - 1
                 /\ \A j \in 1..(k - 1) : wire'[j].op = "event" => wire'[j].s < wire'[k].s
      <4>1. CASE k = Len(wire) + 1
        <5>1. wire'[k] = e /\ \A j \in 1..(k - 1) : j \in 1..Len(wire) /\ wire'[j] = wire[j]
          BY <1>2, <2>4, <4>1
        <5>2. \A j \in 1..Len(wire) : wire[j].op = "event" => wire[j].s <= log /\ wire[j].s \in Nat
          <6>1. ASSUME NEW j \in 1..Len(wire), wire[j].op = "event" PROVE wire[j].s <= log /\ wire[j].s \in Nat
            <7>1. wire[j] \in Frames \cup Events
              BY <1>2
            <7>2. wire[j].s \in 1..MaxEvents
              BY <6>1, <7>1, FrameKinds
            <7> QED BY <1>1, <6>1, <7>2 DEF WireGoesOn
          <6> QED BY <6>1
        <5>3. e.s = seq + 1 \/ \E j \in 1..Len(wire) : wire[j].op = "event" /\ wire[j].s = e.s - 1
          BY <1>2, <2>2, <2>8
        <5>4. k - 1 = Len(wire)
          BY <1>2, <4>1
        <5>5. wire'[k].session = live' /\ seq' < wire'[k].s /\ wire'[k].s <= log'
          BY <1>2, <1>3, <1>4, <1>5, <2>2, <5>1
        <5>6. e.s = seq + 1 \/ \E j \in 1..(k - 1) : wire'[j].op = "event" /\ wire'[j].s = e.s - 1
          BY <5>1, <5>3, <5>4
        <5>7. \A j \in 1..(k - 1) : wire'[j].op = "event" => wire'[j].s < e.s
          BY <1>2, <2>2, <5>1, <5>2
        <5> QED BY <1>4, <5>1, <5>5, <5>6, <5>7
      <4>2. CASE k # Len(wire) + 1
        <5>1. k \in 1..Len(wire) /\ wire'[k] = wire[k] /\ \A j \in 1..(k - 1) : wire'[j] = wire[j]
          BY <1>2, <2>4, <4>2
        <5>2. /\ wire[k].session = live /\ seq < wire[k].s /\ wire[k].s <= log
              /\ \/ wire[k].s = seq + 1
                 \/ \E j \in 1..(k - 1) : wire[j].op = "event" /\ wire[j].s = wire[k].s - 1
              /\ \A j \in 1..(k - 1) : wire[j].op = "event" => wire[j].s < wire[k].s
          BY <1>1, <3>1, <5>1 DEF WireGoesOn
        <5>3. wire[k].s \in 1..MaxEvents
          <6>1. wire[k] \in Frames \cup Events
            BY <1>2, <5>1
          <6> QED BY <3>1, <5>1, <6>1, FrameKinds
        <5>4. wire[k].s <= log'
          BY <1>2, <1>3, <5>2, <5>3
        <5> QED BY <1>4, <5>1, <5>2, <5>4
      <4> QED BY <4>1, <4>2
    <3>2. Len(wire) + 1 \in 1..Len(wire') /\ wire'[Len(wire) + 1].op = "event"
          /\ wire'[Len(wire) + 1].s = log'
      BY <1>2, <1>3, <2>2, <2>4
    <3> QED BY <3>1, <3>2 DEF WireGoesOn
  <2> HIDE DEF more
  <2> QED BY <1>2, <1>3, <1>5, <2>1, <2>5, <2>7, <2>9, <2>10, EventsSaidKept
<1>7. CASE ~(Speaks /\ attached)
  <2> DEFINE more == <<>>
  <2>1. wire' = wire
    BY <1>3, <1>7 DEF Emit
  <2>2. wire' = wire \o more /\ more \in Seq(Events)
    BY <1>2, <2>1
  <2>3. RequestIsCurrent'
    BY <1>1, <1>3, <1>4, <2>1 DEF RequestIsCurrent
  <2>4. WireGoesOn'
    <3>1. ASSUME NEW k \in 1..Len(wire), wire[k].op = "event" PROVE wire[k].s <= log'
      <4>1. wire[k] \in Frames \cup Events
        BY <1>2
      <4>2. wire[k].s \in 1..MaxEvents
        BY <3>1, <4>1, FrameKinds
      <4> QED BY <1>1, <1>2, <1>3, <3>1, <4>2 DEF WireGoesOn
    <3>2. ~(attached' /\ Speaks')
      BY <1>3, <1>4, <1>7
    <3> QED BY <1>1, <1>4, <2>1, <3>1, <3>2 DEF WireGoesOn
  <2>5. more # <<>> => session_id # None \/ \E k \in 1..Len(wire) : wire[k].op = "event"
    OBVIOUS
  <2> HIDE DEF more
  <2> QED BY <1>2, <1>3, <1>5, <2>2, <2>3, <2>4, <2>5, EventsSaidKept
<1> QED BY <1>6, <1>7

-----------------------------------------------------------------------------
LEMMA InitInv == Init => IInv
<1> SUFFICES ASSUME Init PROVE IInv
  OBVIOUS
<1>1. TypeOK
  <2>1. /\ resuming \in BOOLEAN /\ acked \in BOOLEAN /\ stop_event \in BOOLEAN
        /\ alive \in BOOLEAN /\ attached \in BOOLEAN /\ silent \in BOOLEAN
    BY Zenon DEF Init
  <2>2. /\ (session_id = None) = (seq = None) /\ (heartbeat # "none") = (pc = "frames")
        /\ (conn = "closed") = (pc \notin {"hello", "frames"})
    BY DEF Init
  <2>3. wire \in Seq(Frames \cup Events) /\ request.op = "none"
    BY DEF Init, NoRequest
  <2>4. /\ attempts \in 0..(MaxExponent + 2) /\ identify_failures \in 0..MaxIdentifyFailures
        /\ session_id \in 0..live /\ seq \in 0..MaxEvents /\ owed \in 0..2 /\ live \in Nat
        /\ log \in 0..MaxEvents /\ faults \in 0..MaxFaults /\ refused \subseteq 1..live
        /\ streak \in 0..MaxIdentifyFailures
    BY GatewayAssumption DEF Init, None
  <2>5. pc = "loop" /\ last_error = "none" /\ heartbeat = "none" /\ conn = "closed"
    BY DEF Init
  <2> QED BY <2>1, <2>2, <2>3, <2>4, <2>5 DEF TypeOK
<1>2. LoopBounds /\ RequestIsCurrent
  BY GatewayAssumption DEF Init, LoopBounds, RequestIsCurrent, None, NoRequest
<1>3. SessionIsNewest /\ WireGoesOn /\ DeliveredToCursor
  BY DEF Init, SessionIsNewest, WireGoesOn, DeliveredToCursor, None
<1>4. EventsOnceInOrder /\ UnacknowledgedMeansSilent
  BY DEF Init, EventsOnceInOrder, UnacknowledgedMeansSilent, None
<1> QED BY <1>1, <1>2, <1>3, <1>4 DEF IInv

LEMMA InvariantKept == IInv /\ [Next]_vars => IInv'
<1> SUFFICES ASSUME IInv, [Next]_vars PROVE IInv'
  OBVIOUS
<1>1. CASE Start
  <2>1. Loop \/ BackoffEnds \/ Connect => IInv'
    BY LoopKept
  <2>2. ConnectFails \/ Reconnect \/ SocketClosed \/ NoHello => IInv'
    BY EndsKept DEF Ends
  <2>3. Hello \/ HeartbeatAck \/ HeartbeatRequested => IInv'
    BY ReadKept, EndsKept DEF Ends
  <2>4. Dispatch => IInv'
    BY DispatchKept
  <2>5. (\E d \in BOOLEAN : InvalidSession(d)) => IInv'
    BY EndsKept DEF Ends
  <2> QED BY <1>1, <2>1, <2>2, <2>3, <2>4, <2>5 DEF Start, Session
<1>2. CASE HeartbeatTick \/ Stop
  BY <1>2, SaidKept DEF Said
<1>3. CASE Discord
  <2>1. AcceptIdentify \/ AcceptResume \/ Emit => IInv'
    BY IdentifyKept, ResumeKept, EmitKept
  <2>2. RejectResume \/ RejectIdentify \/ (\E d \in BOOLEAN : Invalidate(d)) => IInv'
    BY RefusalKept
  <2>3. Expire \/ FallSilent => IInv'
    BY QuietKept
  <2>4. \/ SayHello \/ Acknowledge \/ SayNonsense \/ Reap
        \/ \E op \in {"heartbeat", "reconnect"} : Demand(op)
        \/ \E op \in Closes : ServerCloses(op)
        => IInv'
    BY SaidKept DEF Said
  <2> QED BY <1>3, <2>1, <2>2, <2>3, <2>4 DEF Discord, Answer
<1>4. CASE UNCHANGED vars
  <2>1. /\ UNCHANGED <<pc, loop_vars, cursor, resuming, acked, heartbeat, stop_event, conn, wire,
                       request, owed, discord, attached, silent, faults, delivered, streak>>
        /\ attempts' = attempts /\ identify_failures' = identify_failures /\ last_error' = last_error
        /\ session_id' = session_id /\ seq' = seq /\ live' = live /\ log' = log /\ alive' = alive
        /\ refused' = refused
    BY <1>4 DEF vars, loop_vars, cursor, discord
  <2>2. TypeOK'
    <3>1. TypeOK /\ Events' = Events
      BY <2>1 DEF IInv, Events
    <3>2. wire' \in Seq(Frames \cup Events)'
      BY <2>1, <3>1 DEF TypeOK, Frames
    <3> QED BY <2>1, <3>1, <3>2 DEF TypeOK
  <2>3. LoopBounds' /\ RequestIsCurrent' /\ SessionIsNewest'
    BY <2>1 DEF IInv, LoopBounds, RequestIsCurrent, SessionIsNewest
  <2>4. WireGoesOn' /\ DeliveredToCursor'
    BY <2>1 DEF IInv, WireGoesOn, DeliveredToCursor, Speaks, Opened
  <2>5. EventsOnceInOrder' /\ UnacknowledgedMeansSilent'
    BY <2>1 DEF IInv, EventsOnceInOrder, UnacknowledgedMeansSilent, Opened
  <2> QED BY <2>2, <2>3, <2>4, <2>5 DEF IInv
<1> QED BY <1>1, <1>2, <1>3, <1>4 DEF Next

LEMMA Always == Spec => []IInv
BY InitInv, InvariantKept, PTL DEF Spec

(* Every variable of the client keeps its type: the counters stay within   *)
(* the limits that end the loop, and the cursor is a session and an event  *)
(* number or neither (_realtime.py:100-130, 142-183).                      *)
THEOREM GatewayTypeCorrect == Spec => []TypeOK
<1>1. IInv => TypeOK
  BY DEF IInv
<1> QED BY Always, <1>1, PTL

(* However often the connection is lost, refused, closed or stopped,       *)
(* on_event sees each session's events once, in order and without a gap,   *)
(* and no session the client knows is replaced by another unless Discord   *)
(* sent an op 9 about it (_realtime.py:92-94, 246-258, 335-359).           *)
THEOREM EventsAreDeliveredOnceInOrder == Spec => []EventsOnceInOrder
<1>1. IInv => EventsOnceInOrder
  BY DEF IInv
<1> QED BY Always, <1>1, PTL

(* A connection is given up for a missing acknowledgement only when Discord*)
(* owes one or has fallen silent (_realtime.py:241-242, 281-282, 377-389). *)
THEOREM SilenceIsDiscords == Spec => []UnacknowledgedMeansSilent
<1>1. IInv => UnacknowledgedMeansSilent
  BY DEF IInv
<1> QED BY Always, <1>1, PTL

(* Every step of the client is one RealtimeChannel allows, or none.        *)
LEMMA StepRefines == [Next]_vars => [Channel!Next]_(Channel!vars)
<1> SUFFICES ASSUME [Next]_vars PROVE [Channel!Next]_(Channel!vars)
  OBVIOUS
<1>1. ASSUME pc' = pc, stop_event' = stop_event PROVE UNCHANGED Channel!vars
  BY <1>1 DEF Channel!vars, Link
<1>2. ASSUME stop_event' = stop_event, Link' \in Channel!After(Link, stop_event)
      PROVE  Channel!Next
  BY <1>2 DEF Channel!Next, Channel!Move
<1>3. CASE Loop \/ BackoffEnds
  <2>1. /\ stop_event' = stop_event /\ pc \in {"loop", "backoff"}
        /\ \/ pc' = "returned"
           \/ pc' = "raised" /\ ~stop_event
           \/ pc' = "backoff"
           \/ pc' = "connecting" /\ ~stop_event
    BY <1>3 DEF Loop, BackoffEnds
  <2>2. Link = "waiting" /\ (pc' = "backoff" => Link' = "waiting")
    BY <2>1 DEF Link
  <2>3. CASE pc' = "backoff"
    BY <2>1, <2>2, <2>3 DEF Channel!vars
  <2>4. CASE pc' # "backoff"
    <3>1. Link' = IF pc' = "connecting" THEN "connecting" ELSE "ended"
      BY <2>1, <2>4 DEF Link
    <3>2. Link' \in Channel!After(Link, stop_event)
      BY <2>1, <2>2, <2>4, <3>1 DEF Channel!After
    <3> QED BY <1>2, <2>1, <3>2
  <2> QED BY <2>3, <2>4
<1>4. CASE Connect
  <2>1. stop_event' = stop_event /\ Link = "connecting" /\ Link' = "open"
    BY <1>4 DEF Connect, Link
  <2> QED BY <1>2, <2>1 DEF Channel!After
<1>5. ASSUME NEW error, SessionFails(error), pc \in {"connecting", "hello", "frames"}
      PROVE  Channel!Next
  <2>1. stop_event' = stop_event /\ pc' \in {"loop", "returned"}
    BY <1>5 DEF SessionFails
  <2>2. Link \in {"connecting", "open"} /\ Link' \in {"waiting", "ended"}
    BY <1>5, <2>1 DEF Link
  <2> QED BY <1>2, <2>1, <2>2 DEF Channel!After
<1>6. CASE ConnectFails \/ NoHello \/ Reconnect \/ SocketClosed \/ \E d \in BOOLEAN : InvalidSession(d)
  BY <1>5, <1>6 DEF ConnectFails, NoHello, Reconnect, SocketClosed, InvalidSession, Receives
<1>7. CASE Hello
  <2>1. CASE Opened
    <3>1. pc = "hello" /\ pc' = "frames" /\ stop_event' = stop_event
      BY <1>7, <2>1 DEF Hello
    <3> QED BY <3>1 DEF Link, Channel!vars
  <2>2. CASE ~Opened
    BY <1>5, <1>7, <2>2 DEF Hello
  <2> QED BY <2>1, <2>2
<1>8. CASE HeartbeatRequested
  <2>1. CASE Opened
    BY <1>1, <1>8, <2>1 DEF HeartbeatRequested
  <2>2. CASE ~Opened
    BY <1>5, <1>8, <2>2 DEF HeartbeatRequested, Receives
  <2> QED BY <2>1, <2>2
<1>9. CASE Dispatch \/ HeartbeatAck \/ HeartbeatTick \/ UNCHANGED vars
  BY <1>1, <1>9 DEF Dispatch, HeartbeatAck, HeartbeatTick, vars
<1>10. CASE Stop
  <2>1. stop_event' = TRUE /\ Link' = Link
    BY <1>10 DEF Stop, Link
  <2> QED BY <2>1 DEF Channel!Next, Channel!Stop
<1>11. CASE Discord
  <2>1. UNCHANGED client
    BY <1>11
       DEF Discord, Answer, SayHello, SayNonsense, AcceptIdentify, RejectIdentify, AcceptResume,
           RejectResume, Emit, Acknowledge, Demand, Invalidate, ServerCloses, Reap, Expire,
           FallSilent
  <2> QED BY <1>1, <2>1 DEF client
<1> QED BY <1>3, <1>4, <1>6, <1>7, <1>8, <1>9, <1>10, <1>11 DEF Next, Start, Session

(* The Gateway client is a RealtimeChannel: it opens one connection after  *)
(* the other, and makes no further attempt once stop() was called          *)
(* (_realtime.py:140-147, serve/channel.py:105-133).                       *)
THEOREM GatewayIsAChannel == Spec => ImplementsChannel
<1>1. Init => Channel!Init
  BY DEF Init, Channel!Init, Link
<1> QED BY <1>1, StepRefines, PTL DEF Spec, ImplementsChannel, Channel!Spec
=============================================================================
