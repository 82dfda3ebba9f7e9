---------------------------- MODULE DiscordGateway ----------------------------
(***************************************************************************)
(* GatewayClient (serve/channels/_realtime.py): the reconnect loop start(),*)
(* one WebSocket session at a time, the heartbeat task beside it and       *)
(* stop(), which another task calls. Discord is external: it keeps one     *)
(* event log per session, replays it on RESUME, and may refuse, close,     *)
(* forget or fall silent at any time.                                      *)
(*                                                                         *)
(* The client's tasks share one event loop, so each action runs from one   *)
(* await to the next.                                                      *)
(***************************************************************************)
EXTENDS Integers, Sequences

CONSTANTS
  MaxIdentifyFailures, \* max_identify_failures (default 10)
  MaxExponent,         \* largest e for which float(2 ** e) exists (1023)
  MaxEvents,           \* bound: events Discord logs per session
  MaxFaults            \* bound: refusals, closes, expiries, silences and other
                       \* demands of Discord in a behaviour

ASSUME GatewayAssumption ==
  /\ MaxIdentifyFailures \in Nat \ {0} /\ MaxExponent \in Nat
  /\ MaxEvents \in Nat \ {0} /\ MaxFaults \in Nat

VARIABLES
  pc,                \* where start() is
  attempts, identify_failures, last_error,
  session_id, seq,   \* the resume cursor; 0 stands for None
  resuming,          \* this session opened with RESUME
  acked,             \* _heartbeat_acked
  heartbeat,         \* the heartbeat task: "none", "sleeping" or "ended"
  stop_event,
  conn, wire,        \* the socket, and the frames the client has yet to read
  request,           \* the IDENTIFY or RESUME Discord has yet to answer
  owed,              \* heartbeats Discord has yet to acknowledge
  live, log, alive,  \* Discord's newest session, its events, can it be resumed
  attached,          \* the connection carries that session's events
  silent,            \* Discord answers nothing more on this connection
  faults,
  delivered,         \* history: what on_event was called with
  refused,           \* history: sessions Discord sent an op 9 about
  streak             \* history: IDENTIFY rejections since the last READY

loop_vars == <<attempts, identify_failures, last_error>>
cursor == <<session_id, seq>>
discord == <<live, log, alive, refused>>
vars == <<pc, loop_vars, cursor, resuming, acked, heartbeat, stop_event, conn, wire,
          request, owed, discord, attached, silent, faults, delivered, streak>>

None == 0
NoRequest == [op |-> "none", session |-> None, after |-> 0]
Event(sid, s) == [op |-> "event", session |-> sid, s |-> s]
Frame(op) == [op |-> op]
Closes == {"closed_ok", "closed_error"}

-----------------------------------------------------------------------------
(* The socket.                                                             *)

Opened == conn = "open"

(* Frames received ahead of the close stay readable.                       *)
CloseWith(op) ==
  /\ wire' = IF Opened THEN Append(wire, Frame(op)) ELSE wire
  /\ conn' = IF Opened THEN "closing" ELSE conn

Disconnected ==
  /\ conn' = "closed" /\ wire' = <<>> /\ request' = NoRequest /\ owed' = 0
  /\ attached' = FALSE /\ silent' = FALSE

-----------------------------------------------------------------------------
(* The reconnect loop.                                                     *)

Loop ==
  /\ pc = "loop"
  /\ pc' = IF stop_event THEN "returned"
           ELSE IF attempts = 0 THEN "connecting"
           ELSE IF attempts - 1 > MaxExponent THEN "raised"
           ELSE "backoff"
  /\ UNCHANGED <<loop_vars, cursor, resuming, acked, heartbeat, stop_event, conn, wire,
                 request, owed, discord, attached, silent, faults, delivered, streak>>

(* Mutant: stop() is not looked for after the wait.                        *)
BackoffGoesOn ==
  /\ pc = "backoff" /\ pc' = "connecting"
  /\ UNCHANGED <<loop_vars, cursor, resuming, acked, heartbeat, stop_event, conn, wire,
                 request, owed, discord, attached, silent, faults, delivered, streak>>

BackoffEnds ==
  /\ pc = "backoff"
  /\ pc' = IF stop_event THEN "returned" ELSE "connecting"
  /\ UNCHANGED <<loop_vars, cursor, resuming, acked, heartbeat, stop_event, conn, wire,
                 request, owed, discord, attached, silent, faults, delivered, streak>>

(* Mutant: one rejection too many.                                         *)
OneMoreRejection(failures) == failures > MaxIdentifyFailures

GivesUp(failures) == failures >= MaxIdentifyFailures

(* A session always ends in an exception; its finally clause has reaped    *)
(* the heartbeat task and dropped the socket before the loop sees it.      *)
SessionFails(error) ==
  /\ last_error' = error
  /\ heartbeat' = "none"
  /\ Disconnected
  /\ IF error = "identify_rejected"
     THEN /\ identify_failures' = identify_failures + 1
          /\ IF GivesUp(identify_failures')
             THEN pc' = "returned" /\ UNCHANGED attempts
             ELSE pc' = "loop" /\ attempts' = attempts + 1
     ELSE pc' = "loop" /\ attempts' = attempts + 1 /\ UNCHANGED identify_failures
  /\ UNCHANGED stop_event

Connect ==
  /\ pc = "connecting"
  /\ pc' = "hello" /\ conn' = "open"
  /\ UNCHANGED <<loop_vars, cursor, resuming, acked, heartbeat, stop_event, wire, request,
                 owed, discord, attached, silent, faults, delivered, streak>>

ConnectFails ==
  /\ pc = "connecting" /\ faults < MaxFaults
  /\ SessionFails("other")
  /\ faults' = faults + 1
  /\ UNCHANGED <<resuming, acked, cursor, discord, delivered, streak>>

-----------------------------------------------------------------------------
(* One session.                                                            *)

(* Mutant: the flag keeps what the last session left in it.                *)
StaleAck == acked

AckedAtHello == TRUE

(* HELLO: the heartbeat task starts and the session is resumed if there is *)
(* one to resume; sending that on a closed socket raises.                  *)
Hello ==
  /\ pc = "hello" /\ wire # <<>> /\ Head(wire).op = "hello"
  /\ acked' = AckedAtHello
  /\ resuming' = (session_id # None /\ seq # None)
  /\ IF Opened
     THEN /\ pc' = "frames" /\ wire' = Tail(wire) /\ heartbeat' = "sleeping"
          /\ request' = IF resuming'
                        THEN [op |-> "resume", session |-> session_id, after |-> seq]
                        ELSE [op |-> "identify", session |-> None, after |-> 0]
          /\ UNCHANGED <<loop_vars, stop_event, conn, owed, attached, silent>>
     ELSE SessionFails("other")
  /\ UNCHANGED <<cursor, discord, faults, delivered, streak>>

(* A first frame that is no HELLO, or whose interval is out of bounds, is  *)
(* resumable; a socket closed ahead of it, even by stop(), is an error.    *)
NoHello ==
  /\ pc = "hello" /\ wire # <<>> /\ Head(wire).op # "hello"
  /\ SessionFails(IF Head(wire).op \in Closes THEN "other" ELSE "resumable")
  /\ UNCHANGED <<resuming, acked, cursor, discord, faults, delivered, streak>>

Receives(op) == pc = "frames" /\ wire # <<>> /\ Head(wire).op = op

(* Mutant: the cursor stays at the first event it saw.                     *)
FirstSeqOnly(frame) == IF seq = None THEN frame.s ELSE seq

SeqAfter(frame) == frame.s

(* READY, the first event of a session, names it.                          *)
SessionAfter(frame) == IF frame.s = 1 THEN frame.session ELSE session_id

Dispatch ==
  /\ Receives("event")
  /\ LET frame == Head(wire)
     IN  /\ seq' = SeqAfter(frame)
         /\ session_id' = SessionAfter(frame)
         /\ delivered' = Append(delivered, <<frame.session, frame.s>>)
         /\ streak' = IF frame.s = 1 THEN 0 ELSE streak
  /\ wire' = Tail(wire)
  /\ UNCHANGED <<pc, loop_vars, resuming, acked, heartbeat, stop_event, conn, request,
                 owed, discord, attached, silent, faults>>

HeartbeatAck ==
  /\ Receives("ack")
  /\ acked' = TRUE /\ wire' = Tail(wire)
  /\ UNCHANGED <<pc, loop_vars, cursor, resuming, heartbeat, stop_event, conn, request,
                 owed, discord, attached, silent, faults, delivered, streak>>

(* Two heartbeats without an answer stand for any more.                    *)
SendHeartbeat == owed' = IF owed < 2 THEN owed + 1 ELSE owed

(* Discord asks for a heartbeat at once; a send on a closed socket raises. *)
HeartbeatRequested ==
  /\ Receives("heartbeat")
  /\ IF Opened
     THEN /\ wire' = Tail(wire) /\ SendHeartbeat
          /\ UNCHANGED <<pc, loop_vars, heartbeat, stop_event, conn, request, attached,
                         silent>>
     ELSE SessionFails("other")
  /\ UNCHANGED <<resuming, acked, cursor, discord, faults, delivered, streak>>

(* Mutant: a requested reconnect starts from a fresh IDENTIFY.             *)
ReconnectAfresh ==
  /\ Receives("reconnect")
  /\ session_id' = None /\ seq' = None
  /\ SessionFails("resumable")
  /\ UNCHANGED <<resuming, acked, discord, faults, delivered, streak>>

Reconnect ==
  /\ Receives("reconnect")
  /\ SessionFails("resumable")
  /\ UNCHANGED <<resuming, acked, cursor, discord, faults, delivered, streak>>

(* Mutant: the rejected session stays the one to resume.                   *)
NeverForgets(d) == TRUE

(* Only the rejection of a session this connection identified itself       *)
(* leaves the cursor alone.                                                *)
KeepsCursor(d) == ~d /\ ~resuming

InvalidSession(d) ==
  /\ Receives(IF d THEN "invalid_retry" ELSE "invalid")
  /\ session_id' = IF KeepsCursor(d) THEN session_id ELSE None
  /\ seq' = IF KeepsCursor(d) THEN seq ELSE None
  /\ IF d \/ resuming
     THEN SessionFails("resumable") /\ UNCHANGED streak
     ELSE SessionFails("identify_rejected") /\ streak' = streak + 1
  /\ UNCHANGED <<resuming, acked, discord, faults, delivered>>

(* A normal close exhausts the iterator, any other raises ConnectionClosed.*)
SocketClosed ==
  /\ \/ Receives("closed_ok") /\ SessionFails("resumable")
     \/ Receives("closed_error") /\ SessionFails("other")
  /\ UNCHANGED <<resuming, acked, cursor, discord, faults, delivered, streak>>

-----------------------------------------------------------------------------
(* The heartbeat task and stop().                                          *)

AckMissed == ~acked

(* Mutant: the heartbeat goes on after stop(), so Discord keeps a          *)
(* connection stop() could not close.                                      *)
BeatsOn == FALSE

HeartbeatStops == stop_event

(* An acknowledgement takes less than the heartbeat interval: one that     *)
(* comes later is a Discord that fell silent.                              *)
IntervalOver ==
  silent \/ (owed = 0 /\ \A k \in 1..Len(wire) : wire[k].op # "ack")

HeartbeatTick ==
  /\ pc = "frames" /\ heartbeat = "sleeping" /\ IntervalOver
  /\ \/ /\ HeartbeatStops
        /\ heartbeat' = "ended" /\ UNCHANGED <<acked, conn, wire, owed>>
     \/ /\ ~HeartbeatStops /\ AckMissed
        /\ heartbeat' = "ended" /\ CloseWith("closed_error") /\ UNCHANGED <<acked, owed>>
     \/ /\ ~HeartbeatStops /\ ~AckMissed
        /\ acked' = FALSE
        /\ IF Opened THEN SendHeartbeat /\ UNCHANGED heartbeat
                     ELSE heartbeat' = "ended" /\ UNCHANGED owed
        /\ UNCHANGED <<conn, wire>>
  /\ UNCHANGED <<pc, loop_vars, cursor, resuming, stop_event, request, discord, attached,
                 silent, faults, delivered, streak>>

(* stop() closes the socket only if connect() has returned one.            *)
Stop ==
  /\ ~stop_event
  /\ stop_event' = TRUE
  /\ IF pc \in {"hello", "frames"} THEN CloseWith("closed_ok") ELSE UNCHANGED <<conn, wire>>
  /\ UNCHANGED <<pc, loop_vars, cursor, resuming, acked, heartbeat, request, owed, discord,
                 attached, silent, faults, delivered, streak>>

-----------------------------------------------------------------------------
(* Discord.                                                                *)

client == <<pc, loop_vars, cursor, resuming, acked, heartbeat, stop_event, delivered, streak>>

Speaks == Opened /\ ~silent
Say(frames) == wire' = wire \o frames
Fault == faults < MaxFaults /\ faults' = faults + 1

SayHello ==
  /\ Speaks /\ pc = "hello" /\ wire = <<>>
  /\ Say(<<Frame("hello")>>)
  /\ UNCHANGED <<client, conn, request, owed, discord, attached, silent, faults>>

SayNonsense ==
  /\ Speaks /\ pc = "hello" /\ wire = <<>> /\ Fault
  /\ Say(<<Frame("nonsense")>>)
  /\ UNCHANGED <<client, conn, request, owed, discord, attached, silent>>

AcceptIdentify ==
  /\ Speaks /\ request.op = "identify"
  /\ live' = live + 1 /\ log' = 1 /\ alive' = TRUE
  /\ Say(<<Event(live', 1)>>)
  /\ attached' = TRUE /\ request' = NoRequest
  /\ UNCHANGED <<client, conn, owed, refused, silent, faults>>

RejectIdentify ==
  /\ Speaks /\ request.op = "identify" /\ Fault
  /\ Say(<<Frame("invalid")>>) /\ request' = NoRequest
  /\ UNCHANGED <<client, conn, owed, discord, attached, silent>>

Resumable == alive /\ request.session = live

AcceptResume ==
  /\ Speaks /\ request.op = "resume" /\ Resumable
  /\ Say([k \in 1..(log - request.after) |-> Event(live, request.after + k)])
  /\ attached' = TRUE /\ request' = NoRequest
  /\ UNCHANGED <<client, conn, owed, discord, silent, faults>>

RejectResume ==
  /\ Speaks /\ request.op = "resume" /\ ~Resumable
  /\ Say(<<Frame("invalid")>>) /\ request' = NoRequest
  /\ refused' = refused \cup {request.session}
  /\ UNCHANGED <<client, conn, owed, live, log, alive, attached, silent, faults>>

(* Something happens in the guild, whether or not the client is listening. *)
Emit ==
  /\ live # None /\ alive /\ log < MaxEvents
  /\ log' = log + 1
  /\ IF Speaks /\ attached THEN Say(<<Event(live, log')>>) ELSE UNCHANGED wire
  /\ UNCHANGED <<client, conn, request, owed, live, alive, refused, attached, silent, faults>>

Acknowledge ==
  /\ Speaks /\ owed > 0
  /\ owed' = owed - 1 /\ Say(<<Frame("ack")>>)
  /\ UNCHANGED <<client, conn, request, discord, attached, silent, faults>>

Demand(op) ==
  /\ Speaks /\ attached /\ Fault
  /\ Say(<<Frame(op)>>)
  /\ UNCHANGED <<client, conn, request, owed, discord, attached, silent>>

(* An op 9 for an established session: d = false says it cannot be resumed.*)
Invalidate(d) ==
  /\ Speaks /\ attached /\ Fault
  /\ Say(<<Frame(IF d THEN "invalid_retry" ELSE "invalid")>>)
  /\ refused' = refused \cup {live}
  /\ alive' = (alive /\ d) /\ attached' = FALSE
  /\ UNCHANGED <<client, conn, request, owed, live, log, silent>>

ServerCloses(op) ==
  /\ Opened /\ Fault /\ CloseWith(op)
  /\ UNCHANGED <<client, request, owed, discord, attached, silent>>

(* A connection that sends no heartbeats is closed in the end.             *)
Reap ==
  /\ Opened /\ stop_event /\ heartbeat # "sleeping"
  /\ CloseWith("closed_error")
  /\ UNCHANGED <<client, request, owed, discord, attached, silent, faults>>

Expire ==
  /\ ~attached /\ alive /\ Fault
  /\ alive' = FALSE
  /\ UNCHANGED <<client, conn, wire, request, owed, live, log, refused, attached, silent>>

FallSilent ==
  /\ Speaks /\ pc = "frames" /\ Fault
  /\ silent' = TRUE
  /\ UNCHANGED <<client, conn, wire, request, owed, discord, attached>>

-----------------------------------------------------------------------------
Init ==
  /\ pc = "loop" /\ attempts = 0 /\ identify_failures = 0 /\ last_error = "none"
  /\ session_id = None /\ seq = None /\ resuming = FALSE
  /\ acked = TRUE /\ heartbeat = "none" /\ stop_event = FALSE
  /\ conn = "closed" /\ wire = <<>> /\ request = NoRequest /\ owed = 0
  /\ live = None /\ log = 0 /\ alive = FALSE /\ attached = FALSE /\ silent = FALSE
  /\ faults = 0 /\ delivered = <<>> /\ refused = {} /\ streak = 0

Session ==
  \/ Hello \/ NoHello \/ Dispatch \/ HeartbeatAck \/ HeartbeatRequested
  \/ Reconnect \/ SocketClosed
  \/ \E d \in BOOLEAN : InvalidSession(d)

Start == Loop \/ BackoffEnds \/ Connect \/ ConnectFails \/ Session

Answer == AcceptIdentify \/ AcceptResume \/ RejectResume

Discord ==
  \/ SayHello \/ Answer \/ Acknowledge \/ SayNonsense \/ RejectIdentify \/ Emit \/ Reap \/ Expire \/ FallSilent
  \/ \E op \in {"heartbeat", "reconnect"} : Demand(op)
  \/ \E d \in BOOLEAN : Invalidate(d)
  \/ \E op \in Closes : ServerCloses(op)

Next == Start \/ HeartbeatTick \/ Stop \/ Discord

(* The event loop runs every ready task and fires every timer; Discord     *)
(* answers what it has not refused. Nothing obliges stop(), faults or      *)
(* events to happen.                                                       *)
Fairness ==
  /\ WF_vars(Loop) /\ WF_vars(BackoffEnds) /\ WF_vars(Connect) /\ WF_vars(Session)
  /\ WF_vars(HeartbeatTick)
  /\ WF_vars(SayHello) /\ WF_vars(Answer) /\ WF_vars(Acknowledge) /\ WF_vars(Reap)

Spec == Init /\ [][Next]_vars /\ Fairness
-----------------------------------------------------------------------------
(* Properties.                                                             *)

Frames == {Frame(op) : op \in Closes \cup {"hello", "nonsense", "ack", "heartbeat",
                                           "reconnect", "invalid", "invalid_retry"}}
Events == {Event(sid, s) : sid \in 1..live, s \in 1..MaxEvents}

(* Every variable keeps its type: the counters stay within the limits that *)
(* end the loop, and a cursor is a session and an event number or neither. *)
TypeOK ==
  /\ pc \in {"loop", "backoff", "connecting", "hello", "frames", "returned", "raised"}
  /\ attempts \in 0..(MaxExponent + 2)
  /\ identify_failures \in 0..MaxIdentifyFailures
  /\ last_error \in {"none", "identify_rejected", "resumable", "other"}
  /\ session_id \in 0..live /\ seq \in 0..MaxEvents
  /\ (session_id = None) = (seq = None)
  /\ resuming \in BOOLEAN /\ acked \in BOOLEAN /\ stop_event \in BOOLEAN
  /\ heartbeat \in {"none", "sleeping", "ended"}
  /\ (heartbeat # "none") = (pc = "frames")
  /\ conn \in {"closed", "open", "closing"} /\ wire \in Seq(Frames \cup Events)
  /\ (conn = "closed") = (pc \notin {"hello", "frames"})
  /\ request.op \in {"none", "identify", "resume"} /\ owed \in 0..2
  /\ live \in Nat /\ log \in 0..MaxEvents /\ alive \in BOOLEAN
  /\ attached \in BOOLEAN /\ silent \in BOOLEAN /\ faults \in 0..MaxFaults
  /\ refused \subseteq 1..live /\ streak \in 0..MaxIdentifyFailures

(* Across any number of reconnects on_event sees each session's events     *)
(* once and in Discord's order, with none missing in between; and a session*)
(* the client knows is replaced by a new one, and its unread events lost,  *)
(* only after Discord sent an op 9 about it: no drop, missed heartbeat or  *)
(* requested reconnect costs events (_realtime.py:92-94, 246-258, 335-359).*)
EventsOnceInOrder ==
  /\ \A j \in 1..Len(delivered) :
       /\ \A i \in 1..(j - 1) : delivered[i] # delivered[j]
       /\ delivered[j][2] > 1 =>
            \E i \in 1..(j - 1) : delivered[i] = <<delivered[j][1], delivered[j][2] - 1>>
  /\ \A k \in 1..(live - 1) :
       (\E i \in 1..Len(delivered) : delivered[i] = <<k, 1>>) => k \in refused

(* While a heartbeat is unacknowledged its acknowledgement is on the way,  *)
(* unless Discord fell silent: a connection is never given up for an       *)
(* acknowledgement that arrived or that belongs to an earlier connection   *)
(* (_realtime.py:241-242, 281-282, 377-389).                               *)
UnacknowledgedMeansSilent ==
  heartbeat = "sleeping" /\ Opened /\ ~acked =>
    silent \/ owed > 0 \/ \E k \in 1..Len(wire) : wire[k].op = "ack"

(* Whatever happened, once the faults cease the client is served again,    *)
(* unless start() has returned (_realtime.py:142-183, 291-310).            *)
AlwaysReattaches == []<>((attached /\ ~silent) \/ pc = "returned")

(* After stop() the coroutine comes to its end, also when stop() found no  *)
(* socket to close because the connection was still being made             *)
(* (_realtime.py:195-204).                                                 *)
StopEnds == stop_event ~> pc = "returned"

(* The client is a RealtimeChannel: stop() may come while it is connecting,*)
(* but once it has come no further attempt to connect is made              *)
(* (_realtime.py:140-147, serve/channel.py:105-133).                       *)
Link == CASE pc \in {"loop", "backoff"} -> "waiting"
          [] pc = "connecting" -> "connecting"
          [] pc \in {"hello", "frames"} -> "open"
          [] pc \in {"returned", "raised"} -> "ended"
Channel == INSTANCE RealtimeChannel WITH link <- Link, stop <- stop_event
ImplementsChannel == Channel!Spec

-----------------------------------------------------------------------------
(* What the documentation says, and the client does not do.                *)

(* _realtime.py:84-86: start() returns "when stop() is called or 10        *)
(* consecutive IDENTIFY rejections accumulate".                            *)
GivesUpAfterConsecutiveRejections ==
  pc = "returned" /\ ~stop_event => streak >= MaxIdentifyFailures
=============================================================================
