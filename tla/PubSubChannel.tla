---------------------------- MODULE PubSubChannel ----------------------------
(***************************************************************************)
(* GoogleChatPubSubChannel (serve/channels/googlechat.py): connect() keeps *)
(* a streaming pull open on the event loop, the client library calls       *)
(* _on_message on threads of its own, and disconnect(), receive() and      *)
(* send() run beside them. Google Pub/Sub and the library are external:    *)
(* they deliver at least once, end or fail the pull, and redeliver what    *)
(* was nacked or whose ack was lost.                                       *)
(*                                                                         *)
(* Code on the event loop runs from one await to the next, except that a   *)
(* callback thread may take the interpreter between any two of its steps.  *)
(***************************************************************************)
EXTENDS Integers, Sequences

CONSTANTS
  Good, Bad,    \* messages that hold a JSON object, and those that do not
  MaxFailures,  \* _MAX_CONSECUTIVE_FAILURES (10)
  QueueMax,     \* queue_maxlen, 0 for none
  MaxTroubles   \* bound: failed or ended pulls, failed enqueues, lost acks

ASSUME PubSubAssumption == MaxFailures \in Nat \ {0} /\ {QueueMax, MaxTroubles} \subseteq Nat

Message == Good \cup Bad

VARIABLES
  pc,            \* where connect() is
  attempts, last_error,
  success_since_last_failure,
  disconnected,  \* _disconnected
  subscriber,    \* _subscriber is set
  open_clients,  \* SubscriberClients not closed
  future,        \* _pull_future: none, or how the newest pull stands
  app,           \* _app is bound
  sends,         \* what the last send() did
  stage,         \* message -> how far Pub/Sub and the callback are with it
  queue, received,
  pushed_out,    \* history: messages a full queue dropped for a newer one
  troubles,
  succeeded,     \* history: a callback finished since the last failure was handled
  failures       \* history: failures handled since then

connecting == <<pc, attempts, last_error>>
library == <<subscriber, open_clients, future>>
outbound == <<app, sends>>
inbound == <<stage, queue, received, pushed_out>>
vars == <<connecting, success_since_last_failure, disconnected, library, outbound,
          inbound, troubles, succeeded, failures>>

Ended == {"returned", "cancelled"}
Holds(s, m) == \E k \in 1..Len(s) : s[k] = m
Trouble == troubles < MaxTroubles /\ troubles' = troubles + 1

-----------------------------------------------------------------------------
(* connect().                                                              *)

(* _close_subscriber: closed once, then forgotten.                         *)
CloseSubscriber ==
  /\ subscriber' = FALSE
  /\ open_clients' = IF subscriber THEN open_clients - 1 ELSE open_clients

(* The lifespan creates the task; the event loop starts it later.          *)
Start ==
  /\ pc = "created" /\ pc' = "loop"
  /\ UNCHANGED <<attempts, last_error, success_since_last_failure, disconnected, library,
                 outbound, inbound, troubles, succeeded, failures>>

(* Mutant: the loop does not look for disconnect().                        *)
SubscribeAnyway ==
  /\ pc = "loop"
  /\ pc' = "pull"
  /\ subscriber' = TRUE /\ open_clients' = open_clients + 1 /\ future' = "running"
  /\ UNCHANGED <<attempts, last_error, success_since_last_failure, disconnected, outbound,
                 inbound, troubles, succeeded, failures>>

Subscribe ==
  /\ pc = "loop" /\ ~disconnected
  /\ pc' = "pull"
  /\ subscriber' = TRUE /\ open_clients' = open_clients + 1 /\ future' = "running"
  /\ UNCHANGED <<attempts, last_error, success_since_last_failure, disconnected, outbound,
                 inbound, troubles, succeeded, failures>>

(* Building the client (credentials) or subscribing with it raises.        *)
SubscribeFails ==
  /\ pc = "loop" /\ ~disconnected /\ Trouble
  /\ pc' = "failed" /\ last_error' = TRUE
  /\ \/ subscriber' = TRUE /\ open_clients' = open_clients + 1 /\ UNCHANGED future
     \/ UNCHANGED library
  /\ UNCHANGED <<attempts, success_since_last_failure, disconnected, outbound, inbound,
                 succeeded, failures>>

LoopEnds ==
  /\ pc = "loop" /\ disconnected
  /\ pc' = "returned"
  /\ UNCHANGED <<attempts, last_error, success_since_last_failure, disconnected, library,
                 outbound, inbound, troubles, succeeded, failures>>

(* Mutant: only a failed pull has its client closed.                       *)
LeakClient == UNCHANGED <<subscriber, open_clients>>

CloseAfterPull == CloseSubscriber

(* result() returned: the pull was cancelled, or ended on its own and is   *)
(* opened again at once.                                                   *)
PullReturns ==
  /\ pc = "pull" /\ future \in {"cancelled", "ended"}
  /\ attempts' = 0 /\ failures' = 0
  /\ pc' = IF disconnected THEN "returned" ELSE "loop"
  /\ CloseAfterPull
  /\ UNCHANGED <<last_error, success_since_last_failure, disconnected, future, outbound,
                 inbound, troubles, succeeded>>

PullFails ==
  /\ pc = "pull" /\ future = "failed"
  /\ pc' = "failed" /\ last_error' = TRUE
  /\ UNCHANGED <<attempts, success_since_last_failure, disconnected, library, outbound,
                 inbound, troubles, succeeded, failures>>

(* The failure handler reads the flag ...                                  *)
ReadFlag ==
  /\ pc = "failed"
  /\ IF success_since_last_failure
     THEN attempts' = 0 /\ pc' = "clear_flag"
     ELSE pc' = "count" /\ UNCHANGED attempts
  /\ succeeded' = FALSE
  /\ failures' = IF succeeded THEN 1 ELSE failures + 1
  /\ UNCHANGED <<last_error, success_since_last_failure, disconnected, library, outbound,
                 inbound, troubles>>

(* Mutant: the flag is not consumed.                                       *)
KeepFlag == success_since_last_failure

FlagAfterReset == FALSE

(* ... and consumes it in a step of its own.                               *)
ClearFlag ==
  /\ pc = "clear_flag"
  /\ success_since_last_failure' = FlagAfterReset
  /\ pc' = "count"
  /\ UNCHANGED <<attempts, last_error, disconnected, library, outbound, inbound, troubles,
                 succeeded, failures>>

(* Mutant: one failure too many.                                           *)
OneMoreFailure(n) == n > MaxFailures

TooMany(n) == n >= MaxFailures

CountFailure ==
  /\ pc = "count"
  /\ attempts' = attempts + 1
  /\ IF TooMany(attempts')
     THEN pc' = "returned" /\ CloseSubscriber
     ELSE pc' = "backoff" /\ UNCHANGED <<subscriber, open_clients>>
  /\ UNCHANGED <<last_error, success_since_last_failure, disconnected, future, outbound,
                 inbound, troubles, succeeded, failures>>

(* The client of the failed pull stays open through the wait.              *)
BackoffEnds ==
  /\ pc = "backoff"
  /\ pc' = "loop" /\ CloseSubscriber
  /\ UNCHANGED <<attempts, last_error, success_since_last_failure, disconnected, future,
                 outbound, inbound, troubles, succeeded, failures>>

(* The lifespan cancels the task after disconnect(); CancelledError leaves *)
(* connect() through the finally clause.                                   *)
Cancel ==
  /\ pc \in {"pull", "backoff"} /\ disconnected
  /\ pc' = "cancelled" /\ CloseSubscriber
  /\ UNCHANGED <<attempts, last_error, success_since_last_failure, disconnected, future,
                 outbound, inbound, troubles, succeeded, failures>>

-----------------------------------------------------------------------------
(* disconnect(), receive(), send().                                        *)

(* Mutant: disconnect() leaves the pull running.                           *)
PullGoesOn == future

PullAfterDisconnect == IF future = "running" THEN "cancelled" ELSE future

Disconnect ==
  /\ ~disconnected
  /\ disconnected' = TRUE
  /\ future' = PullAfterDisconnect
  /\ CloseSubscriber
  /\ UNCHANGED <<connecting, success_since_last_failure, outbound, inbound, troubles,
                 succeeded, failures>>

Receive ==
  /\ queue # <<>>
  /\ received' = received \cup {Head(queue)} /\ queue' = Tail(queue)
  /\ UNCHANGED <<connecting, success_since_last_failure, disconnected, library, outbound,
                 stage, pushed_out, troubles, succeeded, failures>>

(* The default space is always set. Nothing in the package binds _app.     *)
Send ==
  /\ sends' = IF app THEN "posted" ELSE "no_client"
  /\ UNCHANGED <<connecting, success_since_last_failure, disconnected, library, app,
                 inbound, troubles, succeeded, failures>>

-----------------------------------------------------------------------------
(* _on_message, on a thread of the client library.                         *)

At(m, s) == stage[m] = s
Move(m, s) == stage' = [stage EXCEPT ![m] = s]

(* append() on a deque with a maxlen drops the oldest entry of a full one. *)
Enqueue(m) ==
  LET full == QueueMax # 0 /\ Len(queue) = QueueMax
  IN /\ queue' = Append(IF full THEN Tail(queue) ELSE queue, m)
     /\ pushed_out' = IF full THEN pushed_out \cup {Head(queue)} ELSE pushed_out

(* Mutant: a message that could not be queued is neither acked nor nacked. *)
Forgotten == "stuck"

Nacked == "published"

(* Mutant: acked first, queued after.                                      *)
AckThenAppend(m) ==
  \/ At(m, "called") /\ Move(m, "acked")
       /\ UNCHANGED <<queue, pushed_out, success_since_last_failure>>
  \/ At(m, "acked") /\ Move(m, "done") /\ Enqueue(m) /\ success_since_last_failure' = TRUE

(* A message that parsed is queued, then acked, then counted.              *)
AppendThenAck(m) ==
  \/ At(m, "called") /\ Move(m, "appended") /\ Enqueue(m) /\ UNCHANGED success_since_last_failure
  \/ At(m, "appended") /\ Move(m, "acked")
       /\ UNCHANGED <<queue, pushed_out, success_since_last_failure>>
  \/ At(m, "acked") /\ Move(m, "done") /\ success_since_last_failure' = TRUE
       /\ UNCHANGED <<queue, pushed_out>>

OnGoodMessage(m) ==
  /\ m \in Good
  /\ AppendThenAck(m)
  /\ succeeded' = (succeeded \/ At(m, "acked"))
  /\ UNCHANGED <<connecting, disconnected, library, outbound, received, troubles, failures>>

EnqueueFails(m) ==
  /\ m \in Good /\ At(m, "called") /\ Trouble
  /\ Move(m, Nacked)
  /\ UNCHANGED <<connecting, success_since_last_failure, disconnected, library, outbound,
                 queue, received, pushed_out, succeeded, failures>>

OnBadMessage(m) ==
  /\ m \in Bad /\ At(m, "called")
  /\ Move(m, "published")
  /\ UNCHANGED <<connecting, success_since_last_failure, disconnected, library, outbound,
                 queue, received, pushed_out, troubles, succeeded, failures>>

-----------------------------------------------------------------------------
(* Pub/Sub and its client library.                                         *)

Deliver(m) ==
  /\ future = "running" /\ At(m, "published")
  /\ Move(m, "called")
  /\ UNCHANGED <<connecting, success_since_last_failure, disconnected, library, outbound,
                 queue, received, pushed_out, troubles, succeeded, failures>>

LoseAck(m) ==
  /\ At(m, "done") /\ Trouble
  /\ Move(m, "published")
  /\ UNCHANGED <<connecting, success_since_last_failure, disconnected, library, outbound,
                 queue, received, pushed_out, succeeded, failures>>

PullStops ==
  /\ future = "running" /\ Trouble
  /\ \E how \in {"failed", "ended"} : future' = how
  /\ UNCHANGED <<connecting, success_since_last_failure, disconnected, subscriber,
                 open_clients, outbound, inbound, succeeded, failures>>

-----------------------------------------------------------------------------
Init ==
  /\ pc = "created" /\ attempts = 0 /\ last_error = FALSE
  /\ success_since_last_failure = FALSE /\ disconnected = FALSE
  /\ subscriber = FALSE /\ open_clients = 0 /\ future = "none"
  /\ app = FALSE /\ sends = "none"
  /\ stage = [m \in Message |-> "published"] /\ queue = <<>>
  /\ received = {} /\ pushed_out = {}
  /\ troubles = 0 /\ succeeded = FALSE /\ failures = 0

Handler == PullReturns \/ PullFails \/ ReadFlag \/ ClearFlag \/ CountFailure

Connect == Start \/ Subscribe \/ SubscribeFails \/ LoopEnds \/ Handler \/ BackoffEnds

Next ==
  \/ Connect \/ Cancel \/ Disconnect \/ Receive \/ Send \/ PullStops
  \/ \E m \in Message :
       OnGoodMessage(m) \/ EnqueueFails(m) \/ OnBadMessage(m) \/ Deliver(m) \/ LoseAck(m)

(* The event loop runs connect(), the library's threads run the callbacks, *)
(* and Pub/Sub delivers what is published for as long as a pull is open.   *)
Fairness ==
  /\ WF_vars(Connect)
  /\ \A m \in Message : WF_vars(OnGoodMessage(m) \/ OnBadMessage(m)) /\ WF_vars(Deliver(m))

Spec == Init /\ [][Next]_vars /\ Fairness

-----------------------------------------------------------------------------
(* Properties.                                                             *)

(* Every variable keeps its type, and connect() gives up in time.          *)
TypeOK ==
  /\ pc \in {"created", "loop", "pull", "failed", "clear_flag", "count", "backoff"} \cup Ended
  /\ attempts \in 0..MaxFailures /\ last_error \in BOOLEAN
  /\ success_since_last_failure \in BOOLEAN /\ disconnected \in BOOLEAN
  /\ subscriber \in BOOLEAN /\ open_clients \in Nat
  /\ future \in {"none", "running", "failed", "ended", "cancelled"}
  /\ app \in BOOLEAN /\ sends \in {"none", "posted", "no_client"}
  /\ stage \in [Message -> {"published", "called", "appended", "acked", "done"}]
  /\ queue \in Seq(Good) /\ (QueueMax # 0 => Len(queue) <= QueueMax)
  /\ received \subseteq Good /\ pushed_out \subseteq Good
  /\ troubles \in 0..MaxTroubles /\ succeeded \in BOOLEAN /\ failures \in Nat

(* A message whose ack was sent has reached the application or waits for   *)
(* it, unless newer ones pushed it out of a full queue, whatever happens   *)
(* to the pull in between: append comes before ack (googlechat.py:356-377).*)
AckedIsKept ==
  \A m \in Good :
    stage[m] \in {"acked", "done"} => m \in received \cup pushed_out \/ Holds(queue, m)

(* At most one SubscriberClient is open, and none once connect() has ended,*)
(* in whatever order the pull, disconnect() and a cancellation come        *)
(* (googlechat.py:279-283, 300-327).                                       *)
OneClientOpen ==
  /\ open_clients = IF subscriber THEN 1 ELSE 0
  /\ pc \in Ended => open_clients = 0

(* The race on the flag never shortens a backoff: the wait covers at least *)
(* the failures since the last delivery (googlechat.py:150-153).           *)
BackoffCoversFailures == pc = "backoff" => attempts >= failures

(* Every well-formed message reaches the application's queue, while bad    *)
(* ones are redelivered for ever and pulls fail, unless connect() ended    *)
(* (googlechat.py:352-380).                                                *)
GoodMessagesArrive ==
  \A m \in Good :
    <>(m \in received \cup pushed_out \/ Holds(queue, m) \/ pc \in Ended \/ disconnected)

(* After disconnect() connect() comes to its end, whichever of its waits   *)
(* it was in (googlechat.py:237, 256-257, 285-307).                        *)
DisconnectEnds == disconnected ~> pc \in Ended

(* The channel is a RealtimeChannel: once disconnect() has been called no  *)
(* further pull is opened (googlechat.py:237, serve/channel.py:105-133).   *)
Link == CASE pc = "created" -> "created"
          [] pc \in {"loop", "failed", "clear_flag", "count", "backoff"} -> "waiting"
          [] pc = "pull" -> "open"
          [] pc \in Ended -> "ended"
Channel == INSTANCE RealtimeChannel WITH link <- Link, stop <- disconnected
ImplementsChannel == Channel!Spec

=============================================================================
