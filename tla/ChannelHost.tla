----------------------------- MODULE ChannelHost -----------------------------
(***************************************************************************)
(* The channels of a served application (serve/app.py, serve/channels):    *)
(* the lifespan, which starts a task per RealtimeChannel and stops them    *)
(* all, and the endpoints of LINE, Telegram and Discord, which check what  *)
(* they are sent and queue it for the application.                         *)
(*                                                                         *)
(* The tasks of connect() are those of module RealtimeChannel. The         *)
(* endpoints, the lifespan and these tasks share one event loop; receive() *)
(* is called by the application on threads of its own. The warning an      *)
(* endpoint logs when its queue is full is left out.                       *)
(***************************************************************************)
EXTENDS SequencesExt

CONSTANTS
  Line, Telegram, Discord, GoogleChat, \* channels
  Channels,                            \* app.state.channels, in order
  Genuine, Malformed, Forged, Ping,    \* what is posted: with a good signature,
                                       \* but no JSON; without one; Discord's probe
  QueueMax,                            \* queue_maxlen
  MaxInputs                            \* bound: posts, sends, pushes of the gateway

Webhook == Line \cup Telegram \cup Discord
Realtime == Discord \cup GoogleChat
Channel == Webhook \cup Realtime
Posted == Genuine \cup Malformed \cup Forged \cup Ping
FromGateway == "from_gateway"
Event == Posted \cup {FromGateway}

ASSUME HostAssumption ==
  /\ Channels \in Seq(Channel) /\ ToSet(Channels) = Channel /\ IsInjective(Channels)
  /\ QueueMax \in Nat \ {0} /\ MaxInputs \in Nat
  /\ Genuine \cap Ping = {}

VARIABLES
  app,          \* how far the lifespan is
  turn,         \* the channel whose disconnect() is next
  http_client,  \* app.state.http_client
  link,         \* RealtimeChannel -> where its connect() is, once started
  asked,        \* RealtimeChannel -> disconnect() was called
  cancelled,    \* RealtimeChannel -> a cancellation of its task is pending
  post,         \* what is posted -> to which channel, and how far it is
  sends,        \* WebhookChannel -> how far its last send() is
  queue, received,
  pushed_out,   \* history: events pushed out of the queue
  inputs        \* count of what MaxInputs bounds

lifespan == <<app, turn, http_client>>
links == <<link, asked, cancelled>>
queues == <<queue, received, pushed_out>>
vars == <<lifespan, links, post, sends, queues, inputs>>

Task == INSTANCE RealtimeChannel WITH link <- link, stop <- asked

Input == inputs < MaxInputs /\ inputs' = inputs + 1

-----------------------------------------------------------------------------
(* The lifespan.                                                           *)

Startup ==
  /\ app = "built"
  /\ app' = "serving" /\ http_client' = "open"
  /\ link' = [c \in Realtime |-> "created"]
  /\ UNCHANGED <<turn, asked, cancelled, post, sends, queues, inputs>>

Answered == {"200", "401", "500"}

(* The server calls it when every request has been answered; by then the   *)
(* event loop has run every task up to its first await.                    *)
Shutdown ==
  /\ app = "serving" /\ \A c \in Realtime : link[c] # "created"
  /\ \A e \in Posted : post[e].at \in Answered \cup {"unsent"}
  /\ app' = "disconnecting"
  /\ UNCHANGED <<turn, http_client, links, post, sends, queues, inputs>>

(* Mutant: the channel is not told, only its task is cancelled.            *)
NotTold(c) == asked[c]

AskedAfter(c) == TRUE

(* One channel after the other; other tasks run while it is awaited.       *)
DisconnectNext ==
  /\ app = "disconnecting" /\ turn <= Len(Channels)
  /\ LET c == Channels[turn]
     IN asked' = [d \in Realtime |-> IF d = c THEN AskedAfter(d) ELSE asked[d]]
  /\ turn' = turn + 1
  /\ UNCHANGED <<app, http_client, link, cancelled, post, sends, queues, inputs>>

AllDisconnected == turn > Len(Channels)

(* cancel() does nothing to a task that is done.                           *)
CancelTasks ==
  /\ app = "disconnecting" /\ AllDisconnected
  /\ cancelled' = [c \in Realtime |-> link[c] # "ended"]
  /\ app' = "closing"
  /\ UNCHANGED <<turn, http_client, link, asked, post, sends, queues, inputs>>

CloseClient ==
  /\ app = "closing"
  /\ app' = "closed" /\ http_client' = "closed"
  /\ UNCHANGED <<turn, links, post, sends, queues, inputs>>

-----------------------------------------------------------------------------
(* The tasks of connect().                                                 *)

RunTask(c) ==
  /\ ~cancelled[c] /\ app # "built"
  /\ \E l \in Task!After(link[c], asked[c]) : link' = [link EXCEPT ![c] = l]
  /\ UNCHANGED <<lifespan, asked, cancelled, post, sends, queues, inputs>>

(* CancelledError is raised where the task waits. Discord's session absorbs*)
(* it while it reaps its heartbeat task.                                   *)
CancelLands(c) ==
  /\ cancelled[c]
  /\ cancelled' = [cancelled EXCEPT ![c] = FALSE]
  /\ link' = [link EXCEPT ![c] = IF @ = "closing" /\ c \in Discord
                                     THEN "waiting" ELSE "ended"]
  /\ UNCHANGED <<lifespan, asked, post, sends, queues, inputs>>

-----------------------------------------------------------------------------
(* The queues.                                                             *)

(* Mutant: a full queue stays as it is.                                    *)
AppendIfRoom(c, e) == IF Len(queue[c]) >= QueueMax THEN queue[c] ELSE Append(queue[c], e)

(* A deque with a maxlen drops its oldest entry.                           *)
QueueAfter(c, e) ==
  Append(IF Len(queue[c]) = QueueMax THEN Tail(queue[c]) ELSE queue[c], e)

Enqueue(c, e) ==
  /\ queue' = [queue EXCEPT ![c] = QueueAfter(c, e)]
  /\ pushed_out' = IF Len(queue[c]) = QueueMax
                   THEN [pushed_out EXCEPT ![c] = @ \cup {Head(queue[c])}] ELSE pushed_out

(* on_event, without a warning.                                            *)
GatewayPushes(c) ==
  /\ c \in Discord /\ link[c] = "open" /\ ~cancelled[c]
  /\ Input
  /\ Enqueue(c, FromGateway)
  /\ UNCHANGED <<lifespan, links, post, sends, received>>

(* On any thread, at any time; an empty queue raises.                      *)
Receive(c) ==
  /\ queue[c] # <<>>
  /\ received' = [received EXCEPT ![c] = @ \cup {Head(queue[c])}]
  /\ queue' = [queue EXCEPT ![c] = Tail(@)]
  /\ UNCHANGED <<lifespan, links, post, sends, pushed_out, inputs>>

-----------------------------------------------------------------------------
(* The endpoints.                                                          *)

At(e, c, where) == post[e] = [to |-> c, at |-> where]
Goes(e, c, where) == post' = [post EXCEPT ![e] = [to |-> c, at |-> where]]

(* Telegram's secret is a header, looked at ahead of the body; LINE and    *)
(* Discord sign the body.                                                  *)
Deliver(e, c) ==
  /\ app = "serving" /\ post[e].at = "unsent" /\ post[e].to \in {"nobody", c}
  /\ e \in Ping => c \in Discord
  /\ Input
  /\ Goes(e, c, IF c \in Telegram /\ e \in Forged THEN "401" ELSE "body")
  /\ UNCHANGED <<lifespan, links, sends, queues>>

SignatureFails(e, c) == e \in Forged

(* What is no JSON is a server error, but to Discord a 401.                *)
StatusOf(e, c) ==
  IF SignatureFails(e, c) \/ (e \in Malformed /\ c \in Discord) THEN "401"
  ELSE IF e \in Malformed THEN "500" ELSE "200"

(* Of what passes, a ping is answered and not queued. From the body to the *)
(* answer nothing is awaited.                                              *)
BodyArrives(e, c) ==
  /\ At(e, c, "body")
  /\ Goes(e, c, StatusOf(e, c))
  /\ IF StatusOf(e, c) = "200" /\ e \notin Ping THEN Enqueue(c, e)
     ELSE UNCHANGED <<queue, pushed_out>>
  /\ UNCHANGED <<lifespan, links, sends, received, inputs>>

(* The sender is gone before its body was read.                            *)
BodyFails(e, c) ==
  /\ At(e, c, "body")
  /\ Goes(e, c, "500")
  /\ UNCHANGED <<lifespan, links, sends, queues, inputs>>

(* External: what was not answered with a 200, or whose answer was lost,   *)
(* is posted again.                                                        *)
Redeliver(e) ==
  /\ app = "serving" /\ post[e].at \in {"200", "500"}
  /\ Goes(e, post[e].to, "unsent")
  /\ UNCHANGED <<lifespan, links, sends, queues, inputs>>

-----------------------------------------------------------------------------
(* send(): one request through the client of the application.              *)

(* Only to Discord a message may have no address; there is no client ahead *)
(* of the lifespan, and none that posts behind it.                         *)
Send(c, addressed) ==
  /\ sends[c] # "posted" /\ (addressed \/ c \in Discord)
  /\ Input
  /\ sends' = [sends EXCEPT ![c] = IF addressed /\ http_client = "open"
                                  THEN "posted" ELSE "raised"]
  /\ UNCHANGED <<lifespan, links, post, queues>>

(* An answer with a status of 400 or more is raised, and so is a failure   *)
(* to get one. A client that is closed may still get the answer.           *)
SendEnds(c) ==
  /\ sends[c] = "posted"
  /\ \E outcome \in {"sent", "raised"} : sends' = [sends EXCEPT ![c] = outcome]
  /\ UNCHANGED <<lifespan, links, post, queues, inputs>>

-----------------------------------------------------------------------------
Init ==
  /\ app = "built" /\ turn = 1 /\ http_client = "none"
  /\ link = [c \in Realtime |-> "created"]
  /\ asked = [c \in Realtime |-> FALSE] /\ cancelled = [c \in Realtime |-> FALSE]
  /\ post = [e \in Posted |-> [to |-> "nobody", at |-> "unsent"]]
  /\ sends = [c \in Webhook |-> "none"]
  /\ queue = [c \in Webhook |-> <<>>] /\ received = [c \in Webhook |-> {}]
  /\ pushed_out = [c \in Webhook |-> {}] /\ inputs = 0

Leave == DisconnectNext \/ CancelTasks \/ CloseClient

Endpoint(e, c) == Deliver(e, c) \/ BodyArrives(e, c) \/ BodyFails(e, c)

Next ==
  \/ Startup \/ Shutdown \/ Leave
  \/ \E c \in Realtime : RunTask(c) \/ CancelLands(c)
  \/ \E c \in Webhook : GatewayPushes(c) \/ Receive(c) \/ SendEnds(c)
  \/ \E c \in Webhook, addressed \in BOOLEAN : Send(c, addressed)
  \/ \E e \in Posted : Redeliver(e) \/ \E c \in Webhook : Endpoint(e, c)

(* The event loop runs the lifespan once it is leaving, and every task     *)
(* that is not blocked; a platform may keep a connection open for ever.    *)
Fairness ==
  /\ WF_vars(Leave)
  /\ \A c \in Realtime : WF_vars(CancelLands(c)) /\ WF_vars(link[c] # "open" /\ RunTask(c))

Spec == Init /\ [][Next]_vars /\ Fairness

-----------------------------------------------------------------------------
(* Properties.                                                             *)

Kept(c) == ToSet(queue[c]) \cup received[c] \cup pushed_out[c]

(* A genuine event that was answered with a 200 waits for the application, *)
(* has reached it, or made room for newer ones in a queue that keeps its   *)
(* limit; and nothing else but what the gateway sent is ever queued,       *)
(* whichever channel it was posted to                                      *)
(* (line.py:67-84, telegram.py:90-106, discord.py:231-284).                *)
GenuineIsKept ==
  /\ \A c \in Webhook : Len(queue[c]) <= QueueMax
  /\ \A e \in Genuine : post[e].at = "200" => e \in Kept(post[e].to)
  /\ \A c \in Webhook : Kept(c) \subseteq Genuine \cup {FromGateway}

(* Once the lifespan is left, every task of connect() ends, though the     *)
(* cancellation of one may be absorbed (app.py:121-132, _realtime.py:140,  *)
(* 317-332).                                                               *)
LeavingEndsTheTasks == app = "closed" ~> \A c \in Realtime : link[c] = "ended"
=============================================================================
