# A formal model of cantus

cantus is an agent framework: a bounded loop lets a language model call *skills*, a FastAPI service
exposes the same skills over HTTP, *channels* connect the service to chat networks, and a handful of
stores, providers and dashboards surround them. This directory holds TLA+ modules translated from that
code, TLC configurations that check them on small instances, and proofs checked by TLAPS.

Paths below are relative to `src/cantus/`; `N-M` after a path are lines.

## 1. Inventory

### 1.1 The parts, their state and their operations

| Part | Source | State it keeps | Operations | Module |
| --- | --- | --- | --- | --- |
| Agent loop | `core/agent.py`, `core/action.py`, `core/observation.py`, `core/event_stream.py`, `core/result.py` | the event stream, the iteration and retry counters, the stage of the dispatch | `run`, `step`, `_parse_action`, `_dispatch_skill` | AgentLoop, AgentDialogue |
| Tool call grammar | `grammar/tool_call.py` | none | `build_schema`, `parse_tool_call` | ToolCallGrammar |
| Event log | `core/event_stream_persistence.py`, `serve/dashboard.py` | a JSON-lines file | `append`, `load`, `GET /events` | Persistence |
| Memories and memory tools | `protocols/memory_markdown.py`, `protocols/memory.py`, `protocols/memory_auto.py` | a Markdown file of turns, or a list of them with an index | `remember`, `recall`, the tools `view`, `create`, `str_replace`, `delete` | Persistence |
| Command line and deployment | `cli.py`, `config.py`, `core/registry.py`, `serve/app.py`, `serve/security.py` | the settings, the registry, the routes and their gates | `cantus serve`, `serve`, `register`, a request, the listings | Deployment |
| Framework adapters | `adapters/`, `protocols/skill.py`, `protocols/_common.py` | none | exposing a skill, importing a tool, a call through both | ToolBridge |
| Workflows | `workflows/` | none | `run` of each of the five | Workflows |
| Skill service | `serve/app.py`, `serve/security.py`, `config.py` | settings, the routes | `serve`, the POST endpoints, the gates | SkillService |
| Session tracker and introspection | `serve/introspection.py` | a bounded deque of run records | `start`, `finish`, `entries`, `_find`, the GET endpoints | SkillService |
| Application lifespan | `serve/app.py`, `serve/channel.py` | the HTTP client, the tasks of the channels | startup, shutdown | ChannelHost |
| Webhook channels | `serve/channels/line.py`, `telegram.py`, `discord.py`, `_signing.py` | one bounded queue each | the endpoint, `receive`, `send` | ChannelHost |
| Discord Gateway client | `serve/channels/_realtime.py` | the resume cursor, the counters of failures, the heartbeat flag, one WebSocket | `start`, `stop`, one session, the heartbeat task | DiscordGateway |
| Google Chat Pub/Sub channel | `serve/channels/googlechat.py` | the subscriber client, the pull, the failure counter and flag, a queue | `connect`, `disconnect`, `_on_message`, `receive`, `send` | PubSubChannel |
| Google token cache | `serve/channels/_googlechat_internals.py` | the cached credentials | `get_token` | TokenCache |
| Chat providers | `model/chat.py`, `model/providers/` | none: the host keeps the messages | `chat`, `stream`, the translations | ChatProviders |
| Terminal dashboard | `tui/app.py`, `tui/widgets.py`, `tui/client.py` | the panes, the cursor, paused or not | the polling timer, the keys, the cursor events | CantusTUI |

### 1.2 How they interact

- The agent loop calls the model, the hooks and the bodies of skills; all of them are code it does not
  own. It reads the *registry*, and it alone writes the event stream, which the event log stores and the
  introspection endpoints project.
- The POST endpoints of the service run the same skills, on the event loop. The GET endpoints are plain
  functions, which FastAPI runs on threads: they read the tracker's deque *while* the event loop writes it.
- The lifespan starts one task per real-time channel and ends them in order: `disconnect()` of each
  channel, cancellation of each task, closing of the HTTP client.
- Endpoints, the Gateway and the threads of the Pub/Sub library push into queues; the application empties
  them with `receive()` on threads of its own, and answers with `send()` through the shared client.
- The Google Chat channel awaits tokens from the token cache, several calls at a time.
- `cantus serve` imports the registry and the channels, makes one `Settings` of the environment and the
  command line, and hands all three to `serve()`. The routes keep the skills of that moment; the listings
  read the registry when they are asked, and any module may register more.
- An adapter is on both sides of a skill: it exposes one to a framework, and imports a tool as a remote
  skill, which the next adapter may expose again.
- The dashboard is a separate process that reads the introspection endpoints through HTTP.

### 1.3 What is hard, and what must hold

| Part | Hard behaviour | What makes it correct |
| --- | --- | --- |
| Agent loop | any output of the model, a failure at any stage, results that cannot be copied | the trace pairs calls and answers, tells truthfully whether a skill ran, and the loop ends |
| Grammar | three separate readings of one format | what the schema allows, the parsers accept |
| Event log, memory | a write cut short; a text that contains the delimiter; an index that is older than the turns | nothing is lost in silence; a question is never recalled with another's answer; every turn can be recalled |
| Deployment | three readings of one configuration, at the build, on the routes and at the request; a registry that changes after the build | credentials are asked for as the operator asked, what is open is reported, what is served is listed |
| Adapters | four tables of types and four ideas of an optional argument, in chains | a call that is let in reaches the body with what it requires |
| Workflows | a call that raises between others, a verdict of several kinds | the calls made and the result are those documented |
| Service | readers on threads between any two steps of the event loop; eviction during a run | what a reader is told is true, and the newest runs are on record |
| Lifespan | leaving at any moment of any task | every task ends, every channel is told |
| Webhook channels | forged, malformed and repeated posts, a full queue, two producers and a consumer | a genuine event is queued, until it is received or pushed out |
| Gateway | drops at any frame, refused sessions, silence, two tasks sharing a flag, `stop()` at any await | events once and in order, the session kept, service restored, `stop()` effective |
| Pub/Sub | callbacks on threads racing the failure handler, redelivery, `disconnect()` and cancellation | acknowledged is queued, no client leaks, `disconnect()` ends `connect()` |
| Token cache | overlapping refreshes that fail or are cancelled half-way | broken credentials are dropped for good |
| Providers | conversations that change provider | each service reads the whole conversation |
| Dashboard | two tasks awaiting answers, rows rebuilt meanwhile | one run in the inspector, the cursor stays with its run, it catches up |

`PROJECT.json` lists every one of these hazards at the line where it bites.

## 2. The modules

Actions carry the names of the methods they model. Between two awaits (or two calls into code the
framework does not own) the code is one action; where threads are involved, each access to shared state
is one. The proofs about a module are in another that extends it (section 4); TokenCache and CantusTUI
prefix the names of their specifications, so that one module of proofs can extend them with a neighbour.
Definitions marked
*Mutant* are plausible bugs: each replaces the definition below it in a regression test of one property,
and no behaviour of the specification uses them.

**AgentLoop.** One thread that hands control to the model, the hooks and the bodies of skills, so each
stage of the dispatch (`lookup`, `validate`, `pre_hook`, `body`, `post_hook`) is an action whose outcome
is chosen there. `stream` is `state.stream.events`, `iteration` and `retries` the counters of `run()`,
`registry` the skills registered and the hooks each carries, chosen in `Init`. `executed` is history: the
calls for which a body was started. Prompts, wording and arguments are abstracted.

**AgentDialogue** is the abstract specification of the loop: a dialogue of at most `Budget` turns between
a model and its tools. AgentLoop implements it with `trace <- stream, turns <- iteration`.

**ToolCallGrammar** holds the schema and the parser of `grammar/tool_call.py` as predicates over shapes of
output, and says how they agree with `ParseAction` of AgentLoop.

**DiscordGateway** has the coroutine `start()` (`pc`), its resume cursor (`session_id`, `seq`), its
counters, the heartbeat task, and the flag the two share; and Discord as an external party with its own
log of events, that replays after RESUME, refuses, closes, forgets the session or falls silent.

**PubSubChannel** has the task of `connect()` (`pc`), the callbacks on the library's threads (`stage` of
each message), the flag `success_since_last_failure` they share without a lock, whose read and reset are
separate steps, and an external Pub/Sub that delivers at least once.

**RealtimeChannel** is the abstract specification of both: what the protocol in `serve/channel.py`
promises of `connect()` and `disconnect()`. DiscordGateway and PubSubChannel implement it, and
ChannelHost composes instances of it.

**ChannelHost** has the lifespan, the tasks of the real-time channels (as RealtimeChannel), the posts on
their way through an endpoint, the queues, `receive()` and `send()`. The order of the checks of each
endpoint is that of its source (`StatusOf`); the arithmetic of signatures is not modelled, only whether a
post is genuine.

**TokenCache** has the cached object, the callers, the threads that refresh an object, and whether an
object is half refreshed. Loading, refreshing, resuming after the await and being cancelled are actions.

**SkillService** has the settings and the gates, the POST endpoint with its one await, the tracker's deque
with CPython's mutation counter, and readers that take one attribute at a time.

**Persistence** has both append-only files as sequences of pieces. Writes may be cut anywhere. The parsers
are folds over the lines, as in the code. The memory tools work over the file or over a memory in the
process (`backend`): the turns of `ShortTermMemory`, or those of `BM25Memory` and `EmbeddingMemory` with
`index`, the number of turns their index was built from. The ranking is any order of the indexed turns.

**SeqFold** has loops over a sequence that carry a result along. They are the folds and selections of the
community modules, defined by a recursive function so that they can be proved about.

**Deployment** has `cantus serve` from the parsed arguments to the exit: `stage` is what `main()` does
next, `env` and `args` what the operator gave, `settings` what became of them, `routes` the paths built with
their gates and the version of the skill each runs, `registry` how often each name was registered, which
goes on while the server runs. One request is answered at a time: none changes what another is answered.
`SkillService` begins where a configuration is accepted; here it is how it comes about.

**ToolBridge** has no state: a chain of adapters is a sequence of frameworks, `Advertised` the schema that
comes out at its end and `Call` what becomes of a call at it. Types are reduced to a scalar all tables
know, one they do not, and none.

**Workflows** has no state either: each workflow is a function of what its skills answer or raise, which gives
the calls it made and its result. An orchestrator, or the iterable it returns, may raise too; since it is
read to its end before the first subtask is handed out (`orchestrator_worker.py` 36), that is one case.
`EndsAtRaise` says of every workflow but the router, which has at most two calls, that none was made after one
that raised and that the workflow raises exactly if its last call did.

**ChatProviders** has the list of `Message` a host keeps, the translations to and from the three wire
formats, and the chat and stream calls. A text or a set of arguments is named by its place in the
conversation, so that nothing can be confused by having the same words. What one message becomes is an
operator of its own (`OpenAIMessage`, `AnthropicMessage`, `GoogleContent`); the loops over messages and
blocks are folds. Its specification is `ChatSpec`, since the proofs see it next to the loop's.

**CantusTUI** has the list of runs, the cursor, the inspector, the health line, and the two tasks (the
message pump and the timer) with their locals across each await.

## 3. What is checked

| Run | Instance | What it shows |
| --- | --- | --- |
| `agent` | two skills with any hooks, three iterations, one retry | `CallsAndAnswersPair`, `AnswerTellsWhetherBodyRan`, `RunEnds`; implements AgentDialogue; `GrammarAgreesWithAgent` |
| `gateway` | two events a session, three faults, backoff exponent cap, two rejections | `EventsOnceInOrder`, `UnacknowledgedMeansSilent`, `AlwaysReattaches`, `StopEnds`; implements RealtimeChannel |
| `gateway_consecutive` | the same | a violation: rejections that are not consecutive add up |
| `pubsub` | two good messages, a bad one, a queue of two, three troubles | `AckedIsKept`, `OneClientOpen`, `BackoffCoversFailures`, `GoodMessagesArrive`, `DisconnectEnds`; implements RealtimeChannel |
| `token_cache` | three callers, three loads | `NoBrokenCredentials` |
| `token_overlap` | three callers, two loads | a violation: a call whose refresh succeeded gets an error |
| `service` | three requests, a record of two, one reader | `NewestRunsAreRecorded`, `ReadsAreTruthful` |
| `persistence` | five writes, one cut, `top_k` 2, each of the memories | `LoadsAllOrRaises`, `IntactTurnsRecalled`, `RecallSeesEveryTurn` |
| `channels` | one channel of each kind, two genuine events, a malformed, a forged post and a ping, queues of one | `GenuineIsKept`, `LeavingEndsTheTasks` |
| `tui` | three runs, a record of two, four events | `InspectorShowsOneRun`, `CursorFollowsRun`, `CatchesUp` |
| `chat` | two tools, five messages, two parts a reply | `RequestSaysConversation`, `ResultsReachTheirCall` |
| `deployment` | every environment and command line, four pairs of tokens, two skills of which one has a reserved name, two registrations; chains of two adapters; workflows of three parts | `AuthIsAsAsked`, `OpennessIsReported`, `ListingsMatchRoutes`; `CallsReachTheBody`; `WorkflowsAsDocumented` |

The runs `agent`, `gateway`, `pubsub`, `token_cache`, `service` and `deployment` also check the type
invariant of their module. The other modules have none: what their variables hold is said where they are
declared, and a wrong type would make one of their properties false or an error.

### 3.1 The bounds, and why they are enough

- *Iterations* (3): a rejected output, a call with its answer and an exhausted budget all occur in one
  run, in any order; a retry budget of one is used up and reset. The theorems of section 4 hold for any.
- *Faults of Discord* (3): one to lose a connection, one to disturb its resumption, one more during the
  recovery. `MaxExponent`, the largest exponent a float holds (1023 in the program), is 7 here, above what
  three faults can count up to: as in any life of fewer than a thousand failures, `start()` does not raise
  in this run. What happens past it is in section 5.
- *Messages* (2 and a bad one): two are needed for an order and for a full queue. `MaxTroubles` bounds
  failed attempts, failed pulls and lost acknowledgements together; two failures end `connect()`.
- *Callers* (3): two whose refreshes overlap, and one that loads a new object between them.
- *Requests* (3) over a record of two: one run is evicted, before or after it finishes.
- *Writes* (5) and one cut: a whole chunk before the cut, a torn one, and two after it, in either file.
  Two cuts can join the question of one turn with the answer of another (section 5), which the run excludes.
- *Turns of a memory in the process* (up to 5) with `top_k` 2: an index is built, dropped and built again,
  and the short memory pushes turns out.
- *Tokens* (four pairs): both blank, a proper one beside a blank one, and each of the two proper beside a
  padded one. So under either mode a server comes up whose token is proper, which must refuse nobody who has it,
  and one whose token is padded, whatever the token of the other mode.
- *Registrations* (2): a skill before the build and another, or a new version of it, after.
- *Adapters* (chains of two), two arguments, one with a name that is no identifier: what two tables of
  types do to each other. A third layer adds no table that two have not met.
- *Workflows* (three parts): a call that raises before, between and after others, and subtasks that come round to
  the first of two workers again, or are none.
- *Messages of a conversation* (5): a question, a reply that calls two tools, both results, and a reply.
- *Queues of one*, two producers, and a reader: overflow happens at the second event.
- *Runs* (3) over a record of two: the selected run moves to another row, or is evicted.

Symmetry is used where the values are interchangeable and no liveness is checked: callers, requests,
events and plain texts.

### 3.2 Fairness

- AgentLoop: weak fairness of `Next`. The loop is one thread; a model or a skill that never returns is
  outside the code, and without it nothing about the end of a run can be said.
- DiscordGateway: weak fairness of the client's own coroutines (asyncio runs what is ready and wakes a
  sleeper), of a Discord that says HELLO, answers a request, acknowledges heartbeats and closes dead
  connections. None for faults, for silence or for `stop()`.
- PubSubChannel: weak fairness of `connect()`, of each callback and of redelivery, which Pub/Sub promises.
- ChannelHost: weak fairness of the steps of a shutdown that has begun, of the landing of a cancellation,
  and of each task that is not blocked in an open connection, which a platform may keep open for ever.
- CantusTUI: weak fairness of the answers (the client has a timeout), of the resumption of each task, of
  the timer and of the pump.

SkillService, Persistence, TokenCache, ChatProviders and Deployment check safety only and assume no fairness.
Deadlock is checked where the system cannot stop; each cfg that switches it off says why.

## 4. What is proved

Eight modules hold the proofs, each extending what it is about: `AgentProofs` (AgentLoop, ToolCallGrammar
and ChatProviders), `DiscordGatewayProofs`, `GoogleChatProofs` (PubSubChannel and TokenCache),
`ChannelHostProofs`, `ServiceProofs` (SkillService and CantusTUI), `PersistenceProofs`, `DeploymentProofs`
(Deployment, ToolBridge and Workflows) and `FoldLaws`, which has the laws of loops the others use. Their
theorems hold for every value of the constants the assumption of the module admits:

| Assumption | For any |
| --- | --- |
| `BudgetAssumption` | set of skills and any two budgets, zero included |
| `ChatAssumption` | tools, and any numbers of messages and of texts and calls in a reply |
| `GatewayAssumption` | numbers of faults and of backoff exponents, at least one event a session and one IDENTIFY |
| `PubSubAssumption` | messages, queue and number of troubles, at least one failure that is endured |
| `HostAssumption` | list of distinct channels of any kinds, posts and number of inputs, a queue that holds something, no genuine event that is a ping |
| `TokenAssumption` | callers and number of loads |
| `ServiceAssumption` | requests and readers, a record that retains something (`serve/app.py` 148 takes the default of 100) |
| `TUIAssumption` | runs, sessions and number of events, a record that retains something, a `None` that is neither run nor session |
| `PersistenceAssumption` | texts, writes and `top_k`, at least one of each memory's, any number of cuts; only `OneCutMixesNothing` asks for one cut at most, since two can mix turns (section 5) |
| `ToolBridgeAssumption` | parameters and chains of any length |
| `WorkflowsAssumption` | answers and any number of parts |
| `DeploymentAssumption` | skills, reserved names among them, pairs of tokens and number of registrations |

| Theorem | Statement |
| --- | --- |
| `TypeCorrect` | `Spec => []TypeOK` of AgentLoop |
| `BudgetKept` | a run takes at most `max_iterations` decisions and twice as many events, and a verdict |
| `VerdictLast` | a run ends with its verdict and only then; exhaustion records the whole trace before it |
| `CallsAnswered` | every call is followed by exactly one observation, which answers it |
| `EffectsReported` | no call starts its skill twice, and the answer tells truthfully whether it was started |
| `TraceGrows` | the stream is only appended to, and not at all once `run()` has returned |
| `RefinesDialogue` | the loop implements the safety part of AgentDialogue |
| `GrammarAndAgentAgree` | what the schema allows the grammar parses, and what it parses the agent reads alike, or as an answer of blanks |
| `RequestsSayConversation` | however long the conversation and whichever services continued it, each reads all of it in its request, in order and from the same speakers |
| `ResultsReachCalls` | in every such conversation a result finds its one call by its id, unless Google made it, and by name and order with Google |
| `GatewayTypeCorrect` | `Spec => []TypeOK` of DiscordGateway |
| `EventsAreDeliveredOnceInOrder` | `on_event` sees each session's events once, in order, without a gap, and a session is replaced only when Discord said so |
| `SilenceIsDiscords` | a connection is given up for a missing acknowledgement only when Discord owes one or is silent |
| `GatewayIsAChannel` | the Gateway client implements RealtimeChannel |
| `ChannelTypeCorrect` | `Spec => []TypeOK` of PubSubChannel |
| `AckedReachesTheApplication` | no message whose acknowledgement was sent is lost to the application |
| `ClientsClosed` | at most one client is open, and none once `connect()` has ended |
| `BackoffNeverShortened` | the race on the flag of the callbacks shortens no backoff |
| `RefinesChannel` | the Pub/Sub channel implements RealtimeChannel |
| `AcceptedEventsAreKept` | what an endpoint answered with a 200 is queued, was taken, or made room for newer; nothing else is queued |
| `TasksKeepTheProtocol` | each task the lifespan starts, tells and cancels keeps RealtimeChannel |
| `CacheTypeCorrect` | the type invariant of TokenCache |
| `BrokenCredentialsDropped` | an object whose refresh failed or was cancelled is never cached again |
| `AloneIsSafe` | a call that no other refresh overlaps never meets missing credentials or a missing token |
| `ServiceTypeCorrect` | `Spec => []TypeOK` of SkillService |
| `RecordsAreRight` | the newest runs and only they are on record, each with its own outcome |
| `ReadersAreToldTheTruth` | what a reader is told is true, and lists the sessions retained when it began |
| `NothingLostInSilence` | however writes were cut, `load()` of the event log returns every event written or raises |
| `IntactTurnsStayFirst` | however many writes were cut, the turns before the first torn one are read back first, whole and in order |
| `OneCutMixesNothing` | after at most one cut, moreover, no turn read back has the question of one and the answer of another |
| `RecallsSeeEveryTurn` | a recall from the process answers as many turns as there are up to its limit, none oftener than it was remembered, those that came after the index included |
| `HeaderAndTraceAgree` | the header and the trace of the inspector are of one run |
| `CursorStaysOnItsRun` | rebuilding the rows never moves the cursor off a run that is still listed |
| `TypesHold` | `Spec => []TypeOK` of Deployment |
| `AuthAsAsked` | credentials are asked for exactly as the command line, the environment and the defaults say |
| `OpennessReported` | what answers without credentials was warned of; the routes reported as gated are those that refuse |
| `ListingsMatch` | every skill that is served is listed, at its version or a newer one |
| `CallsReachTheirBody` | a call let in at the end of a chain of adapters of any length reaches the body with what it requires |
| `WorkflowsKeepTheirWord` | each of the five workflows, over any number of parts, makes the calls and has the result it documents, and ends at the first call that raises |

The argument for the loop has three layers. `TypeInv` adds to the type invariant that an unfinished trace
holds no verdict (`OpenTrace`): without it a stage could not know that the last event is the call being
dispatched. `BudgetInv` relates the length of the trace to the iterations received. `EffectInv` relates
`executed` to the calls of the trace: the call in dispatch has been executed exactly if the stage is past
the body, and every earlier call exactly if its answer says so. Each is shown to hold initially and to
survive every action, one step per action; `RefinesDialogue` maps each action to an action of the
dialogue or to a stutter, and uses `TypeInv` to know that what is said is an utterance.

The argument for the providers has two parts. The first is about any list of messages that a host can hold
(`Messages`): the blocks made of a text and calls are read back as that text and those calls
(`BlocksRead`, by induction on the calls), hence one message is read alike in each format (`MessageRead`),
hence, by induction on the messages, so is the conversation. The second is about how the host goes on:
`ResultsReachTheirCall` speaks of results that were told long ago, and is not inductive. `ConversationInv` adds that
every call has the name of a tool or its own place as its id (`OwnAsks`), that each result told answers a
call with its id and is that of its arguments (`EachTold`), and that what was asked of a tool is what was
told of it followed by what is still unanswered, in this order (`ToldInOrder`). A reply appends to the calls and makes them
the unanswered ones; a result moves the first of them to the told ones.

The argument for the cache: neither `NoBrokenCredentials` nor `AloneGetsToken` is inductive. The
strengthening `IInv` adds that a waiting call waits for a loaded object (`WaitsForObject`), that the only
thread of a waiting call works on that object (`ThreadOfCall`), that of two calls that wait at once both
are overlapped (`WaitingTogether`), and that a call alone finds its own object in the cache
(`AloneKeepsObject`).

The argument for the Gateway: what `on_event` has seen depends on what was sent over a connection long
before, so `IInv` follows the events from Discord's log over the wire to the cursor. `SessionIsNewest`: the
session the client knows is the newest Discord opened, and an op 9 on the wire is about it unless it rejects
an IDENTIFY. `RequestIsCurrent`: a RESUME that waits for its answer carries the cursor the client still has.
`WireGoesOn`: while a connection carries the session, the events on its wire continue the cursor one by one
up to the end of the log, which a replay re-establishes after every loss. `DeliveredToCursor`: what was
delivered ends where the cursor stands. `LoopBounds` says which limits the counters have not yet passed at
each `pc`. `EventsOnceInOrder` is then kept by the one step that delivers.

The argument for Pub/Sub: `NotGivenUp` and `ClosedBeforeOpen` say at which `pc` a client is open and that
`connect()` goes on only below the limit of failures. `FlagMeansSuccess` and `AttemptsCover` carry the race:
a flag not yet read stands for a callback that finished since the last failure, so the attempts start again
only after a success, and otherwise cover every failure but the one being handled. `QueuedIsKept` says that a message past the enqueue
is in the queue or with the application, for every stage a callback may be at.

The argument for the host: `ToldInTurn` says that the loop of the shutdown has told all the channels
before its index, so that behind it every channel was told (`AllTold`), which is what the cancellation of a
task needs to be a step of RealtimeChannel.

The argument for the service: `NewestRuns` says that the record is the last `MaxEntries` of all starts,
`StartedOnce` that no request starts twice, so that the index of a record is its request's. `OutcomeKnown` and
`Recorded` tie what the record says to what became of the request, for each stage of an endpoint; `Collected`
says what a reader has, attribute by attribute, as long as the deque's counter is the one it began with.

The argument for the dashboard: neither task's locals are protected across its await. `Locals` says that a
task that awaits a trace holds a run together with that run's own session, and that the answer it gets is about that
run: whatever it then writes, header and trace agree.

The argument for a deployment: its properties speak of an answer, which is the last of many steps, so
`IInv` says what each stage leaves behind. `Resolved`: from the build on, the settings are those the
operator asked for. `Built`: from serving on, the routes and the warnings are those of the settings, and no
route runs a version the registry has not reached. `Answering`: an answer that is open is the one the
routes give, and the registry does not change under it. The properties then follow by cases on the mode
and the surface, without a step (`SettingsAsAsked`, `GatedAsAsked`).

What a loop computes for a sequence of any length needs induction, which the library states for operators.
`FoldLaws` states it for sets instead: `NumberInduction` and `SequenceInduction` say that a set with the
first element, closed under the step, is everything, and `ThroughOneMore` and `ThroughStaysIn` what one
more element does to a fold. A module instantiates it for each of its own steps: the parsers of Persistence,
the selections of its memories, the layers of ToolBridge, the rounds of Workflows, and the blocks and
messages of ChatProviders.

The argument for the files: `EventLog` says that whatever `load()` returns without raising is all that was
appended; an append adds a line to the fold, and a torn one leaves a line that no later append can repair
(`EventPiece`, `TornEvent`). The Markdown file is read by a reader that eats it piece by piece (`Read`).
`ChunkRead` follows it through the stages of a turn: a whole chunk on a reader at rest adds exactly its turn, a
torn one leaves it at one of the stages. Whatever comes after, the reader only appends to what it has parsed
(`StagesExtend`), so that the intact turns head the parsed ones is an invariant (`TurnsInOrder`). For one cut,
`TurnsUnmixed` adds that no row was half collected when it came, and that what was parsed or is being
collected is of one turn, or shows its loss. `ProcessHasAll` says that a memory in the process holds what was
remembered, and that an index which is not dropped is of all of it.

The argument for the adapters: by induction up the layers, a schema keeps the arguments of the signature and goes
on requiring what it requires, and is the signature itself if that has required scalars only (`LayersAre`); by
a second induction, down the layers, what arrives stems from the caller (`ArrivedFromCaller`), and what fits
required scalars arrives (`FittingArrives`).

The argument for the workflows: each is a loop with one invariant, which says what the calls made so far are,
one by one, and that only the last of them may have raised: `Threaded` (a chain), `JobsDone` (the branches),
`HandedOut` (the subtasks), `Judged` (the drafts). That a worker's turn follows the one before it is `NextTurn`,
and that the turns are shared out evenly is `TurnsAreFair`, arithmetic on the calls counted for a worker.

Only model-checked is all liveness (`RunEnds`, `AlwaysReattaches`, `StopEnds`, `GoodMessagesArrive`,
`DisconnectEnds`, `LeavingEndsTheTasks`, `CatchesUp`, and the liveness half of AgentDialogue), since TLAPS
does not handle fairness or ENABLED. Every safety property a passing run checks has a theorem.

## 5. Where the code and its documentation disagree

Two disagreements have a run that shows them (`gateway_consecutive`, `token_overlap`). The others were met
while translating and are recorded here.

*Agent loop.*
- The retry counter has no effect on control flow (`core/agent.py` 141-161), while `core/agent.py` 113 and
  `core/observation.py` 48-49 speak of retrying the previous action up to `max_retries` times.
- A `post_hook` rejects after the body has run (`core/agent.py` 396), while `protocols/memory_auto.py`
  147-149 recommends one to constrain the model's actions "before they reach the backend".
- Exhaustion raises when a result cannot be deep-copied (`core/agent.py` 168 against 121-123).
- The grammar allows an answer of blanks, which the agent rejects; the comment at `core/agent.py` 275-276
  says the grammar enforces the same constraint.

*Gateway.* `start()` may raise `OverflowError` once `attempts` exceeds 1024 (`_realtime.py` 144 against
129); a clean close with 1000 counts as a failure (314 against 155); op 9 with `d: true` discards the
session (308 against 92-94).

*Pub/Sub.* A success whose flag is lost between read and reset lets `connect()` give up after fewer than
ten consecutive failures (`googlechat.py` 263-267 against 223-225); `_app` is never bound, so `send()`
always raises (190 against 191-194); after `disconnect()` a second `connect()` returns at once, against
`openspec/specs/cantus-channel-gateway-pubsub/spec.md` 74.

*Service.* A read of `/introspection` iterates on a thread over the deque the event loop appends to; if a
request begins meanwhile, CPython raises and the read is answered with a 500 (`serve/introspection.py` 206
against `openspec/specs/cantus-runtime-introspection-api/spec.md` 84; the action `ReadFails`). A body that is no
JSON, or a client that is gone, leaves its run "running" for ever (`serve/app.py` 242 against `openspec/specs/cantus-runtime-introspection-api/spec.md` 84).

*Deployment.* A mode in the environment that is none of the three raises although the command line gives
another, which `cli.py` 252-255 says comes first, and the command ends in a traceback rather than its exit
code 1 (`cli.py` 292). A token with spaces around it passes the check at the build (`serve/security.py` 56-68)
and then refuses every request, since servers strip the header (34-53).

*Adapters.* A LangChain tool of a skill with an optional argument or an array does not advertise the schema
of the skill: an optional argument becomes an `anyOf` with null and loses its default, an array becomes a
string (`adapters/langchain.py` 53-57 against `openspec/specs/adapter-layer-batch2/spec.md` 118).
`CallsReachTheBody` therefore promises delivery to bodies whose arguments are required scalars.

*Workflows.* The orchestrator is called once and aggregates nothing: the outputs of the workers are the result
(`workflows/orchestrator_worker.py` 35-41, whose docstring leaves aggregation to the host, 16-17), against
`openspec/specs/agent-protocols/spec.md` 351, "orchestrator aggregates".

*Files.* A short `os.write` is not noticed, and `load()` then raises for ever
(`core/event_stream_persistence.py` 52 against 11-13); a torn chunk leaves the parser one delimiter out of
step, so later complete chunks are lost (`protocols/memory_markdown.py` 127 against 162); a bare carriage
return on both sides of `---` in an answer collides with the delimiter (107 against 7-8); two torn writes
can join two turns; `recall` returns the *oldest* `top_k` matches; a repeated `str_replace` duplicates its
replacements.

*Channels.* Events of the Gateway push older ones out of the queue without a warning (`discord.py` 197); a
`disconnect()` that raises skips the channels after it, leaves all tasks running and the client open
(`serve/app.py` 129); tasks are cancelled but not awaited before the client is closed (130-132).

*Dashboard.* A tick that began before a pause still sends its other requests (`tui/app.py` 122-149 against
`openspec/specs/cantus-serve-tui/spec.md` 68), and while paused the inspector may stay on another run than the one
selected (151-162 against line 196 of the same).

*Providers.* A reply of Google that calls one tool twice gives both calls the same id
(`model/providers/_translate.py` 298 against `model/chat.py` 42-43): a service that goes by ids cannot
tell their results apart when the conversation goes on there. `ResultsReachTheirCall` therefore asks it
only of the ids other services gave.

## 6. What is not modelled, and why

- *Environments, model loading, prompts, `identity/soul.py`, `inspect.py`*: import-time or pure I/O, without
  a state of their own. Of `cli.py`, the addresses and texts, and `cantus tui`, which only starts the
  dashboard.
- *The life of an MCP server, the OpenHands adapter and Anthropic's memory tool*: a loop of another
  library, and two conversions that no call goes through.
- *Docstrings of skills, the debug protocol, the removed decorators*: wording, logging and errors.
- *The ranking of `BM25Memory` and `EmbeddingMemory`*: a library's; the model allows any.
- *Signatures and Ed25519*: arithmetic; whether a post is genuine is a given.
- *LocalMockReceiver and the fakes*: they serve tests. A third-party channel whose `disconnect()` raises
  is left to section 5.
- *The other panes of the dashboard and the other introspection endpoints*: rewritten from what the rows
  are rewritten from, or read from what does not change.

## 7. Plan

Done, in this order: the agent loop and its dialogue, because everything else rests on it; the channels, from
the clients up to the host that composes them; the service, the files, the dashboard, the providers; how a
deployment comes about, the adapters, the workflows and the memories in the process; the proofs of the loop,
the cache and the deployment, then those of both clients, the host, the service and the dashboard, and then
those of the grammar, the files and memories, the adapters, the workflows and the providers.

What is left: the round trip of `identity/soul.py`, and the projections of the remaining introspection
endpoints.
