-------------------------- MODULE GoogleChatProofs --------------------------
(***************************************************************************)
(* Proofs about Google Chat: the Pub/Sub channel, for any messages, any    *)
(* limit of the queue and of the failures, and any number of troubles, and *)
(* the cache of the access tokens, for any number of callers and loads.    *)
(***************************************************************************)
EXTENDS PubSubChannel, TokenCache, TLAPS

-----------------------------------------------------------------------------
(* The channel. None of its three safety properties is inductive: a client *)
(* is opened where none may be left open, the flag is consumed a step after*)
(* it is read, and what is acked was queued a step before.                 *)


(* connect() goes on only while it has not failed too often.               *)
NotGivenUp == pc \notin Ended => attempts < MaxFailures

(* Where the next client is opened, the last one was closed.               *)
ClosedBeforeOpen ==
  /\ open_clients = IF subscriber THEN 1 ELSE 0
  /\ pc \in {"created", "loop"} \cup Ended => ~subscriber

(* A flag that has not been read stands for a callback that finished since *)
(* the last failure.                                                       *)
FlagMeansSuccess == success_since_last_failure /\ pc # "clear_flag" => succeeded

(* Failures are counted, but for the one the handler is working on.        *)
AttemptsCover ==
  failures <= IF pc \in {"clear_flag", "count"} THEN attempts + 1 ELSE attempts

Kept(m) == m \in received \cup pushed_out \/ Holds(queue, m)

(* A message is queued before it is acked.                                 *)
QueuedIsKept == \A m \in Good : stage[m] \in {"appended", "acked", "done"} => Kept(m)

IInv ==
  /\ TypeOK /\ NotGivenUp /\ ClosedBeforeOpen /\ FlagMeansSuccess /\ AttemptsCover
  /\ QueuedIsKept

(* The bounds are numbers.                                                 *)
LEMMA BoundsTyped ==
  /\ MaxFailures \in Nat /\ MaxFailures >= 1
  /\ QueueMax \in Nat /\ MaxTroubles \in Nat
BY PubSubAssumption

USE BoundsTyped DEF Message, Ended

(* What append() on a bounded deque leaves in it.                          *)
LEMMA EnqueueKeeps ==
  ASSUME NEW m \in Good, TypeOK, Enqueue(m)
  PROVE  /\ queue' \in Seq(Good) /\ (QueueMax # 0 => Len(queue') <= QueueMax)
         /\ pushed_out' \subseteq Good /\ pushed_out \subseteq pushed_out'
         /\ Holds(queue', m)
         /\ \A x \in Good : Holds(queue, x) => Holds(queue', x) \/ x \in pushed_out'
<1> DEFINE full == QueueMax # 0 /\ Len(queue) = QueueMax
           rest == IF full THEN Tail(queue) ELSE queue
<1>1. /\ queue' = Append(rest, m)
      /\ pushed_out' = IF full THEN pushed_out \cup {Head(queue)} ELSE pushed_out
  BY DEF Enqueue
<1>2. /\ queue \in Seq(Good) /\ (QueueMax # 0 => Len(queue) <= QueueMax)
      /\ pushed_out \subseteq Good /\ QueueMax \in Nat
  BY DEF TypeOK
<1>3. full => /\ Len(queue) \in Nat \ {0} /\ queue # <<>>
              /\ Head(queue) = queue[1] /\ queue[1] \in Good
              /\ Tail(queue) \in Seq(Good) /\ Len(Tail(queue)) = Len(queue) - 1
              /\ \A k \in 1..Len(Tail(queue)) : Tail(queue)[k] = queue[k + 1]
  BY <1>2
<1>4. /\ rest \in Seq(Good) /\ (QueueMax # 0 => Len(rest) < QueueMax)
  BY <1>2, <1>3
<1>5. /\ queue' \in Seq(Good) /\ Len(queue') = Len(rest) + 1 /\ queue'[Len(rest) + 1] = m
      /\ \A k \in 1..Len(rest) : queue'[k] = rest[k]
  BY <1>1, <1>4
<1>6. QueueMax # 0 => Len(queue') <= QueueMax
  BY <1>4, <1>5
<1>7. pushed_out' \subseteq Good /\ pushed_out \subseteq pushed_out'
  BY <1>1, <1>2, <1>3
<1>8. Holds(queue', m)
  BY <1>4, <1>5 DEF Holds
<1>9. ASSUME NEW x \in Good, Holds(queue, x) PROVE Holds(queue', x) \/ x \in pushed_out'
  <2>1. PICK k \in 1..Len(queue) : queue[k] = x
    BY <1>9 DEF Holds
  <2>2. CASE full /\ k = 1
    BY <1>1, <1>3, <2>1, <2>2
  <2>3. CASE full /\ k # 1
    <3>1. k - 1 \in 1..Len(rest) /\ rest[k - 1] = x
      BY <1>2, <1>3, <2>1, <2>3
    <3>2. k - 1 \in 1..Len(queue') /\ queue'[k - 1] = x
      BY <1>4, <1>5, <3>1
    <3> QED BY <3>2 DEF Holds
  <2>4. CASE ~full
    BY <1>2, <1>5, <2>1, <2>4 DEF Holds
  <2> QED BY <2>2, <2>3, <2>4
<1> HIDE DEF full, rest
<1> QED BY <1>5, <1>6, <1>7, <1>8, <1>9

(* What receive() takes from the deque.                                    *)
LEMMA ReceiveKeeps ==
  ASSUME TypeOK, Receive
  PROVE  /\ queue' \in Seq(Good) /\ (QueueMax # 0 => Len(queue') <= QueueMax)
         /\ received' \subseteq Good /\ received \subseteq received'
         /\ \A x \in Good : Holds(queue, x) => Holds(queue', x) \/ x \in received'
<1>1. /\ queue # <<>> /\ queue' = Tail(queue) /\ received' = received \cup {Head(queue)}
      /\ queue \in Seq(Good) /\ (QueueMax # 0 => Len(queue) <= QueueMax)
      /\ received \subseteq Good
  BY DEF Receive, TypeOK
<1>2. /\ Head(queue) = queue[1] /\ queue[1] \in Good
      /\ queue' \in Seq(Good) /\ Len(queue') = Len(queue) - 1
      /\ \A k \in 1..Len(queue') : queue'[k] = queue[k + 1]
  BY <1>1
<1>3. ASSUME NEW x \in Good, Holds(queue, x) PROVE Holds(queue', x) \/ x \in received'
  <2>1. PICK k \in 1..Len(queue) : queue[k] = x
    BY <1>3 DEF Holds
  <2>2. CASE k = 1
    BY <1>1, <1>2, <2>1, <2>2
  <2>3. CASE k # 1
    <3>1. k - 1 \in 1..Len(queue') /\ queue'[k - 1] = x
      BY <1>1, <1>2, <2>1, <2>3
    <3> QED BY <3>1 DEF Holds
  <2> QED BY <2>2, <2>3
<1> QED BY <1>1, <1>2, <1>3

LEMMA InitInv == Init => IInv
<1> SUFFICES ASSUME Init PROVE IInv
  OBVIOUS
<1>1. TypeOK
  <2>1. queue \in Seq(Good) /\ (QueueMax # 0 => Len(queue) <= QueueMax)
    BY DEF Init
  <2>2. stage \in [Message -> {"published", "called", "appended", "acked", "done"}]
    BY DEF Init
  <2>3. troubles \in 0..MaxTroubles /\ attempts \in 0..MaxFailures
    BY DEF Init
  <2> QED BY <2>1, <2>2, <2>3 DEF Init, TypeOK
<1>2. NotGivenUp /\ ClosedBeforeOpen /\ FlagMeansSuccess /\ AttemptsCover
  BY DEF Init, NotGivenUp, ClosedBeforeOpen, FlagMeansSuccess, AttemptsCover
<1>3. QueuedIsKept
  BY DEF Init, QueuedIsKept
<1> QED BY <1>1, <1>2, <1>3 DEF IInv

(* After a close no client is open.                                        *)
LEMMA CloseCloses ==
  ASSUME ClosedBeforeOpen, CloseSubscriber
  PROVE  subscriber' = FALSE /\ open_clients' = 0
<1>1. CASE subscriber
  BY <1>1 DEF ClosedBeforeOpen, CloseSubscriber
<1>2. CASE ~subscriber
  BY <1>2 DEF ClosedBeforeOpen, CloseSubscriber
<1> QED BY <1>1, <1>2

(* connect() and disconnect() keep the types, and leave the messages alone.*)
LEMMA ConnectTyped ==
  ASSUME IInv, Connect \/ Cancel \/ Disconnect \/ Send \/ PullStops
  PROVE  TypeOK' /\ QueuedIsKept'
<1> USE DEF IInv, TypeOK, connecting, library, outbound, inbound
<1>1. UNCHANGED inbound
  BY DEF Connect, Handler, Start, Subscribe, SubscribeFails, LoopEnds, PullReturns, PullFails,
         ReadFlag, ClearFlag, CountFailure, BackoffEnds, Cancel, Disconnect, Send, PullStops
<1>2. QueuedIsKept'
  BY <1>1 DEF QueuedIsKept, Kept, Holds
<1>3. stage' \in [Message -> {"published", "called", "appended", "acked", "done"}]
      /\ queue' \in Seq(Good) /\ (QueueMax # 0 => Len(queue') <= QueueMax)
      /\ received' \subseteq Good /\ pushed_out' \subseteq Good
  BY <1>1
<1>4. open_clients' \in Nat /\ subscriber' \in BOOLEAN
  <2>1. CASE CloseSubscriber
    BY <2>1, CloseCloses
  <2>2. CASE UNCHANGED <<subscriber, open_clients>>
    BY <2>2
  <2>3. CASE subscriber' = TRUE /\ open_clients' = open_clients + 1
    BY <2>3
  <2> QED BY <2>1, <2>2, <2>3
          DEF Connect, Handler, Start, Subscribe, SubscribeFails, LoopEnds, PullReturns,
              PullFails, ReadFlag, ClearFlag, CountFailure, BackoffEnds, Cancel, Disconnect,
              Send, PullStops, CloseAfterPull
<1>5. attempts' \in 0..MaxFailures /\ failures' \in Nat /\ troubles' \in 0..MaxTroubles
  BY DEF Connect, Handler, Start, Subscribe, SubscribeFails, LoopEnds, PullReturns, PullFails,
         ReadFlag, ClearFlag, CountFailure, BackoffEnds, Cancel, Disconnect, Send, PullStops,
         Trouble, NotGivenUp
<1>6. /\ pc' \in {"created", "loop", "pull", "failed", "clear_flag", "count", "backoff"} \cup Ended
      /\ future' \in {"none", "running", "failed", "ended", "cancelled"}
      /\ sends' \in {"none", "posted", "no_client"}
  BY DEF Connect, Handler, Start, Subscribe, SubscribeFails, LoopEnds, PullReturns, PullFails,
         ReadFlag, ClearFlag, CountFailure, BackoffEnds, Cancel, Disconnect, Send, PullStops,
         PullAfterDisconnect
<1>7. /\ last_error' \in BOOLEAN /\ success_since_last_failure' \in BOOLEAN
      /\ disconnected' \in BOOLEAN /\ app' \in BOOLEAN /\ succeeded' \in BOOLEAN
  BY DEF Connect, Handler, Start, Subscribe, SubscribeFails, LoopEnds, PullReturns, PullFails,
         ReadFlag, ClearFlag, CountFailure, BackoffEnds, Cancel, Disconnect, Send, PullStops,
         FlagAfterReset
<1> QED BY <1>2, <1>3, <1>4, <1>5, <1>6, <1>7

(* They keep the counts: one client, and no failure that is not counted.   *)
LEMMA ConnectCounted ==
  ASSUME IInv, Connect \/ Cancel \/ Disconnect \/ Send \/ PullStops
  PROVE  (NotGivenUp /\ ClosedBeforeOpen /\ FlagMeansSuccess /\ AttemptsCover)'
<1>0. /\ attempts \in 0..MaxFailures /\ failures \in Nat /\ subscriber \in BOOLEAN
      /\ succeeded \in BOOLEAN /\ success_since_last_failure \in BOOLEAN
      /\ NotGivenUp /\ ClosedBeforeOpen /\ FlagMeansSuccess /\ AttemptsCover
  BY DEF IInv, TypeOK
<1> USE <1>0 DEF NotGivenUp, ClosedBeforeOpen, FlagMeansSuccess, AttemptsCover, connecting,
                 library
<1>1. CASE Start \/ LoopEnds \/ PullFails
  BY <1>1 DEF Start, LoopEnds, PullFails
<1>2. CASE Subscribe \/ SubscribeFails
  BY <1>2 DEF Subscribe, SubscribeFails
<1>3. CASE PullReturns
  BY <1>3, CloseCloses DEF PullReturns, CloseAfterPull
<1>4. CASE ReadFlag
  <2>1. CASE success_since_last_failure
    BY <1>4, <2>1 DEF ReadFlag
  <2>2. CASE ~success_since_last_failure
    BY <1>4, <2>2 DEF ReadFlag
  <2> QED BY <2>1, <2>2
<1>5. CASE ClearFlag
  BY <1>5 DEF ClearFlag, FlagAfterReset
<1>6. CASE CountFailure
  <2>1. CASE TooMany(attempts')
    BY <1>6, <2>1, CloseCloses DEF CountFailure
  <2>2. CASE ~TooMany(attempts')
    BY <1>6, <2>2 DEF CountFailure, TooMany
  <2> QED BY <2>1, <2>2
<1>7. CASE BackoffEnds \/ Cancel
  <2>1. /\ pc \in {"pull", "backoff"} /\ pc' \in {"loop", "cancelled"}
        /\ subscriber' = FALSE /\ open_clients' = 0
        /\ UNCHANGED <<attempts, success_since_last_failure, succeeded, failures>>
    BY <1>7, CloseCloses DEF BackoffEnds, Cancel
  <2> QED BY <2>1
<1>8. CASE Disconnect
  <2>1. /\ subscriber' = FALSE /\ open_clients' = 0
        /\ UNCHANGED <<pc, attempts, success_since_last_failure, succeeded, failures>>
    BY <1>8, CloseCloses DEF Disconnect
  <2> QED BY <2>1
<1>9. CASE Send \/ PullStops
  BY <1>9 DEF Send, PullStops
<1> QED BY <1>1, <1>2, <1>3, <1>4, <1>5, <1>6, <1>7, <1>8, <1>9 DEF Connect, Handler

(* A callback, a delivery, a lost ack or a receive() leaves connect() alone*)
(* but for the flag, which a callback sets once it is done.                *)
LEMMA LeavesConnectAlone ==
  ASSUME IInv, Receive \/ \E m \in Message : \/ OnGoodMessage(m) \/ EnqueueFails(m)
                                             \/ OnBadMessage(m) \/ Deliver(m) \/ LoseAck(m)
  PROVE  /\ UNCHANGED <<connecting, disconnected, library, outbound, failures>>
         /\ troubles' \in 0..MaxTroubles
         /\ NotGivenUp' /\ ClosedBeforeOpen' /\ FlagMeansSuccess' /\ AttemptsCover'
         /\ success_since_last_failure' \in BOOLEAN /\ succeeded' \in BOOLEAN
<1>1. /\ UNCHANGED <<pc, attempts, last_error, disconnected, library, outbound, failures>>
      /\ troubles' \in 0..MaxTroubles
  BY DEF IInv, TypeOK, Receive, OnGoodMessage, EnqueueFails, OnBadMessage, Deliver, LoseAck,
         Trouble, connecting
<1>2. \/ UNCHANGED <<success_since_last_failure, succeeded>>
      \/ success_since_last_failure' = TRUE /\ succeeded' = TRUE
  <2>1. ASSUME NEW m \in Message, OnGoodMessage(m) PROVE <1>2!:
    BY <2>1 DEF OnGoodMessage, AppendThenAck, At, IInv, TypeOK
  <2> QED BY <2>1 DEF Receive, EnqueueFails, OnBadMessage, Deliver, LoseAck
<1>3. NotGivenUp' /\ ClosedBeforeOpen' /\ AttemptsCover'
  BY <1>1 DEF IInv, NotGivenUp, ClosedBeforeOpen, AttemptsCover, library
<1>4. FlagMeansSuccess'
  BY <1>1, <1>2 DEF IInv, FlagMeansSuccess
<1> QED BY <1>1, <1>2, <1>3, <1>4 DEF IInv, TypeOK, connecting

(* What was queued stays with the application, whichever thread steps.     *)
LEMMA MessagesKept ==
  ASSUME IInv, Receive \/ \E m \in Message : \/ OnGoodMessage(m) \/ EnqueueFails(m)
                                             \/ OnBadMessage(m) \/ Deliver(m) \/ LoseAck(m)
  PROVE  /\ stage' \in [Message -> {"published", "called", "appended", "acked", "done"}]
         /\ queue' \in Seq(Good) /\ (QueueMax # 0 => Len(queue') <= QueueMax)
         /\ received' \subseteq Good /\ pushed_out' \subseteq Good
         /\ QueuedIsKept'
<1> DEFINE Goal == /\ stage' \in [Message -> {"published", "called", "appended", "acked", "done"}]
                   /\ queue' \in Seq(Good) /\ (QueueMax # 0 => Len(queue') <= QueueMax)
                   /\ received' \subseteq Good /\ pushed_out' \subseteq Good
                   /\ QueuedIsKept'
<1>0. TypeOK /\ QueuedIsKept
  BY DEF IInv
<1>1. CASE Receive
  <2>1. UNCHANGED <<stage, pushed_out>>
    BY <1>1 DEF Receive
  <2> QED BY <1>0, <1>1, <2>1, ReceiveKeeps DEF QueuedIsKept, Kept, TypeOK
<1>2. ASSUME NEW m \in Message, OnGoodMessage(m) PROVE Goal
  <2>1. m \in Good /\ AppendThenAck(m) /\ UNCHANGED received
    BY <1>2 DEF OnGoodMessage
  <2>2. CASE At(m, "called") /\ Move(m, "appended") /\ Enqueue(m)
    BY <1>0, <2>1, <2>2, EnqueueKeeps DEF QueuedIsKept, Kept, TypeOK, At, Move
  <2>3. CASE \/ At(m, "appended") /\ Move(m, "acked") /\ UNCHANGED <<queue, pushed_out>>
             \/ At(m, "acked") /\ Move(m, "done") /\ UNCHANGED <<queue, pushed_out>>
    BY <1>0, <2>1, <2>3 DEF QueuedIsKept, Kept, Holds, TypeOK, At, Move
  <2> QED BY <2>1, <2>2, <2>3 DEF AppendThenAck
<1>3. ASSUME NEW m \in Message, EnqueueFails(m) \/ OnBadMessage(m) \/ Deliver(m) \/ LoseAck(m)
      PROVE  Goal
  <2>1. UNCHANGED <<queue, received, pushed_out>> /\ (Move(m, "published") \/ Move(m, "called"))
    BY <1>3 DEF EnqueueFails, OnBadMessage, Deliver, LoseAck, Nacked
  <2> QED BY <1>0, <2>1 DEF QueuedIsKept, Kept, Holds, TypeOK, Move
<1> QED BY <1>1, <1>2, <1>3

LEMMA InvariantKept == IInv /\ [Next]_vars => IInv'
<1> SUFFICES ASSUME IInv, [Next]_vars PROVE IInv'
  OBVIOUS
<1>1. CASE Connect \/ Cancel \/ Disconnect \/ Send \/ PullStops
  BY <1>1, ConnectTyped, ConnectCounted DEF IInv
<1>2. CASE Receive \/ \E m \in Message : \/ OnGoodMessage(m) \/ EnqueueFails(m)
                                         \/ OnBadMessage(m) \/ Deliver(m) \/ LoseAck(m)
  BY <1>2, LeavesConnectAlone, MessagesKept DEF IInv, TypeOK, connecting, library, outbound
<1>3. CASE UNCHANGED vars
  BY <1>3 DEF vars, connecting, library, outbound, inbound, IInv, TypeOK, NotGivenUp,
              ClosedBeforeOpen, FlagMeansSuccess, AttemptsCover, QueuedIsKept, Kept, Holds
<1> QED BY <1>1, <1>2, <1>3 DEF Next

LEMMA Invariant == Spec => []IInv
BY InitInv, InvariantKept, PTL DEF Spec

(* Every variable of the channel keeps its type.                           *)
THEOREM ChannelTypeCorrect == Spec => []TypeOK
<1>1. IInv => TypeOK
  BY DEF IInv
<1> QED BY Invariant, <1>1, PTL

(* No message whose ack was sent is lost to the application, whatever      *)
(* becomes of the pull (googlechat.py:356-377).                            *)
THEOREM AckedReachesTheApplication == Spec => []AckedIsKept
<1>1. IInv => AckedIsKept
  BY DEF IInv, AckedIsKept, QueuedIsKept, Kept
<1> QED BY Invariant, <1>1, PTL

(* At most one client is open, and none once connect() has ended, in every *)
(* order of pull, disconnect() and cancellation (googlechat.py:279-327).   *)
THEOREM ClientsClosed == Spec => []OneClientOpen
<1>1. IInv => OneClientOpen
  BY DEF IInv, ClosedBeforeOpen, OneClientOpen
<1> QED BY Invariant, <1>1, PTL

(* The race on the flag shortens no backoff (googlechat.py:150-153).       *)
THEOREM BackoffNeverShortened == Spec => []BackoffCoversFailures
<1>1. IInv => BackoffCoversFailures
  BY DEF IInv, TypeOK, AttemptsCover, BackoffCoversFailures
<1> QED BY Invariant, <1>1, PTL

(* A step of the channel is a step of RealtimeChannel, or leaves it alone. *)
LEMMA StepRefines == IInv /\ [Next]_vars => [Channel!Next]_Channel!vars
<1> SUFFICES ASSUME IInv, [Next]_vars PROVE [Channel!Next]_Channel!vars
  OBVIOUS
<1> USE DEF Channel!Next, Channel!vars, Channel!Move, Channel!Stop, Channel!Cancel,
            Channel!After, Link, connecting
<1>1. CASE Start
  BY <1>1 DEF Start
<1>2. CASE Subscribe
  BY <1>2 DEF Subscribe
<1>3. CASE SubscribeFails \/ LoopEnds
  BY <1>3 DEF SubscribeFails, LoopEnds
<1>4. CASE PullReturns \/ PullFails
  BY <1>4 DEF PullReturns, PullFails
<1>5. CASE ReadFlag \/ ClearFlag
  BY <1>5 DEF ReadFlag, ClearFlag
<1>6. CASE CountFailure \/ BackoffEnds
  BY <1>6 DEF CountFailure, BackoffEnds
<1>7. CASE Cancel
  BY <1>7 DEF Cancel
<1>8. CASE Disconnect
  BY <1>8 DEF Disconnect
<1>9. CASE UNCHANGED <<pc, disconnected>>
  BY <1>9
<1>10. Receive \/ Send \/ PullStops \/ UNCHANGED vars => UNCHANGED <<pc, disconnected>>
  BY DEF Receive, Send, PullStops, vars
<1>11. ASSUME NEW m \in Message,
              OnGoodMessage(m) \/ EnqueueFails(m) \/ OnBadMessage(m) \/ Deliver(m) \/ LoseAck(m)
       PROVE  UNCHANGED <<pc, disconnected>>
  BY <1>11 DEF OnGoodMessage, EnqueueFails, OnBadMessage, Deliver, LoseAck
<1> QED BY <1>1, <1>2, <1>3, <1>4, <1>5, <1>6, <1>7, <1>8, <1>9, <1>10, <1>11
        DEF Next, Connect, Handler

(* The channel keeps the protocol RealtimeChannel: no pull is opened after *)
(* disconnect() (googlechat.py:237, serve/channel.py:105-133).             *)
THEOREM RefinesChannel == Spec => ImplementsChannel
<1>1. Init => Channel!Init
  BY DEF Init, Channel!Init, Link
<1> QED BY Invariant, StepRefines, <1>1, PTL DEF Spec, ImplementsChannel, Channel!Spec

-----------------------------------------------------------------------------
(* The cache of the tokens. NoBrokenCredentials and AloneGetsToken are not *)
(* inductive: what they rest on is that an object is loaded once, that a   *)
(* thread works on the object its caller waits for, and that a call alone  *)
(* with its refresh still finds its own object in the cache.               *)

(* A call that waits for a refresh waits for that of a loaded object.      *)
WaitsForObject == \A c \in Caller : Refreshing(c) => refreshing[c] # None

(* The only thread of a waiting call is the one it waits for.              *)
ThreadOfCall ==
  \A c \in Caller, o \in Object :
    <<c, o>> \in threads /\ Refreshing(c) => o = refreshing[c]

(* Of two calls that wait at the same time, both are overlapped.           *)
WaitingTogether ==
  \A c, d \in Caller :
    c # d /\ Refreshing(c) /\ Refreshing(d) => c \in overlapped

(* A call that waits alone finds its object, with a token once refreshed.  *)
AloneKeepsObject ==
  \A c \in Caller \ overlapped : Refreshing(c) =>
    /\ credentials = refreshing[c]
    /\ calls[c] = "refreshed" => token[credentials] # "none"

CacheInv ==
  /\ CacheTypeOK /\ WaitsForObject /\ ThreadOfCall /\ WaitingTogether /\ AloneKeepsObject
  /\ NoBrokenCredentials /\ AloneGetsToken

USE TokenAssumption DEF None, Object, Raised, Returned, Idle, Refreshing,
        Others

(* The types hold in the initial states and through every step.            *)
LEMMA CacheTypesKept ==
  CacheTypeOK /\ WaitsForObject /\ [CacheNext]_cacheVars => CacheTypeOK'
<1> SUFFICES ASSUME CacheTypeOK, WaitsForObject, [CacheNext]_cacheVars PROVE CacheTypeOK'
  OBVIOUS
<1>1. ASSUME NEW c \in Caller, GetToken(c) PROVE CacheTypeOK'
  <2>1. CASE credentials # None
    <3>1. credentials \in 1..loads /\ credentials \in Object
      BY <2>1 DEF CacheTypeOK
    <3>2. CASE NeedsRefresh(credentials)
      BY <1>1, <2>1, <3>1, <3>2 DEF GetToken, UseCredentials, CacheTypeOK
    <3>3. CASE ~NeedsRefresh(credentials)
      BY <1>1, <2>1, <3>1, <3>3 DEF GetToken, UseCredentials, CacheTypeOK
    <3> QED BY <3>2, <3>3
  <2>2. CASE credentials = None
    <3>1. /\ loads' = loads + 1 /\ credentials' = loads + 1
          /\ loads + 1 \in 1..MaxLoads /\ UseCredentials(c, loads + 1)
          /\ token' = token /\ broken' = broken
      BY <1>1, <2>2 DEF GetToken, CacheTypeOK
    <3>2. /\ loads' \in 0..MaxLoads /\ credentials' \in {None, loads'}
          /\ 0..loads \subseteq 0..loads' /\ 1..loads \subseteq 1..loads'
          /\ loads + 1 \in 1..loads' /\ loads + 1 \in 0..loads'
      BY <3>1 DEF CacheTypeOK
    <3>3. refreshing' \in [Caller -> 0..loads']
      BY <3>1, <3>2 DEF UseCredentials, CacheTypeOK
    <3>4. threads' \subseteq Caller \X (1..loads')
      BY <3>1, <3>2 DEF UseCredentials, CacheTypeOK
    <3>5. /\ calls' \in [Caller -> {"refreshing", "refreshed", "refresh_failed"} \cup Idle]
          /\ overlapped' \subseteq Caller
      BY <3>1 DEF UseCredentials, CacheTypeOK
    <3>6. token' \in [Object -> {"none", "valid", "stale"}] /\ broken' \subseteq 1..loads'
      BY <3>1, <3>2 DEF CacheTypeOK
    <3> QED BY <3>2, <3>3, <3>4, <3>5, <3>6 DEF CacheTypeOK
  <2> QED BY <2>1, <2>2
<1>2. ASSUME NEW c \in Caller, LoadFails(c) PROVE CacheTypeOK'
  BY <1>2 DEF LoadFails, CacheTypeOK
<1>3. ASSUME NEW c \in Caller, Resume(c) PROVE CacheTypeOK'
  BY <1>3 DEF Resume, CacheTypeOK
<1>4. ASSUME NEW c \in Caller, ResumeFails(c) \/ CancelCall(c) PROVE CacheTypeOK'
  <2>1. PICK error \in {"refresh_error", "cancelled"} : Drop(c, error)
    BY <1>4 DEF ResumeFails, CancelCall
  <2>2. refreshing[c] \in 1..loads
    BY <1>4 DEF ResumeFails, CancelCall, CacheTypeOK, WaitsForObject
  <2>3. broken' \subseteq 1..loads
    BY <2>1, <2>2 DEF Drop, CacheTypeOK
  <2>5. credentials' \in {None, loads'} /\ loads' = loads
    BY <2>1 DEF Drop, CredentialsAfter
  <2>4. calls' \in [Caller -> {"refreshing", "refreshed", "refresh_failed"} \cup Idle]
    BY <2>1 DEF Drop, CacheTypeOK
  <2> QED BY <2>1, <2>3, <2>4, <2>5 DEF Drop, CacheTypeOK
<1>5. ASSUME NEW c \in Caller, NEW o \in Object, NEW ok \in BOOLEAN,
             ThreadEnds(c, o, ok)
      PROVE CacheTypeOK'
  BY <1>5 DEF ThreadEnds, CacheTypeOK
<1>6. ASSUME NEW o \in Object, Expire(o) PROVE CacheTypeOK'
  BY <1>6 DEF Expire, CacheTypeOK
<1>7. CASE UNCHANGED cacheVars
  BY <1>7 DEF cacheVars, CacheTypeOK
<1> QED BY <1>1, <1>2, <1>3, <1>4, <1>5, <1>6, <1>7 DEF CacheNext

(* The whole invariant holds through every step of the cache.              *)
LEMMA CacheInvKept ==
  CacheInv /\ [CacheNext]_cacheVars => CacheInv'
<1> SUFFICES ASSUME CacheInv, [CacheNext]_cacheVars PROVE CacheInv'
  OBVIOUS
<1>0. CacheTypeOK'
  BY CacheTypesKept DEF CacheInv
<1> USE <1>0
<1> DEFINE Rest == /\ WaitsForObject /\ ThreadOfCall /\ WaitingTogether /\ AloneKeepsObject
                   /\ NoBrokenCredentials /\ AloneGetsToken
<1>1. ASSUME NEW c \in Caller, GetToken(c) PROVE Rest'
  <2>1. PICK o \in 1..loads' : /\ o \in Object /\ credentials' = o
                               /\ UseCredentials(c, o) /\ o \notin broken
                               /\ (credentials # None => credentials' = credentials)
    BY <1>1 DEF GetToken, CacheInv, CacheTypeOK, NoBrokenCredentials
  <2>2. /\ token' = token /\ broken' = broken /\ calls[c] \in Idle
        /\ \A p \in Object : <<c, p>> \notin threads
    BY <1>1 DEF GetToken
  <2>3. NoBrokenCredentials'
    BY <2>1, <2>2 DEF NoBrokenCredentials
  <2>4. CASE NeedsRefresh(o)
    <3>1. /\ calls' = [calls EXCEPT ![c] = "refreshing"]
          /\ refreshing' = [refreshing EXCEPT ![c] = o]
          /\ threads' = threads \cup {<<c, o>>}
          /\ overlapped' = IF Others(c) = {} THEN overlapped \ {c}
                           ELSE overlapped \cup {c} \cup Others(c)
      BY <2>1, <2>4 DEF UseCredentials
    <3>2. WaitsForObject'
      BY <2>1, <3>1 DEF CacheInv, WaitsForObject, CacheTypeOK
    <3>3. ThreadOfCall'
      BY <2>1, <2>2, <3>1 DEF CacheInv, ThreadOfCall, CacheTypeOK
    <3>4. WaitingTogether'
      BY <3>1 DEF CacheInv, WaitingTogether, CacheTypeOK
    <3>5. AloneKeepsObject'
      <4> SUFFICES ASSUME NEW d \in Caller \ overlapped', Refreshing(d)'
                   PROVE (/\ credentials = refreshing[d]
                          /\ calls[d] = "refreshed" => token[credentials] # "none")'
        BY DEF AloneKeepsObject
      <4>1. CASE d = c
        BY <2>1, <3>1, <4>1 DEF CacheInv, CacheTypeOK
      <4>2. CASE d # c
        <5>1. Refreshing(d) /\ calls'[d] = calls[d] /\ refreshing'[d] = refreshing[d]
          BY <3>1, <4>2 DEF CacheInv, CacheTypeOK
        <5>2. d \in Others(c)
          BY <4>2, <5>1
        <5> QED BY <3>1, <5>2
      <4> QED BY <4>1, <4>2
    <3>6. AloneGetsToken'
      BY <3>1 DEF CacheInv, AloneGetsToken, CacheTypeOK
    <3> QED BY <2>3, <3>2, <3>3, <3>4, <3>5, <3>6
  <2>5. CASE ~NeedsRefresh(o)
    <3>1. /\ calls' = [calls EXCEPT ![c] = "valid"] /\ overlapped' = overlapped \ {c}
          /\ refreshing' = refreshing /\ threads' = threads
      BY <2>1, <2>5 DEF UseCredentials, NeedsRefresh
    <3>2. WaitsForObject'
      BY <3>1 DEF CacheInv, WaitsForObject, CacheTypeOK
    <3>3. ThreadOfCall'
      BY <3>1 DEF CacheInv, ThreadOfCall, CacheTypeOK
    <3>4. WaitingTogether'
      BY <3>1 DEF CacheInv, WaitingTogether, CacheTypeOK
    <3>5. AloneKeepsObject'
      BY <2>1, <2>2, <3>1 DEF CacheInv, AloneKeepsObject, WaitsForObject, CacheTypeOK
    <3>6. AloneGetsToken'
      BY <3>1 DEF CacheInv, AloneGetsToken, CacheTypeOK
    <3> QED BY <2>3, <3>2, <3>3, <3>4, <3>5, <3>6
  <2> QED BY <2>4, <2>5
<1>2. ASSUME NEW c \in Caller, LoadFails(c) PROVE Rest'
  BY <1>2 DEF LoadFails, CacheInv, CacheTypeOK, WaitsForObject, ThreadOfCall,
              WaitingTogether, AloneKeepsObject, NoBrokenCredentials,
              AloneGetsToken
<1>3. ASSUME NEW c \in Caller, Resume(c) PROVE Rest'
  <2>1. /\ calls[c] = "refreshed" /\ Refreshing(c)
        /\ calls' = [calls EXCEPT ![c] = IF credentials = None THEN "attribute_error"
                                   ELSE token[credentials]]
        /\ calls'[c] \in Idle
    BY <1>3 DEF Resume, CacheInv, CacheTypeOK
  <2>2. UNCHANGED <<credentials, loads, token, refreshing, threads, overlapped, broken>>
    BY <1>3 DEF Resume
  <2>3. AloneGetsToken'
    <3>1. c \notin overlapped => credentials # None /\ token[credentials] # "none"
      BY <2>1 DEF CacheInv, AloneKeepsObject, WaitsForObject
    <3>2. c \notin overlapped => calls'[c] \in {"valid", "stale"}
      BY <2>1, <3>1 DEF CacheInv, CacheTypeOK
    <3> QED BY <2>1, <2>2, <3>2 DEF CacheInv, AloneGetsToken, CacheTypeOK
  <2>4. WaitsForObject' /\ ThreadOfCall'
    BY <2>1, <2>2 DEF CacheInv, CacheTypeOK, WaitsForObject, ThreadOfCall
  <2>5. WaitingTogether' /\ AloneKeepsObject' /\ NoBrokenCredentials'
    BY <2>1, <2>2 DEF CacheInv, CacheTypeOK, WaitingTogether, AloneKeepsObject,
                      NoBrokenCredentials
  <2> QED BY <2>3, <2>4, <2>5
<1>4. ASSUME NEW c \in Caller, ResumeFails(c) \/ CancelCall(c) PROVE Rest'
  <2>1. PICK error \in {"refresh_error", "cancelled"} : Drop(c, error)
    BY <1>4 DEF ResumeFails, CancelCall
  <2>2. Refreshing(c)
    BY <1>4 DEF ResumeFails, CancelCall
  <2>3. /\ credentials' = None /\ broken' = broken \cup {refreshing[c]}
        /\ calls' = [calls EXCEPT ![c] = error]
        /\ UNCHANGED <<loads, token, refreshing, threads, overlapped>>
    BY <2>1 DEF Drop, CredentialsAfter
  <2>4. NoBrokenCredentials'
    BY <2>2, <2>3 DEF CacheInv, CacheTypeOK, WaitsForObject, NoBrokenCredentials
  <2>5. AloneKeepsObject'
    BY <2>2, <2>3 DEF CacheInv, CacheTypeOK, WaitingTogether, AloneKeepsObject
  <2>6. WaitsForObject' /\ ThreadOfCall' /\ WaitingTogether'
    BY <2>3 DEF CacheInv, CacheTypeOK, WaitsForObject, ThreadOfCall, WaitingTogether
  <2>7. AloneGetsToken'
    BY <2>3 DEF CacheInv, CacheTypeOK, AloneGetsToken
  <2> QED BY <2>4, <2>5, <2>6, <2>7
<1>5. ASSUME NEW c \in Caller, NEW o \in Object, NEW ok \in BOOLEAN,
             ThreadEnds(c, o, ok)
      PROVE Rest'
  <2>1. /\ <<c, o>> \in threads /\ threads' = threads \ {<<c, o>>}
        /\ token' = [token EXCEPT ![o] = IF ok THEN "valid" ELSE @]
        /\ calls' = IF calls[c] = "refreshing"
                 THEN [calls EXCEPT ![c] = IF ok THEN "refreshed" ELSE "refresh_failed"]
                 ELSE calls
        /\ UNCHANGED <<credentials, loads, refreshing, overlapped, broken>>
    BY <1>5 DEF ThreadEnds
  <2>2. \A d \in Caller : Refreshing(d)' <=> Refreshing(d)
    BY <2>1 DEF CacheInv, CacheTypeOK
  <2>3. WaitsForObject' /\ ThreadOfCall' /\ WaitingTogether' /\ NoBrokenCredentials'
    BY <2>1, <2>2 DEF CacheInv, WaitsForObject, ThreadOfCall, WaitingTogether,
                      NoBrokenCredentials
  <2>4. AloneGetsToken'
    BY <2>1 DEF CacheInv, CacheTypeOK, AloneGetsToken
  <2>5. AloneKeepsObject'
    <3> SUFFICES ASSUME NEW d \in Caller \ overlapped, Refreshing(d)
                 PROVE (/\ credentials = refreshing[d]
                        /\ calls[d] = "refreshed" => token[credentials] # "none")'
      BY <2>1, <2>2 DEF AloneKeepsObject
    <3>1. credentials' = refreshing'[d] /\ credentials \in Object
      BY <2>1 DEF CacheInv, CacheTypeOK, AloneKeepsObject, WaitsForObject
    <3>2. ASSUME calls'[d] = "refreshed" PROVE token'[credentials] # "none"
      <4>1. CASE calls[d] = "refreshed"
        BY <2>1, <3>1, <4>1 DEF CacheInv, CacheTypeOK, AloneKeepsObject
      <4>2. CASE calls[d] # "refreshed"
        <5>1. d = c /\ ok
          BY <2>1, <3>2, <4>2 DEF CacheInv, CacheTypeOK
        <5>2. o = credentials
          BY <2>1, <5>1 DEF CacheInv, ThreadOfCall, AloneKeepsObject
        <5> QED BY <2>1, <3>1, <5>1, <5>2 DEF CacheInv, CacheTypeOK
      <4> QED BY <4>1, <4>2
    <3> QED BY <2>1, <3>1, <3>2
  <2> QED BY <2>3, <2>4, <2>5
<1>6. ASSUME NEW o \in Object, Expire(o) PROVE Rest'
  BY <1>6 DEF Expire, CacheInv, CacheTypeOK, WaitsForObject, ThreadOfCall,
              WaitingTogether, AloneKeepsObject, NoBrokenCredentials,
              AloneGetsToken
<1>7. CASE UNCHANGED cacheVars
  BY <1>7 DEF cacheVars, CacheInv, WaitsForObject, ThreadOfCall, WaitingTogether,
              AloneKeepsObject, NoBrokenCredentials, AloneGetsToken
<1> QED BY <1>0, <1>1, <1>2, <1>3, <1>4, <1>5, <1>6, <1>7 DEF CacheNext, CacheInv

(* The invariant holds in every reachable state.                           *)
THEOREM CacheInvariant ==
  CacheSpec => []CacheInv
<1>1. CacheInit => CacheInv
  BY DEF CacheInit, CacheInv, CacheTypeOK, WaitsForObject, ThreadOfCall, WaitingTogether,
         AloneKeepsObject, NoBrokenCredentials, AloneGetsToken
<1> QED BY <1>1, CacheInvKept, PTL DEF CacheSpec

(* Every variable keeps its type, with any number of callers.              *)
THEOREM CacheTypeCorrect ==
  CacheSpec => []CacheTypeOK
BY CacheInvariant, PTL DEF CacheInv

(* An object whose refresh failed or was cancelled is never cached again,  *)
(* whatever the other callers do (_googlechat_internals.py:83-100).        *)
THEOREM BrokenCredentialsDropped ==
  CacheSpec => []NoBrokenCredentials
BY CacheInvariant, PTL DEF CacheInv

(* A call no other refresh overlapped gets a fetched token, or raises what *)
(* google-auth raised (_googlechat_internals.py:64-101).                   *)
THEOREM AloneIsSafe ==
  CacheSpec => []AloneGetsToken
BY CacheInvariant, PTL DEF CacheInv
=============================================================================
