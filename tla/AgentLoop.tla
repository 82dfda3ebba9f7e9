------------------------------ MODULE AgentLoop ------------------------------
(***************************************************************************)
(* Agent.run (core/agent.py): the bounded loop that asks the model for the *)
(* next action, parses it, dispatches skills through                       *)
(*     lookup -> validate_args -> pre_hook -> body -> post_hook            *)
(* and records every action and observation on the EventStream.            *)
(*                                                                         *)
(* The loop is one thread, but every stage hands control to code the       *)
(* framework does not own (the model, hooks, skill bodies), so each stage  *)
(* is an action of its own whose outcome is chosen there.                  *)
(***************************************************************************)
EXTENDS Integers, Sequences

CONSTANTS Skill,          \* the skill names a model can emit
          MaxIterations,  \* max_iterations of Agent.run (default 8)
          MaxRetries      \* max_retries of Agent.run (default 3)

ASSUME BudgetAssumption == MaxIterations \in Nat /\ MaxRetries \in Nat

VARIABLES
  registry,   \* registered skill name -> which hooks its instance carries
  stream,     \* state.stream.events
  iteration,  \* decision steps whose outcome the loop has received
  retries,    \* retries_for_last_action
  pc,         \* the stage the loop is in
  value,      \* what the skill body returned, between body and post_hook
  executed    \* history: positions of the calls for which the skill was invoked

vars == <<registry, stream, iteration, retries, pc, value, executed>>

-----------------------------------------------------------------------------
(* Events.                                                                 *)

(* A skill result is a plain value or a Result wrapper, and may hold an    *)
(* object copy.deepcopy cannot copy (a lock, a socket, a generator).       *)
Value == [wrap : {"plain", "ok", "failed"}, copyable : BOOLEAN]
NoValue == [wrap |-> "none", copyable |-> TRUE]

Hooks == [pre : BOOLEAN, post : BOOLEAN]

DispatchStage == {"lookup", "validate", "pre_hook", "body", "post_hook"}
ParserName == {"action_parse", "non_empty_final_answer"}

Call(s) == [kind |-> "call", skill |-> s]
FinalAnswer == [kind |-> "final"]
SkillResult(s, v) == [kind |-> "result", skill |-> s, copyable |-> v.copyable]
ToolError(s, stage) == [kind |-> "tool_error", skill |-> s, stage |-> stage]
ValidationError(name) == [kind |-> "validation_error", validator |-> name]
MaxIterationsReached(n, trace) ==
  [kind |-> "max_iterations", iterations |-> n, partial_state |-> trace]

IsAction(e) == e.kind \in {"call", "final"}
LastEvent(s) == s[Len(s)]
Current == LastEvent(stream).skill  \* the skill of the call being dispatched

-----------------------------------------------------------------------------
(* What the model can emit, and the parser's verdict on it.                *)

Output == [shape  : {"not_json", "not_object", "no_action", "action"},
           answer : {"absent", "not_a_string", "empty", "blank", "text"},
           skill  : Skill \cup {"absent", "not_a_string"}]

(* An empty registry does not restrict the names: such a call is parsed    *)
(* and fails in dispatch.                                                  *)
Callable(s) == s \in Skill /\ (DOMAIN registry = {} \/ s \in DOMAIN registry)

ParseAction(raw) ==
  IF raw.shape # "action"       THEN ValidationError("action_parse")
  ELSE IF raw.answer = "text"   THEN FinalAnswer
  ELSE IF raw.answer # "absent" THEN ValidationError("non_empty_final_answer")
  ELSE IF Callable(raw.skill)   THEN Call(raw.skill)
  ELSE                               ValidationError("action_parse")

-----------------------------------------------------------------------------
(* Bookkeeping shared by the parse path and the dispatch path.             *)

(* Mutant: the retry counter is not compared with its budget.              *)
UncheckedRetries(obs) == IF obs.kind = "validation_error" THEN retries + 1 ELSE 0

RetriesAfter(obs) ==
  IF obs.kind = "validation_error" /\ retries < MaxRetries THEN retries + 1 ELSE 0

(* Mutant: a call parsed on the last permitted iteration is not dispatched. *)
SkipLastDispatch(outcome) ==
  IF outcome.kind = "final" THEN "returned"
  ELSE IF outcome.kind = "call" /\ iteration + 1 < MaxIterations THEN "lookup"
  ELSE "step"

StageAfter(outcome) ==
  IF outcome.kind = "final" THEN "returned"
  ELSE IF outcome.kind = "call" THEN "lookup"
  ELSE "step"

(* The dispatched call is answered by obs and the loop turns to the model. *)
Observe(obs) ==
  /\ stream' = Append(stream, obs)
  /\ retries' = RetriesAfter(obs)
  /\ pc' = "step"
  /\ value' = NoValue
  /\ UNCHANGED <<registry, iteration>>

ObserveError(stage) == Observe(ToolError(Current, stage))

Proceed(stage) ==
  /\ pc' = stage
  /\ UNCHANGED <<registry, stream, iteration, retries>>

-----------------------------------------------------------------------------
(* The decision step.                                                      *)

IterationsLeft == iteration < MaxIterations

(* Mutant: a rejected output is asked for again, neither recorded nor       *)
(* counted as an iteration.                                                *)
SilentRetry(raw) ==
  /\ pc = "step" /\ IterationsLeft
  /\ LET outcome == ParseAction(raw)
     IN  IF IsAction(outcome)
         THEN /\ stream' = Append(stream, outcome)
              /\ pc' = StageAfter(outcome)
              /\ iteration' = iteration + 1
              /\ UNCHANGED retries
         ELSE retries' = RetriesAfter(outcome) /\ UNCHANGED <<stream, pc, iteration>>
  /\ UNCHANGED <<registry, value, executed>>

(* step() returned: the outcome is recorded, a final answer returns from   *)
(* run(), a call goes to dispatch, a parse failure starts the next         *)
(* iteration.                                                              *)
Step(raw) ==
  /\ pc = "step" /\ IterationsLeft
  /\ LET outcome == ParseAction(raw)
     IN  /\ stream' = Append(stream, outcome)
         /\ pc' = StageAfter(outcome)
         /\ retries' = IF IsAction(outcome) THEN retries ELSE RetriesAfter(outcome)
         /\ iteration' = iteration + 1
  /\ UNCHANGED <<registry, value, executed>>

(* Building the prompt (repr of every event) or model.generate raises:     *)
(* nothing in run() catches it.                                            *)
StepRaises ==
  /\ pc = "step" /\ IterationsLeft
  /\ pc' = "raised"
  /\ UNCHANGED <<registry, stream, iteration, retries, value, executed>>

-----------------------------------------------------------------------------
(* _dispatch_skill.                                                        *)

Lookup ==
  /\ pc = "lookup"
  /\ IF Current \in DOMAIN registry
     THEN Proceed("validate") /\ UNCHANGED value
     ELSE ObserveError("lookup")
  /\ UNCHANGED executed

ValidateArgs ==
  /\ pc = "validate"
  /\ \/ Proceed("pre_hook") /\ UNCHANGED value
     \/ ObserveError("validate")
  /\ UNCHANGED executed

PreHook ==
  /\ pc = "pre_hook"
  /\ \/ Proceed("body") /\ UNCHANGED value
     \/ registry[Current].pre /\ ObserveError("pre_hook")
  /\ UNCHANGED executed

(* Mutant: one try block spans validation and body, so a body that raised  *)
(* is reported as rejected arguments.                                      *)
BodyInValidationTry ==
  /\ pc = "body"
  /\ executed' = Append(executed, Len(stream))
  /\ \/ \E v \in Value : Proceed("post_hook") /\ value' = v
     \/ ObserveError("validate")

(* The skill is invoked once the arguments passed; it may act on the       *)
(* outside world and still raise.                                          *)
Body ==
  /\ pc = "body"
  /\ executed' = Append(executed, Len(stream))
  /\ \/ \E v \in Value : Proceed("post_hook") /\ value' = v
     \/ ObserveError("body")

(* A failed Result becomes a validation error naming the hook, everything  *)
(* else the skill's result.                                                *)
Outcome(v) ==
  IF v.wrap = "failed" THEN ValidationError("hook") ELSE SkillResult(Current, v)

(* Mutant: the raw result is recorded before the hook's verdict.           *)
RecordBeforeHook ==
  /\ pc = "post_hook"
  /\ \/ ~registry[Current].post /\ Observe(Outcome(value))
     \/ registry[Current].post /\ ObserveError("post_hook")
     \/ /\ registry[Current].post
        /\ \E v \in Value :
             /\ stream' = stream \o <<SkillResult(Current, value), Outcome(v)>>
             /\ retries' = RetriesAfter(Outcome(v))
             /\ pc' = "step" /\ value' = NoValue
             /\ UNCHANGED <<registry, iteration>>
  /\ UNCHANGED executed

(* A post_hook replaces the result; without one the body's value stands.   *)
PostHook ==
  /\ pc = "post_hook"
  /\ \/ ~registry[Current].post /\ Observe(Outcome(value))
     \/ registry[Current].post /\ ObserveError("post_hook")
     \/ registry[Current].post /\ \E v \in Value : Observe(Outcome(v))
  /\ UNCHANGED executed

-----------------------------------------------------------------------------
(* Exhaustion.                                                             *)

Copyable(trace) == \A k \in 1..Len(trace) : trace[k].kind = "result" => trace[k].copyable

Exhausted(trace) == Append(trace, MaxIterationsReached(MaxIterations, trace))

(* The stream is deep-copied, then the observation holding the copy is     *)
(* appended. copy.deepcopy raises on a result it cannot copy.              *)
Exhaust ==
  /\ pc = "step" /\ ~IterationsLeft
  /\ IF Copyable(stream)
     THEN stream' = Exhausted(stream) /\ pc' = "returned"
     ELSE pc' = "raised" /\ UNCHANGED stream
  /\ UNCHANGED <<registry, iteration, retries, value, executed>>

-----------------------------------------------------------------------------
Init ==
  /\ \E names \in SUBSET Skill : registry \in [names -> Hooks]
  /\ stream = <<>> /\ executed = <<>>
  /\ iteration = 0 /\ retries = 0
  /\ pc = "step" /\ value = NoValue

Dispatch == Lookup \/ ValidateArgs \/ PreHook \/ Body \/ PostHook

Next == (\E raw \in Output : Step(raw)) \/ StepRaises \/ Dispatch \/ Exhaust

(* The loop is the calling thread: once the model, the hooks and the body  *)
(* return, it always takes its next step.                                  *)
Spec == Init /\ [][Next]_vars /\ WF_vars(Next)
-----------------------------------------------------------------------------
(* Properties.                                                             *)

Stage == {"step", "returned", "raised"} \cup DispatchStage

Event == [kind : {"call"}, skill : Skill]
    \cup [kind : {"final"}]
    \cup [kind : {"result"}, skill : Skill, copyable : BOOLEAN]
    \cup [kind : {"tool_error"}, skill : Skill, stage : DispatchStage]
    \cup [kind : {"validation_error"}, validator : ParserName \cup {"hook"}]

Exhaustion == [kind : {"max_iterations"}, iterations : Nat, partial_state : Seq(Event)]

(* Every variable keeps its type. The retry counter stays within its       *)
(* budget, the iteration counter within max_iterations, and a dispatch     *)
(* stage always has a call of a known skill to work on (agent.py:130-162). *)
TypeOK ==
  /\ registry \in UNION {[names -> Hooks] : names \in SUBSET Skill}
  /\ stream \in Seq(Event \cup Exhaustion)
  /\ executed \in Seq(1..Len(stream))
  /\ iteration \in 0..MaxIterations
  /\ retries \in 0..MaxRetries
  /\ pc \in Stage
  /\ value \in Value \cup {NoValue}
  /\ pc = "post_hook" <=> value # NoValue
  /\ pc \in DispatchStage =>
       stream # <<>> /\ LastEvent(stream).kind = "call" /\ LastEvent(stream).skill \in Skill
  /\ pc \in DispatchStage \ {"lookup"} => Current \in DOMAIN registry

Answers(obs, call) ==
  \/ obs.kind \in {"result", "tool_error"} /\ obs.skill = call.skill
  \/ obs.kind = "validation_error" /\ obs.validator = "hook"

(* A call is followed by exactly one observation, which answers it, and    *)
(* results, tool errors and hook rejections appear nowhere else: the model *)
(* never reads a trace in which an answer belongs to another call          *)
(* (agent.py:147-163).                                                     *)
CallsAndAnswersPair ==
  \A k \in 1..Len(stream) :
    /\ stream[k].kind = "call" =>
         IF k = Len(stream) THEN pc \in DispatchStage ELSE Answers(stream[k + 1], stream[k])
    /\ (stream[k].kind \in {"result", "tool_error"} \/ stream[k] = ValidationError("hook"))
         => k > 1 /\ stream[k - 1].kind = "call"

(* A skill is invoked at most once per call the model made: a failed       *)
(* validation or hook never makes the framework run it again               *)
(* (agent.py:384-420).                                                     *)
BodyRunsAtMostOnce ==
  \A i, j \in 1..Len(executed) : i # j => executed[i] # executed[j]

Ran(log, k) == \E i \in 1..Len(log) : log[i] = k

RejectedEarly(obs) ==
  obs.kind = "tool_error" /\ obs.stage \in {"lookup", "validate", "pre_hook"}

(* What the model is told agrees with what happened: the answer to a call  *)
(* reports a rejection ahead of the body exactly when the skill was never  *)
(* invoked, so the model can tell a call that is safe to repeat            *)
(* (agent.py:351-393).                                                     *)
AnswerTellsWhetherBodyRan ==
  \A k \in 1..(Len(stream) - 1) : stream[k].kind = "call" =>
    (RejectedEarly(stream[k + 1]) <=> ~Ran(executed, k))

(* The run ends with its verdict and only then: the last event of a        *)
(* returned run is a final answer or the exhaustion record holding the     *)
(* whole earlier trace, no such event occurs earlier, and exhaustion is    *)
(* recorded only after max_iterations decisions (agent.py:119-123).        *)
VerdictEndsTheTrace ==
  \A k \in 1..Len(stream) : stream[k].kind \in {"final", "max_iterations"} =>
    /\ k = Len(stream) /\ pc = "returned"
    /\ stream[k].kind = "max_iterations" =>
         /\ iteration = MaxIterations
         /\ stream[k].partial_state = SubSeq(stream, 1, k - 1)

(* max_iterations bounds the work of a run: each decision adds at most a   *)
(* call and its answer, and one more event ends the trace.                 *)
TraceWithinBudget == Len(stream) <= 2 * iteration + 1 /\ iteration <= MaxIterations

(* The event stream is append-only and is closed by the return of run().   *)
TraceOnlyGrows ==
  [][ /\ Len(stream') >= Len(stream)
      /\ SubSeq(stream', 1, Len(stream)) = stream
      /\ pc \notin {"returned", "raised"} ]_stream

(* Whatever the model and the skills answer, run() comes to an end.        *)
RunEnds == <>(pc \in {"returned", "raised"})

(* The abstract dialogue, seen through the loop's state.                   *)
StatusOfRun ==
  IF pc = "step"               THEN "model"
  ELSE IF pc \in DispatchStage THEN "tool"
  ELSE IF pc = "raised"        THEN "broken"
  ELSE IF LastEvent(stream).kind = "final" THEN "answered" ELSE "exhausted"

Dialogue == INSTANCE AgentDialogue
  WITH Budget <- MaxIterations, Utterance <- Event,
       trace <- stream, turns <- iteration, status <- StatusOfRun

(* The loop keeps the dialogue's promises: turns alternate, every call     *)
(* gets one reply, the budget is kept, and the dialogue closes.            *)
ImplementsDialogue == Dialogue!Spec

=============================================================================
