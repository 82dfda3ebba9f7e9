---------------------------- MODULE AgentProofs -----------------------------
(***************************************************************************)
(* Theorems about AgentLoop and ToolCallGrammar, for every set of skills   *)
(* and every budget, and about ChatProviders, for all tools, replies and   *)
(* conversations.                                                          *)
(***************************************************************************)
EXTENDS ToolCallGrammar, ChatProviders, SequenceTheorems, TLAPS

(***************************************************************************)
(* TypeOK is not inductive by itself: that a dispatch stage finds its call *)
(* at the end of the trace is kept only because every stage either leaves  *)
(* the trace alone or answers the call, which TypeOK already says, so its  *)
(* only missing part is that exhaustion copies a trace of plain events.    *)
(***************************************************************************)
OpenTrace == pc \notin {"returned"} => stream \in Seq(Event)

TypeInv == TypeOK /\ OpenTrace

LEMMA ParseActionType ==
  ASSUME NEW raw \in Output
  PROVE  ParseAction(raw) \in [kind : {"call"}, skill : Skill]
           \cup [kind : {"final"}]
           \cup [kind : {"validation_error"}, validator : ParserName]
BY DEF ParseAction, Callable, ValidationError, FinalAnswer, Call, ParserName, Output

LEMMA InitType == Init => TypeInv
<1> SUFFICES ASSUME Init PROVE TypeInv
  OBVIOUS
<1>1. registry \in UNION {[names -> Hooks] : names \in SUBSET Skill}
  BY DEF Init
<1>2. QED
  BY <1>1, BudgetAssumption
     DEF Init, TypeInv, TypeOK, OpenTrace, Stage, NoValue, Value, DispatchStage

LEMMA SeqMonotone ==
  ASSUME NEW S, NEW T, S \subseteq T, NEW s \in Seq(S)
  PROVE  s \in Seq(T)
<1>1. s \in [1..Len(s) -> S] /\ Len(s) \in Nat
  OBVIOUS
<1>2. s \in [1..Len(s) -> T]
  BY <1>1
<1>3. QED
  BY <1>1, <1>2

(* Recording the answer to the current call keeps the types.               *)
LEMMA ObserveType ==
  ASSUME TypeInv, pc \in DispatchStage,
         NEW obs \in Event, obs.kind # "call",
         Observe(obs), executed' \in Seq(1..Len(stream))
  PROVE  TypeInv'
<1>1. stream \in Seq(Event) /\ Len(stream) \in Nat
  BY DEF TypeInv, OpenTrace, DispatchStage
<1>2. stream' \in Seq(Event) /\ Len(stream') = Len(stream) + 1
  BY <1>1 DEF Observe
<1>3. executed' \in Seq(1..Len(stream'))
  BY <1>1, <1>2, SeqMonotone, 1..Len(stream) \subseteq 1..Len(stream')
<1>4. retries' \in 0..MaxRetries
  BY BudgetAssumption DEF TypeInv, TypeOK, Observe, RetriesAfter
<1>5. stream' \in Seq(Event \cup Exhaustion)
  BY <1>2
<1>6. pc' = "step" /\ value' = NoValue /\ registry' = registry /\ iteration' = iteration
  BY DEF Observe
<1>7. QED
  BY <1>2, <1>3, <1>4, <1>5, <1>6
     DEF TypeInv, TypeOK, OpenTrace, Stage, DispatchStage

(* What dispatch can record is an event.                                   *)
LEMMA CurrentSkill ==
  ASSUME TypeInv, pc \in DispatchStage
  PROVE  Current \in Skill
BY DEF TypeInv, TypeOK, Current

LEMMA ObservationTypes ==
  ASSUME TypeInv, pc \in DispatchStage
  PROVE  /\ \A stage \in DispatchStage :
              ToolError(Current, stage) \in Event /\ ToolError(Current, stage).kind = "tool_error"
         /\ \A v \in Value : Outcome(v) \in Event /\ Outcome(v).kind # "call"
<1>1. Current \in Skill
  BY CurrentSkill
<1>2. ASSUME NEW stage \in DispatchStage
      PROVE  ToolError(Current, stage) \in Event /\ ToolError(Current, stage).kind = "tool_error"
  BY <1>1 DEF ToolError, Event
<1>3. ASSUME NEW v \in Value
      PROVE  Outcome(v) \in Event /\ Outcome(v).kind # "call"
  <2>1. SkillResult(Current, v) \in Event /\ SkillResult(Current, v).kind = "result"
    BY <1>1 DEF SkillResult, Event, Value
  <2>2. ValidationError("hook") \in Event /\ ValidationError("hook").kind = "validation_error"
    BY DEF ValidationError, Event
  <2>3. QED
    BY <2>1, <2>2 DEF Outcome
<1>4. QED
  BY <1>2, <1>3

LEMMA NextType == TypeInv /\ [Next]_vars => TypeInv'
<1> SUFFICES ASSUME TypeInv, [Next]_vars PROVE TypeInv'
  OBVIOUS
<1>1. ASSUME NEW raw \in Output, Step(raw) PROVE TypeInv'
  <2> DEFINE e == ParseAction(raw)
  <2>1. e \in [kind : {"call"}, skill : Skill] \cup [kind : {"final"}]
             \cup [kind : {"validation_error"}, validator : ParserName]
    BY ParseActionType
  <2>2. e \in Event
    BY <2>1 DEF Event, ParserName
  <2>3. stream \in Seq(Event) /\ stream' = Append(stream, e)
    BY <1>1 DEF TypeInv, OpenTrace, Step
  <2>4. stream' \in Seq(Event) /\ stream' # <<>> /\ LastEvent(stream') = e
        /\ Len(stream') = Len(stream) + 1
    BY <2>2, <2>3 DEF LastEvent
  <2>5. stream' \in Seq(Event \cup Exhaustion)
    BY <2>4
  <2>6. executed' \in Seq(1..Len(stream'))
    <3>1. executed' = executed /\ 1..Len(stream) \subseteq 1..Len(stream')
      BY <1>1, <2>3, <2>4 DEF Step
    <3>2. QED
      BY <3>1, SeqMonotone DEF TypeInv, TypeOK
  <2>7. iteration' \in 0..MaxIterations /\ retries' \in 0..MaxRetries
    BY <1>1, BudgetAssumption
       DEF TypeInv, TypeOK, Step, IterationsLeft, RetriesAfter
  <2>8. pc' = StageAfter(e) /\ value' = NoValue /\ registry' = registry
    BY <1>1 DEF Step, TypeInv, TypeOK
  <2>9. pc' \in {"returned", "lookup", "step"} /\ (pc' = "lookup" => e.kind = "call")
    BY <2>8 DEF StageAfter
  <2>10. e.kind = "call" => e.skill \in Skill
    BY <2>1
  <2> HIDE DEF e
  <2>11. QED
    BY <2>4, <2>5, <2>6, <2>7, <2>8, <2>9, <2>10
       DEF TypeInv, TypeOK, OpenTrace, Stage, DispatchStage
<1>2. CASE StepRaises
  BY <1>2 DEF StepRaises, TypeInv, TypeOK, OpenTrace, Stage, DispatchStage
<1> executed \in Seq(1..Len(stream))
  BY DEF TypeInv, TypeOK
<1>3. CASE Lookup
  <2>1. CASE Current \in DOMAIN registry
    BY <1>3, <2>1 DEF Lookup, Proceed, TypeInv, TypeOK, OpenTrace, Stage, DispatchStage, Current, LastEvent
  <2>2. CASE Current \notin DOMAIN registry
    BY <1>3, <2>2, ObservationTypes, ObserveType DEF Lookup, ObserveError, DispatchStage
  <2>3. QED
    BY <2>1, <2>2
<1>4. CASE ValidateArgs
  <2>1. CASE Proceed("pre_hook") /\ UNCHANGED value
    BY <1>4, <2>1 DEF ValidateArgs, Proceed, TypeInv, TypeOK, OpenTrace, Stage, DispatchStage, Current, LastEvent
  <2>2. CASE ObserveError("validate")
    BY <1>4, <2>2, ObservationTypes, ObserveType DEF ValidateArgs, ObserveError, DispatchStage
  <2>3. QED
    BY <1>4, <2>1, <2>2 DEF ValidateArgs
<1>5. CASE PreHook
  <2>1. CASE Proceed("body") /\ UNCHANGED value
    BY <1>5, <2>1 DEF PreHook, Proceed, TypeInv, TypeOK, OpenTrace, Stage, DispatchStage, Current, LastEvent
  <2>2. CASE ObserveError("pre_hook")
    BY <1>5, <2>2, ObservationTypes, ObserveType DEF PreHook, ObserveError, DispatchStage
  <2>3. QED
    BY <1>5, <2>1, <2>2 DEF PreHook
<1>6. CASE Body
  <2>1. executed' \in Seq(1..Len(stream))
    <3>1. Len(stream) \in 1..Len(stream)
      BY <1>6 DEF Body, TypeInv, TypeOK, DispatchStage
    <3>2. QED
      BY <1>6, <3>1 DEF Body
  <2>2. CASE \E v \in Value : Proceed("post_hook") /\ value' = v
    <3>1. value' \in Value /\ value' # NoValue
      BY <2>2 DEF Value, NoValue
    <3>2. QED
      BY <1>6, <2>1, <2>2, <3>1
         DEF Body, Proceed, TypeInv, TypeOK, OpenTrace, Stage, DispatchStage, Current, LastEvent
  <2>3. CASE ObserveError("body")
    BY <1>6, <2>1, <2>3, ObservationTypes, ObserveType DEF Body, ObserveError, DispatchStage
  <2>4. QED
    BY <1>6, <2>2, <2>3 DEF Body
<1>7. CASE PostHook
  <2>1. value \in Value /\ pc \in DispatchStage /\ executed' \in Seq(1..Len(stream))
    BY <1>7 DEF PostHook, TypeInv, TypeOK, DispatchStage
  <2>2. CASE Observe(Outcome(value))
    BY <2>1, <2>2, ObservationTypes, ObserveType
  <2>3. CASE ObserveError("post_hook")
    BY <2>1, <2>3, ObservationTypes, ObserveType DEF ObserveError, DispatchStage
  <2>4. CASE \E v \in Value : Observe(Outcome(v))
    BY <2>1, <2>4, ObservationTypes, ObserveType
  <2>5. QED
    BY <1>7, <2>2, <2>3, <2>4 DEF PostHook
<1>8. CASE Exhaust
  <2>1. CASE Copyable(stream)
    <3> DEFINE e == MaxIterationsReached(MaxIterations, stream)
    <3>1. stream \in Seq(Event)
      BY <1>8 DEF Exhaust, TypeInv, OpenTrace
    <3>2. e \in Exhaustion
      BY <3>1, BudgetAssumption DEF MaxIterationsReached, Exhaustion
    <3>3. stream' = Append(stream, e)
      BY <1>8, <2>1 DEF Exhaust, Exhausted
    <3> HIDE DEF e
    <3>4. stream' \in Seq(Event \cup Exhaustion) /\ 1..Len(stream) \subseteq 1..Len(stream')
      BY <3>1, <3>2, <3>3
    <3>5. executed' \in Seq(1..Len(stream'))
      BY <1>8, <3>4, SeqMonotone DEF Exhaust
    <3>6. QED
      BY <1>8, <2>1, <3>4, <3>5
         DEF Exhaust, TypeInv, TypeOK, OpenTrace, Stage, DispatchStage
  <2>2. CASE ~Copyable(stream)
    BY <1>8, <2>2 DEF Exhaust, TypeInv, TypeOK, OpenTrace, Stage, DispatchStage
  <2>3. QED
    BY <2>1, <2>2
<1>9. CASE UNCHANGED vars
  BY <1>9 DEF vars, TypeInv, TypeOK, OpenTrace, Current, LastEvent
<1>10. QED
  BY <1>1, <1>2, <1>3, <1>4, <1>5, <1>6, <1>7, <1>8, <1>9 DEF Next, Dispatch

(* Every reachable state is well typed, whatever the skills, the budgets   *)
(* and the model's outputs.                                                *)
THEOREM TypeCorrect == Spec => []TypeOK
<1>1. TypeInv => TypeOK
  BY DEF TypeInv
<1>2. QED
  BY <1>1, InitType, NextType, PTL DEF Spec

-----------------------------------------------------------------------------
(***************************************************************************)
(* The budget. TraceWithinBudget alone does not survive a step: two events *)
(* per decision hold only between decisions, and a dispatch stage has one  *)
(* event of its decision still to come.                                    *)
(***************************************************************************)
BudgetInv ==
  /\ pc \in DispatchStage => Len(stream) <= 2 * iteration - 1
  /\ pc = "step" => Len(stream) <= 2 * iteration
  /\ Len(stream) <= 2 * iteration + 1

LEMMA InitBudget == Init => BudgetInv
BY DEF Init, BudgetInv, DispatchStage

LEMMA NextBudget == TypeInv /\ BudgetInv /\ [Next]_vars => BudgetInv'
<1> SUFFICES ASSUME TypeInv, BudgetInv, [Next]_vars PROVE BudgetInv'
  OBVIOUS
<1> /\ Len(stream) \in Nat /\ iteration \in Nat
    /\ \A e : Len(Append(stream, e)) = Len(stream) + 1
  BY BudgetAssumption DEF TypeInv, TypeOK
<1>1. ASSUME NEW raw \in Output, Step(raw) PROVE BudgetInv'
  BY <1>1 DEF Step, StageAfter, BudgetInv, DispatchStage
<1>2. ASSUME NEW obs, pc \in DispatchStage, Observe(obs) PROVE BudgetInv'
  BY <1>2 DEF Observe, BudgetInv, DispatchStage
<1>3. ASSUME NEW stage \in DispatchStage, pc \in DispatchStage, Proceed(stage)
      PROVE  BudgetInv'
  BY <1>3 DEF Proceed, BudgetInv, DispatchStage
<1>4. CASE Dispatch
  BY <1>2, <1>3, <1>4
     DEF Dispatch, Lookup, ValidateArgs, PreHook, Body, PostHook, ObserveError, DispatchStage
<1>5. CASE StepRaises
  BY <1>5 DEF StepRaises, BudgetInv, DispatchStage
<1>6. CASE Exhaust
  BY <1>6 DEF Exhaust, Exhausted, BudgetInv, DispatchStage
<1>7. CASE UNCHANGED vars
  BY <1>7 DEF vars, BudgetInv
<1>8. QED
  BY <1>1, <1>4, <1>5, <1>6, <1>7 DEF Next

(* No run records more than two events per decision and a verdict, and no  *)
(* run takes more than max_iterations decisions.                           *)
THEOREM BudgetKept == Spec => []TraceWithinBudget
<1>1. TypeInv /\ BudgetInv => TraceWithinBudget
  BY BudgetAssumption DEF TypeInv, TypeOK, BudgetInv, TraceWithinBudget
<1>2. QED
  BY <1>1, InitType, NextType, InitBudget, NextBudget, PTL DEF Spec

-----------------------------------------------------------------------------
(***************************************************************************)
(* The verdict. VerdictEndsTheTrace is inductive given the types: a trace  *)
(* is extended only before the run returned, hence only while it holds no  *)
(* verdict.                                                                *)
(***************************************************************************)
LEMMA InitVerdict == Init => VerdictEndsTheTrace
BY DEF Init, VerdictEndsTheTrace

LEMMA NextVerdict ==
  TypeInv /\ VerdictEndsTheTrace /\ [Next]_vars => VerdictEndsTheTrace'
<1> SUFFICES ASSUME TypeInv, VerdictEndsTheTrace, [Next]_vars PROVE VerdictEndsTheTrace'
  OBVIOUS
<1> DEFINE Verdict(e) == e.kind \in {"final", "max_iterations"}
<1>0. stream \in Seq(Event \cup Exhaustion) /\ Len(stream) \in Nat
  BY DEF TypeInv, TypeOK
<1>1. pc # "returned" => \A k \in 1..Len(stream) : ~Verdict(stream[k])
  BY DEF VerdictEndsTheTrace
<1>2. ASSUME NEW e, ~Verdict(e), pc # "returned", stream' = Append(stream, e)
      PROVE  VerdictEndsTheTrace'
  <2>1. \A k \in 1..Len(stream') : ~Verdict(stream'[k])
    BY <1>0, <1>1, <1>2
  <2>2. QED
    BY <2>1 DEF VerdictEndsTheTrace
<1>3. ASSUME pc # "returned", UNCHANGED stream PROVE VerdictEndsTheTrace'
  BY <1>1, <1>3 DEF VerdictEndsTheTrace
<1>4. ASSUME NEW raw \in Output, Step(raw) PROVE VerdictEndsTheTrace'
  <2> DEFINE e == ParseAction(raw)
  <2>1. stream' = Append(stream, e) /\ pc = "step" /\ pc' = StageAfter(e)
    BY <1>4 DEF Step
  <2>2. e.kind # "max_iterations"
    BY ParseActionType
  <2> HIDE DEF e
  <2>3. CASE e.kind # "final"
    BY <1>2, <2>1, <2>2, <2>3
  <2>4. CASE e.kind = "final"
    <3>1. pc' = "returned"
      BY <2>1, <2>4 DEF StageAfter
    <3>2. \A k \in 1..Len(stream') : Verdict(stream'[k]) => k = Len(stream') /\ stream'[k] = e
      BY <1>0, <1>1, <2>1
    <3>3. QED
      BY <2>4, <3>1, <3>2 DEF VerdictEndsTheTrace
  <2>5. QED
    BY <2>3, <2>4
<1>5. ASSUME pc \in DispatchStage, NEW stage \in DispatchStage, ObserveError(stage)
      PROVE  VerdictEndsTheTrace'
  BY <1>2, <1>5 DEF ObserveError, Observe, ToolError, DispatchStage
<1>6. ASSUME pc \in DispatchStage, NEW v \in Value, Observe(Outcome(v))
      PROVE  VerdictEndsTheTrace'
  <2>1. ~Verdict(Outcome(v))
    BY DEF Outcome, SkillResult, ValidationError
  <2>2. QED
    BY <1>2, <1>6, <2>1 DEF Observe, DispatchStage
<1>7. ASSUME pc \in DispatchStage, NEW stage, Proceed(stage)
      PROVE  VerdictEndsTheTrace'
  BY <1>3, <1>7 DEF Proceed, DispatchStage
<1>8. CASE Dispatch
  <2>1. pc \in DispatchStage /\ (pc = "post_hook" => value \in Value)
    BY <1>8 DEF Dispatch, Lookup, ValidateArgs, PreHook, Body, PostHook, DispatchStage,
                TypeInv, TypeOK
  <2>2. QED
    BY <1>5, <1>6, <1>7, <1>8, <2>1
       DEF Dispatch, Lookup, ValidateArgs, PreHook, Body, PostHook, DispatchStage
<1>9. CASE StepRaises
  BY <1>3, <1>9 DEF StepRaises
<1>10. CASE Exhaust
  <2>1. CASE Copyable(stream)
    <3> DEFINE e == MaxIterationsReached(MaxIterations, stream)
    <3>1. stream' = Append(stream, e) /\ pc = "step" /\ pc' = "returned" /\ iteration' = iteration
      BY <1>10, <2>1 DEF Exhaust, Exhausted
    <3>2. iteration = MaxIterations
      BY <1>10, BudgetAssumption DEF Exhaust, IterationsLeft, TypeInv, TypeOK
    <3>3. \A k \in 1..Len(stream') : Verdict(stream'[k]) => k = Len(stream') /\ stream'[k] = e
      BY <1>0, <1>1, <3>1
    <3>4. SubSeq(stream', 1, Len(stream') - 1) = stream
      BY <1>0, <3>1
    <3>5. e.partial_state = stream
      BY DEF MaxIterationsReached
    <3> HIDE DEF e
    <3>6. QED
      BY <3>1, <3>2, <3>3, <3>4, <3>5 DEF VerdictEndsTheTrace
  <2>2. CASE ~Copyable(stream)
    BY <1>3, <1>10, <2>2 DEF Exhaust
  <2>3. QED
    BY <2>1, <2>2
<1>11. CASE UNCHANGED vars
  BY <1>11 DEF vars, VerdictEndsTheTrace
<1>12. QED
  BY <1>4, <1>8, <1>9, <1>10, <1>11 DEF Next

(* A final answer or an exhaustion record is always the last event, of a   *)
(* run that returned, and an exhaustion record holds the whole trace       *)
(* before it.                                                              *)
THEOREM VerdictLast == Spec => []VerdictEndsTheTrace
BY InitType, NextType, InitVerdict, NextVerdict, PTL DEF Spec
-----------------------------------------------------------------------------
(***************************************************************************)
(* Pairing. CallsAndAnswersPair is inductive given the types.              *)
(***************************************************************************)
LEMMA InitPair == Init => CallsAndAnswersPair
BY DEF Init, CallsAndAnswersPair

LEMMA NextPair ==
  TypeInv /\ CallsAndAnswersPair /\ [Next]_vars => CallsAndAnswersPair'
<1> SUFFICES ASSUME TypeInv, CallsAndAnswersPair, [Next]_vars PROVE CallsAndAnswersPair'
  OBVIOUS
<1> DEFINE Reply(e) == e.kind \in {"result", "tool_error"} \/ e = ValidationError("hook")
<1>0. stream \in Seq(Event \cup Exhaustion) /\ Len(stream) \in Nat
  BY DEF TypeInv, TypeOK
<1>1. ASSUME pc \notin DispatchStage, NEW e, ~Reply(e), stream' = Append(stream, e),
             e.kind = "call" => pc' \in DispatchStage
      PROVE  CallsAndAnswersPair'
  <2>1. /\ Len(stream') = Len(stream) + 1 /\ stream'[Len(stream')] = e
        /\ \A k \in 1..Len(stream) : stream'[k] = stream[k]
    BY <1>0, <1>1
  <2>2. \A k \in 1..Len(stream) : stream[k].kind = "call" => k # Len(stream)
    BY <1>1 DEF CallsAndAnswersPair
  <2>3. ASSUME NEW k \in 1..Len(stream'), stream'[k].kind = "call"
        PROVE  IF k = Len(stream') THEN pc' \in DispatchStage
                                   ELSE Answers(stream'[k + 1], stream'[k])
    BY <1>0, <1>1, <2>1, <2>2, <2>3 DEF CallsAndAnswersPair
  <2>4. ASSUME NEW k \in 1..Len(stream'), Reply(stream'[k])
        PROVE  k > 1 /\ stream'[k - 1].kind = "call"
    BY <1>0, <1>1, <2>1, <2>4 DEF CallsAndAnswersPair
  <2>5. QED
    BY <2>3, <2>4 DEF CallsAndAnswersPair
<1>2. ASSUME UNCHANGED stream, pc \in DispatchStage => pc' \in DispatchStage
      PROVE  CallsAndAnswersPair'
  BY <1>2 DEF CallsAndAnswersPair
<1>3. ASSUME pc \in DispatchStage, NEW obs, Observe(obs), Answers(obs, LastEvent(stream)),
             obs.kind # "call"
      PROVE  CallsAndAnswersPair'
  <2>1. stream' = Append(stream, obs) /\ stream # <<>> /\ LastEvent(stream).kind = "call"
    BY <1>3 DEF Observe, TypeInv, TypeOK
  <2>2. /\ Len(stream') = Len(stream) + 1 /\ stream'[Len(stream')] = obs
        /\ \A k \in 1..Len(stream) : stream'[k] = stream[k]
    BY <1>0, <2>1
  <2>3. ASSUME NEW k \in 1..Len(stream'), stream'[k].kind = "call"
        PROVE  k # Len(stream') /\ Answers(stream'[k + 1], stream'[k])
    <3>1. k # Len(stream')
      BY <1>3, <2>2, <2>3
    <3>2. CASE k = Len(stream)
      BY <1>0, <1>3, <2>2, <3>2 DEF LastEvent
    <3>3. CASE k # Len(stream)
      BY <1>0, <2>2, <2>3, <3>1, <3>3 DEF CallsAndAnswersPair
    <3>4. QED
      BY <3>1, <3>2, <3>3
  <2>4. ASSUME NEW k \in 1..Len(stream'), Reply(stream'[k])
        PROVE  k > 1 /\ stream'[k - 1].kind = "call"
    BY <1>0, <2>1, <2>2, <2>4 DEF CallsAndAnswersPair, LastEvent
  <2>5. QED
    BY <2>3, <2>4 DEF CallsAndAnswersPair
<1>4. ASSUME NEW raw \in Output, Step(raw) PROVE CallsAndAnswersPair'
  <2> DEFINE e == ParseAction(raw)
  <2>1. stream' = Append(stream, e) /\ pc \notin DispatchStage /\ pc' = StageAfter(e)
    BY <1>4 DEF Step, DispatchStage
  <2>2. ~Reply(e)
    BY ParseActionType DEF ParserName, ValidationError
  <2> HIDE DEF e
  <2>3. QED
    BY <1>1, <2>1, <2>2 DEF StageAfter, DispatchStage
<1>5. ASSUME pc \in DispatchStage, NEW stage \in DispatchStage, ObserveError(stage)
      PROVE  CallsAndAnswersPair'
  BY <1>3, <1>5 DEF ObserveError, ToolError, Answers, Current
<1>6. ASSUME pc \in DispatchStage, NEW v \in Value, Observe(Outcome(v))
      PROVE  CallsAndAnswersPair'
  <2>1. Answers(Outcome(v), LastEvent(stream)) /\ Outcome(v).kind # "call"
    BY DEF Outcome, SkillResult, ValidationError, Answers, Current
  <2>2. QED
    BY <1>3, <1>6, <2>1
<1>7. ASSUME pc \in DispatchStage, NEW stage \in DispatchStage, Proceed(stage)
      PROVE  CallsAndAnswersPair'
  BY <1>2, <1>7 DEF Proceed
<1>8. CASE Dispatch
  <2>1. pc \in DispatchStage /\ (pc = "post_hook" => value \in Value)
    BY <1>8 DEF Dispatch, Lookup, ValidateArgs, PreHook, Body, PostHook, DispatchStage,
                TypeInv, TypeOK
  <2>2. QED
    BY <1>5, <1>6, <1>7, <1>8, <2>1
       DEF Dispatch, Lookup, ValidateArgs, PreHook, Body, PostHook, DispatchStage
<1>9. CASE StepRaises
  BY <1>2, <1>9 DEF StepRaises, DispatchStage
<1>10. CASE Exhaust
  <2>1. CASE Copyable(stream)
    <3> DEFINE e == MaxIterationsReached(MaxIterations, stream)
    <3>1. stream' = Append(stream, e) /\ pc \notin DispatchStage
      BY <1>10, <2>1 DEF Exhaust, Exhausted, DispatchStage
    <3>2. ~Reply(e) /\ e.kind # "call"
      BY DEF MaxIterationsReached, ValidationError
    <3> HIDE DEF e
    <3>3. QED
      BY <1>1, <3>1, <3>2
  <2>2. CASE ~Copyable(stream)
    BY <1>2, <1>10, <2>2 DEF Exhaust, DispatchStage
  <2>3. QED
    BY <2>1, <2>2
<1>11. CASE UNCHANGED vars
  BY <1>2, <1>11 DEF vars
<1>12. QED
  BY <1>4, <1>8, <1>9, <1>10, <1>11 DEF Next

(* Every call of the model is followed by exactly one observation, and     *)
(* that observation answers it.                                            *)
THEOREM CallsAnswered == Spec => []CallsAndAnswersPair
BY InitType, NextType, InitPair, NextPair, PTL DEF Spec

-----------------------------------------------------------------------------
(***************************************************************************)
(* Effects. That no body runs twice, and that an answer tells whether the  *)
(* body ran, need to be known of the call still in dispatch: its body has  *)
(* not been entered before the body stage, and has been after it.          *)
(***************************************************************************)
EffectInv ==
  /\ \A i \in 1..Len(executed) : stream[executed[i]].kind = "call"
  /\ pc \in {"lookup", "validate", "pre_hook", "body"} => ~Ran(executed, Len(stream))
  /\ pc = "post_hook" => Ran(executed, Len(stream))
  /\ BodyRunsAtMostOnce
  /\ AnswerTellsWhetherBodyRan

LEMMA InitEffect == Init => EffectInv
BY DEF Init, EffectInv, BodyRunsAtMostOnce, AnswerTellsWhetherBodyRan, Ran

(* The answer recorded for the current call tells whether its body ran.    *)
LEMMA ObserveEffect ==
  ASSUME TypeInv, pc \in DispatchStage, NEW obs, Observe(obs), obs.kind # "call",
         executed' \in Seq(1..Len(stream)),
         \A i \in 1..Len(executed') : stream[executed'[i]].kind = "call",
         BodyRunsAtMostOnce', AnswerTellsWhetherBodyRan,
         \A k \in 1..(Len(stream) - 1) : Ran(executed', k) <=> Ran(executed, k),
         RejectedEarly(obs) <=> ~Ran(executed', Len(stream))
  PROVE  EffectInv'
<1>1. /\ Len(stream) \in Nat /\ stream \in Seq(Event \cup Exhaustion)
      /\ executed' \in Seq(1..Len(stream))
  BY DEF TypeInv, TypeOK
<1>2. stream' = Append(stream, obs) /\ pc' = "step"
  BY DEF Observe
<1>3. \A k \in 1..Len(stream) : stream'[k] = stream[k]
  BY <1>1, <1>2
<1>4. Len(stream') = Len(stream) + 1 /\ stream'[Len(stream) + 1] = obs
  BY <1>1, <1>2
<1>5. \A i \in 1..Len(executed') : stream'[executed'[i]].kind = "call"
  BY <1>1, <1>3
<1>6. AnswerTellsWhetherBodyRan'
  <2> SUFFICES ASSUME NEW k \in 1..(Len(stream') - 1), stream'[k].kind = "call"
               PROVE  RejectedEarly(stream'[k + 1]) <=> ~Ran(executed', k)
    BY DEF AnswerTellsWhetherBodyRan
  <2>1. CASE k = Len(stream)
    BY <1>4, <2>1
  <2>2. CASE k # Len(stream)
    <3>1. k \in 1..(Len(stream) - 1) /\ stream'[k] = stream[k] /\ stream'[k + 1] = stream[k + 1]
      BY <1>1, <1>3, <1>4, <2>2
    <3>2. RejectedEarly(stream[k + 1]) <=> ~Ran(executed, k)
      BY <3>1 DEF AnswerTellsWhetherBodyRan
    <3>3. QED
      BY <3>1, <3>2
  <2>3. QED
    BY <2>1, <2>2
<1>7. QED
  BY <1>2, <1>5, <1>6 DEF EffectInv

LEMMA NextEffect ==
  TypeInv /\ CallsAndAnswersPair /\ EffectInv /\ [Next]_vars => EffectInv'
<1> SUFFICES ASSUME TypeInv, CallsAndAnswersPair, EffectInv, [Next]_vars PROVE EffectInv'
  OBVIOUS
<1>0. /\ stream \in Seq(Event \cup Exhaustion) /\ Len(stream) \in Nat
      /\ executed \in Seq(1..Len(stream)) /\ Len(executed) \in Nat
  BY DEF TypeInv, TypeOK
<1>1. ASSUME NEW e, stream' = Append(stream, e), UNCHANGED executed,
             pc' \in {"step", "lookup", "returned"},
             stream # <<>> => LastEvent(stream).kind # "call"
      PROVE  EffectInv'
  <2>1. \A k \in 1..Len(stream) : stream'[k] = stream[k]
    BY <1>0, <1>1
  <2>2. Len(stream') = Len(stream) + 1
    BY <1>0, <1>1
  <2>3. ~Ran(executed', Len(stream'))
    BY <1>0, <1>1, <2>2 DEF Ran
  <2>4. \A i \in 1..Len(executed') : stream'[executed'[i]].kind = "call"
    BY <1>0, <1>1, <2>1 DEF EffectInv
  <2>5. AnswerTellsWhetherBodyRan'
    <3> SUFFICES ASSUME NEW k \in 1..(Len(stream') - 1), stream'[k].kind = "call"
                 PROVE  RejectedEarly(stream'[k + 1]) <=> ~Ran(executed', k)
      BY DEF AnswerTellsWhetherBodyRan
    <3>1. k \in 1..(Len(stream) - 1)
      BY <1>0, <1>1, <2>1, <2>2 DEF LastEvent
    <3>2. stream[k].kind = "call" /\ stream'[k + 1] = stream[k + 1]
      BY <1>0, <2>1, <3>1
    <3>3. RejectedEarly(stream[k + 1]) <=> ~Ran(executed, k)
      <4>1. AnswerTellsWhetherBodyRan
        BY DEF EffectInv
      <4>2. QED
        BY <3>1, <3>2, <4>1 DEF AnswerTellsWhetherBodyRan
    <3>4. Ran(executed', k) <=> Ran(executed, k)
      BY <1>1 DEF Ran
    <3>5. QED
      BY <3>2, <3>3, <3>4
  <2>6. QED
    BY <1>1, <2>3, <2>4, <2>5 DEF EffectInv, BodyRunsAtMostOnce
<1>2. pc \notin DispatchStage /\ stream # <<>> => LastEvent(stream).kind # "call"
  BY <1>0 DEF CallsAndAnswersPair, LastEvent
<1>3. ASSUME pc \in DispatchStage, NEW stage \in DispatchStage,
             ObserveError(stage), UNCHANGED executed,
             stage \in {"lookup", "validate", "pre_hook"} <=> ~Ran(executed, Len(stream))
      PROVE  EffectInv'
  <2>1. RejectedEarly(ToolError(Current, stage)) <=> ~Ran(executed', Len(stream))
    BY <1>3 DEF RejectedEarly, ToolError
  <2>2. ToolError(Current, stage).kind # "call" /\ Observe(ToolError(Current, stage))
    BY <1>3 DEF ToolError, ObserveError
  <2>3. QED
    BY <1>0, <1>3, <2>1, <2>2, ObserveEffect DEF EffectInv, BodyRunsAtMostOnce
<1>4. ASSUME NEW stage \in DispatchStage, Proceed(stage), UNCHANGED executed,
             pc \in {"lookup", "validate", "pre_hook"}, stage \in {"validate", "pre_hook", "body"}
      PROVE  EffectInv'
  BY <1>4 DEF Proceed, EffectInv, BodyRunsAtMostOnce, AnswerTellsWhetherBodyRan, Ran
<1>5. CASE Lookup
  BY <1>3, <1>4, <1>5 DEF Lookup, DispatchStage, EffectInv
<1>6. CASE ValidateArgs
  BY <1>3, <1>4, <1>6 DEF ValidateArgs, DispatchStage, EffectInv
<1>7. CASE PreHook
  BY <1>3, <1>4, <1>7 DEF PreHook, DispatchStage, EffectInv
<1>8. CASE Body
  <2>1. /\ executed' = Append(executed, Len(stream)) /\ pc = "body" /\ pc \in DispatchStage
        /\ stream # <<>> /\ LastEvent(stream).kind = "call"
    BY <1>8 DEF Body, DispatchStage, TypeInv, TypeOK
  <2>2. Len(stream) \in 1..Len(stream)
    BY <1>0, <2>1
  <2>3. /\ executed' \in Seq(1..Len(stream)) /\ Len(executed') = Len(executed) + 1
        /\ executed'[Len(executed')] = Len(stream)
        /\ \A i \in 1..Len(executed) : executed'[i] = executed[i]
    BY <1>0, <2>1, <2>2
  <2>4. Ran(executed', Len(stream))
    BY <1>0, <2>3 DEF Ran
  <2>5. \A k \in 1..(Len(stream) - 1) : Ran(executed', k) <=> Ran(executed, k)
    <3> SUFFICES ASSUME NEW k \in 1..(Len(stream) - 1)
                 PROVE  Ran(executed', k) <=> Ran(executed, k)
      OBVIOUS
    <3>1. ASSUME Ran(executed', k) PROVE Ran(executed, k)
      <4>1. PICK i \in 1..Len(executed') : executed'[i] = k
        BY <3>1 DEF Ran
      <4>2. i \in 1..Len(executed) /\ executed[i] = k
        BY <1>0, <2>3, <4>1
      <4>3. QED
        BY <4>2 DEF Ran
    <3>2. ASSUME Ran(executed, k) PROVE Ran(executed', k)
      <4>1. PICK i \in 1..Len(executed) : executed[i] = k
        BY <3>2 DEF Ran
      <4>2. i \in 1..Len(executed') /\ executed'[i] = k
        BY <1>0, <2>3, <4>1
      <4>3. QED
        BY <4>2 DEF Ran
    <3>3. QED
      BY <3>1, <3>2
  <2>6. \A i \in 1..Len(executed') : stream[executed'[i]].kind = "call"
    BY <1>0, <2>1, <2>3 DEF EffectInv, LastEvent
  <2>7. BodyRunsAtMostOnce'
    <3>1. \A i \in 1..Len(executed) : executed[i] # Len(stream)
      BY <2>1 DEF EffectInv, Ran
    <3>2. \A i, j \in 1..Len(executed) : i # j => executed[i] # executed[j]
      BY DEF EffectInv, BodyRunsAtMostOnce
    <3>3. SUFFICES ASSUME NEW i \in 1..Len(executed'), NEW j \in 1..Len(executed'), i # j
                   PROVE  executed'[i] # executed'[j]
      BY DEF BodyRunsAtMostOnce
    <3>4. CASE i \in 1..Len(executed) /\ j \in 1..Len(executed)
      BY <2>3, <3>2, <3>3, <3>4
    <3>5. CASE i = Len(executed') /\ j \in 1..Len(executed)
      BY <2>3, <3>1, <3>5
    <3>6. CASE j = Len(executed') /\ i \in 1..Len(executed)
      BY <2>3, <3>1, <3>6
    <3>7. QED
      BY <1>0, <2>3, <3>3, <3>4, <3>5, <3>6
  <2>8. CASE ObserveError("body")
    <3>1. Observe(ToolError(Current, "body")) /\ ToolError(Current, "body").kind # "call"
          /\ ~RejectedEarly(ToolError(Current, "body"))
      BY <2>8 DEF ObserveError, ToolError, RejectedEarly
    <3>2. QED
      BY <2>1, <2>3, <2>4, <2>5, <2>6, <2>7, <3>1, ObserveEffect DEF EffectInv
  <2>9. CASE Proceed("post_hook")
    <3>1. AnswerTellsWhetherBodyRan'
      BY <2>5, <2>9 DEF Proceed, EffectInv, AnswerTellsWhetherBodyRan
    <3>2. UNCHANGED stream /\ pc' = "post_hook"
      BY <2>9 DEF Proceed
    <3>3. QED
      BY <2>4, <2>6, <2>7, <3>1, <3>2 DEF EffectInv
  <2>10. QED
    BY <1>8, <2>8, <2>9 DEF Body
<1>9. CASE PostHook
  <2>1. pc \in DispatchStage /\ value \in Value /\ UNCHANGED executed /\ Ran(executed, Len(stream))
    BY <1>9 DEF PostHook, DispatchStage, TypeInv, TypeOK, EffectInv
  <2>2. ASSUME NEW v \in Value, Observe(Outcome(v)) PROVE EffectInv'
    <3>1. Outcome(v).kind # "call" /\ ~RejectedEarly(Outcome(v))
      BY DEF Outcome, SkillResult, ValidationError, RejectedEarly
    <3>2. QED
      BY <1>0, <2>1, <2>2, <3>1, ObserveEffect DEF EffectInv, BodyRunsAtMostOnce
  <2>3. CASE ObserveError("post_hook")
    BY <1>3, <2>1, <2>3 DEF DispatchStage
  <2>4. QED
    BY <1>9, <2>1, <2>2, <2>3 DEF PostHook
<1>10. ASSUME NEW raw \in Output, Step(raw) PROVE EffectInv'
  BY <1>1, <1>2, <1>10 DEF Step, StageAfter, DispatchStage
<1>11. ASSUME UNCHANGED <<stream, executed>>, pc' = pc \/ pc' = "raised"
       PROVE  EffectInv'
  BY <1>11 DEF EffectInv, BodyRunsAtMostOnce, AnswerTellsWhetherBodyRan, Ran
<1>12. CASE StepRaises
  BY <1>11, <1>12 DEF StepRaises
<1>13. CASE Exhaust
  <2>1. CASE Copyable(stream)
    BY <1>1, <1>2, <1>13, <2>1 DEF Exhaust, Exhausted, DispatchStage
  <2>2. CASE ~Copyable(stream)
    BY <1>11, <1>13, <2>2 DEF Exhaust
  <2>3. QED
    BY <2>1, <2>2
<1>14. CASE UNCHANGED vars
  BY <1>11, <1>14 DEF vars
<1>15. QED
  BY <1>5, <1>6, <1>7, <1>8, <1>9, <1>10, <1>12, <1>13, <1>14 DEF Next, Dispatch

(* The framework never runs a skill body twice for one call, and every     *)
(* answer tells the model truthfully whether the body of its call ran.     *)
THEOREM EffectsReported == Spec => [](BodyRunsAtMostOnce /\ AnswerTellsWhetherBodyRan)
<1>1. EffectInv => BodyRunsAtMostOnce /\ AnswerTellsWhetherBodyRan
  BY DEF EffectInv
<1>2. QED
  BY <1>1, InitType, NextType, InitPair, NextPair, InitEffect, NextEffect, PTL DEF Spec

-----------------------------------------------------------------------------
(***************************************************************************)
(* Refinement. A stage of dispatch that records nothing is a stutter of    *)
(* the dialogue, every other step is one of its moves.                     *)
(***************************************************************************)
LEMMA StatusIs ==
  /\ pc = "step" => StatusOfRun = "model"
  /\ pc \in DispatchStage => StatusOfRun = "tool"
  /\ pc = "raised" => StatusOfRun = "broken"
  /\ pc = "returned" => StatusOfRun = IF LastEvent(stream).kind = "final" THEN "answered" ELSE "exhausted"
BY DEF StatusOfRun, DispatchStage

LEMMA StatusBecomes ==
  /\ pc' = "step" => StatusOfRun' = "model"
  /\ pc' \in DispatchStage => StatusOfRun' = "tool"
  /\ pc' = "raised" => StatusOfRun' = "broken"
  /\ pc' = "returned" => StatusOfRun' = IF LastEvent(stream').kind = "final" THEN "answered" ELSE "exhausted"
BY DEF StatusOfRun, DispatchStage, LastEvent

LEMMA InitRefines == Init => Dialogue!Init
BY StatusIs DEF Init, Dialogue!Init

LEMMA NextRefines == TypeInv /\ [Next]_vars => [Dialogue!Next]_(Dialogue!vars)
<1> SUFFICES ASSUME TypeInv, [Next]_vars PROVE [Dialogue!Next]_(Dialogue!vars)
  OBVIOUS
<1> USE StatusIs, StatusBecomes
<1>0. stream \in Seq(Event \cup Exhaustion) /\ Len(stream) \in Nat
  BY DEF TypeInv, TypeOK
<1>1. ASSUME NEW raw \in Output, Step(raw) PROVE Dialogue!Next
  <2> DEFINE e == ParseAction(raw)
  <2>1. e \in Event /\ e.kind \in {"call", "final", "validation_error"}
    BY ParseActionType DEF Event, ParserName
  <2>2. /\ pc = "step" /\ iteration < MaxIterations /\ iteration' = iteration + 1
        /\ stream' = Append(stream, e) /\ pc' = StageAfter(e)
    BY <1>1 DEF Step, IterationsLeft
  <2>3. LastEvent(stream') = e
    BY <1>0, <2>2 DEF LastEvent
  <2> HIDE DEF e
  <2>4. CASE e.kind = "call"
    <3>1. Dialogue!Ask(e)
      BY <2>2, <2>4 DEF StageAfter, DispatchStage, Dialogue!Ask, Dialogue!Say
    <3>2. QED
      BY <2>1, <3>1 DEF Dialogue!Next
  <2>5. CASE e.kind = "final"
    <3>1. Dialogue!Answer(e)
      BY <2>2, <2>3, <2>5 DEF StageAfter, Dialogue!Answer, Dialogue!Say
    <3>2. QED
      BY <2>1, <3>1 DEF Dialogue!Next
  <2>6. CASE e.kind = "validation_error"
    <3>1. Dialogue!Misspeak(e)
      BY <2>2, <2>6 DEF StageAfter, Dialogue!Misspeak, Dialogue!Say
    <3>2. QED
      BY <2>1, <3>1 DEF Dialogue!Next
  <2>7. QED
    BY <2>1, <2>4, <2>5, <2>6
<1>2. ASSUME pc \in DispatchStage, NEW obs \in Event, Observe(obs),
             obs.kind \in {"result", "tool_error", "validation_error"}
      PROVE  Dialogue!Next
  <2>1. Dialogue!Return(obs)
    BY <1>2 DEF Observe, Dialogue!Return, Dialogue!Say, Dialogue!Reply
  <2>2. QED
    BY <1>2, <2>1 DEF Dialogue!Next
<1>3. ASSUME pc \in DispatchStage, NEW stage \in DispatchStage, ObserveError(stage)
      PROVE  Dialogue!Next
  BY <1>2, <1>3, ObservationTypes DEF ObserveError
<1>4. ASSUME pc \in DispatchStage, NEW v \in Value, Observe(Outcome(v))
      PROVE  Dialogue!Next
  <2>1. Outcome(v).kind \in {"result", "validation_error"}
    BY DEF Outcome, SkillResult, ValidationError
  <2>2. QED
    BY <1>2, <1>4, <2>1, ObservationTypes
<1>5. ASSUME pc \in DispatchStage, NEW stage \in DispatchStage, Proceed(stage)
      PROVE  UNCHANGED Dialogue!vars
  BY <1>5 DEF Proceed, Dialogue!vars
<1>6. CASE Dispatch
  <2>1. pc \in DispatchStage /\ (pc = "post_hook" => value \in Value)
    BY <1>6 DEF Dispatch, Lookup, ValidateArgs, PreHook, Body, PostHook, DispatchStage,
                TypeInv, TypeOK
  <2>2. QED
    BY <1>3, <1>4, <1>5, <1>6, <2>1
       DEF Dispatch, Lookup, ValidateArgs, PreHook, Body, PostHook, DispatchStage
<1>7. ASSUME pc = "step", pc' = "raised", UNCHANGED <<stream, iteration>> PROVE Dialogue!Next
  BY <1>7 DEF Dialogue!Next, Dialogue!BreakOff
<1>8. CASE StepRaises
  BY <1>7, <1>8 DEF StepRaises
<1>9. CASE Exhaust
  <2>1. CASE Copyable(stream)
    <3>1. /\ pc = "step" /\ pc' = "returned" /\ iteration' = iteration
          /\ stream' = Append(stream, MaxIterationsReached(MaxIterations, stream))
      BY <1>9, <2>1 DEF Exhaust, Exhausted
    <3>2. iteration = MaxIterations
      BY <1>9, BudgetAssumption DEF Exhaust, IterationsLeft, TypeInv, TypeOK
    <3>3. LastEvent(stream').kind = "max_iterations"
      BY <1>0, <3>1 DEF LastEvent, MaxIterationsReached
    <3>4. Dialogue!GiveUp
      BY <3>1, <3>2, <3>3 DEF Dialogue!GiveUp, Dialogue!Say, MaxIterationsReached
    <3>5. QED
      BY <3>4 DEF Dialogue!Next
  <2>2. CASE ~Copyable(stream)
    BY <1>7, <1>9, <2>2 DEF Exhaust
  <2>3. QED
    BY <2>1, <2>2
<1>10. CASE UNCHANGED vars
  BY <1>10 DEF vars, Dialogue!vars, StatusOfRun, LastEvent
<1>11. QED
  BY <1>1, <1>6, <1>8, <1>9, <1>10 DEF Next

(* The loop implements the abstract dialogue: turns alternate, every call  *)
(* gets one reply, the budget is kept and a closed dialogue stays closed.  *)
THEOREM RefinesDialogue == Spec => Dialogue!SafeSpec
BY InitRefines, InitType, NextRefines, NextType, PTL DEF Spec, Dialogue!SafeSpec

-----------------------------------------------------------------------------
(***************************************************************************)
(* The trace only grows, whatever a step does to it.                       *)
(***************************************************************************)
LEMMA NextGrows ==
  TypeInv /\ [Next]_vars =>
    [ /\ Len(stream') >= Len(stream)
      /\ SubSeq(stream', 1, Len(stream)) = stream
      /\ pc \notin {"returned", "raised"} ]_stream
<1> SUFFICES ASSUME TypeInv, [Next]_vars, stream' # stream
             PROVE  /\ Len(stream') >= Len(stream)
                    /\ SubSeq(stream', 1, Len(stream)) = stream
                    /\ pc \notin {"returned", "raised"}
  OBVIOUS
<1>1. stream \in Seq(Event \cup Exhaustion)
  BY DEF TypeInv, TypeOK
<1>2. (\E e : stream' = Append(stream, e)) /\ pc \in {"step"} \cup DispatchStage
  BY DEF Next, vars, Step, StepRaises, Dispatch, Lookup, ValidateArgs, PreHook, Body,
         PostHook, ObserveError, Observe, Proceed, Exhaust, Exhausted, DispatchStage
<1>3. QED
  BY <1>1, <1>2 DEF DispatchStage

(* The trace the model reads is append-only and closed by run()'s return.  *)
THEOREM TraceGrows == Spec => TraceOnlyGrows
BY InitType, NextType, NextGrows, PTL DEF Spec, TraceOnlyGrows
-----------------------------------------------------------------------------
(* The grammar and the agent agree on every output, in every state: the    *)
(* three read the same registry, whatever is in it.                        *)
LEMMA ParsersAgree ==
  ASSUME NEW raw \in RawOutput
  PROVE  /\ SchemaAllows(raw) => ParserAccepts(raw)
         /\ ParserAccepts(raw) =>
              \/ ParseAction(raw.output) = Parsed(raw)
              \/ raw.output.answer = "blank"
                   /\ ParseAction(raw.output) = ValidationError("non_empty_final_answer")
<1>1. raw.output \in Output /\ raw.args \in {"object", "absent", "other"}
  BY DEF RawOutput
<1>2. SchemaAllows(raw) => ParserAccepts(raw)
  BY <1>1 DEF SchemaAllows, ParserAccepts
<1>3. ASSUME ParserAccepts(raw), raw.output.answer = "absent"
      PROVE  ParseAction(raw.output) = Parsed(raw)
  BY <1>1, <1>3 DEF ParserAccepts, ParseAction, Parsed
<1>4. ASSUME ParserAccepts(raw), raw.output.answer # "absent"
      PROVE  IF raw.output.answer = "text" THEN ParseAction(raw.output) = Parsed(raw)
             ELSE /\ raw.output.answer = "blank"
                  /\ ParseAction(raw.output) = ValidationError("non_empty_final_answer")
  BY <1>1, <1>4 DEF ParserAccepts, ParseAction, Parsed
<1> QED BY <1>2, <1>3, <1>4

(* Decoding held to the schema never yields what the parser rejects, and   *)
(* what the parser accepts the agent reads alike, or as an answer of       *)
(* blanks (tool_call.py:40-136, agent.py:223-320).                         *)
THEOREM GrammarAndAgentAgree == Spec => []GrammarAgreesWithAgent
<1>1. GrammarAgreesWithAgent
  BY ParsersAgree DEF GrammarAgreesWithAgent
<1> QED BY <1>1, PTL

-----------------------------------------------------------------------------
(* The chat providers. Every reading of a conversation is a loop over its  *)
(* messages, over the turns in them or over the blocks of one: what each   *)
(* gives for one element more.                                             *)

JoinText(p, said, b) == IF b.type = "text" THEN said \o b.text ELSE said
KeepCall(p, calls, b) == IF b.type = "tool_use" THEN Append(calls, b.call) ELSE calls
KeepRole(role, kept, m) == IF m.role = role THEN Append(kept, m) ELSE kept
KeepTurn(p, kept, m) == IF m.role # "system" THEN Append(kept, m) ELSE kept
JoinContent(p, said, m) == said \o m.content
LeaveCalls(p, left, m) == IF m.role = "tool" THEN Tail(left) ELSE m.tool_calls
JoinUses(p, calls, t) == calls \o t.uses
KeepResult(p, kept, t) == IF t.who = "tool" THEN Append(kept, t) ELSE kept
KeepAsked(tool, asked, c) == IF c.name = tool THEN Append(asked, c.arguments) ELSE asked
JoinTold(tool, told, t) == IF t.answers = tool THEN told \o t.text ELSE told

Texts == INSTANCE FoldLaws WITH Step <- JoinText, Base <- LAMBDA p : <<>>
Uses == INSTANCE FoldLaws WITH Step <- KeepCall, Base <- LAMBDA p : <<>>
Roles == INSTANCE FoldLaws WITH Step <- KeepRole, Base <- LAMBDA p : <<>>
Spoken == INSTANCE FoldLaws WITH Step <- KeepTurn, Base <- LAMBDA p : <<>>
Joined == INSTANCE FoldLaws WITH Step <- JoinContent, Base <- LAMBDA p : <<>>
Pending == INSTANCE FoldLaws WITH Step <- LeaveCalls, Base <- LAMBDA p : <<>>
Called == INSTANCE FoldLaws WITH Step <- JoinUses, Base <- LAMBDA p : <<>>
Answering == INSTANCE FoldLaws WITH Step <- KeepResult, Base <- LAMBDA p : <<>>
Asking == INSTANCE FoldLaws WITH Step <- KeepAsked, Base <- LAMBDA p : <<>>
Telling == INSTANCE FoldLaws WITH Step <- JoinTold, Base <- LAMBDA p : <<>>

(* What is left unanswered after some messages, and Calls and Results of   *)
(* some turns.                                                             *)
Left(msgs) ==
  Through(LAMBDA left, m : IF m.role = "tool" THEN Tail(left) ELSE m.tool_calls, <<>>, msgs)
CallsIn(turns) == Through(LAMBDA calls, t : calls \o t.uses, <<>>, turns)
ResultsIn(turns) == Filter(turns, LAMBDA t : t.who = "tool")

LEMMA LoopsAre ==
  ASSUME NEW seq
  PROVE  /\ TextsOf(seq) = Texts!Result(0, seq)
         /\ CallsOf(seq) = Uses!Result(0, seq)
         /\ \A role : InRole(role, seq) = Roles!Result(role, seq)
         /\ NotSystem(seq) = Spoken!Result(0, seq)
         /\ Contents(seq) = Joined!Result(0, seq)
         /\ Left(seq) = Pending!Result(0, seq)
         /\ CallsIn(seq) = Called!Result(0, seq)
         /\ ResultsIn(seq) = Answering!Result(0, seq)
         /\ \A tool : AskedOf(tool, seq) = Asking!Result(tool, seq)
         /\ \A tool : ToldOf(tool, seq) = Telling!Result(tool, seq)
<1>1. TextsOf(seq) = Texts!Result(0, seq)
  BY DEF TextsOf, Texts!Result, Texts!Through, Through, JoinText
<1>2. CallsOf(seq) = Uses!Result(0, seq)
  BY DEF CallsOf, Uses!Result, Uses!Through, Through, KeepCall
<1>3. \A role : InRole(role, seq) = Roles!Result(role, seq)
  BY DEF InRole, Filter, Roles!Result, Roles!Through, Through, KeepRole
<1>4. NotSystem(seq) = Spoken!Result(0, seq)
  BY DEF NotSystem, Filter, Spoken!Result, Spoken!Through, Through, KeepTurn
<1>5. Contents(seq) = Joined!Result(0, seq)
  BY DEF Contents, Joined!Result, Joined!Through, Through, JoinContent
<1>6. Left(seq) = Pending!Result(0, seq)
  BY DEF Left, Pending!Result, Pending!Through, Through, LeaveCalls
<1>7. CallsIn(seq) = Called!Result(0, seq)
  BY DEF CallsIn, Called!Result, Called!Through, Through, JoinUses
<1>8. ResultsIn(seq) = Answering!Result(0, seq)
  BY DEF ResultsIn, Filter, Answering!Result, Answering!Through, Through, KeepResult
<1>9. \A tool : AskedOf(tool, seq) = Asking!Result(tool, seq)
  BY DEF AskedOf, Asking!Result, Asking!Through, Through, KeepAsked
<1>10. \A tool : ToldOf(tool, seq) = Telling!Result(tool, seq)
  BY DEF ToldOf, Telling!Result, Telling!Through, Through, JoinTold
<1> QED BY <1>1, <1>2, <1>3, <1>4, <1>5, <1>6, <1>7, <1>8, <1>9, <1>10

LEMMA LoopsOfNone ==
  /\ TextsOf(<<>>) = <<>> /\ CallsOf(<<>>) = <<>> /\ \A role : InRole(role, <<>>) = <<>>
  /\ NotSystem(<<>>) = <<>> /\ Contents(<<>>) = <<>> /\ Left(<<>>) = <<>>
  /\ CallsIn(<<>>) = <<>> /\ ResultsIn(<<>>) = <<>>
  /\ \A tool : AskedOf(tool, <<>>) = <<>> /\ ToldOf(tool, <<>>) = <<>>
<1>1. TextsOf(<<>>) = <<>> /\ CallsOf(<<>>) = <<>> /\ \A role : InRole(role, <<>>) = <<>>
  BY LoopsAre, Texts!ThroughNone, Uses!ThroughNone, Roles!ThroughNone
<1>2. NotSystem(<<>>) = <<>> /\ Contents(<<>>) = <<>> /\ Left(<<>>) = <<>>
  BY LoopsAre, Spoken!ThroughNone, Joined!ThroughNone, Pending!ThroughNone
<1>3. CallsIn(<<>>) = <<>> /\ ResultsIn(<<>>) = <<>>
  BY LoopsAre, Called!ThroughNone, Answering!ThroughNone
<1>4. \A tool : AskedOf(tool, <<>>) = <<>> /\ ToldOf(tool, <<>>) = <<>>
  BY LoopsAre, Asking!ThroughNone, Telling!ThroughNone
<1> QED BY <1>1, <1>2, <1>3, <1>4

LEMMA BlocksOneMore ==
  ASSUME NEW S, NEW blocks \in Seq(S), NEW b \in S
  PROVE  /\ TextsOf(Append(blocks, b)) = JoinText(0, TextsOf(blocks), b)
         /\ CallsOf(Append(blocks, b)) = KeepCall(0, CallsOf(blocks), b)
BY LoopsAre, Texts!ThroughOneMore, Uses!ThroughOneMore

LEMMA MessagesOneMore ==
  ASSUME NEW S, NEW msgs \in Seq(S), NEW m \in S
  PROVE  /\ \A role : InRole(role, Append(msgs, m)) = KeepRole(role, InRole(role, msgs), m)
         /\ NotSystem(Append(msgs, m)) = KeepTurn(0, NotSystem(msgs), m)
         /\ Contents(Append(msgs, m)) = JoinContent(0, Contents(msgs), m)
         /\ Left(Append(msgs, m)) = LeaveCalls(0, Left(msgs), m)
<1>1. \A role : InRole(role, Append(msgs, m)) = KeepRole(role, InRole(role, msgs), m)
  <2> TAKE role
  <2>1. \A seq : InRole(role, seq) = Roles!Result(role, seq)
    BY LoopsAre
  <2>2. Roles!Result(role, Append(msgs, m)) = KeepRole(role, Roles!Result(role, msgs), m)
    BY Roles!ThroughOneMore
  <2> QED BY <2>1, <2>2
<1>2. /\ NotSystem(Append(msgs, m)) = KeepTurn(0, NotSystem(msgs), m)
      /\ Contents(Append(msgs, m)) = JoinContent(0, Contents(msgs), m)
      /\ Left(Append(msgs, m)) = LeaveCalls(0, Left(msgs), m)
  BY LoopsAre, Spoken!ThroughOneMore, Joined!ThroughOneMore, Pending!ThroughOneMore
<1> QED BY <1>1, <1>2

LEMMA TurnsOneMore ==
  ASSUME NEW S, NEW turns \in Seq(S), NEW t \in S
  PROVE  /\ CallsIn(Append(turns, t)) = JoinUses(0, CallsIn(turns), t)
         /\ ResultsIn(Append(turns, t)) = KeepResult(0, ResultsIn(turns), t)
         /\ \A tool : ToldOf(tool, Append(turns, t)) = JoinTold(tool, ToldOf(tool, turns), t)
BY LoopsAre, Called!ThroughOneMore, Answering!ThroughOneMore, Telling!ThroughOneMore

LEMMA AskedOneMore ==
  ASSUME NEW S, NEW calls \in Seq(S), NEW c \in S, NEW tool
  PROVE  AskedOf(tool, Append(calls, c)) = KeepAsked(tool, AskedOf(tool, calls), c)
<1>1. \A seq : AskedOf(tool, seq) = Asking!Result(tool, seq)
  BY LoopsAre
<1>2. Asking!Result(tool, Append(calls, c)) = KeepAsked(tool, Asking!Result(tool, calls), c)
  BY Asking!ThroughOneMore
<1> QED BY <1>1, <1>2

(* Selections stay within the set of the elements.                         *)
LEMMA SelectionsTyped ==
  ASSUME NEW S, NEW msgs \in Seq(S), NEW role
  PROVE  InRole(role, msgs) \in Seq(S) /\ NotSystem(msgs) \in Seq({m \in S : m.role # "system"})
<1> DEFINE D == Seq(S)
           E == Seq({m \in S : m.role # "system"})
<1>1. /\ <<>> \in D /\ \A kept \in D, m \in S : KeepRole(role, kept, m) \in D
      /\ <<>> \in E /\ \A kept \in E, m \in S : KeepTurn(0, kept, m) \in E
  BY DEF KeepRole, KeepTurn
<1> HIDE DEF D, E
<1>2. \A s \in Seq(S) : Roles!Result(role, s) \in D
  BY ONLY <1>1, Roles!ThroughStaysIn
<1>3. \A s \in Seq(S) : Spoken!Result(0, s) \in E
  BY ONLY <1>1, Spoken!ThroughStaysIn
<1> QED BY <1>2, <1>3, LoopsAre DEF D, E

-----------------------------------------------------------------------------
(* What the messages are made of. Own calls have an id that is a tool's    *)
(* name, or that no other call has.                                        *)
Places == Nat \X Nat
Ids == Tool \cup Places \cup {None}
Asks == [id : Ids, name : Tool, arguments : Places]
OwnAsks == {c \in Asks : c.id \in Tool \/ c.id = c.arguments}

Messages ==
  {m \in [role : {"system", "user", "assistant", "tool"}, content : Seq(Places),
          tool_calls : Seq(Asks), tool_call_id : Ids, name : Tool \cup {None}] :
     /\ m.role # "assistant" => m.tool_calls = <<>>
     /\ m.role # "tool" => m.tool_call_id = None /\ m.name = None}

Held == {m \in Messages : m.tool_calls \in Seq(OwnAsks)}

(* The blocks of a message: its text if it has one, and its calls.         *)
LEMMA BlocksRead ==
  ASSUME NEW text \in Seq(Places), NEW calls \in Seq(Asks), NEW head \in {<<>>, <<TextBlock(text)>>}
  PROVE  LET blocks == head \o Map(calls, UseBlock) IN
         /\ TextsOf(blocks) = IF head = <<>> THEN <<>> ELSE text
         /\ CallsOf(blocks) = calls
         /\ blocks # <<>> => blocks[1].type # "tool_result"
<1> DEFINE B == {TextBlock(text)} \cup {UseBlock(c) : c \in Asks}
           Of(s) == head \o Map(s, UseBlock)
           T == {s \in Seq(Asks) : /\ TextsOf(Of(s)) = IF head = <<>> THEN <<>> ELSE text
                                   /\ CallsOf(Of(s)) = s}
<1>0. /\ TextBlock(text) \in B /\ \A c \in Asks : UseBlock(c) \in B
      /\ \A b \in B : b.type # "tool_result"
  <2>1. TextBlock(text) \in B /\ \A c \in Asks : UseBlock(c) \in B
    OBVIOUS
  <2>2. ASSUME NEW b \in B PROVE b.type # "tool_result"
    <3>1. b = TextBlock(text) \/ \E c \in Asks : b = UseBlock(c)
      OBVIOUS
    <3> QED BY <3>1 DEF TextBlock, UseBlock
  <2> QED BY <2>1, <2>2
<1> HIDE DEF B
<1>1. head \in Seq(B)
  <2>1. <<TextBlock(text)>> \in Seq(B) /\ <<>> \in Seq(B)
    BY <1>0
  <2> QED BY <2>1
<1>2. ASSUME NEW s \in Seq(Asks) PROVE Map(s, UseBlock) \in Seq(B) /\ Of(s) \in Seq(B)
  <2>1. Map(s, UseBlock) \in Seq(B)
    BY <1>0 DEF Map
  <2> QED BY <1>1, <2>1
<1>3. <<>> \in T
  <2>1. Of(<<>>) = head
    BY <1>1 DEF Map
  <2>2. TextsOf(head) = (IF head = <<>> THEN <<>> ELSE text) /\ CallsOf(head) = <<>>
    <3>1. CASE head = <<>>
      BY <3>1, LoopsOfNone
    <3>2. CASE head = <<TextBlock(text)>>
      <4>1. head = Append(<<>>, TextBlock(text)) /\ <<>> \in Seq(B) /\ TextBlock(text) \in B
        BY <1>0, <3>2
      <4>2. /\ TextsOf(head) = JoinText(0, <<>>, TextBlock(text))
            /\ CallsOf(head) = KeepCall(0, <<>>, TextBlock(text))
        BY <4>1, BlocksOneMore, LoopsOfNone
      <4>3. <<>> \o text = text /\ head # <<>>
        BY <3>2
      <4> QED BY <4>2, <4>3 DEF JoinText, KeepCall, TextBlock
    <3> QED BY <3>1, <3>2
  <2>3. <<>> \in Seq(Asks)
    OBVIOUS
  <2> HIDE DEF Of
  <2> QED BY <2>1, <2>2, <2>3
<1>4. ASSUME NEW s \in Seq(Asks), NEW c \in Asks, s \in T PROVE Append(s, c) \in T
  <2>1. Map(Append(s, c), UseBlock) = Append(Map(s, UseBlock), UseBlock(c))
    BY DEF Map
  <2>2. Map(s, UseBlock) \in Seq(B) /\ Of(s) \in Seq(B) /\ UseBlock(c) \in B
    BY <1>0, <1>2
  <2>3. Of(Append(s, c)) = Append(Of(s), UseBlock(c))
    <3> DEFINE mapped == Map(s, UseBlock)
               block == UseBlock(c)
    <3>1. mapped \in Seq(B) /\ block \in B /\ Of(Append(s, c)) = head \o Append(mapped, block)
      BY <2>1, <2>2
    <3>2. Of(s) = head \o mapped
      OBVIOUS
    <3> HIDE DEF mapped, block, Of
    <3>3. head \o Append(mapped, block) = Append(head \o mapped, block)
      BY <1>1, <3>1
    <3> QED BY <3>1, <3>2, <3>3 DEF block
  <2>4. /\ TextsOf(Of(Append(s, c))) = JoinText(0, TextsOf(Of(s)), UseBlock(c))
        /\ CallsOf(Of(Append(s, c))) = KeepCall(0, CallsOf(Of(s)), UseBlock(c))
    BY <2>2, <2>3, BlocksOneMore
  <2>5. Append(s, c) \in Seq(Asks) /\ TextsOf(Of(s)) = (IF head = <<>> THEN <<>> ELSE text)
        /\ CallsOf(Of(s)) = s
    BY <1>4
  <2> HIDE DEF Of
  <2>6. /\ TextsOf(Of(Append(s, c))) = TextsOf(Of(s))
        /\ CallsOf(Of(Append(s, c))) = Append(CallsOf(Of(s)), c)
    BY <2>4 DEF JoinText, KeepCall, UseBlock
  <2> QED BY <2>5, <2>6
<1>5. calls \in T
  <2> HIDE DEF T
  <2>1. Seq(Asks) \subseteq T
    BY <1>3, <1>4, Texts!SequenceInduction
  <2> QED BY <2>1
<1>6. Of(calls) \in Seq(B) /\ (Of(calls) # <<>> => Of(calls)[1].type # "tool_result")
  <2> HIDE DEF Of
  <2> QED BY <1>0, <1>2
<1> QED BY <1>5, <1>6

LEMMA MessageTyped ==
  ASSUME NEW m \in Messages
  PROVE  /\ m.role \in {"system", "user", "assistant", "tool"} /\ m.content \in Seq(Places)
         /\ m.tool_calls \in Seq(Asks) /\ m.tool_call_id \in Ids /\ m.name \in Tool \cup {None}
         /\ m.role # "assistant" => m.tool_calls = <<>>
         /\ m.role # "tool" => m.tool_call_id = None /\ m.name = None
BY DEF Messages

LEMMA NamedTyped ==
  ASSUME NEW m \in Messages
  PROVE  /\ Map(m.tool_calls, WithoutId) \in Seq(Asks)
         /\ UnderName(m) \in Messages
         /\ UnderName(m).role = m.role /\ UnderName(m).content = m.content
         /\ UnderName(m).tool_calls = Map(m.tool_calls, WithoutId)
         /\ UnderName(m).tool_call_id = m.name
<1>1. \A c \in Asks : WithoutId(c) \in Asks
  BY DEF WithoutId, ToolCall, Asks, Ids
<1>2. Map(m.tool_calls, WithoutId) \in Seq(Asks)
  BY <1>1, MessageTyped DEF Map
<1>3. m.role # "assistant" => Map(m.tool_calls, WithoutId) = <<>>
  BY MessageTyped DEF Map
<1>4. m.name \in Ids
  BY MessageTyped DEF Ids
<1> QED BY <1>2, <1>3, <1>4 DEF UnderName, Messages

(* One message, in each of the three formats.                              *)
LEMMA MessageRead ==
  ASSUME NEW m \in Messages
  PROVE  /\ OpenAIMessage(m).role = m.role /\ OpenAIMessage(m).content = m.content
         /\ MessageTurn(OpenAIMessage(m)) = MessageTurn(m)
         /\ m.role # "system" => AnthropicTurn(AnthropicMessage(m)) = MessageTurn(m)
         /\ m.role # "system" => GoogleTurn(GoogleContent(m)) = MessageTurn(UnderName(m))
<1>1. /\ OpenAIMessage(m).role = m.role /\ OpenAIMessage(m).content = m.content
      /\ MessageTurn(OpenAIMessage(m)) = MessageTurn(m)
  BY MessageTyped DEF OpenAIMessage, MessageTurn
<1>2. ASSUME m.role # "system" PROVE AnthropicTurn(AnthropicMessage(m)) = MessageTurn(m)
  <2>1. CASE m.role = "tool"
    BY <2>1, MessageTyped
    DEF AnthropicMessage, AnthropicTurn, MessageTurn, Turn, ResultBlock
  <2>2. CASE m.role # "tool"
    <3> DEFINE head == IF m.content = <<>> /\ m.tool_calls # <<>> THEN <<>>
                       ELSE <<TextBlock(m.content)>>
               blocks == head \o Map(m.tool_calls, UseBlock)
    <3>1. AnthropicMessage(m) = [role |-> m.role, content |-> blocks]
      BY <2>2 DEF AnthropicMessage
    <3>2. /\ TextsOf(blocks) = IF head = <<>> THEN <<>> ELSE m.content
          /\ CallsOf(blocks) = m.tool_calls
          /\ blocks # <<>> => blocks[1].type # "tool_result"
      BY MessageTyped, BlocksRead
    <3>3. head = <<>> => m.content = <<>>
      OBVIOUS
    <3> HIDE DEF blocks, head
    <3> QED BY <2>2, <3>1, <3>2, <3>3, MessageTyped DEF AnthropicTurn, MessageTurn
  <2> QED BY <2>1, <2>2
<1>3. ASSUME m.role # "system" PROVE GoogleTurn(GoogleContent(m)) = MessageTurn(UnderName(m))
  <2>1. CASE m.role = "tool"
    <3>1. UnderName(m).tool_calls = <<>>
      BY <2>1, NamedTyped, MessageTyped DEF Map
    <3> QED BY <2>1, <3>1, NamedTyped
      DEF GoogleContent, GoogleTurn, MessageTurn, Turn, ResultBlock
  <2>2. CASE m.role # "tool"
    <3> DEFINE head == IF m.content = <<>> THEN <<>> ELSE <<TextBlock(m.content)>>
               blocks == head \o Map(Map(m.tool_calls, WithoutId), UseBlock)
    <3>1. GoogleContent(m) = [role |-> GoogleRole(m.role), parts |-> blocks]
      BY <2>2 DEF GoogleContent
    <3>2. /\ TextsOf(blocks) = IF head = <<>> THEN <<>> ELSE m.content
          /\ CallsOf(blocks) = Map(m.tool_calls, WithoutId)
      BY MessageTyped, NamedTyped, BlocksRead
    <3>3. head = <<>> => m.content = <<>>
      OBVIOUS
    <3>4. /\ GoogleRole(m.role) # "function"
          /\ (IF GoogleRole(m.role) = "model" THEN "assistant" ELSE GoogleRole(m.role)) = m.role
      BY <1>3, <2>2, MessageTyped DEF GoogleRole
    <3> HIDE DEF blocks, head
    <3> QED BY <2>2, <3>1, <3>2, <3>3, <3>4, NamedTyped, MessageTyped DEF GoogleTurn, MessageTurn
  <2> QED BY <2>1, <2>2
<1> QED BY <1>1, <1>2, <1>3

-----------------------------------------------------------------------------
(* A conversation of one message more, as each service reads it.           *)
WithMessage(read, m) ==
  IF m.role = "system" THEN [system |-> read.system \o m.content, turns |-> read.turns]
  ELSE [system |-> read.system, turns |-> Append(read.turns, MessageTurn(m))]

LEMMA WithMessageIs ==
  ASSUME NEW said, NEW turns, NEW m
  PROVE  WithMessage([system |-> said, turns |-> turns], m) =
           [system |-> IF m.role = "system" THEN said \o m.content ELSE said,
            turns |-> IF m.role = "system" THEN turns ELSE Append(turns, MessageTurn(m))]
BY DEF WithMessage

LEMMA MappedTyped ==
  ASSUME NEW msgs \in Seq(Messages)
  PROVE  /\ ToOpenAI(msgs) \in Seq({OpenAIMessage(m) : m \in Messages})
         /\ ByName(msgs) \in Seq(Messages)
         /\ \A m \in Messages : /\ ToOpenAI(Append(msgs, m)) = Append(ToOpenAI(msgs), OpenAIMessage(m))
                                /\ ByName(Append(msgs, m)) = Append(ByName(msgs), UnderName(m))
<1>1. ToOpenAI(msgs) \in Seq({OpenAIMessage(m) : m \in Messages})
  BY DEF ToOpenAI, Map
<1>2. ByName(msgs) \in Seq(Messages)
  <2>1. \A m \in Messages : UnderName(m) \in Messages
    BY NamedTyped
  <2> QED BY <2>1 DEF ByName, Map
<1>3. ASSUME NEW m \in Messages
      PROVE  /\ ToOpenAI(Append(msgs, m)) = Append(ToOpenAI(msgs), OpenAIMessage(m))
             /\ ByName(Append(msgs, m)) = Append(ByName(msgs), UnderName(m))
  BY DEF ToOpenAI, ByName, Map
<1> QED BY <1>1, <1>2, <1>3

LEMMA ReadOneMore ==
  ASSUME NEW S, NEW msgs \in Seq(S), NEW m \in S
  PROVE  ReadMessages(Append(msgs, m)) = WithMessage(ReadMessages(msgs), m)
<1> DEFINE system == InRole("system", msgs)
           turns == NotSystem(msgs)
<1>1. system \in Seq(S) /\ turns \in Seq(S)
  <2>1. turns \in Seq({x \in S : x.role # "system"}) /\ system \in Seq(S)
    BY SelectionsTyped
  <2>2. {x \in S : x.role # "system"} \subseteq S
    OBVIOUS
  <2> QED BY <2>1, <2>2, SeqMonotonic
<1>2. /\ InRole("system", Append(msgs, m)) = IF m.role = "system" THEN Append(system, m) ELSE system
      /\ NotSystem(Append(msgs, m)) = IF m.role = "system" THEN turns ELSE Append(turns, m)
  BY MessagesOneMore DEF KeepRole, KeepTurn
<1>3. ReadMessages(msgs) = [system |-> Contents(system), turns |-> Map(turns, MessageTurn)]
  BY DEF ReadMessages
<1>4. ReadMessages(Append(msgs, m)) =
        [system |-> Contents(InRole("system", Append(msgs, m))),
         turns |-> Map(NotSystem(Append(msgs, m)), MessageTurn)]
  BY DEF ReadMessages
<1> HIDE DEF system, turns
<1>5. Contents(Append(system, m)) = Contents(system) \o m.content
  BY <1>1, MessagesOneMore DEF JoinContent
<1>6. Map(Append(turns, m), MessageTurn) = Append(Map(turns, MessageTurn), MessageTurn(m))
  BY <1>1 DEF Map
<1> DEFINE said == Contents(system)
           read == Map(turns, MessageTurn)
<1>7. /\ Contents(InRole("system", Append(msgs, m))) =
           IF m.role = "system" THEN said \o m.content ELSE said
      /\ Map(NotSystem(Append(msgs, m)), MessageTurn) =
           IF m.role = "system" THEN read ELSE Append(read, MessageTurn(m))
  BY <1>2, <1>5, <1>6
<1> HIDE DEF said, read
<1>8. ReadMessages(msgs) = [system |-> said, turns |-> read]
  BY <1>3 DEF said, read
<1>9. WithMessage([system |-> said, turns |-> read], m) =
        [system |-> IF m.role = "system" THEN said \o m.content ELSE said,
         turns |-> IF m.role = "system" THEN read ELSE Append(read, MessageTurn(m))]
  BY WithMessageIs
<1> QED BY <1>4, <1>7, <1>8, <1>9

(* The three translations lose nothing.                                    *)
LEMMA OpenAIReads ==
  ASSUME NEW msgs \in Seq(Messages)
  PROVE  ReadMessages(ToOpenAI(msgs)) = ReadMessages(msgs)
<1> DEFINE T == {s \in Seq(Messages) : ReadMessages(ToOpenAI(s)) = ReadMessages(s)}
           S == {OpenAIMessage(m) : m \in Messages}
<1>1. <<>> \in T
  <2>1. ToOpenAI(<<>>) = <<>> /\ <<>> \in Seq(Messages)
    BY DEF ToOpenAI, Map
  <2> QED BY <2>1
<1>2. ASSUME NEW s \in Seq(Messages), NEW m \in Messages, s \in T PROVE Append(s, m) \in T
  <2>1. /\ ToOpenAI(s) \in Seq(S) /\ OpenAIMessage(m) \in S
        /\ ToOpenAI(Append(s, m)) = Append(ToOpenAI(s), OpenAIMessage(m))
    BY MappedTyped
  <2> HIDE DEF S
  <2>2. ReadMessages(ToOpenAI(Append(s, m))) = WithMessage(ReadMessages(ToOpenAI(s)), OpenAIMessage(m))
    BY <2>1, ReadOneMore
  <2>3. ReadMessages(Append(s, m)) = WithMessage(ReadMessages(s), m)
    BY ReadOneMore
  <2>4. Append(s, m) \in Seq(Messages) /\ ReadMessages(ToOpenAI(s)) = ReadMessages(s)
    BY <1>2
  <2> QED BY <2>2, <2>3, <2>4, MessageRead DEF WithMessage
<1> HIDE DEF T
<1>3. Seq(Messages) \subseteq T
  BY <1>1, <1>2, Texts!SequenceInduction
<1> QED BY <1>3 DEF T

LEMMA AnthropicReads ==
  ASSUME NEW msgs \in Seq(Messages)
  PROVE  ReadAnthropic(ToAnthropic(msgs)) = ReadMessages(msgs)
<1> DEFINE turns == NotSystem(msgs)
<1>1. \A k \in DOMAIN turns : turns[k] \in Messages /\ turns[k].role # "system"
  <2>1. turns \in Seq({m \in Messages : m.role # "system"})
    BY SelectionsTyped
  <2> QED BY <2>1
<1>2. \A k \in DOMAIN turns : AnthropicTurn(AnthropicMessage(turns[k])) = MessageTurn(turns[k])
  BY <1>1, MessageRead
<1>3. /\ ToAnthropic(msgs).system = Contents(InRole("system", msgs))
      /\ ToAnthropic(msgs).messages = Map(turns, AnthropicMessage)
  BY DEF ToAnthropic
<1> HIDE DEF turns
<1>4. Map(Map(turns, AnthropicMessage), AnthropicTurn) = Map(turns, MessageTurn)
  BY <1>2 DEF Map
<1> QED BY <1>3, <1>4 DEF ReadAnthropic, ReadMessages, turns

LEMMA GoogleReads ==
  ASSUME NEW msgs \in Seq(Messages)
  PROVE  ReadGoogle(ToGoogle(msgs)) = ReadMessages(ByName(msgs))
<1> DEFINE Named(s) == [system |-> Contents(InRole("system", s)),
                        turns |-> Map(NotSystem(s), LAMBDA m : MessageTurn(UnderName(m)))]
           T == {s \in Seq(Messages) : ReadMessages(ByName(s)) = Named(s)}
<1>1. <<>> \in T
  <2>1. ByName(<<>>) = <<>> /\ <<>> \in Seq(Messages)
    BY DEF ByName, Map
  <2>2. ReadMessages(<<>>) = Named(<<>>)
    BY LoopsOfNone DEF ReadMessages, Map
  <2> QED BY <2>1, <2>2
<1>2. ASSUME NEW s \in Seq(Messages), NEW m \in Messages, s \in T PROVE Append(s, m) \in T
  <2>1. /\ ByName(s) \in Seq(Messages) /\ UnderName(m) \in Messages
        /\ ByName(Append(s, m)) = Append(ByName(s), UnderName(m))
    BY MappedTyped, NamedTyped
  <2>2. ReadMessages(ByName(Append(s, m))) = WithMessage(ReadMessages(ByName(s)), UnderName(m))
    BY <2>1, ReadOneMore
  <2>3. Named(Append(s, m)) = WithMessage(Named(s), UnderName(m))
    <3> DEFINE system == InRole("system", s)
               turns == NotSystem(s)
    <3>1. system \in Seq(Messages) /\ turns \in Seq(Messages)
      <4>1. turns \in Seq({x \in Messages : x.role # "system"}) /\ system \in Seq(Messages)
        BY SelectionsTyped
      <4>2. {x \in Messages : x.role # "system"} \subseteq Messages
        OBVIOUS
      <4> QED BY <4>1, <4>2, SeqMonotonic
    <3>2. /\ InRole("system", Append(s, m)) = IF m.role = "system" THEN Append(system, m) ELSE system
          /\ NotSystem(Append(s, m)) = IF m.role = "system" THEN turns ELSE Append(turns, m)
      BY MessagesOneMore DEF KeepRole, KeepTurn
    <3>3. Named(s) = [system |-> Contents(system),
                      turns |-> Map(turns, LAMBDA x : MessageTurn(UnderName(x)))]
      OBVIOUS
    <3>4. Named(Append(s, m)) =
            [system |-> Contents(InRole("system", Append(s, m))),
             turns |-> Map(NotSystem(Append(s, m)), LAMBDA x : MessageTurn(UnderName(x)))]
      OBVIOUS
    <3> HIDE DEF system, turns, Named
    <3>5. Contents(Append(system, m)) = Contents(system) \o m.content
      BY <3>1, MessagesOneMore DEF JoinContent
    <3>6. Map(Append(turns, m), LAMBDA x : MessageTurn(UnderName(x))) =
            Append(Map(turns, LAMBDA x : MessageTurn(UnderName(x))), MessageTurn(UnderName(m)))
      BY <3>1 DEF Map
    <3>7. UnderName(m).role = m.role /\ UnderName(m).content = m.content
      BY NamedTyped
    <3> DEFINE said == Contents(system)
               read == Map(turns, LAMBDA x : MessageTurn(UnderName(x)))
    <3>8. /\ Contents(InRole("system", Append(s, m))) =
               IF m.role = "system" THEN said \o m.content ELSE said
          /\ Map(NotSystem(Append(s, m)), LAMBDA x : MessageTurn(UnderName(x))) =
               IF m.role = "system" THEN read ELSE Append(read, MessageTurn(UnderName(m)))
      BY <3>2, <3>5, <3>6
    <3>9. Named(s) = [system |-> said, turns |-> read]
      BY <3>3
    <3> HIDE DEF said, read
    <3>10. WithMessage([system |-> said, turns |-> read], UnderName(m)) =
             [system |-> IF m.role = "system" THEN said \o m.content ELSE said,
              turns |-> IF m.role = "system" THEN read ELSE Append(read, MessageTurn(UnderName(m)))]
      BY <3>7, WithMessageIs
    <3> QED BY <3>4, <3>8, <3>9, <3>10
  <2>4. Append(s, m) \in Seq(Messages) /\ ReadMessages(ByName(s)) = Named(s)
    BY <1>2
  <2> HIDE DEF Named
  <2> QED BY <2>2, <2>3, <2>4
<1> HIDE DEF T
<1>3. Seq(Messages) \subseteq T
  BY <1>1, <1>2, Texts!SequenceInduction
<1>4. ReadMessages(ByName(msgs)) = Named(msgs)
  BY <1>3 DEF T
<1> DEFINE turns == NotSystem(msgs)
<1>5. \A k \in DOMAIN turns : turns[k] \in Messages /\ turns[k].role # "system"
  <2>1. turns \in Seq({m \in Messages : m.role # "system"})
    BY SelectionsTyped
  <2> QED BY <2>1
<1>6. \A k \in DOMAIN turns : GoogleTurn(GoogleContent(turns[k])) = MessageTurn(UnderName(turns[k]))
  BY <1>5, MessageRead
<1>7. /\ ToGoogle(msgs).system = Contents(InRole("system", msgs))
      /\ ToGoogle(msgs).contents = Map(turns, GoogleContent)
  BY DEF ToGoogle
<1>8. Named(msgs) = [system |-> Contents(InRole("system", msgs)),
                     turns |-> Map(turns, LAMBDA x : MessageTurn(UnderName(x)))]
  OBVIOUS
<1> HIDE DEF turns, Named
<1>9. Map(Map(turns, GoogleContent), GoogleTurn) = Map(turns, LAMBDA x : MessageTurn(UnderName(x)))
  BY <1>6 DEF Map
<1> QED BY <1>4, <1>7, <1>8, <1>9 DEF ReadGoogle

LEMMA MLXReads ==
  ASSUME NEW msgs \in Seq(Messages)
  PROVE  Contents(MLXPrompt(msgs)) = Contents(msgs)
<1> DEFINE Line(m) == [role |-> m.role, content |-> m.content]
           S == {Line(m) : m \in Messages}
           T == {s \in Seq(Messages) : Contents(MLXPrompt(s)) = Contents(s)}
<1>1. <<>> \in T
  <2>1. MLXPrompt(<<>>) = <<>> /\ <<>> \in Seq(Messages)
    BY DEF MLXPrompt, Map
  <2> QED BY <2>1
<1>2. ASSUME NEW s \in Seq(Messages), NEW m \in Messages, s \in T PROVE Append(s, m) \in T
  <2>1. /\ MLXPrompt(s) \in Seq(S) /\ Line(m) \in S /\ Line(m).content = m.content
        /\ MLXPrompt(Append(s, m)) = Append(MLXPrompt(s), Line(m))
    <3>1. \A x \in Messages : Line(x) \in S
      OBVIOUS
    <3>2. /\ MLXPrompt(s) = [k \in DOMAIN s |-> Line(s[k])]
          /\ MLXPrompt(Append(s, m)) = [k \in DOMAIN Append(s, m) |-> Line(Append(s, m)[k])]
      BY DEF MLXPrompt, Map
    <3>3. Line(m).content = m.content
      OBVIOUS
    <3> HIDE DEF S, Line
    <3> QED BY <3>1, <3>2, <3>3
  <2> HIDE DEF S, Line
  <2>2. Contents(MLXPrompt(Append(s, m))) = Contents(MLXPrompt(s)) \o m.content
    BY <2>1, MessagesOneMore DEF JoinContent
  <2>3. Contents(Append(s, m)) = Contents(s) \o m.content
    BY MessagesOneMore DEF JoinContent
  <2>4. Append(s, m) \in Seq(Messages) /\ Contents(MLXPrompt(s)) = Contents(s)
    BY <1>2
  <2> QED BY <2>2, <2>3, <2>4
<1> HIDE DEF T
<1>3. Seq(Messages) \subseteq T
  BY <1>1, <1>2, Texts!SequenceInduction
<1> QED BY <1>3 DEF T

LEMMA RequestsSay ==
  ASSUME messages \in Seq(Messages) PROVE RequestSaysConversation
BY OpenAIReads, AnthropicReads, GoogleReads, MLXReads DEF RequestSaysConversation

-----------------------------------------------------------------------------
(* The calls and the results of a conversation, of one message more.       *)
LEMMA CallsAre ==
  ASSUME NEW conversation
  PROVE  /\ Calls(conversation) = CallsIn(conversation.turns)
         /\ Results(conversation) = ResultsIn(conversation.turns)
BY DEF Calls, CallsIn, Results, ResultsIn

LEMMA TurnIs ==
  ASSUME NEW m
  PROVE  /\ MessageTurn(m).who = m.role /\ MessageTurn(m).text = m.content
         /\ MessageTurn(m).uses = m.tool_calls /\ MessageTurn(m).answers = m.tool_call_id
BY DEF MessageTurn, Turn

LEMMA CallsTyped ==
  ASSUME NEW asks, NEW M, \A m \in M : m.tool_calls \in Seq(asks), NEW msgs \in Seq(M)
  PROVE  /\ ReadMessages(msgs).turns \in Seq({MessageTurn(m) : m \in M})
         /\ Calls(ReadMessages(msgs)) \in Seq(asks)
<1> DEFINE S == {MessageTurn(m) : m \in M}
           D == Seq(asks)
           turns == NotSystem(msgs)
<1>1. turns \in Seq(M)
  <2>1. turns \in Seq({x \in M : x.role # "system"}) /\ {x \in M : x.role # "system"} \subseteq M
    BY SelectionsTyped
  <2> QED BY <2>1, SeqMonotonic
<1>2. ReadMessages(msgs).turns = Map(turns, MessageTurn)
  BY DEF ReadMessages
<1>3. \A m \in M : MessageTurn(m) \in S
  OBVIOUS
<1>4. \A t \in S : t.uses \in D
  BY TurnIs
<1> HIDE DEF S, turns
<1>5. ReadMessages(msgs).turns \in Seq(S)
  BY <1>1, <1>2, <1>3 DEF Map
<1>6. <<>> \in D /\ \A calls \in D, t \in S : JoinUses(0, calls, t) \in D
  BY <1>4 DEF JoinUses
<1> HIDE DEF D
<1>7. \A s \in Seq(S) : Called!Result(0, s) \in D
  BY ONLY <1>6, Called!ThroughStaysIn
<1> QED BY <1>5, <1>7, CallsAre, LoopsAre DEF S, D

LEMMA ConversationOneMore ==
  ASSUME NEW msgs \in Seq(Messages), NEW m \in Messages
  PROVE  LET before == ReadMessages(msgs)
             after == ReadMessages(Append(msgs, m)) IN
         /\ Calls(after) = Calls(before) \o m.tool_calls
         /\ Results(after) = IF m.role = "tool" THEN Append(Results(before), MessageTurn(m))
                             ELSE Results(before)
<1> DEFINE before == ReadMessages(msgs)
           after == ReadMessages(Append(msgs, m))
           S == {MessageTurn(x) : x \in Messages}
<1>1. \A x \in Messages : x.tool_calls \in Seq(Asks)
  BY MessageTyped
<1>2. before.turns \in Seq(S) /\ Calls(before) \in Seq(Asks)
  BY <1>1, CallsTyped
<1>3. MessageTurn(m) \in S
  OBVIOUS
<1>4. after = WithMessage(before, m)
  BY ReadOneMore
<1> HIDE DEF before, after, S
<1>5. CASE m.role = "system"
  <2>1. after.turns = before.turns
    BY <1>4, <1>5 DEF WithMessage
  <2>2. m.tool_calls = <<>> /\ Calls(before) \o <<>> = Calls(before)
    BY <1>2, <1>5, MessageTyped
  <2> QED BY <1>5, <2>1, <2>2, CallsAre DEF before, after
<1>6. CASE m.role # "system"
  <2>1. after.turns = Append(before.turns, MessageTurn(m))
    BY <1>4, <1>6 DEF WithMessage
  <2>2. /\ CallsIn(after.turns) = CallsIn(before.turns) \o m.tool_calls
        /\ ResultsIn(after.turns) = IF m.role = "tool" THEN Append(ResultsIn(before.turns), MessageTurn(m))
                                    ELSE ResultsIn(before.turns)
    <3>1. /\ CallsIn(after.turns) = JoinUses(0, CallsIn(before.turns), MessageTurn(m))
          /\ ResultsIn(after.turns) = KeepResult(0, ResultsIn(before.turns), MessageTurn(m))
      BY <1>2, <1>3, <2>1, TurnsOneMore
    <3> QED BY <3>1, TurnIs DEF JoinUses, KeepResult
  <2> QED BY <2>2, CallsAre DEF before, after
<1> QED BY <1>5, <1>6

LEMMA ResultsAre ==
  ASSUME NEW msgs \in Seq(Messages)
  PROVE  Results(ReadMessages(msgs)) = Map(InRole("tool", msgs), MessageTurn)
<1> DEFINE T == {s \in Seq(Messages) :
                   Results(ReadMessages(s)) = Map(InRole("tool", s), MessageTurn)}
<1>1. <<>> \in T
  <2>1. ReadMessages(<<>>).turns = <<>>
    BY LoopsOfNone DEF ReadMessages, Map
  <2>2. Results(ReadMessages(<<>>)) = <<>>
    BY <2>1, LoopsOfNone, CallsAre
  <2>3. Map(InRole("tool", <<>>), MessageTurn) = <<>> /\ <<>> \in Seq(Messages)
    BY LoopsOfNone DEF Map
  <2> QED BY <2>2, <2>3
<1>2. ASSUME NEW s \in Seq(Messages), NEW m \in Messages, s \in T PROVE Append(s, m) \in T
  <2> DEFINE told == InRole("tool", s)
             read == Map(told, MessageTurn)
  <2>0. Append(s, m) \in Seq(Messages)
    OBVIOUS
  <2>1. told \in Seq(Messages)
    BY SelectionsTyped
  <2>2. InRole("tool", Append(s, m)) = IF m.role = "tool" THEN Append(told, m) ELSE told
    BY MessagesOneMore DEF KeepRole
  <2>3. Results(ReadMessages(s)) = read
    BY <1>2
  <2> HIDE DEF told
  <2>4. Map(Append(told, m), MessageTurn) = Append(read, MessageTurn(m))
    BY <2>1 DEF Map
  <2>5. Map(InRole("tool", Append(s, m)), MessageTurn) =
          IF m.role = "tool" THEN Append(read, MessageTurn(m)) ELSE read
    BY <2>2, <2>4
  <2> HIDE DEF read
  <2>6. Results(ReadMessages(Append(s, m))) =
          IF m.role = "tool" THEN Append(read, MessageTurn(m)) ELSE read
    BY <2>3, ConversationOneMore
  <2> QED BY <2>0, <2>5, <2>6
<1> HIDE DEF T
<1>3. Seq(Messages) \subseteq T
  BY <1>1, <1>2, Texts!SequenceInduction
<1> QED BY <1>3 DEF T

(* What is asked of a tool: in calls after each other, without their ids,  *)
(* and in a first call and the rest.                                       *)
LEMMA AskedTyped ==
  ASSUME NEW tool, NEW calls \in Seq(Asks) PROVE AskedOf(tool, calls) \in Seq(Places)
<1> DEFINE D == Seq(Places)
<1>1. <<>> \in D /\ \A asked \in D, c \in Asks : KeepAsked(tool, asked, c) \in D
  BY DEF KeepAsked, Asks
<1> HIDE DEF D
<1>2. \A s \in Seq(Asks) : Asking!Result(tool, s) \in D
  BY ONLY <1>1, Asking!ThroughStaysIn
<1> QED BY <1>2, LoopsAre DEF D

LEMMA AskedOfBoth ==
  ASSUME NEW tool, NEW first \in Seq(Asks), NEW second \in Seq(Asks)
  PROVE  AskedOf(tool, first \o second) = AskedOf(tool, first) \o AskedOf(tool, second)
<1> DEFINE T == {s \in Seq(Asks) : AskedOf(tool, first \o s) = AskedOf(tool, first) \o AskedOf(tool, s)}
<1>1. <<>> \in T
  <2>1. first \o <<>> = first /\ AskedOf(tool, first) \o <<>> = AskedOf(tool, first)
    BY AskedTyped
  <2>2. <<>> \in Seq(Asks) /\ AskedOf(tool, <<>>) = <<>>
    BY LoopsOfNone
  <2> QED BY <2>1, <2>2
<1>2. ASSUME NEW s \in Seq(Asks), NEW c \in Asks, s \in T PROVE Append(s, c) \in T
  <2> DEFINE both == first \o s
             a == AskedOf(tool, first)
             b == AskedOf(tool, s)
  <2>1. /\ first \o Append(s, c) = Append(both, c) /\ both \in Seq(Asks)
        /\ Append(s, c) \in Seq(Asks)
    OBVIOUS
  <2>2. a \in Seq(Places) /\ b \in Seq(Places) /\ c.arguments \in Places
    BY AskedTyped DEF Asks
  <2>3. AskedOf(tool, both) = a \o b
    BY <1>2
  <2> HIDE DEF both, a, b
  <2>4. AskedOf(tool, Append(both, c)) = IF c.name = tool THEN Append(a \o b, c.arguments) ELSE a \o b
    <3>1. AskedOf(tool, Append(both, c)) = KeepAsked(tool, AskedOf(tool, both), c)
      BY <2>1, AskedOneMore
    <3> QED BY <2>3, <3>1 DEF KeepAsked
  <2>5. AskedOf(tool, Append(s, c)) = IF c.name = tool THEN Append(b, c.arguments) ELSE b
    BY AskedOneMore DEF KeepAsked, b
  <2>6. Append(a \o b, c.arguments) = a \o Append(b, c.arguments)
    <3> DEFINE x == c.arguments
    <3>1. x \in Places
      BY <2>2
    <3> HIDE DEF x
    <3>2. a \o Append(b, x) = Append(a \o b, x)
      BY <2>2, <3>1
    <3> QED BY <3>2 DEF x
  <2>7. AskedOf(tool, first \o Append(s, c)) = a \o AskedOf(tool, Append(s, c))
    BY <2>1, <2>4, <2>5, <2>6
  <2> QED BY <2>1, <2>7 DEF a
<1> HIDE DEF T
<1>3. Seq(Asks) \subseteq T
  BY <1>1, <1>2, Texts!SequenceInduction
<1> QED BY <1>3 DEF T

LEMMA AskedWithoutIds ==
  ASSUME NEW tool, NEW calls \in Seq(Asks)
  PROVE  AskedOf(tool, Map(calls, WithoutId)) = AskedOf(tool, calls)
<1> DEFINE T == {s \in Seq(Asks) : AskedOf(tool, Map(s, WithoutId)) = AskedOf(tool, s)}
<1>1. <<>> \in T
  BY DEF Map
<1>2. ASSUME NEW s \in Seq(Asks), NEW c \in Asks, s \in T PROVE Append(s, c) \in T
  <2> DEFINE mapped == Map(s, WithoutId)
             bare == WithoutId(c)
  <2>1. bare.name = c.name /\ bare.arguments = c.arguments /\ \A x \in Asks : WithoutId(x) \in Asks
    BY DEF WithoutId, ToolCall, Asks, Ids
  <2>2. mapped \in Seq(Asks) /\ Map(Append(s, c), WithoutId) = Append(mapped, bare)
    <3>1. mapped \in Seq(Asks)
      BY <2>1 DEF Map
    <3>2. Map(Append(s, c), WithoutId) = Append(mapped, bare)
      BY DEF Map
    <3> QED BY <3>1, <3>2
  <2>3. Append(s, c) \in Seq(Asks) /\ AskedOf(tool, mapped) = AskedOf(tool, s) /\ bare \in Asks
    BY <1>2, <2>1
  <2> HIDE DEF mapped, bare
  <2>4. AskedOf(tool, Append(mapped, bare)) = KeepAsked(tool, AskedOf(tool, mapped), bare)
    BY <2>2, <2>3, AskedOneMore
  <2>5. AskedOf(tool, Append(s, c)) = KeepAsked(tool, AskedOf(tool, s), c)
    BY AskedOneMore
  <2>6. AskedOf(tool, Map(Append(s, c), WithoutId)) = AskedOf(tool, Append(s, c))
    BY <2>1, <2>2, <2>3, <2>4, <2>5 DEF KeepAsked
  <2> QED BY <2>3, <2>6
<1> HIDE DEF T
<1>3. Seq(Asks) \subseteq T
  BY <1>1, <1>2, Texts!SequenceInduction
<1> QED BY <1>3 DEF T

LEMMA AskedFirst ==
  ASSUME NEW tool, NEW calls \in Seq(Asks), calls # <<>>
  PROVE  AskedOf(tool, calls) =
           (IF Head(calls).name = tool THEN <<Head(calls).arguments>> ELSE <<>>)
           \o AskedOf(tool, Tail(calls))
<1> DEFINE first == <<Head(calls)>>
<1>1. /\ first \in Seq(Asks) /\ Tail(calls) \in Seq(Asks) /\ Head(calls) \in Asks
      /\ calls = first \o Tail(calls) /\ first = Append(<<>>, Head(calls))
  OBVIOUS
<1>2. AskedOf(tool, first) = IF Head(calls).name = tool THEN <<Head(calls).arguments>> ELSE <<>>
  <2>0. <<>> \in Seq(Asks)
    OBVIOUS
  <2>1. AskedOf(tool, Append(<<>>, Head(calls))) = KeepAsked(tool, AskedOf(tool, <<>>), Head(calls))
    BY ONLY <1>1, <2>0, AskedOneMore
  <2>2. AskedOf(tool, <<>>) = <<>> /\ Append(<<>>, Head(calls).arguments) = <<Head(calls).arguments>>
    BY LoopsOfNone
  <2> QED BY <1>1, <2>1, <2>2 DEF KeepAsked
<1> HIDE DEF first
<1>3. AskedOf(tool, first \o Tail(calls)) = AskedOf(tool, first) \o AskedOf(tool, Tail(calls))
  BY <1>1, AskedOfBoth
<1> QED BY <1>1, <1>2, <1>3

-----------------------------------------------------------------------------
(* Every step leaves the messages, or appends one.                         *)
LEMMA MessageInHeld ==
  ASSUME NEW text \in Seq(Places)
  PROVE  /\ \A calls \in Seq(OwnAsks) : Assistant(text, calls) \in Held
         /\ \A role \in {"system", "user"} : Message(role, text, <<>>, None, None) \in Held
         /\ \A id \in Ids, name \in Tool : Message("tool", text, <<>>, id, name) \in Held
<1>1. OwnAsks \subseteq Asks
  BY DEF OwnAsks
<1>2. \A calls \in Seq(OwnAsks) : calls \in Seq(Asks)
  BY <1>1, SeqMonotonic
<1>3. None \in Ids /\ <<>> \in Seq(OwnAsks) /\ <<>> \in Seq(Asks)
  BY DEF Ids
<1>4. \A calls \in Seq(OwnAsks) : Assistant(text, calls) \in Held
  BY <1>2, <1>3 DEF Assistant, Message, Held, Messages
<1>5. \A role \in {"system", "user"} : Message(role, text, <<>>, None, None) \in Held
  BY <1>3 DEF Message, Held, Messages
<1>6. \A id \in Ids, name \in Tool : Message("tool", text, <<>>, id, name) \in Held
  BY <1>3 DEF Message, Held, Messages
<1> QED BY <1>4, <1>5, <1>6

(* A reply of some blocks has texts and calls.                             *)
BlocksOf(asks) == {TextBlock(text) : text \in Seq(Places)} \cup {UseBlock(c) : c \in asks}

LEMMA BlocksTyped ==
  ASSUME NEW asks, NEW blocks \in Seq(BlocksOf(asks))
  PROVE  TextsOf(blocks) \in Seq(Places) /\ CallsOf(blocks) \in Seq(asks)
<1> DEFINE B == BlocksOf(asks)
           D == Seq(Places)
           E == Seq(asks)
<1>1. \A b \in B : (b.type = "text" => b.text \in D) /\ (b.type = "tool_use" => b.call \in asks)
  BY DEF BlocksOf, TextBlock, UseBlock
<1>2. /\ <<>> \in D /\ \A said \in D, b \in B : JoinText(0, said, b) \in D
      /\ <<>> \in E /\ \A calls \in E, b \in B : KeepCall(0, calls, b) \in E
  <2>1. <<>> \in D /\ \A said \in D, text \in D : said \o text \in D
    OBVIOUS
  <2>2. <<>> \in E /\ \A calls \in E, c \in asks : Append(calls, c) \in E
    OBVIOUS
  <2> HIDE DEF B, D, E
  <2> QED BY <1>1, <2>1, <2>2 DEF JoinText, KeepCall
<1> HIDE DEF D, E, B
<1>3. \A s \in Seq(B) : Texts!Result(0, s) \in D
  BY ONLY <1>2, Texts!ThroughStaysIn
<1>4. \A s \in Seq(B) : Uses!Result(0, s) \in E
  BY ONLY <1>2, Uses!ThroughStaysIn
<1>5. blocks \in Seq(B)
  BY DEF B
<1> QED BY <1>3, <1>4, <1>5, LoopsAre DEF D, E

LEMMA RepliesTyped ==
  ASSUME NEW said \in Saids, messages \in Seq(Messages)
  PROVE  /\ Blocks(said, Place) \in Seq(BlocksOf(OwnAsks))
         /\ Blocks(said, LAMBDA k : None) \in Seq(BlocksOf(Asks))
         /\ <<Place(1)>> \in Seq(Places)
<1>1. PICK n \in Nat : said \in [1..n -> Tool \cup {Text}]
  BY DEF Saids, SeqOf
<1>2. \A k \in Nat : Place(k) \in Places
  <2>1. Len(messages) + 1 \in Nat
    OBVIOUS
  <2> QED BY <2>1 DEF Place, Places
<1>3. ASSUME NEW k \in 1..n
      PROVE  /\ TextBlock(<<Place(k)>>) \in BlocksOf(OwnAsks)
             /\ TextBlock(<<Place(k)>>) \in BlocksOf(Asks)
             /\ said[k] # Text =>
                  /\ UseBlock(ToolCall(Place(k), said[k], Place(k))) \in BlocksOf(OwnAsks)
                  /\ UseBlock(ToolCall(None, said[k], Place(k))) \in BlocksOf(Asks)
  <2>1. Place(k) \in Places /\ said[k] \in Tool \cup {Text}
    BY <1>1, <1>2
  <2>2. <<Place(k)>> \in Seq(Places)
    BY <2>1
  <2>3. ASSUME said[k] # Text
        PROVE  ToolCall(Place(k), said[k], Place(k)) \in OwnAsks /\ ToolCall(None, said[k], Place(k)) \in Asks
    BY <2>1, <2>3 DEF ToolCall, OwnAsks, Asks, Ids
  <2> QED BY <2>2, <2>3 DEF BlocksOf
<1>4. DOMAIN said = 1..n
  BY <1>1
<1>5. Blocks(said, Place) \in [1..n -> BlocksOf(OwnAsks)]
  BY <1>3, <1>4 DEF Blocks
<1>6. Blocks(said, LAMBDA k : None) \in [1..n -> BlocksOf(Asks)]
  BY <1>3, <1>4 DEF Blocks
<1>7. <<Place(1)>> \in Seq(Places)
  BY <1>2
<1>8. \A S : \A f \in [1..n -> S] : f \in Seq(S)
  BY <1>1, SeqDef
<1> QED BY <1>5, <1>6, <1>7, <1>8

LEMMA StepsOfMessages ==
  ASSUME messages \in Seq(Held), Unanswered \in Seq(OwnAsks), [ChatNext]_chatVars
  PROVE  \/ messages' = messages
         \/ /\ Unanswered = <<>>
            /\ \E m \in Held : m.role # "tool" /\ messages' = Append(messages, m)
         \/ /\ Unanswered # <<>>
            /\ LET call == Head(Unanswered)
                   m == Message("tool", <<call.arguments>>, <<>>, call.id, call.name)
               IN m \in Held /\ messages' = Append(messages, m)
<1> DEFINE Appended == \E m \in Held : m.role # "tool" /\ messages' = Append(messages, m)
<1>0. messages \in Seq(Messages)
  <2>1. Held \subseteq Messages
    BY DEF Held
  <2> QED BY <2>1, SeqMonotonic
<1>1. ASSUME NEW role \in {"system", "user"}, Say(role) PROVE Unanswered = <<>> /\ Appended
  <2>1. <<Place(1)>> \in Seq(Places)
    BY <1>0 DEF Place, Places
  <2>2. Message(role, <<Place(1)>>, <<>>, None, None) \in Held
    BY <2>1, MessageInHeld
  <2>3. Message(role, <<Place(1)>>, <<>>, None, None).role # "tool"
    BY DEF Message
  <2> QED BY <1>1, <2>2, <2>3 DEF Say
<1>2. ASSUME NEW text \in Seq(Places), NEW calls \in Seq(OwnAsks), MayAsk,
             Replied(Assistant(text, calls))
      PROVE  Unanswered = <<>> /\ Appended
  <2>1. Assistant(text, calls) \in Held
    BY MessageInHeld
  <2>2. Assistant(text, calls).role # "tool"
    BY DEF Assistant, Message
  <2> QED BY <1>2, <2>1, <2>2 DEF MayAsk, Replied
<1>3. ASSUME NEW said \in Saids,
             OpenAIChat(said) \/ AnthropicChat(said) \/ GoogleChat(said) \/ Stream(said)
      PROVE  Unanswered = <<>> /\ Appended
  <2> DEFINE own == Blocks(said, Place)
             bare == Blocks(said, LAMBDA k : None)
  <2>1. TextsOf(own) \in Seq(Places) /\ CallsOf(own) \in Seq(OwnAsks)
    BY <1>0, RepliesTyped, BlocksTyped
  <2>2. TextsOf(bare) \in Seq(Places) /\ CallsOf(bare) \in Seq(Asks)
    BY <1>0, RepliesTyped, BlocksTyped
  <2>3. Map(CallsOf(bare), LAMBDA c : ToolCall(c.name, c.name, c.arguments)) \in Seq(OwnAsks)
    <3>1. \A c \in Asks : ToolCall(c.name, c.name, c.arguments) \in OwnAsks
      BY DEF ToolCall, OwnAsks, Asks, Ids
    <3> DEFINE calls == CallsOf(bare)
               Own(c) == ToolCall(c.name, c.name, c.arguments)
    <3>2. [k \in DOMAIN calls |-> Own(calls[k])] \in Seq(OwnAsks)
      <4>1. calls \in Seq(Asks) /\ \A c \in Asks : Own(c) \in OwnAsks
        BY <2>2, <3>1
      <4> HIDE DEF bare, calls, Own
      <4> QED BY <4>1
    <3> QED BY <3>2 DEF Map
  <2>4. <<>> \in Seq(OwnAsks)
    OBVIOUS
  <2>5. CASE OpenAIChat(said)
    <3>1. MayAsk /\ Replied(Assistant(TextsOf(own), CallsOf(own)))
      BY <2>5 DEF OpenAIChat, FromOpenAI
    <3> QED BY <1>2, <2>1, <3>1
  <2>6. CASE AnthropicChat(said)
    <3>1. MayAsk /\ Replied(Assistant(TextsOf(own), CallsOf(own)))
      BY <2>6 DEF AnthropicChat, FromAnthropic
    <3> QED BY <1>2, <2>1, <3>1
  <2>7. CASE GoogleChat(said)
    <3>1. /\ MayAsk
          /\ Replied(Assistant(TextsOf(bare),
                       Map(CallsOf(bare), LAMBDA c : ToolCall(c.name, c.name, c.arguments))))
      BY <2>7 DEF GoogleChat, FromGoogle
    <3> HIDE DEF bare
    <3> QED BY <1>2, <2>2, <2>3, <3>1
  <2>8. CASE Stream(said)
    <3>1. MayAsk /\ Replied(Assistant(TextsOf(own), <<>>))
      BY <2>8 DEF Stream
    <3> QED BY <1>2, <2>1, <2>4, <3>1
  <2> QED BY <1>3, <2>5, <2>6, <2>7, <2>8
<1>4. ASSUME MLXChat PROVE Unanswered = <<>> /\ Appended
  <2>1. <<Place(1)>> \in Seq(Places) /\ <<>> \in Seq(OwnAsks)
    BY <1>0 DEF Place, Places
  <2> QED BY <1>2, <1>4, <2>1 DEF MLXChat
<1>5. ASSUME Answer
      PROVE  /\ Unanswered # <<>>
             /\ LET call == Head(Unanswered)
                    m == Message("tool", <<call.arguments>>, <<>>, call.id, call.name)
                IN m \in Held /\ messages' = Append(messages, m)
  <2> DEFINE call == Head(Unanswered)
             m == Message("tool", <<call.arguments>>, <<>>, call.id, call.name)
  <2>1. Unanswered # <<>> /\ messages' = Append(messages, m)
    BY <1>5 DEF Answer
  <2>2. call \in OwnAsks
    BY <2>1
  <2>3. call.arguments \in Places /\ call.id \in Ids /\ call.name \in Tool
    BY <2>2 DEF OwnAsks, Asks
  <2>4. <<call.arguments>> \in Seq(Places)
    BY <2>3
  <2> HIDE DEF call
  <2>5. m \in Held
    BY <2>3, <2>4, MessageInHeld
  <2> QED BY <2>1, <2>5 DEF call
<1>6. ASSUME Raise \/ UNCHANGED chatVars PROVE messages' = messages
  BY <1>6 DEF Raise, chatVars
<1> QED BY <1>1, <1>3, <1>4, <1>5, <1>6 DEF ChatNext

-----------------------------------------------------------------------------
(* What was asked was told, in this order, but for the calls unanswered.   *)
EachTold ==
  LET read == ReadMessages(messages)
  IN /\ ToSet(Unanswered) \subseteq ToSet(Calls(read))
     /\ \A k \in 1..Len(Results(read)) : \E c \in ToSet(Calls(read)) :
          Results(read)[k].answers = c.id /\ Results(read)[k].text = <<c.arguments>>

ToldInOrder ==
  LET read == ReadMessages(ByName(messages))
  IN \A tool \in Tool : /\ ToldOf(tool, Results(read)) \in Seq(Places)
                        /\ AskedOf(tool, Calls(read)) =
                             ToldOf(tool, Results(read)) \o AskedOf(tool, Unanswered)

ConversationInv ==
  /\ messages \in Seq(Held) /\ Unanswered \in Seq(OwnAsks)
  /\ EachTold /\ ToldInOrder

LEMMA HeldAreMessages ==
  /\ Seq(Held) \subseteq Seq(Messages) /\ Held \subseteq Messages
  /\ Seq(OwnAsks) \subseteq Seq(Asks) /\ OwnAsks \subseteq Asks
<1>1. Held \subseteq Messages /\ OwnAsks \subseteq Asks
  BY DEF Held, OwnAsks
<1> QED BY <1>1, SeqMonotonic

LEMMA ToSetOfBoth ==
  ASSUME NEW S, NEW s \in Seq(S), NEW t \in Seq(S)
  PROVE  ToSet(s \o t) = ToSet(s) \cup ToSet(t)
<1>1. /\ s \o t \in Seq(S) /\ Len(s \o t) = Len(s) + Len(t)
      /\ \A k \in 1..(Len(s) + Len(t)) : (s \o t)[k] = IF k <= Len(s) THEN s[k] ELSE t[k - Len(s)]
  BY ConcatProperties
<1>2. /\ DOMAIN s = 1..Len(s) /\ DOMAIN t = 1..Len(t) /\ DOMAIN (s \o t) = 1..(Len(s) + Len(t))
      /\ Len(s) \in Nat /\ Len(t) \in Nat
  BY <1>1
<1>3. ASSUME NEW k \in 1..Len(s) PROVE k \in DOMAIN (s \o t) /\ (s \o t)[k] = s[k]
  BY <1>1, <1>2
<1>4. ASSUME NEW k \in 1..Len(t) PROVE Len(s) + k \in DOMAIN (s \o t) /\ (s \o t)[Len(s) + k] = t[k]
  <2>1. Len(s) + k \in 1..(Len(s) + Len(t)) /\ ~(Len(s) + k <= Len(s)) /\ (Len(s) + k) - Len(s) = k
    BY <1>2
  <2> QED BY <1>1, <1>2, <2>1
<1>5. ASSUME NEW k \in DOMAIN (s \o t)
      PROVE  (s \o t)[k] \in ToSet(s) \cup ToSet(t)
  <2>1. CASE k <= Len(s)
    BY <1>1, <1>2, <2>1 DEF ToSet
  <2>2. CASE ~(k <= Len(s))
    <3>1. k - Len(s) \in 1..Len(t) /\ (s \o t)[k] = t[k - Len(s)]
      BY <1>1, <1>2, <2>2
    <3> QED BY <1>2, <3>1 DEF ToSet
  <2> QED BY <2>1, <2>2
<1>6. ToSet(s) \subseteq ToSet(s \o t)
  BY <1>2, <1>3 DEF ToSet
<1>7. ToSet(t) \subseteq ToSet(s \o t)
  BY <1>2, <1>4 DEF ToSet
<1>8. ToSet(s \o t) \subseteq ToSet(s) \cup ToSet(t)
  BY <1>5 DEF ToSet
<1> QED BY <1>6, <1>7, <1>8

LEMMA ReadNothing ==
  /\ Calls(ReadMessages(<<>>)) = <<>> /\ Results(ReadMessages(<<>>)) = <<>>
  /\ ByName(<<>>) = <<>> /\ Left(<<>>) = <<>>
<1>1. ReadMessages(<<>>).turns = <<>>
  BY LoopsOfNone DEF ReadMessages, Map
<1>2. Calls(ReadMessages(<<>>)) = <<>> /\ Results(ReadMessages(<<>>)) = <<>>
  BY <1>1, LoopsOfNone, CallsAre
<1> QED BY <1>2, LoopsOfNone DEF ByName, Map

LEMMA UnansweredIsLeft == Unanswered = Left(messages) /\ Unanswered' = Left(messages')
<1>1. Unanswered = Left(messages)
  BY DEF Unanswered, Left
<1>2. (Unanswered = Left(messages))'
  BY <1>1, PTL
<1> QED BY <1>1, <1>2

LEMMA ConversationInit == ChatInit => ConversationInv
<1> SUFFICES ASSUME ChatInit PROVE ConversationInv
  OBVIOUS
<1>1. messages = <<>> /\ Unanswered = <<>>
  BY ReadNothing, UnansweredIsLeft DEF ChatInit
<1>2. EachTold
  BY <1>1, ReadNothing DEF EachTold, ToSet
<1>3. ToldInOrder
  <2>1. <<>> \in Seq(Places) /\ <<>> \o <<>> = <<>>
    OBVIOUS
  <2> QED BY <1>1, <2>1, ReadNothing, LoopsOfNone DEF ToldInOrder
<1>4. <<>> \in Seq(Held) /\ <<>> \in Seq(OwnAsks)
  OBVIOUS
<1> QED BY <1>1, <1>2, <1>3, <1>4 DEF ConversationInv

(* The conversation read by ids, of one message more.                      *)
LEMMA HeldOneMore ==
  ASSUME NEW msgs \in Seq(Held), NEW m \in Held
  PROVE  /\ Calls(ReadMessages(Append(msgs, m))) = Calls(ReadMessages(msgs)) \o m.tool_calls
         /\ Results(ReadMessages(Append(msgs, m))) =
              IF m.role = "tool" THEN Append(Results(ReadMessages(msgs)), MessageTurn(m))
              ELSE Results(ReadMessages(msgs))
         /\ Calls(ReadMessages(msgs)) \in Seq(OwnAsks)
         /\ Left(Append(msgs, m)) = IF m.role = "tool" THEN Tail(Left(msgs)) ELSE m.tool_calls
<1>1. msgs \in Seq(Messages) /\ m \in Messages
  BY HeldAreMessages
<1>2. /\ Calls(ReadMessages(Append(msgs, m))) = Calls(ReadMessages(msgs)) \o m.tool_calls
      /\ Results(ReadMessages(Append(msgs, m))) =
           IF m.role = "tool" THEN Append(Results(ReadMessages(msgs)), MessageTurn(m))
           ELSE Results(ReadMessages(msgs))
  BY <1>1, ConversationOneMore
<1>3. \A x \in Held : x.tool_calls \in Seq(OwnAsks)
  BY DEF Held
<1>4. Calls(ReadMessages(msgs)) \in Seq(OwnAsks)
  BY <1>3, CallsTyped
<1>5. Left(Append(msgs, m)) = IF m.role = "tool" THEN Tail(Left(msgs)) ELSE m.tool_calls
  BY MessagesOneMore DEF LeaveCalls
<1> QED BY <1>2, <1>4, <1>5

(* The conversation read by names, of one message more, for one tool.      *)
LEMMA NamedOneMore ==
  ASSUME NEW msgs \in Seq(Held), NEW m \in Held, NEW tool \in Tool,
         ToldOf(tool, Results(ReadMessages(ByName(msgs)))) \in Seq(Places)
  PROVE  LET before == ReadMessages(ByName(msgs))
             after == ReadMessages(ByName(Append(msgs, m))) IN
         /\ AskedOf(tool, Calls(after)) = AskedOf(tool, Calls(before)) \o AskedOf(tool, m.tool_calls)
         /\ ToldOf(tool, Results(after)) =
              IF m.role = "tool" /\ m.name = tool THEN ToldOf(tool, Results(before)) \o m.content
              ELSE ToldOf(tool, Results(before))
<1> DEFINE named == ByName(msgs)
           n == UnderName(m)
           before == ReadMessages(named)
           after == ReadMessages(ByName(Append(msgs, m)))
           S == {MessageTurn(x) : x \in Messages}
<1>1. msgs \in Seq(Messages) /\ m \in Messages
  BY HeldAreMessages
<1>2. named \in Seq(Messages) /\ n \in Messages /\ ByName(Append(msgs, m)) = Append(named, n)
  BY <1>1, MappedTyped, NamedTyped
<1>3. /\ n.role = m.role /\ n.content = m.content /\ n.tool_call_id = m.name
      /\ n.tool_calls = Map(m.tool_calls, WithoutId) /\ n.tool_calls \in Seq(Asks)
  BY <1>1, NamedTyped
<1> HIDE DEF named, n
<1>4. /\ Calls(after) = Calls(before) \o n.tool_calls
      /\ Results(after) = IF n.role = "tool" THEN Append(Results(before), MessageTurn(n))
                          ELSE Results(before)
  BY <1>2, ConversationOneMore
<1>5. \A x \in Messages : x.tool_calls \in Seq(Asks)
  BY MessageTyped
<1>6. before.turns \in Seq(S) /\ Calls(before) \in Seq(Asks)
  BY <1>2, <1>5, CallsTyped
<1>7. MessageTurn(n) \in S
  BY <1>2
<1>8. Results(before) \in Seq(S)
  <2>1. <<>> \in Seq(S) /\ \A kept \in Seq(S), t \in S : KeepResult(0, kept, t) \in Seq(S)
    BY DEF KeepResult
  <2> HIDE DEF S
  <2> DEFINE D == Seq(S)
  <2>2. <<>> \in D /\ \A kept \in D, t \in S : KeepResult(0, kept, t) \in D
    BY <2>1
  <2> HIDE DEF D
  <2>3. \A s \in Seq(S) : Answering!Result(0, s) \in D
    BY ONLY <2>2, Answering!ThroughStaysIn
  <2> QED BY <1>6, <2>3, LoopsAre, CallsAre DEF D
<1> HIDE DEF S, before, after
<1>9. AskedOf(tool, Calls(after)) = AskedOf(tool, Calls(before)) \o AskedOf(tool, m.tool_calls)
  <2>1. AskedOf(tool, Calls(before) \o n.tool_calls) =
          AskedOf(tool, Calls(before)) \o AskedOf(tool, n.tool_calls)
    BY <1>3, <1>6, AskedOfBoth
  <2>2. AskedOf(tool, n.tool_calls) = AskedOf(tool, m.tool_calls)
    BY <1>1, <1>3, MessageTyped, AskedWithoutIds
  <2> QED BY <1>4, <2>1, <2>2
<1>10. ToldOf(tool, Append(Results(before), MessageTurn(n))) =
         IF m.name = tool THEN ToldOf(tool, Results(before)) \o m.content
         ELSE ToldOf(tool, Results(before))
  <2>1. ToldOf(tool, Append(Results(before), MessageTurn(n))) =
          JoinTold(tool, ToldOf(tool, Results(before)), MessageTurn(n))
    BY <1>7, <1>8, TurnsOneMore
  <2>2. MessageTurn(n).answers = m.name /\ MessageTurn(n).text = m.content
    BY <1>3, TurnIs
  <2> QED BY <2>1, <2>2 DEF JoinTold
<1> QED BY <1>3, <1>4, <1>9, <1>10 DEF before, after, named

LEMMA ResultsTyped ==
  ASSUME NEW msgs \in Seq(Held), NEW m \in Held
  PROVE  \E S : Results(ReadMessages(msgs)) \in Seq(S) /\ MessageTurn(m) \in S
<1> DEFINE S == {MessageTurn(x) : x \in Messages}
           told == InRole("tool", msgs)
<1>1. Results(ReadMessages(msgs)) = Map(told, MessageTurn) /\ told \in Seq(Messages) /\ m \in Messages
  BY HeldAreMessages, ResultsAre, SelectionsTyped
<1>2. \A x \in Messages : MessageTurn(x) \in S
  OBVIOUS
<1> HIDE DEF S, told
<1>3. Map(told, MessageTurn) \in Seq(S)
  BY <1>1, <1>2 DEF Map
<1> QED BY <1>1, <1>2, <1>3

LEMMA BothBeginWithFirst ==
  ASSUME NEW S, NEW s \in Seq(S), NEW t \in Seq(S)
  PROVE  IsPrefix(s, s \o t)
<1> DEFINE both == s \o t
<1>1. /\ both \in Seq(S) /\ Len(both) = Len(s) + Len(t) /\ Len(s) \in Nat /\ Len(t) \in Nat
      /\ \A k \in 1..(Len(s) + Len(t)) : both[k] = IF k <= Len(s) THEN s[k] ELSE t[k - Len(s)]
  BY ConcatProperties
<1> HIDE DEF both
<1>2. ASSUME NEW k \in 1..Len(s) PROVE both[k] = s[k] /\ both[k] \in S
  BY <1>1
<1>3. SubSeq(s, 1, Len(s)) = s
  BY SubSeqFull
<1>4. /\ SubSeq(both, 1, Len(s)) \in Seq(S) /\ Len(SubSeq(both, 1, Len(s))) = Len(s)
      /\ \A k \in 1..Len(s) : SubSeq(both, 1, Len(s))[k] = both[k]
  <2> DEFINE n == Len(s)
  <2>1. n \in Int /\ 1 \in Int /\ (\A k \in 1..n : both[k] \in S)
    BY <1>1, <1>2
  <2> HIDE DEF n
  <2>2. /\ SubSeq(both, 1, n) \in Seq(S)
        /\ Len(SubSeq(both, 1, n)) = IF 1 <= n THEN n - 1 + 1 ELSE 0
        /\ \A k \in 1..(n - 1 + 1) : SubSeq(both, 1, n)[k] = both[1 + k - 1]
    BY ONLY <2>1, SubSeqProperties
  <2>3. n \in Nat
    BY <1>1 DEF n
  <2>4. Len(SubSeq(both, 1, n)) = n
    BY <2>2, <2>3
  <2>5. \A k \in 1..n : SubSeq(both, 1, n)[k] = both[k]
    BY <2>1, <2>2
  <2> QED BY <2>2, <2>4, <2>5 DEF n
<1>5. SubSeq(both, 1, Len(s)) = s
  BY <1>2, <1>4, SeqEqual
<1>6. Len(s) <= Len(both)
  BY <1>1
<1> QED BY <1>3, <1>5, <1>6 DEF IsPrefix, both

(* A message that answers nothing: it is said when nothing is unanswered.  *)
LEMMA SaidKeeps ==
  ASSUME ConversationInv, Unanswered = <<>>, NEW m \in Held, m.role # "tool",
         messages' = Append(messages, m)
  PROVE  ConversationInv'
<1> DEFINE calls == Calls(ReadMessages(messages))
           results == Results(ReadMessages(messages))
<1>1. messages \in Seq(Held) /\ messages' \in Seq(Held) /\ m.tool_calls \in Seq(OwnAsks)
  BY DEF ConversationInv, Held
<1>2. /\ Calls(ReadMessages(messages')) = calls \o m.tool_calls
      /\ Results(ReadMessages(messages')) = results
      /\ Unanswered' = m.tool_calls
      /\ calls \in Seq(OwnAsks)
  BY <1>1, HeldOneMore, UnansweredIsLeft
<1>3. EachTold'
  <2>1. \A k \in 1..Len(results) : \E c \in ToSet(calls) :
          results[k].answers = c.id /\ results[k].text = <<c.arguments>>
    BY DEF ConversationInv, EachTold
  <2>2. ToSet(calls \o m.tool_calls) = ToSet(calls) \cup ToSet(m.tool_calls)
    BY <1>1, <1>2, ToSetOfBoth
  <2> HIDE DEF calls, results
  <2> QED BY <1>2, <2>1, <2>2 DEF EachTold
<1>4. ToldInOrder'
  <2> DEFINE before == ReadMessages(ByName(messages))
             after == ReadMessages(ByName(messages'))
  <2>1. ASSUME NEW tool \in Tool
        PROVE  /\ ToldOf(tool, Results(after)) \in Seq(Places)
               /\ AskedOf(tool, Calls(after)) =
                    ToldOf(tool, Results(after)) \o AskedOf(tool, m.tool_calls)
    <3>1. /\ ToldOf(tool, Results(before)) \in Seq(Places)
          /\ AskedOf(tool, Calls(before)) = ToldOf(tool, Results(before)) \o AskedOf(tool, <<>>)
      BY DEF ConversationInv, ToldInOrder
    <3>2. /\ AskedOf(tool, Calls(after)) = AskedOf(tool, Calls(before)) \o AskedOf(tool, m.tool_calls)
          /\ ToldOf(tool, Results(after)) = ToldOf(tool, Results(before))
      BY <1>1, <3>1, NamedOneMore
    <3>3. AskedOf(tool, <<>>) = <<>>
      BY LoopsOfNone
    <3> HIDE DEF before, after
    <3>4. ToldOf(tool, Results(before)) \o <<>> = ToldOf(tool, Results(before))
      BY <3>1
    <3> QED BY <3>1, <3>2, <3>3, <3>4
  <2> QED BY <1>2, <2>1 DEF ToldInOrder
<1> QED BY <1>1, <1>2, <1>3, <1>4 DEF ConversationInv

(* A result, which answers the first call that is unanswered.              *)
LEMMA AnswerKeeps ==
  ASSUME ConversationInv, Unanswered # <<>>,
         NEW call, call = Head(Unanswered),
         NEW m \in Held, m = Message("tool", <<call.arguments>>, <<>>, call.id, call.name),
         messages' = Append(messages, m)
  PROVE  ConversationInv'
<1> DEFINE calls == Calls(ReadMessages(messages))
           results == Results(ReadMessages(messages))
<1>0. /\ m.role = "tool" /\ m.content = <<call.arguments>> /\ m.tool_calls = <<>>
      /\ m.tool_call_id = call.id /\ m.name = call.name
  BY DEF Message
<1>1. /\ messages \in Seq(Held) /\ messages' \in Seq(Held) /\ Unanswered \in Seq(OwnAsks)
      /\ call \in OwnAsks /\ call \in ToSet(Unanswered)
  <2>1. messages \in Seq(Held) /\ Unanswered \in Seq(OwnAsks)
    BY DEF ConversationInv
  <2>2. messages' \in Seq(Held)
    BY <2>1
  <2>3. call = Unanswered[1] /\ 1 \in DOMAIN Unanswered /\ call \in OwnAsks
    BY <2>1
  <2> QED BY <2>1, <2>2, <2>3 DEF ToSet
<1>2. /\ Calls(ReadMessages(messages')) = calls \o <<>>
      /\ Results(ReadMessages(messages')) = Append(results, MessageTurn(m))
      /\ Unanswered' = Tail(Unanswered)
      /\ calls \in Seq(OwnAsks)
  BY <1>0, <1>1, HeldOneMore, UnansweredIsLeft
<1>3. Calls(ReadMessages(messages')) = calls
  <2> HIDE DEF calls
  <2> QED BY <1>2
<1>4. Unanswered' \in Seq(OwnAsks) /\ ToSet(Unanswered') \subseteq ToSet(Unanswered)
  <2>1. /\ Tail(Unanswered) \in Seq(OwnAsks) /\ Len(Tail(Unanswered)) = Len(Unanswered) - 1
        /\ \A k \in 1..Len(Tail(Unanswered)) : Tail(Unanswered)[k] = Unanswered[k + 1]
    BY <1>1, HeadTailProperties
  <2>2. \A k \in DOMAIN Tail(Unanswered) :
          k + 1 \in DOMAIN Unanswered /\ Tail(Unanswered)[k] = Unanswered[k + 1]
    BY <1>1, <2>1
  <2> QED BY <1>2, <2>1, <2>2 DEF ToSet
<1>5. EachTold'
  <2>1. /\ \A k \in 1..Len(results) : \E c \in ToSet(calls) :
             results[k].answers = c.id /\ results[k].text = <<c.arguments>>
        /\ ToSet(Unanswered) \subseteq ToSet(calls)
    BY DEF ConversationInv, EachTold
  <2>2. MessageTurn(m).answers = call.id /\ MessageTurn(m).text = <<call.arguments>>
    BY <1>0, TurnIs
  <2>3. call \in ToSet(calls)
    BY <1>1, <2>1
  <2>4. \E S : results \in Seq(S) /\ MessageTurn(m) \in S
    BY <1>1, ResultsTyped DEF results
  <2> DEFINE more == Append(results, MessageTurn(m))
  <2>5. /\ Len(more) = Len(results) + 1 /\ more[Len(results) + 1] = MessageTurn(m)
        /\ Len(results) \in Nat /\ \A k \in 1..Len(results) : more[k] = results[k]
    <3> HIDE DEF results
    <3> QED BY <2>4
  <2>7. Results(ReadMessages(messages')) = more
    BY <1>2
  <2> HIDE DEF calls, results, more
  <2>6. ASSUME NEW k \in 1..Len(more)
        PROVE  \E c \in ToSet(calls) : more[k].answers = c.id /\ more[k].text = <<c.arguments>>
    <3>1. CASE k \in 1..Len(results)
      BY <2>1, <2>5, <3>1
    <3>2. CASE k = Len(results) + 1
      BY <2>2, <2>3, <2>5, <3>2
    <3> QED BY <2>5, <3>1, <3>2
  <2>8. ToSet(Unanswered') \subseteq ToSet(calls)
    BY <1>4, <2>1
  <2> QED BY <1>3, <2>6, <2>7, <2>8 DEF EachTold
<1>6. ToldInOrder'
  <2> DEFINE before == ReadMessages(ByName(messages))
             after == ReadMessages(ByName(messages'))
  <2>1. ASSUME NEW tool \in Tool
        PROVE  /\ ToldOf(tool, Results(after)) \in Seq(Places)
               /\ AskedOf(tool, Calls(after)) =
                    ToldOf(tool, Results(after)) \o AskedOf(tool, Tail(Unanswered))
    <3> DEFINE told == ToldOf(tool, Results(before))
               rest == AskedOf(tool, Tail(Unanswered))
               first == IF call.name = tool THEN <<call.arguments>> ELSE <<>>
    <3>1. told \in Seq(Places) /\ AskedOf(tool, Calls(before)) = told \o AskedOf(tool, Unanswered)
      BY DEF ConversationInv, ToldInOrder
    <3>2. /\ AskedOf(tool, Calls(after)) = AskedOf(tool, Calls(before)) \o AskedOf(tool, <<>>)
          /\ ToldOf(tool, Results(after)) = IF call.name = tool THEN told \o <<call.arguments>> ELSE told
      <4>1. /\ AskedOf(tool, Calls(after)) = AskedOf(tool, Calls(before)) \o AskedOf(tool, m.tool_calls)
            /\ ToldOf(tool, Results(after)) =
                 IF m.role = "tool" /\ m.name = tool THEN told \o m.content ELSE told
        <5>1. messages \in Seq(Held) /\ messages' = Append(messages, m) /\ told \in Seq(Places)
          BY <1>1, <3>1
        <5>2. m \in Held /\ tool \in Tool
          OBVIOUS
        <5> QED BY ONLY <5>1, <5>2, NamedOneMore
      <4> HIDE DEF before, after, told
      <4> QED BY <1>0, <4>1
    <3>3. Unanswered \in Seq(Asks) /\ Tail(Unanswered) \in Seq(Asks) /\ call.arguments \in Places
      <4>1. Unanswered \in Seq(Asks) /\ call \in Asks
        BY <1>1, HeldAreMessages
      <4> QED BY <4>1 DEF Asks
    <3>4. AskedOf(tool, Unanswered) = first \o rest
      BY <3>3, AskedFirst
    <3>5. rest \in Seq(Places) /\ first \in Seq(Places) /\ AskedOf(tool, <<>>) = <<>>
      <4>1. <<call.arguments>> \in Seq(Places) /\ <<>> \in Seq(Places)
        BY <3>3
      <4>2. rest \in Seq(Places)
        BY <3>3, AskedTyped
      <4> QED BY <4>1, <4>2, LoopsOfNone
    <3>6. ToldOf(tool, Results(after)) = told \o first
      <4>1. told \o <<>> = told
        <5> HIDE DEF told
        <5> QED BY <3>1
      <4> QED BY <3>2, <4>1
    <3> HIDE DEF before, after, told, rest, first
    <3>7. AskedOf(tool, Calls(after)) = told \o (first \o rest)
      <4>1. (told \o (first \o rest)) \o <<>> = told \o (first \o rest)
        BY <3>1, <3>5
      <4> QED BY <3>1, <3>2, <3>4, <3>5, <4>1
    <3>8. told \o (first \o rest) = (told \o first) \o rest /\ told \o first \in Seq(Places)
      BY <3>1, <3>5, ConcatAssociative
    <3> QED BY <3>6, <3>7, <3>8 DEF rest
  <2> QED BY <1>2, <2>1 DEF ToldInOrder
<1> QED BY <1>1, <1>4, <1>5, <1>6 DEF ConversationInv

LEMMA ConversationStep == ConversationInv /\ [ChatNext]_chatVars => ConversationInv'
<1> SUFFICES ASSUME ConversationInv, [ChatNext]_chatVars PROVE ConversationInv'
  OBVIOUS
<1>1. messages \in Seq(Held) /\ Unanswered \in Seq(OwnAsks)
  BY DEF ConversationInv
<1>2. CASE messages' = messages
  <2>1. Unanswered' = Unanswered
    BY <1>2, UnansweredIsLeft
  <2> QED BY <1>2, <2>1 DEF ConversationInv, EachTold, ToldInOrder
<1>3. ASSUME Unanswered = <<>>, NEW m \in Held, m.role # "tool", messages' = Append(messages, m)
      PROVE  ConversationInv'
  BY <1>3, SaidKeeps
<1>4. ASSUME Unanswered # <<>>,
             LET call == Head(Unanswered)
                 m == Message("tool", <<call.arguments>>, <<>>, call.id, call.name)
             IN m \in Held /\ messages' = Append(messages, m)
      PROVE  ConversationInv'
  BY <1>4, AnswerKeeps
<1> QED BY <1>1, <1>2, <1>3, <1>4, StepsOfMessages

LEMMA ConversationKept == ChatSpec => []ConversationInv
BY ConversationInit, ConversationStep, PTL DEF ChatSpec

(* Every service reads the whole conversation in its request, whichever    *)
(* services made it (_translate.py:31-321, mlx.py:67-71).                  *)
THEOREM RequestsSayConversation == ChatSpec => []RequestSaysConversation
<1>1. ConversationInv => RequestSaysConversation
  BY HeldAreMessages, RequestsSay DEF ConversationInv
<1> QED BY <1>1, ConversationKept, PTL

LEMMA ResultsReach ==
  ASSUME ConversationInv PROVE ResultsReachTheirCall
<1> DEFINE read == ReadMessages(messages)
           named == ReadMessages(ByName(messages))
<1>1. messages \in Seq(Messages) /\ Unanswered \in Seq(Asks)
  BY HeldAreMessages DEF ConversationInv
<1>2. /\ ReadMessages(ToOpenAI(messages)) = read /\ ReadAnthropic(ToAnthropic(messages)) = read
      /\ ReadGoogle(ToGoogle(messages)) = named
  BY <1>1, OpenAIReads, AnthropicReads, GoogleReads
<1>3. ASSUME NEW k \in DOMAIN Results(read), InRole("tool", messages)[k].tool_call_id \notin Tool
      PROVE  {c.arguments : c \in {d \in ToSet(Calls(read)) : d.id = Results(read)[k].answers}}
               = ToSet(Results(read)[k].text)
  <2> DEFINE result == Results(read)[k]
             told == InRole("tool", messages)
  <2>1. Results(read) = Map(told, MessageTurn) /\ told \in Seq(Messages)
    BY <1>1, ResultsAre, SelectionsTyped
  <2>2. k \in 1..Len(Results(read)) /\ result = MessageTurn(told[k])
    <3> HIDE DEF read, told
    <3> QED BY <1>3, <2>1 DEF Map
  <2>3. result.answers \notin Tool
    BY <1>3, <2>2, TurnIs
  <2>4. PICK c \in ToSet(Calls(read)) : result.answers = c.id /\ result.text = <<c.arguments>>
    BY <2>2 DEF ConversationInv, EachTold
  <2>5. \A d \in ToSet(Calls(read)) : d.id \in Tool \/ d.id = d.arguments
    <3>1. \A m \in Held : m.tool_calls \in Seq(OwnAsks)
      BY DEF Held
    <3>2. Calls(read) \in Seq(OwnAsks)
      BY <3>1, CallsTyped DEF ConversationInv
    <3>3. \A d \in ToSet(Calls(read)) : d \in OwnAsks
      <4> HIDE DEF read
      <4> QED BY <3>2 DEF ToSet
    <3> QED BY <3>3 DEF OwnAsks
  <2>6. ToSet(result.text) = {c.arguments}
    <3> DEFINE x == c.arguments
    <3>1. ToSet(<<x>>) = {x}
      BY DEF ToSet
    <3> QED BY <2>4, <3>1
  <2> HIDE DEF result, read
  <2>7. c.arguments = result.answers
    BY <2>3, <2>4, <2>5
  <2>8. \A d \in ToSet(Calls(read)) : d.id = result.answers => d.arguments = c.arguments
    BY <2>3, <2>5, <2>7
  <2>9. {e.arguments : e \in {d \in ToSet(Calls(read)) : d.id = result.answers}} = {c.arguments}
    BY <2>4, <2>8
  <2> QED BY <2>6, <2>9 DEF result
<1>4. ASSUME NEW tool \in Tool
      PROVE  IsPrefix(ToldOf(tool, Results(named)), AskedOf(tool, Calls(named)))
  <2> DEFINE x == ToldOf(tool, Results(named))
             y == AskedOf(tool, Unanswered)
  <2>1. x \in Seq(Places) /\ y \in Seq(Places) /\ AskedOf(tool, Calls(named)) = x \o y
    BY <1>1, AskedTyped DEF ConversationInv, ToldInOrder
  <2> HIDE DEF x, y
  <2>2. IsPrefix(x, x \o y)
    BY <2>1, BothBeginWithFirst
  <2> QED BY <2>1, <2>2 DEF x
<1>5. \A tool \in Tool : IsPrefix(ToldOf(tool, Results(ReadGoogle(ToGoogle(messages)))),
                                 AskedOf(tool, Calls(ReadGoogle(ToGoogle(messages)))))
  BY <1>2, <1>4
<1>6. \A r \in {ReadMessages(ToOpenAI(messages)), ReadAnthropic(ToAnthropic(messages))} :
        \A k \in DOMAIN Results(r) :
          InRole("tool", messages)[k].tool_call_id \notin Tool =>
            {c.arguments : c \in {d \in ToSet(Calls(r)) : d.id = Results(r)[k].answers}}
              = ToSet(Results(r)[k].text)
  BY <1>2, <1>3
<1> QED BY <1>5, <1>6 DEF ResultsReachTheirCall

(* A service that goes by ids finds the call a result answers, unless      *)
(* Google made it, and Google finds it by name and order                   *)
(* (_translate.py:38-41, 132-144, 239-252, 274-278; chat.py:42-43).        *)
THEOREM ResultsReachCalls == ChatSpec => []ResultsReachTheirCall
BY ResultsReach, ConversationKept, PTL

=============================================================================
