------------------------------ MODULE Workflows ------------------------------
(***************************************************************************)
(* The five ways to compose skills: each is a loop of calls, one at a      *)
(* time, whose next call depends on the answers so far. An answer is a     *)
(* value or "raise", which ends the workflow with that exception; what the *)
(* skills answer is the sequence answers, one entry for each call.         *)
(*                                                                         *)
(* A run is the calls that were made and the result.                       *)
(***************************************************************************)
EXTENDS Integers, SequencesExt

CONSTANTS
  Answer,   \* values a skill returns
  MaxParts  \* bound: the steps, branches, subtasks, workers, iterations

ASSUME WorkflowsAssumption ==
  MaxParts \in Nat \ {0} /\ {"raise", "input"} \cap Answer = {}

Answers(n) == [1 .. n -> Answer \cup {"raise"}]
Started == [calls |-> <<>>, result |-> "input"]
Raised(run) == run.result = "raise"
Called(run, to, input, value) ==
  [calls |-> Append(run.calls, [to |-> to, input |-> input]), result |-> value]

-----------------------------------------------------------------------------
(* Mutant: every step is given the input of the chain.                     *)
SameInputChain(steps, answers) ==
  LET after[k \in 0 .. steps] ==
        IF k = 0 THEN Started
        ELSE IF Raised(after[k - 1]) THEN after[k - 1]
        ELSE Called(after[k - 1], k, "input", answers[k])
  IN  after[steps]

PromptChain(steps, answers) ==
  LET after[k \in 0 .. steps] ==
        IF k = 0 THEN Started
        ELSE IF Raised(after[k - 1]) THEN after[k - 1]
        ELSE Called(after[k - 1], k, after[k - 1].result, answers[k])
  IN  after[steps]

(* A key that is no route is a KeyError.                                   *)
Router(table, answers) ==
  LET classified == Called(Started, "classifier", "input", answers[1])
  IN  IF Raised(classified) THEN classified
      ELSE IF classified.result \notin table THEN [classified EXCEPT !.result = "raise"]
      ELSE Called(classified, classified.result, "input", answers[2])

(* The outputs come as a list, unless one of the calls raised.             *)
Gathered(run, outputs) == [calls |-> run.calls,
                           result |-> IF Raised(run) THEN <<"raise">> ELSE outputs]

(* Mutant: the branches run side by side, and one that raises stops none.  *)
AllBranches(branches, answers) ==
  [calls |-> [k \in 1 .. branches |-> [to |-> k, input |-> "input"]],
   result |-> IF "raise" \in ToSet(answers) THEN <<"raise">> ELSE answers]

Parallel(branches, answers) ==
  LET after[k \in 0 .. branches] ==
        IF k = 0 THEN Started
        ELSE IF Raised(after[k - 1]) THEN after[k - 1]
        ELSE Called(after[k - 1], k, "input", answers[k])
  IN  Gathered(after[branches], SubSeq(answers, 1, branches))

Orchestrator == 0

(* What comes of the plan: the subtasks, or an exception, of the           *)
(* orchestrator or of the iterable it returned, which is read to its end   *)
(* before anything is handed out.                                          *)
Plan == {"plan", "raise"}

(* Mutant: each subtask is handed out when the iterable gives it.          *)
LazyOrchestrator(workers, plan, subtasks, answers) ==
  LET n == Len(subtasks)
      after[k \in 0 .. n] ==
        IF k = 0 THEN Called(Started, Orchestrator, "input", "plan")
        ELSE IF Raised(after[k - 1]) THEN after[k - 1]
        ELSE Called(after[k - 1], ((k - 1) % workers) + 1, subtasks[k], answers[k])
  IN  Gathered(IF Raised(after[n]) THEN after[n] ELSE [after[n] EXCEPT !.result = plan],
               SubSeq(answers, 1, n))

(* The subtasks go round the workers, by their index.                      *)
OrchestratorWorker(workers, plan, subtasks, answers) ==
  LET n == Len(subtasks)
      planned == Called(Started, Orchestrator, "input", plan)
      after[k \in 0 .. n] ==
        IF k = 0 THEN planned
        ELSE IF Raised(after[k - 1]) THEN after[k - 1]
        ELSE Called(after[k - 1], ((k - 1) % workers) + 1, subtasks[k], answers[k])
  IN  Gathered(after[n], SubSeq(answers, 1, n))

(* A verdict approves with a Result of its own value, with one of None, or *)
(* by being true; or it is a failed Result or false.                       *)
Verdict == {"ok with value", "ok", "true", "failed", "false", "raise"}
Approves(verdict) == verdict \in {"ok with value", "ok", "true"}

EvaluatorOptimizer(max_iters, answers, verdicts) ==
  LET after[k \in 0 .. max_iters] ==
        IF k = 0 THEN [run |-> Started, done |-> FALSE]
        ELSE IF after[k - 1].done THEN after[k - 1]
        ELSE LET drafted == Called(after[k - 1].run, "generator", "input", answers[k])
                 judged == Called(drafted, "evaluator", answers[k], verdicts[k])
             IN  IF Raised(drafted) THEN [run |-> drafted, done |-> TRUE]
                 ELSE IF Raised(judged) THEN [run |-> judged, done |-> TRUE]
                 ELSE [run |-> [judged EXCEPT !.result =
                                  IF @ = "ok with value" THEN "value" ELSE answers[k]],
                       done |-> Approves(verdicts[k])]
  IN  after[max_iters].run

-----------------------------------------------------------------------------
CallsOf(run, to) == {i \in DOMAIN run.calls : run.calls[i].to = to}

(* What the calls came to, one by one: none was made after one that raised,*)
(* and the workflow raises exactly if the last of them did.                *)
EndsAtRaise(run, came, raises) ==
  LET made == Len(run.calls)
  IN  /\ made \in 1 .. Len(came)
      /\ \A i \in 1 .. made - 1 : came[i] # "raise"
      /\ raises = (came[made] = "raise")

ChainThreads(n) ==
  \A answers \in Answers(n) :
    LET run == PromptChain(n, answers)
        made == Len(run.calls)
    IN  /\ EndsAtRaise(run, answers, Raised(run))
        /\ run.calls[1].input = "input" /\ run.result = answers[made]
        /\ \A i \in 2 .. made : run.calls[i].input = answers[i - 1]
        /\ \A i \in 1 .. made : run.calls[i].to = i
        /\ made = n \/ Raised(run)

RouterCallsOne ==
  \A table \in SUBSET Answer, answers \in Answers(2) :
    LET run == Router(table, answers)
    IN  /\ run.calls[1] = [to |-> "classifier", input |-> "input"]
        /\ Len(run.calls) = IF answers[1] \in table THEN 2 ELSE 1
        /\ Len(run.calls) = 2 => /\ run.calls[2] = [to |-> answers[1], input |-> "input"]
                                 /\ run.result = answers[2]
        /\ Len(run.calls) = 1 => Raised(run)

BranchesSeeTheInput(n) ==
  \A answers \in Answers(n) :
    LET run == Parallel(n, answers)
    IN  /\ EndsAtRaise(run, answers, run.result = <<"raise">>)
        /\ \A i \in DOMAIN run.calls : run.calls[i] = [to |-> i, input |-> "input"]
        /\ run.result # <<"raise">> => Len(run.calls) = n /\ run.result = answers

SubtasksAreShared(n) ==
  \A workers \in 1 .. MaxParts, plan \in Plan, subtasks \in [1 .. n -> Answer],
     answers \in Answers(n) :
    LET run == OrchestratorWorker(workers, plan, subtasks, answers)
        tasks == Tail(run.calls)
        load(w) == Cardinality(CallsOf(run, w))
    IN  /\ EndsAtRaise(run, <<plan>> \o answers, run.result = <<"raise">>)
        /\ run.calls[1] = [to |-> Orchestrator, input |-> "input"]
        /\ \A i \in DOMAIN tasks :
             /\ tasks[i].input = subtasks[i]
             /\ i = 1 => tasks[i].to = 1
             /\ i > 1 => tasks[i].to = IF tasks[i - 1].to = workers THEN 1
                                       ELSE tasks[i - 1].to + 1
        /\ \A w, v \in 1 .. workers : load(w) - load(v) \in {-1, 0, 1}
        /\ run.result # <<"raise">> => Len(tasks) = n /\ run.result = answers

LastCandidateOrApproved(n) ==
  \A answers \in Answers(n), verdicts \in [1 .. n -> Verdict] :
    LET run == EvaluatorOptimizer(n, answers, verdicts)
        drafts == Cardinality(CallsOf(run, "generator"))
        made == Len(run.calls)
        came == [i \in 1 .. 2 * n |-> IF i % 2 = 1 THEN answers[(i + 1) \div 2]
                                      ELSE verdicts[i \div 2]]
    IN  /\ EndsAtRaise(run, came, Raised(run))
        /\ \A i \in DOMAIN run.calls :
             run.calls[i] = IF i % 2 = 1 THEN [to |-> "generator", input |-> "input"]
                            ELSE [to |-> "evaluator", input |-> answers[i \div 2]]
        /\ \A k \in 1 .. drafts - 1 : ~Approves(verdicts[k])
        /\ ~Raised(run) =>
             /\ made = 2 * drafts /\ (drafts = n \/ Approves(verdicts[drafts]))
             /\ run.result = IF verdicts[drafts] = "ok with value" THEN "value"
                             ELSE answers[drafts]

(* Each workflow calls what its documentation says, in that order and with *)
(* that input: a chain threads each answer on, a router calls one route    *)
(* with the input, the branches of Parallel all see the input, an          *)
(* orchestrator is called once and its subtasks, if any, go round the      *)
(* workers, which share them evenly and answer in order, and an optimizer  *)
(* returns what was approved or, when its iterations are used up, the last *)
(* candidate. Whatever raises ends each of them with that exception and no *)
(* call after it.                                                          *)
CallsAsDocumented ==
  /\ RouterCallsOne /\ SubtasksAreShared(0)
  /\ \A n \in 1 .. MaxParts :
       /\ ChainThreads(n) /\ BranchesSeeTheInput(n)
       /\ SubtasksAreShared(n) /\ LastCandidateOrApproved(n)
=============================================================================
