---------------------------- MODULE AgentDialogue ----------------------------
(***************************************************************************)
(* What Agent.run promises its caller, with nothing of how a skill is      *)
(* dispatched: a dialogue of at most Budget turns between a model and its  *)
(* tools. A turn is a rejected output, or a call and its one reply; the    *)
(* dialogue closes with an answer, with a record of the whole exchange     *)
(* when the turns are used up, or by being broken off.                     *)
(***************************************************************************)
EXTENDS Integers, Sequences

CONSTANTS Budget,     \* turns the dialogue may take
          Utterance   \* what the model and the tools can say

VARIABLES trace,   \* the exchange so far
          turns,   \* turns taken
          status   \* whose move it is, or how the dialogue closed

vars == <<trace, turns, status>>

Reply == {"result", "tool_error", "validation_error"}
Closed == {"answered", "exhausted", "broken"}

Init == trace = <<>> /\ turns = 0 /\ status = "model"

Say(e) == trace' = Append(trace, e)

(* The model's output makes no sense to the runtime.                       *)
Misspeak(e) ==
  /\ status = "model" /\ turns < Budget
  /\ e.kind = "validation_error" /\ Say(e)
  /\ turns' = turns + 1 /\ UNCHANGED status

Ask(e) ==
  /\ status = "model" /\ turns < Budget
  /\ e.kind = "call" /\ Say(e)
  /\ turns' = turns + 1 /\ status' = "tool"

Return(e) ==
  /\ status = "tool"
  /\ e.kind \in Reply /\ Say(e)
  /\ status' = "model" /\ UNCHANGED turns

Answer(e) ==
  /\ status = "model" /\ turns < Budget
  /\ e.kind = "final" /\ Say(e)
  /\ turns' = turns + 1 /\ status' = "answered"

GiveUp ==
  /\ status = "model" /\ turns = Budget
  /\ Say([kind |-> "max_iterations", iterations |-> Budget, partial_state |-> trace])
  /\ status' = "exhausted" /\ UNCHANGED turns

BreakOff ==
  /\ status = "model"
  /\ status' = "broken" /\ UNCHANGED <<trace, turns>>

Next ==
  \/ \E e \in Utterance : Misspeak(e) \/ Ask(e) \/ Return(e) \/ Answer(e)
  \/ GiveUp \/ BreakOff

SafeSpec == Init /\ [][Next]_vars

(* However it goes, the dialogue closes.                                   *)
Spec == SafeSpec /\ <>(status \in Closed)
=============================================================================
