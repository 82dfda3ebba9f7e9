--------------------------- MODULE ToolCallGrammar ---------------------------
(***************************************************************************)
(* The grammar of a model's output (grammar/tool_call.py): the schema that *)
(* constrains decoding, the parser that checks an output against it, and   *)
(* the parser of the agent, which every output goes through. The three     *)
(* read the same registry, which may be empty.                             *)
(***************************************************************************)
EXTENDS AgentLoop

(* An output with what the agent does not look at: whether its thought is  *)
(* a string, what its args are, and whether it has keys of its own.        *)
RawOutput == [output : Output, thought : BOOLEAN,
              args : {"object", "absent", "other"}, more_keys : BOOLEAN]

(* Mutant: any name is taken for a skill.                                  *)
AcceptsAnySkill(raw) ==
  /\ raw.output.shape = "action" /\ raw.thought
  /\ IF raw.output.answer # "absent" THEN raw.output.answer \in {"blank", "text"}
     ELSE raw.output.skill \in Skill /\ raw.args # "other"

(* build_schema: the action has an answer or a call, and no more.          *)
SchemaAllows(raw) ==
  /\ raw.output.shape = "action" /\ raw.thought /\ ~raw.more_keys
  /\ \/ raw.output.answer \in {"blank", "text"} /\ raw.output.skill = "absent"
     \/ raw.output.answer = "absent" /\ Callable(raw.output.skill)
          /\ raw.args = "object"

(* parse_tool_call does not raise: an answer takes precedence over a call. *)
ParserAccepts(raw) ==
  /\ raw.output.shape = "action" /\ raw.thought
  /\ IF raw.output.answer # "absent" THEN raw.output.answer \in {"blank", "text"}
     ELSE Callable(raw.output.skill) /\ raw.args # "other"

(* What it makes of the output.                                            *)
Parsed(raw) == IF raw.output.answer # "absent" THEN FinalAnswer ELSE Call(raw.output.skill)

-----------------------------------------------------------------------------
(* Properties.                                                             *)

(* A model held to the schema never wastes an iteration on a malformed     *)
(* action: the schema allows nothing its parser rejects, and what the      *)
(* parser makes of an output the agent makes of it too, except an answer   *)
(* of blanks (tool_call.py:40-136, agent.py:223-320). The registry stays   *)
(* as it is during a run: its start covers every registry.                 *)
GrammarAgreesWithAgent ==
  stream = <<>> => \A raw \in RawOutput :
    /\ SchemaAllows(raw) => ParserAccepts(raw)
    /\ ParserAccepts(raw) =>
         \/ ParseAction(raw.output) = Parsed(raw)
         \/ raw.output.answer = "blank"
              /\ ParseAction(raw.output) = ValidationError("non_empty_final_answer")
=============================================================================
