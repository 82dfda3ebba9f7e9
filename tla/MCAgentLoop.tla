---------------------------- MODULE MCAgentLoop ----------------------------
(* AgentLoop with the skills and bounds of the cfg files.                  *)
EXTENDS ToolCallGrammar
============================================================================
