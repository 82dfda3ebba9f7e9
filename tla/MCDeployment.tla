---------------------------- MODULE MCDeployment ----------------------------
(* Deployment with the environments of the cfg file. ToolBridge and        *)
(* Workflows have no state: what is said of them is evaluated where a      *)
(* behaviour starts, over all their inputs.                                *)
EXTENDS Deployment, ToolBridge, Workflows, TLC

MCTokens == {<<"blank", "blank">>, <<"proper", "blank">>, <<"padded", "proper">>,
             <<"proper", "padded">>}
MCParam == {"title", "max-results"}
MCOddName == {"max-results"}

(* Whatever frameworks a skill goes through, no layer stops requiring an   *)
(* argument, a result means that the body ran with what it requires and    *)
(* what the caller gave, and what fits the schema the caller was shown     *)
(* fits a body of required scalars (langchain.py:41-131, dspy.py:61-137,   *)
(* huggingface.py:72-222, mcp.py:59-72, mcp_client.py:112-124).            *)
CallsReachTheBody == stage = "parse" => EveryCallArrives

(* Each workflow makes the calls its documentation says, in that order and *)
(* with that input, and returns what it says; whatever raises ends it with *)
(* that exception and no call after it (prompt_chain.py:22-26,             *)
(* router.py:30-36, parallel.py:23-24, orchestrator_worker.py:35-41,       *)
(* evaluator_optimizer.py:39-49).                                          *)
WorkflowsAsDocumented == stage = "parse" => CallsAsDocumented
=============================================================================
