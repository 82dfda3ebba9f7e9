----------------------------- MODULE ToolBridge -----------------------------
(***************************************************************************)
(* A skill that goes through other frameworks and comes back: each layer   *)
(* exposes it as a tool of the framework and imports the tool as a remote  *)
(* skill, which the next layer may expose again. A chain is the sequence   *)
(* of the frameworks, the one next to the body first. What a layer tells   *)
(* of the arguments is derived from what the one below tells, by a table   *)
(* of types that differs from one framework to the next; what a call goes  *)
(* through is checked by some layers and passed on blindly by others.      *)
(***************************************************************************)
EXTENDS Integers, SequencesExt

CONSTANTS
  Param,     \* names of arguments
  OddName,   \* those of them that are no Python identifiers
  MaxLayers  \* bound: the length of a chain

ASSUME ToolBridgeAssumption == OddName \subseteq Param /\ MaxLayers \in Nat

(* Integers stand for the scalars all tables know, arrays for what some do *)
(* not; "any" for a schema without a type, and for anyOf.                  *)
Type == {"string", "integer", "array", "any"}
Argument == [type : Type, required : BOOLEAN]

(* What inspect.signature says of a body, and what args_schema says of it. *)
Schemas == UNION {[names -> Argument] : names \in SUBSET Param}

Value == {"text", "numeral", "int", "list", "null"}
Givens(names) == UNION {[given -> Value] : given \in SUBSET names}

Framework == {"mcp", "langchain", "dspy", "huggingface"}
Chains == UNION {[1 .. n -> Framework] : n \in 0 .. MaxLayers}

Required(schema) == {p \in DOMAIN schema : schema[p].required}

-----------------------------------------------------------------------------
(* What a layer advertises of a skill that advertises the schema.          *)

(* LangChain and DSPy know the scalars; any other type becomes a string.   *)
TableType(type) == IF type \in {"string", "integer"} THEN type ELSE "string"

(* MCP takes the schema over. LangChain builds a model of it, in which an  *)
(* optional argument is an anyOf with null. A tool of smolagents has no    *)
(* optional inputs.                                                        *)
Mirrored(framework, argument) ==
  CASE framework = "mcp" -> argument
    [] framework = "langchain" ->
         IF argument.required THEN [argument EXCEPT !.type = TableType(@)]
         ELSE [argument EXCEPT !.type = "any"]
    [] framework = "dspy" -> [argument EXCEPT !.type = TableType(@)]
    [] framework = "huggingface" -> [argument EXCEPT !.required = TRUE]

(* Mutant: the fields of a DSPy tool are optional unless they say so.      *)
RequiredForgotten(framework, schema) ==
  [p \in DOMAIN schema |->
     IF framework = "dspy" THEN [Mirrored(framework, schema[p]) EXCEPT !.required = FALSE]
     ELSE Mirrored(framework, schema[p])]

Bridged(framework, schema) == [p \in DOMAIN schema |-> Mirrored(framework, schema[p])]

(* What the first k layers of the chain advertise.                         *)
AdvertisedAt(chain, signature, layers) ==
  LET at[k \in 0 .. layers] ==
        IF k = 0 THEN signature ELSE Bridged(chain[k], at[k - 1])
  IN  at[layers]

Advertised(chain, signature) == AdvertisedAt(chain, signature, Len(chain))

(* smolagents makes the names parameters of forward(), so that they have   *)
(* to be identifiers; only a tool of a remote MCP server has others.       *)
Exposable(chain, signature) ==
  DOMAIN signature \cap OddName # {} =>
    chain # <<>> /\ chain[1] = "mcp" /\ "huggingface" \notin ToSet(chain)

-----------------------------------------------------------------------------
(* What a layer does to the arguments of a call: the set of what it passes *)
(* on, empty when it refuses the call.                                     *)

Accepts(type, value) ==
  CASE type = "string" -> value \in {"text", "numeral"}
    [] type = "integer" -> value \in {"int", "numeral"}
    [] type = "array" -> value = "list"
    [] OTHER -> TRUE

Coerced(type, value) == IF type = "integer" /\ value = "numeral" THEN "int" ELSE value

(* A pydantic model: required fields are there, the given ones fit or are  *)
(* coerced, and what is no field is dropped.                               *)
ByModel(model, nullable, given) ==
  LET fields == DOMAIN model \cap DOMAIN given
  IN  IF /\ Required(model) \subseteq fields
         /\ \A p \in fields : \/ Accepts(model[p].type, given[p])
                              \/ p \in nullable /\ given[p] = "null"
      THEN {[p \in fields |-> Coerced(model[p].type, given[p])]} ELSE {}

(* An exposed LangChain tool validates against the model made for it.      *)
LangChainModel(schema) == [p \in DOMAIN schema |-> [schema[p] EXCEPT !.type = TableType(@)]]

(* signature.bind() in the forward() of smolagents wants every parameter.  *)
Passed(framework, schema, given) ==
  CASE framework = "langchain" ->
         ByModel(LangChainModel(schema), DOMAIN schema \ Required(schema), given)
    [] framework = "huggingface" ->
         IF DOMAIN given = DOMAIN schema THEN {given} ELSE {}
    [] OTHER -> {given}

(* The agent validates the arguments of a local skill and fills in the     *)
(* defaults; a remote skill it trusts with them, if they are a dict. The   *)
(* endpoints and the frameworks call run() with whatever they were given.  *)
Entered(door, chain, signature, given) ==
  IF door = "agent" /\ chain = <<>>
  THEN {[p \in DOMAIN signature |-> IF p \in DOMAIN valid THEN valid[p] ELSE "default"] :
          valid \in ByModel(signature, {}, given)}
  ELSE {given}

(* What is left of the arguments when the call comes to the body.          *)
Arrived(door, chain, signature, given) ==
  LET n == Len(chain)
      at[k \in 0 .. n] ==
        IF k = n THEN Entered(door, chain, signature, given)
        ELSE UNION {Passed(chain[k + 1], AdvertisedAt(chain, signature, k), a) :
                      a \in at[k + 1]}
  IN  at[0]

(* Python binds the arguments to the signature or raises a TypeError.      *)
Binds(signature, given) ==
  Required(signature) \subseteq DOMAIN given /\ DOMAIN given \subseteq DOMAIN signature

(* A call, and what may go wrong with it: the transport of MCP may fail    *)
(* before the tool was called or after, or the body raises. A layer wraps  *)
(* what the one below raised, so whatever fails is an error to the caller. *)
Fault == {"none", "before", "after", "body"}

Call(door, chain, signature, given, fault) ==
  LET transport == "mcp" \in ToSet(chain)
      bound == {a \in Arrived(door, chain, signature, given) : Binds(signature, a)}
      reached == IF transport /\ fault = "before" THEN {} ELSE bound
  IN  [ran |-> reached,
       answer |-> IF reached = {} \/ fault = "body" \/ (transport /\ fault = "after")
                  THEN "error" ELSE "result"]

-----------------------------------------------------------------------------
Fits(schema, given) ==
  /\ Required(schema) \subseteq DOMAIN given /\ DOMAIN given \subseteq DOMAIN schema
  /\ \A p \in DOMAIN given : Accepts(schema[p].type, given[p]) \/ given[p] = "default"

Scalar(signature) == \A p \in DOMAIN signature : signature[p].type \in {"string", "integer"}

(* Whatever frameworks a skill goes through, and whoever calls it:         *)
(* no layer stops requiring an argument; a result means that the body ran  *)
(* with all it requires, nothing it does not know and nothing the caller   *)
(* did not give; and for a body whose arguments are required scalars, what *)
(* fits the schema the caller was shown fits the body, and arrives.        *)
EveryCallArrives ==
  \A signature \in Schemas, chain \in Chains :
    Exposable(chain, signature) =>
      LET schema == Advertised(chain, signature)
      IN  /\ DOMAIN schema = DOMAIN signature
          /\ Required(signature) \subseteq Required(schema)
          /\ \A given \in Givens(Param), door \in {"agent", "direct"} :
               /\ \A fault \in Fault :
                    LET call == Call(door, chain, signature, given, fault)
                    IN  call.answer = "result" =>
                          \E a \in call.ran : \A p \in DOMAIN a :
                            \/ p \in DOMAIN given /\ a[p] \in {given[p], Coerced("integer", given[p])}
                            \/ a[p] = "default" /\ p \notin DOMAIN given /\ ~signature[p].required
               /\ Fits(schema, given) /\ Scalar(signature)
                    /\ Required(signature) = DOMAIN signature =>
                      \E a \in Call(door, chain, signature, given, "none").ran : Fits(signature, a)
=============================================================================
