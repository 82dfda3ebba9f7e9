---------------------------- MODULE ChatProviders ----------------------------
(***************************************************************************)
(* One conversation of Tier 2 messages, continued with any of the chat     *)
(* providers: each chat() translates all the messages into the provider's  *)
(* format and its reply back into one message. Groq, NVIDIA, Ollama and    *)
(* omlx use the format of OpenAI.                                          *)
(*                                                                         *)
(* A string is the sequence of the texts in it; a text, and the arguments  *)
(* of a call, are named by their place in the conversation. Stop reasons   *)
(* and token counts are passed on and are left out. The host is the one    *)
(* chat.py describes: it appends each reply, and answers its calls one by  *)
(* one before it goes on.                                                  *)
(***************************************************************************)
EXTENDS SequencesExt, SeqFold

CONSTANTS
  Tool,        \* names of the tools
  MaxParts,    \* bound: texts and calls in one reply
  MaxMessages  \* bound: messages of the conversation

ASSUME ChatAssumption == MaxParts \in Nat /\ MaxMessages \in Nat

VARIABLES
  messages,  \* the host's list of Message
  outcome    \* of the last chat() or stream()

chatVars == <<messages, outcome>>

None == "none"

Message(role, content, tool_calls, tool_call_id, name) ==
  [role |-> role, content |-> content, tool_calls |-> tool_calls,
   tool_call_id |-> tool_call_id, name |-> name]

Assistant(content, tool_calls) == Message("assistant", content, tool_calls, None, None)
ToolCall(id, name, arguments) == [id |-> id, name |-> name, arguments |-> arguments]

(* Blocks of Anthropic and parts of Google: a text, a call, or a result.   *)
TextBlock(text) == [type |-> "text", text |-> text]
UseBlock(call) == [type |-> "tool_use", call |-> call]
ResultBlock(of, text) == [type |-> "tool_result", of |-> of, text |-> text]

Map(seq, Op(_)) == [k \in DOMAIN seq |-> Op(seq[k])]

TextsOf(blocks) ==
  Through(LAMBDA said, b : IF b.type = "text" THEN said \o b.text ELSE said, <<>>, blocks)
CallsOf(blocks) ==
  Through(LAMBDA calls, b : IF b.type = "tool_use" THEN Append(calls, b.call) ELSE calls,
          <<>>, blocks)

InRole(role, msgs) == Filter(msgs, LAMBDA m : m.role = role)
NotSystem(msgs) == Filter(msgs, LAMBDA m : m.role # "system")
Contents(msgs) == Through(LAMBDA said, m : said \o m.content, <<>>, msgs)

-----------------------------------------------------------------------------
(* The translations of _translate.py.                                      *)

(* Mutant: a result is sent under the name of its tool.                    *)
OpenAIMessageByName(m) ==
  [role |-> m.role, content |-> m.content, tool_calls |-> m.tool_calls,
   tool_call_id |-> IF m.role = "tool" THEN m.name ELSE None]

(* The name in a tool message is not sent.                                 *)
OpenAIMessage(m) ==
  [role |-> m.role, content |-> m.content,
   tool_calls |-> IF m.role = "tool" THEN <<>> ELSE m.tool_calls,
   tool_call_id |-> IF m.role = "tool" THEN m.tool_call_id ELSE None]

ToOpenAI(msgs) == Map(msgs, OpenAIMessage)

FromOpenAI(reply) == Assistant(reply.content, reply.tool_calls)

(* Mutant: a message that calls tools loses its text.                      *)
AnthropicMessageCallsOnly(m) ==
  IF m.role = "tool"
  THEN [role |-> "user", content |-> <<ResultBlock(m.tool_call_id, m.content)>>]
  ELSE [role |-> m.role,
        content |-> IF m.tool_calls = <<>> THEN <<TextBlock(m.content)>>
                    ELSE Map(m.tool_calls, UseBlock)]

AnthropicMessage(m) ==
  IF m.role = "tool"
  THEN [role |-> "user", content |-> <<ResultBlock(m.tool_call_id, m.content)>>]
  ELSE [role |-> m.role,
        content |-> (IF m.content = <<>> /\ m.tool_calls # <<>>
                     THEN <<>> ELSE <<TextBlock(m.content)>>)
                    \o Map(m.tool_calls, UseBlock)]

ToAnthropic(msgs) ==
  [system |-> Contents(InRole("system", msgs)),
   messages |-> Map(NotSystem(msgs), AnthropicMessage)]

FromAnthropic(reply) == Assistant(TextsOf(reply), CallsOf(reply))

GoogleRole(role) == IF role = "assistant" THEN "model" ELSE role

(* Google's calls have no ids: a result names its tool.                    *)
WithoutId(call) == ToolCall(None, call.name, call.arguments)

GoogleContent(m) ==
  IF m.role = "tool"
  THEN [role |-> "function", parts |-> <<ResultBlock(m.name, m.content)>>]
  ELSE [role |-> GoogleRole(m.role),
        parts |-> (IF m.content = <<>> THEN <<>> ELSE <<TextBlock(m.content)>>)
                  \o Map(Map(m.tool_calls, WithoutId), UseBlock)]

ToGoogle(msgs) ==
  [system |-> Contents(InRole("system", msgs)),
   contents |-> Map(NotSystem(msgs), GoogleContent)]

FromGoogle(reply) ==
  Assistant(TextsOf(reply),
            Map(CallsOf(reply), LAMBDA c : ToolCall(c.name, c.name, c.arguments)))

(* The prompt of mlx-lm, which uses no tools.                              *)
MLXPrompt(msgs) == Map(msgs, LAMBDA m : [role |-> m.role, content |-> m.content])

-----------------------------------------------------------------------------
(* The services, and the conversation.                                     *)

Text == "text"
Place(k) == <<Len(messages) + 1, k>>

(* A reply says texts and calls tools in some order; but Google, the       *)
(* services give each call an id of its own.                               *)
Blocks(said, Id(_)) ==
  [k \in DOMAIN said |->
     IF said[k] = Text THEN TextBlock(<<Place(k)>>)
     ELSE UseBlock(ToolCall(Id(k), said[k], Place(k)))]

Saids == SeqOf(Tool \cup {Text}, MaxParts)

(* The calls of the last reply that the host has not answered.             *)
Unanswered ==
  Through(LAMBDA left, m : IF m.role = "tool" THEN Tail(left) ELSE m.tool_calls,
          <<>>, messages)

Room == Len(messages) < MaxMessages
MayAsk == Room /\ messages # <<>> /\ Unanswered = <<>>

Say(role) ==
  /\ Room /\ Unanswered = <<>>
  /\ messages' = Append(messages, Message(role, <<Place(1)>>, <<>>, None, None))
  /\ UNCHANGED outcome

Replied(message) == messages' = Append(messages, message) /\ outcome' = "replied"

OpenAIChat(said) ==
  /\ MayAsk
  /\ LET blocks == Blocks(said, Place)
     IN Replied(FromOpenAI([content |-> TextsOf(blocks), tool_calls |-> CallsOf(blocks)]))

AnthropicChat(said) == MayAsk /\ Replied(FromAnthropic(Blocks(said, Place)))

GoogleChat(said) == MayAsk /\ Replied(FromGoogle(Blocks(said, LAMBDA k : None)))

(* mlx-lm loads its model for the first chat(), and never calls a tool.    *)
MLXChat == MayAsk /\ Replied(Assistant(<<Place(1)>>, <<>>))

(* stream() of any provider yields the texts of the reply and drops its    *)
(* calls.                                                                  *)
Stream(said) == MayAsk /\ Replied(Assistant(TextsOf(Blocks(said, Place)), <<>>))

(* The service cannot be reached or refuses, the arguments of a call are   *)
(* no JSON, or mlx-lm is offered tools.                                    *)
Raise == MayAsk /\ outcome' = "raised" /\ UNCHANGED messages

(* The host runs the next tool: the result is that of the call's arguments.*)
Answer ==
  /\ Room /\ Unanswered # <<>>
  /\ LET call == Head(Unanswered)
     IN messages' = Append(messages,
                           Message("tool", <<call.arguments>>, <<>>, call.id, call.name))
  /\ UNCHANGED outcome

ChatInit == messages = <<>> /\ outcome = None

ChatNext ==
  \/ \E role \in {"system", "user"} : Say(role)
  \/ \E said \in Saids :
       OpenAIChat(said) \/ AnthropicChat(said) \/ GoogleChat(said) \/ Stream(said)
  \/ MLXChat
  \/ Raise
  \/ Answer

ChatSpec == ChatInit /\ [][ChatNext]_chatVars

-----------------------------------------------------------------------------
(* What a service reads in a request: the system prompt, and the turns.    *)

Turn(who, text, uses, answers) ==
  [who |-> who, text |-> text, uses |-> uses, answers |-> answers]

AnthropicTurn(m) ==
  IF m.content # <<>> /\ m.content[1].type = "tool_result"
  THEN Turn("tool", m.content[1].text, <<>>, m.content[1].of)
  ELSE Turn(m.role, TextsOf(m.content), CallsOf(m.content), None)

GoogleTurn(c) ==
  IF c.role = "function" THEN Turn("tool", c.parts[1].text, <<>>, c.parts[1].of)
  ELSE Turn(IF c.role = "model" THEN "assistant" ELSE c.role,
            TextsOf(c.parts), CallsOf(c.parts), None)

(* A message of Tier 2 or of OpenAI.                                       *)
MessageTurn(m) == Turn(m.role, m.content, m.tool_calls, m.tool_call_id)

ReadMessages(msgs) ==
  [system |-> Contents(InRole("system", msgs)), turns |-> Map(NotSystem(msgs), MessageTurn)]

ReadAnthropic(request) ==
  [system |-> request.system, turns |-> Map(request.messages, AnthropicTurn)]

ReadGoogle(request) ==
  [system |-> request.system, turns |-> Map(request.contents, GoogleTurn)]

(* The message with its calls and its result under the names of the tools. *)
UnderName(m) ==
  [m EXCEPT !.tool_calls = Map(m.tool_calls, WithoutId), !.tool_call_id = m.name]
ByName(msgs) == Map(msgs, UnderName)

Calls(conversation) == Through(LAMBDA calls, t : calls \o t.uses, <<>>, conversation.turns)
Results(conversation) == Filter(conversation.turns, LAMBDA t : t.who = "tool")

(* What was asked of one tool, and what is said to be its results.         *)
AskedOf(tool, calls) ==
  Through(LAMBDA asked, c : IF c.name = tool THEN Append(asked, c.arguments) ELSE asked,
          <<>>, calls)
ToldOf(tool, results) ==
  Through(LAMBDA told, t : IF t.answers = tool THEN told \o t.text ELSE told, <<>>, results)

-----------------------------------------------------------------------------
(* Properties.                                                             *)

(* Whichever service made which part of the conversation, each of them     *)
(* reads all of it in the next request: every text, call and result once,  *)
(* in order and from the same speaker, with the system prompts in one      *)
(* (_translate.py:31-321, mlx.py:67-71).                                   *)
RequestSaysConversation ==
  /\ ReadMessages(ToOpenAI(messages)) = ReadMessages(messages)
  /\ ReadAnthropic(ToAnthropic(messages)) = ReadMessages(messages)
  /\ ReadGoogle(ToGoogle(messages)) = ReadMessages(ByName(messages))
  /\ Contents(MLXPrompt(messages)) = Contents(messages)

(* A service that goes by ids finds the one call a result answers, if not  *)
(* Google made it; Google, which goes by the name and the order, finds it  *)
(* whoever made it (_translate.py:38-41, 132-144, 239-252, 274-278;        *)
(* chat.py:42-43).                                                         *)
ResultsReachTheirCall ==
  /\ \A read \in {ReadMessages(ToOpenAI(messages)), ReadAnthropic(ToAnthropic(messages))} :
       \A k \in DOMAIN Results(read) : LET result == Results(read)[k] IN
         InRole("tool", messages)[k].tool_call_id \notin Tool =>
           {c.arguments : c \in {d \in ToSet(Calls(read)) : d.id = result.answers}}
             = ToSet(result.text)
  /\ LET read == ReadGoogle(ToGoogle(messages))
     IN \A tool \in Tool :
          IsPrefix(ToldOf(tool, Results(read)), AskedOf(tool, Calls(read)))
=============================================================================
