----------------------------- MODULE Translation -----------------------------
(***************************************************************************)
(* The translation of an Anthropic request into an OpenAI one and of the   *)
(* answer back (anthropic/types.rs), tools with them (translator.rs,       *)
(* injector.rs) and the name of the model (model_mapper.rs).               *)
(*                                                                         *)
(* A content block has a kind; n is the number of a text or the id of a    *)
(* call, tool its tool.  A message that is a plain string is one text      *)
(* block.  What a text says, schemas and parameters of sampling are left   *)
(* out.  An OpenAI message has the roles of the code; what of its content  *)
(* is text, picture or title of a document is kept block by block.         *)
(***************************************************************************)
EXTENDS Naturals, Sequences, SequencesExt

CONSTANTS
    ShortNames,   \* names of at most 64 characters
    LongNames,    \* longer ones
    Cut,          \* what each long one is cut to, with a hash at its end
    Dates,        \* parts of a model's name: eight digits
    Markers       \* other digits, and what ends in m or k, as 1m

ASSUME NamesAssumption ==
    /\ ShortNames \cap LongNames = {}
    /\ \A n \in LongNames : Cut[n] \notin ShortNames \cup LongNames
    /\ \A m, n \in LongNames : Cut[m] = Cut[n] => m = n

ASSUME PartsAssumption == Dates \cap Markers = {}

NoTool == "none"   \* the tool of a block that is no call
Kinds == {"text", "image", "document", "thinking", "use", "result"}
Block(kind, n, tool) == [k |-> kind, n |-> n, tool |-> tool]

\* The blocks of some kinds, in their order.
Of(blocks, kinds) ==
    LET upTo[i \in 0 .. Len(blocks)] ==
            IF i = 0 THEN <<>>
            ELSE IF blocks[i].k \in kinds THEN Append(upTo[i - 1], blocks[i])
            ELSE upTo[i - 1]
    IN  upTo[Len(blocks)]
Has(blocks, kinds) == Of(blocks, kinds) # <<>>

NoId == 0
\* A call of the upstream API; its arguments may be cut off.
Call(id, name, whole) == [id |-> id, name |-> name, whole |-> whole]
Message(role, content, calls, id) ==
    [role |-> role, content |-> content, calls |-> calls, id |-> id]
-----------------------------------------------------------------------------
(***************************************************************************)
(* The request.                                                            *)
(***************************************************************************)
StripThinkingBlocks(blocks) == Of(blocks, Kinds \ {"thinking"})

\* extract_text: texts, and something in the place of pictures and documents.
ExtractText(blocks) == Of(blocks, {"text", "image", "document"})
\* translate_content_block: there is no document in the OpenAI format.
TranslateContentBlocks(blocks) == Of(blocks, {"text", "image"})

\* extract_tool_calls, with the name as it is.
ExtractToolCalls(blocks) ==
    LET uses == Of(blocks, {"use"})
    IN  [i \in 1 .. Len(uses) |-> Call(uses[i].n, uses[i].tool, TRUE)]

ExtractToolResultMessages(blocks) ==
    LET results == Of(blocks, {"result"})
    IN  [i \in 1 .. Len(results) |->
            Message("tool", <<>>, <<>>, results[i].n)]

UnlessEmpty(role, content) ==
    IF content = <<>> THEN <<>> ELSE <<Message(role, content, <<>>, NoId)>>

\* Slip: the text of a message goes before its results.
TranslateTextFirst(m, native) ==
    LET c == StripThinkingBlocks(m.blocks)
    IN  IF Has(c, {"result"})
        THEN UnlessEmpty(m.role, ExtractText(c)) \o ExtractToolResultMessages(c)
        ELSE IF native /\ m.role = "assistant" /\ Has(c, {"use"})
        THEN <<Message(m.role, ExtractText(c), ExtractToolCalls(c), NoId)>>
        ELSE <<Message(m.role, ExtractText(c), <<>>, NoId)>>

\* One message: results first, each a message of its own, then its text; or
\* its pictures; or its calls, if the tools are native; or its text.
TranslateMessage(m, native) ==
    LET c == StripThinkingBlocks(m.blocks)
    IN  IF Has(c, {"result"})
        THEN ExtractToolResultMessages(c) \o UnlessEmpty(m.role, ExtractText(c))
        ELSE IF Has(c, {"image", "document"})
        THEN UnlessEmpty(m.role, TranslateContentBlocks(c))
        ELSE IF native /\ m.role = "assistant" /\ Has(c, {"use"})
        THEN <<Message(m.role, ExtractText(c), ExtractToolCalls(c), NoId)>>
        ELSE <<Message(m.role, ExtractText(c), <<>>, NoId)>>

SystemPrompt == Message("system", <<Block("text", 0, NoTool)>>, <<>>, NoId)

\* to_chat_completion_request, without the tools.
ToChatCompletionRequest(system, history, native) ==
    (IF system THEN <<SystemPrompt>> ELSE <<>>)
    \o FlattenSeq([i \in 1 .. Len(history) |->
                      TranslateMessage(history[i], native)])
-----------------------------------------------------------------------------
(***************************************************************************)
(* Tools.                                                                  *)
(***************************************************************************)
TruncateToolName(name) == IF name \in LongNames THEN Cut[name] ELSE name

\* translate_anthropic_tools_to_openai: the names the upstream API gets, and
\* the way back from those that were cut.
TranslateTools(tools) ==
    [names |-> [i \in 1 .. Len(tools) |-> TruncateToolName(tools[i])],
     mapping |-> [c \in {Cut[n] : n \in ToSet(tools) \cap LongNames} |->
                     CHOOSE n \in LongNames : Cut[n] = c]]

\* Slip: names are passed on as they come.
RestoreNothing(name, mapping) == name

RestoreToolName(name, mapping) ==
    IF name \in DOMAIN mapping THEN mapping[name] ELSE name

\* inject_tools_into_messages: the tools go before the first system message,
\* or make one.
ToolPrompt == Block("tools", 0, NoTool)
InjectTools(messages) ==
    LET systems == {i \in 1 .. Len(messages) : messages[i].role = "system"}
        first == CHOOSE i \in systems : \A j \in systems : i <= j
    IN  IF systems = {}
        THEN <<Message("system", <<ToolPrompt>>, <<>>, NoId)>> \o messages
        ELSE [messages EXCEPT ![first].content = <<ToolPrompt>> \o @]

\* Slip: the result forgets whose it is.
TranslateToolMessagesBare(messages) ==
    [i \in 1 .. Len(messages) |->
        IF messages[i].role = "tool"
        THEN Message("user", <<>>, messages[i].calls, NoId)
        ELSE messages[i]]

\* translate_tool_messages: "[Tool Result (call_id: ...)]" of the user.
TranslateToolMessages(messages) ==
    [i \in 1 .. Len(messages) |->
        IF messages[i].role = "tool"
        THEN Message("user",
                     <<Block("result", messages[i].id, NoTool)>>
                         \o messages[i].content,
                     messages[i].calls, NoId)
        ELSE messages[i]]
-----------------------------------------------------------------------------
(***************************************************************************)
(* The answer.                                                             *)
(***************************************************************************)
MapFinish(finish) ==
    CASE finish = "stop" -> "end_turn"
      [] finish = "length" -> "max_tokens"
      [] OTHER -> finish

\* ResponseContentBlock::tool_use: arguments that are no JSON become {}.
ToolUse(call) ==
    [k |-> "use", n |-> call.id, tool |-> call.name, input |-> call.whole]
TextBlock(n) == [k |-> "text", n |-> n, tool |-> NoTool, input |-> FALSE]

\* Slip: the finish_reason is translated even if there are calls.
AnswerWithFinish(choices) ==
    LET first == Head(choices)
        texts == IF first.text = 0 THEN <<>> ELSE <<TextBlock(first.text)>>
        uses == [i \in 1 .. Len(first.calls) |-> ToolUse(first.calls[i])]
    IN  [blocks |-> IF texts \o uses = <<>> THEN <<TextBlock(0)>>
                    ELSE texts \o uses,
         stop |-> MapFinish(first.finish)]

\* to_anthropic_response looks at the first choice only.
ToAnthropicResponse(choices) ==
    LET first == Head(choices)
        texts == IF first.text = 0 THEN <<>> ELSE <<TextBlock(first.text)>>
        uses == [i \in 1 .. Len(first.calls) |-> ToolUse(first.calls[i])]
    IN  IF choices = <<>> THEN [blocks |-> <<>>, stop |-> "none"]
        ELSE [blocks |-> IF texts \o uses = <<>> THEN <<TextBlock(0)>>
                         ELSE texts \o uses,
              stop |-> IF uses # <<>> THEN "tool_use"
                       ELSE MapFinish(first.finish)]
-----------------------------------------------------------------------------
(***************************************************************************)
(* The model.  A name is the sequence of its parts between the dashes, and *)
(* a part the sequence of its pieces between the dots.                     *)
(***************************************************************************)
Claude == <<"claude">>
HasDot(parts) == \E i \in 1 .. Len(parts) : Len(parts[i]) > 1

\* Slip: a name with a dot is taken apart like any other.
NormalizeEveryName(parts) ==
    IF parts[1] # Claude \/ Len(parts) < 4 \/ parts[4] \in Dates
    THEN parts
    ELSE <<Claude, parts[2], parts[3] \o parts[4]>>

\* normalize_model_name: family-major.minor and the first marker behind it, if
\* there is one; as it is if there is a dot already, no minor version or a date
\* in its place.
NormalizeModelName(parts) ==
    IF \/ parts[1] # Claude \/ HasDot(parts)
       \/ Len(parts) < 4 \/ parts[4] \in Dates
    THEN parts
    ELSE LET markers == {i \in 5 .. Len(parts) : parts[i] \in Markers}
             first == CHOOSE i \in markers : \A j \in markers : i <= j
         IN  <<Claude, parts[2], parts[3] \o parts[4]>>
             \o (IF markers = {} THEN <<>> ELSE <<parts[first]>>)
=============================================================================
