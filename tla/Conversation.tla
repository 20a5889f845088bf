---------------------------- MODULE Conversation ----------------------------
(***************************************************************************)
(* A conversation of Claude Code with a model, exchange by exchange: the   *)
(* handler of POST /v1/messages for answers that are not streamed.         *)
(*                                                                         *)
(* The client sends its whole history each time; the handler translates    *)
(* it, offers the tools natively or writes them into the system prompt,    *)
(* falls back from the one to the other, translates the answer and logs    *)
(* the exchange.  Streamed answers are translated by StreamingState and    *)
(* TextStream; their requests are those of this module.                    *)
(***************************************************************************)
EXTENDS Translation, ToolText, FiniteSets

CONSTANTS
    Schemas,       \* tool -> parameter -> type
    Listed,        \* names of the models the upstream API has
    Models,        \* names a client may ask for, dated ones among them
    Questions,     \* what a user may say: sequences of kinds of blocks
    Offers,        \* sequences of tools a request may come with
    Texts,         \* answers in which calls are text, with what they mean
    MaxExchanges   \* bound: exchanges of a conversation

ASSUME ConversationAssumption ==
    /\ Offers \subseteq Seq(ShortNames \cup LongNames)
    /\ Models \subseteq Seq(Seq(STRING))
    /\ Questions \subseteq Seq({"text", "image", "document"})
    /\ \A t \in Texts : t.tokens \in Seq(ToSet(t.tokens))
    /\ MaxExchanges \in Nat

VARIABLES
    nativeTools,   \* config.native_tools
    system,        \* the client sends a system prompt
    exchange,      \* exchanges begun
    history,       \* the messages of the request
    tools,         \* its tools
    model,         \* its model
    pc,            \* where the handler is
    out,           \* the request the upstream API gets
    asked,         \* the attempts of this exchange
    failure,       \* why the last attempt failed, if it did
    meant,         \* what the model meant by its answer, what was read of it,
                   \* and whether its calls are whole
    answer,        \* what the client is answered
    builder,       \* cycle_builder
    logged,        \* the cycle written last
    nextId         \* the next id of a call or number of a text

chatVars == <<nativeTools, system, exchange, history, tools, model, pc, out,
              asked, failure, meant, answer, builder, logged, nextId>>
request == <<nativeTools, system, exchange, history, tools, model>>

Nothing == [blocks |-> <<>>, stop |-> "none"]
NoRequest == [messages |-> <<>>, tools |-> <<>>, model |-> <<>>]
NothingMeant ==
    [calls |-> <<>>, prose |-> <<>>, parsed |-> <<>>, rest |-> <<>>, whole |-> TRUE]

\* ConversationCycleBuilder::new; what is not set yet is empty.
NewCycle ==
    [incoming |-> <<>>, offered |-> <<>>, model |-> <<>>, count |-> 0,
     injected |-> FALSE, hasCalls |-> FALSE, stop |-> "none",
     blocks |-> <<>>, calls |-> <<>>]

SetIncoming(b, messages, offered) ==
    [b EXCEPT !.incoming =
        [i \in 1 .. Len(messages) |->
            [role |-> messages[i].role,
             use |-> Has(messages[i].blocks, {"use"}),
             result |-> Has(messages[i].blocks, {"result"})]],
     !.offered = offered]
SetOutgoing(b, o, injected) ==
    [b EXCEPT !.model = o.model, !.count = Len(o.messages),
              !.injected = injected]
SetCopilotResponse(b, choices) ==
    [b EXCEPT !.hasCalls = choices[1].calls # <<>>]
SetFinal(b, response, calls) ==
    [b EXCEPT !.stop = response.stop, !.blocks = response.blocks,
              !.calls = calls]

ChatInit ==
    /\ nativeTools \in BOOLEAN /\ system \in BOOLEAN
    /\ model \in Models
    /\ exchange = 0 /\ history = <<>> /\ tools = <<>>
    /\ pc = "client" /\ out = NoRequest /\ asked = <<>> /\ failure = "no"
    /\ meant = NothingMeant /\ answer = Nothing
    /\ builder = NewCycle /\ logged = NewCycle
    /\ nextId = 1
-----------------------------------------------------------------------------
(***************************************************************************)
(* The client.                                                             *)
(***************************************************************************)
Numbered(kinds, first) ==
    [i \in 1 .. Len(kinds) |-> Block(kinds[i], first + i - 1, NoTool)]

\* What the client remembers of an answer; it may have been thinking.
Remembered ==
    LET said == [i \in 1 .. Len(answer.blocks) |->
                    Block(answer.blocks[i].k, answer.blocks[i].n,
                          answer.blocks[i].tool)]
    IN  {[role |-> "assistant", blocks |-> said],
         [role |-> "assistant",
          blocks |-> <<Block("thinking", 0, NoTool)>> \o said]}

\* The results of the calls, in their order or the other way round.
Results ==
    LET uses == Of(answer.blocks, {"use"})
        results == [i \in 1 .. Len(uses) |-> Block("result", uses[i].n, NoTool)]
    IN  {results, Reverse(results)}

\* A user says something; to calls it may add nothing to their results.
Says(blocks) == [role |-> "user", blocks |-> blocks]
NewQuestions == {Numbered(q, nextId) : q \in Questions}
Added == IF answer.stop = "tool_use" THEN NewQuestions \cup {<<>>}
         ELSE NewQuestions

\* A question, or the results of the calls and what is added.
NextMessages ==
    IF answer = Nothing THEN {history \o <<Says(q)>> : q \in NewQuestions}
    ELSE {history \o <<a, Says(r \o q)>> :
            a \in Remembered, r \in Results, q \in Added}

\* A request arrives and is given a log record, if the log is on.  After an
\* error the client asks again with the history it had.
Receive ==
    /\ pc = "client" /\ exchange < MaxExchanges
    /\ exchange' = exchange + 1
    /\ history' \in NextMessages
    /\ tools' \in Offers
    /\ nextId' = nextId + 3
    /\ builder' = SetIncoming(NewCycle, history', tools')
    /\ asked' = <<>> /\ failure' = "no" /\ answer' = Nothing
    /\ meant' = NothingMeant /\ out' = NoRequest
    /\ pc' = IF tools' # <<>> /\ nativeTools THEN "native" ELSE "inject"
    /\ UNCHANGED <<nativeTools, system, model, logged>>
-----------------------------------------------------------------------------
(***************************************************************************)
(* The handler.                                                            *)
(***************************************************************************)
Fail ==
    /\ pc' = "client"
    /\ UNCHANGED <<answer, logged>>

\* handle_with_native_tools, up to the request.
OfferNatively ==
    /\ pc = "native"
    /\ out' = [messages |-> ToChatCompletionRequest(system, history, TRUE),
               tools |-> TranslateTools(tools).names,
               model |-> NormalizeModelName(model)]
    /\ builder' = SetOutgoing(builder, out', FALSE)
    /\ asked' = Append(asked, "native")
    /\ pc' = "nativeAnswer"
    /\ UNCHANGED <<request, failure, meant, answer, logged, nextId>>

\* Slip: the history keeps the form it has with native tools.
InjectAsNative ==
    /\ pc = "inject"
    /\ LET messages == ToChatCompletionRequest(system, history, TRUE)
       IN  out' = [messages |-> TranslateToolMessages(
                        IF tools = <<>> THEN messages ELSE InjectTools(messages)),
                   tools |-> <<>>,
                   model |-> NormalizeModelName(model)]
    /\ builder' = SetOutgoing(builder, out', tools # <<>>)
    /\ asked' = Append(asked, "xml")
    /\ pc' = "xmlAnswer"
    /\ UNCHANGED <<request, failure, meant, answer, logged, nextId>>

\* Slip: the log keeps the request of the first attempt.
InjectUnlogged ==
    /\ pc = "inject"
    /\ LET messages == ToChatCompletionRequest(system, history, FALSE)
       IN  out' = [messages |-> TranslateToolMessages(
                        IF tools = <<>> THEN messages ELSE InjectTools(messages)),
                   tools |-> <<>>,
                   model |-> NormalizeModelName(model)]
    /\ builder' = IF builder.count = 0
                  THEN SetOutgoing(builder, out', tools # <<>>) ELSE builder
    /\ asked' = Append(asked, "xml")
    /\ pc' = "xmlAnswer"
    /\ UNCHANGED <<request, failure, meant, answer, logged, nextId>>

\* The path of XML injection, up to the request.
Inject ==
    /\ pc = "inject"
    /\ LET messages == ToChatCompletionRequest(system, history, FALSE)
       IN  out' = [messages |-> TranslateToolMessages(
                        IF tools = <<>> THEN messages ELSE InjectTools(messages)),
                   tools |-> <<>>,
                   model |-> NormalizeModelName(model)]
    /\ builder' = SetOutgoing(builder, out', tools # <<>>)
    /\ asked' = Append(asked, "xml")
    /\ pc' = "xmlAnswer"
    /\ UNCHANGED <<request, failure, meant, answer, logged, nextId>>

\* There is no token, or the upstream API fails otherwise than by refusing
\* tools: an error for the client.
Error ==
    /\ pc \in {"native", "inject", "nativeAnswer", "xmlAnswer"}
    /\ failure' = "other"
    /\ Fail
    /\ UNCHANGED <<request, out, asked, meant, builder, nextId>>

\* What the upstream API does not understand without native tools.
UsesTools(o) ==
    \/ o.tools # <<>>
    \/ \E i \in 1 .. Len(o.messages) :
          o.messages[i].role = "tool" \/ o.messages[i].calls # <<>>

\* is_tools_not_supported_error: the message names tools, or some parameter
\* that is not supported.
IsToolsNotSupportedError(why) == why \in {"tools", "parameter"}

\* The upstream API refuses the request for its tools, or for something else
\* of which it says so in similar words.
Refuse ==
    /\ pc \in {"nativeAnswer", "xmlAnswer"}
    /\ \E why \in {"tools", "parameter"} :
         /\ why = "tools" => UsesTools(out)
         /\ failure' = why
         /\ IF pc = "nativeAnswer" /\ IsToolsNotSupportedError(why)
            THEN pc' = "inject" /\ UNCHANGED <<answer, logged>>
            ELSE Fail
    /\ UNCHANGED <<request, out, asked, meant, builder, nextId>>

\* The answer is logged and sent.
Respond(choices, calls) ==
    /\ answer' = ToAnthropicResponse(choices)
    /\ logged' = SetFinal(SetCopilotResponse(builder, choices), answer', calls)
    /\ failure' = "no"
    /\ pc' = "client"

\* What the model may answer to native tools: a text, calls of tools it was
\* offered, by their places, or both; the last call may be cut off at the
\* limit of tokens, and there may be a second choice with a call.
NativeReplies ==
    {r \in [text : {0, nextId}, calls : {<<>>, <<1>>, <<Len(tools), 1>>},
            whole : BOOLEAN, second : BOOLEAN] :
        ~r.whole => r.calls = <<1>> /\ ~r.second}

\* handle_native_tools_non_streaming: names are restored in every choice.
NativeAnswer ==
    /\ pc = "nativeAnswer"
    /\ \E r \in NativeReplies :
         LET mapping == TranslateTools(tools).mapping
             calls == [i \in 1 .. Len(r.calls) |->
                 Call(nextId + i, RestoreToolName(out.tools[r.calls[i]], mapping),
                      r.whole)]
             finish == IF ~r.whole THEN "length"
                       ELSE IF calls = <<>> THEN "stop" ELSE "tool_calls"
             other == Call(nextId, RestoreToolName(out.tools[1], mapping), TRUE)
             first == [text |-> r.text, calls |-> calls, finish |-> finish]
             second == [text |-> 0, calls |-> <<other>>, finish |-> finish]
         IN  /\ meant' = [NothingMeant EXCEPT !.calls =
                    [i \in 1 .. Len(calls) |->
                        [tool |-> tools[r.calls[i]], params |-> <<>>]],
                    !.whole = r.whole]
             /\ IF r.second THEN Respond(<<first, second>>, calls \o <<other>>)
                ELSE Respond(<<first>>, calls)
    /\ nextId' = nextId + 3
    /\ UNCHANGED <<request, out, asked, builder>>

\* ToolRegistry::from_tools.
Registry(offered) == [t \in ToSet(offered) \cap DOMAIN Schemas |-> Schemas[t]]

\* What the parser finds in each answer and what it leaves, by the tools of the
\* request; without tools no call is looked for.
Parsed ==
    [t \in Texts |-> [o \in Offers |->
        IF o = <<>> THEN <<>> ELSE ParseToolCalls(t.tokens, Registry(o))]]
Rest ==
    [t \in Texts |-> [o \in Offers |->
        IF Parsed[t][o] = <<>> THEN t.tokens ELSE StripToolCalls(t.tokens)]]

\* The answer to an injected request: with tools the calls are parsed out of
\* its text, otherwise it stays as it is.
XmlAnswer ==
    /\ pc = "xmlAnswer"
    /\ \E t \in Texts, finish \in {"stop", "length"} :
         LET parsed == Parsed[t][tools]
             rest == Rest[t][tools]
             calls == [i \in 1 .. Len(parsed) |->
                          Call(nextId + i, parsed[i].tool, TRUE)]
         IN  /\ meant' = [calls |-> IF tools = <<>> THEN <<>> ELSE t.calls,
                          prose |-> IF tools = <<>> THEN t.tokens ELSE t.prose,
                          parsed |-> parsed, rest |-> rest, whole |-> TRUE]
             /\ Respond(<<[text |-> IF rest = <<>> THEN 0 ELSE nextId,
                           calls |-> calls,
                           finish |-> IF calls = <<>> THEN finish
                                      ELSE "tool_calls"]>>, calls)
             /\ nextId' = nextId + Len(parsed) + 1
    /\ UNCHANGED <<request, out, asked, builder>>

Over ==
    /\ pc = "client" /\ exchange = MaxExchanges
    /\ UNCHANGED chatVars

ChatNext ==
    \/ Receive \/ OfferNatively \/ Inject \/ Error \/ Refuse
    \/ NativeAnswer \/ XmlAnswer \/ Over

ChatSpec == ChatInit /\ [][ChatNext]_chatVars
-----------------------------------------------------------------------------
Uses(blocks) == Of(blocks, {"use"})
ToolsOf(seq) == [i \in 1 .. Len(seq) |-> seq[i].tool]
Answered == pc = "client" /\ answer # Nothing
Asking == pc \in {"nativeAnswer", "xmlAnswer"}

ChatTypeOK ==
    /\ pc \in {"client", "native", "inject", "nativeAnswer", "xmlAnswer"}
    /\ exchange \in 0 .. MaxExchanges
    /\ asked \in {<<>>, <<"native">>, <<"xml">>, <<"native", "xml">>}
    /\ failure \in {"no", "tools", "parameter", "other"}
    /\ answer.stop \in {"none", "tool_use", "end_turn", "max_tokens"}
    /\ \A i \in 1 .. Len(history) :
          /\ history[i].role \in {"user", "assistant"}
          /\ \A j \in 1 .. Len(history[i].blocks) :
                history[i].blocks[j].k \in Kinds
    /\ \A i \in 1 .. Len(out.messages) :
          out.messages[i].role \in {"system", "user", "assistant", "tool"}

\* With native tools every result comes right after the message of the model
\* that has its call, and no call is left without a result: otherwise the
\* upstream API refuses the conversation (to_chat_completion_request,
\* "required for subsequent `tool` role messages to be valid").
ResultsFollowCalls ==
    pc = "nativeAnswer" =>
        LET ms == out.messages
            results(i) == SubSeq(ms, i + 1, i + Len(ms[i].calls))
            ids(seq) == {seq[j].id : j \in 1 .. Len(seq)}
        IN  /\ \A i \in 1 .. Len(ms) : ms[i].calls # <<>> =>
                  /\ i + Len(ms[i].calls) <= Len(ms)
                  /\ \A j \in 1 .. Len(ms[i].calls) : results(i)[j].role = "tool"
                  /\ ids(results(i)) = ids(ms[i].calls)
            /\ \A i \in 1 .. Len(ms) : ms[i].role = "tool" =>
                  \E j \in 1 .. i - 1 : i <= j + Len(ms[j].calls)

\* In either form the texts of the client's messages and the ids of its results
\* reach the model, in their order, so that a result names its call.  What a
\* result holds is not in the model: its texts go along, its images are dropped.
NothingLost ==
    Asking =>
        LET said == FlattenSeq([i \in 1 .. Len(history) |-> history[i].blocks])
            sent == FlattenSeq([i \in 1 .. Len(out.messages) |->
                        (IF out.messages[i].role = "tool"
                         THEN <<Block("result", out.messages[i].id, NoTool)>>
                         ELSE <<>>) \o out.messages[i].content])
        IN  Of(sent, {"text", "result"}) =
                (IF system THEN SystemPrompt.content ELSE <<>>)
                \o Of(said, {"text", "result"})

\* If none was cut off, every call of the model's first choice reaches the
\* client, in order, under the name the client knows it by and with an id of
\* its own, and the stop reason says whether there is one (restore_tool_name,
\* parse_tool_calls, to_anthropic_response).
CallsReachClient ==
    Answered /\ meant.whole =>
        LET uses == Uses(answer.blocks)
        IN  /\ ToolsOf(uses) = ToolsOf(meant.calls)
            /\ answer.stop = "tool_use" <=> uses # <<>>
            /\ \A i, j \in 1 .. Len(uses) : uses[i].n = uses[j].n => i = j
            /\ \A i \in 1 .. Len(uses), m \in 1 .. Len(history) :
                  \A b \in 1 .. Len(history[m].blocks) :
                      history[m].blocks[b].k = "use" =>
                          history[m].blocks[b].n # uses[i].n

\* "The adapter now emits a descriptive text content block when a tool call is
\* truncated ... a text-only response (no tool_use blocks)" (known-issues.md).
TruncationTold ==
    Answered /\ ~meant.whole =>
        Uses(answer.blocks) = <<>> /\ Has(answer.blocks, {"text"})

\* Calls written as text are read as they were meant, every parameter with the
\* characters it was written with and as its type or a string, and what is
\* left is the prose; only a number that is not finite becomes null.
TextUnderstood ==
    Answered /\ Last(asked) = "xml" =>
        /\ Len(meant.parsed) = Len(meant.calls)
        /\ meant.rest = meant.prose
        /\ \A i \in 1 .. Len(meant.calls) :
              LET was == meant.calls[i]
                  is == meant.parsed[i]
              IN  /\ is.tool = was.tool /\ DOMAIN is.params = DOMAIN was.params
                  /\ \A p \in DOMAIN was.params :
                        \/ /\ is.params[p].of = was.params[p]
                           /\ is.params[p].as \in
                                 {"string", GetParamType(Registry(tools), was.tool, p)}
                        \/ was.params[p] = <<Run("inf")>>

\* The client is never told that tools are not supported: the second attempt
\* has none (is_tools_not_supported_error and the fallback).
FallbackHelps ==
    pc = "client" => failure # "tools"

\* What is logged of an exchange is its last attempt and what was answered.
LogTellsWhatHappened ==
    Answered =>
        /\ logged.model = out.model /\ logged.count = Len(out.messages)
        /\ logged.injected = (\E i \in 1 .. Len(out.messages) :
                                 Has(out.messages[i].content, {"tools"}))
        /\ logged.stop = answer.stop /\ logged.blocks = answer.blocks
        /\ logged.hasCalls = (Uses(answer.blocks) # <<>>)
        /\ Len(logged.incoming) = Len(history)
        /\ Len(logged.calls) >= Len(Uses(answer.blocks))

\* The names of a listed model: the one in the list; for a version with a dot
\* also that with a dash, and perhaps with a date behind it.
KnownAs(m, l) ==
    \/ m = l /\ (m[1] # Claude \/ HasDot(m) \/ Len(m) < 4)
    \/ /\ m[1] = Claude /\ ~HasDot(m) /\ Len(m) >= 4 /\ m[4] \notin Dates
       /\ \E marker \in {<<>>} \cup {<<x>> : x \in Markers},
             date \in {<<>>} \cup {<<d>> : d \in Dates} :
             /\ SubSeq(m, 5, Len(m)) = marker \o date
             /\ l = <<Claude, m[2], m[3] \o m[4]>> \o marker
ModelsKnown ==
    \A m \in Models : m # <<>> /\ \E l \in Listed : KnownAs(m, l)

\* The upstream API is asked for a model it has, whether the client knows the
\* name from the list of models or has the dated one (normalize_model_name).
ModelListed ==
    Asking => out.model \in Listed

\* "OpenAI has a 64-character limit for function names.  Long tool names are
\* automatically truncated ... This is transparent to clients" (README.md).
NamesFit ==
    Asking =>
        /\ ToSet(out.tools) \cap LongNames = {}
        /\ \A i \in 1 .. Len(out.messages) :
              \A j \in 1 .. Len(out.messages[i].calls) :
                  out.messages[i].calls[j].name \notin LongNames
=============================================================================
