--------------------------- MODULE StreamingState ---------------------------
(***************************************************************************)
(* A streamed answer with native tools: StreamingState, the incremental    *)
(* translator from OpenAI chunks to Anthropic events, driven by the        *)
(* generator in handle_native_tools_streaming.                             *)
(*                                                                         *)
(* The generator pulls a chunk, lets process_chunk visit its parts in      *)
(* order (text, tool-call deltas, finish_reason, usage) and yields the     *)
(* resulting events one by one.  Nothing runs between the parts of one     *)
(* chunk, and no part is read before its turn, so a part is chosen when it *)
(* is visited.  Every delta function is one action; "events" holds all     *)
(* events returned so far, the first "yielded" of which the client has.    *)
(***************************************************************************)
EXTENDS StreamEvents, Sequences, FiniteSets

CONSTANTS
    MaxInput,      \* bound: chunks and parts the upstream API sends
    Interleaving   \* may argument deltas of parallel calls be interleaved?

ASSUME StreamAssumption ==
    /\ MaxInput \in Nat
    /\ Interleaving \in BOOLEAN

VARIABLES
    \* fields of StreamingState
    blockType,       \* current_block_type
    blockIndex,      \* current_block_index
    blockOpen,       \* block_open
    messageStarted,  \* message_started
    finishEmitted,   \* finish_emitted
    toolBuffer,      \* tool_use_buffer: events held back
    currentTool,     \* current_openai_tool_index
    truncated,       \* truncated_openai_tool_indices
    outputText,      \* pieces of text in output_text
    outputToolJson,  \* pieces of JSON in output_tool_json
    upstreamUsage,   \* upstream_output_tokens is known
    \* locals of the generator
    phase,           \* where the generator is
    stage,           \* last part visited in the current chunk, 0 if none
    ended,           \* the chunk stream has ended
    events,          \* every event returned by the translator, in order
    yielded,         \* how many of them the client has received
    contentBuffer,   \* pieces of text in content_buffer
    hasToolCalls,    \* has_tool_calls
    logToolIds,      \* keys of log_tool_ids
    logToolNames,    \* keys of log_tool_names
    logToolArgs,     \* pieces of JSON in each entry of log_tool_args
    lastFinishReason,\* last_finish_reason
    logged,          \* the conversation cycle written, NotLogged before
    received         \* chunks and parts received, for the bound

translator == <<blockType, blockIndex, blockOpen, messageStarted, finishEmitted,
                toolBuffer, currentTool, truncated, outputText, outputToolJson,
                upstreamUsage>>
accumulators == <<contentBuffer, hasToolCalls, logToolIds, logToolNames,
                  logToolArgs, lastFinishReason>>
vars == <<translator, phase, stage, ended, events, yielded, accumulators,
          logged, received>>

NoBlock == "none"
NotLogged == [stop |-> NoReason, tools |-> {}, args |-> [t \in Tools |-> 0]]

\* The parts of a choice in the order process_chunk visits them.
TextPart == 1
CallPart == 2
FinishPart == 3
UsagePart == 4

Init ==
    /\ blockType = NoBlock /\ blockIndex = 0 /\ blockOpen = FALSE
    /\ messageStarted = FALSE /\ finishEmitted = FALSE
    /\ toolBuffer = <<>> /\ currentTool = NoTool /\ truncated = {}
    /\ outputText = 0 /\ outputToolJson = 0 /\ upstreamUsage = FALSE
    /\ phase = "pull" /\ stage = 0 /\ ended = FALSE
    /\ events = <<>> /\ yielded = 0
    /\ contentBuffer = 0 /\ hasToolCalls = FALSE
    /\ logToolIds = {} /\ logToolNames = {}
    /\ logToolArgs = [t \in Tools |-> 0] /\ lastFinishReason = NoReason
    /\ logged = NotLogged /\ received = 0
-----------------------------------------------------------------------------
(***************************************************************************)
(* The translator's helpers.                                               *)
(***************************************************************************)
\* The stop event of the open block, if there is one.
CloseBlock == IF blockOpen THEN <<BlockStop(blockIndex)>> ELSE <<>>

\* Slip: the index of the block that was closed is used again.
NextIndexReused == blockIndex

\* The index of a block that starts now.
NextIndex == IF blockOpen THEN blockIndex + 1 ELSE blockIndex

\* compute_output_tokens, for text pieces of text and json pieces of JSON.
OutputTokens(text, json) ==
    [upstream |-> upstreamUsage, text |-> text, json |-> json]

StopReason(reason) ==
    CASE reason = "tool_calls" -> "tool_use"
      [] reason = "stop"       -> "end_turn"
      [] reason = "length"     -> "max_tokens"
      [] OTHER                 -> reason

\* A part of the current chunk is visited: it comes after those visited
\* before (there may be several calls), and the upstream API sends nothing
\* but usage once it gave a finish_reason.
Visit(part) ==
    /\ phase = "chunk" /\ received < MaxInput
    /\ stage < part \/ (stage = CallPart /\ part = CallPart)
    /\ lastFinishReason = NoReason \/ part = UsagePart
    /\ stage' = part
    /\ received' = received + 1
    /\ UNCHANGED <<phase, ended, yielded, logged>>
-----------------------------------------------------------------------------
(***************************************************************************)
(* process_chunk                                                           *)
(***************************************************************************)
\* stream.next() returns a chunk; the first one starts the message.
ReceiveChunk ==
    /\ phase = "pull" /\ received < MaxInput
    /\ phase' = "chunk" /\ stage' = 0
    /\ received' = received + 1
    /\ messageStarted' = TRUE
    /\ events' = IF messageStarted THEN events ELSE Append(events, MessageStart)
    /\ UNCHANGED <<blockType, blockIndex, blockOpen, finishEmitted, toolBuffer,
                   currentTool, truncated, outputText, outputToolJson,
                   upstreamUsage, ended, yielded, accumulators, logged>>

\* handle_text_delta: text closes a tool_use block and opens a text block.
HandleTextDelta ==
    /\ Visit(TextPart)
    /\ LET i == IF blockType = "text" THEN blockIndex ELSE NextIndex
           opening == IF blockType = "text" THEN <<>>
                      ELSE toolBuffer \o CloseBlock
                             \o <<BlockStart(i, "text", NoTool)>>
       IN  /\ events' = events \o opening \o <<BlockDelta(i, "text", NoTool)>>
           /\ blockIndex' = i
    /\ toolBuffer' = IF blockType = "text" THEN toolBuffer ELSE <<>>
    /\ blockType' = "text" /\ blockOpen' = TRUE
    /\ outputText' = outputText + 1
    /\ contentBuffer' = contentBuffer + 1
    /\ UNCHANGED <<messageStarted, finishEmitted, currentTool, truncated,
                   outputToolJson, upstreamUsage, hasToolCalls, logToolIds,
                   logToolNames, logToolArgs, lastFinishReason>>

\* Slip: the start of the new call is sent at once, not held back.
HandleNewToolCallUnbuffered(tool, hasId, hasArgs) ==
    /\ Visit(CallPart)
    /\ tool \notin logToolNames
    /\ events' = events \o toolBuffer \o CloseBlock
                    \o <<BlockStart(NextIndex, "tool_use", tool)>>
    /\ toolBuffer' = IF hasArgs THEN <<BlockDelta(NextIndex, "tool_use", tool)>>
                     ELSE <<>>
    /\ blockIndex' = NextIndex
    /\ blockType' = "tool_use" /\ blockOpen' = TRUE /\ currentTool' = tool
    /\ outputToolJson' = IF hasArgs THEN outputToolJson + 1 ELSE outputToolJson
    /\ hasToolCalls' = TRUE
    /\ logToolIds' = IF hasId THEN logToolIds \cup {tool} ELSE logToolIds
    /\ logToolNames' = logToolNames \cup {tool}
    /\ logToolArgs' = [logToolArgs EXCEPT ![tool] = IF hasArgs THEN 1 ELSE 0]
    /\ UNCHANGED <<messageStarted, finishEmitted, truncated, outputText,
                   upstreamUsage, contentBuffer, lastFinishReason>>

\* handle_tool_call_delta with a function name: a new call completes the
\* previous one, whose buffered events are released; its own are held back.
HandleNewToolCall(tool, hasId, hasArgs) ==
    /\ Visit(CallPart)
    /\ tool \notin logToolNames
    /\ events' = events \o toolBuffer \o CloseBlock
    /\ toolBuffer' = <<BlockStart(NextIndex, "tool_use", tool)>>
                       \o IF hasArgs
                          THEN <<BlockDelta(NextIndex, "tool_use", tool)>>
                          ELSE <<>>
    /\ blockIndex' = NextIndex
    /\ blockType' = "tool_use" /\ blockOpen' = TRUE /\ currentTool' = tool
    /\ outputToolJson' = IF hasArgs THEN outputToolJson + 1 ELSE outputToolJson
    /\ hasToolCalls' = TRUE
    /\ logToolIds' = IF hasId THEN logToolIds \cup {tool} ELSE logToolIds
    /\ logToolNames' = logToolNames \cup {tool}
    /\ logToolArgs' = [logToolArgs EXCEPT ![tool] = IF hasArgs THEN 1 ELSE 0]
    /\ UNCHANGED <<messageStarted, finishEmitted, truncated, outputText,
                   upstreamUsage, contentBuffer, lastFinishReason>>

\* The calls whose arguments may still arrive: the one that is being
\* streamed, or with Interleaving any call that was started.
Continuable ==
    {tool \in logToolNames :
        Interleaving \/ (blockType = "tool_use" /\ tool = currentTool)}

\* handle_tool_call_delta without a name: a fragment of arguments goes to
\* the buffer under the current block index; tc.index is used by the log only.
HandleToolCallArguments(tool) ==
    /\ Visit(CallPart)
    /\ tool \in Continuable
    /\ toolBuffer' = Append(toolBuffer, BlockDelta(blockIndex, "tool_use", tool))
    /\ outputToolJson' = outputToolJson + 1
    /\ logToolArgs' = [logToolArgs EXCEPT ![tool] = @ + 1]
    /\ UNCHANGED <<blockType, blockIndex, blockOpen, messageStarted,
                   finishEmitted, currentTool, truncated, outputText,
                   upstreamUsage, events, contentBuffer, hasToolCalls,
                   logToolIds, logToolNames, lastFinishReason>>

\* handle_finish when the output limit cut a tool call off: its events are
\* dropped, a text block with a notice takes their place.
FinishTruncated(reason) ==
    /\ reason = "length" /\ blockType = "tool_use"
    /\ toolBuffer' = <<>>
    /\ truncated' = truncated \cup {currentTool}
    /\ blockOpen' = FALSE /\ blockType' = NoBlock
    /\ outputToolJson' = 0
    /\ outputText' = outputText + 1
    /\ blockIndex' = blockIndex + 1
    /\ events' = events \o
         <<BlockStart(blockIndex, "text", NoTool),
           BlockDelta(blockIndex, "text", NoTool),
           BlockStop(blockIndex),
           MessageDelta(StopReason(reason), OutputTokens(outputText + 1, 0))>>

\* handle_finish otherwise: the buffer is released and the block closed.
FinishComplete(reason) ==
    /\ ~(reason = "length" /\ blockType = "tool_use")
    /\ toolBuffer' = <<>>
    /\ blockOpen' = FALSE
    /\ events' = events \o toolBuffer \o CloseBlock \o
         <<MessageDelta(StopReason(reason),
                        OutputTokens(outputText, outputToolJson))>>
    /\ UNCHANGED <<blockType, blockIndex, truncated, outputText, outputToolJson>>

HandleFinish(reason) ==
    /\ Visit(FinishPart)
    /\ FinishTruncated(reason) \/ FinishComplete(reason)
    /\ finishEmitted' = TRUE
    /\ lastFinishReason' = reason
    /\ UNCHANGED <<messageStarted, currentTool, upstreamUsage, contentBuffer,
                   hasToolCalls, logToolIds, logToolNames, logToolArgs>>

\* The usage of the chunk is stored after its choices were handled.
CaptureUsage ==
    /\ Visit(UsagePart)
    /\ upstreamUsage' = TRUE
    /\ UNCHANGED <<blockType, blockIndex, blockOpen, messageStarted,
                   finishEmitted, toolBuffer, currentTool, truncated,
                   outputText, outputToolJson, events, accumulators>>

\* process_chunk returns: its events are yielded before the next chunk.
FinishChunk ==
    /\ phase = "chunk"
    /\ phase' = IF yielded < Len(events) THEN "yield" ELSE "pull"
    /\ UNCHANGED <<translator, stage, ended, events, yielded, accumulators,
                   logged, received>>
-----------------------------------------------------------------------------
(***************************************************************************)
(* The generator around the translator.                                    *)
(***************************************************************************)
\* One event is handed to the client.
Yield ==
    /\ phase = "yield"
    /\ yielded' = yielded + 1
    /\ phase' = IF yielded + 1 < Len(events) THEN "yield"
                ELSE IF ended THEN "log" ELSE "pull"
    /\ UNCHANGED <<translator, stage, ended, events, accumulators, logged,
                   received>>

\* The message_delta that is missing when no finish_reason came.
FinalDelta ==
    IF finishEmitted THEN <<>>
    ELSE <<MessageDelta("end_turn", OutputTokens(outputText, outputToolJson))>>

\* Slip: finalize forgets the buffer.
FinalEventsUnflushed == events \o CloseBlock \o FinalDelta \o <<MessageStop>>

\* The events once finalize has returned its own: without a finish_reason a
\* buffered tool call counts as complete.
FinalEvents ==
    events \o toolBuffer \o CloseBlock \o FinalDelta \o <<MessageStop>>

\* The chunk stream is exhausted: finalize closes what is open.
Finalize ==
    /\ phase = "pull" /\ ended' = TRUE
    /\ \/ /\ ~messageStarted
          /\ phase' = "log"
          /\ UNCHANGED <<events, toolBuffer, blockOpen>>
       \/ /\ messageStarted
          /\ phase' = "yield"
          /\ events' = FinalEvents
          /\ toolBuffer' = <<>>
          /\ blockOpen' = FALSE
    /\ UNCHANGED <<blockType, blockIndex, messageStarted, finishEmitted,
                   currentTool, truncated, outputText, outputToolJson,
                   upstreamUsage, stage, yielded, accumulators, logged, received>>

\* Slip: the loop is left without a word.
UpstreamErrorSilent ==
    /\ phase = "pull"
    /\ phase' = "failed"
    /\ UNCHANGED <<translator, stage, ended, events, yielded, accumulators,
                   logged, received>>

\* The chunk stream yields an error: an error event and nothing else.
UpstreamError ==
    /\ phase = "pull"
    /\ phase' = "failed"
    /\ events' = Append(events, ErrorEvent)
    /\ yielded' = yielded + 1
    /\ UNCHANGED <<translator, stage, ended, accumulators, logged, received>>

\* The client goes away: the server drops the generator where it awaits.
ClientDisconnect ==
    /\ phase \in {"pull", "yield", "log"}
    /\ phase' = "dropped"
    /\ UNCHANGED <<translator, stage, ended, events, yielded, accumulators,
                   logged, received>>

\* Slip: calls that were cut off are logged.
LoggedToolsAll == logToolIds \cup logToolNames

\* The tool calls the log shows, and whether they decide the stop reason.
LoggedTools == (logToolIds \cup logToolNames) \ truncated
EffectiveHasToolCalls == hasToolCalls /\ logToolIds \ truncated # {}

\* The conversation cycle is handed to the logger after the last event.
WriteLog ==
    /\ phase = "log"
    /\ phase' = "done"
    /\ logged' =
         [stop  |-> IF EffectiveHasToolCalls THEN "tool_use"
                    ELSE MapStopReason(lastFinishReason),
          tools |-> LoggedTools,
          args  |-> [t \in Tools |-> IF t \in LoggedTools THEN logToolArgs[t]
                                     ELSE 0]]
    /\ UNCHANGED <<translator, stage, ended, events, yielded, accumulators,
                   received>>

ProcessChunk ==
    \/ ReceiveChunk
    \/ HandleTextDelta
    \/ \E tool \in Tools :
         \/ \E hasId, hasArgs \in BOOLEAN : HandleNewToolCall(tool, hasId, hasArgs)
         \/ HandleToolCallArguments(tool)
    \/ \E reason \in FinishReasons : HandleFinish(reason)
    \/ CaptureUsage
    \/ FinishChunk

Terminated == phase \in {"done", "failed", "dropped"}

Next ==
    \/ ProcessChunk
    \/ Yield \/ Finalize \/ UpstreamError \/ ClientDisconnect \/ WriteLog
    \/ Terminated /\ UNCHANGED vars

Spec == Init /\ [][Next]_vars

\* The executor keeps polling the generator, and the upstream body ends.
FairSpec ==
    /\ Spec
    /\ WF_vars(FinishChunk) /\ WF_vars(Yield) /\ WF_vars(WriteLog)
    /\ WF_vars(Finalize \/ UpstreamError)
-----------------------------------------------------------------------------
(***************************************************************************)
(* Properties.                                                             *)
(***************************************************************************)
TypeOK ==
    /\ blockType \in BlockTypes \cup {NoBlock}
    /\ blockIndex \in Nat
    /\ blockOpen \in BOOLEAN
    /\ messageStarted \in BOOLEAN
    /\ finishEmitted \in BOOLEAN
    /\ toolBuffer \in Seq(Event)
    /\ currentTool \in Tools \cup {NoTool}
    /\ truncated \in SUBSET Tools
    /\ outputText \in Nat /\ outputToolJson \in Nat
    /\ upstreamUsage \in BOOLEAN
    /\ phase \in {"pull", "chunk", "yield", "log", "done", "failed", "dropped"}
    /\ stage \in 0 .. 4
    /\ ended \in BOOLEAN
    /\ events \in Seq(Event)
    /\ yielded \in Nat
    /\ contentBuffer \in Nat
    /\ hasToolCalls \in BOOLEAN
    /\ logToolIds \in SUBSET Tools /\ logToolNames \in SUBSET Tools
    /\ logToolArgs \in [Tools -> Nat]
    /\ lastFinishReason \in FinishReasons \cup {NoReason}
    /\ logged \in [stop : StopReasons \cup {"tool_calls", NoReason},
                   tools : SUBSET Tools, args : [Tools -> Nat]]
    /\ received \in Nat

\* The last event the client has received.
LastReceived == IF yielded = 0 THEN NoEvent ELSE events[yielded]

\* What the client receives is a stream of the Anthropic protocol: blocks are
\* numbered without gaps, opened, continued and closed one at a time, the
\* arguments of a call stay in its own block, message_stop comes after
\* message_delta and an error ends the stream (process_chunk, finalize).
Client == INSTANCE AnthropicStream WITH last <- LastReceived
AnthropicProtocol == Client!Spec

\* The events in which a tool call shows, and those that carry its arguments.
EventsOf(tool) ==
    {i \in 1 .. Len(events) :
        /\ events[i].kind \in {"content_block_start", "content_block_delta"}
        /\ events[i].tool = tool}
DeltasOf(tool) == {i \in EventsOf(tool) : events[i].kind = "content_block_delta"}
FinishEvents == {i \in 1 .. Len(events) : events[i].kind = "message_delta"}

\* A tool call that the output limit cut off never reaches the client, not
\* even in part, and the client is told max_tokens, so that it neither runs
\* an incomplete call nor takes the answer for complete (handle_finish).
TruncatedNeverSent ==
    /\ \A tool \in truncated : EventsOf(tool) = {}
    /\ truncated # {} =>
         \A i \in FinishEvents : events[i].stop = "max_tokens"

\* A tool call is released only once it is complete: no argument of it
\* arrives after one of its events was released (tool_use_buffer).
ReleasedWhenComplete ==
    [][\A tool \in Tools :
         EventsOf(tool) # {} => logToolArgs'[tool] = logToolArgs[tool]]_vars

\* The answer in the conversation log, which the generator accumulates on its
\* own, has the tool calls, argument pieces and texts the client received; a
\* truncated call is in neither, its notice only in the client's answer.
LogMatchesWire ==
    phase = "done" =>
      /\ \A tool \in Tools :
           /\ tool \in logged.tools <=> EventsOf(tool) # {}
           /\ Cardinality(DeltasOf(tool)) = logged.args[tool]
           /\ Cardinality(EventsOf(tool) \ DeltasOf(tool)) <= 1
      /\ Cardinality(DeltasOf(NoTool)) = contentBuffer + Cardinality(truncated)
      /\ yielded = Len(events)

\* Every tool call the upstream API began is sent, replaced by a notice, or
\* given up with the whole stream: none stays in the buffer (finalize).
EveryCallResolved ==
    \A tool \in Tools :
      tool \in logToolNames ~>
        \/ \E i \in EventsOf(tool) : i <= yielded
        \/ tool \in truncated
        \/ phase \in {"failed", "dropped"}

\* The generator ends, and unless the client left or nothing ever arrived
\* the last event the client has is message_stop or error.
StreamEnds ==
    <>[](\/ LastReceived.kind \in {"message_stop", "error"}
         \/ phase = "dropped"
         \/ phase = "done" /\ ~messageStarted)
=============================================================================
