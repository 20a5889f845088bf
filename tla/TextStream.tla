----------------------------- MODULE TextStream -----------------------------
(***************************************************************************)
(* A streamed answer without native tools, the two generators of           *)
(* handle_streaming and handle_streaming_with_tools.                       *)
(*                                                                         *)
(* Without tools (parseTools = FALSE) each text is passed on when it       *)
(* arrives, in one block that is opened by the first of them.  With tools  *)
(* injected as XML the whole answer is buffered; when it has ended the     *)
(* calls are parsed out of the text and sent after what is left of it.     *)
(*                                                                         *)
(* The upstream API was offered no tools, so it reports no tool_calls as   *)
(* finish_reason.  A text is a sequence of pieces: Text, which stands for  *)
(* prose, Empty, or the XML of one call, named and as a whole, because the *)
(* buffer does not remember where one chunk ended.  All calls of an answer *)
(* are written in the same form (parse_invokes expects as much), so that   *)
(* they are found in the order of the text.                                *)
(***************************************************************************)
EXTENDS StreamEvents, Sequences, FiniteSets

CONSTANTS
    Nothing,   \* a chunk without text
    Text,      \* a piece of text that is no call
    Empty,     \* an empty piece
    Wrapped,   \* the calls inside of a <function_calls> element
    MaxInput   \* bound: chunks with text the upstream API sends

Pieces == Tools \cup {Text, Empty}
TextReasons == FinishReasons \ {"tool_calls"}

ASSUME TextAssumption ==
    /\ Nothing \notin Pieces /\ Text \notin Tools /\ Empty \notin Tools
    /\ Text # Empty
    /\ Wrapped \subseteq Tools
    /\ MaxInput \in Nat

VARIABLES
    parseTools,      \* parse_tools: the request had tools
    phase,           \* where the generator is
    resume,          \* where it goes on after its yields
    events,          \* the events made so far
    yielded,         \* how many of them the client has received
    messageStarted,  \* message_started
    blockOpened,     \* content_block_opened
    content,         \* content_buffer
    finishReason,    \* the last finish_reason
    calls,           \* tool_calls, once they are parsed: places in content
    sent,            \* the last one that was made into a block, 0 if none
    blockIndex,      \* block_index
    logged           \* the conversation cycle written, NotLogged before

vars == <<parseTools, phase, resume, events, yielded, messageStarted,
          blockOpened, content, finishReason, calls, sent, blockIndex, logged>>
parsing == <<calls, sent, blockIndex>>

NotLogged == [stop |-> NoReason, text |-> 0, calls |-> {}]

Init ==
    /\ parseTools \in BOOLEAN
    /\ phase = "pull" /\ resume = "pull"
    /\ events = <<>> /\ yielded = 0
    /\ messageStarted = FALSE /\ blockOpened = FALSE
    /\ content = <<>> /\ finishReason = NoReason
    /\ calls = {} /\ sent = 0 /\ blockIndex = 0
    /\ logged = NotLogged

\* The next events are yielded, then the generator goes on.
Send(more, next) ==
    /\ events' = events \o more
    /\ resume' = next
    /\ phase' = IF more = <<>> THEN next ELSE "yield"
    /\ UNCHANGED <<parseTools, yielded, logged>>

TextDelta(n) == BlockDelta(n, "text", NoTool)

\* count_output_tokens of the whole buffer.
Estimate == [upstream |-> FALSE, text |-> Len(content), json |-> 0]
-----------------------------------------------------------------------------
(***************************************************************************)
(* While chunks arrive.                                                    *)
(***************************************************************************)
\* Remembering a chunk: its text and its finish_reason; a call occurs once.
Accumulate(piece, reason) ==
    /\ Len(content) < MaxInput
    /\ piece \in Tools => \A i \in 1 .. Len(content) : content[i] # piece
    /\ content' = IF piece = Nothing THEN content ELSE Append(content, piece)
    /\ finishReason' = IF reason = NoReason THEN finishReason ELSE reason

\* A chunk without tool parsing: message and block are opened when they are
\* needed, an empty text is passed on, too.
PassOn(piece, reason) ==
    /\ phase = "pull" /\ ~parseTools
    /\ Accumulate(piece, reason)
    /\ Send((IF messageStarted THEN <<>> ELSE <<MessageStart>>) \o
            (IF piece = Nothing THEN <<>>
             ELSE (IF blockOpened THEN <<>>
                   ELSE <<BlockStart(0, "text", NoTool)>>) \o <<TextDelta(0)>>),
            "pull")
    /\ messageStarted' = TRUE
    /\ blockOpened' = (blockOpened \/ piece # Nothing)
    /\ UNCHANGED parsing

\* Slip: the buffering path passes its first text on.
BufferLeaks(piece, reason) ==
    /\ phase = "pull" /\ parseTools
    /\ Accumulate(piece, reason)
    /\ IF content = <<>> /\ piece # Nothing
       THEN Send(<<MessageStart, BlockStart(0, "text", NoTool)>>, "pull")
       ELSE UNCHANGED <<phase, resume, events, yielded, parseTools, logged>>
    /\ UNCHANGED <<messageStarted, blockOpened, parsing>>

\* A chunk with tool parsing.
Buffer(piece, reason) ==
    /\ phase = "pull" /\ parseTools
    /\ Accumulate(piece, reason)
    /\ UNCHANGED <<parseTools, phase, resume, events, yielded, messageStarted,
                   blockOpened, parsing, logged>>

\* Slip: an error of the stream ends it like its end.
UpstreamErrorIgnored ==
    /\ phase = "pull"
    /\ Send(<<>>, "log")
    /\ UNCHANGED <<messageStarted, blockOpened, content, finishReason, parsing>>

\* An error of the stream is the last event.
UpstreamError ==
    /\ phase = "pull"
    /\ Send(<<ErrorEvent>>, "failed")
    /\ UNCHANGED <<messageStarted, blockOpened, content, finishReason, parsing>>
-----------------------------------------------------------------------------
(***************************************************************************)
(* When the stream has ended.                                              *)
(***************************************************************************)
Finale(stop) == <<MessageDelta(stop, Estimate), MessageStop>>

\* Without tool parsing: what was opened is closed.
Close ==
    /\ phase = "pull" /\ ~parseTools
    /\ Send((IF blockOpened THEN <<BlockStop(0)>> ELSE <<>>) \o
            (IF messageStarted THEN Finale(MapStopReason(finishReason))
             ELSE <<>>), "log")
    /\ UNCHANGED <<messageStarted, blockOpened, content, finishReason, parsing>>

\* Where in the text these pieces are.
PositionsOf(pieces) == {i \in 1 .. Len(content) : content[i] \in pieces}

\* parse_tool_calls: the calls in a wrapper, or when there are none the
\* standalone ones.
Found == IF PositionsOf(Wrapped) # {} THEN PositionsOf(Wrapped)
         ELSE PositionsOf(Tools)

\* strip_tool_calls removes every call, the ones that were not found, too.
Stripped == PositionsOf({Text})

\* The message starts, with a block for what is left of the text.
Parse ==
    /\ phase = "pull" /\ parseTools
    /\ calls' = Found
    /\ Send(<<MessageStart>> \o
            (IF Stripped = {} THEN <<>>
             ELSE <<BlockStart(0, "text", NoTool), TextDelta(0), BlockStop(0)>>),
            "calls")
    /\ blockIndex' = IF Stripped = {} THEN 0 ELSE 1
    /\ UNCHANGED <<messageStarted, blockOpened, content, finishReason, sent>>

\* The calls still to be sent, and the first of them.
Unsent == {i \in calls : i > sent}
IsNext(i) == i \in Unsent /\ \A j \in Unsent : i <= j

CallBlock(tool) == <<BlockStart(blockIndex, "tool_use", tool),
                     BlockDelta(blockIndex, "tool_use", tool),
                     BlockStop(blockIndex)>>

\* Slip: block_index is not advanced.
SendCallSameIndex(i) ==
    /\ phase = "calls" /\ IsNext(i)
    /\ Send(CallBlock(content[i]), "calls")
    /\ sent' = i
    /\ UNCHANGED <<messageStarted, blockOpened, content, finishReason, calls,
                   blockIndex>>

\* One round of the loop over tool_calls, a block with all its arguments.
SendCall(i) ==
    /\ phase = "calls" /\ IsNext(i)
    /\ Send(CallBlock(content[i]), "calls")
    /\ sent' = i /\ blockIndex' = blockIndex + 1
    /\ UNCHANGED <<messageStarted, blockOpened, content, finishReason, calls>>

\* The stop reason of a parsed answer.
StopReason ==
    IF calls # {} THEN "tool_use" ELSE MapStopReason(finishReason)

FinishCalls ==
    /\ phase = "calls" /\ Unsent = {}
    /\ Send(Finale(StopReason), "log")
    /\ UNCHANGED <<messageStarted, blockOpened, content, finishReason, parsing>>

\* Slip: the log gets the upstream stop reason.
WriteLogUpstream ==
    /\ phase = "log"
    /\ phase' = "done"
    /\ logged' = [stop  |-> MapStopReason(finishReason),
                  text  |-> IF parseTools THEN Cardinality(Stripped) ELSE Len(content),
                  calls |-> {content[i] : i \in calls}]
    /\ UNCHANGED <<parseTools, resume, events, yielded, messageStarted,
                   blockOpened, content, finishReason, parsing>>

\* The conversation cycle is handed to the logger after the last event.
WriteLog ==
    /\ phase = "log"
    /\ phase' = "done"
    /\ logged' = [stop  |-> StopReason,
                  text  |-> IF parseTools THEN Cardinality(Stripped) ELSE Len(content),
                  calls |-> {content[i] : i \in calls}]
    /\ UNCHANGED <<parseTools, resume, events, yielded, messageStarted,
                   blockOpened, content, finishReason, parsing>>
-----------------------------------------------------------------------------
\* One event is handed to the client.
Yield ==
    /\ phase = "yield"
    /\ yielded' = yielded + 1
    /\ phase' = IF yielded + 1 < Len(events) THEN "yield" ELSE resume
    /\ UNCHANGED <<parseTools, resume, events, messageStarted, blockOpened,
                   content, finishReason, parsing, logged>>

\* The client goes away: the server drops the generator where it awaits.
ClientDisconnect ==
    /\ phase \in {"pull", "yield"}
    /\ phase' = "dropped"
    /\ UNCHANGED <<parseTools, resume, events, yielded, messageStarted,
                   blockOpened, content, finishReason, parsing, logged>>

EndOfStream == Close \/ Parse

Terminated == phase \in {"done", "failed", "dropped"}

Next ==
    \/ \E piece \in Pieces \cup {Nothing}, reason \in TextReasons \cup {NoReason} :
         PassOn(piece, reason) \/ Buffer(piece, reason)
    \/ UpstreamError \/ EndOfStream
    \/ \E i \in calls : SendCall(i)
    \/ FinishCalls \/ WriteLog
    \/ Yield \/ ClientDisconnect
    \/ Terminated /\ UNCHANGED vars

Spec == Init /\ [][Next]_vars

\* The executor keeps polling the generator, and the upstream body ends.
FairSpec ==
    /\ Spec
    /\ WF_vars(Yield) /\ WF_vars(\E i \in calls : SendCall(i))
    /\ WF_vars(FinishCalls) /\ WF_vars(WriteLog)
    /\ WF_vars(EndOfStream \/ UpstreamError)
-----------------------------------------------------------------------------
(***************************************************************************)
(* Properties.                                                             *)
(***************************************************************************)
TypeOK ==
    /\ parseTools \in BOOLEAN
    /\ phase \in {"pull", "yield", "calls", "log", "done", "failed", "dropped"}
    /\ resume \in {"pull", "calls", "log", "failed"}
    /\ events \in Seq(Event)
    /\ yielded \in Nat
    /\ messageStarted \in BOOLEAN /\ blockOpened \in BOOLEAN
    /\ content \in Seq(Pieces)
    /\ finishReason \in TextReasons \cup {NoReason}
    /\ calls \in SUBSET PositionsOf(Tools)
    /\ sent \in Nat /\ blockIndex \in Nat
    /\ logged \in [stop : StopReasons \cup {NoReason}, text : Nat,
                   calls : SUBSET Tools]

\* The last event the client has received.
LastReceived == IF yielded = 0 THEN NoEvent ELSE events[yielded]

\* What the client receives is a stream of the Anthropic protocol, although
\* message and block are opened in one place and closed in another
\* (handle_streaming), and whatever calls are found (.._with_tools).
Client == INSTANCE AnthropicStream WITH last <- LastReceived
AnthropicProtocol == Client!Spec

\* With tools the client gets a whole answer or an error alone, so that it
\* never runs a call of an answer that failed later (.._with_tools buffers).
WholeOrNothing ==
    parseTools =>
      /\ phase = "pull" => events = <<>>
      /\ \A i \in 1 .. Len(events) : events[i] = ErrorEvent => events = <<ErrorEvent>>

\* The starts of the blocks of calls, and the texts, that were sent.
CallStarts == {i \in 1 .. Len(events) :
    events[i].kind = "content_block_start" /\ events[i].tool # NoTool}
TextDeltas == {i \in 1 .. Len(events) :
    events[i].kind = "content_block_delta" /\ events[i].tool = NoTool}

\* The log shows the answer the client received: its calls, each sent once,
\* whether there was text, and the stop reason it was told.
LogMatchesWire ==
    phase = "done" /\ events # <<>> =>
      /\ yielded = Len(events)
      /\ logged.calls = {events[i].tool : i \in CallStarts}
      /\ Cardinality(CallStarts) = Cardinality(calls)
      /\ IF parseTools THEN logged.text # 0 <=> TextDeltas # {}
         ELSE logged.text = Cardinality(TextDeltas)
      /\ \A i \in 1 .. Len(events) :
           events[i].kind = "message_delta" => events[i].stop = logged.stop

\* The generator ends, and unless the client left or nothing ever arrived
\* the last event the client has is message_stop or error.
StreamEnds ==
    <>[](\/ LastReceived.kind \in {"message_stop", "error"}
         \/ phase = "dropped"
         \/ phase = "done" /\ ~parseTools /\ ~messageStarted)
=============================================================================
