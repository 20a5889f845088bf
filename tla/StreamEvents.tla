---------------------------- MODULE StreamEvents ----------------------------
(***************************************************************************)
(* The Server-Sent Events of a streamed answer, and the order the          *)
(* Anthropic Messages protocol puts them in:                               *)
(*                                                                         *)
(*   message_start                                                         *)
(*     ( content_block_start  content_block_delta*  content_block_stop )*  *)
(*   message_delta  message_stop                                           *)
(*                                                                         *)
(* with blocks numbered 0, 1, 2, ..., never two of them open, and an error *)
(* event that may cut the stream short at any point.  The event kinds are  *)
(* the variants of StreamEvent, and the "error" event that the streaming   *)
(* handlers write themselves.  A text or a piece of argument JSON is not   *)
(* spelled out: an event says which tool call it belongs to.               *)
(***************************************************************************)
EXTENDS Naturals

CONSTANTS
    Tools,    \* the indices that distinguish the tool calls of one answer
    NoTool,   \* stands for "no tool call", in text blocks
    NoReason  \* no finish_reason, and the stop_reason null

BlockTypes == {"text", "tool_use"}

\* A finish_reason as the upstream API reports it.
FinishReasons == {"tool_calls", "stop", "length", "content_filter"}

\* The stop_reason of the Anthropic API; an unknown reason is passed through.
StopReasons == {"tool_use", "end_turn", "max_tokens", "content_filter"}

ASSUME EventsAssumption ==
    /\ NoTool \notin Tools
    /\ NoReason \notin FinishReasons \cup StopReasons

\* map_stop_reason, which leaves "tool_calls" as it is.
MapStopReason(reason) ==
    CASE reason = "stop"   -> "end_turn"
      [] reason = "length" -> "max_tokens"
      [] OTHER             -> reason

\* Where the output token count of a message_delta comes from: the upstream
\* API, or an estimate over so many pieces of text and of tool-argument JSON.
Usage == [upstream : BOOLEAN, text : Nat, json : Nat]

NoEvent           == [kind |-> "none"]
MessageStart      == [kind |-> "message_start"]
BlockStart(i, t, o) ==
    [kind |-> "content_block_start", index |-> i, type |-> t, tool |-> o]
BlockDelta(i, t, o) ==
    [kind |-> "content_block_delta", index |-> i, type |-> t, tool |-> o]
BlockStop(i)      == [kind |-> "content_block_stop", index |-> i]
MessageDelta(r, u) == [kind |-> "message_delta", stop |-> r, usage |-> u]
MessageStop       == [kind |-> "message_stop"]
ErrorEvent        == [kind |-> "error"]

BlockEvent == [kind : {"content_block_start", "content_block_delta"},
               index : Nat, type : BlockTypes, tool : Tools \cup {NoTool}]
StopEvent  == [kind : {"content_block_stop"}, index : Nat]
DeltaEvent == [kind : {"message_delta"}, stop : StopReasons \cup {NoReason},
               usage : Usage]
Event == BlockEvent \cup StopEvent \cup DeltaEvent
           \cup {MessageStart, MessageStop, ErrorEvent}

\* A tool_use block belongs to one tool call, a text block to none.
Coherent(e) == (e.type = "tool_use") <=> (e.tool # NoTool)

(***************************************************************************)
(* Which event f may come directly after e.                                *)
(***************************************************************************)
StartsMessage(e, f) == e = NoEvent /\ f = MessageStart

StartsBlock(e, f) ==
    /\ \/ e.kind = "message_start" /\ f.index = 0
       \/ e.kind = "content_block_stop" /\ f.index = e.index + 1
    /\ Coherent(f)

ContinuesBlock(e, f) ==
    /\ e.kind \in {"content_block_start", "content_block_delta"}
    /\ f = BlockDelta(e.index, e.type, e.tool)

StopsBlock(e, f) ==
    /\ e.kind \in {"content_block_start", "content_block_delta"}
    /\ f.index = e.index

FinishesMessage(e, f) == e.kind \in {"message_start", "content_block_stop"}

StopsMessage(e, f) == e.kind = "message_delta"

Fails(e, f) == e.kind \notin {"message_stop", "error"}

Follows(e, f) ==
    \/ f.kind = "message_start"       /\ StartsMessage(e, f)
    \/ f.kind = "content_block_start" /\ StartsBlock(e, f)
    \/ f.kind = "content_block_delta" /\ ContinuesBlock(e, f)
    \/ f.kind = "content_block_stop"  /\ StopsBlock(e, f)
    \/ f.kind = "message_delta"       /\ FinishesMessage(e, f)
    \/ f.kind = "message_stop"        /\ StopsMessage(e, f)
    \/ f.kind = "error"               /\ Fails(e, f)
=============================================================================
