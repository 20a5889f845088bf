------------------------ MODULE StreamingState_proofs ------------------------
(***************************************************************************)
(* Proofs about StreamingState, for any set of tool calls and any bound on *)
(* the input: type correctness and, when the upstream API sends the        *)
(* arguments of one call after the other (Interleaving = FALSE), that the  *)
(* client receives a stream of the Anthropic protocol, that calls cut off  *)
(* by the limit are not sent and complete ones are, and that the log says  *)
(* what was sent.  Last, how a stream ends: with message_stop or an error, *)
(* after a bounded number of steps.                                        *)
(***************************************************************************)
EXTENDS StreamingState, StreamEvents_proofs

\* The last event returned, and the one once the buffer is released too.
LastSent == EndOf(NoEvent, events)
LastOfBuffer == EndOf(LastSent, toolBuffer)

Translating == phase \in {"pull", "chunk", "yield"} /\ ~ended

\* How the fields of StreamingState describe the events sent so far.
BeforeMessage ==
    /\ events = <<>> /\ toolBuffer = <<>> /\ ~finishEmitted
    /\ ~blockOpen /\ blockType = NoBlock /\ blockIndex = 0

BeforeBlocks ==
    /\ LastSent = MessageStart /\ toolBuffer = <<>>
    /\ ~blockOpen /\ blockType = NoBlock /\ blockIndex = 0

InText ==
    /\ blockOpen /\ blockType = "text" /\ toolBuffer = <<>>
    /\ LastSent = BlockDelta(blockIndex, "text", NoTool)

InToolUse ==
    /\ blockOpen /\ blockType = "tool_use" /\ currentTool \in Tools
    /\ ReadyFor(LastSent, blockIndex)
    /\ LastOfBuffer \in {BlockStart(blockIndex, "tool_use", currentTool),
                         BlockDelta(blockIndex, "tool_use", currentTool)}

Finished ==
    /\ ~blockOpen /\ toolBuffer = <<>>
    /\ LastSent.kind = "message_delta"

TranslatorInv ==
    IF ~messageStarted THEN BeforeMessage
    ELSE IF finishEmitted THEN Finished
    ELSE BeforeBlocks \/ InText \/ InToolUse

StreamInv ==
    /\ Continues(NoEvent, events)
    /\ phase \in {"pull", "chunk"} => ~ended
    /\ yielded <= Len(events)
    /\ phase = "pull" => yielded = Len(events)
    /\ phase = "yield" => yielded < Len(events)
    /\ phase = "chunk" => messageStarted
    /\ finishEmitted <=> lastFinishReason # NoReason
    /\ Translating => TranslatorInv /\ Continues(LastSent, toolBuffer)
\* A stop reason is made of every finish reason.
LEMMA StopReasonTyping == \A r \in FinishReasons : StopReason(r) \in StopReasons
BY DEF FinishReasons, StopReasons, StopReason

-----------------------------------------------------------------------------
(***************************************************************************)
(* Type correctness.                                                       *)
(***************************************************************************)
\* The events of a closed block or of the end of a message are sequences.
LEMMA CloseBlockTyping == TypeOK => CloseBlock \in Seq(Event) /\ NextIndex \in Nat
BY EventTyping DEF TypeOK, CloseBlock, NextIndex

LEMMA UsageTyping ==
  TypeOK => \A t, j \in Nat : OutputTokens(t, j) \in Usage
BY DEF TypeOK, OutputTokens, Usage

\* The stop reason of the log, and the argument counts of some tools.
LEMMA LoggedTyping ==
  TypeOK =>
    /\ MapStopReason(lastFinishReason) \in StopReasons \cup {"tool_calls", NoReason}
    /\ \A S \in SUBSET Tools :
         [t \in Tools |-> IF t \in S THEN logToolArgs[t] ELSE 0] \in [Tools -> Nat]
<1> SUFFICES ASSUME TypeOK
             PROVE  /\ MapStopReason(lastFinishReason)
                          \in StopReasons \cup {"tool_calls", NoReason}
                    /\ \A S \in SUBSET Tools :
                         [t \in Tools |-> IF t \in S THEN logToolArgs[t] ELSE 0]
                           \in [Tools -> Nat]
  OBVIOUS
<1>1. MapStopReason(lastFinishReason) \in StopReasons \cup {"tool_calls", NoReason}
  BY DEF TypeOK, MapStopReason, StopReasons, FinishReasons
<1> QED
  BY <1>1 DEF TypeOK

\* A tool_use block is always the one of a tool call.
TypeInv == TypeOK /\ (blockType = "tool_use" => currentTool \in Tools)

\* TypeInv is inductive.
LEMMA TypeInvariant == Spec => []TypeInv
<1>1. Init => TypeInv
  <2>1. <<>> \in Seq(Event) /\ Len(<<>>) = 0
    OBVIOUS
  <2>2. [t \in Tools |-> 0] \in [Tools -> Nat]
    OBVIOUS
  <2>3. NotLogged \in [stop : StopReasons \cup {"tool_calls", NoReason},
                       tools : SUBSET Tools, args : [Tools -> Nat]]
    BY <2>2 DEF NotLogged
  <2>4. 0 \in 0 .. 4 /\ 0 \in Nat /\ {} \in SUBSET Tools
    OBVIOUS
  <2> QED
    BY <2>1, <2>2, <2>3, <2>4 DEF Init, TypeOK, TypeInv, NoBlock
<1>2. TypeInv /\ [Next]_vars => TypeInv'
  <2> SUFFICES ASSUME TypeInv, [Next]_vars
               PROVE  TypeInv'
    OBVIOUS
  <2> USE DEF TypeInv
  <2>0. TextPart \in 0 .. 4 /\ CallPart \in 0 .. 4 /\ FinishPart \in 0 .. 4
    BY DEF TextPart, CallPart, FinishPart
  <2>1. CASE ReceiveChunk
    BY <2>1, EventTyping, AppendProperties DEF ReceiveChunk, TypeOK, accumulators
  <2>2. CASE HandleTextDelta
    <3>1. (blockType # "text" => NextIndex \in Nat) /\ blockIndex \in Nat
      BY CloseBlockTyping DEF TypeOK
    <3> DEFINE i == IF blockType = "text" THEN blockIndex ELSE NextIndex
               opening == IF blockType = "text" THEN <<>>
                          ELSE toolBuffer \o CloseBlock
                                 \o <<BlockStart(i, "text", NoTool)>>
    <3>2. i \in Nat
      BY <3>1
    <3>3. <<BlockStart(i, "text", NoTool)>> \in Seq(Event)
          /\ <<BlockDelta(i, "text", NoTool)>> \in Seq(Event)
      BY <3>2, EventTyping, OneEvent DEF BlockTypes
    <3>4. opening \in Seq(Event)
      <4> HIDE DEF i
      <4> QED
        BY <3>3, CloseBlockTyping, ConcatProperties DEF TypeOK
    <3>5. events' \in Seq(Event)
      <4>1. events' = events \o opening \o <<BlockDelta(i, "text", NoTool)>>
        BY <2>2 DEF HandleTextDelta
      <4> HIDE DEF i, opening
      <4> QED
        BY <3>3, <3>4, <4>1, ConcatProperties DEF TypeOK
    <3>6. blockIndex' \in Nat
      BY <2>2, <3>2 DEF HandleTextDelta
    <3> QED
      BY <2>2, <3>5, <3>6 DEF HandleTextDelta, Visit, TypeOK, BlockTypes, TextPart
  <2>3. ASSUME NEW tool \in Tools, NEW hasId \in BOOLEAN, NEW hasArgs \in BOOLEAN,
               HandleNewToolCall(tool, hasId, hasArgs)
        PROVE  TypeInv'
    <3> DEFINE first == BlockStart(NextIndex, "tool_use", tool)
               delta == BlockDelta(NextIndex, "tool_use", tool)
    <3>1. first \in Event /\ delta \in Event
      BY CloseBlockTyping, EventTyping DEF BlockTypes
    <3>2. toolBuffer' \in Seq(Event)
      <4>1. toolBuffer' = <<first>> \o (IF hasArgs THEN <<delta>> ELSE <<>>)
        BY <2>3 DEF HandleNewToolCall
      <4> HIDE DEF first, delta
      <4> QED
        BY <3>1, <4>1, ConcatProperties
    <3>3. events' \in Seq(Event)
      BY <2>3, CloseBlockTyping, ConcatProperties 
      DEF HandleNewToolCall, TypeOK
    <3> QED
      BY <2>3, <3>2, <3>3, CloseBlockTyping
      DEF HandleNewToolCall, Visit, TypeOK, BlockTypes, CallPart
  <2>4. ASSUME NEW tool \in Tools, HandleToolCallArguments(tool)
        PROVE  TypeInv'
    <3>1. toolBuffer' \in Seq(Event)
      BY <2>4, EventTyping, AppendProperties
      DEF HandleToolCallArguments, TypeOK, BlockTypes
    <3> QED
      BY <2>4, <3>1 DEF HandleToolCallArguments, Visit, TypeOK, CallPart
  <2>5. ASSUME NEW reason \in FinishReasons, HandleFinish(reason)
        PROVE  TypeInv'
    <3>0. /\ stage' \in 0 .. 4 /\ received' \in Nat
          /\ UNCHANGED <<phase, ended, yielded, logged>>
          /\ finishEmitted' = TRUE /\ lastFinishReason' = reason
          /\ UNCHANGED <<messageStarted, currentTool, upstreamUsage, contentBuffer,
                         hasToolCalls, logToolIds, logToolNames, logToolArgs>>
      BY <2>0, <2>5 DEF HandleFinish, Visit, TypeOK
    <3>1. CASE FinishTruncated(reason)
      <4> DEFINE start == BlockStart(blockIndex, "text", NoTool)
                 delta == BlockDelta(blockIndex, "text", NoTool)
                 stop == BlockStop(blockIndex)
                 last == MessageDelta(StopReason(reason),
                                      OutputTokens(outputText + 1, 0))
      <4>1. /\ start \in Event /\ delta \in Event
            /\ stop \in Event /\ last \in Event
        <5>1. OutputTokens(outputText + 1, 0) \in Usage
          BY UsageTyping DEF TypeOK
        <5> QED
          BY <5>1, EventTyping, StopReasonTyping DEF TypeOK, BlockTypes
      <4>2. events' = events \o <<start, delta, stop, last>>
        BY <3>1 DEF FinishTruncated
      <4>3. events' \in Seq(Event)
        <5> HIDE DEF start, delta, stop, last
        <5> QED
          BY <4>1, <4>2, ConcatProperties DEF TypeOK
      <4>4. /\ blockType' = NoBlock /\ blockIndex' \in Nat /\ blockOpen' = FALSE
            /\ toolBuffer' \in Seq(Event) /\ truncated' \in SUBSET Tools
            /\ outputText' \in Nat /\ outputToolJson' \in Nat
        BY <3>1, NoEvents DEF FinishTruncated, TypeOK
      <4> QED
        BY <3>0, <4>3, <4>4 DEF TypeOK, NoBlock
    <3>2. CASE FinishComplete(reason)
      <4> DEFINE last == MessageDelta(StopReason(reason),
                                      OutputTokens(outputText, outputToolJson))
      <4>1. last \in Event
        BY EventTyping, StopReasonTyping, UsageTyping DEF TypeOK
      <4>2. events' = events \o toolBuffer \o CloseBlock \o <<last>>
        BY <3>2 DEF FinishComplete
      <4>3. events' \in Seq(Event)
        <5> HIDE DEF last
        <5> QED
          BY <4>1, <4>2, CloseBlockTyping, ConcatProperties DEF TypeOK
      <4>4. /\ blockType' = blockType /\ blockIndex' \in Nat /\ blockOpen' = FALSE
            /\ toolBuffer' \in Seq(Event) /\ truncated' \in SUBSET Tools
            /\ outputText' \in Nat /\ outputToolJson' \in Nat
        BY <3>2, NoEvents DEF FinishComplete, TypeOK
      <4> QED
        BY <3>0, <4>3, <4>4 DEF TypeOK
    <3> QED
      BY <2>5, <3>1, <3>2 DEF HandleFinish
  <2>6. CASE CaptureUsage
    BY <2>6 DEF CaptureUsage, Visit, TypeOK, UsagePart, accumulators
  <2>7. CASE FinishChunk
    BY <2>7 DEF FinishChunk, TypeOK, translator, accumulators
  <2>8. CASE Yield
    BY <2>8 DEF Yield, TypeOK, translator, accumulators
  <2>9. CASE Finalize
    <3> DEFINE last == MessageDelta("end_turn",
                                    OutputTokens(outputText, outputToolJson))
               closing == IF finishEmitted THEN <<>> ELSE <<last>>
    <3>1. last \in Event /\ MessageStop \in Event
      BY EventTyping, UsageTyping DEF TypeOK, StopReasons
    <3>2. closing \in Seq(Event) /\ <<MessageStop>> \in Seq(Event)
      BY <3>1, OneEvent
    <3>3. \/ events' = events
          \/ events' = events \o toolBuffer \o CloseBlock \o closing
                         \o <<MessageStop>>
      BY <2>9 DEF Finalize, FinalEvents, FinalDelta
    <3>4. events' \in Seq(Event)
      <4> HIDE DEF last, closing
      <4> QED
        <5>1. events \o toolBuffer \in Seq(Event) /\ CloseBlock \in Seq(Event)
          BY CloseBlockTyping, ConcatProperties DEF TypeOK
        <5>2. (events \o toolBuffer \o CloseBlock) \o closing \in Seq(Event)
          BY <3>2, <5>1, ConcatProperties
        <5>3. (events \o toolBuffer \o CloseBlock \o closing) \o <<MessageStop>>
                \in Seq(Event)
          BY <3>2, <5>2, ConcatProperties
        <5> QED
          BY <3>3, <5>3 DEF TypeOK
    <3> QED
      BY <2>9, <3>4, NoEvents DEF Finalize, FinalEvents, FinalDelta, TypeOK, accumulators
  <2>10. CASE UpstreamError
    BY <2>10, EventTyping, AppendProperties
    DEF UpstreamError, TypeOK, translator, accumulators
  <2>11. CASE ClientDisconnect
    BY <2>11 DEF ClientDisconnect, TypeOK, translator, accumulators
  <2>12. CASE WriteLog
    <3>1. logged' \in [stop : StopReasons \cup {"tool_calls", NoReason},
                       tools : SUBSET Tools, args : [Tools -> Nat]]
      <4>1. LoggedTools \in SUBSET Tools
        BY DEF TypeOK, LoggedTools
      <4>2. "tool_use" \in StopReasons
        BY DEF StopReasons
      <4> QED
        BY <2>12, <4>1, <4>2, LoggedTyping DEF WriteLog
    <3> QED
      BY <2>12, <3>1 DEF WriteLog, TypeOK, translator, accumulators
  <2>13. CASE UNCHANGED vars
    BY <2>13 DEF vars, translator, accumulators, TypeOK
  <2> QED
    BY <2>1, <2>2, <2>3, <2>4, <2>5, <2>6, <2>7, <2>8, <2>9, <2>10, <2>11,
       <2>12, <2>13 DEF Next, ProcessChunk, Terminated
<1> QED
  BY <1>1, <1>2, PTL DEF Spec

\* The values of StreamingState's fields and of the generator's locals stay
\* in their types; every event is one of the Anthropic protocol.
THEOREM TypeCorrect == Spec => []TypeOK
<1>1. TypeInv => TypeOK
  BY DEF TypeInv
<1> QED
  BY TypeInvariant, <1>1, PTL
-----------------------------------------------------------------------------
(***************************************************************************)
(* The order of the events.                                                *)
(***************************************************************************)
\* Events added to those sent: they have to continue the last one.
LEMMA Extend ==
  ASSUME TypeInv, Continues(NoEvent, events),
         NEW s \in Seq(Event), Continues(LastSent, s), events' = events \o s
  PROVE  /\ Continues(NoEvent, events')
         /\ LastSent' = EndOf(LastSent, s)
         /\ Len(events') = Len(events) + Len(s)
BY ConcatEvents, ConcatProperties DEF TypeInv, TypeOK, LastSent

LEMMA ExtendTwice ==
  ASSUME TypeInv, Continues(NoEvent, events),
         NEW s \in Seq(Event), NEW t \in Seq(Event),
         Continues(LastSent, s), Continues(EndOf(LastSent, s), t),
         events' = events \o s \o t
  PROVE  /\ Continues(NoEvent, events')
         /\ LastSent' = EndOf(EndOf(LastSent, s), t)
         /\ Len(events') = Len(events) + Len(s) + Len(t)
<1> DEFINE u == s \o t
<1>1. events \in Seq(Event)
  BY DEF TypeInv, TypeOK
<1>2. /\ u \in Seq(Event) /\ Len(u) = Len(s) + Len(t)
      /\ Continues(LastSent, u)
      /\ EndOf(LastSent, u) = EndOf(EndOf(LastSent, s), t)
  <2>1. u \in Seq(Event) /\ Len(u) = Len(s) + Len(t)
    BY ConcatProperties
  <2>2. Continues(LastSent, u) /\ EndOf(LastSent, u) = EndOf(EndOf(LastSent, s), t)
    BY ConcatEvents
  <2> QED
    BY <2>1, <2>2
<1>3. events' = events \o u
  <2>1. (events \o s) \o t = events \o (s \o t)
    BY <1>1, ConcatAssociative, SMTT(30)
  <2> QED
    BY <2>1, Zenon
<1> HIDE DEF u
<1>4. Len(events) \in Nat /\ Len(s) \in Nat /\ Len(t) \in Nat
  BY <1>1, LenProperties
<1>5. /\ Continues(NoEvent, events')
      /\ LastSent' = EndOf(LastSent, u)
      /\ Len(events') = Len(events) + Len(u)
  BY <1>2, <1>3, Extend
<1> QED
  BY <1>2, <1>4, <1>5

\* Within a message, the buffer and the stop of the open block continue what
\* was sent, and the block with the next index may start after them.
LEMMA FlushAndClose ==
  ASSUME TypeInv, messageStarted, ~finishEmitted, TranslatorInv,
         Continues(LastSent, toolBuffer)
  PROVE  /\ toolBuffer \o CloseBlock \in Seq(Event)
         /\ Continues(LastSent, toolBuffer \o CloseBlock)
         /\ ReadyFor(EndOf(LastSent, toolBuffer \o CloseBlock), NextIndex)
<1>0. toolBuffer \in Seq(Event) /\ blockIndex \in Nat
  BY DEF TypeInv, TypeOK
<1>1. CASE BeforeBlocks
  <2>1. toolBuffer \o CloseBlock = <<>> /\ NextIndex = 0
    BY <1>1 DEF BeforeBlocks, CloseBlock, NextIndex
  <2> QED
    BY <1>1, <2>1, NoEvents DEF BeforeBlocks, ReadyFor
<1>2. CASE InText \/ InToolUse
  <2>1. CloseBlock = <<BlockStop(blockIndex)>> /\ NextIndex = blockIndex + 1
    BY <1>2 DEF InText, InToolUse, CloseBlock, NextIndex
  <2>2. Follows(LastOfBuffer, BlockStop(blockIndex))
    <3>1. PICK t, o : LastOfBuffer \in {BlockStart(blockIndex, t, o),
                                        BlockDelta(blockIndex, t, o)}
      BY <1>2 DEF InText, InToolUse, LastOfBuffer, EndOf
    <3> QED
      BY <3>1, InsideBlock
  <2>3. /\ CloseBlock \in Seq(Event)
        /\ Continues(LastOfBuffer, CloseBlock)
        /\ EndOf(LastOfBuffer, CloseBlock) = BlockStop(blockIndex)
    BY <1>0, <2>1, <2>2, OneEvent, EventTyping
  <2>4. /\ toolBuffer \o CloseBlock \in Seq(Event)
        /\ Continues(LastSent, toolBuffer \o CloseBlock)
        /\ EndOf(LastSent, toolBuffer \o CloseBlock) = BlockStop(blockIndex)
    BY <1>0, <2>3, ConcatEvents DEF LastOfBuffer
  <2> QED
    BY <1>0, <2>1, <2>4 DEF ReadyFor
<1> QED
  BY <1>1, <1>2 DEF TranslatorInv

\* The same for the events that handle_text_delta returns ahead of the delta
\* when it opens a block.
LEMMA OpenText ==
  ASSUME TypeInv, messageStarted, ~finishEmitted, TranslatorInv,
         Continues(LastSent, toolBuffer)
  PROVE  LET start == BlockStart(NextIndex, "text", NoTool)
             opening == toolBuffer \o CloseBlock \o <<start>>
         IN  /\ opening \in Seq(Event)
             /\ Continues(LastSent, opening)
             /\ EndOf(LastSent, opening) = start
<1> DEFINE start == BlockStart(NextIndex, "text", NoTool)
           flushed == toolBuffer \o CloseBlock
           one == <<start>>
<1>1. /\ flushed \in Seq(Event)
      /\ Continues(LastSent, flushed)
      /\ ReadyFor(EndOf(LastSent, flushed), NextIndex)
  BY FlushAndClose
<1>2. start \in Event /\ NextIndex \in Nat
  BY CloseBlockTyping, EventTyping DEF TypeInv, BlockTypes
<1>3. Follows(EndOf(LastSent, flushed), start)
  BY <1>1, <1>2, FollowRules
<1>4. /\ one \in Seq(Event)
      /\ Continues(EndOf(LastSent, flushed), one)
      /\ EndOf(EndOf(LastSent, flushed), one) = start
  BY <1>2, <1>3, OneEvent
<1>5. /\ flushed \o one \in Seq(Event)
      /\ Continues(LastSent, flushed \o one)
      /\ EndOf(LastSent, flushed \o one) = start
  <2> HIDE DEF start, flushed, one
  <2> QED
    BY <1>1, <1>4, ConcatEvents
<1> QED
  BY <1>5

\* StreamInv holds at the start and every step keeps it, as long as the
\* arguments of one call arrive before the next part begins.
LEMMA StreamInvariant ==
  ASSUME Interleaving = FALSE
  PROVE  Spec => []StreamInv
<1>1. Init => StreamInv
  <2>1. Len(<<>>) = 0 /\ \A e : Continues(e, <<>>)
    BY DEF Continues
  <2> QED
    BY <2>1 DEF Init, StreamInv, Translating, TranslatorInv, BeforeMessage
<1>2. TypeInv /\ TypeInv' /\ StreamInv /\ [Next]_vars => StreamInv'
  <2> SUFFICES ASSUME TypeInv, TypeInv', StreamInv, [Next]_vars
               PROVE  StreamInv'
    OBVIOUS
  <2>0. /\ Continues(NoEvent, events) /\ events \in Seq(Event)
        /\ Len(events) \in Nat /\ yielded \in Nat /\ yielded <= Len(events)
    BY LenProperties DEF StreamInv, TypeInv, TypeOK
  <2>1. CASE ReceiveChunk
    <3>1. TranslatorInv /\ Continues(LastSent, toolBuffer) /\ yielded = Len(events)
      BY <2>1 DEF ReceiveChunk, StreamInv, Translating
    <3>2. CASE messageStarted
      <4>1. UNCHANGED <<events, toolBuffer, blockType, blockIndex, blockOpen,
                        messageStarted, finishEmitted, currentTool>>
        BY <2>1, <3>2 DEF ReceiveChunk
      <4> QED
        BY <2>1, <3>1, <4>1
        DEF ReceiveChunk, StreamInv, accumulators, TranslatorInv, BeforeBlocks,
            InText, InToolUse, Finished, LastSent, LastOfBuffer
    <3>3. CASE ~messageStarted
      <4>1. events' = events \o <<MessageStart>> /\ events = <<>>
        BY <2>1, <3>1, <3>3 DEF ReceiveChunk, TranslatorInv, BeforeMessage
      <4>2. /\ Continues(LastSent, <<MessageStart>>) /\ <<MessageStart>> \in Seq(Event)
            /\ EndOf(LastSent, <<MessageStart>>) = MessageStart
        BY <4>1, OneEvent, EventTyping, FollowRules DEF LastSent, EndOf
      <4>3. Continues(NoEvent, events') /\ LastSent' = MessageStart
            /\ Len(events') = Len(events) + 1
        BY <2>0, <4>1, <4>2, Extend
      <4>4. BeforeBlocks' /\ Continues(LastSent, toolBuffer)'
        BY <2>1, <3>1, <3>3, <4>3, NoEvents
        DEF ReceiveChunk, TranslatorInv, BeforeMessage, BeforeBlocks
      <4> QED
        BY <2>0, <2>1, <3>1, <3>3, <4>3, <4>4
        DEF ReceiveChunk, StreamInv, accumulators, TranslatorInv, BeforeMessage
    <3> QED
      BY <3>2, <3>3
  <2>2. CASE HandleTextDelta
    <3>1. /\ phase = "chunk" /\ messageStarted /\ ~finishEmitted /\ ~ended
          /\ TranslatorInv /\ Continues(LastSent, toolBuffer)
      BY <2>2 DEF HandleTextDelta, Visit, StreamInv, Translating, TextPart, UsagePart
    <3> DEFINE i == IF blockType = "text" THEN blockIndex ELSE NextIndex
               opening == IF blockType = "text" THEN <<>>
                          ELSE toolBuffer \o CloseBlock
                                 \o <<BlockStart(i, "text", NoTool)>>
               delta == BlockDelta(i, "text", NoTool)
               one == <<delta>>
    <3>2. /\ opening \in Seq(Event) /\ Continues(LastSent, opening)
          /\ EndOf(LastSent, opening) \in {BlockStart(i, "text", NoTool), delta}
      <4>1. CASE blockType = "text"
        <5>1. InText
          BY <3>1, <4>1 DEF TranslatorInv, BeforeBlocks, InToolUse, NoBlock
        <5> QED
          BY <4>1, <5>1, NoEvents DEF InText
      <4>2. CASE blockType # "text"
        BY <3>1, <4>2, OpenText
      <4> QED
        BY <4>1, <4>2
    <3>3. delta \in Event
      BY CloseBlockTyping, EventTyping DEF TypeInv, TypeOK, BlockTypes
    <3>4. Follows(EndOf(LastSent, opening), delta)
      BY <3>2, InsideBlock
    <3>5. /\ one \in Seq(Event) /\ Len(one) = 1
          /\ Continues(EndOf(LastSent, opening), one)
          /\ EndOf(EndOf(LastSent, opening), one) = delta
      BY <3>3, <3>4, OneEvent
    <3>6. events' = events \o opening \o one
      BY <2>2 DEF HandleTextDelta
    <3>7. /\ Continues(NoEvent, events') /\ LastSent' = delta
          /\ Len(events') >= Len(events)
      <4>1. Len(opening) \in Nat
        BY <3>2, LenProperties
      <4> HIDE DEF opening, one, delta
      <4>2. /\ Continues(NoEvent, events')
            /\ LastSent' = EndOf(EndOf(LastSent, opening), one)
            /\ Len(events') = Len(events) + Len(opening) + Len(one)
        BY <2>0, <3>2, <3>5, <3>6, ExtendTwice
      <4> QED
        BY <2>0, <3>5, <4>1, <4>2
    <3>8. blockIndex' = i /\ blockType' = "text" /\ blockOpen' = TRUE
      BY <2>2 DEF HandleTextDelta
    <3>9. toolBuffer' = <<>>
      BY <2>2, <3>1 DEF HandleTextDelta, TranslatorInv, BeforeBlocks, InText, InToolUse
    <3>10. InText' /\ Continues(LastSent, toolBuffer)'
      <4> HIDE DEF i
      <4> QED
        BY <3>7, <3>8, <3>9, NoEvents DEF InText
    <3>11. UNCHANGED <<phase, ended, yielded, finishEmitted, messageStarted,
                       lastFinishReason>>
      BY <2>2 DEF HandleTextDelta, Visit
    <3> QED
      BY <2>0, <3>1, <3>7, <3>10, <3>11 DEF StreamInv, TranslatorInv
  <2>3. ASSUME NEW tool \in Tools, NEW hasId \in BOOLEAN, NEW hasArgs \in BOOLEAN,
               HandleNewToolCall(tool, hasId, hasArgs)
        PROVE  StreamInv'
    <3>1. /\ phase = "chunk" /\ messageStarted /\ ~finishEmitted /\ ~ended
          /\ TranslatorInv /\ Continues(LastSent, toolBuffer)
      BY <2>3 DEF HandleNewToolCall, Visit, StreamInv, Translating, CallPart, UsagePart
    <3> DEFINE flushed == toolBuffer \o CloseBlock
               first == BlockStart(NextIndex, "tool_use", tool)
               delta == BlockDelta(NextIndex, "tool_use", tool)
               head == <<first>>
               rest == IF hasArgs THEN <<delta>> ELSE <<>>
    <3>2. /\ flushed \in Seq(Event) /\ Continues(LastSent, flushed)
          /\ ReadyFor(EndOf(LastSent, flushed), NextIndex)
      BY <3>1, FlushAndClose
    <3>3. events' = events \o flushed
      <4>1. events' = events \o toolBuffer \o CloseBlock
        BY <2>3 DEF HandleNewToolCall
      <4>2. /\ events \in Seq(Event) /\ toolBuffer \in Seq(Event)
            /\ CloseBlock \in Seq(Event)
        BY CloseBlockTyping DEF TypeInv, TypeOK
      <4> QED
        BY <4>1, <4>2, ConcatAssociative
    <3>4. /\ Continues(NoEvent, events') /\ LastSent' = EndOf(LastSent, flushed)
          /\ Len(events') >= Len(events)
      <4>1. Len(flushed) \in Nat
        BY <3>2, LenProperties
      <4> HIDE DEF flushed
      <4> QED
        BY <2>0, <3>2, <3>3, <4>1, Extend
    <3>5. first \in Event /\ delta \in Event /\ NextIndex \in Nat
      BY CloseBlockTyping, EventTyping DEF TypeInv, BlockTypes
    <3>6. Follows(LastSent', first)
      BY <3>2, <3>4, <3>5, FollowRules, EventsAssumption
    <3>7. Follows(first, delta)
      BY InsideBlock
    <3>8. toolBuffer' = head \o rest
      BY <2>3 DEF HandleNewToolCall
    <3>9. Continues(LastSent', toolBuffer') /\ LastOfBuffer' \in {first, delta}
      <4> HIDE DEF first, delta
      <4>1. /\ head \in Seq(Event) /\ Continues(LastSent', head)
            /\ EndOf(LastSent', head) = first
        BY <3>5, <3>6, OneEvent
      <4>2. /\ rest \in Seq(Event) /\ Continues(first, rest)
            /\ EndOf(first, rest) \in {first, delta}
        BY <3>5, <3>7, OneEvent, NoEvents
      <4> HIDE DEF head, rest
      <4> QED
        BY <3>8, <4>1, <4>2, ConcatEvents DEF LastOfBuffer
    <3>10. /\ blockIndex' = NextIndex /\ blockType' = "tool_use"
           /\ blockOpen' = TRUE /\ currentTool' = tool
           /\ UNCHANGED <<phase, ended, yielded, finishEmitted, messageStarted,
                          lastFinishReason>>
      BY <2>3 DEF HandleNewToolCall, Visit
    <3>11. InToolUse'
      <4>1. ReadyFor(LastSent', blockIndex')
        BY <3>2, <3>4, <3>10
      <4> QED
        BY <3>9, <3>10, <4>1 DEF InToolUse, ReadyFor
    <3> QED
      BY <2>0, <3>1, <3>4, <3>9, <3>10, <3>11 DEF StreamInv, TranslatorInv
  <2>4. ASSUME NEW tool \in Tools, HandleToolCallArguments(tool)
        PROVE  StreamInv'
    <3>1. /\ phase = "chunk" /\ messageStarted /\ ~finishEmitted /\ ~ended
          /\ TranslatorInv /\ Continues(LastSent, toolBuffer)
      BY <2>4
      DEF HandleToolCallArguments, Visit, StreamInv, Translating, CallPart, UsagePart
    <3>2. blockType = "tool_use" /\ tool = currentTool
      BY <2>4 DEF HandleToolCallArguments, Continuable
    <3>3. InToolUse
      BY <3>1, <3>2 DEF TranslatorInv, BeforeBlocks, InText, NoBlock
    <3> DEFINE delta == BlockDelta(blockIndex, "tool_use", tool)
               one == <<delta>>
    <3>4. delta \in Event /\ toolBuffer \in Seq(Event)
      BY EventTyping DEF TypeInv, TypeOK, BlockTypes
    <3>5. Follows(LastOfBuffer, delta)
      BY <3>2, <3>3, InsideBlock DEF InToolUse
    <3>6. /\ one \in Seq(Event) /\ Continues(LastOfBuffer, one)
          /\ EndOf(LastOfBuffer, one) = delta
      BY <3>4, <3>5, OneEvent
    <3>7. toolBuffer' = toolBuffer \o one
      <4>1. toolBuffer' = Append(toolBuffer, delta)
        BY <2>4 DEF HandleToolCallArguments
      <4> HIDE DEF delta
      <4> QED
        BY <3>4, <4>1, AppendIsConcat
    <3>8. /\ UNCHANGED <<events, phase, ended, yielded, messageStarted,
                         finishEmitted, lastFinishReason>>
          /\ UNCHANGED <<blockType, blockIndex, blockOpen, currentTool>>
      BY <2>4 DEF HandleToolCallArguments, Visit
    <3>9. LastSent' = LastSent
      BY <3>8 DEF LastSent
    <3>10. Continues(LastSent', toolBuffer') /\ LastOfBuffer' = delta
      <4> HIDE DEF delta, one
      <4> QED
        BY <3>1, <3>4, <3>6, <3>7, <3>9, ConcatEvents DEF LastOfBuffer
    <3>11. InToolUse'
      BY <3>2, <3>3, <3>8, <3>9, <3>10 DEF InToolUse
    <3> QED
      BY <2>0, <3>1, <3>8, <3>9, <3>10, <3>11 DEF StreamInv, TranslatorInv
  <2>5. ASSUME NEW reason \in FinishReasons, HandleFinish(reason)
        PROVE  StreamInv'
    <3>1. /\ phase = "chunk" /\ messageStarted /\ ~finishEmitted /\ ~ended
          /\ TranslatorInv /\ Continues(LastSent, toolBuffer)
      BY <2>5 DEF HandleFinish, Visit, StreamInv, Translating, FinishPart, UsagePart
    <3>2. /\ UNCHANGED <<phase, ended, yielded, messageStarted>>
          /\ finishEmitted' = TRUE /\ lastFinishReason' = reason /\ reason # NoReason
      BY <2>5, EventsAssumption DEF HandleFinish, Visit
    <3>3. ASSUME NEW s \in Seq(Event), NEW t \in Seq(Event),
                 Continues(LastSent, s), Continues(EndOf(LastSent, s), t),
                 EndOf(EndOf(LastSent, s), t).kind = "message_delta",
                 events' = events \o s \o t, toolBuffer' = <<>>, blockOpen' = FALSE
          PROVE  StreamInv'
      <4>1. /\ Continues(NoEvent, events')
            /\ LastSent' = EndOf(EndOf(LastSent, s), t)
            /\ Len(events') = Len(events) + Len(s) + Len(t)
        BY <2>0, <3>3, ExtendTwice
      <4>2. Len(s) \in Nat /\ Len(t) \in Nat
        BY LenProperties
      <4>3. Finished' /\ Continues(LastSent', toolBuffer')
        BY <3>3, <4>1, NoEvents DEF Finished
      <4> QED
        BY <2>0, <3>1, <3>2, <4>1, <4>2, <4>3 DEF StreamInv, TranslatorInv
    <3>4. CASE FinishTruncated(reason)
      <4> DEFINE start == BlockStart(blockIndex, "text", NoTool)
                 delta == BlockDelta(blockIndex, "text", NoTool)
                 stop == BlockStop(blockIndex)
                 last == MessageDelta(StopReason(reason),
                                      OutputTokens(outputText + 1, 0))
                 notice == <<start, delta, stop, last>>
      <4>1. InToolUse /\ blockIndex \in Nat
        BY <3>1, <3>4
        DEF FinishTruncated, TranslatorInv, BeforeBlocks, InText, NoBlock, TypeInv, TypeOK
      <4>2. /\ start \in Event /\ delta \in Event
            /\ stop \in Event /\ last \in Event
        <5>1. OutputTokens(outputText + 1, 0) \in Usage
          BY UsageTyping DEF TypeInv, TypeOK
        <5> QED
          BY <4>1, <5>1, EventTyping, StopReasonTyping DEF BlockTypes
      <4>3. /\ Follows(LastSent, start) /\ Follows(start, delta)
            /\ Follows(delta, stop) /\ Follows(stop, last)
        <5>1. Follows(LastSent, start)
          BY <4>1, FollowRules DEF InToolUse
        <5>2. Follows(start, delta) /\ Follows(delta, stop)
          BY InsideBlock
        <5>3. ReadyFor(stop, blockIndex + 1)
          BY <4>1 DEF ReadyFor
        <5> QED
          BY <5>1, <5>2, <5>3, FollowRules
      <4>4. last.kind = "message_delta"
        BY DEF MessageDelta
      <4>5. /\ notice \in Seq(Event) /\ Continues(LastSent, notice)
            /\ EndOf(LastSent, notice) = last
        <5> HIDE DEF start, delta, stop, last
        <5> QED
          BY <4>2, <4>3 DEF Continues, EndOf
      <4>6. events' = events \o <<>> \o notice
        <5>1. events' = events \o notice
          BY <3>4 DEF FinishTruncated
        <5>2. events \o <<>> = events
          BY <2>0, ConcatEmptySeq
        <5> QED
          BY <5>1, <5>2
      <4>7. toolBuffer' = <<>> /\ blockOpen' = FALSE
        BY <3>4 DEF FinishTruncated
      <4>8. /\ <<>> \in Seq(Event) /\ Continues(LastSent, <<>>)
            /\ EndOf(LastSent, <<>>) = LastSent
        BY NoEvents
      <4> DEFINE none == <<>>
      <4> HIDE DEF notice, last, none
      <4>9. /\ none \in Seq(Event) /\ Continues(LastSent, none)
            /\ EndOf(LastSent, none) = LastSent /\ events' = events \o none \o notice
        BY <4>6, <4>8 DEF none
      <4> QED
        BY <3>3, <4>4, <4>5, <4>7, <4>9
    <3>5. CASE FinishComplete(reason)
      <4> DEFINE flushed == toolBuffer \o CloseBlock
                 last == MessageDelta(StopReason(reason),
                                      OutputTokens(outputText, outputToolJson))
                 one == <<last>>
      <4>1. /\ flushed \in Seq(Event) /\ Continues(LastSent, flushed)
            /\ ReadyFor(EndOf(LastSent, flushed), NextIndex)
        BY <3>1, FlushAndClose
      <4>2. last \in Event
        BY EventTyping, StopReasonTyping, UsageTyping DEF TypeInv, TypeOK
      <4>3. Follows(EndOf(LastSent, flushed), last)
        BY <4>1, FollowRules
      <4>4. /\ one \in Seq(Event) /\ Continues(EndOf(LastSent, flushed), one)
            /\ EndOf(EndOf(LastSent, flushed), one) = last
        BY <4>2, <4>3, OneEvent
      <4>5. last.kind = "message_delta"
        BY DEF MessageDelta
      <4>6. events' = events \o flushed \o one
        <5>1. events' = events \o toolBuffer \o CloseBlock \o one
          BY <3>5 DEF FinishComplete
        <5>2. toolBuffer \in Seq(Event) /\ CloseBlock \in Seq(Event)
          BY CloseBlockTyping DEF TypeInv, TypeOK
        <5>3. (events \o toolBuffer) \o CloseBlock = events \o flushed
          BY <2>0, <5>2, ConcatAssociative
        <5> QED
          BY <5>1, <5>3
      <4>7. toolBuffer' = <<>> /\ blockOpen' = FALSE
        BY <3>5 DEF FinishComplete
      <4> HIDE DEF flushed, last, one
      <4> QED
        BY <3>3, <4>1, <4>4, <4>5, <4>6, <4>7
    <3> QED
      BY <2>5, <3>4, <3>5 DEF HandleFinish
  <2>6. CASE CaptureUsage
    BY <2>0, <2>6
    DEF CaptureUsage, Visit, StreamInv, Translating, accumulators, TranslatorInv,
        BeforeMessage, BeforeBlocks, InText, InToolUse, Finished, LastSent,
        LastOfBuffer
  <2>7. CASE FinishChunk
    BY <2>0, <2>7
    DEF FinishChunk, StreamInv, Translating, translator, accumulators,
        TranslatorInv, BeforeMessage, BeforeBlocks, InText, InToolUse, Finished,
        LastSent, LastOfBuffer
  <2>8. CASE Yield
    BY <2>0, <2>8
    DEF Yield, StreamInv, Translating, translator, accumulators,
        TranslatorInv, BeforeMessage, BeforeBlocks, InText, InToolUse, Finished,
        LastSent, LastOfBuffer
  <2>9. CASE Finalize
    <3>1. /\ phase = "pull" /\ ended' = TRUE /\ ~ended /\ yielded = Len(events)
          /\ TranslatorInv /\ Continues(LastSent, toolBuffer)
          /\ UNCHANGED <<messageStarted, finishEmitted, yielded, lastFinishReason>>
      BY <2>9 DEF Finalize, FinalEvents, FinalDelta, StreamInv, Translating, accumulators
    <3>2. CASE ~messageStarted
      BY <2>0, <2>9, <3>1, <3>2 DEF Finalize, FinalEvents, FinalDelta, StreamInv, Translating
    <3>3. CASE messageStarted
      <4> DEFINE flushed == toolBuffer \o CloseBlock
                 last == MessageDelta("end_turn",
                                      OutputTokens(outputText, outputToolJson))
                 closing == IF finishEmitted THEN <<>> ELSE <<last>>
                 stop == <<MessageStop>>
                 tail == closing \o stop
      <4>1. last \in Event /\ MessageStop \in Event
        BY EventTyping, UsageTyping DEF TypeInv, TypeOK, StopReasons
      <4>2. /\ flushed \in Seq(Event) /\ Continues(LastSent, flushed)
            /\ closing \in Seq(Event)
            /\ Continues(EndOf(LastSent, flushed), closing)
            /\ EndOf(EndOf(LastSent, flushed), closing).kind = "message_delta"
        <5>1. CASE finishEmitted
          <6>1. flushed = <<>> /\ closing = <<>> /\ LastSent.kind = "message_delta"
            BY <3>1, <3>3, <5>1 DEF TranslatorInv, Finished, CloseBlock
          <6> QED
            BY <6>1, NoEvents
        <5>2. CASE ~finishEmitted
          <6>1. /\ flushed \in Seq(Event) /\ Continues(LastSent, flushed)
                /\ ReadyFor(EndOf(LastSent, flushed), NextIndex)
            BY <3>1, <3>3, <5>2, FlushAndClose
          <6>2. Follows(EndOf(LastSent, flushed), last)
            BY <6>1, FollowRules
          <6>3. last.kind = "message_delta"
            BY DEF MessageDelta
          <6>4. closing = <<last>>
            BY <5>2
          <6> HIDE DEF flushed, last, closing
          <6> QED
            BY <4>1, <6>1, <6>2, <6>3, <6>4, OneEvent
        <5> QED
          BY <5>1, <5>2
      <4>3. Follows(EndOf(EndOf(LastSent, flushed), closing), MessageStop)
        BY <4>2, FollowRules
      <4> HIDE DEF flushed, last, closing
      <4>4. /\ stop \in Seq(Event)
            /\ Continues(EndOf(EndOf(LastSent, flushed), closing), stop)
        BY <4>1, <4>3, OneEvent
      <4>5. stop # <<>> /\ Len(stop) = 1
        OBVIOUS
      <4> HIDE DEF stop
      <4>6. /\ tail \in Seq(Event)
            /\ Continues(EndOf(LastSent, flushed), tail)
            /\ Len(tail) > 0
        BY <4>2, <4>4, <4>5, ConcatEvents, ConcatProperties, LenProperties
      <4>7. events' = events \o flushed \o tail
        <5>1. events' = events \o toolBuffer \o CloseBlock \o closing \o stop
          BY <2>9, <3>3 DEF Finalize, FinalEvents, FinalDelta, closing, stop, last
        <5>2. toolBuffer \in Seq(Event) /\ CloseBlock \in Seq(Event)
          BY CloseBlockTyping DEF TypeInv, TypeOK
        <5>3. (events \o toolBuffer) \o CloseBlock = events \o flushed
          BY <2>0, <5>2, ConcatAssociative DEF flushed
        <5>4. events \o flushed \in Seq(Event)
          BY <2>0, <4>2, ConcatProperties
        <5>5. ((events \o flushed) \o closing) \o stop = (events \o flushed) \o tail
          BY <4>2, <4>4, <5>4, ConcatAssociative
        <5> QED
          BY <5>1, <5>3, <5>5
      <4> HIDE DEF tail
      <4>8. /\ Continues(NoEvent, events')
            /\ Len(events') = Len(events) + Len(flushed) + Len(tail)
        BY <2>0, <4>2, <4>6, <4>7, ExtendTwice
      <4>9. Len(flushed) \in Nat /\ Len(tail) \in Nat
        BY <4>2, <4>6, LenProperties
      <4>10. phase' = "yield"
        BY <2>9, <3>3 DEF Finalize, FinalEvents, FinalDelta
      <4> QED
        BY <2>0, <3>1, <4>6, <4>8, <4>9, <4>10 DEF StreamInv, Translating
    <3> QED
      BY <3>2, <3>3
  <2>10. CASE UpstreamError
    <3>1. /\ phase = "pull" /\ TranslatorInv /\ yielded = Len(events)
      BY <2>10 DEF UpstreamError, StreamInv, Translating
    <3>2. LastSent.kind \notin {"message_stop", "error"}
      BY <3>1
      DEF TranslatorInv, BeforeMessage, BeforeBlocks, InText, InToolUse, Finished,
          LastSent, EndOf, ReadyFor, NoEvent, MessageStart, BlockDelta, BlockStop
    <3> DEFINE one == <<ErrorEvent>>
    <3>3. one \in Seq(Event) /\ Continues(LastSent, one) /\ Len(one) = 1
      BY <3>2, OneEvent, EventTyping, FollowRules
    <3>4. events' = events \o one
      <4>1. events' = Append(events, ErrorEvent)
        BY <2>10 DEF UpstreamError
      <4> QED
        BY <2>0, <4>1, EventTyping, AppendIsConcat
    <3> HIDE DEF one
    <3>5. Continues(NoEvent, events') /\ Len(events') = Len(events) + 1
      BY <2>0, <3>3, <3>4, Extend
    <3> QED
      BY <2>0, <2>10, <3>1, <3>5
      DEF UpstreamError, StreamInv, Translating, translator, accumulators
  <2>11. CASE ClientDisconnect
    BY <2>0, <2>11
    DEF ClientDisconnect, StreamInv, Translating, translator, accumulators
  <2>12. CASE WriteLog
    BY <2>0, <2>12 DEF WriteLog, StreamInv, Translating, translator, accumulators
  <2>13. CASE UNCHANGED vars
    BY <2>0, <2>13
    DEF vars, StreamInv, Translating, translator, accumulators,
        TranslatorInv, BeforeMessage, BeforeBlocks, InText, InToolUse, Finished,
        LastSent, LastOfBuffer
  <2> QED
    BY <2>1, <2>2, <2>3, <2>4, <2>5, <2>6, <2>7, <2>8, <2>9, <2>10, <2>11,
       <2>12, <2>13 DEF Next, ProcessChunk, Terminated
<1> QED
  BY <1>1, <1>2, TypeInvariant, PTL DEF Spec
-----------------------------------------------------------------------------
(***************************************************************************)
(* Refinement of AnthropicStream.                                          *)
(***************************************************************************)
\* No step takes back an event that was returned.
LEMMA EventsGrow ==
  ASSUME TypeInv, [Next]_vars
  PROVE  Extends(events, events')
<1>0. /\ events \in Seq(Event) /\ toolBuffer \in Seq(Event)
      /\ CloseBlock \in Seq(Event) /\ NextIndex \in Nat /\ blockIndex \in Nat
      /\ Len(events) \in Nat
  BY CloseBlockTyping, LenProperties DEF TypeInv, TypeOK
<1>1. Extends(events, events)
  BY DEF Extends
<1>2. /\ events \o toolBuffer \o CloseBlock \in Seq(Event)
      /\ Extends(events, events \o toolBuffer \o CloseBlock)
  BY <1>0, <1>1, ConcatExtends
<1>3. CASE ReceiveChunk
  <2>1. events' \in {events, Append(events, MessageStart)}
    BY <1>3 DEF ReceiveChunk
  <2>2. Append(events, MessageStart) = events \o <<MessageStart>>
    BY <1>0, EventTyping, AppendIsConcat
  <2> DEFINE one == <<MessageStart>>
  <2>3. one \in Seq(Event)
    BY OneEvent, EventTyping
  <2> HIDE DEF one
  <2>4. Extends(events, events \o one)
    BY <1>0, <1>1, <2>3, ConcatExtends
  <2> QED
    BY <1>1, <2>1, <2>2, <2>4 DEF one
<1>4. CASE HandleTextDelta
  <2> DEFINE i == IF blockType = "text" THEN blockIndex ELSE NextIndex
             start == <<BlockStart(i, "text", NoTool)>>
             delta == <<BlockDelta(i, "text", NoTool)>>
             opening == toolBuffer \o CloseBlock \o start
  <2>1. start \in Seq(Event) /\ delta \in Seq(Event)
    BY <1>0, EventTyping, OneEvent DEF BlockTypes
  <2> DEFINE before == IF blockType = "text" THEN <<>> ELSE opening
  <2>2. events' = events \o before \o delta
    BY <1>4 DEF HandleTextDelta
  <2> HIDE DEF start, delta
  <2>3. before \in Seq(Event)
    <3>1. opening \in Seq(Event) /\ <<>> \in Seq(Event)
      BY <1>0, <2>1, ConcatProperties
    <3> HIDE DEF opening
    <3> QED
      BY <3>1
  <2> HIDE DEF before
  <2>4. events \o before \in Seq(Event) /\ Extends(events, events \o before)
    BY <1>0, <1>1, <2>3, ConcatExtends
  <2>5. Extends(events, events \o before \o delta)
    BY <1>0, <2>1, <2>4, ConcatExtends
  <2> QED
    BY <2>2, <2>5
<1>5. ASSUME NEW tool \in Tools, NEW hasId \in BOOLEAN, NEW hasArgs \in BOOLEAN,
             HandleNewToolCall(tool, hasId, hasArgs)
      PROVE  Extends(events, events')
  BY <1>2, <1>5 DEF HandleNewToolCall
<1>6. ASSUME NEW reason \in FinishReasons, HandleFinish(reason)
      PROVE  Extends(events, events')
  <2> DEFINE u == OutputTokens(outputText, outputToolJson)
             v == OutputTokens(outputText + 1, 0)
             last == <<MessageDelta(StopReason(reason), u)>>
             notice == <<BlockStart(blockIndex, "text", NoTool),
                         BlockDelta(blockIndex, "text", NoTool),
                         BlockStop(blockIndex),
                         MessageDelta(StopReason(reason), v)>>
  <2>1. \/ events' = events \o notice
        \/ events' = events \o toolBuffer \o CloseBlock \o last
    BY <1>6 DEF HandleFinish, FinishTruncated, FinishComplete
  <2>2. u \in Usage /\ v \in Usage
    BY UsageTyping DEF TypeInv, TypeOK
  <2> HIDE DEF u, v
  <2>3. notice \in Seq(Event) /\ last \in Seq(Event)
    BY <1>0, <2>2, EventTyping, StopReasonTyping DEF BlockTypes
  <2> HIDE DEF notice, last
  <2>4. Extends(events, events \o notice)
    BY <1>0, <1>1, <2>3, ConcatExtends
  <2>5. Extends(events, events \o toolBuffer \o CloseBlock \o last)
    BY <1>0, <1>2, <2>3, ConcatExtends
  <2> QED
    BY <2>1, <2>4, <2>5
<1>7. CASE Finalize
  <2> DEFINE u == OutputTokens(outputText, outputToolJson)
             closing == IF finishEmitted THEN <<>> ELSE <<MessageDelta("end_turn", u)>>
             stop == <<MessageStop>>
  <2>1. \/ events' = events
        \/ events' = events \o toolBuffer \o CloseBlock \o closing \o stop
    BY <1>7 DEF Finalize, FinalEvents, FinalDelta
  <2>2. u \in Usage
    BY UsageTyping DEF TypeInv, TypeOK
  <2> HIDE DEF u
  <2>3. closing \in Seq(Event) /\ stop \in Seq(Event)
    BY <2>2, EventTyping DEF StopReasons
  <2> HIDE DEF closing, stop
  <2>4. /\ events \o toolBuffer \o CloseBlock \o closing \in Seq(Event)
        /\ Extends(events, events \o toolBuffer \o CloseBlock \o closing)
    BY <1>0, <1>2, <2>3, ConcatExtends
  <2>5. Extends(events, events \o toolBuffer \o CloseBlock \o closing \o stop)
    BY <1>0, <2>3, <2>4, ConcatExtends
  <2> QED
    BY <1>1, <2>1, <2>5
<1>8. CASE UpstreamError
  <2>1. events' = events \o <<ErrorEvent>>
    BY <1>0, <1>8, EventTyping, AppendIsConcat DEF UpstreamError
  <2> QED
    BY <1>0, <1>1, <2>1, ConcatExtends, OneEvent, EventTyping
<1>9. CASE UNCHANGED events
  BY <1>1, <1>9
<1>10. \/ \E tool \in Tools : HandleToolCallArguments(tool)
       \/ CaptureUsage \/ FinishChunk \/ Yield \/ ClientDisconnect \/ WriteLog
       \/ UNCHANGED vars
       => UNCHANGED events
  BY DEF HandleToolCallArguments, CaptureUsage, FinishChunk, Yield,
         ClientDisconnect, WriteLog, vars
<1> QED
  BY <1>3, <1>4, <1>5, <1>6, <1>7, <1>8, <1>9, <1>10
  DEF Next, ProcessChunk, Terminated

\* The instance's copies of the protocol's definitions are the module's own.
LEMMA ClientDefinitions ==
  /\ Client!Event = Event
  /\ \A e, f : Client!Follows(e, f) <=> Follows(e, f)
<1>1. Client!Event = Event
  BY DEF Event, BlockEvent, StopEvent, DeltaEvent, BlockTypes, StopReasons, Usage,
         MessageStart, MessageStop, ErrorEvent, Client!Event, Client!BlockEvent,
         Client!StopEvent, Client!DeltaEvent, Client!BlockTypes,
         Client!StopReasons, Client!Usage, Client!MessageStart,
         Client!MessageStop, Client!ErrorEvent
<1>2. ASSUME NEW e, NEW f
      PROVE  Client!Follows(e, f) <=> Follows(e, f)
  BY DEF Follows, StartsMessage, StartsBlock, ContinuesBlock, StopsBlock,
         FinishesMessage, StopsMessage, Fails, Coherent, NoEvent, MessageStart,
         BlockDelta, Client!Follows, Client!StartsMessage, Client!StartsBlock,
         Client!ContinuesBlock, Client!StopsBlock, Client!FinishesMessage,
         Client!StopsMessage, Client!Fails, Client!Coherent, Client!NoEvent,
         Client!MessageStart, Client!BlockDelta
<1> QED
  BY <1>1, <1>2

\* For every set of tool calls and every bound on the input: what the client
\* receives is a stream of the Anthropic protocol, whether the answer ends,
\* fails or is cut off, and however text and tool calls alternate.
THEOREM ProtocolCorrect ==
  ASSUME Interleaving = FALSE
  PROVE  Spec => AnthropicProtocol
<1>1. Init => Client!Init
  BY DEF Init, Client!Init, LastReceived, NoEvent, Client!NoEvent
<1>2. TypeInv /\ TypeInv' /\ StreamInv /\ StreamInv' /\ [Next]_vars
        => [Client!Receive]_LastReceived
  <2> SUFFICES ASSUME TypeInv, TypeInv', StreamInv, StreamInv', [Next]_vars
               PROVE  [Client!Receive]_LastReceived
    OBVIOUS
  <2>0. /\ yielded \in Nat /\ yielded <= Len(events)
        /\ Len(events) \in Nat /\ Len(events') \in Nat /\ events' \in Seq(Event)
        /\ Continues(NoEvent, events') /\ Extends(events, events')
    BY EventsGrow, LenProperties DEF TypeInv, TypeOK, StreamInv
  <2>1. CASE yielded' = yielded
    BY <2>0, <2>1 DEF LastReceived, Extends
  <2>2. CASE yielded' = yielded + 1
    <3>1. yielded' \in 1 .. Len(events')
      BY <2>0, <2>2 DEF StreamInv
    <3>2. LastReceived' = events'[yielded + 1]
      BY <2>0, <2>2 DEF LastReceived
    <3>3. LastReceived = IF yielded + 1 = 1 THEN NoEvent ELSE events'[yielded + 1 - 1]
      BY <2>0 DEF LastReceived, Extends
    <3>4. Follows(LastReceived, LastReceived')
      BY <2>0, <2>2, <3>1, <3>2, <3>3 DEF Continues
    <3>5. LastReceived' \in Event
      BY <2>0, <2>2, <3>1, <3>2, ElementOfSeq
    <3> QED
      BY <3>4, <3>5, ClientDefinitions DEF Client!Receive
  <2>3. yielded' \in {yielded, yielded + 1}
    BY DEF Next, ProcessChunk, ReceiveChunk, HandleTextDelta, HandleNewToolCall,
           HandleToolCallArguments, HandleFinish, CaptureUsage, FinishChunk,
           Visit, Yield, Finalize, FinalEvents, FinalDelta, UpstreamError, ClientDisconnect, WriteLog,
           Terminated, vars
  <2> QED
    BY <2>1, <2>2, <2>3
<1> QED
  BY <1>1, <1>2, TypeInvariant, StreamInvariant, PTL
  DEF Spec, AnthropicProtocol, Client!Spec
-----------------------------------------------------------------------------
(***************************************************************************)
(* The account of the answer: which events of a tool call were sent, which *)
(* are held back, and what the log will tell of them.                      *)
(***************************************************************************)
\* The tool call whose events are held back, and those whose were sent.
Waiting(tool) == blockOpen /\ blockType = "tool_use" /\ currentTool = tool
Released(tool) == tool \in logToolNames \ truncated /\ ~Waiting(tool)

\* A call is sent as a whole or not at all: one start and every piece of
\* arguments the log has counted, all in the buffer while it is streamed.
CallAccount(tool) ==
    /\ Count(events, Starts(tool)) = IF Released(tool) THEN 1 ELSE 0
    /\ Count(events, Deltas(tool)) = IF Released(tool) THEN logToolArgs[tool] ELSE 0
    /\ Count(toolBuffer, Starts(tool)) = IF Waiting(tool) THEN 1 ELSE 0
    /\ Count(toolBuffer, Deltas(tool)) = IF Waiting(tool) THEN logToolArgs[tool] ELSE 0
    /\ Waiting(tool) => tool \in logToolNames \ truncated

\* The pieces of text that were sent are those of the log, and the notices.
TextAccount ==
    /\ Count(events, Deltas(NoTool)) = contentBuffer + Cardinality(truncated)
    /\ Count(toolBuffer, Deltas(NoTool)) = 0

\* At most one call is cut off, and then no other stop_reason was told.
FinishAccount ==
    /\ truncated = {} \/ \E tool \in Tools : truncated = {tool}
    /\ Count(toolBuffer, EndsOtherThan({})) = 0
    /\ lastFinishReason = NoReason /\ ~ended =>
         Count(events, EndsOtherThan({})) = 0
    /\ truncated # {} =>
         lastFinishReason # NoReason /\ Count(events, EndsOtherThan({"max_tokens"})) = 0

\* When the log is written nothing is held back or on its way any more.
LogAccount ==
    /\ logToolIds \subseteq logToolNames
    /\ ended => ~blockOpen
    /\ phase = "log" => ended
    /\ phase \in {"log", "done"} => yielded = Len(events)
    /\ phase = "done" =>
         /\ ~blockOpen
         /\ logged.tools = LoggedTools
         /\ logged.args = [t \in Tools |-> IF t \in LoggedTools THEN logToolArgs[t] ELSE 0]

AccountInv ==
    /\ \A tool \in Tools : CallAccount(tool)
    /\ TextAccount
    /\ FinishAccount
    /\ LogAccount

\* No counted event makes a difference between s and t.
SameAccount(s, t) ==
    /\ \A p : /\ Count(s, Starts(p)) = Count(t, Starts(p))
              /\ Count(s, Deltas(p)) = Count(t, Deltas(p))
    /\ \A R : Count(s, EndsOtherThan(R)) = Count(t, EndsOtherThan(R))

\* Starts and ends of the message, errors and block stops are not counted.
LEMMA SilentEvent ==
  ASSUME NEW s \in Seq(Event), NEW i \in Nat,
         NEW e \in {MessageStart, MessageStop, ErrorEvent, BlockStop(i)}
  PROVE  s \o <<e>> \in Seq(Event) /\ SameAccount(s \o <<e>>, s)
<1>1. e \in Event
  BY EventTyping
<1> DEFINE one == <<e>>
<1>2. one \in Seq(Event) /\ \A E : Count(one, E) = IF e \in E THEN 1 ELSE 0
  BY <1>1, OneEvent, CountOne
<1>3. \A p, R : e \notin Starts(p) /\ e \notin Deltas(p) /\ e \notin EndsOtherThan(R)
  BY CountedEvents
<1>4. \A E : Count(s, E) \in Nat
  BY CountTyping
<1> HIDE DEF one
<1>5. /\ s \o one \in Seq(Event)
      /\ \A E : Count(s \o one, E) = Count(s, E) + Count(one, E)
  BY <1>2, CountConcat
<1>6. SameAccount(s \o one, s)
  <2> SUFFICES ASSUME NEW p, NEW R
               PROVE  /\ Count(s \o one, Starts(p)) = Count(s, Starts(p))
                      /\ Count(s \o one, Deltas(p)) = Count(s, Deltas(p))
                      /\ Count(s \o one, EndsOtherThan(R)) = Count(s, EndsOtherThan(R))
    BY DEF SameAccount
  <2> QED
    BY <1>2, <1>3, <1>4, <1>5
<1> QED
  BY <1>5, <1>6 DEF one

\* Releasing the buffer and closing the block: what was held back is sent.
LEMMA FlushAccount ==
  ASSUME TypeInv
  PROVE  LET flushed == events \o toolBuffer \o CloseBlock
         IN  /\ flushed \in Seq(Event)
             /\ \A p :
                  /\ Count(flushed, Starts(p))
                       = Count(events, Starts(p)) + Count(toolBuffer, Starts(p))
                  /\ Count(flushed, Deltas(p))
                       = Count(events, Deltas(p)) + Count(toolBuffer, Deltas(p))
             /\ \A R : Count(flushed, EndsOtherThan(R))
                         = Count(events, EndsOtherThan(R))
                             + Count(toolBuffer, EndsOtherThan(R))
<1> DEFINE released == events \o toolBuffer
           flushed == released \o CloseBlock
<1>1. events \in Seq(Event) /\ toolBuffer \in Seq(Event) /\ blockIndex \in Nat
  BY DEF TypeInv, TypeOK
<1>2. /\ released \in Seq(Event)
      /\ \A E : Count(released, E) = Count(events, E) + Count(toolBuffer, E)
  BY <1>1, CountConcat
<1>3. flushed \in Seq(Event) /\ SameAccount(flushed, released)
  <2> HIDE DEF released
  <2>1. CASE blockOpen
    BY <1>1, <1>2, <2>1, SilentEvent DEF CloseBlock
  <2>2. CASE ~blockOpen
    BY <1>2, <2>2, ConcatEmptySeq DEF CloseBlock, SameAccount
  <2> QED
    BY <2>1, <2>2
<1> QED
  BY <1>2, <1>3 DEF SameAccount

\* A step that sends nothing that is counted and changes none of the fields
\* the account is about.
LEMMA QuietStep ==
  ASSUME TypeInv, AccountInv, SameAccount(events', events),
         UNCHANGED <<toolBuffer, blockType, blockOpen, currentTool, truncated,
                     contentBuffer, logToolIds, logToolNames, logToolArgs,
                     lastFinishReason, ended>>,
         phase' = "log" => ended,
         phase' \in {"log", "done"} => yielded' = Len(events'),
         phase' = "done" => /\ ~blockOpen
                            /\ logged'.tools = LoggedTools
                            /\ logged'.args = [t \in Tools |->
                                 IF t \in LoggedTools THEN logToolArgs[t] ELSE 0]
  PROVE  AccountInv'
<1>1. \A tool \in Tools : CallAccount(tool)'
  <2> SUFFICES ASSUME NEW tool \in Tools
               PROVE  CallAccount(tool)'
    OBVIOUS
  <2>1. CallAccount(tool)
    BY DEF AccountInv
  <2> QED
    BY <2>1 DEF CallAccount, Waiting, Released, SameAccount
<1>2. TextAccount'
  BY DEF AccountInv, TextAccount, SameAccount
<1>3. FinishAccount'
  BY DEF AccountInv, FinishAccount, SameAccount
<1>4. LogAccount'
  <2>1. LoggedTools' = LoggedTools
    BY DEF LoggedTools
  <2> QED
    BY <2>1 DEF AccountInv, LogAccount
<1> QED
  BY <1>1, <1>2, <1>3, <1>4 DEF AccountInv

\* While the parts of a chunk are visited no finish_reason came before, and
\* no call was cut off; only an open block is a tool_use block.
LEMMA VisitFacts ==
  ASSUME Interleaving = FALSE, StreamInv, AccountInv,
         NEW part \in {TextPart, CallPart, FinishPart}, Visit(part)
  PROVE  /\ lastFinishReason = NoReason /\ truncated = {} /\ ~ended
         /\ phase = "chunk" /\ UNCHANGED <<phase, ended, yielded, logged>>
         /\ blockType = "tool_use" => blockOpen
         /\ Cardinality(truncated) = 0
<1>1. /\ phase = "chunk" /\ lastFinishReason = NoReason
      /\ UNCHANGED <<phase, ended, yielded, logged>>
  BY DEF Visit, TextPart, CallPart, FinishPart, UsagePart
<1>2. truncated = {} /\ ~ended
  BY <1>1 DEF StreamInv, AccountInv, FinishAccount
<1>3. messageStarted /\ ~finishEmitted /\ TranslatorInv
  BY <1>1, <1>2 DEF StreamInv, Translating
<1>4. blockType = "tool_use" => blockOpen
  BY <1>3 DEF TranslatorInv, BeforeBlocks, InText, InToolUse, NoBlock
<1> QED
  BY <1>1, <1>2, <1>4, FS_EmptySet

\* The account is kept by handle_text_delta.
LEMMA TextDeltaAccount ==
  ASSUME Interleaving = FALSE, TypeInv, StreamInv, AccountInv, HandleTextDelta
  PROVE  AccountInv'
<1> DEFINE i == IF blockType = "text" THEN blockIndex ELSE NextIndex
           start == BlockStart(i, "text", NoTool)
           delta == BlockDelta(i, "text", NoTool)
           flushed == events \o toolBuffer \o CloseBlock
           opened == IF blockType = "text" THEN events ELSE flushed \o <<start>>
<1>0. /\ lastFinishReason = NoReason /\ truncated = {} /\ ~ended /\ phase = "chunk"
      /\ UNCHANGED <<phase, ended, yielded, logged>>
      /\ Cardinality(truncated) = 0 /\ contentBuffer \in Nat
  BY VisitFacts DEF HandleTextDelta, TypeInv, TypeOK
<1>1. /\ i \in Nat /\ start \in Event /\ delta \in Event
      /\ \A p \in Tools : start \notin Starts(p) /\ delta \notin Deltas(p)
      /\ \A p : start \notin Deltas(p) /\ delta \notin Starts(p)
      /\ \A R : start \notin EndsOtherThan(R) /\ delta \notin EndsOtherThan(R)
      /\ delta \in Deltas(NoTool)
  <2>1. i \in Nat
    BY CloseBlockTyping DEF TypeInv, TypeOK
  <2> HIDE DEF i
  <2> QED
    BY <2>1, EventTyping, CountedEvents, EventsAssumption DEF BlockTypes
<1> DEFINE one == <<start>>
           two == <<delta>>
<1>2. /\ one \in Seq(Event) /\ \A E : Count(one, E) = IF start \in E THEN 1 ELSE 0
      /\ two \in Seq(Event) /\ \A E : Count(two, E) = IF delta \in E THEN 1 ELSE 0
  BY <1>1, OneEvent, CountOne
<1>3. /\ events \in Seq(Event) /\ toolBuffer \in Seq(Event) /\ CloseBlock \in Seq(Event)
      /\ \A E : Count(events, E) \in Nat /\ Count(toolBuffer, E) \in Nat
  BY CloseBlockTyping, CountTyping DEF TypeInv, TypeOK
<1>4. events' = opened \o two
  <2>1. events' = events \o (IF blockType = "text" THEN <<>>
                             ELSE toolBuffer \o CloseBlock \o one) \o two
    BY DEF HandleTextDelta
  <2>2. events \o <<>> = events
    BY <1>3, ConcatEmptySeq
  <2>3. events \o (toolBuffer \o CloseBlock \o one) = flushed \o one
    <3>1. toolBuffer \o CloseBlock \in Seq(Event)
      BY <1>3, ConcatProperties
    <3> HIDE DEF one
    <3> QED
      BY <1>2, <1>3, <3>1, ConcatAssociative
  <2>4. CASE blockType = "text"
    BY <2>1, <2>2, <2>4, Zenon
  <2>5. CASE blockType # "text"
    BY <2>1, <2>3, <2>5, Zenon
  <2> QED
    BY <2>4, <2>5
<1> HIDE DEF start, delta, one, two, i
<1>5. /\ opened \in Seq(Event)
      /\ \A p \in Tools :
           /\ Count(opened, Starts(p)) = Count(events, Starts(p))
                + IF blockType = "text" THEN 0 ELSE Count(toolBuffer, Starts(p))
           /\ Count(opened, Deltas(p)) = Count(events, Deltas(p))
                + IF blockType = "text" THEN 0 ELSE Count(toolBuffer, Deltas(p))
      /\ Count(opened, EndsOtherThan({})) = Count(events, EndsOtherThan({}))
      /\ Count(opened, Deltas(NoTool)) = Count(events, Deltas(NoTool))
  <2>1. CASE blockType = "text"
    BY <1>3, <2>1
  <2>2. CASE blockType # "text"
    <3>1. /\ flushed \in Seq(Event)
          /\ \A p :
               /\ Count(flushed, Starts(p))
                    = Count(events, Starts(p)) + Count(toolBuffer, Starts(p))
               /\ Count(flushed, Deltas(p))
                    = Count(events, Deltas(p)) + Count(toolBuffer, Deltas(p))
          /\ \A R : Count(flushed, EndsOtherThan(R))
                      = Count(events, EndsOtherThan(R)) + Count(toolBuffer, EndsOtherThan(R))
      BY FlushAccount
    <3> HIDE DEF flushed
    <3>2. /\ flushed \o one \in Seq(Event)
          /\ \A E : Count(flushed \o one, E) = Count(flushed, E) + Count(one, E)
      BY <1>2, <3>1, CountConcat
    <3>3. /\ Count(toolBuffer, Deltas(NoTool)) = 0
          /\ Count(toolBuffer, EndsOtherThan({})) = 0
      BY DEF AccountInv, TextAccount, FinishAccount
    <3>4. opened = flushed \o one
      BY <2>2 DEF one
    <3> HIDE DEF opened
    <3>5. opened \in Seq(Event) /\ \A E : Count(opened, E) = Count(flushed, E) + Count(one, E)
      BY <3>2, <3>4
    <3>6. /\ \A p : Count(one, Deltas(p)) = 0
          /\ \A p \in Tools : Count(one, Starts(p)) = 0
          /\ Count(one, EndsOtherThan({})) = 0
      BY <1>1, <1>2
    <3>7. ASSUME NEW p \in Tools
          PROVE  /\ Count(opened, Starts(p)) = Count(events, Starts(p)) + Count(toolBuffer, Starts(p))
                 /\ Count(opened, Deltas(p)) = Count(events, Deltas(p)) + Count(toolBuffer, Deltas(p))
      <4>1. /\ Count(opened, Starts(p)) = Count(flushed, Starts(p)) + 0
            /\ Count(opened, Deltas(p)) = Count(flushed, Deltas(p)) + 0
        BY <3>5, <3>6
      <4>2. /\ {Count(events, Starts(p)), Count(toolBuffer, Starts(p))} \subseteq Nat
            /\ {Count(events, Deltas(p)), Count(toolBuffer, Deltas(p))} \subseteq Nat
        BY <1>3
      <4> QED
        BY <3>1, <4>1, <4>2
    <3>8. Count(opened, EndsOtherThan({})) = Count(events, EndsOtherThan({}))
      BY <1>3, <3>1, <3>3, <3>5, <3>6
    <3>9. Count(opened, Deltas(NoTool)) = Count(events, Deltas(NoTool))
      BY <1>3, <3>1, <3>3, <3>5, <3>6
    <3> QED
      BY <2>2, <3>5, <3>7, <3>8, <3>9
  <2> QED
    BY <2>1, <2>2
<1> HIDE DEF opened
<1>6. \A E : Count(events', E) = Count(opened, E) + Count(two, E)
             /\ Count(opened, E) \in Nat
  <2>1. opened \in Seq(Event) /\ two \in Seq(Event)
    BY <1>2, <1>5
  <2>2. \A E : Count(opened \o two, E) = Count(opened, E) + Count(two, E)
    BY <2>1, CountConcat, Zenon
  <2>3. \A E : Count(opened, E) \in Nat
    BY <2>1, CountTyping, Zenon
  <2> QED
    BY <1>4, <2>2, <2>3
<1>7. /\ blockType' = "text" /\ blockOpen' = TRUE
      /\ toolBuffer' = IF blockType = "text" THEN toolBuffer ELSE <<>>
      /\ contentBuffer' = contentBuffer + 1
      /\ UNCHANGED <<currentTool, truncated, logToolIds, logToolNames, logToolArgs,
                     lastFinishReason>>
  BY DEF HandleTextDelta
<1>8. \A tool \in Tools : CallAccount(tool)'
  <2> SUFFICES ASSUME NEW tool \in Tools
               PROVE  CallAccount(tool)'
    OBVIOUS
  <2>1. CallAccount(tool) /\ logToolArgs[tool] \in Nat
    BY DEF AccountInv, TypeInv, TypeOK
  <2>2. ~Waiting(tool)' /\ (blockType = "text" => ~Waiting(tool))
    BY <1>7 DEF Waiting
  <2>3. Released(tool)' <=> Released(tool) \/ Waiting(tool)
    BY <1>7, <2>1, <2>2 DEF Released, CallAccount
  <2>4. /\ Count(toolBuffer', Starts(tool)) = 0 /\ Count(toolBuffer', Deltas(tool)) = 0
    BY <1>7, <2>1, <2>2, CountNone DEF CallAccount
  <2>5. /\ Count(two, Starts(tool)) = 0 /\ Count(two, Deltas(tool)) = 0
    BY <1>1, <1>2
  <2>6. /\ Count(events', Starts(tool)) = Count(opened, Starts(tool))
        /\ Count(events', Deltas(tool)) = Count(opened, Deltas(tool))
    BY <1>6, <2>5
  <2>7. Released(tool) => ~Waiting(tool)
    BY DEF Released
  <2> QED
    BY <1>3, <1>5, <1>7, <2>1, <2>2, <2>3, <2>4, <2>6, <2>7 DEF CallAccount
<1>9. TextAccount'
  BY <1>0, <1>1, <1>2, <1>3, <1>5, <1>6, <1>7, CountNone DEF AccountInv, TextAccount
<1>10. FinishAccount'
  <2>1. Count(events, EndsOtherThan({})) = 0 /\ Count(toolBuffer, EndsOtherThan({})) = 0
    BY <1>0 DEF AccountInv, FinishAccount
  <2>2. Count(opened, EndsOtherThan({})) = 0 /\ Count(two, EndsOtherThan({})) = 0
    BY <1>1, <1>2, <1>5, <2>1
  <2>3. Count(events', EndsOtherThan({})) = 0
    BY <1>6, <2>2
  <2>4. Count(toolBuffer', EndsOtherThan({})) = 0
    BY <1>7, <2>1, CountNone
  <2> QED
    BY <1>0, <1>7, <2>3, <2>4 DEF FinishAccount
<1>11. LogAccount'
  BY <1>0, <1>7 DEF AccountInv, LogAccount
<1> QED
  BY <1>8, <1>9, <1>10, <1>11 DEF AccountInv

\* The account is kept by handle_tool_call_delta with a name: the call before
\* is released, the new one is held back.
LEMMA NewToolCallAccount ==
  ASSUME Interleaving = FALSE, TypeInv, StreamInv, AccountInv,
         NEW tool \in Tools, NEW hasId \in BOOLEAN, NEW hasArgs \in BOOLEAN,
         HandleNewToolCall(tool, hasId, hasArgs)
  PROVE  AccountInv'
<1> DEFINE start == BlockStart(NextIndex, "tool_use", tool)
           delta == BlockDelta(NextIndex, "tool_use", tool)
           one == <<start>>
           rest == IF hasArgs THEN <<delta>> ELSE <<>>
           flushed == events \o toolBuffer \o CloseBlock
<1>0. /\ lastFinishReason = NoReason /\ truncated = {} /\ ~ended /\ phase = "chunk"
      /\ UNCHANGED <<phase, ended, yielded, logged>>
      /\ tool \notin logToolNames
  BY VisitFacts DEF HandleNewToolCall
<1>1. /\ start \in Event /\ delta \in Event
      /\ \A p : /\ start \in Starts(p) <=> p = tool
                /\ delta \in Deltas(p) <=> p = tool
                /\ start \notin Deltas(p) /\ delta \notin Starts(p)
      /\ \A R : start \notin EndsOtherThan(R) /\ delta \notin EndsOtherThan(R)
  BY CloseBlockTyping, EventTyping, CountedEvents DEF BlockTypes, TypeInv
<1>2. /\ events' = flushed /\ toolBuffer' = one \o rest
      /\ blockType' = "tool_use" /\ blockOpen' = TRUE /\ currentTool' = tool
      /\ logToolIds' \subseteq logToolIds \cup {tool}
      /\ logToolNames' = logToolNames \cup {tool}
      /\ logToolArgs' = [logToolArgs EXCEPT ![tool] = IF hasArgs THEN 1 ELSE 0]
      /\ UNCHANGED <<truncated, contentBuffer, lastFinishReason>>
  BY DEF HandleNewToolCall
<1>3. /\ one \in Seq(Event) /\ \A E : Count(one, E) = IF start \in E THEN 1 ELSE 0
      /\ rest \in Seq(Event)
      /\ \A E : Count(rest, E) = IF hasArgs /\ delta \in E THEN 1 ELSE 0
  BY <1>1, OneEvent, NoEvents, CountOne, CountNone
<1> HIDE DEF start, delta, one, rest
<1>4. /\ \A E : Count(events, E) \in Nat /\ Count(toolBuffer, E) \in Nat
      /\ \A E : Count(toolBuffer', E) = Count(one, E) + Count(rest, E)
      /\ \A p :
           /\ Count(events', Starts(p))
                = Count(events, Starts(p)) + Count(toolBuffer, Starts(p))
           /\ Count(events', Deltas(p))
                = Count(events, Deltas(p)) + Count(toolBuffer, Deltas(p))
      /\ \A R : Count(events', EndsOtherThan(R))
                  = Count(events, EndsOtherThan(R)) + Count(toolBuffer, EndsOtherThan(R))
  <2>1. events \in Seq(Event) /\ toolBuffer \in Seq(Event)
    BY DEF TypeInv, TypeOK
  <2>2. \A E : Count(toolBuffer', E) = Count(one, E) + Count(rest, E)
    BY <1>2, <1>3, CountConcat
  <2>3. \A E : Count(events, E) \in Nat /\ Count(toolBuffer, E) \in Nat
    BY <2>1, CountTyping
  <2> QED
    BY <1>2, <2>2, <2>3, FlushAccount
<1>5. ASSUME NEW t \in Tools
      PROVE  CallAccount(t)'
  <2>1. CallAccount(t) /\ logToolArgs[t] \in Nat /\ logToolArgs \in [Tools -> Nat]
    BY DEF AccountInv, TypeInv, TypeOK
  <2>2. Waiting(t)' <=> t = tool
    BY <1>2 DEF Waiting
  <2>3. CASE t = tool
    <3>1. ~Released(t) /\ ~Waiting(t) /\ ~Released(t)'
      BY <1>0, <2>1, <2>2, <2>3 DEF Released, CallAccount
    <3>2. logToolArgs'[t] = IF hasArgs THEN 1 ELSE 0
      BY <1>2, <2>1, <2>3
    <3>3. Count(toolBuffer', Starts(t)) = 1 /\ Count(toolBuffer', Deltas(t)) = logToolArgs'[t]
      BY <1>1, <1>3, <1>4, <2>3, <3>2
    <3> QED
      BY <1>0, <1>2, <1>4, <2>1, <2>2, <2>3, <3>1, <3>3 DEF CallAccount
  <2>4. CASE t # tool
    <3>1. Released(t)' <=> Released(t) \/ Waiting(t)
      BY <1>2, <2>1, <2>2, <2>4 DEF Released, CallAccount
    <3>2. Released(t) => ~Waiting(t)
      BY DEF Released
    <3>3. logToolArgs'[t] = logToolArgs[t]
      BY <1>2, <2>1, <2>4
    <3>4. Count(toolBuffer', Starts(t)) = 0 /\ Count(toolBuffer', Deltas(t)) = 0
      BY <1>1, <1>3, <1>4, <2>4
    <3> QED
      BY <1>4, <2>1, <2>2, <2>4, <3>1, <3>2, <3>3, <3>4 DEF CallAccount
  <2> QED
    BY <2>3, <2>4
<1>6. TextAccount'
  <2>1. tool # NoTool
    BY EventsAssumption
  <2>2. Count(toolBuffer', Deltas(NoTool)) = 0
    BY <1>1, <1>3, <1>4, <2>1
  <2>3. Count(events', Deltas(NoTool)) = Count(events, Deltas(NoTool))
    BY <1>4 DEF AccountInv, TextAccount
  <2> QED
    BY <1>2, <2>2, <2>3 DEF AccountInv, TextAccount
<1>7. FinishAccount'
  <2>1. Count(toolBuffer', EndsOtherThan({})) = 0
    BY <1>1, <1>3, <1>4
  <2>2. Count(events, EndsOtherThan({})) = 0 /\ Count(toolBuffer, EndsOtherThan({})) = 0
    BY <1>0 DEF AccountInv, FinishAccount
  <2>3. Count(events', EndsOtherThan({})) = 0
    BY <1>4, <2>2
  <2> QED
    BY <1>0, <1>2, <2>1, <2>3 DEF FinishAccount
<1>8. LogAccount'
  BY <1>0, <1>2 DEF AccountInv, LogAccount
<1> QED
  BY <1>5, <1>6, <1>7, <1>8 DEF AccountInv

\* The account is kept by handle_tool_call_delta without a name: the piece
\* goes to the buffer of the call that is held back.
LEMMA ArgumentsAccount ==
  ASSUME Interleaving = FALSE, TypeInv, StreamInv, AccountInv,
         NEW tool \in Tools, HandleToolCallArguments(tool)
  PROVE  AccountInv' /\ Waiting(tool)
<1> DEFINE delta == BlockDelta(blockIndex, "tool_use", tool)
<1>0. /\ lastFinishReason = NoReason /\ truncated = {} /\ ~ended /\ phase = "chunk"
      /\ UNCHANGED <<phase, ended, yielded, logged>>
      /\ Waiting(tool)
  BY VisitFacts DEF HandleToolCallArguments, Continuable, Waiting
<1>1. /\ delta \in Event
      /\ \A p : (delta \in Deltas(p) <=> p = tool) /\ delta \notin Starts(p)
      /\ \A R : delta \notin EndsOtherThan(R)
  BY EventTyping, CountedEvents DEF BlockTypes, TypeInv, TypeOK
<1>2. /\ toolBuffer \in Seq(Event)
      /\ toolBuffer' = Append(toolBuffer, delta)
      /\ logToolArgs' = [logToolArgs EXCEPT ![tool] = @ + 1]
      /\ UNCHANGED <<events, blockType, blockOpen, currentTool, truncated,
                     contentBuffer, logToolIds, logToolNames, lastFinishReason>>
  BY DEF HandleToolCallArguments, TypeInv, TypeOK
<1> HIDE DEF delta
<1>3. \A E : /\ Count(toolBuffer, E) \in Nat
             /\ Count(toolBuffer', E) = Count(toolBuffer, E) + IF delta \in E THEN 1 ELSE 0
  BY <1>1, <1>2, CountAppend, CountTyping
<1>4. ASSUME NEW t \in Tools
      PROVE  CallAccount(t)'
  <2>1. CallAccount(t) /\ logToolArgs[t] \in Nat /\ logToolArgs \in [Tools -> Nat]
    BY DEF AccountInv, TypeInv, TypeOK
  <2>2. /\ Waiting(t)' <=> Waiting(t)
        /\ Released(t)' <=> Released(t)
    BY <1>2 DEF Waiting, Released
  <2>3. Waiting(t) <=> t = tool
    BY <1>0 DEF Waiting
  <2>4. logToolArgs'[t] = logToolArgs[t] + IF t = tool THEN 1 ELSE 0
    BY <1>2, <2>1
  <2>5. /\ Count(toolBuffer', Starts(t)) = Count(toolBuffer, Starts(t))
        /\ Count(toolBuffer', Deltas(t))
             = Count(toolBuffer, Deltas(t)) + IF t = tool THEN 1 ELSE 0
    BY <1>1, <1>3
  <2>6. Released(t) => ~Waiting(t)
    BY DEF Released
  <2> QED
    BY <1>2, <2>1, <2>2, <2>3, <2>4, <2>5, <2>6 DEF CallAccount
<1>5. TextAccount'
  <2>1. Count(toolBuffer', Deltas(NoTool)) = Count(toolBuffer, Deltas(NoTool))
    BY <1>1, <1>3, EventsAssumption
  <2> QED
    BY <1>2, <2>1 DEF AccountInv, TextAccount
<1>6. FinishAccount'
  <2>1. Count(toolBuffer', EndsOtherThan({})) = Count(toolBuffer, EndsOtherThan({}))
    BY <1>1, <1>3
  <2> QED
    BY <1>0, <1>2, <2>1 DEF AccountInv, FinishAccount
<1>7. LogAccount'
  BY <1>0, <1>2 DEF AccountInv, LogAccount
<1> QED
  BY <1>0, <1>4, <1>5, <1>6, <1>7 DEF AccountInv

\* Nothing is waiting any more once the block is closed and the buffer empty.
LEMMA SettledAccount ==
  ASSUME TypeInv, AccountInv, NEW tool \in Tools,
         toolBuffer' = <<>>, blockOpen' = FALSE,
         UNCHANGED <<truncated, logToolNames, logToolArgs>>,
         \A p \in Tools :
           /\ Count(events', Starts(p))
                = Count(events, Starts(p)) + Count(toolBuffer, Starts(p))
           /\ Count(events', Deltas(p))
                = Count(events, Deltas(p)) + Count(toolBuffer, Deltas(p))
  PROVE  CallAccount(tool)'
<1>1. CallAccount(tool) /\ logToolArgs[tool] \in Nat
  BY DEF AccountInv, TypeInv, TypeOK
<1>2. ~Waiting(tool)' /\ (Released(tool)' <=> Released(tool) \/ Waiting(tool))
  BY <1>1 DEF Waiting, Released, CallAccount
<1>3. Released(tool) => ~Waiting(tool)
  BY DEF Released
<1>4. Count(toolBuffer', Starts(tool)) = 0 /\ Count(toolBuffer', Deltas(tool)) = 0
  BY CountNone
<1> QED
  BY <1>1, <1>2, <1>3, <1>4 DEF CallAccount

\* The account is kept by handle_finish: a call that is cut off is given up
\* as a whole, any other is released.
LEMMA FinishKeepsAccount ==
  ASSUME Interleaving = FALSE, TypeInv, StreamInv, AccountInv,
         NEW reason \in FinishReasons, HandleFinish(reason)
  PROVE  AccountInv'
<1>0. /\ lastFinishReason = NoReason /\ truncated = {} /\ ~ended /\ phase = "chunk"
      /\ UNCHANGED <<phase, ended, yielded, logged>>
      /\ blockType = "tool_use" => blockOpen /\ currentTool \in Tools
      /\ Cardinality(truncated) = 0 /\ contentBuffer \in Nat
  BY VisitFacts DEF HandleFinish, TypeInv, TypeOK
<1>1. /\ lastFinishReason' = reason /\ reason # NoReason
      /\ UNCHANGED <<contentBuffer, currentTool, logToolIds, logToolNames, logToolArgs>>
  BY EventsAssumption DEF HandleFinish
<1>2. /\ \A E : Count(events, E) \in Nat /\ Count(toolBuffer, E) \in Nat
      /\ events \in Seq(Event)
  BY CountTyping DEF TypeInv, TypeOK
<1>3. /\ Count(events, EndsOtherThan({})) = 0 /\ Count(toolBuffer, EndsOtherThan({})) = 0
      /\ Count(toolBuffer, Deltas(NoTool)) = 0
  BY <1>0 DEF AccountInv, FinishAccount, TextAccount
<1>4. CASE FinishTruncated(reason)
  <2> DEFINE start == BlockStart(blockIndex, "text", NoTool)
             delta == BlockDelta(blockIndex, "text", NoTool)
             stop == BlockStop(blockIndex)
             last == MessageDelta(StopReason(reason), OutputTokens(outputText + 1, 0))
             notice == <<start, delta, stop, last>>
  <2>1. /\ start \in Event /\ delta \in Event /\ stop \in Event /\ last \in Event
        /\ \A p \in Tools : start \notin Starts(p) /\ delta \notin Deltas(p)
        /\ \A p : start \notin Deltas(p) /\ delta \notin Starts(p)
        /\ delta \in Deltas(NoTool)
        /\ \A R : start \notin EndsOtherThan(R) /\ delta \notin EndsOtherThan(R)
    <3>1. /\ blockIndex \in Nat /\ StopReason(reason) \in StopReasons
          /\ OutputTokens(outputText + 1, 0) \in Usage
      BY StopReasonTyping, UsageTyping DEF TypeInv, TypeOK
    <3> QED
      BY <3>1, EventTyping, CountedEvents, EventsAssumption DEF BlockTypes
  <2>2. /\ \A p : /\ stop \notin Starts(p) /\ last \notin Starts(p)
                  /\ stop \notin Deltas(p) /\ last \notin Deltas(p)
        /\ \A R : stop \notin EndsOtherThan(R)
        /\ last \notin EndsOtherThan({"max_tokens"})
    <3>1. StopReason(reason) = "max_tokens" /\ StopReason(reason) \in StopReasons
      BY <1>4, StopReasonTyping DEF FinishTruncated, StopReason
    <3>2. OutputTokens(outputText + 1, 0) \in Usage /\ blockIndex \in Nat
      BY UsageTyping DEF TypeInv, TypeOK
    <3> QED
      BY <3>1, <3>2, CountedEvents
  <2>3. /\ events' = events \o notice /\ toolBuffer' = <<>> /\ blockOpen' = FALSE
        /\ blockType = "tool_use" /\ truncated' = {currentTool}
    BY <1>0, <1>4 DEF FinishTruncated
  <2>4. notice \in Seq(Event)
    <3> HIDE DEF start, delta, stop, last
    <3> QED
      BY <2>1
  <2>5. \A E : Count(notice, E) = (IF start \in E THEN 1 ELSE 0)
                 + (IF delta \in E THEN 1 ELSE 0) + (IF stop \in E THEN 1 ELSE 0)
                 + (IF last \in E THEN 1 ELSE 0)
    <3> HIDE DEF start, delta, stop, last
    <3> QED
      BY CountFour
  <2> HIDE DEF start, delta, stop, last, notice
  <2>6. \A E : Count(events', E) = Count(events, E) + Count(notice, E)
    BY <1>2, <2>3, <2>4, CountConcat
  <2>7. ASSUME NEW t \in Tools
        PROVE  CallAccount(t)'
    <3>1. CallAccount(t) /\ logToolArgs[t] \in Nat
      BY DEF AccountInv, TypeInv, TypeOK
    <3>2. Count(notice, Starts(t)) = 0 /\ Count(notice, Deltas(t)) = 0
      BY <2>1, <2>2, <2>5
    <3>3. /\ Count(events', Starts(t)) = Count(events, Starts(t))
          /\ Count(events', Deltas(t)) = Count(events, Deltas(t))
      BY <1>2, <2>6, <3>2
    <3>4. Count(toolBuffer', Starts(t)) = 0 /\ Count(toolBuffer', Deltas(t)) = 0
      BY <2>3, CountNone
    <3>5. ~Waiting(t)' /\ (Waiting(t) <=> t = currentTool)
      BY <1>0, <2>3 DEF Waiting
    <3>6. Released(t)' <=> Released(t)
      BY <1>0, <1>1, <2>3, <3>5 DEF Released
    <3> QED
      BY <1>1, <3>1, <3>3, <3>4, <3>5, <3>6 DEF CallAccount
  <2>8. TextAccount'
    <3>1. Count(notice, Deltas(NoTool)) = 1
      BY <2>1, <2>2, <2>5
    <3>2. Cardinality(truncated') = 1
      BY <2>3, FS_Singleton
    <3>3. Count(events', Deltas(NoTool)) = Count(events, Deltas(NoTool)) + 1
      BY <2>6, <3>1
    <3>4. Count(toolBuffer', Deltas(NoTool)) = 0
      BY <2>3, CountNone
    <3> QED
      BY <1>0, <1>1, <3>2, <3>3, <3>4 DEF AccountInv, TextAccount
  <2>9. FinishAccount'
    <3>1. Count(notice, EndsOtherThan({"max_tokens"})) = 0
      BY <2>1, <2>2, <2>5
    <3>2. Count(events, EndsOtherThan({"max_tokens"})) = 0
      BY <1>2, <1>3, NoEnds
    <3>3. Count(events', EndsOtherThan({"max_tokens"})) = 0
      BY <2>6, <3>1, <3>2
    <3>4. Count(toolBuffer', EndsOtherThan({})) = 0
      BY <2>3, CountNone
    <3> QED
      BY <1>0, <1>1, <2>3, <3>3, <3>4 DEF FinishAccount
  <2>10. LogAccount'
    BY <1>0, <1>1, <2>3 DEF AccountInv, LogAccount
  <2> QED
    BY <2>7, <2>8, <2>9, <2>10 DEF AccountInv
<1>5. CASE FinishComplete(reason)
  <2> DEFINE last == MessageDelta(StopReason(reason), OutputTokens(outputText, outputToolJson))
             flushed == events \o toolBuffer \o CloseBlock
  <2>1. /\ last \in Event
        /\ \A p : last \notin Starts(p) /\ last \notin Deltas(p)
    <3>1. /\ StopReason(reason) \in StopReasons
          /\ OutputTokens(outputText, outputToolJson) \in Usage
      BY StopReasonTyping, UsageTyping DEF TypeInv, TypeOK
    <3> QED
      BY <3>1, EventTyping, CountedEvents
  <2>2. /\ events' = flushed \o <<last>> /\ toolBuffer' = <<>> /\ blockOpen' = FALSE
        /\ UNCHANGED truncated
    BY <1>5 DEF FinishComplete
  <2> HIDE DEF last
  <2>3. \A p : /\ Count(flushed, Starts(p))
                    = Count(events, Starts(p)) + Count(toolBuffer, Starts(p))
               /\ Count(flushed, Deltas(p))
                    = Count(events, Deltas(p)) + Count(toolBuffer, Deltas(p))
    BY FlushAccount
  <2>4. flushed \in Seq(Event)
    BY FlushAccount
  <2> DEFINE one == <<last>>
  <2>5. one \in Seq(Event) /\ \A E : Count(one, E) = IF last \in E THEN 1 ELSE 0
    BY <2>1, CountOne
  <2>6. events' = flushed \o one
    BY <2>2
  <2> HIDE DEF flushed, one
  <2>7. \A E : Count(events', E) = Count(flushed, E) + Count(one, E)
    BY <2>4, <2>5, <2>6, CountConcat
  <2>8. \A p : /\ Count(events', Starts(p))
                    = Count(events, Starts(p)) + Count(toolBuffer, Starts(p))
               /\ Count(events', Deltas(p))
                    = Count(events, Deltas(p)) + Count(toolBuffer, Deltas(p))
    BY <1>2, <2>1, <2>3, <2>5, <2>7
  <2>9. \A tool \in Tools : CallAccount(tool)'
    BY <1>1, <2>2, <2>8, SettledAccount
  <2>10. TextAccount'
    BY <1>1, <1>2, <1>3, <2>2, <2>8, CountNone DEF AccountInv, TextAccount
  <2>11. FinishAccount' /\ LogAccount'
    BY <1>0, <1>1, <2>2, CountNone DEF AccountInv, FinishAccount, LogAccount
  <2> QED
    BY <2>9, <2>10, <2>11 DEF AccountInv
<1> QED
  BY <1>4, <1>5 DEF HandleFinish

\* The account is kept by finalize, which releases what is held back.
LEMMA FinalizeAccount ==
  ASSUME Interleaving = FALSE, TypeInv, StreamInv, AccountInv, Finalize
  PROVE  AccountInv'
<1>0. /\ phase = "pull" /\ ~ended /\ ended' = TRUE /\ yielded = Len(events)
      /\ ~messageStarted => ~blockOpen
      /\ UNCHANGED <<truncated, lastFinishReason, contentBuffer, currentTool, yielded,
                     logToolIds, logToolNames, logToolArgs, logged>>
  BY DEF Finalize, StreamInv, Translating, TranslatorInv, BeforeMessage, accumulators
<1>1. CASE ~messageStarted
  <2>1. UNCHANGED <<events, toolBuffer, blockOpen, blockType>> /\ phase' = "log"
    BY <1>1 DEF Finalize
  <2>2. ASSUME NEW tool \in Tools
        PROVE  CallAccount(tool)'
    <3>1. CallAccount(tool)
      BY DEF AccountInv
    <3> QED
      BY <1>0, <2>1, <3>1 DEF CallAccount, Waiting, Released
  <2>3. TextAccount' /\ FinishAccount'
    BY <1>0, <2>1 DEF AccountInv, TextAccount, FinishAccount
  <2>4. LogAccount'
    BY <1>0, <1>1, <2>1 DEF AccountInv, LogAccount
  <2> QED
    BY <2>2, <2>3, <2>4 DEF AccountInv
<1>2. CASE messageStarted
  <2> DEFINE flushed == events \o toolBuffer \o CloseBlock
             last == MessageDelta("end_turn", OutputTokens(outputText, outputToolJson))
             closing == IF finishEmitted THEN <<>> ELSE <<last>>
             ended1 == flushed \o closing
             stop == MessageStop
  <2>1. /\ events' = Append(ended1, stop) /\ toolBuffer' = <<>> /\ blockOpen' = FALSE
        /\ phase' = "yield"
    <3>1. /\ events' = ended1 \o <<stop>> /\ toolBuffer' = <<>> /\ blockOpen' = FALSE
          /\ phase' = "yield"
      BY <1>2 DEF Finalize, FinalEvents, FinalDelta
    <3>2. flushed \in Seq(Event)
      BY FlushAccount
    <3>3. closing \in Seq(Event) /\ stop \in Event
      BY EventTyping, UsageTyping DEF TypeInv, TypeOK, StopReasons
    <3> HIDE DEF flushed, closing, stop
    <3>4. ended1 \in Seq(Event)
      BY <3>2, <3>3, ConcatProperties
    <3> HIDE DEF ended1
    <3> QED
      BY <3>1, <3>3, <3>4, AppendIsConcat
  <2>2. /\ last \in Event /\ stop \in Event
        /\ \A p : /\ last \notin Starts(p) /\ last \notin Deltas(p)
                  /\ stop \notin Starts(p) /\ stop \notin Deltas(p)
        /\ \A R : stop \notin EndsOtherThan(R)
    <3>1. OutputTokens(outputText, outputToolJson) \in Usage /\ "end_turn" \in StopReasons
      BY UsageTyping DEF TypeInv, TypeOK, StopReasons
    <3>2. 0 \in Nat
      OBVIOUS
    <3> QED
      BY <3>1, <3>2, EventTyping, CountedEvents
  <2>3. /\ flushed \in Seq(Event)
        /\ \A p : /\ Count(flushed, Starts(p))
                       = Count(events, Starts(p)) + Count(toolBuffer, Starts(p))
                  /\ Count(flushed, Deltas(p))
                       = Count(events, Deltas(p)) + Count(toolBuffer, Deltas(p))
        /\ \A R : Count(flushed, EndsOtherThan(R))
                    = Count(events, EndsOtherThan(R)) + Count(toolBuffer, EndsOtherThan(R))
    BY FlushAccount
  <2> HIDE DEF last, stop
  <2>4. /\ closing \in Seq(Event)
        /\ \A E : last \notin E \/ finishEmitted => Count(closing, E) = 0
    BY <2>2, NoEvents, OneEvent, CountNone, CountOne
  <2> HIDE DEF flushed, closing
  <2>5. ended1 \in Seq(Event) /\ \A E : Count(ended1, E) = Count(flushed, E) + Count(closing, E)
    BY <2>3, <2>4, CountConcat
  <2> HIDE DEF ended1
  <2>6. \A E : Count(events', E) = Count(ended1, E) + IF stop \in E THEN 1 ELSE 0
    BY <2>1, <2>2, <2>5, CountAppend
  <2>7. /\ \A E : Count(events, E) \in Nat /\ Count(toolBuffer, E) \in Nat
        /\ toolBuffer \in Seq(Event) /\ contentBuffer \in Nat
    BY CountTyping DEF TypeInv, TypeOK
  <2>8. \A p : /\ Count(events', Starts(p))
                    = Count(events, Starts(p)) + Count(toolBuffer, Starts(p))
               /\ Count(events', Deltas(p))
                    = Count(events, Deltas(p)) + Count(toolBuffer, Deltas(p))
    BY <2>2, <2>3, <2>4, <2>5, <2>6, <2>7
  <2>9. \A tool \in Tools : CallAccount(tool)'
    BY <1>0, <2>1, <2>8, SettledAccount
  <2>10. TextAccount'
    <3>1. Count(toolBuffer, Deltas(NoTool)) = 0
      BY DEF AccountInv, TextAccount
    <3>2. Count(events', Deltas(NoTool)) = Count(events, Deltas(NoTool))
      BY <2>7, <2>8, <3>1
    <3> QED
      BY <1>0, <2>1, <3>2, CountNone DEF AccountInv, TextAccount
  <2>11. FinishAccount'
    <3>1. CASE truncated # {}
      <4>1. finishEmitted /\ Count(events, EndsOtherThan({"max_tokens"})) = 0
        BY <3>1 DEF AccountInv, FinishAccount, StreamInv
      <4>2. Count(toolBuffer, EndsOtherThan({"max_tokens"})) = 0
        BY <2>7, NoEnds DEF AccountInv, FinishAccount
      <4>3. Count(events', EndsOtherThan({"max_tokens"})) = 0
        BY <2>2, <2>3, <2>4, <2>5, <2>6, <4>1, <4>2
      <4> QED
        BY <1>0, <2>1, <4>3, CountNone DEF AccountInv, FinishAccount
    <3>2. CASE truncated = {}
      BY <1>0, <2>1, <3>2, CountNone DEF FinishAccount
    <3> QED
      BY <3>1, <3>2
  <2>12. LogAccount'
    BY <1>0, <2>1 DEF AccountInv, LogAccount
  <2> QED
    BY <2>9, <2>10, <2>11, <2>12 DEF AccountInv
<1> QED
  BY <1>1, <1>2

\* AccountInv is inductive relative to TypeInv and StreamInv.
LEMMA AccountInvariant ==
  ASSUME Interleaving = FALSE
  PROVE  Spec => []AccountInv
<1>1. Init => AccountInv
  <2> SUFFICES ASSUME Init
               PROVE  AccountInv
    OBVIOUS
  <2>1. \A E : Count(events, E) = 0 /\ Count(toolBuffer, E) = 0
    BY CountNone DEF Init
  <2>2. Cardinality(truncated) = 0
    BY FS_EmptySet DEF Init
  <2>3. \A tool \in Tools : CallAccount(tool)
    BY <2>1 DEF Init, CallAccount, Waiting, Released
  <2>4. TextAccount /\ FinishAccount
    BY <2>1, <2>2 DEF Init, TextAccount, FinishAccount
  <2>5. LogAccount
    BY DEF Init, LogAccount
  <2> QED
    BY <2>3, <2>4, <2>5 DEF AccountInv
<1>2. TypeInv /\ StreamInv /\ AccountInv /\ [Next]_vars => AccountInv'
  <2> SUFFICES ASSUME TypeInv, StreamInv, AccountInv, [Next]_vars
               PROVE  AccountInv'
    OBVIOUS
  <2>0. SameAccount(events, events) /\ events \in Seq(Event)
    BY DEF SameAccount, TypeInv, TypeOK
  <2>1. CASE ReceiveChunk
    <3>1. SameAccount(events', events)
      <4>1. Append(events, MessageStart) = events \o <<MessageStart>>
        BY <2>0, EventTyping, AppendIsConcat
      <4>2. SameAccount(events \o <<MessageStart>>, events)
        BY <2>0, SilentEvent
      <4> QED
        BY <2>0, <2>1, <4>1, <4>2 DEF ReceiveChunk
    <3> QED
      BY <2>1, <3>1, QuietStep DEF ReceiveChunk, accumulators
  <2>2. CASE HandleTextDelta
    BY <2>2, TextDeltaAccount
  <2>3. ASSUME NEW tool \in Tools, NEW hasId \in BOOLEAN, NEW hasArgs \in BOOLEAN,
               HandleNewToolCall(tool, hasId, hasArgs)
        PROVE  AccountInv'
    BY <2>3, NewToolCallAccount
  <2>4. ASSUME NEW tool \in Tools, HandleToolCallArguments(tool)
        PROVE  AccountInv'
    BY <2>4, ArgumentsAccount
  <2>5. ASSUME NEW reason \in FinishReasons, HandleFinish(reason)
        PROVE  AccountInv'
    BY <2>5, FinishKeepsAccount
  <2>6. CASE CaptureUsage
    BY <2>0, <2>6, QuietStep DEF CaptureUsage, Visit, accumulators, AccountInv, LogAccount
  <2>7. CASE FinishChunk
    BY <2>0, <2>7, QuietStep DEF FinishChunk, translator, accumulators
  <2>8. CASE Yield
    <3>1. Len(events) \in Nat /\ yielded \in Nat /\ yielded < Len(events)
      BY <2>8, LenProperties DEF Yield, StreamInv, TypeInv, TypeOK
    <3> QED
      BY <2>0, <2>8, <3>1, QuietStep DEF Yield, translator, accumulators
  <2>9. CASE Finalize
    BY <2>9, FinalizeAccount
  <2>10. CASE UpstreamError
    <3>1. Append(events, ErrorEvent) = events \o <<ErrorEvent>>
      BY <2>0, EventTyping, AppendIsConcat
    <3>2. SameAccount(events \o <<ErrorEvent>>, events)
      BY <2>0, SilentEvent
    <3> QED
      BY <2>10, <3>1, <3>2, QuietStep DEF UpstreamError, translator, accumulators
  <2>11. CASE ClientDisconnect
    BY <2>0, <2>11, QuietStep DEF ClientDisconnect, translator, accumulators
  <2>12. CASE WriteLog
    <3>1. ~blockOpen /\ yielded = Len(events)
      BY <2>12 DEF WriteLog, AccountInv, LogAccount
    <3> QED
      BY <2>0, <2>12, <3>1, QuietStep DEF WriteLog, translator, accumulators
  <2>13. CASE UNCHANGED vars
    BY <2>0, <2>13, QuietStep DEF vars, translator, accumulators, AccountInv, LogAccount
  <2> QED
    BY <2>1, <2>2, <2>3, <2>4, <2>5, <2>6, <2>7, <2>8, <2>9, <2>10, <2>11,
       <2>12, <2>13 DEF Next, ProcessChunk, Terminated
<1> QED
  BY <1>1, <1>2, TypeInvariant, StreamInvariant, PTL DEF Spec

\* The events of a call are the counted ones.
LEMMA EventsCounted ==
  ASSUME TypeInv, NEW tool
  PROVE  /\ DeltasOf(tool) = Places(events, Deltas(tool))
         /\ EventsOf(tool) \ DeltasOf(tool) = Places(events, Starts(tool))
         /\ EventsOf(tool) = {} <=> /\ Count(events, Starts(tool)) = 0
                                    /\ Count(events, Deltas(tool)) = 0
<1>1. \A i \in 1 .. Len(events) : events[i] \in Event
  BY ElementOfSeq DEF TypeInv, TypeOK
<1>2. DeltasOf(tool) = Places(events, Deltas(tool))
  BY <1>1 DEF DeltasOf, EventsOf, Places, Deltas
<1>3. EventsOf(tool) \ DeltasOf(tool) = Places(events, Starts(tool))
  BY <1>1 DEF DeltasOf, EventsOf, Places, Starts
<1>4. DeltasOf(tool) \subseteq EventsOf(tool)
  BY DEF DeltasOf
<1>5. /\ Count(events, Starts(tool)) = 0 <=> Places(events, Starts(tool)) = {}
      /\ Count(events, Deltas(tool)) = 0 <=> Places(events, Deltas(tool)) = {}
  BY CountTyping DEF TypeInv, TypeOK
<1> QED
  BY <1>2, <1>3, <1>4, <1>5

\* For every set of tool calls and every bound on the input: a call that the
\* output limit cut off is in no event the client ever receives, and the only
\* stop_reason it is told then is max_tokens (handle_finish).
THEOREM TruncatedUnsent ==
  ASSUME Interleaving = FALSE
  PROVE  Spec => []TruncatedNeverSent
<1>1. TypeInv /\ AccountInv => TruncatedNeverSent
  <2> SUFFICES ASSUME TypeInv, AccountInv
               PROVE  TruncatedNeverSent
    OBVIOUS
  <2>1. ASSUME NEW tool \in truncated
        PROVE  EventsOf(tool) = {}
    <3>1. tool \in Tools /\ ~Released(tool)
      BY DEF TypeInv, TypeOK, Released
    <3> QED
      BY <3>1, EventsCounted DEF AccountInv, CallAccount
  <2>2. ASSUME truncated # {}, NEW i \in FinishEvents
        PROVE  events[i].stop = "max_tokens"
    <3>1. Places(events, EndsOtherThan({"max_tokens"})) = {}
      BY <2>2, CountTyping DEF AccountInv, FinishAccount, TypeInv, TypeOK
    <3>2. events[i] \in Event /\ events[i].kind = "message_delta" /\ i \in 1 .. Len(events)
      BY ElementOfSeq DEF FinishEvents, TypeInv, TypeOK
    <3> QED
      BY <3>1, <3>2 DEF Places, EndsOtherThan
  <2> QED
    BY <2>1, <2>2 DEF TruncatedNeverSent
<1> QED
  BY <1>1, TypeInvariant, AccountInvariant, PTL

\* For every set of tool calls and every bound on the input: once an event of
\* a call was released, no argument of it arrives any more (tool_use_buffer).
THEOREM ReleasedComplete ==
  ASSUME Interleaving = FALSE
  PROVE  Spec => ReleasedWhenComplete
<1>1. TypeInv /\ StreamInv /\ AccountInv /\ [Next]_vars
        => [\A tool \in Tools :
              EventsOf(tool) # {} => logToolArgs'[tool] = logToolArgs[tool]]_vars
  <2> SUFFICES ASSUME TypeInv, StreamInv, AccountInv, Next, NEW tool \in Tools,
                      EventsOf(tool) # {}
               PROVE  logToolArgs'[tool] = logToolArgs[tool]
    OBVIOUS
  <2>0. Released(tool) /\ logToolArgs \in [Tools -> Nat]
    BY EventsCounted DEF AccountInv, CallAccount, TypeInv, TypeOK
  <2>1. ASSUME NEW t \in Tools, NEW hasId \in BOOLEAN, NEW hasArgs \in BOOLEAN,
               HandleNewToolCall(t, hasId, hasArgs)
        PROVE  logToolArgs'[tool] = logToolArgs[tool]
    BY <2>0, <2>1 DEF HandleNewToolCall, Released
  <2>2. ASSUME NEW t \in Tools, HandleToolCallArguments(t)
        PROVE  logToolArgs'[tool] = logToolArgs[tool]
    <3>1. Waiting(t)
      BY <2>2, ArgumentsAccount
    <3>2. t # tool
      BY <2>0, <3>1 DEF Released
    <3> QED
      BY <2>0, <2>2, <3>2 DEF HandleToolCallArguments
  <2>3. \/ ReceiveChunk \/ HandleTextDelta \/ \E reason \in FinishReasons : HandleFinish(reason)
        \/ CaptureUsage \/ FinishChunk \/ Yield \/ Finalize \/ UpstreamError
        \/ ClientDisconnect \/ WriteLog \/ UNCHANGED vars
        => UNCHANGED logToolArgs
    BY DEF ReceiveChunk, HandleTextDelta, HandleFinish, CaptureUsage, FinishChunk,
           Yield, Finalize, UpstreamError, ClientDisconnect, WriteLog, vars, accumulators
  <2> QED
    BY <2>1, <2>2, <2>3 DEF Next, ProcessChunk, Terminated
<1> QED
  BY <1>1, TypeInvariant, StreamInvariant, AccountInvariant, PTL
  DEF Spec, ReleasedWhenComplete

\* For every set of tool calls and every bound on the input: the log has the
\* calls, argument pieces and texts of the answer the client received as a
\* whole (handle_native_tools_streaming).
THEOREM LogAgrees ==
  ASSUME Interleaving = FALSE
  PROVE  Spec => []LogMatchesWire
<1>1. TypeInv /\ AccountInv => LogMatchesWire
  <2> SUFFICES ASSUME TypeInv, AccountInv, phase = "done"
               PROVE  /\ \A tool \in Tools :
                           /\ tool \in logged.tools <=> EventsOf(tool) # {}
                           /\ Cardinality(DeltasOf(tool)) = logged.args[tool]
                           /\ Cardinality(EventsOf(tool) \ DeltasOf(tool)) <= 1
                      /\ Cardinality(DeltasOf(NoTool)) = contentBuffer + Cardinality(truncated)
                      /\ yielded = Len(events)
    BY DEF LogMatchesWire
  <2>1. /\ ~blockOpen /\ yielded = Len(events) /\ logToolIds \subseteq logToolNames
        /\ logged.tools = LoggedTools
        /\ logged.args = [t \in Tools |-> IF t \in LoggedTools THEN logToolArgs[t] ELSE 0]
    BY DEF AccountInv, LogAccount
  <2>2. ASSUME NEW tool \in Tools
        PROVE  /\ tool \in logged.tools <=> EventsOf(tool) # {}
               /\ Cardinality(DeltasOf(tool)) = logged.args[tool]
               /\ Cardinality(EventsOf(tool) \ DeltasOf(tool)) <= 1
    <3>1. Released(tool) <=> tool \in LoggedTools
      BY <2>1 DEF Released, Waiting, LoggedTools
    <3>2. logged.args[tool] = IF Released(tool) THEN logToolArgs[tool] ELSE 0
      BY <2>1, <3>1
    <3>3. /\ Count(events, Starts(tool)) = IF Released(tool) THEN 1 ELSE 0
          /\ Count(events, Deltas(tool)) = IF Released(tool) THEN logToolArgs[tool] ELSE 0
      BY DEF AccountInv, CallAccount
    <3>4. /\ Cardinality(DeltasOf(tool)) = Count(events, Deltas(tool))
          /\ Cardinality(EventsOf(tool) \ DeltasOf(tool)) = Count(events, Starts(tool))
      BY EventsCounted DEF Count
    <3> QED
      BY <2>1, <3>1, <3>2, <3>3, <3>4, EventsCounted
  <2>3. Cardinality(DeltasOf(NoTool)) = contentBuffer + Cardinality(truncated)
    BY EventsCounted DEF AccountInv, TextAccount, Count
  <2> QED
    BY <2>1, <2>2, <2>3
<1> QED
  BY <1>1, TypeInvariant, AccountInvariant, PTL

-----------------------------------------------------------------------------
(***************************************************************************)
(* The end of the stream.                                                  *)
(***************************************************************************)
\* How far the client is at each place of the generator, and what the last
\* event is.
EndInv ==
  /\ phase = "pull" => yielded = Len(events)
  /\ phase = "yield" => yielded < Len(events)
  /\ phase = "chunk" => yielded <= Len(events) /\ messageStarted
  /\ phase \in {"log", "done", "failed"} => yielded = Len(events)
  /\ phase \in {"pull", "chunk"} => ~ended
  /\ phase \in {"log", "done"} => ended
  /\ ~messageStarted /\ phase # "failed" => events = <<>>
  /\ ended /\ messageStarted => events # <<>> /\ events[Len(events)] = MessageStop
  /\ phase = "failed" => events # <<>> /\ events[Len(events)] = ErrorEvent

\* The steps that are left at most before the generator ends or waits for the
\* upstream API: one for every event to yield or to release, and a few more.
Work ==
  IF Terminated THEN 0
  ELSE (Len(events) - yielded)
       + IF ended THEN 1 ELSE Len(toolBuffer) + (IF phase = "chunk" THEN 6 ELSE 5)

\* Inside of a chunk events are only added.
LEMMA VisitKeepsEnd ==
  ASSUME TypeInv, TypeInv', EndInv, Extends(events, events'), NEW part, Visit(part),
         messageStarted' = messageStarted
  PROVE  EndInv'
<1>1. /\ phase = "chunk" /\ UNCHANGED <<phase, ended, yielded, messageStarted>>
  BY DEF Visit
<1>2. /\ Len(events) \in Nat /\ Len(events') \in Nat /\ Len(events) <= Len(events')
      /\ yielded \in Nat
  BY LenProperties DEF TypeInv, TypeOK, Extends
<1> QED
  BY <1>1, <1>2 DEF EndInv

\* The last element of a sequence that one was added to.
LEMMA LastOfConcat ==
  ASSUME NEW S, NEW q \in Seq(S), NEW e \in S
  PROVE  /\ q \o <<e>> \in Seq(S) /\ Len(q \o <<e>>) = Len(q) + 1
         /\ (q \o <<e>>)[Len(q) + 1] = e
<1>1. Append(q, e) = q \o <<e>>
  BY AppendIsConcat
<1>2. /\ Append(q, e) \in Seq(S) /\ Len(Append(q, e)) = Len(q) + 1
      /\ Append(q, e)[Len(q) + 1] = e
  BY AppendProperties
<1> QED
  BY <1>1, <1>2, Zenon

\* What finalize adds ends with message_stop.
LEMMA FinalEventsAre ==
  ASSUME TypeInv
  PROVE  /\ FinalEvents \in Seq(Event) /\ FinalEvents # <<>>
         /\ FinalEvents[Len(FinalEvents)] = MessageStop
         /\ Len(events) < Len(FinalEvents)
         /\ Len(FinalEvents) <= Len(events) + Len(toolBuffer) + 3
<1>0. /\ events \in Seq(Event) /\ toolBuffer \in Seq(Event) /\ CloseBlock \in Seq(Event)
      /\ FinalDelta \in Seq(Event) /\ <<MessageStop>> \in Seq(Event)
  <2>1. FinalDelta \in Seq(Event)
    BY UsageTyping, EventTyping, OneEvent DEF FinalDelta, TypeInv, TypeOK, StopReasons
  <2> QED
    BY <2>1, CloseBlockTyping, EventTyping, OneEvent DEF TypeInv, TypeOK
<1>1. Len(CloseBlock) <= 1 /\ Len(FinalDelta) <= 1 /\ Len(<<MessageStop>>) = 1
  BY DEF CloseBlock, FinalDelta
<1> DEFINE a == events \o toolBuffer
           b == a \o CloseBlock
           c == b \o FinalDelta
<1>2. /\ a \in Seq(Event) /\ Len(a) = Len(events) + Len(toolBuffer)
  BY <1>0, ConcatProperties
<1> HIDE DEF a
<1>3. b \in Seq(Event) /\ Len(b) = Len(a) + Len(CloseBlock)
  BY <1>0, <1>2, ConcatProperties
<1> HIDE DEF b
<1>4. c \in Seq(Event) /\ Len(c) = Len(b) + Len(FinalDelta)
  BY <1>0, <1>3, ConcatProperties
<1> HIDE DEF c
<1>6. FinalEvents = c \o <<MessageStop>>
  BY DEF FinalEvents, a, b, c
<1>7. /\ Len(events) \in Nat /\ Len(toolBuffer) \in Nat /\ Len(CloseBlock) \in Nat
      /\ Len(FinalDelta) \in Nat
  BY <1>0, LenProperties
<1>8. /\ FinalEvents \in Seq(Event) /\ Len(FinalEvents) = Len(c) + 1
      /\ FinalEvents[Len(c) + 1] = MessageStop
  <2>1. MessageStop \in Event
    BY EventTyping
  <2> QED
    BY <1>4, <1>6, <2>1, LastOfConcat, Zenon
<1> QED
  BY <1>1, <1>2, <1>3, <1>4, <1>7, <1>8

\* Which parts of a chunk are visited, and what stays.
LEMMA VisitsAre ==
  ASSUME NEW tool, NEW hasId, NEW hasArgs, NEW reason
  PROVE  /\ HandleTextDelta => Visit(TextPart) /\ UNCHANGED messageStarted
         /\ HandleNewToolCall(tool, hasId, hasArgs) => Visit(CallPart) /\ UNCHANGED messageStarted
         /\ HandleToolCallArguments(tool) => Visit(CallPart) /\ UNCHANGED messageStarted
         /\ HandleFinish(reason) => Visit(FinishPart) /\ UNCHANGED messageStarted
         /\ CaptureUsage => Visit(UsagePart) /\ UNCHANGED messageStarted
<1>1. HandleTextDelta => Visit(TextPart) /\ UNCHANGED messageStarted
  BY Zenon DEF HandleTextDelta
<1>2. HandleNewToolCall(tool, hasId, hasArgs) => Visit(CallPart) /\ UNCHANGED messageStarted
  BY Zenon DEF HandleNewToolCall
<1>3. HandleToolCallArguments(tool) => Visit(CallPart) /\ UNCHANGED messageStarted
  BY Zenon DEF HandleToolCallArguments
<1>4. HandleFinish(reason) => Visit(FinishPart) /\ UNCHANGED messageStarted
  BY Zenon DEF HandleFinish
<1>5. CaptureUsage => Visit(UsagePart) /\ UNCHANGED messageStarted
  BY Zenon DEF CaptureUsage
<1> QED
  BY <1>1, <1>2, <1>3, <1>4, <1>5

\* A part of a chunk is visited.
Visiting == (\E part : Visit(part)) /\ UNCHANGED messageStarted

\* Either a part is visited, or the step is another one.
LEMMA StepsAre ==
  ASSUME [Next]_vars
  PROVE  \/ Visiting \/ ReceiveChunk \/ FinishChunk \/ Yield \/ Finalize
         \/ UpstreamError \/ ClientDisconnect \/ WriteLog \/ UNCHANGED vars
<1>1. HandleTextDelta => Visiting
  BY VisitsAre DEF Visiting
<1>2. ASSUME NEW tool \in Tools, NEW hasId \in BOOLEAN, NEW hasArgs \in BOOLEAN,
             HandleNewToolCall(tool, hasId, hasArgs)
      PROVE  Visiting
  BY <1>2, VisitsAre DEF Visiting
<1>3. ASSUME NEW tool \in Tools, HandleToolCallArguments(tool)
      PROVE  Visiting
  BY <1>3, VisitsAre DEF Visiting
<1>4. ASSUME NEW reason \in FinishReasons, HandleFinish(reason)
      PROVE  Visiting
  BY <1>4, VisitsAre DEF Visiting
<1>5. CaptureUsage => Visiting
  BY VisitsAre DEF Visiting
<1> QED
  BY <1>1, <1>2, <1>3, <1>4, <1>5 DEF Next, ProcessChunk, Terminated

LEMMA EndStep ==
  ASSUME TypeInv, TypeInv', EndInv, [Next]_vars
  PROVE  EndInv'
<1>0. /\ Len(events) \in Nat /\ Len(events') \in Nat /\ yielded \in Nat
      /\ Extends(events, events') /\ Len(events) <= Len(events')
      /\ events \in Seq(Event)
  BY EventsGrow, LenProperties DEF TypeInv, TypeOK, Extends
<1>1. CASE Visiting
  BY <1>0, <1>1, VisitKeepsEnd DEF Visiting
<1>2. CASE ReceiveChunk
  <2>1. /\ phase = "pull" /\ phase' = "chunk" /\ UNCHANGED <<ended, yielded>>
        /\ messageStarted' = TRUE
    BY <1>2 DEF ReceiveChunk
  <2> QED
    BY <1>0, <2>1 DEF EndInv
<1>3. CASE FinishChunk
  BY <1>0, <1>3 DEF FinishChunk, EndInv, translator
<1>4. CASE Yield
  BY <1>0, <1>4 DEF Yield, EndInv, translator
<1>5. CASE Finalize
  <2>1. CASE ~messageStarted
    BY <1>5, <2>1 DEF Finalize, EndInv
  <2>2. CASE messageStarted
    <3>1. /\ phase = "pull" /\ phase' = "yield" /\ ended' /\ events' = FinalEvents
          /\ UNCHANGED <<yielded, messageStarted>>
      BY <1>5, <2>2 DEF Finalize
    <3> QED
      BY <1>0, <2>2, <3>1, FinalEventsAre DEF EndInv
  <2> QED
    BY <2>1, <2>2
<1>6. CASE UpstreamError
  <2>1. /\ phase = "pull" /\ phase' = "failed" /\ yielded' = yielded + 1
        /\ events' = Append(events, ErrorEvent) /\ UNCHANGED <<ended, messageStarted>>
    BY <1>6 DEF UpstreamError, translator
  <2>2. /\ Len(events') = Len(events) + 1 /\ events'[Len(events) + 1] = ErrorEvent
        /\ events' # <<>>
    BY <1>0, <2>1, EventTyping, AppendProperties
  <2> QED
    BY <1>0, <2>1, <2>2 DEF EndInv
<1>7. CASE ClientDisconnect
  BY <1>7 DEF ClientDisconnect, EndInv, translator
<1>8. CASE WriteLog
  BY <1>8 DEF WriteLog, EndInv, translator
<1>9. CASE UNCHANGED vars
  BY <1>9 DEF vars, EndInv, translator
<1> QED
  BY <1>1, <1>2, <1>3, <1>4, <1>5, <1>6, <1>7, <1>8, <1>9, StepsAre

LEMMA EndInvariant == Spec => []EndInv
<1>1. Init => EndInv
  BY DEF Init, EndInv
<1>2. TypeInv /\ TypeInv' /\ EndInv /\ [Next]_vars => EndInv'
  BY EndStep
<1> QED
  BY <1>1, <1>2, TypeInvariant, PTL DEF Spec

\* The last event of a stream that was not dropped says how it ended.
EndsAsItShould ==
  /\ phase = "done" => IF messageStarted THEN LastReceived = MessageStop
                       ELSE LastReceived = NoEvent
  /\ phase = "failed" => LastReceived = ErrorEvent

\* For every input: a stream that was not dropped ends with message_stop or with
\* an error; only if there was nothing at all it has no event.  With WorkEnds,
\* this is what StreamEnds is made of (finalize, handle_native_tools_streaming).
THEOREM EndsWell == Spec => []EndsAsItShould
<1>1. TypeInv /\ EndInv => EndsAsItShould
  <2> SUFFICES ASSUME TypeInv, EndInv
               PROVE  EndsAsItShould
    OBVIOUS
  <2>1. events \in Seq(Event) /\ (events # <<>> => Len(events) # 0)
    BY DEF TypeInv, TypeOK
  <2>2. Len(<<>>) = 0
    OBVIOUS
  <2> QED
    BY <2>1, <2>2 DEF EndInv, EndsAsItShould, LastReceived
<1> QED
  BY <1>1, TypeInvariant, EndInvariant, PTL

\* For every input: without anything new from the upstream API the generator
\* takes at most as many steps as Work says, so that it cannot go on for ever
\* on its own (handle_native_tools_streaming).
THEOREM WorkEnds ==
  Spec => [](Work \in Nat) /\ [][received' = received => Work' < Work]_vars
<1>1. TypeInv /\ EndInv => Work \in Nat
  <2> SUFFICES ASSUME TypeInv, EndInv
               PROVE  Work \in Nat
    OBVIOUS
  <2>1. /\ Len(events) \in Nat /\ yielded \in Nat /\ Len(toolBuffer) \in Nat
        /\ phase \in {"pull", "chunk", "yield", "log", "done", "failed", "dropped"}
    BY LenProperties DEF TypeInv, TypeOK
  <2>2. ~Terminated => yielded <= Len(events)
    BY <2>1 DEF EndInv, Terminated
  <2> QED
    BY <2>1, <2>2 DEF Work
<1>2. TypeInv /\ TypeInv' /\ EndInv /\ EndInv' /\ [Next]_vars
        => [received' = received => Work' < Work]_vars
  <2> SUFFICES ASSUME TypeInv, TypeInv', EndInv, EndInv', [Next]_vars,
                      received' = received, ~UNCHANGED vars
               PROVE  Work' < Work
    OBVIOUS
  <2>1. /\ Len(events) \in Nat /\ yielded \in Nat /\ Len(toolBuffer) \in Nat
        /\ received \in Nat
    BY LenProperties DEF TypeInv, TypeOK
  <2>2. ASSUME NEW part, Visit(part)
        PROVE  FALSE
    BY <2>1, <2>2 DEF Visit
  <2>3. ~Visiting /\ ~ReceiveChunk
    <3>1. ~ReceiveChunk
      BY <2>1 DEF ReceiveChunk
    <3> QED
      BY <2>2, <3>1 DEF Visiting
  <2>4. CASE FinishChunk
    <3>1. /\ phase = "chunk" /\ phase' \in {"yield", "pull"} /\ ~ended
          /\ UNCHANGED <<toolBuffer, ended, events, yielded>>
      BY <2>4 DEF FinishChunk, EndInv, translator
    <3> QED
      BY <2>1, <3>1 DEF Work, Terminated
  <2>5. CASE Yield
    <3>1. /\ phase = "yield" /\ phase' \in {"yield", "log", "pull"} /\ yielded' = yielded + 1
          /\ UNCHANGED <<toolBuffer, ended, events>>
      BY <2>5 DEF Yield, translator
    <3> QED
      BY <2>1, <3>1 DEF Work, Terminated
  <2>6. CASE Finalize
    <3>1. /\ phase = "pull" /\ ~ended /\ ended' /\ UNCHANGED yielded /\ yielded = Len(events)
          /\ phase' \in {"log", "yield"}
          /\ events' = events \/ events' = FinalEvents
      BY <2>6 DEF Finalize, EndInv
    <3>2. Work = Len(toolBuffer) + 5
      BY <2>1, <3>1 DEF Work, Terminated
    <3>3. Work' = Len(events') - yielded + 1
      BY <3>1 DEF Work, Terminated
    <3>4. Len(events') <= Len(events) + Len(toolBuffer) + 3 /\ Len(events') \in Nat
      BY <2>1, <3>1, FinalEventsAre, LenProperties
    <3> QED
      BY <2>1, <3>1, <3>2, <3>3, <3>4
  <2>7. CASE UpstreamError \/ ClientDisconnect \/ WriteLog
    <3>1. /\ ~Terminated /\ Terminated'
      BY <2>7 DEF UpstreamError, ClientDisconnect, WriteLog, Terminated
    <3>2. Work' = 0
      BY <3>1 DEF Work
    <3>3. yielded <= Len(events)
      BY <2>1, <2>7 DEF EndInv, UpstreamError, ClientDisconnect, WriteLog
    <3> QED
      BY <2>1, <3>1, <3>2, <3>3 DEF Work
  <2> QED
    BY <2>3, <2>4, <2>5, <2>6, <2>7, StepsAre
<1> QED
  BY <1>1, <1>2, TypeInvariant, EndInvariant, PTL DEF Spec

\* For every set of tool calls and every bound on the input: when a stream has
\* ended and was neither dropped nor failed, every call that the upstream API
\* began was sent or replaced by a notice: none stays in the buffer.
THEOREM CallsResolved ==
  ASSUME Interleaving = FALSE
  PROVE  Spec => [](phase = "done" =>
           \A tool \in logToolNames :
              tool \in truncated \/ \E i \in EventsOf(tool) : i <= yielded)
<1>1. TypeInv /\ AccountInv => (phase = "done" =>
        \A tool \in logToolNames :
           tool \in truncated \/ \E i \in EventsOf(tool) : i <= yielded)
  <2> SUFFICES ASSUME TypeInv, AccountInv, phase = "done",
                      NEW tool \in logToolNames, tool \notin truncated
               PROVE  \E i \in EventsOf(tool) : i <= yielded
    OBVIOUS
  <2>1. tool \in Tools /\ Len(events) \in Nat
    BY LenProperties DEF TypeInv, TypeOK
  <2>2. ~blockOpen /\ yielded = Len(events)
    BY DEF AccountInv, LogAccount
  <2>3. Released(tool)
    BY <2>2 DEF Released, Waiting
  <2>4. Count(events, Starts(tool)) = 1
    BY <2>1, <2>3 DEF AccountInv, CallAccount
  <2>5. EventsOf(tool) # {}
    BY <2>1, <2>4, EventsCounted
  <2>6. \A i \in EventsOf(tool) : i <= Len(events)
    BY <2>1 DEF EventsOf
  <2> QED
    BY <2>2, <2>5, <2>6
<1> QED
  BY <1>1, TypeInvariant, AccountInvariant, PTL
=============================================================================
