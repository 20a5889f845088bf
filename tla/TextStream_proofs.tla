-------------------------- MODULE TextStream_proofs --------------------------
(***************************************************************************)
(* Proofs about TextStream, for any calls and any length of the answer:    *)
(* type correctness, that the client receives a stream of the Anthropic    *)
(* protocol, that with tools it gets a whole answer or an error, that what *)
(* is logged is what it received, and that the stream ends with            *)
(* message_stop or an error, after a bounded number of steps.              *)
(***************************************************************************)
EXTENDS TextStream, StreamEvents_proofs, FiniteSetTheorems

\* The last event made.
LastSent == EndOf(NoEvent, events)

\* Where the generator is, or will be after its yields.
Point == IF phase = "yield" THEN resume ELSE phase

\* How the end of the events and the state of the generator fit together.
PlainInv ==
    IF ~messageStarted THEN events = <<>> /\ ~blockOpened
    ELSE LastSent = IF blockOpened THEN TextDelta(0) ELSE MessageStart

TextInv ==
    /\ Continues(NoEvent, events)
    /\ yielded <= Len(events) /\ (phase = "yield" => yielded < Len(events))
    /\ Point = "pull" => IF parseTools THEN events = <<>> ELSE PlainInv
    /\ Point = "calls" => parseTools /\ ReadyFor(LastSent, blockIndex)
    /\ WholeOrNothing
-----------------------------------------------------------------------------
(***************************************************************************)
(* Type correctness.                                                       *)
(***************************************************************************)
\* The stop reasons, the estimate and the pieces of an answer have their types.
LEMMA PartTyping ==
  ASSUME TypeOK
  PROVE  /\ Len(content) \in Nat /\ Cardinality(Stripped) \in Nat
         /\ MapStopReason(finishReason) \in StopReasons \cup {NoReason}
         /\ StopReason \in StopReasons \cup {NoReason}
         /\ Estimate \in Usage
         /\ \A r \in StopReasons \cup {NoReason} : Finale(r) \in Seq(Event)
<1>1. MapStopReason(finishReason) \in StopReasons \cup {NoReason}
  BY DEF TypeOK, MapStopReason, StopReasons, TextReasons, FinishReasons
<1>2. StopReason \in StopReasons \cup {NoReason}
  BY <1>1 DEF StopReason, StopReasons
<1>3. Estimate \in Usage
  BY LenProperties DEF TypeOK, Estimate, Usage
<1>4. \A r \in StopReasons \cup {NoReason} : Finale(r) \in Seq(Event)
  BY <1>3, EventTyping DEF Finale
<1>5. Len(content) \in Nat
  BY LenProperties DEF TypeOK
<1>6. Cardinality(Stripped) \in Nat
  <2>1. IsFiniteSet(1 .. Len(content)) /\ Stripped \subseteq 1 .. Len(content)
    BY <1>5, FS_Interval DEF Stripped, PositionsOf
  <2> QED
    BY <2>1, FS_Subset, FS_CardinalityType
<1> QED
  BY <1>1, <1>2, <1>3, <1>4, <1>5, <1>6

\* What the actions send are sequences of events.
LEMMA TextDeltaTyping ==
  /\ TextDelta(0) \in Event
  /\ BlockStart(0, "text", NoTool) \in Event
  /\ BlockStop(0) \in Event
BY EventTyping DEF TextDelta, BlockTypes

\* The events of a chunk, of the end, of the start and of a call.
PassedOn(piece) ==
    (IF messageStarted THEN <<>> ELSE <<MessageStart>>) \o
    (IF piece = Nothing THEN <<>>
     ELSE (IF blockOpened THEN <<>>
           ELSE <<BlockStart(0, "text", NoTool)>>) \o <<TextDelta(0)>>)
Closing ==
    (IF blockOpened THEN <<BlockStop(0)>> ELSE <<>>) \o
    (IF messageStarted THEN Finale(MapStopReason(finishReason)) ELSE <<>>)
Opening ==
    <<MessageStart>> \o
    (IF Stripped = {} THEN <<>>
     ELSE <<BlockStart(0, "text", NoTool), TextDelta(0), BlockStop(0)>>)

LEMMA SentTyping ==
  ASSUME TypeOK
  PROVE  /\ \A piece : PassedOn(piece) \in Seq(Event)
         /\ Closing \in Seq(Event)
         /\ Opening \in Seq(Event)
         /\ \A tool \in Tools : CallBlock(tool) \in Seq(Event)
<1>1. ASSUME NEW piece
      PROVE  PassedOn(piece) \in Seq(Event)
  <2> DEFINE a == IF messageStarted THEN <<>> ELSE <<MessageStart>>
             b == IF blockOpened THEN <<>> ELSE <<BlockStart(0, "text", NoTool)>>
             c == <<TextDelta(0)>>
  <2>1. a \in Seq(Event) /\ b \in Seq(Event) /\ c \in Seq(Event)
    BY EventTyping, TextDeltaTyping
  <2>2. PassedOn(piece) = a \o (IF piece = Nothing THEN <<>> ELSE b \o c)
    BY DEF PassedOn
  <2> HIDE DEF a, b, c
  <2> QED
    BY <2>1, <2>2, ConcatProperties
<1>2. Closing \in Seq(Event)
  <2> DEFINE a == IF blockOpened THEN <<BlockStop(0)>> ELSE <<>>
             b == IF messageStarted THEN Finale(MapStopReason(finishReason)) ELSE <<>>
  <2>1. a \in Seq(Event) /\ b \in Seq(Event)
    BY PartTyping, TextDeltaTyping
  <2>2. Closing = a \o b
    BY DEF Closing
  <2> HIDE DEF a, b
  <2> QED
    BY <2>1, <2>2, ConcatProperties
<1>3. Opening \in Seq(Event)
  <2> DEFINE a == <<MessageStart>>
             b == <<BlockStart(0, "text", NoTool), TextDelta(0), BlockStop(0)>>
  <2>1. a \in Seq(Event) /\ b \in Seq(Event)
    BY EventTyping, TextDeltaTyping
  <2>2. Opening = a \o (IF Stripped = {} THEN <<>> ELSE b)
    BY DEF Opening
  <2> HIDE DEF a, b
  <2> QED
    BY <2>1, <2>2, ConcatProperties
<1>4. ASSUME NEW tool \in Tools
      PROVE  CallBlock(tool) \in Seq(Event)
  <2>1. blockIndex \in Nat /\ "tool_use" \in BlockTypes /\ tool \in Tools \cup {NoTool}
    BY DEF TypeOK, BlockTypes
  <2>2. /\ BlockStart(blockIndex, "tool_use", tool) \in Event
        /\ BlockDelta(blockIndex, "tool_use", tool) \in Event
        /\ BlockStop(blockIndex) \in Event
    BY <2>1, EventTyping
  <2> QED
    BY <2>2 DEF CallBlock
<1> QED
  BY <1>1, <1>2, <1>3, <1>4

\* The calls stay where they are while the text does.
LEMMA SamePositions ==
  content' = content => PositionsOf(Tools)' = PositionsOf(Tools)
BY DEF PositionsOf

\* Send keeps the types.
LEMMA SendTyping ==
  ASSUME TypeOK, NEW more \in Seq(Event),
         NEW next \in {"pull", "calls", "log", "failed"}, Send(more, next)
  PROVE  /\ events' \in Seq(Event)
         /\ resume' \in {"pull", "calls", "log", "failed"}
         /\ phase' \in {"pull", "yield", "calls", "log", "done", "failed", "dropped"}
         /\ UNCHANGED <<parseTools, yielded, logged>>
BY ConcatProperties DEF TypeOK, Send

\* For every instance: each variable has its type.
THEOREM TypeCorrect == Spec => []TypeOK
<1>1. ASSUME Init
      PROVE  TypeOK
  <2>1. NotLogged \in [stop : StopReasons \cup {NoReason}, text : Nat,
                       calls : SUBSET Tools]
    BY DEF NotLogged
  <2>2. <<>> \in Seq(Event) /\ <<>> \in Seq(Pieces)
    BY EmptySeq
  <2>3. /\ parseTools \in BOOLEAN /\ phase = "pull" /\ resume = "pull"
        /\ events = <<>> /\ yielded = 0 /\ messageStarted = FALSE
        /\ blockOpened = FALSE /\ content = <<>> /\ finishReason = NoReason
        /\ calls = {} /\ sent = 0 /\ blockIndex = 0 /\ logged = NotLogged
    BY <1>1 DEF Init
  <2> QED
    BY <1>1, <2>1, <2>2, <2>3 DEF TypeOK
<1>2. TypeOK /\ [Next]_vars => TypeOK'
  <2> SUFFICES ASSUME TypeOK, [Next]_vars
               PROVE  TypeOK'
    OBVIOUS
  <2>0. /\ Len(content) \in Nat /\ content \in Seq(Pieces)
        /\ calls \subseteq PositionsOf(Tools)
    BY PartTyping DEF TypeOK
  <2>1. ASSUME NEW piece \in Pieces \cup {Nothing},
               NEW reason \in TextReasons \cup {NoReason}, Accumulate(piece, reason)
        PROVE  /\ content' \in Seq(Pieces)
               /\ finishReason' \in TextReasons \cup {NoReason}
               /\ calls' = calls => calls' \in SUBSET PositionsOf(Tools)'
    <3>1. \/ content' = content
          \/ piece \in Pieces /\ content' = Append(content, piece)
      BY <2>1 DEF Accumulate
    <3>2. finishReason' \in TextReasons \cup {NoReason}
      BY <2>1 DEF Accumulate, TypeOK
    <3>3. CASE content' = content
      BY <2>0, <3>2, <3>3 DEF PositionsOf
    <3>4. CASE piece \in Pieces /\ content' = Append(content, piece)
      <4>1. /\ content' \in Seq(Pieces) /\ Len(content') = Len(content) + 1
            /\ \A i \in 1 .. Len(content) : content'[i] = content[i]
        BY <2>0, <3>4, AppendProperties
      <4>2. PositionsOf(Tools) \subseteq PositionsOf(Tools)'
        BY <2>0, <4>1 DEF PositionsOf
      <4> QED
        BY <2>0, <3>2, <4>1, <4>2
    <3> QED
      BY <3>1, <3>3, <3>4
  <2>2. ASSUME NEW piece \in Pieces \cup {Nothing},
               NEW reason \in TextReasons \cup {NoReason}, PassOn(piece, reason)
        PROVE  TypeOK'
    <3>1. Send(PassedOn(piece), "pull") /\ Accumulate(piece, reason)
          /\ messageStarted' = TRUE /\ UNCHANGED parsing
          /\ blockOpened' = (blockOpened \/ piece # Nothing)
      BY <2>2 DEF PassOn, PassedOn
    <3>2. PassedOn(piece) \in Seq(Event)
      BY SentTyping
    <3>3. blockOpened' \in BOOLEAN
      BY <3>1 DEF TypeOK
    <3> QED
      BY <2>0, <2>1, <3>1, <3>2, <3>3, SendTyping DEF TypeOK, parsing
  <2>3. ASSUME NEW piece \in Pieces \cup {Nothing},
               NEW reason \in TextReasons \cup {NoReason}, Buffer(piece, reason)
        PROVE  TypeOK'
    BY <2>0, <2>1, <2>3 DEF Buffer, TypeOK, parsing
  <2>4. CASE UpstreamError
    <3>1. <<ErrorEvent>> \in Seq(Event)
      BY EventTyping
    <3> QED
      BY <2>4, <3>1, SamePositions, SendTyping DEF UpstreamError, TypeOK, parsing
  <2>5. CASE Close
    <3>1. Send(Closing, "log")
      BY <2>5 DEF Close, Closing
    <3> QED
      BY <2>5, <3>1, SamePositions, SentTyping, SendTyping DEF Close, TypeOK, parsing
  <2>6. CASE Parse
    <3>1. Send(Opening, "calls")
      BY <2>6 DEF Parse, Opening
    <3>2. /\ calls' \subseteq PositionsOf(Tools) /\ blockIndex' \in Nat
      BY <2>6, TextAssumption DEF Parse, Found, PositionsOf
    <3> QED
      BY <2>6, <3>1, <3>2, SamePositions, SentTyping, SendTyping DEF Parse, TypeOK
  <2>7. ASSUME NEW i \in calls, SendCall(i)
        PROVE  TypeOK'
    <3>1. i \in 1 .. Len(content) /\ content[i] \in Tools
      BY <2>0, <2>7 DEF PositionsOf
    <3> QED
      BY <2>7, <3>1, SamePositions, SentTyping, SendTyping DEF SendCall, TypeOK
  <2>8. CASE FinishCalls
    BY <2>8, SamePositions, PartTyping, SendTyping DEF FinishCalls, TypeOK, parsing
  <2>9. CASE WriteLog
    <3>1. logged' \in [stop : StopReasons \cup {NoReason}, text : Nat,
                       calls : SUBSET Tools]
      BY <2>9, <2>0, PartTyping DEF WriteLog, PositionsOf
    <3> QED
      BY <2>9, <3>1, SamePositions DEF WriteLog, TypeOK, parsing
  <2>10. CASE Yield
    BY <2>10, SamePositions DEF Yield, TypeOK, parsing
  <2>11. CASE ClientDisconnect
    BY <2>11, SamePositions DEF ClientDisconnect, TypeOK, parsing
  <2>12. CASE UNCHANGED vars
    BY <2>12, SamePositions DEF vars, TypeOK
  <2> QED
    BY <2>2, <2>3, <2>4, <2>5, <2>6, <2>7, <2>8, <2>9, <2>10, <2>11, <2>12
    DEF Next, EndOfStream, Terminated
<1> QED
  BY <1>1, <1>2, PTL DEF Spec
-----------------------------------------------------------------------------
(***************************************************************************)
(* What is sent may follow what was sent.                                  *)
(***************************************************************************)
NoError(s) == \A i \in 1 .. Len(s) : s[i] # ErrorEvent

\* The end of an answer may come after any complete block.
LEMMA FinaleFollows ==
  ASSUME TypeOK, NEW e, NEW i, ReadyFor(e, i), NEW r \in StopReasons \cup {NoReason}
  PROVE  Continues(e, Finale(r)) /\ NoError(Finale(r))
<1>1. Estimate \in Usage
  BY PartTyping
<1>2. MessageDelta(r, Estimate) \in Event /\ MessageStop \in Event
  BY <1>1, EventTyping
<1>3. Follows(e, MessageDelta(r, Estimate)) /\ Follows(MessageDelta(r, Estimate), MessageStop)
  BY FollowRules DEF MessageDelta
<1>4. MessageDelta(r, Estimate) # ErrorEvent /\ MessageStop # ErrorEvent
  BY DEF MessageDelta, MessageStop, ErrorEvent
<1> DEFINE f == MessageDelta(r, Estimate)
<1> HIDE DEF f
<1>5. Continues(e, <<f, MessageStop>>)
  BY <1>2, <1>3, TwoEvents DEF f
<1>6. NoError(<<f, MessageStop>>)
  BY <1>4 DEF NoError, f
<1> QED
  BY <1>5, <1>6 DEF Finale, f

\* A call makes a whole block.
LEMMA CallFollows ==
  ASSUME TypeOK, NEW tool \in Tools, NEW e, ReadyFor(e, blockIndex)
  PROVE  /\ Continues(e, CallBlock(tool)) /\ NoError(CallBlock(tool))
         /\ EndOf(e, CallBlock(tool)) = BlockStop(blockIndex)
<1> DEFINE f == BlockStart(blockIndex, "tool_use", tool)
           g == BlockDelta(blockIndex, "tool_use", tool)
           h == BlockStop(blockIndex)
<1>1. f \in Event /\ g \in Event /\ h \in Event
  BY EventTyping DEF TypeOK, BlockTypes
<1>2. Follows(e, f) /\ Follows(f, g) /\ Follows(g, h)
  BY FollowRules, InsideBlock, EventsAssumption DEF TypeOK
<1>3. f # ErrorEvent /\ g # ErrorEvent /\ h # ErrorEvent
  BY DEF BlockStart, BlockDelta, BlockStop, ErrorEvent
<1>4. CallBlock(tool) = <<f, g, h>>
  BY DEF CallBlock
<1> HIDE DEF f, g, h
<1>5. Continues(e, <<f, g, h>>) /\ EndOf(e, <<f, g, h>>) = h
  BY <1>1, <1>2, ThreeEvents
<1>6. NoError(<<f, g, h>>)
  BY <1>3 DEF NoError
<1> QED
  BY <1>4, <1>5, <1>6 DEF h

\* A parsed answer starts the message, and has its text in a whole block.
LEMMA OpeningFollows ==
  /\ Continues(NoEvent, Opening) /\ NoError(Opening)
  /\ ReadyFor(EndOf(NoEvent, Opening), IF Stripped = {} THEN 0 ELSE 1)
<1> DEFINE f == BlockStart(0, "text", NoTool)
           one == <<MessageStart>>
           block == <<f, TextDelta(0), BlockStop(0)>>
<1>1. MessageStart \in Event /\ f \in Event /\ TextDelta(0) \in Event /\ BlockStop(0) \in Event
  BY EventTyping, TextDeltaTyping
<1>2. /\ Follows(NoEvent, MessageStart) /\ Follows(MessageStart, f)
      /\ Follows(f, TextDelta(0)) /\ Follows(TextDelta(0), BlockStop(0))
  BY FollowRules, InsideBlock DEF TextDelta, ReadyFor
<1>3. /\ MessageStart # ErrorEvent /\ f # ErrorEvent
      /\ TextDelta(0) # ErrorEvent /\ BlockStop(0) # ErrorEvent
  BY DEF MessageStart, BlockStart, BlockDelta, TextDelta, BlockStop, ErrorEvent
<1>4. Opening = one \o (IF Stripped = {} THEN <<>> ELSE block)
  BY DEF Opening
<1> HIDE DEF f
<1>5. /\ one \in Seq(Event)
      /\ Continues(NoEvent, one) /\ EndOf(NoEvent, one) = MessageStart
  BY <1>1, <1>2, OneEvent
<1>6. /\ block \in Seq(Event)
      /\ Continues(MessageStart, block) /\ EndOf(MessageStart, block) = BlockStop(0)
  BY <1>1, <1>2, ThreeEvents
<1>7. NoError(one) /\ NoError(one \o block)
  BY <1>3 DEF NoError
<1> HIDE DEF one, block
<1>8. CASE Stripped = {}
  <2>1. Opening = one
    BY <1>4, <1>5, <1>8, ConcatEmptySeq
  <2> QED
    BY <1>5, <1>7, <1>8, <2>1 DEF ReadyFor
<1>9. CASE Stripped # {}
  <2>1. Opening = one \o block
    BY <1>4, <1>9
  <2> QED
    BY <1>5, <1>6, <1>7, <1>9, <2>1, ConcatEvents DEF ReadyFor
<1> QED
  BY <1>8, <1>9

\* A text passed on comes after what it needs, opened now or before.
LEMMA PassedFollows ==
  ASSUME TypeOK, PlainInv, NEW piece
  PROVE  /\ Continues(LastSent, PassedOn(piece))
         /\ EndOf(LastSent, PassedOn(piece)) =
              IF blockOpened \/ piece # Nothing THEN TextDelta(0) ELSE MessageStart
<1> DEFINE f == BlockStart(0, "text", NoTool)
           a == IF messageStarted THEN <<>> ELSE <<MessageStart>>
           b == IF blockOpened THEN <<>> ELSE <<f>>
           c == <<TextDelta(0)>>
           m == IF blockOpened THEN TextDelta(0) ELSE MessageStart
           n == IF blockOpened THEN TextDelta(0) ELSE f
<1>1. MessageStart \in Event /\ f \in Event /\ TextDelta(0) \in Event
  BY EventTyping, TextDeltaTyping
<1>2. /\ Follows(NoEvent, MessageStart) /\ Follows(MessageStart, f)
      /\ Follows(f, TextDelta(0)) /\ Follows(TextDelta(0), TextDelta(0))
  BY FollowRules, InsideBlock DEF TextDelta, ReadyFor
<1>3. PassedOn(piece) = a \o (IF piece = Nothing THEN <<>> ELSE b \o c)
  BY DEF PassedOn
<1> HIDE DEF f
<1>4. a \in Seq(Event) /\ Continues(LastSent, a) /\ EndOf(LastSent, a) = m
  <2>1. CASE messageStarted
    BY <2>1, NoEvents DEF PlainInv
  <2>2. CASE ~messageStarted
    <3>1. LastSent = NoEvent /\ ~blockOpened
      BY <2>2 DEF PlainInv, LastSent, EndOf
    <3> QED
      BY <1>1, <1>2, <2>2, <3>1, OneEvent
  <2> QED
    BY <2>1, <2>2
<1>5. b \in Seq(Event) /\ Continues(m, b) /\ EndOf(m, b) = n
  BY <1>1, <1>2, OneEvent, NoEvents
<1>6. c \in Seq(Event) /\ Continues(n, c) /\ EndOf(n, c) = TextDelta(0)
  BY <1>1, <1>2, OneEvent
<1> HIDE DEF a, b, c, m, n
<1>7. CASE piece = Nothing
  <2>1. PassedOn(piece) = a
    BY <1>3, <1>4, <1>7, ConcatEmptySeq
  <2> QED
    BY <1>4, <1>7, <2>1 DEF m
<1>8. CASE piece # Nothing
  <2> DEFINE d == b \o c
  <2>1. d \in Seq(Event) /\ Continues(m, d) /\ EndOf(m, d) = TextDelta(0)
    BY <1>5, <1>6, ConcatEvents
  <2>2. PassedOn(piece) = a \o d
    BY <1>3, <1>8
  <2> HIDE DEF d
  <2>3. Continues(LastSent, a \o d) /\ EndOf(LastSent, a \o d) = TextDelta(0)
    BY <1>4, <2>1, ConcatEvents
  <2> QED
    BY <1>8, <2>2, <2>3
<1> QED
  BY <1>7, <1>8

\* What was opened is closed before the message ends.
LEMMA ClosingFollows ==
  ASSUME TypeOK, PlainInv
  PROVE  Continues(LastSent, Closing)
<1> DEFINE a == IF blockOpened THEN <<BlockStop(0)>> ELSE <<>>
           r == MapStopReason(finishReason)
           b == IF messageStarted THEN Finale(r) ELSE <<>>
           m == IF blockOpened THEN BlockStop(0) ELSE LastSent
<1>1. /\ BlockStop(0) \in Event /\ r \in StopReasons \cup {NoReason}
      /\ Finale(r) \in Seq(Event)
  BY TextDeltaTyping, PartTyping
<1> HIDE DEF r
<1>2. blockOpened => LastSent = TextDelta(0)
  BY DEF PlainInv
<1>3. Follows(TextDelta(0), BlockStop(0))
  BY InsideBlock DEF TextDelta
<1>4. a \in Seq(Event) /\ Continues(LastSent, a) /\ EndOf(LastSent, a) = m
  BY <1>1, <1>2, <1>3, OneEvent, NoEvents
<1>5. messageStarted => ReadyFor(m, IF blockOpened THEN 1 ELSE 0)
  BY DEF PlainInv, ReadyFor
<1>6. b \in Seq(Event) /\ Continues(m, b)
  BY <1>1, <1>5, FinaleFollows, NoEvents
<1>7. Closing = a \o b
  BY DEF Closing, r
<1> HIDE DEF a, b, m
<1> QED
  BY <1>4, <1>6, <1>7, ConcatEvents

\* Sending what may follow keeps the stream in order.
LEMMA SendFollows ==
  ASSUME TypeOK, TextInv, phase # "yield", NEW more \in Seq(Event),
         NEW next \in {"pull", "calls", "log", "failed"}, Send(more, next),
         Continues(LastSent, more)
  PROVE  /\ Continues(NoEvent, events')
         /\ yielded' <= Len(events')
         /\ phase' = "yield" => yielded' < Len(events')
         /\ Point' = next
         /\ phase' \in {next, "yield"}
         /\ parseTools' = parseTools
         /\ LastSent' = EndOf(LastSent, more)
         /\ NoError(events) /\ NoError(more) => NoError(events')
<1>1. /\ events \in Seq(Event) /\ Continues(NoEvent, events)
      /\ yielded \in Nat /\ yielded <= Len(events) /\ events' = events \o more
      /\ yielded' = yielded
  BY DEF TypeOK, TextInv, Send
<1>2. /\ Len(events') = Len(events) + Len(more)
      /\ Len(events) \in Nat /\ Len(more) \in Nat
      /\ \A i \in 1 .. Len(events) + Len(more) :
           events'[i] = IF i <= Len(events) THEN events[i] ELSE more[i - Len(events)]
  BY <1>1, ConcatProperties, LenProperties
<1>3. more # <<>> => Len(more) > 0
  BY <1>2, EmptySeq
<1>4. Continues(NoEvent, events') /\ LastSent' = EndOf(LastSent, more)
  BY <1>1, ConcatEvents DEF LastSent
<1>5. NoError(events) /\ NoError(more) => NoError(events')
  <2> SUFFICES ASSUME NoError(events), NoError(more), NEW i \in 1 .. Len(events')
               PROVE  events'[i] # ErrorEvent
    BY DEF NoError
  <2>1. CASE i <= Len(events)
    BY <1>2, <2>1 DEF NoError
  <2>2. CASE i > Len(events)
    <3>1. i - Len(events) \in 1 .. Len(more)
      BY <1>2, <2>2
    <3> QED
      BY <1>2, <2>2, <3>1 DEF NoError
  <2> QED
    BY <1>2, <2>1, <2>2
<1>6. /\ phase' \in {next, "yield"} /\ Point' = next /\ parseTools' = parseTools
      /\ phase' = "yield" => more # <<>>
  BY DEF Send, Point
<1> QED
  BY <1>1, <1>2, <1>3, <1>4, <1>5, <1>6

-----------------------------------------------------------------------------
(***************************************************************************)
(* The inductive invariant.                                                *)
(***************************************************************************)
\* What an action keeps that makes no events.
LEMMA NothingSent ==
  ASSUME TextInv, UNCHANGED <<parseTools, phase, resume, events, yielded,
                              messageStarted, blockOpened, blockIndex>>
  PROVE  TextInv'
BY DEF TextInv, Point, PlainInv, LastSent, WholeOrNothing

LEMMA TextInvariant == Spec => []TextInv
<1>1. Init => TextInv
  <2> SUFFICES ASSUME Init
               PROVE  TextInv
    OBVIOUS
  <2>1. events = <<>> /\ Len(events) = 0 /\ yielded = 0 /\ phase = "pull"
        /\ messageStarted = FALSE /\ blockOpened = FALSE
    BY EmptySeq DEF Init
  <2> QED
    BY <2>1 DEF TextInv, Continues, Point, PlainInv, WholeOrNothing
<1>2. TypeOK /\ TextInv /\ [Next]_vars => TextInv'
  <2> SUFFICES ASSUME TypeOK, TextInv, [Next]_vars
               PROVE  TextInv'
    OBVIOUS
  <2>1. ASSUME NEW piece \in Pieces \cup {Nothing},
               NEW reason \in TextReasons \cup {NoReason}, PassOn(piece, reason)
        PROVE  TextInv'
    <3>1. /\ Send(PassedOn(piece), "pull") /\ phase = "pull" /\ ~parseTools
          /\ messageStarted' = TRUE /\ blockOpened' = (blockOpened \/ piece # Nothing)
      BY <2>1 DEF PassOn, PassedOn
    <3>2. PlainInv
      BY <3>1 DEF TextInv, Point
    <3>3. PlainInv'
      BY <3>1, <3>2, SentTyping, PassedFollows, SendFollows DEF PlainInv
    <3> QED
      BY <3>1, <3>2, <3>3, SentTyping, PassedFollows, SendFollows
      DEF TextInv, WholeOrNothing
  <2>2. ASSUME NEW piece \in Pieces \cup {Nothing},
               NEW reason \in TextReasons \cup {NoReason}, Buffer(piece, reason)
        PROVE  TextInv'
    BY <2>2, NothingSent DEF Buffer, parsing
  <2>3. CASE UpstreamError
    <3>1. /\ Send(<<ErrorEvent>>, "failed") /\ phase = "pull"
          /\ <<ErrorEvent>> \in Seq(Event)
      BY <2>3, EventTyping, OneEvent DEF UpstreamError
    <3>2. LastSent.kind \notin {"message_stop", "error"}
      BY <3>1, EmptySeq DEF TextInv, Point, PlainInv, LastSent, EndOf, NoEvent,
                   TextDelta, BlockDelta, MessageStart
    <3>3. Continues(LastSent, <<ErrorEvent>>)
      BY <3>2, EventTyping, OneEvent, FollowRules
    <3>4. parseTools => events' = <<ErrorEvent>>
      BY <3>1, ConcatEmptySeq DEF TextInv, Point, Send
    <3> QED
      BY <3>1, <3>3, <3>4, SendFollows DEF TextInv, WholeOrNothing
  <2>4. CASE Close
    <3>1. Send(Closing, "log") /\ phase = "pull" /\ ~parseTools
      BY <2>4 DEF Close, Closing
    <3>2. PlainInv
      BY <3>1 DEF TextInv, Point
    <3> QED
      BY <3>1, <3>2, SentTyping, ClosingFollows, SendFollows
      DEF TextInv, WholeOrNothing
  <2>5. CASE Parse
    <3>1. /\ Send(Opening, "calls") /\ phase = "pull" /\ parseTools
          /\ blockIndex' = IF Stripped = {} THEN 0 ELSE 1
      BY <2>5 DEF Parse, Opening
    <3>2. events = <<>> /\ LastSent = NoEvent /\ NoError(events)
      BY <3>1, EmptySeq DEF TextInv, Point, LastSent, EndOf, NoError
    <3>3. /\ ReadyFor(LastSent', blockIndex') /\ NoError(events') /\ Point' = "calls"
          /\ phase' # "pull"
      BY <3>1, <3>2, SentTyping, OpeningFollows, SendFollows
    <3> QED
      BY <3>1, <3>2, <3>3, SentTyping, OpeningFollows, SendFollows
      DEF TextInv, WholeOrNothing, NoError
  <2>6. parseTools /\ Point = "calls" => NoError(events)
    <3>1. LastSent # ErrorEvent \/ Point # "calls"
      BY DEF TextInv, ReadyFor, ErrorEvent, MessageStart, BlockStop
    <3>2. <<ErrorEvent>>[Len(<<ErrorEvent>>)] = ErrorEvent /\ <<ErrorEvent>> # <<>>
      OBVIOUS
    <3> QED
      BY <3>1, <3>2 DEF TextInv, WholeOrNothing, NoError, LastSent, EndOf
  <2>7. ASSUME NEW i \in calls, SendCall(i)
        PROVE  TextInv'
    <3>1. /\ Send(CallBlock(content[i]), "calls") /\ phase = "calls"
          /\ blockIndex' = blockIndex + 1
      BY <2>7 DEF SendCall
    <3>2. content[i] \in Tools
      BY DEF TypeOK, PositionsOf
    <3>3. ReadyFor(LastSent, blockIndex) /\ NoError(events) /\ parseTools
      BY <2>6, <3>1 DEF TextInv, Point
    <3>4. LastSent' = BlockStop(blockIndex) /\ NoError(events')
      BY <3>1, <3>2, <3>3, SentTyping, CallFollows, SendFollows
    <3>5. ReadyFor(LastSent', blockIndex')
      BY <3>1, <3>4 DEF ReadyFor, TypeOK
    <3> QED
      BY <3>1, <3>2, <3>3, <3>4, <3>5, SentTyping, CallFollows, SendFollows
      DEF TextInv, WholeOrNothing, NoError
  <2>8. CASE FinishCalls
    <3>1. Send(Finale(StopReason), "log") /\ phase = "calls"
      BY <2>8 DEF FinishCalls
    <3>2. ReadyFor(LastSent, blockIndex) /\ NoError(events) /\ parseTools
      BY <2>6, <3>1 DEF TextInv, Point
    <3> QED
      BY <3>1, <3>2, PartTyping, FinaleFollows, SendFollows
      DEF TextInv, WholeOrNothing, NoError
  <2>9. CASE WriteLog
    BY <2>9 DEF WriteLog, TextInv, Point, WholeOrNothing
  <2>10. CASE Yield
    <3>1. /\ phase = "yield" /\ yielded' = yielded + 1
          /\ phase' = IF yielded + 1 < Len(events) THEN "yield" ELSE resume
          /\ UNCHANGED <<parseTools, resume, events, messageStarted, blockOpened, blockIndex>>
      BY <2>10 DEF Yield, parsing
    <3>2. Point' = Point /\ Point = resume /\ yielded \in Nat /\ Len(events) \in Nat
      BY <3>1, LenProperties DEF Point, TypeOK
    <3>3. events # <<>> /\ yielded < Len(events)
      BY <3>1, <3>2, EmptySeq DEF TextInv
    <3>4. UNCHANGED <<PlainInv, LastSent>>
      BY <3>1 DEF PlainInv, LastSent
    <3>5. yielded' <= Len(events') /\ (phase' = "yield" => yielded' < Len(events'))
      BY <3>1, <3>2, <3>3 DEF TypeOK
    <3>6. parseTools /\ phase' = "pull" => events = <<>>
      BY <3>1, <3>2 DEF TextInv, Point
    <3> QED
      BY <3>1, <3>2, <3>4, <3>5, <3>6 DEF TextInv, WholeOrNothing
  <2>11. CASE ClientDisconnect
    BY <2>11 DEF ClientDisconnect, TextInv, Point, WholeOrNothing
  <2>12. CASE UNCHANGED vars
    BY <2>12, NothingSent DEF vars
  <2> QED
    BY <2>1, <2>2, <2>3, <2>4, <2>5, <2>7, <2>8, <2>9, <2>10, <2>11, <2>12
    DEF Next, EndOfStream, Terminated
<1> QED
  BY <1>1, <1>2, TypeCorrect, PTL DEF Spec

\* For every set of calls and every length of the answer: with tools the
\* client gets nothing while the answer is incomplete, and an error only
\* when it gets nothing else.
THEOREM AllOrNothing == Spec => []WholeOrNothing
<1>1. TextInv => WholeOrNothing
  BY DEF TextInv
<1> QED
  BY <1>1, TextInvariant, PTL

-----------------------------------------------------------------------------
(***************************************************************************)
(* The stream of the client.                                               *)
(***************************************************************************)
\* No event is taken back.
LEMMA EventsGrow ==
  ASSUME TypeOK, [Next]_vars
  PROVE  /\ events' \in Seq(Event) /\ Extends(events, events')
         /\ yielded' \in {yielded, yielded + 1}
         /\ yielded' # yielded => phase = "yield" /\ events' = events
<1>1. events \in Seq(Event) /\ Len(events) \in Nat /\ Extends(events, events)
  BY LenProperties DEF TypeOK, Extends
<1>2. ASSUME NEW more \in Seq(Event), NEW next, Send(more, next)
      PROVE  events' \in Seq(Event) /\ Extends(events, events') /\ yielded' = yielded
  BY <1>1, <1>2, ConcatExtends DEF Send
<1>3. ASSUME NEW piece \in Pieces \cup {Nothing},
             NEW reason \in TextReasons \cup {NoReason}, PassOn(piece, reason)
      PROVE  Send(PassedOn(piece), "pull")
  BY <1>3 DEF PassOn, PassedOn
<1>4. UpstreamError => Send(<<ErrorEvent>>, "failed") /\ <<ErrorEvent>> \in Seq(Event)
  BY EventTyping, OneEvent DEF UpstreamError
<1>5. Close => Send(Closing, "log")
  BY DEF Close, Closing
<1>6. Parse => Send(Opening, "calls")
  BY DEF Parse, Opening
<1>7. ASSUME NEW i \in calls, SendCall(i)
      PROVE  Send(CallBlock(content[i]), "calls") /\ content[i] \in Tools
  BY <1>7 DEF SendCall, TypeOK, PositionsOf
<1>8. FinishCalls => Send(Finale(StopReason), "log") /\ Finale(StopReason) \in Seq(Event)
  BY PartTyping DEF FinishCalls
<1>9. Yield => phase = "yield" /\ yielded' = yielded + 1 /\ events' = events
  BY DEF Yield
<1>10. \/ \E piece \in Pieces \cup {Nothing}, reason \in TextReasons \cup {NoReason} :
            Buffer(piece, reason)
       \/ WriteLog \/ ClientDisconnect \/ UNCHANGED vars
       => UNCHANGED <<events, yielded>>
  BY DEF Buffer, WriteLog, ClientDisconnect, vars
<1> QED
  BY <1>1, <1>2, <1>3, <1>4, <1>5, <1>6, <1>7, <1>8, <1>9, <1>10, SentTyping
  DEF Next, EndOfStream, Terminated

\* The instance's copies of the protocol's definitions are the module's own.
LEMMA ClientDefinitions ==
  /\ Client!Event = Event
  /\ \A e, f : Client!Follows(e, f) <=> Follows(e, f)
<1>1. Client!Event = Event
  BY DEF Event, BlockEvent, StopEvent, DeltaEvent, BlockTypes, StopReasons, Usage,
         MessageStart, MessageStop, ErrorEvent, Client!Event, Client!BlockEvent,
         Client!StopEvent, Client!DeltaEvent, Client!BlockTypes,
         Client!StopReasons, Client!Usage, Client!MessageStart,
         Client!MessageStop, Client!ErrorEvent
<1>2. ASSUME NEW e, NEW f
      PROVE  Client!Follows(e, f) <=> Follows(e, f)
  BY DEF Follows, StartsMessage, StartsBlock, ContinuesBlock, StopsBlock,
         FinishesMessage, StopsMessage, Fails, Coherent, NoEvent, MessageStart,
         BlockDelta, Client!Follows, Client!StartsMessage, Client!StartsBlock,
         Client!ContinuesBlock, Client!StopsBlock, Client!FinishesMessage,
         Client!StopsMessage, Client!Fails, Client!Coherent, Client!NoEvent,
         Client!MessageStart, Client!BlockDelta
<1> QED
  BY <1>1, <1>2

\* For every set of calls and every length of the answer: what the client
\* receives is a stream of the Anthropic protocol, with and without tools,
\* whether the answer ends, fails or is cut off.
THEOREM ProtocolCorrect == Spec => AnthropicProtocol
<1>1. Init => Client!Init
  BY DEF Init, Client!Init, LastReceived, NoEvent, Client!NoEvent
<1>2. TypeOK /\ TextInv /\ [Next]_vars => [Client!Receive]_LastReceived
  <2> SUFFICES ASSUME TypeOK, TextInv, [Next]_vars
               PROVE  [Client!Receive]_LastReceived
    OBVIOUS
  <2>0. /\ yielded \in Nat /\ yielded <= Len(events) /\ Len(events) \in Nat
        /\ events \in Seq(Event) /\ Continues(NoEvent, events)
        /\ phase = "yield" => yielded < Len(events)
    BY LenProperties DEF TypeOK, TextInv
  <2>1. CASE yielded' = yielded
    <3>1. Extends(events, events')
      BY EventsGrow
    <3> QED
      BY <2>0, <2>1, <3>1 DEF LastReceived, Extends
  <2>2. CASE yielded' # yielded
    <3>1. yielded' = yielded + 1 /\ events' = events /\ yielded + 1 \in 1 .. Len(events)
      BY <2>0, <2>2, EventsGrow
    <3>2. LastReceived' = events[yielded + 1]
      BY <2>0, <3>1 DEF LastReceived
    <3>3. LastReceived = IF yielded + 1 = 1 THEN NoEvent ELSE events[yielded + 1 - 1]
      BY <2>0 DEF LastReceived
    <3>4. Follows(LastReceived, LastReceived')
      BY <2>0, <3>1, <3>2, <3>3 DEF Continues
    <3>5. LastReceived' \in Event
      BY <2>0, <3>1, <3>2, ElementOfSeq
    <3> QED
      BY <3>4, <3>5, ClientDefinitions DEF Client!Receive
  <2> QED
    BY <2>1, <2>2
<1> QED
  BY <1>1, <1>2, TypeCorrect, TextInvariant, PTL
  DEF Spec, AnthropicProtocol, Client!Spec
-----------------------------------------------------------------------------
(***************************************************************************)
(* What the events tell, and what the log does.                            *)
(***************************************************************************)
\* The calls that were sent, and the events that start a block for one.
CallsSent == {i \in calls : i <= sent}
CallEvents == {e \in Event : e.kind = "content_block_start" /\ e.tool # NoTool}

\* The answer has ended: its last events are sent, or it is logged.
Ending == Point \in {"log", "done"}

\* Each call that was sent has started one block, and each that was found
\* was sent when the answer ends.
CallAccount ==
    /\ Point = "pull" \/ ~parseTools => calls = {} /\ sent = 0
    /\ Count(events, CallEvents) = Cardinality(CallsSent)
    /\ \A tool \in Tools :
         Count(events, Starts(tool)) # 0 <=> \E i \in CallsSent : content[i] = tool
    /\ Ending => Unsent = {}

\* Every text is passed on, or there is a block for what is left of them.
TextAccount ==
    IF ~parseTools THEN Count(events, Deltas(NoTool)) = Len(content)
    ELSE Ending \/ Point = "calls" =>
           (Count(events, Deltas(NoTool)) # 0 <=> Stripped # {})

\* The client is told one stop reason, at the end.
StopAccount ==
    /\ Point \in {"pull", "calls"} => Count(events, EndsOtherThan({})) = 0
    /\ Ending => Count(events, EndsOtherThan({StopReason})) = 0

\* The generator goes on when the client has everything, and logs what it
\* kept of the answer.
LogAccount ==
    /\ phase \in {"pull", "calls", "log", "done"} => yielded = Len(events)
    /\ phase = "done" =>
         logged = [stop  |-> StopReason,
                   text  |-> IF parseTools THEN Cardinality(Stripped)
                             ELSE Len(content),
                   calls |-> {content[i] : i \in calls}]

AccountInv == CallAccount /\ TextAccount /\ StopAccount /\ LogAccount

\* Which of the counted events an event is that starts a call.
LEMMA CallCounted ==
  /\ \A i \in Nat, t \in BlockTypes, o \in Tools \cup {NoTool} :
       /\ BlockStart(i, t, o) \in CallEvents <=> o # NoTool
       /\ BlockDelta(i, t, o) \notin CallEvents
  /\ \A i \in Nat : BlockStop(i) \notin CallEvents
  /\ \A r, u : MessageDelta(r, u) \notin CallEvents
  /\ \A e \in {MessageStart, MessageStop, ErrorEvent} : e \notin CallEvents
BY EventTyping
DEF CallEvents, MessageStart, MessageStop, ErrorEvent, BlockStop, BlockStart,
    BlockDelta, MessageDelta

\* Neither a call nor a stop reason is in s.
Plain(s) ==
    /\ Count(s, CallEvents) = 0
    /\ \A o \in Tools : Count(s, Starts(o)) = 0
    /\ Count(s, EndsOtherThan({})) = 0

\* The events that tell nothing about a call or a stop reason.
LEMMA PlainEvents ==
  /\ \A e \in {MessageStart, ErrorEvent, BlockStop(0), TextDelta(0),
               BlockStart(0, "text", NoTool)} :
       /\ e \notin CallEvents /\ e \notin EndsOtherThan({})
       /\ \A o \in Tools : e \notin Starts(o)
       /\ e \in Deltas(NoTool) <=> e = TextDelta(0)
<1>1. 0 \in Nat /\ "text" \in BlockTypes /\ NoTool \in Tools \cup {NoTool} /\ NoTool \notin Tools
  BY EventsAssumption DEF BlockTypes
<1>2. TextDelta(0) = BlockDelta(0, "text", NoTool)
  BY DEF TextDelta
<1>3. MessageStart # TextDelta(0) /\ ErrorEvent # TextDelta(0) /\ BlockStop(0) # TextDelta(0)
      /\ BlockStart(0, "text", NoTool) # TextDelta(0)
  BY <1>2 DEF MessageStart, ErrorEvent, BlockStop, BlockStart, BlockDelta
<1>4. \A e \in {MessageStart, ErrorEvent, BlockStop(0)} :
        /\ e \notin CallEvents /\ e \notin EndsOtherThan({})
        /\ \A o \in Tools : e \notin Starts(o)
        /\ e \notin Deltas(NoTool)
  BY <1>1, CallCounted, CountedEvents
<1>5. /\ BlockStart(0, "text", NoTool) \notin CallEvents
      /\ BlockStart(0, "text", NoTool) \notin EndsOtherThan({})
      /\ BlockStart(0, "text", NoTool) \notin Deltas(NoTool)
      /\ \A o \in Tools : BlockStart(0, "text", NoTool) \notin Starts(o)
  BY <1>1, CallCounted, CountedEvents
<1>6. /\ TextDelta(0) \notin CallEvents /\ TextDelta(0) \notin EndsOtherThan({})
      /\ TextDelta(0) \in Deltas(NoTool)
      /\ \A o \in Tools : TextDelta(0) \notin Starts(o)
  BY <1>1, <1>2, CallCounted, CountedEvents
<1> QED
  BY <1>3, <1>4, <1>5, <1>6

\* What the events of a chunk tell.
LEMMA PassedCounted ==
  ASSUME NEW piece
  PROVE  /\ Plain(PassedOn(piece))
         /\ Count(PassedOn(piece), Deltas(NoTool)) = IF piece = Nothing THEN 0 ELSE 1
<1> DEFINE a == IF messageStarted THEN <<>> ELSE <<MessageStart>>
           b == IF blockOpened THEN <<>> ELSE <<BlockStart(0, "text", NoTool)>>
           c == IF piece = Nothing THEN <<>> ELSE b \o <<TextDelta(0)>>
           d == <<TextDelta(0)>>
<1>0. PassedOn(piece) = a \o c
  BY DEF PassedOn
<1>1. /\ a \in Seq(Event) /\ b \in Seq(Event) /\ d \in Seq(Event)
      /\ Plain(a) /\ Plain(b) /\ Plain(d)
      /\ Count(a, Deltas(NoTool)) = 0 /\ Count(b, Deltas(NoTool)) = 0
      /\ Count(d, Deltas(NoTool)) = 1
  <2>1. MessageStart # TextDelta(0) /\ BlockStart(0, "text", NoTool) # TextDelta(0)
    BY DEF TextDelta, MessageStart, BlockStart, BlockDelta
  <2> QED
    BY <2>1, EventTyping, TextDeltaTyping, PlainEvents, CountNone, CountOne, EmptySeq DEF Plain
<1> HIDE DEF a, b
<1>2. /\ c \in Seq(Event) /\ Plain(c)
      /\ Count(c, Deltas(NoTool)) = IF piece = Nothing THEN 0 ELSE 1
  <2>1. CASE piece = Nothing
    BY <2>1, CountNone, EmptySeq DEF Plain
  <2>2. CASE piece # Nothing
    <3>1. c = b \o d
      BY <2>2
    <3> HIDE DEF c, d
    <3> QED
      BY <1>1, <2>2, <3>1, CountConcat DEF Plain
  <2> QED
    BY <2>1, <2>2
<1> HIDE DEF c, d
<1> QED
  BY <1>0, <1>1, <1>2, CountConcat DEF Plain

\* What the start of a parsed answer tells.
LEMMA OpeningCounted ==
  /\ Plain(Opening)
  /\ Count(Opening, Deltas(NoTool)) # 0 <=> Stripped # {}
<1> DEFINE f == BlockStart(0, "text", NoTool)
           block == <<f, TextDelta(0), BlockStop(0)>>
           one == <<MessageStart>>
           a == IF Stripped = {} THEN <<>> ELSE block
<1>0. Opening = one \o a
  BY DEF Opening
<1>1. /\ MessageStart # TextDelta(0) /\ f # TextDelta(0) /\ BlockStop(0) # TextDelta(0)
      /\ MessageStart \in Event /\ f \in Event /\ TextDelta(0) \in Event
      /\ BlockStop(0) \in Event
  BY EventTyping, TextDeltaTyping DEF TextDelta, MessageStart, BlockStart, BlockDelta, BlockStop
<1>2. one \in Seq(Event) /\ Plain(one) /\ Count(one, Deltas(NoTool)) = 0
  BY <1>1, PlainEvents, CountOne DEF Plain
<1>3. block \in Seq(Event) /\ Plain(block) /\ Count(block, Deltas(NoTool)) = 1
  <2>1. \A i \in 1 .. Len(block) : block[i] \in {f, TextDelta(0), BlockStop(0)}
    OBVIOUS
  <2>2. \A i \in 1 .. Len(block) : block[i] = TextDelta(0) <=> i = 2
    BY <1>1
  <2>3. block \in Seq(Event) /\ 2 \in 1 .. Len(block)
    BY <1>1
  <2> HIDE DEF block
  <2>4. Plain(block)
    BY <2>1, PlainEvents, CountZero DEF Plain
  <2>5. \A i \in 1 .. Len(block) : block[i] \in Deltas(NoTool) <=> i = 2
    BY <2>1, <2>2, PlainEvents
  <2>6. Count(block, Deltas(NoTool)) = 1
    BY <2>3, <2>5, CountSingle
  <2> QED
    BY <2>3, <2>4, <2>6
<1> HIDE DEF one, block
<1>4. /\ a \in Seq(Event) /\ Plain(a)
      /\ Count(a, Deltas(NoTool)) = IF Stripped = {} THEN 0 ELSE 1
  BY <1>3, CountNone, EmptySeq DEF Plain
<1> HIDE DEF a
<1> QED
  BY <1>0, <1>2, <1>4, CountConcat DEF Plain

\* The end of an answer tells its stop reason.
LEMMA FinaleCounted ==
  ASSUME TypeOK, NEW r \in StopReasons \cup {NoReason}
  PROVE  /\ Count(Finale(r), CallEvents) = 0
         /\ \A o \in Tools \cup {NoTool} :
              Count(Finale(r), Starts(o)) = 0 /\ Count(Finale(r), Deltas(o)) = 0
         /\ Count(Finale(r), EndsOtherThan({r})) = 0
<1> DEFINE e == MessageDelta(r, Estimate)
           s == <<e, MessageStop>>
<1>1. Estimate \in Usage /\ 0 \in Nat
  BY PartTyping
<1>2. \A i \in 1 .. Len(s) : s[i] \in {e, MessageStop}
  OBVIOUS
<1>3. Finale(r) = s
  BY DEF Finale
<1>4. /\ e \notin CallEvents /\ e \notin EndsOtherThan({r})
      /\ \A o : e \notin Starts(o) /\ e \notin Deltas(o)
  BY <1>1, CallCounted, CountedEvents
<1>5. /\ MessageStop \notin CallEvents /\ MessageStop \notin EndsOtherThan({r})
      /\ \A o : MessageStop \notin Starts(o) /\ MessageStop \notin Deltas(o)
  BY <1>1, CallCounted, CountedEvents
<1> HIDE DEF e, s
<1> QED
  BY <1>2, <1>3, <1>4, <1>5, CountZero

\* What the end of an answer without tools tells.
LEMMA ClosingCounted ==
  ASSUME TypeOK
  PROVE  /\ Count(Closing, CallEvents) = 0
         /\ \A o \in Tools : Count(Closing, Starts(o)) = 0
         /\ Count(Closing, Deltas(NoTool)) = 0
         /\ Count(Closing, EndsOtherThan({MapStopReason(finishReason)})) = 0
<1> DEFINE r == MapStopReason(finishReason)
           a == IF blockOpened THEN <<BlockStop(0)>> ELSE <<>>
           b == IF messageStarted THEN Finale(r) ELSE <<>>
<1>0. Closing = a \o b
  BY DEF Closing
<1>1. r \in StopReasons \cup {NoReason} /\ Finale(r) \in Seq(Event)
  BY PartTyping
<1> HIDE DEF r
<1>2. /\ a \in Seq(Event) /\ Plain(a) /\ Count(a, Deltas(NoTool)) = 0
      /\ Count(a, EndsOtherThan({r})) = 0
  <2>1. BlockStop(0) # TextDelta(0) /\ BlockStop(0) \in Event
    BY TextDeltaTyping DEF TextDelta, BlockStop, BlockDelta
  <2>2. a \in Seq(Event) /\ Plain(a) /\ Count(a, Deltas(NoTool)) = 0
    BY <2>1, PlainEvents, CountNone, CountOne, EmptySeq DEF Plain
  <2> HIDE DEF a
  <2> QED
    BY <2>2, NoEnds DEF Plain
<1>3. /\ b \in Seq(Event) /\ Count(b, CallEvents) = 0
      /\ \A o \in Tools : Count(b, Starts(o)) = 0
      /\ Count(b, Deltas(NoTool)) = 0 /\ Count(b, EndsOtherThan({r})) = 0
  BY <1>1, FinaleCounted, CountNone, EmptySeq
<1> HIDE DEF a, b
<1>4. /\ Count(Closing, CallEvents) = 0
      /\ \A o \in Tools : Count(Closing, Starts(o)) = 0
      /\ Count(Closing, Deltas(NoTool)) = 0
      /\ Count(Closing, EndsOtherThan({r})) = 0
  BY <1>0, <1>2, <1>3, CountConcat DEF Plain
<1> QED
  BY <1>4 DEF r

\* A call starts its own block and no other.
LEMMA CallBlockCounted ==
  ASSUME TypeOK, NEW tool \in Tools
  PROVE  /\ Count(CallBlock(tool), CallEvents) = 1
         /\ \A o \in Tools : Count(CallBlock(tool), Starts(o)) = IF o = tool THEN 1 ELSE 0
         /\ Count(CallBlock(tool), Deltas(NoTool)) = 0
         /\ Count(CallBlock(tool), EndsOtherThan({})) = 0
<1> DEFINE f == BlockStart(blockIndex, "tool_use", tool)
           g == BlockDelta(blockIndex, "tool_use", tool)
           h == BlockStop(blockIndex)
           s == <<f, g, h>>
<1>1. /\ blockIndex \in Nat /\ "tool_use" \in BlockTypes
      /\ tool \in Tools \cup {NoTool} /\ tool # NoTool
  BY EventsAssumption DEF TypeOK, BlockTypes
<1>2. /\ f \in CallEvents /\ f \notin Deltas(NoTool) /\ f \notin EndsOtherThan({})
      /\ \A o : f \in Starts(o) <=> o = tool
  BY <1>1, CallCounted, CountedEvents
<1>3. /\ g \notin CallEvents /\ g \notin Deltas(NoTool) /\ g \notin EndsOtherThan({})
      /\ \A o : g \notin Starts(o)
  BY <1>1, CallCounted, CountedEvents
<1>4. /\ h \notin CallEvents /\ h \notin Deltas(NoTool) /\ h \notin EndsOtherThan({})
      /\ \A o : h \notin Starts(o)
  BY <1>1, CallCounted, CountedEvents
<1>5. CallBlock(tool) = s
  BY DEF CallBlock
<1>6. \A i \in 1 .. Len(s) : s[i] \in {f, g, h} /\ (i # 1 => s[i] \in {g, h})
  OBVIOUS
<1>7. 1 \in 1 .. Len(s) /\ s[1] = f
  OBVIOUS
<1> HIDE DEF f, g, h, s
<1>8. \A i \in 1 .. Len(s) : s[i] \in CallEvents <=> i = 1
  BY <1>2, <1>3, <1>4, <1>6, <1>7
<1>9. ASSUME NEW o \in Tools
      PROVE  Count(s, Starts(o)) = IF o = tool THEN 1 ELSE 0
  <2>1. CASE o = tool
    <3>1. \A i \in 1 .. Len(s) : s[i] \in Starts(o) <=> i = 1
      BY <1>2, <1>3, <1>4, <1>6, <1>7, <2>1
    <3> QED
      BY <1>7, <2>1, <3>1, CountSingle
  <2>2. CASE o # tool
    <3>1. \A i \in 1 .. Len(s) : s[i] \notin Starts(o)
      BY <1>2, <1>3, <1>4, <1>6, <2>2
    <3> QED
      BY <2>2, <3>1, CountZero
  <2> QED
    BY <2>1, <2>2
<1>10. Count(s, Deltas(NoTool)) = 0 /\ Count(s, EndsOtherThan({})) = 0
  BY <1>2, <1>3, <1>4, <1>6, CountZero
<1>11. Count(s, CallEvents) = 1
  BY <1>7, <1>8, CountSingle
<1> QED
  BY <1>5, <1>9, <1>10, <1>11

\* Sending adds what the events tell, and the client gets them before the
\* generator goes on.
LEMMA SendAccount ==
  ASSUME TypeOK, LogAccount, phase \in {"pull", "calls"}, NEW more \in Seq(Event),
         NEW next \in {"pull", "calls", "log", "failed"}, Send(more, next)
  PROVE  /\ \A E : /\ Count(events', E) = Count(events, E) + Count(more, E)
                   /\ Count(events, E) \in Nat /\ Count(more, E) \in Nat
         /\ events' \in Seq(Event) /\ Point' = next /\ parseTools' = parseTools
         /\ LogAccount'
<1>1. /\ events \in Seq(Event) /\ events' = events \o more
      /\ yielded' = yielded /\ parseTools' = parseTools
  BY DEF TypeOK, Send
<1>2. ASSUME NEW E
      PROVE  /\ Count(events', E) = Count(events, E) + Count(more, E)
             /\ Count(events, E) \in Nat /\ Count(more, E) \in Nat
  BY <1>1, CountConcat, CountTyping
<1>3. LogAccount'
  <2>1. CASE more = <<>>
    <3>1. events' = events
      BY <1>1, <2>1, ConcatEmptySeq
    <3>2. yielded = Len(events) /\ phase' = next /\ next # "done"
      BY <2>1 DEF LogAccount, Send
    <3> QED
      BY <1>1, <3>1, <3>2 DEF LogAccount
  <2>2. CASE more # <<>>
    <3>1. phase' = "yield"
      BY <2>2 DEF Send
    <3> QED
      BY <3>1 DEF LogAccount
  <2> QED
    BY <2>1, <2>2
<1>4. events' \in Seq(Event) /\ Point' = next
  BY <1>1, ConcatProperties DEF Send, Point
<1> QED
  BY <1>1, <1>2, <1>3, <1>4

\* An action that makes no event and keeps the answer keeps the account of it.
LEMMA SameAnswer ==
  ASSUME AccountInv, Point' = Point, LogAccount',
         UNCHANGED <<parseTools, events, content, finishReason, calls, sent>>
  PROVE  AccountInv'
<1>1. /\ UNCHANGED <<CallsSent, Stripped, StopReason, Unsent>>
      /\ Ending' = Ending
  BY DEF CallsSent, Stripped, PositionsOf, StopReason, Unsent, Ending
<1>2. CallAccount'
  BY <1>1 DEF AccountInv, CallAccount
<1>3. TextAccount' /\ StopAccount'
  BY <1>1 DEF AccountInv, TextAccount, StopAccount
<1> QED
  BY <1>2, <1>3 DEF AccountInv

\* The sets of calls are finite.
LEMMA CallsTyping ==
  ASSUME TypeOK
  PROVE  /\ calls \in SUBSET Nat /\ IsFiniteSet(calls) /\ IsFiniteSet(CallsSent)
         /\ \A i \in calls : content[i] \in Tools
<1>1. Len(content) \in Nat /\ IsFiniteSet(1 .. Len(content))
  BY PartTyping, FS_Interval
<1>2. /\ calls \in SUBSET (1 .. Len(content)) /\ CallsSent \in SUBSET (1 .. Len(content))
      /\ \A i \in calls : content[i] \in Tools
  BY DEF TypeOK, PositionsOf, CallsSent
<1>3. IsFiniteSet(calls) /\ IsFiniteSet(CallsSent)
  BY <1>1, <1>2, FS_Subset
<1>4. calls \in SUBSET Nat
  BY <1>1, <1>2
<1> QED
  BY <1>2, <1>3, <1>4

LEMMA AccountInvariant == Spec => []AccountInv
<1>1. Init => AccountInv
  <2> SUFFICES ASSUME Init
               PROVE  AccountInv
    OBVIOUS
  <2>1. /\ events = <<>> /\ content = <<>> /\ calls = {} /\ phase = "pull"
        /\ yielded = 0 /\ sent = 0 /\ Len(events) = 0 /\ Len(content) = 0
    BY EmptySeq DEF Init
  <2>2. Point = "pull" /\ ~Ending /\ CallsSent = {}
    BY <2>1 DEF Point, Ending, CallsSent
  <2>3. CallAccount
    BY <2>1, <2>2, CountNone, FS_EmptySet DEF CallAccount
  <2>4. TextAccount /\ StopAccount /\ LogAccount
    BY <2>1, <2>2, CountNone DEF TextAccount, StopAccount, LogAccount
  <2> QED
    BY <2>3, <2>4 DEF AccountInv
<1>2. TypeOK /\ TextInv /\ AccountInv /\ [Next]_vars => AccountInv'
  <2> SUFFICES ASSUME TypeOK, TextInv, AccountInv, [Next]_vars
               PROVE  AccountInv'
    OBVIOUS
  <2>0. CallAccount /\ TextAccount /\ StopAccount /\ LogAccount
    BY DEF AccountInv
  <2>1. ASSUME NEW piece \in Pieces \cup {Nothing},
               NEW reason \in TextReasons \cup {NoReason}, Accumulate(piece, reason)
        PROVE  Len(content') = Len(content) + (IF piece = Nothing THEN 0 ELSE 1)
    BY <2>1, PartTyping, AppendProperties DEF Accumulate, TypeOK
  <2>2. ASSUME NEW piece \in Pieces \cup {Nothing},
               NEW reason \in TextReasons \cup {NoReason}, PassOn(piece, reason)
        PROVE  AccountInv'
    <3>1. /\ Send(PassedOn(piece), "pull") /\ phase = "pull" /\ ~parseTools
          /\ Accumulate(piece, reason) /\ calls' = calls /\ sent' = sent
      BY <2>2 DEF PassOn, PassedOn, parsing
    <3>2. /\ \A E : /\ Count(events', E) = Count(events, E) + Count(PassedOn(piece), E)
                    /\ Count(events, E) \in Nat
          /\ Point' = "pull" /\ ~parseTools' /\ LogAccount'
      BY <2>0, <3>1, SentTyping, SendAccount
    <3>3. Plain(PassedOn(piece))
          /\ Count(PassedOn(piece), Deltas(NoTool)) = IF piece = Nothing THEN 0 ELSE 1
      BY PassedCounted
    <3>4. calls = {} /\ CallsSent = {} /\ CallsSent' = {} /\ Point = "pull"
      BY <2>0, <3>1 DEF CallAccount, CallsSent, Point
    <3>5. CallAccount'
      BY <2>0, <3>1, <3>2, <3>3, <3>4 DEF CallAccount, Ending, Plain
    <3>6. TextAccount'
      BY <2>0, <2>1, <3>1, <3>2, <3>3, PartTyping DEF TextAccount
    <3>7. StopAccount'
      BY <2>0, <3>2, <3>3, <3>4 DEF StopAccount, Ending, Plain
    <3> QED
      BY <3>2, <3>5, <3>6, <3>7 DEF AccountInv
  <2>3. ASSUME NEW piece \in Pieces \cup {Nothing},
               NEW reason \in TextReasons \cup {NoReason}, Buffer(piece, reason)
        PROVE  AccountInv'
    <3>1. /\ phase = "pull" /\ parseTools
          /\ UNCHANGED <<parseTools, phase, resume, events, yielded, calls, sent>>
      BY <2>3 DEF Buffer, parsing
    <3>2. Point = "pull" /\ Point' = "pull" /\ calls = {} /\ CallsSent = {} /\ CallsSent' = {}
      BY <2>0, <3>1 DEF CallAccount, CallsSent, Point
    <3>3. CallAccount' /\ TextAccount' /\ StopAccount' /\ LogAccount'
      BY <2>0, <3>1, <3>2 DEF CallAccount, TextAccount, StopAccount, LogAccount, Ending
    <3> QED
      BY <3>3 DEF AccountInv
  <2>4. CASE UpstreamError
    <3> DEFINE one == <<ErrorEvent>>
    <3>1. /\ Send(one, "failed") /\ phase = "pull" /\ one \in Seq(Event)
          /\ UNCHANGED <<content, calls, sent>>
      BY <2>4, EventTyping, OneEvent DEF UpstreamError, parsing
    <3>2. Plain(one) /\ Count(one, Deltas(NoTool)) = 0
      <4>1. ErrorEvent # TextDelta(0)
        BY DEF ErrorEvent, TextDelta, BlockDelta
      <4> QED
        BY <4>1, PlainEvents, CountOne DEF Plain
    <3> HIDE DEF one
    <3>3. /\ \A E : /\ Count(events', E) = Count(events, E) + Count(one, E)
                    /\ Count(events, E) \in Nat
          /\ Point' = "failed" /\ parseTools' = parseTools /\ LogAccount'
      BY <2>0, <3>1, SendAccount
    <3>4. calls = {} /\ CallsSent = {} /\ CallsSent' = {} /\ Point = "pull"
      BY <2>0, <3>1 DEF CallAccount, CallsSent, Point
    <3>5. CallAccount'
      BY <2>0, <3>1, <3>2, <3>3, <3>4 DEF CallAccount, Ending, Plain
    <3>6. TextAccount'
      BY <2>0, <3>1, <3>2, <3>3 DEF TextAccount, Ending
    <3>7. StopAccount'
      BY <3>3 DEF StopAccount, Ending
    <3> QED
      BY <3>3, <3>5, <3>6, <3>7 DEF AccountInv
  <2>5. CASE Close
    <3>1. /\ Send(Closing, "log") /\ phase = "pull" /\ ~parseTools
          /\ UNCHANGED <<content, finishReason, calls, sent>>
      BY <2>5 DEF Close, Closing, parsing
    <3>2. /\ \A E : /\ Count(events', E) = Count(events, E) + Count(Closing, E)
                    /\ Count(events, E) \in Nat
          /\ Point' = "log" /\ ~parseTools' /\ LogAccount'
      BY <2>0, <3>1, SentTyping, SendAccount
    <3>3. calls = {} /\ CallsSent = {} /\ CallsSent' = {} /\ Point = "pull"
      BY <2>0, <3>1 DEF CallAccount, CallsSent, Point
    <3>4. CallAccount'
      BY <2>0, <3>1, <3>2, <3>3, ClosingCounted DEF CallAccount, Unsent
    <3>5. TextAccount'
      BY <2>0, <3>1, <3>2, ClosingCounted DEF TextAccount
    <3>6. StopAccount'
      <4>1. StopReason' = MapStopReason(finishReason)
        BY <3>1, <3>3 DEF StopReason
      <4>2. Count(events, EndsOtherThan({MapStopReason(finishReason)})) = 0
        BY <2>0, <3>3, NoEnds DEF StopAccount, TypeOK
      <4>3. Count(events', EndsOtherThan({MapStopReason(finishReason)})) = 0
        BY <3>2, <4>2, ClosingCounted
      <4> QED
        BY <3>2, <4>1, <4>3 DEF StopAccount
    <3> QED
      BY <3>2, <3>4, <3>5, <3>6 DEF AccountInv
  <2>6. CASE Parse
    <3>1. /\ Send(Opening, "calls") /\ phase = "pull" /\ parseTools
          /\ UNCHANGED <<content, sent>> /\ calls' = Found
      BY <2>6 DEF Parse, Opening
    <3>2. /\ \A E : /\ Count(events', E) = Count(events, E) + Count(Opening, E)
                    /\ Count(events, E) \in Nat
          /\ Point' = "calls" /\ parseTools' /\ LogAccount'
      BY <2>0, <3>1, SentTyping, SendAccount
    <3>3. /\ calls = {} /\ CallsSent = {} /\ Point = "pull" /\ events = <<>> /\ sent = 0
      BY <2>0, <3>1 DEF CallAccount, CallsSent, Point, TextInv
    <3>4. CallsSent' = {}
      BY <3>1, <3>3 DEF CallsSent, Found, PositionsOf
    <3>5. CallAccount'
      BY <2>0, <3>2, <3>3, <3>4, OpeningCounted DEF CallAccount, Ending, Plain
    <3>6. Stripped' = Stripped
      BY <3>1 DEF Stripped, PositionsOf
    <3>7. TextAccount'
      <4>1. Count(events, Deltas(NoTool)) = 0
        BY <3>3, CountNone
      <4>2. Count(events', Deltas(NoTool)) # 0 <=> Stripped # {}
        BY <3>2, <4>1, OpeningCounted, CountTyping, SentTyping
      <4> QED
        BY <3>2, <3>6, <4>2 DEF TextAccount
    <3>8. StopAccount'
      BY <2>0, <3>2, <3>3, OpeningCounted DEF StopAccount, Ending, Plain
    <3> QED
      BY <3>2, <3>5, <3>7, <3>8 DEF AccountInv
  <2>7. ASSUME NEW i \in calls, SendCall(i)
        PROVE  AccountInv'
    <3> DEFINE tool == content[i]
    <3>1. /\ Send(CallBlock(tool), "calls") /\ phase = "calls" /\ tool \in Tools
          /\ UNCHANGED <<content, finishReason, calls>> /\ sent' = i /\ IsNext(i)
      BY <2>7, CallsTyping DEF SendCall
    <3>2. /\ \A E : /\ Count(events', E) = Count(events, E) + Count(CallBlock(tool), E)
                    /\ Count(events, E) \in Nat
          /\ Point' = "calls" /\ parseTools' = parseTools /\ LogAccount'
      BY <2>0, <3>1, SentTyping, SendAccount
    <3>3. Point = "calls" /\ parseTools
      BY <3>1 DEF Point, TextInv
    <3>4. CallsSent' = CallsSent \cup {i} /\ i \notin CallsSent
      BY <3>1, CallsTyping DEF CallsSent, IsNext, Unsent, TypeOK
    <3>5. Cardinality(CallsSent') = Cardinality(CallsSent) + 1
      BY <3>4, CallsTyping, FS_AddElement
    <3>6. CallAccount'
      <4>1. Count(events', CallEvents) = Cardinality(CallsSent')
        BY <2>0, <3>1, <3>2, <3>5, CallBlockCounted DEF CallAccount
      <4>2. ASSUME NEW o \in Tools
            PROVE  Count(events', Starts(o)) # 0 <=> \E j \in CallsSent' : content'[j] = o
        <5>1. Count(events, Starts(o)) # 0 <=> \E j \in CallsSent : content[j] = o
          BY <2>0 DEF CallAccount
        <5>2. Count(CallBlock(tool), Starts(o)) = IF o = tool THEN 1 ELSE 0
          BY <3>1, CallBlockCounted
        <5>3. /\ Count(events', Starts(o)) =
                   Count(events, Starts(o)) + Count(CallBlock(tool), Starts(o))
              /\ Count(events, Starts(o)) \in Nat
          BY <3>2
        <5>4. Count(events', Starts(o)) # 0 <=>
                Count(events, Starts(o)) # 0 \/ o = tool
          BY <5>2, <5>3
        <5> QED
          BY <3>1, <3>4, <5>1, <5>4
      <4> QED
        BY <3>2, <3>3, <4>1, <4>2 DEF CallAccount, Ending
    <3>7. Stripped' = Stripped
      BY <3>1 DEF Stripped, PositionsOf
    <3>8. TextAccount'
      BY <2>0, <3>1, <3>2, <3>3, <3>7, CallBlockCounted DEF TextAccount
    <3>9. StopAccount'
      BY <2>0, <3>1, <3>2, <3>3, CallBlockCounted DEF StopAccount, Ending
    <3> QED
      BY <3>2, <3>6, <3>8, <3>9 DEF AccountInv
  <2>8. CASE FinishCalls
    <3>1. /\ Send(Finale(StopReason), "log") /\ phase = "calls" /\ Unsent = {}
          /\ UNCHANGED <<content, finishReason, calls, sent>>
      BY <2>8 DEF FinishCalls, parsing
    <3>2. /\ StopReason \in StopReasons \cup {NoReason}
          /\ Finale(StopReason) \in Seq(Event)
      BY PartTyping
    <3> DEFINE end == Finale(StopReason)
    <3>3. /\ Count(end, CallEvents) = 0 /\ Count(end, Deltas(NoTool)) = 0
          /\ Count(end, EndsOtherThan({StopReason})) = 0
          /\ \A o \in Tools : Count(end, Starts(o)) = 0
      BY <3>2, FinaleCounted
    <3> HIDE DEF end
    <3>4. /\ \A E : /\ Count(events', E) = Count(events, E) + Count(end, E)
                    /\ Count(events, E) \in Nat
          /\ Point' = "log" /\ parseTools' = parseTools /\ LogAccount'
      BY <2>0, <3>1, <3>2, SendAccount DEF end
    <3>5. Point = "calls" /\ parseTools
      BY <3>1 DEF Point, TextInv
    <3>6. UNCHANGED <<CallsSent, Unsent, Stripped, StopReason>>
      BY <3>1 DEF CallsSent, Unsent, Stripped, PositionsOf, StopReason
    <3>7. CallAccount'
      BY <2>0, <3>1, <3>3, <3>4, <3>5, <3>6 DEF CallAccount
    <3>8. TextAccount'
      BY <2>0, <3>3, <3>4, <3>5, <3>6 DEF TextAccount
    <3>9. StopAccount'
      <4>1. Count(events, EndsOtherThan({StopReason})) = 0
        BY <2>0, <3>5, NoEnds DEF StopAccount, TypeOK
      <4> QED
        BY <3>3, <3>4, <3>6, <4>1 DEF StopAccount
    <3> QED
      BY <3>4, <3>7, <3>8, <3>9 DEF AccountInv
  <2>9. CASE WriteLog
    <3>1. /\ phase = "log" /\ phase' = "done"
          /\ UNCHANGED <<parseTools, events, yielded, content, finishReason, calls, sent>>
          /\ logged' = [stop  |-> StopReason,
                        text  |-> IF parseTools THEN Cardinality(Stripped)
                                  ELSE Len(content),
                        calls |-> {content[i] : i \in calls}]
      BY <2>9 DEF WriteLog, parsing
    <3>2. /\ UNCHANGED <<CallsSent, Stripped, StopReason, Unsent>>
          /\ Ending' = Ending /\ Point # "pull" /\ Point' = "done" /\ Point = "log"
      BY <3>1 DEF CallsSent, Stripped, PositionsOf, StopReason, Unsent, Ending, Point
    <3>3. LogAccount'
      BY <2>0, <3>1, <3>2 DEF LogAccount
    <3>4. CallAccount'
      BY <2>0, <3>1, <3>2 DEF CallAccount
    <3>5. TextAccount' /\ StopAccount'
      BY <2>0, <3>1, <3>2 DEF TextAccount, StopAccount
    <3> QED
      BY <3>3, <3>4, <3>5 DEF AccountInv
  <2>10. CASE Yield
    <3>1. /\ phase = "yield" /\ yielded' = yielded + 1
          /\ phase' = IF yielded + 1 < Len(events) THEN "yield" ELSE resume
          /\ UNCHANGED <<parseTools, resume, events, content, finishReason, calls, sent>>
      BY <2>10 DEF Yield, parsing
    <3>2. /\ yielded < Len(events) /\ yielded \in Nat /\ Len(events) \in Nat
          /\ resume \notin {"done", "yield"}
      BY <3>1, LenProperties DEF TextInv, TypeOK
    <3>3. LogAccount'
      BY <3>1, <3>2 DEF LogAccount
    <3>4. Point' = Point
      BY <3>1, <3>2 DEF Point
    <3> QED
      BY <3>1, <3>3, <3>4, SameAnswer
  <2>11. CASE ClientDisconnect
    <3>1. /\ phase' = "dropped"
          /\ UNCHANGED <<parseTools, events, content, finishReason, calls, sent>>
      BY <2>11 DEF ClientDisconnect, parsing
    <3>2. /\ UNCHANGED <<CallsSent>> /\ ~Ending' /\ Point' = "dropped"
      BY <3>1 DEF CallsSent, Ending, Point
    <3>3. CallAccount' /\ TextAccount' /\ StopAccount' /\ LogAccount'
      BY <2>0, <3>1, <3>2 DEF CallAccount, TextAccount, StopAccount, LogAccount
    <3> QED
      BY <3>3 DEF AccountInv
  <2>12. CASE UNCHANGED vars
    <3>1. LogAccount'
      BY <2>0, <2>12 DEF vars, LogAccount, StopReason, Stripped, PositionsOf
    <3> QED
      BY <2>12, <3>1, SameAnswer DEF vars, Point
  <2> QED
    BY <2>2, <2>3, <2>4, <2>5, <2>6, <2>7, <2>8, <2>9, <2>10, <2>11, <2>12
    DEF Next, EndOfStream, Terminated
<1> QED
  BY <1>1, <1>2, TypeCorrect, TextInvariant, PTL DEF Spec

\* For every set of calls and every length of the answer: what is logged is
\* what the client received.
THEOREM LogAgrees == Spec => []LogMatchesWire
<1>1. TypeOK /\ AccountInv => LogMatchesWire
  <2> SUFFICES ASSUME TypeOK, AccountInv, phase = "done"
               PROVE  /\ yielded = Len(events)
                      /\ logged.calls = {events[i].tool : i \in CallStarts}
                      /\ Cardinality(CallStarts) = Cardinality(calls)
                      /\ IF parseTools THEN logged.text # 0 <=> TextDeltas # {}
                         ELSE logged.text = Cardinality(TextDeltas)
                      /\ \A i \in 1 .. Len(events) :
                           events[i].kind = "message_delta" => events[i].stop = logged.stop
    BY DEF LogMatchesWire
  <2>1. /\ CallAccount /\ TextAccount /\ StopAccount /\ LogAccount
        /\ Ending /\ events \in Seq(Event)
    BY DEF AccountInv, Ending, Point, TypeOK
  <2>2. \A i \in 1 .. Len(events) : events[i] \in Event
    BY <2>1, ElementOfSeq
  <2>3. /\ CallStarts = Places(events, CallEvents)
        /\ TextDeltas = Places(events, Deltas(NoTool))
    BY <2>2 DEF CallStarts, TextDeltas, Places, CallEvents, Deltas
  <2>4. CallsSent = calls
    BY <2>1, CallsTyping DEF CallAccount, CallsSent, Unsent, TypeOK
  <2>5. Cardinality(CallStarts) = Cardinality(calls)
    BY <2>1, <2>3, <2>4 DEF CallAccount, Count
  <2>6. \A tool \in Tools :
          Places(events, Starts(tool)) # {} <=> \E i \in calls : content[i] = tool
    BY <2>1, <2>4, CountTyping DEF CallAccount
  <2>7. {events[i].tool : i \in CallStarts} = {content[i] : i \in calls}
    <3>1. ASSUME NEW i \in CallStarts
          PROVE  events[i].tool \in {content[j] : j \in calls}
      <4>1. events[i] \in BlockEvent /\ events[i].tool \in Tools
        BY <2>2 DEF CallStarts, Event, BlockEvent, StopEvent, DeltaEvent,
                    MessageStart, MessageStop, ErrorEvent
      <4>2. i \in Places(events, Starts(events[i].tool))
        BY <2>2 DEF CallStarts, Places, Starts
      <4> QED
        BY <2>6, <4>1, <4>2
    <3>2. ASSUME NEW j \in calls
          PROVE  content[j] \in {events[i].tool : i \in CallStarts}
      <4>1. content[j] \in Tools /\ content[j] # NoTool
        BY CallsTyping, EventsAssumption
      <4>2. PICK i \in Places(events, Starts(content[j])) : TRUE
        BY <2>6, <4>1
      <4>3. i \in CallStarts /\ events[i].tool = content[j]
        BY <4>1, <4>2 DEF Places, Starts, CallStarts
      <4> QED
        BY <4>3
    <3> QED
      BY <3>1, <3>2
  <2>8. /\ logged.stop = StopReason /\ logged.calls = {content[i] : i \in calls}
        /\ logged.text = IF parseTools THEN Cardinality(Stripped) ELSE Len(content)
        /\ yielded = Len(events)
    BY <2>1 DEF LogAccount
  <2>9. IF parseTools THEN logged.text # 0 <=> TextDeltas # {}
        ELSE logged.text = Cardinality(TextDeltas)
    <3>1. Cardinality(Stripped) = 0 <=> Stripped = {}
      <4>1. IsFiniteSet(1 .. Len(content)) /\ Stripped \in SUBSET (1 .. Len(content))
        BY PartTyping, FS_Interval DEF Stripped, PositionsOf
      <4> QED
        BY <4>1, FS_Subset, FS_EmptySet
    <3>2. Count(events, Deltas(NoTool)) = 0 <=> TextDeltas = {}
      BY <2>1, <2>3, CountTyping
    <3> QED
      BY <2>1, <2>3, <2>8, <3>1, <3>2 DEF TextAccount, Count
  <2>10. ASSUME NEW i \in 1 .. Len(events), events[i].kind = "message_delta"
         PROVE  events[i].stop = logged.stop
    <3>1. Places(events, EndsOtherThan({StopReason})) = {}
      BY <2>1, CountTyping DEF StopAccount
    <3> QED
      BY <2>2, <2>8, <2>10, <3>1 DEF Places, EndsOtherThan
  <2> QED
    BY <2>5, <2>7, <2>8, <2>9, <2>10
<1> QED
  BY <1>1, TypeCorrect, AccountInvariant, PTL

-----------------------------------------------------------------------------
(***************************************************************************)
(* The end of the stream.                                                  *)
(***************************************************************************)
\* What the last event is when the answer has ended, and that the client has it
\* all when it has failed.
EndInv ==
    /\ Ending => LastSent = IF parseTools \/ messageStarted THEN MessageStop ELSE NoEvent
    /\ Point = "failed" => LastSent = ErrorEvent
    /\ phase = "failed" => yielded = Len(events)

\* A chunk comes from the upstream API.
Chunk == \E piece \in Pieces \cup {Nothing}, reason \in TextReasons \cup {NoReason} :
           PassOn(piece, reason) \/ Buffer(piece, reason)

\* The steps that are left at most when no more chunk comes: one for every
\* event to yield, four for every call to send, and a few more.
Rest ==
    CASE Point = "pull"  -> 10 + 4 * Len(content)
      [] Point = "calls" -> 4 + 4 * Cardinality(Unsent)
      [] Point = "log"   -> 1
      [] OTHER           -> 0

Work == IF Terminated THEN 0 ELSE (Len(events) - yielded) + Rest

\* What sending does to the end of the events.
LEMMA SendEnds ==
  ASSUME TypeOK, NEW more \in Seq(Event),
         NEW next \in {"pull", "calls", "log", "failed"}, Send(more, next)
  PROVE  /\ LastSent' = EndOf(LastSent, more) /\ Point' = next
         /\ Len(events') = Len(events) + Len(more)
         /\ Len(events) \in Nat /\ Len(more) \in Nat
         /\ UNCHANGED <<parseTools, yielded>>
         /\ phase' \in {next, "yield"}
<1>1. events \in Seq(Event) /\ events' = events \o more
  BY DEF TypeOK, Send
<1>2. EndOf(NoEvent, events \o more) = EndOf(EndOf(NoEvent, events), more)
  BY <1>1, ConcatEvents
<1>3. Len(events \o more) = Len(events) + Len(more) /\ Len(events) \in Nat /\ Len(more) \in Nat
  BY <1>1, ConcatProperties, LenProperties
<1>4. UNCHANGED <<parseTools, yielded>> /\ phase' \in {next, "yield"} /\ Point' = next
  BY DEF Send, Point
<1> QED
  BY <1>1, <1>2, <1>3, <1>4 DEF LastSent

\* How long it is what the actions send, and what it ends with.
LEMMA PartsEnd ==
  ASSUME TypeOK
  PROVE  /\ Len(Opening) <= 4
         /\ Len(Closing) <= 3
         /\ \A tool : Len(CallBlock(tool)) = 3
         /\ \A e, r : Len(Finale(r)) = 2 /\ EndOf(e, Finale(r)) = MessageStop
         /\ messageStarted => \A e : EndOf(e, Closing) = MessageStop
         /\ ~messageStarted /\ ~blockOpened => Closing = <<>>
<1> DEFINE a == IF blockOpened THEN <<BlockStop(0)>> ELSE <<>>
           f == Finale(MapStopReason(finishReason))
           b == IF messageStarted THEN f ELSE <<>>
<1>1. \A e, r : Len(Finale(r)) = 2 /\ EndOf(e, Finale(r)) = MessageStop
  BY DEF Finale, EndOf
<1>2. a \in Seq(Event) /\ f \in Seq(Event) /\ b \in Seq(Event) /\ Len(a) <= 1
  BY PartTyping, TextDeltaTyping
<1>3. Closing = a \o b /\ Len(f) = 2 /\ Len(b) <= 2
  <2>1. Closing = a \o b
    BY DEF Closing
  <2> HIDE DEF f
  <2>2. Len(f) = 2
    BY <1>1 DEF f
  <2>3. b = f \/ b = <<>>
    OBVIOUS
  <2>4. Len(<<>>) = 0
    OBVIOUS
  <2> HIDE DEF b
  <2> QED
    BY <2>1, <2>2, <2>3, <2>4
<1>4. \A e : EndOf(e, f) = MessageStop
  BY <1>1
<1>5. Len(Opening) <= 4 /\ \A tool : Len(CallBlock(tool)) = 3
  BY DEF Opening, CallBlock
<1>6. ~messageStarted /\ ~blockOpened => Closing = <<>>
  BY <1>3
<1>7. messageStarted => b = f
  OBVIOUS
<1> HIDE DEF a, b, f
<1>8. Len(Closing) <= 3
  BY <1>2, <1>3, ConcatProperties, LenProperties
<1>9. messageStarted => \A e : EndOf(e, Closing) = MessageStop
  <2> SUFFICES ASSUME messageStarted, NEW e
               PROVE  EndOf(e, Closing) = MessageStop
    OBVIOUS
  <2>1. EndOf(e, a \o b) = EndOf(EndOf(e, a), b)
    BY <1>2, ConcatEvents
  <2> QED
    BY <1>3, <1>4, <1>7, <2>1
<1> QED
  BY <1>1, <1>5, <1>6, <1>8, <1>9

LEMMA EndStep ==
  ASSUME TypeOK, TextInv, EndInv, [Next]_vars
  PROVE  EndInv'
<1>1. CASE Chunk
  <2> SUFFICES ASSUME NEW piece \in Pieces \cup {Nothing},
                      NEW reason \in TextReasons \cup {NoReason},
                      PassOn(piece, reason) \/ Buffer(piece, reason)
               PROVE  EndInv'
    BY <1>1 DEF Chunk
  <2>1. CASE PassOn(piece, reason)
    <3>1. Send(PassedOn(piece), "pull") /\ PassedOn(piece) \in Seq(Event)
      BY <2>1, SentTyping DEF PassOn, PassedOn
    <3>2. Point' = "pull" /\ phase' \in {"pull", "yield"}
      BY <3>1, SendEnds
    <3> QED
      BY <3>2 DEF EndInv, Ending
  <2>2. CASE Buffer(piece, reason)
    BY <2>2 DEF Buffer, EndInv, Ending, Point
  <2> QED
    BY <2>1, <2>2
<1>2. CASE UpstreamError
  <2>1. Send(<<ErrorEvent>>, "failed") /\ <<ErrorEvent>> \in Seq(Event)
    BY <1>2, EventTyping, OneEvent DEF UpstreamError
  <2>2. /\ LastSent' = ErrorEvent /\ Point' = "failed"
    BY <2>1, SendEnds DEF EndOf
  <2>3. phase' = "yield"
    BY <2>1 DEF Send
  <2> QED
    BY <2>2, <2>3 DEF EndInv, Ending
<1>3. CASE Close
  <2>1. /\ Send(Closing, "log") /\ Closing \in Seq(Event)
        /\ phase = "pull" /\ ~parseTools /\ messageStarted' = messageStarted
    BY <1>3, SentTyping DEF Close, Closing
  <2>2. /\ LastSent' = EndOf(LastSent, Closing) /\ Point' = "log"
        /\ parseTools' = parseTools /\ phase' \in {"log", "yield"}
    BY <2>1, SendEnds
  <2>3. CASE messageStarted
    BY <2>1, <2>2, <2>3, PartsEnd DEF EndInv
  <2>4. CASE ~messageStarted
    <3>1. events = <<>> /\ ~blockOpened
      BY <2>1, <2>4 DEF TextInv, Point, PlainInv
    <3>2. LastSent' = NoEvent
      BY <2>2, <2>4, <3>1, PartsEnd DEF EndOf, LastSent
    <3> QED
      BY <2>1, <2>2, <2>4, <3>2 DEF EndInv
  <2> QED
    BY <2>3, <2>4
<1>4. CASE Parse
  <2>1. Send(Opening, "calls") /\ Opening \in Seq(Event)
    BY <1>4, SentTyping DEF Parse, Opening
  <2> QED
    BY <2>1, SendEnds DEF EndInv, Ending
<1>5. ASSUME NEW i \in calls, SendCall(i)
      PROVE  EndInv'
  <2>1. Send(CallBlock(content[i]), "calls") /\ CallBlock(content[i]) \in Seq(Event)
    BY <1>5, CallsTyping, SentTyping DEF SendCall
  <2> QED
    BY <2>1, SendEnds DEF EndInv, Ending
<1>6. CASE FinishCalls
  <2>1. /\ Send(Finale(StopReason), "log") /\ Finale(StopReason) \in Seq(Event)
        /\ phase = "calls"
    BY <1>6, PartTyping DEF FinishCalls
  <2>2. parseTools
    BY <2>1 DEF TextInv, Point
  <2> QED
    BY <2>1, <2>2, SendEnds, PartsEnd DEF EndInv
<1>7. CASE WriteLog
  BY <1>7 DEF WriteLog, EndInv, Ending, Point, LastSent
<1>8. CASE Yield
  <2>1. /\ phase = "yield" /\ yielded' = yielded + 1
        /\ phase' = IF yielded + 1 < Len(events) THEN "yield" ELSE resume
        /\ UNCHANGED <<parseTools, resume, events, messageStarted>>
    BY <1>8 DEF Yield
  <2>2. /\ yielded \in Nat /\ Len(events) \in Nat /\ yielded < Len(events)
        /\ Point' = Point /\ LastSent' = LastSent
    BY <2>1, LenProperties DEF TypeOK, TextInv, Point, LastSent
  <2>3. phase' = "failed" => yielded' = Len(events')
    BY <2>1, <2>2
  <2> QED
    BY <2>1, <2>2, <2>3 DEF EndInv, Ending
<1>9. CASE ClientDisconnect
  BY <1>9 DEF ClientDisconnect, EndInv, Ending, Point
<1>10. CASE UNCHANGED vars
  BY <1>10 DEF vars, EndInv, Ending, Point, LastSent
<1> QED
  BY <1>1, <1>2, <1>3, <1>4, <1>5, <1>6, <1>7, <1>8, <1>9, <1>10
  DEF Next, EndOfStream, Terminated, Chunk

LEMMA EndInvariant == Spec => []EndInv
<1>1. Init => EndInv
  BY DEF Init, EndInv, Ending, Point
<1> QED
  BY <1>1, EndStep, TypeCorrect, TextInvariant, PTL DEF Spec

\* The last event of a stream that was not dropped says how it ended.
EndsAsItShould ==
    /\ phase = "done" =>
         LastReceived = IF parseTools \/ messageStarted THEN MessageStop ELSE NoEvent
    /\ phase = "failed" => LastReceived = ErrorEvent

\* For every set of calls and every length of the answer: a stream that was not
\* dropped ends with message_stop or with an error, in both generators; only
\* without tools, and if no chunk came, it has no event (handle_streaming,
\* handle_streaming_with_tools).
THEOREM EndsWell == Spec => []EndsAsItShould
<1>1. TypeOK /\ EndInv /\ AccountInv => EndsAsItShould
  <2> SUFFICES ASSUME TypeOK, EndInv, AccountInv, phase \in {"done", "failed"}
               PROVE  EndsAsItShould
    BY DEF EndsAsItShould
  <2>1. yielded = Len(events) /\ Point = phase
    BY DEF EndInv, AccountInv, LogAccount, Point
  <2>2. events \in Seq(Event) /\ (Len(events) = 0 <=> events = <<>>)
    BY EmptySeq DEF TypeOK
  <2>3. LastReceived = LastSent
    BY <2>1, <2>2 DEF LastReceived, LastSent, EndOf
  <2> QED
    BY <2>1, <2>3 DEF EndInv, Ending, EndsAsItShould
<1> QED
  BY <1>1, TypeCorrect, EndInvariant, AccountInvariant, PTL

\* The calls that are still to be sent can be counted.
Countable == /\ IsFiniteSet(Unsent) /\ Cardinality(Unsent) \in Nat
             /\ Cardinality(Unsent) <= Len(content)

LEMMA UnsentCountable == TypeOK => Countable
<1> SUFFICES ASSUME TypeOK
             PROVE  Countable
  OBVIOUS
<1>1. PICK n \in Nat : n = Len(content)
  BY PartTyping
<1>2. IsFiniteSet(1 .. n) /\ Cardinality(1 .. n) = n
  BY FS_Interval
<1>3. Unsent \subseteq 1 .. n
  BY <1>1 DEF Unsent, TypeOK, PositionsOf
<1>4. IsFiniteSet(Unsent) /\ Cardinality(Unsent) <= Cardinality(1 .. n)
  BY <1>2, <1>3, FS_Subset
<1> QED
  BY <1>1, <1>2, <1>4, FS_CardinalityType DEF Countable

LEMMA WorkIsNat ==
  ASSUME TypeOK, TextInv, Countable
  PROVE  Work \in Nat
<1>1. /\ Len(events) \in Nat /\ yielded \in Nat /\ yielded <= Len(events)
      /\ Len(content) \in Nat /\ Cardinality(Unsent) \in Nat
  BY LenProperties DEF TypeOK, TextInv, Countable
<1>2. Rest \in Nat
  BY <1>1 DEF Rest
<1> QED
  BY <1>1, <1>2 DEF Work

\* For every set of calls and every length of the answer: every step that takes
\* no chunk lowers a natural number, so that neither generator can go on for
\* ever on its own (handle_streaming, handle_streaming_with_tools).
THEOREM WorkEnds == Spec => [](Work \in Nat) /\ [][Chunk \/ Work' < Work]_vars
<1>1. TypeOK /\ TypeOK' /\ TextInv /\ Countable /\ Countable' /\ [Next]_vars
        => [Chunk \/ Work' < Work]_vars
  <2> SUFFICES ASSUME TypeOK, TypeOK', TextInv, Countable, Countable', Next, ~Chunk,
                      ~UNCHANGED vars
               PROVE  Work' < Work
    OBVIOUS
  <2>0. /\ Len(events) \in Nat /\ yielded \in Nat /\ yielded <= Len(events)
        /\ Len(content) \in Nat /\ Cardinality(Unsent) \in Nat
        /\ Cardinality(Unsent)' \in Nat /\ Cardinality(Unsent)' <= Len(content)'
    BY LenProperties DEF TypeOK, TextInv, Countable
  <2>1. CASE UpstreamError
    <3>1. Send(<<ErrorEvent>>, "failed") /\ <<ErrorEvent>> \in Seq(Event) /\ phase = "pull"
      BY <2>1, EventTyping, OneEvent DEF UpstreamError
    <3>2. /\ Point' = "failed" /\ Len(events') = Len(events) + 1 /\ yielded' = yielded
          /\ phase' = "yield"
      BY <3>1, SendEnds DEF Send
    <3> QED
      BY <2>0, <3>1, <3>2 DEF Work, Rest, Terminated, Point
  <2>2. CASE Close
    <3>1. Send(Closing, "log") /\ Closing \in Seq(Event) /\ phase = "pull"
      BY <2>2, SentTyping DEF Close, Closing
    <3>2. /\ Point' = "log" /\ Len(events') <= Len(events) + 3 /\ yielded' = yielded
          /\ phase' \in {"log", "yield"} /\ Len(events') \in Nat
      BY <3>1, SendEnds, PartsEnd
    <3> QED
      BY <2>0, <3>1, <3>2 DEF Work, Rest, Terminated, Point
  <2>3. CASE Parse
    <3>1. /\ Send(Opening, "calls") /\ Opening \in Seq(Event) /\ phase = "pull"
          /\ content' = content
      BY <2>3, SentTyping DEF Parse, Opening
    <3>2. /\ Point' = "calls" /\ Len(events') <= Len(events) + 4 /\ yielded' = yielded
          /\ phase' \in {"calls", "yield"} /\ Len(events') \in Nat
      BY <3>1, SendEnds, PartsEnd
    <3>3. Work = Len(events) - yielded + 10 + 4 * Len(content)
      BY <2>0, <3>1 DEF Work, Rest, Terminated, Point
    <3>4. Work' = Len(events') - yielded + 4 + 4 * Cardinality(Unsent)'
      BY <2>0, <3>2 DEF Work, Rest, Terminated, Point
    <3> QED
      BY <2>0, <3>1, <3>2, <3>3, <3>4
  <2>4. ASSUME NEW i \in calls, SendCall(i)
        PROVE  Work' < Work
    <3>1. /\ Send(CallBlock(content[i]), "calls") /\ CallBlock(content[i]) \in Seq(Event)
          /\ phase = "calls" /\ IsNext(i) /\ sent' = i /\ calls' = calls
      BY <2>4, CallsTyping, SentTyping DEF SendCall
    <3>2. /\ Point' = "calls" /\ Len(events') = Len(events) + 3 /\ yielded' = yielded
          /\ phase' \in {"calls", "yield"}
      BY <3>1, SendEnds, PartsEnd
    <3>3. i \in Unsent /\ Unsent' = Unsent \ {i}
      <4>1. sent \in Nat /\ i \in Nat /\ \A j \in calls : j \in Nat
        BY CallsTyping DEF TypeOK
      <4>2. i \in Unsent /\ \A j \in Unsent : i <= j
        BY <3>1 DEF IsNext
      <4>3. Unsent' = {j \in calls : j > i}
        BY <3>1 DEF Unsent
      <4>4. \A j \in calls : j > i <=> j \in Unsent /\ j # i
        BY <4>1, <4>2 DEF Unsent
      <4>5. Unsent \subseteq calls
        BY DEF Unsent
      <4> QED
        BY <4>2, <4>3, <4>4, <4>5
    <3>4. Cardinality(Unsent)' = Cardinality(Unsent) - 1
      BY <3>3, FS_RemoveElement DEF Countable
    <3>5. Work = Len(events) - yielded + 4 + 4 * Cardinality(Unsent)
      BY <2>0, <3>1 DEF Work, Rest, Terminated, Point
    <3>6. Work' = Len(events') - yielded + 4 + 4 * Cardinality(Unsent)'
      BY <2>0, <3>2 DEF Work, Rest, Terminated, Point
    <3> QED
      BY <2>0, <3>2, <3>4, <3>5, <3>6
  <2>5. CASE FinishCalls
    <3>1. /\ Send(Finale(StopReason), "log") /\ Finale(StopReason) \in Seq(Event)
          /\ phase = "calls"
      BY <2>5, PartTyping DEF FinishCalls
    <3>2. /\ Point' = "log" /\ Len(events') = Len(events) + 2 /\ yielded' = yielded
          /\ phase' \in {"log", "yield"}
      BY <3>1, SendEnds, PartsEnd
    <3> QED
      BY <2>0, <3>1, <3>2 DEF Work, Rest, Terminated, Point
  <2>6. CASE Yield
    <3>1. /\ phase = "yield" /\ yielded' = yielded + 1
          /\ phase' = IF yielded + 1 < Len(events) THEN "yield" ELSE resume
          /\ UNCHANGED <<resume, events, content, calls, sent>>
      BY <2>6 DEF Yield, parsing
    <3>2. Point' = Point /\ Unsent' = Unsent
      BY <3>1 DEF Point, Unsent, TypeOK
    <3>3. Rest' = Rest /\ Rest \in Nat
      BY <2>0, <3>1, <3>2 DEF Rest
    <3>4. Work = Len(events) - yielded + Rest /\ yielded < Len(events)
      BY <3>1 DEF Work, Terminated, TextInv
    <3>5. Work' = 0 \/ Work' = Len(events) - (yielded + 1) + Rest
      BY <3>1, <3>3 DEF Work
    <3> QED
      BY <2>0, <3>3, <3>4, <3>5
  <2>7. CASE WriteLog
    <3>1. phase = "log" /\ phase' = "done"
      BY <2>7 DEF WriteLog
    <3> QED
      BY <2>0, <3>1 DEF Work, Rest, Terminated, Point
  <2>8. CASE ClientDisconnect
    <3>1. phase \in {"pull", "yield"} /\ phase' = "dropped"
      BY <2>8 DEF ClientDisconnect
    <3>2. Rest \in Nat /\ (phase = "yield" => yielded < Len(events))
          /\ (phase = "pull" => Rest # 0)
      BY <2>0 DEF Rest, TextInv, Point
    <3> QED
      BY <2>0, <3>1, <3>2 DEF Work, Terminated
  <2> QED
    BY <2>1, <2>2, <2>3, <2>4, <2>5, <2>6, <2>7, <2>8
    DEF Next, EndOfStream, Terminated, Chunk
<1> QED
  BY <1>1, WorkIsNat, UnsentCountable, TypeCorrect, TextInvariant, PTL DEF Spec
=============================================================================
