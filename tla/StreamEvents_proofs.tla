------------------------ MODULE StreamEvents_proofs ------------------------
(***************************************************************************)
(* Lemmas about sequences of events, for the proofs that a generator's     *)
(* events are a stream of the Anthropic protocol, and that they are the    *)
(* ones its log tells of.                                                  *)
(***************************************************************************)
EXTENDS StreamEvents, SequenceTheorems, FiniteSetTheorems, TLAPS

\* The event after which the next one comes, when s was sent after e.
EndOf(e, s) == IF s = <<>> THEN e ELSE s[Len(s)]

\* Sent after e, the events of s follow one another in the protocol.
Continues(e, s) ==
    \A i \in 1 .. Len(s) : Follows(IF i = 1 THEN e ELSE s[i-1], s[i])

\* Block i may start after e.
ReadyFor(e, i) ==
    \/ e = MessageStart /\ i = 0
    \/ e = BlockStop(i - 1) /\ i > 0

-----------------------------------------------------------------------------
\* The constructors make events.
LEMMA EventTyping ==
  /\ MessageStart \in Event /\ MessageStop \in Event /\ ErrorEvent \in Event
  /\ \A i \in Nat : BlockStop(i) \in Event
  /\ \A i \in Nat, t \in BlockTypes, o \in Tools \cup {NoTool} :
       BlockStart(i, t, o) \in Event /\ BlockDelta(i, t, o) \in Event
  /\ \A r \in StopReasons \cup {NoReason}, u \in Usage : MessageDelta(r, u) \in Event
BY DEF Event, BlockEvent, StopEvent, DeltaEvent, MessageStart, MessageStop,
       ErrorEvent, BlockStop, BlockStart, BlockDelta, MessageDelta

\* One event.
LEMMA OneEvent ==
  ASSUME NEW e, NEW f \in Event
  PROVE  /\ <<f>> \in Seq(Event)
         /\ EndOf(e, <<f>>) = f
         /\ Continues(e, <<f>>) <=> Follows(e, f)
BY DEF EndOf, Continues

\* Two events.
LEMMA TwoEvents ==
  ASSUME NEW e, NEW f \in Event, NEW g \in Event, Follows(e, f), Follows(f, g)
  PROVE  /\ <<f, g>> \in Seq(Event) /\ EndOf(e, <<f, g>>) = g
         /\ Continues(e, <<f, g>>)
BY DEF EndOf, Continues

\* Three events.
LEMMA ThreeEvents ==
  ASSUME NEW e, NEW f \in Event, NEW g \in Event, NEW h \in Event,
         Follows(e, f), Follows(f, g), Follows(g, h)
  PROVE  /\ <<f, g, h>> \in Seq(Event) /\ EndOf(e, <<f, g, h>>) = h
         /\ Continues(e, <<f, g, h>>)
BY DEF EndOf, Continues

\* Nothing.
LEMMA NoEvents ==
  ASSUME NEW e
  PROVE  <<>> \in Seq(Event) /\ EndOf(e, <<>>) = e /\ Continues(e, <<>>)
BY DEF EndOf, Continues

\* What follows s \o t follows t, and t has to continue what s ends with.
LEMMA ConcatEvents ==
  ASSUME NEW e, NEW s \in Seq(Event), NEW t \in Seq(Event)
  PROVE  /\ s \o t \in Seq(Event)
         /\ EndOf(e, s \o t) = EndOf(EndOf(e, s), t)
         /\ Continues(e, s) /\ Continues(EndOf(e, s), t) => Continues(e, s \o t)
<1>1. /\ s \o t \in Seq(Event)
      /\ Len(s \o t) = Len(s) + Len(t) /\ Len(s) \in Nat /\ Len(t) \in Nat
      /\ \A i \in 1 .. Len(s) + Len(t) :
           (s \o t)[i] = IF i <= Len(s) THEN s[i] ELSE t[i - Len(s)]
  BY ConcatProperties, LenProperties
<1>2. /\ s = <<>> <=> Len(s) = 0
      /\ t = <<>> <=> Len(t) = 0
      /\ s \o t = <<>> <=> Len(s \o t) = 0
  BY <1>1, EmptySeq
<1>3. EndOf(e, s \o t) = EndOf(EndOf(e, s), t)
  BY <1>1, <1>2 DEF EndOf
<1>4. ASSUME Continues(e, s), Continues(EndOf(e, s), t),
             NEW i \in 1 .. Len(s) + Len(t)
      PROVE  Follows(IF i = 1 THEN e ELSE (s \o t)[i-1], (s \o t)[i])
  <2>1. CASE i <= Len(s)
    BY <2>1, <1>1, <1>4 DEF Continues
  <2>2. CASE i = Len(s) + 1
    <3>1. Follows(EndOf(e, s), t[1])
      BY <2>2, <1>1, <1>4 DEF Continues
    <3>2. EndOf(e, s) = IF i = 1 THEN e ELSE (s \o t)[i-1]
      BY <2>2, <1>1, <1>2 DEF EndOf
    <3> QED
      BY <2>2, <3>1, <3>2, <1>1
  <2>3. CASE i > Len(s) + 1
    <3>1. i - Len(s) \in 2 .. Len(t)
      BY <2>3, <1>1
    <3>2. Follows(t[i - Len(s) - 1], t[i - Len(s)])
      BY <3>1, <1>1, <1>4 DEF Continues
    <3> QED
      BY <2>3, <3>1, <3>2, <1>1
  <2> QED
    BY <2>1, <2>2, <2>3, <1>1
<1> QED
  BY <1>1, <1>3, <1>4 DEF Continues
\* An open block may be continued or closed.
LEMMA InsideBlock ==
  ASSUME NEW i, NEW t, NEW o,
         NEW e \in {BlockStart(i, t, o), BlockDelta(i, t, o)}
  PROVE  Follows(e, BlockDelta(i, t, o)) /\ Follows(e, BlockStop(i))
BY DEF Follows, ContinuesBlock, StopsBlock, BlockStart, BlockDelta, BlockStop

\* Which events may follow which, for the events the translator makes.
LEMMA FollowRules ==
  /\ Follows(NoEvent, MessageStart)
  /\ \A e, t, o : \A i \in Nat : ReadyFor(e, i) /\ (t = "tool_use" <=> o # NoTool) =>
       Follows(e, BlockStart(i, t, o))
  /\ \A e, i, r, u : ReadyFor(e, i) => Follows(e, MessageDelta(r, u))
  /\ \A e : e.kind = "message_delta" => Follows(e, MessageStop)
  /\ \A e : e.kind \notin {"message_stop", "error"} => Follows(e, ErrorEvent)
<1>1. Follows(NoEvent, MessageStart)
  BY DEF Follows, StartsMessage, NoEvent, MessageStart
<1>2. ASSUME NEW e, NEW i \in Nat, NEW t, NEW o, ReadyFor(e, i), t = "tool_use" <=> o # NoTool
      PROVE  Follows(e, BlockStart(i, t, o))
  BY <1>2 DEF Follows, ReadyFor, StartsBlock, Coherent, MessageStart, BlockStop,
              BlockStart
<1>4. ASSUME NEW e, NEW i, NEW r, NEW u, ReadyFor(e, i)
      PROVE  Follows(e, MessageDelta(r, u))
  BY <1>4 DEF Follows, ReadyFor, FinishesMessage, MessageStart, BlockStop, MessageDelta
<1>5. \A e : e.kind = "message_delta" => Follows(e, MessageStop)
  BY DEF Follows, StopsMessage, MessageStop
<1>6. \A e : e.kind \notin {"message_stop", "error"} => Follows(e, ErrorEvent)
  BY DEF Follows, Fails, ErrorEvent
<1> QED
  BY <1>1, <1>2, <1>4, <1>5, <1>6

\* The events of s are the first ones of t.
Extends(s, t) == Len(s) <= Len(t) /\ \A i \in 1 .. Len(s) : t[i] = s[i]

LEMMA ConcatExtends ==
  ASSUME NEW s, NEW t \in Seq(Event), NEW u \in Seq(Event), Extends(s, t),
         Len(s) \in Nat
  PROVE  t \o u \in Seq(Event) /\ Extends(s, t \o u)
BY ConcatProperties, LenProperties DEF Extends
-----------------------------------------------------------------------------
(***************************************************************************)
(* Counting events.                                                        *)
(***************************************************************************)
\* Where the events of E are in s, and how many they are.
Places(s, E) == {i \in 1 .. Len(s) : s[i] \in E}
Count(s, E) == Cardinality(Places(s, E))

\* The events that start a block of tool call o, that carry a piece of it,
\* and the message_deltas with another stop_reason than those of R.
Starts(o) == {e \in Event : e.kind = "content_block_start" /\ e.tool = o}
Deltas(o) == {e \in Event : e.kind = "content_block_delta" /\ e.tool = o}
EndsOtherThan(R) == {e \in Event : e.kind = "message_delta" /\ e.stop \notin R}

\* A count is a number, and zero when there is no such event.
LEMMA CountTyping ==
  ASSUME NEW S, NEW s \in Seq(S), NEW E
  PROVE  /\ IsFiniteSet(Places(s, E)) /\ Count(s, E) \in Nat
         /\ Count(s, E) = 0 <=> Places(s, E) = {}
<1>1. Len(s) \in Nat
  BY LenProperties
<1>2. IsFiniteSet(1 .. Len(s))
  BY <1>1, FS_Interval
<1>3. Places(s, E) \in SUBSET (1 .. Len(s))
  BY DEF Places
<1>4. IsFiniteSet(Places(s, E))
  BY <1>2, <1>3, FS_Subset
<1> QED
  BY <1>4, FS_CardinalityType, FS_EmptySet DEF Count

LEMMA CountNone == \A E : Count(<<>>, E) = 0
<1> SUFFICES ASSUME NEW E
             PROVE  Count(<<>>, E) = 0
  OBVIOUS
<1>1. Places(<<>>, E) = {}
  BY DEF Places
<1> QED
  BY <1>1, FS_EmptySet DEF Count

LEMMA CountOne ==
  ASSUME NEW e, NEW E
  PROVE  Count(<<e>>, E) = IF e \in E THEN 1 ELSE 0
<1>1. Places(<<e>>, E) = IF e \in E THEN {1} ELSE {}
  BY DEF Places
<1> QED
  BY <1>1, FS_EmptySet, FS_Singleton DEF Count

\* No event of s is counted, or a single one.
LEMMA CountZero ==
  ASSUME NEW s, NEW E, \A i \in 1 .. Len(s) : s[i] \notin E
  PROVE  Count(s, E) = 0
<1>1. Places(s, E) = {}
  BY DEF Places
<1> QED
  BY <1>1, FS_EmptySet DEF Count

LEMMA CountSingle ==
  ASSUME NEW s, NEW E, NEW k \in 1 .. Len(s),
         \A i \in 1 .. Len(s) : s[i] \in E <=> i = k
  PROVE  Count(s, E) = 1
<1>1. Places(s, E) = {k}
  BY DEF Places
<1> QED
  BY <1>1, FS_Singleton DEF Count

\* The events of s \o t are those of s and, shifted, those of t.
LEMMA CountConcat ==
  ASSUME NEW S, NEW s \in Seq(S), NEW t \in Seq(S)
  PROVE  /\ s \o t \in Seq(S)
         /\ \A E : Count(s \o t, E) = Count(s, E) + Count(t, E)
<1>1. /\ s \o t \in Seq(S)
      /\ Len(s \o t) = Len(s) + Len(t) /\ Len(s) \in Nat /\ Len(t) \in Nat
      /\ \A i \in 1 .. Len(s) + Len(t) :
           (s \o t)[i] = IF i <= Len(s) THEN s[i] ELSE t[i - Len(s)]
  BY ConcatProperties, LenProperties
<1>2. ASSUME NEW E
      PROVE  Count(s \o t, E) = Count(s, E) + Count(t, E)
  <2> DEFINE P == Places(s, E)
             Q == Places(t, E)
             R == {i \in Len(s) + 1 .. Len(s) + Len(t) : (s \o t)[i] \in E}
             shift == [j \in Q |-> j + Len(s)]
  <2>1. Places(s \o t, E) = P \cup R
    BY <1>1 DEF Places
  <2>2. P \cap R = {}
    BY <1>1 DEF Places
  <2>3. shift \in Bijection(Q, R)
    <3>1. \A j \in Q : j \in 1 .. Len(t) /\ t[j] \in E
      BY DEF Places
    <3>2. shift \in [Q -> R]
      BY <1>1, <3>1
    <3>3. \A i, j \in Q : shift[i] = shift[j] => i = j
      BY <1>1, <3>1
    <3>4. \A i \in R : i - Len(s) \in Q /\ shift[i - Len(s)] = i
      BY <1>1 DEF Places
    <3> HIDE DEF shift, P, Q, R
    <3> QED
      BY <3>2, <3>3, <3>4 DEF Bijection, Injection, Surjection, IsInjective
  <2>4. IsFiniteSet(P) /\ IsFiniteSet(Q)
    BY CountTyping
  <2>5. IsFiniteSet(R) /\ Cardinality(R) = Cardinality(Q)
    BY <2>3, <2>4, FS_Bijection DEF ExistsBijection
  <2>6. Cardinality(P \cup R) = Cardinality(P) + Cardinality(R) - Cardinality(P \cap R)
    BY <2>4, <2>5, FS_Union
  <2>7. Cardinality(P \cap R) = 0 /\ Cardinality(P) \in Nat /\ Cardinality(Q) \in Nat
    BY <2>2, <2>4, FS_EmptySet, FS_CardinalityType
  <2> HIDE DEF P, Q, R
  <2>8. Cardinality(P \cup R) = Cardinality(P) + Cardinality(Q)
    BY <2>5, <2>6, <2>7
  <2> QED
    BY <2>1, <2>8 DEF Count, P, Q
<1> QED
  BY <1>1, <1>2

\* One event more.
LEMMA CountAppend ==
  ASSUME NEW S, NEW s \in Seq(S), NEW e \in S
  PROVE  /\ Append(s, e) \in Seq(S)
         /\ \A E : Count(Append(s, e), E) = Count(s, E) + IF e \in E THEN 1 ELSE 0
<1> DEFINE one == <<e>>
<1>1. one \in Seq(S) /\ \A E : Count(one, E) = IF e \in E THEN 1 ELSE 0
  BY CountOne
<1>2. Append(s, e) = s \o one
  BY AppendIsConcat
<1> HIDE DEF one
<1> QED
  BY <1>1, <1>2, CountConcat

\* Four events, a block and a message_delta.
LEMMA CountFour ==
  ASSUME NEW a, NEW b, NEW c, NEW d, NEW E
  PROVE  Count(<<a, b, c, d>>, E) =
           (IF a \in E THEN 1 ELSE 0) + (IF b \in E THEN 1 ELSE 0)
             + (IF c \in E THEN 1 ELSE 0) + (IF d \in E THEN 1 ELSE 0)
<1> DEFINE P == IF a \in E THEN {1} ELSE {}
           Q == IF b \in E THEN P \cup {2} ELSE P
           R == IF c \in E THEN Q \cup {3} ELSE Q
           S == IF d \in E THEN R \cup {4} ELSE R
<1>0. Places(<<a, b, c, d>>, E) = S
  BY DEF Places
<1>1. 2 \notin P /\ 3 \notin Q /\ 4 \notin R
  OBVIOUS
<1>2. IsFiniteSet(P) /\ Cardinality(P) = IF a \in E THEN 1 ELSE 0
  BY FS_EmptySet, FS_Singleton
<1> HIDE DEF P
<1>3. IsFiniteSet(Q) /\ Cardinality(Q) = Cardinality(P) + IF b \in E THEN 1 ELSE 0
  BY <1>1, <1>2, FS_AddElement
<1> HIDE DEF Q
<1>4. IsFiniteSet(R) /\ Cardinality(R) = Cardinality(Q) + IF c \in E THEN 1 ELSE 0
  BY <1>1, <1>2, <1>3, FS_AddElement
<1> HIDE DEF R
<1>5. Cardinality(S) = Cardinality(R) + IF d \in E THEN 1 ELSE 0
  <2>1. Cardinality(R) \in Nat
    BY <1>4, FS_CardinalityType
  <2>2. Cardinality(R \cup {4}) = Cardinality(R) + 1
    BY <1>1, <1>4, FS_AddElement
  <2> QED
    BY <2>1, <2>2
<1> HIDE DEF S
<1> QED
  BY <1>0, <1>2, <1>3, <1>4, <1>5 DEF Count

\* Which of the counted events an event is.
LEMMA CountedEvents ==
  /\ \A i \in Nat, t \in BlockTypes, o \in Tools \cup {NoTool} :
       /\ \A p : /\ BlockStart(i, t, o) \in Starts(p) <=> o = p
                 /\ BlockDelta(i, t, o) \in Deltas(p) <=> o = p
                 /\ BlockStart(i, t, o) \notin Deltas(p)
                 /\ BlockDelta(i, t, o) \notin Starts(p)
       /\ \A R : /\ BlockStart(i, t, o) \notin EndsOtherThan(R)
                 /\ BlockDelta(i, t, o) \notin EndsOtherThan(R)
  /\ \A r \in StopReasons \cup {NoReason}, u \in Usage :
       /\ \A p : MessageDelta(r, u) \notin Starts(p) /\ MessageDelta(r, u) \notin Deltas(p)
       /\ \A R : MessageDelta(r, u) \in EndsOtherThan(R) <=> r \notin R
  /\ \A i \in Nat : \A e \in {MessageStart, MessageStop, ErrorEvent, BlockStop(i)} :
       /\ \A p : e \notin Starts(p) /\ e \notin Deltas(p)
       /\ \A R : e \notin EndsOtherThan(R)
BY EventTyping
DEF Starts, Deltas, EndsOtherThan, MessageStart, MessageStop, ErrorEvent,
    BlockStop, BlockStart, BlockDelta, MessageDelta
\* Without any message_delta there is none with a certain stop_reason.
LEMMA NoEnds ==
  ASSUME NEW s \in Seq(Event), Count(s, EndsOtherThan({})) = 0, NEW R
  PROVE  Count(s, EndsOtherThan(R)) = 0
<1>1. EndsOtherThan(R) \subseteq EndsOtherThan({})
  BY DEF EndsOtherThan
<1>2. Places(s, EndsOtherThan({})) = {}
  BY CountTyping
<1>3. Places(s, EndsOtherThan(R)) = {}
  BY <1>1, <1>2 DEF Places
<1> QED
  BY <1>3, CountTyping
=============================================================================
