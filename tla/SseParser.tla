----------------------------- MODULE SseParser -----------------------------
(***************************************************************************)
(* parse_sse_stream: the body of a streamed answer, which the network cuts *)
(* into chunks anywhere, is parsed into the chunks of a chat completion.   *)
(*                                                                         *)
(* A body is a sequence of units, the smallest things a cut can separate:  *)
(* "nl" is a line feed; "data" is all of a data line up to its first       *)
(* character outside of ASCII; "hi" and "lo" are the two bytes of that     *)
(* character; "comment", "done" and "bad" are whole lines: a comment, the  *)
(* end marker, and data that is not the JSON of a chunk.  The number of a  *)
(* unit names the line.  Lines end in a line feed only, as the upstream    *)
(* API sends them.                                                         *)
(***************************************************************************)
EXTENDS Naturals, Sequences, FiniteSets, SequencesExt

CONSTANT Bodies   \* what the upstream API may send

UnitKinds == {"data", "hi", "lo", "nl", "comment", "done", "bad"}
Units == [k : UnitKinds, n : Nat]

\* A body; the units that stand for a whole line, or for its beginning, come
\* first in a line.
ASSUME BodiesAssumption ==
    /\ Bodies \subseteq Seq(Units)
    /\ \A b \in Bodies : \A i \in 2 .. Len(b) :
         b[i].k \in {"data", "comment", "done", "bad"} => b[i - 1].k = "nl"

VARIABLES
    body,     \* the whole body, for reference
    wire,     \* what has not been read of it
    buf,      \* buf, after decoding
    frame,    \* what is left of the frame that is processed
    phase,    \* where the generator is
    yielded   \* the data lines parsed and yielded

sseVars == <<body, wire, buf, frame, phase, yielded>>

SseInit ==
    /\ body \in Bodies
    /\ wire = body
    /\ buf = <<>> /\ frame = <<>> /\ yielded = <<>>
    /\ phase = "pull"

Is(seq, i, kind) == i \in 1 .. Len(seq) /\ seq[i].k = kind

\* from_utf8_lossy: a half character becomes a replacement character.
Decode(chunk) ==
    [i \in 1 .. Len(chunk) |->
        IF \/ Is(chunk, i, "hi") /\ ~Is(chunk, i + 1, "lo")
           \/ Is(chunk, i, "lo") /\ ~Is(chunk, i - 1, "hi")
        THEN [chunk[i] EXCEPT !.k = "replacement"]
        ELSE chunk[i]]

\* The places of blank lines; the next frame ends at the first of them.
Blanks(s) == {i \in 1 .. Len(s) : Is(s, i, "nl") /\ Is(s, i + 1, "nl")}
First(S) == CHOOSE i \in S : \A j \in S : i <= j

\* Slip: the rest of the previous chunk is forgotten.
PullAfresh ==
    /\ phase = "pull" /\ Blanks(buf) = {}
    /\ wire # <<>>
    /\ \E n \in 1 .. Len(wire) :
         /\ buf' = Decode(SubSeq(wire, 1, n))
         /\ wire' = SubSeq(wire, n + 1, Len(wire))
    /\ UNCHANGED <<body, frame, phase, yielded>>

\* stream.next(): the next chunk is any non-empty part of the body.
Pull ==
    /\ phase = "pull" /\ Blanks(buf) = {}
    /\ wire # <<>>
    /\ \E n \in 1 .. Len(wire) :
         /\ buf' = buf \o Decode(SubSeq(wire, 1, n))
         /\ wire' = SubSeq(wire, n + 1, Len(wire))
    /\ UNCHANGED <<body, frame, phase, yielded>>

\* A blank line completes a frame.
CutFrame ==
    /\ phase = "pull" /\ Blanks(buf) # {}
    /\ frame' = SubSeq(buf, 1, First(Blanks(buf)) - 1)
    /\ buf' = SubSeq(buf, First(Blanks(buf)) + 2, Len(buf))
    /\ phase' = "lines"
    /\ UNCHANGED <<body, wire, yielded>>

\* One line of the frame: blank lines and comments are skipped, a chunk is
\* yielded, the marker ends the stream, data that is no JSON fails it.
ProcessLine ==
    /\ phase = "lines" /\ frame # <<>>
    /\ LET ends == {i \in 1 .. Len(frame) : Is(frame, i, "nl")}
           end  == IF ends = {} THEN Len(frame) + 1 ELSE First(ends)
           line == SubSeq(frame, 1, end - 1)
       IN  /\ frame' = SubSeq(frame, end + 1, Len(frame))
           /\ yielded' = IF Is(line, 1, "data") THEN Append(yielded, line)
                         ELSE yielded
           /\ phase' = CASE Is(line, 1, "done") -> "ended"
                         [] Is(line, 1, "bad") -> "failed"
                         [] OTHER -> "lines"
    /\ UNCHANGED <<body, wire, buf>>

FrameDone ==
    /\ phase = "lines" /\ frame = <<>>
    /\ phase' = "pull"
    /\ UNCHANGED <<body, wire, buf, frame, yielded>>

\* The body has ended: what is left in buf is dropped.
BodyEnds ==
    /\ phase = "pull" /\ Blanks(buf) = {} /\ wire = <<>>
    /\ phase' = "ended"
    /\ UNCHANGED <<body, wire, buf, frame, yielded>>

\* Reading the body fails.
ReadFails ==
    /\ phase = "pull" /\ Blanks(buf) = {}
    /\ phase' = "failed"
    /\ UNCHANGED <<body, wire, buf, frame, yielded>>

SseStep == Pull \/ CutFrame \/ ProcessLine \/ FrameDone \/ BodyEnds
-----------------------------------------------------------------------------
\* Reference: the places of the data lines in complete frames before the end
\* marker or the first line that is no chunk, and which of them one is.
Stops(i) == body[i].k \in {"done", "bad"}
Expected ==
    {i \in 1 .. Len(body) :
        /\ body[i].k = "data" /\ \E j \in Blanks(body) : i < j
        /\ \A j \in 1 .. i - 1 : ~Stops(j)}
Upto(place) == {i \in Expected : i <= place}
Rank(place) == Cardinality(Upto(place))

\* Wherever the network cuts the body, the chunks come out in order and none
\* is invented; when the stream ends without an error, none is missing but
\* those of a frame that was never completed (the loop over "\n\n").
CutIndependent ==
    /\ Len(yielded) <= Cardinality(Expected)
    /\ \A i \in Expected :
         Rank(i) <= Len(yielded) => yielded[Rank(i)][1].n = body[i].n
    /\ phase = "ended" => Len(yielded) = Cardinality(Expected)

\* The comment of parse_sse_stream: partial lines are buffered across byte
\* boundaries.  So the text of a line does not depend on the cuts, either.
TextIntact ==
    \A i \in 1 .. Len(yielded) : \A j \in 1 .. Len(yielded[i]) :
        yielded[i][j].k # "replacement"
=============================================================================
