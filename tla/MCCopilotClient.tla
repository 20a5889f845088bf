-------------------------- MODULE MCCopilotClient --------------------------
(* Bodies, statuses and error bodies for TLC. *)
EXTENDS CopilotClient

U(kind, n) == [k |-> kind, n |-> n]
NL == U("nl", 0)
Line(n) == <<U("data", n), U("hi", n), U("lo", n), NL>>

\* Two chunks, two lines in one frame, a comment, the marker, and what must
\* not be read after it.
Complete ==
    <<U("comment", 0), NL>> \o Line(1) \o <<NL>> \o Line(2) \o Line(3)
    \o <<NL, U("done", 0), NL, NL>> \o Line(4) \o <<NL>>
\* The body ends inside of a frame.
Unfinished == Line(1) \o <<NL>> \o Line(2)
\* Data that is no JSON, and blank lines more than needed.
Broken == Line(1) \o <<NL, NL, NL, U("bad", 0), NL, NL>> \o Line(2) \o <<NL>>

MCBodies == {<<>>, Complete, Unfinished, Broken}
MCStatuses == {304, 400, 401, 429, 500}
MCErrorBodies == {b \in BodyShapes : b.fits => b.phrase}
=============================================================================
