---------------------------- MODULE WrittenAnswer ----------------------------
(***************************************************************************)
(* Answers in which calls are written as text: as the instructions say, or *)
(* in the other form that the parser knows.  What is written is a record:  *)
(* parts, each of some prose and the calls behind it, and the prose after  *)
(* the last of them.  WellWritten says which answers the parser is meant   *)
(* to understand.                                                          *)
(***************************************************************************)
EXTENDS ToolText

\* The tags and the empty name are strings like any other; they are listed
\* because the provers do not know of a literal that it is in STRING.
Names == STRING \cup {"function_calls", "invoke", "tool_name", "parameters",
                      "parameter", NoName}
Token == {x \in [t : {"open", "attr", "unnamed", "close", "text"},
                  v : Names, name : Names] : x.t = "attr" <=> x.name # NoName}

\* Something between an opening and a closing tag.
Framed(opening, body, closing) == <<opening>> \o body \o <<closing>>
Each(Op(_), s) == [i \in 1 .. Len(s) |-> Op(s[i])]
-----------------------------------------------------------------------------
(***************************************************************************)
(* Writing.  A call has a tool and parameters, which have names and values.*)
(***************************************************************************)
Parameter(p) == Framed(Attr("parameter", p.name), p.value, Close("parameter"))
Invoke(call) ==
    Framed(Attr("invoke", call.tool), FlattenSeq(Each(Parameter, call.params)),
           Close("invoke"))

Field(p) == Framed(Opening(p.name), p.value, Close(p.name))
Tagged(call) ==
    Framed(Opening("invoke"),
           Framed(Opening("tool_name"), <<Run(call.tool)>>, Close("tool_name"))
           \o Framed(Opening("parameters"), FlattenSeq(Each(Field, call.params)),
                     Close("parameters")),
           Close("invoke"))

\* The calls of one part, in an element of their own if they are wrapped.
WriteCalls(w, calls) ==
    LET written == IF w.tagged THEN FlattenSeq(Each(Tagged, calls))
                   ELSE FlattenSeq(Each(Invoke, calls))
    IN  IF w.wrapped
        THEN Framed(Opening("function_calls"), written, Close("function_calls"))
        ELSE written

WritePart(w, part) == part.before \o WriteCalls(w, part.calls)
Written(w) ==
    FlattenSeq([i \in 1 .. Len(w.parts) |-> WritePart(w, w.parts[i])]) \o w.after
-----------------------------------------------------------------------------
(***************************************************************************)
(* What is meant.                                                          *)
(***************************************************************************)
ParamNames(call) == {call.params[i].name : i \in 1 .. Len(call.params)}
ValueOf(call, name) ==
    call.params[CHOOSE i \in 1 .. Len(call.params) :
                   call.params[i].name = name].value
Meant(call) ==
    [tool |-> call.tool,
     params |-> [n \in ParamNames(call) |-> ValueOf(call, n)]]

CallsOf(w) == FlattenSeq([i \in 1 .. Len(w.parts) |-> w.parts[i].calls])
ProseOf(w) ==
    FlattenSeq([i \in 1 .. Len(w.parts) |-> w.parts[i].before]) \o w.after
Answer(w) ==
    [tokens |-> Written(w), calls |-> Each(Meant, CallsOf(w)), prose |-> ProseOf(w)]
-----------------------------------------------------------------------------
(***************************************************************************)
(* What can be understood.                                                 *)
(***************************************************************************)
\* No token of s is in T.
Lacks(s, T) == \A i \in 1 .. Len(s) : s[i] \notin T

DistinctNames(call) ==
    \A i, j \in 1 .. Len(call.params) :
        call.params[i].name = call.params[j].name => i = j
CallShape ==
    [tool : STRING \ {NoName}, params : Seq([name : STRING \ {NoName}, value : Seq(Token)])]

\* A value may have markup in it, but none that ends a call or a parameter or
\* looks like the other form.
WellInvoked(call) ==
    \A i \in 1 .. Len(call.params) :
        Lacks(call.params[i].value,
              {Close("parameter"), Close("invoke"), Close("function_calls"),
               Opening("tool_name")})

\* In the form of tags a value has no markup, and the name of a parameter is
\* none of the tags.
WellTagged(call) ==
    \A i \in 1 .. Len(call.params) :
        /\ call.params[i].name \notin
              {"invoke", "function_calls", "tool_name", "parameters"}
        /\ \A j \in 1 .. Len(call.params[i].value) :
              call.params[i].value[j].t = "text"

\* In the prose there is nothing that begins or, around bare calls, ends what
\* is looked for.
WellProse(w, s) ==
    /\ s \in Seq(Token)
    /\ \A i \in 1 .. Len(s) : ~(s[i].v = "invoke" /\ s[i].t # "close")
    /\ Lacks(s, IF w.wrapped THEN {Opening("function_calls")}
                ELSE {Close("function_calls"), Opening("tool_name")})

WellWritten(w) ==
    /\ w.tagged \in BOOLEAN /\ w.wrapped \in BOOLEAN
    /\ w.parts \in Seq([before : Seq(Token), calls : Seq(CallShape)])
    /\ WellProse(w, w.after)
    /\ \A i \in 1 .. Len(w.parts) :
          LET calls == w.parts[i].calls
          IN  /\ WellProse(w, w.parts[i].before)
              /\ IF w.wrapped THEN calls # <<>> ELSE Len(calls) = 1
              /\ \A j \in 1 .. Len(calls) :
                    /\ DistinctNames(calls[j])
                    /\ IF w.tagged THEN WellTagged(calls[j])
                       ELSE WellInvoked(calls[j])
=============================================================================
