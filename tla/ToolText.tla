------------------------------ MODULE ToolText ------------------------------
(***************************************************************************)
(* Tool calls as text: the form in which the model is told to write them   *)
(* (TOOL_USAGE_INSTRUCTIONS), the parser that finds them again in its      *)
(* answer, and the types that their parameters get.                        *)
(*                                                                         *)
(* A text is a sequence of tokens: an opening tag, an opening tag with a   *)
(* name attribute, which may be empty, a closing tag, or a run of          *)
(* characters.  Blanks around values, which the parser trims, are left out.*)
(***************************************************************************)
EXTENDS Naturals, Sequences, SequencesExt

NoName == ""
Opening(tag) == [t |-> "open", v |-> tag, name |-> NoName]
Attr(tag, name) ==
    [t |-> IF name = NoName THEN "unnamed" ELSE "attr", v |-> tag, name |-> name]
Close(tag) == [t |-> "close", v |-> tag, name |-> NoName]
Run(chars) == [t |-> "text", v |-> chars, name |-> NoName]
-----------------------------------------------------------------------------
(***************************************************************************)
(* Regular expressions.                                                    *)
(***************************************************************************)
IsOpening(token, kinds, tag) == token.t \in kinds /\ token.v = tag

\* The next match at or after i, which leaves at least min tokens inside.
Begins(s, kinds, tag, min, i) ==
    {j \in i .. Len(s) : /\ IsOpening(s[j], kinds, tag)
                         /\ \E k \in j + min + 1 .. Len(s) : s[k] = Close(tag)}
Least(S) == CHOOSE j \in S : \A k \in S : j <= k

\* captures_iter of a lazy pattern <tag>(.*?)</tag>: the pairs of places of
\* its matches.
Matches(s, kinds, tag, min) ==
    LET begins(i) == Begins(s, kinds, tag, min, i)
        b(i) == Least(begins(i))
        e(i) == Least({k \in b(i) + min + 1 .. Len(s) : s[k] = Close(tag)})
        from[i \in 1 .. Len(s) + 1] ==
            IF begins(i) = {} THEN <<>>
            ELSE <<[b |-> b(i), e |-> e(i)]>> \o from[e(i) + 1]
    IN  from[1]

Inside(s, m) == SubSeq(s, m.b + 1, m.e - 1)
Insides(s, matches) ==
    [i \in 1 .. Len(matches) |-> Inside(s, matches[i])]

\* extract_between_tags wants something between the tags.
ExtractBetweenTags(tag, s) == Insides(s, Matches(s, {"open"}, tag, 1))

\* replace_all of the matches by nothing: what is before, between and after.
Without(s, matches) ==
    LET from(k) == IF k = 1 THEN 1 ELSE matches[k - 1].e + 1
        to(k) == IF k = Len(matches) + 1 THEN Len(s) ELSE matches[k].b - 1
    IN  FlattenSeq([k \in 1 .. Len(matches) + 1 |-> SubSeq(s, from(k), to(k))])
-----------------------------------------------------------------------------
(***************************************************************************)
(* Types.                                                                  *)
(***************************************************************************)
\* Runs of characters that can be read as something else than a string.
Reads(type) ==
    CASE type = "number"  -> {"12", "1.5", "inf"}
      [] type = "integer" -> {"12"}
      [] type = "boolean" -> {"True"}
      [] type = "null"    -> {"null"}
      [] type = "object"  -> {"{}"}
      [] type = "array"   -> {"[]"}
      [] OTHER            -> {}

\* ToolRegistry: the type of a parameter in the schema of the tool, "none" if
\* tool or parameter are unknown.
GetParamType(registry, tool, param) ==
    IF tool \in DOMAIN registry /\ param \in DOMAIN registry[tool]
    THEN registry[tool][param] ELSE "none"

\* parse_value_with_type: a value that is not of its type stays a string.  A
\* number that is not finite has no JSON, and becomes null.
ParseValueWithType(value, type) ==
    IF Len(value) # 1 \/ value[1].t # "text" \/ value[1].v \notin Reads(type)
    THEN [as |-> "string", of |-> value]
    ELSE IF value[1].v = "inf" THEN [as |-> "null", of |-> <<>>]
    ELSE [as |-> type, of |-> value]
-----------------------------------------------------------------------------
(***************************************************************************)
(* Calls.  The parameters of a call are a function; a parameter that is    *)
(* written twice has its last value.                                       *)
(***************************************************************************)
ByName(names, values, tool, registry) ==
    LET last(n) == CHOOSE i \in DOMAIN names :
                      /\ names[i] = n
                      /\ \A j \in DOMAIN names : names[j] = n => j <= i
    IN  [n \in {names[i] : i \in DOMAIN names} |->
            ParseValueWithType(values[last(n)], GetParamType(registry, tool, n))]

\* parse_xml_params: every opening tag that is closed later is a parameter,
\* one inside of a value, too.
ParseXmlParams(s, tool, registry) ==
    LET ends(i) == {k \in i + 1 .. Len(s) : s[k] = Close(s[i].v)}
        opens == {i \in 1 .. Len(s) : s[i].t = "open" /\ ends(i) # {}}
    IN  ByName([i \in opens |-> s[i].v],
               [i \in opens |-> SubSeq(s, i + 1, Least(ends(i)) - 1)],
               tool, registry)

\* parse_attribute_params: a parameter without a name is none.
ParseAttributeParams(s, tool, registry) ==
    LET found == Matches(s, {"attr"}, "parameter", 0)
    IN  ByName([i \in 1 .. Len(found) |-> s[found[i].b].name],
               Insides(s, found), tool, registry)

ToolCall(tool, params) == [tool |-> tool, params |-> params]

\* try_parse_tag_invoke: a call, or none if it has no name.
TryParseTagInvoke(s, registry) ==
    LET names == ExtractBetweenTags("tool_name", s)
        params == ExtractBetweenTags("parameters", s)
        tool == names[1][1].v
    IN  IF names = <<>> \/ Head(names)[1].t # "text" THEN <<>>
        ELSE <<ToolCall(tool, IF params = <<>> THEN <<>>
                              ELSE ParseXmlParams(params[1], tool, registry))>>

\* try_parse_attr_invoke.
TryParseAttrInvoke(name, s, registry) ==
    IF name = NoName THEN <<>>
    ELSE <<ToolCall(name, ParseAttributeParams(s, name, registry))>>

\* parse_invokes: first the calls of the one form, then those of the other.
ParseInvokes(s, registry) ==
    LET tagged == ExtractBetweenTags("invoke", s)
        named == Matches(s, {"attr", "unnamed"}, "invoke", 0)
    IN  FlattenSeq([i \in 1 .. Len(tagged) |->
                        TryParseTagInvoke(tagged[i], registry)])
        \o FlattenSeq([i \in 1 .. Len(named) |->
                        TryParseAttrInvoke(s[named[i].b].name,
                                           Inside(s, named[i]), registry)])

\* Slip: only what is wrapped is looked at.
ParseWrapped(s, registry) ==
    LET wrapped == ExtractBetweenTags("function_calls", s)
    IN  FlattenSeq([i \in 1 .. Len(wrapped) |->
                        ParseInvokes(wrapped[i], registry)])

\* parse_tool_calls: the calls in <function_calls> elements, or if there are
\* none those anywhere.
ParseToolCalls(s, registry) ==
    LET wrapped == ExtractBetweenTags("function_calls", s)
        calls == FlattenSeq([i \in 1 .. Len(wrapped) |->
                                ParseInvokes(wrapped[i], registry)])
    IN  IF calls # <<>> THEN calls ELSE ParseInvokes(s, registry)

\* strip_tool_calls: first the elements, then what is left of calls.
StripToolCalls(s) ==
    LET rest == Without(s, Matches(s, {"open"}, "function_calls", 0))
    IN  Without(rest, Matches(rest, {"open", "attr", "unnamed"}, "invoke", 0))
=============================================================================
