--------------------------- MODULE MCConversation ---------------------------
(* Tools, questions and answers for TLC. *)
EXTENDS Conversation, WrittenAnswer

MCCut == [n \in LongNames |-> n \o "_hash"]
MCSchemas == [read |-> [path |-> "string", limit |-> "integer", all |-> "boolean"],
              mcp__long |-> [ratio |-> "number", tags |-> "array"]]

MCDates == {<<"20251101">>}
MCMarkers == {<<"1m">>, <<"4">>, <<"5">>, <<"6">>}
Named(family, version) == <<Claude, <<family>>>> \o version
MCListed == {Named("opus", <<<<"4", "5">>>>), Named("opus", <<<<"4", "6">>, <<"1m">>>>)}
MCModels == {Named("opus", <<<<"4">>, <<"5">>, <<"20251101">>>>),
             Named("opus", <<<<"4">>, <<"6">>, <<"1m">>, <<"20251101">>>>),
             Named("opus", <<<<"4", "6">>, <<"1m">>>>)}
ASSUME MCModelsKnown == ModelsKnown

MCOffers == {<<>>, <<"read">>, <<"mcp__long", "read">>}
MCQuestions == {<<"text">>, <<"text", "image">>, <<"document">>}

P(name, value) == [name |-> name, value |-> value]
C(tool, params) == [tool |-> tool, params |-> params]
Part(before, calls) == [before |-> before, calls |-> calls]
W(tagged, wrapped, parts, after) ==
    [tagged |-> tagged, wrapped |-> wrapped, parts |-> parts, after |-> after]
Prose == <<Run("prose")>>

\* Values of the declared types, of others, and with markup inside.
Typed == <<P("path", <<Run("word")>>), P("limit", <<Run("12")>>),
           P("all", <<Run("True")>>)>>
Untyped == <<P("limit", <<Run("1.5")>>), P("all", <<Run("word")>>),
             P("more", <<Run("12")>>)>>
Markup == <<P("path", <<Run("a"), Opening("b"), Run("c"), Opening("invoke")>>),
            P("limit", <<>>)>>
Numbers == <<P("ratio", <<Run("inf")>>), P("tags", <<Run("[]")>>)>>

MCWritten ==
    {W(FALSE, TRUE, <<>>, Prose),
     W(FALSE, TRUE, <<Part(Prose, <<C("read", Typed), C("read", Untyped)>>)>>, Prose),
     W(FALSE, FALSE, <<Part(<<>>, <<C("read", Markup)>>)>>, Prose),
     W(TRUE, TRUE, <<Part(<<>>, <<C("read", Untyped)>>),
                     Part(<<>>, <<C("mcp__long", Numbers)>>)>>, <<>>),
     W(FALSE, FALSE, <<>>, Prose \o <<Opening("function_calls")>> \o Prose)}
MCTexts == {Answer(w) : w \in MCWritten}
ASSUME MCTextsWellWritten == \A w \in MCWritten : WellWritten(w)
=============================================================================
