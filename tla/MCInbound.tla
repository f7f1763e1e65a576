----------------------------- MODULE MCInbound ------------------------------
(***************************************************************************)
(* Inbound on bounded inputs, and the parsers on all texts of a small      *)
(* size.  A case looks at one thing: the arrays in COMPACT format, those   *)
(* in FULL format, or the texts and their tasks.                           *)
(***************************************************************************)
EXTENDS Inbound, TLC, SequencesExt

MCChannels == {1, 2}

-----------------------------------------------------------------------------
(* Texts *)

Good(names) == [f \in names |-> "good"]

Msg(type, c) == Text("object", type, c, Good(Handled[type].required), "")

AuthState(word, c) == Text("object", "AUTH_STATE", c, Good({"state"}), word)

FeedDataText == Msg("FEED_DATA", 1)

Garbage == Text("garbage", "none", NoChannel, Good({}), "")
Binary == Text("binary", "none", NoChannel, Good({}), "")

\* Two texts or three, with and without a FEED_DATA between them.
Texts ==
    {Garbage, Binary, Text("value", "none", NoChannel, Good({}), ""),
     Text("object", "none", 1, Good({}), ""), Text("object", "KEEPALIVE", NoChannel, Good({}), ""),
     Text("object", "TRADE", 0, Good({}), ""), Text("object", "SETUP", 0, Good({}), ""),
     Text("object", "ERROR", 1, [error |-> "wrong", message |-> "good"], "")}
    \cup {Msg(type, c) : type \in {"SETUP", "KEEPALIVE", "ERROR", "CHANNEL_OPENED"}, c \in {0, 1}}
    \cup {Msg("CHANNEL_CLOSED", 2), Msg("FEED_CONFIG", 1), Msg("DOM_SNAPSHOT", 2)}
    \cup {AuthState(word, c) : word \in {"AUTHORIZED", "OTHER"}, c \in {0, 1}}

FewTexts ==
    {Garbage, Binary, FeedDataText, Msg("CHANNEL_OPENED", 1), Msg("ERROR", 1),
     Msg("SETUP", 0), Msg("FEED_CONFIG", 1), AuthState("OTHER", 0), AuthState("OTHER", 2)}

Scripts ==
    {s \in BoundedSeq(Texts, 2) \cup BoundedSeq(FewTexts, 3) :
        Cardinality({n \in DOMAIN s : s[n] = FeedDataText}) <= 1}

-----------------------------------------------------------------------------
(* Data *)

Str(type) == Item("string", type, <<>>, NoFields)
Arr(values) == Item("array", "none", values, NoFields)
Obj(type, object) == Item("object", type, <<>>, object)

\* Arrays of all shapes, read with one layout ...
Items ==
    {Str("Quote"), Str("Unheard"), Item("other", "none", <<>>, NoFields),
     Obj("Quote", [eventSymbol |-> "text"]), Arr(<<>>), Arr(<<"text", "number">>)}

ShapeInputs ==
    {[data |-> d, fields |-> [Quote |-> <<"eventSymbol", "bidPrice">>]] :
        d \in BoundedSeq(Items, 2)
              \cup {<<Str("Quote"), Arr(<<"text", "number">>)>> \o tail :
                      tail \in BoundedSeq(Items, 4)}}

\* ... and arrays of two pairs, read with all layouts.
SomeValues ==
    {<<>>, <<"text">>, <<"text", "NaN", "numeric">>,
     <<"text", "number", "natural", "text", "array">>,
     <<"text", "natural", "text", "text", "null", "empty">>}

QuoteLayouts ==
    {<<"eventSymbol", "bidPrice">>, <<"eventType", "eventSymbol", "askPrice">>,
     <<"eventSymbol", "bidTime", "eventSymbol">>, <<"eventSymbol">>, <<>>}

RowInputs ==
    {[data |-> <<Str("Quote"), Arr(v), Str(type), Arr(w)>>,
      fields |-> [Quote |-> l, Message |-> <<"message", "eventSymbol">>]] :
        v \in SomeValues, w \in SomeValues, type \in {"Quote", "Message"}, l \in QuoteLayouts}

SimpleInput ==
    [data |-> <<Str("Quote"), Arr(<<"text", "number">>)>>,
     fields |-> [Quote |-> <<"eventSymbol", "bidPrice">>]]

BadInput == [SimpleInput EXCEPT !.data = <<Obj("Quote", [bidPrice |-> "text"])>>]

\* Every field of every event with every kind of value.
FullInput(type, f, v) ==
    [data |-> <<Obj(type, (f :> v) @@ [eventSymbol |-> "text", message |-> "text"])>>,
     fields |-> NoFields]

FullInputs ==
    {FullInput("none", "eventSymbol", v) : v \in ValueKinds}
    \cup UNION {{FullInput(type, f, v) : f \in Fields(FeedEvent(type)) \cup {"other"},
                                        v \in ValueKinds} : type \in EventTypes}

\* Two objects, of which one may be no event.
TwoObjects ==
    {[data |-> FullInput(t, "eventTime", v).data \o FullInput(u, "eventTime", w).data,
      fields |-> NoFields] :
        t \in {"Quote", "Message"}, u \in {"Candle", "none"}, v \in {"natural", "number"},
        w \in {"null", "text"}}

DataInputs == ShapeInputs \cup RowInputs \cup FullInputs \cup TwoObjects

MCInputs == DataInputs \cup {SimpleInput, BadInput}

\* Mixed scripts with plain data, and plain scripts with mixed data.
MCCases ==
    {[texts |-> s, input |-> in, known |-> k, listening |-> l] :
        s \in Scripts, in \in {SimpleInput, BadInput},
        k \in {{1}, {1, 2}}, l \in {{}, {1}}}
    \cup {[texts |-> <<FeedDataText>>, input |-> in, known |-> {1}, listening |-> {1}] :
            in \in DataInputs}

-----------------------------------------------------------------------------
\* Every text with a form, a type, a channel and any four fields of the structs.
AllTexts ==
    UNION {{Text(form, type, c, fs, "") :
              form \in {"garbage", "value", "object"}, c \in {NoChannel, 0, 1},
              fs \in UNION {[names -> {"good", "null", "wrong"}] :
                            names \in SUBSET (Handled[type].required
                                                  \cup Handled[type].optional)}}
           : type \in DOMAIN Handled}
    \cup {Text(form, type, c, Good({}), "") : form \in Forms, type \in {"none", "TRADE"},
                                              c \in {NoChannel, 0}}

ASSUME \A t \in AllTexts : ParsersAgree(t) /\ PayloadReadsBack(t)
=============================================================================
