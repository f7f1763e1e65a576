------------------------------ MODULE Messages ------------------------------
(***************************************************************************)
(* The messages the server may send and how a text becomes one of them     *)
(* (src/src/websocket_client/messages.rs, feed/messages.rs,                *)
(* dom/messages.rs, and the parsers in websocket_client/connector.rs).     *)
(*                                                                         *)
(* A text is a record: what it is to JSON, its type and channel ("none"    *)
(* and NoChannel where they are missing or no string or u64), the fields   *)
(* it has, each "good" (of the kind the struct wants), "null" or "wrong",  *)
(* and the word it says, which only matters for AUTH_STATE.                *)
(***************************************************************************)
EXTENDS Integers, FiniteSets

NoChannel == -1

\* Not JSON; JSON, but no object; an object; and a frame that is no text.
Forms == {"garbage", "value", "object", "binary"}

Text(form, type, channel, fields, word) ==
    [form |-> form, type |-> type, channel |-> channel, fields |-> fields, word |-> word]

-----------------------------------------------------------------------------
(* The structs: the fields each needs besides type and channel, and those it *)
(* holds as Options.                                                         *)

Struct(required, optional) == [required |-> required, optional |-> optional]

SetupMessage         == Struct({"version"}, {"keepaliveTimeout", "acceptKeepaliveTimeout"})
AuthStateMessage     == Struct({"state"}, {})
KeepaliveMessage     == Struct({}, {})
ChannelOpenedMessage == Struct({"service"}, {"parameters"})
ChannelClosedMessage == Struct({}, {})
ErrorMessage         == Struct({"error", "message"}, {})
FeedConfigMessage    == Struct({"aggregationPeriod", "dataFormat"}, {"eventFields"})
FeedDataMessage      == Struct({"data"}, {})
DomConfigMessage     == Struct({"aggregationPeriod", "depthLimit", "dataFormat", "orderFields"}, {})
DomSnapshotMessage   == Struct({"time", "bids", "asks"}, {"sequence"})

\* What the struct of a type reads from a text: type and channel must be there,
\* each required field too, and a null is taken for a missing Option.
Deserializes(s, t) ==
    /\ t.form = "object" /\ t.type # "none" /\ t.channel # NoChannel
    /\ \A f \in s.required : f \in DOMAIN t.fields /\ t.fields[f] = "good"
    /\ \A f \in s.optional \cap DOMAIN t.fields : t.fields[f] # "wrong"

Deserialize(s, t) ==
    [type |-> t.type, channel |-> t.channel, word |-> t.word,
     holds |-> {f \in (s.required \cup s.optional) \cap DOMAIN t.fields :
                   t.fields[f] = "good"}]

\* to_value of what MessageType wraps: every Option leaves None out.
Payload(m) == Text("object", m.type, m.channel, [f \in m.holds |-> "good"], m.word)

-----------------------------------------------------------------------------
(* The two parsers, each with a table of its own from types to structs. *)

Handled ==
    [SETUP |-> SetupMessage, AUTH_STATE |-> AuthStateMessage, KEEPALIVE |-> KeepaliveMessage,
     CHANNEL_OPENED |-> ChannelOpenedMessage, CHANNEL_CLOSED |-> ChannelClosedMessage,
     ERROR |-> ErrorMessage,
     FEED_CONFIG |-> FeedConfigMessage, FEED_DATA |-> FeedDataMessage,
     DOM_CONFIG |-> DomConfigMessage, DOM_SNAPSHOT |-> DomSnapshotMessage]

\* handle_message asks for an object, a type and a channel, then for a type it
\* knows, then for the fields of its struct.
Handles(t) ==
    /\ t.form = "object" /\ t.type # "none" /\ t.channel # NoChannel
    /\ t.type \in DOMAIN Handled
    /\ Deserializes(Handled[t.type], t)

HandleText(t) == Deserialize(Handled[t.type], t)

Parsed ==
    [SETUP |-> SetupMessage, AUTH_STATE |-> AuthStateMessage, KEEPALIVE |-> KeepaliveMessage,
     CHANNEL_OPENED |-> ChannelOpenedMessage, CHANNEL_CLOSED |-> ChannelClosedMessage,
     ERROR |-> ErrorMessage,
     FEED_CONFIG |-> FeedConfigMessage, FEED_DATA |-> FeedDataMessage,
     DOM_CONFIG |-> DomConfigMessage, DOM_SNAPSHOT |-> DomSnapshotMessage]

\* parse_message, which the client does not call, leaves all else to the struct.
Parses(t) ==
    /\ t.form \in {"value", "object"} /\ t.type \in DOMAIN Parsed
    /\ Deserializes(Parsed[t.type], t)

ParseMessage(t) == Deserialize(Parsed[t.type], t)

-----------------------------------------------------------------------------
(* What holds of any text. *)

\* The two parsers take the same texts, though they check them in another order
\* and from two copies of one table (connector.rs:173 and 303).
ParsersAgree(t) ==
    /\ Parses(t) <=> Handles(t)
    /\ Parses(t) => ParseMessage(t) = HandleText(t)

\* A service that parses the payload of a message once more reads the message.
PayloadReadsBack(t) ==
    Handles(t) => /\ Handles(Payload(HandleText(t)))
                  /\ HandleText(Payload(HandleText(t))) = HandleText(t)
=============================================================================
