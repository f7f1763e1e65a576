------------------------------- MODULE Inbound -------------------------------
(***************************************************************************)
(* The way in: from the texts of one WebSocket to the listeners of the     *)
(* application.  The read loop (connector.rs) makes messages of the texts, *)
(* one after the other; the client processes each in a task of its own     *)
(* (client.rs, process_message) and hands it to its channel's message      *)
(* listeners; the Feed's listener parses the payload of FEED_DATA again    *)
(* and makes events of it (FeedDecode).                                    *)
(*                                                                         *)
(* What a message does to the client's own state is in Client, what        *)
(* becomes of the connection in Connector.  The channels that are          *)
(* registered, and those with a listener, are given: Client has            *)
(* open_channel, Channel the listeners that come and go.                   *)
(***************************************************************************)
EXTENDS Messages, FeedDecode

CONSTANTS Channels,   \* channel ids the server may name, besides 0
          Cases       \* bound: the texts the server sends, with the Inputs of their
                      \* FEED_DATA, and the channels that are there

\* There is one array of data to a case, so one FEED_DATA at most.
ASSUME InboundAssumption ==
    /\ Channels \subseteq Nat \ {0}
    /\ \A c \in Cases :
          /\ c.texts \in Seq({c.texts[n] : n \in DOMAIN c.texts})
          /\ c.input \in Inputs /\ c.listening \subseteq c.known /\ c.known \subseteq Channels
          /\ \A m, n \in DOMAIN c.texts :
                c.texts[m].type = "FEED_DATA" /\ c.texts[n].type = "FEED_DATA" => m = n

VARIABLES texts,      \* what the server sends
          read,       \* how many of them the loop has read
          loop,       \* the loop: reading, parsing the data of FEED_DATA, or over
          known,      \* ids in the channels map
          listening,  \* those of them that have a message listener
          tasks,      \* the spawned tasks: the number of a message, and a phase
          opened,     \* channels that were told they are open
          setups,     \* SETUP replies processed
          heard,      \* what each channel's listener was called with
          reported    \* the messages whose error process_message has published

inboundVars == <<texts, read, loop, known, listening, tasks, opened, setups, heard, reported>>
scriptVars == <<texts, known, listening>>
vars == <<inboundVars, decodeVars>>

Phases == {"High", "Route", "Publish"}

Message(n) == HandleText(texts[n])

Spawn(new) == tasks' = tasks \cup new

\* The task that is done, and those it leaves.
Run(n, phase, new) ==
    /\ <<n, phase>> \in tasks
    /\ tasks' = (tasks \ {<<n, phase>>}) \cup new

-----------------------------------------------------------------------------
(* handle_connection and handle_message *)

\* The data of a FEED_DATA is deserialized with it: the loop waits.
BringsData(t) == t.type = "FEED_DATA" /\ Handles(t)

\* Mutant: a text that makes no sense is skipped.
ReadTextOnward ==
    /\ loop = "Read" /\ read < Len(texts)
    /\ read' = read + 1
    /\ LET t == texts[read'] IN
       \/ t.form # "binary" /\ Handles(t) /\ ~BringsData(t)
             /\ Spawn({<<read', "High">>}) /\ UNCHANGED <<loop, stage>>
       \/ BringsData(t) /\ loop' = "Parse" /\ stage' = "Deserialize" /\ UNCHANGED tasks
       \/ ~Handles(t) /\ UNCHANGED <<loop, stage, tasks>>
    /\ UNCHANGED <<scriptVars, opened, setups, heard, reported>>
    /\ UNCHANGED <<fields, data, pos, pairs, parsed, entry, row, out>>

\* A frame that is no text is ignored; a text that is no message ends the loop;
\* a message is processed in a task of its own.
ReadText ==
    /\ loop = "Read" /\ read < Len(texts)
    /\ read' = read + 1
    /\ LET t == texts[read'] IN
       \/ t.form = "binary" /\ UNCHANGED <<loop, stage, tasks>>
       \/ t.form # "binary" /\ ~Handles(t) /\ loop' = "Over" /\ UNCHANGED <<stage, tasks>>
       \/ Handles(t) /\ ~BringsData(t)
             /\ Spawn({<<read', "High">>}) /\ UNCHANGED <<loop, stage>>
       \/ BringsData(t) /\ loop' = "Parse" /\ stage' = "Deserialize" /\ UNCHANGED tasks
    /\ UNCHANGED <<scriptVars, opened, setups, heard, reported>>
    /\ UNCHANGED <<fields, data, pos, pairs, parsed, entry, row, out>>

\* The first deserialization, in the loop.
ParseData == loop = "Parse" /\ Parse /\ UNCHANGED inboundVars

\* Data that is no FeedData makes the whole message fail, and the loop ends.
DataParsed ==
    /\ loop = "Parse"
    /\ \/ stage = "Failed" /\ loop' = "Over" /\ UNCHANGED tasks
       \/ stage = "Parsed" /\ loop' = "Read" /\ Spawn({<<read, "High">>})
    /\ UNCHANGED <<scriptVars, read, opened, setups, heard, reported, decodeVars>>

-----------------------------------------------------------------------------
(* process_message *)

IsAuthState(n) == texts[n].type = "AUTH_STATE"

\* process_auth_state_response answers an unknown state with an error, which it
\* also publishes.
BadState(n) == texts[n].word = "OTHER"

\* Mutant: the error of the first pass does not keep the second from following.
HighBoth(n) ==
    /\ Run(n, "High", {<<n, "Route">>} \cup
           (IF IsAuthState(n) /\ texts[n].channel = 0 /\ BadState(n)
            THEN {<<n, "Publish">>} ELSE {}))
    /\ UNCHANGED <<scriptVars, read, loop, opened, setups, heard, reported, decodeVars>>

\* An AUTH_STATE of the connection is processed ahead of all else, and then
\* like any message, unless that failed.
High(n) ==
    /\ IF IsAuthState(n) /\ texts[n].channel = 0 /\ BadState(n)
       THEN Run(n, "High", {<<n, "Publish">>})
       ELSE Run(n, "High", {<<n, "Route">>})
    /\ UNCHANGED <<scriptVars, read, loop, opened, setups, heard, reported, decodeVars>>

\* The Feed's listener parses within the call, under the lock of the map.
MapLocked == Len(parsed) = 1 /\ stage \in {"Deserialize", "Pairs"}

\* The channel's listener is called with the payload.
Hear(n) ==
    LET c == texts[n].channel IN
    /\ heard' = IF c \in listening THEN [heard EXCEPT ![c] = Append(@, n)] ELSE heard
    /\ IF c \in listening /\ texts[n].type = "FEED_DATA" THEN HandOn ELSE UNCHANGED decodeVars

\* Mutant: the map is not asked for the channel of a CHANNEL_OPENED.
RouteUnchecked(n) ==
    /\ texts[n].channel \in known \/ texts[n].type = "CHANNEL_OPENED"
    /\ ~MapLocked
    /\ Run(n, "Route", {})
    /\ IF texts[n].type = "ERROR" THEN UNCHANGED <<heard, decodeVars>> ELSE Hear(n)
    /\ opened' = IF texts[n].type = "CHANNEL_OPENED" THEN opened \cup {texts[n].channel}
                                                     ELSE opened
    /\ UNCHANGED <<scriptVars, read, loop, setups, reported>>

\* A message for a channel in the map.  The downcast of an ERROR to ErrorMessage
\* fails, as it is wrapped in a MessageType: nobody hears of it.
RouteToChannel(n) ==
    /\ texts[n].channel \in known
    /\ ~MapLocked
    /\ Run(n, "Route", {})
    /\ IF texts[n].type = "ERROR" THEN UNCHANGED <<heard, decodeVars>> ELSE Hear(n)
    /\ opened' = IF texts[n].type = "CHANNEL_OPENED" THEN opened \cup {texts[n].channel}
                                                     ELSE opened
    /\ UNCHANGED <<scriptVars, read, loop, setups, reported>>

\* Any other message is one of the connection, whatever its channel; again
\* nobody hears of an ERROR.
RouteToConnection(n) ==
    /\ texts[n].channel \notin known
    /\ texts[n].channel = 0 \/ ~MapLocked
    /\ Run(n, "Route", IF IsAuthState(n) /\ BadState(n) THEN {<<n, "Publish">>} ELSE {})
    /\ setups' = IF texts[n].type = "SETUP" THEN setups + 1 ELSE setups
    /\ UNCHANGED <<scriptVars, read, loop, opened, heard, reported, decodeVars>>

\* publish_error's task calls the error listeners.  (process_transport_close and
\* the authorization timer publish errors of their own, which are not of a
\* message and are left out.)
Publish(n) ==
    /\ Run(n, "Publish", {})
    /\ reported' = Append(reported, n)
    /\ UNCHANGED <<scriptVars, read, loop, opened, setups, heard, decodeVars>>

-----------------------------------------------------------------------------
(* The Feed. *)

\* The second deserialization, in the call of the listener.
ParseAgain == loop # "Parse" /\ Parse /\ UNCHANGED inboundVars

\* The task the listener spawns.
ConvertData == Convert /\ UNCHANGED inboundVars

-----------------------------------------------------------------------------
Init ==
    /\ \E c \in Cases :
          /\ texts = c.texts /\ known = c.known /\ listening = c.listening
          /\ data = c.input.data /\ fields = c.input.fields
    /\ read = 0 /\ loop = "Read" /\ tasks = {}
    /\ opened = {} /\ setups = 0
    /\ heard = [c \in Channels |-> <<>>] /\ reported = <<>>
    /\ stage = "Idle" /\ pos = 1 /\ pairs = <<>> /\ parsed = <<>>
    /\ entry = 1 /\ row = 1 /\ out = <<>>

ReadLoop == ReadText \/ ParseData \/ DataParsed

Task(n) == High(n) \/ RouteToChannel(n) \/ RouteToConnection(n) \/ Publish(n)

Feed == ParseAgain \/ ConvertData

Next == ReadLoop \/ (\E n \in DOMAIN texts : Task(n)) \/ Feed

Spec == Init /\ [][Next]_vars

\* The runtime polls the loop and every task; the server owes nothing, and the
\* texts of a case are those it has sent.
FairSpec ==
    /\ Spec
    /\ WF_vars(ReadLoop) /\ WF_vars(Feed)
    /\ WF_vars(\E n \in DOMAIN texts : Task(n))

-----------------------------------------------------------------------------
Once(s) == \A k, l \in DOMAIN s : s[k] = s[l] => k = l
Members(s) == {s[k] : k \in DOMAIN s}

TypeOK ==
    /\ read \in 0 .. Len(texts) /\ loop \in {"Read", "Parse", "Over"}
    /\ tasks \subseteq (1 .. read) \X Phases
    /\ opened \subseteq known /\ setups \in 0 .. read
    /\ heard \in [Channels -> Seq(1 .. read)] /\ reported \in Seq(1 .. read)
    /\ stage \in Stages /\ pos \in 1 .. Len(data) + 2 /\ Len(parsed) <= 2
    /\ loop = "Parse" => parsed = <<>> \/ stage = "Parsed"

\* Text n ends the loop: it is no message, or its data is no FeedData.
Ends(n) ==
    \/ texts[n].form # "binary" /\ ~Handles(texts[n])
    \/ BringsData(texts[n]) /\ stage = "Failed"

\* The tasks of message n are done.
Processed(n) ==
    /\ n <= read /\ Handles(texts[n]) /\ \A m \in 1 .. n : ~Ends(m)
    /\ \A p \in Phases : <<n, p>> \notin tasks
    /\ loop = "Parse" => n < read

\* A channel's listener hears every message for it up to the first text that is
\* no message, each once and nothing else, though the tasks overtake each other.
HeardExactly ==
    \A c \in Channels :
        /\ Once(heard[c])
        /\ Members(heard[c]) =
               {n \in DOMAIN texts : /\ Processed(n) /\ texts[n].channel = c
                                     /\ c \in listening /\ texts[n].type # "ERROR"}

\* An AUTH_STATE whose state is unknown, and that is not a channel's, is published
\* to the error listeners, and no other AUTH_STATE is; once, though
\* process_message goes over it twice and a connection's may overtake others.
BadStatesOnce ==
    /\ Once(reported)
    /\ {n \in Members(reported) : IsAuthState(n)} =
           {n \in DOMAIN texts : /\ Processed(n) /\ texts[n].channel \notin known
                                 /\ IsAuthState(n) /\ BadState(n)}

\* Everything the server has sent is dealt with: no text keeps the loop, a task
\* or the Feed busy for ever.
AllHandled ==
    <>(/\ loop = "Over" \/ (loop = "Read" /\ read = Len(texts))
       /\ tasks = {}
       /\ stage \in {"Idle", "Done", "Failed", "Panicked"}
             \/ (stage = "Parsed" /\ Len(parsed) = 1))
=============================================================================
