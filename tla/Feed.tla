-------------------------------- MODULE Feed --------------------------------
(***************************************************************************)
(* A Feed (src/src/feed/feed.rs) from the moment `new` has its channel.    *)
(* The application's calls go through a bounded queue to one loop, which   *)
(* keeps the map of subscriptions and the accepted configuration and tells *)
(* the server of each change through the channel.  The incoming half is    *)
(* FeedData.                                                               *)
(*                                                                         *)
(* A subscription is its key (type, source, symbol); a value that has a    *)
(* key and still is no FeedSubscriptionEntry is "bad".  Values without a   *)
(* key are skipped by the code and left out, and so are values that name   *)
(* one key twice in one call.                                              *)
(***************************************************************************)
EXTENDS FeedData

CONSTANTS Keys,          \* keys of subscriptions
          Configs,       \* accepted configurations
          FirstConfig,   \* the one made of new's data_format
          NoConfig,      \* the server has none
          Capacity,      \* room in the queue of events (32 in the code)
          WireCapacity,  \* room in the channel's queue
          Budgets        \* bound: pairs of calls and messages from the server; a
                         \* behaviour has no more of either than one of the pairs

Setup == "setup"
Slots == Keys \cup {Setup}

ASSUME FeedAssumption ==
    /\ FirstConfig \in Configs /\ NoConfig \notin Configs
    /\ Setup \notin Keys
    /\ Budgets \subseteq Nat \X (0 .. MaxMessages)
    /\ Capacity \in Nat \ {0} /\ WireCapacity \in Nat \ {0}

VARIABLES calls,      \* bound: calls that may still come
          channel,    \* the state of the channel, as ChannelState has it
          ready,      \* new has returned
          accept,     \* accept_config
          subs,       \* the keys of `subscriptions`
          events,     \* what event_rx has still to give, oldest first
          pc,         \* the message that is being sent
          waiting,    \* ... it has passed send's check of the channel's state
          wire,       \* messages the channel has accepted, on their way
          receiver,   \* the receiving half of the channel's queue is alive
          server,     \* what the server holds in each slot
          lost        \* slots whose last message failed, or that the server forgot

sendVars == <<pc, waiting, wire, server, lost>>
feedVars == <<calls, channel, ready, accept, subs, events, receiver, sendVars>>
vars == <<dataVars, feedVars>>

Opened == channel = "Opened"

\* What a server holds that has just opened the channel.
Blank == [s \in Slots |-> IF s = Setup THEN NoConfig ELSE FALSE]

\* Every slot as the feed has it.
Mine == [s \in Slots |-> IF s = Setup THEN accept ELSE s \in subs]

\* The slots a message sets.
Touched(m) ==
    CASE m.kind = "setup" -> {Setup} [] m.kind = "reset" -> Keys [] OTHER -> m.keys

\* What a message sets them to.
Value(m) == IF m.kind = "setup" THEN m.config ELSE m.kind = "add"

Values == Configs \cup {NoConfig} \cup BOOLEAN

Applied(view, m) == [s \in Slots |-> IF s \in Touched(m) THEN Value(m) ELSE view[s]]

\* A server that has view holds v in slot s when the messages of q have reached it:
\* the last of them that is about s says so, or none is and it holds v already.
Leaves(view, q, s, v) ==
    \/ \E i \in DOMAIN q :
          /\ s \in Touched(q[i]) /\ v = Value(q[i])
          /\ \A j \in DOMAIN q : j > i => s \notin Touched(q[j])
    \/ v = view[s] /\ \A i \in DOMAIN q : s \notin Touched(q[i])

\* The slots in which a server that has new, when r has reached it, differs from
\* one that has old, when q has.
Differ(old, q, new, r) ==
    {s \in Slots : \A v \in Values : ~(Leaves(old, q, s, v) /\ Leaves(new, r, s, v))}

-----------------------------------------------------------------------------
(* Calls.  They wait for room in the queue, and never for the loop. *)

\* Mutant: an unbounded queue.
CallUnbounded(e) ==
    /\ ready
    /\ calls > 0 /\ calls' = calls - 1
    /\ events' = Append(events, e)
    /\ UNCHANGED <<dataVars, channel, ready, accept, subs, receiver, sendVars>>

Call(e) ==
    /\ ready
    /\ calls > 0 /\ calls' = calls - 1
    /\ Len(events) < Capacity
    /\ events' = Append(events, e)
    /\ UNCHANGED <<dataVars, channel, ready, accept, subs, receiver, sendVars>>

AddSubscriptions(S, bad) == Call([kind |-> "Subscribe", keys |-> S, bad |-> bad])
RemoveSubscriptions(S, bad) == Call([kind |-> "Unsubscribe", keys |-> S, bad |-> bad])
ClearSubscriptions == Call([kind |-> "Reset"])
Configure(c) == Call([kind |-> "Configure", config |-> c])

-----------------------------------------------------------------------------
(* The loop.  Only it uses the map, so the check of the channel's state and *)
(* the change of the map are one step; the message is sent in steps of its  *)
(* own, and the next event waits for them.                                  *)

Entries(kind, keys) == pc' = IF keys = {} THEN <<>> ELSE << [kind |-> kind, keys |-> keys] >>

HandleSubscribe(e) ==
    /\ e.kind = "Subscribe"
    /\ subs' = subs \cup e.keys
    /\ Entries("add", e.keys \ e.bad)
    /\ lost' = lost \cup e.bad
    /\ UNCHANGED accept

\* A bad value removes its key from the map and is not sent.
HandleUnsubscribe(e) ==
    /\ e.kind = "Unsubscribe"
    /\ subs' = subs \ e.keys
    /\ Entries("remove", (e.keys \cap subs) \ e.bad)
    /\ lost' = lost \cup (e.bad \cap subs)
    /\ UNCHANGED accept

\* Mutant: the map is not cleared.
ClearNothing == UNCHANGED subs

ClearMap == subs' = {}

HandleReset(e) ==
    /\ e.kind = "Reset"
    /\ ClearMap
    /\ pc' = << [kind |-> "reset"] >>
    /\ UNCHANGED <<accept, lost>>

HandleConfigure(e) ==
    /\ e.kind = "Configure"
    /\ accept' = e.config
    /\ pc' = IF Opened THEN << [kind |-> "setup", config |-> accept'] >> ELSE <<>>
    /\ lost' = IF Opened THEN lost ELSE lost \cup {Setup}
    /\ UNCHANGED subs

\* Dropped, with nobody told, unless the channel is open.
Ignore(e) ==
    /\ e.kind # "Configure" /\ ~Opened
    /\ UNCHANGED <<accept, subs, pc, lost>>

Handle ==
    /\ ready /\ pc = <<>> /\ events # <<>>
    /\ events' = Tail(events)
    /\ LET e == Head(events) IN
           \/ Opened /\ (HandleSubscribe(e) \/ HandleUnsubscribe(e) \/ HandleReset(e))
           \/ HandleConfigure(e)
           \/ Ignore(e)
    /\ UNCHANGED <<dataVars, calls, channel, ready, waiting, wire, receiver, server>>

-----------------------------------------------------------------------------
(* Sending: channel.send checks its state, then waits up to 30 s for room.   *)
(* The first message is the FEED_SETUP of `new`, which returns after it.    *)
(* An error is logged, and the message is not sent again.                   *)

Sending == pc # <<>>
Done == pc' = <<>> /\ waiting' = FALSE /\ ready' = TRUE

CheckOpened ==
    /\ Sending /\ ~waiting /\ Opened
    /\ waiting' = TRUE
    /\ UNCHANGED <<dataVars, calls, channel, ready, accept, subs, events, receiver,
                   pc, wire, server, lost>>

Accept ==
    /\ Sending /\ waiting /\ receiver /\ Len(wire) < WireCapacity
    /\ wire' = wire \o pc
    /\ lost' = lost \ Touched(pc[1])
    /\ Done
    /\ UNCHANGED <<dataVars, calls, channel, accept, subs, events, receiver, server>>

\* Mutant: no timeout.
NeverTimedOut == FALSE

TimedOut == Len(wire) = WireCapacity

SendFails ==
    /\ Sending
    /\ (~waiting /\ ~Opened) \/ (waiting /\ (~receiver \/ TimedOut))
    /\ lost' = lost \cup Differ(server, wire \o pc, server, wire)
    /\ Done
    /\ UNCHANGED <<dataVars, calls, channel, accept, subs, events, receiver, wire, server>>

-----------------------------------------------------------------------------
(* The channel and the server. *)

ChannelOpens ==
    /\ channel = "Requested"
    /\ channel' = "Opened"
    /\ UNCHANGED <<dataVars, calls, ready, accept, subs, events, receiver, sendVars>>

\* close (an error of the channel's close leaves it as it was).
Close ==
    /\ ready /\ channel # "Closed"
    /\ channel' = "Closed"
    /\ UNCHANGED <<dataVars, calls, ready, accept, subs, events, receiver, sendVars>>

Deliver ==
    /\ wire # <<>> /\ receiver
    /\ server' = Applied(server, Head(wire))
    /\ wire' = Tail(wire)
    /\ UNCHANGED <<dataVars, calls, channel, ready, accept, subs, events, receiver, pc, waiting, lost>>

\* The client has no connector and drops the message, the link is lost with it, or
\* the server has no such channel and ignores it.
Vanish ==
    /\ wire # <<>> /\ receiver
    /\ lost' = lost \cup Differ(server, wire \o pc, server, Tail(wire) \o pc)
    /\ wire' = Tail(wire)
    /\ UNCHANGED <<dataVars, calls, channel, ready, accept, subs, events, receiver, pc, waiting, server>>

\* The link is lost, or the server closes the channel: what it held is gone, also if
\* the channel is opened for it once more.  The client's channel is as it was, and
\* nobody tells the feed.
ServerForgets ==
    /\ server # Blank
    /\ server' = Blank
    /\ lost' = lost \cup Differ(server, wire \o pc, Blank, wire \o pc)
    /\ UNCHANGED <<dataVars, calls, channel, ready, accept, subs, events, receiver, pc, waiting, wire>>

\* The forwarder ends, and what is in the queue is gone.
DropReceiver ==
    /\ receiver
    /\ receiver' = FALSE
    /\ wire' = <<>>
    /\ lost' = lost \cup Differ(server, wire \o pc, server, pc)
    /\ UNCHANGED <<dataVars, calls, channel, ready, accept, subs, events, pc, waiting, server>>

-----------------------------------------------------------------------------
Init ==
    /\ DataInit
    /\ \E b \in Budgets : calls = b[1] /\ more = b[2]
    /\ channel \in {"Requested", "Opened"}
    /\ ready = FALSE /\ accept = FirstConfig /\ subs = {} /\ events = <<>>
    /\ pc = << [kind |-> "setup", config |-> FirstConfig] >> /\ waiting = FALSE
    /\ wire = <<>> /\ receiver = TRUE /\ lost = {}
    /\ server = Blank

Calls ==
    \/ \E S \in SUBSET Keys \ {{}} : \E bad \in SUBSET S :
           AddSubscriptions(S, bad) \/ RemoveSubscriptions(S, bad)
    \/ ClearSubscriptions
    \/ \E c \in Configs : Configure(c)

Sends == CheckOpened \/ Accept \/ SendFails

Next ==
    \/ Calls \/ Handle \/ Sends
    \/ ChannelOpens \/ Close \/ Deliver \/ Vanish \/ ServerForgets \/ DropReceiver
    \/ Opened /\ Arrive /\ UNCHANGED feedVars
    \/ ready /\ Listen /\ UNCHANGED feedVars
    \/ (Tasks \/ Hearing) /\ UNCHANGED feedVars

\* The runtime runs the loop; send's timer runs out.
Spec == Init /\ [][Next]_vars /\ WF_vars(Handle) /\ WF_vars(Sends)

-----------------------------------------------------------------------------
TypeOK ==
    /\ DataTypeOK
    /\ channel \in {"Requested", "Opened", "Closed"}
    /\ \E b \in Budgets : calls <= b[1] /\ messages + more <= b[2]
    /\ ready \in BOOLEAN /\ waiting \in BOOLEAN /\ receiver \in BOOLEAN
    /\ accept \in Configs /\ subs \subseteq Keys /\ lost \subseteq Slots
    /\ Len(events) <= Capacity /\ Len(wire) <= WireCapacity /\ Len(pc) <= 1
    /\ DOMAIN server = Slots

\* While the channel is open, server and feed agree on every subscription and on
\* the accepted configuration, once what is on its way has arrived; but for the
\* slots whose last message failed or that the server has forgotten with the
\* channel, until a message about them is accepted again.
ServerAgrees == Opened => \A s \in Slots \ lost : Leaves(server, wire \o pc, s, Mine[s])

\* The loop gets to every event in the queue, however long the channel stalls.
EventsHandled == events # <<>> ~> events = <<>>
=============================================================================
