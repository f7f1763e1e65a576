------------------------------- MODULE Client -------------------------------
(***************************************************************************)
(* DxLinkWebSocketClient (src/src/websocket_client/client.rs): connection, *)
(* authorization and the opening of channels over one WebSocket at a time. *)
(*                                                                         *)
(* The client runs as a crowd of tokio tasks: every callback of the        *)
(* connector and every change of connection_state or auth_state is spawned *)
(* as a task of its own, and the runtime orders them as it likes.  pool    *)
(* counts the tasks that are spawned and not finished; a task that awaits  *)
(* between two accesses to shared state is spawned again as its next phase.*)
(* A link is one WebSocket, with the connector that owns it and the read   *)
(* loop that serves it.                                                    *)
(***************************************************************************)
EXTENDS Naturals, FiniteSets, Bags, ChannelState

CONSTANTS Urls,                  \* the endpoints connect is called with
          MaxLinks,              \* bound: WebSockets opened
          MaxChannels,           \* bound: open_channel calls
          MaxReconnectAttempts,  \* config.max_reconnect_attempts, 0: no limit
          Budgets                \* bound: what one behaviour may use up (Bounds)

Answers == {"AUTHORIZED", "UNAUTHORIZED", "OTHER"}

\* A budget: the endpoints connect is called with, the states the server puts
\* in AUTH_STATE, how many WebSockets are opened, calls of each kind made, failures
\* of the peer or the network suffered, and how often a peer stops reading; whether
\* the application calls request(), once for a channel, and whether the server
\* sends an AUTH_STATE on its own, once on a link.
Bounds == [urls : (SUBSET Urls) \ {{}}, answers : SUBSET Answers,
           links : 1 .. MaxLinks, channels : 0 .. MaxChannels,
           auths : Nat, disconnects : Nat, fails : Nat, stalls : Nat,
           requests : BOOLEAN, announces : BOOLEAN]

ASSUME ClientAssumption ==
    /\ MaxLinks \in Nat \ {0}
    /\ {MaxChannels, MaxReconnectAttempts} \subseteq Nat
    /\ Budgets \subseteq Bounds

VARIABLES connState,    \* connection_state
          connector,    \* connector: the link in the slot, 0 when it is None
          link,         \* what has become of each link
          url,          \* the url of each link
          attempts,     \* reconnect_attempts
          user,         \* where the application's connect or disconnect is
          disconnects,  \* disconnect calls made
          fails,        \* failures of the peer or the network so far
          timers,       \* keepalive tasks alive
          handle,       \* keepalive_timer holds the handle of a live task
          authState,    \* auth_state
          authTimeout,  \* auth_timeout is Some
          auths,        \* send_auth_message calls made
          nextId,       \* next_channel_id
          chan,         \* the channels map, with each channel's state
          pending,      \* pending_channel_opens
          signalled,    \* channels whose oneshot has fired
          opener,       \* where each open_channel call is
          requested,    \* channels whose request() the application has called
          pool,         \* the spawned tasks
          sent,         \* what the server has received on each link
          owed,         \* what it has not answered yet
          granted,      \* channels the server has opened
          revoked,      \* channels the server has closed
          accepted,     \* links on which the server has sent AUTHORIZED
          announced,    \* links on which it has sent an AUTH_STATE unasked
          stalled,      \* links whose peer does not read, with the buffers full
          stalls,       \* how often that has come about
          held,         \* a writer waits for such a peer, with the lock of the slot
          bound         \* the budget of this behaviour

connVars == <<connState, connector, link, url, attempts, user, disconnects>>
timerVars == <<timers, handle>>
authVars == <<authState, authTimeout, auths>>
chanVars == <<nextId, chan, pending, signalled, opener, requested>>
wireVars == <<sent, owed>>
answerVars == <<granted, revoked, accepted, announced>>
stallVars == <<stalled, stalls, held>>
serverVars == <<answerVars, stallVars, fails, bound>>
vars == <<connVars, timerVars, authVars, chanVars, pool, wireVars, serverVars>>

Links == 1 .. MaxLinks
Channels == 1 .. MaxChannels

ConnStates == {"NotConnected", "Connecting", "Connected"}
AuthStates == {"Unauthorized", "Authorizing", "Authorized"}

\* broken: writes fail, the read loop has not noticed; stopped: stop() took the
\* write half, the read loop goes on; ended: the read loop is over.
LinkStates == {"unused", "open", "broken", "stopped", "ended"}

Frames == {<<"SETUP">>, <<"AUTH">>} \cup ({"CHANNEL_REQUEST"} \X Channels)

Request(c) == <<"CHANNEL_REQUEST", c>>

\* The next phase of a task, with what it has to remember.
ClosePhases == {"Begin", "Disconnect", "Teardown", "Reconnect", "CheckState", "Redial",
                "Rerequest", "GiveUp", "GiveUpTeardown", "GaveUp"}
AuthPhases == {"First", "FirstCheck", "FirstAsk", "Second", "SecondCheck", "SecondAsk"}

Tasks == ({"SetConnection"} \X ConnStates)
    \cup ({"SetAuth"} \X AuthStates)
    \cup ({"WriteAuth"} \X AuthStates \X AuthStates)      \* new, old
    \cup ({"TransportOpen"} \X Links)
    \cup ({"TransportClose"} \X Links \X ClosePhases)
    \cup ({"Setup"} \X {"Begin", "StopTimer", "StartTimer"})
    \cup ({"AuthState"} \X Answers \X AuthPhases)
    \cup ({"Ask"} \X BOOLEAN \X (SUBSET Channels) \X Channels)  \* pass, to do, at
    \cup ({"Forward"} \X Channels) \cup {<<"Authenticate">>}
    \cup ({"ChannelOpened", "ChannelClosed"} \X Channels)
    \cup ({"AuthTimer"} \X {"Elapsed", "Expire"})

UserStates == {<<"Idle">>, <<"Disconnect">>, <<"Teardown">>}
    \cup ({"ConnectDisconnect", "ConnectTeardown", "Dial", "Dialing"} \X Urls)
    \cup ({"Store"} \X Links)

OpenerStates == {"None", "Register", "CheckConnection", "CheckAuth", "Send", "Wait",
                 "Ok", "Failed"}

-----------------------------------------------------------------------------
(* Tasks. *)

\* tokio::spawn of each task in the set new.
Spawn(new) == pool' = pool (+) SetToBag(new)

\* Task t runs, and spawns the tasks in new (its own next phase included).
Run(t, new) ==
    /\ BagIn(t, pool)
    /\ pool' = (pool (-) SetToBag({t})) (+) SetToBag(new)

SetConnection(s) == <<"SetConnection", s>>
SetAuth(s) == <<"SetAuth", s>>

\* send_message: under the lock of the slot, the frames go out on the link in
\* it.  With no connector, or one whose read loop has ended (is_available is
\* false), they are dropped and the answer is Ok all the same.  A write to a peer
\* that does not read waits for it, with no timeout.
Transmit(frames) ==
    /\ ~held
    /\ connector \in stalled => link[connector] # "open"
    /\ LET out == IF connector # 0 /\ link[connector] = "open"
               THEN {connector} \X frames
               ELSE {}
       IN  sent' = sent \cup out /\ owed' = owed \cup out

\* The lock of the channels map: process_auth_state_response keeps it while it
\* sends one CHANNEL_REQUEST after the other.
MapFree == \A t \in BagToSet(pool) : t[1] # "Ask"

\* set_connection_state's task: compare, write and call the listeners, all
\* under the lock.
RunSetConnection(s) ==
    /\ Run(SetConnection(s), {})
    /\ connState' = s
    /\ UNCHANGED <<connector, link, url, attempts, user, disconnects, timerVars,
                   authVars, chanVars, wireVars, serverVars>>

\* set_auth_state's task reads the old state under one lock and writes the new
\* one under another.
RunSetAuth(s) ==
    /\ IF authState = s
       THEN Run(SetAuth(s), {})
       ELSE Run(SetAuth(s), {<<"WriteAuth", s, authState>>})
    /\ UNCHANGED <<connVars, timerVars, authVars, chanVars, wireVars, serverVars>>

WriteAuth(new, old) ==
    /\ Run(<<"WriteAuth", new, old>>, {})
    /\ authState' = new
    /\ UNCHANGED <<connVars, timerVars, authTimeout, auths, chanVars, wireVars, serverVars>>

-----------------------------------------------------------------------------
(* connect, disconnect and the loss of a link. *)

\* Mutant: the timer is aborted whether or not there is one.
StopTimerAgain == timers' = timers - 1 /\ handle' = FALSE

StopTimer == timers' = (IF handle THEN timers - 1 ELSE timers) /\ handle' = FALSE

\* Mutant: the connector is stopped but left in the slot.
ReleaseKept ==
    /\ ~held /\ connector \notin stalled
    /\ link' = [g \in Links |-> IF g = connector /\ link[g] \in {"open", "broken"}
                                THEN "stopped" ELSE link[g]]
    /\ UNCHANGED connector

\* connector.take() and stop(), which writes a Close frame under the lock of the
\* slot: a link whose read loop is over stays ended.
Release ==
    /\ ~held /\ connector \notin stalled
    /\ link' = [g \in Links |-> IF g = connector /\ link[g] \in {"open", "broken"}
                                THEN "stopped" ELSE link[g]]
    /\ connector' = 0

\* The second half of disconnect: the timer, the connector, the counters.  The
\* states follow in tasks of their own (Down).
Teardown == StopTimer /\ Release /\ attempts' = 0

Down == {SetConnection("NotConnected"), SetAuth("Unauthorized")}

\* connect to the url the slot is already connected to does nothing, though
\* the link may be dead.
SameUrl(u) == connector # 0 /\ url[connector] = u

CallConnect(u) ==
    /\ user = <<"Idle">>
    /\ ~held /\ ~SameUrl(u)
    /\ u \in bound.urls
    /\ \E g \in 1 .. bound.links : link[g] = "unused"
    /\ user' = <<"ConnectDisconnect", u>>
    /\ UNCHANGED <<connState, connector, link, url, attempts, disconnects, timerVars,
                   authVars, chanVars, pool, wireVars, serverVars>>

CallDisconnect ==
    /\ user = <<"Idle">>
    /\ disconnects < bound.disconnects
    /\ disconnects' = disconnects + 1
    /\ user' = <<"Disconnect">>
    /\ UNCHANGED <<connState, connector, link, url, attempts, timerVars, authVars,
                   chanVars, pool, wireVars, serverVars>>

\* disconnect returns at once when connection_state is NotConnected.
DisconnectGuard ==
    /\ \/ /\ user = <<"Disconnect">>
          /\ user' = IF connState = "NotConnected" THEN <<"Idle">> ELSE <<"Teardown">>
       \/ \E u \in Urls :
             /\ user = <<"ConnectDisconnect", u>>
             /\ user' = IF connState = "NotConnected" THEN <<"Dial", u>>
                                                      ELSE <<"ConnectTeardown", u>>
    /\ UNCHANGED <<connState, connector, link, url, attempts, disconnects, timerVars,
                   authVars, chanVars, pool, wireVars, serverVars>>

UserTeardown ==
    /\ \/ user = <<"Teardown">> /\ user' = <<"Idle">>
       \/ \E u \in Urls : user = <<"ConnectTeardown", u>> /\ user' = <<"Dial", u>>
    /\ Teardown
    /\ Spawn(Down)
    /\ UNCHANGED <<connState, url, disconnects, authVars, chanVars, wireVars, serverVars>>

\* Mutant: the state is set to Connected once there is a transport to dial.
DialConnected(u) ==
    /\ user = <<"Dial", u>>
    /\ user' = <<"Dialing", u>>
    /\ Spawn({SetConnection("Connected")})
    /\ UNCHANGED <<connState, connector, link, url, attempts, disconnects, timerVars,
                   authVars, chanVars, wireVars, serverVars>>

Dial(u) ==
    /\ user = <<"Dial", u>>
    /\ user' = <<"Dialing", u>>
    /\ Spawn({SetConnection("Connecting")})
    /\ UNCHANGED <<connState, connector, link, url, attempts, disconnects, timerVars,
                   authVars, chanVars, wireVars, serverVars>>

Fail == fails < bound.fails /\ fails' = fails + 1

\* connector.start(): the handshake fails, or the link is up and its read loop
\* announces it.  The connector is not in the slot yet.
Dialed(u) ==
    /\ user = <<"Dialing", u>>
    /\ \/ /\ Fail
          /\ user' = <<"Idle">>
          /\ UNCHANGED <<link, url, pool>>
       \/ LET g == CHOOSE g \in Links : link[g] = "unused" IN
             /\ user' = <<"Store", g>>
             /\ link' = [link EXCEPT ![g] = "open"]
             /\ url' = [url EXCEPT ![g] = u]
             /\ Spawn({<<"TransportOpen", g>>})
             /\ UNCHANGED fails
    /\ UNCHANGED <<connState, connector, attempts, disconnects, timerVars, authVars,
                   chanVars, wireVars, answerVars, stallVars, bound>>

\* The connector goes into the slot; what was there is dropped, not stopped.
Store(g) ==
    /\ user = <<"Store", g>>
    /\ ~held
    /\ user' = <<"Idle">>
    /\ connector' = g
    /\ UNCHANGED <<connState, link, url, attempts, disconnects, timerVars, authVars,
                   chanVars, pool, wireVars, serverVars>>

\* process_transport_open: SETUP, to whatever is in the slot by now.
TransportOpen(g) ==
    /\ Run(<<"TransportOpen", g>>, {})
    /\ Transmit({<<"SETUP">>})
    /\ UNCHANGED <<connVars, timerVars, authVars, chanVars, serverVars>>

\* What waits for the peer of g is written, or fails.
Reads(g) == stalled' = stalled \ {g} /\ held' = (held /\ connector # g)

\* The peer is gone, and a write would fail.
Break(g) ==
    /\ link[g] = "open" /\ Fail
    /\ link' = [link EXCEPT ![g] = "broken"]
    /\ Reads(g)
    /\ UNCHANGED <<connState, connector, url, attempts, user, disconnects, timerVars,
                   authVars, chanVars, pool, wireVars, answerVars, stalls, bound>>

\* The read loop of a link ends.  After a transport error the close listener is
\* called twice.  A stopped link ends when the peer answers the Close frame, or
\* with an error like any other.
EndRead(g, error) ==
    /\ \/ link[g] = "open" /\ Fail
       \/ link[g] = "broken" /\ UNCHANGED fails
       \/ link[g] = "stopped" /\ IF error THEN Fail ELSE UNCHANGED fails
    /\ link' = [link EXCEPT ![g] = "ended"]
    /\ LET close == SetToBag({<<"TransportClose", g, "Begin">>}) IN
       pool' = pool (+) close (+) (IF error THEN close ELSE EmptyBag)
    /\ owed' = {o \in owed : o[1] # g}
    /\ IF error THEN Reads(g) ELSE UNCHANGED <<stalled, held>>
    /\ UNCHANGED <<connState, connector, url, attempts, user, disconnects, timerVars,
                   authVars, chanVars, sent, answerVars, stalls, bound>>

\* The peer reads no more, and writes to it wait ...
Stall(g) ==
    /\ link[g] = "open" /\ g \notin stalled
    /\ stalls < bound.stalls /\ stalls' = stalls + 1
    /\ stalled' = stalled \cup {g}
    /\ UNCHANGED <<connVars, timerVars, authVars, chanVars, pool, wireVars, answerVars,
                   held, fails, bound>>

\* ... the first one, of a keepalive at the latest, with the lock of the slot.
Stick ==
    /\ connector \in stalled /\ ~held
    /\ held' = TRUE
    /\ UNCHANGED <<connVars, timerVars, authVars, chanVars, pool, wireVars, answerVars,
                   stalled, stalls, fails, bound>>

Resume(g) ==
    /\ g \in stalled
    /\ Reads(g)
    /\ UNCHANGED <<connVars, timerVars, authVars, chanVars, pool, wireVars, answerVars,
                   stalls, fails, bound>>

-----------------------------------------------------------------------------
(* process_transport_close of link g, phase by phase.  None of it asks which *)
(* link has closed.                                                          *)

Close(g, phase, new) == Run(<<"TransportClose", g, phase>>, new)
Phase(g, p) == <<"TransportClose", g, p>>

\* The reads between two awaits: auth_state, then connection_state in
\* disconnect, reconnect_attempts and connection_state in reconnect.
CloseDecide(g) ==
    /\ \/ Close(g, "Begin", {Phase(g, IF authState = "Unauthorized"
                                      THEN "Disconnect" ELSE "Reconnect")})
       \/ Close(g, "Disconnect",
                IF connState = "NotConnected" THEN {} ELSE {Phase(g, "Teardown")})
       \/ Close(g, "Reconnect",
                {Phase(g, IF MaxReconnectAttempts > 0 /\ attempts >= MaxReconnectAttempts
                          THEN "GiveUp" ELSE "CheckState")})
       \/ Close(g, "CheckState",
                IF connState = "NotConnected" THEN {SetConnection("NotConnected")}
                                              ELSE {Phase(g, "Redial")})
       \/ Close(g, "GiveUp",
                IF connState = "NotConnected" THEN {SetConnection("NotConnected")}
                                              ELSE {Phase(g, "GiveUpTeardown")})
       \/ Close(g, "GaveUp", {SetConnection("NotConnected")})
    /\ UNCHANGED <<connVars, timerVars, authVars, chanVars, wireVars, serverVars>>

CloseTeardown(g) ==
    /\ \/ Close(g, "Teardown", Down)
       \/ Close(g, "GiveUpTeardown", Down \cup {Phase(g, "GaveUp")})
    /\ Teardown
    /\ UNCHANGED <<connState, url, user, disconnects, authVars, chanVars, wireVars,
                   serverVars>>

\* The rest of reconnect.  No connector is started.
CloseRedial(g) ==
    /\ Close(g, "Redial", {SetConnection("Connecting"), Phase(g, "Rerequest")})
    /\ Release
    /\ attempts' = attempts + 1
    /\ UNCHANGED <<connState, url, user, disconnects, timerVars, authVars, chanVars,
                   wireVars, serverVars>>

\* Every channel that is not closed is told it is requested again (an opened one
\* refuses), and the state is set to NotConnected, before or after Connecting.
CloseRerequest(g) ==
    /\ MapFree
    /\ Close(g, "Rerequest", {SetConnection("NotConnected")})
    /\ chan' = [c \in Channels |->
                  IF chan[c] \in ChannelStates THEN SetState(chan[c], "Requested")
                                               ELSE chan[c]]
    /\ UNCHANGED <<connVars, timerVars, authVars, nextId, pending, signalled, opener,
                   requested, wireVars, serverVars>>

-----------------------------------------------------------------------------
(* process_message: one task for each message, so that two messages of one   *)
(* link may be processed in either order.  KEEPALIVE, ERROR (whose downcast  *)
(* from MessageType never succeeds) and channel data change nothing here.    *)

\* process_setup_response and start_keepalive_timer.
SetupBegin ==
    /\ Run(<<"Setup", "Begin">>, {SetConnection("Connected"), <<"Setup", "StopTimer">>})
    /\ attempts' = 0
    /\ UNCHANGED <<connState, connector, link, url, user, disconnects, timerVars,
                   authVars, chanVars, wireVars, serverVars>>

SetupStopTimer ==
    /\ Run(<<"Setup", "StopTimer">>, {<<"Setup", "StartTimer">>})
    /\ StopTimer
    /\ UNCHANGED <<connVars, authVars, chanVars, wireVars, serverVars>>

SetupStartTimer ==
    /\ Run(<<"Setup", "StartTimer">>, {})
    /\ timers' = timers + 1
    /\ handle' = TRUE
    /\ UNCHANGED <<connVars, authVars, chanVars, wireVars, serverVars>>

\* process_auth_state_response, which process_message calls twice for one
\* message.  The timeout is cleared whatever the message says.
AuthPhase(a, p) == <<"AuthState", a, p>>

\* Where the message's first pass is done, the second follows.
Then(a, second) == IF second THEN {} ELSE {AuthPhase(a, "Second")}

AuthState(a, second) ==
    /\ LET pass == AuthPhase(a, IF second THEN "Second" ELSE "First") IN
       CASE a = "AUTHORIZED" ->
              Run(pass, {SetAuth("Authorized"),
                         AuthPhase(a, IF second THEN "SecondCheck" ELSE "FirstCheck")})
         [] a = "UNAUTHORIZED" -> Run(pass, {SetAuth("Unauthorized")} \cup Then(a, second))
         [] a = "OTHER"        -> Run(pass, {})   \* an error ends process_message
    /\ authTimeout' = FALSE
    /\ UNCHANGED <<connVars, timerVars, authState, auths, chanVars, wireVars, serverVars>>

\* Is the client connected?  The lock of connection_state is let go again.
CheckConnected(second) ==
    /\ Run(AuthPhase("AUTHORIZED", IF second THEN "SecondCheck" ELSE "FirstCheck"),
           IF connState # "Connected" THEN Then("AUTHORIZED", second)
           ELSE {AuthPhase("AUTHORIZED", IF second THEN "SecondAsk" ELSE "FirstAsk")})
    /\ UNCHANGED <<connVars, timerVars, authVars, chanVars, wireVars, serverVars>>

\* The task goes on to some channel of todo that is in Requested.
GoOn(task, second, todo) ==
    LET rest == {c \in todo : chan[c] = "Requested"} IN
    \/ rest = {} /\ Run(task, Then("AUTHORIZED", second))
    \/ \E c \in rest : Run(task, {<<"Ask", second, rest \ {c}, c>>})

\* The channels map is locked ...
AskRequested(second) ==
    /\ MapFree
    /\ GoOn(AuthPhase("AUTHORIZED", IF second THEN "SecondAsk" ELSE "FirstAsk"),
            second, Channels)
    /\ UNCHANGED <<connVars, timerVars, authVars, chanVars, wireVars, serverVars>>

\* ... and one channel after the other is requested, whatever has become of it.
AskChannel(second, todo, c) ==
    /\ GoOn(<<"Ask", second, todo, c>>, second, todo)
    /\ Transmit({Request(c)})
    /\ UNCHANGED <<connVars, timerVars, authVars, chanVars, serverVars>>

\* CHANNEL_OPENED, under the lock of the channels map: a channel that is not
\* in the map is ignored, one that is gets opened and its opener is woken.
ChannelOpened(c) ==
    /\ MapFree
    /\ Run(<<"ChannelOpened", c>>, {})
    /\ IF chan[c] \in ChannelStates
       THEN /\ chan' = [chan EXCEPT ![c] = SetState(@, "Opened")]
            /\ pending' = pending \ {c}
            /\ signalled' = signalled \cup (pending \cap {c})
       ELSE UNCHANGED <<chan, pending, signalled>>
    /\ UNCHANGED <<connVars, timerVars, authVars, nextId, opener, requested, wireVars,
                   serverVars>>

\* CHANNEL_CLOSED is handed to the channel's message listeners and changes
\* nothing else.
ChannelClosed(c) ==
    /\ MapFree
    /\ Run(<<"ChannelClosed", c>>, {})
    /\ UNCHANGED <<connVars, timerVars, authVars, chanVars, wireVars, serverVars>>

-----------------------------------------------------------------------------
(* Authorization. *)

\* Mutant: the user counts as authorized as soon as the token is sent.
SendAuthTrusting ==
    /\ auths < bound.auths
    /\ auths' = auths + 1
    /\ authTimeout' = TRUE
    /\ Spawn({SetAuth("Authorized"), <<"AuthTimer", "Elapsed">>, <<"Authenticate">>})
    /\ UNCHANGED <<connVars, timerVars, authState, chanVars, wireVars, serverVars>>

\* send_auth_message: a task of its own waits 5 s, while the call goes on ...
SendAuth ==
    /\ auths < bound.auths
    /\ auths' = auths + 1
    /\ authTimeout' = TRUE
    /\ Spawn({SetAuth("Authorizing"), <<"AuthTimer", "Elapsed">>, <<"Authenticate">>})
    /\ UNCHANGED <<connVars, timerVars, authState, chanVars, wireVars, serverVars>>

\* ... to send the AUTH.
Authenticate ==
    /\ Run(<<"Authenticate">>, {})
    /\ Transmit({<<"AUTH">>})
    /\ UNCHANGED <<connVars, timerVars, authVars, chanVars, serverVars>>

\* The 5 s are over: auth_state is read under one lock, auth_timeout under
\* another.
AuthTimer ==
    /\ \/ /\ Run(<<"AuthTimer", "Elapsed">>,
                 IF authState = "Authorizing" THEN {<<"AuthTimer", "Expire">>} ELSE {})
          /\ UNCHANGED authTimeout
       \/ /\ Run(<<"AuthTimer", "Expire">>,
                 IF authTimeout THEN {SetAuth("Unauthorized")} ELSE {})
          /\ authTimeout' = FALSE
    /\ UNCHANGED <<connVars, timerVars, authState, auths, chanVars, wireVars, serverVars>>

-----------------------------------------------------------------------------
(* open_channel, one call for each channel id.  The oneshot sender is stored *)
(* before the channel can be found in the map and before it is requested.    *)

Goto(c, p) == opener' = [opener EXCEPT ![c] = p]

\* Mutant: the sender is stored only once the request is out.
OpenUnprepared(c) ==
    /\ c = nextId /\ c <= bound.channels
    /\ nextId' = nextId + 1
    /\ Goto(c, "Register")
    /\ UNCHANGED <<connVars, timerVars, authVars, chan, pending, signalled, requested, pool,
                   wireVars, serverVars>>

OpenChannel(c) ==
    /\ c = nextId /\ c <= bound.channels
    /\ nextId' = nextId + 1
    /\ pending' = pending \cup {c}
    /\ Goto(c, "Register")
    /\ UNCHANGED <<connVars, timerVars, authVars, chan, signalled, requested, pool, wireVars,
                   serverVars>>

Register(c) ==
    /\ opener[c] = "Register"
    /\ MapFree
    /\ chan' = [chan EXCEPT ![c] = "Requested"]
    /\ Goto(c, "CheckConnection")
    /\ UNCHANGED <<connVars, timerVars, authVars, nextId, pending, signalled, requested, pool,
                   wireVars, serverVars>>

\* Mutant: the authorization is not asked for.
OpenCheckConnectedOnly(c) ==
    /\ \/ opener[c] = "CheckConnection" /\ Goto(c, "CheckAuth")
       \/ opener[c] = "CheckAuth" /\ Goto(c, IF connState = "Connected" THEN "Send" ELSE "Ok")
    /\ UNCHANGED <<connVars, timerVars, authVars, nextId, chan, pending, signalled, requested,
                   pool, wireVars, serverVars>>

\* Not connected, or not authorized: the caller gets a channel in Requested.
OpenCheck(c) ==
    /\ \/ /\ opener[c] = "CheckConnection"
          /\ Goto(c, IF connState = "Connected" THEN "CheckAuth" ELSE "Ok")
       \/ /\ opener[c] = "CheckAuth"
          /\ Goto(c, IF authState = "Authorized" THEN "Send" ELSE "Ok")
    /\ UNCHANGED <<connVars, timerVars, authVars, nextId, chan, pending, signalled, requested,
                   pool, wireVars, serverVars>>

SendRequest(c) ==
    /\ opener[c] = "Send"
    /\ Goto(c, IF connector # 0 /\ link[connector] = "broken" THEN "Failed" ELSE "Wait")
    /\ Transmit({Request(c)})
    /\ UNCHANGED <<connVars, timerVars, authVars, nextId, chan, pending, signalled, requested,
                   pool, serverVars>>

\* The oneshot has fired: the channel is opened once more and returned.
Opened(c) ==
    /\ opener[c] = "Wait"
    /\ c \in signalled
    /\ chan' = [chan EXCEPT ![c] = SetState(@, "Opened")]
    /\ Goto(c, "Ok")
    /\ UNCHANGED <<connVars, timerVars, authVars, nextId, pending, signalled, requested, pool,
                   wireVars, serverVars>>

\* Mutant: the timeout is taken for an answer.
OpenTimeoutOpens(c) ==
    /\ opener[c] = "Wait"
    /\ c \notin signalled
    /\ chan' = [chan EXCEPT ![c] = SetState(@, "Opened")]
    /\ Goto(c, "Ok")
    /\ UNCHANGED <<connVars, timerVars, authVars, nextId, pending, signalled, requested, pool,
                   wireVars, serverVars>>

\* Mutant: no timeout around the wait.
OpenTimeoutNever(c) == FALSE /\ UNCHANGED vars

\* 5 s without an answer: the call fails.  The channel stays in the map and
\* its sender among the pending ones.
OpenTimeout(c) ==
    /\ opener[c] = "Wait"
    /\ c \notin signalled
    /\ Goto(c, "Failed")
    /\ UNCHANGED <<connVars, timerVars, authVars, nextId, chan, pending, signalled, requested,
                   pool, wireVars, serverVars>>

\* The application closes a channel that open_channel has given it (module
\* Channel has close in full).
CloseChannel(c) ==
    /\ opener[c] = "Ok"
    /\ chan[c] # "Closed"
    /\ chan' = [chan EXCEPT ![c] = SetState(@, "Closed")]
    /\ UNCHANGED <<connVars, timerVars, authVars, nextId, pending, signalled, opener,
                   requested, pool, wireVars, serverVars>>

\* It calls request(), which asks neither for the connection nor for the
\* authorization: a CHANNEL_REQUEST is queued, and the channel told that it is
\* requested.
RequestChannel(c) ==
    /\ bound.requests /\ c \notin requested
    /\ opener[c] = "Ok"
    /\ requested' = requested \cup {c}
    /\ chan' = [chan EXCEPT ![c] = SetState(@, "Requested")]
    /\ Spawn({<<"Forward", c>>})
    /\ UNCHANGED <<connVars, timerVars, authVars, nextId, pending, signalled, opener, wireVars,
                   serverVars>>

\* The forwarder of the channel's queue sends it.
Forward(c) ==
    /\ Run(<<"Forward", c>>, {})
    /\ Transmit({Request(c)})
    /\ UNCHANGED <<connVars, timerVars, authVars, chanVars, serverVars>>

-----------------------------------------------------------------------------
(* The server: it answers what it has received, in any order, as long as the *)
(* link is read.                                                             *)

Readable(g) == link[g] \in {"open", "stopped"}

\* AUTH_STATE with some state.
Judge(g) ==
    \E a \in bound.answers :
       /\ Spawn({AuthPhase(a, "First")})
       /\ accepted' = IF a = "AUTHORIZED" THEN accepted \cup {g} ELSE accepted

Answer(g, f) ==
    /\ Readable(g)
    /\ <<g, f>> \in owed
    /\ owed' = owed \ {<<g, f>>}
    /\ CASE f[1] = "SETUP" ->
              Spawn({<<"Setup", "Begin">>}) /\ UNCHANGED serverVars
         [] f[1] = "AUTH" ->
              Judge(g) /\ UNCHANGED <<granted, revoked, announced, stallVars, fails, bound>>
         [] f[1] = "CHANNEL_REQUEST" ->
              /\ Spawn({<<"ChannelOpened", f[2]>>})
              /\ granted' = granted \cup {f[2]}
              /\ UNCHANGED <<revoked, accepted, announced, stallVars, fails, bound>>
    /\ UNCHANGED <<connVars, timerVars, authVars, chanVars, sent>>

\* The server may say what it thinks of the user before it is asked.
Announce(g) ==
    /\ Readable(g)
    /\ bound.announces /\ g \notin announced
    /\ announced' = announced \cup {g}
    /\ Judge(g)
    /\ UNCHANGED <<connVars, timerVars, authVars, chanVars, wireVars, granted, revoked,
                   stallVars, fails, bound>>

\* The server closes a channel it has opened.
Revoke(g, c) ==
    /\ Readable(g)
    /\ c \in granted \ revoked
    /\ revoked' = revoked \cup {c}
    /\ Spawn({<<"ChannelClosed", c>>})
    /\ UNCHANGED <<connVars, timerVars, authVars, chanVars, wireVars, granted, accepted,
                   announced, stallVars, fails, bound>>

-----------------------------------------------------------------------------
Init ==
    /\ bound \in Budgets
    /\ connState = "NotConnected" /\ connector = 0
    /\ link = [g \in Links |-> "unused"]
    /\ url = [g \in Links |-> CHOOSE u \in bound.urls : TRUE]
    /\ attempts = 0
    /\ user = <<"Idle">> /\ disconnects = 0
    /\ timers = 0 /\ handle = FALSE
    /\ authState = "Unauthorized" /\ authTimeout = FALSE /\ auths = 0
    /\ nextId = 1
    /\ chan = [c \in Channels |-> "None"]
    /\ pending = {} /\ signalled = {}
    /\ opener = [c \in Channels |-> "None"]
    /\ pool = EmptyBag
    /\ sent = {} /\ owed = {}
    /\ requested = {}
    /\ granted = {} /\ revoked = {} /\ accepted = {} /\ announced = {}
    /\ stalled = {} /\ stalls = 0 /\ held = FALSE /\ fails = 0

\* What the application starts.
Call ==
    \/ \E u \in Urls : CallConnect(u)
    \/ CallDisconnect \/ SendAuth
    \/ \E c \in Channels : OpenChannel(c) \/ CloseChannel(c) \/ RequestChannel(c)

\* The calls in progress.
UserStep ==
    \/ DisconnectGuard \/ UserTeardown
    \/ \E u \in Urls : Dial(u) \/ Dialed(u)
    \/ \E g \in Links : Store(g)

OpenStep(c) ==
    Register(c) \/ OpenCheck(c) \/ SendRequest(c) \/ Opened(c) \/ OpenTimeout(c)

\* A spawned task.
TaskStep ==
    \/ \E s \in ConnStates : RunSetConnection(s)
    \/ \E s \in AuthStates : RunSetAuth(s) \/ \E old \in AuthStates : WriteAuth(s, old)
    \/ \E g \in Links : \/ TransportOpen(g) \/ CloseDecide(g) \/ CloseTeardown(g)
                        \/ CloseRedial(g) \/ CloseRerequest(g)
    \/ SetupBegin \/ SetupStopTimer \/ SetupStartTimer
    \/ \E second \in BOOLEAN :
            \/ \E a \in Answers : AuthState(a, second)
            \/ CheckConnected(second) \/ AskRequested(second)
            \/ \E todo \in SUBSET Channels, c \in Channels : AskChannel(second, todo, c)
    \/ \E c \in Channels : ChannelOpened(c) \/ ChannelClosed(c) \/ Forward(c)
    \/ AuthTimer \/ Authenticate

Network ==
    \/ \E g \in Links : Break(g) \/ \E error \in BOOLEAN : EndRead(g, error)
    \/ Stick \/ \E g \in Links : Stall(g) \/ Resume(g)
    \/ \E g \in Links, f \in Frames : Answer(g, f)
    \/ \E g \in Links : Announce(g) \/ \E c \in Channels : Revoke(g, c)

Next == Call \/ UserStep \/ (\E c \in Channels : OpenStep(c)) \/ TaskStep \/ Network

Spec == Init /\ [][Next]_vars

\* The runtime polls every task and call it holds and its timers fire.  The
\* application, the server and the network owe nothing.
FairSpec ==
    /\ Spec
    /\ WF_vars(TaskStep)
    /\ WF_vars(UserStep)
    /\ \A c \in Channels : WF_vars(OpenStep(c))

-----------------------------------------------------------------------------
TypeOK ==
    /\ connState \in ConnStates /\ authState \in AuthStates
    /\ connector \in Links \cup {0}
    /\ link \in [Links -> LinkStates] /\ url \in [Links -> Urls]
    /\ attempts \in Nat /\ disconnects \in Nat /\ auths \in Nat
    /\ user \in UserStates
    /\ timers \in Nat /\ handle \in BOOLEAN /\ authTimeout \in BOOLEAN
    /\ nextId \in 1 .. MaxChannels + 1
    /\ chan \in [Channels -> ChannelStates \cup {"None"}]
    /\ pending \subseteq Channels /\ signalled \subseteq Channels
    /\ opener \in [Channels -> OpenerStates] /\ requested \subseteq Channels
    /\ IsABag(pool) /\ BagToSet(pool) \subseteq Tasks
    /\ sent \subseteq Links \X Frames /\ owed \subseteq sent
    /\ granted \subseteq Channels /\ revoked \subseteq granted
    /\ accepted \subseteq Links /\ announced \subseteq Links
    /\ stalled \subseteq Links /\ held \in BOOLEAN
    /\ {stalls, fails} \subseteq Nat /\ bound \in Budgets

\* A channel counts as opened only because the server opened it: no timeout,
\* late answer, close or reconnect on the client's side brings that about.
OpenedByServer == \A c \in Channels : chan[c] = "Opened" => c \in granted

\* An open_channel call that waits can still be woken: its oneshot is among the
\* pending ones or has fired, however early the CHANNEL_OPENED came in.
NoLostWakeup == \A c \in Channels : opener[c] = "Wait" => c \in pending \cup signalled

\* Whatever tasks overlap, no connector that stop() has closed is left in the
\* slot, where connect would take its url for a live connection.
SlotNeverStopped == connector # 0 => link[connector] \notin {"unused", "stopped"}

\* connection_state is Connected only once a SETUP went out for the server to
\* answer, however the spawned setters of several connections are ordered.
ConnectedAfterSetup == connState = "Connected" => \E g \in Links : <<g, <<"SETUP">> >> \in sent

\* But for channels whose request() the application itself has called, no channel
\* is requested before the server has authorized the user, though auth_state may
\* change after open_channel has read it.
RequestsAuthorized ==
    \A g \in Links, c \in Channels :
        <<g, Request(c)>> \in sent => accepted # {} \/ c \in requested

\* The user counts as authorized only after the server has said so, whatever
\* the setters, the timers and the teardowns of auth_state overwrite.
AuthorizedByServer == authState = "Authorized" => accepted # {}

\* A channel's state only moves forwards, through reconnects, late answers and
\* concurrent closes.
ChannelsMoveForward ==
    [][\A c \in Channels : chan[c] # "None" => Rank[chan'[c]] >= Rank[chan[c]]]_vars

\* However the tasks of several links overlap, the client takes nothing for done
\* before the other side has done it: no step on what it has been told skips the
\* step that had to come before.
Promised == INSTANCE Session WITH
    greeted    <- \E g \in Links : <<g, <<"SETUP">> >> \in sent,
    connected  <- connState = "Connected",
    admitted   <- accepted # {},
    authorized <- authState = "Authorized",
    demanded   <- requested,
    asked      <- {c \in Channels : \E g \in Links : <<g, Request(c)>> \in sent},
    returned   <- {c \in Channels : opener[c] = "Ok"},
    state      <- chan

ImplementsSession == Promised!Spec

\* Every open_channel call returns, unless the peer of the link in the slot stops
\* reading for good: then a write waits with the lock of the slot, perhaps with
\* the channels map locked too, and the call waits behind it.
Stuck == connector \in stalled

OpenReturns == \A c \in Channels :
    opener[c] \notin {"None", "Ok", "Failed"} ~> opener[c] \in {"Ok", "Failed"} \/ []Stuck

-----------------------------------------------------------------------------
(* What the documentation says and the code does not do.                     *)

\* Nothing is running: no task, no call.
Settled ==
    /\ pool = EmptyBag
    /\ user = <<"Idle">>
    /\ \A c \in Channels : opener[c] \in {"None", "Ok", "Failed"}

Live(g) == g # 0 /\ link[g] = "open"

\* core/client.rs:66, of connect: "Previously established connections are closed
\* if the new address is different from the old one."  A link that is up is
\* the one in the slot, or on its way into it.
OldLinkClosed ==
    \A g \in Links : link[g] = "open" => connector = g \/ user = <<"Store", g>>

\* client.rs:359, "Send SETUP message": a link that is up and in the slot, with
\* nothing left to run, has been sent its SETUP.
SetupSent == Settled /\ Live(connector) => <<connector, <<"SETUP">> >> \in sent

\* core/client.rs:28, of Connected: "The connection to remote endpoint is
\* established.  The connection is ready to use."
ConnectedIsReady == Settled /\ connState = "Connected" => connector # 0

\* README.md:4, "connection handling with automatic reconnection strategies".  A
\* reconnect that was begun leads to a new link.
ReconnectDials == attempts > 0 ~> \E g \in Links : link[g] = "open"

\* core/channel.rs:20, of Closed: "Channel was closed by close() or by server.
\* Channel cannot be used anymore."  A channel the server has closed is Closed,
\* once its CHANNEL_CLOSED is processed.
ClosedByServer == Settled => \A c \in revoked : chan[c] = "Closed"

\* core/auth.rs:13, of Authorized: "User is authorized on the remote endpoint and
\* can use it."  The remote endpoint of the link in the slot has said so.
AuthorizedHere ==
    connState = "Connected" /\ authState = "Authorized" /\ Live(connector) /\ Settled
        => connector \in accepted
=============================================================================
