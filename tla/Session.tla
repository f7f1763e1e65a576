------------------------------ MODULE Session -------------------------------
(***************************************************************************)
(* What a DxLinkWebSocketClient promises of its dealings with the server,  *)
(* whatever links it has had: nothing is taken for done before the other   *)
(* side has done it.  SETUP comes before being connected, the server's     *)
(* AUTHORIZED before counting as authorized and before any request but     *)
(* those the application makes itself, the request before the server's     *)
(* opening, and that before an open channel.  A channel goes forwards, and *)
(* only the application, once it has been given the channel, closes it:    *)
(* not the server, whatever core/channel.rs says of Closed.                *)
(***************************************************************************)
EXTENDS ChannelState

CONSTANT Channels

VARIABLES greeted,      \* a SETUP has gone out
          connected,    \* the client counts as connected
          admitted,     \* the server has authorized the user
          authorized,   \* the user counts as authorized
          demanded,     \* channels whose request() the application has called
          asked,        \* channels that were requested of the server
          granted,      \* channels the server has opened
          returned,     \* channels the application has been given
          state         \* what each channel counts as, "None" when there is none

linkVars == <<greeted, connected>>
userVars == <<admitted, authorized>>
channelVars == <<demanded, asked, granted, returned, state>>
vars == <<linkVars, userVars, channelVars>>

Init ==
    /\ greeted = FALSE /\ connected = FALSE
    /\ admitted = FALSE /\ authorized = FALSE
    /\ demanded = {} /\ asked = {} /\ granted = {} /\ returned = {}
    /\ state = [c \in Channels |-> "None"]

Greet == greeted' = TRUE /\ UNCHANGED <<connected, userVars, channelVars>>

Connect    == greeted /\ connected' = TRUE /\ UNCHANGED <<greeted, userVars, channelVars>>
Disconnect == connected' = FALSE /\ UNCHANGED <<greeted, userVars, channelVars>>

Admit == admitted' = TRUE /\ UNCHANGED <<authorized, linkVars, channelVars>>

Authorize   == admitted /\ authorized' = TRUE /\ UNCHANGED <<admitted, linkVars, channelVars>>
Deauthorize == authorized' = FALSE /\ UNCHANGED <<admitted, linkVars, channelVars>>

Becomes(c, s) == state' = [state EXCEPT ![c] = s]

Register(c) ==
    /\ state[c] = "None" /\ Becomes(c, "Requested")
    /\ UNCHANGED <<linkVars, userVars, demanded, asked, granted, returned>>

Demand(c) ==
    /\ c \in returned
    /\ demanded' = demanded \cup {c}
    /\ UNCHANGED <<linkVars, userVars, asked, granted, returned, state>>

\* A channel may be asked for again, and even when it is closed by now.
Ask(c) ==
    /\ state[c] # "None"
    /\ admitted \/ c \in demanded
    /\ asked' = asked \cup {c}
    /\ UNCHANGED <<linkVars, userVars, demanded, granted, returned, state>>

Grant(c) ==
    /\ c \in asked
    /\ granted' = granted \cup {c}
    /\ UNCHANGED <<linkVars, userVars, demanded, asked, returned, state>>

Open(c) ==
    /\ c \in granted
    /\ state[c] = "Requested" /\ Becomes(c, "Opened")
    /\ UNCHANGED <<linkVars, userVars, demanded, asked, granted, returned>>

\* The application gets its channel, requested or open, and perhaps only now.
Return(c) ==
    /\ \/ state[c] \in {"Requested", "Opened"} /\ UNCHANGED state
       \/ c \in granted /\ state[c] = "Requested" /\ Becomes(c, "Opened")
    /\ returned' = returned \cup {c}
    /\ UNCHANGED <<linkVars, userVars, demanded, asked, granted>>

Close(c) ==
    /\ c \in returned
    /\ state[c] \in {"Requested", "Opened"} /\ Becomes(c, "Closed")
    /\ UNCHANGED <<linkVars, userVars, demanded, asked, granted, returned>>

Next ==
    \/ Greet \/ Connect \/ Disconnect
    \/ Admit \/ Authorize \/ Deauthorize
    \/ \E c \in Channels : \/ Register(c) \/ Demand(c) \/ Ask(c) \/ Grant(c)
                           \/ Open(c) \/ Return(c) \/ Close(c)

Spec == Init /\ [][Next]_vars
=============================================================================
