--------------------------- MODULE Client_proofs ---------------------------
(***************************************************************************)
(* What holds of every client: any endpoints, any number of links, calls,  *)
(* channels and failures, whatever tasks the runtime runs first.           *)
(***************************************************************************)
EXTENDS Client, TLAPS

\* The tasks that are spawned and not finished.
Spawned == BagToSet(pool)

LEMMA RunLeaves ==
    ASSUME NEW t, NEW new, Run(t, new)
    PROVE  t \in Spawned /\ Spawned' \subseteq Spawned \cup new
  BY DEF Run, (+), (-), BagIn, BagToSet, SetToBag, Spawned

LEMMA SpawnAdds == ASSUME NEW new, Spawn(new) PROVE Spawned' = Spawned \cup new
  BY DEF Spawn, (+), BagToSet, SetToBag, Spawned

-----------------------------------------------------------------------------
(* Where tasks come from *)

\* Some task holds the channels map, and asks for c next.
AskedNext(c) == \E second, todo : <<"Ask", second, todo, c>> \in Spawned

\* Some task has still to do what AUTHORIZED brings about.
Judged == (\E p : AuthPhase("AUTHORIZED", p) \in Spawned) \/ \E c : AskedNext(c)

\* The task goes on to a channel it has found in Requested, or is done.
LEMMA GoesOn ==
    ASSUME NEW task, NEW second, NEW todo, GoOn(task, second, todo)
    PROVE  /\ task \in Spawned
           /\ \/ Spawned' \subseteq Spawned \cup {AuthPhase("AUTHORIZED", "Second")}
              \/ \E c \in todo, rest \in SUBSET todo :
                    /\ chan[c] = "Requested"
                    /\ Spawned' \subseteq Spawned \cup {<<"Ask", second, rest, c>>}
  <1>. DEFINE requesting == {c \in todo : chan[c] = "Requested"}
  <1>1. CASE Run(task, Then("AUTHORIZED", second))
    BY <1>1, RunLeaves DEF Then
  <1>2. ASSUME NEW c \in requesting, Run(task, {<<"Ask", second, requesting \ {c}, c>>})
        PROVE  /\ task \in Spawned
               /\ \E rest \in SUBSET todo : Spawned' \subseteq Spawned \cup {<<"Ask", second, rest, c>>}
    BY <1>2, RunLeaves
  <1>. QED  BY <1>1, <1>2 DEF GoOn

\* Every task of a kind the properties turn on was brought about by an earlier
\* one, or by the server.
Caused ==
    /\ \A c \in Channels : <<"ChannelOpened", c>> \in Spawned' =>
          <<"ChannelOpened", c>> \in Spawned \/ c \in granted'
    /\ \A p : <<"Setup", p>> \in Spawned' =>
          (\E q : <<"Setup", q>> \in Spawned) \/ \E g \in Links : <<g, <<"SETUP">> >> \in owed
    /\ SetConnection("Connected") \in Spawned' =>
          SetConnection("Connected") \in Spawned \/ \E q : <<"Setup", q>> \in Spawned
    /\ Judged' => Judged \/ accepted' # {}
    /\ SetAuth("Authorized") \in Spawned' => SetAuth("Authorized") \in Spawned \/ Judged
    /\ \A old : <<"WriteAuth", "Authorized", old>> \in Spawned' =>
          \/ <<"WriteAuth", "Authorized", old>> \in Spawned
          \/ SetAuth("Authorized") \in Spawned
    /\ \A c : <<"Forward", c>> \in Spawned' => <<"Forward", c>> \in Spawned \/ c \in requested'
    /\ \A c : AskedNext(c)' => AskedNext(c) \/ chan[c] = "Requested"

LEMMA CausedByLess == Spawned' \subseteq Spawned => Caused
  <1>. SUFFICES ASSUME Spawned' \subseteq Spawned PROVE Caused
    OBVIOUS
  <1>1. \A c : AskedNext(c)' => AskedNext(c)
    BY DEF AskedNext
  <1>2. Judged' => Judged
    BY <1>1 DEF Judged, AuthPhase
  <1>. QED  BY <1>1, <1>2 DEF Caused, SetConnection, SetAuth

LEMMA CausedBySteps == TaskStep => Caused
  <1>. SUFFICES ASSUME TaskStep PROVE Caused
    OBVIOUS
  <1>1. ASSUME NEW s \in ConnStates, RunSetConnection(s) PROVE Caused
    BY <1>1, RunLeaves, CausedByLess DEF RunSetConnection
  <1>2. ASSUME NEW s \in AuthStates, RunSetAuth(s) PROVE Caused
    <2>1. SetAuth(s) \in Spawned /\ Spawned' \subseteq Spawned \cup {<<"WriteAuth", s, authState>>}
      BY <1>2, RunLeaves DEF RunSetAuth
    <2>. QED  BY <2>1 DEF Caused, SetAuth, SetConnection, AuthPhase, Judged, AskedNext
  <1>3. ASSUME NEW s \in AuthStates, NEW old \in AuthStates, WriteAuth(s, old) PROVE Caused
    BY <1>3, RunLeaves, CausedByLess DEF WriteAuth
  <1>4. CASE Authenticate \/ (\E g \in Links : TransportOpen(g)) \/ \E c \in Channels : Forward(c)
    <2>1. \E t : Run(t, {})
      BY <1>4 DEF TransportOpen, Authenticate, Forward
    <2>. QED  BY <2>1, RunLeaves, CausedByLess
  <1>5. ASSUME NEW g \in Links, CloseDecide(g) \/ CloseTeardown(g) \/ CloseRedial(g) \/ CloseRerequest(g)
        PROVE  Caused
    <2>1. \E p, new : Close(g, p, new)
             /\ new \subseteq {Phase(g, q) : q \in ClosePhases} \cup Down \cup {SetConnection("Connecting")}
      BY <1>5 DEF CloseDecide, CloseTeardown, CloseRedial, CloseRerequest, Down, ClosePhases
    <2>2. Spawned' \subseteq Spawned \cup {Phase(g, q) : q \in ClosePhases} \cup Down
                            \cup {SetConnection("Connecting")}
      BY <2>1, RunLeaves DEF Close
    <2>. QED  BY <2>2 DEF Caused, Phase, Down, SetAuth, SetConnection, AuthPhase, Judged, AskedNext
  <1>6. ASSUME NEW q, NEW new, Run(<<"Setup", q>>, new),
               new \subseteq {SetConnection("Connected"), <<"Setup", "StopTimer">>,
                              <<"Setup", "StartTimer">>}
        PROVE  Caused
    <2>1. /\ <<"Setup", q>> \in Spawned
          /\ Spawned' \subseteq Spawned \cup {SetConnection("Connected"), <<"Setup", "StopTimer">>,
                                             <<"Setup", "StartTimer">>}
      BY <1>6, RunLeaves
    <2>. QED  BY <2>1 DEF Caused, SetAuth, SetConnection, AuthPhase, Judged, AskedNext
  <1>7. CASE SetupBegin \/ SetupStopTimer \/ SetupStartTimer
    BY <1>6, <1>7 DEF SetupBegin, SetupStopTimer, SetupStartTimer
  <1>8. ASSUME NEW second \in BOOLEAN, NEW a \in Answers, AuthState(a, second) PROVE Caused
    <2>1. CASE a = "AUTHORIZED"
      <3>1. \E p, q : Run(AuthPhase("AUTHORIZED", p),
                         {SetAuth("Authorized"), AuthPhase("AUTHORIZED", q)})
        BY <1>8, <2>1 DEF AuthState
      <3>2. \E p, q : /\ AuthPhase("AUTHORIZED", p) \in Spawned
                     /\ Spawned' \subseteq Spawned \cup {SetAuth("Authorized"), AuthPhase("AUTHORIZED", q)}
        BY <3>1, RunLeaves
      <3>. QED  BY <3>2 DEF Caused, SetAuth, SetConnection, AuthPhase, Judged, AskedNext
    <2>2. CASE a # "AUTHORIZED"
      <3>1. Spawned' \subseteq Spawned \cup {SetAuth("Unauthorized"), AuthPhase(a, "Second")}
        <4>1. CASE a = "UNAUTHORIZED"
          BY <1>8, <4>1, RunLeaves DEF AuthState, Then
        <4>2. CASE a = "OTHER"
          BY <1>8, <4>2, RunLeaves DEF AuthState
        <4>. QED  BY <2>2, <4>1, <4>2 DEF Answers
      <3>. QED  BY <2>2, <3>1 DEF Caused, SetAuth, SetConnection, AuthPhase, Judged, AskedNext
    <2>. QED  BY <2>1, <2>2
  <1>9. ASSUME NEW second \in BOOLEAN, CheckConnected(second) PROVE Caused
    <2>1. \E p, q : /\ AuthPhase("AUTHORIZED", p) \in Spawned
                   /\ Spawned' \subseteq Spawned \cup {AuthPhase("AUTHORIZED", q)}
      <3>1. \E p, q, new : /\ Run(AuthPhase("AUTHORIZED", p), new)
                          /\ new \subseteq {AuthPhase("AUTHORIZED", q)}
        BY <1>9 DEF CheckConnected, Then
      <3>. QED  BY <3>1, RunLeaves
    <2>. QED  BY <2>1 DEF Caused, SetAuth, SetConnection, AuthPhase, Judged, AskedNext
  <1>12. ASSUME NEW task, NEW second, NEW todo, GoOn(task, second, todo),
                \/ \E p : task = AuthPhase("AUTHORIZED", p)
                \/ \E c : task = <<"Ask", second, todo, c>>
         PROVE  Caused
    <2>0. task \in Spawned
      BY <1>12, GoesOn
    <2>1. Judged
      <3>1. CASE \E p : task = AuthPhase("AUTHORIZED", p)
        BY <2>0, <3>1 DEF Judged
      <3>2. ASSUME NEW c, task = <<"Ask", second, todo, c>> PROVE Judged
        <4>1. AskedNext(c)
          BY <2>0, <3>2 DEF AskedNext
        <4>. QED  BY <4>1 DEF Judged
      <3>. QED  BY <1>12, <3>1, <3>2
    <2>2. CASE Spawned' \subseteq Spawned \cup {AuthPhase("AUTHORIZED", "Second")}
      BY <2>1, <2>2 DEF Caused, SetAuth, SetConnection, AuthPhase, Judged, AskedNext
    <2>3. ASSUME NEW c \in todo, NEW rest \in SUBSET todo, chan[c] = "Requested",
                 Spawned' \subseteq Spawned \cup {<<"Ask", second, rest, c>>}
          PROVE  Caused
      BY <2>1, <2>3 DEF Caused, SetAuth, SetConnection, AuthPhase, Judged, AskedNext
    <2>. QED  BY <1>12, <2>2, <2>3, GoesOn
  <1>13. ASSUME NEW second \in BOOLEAN,
                \/ AskRequested(second)
                \/ \E todo \in SUBSET Channels, c \in Channels : AskChannel(second, todo, c)
         PROVE  Caused
    BY <1>12, <1>13 DEF AskRequested, AskChannel
  <1>10. ASSUME NEW c \in Channels, ChannelOpened(c) \/ ChannelClosed(c) PROVE Caused
    BY <1>10, RunLeaves, CausedByLess DEF ChannelOpened, ChannelClosed
  <1>11. CASE AuthTimer
    <2>1. \E t, new : /\ Run(t, new)
                      /\ new \subseteq {<<"AuthTimer", "Expire">>, SetAuth("Unauthorized")}
      BY <1>11 DEF AuthTimer
    <2>2. Spawned' \subseteq Spawned \cup {<<"AuthTimer", "Expire">>, SetAuth("Unauthorized")}
      BY <2>1, RunLeaves
    <2>. QED  BY <2>2 DEF Caused, SetAuth, SetConnection, AuthPhase, Judged, AskedNext
  <1>. QED  BY <1>1, <1>2, <1>3, <1>4, <1>5, <1>7, <1>8, <1>9, <1>10, <1>11, <1>13 DEF TaskStep

LEMMA CausedElsewhere ==
    Call \/ UserStep \/ (\E c \in Channels : OpenStep(c)) \/ Network \/ UNCHANGED vars => Caused
  <1>0. ASSUME UNCHANGED pool PROVE Caused
    BY <1>0, CausedByLess DEF Spawned
  <1>j. ASSUME NEW g \in Links, Judge(g) PROVE Caused
    <2>1. PICK a \in bound.answers :
             /\ Spawn({AuthPhase(a, "First")})
             /\ accepted' = IF a = "AUTHORIZED" THEN accepted \cup {g} ELSE accepted
      BY <1>j DEF Judge
    <2>2. Spawned' = Spawned \cup {AuthPhase(a, "First")} /\ (a = "AUTHORIZED" => accepted' # {})
      BY <2>1, SpawnAdds
    <2>. QED  BY <2>2 DEF Caused, SetAuth, SetConnection, AuthPhase, Judged, AskedNext
  <1>1. CASE Call
    <2>1. CASE SendAuth
      <3>1. Spawned' = Spawned \cup {SetAuth("Authorizing"), <<"AuthTimer", "Elapsed">>,
                                     <<"Authenticate">>}
        BY <2>1, SpawnAdds DEF SendAuth
      <3>. QED  BY <3>1 DEF Caused, SetAuth, SetConnection, AuthPhase, Judged, AskedNext
    <2>3. ASSUME NEW c \in Channels, RequestChannel(c) PROVE Caused
      <3>1. Spawned' = Spawned \cup {<<"Forward", c>>} /\ c \in requested'
        BY <2>3, SpawnAdds DEF RequestChannel
      <3>. QED  BY <3>1 DEF Caused, SetAuth, SetConnection, AuthPhase, Judged, AskedNext
    <2>2. CASE ~SendAuth /\ ~\E c \in Channels : RequestChannel(c)
      BY <1>0, <1>1, <2>2 DEF Call, CallConnect, CallDisconnect, OpenChannel, CloseChannel
    <2>. QED  BY <2>1, <2>2, <2>3
  <1>2. CASE UserStep
    <2>1. CASE DisconnectGuard \/ \E g \in Links : Store(g)
      BY <1>0, <2>1 DEF DisconnectGuard, Store
    <2>2. \/ DisconnectGuard \/ \E g \in Links : Store(g)
          \/ Spawn(Down) \/ Spawn({SetConnection("Connecting")})
          \/ \E g : Spawn({<<"TransportOpen", g>>})
          \/ UNCHANGED pool
      BY <1>2 DEF UserStep, UserTeardown, Dial, Dialed
    <2>3. \/ DisconnectGuard \/ \E g \in Links : Store(g)
          \/ \E g : Spawned' \subseteq Spawned \cup Down \cup {SetConnection("Connecting")}
                                               \cup {<<"TransportOpen", g>>}
      BY <2>2, SpawnAdds DEF Spawned
    <2>. QED  BY <2>1, <2>3 DEF Caused, Down, SetAuth, SetConnection, AuthPhase, Judged, AskedNext
  <1>3. ASSUME NEW c \in Channels, OpenStep(c) PROVE Caused
    BY <1>0, <1>3 DEF OpenStep, Register, OpenCheck, SendRequest, Opened, OpenTimeout
  <1>4. CASE Network
    <2>1. ASSUME NEW g \in Links, Break(g) \/ Stall(g) \/ Resume(g) PROVE Caused
      BY <1>0, <2>1 DEF Break, Stall, Resume
    <2>6. CASE Stick
      BY <1>0, <2>6 DEF Stick
    <2>5. ASSUME NEW g \in Links, Announce(g) PROVE Caused
      BY <1>j, <2>5 DEF Announce
    <2>2. ASSUME NEW g \in Links, NEW error \in BOOLEAN, EndRead(g, error) PROVE Caused
      <3>1. Spawned' \subseteq Spawned \cup {<<"TransportClose", g, "Begin">>}
        BY <2>2 DEF EndRead, (+), BagToSet, SetToBag, EmptyBag, Spawned
      <3>. QED  BY <3>1 DEF Caused, SetAuth, SetConnection, AuthPhase, Judged, AskedNext
    <2>3. ASSUME NEW g \in Links, NEW f \in Frames, Answer(g, f) PROVE Caused
      <3>1. CASE f = <<"SETUP">>
        <4>1. Spawned' = Spawned \cup {<<"Setup", "Begin">>} /\ <<g, <<"SETUP">> >> \in owed
          BY <2>3, <3>1, SpawnAdds DEF Answer
        <4>. QED  BY <4>1 DEF Caused, SetAuth, SetConnection, AuthPhase, Judged, AskedNext
      <3>2. CASE f = <<"AUTH">>
        BY <1>j, <2>3, <3>2 DEF Answer
      <3>3. ASSUME NEW c \in Channels, f = <<"CHANNEL_REQUEST", c>> PROVE Caused
        <4>1. Spawned' = Spawned \cup {<<"ChannelOpened", c>>} /\ c \in granted'
          BY <2>3, <3>3, SpawnAdds DEF Answer
        <4>. QED  BY <4>1 DEF Caused, SetAuth, SetConnection, AuthPhase, Judged, AskedNext
      <3>. QED  BY <3>1, <3>2, <3>3 DEF Frames
    <2>4. ASSUME NEW g \in Links, NEW c \in Channels, Revoke(g, c) PROVE Caused
      <3>1. Spawned' = Spawned \cup {<<"ChannelClosed", c>>}
        BY <2>4, SpawnAdds DEF Revoke
      <3>. QED  BY <3>1 DEF Caused, SetAuth, SetConnection, AuthPhase, Judged, AskedNext
    <2>. QED  BY <1>4, <2>1, <2>2, <2>3, <2>4, <2>5, <2>6 DEF Network
  <1>5. CASE UNCHANGED vars
    BY <1>0, <1>5 DEF vars
  <1>. QED  BY <1>1, <1>2, <1>3, <1>4, <1>5

LEMMA AllCaused == [Next]_vars => Caused
  BY CausedBySteps, CausedElsewhere DEF Next

-----------------------------------------------------------------------------
(* Types *)

PoolTypes == IsABag(pool) /\ Spawned \subseteq Tasks

ConnTypes ==
    /\ connState \in ConnStates /\ connector \in Links \cup {0}
    /\ link \in [Links -> LinkStates] /\ url \in [Links -> Urls]
    /\ attempts \in Nat /\ disconnects \in Nat /\ user \in UserStates

\* A connect under way has a link to dial with; a handle is that of a live timer.
LinkLeft ==
    (\E u \in Urls : user \in {"ConnectDisconnect", "ConnectTeardown", "Dial", "Dialing"} \X {u})
        => \E g \in Links : link[g] = "unused"

TimerTypes == timers \in Nat /\ handle \in BOOLEAN /\ (handle => timers > 0)

AuthTypes == authState \in AuthStates /\ authTimeout \in BOOLEAN /\ auths \in Nat

ChanTypes ==
    /\ nextId \in 1 .. MaxChannels + 1
    /\ chan \in [Channels -> ChannelStates \cup {"None"}]
    /\ pending \subseteq Channels /\ signalled \subseteq Channels
    /\ opener \in [Channels -> OpenerStates] /\ requested \subseteq Channels

WireTypes == sent \subseteq Links \X Frames /\ owed \subseteq sent

ServerTypes ==
    /\ granted \subseteq Channels /\ revoked \subseteq granted
    /\ accepted \subseteq Links /\ announced \subseteq Links
    /\ fails \in Nat /\ bound \in Budgets

StallTypes == stalled \subseteq Links /\ stalls \in Nat /\ held \in BOOLEAN

TypeInv ==
    /\ PoolTypes /\ ConnTypes /\ LinkLeft /\ TimerTypes /\ AuthTypes
    /\ ChanTypes /\ WireTypes /\ ServerTypes /\ StallTypes

LEMMA TypeInvOK == TypeInv => TypeOK
  BY DEF TypeInv, TypeOK, PoolTypes, ConnTypes, TimerTypes, AuthTypes, ChanTypes, WireTypes,
         ServerTypes, StallTypes, Spawned

LEMMA RunBag == ASSUME NEW t, NEW new, Run(t, new), PoolTypes, new \subseteq Tasks PROVE PoolTypes'
  BY DEF Run, (+), (-), BagIn, BagToSet, SetToBag, IsABag, Spawned, PoolTypes

LEMMA SpawnBag == ASSUME NEW new, Spawn(new), PoolTypes, new \subseteq Tasks PROVE PoolTypes'
  BY DEF Spawn, (+), BagToSet, SetToBag, IsABag, Spawned, PoolTypes

LEMMA DownTasks == Down \subseteq Tasks /\ \A s \in ConnStates : SetConnection(s) \in Tasks
  BY DEF Down, Tasks, SetConnection, SetAuth, ConnStates, AuthStates

LEMMA TaskPool == ASSUME TypeInv, TaskStep PROVE PoolTypes'
  <1>. USE DEF TypeInv
  <1>0. connState \in ConnStates /\ authState \in AuthStates
    BY DEF ConnTypes, AuthTypes
  <1>1. ASSUME NEW s \in ConnStates, RunSetConnection(s) PROVE PoolTypes'
    BY <1>1, RunBag DEF RunSetConnection
  <1>2. ASSUME NEW s \in AuthStates, RunSetAuth(s) PROVE PoolTypes'
    <2>1. <<"WriteAuth", s, authState>> \in Tasks
      BY <1>0 DEF Tasks
    <2>. QED  BY <1>2, <2>1, RunBag DEF RunSetAuth
  <1>3. ASSUME NEW s \in AuthStates, NEW old \in AuthStates, WriteAuth(s, old) PROVE PoolTypes'
    BY <1>3, RunBag DEF WriteAuth
  <1>4. ASSUME NEW g \in Links, TransportOpen(g) PROVE PoolTypes'
    BY <1>4, RunBag DEF TransportOpen
  <1>13. CASE Authenticate
    BY <1>13, RunBag DEF Authenticate
  <1>14. ASSUME NEW c \in Channels, Forward(c) PROVE PoolTypes'
    BY <1>14, RunBag DEF Forward
  <1>5. ASSUME NEW g \in Links, CloseDecide(g) \/ CloseTeardown(g) \/ CloseRedial(g) \/ CloseRerequest(g)
        PROVE  PoolTypes'
    <2>1. \E p, new : Close(g, p, new)
             /\ new \subseteq {Phase(g, q) : q \in ClosePhases} \cup Down
                             \cup {SetConnection(s) : s \in ConnStates}
      BY <1>5 DEF CloseDecide, CloseTeardown, CloseRedial, CloseRerequest, Down, ClosePhases, ConnStates
    <2>2. \A q \in ClosePhases : Phase(g, q) \in Tasks
      BY DEF Phase, Tasks
    <2>3. {Phase(g, q) : q \in ClosePhases} \cup Down \cup {SetConnection(s) : s \in ConnStates}
             \subseteq Tasks
      BY <2>2, DownTasks
    <2>. QED  BY <2>1, <2>3, RunBag DEF Close
  <1>6. CASE SetupBegin \/ SetupStopTimer \/ SetupStartTimer
    <2>1. {SetConnection("Connected"), <<"Setup", "StopTimer">>, <<"Setup", "StartTimer">>} \subseteq Tasks
      BY DEF Tasks, SetConnection, ConnStates
    <2>. QED  BY <1>6, <2>1, RunBag DEF SetupBegin, SetupStopTimer, SetupStartTimer
  <1>7. \A a \in Answers, p \in AuthPhases : AuthPhase(a, p) \in Tasks
    BY DEF Tasks, AuthPhase
  <1>8. \A s \in AuthStates : SetAuth(s) \in Tasks
    BY DEF Tasks, SetAuth
  <1>9. ASSUME NEW second \in BOOLEAN, NEW a \in Answers, AuthState(a, second) PROVE PoolTypes'
    <2>1. CASE a = "AUTHORIZED"
      BY <1>7, <1>8, <1>9, <2>1, RunBag DEF AuthState, AuthStates, AuthPhases
    <2>2. CASE a = "UNAUTHORIZED"
      BY <1>7, <1>8, <1>9, <2>2, RunBag DEF AuthState, AuthStates, AuthPhases, Then
    <2>3. CASE a = "OTHER"
      BY <1>9, <2>3, RunBag DEF AuthState
    <2>. QED  BY <2>1, <2>2, <2>3 DEF Answers
  <1>10. ASSUME NEW second \in BOOLEAN, CheckConnected(second) PROVE PoolTypes'
    <2>1. \E t, new : Run(t, new) /\ new \subseteq {AuthPhase("AUTHORIZED", q) : q \in AuthPhases}
      BY <1>10 DEF CheckConnected, Then, AuthPhases
    <2>. QED  BY <1>7, <2>1, RunBag DEF Answers
  <1>15. ASSUME NEW task, NEW second \in BOOLEAN, NEW todo \in SUBSET Channels, GoOn(task, second, todo)
         PROVE  PoolTypes'
    <2>1. Then("AUTHORIZED", second) \subseteq Tasks
      BY <1>7 DEF Then, Answers, AuthPhases
    <2>2. \A rest \in SUBSET Channels, c \in Channels : <<"Ask", second, rest, c>> \in Tasks
      BY DEF Tasks
    <2>. DEFINE requesting == {c \in todo : chan[c] = "Requested"}
    <2>3. \/ Run(task, Then("AUTHORIZED", second))
          \/ \E c \in requesting : Run(task, {<<"Ask", second, requesting \ {c}, c>>})
      BY <1>15 DEF GoOn
    <2>4. \A c \in requesting : <<"Ask", second, requesting \ {c}, c>> \in Tasks
      BY <2>2
    <2>. HIDE DEF requesting
    <2>. QED  BY <2>1, <2>3, <2>4, RunBag
  <1>16. ASSUME NEW second \in BOOLEAN,
                \/ AskRequested(second)
                \/ \E todo \in SUBSET Channels, c \in Channels : AskChannel(second, todo, c)
         PROVE  PoolTypes'
    <2>1. \E task : \E todo \in SUBSET Channels : GoOn(task, second, todo)
      BY <1>16 DEF AskRequested, AskChannel
    <2>. QED  BY <1>15, <2>1
  <1>11. ASSUME NEW c \in Channels, ChannelOpened(c) \/ ChannelClosed(c) PROVE PoolTypes'
    BY <1>11, RunBag DEF ChannelOpened, ChannelClosed
  <1>12. CASE AuthTimer
    <2>1. {<<"AuthTimer", "Expire">>, SetAuth("Unauthorized")} \subseteq Tasks
      BY DEF Tasks, SetAuth, AuthStates
    <2>. QED  BY <1>12, <2>1, RunBag DEF AuthTimer
  <1>. QED  BY <1>1, <1>2, <1>3, <1>4, <1>5, <1>6, <1>9, <1>10, <1>11, <1>12, <1>13, <1>14, <1>16
           DEF TaskStep

LEMMA Budget == ASSUME ServerTypes PROVE bound.answers \subseteq Answers /\ bound.links \in 1 .. MaxLinks
                                       /\ bound.channels \in 0 .. MaxChannels /\ bound.urls \subseteq Urls
  BY ClientAssumption DEF ServerTypes, Bounds

LEMMA OtherPool ==
    ASSUME TypeInv,
           Call \/ UserStep \/ (\E c \in Channels : OpenStep(c)) \/ Network \/ UNCHANGED vars
    PROVE  PoolTypes'
  <1>. USE DEF TypeInv
  <1>0. ASSUME UNCHANGED pool PROVE PoolTypes'
    BY <1>0 DEF PoolTypes, Spawned
  <1>1. CASE Call
    <2>1. CASE SendAuth
      <3>1. {SetAuth("Authorizing"), <<"AuthTimer", "Elapsed">>, <<"Authenticate">>} \subseteq Tasks
        BY DEF Tasks, SetAuth, AuthStates
      <3>. QED  BY <2>1, <3>1, SpawnBag DEF SendAuth
    <2>2. ASSUME NEW c \in Channels, RequestChannel(c) PROVE PoolTypes'
      <3>1. <<"Forward", c>> \in Tasks
        BY DEF Tasks
      <3>. QED  BY <2>2, <3>1, SpawnBag DEF RequestChannel
    <2>3. CASE ~SendAuth /\ ~\E c \in Channels : RequestChannel(c)
      BY <1>0, <1>1, <2>3 DEF Call, CallConnect, CallDisconnect, OpenChannel, CloseChannel
    <2>. QED  BY <2>1, <2>2, <2>3
  <1>2. CASE UserStep
    <2>1. CASE DisconnectGuard \/ \E g \in Links : Store(g)
      BY <1>0, <2>1 DEF DisconnectGuard, Store
    <2>2. CASE UserTeardown
      BY <2>2, DownTasks, SpawnBag DEF UserTeardown
    <2>3. ASSUME NEW u \in Urls, Dial(u) PROVE PoolTypes'
      BY <2>3, DownTasks, SpawnBag DEF Dial, ConnStates
    <2>4. ASSUME NEW u \in Urls, Dialed(u) PROVE PoolTypes'
      <3>1. user = <<"Dialing", u>> /\ \E g \in Links : link[g] = "unused"
        BY <2>4 DEF Dialed, LinkLeft
      <3>2. UNCHANGED pool \/ \E g \in Links : Spawn({<<"TransportOpen", g>>})
        BY <2>4, <3>1 DEF Dialed
      <3>3. \A g \in Links : <<"TransportOpen", g>> \in Tasks
        BY DEF Tasks
      <3>. QED  BY <1>0, <3>2, <3>3, SpawnBag
    <2>. QED  BY <1>2, <2>1, <2>2, <2>3, <2>4 DEF UserStep
  <1>3. ASSUME NEW c \in Channels, OpenStep(c) PROVE PoolTypes'
    BY <1>0, <1>3 DEF OpenStep, Register, OpenCheck, SendRequest, Opened, OpenTimeout
  <1>4. CASE Network
    <2>0. \A g \in Links : Judge(g) => \E t \in Tasks : Spawn({t})
      <3>1. \A a \in bound.answers : AuthPhase(a, "First") \in Tasks
        BY Budget DEF Tasks, AuthPhase, AuthPhases
      <3>. QED  BY <3>1 DEF Judge
    <2>1. ASSUME NEW g \in Links, Break(g) \/ Stall(g) \/ Resume(g) PROVE PoolTypes'
      BY <1>0, <2>1 DEF Break, Stall, Resume
    <2>5. CASE Stick
      BY <1>0, <2>5 DEF Stick
    <2>6. ASSUME NEW g \in Links, Announce(g) PROVE PoolTypes'
      BY <2>0, <2>6, SpawnBag DEF Announce
    <2>2. ASSUME NEW g \in Links, NEW error \in BOOLEAN, EndRead(g, error) PROVE PoolTypes'
      <3>1. <<"TransportClose", g, "Begin">> \in Tasks
        BY DEF Tasks, ClosePhases
      <3>2. IsABag(pool') /\ Spawned' \subseteq Spawned \cup {<<"TransportClose", g, "Begin">>}
        BY <2>2 DEF EndRead, (+), BagToSet, SetToBag, EmptyBag, Spawned, IsABag, PoolTypes
      <3>. QED  BY <3>1, <3>2 DEF PoolTypes
    <2>3. ASSUME NEW g \in Links, NEW f \in Frames, Answer(g, f) PROVE PoolTypes'
      <3>1. \E t \in Tasks : Spawn({t})
        <4>1. CASE f = <<"SETUP">>
          <5>1. <<"Setup", "Begin">> \in Tasks
            BY DEF Tasks
          <5>. QED  BY <2>3, <4>1, <5>1 DEF Answer
        <4>2. CASE f = <<"AUTH">>
          BY <2>0, <2>3, <4>2 DEF Answer
        <4>3. ASSUME NEW c \in Channels, f = <<"CHANNEL_REQUEST", c>> PROVE \E t \in Tasks : Spawn({t})
          <5>1. <<"ChannelOpened", c>> \in Tasks
            BY DEF Tasks
          <5>. QED  BY <2>3, <4>3, <5>1 DEF Answer
        <4>4. f = <<"SETUP">> \/ f = <<"AUTH">> \/ \E c \in Channels : f = <<"CHANNEL_REQUEST", c>>
          BY DEF Frames
        <4>. QED  BY <4>1, <4>2, <4>3, <4>4, Zenon
      <3>. QED  BY <3>1, SpawnBag
    <2>4. ASSUME NEW g \in Links, NEW c \in Channels, Revoke(g, c) PROVE PoolTypes'
      <3>1. <<"ChannelClosed", c>> \in Tasks
        BY DEF Tasks
      <3>. QED  BY <2>4, <3>1, SpawnBag DEF Revoke
    <2>. QED  BY <1>4, <2>1, <2>2, <2>3, <2>4, <2>5, <2>6 DEF Network
  <1>5. CASE UNCHANGED vars
    BY <1>0, <1>5 DEF vars
  <1>. QED  BY <1>1, <1>2, <1>3, <1>4, <1>5

LEMMA PoolStep == ASSUME TypeInv, [Next]_vars PROVE PoolTypes'
  BY TaskPool, OtherPool DEF Next

LEMMA TimerKept == ASSUME TimerTypes, StopTimer PROVE TimerTypes'
  <1>1. CASE handle = TRUE
    <2>1. timers' = timers - 1 /\ handle' = FALSE
      BY <1>1, Zenon DEF StopTimer
    <2>2. timers \in Nat /\ timers > 0
      BY <1>1, Zenon DEF TimerTypes
    <2>3. timers' \in Nat
      BY <2>1, <2>2
    <2>. QED  BY <2>1, <2>3, Zenon DEF TimerTypes
  <1>2. CASE handle = FALSE
    BY <1>2 DEF TimerTypes, StopTimer
  <1>. QED  BY <1>1, <1>2 DEF TimerTypes

LEMMA ReleaseTypes ==
    ASSUME ConnTypes, Release
    PROVE  connector' = 0 /\ link' \in [Links -> LinkStates]
           /\ \A g \in Links : link[g] = "unused" <=> link'[g] = "unused"
  BY DEF ConnTypes, Release, LinkStates

LEMMA WireKept ==
    ASSUME WireTypes, ConnTypes, NEW frames, frames \subseteq Frames, Transmit(frames)
    PROVE  WireTypes' /\ sent \subseteq sent' /\ sent' \subseteq sent \cup (Links \X frames)
  BY DEF WireTypes, ConnTypes, Transmit

\* Everything but the pool.
OtherTypes ==
    /\ ConnTypes /\ LinkLeft /\ TimerTypes /\ AuthTypes /\ ChanTypes /\ WireTypes /\ ServerTypes
    /\ StallTypes

LEMMA KeepTypes ==
    /\ ConnTypes /\ LinkLeft /\ UNCHANGED connVars => ConnTypes' /\ LinkLeft'
    /\ TimerTypes /\ UNCHANGED timerVars => TimerTypes'
    /\ AuthTypes /\ UNCHANGED authVars => AuthTypes'
    /\ ChanTypes /\ UNCHANGED chanVars => ChanTypes'
    /\ WireTypes /\ UNCHANGED wireVars => WireTypes'
    /\ ServerTypes /\ UNCHANGED <<answerVars, fails, bound>> => ServerTypes'
    /\ StallTypes /\ UNCHANGED stallVars => StallTypes'
    /\ UNCHANGED serverVars => UNCHANGED <<answerVars, fails, bound>> /\ UNCHANGED stallVars
  BY DEF connVars, timerVars, authVars, chanVars, wireVars, serverVars, answerVars, stallVars, ConnTypes,
         LinkLeft, TimerTypes, AuthTypes, ChanTypes, WireTypes, ServerTypes, StallTypes

LEMMA FrameSets ==
    /\ {<<"SETUP">>} \subseteq Frames /\ {<<"AUTH">>} \subseteq Frames
    /\ \A c \in Channels : {Request(c)} \subseteq Frames
  BY DEF Frames, Request

LEMMA CallTypes == ASSUME TypeInv, Call PROVE OtherTypes'
  <1>. USE DEF TypeInv
  <1>1. ASSUME NEW u \in Urls, CallConnect(u) PROVE OtherTypes'
    <2>1. ConnTypes' /\ LinkLeft'
      <3>1. \E g \in Links : link[g] = "unused"
        BY <1>1, Budget, ClientAssumption DEF CallConnect, Links
      <3>. QED  BY <1>1, <3>1 DEF CallConnect, ConnTypes, LinkLeft, UserStates
    <2>. QED  BY <1>1, <2>1, KeepTypes DEF CallConnect, OtherTypes
  <1>2. CASE CallDisconnect
    <2>1. ConnTypes' /\ LinkLeft'
      BY <1>2 DEF CallDisconnect, ConnTypes, LinkLeft, UserStates
    <2>. QED  BY <1>2, <2>1, KeepTypes DEF CallDisconnect, OtherTypes
  <1>3. CASE SendAuth
    <2>1. AuthTypes'
      BY <1>3 DEF SendAuth, AuthTypes
    <2>. QED  BY <1>3, <2>1, KeepTypes DEF SendAuth, OtherTypes
  <1>4. ASSUME NEW c \in Channels, OpenChannel(c) \/ CloseChannel(c) \/ RequestChannel(c)
        PROVE  OtherTypes'
    <2>1. CASE OpenChannel(c)
      <3>1. ChanTypes'
        BY <2>1, Budget, ClientAssumption DEF OpenChannel, ChanTypes, Goto, OpenerStates, Channels
      <3>. QED  BY <2>1, <3>1, KeepTypes DEF OpenChannel, OtherTypes
    <2>2. CASE CloseChannel(c)
      <3>1. ChanTypes'
        BY <2>2 DEF CloseChannel, ChanTypes, SetState, ChannelStates
      <3>. QED  BY <2>2, <3>1, KeepTypes DEF CloseChannel, OtherTypes
    <2>3. CASE RequestChannel(c)
      <3>1. ChanTypes'
        BY <2>3 DEF RequestChannel, ChanTypes, SetState, ChannelStates
      <3>. QED  BY <2>3, <3>1, KeepTypes DEF RequestChannel, OtherTypes
    <2>. QED  BY <1>4, <2>1, <2>2, <2>3
  <1>. QED  BY <1>1, <1>2, <1>3, <1>4 DEF Call

LEMMA UserTypes == ASSUME TypeInv, UserStep PROVE OtherTypes'
  <1>. USE DEF TypeInv
  <1>1. CASE DisconnectGuard
    <2>1. ConnTypes' /\ LinkLeft'
      BY <1>1 DEF DisconnectGuard, ConnTypes, LinkLeft, UserStates
    <2>. QED  BY <1>1, <2>1, KeepTypes DEF DisconnectGuard, OtherTypes
  <1>2. CASE UserTeardown
    <2>1. TimerTypes'
      BY <1>2, TimerKept DEF UserTeardown, Teardown
    <2>2. ConnTypes' /\ LinkLeft'
      BY <1>2, ReleaseTypes DEF UserTeardown, Teardown, ConnTypes, LinkLeft, UserStates
    <2>. QED  BY <1>2, <2>1, <2>2, KeepTypes DEF UserTeardown, OtherTypes
  <1>3. ASSUME NEW u \in Urls, Dial(u) PROVE OtherTypes'
    <2>1. ConnTypes' /\ LinkLeft'
      BY <1>3 DEF Dial, ConnTypes, LinkLeft, UserStates
    <2>. QED  BY <1>3, <2>1, KeepTypes DEF Dial, OtherTypes
  <1>4. ASSUME NEW u \in Urls, Dialed(u) PROVE OtherTypes'
    <2>1. \E g \in Links : link[g] = "unused"
      BY <1>4 DEF Dialed, LinkLeft
    <2>2. ConnTypes' /\ LinkLeft'
      <3>1. CASE UNCHANGED <<link, url>> /\ user' = <<"Idle">>
        BY <1>4, <3>1 DEF Dialed, ConnTypes, LinkLeft, UserStates
      <3>2. ASSUME NEW g \in Links, user' = <<"Store", g>>,
                   link' = [link EXCEPT ![g] = "open"], url' = [url EXCEPT ![g] = u]
            PROVE  ConnTypes' /\ LinkLeft'
        <4>1. ConnTypes'
          BY <1>4, <3>2 DEF Dialed, ConnTypes, UserStates, LinkStates
        <4>2. LinkLeft'
          BY <3>2 DEF LinkLeft
        <4>. QED  BY <4>1, <4>2
      <3>. QED  BY <1>4, <2>1, <3>1, <3>2 DEF Dialed
    <2>3. ServerTypes' /\ StallTypes'
      BY <1>4, KeepTypes DEF Dialed, Fail, ServerTypes, answerVars
    <2>. QED  BY <1>4, <2>2, <2>3, KeepTypes DEF Dialed, OtherTypes
  <1>5. ASSUME NEW g \in Links, Store(g) PROVE OtherTypes'
    <2>1. ConnTypes' /\ LinkLeft'
      BY <1>5 DEF Store, ConnTypes, LinkLeft, UserStates
    <2>. QED  BY <1>5, <2>1, KeepTypes DEF Store, OtherTypes
  <1>. QED  BY <1>1, <1>2, <1>3, <1>4, <1>5 DEF UserStep

LEMMA OpenTypes == ASSUME TypeInv, NEW c \in Channels, OpenStep(c) PROVE OtherTypes'
  <1>. USE DEF TypeInv
  <1>1. CASE Register(c)
    <2>1. ChanTypes'
      BY <1>1 DEF Register, ChanTypes, Goto, OpenerStates, ChannelStates
    <2>. QED  BY <1>1, <2>1, KeepTypes DEF Register, OtherTypes
  <1>2. CASE OpenCheck(c)
    <2>1. ChanTypes'
      BY <1>2 DEF OpenCheck, ChanTypes, Goto, OpenerStates
    <2>. QED  BY <1>2, <2>1, KeepTypes DEF OpenCheck, OtherTypes
  <1>3. CASE SendRequest(c)
    <2>1. ChanTypes'
      BY <1>3 DEF SendRequest, ChanTypes, Goto, OpenerStates
    <2>2. WireTypes'
      BY <1>3, WireKept, FrameSets DEF SendRequest
    <2>. QED  BY <1>3, <2>1, <2>2, KeepTypes DEF SendRequest, OtherTypes
  <1>4. CASE Opened(c)
    <2>1. ChanTypes'
      BY <1>4 DEF Opened, ChanTypes, Goto, OpenerStates, SetState, ChannelStates
    <2>. QED  BY <1>4, <2>1, KeepTypes DEF Opened, OtherTypes
  <1>5. CASE OpenTimeout(c)
    <2>1. ChanTypes'
      BY <1>5 DEF OpenTimeout, ChanTypes, Goto, OpenerStates
    <2>. QED  BY <1>5, <2>1, KeepTypes DEF OpenTimeout, OtherTypes
  <1>. QED  BY <1>1, <1>2, <1>3, <1>4, <1>5 DEF OpenStep

LEMMA TaskTypes == ASSUME TypeInv, TaskStep PROVE OtherTypes'
  <1>. USE DEF TypeInv
  <1>1. ASSUME NEW s \in ConnStates, RunSetConnection(s) PROVE OtherTypes'
    <2>1. ConnTypes' /\ LinkLeft'
      BY <1>1 DEF RunSetConnection, ConnTypes, LinkLeft
    <2>. QED  BY <1>1, <2>1, KeepTypes DEF RunSetConnection, OtherTypes
  <1>2. ASSUME NEW s \in AuthStates, RunSetAuth(s) PROVE OtherTypes'
    BY <1>2, KeepTypes DEF RunSetAuth, OtherTypes
  <1>3. ASSUME NEW s \in AuthStates, NEW old \in AuthStates, WriteAuth(s, old) PROVE OtherTypes'
    <2>1. AuthTypes'
      BY <1>3 DEF WriteAuth, AuthTypes
    <2>. QED  BY <1>3, <2>1, KeepTypes DEF WriteAuth, OtherTypes
  <1>4. ASSUME NEW g \in Links, TransportOpen(g) PROVE OtherTypes'
    <2>1. WireTypes'
      BY <1>4, WireKept, FrameSets DEF TransportOpen
    <2>. QED  BY <1>4, <2>1, KeepTypes DEF TransportOpen, OtherTypes
  <1>17. CASE Authenticate
    <2>1. WireTypes'
      BY <1>17, WireKept, FrameSets DEF Authenticate
    <2>. QED  BY <1>17, <2>1, KeepTypes DEF Authenticate, OtherTypes
  <1>18. ASSUME NEW c \in Channels, Forward(c) PROVE OtherTypes'
    <2>1. WireTypes'
      BY <1>18, WireKept, FrameSets DEF Forward
    <2>. QED  BY <1>18, <2>1, KeepTypes DEF Forward, OtherTypes
  <1>5. ASSUME NEW g \in Links, CloseDecide(g) PROVE OtherTypes'
    BY <1>5, KeepTypes DEF CloseDecide, OtherTypes
  <1>6. ASSUME NEW g \in Links, CloseTeardown(g) PROVE OtherTypes'
    <2>1. TimerTypes'
      BY <1>6, TimerKept DEF CloseTeardown, Teardown
    <2>2. ConnTypes' /\ LinkLeft'
      BY <1>6, ReleaseTypes DEF CloseTeardown, Teardown, ConnTypes, LinkLeft
    <2>. QED  BY <1>6, <2>1, <2>2, KeepTypes DEF CloseTeardown, OtherTypes
  <1>7. ASSUME NEW g \in Links, CloseRedial(g) PROVE OtherTypes'
    <2>1. ConnTypes' /\ LinkLeft'
      BY <1>7, ReleaseTypes DEF CloseRedial, ConnTypes, LinkLeft
    <2>. QED  BY <1>7, <2>1, KeepTypes DEF CloseRedial, OtherTypes
  <1>19. ASSUME NEW g \in Links, CloseRerequest(g) PROVE OtherTypes'
    <2>1. ChanTypes'
      BY <1>19 DEF CloseRerequest, ChanTypes, SetState, ChannelStates
    <2>. QED  BY <1>19, <2>1, KeepTypes DEF CloseRerequest, OtherTypes
  <1>8. CASE SetupBegin
    <2>1. ConnTypes' /\ LinkLeft'
      BY <1>8 DEF SetupBegin, ConnTypes, LinkLeft
    <2>. QED  BY <1>8, <2>1, KeepTypes DEF SetupBegin, OtherTypes
  <1>9. CASE SetupStopTimer
    BY <1>9, TimerKept, KeepTypes DEF SetupStopTimer, OtherTypes
  <1>10. CASE SetupStartTimer
    <2>1. timers' \in Nat /\ timers' > 0
      BY <1>10 DEF SetupStartTimer, TimerTypes
    <2>2. handle' \in BOOLEAN
      BY <1>10, Zenon DEF SetupStartTimer
    <2>3. TimerTypes'
      BY <2>1, <2>2, Zenon DEF TimerTypes
    <2>. QED  BY <1>10, <2>3, KeepTypes DEF SetupStartTimer, OtherTypes
  <1>11. ASSUME NEW second \in BOOLEAN, NEW a \in Answers, AuthState(a, second) PROVE OtherTypes'
    <2>1. AuthTypes'
      <3>1. authTimeout' = FALSE /\ UNCHANGED <<authState, auths>>
        BY <1>11 DEF AuthState
      <3>. QED  BY <3>1, Zenon DEF AuthTypes
    <2>. QED  BY <1>11, <2>1, KeepTypes DEF AuthState, OtherTypes
  <1>12. ASSUME NEW second \in BOOLEAN, CheckConnected(second) PROVE OtherTypes'
    BY <1>12, KeepTypes DEF CheckConnected, OtherTypes
  <1>13. ASSUME NEW second \in BOOLEAN, AskRequested(second) PROVE OtherTypes'
    BY <1>13, KeepTypes DEF AskRequested, OtherTypes
  <1>20. ASSUME NEW second \in BOOLEAN, NEW todo \in SUBSET Channels, NEW c \in Channels,
                AskChannel(second, todo, c)
         PROVE  OtherTypes'
    <2>1. WireTypes'
      BY <1>20, WireKept, FrameSets DEF AskChannel
    <2>. QED  BY <1>20, <2>1, KeepTypes DEF AskChannel, OtherTypes
  <1>14. ASSUME NEW c \in Channels, ChannelOpened(c) PROVE OtherTypes'
    <2>1. ChanTypes'
      BY <1>14 DEF ChannelOpened, ChanTypes, SetState, ChannelStates
    <2>. QED  BY <1>14, <2>1, KeepTypes DEF ChannelOpened, OtherTypes
  <1>15. ASSUME NEW c \in Channels, ChannelClosed(c) PROVE OtherTypes'
    BY <1>15, KeepTypes DEF ChannelClosed, OtherTypes
  <1>16. CASE AuthTimer
    <2>1. UNCHANGED <<authState, auths>> /\ (UNCHANGED authTimeout \/ authTimeout' = FALSE)
      BY <1>16 DEF AuthTimer
    <2>2. AuthTypes'
      BY <2>1, Zenon DEF AuthTypes
    <2>. QED  BY <1>16, <2>2, KeepTypes DEF AuthTimer, OtherTypes
  <1>. QED  BY <1>1, <1>2, <1>3, <1>4, <1>5, <1>6, <1>7, <1>8, <1>9, <1>10, <1>11, <1>12, <1>13,
               <1>14, <1>15, <1>16, <1>17, <1>18, <1>19, <1>20 DEF TaskStep

LEMMA ReadsTypes == ASSUME StallTypes, NEW g \in Links, Reads(g), UNCHANGED stalls PROVE StallTypes'
  <1>1. stalled' \subseteq Links /\ stalls' \in Nat
    BY DEF StallTypes, Reads
  <1>2. held' \in BOOLEAN
    BY Zenon DEF Reads
  <1>. QED  BY <1>1, <1>2, Zenon DEF StallTypes

LEMMA NetworkTypes == ASSUME TypeInv, Network PROVE OtherTypes'
  <1>. USE DEF TypeInv
  <1>0. ASSUME NEW g \in Links, Judge(g), UNCHANGED <<granted, revoked, fails, bound>>,
               announced' \subseteq Links
        PROVE  ServerTypes'
    <2>1. accepted' \subseteq Links
      BY <1>0 DEF Judge, ServerTypes
    <2>. QED  BY <1>0, <2>1 DEF ServerTypes
  <1>1. ASSUME NEW g \in Links, Break(g) PROVE OtherTypes'
    <2>1. user' = user /\ ConnTypes'
      BY <1>1 DEF Break, ConnTypes, LinkStates
    <2>2. \A h \in Links : link[h] = "unused" => link'[h] = "unused"
      BY <1>1 DEF Break, ConnTypes
    <2>3. LinkLeft'
      BY <2>1, <2>2 DEF LinkLeft
    <2>4. ServerTypes' /\ StallTypes'
      BY <1>1, ReadsTypes DEF Break, Fail, ServerTypes, answerVars
    <2>. QED  BY <1>1, <2>1, <2>3, <2>4, KeepTypes DEF Break, OtherTypes
  <1>2. ASSUME NEW g \in Links, NEW error \in BOOLEAN, EndRead(g, error) PROVE OtherTypes'
    <2>1. user' = user /\ ConnTypes'
      BY <1>2 DEF EndRead, ConnTypes, LinkStates
    <2>2. \A h \in Links : link[h] = "unused" => link'[h] = "unused"
      BY <1>2 DEF EndRead, ConnTypes
    <2>3. LinkLeft'
      BY <2>1, <2>2 DEF LinkLeft
    <2>4. WireTypes'
      BY <1>2 DEF EndRead, WireTypes
    <2>5. ServerTypes'
      BY <1>2 DEF EndRead, Fail, ServerTypes, answerVars
    <2>6. StallTypes'
      <3>1. CASE error = TRUE
        BY <1>2, <3>1, ReadsTypes DEF EndRead
      <3>2. CASE error = FALSE
        BY <1>2, <3>2, KeepTypes DEF EndRead, stallVars
      <3>. QED  BY <3>1, <3>2
    <2>. QED  BY <1>2, <2>1, <2>3, <2>4, <2>5, <2>6, KeepTypes DEF EndRead, OtherTypes
  <1>3. ASSUME NEW g \in Links, NEW f \in Frames, Answer(g, f) PROVE OtherTypes'
    <2>1. WireTypes'
      BY <1>3 DEF Answer, WireTypes
    <2>2. ServerTypes' /\ StallTypes'
      <3>1. CASE f = <<"SETUP">>
        BY <1>3, <3>1, KeepTypes DEF Answer
      <3>2. CASE f = <<"AUTH">>
        <4>1. Judge(g) /\ UNCHANGED <<granted, revoked, announced, fails, bound>> /\ UNCHANGED stallVars
          BY <1>3, <3>2 DEF Answer
        <4>2. ServerTypes'
          BY <1>0, <4>1 DEF ServerTypes
        <4>. QED  BY <4>1, <4>2, KeepTypes
      <3>3. ASSUME NEW c \in Channels, f = <<"CHANNEL_REQUEST", c>> PROVE ServerTypes' /\ StallTypes'
        BY <1>3, <3>3, KeepTypes DEF Answer, ServerTypes
      <3>. QED  BY <3>1, <3>2, <3>3 DEF Frames
    <2>. QED  BY <1>3, <2>1, <2>2, KeepTypes DEF Answer, OtherTypes
  <1>4. ASSUME NEW g \in Links, NEW c \in Channels, Revoke(g, c) PROVE OtherTypes'
    <2>1. ServerTypes'
      BY <1>4 DEF Revoke, ServerTypes
    <2>. QED  BY <1>4, <2>1, KeepTypes DEF Revoke, OtherTypes
  <1>5. ASSUME NEW g \in Links, Announce(g) PROVE OtherTypes'
    <2>1. ServerTypes'
      BY <1>0, <1>5 DEF Announce, ServerTypes
    <2>. QED  BY <1>5, <2>1, KeepTypes DEF Announce, OtherTypes
  <1>6. ASSUME NEW g \in Links, Resume(g) PROVE OtherTypes'
    <2>1. StallTypes'
      BY <1>6, ReadsTypes DEF Resume
    <2>. QED  BY <1>6, <2>1, KeepTypes DEF Resume, OtherTypes
  <1>7. ASSUME NEW g \in Links, Stall(g) PROVE OtherTypes'
    <2>1. stalled' \subseteq Links /\ stalls' \in Nat
      BY <1>7 DEF Stall, StallTypes
    <2>2. StallTypes'
      BY <1>7, <2>1, Zenon DEF Stall, StallTypes
    <2>. QED  BY <1>7, <2>2, KeepTypes DEF Stall, OtherTypes
  <1>8. CASE Stick
    <2>1. StallTypes'
      BY <1>8, Zenon DEF Stick, StallTypes
    <2>. QED  BY <1>8, <2>1, KeepTypes DEF Stick, OtherTypes
  <1>. QED  BY <1>1, <1>2, <1>3, <1>4, <1>5, <1>6, <1>7, <1>8 DEF Network

LEMMA TypeStep == ASSUME TypeInv, [Next]_vars PROVE TypeInv'
  <1>1. PoolTypes'
    BY PoolStep
  <1>2. OtherTypes'
    <2>1. CASE UNCHANGED vars
      BY <2>1, KeepTypes DEF vars, TypeInv, OtherTypes
    <2>. QED  BY <2>1, CallTypes, UserTypes, OpenTypes, TaskTypes, NetworkTypes DEF Next
  <1>. QED  BY <1>1, <1>2 DEF TypeInv, OtherTypes

LEMMA TypeInit == Init => TypeInv
  <1>. SUFFICES ASSUME Init PROVE TypeInv
    OBVIOUS
  <1>1. bound \in Budgets /\ bound.urls # {} /\ bound.urls \subseteq Urls
    BY ClientAssumption DEF Init, Bounds
  <1>2. ConnTypes
    BY <1>1 DEF Init, ConnTypes, ConnStates, LinkStates, UserStates
  <1>3. PoolTypes
    BY DEF Init, PoolTypes, Spawned, EmptyBag, IsABag, BagToSet, SetToBag
  <1>4. LinkLeft
    BY DEF Init, LinkLeft
  <1>5. TimerTypes
    BY DEF Init, TimerTypes
  <1>6. AuthTypes
    BY DEF Init, AuthTypes, AuthStates
  <1>7. ChanTypes
    BY ClientAssumption DEF Init, ChanTypes, OpenerStates
  <1>8. WireTypes /\ ServerTypes /\ StallTypes
    BY DEF Init, WireTypes, ServerTypes, StallTypes
  <1>. QED  BY <1>2, <1>3, <1>4, <1>5, <1>6, <1>7, <1>8 DEF TypeInv

\* What is owed was sent, what is revoked was granted, and every task, call and
\* state is of its kind, whatever the tasks do to one another.
THEOREM Types == Spec => []TypeOK
  <1>1. TypeInv /\ [Next]_vars => TypeInv'
    BY TypeStep
  <1>. QED  BY TypeInit, TypeInvOK, <1>1, PTL DEF Spec

-----------------------------------------------------------------------------
(* Who changes what *)

\* The steps that change a channel or its caller.
ChannelStep ==
    \/ \E c \in Channels : \/ OpenChannel(c) \/ CloseChannel(c) \/ RequestChannel(c)
                           \/ OpenStep(c) \/ ChannelOpened(c)
    \/ \E g \in Links : CloseRerequest(g)

LEMMA ChannelChanges == [Next]_vars => ChannelStep \/ UNCHANGED chanVars
  <1>1. Call => ChannelStep \/ UNCHANGED chanVars
    BY DEF Call, CallConnect, CallDisconnect, SendAuth, ChannelStep
  <1>2. UserStep => UNCHANGED chanVars
    BY DEF UserStep, DisconnectGuard, UserTeardown, Dial, Dialed, Store
  <1>3. TaskStep => ChannelStep \/ UNCHANGED chanVars
    BY DEF TaskStep, RunSetConnection, RunSetAuth, WriteAuth, TransportOpen, CloseDecide,
           CloseTeardown, CloseRedial, SetupBegin, SetupStopTimer, SetupStartTimer, AuthState,
           CheckConnected, AskRequested, AskChannel, ChannelClosed, Forward, AuthTimer, Authenticate,
           ChannelStep
  <1>4. Network => UNCHANGED chanVars
    BY DEF Network, Break, EndRead, Stall, Stick, Resume, Answer, Announce, Revoke
  <1>5. (\E c \in Channels : OpenStep(c)) => ChannelStep
    BY DEF ChannelStep
  <1>. QED  BY <1>1, <1>2, <1>3, <1>4, <1>5 DEF Next, vars

\* The steps that change the slot, a link or where connect is.
SlotStep ==
    \/ UserStep
    \/ \E u \in Urls : CallConnect(u)
    \/ CallDisconnect
    \/ \E g \in Links : \/ CloseTeardown(g) \/ CloseRedial(g) \/ Break(g)
                        \/ \E error \in BOOLEAN : EndRead(g, error)

LEMMA SlotChanges == [Next]_vars => SlotStep \/ UNCHANGED <<connector, link, user>>
  <1>1. Call => SlotStep \/ UNCHANGED <<connector, link, user>>
    BY DEF Call, SendAuth, OpenChannel, CloseChannel, RequestChannel, SlotStep, connVars
  <1>2. UserStep => SlotStep
    BY DEF SlotStep
  <1>3. TaskStep => SlotStep \/ UNCHANGED <<connector, link, user>>
    BY DEF TaskStep, RunSetConnection, RunSetAuth, WriteAuth, TransportOpen, CloseDecide,
           CloseRerequest, SetupBegin, SetupStopTimer, SetupStartTimer, AuthState, CheckConnected,
           AskRequested, AskChannel, ChannelOpened, ChannelClosed, Forward, AuthTimer, Authenticate,
           SlotStep, connVars
  <1>4. Network => SlotStep \/ UNCHANGED <<connector, link, user>>
    BY DEF Network, Stall, Stick, Resume, Answer, Announce, Revoke, SlotStep, connVars
  <1>5. ASSUME NEW c \in Channels, OpenStep(c) PROVE UNCHANGED <<connector, link, user>>
    BY <1>5 DEF OpenStep, Register, OpenCheck, SendRequest, Opened, OpenTimeout, connVars
  <1>. QED  BY <1>1, <1>2, <1>3, <1>4, <1>5 DEF Next, vars, connVars

-----------------------------------------------------------------------------
(* The slot *)

\* A connector on its way into the slot is not the one in it, and neither has
\* been stopped.
SlotInv ==
    /\ SlotNeverStopped
    /\ \A g \in Links : user = <<"Store", g>> => connector # g /\ link[g] \notin {"unused", "stopped"}

LEMMA SlotKept == ASSUME TypeInv, SlotInv, [Next]_vars PROVE SlotInv'
  <1>. USE DEF SlotInv, SlotNeverStopped, ConnTypes, TypeInv
  <1>0. CASE UNCHANGED <<connector, link, user>>
    BY <1>0
  <1>1. CASE DisconnectGuard \/ CallDisconnect
    BY <1>1 DEF DisconnectGuard, CallDisconnect
  <1>2. ASSUME NEW u \in Urls, Dial(u) \/ CallConnect(u) PROVE SlotInv'
    BY <1>2 DEF Dial, CallConnect
  <1>3. ASSUME Release, UNCHANGED user \/ \A g \in Links : user' # <<"Store", g>> PROVE SlotInv'
    BY <1>3 DEF Release, Links
  <1>4. CASE UserTeardown
    BY <1>3, <1>4 DEF UserTeardown, Teardown
  <1>5. ASSUME NEW u \in Urls, Dialed(u) PROVE SlotInv'
    <2>1. \E g \in Links : link[g] = "unused"
      BY <1>5 DEF Dialed, LinkLeft
    <2>2. CASE UNCHANGED link /\ user' = <<"Idle">>
      BY <1>5, <2>2 DEF Dialed
    <2>3. ASSUME NEW g \in Links, link[g] = "unused", user' = <<"Store", g>>,
                 link' = [link EXCEPT ![g] = "open"]
          PROVE  SlotInv'
      <3>1. connector' = connector /\ connector # g /\ link'[g] = "open"
        <4>1. connector' = connector
          BY <1>5 DEF Dialed
        <4>2. g # 0
          BY ClientAssumption DEF Links
        <4>. QED  BY <2>3, <4>1, <4>2
      <3>2. SlotNeverStopped'
        BY <2>3, <3>1
      <3>3. \A h \in Links : user' = <<"Store", h>> => h = g
        BY <2>3
      <3>. QED  BY <3>1, <3>2, <3>3
    <2>. QED  BY <1>5, <2>1, <2>2, <2>3 DEF Dialed
  <1>6. ASSUME NEW g \in Links, Store(g) PROVE SlotInv'
    BY <1>6 DEF Store
  <1>7. ASSUME NEW g \in Links, CloseTeardown(g) \/ CloseRedial(g) PROVE SlotInv'
    BY <1>3, <1>7 DEF CloseTeardown, CloseRedial, Teardown
  <1>8. ASSUME NEW g \in Links, NEW error \in BOOLEAN, Break(g) \/ EndRead(g, error) PROVE SlotInv'
    BY <1>8 DEF Break, EndRead
  <1>. QED  BY SlotChanges, <1>0, <1>1, <1>2, <1>4, <1>5, <1>6, <1>7, <1>8 DEF SlotStep, UserStep

\* No connector that stop() has closed stays in the slot: however the closes,
\* the reconnects and the application's own calls overlap, each takes what is
\* in the slot before it stops it.
THEOREM SlotHoldsLive == Spec => []SlotNeverStopped
  <1>1. Init => SlotInv
    BY DEF Init, SlotInv, SlotNeverStopped
  <1>2. TypeInv /\ SlotInv /\ [Next]_vars => TypeInv' /\ SlotInv'
    BY TypeStep, SlotKept
  <1>3. SlotInv => SlotNeverStopped
    BY DEF SlotInv
  <1>. QED  BY TypeInit, <1>1, <1>2, <1>3, PTL DEF Spec

-----------------------------------------------------------------------------
(* Channels and their callers *)

Waiting == {"Register", "CheckConnection", "CheckAuth", "Send", "Wait"}

\* A channel is in the map once its caller has registered it, never before; a
\* caller on its way to the answer has its oneshot in place.
CallerInv == \A c \in Channels :
    /\ c >= nextId => opener[c] = "None"
    /\ opener[c] \in {"None", "Register"} => chan[c] = "None"
    /\ opener[c] \in Waiting => c \in pending \cup signalled

Onward == \A c \in Channels : chan[c] # "None" => Rank[chan'[c]] >= Rank[chan[c]]

LEMMA StateForward ==
    ASSUME NEW s \in ChannelStates, NEW t \in ChannelStates
    PROVE  SetState(s, t) \in ChannelStates /\ Rank[SetState(s, t)] >= Rank[s]
  BY DEF SetState, ValidTransitions, ChannelStates, Rank

LEMMA CallerKept == ASSUME TypeInv, CallerInv, [Next]_vars PROVE CallerInv' /\ Onward
  <1>. USE DEF CallerInv, ChanTypes, TypeInv
  <1>s. \A s \in ChannelStates : Rank[s] >= Rank[s]
    BY DEF ChannelStates, Rank
  <1>n. "None" \notin ChannelStates
    BY DEF ChannelStates
  <1>0. CASE UNCHANGED chanVars
    BY <1>0, <1>s DEF chanVars, Onward
  <1>1. ASSUME NEW c \in Channels, OpenChannel(c) PROVE CallerInv' /\ Onward
    <2>1. Onward
      BY <1>1, <1>s DEF OpenChannel, Onward
    <2>2. CallerInv'
      BY <1>1 DEF OpenChannel, Goto, Waiting, Channels
    <2>. QED  BY <2>1, <2>2
  <1>2. ASSUME NEW c \in Channels, CloseChannel(c) PROVE CallerInv' /\ Onward
    BY <1>2, <1>s, <1>n, StateForward DEF CloseChannel, Onward, ChannelStates
  <1>3. ASSUME NEW c \in Channels, Register(c) PROVE CallerInv' /\ Onward
    BY <1>3, <1>s DEF Register, Goto, Waiting, Onward
  <1>4. ASSUME NEW c \in Channels, OpenCheck(c) \/ SendRequest(c) \/ OpenTimeout(c)
        PROVE  CallerInv' /\ Onward
    BY <1>4, <1>s DEF OpenCheck, SendRequest, OpenTimeout, Goto, Waiting, Onward
  <1>5. ASSUME NEW c \in Channels, Opened(c) PROVE CallerInv' /\ Onward
    <2>1. chan' = [chan EXCEPT ![c] = SetState(@, "Opened")] /\ opener[c] = "Wait"
      BY <1>5 DEF Opened
    <2>2. CallerInv'
      BY <1>5 DEF Opened, Goto, Waiting
    <2>3. Onward
      BY <2>1, <1>s, StateForward DEF Onward, ChannelStates
    <2>. QED  BY <2>2, <2>3
  <1>6. ASSUME NEW c \in Channels, ChannelOpened(c) PROVE CallerInv' /\ Onward
    <2>1. CASE chan[c] \notin ChannelStates
      BY <1>0, <1>6, <2>1 DEF ChannelOpened, chanVars
    <2>2. CASE chan[c] \in ChannelStates
      BY <1>6, <2>2, <1>s, <1>n, StateForward DEF ChannelOpened, Onward, ChannelStates
    <2>. QED  BY <2>1, <2>2
  <1>7. ASSUME NEW g \in Links, CloseRerequest(g) PROVE CallerInv' /\ Onward
    BY <1>7, <1>s, <1>n, StateForward DEF CloseRerequest, Onward, ChannelStates
  <1>8. ASSUME NEW c \in Channels, RequestChannel(c) PROVE CallerInv' /\ Onward
    BY <1>8, <1>s, <1>n, StateForward DEF RequestChannel, Onward, ChannelStates
  <1>. QED
    BY ChannelChanges, <1>0, <1>1, <1>2, <1>3, <1>4, <1>5, <1>6, <1>7, <1>8 DEF ChannelStep, OpenStep

LEMMA CallerInit == Init => CallerInv
  BY DEF Init, CallerInv, Waiting

\* The answer of the server finds the oneshot of a caller that waits, however
\* early it comes: the sender is stored before the channel can be requested.
THEOREM WakeupsKept == Spec => []NoLostWakeup
  <1>1. TypeInv /\ CallerInv /\ [Next]_vars => TypeInv' /\ CallerInv'
    BY TypeStep, CallerKept
  <1>2. CallerInv => NoLostWakeup
    BY DEF CallerInv, NoLostWakeup, Waiting
  <1>. QED  BY TypeInit, CallerInit, <1>1, <1>2, PTL DEF Spec

\* Neither a reconnect, which asks every channel to be requested again, nor a
\* late CHANNEL_OPENED takes a channel back.
THEOREM OnlyForwards == Spec => ChannelsMoveForward
  <1>1. TypeInv /\ CallerInv /\ [Next]_vars => TypeInv' /\ CallerInv' /\ [Onward]_vars
    BY TypeStep, CallerKept
  <1>. QED  BY TypeInit, CallerInit, <1>1, PTL DEF Spec, ChannelsMoveForward, Onward

-----------------------------------------------------------------------------
(* What was said, and by whom *)

LEMMA StateChanges == [Next]_vars =>
    /\ UNCHANGED connState \/ \E s \in ConnStates : RunSetConnection(s)
    /\ UNCHANGED authState \/ \E s \in AuthStates, old \in AuthStates : WriteAuth(s, old)
  <1>1. Call => UNCHANGED <<connState, authState>>
    BY DEF Call, CallConnect, CallDisconnect, SendAuth, OpenChannel, CloseChannel, RequestChannel,
           connVars, authVars
  <1>2. UserStep => UNCHANGED <<connState, authState>>
    BY DEF UserStep, DisconnectGuard, UserTeardown, Dial, Dialed, Store, authVars
  <1>3. ASSUME TaskStep
        PROVE  \/ UNCHANGED <<connState, authState>>
               \/ (\E s \in ConnStates : RunSetConnection(s)) /\ UNCHANGED authState
               \/ (\E s \in AuthStates, old \in AuthStates : WriteAuth(s, old)) /\ UNCHANGED connState
    BY <1>3 DEF TaskStep, RunSetConnection, RunSetAuth, WriteAuth, TransportOpen, CloseDecide,
           CloseTeardown, CloseRedial, CloseRerequest, SetupBegin, SetupStopTimer, SetupStartTimer,
           AuthState, CheckConnected, AskRequested, AskChannel, ChannelOpened, ChannelClosed, Forward,
           AuthTimer, Authenticate, connVars, authVars
  <1>4. Network => UNCHANGED <<connState, authState>>
    BY DEF Network, Break, EndRead, Stall, Stick, Resume, Answer, Announce, Revoke, connVars, authVars
  <1>5. ASSUME NEW c \in Channels, OpenStep(c) PROVE UNCHANGED <<connState, authState>>
    BY <1>5 DEF OpenStep, Register, OpenCheck, SendRequest, Opened, OpenTimeout, connVars, authVars
  <1>. QED  BY <1>1, <1>2, <1>3, <1>4, <1>5 DEF Next, vars, connVars, authVars

LEMMA StatesCaused ==
    ASSUME [Next]_vars
    PROVE  /\ connState' = "Connected" =>
                 connState = "Connected" \/ SetConnection("Connected") \in Spawned
           /\ authState' = "Authorized" =>
                 \/ authState = "Authorized"
                 \/ \E old : <<"WriteAuth", "Authorized", old>> \in Spawned
  <1>1. ASSUME NEW s \in ConnStates, RunSetConnection(s)
        PROVE  SetConnection(s) \in Spawned /\ connState' = s
    BY <1>1, RunLeaves DEF RunSetConnection
  <1>2. ASSUME NEW s \in AuthStates, NEW old \in AuthStates, WriteAuth(s, old)
        PROVE  <<"WriteAuth", s, old>> \in Spawned /\ authState' = s
    BY <1>2, RunLeaves DEF WriteAuth
  <1>. QED  BY <1>1, <1>2, StateChanges

\* What has been sent, granted, accepted and asked for stays so.
Grows ==
    /\ sent \subseteq sent' /\ granted \subseteq granted' /\ accepted \subseteq accepted'
    /\ requested \subseteq requested'

\* A request goes out for the caller that sends it, for a task that asks for what
\* was requested before, or for the forwarder of the application's own request.
Asked == \A g \in Links, c \in Channels : <<g, Request(c)>> \in sent' =>
    \/ <<g, Request(c)>> \in sent
    \/ opener[c] = "Send"
    \/ AskedNext(c)
    \/ <<"Forward", c>> \in Spawned

\* The steps that write a frame.
SendStep ==
    \/ Authenticate
    \/ \E g \in Links : TransportOpen(g)
    \/ \E c \in Channels : SendRequest(c) \/ Forward(c)
    \/ \E second \in BOOLEAN, todo \in SUBSET Channels, c \in Channels : AskChannel(second, todo, c)

\* Those by which the server answers or acts.
ServerStep ==
    \E g \in Links : \/ \E f \in Frames : Answer(g, f)
                     \/ Announce(g) \/ \E c \in Channels : Revoke(g, c)

LEMMA WireChanges ==
    [Next]_vars => /\ SendStep \/ UNCHANGED sent
                   /\ ServerStep \/ UNCHANGED <<granted, accepted>>
                   /\ (\E c \in Channels : RequestChannel(c)) \/ UNCHANGED requested
  <1>. USE DEF wireVars, serverVars, answerVars, chanVars
  <1>1. Call => /\ UNCHANGED <<sent, granted, accepted>>
                /\ (\E c \in Channels : RequestChannel(c)) \/ UNCHANGED requested
    BY DEF Call, CallConnect, CallDisconnect, SendAuth, OpenChannel, CloseChannel, RequestChannel
  <1>2. UserStep => UNCHANGED <<sent, granted, accepted, requested>>
    BY DEF UserStep, DisconnectGuard, UserTeardown, Dial, Dialed, Store
  <1>3. TaskStep => (SendStep \/ UNCHANGED sent) /\ UNCHANGED <<granted, accepted, requested>>
    BY DEF TaskStep, RunSetConnection, RunSetAuth, WriteAuth, TransportOpen, CloseDecide, CloseTeardown,
           CloseRedial, CloseRerequest, SetupBegin, SetupStopTimer, SetupStartTimer, AuthState,
           CheckConnected, AskRequested, AskChannel, ChannelOpened, ChannelClosed, Forward, AuthTimer,
           Authenticate, SendStep
  <1>4. Network => UNCHANGED <<sent, requested>> /\ (ServerStep \/ UNCHANGED <<granted, accepted>>)
    BY DEF Network, Break, EndRead, Stall, Stick, Resume, Answer, Announce, Revoke, ServerStep
  <1>5. ASSUME NEW c \in Channels, OpenStep(c)
        PROVE  (SendStep \/ UNCHANGED sent) /\ UNCHANGED <<granted, accepted, requested>>
    BY <1>5 DEF OpenStep, Register, OpenCheck, SendRequest, Opened, OpenTimeout, SendStep
  <1>. QED  BY <1>1, <1>2, <1>3, <1>4, <1>5 DEF Next, vars

\* What the server does to what it has granted and accepted.
LEMMA ServerGrants ==
    ServerStep => granted \subseteq granted' /\ accepted \subseteq accepted'
  <1>. USE DEF serverVars, answerVars
  <1>1. ASSUME NEW g \in Links, NEW f \in Frames, Answer(g, f)
        PROVE  granted \subseteq granted' /\ accepted \subseteq accepted'
    <2>1. CASE f = <<"SETUP">>
      BY <1>1, <2>1 DEF Answer
    <2>2. CASE f = <<"AUTH">>
      BY <1>1, <2>2 DEF Answer, Judge
    <2>3. ASSUME NEW c \in Channels, f = <<"CHANNEL_REQUEST", c>>
          PROVE  granted \subseteq granted' /\ accepted \subseteq accepted'
      BY <1>1, <2>3 DEF Answer
    <2>. QED  BY <2>1, <2>2, <2>3 DEF Frames
  <1>2. ASSUME NEW g \in Links, Announce(g) \/ \E c \in Channels : Revoke(g, c)
        PROVE  granted \subseteq granted' /\ accepted \subseteq accepted'
    BY <1>2 DEF Announce, Judge, Revoke
  <1>. QED  BY <1>1, <1>2 DEF ServerStep

LEMMA AskedBySteps == ASSUME TypeInv, [Next]_vars PROVE Grows /\ Asked
  <1>. USE DEF TypeInv
  <1>1. requested \subseteq requested'
    BY WireChanges DEF RequestChannel
  <1>2. granted \subseteq granted' /\ accepted \subseteq accepted'
    BY WireChanges, ServerGrants
  <1>3. CASE UNCHANGED sent
    BY <1>1, <1>2, <1>3 DEF Grows, Asked
  <1>4. ASSUME NEW frames, frames \subseteq Frames, Transmit(frames),
               \A c \in Channels : Request(c) \in frames =>
                   opener[c] = "Send" \/ AskedNext(c) \/ <<"Forward", c>> \in Spawned
        PROVE  Grows /\ Asked
    <2>1. sent \subseteq sent' /\ sent' \subseteq sent \cup (Links \X frames)
      BY <1>4, WireKept
    <2>. QED  BY <1>1, <1>2, <1>4, <2>1 DEF Grows, Asked
  <1>5. CASE Authenticate \/ \E g \in Links : TransportOpen(g)
    BY <1>4, <1>5, FrameSets DEF Authenticate, TransportOpen, Request
  <1>6. ASSUME NEW c \in Channels, Transmit({Request(c)}),
               opener[c] = "Send" \/ AskedNext(c) \/ <<"Forward", c>> \in Spawned
        PROVE  Grows /\ Asked
    BY <1>4, <1>6, FrameSets DEF Request
  <1>7. ASSUME NEW c \in Channels, SendRequest(c) PROVE Grows /\ Asked
    BY <1>6, <1>7 DEF SendRequest
  <1>8. ASSUME NEW c \in Channels, Forward(c) PROVE Grows /\ Asked
    BY <1>6, <1>8, RunLeaves DEF Forward
  <1>9. ASSUME NEW second \in BOOLEAN, NEW todo \in SUBSET Channels, NEW c \in Channels,
               AskChannel(second, todo, c)
        PROVE  Grows /\ Asked
    <2>1. AskedNext(c)
      BY <1>9, GoesOn DEF AskChannel, AskedNext
    <2>. QED  BY <1>6, <1>9, <2>1 DEF AskChannel
  <1>. QED  BY WireChanges, <1>3, <1>5, <1>7, <1>8, <1>9 DEF SendStep

\* The same of a channel and its caller.
Woken == \A c \in Channels :
    /\ opener'[c] = "Send" => opener[c] = "Send" \/ authState = "Authorized"
    /\ c \in signalled' => c \in signalled \/ <<"ChannelOpened", c>> \in Spawned
    /\ chan'[c] = "Opened" =>
          chan[c] = "Opened" \/ c \in signalled \/ <<"ChannelOpened", c>> \in Spawned

LEMMA WokenBySteps == ASSUME TypeInv, [Next]_vars PROVE Woken
  <1>. USE DEF TypeInv, ChanTypes
  <1>0. CASE UNCHANGED chanVars
    BY <1>0 DEF chanVars, Woken
  <1>1. ASSUME NEW c \in Channels,
               OpenChannel(c) \/ Register(c) \/ OpenCheck(c) \/ SendRequest(c) \/ OpenTimeout(c)
        PROVE  Woken
    BY <1>1 DEF OpenChannel, Register, OpenCheck, SendRequest, OpenTimeout, Goto, Woken
  <1>2. ASSUME NEW c \in Channels, CloseChannel(c) PROVE Woken
    BY <1>2 DEF CloseChannel, SetState, Woken
  <1>3. ASSUME NEW c \in Channels, Opened(c) PROVE Woken
    BY <1>3 DEF Opened, Goto, SetState, Woken
  <1>4. ASSUME NEW c \in Channels, ChannelOpened(c) PROVE Woken
    <2>1. <<"ChannelOpened", c>> \in Spawned
      BY <1>4, RunLeaves DEF ChannelOpened
    <2>. QED  BY <1>4, <2>1 DEF ChannelOpened, SetState, Woken
  <1>5. ASSUME NEW g \in Links, CloseRerequest(g) PROVE Woken
    BY <1>5 DEF CloseRerequest, SetState, Woken
  <1>6. ASSUME NEW c \in Channels, RequestChannel(c) PROVE Woken
    BY <1>6 DEF RequestChannel, SetState, Woken
  <1>. QED  BY ChannelChanges, <1>0, <1>1, <1>2, <1>3, <1>4, <1>5, <1>6 DEF ChannelStep, OpenStep

-----------------------------------------------------------------------------
(* Opened by the server *)

GrantInv == \A c \in Channels :
    /\ <<"ChannelOpened", c>> \in Spawned => c \in granted
    /\ c \in signalled => c \in granted
    /\ chan[c] = "Opened" => c \in granted

LEMMA GrantKept == ASSUME TypeInv, GrantInv, [Next]_vars PROVE GrantInv'
  BY AllCaused, AskedBySteps, WokenBySteps DEF GrantInv, Caused, Grows, Woken

\* A channel is Opened by the server's CHANNEL_OPENED alone: what a caller is
\* woken with, and what its task sets, goes back to one.
THEOREM OpenedByTheServer == Spec => []OpenedByServer
  <1>1. Init => GrantInv
    BY DEF Init, GrantInv, Spawned, EmptyBag, BagToSet, SetToBag
  <1>2. TypeInv /\ GrantInv /\ [Next]_vars => TypeInv' /\ GrantInv'
    BY TypeStep, GrantKept
  <1>3. GrantInv => OpenedByServer
    BY DEF GrantInv, OpenedByServer
  <1>. QED  BY TypeInit, <1>1, <1>2, <1>3, PTL DEF Spec

-----------------------------------------------------------------------------
(* Connected after a SETUP *)

SetupOut == \E g \in Links : <<g, <<"SETUP">> >> \in sent

SetupInv ==
    \/ SetupOut
    \/ /\ connState # "Connected"
       /\ SetConnection("Connected") \notin Spawned
       /\ \A p : <<"Setup", p>> \notin Spawned

LEMMA SetupKept == ASSUME TypeInv, SetupInv, [Next]_vars PROVE SetupInv'
  <1>1. SetupOut => SetupOut'
    BY AskedBySteps DEF SetupOut, Grows
  <1>2. (\E g \in Links : <<g, <<"SETUP">> >> \in owed) => SetupOut
    BY DEF SetupOut, TypeInv, WireTypes
  <1>. QED  BY <1>1, <1>2, AllCaused, StatesCaused DEF SetupInv, Caused

\* Connected is the answer to a SETUP, over any number of links and failures.
THEOREM ConnectedBySetup == Spec => []ConnectedAfterSetup
  <1>1. Init => SetupInv
    BY DEF Init, SetupInv, Spawned, EmptyBag, BagToSet, SetToBag
  <1>2. TypeInv /\ SetupInv /\ [Next]_vars => TypeInv' /\ SetupInv'
    BY TypeStep, SetupKept
  <1>3. SetupInv => ConnectedAfterSetup
    BY DEF SetupInv, SetupOut, ConnectedAfterSetup
  <1>. QED  BY TypeInit, <1>1, <1>2, <1>3, PTL DEF Spec

-----------------------------------------------------------------------------
(* Authorized by the server *)

AuthInv ==
    /\ accepted = {} =>
          /\ authState # "Authorized"
          /\ SetAuth("Authorized") \notin Spawned
          /\ \A old : <<"WriteAuth", "Authorized", old>> \notin Spawned
          /\ ~Judged
          /\ \A c \in Channels : opener[c] # "Send"
    /\ \A c \in Channels : <<"Forward", c>> \in Spawned => c \in requested
    /\ RequestsAuthorized

LEMMA AuthKept == ASSUME TypeInv, AuthInv, [Next]_vars PROVE AuthInv'
  <1>1. ASSUME accepted' = {}
        PROVE  /\ authState' # "Authorized"
               /\ SetAuth("Authorized") \notin Spawned'
               /\ \A old : <<"WriteAuth", "Authorized", old>> \notin Spawned'
               /\ ~Judged'
               /\ \A c \in Channels : opener'[c] # "Send"
    <2>1. accepted = {}
      BY <1>1, AskedBySteps DEF Grows
    <2>2. authState' # "Authorized"
      BY <2>1, StatesCaused DEF AuthInv
    <2>3. /\ SetAuth("Authorized") \notin Spawned'
          /\ \A old : <<"WriteAuth", "Authorized", old>> \notin Spawned'
          /\ ~Judged'
      BY <1>1, <2>1, AllCaused DEF AuthInv, Caused
    <2>4. \A c \in Channels : opener'[c] # "Send"
      BY <2>1, WokenBySteps DEF AuthInv, Woken
    <2>. QED  BY <2>2, <2>3, <2>4
  <1>2. \A c \in Channels : <<"Forward", c>> \in Spawned' => c \in requested'
    BY AllCaused, AskedBySteps DEF AuthInv, Caused, Grows
  <1>3. ASSUME NEW g \in Links, NEW c \in Channels, <<g, Request(c)>> \in sent'
        PROVE  accepted' # {} \/ c \in requested'
    <2>1. <<g, Request(c)>> \in sent => accepted # {} \/ c \in requested
      BY DEF AuthInv, RequestsAuthorized
    <2>2. opener[c] = "Send" \/ AskedNext(c) => accepted # {}
      BY DEF AuthInv, Judged
    <2>3. <<"Forward", c>> \in Spawned => c \in requested
      BY DEF AuthInv
    <2>. QED  BY <1>3, <2>1, <2>2, <2>3, AskedBySteps DEF Asked, Grows
  <1>4. RequestsAuthorized'
    BY <1>3 DEF RequestsAuthorized, Request
  <1>. QED  BY <1>1, <1>2, <1>4 DEF AuthInv, SetAuth

LEMMA NothingSpawned == Init => Spawned = {}
  BY DEF Init, Spawned, EmptyBag, BagToSet, SetToBag

LEMMA AuthInit == Init => AuthInv
  <1>. SUFFICES ASSUME Init PROVE AuthInv
    OBVIOUS
  <1>1. ~Judged
    BY NothingSpawned DEF Judged, AskedNext
  <1>. QED  BY <1>1, NothingSpawned DEF Init, AuthInv, RequestsAuthorized

LEMMA AuthStep == TypeInv /\ AuthInv /\ [Next]_vars => TypeInv' /\ AuthInv'
  BY TypeStep, AuthKept

\* Authorized goes back to an AUTHORIZED of the server's, whichever task's write
\* comes last.
THEOREM AuthorizedByTheServer == Spec => []AuthorizedByServer
  <1>1. AuthInv => AuthorizedByServer
    BY DEF AuthInv, AuthorizedByServer
  <1>. QED  BY TypeInit, AuthInit, AuthStep, <1>1, PTL DEF Spec

\* No channel is requested of a server that has not authorized the user, but by the
\* application itself: open_channel asks first, and the task that asks for the
\* channels left in Requested is the server's AUTHORIZED at work.
THEOREM NothingAskedBefore == Spec => []RequestsAuthorized
  <1>1. AuthInv => RequestsAuthorized
    BY DEF AuthInv, RequestsAuthorized
  <1>. QED  BY TypeInit, AuthInit, AuthStep, <1>1, PTL DEF Spec

-----------------------------------------------------------------------------
(* What Session promises *)

\* The channels the server has been asked for, and those the application has.
AskedFor == {c \in Channels : \E g \in Links : <<g, Request(c)>> \in sent}
Given == {c \in Channels : opener[c] = "Ok"}

\* A caller goes on once its channel is in the map; the channel is closed, or
\* asked for by the application, once the caller has it.
MapInv == \A c \in Channels :
    /\ opener[c] \notin {"None", "Register"} => chan[c] \in ChannelStates
    /\ chan[c] = "Closed" \/ c \in requested => opener[c] = "Ok"
    /\ AskedNext(c) => chan[c] \in ChannelStates

\* The server opens nothing but what it was asked for.
AskInv == MapInv /\ granted \subseteq AskedFor

\* The server opens what it was asked for.
LEMMA GrantedAsked == ASSUME TypeInv, AskInv, [Next]_vars PROVE granted' \subseteq AskedFor'
  <1>1. AskedFor \subseteq AskedFor'
    BY AskedBySteps DEF AskedFor, Grows, Request
  <1>2. ASSUME NEW g \in Links, NEW f \in Frames, Answer(g, f) PROVE granted' \subseteq AskedFor'
    <2>1. f # <<"SETUP">> /\ f # <<"AUTH">> => \E c \in Channels : f = <<"CHANNEL_REQUEST", c>>
      BY DEF Frames
    <2>2. CASE f = <<"SETUP">>
      BY <1>1, <1>2, <2>2 DEF Answer, serverVars, answerVars, AskInv
    <2>3. CASE f = <<"AUTH">>
      BY <1>1, <1>2, <2>3 DEF Answer, AskInv
    <2>4. ASSUME NEW c \in Channels, f = <<"CHANNEL_REQUEST", c>> PROVE granted' \subseteq AskedFor'
      <3>1. granted' = granted \cup {c} /\ <<g, Request(c)>> \in owed
        BY <1>2, <2>4 DEF Answer, Request
      <3>2. c \in AskedFor
        BY <3>1 DEF AskedFor, TypeInv, WireTypes
      <3>. QED  BY <1>1, <3>1, <3>2 DEF AskInv
    <2>. QED  BY <2>1, <2>2, <2>3, <2>4
  <1>3. ASSUME NEW g \in Links, Announce(g) \/ \E c \in Channels : Revoke(g, c)
        PROVE  granted' \subseteq AskedFor'
    BY <1>1, <1>3 DEF Announce, Revoke, AskInv
  <1>. QED  BY <1>1, <1>2, <1>3, WireChanges DEF AskInv, ServerStep

LEMMA StateStep == 
    ASSUME NEW s \in ChannelStates
    PROVE  /\ SetState(s, "Requested") = s
           /\ SetState(s, "Opened") = IF s = "Requested" THEN "Opened" ELSE s
           /\ SetState(s, "Closed") = "Closed"
  BY DEF SetState, ValidTransitions, ChannelStates

LEMMA NeverForgotten ==
    ASSUME TypeInv, [Next]_vars, NEW c \in Channels, chan[c] \in ChannelStates
    PROVE  chan'[c] \in ChannelStates
  <1>. USE DEF TypeInv, ChanTypes
  <1>1. \A s, t \in ChannelStates : SetState(s, t) \in ChannelStates
    BY StateForward
  <1>2. {"Requested", "Opened", "Closed"} \subseteq ChannelStates
    BY DEF ChannelStates
  <1>3. ASSUME NEW d \in Channels, \/ OpenChannel(d) \/ CloseChannel(d) \/ RequestChannel(d)
                                   \/ OpenStep(d) \/ ChannelOpened(d)
        PROVE  chan'[c] \in ChannelStates
    BY <1>1, <1>2, <1>3 DEF OpenChannel, CloseChannel, RequestChannel, OpenStep, Register, OpenCheck,
           SendRequest, Opened, OpenTimeout, ChannelOpened
  <1>4. ASSUME NEW g \in Links, CloseRerequest(g) PROVE chan'[c] \in ChannelStates
    BY <1>1, <1>2, <1>4 DEF CloseRerequest
  <1>. QED  BY ChannelChanges, <1>3, <1>4 DEF ChannelStep, chanVars

LEMMA MapKept == ASSUME TypeInv, CallerInv, MapInv, [Next]_vars PROVE MapInv'
  <1>t. /\ chan \in [Channels -> ChannelStates \cup {"None"}] /\ opener \in [Channels -> OpenerStates]
        /\ "None" \notin ChannelStates /\ ChannelStates = {"Requested", "Opened", "Closed"}
    BY DEF TypeInv, ChanTypes, ChannelStates
  <1>. DEFINE Mapped == \A c \in Channels :
                 /\ opener[c] \notin {"None", "Register"} => chan[c] \in ChannelStates
                 /\ chan[c] = "Closed" \/ c \in requested => opener[c] = "Ok"
  <1>m. Mapped
    BY DEF MapInv
  <1>0. ASSUME UNCHANGED chanVars PROVE Mapped'
    BY <1>0, <1>m DEF chanVars
  <1>1. ASSUME NEW c \in Channels, OpenChannel(c) PROVE Mapped'
    <2>1. c >= nextId
      BY <1>1 DEF OpenChannel, TypeInv, ChanTypes
    <2>2. chan[c] = "None"
      BY <2>1 DEF CallerInv
    <2>. QED  BY <1>1, <1>m, <1>t, <2>2 DEF OpenChannel, Goto
  <1>2. ASSUME NEW c \in Channels, CloseChannel(c) PROVE Mapped'
    BY <1>2, <1>m, <1>t, StateStep DEF CloseChannel
  <1>3. ASSUME NEW c \in Channels, Register(c) PROVE Mapped'
    BY <1>3, <1>m, <1>t DEF Register, Goto
  <1>4. ASSUME NEW c \in Channels, OpenCheck(c) \/ SendRequest(c) \/ OpenTimeout(c) PROVE Mapped'
    BY <1>4, <1>m, <1>t DEF OpenCheck, SendRequest, OpenTimeout, Goto
  <1>5. ASSUME NEW c \in Channels, Opened(c) PROVE Mapped'
    BY <1>5, <1>m, <1>t, StateStep DEF Opened, Goto
  <1>6. ASSUME NEW c \in Channels, ChannelOpened(c) PROVE Mapped'
    <2>1. CASE chan[c] \notin ChannelStates
      BY <1>0, <1>6, <2>1 DEF ChannelOpened, chanVars
    <2>2. CASE chan[c] \in ChannelStates
      BY <1>6, <1>m, <2>2, <1>t, StateStep DEF ChannelOpened
    <2>. QED  BY <2>1, <2>2
  <1>7. ASSUME NEW g \in Links, CloseRerequest(g) PROVE Mapped'
    BY <1>7, <1>m, <1>t, StateStep DEF CloseRerequest
  <1>8. ASSUME NEW c \in Channels, RequestChannel(c) PROVE Mapped'
    BY <1>8, <1>m, <1>t, StateStep DEF RequestChannel
  <1>9. Mapped'
    BY ChannelChanges, <1>0, <1>1, <1>2, <1>3, <1>4, <1>5, <1>6, <1>7, <1>8 DEF ChannelStep, OpenStep
  <1>10. \A c \in Channels : chan[c] \in ChannelStates => chan'[c] \in ChannelStates
    BY NeverForgotten
  <1>11. ASSUME NEW c \in Channels, AskedNext(c)' PROVE chan'[c] \in ChannelStates
    <2>1. AskedNext(c) \/ chan[c] = "Requested"
      BY <1>11, AllCaused DEF Caused
    <2>. QED  BY <1>10, <2>1 DEF MapInv, ChannelStates
  <1>. QED  BY <1>9, <1>11 DEF MapInv

LEMMA AskKept == ASSUME TypeInv, CallerInv, AskInv, [Next]_vars PROVE AskInv'
  BY MapKept, GrantedAsked DEF AskInv

-----------------------------------------------------------------------------
(* Every step is one of Session *)

Promising == Promised!Next \/ UNCHANGED Promised!vars

\* What Session sees of a client.
Seen == <<connState, authState, accepted, granted, chan, opener, requested, sent>>

LEMMA Unseen == ASSUME UNCHANGED Seen PROVE Promising
  <1>1. /\ (SetupOut' <=> SetupOut) /\ AskedFor' = AskedFor /\ Given' = Given
    BY DEF Seen, SetupOut, AskedFor, Given, Request
  <1>. QED  BY <1>1 DEF Seen, Promising, Promised!vars, Promised!linkVars, Promised!userVars,
                        Promised!channelVars, SetupOut, AskedFor, Given

LEMMA SeenChanges ==
    [Next]_vars =>
       \/ UNCHANGED Seen
       \/ \E s \in ConnStates : RunSetConnection(s)
       \/ \E s \in AuthStates, old \in AuthStates : WriteAuth(s, old)
       \/ SendStep
       \/ ChannelStep
       \/ ServerStep
  <1>. USE DEF Seen, connVars, authVars, chanVars, wireVars, serverVars, answerVars
  <1>1. Call => UNCHANGED Seen \/ ChannelStep
    BY DEF Call, CallConnect, CallDisconnect, SendAuth, ChannelStep
  <1>2. UserStep => UNCHANGED Seen
    BY DEF UserStep, DisconnectGuard, UserTeardown, Dial, Dialed, Store
  <1>3. TaskStep => \/ UNCHANGED Seen
                    \/ \E s \in ConnStates : RunSetConnection(s)
                    \/ \E s \in AuthStates, old \in AuthStates : WriteAuth(s, old)
                    \/ SendStep
                    \/ ChannelStep
    BY DEF TaskStep, RunSetAuth, CloseDecide, CloseTeardown, CloseRedial, SetupBegin, SetupStopTimer,
           SetupStartTimer, AuthState, CheckConnected, AskRequested, ChannelClosed, AuthTimer, SendStep,
           ChannelStep
  <1>4. Network => UNCHANGED Seen \/ ServerStep
    BY DEF Network, Break, EndRead, Stall, Stick, Resume, ServerStep
  <1>5. (\E c \in Channels : OpenStep(c)) => ChannelStep
    BY DEF ChannelStep
  <1>. QED  BY <1>1, <1>2, <1>3, <1>4, <1>5 DEF Next, vars

LEMMA SetterSteps ==
    ASSUME SetupInv, AuthInv,
           \/ \E s \in ConnStates : RunSetConnection(s)
           \/ \E s \in AuthStates, old \in AuthStates : WriteAuth(s, old)
    PROVE  Promising
  <1>1. ASSUME NEW s \in ConnStates, RunSetConnection(s) PROVE Promising
    <2>1. SetConnection(s) \in Spawned /\ connState' = s
          /\ UNCHANGED <<authState, accepted, granted, chan, opener, requested, sent>>
      BY <1>1, RunLeaves DEF RunSetConnection, authVars, chanVars, wireVars, serverVars, answerVars
    <2>2. UNCHANGED <<AskedFor, Given>> /\ (SetupOut' <=> SetupOut)
      BY <2>1 DEF AskedFor, Given, SetupOut, Request
    <2>3. CASE s = "Connected"
      <3>1. SetupOut
        BY <2>1, <2>3 DEF SetupInv
      <3>2. Promised!Connect
        BY <2>1, <2>2, <2>3, <3>1 DEF Promised!Connect, Promised!userVars, Promised!channelVars,
               SetupOut, AskedFor, Given
      <3>. QED  BY <3>2 DEF Promising, Promised!Next
    <2>4. CASE s # "Connected"
      <3>1. Promised!Disconnect
        BY <2>1, <2>2, <2>4 DEF Promised!Disconnect, Promised!userVars, Promised!channelVars,
               SetupOut, AskedFor, Given
      <3>. QED  BY <3>1 DEF Promising, Promised!Next
    <2>. QED  BY <2>3, <2>4
  <1>2. ASSUME NEW s \in AuthStates, NEW old \in AuthStates, WriteAuth(s, old) PROVE Promising
    <2>1. <<"WriteAuth", s, old>> \in Spawned /\ authState' = s
          /\ UNCHANGED <<connState, accepted, granted, chan, opener, requested, sent>>
      BY <1>2, RunLeaves DEF WriteAuth, connVars, chanVars, wireVars, serverVars, answerVars
    <2>2. UNCHANGED <<AskedFor, Given>> /\ (SetupOut' <=> SetupOut)
      BY <2>1 DEF AskedFor, Given, SetupOut, Request
    <2>3. CASE s = "Authorized"
      <3>1. accepted # {}
        BY <2>1, <2>3 DEF AuthInv
      <3>2. Promised!Authorize
        BY <2>1, <2>2, <2>3, <3>1 DEF Promised!Authorize, Promised!linkVars, Promised!channelVars,
               SetupOut, AskedFor, Given
      <3>. QED  BY <3>2 DEF Promising, Promised!Next
    <2>4. CASE s # "Authorized"
      <3>1. Promised!Deauthorize
        BY <2>1, <2>2, <2>4 DEF Promised!Deauthorize, Promised!linkVars, Promised!channelVars,
               SetupOut, AskedFor, Given
      <3>. QED  BY <3>1 DEF Promising, Promised!Next
    <2>. QED  BY <2>3, <2>4
  <1>. QED  BY <1>1, <1>2

LEMMA Transmitted ==
    ASSUME TypeInv, NEW frames, Transmit(frames)
    PROVE  \/ sent' = sent
           \/ \E g \in Links : \A h, f : <<h, f>> \in sent' <=> <<h, f>> \in sent \/ (h = g /\ f \in frames)
  <1>1. sent' = sent \/ \E g \in Links : sent' = sent \cup ({g} \X frames)
    BY DEF Transmit, TypeInv, ConnTypes
  <1>. QED  BY <1>1

\* What goes out of a client that has nothing to ask for.
LEMMA SentNoRequest ==
    ASSUME TypeInv, NEW frames, Transmit(frames), \A c \in Channels : Request(c) \notin frames
    PROVE  AskedFor' = AskedFor
  <1>1. \A c \in Channels, g \in Links : <<g, Request(c)>> \in sent' <=> <<g, Request(c)>> \in sent
    BY Transmitted
  <1>. QED  BY <1>1 DEF AskedFor, Request

LEMMA TransmitSteps ==
    ASSUME TypeInv, Authenticate \/ \E g \in Links : TransportOpen(g)
    PROVE  Promising
  <1>0. UNCHANGED <<connState, authState, accepted, granted, chan, opener, requested>>
    BY DEF Authenticate, TransportOpen, connVars, authVars, chanVars, serverVars, answerVars
  <1>1. CASE Authenticate
    <2>1. Transmit({<<"AUTH">>})
      BY <1>1 DEF Authenticate
    <2>2. UNCHANGED <<AskedFor, Given>>
      BY <1>0, <2>1, SentNoRequest DEF Given, Request
    <2>3. SetupOut' <=> SetupOut
      <3>1. \A g \in Links : <<g, <<"SETUP">> >> \in sent' <=> <<g, <<"SETUP">> >> \in sent
        BY <2>1, Transmitted
      <3>. QED  BY <3>1 DEF SetupOut
    <2>. QED  BY <1>0, <2>2, <2>3 DEF Promising, Promised!vars, Promised!linkVars, Promised!userVars,
                 Promised!channelVars, SetupOut, AskedFor, Given
  <1>2. ASSUME NEW g \in Links, TransportOpen(g) PROVE Promising
    <2>1. Transmit({<<"SETUP">>})
      BY <1>2 DEF TransportOpen
    <2>2. UNCHANGED <<AskedFor, Given>>
      BY <1>0, <2>1, SentNoRequest DEF Given, Request
    <2>3. CASE sent' = sent
      BY <1>0, <2>3, Unseen DEF Seen
    <2>4. CASE sent' # sent
      <3>1. \E h \in Links : <<h, <<"SETUP">> >> \in sent'
        BY <2>1, <2>4, Transmitted
      <3>2. Promised!Greet
        BY <1>0, <2>2, <3>1 DEF Promised!Greet, Promised!userVars, Promised!channelVars,
               AskedFor, Given
      <3>. QED  BY <3>2 DEF Promising, Promised!Next
    <2>. QED  BY <2>3, <2>4
  <1>. QED  BY <1>1, <1>2

\* A request is one that the server's word or the application allows.
LEMMA Asking ==
    ASSUME TypeInv, NEW c \in Channels, accepted # {} \/ c \in requested, chan[c] # "None",
           UNCHANGED <<connState, authState, accepted, granted, chan, requested, Given>>,
           Transmit({Request(c)})
    PROVE  Promising
  <1>1. SetupOut' <=> SetupOut
    <2>1. \A g \in Links : <<g, <<"SETUP">> >> \in sent' <=> <<g, <<"SETUP">> >> \in sent
      BY Transmitted DEF Request
    <2>. QED  BY <2>1 DEF SetupOut
  <1>2. CASE sent' = sent
    <2>1. AskedFor' = AskedFor
      BY <1>2 DEF AskedFor, Request
    <2>. QED  BY <1>1, <2>1 DEF Promising, Promised!vars, Promised!linkVars, Promised!userVars,
                 Promised!channelVars, SetupOut, AskedFor, Given
  <1>3. ASSUME NEW g \in Links,
               \A h, f : <<h, f>> \in sent' <=> <<h, f>> \in sent \/ (h = g /\ f \in {Request(c)})
        PROVE  Promising
    <2>1. \A d \in Channels : d \in AskedFor' <=> d \in AskedFor \/ d = c
      BY <1>3 DEF AskedFor, Request
    <2>2. AskedFor' \subseteq Channels /\ AskedFor \subseteq Channels
      BY DEF AskedFor
    <2>3. AskedFor' = AskedFor \cup {c}
      BY <2>1, <2>2
    <2>4. Promised!Ask(c)
      BY <1>1, <2>3 DEF Promised!Ask, Promised!linkVars, Promised!userVars, SetupOut, AskedFor, Given
    <2>. QED  BY <2>4 DEF Promising, Promised!Next
  <1>. QED  BY <1>2, <1>3, Transmitted

LEMMA AskSteps ==
    ASSUME TypeInv, AuthInv, AskInv,
           \/ \E second \in BOOLEAN, todo \in SUBSET Channels, c \in Channels : AskChannel(second, todo, c)
           \/ \E c \in Channels : SendRequest(c) \/ Forward(c)
    PROVE  Promising
  <1>0. "None" \notin ChannelStates
    BY DEF ChannelStates
  <1>1. UNCHANGED <<connState, authState, accepted, granted, chan, requested>>
    BY DEF AskChannel, SendRequest, Forward, connVars, authVars, chanVars, serverVars, answerVars
  <1>2. ASSUME NEW second \in BOOLEAN, NEW todo \in SUBSET Channels, NEW c \in Channels,
               AskChannel(second, todo, c)
        PROVE  Promising
    <2>1. AskedNext(c)
      BY <1>2, GoesOn DEF AskChannel, AskedNext
    <2>2. accepted # {} /\ chan[c] # "None"
      BY <1>0, <2>1 DEF AuthInv, Judged, AskInv, MapInv
    <2>. QED  BY <1>1, <1>2, <2>2, Asking DEF AskChannel, chanVars, Given
  <1>3. ASSUME NEW c \in Channels, SendRequest(c) PROVE Promising
    <2>1. accepted # {} /\ chan[c] # "None"
      BY <1>0, <1>3 DEF SendRequest, AuthInv, AskInv, MapInv
    <2>2. UNCHANGED Given
      BY <1>3 DEF SendRequest, Goto, Given, TypeInv, ChanTypes
    <2>. QED  BY <1>1, <1>3, <2>1, <2>2, Asking DEF SendRequest
  <1>4. ASSUME NEW c \in Channels, Forward(c) PROVE Promising
    <2>1. c \in requested
      BY <1>4, RunLeaves DEF Forward, AuthInv
    <2>2. chan[c] # "None"
      BY <1>0, <2>1 DEF AskInv, MapInv
    <2>. QED  BY <1>1, <1>4, <2>1, <2>2, Asking DEF Forward, chanVars, Given
  <1>. QED  BY <1>2, <1>3, <1>4

\* A step that leaves the links, the user and what was sent alone.
Within == UNCHANGED <<connState, authState, accepted, granted, requested, sent>>

LEMMA WithinSame ==
    ASSUME Within
    PROVE  AskedFor' = AskedFor /\ UNCHANGED Promised!linkVars /\ UNCHANGED Promised!userVars
  <1>1. \A g \in Links : <<g, <<"SETUP">> >> \in sent' <=> <<g, <<"SETUP">> >> \in sent
    BY DEF Within
  <1>. QED  BY <1>1 DEF Within, AskedFor, Request, Promised!linkVars, Promised!userVars

LEMMA OpenSteps ==
    ASSUME TypeInv, CallerInv, GrantInv, AskInv, NEW c \in Channels,
           \/ OpenChannel(c) \/ Register(c) \/ OpenCheck(c) \/ Opened(c) \/ OpenTimeout(c)
    PROVE  Promising
  <1>t. /\ chan \in [Channels -> ChannelStates \cup {"None"}] /\ opener \in [Channels -> OpenerStates]
        /\ "None" \notin ChannelStates /\ ChannelStates = {"Requested", "Opened", "Closed"}
    BY DEF TypeInv, ChanTypes, ChannelStates
  <1>1. Within
    BY DEF OpenChannel, Register, OpenCheck, Opened, OpenTimeout, Within, connVars, authVars,
           wireVars, serverVars, answerVars
  <1>2. AskedFor' = AskedFor /\ UNCHANGED Promised!linkVars /\ UNCHANGED Promised!userVars
    BY <1>1, WithinSame
  <1>3. ASSUME chan' = chan, Given' = Given PROVE Promising
    BY <1>1, <1>2, <1>3 DEF Promising, Promised!vars, Promised!channelVars, Within, AskedFor, Given
  <1>4. ASSUME chan[c] \in {"Requested", "Opened"}, Given' = Given \cup {c},
               \/ chan' = chan
               \/ c \in granted /\ chan[c] = "Requested" /\ chan' = [chan EXCEPT ![c] = "Opened"]
        PROVE  Promising
    <2>1. Promised!Return(c)
      BY <1>1, <1>2, <1>4 DEF Promised!Return, Promised!Becomes, Within, AskedFor, Given
    <2>. QED  BY <2>1 DEF Promising, Promised!Next
  <1>5. CASE OpenChannel(c)
    <2>1. c >= nextId
      BY <1>5 DEF OpenChannel, TypeInv, ChanTypes
    <2>2. opener[c] = "None"
      BY <2>1 DEF CallerInv
    <2>. QED  BY <1>3, <1>5, <1>t, <2>2 DEF OpenChannel, Goto, Given
  <1>6. CASE Register(c)
    <2>1. chan[c] = "None" /\ Given' = Given
      BY <1>6, <1>t DEF Register, Goto, Given, CallerInv
    <2>2. Promised!Register(c)
      BY <1>1, <1>2, <1>6, <2>1 DEF Register, Promised!Register, Promised!Becomes, Within, AskedFor, Given
    <2>. QED  BY <2>2 DEF Promising, Promised!Next
  <1>7. CASE OpenCheck(c)
    <2>1. chan' = chan /\ opener[c] \in {"CheckConnection", "CheckAuth"}
      BY <1>7 DEF OpenCheck
    <2>2. chan[c] \in {"Requested", "Opened"}
      BY <1>t, <2>1 DEF AskInv, MapInv
    <2>3. Given' = Given \/ Given' = Given \cup {c}
      BY <1>7, <1>t DEF OpenCheck, Goto, Given
    <2>. QED  BY <1>3, <1>4, <2>1, <2>2, <2>3
  <1>8. CASE Opened(c)
    <2>1. /\ chan' = [chan EXCEPT ![c] = SetState(@, "Opened")] /\ opener[c] = "Wait" /\ c \in signalled
          /\ Given' = Given \cup {c}
      BY <1>8, <1>t DEF Opened, Goto, Given
    <2>2. c \in granted /\ chan[c] \in {"Requested", "Opened"}
      BY <1>t, <2>1 DEF AskInv, MapInv, GrantInv
    <2>3. SetState(chan[c], "Opened") = "Opened"
      BY <1>t, <2>2, StateStep
    <2>. QED  BY <1>4, <1>t, <2>1, <2>2, <2>3
  <1>9. CASE OpenTimeout(c)
    BY <1>3, <1>9, <1>t DEF OpenTimeout, Goto, Given
  <1>. QED  BY <1>5, <1>6, <1>7, <1>8, <1>9

LEMMA ChanSteps ==
    ASSUME TypeInv, GrantInv, AskInv,
           \/ \E c \in Channels : CloseChannel(c) \/ ChannelOpened(c)
           \/ \E g \in Links : CloseRerequest(g)
    PROVE  Promising
  <1>t. /\ chan \in [Channels -> ChannelStates \cup {"None"}]
        /\ "None" \notin ChannelStates /\ ChannelStates = {"Requested", "Opened", "Closed"}
    BY DEF TypeInv, ChanTypes, ChannelStates
  <1>1. Within /\ opener' = opener
    BY DEF CloseChannel, ChannelOpened, CloseRerequest, Within, connVars, authVars, wireVars, serverVars,
           answerVars
  <1>2. AskedFor' = AskedFor /\ UNCHANGED Promised!linkVars /\ UNCHANGED Promised!userVars /\ Given' = Given
    BY <1>1, WithinSame DEF Given
  <1>3. ASSUME chan' = chan PROVE Promising
    BY <1>1, <1>3, Unseen DEF Seen, Within
  <1>4. ASSUME NEW c \in Channels, CloseChannel(c) PROVE Promising
    <2>1. chan[c] # "Closed" /\ chan[c] \in ChannelStates /\ c \in Given
          /\ chan' = [chan EXCEPT ![c] = SetState(@, "Closed")]
      BY <1>4 DEF CloseChannel, AskInv, MapInv, Given
    <2>2. chan' = [chan EXCEPT ![c] = "Closed"] /\ chan[c] \in {"Requested", "Opened"}
      BY <1>t, <2>1, StateStep
    <2>3. Promised!Close(c)
      BY <1>1, <1>2, <2>1, <2>2 DEF Promised!Close, Promised!Becomes, Within, AskedFor, Given
    <2>. QED  BY <2>3 DEF Promising, Promised!Next
  <1>5. ASSUME NEW c \in Channels, ChannelOpened(c) PROVE Promising
    <2>1. c \in granted
      <3>1. <<"ChannelOpened", c>> \in Spawned
        BY <1>5, RunLeaves DEF ChannelOpened
      <3>. QED  BY <3>1 DEF GrantInv
    <2>2. CASE chan[c] = "Requested"
      <3>1. chan' = [chan EXCEPT ![c] = "Opened"]
        BY <1>5, <1>t, <2>2, StateStep DEF ChannelOpened
      <3>2. Promised!Open(c)
        BY <1>1, <1>2, <2>1, <2>2, <3>1 DEF Promised!Open, Promised!Becomes, Within, AskedFor, Given
      <3>. QED  BY <3>2 DEF Promising, Promised!Next
    <2>3. CASE chan[c] # "Requested"
      <3>1. chan' = chan
        BY <1>5, <1>t, <2>3, StateStep DEF ChannelOpened
      <3>. QED  BY <1>3, <3>1
    <2>. QED  BY <2>2, <2>3
  <1>6. ASSUME NEW g \in Links, CloseRerequest(g) PROVE Promising
    <2>1. chan' = [c \in Channels |-> chan[c]]
      BY <1>6, <1>t, StateStep DEF CloseRerequest
    <2>. QED  BY <1>3, <1>t, <2>1
  <1>. QED  BY <1>4, <1>5, <1>6

\* The application asks for a channel it has.
LEMMA DemandSteps == ASSUME TypeInv, AskInv, NEW c \in Channels, RequestChannel(c) PROVE Promising
  <1>1. UNCHANGED <<connState, authState, accepted, granted, opener, sent>>
    BY DEF RequestChannel, connVars, authVars, wireVars, serverVars, answerVars
  <1>2. chan[c] \in ChannelStates /\ c \in Given
    BY DEF RequestChannel, AskInv, MapInv, Given
  <1>3. chan' = chan
    BY <1>2, StateStep DEF RequestChannel, TypeInv, ChanTypes
  <1>4. requested' = requested \cup {c}
    BY DEF RequestChannel
  <1>5. \A g \in Links : <<g, <<"SETUP">> >> \in sent' <=> <<g, <<"SETUP">> >> \in sent
    BY <1>1
  <1>6. AskedFor' = AskedFor /\ Given' = Given /\ UNCHANGED Promised!linkVars /\ UNCHANGED Promised!userVars
    BY <1>1, <1>5 DEF AskedFor, Request, Given, Promised!linkVars, Promised!userVars
  <1>7. Promised!Demand(c)
    BY <1>1, <1>2, <1>3, <1>4, <1>6 DEF Promised!Demand, AskedFor, Given
  <1>. QED  BY <1>7 DEF Promising, Promised!Next

LEMMA AnswerSteps == ASSUME TypeInv, AskInv, ServerStep PROVE Promising
  <1>1. UNCHANGED <<connState, authState, chan, opener, requested, sent>>
    BY DEF ServerStep, Answer, Announce, Revoke, connVars, authVars, chanVars, wireVars
  <1>2. /\ AskedFor' = AskedFor /\ Given' = Given /\ UNCHANGED Promised!linkVars
    <2>1. \A h \in Links : <<h, <<"SETUP">> >> \in sent' <=> <<h, <<"SETUP">> >> \in sent
      BY <1>1
    <2>. QED  BY <1>1, <2>1 DEF AskedFor, Request, Given, Promised!linkVars
  <1>3. ASSUME UNCHANGED <<granted, accepted>> PROVE Promising
    BY <1>1, <1>3, Unseen DEF Seen
  <1>4. ASSUME NEW g \in Links, Answer(g, <<"SETUP">>) PROVE Promising
    BY <1>3, <1>4 DEF Answer, serverVars, answerVars
  <1>5. ASSUME NEW g \in Links, Judge(g), UNCHANGED granted PROVE Promising
    <2>1. granted' = granted /\ (accepted' = accepted \/ accepted' # {})
      BY <1>5 DEF Judge
    <2>2. CASE accepted' # {}
      <3>1. Promised!Admit
        BY <1>1, <1>2, <2>1, <2>2 DEF Promised!Admit, Promised!channelVars, AskedFor, Given
      <3>. QED  BY <3>1 DEF Promising, Promised!Next
    <2>. QED  BY <1>3, <2>1, <2>2
  <1>6. ASSUME NEW g \in Links, NEW c \in Channels, Answer(g, <<"CHANNEL_REQUEST", c>>) PROVE Promising
    <2>1. granted' = granted \cup {c} /\ accepted' = accepted /\ <<g, Request(c)>> \in owed
      BY <1>6 DEF Answer, Request
    <2>2. c \in AskedFor
      BY <2>1 DEF AskedFor, TypeInv, WireTypes
    <2>3. Promised!Grant(c)
      BY <1>1, <1>2, <2>1, <2>2 DEF Promised!Grant, Promised!userVars, AskedFor, Given
    <2>. QED  BY <2>3 DEF Promising, Promised!Next
  <1>7. ASSUME NEW g \in Links, Answer(g, <<"AUTH">>) PROVE Promising
    BY <1>5, <1>7 DEF Answer
  <1>8. ASSUME NEW g \in Links, Announce(g) \/ \E c \in Channels : Revoke(g, c) PROVE Promising
    BY <1>3, <1>5, <1>8 DEF Announce, Revoke
  <1>9. \A f \in Frames : f = <<"SETUP">> \/ f = <<"AUTH">> \/ \E c \in Channels : f = <<"CHANNEL_REQUEST", c>>
    BY DEF Frames
  <1>. QED  BY <1>4, <1>6, <1>7, <1>8, <1>9 DEF ServerStep

SessionInv == TypeInv /\ CallerInv /\ GrantInv /\ SetupInv /\ AuthInv /\ AskInv

\* A client of any number of links, channels and failures implements Session:
\* each of its steps is one the session allows, or one the session does not see.
THEOREM KeepsItsPromises == Spec => ImplementsSession
  <1>1. Init => SessionInv
    <2>1. Init => GrantInv /\ SetupInv
      BY NothingSpawned DEF Init, GrantInv, SetupInv
    <2>2. Init => AskInv
      BY NothingSpawned DEF Init, AskInv, MapInv, AskedNext
    <2>. QED  BY <2>1, <2>2, TypeInit, CallerInit, AuthInit DEF SessionInv
  <1>2. SessionInv /\ [Next]_vars => SessionInv'
    BY TypeStep, CallerKept, GrantKept, SetupKept, AuthKept, AskKept DEF SessionInv
  <1>3. Init => Promised!Init
    BY DEF Init, Promised!Init, Request
  <1>4. SessionInv /\ [Next]_vars => [Promised!Next]_(Promised!vars)
    <2>. SUFFICES ASSUME SessionInv, [Next]_vars PROVE Promising
      BY DEF Promising
    <2>. USE DEF SessionInv
    <2>. QED  BY SeenChanges, Unseen, SetterSteps, TransmitSteps, AskSteps, OpenSteps, ChanSteps,
                 DemandSteps, AnswerSteps DEF SendStep, ChannelStep, OpenStep
  <1>. QED  BY <1>1, <1>2, <1>3, <1>4, PTL DEF Spec, ImplementsSession, Promised!Spec
=============================================================================
