---------------------------- MODULE Feed_proofs ----------------------------
(***************************************************************************)
(* What is proved of FeedData holds in a Feed.                             *)
(***************************************************************************)
EXTENDS Feed, FeedData_proofs

\* A feed's calls, its loop and its channel do not meddle with the incoming half.
THEOREM FeedImplementsData == Spec => DataSpec
  <1>1. Init => DataInit
    BY DEF Init
  <1>2. [Next]_vars => [DataNext]_dataVars
    <2>. SUFFICES ASSUME [Next]_vars PROVE [DataNext]_dataVars
      OBVIOUS
    <2>1. CASE Calls
      BY <2>1 DEF Calls, Call, AddSubscriptions, RemoveSubscriptions, ClearSubscriptions,
                  Configure
    <2>2. CASE Handle \/ Sends
      BY <2>2 DEF Handle, Sends, CheckOpened, Accept, SendFails
    <2>3. CASE ChannelOpens \/ Close \/ Deliver \/ Vanish \/ ServerForgets \/ DropReceiver
      BY <2>3 DEF ChannelOpens, Close, Deliver, Vanish, ServerForgets, DropReceiver
    <2>4. CASE Arrive \/ Listen \/ Tasks \/ Hearing
      BY <2>4 DEF DataNext
    <2>5. CASE UNCHANGED vars
      BY <2>5 DEF vars
    <2>. QED  BY <2>1, <2>2, <2>3, <2>4, <2>5 DEF Next
  <1>. QED  BY <1>1, <1>2, PTL DEF Spec, DataSpec

\* In a feed, too, an event is read as it was written unless it was in a race.
THEOREM FeedReadsExactly == Spec => UnracedIsExact
  BY FeedImplementsData, ExactUnlessRaced

\* In a feed, too, a listener hears no gaps.
THEOREM FeedHeardWithoutGaps == Spec => []NoGaps
  BY FeedImplementsData, NoGapsHeard

-----------------------------------------------------------------------------
(* What a queue of messages makes of the server *)

SlotMessages ==
    [kind : {"setup"}, config : Configs]
    \cup [kind : {"add", "remove"}, keys : SUBSET Keys]
    \cup [kind : {"reset"}]

LEMMA OnlyOne ==
    ASSUME NEW view, NEW q \in Seq(SlotMessages), NEW s, NEW v, NEW w,
           Leaves(view, q, s, v), Leaves(view, q, s, w)
    PROVE  v = w
  <1>1. \A i, j \in DOMAIN q : i < j \/ j < i \/ i = j
    OBVIOUS
  <1>. QED  BY <1>1 DEF Leaves

LEMMA LastSays ==
    ASSUME NEW view, NEW q \in Seq(SlotMessages), NEW m \in SlotMessages, NEW s \in Touched(m)
    PROVE  Leaves(view, q \o <<m>>, s, Value(m))
  <1> DEFINE r == q \o <<m>>
             n == Len(q) + 1
  <1>1. n \in DOMAIN r /\ r[n] = m /\ \A j \in DOMAIN r : ~(j > n)
    OBVIOUS
  <1> HIDE DEF r, n
  <1>2. Leaves(view, r, s, Value(m))
    BY <1>1 DEF Leaves
  <1>. QED  BY <1>2 DEF r

LEMMA OthersSay ==
    ASSUME NEW view, NEW q \in Seq(SlotMessages), NEW m \in SlotMessages, NEW s, s \notin Touched(m),
           NEW v, Leaves(view, q, s, v)
    PROVE  Leaves(view, q \o <<m>>, s, v)
  <1> DEFINE r == q \o <<m>>
  <1>1. /\ DOMAIN r = 1 .. Len(q) + 1 /\ DOMAIN q = 1 .. Len(q) /\ Len(q) \in Nat
        /\ r[Len(q) + 1] = m /\ \A j \in 1 .. Len(q) : r[j] = q[j]
    OBVIOUS
  <1> HIDE DEF r
  <1>2. \A j \in DOMAIN r : j \in DOMAIN q \/ s \notin Touched(r[j])
    BY <1>1
  <1>3. DOMAIN q \subseteq DOMAIN r /\ \A j \in DOMAIN q : r[j] = q[j]
    BY <1>1
  <1>4. Leaves(view, r, s, v)
    BY <1>2, <1>3 DEF Leaves
  <1>. QED  BY <1>4 DEF r

\* A message that arrives changes nothing of what will be.
LEMMA FirstArrives ==
    ASSUME NEW view, NEW q \in Seq(SlotMessages), q # <<>>, NEW s \in Slots, NEW v,
           Leaves(view, q, s, v)
    PROVE  Leaves(Applied(view, Head(q)), Tail(q), s, v)
  <1> DEFINE t == Tail(q)
             m == Head(q)
  <1>1. /\ Len(q) \in Nat \ {0} /\ DOMAIN q = 1 .. Len(q) /\ DOMAIN t = 1 .. Len(q) - 1
        /\ q[1] = m /\ \A j \in 1 .. Len(q) - 1 : t[j] = q[j + 1]
    OBVIOUS
  <1>2. Applied(view, m)[s] = IF s \in Touched(m) THEN Value(m) ELSE view[s]
    BY DEF Applied
  <1> HIDE DEF t, m
  <1>3. \A j \in DOMAIN q : j = 1 \/ (j - 1 \in DOMAIN t /\ t[j - 1] = q[j])
    BY <1>1
  <1>4. \A j \in DOMAIN t : j + 1 \in DOMAIN q /\ t[j] = q[j + 1] /\ j + 1 > 1
    BY <1>1
  <1>5. CASE \A i \in DOMAIN q : s \notin Touched(q[i])
    <2>1. v = view[s]
      BY <1>5 DEF Leaves
    <2>2. s \notin Touched(m) /\ \A i \in DOMAIN t : s \notin Touched(t[i])
      BY <1>1, <1>4, <1>5
    <2>3. Leaves(Applied(view, m), t, s, v)
      BY <1>2, <2>1, <2>2 DEF Leaves
    <2>. QED  BY <2>3 DEF t, m
  <1>6. ASSUME NEW i \in DOMAIN q, s \in Touched(q[i]), v = Value(q[i]),
               \A j \in DOMAIN q : j > i => s \notin Touched(q[j])
        PROVE  Leaves(Applied(view, m), t, s, v)
    <2>1. CASE i = 1
      <3>1. \A j \in DOMAIN t : s \notin Touched(t[j])
        BY <1>4, <1>6, <2>1
      <3>. QED  BY <1>1, <1>2, <1>6, <2>1, <3>1 DEF Leaves
    <2>2. CASE i # 1
      <3>1. i - 1 \in DOMAIN t /\ t[i - 1] = q[i]
        BY <1>3, <2>2
      <3>2. \A j \in DOMAIN t : j > i - 1 => s \notin Touched(t[j])
        <4>. SUFFICES ASSUME NEW j \in DOMAIN t, j > i - 1 PROVE s \notin Touched(t[j])
          OBVIOUS
        <4>1. j + 1 > i
          BY <1>1
        <4>. QED  BY <1>4, <1>6, <4>1
      <3>. QED  BY <1>6, <3>1, <3>2 DEF Leaves
    <2>. QED  BY <2>1, <2>2
  <1>. QED  BY <1>5, <1>6 DEF Leaves, t, m

LEMMA NotDifferent ==
    ASSUME NEW q \in Seq(SlotMessages), NEW r, NEW old, NEW new,
           NEW s \in Slots, s \notin Differ(old, q, new, r), NEW v, Leaves(old, q, s, v)
    PROVE  Leaves(new, r, s, v)
  <1>1. PICK w \in Values : Leaves(old, q, s, w) /\ Leaves(new, r, s, w)
    BY DEF Differ
  <1>2. v = w
    BY <1>1, OnlyOne
  <1>. QED  BY <1>1, <1>2

-----------------------------------------------------------------------------
(* The types, for any budgets and capacities *)

Evs ==
    [kind : {"Subscribe", "Unsubscribe"}, keys : SUBSET Keys, bad : SUBSET Keys]
    \cup [kind : {"Reset"}]
    \cup [kind : {"Configure"}, config : Configs]

FlagInv ==
    /\ channel \in {"Requested", "Opened", "Closed"}
    /\ ready \in BOOLEAN /\ waiting \in BOOLEAN /\ receiver \in BOOLEAN
    /\ accept \in Configs /\ subs \subseteq Keys /\ lost \subseteq Slots

CountInv == calls \in Nat /\ \E b \in Budgets : calls <= b[1] /\ messages + more <= b[2]

QueueInv ==
    /\ events \in Seq(Evs) /\ Len(events) <= Capacity
    /\ wire \in Seq(SlotMessages) /\ Len(wire) <= WireCapacity
    /\ pc = <<>> \/ \E m \in SlotMessages : pc = <<m>>
    /\ DOMAIN server = Slots

FeedTypeInv == FlagInv /\ CountInv /\ QueueInv

LEMMA Queues == Calls => \E e \in Evs : Call(e)
  <1>1. ASSUME NEW S \in SUBSET Keys, NEW bad \in SUBSET S
        PROVE  /\ [kind |-> "Subscribe", keys |-> S, bad |-> bad] \in Evs
               /\ [kind |-> "Unsubscribe", keys |-> S, bad |-> bad] \in Evs
    BY DEF Evs
  <1>2. ASSUME NEW c \in Configs PROVE [kind |-> "Configure", config |-> c] \in Evs
    BY DEF Evs
  <1>3. [kind |-> "Reset"] \in Evs
    BY DEF Evs
  <1>. QED  BY <1>1, <1>2, <1>3 DEF Calls, AddSubscriptions, RemoveSubscriptions,
                 ClearSubscriptions, Configure

\* What the loop puts into pc is a message.
LEMMA HandleSends ==
    ASSUME FeedTypeInv, Handle
    PROVE  pc' = <<>> \/ \E m \in SlotMessages : pc' = <<m>>
  <1>1. Head(events) \in Evs
    BY DEF Handle, FeedTypeInv, QueueInv
  <1>2. subs \subseteq Keys
    BY DEF FeedTypeInv, FlagInv
  <1> DEFINE e == Head(events)
  <1> HIDE DEF e
  <1>3. e \in Evs
    BY <1>1 DEF e
  <1>4. CASE Ignore(e)
    BY <1>4 DEF Ignore, Handle
  <1>5. CASE HandleConfigure(e)
    <2>1. e.config \in Configs
      BY <1>3, <1>5 DEF Evs, HandleConfigure
    <2>. QED  BY <1>5, <2>1 DEF HandleConfigure, SlotMessages
  <1>6. CASE HandleReset(e)
    BY <1>6 DEF HandleReset, SlotMessages
  <1>7. CASE HandleSubscribe(e)
    <2>1. e.keys \subseteq Keys
      BY <1>3, <1>7 DEF Evs, HandleSubscribe
    <2>. QED  BY <1>7, <2>1 DEF HandleSubscribe, Entries, SlotMessages
  <1>8. CASE HandleUnsubscribe(e)
    BY <1>2, <1>8 DEF HandleUnsubscribe, Entries, SlotMessages
  <1>. QED  BY <1>4, <1>5, <1>6, <1>7, <1>8 DEF Handle, e

LEMMA FlagsStep == FeedTypeInv /\ [Next]_vars => FlagInv'
  <1>. SUFFICES ASSUME FeedTypeInv, [Next]_vars PROVE FlagInv'
    OBVIOUS
  <1> USE DEF FeedTypeInv, FlagInv
  <1>1. CASE Calls
    BY <1>1, Queues DEF Call, sendVars
  <1>2. CASE Handle
    <2> DEFINE e == Head(events)
    <2>1. e \in Evs
      BY <1>2 DEF Handle, QueueInv
    <2>2. UNCHANGED <<channel, ready, waiting, receiver>>
      BY <1>2 DEF Handle
    <2>3. \/ HandleSubscribe(e) \/ HandleUnsubscribe(e) \/ HandleReset(e)
          \/ HandleConfigure(e) \/ Ignore(e)
      BY <1>2 DEF Handle
    <2> HIDE DEF e
    <2>4. accept' \in Configs /\ subs' \subseteq Keys /\ lost' \subseteq Slots
      <3>1. CASE HandleSubscribe(e)
        <4>1. e.keys \subseteq Keys /\ e.bad \subseteq Keys
          BY <2>1, <3>1 DEF Evs, HandleSubscribe
        <4>. QED  BY <3>1, <4>1 DEF HandleSubscribe, Slots
      <3>2. CASE HandleUnsubscribe(e)
        BY <3>2 DEF HandleUnsubscribe, Slots
      <3>3. CASE HandleReset(e)
        BY <3>3 DEF HandleReset, ClearMap
      <3>4. CASE HandleConfigure(e)
        <4>1. e.config \in Configs
          BY <2>1, <3>4 DEF Evs, HandleConfigure
        <4>. QED  BY <3>4, <4>1 DEF HandleConfigure, Slots
      <3>5. CASE Ignore(e)
        BY <3>5 DEF Ignore
      <3>. QED  BY <2>3, <3>1, <3>2, <3>3, <3>4, <3>5
    <2>. QED  BY <2>2, <2>4
  <1>3. CASE Sends
    BY <1>3 DEF Sends, CheckOpened, Accept, SendFails, Done, Differ
  <1>4. CASE ChannelOpens \/ Close \/ Deliver
    BY <1>4 DEF ChannelOpens, Close, Deliver, sendVars
  <1>5. CASE Vanish \/ ServerForgets \/ DropReceiver
    BY <1>5 DEF Vanish, ServerForgets, DropReceiver, Differ
  <1>6. CASE UNCHANGED feedVars
    BY <1>6 DEF feedVars, sendVars
  <1>. QED  BY <1>1, <1>2, <1>3, <1>4, <1>5, <1>6 DEF Next, vars

LEMMA CountsStep == FeedTypeInv /\ DataTypeOK /\ [Next]_vars => CountInv'
  <1>. SUFFICES ASSUME FeedTypeInv, DataTypeOK, [Next]_vars PROVE CountInv'
    OBVIOUS
  <1>1. messages \in Nat /\ more \in Nat /\ Budgets \subseteq Nat \X Nat
    BY FeedAssumption, FeedDataAssumption DEF DataTypeOK
  <1>2. calls \in Nat /\ \E b \in Budgets : calls <= b[1] /\ messages + more <= b[2]
    BY DEF FeedTypeInv, CountInv
  <1>3. CASE Calls
    <2>1. calls > 0 /\ calls' = calls - 1 /\ UNCHANGED <<messages, more>>
      BY <1>3, Queues DEF Call, dataVars
    <2>. QED  BY <1>1, <1>2, <2>1 DEF CountInv
  <1>4. CASE Arrive /\ UNCHANGED feedVars
    <2>1. NextMessage /\ calls' = calls
      BY <1>4 DEF Arrive, FeedConfig, FeedData, feedVars
    <2>2. messages' + more' = messages + more
      BY <1>1, <2>1 DEF NextMessage
    <2>. QED  BY <1>2, <2>1, <2>2 DEF CountInv
  <1>5. CASE UNCHANGED <<calls, messages, more>>
    BY <1>2, <1>5 DEF CountInv
  <1>6. Handle \/ Sends => UNCHANGED <<calls, messages, more>>
    BY DEF Handle, Sends, CheckOpened, Accept, SendFails, dataVars
  <1>7. ChannelOpens \/ Close \/ Deliver \/ Vanish \/ ServerForgets \/ DropReceiver
            => UNCHANGED <<calls, messages, more>>
    BY DEF ChannelOpens, Close, Deliver, Vanish, ServerForgets, DropReceiver, dataVars
  <1>8. (Listen \/ Tasks \/ Hearing) /\ UNCHANGED feedVars => UNCHANGED <<calls, messages, more>>
    BY DEF Listen, AddDataListener, Tasks, ConfigTask, DataTask, Publish, Hearing, Hear, feedVars
  <1>9. UNCHANGED vars => UNCHANGED <<calls, messages, more>>
    BY DEF vars, dataVars, feedVars
  <1>. QED  BY <1>3, <1>4, <1>5, <1>6, <1>7, <1>8, <1>9 DEF Next

LEMMA QueuesStep == FeedTypeInv /\ [Next]_vars => QueueInv'
  <1>. SUFFICES ASSUME FeedTypeInv, [Next]_vars PROVE QueueInv'
    OBVIOUS
  <1>1. QueueInv
    BY DEF FeedTypeInv
  <1>2. CASE Calls
    <2>1. PICK e \in Evs : Call(e)
      BY <1>2, Queues
    <2>2. UNCHANGED <<wire, pc, server>> /\ events' = Append(events, e) /\ Len(events) < Capacity
      BY <2>1 DEF Call, sendVars
    <2>. QED  BY <1>1, <2>2, FeedAssumption DEF QueueInv
  <1>3. CASE Handle
    <2>1. events # <<>> /\ events' = Tail(events) /\ UNCHANGED <<wire, server>>
      BY <1>3 DEF Handle
    <2>2. events' \in Seq(Evs) /\ Len(events') <= Capacity
      BY <1>1, <2>1, FeedAssumption DEF QueueInv
    <2>. QED  BY <1>1, <1>3, <2>1, <2>2, HandleSends DEF QueueInv
  <1>4. CASE CheckOpened \/ ChannelOpens \/ Close
    BY <1>1, <1>4 DEF CheckOpened, ChannelOpens, Close, sendVars, QueueInv
  <1>5. CASE Accept
    <2>1. /\ wire' = wire \o pc /\ Len(wire) < WireCapacity /\ pc # <<>> /\ pc' = <<>>
          /\ UNCHANGED <<events, server>>
      BY <1>5 DEF Accept, Done, Sending
    <2>2. PICK m \in SlotMessages : pc = <<m>>
      BY <1>1, <2>1 DEF QueueInv
    <2>3. wire \in Seq(SlotMessages) /\ <<m>> \in Seq(SlotMessages) /\ Len(<<m>>) = 1
      BY <1>1 DEF QueueInv
    <2>4. wire' \in Seq(SlotMessages) /\ Len(wire') = Len(wire) + 1
      BY <2>1, <2>2, <2>3
    <2>5. Len(wire') <= WireCapacity
      BY <2>1, <2>3, <2>4, FeedAssumption
    <2>. QED  BY <1>1, <2>1, <2>4, <2>5 DEF QueueInv
  <1>6. CASE SendFails
    BY <1>1, <1>6 DEF SendFails, Done, QueueInv
  <1>7. CASE Deliver \/ Vanish
    <2>1. wire # <<>> /\ wire' = Tail(wire) /\ UNCHANGED <<events, pc>>
      BY <1>7 DEF Deliver, Vanish
    <2>2. DOMAIN server' = Slots
      BY <1>1, <1>7 DEF Deliver, Vanish, Applied, QueueInv
    <2>3. wire' \in Seq(SlotMessages) /\ Len(wire') <= WireCapacity
      BY <1>1, <2>1, FeedAssumption DEF QueueInv
    <2>. QED  BY <1>1, <2>1, <2>2, <2>3 DEF QueueInv
  <1>8. CASE DropReceiver
    <2>1. wire' \in Seq(SlotMessages) /\ Len(wire') <= WireCapacity
      BY <1>8, FeedAssumption DEF DropReceiver
    <2>2. UNCHANGED <<events, pc, server>>
      BY <1>8 DEF DropReceiver
    <2>. QED  BY <1>1, <2>1, <2>2 DEF QueueInv
  <1>9. CASE ServerForgets
    BY <1>1, <1>9 DEF ServerForgets, Blank, QueueInv
  <1>10. CASE UNCHANGED feedVars
    BY <1>1, <1>10 DEF feedVars, sendVars, QueueInv
  <1>. QED  BY <1>2, <1>3, <1>4, <1>5, <1>6, <1>7, <1>8, <1>9, <1>10 DEF Next, Sends, vars

LEMMA FeedTypesInit == Init => FeedTypeInv
  <1>. SUFFICES ASSUME Init PROVE FeedTypeInv
    OBVIOUS
  <1>1. FlagInv
    BY FeedAssumption DEF Init, FlagInv
  <1>2. CountInv
    BY FeedAssumption DEF Init, DataInit, CountInv
  <1>3. QueueInv
    <2>1. [kind |-> "setup", config |-> FirstConfig] \in SlotMessages
      BY FeedAssumption DEF SlotMessages
    <2>. QED  BY <2>1, FeedAssumption DEF Init, QueueInv, Blank
  <1>. QED  BY <1>1, <1>2, <1>3 DEF FeedTypeInv

LEMMA FeedDataTypes == Spec => []DataTypeOK
  BY FeedImplementsData, DataTypes

LEMMA FeedTypesAlways == Spec => []FeedTypeInv
  <1>1. FeedTypeInv /\ DataTypeOK /\ [Next]_vars => FeedTypeInv'
    BY FlagsStep, CountsStep, QueuesStep DEF FeedTypeInv
  <1>. QED  BY FeedTypesInit, FeedDataTypes, <1>1, PTL DEF Spec

\* A feed's queues, flags and counts stay what the type invariant says.
THEOREM FeedTypesHold == Spec => []TypeOK
  <1>1. FeedTypeInv /\ DataTypeOK => TypeOK
    <2>. SUFFICES ASSUME FeedTypeInv, DataTypeOK PROVE TypeOK
      OBVIOUS
    <2>1. Len(pc) <= 1
      <3>1. CASE pc = <<>>
        BY <3>1
      <3>2. ASSUME NEW m, pc = <<m>> PROVE Len(pc) <= 1
        BY <3>2
      <3>. QED  BY <3>1, <3>2 DEF FeedTypeInv, QueueInv
    <2>. QED  BY <2>1 DEF FeedTypeInv, FlagInv, CountInv, QueueInv, TypeOK
  <1>. QED  BY <1>1, FeedTypesAlways, FeedDataTypes, PTL

-----------------------------------------------------------------------------
(* Server and feed agree *)

\* Whether the channel is open or not, and with the message that is being sent
\* as if it had been.
AgreeInv == \A s \in Slots \ lost : Leaves(server, wire \o pc, s, Mine[s])

\* The message that is being sent says what the feed has.
PendingInv == \A i \in DOMAIN pc : \A s \in Slots \cap Touched(pc[i]) : Value(pc[i]) = Mine[s]

LEMMA Told ==
    ASSUME NEW view, NEW q \in Seq(SlotMessages), NEW m \in SlotMessages, NEW s, NEW v, NEW w,
           Leaves(view, q, s, v), IF s \in Touched(m) THEN w = Value(m) ELSE w = v
    PROVE  Leaves(view, q \o <<m>>, s, w)
  BY LastSays, OthersSay

LEMMA OnItsWay ==
    ASSUME FeedTypeInv
    PROVE  wire \in Seq(SlotMessages) /\ wire \o <<>> = wire /\ wire \o pc \in Seq(SlotMessages)
  <1>1. wire \in Seq(SlotMessages)
    BY DEF FeedTypeInv, QueueInv
  <1>2. CASE pc = <<>>
    BY <1>1, <1>2
  <1>3. ASSUME NEW m \in SlotMessages, pc = <<m>> PROVE wire \o pc \in Seq(SlotMessages)
    BY <1>1, <1>3
  <1>. QED  BY <1>1, <1>2, <1>3 DEF FeedTypeInv, QueueInv

\* What the loop does to a slot: the message says it, or nothing happens to the
\* slot, or the server is not told.
Says(s) ==
    \/ pc' = <<>> /\ (s \in lost' \/ Mine'[s] = Mine[s])
    \/ \E m \in SlotMessages :
          /\ pc' = <<m>>
          /\ IF s \in Touched(m) THEN Mine'[s] = Value(m) ELSE s \in lost' \/ Mine'[s] = Mine[s]

LEMMA HandleSays == ASSUME FeedTypeInv, Handle, NEW s \in Slots PROVE Says(s)
  <1> DEFINE e == Head(events)
  <1>1. \/ HandleSubscribe(e) \/ HandleUnsubscribe(e) \/ HandleReset(e)
        \/ HandleConfigure(e) \/ Ignore(e)
    BY DEF Handle
  <1>2. subs \subseteq Keys /\ e \in Evs
    BY DEF FeedTypeInv, FlagInv, QueueInv, Handle
  <1> HIDE DEF e
  <1>3. /\ s = Setup => Mine[s] = accept /\ Mine'[s] = accept'
        /\ s # Setup => Mine[s] = (s \in subs) /\ Mine'[s] = (s \in subs')
    BY DEF Mine
  <1>4. Setup \notin Keys /\ (s = Setup \/ s \in Keys)
    BY FeedAssumption DEF Slots
  <1>5. ASSUME NEW keys, NEW kind \in {"add", "remove"}, Entries(kind, keys), keys \subseteq Keys,
               s \in keys => Mine'[s] = (kind = "add"),
               s \notin keys => s \in lost' \/ Mine'[s] = Mine[s]
        PROVE  Says(s)
    <2>1. CASE keys = {}
      BY <1>5, <2>1 DEF Entries, Says
    <2>2. CASE keys # {}
      <3> DEFINE m == [kind |-> kind, keys |-> keys]
      <3>1. pc' = <<m>>
        BY <1>5, <2>2 DEF Entries
      <3>2. m \in SlotMessages
        BY <1>5 DEF SlotMessages
      <3>3. Touched(m) = keys /\ Value(m) = (kind = "add")
        BY <1>5 DEF Touched, Value
      <3>. HIDE DEF m
      <3>. QED  BY <1>5, <3>1, <3>2, <3>3 DEF Says
    <2>. QED  BY <2>1, <2>2
  <1>7. CASE HandleSubscribe(e)
    <2>1. e.keys \subseteq Keys
      BY <1>2, <1>7 DEF Evs, HandleSubscribe
    <2>2. /\ subs' = subs \cup e.keys /\ lost' = lost \cup e.bad /\ accept' = accept
          /\ Entries("add", e.keys \ e.bad)
      BY <1>7 DEF HandleSubscribe
    <2>3. s \in e.keys \ e.bad => Mine'[s] = ("add" = "add")
      BY <1>3, <1>4, <2>1, <2>2
    <2>4. s \notin e.keys \ e.bad => s \in lost' \/ Mine'[s] = Mine[s]
      BY <1>3, <2>2
    <2>. QED  BY <1>5, <2>1, <2>2, <2>3, <2>4
  <1>8. CASE HandleUnsubscribe(e)
    <2>1. /\ subs' = subs \ e.keys /\ lost' = lost \cup (e.bad \cap subs) /\ accept' = accept
          /\ Entries("remove", (e.keys \cap subs) \ e.bad)
      BY <1>8 DEF HandleUnsubscribe
    <2>2. s \in (e.keys \cap subs) \ e.bad => Mine'[s] = ("remove" = "add")
      BY <1>2, <1>3, <1>4, <2>1
    <2>3. s \notin (e.keys \cap subs) \ e.bad => s \in lost' \/ Mine'[s] = Mine[s]
      BY <1>3, <2>1
    <2>. QED  BY <1>2, <1>5, <2>1, <2>2, <2>3
  <1>9. CASE HandleReset(e)
    <2> DEFINE m == [kind |-> "reset"]
    <2>1. m \in SlotMessages /\ Touched(m) = Keys /\ Value(m) = FALSE
      BY DEF SlotMessages, Touched, Value
    <2>2. pc' = <<m>> /\ subs' = {} /\ UNCHANGED <<accept, lost>>
      BY <1>9 DEF HandleReset, ClearMap
    <2> HIDE DEF m
    <2>3. ASSUME s \in Touched(m) PROVE Mine'[s] = Value(m)
      <3>1. s # Setup /\ (s \in subs') = FALSE
        BY <1>4, <2>1, <2>2, <2>3
      <3>2. Mine'[s] = (s \in subs')
        BY <1>3, <3>1
      <3>3. Value(m) = FALSE
        BY <2>1
      <3>. QED  BY <3>1, <3>2, <3>3
    <2>4. ASSUME s \notin Touched(m) PROVE Mine'[s] = Mine[s]
      BY <1>3, <1>4, <2>1, <2>2, <2>4
    <2>. QED  BY <2>1, <2>2, <2>3, <2>4 DEF Says
  <1>10. CASE HandleConfigure(e)
    <2>1. CASE Opened
      <3> DEFINE m == [kind |-> "setup", config |-> e.config]
      <3>1. m \in SlotMessages
        BY <1>2, <1>10 DEF Evs, HandleConfigure, SlotMessages
      <3>2. Touched(m) = {Setup} /\ Value(m) = e.config
        BY DEF Touched, Value
      <3>3. pc' = <<m>> /\ accept' = e.config /\ UNCHANGED <<subs, lost>>
        BY <1>10, <2>1 DEF HandleConfigure
      <3> HIDE DEF m
      <3>4. /\ s \in Touched(m) => Mine'[s] = Value(m)
            /\ s \notin Touched(m) => Mine'[s] = Mine[s]
        BY <1>3, <3>2, <3>3
      <3>. QED  BY <3>1, <3>3, <3>4 DEF Says
    <2>2. CASE ~Opened
      <3>1. pc' = <<>> /\ lost' = lost \cup {Setup} /\ UNCHANGED subs
        BY <1>10, <2>2 DEF HandleConfigure
      <3>2. s \in lost' \/ Mine'[s] = Mine[s]
        BY <1>3, <3>1
      <3>. QED  BY <3>1, <3>2 DEF Says
    <2>. QED  BY <2>1, <2>2
  <1>11. CASE Ignore(e)
    <2>1. pc' = <<>> /\ UNCHANGED <<accept, subs, lost>>
      BY <1>11 DEF Ignore, Handle
    <2>2. Mine'[s] = Mine[s]
      BY <1>3, <2>1
    <2>. QED  BY <2>1, <2>2 DEF Says
  <1>. QED  BY <1>1, <1>7, <1>8, <1>9, <1>10, <1>11

LEMMA HandleAgrees == ASSUME FeedTypeInv, AgreeInv, Handle PROVE AgreeInv' /\ PendingInv'
  <1>1. UNCHANGED <<wire, server>> /\ pc = <<>>
    BY DEF Handle
  <1>2. wire \in Seq(SlotMessages) /\ wire \o pc = wire /\ wire \o <<>> = wire
    BY <1>1, OnItsWay
  <1>3. lost \subseteq lost'
    BY DEF Handle, HandleSubscribe, HandleUnsubscribe, HandleReset, HandleConfigure, Ignore
  <1>4. ASSUME NEW s \in Slots \ lost' PROVE Leaves(server, wire \o pc', s, Mine'[s])
    <2>1. Leaves(server, wire, s, Mine[s])
      BY <1>2, <1>3 DEF AgreeInv
    <2>2. Says(s)
      BY HandleSays
    <2>3. CASE pc' = <<>> /\ Mine'[s] = Mine[s]
      BY <1>2, <2>1, <2>3
    <2>4. ASSUME NEW m \in SlotMessages, pc' = <<m>>,
                 IF s \in Touched(m) THEN Mine'[s] = Value(m) ELSE Mine'[s] = Mine[s]
          PROVE  Leaves(server, wire \o pc', s, Mine'[s])
      BY <1>2, <2>1, <2>4, Told
    <2>. QED  BY <2>2, <2>3, <2>4 DEF Says
  <1>5. AgreeInv'
    BY <1>1, <1>4 DEF AgreeInv
  <1>6. PendingInv'
    <2>. SUFFICES ASSUME NEW i \in DOMAIN pc', NEW s \in Slots \cap Touched(pc'[i])
                  PROVE  Value(pc'[i]) = Mine'[s]
      BY DEF PendingInv
    <2>1. ASSUME NEW m, pc' = <<m>> PROVE pc'[i] = m
      BY <2>1
    <2>2. pc' # <<>>
      OBVIOUS
    <2>3. Says(s)
      BY HandleSays
    <2>. QED  BY <2>1, <2>2, <2>3 DEF Says
  <1>. QED  BY <1>5, <1>6

LEMMA SameMine == UNCHANGED <<accept, subs>> => Mine' = Mine
  BY DEF Mine

LEMMA AcceptAgrees == ASSUME FeedTypeInv, AgreeInv, PendingInv, Accept PROVE AgreeInv'
  <1>1. /\ wire' = wire \o pc /\ pc # <<>> /\ pc' = <<>> /\ lost' = lost \ Touched(pc[1])
        /\ server' = server /\ UNCHANGED <<accept, subs>>
    BY DEF Accept, Done, Sending
  <1>2. PICK m \in SlotMessages : pc = <<m>>
    BY <1>1 DEF FeedTypeInv, QueueInv
  <1>3. 1 \in DOMAIN pc /\ pc[1] = m
    BY <1>2
  <1>4. wire \in Seq(SlotMessages) /\ wire' \in Seq(SlotMessages)
    BY <1>1, OnItsWay
  <1>5. wire' \o pc' = wire \o pc
    BY <1>1, <1>4
  <1>6. ASSUME NEW s \in Slots \ lost' PROVE Leaves(server, wire \o pc, s, Mine[s])
    <2>1. CASE s \notin lost
      BY <2>1 DEF AgreeInv
    <2>2. CASE s \in Touched(m)
      <3>1. Value(m) = Mine[s]
        BY <1>3, <2>2 DEF PendingInv
      <3>. QED  BY <1>2, <1>4, <2>2, <3>1, LastSays
    <2>. QED  BY <1>1, <1>3, <2>1, <2>2
  <1>. QED  BY <1>1, <1>5, <1>6, SameMine DEF AgreeInv

LEMMA DeliverAgrees == ASSUME FeedTypeInv, AgreeInv, Deliver PROVE AgreeInv'
  <1> DEFINE q == wire \o pc
             r == wire' \o pc'
  <1>1. /\ wire # <<>> /\ wire' = Tail(wire) /\ server' = Applied(server, Head(wire))
        /\ UNCHANGED <<accept, subs, lost, pc>>
    BY DEF Deliver
  <1>2. wire \in Seq(SlotMessages) /\ q \in Seq(SlotMessages) /\ wire \o <<>> = wire
    BY OnItsWay
  <1>3. q # <<>> /\ Head(q) = Head(wire) /\ Tail(q) = Tail(wire) \o pc
    <2>1. CASE pc = <<>>
      BY <1>1, <1>2, <2>1
    <2>2. ASSUME NEW m \in SlotMessages, pc = <<m>>
          PROVE  q # <<>> /\ Head(q) = Head(wire) /\ Tail(q) = Tail(wire) \o pc
      BY <1>1, <1>2, <2>2
    <2>. QED  BY <2>1, <2>2 DEF FeedTypeInv, QueueInv
  <1> HIDE DEF q
  <1>4. ASSUME NEW s \in Slots \ lost PROVE Leaves(server', r, s, Mine[s])
    <2>1. Leaves(server, q, s, Mine[s])
      BY DEF AgreeInv, q
    <2>2. Leaves(Applied(server, Head(q)), Tail(q), s, Mine[s])
      BY <1>2, <1>3, <2>1, FirstArrives
    <2>. QED  BY <1>1, <1>3, <2>2
  <1>. QED  BY <1>1, <1>4, SameMine DEF AgreeInv

\* What is lost may differ, and what is not is as it was.
LEMMA LossAgrees ==
    ASSUME FeedTypeInv, AgreeInv, SendFails \/ Vanish \/ ServerForgets \/ DropReceiver
    PROVE  AgreeInv'
  <1>1. wire \in Seq(SlotMessages) /\ wire \o <<>> = wire /\ wire \o pc \in Seq(SlotMessages)
    BY OnItsWay
  <1>2. <<>> \o pc = pc
    BY DEF FeedTypeInv, QueueInv
  <1>3. /\ UNCHANGED <<accept, subs>>
        /\ lost' = lost \cup Differ(server, wire \o pc, server', wire' \o pc')
    BY <1>1, <1>2 DEF SendFails, Vanish, ServerForgets, DropReceiver, Done
  <1>4. ASSUME NEW s \in Slots \ lost' PROVE Leaves(server', wire' \o pc', s, Mine[s])
    BY <1>1, <1>3, NotDifferent DEF AgreeInv
  <1>. QED  BY <1>3, <1>4, SameMine DEF AgreeInv

LEMMA PendingStays ==
    ASSUME FeedTypeInv, PendingInv, [Next]_vars, ~Handle
    PROVE  PendingInv'
  <1>1. (pc' = pc \/ pc' = <<>>) /\ UNCHANGED <<accept, subs>>
    <2>1. CASE Calls
      BY <2>1, Queues DEF Call, sendVars
    <2>2. CASE Sends
      BY <2>2 DEF Sends, CheckOpened, Accept, SendFails, Done
    <2>3. CASE ChannelOpens \/ Close \/ Deliver \/ Vanish \/ ServerForgets \/ DropReceiver
      BY <2>3 DEF ChannelOpens, Close, Deliver, Vanish, ServerForgets, DropReceiver, sendVars
    <2>4. CASE UNCHANGED feedVars
      BY <2>4 DEF feedVars, sendVars
    <2>. QED  BY <2>1, <2>2, <2>3, <2>4 DEF Next, vars
  <1>2. Mine' = Mine
    BY <1>1, SameMine
  <1>3. CASE pc' = pc
    BY <1>2, <1>3 DEF PendingInv
  <1>4. CASE pc' = <<>>
    BY <1>4 DEF PendingInv
  <1>. QED  BY <1>1, <1>3, <1>4

LEMMA AgreeStep ==
    FeedTypeInv /\ AgreeInv /\ PendingInv /\ [Next]_vars => AgreeInv' /\ PendingInv'
  <1>. SUFFICES ASSUME FeedTypeInv, AgreeInv, PendingInv, [Next]_vars
                PROVE  AgreeInv' /\ PendingInv'
    OBVIOUS
  <1>1. CASE Handle
    BY <1>1, HandleAgrees
  <1>2. ASSUME ~Handle PROVE AgreeInv'
    <2>1. CASE UNCHANGED <<accept, subs, lost, wire, pc, server>>
      BY <2>1, SameMine DEF AgreeInv
    <2>2. Calls \/ CheckOpened \/ ChannelOpens \/ Close
              => UNCHANGED <<accept, subs, lost, wire, pc, server>>
      BY Queues DEF Call, CheckOpened, ChannelOpens, Close, sendVars
    <2>3. UNCHANGED feedVars => UNCHANGED <<accept, subs, lost, wire, pc, server>>
      BY DEF feedVars, sendVars
    <2>. QED  BY <1>2, <2>1, <2>2, <2>3, AcceptAgrees, DeliverAgrees, LossAgrees
              DEF Next, Sends, vars
  <1>. QED  BY <1>1, <1>2, PendingStays

LEMMA AgreeInit == Init => AgreeInv /\ PendingInv
  <1>. SUFFICES ASSUME Init PROVE AgreeInv /\ PendingInv
    OBVIOUS
  <1> DEFINE m == [kind |-> "setup", config |-> FirstConfig]
  <1>1. m \in SlotMessages /\ Touched(m) = {Setup} /\ Value(m) = FirstConfig
    BY FeedAssumption DEF SlotMessages, Touched, Value
  <1>2. pc = <<m>> /\ wire = <<>> /\ subs = {} /\ accept = FirstConfig /\ lost = {}
        /\ server = [s \in Slots |-> IF s = Setup THEN NoConfig ELSE FALSE]
    BY DEF Init, Blank
  <1> HIDE DEF m
  <1>3. ASSUME NEW s \in Slots PROVE Leaves(server, wire \o pc, s, Mine[s])
    <2>1. <<>> \in Seq(SlotMessages) /\ \A i \in DOMAIN (<<>>) : s \notin Touched((<<>>)[i])
      OBVIOUS
    <2>2. CASE s = Setup
      <3>1. Mine[s] = Value(m)
        BY <1>1, <1>2, <2>2 DEF Mine
      <3>. QED  BY <1>1, <1>2, <2>1, <2>2, <3>1, LastSays
    <2>3. CASE s # Setup
      <3>1. server[s] = FALSE /\ Mine[s] = FALSE
        <4>1. Mine[s] = (s \in subs)
          BY <2>3 DEF Mine
        <4>2. (s \in subs) = FALSE
          BY <1>2
        <4>3. server[s] = FALSE
          BY <1>2, <2>3
        <4>. QED  BY <4>1, <4>2, <4>3
      <3>2. Leaves(server, <<>>, s, FALSE)
        BY <2>1, <3>1 DEF Leaves
      <3>. QED  BY <1>1, <1>2, <2>1, <2>3, <3>1, <3>2, OthersSay
    <2>. QED  BY <2>2, <2>3
  <1>4. PendingInv
    <2>1. ASSUME NEW i \in DOMAIN pc PROVE pc[i] = m
      BY <1>2
    <2>2. Mine[Setup] = FirstConfig
      BY <1>2 DEF Mine, Slots
    <2>. QED  BY <1>1, <2>1, <2>2 DEF PendingInv
  <1>. QED  BY <1>2, <1>3, <1>4 DEF AgreeInv

\* While the channel is open, server and feed agree on every subscription and on
\* the accepted configuration, once what is on its way has arrived, but for the
\* slots whose last message was lost or that the server forgot; for any keys,
\* configurations and capacities.
THEOREM ServerAgreesAlways == Spec => []ServerAgrees
  <1>1. AgreeInv => ServerAgrees
    BY DEF AgreeInv, ServerAgrees
  <1>. QED  BY AgreeInit, FeedTypesAlways, AgreeStep, <1>1, PTL DEF Spec

=============================================================================
