-------------------------- MODULE FeedData_proofs --------------------------
(***************************************************************************)
(* Proofs about FeedData, for any event types, listeners, layouts and      *)
(* number of messages.                                                     *)
(***************************************************************************)
EXTENDS FeedData, TLAPS

\* A FEED_CONFIG for t that no task has taken up.
Announces(m, t) == m.kind = "config" /\ t \in m.types

\* A type that never was in a race: a pending FEED_CONFIG is the only pending
\* message about it and the server's last word; when there is none, that word is
\* known; and a pending FEED_DATA is written in it.
Quiet(t) ==
    /\ \A m \in tasks : Announces(m, t) =>
           m.id = layout[t] /\ \A n \in tasks : t \in About(n) => n = m
    /\ (\A m \in tasks : ~Announces(m, t)) => known[t] = layout[t]
    /\ \A m \in tasks : m.kind = "data" /\ m.type = t /\ m.as # 0 => m.as = layout[t]

Shapes ==
    /\ messages \in Nat /\ layout \in [Types -> Nat] /\ known \in [Types -> Nat]
    /\ \A m \in tasks : m.kind = "data" => m.type \in Types
    /\ \A m \in tasks : m.kind = "config" => m.id \in Nat

QuietInv == Shapes /\ \A t \in Types \ raced : Quiet(t)

-----------------------------------------------------------------------------
LEMMA QuietInit == DataInit => QuietInv
  BY DEF DataInit, QuietInv, Shapes, Quiet

\* A type that is not raced after a message about it had nothing in flight that
\* could race.
LEMMA Alone ==
    ASSUME NEW m, Spawn(m), NEW t \in About(m), t \notin raced', NEW n \in tasks,
           t \in About(n)
    PROVE  m.kind # "config" /\ n.kind # "config"
  BY DEF Spawn, Races

\* FEED_CONFIG arrives.
LEMMA ConfigArrives ==
    ASSUME QuietInv, NEW T \in SUBSET Types, FeedConfig(T)
    PROVE  QuietInv'
  <1> DEFINE m == [kind |-> "config", id |-> messages', types |-> T]
  <1>1. /\ messages' = messages + 1 /\ known' = known /\ Spawn(m)
        /\ layout' = [t \in Types |-> IF t \in T THEN messages' ELSE layout[t]]
    BY DEF FeedConfig, NextMessage
  <1>2. m.kind = "config" /\ m.types = T /\ m.id = messages' /\ About(m) = T
    BY DEF About
  <1> HIDE DEF m
  <1>3. tasks' = tasks \cup {m} /\ raced \subseteq raced'
    BY <1>1 DEF Spawn
  <1>4. Shapes'
    BY <1>1, <1>2, <1>3 DEF QuietInv, Shapes
  <1>5. ASSUME NEW t \in Types \ raced' PROVE Quiet(t)'
    <2>1. Quiet(t)
      BY <1>3 DEF QuietInv
    <2>2. CASE t \in T
      <3>1. \A n \in tasks : t \notin About(n)
        BY <1>1, <1>2, <2>2, Alone
      <3>2. \A n \in tasks : ~Announces(n, t) /\ ~(n.kind = "data" /\ n.type = t)
        BY <3>1 DEF About, Announces
      <3>3. layout'[t] = messages' /\ Announces(m, t)
        BY <1>1, <1>2, <2>2 DEF Announces
      <3>. QED
        BY <1>2, <1>3, <3>1, <3>2, <3>3 DEF Quiet, Announces, About
    <2>3. CASE t \notin T
      <3>1. layout'[t] = layout[t] /\ known'[t] = known[t] /\ ~Announces(m, t) /\ t \notin About(m)
        BY <1>1, <1>2, <2>3 DEF Announces
      <3>. QED
        BY <1>2, <1>3, <2>1, <3>1 DEF Quiet, Announces, About
    <2>. QED  BY <2>2, <2>3
  <1>. QED  BY <1>4, <1>5 DEF QuietInv

\* FEED_DATA arrives.
LEMMA DataArrives ==
    ASSUME QuietInv, NEW t0 \in Types, NEW n0, NEW compact \in BOOLEAN,
           FeedData(t0, n0, compact)
    PROVE  QuietInv'
  <1> DEFINE m == [kind |-> "data", id |-> messages', type |-> t0, count |-> n0,
                   as |-> IF compact THEN layout[t0] ELSE 0]
  <1>1. messages' = messages + 1 /\ known' = known /\ layout' = layout /\ Spawn(m)
    BY DEF FeedData, NextMessage
  <1>2. /\ m.kind = "data" /\ m.type = t0 /\ About(m) = {t0}
        /\ m.as # 0 => m.as = layout[t0]
    BY DEF About
  <1> HIDE DEF m
  <1>3. tasks' = tasks \cup {m} /\ raced \subseteq raced'
    BY <1>1 DEF Spawn
  <1>4. Shapes'
    BY <1>1, <1>2, <1>3 DEF QuietInv, Shapes
  <1>5. ASSUME NEW t \in Types \ raced' PROVE Quiet(t)'
    <2>1. Quiet(t)
      BY <1>3 DEF QuietInv
    <2>2. t = t0 => \A n \in tasks : ~Announces(n, t)
      <3>. SUFFICES ASSUME t = t0, NEW n \in tasks, Announces(n, t) PROVE FALSE
        OBVIOUS
      <3>1. t \in About(m) /\ t \in About(n) /\ n.kind = "config"
        BY <1>2 DEF About, Announces
      <3>. QED  BY <1>1, <3>1, Alone
    <2>3. ~Announces(m, t)
      BY <1>2 DEF Announces
    <2>4. (\A n \in tasks' : ~Announces(n, t)) => known'[t] = layout'[t]
      BY <1>1, <1>3, <2>1, <2>3 DEF Quiet
    <2>5. \A n \in tasks' : n.kind = "data" /\ n.type = t /\ n.as # 0 => n.as = layout'[t]
      BY <1>1, <1>2, <1>3, <2>1 DEF Quiet
    <2>6. ASSUME NEW n \in tasks', Announces(n, t)
          PROVE  n.id = layout'[t] /\ \A k \in tasks' : t \in About(k) => k = n
      <3>1. n \in tasks /\ t # t0
        BY <1>3, <2>2, <2>3, <2>6
      <3>2. t \notin About(m)
        BY <1>2, <3>1
      <3>. QED  BY <1>1, <1>3, <2>1, <2>6, <3>1, <3>2 DEF Quiet
    <2>. QED  BY <2>4, <2>5, <2>6 DEF Quiet, Announces, About
  <1>. QED  BY <1>4, <1>5 DEF QuietInv

\* A FEED_CONFIG is taken up.
LEMMA ConfigTaken ==
    ASSUME QuietInv, NEW m \in tasks, ConfigTask(m)
    PROVE  QuietInv'
  <1>1. /\ m.kind = "config" /\ tasks' = tasks \ {m} /\ raced' = raced
        /\ layout' = layout /\ messages' = messages
        /\ known' = [t \in Types |-> IF t \in m.types THEN m.id ELSE known[t]]
    BY DEF ConfigTask, Merge
  <1>2. ASSUME NEW t \in Types \ raced PROVE Quiet(t)' /\ known'[t] \in Nat
    <2>1. Quiet(t) /\ layout[t] \in Nat /\ known[t] \in Nat
      BY DEF QuietInv, Shapes
    <2>2. CASE Announces(m, t)
      <3>1. known'[t] = layout[t]
        BY <1>1, <2>1, <2>2 DEF Quiet, Announces
      <3>. QED  BY <1>1, <2>1, <3>1 DEF Quiet, Announces, About
    <2>3. CASE ~Announces(m, t)
      <3>1. known'[t] = known[t]
        BY <1>1, <2>3 DEF Announces
      <3>. QED  BY <1>1, <2>1, <2>3, <3>1 DEF Quiet, Announces, About
    <2>. QED  BY <2>2, <2>3
  <1>. QED  BY <1>1, <1>2 DEF QuietInv, Shapes

\* A task that is no FEED_CONFIG leaves or goes on with its output.
LEMMA OutKeeps ==
    ASSUME QuietInv, NEW m \in tasks, m.kind # "config", NEW New,
           \A n \in New : n.kind = "out",
           tasks' = (tasks \ {m}) \cup New,
           UNCHANGED <<messages, layout, known, raced>>
    PROVE  QuietInv'
  <1>1. \A n \in New : n.kind # "data" /\ n.kind # "config" /\ About(n) = {}
    BY DEF About
  <1>2. Shapes'
    BY <1>1 DEF QuietInv, Shapes
  <1>3. ASSUME NEW t \in Types \ raced PROVE Quiet(t)'
    <2>1. Quiet(t)
      BY DEF QuietInv
    <2>2. (\A n \in tasks' : ~Announces(n, t)) => \A n \in tasks : ~Announces(n, t)
      BY DEF Announces
    <2>. QED  BY <1>1, <2>1, <2>2 DEF Quiet, Announces
  <1>. QED  BY <1>2, <1>3 DEF QuietInv

\* Every step preserves the invariant.
LEMMA QuietStep == QuietInv /\ [DataNext]_dataVars => QuietInv'
  <1>. SUFFICES ASSUME QuietInv, [DataNext]_dataVars PROVE QuietInv'
    OBVIOUS
  <1>1. CASE Arrive
    BY <1>1, ConfigArrives, DataArrives DEF Arrive
  <1>2. ASSUME NEW m \in tasks, ConfigTask(m) PROVE QuietInv'
    BY <1>2, ConfigTaken
  <1>3. ASSUME NEW m \in tasks, DataTask(m) PROVE QuietInv'
    <2>1. PICK out : tasks' = (tasks \ {m}) \cup {Remaining(m, out)}
      BY <1>3 DEF DataTask
    <2>2. m.kind # "config" /\ UNCHANGED <<messages, layout, known, raced>>
      BY <1>3 DEF DataTask
    <2> DEFINE New == {Remaining(m, out)}
    <2>3. tasks' = (tasks \ {m}) \cup New /\ \A n \in New : n.kind = "out"
      BY <2>1 DEF Remaining
    <2> HIDE DEF New
    <2>. QED  BY <2>2, <2>3, OutKeeps
  <1>4. ASSUME NEW m \in tasks, Publish(m) PROVE QuietInv'
    <2>1. m.kind = "out" /\ UNCHANGED <<messages, layout, known, raced>>
      BY <1>4 DEF Publish
    <2>2. CASE m.out = <<>>
      <3> DEFINE New == {}
      <3>1. tasks' = (tasks \ {m}) \cup New /\ \A n \in New : n.kind = "out"
        BY <1>4, <2>2 DEF Publish
      <3> HIDE DEF New
      <3>. QED  BY <2>1, <3>1, OutKeeps
    <2>3. CASE m.out # <<>>
      <3> DEFINE New == {Remaining(m, Tail(m.out))}
      <3>1. tasks' = (tasks \ {m}) \cup New
        BY <1>4, <2>3 DEF Publish
      <3>2. \A n \in New : n.kind = "out"
        BY DEF Remaining
      <3> HIDE DEF New
      <3>. QED  BY <2>1, <3>1, <3>2, OutKeeps
    <2>. QED  BY <2>2, <2>3
  <1>5. CASE Listen \/ Hearing \/ UNCHANGED dataVars
    <2>1. UNCHANGED <<messages, layout, known, raced, tasks>>
      BY <1>5 DEF Listen, Hearing, AddDataListener, Hear, dataVars
    <2>. QED  BY <2>1 DEF QuietInv, Shapes, Quiet, Announces, About
  <1>. QED  BY <1>1, <1>2, <1>3, <1>4, <1>5 DEF DataNext, Tasks

LEMMA QuietAlways == DataSpec => []QuietInv
  BY QuietInit, QuietStep, PTL DEF DataSpec

-----------------------------------------------------------------------------
\* A FEED_DATA of a type that never was in a race is read as it was written.
LEMMA ReadExactly ==
    ASSUME QuietInv, NEW m \in tasks, DataTask(m), m.type \notin raced
    PROVE  Remaining(m, Written(m)) \in tasks'
  <1>1. m.kind = "data" /\ m.type \in Types
    BY DEF DataTask, QuietInv, Shapes
  <1>2. m.as # 0 => known[m.type] = m.as
    <2>. SUFFICES ASSUME m.as # 0 PROVE known[m.type] = m.as
      OBVIOUS
    <2>1. Quiet(m.type) /\ m.type \in About(m)
      BY <1>1 DEF QuietInv, About
    <2>2. \A n \in tasks : ~Announces(n, m.type)
      BY <1>1, <2>1 DEF Quiet, Announces
    <2>. QED  BY <1>1, <2>1, <2>2 DEF Quiet
  <1>3. m.as # 0 => CompactToFull(m) = {Written(m)}
    BY <1>2 DEF CompactToFull
  <1>. QED  BY <1>3 DEF DataTask

\* Outside a race every event is read as it was written, whatever the order the
\* tasks of other messages run in.
THEOREM ExactUnlessRaced == DataSpec => UnracedIsExact
  <1> DEFINE Exact ==
        \A m \in tasks : m.kind = "data" /\ m \notin tasks' /\ m.type \notin raced =>
            Remaining(m, Written(m)) \in tasks'
  <1>1. QuietInv /\ [DataNext]_dataVars => [Exact]_dataVars
    <2>. SUFFICES ASSUME QuietInv, DataNext,
                         NEW m \in tasks, m.kind = "data", m \notin tasks', m.type \notin raced
                  PROVE  Remaining(m, Written(m)) \in tasks'
      OBVIOUS
    <2>1. ~Arrive
      BY DEF Arrive, FeedConfig, FeedData, Spawn
    <2>2. ~Listen /\ ~Hearing
      BY DEF Listen, Hearing, AddDataListener, Hear
    <2>3. PICK n \in tasks : ConfigTask(n) \/ DataTask(n) \/ Publish(n)
      BY <2>1, <2>2 DEF DataNext, Tasks
    <2>4. m = n
      BY <2>3 DEF ConfigTask, DataTask, Publish
    <2>5. DataTask(m)
      BY <2>3, <2>4 DEF ConfigTask, Publish
    <2>. QED  BY <2>5, ReadExactly
  <1>. QED  BY <1>1, QuietAlways, PTL DEF DataSpec, UnracedIsExact

-----------------------------------------------------------------------------
(* Types, and what a listener hears *)

EventsOf == [msg : 1 .. MaxMessages, nr : Nat, as : 0 .. MaxMessages, with : 0 .. MaxMessages]

TaskTypes ==
    [kind : {"config"}, id : 1 .. MaxMessages, types : SUBSET Types]
    \cup [kind : {"data"}, id : 1 .. MaxMessages, type : Types, count : Nat, as : 0 .. MaxMessages]
    \cup [kind : {"out"}, id : 1 .. MaxMessages, out : Seq(EventsOf)]

\* No task and no event is of a message that has not come yet.
Dated ==
    /\ \A m \in tasks : m.id <= messages
    /\ \A m \in tasks : m.kind = "out" => \A i \in DOMAIN m.out : m.out[i].msg <= messages
    /\ \A i \in DOMAIN published : published[i].msg <= messages

MessageTypes ==
    /\ messages \in 0 .. MaxMessages /\ more \in 0 .. MaxMessages - messages
    /\ layout \in [Types -> 0 .. MaxMessages] /\ raced \subseteq Types

FeedTypes ==
    /\ MessageTypes
    /\ known \in [Types -> 0 .. MaxMessages]
    /\ tasks \subseteq TaskTypes /\ published \in Seq(EventsOf)
    /\ Dated

\* A listener has heard the events before its place, back to where it began.
HeardUpTo(l) ==
    /\ status[l] = "Off" => heard[l] = <<>>
    /\ Len(heard[l]) <= at[l] /\ at[l] <= Len(published)
    /\ \A k \in 1 .. Len(heard[l]) : heard[l][k] = published[at[l] - Len(heard[l]) + k]

ListenerTypes ==
    /\ status \in [Listeners -> {"Off", "On", "Ended"}]
    /\ at \in [Listeners -> Nat] /\ heard \in [Listeners -> Seq(EventsOf)]

ListenerInv == ListenerTypes /\ \A l \in Listeners : HeardUpTo(l)

DataInv == FeedTypes /\ ListenerInv

LEMMA DataInvInit == DataInit => DataInv
  BY FeedDataAssumption DEF DataInit, DataInv, FeedTypes, MessageTypes, ListenerInv, ListenerTypes, HeardUpTo, Dated

LEMMA DataInvTypes == DataInv => DataTypeOK
  <1>. SUFFICES ASSUME DataInv PROVE DataTypeOK
    OBVIOUS
  <1>1. \A m \in tasks : m.id \in 1 .. messages /\ m.kind \in {"config", "data", "out"}
    <2>. SUFFICES ASSUME NEW m \in tasks
                  PROVE  m.id \in 1 .. messages /\ m.kind \in {"config", "data", "out"}
      OBVIOUS
    <2>1. m.id \in 1 .. MaxMessages /\ m.kind \in {"config", "data", "out"}
      BY DEF DataInv, FeedTypes, TaskTypes
    <2>. QED  BY <2>1 DEF DataInv, FeedTypes, MessageTypes, Dated
  <1>2. \A i \in DOMAIN published : published[i].msg \in 1 .. messages
    <2>. SUFFICES ASSUME NEW i \in DOMAIN published PROVE published[i].msg \in 1 .. messages
      OBVIOUS
    <2>1. published[i] \in EventsOf
      BY DEF DataInv, FeedTypes
    <2>2. published[i].msg \in 1 .. MaxMessages
      BY <2>1 DEF EventsOf
    <2>. QED  BY <2>2 DEF DataInv, FeedTypes, MessageTypes, Dated
  <1>3. at \in [Listeners -> 0 .. Len(published)]
    BY DEF DataInv, FeedTypes, ListenerInv, ListenerTypes, HeardUpTo
  <1>. QED  BY <1>1, <1>2, <1>3 DEF DataInv, FeedTypes, MessageTypes, ListenerInv, ListenerTypes, DataTypeOK

LEMMA Unbroken == DataInv => NoGaps
  <1>. SUFFICES ASSUME DataInv, NEW l \in Listeners
                PROVE  \E i \in 0 .. Len(published) - Len(heard[l]) :
                          heard[l] = SubSeq(published, i + 1, i + Len(heard[l]))
    BY DEF NoGaps
  <1>. USE DEF DataInv, FeedTypes, ListenerInv, ListenerTypes, HeardUpTo
  <1> DEFINE n == Len(heard[l])
             i == at[l] - n
  <1>1. n \in Nat /\ at[l] \in Nat /\ n <= at[l] /\ at[l] <= Len(published)
    OBVIOUS
  <1>2. i \in 0 .. Len(published) - n
    BY <1>1
  <1>3. \A k \in 1 .. n : heard[l][k] = published[i + k]
    OBVIOUS
  <1>4. SubSeq(published, i + 1, i + n) = [k \in 1 .. n |-> published[i + k]]
    BY <1>1
  <1>5. heard[l] = [k \in 1 .. n |-> published[i + k]]
    BY <1>3
  <1>. QED  BY <1>2, <1>4, <1>5

\* The steps that leave the listeners alone, and what they may publish.
LEMMA ListenersStay ==
    ASSUME DataInv, UNCHANGED listenerVars,
           published' = published \/ \E e \in EventsOf : published' = Append(published, e)
    PROVE  ListenerInv'
  <1>. USE DEF DataInv, FeedTypes, ListenerInv, ListenerTypes, HeardUpTo, listenerVars
  <1>1. Len(published') >= Len(published) /\ \A i \in 1 .. Len(published) : published'[i] = published[i]
    OBVIOUS
  <1>2. ASSUME NEW l \in Listeners
        PROVE  /\ Len(heard[l]) <= at[l] /\ at[l] <= Len(published')
               /\ \A k \in 1 .. Len(heard[l]) : heard[l][k] = published'[at[l] - Len(heard[l]) + k]
    <2>1. Len(heard[l]) \in Nat /\ at[l] \in Nat /\ Len(heard[l]) <= at[l] /\ at[l] <= Len(published)
      OBVIOUS
    <2>2. \A k \in 1 .. Len(heard[l]) : at[l] - Len(heard[l]) + k \in 1 .. Len(published)
      BY <2>1
    <2>3. Len(published') \in Nat /\ Len(published) \in Nat
      OBVIOUS
    <2>. QED  BY <1>1, <2>1, <2>2, <2>3
  <1>. QED  BY <1>2

LEMMA PartTypes ==
    ASSUME NEW S, NEW q \in Seq(S), NEW part \in Parts(q)
    PROVE  part \in Seq(S) /\ \A i \in DOMAIN part : \E j \in DOMAIN q : part[i] = q[j]
  <1>0. PICK k \in 0 .. Len(q) :
          \E f \in [1 .. k -> 1 .. Len(q)] : part = [i \in DOMAIN f |-> q[f[i]]]
    BY DEF Parts
  <1>1. PICK f \in [1 .. k -> 1 .. Len(q)] : part = [i \in DOMAIN f |-> q[f[i]]]
    BY <1>0
  <1>2. part = [i \in 1 .. k |-> q[f[i]]]
    BY <1>1
  <1>3. \A i \in 1 .. k : f[i] \in DOMAIN q /\ q[f[i]] \in S
    OBVIOUS
  <1>. QED  BY <1>2, <1>3

LEMMA EventTypes ==
    ASSUME NEW m \in [kind : {"data"}, id : 1 .. MaxMessages, type : Types, count : Nat,
                      as : 0 .. MaxMessages],
           NEW n \in Nat, NEW with \in 0 .. MaxMessages
    PROVE  /\ Events(m, n, with) \in Seq(EventsOf)
           /\ \A i \in DOMAIN Events(m, n, with) : Events(m, n, with)[i].msg = m.id
  BY DEF Events, EventsOf

\* Whatever a data task reads is of its own message.
LEMMA OutTypes ==
    ASSUME FeedTypes, NEW m \in tasks, m.kind = "data",
           NEW out \in IF m.as = 0 THEN {Written(m)} ELSE CompactToFull(m)
    PROVE  out \in Seq(EventsOf) /\ \A i \in DOMAIN out : out[i].msg = m.id
  <1>1. m \in [kind : {"data"}, id : 1 .. MaxMessages, type : Types, count : Nat, as : 0 .. MaxMessages]
    BY DEF FeedTypes, TaskTypes
  <1>2. CASE out = Written(m)
    BY <1>1, <1>2, EventTypes DEF Written
  <1>3. CASE out = <<>>
    BY <1>3
  <1>4. CASE out \notin {<<>>, Written(m)}
    <2> DEFINE with == known[m.type]
               n == (m.count * Width[m.as]) \div Width[with]
    <2>1. with \in 1 .. MaxMessages /\ m.as \in 1 .. MaxMessages /\ out \in Parts(Events(m, n, with))
      BY <1>1, <1>4 DEF CompactToFull, FeedTypes
    <2>2. n \in Nat
      <3>1. Width[m.as] \in Nat /\ Width[with] \in Nat \ {0} /\ m.count \in Nat
        BY <1>1, <2>1, FeedDataAssumption
      <3>2. m.count * Width[m.as] \in Nat
        BY <3>1
      <3>. QED  BY <3>1, <3>2
    <2>3. with \in 0 .. MaxMessages
      BY <2>1
    <2> HIDE DEF n, with
    <2>4. /\ Events(m, n, with) \in Seq(EventsOf)
          /\ \A i \in DOMAIN Events(m, n, with) : Events(m, n, with)[i].msg = m.id
      BY <1>1, <2>2, <2>3, EventTypes
    <2>. QED  BY <2>1, <2>4, PartTypes
  <1>. QED  BY <1>2, <1>3, <1>4

LEMMA EventNumber == ASSUME NEW e \in EventsOf PROVE e.msg \in Nat
  BY FeedDataAssumption DEF EventsOf

\* A message arrives.
LEMMA NewMessage ==
    ASSUME DataInv, NextMessage, NEW m \in TaskTypes, m.kind # "out", m.id = messages', Spawn(m),
           layout' \in [Types -> 0 .. MaxMessages], About(m) \subseteq Types,
           UNCHANGED <<known, published, listenerVars>>
    PROVE  DataInv'
  <1>1. /\ messages' = messages + 1 /\ more' = more - 1
        /\ messages' \in 1 .. MaxMessages /\ more' \in 0 .. MaxMessages - messages'
    BY FeedDataAssumption DEF DataInv, FeedTypes, MessageTypes, NextMessage
  <1>2. raced' \subseteq Types
    BY DEF DataInv, FeedTypes, MessageTypes, Spawn, Races
  <1>3. tasks' = tasks \cup {m}
    BY DEF Spawn
  <1>4. MessageTypes'
    BY <1>1, <1>2 DEF MessageTypes
  <1>5. Dated'
    <2>1. \A n \in tasks' : n.id <= messages'
      <3>1. \A n \in tasks : n.id \in Nat /\ n.id <= messages
        BY DEF DataInv, FeedTypes, Dated, TaskTypes
      <3>. QED  BY <1>1, <1>3, <3>1 DEF DataInv, FeedTypes, MessageTypes
    <2>2. ASSUME NEW n \in tasks', n.kind = "out", NEW i \in DOMAIN n.out
          PROVE  n.out[i].msg <= messages'
      <3>1. n \in tasks
        BY <1>3, <2>2
      <3>2. n.out \in Seq(EventsOf)
        BY <2>2, <3>1 DEF DataInv, FeedTypes, TaskTypes
      <3>3. n.out[i].msg \in Nat
        BY <2>2, <3>2, EventNumber
      <3>. QED  BY <1>1, <2>2, <3>1, <3>3 DEF DataInv, FeedTypes, MessageTypes, Dated
    <2>3. ASSUME NEW i \in DOMAIN published PROVE published[i].msg <= messages'
      <3>1. published[i].msg \in Nat
        BY <2>3, EventNumber DEF DataInv, FeedTypes
      <3>. QED  BY <1>1, <3>1 DEF DataInv, FeedTypes, MessageTypes, Dated
    <2>. QED  BY <2>1, <2>2, <2>3 DEF Dated
  <1>6. FeedTypes'
    BY <1>3, <1>4, <1>5 DEF DataInv, FeedTypes
  <1>7. ListenerInv'
    BY ListenersStay
  <1>. QED  BY <1>6, <1>7 DEF DataInv

LEMMA ArriveKeeps == ASSUME DataInv, Arrive PROVE DataInv'
  <1>0. messages + 1 \in 1 .. MaxMessages /\ \A t \in Types : layout[t] \in 0 .. MaxMessages
    <2>1. more > 0
      BY DEF Arrive, FeedConfig, FeedData, NextMessage
    <2>. QED  BY <2>1, FeedDataAssumption DEF DataInv, FeedTypes, MessageTypes
  <1>1. ASSUME NEW T \in SUBSET Types, FeedConfig(T) PROVE DataInv'
    <2> DEFINE m == [kind |-> "config", id |-> messages', types |-> T]
    <2>1. NextMessage /\ Spawn(m) /\ messages' = messages + 1
      BY <1>1 DEF FeedConfig, NextMessage
    <2>2. m \in TaskTypes /\ m.kind # "out" /\ m.id = messages' /\ About(m) \subseteq Types
      BY <1>0, <2>1 DEF TaskTypes, About
    <2>3. layout' \in [Types -> 0 .. MaxMessages] /\ UNCHANGED <<known, published, listenerVars>>
      BY <1>0, <1>1, <2>1 DEF FeedConfig
    <2> HIDE DEF m
    <2>. QED  BY <2>1, <2>2, <2>3, NewMessage
  <1>2. ASSUME NEW t \in Types, NEW n \in 1 .. Batch, NEW compact \in BOOLEAN, FeedData(t, n, compact)
        PROVE  DataInv'
    <2> DEFINE m == [kind |-> "data", id |-> messages', type |-> t, count |-> n,
                     as |-> IF compact THEN layout[t] ELSE 0]
    <2>1. NextMessage /\ Spawn(m) /\ messages' = messages + 1
      BY <1>2 DEF FeedData, NextMessage
    <2>2. (IF compact THEN layout[t] ELSE 0) \in 0 .. MaxMessages /\ n \in Nat
      BY <1>0, FeedDataAssumption
    <2>3. m \in TaskTypes /\ m.kind # "out" /\ m.id = messages' /\ About(m) \subseteq Types
      BY <1>0, <2>1, <2>2 DEF TaskTypes, About
    <2>4. layout' \in [Types -> 0 .. MaxMessages] /\ UNCHANGED <<known, published, listenerVars>>
      BY <1>2 DEF FeedData, DataInv, FeedTypes, MessageTypes
    <2> HIDE DEF m
    <2>. QED  BY <2>1, <2>3, <2>4, NewMessage
  <1>. QED  BY <1>1, <1>2 DEF Arrive

LEMMA TasksKeep == ASSUME DataInv, NEW m \in tasks, ConfigTask(m) \/ DataTask(m) \/ Publish(m)
                   PROVE  DataInv'
  <1>0. FeedTypes /\ m \in TaskTypes /\ m.id \in 1 .. MaxMessages /\ m.id <= messages
    BY DEF DataInv, FeedTypes, Dated, TaskTypes
  <1>1. CASE ConfigTask(m)
    <2>1. known' \in [Types -> 0 .. MaxMessages]
      BY <1>0, <1>1 DEF ConfigTask, Merge, DataInv, FeedTypes
    <2>2. FeedTypes'
      BY <1>1, <2>1 DEF ConfigTask, DataInv, FeedTypes, MessageTypes, Dated
    <2>3. ListenerInv'
      BY <1>1, ListenersStay DEF ConfigTask
    <2>. QED  BY <2>2, <2>3 DEF DataInv
  <1>2. CASE DataTask(m)
    <2>1. PICK out \in IF m.as = 0 THEN {Written(m)} ELSE CompactToFull(m) :
             tasks' = (tasks \ {m}) \cup {Remaining(m, out)}
      BY <1>2 DEF DataTask
    <2>2. out \in Seq(EventsOf) /\ \A i \in DOMAIN out : out[i].msg = m.id
      BY <1>0, <1>2, <2>1, OutTypes DEF DataTask
    <2>3. Remaining(m, out) \in TaskTypes
      BY <1>0, <2>2 DEF Remaining, TaskTypes
    <2>4. UNCHANGED <<messages, more, layout, known, raced, published, listenerVars>>
      BY <1>2 DEF DataTask
    <2>5. Dated'
      BY <1>0, <2>1, <2>2, <2>4 DEF FeedTypes, Dated, Remaining
    <2>6. FeedTypes'
      BY <1>0, <2>1, <2>3, <2>4, <2>5 DEF FeedTypes, MessageTypes
    <2>7. ListenerInv'
      BY <2>4, ListenersStay
    <2>. QED  BY <2>6, <2>7 DEF DataInv
  <1>3. CASE Publish(m)
    <2>0. m.kind = "out" /\ m.out \in Seq(EventsOf) /\ \A i \in DOMAIN m.out : m.out[i].msg <= messages
      BY <1>0, <1>3 DEF Publish, FeedTypes, TaskTypes, Dated
    <2>1. CASE m.out = <<>>
      <3>1. tasks' = tasks \ {m} /\ UNCHANGED <<messages, more, layout, known, raced, published, listenerVars>>
        BY <1>3, <2>1 DEF Publish
      <3>2. FeedTypes'
        BY <1>0, <3>1 DEF FeedTypes, MessageTypes, Dated
      <3>3. ListenerInv'
        BY <3>1, ListenersStay
      <3>. QED  BY <3>2, <3>3 DEF DataInv
    <2>2. CASE m.out # <<>>
      <3>1. /\ published' = Append(published, Head(m.out))
            /\ tasks' = (tasks \ {m}) \cup {Remaining(m, Tail(m.out))}
            /\ UNCHANGED <<messages, more, layout, known, raced, listenerVars>>
        BY <1>3, <2>2 DEF Publish
      <3>2. /\ Head(m.out) \in EventsOf /\ Head(m.out).msg <= messages
            /\ Tail(m.out) \in Seq(EventsOf)
            /\ \A i \in DOMAIN Tail(m.out) : Tail(m.out)[i].msg <= messages
        BY <2>0, <2>2
      <3>3. Remaining(m, Tail(m.out)) \in TaskTypes
        BY <1>0, <3>2 DEF Remaining, TaskTypes
      <3>4. \A i \in DOMAIN published' : published'[i].msg <= messages
        BY <1>0, <3>1, <3>2 DEF FeedTypes, Dated
      <3>5. Dated'
        <4> DEFINE r == Remaining(m, Tail(m.out))
        <4>1. r.id = m.id /\ r.out = Tail(m.out) /\ tasks' = (tasks \ {m}) \cup {r}
          BY <3>1 DEF Remaining
        <4> HIDE DEF r
        <4>2. \A n \in tasks' : n.id <= messages'
          BY <1>0, <3>1, <4>1 DEF FeedTypes, Dated
        <4>3. \A n \in tasks' : n.kind = "out" => \A i \in DOMAIN n.out : n.out[i].msg <= messages'
          BY <1>0, <3>1, <3>2, <4>1 DEF FeedTypes, Dated
        <4>. QED  BY <3>1, <3>4, <4>2, <4>3 DEF Dated
      <3>6. FeedTypes'
        BY <1>0, <3>1, <3>2, <3>3, <3>5 DEF FeedTypes, MessageTypes
      <3>7. ListenerInv'
        BY <3>1, <3>2, ListenersStay
      <3>. QED  BY <3>6, <3>7 DEF DataInv
    <2>. QED  BY <2>1, <2>2
  <1>. QED  BY <1>1, <1>2, <1>3

LEMMA ListeningKeeps == ASSUME DataInv, Listen \/ Hearing PROVE DataInv'
  <1>0. FeedTypes'
    <2>1. UNCHANGED <<messages, more, layout, known, tasks, raced, published>>
      BY DEF Listen, Hearing, AddDataListener, Hear
    <2>. QED  BY <2>1 DEF DataInv, FeedTypes, MessageTypes, Dated
  <1>1. ListenerTypes /\ \A l \in Listeners : HeardUpTo(l)
    BY DEF DataInv, ListenerInv
  <1>2. published \in Seq(EventsOf) /\ Len(published) \in Nat
    BY DEF DataInv, FeedTypes
  \* The steps of listener l are no concern of k.
  <1>3. ASSUME NEW k \in Listeners, published' = published,
               status'[k] = status[k] /\ at'[k] = at[k] /\ heard'[k] = heard[k]
        PROVE  HeardUpTo(k)'
    BY <1>1, <1>3 DEF HeardUpTo
  <1>4. ASSUME NEW l \in Listeners, AddDataListener(l) PROVE ListenerInv'
    <2>1. /\ status' = [status EXCEPT ![l] = "On"] /\ at' = [at EXCEPT ![l] = Len(published)]
          /\ heard' = heard /\ published' = published /\ status[l] = "Off"
      BY <1>4 DEF AddDataListener
    <2>2. ListenerTypes'
      BY <1>1, <1>2, <2>1 DEF ListenerTypes
    <2>3. heard[l] = <<>> /\ Len(heard[l]) = 0
      BY <1>1, <2>1 DEF HeardUpTo
    <2>4. HeardUpTo(l)'
      BY <1>1, <1>2, <2>1, <2>3 DEF HeardUpTo, ListenerTypes
    <2>5. ASSUME NEW k \in Listeners, k # l PROVE HeardUpTo(k)'
      BY <1>1, <1>3, <2>1, <2>5 DEF ListenerTypes
    <2>. QED  BY <2>2, <2>4, <2>5 DEF ListenerInv
  <1>5. ASSUME NEW l \in Listeners, Hear(l) PROVE ListenerInv'
    <2>1. CASE Lagging(l)
      <3>1. /\ status' = [status EXCEPT ![l] = "Ended"] /\ status[l] = "On"
            /\ UNCHANGED <<at, heard, published>>
        BY <1>5, <2>1 DEF Hear, LagEnds
      <3>2. ListenerTypes'
        BY <1>1, <3>1 DEF ListenerTypes
      <3>3. HeardUpTo(l)'
        BY <1>1, <3>1 DEF HeardUpTo, ListenerTypes
      <3>4. ASSUME NEW k \in Listeners, k # l PROVE HeardUpTo(k)'
        BY <1>1, <1>3, <3>1, <3>4 DEF ListenerTypes
      <3>. QED  BY <3>2, <3>3, <3>4 DEF ListenerInv
    <2>2. CASE ~Lagging(l)
      <3>1. /\ at' = [at EXCEPT ![l] = @ + 1] /\ status[l] = "On" /\ at[l] < Len(published)
            /\ heard' = [heard EXCEPT ![l] = Append(@, published[at[l] + 1])]
            /\ UNCHANGED <<status, published>>
        BY <1>5, <2>2 DEF Hear
      <3>2. at[l] \in Nat /\ heard[l] \in Seq(EventsOf) /\ Len(heard[l]) \in Nat
        BY <1>1 DEF ListenerTypes
      <3>3. published[at[l] + 1] \in EventsOf
        BY <1>2, <3>1, <3>2
      <3>4. /\ heard'[l] = Append(heard[l], published[at[l] + 1]) /\ heard'[l] \in Seq(EventsOf)
            /\ Len(heard'[l]) = Len(heard[l]) + 1 /\ at'[l] = at[l] + 1
        BY <1>1, <3>1, <3>2, <3>3 DEF ListenerTypes
      <3>5. \A k \in 1 .. Len(heard'[l]) : heard'[l][k] = published[at'[l] - Len(heard'[l]) + k]
        <4>. SUFFICES ASSUME NEW k \in 1 .. Len(heard[l]) + 1
                      PROVE  heard'[l][k] = published[at'[l] - Len(heard'[l]) + k]
          BY <3>4
        <4>1. at'[l] - Len(heard'[l]) = at[l] - Len(heard[l])
          BY <3>2, <3>4
        <4>2. CASE k = Len(heard[l]) + 1
          <5>1. heard'[l][k] = published[at[l] + 1]
            BY <3>2, <3>3, <3>4, <4>2
          <5>2. at[l] - Len(heard[l]) + k = at[l] + 1
            BY <3>2, <4>2
          <5>. QED  BY <4>1, <5>1, <5>2
        <4>3. CASE k \in 1 .. Len(heard[l])
          <5>1. heard'[l][k] = heard[l][k]
            BY <3>2, <3>3, <3>4, <4>3
          <5>. QED  BY <1>1, <4>1, <4>3, <5>1 DEF HeardUpTo
        <4>. QED  BY <3>2, <4>2, <4>3
      <3>6. Len(heard'[l]) <= at'[l] /\ at'[l] <= Len(published) /\ status'[l] = "On"
        BY <1>1, <1>2, <3>1, <3>2, <3>4 DEF HeardUpTo, ListenerTypes
      <3>7. HeardUpTo(l)'
        BY <3>1, <3>5, <3>6 DEF HeardUpTo
      <3>8. ListenerTypes'
        BY <1>1, <3>1, <3>2, <3>4 DEF ListenerTypes
      <3>9. ASSUME NEW k \in Listeners, k # l PROVE HeardUpTo(k)'
        BY <1>1, <1>3, <3>1, <3>9 DEF ListenerTypes
      <3>. QED  BY <3>7, <3>8, <3>9 DEF ListenerInv
    <2>. QED  BY <2>1, <2>2
  <1>. QED  BY <1>0, <1>4, <1>5 DEF Listen, Hearing, DataInv

LEMMA DataInvStep == DataInv /\ [DataNext]_dataVars => DataInv'
  <1>1. DataInv /\ UNCHANGED dataVars => DataInv'
    BY DEF DataInv, FeedTypes, MessageTypes, Dated, ListenerInv, ListenerTypes, HeardUpTo, dataVars,
           listenerVars
  <1>. QED  BY <1>1, ArriveKeeps, TasksKeep, ListeningKeeps DEF DataNext, Tasks

LEMMA DataInvAlways == DataSpec => []DataInv
  BY DataInvInit, DataInvStep, PTL DEF DataSpec

\* The incoming half keeps its types, and no task or event is of a message yet
\* to come.
THEOREM DataTypes == DataSpec => []DataTypeOK
  BY DataInvAlways, DataInvTypes, PTL

\* Whatever is published while it runs, whenever it was added and however far it
\* falls behind: a listener hears what was published without a gap.
THEOREM NoGapsHeard == DataSpec => []NoGaps
  BY DataInvAlways, Unbroken, PTL
=============================================================================
