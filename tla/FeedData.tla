------------------------------ MODULE FeedData ------------------------------
(***************************************************************************)
(* The incoming half of a Feed (src/src/feed/feed.rs): the channel's       *)
(* message listener spawns a task for every FEED_CONFIG and FEED_DATA; the *)
(* tasks meet at the lock of `config` and run in any order, and publish    *)
(* events on a broadcast channel that data listeners read.                 *)
(*                                                                         *)
(* A task here stands for a message from the server's writing on: for its  *)
(* way through the socket, for the task in which the client processes it   *)
(* (client.rs) and for the one the listener spawns, of which the first     *)
(* already may be overtaken.  A message is in flight from the moment the   *)
(* server wrote it.                                                        *)
(*                                                                         *)
(* The fields of an event type are a layout, named by the message that     *)
(* announced it; of a layout only the number of its fields is kept.  An    *)
(* event remembers the layout it was written with and the one it was read  *)
(* with (0: FULL format, or not known).  The aggregation period and the    *)
(* data format of FEED_CONFIG are stored and never used, and are left out. *)
(***************************************************************************)
EXTENDS Naturals, Sequences, FiniteSets

CONSTANTS Types,       \* event types
          Width,       \* the number of fields of each layout
          Listeners,   \* data listeners
          Room,        \* events the broadcast channel keeps
          Batch,       \* bound: events in one FEED_DATA
          MaxMessages  \* bound: messages from the server

ASSUME FeedDataAssumption ==
    /\ MaxMessages \in Nat /\ Batch \in Nat \ {0} /\ Room \in Nat \ {0}
    /\ Width \in [1 .. MaxMessages -> Nat \ {0}]

VARIABLES messages,    \* messages so far; each is named by its number
          more,        \* bound: messages that may still come
          layout,      \* the layout the server writes each type in, 0 before the first
          known,       \* config.event_fields: the layout each type is read with
          tasks,       \* what the spawned tasks have still to do
          raced,       \* types whose FEED_CONFIG met another message in flight
          published,   \* the events sent on data_tx
          status,      \* each data listener's task
          at,          \* how many of the published events it is past
          heard        \* the events it was called with

listenerVars == <<status, at, heard>>
dataVars == <<messages, more, layout, known, tasks, raced, published, listenerVars>>

NextMessage == more > 0 /\ more' = more - 1 /\ messages' = messages + 1

\* The types a task that has yet to take config's lock is about.
About(m) == CASE m.kind = "config" -> m.types [] m.kind = "data" -> {m.type} [] OTHER -> {}

\* The types for which the order of m and a task in flight decides what is read.
Races(m) ==
    {t \in About(m) : \E n \in tasks : t \in About(n) /\ "config" \in {m.kind, n.kind}}

Spawn(m) == tasks' = tasks \cup {m} /\ raced' = raced \cup Races(m)

-----------------------------------------------------------------------------
(* The server writes a message: it is in flight, and its task will be spawned. *)

\* FEED_CONFIG announces new fields of some types, or has no event_fields.
FeedConfig(T) ==
    /\ NextMessage
    /\ layout' = [t \in Types |-> IF t \in T THEN messages' ELSE layout[t]]
    /\ Spawn([kind |-> "config", id |-> messages', types |-> T])
    /\ UNCHANGED <<known, published, listenerVars>>

\* FEED_DATA carries n events of a type, in FULL format or in the layout that
\* the server has announced.
FeedData(t, n, compact) ==
    /\ NextMessage
    /\ compact => layout[t] # 0
    /\ Spawn([kind |-> "data", id |-> messages', type |-> t, count |-> n,
              as |-> IF compact THEN layout[t] ELSE 0])
    /\ UNCHANGED <<layout, known, published, listenerVars>>

-----------------------------------------------------------------------------
(* The tasks. *)

\* Mutant: fields that are known are not replaced (or_insert).
MergeOnce(m) ==
    known' = [t \in Types |-> IF t \in m.types /\ known[t] = 0 THEN m.id ELSE known[t]]

Merge(m) == known' = [t \in Types |-> IF t \in m.types THEN m.id ELSE known[t]]

ConfigTask(m) ==
    /\ m.kind = "config"
    /\ Merge(m)
    /\ tasks' = tasks \ {m}
    /\ UNCHANGED <<messages, more, layout, raced, published, listenerVars>>

Events(m, n, with) == [i \in 1 .. n |-> [msg |-> m.id, nr |-> i, as |-> m.as, with |-> with]]

\* What the server wrote into m.
Written(m) == Events(m, m.count, m.as)

\* The parts of a sequence, in its order.
Parts(q) ==
    LET n == Len(q) IN
    {[i \in DOMAIN f |-> q[f[i]]] :
        f \in UNION {{f \in [1 .. k -> 1 .. n] : \A i, j \in 1 .. k : i < j => f[i] < f[j]} :
                       k \in 0 .. n}}

\* compact_to_full: the values are cut into as many events as the fields allow;
\* what is left of them, and a type without known fields, is skipped.  Events
\* cut at the wrong places may or may not make sense.
CompactToFull(m) ==
    LET with == known[m.type]
    IN  CASE with = 0 -> {<<>>}
          [] with = m.as -> {Written(m)}
          [] OTHER -> Parts(Events(m, (m.count * Width[m.as]) \div Width[with], with))

\* The task of m has read its events, and out is left to publish.
Remaining(m, out) == [kind |-> "out", id |-> m.id, out |-> out]

\* The configuration is read once; the events follow one by one.
DataTask(m) ==
    /\ m.kind = "data"
    /\ \E out \in IF m.as = 0 THEN {Written(m)} ELSE CompactToFull(m) :
           tasks' = (tasks \ {m}) \cup {Remaining(m, out)}
    /\ UNCHANGED <<messages, more, layout, known, raced, published, listenerVars>>

Publish(m) ==
    /\ m.kind = "out"
    /\ IF m.out = <<>>
       THEN tasks' = tasks \ {m} /\ UNCHANGED published
       ELSE /\ published' = Append(published, Head(m.out))
            /\ tasks' = (tasks \ {m}) \cup {Remaining(m, Tail(m.out))}
    /\ UNCHANGED <<messages, more, layout, known, raced, listenerVars>>

-----------------------------------------------------------------------------
(* Data listeners. *)

AddDataListener(l) ==
    /\ status[l] = "Off"
    /\ status' = [status EXCEPT ![l] = "On"]
    /\ at' = [at EXCEPT ![l] = Len(published)]
    /\ UNCHANGED <<messages, more, layout, known, tasks, raced, published, heard>>

Lagging(l) == Len(published) - at[l] > Room

\* Mutant: a listener that lags goes on with the oldest event that is kept.
LagSkips(l) ==
    /\ at' = [at EXCEPT ![l] = Len(published) - Room]
    /\ UNCHANGED <<status, heard>>

\* recv reports the lag, and the listener's loop ends.
LagEnds(l) == status' = [status EXCEPT ![l] = "Ended"] /\ UNCHANGED <<at, heard>>

Hear(l) ==
    /\ status[l] = "On" /\ at[l] < Len(published)
    /\ IF Lagging(l)
       THEN LagEnds(l)
       ELSE /\ at' = [at EXCEPT ![l] = @ + 1]
            /\ heard' = [heard EXCEPT ![l] = Append(@, published[at[l] + 1])]
            /\ UNCHANGED status
    /\ UNCHANGED <<messages, more, layout, known, tasks, raced, published>>

-----------------------------------------------------------------------------
DataInit ==
    /\ messages = 0 /\ more \in 0 .. MaxMessages
    /\ tasks = {} /\ raced = {} /\ published = <<>>
    /\ layout = [t \in Types |-> 0] /\ known = [t \in Types |-> 0]
    /\ status = [l \in Listeners |-> "Off"]
    /\ at = [l \in Listeners |-> 0] /\ heard = [l \in Listeners |-> <<>>]

Arrive ==
    \/ \E T \in SUBSET Types : FeedConfig(T)
    \/ \E t \in Types, n \in 1 .. Batch, compact \in BOOLEAN : FeedData(t, n, compact)

Tasks == \E m \in tasks : ConfigTask(m) \/ DataTask(m) \/ Publish(m)

Listen == \E l \in Listeners : AddDataListener(l)

Hearing == \E l \in Listeners : Hear(l)

DataNext == Arrive \/ Tasks \/ Listen \/ Hearing

DataSpec == DataInit /\ [][DataNext]_dataVars

DataTypeOK ==
    /\ messages \in 0 .. MaxMessages /\ more \in 0 .. MaxMessages - messages
    /\ layout \in [Types -> 0 .. MaxMessages] /\ known \in [Types -> 0 .. MaxMessages]
    /\ raced \subseteq Types
    /\ \A m \in tasks : m.id \in 1 .. messages /\ m.kind \in {"config", "data", "out"}
    /\ \A i \in DOMAIN published : published[i].msg \in 1 .. messages
    /\ status \in [Listeners -> {"Off", "On", "Ended"}]
    /\ at \in [Listeners -> 0 .. Len(published)]

\* Outside a race every event is read as it was written: the fields a FEED_DATA
\* is decoded with are the ones the server wrote it in, however many types'
\* FEED_CONFIGs came before, and no event is dropped.
UnracedIsExact ==
    [][\A m \in tasks : m.kind = "data" /\ m \notin tasks' /\ m.type \notin raced =>
           Remaining(m, Written(m)) \in tasks']_dataVars

\* A data listener hears an unbroken stretch of what was published: one that is
\* too slow ends, it is never called again after a gap.
NoGaps ==
    \A l \in Listeners :
        \E i \in 0 .. Len(published) - Len(heard[l]) :
            heard[l] = SubSeq(published, i + 1, i + Len(heard[l]))
=============================================================================
