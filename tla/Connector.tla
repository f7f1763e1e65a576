----------------------------- MODULE Connector ------------------------------
(***************************************************************************)
(* A WebSocketConnector (src/src/websocket_client/connector.rs) that       *)
(* several tasks start, stop and send on.  Each successful start spawns a  *)
(* handler, handle_connection, which holds the lock of the read half for   *)
(* as long as it reads.                                                    *)
(*                                                                         *)
(* A step is what happens between two awaits.  The locks of the write half *)
(* and of is_available are held for one such step only, and are not        *)
(* modelled; the lock of the read half is (readLock).                      *)
(***************************************************************************)
EXTENDS Naturals, Sequences, FiniteSets

CONSTANTS Callers,      \* tasks that hold a clone of the connector
          MaxSockets,   \* bound: WebSockets opened by start
          MaxCalls,     \* bound: start, stop and send_message calls, all told
          MaxMessages   \* bound: messages that arrive on one socket

ASSUME ConnectorAssumption ==
    /\ IsFiniteSet(Callers)
    /\ {MaxSockets, MaxCalls, MaxMessages} \subseteq Nat

VARIABLES writeStream,  \* the socket whose write half is in place, 0 for None
          readStream,   \* the socket whose read half is in place, 0 for None
          available,    \* is_available
          readLock,     \* the handler that holds read_stream's lock, 0 for none
          pc,           \* where each caller's call is, and its socket
          calls,        \* calls made so far
          handler,      \* where the handler of each start is
          reading,      \* the socket each handler reads
          wire,         \* what has become of each socket
          inbox,        \* what has arrived on each socket and is not yet read
          arrived,      \* how many messages have arrived on each socket
          frames,       \* what has been written on each socket
          log           \* the calls of the listeners

streamVars == <<writeStream, readStream, available, readLock>>
callVars == <<pc, calls>>
handlerVars == <<handler, reading, log>>
socketVars == <<wire, inbox, arrived, frames>>
vars == <<streamVars, callVars, handlerVars, socketVars>>

Sockets == 1 .. MaxSockets

\* over: next() yields what is left in the inbox and then None.
\* failed: next() yields an error, and writes fail.
WireStates == {"unused", "up", "closing", "over", "failed"}

PCs == {<<"Idle">>, <<"Connect">>, <<"Hangup">>, <<"Write">>}
    \cup ({"StoreWrite", "StoreRead", "Launch"} \X Sockets)

HandlerStates == {"none", "Lock", "Available", "Read", "Down", "Close", "done"}

At(c, p) == pc[c] = p
Goto(c, p) == pc' = [pc EXCEPT ![c] = p]
Idle == <<"Idle">>

Call(c) == At(c, Idle) /\ calls < MaxCalls /\ calls' = calls + 1

-----------------------------------------------------------------------------
(* start *)

\* A write half in place, be its connection long closed, makes start a no-op.
CallStart(c) ==
    /\ Call(c)
    /\ IF writeStream # 0 THEN UNCHANGED pc ELSE Goto(c, <<"Connect">>)
    /\ UNCHANGED <<streamVars, handlerVars, socketVars>>

\* connect_async fails, or there is a new socket.
Connect(c) ==
    /\ At(c, <<"Connect">>)
    /\ \/ Goto(c, Idle) /\ UNCHANGED wire
       \/ \E s \in Sockets :
             /\ wire[s] = "unused" /\ \A t \in Sockets : wire[t] = "unused" => s <= t
             /\ wire' = [wire EXCEPT ![s] = "up"]
             /\ Goto(c, <<"StoreWrite", s>>)
    /\ UNCHANGED <<streamVars, calls, handlerVars, inbox, arrived, frames>>

StoreWrite(c, s) ==
    /\ At(c, <<"StoreWrite", s>>)
    /\ writeStream' = s
    /\ Goto(c, <<"StoreRead", s>>)
    /\ UNCHANGED <<readStream, available, readLock, calls, handlerVars, socketVars>>

\* The read half waits for a handler that is still reading the last one.
StoreRead(c, s) ==
    /\ At(c, <<"StoreRead", s>>)
    /\ readLock = 0
    /\ readStream' = s
    /\ Goto(c, <<"Launch", s>>)
    /\ UNCHANGED <<writeStream, available, readLock, calls, handlerVars, socketVars>>

Launch(c, s) ==
    /\ At(c, <<"Launch", s>>)
    /\ available' = TRUE
    /\ handler' = [handler EXCEPT ![s] = "Lock"]
    /\ Goto(c, Idle)
    /\ UNCHANGED <<writeStream, readStream, readLock, calls, reading, log, socketVars>>

-----------------------------------------------------------------------------
(* stop and send_message *)

Put(s, frame) == frames' = [frames EXCEPT ![s] = Append(@, frame)]

\* A Close frame, to a peer that may be gone: an error is only logged.
SayClose(s) ==
    IF wire[s] \in {"up", "closing"}
    THEN Put(s, "Close") /\ wire' = [wire EXCEPT ![s] = "closing"]
    ELSE UNCHANGED <<frames, wire>>

\* Mutant: stop leaves the write half in place.
CallStopKept(c) ==
    /\ Call(c)
    /\ IF writeStream # 0 THEN SayClose(writeStream) ELSE UNCHANGED <<frames, wire>>
    /\ Goto(c, <<"Hangup">>)
    /\ UNCHANGED <<streamVars, handlerVars, inbox, arrived>>

CallStop(c) ==
    /\ Call(c)
    /\ writeStream' = 0
    /\ IF writeStream # 0 THEN SayClose(writeStream) ELSE UNCHANGED <<frames, wire>>
    /\ Goto(c, <<"Hangup">>)
    /\ UNCHANGED <<readStream, available, readLock, handlerVars, inbox, arrived>>

Hangup(c) ==
    /\ At(c, <<"Hangup">>)
    /\ available' = FALSE
    /\ Goto(c, Idle)
    /\ UNCHANGED <<writeStream, readStream, readLock, calls, handlerVars, socketVars>>

\* While not available a message is dropped and the answer is Ok.
CallSend(c) ==
    /\ Call(c)
    /\ IF available THEN Goto(c, <<"Write">>) ELSE UNCHANGED pc
    /\ UNCHANGED <<streamVars, handlerVars, socketVars>>

\* The write half may be gone by now, or another one.
Write(c) ==
    /\ At(c, <<"Write">>)
    /\ Goto(c, Idle)
    /\ IF writeStream # 0 /\ wire[writeStream] \in {"up", "closing"}
       THEN Put(writeStream, "Text")
       ELSE UNCHANGED frames
    /\ UNCHANGED <<streamVars, calls, handlerVars, wire, inbox, arrived>>

-----------------------------------------------------------------------------
(* handle_connection, spawned by the start of socket h. *)

Heard(kind, h) == log' = Append(log, <<kind, h>>)
Step(h, p) == handler' = [handler EXCEPT ![h] = p]

\* Mutant: the read half is taken out of its mutex, and the lock let go.
LockReadBriefly(h) ==
    /\ handler[h] = "Lock"
    /\ readLock = 0 /\ readStream # 0
    /\ reading' = [reading EXCEPT ![h] = readStream]
    /\ Heard("open", h)
    /\ Step(h, "Available")
    /\ UNCHANGED <<streamVars, callVars, socketVars>>

\* It reads the socket it finds, which need not be the one it was spawned for.
LockRead(h) ==
    /\ handler[h] = "Lock"
    /\ readLock = 0 /\ readStream # 0
    /\ readLock' = h
    /\ reading' = [reading EXCEPT ![h] = readStream]
    /\ Heard("open", h)
    /\ Step(h, "Available")
    /\ UNCHANGED <<writeStream, readStream, available, callVars, socketVars>>

\* Whatever stop has done in the meantime.
MakeAvailable(h) ==
    /\ handler[h] = "Available"
    /\ available' = TRUE
    /\ Step(h, "Read")
    /\ UNCHANGED <<writeStream, readStream, readLock, callVars, reading, log, socketVars>>

\* Mutant: a frame that is not text goes to the listener as well.
ReadMessageRaw(h) ==
    /\ handler[h] = "Read"
    /\ inbox[reading[h]] # <<>>
    /\ LET m == Head(inbox[reading[h]]) IN
       CASE m = "good"   -> Heard("message", h) /\ UNCHANGED handler
         [] m = "binary" -> Heard("binary", h) /\ UNCHANGED handler
         [] m = "bad"    -> Step(h, "Down") /\ UNCHANGED log
    /\ inbox' = [inbox EXCEPT ![reading[h]] = Tail(@)]
    /\ UNCHANGED <<streamVars, callVars, reading, wire, arrived, frames>>

\* handle_message: a good text message goes to the listener, anything but text
\* is ignored, and a text that does not parse ends the loop.
ReadMessage(h) ==
    /\ handler[h] = "Read"
    /\ inbox[reading[h]] # <<>>
    /\ LET m == Head(inbox[reading[h]]) IN
       CASE m = "good"   -> Heard("message", h) /\ UNCHANGED handler
         [] m = "binary" -> UNCHANGED <<handler, log>>
         [] m = "bad"    -> Step(h, "Down") /\ UNCHANGED log
    /\ inbox' = [inbox EXCEPT ![reading[h]] = Tail(@)]
    /\ UNCHANGED <<streamVars, callVars, reading, wire, arrived, frames>>

\* Mutant: the loop goes on after an error.
ReadEndOnward(h) ==
    /\ handler[h] = "Read"
    /\ inbox[reading[h]] = <<>>
    /\ \/ wire[reading[h]] = "over" /\ Step(h, "Down") /\ UNCHANGED <<wire, log>>
       \/ /\ wire[reading[h]] = "failed"
          /\ Heard("error", h)
          /\ UNCHANGED <<handler, wire>>
    /\ UNCHANGED <<streamVars, callVars, reading, inbox, arrived, frames>>

\* The stream ends, or fails: then the close listener hears of the error first.
\* A stream that has failed once is over.
ReadEnd(h) ==
    /\ handler[h] = "Read"
    /\ inbox[reading[h]] = <<>>
    /\ \/ wire[reading[h]] = "over" /\ UNCHANGED <<wire, log>>
       \/ /\ wire[reading[h]] = "failed"
          /\ wire' = [wire EXCEPT ![reading[h]] = "over"]
          /\ Heard("error", h)
    /\ Step(h, "Down")
    /\ UNCHANGED <<streamVars, callVars, reading, inbox, arrived, frames>>

\* Mutant: is_available is not reset.
StayAvailable(h) ==
    /\ handler[h] = "Down"
    /\ Step(h, "Close")
    /\ UNCHANGED <<streamVars, callVars, reading, log, socketVars>>

MakeUnavailable(h) ==
    /\ handler[h] = "Down"
    /\ available' = FALSE
    /\ Step(h, "Close")
    /\ UNCHANGED <<writeStream, readStream, readLock, callVars, reading, log, socketVars>>

\* Mutant: the handler returns without a word to the close listener.
SilentClose(h) ==
    /\ handler[h] = "Close"
    /\ Step(h, "done")
    /\ readLock' = 0
    /\ UNCHANGED <<writeStream, readStream, available, callVars, reading, log, socketVars>>

ReportClose(h) ==
    /\ handler[h] = "Close"
    /\ Heard("close", h)
    /\ Step(h, "done")
    /\ readLock' = 0
    /\ UNCHANGED <<writeStream, readStream, available, callVars, reading, socketVars>>

-----------------------------------------------------------------------------
(* The peer and the network. *)

Arrive(s, m) ==
    /\ wire[s] \in {"up", "closing"}
    /\ arrived[s] < MaxMessages
    /\ arrived' = [arrived EXCEPT ![s] = @ + 1]
    /\ inbox' = [inbox EXCEPT ![s] = Append(@, m)]
    /\ UNCHANGED <<streamVars, callVars, handlerVars, wire, frames>>

\* The peer closes (or answers our Close), or the connection breaks.
HangUp(s) ==
    /\ wire[s] \in {"up", "closing"}
    /\ \E w \in {"over", "failed"} : wire' = [wire EXCEPT ![s] = w]
    /\ UNCHANGED <<streamVars, callVars, handlerVars, inbox, arrived, frames>>

-----------------------------------------------------------------------------
Init ==
    /\ writeStream = 0 /\ readStream = 0 /\ available = FALSE /\ readLock = 0
    /\ pc = [c \in Callers |-> Idle] /\ calls = 0
    /\ handler = [h \in Sockets |-> "none"]
    /\ reading = [h \in Sockets |-> 0]
    /\ wire = [s \in Sockets |-> "unused"]
    /\ inbox = [s \in Sockets |-> <<>>]
    /\ arrived = [s \in Sockets |-> 0]
    /\ frames = [s \in Sockets |-> <<>>]
    /\ log = <<>>

CallStep(c) ==
    \/ Connect(c) \/ Hangup(c) \/ Write(c)
    \/ \E s \in Sockets : StoreWrite(c, s) \/ StoreRead(c, s) \/ Launch(c, s)

HandlerStep(h) ==
    \/ LockRead(h) \/ MakeAvailable(h) \/ ReadMessage(h) \/ ReadEnd(h)
    \/ MakeUnavailable(h) \/ ReportClose(h)

Peer == \E s \in Sockets : HangUp(s) \/ \E m \in {"good", "binary", "bad"} : Arrive(s, m)

Next ==
    \/ \E c \in Callers : CallStart(c) \/ CallStop(c) \/ CallSend(c) \/ CallStep(c)
    \/ \E h \in Sockets : HandlerStep(h)
    \/ Peer

Spec == Init /\ [][Next]_vars

\* The runtime polls the handlers and the calls; the peer owes nothing.
FairSpec ==
    /\ Spec
    /\ \A h \in Sockets : WF_vars(HandlerStep(h))
    /\ \A c \in Callers : WF_vars(CallStep(c))

-----------------------------------------------------------------------------
TypeOK ==
    /\ writeStream \in Sockets \cup {0} /\ readStream \in Sockets \cup {0}
    /\ available \in BOOLEAN /\ readLock \in Sockets \cup {0}
    /\ pc \in [Callers -> PCs] /\ calls \in 0 .. MaxCalls
    /\ handler \in [Sockets -> HandlerStates]
    /\ reading \in [Sockets -> Sockets \cup {0}]
    /\ wire \in [Sockets -> WireStates]
    /\ inbox \in [Sockets -> Seq({"good", "binary", "bad"})]
    /\ arrived \in [Sockets -> 0 .. MaxMessages]
    /\ frames \in [Sockets -> Seq({"Text", "Close"})]
    /\ log \in Seq({"open", "message", "error", "close"} \X Sockets)

\* The listeners hear what ConnectorEvents promises: however starts and stops
\* overlap, the events of two connections never mix, and an error is heard once.
Events == INSTANCE ConnectorEvents WITH Connections <- Sockets

ImplementsEvents == Events!Spec

\* Nothing is written on a socket after its Close frame, though a send may have
\* found the connector available before stop took the write half away.
NothingAfterClose ==
    \A s \in Sockets, i, j \in 1 .. MaxCalls :
        i < j /\ j <= Len(frames[s]) /\ frames[s][i] = "Close" => frames[s][j] # "Text"

\* The connector is available only while some handler is to read or reading:
\* whichever start, stop or handler wrote is_available last, the end of the last
\* handler leaves it unavailable.
AvailableIsServed ==
    available => \E h \in Sockets : handler[h] \in {"Lock", "Available", "Read", "Down"}

\* Every connection that was announced and is over is reported closed.
CloseReported ==
    \A h \in Sockets :
        handler[h] = "Read" /\ wire[reading[h]] \in {"over", "failed"}
            ~> \E i \in DOMAIN log : log[i] = <<"close", h>>
=============================================================================
