-------------------------- MODULE ConnectorEvents ---------------------------
(***************************************************************************)
(* What a WebSocketConnector promises its listeners: the events of one     *)
(* connection are over before those of the next begin.  A connection is    *)
(* announced once, brings messages, may fail once, and is then closed; a   *)
(* failure is followed by nothing but the closing.                         *)
(***************************************************************************)
EXTENDS Naturals, Sequences

CONSTANT Connections

VARIABLE log    \* the calls of the listeners, oldest first

Happens(kind, c) == log' = Append(log, <<kind, c>>)

Quiet == log = <<>> \/ log[Len(log)][1] = "close"

\* The connection being served, and its last event.
Serving(c, kinds) == log # <<>> /\ log[Len(log)][2] = c /\ log[Len(log)][1] \in kinds

Unknown(c) == \A i \in DOMAIN log : log[i][2] # c

Init == log = <<>>

Open(c)    == Quiet /\ Unknown(c) /\ Happens("open", c)
Message(c) == Serving(c, {"open", "message"}) /\ Happens("message", c)
Error(c)   == Serving(c, {"open", "message"}) /\ Happens("error", c)
Close(c)   == Serving(c, {"open", "message", "error"}) /\ Happens("close", c)

Next == \E c \in Connections : Open(c) \/ Message(c) \/ Error(c) \/ Close(c)

Spec == Init /\ [][Next]_log
=============================================================================
