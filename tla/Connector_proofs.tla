------------------------- MODULE Connector_proofs --------------------------
(***************************************************************************)
(* What holds of every connector: any callers, and any number of calls,    *)
(* sockets and messages.                                                   *)
(***************************************************************************)
EXTENDS Connector, TLAPS

\* The start of socket s has not returned, and c is its caller.
Owns(c, s) == pc[c] \in {"StoreWrite", "StoreRead", "Launch"} \X {s}

LEMMA Places ==
    /\ \A p : Idle # <<p, p>>
    /\ \A p, s : <<p, s>> \notin {Idle, <<"Connect">>, <<"Hangup">>, <<"Write">>}
    /\ Idle \in PCs /\ <<"Connect">> \in PCs /\ <<"Hangup">> \in PCs /\ <<"Write">> \in PCs
    /\ \A s \in Sockets : /\ <<"StoreWrite", s>> \in PCs /\ <<"StoreRead", s>> \in PCs
                          /\ <<"Launch", s>> \in PCs
  BY DEF Idle, PCs

LEMMA OwnsPlace ==
    ASSUME NEW c, NEW s
    PROVE  /\ pc[c] = <<"StoreWrite", s>> => Owns(c, s)
           /\ pc[c] = <<"StoreRead", s>> => Owns(c, s)
           /\ pc[c] = <<"Launch", s>> => Owns(c, s)
           /\ pc[c] \in {Idle, <<"Connect">>, <<"Hangup">>, <<"Write">>} => ~Owns(c, s)
           /\ \A t : Owns(c, s) /\ Owns(c, t) => s = t
  BY DEF Owns, Idle

-----------------------------------------------------------------------------
(* Types *)

\* TypeOK is inductive with this: a handler past its first lock reads a socket.
ReadsOne ==
    \A h \in Sockets : handler[h] \in {"Available", "Read", "Down", "Close"} => reading[h] \in Sockets

TypeInv == TypeOK /\ ReadsOne

LEMMA InitTypes == Init => TypeInv
  <1>. SUFFICES ASSUME Init PROVE TypeInv
    OBVIOUS
  <1>1. \A S : <<>> \in Seq(S)
    OBVIOUS
  <1>2. pc \in [Callers -> PCs]
    BY Places DEF Init
  <1>3. calls \in 0 .. MaxCalls /\ arrived \in [Sockets -> 0 .. MaxMessages]
    BY ConnectorAssumption DEF Init
  <1>. QED  BY <1>1, <1>2, <1>3 DEF Init, TypeInv, TypeOK, ReadsOne, HandlerStates, WireStates

LEMMA GotoType == ASSUME TypeOK, NEW c, NEW p \in PCs, Goto(c, p) PROVE pc' \in [Callers -> PCs]
  BY DEF TypeOK, Goto

LEMMA CallTypes ==
    ASSUME TypeInv, NEW c \in Callers, CallStart(c) \/ CallStop(c) \/ CallSend(c) PROVE TypeInv'
  <1>1. calls' \in 0 .. MaxCalls
    <2>1. calls \in Nat /\ MaxCalls \in Nat /\ calls < MaxCalls /\ calls' = calls + 1
      BY ConnectorAssumption DEF TypeInv, TypeOK, CallStart, CallStop, CallSend, Call
    <2>. QED  BY <2>1
  <1>2. pc' \in [Callers -> PCs]
    <2>1. pc' = pc \/ Goto(c, <<"Connect">>) \/ Goto(c, <<"Hangup">>) \/ Goto(c, <<"Write">>)
      BY DEF CallStart, CallStop, CallSend
    <2>. QED  BY <2>1, GotoType, Places DEF TypeInv, TypeOK
  <1>3. /\ writeStream' \in Sockets \cup {0} /\ wire' \in [Sockets -> WireStates]
        /\ frames' \in [Sockets -> Seq({"Text", "Close"})]
    <2>1. CASE CallStop(c)
      <3>1. writeStream' = 0 /\ (UNCHANGED <<frames, wire>> \/ (writeStream # 0 /\ SayClose(writeStream)))
        BY <2>1 DEF CallStop
      <3>2. \A q \in Seq({"Text", "Close"}) : Append(q, "Close") \in Seq({"Text", "Close"})
        OBVIOUS
      <3>3. \/ UNCHANGED <<frames, wire>>
            \/ /\ writeStream \in Sockets
               /\ frames' = [frames EXCEPT ![writeStream] = Append(@, "Close")]
               /\ wire' = [wire EXCEPT ![writeStream] = "closing"]
        BY <3>1 DEF TypeInv, TypeOK, SayClose, Put
      <3>4. frames' \in [Sockets -> Seq({"Text", "Close"})]
        <4>1. \A q \in Sockets : frames[q] \in Seq({"Text", "Close"})
          BY DEF TypeInv, TypeOK
        <4>2. \A q \in Sockets : Append(frames[q], "Close") \in Seq({"Text", "Close"})
          BY <3>2, <4>1
        <4>3. frames \in [Sockets -> Seq({"Text", "Close"})]
          BY DEF TypeInv, TypeOK
        <4>. QED  BY <3>3, <4>2, <4>3
      <3>5. wire' \in [Sockets -> WireStates]
        BY <3>3 DEF TypeInv, TypeOK, WireStates
      <3>. QED  BY <3>1, <3>4, <3>5
    <2>2. CASE CallStart(c) \/ CallSend(c)
      BY <2>2 DEF CallStart, CallSend, streamVars, socketVars, TypeInv, TypeOK
    <2>. QED  BY <2>1, <2>2
  <1>4. UNCHANGED <<readStream, available, readLock, handlerVars, inbox, arrived>>
    BY DEF CallStart, CallStop, CallSend, streamVars, socketVars
  <1>. QED  BY <1>1, <1>2, <1>3, <1>4 DEF TypeInv, TypeOK, ReadsOne, handlerVars

LEMMA StepTypes == ASSUME TypeInv, NEW c \in Callers, CallStep(c) PROVE TypeInv'
  <1>1. CASE Connect(c)
    <2>1. pc' \in [Callers -> PCs]
      <3>1. Goto(c, Idle) \/ \E s \in Sockets : Goto(c, <<"StoreWrite", s>>)
        BY <1>1 DEF Connect
      <3>. QED  BY <3>1, GotoType, Places DEF TypeInv
    <2>2. wire' \in [Sockets -> WireStates]
      BY <1>1 DEF Connect, TypeInv, TypeOK, WireStates
    <2>. QED  BY <1>1, <2>1, <2>2
              DEF Connect, TypeInv, TypeOK, ReadsOne, streamVars, handlerVars
  <1>2. CASE Hangup(c)
    <2>1. pc' \in [Callers -> PCs]
      BY <1>2, GotoType, Places DEF Hangup, TypeInv
    <2>. QED  BY <1>2, <2>1 DEF Hangup, TypeInv, TypeOK, ReadsOne, handlerVars, socketVars
  <1>3. CASE Write(c)
    <2>1. pc' \in [Callers -> PCs]
      BY <1>3, GotoType, Places DEF Write, TypeInv
    <2>2. frames' \in [Sockets -> Seq({"Text", "Close"})]
      <3>1. \A q \in Seq({"Text", "Close"}) : Append(q, "Text") \in Seq({"Text", "Close"})
        OBVIOUS
      <3>. QED  BY <1>3, <3>1 DEF Write, Put, TypeInv, TypeOK
    <2>. QED  BY <1>3, <2>1, <2>2 DEF Write, TypeInv, TypeOK, ReadsOne, streamVars, handlerVars
  <1>4. ASSUME NEW s \in Sockets, StoreWrite(c, s) \/ StoreRead(c, s) \/ Launch(c, s) PROVE TypeInv'
    <2>1. pc' \in [Callers -> PCs]
      <3>1. Goto(c, Idle) \/ Goto(c, <<"StoreRead", s>>) \/ Goto(c, <<"Launch", s>>)
        BY <1>4 DEF StoreWrite, StoreRead, Launch
      <3>. QED  BY <3>1, GotoType, Places DEF TypeInv
    <2>2. /\ writeStream' \in Sockets \cup {0} /\ readStream' \in Sockets \cup {0}
          /\ available' \in BOOLEAN /\ UNCHANGED <<readLock, calls, reading, log, socketVars>>
      BY <1>4 DEF StoreWrite, StoreRead, Launch, TypeInv, TypeOK, handlerVars
    <2>3. handler' \in [Sockets -> HandlerStates] /\ ReadsOne'
      BY <1>4 DEF StoreWrite, StoreRead, Launch, TypeInv, TypeOK, ReadsOne, handlerVars, HandlerStates
    <2>. QED  BY <2>1, <2>2, <2>3 DEF TypeInv, TypeOK, socketVars
  <1>. QED  BY <1>1, <1>2, <1>3, <1>4 DEF CallStep

LEMMA HeardType ==
    ASSUME TypeOK, NEW h \in Sockets, NEW kind \in {"open", "message", "error", "close"},
           Heard(kind, h)
    PROVE  log' \in Seq({"open", "message", "error", "close"} \X Sockets)
  <1>1. <<kind, h>> \in {"open", "message", "error", "close"} \X Sockets
    OBVIOUS
  <1>2. \A S : \A q \in Seq(S), e \in S : Append(q, e) \in Seq(S)
    OBVIOUS
  <1>. QED  BY <1>1, <1>2 DEF Heard, TypeOK

\* What reading a message comes to.
LEMMA ReadShape ==
    ASSUME TypeInv, NEW h \in Sockets, ReadMessage(h)
    PROVE  /\ handler[h] = "Read" /\ reading[h] \in Sockets
           /\ Tail(inbox[reading[h]]) \in Seq({"good", "binary", "bad"})
           /\ \/ Heard("message", h) /\ UNCHANGED handler
              \/ UNCHANGED <<handler, log>>
              \/ Step(h, "Down") /\ UNCHANGED log
  <1>1. handler[h] = "Read" /\ reading[h] \in Sockets /\ inbox[reading[h]] # <<>>
    BY DEF ReadMessage, TypeInv, ReadsOne
  <1>2. inbox[reading[h]] \in Seq({"good", "binary", "bad"})
    BY <1>1 DEF TypeInv, TypeOK
  <1>3. /\ Head(inbox[reading[h]]) \in {"good", "binary", "bad"}
        /\ Tail(inbox[reading[h]]) \in Seq({"good", "binary", "bad"})
    BY <1>1, <1>2
  <1>4. CASE Head(inbox[reading[h]]) = "good"
    BY <1>1, <1>3, <1>4 DEF ReadMessage
  <1>5. CASE Head(inbox[reading[h]]) = "binary"
    BY <1>1, <1>3, <1>5 DEF ReadMessage
  <1>6. CASE Head(inbox[reading[h]]) = "bad"
    BY <1>1, <1>3, <1>6 DEF ReadMessage
  <1>. QED  BY <1>3, <1>4, <1>5, <1>6

LEMMA HandlerTypes == ASSUME TypeInv, NEW h \in Sockets, HandlerStep(h) PROVE TypeInv'
  <1>1. /\ UNCHANGED <<writeStream, readStream, callVars, arrived, frames>>
        /\ readLock' \in Sockets \cup {0} /\ available' \in BOOLEAN
    BY DEF HandlerStep, LockRead, MakeAvailable, ReadMessage, ReadEnd, MakeUnavailable, ReportClose,
           streamVars, socketVars, TypeInv, TypeOK
  <1>2. log' \in Seq({"open", "message", "error", "close"} \X Sockets)
    <2>1. log' = log \/ \E kind \in {"open", "message", "error", "close"} : Heard(kind, h)
      BY ReadShape DEF HandlerStep, LockRead, MakeAvailable, ReadEnd, MakeUnavailable, ReportClose
    <2>. QED  BY <2>1, HeardType DEF TypeInv, TypeOK
  <1>3. /\ handler' \in [Sockets -> HandlerStates] /\ reading' \in [Sockets -> Sockets \cup {0}]
        /\ ReadsOne'
    <2>1. CASE LockRead(h)
      BY <2>1 DEF LockRead, Step, TypeInv, TypeOK, ReadsOne, HandlerStates
    <2>2. CASE ~LockRead(h)
      <3>1. reading' = reading
        BY <2>2 DEF HandlerStep, MakeAvailable, ReadMessage, ReadEnd, MakeUnavailable, ReportClose
      <3>2. \/ handler' = handler
            \/ /\ handler[h] \in {"Available", "Read", "Down", "Close"}
               /\ \E p \in {"Read", "Down", "Close", "done"} : handler' = [handler EXCEPT ![h] = p]
        BY <2>2, ReadShape DEF HandlerStep, MakeAvailable, ReadEnd, MakeUnavailable, ReportClose,
                               Step
      <3>. QED  BY <3>1, <3>2 DEF TypeInv, TypeOK, ReadsOne, HandlerStates
    <2>. QED  BY <2>1, <2>2
  <1>4. wire' \in [Sockets -> WireStates] /\ inbox' \in [Sockets -> Seq({"good", "binary", "bad"})]
    <2>1. CASE ReadMessage(h)
      BY <2>1, ReadShape DEF ReadMessage, TypeInv, TypeOK
    <2>2. CASE ~ReadMessage(h)
      BY <2>2 DEF HandlerStep, LockRead, MakeAvailable, ReadEnd, MakeUnavailable, ReportClose,
                  socketVars, TypeInv, TypeOK, WireStates
    <2>. QED  BY <2>1, <2>2
  <1>. QED  BY <1>1, <1>2, <1>3, <1>4 DEF TypeInv, TypeOK, callVars

LEMMA PeerTypes == ASSUME TypeInv, Peer PROVE TypeInv'
  <1>1. PICK s \in Sockets : HangUp(s) \/ \E m \in {"good", "binary", "bad"} : Arrive(s, m)
    BY DEF Peer
  <1>2. UNCHANGED <<streamVars, callVars, handlerVars, frames>>
    BY <1>1 DEF HangUp, Arrive
  <1>3. wire' \in [Sockets -> WireStates]
    BY <1>1 DEF HangUp, Arrive, TypeInv, TypeOK, WireStates
  <1>4. arrived' \in [Sockets -> 0 .. MaxMessages]
    <2>1. arrived' = arrived \/ (arrived[s] < MaxMessages
                                   /\ arrived' = [arrived EXCEPT ![s] = arrived[s] + 1])
      BY <1>1 DEF HangUp, Arrive
    <2>2. MaxMessages \in Nat /\ arrived[s] \in Nat
      BY ConnectorAssumption DEF TypeInv, TypeOK
    <2>3. arrived[s] < MaxMessages => arrived[s] + 1 \in 0 .. MaxMessages
      BY <2>2
    <2>. QED  BY <2>1, <2>3 DEF TypeInv, TypeOK
  <1>5. inbox' \in [Sockets -> Seq({"good", "binary", "bad"})]
    <2>1. \A m \in {"good", "binary", "bad"} :
             Append(inbox[s], m) \in Seq({"good", "binary", "bad"})
      BY DEF TypeInv, TypeOK
    <2>2. inbox' = inbox \/ \E m \in {"good", "binary", "bad"} :
                               inbox' = [inbox EXCEPT ![s] = Append(inbox[s], m)]
      BY <1>1 DEF HangUp, Arrive
    <2>. QED  BY <2>1, <2>2 DEF TypeInv, TypeOK
  <1>. QED  BY <1>2, <1>3, <1>4, <1>5 DEF TypeInv, TypeOK, ReadsOne, streamVars, callVars, handlerVars

LEMMA TypeStep == TypeInv /\ [Next]_vars => TypeInv'
  <1>. SUFFICES ASSUME TypeInv, [Next]_vars PROVE TypeInv'
    OBVIOUS
  <1>1. CASE UNCHANGED vars
    BY <1>1 DEF vars, streamVars, callVars, handlerVars, socketVars, TypeInv, TypeOK, ReadsOne
  <1>. QED  BY <1>1, CallTypes, StepTypes, HandlerTypes, PeerTypes DEF Next

\* Every variable of the connector keeps its type.
THEOREM TypeCorrect == Spec => []TypeOK
  BY InitTypes, TypeStep, PTL DEF Spec, TypeInv

-----------------------------------------------------------------------------
(* Who owns a socket *)

\* A socket is opened by one start, which alone spawns its handler.
OwnerInv ==
    /\ \A s \in Sockets : wire[s] = "unused" =>
          /\ handler[s] = "none" /\ writeStream # s /\ frames[s] = <<>>
          /\ \A c \in Callers : ~Owns(c, s)
    /\ \A s \in Sockets, c \in Callers : Owns(c, s) => handler[s] = "none"
    /\ \A s \in Sockets, c, d \in Callers : Owns(c, s) /\ Owns(d, s) => c = d

\* Steps by which nobody comes to own a socket and no handler is spawned.
LEMMA OwnersKeep ==
    ASSUME TypeInv, OwnerInv,
           \A s \in Sockets : wire'[s] = "unused" => wire[s] = "unused" /\ frames'[s] = frames[s],
           writeStream' \in Sockets => wire[writeStream'] # "unused",
           \A s \in Sockets : handler[s] = "none" => handler'[s] = "none",
           \A s \in Sockets, c \in Callers : Owns(c, s)' => Owns(c, s)
    PROVE  OwnerInv'
  BY DEF OwnerInv

\* The caller that moves on: the others stay where they are.
LEMMA OthersStay ==
    ASSUME TypeInv, NEW c \in Callers, NEW p, Goto(c, p)
    PROVE  /\ pc'[c] = p
           /\ \A d \in Callers : d # c => pc'[d] = pc[d]
           /\ \A s : \A d \in Callers : d # c => (Owns(d, s)' <=> Owns(d, s))
  <1>1. pc'[c] = p /\ \A d \in Callers : d # c => pc'[d] = pc[d]
    BY DEF Goto, TypeInv, TypeOK
  <1>. QED  BY <1>1 DEF Owns

\* A caller that goes where no socket is owned.
LEMMA OwnsLess ==
    ASSUME TypeInv, NEW c \in Callers,
           pc' = pc \/ \E p \in {Idle, <<"Connect">>, <<"Hangup">>, <<"Write">>} : Goto(c, p)
    PROVE  \A s \in Sockets, d \in Callers : Owns(d, s)' => Owns(d, s)
  <1>1. CASE pc' = pc
    BY <1>1 DEF Owns
  <1>2. ASSUME NEW p \in {Idle, <<"Connect">>, <<"Hangup">>, <<"Write">>}, Goto(c, p)
        PROVE  \A s \in Sockets, d \in Callers : Owns(d, s)' => Owns(d, s)
    <2>1. \A s : ~Owns(c, s)'
      BY <1>2, OthersStay DEF Owns, Idle
    <2>. QED  BY <1>2, <2>1, OthersStay
  <1>. QED  BY <1>1, <1>2

LEMMA CallOwner ==
    ASSUME TypeInv, OwnerInv, NEW c \in Callers, CallStart(c) \/ CallStop(c) \/ CallSend(c)
    PROVE  OwnerInv'
  <1>1. \A s \in Sockets, d \in Callers : Owns(d, s)' => Owns(d, s)
    BY OwnsLess DEF CallStart, CallStop, CallSend
  <1>2. \A s \in Sockets : wire'[s] = "unused" => wire[s] = "unused" /\ frames'[s] = frames[s]
    BY DEF CallStart, CallStop, CallSend, SayClose, Put, socketVars, TypeInv, TypeOK
  <1>3. handler' = handler /\ writeStream' \in {writeStream, 0}
    BY DEF CallStart, CallStop, CallSend, handlerVars, streamVars
  <1>4. writeStream' \in Sockets => wire[writeStream'] # "unused"
    BY <1>3 DEF OwnerInv, Sockets
  <1>. QED  BY <1>1, <1>2, <1>3, <1>4, OwnersKeep

LEMMA ConnectOwner == ASSUME TypeInv, OwnerInv, NEW c \in Callers, Connect(c) PROVE OwnerInv'
  <1>1. UNCHANGED <<handler, writeStream, frames>>
    BY DEF Connect, handlerVars, streamVars
  <1>2. CASE Goto(c, Idle) /\ UNCHANGED wire
    BY <1>1, <1>2, OwnsLess, OwnersKeep DEF OwnerInv
  <1>3. ASSUME NEW s \in Sockets, wire[s] = "unused", wire' = [wire EXCEPT ![s] = "up"],
               Goto(c, <<"StoreWrite", s>>)
        PROVE  OwnerInv'
    <2>1. \A t \in Sockets : wire'[t] = "unused" => wire[t] = "unused" /\ t # s
      BY <1>3 DEF TypeInv, TypeOK
    <2>2. /\ \A d \in Callers, t \in Sockets : d # c => (Owns(d, t)' <=> Owns(d, t))
          /\ \A t \in Sockets : Owns(c, t)' => t = s
      BY <1>3, OthersStay DEF Owns
    <2>3. handler[s] = "none" /\ \A d \in Callers : ~Owns(d, s)
      BY <1>3 DEF OwnerInv
    <2>. QED  BY <1>1, <2>1, <2>2, <2>3 DEF OwnerInv
  <1>. QED  BY <1>2, <1>3 DEF Connect

LEMMA StepOwner == ASSUME TypeInv, OwnerInv, NEW c \in Callers, CallStep(c) PROVE OwnerInv'
  <1>1. CASE Hangup(c) \/ Write(c)
    <2>1. \A s \in Sockets, d \in Callers : Owns(d, s)' => Owns(d, s)
      BY <1>1, OwnsLess DEF Hangup, Write
    <2>2. \A s \in Sockets : wire'[s] = "unused" => wire[s] = "unused" /\ frames'[s] = frames[s]
      BY <1>1 DEF Hangup, Write, Put, socketVars, TypeInv, TypeOK
    <2>3. handler' = handler /\ writeStream' = writeStream
      BY <1>1 DEF Hangup, Write, handlerVars, streamVars
    <2>. QED  BY <2>1, <2>2, <2>3, OwnersKeep DEF OwnerInv
  <1>2. ASSUME NEW s \in Sockets, StoreWrite(c, s) \/ StoreRead(c, s) \/ Launch(c, s) PROVE OwnerInv'
    <2>1. /\ Owns(c, s) /\ wire' = wire /\ frames' = frames
          /\ wire[s] # "unused"
      BY <1>2, OwnsPlace DEF StoreWrite, StoreRead, Launch, At, socketVars, OwnerInv
    <2>2. CASE StoreWrite(c, s) \/ StoreRead(c, s)
      <3>1. handler' = handler /\ writeStream' \in {writeStream, s}
        BY <2>2 DEF StoreWrite, StoreRead, handlerVars
      <3>2. \A t \in Sockets, d \in Callers : Owns(d, t)' => Owns(d, t)
        BY <2>1, <2>2, OthersStay DEF StoreWrite, StoreRead, Owns
      <3>. QED  BY <2>1, <3>1, <3>2, OwnersKeep DEF OwnerInv
    <2>3. CASE Launch(c, s)
      <3>1. handler' = [handler EXCEPT ![s] = "Lock"] /\ writeStream' = writeStream
        BY <2>3 DEF Launch
      <3>2. \A t \in Sockets, d \in Callers : Owns(d, t)' => Owns(d, t) /\ d # c
        BY <2>3, OthersStay DEF Launch, Owns, Idle
      <3>3. \A d \in Callers : ~Owns(d, s)'
        BY <2>1, <3>2 DEF OwnerInv
      <3>4. \A t \in Sockets : t # s => handler'[t] = handler[t]
        BY <3>1 DEF TypeInv, TypeOK
      <3>. QED  BY <2>1, <3>1, <3>2, <3>3, <3>4 DEF OwnerInv
    <2>. QED  BY <1>2, <2>2, <2>3
  <1>. QED  BY <1>1, <1>2, ConnectOwner DEF CallStep

LEMMA OwnerStep == TypeInv /\ OwnerInv /\ [Next]_vars => OwnerInv'
  <1>. SUFFICES ASSUME TypeInv, OwnerInv, [Next]_vars PROVE OwnerInv'
    OBVIOUS
  <1>1. ASSUME NEW h \in Sockets, HandlerStep(h) PROVE OwnerInv'
    <2>1. /\ UNCHANGED <<writeStream, pc, frames>>
          /\ \A s \in Sockets : wire'[s] = "unused" => wire[s] = "unused"
      BY <1>1 DEF HandlerStep, LockRead, MakeAvailable, ReadMessage, ReadEnd, MakeUnavailable,
                  ReportClose, streamVars, callVars, socketVars, TypeInv, TypeOK
    <2>2. \A s \in Sockets : handler[s] = "none" => handler'[s] = "none"
      BY <1>1, ReadShape DEF HandlerStep, LockRead, MakeAvailable, ReadEnd, MakeUnavailable,
                             ReportClose, Step, TypeInv, TypeOK
    <2>. QED  BY <2>1, <2>2, OwnersKeep DEF OwnerInv, Owns
  <1>2. CASE Peer
    <2>1. /\ UNCHANGED <<writeStream, handler, pc, frames>>
          /\ \A s \in Sockets : wire'[s] = "unused" => wire[s] = "unused"
      BY <1>2 DEF Peer, HangUp, Arrive, streamVars, callVars, handlerVars, TypeInv, TypeOK
    <2>. QED  BY <2>1, OwnersKeep DEF OwnerInv, Owns
  <1>3. CASE UNCHANGED vars
    <2>1. UNCHANGED <<writeStream, handler, pc, frames, wire>>
      BY <1>3 DEF vars, streamVars, callVars, handlerVars, socketVars
    <2>. QED  BY <2>1, OwnersKeep DEF OwnerInv, Owns
  <1>. QED  BY <1>1, <1>2, <1>3, CallOwner, StepOwner DEF Next

-----------------------------------------------------------------------------
(* What is written on a socket *)

Said(s) == \E i \in DOMAIN frames[s] : frames[s][i] = "Close"

\* Whoever says Close takes the write half away, and no start puts it back: the
\* socket a start is to store has never been written on.
CloseInv ==
    /\ \A s \in Sockets : \A i, j \in DOMAIN frames[s] :
          i < j /\ frames[s][i] = "Close" => frames[s][j] # "Text"
    /\ \A s \in Sockets : Said(s) => writeStream # s
    /\ \A s \in Sockets, c \in Callers :
          pc[c] = <<"StoreWrite", s>> => writeStream # s /\ frames[s] = <<>>

LEMMA CloseKeeps ==
    ASSUME TypeInv, CloseInv, UNCHANGED frames, writeStream' \in {writeStream, 0},
           \A s \in Sockets, c \in Callers :
               pc'[c] = <<"StoreWrite", s>> => pc[c] = <<"StoreWrite", s>>
    PROVE  CloseInv'
  <1>1. \A s : Said(s)' <=> Said(s)
    BY DEF Said
  <1>2. \A s \in Sockets : writeStream # s => writeStream' # s
    BY DEF Sockets
  <1>. QED  BY <1>1, <1>2 DEF CloseInv

\* A frame is written on the socket whose write half is in place.
LEMMA CloseWrites ==
    ASSUME TypeInv, CloseInv, writeStream \in Sockets, NEW f \in {"Text", "Close"},
           Put(writeStream, f), writeStream' = IF f = "Close" THEN 0 ELSE writeStream,
           \A s \in Sockets, c \in Callers :
               pc'[c] = <<"StoreWrite", s>> => pc[c] = <<"StoreWrite", s>>
    PROVE  CloseInv'
  <1>1. /\ frames[writeStream] \in Seq({"Text", "Close"}) /\ ~Said(writeStream)
        /\ frames'[writeStream] = Append(frames[writeStream], f)
        /\ \A s \in Sockets : s # writeStream => frames'[s] = frames[s]
    BY DEF TypeInv, TypeOK, CloseInv, Put
  <1>2. \A s \in Sockets : writeStream # s => writeStream' # s
    BY DEF Sockets
  <1>3. \A i \in DOMAIN frames'[writeStream] :
           \/ i \in DOMAIN frames[writeStream] /\ frames'[writeStream][i] = frames[writeStream][i]
           \/ i = Len(frames[writeStream]) + 1 /\ frames'[writeStream][i] = f
    BY <1>1
  <1>4. \A i \in DOMAIN frames[writeStream] :
           i <= Len(frames[writeStream]) /\ frames[writeStream][i] # "Close"
    BY <1>1 DEF Said
  <1>5. ASSUME NEW i \in DOMAIN frames'[writeStream], NEW j \in DOMAIN frames'[writeStream],
               i < j, frames'[writeStream][i] = "Close"
        PROVE  FALSE
    <2>1. i = Len(frames[writeStream]) + 1
      BY <1>3, <1>4, <1>5
    <2>2. j <= Len(frames[writeStream]) + 1 /\ i \in Nat /\ j \in Nat
      BY <1>1
    <2>. QED  BY <1>5, <2>1, <2>2
  <1>6. \A s \in Sockets : \A i, j \in DOMAIN frames'[s] :
          i < j /\ frames'[s][i] = "Close" => frames'[s][j] # "Text"
    BY <1>1, <1>5 DEF CloseInv
  <1>7. \A s \in Sockets : Said(s)' => writeStream' # s
    <2>1. ASSUME Said(writeStream)' PROVE writeStream' # writeStream
      <3>1. f = "Close"
        BY <1>3, <1>4, <2>1 DEF Said
      <3>. QED  BY <3>1 DEF Sockets
    <2>2. \A s \in Sockets : s # writeStream => (Said(s)' <=> Said(s))
      BY <1>1 DEF Said
    <2>. QED  BY <1>2, <2>1, <2>2 DEF CloseInv
  <1>8. \A s \in Sockets, c \in Callers :
          pc'[c] = <<"StoreWrite", s>> => writeStream' # s /\ frames'[s] = <<>>
    BY <1>1, <1>2 DEF CloseInv
  <1>. QED  BY <1>6, <1>7, <1>8 DEF CloseInv

LEMMA CallClose ==
    ASSUME TypeInv, OwnerInv, CloseInv, NEW c \in Callers,
           CallStart(c) \/ CallStop(c) \/ CallSend(c) \/ Hangup(c) \/ Write(c)
    PROVE  CloseInv'
  <1>1. \A s \in Sockets, d \in Callers :
           pc'[d] = <<"StoreWrite", s>> => pc[d] = <<"StoreWrite", s>>
    <2>1. pc' = pc \/ \E p \in {Idle, <<"Connect">>, <<"Hangup">>, <<"Write">>} : Goto(c, p)
      BY DEF CallStart, CallStop, CallSend, Hangup, Write
    <2>. QED  BY <2>1, OthersStay DEF Idle
  <1>2. CASE CallStop(c)
    <2>1. writeStream' = 0
      BY <1>2 DEF CallStop
    <2>2. CASE UNCHANGED frames
      BY <1>1, <2>1, <2>2, CloseKeeps
    <2>3. CASE ~UNCHANGED frames
      <3>1. writeStream \in Sockets /\ Put(writeStream, "Close")
        BY <1>2, <2>3 DEF CallStop, SayClose, TypeInv, TypeOK
      <3>. QED  BY <1>1, <2>1, <3>1, CloseWrites
    <2>. QED  BY <2>2, <2>3
  <1>3. CASE Write(c)
    <2>1. writeStream' = writeStream
      BY <1>3 DEF Write, streamVars
    <2>2. CASE UNCHANGED frames
      BY <1>1, <2>1, <2>2, CloseKeeps
    <2>3. CASE ~UNCHANGED frames
      <3>1. writeStream \in Sockets /\ Put(writeStream, "Text")
        BY <1>3, <2>3 DEF Write, TypeInv, TypeOK
      <3>. QED  BY <1>1, <2>1, <3>1, CloseWrites
    <2>. QED  BY <2>2, <2>3
  <1>4. CASE CallStart(c) \/ CallSend(c) \/ Hangup(c)
    <2>1. UNCHANGED <<frames, writeStream>>
      BY <1>4 DEF CallStart, CallSend, Hangup, streamVars, socketVars
    <2>. QED  BY <1>1, <2>1, CloseKeeps
  <1>. QED  BY <1>2, <1>3, <1>4

LEMMA StartClose ==
    ASSUME TypeInv, OwnerInv, CloseInv, NEW c \in Callers,
           \/ Connect(c)
           \/ \E s \in Sockets : StoreWrite(c, s) \/ StoreRead(c, s) \/ Launch(c, s)
    PROVE  CloseInv'
  <1>1. UNCHANGED frames
    BY DEF Connect, StoreWrite, StoreRead, Launch, socketVars
  <1>2. CASE Connect(c)
    <2>1. writeStream' = writeStream
      BY <1>2 DEF Connect, streamVars
    <2>2. CASE Goto(c, Idle)
      BY <1>1, <2>1, <2>2, OthersStay, CloseKeeps DEF Idle
    <2>3. ASSUME NEW s \in Sockets, wire[s] = "unused", Goto(c, <<"StoreWrite", s>>) PROVE CloseInv'
      <3>1. writeStream # s /\ frames[s] = <<>>
        BY <2>3 DEF OwnerInv
      <3>2. \A t \in Sockets, d \in Callers :
               pc'[d] = <<"StoreWrite", t>> => t = s \/ pc[d] = <<"StoreWrite", t>>
        BY <2>3, OthersStay
      <3>. QED  BY <1>1, <2>1, <3>1, <3>2 DEF CloseInv, Said
    <2>. QED  BY <1>2, <2>2, <2>3 DEF Connect
  <1>3. ASSUME NEW s \in Sockets, StoreRead(c, s) \/ Launch(c, s) PROVE CloseInv'
    <2>1. writeStream' = writeStream
      BY <1>3 DEF StoreRead, Launch
    <2>2. \A t \in Sockets, d \in Callers :
             pc'[d] = <<"StoreWrite", t>> => pc[d] = <<"StoreWrite", t>>
      BY <1>3, OthersStay DEF StoreRead, Launch, Idle
    <2>. QED  BY <1>1, <2>1, <2>2, CloseKeeps
  <1>4. ASSUME NEW s \in Sockets, StoreWrite(c, s) PROVE CloseInv'
    <2>1. writeStream' = s /\ pc[c] = <<"StoreWrite", s>> /\ Goto(c, <<"StoreRead", s>>)
      BY <1>4 DEF StoreWrite, At
    <2>2. frames[s] = <<>> /\ ~Said(s)
      BY <2>1 DEF CloseInv, Said
    <2>3. \A t \in Sockets, d \in Callers :
             pc'[d] = <<"StoreWrite", t>> => pc[d] = <<"StoreWrite", t>> /\ d # c
      BY <2>1, OthersStay
    <2>4. \A d \in Callers : d # c => pc[d] # <<"StoreWrite", s>>
      BY <2>1, OwnsPlace DEF OwnerInv
    <2>5. \A t : Said(t)' <=> Said(t)
      BY <1>1 DEF Said
    <2>. QED  BY <1>1, <2>1, <2>2, <2>3, <2>4, <2>5 DEF CloseInv
  <1>. QED  BY <1>2, <1>3, <1>4

LEMMA CloseStep == TypeInv /\ OwnerInv /\ CloseInv /\ [Next]_vars => CloseInv'
  <1>. SUFFICES ASSUME TypeInv, OwnerInv, CloseInv, [Next]_vars PROVE CloseInv'
    OBVIOUS
  <1>1. CASE (\E h \in Sockets : HandlerStep(h)) \/ Peer \/ UNCHANGED vars
    <2>1. UNCHANGED <<pc, frames, writeStream>>
      BY <1>1 DEF HandlerStep, LockRead, MakeAvailable, ReadMessage, ReadEnd, MakeUnavailable,
                  ReportClose, Peer, HangUp, Arrive, vars, streamVars, callVars, socketVars
    <2>. QED  BY <2>1, CloseKeeps
  <1>. QED  BY <1>1, CallClose, StartClose DEF Next, CallStep

\* However many starts, stops and sends overlap: no socket carries anything after
\* its Close frame.
THEOREM NothingIsLate == Spec => []NothingAfterClose
  <1>1. Init => OwnerInv
    BY DEF Init, OwnerInv, Owns, Idle, Sockets
  <1>2. Init => CloseInv
    BY DEF Init, CloseInv, Said, Idle, Sockets
  <1>3. TypeInv /\ CloseInv => NothingAfterClose
    <2>. SUFFICES ASSUME TypeInv, CloseInv, NEW s \in Sockets, NEW i \in 1 .. MaxCalls,
                         NEW j \in 1 .. MaxCalls, i < j, j <= Len(frames[s]),
                         frames[s][i] = "Close"
                  PROVE  frames[s][j] # "Text"
      BY DEF NothingAfterClose
    <2>1. frames[s] \in Seq({"Text", "Close"})
      BY DEF TypeInv, TypeOK
    <2>2. i \in DOMAIN frames[s] /\ j \in DOMAIN frames[s]
      BY <2>1
    <2>. QED  BY <2>2 DEF CloseInv
  <1>. QED  BY <1>1, <1>2, <1>3, InitTypes, TypeStep, OwnerStep, CloseStep, PTL DEF Spec

-----------------------------------------------------------------------------
(* is_available *)

LEMMA ServedStep == TypeInv /\ AvailableIsServed /\ [Next]_vars => AvailableIsServed'
  <1>. DEFINE Serves(h) == handler[h] \in {"Lock", "Available", "Read", "Down"}
  <1>. SUFFICES ASSUME TypeInv, AvailableIsServed, [Next]_vars PROVE AvailableIsServed'
    OBVIOUS
  <1>1. ASSUME available' = available, \A h \in Sockets : Serves(h) => Serves(h)'
        PROVE  AvailableIsServed'
    BY <1>1 DEF AvailableIsServed
  <1>2. ASSUME NEW c \in Callers, CallStart(c) \/ CallStop(c) \/ CallSend(c) PROVE AvailableIsServed'
    BY <1>1, <1>2 DEF CallStart, CallStop, CallSend, streamVars, handlerVars
  <1>3. ASSUME NEW c \in Callers, CallStep(c) PROVE AvailableIsServed'
    <2>1. CASE Connect(c) \/ Write(c) \/ \E s \in Sockets : StoreWrite(c, s) \/ StoreRead(c, s)
      BY <1>1, <2>1 DEF Connect, Write, StoreWrite, StoreRead, streamVars, handlerVars
    <2>2. CASE Hangup(c)
      BY <2>2 DEF Hangup, AvailableIsServed
    <2>3. ASSUME NEW s \in Sockets, Launch(c, s) PROVE AvailableIsServed'
      BY <2>3 DEF Launch, AvailableIsServed, TypeInv, TypeOK
    <2>. QED  BY <1>3, <2>1, <2>2, <2>3 DEF CallStep
  <1>4. ASSUME NEW h \in Sockets, HandlerStep(h) PROVE AvailableIsServed'
    <2>1. CASE MakeUnavailable(h)
      BY <2>1 DEF MakeUnavailable, AvailableIsServed
    <2>2. CASE MakeAvailable(h)
      BY <2>2 DEF MakeAvailable, Step, AvailableIsServed, TypeInv, TypeOK
    <2>3. CASE LockRead(h) \/ ReadMessage(h) \/ ReadEnd(h) \/ ReportClose(h)
      <3>1. available' = available
        BY <2>3 DEF LockRead, ReadMessage, ReadEnd, ReportClose, streamVars
      <3>2. \/ handler' = handler
            \/ /\ handler[h] \in {"Lock", "Read"}
               /\ \E p \in {"Available", "Down"} : handler' = [handler EXCEPT ![h] = p]
            \/ handler[h] = "Close" /\ handler' = [handler EXCEPT ![h] = "done"]
        BY <2>3, ReadShape DEF LockRead, ReadEnd, ReportClose, Step
      <3>. QED  BY <1>1, <3>1, <3>2 DEF TypeInv, TypeOK
    <2>. QED  BY <1>4, <2>1, <2>2, <2>3 DEF HandlerStep
  <1>5. CASE Peer \/ UNCHANGED vars
    BY <1>1, <1>5 DEF Peer, HangUp, Arrive, vars, streamVars, handlerVars
  <1>. QED  BY <1>2, <1>3, <1>4, <1>5 DEF Next

\* Of the four that write is_available, in any order: the last handler to end
\* leaves it unset.
THEOREM ServedWhileAvailable == Spec => []AvailableIsServed
  <1>1. Init => AvailableIsServed
    BY DEF Init, AvailableIsServed
  <1>. QED  BY <1>1, InitTypes, TypeStep, ServedStep, PTL DEF Spec

-----------------------------------------------------------------------------
(* What the listeners hear *)

Busy(h) == handler[h] \in {"Available", "Read", "Down", "Close"}

\* One handler at a time is past its lock, and the last event is one of its own;
\* a handler not yet past it has not been heard of.
LogInv ==
    /\ \A h \in Sockets : Busy(h) <=> readLock = h
    /\ readLock = 0 => Events!Quiet
    /\ \A h \in Sockets : handler[h] \in {"Available", "Read"} => Events!Serving(h, {"open", "message"})
    /\ \A h \in Sockets : Busy(h) => Events!Serving(h, {"open", "message", "error"})
    /\ \A h \in Sockets : handler[h] \in {"none", "Lock"} => Events!Unknown(h)

LEMMA LogKeeps ==
    ASSUME LogInv, UNCHANGED <<readLock, log>>,
           \A h \in Sockets : \/ handler'[h] = handler[h]
                              \/ handler[h] = "none" /\ handler'[h] = "Lock"
                              \/ handler[h] = "Available" /\ handler'[h] = "Read"
                              \/ handler[h] = "Read" /\ handler'[h] = "Down"
                              \/ handler[h] = "Down" /\ handler'[h] = "Close"
    PROVE  LogInv'
  <1>1. \A h \in Sockets : Busy(h)' <=> Busy(h)
    BY DEF Busy
  <1>2. \A h : /\ \A kinds : Events!Serving(h, kinds)' <=> Events!Serving(h, kinds)
               /\ Events!Unknown(h)' <=> Events!Unknown(h)
               /\ Events!Quiet' <=> Events!Quiet
    BY DEF Events!Serving, Events!Unknown, Events!Quiet
  <1>. QED  BY <1>1, <1>2 DEF LogInv

\* What one more event does to the log.
LEMMA LogGrows ==
    ASSUME TypeInv, NEW h \in Sockets, NEW kind \in {"open", "message", "error", "close"},
           Heard(kind, h)
    PROVE  /\ \A kinds : kind \in kinds => Events!Serving(h, kinds)'
           /\ kind = "close" => Events!Quiet'
           /\ \A g : g # h /\ Events!Unknown(g) => Events!Unknown(g)'
  <1>1. log \in Seq({"open", "message", "error", "close"} \X Sockets) /\ log' = Append(log, <<kind, h>>)
    BY DEF TypeInv, TypeOK, Heard
  <1>2. /\ log' # <<>> /\ log'[Len(log')] = <<kind, h>>
        /\ \A i \in DOMAIN log' : log'[i] = <<kind, h>> \/ (i \in DOMAIN log /\ log'[i] = log[i])
    BY <1>1
  <1>. QED  BY <1>2 DEF Events!Serving, Events!Unknown, Events!Quiet

LEMMA HandlerLog ==
    ASSUME TypeInv, LogInv, NEW h \in Sockets, HandlerStep(h)
    PROVE  LogInv' /\ [Events!Next]_log
  <1>1. CASE LockRead(h)
    <2>1. /\ readLock = 0 /\ readLock' = h /\ Heard("open", h) /\ handler[h] = "Lock"
          /\ handler' = [handler EXCEPT ![h] = "Available"]
      BY <1>1 DEF LockRead, Step
    <2>2. /\ handler'[h] = "Available" /\ Busy(h)' /\ \A g \in Sockets : g # h => handler'[g] = handler[g]
      BY <2>1 DEF TypeInv, TypeOK, Busy
    <2>3. \A g \in Sockets : ~Busy(g) /\ (g # h => ~Busy(g)')
      BY <2>1, <2>2 DEF LogInv, Sockets, Busy
    <2>4. /\ \A kinds : "open" \in kinds => Events!Serving(h, kinds)'
          /\ \A g : g # h /\ Events!Unknown(g) => Events!Unknown(g)'
      BY <2>1, LogGrows
    <2>5. LogInv'
      BY <2>1, <2>2, <2>3, <2>4 DEF LogInv, Busy, Sockets
    <2>6. Events!Open(h)
      BY <2>1 DEF LogInv, Events!Open, Events!Happens, Heard
    <2>. QED  BY <2>5, <2>6 DEF Events!Next
  <1>2. CASE MakeAvailable(h) \/ MakeUnavailable(h)
    <2>1. UNCHANGED <<readLock, log>>
      BY <1>2 DEF MakeAvailable, MakeUnavailable
    <2>2. \/ handler[h] = "Available" /\ handler' = [handler EXCEPT ![h] = "Read"]
          \/ handler[h] = "Down" /\ handler' = [handler EXCEPT ![h] = "Close"]
      BY <1>2 DEF MakeAvailable, MakeUnavailable, Step
    <2>. QED  BY <2>1, <2>2, LogKeeps DEF TypeInv, TypeOK
  <1>3. ASSUME handler[h] = "Read", UNCHANGED readLock, NEW kind \in {"message", "error"},
               Heard(kind, h),
               \/ kind = "message" /\ handler' = handler
               \/ handler' = [handler EXCEPT ![h] = "Down"]
        PROVE  LogInv' /\ [Events!Next]_log
    <2>1. \A g \in Sockets : (Busy(g)' <=> Busy(g)) /\ (g # h => handler'[g] = handler[g])
      BY <1>3 DEF TypeInv, TypeOK, Busy
    <2>2. /\ \A kinds : kind \in kinds => Events!Serving(h, kinds)'
          /\ \A g : g # h /\ Events!Unknown(g) => Events!Unknown(g)'
      BY <1>3, LogGrows
    <2>3. readLock = h /\ \A g \in Sockets : g # h => ~Busy(g)
      BY <1>3 DEF LogInv, Busy
    <2>4. handler'[h] = "Down" \/ (kind = "message" /\ handler'[h] = "Read")
      BY <1>3 DEF TypeInv, TypeOK
    <2>5. LogInv'
      <3>1. (\A g \in Sockets : Busy(g)' <=> readLock' = g) /\ readLock' # 0
        BY <1>3, <2>1, <2>3 DEF LogInv, Sockets
      <3>2. \A g \in Sockets : handler'[g] \in {"Available", "Read"} => Events!Serving(g, {"open", "message"})'
        BY <2>1, <2>2, <2>3, <2>4 DEF Busy
      <3>3. \A g \in Sockets : Busy(g)' => Events!Serving(g, {"open", "message", "error"})'
        BY <2>1, <2>2, <2>3
      <3>4. \A g \in Sockets : handler'[g] \in {"none", "Lock"} => Events!Unknown(g)'
        BY <2>1, <2>2, <2>4 DEF LogInv
      <3>. QED  BY <3>1, <3>2, <3>3, <3>4 DEF LogInv
    <2>6. Events!Message(h) \/ Events!Error(h)
      BY <1>3 DEF LogInv, Events!Message, Events!Error, Events!Happens, Heard
    <2>. QED  BY <2>5, <2>6 DEF Events!Next
  <1>4. ASSUME handler[h] = "Read", UNCHANGED <<readLock, log>>,
               handler' \in {handler, [handler EXCEPT ![h] = "Down"]}
        PROVE  LogInv' /\ [Events!Next]_log
    BY <1>4, LogKeeps DEF TypeInv, TypeOK
  <1>5. CASE ReadMessage(h)
    <2>1. UNCHANGED readLock
      BY <1>5 DEF ReadMessage, streamVars
    <2>. QED  BY <1>3, <1>4, <1>5, <2>1, ReadShape DEF Step
  <1>6. CASE ReadEnd(h)
    BY <1>3, <1>4, <1>6 DEF ReadEnd, Step, streamVars
  <1>7. CASE ReportClose(h)
    <2>1. /\ readLock' = 0 /\ Heard("close", h) /\ handler[h] = "Close"
          /\ handler' = [handler EXCEPT ![h] = "done"]
      BY <1>7 DEF ReportClose, Step
    <2>2. handler'[h] = "done" /\ \A g \in Sockets : g # h => handler'[g] = handler[g]
      BY <2>1 DEF TypeInv, TypeOK
    <2>3. \A g \in Sockets : ~Busy(g)'
      BY <2>1, <2>2 DEF LogInv, Busy
    <2>4. Events!Quiet' /\ \A g : g # h /\ Events!Unknown(g) => Events!Unknown(g)'
      BY <2>1, LogGrows
    <2>5. LogInv'
      BY <2>1, <2>2, <2>3, <2>4 DEF LogInv, Busy, Sockets
    <2>6. Events!Close(h)
      BY <2>1 DEF LogInv, Busy, Events!Close, Events!Happens, Heard
    <2>. QED  BY <2>5, <2>6 DEF Events!Next
  <1>. QED  BY <1>1, <1>2, <1>5, <1>6, <1>7 DEF HandlerStep

LEMMA LogStep ==
    TypeInv /\ OwnerInv /\ LogInv /\ [Next]_vars => LogInv' /\ [Events!Next]_log
  <1>. SUFFICES ASSUME TypeInv, OwnerInv, LogInv, [Next]_vars PROVE LogInv' /\ [Events!Next]_log
    OBVIOUS
  <1>1. ASSUME NEW c \in Callers, NEW s \in Sockets, Launch(c, s) PROVE LogInv' /\ [Events!Next]_log
    <2>1. /\ handler[s] = "none" /\ handler' = [handler EXCEPT ![s] = "Lock"]
          /\ UNCHANGED <<readLock, log>>
      BY <1>1, OwnsPlace DEF Launch, At, OwnerInv
    <2>. QED  BY <2>1, LogKeeps DEF TypeInv, TypeOK
  <1>2. ASSUME NEW c \in Callers,
               \/ CallStart(c) \/ CallStop(c) \/ CallSend(c)
               \/ Connect(c) \/ Hangup(c) \/ Write(c)
               \/ \E s \in Sockets : StoreWrite(c, s) \/ StoreRead(c, s)
        PROVE  UNCHANGED <<readLock, log, handler>>
    BY <1>2 DEF CallStart, CallStop, CallSend, Connect, Hangup, Write, StoreWrite, StoreRead,
                streamVars, handlerVars
  <1>3. CASE Peer \/ UNCHANGED vars
    BY <1>3, LogKeeps DEF Peer, HangUp, Arrive, vars, streamVars, handlerVars
  <1>. QED  BY <1>1, <1>2, <1>3, LogKeeps, HandlerLog DEF Next, CallStep

\* However starts and stops overlap, the connector implements ConnectorEvents:
\* the events of two connections never mix, and an error is heard once.
THEOREM Implements == Spec => ImplementsEvents
  <1>1. Init => OwnerInv
    BY DEF Init, OwnerInv, Owns, Idle, Sockets
  <1>2. Init => LogInv /\ Events!Init
    BY DEF Init, LogInv, Busy, Sockets, Events!Init, Events!Quiet, Events!Unknown
  <1>. QED  BY <1>1, <1>2, InitTypes, TypeStep, OwnerStep, LogStep, PTL
            DEF Spec, ImplementsEvents, Events!Spec
=============================================================================
