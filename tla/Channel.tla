------------------------------ MODULE Channel -------------------------------
(***************************************************************************)
(* One DxLinkWebSocketChannel (src/src/websocket_client/channel.rs): its   *)
(* state, its listeners, the bounded mpsc queue that send, close and       *)
(* request fill, and the task that empties the queue (spawned by           *)
(* open_channel_internal, src/src/websocket_client/client.rs).             *)
(*                                                                         *)
(* A call is a task of its own.  It checks the state, waits for room in    *)
(* the queue (at most 30 s), and only then changes the state: every await  *)
(* and every lock taken anew is a step of the model.                       *)
(***************************************************************************)
EXTENDS Naturals, Sequences, FiniteSets, ChannelState

CONSTANTS Callers,     \* tasks that use the channel
          Listeners,   \* ids handed out by add_..._listener, each used once
          Capacity,    \* room in the mpsc queue (32 in the code)
          MaxCalls     \* bound: calls each caller makes

ASSUME ChannelAssumption ==
    /\ IsFiniteSet(Callers)
    /\ Capacity \in Nat \ {0}
    /\ MaxCalls \in Nat \ {0}

VARIABLES state,      \* state: DxLinkChannelState
          queue,      \* the messages in the mpsc queue
          taken,      \* the messages the forwarder task has received
          receiver,   \* the forwarder still holds the receiving half
          pc,         \* where each caller's current call is
          calls,      \* how many calls each caller has started
          result,     \* what each call returned
          hears,      \* message_listeners: "new", "on" or "off"
          watches,    \* state_listeners: "new", "on" or "off"
          told,       \* the last state each state listener was called with
          late        \* message listeners added once the channel was Closed

vars == <<state, queue, taken, receiver, pc, calls, result, hears, watches, told, late>>

Calls == Callers \X (1 .. MaxCalls)

\* Refused stands for the errors found before anything is done: NotReady,
\* UnsupportedMessageType, InvalidPayload and Closed.
Results == {"None", "Pending", "Ok", "Refused", "SendError", "Timeout"}

\* What a call puts on the queue: data and ERROR messages are PAYLOAD.
Kinds == {"PAYLOAD", "CANCEL", "REQUEST"}

Messages == [kind : Kinds, call : Calls]

\* A waiting call is named by the message it wants to enqueue and by what it
\* does afterwards; a closing call has three more steps.
Waiting == {"SendPayload", "SendCancel", "Close", "Request"}
PCs == Waiting \cup {"Idle", "SetClosed", "ClearMessages", "ClearStates", "SetRequested"}

ListenerStates == {"new", "on", "off"}

Current(c) == <<c, calls[c]>>

Kind(p) == CASE p = "SendPayload" -> "PAYLOAD"
             [] p = "SendCancel"  -> "CANCEL"
             [] p = "Close"       -> "CANCEL"
             [] p = "Request"     -> "REQUEST"

Accepted == taken \cup {queue[i] : i \in DOMAIN queue}

Cancelled == \E m \in Accepted : m.kind = "CANCEL"

-----------------------------------------------------------------------------
\* Starting a call.  Each begins with the checks the code makes before its
\* first await: a call that fails them returns at once.

Return(c, r) == result' = [result EXCEPT ![<<c, calls'[c]>>] = r]

Begin(c) ==
    /\ pc[c] = "Idle"
    /\ calls[c] < MaxCalls
    /\ calls' = [calls EXCEPT ![c] = @ + 1]
    /\ UNCHANGED <<state, queue, taken, receiver, hears, watches, told, late>>

\* send (and error, which sends an ERROR message).  The argument is what the
\* checks tell apart: a data message, a CHANNEL_CANCEL, or one that is refused,
\* its type not in SUPPORTED_MESSAGE_TYPES or its payload not of that type.
CallSend(c, arg) ==
    /\ Begin(c)
    /\ IF state = "Opened" /\ arg # "Refused"
       THEN Return(c, "Pending") /\ pc' = [pc EXCEPT ![c] = arg]
       ELSE Return(c, "Refused") /\ UNCHANGED pc

CallClose(c) ==
    /\ Begin(c)
    /\ IF state = "Closed"
       THEN Return(c, "Refused") /\ UNCHANGED pc
       ELSE Return(c, "Pending") /\ pc' = [pc EXCEPT ![c] = "Close"]

\* request does not look at the state.
CallRequest(c) ==
    /\ Begin(c)
    /\ Return(c, "Pending")
    /\ pc' = [pc EXCEPT ![c] = "Request"]

-----------------------------------------------------------------------------
\* Waiting for the queue: timeout(30 s, message_sender.send(msg)).

\* Where a call goes once its message is in the queue.
Accepting(p) == CASE p = "Close"   -> "SetClosed"
                  [] p = "Request" -> "SetRequested"
                  [] OTHER         -> "Idle"

\* Mutant: a try_send whose failure on a full queue is ignored.
EnqueueLossy(c) ==
    /\ pc[c] \in Waiting
    /\ receiver
    /\ queue' = IF Len(queue) < Capacity
                THEN Append(queue, [kind |-> Kind(pc[c]), call |-> Current(c)])
                ELSE queue
    /\ pc' = [pc EXCEPT ![c] = Accepting(@)]
    /\ result' = [result EXCEPT ![Current(c)] = "Ok"]
    /\ UNCHANGED <<state, taken, receiver, calls, hears, watches, told, late>>

\* Mutant: an unbounded queue.
EnqueueUnbounded(c) ==
    /\ pc[c] \in Waiting
    /\ receiver
    /\ queue' = Append(queue, [kind |-> Kind(pc[c]), call |-> Current(c)])
    /\ pc' = [pc EXCEPT ![c] = Accepting(@)]
    /\ result' = [result EXCEPT ![Current(c)] = "Ok"]
    /\ UNCHANGED <<state, taken, receiver, calls, hears, watches, told, late>>

\* The queue had room: a send is done, close and request go on.
Enqueue(c) ==
    /\ pc[c] \in Waiting
    /\ receiver
    /\ Len(queue) < Capacity
    /\ queue' = Append(queue, [kind |-> Kind(pc[c]), call |-> Current(c)])
    /\ pc' = [pc EXCEPT ![c] = Accepting(@)]
    /\ result' = [result EXCEPT ![Current(c)] = "Ok"]
    /\ UNCHANGED <<state, taken, receiver, calls, hears, watches, told, late>>

\* Mutant: a timed-out close that marks the channel closed all the same.
AfterTimeoutClosed(p) == IF p = "Close" THEN "SetClosed" ELSE "Idle"

\* Where a call goes once it has given up: it returns, its work undone.
AfterTimeout(p) == "Idle"

\* Mutant: no timeout around the queue's send.
TimedOutNever(c) == FALSE

\* A call can have waited in vain only while the queue is full, counting the
\* permits other waiting calls may hold.
TimedOut(c) ==
    LET others == {d \in Callers \ {c} : pc[d] \in Waiting}
    IN  Len(queue) + Cardinality(others) >= Capacity

\* The 30 s are over.
GiveUp(c) ==
    /\ pc[c] \in Waiting
    /\ receiver
    /\ TimedOut(c)
    /\ pc' = [pc EXCEPT ![c] = AfterTimeout(@)]
    /\ result' = [result EXCEPT ![Current(c)] = "Timeout"]
    /\ UNCHANGED <<state, queue, taken, receiver, calls, hears, watches, told, late>>

\* The receiving half is gone: the send fails at once.
FailSend(c) ==
    /\ pc[c] \in Waiting
    /\ ~receiver
    /\ pc' = [pc EXCEPT ![c] = "Idle"]
    /\ result' = [result EXCEPT ![Current(c)] = "SendError"]
    /\ UNCHANGED <<state, queue, taken, receiver, calls, hears, watches, told, late>>

-----------------------------------------------------------------------------
\* set_state holds the state lock while it validates, writes and calls every
\* state listener, so that no other call sees the new state before they do.

\* Mutant: the listeners hear of a transition that was then refused.
TellRefused(new) ==
    [l \in Listeners |-> IF watches[l] = "on" THEN new ELSE told[l]]

Tell(new) ==
    [l \in Listeners |->
        IF watches[l] = "on" /\ SetState(state, new) # state THEN new ELSE told[l]]

ChangeState(new) == state' = SetState(state, new) /\ told' = Tell(new)

\* process_status_opened, on a CHANNEL_OPENED from the server.
ProcessOpened ==
    /\ ChangeState("Opened")
    /\ UNCHANGED <<queue, taken, receiver, pc, calls, result, hears, watches, late>>

\* process_status_requested, called for every channel by a reconnect.
ProcessRequested ==
    /\ ChangeState("Requested")
    /\ UNCHANGED <<queue, taken, receiver, pc, calls, result, hears, watches, late>>

\* The end of request: process_status_requested.
SetRequested(c) ==
    /\ pc[c] = "SetRequested"
    /\ ChangeState("Requested")
    /\ pc' = [pc EXCEPT ![c] = "Idle"]
    /\ UNCHANGED <<queue, taken, receiver, calls, result, hears, watches, late>>

\* The end of close, process_status_closed: set_state(Closed), then clear,
\* which empties the message listeners and then the state listeners.  The
\* error listeners stay.  A second close repeats all of it.
SetClosed(c) ==
    /\ pc[c] = "SetClosed"
    /\ ChangeState("Closed")
    /\ pc' = [pc EXCEPT ![c] = "ClearMessages"]
    /\ UNCHANGED <<queue, taken, receiver, calls, result, hears, watches, late>>

\* Mutant: clear forgets the listeners.
KeepAll(f) == f

Cleared(f) == [l \in Listeners |-> IF f[l] = "on" THEN "off" ELSE f[l]]

ClearMessages(c) ==
    /\ pc[c] = "ClearMessages"
    /\ hears' = Cleared(hears)
    /\ pc' = [pc EXCEPT ![c] = "ClearStates"]
    /\ UNCHANGED <<state, queue, taken, receiver, calls, result, watches, told, late>>

ClearStates(c) ==
    /\ pc[c] = "ClearStates"
    /\ watches' = Cleared(watches)
    /\ pc' = [pc EXCEPT ![c] = "Idle"]
    /\ UNCHANGED <<state, queue, taken, receiver, calls, result, hears, told, late>>

-----------------------------------------------------------------------------
\* The listeners' registration: a Uuid is never reused.

AddMessageListener(l) ==
    /\ hears[l] = "new"
    /\ hears' = [hears EXCEPT ![l] = "on"]
    /\ late' = IF state = "Closed" THEN late \cup {l} ELSE late
    /\ UNCHANGED <<state, queue, taken, receiver, pc, calls, result, watches, told>>

RemoveMessageListener(l) ==
    /\ hears[l] = "on"
    /\ hears' = [hears EXCEPT ![l] = "off"]
    /\ UNCHANGED <<state, queue, taken, receiver, pc, calls, result, watches, told, late>>

AddStateListener(l) ==
    /\ watches[l] = "new"
    /\ watches' = [watches EXCEPT ![l] = "on"]
    /\ UNCHANGED <<state, queue, taken, receiver, pc, calls, result, hears, told, late>>

RemoveStateListener(l) ==
    /\ watches[l] = "on"
    /\ watches' = [watches EXCEPT ![l] = "off"]
    /\ UNCHANGED <<state, queue, taken, receiver, pc, calls, result, hears, told, late>>

-----------------------------------------------------------------------------
\* The forwarder: `while let Some(msg) = rx.recv().await`.  What it does with
\* a message is the client's business (module Client).
Forward ==
    /\ receiver
    /\ queue # <<>>
    /\ queue' = Tail(queue)
    /\ taken' = taken \cup {Head(queue)}
    /\ UNCHANGED <<state, receiver, pc, calls, result, hears, watches, told, late>>

\* The receiving half is dropped, with what it had not received: the runtime
\* is shutting down.
DropReceiver ==
    /\ receiver
    /\ receiver' = FALSE
    /\ UNCHANGED <<state, queue, taken, pc, calls, result, hears, watches, told, late>>

-----------------------------------------------------------------------------
Init ==
    /\ state = "Requested"
    /\ queue = <<>>
    /\ taken = {}
    /\ receiver = TRUE
    /\ pc = [c \in Callers |-> "Idle"]
    /\ calls = [c \in Callers |-> 0]
    /\ result = [k \in Calls |-> "None"]
    /\ hears = [l \in Listeners |-> "new"]
    /\ watches = [l \in Listeners |-> "new"]
    /\ told = [l \in Listeners |-> "None"]
    /\ late = {}

Start(c) ==
    \/ \E arg \in {"SendPayload", "SendCancel", "Refused"} : CallSend(c, arg)
    \/ CallClose(c)
    \/ CallRequest(c)

\* Every step a call in progress can take.
Progress(c) ==
    \/ Enqueue(c) \/ GiveUp(c) \/ FailSend(c)
    \/ SetRequested(c) \/ SetClosed(c) \/ ClearMessages(c) \/ ClearStates(c)

Environment ==
    \/ ProcessOpened \/ ProcessRequested
    \/ Forward \/ DropReceiver
    \/ \E l \in Listeners :
            \/ AddMessageListener(l) \/ RemoveMessageListener(l)
            \/ AddStateListener(l) \/ RemoveStateListener(l)

Next == (\E c \in Callers : Start(c) \/ Progress(c)) \/ Environment

Spec == Init /\ [][Next]_vars

\* The runtime polls every call it holds and its timers fire; nothing is
\* assumed of the forwarder, whose socket write may block for ever.
FairSpec == Spec /\ \A c \in Callers : WF_vars(Progress(c))

-----------------------------------------------------------------------------
TypeOK ==
    /\ state \in ChannelStates
    /\ queue \in Seq(Messages) /\ Len(queue) <= Capacity
    /\ taken \subseteq Messages
    /\ receiver \in BOOLEAN
    /\ pc \in [Callers -> PCs]
    /\ calls \in [Callers -> 0 .. MaxCalls]
    /\ result \in [Calls -> Results]
    /\ hears \in [Listeners -> ListenerStates]
    /\ watches \in [Listeners -> ListenerStates]
    /\ told \in [Listeners -> ChannelStates \cup {"None"}]
    /\ late \subseteq Listeners

\* The channel lives the life ChannelLifecycle promises: whichever calls,
\* server messages and reconnects interleave, set_state never takes it
\* backwards, and close closes it only when its CHANNEL_CANCEL is in the queue.
Life == INSTANCE ChannelLifecycle WITH life <- state, cancelled <- Cancelled

ImplementsLifecycle == Life!Spec

\* The answer of send, close and request is the truth about the queue: a call
\* that returned Ok has its message with the forwarder or on the way to it, and
\* one that failed, by timeout or otherwise, has left no message behind.
OkIffAccepted ==
    \A k \in Calls : result[k] = "Ok" <=> \E m \in Accepted : m.call = k

\* Data is accepted only for a channel that the server has opened, however a
\* reconnect or a request meddles with the state.
PayloadNeedsOpen ==
    (\E m \in Accepted : m.kind = "PAYLOAD") => state # "Requested"

\* Once the channel is closed and every close has got past emptying the
\* message listeners, the only listeners left are those added to a channel
\* already closed (nothing in add_message_listener refuses them).
ClosedIsDeaf ==
    (state = "Closed" /\ \A c \in Callers : pc[c] # "ClearMessages")
        => {l \in Listeners : hears[l] = "on"} \subseteq late

\* A state listener that was ever called knows the channel's present state: no
\* change passes it by and it hears of no transition that was refused.
ListenersInformed ==
    \A l \in Listeners : watches[l] = "on" /\ told[l] # "None" => told[l] = state

\* Every send, close and request returns, though the queue may be full and its
\* reader stuck.
CallsReturn == \A c \in Callers : pc[c] # "Idle" ~> pc[c] = "Idle"
=============================================================================
