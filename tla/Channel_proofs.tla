--------------------------- MODULE Channel_proofs ---------------------------
(***************************************************************************)
(* Proofs about Channel, for any callers, listeners, queue capacity and    *)
(* number of calls.                                                        *)
(***************************************************************************)
EXTENDS Channel, TLAPS, SequenceTheorems

-----------------------------------------------------------------------------
(* Types.  A call's number is in range only because a caller that is in the *)
(* middle of a call has started one.                                        *)

InCall == \A c \in Callers : pc[c] # "Idle" => calls[c] >= 1

TypeInv == TypeOK /\ InCall

\* The message Enqueue puts on the queue.
Msg(c) == [kind |-> Kind(pc[c]), call |-> Current(c)]

\* A transition of set_state leads to one of the three states.
LEMMA SetStateType ==
    ASSUME NEW s \in ChannelStates, NEW t \in ChannelStates
    PROVE  SetState(s, t) \in ChannelStates
  BY DEF SetState

\* Telling the listeners keeps told a record of states.
LEMMA TellType ==
    ASSUME TypeOK, NEW t \in ChannelStates
    PROVE  Tell(t) \in [Listeners -> ChannelStates \cup {"None"}]
  BY DEF TypeOK, Tell

\* A call in progress is one of Calls, and what it enqueues a message.
LEMMA CurrentType ==
    ASSUME TypeInv, NEW c \in Callers, pc[c] # "Idle"
    PROVE  Current(c) \in Calls /\ (pc[c] \in Waiting => Msg(c) \in Messages)
  <1>1. calls[c] \in 1 .. MaxCalls
    BY ChannelAssumption DEF TypeInv, TypeOK, InCall
  <1>2. Current(c) \in Calls
    BY <1>1 DEF Current, Calls
  <1>3. pc[c] \in Waiting => Kind(pc[c]) \in Kinds
    BY DEF Waiting, Kind, Kinds
  <1>. QED  BY <1>2, <1>3 DEF Msg, Messages

\* Types hold initially.
LEMMA TypeInvInit == Init => TypeInv
  BY ChannelAssumption
  DEF Init, TypeInv, TypeOK, InCall, ChannelStates, PCs, Results, ListenerStates

\* Starting a call preserves them.
LEMMA StartType ==
    ASSUME TypeInv, NEW c \in Callers, Start(c)
    PROVE  TypeInv'
  <1>1. /\ pc[c] = "Idle" /\ calls[c] < MaxCalls
        /\ calls' = [calls EXCEPT ![c] = @ + 1]
        /\ UNCHANGED <<state, queue, taken, receiver, hears, watches, told, late>>
    BY DEF Start, CallSend, CallClose, CallRequest, Begin
  <1>2. calls[c] \in 0 .. MaxCalls /\ calls'[c] = calls[c] + 1
    BY <1>1 DEF TypeInv, TypeOK
  <1>3. calls' \in [Callers -> 0 .. MaxCalls] /\ calls'[c] \in 1 .. MaxCalls
    BY <1>1, <1>2, ChannelAssumption DEF TypeInv, TypeOK
  <1>4. \E r \in Results : result' = [result EXCEPT ![<<c, calls'[c]>>] = r]
    BY DEF Start, CallSend, CallClose, CallRequest, Return, Results
  <1>5. result' \in [Calls -> Results]
    BY <1>4 DEF TypeInv, TypeOK
  <1>6. pc' = pc \/ \E p \in PCs : pc' = [pc EXCEPT ![c] = p]
    BY DEF Start, CallSend, CallClose, CallRequest, PCs, Waiting
  <1>7. pc' \in [Callers -> PCs] /\ \A d \in Callers \ {c} : pc'[d] = pc[d]
    BY <1>6 DEF TypeInv, TypeOK
  <1>8. InCall'
    BY <1>1, <1>2, <1>3, <1>7 DEF InCall, TypeInv, TypeOK
  <1>. QED  BY <1>1, <1>3, <1>5, <1>7, <1>8 DEF TypeInv, TypeOK

\* Every step of a call in progress preserves them.
LEMMA ProgressType ==
    ASSUME TypeInv, NEW c \in Callers, Progress(c)
    PROVE  TypeInv'
  <1>. USE DEF TypeInv
  <1>1. CASE Enqueue(c)
    <2>1. Msg(c) \in Messages /\ Current(c) \in Calls
      BY <1>1, CurrentType DEF Enqueue, Waiting
    <2>2. queue' = Append(queue, Msg(c)) /\ Len(queue) < Capacity
      BY <1>1 DEF Enqueue, Msg
    <2>3. queue' \in Seq(Messages) /\ Len(queue') <= Capacity
      BY <2>1, <2>2, ChannelAssumption DEF TypeOK
    <2>4. pc' \in [Callers -> PCs]
      BY <1>1 DEF Enqueue, TypeOK, PCs, Accepting
    <2>5. result' \in [Calls -> Results]
      BY <1>1, <2>1 DEF Enqueue, TypeOK, Results
    <2>6. InCall'
      BY <1>1 DEF Enqueue, InCall, TypeOK, Waiting
    <2>. QED  BY <1>1, <2>3, <2>4, <2>5, <2>6 DEF Enqueue, TypeOK
  <1>2. CASE GiveUp(c)
    <2>1. Current(c) \in Calls
      BY <1>2, CurrentType DEF GiveUp, Waiting
    <2>2. pc' \in [Callers -> PCs] /\ result' \in [Calls -> Results]
      BY <1>2, <2>1 DEF GiveUp, TypeOK, Results, PCs, AfterTimeout
    <2>3. InCall'
      BY <1>2 DEF GiveUp, InCall, TypeOK, AfterTimeout
    <2>. QED  BY <1>2, <2>2, <2>3 DEF GiveUp, TypeOK
  <1>3. CASE FailSend(c)
    <2>1. Current(c) \in Calls
      BY <1>3, CurrentType DEF FailSend, Waiting
    <2>2. pc' \in [Callers -> PCs] /\ result' \in [Calls -> Results]
      BY <1>3, <2>1 DEF FailSend, TypeOK, Results, PCs
    <2>3. InCall'
      BY <1>3 DEF FailSend, InCall, TypeOK
    <2>. QED  BY <1>3, <2>2, <2>3 DEF FailSend, TypeOK
  <1>4. CASE SetRequested(c)
    <2>1. state' \in ChannelStates /\ told' \in [Listeners -> ChannelStates \cup {"None"}]
      BY <1>4, SetStateType, TellType DEF SetRequested, ChangeState, TypeOK, ChannelStates
    <2>2. pc' \in [Callers -> PCs] /\ InCall'
      BY <1>4 DEF SetRequested, TypeOK, PCs, InCall
    <2>. QED  BY <1>4, <2>1, <2>2 DEF SetRequested, TypeOK
  <1>5. CASE SetClosed(c)
    <2>1. state' \in ChannelStates /\ told' \in [Listeners -> ChannelStates \cup {"None"}]
      BY <1>5, SetStateType, TellType DEF SetClosed, ChangeState, TypeOK, ChannelStates
    <2>2. pc' \in [Callers -> PCs] /\ InCall'
      BY <1>5 DEF SetClosed, TypeOK, PCs, InCall
    <2>. QED  BY <1>5, <2>1, <2>2 DEF SetClosed, TypeOK
  <1>6. CASE ClearMessages(c)
    <2>1. pc' \in [Callers -> PCs] /\ InCall'
      BY <1>6 DEF ClearMessages, TypeOK, PCs, InCall
    <2>2. hears' \in [Listeners -> ListenerStates]
      BY <1>6 DEF ClearMessages, Cleared, TypeOK, ListenerStates
    <2>. QED  BY <1>6, <2>1, <2>2 DEF ClearMessages, TypeOK
  <1>7. CASE ClearStates(c)
    <2>1. pc' \in [Callers -> PCs] /\ InCall'
      BY <1>7 DEF ClearStates, TypeOK, PCs, InCall
    <2>2. watches' \in [Listeners -> ListenerStates]
      BY <1>7 DEF ClearStates, Cleared, TypeOK, ListenerStates
    <2>. QED  BY <1>7, <2>1, <2>2 DEF ClearStates, TypeOK
  <1>. QED  BY <1>1, <1>2, <1>3, <1>4, <1>5, <1>6, <1>7 DEF Progress

\* So does the rest of the system.
LEMMA EnvironmentType ==
    ASSUME TypeInv, Environment
    PROVE  TypeInv'
  <1>. USE DEF TypeInv
  <1>1. CASE ProcessOpened
    <2>1. state' \in ChannelStates /\ told' \in [Listeners -> ChannelStates \cup {"None"}]
      BY <1>1, SetStateType, TellType DEF ProcessOpened, ChangeState, TypeOK, ChannelStates
    <2>. QED  BY <1>1, <2>1 DEF ProcessOpened, TypeOK, InCall
  <1>2. CASE ProcessRequested
    <2>1. state' \in ChannelStates /\ told' \in [Listeners -> ChannelStates \cup {"None"}]
      BY <1>2, SetStateType, TellType DEF ProcessRequested, ChangeState, TypeOK, ChannelStates
    <2>. QED  BY <1>2, <2>1 DEF ProcessRequested, TypeOK, InCall
  <1>3. CASE Forward
    <2>1. /\ Head(queue) \in Messages
          /\ Tail(queue) \in Seq(Messages) /\ Len(Tail(queue)) <= Capacity
      BY <1>3, ChannelAssumption, HeadTailProperties DEF Forward, TypeOK
    <2>. QED  BY <1>3, <2>1 DEF Forward, TypeOK, InCall
  <1>4. CASE DropReceiver
    BY <1>4 DEF DropReceiver, TypeOK, InCall
  <1>5. ASSUME NEW l \in Listeners,
               \/ AddMessageListener(l) \/ RemoveMessageListener(l)
               \/ AddStateListener(l) \/ RemoveStateListener(l)
        PROVE  TypeInv'
    BY <1>5 DEF AddMessageListener, RemoveMessageListener, AddStateListener,
                RemoveStateListener, TypeOK, InCall, ListenerStates
  <1>. QED  BY <1>1, <1>2, <1>3, <1>4, <1>5 DEF Environment

\* Every step preserves the types.
LEMMA TypeInvStep == TypeInv /\ [Next]_vars => TypeInv'
  <1>. SUFFICES ASSUME TypeInv, [Next]_vars PROVE TypeInv'
    OBVIOUS
  <1>1. CASE UNCHANGED vars
    BY <1>1 DEF vars, TypeInv, TypeOK, InCall
  <1>. QED  BY <1>1, StartType, ProgressType, EnvironmentType DEF Next

\* TypeInv is an invariant: the other proofs may use it in every state.
LEMMA TypeInvCorrect == Spec => []TypeInv
  BY TypeInvInit, TypeInvStep, PTL DEF Spec

\* The type invariant: every variable keeps its type, the queue its bound.
THEOREM TypeCorrect == Spec => []TypeOK
  <1>1. TypeInv => TypeOK
    BY DEF TypeInv
  <1>. QED  BY <1>1, TypeInvCorrect, PTL

-----------------------------------------------------------------------------
(* The truth of the answers.  OkIffAccepted is not inductive: a call that   *)
(* fails must be known not to be accepted already, so the invariant says    *)
(* that a waiting call has no answer yet and a call not made has none.      *)

AnswersInv ==
    /\ OkIffAccepted
    /\ \A c \in Callers : \A i \in 1 .. MaxCalls : i > calls[c] => result[<<c, i>>] = "None"
    /\ \A c \in Callers : pc[c] \in Waiting => result[Current(c)] = "Pending"

\* What Enqueue and Forward do to the messages accepted.
LEMMA AcceptedEnqueue ==
    ASSUME TypeInv, NEW c \in Callers, Enqueue(c)
    PROVE  Accepted' = Accepted \cup {Msg(c)}
  <1>1. Msg(c) \in Messages
    BY CurrentType DEF Enqueue, Waiting
  <1>2. queue' = Append(queue, Msg(c)) /\ queue \in Seq(Messages) /\ taken' = taken
    BY DEF Enqueue, Msg, TypeInv, TypeOK
  <1>3. /\ DOMAIN queue' = 1 .. Len(queue) + 1 /\ DOMAIN queue = 1 .. Len(queue)
        /\ \A i \in 1 .. Len(queue) : queue'[i] = queue[i]
        /\ queue'[Len(queue) + 1] = Msg(c)
        /\ Len(queue) \in Nat
    BY <1>1, <1>2
  <1>4. {queue'[i] : i \in DOMAIN queue'} = {queue[i] : i \in DOMAIN queue} \cup {Msg(c)}
    BY <1>3
  <1>. QED  BY <1>2, <1>4 DEF Accepted

\* The forwarder moves a message from the queue to what it has taken.
LEMMA AcceptedForward ==
    ASSUME TypeInv, Forward
    PROVE  Accepted' = Accepted
  <1>1. queue \in Seq(Messages) /\ queue # <<>> /\ queue' = Tail(queue)
    BY DEF Forward, TypeInv, TypeOK
  <1>2. /\ Len(queue) \in Nat \ {0} /\ Len(queue') = Len(queue) - 1
        /\ DOMAIN queue = 1 .. Len(queue) /\ DOMAIN queue' = 1 .. Len(queue) - 1
        /\ \A i \in 1 .. Len(queue) - 1 : queue'[i] = queue[i + 1]
        /\ Head(queue) = queue[1]
    BY <1>1
  <1>3. {queue[i] : i \in DOMAIN queue}
            = {queue'[i] : i \in DOMAIN queue'} \cup {Head(queue)}
    <2>1. ASSUME NEW i \in DOMAIN queue
          PROVE  queue[i] \in {queue'[j] : j \in DOMAIN queue'} \cup {Head(queue)}
      <3>1. CASE i = 1
        BY <3>1, <1>2
      <3>2. CASE i # 1
        <4>1. i - 1 \in DOMAIN queue' /\ queue'[i - 1] = queue[i]
          BY <3>2, <1>2
        <4>. QED  BY <4>1
      <3>. QED  BY <3>1, <3>2
    <2>2. ASSUME NEW i \in DOMAIN queue'
          PROVE  queue'[i] \in {queue[j] : j \in DOMAIN queue}
      <3>1. i + 1 \in DOMAIN queue /\ queue'[i] = queue[i + 1]
        BY <1>2
      <3>. QED  BY <3>1
    <2>3. Head(queue) \in {queue[j] : j \in DOMAIN queue}
      BY <1>2
    <2>. QED  BY <2>1, <2>2, <2>3
  <1>. QED  BY <1>3 DEF Forward, Accepted

\* A step that leaves these four variables alone leaves the answers true.
LEMMA AnswersFrame ==
    ASSUME AnswersInv, UNCHANGED <<pc, calls, result>>, Accepted' = Accepted
    PROVE  AnswersInv'
  BY DEF AnswersInv, OkIffAccepted, Current

\* A call that starts gets a number of its own, and any answer but Ok.
LEMMA StartAnswers ==
    ASSUME TypeInv, AnswersInv, NEW c \in Callers, Start(c)
    PROVE  AnswersInv'
  <1>1. /\ pc[c] = "Idle" /\ calls[c] < MaxCalls
        /\ calls' = [calls EXCEPT ![c] = @ + 1]
        /\ queue' = queue /\ taken' = taken
    BY DEF Start, CallSend, CallClose, CallRequest, Begin
  <1>2. Accepted' = Accepted
    BY <1>1 DEF Accepted
  <1>3. /\ calls[c] \in 0 .. MaxCalls /\ calls'[c] = calls[c] + 1
        /\ calls'[c] \in 1 .. MaxCalls
        /\ \A d \in Callers \ {c} : calls'[d] = calls[d]
    BY <1>1, ChannelAssumption DEF TypeInv, TypeOK
  <1>4. PICK r \in Results \ {"Ok"} :
            /\ result' = [result EXCEPT ![<<c, calls'[c]>>] = r]
            /\ pc' = pc \/ (r = "Pending" /\ \E p \in PCs : pc' = [pc EXCEPT ![c] = p])
    BY DEF Start, CallSend, CallClose, CallRequest, Return, Results, PCs, Waiting
  <1>5. <<c, calls'[c]>> \in Calls /\ result[<<c, calls'[c]>>] = "None"
    BY <1>3 DEF Calls, AnswersInv
  <1>6. /\ result'[<<c, calls'[c]>>] = r
        /\ \A k \in Calls \ {<<c, calls'[c]>>} : result'[k] = result[k]
    BY <1>4, <1>5 DEF TypeInv, TypeOK
  <1>7. OkIffAccepted'
    BY <1>2, <1>5, <1>6 DEF OkIffAccepted, AnswersInv
  <1>8. \A d \in Callers : \A i \in 1 .. MaxCalls :
            i > calls'[d] => result'[<<d, i>>] = "None"
    <2>. SUFFICES ASSUME NEW d \in Callers, NEW i \in 1 .. MaxCalls, i > calls'[d]
                  PROVE  result'[<<d, i>>] = "None"
      OBVIOUS
    <2>1. <<d, i>> \in Calls /\ <<d, i>> # <<c, calls'[c]>>
      BY <1>3 DEF Calls
    <2>2. i > calls[d]
      BY <1>3, ChannelAssumption DEF TypeInv, TypeOK
    <2>. QED  BY <2>1, <2>2, <1>6 DEF AnswersInv
  <1>9. ASSUME NEW d \in Callers, pc'[d] \in Waiting
        PROVE  result'[Current(d)'] = "Pending"
    <2>1. CASE d = c
      <3>1. pc' # pc
        BY <2>1, <1>1, <1>9 DEF Waiting
      <3>. QED  BY <3>1, <2>1, <1>4, <1>6 DEF Current
    <2>2. CASE d # c
      <3>1. pc[d] \in Waiting /\ Current(d)' = Current(d)
        BY <2>2, <1>3, <1>4, <1>9 DEF Current, TypeInv, TypeOK
      <3>2. Current(d) \in Calls /\ Current(d) # <<c, calls'[c]>>
        BY <3>1, <2>2, CurrentType DEF Waiting, Current
      <3>. QED  BY <3>1, <3>2, <1>6 DEF AnswersInv
    <2>. QED  BY <2>1, <2>2
  <1>. QED  BY <1>7, <1>8, <1>9 DEF AnswersInv

\* A call that ends its wait with answer r, accepted only if r is Ok.
LEMMA EndWaitAnswers ==
    ASSUME TypeInv, AnswersInv, NEW c \in Callers, NEW r \in Results \ {"Pending"},
           pc[c] \in Waiting, calls' = calls,
           result' = [result EXCEPT ![Current(c)] = r],
           pc' \in [Callers -> PCs], pc'[c] \notin Waiting,
           \A d \in Callers \ {c} : pc'[d] = pc[d],
           Accepted' = IF r = "Ok" THEN Accepted \cup {Msg(c)} ELSE Accepted
    PROVE  AnswersInv'
  <1>1. Current(c) \in Calls /\ result[Current(c)] = "Pending"
    BY CurrentType DEF Waiting, AnswersInv
  <1>2. /\ result'[Current(c)] = r
        /\ \A k \in Calls \ {Current(c)} : result'[k] = result[k]
    BY <1>1 DEF TypeInv, TypeOK
  <1>3. Msg(c).call = Current(c)
    BY DEF Msg
  <1>4. ASSUME NEW k \in Calls
        PROVE  result'[k] = "Ok" <=> \E m \in Accepted' : m.call = k
    <2>1. CASE k = Current(c)
      <3>1. ~ \E m \in Accepted : m.call = k
        BY <2>1, <1>1 DEF AnswersInv, OkIffAccepted
      <3>. QED  BY <3>1, <2>1, <1>2, <1>3
    <2>2. CASE k # Current(c)
      BY <2>2, <1>2, <1>3 DEF AnswersInv, OkIffAccepted
    <2>. QED  BY <2>1, <2>2
  <1>5. OkIffAccepted'
    BY <1>4 DEF OkIffAccepted
  <1>6. ASSUME NEW d \in Callers, NEW i \in 1 .. MaxCalls, i > calls'[d]
        PROVE  result'[<<d, i>>] = "None"
    <2>1. result[<<d, i>>] = "None" /\ <<d, i>> \in Calls
      BY <1>6 DEF AnswersInv, Calls
    <2>2. <<d, i>> # Current(c)
      BY <2>1, <1>1
    <2>. QED  BY <2>1, <2>2, <1>2
  <1>7. ASSUME NEW d \in Callers, pc'[d] \in Waiting
        PROVE  result'[Current(d)'] = "Pending"
    <2>1. d # c /\ pc[d] \in Waiting /\ Current(d)' = Current(d)
      BY <1>7 DEF Current
    <2>2. Current(d) \in Calls /\ Current(d) # Current(c)
      BY <2>1, CurrentType DEF Waiting, Current
    <2>. QED  BY <2>1, <2>2, <1>2 DEF AnswersInv
  <1>. QED  BY <1>5, <1>6, <1>7 DEF AnswersInv

\* A call in progress is answered once, when its wait for the queue ends.
LEMMA ProgressAnswers ==
    ASSUME TypeInv, AnswersInv, NEW c \in Callers, Progress(c)
    PROVE  AnswersInv'
  <1>1. CASE Enqueue(c)
    <2>1. Accepted' = Accepted \cup {Msg(c)}
      BY <1>1, AcceptedEnqueue
    <2>2. /\ pc[c] \in Waiting /\ calls' = calls
          /\ result' = [result EXCEPT ![Current(c)] = "Ok"]
          /\ pc' \in [Callers -> PCs] /\ pc'[c] \notin Waiting
          /\ \A d \in Callers \ {c} : pc'[d] = pc[d]
      BY <1>1 DEF Enqueue, TypeInv, TypeOK, PCs, Accepting, Waiting
    <2>. QED  BY <2>1, <2>2, EndWaitAnswers DEF Results
  <1>2. CASE GiveUp(c) \/ FailSend(c)
    <2>1. Accepted' = Accepted
      BY <1>2 DEF GiveUp, FailSend, Accepted
    <2>2. /\ pc[c] \in Waiting /\ calls' = calls
          /\ \E r \in {"Timeout", "SendError"} : result' = [result EXCEPT ![Current(c)] = r]
          /\ pc' \in [Callers -> PCs] /\ pc'[c] \notin Waiting
          /\ \A d \in Callers \ {c} : pc'[d] = pc[d]
      BY <1>2 DEF GiveUp, FailSend, AfterTimeout, TypeInv, TypeOK, PCs, Waiting
    <2>. QED  BY <2>1, <2>2, EndWaitAnswers DEF Results
  <1>3. CASE SetRequested(c) \/ SetClosed(c) \/ ClearMessages(c) \/ ClearStates(c)
    <2>1. /\ Accepted' = Accepted
          /\ calls' = calls /\ result' = result
          /\ \A d \in Callers : pc'[d] \in Waiting => pc[d] \in Waiting
      BY <1>3 DEF SetRequested, SetClosed, ClearMessages, ClearStates, Accepted, Waiting,
                  TypeInv, TypeOK
    <2>. QED  BY <2>1 DEF AnswersInv, OkIffAccepted, Current
  <1>. QED  BY <1>1, <1>2, <1>3 DEF Progress

\* The rest of the system answers no call and accepts no message.
LEMMA EnvironmentAnswers ==
    ASSUME TypeInv, AnswersInv, Environment
    PROVE  AnswersInv'
  <1>1. UNCHANGED <<pc, calls, result>>
    BY DEF Environment, ProcessOpened, ProcessRequested, Forward, DropReceiver,
           AddMessageListener, RemoveMessageListener, AddStateListener, RemoveStateListener
  <1>2. CASE Forward
    BY <1>1, <1>2, AcceptedForward, AnswersFrame
  <1>3. CASE ~Forward
    <2>1. Accepted' = Accepted
      BY <1>3 DEF Environment, ProcessOpened, ProcessRequested, DropReceiver, Accepted,
             AddMessageListener, RemoveMessageListener, AddStateListener, RemoveStateListener
    <2>. QED  BY <1>1, <2>1, AnswersFrame
  <1>. QED  BY <1>2, <1>3

\* The answers of send, close and request are true of the queue: Ok exactly for
\* the calls whose message was accepted for transmission.
THEOREM AnswersTrue == Spec => []OkIffAccepted
  <1>1. Init => AnswersInv
    BY ChannelAssumption DEF Init, AnswersInv, OkIffAccepted, Accepted, Calls, Waiting
  <1>2. TypeInv /\ AnswersInv /\ [Next]_vars => AnswersInv'
    <2>. SUFFICES ASSUME TypeInv, AnswersInv, [Next]_vars PROVE AnswersInv'
      OBVIOUS
    <2>1. CASE UNCHANGED vars
      BY <2>1, AnswersFrame DEF vars, Accepted
    <2>. QED  BY <2>1, StartAnswers, ProgressAnswers, EnvironmentAnswers DEF Next
  <1>3. AnswersInv => OkIffAccepted
    BY DEF AnswersInv
  <1>. QED  BY <1>1, <1>2, <1>3, TypeInvCorrect, PTL DEF Spec

-----------------------------------------------------------------------------
(* The life of the channel.  A close on its way to SetClosed has its CANCEL  *)
(* in the queue, a payload on its way there was checked while Opened, and    *)
(* set_state never leads back to Requested.                                  *)

LifeInv ==
    /\ PayloadNeedsOpen
    /\ \A c \in Callers : pc[c] = "SendPayload" => state # "Requested"
    /\ \A c \in Callers : pc[c] = "SetClosed" => Cancelled

\* set_state refuses to go back, whatever is asked of it.
LEMMA SetStateForward ==
    ASSUME NEW s \in ChannelStates, NEW t \in ChannelStates
    PROVE  /\ SetState(s, t) \in {s, t}
           /\ SetState(s, t) = "Requested" => s = "Requested"
           /\ s = "Closed" => SetState(s, t) = "Closed"
           /\ s = "Opened" /\ t # "Closed" => SetState(s, t) = "Opened"
  BY DEF SetState, ValidTransitions, ChannelStates

\* One step of the channel, as its life sees it: something may be accepted, and
\* the state is set to something, to Closed only by a call in SetClosed.
Lived ==
    \/ state' = state /\ Accepted \subseteq Accepted'
    \/ Accepted' = Accepted /\ \E s \in {"Requested", "Opened"} : state' = SetState(state, s)
    \/ /\ Accepted' = Accepted /\ state' = SetState(state, "Closed")
       /\ \E c \in Callers : pc[c] = "SetClosed"

\* Every step of the channel lives.
LEMMA StepLives ==
    ASSUME TypeInv, [Next]_vars
    PROVE  Lived
  <1>1. ASSUME NEW c \in Callers, Start(c)
        PROVE  Lived
    BY <1>1 DEF Start, CallSend, CallClose, CallRequest, Begin, Accepted, Lived
  <1>2. ASSUME NEW c \in Callers, Progress(c)
        PROVE  Lived
    <2>1. CASE Enqueue(c)
      BY <2>1, AcceptedEnqueue DEF Enqueue, Lived
    <2>2. CASE ~Enqueue(c)
      BY <1>2, <2>2 DEF Progress, GiveUp, FailSend, SetRequested, SetClosed, ClearMessages,
                        ClearStates, ChangeState, Accepted, Lived
    <2>. QED  BY <2>1, <2>2
  <1>3. CASE Environment
    <2>1. CASE Forward
      BY <2>1, AcceptedForward DEF Forward, Lived
    <2>2. CASE ~Forward
      BY <1>3, <2>2 DEF Environment, ProcessOpened, ProcessRequested, DropReceiver,
                        AddMessageListener, RemoveMessageListener, AddStateListener,
                        RemoveStateListener, ChangeState, Accepted, Lived
    <2>. QED  BY <2>1, <2>2
  <1>4. CASE UNCHANGED vars
    BY <1>4 DEF vars, Accepted, Lived
  <1>. QED  BY <1>1, <1>2, <1>3, <1>4 DEF Next

\* Along a step that lives, no message is taken back and Requested not returned to.
LEMMA LivedForward ==
    ASSUME TypeInv, Lived
    PROVE  /\ Cancelled => Cancelled'
           /\ state' = "Requested" => state = "Requested"
  BY SetStateForward DEF Lived, Cancelled, TypeInv, TypeOK, ChannelStates

\* Where a caller can come from.
LEMMA Entered ==
    ASSUME TypeInv, [Next]_vars, NEW c \in Callers
    PROVE  /\ pc'[c] = "SendPayload" => pc[c] = "SendPayload" \/ state = "Opened"
           /\ pc'[c] = "SetClosed" =>
                  pc[c] = "SetClosed" \/ (pc[c] = "Close" /\ Enqueue(c))
  <1>1. ASSUME NEW d \in Callers, Start(d)
        PROVE  /\ pc'[c] = "SendPayload" => pc[c] = "SendPayload" \/ state = "Opened"
               /\ pc'[c] = "SetClosed" => pc[c] = "SetClosed"
    BY <1>1 DEF Start, CallSend, CallClose, CallRequest, Begin, TypeInv, TypeOK
  <1>2. ASSUME NEW d \in Callers, Progress(d)
        PROVE  /\ pc'[c] = "SendPayload" => pc[c] = "SendPayload" \/ state = "Opened"
               /\ pc'[c] = "SetClosed" =>
                      pc[c] = "SetClosed" \/ (pc[c] = "Close" /\ Enqueue(c))
    <2>1. CASE Enqueue(d)
      BY <2>1 DEF Enqueue, Accepting, Waiting, TypeInv, TypeOK
    <2>2. CASE ~Enqueue(d)
      BY <1>2, <2>2 DEF Progress, GiveUp, FailSend, SetRequested, SetClosed, ClearMessages,
                        ClearStates, AfterTimeout, TypeInv, TypeOK
    <2>. QED  BY <2>1, <2>2
  <1>3. CASE Environment \/ UNCHANGED vars
    BY <1>3 DEF Environment, ProcessOpened, ProcessRequested, Forward, DropReceiver,
                AddMessageListener, RemoveMessageListener, AddStateListener,
                RemoveStateListener, vars
  <1>. QED  BY <1>1, <1>2, <1>3 DEF Next

\* Only Enqueue accepts anything, and it accepts what its caller waits with.
LEMMA AcceptedBy ==
    ASSUME TypeInv, [Next]_vars, NEW m \in Accepted', m \notin Accepted
    PROVE  \E c \in Callers : Enqueue(c) /\ m = Msg(c) /\ state' = state
  <1>1. ASSUME NEW c \in Callers, Start(c)
        PROVE  FALSE
    BY <1>1 DEF Start, CallSend, CallClose, CallRequest, Begin, Accepted
  <1>2. ASSUME NEW c \in Callers, Progress(c)
        PROVE  Enqueue(c) /\ m = Msg(c) /\ state' = state
    <2>1. CASE Enqueue(c)
      BY <2>1, AcceptedEnqueue DEF Enqueue
    <2>2. CASE ~Enqueue(c)
      BY <1>2, <2>2 DEF Progress, GiveUp, FailSend, SetRequested, SetClosed, ClearMessages,
                        ClearStates, Accepted
    <2>. QED  BY <2>1, <2>2
  <1>3. CASE Environment
    <2>1. CASE Forward
      BY <2>1, AcceptedForward
    <2>2. CASE ~Forward
      BY <1>3, <2>2 DEF Environment, ProcessOpened, ProcessRequested, DropReceiver,
                        AddMessageListener, RemoveMessageListener, AddStateListener,
                        RemoveStateListener, Accepted
    <2>. QED  BY <2>1, <2>2
  <1>4. CASE UNCHANGED vars
    BY <1>4 DEF vars, Accepted
  <1>. QED  BY <1>1, <1>2, <1>3, <1>4 DEF Next

\* LifeInv holds initially: nothing is accepted and nobody waits.
LEMMA LifeInvInit == Init => LifeInv
  BY DEF Init, LifeInv, PayloadNeedsOpen, Accepted

\* Every step preserves it.  A payload accepted was checked while Opened, and
\* the state has not gone back to Requested since.
LEMMA LifeInvStep == TypeInv /\ LifeInv /\ [Next]_vars => LifeInv'
  <1>. SUFFICES ASSUME TypeInv, LifeInv, [Next]_vars PROVE LifeInv'
    OBVIOUS
  <1>1. /\ Cancelled => Cancelled'
        /\ state' = "Requested" => state = "Requested"
    BY StepLives, LivedForward
  <1>2. ASSUME NEW c \in Callers, pc'[c] = "SendPayload"
        PROVE  state' # "Requested"
    BY <1>1, <1>2, Entered DEF LifeInv
  <1>3. ASSUME NEW c \in Callers, pc'[c] = "SetClosed"
        PROVE  Cancelled'
    <2>1. CASE pc[c] = "SetClosed"
      BY <2>1, <1>1 DEF LifeInv
    <2>2. CASE pc[c] = "Close" /\ Enqueue(c)
      <3>1. Msg(c) \in Accepted' /\ Msg(c).kind = "CANCEL"
        BY <2>2, AcceptedEnqueue DEF Msg, Kind
      <3>. QED  BY <3>1 DEF Cancelled
    <2>. QED  BY <2>1, <2>2, <1>3, Entered
  <1>4. ASSUME NEW m \in Accepted', m.kind = "PAYLOAD"
        PROVE  state' # "Requested"
    <2>1. CASE m \in Accepted
      BY <2>1, <1>1, <1>4 DEF LifeInv, PayloadNeedsOpen
    <2>2. CASE m \notin Accepted
      <3>1. PICK c \in Callers : Enqueue(c) /\ m = Msg(c) /\ state' = state
        BY <2>2, AcceptedBy
      <3>2. pc[c] = "SendPayload"
        BY <3>1, <1>4 DEF Msg, Kind, Enqueue, Waiting
      <3>. QED  BY <3>1, <3>2 DEF LifeInv
    <2>. QED  BY <2>1, <2>2
  <1>. QED  BY <1>2, <1>3, <1>4 DEF LifeInv, PayloadNeedsOpen

\* LifeInv is an invariant.
LEMMA LifeInvCorrect == Spec => []LifeInv
  BY LifeInvInit, LifeInvStep, TypeInvCorrect, PTL DEF Spec

\* Data is accepted only for a channel the server has opened.
THEOREM PayloadSafe == Spec => []PayloadNeedsOpen
  <1>1. LifeInv => PayloadNeedsOpen
    BY DEF LifeInv
  <1>. QED  BY <1>1, LifeInvCorrect, PTL

\* The detailed channel implements ChannelLifecycle: every step of it opens,
\* cancels, closes, or stutters.
THEOREM Implements == Spec => ImplementsLifecycle
  <1>1. Init => Life!Init
    BY DEF Init, Life!Init, Cancelled, Accepted
  <1>2. TypeInv /\ LifeInv /\ [Next]_vars => [Life!Next]_<<state, Cancelled>>
    <2>. SUFFICES ASSUME TypeInv, LifeInv, [Next]_vars
                  PROVE  [Life!Next]_<<state, Cancelled>>
      OBVIOUS
    <2>. USE DEF Life!Next, Life!Open, Life!Cancel, Life!Close
    <2>1. Cancelled \in BOOLEAN /\ (Cancelled => Cancelled') /\ Cancelled' \in BOOLEAN
      BY StepLives, LivedForward DEF Cancelled
    <2>2. CASE state' = state
      BY <2>1, <2>2
    <2>3. CASE Accepted' = Accepted /\ state' # state
      <3>1. Cancelled' = Cancelled
        BY <2>3 DEF Cancelled
      <3>2. CASE \E s \in {"Requested", "Opened"} : state' = SetState(state, s)
        <4>1. state = "Requested" /\ state' = "Opened"
          BY <3>2, <2>3 DEF SetState, ValidTransitions
        <4>. QED  BY <4>1, <3>1
      <3>3. CASE state' = SetState(state, "Closed") /\ \E c \in Callers : pc[c] = "SetClosed"
        <4>1. state # "Closed" /\ state' = "Closed" /\ Cancelled
          BY <3>3, <2>3 DEF SetState, ValidTransitions, LifeInv
        <4>. QED  BY <4>1, <3>1
      <3>. QED  BY <2>3, <3>2, <3>3, StepLives DEF Lived
    <2>. QED  BY <2>2, <2>3, StepLives DEF Lived
  <1>. QED  BY <1>1, <1>2, TypeInvCorrect, LifeInvCorrect, PTL
            DEF Spec, ImplementsLifecycle, Life!Spec

-----------------------------------------------------------------------------
(* Listeners. *)

\* Whoever closes the channel has the message listeners still to empty, and the
\* channel stays closed: ClosedIsDeaf is inductive.
LEMMA DeafStep ==
    ASSUME TypeInv, ClosedIsDeaf, [Next]_vars
    PROVE  ClosedIsDeaf'
  <1>. SUFFICES ASSUME state' = "Closed", \A c \in Callers : pc'[c] # "ClearMessages",
                       NEW l \in Listeners, hears'[l] = "on"
                PROVE  l \in late'
    BY DEF ClosedIsDeaf
  <1>1. ASSUME NEW c \in Callers, Start(c)
        PROVE  l \in late'
    <2>1. /\ state' = state /\ hears' = hears /\ late' = late
          /\ \A d \in Callers : pc[d] = "ClearMessages" => pc'[d] = "ClearMessages"
      BY <1>1 DEF Start, CallSend, CallClose, CallRequest, Begin, TypeInv, TypeOK
    <2>. QED  BY <2>1 DEF ClosedIsDeaf
  <1>2. ASSUME NEW c \in Callers, Progress(c)
        PROVE  l \in late'
    <2>1. CASE Enqueue(c) \/ GiveUp(c) \/ FailSend(c) \/ ClearStates(c)
      <3>1. /\ state' = state /\ hears' = hears /\ late' = late
            /\ \A d \in Callers : pc[d] = "ClearMessages" => pc'[d] = "ClearMessages"
        BY <2>1 DEF Enqueue, GiveUp, FailSend, ClearStates, Waiting, TypeInv, TypeOK
      <3>. QED  BY <3>1 DEF ClosedIsDeaf
    <2>2. CASE SetRequested(c)
      <3>1. /\ hears' = hears /\ late' = late /\ state' = SetState(state, "Requested")
            /\ \A d \in Callers : pc[d] = "ClearMessages" => pc'[d] = "ClearMessages"
        BY <2>2 DEF SetRequested, ChangeState, TypeInv, TypeOK
      <3>2. state = "Closed"
        BY <3>1 DEF SetState
      <3>. QED  BY <3>1, <3>2 DEF ClosedIsDeaf
    <2>3. CASE SetClosed(c)
      BY <2>3 DEF SetClosed, TypeInv, TypeOK
    <2>4. CASE ClearMessages(c)
      BY <2>4 DEF ClearMessages, Cleared, TypeInv, TypeOK
    <2>. QED  BY <1>2, <2>1, <2>2, <2>3, <2>4 DEF Progress
  <1>3. CASE ProcessOpened \/ ProcessRequested
    <2>1. /\ hears' = hears /\ late' = late /\ pc' = pc
          /\ \E s \in {"Opened", "Requested"} : state' = SetState(state, s)
      BY <1>3 DEF ProcessOpened, ProcessRequested, ChangeState
    <2>2. state = "Closed"
      BY <2>1 DEF SetState
    <2>. QED  BY <2>1, <2>2 DEF ClosedIsDeaf
  <1>4. CASE Forward \/ DropReceiver \/ UNCHANGED vars
    BY <1>4 DEF Forward, DropReceiver, vars, ClosedIsDeaf
  <1>5. ASSUME NEW m \in Listeners, AddMessageListener(m)
        PROVE  l \in late'
    BY <1>5 DEF AddMessageListener, ClosedIsDeaf, TypeInv, TypeOK
  <1>6. ASSUME NEW m \in Listeners,
               RemoveMessageListener(m) \/ AddStateListener(m) \/ RemoveStateListener(m)
        PROVE  l \in late'
    BY <1>6 DEF RemoveMessageListener, AddStateListener, RemoveStateListener, ClosedIsDeaf,
                TypeInv, TypeOK
  <1>. QED  BY <1>1, <1>2, <1>3, <1>4, <1>5, <1>6 DEF Next, Environment

\* A closed channel, its message listeners emptied, hears nothing more.
THEOREM ClosedDeaf == Spec => []ClosedIsDeaf
  <1>1. Init => ClosedIsDeaf
    BY DEF Init, ClosedIsDeaf
  <1>2. TypeInv /\ ClosedIsDeaf /\ [Next]_vars => ClosedIsDeaf'
    BY DeafStep
  <1>. QED  BY <1>1, <1>2, TypeInvCorrect, PTL DEF Spec

\* A listener that was not added yet has not been called, or a late listener
\* could start out with a state that is not the channel's.
InformedInv ==
    /\ ListenersInformed
    /\ \A l \in Listeners : watches[l] = "new" => told[l] = "None"

\* set_state tells everyone it must.
LEMMA ChangeInforms ==
    ASSUME TypeInv, InformedInv, NEW s \in ChannelStates, ChangeState(s), watches' = watches
    PROVE  InformedInv'
  <1>1. ASSUME NEW l \in Listeners
        PROVE  /\ watches[l] = "on" /\ told'[l] # "None" => told'[l] = state'
               /\ watches[l] = "new" => told'[l] = "None"
    <2>1. CASE watches[l] = "on" /\ SetState(state, s) # state
      <3>1. told'[l] = s /\ state' = s
        BY <2>1 DEF ChangeState, Tell, SetState
      <3>. QED  BY <2>1, <3>1
    <2>2. CASE ~ (watches[l] = "on" /\ SetState(state, s) # state)
      <3>1. told'[l] = told[l] /\ (watches[l] = "on" => state' = state)
        BY <2>2 DEF ChangeState, Tell
      <3>. QED  BY <3>1 DEF InformedInv, ListenersInformed
    <2>. QED  BY <2>1, <2>2
  <1>. QED  BY <1>1 DEF InformedInv, ListenersInformed

\* A state listener that was ever called knows the present state.
THEOREM Informed == Spec => []ListenersInformed
  <1>1. Init => InformedInv
    BY DEF Init, InformedInv, ListenersInformed
  <1>2. TypeInv /\ InformedInv /\ [Next]_vars => InformedInv'
    <2>. SUFFICES ASSUME TypeInv, InformedInv, [Next]_vars PROVE InformedInv'
      OBVIOUS
    <2>1. CASE ProcessOpened \/ ProcessRequested \/ \E c \in Callers : SetRequested(c) \/ SetClosed(c)
      <3>1. watches' = watches /\ \E s \in ChannelStates : ChangeState(s)
        BY <2>1 DEF ProcessOpened, ProcessRequested, SetRequested, SetClosed, ChannelStates
      <3>. QED  BY <3>1, ChangeInforms
    <2>2. ASSUME NEW c \in Callers, Start(c)
          PROVE  UNCHANGED <<state, told, watches>>
      BY <2>2 DEF Start, CallSend, CallClose, CallRequest, Begin
    <2>3. ASSUME NEW c \in Callers,
                 Enqueue(c) \/ GiveUp(c) \/ FailSend(c) \/ ClearMessages(c)
          PROVE  UNCHANGED <<state, told, watches>>
      BY <2>3 DEF Enqueue, GiveUp, FailSend, ClearMessages
    <2>4. ASSUME NEW l \in Listeners, AddMessageListener(l) \/ RemoveMessageListener(l)
          PROVE  UNCHANGED <<state, told, watches>>
      BY <2>4 DEF AddMessageListener, RemoveMessageListener
    <2>5. CASE Forward \/ DropReceiver \/ UNCHANGED vars
      BY <2>5 DEF Forward, DropReceiver, vars, InformedInv, ListenersInformed
    <2>6. ASSUME NEW c \in Callers, ClearStates(c)
          PROVE  InformedInv'
      BY <2>6 DEF ClearStates, Cleared, InformedInv, ListenersInformed, TypeInv, TypeOK
    <2>7. ASSUME NEW l \in Listeners, AddStateListener(l) \/ RemoveStateListener(l)
          PROVE  InformedInv'
      BY <2>7 DEF AddStateListener, RemoveStateListener, InformedInv, ListenersInformed,
                  TypeInv, TypeOK
    <2>8. CASE UNCHANGED <<state, told, watches>>
      BY <2>8 DEF InformedInv, ListenersInformed
    <2>. QED  BY <2>1, <2>2, <2>3, <2>4, <2>5, <2>6, <2>7, <2>8
              DEF Next, Progress, Environment
  <1>3. InformedInv => ListenersInformed
    BY DEF InformedInv
  <1>. QED  BY <1>1, <1>2, <1>3, TypeInvCorrect, PTL DEF Spec
=============================================================================
