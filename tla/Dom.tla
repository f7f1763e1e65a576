-------------------------------- MODULE Dom ---------------------------------
(***************************************************************************)
(* A DomService (src/src/dom/dom.rs): the order book of one channel.  Any  *)
(* number of tasks call it; initialize, handle_config and handle_snapshot  *)
(* each run under the state's write lock, and initialize keeps it while    *)
(* its DOM_SETUP waits for room in the outgoing queue.                     *)
(*                                                                         *)
(* An entry of the book is its price; Refused stands for an entry that     *)
(* validate_entries refuses.  The aggregation period, the data format and  *)
(* the order fields are stored like the depth limit and never used, and    *)
(* are left out.                                                           *)
(***************************************************************************)
EXTENDS Naturals, Sequences, FiniteSets

CONSTANTS Callers,       \* tasks that use the service
          ChannelIds,    \* channel ids, 0 included
          DepthLimits,   \* depth limits a setup or a config may ask for
          DefaultDepth,  \* DomState::default's depth_limit (10 in the code)
          Times,         \* the times of snapshots, which nobody checks
          Sides,         \* the sequences of entries a snapshot may carry
          Capacity,      \* room in the outgoing queue
          MaxCalls       \* bound: calls, all told

Refused == 0

ASSUME DomAssumption ==
    /\ 0 \in ChannelIds /\ ChannelIds \subseteq Nat
    /\ DepthLimits \subseteq Nat /\ DefaultDepth \in Nat
    /\ Times \subseteq Nat
    /\ Sides \subseteq Seq(Nat)
    /\ Capacity \in Nat \ {0} /\ MaxCalls \in Nat

VARIABLES channel,      \* state.channel, 0 while the service is not bound
          depth,        \* state.depth_limit
          bids, asks,   \* the book
          time,         \* state.last_update_time
          pc,           \* where each caller is
          writer,       \* the callers that hold the write lock across an await
          sent,         \* the setups put on the outgoing queue, oldest first
          received,     \* how many of them have been received
          receiver,     \* the receiving half of the queue is alive
          configured,   \* a DOM_CONFIG was handled since the last DOM_SETUP
          snapshot,     \* the entries of the last snapshot that was accepted
          calls         \* calls made so far

bookVars == <<bids, asks, time, snapshot>>
queueVars == <<sent, received, receiver>>
vars == <<channel, depth, bookVars, pc, writer, queueVars, configured, calls>>

Setups == [channel : ChannelIds, limit : DepthLimits \cup {DefaultDepth}]
              \cup [channel : ChannelIds]    \* accept_depth_limit is None

Busy(c, msg) == pc' = [pc EXCEPT ![c] = msg]

\* A call starts.  The RwLock lets it in only while nobody holds it.  (A call
\* that is refused before it changes anything has no step.)
Enter(c) ==
    /\ pc[c] = <<>>
    /\ calls < MaxCalls /\ calls' = calls + 1
    /\ writer = {}

\* The service is bound to another channel, or the id is 0.
Misdirected(ch) == ch = 0 \/ (channel # 0 /\ channel # ch)

-----------------------------------------------------------------------------
(* Sorting and cutting one side of a snapshot. *)

\* The rearrangements of s that sort_by may return: ordered by `before`, and
\* equal prices in the order they came in.  There is exactly one.
Sortings(s, before(_, _)) ==
    {[i \in DOMAIN s |-> s[p[i]]] :
        p \in {p \in [DOMAIN s -> DOMAIN s] :
                  \A i, j \in DOMAIN s : i < j =>
                      before(s[p[i]], s[p[j]]) \/ (s[p[i]] = s[p[j]] /\ p[i] < p[j])}}

Higher(a, b) == a > b
Lower(a, b) == a < b

\* Mutant: an off-by-one in truncate.
CutLong(s, n) == SubSeq(s, 1, IF Len(s) > n + 1 THEN n + 1 ELSE Len(s))

Cut(s, n) == SubSeq(s, 1, IF Len(s) > n THEN n ELSE Len(s))

\* Mutant: the sides are cut before they are sorted.
BookUnsorted(b, a) ==
    /\ bids' \in Sortings(Cut(b, depth), Higher)
    /\ asks' \in Sortings(Cut(a, depth), Lower)

Book(b, a) ==
    /\ \E s \in Sortings(b, Higher) : bids' = Cut(s, depth)
    /\ \E s \in Sortings(a, Lower) : asks' = Cut(s, depth)

-----------------------------------------------------------------------------
(* initialize *)

ClearBook == bids' = <<>> /\ asks' = <<>> /\ time' = 0 /\ snapshot' = <<<<>>, <<>>>>

\* Mutant: the lock is released before the DOM_SETUP is sent.
HoldNothing(c) == UNCHANGED writer

Hold(c) == writer' = {c}

\* The channel is bound; then the setup that was provided, if any, is checked.
\* limit is its accept_depth_limit; without a setup the state is sent.
Initialize(c, ch, setup) ==
    /\ Enter(c)
    /\ ~Misdirected(ch)
    /\ channel' = ch
    /\ IF setup # <<>> /\ setup[1] \notin {0, ch}
       THEN UNCHANGED <<depth, bookVars, pc, writer, configured>>
       ELSE /\ depth' = IF setup # <<>> /\ setup[2] # <<>> THEN setup[2][1] ELSE depth
            /\ ClearBook
            /\ configured' = FALSE
            /\ Hold(c)
            /\ Busy(c, IF setup # <<>> /\ setup[2] = <<>>
                       THEN << [channel |-> ch] >>
                       ELSE << [channel |-> ch, limit |-> depth'] >>)
    /\ UNCHANGED queueVars

\* Mutant: an unbounded queue.
SendUnbounded(c) ==
    /\ pc[c] # <<>>
    /\ receiver
    /\ sent' = sent \o pc[c]
    /\ Busy(c, <<>>)
    /\ writer' = writer \ {c}
    /\ UNCHANGED <<channel, depth, bookVars, received, receiver, configured, calls>>

\* The queue has room for the DOM_SETUP, and the call returns.
Send(c) ==
    /\ pc[c] # <<>>
    /\ receiver /\ Len(sent) - received < Capacity
    /\ sent' = sent \o pc[c]
    /\ Busy(c, <<>>)
    /\ writer' = writer \ {c}
    /\ UNCHANGED <<channel, depth, bookVars, received, receiver, configured, calls>>

\* Nobody will receive it: an error, and the state stays as it was set.
SendFails(c) ==
    /\ pc[c] # <<>>
    /\ ~receiver
    /\ Busy(c, <<>>)
    /\ writer' = writer \ {c}
    /\ UNCHANGED <<channel, depth, bookVars, queueVars, configured, calls>>

-----------------------------------------------------------------------------
(* handle_config and handle_snapshot *)

\* Mutant: the channel of a config is not compared with the service's.
ConfigUnchecked(c, ch, limit) ==
    /\ Enter(c)
    /\ ch # 0
    /\ channel' = ch /\ depth' = limit /\ configured' = TRUE
    /\ UNCHANGED <<bookVars, pc, writer, queueVars>>

\* The book is not cut to the new limit.
HandleConfig(c, ch, limit) ==
    /\ Enter(c)
    /\ ~Misdirected(ch)
    /\ channel' = ch /\ depth' = limit /\ configured' = TRUE
    /\ UNCHANGED <<bookVars, pc, writer, queueVars>>

\* Mutant: only the bids are validated.
ValidBids(b, a) == \A i \in DOMAIN b : b[i] # Refused

Valid(b, a) == (\A i \in DOMAIN b : b[i] # Refused) /\ (\A i \in DOMAIN a : a[i] # Refused)

\* The whole book is replaced, whatever its time and sequence, or nothing is.
HandleSnapshot(c, ch, t, b, a) ==
    /\ Enter(c)
    /\ ~Misdirected(ch)
    /\ IF Valid(b, a)
       THEN channel' = ch /\ time' = t /\ snapshot' = <<b, a>> /\ Book(b, a)
       ELSE UNCHANGED <<channel, bookVars>>
    /\ UNCHANGED <<depth, pc, writer, queueVars, configured>>

-----------------------------------------------------------------------------
(* The other end of the queue. *)

Receive ==
    /\ receiver /\ received < Len(sent)
    /\ received' = received + 1
    /\ UNCHANGED <<channel, depth, bookVars, pc, writer, sent, receiver, configured, calls>>

DropReceiver ==
    /\ receiver
    /\ receiver' = FALSE
    /\ UNCHANGED <<channel, depth, bookVars, pc, writer, sent, received, configured, calls>>

-----------------------------------------------------------------------------
Init ==
    /\ channel = 0 /\ depth = DefaultDepth
    /\ bids = <<>> /\ asks = <<>> /\ time = 0 /\ snapshot = <<<<>>, <<>>>>
    /\ pc = [c \in Callers |-> <<>>] /\ writer = {} /\ calls = 0
    /\ sent = <<>> /\ received = 0 /\ receiver = TRUE /\ configured = FALSE

\* No setup, or one that names a channel and perhaps a depth limit.
Provided == {<<>>} \cup (ChannelIds \X ({<<>>} \cup {<<n>> : n \in DepthLimits}))

Call(c) ==
    \E ch \in ChannelIds :
        \/ \E setup \in Provided : Initialize(c, ch, setup)
        \/ \E limit \in DepthLimits : HandleConfig(c, ch, limit)
        \/ \E t \in Times, b, a \in Sides : HandleSnapshot(c, ch, t, b, a)

Next == (\E c \in Callers : Call(c) \/ Send(c) \/ SendFails(c)) \/ Receive \/ DropReceiver

Spec == Init /\ [][Next]_vars

-----------------------------------------------------------------------------
Ordered(s, before(_, _)) == \A i, j \in DOMAIN s : i < j => ~before(s[j], s[i])

TypeOK ==
    /\ channel \in ChannelIds /\ depth \in DepthLimits \cup {DefaultDepth}
    /\ bids \in Seq(Nat) /\ asks \in Seq(Nat)
    /\ snapshot \in (Sides \cup {<<>>}) \X (Sides \cup {<<>>})
    /\ time \in Times \cup {0} /\ calls \in 0 .. MaxCalls
    /\ pc \in [Callers -> {<<>>} \cup {<<m>> : m \in Setups}]
    /\ writer \subseteq Callers
    /\ sent \in Seq(Setups) /\ received \in 0 .. Len(sent)
    /\ Len(sent) - received <= Capacity
    /\ receiver \in BOOLEAN /\ configured \in BOOLEAN

\* A service once bound to a channel stays bound to it: no later setup, config
\* or snapshot, refused or not, moves it.
ChannelBound == [][channel # 0 => channel' = channel]_vars

\* The book is one a trader can read: no entry that was refused, best price first.
BookReadable ==
    /\ \A i \in DOMAIN bids : bids[i] # Refused
    /\ \A i \in DOMAIN asks : asks[i] # Refused
    /\ Ordered(bids, Higher) /\ Ordered(asks, Lower)

\* book holds entries of side, each of them once, and none that it leaves out is
\* better than one it holds.
BestOf(book, side, better(_, _)) ==
    \E f \in [DOMAIN book -> DOMAIN side] :
        /\ \A i, j \in DOMAIN book : f[i] = f[j] => i = j
        /\ \A i \in DOMAIN book : book[i] = side[f[i]]
        /\ \A i \in DOMAIN book, j \in DOMAIN side :
              better(side[j], book[i]) => \E k \in DOMAIN book : f[k] = j

\* The book is the best part of the last snapshot that was accepted: nothing in
\* it is left from an earlier one, doubled, or worse than what was cut off.
BestKept == BestOf(bids, snapshot[1], Higher) /\ BestOf(asks, snapshot[2], Lower)

\* As many of the entries as the limit allows.
Fills(book, side) == Len(book) = IF Len(side) > depth THEN depth ELSE Len(side)

\* A book, when it is replaced, holds as much of the snapshot as the limit of the
\* moment allows, no less and no more.
DepthRespected ==
    [][bookVars' # bookVars => (Fills(bids, snapshot[1]) /\ Fills(asks, snapshot[2]))']_vars

\* While a DOM_SETUP waits for room in the queue the book is empty and without a
\* time, as its initialize left it: a snapshot that comes meanwhile waits for the
\* lock, and is not mixed with what the setup asked for.
FreshUntilSent ==
    (\E c \in Callers : pc[c] # <<>>) => bids = <<>> /\ asks = <<>> /\ time = 0

\* Between two calls the last DOM_SETUP the server gets is the one whose limit
\* the service works with, unless the server has configured another: concurrent
\* initializations reach the queue in the order they took effect.
SetupMatches ==
    sent # <<>> /\ receiver /\ ~configured /\ (\A c \in Callers : pc[c] = <<>>) =>
        LET last == sent[Len(sent)] IN
        /\ last.channel = channel
        /\ "limit" \in DOMAIN last => last.limit = depth
=============================================================================
