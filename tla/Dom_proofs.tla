---------------------------- MODULE Dom_proofs -----------------------------
(***************************************************************************)
(* What holds of every DOM service, for any callers, channels, limits and  *)
(* snapshots.                                                              *)
(***************************************************************************)
EXTENDS Dom, FiniteSetTheorems, TLAPS

-----------------------------------------------------------------------------
(* Sorting and cutting. *)

\* t is s rearranged by p.
Arranged(t, s, p) == t = [i \in DOMAIN s |-> s[p[i]]]

\* A rearrangement that repeats no entry leaves none out.
LEMMA Rearranged ==
    ASSUME NEW s \in Seq(Nat), NEW p \in [DOMAIN s -> DOMAIN s],
           \A i, j \in DOMAIN s : i < j => p[i] # p[j],
           NEW t, Arranged(t, s, p)
    PROVE  t \in Seq(Nat) /\ Len(t) = Len(s) /\ \A j \in DOMAIN s : \E i \in DOMAIN s : p[i] = j
  <1>1. DOMAIN s = 1 .. Len(s) /\ Len(s) \in Nat /\ \A i \in DOMAIN s : s[i] \in Nat
    OBVIOUS
  <1>2. t = [i \in 1 .. Len(s) |-> s[p[i]]] /\ \A i \in 1 .. Len(s) : s[p[i]] \in Nat
    BY <1>1 DEF Arranged
  <1>3. t \in Seq(Nat) /\ Len(t) = Len(s)
    BY <1>1, <1>2
  <1>4. p \in Injection(DOMAIN s, DOMAIN s)
    BY <1>1 DEF Injection, IsInjective
  <1>5. IsFiniteSet(DOMAIN s)
    BY <1>1, FS_Interval
  <1>6. p \in Surjection(DOMAIN s, DOMAIN s)
    BY <1>4, <1>5, FS_Injection
  <1>7. \A j \in DOMAIN s : \E i \in DOMAIN s : p[i] = j
    BY <1>6 DEF Surjection
  <1>. QED  BY <1>3, <1>7

LEMMA CutShape ==
    ASSUME NEW t \in Seq(Nat), NEW n \in Nat, NEW b, b = Cut(t, n)
    PROVE  /\ b \in Seq(Nat) /\ Len(b) = (IF Len(t) > n THEN n ELSE Len(t))
           /\ \A i \in DOMAIN b : b[i] = t[i] /\ i \in DOMAIN t
  BY DEF Cut

\* R relates an entry to the ones it is better than.
Asymmetric(R) == \A x, y : <<x, y>> \in R => <<y, x>> \notin R

\* p sorts s: better entries first, equal ones in the order they came in.
Sorts(p, s, R) == \A i, j \in DOMAIN s : i < j =>
    <<s[p[i]], s[p[j]]>> \in R \/ (s[p[i]] = s[p[j]] /\ p[i] < p[j])

InOrder(b, R) == \A i, j \in DOMAIN b : i < j => <<b[j], b[i]>> \notin R

Chosen(f, b, s, R) ==
    /\ \A i, j \in DOMAIN b : f[i] = f[j] => i = j
    /\ \A i \in DOMAIN b : b[i] = s[f[i]]
    /\ \A i \in DOMAIN b, j \in DOMAIN s : <<s[j], b[i]>> \in R => \E k \in DOMAIN b : f[k] = j

\* The side b of a book: as much of s as n allows, in order, and the best of it.
Top(b, s, n, R) ==
    /\ b \in Seq(Nat) /\ Len(b) = (IF Len(s) > n THEN n ELSE Len(s))
    /\ InOrder(b, R)
    /\ \E f \in [DOMAIN b -> DOMAIN s] : Chosen(f, b, s, R)

\* What sorting and cutting make of a side.
LEMMA NewSide ==
    ASSUME NEW s \in Seq(Nat), NEW n \in Nat, NEW R, Asymmetric(R),
           NEW p \in [DOMAIN s -> DOMAIN s], Sorts(p, s, R),
           NEW t, Arranged(t, s, p), NEW b, b = Cut(t, n)
    PROVE  Top(b, s, n, R)
  <1>0. DOMAIN s = 1 .. Len(s) /\ Len(s) \in Nat /\ DOMAIN t = DOMAIN s
        /\ \A i \in DOMAIN s : t[i] = s[p[i]] /\ p[i] \in Nat
    BY DEF Arranged
  <1>1. ASSUME NEW i \in DOMAIN s, NEW j \in DOMAIN s, i < j
        PROVE  p[i] # p[j] /\ <<t[j], t[i]>> \notin R
    <2>1. <<s[p[i]], s[p[j]]>> \in R \/ (s[p[i]] = s[p[j]] /\ p[i] < p[j])
      BY <1>1 DEF Sorts
    <2>2. \A x, y : <<x, y>> \in R => <<y, x>> \notin R
      BY DEF Asymmetric
    <2>3. p[i] < p[j] => p[i] # p[j]
      BY <1>0
    <2>4. p[i] # p[j]
      BY <2>1, <2>2, <2>3
    <2>5. <<s[p[j]], s[p[i]]>> \notin R
      BY <2>1, <2>2
    <2>. QED  BY <1>0, <2>4, <2>5
  <1>2. \A i, j \in DOMAIN s : i < j => p[i] # p[j]
    BY <1>1
  <1>3. t \in Seq(Nat) /\ Len(t) = Len(s) /\ \A j \in DOMAIN s : \E i \in DOMAIN s : p[i] = j
    BY <1>2, Rearranged
  <1>4. \A i, j \in DOMAIN s : i < j => <<t[j], t[i]>> \notin R
    BY <1>1
  <1>5. /\ b \in Seq(Nat) /\ Len(b) = (IF Len(s) > n THEN n ELSE Len(s))
        /\ \A i \in DOMAIN b : b[i] = t[i] /\ i \in DOMAIN s
    <2>1. /\ b \in Seq(Nat) /\ Len(b) = (IF Len(t) > n THEN n ELSE Len(t))
          /\ \A i \in DOMAIN b : b[i] = t[i] /\ i \in DOMAIN t
      BY <1>3, CutShape
    <2>. QED  BY <1>0, <1>3, <2>1
  <1>6. DOMAIN b = 1 .. Len(b) /\ Len(b) \in Nat
    BY <1>5
  <1>7. InOrder(b, R)
    BY <1>4, <1>5 DEF InOrder
  <1>. DEFINE f == [i \in DOMAIN b |-> p[i]]
  <1>8. f \in [DOMAIN b -> DOMAIN s] /\ \A i \in DOMAIN b : f[i] = p[i]
    BY <1>5
  <1>. HIDE DEF f
  <1>9. \A i, j \in DOMAIN b : f[i] = f[j] => i = j
    <2>1. \A i, j \in DOMAIN b : i < j => f[i] # f[j]
      BY <1>2, <1>5, <1>8
    <2>2. \A i, j \in DOMAIN b : i = j \/ i < j \/ j < i
      BY <1>6
    <2>. QED  BY <2>1, <2>2
  <1>10. \A i \in DOMAIN b : b[i] = s[f[i]]
    BY <1>0, <1>5, <1>8
  <1>11. ASSUME NEW i \in DOMAIN b, NEW j \in DOMAIN s, <<s[j], b[i]>> \in R
         PROVE  \E k \in DOMAIN b : f[k] = j
    <2>1. PICK k \in DOMAIN s : p[k] = j
      BY <1>3
    <2>2. t[k] = s[j] /\ b[i] = t[i] /\ i \in DOMAIN s
      BY <1>0, <1>5, <2>1
    <2>3. ~(i < k)
      BY <1>4, <1>11, <2>2
    <2>4. k \in DOMAIN b
      BY <1>0, <1>5, <1>6, <2>1, <2>3
    <2>. QED  BY <1>8, <2>1, <2>4
  <1>. QED  BY <1>5, <1>7, <1>8, <1>9, <1>10, <1>11 DEF Top, Chosen

\* The same of the bids, of which the higher is better, and of the asks.
LEMMA Bids ==
    ASSUME NEW s \in Seq(Nat), NEW n \in Nat, NEW b, \E t \in Sortings(s, Higher) : b = Cut(t, n)
    PROVE  /\ b \in Seq(Nat) /\ Len(b) = (IF Len(s) > n THEN n ELSE Len(s))
           /\ Ordered(b, Higher) /\ BestOf(b, s, Higher)
  <1>. DEFINE R == {q \in Nat \X Nat : q[1] > q[2]}
  <1>1. \A x, y \in Nat : <<x, y>> \in R <=> x > y
    OBVIOUS
  <1>2. Asymmetric(R)
    BY DEF Asymmetric
  <1>3. PICK p \in [DOMAIN s -> DOMAIN s] :
           /\ b = Cut([i \in DOMAIN s |-> s[p[i]]], n)
           /\ \A i, j \in DOMAIN s : i < j =>
                 s[p[i]] > s[p[j]] \/ (s[p[i]] = s[p[j]] /\ p[i] < p[j])
    BY DEF Sortings, Higher
  <1>4. \A i \in DOMAIN s : s[i] \in Nat /\ s[p[i]] \in Nat
    OBVIOUS
  <1>. HIDE DEF R
  <1>5. Sorts(p, s, R)
    BY <1>1, <1>3, <1>4 DEF Sorts
  <1>6. Top(b, s, n, R)
    <2>1. Arranged([i \in DOMAIN s |-> s[p[i]]], s, p)
      BY DEF Arranged
    <2>. QED  BY <1>2, <1>3, <1>5, <2>1, NewSide
  <1>7. b \in Seq(Nat) /\ \A i \in DOMAIN b : b[i] \in Nat
    BY <1>6 DEF Top
  <1>8. BestOf(b, s, Higher)
    <2>1. PICK f \in [DOMAIN b -> DOMAIN s] : Chosen(f, b, s, R)
      BY <1>6 DEF Top
    <2>2. \A i \in DOMAIN b, j \in DOMAIN s : <<s[j], b[i]>> \in R <=> s[j] > b[i]
      BY <1>1, <1>4, <1>7
    <2>3. /\ \A i, j \in DOMAIN b : f[i] = f[j] => i = j
          /\ \A i \in DOMAIN b : b[i] = s[f[i]]
          /\ \A i \in DOMAIN b, j \in DOMAIN s : s[j] > b[i] => \E k \in DOMAIN b : f[k] = j
      BY <2>1, <2>2 DEF Chosen
    <2>. QED  BY <2>3 DEF BestOf, Higher
  <1>9. Ordered(b, Higher)
    BY <1>1, <1>6, <1>7 DEF Top, InOrder, Ordered, Higher
  <1>. QED  BY <1>6, <1>8, <1>9 DEF Top

LEMMA Asks ==
    ASSUME NEW s \in Seq(Nat), NEW n \in Nat, NEW b, \E t \in Sortings(s, Lower) : b = Cut(t, n)
    PROVE  /\ b \in Seq(Nat) /\ Len(b) = (IF Len(s) > n THEN n ELSE Len(s))
           /\ Ordered(b, Lower) /\ BestOf(b, s, Lower)
  <1>. DEFINE R == {q \in Nat \X Nat : q[1] < q[2]}
  <1>1. \A x, y \in Nat : <<x, y>> \in R <=> x < y
    OBVIOUS
  <1>2. Asymmetric(R)
    BY DEF Asymmetric
  <1>3. PICK p \in [DOMAIN s -> DOMAIN s] :
           /\ b = Cut([i \in DOMAIN s |-> s[p[i]]], n)
           /\ \A i, j \in DOMAIN s : i < j =>
                 s[p[i]] < s[p[j]] \/ (s[p[i]] = s[p[j]] /\ p[i] < p[j])
    BY DEF Sortings, Lower
  <1>4. \A i \in DOMAIN s : s[i] \in Nat /\ s[p[i]] \in Nat
    OBVIOUS
  <1>. HIDE DEF R
  <1>5. Sorts(p, s, R)
    BY <1>1, <1>3, <1>4 DEF Sorts
  <1>6. Top(b, s, n, R)
    <2>1. Arranged([i \in DOMAIN s |-> s[p[i]]], s, p)
      BY DEF Arranged
    <2>. QED  BY <1>2, <1>3, <1>5, <2>1, NewSide
  <1>7. b \in Seq(Nat) /\ \A i \in DOMAIN b : b[i] \in Nat
    BY <1>6 DEF Top
  <1>8. BestOf(b, s, Lower)
    <2>1. PICK f \in [DOMAIN b -> DOMAIN s] : Chosen(f, b, s, R)
      BY <1>6 DEF Top
    <2>2. \A i \in DOMAIN b, j \in DOMAIN s : <<s[j], b[i]>> \in R <=> s[j] < b[i]
      BY <1>1, <1>4, <1>7
    <2>3. /\ \A i, j \in DOMAIN b : f[i] = f[j] => i = j
          /\ \A i \in DOMAIN b : b[i] = s[f[i]]
          /\ \A i \in DOMAIN b, j \in DOMAIN s : s[j] < b[i] => \E k \in DOMAIN b : f[k] = j
      BY <2>1, <2>2 DEF Chosen
    <2>. QED  BY <2>3 DEF BestOf, Lower
  <1>9. Ordered(b, Lower)
    BY <1>1, <1>6, <1>7 DEF Top, InOrder, Ordered, Lower
  <1>. QED  BY <1>6, <1>8, <1>9 DEF Top

-----------------------------------------------------------------------------
(* What a step leaves alone. *)

LEMMA SetupShape ==
    ASSUME NEW setup \in Provided, setup # <<>>
    PROVE  setup[1] \in ChannelIds /\ (setup[2] # <<>> => setup[2][1] \in DepthLimits)
  BY DEF Provided

\* The channel, the book and the lock change only in a call that found the lock free.
LEMMA OutsideCalls ==
    ASSUME (\E c \in Callers : Send(c) \/ SendFails(c)) \/ Receive \/ DropReceiver
              \/ UNCHANGED vars
    PROVE  UNCHANGED <<channel, depth, bookVars, configured, calls>>
  BY DEF Send, SendFails, Receive, DropReceiver, vars, bookVars

-----------------------------------------------------------------------------
(* Types *)

LEMMA OneMoreCall == ASSUME TypeOK, calls < MaxCalls PROVE calls + 1 \in 0 .. MaxCalls
  <1>1. calls \in Nat /\ MaxCalls \in Nat
    BY DomAssumption DEF TypeOK
  <1>. QED  BY <1>1

LEMMA InitTypes == Init => TypeOK
  <1>. SUFFICES ASSUME Init PROVE TypeOK
    OBVIOUS
  <1>1. /\ channel \in ChannelIds /\ depth \in DepthLimits \cup {DefaultDepth}
        /\ snapshot \in (Sides \cup {<<>>}) \X (Sides \cup {<<>>})
        /\ time \in Times \cup {0} /\ calls \in 0 .. MaxCalls
    BY DomAssumption DEF Init
  <1>2. pc \in [Callers -> {<<>>} \cup {<<m>> : m \in Setups}] /\ writer \subseteq Callers
    BY DEF Init
  <1>3. /\ bids \in Seq(Nat) /\ asks \in Seq(Nat) /\ sent \in Seq(Setups)
        /\ receiver \in BOOLEAN /\ configured \in BOOLEAN
    <2>. \A S : <<>> \in Seq(S)
      OBVIOUS
    <2>. QED  BY DEF Init
  <1>4. Len(sent) = 0 /\ received = 0
    BY DEF Init
  <1>. QED  BY <1>1, <1>2, <1>3, <1>4, DomAssumption DEF TypeOK

LEMMA InitializeTypes ==
    ASSUME TypeOK, NEW c \in Callers, NEW ch \in ChannelIds, NEW setup \in Provided,
           Initialize(c, ch, setup)
    PROVE  TypeOK'
  <1>1. /\ channel' = ch /\ calls' = calls + 1 /\ calls < MaxCalls
        /\ UNCHANGED <<sent, received, receiver>>
    BY DEF Initialize, Enter, queueVars
  <1>2. CASE UNCHANGED <<depth, bookVars, pc, writer, configured>>
    <2>1. UNCHANGED <<depth, bids, asks, time, snapshot, pc, writer, configured>>
      BY <1>2 DEF bookVars
    <2>2. calls' \in 0 .. MaxCalls
      BY <1>1, OneMoreCall
    <2>. QED  BY <1>1, <2>1, <2>2 DEF TypeOK
  <1>3. CASE ~(setup # <<>> /\ setup[1] \notin {0, ch})
    <2>1. /\ depth' = IF setup # <<>> /\ setup[2] # <<>> THEN setup[2][1] ELSE depth
          /\ bids' = <<>> /\ asks' = <<>> /\ time' = 0 /\ snapshot' = <<<<>>, <<>>>>
          /\ configured' = FALSE /\ writer' = {c}
      BY <1>3 DEF Initialize, ClearBook, Hold
    <2>2. depth' \in DepthLimits \cup {DefaultDepth}
      BY <2>1, SetupShape DEF TypeOK
    <2>3. \E m \in Setups : pc' = [pc EXCEPT ![c] = <<m>>]
      BY <1>3, <2>2 DEF Initialize, Busy, Setups
    <2>4. pc' \in [Callers -> {<<>>} \cup {<<m>> : m \in Setups}]
      BY <2>3 DEF TypeOK
    <2>5. bids' \in Seq(Nat) /\ asks' \in Seq(Nat)
      BY <2>1
    <2>6. calls' \in 0 .. MaxCalls
      BY <1>1, OneMoreCall
    <2>7. snapshot' \in (Sides \cup {<<>>}) \X (Sides \cup {<<>>})
      BY <2>1
    <2>. QED  BY <1>1, <2>1, <2>2, <2>4, <2>5, <2>6, <2>7 DEF TypeOK
  <1>. QED  BY <1>2, <1>3 DEF Initialize

\* A new book: the highest bids and the lowest asks, in order.
LEMMA NewBook ==
    ASSUME TypeOK, NEW b \in Sides, NEW a \in Sides, Book(b, a)
    PROVE  /\ bids' \in Seq(Nat) /\ Len(bids') = (IF Len(b) > depth THEN depth ELSE Len(b))
           /\ Ordered(bids', Higher) /\ BestOf(bids', b, Higher)
           /\ asks' \in Seq(Nat) /\ Len(asks') = (IF Len(a) > depth THEN depth ELSE Len(a))
           /\ Ordered(asks', Lower) /\ BestOf(asks', a, Lower)
  <1>1. b \in Seq(Nat) /\ a \in Seq(Nat) /\ depth \in Nat
    BY DomAssumption DEF TypeOK
  <1>2. /\ \E s \in Sortings(b, Higher) : bids' = Cut(s, depth)
        /\ \E s \in Sortings(a, Lower) : asks' = Cut(s, depth)
    BY DEF Book
  <1>. QED  BY <1>1, <1>2, Bids, Asks

LEMMA ConfigTypes ==
    ASSUME TypeOK, NEW c \in Callers, NEW ch \in ChannelIds, NEW limit \in DepthLimits,
           HandleConfig(c, ch, limit)
    PROVE  TypeOK'
  <1>1. /\ channel' = ch /\ depth' = limit /\ configured' = TRUE
        /\ calls' = calls + 1 /\ calls < MaxCalls
        /\ UNCHANGED <<bids, asks, time, snapshot, pc, writer, sent, received, receiver>>
    BY DEF HandleConfig, Enter, bookVars, queueVars
  <1>2. calls' \in 0 .. MaxCalls
    BY <1>1, OneMoreCall
  <1>. QED  BY <1>1, <1>2 DEF TypeOK

LEMMA SnapshotTypes ==
    ASSUME TypeOK, NEW c \in Callers, NEW ch \in ChannelIds, NEW t \in Times,
           NEW b \in Sides, NEW a \in Sides, HandleSnapshot(c, ch, t, b, a)
    PROVE  TypeOK'
  <1>1. /\ calls' = calls + 1 /\ calls < MaxCalls
        /\ UNCHANGED <<depth, configured, pc, writer, sent, received, receiver>>
    BY DEF HandleSnapshot, Enter, queueVars
  <1>2. calls' \in 0 .. MaxCalls
    BY <1>1, OneMoreCall
  <1>3. CASE Valid(b, a)
    <2>1. channel' = ch /\ time' = t /\ snapshot' = <<b, a>> /\ Book(b, a)
      BY <1>3 DEF HandleSnapshot
    <2>2. bids' \in Seq(Nat) /\ asks' \in Seq(Nat)
      BY <2>1, NewBook
    <2>3. snapshot' \in (Sides \cup {<<>>}) \X (Sides \cup {<<>>})
      BY <2>1
    <2>. QED  BY <1>1, <1>2, <2>1, <2>2, <2>3 DEF TypeOK
  <1>4. CASE ~Valid(b, a)
    <2>1. UNCHANGED <<channel, bids, asks, time, snapshot>>
      BY <1>4 DEF HandleSnapshot, bookVars
    <2>. QED  BY <1>1, <1>2, <2>1 DEF TypeOK
  <1>. QED  BY <1>3, <1>4

LEMMA SendTypes == ASSUME TypeOK, NEW c \in Callers, Send(c) \/ SendFails(c) PROVE TypeOK'
  <1>1. /\ pc[c] # <<>> /\ pc' = [pc EXCEPT ![c] = <<>>] /\ writer' = writer \ {c}
        /\ UNCHANGED <<channel, depth, bids, asks, time, snapshot, configured, calls>>
        /\ UNCHANGED <<received, receiver>>
    BY DEF Send, SendFails, Busy, bookVars, queueVars
  <1>2. pc' \in [Callers -> {<<>>} \cup {<<m>> : m \in Setups}] /\ writer' \subseteq Callers
    BY <1>1 DEF TypeOK
  <1>3. sent' \in Seq(Setups) /\ received \in 0 .. Len(sent') /\ Len(sent') - received <= Capacity
    <2>1. sent \in Seq(Setups) /\ received \in 0 .. Len(sent) /\ Len(sent) - received <= Capacity
      BY DEF TypeOK
    <2>2. CASE sent' = sent
      BY <2>1, <2>2
    <2>3. CASE Send(c)
      <3>1. PICK m \in Setups : pc[c] = <<m>>
        BY <1>1 DEF TypeOK
      <3>2. sent' = Append(sent, m) /\ Len(sent) - received < Capacity
        BY <2>1, <2>3, <3>1 DEF Send
      <3>. QED  BY <2>1, <3>2, DomAssumption
    <2>. QED  BY <2>2, <2>3 DEF SendFails, queueVars
  <1>. QED  BY <1>1, <1>2, <1>3 DEF TypeOK

LEMMA TypeStep == TypeOK /\ [Next]_vars => TypeOK'
  <1>. SUFFICES ASSUME TypeOK, [Next]_vars PROVE TypeOK'
    OBVIOUS
  <1>1. ASSUME NEW c \in Callers, Call(c) PROVE TypeOK'
    BY <1>1, InitializeTypes, ConfigTypes, SnapshotTypes DEF Call
  <1>2. ASSUME NEW c \in Callers, Send(c) \/ SendFails(c) PROVE TypeOK'
    BY <1>2, SendTypes
  <1>3. CASE Receive \/ DropReceiver
    <2>1. /\ UNCHANGED <<channel, depth, bids, asks, time, snapshot, pc, writer, sent>>
          /\ UNCHANGED <<configured, calls>>
      BY <1>3 DEF Receive, DropReceiver, bookVars
    <2>2. receiver' \in BOOLEAN
      BY <1>3 DEF Receive, DropReceiver, TypeOK
    <2>3. received' \in 0 .. Len(sent) /\ Len(sent) - received' <= Capacity
      <3>1. /\ received \in 0 .. Len(sent) /\ Len(sent) - received <= Capacity
            /\ Len(sent) \in Nat /\ Capacity \in Nat
        BY DomAssumption DEF TypeOK
      <3>2. (received' = received + 1 /\ received < Len(sent)) \/ received' = received
        BY <1>3 DEF Receive, DropReceiver
      <3>. QED  BY <3>1, <3>2
    <2>. QED  BY <2>1, <2>2, <2>3 DEF TypeOK
  <1>4. CASE UNCHANGED vars
    BY <1>4 DEF TypeOK, vars, bookVars, queueVars
  <1>. QED  BY <1>1, <1>2, <1>3, <1>4 DEF Next

\* Every variable of the service keeps its type, and the queue its bound.
THEOREM DomTypes == Spec => []TypeOK
  BY InitTypes, TypeStep, PTL DEF Spec

-----------------------------------------------------------------------------
(* The channel and the book *)

LEMMA StepBinds == [Next]_vars => (channel # 0 => channel' = channel)
  <1>. SUFFICES ASSUME [Next]_vars, channel # 0 PROVE channel' = channel
    OBVIOUS
  <1>1. ASSUME NEW c \in Callers, Call(c) PROVE channel' = channel
    BY <1>1 DEF Call, Initialize, HandleConfig, HandleSnapshot, Misdirected
  <1>. QED  BY <1>1, OutsideCalls DEF Next

\* No call of initialize, handle_config or handle_snapshot, whatever it is given
\* and whether or not it is refused, moves a service that is bound to a channel.
THEOREM BoundForGood == Spec => ChannelBound
  BY StepBinds, PTL DEF Spec, ChannelBound

LEMMA StepDepth ==
    TypeOK /\ [Next]_vars =>
        (bookVars' # bookVars => (Fills(bids, snapshot[1]) /\ Fills(asks, snapshot[2]))')
  <1>. DEFINE Full == Len(bids') = (IF Len(snapshot'[1]) > depth' THEN depth' ELSE Len(snapshot'[1]))
                      /\ Len(asks') = (IF Len(snapshot'[2]) > depth' THEN depth' ELSE Len(snapshot'[2]))
  <1>. SUFFICES ASSUME TypeOK, [Next]_vars, bookVars' # bookVars
                PROVE  Full
    BY DEF Fills
  <1>1. PICK c \in Callers : Call(c)
    BY OutsideCalls DEF Next, bookVars
  <1>2. PICK ch \in ChannelIds :
           \/ \E setup \in Provided : Initialize(c, ch, setup)
           \/ \E limit \in DepthLimits : HandleConfig(c, ch, limit)
           \/ \E t \in Times, b, a \in Sides : HandleSnapshot(c, ch, t, b, a)
    BY <1>1 DEF Call
  <1>3. ASSUME NEW setup \in Provided, Initialize(c, ch, setup) PROVE Full
    <2>1. TypeOK' /\ bids' = <<>> /\ asks' = <<>> /\ snapshot' = <<<<>>, <<>>>>
      BY <1>3, InitializeTypes DEF Initialize, ClearBook, bookVars
    <2>2. depth' \in Nat
      BY <2>1, DomAssumption DEF TypeOK
    <2>. QED  BY <2>1, <2>2
  <1>4. ASSUME NEW limit \in DepthLimits, HandleConfig(c, ch, limit) PROVE FALSE
    BY <1>4 DEF HandleConfig, bookVars
  <1>5. ASSUME NEW t \in Times, NEW b \in Sides, NEW a \in Sides, HandleSnapshot(c, ch, t, b, a)
        PROVE  Full
    <2>1. Book(b, a) /\ snapshot' = <<b, a>> /\ depth' = depth
      BY <1>5 DEF HandleSnapshot, bookVars
    <2>. QED  BY <2>1, NewBook
  <1>. QED  BY <1>2, <1>3, <1>4, <1>5

\* A book that is replaced has as much of the snapshot in it as the limit of the
\* moment allows.
THEOREM DeepAsAllowed == Spec => DepthRespected
  BY DomTypes, StepDepth, PTL DEF Spec, DepthRespected

\* BookReadable and BestKept say this of the book, in terms the
\* steps keep: what is in it is in the snapshot, which was valid.
BookInv ==
    /\ Valid(snapshot[1], snapshot[2])
    /\ Ordered(bids, Higher) /\ Ordered(asks, Lower)
    /\ BestKept

\* Its parts are of the book alone.
LEMMA SameBook == BookInv /\ UNCHANGED bookVars => BookInv'
  BY DEF BookInv, bookVars, Valid, Ordered, BestKept, BestOf, Higher, Lower

LEMMA EmptySide ==
    Ordered(<<>>, Higher) /\ Ordered(<<>>, Lower) /\ BestOf(<<>>, <<>>, Higher) /\ BestOf(<<>>, <<>>, Lower)
  <1>1. DOMAIN <<>> = {}
    OBVIOUS
  <1>2. <<>> \in [DOMAIN <<>> -> DOMAIN <<>>]
    OBVIOUS
  <1>. QED  BY <1>1, <1>2 DEF Ordered, BestOf

LEMMA EmptyBook == bids = <<>> /\ asks = <<>> /\ snapshot = <<<<>>, <<>>>> => BookInv
  BY EmptySide DEF BookInv, Valid, BestKept

LEMMA EmptyBookNext == (bids = <<>> /\ asks = <<>> /\ snapshot = <<<<>>, <<>>>> => BookInv)'
  BY EmptyBook, PTL

LEMMA ClearedBook == ClearBook => BookInv'
  BY EmptyBookNext DEF ClearBook

LEMMA BookStep == TypeOK /\ BookInv /\ [Next]_vars => BookInv'
  <1>. SUFFICES ASSUME TypeOK, BookInv, [Next]_vars PROVE BookInv'
    OBVIOUS
  <1>1. CASE UNCHANGED bookVars
    BY <1>1, SameBook
  <1>2. ASSUME NEW c \in Callers, NEW ch \in ChannelIds, NEW setup \in Provided,
               Initialize(c, ch, setup), ~UNCHANGED bookVars
        PROVE  BookInv'
    BY <1>2, ClearedBook DEF Initialize
  <1>3. ASSUME NEW c \in Callers, NEW ch \in ChannelIds, NEW t \in Times,
               NEW b \in Sides, NEW a \in Sides, HandleSnapshot(c, ch, t, b, a),
               ~UNCHANGED bookVars
        PROVE  BookInv'
    <2>1. Valid(b, a) /\ time' = t /\ snapshot' = <<b, a>> /\ Book(b, a)
      BY <1>3 DEF HandleSnapshot
    <2>2. snapshot'[1] = b /\ snapshot'[2] = a
      BY <2>1
    <2>3. /\ BestOf(bids', b, Higher) /\ BestOf(asks', a, Lower)
          /\ Ordered(bids', Higher) /\ Ordered(asks', Lower)
      BY <2>1, NewBook
    <2>4. BestKept' /\ Ordered(bids, Higher)' /\ Ordered(asks, Lower)'
      BY <2>2, <2>3 DEF BestKept, BestOf, Ordered, Higher, Lower
    <2>. QED  BY <2>1, <2>2, <2>4 DEF BookInv, Valid
  <1>4. \A c \in Callers, ch \in ChannelIds, limit \in DepthLimits :
           HandleConfig(c, ch, limit) => UNCHANGED bookVars
    BY DEF HandleConfig
  <1>. QED  BY <1>1, <1>2, <1>3, <1>4, OutsideCalls DEF Next, Call

LEMMA ReadableBook == BookInv => BookReadable
  <1>. SUFFICES ASSUME BookInv PROVE BookReadable
    OBVIOUS
  <1>1. \A i \in DOMAIN bids : \E j \in DOMAIN snapshot[1] : bids[i] = snapshot[1][j]
    BY DEF BookInv, BestKept, BestOf
  <1>2. \A i \in DOMAIN asks : \E j \in DOMAIN snapshot[2] : asks[i] = snapshot[2][j]
    BY DEF BookInv, BestKept, BestOf
  <1>. QED  BY <1>1, <1>2 DEF BookInv, BookReadable, Valid

LEMMA BookAlways == Spec => []BookInv
  <1>1. Init => BookInv
    BY EmptyBook DEF Init
  <1>. QED  BY <1>1, DomTypes, BookStep, PTL DEF Spec

\* Whatever snapshots come, in whatever order, and whatever limits: no refused
\* entry, best price first.
THEOREM ReadableAlways == Spec => []BookReadable
  BY BookAlways, ReadableBook, PTL

\* The book is the best part of the last snapshot: nothing in it is doubled or
\* left from an earlier one, and what was cut off is no better than what stayed.
THEOREM BestNeverCut == Spec => []BestKept
  BY BookAlways, PTL DEF BookInv

-----------------------------------------------------------------------------
(* The setups *)

\* Message m is of the service's channel, and of its limit if it has one.
Matches(m) ==
    /\ m.channel # 0 /\ m.channel = channel
    /\ "limit" \in DOMAIN m => m.limit = depth

\* Why SetupMatches holds: the write lock has one holder at a time, which is the
\* only caller with a DOM_SETUP to send, and while it waits that setup matches.
LockInv ==
    /\ \A c \in Callers : pc[c] # <<>> <=> c \in writer
    /\ \A c, d \in writer : c = d
    /\ \A c \in writer : ~configured /\ Matches(pc[c][1])

SentInv ==
    /\ \A i \in DOMAIN sent : sent[i].channel # 0 /\ sent[i].channel = channel
    /\ sent # <<>> /\ receiver /\ ~configured /\ writer = {} => Matches(sent[Len(sent)])

SetupInv == LockInv /\ SentInv

\* Binding the service is of no consequence to the setups already sent.
LEMMA BindingKeeps ==
    ASSUME TypeOK, SetupInv, NEW ch, ~Misdirected(ch), channel' \in {channel, ch},
           UNCHANGED queueVars
    PROVE  /\ \A i \in DOMAIN sent' : sent'[i].channel # 0 /\ sent'[i].channel = channel'
           /\ sent # <<>> => channel' = channel
  <1>1. sent' = sent /\ (channel # 0 => channel' = channel)
    BY DEF queueVars, Misdirected
  <1>2. \A i \in DOMAIN sent : sent[i].channel # 0 /\ sent[i].channel = channel
    BY DEF SetupInv, SentInv
  <1>3. sent # <<>> => 1 \in DOMAIN sent
    BY DEF TypeOK
  <1>4. sent # <<>> => channel # 0
    BY <1>2, <1>3
  <1>. QED  BY <1>1, <1>2, <1>4

\* A call that takes the lock and returns it at once.
LEMMA EnterSetup ==
    ASSUME TypeOK, SetupInv, NEW c \in Callers, NEW ch \in ChannelIds, Enter(c),
           ~Misdirected(ch), channel' \in {channel, ch}, UNCHANGED <<pc, writer, queueVars>>,
           configured' \/ UNCHANGED <<depth, configured>>
    PROVE  SetupInv'
  <1>1. writer = {} /\ writer' = {} /\ sent' = sent /\ receiver' = receiver /\ pc' = pc
    BY DEF Enter, queueVars
  <1>2. LockInv'
    BY <1>1 DEF SetupInv, LockInv
  <1>3. /\ \A i \in DOMAIN sent' : sent'[i].channel # 0 /\ sent'[i].channel = channel'
        /\ sent # <<>> => channel' = channel
    BY BindingKeeps
  <1>4. ASSUME sent # <<>>, receiver, ~configured' PROVE Matches(sent[Len(sent)])'
    <2>1. depth' = depth /\ configured' = configured /\ channel' = channel
      BY <1>3, <1>4
    <2>. QED  BY <1>1, <1>4, <2>1 DEF SetupInv, SentInv, Matches
  <1>. QED  BY <1>1, <1>2, <1>3, <1>4 DEF SetupInv, SentInv

LEMMA InitializeSetup ==
    ASSUME TypeOK, SetupInv, NEW c \in Callers, NEW ch \in ChannelIds, NEW setup \in Provided,
           Initialize(c, ch, setup)
    PROVE  SetupInv'
  <1>1. /\ Enter(c) /\ ~Misdirected(ch) /\ channel' = ch
        /\ sent' = sent /\ receiver' = receiver /\ UNCHANGED queueVars
    BY DEF Initialize, queueVars
  <1>2. CASE UNCHANGED <<depth, bookVars, pc, writer, configured>>
    BY <1>1, <1>2, EnterSetup
  <1>3. CASE ~(setup # <<>> /\ setup[1] \notin {0, ch})
    <2>1. writer' = {c} /\ configured' = FALSE /\ writer = {}
      BY <1>1, <1>3 DEF Initialize, Hold, Enter
    <2>2. \/ pc' = [pc EXCEPT ![c] = << [channel |-> ch] >>]
          \/ pc' = [pc EXCEPT ![c] = << [channel |-> ch, limit |-> depth'] >>]
      BY <1>3 DEF Initialize, Busy
    <2>3. pc'[c] # <<>> /\ Matches(pc[c][1])'
      <3>1. ch # 0
        BY <1>1 DEF Misdirected
      <3>2. pc'[c] = << [channel |-> ch] >> \/ pc'[c] = << [channel |-> ch, limit |-> depth'] >>
        BY <2>2 DEF TypeOK
      <3>. QED  BY <1>1, <3>1, <3>2 DEF Matches
    <2>4. \A d \in Callers : d # c => pc'[d] = <<>>
      BY <2>1, <2>2 DEF TypeOK, SetupInv, LockInv
    <2>5. LockInv'
      BY <2>1, <2>3, <2>4 DEF LockInv
    <2>6. SentInv'
      BY <1>1, <2>1, BindingKeeps DEF SentInv
    <2>. QED  BY <2>5, <2>6 DEF SetupInv
  <1>. QED  BY <1>2, <1>3 DEF Initialize

LEMMA SendSetup == ASSUME TypeOK, SetupInv, NEW c \in Callers, Send(c) \/ SendFails(c)
                   PROVE  SetupInv'
  <1>1. /\ pc[c] # <<>> /\ pc' = [pc EXCEPT ![c] = <<>>] /\ writer' = writer \ {c}
        /\ UNCHANGED <<channel, depth, configured, receiver>>
    BY DEF Send, SendFails, Busy, queueVars
  <1>2. c \in writer /\ writer' = {} /\ ~configured /\ Matches(pc[c][1])
    BY <1>1 DEF SetupInv, LockInv
  <1>3. \A d \in Callers : pc'[d] = <<>>
    BY <1>1, <1>2 DEF TypeOK, SetupInv, LockInv
  <1>4. LockInv'
    BY <1>2, <1>3 DEF LockInv
  <1>5. ASSUME SendFails(c) PROVE SentInv'
    <2>1. ~receiver' /\ sent' = sent
      BY <1>5 DEF SendFails, queueVars
    <2>2. \A i \in DOMAIN sent : sent[i].channel # 0 /\ sent[i].channel = channel
      BY DEF SetupInv, SentInv
    <2>. QED  BY <1>1, <2>1, <2>2 DEF SentInv
  <1>6. ASSUME Send(c) PROVE SentInv'
    <2>1. PICK m \in Setups : pc[c] = <<m>>
      BY <1>1 DEF TypeOK
    <2>2. sent \in Seq(Setups) /\ sent' = Append(sent, m)
      BY <1>6, <2>1 DEF Send, TypeOK
    <2>3. Matches(m) /\ Matches(m)'
      BY <1>1, <1>2, <2>1 DEF Matches
    <2>4. sent'[Len(sent')] = m
      BY <2>2
    <2>5. \A i \in DOMAIN sent' : sent'[i] = m \/ (i \in DOMAIN sent /\ sent'[i] = sent[i])
      BY <2>2
    <2>6. \A i \in DOMAIN sent' : sent'[i].channel # 0 /\ sent'[i].channel = channel'
      BY <1>1, <2>3, <2>5 DEF SetupInv, SentInv, Matches
    <2>7. Matches(sent[Len(sent)])'
      BY <2>3, <2>4 DEF Matches
    <2>. QED  BY <2>6, <2>7 DEF SentInv
  <1>. QED  BY <1>4, <1>5, <1>6 DEF SetupInv

LEMMA SetupStep == TypeOK /\ SetupInv /\ [Next]_vars => SetupInv'
  <1>. SUFFICES ASSUME TypeOK, SetupInv, [Next]_vars PROVE SetupInv'
    OBVIOUS
  <1>1. ASSUME NEW c \in Callers, Call(c) PROVE SetupInv'
    <2>1. PICK ch \in ChannelIds :
             \/ \E setup \in Provided : Initialize(c, ch, setup)
             \/ \E limit \in DepthLimits : HandleConfig(c, ch, limit)
             \/ \E t \in Times, b, a \in Sides : HandleSnapshot(c, ch, t, b, a)
      BY <1>1 DEF Call
    <2>2. ASSUME NEW limit \in DepthLimits, HandleConfig(c, ch, limit) PROVE SetupInv'
      BY <2>2, EnterSetup DEF HandleConfig
    <2>3. ASSUME NEW t \in Times, NEW b \in Sides, NEW a \in Sides,
                 HandleSnapshot(c, ch, t, b, a)
          PROVE  SetupInv'
      BY <2>3, EnterSetup DEF HandleSnapshot
    <2>. QED  BY <2>1, <2>2, <2>3, InitializeSetup
  <1>2. ASSUME NEW c \in Callers, Send(c) \/ SendFails(c) PROVE SetupInv'
    BY <1>2, SendSetup
  <1>3. CASE Receive \/ DropReceiver \/ UNCHANGED vars
    <2>1. /\ UNCHANGED <<channel, depth, pc, writer, sent, configured>>
          /\ receiver' => receiver
      BY <1>3 DEF Receive, DropReceiver, vars, queueVars
    <2>. QED  BY <2>1 DEF SetupInv, LockInv, SentInv, Matches
  <1>. QED  BY <1>1, <1>2, <1>3 DEF Next

LEMMA SetupMeans == TypeOK /\ SetupInv => SetupMatches
  <1>. SUFFICES ASSUME TypeOK, SetupInv, sent # <<>>, receiver, ~configured,
                       \A c \in Callers : pc[c] = <<>>
                PROVE  Matches(sent[Len(sent)])
    BY DEF SetupMatches, Matches
  <1>1. writer = {}
    BY DEF TypeOK, SetupInv, LockInv
  <1>. QED  BY <1>1 DEF SetupInv, SentInv

LEMMA SetupAlways == Spec => []SetupInv
  <1>1. Init => SetupInv
    BY DEF Init, SetupInv, LockInv, SentInv
  <1>. QED  BY <1>1, DomTypes, SetupStep, PTL DEF Spec

\* However concurrent initializations overlap with each other, with configurations
\* and with a queue that is full: the last DOM_SETUP the server gets is the one
\* whose limit the service works with.
THEOREM LastSetupMatches == Spec => []SetupMatches
  BY DomTypes, SetupAlways, SetupMeans, PTL

\* The book while somebody holds the lock.
EmptyInv == writer # {} => bids = <<>> /\ asks = <<>> /\ time = 0

LEMMA EmptyStep == EmptyInv /\ [Next]_vars => EmptyInv'
  <1>. SUFFICES ASSUME EmptyInv, [Next]_vars PROVE EmptyInv'
    OBVIOUS
  <1>1. ASSUME NEW c \in Callers, Call(c) PROVE EmptyInv'
    <2>1. writer = {}
      BY <1>1 DEF Call, Initialize, HandleConfig, HandleSnapshot, Enter
    <2>2. writer' = {} \/ ClearBook
      BY <1>1, <2>1 DEF Call, Initialize, HandleConfig, HandleSnapshot
    <2>. QED  BY <2>2 DEF ClearBook, EmptyInv
  <1>2. CASE (\E c \in Callers : Send(c) \/ SendFails(c)) \/ Receive \/ DropReceiver \/ UNCHANGED vars
    <2>1. writer' \subseteq writer /\ UNCHANGED <<bids, asks, time>>
      BY <1>2 DEF Send, SendFails, Receive, DropReceiver, vars, bookVars
    <2>. QED  BY <2>1 DEF EmptyInv
  <1>. QED  BY <1>1, <1>2 DEF Next

\* Between an initialize and its DOM_SETUP no snapshot gets in, however the calls
\* overlap: the book stays as empty as initialize made it.
THEOREM FreshAlways == Spec => []FreshUntilSent
  <1>1. Init => EmptyInv
    BY DEF Init, EmptyInv
  <1>2. SetupInv /\ EmptyInv => FreshUntilSent
    BY DEF SetupInv, LockInv, EmptyInv, FreshUntilSent
  <1>. QED  BY <1>1, <1>2, SetupAlways, EmptyStep, PTL DEF Spec
=============================================================================
