------------------------- MODULE FeedDecode_proofs -------------------------
(***************************************************************************)
(* Proofs about FeedDecode, for any arrays of data and any fields.         *)
(***************************************************************************)
EXTENDS FeedDecode, SequenceTheorems, FiniteSetTheorems, TLAPS

IsSeq(s) == \E S : s \in Seq(S)

LEMMA AtMostOne == \A n \in Nat : n <= 1 => n \in 0 .. 1
  OBVIOUS

LEMMA SeqShape ==
    ASSUME NEW s, IsSeq(s)
    PROVE  Len(s) \in Nat /\ DOMAIN s = 1 .. Len(s) /\ s = [i \in 1 .. Len(s) |-> s[i]]
  BY LenProperties DEF IsSeq

\* A function on 1 .. n is a sequence of length n.
LEMMA SeqMade ==
    ASSUME NEW n \in Nat, NEW f, f = [i \in 1 .. n |-> f[i]]
    PROVE  IsSeq(f) /\ Len(f) = n
  <1> DEFINE S == {f[i] : i \in 1 .. n}
  <1>1. f \in [1 .. n -> S]
    OBVIOUS
  <1>2. f \in Seq(S)
    BY <1>1, SeqDef
  <1>3. DOMAIN f = 1 .. n /\ DOMAIN f = 1 .. Len(f) /\ Len(f) \in Nat
    BY <1>1, <1>2, LenProperties
  <1> HIDE DEF S
  <1>4. Len(f) = n
    BY <1>3
  <1>. QED  BY <1>2, <1>4 DEF IsSeq

LEMMA SeqAppended ==
    ASSUME NEW s, IsSeq(s), NEW x
    PROVE  /\ IsSeq(Append(s, x)) /\ Len(Append(s, x)) = Len(s) + 1
           /\ \A i \in 1 .. Len(s) : Append(s, x)[i] = s[i]
           /\ Append(s, x)[Len(s) + 1] = x
  <1>1. PICK S : s \in Seq(S)
    BY DEF IsSeq
  <1> DEFINE T == S \cup {x}
  <1>2. s \in Seq(T) /\ x \in T
    BY <1>1, SeqMonotonic
  <1>. QED  BY <1>2 DEF IsSeq

-----------------------------------------------------------------------------
(* What an event is written as can be read, and reads the same. *)

\* The required field is one of the struct's.
LEMMA RequiredIsField ==
    ASSUME NEW type \in EventTypes
    PROVE  FeedEvent(type).required \in Fields(FeedEvent(type))
  BY DEF EventTypes, FeedEvent, Fields, Event, Schema, WithBools, QuoteEvent, ProfileEvent,
         TradeEvent, TradeETHEvent, CandleEvent, SummaryEvent, TimeAndSaleEvent, GreeksEvent,
         TheoPriceEvent, UnderlyingEvent, OptionSaleEvent, SeriesEvent, OrderEvent,
         SpreadOrderEvent, AnalyticOrderEvent, ConfigurationEvent, MessageEvent

\* No field has two kinds.
Apart(s) == \A f \in s.double : f \notin s.string /\ f \notin s.long /\ f \notin s.bool

LEMMA KindsApart == \A type \in EventTypes : Apart(FeedEvent(type))
  <1>1. Apart(QuoteEvent) /\ Apart(ProfileEvent)
    BY DEF Apart, QuoteEvent, ProfileEvent, Event, Schema
  <1>2. Apart(TradeEvent) /\ Apart(TradeETHEvent)
    BY DEF Apart, TradeEvent, TradeETHEvent, WithBools, Event, Schema
  <1>3. Apart(CandleEvent) /\ Apart(SummaryEvent)
    BY DEF Apart, CandleEvent, SummaryEvent, Event, Schema
  <1>4. Apart(TimeAndSaleEvent) /\ Apart(GreeksEvent)
    BY DEF Apart, TimeAndSaleEvent, GreeksEvent, WithBools, Event, Schema
  <1>5. Apart(TheoPriceEvent) /\ Apart(UnderlyingEvent)
    BY DEF Apart, TheoPriceEvent, UnderlyingEvent, Event, Schema
  <1>6. Apart(OptionSaleEvent) /\ Apart(SeriesEvent)
    BY DEF Apart, OptionSaleEvent, SeriesEvent, Event, Schema
  <1>7. Apart(OrderEvent) /\ Apart(SpreadOrderEvent)
    BY DEF Apart, OrderEvent, SpreadOrderEvent, Event, Schema
  <1>8. Apart(AnalyticOrderEvent)
    BY DEF Apart, AnalyticOrderEvent, OrderEvent, Event, Schema
  <1>9. Apart(ConfigurationEvent) /\ Apart(MessageEvent)
    BY DEF Apart, ConfigurationEvent, MessageEvent, Event, Schema
  <1>. QED  BY <1>1, <1>2, <1>3, <1>4, <1>5, <1>6, <1>7, <1>8, <1>9 DEF EventTypes, FeedEvent

\* What a JSONDouble is written as reads as that JSONDouble.
LEMMA DoubleReadsBack ==
    ASSUME NEW v, ReadDouble(v) # "error"
    PROVE  /\ WriteDouble(ReadDouble(v)) # "null"
           /\ ReadDouble(WriteDouble(ReadDouble(v))) = ReadDouble(v)
  <1>1. ReadDouble(v) \in {"Number", "NaN", "Infinity", "NegInfinity"}
    BY DEF ReadDouble
  <1>. QED  BY <1>1 DEF ReadDouble, WriteDouble

\* Read, written and read again, an event is what it was.
LEMMA EventReadsBack ==
    ASSUME NEW type, NEW obj, Readable(type, obj)
    PROVE  LET event == ReadEvent(type, obj) IN
           /\ Readable(type, WriteEvent(type, event))
           /\ ReadEvent(type, WriteEvent(type, event)) = event
  <1> DEFINE s == FeedEvent(type)
             held == {f \in DOMAIN obj \cap Fields(s) : obj[f] # "null"}
             event == ReadEvent(type, obj)
             written == WriteEvent(type, event)
  <1>1. type \in EventTypes /\ s.required \in Fields(s) /\ s.required \in DOMAIN obj
    BY RequiredIsField DEF Readable
  <1>2. \A f \in DOMAIN obj \cap Fields(s) : Fits(s, f, obj[f])
    BY DEF Readable
  <1>3. event = [f \in held |-> IF f \in s.double THEN ReadDouble(obj[f]) ELSE obj[f]]
    BY DEF ReadEvent
  <1>4. s.required \in held
    BY <1>1, <1>2 DEF Fits
  <1>5. written = [f \in (IF type = "Quote" THEN held ELSE Fields(s)) |->
                      IF f \notin held THEN "null"
                      ELSE IF f \in s.double THEN WriteDouble(ReadDouble(obj[f])) ELSE obj[f]]
    BY <1>3 DEF WriteEvent
  <1>6. held \subseteq DOMAIN written /\ DOMAIN written \subseteq Fields(s)
    BY <1>5
  <1>7. ASSUME NEW f \in held
        PROVE  /\ written[f] # "null"
               /\ Fits(s, f, written[f])
               /\ (IF f \in s.double THEN ReadDouble(written[f]) ELSE written[f]) = event[f]
    <2>1. Fits(s, f, obj[f]) /\ obj[f] # "null" /\ f \in DOMAIN written
      BY <1>2, <1>6, <1>7
    <2>2. CASE f \in s.double
      <3>1. ReadDouble(obj[f]) # "error"
        BY <2>1, <2>2 DEF Fits
      <3>2. written[f] = WriteDouble(ReadDouble(obj[f])) /\ event[f] = ReadDouble(obj[f])
        BY <1>3, <1>5, <2>1, <2>2, <1>7
      <3>3. written[f] # "null" /\ ReadDouble(written[f]) = event[f] /\ event[f] # "error"
        BY <3>1, <3>2, DoubleReadsBack
      <3>4. f \notin s.string /\ f \notin s.long /\ f \notin s.bool
        BY <1>1, <2>2, KindsApart DEF Apart
      <3>. QED  BY <2>2, <3>3, <3>4 DEF Fits
    <2>3. CASE f \notin s.double
      BY <1>3, <1>5, <1>7, <2>1, <2>3
    <2>. QED  BY <2>2, <2>3
  <1>8. \A f \in DOMAIN written : f \notin held => written[f] = "null" /\ Fits(s, f, "null")
    BY <1>4, <1>5 DEF Fits
  <1>9. Readable(type, written)
    <2>1. s.required \in DOMAIN written
      BY <1>4, <1>6
    <2>2. \A f \in DOMAIN written : Fits(s, f, written[f])
      BY <1>7, <1>8
    <2>. QED  BY <1>1, <2>1, <2>2 DEF Readable
  <1>10. {f \in DOMAIN written \cap Fields(s) : written[f] # "null"} = held
    BY <1>6, <1>7, <1>8
  <1>11. ReadEvent(type, written) =
           [f \in held |-> IF f \in s.double THEN ReadDouble(written[f]) ELSE written[f]]
    BY <1>10 DEF ReadEvent
  <1>12. ReadEvent(type, written) = event
    BY <1>3, <1>7, <1>11
  <1>. QED  BY <1>9, <1>12
-----------------------------------------------------------------------------
(* What is written can be deserialized, and gives the same. *)

LEMMA CompactReadsBack ==
    ASSUME NEW d, NEW ps \in Seq(Nat)
    PROVE  LET m == Compact(d, ps)
               w == Serialize(m) IN
           /\ IsSeq(w) /\ Len(w) = 2 * Len(ps) /\ Len(m.items) = Len(ps)
           /\ \A p \in Nat : p % 2 = 1 /\ p < Len(w) => IsPair(w, p)
           /\ \A qs \in Seq(Nat) :
                 Len(qs) = Len(ps) /\ (\A k \in DOMAIN qs : qs[k] = 2 * k - 1)
                     => Compact(w, qs) = m
  <1> DEFINE n == Len(ps)
             item(k) == [type |-> d[ps[k]].type, values |-> d[ps[k] + 1].values,
                         event |-> NoFields]
             m == Compact(d, ps)
             w == Serialize(m)
  <1>1. n \in Nat /\ DOMAIN ps = 1 .. n
    BY LenProperties
  <1>2. m.format = "Compact" /\ m.items = [k \in 1 .. n |-> item(k)]
    BY <1>1 DEF Compact
  <1>3. Len(m.items) = n
    BY <1>1, <1>2, SeqMade
  <1>4. w = [p \in 1 .. 2 * n |->
               IF p % 2 = 1 THEN Item("string", m.items[(p + 1) \div 2].type, <<>>, NoFields)
                            ELSE Item("array", "none", m.items[p \div 2].values, NoFields)]
    BY <1>2, <1>3 DEF Serialize
  <1>5. IsSeq(w) /\ Len(w) = 2 * n
    <2>1. 2 * n \in Nat /\ w = [p \in 1 .. 2 * n |-> w[p]]
      BY <1>1, <1>4
    <2>. QED  BY <2>1, SeqMade
  <1>6. ASSUME NEW k \in 1 .. n
        PROVE  /\ w[2 * k - 1] = Item("string", item(k).type, <<>>, NoFields)
               /\ w[2 * k] = Item("array", "none", item(k).values, NoFields)
    <2>1. /\ 2 * k - 1 \in 1 .. 2 * n /\ (2 * k - 1) % 2 = 1 /\ ((2 * k - 1) + 1) \div 2 = k
          /\ 2 * k \in 1 .. 2 * n /\ (2 * k) % 2 # 1 /\ (2 * k) \div 2 = k
      BY <1>1
    <2>2. m.items[k] = item(k)
      BY <1>2
    <2>. HIDE DEF m, item, n, w
    <2>3. w[2 * k - 1] = Item("string", m.items[k].type, <<>>, NoFields)
      BY <1>4, <2>1
    <2>4. w[2 * k] = Item("array", "none", m.items[k].values, NoFields)
      BY <1>4, <2>1
    <2>. QED  BY <2>2, <2>3, <2>4
  <1>7. ASSUME NEW p \in Nat, p % 2 = 1, p < Len(w) PROVE IsPair(w, p)
    <2>1. PICK k \in 1 .. n : p = 2 * k - 1
      <3>1. p = 2 * ((p + 1) \div 2) - 1 /\ (p + 1) \div 2 \in 1 .. n
        BY <1>1, <1>5, <1>7
      <3>. QED  BY <3>1
    <2>2. p + 1 = 2 * k
      BY <1>1, <2>1
    <2>3. Item("string", item(k).type, <<>>, NoFields).is = "string"
      BY DEF Item
    <2>4. Item("array", "none", item(k).values, NoFields).is = "array"
      BY DEF Item
    <2>. HIDE DEF w, item, n
    <2>5. w[p].is = "string" /\ w[p + 1].is = "array"
      BY <1>6, <2>1, <2>2, <2>3, <2>4
    <2>. QED  BY <1>7, <2>5 DEF IsPair
  <1>8. ASSUME NEW qs \in Seq(Nat), Len(qs) = n, \A k \in DOMAIN qs : qs[k] = 2 * k - 1
        PROVE  Compact(w, qs) = m
    <2>1. DOMAIN qs = 1 .. n
      BY <1>8, LenProperties
    <2>2. \A k \in 1 .. n : w[qs[k]].type = item(k).type /\ w[qs[k] + 1].values = item(k).values
      <3>. TAKE k \in 1 .. n
      <3>1. qs[k] = 2 * k - 1
        BY <1>8, <2>1
      <3>2. qs[k] + 1 = 2 * k
        BY <1>1, <3>1
      <3>3. Item("string", item(k).type, <<>>, NoFields).type = item(k).type
        BY DEF Item
      <3>4. Item("array", "none", item(k).values, NoFields).values = item(k).values
        BY DEF Item
      <3>. HIDE DEF w, item, n
      <3>. QED  BY <1>6, <3>1, <3>2, <3>3, <3>4
    <2>3. Compact(w, qs) =
            [format |-> "Compact",
             items |-> [k \in 1 .. n |-> [type |-> item(k).type, values |-> item(k).values,
                                          event |-> NoFields]]]
      BY <2>1, <2>2 DEF Compact
    <2>. QED  BY <1>1, <2>3 DEF Compact
  <1>. QED  BY <1>3, <1>5, <1>7, <1>8

LEMMA FullReadsBack ==
    ASSUME NEW d, IsSeq(d), AllEvents(d)
    PROVE  LET m == Full(d)
               w == Serialize(m) IN
           IsSeq(w) /\ ~IsPair(w, 1) /\ AllEvents(w) /\ Full(w) = m
  <1> DEFINE n == Len(d)
             event(p) == ReadEvent(d[p].type, d[p].object)
             m == Full(d)
             w == Serialize(m)
  <1>1. n \in Nat /\ DOMAIN d = 1 .. n
    BY SeqShape
  <1>2. /\ m.format = "Full"
        /\ m.items = [p \in 1 .. n |-> [type |-> d[p].type, values |-> <<>>, event |-> event(p)]]
    BY <1>1 DEF Full
  <1>3. w = [p \in 1 .. n |-> Item("object", d[p].type, <<>>, WriteEvent(d[p].type, event(p)))]
    BY <1>2 DEF Serialize
  <1>4. IsSeq(w) /\ Len(w) = n /\ DOMAIN w = 1 .. n
    BY <1>1, <1>3, SeqMade
  <1>5. ~IsPair(w, 1)
    BY <1>1, <1>3, <1>4 DEF IsPair, Item
  <1>6. ASSUME NEW p \in 1 .. n
        PROVE  /\ w[p].is = "object" /\ w[p].type = d[p].type
               /\ Readable(w[p].type, w[p].object)
               /\ ReadEvent(w[p].type, w[p].object) = event(p)
    <2>1. Readable(d[p].type, d[p].object)
      BY <1>1 DEF AllEvents
    <2>2. /\ w[p].is = "object" /\ w[p].type = d[p].type
          /\ w[p].object = WriteEvent(d[p].type, event(p))
      BY <1>3 DEF Item
    <2>. QED  BY <2>1, <2>2, EventReadsBack
  <1>7. AllEvents(w)
    BY <1>4, <1>6 DEF AllEvents
  <1>8. Full(w) = m
    <2>1. Full(w) = [format |-> "Full",
                     items |-> [p \in 1 .. n |-> [type |-> d[p].type, values |-> <<>>,
                                                  event |-> event(p)]]]
      BY <1>4, <1>6 DEF Full
    <2>. QED  BY <1>1, <2>1 DEF Full
  <1>. QED  BY <1>4, <1>5, <1>7, <1>8
-----------------------------------------------------------------------------
(* The invariant of both deserializations. *)

DecodeTypes ==
    /\ IsSeq(data) /\ IsSeq(parsed) /\ Len(parsed) <= 2
    /\ pos \in Nat \ {0} /\ pairs \in Seq(Nat)
    /\ stage \in {"Idle", "Deserialize", "Pairs"} => Len(parsed) <= 1
    /\ stage \in {"Idle", "Failed"} => Len(parsed) = 0
    /\ stage \in {"Idle", "Deserialize"} => pos = 1 /\ pairs = <<>>
    /\ stage = "Pairs" => IsPair(data, 1)

FromCompact(m) == \E d, ps : ps \in Seq(Nat) /\ Len(ps) > 0 /\ m = Compact(d, ps)
FromFull(m) == \E d : IsSeq(d) /\ AllEvents(d) /\ m = Full(d)

\* In the second parse the data is what the first was written as, and its pairs
\* lie side by side.
Rereading ==
    Len(parsed) = 1 /\ stage \in {"Deserialize", "Pairs"} =>
        /\ data = Serialize(parsed[1])
        /\ stage = "Pairs" =>
              /\ FromCompact(parsed[1])
              /\ pos = 2 * Len(pairs) + 1 /\ Len(pairs) <= Len(parsed[1].items)
              /\ \A k \in DOMAIN pairs : pairs[k] = 2 * k - 1

DecodeInv ==
    /\ DecodeTypes /\ PairsExact /\ Rereading
    /\ Len(parsed) > 0 => FromCompact(parsed[1]) \/ FromFull(parsed[1])
    /\ Len(parsed) = 2 => parsed[2] = parsed[1]

LEMMA DecodeInvAgrees == DecodeInv => SecondParseAgrees
  <1>. SUFFICES ASSUME DecodeInv, stage = "Failed" PROVE parsed = <<>>
    BY DEF DecodeInv, SecondParseAgrees
  <1>1. IsSeq(parsed) /\ Len(parsed) = 0
    BY DEF DecodeInv, DecodeTypes
  <1>. QED  BY <1>1, EmptySeq DEF IsSeq

LEMMA StartInv ==
    ASSUME NEW in \in Inputs, data = in.data, stage \in {"Idle", "Deserialize"}, pos = 1,
           pairs = <<>>, parsed = <<>>
    PROVE  DecodeInv
  <1>1. IsSeq(data)
    BY DecodeAssumption DEF IsSeq
  <1>2. IsSeq(parsed) /\ Len(parsed) = 0 /\ pairs \in Seq(Nat) /\ DOMAIN pairs = {}
    BY EmptySeq DEF IsSeq
  <1>. QED  BY <1>1, <1>2 DEF DecodeInv, DecodeTypes, PairsExact, Rereading

\* The first two items of what COMPACT data is written as are a pair.
LEMMA CompactIsPair == \A m : FromCompact(m) => IsPair(Serialize(m), 1)
  <1>. SUFFICES ASSUME NEW d, NEW ps \in Seq(Nat), Len(ps) > 0
                PROVE  IsPair(Serialize(Compact(d, ps)), 1)
    BY DEF FromCompact
  <1>1. 1 % 2 = 1 /\ 1 < 2 * Len(ps)
    BY LenProperties
  <1>. QED  BY <1>1, CompactReadsBack

LEMMA RecogniseInv == DecodeInv /\ Recognise => DecodeInv'
  <1>. SUFFICES ASSUME DecodeInv, Recognise PROVE DecodeInv'
    OBVIOUS
  <1>1. /\ data' = data /\ pos' = pos /\ pairs' = pairs /\ pos = 1 /\ pairs = <<>>
        /\ stage = "Deserialize" /\ Len(parsed) \in 0 .. 1
    <2>1. stage = "Deserialize" /\ Len(parsed) \in 0 .. 1
      <3>1. stage = "Deserialize" /\ IsSeq(parsed)
        BY DEF Recognise, DecodeInv, DecodeTypes
      <3>2. Len(parsed) <= 1
        BY <3>1 DEF DecodeInv, DecodeTypes
      <3>3. Len(parsed) \in Nat
        BY <3>1, SeqShape
      <3>. QED  BY <3>1, <3>2, <3>3, AtMostOne
    <2>2. pos = 1 /\ pairs = <<>>
      BY <2>1 DEF DecodeInv, DecodeTypes
    <2>3. data' = data /\ pos' = pos /\ pairs' = pairs
      BY DEF Recognise
    <2>. QED  BY <2>1, <2>2, <2>3
  <1>2. PairsExact' /\ Len(pairs) = 0 /\ DOMAIN pairs = {}
    BY <1>1, EmptySeq DEF PairsExact
  <1>3. CASE IsPair(data, 1)
    <2>1. stage' = "Pairs" /\ parsed' = parsed
      BY <1>3 DEF Recognise
    <2>2. DecodeTypes'
      BY <1>1, <1>3, <2>1 DEF DecodeInv, DecodeTypes, IsPair
    <2>3. ASSUME Len(parsed) = 1 PROVE FromCompact(parsed[1]) /\ Len(parsed[1].items) \in Nat
      <3>1. data = Serialize(parsed[1])
        BY <1>1, <2>3 DEF DecodeInv, Rereading
      <3>2. ~FromFull(parsed[1])
        BY <1>3, <3>1, FullReadsBack DEF FromFull
      <3>3. FromCompact(parsed[1])
        BY <2>3, <3>2 DEF DecodeInv
      <3>. QED  BY <3>3, CompactReadsBack, LenProperties DEF FromCompact
    <2>4. Rereading'
      BY <1>1, <1>2, <2>1, <2>3 DEF DecodeInv, Rereading
    <2>. QED  BY <1>1, <1>2, <2>1, <2>2, <2>4 DEF DecodeInv
  <1>4. CASE ~IsPair(data, 1) /\ AllEvents(data)
    <2>1. stage' = "Parsed" /\ parsed' = Append(parsed, Full(data))
      BY <1>4 DEF Recognise
    <2>2. /\ IsSeq(parsed') /\ Len(parsed') = Len(parsed) + 1
          /\ \A i \in 1 .. Len(parsed) : parsed'[i] = parsed[i]
          /\ parsed'[Len(parsed) + 1] = Full(data)
      BY <2>1, SeqAppended DEF DecodeInv, DecodeTypes
    <2>3. DecodeTypes'
      BY <1>1, <2>1, <2>2 DEF DecodeInv, DecodeTypes
    <2>4. Rereading'
      BY <2>1 DEF Rereading
    <2>5. CASE Len(parsed) = 0
      BY <1>2, <1>4, <2>2, <2>3, <2>4, <2>5 DEF DecodeInv, DecodeTypes, FromFull
    <2>6. CASE Len(parsed) = 1
      <3>1. data = Serialize(parsed[1])
        BY <1>1, <2>6 DEF DecodeInv, Rereading
      <3>2. ~FromCompact(parsed[1])
        BY <1>4, <3>1, CompactIsPair
      <3>3. FromFull(parsed[1])
        BY <2>6, <3>2 DEF DecodeInv
      <3>4. Full(data) = parsed[1]
        BY <3>1, <3>3, FullReadsBack DEF FromFull
      <3>. QED  BY <1>2, <2>2, <2>3, <2>4, <2>6, <3>3, <3>4 DEF DecodeInv
    <2>. QED  BY <1>1, <2>5, <2>6
  <1>5. CASE ~IsPair(data, 1) /\ ~AllEvents(data)
    <2>1. stage' = "Failed" /\ parsed' = parsed
      BY <1>5 DEF Recognise
    <2>2. Len(parsed) # 1
      <3>. SUFFICES ASSUME Len(parsed) = 1 PROVE FALSE
        OBVIOUS
      <3>1. data = Serialize(parsed[1])
        BY <1>1 DEF DecodeInv, Rereading
      <3>2. ~FromFull(parsed[1])
        BY <1>5, <3>1, FullReadsBack DEF FromFull
      <3>3. ~FromCompact(parsed[1])
        BY <1>5, <3>1, CompactIsPair
      <3>. QED  BY <3>2, <3>3 DEF DecodeInv
    <2>. QED  BY <1>1, <1>2, <2>1, <2>2 DEF DecodeInv, DecodeTypes, Rereading
  <1>. QED  BY <1>3, <1>4, <1>5

LEMMA TakePairInv == DecodeInv /\ TakePair => DecodeInv'
  <1>. SUFFICES ASSUME DecodeInv, TakePair PROVE DecodeInv'
    OBVIOUS
  <1>1. /\ stage = "Pairs" /\ stage' = stage /\ data' = data /\ parsed' = parsed
        /\ IsPair(data, pos) /\ pairs' = Append(pairs, pos) /\ pos' = pos + 2
        /\ pos \in Nat \ {0} /\ pairs \in Seq(Nat)
    BY DEF TakePair, DecodeInv, DecodeTypes
  <1>2. DecodeTypes'
    BY <1>1 DEF DecodeInv, DecodeTypes
  <1>3. /\ Len(pairs) \in Nat /\ DOMAIN pairs = 1 .. Len(pairs) /\ Len(pairs') = Len(pairs) + 1
        /\ DOMAIN pairs' = 1 .. Len(pairs) + 1 /\ pairs'[Len(pairs) + 1] = pos
        /\ \A k \in DOMAIN pairs : pairs'[k] = pairs[k] /\ pairs[k] \in Nat
    BY <1>1
  <1>4. PairsExact'
    <2>1. /\ \A k \in DOMAIN pairs : IsPair(data, pairs[k]) /\ pairs[k] < pos
          /\ \A k, l \in DOMAIN pairs : k < l => pairs[k] < pairs[l]
          /\ \A p \in 1 .. pos - 1 : IsPair(data, p) => \E k \in DOMAIN pairs : pairs[k] = p
      BY DEF DecodeInv, PairsExact
    <2>2. ~IsPair(data, pos + 1)
      BY <1>1 DEF IsPair
    <2>3. \A k \in DOMAIN pairs' : IsPair(data, pairs'[k]) /\ pairs'[k] < pos + 2
      BY <1>1, <1>3, <2>1
    <2>4. \A k, l \in DOMAIN pairs' : k < l => pairs'[k] < pairs'[l]
      BY <1>1, <1>3, <2>1
    <2>5. ASSUME NEW p \in 1 .. pos + 1, IsPair(data, p)
          PROVE  \E k \in DOMAIN pairs' : pairs'[k] = p
      <3>1. p \in 1 .. pos - 1 \/ p = pos
        BY <1>1, <2>2, <2>5
      <3>. QED  BY <1>3, <2>1, <2>5, <3>1
    <2>6. (pos + 2) - 1 = pos + 1
      BY <1>1
    <2>. QED  BY <1>1, <2>3, <2>4, <2>5, <2>6 DEF PairsExact
  <1>5. Rereading'
    <2>. SUFFICES ASSUME Len(parsed) = 1
                  PROVE  /\ data = Serialize(parsed[1]) /\ FromCompact(parsed[1])
                         /\ pos + 2 = 2 * (Len(pairs) + 1) + 1
                         /\ Len(pairs) + 1 <= Len(parsed[1].items)
                         /\ \A k \in DOMAIN pairs' : pairs'[k] = 2 * k - 1
      BY <1>1, <1>3 DEF Rereading
    <2>1. /\ data = Serialize(parsed[1]) /\ FromCompact(parsed[1])
          /\ pos = 2 * Len(pairs) + 1
          /\ \A k \in DOMAIN pairs : pairs[k] = 2 * k - 1
      BY <1>1 DEF DecodeInv, Rereading
    <2>2. Len(data) = 2 * Len(parsed[1].items) /\ Len(parsed[1].items) \in Nat
      BY <2>1, CompactReadsBack, LenProperties DEF FromCompact
    <2>3. pos < Len(data)
      BY <1>1 DEF IsPair
    <2>4. pos + 2 = 2 * (Len(pairs) + 1) + 1 /\ Len(pairs) + 1 <= Len(parsed[1].items)
      BY <1>3, <2>1, <2>2, <2>3
    <2>5. \A k \in DOMAIN pairs' : pairs'[k] = 2 * k - 1
      <3>. TAKE k \in DOMAIN pairs'
      <3>1. CASE k = Len(pairs) + 1
        BY <1>3, <2>1, <3>1
      <3>2. CASE k \in DOMAIN pairs
        BY <1>3, <2>1, <3>2
      <3>. QED  BY <1>3, <3>1, <3>2
    <2>. QED  BY <2>1, <2>4, <2>5
  <1>. QED  BY <1>1, <1>2, <1>4, <1>5 DEF DecodeInv

LEMMA SkipItemInv == DecodeInv /\ SkipItem => DecodeInv'
  <1>. SUFFICES ASSUME DecodeInv, SkipItem PROVE DecodeInv'
    OBVIOUS
  <1>1. /\ stage = "Pairs" /\ stage' = stage /\ data' = data /\ parsed' = parsed
        /\ ~IsPair(data, pos) /\ pairs' = pairs /\ pos' = pos + 1 /\ pos < Len(data)
        /\ pos \in Nat \ {0} /\ pairs \in Seq(Nat)
    BY DEF SkipItem, DecodeInv, DecodeTypes
  <1>2. DecodeTypes'
    BY <1>1 DEF DecodeInv, DecodeTypes
  <1>3. PairsExact'
    <2>1. \A k \in DOMAIN pairs : pairs[k] \in Nat
      BY <1>1, LenProperties
    <2>. QED  BY <1>1, <2>1 DEF DecodeInv, PairsExact
  <1>4. Len(parsed) # 1
    <2>. SUFFICES ASSUME Len(parsed) = 1 PROVE FALSE
      OBVIOUS
    <2>1. data = Serialize(parsed[1]) /\ FromCompact(parsed[1]) /\ pos = 2 * Len(pairs) + 1
      BY <1>1 DEF DecodeInv, Rereading
    <2>2. pos % 2 = 1
      BY <1>1, <2>1, LenProperties
    <2>3. \A p \in Nat : p % 2 = 1 /\ p < Len(data) => IsPair(data, p)
      BY <2>1, CompactReadsBack DEF FromCompact
    <2>. QED  BY <1>1, <2>2, <2>3
  <1>. QED  BY <1>1, <1>2, <1>3, <1>4 DEF DecodeInv, Rereading

LEMMA EndPairsInv == DecodeInv /\ EndPairs => DecodeInv'
  <1>. SUFFICES ASSUME DecodeInv, EndPairs PROVE DecodeInv'
    OBVIOUS
  <1>1. /\ stage = "Pairs" /\ stage' = "Parsed" /\ data' = data /\ pos' = pos /\ pairs' = pairs
        /\ pos >= Len(data) /\ pos \in Nat \ {0} /\ pairs \in Seq(Nat) /\ Len(data) \in Nat
        /\ Len(parsed) \in 0 .. 1 /\ IsPair(data, 1)
    <2>1. Len(data) \in Nat /\ stage = "Pairs" /\ Len(parsed) \in 0 .. 1
      <3>1. stage = "Pairs" /\ IsSeq(parsed) /\ IsSeq(data)
        BY DEF EndPairs, DecodeInv, DecodeTypes
      <3>2. Len(parsed) <= 1
        BY <3>1 DEF DecodeInv, DecodeTypes
      <3>3. Len(parsed) \in Nat /\ Len(data) \in Nat
        BY <3>1, SeqShape
      <3>. QED  BY <3>1, <3>2, <3>3, AtMostOne
    <2>2. /\ IsPair(data, 1) /\ pos \in Nat \ {0} /\ pairs \in Seq(Nat)
      BY <2>1 DEF DecodeInv, DecodeTypes
    <2>3. /\ stage' = "Parsed" /\ data' = data /\ pos' = pos /\ pairs' = pairs
          /\ pos >= Len(data)
      BY DEF EndPairs
    <2>. QED  BY <2>1, <2>2, <2>3
  <1>2. /\ IsSeq(parsed') /\ Len(parsed') = Len(parsed) + 1
        /\ \A i \in 1 .. Len(parsed) : parsed'[i] = parsed[i]
        /\ parsed'[Len(parsed) + 1] = Compact(data, pairs)
    BY SeqAppended DEF EndPairs, DecodeInv, DecodeTypes
  <1>3. DecodeTypes' /\ PairsExact' /\ Rereading'
    BY <1>1, <1>2 DEF DecodeInv, DecodeTypes, PairsExact, Rereading
  <1>4. FromCompact(Compact(data, pairs))
    <2>1. 1 \in 1 .. pos - 1
      BY <1>1 DEF IsPair
    <2>2. \E k \in DOMAIN pairs : pairs[k] = 1
      BY <1>1, <2>1 DEF DecodeInv, PairsExact
    <2>3. Len(pairs) > 0
      BY <1>1, <2>2, LenProperties
    <2>. QED  BY <1>1, <2>3 DEF FromCompact
  <1>5. CASE Len(parsed) = 0
    BY <1>2, <1>3, <1>4, <1>5 DEF DecodeInv
  <1>6. CASE Len(parsed) = 1
    <2>1. /\ data = Serialize(parsed[1]) /\ FromCompact(parsed[1])
          /\ pos = 2 * Len(pairs) + 1 /\ Len(pairs) <= Len(parsed[1].items)
          /\ \A k \in DOMAIN pairs : pairs[k] = 2 * k - 1
      BY <1>1, <1>6 DEF DecodeInv, Rereading
    <2>2. PICK d, ps : ps \in Seq(Nat) /\ parsed[1] = Compact(d, ps)
      BY <2>1 DEF FromCompact
    <2>3. /\ Len(data) = 2 * Len(ps) /\ Len(parsed[1].items) = Len(ps)
          /\ \A qs \in Seq(Nat) :
                Len(qs) = Len(ps) /\ (\A k \in DOMAIN qs : qs[k] = 2 * k - 1)
                    => Compact(data, qs) = parsed[1]
      BY <2>1, <2>2, CompactReadsBack
    <2>4. Len(pairs) = Len(ps)
      BY <1>1, <2>1, <2>3, LenProperties
    <2>5. Compact(data, pairs) = parsed[1]
      BY <1>1, <2>1, <2>3, <2>4
    <2>. QED  BY <1>2, <1>3, <1>4, <1>6, <2>5 DEF DecodeInv
  <1>. QED  BY <1>1, <1>5, <1>6

LEMMA HandOnInv == DecodeInv /\ HandOn => DecodeInv'
  <1>. SUFFICES ASSUME DecodeInv, HandOn PROVE DecodeInv'
    OBVIOUS
  <1>1. /\ Len(parsed) = 1 /\ stage' = "Deserialize" /\ data' = Serialize(parsed[1])
        /\ pos' = 1 /\ pairs' = <<>> /\ parsed' = parsed
    BY DEF HandOn
  <1>2. IsSeq(data')
    BY <1>1, CompactReadsBack, FullReadsBack DEF DecodeInv, FromCompact, FromFull
  <1>3. pairs' \in Seq(Nat) /\ DOMAIN pairs' = {}
    BY <1>1, EmptySeq
  <1>4. DecodeTypes'
    <2>1. IsSeq(parsed) /\ Len(parsed') = 1
      BY <1>1 DEF DecodeInv, DecodeTypes
    <2>2. pos' \in Nat \ {0}
      BY <1>1
    <2>3. Len(parsed') <= 2 /\ Len(parsed') <= 1 /\ Len(parsed') # 0
      BY <2>1
    <2>. QED  BY <1>1, <1>2, <1>3, <2>1, <2>2, <2>3 DEF DecodeTypes
  <1>5. PairsExact'
    BY <1>1, <1>3 DEF PairsExact
  <1>6. Rereading'
    BY <1>1 DEF Rereading
  <1>. QED  BY <1>1, <1>4, <1>5, <1>6 DEF DecodeInv

LEMMA ConvertInv == DecodeInv /\ Convert => DecodeInv'
  <1>. SUFFICES ASSUME DecodeInv, Convert PROVE DecodeInv'
    OBVIOUS
  <1>1. /\ data' = data /\ pos' = pos /\ pairs' = pairs /\ parsed' = parsed
        /\ stage' \in {"Done", "Rows", "Panicked"}
    BY DEF Convert, TakeFull, StartRows, SkipEntry, DivideByZero, DecodeRow, EndRows, AtEntry
  <1>. QED  BY <1>1 DEF DecodeInv, DecodeTypes, PairsExact, Rereading

LEMMA DecodeStep == DecodeInv /\ [DecodeNext]_decodeVars => DecodeInv'
  <1>. SUFFICES ASSUME DecodeInv, [DecodeNext]_decodeVars PROVE DecodeInv'
    OBVIOUS
  <1>1. CASE UNCHANGED decodeVars
    BY <1>1 DEF decodeVars, DecodeInv, DecodeTypes, PairsExact, Rereading
  <1>. QED  BY <1>1, RecogniseInv, TakePairInv, SkipItemInv, EndPairsInv, HandOnInv, ConvertInv
            DEF DecodeNext, Parse

-----------------------------------------------------------------------------
(* The rows of compact_to_full. *)

LEMMA RowFits ==
    ASSUME NEW L \in Nat, NEW n \in Nat \ {0}, NEW r \in Nat \ {0}, r <= L \div n
    PROVE  (r - 1) * n + n <= L /\ (r - 1) * n \in Nat
  <1> DEFINE q == L \div n
  <1>1. q \in Nat /\ q * n <= L
    OBVIOUS
  <1> HIDE DEF q
  <1>2. PICK d \in Nat : q = r + d
    <2>1. q - r \in Nat /\ q = r + (q - r)
      BY <1>1 DEF q
    <2>. QED  BY <2>1
  <1>3. q * n = r * n + d * n /\ d * n >= 0
    BY <1>2
  <1>4. (r - 1) * n + n = r * n /\ (r - 1) * n \in Nat
    OBVIOUS
  <1>. QED  BY <1>1, <1>3, <1>4

\* The slice of a whole row is the row.
LEMMA WholeSlice ==
    ASSUME NEW e, NEW r \in Nat \ {0}, r <= Rows(e), Len(Values(e)) \in Nat,
           Len(Names(e)) \in Nat \ {0}
    PROVE  Object(e, r) = Written(e, r)
  <1> DEFINE n == Len(Names(e))
             L == Len(Values(e))
             start == (r - 1) * n
  <1>1. start \in Nat /\ start + n <= L
    BY RowFits DEF Rows
  <1>2. (IF start + n < L THEN start + n ELSE L) - start = n
    BY <1>1
  <1>3. Slice(e, r) = [j \in 1 .. n |-> Values(e)[start + j]]
    BY <1>2 DEF Slice
  <1>. QED  BY <1>3 DEF Object, Written

\* Without values there is nothing to read.
LEMMA NothingToRead ==
    ASSUME NEW type, NEW names, DOMAIN names \subseteq Nat \ {0}, NEW values, Len(values) = 0
    PROVE  ~Readable(type, Fill(names, values))
  <1>1. DOMAIN Fill(names, values) = {}
    BY DEF Fill
  <1>. QED  BY <1>1 DEF Readable

Typed(d) == \A p \in DOMAIN d : d[p].values \in Seq(ValueKinds)

RowTypes ==
    /\ Typed(data)
    /\ \A t \in DOMAIN fields : fields[t] \in Seq(STRING)
    /\ \A i \in DOMAIN parsed : IsSeq(parsed[i].items) /\ Typed(parsed[i].items)
    /\ entry \in Nat \ {0} /\ row \in Nat \ {0} /\ IsSeq(out)
    /\ stage \in {"Rows", "Panicked", "Done"} => Len(parsed) = 2
    /\ stage \in {"Rows", "Panicked"} => parsed[2].format = "Compact"
    /\ stage \notin {"Rows", "Panicked", "Done"} => entry = 1 /\ row = 1 /\ out = <<>>
    /\ stage = "Rows" => row = 1 \/ row <= Rows(entry)

\* RowsExact, of the rows compact_to_full has passed.
RowsTaken ==
    /\ \A k \in DOMAIN out :
          /\ WholeRow(out[k].entry, out[k].row) /\ Passed(out[k].entry, out[k].row)
          /\ out[k].type = Entries[out[k].entry].type
          /\ Readable(out[k].type, Written(out[k].entry, out[k].row))
          /\ out[k].event = ReadEvent(out[k].type, Written(out[k].entry, out[k].row))
    /\ \A k, l \in DOMAIN out : k < l =>
          \/ out[k].entry < out[l].entry
          \/ (out[k].entry = out[l].entry /\ out[k].row < out[l].row)
    /\ \A e \in DOMAIN Entries : \A r \in 1 .. Len(Values(e)) :
          /\ WholeRow(e, r) /\ Passed(e, r) /\ Readable(Entries[e].type, Written(e, r))
          => \E k \in DOMAIN out : out[k].entry = e /\ out[k].row = r

Decoding == stage \in {"Rows", "Panicked"} \/ (stage = "Done" /\ parsed[2].format = "Compact")

RowsInv == RowTypes /\ (Decoding => RowsTaken)

LEMMA RowsInvExact == RowsInv <=> RowTypes /\ RowsExact
  BY DEF RowsInv, RowsExact, RowsTaken, Decoding

LEMMA StartRowsInv ==
    ASSUME NEW in \in Inputs, data = in.data, fields = in.fields,
           stage \in {"Idle", "Deserialize"}, parsed = <<>>, entry = 1, row = 1, out = <<>>
    PROVE  RowsInv
  <1>1. Typed(data) /\ \A t \in DOMAIN fields : fields[t] \in Seq(STRING)
    BY DecodeAssumption DEF Typed
  <1>2. DOMAIN parsed = {} /\ IsSeq(out)
    BY EmptySeq DEF IsSeq
  <1>. QED  BY <1>1, <1>2 DEF RowsInv, RowTypes, Decoding

\* What the deserializer makes of typed data is typed.
LEMMA ParseRowsInv == DecodeInv /\ RowsInv /\ Parse => RowsInv'
  <1>. SUFFICES ASSUME DecodeInv, RowsInv, Parse PROVE RowsInv'
    OBVIOUS
  <1>1. /\ data' = data /\ fields' = fields /\ entry' = entry /\ row' = row /\ out' = out
        /\ stage \in {"Deserialize", "Pairs"} /\ stage' \in {"Pairs", "Parsed", "Failed"}
    BY DEF Parse, Recognise, TakePair, SkipItem, EndPairs
  <1>2. IsSeq(data) /\ Typed(data) /\ IsSeq(parsed)
    BY DEF DecodeInv, DecodeTypes, RowsInv, RowTypes
  <1>3. \/ parsed' = parsed
        \/ stage = "Deserialize" /\ parsed' = Append(parsed, Full(data))
        \/ stage = "Pairs" /\ parsed' = Append(parsed, Compact(data, pairs))
    BY DEF Parse, Recognise, TakePair, SkipItem, EndPairs
  <1>4. IsSeq(Full(data).items) /\ Typed(Full(data).items)
    <2>1. /\ Len(data) \in Nat
          /\ Full(data).items = [p \in 1 .. Len(data) |->
                [type |-> data[p].type, values |-> <<>>,
                 event |-> ReadEvent(data[p].type, data[p].object)]]
      BY <1>2, SeqShape DEF Full
    <2>2. IsSeq(Full(data).items) /\ DOMAIN Full(data).items = 1 .. Len(data)
      BY <2>1, SeqMade
    <2>3. \A p \in 1 .. Len(data) : Full(data).items[p].values = <<>>
      BY <2>1
    <2>. QED  BY <2>2, <2>3, EmptySeq DEF Typed
  <1>5. IsSeq(Compact(data, pairs).items) /\ Typed(Compact(data, pairs).items)
    <2>1. pairs \in Seq(Nat) /\ \A k \in DOMAIN pairs : IsPair(data, pairs[k]) /\ pairs[k] < pos
      BY DEF DecodeInv, DecodeTypes, PairsExact
    <2>2. /\ Len(pairs) \in Nat
          /\ Compact(data, pairs).items = [k \in 1 .. Len(pairs) |->
                [type |-> data[pairs[k]].type, values |-> data[pairs[k] + 1].values,
                 event |-> NoFields]]
      BY <2>1, LenProperties DEF Compact
    <2>3. ASSUME NEW k \in 1 .. Len(pairs) PROVE data[pairs[k] + 1].values \in Seq(ValueKinds)
      <3>1. k \in DOMAIN pairs /\ pairs[k] \in Nat
        BY <2>1, <2>3, LenProperties
      <3>2. pairs[k] < Len(data)
        BY <2>1, <3>1 DEF IsPair
      <3>3. pairs[k] + 1 \in DOMAIN data
        BY <1>2, <3>1, <3>2, SeqShape
      <3>. QED  BY <1>2, <3>3 DEF Typed
    <2>. QED  BY <2>2, <2>3, SeqMade DEF Typed
  <1>6. \A i \in DOMAIN parsed' : IsSeq(parsed'[i].items) /\ Typed(parsed'[i].items)
    <2>1. \A i \in DOMAIN parsed : IsSeq(parsed[i].items) /\ Typed(parsed[i].items)
      BY DEF RowsInv, RowTypes
    <2>2. CASE parsed' = parsed
      BY <2>1, <2>2
    <2>3. ASSUME NEW m, parsed' = Append(parsed, m), IsSeq(m.items), Typed(m.items)
          PROVE  \A i \in DOMAIN parsed' : IsSeq(parsed'[i].items) /\ Typed(parsed'[i].items)
      <3>1. /\ DOMAIN parsed' = 1 .. Len(parsed) + 1 /\ DOMAIN parsed = 1 .. Len(parsed)
            /\ Len(parsed) \in Nat
            /\ \A i \in 1 .. Len(parsed) : parsed'[i] = parsed[i]
            /\ parsed'[Len(parsed) + 1] = m
        BY <1>2, <2>3, SeqAppended, SeqShape
      <3>2. \A i \in DOMAIN parsed' : i \in DOMAIN parsed \/ i = Len(parsed) + 1
        BY <3>1
      <3>. QED  BY <2>1, <2>3, <3>1, <3>2
    <2>. QED  BY <1>3, <1>4, <1>5, <2>2, <2>3
  <1>. QED  BY <1>1, <1>6 DEF RowsInv, RowTypes, Decoding

LEMMA HandOnRowsInv == DecodeInv /\ RowsInv /\ HandOn => RowsInv'
  <1>. SUFFICES ASSUME DecodeInv, RowsInv, HandOn PROVE RowsInv'
    OBVIOUS
  <1>1. /\ stage = "Parsed" /\ stage' = "Deserialize" /\ Len(parsed) = 1
        /\ data' = Serialize(parsed[1]) /\ parsed' = parsed
        /\ fields' = fields /\ entry' = entry /\ row' = row /\ out' = out
    BY DEF HandOn
  <1> DEFINE m == parsed[1]
  <1>2. IsSeq(m.items) /\ Typed(m.items)
    <2>1. 1 \in DOMAIN parsed
      BY <1>1, SeqShape DEF DecodeInv, DecodeTypes
    <2>. QED  BY <2>1 DEF RowsInv, RowTypes
  <1>3. DOMAIN m.items = 1 .. Len(m.items) /\ Len(m.items) \in Nat
    BY <1>2, SeqShape
  <1>4. Typed(Serialize(m))
    <2>1. CASE m.format = "Compact"
      <3>. SUFFICES ASSUME NEW p \in 1 .. 2 * Len(m.items)
                    PROVE  Serialize(m)[p].values \in Seq(ValueKinds)
        BY <2>1 DEF Serialize, Typed
      <3>1. CASE p % 2 = 1
        <4>1. Serialize(m)[p].values = <<>>
          BY <2>1, <3>1 DEF Serialize, Item
        <4>. QED  BY <4>1, EmptySeq
      <3>2. CASE p % 2 # 1
        <4>1. p \div 2 \in DOMAIN m.items
          BY <1>3, <3>2
        <4>2. Serialize(m)[p].values = m.items[p \div 2].values
          BY <2>1, <3>2 DEF Serialize, Item
        <4>. QED  BY <1>2, <4>1, <4>2 DEF Typed
      <3>. QED  BY <3>1, <3>2
    <2>2. CASE m.format # "Compact"
      BY <2>2, EmptySeq DEF Serialize, Item, Typed
    <2>. QED  BY <2>1, <2>2
  <1>. QED  BY <1>1, <1>4 DEF RowsInv, RowTypes, Decoding

\* What a step of the rows does not change.
LEMMA EntriesTyped ==
    ASSUME RowsInv, Len(parsed) = 2, IsSeq(parsed)
    PROVE  /\ Len(Entries) \in Nat /\ DOMAIN Entries = 1 .. Len(Entries)
           /\ \A e \in DOMAIN Entries :
                 /\ Len(Values(e)) \in Nat
                 /\ Known(e) => Len(Names(e)) \in Nat /\ DOMAIN Names(e) = 1 .. Len(Names(e))
                 /\ Known(e) /\ Len(Names(e)) > 0 => Rows(e) \in Nat
  <1>1. IsSeq(Entries) /\ Typed(Entries)
    <2>1. 2 \in DOMAIN parsed
      BY SeqShape
    <2>. QED  BY <2>1 DEF RowsInv, RowTypes, Entries
  <1>2. Len(Entries) \in Nat /\ DOMAIN Entries = 1 .. Len(Entries)
    BY <1>1, SeqShape
  <1>3. ASSUME NEW e \in DOMAIN Entries
        PROVE  /\ Len(Values(e)) \in Nat
               /\ Known(e) => Len(Names(e)) \in Nat /\ DOMAIN Names(e) = 1 .. Len(Names(e))
               /\ Known(e) /\ Len(Names(e)) > 0 => Rows(e) \in Nat
    <2>1. Len(Values(e)) \in Nat
      BY <1>1, <1>3, LenProperties DEF Typed, Values
    <2>2. Known(e) => Len(Names(e)) \in Nat /\ DOMAIN Names(e) = 1 .. Len(Names(e))
      BY LenProperties DEF RowsInv, RowTypes, Known, Names
    <2>3. Known(e) /\ Len(Names(e)) > 0 => Rows(e) \in Nat
      BY <2>1, <2>2 DEF Rows
    <2>. QED  BY <2>1, <2>2, <2>3
  <1>. QED  BY <1>2, <1>3

\* An entry is over: the rows passed are those passed before and its own.
LEMMA EntryOver ==
    ASSUME NEW e \in Nat, NEW r \in Nat \ {0}, entry \in Nat, row \in Nat, entry' = entry + 1,
           row' = 1, Passed(e, r)'
    PROVE  Passed(e, r) \/ (e = entry /\ r >= row)
  BY DEF Passed

LEMMA SkipEntryInv == DecodeInv /\ RowsInv /\ SkipEntry => RowsInv'
  <1>. SUFFICES ASSUME DecodeInv, RowsInv, SkipEntry PROVE RowsInv'
    OBVIOUS
  <1>1. /\ stage = "Rows" /\ entry <= Len(Entries) /\ entry' = entry + 1 /\ row' = 1
        /\ fields' = fields /\ data' = data /\ stage' = stage /\ parsed' = parsed /\ out' = out
    BY DEF SkipEntry, AtEntry, NextEntry
  <1>2. IsSeq(parsed) /\ Len(parsed) = 2 /\ entry \in Nat \ {0} /\ row \in Nat \ {0}
    BY <1>1 DEF DecodeInv, DecodeTypes, RowsInv, RowTypes
  <1>3. RowTypes'
    BY <1>1, <1>2 DEF RowsInv, RowTypes
  <1>4. RowsTaken
    BY <1>1 DEF RowsInv, Decoding
  <1>5. \A r \in Nat \ {0} : ~WholeRow(entry, r)
    <2>. SUFFICES ASSUME Known(entry), Len(Names(entry)) > 0, NEW r \in Nat \ {0},
                         r \in 1 .. Rows(entry)
                  PROVE  FALSE
      BY DEF WholeRow
    <2>1. Rows(entry) = 0
      BY DEF SkipEntry
    <2>. QED  BY <2>1
  <1>6. RowsTaken'
    <2>1. \A e, r : WholeRow(e, r)' = WholeRow(e, r) /\ Written(e, r)' = Written(e, r)
      BY <1>1 DEF WholeRow, Known, Names, Rows, Values, Entries, Written
    <2>2. Entries' = Entries /\ \A e : Values(e)' = Values(e)
      BY <1>1 DEF Entries, Values
    <2>4. \A k \in DOMAIN out :
             /\ WholeRow(out[k].entry, out[k].row) /\ Passed(out[k].entry, out[k].row)'
             /\ out[k].type = Entries[out[k].entry].type
             /\ Readable(out[k].type, Written(out[k].entry, out[k].row))
             /\ out[k].event = ReadEvent(out[k].type, Written(out[k].entry, out[k].row))
      <3>. TAKE k \in DOMAIN out
      <3>1. /\ WholeRow(out[k].entry, out[k].row) /\ Passed(out[k].entry, out[k].row)
            /\ out[k].type = Entries[out[k].entry].type
            /\ Readable(out[k].type, Written(out[k].entry, out[k].row))
            /\ out[k].event = ReadEvent(out[k].type, Written(out[k].entry, out[k].row))
        BY <1>4 DEF RowsTaken
      <3>2. out[k].entry \in DOMAIN Entries
        BY <3>1 DEF WholeRow
      <3>3. Passed(out[k].entry, out[k].row)'
        BY <1>1, <1>2, <3>1, <3>2, EntriesTyped DEF Passed
      <3>. QED  BY <3>1, <3>3
    <2>5. ASSUME NEW e \in DOMAIN Entries, NEW r \in 1 .. Len(Values(e)), WholeRow(e, r),
                 Passed(e, r)', Readable(Entries[e].type, Written(e, r))
          PROVE  \E k \in DOMAIN out : out[k].entry = e /\ out[k].row = r
      <3>1. e \in Nat /\ r \in Nat \ {0}
        BY <1>1, <1>2, EntriesTyped
      <3>2. Passed(e, r)
        BY <1>1, <1>2, <1>5, <2>5, <3>1, EntryOver
      <3>. QED  BY <1>4, <2>5, <3>2 DEF RowsTaken
    <2>. QED  BY <1>1, <1>4, <2>1, <2>2, <2>4, <2>5 DEF RowsTaken
  <1>. QED  BY <1>3, <1>6 DEF RowsInv

LEMMA DecodeRowInv == DecodeInv /\ RowsInv /\ DecodeRow => RowsInv'
  <1>. SUFFICES ASSUME DecodeInv, RowsInv, DecodeRow PROVE RowsInv'
    OBVIOUS
  <1> DEFINE type == Entries[entry].type
             object == Object(entry, row)
             new == [entry |-> entry, row |-> row, type |-> type, event |-> ReadEvent(type, object)]
  <1>1. /\ stage = "Rows" /\ entry <= Len(Entries) /\ Known(entry) /\ Len(Names(entry)) > 0
        /\ fields' = fields /\ data' = data /\ stage' = stage /\ parsed' = parsed
        /\ Rows(entry) > 0 \/ Values(entry) = <<>>
    BY DEF DecodeRow, AtEntry
  <1>2. /\ IsSeq(parsed) /\ Len(parsed) = 2 /\ entry \in Nat \ {0} /\ row \in Nat \ {0}
        /\ IsSeq(out)
        /\ row = 1 \/ row <= Rows(entry)
    BY <1>1 DEF DecodeInv, DecodeTypes, RowsInv, RowTypes
  <1>3. /\ entry \in DOMAIN Entries /\ Len(Values(entry)) \in Nat /\ Rows(entry) \in Nat
        /\ Len(Names(entry)) \in Nat \ {0} /\ DOMAIN Names(entry) = 1 .. Len(Names(entry))
    BY <1>1, <1>2, EntriesTyped
  <1>4. RowsTaken
    BY <1>1 DEF RowsInv, Decoding
  <1>5. ASSUME Readable(type, object)
        PROVE  WholeRow(entry, row) /\ object = Written(entry, row)
    <2>1. CASE Rows(entry) > 0
      <3>1. row <= Rows(entry)
        BY <1>2, <1>3, <2>1
      <3>. QED  BY <1>1, <1>2, <1>3, <3>1, WholeSlice DEF WholeRow
    <2>2. CASE Rows(entry) = 0
      <3>1. row = 1 /\ Values(entry) = <<>>
        BY <1>1, <1>2, <1>3, <2>2
      <3>2. Len(Values(entry)) = 0
        BY <3>1, EmptySeq
      <3>3. Slice(entry, row) = [j \in 1 .. 0 |-> Values(entry)[0 + j]]
        <4>1. (row - 1) * Len(Names(entry)) = 0
          BY <1>3, <3>1
        <4>2. ~(0 + Len(Names(entry)) < 0) /\ 0 - 0 = 0
          BY <1>3
        <4>. QED  BY <3>2, <4>1, <4>2 DEF Slice
      <3>4. Len(Slice(entry, row)) = 0
        BY <3>3, SeqMade
      <3>5. DOMAIN Names(entry) \subseteq Nat \ {0}
        BY <1>3
      <3>. QED  BY <1>5, <3>4, <3>5, NothingToRead DEF Object
    <2>. QED  BY <1>3, <2>1, <2>2
  <1>6. \/ Readable(type, object) /\ out' = Append(out, new)
        \/ ~Readable(type, object) /\ out' = out
    BY DEF DecodeRow
  <1>7. \/ row < Rows(entry) /\ row' = row + 1 /\ entry' = entry
        \/ row >= Rows(entry) /\ row' = 1 /\ entry' = entry + 1
    BY <1>2, <1>3 DEF DecodeRow, NextEntry
  <1>8. /\ IsSeq(out') /\ DOMAIN out \subseteq DOMAIN out'
        /\ \A k \in DOMAIN out : out'[k] = out[k]
        /\ \A k \in DOMAIN out' : k \in DOMAIN out \/ (Readable(type, object) /\ out'[k] = new)
        /\ \A k, l \in DOMAIN out' : k < l => k \in DOMAIN out
        /\ Readable(type, object) => \E k \in DOMAIN out' : out'[k] = new
    <2>1. DOMAIN out = 1 .. Len(out) /\ Len(out) \in Nat
      BY <1>2, SeqShape
    <2>2. CASE Readable(type, object) /\ out' = Append(out, new)
      <3>1. /\ IsSeq(out') /\ Len(out') = Len(out) + 1 /\ out'[Len(out) + 1] = new
            /\ \A k \in 1 .. Len(out) : out'[k] = out[k]
        <4> HIDE DEF new
        <4>1. /\ IsSeq(Append(out, new)) /\ Len(Append(out, new)) = Len(out) + 1
              /\ \A k \in 1 .. Len(out) : Append(out, new)[k] = out[k]
              /\ Append(out, new)[Len(out) + 1] = new
          BY <1>2, SeqAppended
        <4>. QED  BY <2>2, <4>1
      <3>2. DOMAIN out' = 1 .. Len(out) + 1
        BY <3>1, SeqShape
      <3> HIDE DEF new, type, object
      <3>3. \A k \in DOMAIN out' : k \in DOMAIN out \/ k = Len(out) + 1
        BY <2>1, <3>2
      <3>4. \A k, l \in DOMAIN out' : k < l => k \in DOMAIN out
        BY <2>1, <3>2
      <3>5. Len(out) + 1 \in DOMAIN out' /\ DOMAIN out \subseteq DOMAIN out'
        BY <2>1, <3>2
      <3>. QED  BY <2>1, <2>2, <3>1, <3>3, <3>4, <3>5
    <2>3. CASE ~Readable(type, object) /\ out' = out
      <3> HIDE DEF new, type, object
      <3>1. \A k, l \in DOMAIN out' : k < l => k \in DOMAIN out
        BY <2>3
      <3>. QED  BY <1>2, <2>3, <3>1
    <2> HIDE DEF new, type, object
    <2>. QED  BY <1>6, <2>2, <2>3
  <1>9. RowTypes'
    <2>1. row' = 1 \/ row' <= Rows(entry)'
      <3>1. CASE row < Rows(entry) /\ row' = row + 1 /\ entry' = entry
        <4>1. Rows(entry)' = Rows(entry)
          BY <1>1, <3>1 DEF Rows, Values, Names, Entries
        <4>2. row + 1 <= Rows(entry)
          BY <1>2, <1>3, <3>1
        <4>. QED  BY <3>1, <4>1, <4>2
      <3>. QED  BY <1>7, <3>1
    <2>2. entry' \in Nat \ {0} /\ row' \in Nat \ {0}
      BY <1>2, <1>7
    <2>. QED  BY <1>1, <1>2, <1>8, <2>1, <2>2 DEF RowsInv, RowTypes
  <1>10. /\ Entries' = Entries /\ \A e : Values(e)' = Values(e)
         /\ \A e, r : WholeRow(e, r)' = WholeRow(e, r) /\ Written(e, r)' = Written(e, r)
    BY <1>1 DEF WholeRow, Known, Names, Rows, Values, Entries, Written
  <1>11. ASSUME NEW e \in Nat, NEW r \in Nat \ {0}
         PROVE  /\ Passed(e, r) \/ (e = entry /\ r = row) => Passed(e, r)'
                /\ WholeRow(e, r) /\ Passed(e, r)' => Passed(e, r) \/ (e = entry /\ r = row)
    <2>1. Passed(e, r) \/ (e = entry /\ r = row) => Passed(e, r)'
      BY <1>2, <1>7 DEF Passed
    <2>2. ASSUME WholeRow(e, r), Passed(e, r)' PROVE Passed(e, r) \/ (e = entry /\ r = row)
      <3>1. CASE row' = row + 1 /\ entry' = entry
        BY <1>2, <2>2, <3>1 DEF Passed
      <3>2. CASE row >= Rows(entry) /\ row' = 1 /\ entry' = entry + 1
        <4>1. e < entry \/ e = entry
          BY <1>2, <2>2, <3>2 DEF Passed
        <4>2. e = entry => r <= Rows(entry)
          BY <1>3, <2>2 DEF WholeRow
        <4>. QED  BY <1>2, <1>3, <3>2, <4>1, <4>2 DEF Passed
      <3>. QED  BY <1>7, <3>1, <3>2
    <2>. QED  BY <2>1, <2>2
  <1>12. RowsTaken'
    <2>1. ASSUME NEW k \in DOMAIN out'
          PROVE  /\ WholeRow(out'[k].entry, out'[k].row)
                 /\ k \in DOMAIN out => Passed(out'[k].entry, out'[k].row)
                 /\ k \notin DOMAIN out => out'[k].entry = entry /\ out'[k].row = row
                 /\ out'[k].type = Entries[out'[k].entry].type
                 /\ Readable(out'[k].type, Written(out'[k].entry, out'[k].row))
                 /\ out'[k].event = ReadEvent(out'[k].type, Written(out'[k].entry, out'[k].row))
      <3>1. CASE k \in DOMAIN out
        BY <1>4, <1>8, <3>1 DEF RowsTaken
      <3>2. CASE Readable(type, object) /\ out'[k] = new
        <4>1. /\ out'[k].entry = entry /\ out'[k].row = row /\ out'[k].type = type
              /\ out'[k].event = ReadEvent(type, object)
          BY <3>2
        <4>2. CASE k \in DOMAIN out
          BY <3>1, <4>2
        <4>3. CASE k \notin DOMAIN out
          BY <1>5, <3>2, <4>1, <4>3
        <4>. QED  BY <4>2, <4>3
      <3>. QED  BY <1>8, <2>1, <3>1, <3>2
    <2>2. ASSUME NEW k \in DOMAIN out' PROVE out'[k].entry \in Nat /\ out'[k].row \in Nat \ {0}
      <3>1. out'[k].entry \in DOMAIN Entries /\ out'[k].row \in 1 .. Rows(out'[k].entry)
        BY <2>1, <2>2 DEF WholeRow
      <3>2. Rows(out'[k].entry) \in Nat /\ out'[k].entry \in Nat
        BY <1>2, <2>1, <2>2, <3>1, EntriesTyped DEF WholeRow
      <3>. QED  BY <3>1, <3>2
    <2>3. ASSUME NEW k \in DOMAIN out', NEW e, NEW r, e = out'[k].entry, r = out'[k].row
          PROVE  Passed(e, r)'
      BY <1>11, <2>1, <2>2, <2>3
    <2>4. ASSUME NEW k \in DOMAIN out', NEW l \in DOMAIN out', k < l
          PROVE  \/ out'[k].entry < out'[l].entry
                 \/ (out'[k].entry = out'[l].entry /\ out'[k].row < out'[l].row)
      <3>1. k \in DOMAIN out
        BY <1>8, <2>4
      <3>2. CASE l \in DOMAIN out
        BY <1>4, <1>8, <2>4, <3>1, <3>2 DEF RowsTaken
      <3>3. CASE l \notin DOMAIN out
        BY <2>1, <3>1, <3>3 DEF Passed
      <3>. QED  BY <3>2, <3>3
    <2>5. ASSUME NEW e \in DOMAIN Entries, NEW r \in 1 .. Len(Values(e)), WholeRow(e, r),
                 Passed(e, r)', Readable(Entries[e].type, Written(e, r))
          PROVE  \E k \in DOMAIN out' : out'[k].entry = e /\ out'[k].row = r
      <3>1. e \in Nat /\ r \in Nat \ {0}
        BY <1>2, EntriesTyped
      <3>2. Passed(e, r) \/ (e = entry /\ r = row)
        BY <1>11, <2>5, <3>1
      <3>3. CASE Passed(e, r)
        <4>1. \E k \in DOMAIN out : out[k].entry = e /\ out[k].row = r
          BY <1>4, <2>5, <3>3 DEF RowsTaken
        <4>. QED  BY <1>8, <4>1
      <3>4. CASE e = entry /\ r = row
        <4>1. Readable(type, object)
          <5>1. row <= Rows(entry)
            BY <2>5, <3>4 DEF WholeRow
          <5>2. object = Written(entry, row)
            BY <1>2, <1>3, <5>1, WholeSlice
          <5>. QED  BY <2>5, <3>4, <5>2
        <4>2. PICK k \in DOMAIN out' : out'[k] = new
          BY <1>8, <4>1
        <4>. QED  BY <3>4, <4>2
      <3>. QED  BY <3>2, <3>3, <3>4
    <2>. QED  BY <1>10, <2>1, <2>3, <2>4, <2>5 DEF RowsTaken
  <1>. QED  BY <1>9, <1>12 DEF RowsInv

\* The other steps of compact_to_full pass no row.
LEMMA OtherRowsInv ==
    DecodeInv /\ RowsInv /\ (TakeFull \/ StartRows \/ DivideByZero \/ EndRows) => RowsInv'
  <1>. SUFFICES ASSUME DecodeInv, RowsInv, TakeFull \/ StartRows \/ DivideByZero \/ EndRows
                PROVE  RowsInv'
    OBVIOUS
  <1>1. /\ fields' = fields /\ data' = data /\ parsed' = parsed /\ entry' = entry /\ row' = row
        /\ IsSeq(parsed)
    BY DEF TakeFull, StartRows, DivideByZero, EndRows, DecodeInv, DecodeTypes
  <1>2. ASSUME Decoding, out' = out PROVE RowsTaken'
    <2>1. RowsTaken
      BY <1>2 DEF RowsInv
    <2>2. /\ Entries' = Entries /\ \A e : Values(e)' = Values(e)
          /\ \A e, r : WholeRow(e, r)' = WholeRow(e, r) /\ Written(e, r)' = Written(e, r)
      BY <1>1 DEF WholeRow, Known, Names, Rows, Values, Entries, Written
    <2>3. \A e, r : Passed(e, r)' = Passed(e, r)
      BY <1>1 DEF Passed
    <2>. QED  BY <1>2, <2>1, <2>2, <2>3 DEF RowsTaken
  <1>3. CASE TakeFull
    <2>1. /\ stage' = "Done" /\ Len(parsed) = 2 /\ parsed[2].format = "Full"
          /\ out' = [k \in DOMAIN Entries |-> [entry |-> k, row |-> 1, type |-> Entries[k].type,
                                              event |-> Entries[k].event]]
      BY <1>3 DEF TakeFull
    <2>2. IsSeq(out')
      <3>1. DOMAIN Entries = 1 .. Len(Entries) /\ Len(Entries) \in Nat
        BY <1>1, <2>1, EntriesTyped
      <3>2. out' = [k \in 1 .. Len(Entries) |-> out'[k]]
        BY <2>1, <3>1
      <3>. QED  BY <3>1, <3>2, SeqMade
    <2>. QED  BY <1>1, <2>1, <2>2 DEF RowsInv, RowTypes, Decoding
  <1>4. CASE StartRows
    <2>1. /\ stage = "Parsed" /\ stage' = "Rows" /\ Len(parsed) = 2
          /\ parsed[2].format = "Compact" /\ out' = out
      BY <1>4 DEF StartRows
    <2>2. entry = 1 /\ row = 1 /\ out = <<>> /\ DOMAIN out = {} /\ IsSeq(out)
      BY <2>1 DEF RowsInv, RowTypes
    <2>3. RowTypes'
      BY <1>1, <2>1, <2>2 DEF RowsInv, RowTypes
    <2>4. RowsTaken'
      <3>1. \A e \in DOMAIN Entries : \A r \in 1 .. Len(Values(e)) : ~Passed(e, r)
        BY <1>1, <2>1, <2>2, EntriesTyped DEF Passed
      <3>2. Entries' = Entries /\ \A e : Values(e)' = Values(e)
        BY <1>1 DEF Entries, Values
      <3>3. \A e, r : Passed(e, r)' = Passed(e, r)
        BY <1>1 DEF Passed
      <3>. QED  BY <2>1, <2>2, <3>1, <3>2, <3>3 DEF RowsTaken
    <2>. QED  BY <2>3, <2>4 DEF RowsInv
  <1>5. CASE DivideByZero
    <2>1. stage = "Rows" /\ stage' = "Panicked" /\ out' = out
      BY <1>5 DEF DivideByZero, AtEntry
    <2>2. RowTypes'
      BY <1>1, <2>1 DEF RowsInv, RowTypes
    <2>. QED  BY <1>2, <2>1, <2>2 DEF RowsInv, Decoding
  <1>6. CASE EndRows
    <2>1. stage = "Rows" /\ stage' = "Done" /\ out' = out
      BY <1>6 DEF EndRows
    <2>2. RowTypes'
      BY <1>1, <2>1 DEF RowsInv, RowTypes
    <2>. QED  BY <1>2, <2>1, <2>2 DEF RowsInv, Decoding
  <1>. QED  BY <1>3, <1>4, <1>5, <1>6

LEMMA RowsStep == DecodeInv /\ RowsInv /\ [DecodeNext]_decodeVars => RowsInv'
  <1>. SUFFICES ASSUME DecodeInv, RowsInv, [DecodeNext]_decodeVars PROVE RowsInv'
    OBVIOUS
  <1>1. CASE UNCHANGED decodeVars
    <2>1. UNCHANGED <<fields, data, stage, parsed, entry, row, out>>
      BY <1>1 DEF decodeVars
    <2>2. RowTypes'
      <3>1. RowTypes /\ Rows(entry)' = Rows(entry)
        BY <2>1 DEF RowsInv, Rows, Values, Entries, Names
      <3>2. Typed(data)' /\ \A t \in DOMAIN fields' : fields'[t] \in Seq(STRING)
        BY <2>1, <3>1 DEF RowTypes
      <3>3. \A i \in DOMAIN parsed' : IsSeq(parsed'[i].items) /\ Typed(parsed'[i].items)
        BY <2>1, <3>1 DEF RowTypes
      <3>4. IsSeq(out')
        BY <2>1, <3>1 DEF RowTypes
      <3>. QED  BY <2>1, <3>1, <3>2, <3>3, <3>4 DEF RowTypes
    <2>3. Decoding' => Decoding
      BY <2>1 DEF Decoding
    <2>4. ASSUME Decoding PROVE RowsTaken'
      <3>1. RowsTaken
        BY <2>4 DEF RowsInv
      <3>2. /\ Entries' = Entries /\ \A e : Values(e)' = Values(e)
            /\ \A e, r : WholeRow(e, r)' = WholeRow(e, r) /\ Written(e, r)' = Written(e, r)
        BY <2>1 DEF WholeRow, Known, Names, Rows, Values, Entries, Written
      <3>3. \A e, r : Passed(e, r)' = Passed(e, r)
        BY <2>1 DEF Passed
      <3>. QED  BY <2>1, <3>1, <3>2, <3>3 DEF RowsTaken
    <2>. QED  BY <2>2, <2>3, <2>4 DEF RowsInv
  <1>. QED  BY <1>1, ParseRowsInv, HandOnRowsInv, SkipEntryInv, DecodeRowInv, OtherRowsInv
            DEF DecodeNext, Convert

-----------------------------------------------------------------------------
LEMMA DecodeCorrect == DecodeSpec => [](DecodeInv /\ RowsInv)
  <1>1. DecodeInit => DecodeInv /\ RowsInv
    BY StartInv, StartRowsInv DEF DecodeInit
  <1>. QED  BY <1>1, DecodeStep, RowsStep, PTL DEF DecodeSpec

\* Whatever lies between the pairs of COMPACT data, the loop of FeedData's
\* deserialize finds each of them, in order and once, and finds no other.
THEOREM AllPairsFound == DecodeSpec => []PairsExact
  BY DecodeCorrect, PTL DEF DecodeInv

\* Data the connector has accepted is accepted by the Feed, which parses what it
\* was serialized to, and both find the same in it.
THEOREM ParsedTwiceTheSame == DecodeSpec => []SecondParseAgrees
  BY DecodeCorrect, DecodeInvAgrees, PTL

\* compact_to_full cuts the values of each type where the server did: the events
\* are the rows that can be read, in order and once, with their own values.
THEOREM RowsCutExactly == DecodeSpec => []RowsExact
  BY DecodeCorrect, RowsInvExact, PTL

-----------------------------------------------------------------------------
(* Decoding ends *)

Below == {p \in Nat \X Nat : p[1] < p[2]}

\* A number cannot fall for ever: the intervals up to it would shrink for ever.
LEMMA BelowWellFounded == IsWellFoundedOn(Below, Nat)
  <1>. SUFFICES ASSUME NEW f \in [Nat -> Nat], \A n \in Nat : <<f[n + 1], f[n]>> \in Below
                PROVE  FALSE
    BY DEF IsWellFoundedOn
  <1> DEFINE g == [n \in Nat |-> 1 .. f[n]]
  <1>1. g \in [Nat -> FiniteSubsetsOf(Nat)]
    BY FS_Interval DEF FiniteSubsetsOf
  <1>. \A k \in Nat : g[k] = 1 .. f[k]
    OBVIOUS
  <1> HIDE DEF g
  <1>2. ASSUME NEW n \in Nat PROVE <<g[n + 1], g[n]>> \in StrictSubsetOrdering(Nat)
    <2>1. f[n + 1] \in Nat /\ f[n] \in Nat /\ f[n + 1] < f[n]
      BY DEF Below
    <2>2. \A a, b \in Nat : a < b => 1 .. a \subseteq 1 .. b /\ b \in 1 .. b /\ b \notin 1 .. a
      OBVIOUS
    <2>3. g[n + 1] = 1 .. f[n + 1] /\ g[n] = 1 .. f[n]
      OBVIOUS
    <2>4. g[n + 1] \subseteq g[n] /\ g[n + 1] # g[n]
      BY <2>1, <2>2, <2>3
    <2>5. \A k \in Nat : 1 .. k \in SUBSET Nat
      OBVIOUS
    <2>6. g[n + 1] \in SUBSET Nat /\ g[n] \in SUBSET Nat
      BY <2>1, <2>3, <2>5
    <2>. QED  BY <2>4, <2>6 DEF StrictSubsetOrdering
  <1>3. IsWellFoundedOn(StrictSubsetOrdering(Nat), FiniteSubsetsOf(Nat))
    BY FS_StrictSubsetOrderingWellFounded
  <1>. QED  BY <1>1, <1>2, <1>3 DEF IsWellFoundedOn

Work == Nat \X (Nat \X Nat)

\* Less is to be done: the first number is less, or the same and the second less, ...
Less == LexPairOrdering(Below, LexPairOrdering(Below, Below, Nat, Nat), Nat, Nat \X Nat)

LEMMA LessWellFounded == IsWellFoundedOn(Less, Work)
  <1>1. IsWellFoundedOn(LexPairOrdering(Below, Below, Nat, Nat), Nat \X Nat)
    BY BelowWellFounded, WFLexPairOrdering
  <1>. QED  BY <1>1, BelowWellFounded, WFLexPairOrdering DEF Less, Work

LEMMA LessMeans ==
    ASSUME NEW a \in Nat, NEW b \in Nat, NEW c \in Nat, NEW x \in Nat, NEW y \in Nat, NEW z \in Nat,
           a < x \/ (a = x /\ b < y) \/ (a = x /\ b = y /\ c < z)
    PROVE  << <<a, <<b, c>>>>, <<x, <<y, z>>>> >> \in Less
  BY DEF Less, LexPairOrdering, Below

Lasts == [Idle |-> 8, Deserialize |-> 7, Pairs |-> 6, Parsed |-> 8]

\* What is left: stages, items of the data or entries, and rows of the entry.
StagesLeft ==
    IF stage \in DOMAIN Lasts THEN Lasts[stage] - 3 * Len(parsed)
    ELSE IF stage = "Rows" THEN 1 ELSE 0

UpTo(n, m) == IF n < m THEN m - n ELSE 0

ItemsLeft ==
    IF stage = "Pairs" THEN UpTo(pos, Len(data))
    ELSE IF stage = "Rows" THEN UpTo(entry, Len(Entries) + 1) ELSE 0

RowsLeft ==
    IF AtEntry /\ Known(entry) /\ Len(Names(entry)) > 0 THEN UpTo(row, Rows(entry)) ELSE 0

Left == <<StagesLeft, <<ItemsLeft, RowsLeft>>>>

Shortens == <<Left', Left>> \in Less

LEMMA Counted ==
    ASSUME DecodeInv, RowsInv
    PROVE  /\ IsSeq(parsed) /\ Len(parsed) \in Nat /\ Len(parsed) <= 2
           /\ pos \in Nat /\ Len(data) \in Nat /\ entry \in Nat \ {0} /\ row \in Nat
  <1>1. IsSeq(parsed) /\ Len(parsed) <= 2 /\ IsSeq(data) /\ pos \in Nat
    BY DEF DecodeInv, DecodeTypes
  <1>2. entry \in Nat \ {0} /\ row \in Nat
    BY DEF RowsInv, RowTypes
  <1>. QED  BY <1>1, <1>2, SeqShape

LEMMA LeftTypes ==
    ASSUME DecodeInv, RowsInv
    PROVE  StagesLeft \in Nat /\ ItemsLeft \in Nat /\ RowsLeft \in Nat
  <1>1. /\ IsSeq(parsed) /\ Len(parsed) \in Nat /\ Len(parsed) <= 2
        /\ pos \in Nat /\ Len(data) \in Nat /\ entry \in Nat \ {0} /\ row \in Nat
    BY Counted
  <1>2. stage = "Rows" => Len(parsed) = 2
    BY DEF RowsInv, RowTypes
  <1>3. stage = "Rows" => Len(Entries) + 1 \in Nat
    BY <1>1, <1>2, EntriesTyped
  <1>4. StagesLeft \in Nat
    BY <1>1 DEF StagesLeft, Lasts
  <1>5. \A n, m \in Nat : UpTo(n, m) \in Nat
    BY DEF UpTo
  <1>6. ItemsLeft \in Nat
    BY <1>1, <1>3, <1>5 DEF ItemsLeft
  <1>7. RowsLeft \in Nat
    <2>1. CASE AtEntry /\ Known(entry) /\ Len(Names(entry)) > 0
      <3>1. Len(Entries) \in Nat /\ DOMAIN Entries = 1 .. Len(Entries)
        BY <1>1, <1>2, <2>1, EntriesTyped DEF AtEntry
      <3>2. entry \in DOMAIN Entries
        BY <1>1, <2>1, <3>1 DEF AtEntry
      <3>3. Rows(entry) \in Nat
        BY <1>1, <1>2, <2>1, <3>2, EntriesTyped DEF AtEntry
      <3>. QED  BY <1>1, <1>5, <3>3 DEF RowsLeft
    <2>2. CASE ~(AtEntry /\ Known(entry) /\ Len(Names(entry)) > 0)
      BY <2>2 DEF RowsLeft
    <2>. QED  BY <2>1, <2>2
  <1>. QED  BY <1>4, <1>6, <1>7

LEMMA LeftTypesNext ==
    (DecodeInv /\ RowsInv => StagesLeft \in Nat /\ ItemsLeft \in Nat /\ RowsLeft \in Nat)'
  BY LeftTypes, PTL

\* Every step of the decoding leaves less to do.
LEMMA StepShortens ==
    ASSUME DecodeInv, RowsInv, DecodeNext
    PROVE  Shortens
  <1> DEFINE falls == \/ StagesLeft' < StagesLeft
                      \/ StagesLeft' = StagesLeft /\ ItemsLeft' < ItemsLeft
                      \/ StagesLeft' = StagesLeft /\ ItemsLeft' = ItemsLeft /\ RowsLeft' < RowsLeft
  <1>1. DecodeInv' /\ RowsInv'
    BY DecodeStep, RowsStep
  <1>2. StagesLeft \in Nat /\ ItemsLeft \in Nat /\ RowsLeft \in Nat
    BY LeftTypes
  <1>3. StagesLeft' \in Nat /\ ItemsLeft' \in Nat /\ RowsLeft' \in Nat
    BY <1>1, LeftTypesNext
  <1>4. /\ IsSeq(parsed) /\ Len(parsed) \in Nat /\ Len(parsed) <= 2
        /\ pos \in Nat /\ Len(data) \in Nat /\ entry \in Nat \ {0} /\ row \in Nat
    BY Counted
  <1>5. \A x : Len(Append(parsed, x)) = Len(parsed) + 1
    BY <1>4, SeqAppended
  <1>6. ASSUME Recognise PROVE falls
    <2>1. CASE parsed' = parsed /\ stage' \in {"Pairs", "Failed"}
      <3>1. Len(parsed) <= 1 /\ stage = "Deserialize" /\ Len(parsed') = Len(parsed)
        BY <1>6, <2>1 DEF Recognise, DecodeInv, DecodeTypes
      <3>2. StagesLeft = 7 - 3 * Len(parsed)
        BY <3>1 DEF StagesLeft, Lasts
      <3>3. StagesLeft' = 6 - 3 * Len(parsed) \/ StagesLeft' = 0
        BY <2>1, <3>1 DEF StagesLeft, Lasts
      <3>. QED  BY <1>4, <3>1, <3>2, <3>3
    <2>2. CASE Len(parsed') = Len(parsed) + 1 /\ stage' = "Parsed"
      BY <1>4, <1>6, <2>2 DEF Recognise, StagesLeft, Lasts
    <2>. QED  BY <1>5, <1>6, <2>1, <2>2 DEF Recognise
  <1>7. ASSUME TakePair \/ SkipItem PROVE falls
    <2>1. /\ pos < Len(data) /\ pos' > pos /\ pos' \in Nat /\ stage = "Pairs"
          /\ UNCHANGED <<stage, data, parsed>>
      BY <1>4, <1>7 DEF TakePair, SkipItem, IsPair
    <2>2. StagesLeft' = StagesLeft
      BY <2>1 DEF StagesLeft
    <2>3. ItemsLeft' < ItemsLeft
      BY <1>4, <2>1 DEF ItemsLeft, UpTo
    <2>. QED  BY <2>2, <2>3
  <1>8. ASSUME EndPairs PROVE falls
    <2>1. Len(parsed') = Len(parsed) + 1 /\ stage = "Pairs" /\ stage' = "Parsed"
      BY <1>5, <1>8 DEF EndPairs
    <2>. QED  BY <1>4, <2>1 DEF StagesLeft, Lasts
  <1>9. ASSUME HandOn PROVE falls
    BY <1>9 DEF HandOn, StagesLeft, Lasts
  <1>10. ASSUME TakeFull \/ StartRows \/ DivideByZero \/ EndRows PROVE falls
    BY <1>4, <1>10 DEF TakeFull, StartRows, DivideByZero, EndRows, AtEntry, StagesLeft, Lasts
  <1>11. ASSUME SkipEntry \/ DecodeRow PROVE falls
    <2>1. stage = "Rows" /\ entry <= Len(Entries) /\ UNCHANGED <<fields, stage, parsed>>
      BY <1>11 DEF SkipEntry, DecodeRow, AtEntry
    <2>2. Len(parsed) = 2 /\ Len(Entries) \in Nat
      BY <1>4, <2>1, EntriesTyped DEF RowsInv, RowTypes
    <2>3. StagesLeft' = StagesLeft
      BY <2>1 DEF StagesLeft
    <2>4. ASSUME NextEntry PROVE falls
      <3>1. ItemsLeft' < ItemsLeft
        BY <1>4, <2>1, <2>2, <2>4 DEF NextEntry, ItemsLeft, UpTo, Entries
      <3>. QED  BY <2>3, <3>1
    <2>5. ASSUME DecodeRow, row < Rows(entry), row' = row + 1, entry' = entry PROVE falls
      <3>1. entry \in DOMAIN Entries /\ Known(entry) /\ Len(Names(entry)) > 0
        BY <1>4, <2>1, <2>2, <2>5, EntriesTyped DEF DecodeRow
      <3>2. Rows(entry) \in Nat
        BY <1>4, <2>2, <3>1, EntriesTyped
      <3>3. ItemsLeft' = ItemsLeft
        BY <2>1, <2>5 DEF ItemsLeft, Entries
      <3>4. /\ Rows(entry)' = Rows(entry) /\ Known(entry)' = Known(entry)
            /\ Names(entry)' = Names(entry) /\ AtEntry' = AtEntry
        BY <2>1, <2>5 DEF Rows, Known, Names, Values, Entries, AtEntry
      <3>5. RowsLeft' < RowsLeft
        BY <1>4, <2>1, <2>5, <3>1, <3>2, <3>4 DEF RowsLeft, UpTo, AtEntry
      <3>. QED  BY <2>3, <3>3, <3>5
    <2>. QED  BY <1>11, <2>4, <2>5 DEF SkipEntry, DecodeRow
  <1>12. falls
    BY <1>6, <1>7, <1>8, <1>9, <1>10, <1>11 DEF DecodeNext, Parse, Convert
  <1>. QED  BY <1>2, <1>3, <1>12, LessMeans DEF Left, Shortens

\* Whatever the server sends, the decoding of it ends: every step leaves less to
\* do, and it cannot get less for ever.
THEOREM DecodingEnds ==
    /\ IsWellFoundedOn(Less, Work)
    /\ DecodeSpec => [](Left \in Work) /\ [][Shortens]_decodeVars
  <1>1. DecodeInv /\ RowsInv => Left \in Work
    BY LeftTypes DEF Left, Work
  <1>2. DecodeInv /\ RowsInv /\ [DecodeNext]_decodeVars => [Shortens]_decodeVars
    BY StepShortens
  <1>3. DecodeSpec => [](Left \in Work) /\ [][Shortens]_decodeVars
    BY <1>1, <1>2, DecodeCorrect, PTL DEF DecodeSpec
  <1>. QED  BY <1>3, LessWellFounded
=============================================================================
