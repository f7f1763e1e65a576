--------------------------- MODULE Inbound_proofs ---------------------------
(***************************************************************************)
(* What holds of the way in, for any texts, channels and data, whatever    *)
(* tasks the runtime runs first.                                           *)
(***************************************************************************)
EXTENDS Inbound, FeedDecode_proofs

-----------------------------------------------------------------------------
(* The invariant *)

\* Message n has a task, or had.
Taken(n) ==
    /\ n \in 1 .. read /\ Handles(texts[n]) /\ \A m \in 1 .. n : ~Ends(m)
    /\ loop = "Parse" => n < read

\* Nothing has been done to the data of the FEED_DATA.
Fresh ==
    /\ \E in \in Inputs : data = in.data /\ fields = in.fields
    /\ pos = 1 /\ pairs = <<>> /\ parsed = <<>> /\ entry = 1 /\ row = 1 /\ out = <<>>

ScriptInv ==
    /\ IsSeq(texts) /\ read \in 0 .. Len(texts)
    /\ \A m, n \in DOMAIN texts : BringsData(texts[m]) /\ BringsData(texts[n]) => m = n
    /\ listening \subseteq known /\ known \subseteq Channels

\* The data is parsed in the loop first, which it may end, and then in the Feed's
\* listener, which it cannot.
StageInv ==
    /\ stage = "Idle" => Fresh
    /\ stage # "Idle" => \E n \in 1 .. read : BringsData(texts[n])
    /\ loop = "Parse" =>
          /\ read > 0 /\ BringsData(texts[read])
          /\ stage \in {"Deserialize", "Pairs", "Parsed", "Failed"} /\ Len(parsed) <= 1
          /\ stage # "Parsed" => parsed = <<>>
    /\ loop # "Parse" /\ stage \in {"Deserialize", "Pairs"} => Len(parsed) = 1
    /\ stage \in Stages

\* The first text that is no message is the last one read.
LoopInv ==
    /\ loop \in {"Read", "Parse", "Over"}
    /\ loop = "Read" => \A m \in 1 .. read : ~Ends(m)
    /\ loop # "Read" => read > 0 /\ \A m \in 1 .. read - 1 : ~Ends(m)
    /\ loop = "Over" => Ends(read)

\* A message has one task at a time.
TaskInv ==
    /\ tasks \subseteq (DOMAIN texts) \X Phases
    /\ \A n \in DOMAIN texts, p \in Phases : <<n, p>> \in tasks =>
          Taken(n) /\ \A q \in Phases : <<n, q>> \in tasks => q = p
    /\ \A n \in DOMAIN texts : <<n, "Publish">> \in tasks =>
          texts[n].channel \notin known /\ IsAuthState(n) /\ BadState(n)

\* What the listener of channel c has to have heard.
Due(c) ==
    {n \in DOMAIN texts : /\ Processed(n) /\ texts[n].channel = c
                          /\ c \in listening /\ texts[n].type # "ERROR"}

HeardInv ==
    /\ heard \in [Channels -> Seq(Nat)]
    /\ \A c \in Channels : Once(heard[c]) /\ Members(heard[c]) = Due(c)

\* What process_message has published an error for.
Reportable ==
    {n \in DOMAIN texts : /\ Processed(n) /\ texts[n].channel \notin known
                          /\ IsAuthState(n) /\ BadState(n)}

ReportedInv == reported \in Seq(Nat) /\ Once(reported) /\ Members(reported) = Reportable

\* The SETUPs of the connection, and the channels that were sent a CHANNEL_OPENED.
Settled ==
    {n \in DOMAIN texts : /\ Processed(n) /\ texts[n].type = "SETUP"
                          /\ texts[n].channel \notin known}

OpenedBy ==
    {texts[n].channel : n \in {m \in DOMAIN texts : /\ Processed(m) /\ texts[m].channel \in known
                                                  /\ texts[m].type = "CHANNEL_OPENED"}}

\* Each SETUP counted once, and no channel told it is open that the server has
\* not opened, or left out.
EffectsExact == setups = Cardinality(Settled) /\ opened = OpenedBy

DataInv == DecodeInv /\ RowsInv /\ pos <= Len(data) + 2

FlowInv == ScriptInv /\ StageInv /\ LoopInv /\ TaskInv

InboundInv == DataInv /\ FlowInv /\ HeardInv /\ ReportedInv /\ EffectsExact

-----------------------------------------------------------------------------
(* The data *)

LEMMA FreshData == Fresh /\ stage \in {"Idle", "Deserialize"} => DecodeInv /\ RowsInv
  BY StartInv, StartRowsInv DEF Fresh

\* A FEED_DATA that is read is the first.
LEMMA FirstData ==
    ASSUME FlowInv, loop = "Read", read < Len(texts), read' = read + 1, BringsData(texts[read'])
    PROVE  stage = "Idle"
  <1>. SUFFICES ASSUME NEW n \in 1 .. read, BringsData(texts[n]) PROVE FALSE
    BY DEF FlowInv, StageInv
  <1>1. DOMAIN texts = 1 .. Len(texts) /\ Len(texts) \in Nat /\ read \in Nat
    BY SeqShape DEF FlowInv, ScriptInv
  <1>2. n \in DOMAIN texts /\ read' \in DOMAIN texts /\ n # read'
    BY <1>1
  <1>. QED  BY <1>2 DEF FlowInv, ScriptInv

LEMMA FreshDataNext == (Fresh /\ stage \in {"Idle", "Deserialize"} => DecodeInv /\ RowsInv)'
  BY FreshData, PTL

LEMMA InitData == Init => DataInv
  <1>. SUFFICES ASSUME Init PROVE DataInv
    OBVIOUS
  <1>1. PICK c \in Cases : data = c.input.data /\ fields = c.input.fields
    BY DEF Init
  <1>2. c.input \in Inputs
    BY InboundAssumption
  <1>3. DecodeInv /\ RowsInv
    BY <1>1, <1>2, StartInv, StartRowsInv DEF Init
  <1>4. pos = 1 /\ Len(data) \in Nat
    BY <1>3, SeqShape DEF Init, DecodeInv, DecodeTypes
  <1>. QED  BY <1>3, <1>4 DEF DataInv

\* Texts that are read only start the first deserialization.
LEMMA ReadData == ASSUME DataInv, FlowInv, ReadText PROVE DataInv'
  <1>1. UNCHANGED <<fields, data, pos, pairs, parsed, entry, row, out>>
    BY DEF ReadText
  <1>2. CASE stage' = stage
    <2>1. UNCHANGED decodeVars
      BY <1>1, <1>2 DEF decodeVars
    <2>2. DecodeInv' /\ RowsInv'
      BY <2>1, DecodeStep, RowsStep DEF DataInv
    <2>. QED  BY <1>1, <2>2 DEF DataInv
  <1>3. CASE BringsData(texts[read']) /\ stage' = "Deserialize"
    <2>1. stage = "Idle"
      BY <1>3, FirstData DEF ReadText
    <2>2. Fresh'
      BY <1>1, <2>1 DEF FlowInv, StageInv, Fresh
    <2>. QED  BY <1>1, <1>3, <2>2, FreshDataNext DEF DataInv
  <1>. QED  BY <1>2, <1>3 DEF ReadText

\* All else that is done to the data is a step of FeedDecode.
LEMMA StepDecodes == Next => ReadText \/ [DecodeNext]_decodeVars
  <1>1. ReadLoop => ReadText \/ Parse \/ UNCHANGED decodeVars
    BY DEF ReadLoop, ParseData, DataParsed
  <1>2. ASSUME NEW n, Task(n) PROVE HandOn \/ UNCHANGED decodeVars
    <2>1. RouteToChannel(n) => HandOn \/ UNCHANGED decodeVars
      BY DEF RouteToChannel, Hear
    <2>2. High(n) \/ RouteToConnection(n) \/ Publish(n) => UNCHANGED decodeVars
      BY DEF High, RouteToConnection, Publish
    <2>. QED  BY <1>2, <2>1, <2>2 DEF Task
  <1>3. Feed => Parse \/ Convert
    BY DEF Feed, ParseAgain, ConvertData
  <1>. QED  BY <1>1, <1>2, <1>3 DEF Next, DecodeNext

LEMMA DecodeData == ASSUME DataInv, [DecodeNext]_decodeVars PROVE DataInv'
  <1>1. DecodeInv' /\ RowsInv'
    BY DecodeStep, RowsStep DEF DataInv
  <1>2. Len(data) \in Nat /\ Len(data') \in Nat /\ pos \in Nat /\ pos <= Len(data) + 2
    BY <1>1, SeqShape DEF DataInv, DecodeInv, DecodeTypes
  <1>3. CASE pos' = pos /\ data' = data
    BY <1>1, <1>2, <1>3 DEF DataInv
  <1>4. CASE TakePair
    <2>1. pos < Len(data) /\ pos' = pos + 2 /\ data' = data
      BY <1>4 DEF TakePair, IsPair
    <2>. QED  BY <1>1, <1>2, <2>1 DEF DataInv
  <1>5. CASE SkipItem
    <2>1. pos < Len(data) /\ pos' = pos + 1 /\ data' = data
      BY <1>5 DEF SkipItem
    <2>. QED  BY <1>1, <1>2, <2>1 DEF DataInv
  <1>6. CASE HandOn
    BY <1>1, <1>2, <1>6 DEF HandOn, DataInv
  <1>7. Recognise \/ EndPairs \/ Convert \/ UNCHANGED decodeVars => pos' = pos /\ data' = data
    BY DEF Recognise, EndPairs, Convert, TakeFull, StartRows, SkipEntry, DivideByZero, DecodeRow,
           EndRows, decodeVars
  <1>. QED  BY <1>3, <1>4, <1>5, <1>6, <1>7 DEF DecodeNext, Parse

LEMMA DataStep == DataInv /\ FlowInv /\ [Next]_vars => DataInv'
  <1>1. UNCHANGED vars => UNCHANGED decodeVars
    BY DEF vars
  <1>. QED  BY <1>1, ReadData, StepDecodes, DecodeData
-----------------------------------------------------------------------------
(* The loop and the stages of the data *)

Broken(n) == texts[n].form # "binary" /\ ~Handles(texts[n])

LEMMA ScriptStep == ScriptInv /\ [Next]_vars => ScriptInv'
  <1>. SUFFICES ASSUME ScriptInv, [Next]_vars PROVE ScriptInv'
    OBVIOUS
  <1>1. UNCHANGED scriptVars
    BY DEF Next, ReadLoop, ReadText, ParseData, DataParsed, Task, High, RouteToChannel,
           RouteToConnection, Publish, Feed, ParseAgain, ConvertData, inboundVars, vars, scriptVars
  <1>2. read' = read \/ (read < Len(texts) /\ read' = read + 1)
    BY DEF Next, ReadLoop, ReadText, ParseData, DataParsed, Task, High, RouteToChannel,
           RouteToConnection, Publish, Feed, ParseAgain, ConvertData, inboundVars, vars
  <1>3. Len(texts) \in Nat /\ read \in 0 .. Len(texts)
    BY SeqShape DEF ScriptInv
  <1>4. read' \in 0 .. Len(texts)
    BY <1>2, <1>3
  <1>5. \A t : BringsData(t)' = BringsData(t)
    OBVIOUS
  <1>. QED  BY <1>1, <1>4 DEF ScriptInv, scriptVars, BringsData

\* While the data is parsed in the loop no task can hand it on.
LEMMA NotInTheLoop ==
    ASSUME FlowInv, NEW n \in DOMAIN texts, <<n, "Route">> \in tasks, texts[n].type = "FEED_DATA"
    PROVE  loop # "Parse"
  <1>. SUFFICES ASSUME loop = "Parse" PROVE FALSE
    OBVIOUS
  <1>1. Taken(n)
    BY DEF FlowInv, TaskInv, Phases
  <1>2. BringsData(texts[n]) /\ n < read
    BY <1>1 DEF Taken, BringsData
  <1>3. read \in DOMAIN texts /\ BringsData(texts[read]) /\ read \in Nat
    BY SeqShape DEF FlowInv, ScriptInv, StageInv
  <1>. QED  BY <1>2, <1>3, SeqShape DEF FlowInv, ScriptInv

LEMMA StageStep == ASSUME DataInv, FlowInv, [Next]_vars PROVE StageInv'
  <1>1. StageInv /\ read \in Nat
    BY DEF FlowInv, ScriptInv
  <1>2. CASE ReadText
    <2>1. /\ read' = read + 1 /\ loop = "Read" /\ read < Len(texts)
          /\ UNCHANGED <<fields, data, pos, pairs, parsed, entry, row, out, texts>>
      BY <1>2 DEF ReadText, scriptVars
    <2>2. 1 .. read \subseteq 1 .. read' /\ read' \in 1 .. read' /\ read' > 0
      BY <1>1, <2>1
    <2>3. CASE stage' = stage /\ loop' # "Parse"
      BY <1>1, <2>1, <2>2, <2>3 DEF StageInv, Fresh, BringsData
    <2>4. CASE BringsData(texts[read']) /\ loop' = "Parse" /\ stage' = "Deserialize"
      <3>1. parsed = <<>> /\ Len(parsed) = 0
        BY <2>1, <2>4, FirstData, EmptySeq DEF FlowInv, StageInv, Fresh
      <3>. QED  BY <2>1, <2>2, <2>4, <3>1 DEF StageInv, BringsData, Stages
    <2>. QED  BY <1>2, <2>1, <2>3, <2>4 DEF ReadText
  <1>3. CASE ParseData
    <2>1. loop = "Parse" /\ UNCHANGED inboundVars /\ Parse
      BY <1>3 DEF ParseData
    <2>2. parsed = <<>>
      BY <1>1, <2>1 DEF StageInv, Parse, Recognise, TakePair, SkipItem, EndPairs
    <2>3. \A x : Len(Append(<<>>, x)) = 1
      OBVIOUS
    <2>4. \/ stage' \in {"Pairs", "Failed"} /\ parsed' = parsed
          \/ stage' = "Parsed" /\ \E x : parsed' = Append(parsed, x)
      BY <2>1 DEF Parse, Recognise, TakePair, SkipItem, EndPairs
    <2>5. Len(parsed') <= 1 /\ (stage' # "Parsed" => parsed' = <<>>)
      <3>1. Len(<<>>) = 0
        OBVIOUS
      <3>2. ASSUME NEW x, parsed' = Append(parsed, x) PROVE Len(parsed') = 1
        BY <2>2, <2>3, <3>2
      <3>3. CASE stage' \in {"Pairs", "Failed"} /\ parsed' = parsed
        <4>1. Len(parsed') = 0
          BY <2>2, <3>1, <3>3
        <4>. QED  BY <2>2, <3>3, <4>1
      <3>4. CASE stage' = "Parsed" /\ \E x : parsed' = Append(parsed, x)
        <4>1. Len(parsed') = 1
          BY <3>2, <3>4
        <4>. QED  BY <3>4, <4>1
      <3>. QED  BY <2>4, <3>3, <3>4
    <2>. QED  BY <1>1, <2>1, <2>4, <2>5 DEF StageInv, inboundVars, BringsData, Stages
  <1>4. CASE DataParsed
    BY <1>1, <1>4 DEF DataParsed, StageInv, Fresh, BringsData, scriptVars, decodeVars
  <1>5. ASSUME NEW n \in DOMAIN texts, Task(n) PROVE StageInv'
    <2>1. UNCHANGED <<texts, read, loop>>
      BY <1>5 DEF Task, High, RouteToChannel, RouteToConnection, Publish, scriptVars
    <2>2. CASE UNCHANGED decodeVars
      BY <1>1, <2>1, <2>2 DEF StageInv, Fresh, BringsData, decodeVars
    <2>3. CASE RouteToChannel(n) /\ texts[n].type = "FEED_DATA" /\ HandOn
      <3>1. loop # "Parse"
        BY <2>3, NotInTheLoop DEF RouteToChannel, Run
      <3>. QED  BY <1>1, <2>1, <2>3, <3>1 DEF HandOn, StageInv, BringsData, Stages
    <2>. QED  BY <1>5, <2>2, <2>3 DEF Task, High, RouteToChannel, Hear, RouteToConnection, Publish
  <1>6. CASE ParseAgain
    <2>1. loop # "Parse" /\ UNCHANGED inboundVars /\ Parse /\ stage \in {"Deserialize", "Pairs"}
      BY <1>6 DEF ParseAgain, Parse, Recognise, TakePair, SkipItem, EndPairs
    <2>2. stage' \in {"Pairs", "Parsed", "Failed"} /\ (stage' = "Pairs" => parsed' = parsed)
      BY <2>1 DEF Parse, Recognise, TakePair, SkipItem, EndPairs
    <2>. QED  BY <1>1, <2>1, <2>2 DEF StageInv, inboundVars, BringsData, Stages
  <1>7. CASE ConvertData
    <2>1. UNCHANGED inboundVars /\ stage' \in {"Done", "Rows", "Panicked"}
      BY <1>7 DEF ConvertData, Convert, TakeFull, StartRows, SkipEntry, DivideByZero, DecodeRow,
                  EndRows, AtEntry
    <2>2. stage = "Rows" \/ (stage = "Parsed" /\ Len(parsed) = 2)
      BY <1>7 DEF ConvertData, Convert, TakeFull, StartRows, SkipEntry, DivideByZero, DecodeRow,
                  EndRows, AtEntry
    <2>. QED  BY <1>1, <2>1, <2>2 DEF StageInv, inboundVars, BringsData, Stages
  <1>8. CASE UNCHANGED vars
    BY <1>1, <1>8 DEF vars, inboundVars, decodeVars, StageInv, Fresh, BringsData
  <1>. QED  BY <1>2, <1>3, <1>4, <1>5, <1>6, <1>7, <1>8 DEF Next, ReadLoop, Feed

\* Only in the loop can the data turn out to be no FeedData.
LEMMA Fails ==
    ASSUME DataInv, FlowInv, [Next]_vars, stage' = "Failed", stage # "Failed"
    PROVE  ParseData
  <1>1. ParseData \/ ParseAgain
    <2>1. ~ReadText /\ ~DataParsed /\ ~ConvertData /\ ~UNCHANGED vars
      BY DEF ReadText, DataParsed, decodeVars, vars, ConvertData, Convert, TakeFull, StartRows,
             SkipEntry, DivideByZero, DecodeRow, EndRows
    <2>2. \A n : ~Task(n)
      BY DEF Task, High, RouteToChannel, Hear, HandOn, RouteToConnection, Publish, decodeVars
    <2>. QED  BY <2>1, <2>2 DEF Next, ReadLoop, Feed
  <1>2. ASSUME ParseAgain PROVE FALSE
    <2>1. loop # "Parse" /\ Recognise
      BY <1>2 DEF ParseAgain, Parse, Recognise, TakePair, SkipItem, EndPairs
    <2>2. Len(parsed) = 1 /\ parsed' = parsed
      BY <2>1 DEF FlowInv, StageInv, Recognise
    <2>3. DecodeInv'
      BY DataStep DEF DataInv
    <2>4. Len(parsed') = 0
      BY <2>3 DEF DecodeInv, DecodeTypes
    <2>. QED  BY <2>2, <2>4
  <1>. QED  BY <1>1, <1>2

LEMMA EndsSame ==
    ASSUME UNCHANGED texts, stage' = "Failed" <=> stage = "Failed"
    PROVE  \A m : Ends(m)' = Ends(m)
  BY DEF Ends, BringsData

LEMMA EndsLater ==
    ASSUME DataInv, FlowInv, [Next]_vars, NEW m \in DOMAIN texts,
           m <= read /\ (loop = "Parse" => m < read)
    PROVE  Ends(m)' = Ends(m)
  <1>1. UNCHANGED texts
    BY DEF Next, ReadLoop, ReadText, ParseData, DataParsed, Task, High, RouteToChannel,
           RouteToConnection, Publish, Feed, ParseAgain, ConvertData, inboundVars, vars, scriptVars
  <1>2. CASE stage' = "Failed" <=> stage = "Failed"
    BY <1>1, <1>2, EndsSame
  <1>3. CASE stage' = "Failed" /\ stage # "Failed"
    <2>1. loop = "Parse"
      BY <1>3, Fails DEF ParseData
    <2>2. read \in DOMAIN texts /\ BringsData(texts[read]) /\ m # read
      BY <2>1, SeqShape DEF FlowInv, StageInv, ScriptInv
    <2>3. ~BringsData(texts[m])
      BY <2>2 DEF FlowInv, ScriptInv
    <2>. QED  BY <1>1, <2>3 DEF Ends, BringsData
  <1>4. CASE stage' # "Failed" /\ stage = "Failed"
    <2>1. Len(parsed) = 0
      BY <1>4 DEF DataInv, DecodeInv, DecodeTypes
    <2>2. ReadText
      <3>1. ~Parse /\ ~Convert /\ ~HandOn /\ ~UNCHANGED decodeVars
        BY <1>4, <2>1 DEF Parse, Recognise, TakePair, SkipItem, EndPairs, HandOn, decodeVars,
               Convert, TakeFull, StartRows, SkipEntry, DivideByZero, DecodeRow, EndRows, AtEntry
      <3>2. UNCHANGED vars => UNCHANGED decodeVars
        BY DEF vars
      <3>. QED  BY <3>1, <3>2, StepDecodes DEF DecodeNext
    <2>3. stage = "Idle"
      BY <1>4, <2>2, FirstData DEF ReadText
    <2>. QED  BY <1>4, <2>3
  <1>. QED  BY <1>2, <1>3, <1>4

LEMMA Positions ==
    ASSUME ScriptInv
    PROVE  DOMAIN texts = 1 .. Len(texts) /\ Len(texts) \in Nat /\ read \in Nat /\ read <= Len(texts)
  BY SeqShape DEF ScriptInv

LEMMA LoopStep == ASSUME DataInv, FlowInv, [Next]_vars PROVE LoopInv'
  <1>1. LoopInv /\ StageInv /\ read \in Nat /\ DOMAIN texts = 1 .. Len(texts) /\ read <= Len(texts)
        /\ Len(texts) \in Nat
    BY Positions DEF FlowInv
  <1>2. \A m \in 1 .. read : (loop = "Parse" => m < read) => Ends(m)' = Ends(m)
    BY <1>1, EndsLater
  <1>3. CASE ReadText
    <2>1. loop = "Read" /\ read' = read + 1 /\ UNCHANGED texts
      BY <1>3 DEF ReadText, scriptVars
    <2>2. \A m \in 1 .. read : ~Ends(m)'
      BY <1>1, <1>2, <2>1 DEF LoopInv
    <2>3. read' > 0 /\ 1 .. read' - 1 = 1 .. read /\ \A m \in 1 .. read' : m \in 1 .. read \/ m = read'
      BY <1>1, <2>1
    <2>. PICK k \in DOMAIN texts : k = read'
      BY <1>1, <1>3 DEF ReadText
    <2>4. CASE loop' = "Over"
      <3>1. Broken(k)
        BY <1>3, <2>1, <2>4 DEF ReadText, Broken
      <3>2. Ends(k)'
        BY <2>1, <3>1 DEF Broken, Ends
      <3>. QED  BY <2>2, <2>3, <2>4, <3>2 DEF LoopInv
    <2>5. CASE loop' = "Parse"
      BY <2>2, <2>3, <2>5 DEF LoopInv
    <2>6. CASE loop' = "Read"
      <3>1. ~Broken(k) /\ ~BringsData(texts[k])
        BY <1>3, <2>6 DEF ReadText, Broken, BringsData, Handles
      <3>2. ~Ends(k)'
        BY <2>1, <3>1 DEF Broken, Ends, BringsData
      <3>. QED  BY <2>2, <2>3, <2>6, <3>2 DEF LoopInv
    <2>. QED  BY <1>3, <2>1, <2>4, <2>5, <2>6 DEF ReadText
  <1>4. CASE DataParsed
    <2>1. loop = "Parse" /\ UNCHANGED <<read, texts, stage>> /\ BringsData(texts[read]) /\ read > 0
      BY <1>1, <1>4 DEF DataParsed, scriptVars, decodeVars, StageInv
    <2>2. \A m \in 1 .. read - 1 : ~Ends(m)'
      BY <1>1, <1>2, <2>1 DEF LoopInv
    <2>3. Ends(read)' <=> stage = "Failed"
      BY <2>1 DEF Ends, BringsData
    <2>4. \A m \in 1 .. read : m \in 1 .. read - 1 \/ m = read
      BY <1>1
    <2>. QED  BY <1>4, <2>1, <2>2, <2>3, <2>4 DEF DataParsed, LoopInv
  <1>5. CASE UNCHANGED <<read, loop>>
    <2>1. loop # "Parse" => \A m \in 1 .. read : Ends(m)' = Ends(m)
      BY <1>2
    <2>2. \A m \in 1 .. read - 1 : Ends(m)' = Ends(m)
      BY <1>1, <1>2
    <2>3. loop = "Over" => read \in 1 .. read
      BY <1>1 DEF LoopInv
    <2>. QED  BY <1>1, <1>5, <2>1, <2>2, <2>3 DEF LoopInv
  <1>6. \/ ReadText \/ DataParsed \/ UNCHANGED <<read, loop>>
    BY DEF Next, ReadLoop, ParseData, Task, High, RouteToChannel, RouteToConnection, Publish,
           Feed, ParseAgain, ConvertData, inboundVars, vars
  <1>. QED  BY <1>3, <1>4, <1>5, <1>6

-----------------------------------------------------------------------------
(* The messages that are taken *)

LEMMA TakenLater ==
    ASSUME DataInv, FlowInv, [Next]_vars, NEW n \in DOMAIN texts,
           n <= read, loop = "Parse" => n < read
    PROVE  (Taken(n)' <=> Taken(n))
  <1>1. read \in Nat /\ DOMAIN texts = 1 .. Len(texts) /\ Len(texts) \in Nat
    BY Positions DEF FlowInv
  <1>2. UNCHANGED texts
    BY DEF Next, ReadLoop, ReadText, ParseData, DataParsed, Task, High, RouteToChannel,
           RouteToConnection, Publish, Feed, ParseAgain, ConvertData, inboundVars, vars, scriptVars
  <1>3. \A m \in 1 .. n : Ends(m)' = Ends(m)
    <2>. SUFFICES ASSUME NEW m \in 1 .. n PROVE Ends(m)' = Ends(m)
      OBVIOUS
    <2>1. m \in DOMAIN texts /\ m <= read /\ (loop = "Parse" => m < read)
      BY <1>1
    <2>. QED  BY <2>1, EndsLater
  <1>4. \/ UNCHANGED read /\ (loop' = "Parse" => loop = "Parse")
        \/ read' = read + 1
    BY DEF Next, ReadLoop, ReadText, ParseData, DataParsed, Task, High, RouteToChannel,
           RouteToConnection, Publish, Feed, ParseAgain, ConvertData, inboundVars, vars
  <1>5. n \in 1 .. read /\ n \in 1 .. read' /\ (loop' = "Parse" => n < read')
    BY <1>1, <1>4
  <1>. QED  BY <1>2, <1>3, <1>5 DEF Taken

\* The messages of new get their first task.
Takes(new) ==
    /\ new \subseteq DOMAIN texts
    /\ tasks' = tasks \cup {<<n, "High">> : n \in new}
    /\ \A n \in DOMAIN texts :
          (Taken(n)' <=> Taken(n) \/ n \in new) /\ (n \in new => ~Taken(n))

LEMMA ReadTakes == ASSUME DataInv, FlowInv, ReadText PROVE \E new : Takes(new)
  <1>1. /\ read \in Nat /\ DOMAIN texts = 1 .. Len(texts) /\ Len(texts) \in Nat
        /\ loop = "Read" /\ read < Len(texts) /\ read' = read + 1 /\ UNCHANGED texts
    BY Positions DEF FlowInv, ReadText, scriptVars
  <1>2. Next
    BY DEF Next, ReadLoop
  <1>3. LoopInv'
    BY <1>2, LoopStep
  <1>4. \A n \in DOMAIN texts : n <= read => (Taken(n)' <=> Taken(n))
    BY <1>1, <1>2, TakenLater
  <1>5. \A n \in DOMAIN texts : n > read => ~Taken(n)
    BY <1>1 DEF Taken
  <1>6. \A n \in DOMAIN texts : n > read' => ~Taken(n)'
    BY <1>1 DEF Taken
  <1>7. \A n \in DOMAIN texts : n <= read \/ n = read' \/ n > read'
    BY <1>1
  <1>8. read' \in DOMAIN texts /\ read' > read /\ read' \in 1 .. read'
    BY <1>1
  <1>. PICK k \in DOMAIN texts : k = read'
    BY <1>8
  <1>9. CASE tasks' = tasks \cup {<<read', "High">>} /\ loop' = "Read" /\ Handles(texts[read'])
    <2>1. Taken(k)'
      BY <1>1, <1>3, <1>8, <1>9 DEF Taken, LoopInv
    <2>2. ASSUME NEW n \in DOMAIN texts
          PROVE  (Taken(n)' <=> Taken(n) \/ n = k) /\ (n = k => ~Taken(n))
      <3>1. CASE n <= read
        <4>1. n # k
          BY <1>1, <3>1
        <4>. QED  BY <1>4, <3>1, <4>1
      <3>2. CASE n = k
        BY <1>5, <1>8, <2>1, <3>2
      <3>3. CASE n > read'
        <4>1. n # k /\ n > read
          BY <1>1, <3>3
        <4>. QED  BY <1>5, <1>6, <3>3, <4>1
      <3>. QED  BY <1>7, <3>1, <3>2, <3>3
    <2>3. tasks' = tasks \cup {<<n, "High">> : n \in {k}}
      BY <1>9
    <2>4. Takes({k})
      BY <1>8, <2>2, <2>3 DEF Takes
    <2>. QED  BY <2>4
  <1>10. CASE tasks' = tasks /\ (loop' = "Parse" \/ ~Handles(texts[read']))
    <2>1. ~Taken(k)'
      BY <1>1, <1>10 DEF Taken
    <2>2. ASSUME NEW n \in DOMAIN texts PROVE Taken(n)' <=> Taken(n)
      <3>1. CASE n <= read
        BY <1>4, <3>1
      <3>2. CASE n = k
        BY <1>5, <1>8, <2>1, <3>2
      <3>3. CASE n > read'
        <4>1. n > read
          BY <1>1, <3>3
        <4>. QED  BY <1>5, <1>6, <3>3, <4>1
      <3>. QED  BY <1>7, <3>1, <3>2, <3>3
    <2>3. Takes({})
      BY <1>10, <2>2 DEF Takes
    <2>. QED  BY <2>3
  <1>11. texts[read'].form = "binary" => ~Handles(texts[read'])
    BY DEF Handles
  <1>. QED  BY <1>9, <1>10, <1>11, <1>1 DEF ReadText, Spawn

LEMMA DataTakes == ASSUME DataInv, FlowInv, DataParsed PROVE \E new : Takes(new)
  <1>1. /\ read \in Nat /\ DOMAIN texts = 1 .. Len(texts) /\ Len(texts) \in Nat /\ read <= Len(texts)
        /\ loop = "Parse" /\ UNCHANGED <<read, texts, stage>> /\ BringsData(texts[read]) /\ read > 0
    BY Positions DEF FlowInv, DataParsed, StageInv, scriptVars, decodeVars
  <1>2. Next
    BY DEF Next, ReadLoop
  <1>3. LoopInv'
    BY <1>2, LoopStep
  <1>4. \A n \in DOMAIN texts : n < read => (Taken(n)' <=> Taken(n))
    BY <1>1, <1>2, TakenLater
  <1>5. \A n \in DOMAIN texts : n >= read => ~Taken(n)
    BY <1>1 DEF Taken
  <1>6. \A n \in DOMAIN texts : n > read => ~Taken(n)'
    BY <1>1 DEF Taken
  <1>7. \A n \in DOMAIN texts : n < read \/ n = read \/ n > read
    BY <1>1
  <1>8. read \in DOMAIN texts /\ read \in 1 .. read /\ read >= read
    BY <1>1
  <1>9. CASE loop' = "Read" /\ tasks' = tasks \cup {<<read, "High">>}
    <2>1. Taken(read)'
      BY <1>1, <1>3, <1>8, <1>9 DEF Taken, LoopInv, BringsData
    <2>2. ASSUME NEW n \in DOMAIN texts
          PROVE  (Taken(n)' <=> Taken(n) \/ n = read) /\ (n = read => ~Taken(n))
      <3>1. CASE n < read
        <4>1. n # read
          BY <1>1, <3>1
        <4>. QED  BY <1>4, <3>1, <4>1
      <3>2. CASE n = read
        BY <1>1, <1>5, <1>8, <2>1, <3>2
      <3>3. CASE n > read
        <4>1. n # read /\ n >= read
          BY <1>1, <3>3
        <4>. QED  BY <1>5, <1>6, <3>3, <4>1
      <3>. QED  BY <1>7, <3>1, <3>2, <3>3
    <2>3. tasks' = tasks \cup {<<n, "High">> : n \in {read}}
      BY <1>9
    <2>4. Takes({read})
      BY <1>8, <2>2, <2>3 DEF Takes
    <2>. QED  BY <2>4
  <1>10. CASE loop' = "Over" /\ tasks' = tasks
    <2>1. ~Taken(read)'
      BY <1>1, <1>3, <1>8, <1>10 DEF Taken, LoopInv
    <2>2. ASSUME NEW n \in DOMAIN texts PROVE Taken(n)' <=> Taken(n)
      <3>1. CASE n < read
        BY <1>4, <3>1
      <3>2. CASE n = read
        BY <1>1, <1>5, <1>8, <2>1, <3>2
      <3>3. CASE n > read
        <4>1. n >= read
          BY <1>1, <3>3
        <4>. QED  BY <1>5, <1>6, <3>3, <4>1
      <3>. QED  BY <1>7, <3>1, <3>2, <3>3
    <2>3. Takes({})
      BY <1>10, <2>2 DEF Takes
    <2>. QED  BY <2>3
  <1>. QED  BY <1>9, <1>10 DEF DataParsed, Spawn

LEMMA OthersTake ==
    ASSUME DataInv, FlowInv, [Next]_vars, UNCHANGED <<read, loop>>
    PROVE  \A n \in DOMAIN texts : (Taken(n)' <=> Taken(n))
  <1>1. /\ read \in Nat /\ DOMAIN texts = 1 .. Len(texts) /\ Len(texts) \in Nat
    BY Positions DEF FlowInv
  <1>2. SUFFICES ASSUME NEW n \in DOMAIN texts PROVE (Taken(n)' <=> Taken(n))
    OBVIOUS
  <1>3. CASE n <= read /\ (loop = "Parse" => n < read)
    BY <1>3, TakenLater
  <1>4. CASE n > read \/ (loop = "Parse" /\ n >= read)
    <2>1. n \notin 1 .. read \/ (loop = "Parse" /\ ~(n < read))
      BY <1>1, <1>4
    <2>. QED  BY <2>1 DEF Taken
  <1>. QED  BY <1>1, <1>3, <1>4

-----------------------------------------------------------------------------
(* The messages that are processed *)

LEMMA ProcessedIs ==
    ASSUME ScriptInv, NEW n \in DOMAIN texts
    PROVE  Processed(n) <=> Taken(n) /\ \A p \in Phases : <<n, p>> \notin tasks
  <1>1. n >= 1 /\ n \in Nat /\ read \in Nat
    BY Positions
  <1>2. n \in 1 .. read <=> n <= read
    BY <1>1
  <1>. QED  BY <1>2 DEF Processed, Taken

LEMMA ProcessedIsNext ==
    (ScriptInv => \A n \in DOMAIN texts :
        (Processed(n) <=> Taken(n) /\ \A p \in Phases : <<n, p>> \notin tasks))'
  <1>1. ScriptInv => \A n \in DOMAIN texts :
            (Processed(n) <=> Taken(n) /\ \A p \in Phases : <<n, p>> \notin tasks)
    BY ProcessedIs
  <1>. QED  BY <1>1, PTL

\* A new task: nothing more is processed.
LEMMA TakesSame ==
    ASSUME ScriptInv, ScriptInv', TaskInv, UNCHANGED scriptVars, NEW new, Takes(new)
    PROVE  /\ TaskInv'
           /\ \A n \in DOMAIN texts : Processed(n)' <=> Processed(n)
  <1>1. /\ new \subseteq DOMAIN texts /\ tasks' = tasks \cup {<<n, "High">> : n \in new}
        /\ \A n \in DOMAIN texts : (Taken(n)' <=> Taken(n) \/ n \in new) /\ (n \in new => ~Taken(n))
        /\ UNCHANGED <<texts, known>>
    BY DEF Takes, scriptVars
  <1>2. \A n \in DOMAIN texts, p \in Phases :
            <<n, p>> \in tasks' <=> <<n, p>> \in tasks \/ (n \in new /\ p = "High")
    BY <1>1
  <1>3. \A n \in DOMAIN texts, p \in Phases : <<n, p>> \in tasks => Taken(n)
    BY DEF TaskInv
  <1>4. tasks' \subseteq (DOMAIN texts) \X Phases
    BY <1>1 DEF TaskInv, Phases
  <1>5. ASSUME NEW n \in DOMAIN texts, NEW p \in Phases, <<n, p>> \in tasks'
        PROVE  /\ Taken(n)' /\ \A q \in Phases : <<n, q>> \in tasks' => q = p
               /\ p = "Publish" => texts[n].channel \notin known /\ IsAuthState(n) /\ BadState(n)
    <2>1. CASE <<n, p>> \in tasks
      <3>1. n \notin new /\ Taken(n)'
        BY <1>1, <1>3, <2>1
      <3>. QED  BY <1>2, <2>1, <3>1 DEF TaskInv
    <2>2. CASE n \in new /\ p = "High"
      <3>1. \A q \in Phases : <<n, q>> \notin tasks
        BY <1>1, <1>3, <2>2
      <3>2. Taken(n)'
        BY <1>1, <2>2
      <3>. QED  BY <1>2, <2>2, <3>1, <3>2
    <2>. QED  BY <1>2, <1>5, <2>1, <2>2
  <1>6. "Publish" \in Phases
    BY DEF Phases
  <1>7. TaskInv'
    BY <1>1, <1>4, <1>5, <1>6 DEF TaskInv, IsAuthState, BadState
  <1>8. ASSUME NEW n \in DOMAIN texts PROVE Processed(n)' <=> Processed(n)
    <2>1. Processed(n)' <=> Taken(n)' /\ \A p \in Phases : <<n, p>> \notin tasks'
      BY <1>1, ProcessedIsNext
    <2>2. Processed(n) <=> Taken(n) /\ \A p \in Phases : <<n, p>> \notin tasks
      BY ProcessedIs
    <2>3. "High" \in Phases
      BY DEF Phases
    <2>4. CASE n \in new
      BY <1>1, <1>2, <2>1, <2>2, <2>3, <2>4
    <2>5. CASE n \notin new
      BY <1>1, <1>2, <2>1, <2>2, <2>5
    <2>. QED  BY <2>4, <2>5
  <1>. QED  BY <1>7, <1>8

\* A task that runs: its message is processed when it leaves no other.
LEMMA RunProcesses ==
    ASSUME ScriptInv, ScriptInv', TaskInv, UNCHANGED scriptVars,
           \A k \in DOMAIN texts : Taken(k)' <=> Taken(k),
           NEW n \in DOMAIN texts, NEW p \in Phases, NEW new, Run(n, p, new),
           new = {} \/ \E q \in Phases :
               /\ new = {<<n, q>>} /\ q # p
               /\ q = "Publish" => texts[n].channel \notin known /\ IsAuthState(n) /\ BadState(n)
    PROVE  /\ TaskInv'
           /\ ~Processed(n)
           /\ \A k \in DOMAIN texts : Processed(k)' <=> Processed(k) \/ (k = n /\ new = {})
  <1>1. UNCHANGED <<texts, known>> /\ <<n, p>> \in tasks /\ tasks' = (tasks \ {<<n, p>>}) \cup new
    BY DEF scriptVars, Run
  <1>2. Taken(n) /\ \A q \in Phases : <<n, q>> \in tasks <=> q = p
    BY <1>1 DEF TaskInv
  <1>3. \A q \in Phases : <<n, q>> \in tasks' <=> <<n, q>> \in new
    BY <1>1, <1>2
  <1>4. \A k \in DOMAIN texts, q \in Phases : k # n => (<<k, q>> \in tasks' <=> <<k, q>> \in tasks)
    BY <1>1
  <1>5. tasks' \subseteq (DOMAIN texts) \X Phases
    BY <1>1 DEF TaskInv
  <1>6. ASSUME NEW k \in DOMAIN texts, NEW q \in Phases, <<k, q>> \in tasks'
        PROVE  /\ Taken(k)' /\ \A r \in Phases : <<k, r>> \in tasks' => r = q
               /\ q = "Publish" => texts[k].channel \notin known /\ IsAuthState(k) /\ BadState(k)
    <2>1. CASE k = n
      <3>1. new = {<<n, q>>}
        BY <1>3, <1>6, <2>1
      <3>2. \A r \in Phases : <<n, r>> \in new => r = q
        BY <3>1
      <3>. QED  BY <1>2, <1>3, <2>1, <3>1, <3>2
    <2>2. CASE k # n
      BY <1>4, <1>6, <2>2 DEF TaskInv
    <2>. QED  BY <2>1, <2>2
  <1>7. "Publish" \in Phases
    BY DEF Phases
  <1>8. TaskInv'
    BY <1>1, <1>5, <1>6, <1>7 DEF TaskInv, IsAuthState, BadState
  <1>9. ~Processed(n)
    BY <1>1, ProcessedIs
  <1>10. ASSUME NEW k \in DOMAIN texts
         PROVE  Processed(k)' <=> Processed(k) \/ (k = n /\ new = {})
    <2>1. Processed(k)' <=> Taken(k)' /\ \A q \in Phases : <<k, q>> \notin tasks'
      BY <1>1, ProcessedIsNext
    <2>2. Processed(k) <=> Taken(k) /\ \A q \in Phases : <<k, q>> \notin tasks
      BY ProcessedIs
    <2>3. CASE k = n
      <3>1. (\A q \in Phases : <<n, q>> \notin new) <=> new = {}
        OBVIOUS
      <3>. QED  BY <1>2, <1>3, <1>9, <2>1, <2>3, <3>1
    <2>4. CASE k # n
      BY <1>4, <2>1, <2>2, <2>4
    <2>. QED  BY <2>3, <2>4
  <1>. QED  BY <1>8, <1>9, <1>10

LEMMA AppendOnce ==
    ASSUME NEW s \in Seq(Nat), NEW n \in Nat, Once(s), n \notin Members(s)
    PROVE  /\ Append(s, n) \in Seq(Nat) /\ Once(Append(s, n))
           /\ Members(Append(s, n)) = Members(s) \cup {n}
  <1> DEFINE t == Append(s, n)
  <1>1. /\ t \in Seq(Nat) /\ DOMAIN t = 1 .. Len(s) + 1 /\ DOMAIN s = 1 .. Len(s) /\ Len(s) \in Nat
        /\ t[Len(s) + 1] = n /\ \A k \in 1 .. Len(s) : t[k] = s[k]
    OBVIOUS
  <1> HIDE DEF t
  <1>2. \A k \in DOMAIN t : (k \in DOMAIN s /\ t[k] = s[k]) \/ (k = Len(s) + 1 /\ t[k] = n)
    BY <1>1
  <1>3. \A k \in DOMAIN s : k \in DOMAIN t /\ t[k] = s[k]
    BY <1>1
  <1>4. \A k \in DOMAIN s : s[k] # n
    BY DEF Members
  <1>5. Once(t)
    BY <1>2, <1>4 DEF Once
  <1>6. Members(t) = Members(s) \cup {n}
    BY <1>1, <1>2, <1>3 DEF Members
  <1>. QED  BY <1>1, <1>5, <1>6 DEF t

-----------------------------------------------------------------------------
(* What the listeners hear *)

LEMMA SameProcessed ==
    ASSUME HeardInv, ReportedInv, EffectsExact, UNCHANGED <<scriptVars, heard, reported, setups, opened>>,
           \A n \in DOMAIN texts : Processed(n)' <=> Processed(n)
    PROVE  HeardInv' /\ ReportedInv' /\ EffectsExact'
  <1>1. UNCHANGED <<texts, known, listening>>
    BY DEF scriptVars
  <1>2. HeardInv'
    <2>1. \A c \in Channels : Due(c)' = Due(c)
      BY <1>1 DEF Due
    <2>. QED  BY <1>1, <2>1 DEF HeardInv, Once, Members
  <1>3. ReportedInv'
    BY <1>1 DEF ReportedInv, Reportable, Once, Members, IsAuthState, BadState
  <1>4. Settled' = Settled
    BY <1>1 DEF Settled
  <1>5. OpenedBy' = OpenedBy
    BY <1>1 DEF OpenedBy
  <1>. QED  BY <1>1, <1>2, <1>3, <1>4, <1>5 DEF EffectsExact

\* Message n is processed now, and goes to its channel.
LEMMA ToChannel ==
    ASSUME InboundInv, UNCHANGED <<scriptVars, reported, setups>>, NEW n \in DOMAIN texts,
           ~Processed(n), \A k \in DOMAIN texts : Processed(k)' <=> Processed(k) \/ k = n,
           texts[n].channel \in known,
           opened' = IF texts[n].type = "CHANNEL_OPENED" THEN opened \cup {texts[n].channel}
                                                         ELSE opened,
           heard' = IF texts[n].channel \in listening /\ texts[n].type # "ERROR"
                    THEN [heard EXCEPT ![texts[n].channel] = Append(@, n)] ELSE heard
    PROVE  HeardInv' /\ ReportedInv' /\ EffectsExact'
  <1>1. UNCHANGED <<texts, known, listening>> /\ n \in Nat
    BY Positions DEF scriptVars, InboundInv, FlowInv
  <1> DEFINE c == texts[n].channel
  <1>2. c \in Channels /\ HeardInv
    BY DEF InboundInv, FlowInv, ScriptInv
  <1>3. ReportedInv'
    <2>1. ReportedInv /\ UNCHANGED <<texts, known, reported>>
      BY <1>1 DEF InboundInv
    <2>2. \A k \in DOMAIN texts : texts[k].channel \notin known => (Processed(k)' <=> Processed(k))
      OBVIOUS
    <2>. QED  BY ONLY <2>1, <2>2 DEF ReportedInv, Reportable, Once, Members, IsAuthState, BadState
  <1>4. Settled' = Settled
    BY <1>1 DEF Settled
  <1>5. EffectsExact'
    <2> DEFINE opening == {m \in DOMAIN texts : /\ Processed(m) /\ texts[m].channel \in known
                                                /\ texts[m].type = "CHANNEL_OPENED"}
               openingNext == {m \in DOMAIN texts : /\ Processed(m)' /\ texts[m].channel \in known
                                                    /\ texts[m].type = "CHANNEL_OPENED"}
    <2>1. opened = {texts[m].channel : m \in opening} /\ setups = Cardinality(Settled)
      BY DEF InboundInv, EffectsExact, OpenedBy
    <2>2. OpenedBy' = {texts[m].channel : m \in openingNext}
      BY <1>1 DEF OpenedBy
    <2>3. openingNext = IF texts[n].type = "CHANNEL_OPENED" THEN opening \cup {n} ELSE opening
      OBVIOUS
    <2> HIDE DEF opening, openingNext
    <2>4. opened' = OpenedBy'
      BY <2>1, <2>2, <2>3
    <2>. QED  BY <1>1, <1>4, <2>1, <2>4 DEF EffectsExact
  <1>6. n \notin Members(heard[c]) /\ Once(heard[c]) /\ heard[c] \in Seq(Nat)
    BY <1>2 DEF HeardInv, Due
  <1> DEFINE hears(d) == c \in listening /\ texts[n].type # "ERROR" /\ d = c
  <1>7. ASSUME NEW d \in Channels
        PROVE  /\ heard'[d] = (IF hears(d) THEN Append(heard[d], n) ELSE heard[d])
               /\ heard'[d] \in Seq(Nat) /\ Once(heard'[d])
               /\ Members(heard'[d]) = (IF hears(d) THEN Members(heard[d]) \cup {n} ELSE Members(heard[d]))
    <2>1. heard'[d] = (IF hears(d) THEN Append(heard[d], n) ELSE heard[d])
      BY <1>2 DEF HeardInv
    <2>2. heard[d] \in Seq(Nat) /\ Once(heard[d])
      BY <1>2 DEF HeardInv
    <2>3. CASE hears(d)
      BY <1>1, <1>6, <2>1, <2>3, AppendOnce
    <2>4. CASE ~hears(d)
      BY <2>1, <2>2, <2>4
    <2>. QED  BY <2>1, <2>3, <2>4
  <1>8. heard' \in [Channels -> Seq(Nat)]
    BY <1>2, <1>7 DEF HeardInv
  <1>9. ASSUME NEW d \in Channels PROVE Members(heard'[d]) = Due(d)'
    <2>1. Members(heard[d]) = Due(d)
      BY <1>2 DEF HeardInv
    <2>2. \A k \in DOMAIN texts : k \in Due(d)' <=> k \in Due(d) \/ (k = n /\ hears(d))
      BY <1>1 DEF Due
    <2>3. Due(d) \subseteq DOMAIN texts /\ Due(d)' \subseteq DOMAIN texts
      BY <1>1 DEF Due
    <2>4. Members(heard'[d]) =
              (IF hears(d) THEN Members(heard[d]) \cup {n} ELSE Members(heard[d]))
      BY <1>7
    <2> HIDE DEF hears
    <2>5. CASE hears(d)
      BY <2>1, <2>2, <2>3, <2>4, <2>5
    <2>6. CASE ~hears(d)
      BY <2>1, <2>2, <2>3, <2>4, <2>6
    <2>. QED  BY <2>5, <2>6
  <1>10. HeardInv'
    BY <1>1, <1>7, <1>8, <1>9 DEF HeardInv, Members, Once
  <1>. QED  BY <1>3, <1>5, <1>10

\* Message n is processed now, as one of the connection.
LEMMA ToConnection ==
    ASSUME InboundInv, UNCHANGED <<scriptVars, heard, opened>>, NEW n \in DOMAIN texts,
           ~Processed(n), \A k \in DOMAIN texts : Processed(k)' <=> Processed(k) \/ k = n,
           texts[n].channel \notin known,
           IF IsAuthState(n) /\ BadState(n) THEN reported' = Append(reported, n)
                                            ELSE reported' = reported,
           IF texts[n].type = "SETUP" THEN setups' = setups + 1 ELSE setups' = setups
    PROVE  HeardInv' /\ ReportedInv' /\ EffectsExact'
  <1>1. UNCHANGED <<texts, known, listening>> /\ n \in Nat /\ listening \subseteq known
    BY Positions DEF scriptVars, InboundInv, FlowInv, ScriptInv
  <1>2. \A d \in Channels : Due(d)' = Due(d)
    BY <1>1 DEF Due
  <1>3. HeardInv'
    BY <1>1, <1>2 DEF InboundInv, HeardInv, Once, Members
  <1>4. ReportedInv'
    <2> DEFINE R == {k \in DOMAIN texts : /\ Processed(k) /\ texts[k].channel \notin known
                                          /\ IsAuthState(k) /\ BadState(k)}
               Rnext == {k \in DOMAIN texts : /\ Processed(k)' /\ texts[k].channel \notin known
                                              /\ IsAuthState(k) /\ BadState(k)}
    <2>1. reported \in Seq(Nat) /\ Once(reported) /\ Members(reported) = R /\ n \notin R
      BY DEF InboundInv, ReportedInv, Reportable
    <2>2. CASE IsAuthState(n) /\ BadState(n)
      <3>1. Rnext = R \cup {n}
        BY <2>2
      <3>2. reported' \in Seq(Nat) /\ Once(reported') /\ Members(reported') = Rnext
        BY <1>1, <2>1, <2>2, <3>1, AppendOnce
      <3>. QED  BY <1>1, <3>2 DEF ReportedInv, Reportable, Once, Members, IsAuthState, BadState
    <2>3. CASE ~(IsAuthState(n) /\ BadState(n))
      <3>1. Rnext = R
        BY <2>3
      <3>2. reported' = reported
        BY <2>3
      <3>. QED  BY <1>1, <2>1, <3>1, <3>2 DEF ReportedInv, Reportable, Once, Members, IsAuthState,
                   BadState
    <2>. QED  BY <2>2, <2>3
  <1>5. EffectsExact'
    <2>1. setups = Cardinality(Settled) /\ opened = OpenedBy
      BY DEF InboundInv, EffectsExact
    <2>. OpenedBy' = OpenedBy
      BY <1>1 DEF OpenedBy
    <2>2. CASE texts[n].type = "SETUP"
      <3>1. Settled' = Settled \cup {n} /\ n \notin Settled
        BY <1>1, <2>2 DEF Settled
      <3>2. IsFiniteSet(Settled)
        <4>1. IsFiniteSet(DOMAIN texts)
          BY Positions, FS_Interval DEF InboundInv, FlowInv
        <4>. QED  BY <4>1, FS_Subset DEF Settled
      <3>3. Cardinality(Settled') = Cardinality(Settled) + 1
        BY <3>1, <3>2, FS_AddElement
      <3>. QED  BY <1>1, <2>1, <2>2, <3>3 DEF EffectsExact
    <2>3. CASE texts[n].type # "SETUP"
      <3>1. Settled' = Settled
        BY <1>1, <2>3 DEF Settled
      <3>. QED  BY <1>1, <2>1, <2>3, <3>1 DEF EffectsExact
    <2>. QED  BY <2>2, <2>3
  <1>. QED  BY <1>3, <1>4, <1>5

-----------------------------------------------------------------------------
(* The steps *)

Heeds == TaskInv' /\ HeardInv' /\ ReportedInv' /\ EffectsExact'

LEMMA LoopHeeds == ASSUME InboundInv, ScriptInv', ReadText \/ DataParsed PROVE Heeds
  <1>1. \E new : Takes(new)
    BY ReadTakes, DataTakes DEF InboundInv
  <1>2. UNCHANGED <<scriptVars, heard, reported, setups, opened>>
    BY DEF ReadText, DataParsed
  <1>3. TaskInv' /\ \A n \in DOMAIN texts : Processed(n)' <=> Processed(n)
    BY <1>1, <1>2, TakesSame DEF InboundInv, FlowInv
  <1>. QED  BY <1>2, <1>3, SameProcessed DEF InboundInv, Heeds

LEMMA DataHeeds ==
    ASSUME InboundInv, ScriptInv', [Next]_vars, UNCHANGED inboundVars
    PROVE  Heeds
  <1>1. UNCHANGED <<scriptVars, tasks, read, loop, heard, reported, setups, opened>>
    BY DEF inboundVars, scriptVars
  <1>2. Takes({})
    BY <1>1, OthersTake DEF Takes, InboundInv
  <1>3. TaskInv' /\ \A n \in DOMAIN texts : Processed(n)' <=> Processed(n)
    BY <1>1, <1>2, TakesSame DEF InboundInv, FlowInv
  <1>. QED  BY <1>1, <1>3, SameProcessed DEF InboundInv, Heeds

LEMMA TaskHeeds ==
    ASSUME InboundInv, ScriptInv', NEW n \in DOMAIN texts, Task(n)
    PROVE  Heeds
  <1>1. UNCHANGED <<scriptVars, read, loop>> /\ Next
    BY DEF Task, High, RouteToChannel, RouteToConnection, Publish, Next
  <1>2. \A k \in DOMAIN texts : Taken(k)' <=> Taken(k)
    BY <1>1, OthersTake DEF InboundInv
  <1>3. "High" \in Phases /\ "Route" \in Phases /\ "Publish" \in Phases
    BY DEF Phases
  <1>4. ScriptInv /\ TaskInv /\ HeardInv /\ ReportedInv /\ EffectsExact
    BY DEF InboundInv, FlowInv
  <1>5. 0 \notin known
    BY <1>4, InboundAssumption DEF ScriptInv
  <1>6. CASE High(n)
    <2>1. PICK q \in Phases :
             /\ Run(n, "High", {<<n, q>>}) /\ q # "High"
             /\ q = "Publish" => texts[n].channel \notin known /\ IsAuthState(n) /\ BadState(n)
      BY <1>3, <1>5, <1>6 DEF High
    <2> DEFINE new == {<<n, q>>}
    <2>2. new # {} /\ Run(n, "High", new)
      BY <2>1
    <2>3. TaskInv' /\ \A k \in DOMAIN texts : Processed(k)' <=> Processed(k) \/ (k = n /\ new = {})
      BY <1>1, <1>2, <1>3, <1>4, <2>1, RunProcesses
    <2>4. UNCHANGED <<scriptVars, heard, reported, setups, opened>>
      BY <1>6 DEF High
    <2>. QED  BY <1>4, <2>2, <2>3, <2>4, SameProcessed DEF Heeds
  <1>7. CASE RouteToChannel(n)
    <2>1. Run(n, "Route", {}) /\ UNCHANGED <<scriptVars, reported, setups>> /\ texts[n].channel \in known
      BY <1>7 DEF RouteToChannel
    <2>2. /\ TaskInv' /\ ~Processed(n)
          /\ \A k \in DOMAIN texts : Processed(k)' <=> Processed(k) \/ k = n
      BY <1>1, <1>2, <1>3, <1>4, <2>1, RunProcesses
    <2>3. opened' = IF texts[n].type = "CHANNEL_OPENED" THEN opened \cup {texts[n].channel}
                                                        ELSE opened
      BY <1>7 DEF RouteToChannel
    <2>4. heard' = IF texts[n].channel \in listening /\ texts[n].type # "ERROR"
                   THEN [heard EXCEPT ![texts[n].channel] = Append(@, n)] ELSE heard
      BY <1>7 DEF RouteToChannel, Hear
    <2>. QED  BY <2>1, <2>2, <2>3, <2>4, ToChannel DEF Heeds
  <1>8. CASE RouteToConnection(n)
    <2>1. /\ UNCHANGED <<scriptVars, heard, opened, reported>> /\ texts[n].channel \notin known
          /\ IF texts[n].type = "SETUP" THEN setups' = setups + 1 ELSE setups' = setups
      BY <1>8 DEF RouteToConnection
    <2>2. CASE IsAuthState(n) /\ BadState(n)
      <3> DEFINE new == {<<n, "Publish">>}
      <3>1. Run(n, "Route", new) /\ new # {}
        BY <1>8, <2>2 DEF RouteToConnection
      <3>2. TaskInv' /\ \A k \in DOMAIN texts : Processed(k)' <=> Processed(k) \/ (k = n /\ new = {})
        BY <1>1, <1>2, <1>3, <1>4, <2>1, <2>2, <3>1, RunProcesses
      <3>3. setups' = setups
        BY <2>1, <2>2 DEF IsAuthState
      <3>. QED  BY <1>4, <2>1, <3>1, <3>2, <3>3, SameProcessed DEF Heeds
    <2>3. CASE ~(IsAuthState(n) /\ BadState(n))
      <3>1. Run(n, "Route", {})
        BY <1>8, <2>3 DEF RouteToConnection
      <3>2. /\ TaskInv' /\ ~Processed(n)
            /\ \A k \in DOMAIN texts : Processed(k)' <=> Processed(k) \/ k = n
        BY <1>1, <1>2, <1>3, <1>4, <3>1, RunProcesses
      <3>. QED  BY <2>1, <2>3, <3>2, ToConnection DEF Heeds
    <2>. QED  BY <2>2, <2>3
  <1>9. CASE Publish(n)
    <2>1. /\ Run(n, "Publish", {}) /\ UNCHANGED <<scriptVars, heard, opened, setups>>
          /\ reported' = Append(reported, n)
      BY <1>9 DEF Publish
    <2>2. texts[n].channel \notin known /\ IsAuthState(n) /\ BadState(n)
      BY <1>4, <2>1 DEF TaskInv, Run
    <2>3. /\ TaskInv' /\ ~Processed(n)
          /\ \A k \in DOMAIN texts : Processed(k)' <=> Processed(k) \/ k = n
      BY <1>1, <1>2, <1>3, <1>4, <2>1, RunProcesses
    <2>4. texts[n].type # "SETUP"
      BY <2>2 DEF IsAuthState
    <2>. QED  BY <2>1, <2>2, <2>3, <2>4, ToConnection DEF Heeds
  <1>. QED  BY <1>6, <1>7, <1>8, <1>9 DEF Task

LEMMA InboundStep == InboundInv /\ [Next]_vars => InboundInv'
  <1>. SUFFICES ASSUME InboundInv, [Next]_vars PROVE InboundInv'
    OBVIOUS
  <1>1. DataInv' /\ ScriptInv' /\ StageInv' /\ LoopInv'
    BY DataStep, ScriptStep, StageStep, LoopStep DEF InboundInv, FlowInv
  <1>2. Heeds
    <2>1. CASE UNCHANGED inboundVars
      BY <1>1, <2>1, DataHeeds
    <2>2. CASE ReadText \/ DataParsed
      BY <1>1, <2>2, LoopHeeds
    <2>3. ASSUME NEW n \in DOMAIN texts, Task(n) PROVE Heeds
      BY <1>1, <2>3, TaskHeeds
    <2>4. ParseData \/ Feed \/ UNCHANGED vars => UNCHANGED inboundVars
      BY DEF ParseData, Feed, ParseAgain, ConvertData, vars
    <2>. QED  BY <2>1, <2>2, <2>3, <2>4 DEF Next, ReadLoop
  <1>. QED  BY <1>1, <1>2 DEF Heeds, InboundInv, FlowInv

LEMMA InboundInit == Init => InboundInv
  <1>. SUFFICES ASSUME Init PROVE InboundInv
    OBVIOUS
  <1>1. PICK c \in Cases : /\ texts = c.texts /\ known = c.known /\ listening = c.listening
                           /\ data = c.input.data /\ fields = c.input.fields
    BY DEF Init
  <1>2. /\ read = 0 /\ loop = "Read" /\ tasks = {} /\ opened = {} /\ setups = 0 /\ stage = "Idle"
        /\ heard = [d \in Channels |-> <<>>] /\ reported = <<>> /\ pos = 1 /\ pairs = <<>>
        /\ parsed = <<>> /\ entry = 1 /\ row = 1 /\ out = <<>>
    BY DEF Init
  <1>3. ScriptInv
    <2>1. IsSeq(texts)
      BY <1>1, InboundAssumption DEF IsSeq
    <2>2. read \in 0 .. Len(texts)
      BY <1>2, <2>1, SeqShape
    <2>. QED  BY <1>1, <2>1, <2>2, InboundAssumption DEF ScriptInv, BringsData
  <1>4. StageInv
    BY <1>1, <1>2, InboundAssumption DEF StageInv, Fresh, Stages
  <1>5. LoopInv /\ TaskInv
    BY <1>2 DEF LoopInv, TaskInv
  <1>6. \A n \in DOMAIN texts : ~Processed(n)
    BY <1>2, <1>3, Positions DEF Processed
  <1>7. <<>> \in Seq(Nat) /\ Once(<<>>) /\ Members(<<>>) = {}
    BY DEF Once, Members
  <1>8. HeardInv /\ ReportedInv
    BY <1>2, <1>6, <1>7 DEF HeardInv, ReportedInv, Reportable, Due
  <1>9. EffectsExact
    <2>1. Settled = {}
      BY <1>6 DEF Settled
    <2>2. OpenedBy = {}
      BY <1>6 DEF OpenedBy
    <2>. QED  BY <1>2, <2>1, <2>2, FS_EmptySet DEF EffectsExact
  <1>. QED  BY <1>3, <1>4, <1>5, <1>8, <1>9, InitData DEF InboundInv, FlowInv

LEMMA InboundAlways == Spec => []InboundInv
  BY InboundInit, InboundStep, PTL DEF Spec

-----------------------------------------------------------------------------
(* The types *)

LEMMA SeqOfMembers ==
    ASSUME NEW s \in Seq(Nat), NEW S, Members(s) \subseteq S
    PROVE  s \in Seq(S)
  <1>1. Len(s) \in Nat /\ DOMAIN s = 1 .. Len(s)
    BY LenProperties
  <1>2. s \in [1 .. Len(s) -> S]
    BY <1>1 DEF Members
  <1>. QED  BY <1>1, <1>2, SeqDef

LEMMA InvTypes == InboundInv => TypeOK
  <1>. SUFFICES ASSUME InboundInv PROVE TypeOK
    OBVIOUS
  <1>1. ScriptInv /\ StageInv /\ LoopInv /\ TaskInv /\ HeardInv /\ ReportedInv /\ EffectsExact /\ DataInv
    BY DEF InboundInv, FlowInv
  <1>2. \A n \in DOMAIN texts : Processed(n) => n \in 1 .. read
    BY <1>1, Positions DEF Processed
  <1>3. tasks \subseteq (1 .. read) \X Phases
    <2>1. ASSUME NEW t \in tasks PROVE t \in (1 .. read) \X Phases
      <3>1. PICK n \in DOMAIN texts, p \in Phases : t = <<n, p>>
        BY <1>1, <2>1 DEF TaskInv
      <3>. QED  BY <1>1, <2>1, <3>1 DEF TaskInv, Taken
    <2>. QED  BY <2>1
  <1>4. setups \in 0 .. read
    <2>1. Settled \subseteq 1 .. read
      BY <1>2 DEF Settled
    <2>2. read \in Nat
      BY <1>1, Positions
    <2>3. IsFiniteSet(1 .. read) /\ Cardinality(1 .. read) = read
      BY <2>2, FS_Interval
    <2>4. Cardinality(Settled) \in Nat /\ Cardinality(Settled) <= read
      BY <2>1, <2>3, FS_Subset, FS_CardinalityType
    <2>. QED  BY <1>1, <2>2, <2>4 DEF EffectsExact
  <1>5. heard \in [Channels -> Seq(1 .. read)]
    <2>1. ASSUME NEW c \in Channels PROVE heard[c] \in Seq(1 .. read)
      <3>1. heard[c] \in Seq(Nat) /\ Members(heard[c]) \subseteq 1 .. read
        BY <1>1, <1>2 DEF HeardInv, Due
      <3>. QED  BY <3>1, SeqOfMembers
    <2>. QED  BY <1>1, <2>1 DEF HeardInv
  <1>6. reported \in Seq(1 .. read)
    <2>1. reported \in Seq(Nat) /\ Members(reported) \subseteq 1 .. read
      BY <1>1, <1>2 DEF ReportedInv, Reportable
    <2>. QED  BY <2>1, SeqOfMembers
  <1>7. pos \in 1 .. Len(data) + 2 /\ Len(parsed) <= 2
    <2>1. pos \in Nat \ {0} /\ Len(data) \in Nat /\ pos <= Len(data) + 2
      BY <1>1, SeqShape DEF DataInv, DecodeInv, DecodeTypes
    <2>. QED  BY <1>1, <2>1 DEF DataInv, DecodeInv, DecodeTypes
  <1>8. /\ read \in 0 .. Len(texts) /\ loop \in {"Read", "Parse", "Over"} /\ stage \in Stages
        /\ loop = "Parse" => parsed = <<>> \/ stage = "Parsed"
    BY <1>1 DEF ScriptInv, LoopInv, StageInv
  <1>9. opened \subseteq known
    BY <1>1 DEF EffectsExact, OpenedBy
  <1>. QED  BY <1>1, <1>3, <1>4, <1>5, <1>6, <1>7, <1>8, <1>9 DEF TypeOK

-----------------------------------------------------------------------------
\* What a channel's listener has heard is, at any time, every message for it up
\* to the first text that is no message, each once, but for those whose tasks have
\* still to run.
THEOREM HeardExactlyAlways == Spec => []HeardExactly
  <1>1. InboundInv => HeardExactly
    BY DEF InboundInv, HeardInv, HeardExactly, Due
  <1>. QED  BY <1>1, InboundAlways, PTL

\* However the tasks overtake each other, an unknown AUTH_STATE that is not a
\* channel's is published to the error listeners once, though process_message goes
\* over it twice, and no other AUTH_STATE is.
THEOREM BadStatesOnceAlways == Spec => []BadStatesOnce
  <1>1. InboundInv => BadStatesOnce
    BY DEF InboundInv, ReportedInv, Reportable, BadStatesOnce
  <1>. QED  BY <1>1, InboundAlways, PTL

\* However the tasks overtake each other, the channels that were told they are
\* open are those with a CHANNEL_OPENED that was processed, and each SETUP of the
\* connection is counted once.
THEOREM EffectsExactAlways == Spec => []EffectsExact
  BY InboundAlways, PTL DEF InboundInv

\* Also between the loop, the tasks and the Feed, the second deserialization
\* finds what the first did.
THEOREM InboundParsesAlike == Spec => []SecondParseAgrees
  BY InboundAlways, DecodeInvAgrees, PTL DEF InboundInv, DataInv

\* Also there the Feed's events are the rows that the server wrote.
THEOREM InboundCutsExactly == Spec => []RowsExact
  BY InboundAlways, RowsInvExact, PTL DEF InboundInv, DataInv

\* And the COMPACT pairs are found in order, in both deserializations.
THEOREM InboundPairsFound == Spec => []PairsExact
  BY InboundAlways, PTL DEF InboundInv, DataInv, DecodeInv

\* The variables of the way in keep their types: no task is for a text that has
\* not been read, and none such is heard or reported.
THEOREM InboundTypes == Spec => []TypeOK
  BY InboundAlways, InvTypes, PTL

-----------------------------------------------------------------------------
(* The texts *)

\* The payload of a message holds the fields that were read, all of them good.
LEMMA PayloadFields ==
    ASSUME NEW s, NEW t, Deserializes(s, t)
    PROVE  /\ Deserializes(s, Payload(Deserialize(s, t)))
           /\ Deserialize(s, Payload(Deserialize(s, t))) = Deserialize(s, t)
  <1> DEFINE m == Deserialize(s, t)
             p == Payload(m)
             held == {f \in (s.required \cup s.optional) \cap DOMAIN t.fields :
                         t.fields[f] = "good"}
  <1>1. m = [type |-> t.type, channel |-> t.channel, word |-> t.word, holds |-> held]
    BY DEF Deserialize
  <1>2. p = [form |-> "object", type |-> t.type, channel |-> t.channel,
             fields |-> [f \in held |-> "good"], word |-> t.word]
    BY <1>1 DEF Payload, Text
  <1>3. DOMAIN p.fields = held /\ \A f \in held : p.fields[f] = "good"
    BY <1>2
  <1>4. p.form = "object" /\ p.type = t.type /\ p.channel = t.channel /\ p.word = t.word
    BY <1>2
  <1>5. s.required \subseteq held /\ held \subseteq s.required \cup s.optional
    BY DEF Deserializes
  <1>6. t.type # "none" /\ t.channel # NoChannel
    BY DEF Deserializes
  <1> HIDE DEF p, m
  <1>7. Deserializes(s, p)
    BY <1>3, <1>4, <1>5, <1>6 DEF Deserializes
  <1>8. {f \in (s.required \cup s.optional) \cap DOMAIN p.fields : p.fields[f] = "good"} = held
    BY <1>3, <1>5
  <1>9. Deserialize(s, p) = m
    BY <1>1, <1>4, <1>8 DEF Deserialize
  <1>. QED  BY <1>7, <1>9 DEF p, m

\* The two parsers take the same texts, and make the same of them.
THEOREM ParsersAlike == \A t : ParsersAgree(t)
  <1>1. Parsed = Handled
    BY DEF Parsed, Handled
  <1>. QED  BY <1>1 DEF ParsersAgree, Parses, Handles, ParseMessage, HandleText, Deserializes

\* Whatever text a message came from, a service finds the same message in the
\* payload that it is handed.
THEOREM PayloadsReadBack == \A t : PayloadReadsBack(t)
  <1>. SUFFICES ASSUME NEW t, Handles(t)
                PROVE  /\ Handles(Payload(HandleText(t)))
                       /\ HandleText(Payload(HandleText(t))) = HandleText(t)
    BY DEF PayloadReadsBack
  <1> DEFINE s == Handled[t.type]
             p == Payload(HandleText(t))
  <1>1. Deserializes(s, t) /\ t.type \in DOMAIN Handled /\ HandleText(t) = Deserialize(s, t)
    BY DEF Handles, HandleText
  <1>2. Deserializes(s, p) /\ Deserialize(s, p) = HandleText(t)
    BY <1>1, PayloadFields
  <1>3. p.type = t.type
    BY DEF HandleText, Payload, Text, Deserialize
  <1> HIDE DEF p
  <1>4. Handles(p) /\ HandleText(p) = HandleText(t)
    BY <1>1, <1>2, <1>3 DEF Handles, HandleText, Deserializes
  <1>. QED  BY <1>4 DEF p

-----------------------------------------------------------------------------
(* The data of a FEED_DATA on its way is FeedDecode's *)

\* Data that has not come yet is about to be deserialized.
Decoded == INSTANCE FeedDecode WITH stage <- IF stage = "Idle" THEN "Deserialize" ELSE stage

ImplementsDecode == Decoded!DecodeSpec

\* The operators of the two are the same.
LEMMA SameSchemas == Decoded!EventTypes = EventTypes /\ \A type : Decoded!FeedEvent(type) = FeedEvent(type)
  BY DEF QuoteEvent, Decoded!QuoteEvent, ProfileEvent, Decoded!ProfileEvent, TradeEvent,
         Decoded!TradeEvent, TradeETHEvent, Decoded!TradeETHEvent, CandleEvent,
         Decoded!CandleEvent, SummaryEvent, Decoded!SummaryEvent, TimeAndSaleEvent,
         Decoded!TimeAndSaleEvent, GreeksEvent, Decoded!GreeksEvent, TheoPriceEvent,
         Decoded!TheoPriceEvent, UnderlyingEvent, Decoded!UnderlyingEvent,
         OptionSaleEvent, Decoded!OptionSaleEvent, SeriesEvent, Decoded!SeriesEvent,
         OrderEvent, Decoded!OrderEvent, SpreadOrderEvent, Decoded!SpreadOrderEvent,
         AnalyticOrderEvent, Decoded!AnalyticOrderEvent, ConfigurationEvent,
         Decoded!ConfigurationEvent, MessageEvent, Decoded!MessageEvent, Event,
         Decoded!Event, Schema, Decoded!Schema, WithBools, Decoded!WithBools,
         EventTypes, Decoded!EventTypes, FeedEvent, Decoded!FeedEvent

LEMMA SameKinds ==
    /\ \A v : Decoded!ReadDouble(v) = ReadDouble(v)
    /\ \A d : Decoded!WriteDouble(d) = WriteDouble(d)
    /\ \A s : Decoded!Fields(s) = Fields(s)
    /\ \A s, f, v : Decoded!Fits(s, f, v) <=> Fits(s, f, v)
  <1>1. \A v : Decoded!ReadDouble(v) = ReadDouble(v)
    BY DEF Decoded!ReadDouble, ReadDouble
  <1>2. \A d : Decoded!WriteDouble(d) = WriteDouble(d)
    BY DEF Decoded!WriteDouble, WriteDouble
  <1>3. \A s : Decoded!Fields(s) = Fields(s)
    BY DEF Decoded!Fields, Fields
  <1>4. \A s, f, v : Decoded!Fits(s, f, v) <=> Fits(s, f, v)
    BY <1>1 DEF Decoded!Fits, Fits, Decoded!Strings, Strings
  <1>. QED  BY <1>1, <1>2, <1>3, <1>4

LEMMA SameEvents ==
    /\ \A type, obj : Decoded!Readable(type, obj) <=> Readable(type, obj)
    /\ \A type, obj : Decoded!ReadEvent(type, obj) = ReadEvent(type, obj)
    /\ \A type, event : Decoded!WriteEvent(type, event) = WriteEvent(type, event)
  BY SameSchemas, SameKinds DEF Decoded!Readable, Readable, Decoded!ReadEvent, ReadEvent,
     Decoded!WriteEvent, WriteEvent

LEMMA SameItems ==
    /\ Decoded!NoFields = NoFields
    /\ \A i, t, v, o : Decoded!Item(i, t, v, o) = Item(i, t, v, o)
    /\ \A d, p : Decoded!IsPair(d, p) <=> IsPair(d, p)
    /\ \A d : Decoded!AllEvents(d) <=> AllEvents(d)
    /\ \A d : Decoded!Full(d) = Full(d)
    /\ \A d, ps : Decoded!Compact(d, ps) = Compact(d, ps)
    /\ \A m : Decoded!Serialize(m) = Serialize(m)
  <1>1. Decoded!NoFields = NoFields /\ \A i, t, v, o : Decoded!Item(i, t, v, o) = Item(i, t, v, o)
    BY DEF Decoded!NoFields, NoFields, Decoded!Item, Item
  <1>2. \A d, p : Decoded!IsPair(d, p) <=> IsPair(d, p)
    BY DEF Decoded!IsPair, IsPair
  <1>3. \A d : Decoded!AllEvents(d) <=> AllEvents(d)
    BY SameEvents DEF Decoded!AllEvents, AllEvents
  <1>4. \A d : Decoded!Full(d) = Full(d)
    BY SameEvents DEF Decoded!Full, Full
  <1>5. \A d, ps : Decoded!Compact(d, ps) = Compact(d, ps)
    BY <1>1 DEF Decoded!Compact, Compact
  <1>6. \A m : Decoded!Serialize(m) = Serialize(m)
    BY <1>1, SameEvents DEF Decoded!Serialize, Serialize
  <1>. QED  BY <1>1, <1>2, <1>3, <1>4, <1>5, <1>6

LEMMA SameRows ==
    /\ Decoded!Entries = Entries
    /\ \A e : Decoded!Values(e) = Values(e) /\ Decoded!Names(e) = Names(e)
              /\ Decoded!Rows(e) = Rows(e) /\ (Decoded!Known(e) <=> Known(e))
    /\ \A e, r : Decoded!Object(e, r) = Object(e, r)
  <1>1. Decoded!Entries = Entries
    BY DEF Decoded!Entries, Entries
  <1>2. \A e : Decoded!Values(e) = Values(e) /\ Decoded!Names(e) = Names(e)
    BY <1>1 DEF Decoded!Values, Values, Decoded!Names, Names
  <1>3. \A e : Decoded!Rows(e) = Rows(e) /\ (Decoded!Known(e) <=> Known(e))
    BY <1>1, <1>2 DEF Decoded!Rows, Rows, Decoded!Known, Known
  <1>4. \A e, r : Decoded!Slice(e, r) = Slice(e, r)
    BY <1>2 DEF Decoded!Slice, Slice
  <1>5. \A names, values : Decoded!Fill(names, values) = Fill(names, values)
    BY DEF Decoded!Fill, Fill
  <1>6. \A e, r : Decoded!Object(e, r) = Object(e, r)
    BY <1>2, <1>4, <1>5 DEF Decoded!Object, Object
  <1>. QED  BY <1>1, <1>2, <1>3, <1>6

\* What has become of the data is the same, and no step takes the data back.
LEMMA SameStage ==
    ASSUME DecodeNext
    PROVE  /\ stage # "Idle" /\ stage' # "Idle"
           /\ (IF stage = "Idle" THEN "Deserialize" ELSE stage) = stage
           /\ (IF stage = "Idle" THEN "Deserialize" ELSE stage)' = stage'
  <1>1. stage # "Idle" /\ stage' # "Idle"
    BY DEF DecodeNext, Parse, Recognise, TakePair, SkipItem, EndPairs, HandOn, Convert, TakeFull,
           StartRows, SkipEntry, DivideByZero, DecodeRow, EndRows, AtEntry
  <1>. QED  BY <1>1

LEMMA SameParse == ASSUME Parse PROVE Decoded!Parse
  <1>1. DecodeNext
    BY DEF DecodeNext
  <1>2. Recognise => Decoded!Recognise
    BY <1>1, SameStage, SameItems DEF Recognise, Decoded!Recognise
  <1>3. TakePair => Decoded!TakePair
    BY <1>1, SameStage, SameItems DEF TakePair, Decoded!TakePair
  <1>4. SkipItem => Decoded!SkipItem
    BY <1>1, SameStage, SameItems DEF SkipItem, Decoded!SkipItem
  <1>5. EndPairs => Decoded!EndPairs
    BY <1>1, SameStage, SameItems DEF EndPairs, Decoded!EndPairs
  <1>. QED  BY <1>2, <1>3, <1>4, <1>5 DEF Parse, Decoded!Parse

LEMMA SameHandOn == ASSUME HandOn PROVE Decoded!HandOn
  <1>1. DecodeNext
    BY DEF DecodeNext
  <1>. QED  BY <1>1, SameStage, SameItems DEF HandOn, Decoded!HandOn

LEMMA SameConvert == ASSUME Convert PROVE Decoded!Convert
  <1>1. DecodeNext
    BY DEF DecodeNext
  <1>2. TakeFull => Decoded!TakeFull
    BY <1>1, SameStage, SameRows DEF TakeFull, Decoded!TakeFull
  <1>3. StartRows => Decoded!StartRows
    BY <1>1, SameStage DEF StartRows, Decoded!StartRows
  <1>4. (AtEntry => Decoded!AtEntry) /\ (NextEntry => Decoded!NextEntry)
    BY <1>1, SameStage, SameRows DEF AtEntry, Decoded!AtEntry, NextEntry, Decoded!NextEntry
  <1>5. SkipEntry => Decoded!SkipEntry
    BY <1>1, <1>4, SameStage, SameRows DEF SkipEntry, Decoded!SkipEntry
  <1>6. DivideByZero => Decoded!DivideByZero
    BY <1>1, <1>4, SameStage, SameRows DEF DivideByZero, Decoded!DivideByZero
  <1>7. DecodeRow => Decoded!DecodeRow
    BY <1>1, <1>4, SameStage, SameRows, SameEvents DEF DecodeRow, Decoded!DecodeRow
  <1>8. EndRows => Decoded!EndRows
    BY <1>1, SameStage, SameRows DEF EndRows, Decoded!EndRows
  <1>. QED  BY <1>2, <1>3, <1>5, <1>6, <1>7, <1>8 DEF Convert, Decoded!Convert

LEMMA DecodesInit == Init => Decoded!DecodeInit
  BY InboundAssumption DEF Init, Decoded!DecodeInit

\* Reading a text does nothing to the data, but for the first deserialization
\* of it that may begin.
LEMMA ReadsAside == ASSUME FlowInv, ReadText PROVE UNCHANGED Decoded!decodeVars
  <1>1. UNCHANGED <<fields, data, pos, pairs, parsed, entry, row, out>>
    BY DEF ReadText
  <1>2. stage' = stage \/ (stage = "Idle" /\ stage' = "Deserialize")
    <2>1. CASE BringsData(texts[read'])
      BY <2>1, FirstData DEF ReadText
    <2>2. CASE ~BringsData(texts[read'])
      BY <2>2 DEF ReadText
    <2>. QED  BY <2>1, <2>2
  <1>. QED  BY <1>1, <1>2 DEF Decoded!decodeVars

LEMMA DecodesStep ==
    FlowInv /\ [Next]_vars => [Decoded!DecodeNext]_(Decoded!decodeVars)
  <1>1. ASSUME UNCHANGED decodeVars PROVE UNCHANGED Decoded!decodeVars
    BY <1>1 DEF decodeVars, Decoded!decodeVars
  <1>2. UNCHANGED vars => UNCHANGED decodeVars
    BY DEF vars
  <1>3. DecodeNext => Decoded!DecodeNext
    BY SameParse, SameHandOn, SameConvert DEF DecodeNext, Decoded!DecodeNext
  <1>. QED  BY <1>1, <1>2, <1>3, ReadsAside, StepDecodes

\* Whatever the loop, the tasks and the Feed do in between, the data of the
\* FEED_DATA goes the way that FeedDecode says: parsed by the loop, handed on
\* once, parsed again and made events of.
THEOREM DecodesTheData == Spec => ImplementsDecode
  <1>1. InboundInv => FlowInv
    BY DEF InboundInv
  <1>. QED  BY <1>1, DecodesInit, DecodesStep, InboundAlways, PTL
            DEF Spec, ImplementsDecode, Decoded!DecodeSpec

-----------------------------------------------------------------------------
(* The way in comes to rest *)

\* The phases a task may still have.
From(p) == IF p = "High" THEN Phases ELSE IF p = "Route" THEN {"Route", "Publish"} ELSE {"Publish"}

PhasesDue ==
    {t \in (DOMAIN texts) \X Phases : \E p \in Phases : <<t[1], p>> \in tasks /\ t[2] \in From(p)}

\* What the loop has still to read, and to end the reading of.
TextsLeft == 2 * (Len(texts) - read) + (IF loop = "Parse" THEN 1 ELSE 0)

Ahead == <<TextsLeft, <<Cardinality(PhasesDue), Left>>>>

AllWork == Nat \X (Nat \X Work)

\* First come the texts, then the tasks, then the data.
LessAhead == LexPairOrdering(Below, LexPairOrdering(Below, Less, Nat, Work), Nat, Nat \X Work)

Approaches == <<Ahead', Ahead>> \in LessAhead

LEMMA LessAheadWellFounded == IsWellFoundedOn(LessAhead, AllWork)
  <1>1. IsWellFoundedOn(LexPairOrdering(Below, Less, Nat, Work), Nat \X Work)
    BY BelowWellFounded, LessWellFounded, WFLexPairOrdering
  <1>. QED  BY <1>1, BelowWellFounded, WFLexPairOrdering DEF LessAhead, AllWork

LEMMA LessAheadMeans ==
    ASSUME NEW a \in Nat, NEW b \in Nat, NEW l \in Work, NEW x \in Nat, NEW y \in Nat, NEW m \in Work,
           a < x \/ (a = x /\ b < y) \/ (a = x /\ b = y /\ <<l, m>> \in Less)
    PROVE  << <<a, <<b, l>>>>, <<x, <<y, m>>>> >> \in LessAhead
  BY DEF LessAhead, LexPairOrdering, Below

LEMMA IsDue ==
    ASSUME NEW n \in DOMAIN texts, NEW q \in Phases
    PROVE  <<n, q>> \in PhasesDue <=> \E p \in Phases : <<n, p>> \in tasks /\ q \in From(p)
  BY DEF PhasesDue

LEMMA DueFinite ==
    ASSUME ScriptInv
    PROVE  IsFiniteSet(PhasesDue) /\ Cardinality(PhasesDue) \in Nat
  <1>1. IsFiniteSet(DOMAIN texts)
    BY Positions, FS_Interval
  <1>2. IsFiniteSet(Phases)
    <2>1. IsFiniteSet({"High"}) /\ IsFiniteSet({"Route"}) /\ IsFiniteSet({"Publish"})
      BY FS_Singleton
    <2>2. Phases = ({"High"} \cup {"Route"}) \cup {"Publish"}
      BY DEF Phases
    <2>. QED  BY <2>1, <2>2, FS_Union
  <1>3. IsFiniteSet((DOMAIN texts) \X Phases)
    BY <1>1, <1>2, FS_Product
  <1>. QED  BY <1>3, FS_Subset, FS_CardinalityType DEF PhasesDue

\* A task that has run leaves fewer phases: the one it was in is over.
LEMMA RunLeavesFewer ==
    ASSUME ScriptInv, TaskInv, UNCHANGED texts,
           NEW n \in DOMAIN texts, NEW p \in Phases, NEW new, Run(n, p, new),
           \A t \in new : \E q \in Phases : t = <<n, q>> /\ q # p /\ From(q) \subseteq From(p)
    PROVE  Cardinality(PhasesDue') < Cardinality(PhasesDue)
  <1>1. <<n, p>> \in PhasesDue
    BY IsDue DEF Run, From, Phases
  <1>2. <<n, p>> \notin PhasesDue'
    <2>1. SUFFICES ASSUME NEW q \in Phases, <<n, q>> \in tasks', p \in From(q) PROVE FALSE
      BY DEF PhasesDue
    <2>2. <<n, q>> \in new
      <3>1. q = p => <<n, q>> \in new
        BY <2>1 DEF Run
      <3>2. q # p => <<n, q>> \notin tasks
        BY DEF TaskInv, Run
      <3>. QED  BY <2>1, <3>1, <3>2 DEF Run
    <2>3. q # p /\ From(q) \subseteq From(p)
      BY <2>2
    <2>. QED  BY <2>1, <2>3 DEF From, Phases
  <1>3. ASSUME NEW t \in PhasesDue' PROVE t \in PhasesDue
    <2>1. PICK k \in DOMAIN texts, f \in Phases : t = <<k, f>>
      BY <1>3 DEF PhasesDue
    <2>2. PICK q \in Phases : <<k, q>> \in tasks' /\ f \in From(q)
      BY <1>3, <2>1 DEF PhasesDue
    <2>3. CASE <<k, q>> \in tasks
      BY <2>1, <2>2, <2>3, IsDue
    <2>4. CASE <<k, q>> \in new
      <3>1. k = n /\ f \in From(p) /\ <<n, p>> \in tasks
        BY <2>2, <2>4 DEF Run
      <3>. QED  BY <2>1, <3>1, IsDue
    <2>. QED  BY <2>2, <2>3, <2>4 DEF Run
  <1>4. IsFiniteSet(PhasesDue) /\ IsFiniteSet(PhasesDue')
    BY <1>3, DueFinite, FS_Subset
  <1>5. Cardinality(PhasesDue') <= Cardinality(PhasesDue) /\ Cardinality(PhasesDue') # Cardinality(PhasesDue)
    BY <1>1, <1>2, <1>3, <1>4, FS_Subset
  <1>6. Cardinality(PhasesDue) \in Nat /\ Cardinality(PhasesDue') \in Nat
    BY <1>4, FS_CardinalityType
  <1>. QED  BY <1>5, <1>6

LEMMA TaskLeavesFewer ==
    ASSUME ScriptInv, TaskInv, NEW n \in DOMAIN texts, Task(n)
    PROVE  Cardinality(PhasesDue') < Cardinality(PhasesDue)
  <1>1. UNCHANGED texts
    BY DEF Task, High, RouteToChannel, RouteToConnection, Publish, scriptVars
  <1>2. PICK p, new :
            /\ p \in Phases /\ Run(n, p, new)
            /\ \/ new = {} \/ (p # "Publish" /\ new = {<<n, "Publish">>})
               \/ (p = "High" /\ new = {<<n, "Route">>})
    <2>1. High(n) => Run(n, "High", {<<n, "Publish">>}) \/ Run(n, "High", {<<n, "Route">>})
      BY DEF High
    <2>2. RouteToChannel(n) => Run(n, "Route", {})
      BY DEF RouteToChannel
    <2>3. RouteToConnection(n) => Run(n, "Route", {<<n, "Publish">>}) \/ Run(n, "Route", {})
      BY DEF RouteToConnection
    <2>4. Publish(n) => Run(n, "Publish", {})
      BY DEF Publish
    <2>. QED  BY <2>1, <2>2, <2>3, <2>4 DEF Task, Phases
  <1>3. \A t \in new : \E q \in Phases : t = <<n, q>> /\ q # p /\ From(q) \subseteq From(p)
    BY <1>2 DEF From, Phases
  <1>. QED  BY <1>1, <1>2, <1>3, RunLeavesFewer

LEMMA AheadTypes == InboundInv => TextsLeft \in Nat /\ Cardinality(PhasesDue) \in Nat /\ Left \in Work
  <1>. SUFFICES ASSUME InboundInv PROVE TextsLeft \in Nat /\ Cardinality(PhasesDue) \in Nat /\ Left \in Work
    OBVIOUS
  <1>1. ScriptInv /\ DecodeInv /\ RowsInv
    BY DEF InboundInv, FlowInv, DataInv
  <1>2. TextsLeft \in Nat
    BY <1>1, Positions DEF TextsLeft
  <1>3. Left \in Work
    BY <1>1, LeftTypes DEF Left, Work
  <1>. QED  BY <1>1, <1>2, <1>3, DueFinite

LEMMA AheadTypesNext ==
    (InboundInv => TextsLeft \in Nat /\ Cardinality(PhasesDue) \in Nat /\ Left \in Work)'
  BY AheadTypes, PTL

LEMMA StepApproaches == ASSUME InboundInv, Next PROVE Approaches
  <1>1. InboundInv'
    BY InboundStep
  <1>2. TextsLeft \in Nat /\ Cardinality(PhasesDue) \in Nat /\ Left \in Work
    BY AheadTypes
  <1>3. TextsLeft' \in Nat /\ Cardinality(PhasesDue') \in Nat /\ Left' \in Work
    BY <1>1, AheadTypesNext
  <1>4. ScriptInv /\ TaskInv /\ DecodeInv /\ RowsInv /\ read \in Nat /\ Len(texts) \in Nat
    BY Positions DEF InboundInv, FlowInv, DataInv
  <1>5. ASSUME ReadText \/ DataParsed PROVE TextsLeft' < TextsLeft
    <2>1. CASE ReadText
      <3>1. read' = read + 1 /\ loop = "Read" /\ texts' = texts
        BY <2>1 DEF ReadText, scriptVars
      <3>. QED  BY <1>4, <3>1 DEF TextsLeft
    <2>2. CASE DataParsed
      <3>1. read' = read /\ loop = "Parse" /\ loop' # "Parse" /\ texts' = texts
        BY <2>2 DEF DataParsed, scriptVars
      <3>. QED  BY <1>4, <3>1 DEF TextsLeft
    <2>. QED  BY <1>5, <2>1, <2>2
  <1>6. ASSUME NEW n \in DOMAIN texts, Task(n)
        PROVE  TextsLeft' = TextsLeft /\ Cardinality(PhasesDue') < Cardinality(PhasesDue)
    <2>1. UNCHANGED <<texts, read, loop>>
      BY <1>6 DEF Task, High, RouteToChannel, RouteToConnection, Publish, scriptVars
    <2>. QED  BY <1>4, <1>6, <2>1, TaskLeavesFewer DEF TextsLeft
  <1>7. ASSUME ParseData \/ Feed
        PROVE  /\ TextsLeft' = TextsLeft /\ Cardinality(PhasesDue') = Cardinality(PhasesDue)
               /\ <<Left', Left>> \in Less
    <2>1. UNCHANGED inboundVars /\ DecodeNext
      BY <1>7 DEF ParseData, Feed, ParseAgain, ConvertData, DecodeNext
    <2>2. UNCHANGED <<texts, read, loop, tasks>>
      BY <2>1 DEF inboundVars
    <2>3. TextsLeft' = TextsLeft /\ PhasesDue' = PhasesDue
      BY <2>2 DEF TextsLeft, PhasesDue
    <2>4. Shortens
      BY <1>4, <2>1, StepShortens
    <2>. QED  BY <2>3, <2>4 DEF Shortens
  <1>. QED  BY <1>2, <1>3, <1>5, <1>6, <1>7, LessAheadMeans DEF Next, ReadLoop, Ahead, Approaches

\* However the loop, the tasks and the Feed interleave, no run of the way in is
\* endless: each step leaves less ahead, and there cannot be less for ever.
THEOREM ComesToRest ==
    /\ IsWellFoundedOn(LessAhead, AllWork)
    /\ Spec => [](Ahead \in AllWork) /\ [][Approaches]_vars
  <1>1. InboundInv => Ahead \in AllWork
    BY AheadTypes DEF Ahead, AllWork
  <1>2. InboundInv /\ [Next]_vars => [Approaches]_vars
    BY StepApproaches
  <1>3. Spec => [](Ahead \in AllWork) /\ [][Approaches]_vars
    BY <1>1, <1>2, InboundAlways, PTL DEF Spec
  <1>. QED  BY <1>3, LessAheadWellFounded
=============================================================================
