----------------------------- MODULE FeedDecode -----------------------------
(***************************************************************************)
(* What becomes of the data of one FEED_DATA message                       *)
(* (src/src/feed/messages.rs): the connector deserializes it, the client   *)
(* serializes it for the channel's listeners, the Feed's listener          *)
(* deserializes it once more, and compact_to_full makes events of it with  *)
(* the fields the Feed is configured with.                                 *)
(*                                                                         *)
(* data is a JSON array of items.  The loops over it keep positions, so    *)
(* that a pair, and an event, can be told by where it was written.         *)
(***************************************************************************)
EXTENDS Integers, Sequences, FiniteSets, FeedEvents

CONSTANT Inputs   \* bound: the arrays the server sends, and the fields the Feed knows

\* Arrays are finite, those of the values too, and so are the lists of fields.
ASSUME DecodeAssumption ==
    \A in \in Inputs :
        /\ in.data \in Seq({in.data[p] : p \in DOMAIN in.data})
        /\ \A p \in DOMAIN in.data : in.data[p].values \in Seq(ValueKinds)
        /\ \A t \in DOMAIN in.fields : in.fields[t] \in Seq(STRING)

NoFields == [f \in {} |-> "null"]

\* An item is a string, an array of values, an object or something else.  An
\* object's eventType is its type; "none" where it has none.  (serde takes an
\* array of tag and fields for an event as well: no bound payload has one.)
Item(is, type, values, object) ==
    [is |-> is, type |-> type, values |-> values, object |-> object]

VARIABLES fields,   \* config.event_fields: the field names of each type
          data,     \* the array that is being deserialized
          stage,    \* where it is
          pos,      \* the loop's index into data
          pairs,    \* where the pairs found so far begin
          parsed,   \* what each deserialization has made of the data
          entry,    \* compact_to_full's index into the pairs
          row,      \* its event_idx, from 1
          out       \* the events so far, with the entry and row of each

decodeVars == <<fields, data, stage, pos, pairs, parsed, entry, row, out>>

Stages == {"Idle", "Deserialize", "Pairs", "Parsed", "Rows", "Done", "Failed", "Panicked"}

-----------------------------------------------------------------------------
(* Deserialize for FeedData *)

IsPair(d, p) == p < Len(d) /\ d[p].is = "string" /\ d[p + 1].is = "array"

\* Every item is an object that can be read as an event of its type.
AllEvents(d) == \A p \in DOMAIN d : d[p].is = "object" /\ Readable(d[p].type, d[p].object)

Full(d) ==
    [format |-> "Full",
     items |-> [p \in DOMAIN d |-> [type |-> d[p].type, values |-> <<>>,
                                    event |-> ReadEvent(d[p].type, d[p].object)]]]

Compact(d, ps) ==
    [format |-> "Compact",
     items |-> [k \in DOMAIN ps |-> [type |-> d[ps[k]].type, values |-> d[ps[k] + 1].values,
                                     event |-> NoFields]]]

\* The first two items tell the format.  One object that is no event fails the
\* whole of a FULL array.
Recognise ==
    /\ stage = "Deserialize"
    /\ \/ IsPair(data, 1) /\ stage' = "Pairs" /\ UNCHANGED parsed
       \/ ~IsPair(data, 1) /\ AllEvents(data)
             /\ stage' = "Parsed" /\ parsed' = Append(parsed, Full(data))
       \/ ~IsPair(data, 1) /\ ~AllEvents(data) /\ stage' = "Failed" /\ UNCHANGED parsed
    /\ UNCHANGED <<fields, data, pos, pairs, entry, row, out>>

TakePair ==
    /\ stage = "Pairs" /\ IsPair(data, pos)
    /\ pairs' = Append(pairs, pos)
    /\ pos' = pos + 2
    /\ UNCHANGED <<fields, data, stage, parsed, entry, row, out>>

\* Mutant: an item that begins no pair is passed over with the one after it.
SkipTwo ==
    /\ stage = "Pairs" /\ pos < Len(data) /\ ~IsPair(data, pos)
    /\ pos' = pos + 2
    /\ UNCHANGED <<fields, data, stage, pairs, parsed, entry, row, out>>

\* Mutant: the index is not moved.
SkipNothing ==
    /\ stage = "Pairs" /\ pos < Len(data) /\ ~IsPair(data, pos)
    /\ UNCHANGED decodeVars

SkipItem ==
    /\ stage = "Pairs" /\ pos < Len(data) /\ ~IsPair(data, pos)
    /\ pos' = pos + 1
    /\ UNCHANGED <<fields, data, stage, pairs, parsed, entry, row, out>>

EndPairs ==
    /\ stage = "Pairs" /\ pos >= Len(data)
    /\ stage' = "Parsed"
    /\ parsed' = Append(parsed, Compact(data, pairs))
    /\ UNCHANGED <<fields, data, pos, pairs, entry, row, out>>

-----------------------------------------------------------------------------
(* Serialize for FeedData, and the second deserialization. *)

\* Pairs are laid flat, events become objects again.
Serialize(m) ==
    IF m.format = "Compact"
    THEN [p \in 1 .. 2 * Len(m.items) |->
            IF p % 2 = 1 THEN Item("string", m.items[(p + 1) \div 2].type, <<>>, NoFields)
                         ELSE Item("array", "none", m.items[p \div 2].values, NoFields)]
    ELSE [p \in DOMAIN m.items |->
            Item("object", m.items[p].type, <<>>, WriteEvent(m.items[p].type, m.items[p].event))]

\* The payload of the message reaches the listener of the Feed.
HandOn ==
    /\ stage = "Parsed" /\ Len(parsed) = 1
    /\ stage' = "Deserialize"
    /\ data' = Serialize(parsed[1])
    /\ pos' = 1 /\ pairs' = <<>>
    /\ UNCHANGED <<fields, parsed, entry, row, out>>

-----------------------------------------------------------------------------
(* compact_to_full *)

Entries == parsed[2].items
Values(e) == Entries[e].values
Known(e) == Entries[e].type \in DOMAIN fields
Names(e) == fields[Entries[e].type]

\* How many events an entry is cut into.
Rows(e) == Len(Values(e)) \div Len(Names(e))

\* Mutant: the fields are counted from 0 once for the whole array.
SliceFromStart(e, r) ==
    [j \in 1 .. (IF Len(Names(e)) < Len(Values(e)) THEN Len(Names(e)) ELSE Len(Values(e))) |->
        Values(e)[j]]

\* The values of one event: a slice, cut short where the values end.
Slice(e, r) ==
    LET start == (r - 1) * Len(Names(e))
        end   == IF start + Len(Names(e)) < Len(Values(e)) THEN start + Len(Names(e))
                                                           ELSE Len(Values(e))
    IN  [j \in 1 .. end - start |-> Values(e)[start + j]]

\* The object that is read as an event.  eventType is the entry's, and a field
\* named twice gets the later value.
Fill(names, values) ==
    LET filled == {j \in DOMAIN names : j <= Len(values) /\ names[j] # "eventType"}
        last(f) == CHOOSE j \in filled : /\ names[j] = f
                                         /\ \A k \in filled : names[k] = f => k <= j
    IN  [f \in {names[j] : j \in filled} |-> values[last(f)]]

Object(e, r) == Fill(Names(e), Slice(e, r))

\* FULL data needs no fields.
TakeFull ==
    /\ stage = "Parsed" /\ Len(parsed) = 2 /\ parsed[2].format = "Full"
    /\ stage' = "Done"
    /\ out' = [k \in DOMAIN Entries |-> [entry |-> k, row |-> 1, type |-> Entries[k].type,
                                         event |-> Entries[k].event]]
    /\ UNCHANGED <<fields, data, pos, pairs, parsed, entry, row>>

StartRows ==
    /\ stage = "Parsed" /\ Len(parsed) = 2 /\ parsed[2].format = "Compact"
    /\ stage' = "Rows"
    /\ UNCHANGED <<fields, data, pos, pairs, parsed, entry, row, out>>

AtEntry == stage = "Rows" /\ entry <= Len(Entries)

NextEntry == entry' = entry + 1 /\ row' = 1

\* A type without known fields, or fewer values than one event needs.
SkipEntry ==
    /\ AtEntry
    /\ \/ ~Known(entry)
       \/ Known(entry) /\ Len(Names(entry)) > 0 /\ Rows(entry) = 0 /\ Values(entry) # <<>>
    /\ NextEntry
    /\ UNCHANGED <<fields, data, stage, pos, pairs, parsed, out>>

\* % and / by the number of fields: with no fields the task panics.
DivideByZero ==
    /\ AtEntry /\ Known(entry) /\ Len(Names(entry)) = 0
    /\ stage' = "Panicked"
    /\ UNCHANGED <<fields, data, pos, pairs, parsed, entry, row, out>>

\* One event, which is left out if it cannot be read.  An entry without values
\* is tried once, with an object that has only its type.
DecodeRow ==
    /\ AtEntry /\ Known(entry) /\ Len(Names(entry)) > 0
    /\ Rows(entry) > 0 \/ Values(entry) = <<>>
    /\ LET type == Entries[entry].type IN
          out' = IF Readable(type, Object(entry, row))
                 THEN Append(out, [entry |-> entry, row |-> row, type |-> type,
                                   event |-> ReadEvent(type, Object(entry, row))])
                 ELSE out
    /\ IF row < Rows(entry) THEN row' = row + 1 /\ UNCHANGED entry ELSE NextEntry
    /\ UNCHANGED <<fields, data, stage, pos, pairs, parsed>>

EndRows ==
    /\ stage = "Rows" /\ entry > Len(Entries)
    /\ stage' = "Done"
    /\ UNCHANGED <<fields, data, pos, pairs, parsed, entry, row, out>>

-----------------------------------------------------------------------------
DecodeInit ==
    /\ \E in \in Inputs : data = in.data /\ fields = in.fields
    /\ stage = "Deserialize"
    /\ pos = 1 /\ pairs = <<>> /\ parsed = <<>>
    /\ entry = 1 /\ row = 1 /\ out = <<>>

Parse == Recognise \/ TakePair \/ SkipItem \/ EndPairs

Convert == TakeFull \/ StartRows \/ SkipEntry \/ DivideByZero \/ DecodeRow \/ EndRows

DecodeNext == Parse \/ HandOn \/ Convert

DecodeSpec == DecodeInit /\ [][DecodeNext]_decodeVars

-----------------------------------------------------------------------------
\* The loop finds every pair and makes none up: whatever lies between them, a
\* string is taken with the array that follows it, in order and once.
PairsExact ==
    /\ \A k \in DOMAIN pairs : IsPair(data, pairs[k]) /\ pairs[k] < pos
    /\ \A k, l \in DOMAIN pairs : k < l => pairs[k] < pairs[l]
    /\ \A p \in 1 .. pos - 1 : IsPair(data, p) => \E k \in DOMAIN pairs : pairs[k] = p

\* What the connector accepted the Feed can parse again, and it finds the same
\* in it: no pair, value, NaN or missing field is lost in between.
SecondParseAgrees ==
    /\ stage = "Failed" => parsed = <<>>
    /\ Len(parsed) = 2 => parsed[2] = parsed[1]

\* The object of row r of entry e as the server wrote it, n values to a row.
Written(e, r) ==
    Fill(Names(e), [j \in 1 .. Len(Names(e)) |-> Values(e)[(r - 1) * Len(Names(e)) + j]])

Passed(e, r) == e < entry \/ (e = entry /\ r < row)

WholeRow(e, r) == /\ e \in DOMAIN Entries /\ Known(e) /\ Len(Names(e)) > 0
                  /\ r \in 1 .. Rows(e)

\* The events are those rows of the server's that can be read, each with the
\* values of its own row, in order and once: a row or an entry that makes no
\* sense, or a type without known fields, costs nothing but itself.
RowsExact ==
    (stage \in {"Rows", "Panicked"} \/ (stage = "Done" /\ parsed[2].format = "Compact")) =>
        /\ \A k \in DOMAIN out :
              /\ WholeRow(out[k].entry, out[k].row) /\ Passed(out[k].entry, out[k].row)
              /\ out[k].type = Entries[out[k].entry].type
              /\ Readable(out[k].type, Written(out[k].entry, out[k].row))
              /\ out[k].event = ReadEvent(out[k].type, Written(out[k].entry, out[k].row))
        /\ \A k, l \in DOMAIN out : k < l =>
              \/ out[k].entry < out[l].entry
              \/ (out[k].entry = out[l].entry /\ out[k].row < out[l].row)
        /\ \A e \in DOMAIN Entries : \A r \in 1 .. Len(Values(e)) :
              /\ WholeRow(e, r) /\ Passed(e, r) /\ Readable(Entries[e].type, Written(e, r))
              => \E k \in DOMAIN out : out[k].entry = e /\ out[k].row = r
=============================================================================
