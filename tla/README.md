# dxlink-rs in TLA+

This directory is the verification project of the dxLink client library in `src/`: TLA+
modules for its components, TLC configurations that check them on small instances, and
proofs, checked by TLAPS, of what holds on every instance. `PROJECT.json` lists the runs,
the source lines of every definition, the hazards, the theorems and the findings.

## The system

The library is a client of the dxLink market data protocol: JSON messages over one
WebSocket, multiplexed into channels, each of which serves a feed or a depth of market
(DOM). It is written with tokio; nearly every callback spawns a task.

| Component | State it keeps | Operations | Where it is hard | What makes it correct |
|---|---|---|---|---|
| Channel (`websocket_client/channel.rs`) | state, listeners, sending half of a queue of 32 messages | send, error, close, request, process_status_*, listeners | check, 30 s wait for the queue, act; concurrent calls; re-entrant listeners | the state goes forwards; answers are true; closed means the server was told |
| Client (`websocket_client/client.rs`) | connection_state, auth_state, the connector in its slot, channels map, pending opens, reconnect_attempts, timers | connect, disconnect, send_auth_message, open_channel, transport callbacks, process_message, reconnect | everything is a spawned task; two steps under two locks; timeouts; a link that fails while it is replaced | no channel opened without the server; nobody authorized without the server; no stopped connector in the slot; open_channel returns |
| Connector (`websocket_client/connector.rs`) | write half, read half, is_available, listeners | start, stop, send_message, handle_connection | overlapping start and stop; is_available with four writers; the read lock held for as long as the link lives | listeners hear open, messages, close of one connection after the other; nothing after Close |
| DOM service (`dom/dom.rs`) | DomState under an RwLock, sender of a queue | initialize, handle_config, handle_snapshot, get_state | the write lock held across an await; half-done initialize; sorting and cutting | a readable book, no deeper than the limit, for one channel; setups reach the server in order |
| Feed service (`feed/feed.rs`) | accepted configuration, subscriptions, broadcast of data | configure, add/remove/clear subscriptions, data listeners | configuration and data handled by spawned tasks; a change of the map whose message fails or is dropped; listeners that lag | server and feed agree on what was sent; data is read as it was written; listeners hear no gaps |
| Feed messages and events (`feed/messages.rs`, `feed/events.rs`) | none | FULL and COMPACT decoding, the fields of 17 events, JSONDouble | the data is deserialized, serialized and deserialized again; a loop that steps by one or two; a flat array cut by the number of fields | both passes find the same; every pair is found; values are cut where the server cut them |
| Messages (`websocket_client/messages.rs`, `dom/messages.rs`) | none | the structs of what the server sends, two parsers with a table each | a text that fits no struct ends the connection | both parsers take the same texts; a payload reads back as its message |
| Configuration, errors, core types, lib, wasm | none, or constants | data types | none | not modelled, but for the enumerations the other modules use |
| Scheduler (`core/scheduler.rs`) | map of timers | schedule, cancel, clear | | not compiled: `core/mod.rs` does not declare it |

How they interact: `connect` makes a connector with three callbacks (open, message, close).
Each callback spawns a task that runs a method of the client. `open_channel` makes a channel
and a forwarder task that empties the channel's queue into whatever connector is in the slot.
The read loop hands every message to `process_message`, which opens channels, calls their
message listeners, and handles SETUP and AUTH_STATE. Feed and DOM services use a channel, or
a sender, of the application's.

## The modules

- `ChannelState`: the three states and `set_state`'s table, used by `Channel` and `Client`.
- `Channel`: one channel, its callers, its queue and the forwarder. A call is a state machine
  (`pc`): the checks before the first await are one step with the start of the call, the wait for the
  queue ends by `Enqueue`, `GiveUp` (30 s) or `FailSend`, and `close` goes on to
  `SetClosed`, `ClearMessages`, `ClearStates`, one step for each lock it takes.
  `set_state` calls the listeners while it holds the state's lock, so the change and the
  calls are one step.
- `ChannelLifecycle`: what a channel promises, in two variables. `Channel` implements it
  (`ImplementsLifecycle`, with `life <- state` and `cancelled <- ` "a CANCEL was accepted").
- `Client`: the client over several links. The bag `pool` holds the tasks that were spawned and
  have not finished; a task with an await between two accesses to shared state is a chain of
  phases. The application's connect or disconnect (`user`) and every open_channel call
  (`opener`) are state machines too. The application closes a channel it was given, and may call
  its `request()`, which asks neither for a connection nor for authorization (`RequestChannel`, and
  `Forward` for the task that empties the queue). Links fail (`Break`, `EndRead`), and their peers may stop
  reading (`Stall`), so that a write waits with the lock of the slot (`held`), for a while
  (`Resume`) or for good. The server answers what it has received in any order (`Answer`), says what it thinks
  of the user before it is asked (`Announce`) and closes channels (`Revoke`). The lock of the
  channels map is held by the AUTHORIZED task from one CHANNEL_REQUEST to the next (`MapFree`).
- `Session`: what a client promises of its dealings with the server, in nine variables: SETUP before
  connected, AUTHORIZED before authorized and before any request but those the application makes by
  calling `request()` itself (`Demand`), the request before the server's opening, that before an open
  channel; only the application closes a channel, once it has been given it. `Client` implements it
  (`ImplementsSession`, with `state <- chan` and the rest read off the states, the frames that were sent and
  the server's answers). That the server closes none is what the code does; the documentation has
  it otherwise (`client_close` below).
- `Connector`: start, stop, send_message and the handlers, one step from await to await, with
  the lock of the read half.
- `ConnectorEvents`: the order of events a connector's listeners may rely on. `Connector`
  implements it (`ImplementsEvents`, `log <- log`).
- `Dom`: the DOM service. The book is built by the code's own steps: validate, sort (stably),
  cut. An entry is its price, 0 stands for one that is refused. The time of a snapshot is any
  number, 0 included, since nothing checks it.
- `FeedData`: a feed's incoming half. Each FEED_CONFIG and FEED_DATA is a task in `tasks`, from the server's
  writing on: it stands for the message on its way, for the client's task that processes it and may
  be overtaken already, and for the task the Feed's listener spawns. Taking
  `config`'s lock is one step, sending each event on the broadcast channel another. An event
  carries the layout (the fields of its type) it was written with and the one it was read with.
- `Feed`: extends `FeedData` with the calls, the queue of events, the loop that handles one at a time
  (`Handle`, then `CheckOpened` and `Accept` or `SendFails` for its message), the channel's states,
  and what the server holds once the messages on the way have arrived (`Leaves`). The server may forget it all
  (`ServerForgets`): a lost link takes the server's channels with it, and a CHANNEL_CLOSED one of
  them, while the client's channel stays Opened.
- `FeedEvents`: the structs of the events as schemas (which fields are strings, longs, doubles,
  flags or anything, and which one is required), JSONDouble, and reading and writing one event.
- `FeedDecode`: the data of one FEED_DATA through both deserializations (`Recognise`, then the loop
  over COMPACT data: `TakePair`, `SkipItem`, `EndPairs`), the serialization between them
  (`HandOn`) and `compact_to_full` (`StartRows` to `EndRows`, or `DivideByZero`).
- `Messages`: the structs of the server's messages, `handle_message`'s table and `parse_message`'s.
- `Inbound`: composes the two. The read loop takes the server's texts one by one (`ReadText`;
  `ParseData` and `DataParsed` for FEED_DATA), spawns a task for each message, which goes
  through `process_message`: `High` for an AUTH_STATE of the connection, then `RouteToChannel` or
  `RouteToConnection`, and `Publish` for the error listeners. The Feed's listener parses
  within the call (`ParseAgain`), while the client holds the channels map (`MapLocked`).
- `MC*`: small instances. `*_proofs`: the theorems about the module of that name;
  `Feed_proofs` extends `FeedData_proofs`, and `Inbound_proofs` extends `FeedDecode_proofs`.

What each module leaves to another: `Client` has what a message does to the client's state and
takes it that a message is there; `Inbound` has how messages come to be and who hears of them and
takes the channels and listeners as given; `Channel` has how those come and go; `Connector`
has what becomes of the socket; `Feed` has events as the layouts they were written and read in, and
`FeedDecode` their values.

### Faithfulness: what was abstracted

- A step covers everything between two awaits, and sometimes two neighbouring lock sections
  of one task when they touch different variables and every other step touches only one of them, so
  that the order of the sections cannot be seen: `Teardown` (timer, slot, counter),
  `CloseRedial` (slot, counter, channels; telling a channel that it is requested never changes it, as
  `ChannelsMoveForward`, which `Client_proofs` proves, says), `SendAuth` (deadline, timer task, frame) and
  `AskRequested`, whose frames go out under the lock of the channels map.
- The temporary lock guards of `a.lock().await && b.lock().await` are released after each
  operand: `OpenCheck` is therefore two steps. The guard in an `if let` lives to the end of its body:
  sending or stopping under the slot's lock is one step.
- A `Client` link stands for a socket, its connector and its read loop; `Connector` shows how
  that connector behaves. `Transmit` drops frames for an empty slot or an ended read loop and answers Ok,
  as the code does.
- Messages of one link are processed by tasks of their own, hence in any order, though the read loop
  delivers them in order. ERROR messages change nothing: the downcast to `ErrorMessage` is asked of
  a boxed `MessageType` and fails. AUTH_STATE is processed twice for one message, as in the code.
- A peer that reads no more is `stalled`; the first writer that notices (of any frame, a keepalive at
  the latest) waits with the slot's lock (`Stick`), and everything that needs the slot waits
  behind it. Once the peer reads again, or the
  write fails, the lock is free (`Reads`).
- The feed's channel is reduced to its state, a queue with a bound and a receiver; `Channel` shows
  the rest. The channel is the service's own, so that nobody else calls its `request` or `close`. What is on
  the wire may vanish (`Vanish`: the client has no connector and drops the frame, the link is lost with
  it, or the server has no such channel). `lost` has the slots (a subscription, or the
  configuration) in which the server is behind since: those whose last message failed or vanished, and those
  that a forgetful server had and has no more. A layout has at least one field; with
  none `compact_to_full` divides by zero and the data task panics. Of a message misread with
  another layout, any part may fail to parse and be skipped.
- A JSON value is its kind, and strings are told apart only as JSONDouble does; an event is a
  function from field names to kinds. Whether a number fits 64 bits is not asked. A text is
  a record: what it is to JSON, its type, its channel, and for each field whether it is of the kind the
  struct wants. `Handles` and `Parses` are the checks of the two parsers in their own order; that
  they agree (`ParsersAgree`, `PayloadReadsBack`) is proved for every text, and is an assumption of
  `MCInbound`, which TLC evaluates on all texts with any fields of their struct.
- serde also takes an array of a tag and fields for an event. No data the server sends has that form, and
  it is left out. An `eventType` among the configured fields is the tag, as in the code.
- A case of `Inbound` has one FEED_DATA at most, since it has one array of data. What an `ERROR` does is
  what `RouteToChannel` says: nothing.
- `reported` in `Inbound` is what `process_message` publishes to the error listeners.
  `publish_error` has two more callers, the close callback (`client.rs:381`) and the authorization's
  timer (`client.rs:738`); `Client` has both, without the listeners, which only `Inbound` has.
- Calls of the DOM service that are refused before they change anything have no step. An `initialize`
  whose future is dropped while it waits for the queue is not modelled.

Bounds: the number of callers, calls, links, channels, failures and messages, all constants
named in the modules (`Max...`, `Budgets`, `Inputs`, `Cases`). `FewTasks` (three unfinished tasks
at most), a constraint, bounds the behaviours of `client` and `client_auth_here` in which a
link fails, which would otherwise multiply them. TLC does not look beyond a constraint, so
for those behaviours `OpenReturns` is checked within it only; in the others of `client` nothing is cut off.

## The runs

| Run | Instance | What it shows |
|---|---|---|
| `channel` | 3 callers, one call each, queue of 1, one listener of each kind | lifecycle refinement, true answers, no data before opening, listeners told and emptied, every call returns |
| `client` | five budgets (`CheckBudgets`): `Opens`, 1 link, 1 open_channel, a `request()`, an AUTH_STATE nobody asked for, a peer that stops reading; `Moves`, 2 endpoints; `Returns`, 2 links to one, 1 disconnect; `Loses`, 1 failure, 1 authorization, 1 channel; `Leaves`, 1 failure, 1 authorization with every AUTH_STATE, 1 disconnect | opened only by the server, no lost wakeup, no request before authorization that the application did not make itself, the slot never holds a stopped connector, Connected only after a SETUP went out, nobody authorized without the server, the refinement of `Session` through reconnects too, open_channel returns unless the peer stops reading for good |
| `connector` | 2 callers, 3 calls, 2 sockets | the refinement of `ConnectorEvents`, nothing after Close, is_available is not left on, every end is reported |
| `dom` | 2 callers, 4 calls, prices 1 and 2, books of up to 2 entries a side, limits 0, 1 and 2, snapshots at times 0 and 1 | a readable book, the best part of the last snapshot and as deep as the limit lets it be, one channel, setups in order with no snapshot between an initialize and its setup |
| `feed` | 2 subscriptions, 2 configurations, 2 event types, 1 listener, queues of 1; 3 calls, or 3 messages from the server, or one of each (`Budgets`) | server and feed agree but for what was lost on the way or forgotten by the server, data is read exactly outside races, no gaps, every event is handled |
| `inbound` | all sequences of up to 2 texts of 23 and of up to 3 of 9, with and without a channel and its listener; and one FEED_DATA with every array of up to 2 items of 6 kinds, or of a pair and up to 4 more, with 5 layouts for 25 pairs of arrays, and with every field of every event holding every kind of value | every message is heard once, unknown AUTH_STATEs are reported once and no other is, both deserializations agree, all pairs are found, events are the server's rows, everything is dealt with |

Why these bounds suffice. The channel's races need two calls that compete for one place in the
queue and one that changes the state under them. The client's need the callbacks of two links,
or of one link and its failure (whose close callback is called twice), against one call of each kind;
a blocked peer needs one link and one channel, whose opening waits behind it.
The connector's need a restart, hence two sockets, and two callers. Equal prices, both orders and a
refused entry fit in books of two.
A feed's call needs one before it and one that is sent after it failed, a race two FEED_CONFIGs and a
FEED_DATA; the two halves of a feed share only the channel's state, so one of each is enough
for their interplay.
The way in needs two messages that overtake each other and a text that ends the loop behind
or between them, hence three texts. Its loop over COMPACT data looks two items ahead, so that a pair, something
in between and the pieces of another are enough; a row is cut right if it is in the second
row and the second entry too, with layouts that divide the values, leave a rest, repeat a field or are empty.

Deadlock is checked in `channel`. The other runs say `CHECK_DEADLOCK FALSE`: the
application makes a bounded number of calls, and once they have returned the system may stop.

Fairness is the runtime's only: tokio polls every task and timers fire, so the steps of calls,
spawned tasks and handlers are weakly fair; in `Inbound` the read loop, the tasks and the Feed, once
the server has sent what it sends. Nothing is assumed of the application, the server, the
network, or the forwarder, whose socket write may block for ever. No write has a timeout: in `Client` one to
a peer that does not read is not enabled, so that fairness says nothing of it, and so is whatever waits
behind its locks. Hence `OpenReturns` makes an exception: every open_channel returns, unless the peer of the
link in the slot stops reading for good. Its 5 s timeout is only around the wait for the answer,
so the call is then stuck before it, at the slot or at the channels map.

Every property of a passing run has a mutant, in the module right before the definition it
replaces: a plausible slip in that code, under which TLC finds the property violated.

### What the code does not do

Six runs are expected to end in a violation. Each states what a comment or the documentation
says.

- `client_old_link` (`core/client.rs:66`): two connects in a row leave the first socket open.
- `client_setup` (`client.rs:359`): the open callback may run before the connector is stored,
  and then SETUP is never sent.
- `client_ready` (`core/client.rs:28`): a SETUP reply that crosses a disconnect leaves the client
  Connected without a connector.
- `client_redial` (`README.md:4`): reconnect never dials.
- `client_auth_here` (`core/auth.rs:13`): auth_state outlives its link. A reconnect keeps it, or an
  AUTH_STATE of the old link is processed when the next one is up.
- `client_close` (`core/channel.rs:20`): a CHANNEL_CLOSED is handed to the message listeners, and the
  channel stays Opened.

What the passing runs and the proofs say of the code may surprise, too:

- No listener ever hears of a server's ERROR: the downcast at `client.rs:453` and `client.rs:500` asks for
  an `ErrorMessage` where a `MessageType` is boxed. `core/client.rs:106` ("errors from the server"), the
  comments at `client.rs:459` and `client.rs:506` and `error_handling_tests.rs:38` have it that
  listeners do. `Inbound` has what the code does (`RouteToChannel`), and no property asks for it:
  `BadStatesOnce` is about AUTH_STATEs only.
- A channel is requested before the authorization when the application calls `request()` on one that
  open_channel gave it early (`client.rs:239`); the forwarder looks at nothing
  (`RequestsAuthorized` leaves those channels out).
- A server that stops reading blocks open_channel for ever, and with it every call that needs the
  connector's slot, `disconnect` included (`OpenReturns`).
- After a reconnect or a CHANNEL_CLOSED the Feed's channel is Opened while the server holds none
  of its subscriptions, and nothing subscribes again (`ServerForgets`; `ServerAgrees` counts those
  slots as lost until a message about them is accepted again).
- A DOM_CONFIG with a lower limit leaves the book as deep as it was until the next snapshot, and one with
  a higher limit as shallow, where `dom.rs:46` has a "Maximum depth of market to maintain":
  `DepthRespected` is about the books that snapshots make. An error of `initialize` may leave the service
  bound to a channel with no setup sent; `ChannelBound` says only that it is never bound to another.
- `PayloadNeedsOpen` says of data that its channel had left Requested: it may be Closed by the time the
  queue has room, and the data is accepted all the same.
- A text that is no message the client knows ends the read loop and so the connection, an event in
  FULL data that does not fit its struct included (`connector.rs:364`, `Ends` in `Inbound`).
- COMPACT data of a type configured with no fields panics the Feed's data task (`DivideByZero`).

## The proofs

Every safety property of the passing runs is proved, for every value of the constants that the named
assumptions admit (`ChannelAssumption`, `ClientAssumption` and so on: sets are finite where the
code's are, numbers are positive, what the server sends is finite).

`Channel_proofs`:

- `TypeCorrect`, from `TypeInv`: a call in progress has been counted, so that its index is in range.
- `AnswersTrue` (`OkIffAccepted`), from `AnswersInv`: a waiting call has no answer yet and a call
  not made has none. Without this a failing call could already be among the accepted.
- `PayloadSafe` and `Implements` (`PayloadNeedsOpen`, `ImplementsLifecycle`), from
  `LifeInv`: a payload on its way to the queue was checked while Opened, and a close about to set
  Closed has its CANCEL in the queue. The step lemma `StepLives` says what any step is to the
  lifecycle.
- `ClosedDeaf` (`ClosedIsDeaf`), inductive over the types: whoever closes has the listeners still to empty.
- `Informed` (`ListenersInformed`), from `InformedInv`: a listener not yet added was not called.

`Client_proofs`. Its types rest on the pool: every task in it is one the runtime knows. The rest traces
what the client believes to what the server said, through every task that may carry the news:

- `OpenedByTheServer`, from `GrantInv`: a pending CHANNEL_OPENED task, a signal and an Opened
  state all stand for a channel the server has granted.
- `ConnectedBySetup`, from `SetupInv`: as long as no SETUP is out, no task is about to set Connected.
- `AuthorizedByTheServer` and `NothingAskedBefore`, from `AuthInv`: before the server has
  authorized the user, no task, half-done setter or caller acts as if it had, but for the requests
  that the application queues itself.
- `SlotHoldsLive`, from `SlotInv`: a connector about to be stored is neither in the slot nor stopped.
- `WakeupsKept`, from `CallerInv`: whoever waits, or is about to, has its oneshot stored or was signalled.
- `OnlyForwards` (`ChannelsMoveForward`), from the table of `set_state`. No run checks
  it by name: the steps of `Session`, which a run checks, take a channel forwards only.
- `KeepsItsPromises` (`ImplementsSession`), from `SessionInv`: the invariants above and `AskInv`, that
  the server has granted only what it was asked for, that a caller goes on once its channel is in
  the map, and that a channel is closed only once its caller has it. One lemma for each kind of step says which step of `Session` it is, or that the
  session does not see it (`Unseen`). A close is the application's, so that in particular no
  CHANNEL_CLOSED of the server closes a channel of the client; a request before the
  authorization is for a channel whose `request()` the application called.

`Connector_proofs`:

- `TypeCorrect`, from `TypeInv`: a handler that reads, reads some socket.
- `NothingIsLate`, from `OwnerInv` and `CloseInv`: a socket has one start, and the one a start is to
  store has never been written on, so that no start brings back a closed one.
- `ServedWhileAvailable`, and `Implements` (the refinement of `ConnectorEvents`), from `LogInv`: one
  handler at a time is past the lock of the read half, and the last event is one of its own.

`Dom_proofs`. Lemmas on sorting and cutting: what a stable sort returns is a rearrangement in order
(`Sorts`), and a prefix of it is the best of it (`Chosen`, `Top`). They give `ReadableAlways`, `BestNeverCut`
(`BestKept`: each entry of the book is one of the last snapshot's, no two are the same one, and what was left
out is no better than what stayed) through `BookInv`, and `DeepAsAllowed` (`DepthRespected`: a
side is as long as the limit and the snapshot make it, neither longer nor shorter). `LastSetupMatches` needs `LockInv` (one caller holds the write lock, and only the holder
has a setup to send, which matches the state) and `SentInv`. `FreshAlways` (`FreshUntilSent`: while a setup
waits for the queue the book is as empty as `initialize` left it) needs the same lock, and nothing of what
snapshots carry. `BoundForGood` and `DomTypes` are inductive over the types.

`FeedData_proofs` and `Feed_proofs`:

- `ExactUnlessRaced` (`UnracedIsExact`), from `QuietInv`: of a type that never was in a race a pending
  FEED_CONFIG is the only pending message and the server's last word, otherwise that word is
  already known, and a pending FEED_DATA is written in it. Only then is the layout read under the
  lock the one the data came in.
- `NoGapsHeard`, from `ListenerInv`: a listener has heard just what lies between where it began and where it is.
- `FeedImplementsData`: a feed implements `DataSpec`, so that the same holds there
  (`FeedReadsExactly`, `FeedHeardWithoutGaps`). `FeedTypesHold` adds the queues and calls.
- `ServerAgreesAlways`, from `AgreeInv` and `PendingInv`: each slot (a subscription or the
  configuration) that was not lost, nor forgotten by the server, is what the last message on the way about it says, or what the server
  has if there is none; the message in the loop's hands says what the feed holds.

`FeedDecode_proofs`. `DecodeInv` says what the second pass reads: the array that the first
result was written as, whose pairs lie side by side, and that what is written can be read and reads
the same (`EventReadsBack`, `CompactReadsBack`, `FullReadsBack`). It gives `AllPairsFound` and
`ParsedTwiceTheSame`; `RowsInv` adds the types of the rows and gives `RowsCutExactly`.
`DecodingEnds`: every step lowers `Left`, the triple of the stages, the items and the rows left, in
the lexicographic order of the natural numbers. That this order has no infinite descending sequence
is proved with it (`BelowWellFounded` goes over the intervals `1 .. n`, for the library's theorem about
`<` on `Nat` takes an operator, the one about finite sets does not).

`Inbound_proofs`. `InboundInv` has five parts: the data (`DecodeInv` and `RowsInv` again, by
`StepDecodes`: every step but `ReadText` is one of `FeedDecode` or leaves it alone); the
flow (`StageInv`: the first pass is the loop's, the second a listener's, which cannot fail; `LoopInv`:
the first text that is no message is the last one read; `TaskInv`: a message has one task at a
time); and what was heard, reported, opened and set up, in terms of the messages whose tasks are done. It
gives `HeardExactlyAlways`, `BadStatesOnceAlways`, `InboundTypes`, and the three theorems of the data
in their place. More theorems are about the composition:

- `DecodesTheData`: `Inbound` implements `DecodeSpec`, with data that has not come yet mapped to data that is
  about to be deserialized. A text that is read changes nothing there, since a FEED_DATA finds its data
  untouched (`FirstData`).
- `ComesToRest`: every step lowers `Ahead`: the texts to be read, then the phases the tasks may still go
  through, then `Left`. Its order is well-founded, too, so no interleaving goes on for ever. What
  `AllHandled` adds, and only TLC checks, is that under fairness it does not stop before all is done.
- `EffectsExactAlways`: what the tasks do to the client, too, is exact: a channel counts as open just when a
  CHANNEL_OPENED for it was processed, and each SETUP of the connection was counted once.
- `ParsersAlike` and `PayloadsReadBack`: `ParsersAgree` and `PayloadReadsBack` for any text, of any type
  and fields.

Only model-checked: the liveness properties (`CallsReturn`, `OpenReturns`, `CloseReported`,
`EventsHandled`, `AllHandled`), since the prover does not do liveness under fairness.

## Plan

Done: all modules above, with the proofs of their safety properties. Left, for whoever goes on:

1. Statements of the documentation still to compare with the code by runs of their own: the depth of the book
   after a configuration (`dom.rs:46`), the limit of reconnect attempts (`config.rs:34`), the server's ERRORs
   (`core/client.rs:106`), pending requests after AUTHORIZED (`client.rs:584`), a stale close callback.
   `PROJECT.json` lists the hazards that no property covers, with the reason.
2. Several FEED_DATA in one script, and the Feed's tasks with the values of events, which would join
   `Inbound` and `FeedData`.

## Not modelled

The keepalive's timer and clocks (only starting and stopping it is modelled), the registries of
listeners, `connection_details` and `last_auth_token`, which decide nothing; the fields of the messages the
client sends; the configuration's builder, error formatting, logging, the re-exports and the wasm
bindings, which keep no state; `read_next_message`, which nothing calls; the scheduler, which
`core/mod.rs` does not declare and so is not compiled.
