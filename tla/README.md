# wiring: TLA+ models, checks and proofs

`wiring` is a Rust library that serializes values onto any stream and lets tokio
channels travel inside the values: a `oneshot`, `mpsc`, `watch` or `broadcast` half
that is written into a message gets a stream of its own, and goes on working at the
other end. This directory holds its TLA+ development: a model of each part that keeps
state, TLC configurations that check the models on small instances, and TLAPS proofs
about the multiplexer, the channel adapters and the listener, for instances of any size.
`src/` below is the repository.

## 1. The system

| part | source (`src/wiring/src/core/` unless said otherwise) | state it keeps | operations |
|---|---|---|---|
| Multiplexer | `wired.rs` | per side: two event queues (W, U), the maps `Wired.streams` and the helper's streams, the next stream id, three tasks, a handle; per stream: two halves with their buffers | `WiredHandle::send`, `shutdown`, drop; `Wired::run`, `Unwired::run`, `helper_task`; `poll_write`/`poll_flush`/`poll_shutdown`, `poll_read`, `DropHandle::drop` |
| Listener | `listener.rs`, the ends in `wire.rs` (`WireConfig::connect`, `wire`, `WireStream::stream`) and `unwire.rs` (`Unwire::stream`) | registry of live wires, inbox; per wire its queue of forwarded wires and the task that watches its drop | connect one way or both ways, accept, open a stream on a wire, take it at the other end, cancel, drop, shut down |
| Channel adapters | `Wiring`/`Unwiring` impls of the channel halves in `wire.rs` 1145-1568 and `unwire.rs` 597-814, `WireChannel` in `wire.rs` 615-706 | one or two tasks per end, the channel made there | send, receive, drop of either end, break of the connection |
| Codec | the other impls of `wire.rs` and `unwire.rs`; `BufWire`, `BufUnWire`, `UnsafeReader` | a buffer and a position | wire, unwire, `bytes_length` |
| Derive macros | `src/wiring-derive/src/lib.rs` | none | generate the codec of structs and enums |
| Stream plumbing | `mod.rs` | none of its own | `SplitStream`, `IoSplit`, `BufStream`, `TcpStreamConfig` |
| Examples, bench, tests | `src/examples/`, `src/wiring/benches/`, `src/wiring/src/test.rs` | - | users of the library |

How they interact. A program writes a value (codec, derive macros). A channel half in
the value asks the wire for a stream (`Wire::stream`), writes what the other side needs
to find it, and hands the stream to the tasks of the channel adapter; unwiring does the
same from the other side. There are two kinds of wire. On a `WireStream` a stream is a
new connection that the peer's listener forwards to the wire it was opened for. Inside
the multiplexer a stream is a number on one shared connection: connecting costs a few
bytes, and every frame is routed by the number. Everything runs in tokio tasks that
talk through unbounded queues; a task ends when its queue ends, when it is told (a
`None` in the queue) or when a read fails.

What is hard about it, part by part:

* **Multiplexer.** A stream lives in four maps (two on each side) that four tasks change;
  registration, data and drop of a stream travel through different queues; a flush is
  two sends to two channels; both sides number their streams from 1; each of four
  halves can be dropped at any time; shutdown is a chain of waits through all tasks of
  both sides, and can be abandoned, aborted or overtaken by a failure. It is correct
  when messages of a stream arrive complete and in order, when a drop reaches all four
  maps and is sent once, when no map leaks an entry, and when shutdown ends all tasks
  without losing what was accepted.
* **Listener.** The id that names a forwarded wire and the wire itself come by different
  connections. It is correct when the two meet, when the registry holds each live wire
  and no dead one, and when every caller gets an answer.
* **Channel adapters.** Who notices the end of what: correct when values arrive in order,
  the end of the channel comes after the last value and does come, a dropped receiver
  stops the senders, and no task is left behind.
* **Codec and derive macros.** The size of a type is stated four times (`FIXED_SIZE` and
  `MIXED` on each side), its layout three times (async, sync, `concat_array`), and
  unchecked reads and writes rely on them. It is correct when values come back and
  nothing goes past a buffer.

## 2. The modules

| module | models | on top of |
|---|---|---|
| `Wired` | the multiplexer | - |
| `StreamPipe` | what one stream of it promises (abstract) | refined by `Wired` |
| `WiredChannels` | the tasks of a channel over a stream of the multiplexer | `Wired` |
| `WiredWatch` | a watch channel in an event | `Wired` |
| `WiredProofs` | proofs of `TypeOK`, `OpenedOnce` and `DropOnceNeverEchoed` | `Wired`, `TLAPS` |
| `WiredQueueProofs` | proof of `RegisterFirst` | `WiredProofs` |
| `WiredMessageProofs` | proof of `TryRecvNeverMisses` | `WiredQueueProofs` |
| `WiredPathProofs` | proof of `ImplementsPipe` | `WiredMessageProofs` |
| `WiredHeldProofs` | proofs of `NothingLostOrReordered`, `DeliveredWhenQuiet`, `MapsAgree`, `ShutdownLosesNoEvent` | `WiredPathProofs` |
| `WiredChannelsProofs` | proofs that `WiredChannels` implements `Wired` and of `FirstArrives` | `WiredChannels`, `WiredHeldProofs` |
| `Listener` | listener and both ends of its connections | - |
| `Channels` | the channel adapters over a transport of their own | - |
| `ChannelPromise` | what a channel promises its two ends (abstract) | refined by `Channels` |
| `Codec` | codec and derive macros | - |
| `ChannelsProofs` | proofs of `TypeOK`, `InOrder`, `EndLosesNothing`, `KeepsPromise` | `Channels`, `TLAPS` |
| `ListenerProofs` | proofs of `TypeOK`, `QueuedOnce`, `FoundWhileAlive`, `Paired` | `Listener`, `TLAPS` |
| `MCWired`, `MCWiredChannels`, `MCWiredWatch`, `MCListener`, `MCCodec` | constants for TLC | their module |

The map in `PROJECT.json` gives the source lines of each definition.

### Wired

Two sides run the same code. Each variable is a function of the side. `wq` and `uq` are
the queues of `Option<WiredEvent>` and `Option<UnwiredEvent>`; `wstate`, `ustate` and
`reader` say how far the tasks of `Wired::run`, `helper_task` and `Unwired::run` are;
`wired` and `helper` are the keys of the two stream maps; `net[s]` is what side `s` has
written and its peer not yet read. A stream is named by its key `<<id, local>>` as in
the code, and `Mirror` is the flip of `local` on every frame. `wbuf` is the channel of
bytes between a write half and the wired task, `arr` what the helper has sent to a read
half, `cur` how much of it `poll_read` has taken.

Each round of a task's loop is one action: `WiredConnect` .. `WiredEnd` for the arms of
`Wired::run`, `ReadOpen` .. `ReadJoin` for `Unwired::run`, `HelperMessage` .. `HelperEnd`
for the helper. An event with channels inside is written piecemeal (`WiredConnect` per
channel, then `WiredEventDone`), since the reader of the other side may take the stream
id before the event is complete. `poll_flush` is two actions, `FlushBegin` and
`FlushEnd`, because the wired task can run between its two sends. `Shutdown`, `Abort`
(drop of the handle) and `AbandonShutdown` (drop of the shutdown future) are the ways a
handle goes. `SendNone` is `send(None)`, or the shutdown of a clone, which has no tasks to
wait for: it ends the wired task and leaves the handle, which can still be shut down or
dropped (`"ending"`). It is bounded: once per side, and before `Shutdown`.
`Break` fails the connection and loses a suffix of what is under way.

Left out: payloads (messages are numbered in flush order, and never empty), what an
event handler does (it is run to its end), and the bytes of a frame, so a frame is
written whole or not at all; a frame torn by a failing connection is one not delivered.
`HalfClose` says whether dropping the write half alone sends end-of-file, as a `TcpStream`
does and an `IoSplit` does not; `wired_stream` runs without it, `wired_channels` with it.

`StreamPipe` is what an application may think: messages sent one by one, delivered one
by one in order, until the stream ends, once. `Wired!Pipe` maps `phase` to the state of
the read half and the helper's hold on its channel, `sent` to the number of messages
flushed at the other side, `received` to `arr`.

In `Wired` an application may do anything with the halves of a stream. `WiredChannels`
gives them to those who hold them in the crate: the tasks that `Wiring` and `Unwiring` of
an unbounded `mpsc` half or a `oneshot` half spawn. `KeyAt`, `SideOf` and `HalfOf` say which
task holds which half on which side, `over` which tasks have returned or been aborted, and
`LetGo` is the drop of what such a task held. It shows what the multiplexer's stream is for
its users: it ends both ways as soon as one half goes, and it gives one message, so a
`sender` or `receiver` delivers its first value and a oneshot its only one (`FirstArrives`).
An event is taken off the transport in parts, so a channel may come to life on the reading
side in an event that never completes (`Torn`).

`WiredWatch` is one more pair of kinds, `watch`, whose unwiring awaits a first value where
the others only spawn tasks; `Awaits` holds up the reader's steps until the value is there.

### Listener

A node runs one listener with its inbox (`inbox`), registry (`wires`) and accept loop. A
connection is opened by `Connect` (a root wire, one or both ways) or `StreamOn` (a stream
on a wire that is held); `up` says which of the handshake's writes have happened, `call`
where the opener's future is. `Accept` is `WireConfig::wire`, `ListenStep` the arms of the
listener's loop. Handing on a forwarded wire takes two actions because the listener writes
its info to the opener first and pushes the wire into the target's queue afterwards:
between the two, the opener can already have sent the id. `TakeStream` is
`Unwire::stream`, `SignalDrop` the task that reports a dropped wire. A `WireStream` may be
split: its read half takes the incoming queue (`CanTake`), its write half what is known of
the peer (`CanOpen`), and `DropReadHalf` and `DropWriteHalf` let them go one by one; the
registry watches the queue, so the wire counts as dropped with its read half
(`QueueGone`). Random ids and keys are taken to be unique, and the check of the access key
is left out (every forward in the model carries the right one).

### Channels

One channel half of each of nine kinds, already given its stream. The `writer` takes
values from the local channel `src` and writes them (`fwd`); the `reader` makes a channel
`dst` of its own. A second task on each side watches the other direction (`wdet`, `rdet`)
where the code spawns one, so that a dropped receiver stops the senders. `Lossy` kinds
(watch, broadcast) may skip values. The stream is a `TcpStream` whose directions close
apart; dropping both halves on one side resets it, and a writer notices on its next
write. The value a `watch` has at the start is not modelled here: the writer's task begins
with it (`WatchStream::new`), also with one that was just read from the stream, as it would
with a value sent before it ran. `WiredWatch` is about who waits for it.

`ChannelPromise` is a channel that nobody sent anywhere: values are accepted, delivered in
order and without gaps (a lossy kind may skip all but the last), and the end is told when
all have been. `Promise` in `Channels` maps its state; a broken connection, a lagged
broadcast receiver and a `WireChannel` whose other way has ended are its faults.

### Codec

A type is a tree of records (`Struct(<<Prim("u32"), Str>>, {})`, whose last argument is
the set of its `#[fixed]` ranges), a value a tree of numbers. `Wiring` gives the bytes the
async and the sync code write, `ConcatArray` and `FixedPart` those under `#[fixed]`,
`Unwiring` what the readers make of bytes, `BytesLength`, `UnwireFixedSize`,
`UnwireMixed`, `WireFixedSize` and `WireMixed` what the code believes about sizes, with
its errors. One exchange wires one or two values (`Wire`), into a `Vec`, a stream, or a
slice that may fill up in the middle of a value (`WireFails`); it may lose the end of the
bytes (`Cut`), and unwires them (`Unwire`, `Reject`, `UnwireFails`). What is read may have
another type of the same layout: a `&str` comes back as a `String`, a `Vec` of pairs as a
map, which the crate can read and not write. The reader of `BufUnWire` goes on past the
end of its buffer (`end = "overrun"`) when its check let it. What an overrun reads is
undefined, so the model stops there. The unchecked writer is measured: `slices` has, for
each slice that is written without a check, at whatever depth in the value
(`UncheckedSlices`), what was reserved for it and what was written.

## 3. The runs

Every passing run finds no error over all reachable states of its instance; the sizes
below are distinct states.

| run | asks | instance | states |
|---|---|---|---|
| `wired_stream` | is a stream reliable while it is held, does a drop go out once, does it implement `StreamPipe`; does a connection given up leave no task stuck | 1 stream, 2 messages each way, client shuts its write half or drops its read half, server drops its write half; or the connection is shut down, abandoned, aborted or broken under a stream that has carried nothing yet; the transport cannot half-close | 342,879 |
| `wired_channels` | do channels over the multiplexer deliver, end and clean up; does a drop reach all four maps, do they agree; is every event handled, does every shutdown end and lose nothing | the scenes of `MCWiredChannels`, below | 429,625 |
| `wired_eof` | *fails*: end-of-stream means the end | 1 stream, 2 messages | - |
| `wired_watch` | *fails*: an event is handled as long as the connection is left up | 1 event with a `watch` half | - |
| `listener_nested` | do ids and wires pair up, is each wire in one place, is the registry right | 2 nodes, 3 connections, both ends send channels, calls cancelled, wires split and halves dropped | 728,093 |
| `listener_teardown` | are callers answered, is the registry clean, does shutdown end | 2 nodes, 2 connections, failures, a deaf handler, wires and halves dropped, shutdown | 47,144 |
| `listener_race` | *fails*: when the id has come the wire is in the queue | 2 connections | - |
| `listener_depth` | *fails*: channels nest at any depth | 3 connections | - |
| `channels_all` | order, end of channel, dropped receiver, no task left, does it implement `ChannelPromise` | 9 kinds, 3 values, capacities 1 and 3, drops and a break at any time | 22,209 |
| `channels_end` | *fails*: an unwired receiver sees the end | 1 kind, 1 value | - |
| `codec_all` | values come back, torn values are seen, nothing passes a buffer | 422 exchanges of values of every kind of type, alone and nested, cut at every length | 11,692 |
| `codec_fixed` | *fails*: a `#[fixed]` struct written async comes back | 4 structs | - |

In `wired_stream` the connection may begin to go down while the stream is fresh
(`MCWired!NextStream`), and then carries one message at most (the constraint
`FewInTearDown`); `wired_channels` has the rest of teardown. It starts in one of three
families of scenes, so that one run asks all questions of the composition: `OneChannel` (a
channel of each of four kinds from the client, both ends dropped at any time, or one value
more than a stream gives), `TwoWays` (both sides open a stream, under the same id, and the
client lets go of either), `TearDown` (shutdown of either or both sides, also through a
clone of the handle, abandoned, aborted, or the connection broken, with an event, a stream
or a channel under way).

**Why the bounds are enough.** In `Wired` a hazard needs at most two streams (the same id
on both sides), two messages (the second shows what the first left behind) and one of
each way to go; the queues are not bounded, and fill with everything those can cause.
Nothing in the code compares ids other than for equality or counts above one per stream.
In `Listener` three connections are a root, a stream on it, and a stream on that stream or
beside it. In `Channels` three values with capacity 1 fill the channel, block the reader
and leave one to be lost; with capacity 3 nothing blocks. In `Codec` vectors have 0, 1
and 2 elements and numbers differ in at most three bytes, so that a swapped, dropped or
shifted byte shows; a slice to write into has ten bytes, which some
values outgrow; lengths beyond what an input can hold are one number (2^24). No run
uses symmetry: the two sides differ in `Env`, which bounds what the surroundings may do.

**Deadlock** is not checked: all the systems stop when their applications have nothing
more to do. Tasks that wait for ever are looked for by `TearDownNeverStuck` (no task can move
and some have not ended) and with liveness (`EventsHandled`,
`ShutdownTerminates`, `AllReleased`, `TasksEnd`, `CallersAnswered`, `ShutdownStops`).

**Fairness.** Tokio polls a task that can make progress. In `Listener` and `Channels` each
task's step is weakly fair: the listener's loop, the drop watchers, the tasks of a channel.
Over `Wired` the whole `TaskStep` is weakly fair (the three tasks of each side, those of the
channels, a `poll_flush` between its sends): every task does finitely much in these
instances, so a behaviour in which some task can move for ever is one in which `TaskStep`
can, and the condition is as strong as one per task. The operations of applications,
failures and cancellations are never fair; nothing obliges a program to send, read or drop.
No run needs strong fairness. Liveness over `Wired` is stated as `<>[]`: the behaviours end,
and what must hold is said of the state they end in.

## 4. What the failing runs show

* `wired_eof` (`wired.rs:479`): `poll_read` asks for a new message only when the vector of
  the last one is empty, and a consumed vector keeps its length. A read half gives one
  message and then reports end-of-stream for ever.
* `wired_watch` (`unwire.rs:757`): unwiring a `watch` half awaits the initial value. Inside
  an event it is `Unwired::run` that unwires, the one task that reads frames, and the value
  is in a frame behind the event: the reader waits for ever, and with it every stream of
  the connection.
* `listener_race` (`unwire.rs:427`): the comment says that when the id has been read the
  wire is there for `try_recv`. The opener sends the id as soon as the listener has
  written its info, which is before the listener pushes the wire, so `try_recv` can miss.
* `listener_depth`: only root wires (and those of a two-way opener) get into the registry,
  so a stream opened on a forwarded wire is not found, at a depth of two
  (`src/README.md:11` promises channel-over-channel).
* `channels_end` (`unwire.rs:678`): the task that watches an unwired receiver keeps a
  sender of the same channel, so the receiver never sees that the senders are gone.
* `codec_fixed` (`wiring-derive/src/lib.rs:158`): the async code of `#[fixed]` writes a
  length in front of the fields which no reader reads.

Further deviations are recorded as hazards with the exemption a property makes for them,
among them: a String read from a stream that ends inside it is delivered short
(`unwire.rs:1074`); `MIXED`, `FIXED_SIZE` and `bytes_length` are wrong for some types
(`MCCodec!Inexact` and `Pairs`, left out of `BufUnWire` and of the sync writer
respectively); a cancelled `stream()` leaves later ids and wires mispaired (`OutOfStep`);
a lagged broadcast receiver and a half-closed `WireChannel` lose values (`EndLosesNothing`);
over a transport that cannot half-close, a two-sided shutdown waits for ever (`HalfClose`):
`ShutdownTerminates` is false there, and `TearDownNeverStuck` says what does free the tasks,
the drop of a handle or of the future of a shutdown, on either side, or a failure; an enum of
more than 256 variants is taken with `#[tag(u8)]` and its 257th is written as its first
(`wiring-derive/src/lib.rs:858`).

## 5. The proofs

Every safety property of the passing runs is proved for every value of the constants,
except `TearDownNeverStuck` and those of `Codec`; three of the theorems say that one specification implements
another. Each argument has the same shape: an inductive invariant, a lemma for each action (or each
kind of step) that it is kept, lemmas for what an operation on a queue does to it, and
one temporal step that puts them together. The proofs build on each other: what one
theorem establishes the next one assumes.

### The multiplexer

The assumptions are those of `Wired`: the two sides differ, the bounds are naturals with
room for an id for each channel of each event (`MaxEvents * MaxChans <= MaxStreams`),
`HalfClose` is a Boolean, `Env` names operations. The theorems hold for any number of
events, channels, streams and messages, and whatever the surroundings do, teardown and a
failing connection included, unless the property itself says otherwise.

| theorem | states | inductive invariant |
|---|---|---|
| `WiredProofs!TypeCorrect` | `TypeOK` | itself |
| `WiredProofs!StreamsOpenedOnce`, `DropOnce` | `OpenedOnce`, `DropOnceNeverEchoed` | `OpenedOnce` |
| `WiredQueueProofs!QueuesOrdered`, `RegisteredFirst` | `RegisterFirst` | `OrderedQueues` |
| `WiredMessageProofs!MessagesAnnounced`, `TryRecvFinds` | `TryRecvNeverMisses` | `Announced` |
| `WiredPathProofs!MessagesOnPath`, `StreamsArePipes` | `ImplementsPipe` | `PathInv` |
| `WiredHeldProofs!NothingIsLost`, `AllDelivered`, `StreamMapsAgree` | `NothingLostOrReordered`, `DeliveredWhenQuiet`, `MapsAgree` | `UpInv`, `TornInv` |
| `WiredHeldProofs!ShutdownKeepsEvents` | `ShutdownLosesNoEvent` | `EventsKept` |
| `WiredChannelsProofs!ChannelsRunOnWired` | `SpecAll => Spec` | - |
| `WiredChannelsProofs!FirstArrivesAlways` | `FirstArrives` | `FirstInv` |

* `TypeOK` bounds `nextId` by `MaxStreams`, which the guards of `WiredConnect` keep.
* `DropOnceNeverEchoed` does not follow from itself. A Drop frame is written when the wired
  task finds the stream in its map, so a stream must never enter the map twice; it enters
  when its `Register` event is taken, so that event must be queued once; on the accepting
  side that depends on the id crossing the connection once, and on the opening side on the
  counter. `OpenedOnce` says this: an id is announced once (`AnnouncedOnce`), and a side
  knows nothing of a stream before it is opened there, registers it once, has written no
  Drop while its receiver is alive, and queues a Drop to be broadcast only after a half has
  gone (`EntersOnce`).
* `RegisterFirst` is about a queue, but what may be queued depends on what is under way to
  it. `OrderedQueues` adds that a side has nothing of a stream it has not opened
  (`Untouched`), and that on the transport the id of a stream comes before its frames.
* `TryRecvNeverMisses`: `Announced` counts. While a stream's rx is alive its channel holds
  one message for each message event in the queue, and one more between the two sends of
  `poll_flush`; and not more than that while the queue is open. Both sides of the count are
  needed: with a message too few `try_recv` would miss, with one too many each event would
  take the message before its own. The lemmas are about `CountOf` under append and tail.
* `ImplementsPipe`: what a read half has been given is the first messages flushed, in order
  (`InOrder`). For that to be inductive, `PathInv` describes the whole path behind it: the
  helper's queue carries the messages that follow, the transport those after these, and the
  writer's channel the rest. Each part is claimed only as long as what it holds may still
  arrive (`Intake`: the tx is alive or will be; `Source`: the rx is), since whatever is torn
  down loses what was in it; and a stream whose tx is gone never gets it back, which is why
  `OrderedQueues` must hold. A step of `Wired` is then one `Send`, `Deliver`, `Open` or `End`
  of `StreamPipe` in one direction, or leaves all of it alone.
* `NothingLostOrReordered` is the same path, with nothing missing: while no one lets go of
  the stream and nothing is torn down, every `Source` and `Intake` is there. `UpInv` says
  that while `Up` no task is told to end, so no write fails. `TornInv` says what becomes of a
  stream that is let go: only such a stream is dropped, and a stream that has gone from one
  of the four maps has its drop queued, or on the transport, for the next. When all is
  quiet there is no drop, so the maps agree; and no message, so all are delivered.
* `ShutdownLosesNoEvent`: `EventsKept` counts the events that `send` accepted: as long as no
  handle was dropped and the connection holds, each is handled, in the queue or on the
  transport. It needs that the peer's reader stops only when this side's wired task has
  ended and the transport is empty, so that writes arrive until then; and that a wired task
  ends with an empty queue.

### The channels over the multiplexer

The further assumptions are those of `WiredChannels`: at most one event from each side, with
one channel in it, of a kind and on the side that the crate has tasks for. So a theorem
covers every combination of kinds on one side or both, with any number of values, and leaves
open several channels in one event, which share no state but the queues.

`ChannelsRunOnWired`: a step of the tasks or of the applications of `WiredChannels` is a step
of `Wired`, or changes none of its variables. Hence all theorems about the multiplexer hold
under the real tasks, and `FirstInv` is proved on top of their invariants.

`FirstArrives` speaks of the two tasks and the two handles, but what decides it is the order
of two queue entries. A writer that has flushed its value and ends drops the whole stream, on
both sides, whatever the reader has read by then; the value survives because the drop was
queued behind it. `FirstInv` has, of each channel while the connection is up:

* who holds what (`EndsAt`): the values given to the receiver, those read, those flushed and
  those accepted follow on one another (`ValuesAt`); a half goes only when its task is over
  (`HalvesHeldAt`); and why a task is over (`TasksEndAt`): the writer's because all was flushed
  and no sender is left or because the reader's side let go first, the reader's because no one
  listens, because the first value was given, or because there is none and never will be;
* the first message after its writer has let go, until the reader is given it (`WayKey`): it
  waits for the writer's wired task, is on the transport or waits for the peer's helper, and no
  drop of the stream is ahead of it in any queue it has yet to pass (`FirstOnWay`). While both
  halves are held there is no drop of the stream at all, by `TornInv`, and `PathInv` and
  `Announced` say where the message is, so `FirstOnWay` holds from the step in which the
  writer lets go and each later step keeps it;
* that a side which has the event has the stream in it (`EventPath`: the id is on the
  transport ahead of the event), so a task never starts on a stream its side does not know;
  and that an opened stream has had both halves handed out (`Placed`).

The end that a reader sees is a stream whose tx is gone with nothing left in its channel;
`FirstOnWay` excludes that before the first message, once there is one, and so gives
`TasksEndAt`. A receiver in the hands of the application to which nothing can come any more has
its task over, or has let the half go, which only that task does; hence `FirstArrives`.

### The channel adapters

From the assumptions of `Channels` (the kinds are among the nine, `MaxItems` is a natural,
the capacities are positive).
`ChannelsTypes`, `ChannelsInOrder`, `ChannelsEndLosesNothing` and `ChannelsKeepPromise`
(`Spec => KeepsPromise`) rest on `ChannelInv`: the four places a value passes (`src`, `fwd`,
`dst`, `got`) hold growing numbers, later places the smaller ones (`Ordered`); unless the kind
may skip, without gaps (`Gapless`); what the state of one task says about the others
(`Tasks`); that all values are still under way or received while the receiver is there and
nothing went wrong (`Complete`), which cannot be dropped, for it is what makes the end of
the channel come after the last value; and that this stays so once the end was seen
(`AtEnd`). Of a lossy kind only the newest value is counted. The refinement then goes step
by step: `Send` is `Accept` of the promise, `Receive` its `Deliver`, `SeeEnd` its `End`, the
receiver's drop its `StopListening`; a break or the end of the other way is its `Fault` (a
broadcast lags with the value that overflows, which `Accept` allows for); the step in which the writer's task ends is its `Close`, and the other steps of the
tasks change nothing it speaks of.

### The listener

From the assumptions of `Listener` (the nodes, `MaxConns` a natural, `Env`), for any number
of nodes and connections, with wires nested, split, cancelled and dropped at any time.
`ListenerTypes`, `WiresQueuedOnce`, `WiresFound` and `StreamsPaired` rest on `ListenerInv`:

* of a connection: it is handed to each listener once, before its end there exists
  (`EventInv`), and its handshake, its caller and its two ends go together (`ConnInv`);
* of a listener: it is at the event it has begun (`MidInv`), which also gives the types;
* of a wire: the registry has it while its read half is held, and a `DropWire` is posted
  only once its queue is gone (`EndInv`), from which `FoundWhileAlive` follows; what is
  queued in it was opened by its peer and is nowhere else (`QueueInv`, `PlaceInv`);
* of a wire and its peer, for `Paired`: `stream()` borrows the wire, so one runs at a time,
  and both the ids and the wires come in the order of the calls (`OrderInv`); the ids to come
  are those of the wires not yet taken (`StepInv`). Two growing sequences of which each is
  the one set or an initial part of it begin with the same stream. A cancelled or failed
  `stream()` breaks the second fact for good, hence `OutOfStep`;
* of a stream opened on a wire whose far end is not there yet (a listener answers before it
  makes the wire): it has not been welcomed (`KidInv`), because one inbox serves both, in
  order. Without this a forwarded wire could overtake the one it is forwarded to.

`QueuedOnce` needs all of it but the order.

### What is only model-checked

* Liveness (`ShutdownTerminates`, `DropPropagates`, `EventsHandled`, `SendersTold`,
  `ReceiverTold`, `AllReleased`, `NoRegistryLeak`, `CallersAnswered`, `ShutdownStops`,
  `EndSeenElsewhere`, `CloseSeen`, `TasksEnd`): liveness under fairness, and with it ENABLED,
  is out of the prover's reach.
* `TearDownNeverStuck`, which is about ENABLED.
* `Codec`: its operators recurse over types and bytes, and induction over data cannot be
  carried out with the installed provers; TLC compares them with each other on the 422
  exchanges.

## 6. Not modelled

* `BufStream` and the connect of `TcpStreamConfig` (tokio's buffering and I/O), the TCP accept
  loop's sockets and their flow control, the wording of errors, examples and benchmark.
* Over the multiplexer: `broadcast`, bounded `mpsc` and `WireChannel` halves (their tasks are
  those of the modelled kinds, with the full channel or the lag that `Channels` shows), and
  `watch` but for its deadlock. A channel inside a value that is itself sent over a channel
  cannot be wired there: a stream of the multiplexer cannot open another, and the call fails.
  Over a listener it can; `Listener` models how the wires are found, `Channels` what the tasks
  do with one, and they are not composed.
* An event that fails to wire while the connection is well (a channel behind an `Arc`), which
  leaves the beginning of a frame; frames are otherwise whole or lost.
* In the codec: the variants of feature `generic_const_exprs`; what becomes of the elements
  when unwiring an array fails half-way (`unwire.rs:478` says in a comment that they leak).
  In the macros: the compile-time panics, and generics, which leave no trace at run time.

## 7. Plan

Done: the multiplexer with its abstract specification, the listener with split wires, the
channel adapters with theirs, the codec with every type of the crate, the composition of
channels with the multiplexer; and the proofs of section 5. Next, in this order:

1. A broadcast or bounded channel over the multiplexer, in `WiredChannels`, once its tasks
   add a question that `Channels` does not answer.
