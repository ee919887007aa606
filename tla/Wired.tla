------------------------------- MODULE Wired -------------------------------
(***************************************************************************)
(* The multiplexer of wiring/src/core/wired.rs: two WiredServers joined by *)
(* one full-duplex transport.  On each side three tasks run:               *)
(*                                                                         *)
(*   wired   Wired::run      takes WiredEvents off the W queue, writes     *)
(*                           frames, owns the rx of every stream's writer  *)
(*   reader  Unwired::run    reads frames, feeds the U queue               *)
(*   helper  helper_task     takes UnwiredEvents off the U queue, owns the *)
(*                           tx of every stream's reader                   *)
(*                                                                         *)
(* The applications hold the two halves of each InternalStream.  A stream  *)
(* is named on each side by its key <<id, local>>; local is TRUE on the    *)
(* side that allotted the id.  Messages of one half are numbered 1, 2, ... *)
(* in the order they are flushed; their bytes, which are never empty, are  *)
(* left out.                                                               *)
(***************************************************************************)
EXTENDS Naturals, Sequences

CONSTANTS
  Client, Server,  \* the two ends; both run the same code
  MaxEvents,       \* bound: events each of them sends
  MaxChans,        \* bound: channels inside one event
  MaxStreams,      \* bound: streams each side allots an id for
  MaxMessages,     \* bound: messages each write half flushes
  HalfClose,       \* dropping the write half alone sends end-of-file
  Env              \* what the surroundings may do: pairs <<side, operation>>

ASSUME SidesAssumption == Client # Server
ASSUME BoundsAssumption ==
  /\ {MaxEvents, MaxChans, MaxStreams, MaxMessages} \subseteq Nat
  /\ MaxEvents * MaxChans <= MaxStreams
ASSUME TransportAssumption == HalfClose \in BOOLEAN

Side == {Client, Server}

\* The operations of the applications on each side, and the failure of the
\* connection ("break", of either side).  Env bounds an instance to some of them.
Operation == {"send", "send_none", "shutdown", "abort", "abandon", "break", "flush",
              "shut_write", "drop_write", "drop_read", "read"}
ASSUME EnvAssumption == Env \subseteq Side \X Operation
May(s, op) == <<s, op>> \in Env

Peer(s) == IF s = Client THEN Server ELSE Client

WireId == 1..MaxStreams
Key == WireId \X BOOLEAN
Local(id) == <<id, TRUE>>
Remote(id) == <<id, FALSE>>
\* The key the other side knows the stream by: `let local = !local`.
MirrorNotFlipped(k) == k
Mirror(k) == <<k[1], ~k[2]>>

\* Option<WiredEvent>, the entries of the W queue.
None == [t |-> "none"]
Event(n) == [t |-> "event", chans |-> n]
Register(k) == [t |-> "register", k |-> k]
Message(k) == [t |-> "message", k |-> k]
Drop(k, broadcast) == [t |-> "drop", k |-> k, broadcast |-> broadcast]
WiredEvent ==
  {None} \cup [t : {"event"}, chans : 0..MaxChans]
    \cup [t : {"register", "message"}, k : Key]
    \cup [t : {"drop"}, k : Key, broadcast : BOOLEAN]

\* Option<UnwiredEvent>, the entries of the U queue: None, Register and Drop as
\* above, and a message with its data.
Data(k, n) == [t |-> "data", k |-> k, n |-> n]
UnwiredEvent ==
  {None} \cup [t : {"register"}, k : Key]
    \cup [t : {"data"}, k : Key, n : Nat \ {0}]
    \cup [t : {"drop"}, k : Key, broadcast : BOOLEAN]

\* WiringEvent on the transport.  An event is written piecemeal: one OpenFrame
\* for each channel inside it, where its stream id goes by, then the rest.  The
\* keys of data and drop frames are the receiver's.
OpenFrame(id) == [t |-> "open", id |-> id]
EventFrame == [t |-> "event"]
DropFrame(k) == [t |-> "drop", k |-> k]
WiringEvent ==
  {EventFrame} \cup [t : {"open"}, id : WireId]
    \cup [t : {"data"}, k : Key, n : Nat \ {0}] \cup [t : {"drop"}, k : Key]

VARIABLES
  wq,         \* W queue of each side
  wstate,     \* wired task: "open"; "closed" after rx.close(); "done"
  nextId,     \* Wired.stream_id
  wired,      \* keys of Wired.streams
  wbuf,       \* the channel between a write half and the wired task
  uq,         \* U queue of each side
  ustate,     \* helper task, as wstate
  helper,     \* keys of the helper's streams
  reader,     \* reader task: "run", "join" (waits for the helper), "done"
  net,        \* frames from each side on their way to its peer
  broken,     \* the transport has failed
  handle,     \* WiredHandle: "held", "ending" (held, None was sent through it or a clone),
              \* "shutdown" (its future), "dropped"
  wh, rh,     \* write and read half of the application: "none", "open",
              \* "shut" (write half, after poll_shutdown), "dropped"
  pend,       \* the write half is between the two sends of poll_flush
  flushed,    \* number of messages the write half has flushed
  arr,        \* messages the helper has put in a read half's channel
  cur,        \* how many of arr poll_read has taken
  eof,        \* the read half has reported end-of-stream
  evSent, evHandled,  \* events accepted by send, events given to the handler
  drops       \* Drop frames written for a key

wiredVars == <<wq, wstate, nextId, wired, wbuf>>
helperVars == <<uq, ustate, helper>>
netVars == <<net, broken>>
halfVars == <<wh, rh, pend, flushed, cur, eof>>
vars == <<wiredVars, helperVars, reader, netVars, handle, halfVars, arr,
          evSent, evHandled, drops>>

PerKey(x) == [s \in Side |-> [k \in Key |-> x]]

Init ==
  /\ wq = [s \in Side |-> <<>>] /\ uq = [s \in Side |-> <<>>]
  /\ net = [s \in Side |-> <<>>]
  /\ wstate = [s \in Side |-> "open"] /\ ustate = [s \in Side |-> "open"]
  /\ reader = [s \in Side |-> "run"] /\ handle = [s \in Side |-> "held"]
  /\ nextId = [s \in Side |-> 0] /\ broken = FALSE
  /\ wired = [s \in Side |-> {}] /\ helper = [s \in Side |-> {}]
  /\ wbuf = PerKey(<<>>) /\ arr = PerKey(<<>>)
  /\ wh = PerKey("none") /\ rh = PerKey("none")
  /\ pend = PerKey(FALSE) /\ eof = PerKey(FALSE)
  /\ flushed = PerKey(0) /\ cur = PerKey(0) /\ drops = PerKey(0)
  /\ evSent = [s \in Side |-> 0] /\ evHandled = [s \in Side |-> 0]

-----------------------------------------------------------------------------
(* What the tasks share.                                                   *)

\* A send on the W (U) queue fails, and is ignored, once its rx is closed.
Pushed(q, state, s, e) ==
  IF state[s] = "open" THEN [q EXCEPT ![s] = Append(@, e)] ELSE q
PushW(s, e) == wq' = Pushed(wq, wstate, s, e)
PushU(s, e) == uq' = Pushed(uq, ustate, s, e)

Queued(q, e) == \E i \in DOMAIN q : q[i] = e

\* The rx of a write half lives in Wired.streams or in the registration that
\* brings it there; the tx of a read half likewise.
RxAlive(s, k) == k \in wired[s] \/ Queued(wq[s], Register(k))
TxAlive(s, k) == k \in helper[s] \/ Queued(uq[s], Register(k))

\* A side has closed its direction: the wired task and the write half with it
\* are gone.  Under a transport that cannot half-close, the read half too.
Eof(s) == wstate[s] = "done" /\ (HalfClose \/ reader[s] # "run")

\* Writes may fail: the transport broke or the peer has dropped both halves.
Down(s) == broken \/ (wstate[Peer(s)] = "done" /\ reader[Peer(s)] # "run")

\* self.wire(frame): it is sent or, when the transport is down, lost or refused;
\* a refusal closes the W queue.
Write(s, frame) ==
  \/ ~Down(s) /\ net' = [net EXCEPT ![s] = Append(@, frame)] /\ UNCHANGED wstate
  \/ Down(s) /\ UNCHANGED <<net, wstate>>
  \/ Down(s) /\ wstate' = [wstate EXCEPT ![s] = "closed"] /\ UNCHANGED net

-----------------------------------------------------------------------------
(* The wired task.                                                         *)

\* The head of s's W queue is what the wired task works on.
WiredAt(s, t) == wstate[s] # "done" /\ wq[s] # <<>> /\ Head(wq[s]).t = t
PopW(s) == wq' = [wq EXCEPT ![s] = Tail(@)]

\* None: rx.close(); what is queued is still handled.
WiredNoneNoDrain(s) ==
  /\ WiredAt(s, "none")
  /\ wq' = [wq EXCEPT ![s] = <<>>]
  /\ wstate' = [wstate EXCEPT ![s] = "closed"]
  /\ UNCHANGED <<nextId, wired, wbuf, helperVars, reader, netVars, handle,
                 halfVars, arr, evSent, evHandled, drops>>
WiredNone(s) ==
  /\ WiredAt(s, "none")
  /\ PopW(s)
  /\ wstate' = [wstate EXCEPT ![s] = "closed"]
  /\ UNCHANGED <<nextId, wired, wbuf, helperVars, reader, netVars, handle,
                 halfVars, arr, evSent, evHandled, drops>>

\* What connect() leaves in place before it writes the id.
ConnectedTwice(s, id) ==
  /\ nextId' = [nextId EXCEPT ![s] = id + 1]
  /\ wired' = [wired EXCEPT ![s] = @ \cup {Local(id)}]
  /\ PushU(s, Register(Local(id)))
ConnectedUnregistered(s, id) ==
  /\ nextId' = [nextId EXCEPT ![s] = id]
  /\ wired' = [wired EXCEPT ![s] = @ \cup {Local(id)}]
  /\ UNCHANGED uq
Connected(s, id) ==
  /\ nextId' = [nextId EXCEPT ![s] = id]
  /\ wired' = [wired EXCEPT ![s] = @ \cup {Local(id)}]
  /\ PushU(s, Register(Local(id)))

\* connect() for the next channel of the event: the stream is registered on this
\* side, its id is written (or lost), and the channel's task takes the halves.
WiredConnect(s) ==
  /\ WiredAt(s, "event") /\ Head(wq[s]).chans > 0
  /\ nextId[s] < MaxStreams
  /\ LET id == nextId[s] + 1
     IN  /\ Connected(s, id)
         /\ net' = IF Down(s) THEN net ELSE [net EXCEPT ![s] = Append(@, OpenFrame(id))]
         /\ wh' = [wh EXCEPT ![s][Local(id)] = "open"]
         /\ rh' = [rh EXCEPT ![s][Local(id)] = "open"]
  /\ wq' = [wq EXCEPT ![s][1].chans = @ - 1]
  /\ UNCHANGED <<wstate, wbuf, ustate, helper, reader, broken, handle, pend, flushed,
                 cur, eof, arr, evSent, evHandled, drops>>

\* Writing the id fails: the InternalStream is dropped, its halves send Drop,
\* and the error of the event closes the queue.
WiredConnectFails(s) ==
  /\ WiredAt(s, "event") /\ Head(wq[s]).chans > 0
  /\ nextId[s] < MaxStreams
  /\ Down(s)
  /\ LET k == Local(nextId[s] + 1)
         popped == [wq EXCEPT ![s] = Tail(@)]
     IN  /\ Connected(s, nextId[s] + 1)
         /\ wh' = [wh EXCEPT ![s][k] = "dropped"]
         /\ rh' = [rh EXCEPT ![s][k] = "dropped"]
         /\ wq' = Pushed(Pushed(popped, wstate, s, Drop(k, TRUE)), wstate, s, Drop(k, TRUE))
  /\ wstate' = [wstate EXCEPT ![s] = "closed"]
  /\ UNCHANGED <<wbuf, ustate, helper, reader, netVars, handle, pend, flushed, cur, eof,
                 arr, evSent, evHandled, drops>>

\* A write of the event before its next channel fails.
WiredEventFails(s) ==
  /\ WiredAt(s, "event") /\ Head(wq[s]).chans > 0
  /\ Down(s)
  /\ PopW(s)
  /\ wstate' = [wstate EXCEPT ![s] = "closed"]
  /\ UNCHANGED <<nextId, wired, wbuf, helperVars, reader, netVars, handle,
                 halfVars, arr, evSent, evHandled, drops>>

\* The rest of the event, after its last channel.
WiredEventDone(s) ==
  /\ WiredAt(s, "event") /\ Head(wq[s]).chans = 0
  /\ PopW(s)
  /\ Write(s, EventFrame)
  /\ UNCHANGED <<nextId, wired, wbuf, helperVars, reader, broken, handle,
                 halfVars, arr, evSent, evHandled, drops>>

WiredRegister(s) ==
  /\ WiredAt(s, "register")
  /\ PopW(s)
  /\ wired' = [wired EXCEPT ![s] = @ \cup {Head(wq[s]).k}]
  /\ UNCHANGED <<wstate, nextId, wbuf, helperVars, reader, netVars, handle, halfVars,
                 arr, evSent, evHandled, drops>>

\* A message event: its data is taken from the stream's channel (try_recv) and
\* written.  Without the stream, or without data, nothing happens.
WiredMessageCopied(s) ==
  /\ WiredAt(s, "message")
  /\ PopW(s)
  /\ LET k == Head(wq[s]).k
     IN  IF k \in wired[s] /\ wbuf[s][k] # <<>>
         THEN /\ UNCHANGED wbuf
              /\ Write(s, Data(Mirror(k), Head(wbuf[s][k])))
         ELSE UNCHANGED <<wbuf, wstate, net>>
  /\ UNCHANGED <<nextId, wired, helperVars, reader, broken, handle, halfVars, arr,
                 evSent, evHandled, drops>>
WiredMessage(s) ==
  /\ WiredAt(s, "message")
  /\ PopW(s)
  /\ LET k == Head(wq[s]).k
     IN  IF k \in wired[s] /\ wbuf[s][k] # <<>>
         THEN /\ wbuf' = [wbuf EXCEPT ![s][k] = Tail(@)]
              /\ Write(s, Data(Mirror(k), Head(wbuf[s][k])))
         ELSE UNCHANGED <<wbuf, wstate, net>>
  /\ UNCHANGED <<nextId, wired, helperVars, reader, broken, handle, halfVars, arr,
                 evSent, evHandled, drops>>

\* The stream goes, with the data in its channel: the peer is told unless the
\* drop came from it, then the helper.
Dropped(s, e) ==
  /\ wired' = [wired EXCEPT ![s] = @ \ {e.k}]
  /\ wbuf' = [wbuf EXCEPT ![s][e.k] = <<>>]
  /\ IF e.broadcast
     THEN /\ Write(s, DropFrame(Mirror(e.k)))
          /\ drops' = [drops EXCEPT ![s][e.k] = @ + 1]
     ELSE UNCHANGED <<wstate, net, drops>>
WiredDropUnguarded(s) ==
  /\ WiredAt(s, "drop")
  /\ PopW(s)
  /\ LET e == Head(wq[s]) IN Dropped(s, e) /\ PushU(s, Drop(e.k, FALSE))
  /\ UNCHANGED <<nextId, ustate, helper, reader, broken, handle, halfVars, arr,
                 evSent, evHandled>>
WiredDropHelperUntold(s) ==
  /\ WiredAt(s, "drop")
  /\ PopW(s)
  /\ LET e == Head(wq[s])
     IN  IF e.k \in wired[s] THEN Dropped(s, e)
         ELSE UNCHANGED <<wired, wbuf, wstate, net, drops>>
  /\ UNCHANGED <<nextId, uq, ustate, helper, reader, broken, handle, halfVars, arr,
                 evSent, evHandled>>
WiredDropMirrored(s) ==
  /\ WiredAt(s, "drop")
  /\ PopW(s)
  /\ LET e == [Head(wq[s]) EXCEPT !.k = Mirror(@)]
     IN  IF e.k \in wired[s]
         THEN Dropped(s, e) /\ PushU(s, Drop(e.k, FALSE))
         ELSE UNCHANGED <<wired, wbuf, wstate, net, drops, uq>>
  /\ UNCHANGED <<nextId, ustate, helper, reader, broken, handle, halfVars, arr,
                 evSent, evHandled>>
WiredDrop(s) ==
  /\ WiredAt(s, "drop")
  /\ PopW(s)
  /\ LET e == Head(wq[s])
     IN  IF e.k \in wired[s]
         THEN Dropped(s, e) /\ PushU(s, Drop(e.k, FALSE))
         ELSE UNCHANGED <<wired, wbuf, wstate, net, drops, uq>>
  /\ UNCHANGED <<nextId, ustate, helper, reader, broken, handle, halfVars, arr,
                 evSent, evHandled>>

\* recv gives None: run returns and drops Wired, its streams and the write half.
WiredEnd(s) ==
  /\ wstate[s] = "closed" /\ wq[s] = <<>>
  /\ wstate' = [wstate EXCEPT ![s] = "done"]
  /\ wired' = [wired EXCEPT ![s] = {}]
  /\ wbuf' = [wbuf EXCEPT ![s] = [k \in Key |-> <<>>]]
  /\ UNCHANGED <<wq, nextId, helperVars, reader, netVars, handle, halfVars, arr,
                 evSent, evHandled, drops>>

WiredStep(s) ==
  \/ WiredNone(s) \/ WiredConnect(s) \/ WiredConnectFails(s) \/ WiredEventFails(s)
  \/ WiredEventDone(s) \/ WiredRegister(s) \/ WiredMessage(s) \/ WiredDrop(s)
  \/ WiredEnd(s)

-----------------------------------------------------------------------------
(* The reader task.                                                        *)

\* The next frame on the transport is a t, and the reader takes it.
ReadingAwaitsMessage(s, t) ==
  /\ reader[s] = "run" /\ net[Peer(s)] # <<>> /\ Head(net[Peer(s)]).t = t
  /\ \A id \in WireId : rh[s][Remote(id)] = "open" => arr[s][Remote(id)] # <<>>
  /\ net' = [net EXCEPT ![Peer(s)] = Tail(@)]
Reading(s, t) ==
  /\ reader[s] = "run" /\ net[Peer(s)] # <<>> /\ Head(net[Peer(s)]).t = t
  /\ net' = [net EXCEPT ![Peer(s)] = Tail(@)]

\* Unwired::connect: the write half's rx goes to the wired task, then the read
\* half's tx to the helper, then the channel's task takes the halves.
ReadOpen(s) ==
  /\ Reading(s, "open")
  /\ LET k == Remote(Head(net[Peer(s)]).id)
     IN  /\ PushW(s, Register(k))
         /\ PushU(s, Register(k))
         /\ wh' = [wh EXCEPT ![s][k] = "open"]
         /\ rh' = [rh EXCEPT ![s][k] = "open"]
  /\ UNCHANGED <<wstate, nextId, wired, wbuf, ustate, helper, reader, broken, handle, pend,
                 flushed, cur, eof, arr, evSent, evHandled, drops>>

\* The event is complete: handle_event runs to its end.
ReadEvent(s) ==
  /\ Reading(s, "event")
  /\ evHandled' = [evHandled EXCEPT ![s] = @ + 1]
  /\ UNCHANGED <<wiredVars, helperVars, reader, broken, handle, halfVars, arr, evSent, drops>>

ReadMessageTwice(s) ==
  /\ Reading(s, "data")
  /\ LET m == Head(net[Peer(s)])
     IN  uq' = Pushed(Pushed(uq, ustate, s, m), ustate, s, m)
  /\ UNCHANGED <<wiredVars, ustate, helper, reader, broken, handle, halfVars, arr,
                 evSent, evHandled, drops>>
ReadMessage(s) ==
  /\ Reading(s, "data")
  /\ PushU(s, Head(net[Peer(s)]))
  /\ UNCHANGED <<wiredVars, ustate, helper, reader, broken, handle, halfVars, arr,
                 evSent, evHandled, drops>>

ReadDrop(s) ==
  /\ Reading(s, "drop")
  /\ PushU(s, Drop(Head(net[Peer(s)]).k, TRUE))
  /\ UNCHANGED <<wiredVars, ustate, helper, reader, broken, handle, halfVars, arr,
                 evSent, evHandled, drops>>

\* End-of-file or an error: None to the helper, Unwired is dropped.
ReadEnd(s) ==
  /\ reader[s] = "run" /\ net[Peer(s)] = <<>>
  /\ Eof(Peer(s)) \/ broken
  /\ PushU(s, None)
  /\ reader' = [reader EXCEPT ![s] = "join"]
  /\ UNCHANGED <<wiredVars, ustate, helper, netVars, handle, halfVars, arr,
                 evSent, evHandled, drops>>

\* The helper has ended: None to the wired task.
ReadJoinWiredUntold(s) ==
  /\ reader[s] = "join" /\ ustate[s] = "done"
  /\ reader' = [reader EXCEPT ![s] = "done"]
  /\ UNCHANGED <<wiredVars, helperVars, netVars, handle, halfVars,
                 arr, evSent, evHandled, drops>>
ReadJoin(s) ==
  /\ reader[s] = "join" /\ ustate[s] = "done"
  /\ PushW(s, None)
  /\ reader' = [reader EXCEPT ![s] = "done"]
  /\ UNCHANGED <<wstate, nextId, wired, wbuf, helperVars, netVars, handle, halfVars,
                 arr, evSent, evHandled, drops>>

ReaderStep(s) ==
  ReadOpen(s) \/ ReadEvent(s) \/ ReadMessage(s) \/ ReadDrop(s) \/ ReadEnd(s) \/ ReadJoin(s)

-----------------------------------------------------------------------------
(* The helper task.                                                        *)

HelperAt(s, t) ==
  /\ ustate[s] # "done" /\ uq[s] # <<>> /\ Head(uq[s]).t = t
  /\ uq' = [uq EXCEPT ![s] = Tail(@)]

\* The message goes to its read half, if that still holds the rx; a message of
\* no registered stream is dropped.
HelperMessage(s) ==
  /\ HelperAt(s, "data")
  /\ LET m == Head(uq[s])
     IN  arr' = IF m.k \in helper[s] /\ rh[s][m.k] = "open"
                THEN [arr EXCEPT ![s][m.k] = Append(@, m.n)] ELSE arr
  /\ UNCHANGED <<wiredVars, ustate, helper, reader, netVars, handle, halfVars,
                 evSent, evHandled, drops>>

HelperRegister(s) ==
  /\ HelperAt(s, "register")
  /\ helper' = [helper EXCEPT ![s] = @ \cup {Head(uq[s]).k}]
  /\ UNCHANGED <<wiredVars, ustate, reader, netVars, handle, halfVars, arr,
                 evSent, evHandled, drops>>

\* The stream goes; a drop that came from the peer is passed to the wired task,
\* which is not to send it back.
HelperDropWiredUntold(s) ==
  /\ HelperAt(s, "drop")
  /\ helper' = [helper EXCEPT ![s] = @ \ {Head(uq[s]).k}]
  /\ UNCHANGED <<wiredVars, ustate, reader, netVars, handle, halfVars,
                 arr, evSent, evHandled, drops>>
HelperDropEchoed(s) ==
  /\ HelperAt(s, "drop")
  /\ LET e == Head(uq[s])
     IN  /\ helper' = [helper EXCEPT ![s] = @ \ {e.k}]
         /\ IF e.k \in helper[s] /\ e.broadcast
            THEN PushW(s, Drop(e.k, TRUE)) ELSE UNCHANGED wq
  /\ UNCHANGED <<wstate, nextId, wired, wbuf, ustate, reader, netVars, handle, halfVars,
                 arr, evSent, evHandled, drops>>
HelperDrop(s) ==
  /\ HelperAt(s, "drop")
  /\ LET e == Head(uq[s])
     IN  /\ helper' = [helper EXCEPT ![s] = @ \ {e.k}]
         /\ IF e.k \in helper[s] /\ e.broadcast
            THEN PushW(s, Drop(e.k, FALSE)) ELSE UNCHANGED wq
  /\ UNCHANGED <<wstate, nextId, wired, wbuf, ustate, reader, netVars, handle, halfVars,
                 arr, evSent, evHandled, drops>>

HelperNone(s) ==
  /\ HelperAt(s, "none")
  /\ ustate' = [ustate EXCEPT ![s] = "closed"]
  /\ UNCHANGED <<wiredVars, helper, reader, netVars, handle, halfVars, arr,
                 evSent, evHandled, drops>>

\* recv gives None: the queue is closed, or Wired and Unwired, which hold its
\* senders, are gone.  The tx of every stream still registered go.
HelperEnd(s) ==
  /\ ustate[s] # "done" /\ uq[s] = <<>>
  /\ ustate[s] = "closed" \/ (wstate[s] = "done" /\ reader[s] # "run")
  /\ ustate' = [ustate EXCEPT ![s] = "done"]
  /\ helper' = [helper EXCEPT ![s] = {}]
  /\ UNCHANGED <<wiredVars, uq, reader, netVars, handle, halfVars, arr,
                 evSent, evHandled, drops>>

HelperStep(s) ==
  HelperMessage(s) \/ HelperRegister(s) \/ HelperDrop(s) \/ HelperNone(s) \/ HelperEnd(s)

-----------------------------------------------------------------------------
(* The applications: WiredHandle and the halves of InternalStream.         *)

\* WiredHandle::send of an event with n channels in it.
Send(s, n) ==
  /\ May(s, "send") /\ wstate[s] = "open" /\ evSent[s] < MaxEvents
  /\ PushW(s, Event(n))
  /\ evSent' = [evSent EXCEPT ![s] = @ + 1]
  /\ UNCHANGED <<wstate, nextId, wired, wbuf, helperVars, reader, netVars, handle,
                 halfVars, arr, evHandled, drops>>

\* WiredHandle::send(None), and shutdown of a clone, which has no JoinHandle to await, queue
\* None and no more.  Bound: once, before shutdown; the queue is closed by the first None.
SendNone(s) ==
  /\ May(s, "send_none") /\ handle[s] = "held"
  /\ PushW(s, None)
  /\ handle' = [handle EXCEPT ![s] = "ending"]
  /\ UNCHANGED <<wstate, nextId, wired, wbuf, helperVars, reader, netVars, halfVars,
                 arr, evSent, evHandled, drops>>

\* WiredHandle::shutdown queues None and returns a future that awaits the tasks.
Shutdown(s) ==
  /\ May(s, "shutdown") /\ handle[s] \in {"held", "ending"}
  /\ PushW(s, None)
  /\ handle' = [handle EXCEPT ![s] = "shutdown"]
  /\ UNCHANGED <<wstate, nextId, wired, wbuf, helperVars, reader, netVars, halfVars,
                 arr, evSent, evHandled, drops>>

\* The WiredHandle, or the future of shutdown before it is polled, is dropped:
\* DropHandles::drop aborts the wired and the reader task.
Abort(s) ==
  /\ May(s, "abort") /\ handle[s] # "dropped"
  /\ handle' = [handle EXCEPT ![s] = "dropped"]
  /\ wstate' = [wstate EXCEPT ![s] = "done"]
  /\ wq' = [wq EXCEPT ![s] = <<>>]
  /\ wired' = [wired EXCEPT ![s] = {}]
  /\ wbuf' = [wbuf EXCEPT ![s] = [k \in Key |-> <<>>]]
  /\ reader' = [reader EXCEPT ![s] = "done"]
  /\ UNCHANGED <<nextId, helperVars, netVars, halfVars, arr, evSent, evHandled, drops>>

\* The future of shutdown is dropped while it awaits the wired task, whose
\* JoinHandle it has taken: only the reader is aborted.
AbandonShutdownDetached(s) ==
  /\ May(s, "abandon") /\ handle[s] = "shutdown" /\ wstate[s] # "done"
  /\ handle' = [handle EXCEPT ![s] = "dropped"]
  /\ UNCHANGED <<reader, wiredVars, helperVars, netVars, halfVars, arr, evSent, evHandled, drops>>
AbandonShutdown(s) ==
  /\ May(s, "abandon") /\ handle[s] = "shutdown" /\ wstate[s] # "done"
  /\ handle' = [handle EXCEPT ![s] = "dropped"]
  /\ reader' = [reader EXCEPT ![s] = "done"]
  /\ UNCHANGED <<wiredVars, helperVars, netVars, halfVars, arr, evSent, evHandled, drops>>

\* The two sends of poll_flush: the message into the channel to the wired task,
\* then the event that announces it into the W queue.
SendData(s, k) ==
  /\ wbuf' = [wbuf EXCEPT ![s][k] = Append(@, flushed'[s][k])]
  /\ UNCHANGED wq
SendEvent(s, k) ==
  /\ PushW(s, Message(k))
  /\ UNCHANGED wbuf
FlushSendEventFirst(s, k, step) == IF step = 2 THEN SendData(s, k) ELSE SendEvent(s, k)
FlushSend(s, k, step) == IF step = 1 THEN SendData(s, k) ELSE SendEvent(s, k)

\* poll_flush up to its first send.  That fails once the rx is gone.
FlushBegin(s, k) ==
  /\ May(s, "flush")
  /\ wh[s][k] = "open" /\ ~pend[s][k] /\ flushed[s][k] < MaxMessages
  /\ RxAlive(s, k)
  /\ flushed' = [flushed EXCEPT ![s][k] = @ + 1]
  /\ pend' = [pend EXCEPT ![s][k] = TRUE]
  /\ FlushSend(s, k, 1)
  /\ UNCHANGED <<wstate, nextId, wired, helperVars, reader, netVars, handle,
                 wh, rh, cur, eof, arr, evSent, evHandled, drops>>

\* Its second send.  Other threads run between the two.
FlushEnd(s, k) ==
  /\ pend[s][k]
  /\ pend' = [pend EXCEPT ![s][k] = FALSE]
  /\ UNCHANGED <<wstate, nextId, wired, helperVars, reader, netVars, handle,
                 wh, rh, flushed, cur, eof, arr, evSent, evHandled, drops>>
  /\ FlushSend(s, k, 2)

\* poll_shutdown of the write half.
ShutWrite(s, k) ==
  /\ May(s, "shut_write")
  /\ wh[s][k] = "open" /\ ~pend[s][k]
  /\ wh' = [wh EXCEPT ![s][k] = "shut"]
  /\ PushW(s, Drop(k, TRUE))
  /\ UNCHANGED <<wstate, nextId, wired, wbuf, helperVars, reader, netVars, handle,
                 rh, pend, flushed, cur, eof, arr, evSent, evHandled, drops>>

\* WiredStreamHandle::drop of the write half, of the read half.
DropWrite(s, k) ==
  /\ May(s, "drop_write")
  /\ wh[s][k] \in {"open", "shut"} /\ ~pend[s][k]
  /\ wh' = [wh EXCEPT ![s][k] = "dropped"]
  /\ PushW(s, Drop(k, TRUE))
  /\ UNCHANGED <<wstate, nextId, wired, wbuf, helperVars, reader, netVars, handle,
                 rh, pend, flushed, cur, eof, arr, evSent, evHandled, drops>>

DropRead(s, k) ==
  /\ May(s, "drop_read")
  /\ rh[s][k] = "open"
  /\ rh' = [rh EXCEPT ![s][k] = "dropped"]
  /\ PushW(s, Drop(k, TRUE))
  /\ UNCHANGED <<wstate, nextId, wired, wbuf, helperVars, reader, netVars, handle,
                 wh, pend, flushed, cur, eof, arr, evSent, evHandled, drops>>

\* poll_read with no message loaded takes the next one.  Once a message is
\* loaded, the length of its vector stays above 0, so no other is ever taken.
PollRead(s, k) ==
  /\ May(s, "read")
  /\ rh[s][k] = "open" /\ cur[s][k] = 0 /\ arr[s][k] # <<>>
  /\ cur' = [cur EXCEPT ![s][k] = 1]
  /\ UNCHANGED <<wiredVars, helperVars, reader, netVars, handle, wh, rh, pend,
                 flushed, eof, arr, evSent, evHandled, drops>>

\* poll_read gives no byte: the channel has ended, or the loaded message is read.
PollReadEof(s, k) ==
  /\ May(s, "read")
  /\ rh[s][k] = "open" /\ ~eof[s][k]
  /\ cur[s][k] = 1 \/ (arr[s][k] = <<>> /\ ~TxAlive(s, k))
  /\ eof' = [eof EXCEPT ![s][k] = TRUE]
  /\ UNCHANGED <<wiredVars, helperVars, reader, netVars, handle, wh, rh, pend,
                 flushed, cur, arr, evSent, evHandled, drops>>

HalfStep(s, k) ==
  \/ FlushBegin(s, k) \/ FlushEnd(s, k) \/ ShutWrite(s, k) \/ DropWrite(s, k)
  \/ DropRead(s, k) \/ PollRead(s, k) \/ PollReadEof(s, k)

\* The connection fails and the frames it still carries are lost from some
\* point on, in each direction.
Break ==
  /\ (\E s \in Side : May(s, "break")) /\ ~broken
  /\ broken' = TRUE
  /\ \E keep \in [Side -> 0..(Len(net[Client]) + Len(net[Server]))] :
       /\ \A s \in Side : keep[s] <= Len(net[s])
       /\ net' = [s \in Side |-> SubSeq(net[s], 1, keep[s])]
  /\ UNCHANGED <<wiredVars, helperVars, reader, handle, halfVars, arr, evSent, evHandled, drops>>

AppStep(s) ==
  \/ \E n \in 0..MaxChans : Send(s, n)
  \/ SendNone(s) \/ Shutdown(s) \/ Abort(s) \/ AbandonShutdown(s)
  \/ \E k \in Key : HalfStep(s, k)

Next ==
  \/ \E s \in Side : WiredStep(s) \/ ReaderStep(s) \/ HelperStep(s) \/ AppStep(s)
  \/ Break

Spec == Init /\ [][Next]_vars

-----------------------------------------------------------------------------
(* Properties.                                                             *)

\* The type invariant.
TypeOK ==
  /\ wq \in [Side -> Seq(WiredEvent)] /\ uq \in [Side -> Seq(UnwiredEvent)]
  /\ net \in [Side -> Seq(WiringEvent)] /\ broken \in BOOLEAN
  /\ wstate \in [Side -> {"open", "closed", "done"}]
  /\ ustate \in [Side -> {"open", "closed", "done"}]
  /\ reader \in [Side -> {"run", "join", "done"}]
  /\ handle \in [Side -> {"held", "ending", "shutdown", "dropped"}]
  /\ nextId \in [Side -> 0..MaxStreams]
  /\ wired \in [Side -> SUBSET Key] /\ helper \in [Side -> SUBSET Key]
  /\ wbuf \in [Side -> [Key -> Seq(Nat \ {0})]]
  /\ arr \in [Side -> [Key -> Seq(Nat \ {0})]]
  /\ wh \in [Side -> [Key -> {"none", "open", "shut", "dropped"}]]
  /\ rh \in [Side -> [Key -> {"none", "open", "dropped"}]]
  /\ pend \in [Side -> [Key -> BOOLEAN]] /\ eof \in [Side -> [Key -> BOOLEAN]]
  /\ flushed \in [Side -> [Key -> Nat]] /\ cur \in [Side -> [Key -> 0..1]]
  /\ drops \in [Side -> [Key -> Nat]]
  /\ evSent \in [Side -> Nat] /\ evHandled \in [Side -> Nat]

\* try_recv on a live stream always finds the data its message event announces:
\* poll_flush puts the data in the channel before the event in the queue, and a
\* miss would leave the data behind by one event for ever.
TryRecvNeverMisses ==
  \A s \in Side : WiredAt(s, "message") =>
    LET k == Head(wq[s]).k IN k \in wired[s] => wbuf[s][k] # <<>>

\* No queue holds a message or drop of a stream ahead of the stream's own
\* registration, where the task would take it for a stream long gone.
RegisterFirst ==
  \A s \in Side : \A k \in Key :
    /\ \A j \in DOMAIN wq[s] : wq[s][j] = Register(k) =>
         /\ k \notin wired[s]
         /\ \A i \in DOMAIN wq[s] : i # j /\ wq[s][i].t # "none" /\ wq[s][i].t # "event"
                                     /\ wq[s][i].k = k => i > j
    /\ \A j \in DOMAIN uq[s] : uq[s][j] = Register(k) =>
         /\ k \notin helper[s]
         /\ \A i \in DOMAIN uq[s] : i # j /\ uq[s][i].t # "none" /\ uq[s][i].k = k => i > j

\* Neither half of the stream has been closed or dropped on either side.
Held(s, k) == wh[s][k] = "open" /\ rh[s][k] = "open"

\* Nothing is being torn down.
Up == ~broken /\ \A s \in Side : handle[s] = "held"

\* The data of stream k in q is the messages a+1, ..., b, in that order.
DataOf(q, k) == {i \in DOMAIN q : q[i].t = "data" /\ q[i].k = k}
Carries(q, k, a, b) ==
  /\ {q[i].n : i \in DataOf(q, k)} = (a + 1)..b
  /\ \A i, j \in DataOf(q, k) : i < j => q[i].n < q[j].n

\* The messages delivered to a read half are the first that were flushed, in order.
InOrder(p, m) == arr[p][m] = [i \in 1..Len(arr[p][m]) |-> i]

\* While both ends hold a stream, every message flushed into it is in exactly one
\* place between the write half and the read half, and in order: delivered, in the
\* helper's queue (up to b), on the transport (up to c), or in the writer's channel.
NothingLostOrReordered ==
  Up => \A s \in Side, k \in Key :
    LET m == Mirror(k)
        p == Peer(s)
        a == Len(arr[p][m])
        f == flushed[s][k]
    IN  Held(s, k) /\ Held(p, m) =>
          /\ InOrder(p, m)
          /\ \E b, c \in a..f :
               /\ Carries(uq[p], m, a, b) /\ b <= c /\ Carries(net[s], m, b, c)
               /\ wbuf[s][k] = [i \in 1..(f - c) |-> c + i]

\* The stream as its applications see it: the direction that ends in the read half
\* of side d[1] under key d[2].
Direction == Side \X Key
Pipe == INSTANCE StreamPipe WITH
  phase <- [d \in Direction |->
    IF rh[d[1]][d[2]] = "none" THEN "new"
    ELSE IF rh[d[1]][d[2]] = "open" /\ TxAlive(d[1], d[2]) THEN "open" ELSE "ended"],
  sent <- [d \in Direction |-> flushed[Peer(d[1])][Mirror(d[2])]],
  received <- [d \in Direction |-> arr[d[1]][d[2]]]

\* Every wired stream implements the promise of StreamPipe, in both directions and
\* whatever fails: no gap, no reordering, no duplicate, no return from the dead.
ImplementsPipe == Pipe!Spec

\* A side writes at most one Drop frame for a stream, however many halves are
\* dropped and whichever side drops first, and only after a half of its own was
\* closed: a drop that came from the peer is never sent back.
DropOnceNeverEchoed ==
  \A s \in Side, k \in Key :
    drops[s][k] <= 1 /\ (drops[s][k] = 1 => ~Held(s, k))

\* The stream has been opened on side s: connect() allotted its id, or the reader
\* has taken the id off the transport.
Opened(s, k) ==
  IF k[2] THEN k[1] <= nextId[s]
  ELSE k[1] <= nextId[Peer(s)] /\ ~Queued(net[Peer(s)], OpenFrame(k[1]))

Unknown(s, k) ==
  /\ wh[s][k] = "none" /\ rh[s][k] = "none" /\ k \notin wired[s] /\ drops[s][k] = 0
  /\ ~Queued(wq[s], Register(k)) /\ ~Queued(wq[s], Drop(k, TRUE))

Once(q, e) == \A i, j \in DOMAIN q : q[i] = e /\ q[j] = e => i = j

\* Why it is so.  An id is announced to the peer once.
AnnouncedOnce(s, id) ==
  /\ Once(net[s], OpenFrame(id))
  /\ Queued(net[s], OpenFrame(id)) => id <= nextId[s]

\* A side knows nothing of a stream before it is opened there; the stream enters
\* Wired.streams once, before any Drop frame is written for it; and a Drop that is
\* to be written is queued by a half that goes away.
EntersOnce(s, k) ==
  /\ Opened(s, k) \/ Unknown(s, k)
  /\ Once(wq[s], Register(k))
  /\ k \in wired[s] => ~Queued(wq[s], Register(k))
  /\ RxAlive(s, k) => drops[s][k] = 0
  /\ Queued(wq[s], Drop(k, TRUE)) => ~Held(s, k)
  /\ drops[s][k] > 0 => ~Held(s, k)
  /\ drops[s][k] <= 1

OpenedOnce ==
  /\ \A s \in Side, id \in WireId : AnnouncedOnce(s, id)
  /\ \A s \in Side, k \in Key : EntersOnce(s, k)

\* Nothing is queued or under way, and no flush is between its two sends.
Quiet == \A s \in Side : /\ wq[s] = <<>> /\ uq[s] = <<>> /\ net[s] = <<>>
                         /\ \A k \in Key : ~pend[s][k]

\* When all is quiet, the wired task, the helper and the two tasks of the other side
\* agree on which streams exist.
MapsAgree ==
  Up /\ Quiet => \A s \in Side : /\ wired[s] = helper[s]
                                 /\ wired[s] = {Mirror(k) : k \in wired[Peer(s)]}

\* When all is quiet, every flushed message has reached the other side's read half,
\* while the stream is held: none is left in the writer's channel for want of an event.
DeliveredWhenQuiet ==
  Up /\ Quiet => \A s \in Side, k \in Key :
    Held(s, k) /\ Held(Peer(s), Mirror(k)) => Len(arr[Peer(s)][Mirror(k)]) = flushed[s][k]

\* When a connection has been shut down with no fault, every event whose send
\* returned Ok has been given to the peer's handler.
ShutdownLosesNoEvent ==
  \A s \in Side :
    /\ ~broken /\ \A x \in Side : handle[x] # "dropped"
    /\ wstate[s] = "done" /\ reader[Peer(s)] # "run"
    => evHandled[Peer(s)] = evSent[s]

\* poll_read reports the end of a stream only when no more messages can come: the
\* helper has let go of the tx, and all it was sent has been read.
EofMeansEnd ==
  \A s \in Side, k \in Key :
    eof[s][k] => ~TxAlive(s, k) /\ cur[s][k] = Len(arr[s][k])

Stopped(s) == wstate[s] = "done" /\ ustate[s] = "done" /\ reader[s] = "done"

\* Liveness, under the fairness of the modules that compose Wired with its users.  What each
\* condition starts from, once true, stays true.  Once one side is shut down, or its handle
\* is dropped, all tasks of both sides come to an end.
ShutdownTerminates ==
  <>[](\A s \in Side : handle[s] # "held" => \A x \in Side : Stopped(x))

\* Over a transport that cannot half-close (IoSplit), a shutdown waits for an end-of-file that
\* never comes.  But once a WiredHandle or its shutdown future was dropped in time, on either
\* side, or the connection failed, the tasks never wait for each other: when none of them can
\* take a step, all of them, on both sides, have ended.
TearDownNeverStuck ==
  /\ broken \/ \E s \in Side : handle[s] = "dropped"
  /\ ~ENABLED (\E s \in Side : \/ WiredStep(s) \/ ReaderStep(s) \/ HelperStep(s)
                              \/ \E k \in Key : FlushEnd(s, k))
  => \A s \in Side : Stopped(s)

\* A stream one of whose halves is dropped goes from all four maps, and stays away.
DropPropagates ==
  <>[](\A s \in Side, k \in Key :
         wh[s][k] \in {"shut", "dropped"} \/ rh[s][k] = "dropped" =>
           /\ k \notin wired[s] \cup helper[s]
           /\ Mirror(k) \notin wired[Peer(s)] \cup helper[Peer(s)])

\* An event that was accepted is handled, as long as the connection is left up.
EventsHandled == <>[](Up => \A s \in Side : evHandled[Peer(s)] = evSent[s])
=============================================================================
