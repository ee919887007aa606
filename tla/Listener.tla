------------------------------ MODULE Listener ------------------------------
(***************************************************************************)
(* WireListener (wiring/src/core/listener.rs) with the two ends that use   *)
(* it: WireConfig::connect and WireStream::stream open connections (wire.rs) *)
(* and WireConfig::wire accepts them; Wire::stream on one end of a wire and *)
(* Unwire::stream on its other end (unwire.rs) meet in the wire's incoming *)
(* queue.  This is how a channel inside a message gets a stream of its own. *)
(*                                                                         *)
(* A wire is named by its end: <<c, "out">> is the WireStream of the node  *)
(* that opened connection c, <<c, "in">> that of the node that accepted it. *)
(* Wire ids and access keys are random and 64 and 128 bits wide: they are  *)
(* taken to be unique, and the end stands for its id and key.              *)
(***************************************************************************)
EXTENDS Naturals, Sequences

CONSTANTS
  Node,      \* the processes; each runs one WireListener
  MaxConns,  \* bound: connections opened
  Env        \* what the applications and the network may do: <<node, operation>>

ASSUME MaxConnsAssumption == MaxConns \in Nat
Operation == {"connect",     \* WireConfig<C>::connect, without a listener
              "connect_bi",  \* WireConfig<C, UnboundedSender>::connect
              "stream",      \* Wire::stream, to send a channel
              "accept",      \* WireConfig::wire::<false>
              "accept_return", \* WireConfig::wire::<true>
              "cancel",      \* drop the future of connect or stream
              "drop",        \* drop a WireStream, or the halves it was split into
              "drop_half",   \* drop one of the halves
              "deaf",        \* drop the receiver that handle_wire sends to
              "shutdown", "fail"}
ASSUME EnvAssumption == Env \subseteq Node \X Operation
May(n, op) == <<n, op>> \in Env

Conn == 1..MaxConns
End == Conn \X {"out", "in"}
Out(c) == <<c, "out">>
In(c) == <<c, "in">>
Mirror(e) == IF e[2] = "out" THEN In(e[1]) ELSE Out(e[1])

\* The wire whose stream() opened the connection; NoEnd for a root connection.
NoEnd == <<0, "root">>

\* WireListenerEvent
Outgoing(c) == [t |-> "outgoing", c |-> c]
Incoming(c, reply) == [t |-> "incoming", c |-> c, reply |-> reply]
DropWire(e) == [t |-> "drop", e |-> e]
Shutdown == [t |-> "shutdown"]
WireListenerEvent ==
  {Shutdown} \cup [t : {"outgoing"}, c : Conn] \cup [t : {"drop"}, e : End]
    \cup [t : {"incoming"}, c : Conn, reply : BOOLEAN]

VARIABLES
  conns,     \* the connections opened: who, to whom, for which wire, bi-directional
  up,        \* how far a connection is: "new", "hello" (the opener has written its
             \* info and forward info), "accepted", "welcome" (the listener has
             \* written its info), "lost"
  call,      \* the connect() or stream() that opened it: "reply" (waits for its own
             \* listener), "info" (waits for the peer's), "done", "failed"
  waiting,   \* connections whose wire::<true> waits for the listener's reply
  at,        \* a WireStream is "none", "queued" in an incoming queue, "held" by the
             \* application, in one piece or two, or "dropped"; or what is held of it is
             \* its "read_half" or its "write_half"
  incoming,  \* Local.incoming of each wire
  ids,       \* ids on their way to the wire, written by its peer's stream()
  watch,     \* signal_wire_drop of each wire: "none", "spawned", "ended"
  inbox, lstate,  \* each listener's inbox, "open", "closed" or "done"
  wires,     \* the registry of each listener
  mid,       \* the connection whose info the listener has written and whose wire it
             \* has not yet handed on; 0: none
  handler    \* handle_wire of each listener succeeds

vars == <<conns, up, call, waiting, at, incoming, ids, watch, inbox, lstate, wires, mid,
          handler>>

Init ==
  /\ conns = <<>> /\ waiting = {}
  /\ up = [c \in Conn |-> "new"] /\ call = [c \in Conn |-> "reply"]
  /\ at = [e \in End |-> "none"] /\ watch = [e \in End |-> "none"]
  /\ incoming = [e \in End |-> <<>>] /\ ids = [e \in End |-> <<>>]
  /\ inbox = [n \in Node |-> <<>>] /\ lstate = [n \in Node |-> "open"]
  /\ wires = [n \in Node |-> {}] /\ mid = [n \in Node |-> 0]
  /\ handler = [n \in Node |-> TRUE]

Opened == DOMAIN conns
Ends == {Out(c) : c \in Opened} \cup {In(c) : c \in Opened}
Owner(e) == IF e[2] = "out" THEN conns[e[1]].from ELSE conns[e[1]].to
Parent(c) == conns[c].parent

\* connect() or stream() is under way: its new wire is not out yet, and the wire whose
\* stream() runs is borrowed, its write half if it is split.
Calling(c) == c \in Opened /\ call[c] \in {"reply", "info"}
Opening(e) == \E c \in Opened : Calling(c) /\ e = Out(c)
Borrowed(e) == \E c \in Opened : Calling(c) /\ Parent(c) = e

\* split: the read half has the incoming queue, the write half the peer's info.
CanTake(e) == at[e] \in {"held", "read_half"}
CanOpen(e) == at[e] \in {"held", "write_half"}
QueueGone(e) == at[e] \in {"write_half", "dropped"}

\* Dropping wires drops the wires queued in them.
QueuedIn(E) == {d \in End : \E e \in E : \E i \in DOMAIN incoming[e] : incoming[e][i] = d}
DroppedAlone(E) == [e \in End |-> IF e \in E THEN "dropped" ELSE at[e]]
Dropped(E) == [e \in End |-> IF e \in E \cup QueuedIn(E) THEN "dropped" ELSE at[e]]
Emptied(E) == [e \in End |-> IF e \in E THEN <<>> ELSE incoming[e]]

\* A send on the inbox fails once it is closed.
Post(n, m) ==
  inbox' = IF lstate[n] = "open" THEN [inbox EXCEPT ![n] = Append(@, m)] ELSE inbox

-----------------------------------------------------------------------------
(* Opening a connection.                                                   *)

\* The connection is made.  With a listener of its own the node posts the stream to
\* it; without, it writes "no info" and the forward info itself.
Open(n, m, parent, bi) ==
  /\ Len(conns) < MaxConns
  /\ LET c == Len(conns) + 1
     IN  /\ conns' = Append(conns, [from |-> n, to |-> m, parent |-> parent, bi |-> bi])
         /\ IF bi
            THEN /\ Post(n, Outgoing(c))
                 /\ call' = [call EXCEPT ![c] = IF lstate[n] = "open" THEN "reply" ELSE "failed"]
                 /\ up' = [up EXCEPT ![c] = IF lstate[n] = "open" THEN "new" ELSE "lost"]
                 /\ UNCHANGED at
            ELSE /\ call' = [call EXCEPT ![c] = "info"]
                 /\ up' = [up EXCEPT ![c] = "hello"]
                 /\ at' = [at EXCEPT ![Out(c)] = "held"]
                 /\ UNCHANGED inbox
  /\ UNCHANGED <<waiting, incoming, ids, watch, lstate, wires, mid, handler>>

\* WireConfig::connect
Connect(n, m) ==
  /\ n # m
  /\ \/ May(n, "connect") /\ Open(n, m, NoEnd, FALSE)
     \/ May(n, "connect_bi") /\ Open(n, m, NoEnd, TRUE)

\* Wire::stream: the wire knows its peer, that is, it opened the connection or its
\* peer sent its info.
StreamOn(e) ==
  /\ May(Owner(e), "stream")
  /\ CanOpen(e) /\ ~Borrowed(e) /\ ~Opening(e)
  /\ e[2] = "out" \/ conns[e[1]].bi
  /\ Open(Owner(e), Owner(Mirror(e)), e, conns[e[1]].bi)

\* The call fails, or its future is dropped: so is the new wire.
Fails(c) ==
  /\ call' = [call EXCEPT ![c] = "failed"]
  /\ at' = IF at[Out(c)] = "held" THEN Dropped({Out(c)}) ELSE at
  /\ incoming' = IF at[Out(c)] = "held" THEN Emptied({Out(c)}) ELSE incoming

\* The peer's info arrives.  stream() then writes the id in it on its own wire.
InfoRead(c) ==
  /\ call[c] = "info" /\ up[c] = "welcome"
  /\ call' = [call EXCEPT ![c] = "done"]
  /\ IF Parent(c) = NoEnd THEN UNCHANGED ids
     ELSE ids' = [ids EXCEPT ![Mirror(Parent(c))] = Append(@, In(c))]
  /\ UNCHANGED <<conns, up, waiting, at, incoming, watch, inbox, lstate, wires, mid, handler>>

\* Reading the info fails, or writing the id on a wire whose other end is gone.
InfoFails(c) ==
  /\ call[c] = "info"
  /\ \/ up[c] = "lost" \/ at[In(c)] = "dropped"
     \/ up[c] = "welcome" /\ Parent(c) # NoEnd /\ at[Mirror(Parent(c))] = "dropped"
     \/ May(conns[c].from, "fail")
  /\ Fails(c)
  /\ UNCHANGED <<conns, up, waiting, ids, watch, inbox, lstate, wires, mid, handler>>

Cancel(c) ==
  /\ May(conns[c].from, "cancel")
  /\ Calling(c)
  /\ Fails(c)
  /\ UNCHANGED <<conns, up, waiting, ids, watch, inbox, lstate, wires, mid, handler>>

\* WireConfig::wire reads the opener's info and forward info and posts the stream.
Accept(c) ==
  /\ up[c] = "hello"
  /\ \E reply \in BOOLEAN :
       /\ May(conns[c].to, IF reply THEN "accept_return" ELSE "accept")
       /\ Post(conns[c].to, Incoming(c, reply))
       /\ waiting' = IF reply /\ lstate[conns[c].to] = "open"
                     THEN waiting \cup {c} ELSE waiting
  /\ up' = [up EXCEPT ![c] = IF lstate[conns[c].to] = "open" THEN "accepted" ELSE "lost"]
  /\ UNCHANGED <<conns, call, at, incoming, ids, watch, lstate, wires, mid, handler>>

-----------------------------------------------------------------------------
(* The listener.                                                           *)

ListenAt(n, t) == mid[n] = 0 /\ inbox[n] # <<>> /\ Head(inbox[n]).t = t
Pop(n) == inbox' = [inbox EXCEPT ![n] = Tail(@)]

\* OutgoingWire: the info and the forward info are written, the wire registered and
\* handed to the caller; a caller that is gone drops it.
ListenOutgoing(n) ==
  /\ ListenAt(n, "outgoing")
  /\ Pop(n)
  /\ LET c == Head(inbox[n]).c
     IN  /\ up' = [up EXCEPT ![c] = "hello"]
         /\ wires' = [wires EXCEPT ![n] = @ \cup {Out(c)}]
         /\ watch' = [watch EXCEPT ![Out(c)] = "spawned"]
         /\ IF call[c] = "reply"
            THEN /\ at' = [at EXCEPT ![Out(c)] = "held"]
                 /\ call' = [call EXCEPT ![c] = "info"]
            ELSE at' = [at EXCEPT ![Out(c)] = "dropped"] /\ UNCHANGED call
  /\ UNCHANGED <<conns, waiting, incoming, ids, lstate, mid, handler>>

\* Writing fails: the caller gets the error, nothing is registered.
ListenOutgoingFails(n) ==
  /\ ListenAt(n, "outgoing")
  /\ May(n, "fail")
  /\ Pop(n)
  /\ LET c == Head(inbox[n]).c
     IN  up' = [up EXCEPT ![c] = "lost"] /\ call' = [call EXCEPT ![c] = "failed"]
  /\ UNCHANGED <<conns, waiting, at, incoming, ids, watch, lstate, wires, mid, handler>>

\* Incomingwire, up to its await: the listener's info is written (or lost).
ListenIncoming(n) ==
  /\ ListenAt(n, "incoming")
  /\ LET c == Head(inbox[n]).c
     IN  up' = [up EXCEPT ![c] = "welcome"] /\ mid' = [mid EXCEPT ![n] = c]
  /\ UNCHANGED <<conns, call, waiting, at, incoming, ids, watch, inbox, lstate, wires, handler>>

\* Forward info: the wire goes to the incoming queue of the wire it names, if that is
\* registered and not dropped.
Forward(n, c) ==
  LET target == Mirror(Parent(c))
  IN  /\ IF target \in wires[n] /\ ~QueueGone(target)
         THEN /\ incoming' = [incoming EXCEPT ![target] = Append(@, In(c))]
              /\ at' = [at EXCEPT ![In(c)] = "queued"]
         ELSE at' = [at EXCEPT ![In(c)] = "dropped"] /\ UNCHANGED incoming
      /\ UNCHANGED <<wires, lstate>>

\* A root wire is registered and given to the caller of wire::<true>, or to
\* handle_wire, whose error closes the inbox.
HandOverUnregistered(n, c, reply) ==
  /\ at' = [at EXCEPT ![In(c)] = IF reply \/ handler[n] THEN "held" ELSE "dropped"]
  /\ lstate' = [lstate EXCEPT ![n] = IF reply \/ handler[n] THEN @ ELSE "closed"]
  /\ UNCHANGED <<wires, incoming>>
HandOverShadowed(n, c, reply) ==
  /\ wires' = [wires EXCEPT ![n] = @ \cup {Parent(c)}]
  /\ at' = [at EXCEPT ![In(c)] = IF reply \/ handler[n] THEN "held" ELSE "dropped"]
  /\ lstate' = [lstate EXCEPT ![n] = IF reply \/ handler[n] THEN @ ELSE "closed"]
  /\ UNCHANGED incoming
HandOver(n, c, reply) ==
  /\ wires' = [wires EXCEPT ![n] = @ \cup {In(c)}]
  /\ at' = [at EXCEPT ![In(c)] = IF reply \/ handler[n] THEN "held" ELSE "dropped"]
  /\ lstate' = [lstate EXCEPT ![n] = IF reply \/ handler[n] THEN @ ELSE "closed"]
  /\ UNCHANGED incoming

\* The rest of Incomingwire.
ListenPlaceUnwatched(n) ==
  /\ mid[n] # 0
  /\ Pop(n) /\ mid' = [mid EXCEPT ![n] = 0]
  /\ LET c == mid[n]
     IN  /\ IF Parent(c) = NoEnd THEN HandOver(n, c, Head(inbox[n]).reply) ELSE Forward(n, c)
         /\ waiting' = waiting \ {c}
         /\ UNCHANGED watch
  /\ UNCHANGED <<conns, up, call, ids, handler>>
ListenPlaceNoReply(n) ==
  /\ mid[n] # 0
  /\ Pop(n) /\ mid' = [mid EXCEPT ![n] = 0]
  /\ LET c == mid[n]
     IN  /\ IF Parent(c) = NoEnd THEN HandOver(n, c, Head(inbox[n]).reply) ELSE Forward(n, c)
         /\ waiting' = IF Parent(c) = NoEnd THEN waiting \ {c} ELSE waiting
         /\ watch' = [watch EXCEPT ![In(c)] = "spawned"]
  /\ UNCHANGED <<conns, up, call, ids, handler>>
ListenPlace(n) ==
  /\ mid[n] # 0
  /\ Pop(n) /\ mid' = [mid EXCEPT ![n] = 0]
  /\ LET c == mid[n]
     IN  /\ IF Parent(c) = NoEnd THEN HandOver(n, c, Head(inbox[n]).reply) ELSE Forward(n, c)
         /\ waiting' = waiting \ {c}
         /\ watch' = [watch EXCEPT ![In(c)] = "spawned"]
  /\ UNCHANGED <<conns, up, call, ids, handler>>

ListenDrop(n) ==
  /\ ListenAt(n, "drop")
  /\ Pop(n)
  /\ wires' = [wires EXCEPT ![n] = @ \ {Head(inbox[n]).e}]
  /\ UNCHANGED <<conns, up, call, waiting, at, incoming, ids, watch, lstate, mid, handler>>

ListenShutdownIgnored(n) ==
  /\ ListenAt(n, "shutdown")
  /\ Pop(n)
  /\ UNCHANGED <<conns, up, call, waiting, at, incoming, ids, watch, lstate, wires, mid, handler>>
ListenShutdown(n) ==
  /\ ListenAt(n, "shutdown")
  /\ Pop(n)
  /\ lstate' = [lstate EXCEPT ![n] = "closed"]
  /\ UNCHANGED <<conns, up, call, waiting, at, incoming, ids, watch, wires, mid, handler>>

\* recv gives None: the loop ends and its registry goes.  The loop holds a sender of
\* its own inbox, so that only close() brings it here.
ListenEnd(n) ==
  /\ lstate[n] = "closed" /\ inbox[n] = <<>> /\ mid[n] = 0
  /\ lstate' = [lstate EXCEPT ![n] = "done"]
  /\ wires' = [wires EXCEPT ![n] = {}]
  /\ UNCHANGED <<conns, up, call, waiting, at, incoming, ids, watch, inbox, mid, handler>>

ListenStep(n) ==
  \/ ListenOutgoing(n) \/ ListenOutgoingFails(n) \/ ListenIncoming(n) \/ ListenPlace(n)
  \/ ListenDrop(n) \/ ListenShutdown(n) \/ ListenEnd(n)

-----------------------------------------------------------------------------
(* The wires of the applications.                                          *)

\* Unwire::stream: an id is read, and the head of the incoming queue taken, whatever
\* the id.  Without one the call fails, and with it the task that reads the wire.
TakeStreamLast(e) ==
  /\ CanTake(e) /\ ~Opening(e) /\ ids[e] # <<>> /\ Len(incoming[e]) > 0
  /\ ids' = [ids EXCEPT ![e] = Tail(@)]
  /\ incoming' = [incoming EXCEPT ![e] = SubSeq(@, 1, Len(@) - 1)]
  /\ at' = [at EXCEPT ![incoming[e][Len(incoming[e])]] = "held"]
  /\ UNCHANGED <<conns, up, call, waiting, watch, inbox, lstate, wires, mid, handler>>
TakeStream(e) ==
  /\ CanTake(e) /\ ~Opening(e) /\ ids[e] # <<>>
  /\ ids' = [ids EXCEPT ![e] = Tail(@)]
  /\ IF incoming[e] # <<>>
     THEN /\ incoming' = [incoming EXCEPT ![e] = Tail(@)]
          /\ at' = [at EXCEPT ![Head(incoming[e])] = "held"]
     ELSE /\ at' = [at EXCEPT ![e] = IF Borrowed(e) THEN "write_half" ELSE "dropped"]
          /\ UNCHANGED incoming
  /\ UNCHANGED <<conns, up, call, waiting, watch, inbox, lstate, wires, mid, handler>>

DropStream(e) ==
  /\ May(Owner(e), "drop")
  /\ CanTake(e) \/ CanOpen(e)
  /\ ~Borrowed(e) /\ ~Opening(e)
  /\ at' = Dropped({e})
  /\ incoming' = Emptied({e})
  /\ UNCHANGED <<conns, up, call, waiting, ids, watch, inbox, lstate, wires, mid, handler>>

\* One half of a wire that was split is dropped; with the read half goes the queue.
DropReadHalf(e) ==
  /\ May(Owner(e), "drop_half")
  /\ at[e] = "held" /\ ~Opening(e)
  /\ at' = [Dropped({e}) EXCEPT ![e] = "write_half"]
  /\ incoming' = Emptied({e})
  /\ UNCHANGED <<conns, up, call, waiting, ids, watch, inbox, lstate, wires, mid, handler>>
DropWriteHalf(e) ==
  /\ May(Owner(e), "drop_half")
  /\ at[e] = "held" /\ ~Borrowed(e) /\ ~Opening(e)
  /\ at' = [at EXCEPT ![e] = "read_half"]
  /\ UNCHANGED <<conns, up, call, waiting, incoming, ids, watch, inbox, lstate, wires, mid,
                 handler>>

\* signal_wire_drop: tx.closed() returns, DropWire is posted.
SignalDrop(e) ==
  /\ QueueGone(e) /\ watch[e] = "spawned"
  /\ watch' = [watch EXCEPT ![e] = "ended"]
  /\ Post(Owner(e), DropWire(e))
  /\ UNCHANGED <<conns, up, call, waiting, at, incoming, ids, lstate, wires, mid, handler>>

\* WireConfig::shutdown
ShutdownListener(n) ==
  /\ May(n, "shutdown") /\ lstate[n] = "open"
  /\ \A i \in DOMAIN inbox[n] : inbox[n][i] # Shutdown
  /\ Post(n, Shutdown)
  /\ UNCHANGED <<conns, up, call, waiting, at, incoming, ids, watch, lstate, wires, mid, handler>>

GoDeaf(n) ==
  /\ May(n, "deaf") /\ handler[n]
  /\ handler' = [handler EXCEPT ![n] = FALSE]
  /\ UNCHANGED <<conns, up, call, waiting, at, incoming, ids, watch, inbox, lstate, wires, mid>>

ConnStep(c) == InfoRead(c) \/ InfoFails(c) \/ Accept(c)

Next ==
  \/ \E n, m \in Node : Connect(n, m)
  \/ \E n \in Node : ListenStep(n) \/ ShutdownListener(n) \/ GoDeaf(n)
  \/ \E c \in Opened : ConnStep(c) \/ Cancel(c)
  \/ \E e \in Ends : StreamOn(e) \/ TakeStream(e) \/ SignalDrop(e)
                     \/ DropStream(e) \/ DropReadHalf(e) \/ DropWriteHalf(e)

Spec == Init /\ [][Next]_vars

\* The tasks are polled, and the accept loop runs on.  Nothing obliges the
\* applications to open, take or drop anything.
Fairness ==
  /\ \A n \in Node : WF_vars(ListenStep(n))
  /\ \A c \in Conn : WF_vars(c \in Opened /\ ConnStep(c))
  /\ \A e \in End : WF_vars(e \in Ends /\ SignalDrop(e))

FairSpec == Spec /\ Fairness

-----------------------------------------------------------------------------
(* Properties.                                                             *)

\* The type invariant.
TypeOK ==
  /\ conns \in Seq([from : Node, to : Node, parent : End \cup {NoEnd}, bi : BOOLEAN])
  /\ Len(conns) <= MaxConns
  /\ up \in [Conn -> {"new", "hello", "accepted", "welcome", "lost"}]
  /\ call \in [Conn -> {"reply", "info", "done", "failed"}]
  /\ waiting \subseteq Opened
  /\ at \in [End -> {"none", "queued", "held", "read_half", "write_half", "dropped"}]
  /\ watch \in [End -> {"none", "spawned", "ended"}]
  /\ incoming \in [End -> Seq(End)] /\ ids \in [End -> Seq(End)]
  /\ inbox \in [Node -> Seq(WireListenerEvent)]
  /\ lstate \in [Node -> {"open", "closed", "done"}]
  /\ wires \in [Node -> SUBSET End] /\ mid \in [Node -> 0..MaxConns]
  /\ handler \in [Node -> BOOLEAN]

\* stream() on e was cancelled or failed, after which e is out of step with its peer.
OutOfStep(e) == \E c \in Opened : Parent(c) = e /\ call[c] = "failed"

\* What Unwire::stream hands over is the wire whose id it has read, although it looks
\* at no id: as long as the peer never gave up a stream() half-way.
Paired ==
  \A e \in Ends :
    ids[e] # <<>> /\ incoming[e] # <<>> /\ ~OutOfStep(Mirror(e)) =>
      Head(ids[e]) = Head(incoming[e])

\* A wire waits in the incoming queue of exactly one live wire, and is nowhere else.
InQueue(e, d) == \E i \in DOMAIN incoming[e] : incoming[e][i] = d
QueuedOnce ==
  /\ \A d \in Ends : at[d] = "queued" <=> \E e \in Ends : InQueue(e, d)
  /\ \A e, f \in Ends : \A i \in DOMAIN incoming[e], j \in DOMAIN incoming[f] :
       incoming[e][i] = incoming[f][j] => e = f /\ i = j
  /\ \A e \in Ends : incoming[e] # <<>> => CanTake(e)

\* The comment in Unwire::stream: "first we unwire wire_id, first which enable us to
\* use try_recv", that is, when the id has come the wire is in the queue.
StreamFindsWire ==
  \A e \in Ends :
    at[e] = "held" /\ ids[e] # <<>> /\ ~OutOfStep(Mirror(e)) /\ lstate[Owner(e)] = "open"
      => incoming[e] # <<>>

\* A root wire, and each wire of a bi-directional opener, is found by the listener for
\* as long as its read half is held.
FoundWhileAlive ==
  \A e \in Ends :
    /\ CanTake(e) /\ lstate[Owner(e)] # "done"
    /\ IF e[2] = "in" THEN Parent(e[1]) = NoEnd ELSE conns[e[1]].bi
    => e \in wires[Owner(e)]

\* README "Nested Channels": any wire the application holds can carry a further
\* channel, at any depth: what is forwarded to it is found.
NestedFound ==
  \A n \in Node :
    LET c == mid[n]
        target == Mirror(Parent(c))
    IN  c # 0 /\ Parent(c) # NoEnd /\ at[target] = "held" => target \in wires[n]

\* The registry forgets a wire that is dropped, or of which the read half is, for good.
NoRegistryLeak ==
  \A e \in End : QueueGone(e) ~> [](\A n \in Node : e \notin wires[n])

\* connect(), stream() and wire::<true> return.
CallersAnswered ==
  /\ \A c \in Conn : c \in Opened /\ Calling(c) ~> ~Calling(c)
  /\ \A c \in Conn : c \in waiting ~> c \notin waiting

\* A listener that is shut down, or whose handler fails, handles what is queued and ends.
ShutdownStops ==
  \A n \in Node : lstate[n] = "closed" \/ (\E i \in DOMAIN inbox[n] : inbox[n][i] = Shutdown)
    ~> lstate[n] = "done"
=============================================================================
